CONSTANTS
    c1 = c1  c2 = c2  p1 = p1  p2 = p2  F1 = F1  F2 = F2
    Certs = {c1, c2}
    BadDER = BadDER
    NoCert = NoCert
    PemText <- MCPemText
    Payloads <- MCPayloads
    Files <- MCFiles
    CertValues <- MCCertValues
    MaxCerts = 2
    CallerPools <- MCCallerPools
    FreshPools = {F1, F2}
    NoPool = NoPool
SPECIFICATION Spec
INVARIANTS
    TypeOK
    ErrorLeavesPoolsUnchanged
    LoadedExactlySelected
