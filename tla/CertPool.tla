----------------------------- MODULE CertPool ------------------------------
(***************************************************************************)
(* LoadCertificatePool of package tls (src/go/crypto/tls/cert_pool.go):   *)
(* the choice between certString, certFile and certs, the base64 decode,  *)
(* the loop over certificate values and the update of the caller's pool.   *)
(*                                                                         *)
(* A *x509.CertPool is a reference, so pools live in a heap from pool ids  *)
(* to the certificates they hold; the caller keeps some pools and calls    *)
(* the function on them or on nil.  Bytes are integers 0..255; a byte of   *)
(* PEM text stands for one PEM block (PemText says which), so that the     *)
(* base64 step works on real bytes while PEM parsing stays abstract.       *)
(***************************************************************************)
EXTENDS Integers, Sequences, SequencesExt, FiniteSets, Bitwise

CONSTANTS
    Certs,         \* certificates (model values)
    BadDER,        \* DER bytes x509.ParseCertificate rejects
    NoCert,        \* PEM text that is not a CERTIFICATE block
    PemText,       \* byte -> Certs \cup {BadDER, NoCert}: the PEM block it stands for
    Payloads,      \* PEM byte strings the caller may encode
    Files,         \* file name -> [ok, bytes]: what ioutil.ReadFile returns
    CertValues,    \* values the caller may pass in certs...
    MaxCerts,      \* longest certs... list
    CallerPools,   \* pool id -> certificates, the pools the caller created
    FreshPools,    \* ids x509.NewCertPool may return
    NoPool         \* a nil *x509.CertPool

VARIABLES pools, held

vars == <<pools, held>>

(***************************************************************************)
(* base64 text as a sequence of 6-bit values, with Pad for '='.  The       *)
(* encoders are the caller's (base64.StdEncoding and RawStdEncoding); the  *)
(* decoder is what the function calls.                                      *)
(***************************************************************************)
Pad == 64

RECURSIVE RawEncode(_)
RawEncode(b) ==
    IF b = << >> THEN << >>
    ELSE LET b2 == IF Len(b) >= 2 THEN b[2] ELSE 0
             b3 == IF Len(b) >= 3 THEN b[3] ELSE 0
             q  == << shiftR(b[1], 2), (b[1] & 3) * 16 + shiftR(b2, 4),
                     (b2 & 15) * 4 + shiftR(b3, 6), b3 & 63 >>
         IN IF Len(b) >= 3 THEN q \o RawEncode(SubSeq(b, 4, Len(b)))
            ELSE SubSeq(q, 1, Len(b) + 1)

StdEncode(b) == LET r == RawEncode(b) IN r \o [k \in 1 .. ((4 - (Len(r) % 4)) % 4) |-> Pad]

\* The text certString holds: empty, or a payload in either encoding.
Strings == [enc : {"none"}, p : {<< >>}] \cup [enc : {"std", "raw"}, p : Payloads]

Text(s) == CASE s.enc = "none" -> << >>
             [] s.enc = "std"  -> StdEncode(s.p)
             [] s.enc = "raw"  -> RawEncode(s.p)

\* base64.StdEncoding.DecodeString: quanta of four; '=' only ends the
\* last quantum, as "xx==" (one byte) or "xxx=" (two); a short quantum is
\* an error.  Padding is required.
RECURSIVE DecodeString(_)
DecodeString(s) ==
    IF s = << >> THEN [ok |-> TRUE, bytes |-> << >>]
    ELSE IF Len(s) < 4 THEN [ok |-> FALSE, bytes |-> << >>]
    ELSE LET c    == SubSeq(s, 1, 4)
             final == Len(s) = 4
             b    == << c[1] * 4 + shiftR(c[2], 4), (c[2] & 15) * 16 + shiftR(c[3], 2),
                       (c[3] & 3) * 64 + c[4] >>
             rest == DecodeString(SubSeq(s, 5, Len(s)))
         IN CASE Pad \in {c[1], c[2]}     -> [ok |-> FALSE, bytes |-> << >>]
              [] c[3] = Pad /\ c[4] = Pad -> [ok |-> final, bytes |-> SubSeq(b, 1, 1)]
              [] c[3] = Pad               -> [ok |-> FALSE, bytes |-> << >>]
              [] c[4] = Pad               -> [ok |-> final, bytes |-> SubSeq(b, 1, 2)]
              [] OTHER                    -> [rest EXCEPT !.bytes = b \o @]

(***************************************************************************)
(* The pool.  h = [pools, full]: full is set when NewCertPool finds no    *)
(* free id, and such a call is not taken.                                  *)
(***************************************************************************)
\* Mutant of EnsurePool: the nil test dropped.
EnsurePoolAlwaysNew(h, pool) ==
    LET free == {q \in FreshPools : q \notin DOMAIN h.pools} IN
    IF free = {} THEN [h |-> [h EXCEPT !.full = TRUE], pool |-> pool]
    ELSE LET q == CHOOSE q \in free : TRUE IN
         [h |-> [h EXCEPT !.pools = (q :> {}) @@ @], pool |-> q]

\* if certPool == nil { certPool = x509.NewCertPool() }
EnsurePool(h, pool) ==
    IF pool # NoPool THEN [h |-> h, pool |-> pool]
    ELSE LET free == {q \in FreshPools : q \notin DOMAIN h.pools} IN
         IF free = {} THEN [h |-> [h EXCEPT !.full = TRUE], pool |-> pool]
         ELSE LET q == CHOOSE q \in free : TRUE IN
              [h |-> [h EXCEPT !.pools = (q :> {}) @@ @], pool |-> q]

\* certPool.AppendCertsFromPEM(pemCerts): every CERTIFICATE block whose DER
\* parses is added; ok reports that one was.
AppendCertsFromPEM(h, pool, pem) ==
    LET got == {PemText[pem[k]] : k \in DOMAIN pem} \cap Certs IN
    [h |-> [h EXCEPT !.pools[pool] = @ \cup got], ok |-> got # {}]

Result(h, pool, err) == [h |-> h, pool |-> pool, err |-> err]

\* The tail of the function, from if len(tlsCertBytes) == 0.
FromPEM(h, certPool, bytes) ==
    IF bytes = << >> THEN Result(h, NoPool, "ErrInvalidCertificateConfiguration")
    ELSE LET e == EnsurePool(h, certPool)
             a == AppendCertsFromPEM(e.h, e.pool, bytes)
         IN IF e.h.full THEN Result(e.h, NoPool, "none")
            ELSE IF a.ok THEN Result(a.h, e.pool, "none")
            ELSE Result(a.h, NoPool, "failed to append certificates")

\* Mutant of Parsed: the parse error of a chain entry not checked.
ParsedNoErrCheck(v) ==
    IF v.kind \in {"*x509", "x509"} THEN {v.cert}
    ELSE IF v.kind \in {"*tls", "tls"} THEN {v.chain[k] : k \in DOMAIN v.chain}
    ELSE {}

\* The certificates one element of certs... adds: a parsed certificate, or
\* every entry of a tls.Certificate chain that x509.ParseCertificate accepts.
Parsed(v) ==
    IF v.kind \in {"*x509", "x509"} THEN {v.cert}
    ELSE IF v.kind \in {"*tls", "tls"} THEN {v.chain[k] : k \in DOMAIN v.chain} \cap Certs
    ELSE {}

\* Mutant of AddCertValue: loaded declared inside the loop body.
AddCertValueLoadedInLoop(r, v) ==
    LET e == EnsurePool(r.h, r.pool)
        got == Parsed(v)
    IN IF e.h.full THEN [r EXCEPT !.h = e.h]
       ELSE [h |-> [e.h EXCEPT !.pools[e.pool] = @ \cup got], pool |-> e.pool,
             loaded |-> got # {}]

\* One iteration of for _, cert := range certs: the pool is made before
\* the type switch; loaded is set when a certificate was added.
AddCertValue(r, v) ==
    LET e == EnsurePool(r.h, r.pool)
        got == Parsed(v)
    IN IF e.h.full THEN [r EXCEPT !.h = e.h]
       ELSE [h |-> [e.h EXCEPT !.pools[e.pool] = @ \cup got], pool |-> e.pool,
             loaded |-> r.loaded \/ got # {}]

LoadCertificatePool(h, certPool, certString, certFile, certs) ==
    CASE certString = << >> /\ certFile = "" /\ certs = << >> ->
              Result(h, NoPool, "ErrNoCertificatesConfigured")
      [] certString # << >> ->
              LET d == DecodeString(certString) IN
              IF d.ok THEN FromPEM(h, certPool, d.bytes)
              ELSE Result(h, NoPool, "unable to base64 decode the TLS certificate")
      [] certFile # "" ->
              IF ~Files[certFile].ok THEN Result(h, NoPool, "ReadFile")
              ELSE FromPEM(h, certPool, Files[certFile].bytes)
      [] OTHER ->
              LET r == FoldLeft(AddCertValue, [h |-> h, pool |-> certPool, loaded |-> FALSE], certs) IN
              IF r.loaded THEN Result(r.h, r.pool, "none") ELSE FromPEM(r.h, r.pool, << >>)

(***************************************************************************)
(* The caller: it calls the function on nil or a pool it holds, and keeps  *)
(* the pool returned.                                                      *)
(***************************************************************************)
Args ==
    [pool : held \cup {NoPool}, s : Strings, file : DOMAIN Files \cup {""},
     certs : BoundedSeq(CertValues, MaxCerts)]

Call(a) == LoadCertificatePool([pools |-> pools, full |-> FALSE], a.pool, Text(a.s), a.file, a.certs)

Load(a) ==
    LET res == Call(a) IN
    /\ ~res.h.full
    /\ pools' = res.h.pools
    /\ held' = IF res.pool = NoPool THEN held ELSE held \cup {res.pool}

Init ==
    /\ pools = CallerPools
    /\ held = DOMAIN CallerPools

Next == \E a \in Args : Load(a)

Spec == Init /\ [][Next]_vars

(***************************************************************************)
(* Properties, over every call the caller can make from the current       *)
(* state: its arguments, the pools before it, the pool it returns and its *)
(* error.                                                                  *)
(***************************************************************************)
TypeOK ==
    /\ \A q \in DOMAIN pools : pools[q] \subseteq Certs
    /\ held \subseteq DOMAIN pools

\* The certificates the doc comment says are loaded from each source.
PemCerts(p) == {PemText[p[k]] : k \in DOMAIN p} \cap Certs

ValueCerts(cs) ==
    UNION {IF cs[k].kind \in {"*x509", "x509"} THEN {cs[k].cert}
           ELSE {cs[k].chain[j] : j \in DOMAIN cs[k].chain} \cap Certs : k \in DOMAIN cs}

\* The first source given, in the order certString, certFile, certs.
Selected(a) ==
    CASE a.s.enc # "none" -> PemCerts(a.s.p)
      [] a.file # ""      -> PemCerts(Files[a.file].bytes)
      [] OTHER            -> ValueCerts(a.certs)

\* The existing pools after a call r.
Kept(r) == [q \in DOMAIN pools |-> r.h.pools[q]]

\* A call that returns an error leaves every existing pool as it was,
\* whichever source failed and after however many certs... values were
\* looked at.  Breaks if certificates reach the caller's pool on a path
\* that then reports failure.
ErrorLeavesPoolsUnchanged ==
    \A a \in Args : LET r == Call(a) IN
        ~r.h.full /\ r.err # "none" => Kept(r) = pools

\* A call that succeeds updates the caller's pool in place (or a new one
\* for nil) with exactly the certificates of the first source given, and
\* touches no other pool.  Breaks if a later source is read, a pool is
\* replaced, or a certificate is lost or invented.
LoadedExactlySelected ==
    \A a \in Args : LET r == Call(a) IN
        ~r.h.full /\ r.err = "none" =>
            /\ a.pool # NoPool => r.pool = a.pool
            /\ Selected(a) # {}
            /\ r.h.pools[r.pool] = (IF a.pool = NoPool THEN {} ELSE pools[a.pool]) \cup Selected(a)
            /\ \A q \in DOMAIN pools \ {r.pool} : r.h.pools[q] = pools[q]

====
