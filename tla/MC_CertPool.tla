---------------------------- MODULE MC_CertPool ----------------------------
(***************************************************************************)
(* Model of LoadCertificatePool for TLC: two certificates; PEM text made  *)
(* of a block for each, a CERTIFICATE block that does not parse and a     *)
(* non-certificate block; payloads of two and three bytes (so encodings    *)
(* with and without padding); a file with a certificate, an empty file   *)
(* and a missing one; two caller pools, one empty and one holding c1.      *)
(***************************************************************************)
EXTENDS CertPool

CONSTANTS c1, c2, p1, p2, F1, F2

MCPemText == (77 :> c1) @@ (200 :> c2) @@ (5 :> BadDER) @@ (10 :> NoCert)

MCPayloads == {<<10>>, <<5, 200>>, <<77, 10, 200>>}

MCFiles ==
    ("cert.pem" :> [ok |-> TRUE, bytes |-> <<200>>]) @@
    ("empty.pem" :> [ok |-> TRUE, bytes |-> << >>]) @@
    ("missing.pem" :> [ok |-> FALSE, bytes |-> << >>])

\* A *x509.Certificate, *tls.Certificate and tls.Certificate values (chains
\* with an entry that does not parse), and a value of another type.
\* x509.Certificate takes the branch of its pointer.
MCCertValues ==
    {[kind |-> "*x509", cert |-> c1, chain |-> << >>],
     [kind |-> "*tls", cert |-> c1, chain |-> <<BadDER, c2>>],
     [kind |-> "tls", cert |-> c1, chain |-> <<BadDER>>],
     [kind |-> "other", cert |-> c1, chain |-> << >>]}

MCCallerPools == (p1 :> {}) @@ (p2 :> {c1})

====
