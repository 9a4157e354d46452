---------------------------- MODULE PrettyJSON ----------------------------
(***************************************************************************)
(* appendHTMLEscape of package prettyjson (src/unnamed/part_000): the      *)
(* byte loop that rewrites <, > and & as the JSON escapes \u003c, \u003e   *)
(* and \u0026, and the UTF-8 encodings of U+2028 and U+2029 (E2 80 A8, E2 *)
(* 80 A9) as \u2028 and \u2029, copying the bytes between them from src.   *)
(*                                                                         *)
(* Bytes are integers 0..255.  One step is one iteration of the range     *)
(* loop; the last step is the trailing append of src[start:].             *)
(***************************************************************************)
EXTENDS Integers, Sequences, SequencesExt

\* The bytes src is made of, and its greatest length.
CONSTANTS Bytes, MaxLen

VARIABLES src, dst, i, start, done

vars == <<src, dst, i, start, done>>

\* The bytes '<', '&', '>', '\\' and 'u'.
LT == 60

AMP == 38

GT == 62

BSL == 92

U == 117

\* encoding/json's hex table "0123456789abcdef", as bytes.
hex(n) == IF n < 10 THEN 48 + n ELSE 87 + n

\* Go's s[lo:hi].
Slice(s, lo, hi) == SubSeq(s, lo + 1, hi)

\* Mutant of LineSep: the length test misses a separator ending src.
LineSepShort(k) ==
    /\ src[k + 1] = 226
    /\ k + 3 < Len(src)
    /\ src[k + 2] = 128
    /\ (src[k + 3] \div 2) * 2 = 168

\* c == 0xE2 && i+2 < len(src) && src[i+1] == 0x80 && src[i+2]&^1 == 0xA8
\* at Go index k.
LineSep(k) ==
    /\ src[k + 1] = 226
    /\ k + 2 < Len(src)
    /\ src[k + 2] = 128
    /\ (src[k + 3] \div 2) * 2 = 168

\* Mutant of SepEnd: the length of the raw literal `\u2029` (6 bytes).
SepEndRawLiteral(k) == k + 6

\* start = i + len("\u2029"): the three bytes of the separator.
SepEnd(k) == k + 3

\* Mutant of Unsafe: '>' left out of the test.
UnsafeNoGT(c) == c = LT \/ c = AMP

Unsafe(c) == c = LT \/ c = GT \/ c = AMP

\* One iteration, for byte index i: the two ifs of the loop body in order.
Step ==
    /\ ~done /\ i < Len(src)
    /\ LET c   == src[i + 1]
           d1  == IF Unsafe(c)
                  THEN dst \o Slice(src, start, i) \o <<BSL, U, 48, 48, hex(c \div 16), hex(c % 16)>>
                  ELSE dst
           s1  == IF Unsafe(c) THEN i + 1 ELSE start
           sep == LineSep(i)
       IN /\ dst' = IF sep
                    THEN d1 \o Slice(src, s1, i) \o <<BSL, U, 50, 48, 50, hex(src[i + 3] % 16)>>
                    ELSE d1
          /\ start' = IF sep THEN SepEnd(i) ELSE s1
    /\ i' = i + 1
    /\ UNCHANGED <<src, done>>

\* return append(dst, src[start:]...)
Finish ==
    /\ ~done /\ i = Len(src)
    /\ dst' = dst \o Slice(src, start, Len(src))
    /\ done' = TRUE
    /\ UNCHANGED <<src, i, start>>

Init ==
    /\ src \in BoundedSeq(Bytes, MaxLen)
    /\ dst = << >>
    /\ i = 0
    /\ start = 0
    /\ done = FALSE

Next == Step \/ Finish

\* The function returns after Finish: a terminal state is its return.
Spec == Init /\ [][Next]_vars

(***************************************************************************)
(* The escape as a definition over the whole input.                        *)
(***************************************************************************)
RECURSIVE HTMLEscaped(_)
HTMLEscaped(s) ==
    IF s = << >> THEN << >>
    ELSE IF Head(s) \in {LT, GT, AMP}
    THEN <<BSL, U, 48, 48, hex(Head(s) \div 16), hex(Head(s) % 16)>> \o HTMLEscaped(Tail(s))
    ELSE IF Len(s) >= 3 /\ s[1] = 226 /\ s[2] = 128 /\ s[3] \in {168, 169}
    THEN <<BSL, U, 50, 48, 50, hex(s[3] % 16)>> \o HTMLEscaped(SubSeq(s, 4, Len(s)))
    ELSE << Head(s) >> \o HTMLEscaped(Tail(s))

(***************************************************************************)
(* Properties                                                              *)
(***************************************************************************)
TypeOK ==
    /\ src \in Seq(Bytes)
    /\ i \in 0 .. Len(src)
    /\ start \in 0 .. Len(src)
    /\ done \in BOOLEAN

\* When appendHTMLEscape returns, dst is src with every <, >, & and every
\* U+2028/U+2029 replaced by its \u escape and every other byte copied once
\* in order.  Breaks if the run copied before an escape overlaps or skips
\* bytes, or a separator at the end of src is missed.
EscapeMatchesReference ==
    done => dst = HTMLEscaped(src)

\* The result is safe to embed in HTML: it holds no <, > or &, and no
\* complete U+2028 or U+2029 sequence.
OutputHTMLSafe ==
    done =>
    /\ \A k \in 1 .. Len(dst) : dst[k] \notin {LT, GT, AMP}
    /\ \A k \in 1 .. Len(dst) - 2 : ~(dst[k] = 226 /\ dst[k + 1] = 128 /\ dst[k + 2] \in {168, 169})

====
