----------------------------- MODULE SplitTests -----------------------------
(***************************************************************************)
(* TestSplit and TestSplitN of package slices_test (the second part of    *)
(* otlptracehttp.go): the two test tables, and the loop that calls        *)
(* slices_.Split / SplitN on each case and reports a mismatch with         *)
(* t.Errorf.  Split and SplitN are not in the repository: each call is an *)
(* external step whose result is the case's want or one of a few wrong   *)
(* results a chunking bug produces, so the model asks which wrong results *)
(* the loop catches.                                                       *)
(*                                                                         *)
(* A Go slice is a record: isNil tells nil from an empty non-nil slice,    *)
(* e holds the elements.  len and slices.Equal see only e.                  *)
(***************************************************************************)
EXTENDS Integers, Sequences, SequencesExt

VARIABLES test, i, pc, j, got, nrep, printed

vars == <<test, i, pc, j, got, nrep, printed>>

Nil == [isNil |-> TRUE, e |-> <<>>]

\* A non-nil slice literal, []int{...}.
S(q) == [isNil |-> FALSE, e |-> q]

\* A [][]int{...} literal whose elements are []int{...} literals.
W(qq) == S([k \in DOMAIN qq |-> S(qq[k])])

\* Rows are <<s, sep, want>> (Split) and <<s, sep, n, want>> (SplitN).
splitTests == <<
    <<Nil, -1, Nil>>, <<Nil, 0, Nil>>, <<Nil, 1, Nil>>,
    <<S(<<>>), -1, W(<<>>)>>, <<S(<<>>), 0, W(<<>>)>>, <<S(<<>>), 1, W(<<>>)>>,
    <<S(<<1>>), -1, W(<<<<1>>>>)>>, <<S(<<1>>), 0, W(<<<<1>>>>)>>, <<S(<<1>>), 1, W(<<<<1>>>>)>>,
    <<S(<<1>>), 2, W(<<<<1>>>>)>>, <<S(<<1, 2, 3>>), -1, W(<<<<1>>, <<2>>, <<3>>>>)>>, <<S(<<1, 2, 3>>), 0, W(<<<<1>>, <<2>>, <<3>>>>)>>,
    <<S(<<1, 2, 3>>), 1, W(<<<<1>>, <<2>>, <<3>>>>)>>, <<S(<<1, 2, 3>>), 2, W(<<<<1, 2>>, <<3>>>>)>>, <<S(<<1, 2, 3>>), 3, W(<<<<1, 2, 3>>>>)>>,
    <<S(<<1, 2, 3>>), 4, W(<<<<1, 2, 3>>>>)>>, <<S(<<1, 2, 3, 4>>), -1, W(<<<<1>>, <<2>>, <<3>>, <<4>>>>)>>, <<S(<<1, 2, 3, 4>>), 0, W(<<<<1>>, <<2>>, <<3>>, <<4>>>>)>>,
    <<S(<<1, 2, 3, 4>>), 1, W(<<<<1>>, <<2>>, <<3>>, <<4>>>>)>>, <<S(<<1, 2, 3, 4>>), 2, W(<<<<1, 2>>, <<3, 4>>>>)>>, <<S(<<1, 2, 3, 4>>), 3, W(<<<<1, 2, 3>>, <<4>>>>)>>,
    <<S(<<1, 2, 3, 4>>), 4, W(<<<<1, 2, 3, 4>>>>)>>, <<S(<<1, 2, 3, 4>>), 5, W(<<<<1, 2, 3, 4>>>>)>>
>>

splitNTests == <<
    <<Nil, -1, -1, Nil>>, <<Nil, -1, 0, Nil>>, <<Nil, -1, 1, Nil>>,
    <<Nil, 0, -1, Nil>>, <<Nil, 0, 0, Nil>>, <<Nil, 0, 1, Nil>>,
    <<S(<<>>), -1, -1, Nil>>, <<S(<<>>), -1, 0, Nil>>, <<S(<<>>), -1, 1, W(<<<<>>>>)>>,
    <<S(<<>>), 0, -1, Nil>>, <<S(<<>>), 0, 0, Nil>>, <<S(<<>>), 0, 1, W(<<>>)>>,
    <<S(<<>>), 1, -1, Nil>>, <<S(<<>>), 1, 0, Nil>>, <<S(<<>>), 1, 1, W(<<<<>>>>)>>,
    <<S(<<1>>), -1, -1, W(<<<<1>>>>)>>, <<S(<<1>>), -1, 0, Nil>>, <<S(<<1>>), -1, 1, W(<<<<1>>>>)>>,
    <<S(<<1>>), -1, 2, W(<<<<1>>>>)>>, <<S(<<1>>), 0, -1, W(<<<<1>>>>)>>, <<S(<<1>>), 0, 0, Nil>>,
    <<S(<<1>>), 0, 1, W(<<<<1>>>>)>>, <<S(<<1>>), 0, 2, W(<<<<1>>>>)>>, <<S(<<1>>), 1, -1, W(<<<<1>>>>)>>,
    <<S(<<1>>), 1, 0, Nil>>, <<S(<<1>>), 1, 1, W(<<<<1>>>>)>>, <<S(<<1>>), 1, 2, W(<<<<1>>>>)>>,
    <<S(<<1>>), 2, -1, W(<<<<1>>>>)>>, <<S(<<1>>), 2, 0, Nil>>, <<S(<<1>>), 2, 1, W(<<<<1>>>>)>>,
    <<S(<<1>>), 2, 2, W(<<<<1>>>>)>>, <<S(<<1, 2, 3>>), -1, -1, W(<<<<1>>, <<2>>, <<3>>>>)>>, <<S(<<1, 2, 3>>), -1, 0, Nil>>,
    <<S(<<1, 2, 3>>), -1, 1, W(<<<<1, 2, 3>>>>)>>, <<S(<<1, 2, 3>>), -1, 2, W(<<<<1>>, <<2, 3>>>>)>>, <<S(<<1, 2, 3>>), -1, 3, W(<<<<1>>, <<2>>, <<3>>>>)>>,
    <<S(<<1, 2, 3>>), -1, 4, W(<<<<1>>, <<2>>, <<3>>>>)>>, <<S(<<1, 2, 3>>), 0, -1, W(<<<<1>>, <<2>>, <<3>>>>)>>, <<S(<<1, 2, 3>>), 0, 0, Nil>>,
    <<S(<<1, 2, 3>>), 0, 1, W(<<<<1, 2, 3>>>>)>>, <<S(<<1, 2, 3>>), 0, 2, W(<<<<1>>, <<2, 3>>>>)>>, <<S(<<1, 2, 3>>), 0, 3, W(<<<<1>>, <<2>>, <<3>>>>)>>,
    <<S(<<1, 2, 3>>), 0, 4, W(<<<<1>>, <<2>>, <<3>>>>)>>, <<S(<<1, 2, 3>>), 1, -1, W(<<<<1>>, <<2>>, <<3>>>>)>>, <<S(<<1, 2, 3>>), 1, 0, Nil>>,
    <<S(<<1, 2, 3>>), 1, 1, W(<<<<1, 2, 3>>>>)>>, <<S(<<1, 2, 3>>), 1, 2, W(<<<<1>>, <<2, 3>>>>)>>, <<S(<<1, 2, 3>>), 1, 3, W(<<<<1>>, <<2>>, <<3>>>>)>>,
    <<S(<<1, 2, 3>>), 1, 4, W(<<<<1>>, <<2>>, <<3>>>>)>>, <<S(<<1, 2, 3>>), 2, -1, W(<<<<1, 2>>, <<3>>>>)>>, <<S(<<1, 2, 3>>), 2, 0, Nil>>,
    <<S(<<1, 2, 3>>), 2, 1, W(<<<<1, 2, 3>>>>)>>, <<S(<<1, 2, 3>>), 2, 2, W(<<<<1, 2>>, <<3>>>>)>>, <<S(<<1, 2, 3>>), 2, 3, W(<<<<1, 2>>, <<3>>>>)>>,
    <<S(<<1, 2, 3>>), 2, 4, W(<<<<1, 2>>, <<3>>>>)>>, <<S(<<1, 2, 3>>), 3, -1, W(<<<<1, 2, 3>>>>)>>, <<S(<<1, 2, 3>>), 3, 0, Nil>>,
    <<S(<<1, 2, 3>>), 3, 1, W(<<<<1, 2, 3>>>>)>>, <<S(<<1, 2, 3>>), 3, 2, W(<<<<1, 2, 3>>>>)>>, <<S(<<1, 2, 3>>), 3, 3, W(<<<<1, 2, 3>>>>)>>,
    <<S(<<1, 2, 3>>), 3, 4, W(<<<<1, 2, 3>>>>)>>, <<S(<<1, 2, 3>>), 4, -1, W(<<<<1, 2, 3>>>>)>>, <<S(<<1, 2, 3>>), 4, 0, Nil>>,
    <<S(<<1, 2, 3>>), 4, 1, W(<<<<1, 2, 3>>>>)>>, <<S(<<1, 2, 3>>), 4, 2, W(<<<<1, 2, 3>>>>)>>, <<S(<<1, 2, 3>>), 4, 3, W(<<<<1, 2, 3>>>>)>>,
    <<S(<<1, 2, 3>>), 4, 4, W(<<<<1, 2, 3>>>>)>>, <<S(<<1, 2, 3, 4>>), -1, -1, W(<<<<1>>, <<2>>, <<3>>, <<4>>>>)>>, <<S(<<1, 2, 3, 4>>), -1, 0, Nil>>,
    <<S(<<1, 2, 3, 4>>), -1, 1, W(<<<<1, 2, 3, 4>>>>)>>, <<S(<<1, 2, 3, 4>>), -1, 2, W(<<<<1, 2>>, <<3, 4>>>>)>>, <<S(<<1, 2, 3, 4>>), -1, 3, W(<<<<1>>, <<2>>, <<3, 4>>>>)>>,
    <<S(<<1, 2, 3, 4>>), -1, 4, W(<<<<1>>, <<2>>, <<3>>, <<4>>>>)>>, <<S(<<1, 2, 3, 4>>), 0, -1, W(<<<<1>>, <<2>>, <<3>>, <<4>>>>)>>, <<S(<<1, 2, 3, 4>>), 0, 0, Nil>>,
    <<S(<<1, 2, 3, 4>>), 0, 1, W(<<<<1, 2, 3, 4>>>>)>>, <<S(<<1, 2, 3, 4>>), 0, 2, W(<<<<1, 2>>, <<3, 4>>>>)>>, <<S(<<1, 2, 3, 4>>), 0, 3, W(<<<<1>>, <<2>>, <<3, 4>>>>)>>,
    <<S(<<1, 2, 3, 4>>), 0, 4, W(<<<<1>>, <<2>>, <<3>>, <<4>>>>)>>, <<S(<<1, 2, 3, 4>>), 1, -1, W(<<<<1>>, <<2>>, <<3>>, <<4>>>>)>>, <<S(<<1, 2, 3, 4>>), 1, 0, Nil>>,
    <<S(<<1, 2, 3, 4>>), 1, 1, W(<<<<1, 2, 3, 4>>>>)>>, <<S(<<1, 2, 3, 4>>), 1, 2, W(<<<<1>>, <<2, 3, 4>>>>)>>, <<S(<<1, 2, 3, 4>>), 1, 3, W(<<<<1>>, <<2>>, <<3, 4>>>>)>>,
    <<S(<<1, 2, 3, 4>>), 1, 4, W(<<<<1>>, <<2>>, <<3>>, <<4>>>>)>>, <<S(<<1, 2, 3, 4>>), 2, -1, W(<<<<1, 2>>, <<3, 4>>>>)>>, <<S(<<1, 2, 3, 4>>), 2, 0, Nil>>,
    <<S(<<1, 2, 3, 4>>), 2, 1, W(<<<<1, 2, 3, 4>>>>)>>, <<S(<<1, 2, 3, 4>>), 2, 2, W(<<<<1, 2>>, <<3, 4>>>>)>>, <<S(<<1, 2, 3, 4>>), 2, 3, W(<<<<1, 2>>, <<3, 4>>>>)>>,
    <<S(<<1, 2, 3, 4>>), 2, 4, W(<<<<1, 2>>, <<3, 4>>>>)>>, <<S(<<1, 2, 3, 4>>), 3, -1, W(<<<<1, 2, 3>>, <<4>>>>)>>, <<S(<<1, 2, 3, 4>>), 3, 0, Nil>>,
    <<S(<<1, 2, 3, 4>>), 3, 1, W(<<<<1, 2, 3, 4>>>>)>>, <<S(<<1, 2, 3, 4>>), 3, 2, W(<<<<1, 2, 3>>, <<4>>>>)>>, <<S(<<1, 2, 3, 4>>), 3, 3, W(<<<<1, 2, 3>>, <<4>>>>)>>,
    <<S(<<1, 2, 3, 4>>), 3, 4, W(<<<<1, 2, 3>>, <<4>>>>)>>, <<S(<<1, 2, 3, 4>>), 3, 5, W(<<<<1, 2, 3>>, <<4>>>>)>>, <<S(<<1, 2, 3, 4>>), 4, -1, W(<<<<1, 2, 3, 4>>>>)>>,
    <<S(<<1, 2, 3, 4>>), 4, 0, Nil>>, <<S(<<1, 2, 3, 4>>), 4, 1, W(<<<<1, 2, 3, 4>>>>)>>, <<S(<<1, 2, 3, 4>>), 4, 2, W(<<<<1, 2, 3, 4>>>>)>>,
    <<S(<<1, 2, 3, 4>>), 4, 3, W(<<<<1, 2, 3, 4>>>>)>>, <<S(<<1, 2, 3, 4>>), 4, 4, W(<<<<1, 2, 3, 4>>>>)>>, <<S(<<1, 2, 3, 4>>), 4, 5, W(<<<<1, 2, 3, 4>>>>)>>,
    <<S(<<1, 2, 3, 4>>), 5, -1, W(<<<<1, 2, 3, 4>>>>)>>, <<S(<<1, 2, 3, 4>>), 5, 0, Nil>>, <<S(<<1, 2, 3, 4>>), 5, 1, W(<<<<1, 2, 3, 4>>>>)>>,
    <<S(<<1, 2, 3, 4>>), 5, 2, W(<<<<1, 2, 3, 4>>>>)>>, <<S(<<1, 2, 3, 4>>), 5, 3, W(<<<<1, 2, 3, 4>>>>)>>, <<S(<<1, 2, 3, 4>>), 5, 4, W(<<<<1, 2, 3, 4>>>>)>>,
    <<S(<<1, 2, 3, 4>>), 5, 5, W(<<<<1, 2, 3, 4>>>>)>>
>>

Table(t) == IF t = "Split" THEN splitTests ELSE splitNTests

Want(t, k) == Last(Table(t)[k])

\* len(x): nil has length 0.
GoLen(x) == Len(x.e)

\* Mutant of SlicesEqual: only the lengths compared.
SlicesEqualLenOnly(a, b) == Len(a.e) = Len(b.e)

\* slices.Equal on two []int: same length and the same elements; a nil
\* and an empty slice are equal.
SlicesEqual(a, b) == a.e = b.e

(***************************************************************************)
(* The external call.  The right answer is the case's want; the wrong     *)
(* ones are what a chunking bug returns: the last chunk lost, an empty    *)
(* chunk added, one element moved across the first chunk boundary, or two *)
(* elements swapped across it (the same chunk lengths, other contents).   *)
(* A result that is [][]int{} where want is nil (or the reverse) is left  *)
(* out: the tables tell the two apart, the loop cannot (README).           *)
(***************************************************************************)
DropLast(w) == IF w.e = <<>> THEN w ELSE S(Front(w.e))

ExtraEmpty(w) == S(Append(w.e, S(<<>>)))

ShiftBoundary(w) ==
    IF Len(w.e) >= 2 /\ w.e[1].e # <<>>
    THEN S([w.e EXCEPT ![1] = S(Front(@.e)),
                       ![2] = S(<<Last(w.e[1].e)>> \o @.e)])
    ELSE w

SwapAcross(w) ==
    IF Len(w.e) >= 2 /\ w.e[1].e # <<>> /\ w.e[2].e # <<>>
    THEN S([w.e EXCEPT ![1] = S(Front(@.e) \o <<Head(w.e[2].e)>>),
                       ![2] = S(<<Last(w.e[1].e)>> \o Tail(@.e))])
    ELSE w

Split(t, k) ==
    LET w == Want(t, k)
    IN {w, DropLast(w), ExtraEmpty(w), ShiftBoundary(w), SwapAcross(w)}

(***************************************************************************)
(* The test loop, the same in TestSplit and TestSplitN:                    *)
(*   for i, test := range tests {                                          *)
(*     got := Split(...)                                                   *)
(*     if len(test.want) != len(got) { t.Errorf("#%d" , i); continue }      *)
(*     for i := range got {                                                *)
(*       if !slices.Equal(got[i], test.want[i]) { t.Errorf("#%d", i); break }*)
(*   } }                                                                   *)
(* i is the case (1-based here), j the inner index; printed is the index  *)
(* the last t.Errorf printed, nrep the reports of the current case.        *)
(***************************************************************************)
Errorf(idx) == nrep' = nrep + 1 /\ printed' = idx

Call ==
    /\ pc = "call"
    /\ got' \in Split(test, i)
    /\ nrep' = 0
    /\ pc' = "len"
    /\ UNCHANGED <<test, i, j, printed>>

LenMismatch ==
    /\ pc = "len"
    /\ GoLen(Want(test, i)) # GoLen(got)
    /\ Errorf(i - 1)
    /\ pc' = "next"
    /\ UNCHANGED <<test, i, j, got>>

LenMatch ==
    /\ pc = "len"
    /\ GoLen(Want(test, i)) = GoLen(got)
    /\ j' = 1 /\ pc' = "elem"
    /\ UNCHANGED <<test, i, got, nrep, printed>>

\* Mutant of ElemMismatch: the break left out.
ElemMismatchNoBreak ==
    /\ pc = "elem" /\ j <= GoLen(got)
    /\ ~SlicesEqual(got.e[j], Want(test, i).e[j])
    /\ Errorf(j - 1)
    /\ j' = j + 1
    /\ UNCHANGED <<test, i, pc, got>>

\* The inner loop's i shadows the case index: t.Errorf prints j - 1.
ElemMismatch ==
    /\ pc = "elem" /\ j <= GoLen(got)
    /\ ~SlicesEqual(got.e[j], Want(test, i).e[j])
    /\ Errorf(j - 1)
    /\ pc' = "next"
    /\ UNCHANGED <<test, i, j, got>>

ElemMatch ==
    /\ pc = "elem" /\ j <= GoLen(got)
    /\ SlicesEqual(got.e[j], Want(test, i).e[j])
    /\ j' = j + 1
    /\ UNCHANGED <<test, i, pc, got, nrep, printed>>

ElemDone ==
    /\ pc = "elem" /\ j > GoLen(got)
    /\ pc' = "next"
    /\ UNCHANGED <<test, i, j, got, nrep, printed>>

\* The next case; after the last, the next test function, then done.
NextCase ==
    /\ pc = "next"
    /\ IF i < Len(Table(test))
       THEN i' = i + 1 /\ test' = test
       ELSE i' = 1 /\ test' = IF test = "Split" THEN "SplitN" ELSE "Done"
    /\ pc' = IF test' = "Done" THEN "done" ELSE "call"
    /\ UNCHANGED <<j, got, nrep, printed>>

Terminated == pc = "done" /\ UNCHANGED vars

Init ==
    /\ test = "Split" /\ i = 1 /\ pc = "call" /\ j = 1
    /\ got = Nil /\ nrep = 0 /\ printed = -1

Next ==
    \/ Call \/ LenMismatch \/ LenMatch
    \/ ElemMismatch \/ ElemMatch \/ ElemDone
    \/ NextCase \/ Terminated

Spec == Init /\ [][Next]_vars

-----------------------------------------------------------------------------
TypeOK ==
    /\ test \in {"Split", "SplitN", "Done"}
    /\ pc \in {"call", "len", "elem", "next", "done"}
    /\ i \in 1..Len(splitNTests)
    /\ j \in 1..5
    /\ nrep \in 0..1
    /\ printed \in -1..Len(splitNTests)

\* Once the loop leaves a case, it has reported that case exactly once if
\* Split's result differs from want, and not at all otherwise: the len
\* check with its continue, the element loop with its break, and
\* slices.Equal together catch every wrong chunking.  The comparison is of
\* the whole Go values, nil-ness included, so it holds only because no
\* modelled result differs from want in nil-ness alone.
ReportedIffDifferent ==
    pc = "next" => nrep = IF got # Want(test, i) THEN 1 ELSE 0

====
