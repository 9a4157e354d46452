---------------------------- MODULE RateExamples ----------------------------
(***************************************************************************)
(* The two example tests of package rate (rate_test, kept in             *)
(* src/go/error/exception/unsupported_operation_exception.go, lines 24-168):*)
(* ExampleNewFullBurstLimiter and ExampleNewEmptyBurstLimiter, run against *)
(* a burst limiter.                                                        *)
(*                                                                         *)
(* The limiter (go/time/rate) is not in the repository; it is modelled    *)
(* from what the examples' comments and outputs say of it: a count of     *)
(* tokens up to burst, PutToken drops a token when full, Allow takes one   *)
(* if there is one, Wait blocks until it can take one or ctx is done.     *)
(* Which of several waiters gets a token first is left open.              *)
(*                                                                         *)
(* One behaviour runs one example (ex).  Where goroutines run together,   *)
(* each fmt.Printf and each limiter call is one step, and the goroutines   *)
(* interleave with main at every step.  time.Sleep orders nothing and is   *)
(* not a step.  Output lines are records [k, a, b].                        *)
(***************************************************************************)
EXTENDS Naturals, Sequences, FiniteSets

CONSTANTS
    Burst,        \* burst = 3 in both examples
    Goroutines    \* 0 .. concurrency-1 of ExampleNewEmptyBurstLimiter

VARIABLES
    ex,       \* "full" or "empty": the example being run
    tokens,   \* the limiter's tokens
    mpc,      \* main's program counter
    gpc,      \* each goroutine's program counter
    i,        \* main's loop index
    v,        \* the value of limiter.Tokens() main has read and not yet printed
    out       \* what has been printed

vars == <<ex, tokens, mpc, gpc, i, v, out>>

Line(k, a, b) == [k |-> k, a |-> a, b |-> b]

(***************************************************************************)
(* The limiter (spec_modelled).                                           *)
(***************************************************************************)
NewFullBurstLimiter == Burst

NewEmptyBurstLimiter == 0

\* Mutant of PutToken: a token put into a full limiter is kept.
PutTokenNoDrop(t) == t + 1

PutToken(t) == IF t < Burst THEN t + 1 ELSE t


Allow(t) == IF t > 0 THEN [ok |-> TRUE, t |-> t - 1] ELSE [ok |-> FALSE, t |-> t]

AllowLine(r) == Line(IF r.ok THEN "allow passed" ELSE "allow refused", 0, 0)

\* Mutant of WaitReady: Wait returns only when two tokens are there.
WaitNeedsTwo(t) == t > 1

\* Wait(ctx) can take a token.
WaitReady(t) == t > 0

(***************************************************************************)
(* ExampleNewFullBurstLimiter: a single goroutine.  The PutToken on the   *)
(* full limiter is dropped; each iteration prints Wait i, waits, prints   *)
(* Got i and refills once after the first.  The context's one-second      *)
(* deadline passes while Wait is blocked on an empty limiter: the loop    *)
(* needs microseconds, and the Output the example states relies on it.    *)
(***************************************************************************)
FullStart ==
    /\ ex = "full" /\ mpc = "start"
    /\ tokens' = PutToken(tokens)
    /\ mpc' = "wait"
    /\ UNCHANGED <<ex, gpc, i, v, out>>

FullWait ==
    /\ ex = "full" /\ mpc = "wait"
    /\ out' = Append(out, Line("Wait", i, 0))
    /\ mpc' = "block"
    /\ UNCHANGED <<ex, tokens, gpc, i, v>>

FullGot ==
    /\ ex = "full" /\ mpc = "block"
    /\ WaitReady(tokens)
    /\ tokens' = IF i = 0 THEN PutToken(tokens - 1) ELSE tokens - 1
    /\ out' = Append(out, Line("Got", i, 0))
    /\ i' = i + 1
    /\ mpc' = "wait"
    /\ UNCHANGED <<ex, gpc, v>>

FullDeadline ==
    /\ ex = "full" /\ mpc = "block"
    /\ ~WaitReady(tokens)
    /\ out' = Append(out, Line("err", 0, 0))
    /\ mpc' = "Done"
    /\ UNCHANGED <<ex, tokens, gpc, i, v>>

(***************************************************************************)
(* ExampleNewEmptyBurstLimiter, main.  Until the goroutines start, and    *)
(* after wg.Wait, main runs alone: those stretches are one step each.      *)
(***************************************************************************)
EmptyPrologue ==
    /\ ex = "empty" /\ mpc = "start"
    /\ LET a1 == Allow(tokens)
           t2 == PutToken(a1.t)
           a2 == Allow(t2)
       IN /\ out' = out \o << Line("tokens", tokens, 0), AllowLine(a1),
                              Line("tokens", t2, 0), AllowLine(a2),
                              Line("tokens", a2.t, 0) >>
          /\ tokens' = a2.t
    /\ gpc' = [g \in Goroutines |-> "wait"]
    /\ mpc' = "before"
    /\ UNCHANGED <<ex, i, v>>

\* limiter.Tokens() for "PutToken #i: before", then its Printf.
BeforeRead ==
    /\ ex = "empty" /\ mpc = "before"
    /\ v' = tokens /\ mpc' = "beforePrint"
    /\ UNCHANGED <<ex, tokens, gpc, i, out>>

BeforePrint ==
    /\ ex = "empty" /\ mpc = "beforePrint"
    /\ out' = Append(out, Line("before", i, v)) /\ mpc' = "put"
    /\ UNCHANGED <<ex, tokens, gpc, i, v>>

MainPut ==
    /\ ex = "empty" /\ mpc = "put"
    /\ tokens' = PutToken(tokens) /\ mpc' = "after"
    /\ UNCHANGED <<ex, gpc, i, v, out>>

AfterRead ==
    /\ ex = "empty" /\ mpc = "after"
    /\ v' = tokens /\ mpc' = "afterPrint"
    /\ UNCHANGED <<ex, tokens, gpc, i, out>>

AfterPrint ==
    /\ ex = "empty" /\ mpc = "afterPrint"
    /\ out' = Append(out, Line("after", i, v))
    /\ i' = i + 1
    /\ mpc' = IF i + 1 < Cardinality(Goroutines) THEN "before" ELSE "wg"
    /\ UNCHANGED <<ex, tokens, gpc, v>>

\* wg.Wait() returns once every goroutine is done; the rest runs alone.
EmptyEpilogue ==
    /\ ex = "empty" /\ mpc = "wg"
    /\ \A g \in Goroutines : gpc[g] = "done"
    /\ LET a1 == Allow(tokens)
           a2 == Allow(a1.t)
       IN /\ out' = out \o << Line("tokens", tokens, 0), AllowLine(a1),
                              Line("tokens", a1.t, 0), AllowLine(a2) >>
          /\ tokens' = a2.t
    /\ mpc' = "Done"
    /\ UNCHANGED <<ex, gpc, i, v>>

(***************************************************************************)
(* ExampleNewEmptyBurstLimiter, goroutine g: print Wait, Wait(ctx), print  *)
(* Got, and goroutine 0 refills one token.  The one-hour deadline does not *)
(* pass.                                                                   *)
(***************************************************************************)
GoWait(g) ==
    /\ gpc[g] = "wait"
    /\ out' = Append(out, Line("Wait", g, 0))
    /\ gpc' = [gpc EXCEPT ![g] = "block"]
    /\ UNCHANGED <<ex, tokens, mpc, i, v>>

GoTake(g) ==
    /\ gpc[g] = "block" /\ WaitReady(tokens)
    /\ tokens' = tokens - 1
    /\ gpc' = [gpc EXCEPT ![g] = "got"]
    /\ UNCHANGED <<ex, mpc, i, v, out>>

\* Mutant of GoGot: the refill of goroutine 0 left out.
GoGotNoRefill(g) ==
    /\ gpc[g] = "got"
    /\ out' = Append(out, Line("Got", g, 0))
    /\ gpc' = [gpc EXCEPT ![g] = "done"]
    /\ UNCHANGED <<ex, tokens, mpc, i, v>>

GoGot(g) ==
    /\ gpc[g] = "got"
    /\ out' = Append(out, Line("Got", g, 0))
    /\ gpc' = [gpc EXCEPT ![g] = IF g = 0 THEN "refill" ELSE "done"]
    /\ UNCHANGED <<ex, tokens, mpc, i, v>>

GoRefill(g) ==
    /\ gpc[g] = "refill"
    /\ tokens' = PutToken(tokens)
    /\ gpc' = [gpc EXCEPT ![g] = "done"]
    /\ UNCHANGED <<ex, mpc, i, v, out>>

Goroutine(g) == GoWait(g) \/ GoTake(g) \/ GoGot(g) \/ GoRefill(g)

(***************************************************************************)
(* The specification.  Go's scheduler runs every runnable goroutine        *)
(* eventually, and the deadline timer fires: each process is weakly fair. *)
(***************************************************************************)
Main ==
    \/ FullStart \/ FullWait \/ FullGot \/ FullDeadline
    \/ EmptyPrologue \/ BeforeRead \/ BeforePrint \/ MainPut
    \/ AfterRead \/ AfterPrint \/ EmptyEpilogue

\* The example has returned.
Terminated == mpc = "Done" /\ UNCHANGED vars

Init ==
    /\ ex \in {"full", "empty"}
    /\ tokens = IF ex = "full" THEN NewFullBurstLimiter ELSE NewEmptyBurstLimiter
    /\ mpc = "start"
    /\ gpc = [g \in Goroutines |-> "idle"]
    /\ i = 0
    /\ v = 0
    /\ out = << >>

Next == Main \/ (\E g \in Goroutines : Goroutine(g)) \/ Terminated

Spec ==
    /\ Init /\ [][Next]_vars
    /\ WF_vars(Main)
    /\ \A g \in Goroutines : WF_vars(Goroutine(g))

(***************************************************************************)
(* The Output comments of the two examples.                                *)
(***************************************************************************)
DocFull ==
    << Line("Wait", 0, 0), Line("Got", 0, 0), Line("Wait", 1, 0), Line("Got", 1, 0),
       Line("Wait", 2, 0), Line("Got", 2, 0), Line("Wait", 3, 0), Line("Got", 3, 0),
       Line("Wait", 4, 0), Line("err", 0, 0) >>

DocEmpty ==
    << Line("tokens", 0, 0), Line("allow refused", 0, 0), Line("tokens", 1, 0),
       Line("allow passed", 0, 0), Line("tokens", 0, 0),
       Line("Wait", 1, 0), Line("Wait", 0, 0),
       Line("before", 0, 0), Line("after", 0, 1), Line("Got", 0, 0), Line("Got", 1, 0),
       Line("before", 1, 0), Line("after", 1, 1),
       Line("tokens", 1, 0), Line("allow passed", 0, 0), Line("tokens", 0, 0),
       Line("allow refused", 0, 0) >>

(***************************************************************************)
(* Properties                                                              *)
(***************************************************************************)
\* ExampleNewFullBurstLimiter prints what its Output comment says: the
\* PutToken on the full limiter is dropped, the refill after Got 000 is
\* kept, and the fifth Wait ends with the context's deadline.  Breaks if a
\* token is kept beyond burst or a Wait takes a token it does not have.
FullExampleOutput == ex = "full" /\ mpc = "Done" => out = DocFull

\* However the goroutines of ExampleNewEmptyBurstLimiter interleave with
\* main, once wg.Wait returns the limiter holds one token, so the last
\* four lines are as documented, and every goroutine has printed Wait and
\* then Got.  Breaks if a PutToken is lost or a goroutine's refill skipped.
EmptyExampleOutcome ==
    ex = "empty" /\ mpc = "Done" =>
        /\ SubSeq(out, Len(out) - 3, Len(out)) = SubSeq(DocEmpty, 14, 17)
        /\ \A g \in Goroutines :
              \E k, l \in 1 .. Len(out) :
                 k < l /\ out[k] = Line("Wait", g, 0) /\ out[l] = Line("Got", g, 0)

\* Both examples return: no goroutine stays blocked in Wait, so wg.Wait
\* returns, and the full example's loop ends.  Breaks if tokens put while
\* goroutines wait do not let them through.
ExamplesReturn == <>(mpc = "Done")
====
