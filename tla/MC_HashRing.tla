---------------------------- MODULE MC_HashRing ----------------------------
(***************************************************************************)
(* Model of HashRing for TLC: three nodes, a ring of sixteen positions, two    *)
(* positions per hash batch and numReps = 2.                               *)
(*                                                                         *)
(* The hash (spec_modelled: the Ketama hash is outside the repository's   *)
(* sources) gives node label l the positions (Off(l) + Step(l) * k) % 16  *)
(* for k = 0, 1, 2, ...; each Step is odd, hence coprime with 16, so every label *)
(* visits the whole ring once per period, and the offsets are chosen so    *)
(* that different nodes collide at their first replicas.                   *)
(***************************************************************************)
EXTENDS Naturals, FiniteSets, TLC

CONSTANTS a, b, c, NoNodeValue

\* The longest sequence of calls a run explores.
CONSTANT MaxCalls

\* The isWeighted option given to New.
CONSTANT Weighted

MCNodes == {a, b, c}
MCRingSize == 16
Batch == 2

\* nodeKeyFormatter.FormatNodeKey(n, 0): every node has its own label.
MCNodeKey(n) == n

Off(l)  == CASE l = a -> 0 [] l = b -> 1 [] l = c -> 4
Step(l) == CASE l = a -> 1 [] l = b -> 3 [] l = c -> 5

HashAt(l, k) == (Off(l) + Step(l) * k) % MCRingSize

\* getIterateHashKeyForNode(node, i): Batch positions from the label's digest.
MCIterateHashKeys(n, i) == [j \in 1 .. Batch |-> HashAt(MCNodeKey(n), i + j - 1)]

\* A loop that has not ended after this many iterations never ends: every
\* position has then been derived once, and each later batch repeats
\* positions the loop has already found taken.
MCLoopBound == 4 * MCRingSize

\* 1e10 against the 2^32 ring, scaled to MCRingSize positions.
MCBias == (MCRingSize * 7) \div 3

\* weightByNode: a weighs 1, b weighs 2, c has no entry.
MCWeights == (a :> 1 @@ b :> 2)


VARIABLES sortedKeys, nodeByKey, allNodes, hung

\* The number of calls made so far: a bound on the length of a run.
VARIABLE calls

INSTANCE HashRing WITH
    Nodes <- MCNodes, NodeKey <- MCNodeKey, IterateHashKeys <- MCIterateHashKeys,
    RingSize <- MCRingSize, NumReps <- 2, WeightedOpt <- Weighted,
    WeightByNode <- MCWeights, Bias <- MCBias, NoNode <- NoNodeValue,
    LoopBound <- MCLoopBound, MaxArgs <- 2

(***************************************************************************)
(* Runs are sequences of at most MaxCalls calls.  Positions orphaned by    *)
(* RemoveNodes (see GetReturnsMember) pile up over many calls until the    *)
(* small model ring is full and every placement loop diverges, which the   *)
(* 2^32 ring never is; MaxCalls stops short of that.                       *)
(***************************************************************************)

MCInit == Init /\ calls = 0

MCCallerNext == CallerNext /\ calls' = calls + 1

MCNext == Next /\ calls' = calls + 1

MCCallerSpec == MCInit /\ [][MCCallerNext]_<<vars, calls>>

MCSpec == MCInit /\ [][MCNext]_<<vars, calls>>

CallBound == calls <= MaxCalls
(***************************************************************************)
(* Refinement: the ring, driven by a caller that treats it as a set,      *)
(* implements RingAbstract.  The members are allNodes, and the node a key  *)
(* hash resolves to is what Get returns for it.  The one SetNodes call    *)
(* known not to (the fast path taken while a member is retained, the      *)
(* setnodes run) is left out of the caller.                                *)
(***************************************************************************)
ClearsRetained(nodes) ==
    LET rm == ToBeRemoved(Cur, nodes) IN Cardinality(rm) = Len(nodes) /\ rm # allNodes

RefineCallerNext ==
    /\ \/ \E nodes \in Args : DistinctArgs(nodes) /\ NewArgs(nodes) /\ AddNodes(nodes)
       \/ \E nodes \in Args : DistinctArgs(nodes) /\ ~ClearsRetained(nodes) /\ SetNodes(nodes)
       \/ \E nodes \in Args : RemoveNodes(nodes)
       \/ RemoveAllNodes
    /\ calls' = calls + 1

RefineCallerSpec == MCInit /\ [][RefineCallerNext]_<<vars, calls>>

Abs == INSTANCE RingAbstract WITH
    Nodes <- MCNodes, Keys <- Pos, NoNode <- NoNodeValue,
    members <- allNodes, owner <- [h \in Pos |-> Get(h).node]

\* Every call the caller makes is a Join (AddNodes of new nodes), a Leave
\* (RemoveNodes), a Reconcile (SetNodes) or a Clear (RemoveAllNodes) of
\* the abstract ring: AddNodes of nodes that are not members moves keys
\* only onto those nodes, never between two nodes that were members, and
\* RemoveNodes moves only the keys of the removed ones (spec 8.3, bounded
\* churn).  Breaks if removal deletes a position another node owns, or if
\* AddNodes leaves sortedKeys out of step with nodeByKey.
RingRefinesAbstract == Abs!Spec

====
