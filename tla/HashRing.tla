------------------------------ MODULE HashRing ------------------------------
(***************************************************************************)
(* The consistent-hashing ring of go/exp/container/hashring/hashring.go.   *)
(*                                                                         *)
(* State (struct HashRing): sortedKeys, nodeByKey and allNodes.  The       *)
(* options hashAlg, nodeKeyFormatter, weightByNode, isWeighted and numReps *)
(* are fixed once New returns, so they are constants here.  Every public   *)
(* mutation (AddNodes, SetNodes, RemoveNodes, RemoveAllNodes) is one       *)
(* action that runs the whole method, its placement loops and the final    *)
(* updateSortedNodes included.  The lookups Get and GetSince do not change *)
(* state and are operators over every possible key hash.                   *)
(*                                                                         *)
(* The 32-bit ring is scaled down to 0..RingSize-1.  The placement loops   *)
(* of the code may never end; a loop still running after LoopBound         *)
(* iterations is a call that never returns, recorded in `hung`.  No        *)
(* further call can be made after that.                                    *)
(***************************************************************************)
EXTENDS Naturals, Sequences, FiniteSets, SequencesExt, Functions, TLC

CONSTANTS
    Nodes,          \* the Node values a caller may pass
    NodeKey(_),     \* nodeKeyFormatter.FormatNodeKey(node, 0): a node's identity label
    IterateHashKeys(_, _), \* getIterateHashKeyForNode(node, i): a batch of positions
    RingSize,       \* number of ring positions, standing for 2^32
    NumReps,        \* numReps option (defaultNumReps = 160)
    WeightedOpt,    \* the isWeighted option as given to New
    WeightByNode,   \* the weightByNode option: a function on a subset of Nodes
    Bias,           \* the constant 1e10 added in setWeightNodes, scaled to RingSize
    NoNode,         \* the zero Node value returned by a failed Get
    LoopBound,      \* iterations after which a placement loop is taken to diverge
    MaxArgs         \* longest argument list of a variadic call

ASSUME NumReps \in Nat \ {0} /\ RingSize \in Nat \ {0} /\ LoopBound \in Nat
ASSUME DOMAIN WeightByNode \subseteq Nodes
ASSUME NoNode \notin Nodes

Pos == 0 .. RingSize - 1

VARIABLES
    sortedKeys,     \* []uint32, ascending index over the keys of nodeByKey
    nodeByKey,      \* map[uint32]Node: a function whose domain is a subset of Pos
    allNodes,       \* map[Node]struct{}: the member set
    hung            \* TRUE once a call has entered a loop that never ends

vars == <<sortedKeys, nodeByKey, allNodes, hung>>

\* The argument lists of a variadic call.
Args == BoundedSeq(Nodes, MaxArgs)

(***************************************************************************)
(* Helpers                                                                 *)
(***************************************************************************)

\* New: weighting is switched off when no weights were supplied.
isWeighted == WeightedOpt /\ DOMAIN WeightByNode # {}

\* isSameNode: two nodes are the same iff their replica-0 labels are equal.
isSameNode(n1, n2) == NodeKey(n1) = NodeKey(n2)

\* updateSortedNodes: the keys of nodeByKey in ascending order.
updateSortedNodes(nbk) ==
    LET D == DOMAIN nbk
    IN [k \in 1 .. Cardinality(D) |-> CHOOSE x \in D : Cardinality({y \in D : y < x}) = k - 1]

\* weightByNode[node]: a missing entry reads as the zero value.
WeightOf(n) == IF n \in DOMAIN WeightByNode THEN WeightByNode[n] ELSE 0

\* Go map iteration (for k := range m, maps.Keys) visits keys in an
\* unspecified order: every ordering of the set is possible.
MapOrders(S) == SetToSeqs(S)

\* getNodeRepetitions: the numReps option each placement starts from.
getNodeRepetitions == NumReps

\* All: maps.Keys(allNodes), the member set (its order is a MapOrders one).
All == allNodes

(***************************************************************************)
(* A ring under construction is a record st = [sk, nbk, all, reps, ok]:   *)
(* sortedKeys, nodeByKey, allNodes, the local numReps of the running loop *)
(* and whether every loop so far has ended.                                *)
(***************************************************************************)
Cur == [sk |-> sortedKeys, nbk |-> nodeByKey, all |-> allNodes,
        reps |-> getNodeRepetitions, ok |-> TRUE]

\* RemoveAllNodes: every structure reset to empty.
Cleared(st) == [st EXCEPT !.sk = << >>, !.nbk = << >>, !.all = {}]

(***************************************************************************)
(* addNodeWithoutSort: the placement loop.  st.reps is its numReps, which *)
(* grows by one for every position that is already taken.                  *)
(***************************************************************************)
RECURSIVE PlaceBatch(_, _, _, _, _)

\* Mutant of PlaceBatch: a taken position is skipped without raising numReps.
PlaceBatchNoBudget(node, ps, j, i, st) ==
    IF j > Len(ps) \/ i + (j - 1) > st.reps THEN st
    ELSE IF ps[j] \in DOMAIN st.nbk
         THEN PlaceBatch(node, ps, j + 1, i, st)
         ELSE PlaceBatch(node, ps, j + 1, i, [st EXCEPT !.nbk = (ps[j] :> node) @@ @])

\* for j, pos := range positions (j counts from 1 here, from 0 in Go)
PlaceBatch(node, ps, j, i, st) ==
    IF j > Len(ps) \/ i + (j - 1) > st.reps THEN st         \* done, or "out of bound"
    ELSE IF ps[j] \in DOMAIN st.nbk
         THEN PlaceBatch(node, ps, j + 1, i, [st EXCEPT !.reps = @ + 1])
         ELSE PlaceBatch(node, ps, j + 1, i,
                         [st EXCEPT !.nbk = (ps[j] :> node) @@ @])

RECURSIVE PlaceLoop(_, _, _, _)

\* Mutant of PlaceLoop: the replica counter advances by one, not by the
\* number of positions the batch returned.
PlaceLoopStepOne(node, i, st, fuel) ==
    IF i >= st.reps THEN st
    ELSE IF fuel = 0 THEN [st EXCEPT !.ok = FALSE]
    ELSE LET ps == IterateHashKeys(node, i) IN
         IF ps = << >> THEN st
         ELSE PlaceLoop(node, i + 1, PlaceBatch(node, ps, 1, i, st), fuel - 1)

\* for i := 0; i < numReps; { ... i += len(positions) }
PlaceLoop(node, i, st, fuel) ==
    IF i >= st.reps THEN st
    ELSE IF fuel = 0 THEN [st EXCEPT !.ok = FALSE]
    ELSE LET ps == IterateHashKeys(node, i) IN
         IF ps = << >> THEN st                              \* numReps++; i++; break
         ELSE PlaceLoop(node, i + Len(ps), PlaceBatch(node, ps, 1, i, st), fuel - 1)

\* addNodeWithoutSort for each node in turn, node k with targets[k] positions;
\* a placed node joins allNodes.
RECURSIVE addNodesWithoutSort(_, _, _)
addNodesWithoutSort(st, nodes, targets) ==
    IF nodes = << >> \/ ~st.ok THEN st
    ELSE LET r == PlaceLoop(Head(nodes), 0, [st EXCEPT !.reps = Head(targets)], LoopBound)
         IN addNodesWithoutSort([r EXCEPT !.all = @ \cup {Head(nodes)}],
                                Tail(nodes), Tail(targets))

\* addNoWeightNodes: numReps positions for every node, then sort.
addNoWeightNodes(st, nodes) ==
    LET r == addNodesWithoutSort(st, nodes, [k \in 1 .. Len(nodes) |-> getNodeRepetitions])
    IN [r EXCEPT !.sk = updateSortedNodes(r.nbk)]

(***************************************************************************)
(* removeNoWeightNodes: the removal loop.  Its numReps is declared once    *)
(* for the whole call, so growth while removing one node carries over to   *)
(* the next.                                                               *)
(***************************************************************************)
RECURSIVE RemoveBatch(_, _, _, _, _)

\* Mutant of RemoveBatch: the owner is not compared with the removed node.
RemoveBatchAnyOwner(node, ps, j, i, st) ==
    IF j > Len(ps) \/ i + (j - 1) > st.reps THEN st
    ELSE IF ps[j] \notin DOMAIN st.nbk
         THEN RemoveBatch(node, ps, j + 1, i, st)
    ELSE RemoveBatch(node, ps, j + 1, i, [st EXCEPT !.nbk = Restrict(@, DOMAIN @ \ {ps[j]})])

\* Mutant of RemoveBatch: the position is given the zero Node value
\* instead of being deleted from the map.
RemoveBatchZeroValue(node, ps, j, i, st) ==
    IF j > Len(ps) \/ i + (j - 1) > st.reps THEN st
    ELSE IF ps[j] \notin DOMAIN st.nbk
         THEN RemoveBatch(node, ps, j + 1, i, st)
    ELSE IF ~isSameNode(st.nbk[ps[j]], node)
         THEN RemoveBatch(node, ps, j + 1, i, [st EXCEPT !.reps = @ + 1])
    ELSE RemoveBatch(node, ps, j + 1, i, [st EXCEPT !.nbk[ps[j]] = NoNode])

RemoveBatch(node, ps, j, i, st) ==
    IF j > Len(ps) \/ i + (j - 1) > st.reps THEN st
    ELSE IF ps[j] \notin DOMAIN st.nbk
         THEN RemoveBatch(node, ps, j + 1, i, st)
    ELSE IF ~isSameNode(st.nbk[ps[j]], node)
         THEN RemoveBatch(node, ps, j + 1, i, [st EXCEPT !.reps = @ + 1])
    ELSE RemoveBatch(node, ps, j + 1, i,
                     [st EXCEPT !.nbk = Restrict(@, DOMAIN @ \ {ps[j]})])

RECURSIVE RemoveLoop(_, _, _, _)
RemoveLoop(node, i, st, fuel) ==
    IF i >= st.reps THEN st
    ELSE IF fuel = 0 THEN [st EXCEPT !.ok = FALSE]
    ELSE LET ps == IterateHashKeys(node, i) IN
         IF ps = << >>
         THEN RemoveLoop(node, i + 1, [st EXCEPT !.reps = @ + 1], fuel - 1)
         ELSE RemoveLoop(node, i + Len(ps), RemoveBatch(node, ps, 1, i, st), fuel - 1)

RECURSIVE removeEach(_, _)
removeEach(st, nodes) ==
    IF nodes = << >> \/ ~st.ok THEN st
    ELSE LET r == RemoveLoop(Head(nodes), 0, st, LoopBound)
         IN removeEach([r EXCEPT !.all = @ \ {Head(nodes)}], Tail(nodes))

removeNoWeightNodes(st, nodes) ==
    LET r == removeEach([st EXCEPT !.reps = getNodeRepetitions], nodes)
    IN [r EXCEPT !.sk = updateSortedNodes(r.nbk)]

(***************************************************************************)
(* setNoWeightNodes.  `order` is the order in which the map iteration over *)
(* allNodes happened to list the members missing from `nodes`.             *)
(***************************************************************************)
ToBeRemoved(st, nodes) ==
    {k \in st.all : ~\E v \in ToSet(nodes) : isSameNode(k, v)}

setNoWeightNodes(st, nodes, order) ==
    LET rm    == IF Len(order) = Len(nodes) THEN Cleared(st)
                 ELSE removeNoWeightNodes(st, order)
        toAdd == SelectSeq(nodes, LAMBDA k : ~\E v \in rm.all : isSameNode(k, v))
    IN IF rm.ok THEN addNoWeightNodes(rm, toAdd) ELSE rm

(***************************************************************************)
(* Weighted placement.  setWeightNodes rebuilds the ring from scratch:     *)
(* pointerPerServer = floor(percent * numReps * nodeCount + 1e10).  With  *)
(* totalWeight = 0, percent is NaN and its conversion to int is a         *)
(* non-positive number on every Go target, so the loop places nothing.    *)
(***************************************************************************)
TotalWeight(nodes) == FoldLeft(+, 0, [k \in 1 .. Len(nodes) |-> WeightOf(nodes[k])])

PointerPerServer(w, total, count) ==
    IF total = 0 THEN 0 ELSE (w * getNodeRepetitions * count) \div total + Bias

setWeightNodes(st, nodes) ==
    LET total   == TotalWeight(nodes)
        targets == [k \in 1 .. Len(nodes) |->
                       PointerPerServer(WeightOf(nodes[k]), total, Len(nodes))]
        r       == addNodesWithoutSort(Cleared(st), nodes, targets)
    IN [r EXCEPT !.sk = updateSortedNodes(r.nbk)]

\* addWeightNodes: setWeightNodes(append(getAllNodes(), nodes...)).
addWeightNodes(st, nodes, order) == setWeightNodes(st, order \o nodes)

\* removeWeightNodes: delete the nodes from allNodes, rebuild from the rest.
removeWeightNodes(st, nodes, order) == setWeightNodes(st, order)

(***************************************************************************)
(* The public methods.  Commit makes the result of a call the new state,  *)
(* or records that the call never returns.                                *)
(***************************************************************************)
Commit(st) ==
    IF st.ok
    THEN /\ sortedKeys' = st.sk
         /\ nodeByKey' = st.nbk
         /\ allNodes' = st.all
         /\ UNCHANGED hung
    ELSE /\ hung' = TRUE
         /\ UNCHANGED <<sortedKeys, nodeByKey, allNodes>>

AddNodes(nodes) ==
    /\ ~hung
    /\ IF isWeighted
       THEN \E order \in MapOrders(allNodes) : Commit(addWeightNodes(Cur, nodes, order))
       ELSE Commit(addNoWeightNodes(Cur, nodes))

SetNodes(nodes) ==
    /\ ~hung
    /\ IF isWeighted
       THEN Commit(setWeightNodes(Cur, nodes))
       ELSE \E order \in MapOrders(ToBeRemoved(Cur, nodes)) :
               Commit(setNoWeightNodes(Cur, nodes, order))

RemoveNodes(nodes) ==
    /\ ~hung
    /\ IF isWeighted
       THEN \E order \in MapOrders(allNodes \ ToSet(nodes)) :
               Commit(removeWeightNodes(Cur, nodes, order))
       ELSE Commit(removeNoWeightNodes(Cur, nodes))

RemoveAllNodes ==
    /\ ~hung
    /\ Commit(Cleared(Cur))

(***************************************************************************)
(* The locator.  A key is looked up by its hash getHashKey(name), which   *)
(* can be any ring position, so the lookups take the position h itself.   *)
(***************************************************************************)
RECURSIVE LowerBound(_, _, _, _)
\* slices.BinarySearchFunc with cmp(v, key) = 0 if v >= key else -1:
\* the smallest index (from 0) whose key is >= the target.
LowerBound(sk, key, lo, hi) ==
    IF lo >= hi THEN lo
    ELSE LET h == (lo + hi) \div 2 IN
         IF sk[h + 1] < key THEN LowerBound(sk, key, h + 1, hi)
                            ELSE LowerBound(sk, key, lo, h)

\* The lookups read a ring r = [sk, nbk, ...]: the current one is Cur.
tailSearch(r, key) ==
    LET i == LowerBound(r.sk, key, 0, Len(r.sk))
    IN [i |-> i, found |-> i < Len(r.sk) /\ r.sk[i + 1] >= key]

getNodeByHashKeyIndex(r, k) == r.nbk[r.sk[k + 1]]

\* Mutant of FirstIndex: past the largest key it wraps to the last index.
FirstIndexWrapLast(r, hash) ==
    LET t == tailSearch(r, hash) IN IF t.found THEN t.i ELSE Len(r.sk) - 1

\* The index GetSince and getNodeByHashKey start from: the tail-search
\* result, wrapping to 0 past the largest key.
FirstIndex(r, hash) == LET t == tailSearch(r, hash) IN IF t.found THEN t.i ELSE 0

getNodeByHashKey(r, hash) ==
    IF Len(r.sk) = 0 THEN [node |-> NoNode, found |-> FALSE]
    ELSE IF hash \in DOMAIN r.nbk THEN [node |-> r.nbk[hash], found |-> TRUE]
    ELSE [node |-> getNodeByHashKeyIndex(r, FirstIndex(r, hash)), found |-> TRUE]

GetIn(r, hash) ==
    IF DOMAIN r.nbk = {} THEN [node |-> NoNode, found |-> FALSE]
    ELSE getNodeByHashKey(r, hash)

Get(hash) == GetIn(Cur, hash)

RECURSIVE SinceLoop(_, _, _, _)

\* Mutant of SinceLoop: a yielded node is not recorded in nodesSet.
SinceLoopNoRecord(r, i, start, seen) ==
    IF i = start THEN << >>
    ELSE IF i >= Len(r.sk) THEN SinceLoop(r, 0, start, seen)
    ELSE LET n == getNodeByHashKeyIndex(r, i) IN
         IF n \in seen THEN SinceLoop(r, i + 1, start, seen)
         ELSE << n >> \o SinceLoop(r, i + 1, start, seen)

\* for i := start + 1; i != start; i++ { wrap at len(sortedKeys); yield unseen }
SinceLoop(r, i, start, seen) ==
    IF i = start THEN << >>
    ELSE IF i >= Len(r.sk) THEN SinceLoop(r, 0, start, seen)
    ELSE LET n == getNodeByHashKeyIndex(r, i) IN
         IF n \in seen THEN SinceLoop(r, i + 1, start, seen)
         ELSE << n >> \o SinceLoop(r, i + 1, start, seen \cup {n})

\* GetSince: the whole sequence a consumer that never stops early receives.
GetSince(hash) ==
    IF DOMAIN nodeByKey = {} THEN << >>
    ELSE LET first == FirstIndex(Cur, hash)
             n1    == getNodeByHashKeyIndex(Cur, first)
         IN << n1 >> \o SinceLoop(Cur, first + 1, first, {n1})

Init ==
    /\ sortedKeys = << >>
    /\ nodeByKey = << >>
    /\ allNodes = {}
    /\ hung = FALSE

Next ==
    \/ \E nodes \in Args : AddNodes(nodes)
    \/ \E nodes \in Args : SetNodes(nodes)
    \/ \E nodes \in Args : RemoveNodes(nodes)
    \/ RemoveAllNodes

Spec == Init /\ [][Next]_vars

(***************************************************************************)
(* The calls a caller makes when it treats the ring as a set: AddNodes    *)
(* names only nodes the formatter does not already know, and no call names *)
(* the same node twice.  A repeated node is placed a second time and     *)
(* doubles its positions (addNoWeightNodes); leaving such calls out      *)
(* keeps the small model ring from filling up, which the 2^32 ring never  *)
(* does.                                                                   *)
(***************************************************************************)
DistinctArgs(nodes) ==
    \A k, l \in 1 .. Len(nodes) : k # l => ~isSameNode(nodes[k], nodes[l])

NewArgs(nodes) ==
    \A k \in 1 .. Len(nodes) : \A m \in allNodes : ~isSameNode(nodes[k], m)

CallerNext ==
    \/ \E nodes \in Args : DistinctArgs(nodes) /\ NewArgs(nodes) /\ AddNodes(nodes)
    \/ \E nodes \in Args : DistinctArgs(nodes) /\ SetNodes(nodes)
    \/ \E nodes \in Args : RemoveNodes(nodes)
    \/ RemoveAllNodes

CallerSpec == Init /\ [][CallerNext]_vars

(***************************************************************************)
(* Properties                                                              *)
(***************************************************************************)
TypeOK ==
    /\ sortedKeys \in Seq(Pos)
    /\ DOMAIN nodeByKey \subseteq Pos
    /\ \A p \in DOMAIN nodeByKey : nodeByKey[p] \in Nodes
    /\ allNodes \subseteq Nodes
    /\ hung \in BOOLEAN

\* Owner of the first position clockwise from h (h itself included).
ClockwiseOwner(h) ==
    LET D  == DOMAIN nodeByKey
        Up == {p \in D : p >= h}
    IN nodeByKey[IF Up # {} THEN Min(Up) ELSE Min(D)]

\* Get (exact match, binary tail search over sortedKeys, wrap to index 0)
\* returns, for every key hash, the owner of the first virtual position
\* clockwise from it, and reports not-found exactly when the ring is empty.
\* Breaks if a mutation leaves sortedKeys stale or the search is off by one.
LocatorMatchesRing ==
    \A h \in Pos :
        Get(h) = IF DOMAIN nodeByKey = {} THEN [node |-> NoNode, found |-> FALSE]
                 ELSE [node |-> ClockwiseOwner(h), found |-> TRUE]

\* Clockwise distance from h to the nearest position owned by n.
Dist(h, n) == Min({(p - h + RingSize) % RingSize : p \in {q \in DOMAIN nodeByKey : nodeByKey[q] = n}})

\* GetSince yields every node that owns a position exactly once, starting
\* with the node Get returns and going clockwise by each node's nearest
\* position: the wraparound loop neither repeats nor skips a node.
TraversalComplete ==
    \A h \in Pos :
        LET s == GetSince(h) IN
        /\ IsInjective(s)
        /\ ToSet(s) = Range(nodeByKey)
        /\ s # << >> => s[1] = Get(h).node
        /\ \A k, l \in 1 .. Len(s) : k < l => Dist(h, s[k]) < Dist(h, s[l])

\* Number of positions owned by n.
Share(n) == Cardinality({p \in DOMAIN nodeByKey : nodeByKey[p] = n})

\* In unweighted mode every member owns at least numReps positions: the
\* collision rule (skip a taken position, raise the budget) never leaves a
\* member short, and no later call takes a position from it.
MemberShare ==
    ~isWeighted => \A n \in All : Share(n) >= getNodeRepetitions

\* No call runs forever: every placement and removal loop of AddNodes,
\* SetNodes and RemoveNodes ends, so every call returns to its caller.
NoHang == ~hung

\* Get resolves a key exactly when the ring has members, and always to a
\* member (spec: resolution totality; members non-empty iff positions
\* non-empty).  Breaks if RemoveNodes leaves a position of a removed node
\* in nodeByKey.
GetReturnsMember ==
    \A h \in Pos :
        /\ Get(h).found <=> All # {}
        /\ Get(h).found => Get(h).node \in All

\* SetNodes keeps every virtual position of a member it retains: the
\* reconciliation removes and adds only the nodes that differ (spec 4.4).
\* Breaks if SetNodes clears and rebuilds the whole ring.
SetNodesKeepsRetained ==
    ~isWeighted =>
    \A nodes \in Args :
        DistinctArgs(nodes) =>
        \A order \in MapOrders(ToBeRemoved(Cur, nodes)) :
            LET r == setNoWeightNodes(Cur, nodes, order) IN
            r.ok =>
            \A p \in DOMAIN nodeByKey :
                nodeByKey[p] \in allNodes /\ (\E v \in ToSet(nodes) : isSameNode(nodeByKey[p], v))
                  => p \in DOMAIN r.nbk /\ r.nbk[p] = nodeByKey[p]

====
