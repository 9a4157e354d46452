---------------------------- MODULE RingAbstract ----------------------------
(***************************************************************************)
(* What the unweighted consistent-hashing ring promises its callers       *)
(* (spec.md, sections 2, 4.4 and 8.3), with no positions, batches or       *)
(* sorted keys: a member set, and for every key hash the node it resolves  *)
(* to (NoNode when none).                                                   *)
(*                                                                         *)
(*  - Join: the nodes ns, none of them a member, join; a key changes node  *)
(*    only to move onto one of them.                                        *)
(*  - Leave: the members shrink, and a key changes node only if it         *)
(*    resolved to a leaving node (bounded churn).                          *)
(*  - Reconcile: the members become exactly the given set, and a key      *)
(*    changes node only if it left a node not in the set or moved onto a   *)
(*    node the set adds: the nodes it retains are not disturbed (4.4).     *)
(*  - Clear: no members, and no key resolves.                              *)
(***************************************************************************)
CONSTANTS Nodes, Keys, NoNode

VARIABLES members, owner

Owners == [Keys -> Nodes \cup {NoNode}]

\* The moves a step from old to new makes: <<from, to>> for every key
\* whose node changes.
Moves(old, new) == {m \in {<<old[k], new[k]>> : k \in Keys} : m[1] # m[2]}

Join(ns, mv) ==
    /\ ns \cap members = {}
    /\ members' = members \cup ns
    /\ \A m \in mv : m[2] \in ns

Leave(ns, mv) ==
    /\ members' = members \ ns
    /\ \A m \in mv : m[1] \in ns

Reconcile(ns, mv) ==
    /\ members' = ns
    /\ \A m \in mv : m[1] \notin ns \/ m[2] \in ns \ members

Clear(new) ==
    /\ members' = {}
    /\ new = [k \in Keys |-> NoNode]

Init ==
    /\ members = {}
    /\ owner = [k \in Keys |-> NoNode]

Next ==
    LET new == owner'
        mv  == Moves(owner, new)
    IN /\ new \in Owners
       /\ \/ Clear(new)
          \/ \E ns \in SUBSET Nodes : Join(ns, mv) \/ Leave(ns, mv) \/ Reconcile(ns, mv)

Spec == Init /\ [][Next]_<<members, owner>>

====
