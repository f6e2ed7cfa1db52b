-------------------------- MODULE ReferenceMarking --------------------------
(***************************************************************************)
(* What the garbage collection of input sections promises, without tasks,  *)
(* queues or flags: units are kept, each because it is a root or because a *)
(* unit kept earlier needs it, and the collection succeeds only when       *)
(* nothing needed is missing.  The selection of archive members promises   *)
(* the same of files.                                                      *)
(***************************************************************************)

CONSTANTS Nodes,       \* GC units, or input files
          RootNodes    \* nodes needed unconditionally

VARIABLES needs,       \* the nodes that each node needs, fixed by the input
          kept, outcome

Needed(K) == RootNodes \cup (UNION {needs[n] : n \in K})

Closed(K) == Needed(K) \subseteq K

(* The least closed set. *)
Reachable == {n \in Nodes : \A K \in SUBSET Nodes : Closed(K) => n \in K}

Init == needs \in [Nodes -> SUBSET Nodes] /\ kept = {} /\ outcome = "none"

Keep == /\ outcome = "none"
        /\ \E new \in (SUBSET (Needed(kept) \ kept)) \ {{}} : kept' = kept \cup new
        /\ UNCHANGED <<needs, outcome>>

Succeed == outcome = "none" /\ Closed(kept) /\ outcome' = "ok" /\ UNCHANGED <<needs, kept>>

Fail == outcome = "none" /\ outcome' = "err" /\ UNCHANGED <<needs, kept>>

Next == Keep \/ Succeed \/ Fail

Spec == Init /\ [][Next]_<<needs, kept, outcome>>
=============================================================================
