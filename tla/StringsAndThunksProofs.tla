------------------------ MODULE StringsAndThunksProofs ----------------------
(***************************************************************************)
(* No interleaving of the tasks that merge strings loses a bucket, a       *)
(* vector or a group, for any sections, strings, buckets and parallelism.  *)
(***************************************************************************)
EXTENDS StringMerging, Thunks, FiniteSetTheorems, WellFoundedInduction, TLAPS

-----------------------------------------------------------------------------
(* Groups that input tasks have taken. *)
GroupsInv ==
  /\ GroupCount \in Nat \ {0} /\ DOMAIN groups = 1 .. GroupCount
  /\ popped \in 0 .. GroupCount
  /\ delivered \in [DOMAIN groups -> -1 .. NumBuckets]
  /\ finished_shards = {g \in DOMAIN groups : delivered[g] # -1}
  /\ \A g \in DOMAIN groups : delivered[g] # -1 => g <= popped
  /\ ~failed => \A g \in DOMAIN groups : g <= popped => delivered[g] # -1
  /\ failed \in BOOLEAN /\ phase \in {"merging", "done", "failed"}

(* Where the tasks are. *)
Steps == Resting \cup {"load", "exchange", "take", "return", "release"}
TasksInv ==
  /\ pc \in [0 .. NumBuckets -> Steps]
  /\ pc[Main] \in {"load", "exchange", "idle"}
  /\ next \in [Buckets -> 1 .. GroupCount + 1]
  /\ \A b \in Buckets :
       /\ pc[b] # "idle"
       /\ pc[b] = "dropped" => failed
       /\ pc[b] = "finished" <=> next[b] = GroupCount + 1

(* Bucket b has taken the strings of all groups before g, and not yet      *)
(* those of g.                                                             *)
Before(g, b) == next[b] < g \/ (next[b] = g /\ pc[b] \in {"slot", "take"})

(* A slot is filled from the time its group is delivered to the time its   *)
(* bucket takes it; a bucket waits in the slot of its next group.          *)
SlotsInv ==
  /\ slot \in [DOMAIN groups -> [Buckets -> {"empty", "waiting", "strings"}]]
  /\ \A g \in DOMAIN groups, b \in Buckets :
       /\ slot[g][b] = "waiting" <=> pc[b] = "slot" /\ next[b] = g
       /\ slot[g][b] = "strings" <=> delivered[g] > b /\ Before(g, b)
       /\ delivered[g] <= b => Before(g, b)

-----------------------------------------------------------------------------
(* The vectors *)

Holding == {b \in Buckets : pc[b] \in {"return", "release"}}
Returning == {b \in Buckets : pc[b] = "return"}
Held == Cardinality(Undelivered) + Cardinality(InSlots)
Used == spawned * NumBuckets + Held + Cardinality(Holding)

PoolInv ==
  /\ spawned \in Nat /\ available \in Nat /\ string_vecs \in Nat
  /\ seen \in [0 .. NumBuckets -> 0 .. Capacity]
  /\ \A t \in 0 .. NumBuckets : pc[t] = "exchange" => seen[t] >= NumBuckets
  /\ available + Used <= Capacity
  /\ ~failed => available + Used = Capacity
  /\ string_vecs + Held + Cardinality(Returning) <= Capacity

(* While there are groups to split, somebody is going to split one, to     *)
(* release a vector, or to see how many are available.                     *)
SomebodyGoesOn ==
  ~failed /\ popped < GroupCount =>
    \/ spawned > 0 \/ Undelivered # {} \/ InSlots # {} \/ Holding # {}
    \/ \E t \in 0 .. NumBuckets : pc[t] = "load" \/ (pc[t] = "exchange" /\ seen[t] = available)

MergeInv == GroupsInv /\ TasksInv /\ SlotsInv /\ PoolInv /\ SomebodyGoesOn

-----------------------------------------------------------------------------
(* The numbers of buckets and of vectors. *)
LEMMA Sizes ==
  /\ NumBuckets \in Nat \ {0} /\ Parallelism \in Nat \ {0}
  /\ Capacity \in Nat /\ NumBuckets <= Capacity
  /\ Buckets = 0 .. NumBuckets - 1 /\ Main = NumBuckets /\ Main \notin Buckets
  /\ IsFiniteSet(Buckets) /\ Cardinality(Buckets) = NumBuckets
<1>1. NumBuckets \in Nat \ {0} /\ Parallelism \in Nat \ {0}
  BY StringMergingAssumption
<1>2. Capacity \in Nat /\ NumBuckets <= Capacity
  <2>1. \A n, p \in Nat \ {0} : n * p \in Nat /\ n <= n * p
    OBVIOUS
  <2> QED
    BY <1>1, <2>1 DEF Capacity
<1>3. Buckets = 0 .. NumBuckets - 1 /\ Main = NumBuckets /\ Main \notin Buckets
  BY <1>1 DEF Buckets, Main
<1>4. IsFiniteSet(Buckets) /\ Cardinality(Buckets) = NumBuckets
  BY <1>1, <1>3, FS_Interval
<1> QED
  BY <1>1, <1>2, <1>3, <1>4

(* The sections and the groups stay. *)
LEMMA GroupsStay ==
  ASSUME [MergeNext]_merge_vars
  PROVE  UNCHANGED groups /\ GroupCount' = GroupCount
  BY DEF MergeNext, merge_vars, input_side, LoadAvailable, ExchangeAvailable, NoMoreGroups,
         SplitGroup, SplitFails, Deliver, TakeStrings, ReturnVector, ReleaseVector, Finish, GroupCount

(* Initially nothing is taken. *)
LEMMA GroupsInit == MergeInit => GroupsInv
<1> SUFFICES ASSUME MergeInit PROVE GroupsInv
  OBVIOUS
<1>1. groups \in Seq(Group) /\ groups # <<>>
  BY SplitAssumption DEF MergeInit
<1>2. GroupCount \in Nat \ {0} /\ DOMAIN groups = 1 .. GroupCount
  BY <1>1 DEF GroupCount
<1>3. /\ popped = 0 /\ delivered = [g \in DOMAIN groups |-> -1] /\ finished_shards = {}
      /\ failed = FALSE /\ phase = "merging"
  BY DEF MergeInit
<1>4. delivered \in [DOMAIN groups -> -1 .. NumBuckets] /\ \A g \in DOMAIN groups : delivered[g] = -1
  BY <1>3, Sizes
<1>5. popped \in 0 .. GroupCount /\ \A g \in DOMAIN groups : ~(g <= popped)
  BY <1>2, <1>3
<1>6. finished_shards = {g \in DOMAIN groups : delivered[g] # -1}
  BY <1>3, <1>4
<1>7. failed \in BOOLEAN /\ phase \in {"merging", "done", "failed"}
  BY <1>3
<1> QED
  BY <1>2, <1>4, <1>5, <1>6, <1>7 DEF GroupsInv

(* Groups are taken in order, one at a time. *)
LEMMA GroupsStep ==
  ASSUME GroupsInv, [MergeNext]_merge_vars
  PROVE  GroupsInv'
<1>0. UNCHANGED groups /\ GroupCount' = GroupCount
  BY GroupsStay
<1>1. ASSUME UNCHANGED <<popped, delivered, finished_shards, phase>>, failed' \in {TRUE, failed}
      PROVE  GroupsInv'
  BY <1>0, <1>1 DEF GroupsInv
<1>2. CASE UNCHANGED merge_vars
  BY <1>1, <1>2 DEF merge_vars
<1>3. ASSUME NEW t \in 0 .. NumBuckets, LoadAvailable(t) \/ ExchangeAvailable(t)
      PROVE  GroupsInv'
  BY <1>1, <1>3 DEF LoadAvailable, ExchangeAvailable, input_side
<1>4. CASE NoMoreGroups
  BY <1>1, <1>4 DEF NoMoreGroups, input_side
<1>5. CASE SplitGroup
  <2>1. /\ popped < GroupCount /\ popped' = popped + 1 /\ UNCHANGED <<failed, phase>>
        /\ finished_shards' = finished_shards \cup {popped + 1}
        /\ delivered' = [delivered EXCEPT ![popped + 1] = 0]
    BY <1>5 DEF SplitGroup
  <2> QED
    BY <1>0, <2>1, Sizes DEF GroupsInv
<1>6. CASE SplitFails
  <2>1. /\ popped < GroupCount /\ popped' = popped + 1 /\ failed' = TRUE
        /\ UNCHANGED <<finished_shards, delivered, phase>>
    BY <1>6 DEF SplitFails
  <2> QED
    BY <1>0, <2>1 DEF GroupsInv
<1>7. ASSUME NEW g \in DOMAIN groups, Deliver(g) PROVE GroupsInv'
  <2>1. /\ UNCHANGED <<popped, finished_shards, failed, phase>> /\ delivered[g] \in Buckets
        /\ delivered' = [delivered EXCEPT ![g] = delivered[g] + 1]
    BY <1>7 DEF Deliver
  <2> QED
    BY <1>0, <2>1, Sizes DEF GroupsInv
<1>8. ASSUME NEW b \in Buckets, TakeStrings(b) \/ ReturnVector(b) \/ ReleaseVector(b)
      PROVE  GroupsInv'
  BY <1>1, <1>8 DEF TakeStrings, ReturnVector, ReleaseVector, input_side
<1>9. CASE Finish
  BY <1>0, <1>9 DEF Finish, input_side, GroupsInv
<1> QED
  BY <1>2, <1>3, <1>4, <1>5, <1>6, <1>7, <1>8, <1>9 DEF MergeNext

(* Initially every bucket waits in its first slot. *)
LEMMA TasksInit == MergeInit /\ GroupsInv => TasksInv /\ SlotsInv
<1> SUFFICES ASSUME MergeInit, GroupsInv PROVE TasksInv /\ SlotsInv
  OBVIOUS
<1>1. /\ pc = [t \in 0 .. NumBuckets |-> IF t = Main THEN "load" ELSE "slot"]
      /\ next = [b \in Buckets |-> 1]
      /\ delivered = [g \in DOMAIN groups |-> -1]
      /\ slot = [g \in DOMAIN groups |-> [b \in Buckets |-> IF g = 1 THEN "waiting" ELSE "empty"]]
  BY DEF MergeInit
<1>2. \A b \in Buckets : b \in 0 .. NumBuckets /\ pc[b] = "slot" /\ next[b] = 1
  BY <1>1, Sizes
<1>3. TasksInv
  <2>1. pc \in [0 .. NumBuckets -> Steps] /\ pc[Main] = "load"
    BY <1>1, Sizes DEF Steps, Resting
  <2>2. next \in [Buckets -> 1 .. GroupCount + 1] /\ \A b \in Buckets : next[b] # GroupCount + 1
    BY <1>1 DEF GroupsInv
  <2> QED
    BY <1>2, <2>1, <2>2 DEF TasksInv
<1>4. SlotsInv
  BY <1>1, <1>2, Sizes DEF SlotsInv, GroupsInv, Before
<1> QED
  BY <1>3, <1>4

(* A task moves to place s. *)
LEMMA TaskMoves ==
  ASSUME GroupsInv, TasksInv, GroupCount' = GroupCount, NEW t \in 0 .. NumBuckets, NEW s \in Steps,
         pc' = [pc EXCEPT ![t] = s], failed => failed', s = "dropped" => failed',
         IF t = Main THEN s \in {"load", "exchange", "idle"} ELSE s # "idle",
         \/ UNCHANGED next /\ s # "finished" /\ pc[t] # "finished"
         \/ t = Main /\ UNCHANGED next
         \/ /\ t # Main /\ next' = [next EXCEPT ![t] = next[t] + 1] /\ next[t] <= GroupCount
            /\ s = "finished" <=> next[t] = GroupCount
  PROVE  /\ TasksInv' /\ pc'[t] = s
         /\ \A b \in Buckets : b # t => pc'[b] = pc[b] /\ next'[b] = next[b]
<1>1. /\ pc' \in [0 .. NumBuckets -> Steps] /\ pc'[t] = s
      /\ \A b \in 0 .. NumBuckets : b # t => pc'[b] = pc[b]
  BY DEF TasksInv
<1>2. /\ next' \in [Buckets -> 1 .. GroupCount + 1]
      /\ \A b \in Buckets : b # t => next'[b] = next[b]
  <2>1. CASE UNCHANGED next
    BY <2>1 DEF TasksInv
  <2>2. CASE t # Main /\ next' = [next EXCEPT ![t] = next[t] + 1] /\ next[t] <= GroupCount
    <3>1. t \in Buckets
      BY <2>2, Sizes
    <3> QED
      BY <2>2, <3>1 DEF TasksInv, GroupsInv
  <2> QED
    BY <2>1, <2>2
<1>3. pc'[Main] \in {"load", "exchange", "idle"}
  BY <1>1, Sizes DEF TasksInv
<1>4. ASSUME NEW b \in Buckets
      PROVE  /\ pc'[b] # "idle" /\ (pc'[b] = "dropped" => failed')
             /\ pc'[b] = "finished" <=> next'[b] = GroupCount + 1
  <2>1. /\ b \in 0 .. NumBuckets /\ b # Main /\ pc[b] # "idle" /\ (pc[b] = "dropped" => failed)
        /\ pc[b] = "finished" <=> next[b] = GroupCount + 1
    BY Sizes DEF TasksInv
  <2>2. CASE b # t
    BY <1>1, <1>2, <2>1, <2>2
  <2>3. CASE b = t /\ UNCHANGED next /\ s # "finished" /\ pc[t] # "finished"
    BY <1>1, <2>1, <2>3
  <2>4. CASE b = t /\ next' = [next EXCEPT ![t] = next[t] + 1]
    <3>1. next'[b] = next[b] + 1 /\ next[b] \in Nat /\ GroupCount \in Nat
      BY <2>4 DEF TasksInv, GroupsInv
    <3> QED
      BY <1>1, <2>1, <2>4, <3>1
  <2> QED
    BY <2>1, <2>2, <2>3, <2>4
<1> QED
  BY <1>1, <1>2, <1>3, <1>4, Sizes DEF TasksInv

(* What return from try_spawn_input_processing does to the tasks. *)
LEMMA ReturnedTasks ==
  ASSUME GroupsInv, TasksInv, NEW t \in 0 .. NumBuckets, pc[t] \in {"load", "exchange"},
         Returned(t), GroupCount' = GroupCount, UNCHANGED failed
  PROVE  /\ TasksInv'
         /\ \A b \in Buckets :
              \/ b # t /\ pc'[b] = pc[b] /\ next'[b] = next[b]
              \/ /\ b = t /\ next'[b] = next[b] + 1
                 /\ pc'[b] = IF next[b] = GroupCount THEN "finished" ELSE "take"
<1>1. CASE t = Main
  <2>1. pc' = [pc EXCEPT ![t] = "idle"] /\ UNCHANGED next /\ "idle" \in Steps
    BY <1>1 DEF Returned, Steps, Resting
  <2> QED
    BY <1>1, <2>1, TaskMoves, Sizes, ZenonT(60)
<1>2. CASE t # Main
  <2> DEFINE s == IF next[t] = GroupCount THEN "finished" ELSE "take"
  <2>1. t \in Buckets
    BY <1>2, Sizes
  <2>2. next[t] \in 1 .. GroupCount
    BY <2>1, Sizes DEF TasksInv, GroupsInv
  <2>3. next' = [next EXCEPT ![t] = next[t] + 1] /\ pc' = [pc EXCEPT ![t] = s]
    BY <1>2 DEF Returned
  <2>4. s \in Steps /\ s \notin {"idle", "dropped"} /\ (s = "finished" <=> next[t] = GroupCount)
    BY DEF Steps, Resting
  <2>5. next'[t] = next[t] + 1
    BY <2>1, <2>3 DEF TasksInv
  <2> HIDE DEF s
  <2>6. TasksInv' /\ pc'[t] = s /\ \A b \in Buckets : b # t => pc'[b] = pc[b] /\ next'[b] = next[b]
    <3>1. (failed => failed') /\ (s = "dropped" => failed')
      BY <2>4
    <3>2. IF t = Main THEN s \in {"load", "exchange", "idle"} ELSE s # "idle"
      BY <1>2, <2>4
    <3>3. next[t] <= GroupCount
      BY <2>2 DEF GroupsInv
    <3> QED
      BY <1>2, <2>3, <2>4, <3>1, <3>2, <3>3, TaskMoves
  <2> QED
    BY <2>1, <2>5, <2>6 DEF s
<1> QED
  BY <1>1, <1>2

(* Every step keeps the tasks and the slots in order. *)
LEMMA TasksStep ==
  ASSUME GroupsInv, GroupsInv', TasksInv, SlotsInv, [MergeNext]_merge_vars
  PROVE  TasksInv' /\ SlotsInv'
<1>0. UNCHANGED groups /\ GroupCount' = GroupCount
  BY GroupsStay
<1>1. ASSUME UNCHANGED <<pc, next, slot>>, failed => failed',
             \A g \in DOMAIN groups, b \in Buckets : delivered'[g] > b <=> delivered[g] > b
      PROVE  TasksInv' /\ SlotsInv'
  <2>1. TasksInv'
    BY <1>0, <1>1 DEF TasksInv
  <2>2. \A g \in DOMAIN groups, b \in Buckets : delivered'[g] <= b <=> delivered[g] <= b
    BY <1>0, <1>1, Sizes DEF GroupsInv
  <2>3. SlotsInv'
    BY <1>0, <1>1, <2>2 DEF SlotsInv, Before
  <2> QED
    BY <2>1, <2>3
<1>2. CASE UNCHANGED merge_vars
  BY <1>1, <1>2 DEF merge_vars
<1>3. ASSUME NEW t \in 0 .. NumBuckets, pc[t] \in {"load", "exchange"}, Returned(t),
             UNCHANGED <<delivered, slot, failed>>
      PROVE  TasksInv' /\ SlotsInv'
  <2>1. /\ TasksInv'
        /\ \A b \in Buckets :
             \/ b # t /\ pc'[b] = pc[b] /\ next'[b] = next[b]
             \/ /\ b = t /\ next'[b] = next[b] + 1
                /\ pc'[b] = IF next[b] = GroupCount THEN "finished" ELSE "take"
    BY <1>0, <1>3, ReturnedTasks
  <2>2. ASSUME NEW g \in DOMAIN groups, NEW b \in Buckets
        PROVE  Before(g, b)' <=> Before(g, b)
    <3>1. next[b] \in Nat /\ g \in 1 .. GroupCount /\ GroupCount \in Nat
      BY Sizes, SMTT(30) DEF TasksInv, GroupsInv
    <3> QED
      BY <1>3, <2>1, <3>1 DEF Before
  <2>3. SlotsInv'
    BY <1>0, <1>3, <2>1, <2>2 DEF SlotsInv
  <2> QED
    BY <2>1, <2>3
<1>4. ASSUME NEW t \in 0 .. NumBuckets, NEW s \in {"load", "exchange", "release"},
             pc[t] \in {"load", "exchange", "return", "release"},
             t = Main => s \in {"load", "exchange"},
             pc' = [pc EXCEPT ![t] = s],
             UNCHANGED <<next, delivered, slot, failed>>
      PROVE  TasksInv' /\ SlotsInv'
  <2>1. TasksInv'
    BY <1>0, <1>4, TaskMoves DEF Steps
  <2>2. \A b \in Buckets : /\ pc'[b] = "slot" <=> pc[b] = "slot"
                         /\ pc'[b] = "take" <=> pc[b] = "take"
    BY <1>4, Sizes DEF TasksInv
  <2>3. SlotsInv'
    BY <1>0, <1>4, <2>2 DEF SlotsInv, Before
  <2> QED
    BY <2>1, <2>3
<1>5. ASSUME NEW t \in 0 .. NumBuckets, LoadAvailable(t) PROVE TasksInv' /\ SlotsInv'
  <2>1. /\ pc[t] = "load" /\ UNCHANGED <<delivered, slot, failed>>
        /\ Returned(t) \/ (pc' = [pc EXCEPT ![t] = "exchange"] /\ UNCHANGED next)
    BY <1>5 DEF LoadAvailable, input_side
  <2> QED
    BY <1>3, <1>4, <2>1
<1>6. ASSUME NEW t \in 0 .. NumBuckets, ExchangeAvailable(t) PROVE TasksInv' /\ SlotsInv'
  <2>1. /\ pc[t] = "exchange" /\ UNCHANGED <<delivered, slot, failed>>
        /\ Returned(t) \/ (pc' = [pc EXCEPT ![t] = "load"] /\ UNCHANGED next)
    BY <1>6 DEF ExchangeAvailable, input_side
  <2> QED
    BY <1>3, <1>4, <2>1
<1>7. CASE NoMoreGroups \/ Finish
  BY <1>1, <1>7 DEF NoMoreGroups, Finish, input_side
<1>8. CASE SplitGroup
  <2>1. /\ popped < GroupCount /\ delivered' = [delivered EXCEPT ![popped + 1] = 0]
        /\ UNCHANGED <<slot, pc, next, failed>>
    BY <1>8 DEF SplitGroup
  <2>2. delivered[popped + 1] = -1 /\ popped + 1 \in DOMAIN groups
    BY <2>1 DEF GroupsInv
  <2>3. \A g \in DOMAIN groups, b \in Buckets : delivered'[g] > b <=> delivered[g] > b
    BY <2>1, <2>2, Sizes DEF GroupsInv
  <2> QED
    BY <1>1, <2>1, <2>3
<1>9. CASE SplitFails
  BY <1>1, <1>9 DEF SplitFails
<1>10. ASSUME NEW g \in DOMAIN groups, Deliver(g) PROVE TasksInv' /\ SlotsInv'
  <2> DEFINE b == delivered[g]
  <2>1. /\ b \in Buckets /\ UNCHANGED <<next, failed>>
        /\ slot' = [slot EXCEPT ![g][b] = "strings"]
        /\ pc' = IF slot[g][b] = "waiting" THEN [pc EXCEPT ![b] = "take"] ELSE pc
        /\ delivered' = [delivered EXCEPT ![g] = b + 1]
    BY <1>10 DEF Deliver
  <2>2. slot[g][b] = "waiting" <=> pc[b] = "slot" /\ next[b] = g
    BY <2>1 DEF SlotsInv
  <2>3. ASSUME slot[g][b] = "waiting"
        PROVE  TasksInv' /\ pc'[b] = "take" /\ \A c \in Buckets : c # b => pc'[c] = pc[c]
    <3>1. pc' = [pc EXCEPT ![b] = "take"] /\ pc[b] # "finished" /\ b # Main /\ b \in 0 .. NumBuckets
      BY <2>1, <2>2, <2>3, Sizes
    <3>2. (failed => failed') /\ "take" \in Steps
      BY <2>1 DEF Steps
    <3>3. UNCHANGED next
      BY <2>1
    <3> HIDE DEF b
    <3> QED
      BY <1>0, <3>1, <3>2, <3>3, TaskMoves
  <2>4. /\ TasksInv'
        /\ \A c \in Buckets :
             \/ pc'[c] = pc[c] /\ ~(c = b /\ pc[c] = "slot" /\ next[c] = g)
             \/ c = b /\ pc[c] = "slot" /\ next[c] = g /\ pc'[c] = "take"
    <3> HIDE DEF b
    <3>1. CASE slot[g][b] = "waiting"
      BY <2>2, <2>3, <3>1
    <3>2. CASE slot[g][b] # "waiting"
      <4>1. UNCHANGED <<pc, next, failed>>
        BY <2>1, <3>2
      <4>2. TasksInv'
        BY <1>0, <4>1 DEF TasksInv
      <4> QED
        BY <2>2, <3>2, <4>1, <4>2
    <3> QED
      BY <3>1, <3>2
  <2>5. ASSUME NEW h \in DOMAIN groups, NEW c \in Buckets
        PROVE  /\ slot'[h] \in [Buckets -> {"empty", "waiting", "strings"}]
               /\ slot'[h][c] = IF h = g /\ c = b THEN "strings" ELSE slot[h][c]
               /\ delivered'[h] = IF h = g THEN b + 1 ELSE delivered[h]
               /\ Before(h, c)' <=> Before(h, c)
    <3>1. Before(h, c)' <=> Before(h, c)
      BY <2>1, <2>4 DEF Before
    <3> QED
      BY <2>1, <3>1 DEF SlotsInv, GroupsInv
  <2>6. slot' \in [DOMAIN groups -> [Buckets -> {"empty", "waiting", "strings"}]]
    <3>1. slot' = [h \in DOMAIN groups |-> slot'[h]]
      BY <2>1 DEF SlotsInv
    <3> QED
      BY <2>1, <2>5, <3>1
  <2>7. ASSUME NEW h \in DOMAIN groups, NEW c \in Buckets
        PROVE  /\ slot'[h][c] = "waiting" <=> pc'[c] = "slot" /\ next'[c] = h
               /\ slot'[h][c] = "strings" <=> delivered'[h] > c /\ Before(h, c)'
               /\ delivered'[h] <= c => Before(h, c)'
    <3> HIDE DEF b
    <3>1. /\ slot[h][c] = "waiting" <=> pc[c] = "slot" /\ next[c] = h
          /\ slot[h][c] = "strings" <=> delivered[h] > c /\ Before(h, c)
          /\ delivered[h] <= c => Before(h, c)
      BY DEF SlotsInv
    <3>2. delivered[g] = b /\ b \in Nat /\ c \in Nat /\ delivered[h] \in Int
      BY <2>1, Sizes DEF b, GroupsInv
    <3>3. slot'[h][c] = "waiting" <=> pc'[c] = "slot" /\ next'[c] = h
      BY <2>1, <2>4, <2>5, <3>1
    <3>4. CASE h = g /\ c = b
      BY <2>5, <3>1, <3>2, <3>3, <3>4
    <3>5. CASE h # g \/ c # b
      BY <2>5, <3>1, <3>2, <3>3, <3>5
    <3> QED
      BY <3>4, <3>5
  <2> QED
    BY <1>0, <2>4, <2>6, <2>7 DEF SlotsInv
<1>11. ASSUME NEW b \in Buckets, TakeStrings(b) PROVE TasksInv' /\ SlotsInv'
  <2> DEFINE g == next[b]
  <2>1. /\ pc[b] = "take" /\ UNCHANGED <<next, delivered>>
        /\ \/ /\ slot[g][b] = "strings" /\ slot' = [slot EXCEPT ![g][b] = "empty"]
              /\ \/ pc' = [pc EXCEPT ![b] = "return"] /\ UNCHANGED failed
                 \/ pc' = [pc EXCEPT ![b] = "dropped"] /\ failed' = TRUE
           \/ /\ slot[g][b] # "strings" /\ slot' = [slot EXCEPT ![g][b] = "waiting"]
              /\ pc' = [pc EXCEPT ![b] = "slot"] /\ UNCHANGED failed
    BY <1>11 DEF TakeStrings, input_side
  <2>2. g \in DOMAIN groups
    <3>1. pc[b] # "finished"
      BY <2>1
    <3> QED
      BY <3>1 DEF TasksInv, GroupsInv
  <2>3. TasksInv'
    <3>1. b \in 0 .. NumBuckets /\ b # Main
      BY Sizes
    <3>2. PICK s \in Steps \ {"idle", "finished"} :
            /\ pc' = [pc EXCEPT ![b] = s] /\ (failed => failed') /\ (s = "dropped" => failed')
      BY <2>1 DEF Steps, Resting
    <3> QED
      BY <1>0, <2>1, <3>1, <3>2, TaskMoves
  <2>4. PICK s \in {"empty", "waiting"} :
          /\ slot' = [slot EXCEPT ![g][b] = s]
          /\ \A c \in Buckets : c # b => pc'[c] = pc[c]
          /\ s = "empty" => slot[g][b] = "strings" /\ pc'[b] \in {"return", "dropped"}
          /\ s = "waiting" => slot[g][b] # "strings" /\ pc'[b] = "slot"
    BY <2>1, Sizes DEF TasksInv
  <2>5. ASSUME NEW h \in DOMAIN groups, NEW c \in Buckets
        PROVE  /\ slot'[h] \in [Buckets -> {"empty", "waiting", "strings"}]
               /\ slot'[h][c] = IF h = g /\ c = b THEN s ELSE slot[h][c]
    BY <2>4 DEF SlotsInv
  <2>6. slot' \in [DOMAIN groups -> [Buckets -> {"empty", "waiting", "strings"}]]
    <3>1. slot' = [h \in DOMAIN groups |-> slot'[h]]
      BY <2>4 DEF SlotsInv
    <3> QED
      BY <2>5, <3>1
  <2>7. ASSUME NEW h \in DOMAIN groups, NEW c \in Buckets
        PROVE  /\ slot'[h][c] = "waiting" <=> pc'[c] = "slot" /\ next'[c] = h
               /\ slot'[h][c] = "strings" <=> delivered'[h] > c /\ Before(h, c)'
               /\ delivered'[h] <= c => Before(h, c)'
    <3>1. /\ slot[h][c] = "waiting" <=> pc[c] = "slot" /\ next[c] = h
          /\ slot[h][c] = "strings" <=> delivered[h] > c /\ Before(h, c)
          /\ delivered[h] <= c => Before(h, c)
      BY DEF SlotsInv
    <3>2. c \in Nat /\ delivered[h] \in Int /\ delivered'[h] = delivered[h] /\ next'[c] = next[c]
      BY <2>1, Sizes DEF GroupsInv
    <3>3. CASE c # b
      <4>1. Before(h, c)' <=> Before(h, c)
        BY <2>1, <2>4, <3>3 DEF Before
      <4> QED
        BY <2>1, <2>4, <2>5, <3>1, <3>2, <3>3, <4>1
    <3>4. CASE c = b /\ h # g
      <4>1. Before(h, c)' <=> Before(h, c)
        BY <2>1, <2>4, <3>4 DEF Before
      <4> QED
        BY <2>1, <2>4, <2>5, <3>1, <3>2, <3>4, <4>1
    <3>5. CASE c = b /\ h = g
      <4>1. Before(h, c) /\ (Before(h, c)' <=> s = "waiting")
        BY <2>1, <2>4, <3>5, Sizes DEF Before, TasksInv
      <4> QED
        BY <2>1, <2>4, <2>5, <3>1, <3>2, <3>5, <4>1
    <3> QED
      BY <3>3, <3>4, <3>5
  <2> QED
    BY <1>0, <2>3, <2>6, <2>7 DEF SlotsInv
<1>12. ASSUME NEW b \in Buckets, ReturnVector(b) \/ ReleaseVector(b) PROVE TasksInv' /\ SlotsInv'
  <2>1. b \in 0 .. NumBuckets /\ b # Main
    BY Sizes
  <2> QED
    BY <1>4, <1>12, <2>1 DEF ReturnVector, ReleaseVector, input_side
<1> QED
  BY <1>2, <1>5, <1>6, <1>7, <1>8, <1>9, <1>10, <1>11, <1>12 DEF MergeNext

-----------------------------------------------------------------------------
(* Counting the vectors *)

(* The sets of what is held are finite. *)
LEMMA HeldFinite ==
  ASSUME GroupsInv
  PROVE  /\ IsFiniteSet(Undelivered) /\ IsFiniteSet(InSlots)
         /\ IsFiniteSet(Holding) /\ IsFiniteSet(Returning)
         /\ Cardinality(Undelivered) \in Nat /\ Cardinality(InSlots) \in Nat
         /\ Cardinality(Holding) \in Nat /\ Cardinality(Returning) \in Nat
<1>1. IsFiniteSet(DOMAIN groups)
  BY FS_Interval DEF GroupsInv
<1>2. IsFiniteSet((DOMAIN groups) \X Buckets)
  BY <1>1, Sizes, FS_Product
<1>3. IsFiniteSet(Undelivered) /\ IsFiniteSet(InSlots)
  BY <1>2, FS_Subset DEF Undelivered, InSlots
<1>4. IsFiniteSet(Holding) /\ IsFiniteSet(Returning)
  BY Sizes, FS_Subset DEF Holding, Returning
<1> QED
  BY <1>3, <1>4, FS_CardinalityType

(* Initially all vectors are available. *)
LEMMA PoolInit == MergeInit /\ GroupsInv => PoolInv /\ SomebodyGoesOn
<1> SUFFICES ASSUME MergeInit, GroupsInv PROVE PoolInv /\ SomebodyGoesOn
  OBVIOUS
<1>1. /\ pc = [t \in 0 .. NumBuckets |-> IF t = Main THEN "load" ELSE "slot"]
      /\ delivered = [g \in DOMAIN groups |-> -1]
      /\ slot = [g \in DOMAIN groups |-> [b \in Buckets |-> IF g = 1 THEN "waiting" ELSE "empty"]]
      /\ spawned = 0 /\ available = Capacity /\ string_vecs = 0
      /\ seen = [t \in 0 .. NumBuckets |-> 0]
  BY DEF MergeInit
<1>2. Undelivered = {} /\ InSlots = {} /\ Holding = {} /\ Returning = {}
  BY <1>1, Sizes DEF Undelivered, InSlots, Holding, Returning
<1>3. Held = 0 /\ Cardinality(Holding) = 0 /\ Cardinality(Returning) = 0 /\ Used = 0
  BY <1>1, <1>2, FS_EmptySet, Sizes DEF Held, Used
<1>4. pc[Main] = "load" /\ Main \in 0 .. NumBuckets
  BY <1>1, Sizes
<1>5. /\ seen \in [0 .. NumBuckets -> 0 .. Capacity]
      /\ \A t \in 0 .. NumBuckets : pc[t] # "exchange"
  BY <1>1, Sizes
<1>6. PoolInv
  BY <1>1, <1>3, <1>5, Sizes DEF PoolInv
<1> QED
  BY <1>4, <1>6 DEF SomebodyGoesOn

(* The bounds of PoolInv follow from how the counts change. *)
LEMMA Balanced ==
  ASSUME GroupsInv, GroupsInv', PoolInv, NEW da \in Int, NEW ds \in {-1, 0, 1}, NEW dh \in Int,
         NEW dk \in Int,
         available' = available + da, spawned' = spawned + ds, Held' = Held + dh,
         Cardinality(Holding)' = Cardinality(Holding) + dk,
         available' \in Nat, spawned' \in Nat,
         da + ds * NumBuckets + dh + dk <= 0,
         ~failed' => ~failed /\ da + ds * NumBuckets + dh + dk = 0
  PROVE  /\ available' + Used' <= Capacity
         /\ ~failed' => available' + Used' = Capacity
<1>1. /\ Held \in Int /\ Cardinality(Holding) \in Int /\ Held' \in Int
  BY HeldFinite DEF Held
<1>2. spawned' * NumBuckets = spawned * NumBuckets + ds * NumBuckets /\ spawned * NumBuckets \in Int
  BY Sizes DEF PoolInv
<1>3. available' + Used' = available + Used + (da + ds * NumBuckets + dh + dk)
  BY <1>1, <1>2, Sizes DEF Used, PoolInv
<1>4. available + Used \in Int /\ ds * NumBuckets \in Int
  BY <1>1, <1>2, Sizes DEF Used, PoolInv
<1> QED
  BY <1>3, <1>4, Sizes DEF PoolInv

(* A task that neither holds a vector nor is given one changes no count. *)
LEMMA SameHolding ==
  ASSUME TasksInv, NEW t \in 0 .. NumBuckets,
         pc[t] \notin {"return", "release"}, pc'[t] \notin {"return", "release"},
         \A b \in Buckets : b # t => pc'[b] = pc[b]
  PROVE  Holding' = Holding /\ Returning' = Returning
  BY DEF Holding, Returning

(* As long as nothing is split, delivered or taken, as much is held. *)
LEMMA SameHeld ==
  ASSUME UNCHANGED <<groups, delivered, slot>>
  PROVE  Undelivered' = Undelivered /\ InSlots' = InSlots /\ Held' = Held
  BY DEF Undelivered, InSlots, Held

(* Somebody goes on, unless nothing is left to do. *)
LEMMA VectorsInUseGoOn ==
  ASSUME GroupsInv, PoolInv, ~failed, available < Capacity
  PROVE  spawned > 0 \/ Undelivered # {} \/ InSlots # {} \/ Holding # {}
<1> SUFFICES ASSUME ~(spawned > 0), Undelivered = {}, InSlots = {}, Holding = {} PROVE FALSE
  OBVIOUS
<1>1. Held = 0 /\ Cardinality(Holding) = 0
  BY FS_EmptySet DEF Held
<1>2. spawned = 0
  BY DEF PoolInv
<1>3. Used = 0
  BY <1>1, <1>2, Sizes DEF Used
<1>4. available + Used = Capacity
  BY DEF PoolInv
<1> QED
  BY <1>3, <1>4, Sizes DEF PoolInv

(* There are never more vectors available than there is room for. *)
LEMMA AvailableBound ==
  ASSUME GroupsInv, PoolInv
  PROVE  Used \in Nat /\ Held \in Nat /\ available \in 0 .. Capacity
<1>1. Held \in Nat /\ Cardinality(Holding) \in Nat
  BY HeldFinite DEF Held
<1>2. \A m, n \in Nat : m * n \in Nat
  OBVIOUS
<1>3. spawned * NumBuckets \in Nat
  BY <1>2, Sizes DEF PoolInv
<1>4. Used \in Nat
  BY <1>1, <1>3 DEF Used
<1> QED
  BY <1>1, <1>4, Sizes DEF PoolInv

(* try_reserve keeps the balance. *)
LEMMA PoolLoad ==
  ASSUME GroupsInv, GroupsInv', TasksInv, TasksInv', PoolInv, SomebodyGoesOn,
         UNCHANGED groups, GroupCount' = GroupCount, NEW t \in 0 .. NumBuckets, LoadAvailable(t)
  PROVE  PoolInv' /\ SomebodyGoesOn'
<1>1. /\ pc[t] = "load"
      /\ UNCHANGED <<popped, delivered, slot, spawned, available, string_vecs, failed>>
  BY DEF LoadAvailable, input_side
<1>2. /\ pc'[t] \in {"exchange", "idle", "finished", "take"}
      /\ \A u \in 0 .. NumBuckets : u # t => pc'[u] = pc[u]
  BY DEF LoadAvailable, Returned, TasksInv
<1>3. \/ available < NumBuckets /\ pc'[t] # "exchange" /\ UNCHANGED seen
      \/ ~(available < NumBuckets) /\ pc'[t] = "exchange" /\ seen' = [seen EXCEPT ![t] = available]
  BY DEF LoadAvailable, Returned, TasksInv
<1>4. Holding' = Holding /\ Returning' = Returning
  BY <1>1, <1>2, SameHolding, Sizes
<1>5. Undelivered' = Undelivered /\ InSlots' = InSlots /\ Held' = Held
  BY <1>1, SameHeld
<1>6. Used' = Used
  BY <1>1, <1>4, <1>5 DEF Used
<1>7. available \in 0 .. Capacity
  BY AvailableBound
<1>8. PoolInv'
  <2>1. seen' \in [0 .. NumBuckets -> 0 .. Capacity]
    BY <1>3, <1>7 DEF PoolInv
  <2>2. \A u \in 0 .. NumBuckets : pc'[u] = "exchange" => seen'[u] >= NumBuckets
    BY <1>2, <1>3, <1>7, Sizes, SMTT(30) DEF PoolInv
  <2> QED
    BY <1>1, <1>4, <1>5, <1>6, <2>1, <2>2 DEF PoolInv
<1>9. SomebodyGoesOn'
  <2> SUFFICES ASSUME ~failed', popped' < GroupCount'
               PROVE  SomebodyGoesOn'
    BY DEF SomebodyGoesOn
  <2>1. CASE available < NumBuckets
    <3>1. available < Capacity
      BY <1>7, <2>1, Sizes
    <3>2. spawned > 0 \/ Undelivered # {} \/ InSlots # {} \/ Holding # {}
      BY <1>1, <3>1, VectorsInUseGoOn
    <3> QED
      BY <1>1, <1>4, <1>5, <3>2 DEF SomebodyGoesOn
  <2>2. CASE ~(available < NumBuckets)
    <3>1. pc'[t] = "exchange" /\ seen'[t] = available'
      BY <1>1, <1>3, <2>2 DEF PoolInv
    <3> QED
      BY <3>1 DEF SomebodyGoesOn
  <2> QED
    BY <2>1, <2>2
<1> QED
  BY <1>8, <1>9

(* An exchange that succeeds spawns an input task; one that fails does so  *)
(* because another task has changed the number.                            *)
LEMMA PoolExchange ==
  ASSUME GroupsInv, GroupsInv', TasksInv, TasksInv', PoolInv, SomebodyGoesOn,
         UNCHANGED groups, GroupCount' = GroupCount, NEW t \in 0 .. NumBuckets, ExchangeAvailable(t)
  PROVE  PoolInv' /\ SomebodyGoesOn'
<1>1. /\ pc[t] = "exchange" /\ seen' = [seen EXCEPT ![t] = 0]
      /\ UNCHANGED <<popped, delivered, slot, string_vecs, failed>>
  BY DEF ExchangeAvailable, input_side
<1>2. /\ pc'[t] \in {"load", "idle", "finished", "take"}
      /\ \A u \in 0 .. NumBuckets : u # t => pc'[u] = pc[u]
  BY DEF ExchangeAvailable, Returned, TasksInv
<1>3. \/ available = seen[t] /\ available' = available - NumBuckets /\ spawned' = spawned + 1
      \/ available # seen[t] /\ UNCHANGED <<available, spawned>>
  BY DEF ExchangeAvailable
<1>4. Holding' = Holding /\ Returning' = Returning
  BY <1>1, <1>2, SameHolding, Sizes
<1>5. Undelivered' = Undelivered /\ InSlots' = InSlots /\ Held' = Held
  BY <1>1, SameHeld
<1>6. /\ seen' \in [0 .. NumBuckets -> 0 .. Capacity]
      /\ \A u \in 0 .. NumBuckets : u # t => seen'[u] = seen[u]
  BY <1>1, Sizes DEF PoolInv
<1>7. \A u \in 0 .. NumBuckets : pc'[u] = "exchange" => seen'[u] >= NumBuckets
  BY <1>2, <1>6 DEF PoolInv
<1>8. CASE available = seen[t]
  <2>1. seen[t] >= NumBuckets /\ available' = available - NumBuckets /\ spawned' = spawned + 1
    BY <1>1, <1>3, <1>8 DEF PoolInv
  <2>2. available' \in Nat /\ spawned' \in Nat /\ spawned' > 0
    BY <1>8, <2>1, Sizes DEF PoolInv
  <2>3. Held \in Nat /\ Cardinality(Holding) \in Nat
    BY HeldFinite DEF Held
  <2>4. /\ available' = available + (-NumBuckets) /\ Held' = Held + 0
        /\ Cardinality(Holding)' = Cardinality(Holding) + 0
        /\ (-NumBuckets) + 1 * NumBuckets + 0 + 0 = 0
    BY <1>4, <1>5, <2>1, <2>3, Sizes DEF PoolInv
  <2>5. ~failed' => ~failed
    BY <1>1
  <2>6. (available' + Used' <= Capacity) /\ (~failed' => available' + Used' = Capacity)
    BY <2>1, <2>2, <2>4, <2>5, Sizes, Balanced
  <2>7. PoolInv'
    BY <1>1, <1>4, <1>5, <1>6, <1>7, <2>2, <2>6 DEF PoolInv
  <2> QED
    BY <2>2, <2>7 DEF SomebodyGoesOn
<1>9. CASE available # seen[t]
  <2>1. UNCHANGED <<available, spawned>> /\ Used' = Used
    BY <1>3, <1>4, <1>5, <1>9 DEF Used
  <2>2. PoolInv'
    BY <1>1, <1>4, <1>5, <1>6, <1>7, <2>1 DEF PoolInv
  <2>3. \A u \in 0 .. NumBuckets :
          pc[u] = "load" \/ (pc[u] = "exchange" /\ seen[u] = available) =>
            u # t /\ pc'[u] = pc[u] /\ seen'[u] = seen[u]
    BY <1>1, <1>2, <1>6, <1>9
  <2>4. SomebodyGoesOn'
    <3>1. /\ failed' = failed /\ popped' = popped /\ GroupCount' = GroupCount
          /\ spawned' = spawned /\ available' = available
      BY <1>1, <2>1
    <3>2. ASSUME \E u \in 0 .. NumBuckets : pc[u] = "load" \/ (pc[u] = "exchange" /\ seen[u] = available)
          PROVE  \E u \in 0 .. NumBuckets : pc'[u] = "load" \/ (pc'[u] = "exchange" /\ seen'[u] = available')
      BY <2>3, <3>1, <3>2
    <3> QED
      BY <1>4, <1>5, <3>1, <3>2 DEF SomebodyGoesOn
  <2> QED
    BY <2>2, <2>4
<1> QED
  BY <1>8, <1>9

(* The task that finds no group gives its vectors back. *)
LEMMA PoolNoMore ==
  ASSUME GroupsInv, GroupsInv', PoolInv, UNCHANGED groups, GroupCount' = GroupCount, NoMoreGroups
  PROVE  PoolInv' /\ SomebodyGoesOn'
<1>1. /\ spawned > 0 /\ popped = GroupCount /\ spawned' = spawned - 1
      /\ available' = available + NumBuckets
      /\ UNCHANGED <<popped, delivered, slot, pc, seen, string_vecs, failed>>
  BY DEF NoMoreGroups, input_side
<1>2. Holding' = Holding /\ Returning' = Returning
  BY <1>1 DEF Holding, Returning
<1>3. Undelivered' = Undelivered /\ InSlots' = InSlots /\ Held' = Held
  BY <1>1, SameHeld
<1>4. Held \in Nat /\ Cardinality(Holding) \in Nat
  BY HeldFinite DEF Held
<1>5. /\ available' \in Nat /\ spawned' \in Nat /\ spawned' = spawned + (-1) /\ Held' = Held + 0
      /\ Cardinality(Holding)' = Cardinality(Holding) + 0
      /\ NumBuckets + (-1) * NumBuckets + 0 + 0 = 0
  BY <1>1, <1>2, <1>3, <1>4, Sizes DEF PoolInv
<1>6. ~failed' => ~failed
  BY <1>1
<1>7. (available' + Used' <= Capacity) /\ (~failed' => available' + Used' = Capacity)
  BY <1>1, <1>5, <1>6, Sizes, Balanced
<1>8. PoolInv'
  BY <1>1, <1>2, <1>3, <1>5, <1>7 DEF PoolInv
<1>9. ~(popped' < GroupCount')
  BY <1>1 DEF GroupsInv
<1> QED
  BY <1>8, <1>9 DEF SomebodyGoesOn

(* What an input task takes from the pool leaves room for what it holds. *)
LEMMA PoolTaken ==
  ASSUME GroupsInv, PoolInv, spawned > 0, TakeVectors, Cardinality(Returning) \in Nat,
         Cardinality(Returning) <= Cardinality(Holding)
  PROVE  /\ string_vecs' \in Nat /\ string_vecs' <= string_vecs
         /\ string_vecs' + Held + NumBuckets + Cardinality(Returning) <= Capacity
<1>1. Held \in Nat /\ Cardinality(Holding) \in Nat
  BY HeldFinite DEF Held
<1>2. \A m \in Nat, n \in Nat : m > 0 => m * n >= n /\ m * n \in Nat
  OBVIOUS
<1>3. spawned * NumBuckets >= NumBuckets /\ spawned * NumBuckets \in Nat
  BY <1>2, Sizes DEF PoolInv
<1>4. Held + NumBuckets + Cardinality(Returning) <= Capacity
  <2>1. \A product, held, holding, returning, n, a, c \in Nat :
          product >= n /\ returning <= holding /\ a + (product + held + holding) <= c =>
            held + n + returning <= c
    OBVIOUS
  <2>2. available + Used <= Capacity /\ available \in Nat
    BY DEF PoolInv
  <2> QED
    BY <1>1, <1>3, <2>1, <2>2, Sizes DEF Used
<1>5. CASE string_vecs < NumBuckets
  <2>1. string_vecs' = 0
    BY <1>5 DEF TakeVectors
  <2> QED
    BY <1>1, <1>4, <2>1, Sizes DEF PoolInv
<1>6. CASE ~(string_vecs < NumBuckets)
  <2>1. string_vecs' = string_vecs - NumBuckets
    BY <1>6 DEF TakeVectors
  <2> QED
    BY <1>1, <1>6, <2>1, Sizes DEF PoolInv
<1> QED
  BY <1>5, <1>6

(* A bucket returns a vector while it holds one. *)
LEMMA ReturningHolds ==
  ASSUME GroupsInv
  PROVE  Cardinality(Returning) \in Nat /\ Cardinality(Returning) <= Cardinality(Holding)
<1>1. Returning \in SUBSET Holding
  BY DEF Returning, Holding
<1> QED
  BY <1>1, HeldFinite, FS_Subset

(* A group that is split takes the vectors that were reserved for it. *)
LEMMA PoolSplit ==
  ASSUME GroupsInv, GroupsInv', PoolInv, UNCHANGED groups, GroupCount' = GroupCount, SplitGroup
  PROVE  PoolInv' /\ SomebodyGoesOn'
<1> DEFINE g == popped + 1
           new == {g} \X Buckets
<1>1. /\ spawned > 0 /\ popped < GroupCount /\ spawned' = spawned - 1 /\ TakeVectors
      /\ delivered' = [delivered EXCEPT ![g] = 0]
      /\ UNCHANGED <<slot, pc, seen, available, failed>>
  BY DEF SplitGroup
<1>2. g \in DOMAIN groups /\ delivered[g] = -1
  BY <1>1 DEF GroupsInv
<1>3. Holding' = Holding /\ Returning' = Returning /\ InSlots' = InSlots
  BY <1>1 DEF Holding, Returning, InSlots
<1>4. Undelivered' = Undelivered \cup new /\ Undelivered \cap new = {}
  <2>1. \A h \in DOMAIN groups : delivered'[h] = IF h = g THEN 0 ELSE delivered[h]
    BY <1>1 DEF GroupsInv
  <2>2. \A h \in DOMAIN groups, b \in Buckets :
          delivered'[h] \in 0 .. b <=> (h = g \/ delivered[h] \in 0 .. b)
    <3> HIDE DEF g
    <3> QED
      BY <2>1, Sizes
  <2>3. \A b \in Buckets : ~(delivered[g] \in 0 .. b)
    BY <1>2, Sizes
  <2> HIDE DEF g
  <2> QED
    BY <1>2, <2>2, <2>3 DEF Undelivered
<1>5. IsFiniteSet(new) /\ Cardinality(new) = NumBuckets
  <2>1. IsFiniteSet({g}) /\ Cardinality({g}) = 1
    BY FS_Singleton
  <2>2. IsFiniteSet(new) /\ Cardinality(new) = 1 * NumBuckets
    BY <2>1, Sizes, FS_Product
  <2> QED
    BY <2>2, Sizes
<1> HIDE DEF g, new
<1>6. Cardinality(Undelivered') = Cardinality(Undelivered) + NumBuckets
  <2>1. Cardinality(Undelivered \cup new) =
          Cardinality(Undelivered) + Cardinality(new) - Cardinality(Undelivered \cap new)
    BY <1>5, HeldFinite, FS_Union
  <2>2. Cardinality(Undelivered \cap new) = 0
    BY <1>4, FS_EmptySet
  <2> QED
    BY <1>4, <1>5, <2>1, <2>2, HeldFinite, Sizes
<1>7. Held \in Nat /\ Cardinality(Holding) \in Nat /\ Held' = Held + NumBuckets
  BY <1>3, <1>6, HeldFinite, Sizes DEF Held
<1>8. /\ available' \in Nat /\ spawned' \in Nat /\ spawned' = spawned + (-1)
      /\ available' = available + 0 /\ Cardinality(Holding)' = Cardinality(Holding) + 0
      /\ 0 + (-1) * NumBuckets + NumBuckets + 0 = 0
  BY <1>1, <1>3, <1>7, Sizes DEF PoolInv
<1>9. ~failed' => ~failed
  BY <1>1
<1>10. (available' + Used' <= Capacity) /\ (~failed' => available' + Used' = Capacity)
  BY <1>7, <1>8, <1>9, Sizes, Balanced
<1>11. /\ string_vecs' \in Nat
       /\ string_vecs' + Held + NumBuckets + Cardinality(Returning) <= Capacity
  BY <1>1, PoolTaken, ReturningHolds
<1>12. string_vecs' + Held' + Cardinality(Returning)' <= Capacity
  BY <1>3, <1>7, <1>11, Sizes, HeldFinite
<1>13. PoolInv'
  BY <1>1, <1>8, <1>10, <1>11, <1>12 DEF PoolInv
<1>14. Undelivered' # {}
  <2>1. <<g, 0>> \in new
    BY Sizes DEF new
  <2> QED
    BY <1>4, <2>1
<1> QED
  BY <1>13, <1>14 DEF SomebodyGoesOn

(* A group that cannot be split keeps its vectors for good. *)
LEMMA PoolSplitFails ==
  ASSUME GroupsInv, GroupsInv', PoolInv, UNCHANGED groups, GroupCount' = GroupCount, SplitFails
  PROVE  PoolInv' /\ SomebodyGoesOn'
<1>1. /\ spawned > 0 /\ spawned' = spawned - 1 /\ TakeVectors /\ failed' = TRUE
      /\ UNCHANGED <<delivered, slot, pc, seen, available>>
  BY DEF SplitFails
<1>2. Holding' = Holding /\ Returning' = Returning
  BY <1>1 DEF Holding, Returning
<1>3. Undelivered' = Undelivered /\ InSlots' = InSlots /\ Held' = Held
  BY <1>1, SameHeld
<1>4. Held \in Nat /\ Cardinality(Holding) \in Nat
  BY HeldFinite DEF Held
<1>5. /\ available' \in Nat /\ spawned' \in Nat /\ spawned' = spawned + (-1)
      /\ available' = available + 0 /\ Held' = Held + 0
      /\ Cardinality(Holding)' = Cardinality(Holding) + 0
      /\ 0 + (-1) * NumBuckets + 0 + 0 <= 0
  BY <1>1, <1>2, <1>3, <1>4, Sizes DEF PoolInv
<1>6. available' + Used' <= Capacity
  BY <1>1, <1>5, Sizes, Balanced
<1>7. string_vecs' \in Nat /\ string_vecs' + Held' + Cardinality(Returning)' <= Capacity
  <2>1. /\ string_vecs' \in Nat /\ Cardinality(Returning) \in Nat
        /\ string_vecs' + Held + NumBuckets + Cardinality(Returning) <= Capacity
    BY <1>1, PoolTaken, ReturningHolds
  <2> QED
    BY <1>2, <1>3, <1>4, <2>1, Sizes
<1>8. PoolInv'
  BY <1>1, <1>5, <1>6, <1>7 DEF PoolInv
<1> QED
  BY <1>1, <1>8 DEF SomebodyGoesOn

(* Strings that are delivered are as many vectors as before. *)
LEMMA PoolDeliver ==
  ASSUME GroupsInv, GroupsInv', TasksInv, TasksInv', SlotsInv, PoolInv,
         UNCHANGED groups, GroupCount' = GroupCount, NEW g \in DOMAIN groups, Deliver(g)
  PROVE  PoolInv' /\ SomebodyGoesOn'
<1> DEFINE b == delivered[g]
<1>1. /\ b \in Buckets /\ slot' = [slot EXCEPT ![g][b] = "strings"]
      /\ pc' = IF slot[g][b] = "waiting" THEN [pc EXCEPT ![b] = "take"] ELSE pc
      /\ delivered' = [delivered EXCEPT ![g] = b + 1]
      /\ UNCHANGED <<spawned, available, seen, string_vecs, failed>>
  BY DEF Deliver
<1>2. slot[g][b] = "waiting" => pc[b] = "slot"
  BY <1>1 DEF SlotsInv
<1>3. /\ pc[b] \in {"slot"} \/ pc'[b] = pc[b]
      /\ pc[b] # pc'[b] => pc'[b] = "take"
      /\ \A u \in 0 .. NumBuckets : u # b => pc'[u] = pc[u]
  BY <1>1, <1>2, Sizes DEF TasksInv
<1>4. Holding' = Holding /\ Returning' = Returning
  BY <1>1, <1>3, Sizes DEF Holding, Returning
<1>5. Undelivered' = Undelivered \ {<<g, b>>} /\ <<g, b>> \in Undelivered
  <2>1. \A h \in DOMAIN groups : delivered'[h] = IF h = g THEN b + 1 ELSE delivered[h]
    BY <1>1 DEF GroupsInv
  <2>2. \A h \in DOMAIN groups, c \in Buckets :
          delivered'[h] \in 0 .. c <=> (delivered[h] \in 0 .. c /\ ~(h = g /\ c = b))
    <3>1. b \in Nat /\ delivered[g] = b /\ \A c \in Buckets : c \in Nat
      BY <1>1, Sizes
    <3> HIDE DEF b
    <3> QED
      BY <2>1, <3>1
  <2>3. delivered[g] \in 0 .. b
    BY <1>1, Sizes
  <2> HIDE DEF b
  <2> QED
    BY <1>1, <2>2, <2>3 DEF Undelivered
<1>6. InSlots' = InSlots \cup {<<g, b>>} /\ <<g, b>> \notin InSlots
  <2>1. \A h \in DOMAIN groups, c \in Buckets :
          slot'[h][c] = IF h = g /\ c = b THEN "strings" ELSE slot[h][c]
    BY <1>1 DEF SlotsInv
  <2>2. slot[g][b] # "strings"
    <3>1. ~(delivered[g] > b)
      BY <1>1, Sizes
    <3> QED
      BY <1>1, <3>1 DEF SlotsInv
  <2> HIDE DEF b
  <2> QED
    BY <1>1, <2>1, <2>2 DEF InSlots
<1> HIDE DEF b
<1>7. /\ Cardinality(Undelivered') = Cardinality(Undelivered) - 1
      /\ Cardinality(InSlots') = Cardinality(InSlots) + 1
  BY <1>5, <1>6, HeldFinite, FS_AddElement, FS_RemoveElement
<1>8. Held' = Held
  BY <1>7, HeldFinite DEF Held
<1>9. Used' = Used
  BY <1>1, <1>4, <1>8 DEF Used
<1>10. \A u \in 0 .. NumBuckets : pc'[u] = "exchange" => pc[u] = "exchange"
  BY <1>1, <1>3, Sizes
<1>11. PoolInv'
  BY <1>1, <1>4, <1>8, <1>9, <1>10 DEF PoolInv
<1> QED
  BY <1>6, <1>11 DEF SomebodyGoesOn

(* A bucket takes strings from its slot, or waits there. *)
LEMMA PoolTake ==
  ASSUME GroupsInv, GroupsInv', TasksInv, TasksInv', SlotsInv, PoolInv, SomebodyGoesOn,
         UNCHANGED groups, GroupCount' = GroupCount, NEW b \in Buckets, TakeStrings(b)
  PROVE  PoolInv' /\ SomebodyGoesOn'
<1> DEFINE g == next[b]
<1>1. /\ pc[b] = "take"
      /\ UNCHANGED <<popped, delivered, spawned, available, seen, string_vecs>>
      /\ \/ /\ slot[g][b] = "strings" /\ slot' = [slot EXCEPT ![g][b] = "empty"]
            /\ \/ pc' = [pc EXCEPT ![b] = "return"] /\ UNCHANGED failed
               \/ pc' = [pc EXCEPT ![b] = "dropped"] /\ failed' = TRUE
         \/ /\ slot[g][b] # "strings" /\ slot' = [slot EXCEPT ![g][b] = "waiting"]
            /\ pc' = [pc EXCEPT ![b] = "slot"] /\ UNCHANGED failed
  BY DEF TakeStrings, input_side
<1>2. g \in DOMAIN groups
  <2>1. pc[b] # "finished"
    BY <1>1
  <2> QED
    BY <2>1 DEF TasksInv, GroupsInv
<1>3. \A u \in 0 .. NumBuckets : u # b => pc'[u] = pc[u]
  BY <1>1, Sizes DEF TasksInv
<1>4. b \in 0 .. NumBuckets
  BY Sizes
<1>5. Undelivered' = Undelivered
  BY <1>1 DEF Undelivered
<1>6. Held \in Nat /\ Cardinality(Holding) \in Nat /\ Cardinality(Returning) \in Nat
  BY HeldFinite DEF Held
<1>7. ASSUME slot[g][b] = "strings", slot' = [slot EXCEPT ![g][b] = "empty"]
      PROVE  Held' = Held - 1
  <2>1. \A h \in DOMAIN groups, c \in Buckets :
          slot'[h][c] = IF h = g /\ c = b THEN "empty" ELSE slot[h][c]
    BY <1>7 DEF SlotsInv
  <2>2. InSlots' = InSlots \ {<<g, b>>} /\ <<g, b>> \in InSlots
    <3> HIDE DEF g
    <3> QED
      BY <1>2, <1>7, <2>1 DEF InSlots
  <2>3. Cardinality(InSlots') = Cardinality(InSlots) - 1
    BY <2>2, HeldFinite, FS_RemoveElement
  <2> QED
    BY <1>5, <2>3, HeldFinite DEF Held
<1>8. CASE slot[g][b] = "strings" /\ pc' = [pc EXCEPT ![b] = "return"]
  <2>1. slot' = [slot EXCEPT ![g][b] = "empty"] /\ UNCHANGED failed /\ pc'[b] = "return"
    <3>1. pc'[b] = "return"
      BY <1>4, <1>8 DEF TasksInv
    <3>2. [pc EXCEPT ![b] = "dropped"][b] = "dropped"
      BY <1>4 DEF TasksInv
    <3> QED
      BY <1>1, <1>8, <3>1, <3>2
  <2>2. Holding' = Holding \cup {b} /\ b \notin Holding
    BY <1>1, <1>3, <2>1, Sizes DEF Holding
  <2>3. Returning' = Returning \cup {b} /\ b \notin Returning
    BY <1>1, <1>3, <2>1, Sizes DEF Returning
  <2>4. /\ Cardinality(Holding)' = Cardinality(Holding) + 1
        /\ Cardinality(Returning)' = Cardinality(Returning) + 1
    BY <2>2, <2>3, HeldFinite, FS_AddElement
  <2>5. Held' = Held + (-1)
    BY <1>6, <1>7, <1>8, <2>1
  <2>6. /\ available' = available + 0 /\ spawned' = spawned + 0 /\ available' \in Nat /\ spawned' \in Nat
        /\ 0 + 0 * NumBuckets + (-1) + 1 = 0
    BY <1>1, Sizes DEF PoolInv
  <2>7. ~failed' => ~failed
    BY <2>1
  <2>8. (available' + Used' <= Capacity) /\ (~failed' => available' + Used' = Capacity)
    BY <2>4, <2>5, <2>6, <2>7, Balanced
  <2>9. string_vecs' + Held' + Cardinality(Returning)' <= Capacity
    BY <1>1, <1>6, <2>4, <2>5, Sizes, SMTT(30) DEF PoolInv
  <2>10. \A u \in 0 .. NumBuckets : pc'[u] = "exchange" => pc[u] = "exchange"
    BY <1>3, <2>1
  <2>11. PoolInv'
    BY <1>1, <2>6, <2>8, <2>9, <2>10 DEF PoolInv
  <2> QED
    BY <2>2, <2>11 DEF SomebodyGoesOn
<1>9. CASE slot[g][b] = "strings" /\ pc' = [pc EXCEPT ![b] = "dropped"] /\ failed' = TRUE
  <2>1. slot' = [slot EXCEPT ![g][b] = "empty"] /\ pc'[b] = "dropped"
    BY <1>1, <1>4, <1>9 DEF TasksInv
  <2>2. Holding' = Holding /\ Returning' = Returning
    BY <1>1, <1>3, <1>4, <2>1, SameHolding, Sizes
  <2>3. Held' = Held + (-1)
    BY <1>6, <1>7, <1>9, <2>1
  <2>4. /\ available' = available + 0 /\ spawned' = spawned + 0 /\ available' \in Nat /\ spawned' \in Nat
        /\ Cardinality(Holding)' = Cardinality(Holding) + 0
        /\ 0 + 0 * NumBuckets + (-1) + 0 <= 0
    BY <1>1, <1>6, <2>2, Sizes DEF PoolInv
  <2>5. available' + Used' <= Capacity
    BY <1>9, <2>3, <2>4, Balanced
  <2>6. string_vecs' + Held' + Cardinality(Returning)' <= Capacity
    BY <1>1, <1>6, <2>2, <2>3, Sizes, SMTT(30) DEF PoolInv
  <2>7. \A u \in 0 .. NumBuckets : pc'[u] = "exchange" => pc[u] = "exchange"
    BY <1>3, <2>1
  <2>8. PoolInv'
    BY <1>1, <1>9, <2>4, <2>5, <2>6, <2>7 DEF PoolInv
  <2> QED
    BY <1>9, <2>8 DEF SomebodyGoesOn
<1>10. CASE slot[g][b] # "strings"
  <2>1. /\ slot' = [slot EXCEPT ![g][b] = "waiting"] /\ pc' = [pc EXCEPT ![b] = "slot"]
        /\ UNCHANGED failed
    BY <1>1, <1>10
  <2>2. pc'[b] = "slot"
    BY <1>4, <2>1 DEF TasksInv
  <2>3. Holding' = Holding /\ Returning' = Returning
    BY <1>1, <1>3, <1>4, <2>2, SameHolding, Sizes
  <2>4. InSlots' = InSlots
    <3>1. \A h \in DOMAIN groups, c \in Buckets :
            slot'[h][c] = IF h = g /\ c = b THEN "waiting" ELSE slot[h][c]
      BY <2>1 DEF SlotsInv
    <3> HIDE DEF g
    <3> QED
      BY <1>10, <3>1 DEF InSlots
  <2>5. Held' = Held /\ Used' = Used
    BY <1>1, <1>5, <2>3, <2>4 DEF Held, Used
  <2>6. \A u \in 0 .. NumBuckets : /\ pc'[u] = "exchange" <=> pc[u] = "exchange"
                                  /\ pc'[u] = "load" <=> pc[u] = "load"
    BY <1>1, <1>3, <2>2
  <2>7. PoolInv'
    BY <1>1, <2>1, <2>3, <2>5, <2>6 DEF PoolInv
  <2>8. SomebodyGoesOn'
    BY <1>1, <1>5, <2>1, <2>3, <2>4, <2>6 DEF SomebodyGoesOn
  <2> QED
    BY <2>7, <2>8
<1> QED
  BY <1>1, <1>8, <1>9, <1>10

(* A vector goes back to the pool, and is then available. *)
LEMMA PoolReturn ==
  ASSUME GroupsInv, GroupsInv', TasksInv, TasksInv', PoolInv, SomebodyGoesOn,
         UNCHANGED groups, GroupCount' = GroupCount, NEW b \in Buckets,
         ReturnVector(b) \/ ReleaseVector(b)
  PROVE  PoolInv' /\ SomebodyGoesOn'
<1>1. /\ UNCHANGED <<popped, delivered, slot, spawned, seen, failed>>
      /\ \/ /\ pc[b] = "return" /\ pc' = [pc EXCEPT ![b] = "release"]
            /\ string_vecs' = string_vecs + 1 /\ UNCHANGED available
         \/ /\ pc[b] = "release" /\ pc' = [pc EXCEPT ![b] = "load"]
            /\ available' = available + 1 /\ UNCHANGED string_vecs
  BY DEF ReturnVector, ReleaseVector, input_side
<1>2. b \in 0 .. NumBuckets
  BY Sizes
<1>3. /\ \A u \in 0 .. NumBuckets : u # b => pc'[u] = pc[u]
      /\ pc'[b] \in {"release", "load"}
  BY <1>1, <1>2 DEF TasksInv
<1>4. Undelivered' = Undelivered /\ InSlots' = InSlots /\ Held' = Held
  BY <1>1, SameHeld
<1>5. Held \in Nat /\ Cardinality(Holding) \in Nat /\ Cardinality(Returning) \in Nat
  BY HeldFinite DEF Held
<1>6. \A u \in 0 .. NumBuckets : pc'[u] = "exchange" => pc[u] = "exchange"
  BY <1>3
<1>7. CASE pc[b] = "return"
  <2>1. pc'[b] = "release" /\ string_vecs' = string_vecs + 1 /\ UNCHANGED available
    BY <1>1, <1>2, <1>7 DEF TasksInv
  <2>2. Holding' = Holding /\ b \in Holding
    BY <1>3, <1>7, <2>1, Sizes DEF Holding
  <2>3. Returning' = Returning \ {b} /\ b \in Returning
    BY <1>3, <1>7, <2>1, Sizes DEF Returning
  <2>4. Cardinality(Returning)' = Cardinality(Returning) - 1
    BY <2>3, HeldFinite, FS_RemoveElement
  <2>5. Used' = Used
    BY <1>1, <1>4, <2>2 DEF Used
  <2>6. string_vecs' \in Nat /\ string_vecs' + Held' + Cardinality(Returning)' <= Capacity
    BY <1>4, <1>5, <2>1, <2>4, Sizes DEF PoolInv
  <2>7. PoolInv'
    BY <1>1, <1>6, <2>1, <2>5, <2>6 DEF PoolInv
  <2> QED
    BY <2>2, <2>7 DEF SomebodyGoesOn
<1>8. CASE pc[b] = "release"
  <2>1. pc'[b] = "load" /\ available' = available + 1 /\ UNCHANGED string_vecs
    BY <1>1, <1>2, <1>8 DEF TasksInv
  <2>2. Holding' = Holding \ {b} /\ b \in Holding
    BY <1>3, <1>8, <2>1, Sizes DEF Holding
  <2>3. Returning' = Returning
    BY <1>3, <1>8, <2>1, Sizes DEF Returning
  <2>4. Cardinality(Holding)' = Cardinality(Holding) + (-1)
    BY <1>5, <2>2, HeldFinite, FS_RemoveElement
  <2>5. /\ available' \in Nat /\ spawned' \in Nat /\ spawned' = spawned + 0 /\ Held' = Held + 0
        /\ 1 + 0 * NumBuckets + 0 + (-1) = 0
    BY <1>1, <1>4, <1>5, <2>1, Sizes DEF PoolInv
  <2>6. ~failed' => ~failed
    BY <1>1
  <2>7. (available' + Used' <= Capacity) /\ (~failed' => available' + Used' = Capacity)
    <3>1. /\ 1 \in Int /\ 0 \in {-1, 0, 1} /\ 0 \in Int /\ -1 \in Int
          /\ 1 + 0 * NumBuckets + 0 + (-1) <= 0
      BY <2>5
    <3> QED
      BY <2>1, <2>4, <2>5, <2>6, <3>1, Balanced, Zenon
  <2>8. PoolInv'
    BY <1>1, <1>4, <1>6, <2>1, <2>3, <2>5, <2>7 DEF PoolInv
  <2> QED
    BY <1>2, <2>1, <2>8 DEF SomebodyGoesOn
<1> QED
  BY <1>1, <1>7, <1>8

(* Every step keeps the vectors in balance, and somebody goes on. *)
LEMMA PoolStep ==
  ASSUME GroupsInv, GroupsInv', TasksInv, TasksInv', SlotsInv, PoolInv, SomebodyGoesOn,
         [MergeNext]_merge_vars
  PROVE  PoolInv' /\ SomebodyGoesOn'
<1>0. UNCHANGED groups /\ GroupCount' = GroupCount
  BY GroupsStay
<1>1. CASE UNCHANGED merge_vars \/ Finish
  <2>1. UNCHANGED <<popped, delivered, slot, pc, spawned, available, seen, string_vecs, failed>>
    BY <1>1 DEF merge_vars, Finish, input_side
  <2>2. /\ Undelivered' = Undelivered /\ InSlots' = InSlots /\ Held' = Held
        /\ Holding' = Holding /\ Returning' = Returning /\ Used' = Used
    BY <1>0, <2>1, SameHeld DEF Holding, Returning, Used
  <2> QED
    BY <1>0, <2>1, <2>2 DEF PoolInv, SomebodyGoesOn
<1>2. ASSUME NEW t \in 0 .. NumBuckets, LoadAvailable(t) PROVE PoolInv' /\ SomebodyGoesOn'
  BY <1>0, <1>2, PoolLoad
<1>3. ASSUME NEW t \in 0 .. NumBuckets, ExchangeAvailable(t) PROVE PoolInv' /\ SomebodyGoesOn'
  BY <1>0, <1>3, PoolExchange
<1>4. CASE NoMoreGroups
  BY <1>0, <1>4, PoolNoMore
<1>5. CASE SplitGroup
  BY <1>0, <1>5, PoolSplit
<1>6. CASE SplitFails
  BY <1>0, <1>6, PoolSplitFails
<1>7. ASSUME NEW g \in DOMAIN groups, Deliver(g) PROVE PoolInv' /\ SomebodyGoesOn'
  BY <1>0, <1>7, PoolDeliver
<1>8. ASSUME NEW b \in Buckets, TakeStrings(b) PROVE PoolInv' /\ SomebodyGoesOn'
  BY <1>0, <1>8, PoolTake
<1>9. ASSUME NEW b \in Buckets, ReturnVector(b) \/ ReleaseVector(b)
      PROVE  PoolInv' /\ SomebodyGoesOn'
  BY <1>0, <1>9, PoolReturn
<1> QED
  BY <1>1, <1>2, <1>3, <1>4, <1>5, <1>6, <1>7, <1>8, <1>9 DEF MergeNext

(* The invariant holds in every state of string merging. *)
THEOREM MergeInvariant == MergeSpec => []MergeInv
<1>1. MergeInit => MergeInv
  BY GroupsInit, TasksInit, PoolInit DEF MergeInv
<1>2. MergeInv /\ [MergeNext]_merge_vars => MergeInv'
  <2> SUFFICES ASSUME MergeInv, [MergeNext]_merge_vars PROVE MergeInv'
    OBVIOUS
  <2>1. GroupsInv'
    BY GroupsStep DEF MergeInv
  <2>2. TasksInv' /\ SlotsInv'
    BY <2>1, TasksStep DEF MergeInv
  <2>3. PoolInv' /\ SomebodyGoesOn'
    BY <2>1, <2>2, PoolStep DEF MergeInv
  <2> QED
    BY <2>1, <2>2, <2>3 DEF MergeInv
<1> QED
  BY <1>1, <1>2, PTL DEF MergeSpec

-----------------------------------------------------------------------------
(* At rest, a bucket that waits does so for a group that nobody has taken. *)
LEMMA WaitsForUnsplit ==
  ASSUME MergeInv, ScopeEnded, ~failed, NEW b \in Buckets, pc[b] # "finished"
  PROVE  next[b] \in DOMAIN groups /\ next[b] > popped
<1>1. b \in 0 .. NumBuckets /\ pc[b] = "slot"
  <2>1. b \in 0 .. NumBuckets
    BY Sizes
  <2>2. b \in DOMAIN pc /\ pc[b] # "idle" /\ pc[b] # "dropped"
    BY <2>1 DEF MergeInv, TasksInv
  <2> QED
    BY <2>1, <2>2 DEF ScopeEnded, Resting
<1>2. next[b] \in DOMAIN groups
  BY DEF MergeInv, TasksInv, GroupsInv
<1>3. slot[next[b]][b] = "waiting" /\ Before(next[b], b)
  BY <1>1, <1>2 DEF MergeInv, SlotsInv, Before
<1>4. ~(delivered[next[b]] > b)
  BY <1>2, <1>3 DEF MergeInv, SlotsInv
<1>5. delivered[next[b]] = -1
  BY <1>2, <1>4, Sizes DEF ScopeEnded, MergeInv, GroupsInv
<1> QED
  BY <1>2, <1>5 DEF MergeInv, GroupsInv

(* At rest and without an error, nothing is left. *)
LEMMA RestIsComplete ==
  ASSUME MergeInv, ScopeEnded, ~failed
  PROVE  /\ finished_shards = DOMAIN groups
         /\ \A b \in Buckets : pc[b] = "finished"
         /\ available = Capacity
<1>1. spawned = 0 /\ \A t \in 0 .. NumBuckets : pc[t] \in Resting
  BY DEF ScopeEnded, MergeInv, TasksInv
<1>2. Undelivered = {}
  <2>1. \A g \in DOMAIN groups, b \in Buckets : ~(delivered[g] \in 0 .. b)
    BY Sizes DEF ScopeEnded
  <2> QED
    BY <2>1 DEF Undelivered
<1>3. InSlots = {}
  <2> SUFFICES ASSUME NEW g \in DOMAIN groups, NEW b \in Buckets, slot[g][b] = "strings" PROVE FALSE
    BY DEF InSlots
  <2>1. delivered[g] > b /\ Before(g, b)
    BY DEF MergeInv, SlotsInv
  <2>2. g \in 1 .. popped
    BY <2>1, Sizes DEF MergeInv, GroupsInv
  <2>3. next[b] <= g
    BY DEF MergeInv, SlotsInv, TasksInv, GroupsInv, Before
  <2>4. pc[b] # "finished"
    BY <2>2, <2>3 DEF MergeInv, TasksInv, GroupsInv
  <2>5. next[b] \in DOMAIN groups /\ next[b] > popped
    BY <2>4, WaitsForUnsplit
  <2> QED
    BY <2>2, <2>3, <2>5 DEF MergeInv, GroupsInv
<1>4. Holding = {}
  BY <1>1, Sizes DEF Holding, Resting
<1>5. available = Capacity
  <2>1. ~(available < Capacity)
    BY <1>1, <1>2, <1>3, <1>4, VectorsInUseGoOn DEF MergeInv
  <2> QED
    BY <2>1, AvailableBound, Sizes DEF MergeInv
<1>6. popped = GroupCount
  <2>1. \A t \in 0 .. NumBuckets : pc[t] # "load" /\ pc[t] # "exchange"
    BY <1>1 DEF Resting
  <2>2. ~(popped < GroupCount)
    BY <1>1, <1>2, <1>3, <1>4, <2>1 DEF MergeInv, SomebodyGoesOn
  <2> QED
    BY <2>2 DEF MergeInv, GroupsInv
<1>7. finished_shards = DOMAIN groups
  BY <1>6 DEF MergeInv, GroupsInv
<1>8. \A b \in Buckets : pc[b] = "finished"
  BY <1>6, WaitsForUnsplit DEF MergeInv, GroupsInv
<1> QED
  BY <1>5, <1>7, <1>8

(* No interleaving of input tasks and bucket tasks loses a bucket, a       *)
(* vector or a group: the pool is balanced, a bucket is in one place, and  *)
(* when the scope ends without an error everything is merged, although no  *)
(* task ever waits for another (work_with_bucket, try_reserve).            *)
THEOREM MergingLosesNothing == MergeSpec => []NothingIsLost
<1>1. MergeInv => NothingIsLost
  <2> SUFFICES ASSUME MergeInv PROVE NothingIsLost
    OBVIOUS
  <2>1. TypeOK
    <3>1. spawned \in 0 .. Parallelism
      <4>1. spawned * NumBuckets <= NumBuckets * Parallelism /\ spawned \in Nat
        <5>1. Held \in Nat /\ Cardinality(Holding) \in Nat /\ spawned * NumBuckets \in Int
          BY HeldFinite, Sizes DEF Held, MergeInv, PoolInv
        <5>2. available + (spawned * NumBuckets + Held + Cardinality(Holding)) <= Capacity
              /\ available \in Nat
          BY DEF MergeInv, PoolInv, Used
        <5>3. spawned * NumBuckets <= Capacity
          BY <5>1, <5>2, Sizes
        <5> QED
          BY <5>3 DEF Capacity, MergeInv, PoolInv
      <4>2. \A m, n, p \in Nat : n > 0 /\ m * n <= n * p => m <= p
        <5> SUFFICES ASSUME NEW m \in Nat, NEW n \in Nat, NEW p \in Nat, n > 0, m > p
                     PROVE  m * n > n * p
          OBVIOUS
        <5>1. m * n = n * p + (m - p) * n
          OBVIOUS
        <5>2. (m - p) * n > 0
          OBVIOUS
        <5> QED
          BY <5>1, <5>2
      <4> QED
        BY <4>1, <4>2, Sizes
    <3>2. available \in 0 .. Capacity
      BY AvailableBound DEF MergeInv
    <3> QED
      BY <3>1, <3>2 DEF MergeInv, TypeOK, GroupsInv, TasksInv, SlotsInv, PoolInv, Steps
  <2>2. PoolIsBalanced
    <3>1. VectorsInUse = Used
      BY HeldFinite, Sizes DEF VectorsInUse, Used, Held, Holding, MergeInv, PoolInv
    <3>2. string_vecs <= Capacity
      BY HeldFinite, Sizes, AvailableBound, SMTT(30) DEF MergeInv, PoolInv
    <3> QED
      BY <3>1, <3>2 DEF PoolIsBalanced, MergeInv, PoolInv
  <2>3. BucketInOnePlace
    <3> SUFFICES ASSUME NEW b \in Buckets
                 PROVE  {g \in DOMAIN groups : slot[g][b] = "waiting"} =
                          IF pc[b] = "slot" THEN {next[b]} ELSE {}
      BY DEF BucketInOnePlace
    <3>1. \A g \in DOMAIN groups : slot[g][b] = "waiting" <=> pc[b] = "slot" /\ next[b] = g
      BY DEF MergeInv, SlotsInv
    <3>2. pc[b] = "slot" => next[b] \in DOMAIN groups
      BY DEF MergeInv, TasksInv, GroupsInv
    <3> QED
      BY <3>1, <3>2
  <2>4. NothingIsLeft
    BY RestIsComplete DEF NothingIsLeft
  <2> QED
    BY <2>1, <2>2, <2>3, <2>4 DEF NothingIsLost
<1> QED
  BY <1>1, MergeInvariant, PTL

(***************************************************************************)
(* Every branch reaches its target or a thunk, for programs of any number  *)
(* of objects and blocks, as long as the reserve for thunks is kept to.    *)
(***************************************************************************)

(* Where the code of the first i objects ends, without thunks. *)
CodeEnd[i \in 0 .. Len(program.sizes)] ==
  IF i = 0 THEN program.non_primary ELSE CodeEnd[i - 1] + program.sizes[i]

(* What the estimates of thunks.rs take for granted: the bytes that decide *)
(* whether thunks are needed include all code; an object is within the     *)
(* estimated range; the reserve is enough for a block together with the    *)
(* object that it is placed behind; and the code outside of the primary    *)
(* part, which uses the first block, is within range of it.                *)
Fits ==
  /\ CodeEnd[Len(program.sizes)] <= program.executable_bytes
  /\ IsFiniteSet(program.called)
  /\ \A i \in Objects : program.sizes[i] <= BranchRange
  /\ step \in {"write", "written", "failed"} =>
       \A j \in owners :
         program.sizes[j] + Cardinality(symbols[block[j]]) * ThunkSize <= MaxThunkBytes
  /\ program.non_primary + MaxThunkBytes <= MinBranchRange

-----------------------------------------------------------------------------
(* The invariants.                                                         *)

(* The ranges are those of the code. *)
RangesInv ==
  /\ program \in Programs
  /\ Len(ranges) <= Len(program.sizes)
  /\ ranges \in Seq(Nat \X Nat)
  /\ \A i \in DOMAIN ranges : ranges[i] = <<CodeEnd[i - 1], CodeEnd[i]>>

(* Small programs have no blocks. *)
Small == program.executable_bytes < MinBranchRange

StepsInv ==
  /\ step \in {"new", "ranges", "assign", "symbols", "write", "written", "failed"}
  /\ step \in {"new", "ranges"} => at = 1
  /\ step \in {"new", "ranges"} \/ (Small /\ step # "new") =>
       num_blocks = 0 /\ owners = {} /\ pending = <<>> 
  /\ step \in {"assign", "symbols"} \/ (step \in {"write", "written", "failed"} /\ ~Small) =>
       Len(ranges) = Len(program.sizes)
  /\ step \in {"ranges", "assign", "symbols"} => ~Small
  /\ step \in {"symbols", "write", "written", "failed"} /\ ~Small => at = Len(program.sizes) + 1

(* The objects with code that have been assigned, the block that is not    *)
(* placed yet, and the block of an object when that is taken into account. *)
Assigned == {i \in Objects : i < at /\ program.sizes[i] > 0}
Open == step = "assign" /\ pending # <<>>
Placed == IF Open THEN num_blocks - 1 ELSE num_blocks
BlockNow(i) == IF Open /\ pending = <<i>> THEN num_blocks - 1 ELSE block[i]

(* Blocks are numbered in the order of the objects, and have one owner.    *)
BlocksInv ==
  /\ at \in 1 .. Len(program.sizes) + 1
  /\ num_blocks \in Nat /\ block \in [Objects -> Nat]
  /\ owners \subseteq Assigned
  /\ num_blocks = 0 => Assigned = {} /\ owners = {} /\ pending = <<>> /\ CodeEnd[at - 1] = program.non_primary
  /\ \A i \in Assigned : BlockNow(i) < num_blocks
  /\ \A i, j \in Assigned : i < j => BlockNow(i) <= BlockNow(j)
  /\ \A i \in owners : block[i] < Placed /\ (block[i] = 0 => CodeEnd[i - 1] = program.non_primary)
  /\ \A b \in 0 .. Placed - 1 : \E i \in owners : block[i] = b
  /\ \A i, j \in owners : block[i] = block[j] => i = j

(* The last block that was placed, and the one that is to be placed. *)
LastInv ==
  step = "assign" =>
    /\ num_blocks > 0 =>
         prev = Placed - 1 /\ \E i \in owners : block[i] = prev /\ prev_pos = CodeEnd[i]
    /\ Open =>
         \E p \in Assigned :
           /\ pending = <<p>> /\ CodeEnd[p] - prev_pos >= BranchRange /\ num_blocks > 1
           /\ \A i \in owners : i < p
           /\ \A i \in Assigned : i >= p <=> BlockNow(i) = num_blocks - 1
           /\ CodeEnd[at - 1] - CodeEnd[p - 1] < BranchRange \/ CodeEnd[at - 1] = CodeEnd[p]

(* Objects are near their blocks, and blocks are apart. *)
DistancesInv ==
  /\ \A i \in Assigned, j \in owners : BlockNow(i) = block[j] =>
       /\ i < j => CodeEnd[j - 1] - CodeEnd[i - 1] < BranchRange \/ CodeEnd[j - 1] = CodeEnd[i]
       /\ j < i => CodeEnd[i] - CodeEnd[j] < BranchRange
  /\ \A i, j \in owners : i < j => CodeEnd[j] - CodeEnd[i] >= BranchRange

(* The symbols of the blocks. *)
SymbolsInv ==
  step \in {"write", "written", "failed"} /\ ~Small =>
    symbols = [b \in 0 .. Max({num_blocks, 1}) - 1 |-> PrimaryPartRefs(b) \cup NonPrimaryPartRefs(b)]

AssignInv == BlocksInv /\ LastInv /\ DistancesInv

ThunksInv == RangesInv /\ StepsInv /\ AssignInv /\ SymbolsInv /\ (Fits => step # "failed")

-----------------------------------------------------------------------------
(* Sums.                                                                   *)

(* Induction, for a set instead of a predicate. *)
LEMMA NatInductionSet ==
  ASSUME NEW P \in SUBSET Nat, 0 \in P, \A k \in P : k + 1 \in P
  PROVE  P = Nat
<1> SUFFICES ASSUME Nat \ P # {} PROVE FALSE
  OBVIOUS
<1>1. IsWellFoundedOn(OpToRel(<, Nat), Nat)
  BY NatLessThanWellFounded
<1>2. PICK x \in Nat \ P : \A y \in Nat \ P : ~(<<y, x>> \in OpToRel(<, Nat))
  <2>1. Nat \ P \subseteq Nat
    OBVIOUS
  <2> QED BY <1>1, <2>1, WFMin
<1>3. \A y \in Nat \ P : ~(y < x)
  BY <1>2 DEF OpToRel
<1>4. x # 0 /\ x - 1 \in Nat /\ (x - 1) + 1 = x /\ x - 1 < x
  OBVIOUS
<1>5. x - 1 \in P
  BY <1>3, <1>4
<1> QED BY <1>4, <1>5

(* f adds up the increments inc, starting with base. *)
IsSum(f, N, base, inc) ==
  /\ N \in Nat /\ base \in Nat /\ inc \in [1 .. N -> Nat]
  /\ f = [i \in 0 .. N |-> IF i = 0 THEN base ELSE f[i - 1] + inc[i]]

(* There is such a function. *)
LEMMA SumExists ==
  ASSUME NEW N \in Nat, NEW base \in Nat, NEW inc \in [1 .. N -> Nat]
  PROVE  \E f : IsSum(f, N, base, inc)
<1> DEFINE Sum(k) == \E f \in [0 .. k -> Nat] : f[0] = base /\ \A i \in 1 .. k : f[i] = f[i - 1] + inc[i]
           P == {k \in Nat : k <= N => Sum(k)}
<1>1. Sum(0)
  <2>1. [i \in 0 .. 0 |-> base] \in [0 .. 0 -> Nat]
    OBVIOUS
  <2>2. [i \in 0 .. 0 |-> base][0] = base /\ 1 .. 0 = {}
    OBVIOUS
  <2> QED BY <2>1, <2>2
<1>2. ASSUME NEW k \in Nat, k + 1 <= N, Sum(k) PROVE Sum(k + 1)
  <2>1. PICK f \in [0 .. k -> Nat] : f[0] = base /\ \A i \in 1 .. k : f[i] = f[i - 1] + inc[i]
    BY <1>2
  <2> DEFINE g == [i \in 0 .. (k + 1) |-> IF i = k + 1 THEN f[k] + inc[k + 1] ELSE f[i]]
  <2>2. f[k] \in Nat /\ inc[k + 1] \in Nat
    BY <1>2
  <2>3. g \in [0 .. (k + 1) -> Nat] /\ g[0] = base
    BY <2>1, <2>2
  <2>4. ASSUME NEW i \in 1 .. (k + 1) PROVE g[i] = g[i - 1] + inc[i]
    <3>1. CASE i = k + 1
      BY <3>1
    <3>2. CASE i # k + 1
      <4>1. i \in 1 .. k /\ i - 1 \in 0 .. k /\ i - 1 # k + 1 /\ i - 1 \in 0 .. (k + 1)
        BY <3>2
      <4>2. g[i] = f[i] /\ g[i - 1] = f[i - 1]
        BY <3>2, <4>1
      <4> QED BY <2>1, <4>1, <4>2
    <3> QED BY <3>1, <3>2
  <2> HIDE DEF g
  <2> QED BY <2>3, <2>4
<1> HIDE DEF Sum
<1>3. 0 \in P /\ \A k \in P : k + 1 \in P
  BY <1>1, <1>2
<1>4. P \in SUBSET Nat
  OBVIOUS
<1> HIDE DEF P
<1>5. P = Nat
  BY <1>3, <1>4, NatInductionSet
<1>6. Sum(N)
  <2>1. N \in P
    BY <1>5
  <2> QED BY <2>1 DEF P
<1>7. PICK f \in [0 .. N -> Nat] : f[0] = base /\ \A i \in 1 .. N : f[i] = f[i - 1] + inc[i]
  BY <1>6 DEF Sum
<1>8. IsSum(f, N, base, inc)
  BY <1>7 DEF IsSum
<1> QED BY <1>8

(* Its values are numbers. *)
LEMMA SumFacts ==
  ASSUME NEW N, NEW base, NEW inc, NEW f, IsSum(f, N, base, inc)
  PROVE  /\ f \in [0 .. N -> Nat] /\ f[0] = base
         /\ \A i \in 1 .. N : f[i] = f[i - 1] + inc[i]
<1>0. N \in Nat /\ base \in Nat /\ inc \in [1 .. N -> Nat]
  BY DEF IsSum
<1> DEFINE Q == {k \in Nat : k <= N => f[k] \in Nat}
<1>1. f[0] = base /\ \A i \in 1 .. N : f[i] = f[i - 1] + inc[i]
  BY DEF IsSum
<1>2. 0 \in Q
  BY <1>0, <1>1
<1>3. ASSUME NEW k \in Q PROVE k + 1 \in Q
  <2> SUFFICES ASSUME k + 1 <= N PROVE f[k + 1] \in Nat
    OBVIOUS
  <2>1. k + 1 \in 1 .. N /\ (k + 1) - 1 = k /\ f[k] \in Nat
    BY <1>0
  <2>2. f[k + 1] = f[k] + inc[k + 1] /\ inc[k + 1] \in Nat
    BY <1>0, <1>1, <2>1
  <2> QED BY <2>1, <2>2
<1>4. Q \in SUBSET Nat
  OBVIOUS
<1> HIDE DEF Q
<1>5. Q = Nat
  BY <1>2, <1>3, <1>4, NatInductionSet
<1>6. \A i \in 0 .. N : f[i] \in Nat
  BY <1>0, <1>5 DEF Q
<1>7. f = [i \in 0 .. N |-> f[i]]
  BY DEF IsSum
<1>8. f \in [0 .. N -> Nat]
  BY <1>6, <1>7
<1> QED BY <1>1, <1>8

(* What the assumption says of a program. *)
LEMMA ProgramFacts ==
  ASSUME program \in Programs
  PROVE  /\ Len(program.sizes) \in Nat /\ Objects = 1 .. Len(program.sizes)
         /\ \A i \in Objects : program.sizes[i] \in Nat
         /\ program.non_primary \in Nat /\ program.executable_bytes \in Nat
         /\ program.callers \subseteq 0 .. Len(program.sizes)
         /\ \A i \in program.callers : i # Elsewhere => program.sizes[i] > 0
         /\ \A d \in program.called :
              /\ d.object \in 0 .. Len(program.sizes) /\ d.plt \in BOOLEAN
              /\ d.object # Elsewhere => program.sizes[d.object] > 0
<1>1. IsProgram(program)
  BY ThunksAssumption
<1> QED BY <1>1 DEF IsProgram, IsDefinition, Objects

(* The ends of the code. *)
LEMMA CodeEndFacts ==
  ASSUME program \in Programs
  PROVE  /\ CodeEnd \in [0 .. Len(program.sizes) -> Nat] /\ CodeEnd[0] = program.non_primary
         /\ \A i \in Objects : CodeEnd[i] = CodeEnd[i - 1] + program.sizes[i]
         /\ \A i \in Objects : CodeEnd[i] \in Nat /\ CodeEnd[i - 1] \in Nat /\ CodeEnd[i - 1] <= CodeEnd[i]
<1> DEFINE N == Len(program.sizes)
           inc == [i \in 1 .. N |-> program.sizes[i]]
<1>1. N \in Nat /\ program.non_primary \in Nat /\ inc \in [1 .. N -> Nat] /\ Objects = 1 .. N
  BY ProgramFacts
<1>2. CodeEnd = CHOOSE f : f = [i \in 0 .. N |-> IF i = 0 THEN program.non_primary
                                                 ELSE f[i - 1] + program.sizes[i]]
  BY DEF CodeEnd
<1>3. \A f : IsSum(f, N, program.non_primary, inc) <=>
        f = [i \in 0 .. N |-> IF i = 0 THEN program.non_primary ELSE f[i - 1] + program.sizes[i]]
  <2>1. \A f : [i \in 0 .. N |-> IF i = 0 THEN program.non_primary ELSE f[i - 1] + inc[i]]
             = [i \in 0 .. N |-> IF i = 0 THEN program.non_primary ELSE f[i - 1] + program.sizes[i]]
    BY <1>1
  <2> QED BY <1>1, <2>1 DEF IsSum
<1>4. \E f : IsSum(f, N, program.non_primary, inc)
  BY <1>1, SumExists
<1> HIDE DEF inc, N
<1>5. PICK g : g = CodeEnd
  OBVIOUS
<1>6. IsSum(g, N, program.non_primary, inc)
  BY <1>2, <1>3, <1>4, <1>5
<1>7. /\ g \in [0 .. N -> Nat] /\ g[0] = program.non_primary
      /\ \A i \in 1 .. N : g[i] = g[i - 1] + inc[i]
  BY <1>6, SumFacts
<1>8. ASSUME NEW i \in 1 .. N PROVE g[i] \in Nat /\ g[i - 1] \in Nat /\ g[i - 1] <= g[i]
  <2>1. i \in 0 .. N /\ i - 1 \in 0 .. N /\ inc[i] \in Nat
    BY <1>1
  <2>2. g[i] \in Nat /\ g[i - 1] \in Nat /\ g[i] = g[i - 1] + inc[i]
    BY <1>7, <2>1
  <2> QED BY <2>1, <2>2
<1> QED BY <1>1, <1>5, <1>7, <1>8 DEF inc, N

(* A sequence of numbers that never goes down is monotone. *)
LEMMA Monotone ==
  ASSUME NEW N \in Nat, NEW f \in [0 .. N -> Nat], \A i \in 1 .. N : f[i - 1] <= f[i]
  PROVE  \A i, j \in 0 .. N : i <= j => f[i] <= f[j]
<1> SUFFICES ASSUME NEW i \in 0 .. N PROVE \A j \in 0 .. N : i <= j => f[i] <= f[j]
  OBVIOUS
<1> DEFINE P == {k \in Nat : i + k <= N => f[i] <= f[i + k]}
<1>1. 0 \in P
  OBVIOUS
<1>2. ASSUME NEW k \in P PROVE k + 1 \in P
  <2> SUFFICES ASSUME i + (k + 1) <= N PROVE f[i] <= f[i + (k + 1)]
    OBVIOUS
  <2>1. i + k \in 0 .. N /\ i + (k + 1) \in 1 .. N /\ (i + (k + 1)) - 1 = i + k
    OBVIOUS
  <2>2. f[i] <= f[i + k] /\ f[i + k] <= f[i + (k + 1)]
    BY <2>1
  <2> QED BY <2>1, <2>2
<1>3. P \in SUBSET Nat
  OBVIOUS
<1> HIDE DEF P
<1>4. P = Nat
  BY <1>1, <1>2, <1>3, NatInductionSet
<1>5. ASSUME NEW j \in 0 .. N, i <= j PROVE f[i] <= f[j]
  <2>1. j - i \in P /\ i + (j - i) = j
    BY <1>4, <1>5
  <2> QED BY <2>1 DEF P
<1> QED BY <1>5

(* Code ends further on for later objects. *)
LEMMA CodeEndMonotone ==
  ASSUME program \in Programs
  PROVE  \A i, j \in 0 .. Len(program.sizes) : i <= j => CodeEnd[i] <= CodeEnd[j]
<1>1. Len(program.sizes) \in Nat /\ Objects = 1 .. Len(program.sizes)
  BY ProgramFacts
<1>2. CodeEnd \in [0 .. Len(program.sizes) -> Nat] /\ \A i \in Objects : CodeEnd[i - 1] <= CodeEnd[i]
  BY CodeEndFacts
<1>3. \A i \in 1 .. Len(program.sizes) : CodeEnd[i - 1] <= CodeEnd[i]
  BY <1>1, <1>2
<1> QED BY <1>1, <1>2, <1>3, Monotone

(* The program stays, and with it the ends of the code. *)
LEMMA ProgramStays ==
  ASSUME UNCHANGED program
  PROVE  CodeEnd' = CodeEnd /\ Objects' = Objects /\ Small' = Small
  BY DEF CodeEnd, Objects, Small

-----------------------------------------------------------------------------
(* Ranges and steps.                                                       *)

(* What the loop over the objects knows. *)
LEMMA RangeFacts ==
  ASSUME RangesInv, Len(ranges) = Len(program.sizes)
  PROVE  \A i \in Objects : /\ Start(i) = CodeEnd[i - 1] /\ End(i) = CodeEnd[i]
                            /\ End(i) = Start(i) <=> program.sizes[i] = 0
                            /\ End(i) > Start(i) <=> program.sizes[i] > 0
<1>1. program \in Programs
  BY DEF RangesInv
<1>2. Len(program.sizes) \in Nat /\ Objects = 1 .. Len(program.sizes)
      /\ \A i \in Objects : program.sizes[i] \in Nat
  BY <1>1, ProgramFacts
<1>3. /\ CodeEnd \in [0 .. Len(program.sizes) -> Nat]
      /\ \A i \in Objects : CodeEnd[i] = CodeEnd[i - 1] + program.sizes[i]
  BY <1>1, CodeEndFacts
<1>4. DOMAIN ranges = Objects
  BY <1>2 DEF RangesInv
<1>5. \A i \in Objects : Start(i) = CodeEnd[i - 1] /\ End(i) = CodeEnd[i]
  BY <1>4 DEF RangesInv, Start, End
<1>6. \A i \in Objects : CodeEnd[i - 1] \in Nat
  BY <1>1, CodeEndFacts
<1> QED BY <1>2, <1>3, <1>5, <1>6

LEMMA RangesStep ==
  ASSUME RangesInv, StepsInv, [ThunksNext]_thunk_vars
  PROVE  RangesInv'
<1>1. UNCHANGED program
  BY DEF ThunksNext, thunk_vars, New, CollectRange, RangesCollected, SkipEmpty, AssignFirst, AssignPrevious,
     StartNextBlock, AssignNext, PlaceNextBlock, EndAssign, CollectSymbols, WriteBranches, NextObject
<1>2. CodeEnd' = CodeEnd /\ program' = program
  BY <1>1, ProgramStays
<1>3. CASE CollectRange
  <2> DEFINE n == Len(ranges)
             start == IF ranges = <<>> THEN program.non_primary ELSE End(Len(ranges))
  <2>1. program \in Programs /\ ranges \in Seq(Nat \X Nat) /\ n \in Nat /\ n < Len(program.sizes)
        /\ DOMAIN ranges = 1 .. n
    BY <1>3 DEF RangesInv, CollectRange
  <2>2. Len(program.sizes) \in Nat /\ Objects = 1 .. Len(program.sizes)
        /\ \A i \in Objects : program.sizes[i] \in Nat
    BY <2>1, ProgramFacts
  <2>3. /\ CodeEnd \in [0 .. Len(program.sizes) -> Nat] /\ CodeEnd[0] = program.non_primary
        /\ \A i \in Objects : CodeEnd[i] = CodeEnd[i - 1] + program.sizes[i]
    BY <2>1, CodeEndFacts
  <2>4. start = CodeEnd[n]
    <3>1. CASE ranges = <<>>
      BY <3>1, <2>3
    <3>2. CASE ranges # <<>>
      <4>1. n \in DOMAIN ranges
        BY <2>1, <3>2
      <4> QED BY <4>1, <3>2 DEF RangesInv, End
    <3> QED BY <3>1, <3>2
  <2>5. n + 1 \in Objects /\ (n + 1) - 1 = n
    BY <2>1, <2>2
  <2>6. CodeEnd[n] \in Nat /\ CodeEnd[n + 1] \in Nat /\ CodeEnd[n + 1] = CodeEnd[n] + program.sizes[n + 1]
    BY <2>1, <2>2, <2>3, <2>5
  <2>7. ranges' = Append(ranges, <<CodeEnd[n], CodeEnd[n + 1]>>)
    BY <1>3, <2>4, <2>6 DEF CollectRange
  <2>8. ranges' \in Seq(Nat \X Nat) /\ Len(ranges') = n + 1 /\ DOMAIN ranges' = 1 .. (n + 1)
    BY <2>1, <2>6, <2>7
  <2>9. ASSUME NEW i \in 1 .. (n + 1) PROVE ranges'[i] = <<CodeEnd[i - 1], CodeEnd[i]>>
    <3>1. CASE i = n + 1
      BY <3>1, <2>1, <2>7
    <3>2. CASE i # n + 1
      <4>1. i \in DOMAIN ranges /\ ranges'[i] = ranges[i]
        BY <3>2, <2>1, <2>7
      <4> QED BY <4>1 DEF RangesInv
    <3> QED BY <3>1, <3>2
  <2>10. n + 1 <= Len(program.sizes)
    BY <2>1, <2>2
  <2> QED BY <1>2, <2>1, <2>8, <2>9, <2>10 DEF RangesInv
<1>4. CASE UNCHANGED ranges
  BY <1>2, <1>4 DEF RangesInv
<1> QED
  BY <1>3, <1>4 DEF ThunksNext, thunk_vars, New, RangesCollected, SkipEmpty, AssignFirst, AssignPrevious,
     StartNextBlock, AssignNext, PlaceNextBlock, EndAssign, CollectSymbols, WriteBranches, NextObject

LEMMA StepsStep ==
  ASSUME RangesInv, StepsInv, BlocksInv, [ThunksNext]_thunk_vars
  PROVE  StepsInv'
<1>1. program \in Programs /\ Len(program.sizes) \in Nat /\ at \in 1 .. Len(program.sizes) + 1
  BY ProgramFacts DEF RangesInv, BlocksInv
<1>2. CASE New
  BY <1>2 DEF StepsInv, New, assigned, Small
<1>3. CASE CollectRange
  BY <1>3 DEF StepsInv, CollectRange, assigned, Small
<1>4. CASE RangesCollected
  BY <1>4 DEF StepsInv, RangesCollected, assigned, Small
<1>5. CASE SkipEmpty \/ AssignFirst \/ AssignPrevious \/ StartNextBlock \/ AssignNext \/ PlaceNextBlock
  BY <1>5 DEF StepsInv, SkipEmpty, AssignFirst, AssignPrevious, StartNextBlock, AssignNext, PlaceNextBlock,
     AtObject, AtCode, NextObject, assigned, Small
<1>6. CASE EndAssign
  BY <1>1, <1>6 DEF StepsInv, EndAssign, Small
<1>7. CASE CollectSymbols
  BY <1>7 DEF StepsInv, CollectSymbols, assigned, Small
<1>8. CASE WriteBranches
  BY <1>8 DEF StepsInv, WriteBranches, assigned, Small
<1>9. CASE UNCHANGED thunk_vars
  BY <1>9 DEF StepsInv, thunk_vars, assigned, Small
<1> QED
  BY <1>2, <1>3, <1>4, <1>5, <1>6, <1>7, <1>8, <1>9 DEF ThunksNext

-----------------------------------------------------------------------------
(* The loop in assign_thunk_blocks.                                        *)

(* The range that blocks are assigned for is not empty. *)
LEMMA BranchRangeFacts ==
  /\ BranchRange \in Nat \ {0} /\ MinBranchRange \in Nat /\ MaxThunkBytes \in Nat
  /\ MinBranchRange = BranchRange + MaxThunkBytes /\ ThunkSize \in Nat \ {0}
  BY ThunksAssumption DEF BranchRange

(* Facts about the program and the ends of its code, together. *)
LEMMA CodeFacts ==
  ASSUME RangesInv
  PROVE  /\ Len(program.sizes) \in Nat /\ Objects = 1 .. Len(program.sizes)
         /\ program.non_primary \in Nat /\ CodeEnd[0] = program.non_primary
         /\ \A i \in 0 .. Len(program.sizes) : CodeEnd[i] \in Nat
         /\ \A i \in Objects : program.sizes[i] \in Nat /\ CodeEnd[i] = CodeEnd[i - 1] + program.sizes[i]
         /\ \A i \in Objects : CodeEnd[i] \in Nat /\ CodeEnd[i - 1] \in Nat /\ CodeEnd[i - 1] <= CodeEnd[i]
         /\ \A i, j \in 0 .. Len(program.sizes) : i <= j => CodeEnd[i] <= CodeEnd[j]
<1>1. program \in Programs
  BY DEF RangesInv
<1>2. CodeEnd \in [0 .. Len(program.sizes) -> Nat]
  BY <1>1, CodeEndFacts
<1> QED BY <1>1, <1>2, ProgramFacts, CodeEndFacts, CodeEndMonotone

(* The object at which the loop is. *)
LEMMA AtFacts ==
  ASSUME RangesInv, StepsInv, AtObject
  PROVE  /\ at \in Objects /\ step = "assign" /\ at \notin Assigned
         /\ Start(at) = CodeEnd[at - 1] /\ End(at) = CodeEnd[at]
         /\ AtCode <=> program.sizes[at] > 0
         /\ CodeEnd[at] \in Nat /\ CodeEnd[at - 1] \in Nat /\ CodeEnd[at - 1] <= CodeEnd[at]
<1>1. at \in Objects /\ step = "assign"
  BY DEF AtObject
<1>2. Len(ranges) = Len(program.sizes)
  BY <1>1 DEF StepsInv
<1>3. /\ Start(at) = CodeEnd[at - 1] /\ End(at) = CodeEnd[at]
      /\ End(at) > Start(at) <=> program.sizes[at] > 0
  BY <1>1, <1>2, RangeFacts
<1>4. at \notin Assigned
  BY CodeFacts, <1>1 DEF Assigned
<1> QED BY <1>1, <1>3, <1>4, CodeFacts DEF AtCode

(* The object joins those that have been assigned. *)
LEMMA AssignedGrows ==
  ASSUME RangesInv, StepsInv, AtCode, NextObject
  PROVE  /\ Assigned' = Assigned \cup {at} /\ at' = at + 1 /\ step' = "assign"
         /\ at' \in 1 .. Len(program.sizes) + 1 /\ at' - 1 = at
         /\ CodeEnd' = CodeEnd /\ Objects' = Objects /\ program' = program
<1>1. AtObject /\ at' = at + 1 /\ program' = program /\ step' = step
  BY DEF AtCode, NextObject
<1>2. CodeEnd' = CodeEnd /\ Objects' = Objects
  BY <1>1, ProgramStays
<1>3. at \in Objects /\ step = "assign" /\ program.sizes[at] > 0
  BY <1>1, AtFacts
<1>4. Len(program.sizes) \in Nat /\ Objects = 1 .. Len(program.sizes)
  BY CodeFacts
<1>5. Assigned' = {i \in Objects : i < at + 1 /\ program.sizes[i] > 0}
  BY <1>1, <1>2 DEF Assigned
<1>6. \A i \in Objects : i < at + 1 <=> i < at \/ i = at
  BY <1>3, <1>4
<1>7. Assigned' = Assigned \cup {at}
  BY <1>3, <1>5, <1>6 DEF Assigned
<1> QED BY <1>1, <1>2, <1>3, <1>4, <1>7

(* The blocks of objects that have been assigned do not change. *)
LEMMA SkipEmptyInv ==
  ASSUME RangesInv, StepsInv, AssignInv, SkipEmpty
  PROVE  AssignInv'
<1>1. AtObject /\ at' = at + 1 /\ program' = program /\ step' = step /\ UNCHANGED assigned
  BY DEF SkipEmpty, NextObject
<1>2. CodeEnd' = CodeEnd /\ Objects' = Objects
  BY <1>1, ProgramStays
<1>3. /\ at \in Objects /\ step = "assign" /\ CodeEnd[at] = CodeEnd[at - 1] /\ program.sizes[at] \in Nat
      /\ ~(program.sizes[at] > 0)
  BY <1>1, AtFacts, CodeFacts DEF SkipEmpty, AtCode
<1>4. Len(program.sizes) \in Nat /\ Objects = 1 .. Len(program.sizes)
  BY CodeFacts
<1>5. Assigned' = {i \in Objects : i < at + 1 /\ program.sizes[i] > 0}
  BY <1>1, <1>2 DEF Assigned
<1>6. \A i \in Objects : i < at + 1 <=> i < at \/ i = at
  BY <1>3, <1>4
<1>7. Assigned' = Assigned
  BY <1>3, <1>5, <1>6 DEF Assigned
<1>8. /\ at' \in 1 .. Len(program.sizes) + 1 /\ at' - 1 = at
  BY <1>1, <1>3, <1>4
<1>9. Open' = Open /\ Placed' = Placed /\ \A i : BlockNow(i)' = BlockNow(i)
  BY <1>1 DEF Open, Placed, BlockNow, assigned
<1>10. /\ num_blocks' = num_blocks /\ owners' = owners /\ pending' = pending /\ block' = block
       /\ prev' = prev /\ prev_pos' = prev_pos
  BY <1>1 DEF assigned
<1>11. BlocksInv'
  BY <1>1, <1>2, <1>3, <1>7, <1>8, <1>9, <1>10 DEF BlocksInv, AssignInv
<1>12. LastInv'
  BY <1>1, <1>2, <1>3, <1>7, <1>8, <1>9, <1>10 DEF LastInv, AssignInv
<1>13. DistancesInv'
  BY <1>2, <1>7, <1>9, <1>10 DEF DistancesInv, AssignInv
<1> QED BY <1>11, <1>12, <1>13 DEF AssignInv

LEMMA AssignFirstInv ==
  ASSUME RangesInv, StepsInv, AssignInv, AssignFirst
  PROVE  AssignInv'
<1>1. AtCode /\ AtObject /\ NextObject /\ num_blocks = 0
  BY DEF AssignFirst, AtCode
<1>2. /\ num_blocks' = 1 /\ owners' = {at} /\ prev' = 0 /\ prev_pos' = CodeEnd[at]
      /\ block' = [block EXCEPT ![at] = 0] /\ pending' = pending
  BY <1>1, AtFacts DEF AssignFirst
<1>3. /\ Assigned' = Assigned \cup {at} /\ at' = at + 1 /\ step' = "assign"
      /\ at' \in 1 .. Len(program.sizes) + 1
      /\ CodeEnd' = CodeEnd /\ Objects' = Objects /\ program' = program
  BY <1>1, AssignedGrows
<1>4. /\ Assigned = {} /\ owners = {} /\ pending = <<>> /\ CodeEnd[at - 1] = program.non_primary
      /\ block \in [Objects -> Nat]
  BY <1>1 DEF AssignInv, BlocksInv
<1>5. at \in Objects /\ at \in Nat
  BY <1>1, AtFacts, CodeFacts
<1>6. Assigned' = {at} /\ ~Open' /\ Placed' = 1 /\ \A i : BlockNow(i)' = block'[i]
  BY <1>2, <1>3, <1>4 DEF Open, Placed, BlockNow
<1>7. block' \in [Objects -> Nat] /\ block'[at] = 0
  BY <1>2, <1>4, <1>5
<1>8. BlocksInv'
  <2>1. \A b \in 0 .. Placed' - 1 : b = 0
    BY <1>6
  <2> QED BY <1>2, <1>3, <1>4, <1>5, <1>6, <1>7, <2>1 DEF BlocksInv
<1>9. LastInv'
  BY <1>2, <1>3, <1>6, <1>7 DEF LastInv
<1>10. DistancesInv'
  BY <1>2, <1>5, <1>6 DEF DistancesInv
<1> QED BY <1>8, <1>9, <1>10 DEF AssignInv

LEMMA AssignPreviousInv ==
  ASSUME RangesInv, StepsInv, AssignInv, AssignPrevious
  PROVE  AssignInv'
<1>1. AtCode /\ AtObject /\ NextObject /\ num_blocks > 0 /\ pending = <<>>
  BY DEF AssignPrevious, AtCode
<1>2. /\ num_blocks' = num_blocks /\ owners' = owners /\ prev' = prev /\ prev_pos' = prev_pos
      /\ block' = [block EXCEPT ![at] = prev] /\ pending' = pending
      /\ CodeEnd[at] - prev_pos < BranchRange
  BY <1>1, AtFacts DEF AssignPrevious
<1>3. /\ Assigned' = Assigned \cup {at} /\ at' = at + 1 /\ step' = "assign"
      /\ at' \in 1 .. Len(program.sizes) + 1
      /\ CodeEnd' = CodeEnd /\ Objects' = Objects /\ program' = program
  BY <1>1, AssignedGrows
<1>4. step = "assign" /\ at \in Objects /\ at \in Nat /\ at \notin Assigned /\ Objects \subseteq Nat
  BY <1>1, AtFacts, CodeFacts
<1>5. ~Open /\ ~Open' /\ Placed = num_blocks /\ Placed' = num_blocks
      /\ \A i : BlockNow(i) = block[i] /\ BlockNow(i)' = block'[i]
  BY <1>1, <1>2 DEF Open, Placed, BlockNow
<1>6. /\ num_blocks \in Nat /\ block \in [Objects -> Nat] /\ owners \subseteq Assigned
      /\ Assigned \subseteq Objects /\ \A i \in Assigned : i < at
      /\ \A i \in Assigned : block[i] < num_blocks
      /\ \A i, j \in Assigned : i < j => block[i] <= block[j]
  BY <1>5 DEF AssignInv, BlocksInv, Assigned
<1>7. PICK o \in owners : prev = num_blocks - 1 /\ block[o] = prev /\ prev_pos = CodeEnd[o]
  BY <1>1, <1>4, <1>5 DEF AssignInv, LastInv
<1>8. prev \in Nat /\ block' \in [Objects -> Nat] /\ block'[at] = prev
      /\ \A i \in Assigned : block'[i] = block[i]
  BY <1>1, <1>2, <1>4, <1>6, <1>7
<1>9. BlocksInv'
  <2>1. \A i \in Assigned' : block'[i] < num_blocks
    BY <1>3, <1>6, <1>7, <1>8
  <2>2. \A i, j \in Assigned' : i < j => block'[i] <= block'[j]
    <3> SUFFICES ASSUME NEW i \in Assigned', NEW j \in Assigned', i < j PROVE block'[i] <= block'[j]
      OBVIOUS
    <3>1. i \in Assigned
      BY <1>3, <1>4, <1>6
    <3>2. CASE j \in Assigned
      BY <3>1, <3>2, <1>6, <1>8
    <3>3. CASE j = at
      BY <3>1, <3>3, <1>4, <1>6, <1>7, <1>8
    <3> QED BY <3>2, <3>3, <1>3
  <2>3. \A i \in owners : block'[i] = block[i]
    BY <1>6, <1>8
  <2> QED BY <1>1, <1>2, <1>3, <1>5, <1>6, <1>8, <2>1, <2>2, <2>3 DEF BlocksInv, AssignInv
<1>10. LastInv'
  BY <1>2, <1>3, <1>5, <1>6, <1>7, <1>8 DEF LastInv
<1>11. DistancesInv'
  <2>1. ASSUME NEW i \in Assigned', NEW j \in owners, block'[i] = block'[j]
        PROVE  /\ i < j => CodeEnd[j - 1] - CodeEnd[i - 1] < BranchRange \/ CodeEnd[j - 1] = CodeEnd[i]
               /\ j < i => CodeEnd[i] - CodeEnd[j] < BranchRange
    <3>1. CASE i \in Assigned
      BY <2>1, <3>1, <1>5, <1>6, <1>8 DEF DistancesInv, AssignInv
    <3>2. CASE i = at
      <4>1. j < at /\ block[j] = block[o] /\ j = o
        BY <2>1, <3>2, <1>6, <1>7, <1>8 DEF AssignInv, BlocksInv
      <4> QED BY <4>1, <3>2, <1>2, <1>4, <1>6, <1>7
    <3> QED BY <3>1, <3>2, <1>3
  <2> QED BY <2>1, <1>2, <1>3, <1>5 DEF DistancesInv, AssignInv
<1> QED BY <1>9, <1>10, <1>11 DEF AssignInv

LEMMA StartNextBlockInv ==
  ASSUME RangesInv, StepsInv, AssignInv, StartNextBlock
  PROVE  AssignInv'
<1>1. AtCode /\ AtObject /\ NextObject /\ num_blocks > 0 /\ pending = <<>>
  BY DEF StartNextBlock, AtCode
<1>2. /\ num_blocks' = num_blocks + 1 /\ owners' = owners /\ prev' = prev /\ prev_pos' = prev_pos
      /\ block' = block /\ pending' = <<at>>
      /\ CodeEnd[at] - prev_pos >= BranchRange
  BY <1>1, AtFacts DEF StartNextBlock
<1>3. /\ Assigned' = Assigned \cup {at} /\ at' = at + 1 /\ step' = "assign"
      /\ at' \in 1 .. Len(program.sizes) + 1 /\ at' - 1 = at
      /\ CodeEnd' = CodeEnd /\ Objects' = Objects /\ program' = program
  BY <1>1, AssignedGrows
<1>4. step = "assign" /\ at \in Objects /\ at \in Nat /\ at \notin Assigned /\ Objects \subseteq Nat
  BY <1>1, AtFacts, CodeFacts
<1>5. /\ ~Open /\ Open' /\ Placed = num_blocks /\ Placed' = (num_blocks + 1) - 1
      /\ \A i : BlockNow(i) = block[i] /\ BlockNow(i)' = IF <<at>> = <<i>> THEN (num_blocks + 1) - 1 ELSE block[i]
  BY <1>1, <1>2, <1>3 DEF Open, Placed, BlockNow
<1>6. /\ num_blocks \in Nat /\ block \in [Objects -> Nat] /\ owners \subseteq Assigned
      /\ Assigned \subseteq Objects /\ \A i \in Assigned : i < at
      /\ \A i \in Assigned : block[i] < num_blocks
      /\ \A i, j \in Assigned : i < j => block[i] <= block[j]
  BY <1>5 DEF AssignInv, BlocksInv, Assigned
<1>7. /\ Placed' = num_blocks
      /\ \A i \in Objects : i = at => BlockNow(i)' = num_blocks
      /\ \A i \in Assigned : BlockNow(i)' = block[i]
  <2>1. \A i \in Assigned : <<at>> # <<i>>
    BY <1>4
  <2> QED BY <2>1, <1>5, <1>6
<1>8. BlocksInv'
  <2>1. \A i \in Assigned' : BlockNow(i)' < num_blocks + 1
    <3> SUFFICES ASSUME NEW i \in Assigned' PROVE BlockNow(i)' < num_blocks + 1
      OBVIOUS
    <3>1. CASE i \in Assigned
      <4>1. block[i] \in Nat /\ block[i] < num_blocks /\ BlockNow(i)' = block[i]
        BY <3>1, <1>6, <1>7
      <4> QED BY <4>1, <1>6
    <3>2. CASE i = at
      BY <3>2, <1>4, <1>6, <1>7
    <3> QED BY <3>1, <3>2, <1>3
  <2>2. \A i, j \in Assigned' : i < j => BlockNow(i)' <= BlockNow(j)'
    <3> SUFFICES ASSUME NEW i \in Assigned', NEW j \in Assigned', i < j PROVE BlockNow(i)' <= BlockNow(j)'
      OBVIOUS
    <3>1. i \in Assigned
      BY <1>3, <1>4, <1>6
    <3>2. CASE j \in Assigned
      BY <3>1, <3>2, <1>6, <1>7
    <3>3. CASE j = at
      BY <3>1, <3>3, <1>4, <1>6, <1>7
    <3> QED BY <3>2, <3>3, <1>3
  <2>3. num_blocks + 1 \in Nat /\ num_blocks + 1 # 0
    BY <1>6
  <2>4. /\ owners' \subseteq Assigned'
        /\ \A i \in owners' : block'[i] < Placed' /\ (block'[i] = 0 => CodeEnd'[i - 1] = program'.non_primary)
        /\ \A b \in 0 .. Placed' - 1 : \E i \in owners' : block'[i] = b
        /\ \A i, j \in owners' : block'[i] = block'[j] => i = j
    BY <1>2, <1>3, <1>5, <1>6, <1>7 DEF BlocksInv, AssignInv
  <2> QED BY <1>2, <1>3, <1>6, <2>1, <2>2, <2>3, <2>4 DEF BlocksInv
<1>9. LastInv'
  <2>1. PICK o \in owners : prev = num_blocks - 1 /\ block[o] = prev /\ prev_pos = CodeEnd[o]
    BY <1>1, <1>4, <1>5 DEF AssignInv, LastInv
  <2>2. prev' = Placed' - 1 /\ \E i \in owners' : block'[i] = prev' /\ prev_pos' = CodeEnd'[i]
    BY <1>2, <1>3, <1>7, <2>1
  <2>3. \A i \in Assigned' : i >= at <=> BlockNow(i)' = num_blocks
    BY <1>3, <1>4, <1>6, <1>7
  <2>4. /\ at \in Assigned' /\ pending' = <<at>> /\ CodeEnd'[at] - prev_pos' >= BranchRange
        /\ num_blocks' > 1 /\ (\A i \in owners' : i < at) /\ num_blocks' - 1 = num_blocks
        /\ CodeEnd'[at' - 1] = CodeEnd'[at]
    BY <1>1, <1>2, <1>3, <1>6
  <2> QED BY <2>2, <2>3, <2>4 DEF LastInv, BranchRange
<1>10. DistancesInv'
  <2>1. ASSUME NEW i \in Assigned', NEW j \in owners, BlockNow(i)' = block[j]
        PROVE  /\ i < j => CodeEnd[j - 1] - CodeEnd[i - 1] < BranchRange \/ CodeEnd[j - 1] = CodeEnd[i]
               /\ j < i => CodeEnd[i] - CodeEnd[j] < BranchRange
    <3>1. i \in Assigned /\ BlockNow(i) = block[j]
      <4>1. block[j] < num_blocks /\ block[j] \in Nat
        BY <1>6
      <4>2. i # at
        BY <4>1, <2>1, <1>4, <1>6, <1>7
      <4>3. i \in Assigned
        BY <4>2, <1>3
      <4> QED BY <4>3, <2>1, <1>5, <1>7
    <3> QED BY <3>1 DEF DistancesInv, AssignInv
  <2>2. BranchRange' = BranchRange
    BY DEF BranchRange
  <2> QED BY <2>1, <2>2, <1>2, <1>3 DEF DistancesInv, AssignInv
<1> QED BY <1>8, <1>9, <1>10 DEF AssignInv

(* The block that is to be placed: its first object, p, is behind all      *)
(* blocks so far and out of range of the last one, and those that use it   *)
(* are p and what follows.                                                 *)
LEMMA OpenFacts ==
  ASSUME RangesInv, StepsInv, AssignInv, step = "assign", pending # <<>>
  PROVE  \E p \in Assigned :
           /\ pending = <<p>> /\ pending[1] = p /\ Start(p) = CodeEnd[p - 1]
           /\ Open /\ Placed = num_blocks - 1 /\ num_blocks \in Nat /\ num_blocks > 1
           /\ \A i \in owners : i < p /\ CodeEnd[p] - CodeEnd[i] >= BranchRange
           /\ \A i \in Assigned : i >= p <=> BlockNow(i) = num_blocks - 1
           /\ CodeEnd[at - 1] - CodeEnd[p - 1] < BranchRange \/ CodeEnd[at - 1] = CodeEnd[p]
           /\ \A i : BlockNow(i) = IF i = p THEN num_blocks - 1 ELSE block[i]
<1>1. Open /\ Placed = num_blocks - 1
  BY DEF Open, Placed
<1>2. PICK p \in Assigned :
           /\ pending = <<p>> /\ CodeEnd[p] - prev_pos >= BranchRange /\ num_blocks > 1
           /\ \A i \in owners : i < p
           /\ \A i \in Assigned : i >= p <=> BlockNow(i) = num_blocks - 1
           /\ CodeEnd[at - 1] - CodeEnd[p - 1] < BranchRange \/ CodeEnd[at - 1] = CodeEnd[p]
  BY <1>1 DEF AssignInv, LastInv
<1>3. num_blocks \in Nat /\ owners \subseteq Assigned /\ Assigned \subseteq Objects /\ block \in [Objects -> Nat]
  BY DEF AssignInv, BlocksInv, Assigned
<1>4. p \in Objects /\ Start(p) = CodeEnd[p - 1]
  <2>1. Len(ranges) = Len(program.sizes)
    BY DEF StepsInv
  <2> QED BY <1>3, <2>1, RangeFacts
<1>5. PICK o \in owners : prev = Placed - 1 /\ block[o] = prev /\ prev_pos = CodeEnd[o]
  BY <1>2, <1>3 DEF AssignInv, LastInv
<1>6. \A i : BlockNow(i) = IF i = p THEN num_blocks - 1 ELSE block[i]
  BY <1>1, <1>2 DEF BlockNow
<1>7. ASSUME NEW i \in owners PROVE CodeEnd[p] - CodeEnd[i] >= BranchRange
  <2>1. i \in Assigned /\ o \in Assigned /\ i \in 0 .. Len(program.sizes) /\ o \in 0 .. Len(program.sizes)
        /\ i \in Nat /\ o \in Nat
    BY <1>3, CodeFacts
  <2>2. BlockNow(i) = block[i] /\ BlockNow(o) = block[o] /\ block[i] \in Nat /\ block[o] \in Nat
    BY <1>2, <1>3, <1>6, <2>1
  <2>3. block[i] < Placed
    BY DEF AssignInv, BlocksInv
  <2>4. i <= o
    <3> SUFFICES ASSUME o < i PROVE FALSE
      BY <2>1
    <3>1. block[o] <= block[i]
      BY <2>1, <2>2 DEF AssignInv, BlocksInv
    <3>2. block[o] = block[i]
      BY <3>1, <2>2, <2>3, <1>1, <1>3, <1>5
    <3>3. o = i
      BY <3>2 DEF AssignInv, BlocksInv
    <3> QED BY <3>3, <2>1
  <2>5. CodeEnd[i] <= CodeEnd[o] /\ CodeEnd[i] \in Nat /\ CodeEnd[o] \in Nat /\ CodeEnd[p] \in Nat
    BY <2>1, <2>4, <1>4, CodeFacts
  <2> QED BY <2>5, <1>2, <1>5, BranchRangeFacts
<1> QED BY <1>1, <1>2, <1>3, <1>4, <1>6, <1>7

LEMMA AssignNextInv ==
  ASSUME RangesInv, StepsInv, AssignInv, AssignNext
  PROVE  AssignInv'
<1>1. AtCode /\ AtObject /\ NextObject /\ pending # <<>> /\ step = "assign"
  BY DEF AssignNext, AtCode, AtObject
<1>2. PICK p \in Assigned :
           /\ pending = <<p>> /\ pending[1] = p /\ Start(p) = CodeEnd[p - 1]
           /\ Open /\ Placed = num_blocks - 1 /\ num_blocks \in Nat /\ num_blocks > 1
           /\ \A i \in owners : i < p /\ CodeEnd[p] - CodeEnd[i] >= BranchRange
           /\ \A i \in Assigned : i >= p <=> BlockNow(i) = num_blocks - 1
           /\ CodeEnd[at - 1] - CodeEnd[p - 1] < BranchRange \/ CodeEnd[at - 1] = CodeEnd[p]
           /\ \A i : BlockNow(i) = IF i = p THEN num_blocks - 1 ELSE block[i]
  BY <1>1, OpenFacts
<1>3. /\ num_blocks' = num_blocks /\ owners' = owners /\ prev' = prev /\ prev_pos' = prev_pos
      /\ block' = [block EXCEPT ![at] = num_blocks - 1] /\ pending' = pending
      /\ CodeEnd[at] - CodeEnd[p - 1] < BranchRange
  BY <1>1, <1>2, AtFacts DEF AssignNext, NextId
<1>4. /\ Assigned' = Assigned \cup {at} /\ at' = at + 1 /\ step' = "assign"
      /\ at' \in 1 .. Len(program.sizes) + 1 /\ at' - 1 = at
      /\ CodeEnd' = CodeEnd /\ Objects' = Objects /\ program' = program
  BY <1>1, AssignedGrows
<1>5. at \in Objects /\ at \in Nat /\ at \notin Assigned /\ Objects \subseteq Nat
  BY <1>1, AtFacts, CodeFacts
<1>6. /\ block \in [Objects -> Nat] /\ owners \subseteq Assigned
      /\ Assigned \subseteq Objects /\ \A i \in Assigned : i < at
      /\ \A i \in Assigned : BlockNow(i) < num_blocks
      /\ \A i, j \in Assigned : i < j => BlockNow(i) <= BlockNow(j)
  BY DEF AssignInv, BlocksInv, Assigned
<1>7. num_blocks - 1 \in Nat /\ block' \in [Objects -> Nat] /\ block'[at] = num_blocks - 1
      /\ \A i \in Assigned : block'[i] = block[i]
  BY <1>2, <1>3, <1>5, <1>6
<1>8. /\ Open' /\ Placed' = num_blocks - 1
      /\ \A i : BlockNow(i)' = IF i = p THEN num_blocks - 1 ELSE block'[i]
  BY <1>2, <1>3, <1>4 DEF Open, Placed, BlockNow
<1>9. /\ \A i \in Objects : i = at => BlockNow(i)' = num_blocks - 1
      /\ \A i \in Assigned : BlockNow(i)' = BlockNow(i) /\ BlockNow(i) \in Nat
  BY <1>2, <1>5, <1>6, <1>7, <1>8
<1>10. BlocksInv'
  <2>1. \A i \in Assigned' : BlockNow(i)' < num_blocks
    BY <1>2, <1>4, <1>5, <1>6, <1>9
  <2>2. \A i, j \in Assigned' : i < j => BlockNow(i)' <= BlockNow(j)'
    <3> SUFFICES ASSUME NEW i \in Assigned', NEW j \in Assigned', i < j PROVE BlockNow(i)' <= BlockNow(j)'
      OBVIOUS
    <3>1. i \in Assigned
      BY <1>4, <1>5, <1>6
    <3>2. CASE j \in Assigned
      BY <3>1, <3>2, <1>6, <1>9
    <3>3. CASE j = at
      <4>1. BlockNow(j)' = num_blocks - 1 /\ BlockNow(i)' = BlockNow(i) /\ BlockNow(i) < num_blocks
            /\ BlockNow(i) \in Nat
        BY <3>1, <3>3, <1>5, <1>6, <1>9
      <4> QED BY <4>1, <1>2
    <3> QED BY <3>2, <3>3, <1>4
  <2>3. \A i \in owners : block'[i] = block[i]
    BY <1>6, <1>7
  <2>4. /\ owners' \subseteq Assigned'
        /\ \A i \in owners' : block'[i] < Placed' /\ (block'[i] = 0 => CodeEnd'[i - 1] = program'.non_primary)
        /\ \A b \in 0 .. Placed' - 1 : \E i \in owners' : block'[i] = b
        /\ \A i, j \in owners' : block'[i] = block'[j] => i = j
    BY <1>2, <1>3, <1>4, <1>8, <2>3, SMTT(30) DEF BlocksInv, AssignInv
  <2> QED BY <1>2, <1>3, <1>4, <1>7, <2>1, <2>2, <2>4 DEF BlocksInv
<1>11. LastInv'
  <2>1. PICK o \in owners : prev = Placed - 1 /\ block[o] = prev /\ prev_pos = CodeEnd[o]
    BY <1>1, <1>2 DEF AssignInv, LastInv
  <2>2. block'[o] = block[o]
    BY <1>6, <1>7
  <2>3. prev' = Placed' - 1 /\ \E i \in owners' : block'[i] = prev' /\ prev_pos' = CodeEnd'[i]
    BY <1>2, <1>3, <1>4, <1>8, <2>1, <2>2
  <2>4. \A i \in Assigned' : i >= p <=> BlockNow(i)' = num_blocks - 1
    <3>1. p < at /\ p \in Nat
      BY <1>5, <1>6
    <3>2. ASSUME NEW i \in Assigned' PROVE i >= p <=> BlockNow(i)' = num_blocks - 1
      <4>1. CASE i \in Assigned
        BY <4>1, <1>2, <1>9
      <4>2. CASE i = at /\ i \in Objects
        <5>1. BlockNow(i)' = num_blocks - 1
          BY <4>2, <1>9
        <5>2. i >= p
          BY <4>2, <3>1, <1>5
        <5> QED BY <5>1, <5>2
      <4>3. i \in Objects
        BY <1>4, <1>5, <1>6
      <4> QED BY <4>1, <4>2, <4>3, <1>4
    <3> QED BY <3>2
  <2>5. CodeEnd[p] - prev_pos >= BranchRange
    BY <1>2, <2>1
  <2> QED BY <1>2, <1>3, <1>4, <2>3, <2>4, <2>5 DEF LastInv, BranchRange
<1>12. DistancesInv'
  <2>1. ASSUME NEW i \in Assigned', NEW j \in owners, BlockNow(i)' = block'[j]
        PROVE  /\ i < j => CodeEnd[j - 1] - CodeEnd[i - 1] < BranchRange \/ CodeEnd[j - 1] = CodeEnd[i]
               /\ j < i => CodeEnd[i] - CodeEnd[j] < BranchRange
    <3>1. block[j] < num_blocks - 1 /\ block[j] \in Nat /\ block'[j] = block[j]
      BY <1>2, <1>6, <1>7 DEF AssignInv, BlocksInv
    <3>2. i # at
      BY <3>1, <2>1, <1>2, <1>5, <1>9
    <3>3. i \in Assigned /\ BlockNow(i) = block[j]
      BY <3>1, <3>2, <2>1, <1>4, <1>9
    <3> QED BY <3>3 DEF DistancesInv, AssignInv
  <2>2. BranchRange' = BranchRange
    BY DEF BranchRange
  <2> QED BY <2>1, <2>2, <1>3, <1>4 DEF DistancesInv, AssignInv
<1> QED BY <1>10, <1>11, <1>12 DEF AssignInv

LEMMA PlaceNextBlockInv ==
  ASSUME RangesInv, StepsInv, AssignInv, PlaceNextBlock
  PROVE  AssignInv'
<1>0. Objects = 1 .. Len(program.sizes) /\ Len(program.sizes) \in Nat
  BY CodeFacts
<1>1. AtCode /\ AtObject /\ NextObject /\ pending # <<>> /\ step = "assign"
  BY DEF PlaceNextBlock, AtCode, AtObject
<1>2. PICK p \in Assigned :
           /\ pending = <<p>> /\ pending[1] = p /\ Start(p) = CodeEnd[p - 1]
           /\ Open /\ Placed = num_blocks - 1 /\ num_blocks \in Nat /\ num_blocks > 1
           /\ \A i \in owners : i < p /\ CodeEnd[p] - CodeEnd[i] >= BranchRange
           /\ \A i \in Assigned : i >= p <=> BlockNow(i) = num_blocks - 1
           /\ CodeEnd[at - 1] - CodeEnd[p - 1] < BranchRange \/ CodeEnd[at - 1] = CodeEnd[p]
           /\ \A i : BlockNow(i) = IF i = p THEN num_blocks - 1 ELSE block[i]
  BY <1>1, OpenFacts
<1>3. /\ num_blocks' = num_blocks /\ owners' = owners \cup {at} /\ prev' = num_blocks - 1
      /\ prev_pos' = CodeEnd[at] /\ pending' = <<>>
      /\ block' = [block EXCEPT ![p] = num_blocks - 1, ![at] = num_blocks - 1]
  BY <1>1, <1>2, AtFacts DEF PlaceNextBlock, NextId
<1>4. /\ Assigned' = Assigned \cup {at} /\ at' = at + 1 /\ step' = "assign"
      /\ at' \in 1 .. Len(program.sizes) + 1 /\ at' - 1 = at
      /\ CodeEnd' = CodeEnd /\ Objects' = Objects /\ program' = program
  BY <1>1, AssignedGrows
<1>5. at \in Objects /\ at \in Nat /\ at \notin Assigned /\ Objects \subseteq Nat
  BY <1>1, AtFacts, CodeFacts
<1>6. /\ block \in [Objects -> Nat] /\ owners \subseteq Assigned
      /\ Assigned \subseteq Objects /\ \A i \in Assigned : i < at
      /\ \A i \in Assigned : BlockNow(i) < num_blocks
      /\ \A i, j \in Assigned : i < j => BlockNow(i) <= BlockNow(j)
  BY DEF AssignInv, BlocksInv, Assigned
<1>7. num_blocks - 1 \in Nat /\ block' \in [Objects -> Nat] /\ block'[at] = num_blocks - 1
      /\ \A i \in Assigned : block'[i] = BlockNow(i) /\ BlockNow(i) \in Nat
  BY <1>2, <1>3, <1>5, <1>6
<1>8. ~Open' /\ Placed' = num_blocks /\ \A i : BlockNow(i)' = block'[i]
  BY <1>3 DEF Open, Placed, BlockNow
<1>9. ASSUME NEW i \in owners
      PROVE  i \in Assigned /\ i # p /\ block'[i] = block[i] /\ block[i] < num_blocks - 1 /\ block[i] \in Nat
  <2>1. i \in Assigned /\ i # p
    BY <1>2, <1>5, <1>6
  <2>2. block[i] < Placed
    BY DEF AssignInv, BlocksInv
  <2> QED BY <2>1, <2>2, <1>2, <1>6, <1>7
<1>10. BlocksInv'
  <2>1. \A i \in Assigned' : block'[i] < num_blocks
    BY <1>2, <1>4, <1>6, <1>7
  <2>2. \A i, j \in Assigned' : i < j => block'[i] <= block'[j]
    <3> SUFFICES ASSUME NEW i \in Assigned', NEW j \in Assigned', i < j PROVE block'[i] <= block'[j]
      OBVIOUS
    <3>1. i \in Assigned
      BY <1>4, <1>5, <1>6
    <3>2. CASE j \in Assigned
      BY <3>1, <3>2, <1>6, <1>7
    <3>3. CASE j = at
      <4>1. block'[i] < num_blocks /\ block'[i] \in Nat
        BY <3>1, <1>6, <1>7
      <4> QED BY <4>1, <3>3, <1>2, <1>7
    <3> QED BY <3>2, <3>3, <1>4
  <2>3. \A i \in owners' : block'[i] < num_blocks /\ (block'[i] = 0 => CodeEnd[i - 1] = program.non_primary)
    <3> SUFFICES ASSUME NEW i \in owners'
                 PROVE  block'[i] < num_blocks /\ (block'[i] = 0 => CodeEnd[i - 1] = program.non_primary)
      OBVIOUS
    <3>1. CASE i = at
      BY <3>1, <1>2, <1>7
    <3>2. CASE i \in owners
      BY <3>2, <1>2, <1>9 DEF BlocksInv, AssignInv
    <3> QED BY <3>1, <3>2, <1>3
  <2>4. ASSUME NEW b \in 0 .. num_blocks - 1 PROVE \E i \in owners' : block'[i] = b
    <3>1. CASE b = num_blocks - 1
      BY <3>1, <1>3, <1>7
    <3>2. CASE b # num_blocks - 1
      <4>1. b \in 0 .. Placed - 1
        BY <3>2, <1>2
      <4>2. PICK i \in owners : block[i] = b
        BY <4>1 DEF BlocksInv, AssignInv
      <4> QED BY <4>2, <1>3, <1>9
    <3> QED BY <3>1, <3>2
  <2>5. ASSUME NEW i \in owners', NEW j \in owners', block'[i] = block'[j] PROVE i = j
    <3>1. CASE i \in owners /\ j \in owners
      BY <3>1, <2>5, <1>9 DEF BlocksInv, AssignInv
    <3>2. CASE i = at /\ j \in owners
      BY <3>2, <2>5, <1>2, <1>7, <1>9
    <3>3. CASE i \in owners /\ j = at
      BY <3>3, <2>5, <1>2, <1>7, <1>9
    <3> QED BY <3>1, <3>2, <3>3, <1>3
  <2>6. owners' \subseteq Assigned'
    BY <1>3, <1>4, <1>6
  <2>7. num_blocks' = num_blocks /\ num_blocks \in Nat /\ num_blocks # 0
    BY <1>2, <1>3
  <2>8. block' \in [Objects -> Nat]
    BY <1>7
  <2> QED BY <1>4, <1>8, <2>1, <2>2, <2>3, <2>4, <2>5, <2>6, <2>7, <2>8 DEF BlocksInv
<1>11. LastInv'
  <2>1. at \in owners' /\ block'[at] = prev' /\ prev_pos' = CodeEnd'[at] /\ prev' = Placed' - 1
    BY <1>3, <1>4, <1>7, <1>8
  <2> QED BY <2>1, <1>8 DEF LastInv
<1>12. DistancesInv'
  <2>1. ASSUME NEW i \in Assigned', NEW j \in owners', block'[i] = block'[j]
        PROVE  /\ i < j => CodeEnd[j - 1] - CodeEnd[i - 1] < BranchRange \/ CodeEnd[j - 1] = CodeEnd[i]
               /\ j < i => CodeEnd[i] - CodeEnd[j] < BranchRange
    <3>1. CASE j \in owners
      <4>1. i # at
        BY <3>1, <2>1, <1>2, <1>7, <1>9
      <4>2. i \in Assigned /\ BlockNow(i) = block[j]
        BY <4>1, <3>1, <2>1, <1>4, <1>7, <1>9
      <4> QED BY <3>1, <4>2 DEF DistancesInv, AssignInv
    <3>2. CASE j = at /\ i \in Assigned
      <4>1. i >= p /\ i < at
        BY <3>2, <2>1, <1>2, <1>6, <1>7
      <4>2. /\ p \in 0 .. Len(program.sizes) /\ i \in 0 .. Len(program.sizes)
            /\ at - 1 \in 0 .. Len(program.sizes) /\ p - 1 \in 0 .. Len(program.sizes)
            /\ i - 1 \in 0 .. Len(program.sizes) /\ p - 1 <= i - 1 /\ p <= i /\ i <= at - 1
        <5>1. i \in 1 .. Len(program.sizes) /\ p \in 1 .. Len(program.sizes) /\ at \in 1 .. Len(program.sizes)
          BY <3>2, <1>0, <1>5, <1>6
        <5> QED BY <5>1, <4>1, <1>0
      <4>3. /\ CodeEnd[p - 1] <= CodeEnd[i - 1] /\ CodeEnd[p] <= CodeEnd[i] /\ CodeEnd[i] <= CodeEnd[at - 1]
            /\ CodeEnd[p - 1] \in Nat /\ CodeEnd[i - 1] \in Nat /\ CodeEnd[p] \in Nat /\ CodeEnd[i] \in Nat
            /\ CodeEnd[at - 1] \in Nat
        BY <4>2, CodeFacts
      <4>4. CodeEnd[at - 1] - CodeEnd[i - 1] < BranchRange \/ CodeEnd[at - 1] = CodeEnd[i]
        <5>1. CodeEnd[at - 1] - CodeEnd[p - 1] < BranchRange \/ CodeEnd[at - 1] = CodeEnd[p]
          BY <1>2
        <5> QED BY <5>1, <4>3, BranchRangeFacts
      <4> QED BY <3>2, <4>1, <4>4, <1>5, <1>6
    <3>3. CASE j = at /\ i = at
      BY <3>3, <1>5
    <3> QED BY <3>1, <3>2, <3>3, <1>3, <1>4
  <2>2. ASSUME NEW i \in owners', NEW j \in owners', i < j PROVE CodeEnd[j] - CodeEnd[i] >= BranchRange
    <3>1. i # at
      BY <2>2, <1>3, <1>5, <1>6
    <3>2. i \in owners
      BY <3>1, <1>3
    <3>3. CASE j \in owners
      BY <3>2, <3>3, <2>2 DEF DistancesInv, AssignInv
    <3>4. CASE j = at
      <4>1. CodeEnd[p] - CodeEnd[i] >= BranchRange
        BY <3>2, <1>2
      <4>2. /\ p \in 0 .. Len(program.sizes) /\ at \in 0 .. Len(program.sizes) /\ p <= at
            /\ i \in 0 .. Len(program.sizes)
        <5>1. /\ p \in 1 .. Len(program.sizes) /\ at \in 1 .. Len(program.sizes) /\ p < at
              /\ i \in 1 .. Len(program.sizes)
          BY <3>2, <1>0, <1>5, <1>6, <1>9
        <5> QED BY <5>1, <1>0
      <4>3. CodeEnd[p] <= CodeEnd[at] /\ CodeEnd[p] \in Nat /\ CodeEnd[at] \in Nat /\ CodeEnd[i] \in Nat
        BY <4>2, CodeFacts
      <4> QED BY <3>4, <4>1, <4>3, BranchRangeFacts
    <3> QED BY <3>3, <3>4, <1>3
  <2>3. BranchRange' = BranchRange
    BY DEF BranchRange
  <2> QED BY <2>1, <2>2, <2>3, <1>4, <1>8 DEF DistancesInv
<1> QED BY <1>10, <1>11, <1>12 DEF AssignInv

LEMMA EndAssignInv ==
  ASSUME RangesInv, StepsInv, AssignInv, EndAssign
  PROVE  AssignInv'
<1>1. /\ step = "assign" /\ step' = "symbols" /\ program' = program /\ at' = at
      /\ num_blocks' = num_blocks /\ at = Len(program.sizes) + 1
  BY CodeFacts DEF EndAssign, AssignInv, BlocksInv
<1>2. CodeEnd' = CodeEnd /\ Objects' = Objects /\ Assigned' = Assigned /\ BranchRange' = BranchRange
  BY <1>1, ProgramStays DEF Assigned, BranchRange
<1>3. ~Open' /\ Placed' = num_blocks /\ (\A i : BlockNow(i)' = block'[i]) /\ LastInv'
  BY <1>1 DEF Open, Placed, BlockNow, LastInv
<1>4. CASE pending = <<>>
  <2>1. block' = block /\ owners' = owners /\ ~Open /\ Placed = num_blocks /\ \A i : BlockNow(i) = block[i]
    BY <1>4 DEF EndAssign, Open, Placed, BlockNow
  <2>2. pending' = pending
    BY DEF EndAssign
  <2>3. BlocksInv'
    BY <1>1, <1>2, <1>3, <2>1, <2>2 DEF AssignInv, BlocksInv
  <2>4. DistancesInv'
    BY <1>2, <1>3, <2>1 DEF AssignInv, DistancesInv
  <2> QED BY <1>3, <2>3, <2>4 DEF AssignInv
<1>5. CASE pending # <<>>
  <2>1. PICK p \in Assigned :
           /\ pending = <<p>> /\ pending[1] = p /\ Start(p) = CodeEnd[p - 1]
           /\ Open /\ Placed = num_blocks - 1 /\ num_blocks \in Nat /\ num_blocks > 1
           /\ \A i \in owners : i < p /\ CodeEnd[p] - CodeEnd[i] >= BranchRange
           /\ \A i \in Assigned : i >= p <=> BlockNow(i) = num_blocks - 1
           /\ CodeEnd[at - 1] - CodeEnd[p - 1] < BranchRange \/ CodeEnd[at - 1] = CodeEnd[p]
           /\ \A i : BlockNow(i) = IF i = p THEN num_blocks - 1 ELSE block[i]
    BY <1>1, <1>5, OpenFacts
  <2>2. block' = [block EXCEPT ![p] = num_blocks - 1] /\ owners' = owners \cup {p}
    BY <1>5, <2>1 DEF EndAssign, NextId
  <2>3. /\ block \in [Objects -> Nat] /\ owners \subseteq Assigned
        /\ Assigned \subseteq Objects /\ \A i \in Assigned : i < at
        /\ \A i \in Assigned : BlockNow(i) < num_blocks
        /\ \A i, j \in Assigned : i < j => BlockNow(i) <= BlockNow(j)
        /\ Objects \subseteq Nat
    BY CodeFacts DEF AssignInv, BlocksInv, Assigned
  <2>4. num_blocks - 1 \in Nat /\ block' \in [Objects -> Nat] /\ block'[p] = num_blocks - 1
        /\ \A i \in Assigned : block'[i] = BlockNow(i) /\ BlockNow(i) \in Nat
    BY <2>1, <2>2, <2>3
  <2>5. ASSUME NEW i \in owners
        PROVE  i \in Assigned /\ i # p /\ block'[i] = block[i] /\ block[i] < num_blocks - 1 /\ block[i] \in Nat
    <3>1. i \in Assigned /\ i # p
      BY <2>1, <2>3
    <3>2. block[i] < Placed
      BY DEF AssignInv, BlocksInv
    <3> QED BY <3>1, <3>2, <2>1, <2>3, <2>4
  <2>6. BlocksInv'
    <3>1. \A i \in Assigned : block'[i] < num_blocks
      BY <2>3, <2>4
    <3>2. \A i, j \in Assigned : i < j => block'[i] <= block'[j]
      BY <2>3, <2>4
    <3>3. \A i \in owners' : block'[i] < num_blocks /\ (block'[i] = 0 => CodeEnd[i - 1] = program.non_primary)
      <4> SUFFICES ASSUME NEW i \in owners'
                   PROVE  block'[i] < num_blocks /\ (block'[i] = 0 => CodeEnd[i - 1] = program.non_primary)
        OBVIOUS
      <4>1. CASE i = p
        BY <4>1, <2>1, <2>4
      <4>2. CASE i \in owners
        BY <4>2, <2>1, <2>5 DEF BlocksInv, AssignInv
      <4> QED BY <4>1, <4>2, <2>2
    <3>4. ASSUME NEW b \in 0 .. num_blocks - 1 PROVE \E i \in owners' : block'[i] = b
      <4>1. CASE b = num_blocks - 1
        BY <4>1, <2>2, <2>4
      <4>2. CASE b # num_blocks - 1
        <5>1. b \in 0 .. Placed - 1
          BY <4>2, <2>1
        <5>2. PICK i \in owners : block[i] = b
          BY <5>1 DEF BlocksInv, AssignInv
        <5> QED BY <5>2, <2>2, <2>5
      <4> QED BY <4>1, <4>2
    <3>5. ASSUME NEW i \in owners', NEW j \in owners', block'[i] = block'[j] PROVE i = j
      <4>1. CASE i \in owners /\ j \in owners
        BY <4>1, <3>5, <2>5 DEF BlocksInv, AssignInv
      <4>2. CASE i = p /\ j \in owners
        BY <4>2, <3>5, <2>1, <2>4, <2>5
      <4>3. CASE i \in owners /\ j = p
        BY <4>3, <3>5, <2>1, <2>4, <2>5
      <4> QED BY <4>1, <4>2, <4>3, <2>2
    <3>6. owners' \subseteq Assigned' /\ at' \in 1 .. Len(program'.sizes) + 1
      BY <1>1, <1>2, <2>2, <2>3 DEF AssignInv, BlocksInv
    <3> QED BY <1>1, <1>2, <1>3, <2>1, <2>4, <3>1, <3>2, <3>3, <3>4, <3>5, <3>6 DEF BlocksInv
  <2>7. DistancesInv'
    <3>1. ASSUME NEW i \in Assigned, NEW j \in owners', block'[i] = block'[j]
          PROVE  /\ i < j => CodeEnd[j - 1] - CodeEnd[i - 1] < BranchRange \/ CodeEnd[j - 1] = CodeEnd[i]
                 /\ j < i => CodeEnd[i] - CodeEnd[j] < BranchRange
      <4>1. CASE j \in owners
        <5>1. BlockNow(i) = block[j]
          BY <4>1, <3>1, <2>4, <2>5
        <5> QED BY <4>1, <5>1 DEF DistancesInv, AssignInv
      <4>2. CASE j = p
        <5>1. i >= p /\ i < at
          BY <4>2, <3>1, <2>1, <2>3, <2>4
        <5>2. /\ p \in 0 .. Len(program.sizes) /\ i \in 0 .. Len(program.sizes)
              /\ at - 1 \in 0 .. Len(program.sizes) /\ p - 1 \in 0 .. Len(program.sizes)
              /\ i <= at - 1
          BY <5>1, <1>1, <2>3, CodeFacts
        <5>3. /\ CodeEnd[i] <= CodeEnd[at - 1] /\ CodeEnd[p - 1] <= CodeEnd[p]
              /\ CodeEnd[p - 1] \in Nat /\ CodeEnd[p] \in Nat /\ CodeEnd[i] \in Nat /\ CodeEnd[at - 1] \in Nat
          BY <5>2, <2>3, CodeFacts
        <5>4. CodeEnd[i] - CodeEnd[p] < BranchRange
          BY <5>3, <2>1, BranchRangeFacts
        <5> QED BY <4>2, <5>1, <5>4, <2>3
      <4> QED BY <4>1, <4>2, <2>2
    <3>2. ASSUME NEW i \in owners', NEW j \in owners', i < j PROVE CodeEnd[j] - CodeEnd[i] >= BranchRange
      <4>1. CASE i \in owners /\ j \in owners
        BY <4>1, <3>2 DEF DistancesInv, AssignInv
      <4>2. CASE i \in owners /\ j = p
        BY <4>2, <2>1
      <4>3. CASE i = p
        BY <4>3, <3>2, <2>1, <2>2, <2>3
      <4> QED BY <4>1, <4>2, <4>3, <2>2
    <3> QED BY <3>1, <3>2, <1>2, <1>3 DEF DistancesInv
  <2> QED BY <1>3, <2>6, <2>7 DEF AssignInv
<1> QED BY <1>4, <1>5

(* The other steps leave the blocks alone. *)
LEMMA OtherStepsInv ==
  ASSUME RangesInv, StepsInv, AssignInv, UNCHANGED <<program, at, assigned>>,
         (step' # "assign" /\ step # "assign") \/ step' = step \/ (step = "ranges" /\ step' = "assign")
  PROVE  AssignInv'
<1>1. CodeEnd' = CodeEnd /\ Objects' = Objects /\ Assigned' = Assigned /\ BranchRange' = BranchRange
  BY ProgramStays DEF Assigned, BranchRange
<1>2. /\ num_blocks' = num_blocks /\ owners' = owners /\ pending' = pending /\ block' = block
      /\ prev' = prev /\ prev_pos' = prev_pos /\ program' = program /\ at' = at
  BY DEF assigned
<1>3. step = "ranges" => pending = <<>> /\ num_blocks = 0
  BY DEF StepsInv
<1>4. Open' = Open
  BY <1>2, <1>3 DEF Open
<1>5. Placed' = Placed /\ \A i : BlockNow(i)' = BlockNow(i)
  BY <1>2, <1>4 DEF Placed, BlockNow
<1>6. BlocksInv'
  BY <1>1, <1>2, <1>5 DEF AssignInv, BlocksInv
<1>7. DistancesInv'
  BY <1>1, <1>2, <1>5 DEF AssignInv, DistancesInv
<1>8. LastInv'
  <2>1. CASE step' # "assign"
    BY <2>1 DEF LastInv
  <2>2. CASE step' = "assign" /\ step = "assign"
    BY <2>2, <1>1, <1>2, <1>4, <1>5 DEF AssignInv, LastInv
  <2>3. CASE step' = "assign" /\ step = "ranges"
    <3>1. num_blocks \in Nat /\ num_blocks' = 0 /\ ~Open'
      BY <2>3, <1>2, <1>3, <1>4 DEF AssignInv, BlocksInv, Open
    <3> QED BY <3>1 DEF LastInv
  <2> QED BY <2>1, <2>2, <2>3
<1> QED BY <1>6, <1>7, <1>8 DEF AssignInv

LEMMA AssignStep ==
  ASSUME RangesInv, StepsInv, AssignInv, [ThunksNext]_thunk_vars
  PROVE  AssignInv'
<1>1. CASE New \/ CollectRange \/ RangesCollected \/ CollectSymbols \/ WriteBranches
  <2>1. UNCHANGED <<program, at, assigned>>
    BY <1>1 DEF New, CollectRange, RangesCollected, CollectSymbols, WriteBranches
  <2>2. (step' # "assign" /\ step # "assign") \/ step' = step \/ (step = "ranges" /\ step' = "assign")
    BY <1>1 DEF New, CollectRange, RangesCollected, CollectSymbols, WriteBranches
  <2> QED BY <2>1, <2>2, OtherStepsInv
<1>2. CASE UNCHANGED thunk_vars
  <2>1. UNCHANGED <<program, at, assigned>> /\ step' = step
    BY <1>2 DEF thunk_vars, assigned
  <2> QED BY <2>1, OtherStepsInv
<1> QED
  BY <1>1, <1>2, SkipEmptyInv, AssignFirstInv, AssignPreviousInv, StartNextBlockInv, AssignNextInv,
     PlaceNextBlockInv, EndAssignInv DEF ThunksNext

-----------------------------------------------------------------------------
(* Symbols and addresses.                                                  *)

LEMMA SymbolsStep ==
  ASSUME StepsInv, SymbolsInv, [ThunksNext]_thunk_vars
  PROVE  SymbolsInv'
<1>1. CASE CollectSymbols
  <2>1. UNCHANGED <<program, ranges, num_blocks, block>>
    BY <1>1 DEF CollectSymbols, assigned
  <2>2. \A b : PrimaryPartRefs(b)' = PrimaryPartRefs(b) /\ NonPrimaryPartRefs(b)' = NonPrimaryPartRefs(b)
    BY <2>1 DEF PrimaryPartRefs, NonPrimaryPartRefs, ProvablyInRange, Start, End, BranchRange
  <2> QED BY <1>1, <2>1, <2>2 DEF SymbolsInv, CollectSymbols
<1>2. CASE WriteBranches \/ UNCHANGED thunk_vars
  <2>1. UNCHANGED <<program, ranges, num_blocks, block, symbols>>
    BY <1>2 DEF WriteBranches, thunk_vars, assigned
  <2>2. \A b : PrimaryPartRefs(b)' = PrimaryPartRefs(b) /\ NonPrimaryPartRefs(b)' = NonPrimaryPartRefs(b)
    BY <2>1 DEF PrimaryPartRefs, NonPrimaryPartRefs, ProvablyInRange, Start, End, BranchRange
  <2>3. Small' = Small /\ (step' \in {"write", "written", "failed"} => step \in {"write", "written", "failed"})
    BY <1>2, <2>1 DEF WriteBranches, thunk_vars, Small
  <2> QED BY <2>1, <2>2, <2>3 DEF SymbolsInv
<1>3. CASE New
  BY <1>3 DEF New, SymbolsInv, Small
<1>4. CASE \/ CollectRange \/ RangesCollected \/ SkipEmpty \/ AssignFirst \/ AssignPrevious
           \/ StartNextBlock \/ AssignNext \/ PlaceNextBlock \/ EndAssign
  <2>1. step' \notin {"write", "written", "failed"}
    BY <1>4 DEF CollectRange, RangesCollected, SkipEmpty, AssignFirst, AssignPrevious, StartNextBlock,
       AssignNext, PlaceNextBlock, EndAssign, NextObject, AtCode, AtObject
  <2> QED BY <2>1 DEF SymbolsInv
<1> QED
  BY <1>1, <1>2, <1>3, <1>4 DEF ThunksNext

(* The ends of the objects with their thunks. *)
LEMMA EndAddressFacts ==
  ASSUME program \in Programs, \A i \in Objects : ThunkBytes(i) \in Nat
  PROVE  /\ EndAddress \in [0 .. Len(program.sizes) -> Nat] /\ EndAddress[0] = program.non_primary
         /\ \A i \in Objects : /\ EndAddress[i] \in Nat /\ EndAddress[i - 1] \in Nat
                               /\ EndAddress[i] = EndAddress[i - 1] + (program.sizes[i] + ThunkBytes(i))
<1> DEFINE N == Len(program.sizes)
           inc == [i \in 1 .. N |-> program.sizes[i] + ThunkBytes(i)]
<1>1. N \in Nat /\ program.non_primary \in Nat /\ inc \in [1 .. N -> Nat] /\ Objects = 1 .. N
  BY ProgramFacts
<1>2. EndAddress = CHOOSE f : f = [i \in 0 .. N |-> IF i = 0 THEN program.non_primary
                                                    ELSE f[i - 1] + (program.sizes[i] + ThunkBytes(i))]
  BY DEF EndAddress
<1>3. \A f : IsSum(f, N, program.non_primary, inc) <=>
        f = [i \in 0 .. N |-> IF i = 0 THEN program.non_primary
                              ELSE f[i - 1] + (program.sizes[i] + ThunkBytes(i))]
  <2>1. \A f : [i \in 0 .. N |-> IF i = 0 THEN program.non_primary ELSE f[i - 1] + inc[i]]
             = [i \in 0 .. N |-> IF i = 0 THEN program.non_primary
                                 ELSE f[i - 1] + (program.sizes[i] + ThunkBytes(i))]
    BY <1>1
  <2> QED BY <1>1, <2>1 DEF IsSum
<1>4. \E f : IsSum(f, N, program.non_primary, inc)
  BY <1>1, SumExists
<1> HIDE DEF inc, N
<1>5. PICK g : g = EndAddress
  OBVIOUS
<1>6. IsSum(g, N, program.non_primary, inc)
  BY <1>2, <1>3, <1>4, <1>5
<1>7. /\ g \in [0 .. N -> Nat] /\ g[0] = program.non_primary
      /\ \A i \in 1 .. N : g[i] = g[i - 1] + inc[i]
  BY <1>6, SumFacts
<1>8. ASSUME NEW i \in 1 .. N PROVE g[i] \in Nat /\ g[i - 1] \in Nat
  <2>1. i \in 0 .. N /\ i - 1 \in 0 .. N
    BY <1>1
  <2> QED BY <1>7, <2>1
<1> QED BY <1>1, <1>5, <1>7, <1>8 DEF inc, N

(* Two sums whose increments agree grow by the same amount. *)
LEMMA SameGrowth ==
  ASSUME NEW N \in Nat, NEW e \in [0 .. N -> Nat], NEW a \in [0 .. N -> Nat],
         NEW lo \in 0 .. N, NEW hi \in 0 .. N, lo <= hi,
         \A i \in 1 .. N : lo < i /\ i <= hi => a[i] - a[i - 1] = e[i] - e[i - 1]
  PROVE  a[hi] - a[lo] = e[hi] - e[lo]
<1> DEFINE P == {k \in Nat : lo + k <= hi => a[lo + k] - a[lo] = e[lo + k] - e[lo]}
<1>1. 0 \in P
  <2>1. lo + 0 = lo /\ a[lo] \in Nat /\ e[lo] \in Nat
    OBVIOUS
  <2> QED BY <2>1
<1>2. ASSUME NEW k \in P PROVE k + 1 \in P
  <2> SUFFICES ASSUME lo + (k + 1) <= hi PROVE a[lo + (k + 1)] - a[lo] = e[lo + (k + 1)] - e[lo]
    OBVIOUS
  <2> DEFINE m == lo + k
             n == lo + (k + 1)
  <2>1. m \in 0 .. N /\ n \in 0 .. N /\ n \in 1 .. N /\ n - 1 = m /\ lo < n /\ n <= hi /\ m <= hi /\ k \in Nat
    OBVIOUS
  <2>2. a[m] - a[lo] = e[m] - e[lo]
    BY <2>1
  <2>3. a[n] - a[m] = e[n] - e[m]
    BY <2>1
  <2>4. a[m] \in Nat /\ a[n] \in Nat /\ e[m] \in Nat /\ e[n] \in Nat /\ a[lo] \in Nat /\ e[lo] \in Nat
    BY <2>1
  <2>5. a[n] - a[lo] = e[n] - e[lo]
    <3> HIDE DEF m, n, P
    <3>1. PICK am \in Nat, an \in Nat, al \in Nat : am = a[m] /\ an = a[n] /\ al = a[lo]
      BY <2>4
    <3>2. PICK em \in Nat, en \in Nat, el \in Nat : em = e[m] /\ en = e[n] /\ el = e[lo]
      BY <2>4
    <3>3. am - al = em - el /\ an - am = en - em
      BY <2>2, <2>3, <3>1, <3>2
    <3>4. an - al = en - el
      BY <3>3
    <3> QED BY <3>1, <3>2, <3>4
  <2> QED BY <2>5
<1>3. P \in SUBSET Nat
  OBVIOUS
<1> HIDE DEF P
<1>4. P = Nat
  BY <1>1, <1>2, <1>3, NatInductionSet
<1>5. hi - lo \in P /\ lo + (hi - lo) = hi
  BY <1>4
<1> QED BY <1>5 DEF P

(* The writer is about to look at the branches of a program that fits. *)
Writing == RangesInv /\ StepsInv /\ AssignInv /\ SymbolsInv /\ step = "write" /\ Fits

(* When there are blocks, their symbols are among those that are called. *)
LEMMA SymbolFacts ==
  ASSUME Writing, owners # {}
  PROVE  /\ ~Small /\ num_blocks > 0 /\ DOMAIN symbols = 0 .. num_blocks - 1
         /\ \A i \in Assigned : block[i] \in DOMAIN symbols
         /\ \A b \in DOMAIN symbols : /\ symbols[b] = PrimaryPartRefs(b) \cup NonPrimaryPartRefs(b)
                                      /\ Cardinality(symbols[b]) \in Nat
                                      /\ \A d \in symbols[b] : Cardinality(symbols[b]) > 0
<1>1. ~Small
  BY DEF Writing, StepsInv
<1>2. num_blocks \in Nat /\ num_blocks > 0 /\ ~Open /\ Placed = num_blocks /\ \A i : BlockNow(i) = block[i]
  BY DEF Writing, AssignInv, BlocksInv, Open, Placed, BlockNow
<1>3. Max({num_blocks, 1}) = num_blocks
  BY <1>2 DEF Max
<1>4. symbols = [b \in 0 .. num_blocks - 1 |-> PrimaryPartRefs(b) \cup NonPrimaryPartRefs(b)]
  BY <1>1, <1>3 DEF Writing, SymbolsInv
<1>5. ASSUME NEW i \in Assigned PROVE block[i] \in 0 .. num_blocks - 1
  BY <1>2 DEF Writing, AssignInv, BlocksInv, Assigned
<1>6. ASSUME NEW b \in 0 .. num_blocks - 1
      PROVE  /\ symbols[b] = PrimaryPartRefs(b) \cup NonPrimaryPartRefs(b)
             /\ Cardinality(symbols[b]) \in Nat
             /\ \A d \in symbols[b] : Cardinality(symbols[b]) > 0
  <2>1. symbols[b] = PrimaryPartRefs(b) \cup NonPrimaryPartRefs(b)
    BY <1>4
  <2>2. symbols[b] \subseteq program.called /\ IsFiniteSet(program.called)
    BY <2>1 DEF PrimaryPartRefs, NonPrimaryPartRefs, Writing, Fits
  <2>3. IsFiniteSet(symbols[b])
    BY <2>2, FS_Subset
  <2>4. Cardinality(symbols[b]) \in Nat /\ (Cardinality(symbols[b]) = 0 <=> symbols[b] = {})
    <3> DEFINE S == symbols[b]
    <3>1. IsFiniteSet(S)
      BY <2>3
    <3> HIDE DEF S
    <3>2. Cardinality(S) \in Nat
      BY <3>1, FS_CardinalityType
    <3>3. Cardinality(S) = 0 <=> S = {}
      BY <3>1, FS_EmptySet
    <3> QED BY <3>2, <3>3 DEF S
  <2>5. ASSUME NEW d \in symbols[b] PROVE Cardinality(symbols[b]) > 0
    <3>1. symbols[b] # {}
      BY <2>5
    <3> QED BY <2>4, <3>1
  <2> QED BY <2>1, <2>4, <2>5
<1> QED BY <1>1, <1>2, <1>4, <1>5, <1>6

(* An object with its block of thunks is within the reserve. *)
LEMMA ThunkBytesFacts ==
  ASSUME Writing
  PROVE  /\ \A i \in Objects : ThunkBytes(i) \in Nat /\ (i \notin owners => ThunkBytes(i) = 0)
         /\ \A j \in owners : /\ j \in Objects /\ program.sizes[j] > 0
                              /\ ThunkBytes(j) = Cardinality(symbols[block[j]]) * ThunkSize
                              /\ program.sizes[j] + ThunkBytes(j) <= MaxThunkBytes
                              /\ ThunkBytes(j) <= MaxThunkBytes
<1>1. \A i \in Objects : i \notin owners => ThunkBytes(i) = 0
  BY DEF ThunkBytes
<1>2. ASSUME NEW j \in owners
      PROVE  /\ j \in Objects /\ program.sizes[j] > 0 /\ ThunkBytes(j) \in Nat
             /\ ThunkBytes(j) = Cardinality(symbols[block[j]]) * ThunkSize
             /\ program.sizes[j] + ThunkBytes(j) <= MaxThunkBytes
             /\ ThunkBytes(j) <= MaxThunkBytes
  <2>1. j \in Assigned
    BY DEF Writing, AssignInv, BlocksInv
  <2>2. j \in Objects /\ program.sizes[j] > 0
    BY <2>1 DEF Assigned
  <2>3. Cardinality(symbols[block[j]]) \in Nat
    BY <2>1, SymbolFacts
  <2>4. ThunkBytes(j) = Cardinality(symbols[block[j]]) * ThunkSize
    BY DEF ThunkBytes
  <2>5. ThunkBytes(j) \in Nat
    BY <2>3, <2>4, BranchRangeFacts
  <2>6. program.sizes[j] + ThunkBytes(j) <= MaxThunkBytes
    BY <2>4 DEF Writing, Fits
  <2>7. program.sizes[j] \in Nat
    BY <2>2, CodeFacts DEF Writing
  <2> QED BY <2>2, <2>4, <2>5, <2>6, <2>7, BranchRangeFacts
<1> QED BY <1>1, <1>2

(* Addresses and what thunks add to the distances between them. *)
LEMMA AddressFacts ==
  ASSUME Writing
  PROVE  /\ EndAddress[0] = program.non_primary
         /\ \A i \in 0 .. Len(program.sizes) : EndAddress[i] \in Nat
         /\ \A i \in Objects : /\ EndAddress[i] \in Nat /\ EndAddress[i - 1] \in Nat
                               /\ EndAddress[i] = EndAddress[i - 1] + (program.sizes[i] + ThunkBytes(i))
         /\ \A i, j \in 0 .. Len(program.sizes) : i <= j => EndAddress[i] <= EndAddress[j]
<1>1. program \in Programs
  BY DEF Writing, RangesInv
<1>2. \A i \in Objects : ThunkBytes(i) \in Nat
  BY ThunkBytesFacts
<1>3. /\ EndAddress \in [0 .. Len(program.sizes) -> Nat] /\ EndAddress[0] = program.non_primary
      /\ \A i \in Objects : /\ EndAddress[i] \in Nat /\ EndAddress[i - 1] \in Nat
                            /\ EndAddress[i] = EndAddress[i - 1] + (program.sizes[i] + ThunkBytes(i))
  BY <1>1, <1>2, EndAddressFacts
<1>4. Len(program.sizes) \in Nat /\ Objects = 1 .. Len(program.sizes) /\ \A i \in Objects : program.sizes[i] \in Nat
  BY CodeFacts DEF Writing
<1>5. \A i \in 1 .. Len(program.sizes) : EndAddress[i - 1] <= EndAddress[i]
  BY <1>2, <1>3, <1>4, SMTT(30)
<1>6. \A i, j \in 0 .. Len(program.sizes) : i <= j => EndAddress[i] <= EndAddress[j]
  BY <1>3, <1>4, <1>5, Monotone
<1> QED BY <1>3, <1>6

(* Without a block between them, objects are as far apart as their code. *)
LEMMA NoBlockBetween ==
  ASSUME Writing, NEW lo \in 0 .. Len(program.sizes), NEW hi \in 0 .. Len(program.sizes), lo <= hi,
         \A k \in owners : ~(lo < k /\ k <= hi)
  PROVE  EndAddress[hi] - EndAddress[lo] = CodeEnd[hi] - CodeEnd[lo]
<1>1. program \in Programs /\ \A i \in Objects : ThunkBytes(i) \in Nat
  BY ThunkBytesFacts DEF Writing, RangesInv
<1>2. EndAddress \in [0 .. Len(program.sizes) -> Nat] /\ CodeEnd \in [0 .. Len(program.sizes) -> Nat]
      /\ Len(program.sizes) \in Nat /\ Objects = 1 .. Len(program.sizes)
  BY <1>1, EndAddressFacts, CodeEndFacts, ProgramFacts
<1>3. ASSUME NEW i \in 1 .. Len(program.sizes), lo < i, i <= hi
      PROVE  EndAddress[i] - EndAddress[i - 1] = CodeEnd[i] - CodeEnd[i - 1]
  <2>1. i \in Objects /\ ThunkBytes(i) = 0
    BY <1>2, <1>3, ThunkBytesFacts
  <2>2. /\ EndAddress[i] \in Nat /\ EndAddress[i - 1] \in Nat
        /\ EndAddress[i] = EndAddress[i - 1] + (program.sizes[i] + ThunkBytes(i))
    BY <2>1, AddressFacts
  <2>3. /\ CodeEnd[i] \in Nat /\ CodeEnd[i - 1] \in Nat /\ program.sizes[i] \in Nat
        /\ CodeEnd[i] = CodeEnd[i - 1] + program.sizes[i]
    BY <2>1, CodeFacts DEF Writing
  <2> QED BY <2>1, <2>2, <2>3, SMTT(30)
<1> HIDE DEF EndAddress, CodeEnd
<1> QED BY <1>2, <1>3, SameGrowth

(* Code that is within the estimated range has one block of thunks in      *)
(* between at most, so that it is spread by the reserve at most.           *)
LEMMA Stretch ==
  ASSUME Writing, NEW lo \in 0 .. Len(program.sizes), NEW hi \in 0 .. Len(program.sizes), lo <= hi,
         CodeEnd[hi] - CodeEnd[lo] < BranchRange
  PROVE  EndAddress[hi] - EndAddress[lo] <= CodeEnd[hi] - CodeEnd[lo] + MaxThunkBytes
<1>1. /\ Len(program.sizes) \in Nat /\ Objects = 1 .. Len(program.sizes)
      /\ CodeEnd[lo] \in Nat /\ CodeEnd[hi] \in Nat /\ EndAddress[lo] \in Nat /\ EndAddress[hi] \in Nat
  BY CodeFacts, AddressFacts DEF Writing
<1>2. CASE \A k \in owners : ~(lo < k /\ k <= hi)
  <2>1. EndAddress[hi] - EndAddress[lo] = CodeEnd[hi] - CodeEnd[lo]
    BY <1>2, NoBlockBetween
  <2>2. PICK x \in Int : x = CodeEnd[hi] - CodeEnd[lo]
    BY <1>1
  <2>3. x <= x + MaxThunkBytes
    BY BranchRangeFacts
  <2> QED BY <2>1, <2>2, <2>3
<1>3. CASE \E k \in owners : lo < k /\ k <= hi
  <2>1. PICK k \in owners : lo < k /\ k <= hi
    BY <1>3
  <2>2. k \in Objects /\ k \in Nat /\ k \in 0 .. Len(program.sizes) /\ k - 1 \in 0 .. Len(program.sizes)
    BY <1>1, ThunkBytesFacts
  <2>3. ASSUME NEW l \in owners, lo < l, l <= hi PROVE l = k
    <3>1. l \in Objects /\ l \in Nat /\ l \in 0 .. Len(program.sizes)
      BY <1>1, ThunkBytesFacts
    <3>2. /\ CodeEnd[l] \in Nat /\ CodeEnd[k] \in Nat
          /\ CodeEnd[lo] <= CodeEnd[l] /\ CodeEnd[l] <= CodeEnd[hi]
          /\ CodeEnd[lo] <= CodeEnd[k] /\ CodeEnd[k] <= CodeEnd[hi]
      BY <2>1, <2>2, <2>3, <3>1, CodeFacts DEF Writing
    <3>3. ~(k < l)
      <4>1. k < l => CodeEnd[l] - CodeEnd[k] >= BranchRange
        BY DEF Writing, AssignInv, DistancesInv
      <4> QED BY <4>1, <3>2, <1>1, BranchRangeFacts
    <3>4. ~(l < k)
      <4>1. l < k => CodeEnd[k] - CodeEnd[l] >= BranchRange
        BY DEF Writing, AssignInv, DistancesInv
      <4> QED BY <4>1, <3>2, <1>1, BranchRangeFacts
    <3> QED BY <3>1, <3>3, <3>4, <2>2
  <2>4. EndAddress[k - 1] - EndAddress[lo] = CodeEnd[k - 1] - CodeEnd[lo]
    <3>1. lo <= k - 1
      BY <2>1, <2>2
    <3>2. \A l \in owners : ~(lo < l /\ l <= k - 1)
      <4> SUFFICES ASSUME NEW l \in owners, lo < l, l <= k - 1 PROVE FALSE
        OBVIOUS
      <4>1. l \in Nat /\ l <= hi
        BY <2>1, <2>2, <1>1, ThunkBytesFacts
      <4>2. l = k
        BY <4>1, <2>3
      <4> QED BY <4>2, <2>2
    <3> QED BY <3>1, <3>2, <2>2, NoBlockBetween
  <2>5. EndAddress[hi] - EndAddress[k] = CodeEnd[hi] - CodeEnd[k]
    <3>1. \A l \in owners : ~(k < l /\ l <= hi)
      <4> SUFFICES ASSUME NEW l \in owners, k < l, l <= hi PROVE FALSE
        OBVIOUS
      <4>1. l \in Nat /\ lo < l
        <5>1. l \in Objects
          BY ThunkBytesFacts
        <5>2. l \in Nat
          BY <5>1, <1>1
        <5> QED BY <5>2, <2>1, <2>2
      <4>2. l = k
        BY <4>1, <2>3
      <4> QED BY <4>2, <2>2
    <3> QED BY <3>1, <2>1, <2>2, NoBlockBetween
  <2>6. /\ EndAddress[k] \in Nat /\ EndAddress[k - 1] \in Nat
        /\ EndAddress[k] = EndAddress[k - 1] + (program.sizes[k] + ThunkBytes(k))
        /\ CodeEnd[k] \in Nat /\ CodeEnd[k - 1] \in Nat /\ program.sizes[k] \in Nat
        /\ CodeEnd[k] = CodeEnd[k - 1] + program.sizes[k]
        /\ ThunkBytes(k) \in Nat /\ ThunkBytes(k) <= MaxThunkBytes
    BY <2>2, AddressFacts, CodeFacts, ThunkBytesFacts DEF Writing
  <2>7. PICK a \in Nat, al \in Nat, ah \in Nat, ak \in Nat :
           a = EndAddress[k] /\ al = EndAddress[lo] /\ ah = EndAddress[hi] /\ ak = EndAddress[k - 1]
    BY <2>6, <1>1
  <2>8. PICK e \in Nat, el \in Nat, eh \in Nat, ek \in Nat :
           e = CodeEnd[k] /\ el = CodeEnd[lo] /\ eh = CodeEnd[hi] /\ ek = CodeEnd[k - 1]
    BY <2>6, <1>1
  <2>9. PICK s \in Nat, t \in Nat : s = program.sizes[k] /\ t = ThunkBytes(k)
    BY <2>6
  <2>10. ak - al = ek - el /\ ah - a = eh - e /\ a = ak + (s + t) /\ e = ek + s /\ t <= MaxThunkBytes
    BY <2>4, <2>5, <2>6, <2>7, <2>8, <2>9
  <2>11. ah - al <= (eh - el) + MaxThunkBytes
    BY <2>10, BranchRangeFacts
  <2> QED BY <2>7, <2>8, <2>11
<1> QED BY <1>2, <1>3

(* Where code is. *)
LEMMA PlaceFacts ==
  ASSUME Writing, NEW i \in Objects, program.sizes[i] > 0, NEW x \in Places(i)
  PROVE  /\ x \in Nat /\ EndAddress[i - 1] \in Nat /\ program.sizes[i] \in Nat
         /\ EndAddress[i - 1] <= x /\ x < EndAddress[i - 1] + program.sizes[i]
<1>1. i # Elsewhere
  BY CodeFacts DEF Writing, Elsewhere
<1>2. x = EndAddress[i - 1] \/ x = EndAddress[i - 1] + program.sizes[i] - 1
  BY <1>1 DEF Places, Address
<1>3. EndAddress[i - 1] \in Nat /\ program.sizes[i] \in Nat
  BY CodeFacts, AddressFacts DEF Writing
<1> QED BY <1>2, <1>3

LEMMA ElsewhereFacts ==
  ASSUME Writing, NEW x \in Places(Elsewhere)
  PROVE  x \in Nat /\ x < program.non_primary /\ program.non_primary + MaxThunkBytes <= MinBranchRange
<1>1. program.non_primary \in Nat
  BY CodeFacts DEF Writing
<1>2. program.non_primary # 0 /\ x \in {0, program.non_primary - 1}
  BY DEF Places
<1>3. program.non_primary + MaxThunkBytes <= MinBranchRange
  BY DEF Writing, Fits
<1> QED BY <1>1, <1>2, <1>3

(* Where thunks are. *)
LEMMA ThunkFacts ==
  ASSUME Writing, NEW j \in owners, NEW d \in symbols[block[j]], NEW t \in ThunkAddresses(block[j])
  PROVE  /\ t \in Nat /\ EndAddress[j - 1] + program.sizes[j] <= t
         /\ t < EndAddress[j - 1] + program.sizes[j] + ThunkBytes(j)
<1> DEFINE b == block[j]
           c == Cardinality(symbols[b])
           base == EndAddress[j - 1] + program.sizes[j]
<1>1. j \in Assigned /\ j \in Objects
  BY DEF Writing, AssignInv, BlocksInv, Assigned
<1>2. c \in Nat /\ c > 0 /\ b \in DOMAIN symbols
  BY <1>1, SymbolFacts
<1>3. BlockAddress(b) = base
  <2>1. \A k \in owners : block[k] = b => k = j
    BY DEF Writing, AssignInv, BlocksInv
  <2>2. (CHOOSE k \in owners : block[k] = b) = j
    BY <2>1
  <2> QED BY <2>2 DEF BlockAddress, Address
<1>4. base \in Nat /\ ThunkBytes(j) = c * ThunkSize /\ ThunkSize \in Nat \ {0}
  <2>1. EndAddress[j - 1] \in Nat
    BY <1>1, AddressFacts
  <2>2. program.sizes[j] \in Nat
    BY <1>1, CodeFacts DEF Writing
  <2>3. ThunkBytes(j) = c * ThunkSize
    BY ThunkBytesFacts
  <2> QED BY <2>1, <2>2, <2>3, BranchRangeFacts
<1>5. t = base \/ t = base + (c - 1) * ThunkSize
  BY <1>3 DEF ThunkAddresses
<1> HIDE DEF c, b, base
<1>6. (c - 1) * ThunkSize \in Nat /\ c * ThunkSize = (c - 1) * ThunkSize + ThunkSize
  BY <1>2, <1>4
<1>7. t \in Nat /\ base <= t /\ t < base + ThunkBytes(j)
  BY <1>4, <1>5, <1>6
<1> QED BY <1>7 DEF base

-----------------------------------------------------------------------------
(* Branches.                                                               *)

LEMMA InRangeIf ==
  ASSUME NEW from \in Nat, NEW to \in Nat, to < from + MinBranchRange, from <= to + MinBranchRange
  PROVE  InRange(from, to)
  BY BranchRangeFacts DEF InRange

(* Objects with code that are called or have branches have been assigned. *)
LEMMA AssignedFacts ==
  ASSUME Writing, ~Small, NEW i \in Objects, program.sizes[i] > 0
  PROVE  /\ i \in Assigned /\ owners # {}
         /\ \A k \in Objects : BlockNow(k) = block[k]
         /\ \E j \in owners : block[j] = block[i]
<1>1. /\ Len(program.sizes) \in Nat /\ Objects = 1 .. Len(program.sizes)
      /\ at = Len(program.sizes) + 1
  BY CodeFacts DEF Writing, StepsInv
<1>2. i \in Assigned
  BY <1>1 DEF Assigned
<1>3. ~Open /\ Placed = num_blocks /\ \A k : BlockNow(k) = block[k]
  BY DEF Writing, Open, Placed, BlockNow
<1>4. block[i] \in 0 .. Placed - 1
  BY <1>2, <1>3 DEF Writing, AssignInv, BlocksInv, Assigned
<1>5. PICK j \in owners : block[j] = block[i]
  BY <1>4 DEF Writing, AssignInv, BlocksInv
<1> QED BY <1>2, <1>3, <1>5

(* An object reaches the thunks of its block. *)
LEMMA ReachesThunk ==
  ASSUME Writing, ~Small, NEW i \in Objects, program.sizes[i] > 0, NEW d \in symbols[block[i]],
         NEW from \in Places(i), NEW t \in ThunkAddresses(block[i])
  PROVE  InRange(from, t)
<1>1. i \in Assigned /\ \A k \in Objects : BlockNow(k) = block[k]
  BY AssignedFacts
<1>2. PICK j \in owners : block[j] = block[i]
  BY AssignedFacts
<1>3. j \in Assigned /\ Assigned \subseteq Objects /\ owners \subseteq Assigned
  BY DEF Writing, AssignInv, BlocksInv, Assigned
<1>4. /\ Len(program.sizes) \in Nat /\ Objects = 1 .. Len(program.sizes)
      /\ i \in 0 .. Len(program.sizes) /\ i - 1 \in 0 .. Len(program.sizes)
      /\ j \in 0 .. Len(program.sizes) /\ j - 1 \in 0 .. Len(program.sizes) /\ i \in Nat /\ j \in Nat
  BY <1>3, CodeFacts DEF Writing
<1>5. ASSUME NEW k \in owners, (i <= k /\ k <= j) \/ (j <= k /\ k <= i) PROVE k = j
  <2>1. k \in Assigned /\ k \in Objects /\ k \in Nat
    BY <1>3, <1>4
  <2>2. block[i] \in Nat /\ block[j] \in Nat /\ block[k] \in Nat
    BY <1>3, <2>1 DEF Writing, AssignInv, BlocksInv
  <2>3. \A l, m \in Assigned : l <= m => block[l] <= block[m]
    <3> SUFFICES ASSUME NEW l \in Assigned, NEW m \in Assigned, l <= m PROVE block[l] <= block[m]
      OBVIOUS
    <3>1. l \in Objects /\ m \in Objects /\ l \in Nat /\ m \in Nat /\ block[l] \in Nat
      BY <1>3, <1>4 DEF Writing, AssignInv, BlocksInv
    <3>2. CASE l = m
      BY <3>1, <3>2
    <3>3. CASE l < m
      <4>1. BlockNow(l) <= BlockNow(m)
        BY <3>3 DEF Writing, AssignInv, BlocksInv
      <4> QED BY <4>1, <3>1, <1>1
    <3> QED BY <3>1, <3>2, <3>3
  <2>4. block[k] = block[j]
    BY <2>1, <2>2, <2>3, <1>1, <1>2, <1>3, <1>5
  <2> QED BY <2>4 DEF Writing, AssignInv, BlocksInv
<1>6. /\ from \in Nat /\ EndAddress[i - 1] <= from /\ from < EndAddress[i - 1] + program.sizes[i]
      /\ program.sizes[i] \in Nat /\ EndAddress[i - 1] \in Nat
  BY PlaceFacts
<1>7. t \in Nat /\ EndAddress[j - 1] + program.sizes[j] <= t
      /\ t < EndAddress[j - 1] + program.sizes[j] + ThunkBytes(j)
  BY <1>2, ThunkFacts
<1>8. /\ program.sizes[j] + ThunkBytes(j) <= MaxThunkBytes /\ ThunkBytes(j) <= MaxThunkBytes
      /\ program.sizes[j] \in Nat /\ ThunkBytes(j) \in Nat
      /\ EndAddress[j - 1] \in Nat /\ EndAddress[j] \in Nat
      /\ EndAddress[j] = EndAddress[j - 1] + (program.sizes[j] + ThunkBytes(j))
      /\ CodeEnd[j] \in Nat /\ CodeEnd[j - 1] \in Nat
  BY <1>3, ThunkBytesFacts, CodeFacts, AddressFacts DEF Writing
<1>9. /\ CodeEnd[i] \in Nat /\ CodeEnd[i - 1] \in Nat /\ CodeEnd[i] = CodeEnd[i - 1] + program.sizes[i]
      /\ program.sizes[i] <= BranchRange
  BY CodeFacts DEF Writing, Fits
<1>10. CASE i = j
  <2>1. PICK a \in Nat, s \in Nat, b \in Nat : a = EndAddress[i - 1] /\ s = program.sizes[i] /\ b = ThunkBytes(i)
    BY <1>6, <1>8, <1>10
  <2>2. a <= from /\ from < a + s /\ a + s <= t /\ t < a + s + b /\ s + b <= MaxThunkBytes
    BY <2>1, <1>6, <1>7, <1>8, <1>10
  <2>3. t < from + MinBranchRange /\ from <= t + MinBranchRange
    BY <2>2, <1>6, <1>7, BranchRangeFacts
  <2> QED BY <2>3, <1>6, <1>7, InRangeIf
<1>11. CASE i < j
  <2>1. \A k \in owners : ~(i - 1 < k /\ k <= j - 1)
    <3> SUFFICES ASSUME NEW k \in owners, i - 1 < k, k <= j - 1 PROVE FALSE
      OBVIOUS
    <3>1. k \in Nat /\ i <= k /\ k <= j
      BY <1>3, <1>4
    <3>2. k = j
      BY <3>1, <1>5
    <3> QED BY <3>2, <1>4
  <2>2. i - 1 <= j - 1
    BY <1>4, <1>11
  <2>3. EndAddress[j - 1] - EndAddress[i - 1] = CodeEnd[j - 1] - CodeEnd[i - 1]
    BY <2>1, <2>2, <1>4, NoBlockBetween
  <2>4. CodeEnd[j - 1] - CodeEnd[i - 1] < BranchRange \/ CodeEnd[j - 1] = CodeEnd[i]
    BY <1>1, <1>2, <1>11 DEF Writing, AssignInv, DistancesInv
  <2>5. CodeEnd[i - 1] <= CodeEnd[j - 1]
    BY <2>2, <1>4, CodeFacts DEF Writing
  <2>6. PICK a \in Nat, s \in Nat, aj \in Nat, sj \in Nat, b \in Nat :
           /\ a = EndAddress[i - 1] /\ s = program.sizes[i] /\ b = ThunkBytes(j)
           /\ aj = EndAddress[j - 1] /\ sj = program.sizes[j]
    BY <1>6, <1>8
  <2>7. PICK e \in Nat, ei \in Nat, ej \in Nat : e = CodeEnd[i - 1] /\ ei = CodeEnd[i] /\ ej = CodeEnd[j - 1]
    BY <1>8, <1>9
  <2>8. /\ a <= from /\ from < a + s /\ aj + sj <= t /\ t < aj + sj + b /\ sj + b <= MaxThunkBytes
        /\ aj - a = ej - e /\ ei = e + s /\ s <= BranchRange /\ (ej - e < BranchRange \/ ej = ei)
    BY <2>3, <2>4, <2>6, <2>7, <1>6, <1>7, <1>8, <1>9
  <2>9. i \in 0 .. Len(program.sizes) /\ i <= j - 1 /\ EndAddress[i] <= EndAddress[j - 1]
    BY <1>4, <1>11, AddressFacts
  <2>10. a + s <= aj
    <3>1. EndAddress[i] = EndAddress[i - 1] + (program.sizes[i] + ThunkBytes(i)) /\ ThunkBytes(i) \in Nat
      BY AddressFacts, ThunkBytesFacts
    <3>2. PICK bi \in Nat : bi = ThunkBytes(i)
      BY <3>1
    <3>3. EndAddress[i] = a + (s + bi) /\ a + (s + bi) <= aj
      BY <3>1, <3>2, <2>6, <2>9
    <3> QED BY <3>3
  <2>11. t < from + MinBranchRange /\ from <= t + MinBranchRange
    <3>1. aj - a <= BranchRange
      BY <2>8, BranchRangeFacts
    <3> QED BY <3>1, <2>8, <2>10, <1>6, <1>7, BranchRangeFacts
  <2> QED BY <2>11, <1>6, <1>7, InRangeIf
<1>12. CASE j < i
  <2>1. \A k \in owners : ~(j < k /\ k <= i - 1)
    <3> SUFFICES ASSUME NEW k \in owners, j < k, k <= i - 1 PROVE FALSE
      OBVIOUS
    <3>1. k \in Nat /\ j <= k /\ k <= i
      BY <1>3, <1>4
    <3>2. k = j
      BY <3>1, <1>5
    <3> QED BY <3>2, <1>4
  <2>2. j <= i - 1
    BY <1>4, <1>12
  <2>3. EndAddress[i - 1] - EndAddress[j] = CodeEnd[i - 1] - CodeEnd[j]
    BY <2>1, <2>2, <1>4, NoBlockBetween
  <2>4. CodeEnd[i] - CodeEnd[j] < BranchRange
    BY <1>1, <1>2, <1>12 DEF Writing, AssignInv, DistancesInv
  <2>5. EndAddress[j] <= EndAddress[i - 1]
    BY <2>2, <1>4, AddressFacts
  <2>6. PICK a \in Nat, s \in Nat, aj \in Nat, sj \in Nat, b \in Nat, ak \in Nat :
           /\ a = EndAddress[i - 1] /\ s = program.sizes[i] /\ b = ThunkBytes(j)
           /\ aj = EndAddress[j - 1] /\ sj = program.sizes[j] /\ ak = EndAddress[j]
    BY <1>6, <1>8
  <2>7. PICK e \in Nat, ei \in Nat, ej \in Nat : e = CodeEnd[i - 1] /\ ei = CodeEnd[i] /\ ej = CodeEnd[j]
    BY <1>8, <1>9
  <2>8. /\ a <= from /\ from < a + s /\ aj + sj <= t /\ t < aj + sj + b /\ b <= MaxThunkBytes
        /\ ak = aj + (sj + b) /\ a - ak = e - ej /\ ei = e + s /\ ei - ej < BranchRange /\ ak <= a
    BY <2>3, <2>4, <2>5, <2>6, <2>7, <1>6, <1>7, <1>8, <1>9
  <2>9. t < from + MinBranchRange /\ from <= t + MinBranchRange
    BY <2>8, <1>6, <1>7, BranchRangeFacts
  <2> QED BY <2>9, <1>6, <1>7, InRangeIf
<1> QED BY <1>4, <1>10, <1>11, <1>12

(* What provably_in_range says is so: another object. *)
LEMMA ProvableReaches ==
  ASSUME Writing, NEW i \in Objects, NEW m \in Objects, program.sizes[i] > 0, program.sizes[m] > 0, i <= m,
         CodeEnd[m] - CodeEnd[i - 1] < BranchRange, NEW x \in Places(i), NEW y \in Places(m)
  PROVE  InRange(x, y) /\ InRange(y, x)
<1>1. /\ Len(program.sizes) \in Nat /\ Objects = 1 .. Len(program.sizes)
      /\ i - 1 \in 0 .. Len(program.sizes) /\ m - 1 \in 0 .. Len(program.sizes) /\ i - 1 <= m - 1
      /\ i \in 0 .. Len(program.sizes)
  BY CodeFacts, SMTT(30) DEF Writing
<1>2. /\ x \in Nat /\ EndAddress[i - 1] \in Nat /\ program.sizes[i] \in Nat
      /\ EndAddress[i - 1] <= x /\ x < EndAddress[i - 1] + program.sizes[i]
  BY PlaceFacts
<1>3. /\ y \in Nat /\ EndAddress[m - 1] \in Nat /\ program.sizes[m] \in Nat
      /\ EndAddress[m - 1] <= y /\ y < EndAddress[m - 1] + program.sizes[m]
  BY PlaceFacts
<1>4. /\ CodeEnd[i - 1] \in Nat /\ CodeEnd[m] \in Nat /\ CodeEnd[m - 1] \in Nat
      /\ CodeEnd[m] = CodeEnd[m - 1] + program.sizes[m] /\ program.sizes[i] <= BranchRange
  BY CodeFacts DEF Writing, Fits
<1>5. CodeEnd[m - 1] - CodeEnd[i - 1] < BranchRange
  <2>1. PICK e \in Nat, em \in Nat, s \in Nat : e = CodeEnd[i - 1] /\ em = CodeEnd[m - 1] /\ s = program.sizes[m]
    BY <1>3, <1>4
  <2>2. (em + s) - e < BranchRange
    BY <2>1, <1>4
  <2>3. em - e < BranchRange
    BY <2>2, BranchRangeFacts
  <2> QED BY <2>1, <2>3
<1>6. EndAddress[m - 1] - EndAddress[i - 1] <= CodeEnd[m - 1] - CodeEnd[i - 1] + MaxThunkBytes
  BY <1>1, <1>5, Stretch
<1>7. EndAddress[i - 1] <= EndAddress[m - 1]
  BY <1>1, AddressFacts
<1>8. PICK a \in Nat, am \in Nat, e \in Nat, em \in Nat, s \in Nat, sm \in Nat :
         /\ a = EndAddress[i - 1] /\ am = EndAddress[m - 1] /\ e = CodeEnd[i - 1] /\ em = CodeEnd[m - 1]
         /\ s = program.sizes[i] /\ sm = program.sizes[m]
  BY <1>2, <1>3, <1>4
<1>9. /\ a <= x /\ x < a + s /\ am <= y /\ y < am + sm /\ a <= am /\ s <= BranchRange
      /\ am - a <= (em - e) + MaxThunkBytes /\ (em + sm) - e < BranchRange
  BY <1>2, <1>3, <1>4, <1>6, <1>7, <1>8
<1>10. /\ y < x + MinBranchRange /\ x <= y + MinBranchRange
       /\ x < y + MinBranchRange /\ y <= x + MinBranchRange
  BY <1>2, <1>3, <1>9, BranchRangeFacts
<1> QED BY <1>2, <1>3, <1>10, InRangeIf

(* And the code outside of the primary part. *)
LEMMA ProvableReachesElsewhere ==
  ASSUME Writing, NEW i \in Objects, program.sizes[i] > 0, CodeEnd[i] < BranchRange,
         NEW x \in Places(i), NEW y \in Places(Elsewhere)
  PROVE  InRange(x, y)
<1>1. /\ Len(program.sizes) \in Nat /\ Objects = 1 .. Len(program.sizes)
      /\ i - 1 \in 0 .. Len(program.sizes) /\ 0 \in 0 .. Len(program.sizes) /\ 0 <= i - 1
  BY CodeFacts DEF Writing
<1>2. /\ x \in Nat /\ EndAddress[i - 1] \in Nat /\ program.sizes[i] \in Nat
      /\ EndAddress[i - 1] <= x /\ x < EndAddress[i - 1] + program.sizes[i]
  BY PlaceFacts
<1>3. y \in Nat /\ y < program.non_primary
  BY ElsewhereFacts
<1>4. /\ CodeEnd[i - 1] \in Nat /\ CodeEnd[i] \in Nat /\ CodeEnd[0] = program.non_primary
      /\ CodeEnd[i] = CodeEnd[i - 1] + program.sizes[i] /\ EndAddress[0] = program.non_primary
      /\ program.non_primary \in Nat
  BY CodeFacts, AddressFacts DEF Writing
<1>5. PICK a \in Nat, e \in Nat, s \in Nat, n \in Nat :
         /\ a = EndAddress[i - 1] /\ e = CodeEnd[i - 1] /\ s = program.sizes[i] /\ n = program.non_primary
  BY <1>2, <1>4
<1>6. e + s < BranchRange
  BY <1>4, <1>5
<1>7. CodeEnd[i - 1] - CodeEnd[0] < BranchRange
  <2>1. e - n < BranchRange
    BY <1>6, BranchRangeFacts
  <2> QED BY <2>1, <1>4, <1>5
<1>8. EndAddress[i - 1] - EndAddress[0] <= CodeEnd[i - 1] - CodeEnd[0] + MaxThunkBytes
  BY <1>1, <1>7, Stretch
<1>9. EndAddress[0] <= EndAddress[i - 1]
  BY <1>1, AddressFacts
<1>10. a - n <= (e - n) + MaxThunkBytes /\ n <= a /\ a <= x /\ x < a + s /\ y < n
  BY <1>2, <1>3, <1>4, <1>5, <1>8, <1>9
<1>11. y < x + MinBranchRange /\ x <= y + MinBranchRange
  BY <1>2, <1>3, <1>6, <1>10, BranchRangeFacts
<1> QED BY <1>2, <1>3, <1>11, InRangeIf

(* The code outside of the primary part reaches the first block. *)
LEMMA ElsewhereReachesThunk ==
  ASSUME Writing, NEW j \in owners, block[j] = 0, NEW d \in symbols[0],
         NEW from \in Places(Elsewhere), NEW t \in ThunkAddresses(0)
  PROVE  InRange(from, t)
<1>1. /\ j \in Objects /\ owners \subseteq Objects /\ CodeEnd[j - 1] = program.non_primary
  BY DEF Writing, AssignInv, BlocksInv, Assigned
<1>2. /\ Len(program.sizes) \in Nat /\ Objects = 1 .. Len(program.sizes)
      /\ j - 1 \in 0 .. Len(program.sizes) /\ 0 \in 0 .. Len(program.sizes) /\ 0 <= j - 1
      /\ CodeEnd[0] = program.non_primary /\ program.non_primary \in Nat /\ program.sizes[j] \in Nat
  BY <1>1, CodeFacts DEF Writing
<1>3. \A k \in owners : ~(0 < k /\ k <= j - 1)
  <2> SUFFICES ASSUME NEW k \in owners, k <= j - 1 PROVE FALSE
    OBVIOUS
  <2>1. k \in Objects /\ program.sizes[k] > 0
    BY ThunkBytesFacts
  <2>2. k \in 0 .. Len(program.sizes) /\ k - 1 \in 0 .. Len(program.sizes) /\ 0 <= k - 1
    BY <2>1, <1>2
  <2>3. /\ CodeEnd[k] <= CodeEnd[j - 1] /\ CodeEnd[0] <= CodeEnd[k - 1]
        /\ CodeEnd[k] = CodeEnd[k - 1] + program.sizes[k] /\ program.sizes[k] \in Nat
        /\ CodeEnd[k] \in Nat /\ CodeEnd[k - 1] \in Nat
    BY <2>1, <2>2, <1>2, CodeFacts DEF Writing
  <2>4. PICK e \in Nat, s \in Nat, n \in Nat : e = CodeEnd[k - 1] /\ s = program.sizes[k] /\ n = program.non_primary
    BY <2>3, <1>2
  <2>5. e + s <= n /\ n <= e /\ s > 0
    BY <2>1, <2>3, <2>4, <1>1, <1>2
  <2> QED BY <2>5
<1>4. EndAddress[j - 1] - EndAddress[0] = CodeEnd[j - 1] - CodeEnd[0]
  BY <1>2, <1>3, NoBlockBetween
<1>5. EndAddress[j - 1] = program.non_primary
  <2>1. EndAddress[0] = program.non_primary /\ EndAddress[j - 1] \in Nat
    BY <1>1, AddressFacts
  <2>2. PICK a \in Nat, n \in Nat : a = EndAddress[j - 1] /\ n = program.non_primary
    BY <2>1, <1>2
  <2>3. a - n = n - n
    BY <2>1, <2>2, <1>1, <1>2, <1>4
  <2> QED BY <2>2, <2>3
<1>6. t \in Nat /\ EndAddress[j - 1] + program.sizes[j] <= t
      /\ t < EndAddress[j - 1] + program.sizes[j] + ThunkBytes(j)
  BY ThunkFacts
<1>7. program.sizes[j] + ThunkBytes(j) <= MaxThunkBytes /\ ThunkBytes(j) \in Nat
  BY <1>1, ThunkBytesFacts
<1>8. from \in Nat /\ from < program.non_primary /\ program.non_primary + MaxThunkBytes <= MinBranchRange
  BY ElsewhereFacts
<1>9. PICK n \in Nat, s \in Nat, b \in Nat :
         n = program.non_primary /\ s = program.sizes[j] /\ b = ThunkBytes(j)
  BY <1>2, <1>7
<1>10. n + s <= t /\ t < n + s + b /\ s + b <= MaxThunkBytes /\ from < n /\ n + MaxThunkBytes <= MinBranchRange
  BY <1>5, <1>6, <1>7, <1>8, <1>9
<1>11. t < from + MinBranchRange /\ from <= t + MinBranchRange
  BY <1>6, <1>8, <1>10, BranchRangeFacts
<1> QED BY <1>6, <1>8, <1>11, InRangeIf

(* In a small program all code is in range. *)
LEMMA SmallPlaces ==
  ASSUME Writing, Small, NEW i \in 0 .. Len(program.sizes), i # Elsewhere => program.sizes[i] > 0,
         NEW x \in Places(i)
  PROVE  x \in Nat /\ x < MinBranchRange
<1>1. /\ Len(program.sizes) \in Nat /\ Objects = 1 .. Len(program.sizes) /\ program.non_primary \in Nat
      /\ program.executable_bytes \in Nat
  BY ProgramFacts DEF Writing, RangesInv
<1>2. CASE i = Elsewhere
  BY <1>1, <1>2, ElsewhereFacts, BranchRangeFacts
<1>3. CASE i # Elsewhere
  <2> DEFINE N == Len(program.sizes)
  <2>1. i \in Objects /\ N \in 0 .. N /\ 0 \in 0 .. N /\ i - 1 \in 0 .. N /\ 0 <= i - 1 /\ i <= N
    BY <1>1, <1>3 DEF Elsewhere
  <2>2. /\ x \in Nat /\ EndAddress[i - 1] \in Nat /\ program.sizes[i] \in Nat
        /\ x < EndAddress[i - 1] + program.sizes[i]
    BY <1>3, <2>1, PlaceFacts
  <2>3. owners = {}
    BY DEF Writing, StepsInv
  <2>4. EndAddress[i - 1] - EndAddress[0] = CodeEnd[i - 1] - CodeEnd[0]
    BY <2>1, <2>3, NoBlockBetween
  <2>5. /\ EndAddress[0] = program.non_primary /\ CodeEnd[0] = program.non_primary
        /\ CodeEnd[i - 1] \in Nat /\ CodeEnd[i] \in Nat /\ CodeEnd[N] \in Nat
        /\ CodeEnd[i] = CodeEnd[i - 1] + program.sizes[i] /\ CodeEnd[i] <= CodeEnd[N]
    BY <2>1, AddressFacts, CodeFacts DEF Writing
  <2>6. CodeEnd[N] <= program.executable_bytes /\ program.executable_bytes < MinBranchRange
    BY DEF Writing, Fits, Small
  <2>7. PICK a \in Nat, e \in Nat, s \in Nat, n \in Nat, en \in Nat, x_bytes \in Nat :
           /\ a = EndAddress[i - 1] /\ e = CodeEnd[i - 1] /\ s = program.sizes[i] /\ n = program.non_primary
           /\ en = CodeEnd[N] /\ x_bytes = program.executable_bytes
    BY <1>1, <2>2, <2>5
  <2>8. a - n = e - n /\ e + s <= en /\ en <= x_bytes /\ x_bytes < MinBranchRange /\ x < a + s
    BY <2>2, <2>4, <2>5, <2>6, <2>7
  <2> QED BY <2>2, <2>8, BranchRangeFacts
<1> QED BY <1>2, <1>3

(* The larger and the smaller of two numbers. *)
LEMMA PairMax ==
  ASSUME NEW x \in Nat, NEW y \in Nat
  PROVE  Max({x, y}) \in Nat /\ x <= Max({x, y}) /\ y <= Max({x, y})
<1>1. \E z \in {x, y} : \A w \in {x, y} : z >= w
  OBVIOUS
<1>2. Max({x, y}) \in {x, y} /\ \A w \in {x, y} : Max({x, y}) >= w
  BY <1>1 DEF Max
<1> QED BY <1>2

LEMMA PairMin ==
  ASSUME NEW x \in Nat, NEW y \in Nat
  PROVE  Min({x, y}) \in Nat /\ Min({x, y}) <= x /\ Min({x, y}) <= y
<1>1. \E z \in {x, y} : \A w \in {x, y} : z <= w
  OBVIOUS
<1>2. Min({x, y}) \in {x, y} /\ \A w \in {x, y} : Min({x, y}) <= w
  BY <1>1 DEF Min
<1> QED BY <1>2

(* provably_in_range, with the ends of the code. *)
LEMMA ProvableFacts ==
  ASSUME Writing, ~Small, NEW i \in Objects, NEW d \in program.called, ProvablyInRange(i, d)
  PROVE  /\ d.object = Elsewhere \/ d.plt => CodeEnd[i] < BranchRange
         /\ d.object # Elsewhere /\ ~d.plt =>
              /\ CodeEnd[d.object] - CodeEnd[i - 1] < BranchRange
              /\ CodeEnd[i] - CodeEnd[d.object - 1] < BranchRange
<1>1. /\ program \in Programs /\ Len(ranges) = Len(program.sizes) /\ RangesInv
  BY DEF Writing, RangesInv, StepsInv
<1>2. Start(i) = CodeEnd[i - 1] /\ End(i) = CodeEnd[i] /\ CodeEnd[i] \in Nat /\ CodeEnd[i - 1] \in Nat
  BY <1>1, RangeFacts, CodeFacts
<1>3. CASE d.object = Elsewhere
  BY <1>2, <1>3 DEF ProvablyInRange
<1>4. CASE d.object # Elsewhere
  <2> DEFINE m == d.object
  <2>1. m \in Objects
    BY <1>1, <1>4, ProgramFacts DEF Elsewhere
  <2>2. Start(m) = CodeEnd[m - 1] /\ End(m) = CodeEnd[m] /\ CodeEnd[m] \in Nat /\ CodeEnd[m - 1] \in Nat
    BY <1>1, <2>1, RangeFacts, CodeFacts
  <2>3. PICK ei \in Nat, si \in Nat, em \in Nat, sm \in Nat :
           ei = CodeEnd[i] /\ si = CodeEnd[i - 1] /\ em = CodeEnd[m] /\ sm = CodeEnd[m - 1]
    BY <1>2, <2>2
  <2>4. CASE d.plt
    <3>1. Max({ei, em}) - Min({si, 0}) < BranchRange
      BY <1>2, <1>4, <2>2, <2>3, <2>4 DEF ProvablyInRange
    <3>2. Max({ei, em}) \in Nat /\ ei <= Max({ei, em})
      BY PairMax
    <3>3. Min({si, 0}) \in Nat /\ Min({si, 0}) <= 0
      BY PairMin
    <3>4. ei < BranchRange
      BY <3>1, <3>2, <3>3, BranchRangeFacts
    <3> QED BY <3>4, <2>3, <2>4
  <2>5. CASE ~d.plt
    <3>1. Max({ei, em}) - Min({si, sm}) < BranchRange
      BY <1>2, <1>4, <2>2, <2>3, <2>5 DEF ProvablyInRange
    <3>2. Max({ei, em}) \in Nat /\ ei <= Max({ei, em}) /\ em <= Max({ei, em})
      BY PairMax
    <3>3. Min({si, sm}) \in Nat /\ Min({si, sm}) <= si /\ Min({si, sm}) <= sm
      BY PairMin
    <3>4. em - si < BranchRange /\ ei - sm < BranchRange
      BY <3>1, <3>2, <3>3, BranchRangeFacts
    <3> QED BY <3>4, <1>4, <2>3, <2>5
  <2> QED BY <2>4, <2>5
<1> QED BY <1>3, <1>4

(* Every branch of a program that fits can be written. *)
LEMMA AllBranchesReach ==
  ASSUME Writing, NEW i \in program.callers, NEW d \in program.called
  PROVE  CanWrite(i, d)
<1>1. /\ Len(program.sizes) \in Nat /\ Objects = 1 .. Len(program.sizes)
      /\ i \in 0 .. Len(program.sizes) /\ (i # Elsewhere => i \in Objects /\ program.sizes[i] > 0)
      /\ d.object \in 0 .. Len(program.sizes) /\ d.plt \in BOOLEAN
      /\ d.object # Elsewhere => d.object \in Objects /\ program.sizes[d.object] > 0
  BY ProgramFacts DEF Writing, RangesInv, Elsewhere
<1> SUFFICES ASSUME NEW from \in Places(i), NEW to \in Targets(d)
             PROVE  \/ InRange(from, to)
                    \/ /\ BlockOf(i) \in DOMAIN symbols /\ d \in symbols[BlockOf(i)]
                       /\ \E j \in owners : block[j] = BlockOf(i)
                       /\ \A thunk \in ThunkAddresses(BlockOf(i)) : InRange(from, thunk)
  BY DEF CanWrite
<1>2. CASE Small
  <2>1. PICK m \in 0 .. Len(program.sizes) : (m # Elsewhere => program.sizes[m] > 0) /\ to \in Places(m)
    BY <1>1 DEF Targets, Elsewhere
  <2>2. from \in Nat /\ from < MinBranchRange
    BY <1>1, <1>2, SmallPlaces
  <2>3. to \in Nat /\ to < MinBranchRange
    BY <1>2, <2>1, SmallPlaces
  <2>4. to < from + MinBranchRange /\ from <= to + MinBranchRange
    BY <2>2, <2>3, BranchRangeFacts
  <2> QED BY <2>2, <2>3, <2>4, InRangeIf
<1>3. CASE ~Small /\ i = Elsewhere
  <2>1. from \in Nat /\ from < program.non_primary /\ program.non_primary + MaxThunkBytes <= MinBranchRange
    BY <1>3, ElsewhereFacts
  <2>2. CASE to \in Places(Elsewhere)
    <3>1. to \in Nat /\ to < program.non_primary
      BY <2>2, ElsewhereFacts
    <3>2. to < from + MinBranchRange /\ from <= to + MinBranchRange
      BY <2>1, <3>1, BranchRangeFacts, CodeFacts DEF Writing
    <3> QED BY <2>1, <3>1, <3>2, InRangeIf
  <2>3. CASE d.object # Elsewhere
    <3>1. owners # {} /\ num_blocks > 0
      BY <1>1, <1>3, <2>3, AssignedFacts, SymbolFacts
    <3>2. 0 \in DOMAIN symbols /\ symbols[0] = PrimaryPartRefs(0) \cup NonPrimaryPartRefs(0)
      <4>1. num_blocks \in Nat
        BY DEF Writing, AssignInv, BlocksInv
      <4>2. 0 \in 0 .. num_blocks - 1
        BY <3>1, <4>1
      <4> QED BY <3>1, <4>2, SymbolFacts
    <3>3. d \in symbols[0]
      BY <1>3, <2>3, <3>2 DEF NonPrimaryPartRefs
    <3>4. PICK j \in owners : block[j] = 0
      <4>1. Placed = num_blocks /\ num_blocks \in Nat
        BY DEF Writing, Placed, Open, AssignInv, BlocksInv
      <4>2. 0 \in 0 .. Placed - 1
        BY <3>1, <4>1
      <4> QED BY <4>2 DEF Writing, AssignInv, BlocksInv
    <3>5. \A thunk \in ThunkAddresses(0) : InRange(from, thunk)
      BY <1>3, <3>3, <3>4, ElsewhereReachesThunk
    <3> QED BY <1>3, <3>2, <3>3, <3>4, <3>5 DEF BlockOf
  <2> QED BY <2>2, <2>3 DEF Targets
<1>4. CASE ~Small /\ i # Elsewhere /\ d \in PrimaryPartRefs(block[i])
  <2>1. /\ i \in Assigned /\ owners # {} /\ \E j \in owners : block[j] = block[i]
    BY <1>1, <1>4, AssignedFacts
  <2>2. block[i] \in DOMAIN symbols /\ d \in symbols[block[i]]
    BY <1>4, <2>1, SymbolFacts
  <2>3. \A thunk \in ThunkAddresses(block[i]) : InRange(from, thunk)
    BY <1>1, <1>4, <2>2, ReachesThunk
  <2> QED BY <1>4, <2>1, <2>2, <2>3 DEF BlockOf
<1>5. CASE ~Small /\ i # Elsewhere /\ d \notin PrimaryPartRefs(block[i])
  <2>1. ProvablyInRange(i, d)
    BY <1>5 DEF PrimaryPartRefs
  <2>2. i \in Objects /\ program.sizes[i] > 0
    BY <1>1, <1>5
  <2>3. CASE d.object = Elsewhere \/ d.plt
    <3>1. to \in Places(Elsewhere)
      BY <2>3 DEF Targets
    <3>2. CodeEnd[i] < BranchRange
      BY <1>5, <2>1, <2>2, <2>3, ProvableFacts
    <3> QED BY <2>2, <3>1, <3>2, ProvableReachesElsewhere
  <2>4. CASE d.object # Elsewhere /\ ~d.plt
    <3>1. PICK m \in Objects : m = d.object /\ program.sizes[m] > 0 /\ to \in Places(m)
      BY <1>1, <2>4 DEF Targets
    <3>2. CodeEnd[m] - CodeEnd[i - 1] < BranchRange /\ CodeEnd[i] - CodeEnd[m - 1] < BranchRange
      BY <1>5, <2>1, <2>2, <2>4, <3>1, ProvableFacts
    <3>3. CASE i <= m
      BY <2>2, <3>1, <3>2, <3>3, ProvableReaches
    <3>4. CASE m <= i
      BY <2>2, <3>1, <3>2, <3>4, ProvableReaches
    <3> QED BY <3>3, <3>4, <1>1, <2>2
  <2> QED BY <2>3, <2>4
<1> QED BY <1>2, <1>3, <1>4, <1>5

-----------------------------------------------------------------------------
(* The theorems.                                                           *)

LEMMA ThunksInvInit == ThunksInit => ThunksInv
<1> SUFFICES ASSUME ThunksInit PROVE ThunksInv
  OBVIOUS
<1>1. program \in Programs /\ Len(program.sizes) \in Nat /\ Objects = 1 .. Len(program.sizes)
      /\ CodeEnd[0] = program.non_primary
  BY ProgramFacts, CodeEndFacts DEF ThunksInit
<1>2. RangesInv
  BY <1>1 DEF ThunksInit, RangesInv
<1>3. StepsInv
  BY DEF ThunksInit, StepsInv
<1>4. Assigned = {} /\ ~Open /\ Placed = 0
  BY <1>1 DEF ThunksInit, Assigned, Open, Placed
<1>5. BlocksInv
  BY <1>1, <1>4 DEF ThunksInit, BlocksInv
<1>6. LastInv /\ DistancesInv /\ SymbolsInv /\ (Fits => step # "failed")
  BY <1>4 DEF ThunksInit, LastInv, DistancesInv, SymbolsInv
<1> QED BY <1>2, <1>3, <1>5, <1>6 DEF ThunksInv, AssignInv

LEMMA ThunksInvStep == ThunksInv /\ [ThunksNext]_thunk_vars => ThunksInv'
<1> SUFFICES ASSUME ThunksInv, [ThunksNext]_thunk_vars PROVE ThunksInv'
  OBVIOUS
<1>1. RangesInv' /\ StepsInv' /\ AssignInv' /\ SymbolsInv'
  BY RangesStep, StepsStep, AssignStep, SymbolsStep DEF ThunksInv, AssignInv
<1>2. ASSUME Fits', step' = "failed" PROVE FALSE
  <2>1. CASE WriteBranches
    <3>1. step = "write" /\ UNCHANGED <<program, owners, block, symbols>>
      BY <2>1 DEF WriteBranches, assigned
    <3>2. CodeEnd' = CodeEnd /\ Objects' = Objects /\ BranchRange' = BranchRange
      BY <3>1, ProgramStays DEF BranchRange
    <3>3. Fits
      BY <1>2, <3>1, <3>2 DEF Fits
    <3>4. Writing
      BY <3>1, <3>3 DEF Writing, ThunksInv
    <3>5. \A i \in program.callers, d \in program.called : CanWrite(i, d)
      BY <3>4, AllBranchesReach
    <3> QED BY <1>2, <2>1, <3>5 DEF WriteBranches
  <2>2. CASE UNCHANGED thunk_vars
    <3>1. step = "failed" /\ UNCHANGED <<program, step, owners, block, symbols>>
      BY <1>2, <2>2 DEF thunk_vars, assigned
    <3>2. CodeEnd' = CodeEnd /\ Objects' = Objects /\ BranchRange' = BranchRange
      BY <3>1, ProgramStays DEF BranchRange
    <3>3. Fits
      BY <1>2, <3>1, <3>2 DEF Fits
    <3> QED BY <3>1, <3>3 DEF ThunksInv
  <2> QED
    BY <1>2, <2>1, <2>2 DEF ThunksNext, New, CollectRange, RangesCollected, SkipEmpty, AssignFirst,
       AssignPrevious, StartNextBlock, AssignNext, PlaceNextBlock, EndAssign, CollectSymbols, NextObject,
       AtCode, AtObject, ThunksInv, StepsInv
<1> QED BY <1>1, <1>2 DEF ThunksInv

(* assign_thunk_blocks, for any sizes of the objects: each block is owned  *)
(* by one object, the code between an object and its block is within the   *)
(* estimated range, and blocks are at least that range apart.              *)
THEOREM BlocksAreWellPlaced == ThunksSpec => [](OneOwnerPerBlock /\ NearItsBlock /\ BlocksAreApart)
<1>1. ASSUME ThunksInv, Decided PROVE OneOwnerPerBlock /\ NearItsBlock /\ BlocksAreApart
  <2>1. /\ RangesInv /\ StepsInv /\ BlocksInv /\ DistancesInv
        /\ step \in {"symbols", "write", "written", "failed"} /\ num_blocks > 0
    BY <1>1 DEF ThunksInv, AssignInv, Decided
  <2>2. ~Small /\ Len(ranges) = Len(program.sizes) /\ at = Len(program.sizes) + 1
    BY <2>1 DEF StepsInv
  <2>3. ~Open /\ Placed = num_blocks /\ \A i : BlockNow(i) = block[i]
    BY <2>1 DEF Open, Placed, BlockNow
  <2>4. /\ Len(program.sizes) \in Nat /\ Objects = 1 .. Len(program.sizes)
        /\ owners \subseteq Objects
        /\ \A i \in Objects : Start(i) = CodeEnd[i - 1] /\ End(i) = CodeEnd[i]
        /\ \A i \in Objects : program.sizes[i] > 0 => i \in Assigned
    BY <2>1, <2>2, CodeFacts, RangeFacts DEF BlocksInv, Assigned
  <2>5. OneOwnerPerBlock
    <3> SUFFICES ASSUME NEW b \in 0 .. num_blocks - 1
                 PROVE  Cardinality({i \in owners : block[i] = b}) = 1
      BY DEF OneOwnerPerBlock
    <3>1. PICK j \in owners : block[j] = b
      BY <2>1, <2>3 DEF BlocksInv
    <3>2. {i \in owners : block[i] = b} = {j}
      BY <2>1, <3>1 DEF BlocksInv
    <3> QED BY <3>2, FS_Singleton
  <2>6. NearItsBlock
    <3> SUFFICES ASSUME NEW i \in Objects, NEW j \in owners,
                        program.sizes[i] > 0, block[i] = block[j], i # j
                 PROVE  IF i < j THEN Start(j) - End(i) < BranchRange ELSE End(i) - End(j) < BranchRange
      BY DEF NearItsBlock
    <3>1. i \in Assigned /\ j \in Objects /\ i \in Nat /\ j \in Nat
      BY <2>4
    <3>2. /\ i < j => CodeEnd[j - 1] - CodeEnd[i - 1] < BranchRange \/ CodeEnd[j - 1] = CodeEnd[i]
          /\ j < i => CodeEnd[i] - CodeEnd[j] < BranchRange
      BY <2>1, <2>3, <3>1 DEF DistancesInv
    <3>3. CodeEnd[j - 1] \in Nat /\ CodeEnd[i] \in Nat /\ CodeEnd[i - 1] \in Nat /\ CodeEnd[i - 1] <= CodeEnd[i]
      BY <2>1, <3>1, CodeFacts
    <3>4. CASE i < j
      <4>1. CodeEnd[j - 1] - CodeEnd[i] < BranchRange
        BY <3>2, <3>3, <3>4, BranchRangeFacts
      <4> QED BY <2>4, <3>1, <3>4, <4>1
    <3>5. CASE ~(i < j)
      BY <2>4, <3>1, <3>2, <3>5
    <3> QED BY <3>4, <3>5
  <2>7. BlocksAreApart
    BY <2>1, <2>4 DEF BlocksAreApart, DistancesInv
  <2> QED BY <2>5, <2>6, <2>7
<1>2. ThunksInv => OneOwnerPerBlock /\ NearItsBlock /\ BlocksAreApart
  BY <1>1 DEF OneOwnerPerBlock, NearItsBlock, BlocksAreApart
<1> QED BY <1>2, ThunksInvInit, ThunksInvStep, PTL DEF ThunksSpec

(* Every branch of every program that fits reaches its target or a thunk,  *)
(* whatever the number of objects and blocks: adding the thunks to the     *)
(* code, which was measured without them, moves nothing out of range.      *)
THEOREM BranchesReach == ThunksSpec => [](Fits => EveryBranchReaches)
<1>1. ThunksInv => (Fits => step # "failed")
  BY DEF ThunksInv
<1>2. OneOwnerPerBlock /\ NearItsBlock /\ BlocksAreApart /\ (Fits => step # "failed") =>
        (Fits => EveryBranchReaches)
  BY DEF EveryBranchReaches
<1> QED BY <1>1, <1>2, BlocksAreWellPlaced, ThunksInvInit, ThunksInvStep, PTL DEF ThunksSpec
=============================================================================
