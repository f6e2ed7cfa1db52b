--------------------------- MODULE StringMerging ---------------------------
(***************************************************************************)
(* Merging of the equal strings of the input sections of one output        *)
(* section (libjdxld/src/string_merging.rs).                               *)
(*                                                                         *)
(* The sections are laid end to end and cut in groups.  Input tasks split  *)
(* the groups in strings and leave them, by group and by hash bucket, in   *)
(* slots; the task of a bucket takes the slots of its bucket in the order  *)
(* of the groups, and waits in the slot that is not filled yet.  Vectors   *)
(* for the strings come from a pool; an input task is spawned when there   *)
(* are enough of them for all buckets.                                     *)
(*                                                                         *)
(* Abstractions.  A section is the sequence of its strings; a string has a *)
(* length and a bucket.  What a slot holds follows from its group and its  *)
(* bucket, so a slot is a tag.  Lengths, blocks and the width of an offset *)
(* are scaled down.  A group takes its vectors and is split in one step,   *)
(* of which other tasks only see the number of vectors in the pool; what a *)
(* bucket stored before an error is not kept, since the link fails.        *)
(***************************************************************************)
EXTENDS Integers, Sequences, FiniteSets, FiniteSetsExt, TLC

CONSTANTS Strings,       \* the strings
          Length,        \* [Strings -> Nat \ {0}], the terminator included
          BucketOf,      \* [Strings -> Buckets]: hash % MERGE_STRING_BUCKETS
          NumBuckets,    \* MERGE_STRING_BUCKETS
          BlockSize,     \* MAP_BLOCK_SIZE
          BlockCapacity, \* offsets that fit in a block of the offset map
          TargetGroupSize,     \* target_group_size
          Parallelism,   \* split_parallelism
          OffsetLimit,   \* 1 << (32 - MERGE_STRING_BUCKET_BITS)
          SectionLists   \* the sequences of sections to choose from

Buckets == 0 .. NumBuckets - 1
Capacity == NumBuckets * Parallelism

(* A section: its strings, and the number of bytes that follow them        *)
(* without a terminator.                                                   *)
IsSection(s) ==
  /\ s.strings \in Seq(Strings) /\ s.tail \in Nat /\ s.is_string \in BOOLEAN
  /\ ~s.is_string => Len(s.strings) = 1 /\ s.tail = 0
  /\ Len(s.strings) + s.tail > 0

ASSUME StringMergingAssumption ==
  /\ Length \in [Strings -> Nat \ {0}] /\ NumBuckets \in Nat \ {0}
  /\ BucketOf \in [Strings -> Buckets]
  /\ BlockSize \in Nat \ {0} /\ BlockCapacity \in Nat /\ OffsetLimit \in Nat \ {0}
  /\ TargetGroupSize \in Nat \ {0} /\ TargetGroupSize % BlockSize = 0
  /\ Parallelism \in Nat \ {0}
  /\ \A input \in SectionLists : input # <<>> /\ \A i \in DOMAIN input : IsSection(input[i])

VARIABLES
  sections,         \* the input sections
  groups,           \* what split_sections makes of them
  popped,           \* how many groups were taken from unprocessed
  spawned,          \* input tasks that have not begun
  delivered,        \* [groups -> slots filled so far, -1 before it is split]
  slot,             \* [groups -> [Buckets -> "empty", "waiting", "strings"]]
  pc,               \* [Buckets and Main -> step of its task]
  next,             \* next_input_group_index of each bucket
  offset,           \* string_offsets of each bucket: its strings and their offsets
  available,        \* vectors that are not reserved
  seen,             \* value of available that a task has loaded
  string_vecs,      \* number of vectors in the pool
  string_offsets,   \* map from input offsets to packed offsets
  overflowed,       \* offsets that did not fit in that map
  finished_shards,  \* groups whose shard is back
  failed,           \* the error queue is not empty
  phase             \* "merging", "done", "failed"

merge_vars == <<sections, groups, popped, spawned, delivered, slot, pc, next, offset, available, seen,
          string_vecs, string_offsets, overflowed, finished_shards, failed, phase>>

(* The task that runs add_input_sections. *)
Main == NumBuckets

-----------------------------------------------------------------------------
(* Positions in the input.                                                 *)

LengthOf(strings, n) == MapThenSumSet(LAMBDA j : Length[strings[j]], 1 .. n)
DataLength(sec) == LengthOf(sec.strings, Len(sec.strings)) + sec.tail
PaddedLength(sec) == ((DataLength(sec) + BlockSize - 1) \div BlockSize) * BlockSize

(* start_input_offset of each section: group_merge_string_sections_by_output *)
StartOf(secs, i) == MapThenSumSet(LAMBDA k : PaddedLength(secs[k]), 1 .. i - 1)
EndOf(secs, i) == StartOf(secs, i) + PaddedLength(secs[i])

(* Where the strings of a section are, relative to it. *)
StringStart(sec, j) == LengthOf(sec.strings, j - 1)
StringEnds(sec) == {LengthOf(sec.strings, j) : j \in 1 .. Len(sec.strings)}

(* split_sections: the group that begins at an offset of section i.  It    *)
(* ends in the first section that fills it or is the last one; a string    *)
(* section that has more is cut.                                           *)
GroupFrom(secs, i, offset_in_section) ==
  LET start == StartOf(secs, i) + offset_in_section
      last == Min({k \in i .. Len(secs) : EndOf(secs, k) - start >= TargetGroupSize} \cup {Len(secs)})
      cut == EndOf(secs, last) - start > TargetGroupSize /\ secs[last].is_string
  IN [first |-> i, last |-> last, start |-> start,
      end |-> IF cut THEN start + TargetGroupSize ELSE EndOf(secs, last),
      end_section |-> ~cut]

SplitSections(secs) ==
  LET Blocks == EndOf(secs, Len(secs)) \div BlockSize
      Following(g) == IF g.end_section THEN GroupFrom(secs, g.last + 1, 0)
                      ELSE GroupFrom(secs, g.last, g.end - StartOf(secs, g.last))
      Last(g) == g.end_section /\ g.last = Len(secs)
      upto[n \in 1 .. Blocks] ==
        IF n = 1 THEN <<GroupFrom(secs, 1, 0)>>
        ELSE LET before == upto[n - 1] IN
             IF Last(before[Len(before)]) THEN before
             ELSE Append(before, Following(before[Len(before)]))
  IN upto[Blocks]

(* The groups are a sequence, and there is at least one. *)
Group == [first: Nat, last: Nat, start: Nat, end: Nat, end_section: BOOLEAN]

ASSUME SplitAssumption ==
  \A input \in SectionLists : SplitSections(input) \in Seq(Group) \ {<<>>}

(* Mutant: a group begins after the next terminator, always. *)
NextStringFrom(sec, offset_in_section) ==
  Min({e \in StringEnds(sec) : e > offset_in_section} \cup {DataLength(sec)})

(* process_input_section: where a group that begins inside a section finds *)
(* the first string that starts in it.                                     *)
FirstStringFrom(sec, offset_in_section) ==
  IF offset_in_section \in StringEnds(sec) THEN offset_in_section
  ELSE Min({e \in StringEnds(sec) : e > offset_in_section} \cup {DataLength(sec)})

(* The first offset of section i that group g looks at. *)
From(secs, g, i) ==
  IF g.start > StartOf(secs, i) THEN FirstStringFrom(secs[i], g.start - StartOf(secs, i)) ELSE 0

(* The strings that group g takes, as pairs of an input offset and a       *)
(* string.                                                                 *)
GroupStrings(secs, g) ==
  UNION {{<<StartOf(secs, i) + StringStart(secs[i], j), secs[i].strings[j]>> :
            j \in {k \in 1 .. Len(secs[i].strings) :
                     \/ ~secs[i].is_string
                     \/ /\ StringStart(secs[i], k) >= From(secs, g, i)
                        /\ StartOf(secs, i) + StringStart(secs[i], k) < g.end}} :
         i \in g.first .. g.last}

(* The bytes after the last terminator of a section are an error for the   *)
(* group that gets to them.                                                *)
Unterminated(secs, g) ==
  \E i \in g.first .. g.last :
    LET tail == StringStart(secs[i], Len(secs[i].strings) + 1) IN
    /\ secs[i].tail > 0 /\ tail >= From(secs, g, i) /\ StartOf(secs, i) + tail < g.end

(* The offset map has room for some offsets in each of its blocks. *)
FitsInBlock(positions, p) ==
  Cardinality({q \in positions : q < p /\ q \div BlockSize = p \div BlockSize}) < BlockCapacity

-----------------------------------------------------------------------------
GroupCount == Len(groups)

MergeInit ==
  \E input \in SectionLists :
    /\ sections = input
    /\ groups = SplitSections(input)
    /\ popped = 0 /\ spawned = 0
    /\ delivered = [g \in DOMAIN groups |-> -1]
    /\ slot = [g \in DOMAIN groups |-> [b \in Buckets |-> IF g = 1 THEN "waiting" ELSE "empty"]]
    /\ pc = [t \in 0 .. NumBuckets |-> IF t = Main THEN "load" ELSE "slot"]
    /\ next = [b \in Buckets |-> 1]
    /\ offset = [b \in Buckets |-> <<>>]
    /\ available = Capacity /\ seen = [t \in 0 .. NumBuckets |-> 0] /\ string_vecs = 0
    /\ string_offsets = <<>> /\ overflowed = <<>>
    /\ finished_shards = {} /\ failed = FALSE /\ phase = "merging"

input_side == <<sections, groups, popped, delivered, finished_shards>>
output_side == <<offset, string_offsets, overflowed>>

(* try_spawn_input_processing returns; a bucket goes on to its next group. *)
Returned(t) ==
  IF t = Main THEN pc' = [pc EXCEPT ![t] = "idle"] /\ UNCHANGED next
  ELSE /\ next' = [next EXCEPT ![t] = @ + 1]
       /\ pc' = [pc EXCEPT ![t] = IF next[t] = GroupCount THEN "finished" ELSE "take"]

(* Mutant: a task waits until there are enough vectors. *)
WaitForVectors(t) ==
  /\ pc[t] = "load"
  /\ IF available < NumBuckets THEN UNCHANGED <<pc, seen>>
     ELSE /\ pc' = [pc EXCEPT ![t] = "exchange"]
          /\ seen' = [seen EXCEPT ![t] = available]
  /\ UNCHANGED <<input_side, output_side, spawned, slot, next, available, string_vecs, failed, phase>>

(* try_reserve: available is loaded ... *)
LoadAvailable(t) ==
  /\ pc[t] = "load"
  /\ IF available < NumBuckets THEN Returned(t) /\ UNCHANGED seen
     ELSE /\ pc' = [pc EXCEPT ![t] = "exchange"]
          /\ seen' = [seen EXCEPT ![t] = available]
          /\ UNCHANGED next
  /\ UNCHANGED <<input_side, output_side, spawned, slot, available, string_vecs, failed, phase>>

(* ... and exchanged, unless another task has changed it. *)
ExchangeAvailable(t) ==
  /\ pc[t] = "exchange"
  /\ seen' = [seen EXCEPT ![t] = 0]
  /\ IF available = seen[t]
     THEN /\ available' = available - NumBuckets
          /\ spawned' = spawned + 1
          /\ pc' = [pc EXCEPT ![t] = "load"]
          /\ UNCHANGED next
     ELSE Returned(t) /\ UNCHANGED <<available, spawned>>
  /\ UNCHANGED <<input_side, output_side, slot, string_vecs, failed, phase>>

(* An input task finds no more groups: unreserve. *)
NoMoreGroups ==
  /\ spawned > 0 /\ popped = GroupCount
  /\ spawned' = spawned - 1
  /\ available' = available + NumBuckets
  /\ UNCHANGED <<input_side, output_side, slot, pc, next, seen, string_vecs, failed, phase>>

(* The vectors of all buckets are taken from the pool, as many as it has. *)
TakeVectors == string_vecs' = IF string_vecs < NumBuckets THEN 0 ELSE string_vecs - NumBuckets

(* process_input_section_group: a group is split. *)
SplitGroup ==
  LET g == popped + 1
      strings == GroupStrings(sections, groups[g])
      positions == {s[1] : s \in strings}
  IN /\ spawned > 0 /\ popped < GroupCount /\ ~Unterminated(sections, groups[g])
     /\ spawned' = spawned - 1
     /\ popped' = g
     /\ TakeVectors
     /\ string_offsets' = [p \in {q \in positions : FitsInBlock(positions, q)} |-> 0]
                            @@ string_offsets
     /\ finished_shards' = finished_shards \cup {g}
     /\ delivered' = [delivered EXCEPT ![g] = 0]
     /\ UNCHANGED <<sections, groups, slot, pc, next, offset, available, seen, overflowed, failed,
                    phase>>

(* A string without a terminator: the vectors are dropped. *)
SplitFails ==
  /\ spawned > 0 /\ popped < GroupCount /\ Unterminated(sections, groups[popped + 1])
  /\ spawned' = spawned - 1
  /\ popped' = popped + 1
  /\ TakeVectors
  /\ failed' = TRUE
  /\ UNCHANGED <<sections, groups, delivered, finished_shards, slot, pc, next, output_side,
                 available, seen, phase>>

(* The strings of one bucket are left in their slot; a bucket that waited  *)
(* there gets a task.                                                      *)
Deliver(g) ==
  LET b == delivered[g] IN
  /\ b \in Buckets
  /\ slot' = [slot EXCEPT ![g][b] = "strings"]
  /\ pc' = IF slot[g][b] = "waiting" THEN [pc EXCEPT ![b] = "take"] ELSE pc
  /\ delivered' = [delivered EXCEPT ![g] = b + 1]
  /\ UNCHANGED <<sections, groups, popped, finished_shards, output_side, spawned, next, available,
                 seen, string_vecs, failed, phase>>

(* add_string, for all strings of a slot, in order: the strings that are   *)
(* new to the bucket follow the ones that it has.                          *)
AddStrings(known, strings) ==
  LET FirstAt(s) == Min({p[1] : p \in {q \in strings : q[2] = s}})
      size == MapThenSumSet(LAMBDA s : Length[s], DOMAIN known)
      new == {p[2] : p \in strings} \ DOMAIN known
  IN [s \in new |-> size + MapThenSumSet(LAMBDA r : Length[r],
                                         {r \in new : FirstAt(r) < FirstAt(s)})] @@ known

(* BucketOffset: the bucket is in the upper bits, if the offset fits. *)
TooLarge(n) == n >= OffsetLimit
Pack(b, n) == b * OffsetLimit + n

(* Mutant: a bucket that finds its slot empty goes away. *)
TakeAndGo(b) ==
  /\ pc[b] = "take"
  /\ IF slot[next[b]][b] = "strings"
     THEN /\ slot' = [slot EXCEPT ![next[b]][b] = "empty"]
          /\ pc' = [pc EXCEPT ![b] = "return"]
     ELSE /\ pc' = [pc EXCEPT ![b] = "slot"] /\ UNCHANGED slot
  /\ UNCHANGED <<input_side, output_side, spawned, next, available, seen, string_vecs, failed,
                 phase>>

(* work_with_bucket: the strings of the next group, or the bucket waits    *)
(* for them in their slot.                                                 *)
TakeStrings(b) ==
  LET g == next[b]
      all == GroupStrings(sections, groups[g])
      mine == {p \in all : BucketOf[p[2]] = b}
      now == AddStrings(offset[b], mine)
      fits == {p \in mine : FitsInBlock({q[1] : q \in all}, p[1])}
      Packed(S) == [p \in {q[1] : q \in S} |->
                      Pack(b, now[(CHOOSE q \in S : q[1] = p)[2]])]
  IN /\ pc[b] = "take"
     /\ \/ /\ slot[g][b] = "strings"
           /\ slot' = [slot EXCEPT ![g][b] = "empty"]
           /\ \/ /\ \E s \in {p[2] : p \in mine} : TooLarge(now[s])
                 /\ failed' = TRUE
                 /\ pc' = [pc EXCEPT ![b] = "dropped"]
                 /\ UNCHANGED output_side
              \/ /\ \A s \in {p[2] : p \in mine} : ~TooLarge(now[s])
                 /\ offset' = [offset EXCEPT ![b] = now]
                 /\ string_offsets' = Packed(fits) @@ string_offsets
                 /\ overflowed' = Packed(mine \ fits) @@ overflowed
                 /\ pc' = [pc EXCEPT ![b] = "return"]
                 /\ UNCHANGED failed
        \/ /\ slot[g][b] # "strings"
           /\ slot' = [slot EXCEPT ![g][b] = "waiting"]
           /\ pc' = [pc EXCEPT ![b] = "slot"]
           /\ UNCHANGED <<output_side, failed>>
     /\ UNCHANGED <<input_side, spawned, next, available, seen, string_vecs, phase>>

(* return_strings_to_merge *)
ReturnVector(b) ==
  /\ pc[b] = "return" /\ pc' = [pc EXCEPT ![b] = "release"]
  /\ string_vecs' = string_vecs + 1
  /\ UNCHANGED <<input_side, output_side, spawned, slot, next, available, seen, failed, phase>>

ReleaseVector(b) ==
  /\ pc[b] = "release" /\ pc' = [pc EXCEPT ![b] = "load"]
  /\ available' = available + 1
  /\ UNCHANGED <<input_side, output_side, spawned, slot, next, seen, string_vecs, failed, phase>>

Resting == {"slot", "idle", "finished", "dropped"}

(* rayon::in_place_scope: there are no more tasks. *)
ScopeEnded ==
  /\ spawned = 0 /\ \A g \in DOMAIN groups : delivered[g] \in {-1, NumBuckets}
  /\ \A t \in DOMAIN pc : pc[t] \in Resting

Finish ==
  /\ phase = "merging" /\ ScopeEnded
  /\ phase' = IF failed THEN "failed" ELSE "done"
  /\ UNCHANGED <<input_side, output_side, spawned, slot, pc, next, available, seen, string_vecs,
                 failed>>

MergeNext ==
  \/ \E t \in 0 .. NumBuckets : LoadAvailable(t) \/ ExchangeAvailable(t)
  \/ NoMoreGroups \/ SplitGroup \/ SplitFails \/ (\E g \in DOMAIN groups : Deliver(g))
  \/ \E b \in Buckets : TakeStrings(b) \/ ReturnVector(b) \/ ReleaseVector(b)
  \/ Finish

MergeSpec == MergeInit /\ [][MergeNext]_merge_vars

(* Rayon runs every task that was spawned, and every task goes on. *)
MergeFairness ==
  /\ \A t \in 0 .. NumBuckets : WF_merge_vars(LoadAvailable(t) \/ ExchangeAvailable(t))
  /\ WF_merge_vars(NoMoreGroups \/ SplitGroup \/ SplitFails)
  /\ WF_merge_vars(\E g \in DOMAIN groups : Deliver(g))
  /\ \A b \in Buckets : WF_merge_vars(TakeStrings(b) \/ ReturnVector(b) \/ ReleaseVector(b))
  /\ WF_merge_vars(Finish)
-----------------------------------------------------------------------------
TypeOK ==
  /\ popped \in 0 .. GroupCount /\ spawned \in 0 .. Parallelism
  /\ delivered \in [DOMAIN groups -> -1 .. NumBuckets]
  /\ slot \in [DOMAIN groups -> [Buckets -> {"empty", "waiting", "strings"}]]
  /\ pc \in [0 .. NumBuckets -> Resting \cup {"load", "exchange", "take", "return", "release"}]
  /\ next \in [Buckets -> 1 .. GroupCount + 1]
  /\ available \in 0 .. Capacity
  /\ seen \in [0 .. NumBuckets -> 0 .. Capacity]
  /\ finished_shards \subseteq DOMAIN groups
  /\ phase \in {"merging", "done", "failed"}

(* The groups and buckets whose strings are still with an input task, and  *)
(* those whose strings are in their slot.                                  *)
Undelivered == {x \in (DOMAIN groups) \X Buckets : delivered[x[1]] \in 0 .. x[2]}
InSlots == {x \in (DOMAIN groups) \X Buckets : slot[x[1]][x[2]] = "strings"}

(* A vector that is in use: reserved by an input task, in its hands, in a  *)
(* slot or in those of a bucket.                                           *)
VectorsInUse ==
  spawned * NumBuckets + Cardinality(Undelivered) + Cardinality(InSlots)
    + Cardinality({b \in Buckets : pc[b] \in {"return", "release"}})

(* Unless a task has failed, every vector is available or in use, and a    *)
(* vector that comes back finds room in the pool (the assertion in         *)
(* return_strings_to_merge).                                               *)
PoolIsBalanced ==
  /\ ~failed => available + VectorsInUse = Capacity
  /\ string_vecs <= Capacity

(* A bucket is in one place: with a task, or waiting in the slot of its    *)
(* next group, which is then not filled.                                   *)
BucketInOnePlace ==
  \A b \in Buckets :
    {g \in DOMAIN groups : slot[g][b] = "waiting"} = IF pc[b] = "slot" THEN {next[b]} ELSE {}

(* When there are no more tasks and no error, every group has been split,  *)
(* every bucket is complete and every vector is back (the assertion in     *)
(* merge_strings).                                                         *)
NothingIsLeft ==
  ScopeEnded /\ ~failed /\ pc[Main] = "idle" =>
    /\ finished_shards = DOMAIN groups
    /\ \A b \in Buckets : pc[b] = "finished"
    /\ available = Capacity

(* Buckets, vectors and groups survive every interleaving of the tasks:    *)
(* none is lost, none is in two places, none is left at the end.           *)
NothingIsLost == TypeOK /\ PoolIsBalanced /\ BucketInOnePlace /\ NothingIsLeft

-----------------------------------------------------------------------------
(* What the merged section is to be.                                       *)

AllStrings == UNION {{<<StartOf(sections, i) + StringStart(sections[i], j), sections[i].strings[j]>> :
                       j \in 1 .. Len(sections[i].strings)} : i \in DOMAIN sections}

(* The strings of a bucket in the order of their first occurrences. *)
ExpectedOffset(s) ==
  LET FirstAt(r) == Min({p[1] : p \in {q \in AllStrings : q[2] = r}}) IN
  MapThenSumSet(LAMBDA r : Length[r],
                {r \in {p[2] : p \in AllStrings} :
                   BucketOf[r] = BucketOf[s] /\ FirstAt(r) < FirstAt(s)})

(* bucket_offsets *)
BucketStart(b) ==
  MapThenSumSet(LAMBDA c : MapThenSumSet(LAMBDA s : Length[s], DOMAIN offset[c]), 0 .. b - 1)

(* find_string: the offset itself, or the nearest one before it. *)
FindString(p) ==
  LET known == DOMAIN string_offsets \cup DOMAIN overflowed
      q == Max({k \in known : k <= p})
      packed == IF q \in DOMAIN string_offsets THEN string_offsets[q] ELSE overflowed[q]
  IN (packed + (p - q)) % (NumBuckets * OffsetLimit)

(* get_merged_string_output_address, relative to the section *)
OutputAddress(p) ==
  BucketStart(FindString(p) \div OffsetLimit) + (FindString(p) % OffsetLimit)

(* When merging succeeds, every string had a terminator and is in its      *)
(* bucket once, in an order that does not depend on the order in which the *)
(* tasks ran, and every reference to a byte of an input string leads to    *)
(* the same byte of the merged string.                                     *)
ReferencesAreKept ==
  phase = "done" =>
    /\ \A i \in DOMAIN sections : sections[i].tail = 0
    /\ \A b \in Buckets : DOMAIN offset[b] = {s \in {p[2] : p \in AllStrings} : BucketOf[s] = b}
    /\ \A p \in AllStrings : \A i \in 0 .. Length[p[2]] - 1 :
         OutputAddress(p[1] + i) = BucketStart(BucketOf[p[2]]) + ExpectedOffset(p[2]) + i

(* Input processing "continues until the last inputs and the last buckets  *)
(* have been processed" (add_input_sections).                              *)
Terminates == <>(phase # "merging")

(* It does, if only finitely many of the tasks that                        *)
(* try_spawn_input_processing spawns find no group to split.               *)
TerminatesUnlessSpinning == (<>[][~NoMoreGroups]_merge_vars) => Terminates
=============================================================================
