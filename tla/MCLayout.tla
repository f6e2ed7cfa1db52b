------------------------------ MODULE MCLayout ------------------------------
(***************************************************************************)
(* What decides where everything goes in the output: strings are merged,   *)
(* thunk blocks are assigned, sections and segments get their addresses.   *)
(* The three share no state, so one of them has work at a time, and the    *)
(* other two are where they are when they have none.                       *)
(***************************************************************************)
EXTENDS MCStringMerging, MCThunks, MCSectionLayout

(* No section has strings to merge. *)
NothingToMerge ==
  /\ sections = <<>> /\ groups = <<>> /\ popped = 0 /\ spawned = 0
  /\ delivered = <<>> /\ slot = <<>>
  /\ pc = [t \in 0 .. NumBuckets |-> IF t = Main THEN "idle" ELSE "finished"]
  /\ next = [b \in Buckets |-> 1] /\ offset = [b \in Buckets |-> <<>>]
  /\ available = Capacity /\ seen = [t \in 0 .. NumBuckets |-> 0] /\ string_vecs = 0
  /\ string_offsets = <<>> /\ overflowed = <<>>
  /\ finished_shards = {} /\ failed = FALSE /\ phase = "done"

(* No object has code. *)
NoCode ==
  /\ program = [sizes |-> <<>>, non_primary |-> 0, called |-> {}, callers |-> {},
                executable_bytes |-> 0]
  /\ step = "written" /\ ranges = <<>> /\ at = 1 /\ block = <<>> /\ owners = {}
  /\ num_blocks = 0 /\ prev = 0 /\ prev_pos = 0 /\ pending = <<>> /\ symbols = <<>>

(* Nothing is laid out yet. *)
NotLaidOut ==
  /\ input = Plain /\ stage = "waiting" /\ plan = <<>> /\ sizes = <<>> /\ order = NewBuilder
  /\ walk = NoWalk /\ parts = <<>> /\ used = <<>> /\ segments = <<>> /\ placed = <<>>
  /\ passes = 0 /\ failure = "none"

all_vars == <<merge_vars, thunk_vars, layout_vars>>

Init ==
  \/ MergeInit /\ NoCode /\ NotLaidOut
  \/ NothingToMerge /\ ThunksInit /\ NotLaidOut
  \/ NothingToMerge /\ NoCode /\ LayoutInit

Finished ==
  /\ phase # "merging" /\ step \in {"written", "failed"} /\ stage \in {"waiting", "done", "failed"}
  /\ UNCHANGED all_vars

Next ==
  \/ MergeNext /\ UNCHANGED <<thunk_vars, layout_vars>>
  \/ ThunksNext /\ UNCHANGED <<merge_vars, layout_vars>>
  \/ LayoutNext /\ UNCHANGED <<merge_vars, thunk_vars>>
  \/ Finished

Spec == Init /\ [][Next]_all_vars /\ MergeFairness
=============================================================================
