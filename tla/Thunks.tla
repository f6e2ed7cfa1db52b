------------------------------- MODULE Thunks -------------------------------
(***************************************************************************)
(* Range-extension thunks (libjdxld/src/thunks.rs): branches have a        *)
(* limited range, so a branch to a symbol further away goes to a thunk in  *)
(* a block of thunks that is placed behind one of the objects.  Blocks are *)
(* assigned to objects before any address is known, from the sizes of the  *)
(* objects; addresses follow, and the writer then takes what it finds      *)
(* (layout.rs, elf_writer.rs).                                             *)
(*                                                                         *)
(* Abstractions.  The code of an object in the primary part is one range   *)
(* of bytes; branches start at and lead to its first and last byte.  All   *)
(* other executable code, PLT included, is in one range before the primary *)
(* part, which the source assumes.  Objects are written independently of   *)
(* each other, so writing is one step.                                     *)
(***************************************************************************)
EXTENDS Integers, Sequences, FiniteSets, FiniteSetsExt

CONSTANTS MinBranchRange,  \* min_branch_range: branches reach this far
          MaxThunkBytes,   \* MAXIMUM_THUNK_BYTES_PER_BLOCK
          ThunkSize,       \* thunk_size
          Conservative,    \* conservative (Mach-O) or not (ELF)
          Programs         \* the programs to choose from

(* A definition is in the primary part of an object, or elsewhere in the   *)
(* text (object 0); a branch to one that has PLT goes to its PLT entry.    *)
Elsewhere == 0
IsDefinition(d, n) == d.object \in 0 .. n /\ d.plt \in BOOLEAN

(* sizes: post_gc_primary_bytes of each object; non_primary: bytes of the  *)
(* other executable code; executable_bytes: what the program files have;     *)
(* callers: the objects, and the other code (object 0), that have          *)
(* branches; called: the definitions that all of them branch to.           *)
IsProgram(program) ==
  /\ program.sizes \in Seq(Nat) /\ program.non_primary \in Nat /\ program.executable_bytes \in Nat
  /\ program.callers \subseteq 0 .. Len(program.sizes)
  /\ \A i \in program.callers : i # Elsewhere => program.sizes[i] > 0
  /\ \A d \in program.called : IsDefinition(d, Len(program.sizes))
  /\ \A d \in program.called : d.object # Elsewhere => program.sizes[d.object] > 0

ASSUME ThunksAssumption ==
  /\ MinBranchRange \in Nat \ {0} /\ ThunkSize \in Nat \ {0}
  /\ MaxThunkBytes \in 0 .. MinBranchRange - 1
  /\ Conservative \in BOOLEAN
  /\ \A program \in Programs : IsProgram(program)

VARIABLES
  program,
  step,        \* "new", "ranges", "assign", "symbols", "write", "written", "failed"
  ranges,       \* primary_ranges so far, as pairs of start and end
  at,           \* next object of the loop in assign_thunk_blocks
  block,        \* thunk_block_id of each object
  owners,       \* objects whose owns_thunk_block is set
  num_blocks,
  prev,         \* prev_block_id
  prev_pos,     \* prev_block_pos
  pending,      \* pending_next: none, or the first object that uses it
  symbols       \* [blocks -> definitions that have a thunk]

thunk_vars == <<program, step, ranges, at, block, owners, num_blocks, prev, prev_pos, pending, symbols>>
assigned == <<block, owners, num_blocks, prev, prev_pos, pending>>

Objects == 1 .. Len(program.sizes)
BranchRange == MinBranchRange - MaxThunkBytes
Start(i) == ranges[i][1]
End(i) == ranges[i][2]

-----------------------------------------------------------------------------
ThunksInit ==
  /\ program \in Programs
  /\ step = "new" /\ ranges = <<>> /\ at = 1
  /\ block = [i \in Objects |-> 0] /\ owners = {}
  /\ num_blocks = 0 /\ prev = 0 /\ prev_pos = 0 /\ pending = <<>>
  /\ symbols = <<>>

(* ThunkLayoutBuilder::new: small programs need no thunks. *)
New ==
  /\ step = "new"
  /\ step' = IF program.executable_bytes < MinBranchRange THEN "write" ELSE "ranges"
  /\ UNCHANGED <<program, ranges, at, assigned, symbols>>

(* collect_primary_ranges, one object. *)
CollectRange ==
  LET start == IF ranges = <<>> THEN program.non_primary ELSE End(Len(ranges)) IN
  /\ step = "ranges" /\ Len(ranges) < Len(program.sizes)
  /\ ranges' = Append(ranges, <<start, start + program.sizes[Len(ranges) + 1]>>)
  /\ UNCHANGED <<program, step, at, assigned, symbols>>

RangesCollected ==
  /\ step = "ranges" /\ Len(ranges) = Len(program.sizes)
  /\ step' = "assign"
  /\ UNCHANGED <<program, ranges, at, assigned, symbols>>

-----------------------------------------------------------------------------
(* assign_thunk_blocks, one object after the other.                        *)

AtObject == step = "assign" /\ at \in Objects
NextObject == at' = at + 1 /\ UNCHANGED <<program, step, ranges, symbols>>

(* assign_thunk_blocks_to_groups leaves out objects without code. *)
SkipEmpty ==
  /\ AtObject /\ End(at) = Start(at)
  /\ NextObject /\ UNCHANGED assigned

AtCode == AtObject /\ End(at) > Start(at)

(* The first object owns the first block. *)
AssignFirst ==
  /\ AtCode /\ num_blocks = 0
  /\ num_blocks' = 1 /\ owners' = {at} /\ prev' = 0 /\ prev_pos' = End(at)
  /\ block' = [block EXCEPT ![at] = 0]
  /\ NextObject /\ UNCHANGED pending

(* The previous block is in range. *)
AssignPrevious ==
  /\ AtCode /\ num_blocks > 0 /\ pending = <<>>
  /\ End(at) - prev_pos < BranchRange
  /\ block' = [block EXCEPT ![at] = prev]
  /\ NextObject /\ UNCHANGED <<owners, num_blocks, prev, prev_pos, pending>>

(* It is not: a block that is to be placed later. *)
StartNextBlock ==
  /\ AtCode /\ num_blocks > 0 /\ pending = <<>>
  /\ End(at) - prev_pos >= BranchRange
  /\ pending' = <<at>> /\ num_blocks' = num_blocks + 1
  /\ NextObject /\ UNCHANGED <<block, owners, prev, prev_pos>>

(* The identifier of the pending block. *)
NextId == num_blocks - 1

AssignNext ==
  /\ AtCode /\ pending # <<>>
  /\ End(at) - Start(pending[1]) < BranchRange
  /\ block' = [block EXCEPT ![at] = NextId]
  /\ NextObject /\ UNCHANGED <<owners, num_blocks, prev, prev_pos, pending>>

(* The pending block is placed behind this object. *)
PlaceNextBlock ==
  /\ AtCode /\ pending # <<>>
  /\ End(at) - Start(pending[1]) >= BranchRange
  /\ block' = [block EXCEPT ![pending[1]] = NextId, ![at] = NextId]
  /\ owners' = owners \cup {at}
  /\ prev' = NextId /\ prev_pos' = End(at) /\ pending' = <<>>
  /\ NextObject /\ UNCHANGED num_blocks

(* A block that is still pending is placed behind its first object. *)
EndAssign ==
  /\ step = "assign" /\ at > Len(program.sizes)
  /\ step' = "symbols"
  /\ IF pending = <<>> THEN UNCHANGED <<block, owners>>
     ELSE /\ block' = [block EXCEPT ![pending[1]] = NextId]
          /\ owners' = owners \cup {pending[1]}
  /\ UNCHANGED <<program, ranges, at, num_blocks, prev, prev_pos, pending, symbols>>

-----------------------------------------------------------------------------
(* The symbols of the blocks.                                              *)

(* provably_in_range *)
ProvablyInRange(i, d) ==
  IF d.object = Elsewhere THEN End(i) < BranchRange
  ELSE LET def_start == IF d.plt THEN 0 ELSE Start(d.object)
       IN Max({End(i), End(d.object)}) - Min({Start(i), def_start}) < BranchRange

(* process_primary_part_refs *)
PrimaryPartRefs(b) ==
  {d \in program.called :
     \E i \in program.callers \ {Elsewhere} :
       block[i] = b /\ (Conservative \/ ~ProvablyInRange(i, d))}

(* Mutant: calls from other parts are taken for in range. *)
AssumeInRange(b) == {}

(* process_non_primary_part_refs: the first block, whatever the distance. *)
NonPrimaryPartRefs(b) ==
  IF b = 0 /\ Elsewhere \in program.callers THEN {d \in program.called : d.object # Elsewhere} ELSE {}

CollectSymbols ==
  /\ step = "symbols"
  /\ step' = "write"
  /\ symbols' = [b \in 0 .. Max({num_blocks, 1}) - 1 |-> PrimaryPartRefs(b) \cup NonPrimaryPartRefs(b)]
  /\ UNCHANGED <<program, ranges, at, assigned>>

-----------------------------------------------------------------------------
(* Addresses, and the writer.                                              *)

(* allocate_thunk_block_space *)
ThunkBytes(i) == IF i \in owners THEN Cardinality(symbols[block[i]]) * ThunkSize ELSE 0

(* Where object i and its thunks end. *)
EndAddress[i \in 0 .. Len(program.sizes)] ==
  IF i = 0 THEN program.non_primary ELSE EndAddress[i - 1] + (program.sizes[i] + ThunkBytes(i))

Address(i) == EndAddress[i - 1]

(* The thunks of a block are behind the code of its owner, in some order.  *)
(* These are the addresses of its first and last thunk.                    *)
BlockAddress(b) ==
  LET i == CHOOSE j \in owners : block[j] = b IN Address(i) + program.sizes[i]
ThunkAddresses(b) ==
  {BlockAddress(b), BlockAddress(b) + (Cardinality(symbols[b]) - 1) * ThunkSize}

Places(i) ==
  IF i = Elsewhere THEN IF program.non_primary = 0 THEN {} ELSE {0, program.non_primary - 1}
  ELSE {Address(i), Address(i) + program.sizes[i] - 1}

Targets(d) == IF d.plt THEN Places(Elsewhere) ELSE Places(d.object)

InRange(from, to) == to - from \in -MinBranchRange .. MinBranchRange - 1

BlockOf(i) == IF i = Elsewhere THEN 0 ELSE block[i]

(* maybe_get_thunk_for_relocation, and the check of what it returns when   *)
(* it is written.                                                          *)
CanWrite(i, d) ==
  \A from \in Places(i), to \in Targets(d) :
    \/ InRange(from, to)
    \/ /\ BlockOf(i) \in DOMAIN symbols /\ d \in symbols[BlockOf(i)]
       /\ \E j \in owners : block[j] = BlockOf(i)
       /\ \A thunk \in ThunkAddresses(BlockOf(i)) : InRange(from, thunk)

WriteBranches ==
  /\ step = "write"
  /\ step' = IF \A i \in program.callers, d \in program.called : CanWrite(i, d) THEN "written" ELSE "failed"
  /\ UNCHANGED <<program, ranges, at, assigned, symbols>>

ThunksNext ==
  \/ New \/ CollectRange \/ RangesCollected
  \/ SkipEmpty \/ AssignFirst \/ AssignPrevious \/ StartNextBlock \/ AssignNext \/ PlaceNextBlock
  \/ EndAssign \/ CollectSymbols \/ WriteBranches

ThunksSpec == ThunksInit /\ [][ThunksNext]_thunk_vars
-----------------------------------------------------------------------------
Decided == step \in {"symbols", "write", "written", "failed"} /\ num_blocks > 0

(* Every block that an object is assigned to is written, by one object.    *)
OneOwnerPerBlock ==
  Decided => \A b \in 0 .. num_blocks - 1 : Cardinality({i \in owners : block[i] = b}) = 1

(* The code that separates an object from its block is within the range    *)
(* that was estimated, the object that owns the block left out.            *)
NearItsBlock ==
  Decided => \A i \in Objects, j \in owners :
    program.sizes[i] > 0 /\ block[i] = block[j] /\ i # j =>
      IF i < j THEN Start(j) - End(i) < BranchRange ELSE End(i) - End(j) < BranchRange

(* Blocks are so far apart that code within the estimated range has at     *)
(* most one of them in between, which is what MAXIMUM_THUNK_BYTES_PER_BLOCK *)
(* allows for.                                                             *)
BlocksAreApart ==
  Decided => \A i, j \in owners : i < j => End(j) - End(i) >= BranchRange

(* Every branch reaches its target or a thunk for it: the writer finds no  *)
(* branch out of range, because the blocks are where the estimate that     *)
(* assigned them puts them.                                                *)
EveryBranchReaches ==
  OneOwnerPerBlock /\ NearItsBlock /\ BlocksAreApart /\ step # "failed"
=============================================================================
