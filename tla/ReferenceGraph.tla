--------------------------- MODULE ReferenceGraph ---------------------------
(***************************************************************************)
(* The parallel traversal of the reference graph that decides which input  *)
(* sections are kept (libjdxld/src/layout.rs, traverse_reference_graph).   *)
(* Every group of input files is owned by at most one rayon task at a      *)
(* time.  A task works through its own queue; work for another group is    *)
(* pushed into that group's slot under the slot's mutex, and whoever finds *)
(* the group's state parked in the slot takes it and spawns a task for it. *)
(*                                                                         *)
(* Abstractions.  A work queue is a bag (a function from work items to     *)
(* numbers of copies): the code's LIFO order is one of the orders allowed. *)
(* The relocations of a unit, its exception frames included, are the set   *)
(* Refs[u], handled in any order.  Only the resolution flags of a symbol   *)
(* are kept (value_flags.rs, resolution_flags).  fetch_or is one step: its *)
(* preliminary load returns early only when or-ing would change nothing.   *)
(***************************************************************************)
EXTENDS Integers

CONSTANTS Groups,            \* groups of input files, one worker slot each
          Symbols,           \* canonical symbols
          Units,             \* GC units (input sections)
          Sections,          \* output sections named by __start_/__stop_ symbols
          Flags,             \* resolution flags
          GroupOfSymbol,     \* [Symbols -> Groups]
          GroupOfUnit,       \* [Units -> Groups]
          SymbolUnit,        \* [Symbols -> Units \cup {NoUnit}]
          StartStopSection,  \* [Symbols -> Sections \cup {NoSection}]
          Candidates,        \* [Sections -> SUBSET Units]
          CommonSymbols,     \* symbols that allocate a common block
          Exportable,        \* symbols of objects for which can_export_symbol holds
          Refs,              \* [Units -> SUBSET Request]
          Roots,             \* [Groups -> SUBSET Request], the requests of activation
          BadUnits,          \* units whose loading may return an error
          BadGroups,         \* groups in which activating a file may fail
          NoUnit, NoSection, \* "no unit", "no section"
          DIRECT, EXPORT_DYNAMIC, COPY_RELOCATION  \* members of Flags

(* What a task has to do for the file or the unit it is working on:        *)
(* a reference by a relocation, entry point or expression ("ref"), a unit  *)
(* that is kept unconditionally ("unit"), an export of a symbol of the     *)
(* task's own file ("export"), and a shared object's request that the      *)
(* definition of one of its undefined symbols be exported ("exportreq").   *)
RequestKinds == {"ref", "unit", "export", "exportreq"}
Request == {r \in [kind: RequestKinds, target: Symbols \cup Units, add: SUBSET Flags] :
              /\ r.kind = "unit" <=> r.target \in Units
              /\ r.kind # "ref" => r.add = {}
              /\ EXPORT_DYNAMIC \notin r.add}

(* enum WorkItem *)
WorkItem == ({"LoadGlobalSymbol", "CopyRelocateSymbol", "ExportDynamic"} \X Symbols)
              \cup ({"LoadGcUnit"} \X Units)

(* WorkItem::file_id, at the granularity of groups *)
Owner(item) == IF item[1] = "LoadGcUnit" THEN GroupOfUnit[item[2]]
                                         ELSE GroupOfSymbol[item[2]]

(* The units that loading symbol s pulls in. *)
UnitsOf(s) == IF StartStopSection[s] # NoSection THEN Candidates[StartStopSection[s]]
              ELSE {SymbolUnit[s]} \ {NoUnit}

ASSUME ConstantsAssumption ==
  /\ Symbols \cap Units = {}
  /\ NoUnit \notin Units
  /\ NoSection \notin Sections
  /\ {DIRECT, EXPORT_DYNAMIC, COPY_RELOCATION} \subseteq Flags
  /\ EXPORT_DYNAMIC # COPY_RELOCATION
  /\ GroupOfSymbol \in [Symbols -> Groups]
  /\ GroupOfUnit \in [Units -> Groups]
  /\ SymbolUnit \in [Symbols -> Units \cup {NoUnit}]
  /\ StartStopSection \in [Symbols -> Sections \cup {NoSection}]
  /\ Candidates \in [Sections -> SUBSET Units]
  /\ CommonSymbols \subseteq {s \in Symbols : UnitsOf(s) = {}}
  /\ Exportable \subseteq {s \in Symbols : StartStopSection[s] = NoSection}
  /\ BadUnits \subseteq Units /\ BadGroups \subseteq Groups

(* Relocations are references; a file keeps its own units only, and only a *)
(* file's own symbols are exported when it is activated.                   *)
ASSUME GraphAssumption ==
  /\ Refs \in [Units -> SUBSET {r \in Request : r.kind = "ref"}]
  /\ Roots \in [Groups -> SUBSET Request]
  /\ \A g \in Groups : \A r \in Roots[g] :
       /\ r.kind = "unit" => GroupOfUnit[r.target] = g
       /\ r.kind = "export" => r.target \in Exportable /\ GroupOfSymbol[r.target] = g

-----------------------------------------------------------------------------
VARIABLES
  worker,      \* where each GroupState is, see WorkerStates
  local_work,  \* LocalWorkQueue.local_work of each group, a bag
  slot_work,   \* WorkerSlot.work of each group, a bag
  todo,        \* requests the task of each group still has to handle
  outbox,      \* work items the task of each group is about to send
  flags,       \* per_symbol_flags, resolution flags only
  loads,       \* how often each unit was loaded and its space allocated
  commons,     \* how often space was allocated for each common symbol
  exports,     \* how often each symbol was put in dynamic_symbol_definitions
  copies,      \* how often each copy relocation request was handled
  candidates,  \* start_stop_sections: candidates not yet taken
  errors,      \* number of errors reported
  result,      \* result of traverse_reference_graph
  failed       \* history: units whose loading went wrong

vars == <<worker, local_work, slot_work, todo, outbox, flags, loads, commons,
          exports, copies, candidates, errors, result, failed>>

EmptyBag == [i \in WorkItem |-> 0]

Init ==
  /\ worker = [g \in Groups |-> "unstarted"]
  /\ local_work = [g \in Groups |-> EmptyBag]
  /\ slot_work = [g \in Groups |-> EmptyBag]
  /\ todo = [g \in Groups |-> {}]
  /\ outbox = [g \in Groups |-> {}]
  /\ flags = [s \in Symbols |-> {}]
  /\ loads = [u \in Units |-> 0]
  /\ commons = [s \in Symbols |-> 0]
  /\ exports = [s \in Symbols |-> 0]
  /\ copies = [s \in Symbols |-> 0]
  /\ candidates = Candidates
  /\ errors = 0
  /\ result = "none"
  /\ failed = {}

-----------------------------------------------------------------------------
(* The task of g starts and activates the group's files. *)
Activate(g) ==
  /\ worker[g] = "unstarted"
  /\ worker' = [worker EXCEPT ![g] = "activating"]
  /\ todo' = [todo EXCEPT ![g] = Roots[g]]
  /\ UNCHANGED <<local_work, slot_work, outbox, flags, loads, commons, exports,
                 copies, candidates, errors, result, failed>>

(* A file of g fails to activate: the error is recorded and the file's     *)
(* remaining requests are dropped; the group's other files still follow.   *)
ActivateFails(g) ==
  /\ worker[g] = "activating" /\ g \in BadGroups /\ outbox[g] = {}
  /\ \E rest \in SUBSET todo[g] :
       rest # todo[g] /\ todo' = [todo EXCEPT ![g] = rest]
  /\ errors' = errors + 1
  /\ UNCHANGED <<worker, local_work, slot_work, outbox, flags, loads, commons,
                 exports, copies, candidates, result, failed>>

(* All files of g are activated: the task enters do_pending_work. *)
StartWork(g) ==
  /\ worker[g] = "activating" /\ todo[g] = {} /\ outbox[g] = {}
  /\ worker' = [worker EXCEPT ![g] = "running"]
  /\ UNCHANGED <<local_work, slot_work, todo, outbox, flags, loads, commons,
                 exports, copies, candidates, errors, result, failed>>

-----------------------------------------------------------------------------
(* The task of g handles request r next. *)
Handles(g, r) == r \in todo[g] /\ outbox[g] = {} /\ todo' = [todo EXCEPT ![g] = @ \ {r}]

(* A relocation, entry point or expression refers to r.target.  The task   *)
(* that makes the symbol's resolution flags non-empty asks its owner to    *)
(* load it, and the task that adds COPY_RELOCATION asks for the copy.  A   *)
(* relocation kind that adds no flag (r.add = {}) asks every time it finds *)
(* the flags empty.                                                        *)
NoteReference(g) ==
  \E r \in todo[g] :
    LET s == r.target
        previous == flags[s]
    IN /\ r.kind = "ref"
       /\ Handles(g, r)
       /\ flags' = [flags EXCEPT ![s] = @ \cup r.add]
       /\ outbox' = [outbox EXCEPT ![g] =
            (IF previous = {} THEN {<<"LoadGlobalSymbol", s>>} ELSE {})
            \cup (IF COPY_RELOCATION \in r.add \ previous
                  THEN {<<"CopyRelocateSymbol", s>>} ELSE {})]
       /\ UNCHANGED <<worker, local_work, slot_work, loads, commons, exports, copies,
                      candidates, errors, result, failed>>

(* Activation requests a unit of the task's own group, or asks the group   *)
(* that defines a shared object's undefined symbol to export it.           *)
RequestWork(g) ==
  \E r \in todo[g] :
    /\ r.kind \in {"unit", "exportreq"}
    /\ Handles(g, r)
    /\ outbox' = [outbox EXCEPT ![g] =
         {<<IF r.kind = "unit" THEN "LoadGcUnit" ELSE "ExportDynamic", r.target>>}]
    /\ UNCHANGED <<worker, local_work, slot_work, flags, loads, commons, exports,
                   copies, candidates, errors, result, failed>>

(* Mutant: space for a common symbol without consulting                    *)
(* allocated_common_symbols.                                               *)
LoadSymbolAllocatesAgain(g, s) ==
  LET sec == StartStopSection[s]
      units == IF sec # NoSection THEN candidates[sec] ELSE UnitsOf(s)
  IN /\ outbox' = [outbox EXCEPT ![g] = {<<"LoadGcUnit", u>> : u \in units}]
     /\ candidates' = IF sec # NoSection THEN [candidates EXCEPT ![sec] = {}] ELSE candidates
     /\ commons' = IF s \in CommonSymbols THEN [commons EXCEPT ![s] = @ + 1] ELSE commons

(* load_symbol: what the owner of symbol s does when s is first needed.    *)
(* The candidates of a __start_/__stop_ section are taken from the list;   *)
(* a common symbol gets space unless it already has some.                  *)
LoadSymbol(g, s) ==
  LET sec == StartStopSection[s]
      units == IF sec # NoSection THEN candidates[sec] ELSE UnitsOf(s)
  IN /\ outbox' = [outbox EXCEPT ![g] = {<<"LoadGcUnit", u>> : u \in units}]
     /\ candidates' = IF sec # NoSection THEN [candidates EXCEPT ![sec] = {}] ELSE candidates
     /\ commons' = IF s \in CommonSymbols /\ commons[s] = 0
                   THEN [commons EXCEPT ![s] = 1] ELSE commons

(* Mutant: exporting sets the flag but does not load the symbol. *)
ExportWithoutLoading(g, s) ==
  /\ flags' = [flags EXCEPT ![s] = @ \cup {EXPORT_DYNAMIC}]
  /\ UNCHANGED <<outbox, candidates, commons>>
  /\ exports' = IF EXPORT_DYNAMIC \in flags[s] THEN exports
                ELSE [exports EXCEPT ![s] = @ + 1]

(* export_dynamic and one round of load_non_hidden_symbols for symbol s.   *)
ExportSymbol(g, s) ==
  LET old == flags[s] IN
  /\ flags' = [flags EXCEPT ![s] = @ \cup {EXPORT_DYNAMIC}]
  /\ IF old = {} THEN LoadSymbol(g, s) ELSE UNCHANGED <<outbox, candidates, commons>>
  /\ exports' = IF EXPORT_DYNAMIC \in old THEN exports
                ELSE [exports EXCEPT ![s] = @ + 1]

(* load_non_hidden_symbols during activation. *)
ExportOwnSymbol(g) ==
  \E r \in todo[g] :
    /\ r.kind = "export"
    /\ Handles(g, r)
    /\ ExportSymbol(g, r.target)
    /\ UNCHANGED <<worker, local_work, slot_work, loads, copies, errors, result, failed>>

-----------------------------------------------------------------------------
(* Mutant: the item is pushed without taking the worker from the slot. *)
SendWithoutWaking(g) ==
  \E item \in outbox[g] :
    LET h == Owner(item) IN
    /\ outbox' = [outbox EXCEPT ![g] = @ \ {item}]
    /\ IF h = g
       THEN /\ local_work' = [local_work EXCEPT ![g][item] = @ + 1]
            /\ UNCHANGED slot_work
       ELSE /\ slot_work' = [slot_work EXCEPT ![h][item] = @ + 1]
            /\ UNCHANGED local_work
    /\ UNCHANGED <<worker, todo, flags, loads, commons, exports, copies, candidates,
                   errors, result, failed>>

(* send_work: an item for the task's own group goes to its local queue.    *)
(* Otherwise, under the mutex of the owner's slot, the item is pushed and  *)
(* a parked owner is taken out of the slot and given a new task.           *)
SendWork(g) ==
  \E item \in outbox[g] :
    LET h == Owner(item) IN
    /\ outbox' = [outbox EXCEPT ![g] = @ \ {item}]
    /\ IF h = g
       THEN /\ local_work' = [local_work EXCEPT ![g][item] = @ + 1]
            /\ UNCHANGED <<worker, slot_work>>
       ELSE /\ slot_work' = [slot_work EXCEPT ![h][item] = @ + 1]
            /\ worker' = IF worker[h] = "parked" THEN [worker EXCEPT ![h] = "running"]
                                                 ELSE worker
            /\ UNCHANGED local_work
    /\ UNCHANGED <<todo, flags, loads, commons, exports, copies, candidates, errors, result, failed>>

(* Mutant: pending work is done while files are still being activated. *)
IdleWhileActivating(g) == worker[g] \in {"activating", "running"} /\ outbox[g] = {}

(* The task of g is between two work items. *)
Idle(g) == worker[g] = "running" /\ todo[g] = {} /\ outbox[g] = {}

(* The task of g pops an item from its local queue. *)
Pops(g, item) ==
  /\ Idle(g) /\ local_work[g][item] > 0
  /\ local_work' = [local_work EXCEPT ![g][item] = @ - 1]

DoLoadGlobalSymbol(g) ==
  \E s \in Symbols :
    /\ Pops(g, <<"LoadGlobalSymbol", s>>)
    /\ LoadSymbol(g, s)
    /\ UNCHANGED <<worker, slot_work, todo, flags, loads, exports, copies, errors, result, failed>>

(* handle_section_load_request: a unit that is already loaded is left      *)
(* alone; otherwise it is loaded and its relocations are to be processed.  *)
DoLoadGcUnit(g) ==
  \E u \in Units :
    /\ Pops(g, <<"LoadGcUnit", u>>)
    /\ IF loads[u] > 0
       THEN UNCHANGED <<loads, todo>>
       ELSE /\ loads' = [loads EXCEPT ![u] = @ + 1]
            /\ todo' = [todo EXCEPT ![g] = Refs[u]]
    /\ UNCHANGED <<worker, slot_work, outbox, flags, commons, exports, copies,
                   candidates, errors, result, failed>>

(* Loading a unit goes wrong after some of its relocations were processed. *)
DoLoadBadUnit(g) ==
  \E u \in BadUnits :
    /\ Pops(g, <<"LoadGcUnit", u>>)
    /\ loads[u] = 0
    /\ \E done \in SUBSET Refs[u] : todo' = [todo EXCEPT ![g] = done]
    /\ worker' = [worker EXCEPT ![g] = "failing"]
    /\ failed' = failed \cup {u}
    /\ UNCHANGED <<slot_work, outbox, flags, loads, commons, exports, copies,
                   candidates, errors, result>>

(* Mutant: the units of the dropped group count as not loaded again. *)
ReportErrorUnloads(g) ==
  /\ worker[g] = "failing" /\ todo[g] = {} /\ outbox[g] = {}
  /\ worker' = [worker EXCEPT ![g] = "lost"]
  /\ errors' = errors + 1
  /\ local_work' = [local_work EXCEPT ![g] = EmptyBag]
  /\ loads' = [u \in Units |-> IF GroupOfUnit[u] = g THEN 0 ELSE loads[u]]
  /\ UNCHANGED <<slot_work, todo, outbox, flags, commons, exports, copies, candidates,
                 result, failed>>

(* do_pending_work returns on the error: the GroupState is dropped. *)
ReportError(g) ==
  /\ worker[g] = "failing" /\ todo[g] = {} /\ outbox[g] = {}
  /\ worker' = [worker EXCEPT ![g] = "lost"]
  /\ errors' = errors + 1
  /\ local_work' = [local_work EXCEPT ![g] = EmptyBag]
  /\ UNCHANGED <<slot_work, todo, outbox, flags, loads, commons, exports, copies,
                 candidates, result, failed>>

(* Only an object exports; other files, and symbols that cannot be         *)
(* exported, ignore the request.                                           *)
DoExportDynamic(g) ==
  \E s \in Symbols :
    /\ Pops(g, <<"ExportDynamic", s>>)
    /\ IF s \in Exportable THEN ExportSymbol(g, s)
       ELSE UNCHANGED <<flags, outbox, candidates, commons, exports>>
    /\ UNCHANGED <<worker, slot_work, todo, loads, copies, errors, result, failed>>

DoCopyRelocateSymbol(g) ==
  \E s \in Symbols :
    /\ Pops(g, <<"CopyRelocateSymbol", s>>)
    /\ copies' = [copies EXCEPT ![s] = @ + 1]
    /\ UNCHANGED <<worker, slot_work, todo, outbox, flags, loads, commons, exports,
                   candidates, errors, result, failed>>

(* The local queue is empty: under the mutex of its own slot the task      *)
(* either takes the work that was sent to it, or parks the group and ends. *)
ParkOrSwap(g) ==
  /\ Idle(g) /\ local_work[g] = EmptyBag
  /\ IF slot_work[g] = EmptyBag
     THEN /\ worker' = [worker EXCEPT ![g] = "parked"]
          /\ UNCHANGED <<local_work, slot_work>>
     ELSE /\ local_work' = [local_work EXCEPT ![g] = slot_work[g]]
          /\ slot_work' = [slot_work EXCEPT ![g] = EmptyBag]
          /\ UNCHANGED worker
  /\ UNCHANGED <<todo, outbox, flags, loads, commons, exports, copies, candidates,
                 errors, result, failed>>

(* Mutant: the traversal waits until every group is back in its slot. *)
AllParked == \A g \in Groups : worker[g] = "parked"

(* The scope ends when it has no task left; the traversal then fails with  *)
(* one of the errors, or returns the parked groups.                        *)
Quiescent == \A g \in Groups : worker[g] \in {"parked", "lost"}

Finish ==
  /\ result = "none" /\ Quiescent
  /\ result' = IF errors > 0 THEN "err" ELSE "ok"
  /\ UNCHANGED <<worker, local_work, slot_work, todo, outbox, flags, loads, commons,
                 exports, copies, candidates, errors, failed>>

(* Nothing happens after traverse_reference_graph has returned. *)
Returned == result # "none" /\ UNCHANGED vars

Step(g) ==
  \/ Activate(g) \/ ActivateFails(g) \/ StartWork(g)
  \/ NoteReference(g) \/ RequestWork(g) \/ ExportOwnSymbol(g) \/ SendWork(g)
  \/ DoLoadGlobalSymbol(g) \/ DoLoadGcUnit(g) \/ DoLoadBadUnit(g) \/ ReportError(g)
  \/ DoExportDynamic(g) \/ DoCopyRelocateSymbol(g) \/ ParkOrSwap(g)

Next == (\E g \in Groups : Step(g)) \/ Finish \/ Returned

Spec == Init /\ [][Next]_vars

(* rayon runs every spawned task, and a task never waits for another one   *)
(* except for the short critical sections of the slots.                    *)
Fairness == (\A g \in Groups : WF_vars(Step(g))) /\ WF_vars(Finish)

FairSpec == Spec /\ Fairness
-----------------------------------------------------------------------------
(* What the traversal should keep, independent of any order of steps.      *)

(* Whether handling r makes its target symbol needed. *)
Effective(r) == r.kind = "exportreq" => r.target \in Exportable

(* The units a request leads to. *)
UnitsOfRequest(r) == IF r.kind = "unit" THEN {r.target}
                     ELSE IF Effective(r) THEN UnitsOf(r.target) ELSE {}

AllRoots == UNION {Roots[g] : g \in Groups}
RootUnits == UNION {UnitsOfRequest(r) : r \in AllRoots}
Successors == [u \in Units |-> UNION {UnitsOfRequest(r) : r \in Refs[u]}]

Kept == {u \in Units : loads[u] > 0}

(* The traversal as an unordered marking of the reference graph.  A unit   *)
(* whose loading goes wrong is not kept, but the relocations processed     *)
(* before that have been followed: it counts as marked.                    *)
Marking == INSTANCE ReferenceMarking
             WITH Nodes <- Units, RootNodes <- RootUnits, needs <- Successors,
                  kept <- Kept \cup failed, outcome <- result

(* The flags a symbol must end up with when the kept units are K. *)
ExpectedFlags(s, K) ==
  LET reqs == {r \in AllRoots \cup (UNION {Refs[u] : u \in K}) : r.target = s}
  IN (UNION {r.add : r \in reqs})
       \cup {f \in {EXPORT_DYNAMIC} : \E r \in reqs : r.kind # "ref" /\ Effective(r)}

WorkerStates == {"unstarted", "activating", "running", "failing", "parked", "lost"}

TypeOK ==
  /\ worker \in [Groups -> WorkerStates]
  /\ local_work \in [Groups -> [WorkItem -> Nat]]
  /\ slot_work \in [Groups -> [WorkItem -> Nat]]
  /\ todo \in [Groups -> SUBSET Request]
  /\ outbox \in [Groups -> SUBSET WorkItem]
  /\ flags \in [Symbols -> SUBSET Flags]
  /\ loads \in [Units -> Nat]
  /\ commons \in [Symbols -> Nat] /\ exports \in [Symbols -> Nat] /\ copies \in [Symbols -> Nat]
  /\ candidates \in [Sections -> SUBSET Units]
  /\ errors \in Nat
  /\ result \in {"none", "ok", "err"}
  /\ failed \subseteq BadUnits

(* The state is well formed, and space is reserved once however many tasks *)
(* ask for it: a unit is loaded once, a common symbol gets one block, a    *)
(* symbol gets one dynamic symbol table entry, and a copy relocation is    *)
(* requested once.                                                         *)
AllocatedOnce ==
  /\ TypeOK
  /\ \A u \in Units : loads[u] <= 1
  /\ \A s \in Symbols : commons[s] <= 1 /\ exports[s] <= 1 /\ copies[s] <= 1

(* No lost wake-up: a group parked in its slot has no work waiting for it. *)
ParkedHasNoWork ==
  \A g \in Groups : worker[g] = "parked" =>
    slot_work[g] = EmptyBag /\ local_work[g] = EmptyBag /\ todo[g] = {} /\ outbox[g] = {}

(* A traversal that returns Ok has every group's state back, has kept all  *)
(* that is reachable, and has given every symbol exactly the flags its     *)
(* live references ask for, whatever the order in which the tasks ran.     *)
OkIsComplete ==
  result = "ok" =>
    /\ \A g \in Groups : worker[g] = "parked"
    /\ Kept = Marking!Reachable
    /\ \A s \in Symbols : flags[s] = ExpectedFlags(s, Kept)
    /\ \A s \in Symbols : exports[s] = 1 <=> EXPORT_DYNAMIC \in flags[s]
    /\ \A s \in Symbols : copies[s] = 1 <=> COPY_RELOCATION \in flags[s]
    /\ \A s \in CommonSymbols : flags[s] # {} => commons[s] = 1

(* Exception frames are attached to sections while a group's files are     *)
(* activated; no section of the group is loaded before that is over.       *)
ActivatedBeforeLoading ==
  \A u \in Kept : worker[GroupOfUnit[u]] \notin {"unstarted", "activating"}

(* The traversal comes to an end. *)
Terminates == <>(result # "none")

(* The traversal implements the marking of the reference graph. *)
ImplementsMarking == Marking!Spec
=============================================================================
