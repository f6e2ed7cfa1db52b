------------------------ MODULE ReferenceGraphProofs ------------------------
(* Theorems about ReferenceGraph for every reference graph. *)
EXTENDS ReferenceGraph, TLAPS

-----------------------------------------------------------------------------
(* Facts about the building blocks *)

(* Every kind of work item is one, and has the group of its target as owner. *)
LEMMA WorkItems ==
  /\ \A s \in Symbols :
       /\ <<"LoadGlobalSymbol", s>> \in WorkItem
       /\ <<"CopyRelocateSymbol", s>> \in WorkItem
       /\ <<"ExportDynamic", s>> \in WorkItem
       /\ Owner(<<"LoadGlobalSymbol", s>>) = GroupOfSymbol[s]
       /\ Owner(<<"CopyRelocateSymbol", s>>) = GroupOfSymbol[s]
       /\ Owner(<<"ExportDynamic", s>>) = GroupOfSymbol[s]
  /\ \A u \in Units : /\ <<"LoadGcUnit", u>> \in WorkItem
                      /\ Owner(<<"LoadGcUnit", u>>) = GroupOfUnit[u]
  BY DEF WorkItem, Owner

(* Every work item belongs to a group. *)
LEMMA OwnerType == \A item \in WorkItem : Owner(item) \in Groups
  BY ConstantsAssumption DEF WorkItem, Owner

(* The fields of a request. *)
LEMMA RequestFields ==
  \A r \in Request :
    /\ r.kind \in RequestKinds /\ r.add \in SUBSET Flags
    /\ r.kind = "unit" => r.target \in Units
    /\ r.kind # "unit" => r.target \in Symbols
    /\ r.kind # "ref" => r.add = {}
    /\ EXPORT_DYNAMIC \notin r.add
  BY ConstantsAssumption DEF Request

(* Loading a symbol pulls in units. *)
LEMMA UnitsOfType == \A s \in Symbols : UnitsOf(s) \in SUBSET Units
  BY ConstantsAssumption DEF UnitsOf

(* Changing the number of copies of one item keeps a family of bags one. *)
LEMMA BagUpdate ==
  ASSUME NEW B, B \in [Groups -> [WorkItem -> Nat]], NEW g \in Groups,
         NEW item \in WorkItem, NEW n \in Nat
  PROVE  [B EXCEPT ![g][item] = n] \in [Groups -> [WorkItem -> Nat]]
  OBVIOUS

(* The empty queue is a bag of work items. *)
LEMMA EmptyBagType == EmptyBag \in [WorkItem -> Nat]
  BY DEF EmptyBag

-----------------------------------------------------------------------------
(* Type correctness *)

(* load_symbol leaves the variables it changes well-typed. *)
LEMMA LoadSymbolType ==
  ASSUME TypeOK, NEW g \in Groups, NEW s \in Symbols, LoadSymbol(g, s)
  PROVE  /\ outbox' \in [Groups -> SUBSET WorkItem]
         /\ candidates' \in [Sections -> SUBSET Units]
         /\ commons' \in [Symbols -> Nat]
<1> DEFINE sec == StartStopSection[s]
           units == IF sec # NoSection THEN candidates[sec] ELSE UnitsOf(s)
<1>1. units \in SUBSET Units
  BY ConstantsAssumption, UnitsOfType DEF TypeOK
<1>2. {<<"LoadGcUnit", u>> : u \in units} \in SUBSET WorkItem
  BY <1>1, WorkItems
<1>3. outbox' = [outbox EXCEPT ![g] = {<<"LoadGcUnit", u>> : u \in units}]
  BY DEF LoadSymbol
<1>4. outbox' \in [Groups -> SUBSET WorkItem]
  BY <1>2, <1>3 DEF TypeOK
<1>5. candidates' \in [Sections -> SUBSET Units]
  BY ConstantsAssumption DEF LoadSymbol, TypeOK
<1>6. commons' \in [Symbols -> Nat]
  BY DEF LoadSymbol, TypeOK
<1> QED
  BY <1>4, <1>5, <1>6

(* So does exporting a symbol. *)
LEMMA ExportSymbolType ==
  ASSUME TypeOK, NEW g \in Groups, NEW s \in Symbols, ExportSymbol(g, s)
  PROVE  /\ outbox' \in [Groups -> SUBSET WorkItem]
         /\ candidates' \in [Sections -> SUBSET Units]
         /\ commons' \in [Symbols -> Nat]
         /\ flags' \in [Symbols -> SUBSET Flags]
         /\ exports' \in [Symbols -> Nat]
<1>1. /\ outbox' \in [Groups -> SUBSET WorkItem]
      /\ candidates' \in [Sections -> SUBSET Units]
      /\ commons' \in [Symbols -> Nat]
  BY LoadSymbolType DEF ExportSymbol, TypeOK
<1>2. flags' \in [Symbols -> SUBSET Flags] /\ exports' \in [Symbols -> Nat]
  BY ConstantsAssumption DEF ExportSymbol, TypeOK
<1> QED
  BY <1>1, <1>2

(* So does taking an item that is there from a queue. *)
LEMMA PopsType ==
  ASSUME TypeOK, NEW g \in Groups, NEW item \in WorkItem, Pops(g, item)
  PROVE  local_work' \in [Groups -> [WorkItem -> Nat]]
<1>1. local_work[g][item] - 1 \in Nat
  BY DEF Pops, TypeOK
<1> QED
  BY <1>1, BagUpdate DEF Pops, TypeOK

(* The initial state is well-typed. *)
LEMMA TypeInit == Init => TypeOK
  BY ConstantsAssumption, EmptyBagType DEF Init, TypeOK, WorkerStates

(* Every step keeps the types, action by action. *)
LEMMA TypeStep == TypeOK /\ [Next]_vars => TypeOK'
<1> SUFFICES ASSUME TypeOK, [Next]_vars PROVE TypeOK'
  OBVIOUS
<1>1. ASSUME NEW g \in Groups, Activate(g) PROVE TypeOK'
  BY <1>1, GraphAssumption DEF Activate, TypeOK, WorkerStates
<1>2. ASSUME NEW g \in Groups, ActivateFails(g) PROVE TypeOK'
  BY <1>2 DEF ActivateFails, TypeOK
<1>3. ASSUME NEW g \in Groups, StartWork(g) PROVE TypeOK'
  BY <1>3 DEF StartWork, TypeOK, WorkerStates
<1>4. ASSUME NEW g \in Groups, NoteReference(g) PROVE TypeOK'
  <2>1. PICK r \in todo[g] :
          /\ r.kind = "ref" /\ Handles(g, r)
          /\ flags' = [flags EXCEPT ![r.target] = @ \cup r.add]
          /\ outbox' = [outbox EXCEPT ![g] =
               (IF flags[r.target] = {} THEN {<<"LoadGlobalSymbol", r.target>>} ELSE {})
               \cup (IF COPY_RELOCATION \in r.add \ flags[r.target]
                     THEN {<<"CopyRelocateSymbol", r.target>>} ELSE {})]
    BY <1>4 DEF NoteReference
  <2>2. r \in Request /\ r.target \in Symbols /\ r.add \in SUBSET Flags
    BY <2>1, RequestFields DEF TypeOK
  <2>3. outbox' \in [Groups -> SUBSET WorkItem]
    BY <2>1, <2>2, WorkItems, ZenonT(60) DEF TypeOK
  <2>4. flags' \in [Symbols -> SUBSET Flags]
    BY <2>1, <2>2 DEF TypeOK
  <2> QED
    BY <1>4, <2>1, <2>3, <2>4 DEF NoteReference, Handles, TypeOK
<1>5. ASSUME NEW g \in Groups, RequestWork(g) PROVE TypeOK'
  <2>1. PICK r \in todo[g] :
          /\ r.kind \in {"unit", "exportreq"} /\ Handles(g, r)
          /\ outbox' = [outbox EXCEPT ![g] =
               {<<IF r.kind = "unit" THEN "LoadGcUnit" ELSE "ExportDynamic", r.target>>}]
    BY <1>5 DEF RequestWork
  <2>2. r \in Request
    BY <2>1 DEF TypeOK
  <2>3. <<IF r.kind = "unit" THEN "LoadGcUnit" ELSE "ExportDynamic", r.target>> \in WorkItem
    BY <2>1, <2>2, RequestFields, WorkItems
  <2>4. outbox' \in [Groups -> SUBSET WorkItem]
    BY <2>1, <2>3 DEF TypeOK
  <2> QED
    BY <1>5, <2>1, <2>4 DEF RequestWork, Handles, TypeOK
<1>6. ASSUME NEW g \in Groups, ExportOwnSymbol(g) PROVE TypeOK'
  <2>1. PICK r \in todo[g] : r.kind = "export" /\ Handles(g, r) /\ ExportSymbol(g, r.target)
    BY <1>6 DEF ExportOwnSymbol
  <2>2. r.target \in Symbols
    BY <2>1, RequestFields DEF TypeOK
  <2> QED
    BY <1>6, <2>1, <2>2, ExportSymbolType DEF ExportOwnSymbol, Handles, TypeOK
<1>7. ASSUME NEW g \in Groups, SendWork(g) PROVE TypeOK'
  <2>1. PICK item \in outbox[g] :
          /\ outbox' = [outbox EXCEPT ![g] = @ \ {item}]
          /\ IF Owner(item) = g
             THEN /\ local_work' = [local_work EXCEPT ![g][item] = @ + 1]
                  /\ UNCHANGED <<worker, slot_work>>
             ELSE /\ slot_work' = [slot_work EXCEPT ![Owner(item)][item] = @ + 1]
                  /\ worker' = IF worker[Owner(item)] = "parked"
                               THEN [worker EXCEPT ![Owner(item)] = "running"] ELSE worker
                  /\ UNCHANGED local_work
    BY <1>7 DEF SendWork
  <2>2. item \in WorkItem /\ Owner(item) \in Groups
    BY <2>1, OwnerType DEF TypeOK
  <2>3. /\ local_work[g][item] + 1 \in Nat
        /\ slot_work[Owner(item)][item] + 1 \in Nat
    BY <2>2 DEF TypeOK
  <2>4. /\ local_work' \in [Groups -> [WorkItem -> Nat]]
        /\ slot_work' \in [Groups -> [WorkItem -> Nat]]
    <3>1. [local_work EXCEPT ![g][item] = @ + 1] \in [Groups -> [WorkItem -> Nat]]
      BY <2>2, <2>3, BagUpdate DEF TypeOK
    <3>2. [slot_work EXCEPT ![Owner(item)][item] = @ + 1] \in [Groups -> [WorkItem -> Nat]]
      BY <2>2, <2>3, BagUpdate DEF TypeOK
    <3> QED
      BY <2>1, <3>1, <3>2 DEF TypeOK
  <2>5. worker' \in [Groups -> WorkerStates]
    BY <2>1, <2>2 DEF TypeOK, WorkerStates
  <2> QED
    BY <1>7, <2>1, <2>4, <2>5 DEF SendWork, TypeOK
<1>8. ASSUME NEW g \in Groups, DoLoadGlobalSymbol(g) PROVE TypeOK'
  BY <1>8, WorkItems, PopsType, LoadSymbolType DEF DoLoadGlobalSymbol, TypeOK
<1>9. ASSUME NEW g \in Groups, DoLoadGcUnit(g) PROVE TypeOK'
  <2>1. PICK u \in Units :
          /\ Pops(g, <<"LoadGcUnit", u>>)
          /\ IF loads[u] > 0 THEN UNCHANGED <<loads, todo>>
             ELSE /\ loads' = [loads EXCEPT ![u] = @ + 1]
                  /\ todo' = [todo EXCEPT ![g] = Refs[u]]
    BY <1>9 DEF DoLoadGcUnit
  <2>2. Refs[u] \in SUBSET Request
    BY GraphAssumption
  <2>3. loads' \in [Units -> Nat]
    <3>1. loads \in [Units -> Nat] /\ loads[u] + 1 \in Nat
      BY DEF TypeOK
    <3> QED
      BY <2>1, <3>1
  <2>4. todo' \in [Groups -> SUBSET Request]
    BY <2>1, <2>2 DEF TypeOK
  <2> QED
    BY <1>9, <2>4, <2>1, <2>3, WorkItems, PopsType DEF DoLoadGcUnit, TypeOK
<1>10. ASSUME NEW g \in Groups, DoLoadBadUnit(g) PROVE TypeOK'
  <2>1. PICK u \in BadUnits :
          /\ Pops(g, <<"LoadGcUnit", u>>)
          /\ \E done \in SUBSET Refs[u] : todo' = [todo EXCEPT ![g] = done]
    BY <1>10 DEF DoLoadBadUnit
  <2>2. u \in Units /\ Refs[u] \in SUBSET Request
    BY GraphAssumption, ConstantsAssumption
  <2>3. todo' \in [Groups -> SUBSET Request]
    BY <2>1, <2>2 DEF TypeOK
  <2> QED
    BY <1>10, <2>1, <2>2, <2>3, WorkItems, PopsType DEF DoLoadBadUnit, TypeOK, WorkerStates
<1>11. ASSUME NEW g \in Groups, ReportError(g) PROVE TypeOK'
  BY <1>11, EmptyBagType DEF ReportError, TypeOK, WorkerStates
<1>12. ASSUME NEW g \in Groups, DoExportDynamic(g) PROVE TypeOK'
  <2>1. PICK s \in Symbols :
          /\ Pops(g, <<"ExportDynamic", s>>)
          /\ IF s \in Exportable THEN ExportSymbol(g, s)
             ELSE UNCHANGED <<flags, outbox, candidates, commons, exports>>
    BY <1>12 DEF DoExportDynamic
  <2> QED
    BY <1>12, <2>1, WorkItems, PopsType, ExportSymbolType DEF DoExportDynamic, TypeOK
<1>13. ASSUME NEW g \in Groups, DoCopyRelocateSymbol(g) PROVE TypeOK'
  <2>1. PICK s \in Symbols : /\ Pops(g, <<"CopyRelocateSymbol", s>>)
                             /\ copies' = [copies EXCEPT ![s] = @ + 1]
    BY <1>13 DEF DoCopyRelocateSymbol
  <2>2. copies' \in [Symbols -> Nat]
    BY <2>1 DEF TypeOK
  <2> QED
    BY <1>13, <2>1, <2>2, WorkItems, PopsType DEF DoCopyRelocateSymbol, TypeOK
<1>14. ASSUME NEW g \in Groups, ParkOrSwap(g) PROVE TypeOK'
  BY <1>14, EmptyBagType DEF ParkOrSwap, TypeOK, WorkerStates
<1>15. ASSUME Finish PROVE TypeOK'
  BY <1>15 DEF Finish, TypeOK
<1>16. ASSUME UNCHANGED vars PROVE TypeOK'
  BY <1>16 DEF vars, TypeOK
<1> QED
  BY <1>1, <1>2, <1>3, <1>4, <1>5, <1>6, <1>7, <1>8, <1>9, <1>10, <1>11, <1>12,
     <1>13, <1>14, <1>15, <1>16 DEF Next, Step, Returned

(* Every variable keeps its type through every step of the traversal. *)
THEOREM TypeCorrect == Spec => []TypeOK
  BY TypeInit, TypeStep, PTL DEF Spec

-----------------------------------------------------------------------------
(* No lost wake-up.  ParkedHasNoWork is inductive: a task that has         *)
(* something to handle or to send is not parked, an item for a parked      *)
(* group wakes it up in the same step, and a group parks only when it has  *)
(* found both of its queues empty.                                         *)

(* Initially no group is parked. *)
LEMMA ParkedInit == Init => ParkedHasNoWork
  BY DEF Init, ParkedHasNoWork

(* No step leaves work with a parked group, action by action. *)
LEMMA ParkedStep == TypeOK /\ ParkedHasNoWork /\ [Next]_vars => ParkedHasNoWork'
<1> SUFFICES ASSUME TypeOK, ParkedHasNoWork, [Next]_vars, NEW h \in Groups,
                    worker'[h] = "parked"
             PROVE  /\ slot_work'[h] = EmptyBag /\ local_work'[h] = EmptyBag
                    /\ todo'[h] = {} /\ outbox'[h] = {}
  BY DEF ParkedHasNoWork, EmptyBag
<1> DEFINE Quiet == /\ slot_work'[h] = EmptyBag /\ local_work'[h] = EmptyBag
                    /\ todo'[h] = {} /\ outbox'[h] = {}
<1>a. worker[h] = "parked" => /\ slot_work[h] = EmptyBag /\ local_work[h] = EmptyBag
                              /\ todo[h] = {} /\ outbox[h] = {}
  BY DEF ParkedHasNoWork
<1>1. ASSUME NEW g \in Groups, Activate(g) PROVE Quiet
  BY <1>1, <1>a DEF Activate, TypeOK
<1>2. ASSUME NEW g \in Groups, ActivateFails(g) PROVE Quiet
  BY <1>2, <1>a DEF ActivateFails, TypeOK
<1>3. ASSUME NEW g \in Groups, StartWork(g) PROVE Quiet
  BY <1>3, <1>a DEF StartWork, TypeOK
<1>4. ASSUME NEW g \in Groups, NoteReference(g) PROVE Quiet
  <2>1. g # h
    BY <1>4, <1>a DEF NoteReference
  <2> QED
    BY <1>4, <2>1, <1>a DEF NoteReference, Handles, TypeOK
<1>5. ASSUME NEW g \in Groups, RequestWork(g) PROVE Quiet
  <2>1. g # h
    BY <1>5, <1>a DEF RequestWork
  <2> QED
    BY <1>5, <2>1, <1>a DEF RequestWork, Handles, TypeOK
<1>6. ASSUME NEW g \in Groups, ExportOwnSymbol(g) PROVE Quiet
  <2>1. g # h
    BY <1>6, <1>a DEF ExportOwnSymbol
  <2> QED
    BY <1>6, <2>1, <1>a DEF ExportOwnSymbol, ExportSymbol, LoadSymbol, Handles, TypeOK
<1>7. ASSUME NEW g \in Groups, SendWork(g) PROVE Quiet
  <2>1. PICK item \in outbox[g] :
          /\ outbox' = [outbox EXCEPT ![g] = @ \ {item}]
          /\ IF Owner(item) = g
             THEN /\ local_work' = [local_work EXCEPT ![g][item] = @ + 1]
                  /\ UNCHANGED <<worker, slot_work>>
             ELSE /\ slot_work' = [slot_work EXCEPT ![Owner(item)][item] = @ + 1]
                  /\ worker' = IF worker[Owner(item)] = "parked"
                               THEN [worker EXCEPT ![Owner(item)] = "running"] ELSE worker
                  /\ UNCHANGED local_work
    BY <1>7 DEF SendWork
  <2>2. Owner(item) \in Groups /\ UNCHANGED todo
    BY <1>7, <2>1, OwnerType DEF TypeOK, SendWork
  <2>3. worker[h] = "parked" /\ (Owner(item) # g => Owner(item) # h)
    BY <2>1, <2>2 DEF TypeOK
  <2>4. g # h
    BY <2>1, <2>3, <1>a
  <2> QED
    BY <2>1, <2>2, <2>3, <2>4, <1>a DEF TypeOK
<1>8. ASSUME NEW g \in Groups, DoLoadGlobalSymbol(g) PROVE Quiet
  <2>1. g # h
    BY <1>8 DEF DoLoadGlobalSymbol, Pops, Idle
  <2> QED
    BY <1>8, <2>1, <1>a DEF DoLoadGlobalSymbol, Pops, LoadSymbol, TypeOK
<1>9. ASSUME NEW g \in Groups, DoLoadGcUnit(g) PROVE Quiet
  <2>1. g # h
    BY <1>9 DEF DoLoadGcUnit, Pops, Idle
  <2> QED
    BY <1>9, <2>1, <1>a DEF DoLoadGcUnit, Pops, TypeOK
<1>10. ASSUME NEW g \in Groups, DoLoadBadUnit(g) PROVE Quiet
  <2>1. g # h
    BY <1>10 DEF DoLoadBadUnit, TypeOK
  <2> QED
    BY <1>10, <2>1, <1>a DEF DoLoadBadUnit, Pops, TypeOK
<1>11. ASSUME NEW g \in Groups, ReportError(g) PROVE Quiet
  <2>1. g # h
    BY <1>11 DEF ReportError, TypeOK
  <2> QED
    BY <1>11, <2>1, <1>a DEF ReportError, TypeOK
<1>12. ASSUME NEW g \in Groups, DoExportDynamic(g) PROVE Quiet
  <2>1. g # h
    BY <1>12 DEF DoExportDynamic, Pops, Idle
  <2> QED
    BY <1>12, <2>1, <1>a DEF DoExportDynamic, Pops, ExportSymbol, LoadSymbol, TypeOK
<1>13. ASSUME NEW g \in Groups, DoCopyRelocateSymbol(g) PROVE Quiet
  <2>1. g # h
    BY <1>13 DEF DoCopyRelocateSymbol, Pops, Idle
  <2> QED
    BY <1>13, <2>1, <1>a DEF DoCopyRelocateSymbol, Pops, TypeOK
<1>14. ASSUME NEW g \in Groups, ParkOrSwap(g) PROVE Quiet
  <2>1. CASE g = h
    <3>1. slot_work[h] = EmptyBag
      BY <1>14, <2>1 DEF ParkOrSwap, Idle
    <3> QED
      BY <1>14, <2>1, <3>1 DEF ParkOrSwap, Idle
  <2>2. CASE g # h
    BY <1>14, <2>2, <1>a DEF ParkOrSwap, TypeOK
  <2> QED
    BY <2>1, <2>2
<1>15. ASSUME Finish PROVE Quiet
  BY <1>15, <1>a DEF Finish
<1>16. ASSUME UNCHANGED vars PROVE Quiet
  BY <1>16, <1>a DEF vars
<1> QED
  BY <1>1, <1>2, <1>3, <1>4, <1>5, <1>6, <1>7, <1>8, <1>9, <1>10, <1>11, <1>12,
     <1>13, <1>14, <1>15, <1>16 DEF Next, Step, Returned

(* A group that is parked in its slot has no work waiting for it, whatever *)
(* the number of groups that send it work while it parks.                  *)
THEOREM NoLostWakeup == Spec => []ParkedHasNoWork
  BY TypeCorrect, ParkedInit, ParkedStep, PTL DEF Spec

-----------------------------------------------------------------------------
(* Space is allocated once.  The count of exports follows the flag that    *)
(* fetch_or sets.  For copy relocations the invariant follows the request: *)
(* the task that adds COPY_RELOCATION puts it in its outbox, from there it *)
(* goes to the queues of the symbol's own group, and from there to copies; *)
(* it is in at most one of these places, and in none before the flag is    *)
(* set.                                                                    *)

(* The request to reserve space for the copy of s. *)
CopyRequest(s) == <<"CopyRelocateSymbol", s>>

(* How often the request is queued by the owner of s, or handled. *)
CopyCount(s) ==
  local_work[GroupOfSymbol[s]][CopyRequest(s)] + slot_work[GroupOfSymbol[s]][CopyRequest(s)]
    + copies[s]

(* The request for s is in one place at most. *)
CopyOnce(s) ==
  /\ \A g \in Groups : g # GroupOfSymbol[s] =>
       local_work[g][CopyRequest(s)] = 0 /\ slot_work[g][CopyRequest(s)] = 0
  /\ CopyCount(s) <= 1
  /\ \A g \in Groups : CopyRequest(s) \in outbox[g] =>
       /\ CopyCount(s) = 0 /\ COPY_RELOCATION \in flags[s]
       /\ \A k \in Groups : CopyRequest(s) \in outbox[k] => k = g
  /\ COPY_RELOCATION \notin flags[s] => CopyCount(s) = 0

(* Units and common blocks are counted once; the exports of a symbol       *)
(* follow its EXPORT_DYNAMIC flag.                                         *)
OthersOnce ==
  /\ \A u \in Units : loads[u] <= 1
  /\ \A s \in Symbols : /\ commons[s] <= 1
                         /\ exports[s] = IF EXPORT_DYNAMIC \in flags[s] THEN 1 ELSE 0

(* The inductive invariant behind AllocatedOnce. *)
CountedOnce == OthersOnce /\ \A s \in Symbols : CopyOnce(s)

(* Initially nothing is counted and no copy is requested. *)
LEMMA CountedInit == Init => CountedOnce
<1> SUFFICES ASSUME Init PROVE CountedOnce
  OBVIOUS
<1>1. OthersOnce
  BY DEF Init, OthersOnce
<1>2. ASSUME NEW s \in Symbols PROVE CopyOnce(s)
  <2>1. CopyRequest(s) \in WorkItem /\ GroupOfSymbol[s] \in Groups
    BY WorkItems, ConstantsAssumption DEF CopyRequest
  <2>2. EmptyBag[CopyRequest(s)] = 0
    BY <2>1 DEF EmptyBag
  <2>3. \A g \in Groups : /\ local_work[g][CopyRequest(s)] = 0
                          /\ slot_work[g][CopyRequest(s)] = 0
                          /\ CopyRequest(s) \notin outbox[g]
    BY <2>2 DEF Init
  <2>4. CopyCount(s) = 0
    BY <2>1, <2>3 DEF CopyCount, Init
  <2> QED
    BY <2>3, <2>4 DEF CopyOnce
<1> QED
  BY <1>1, <1>2 DEF CountedOnce

(* A step that neither sends nor handles the request for s, and drops no   *)
(* flag of s, keeps the request in one place at most.                      *)
LEMMA CopyFrame ==
  ASSUME TypeOK, TypeOK', NEW s \in Symbols, CopyOnce(s),
         \A g \in Groups : /\ local_work'[g][CopyRequest(s)] <= local_work[g][CopyRequest(s)]
                           /\ slot_work'[g][CopyRequest(s)] <= slot_work[g][CopyRequest(s)]
                           /\ CopyRequest(s) \in outbox'[g] => CopyRequest(s) \in outbox[g],
         copies'[s] = copies[s],
         flags[s] \subseteq flags'[s]
  PROVE  CopyOnce(s)'
<1> DEFINE o == GroupOfSymbol[s]
           c == CopyRequest(s)
<1>1. o \in Groups /\ c \in WorkItem
  BY WorkItems, ConstantsAssumption DEF CopyRequest
<1>2. /\ \A g \in Groups : local_work[g][c] \in Nat /\ slot_work[g][c] \in Nat
      /\ \A g \in Groups : local_work'[g][c] \in Nat /\ slot_work'[g][c] \in Nat
      /\ copies[s] \in Nat
  BY <1>1 DEF TypeOK
<1>3. CopyCount(s)' <= CopyCount(s) /\ CopyCount(s)' \in Nat /\ CopyCount(s) \in Nat
  BY <1>1, <1>2 DEF CopyCount, CopyRequest
<1>4. \A g \in Groups : g # o => local_work'[g][c] = 0 /\ slot_work'[g][c] = 0
  BY <1>2 DEF CopyOnce
<1>5. CopyCount(s)' <= 1
  BY <1>3 DEF CopyOnce
<1>6. \A g \in Groups : c \in outbox'[g] =>
        /\ CopyCount(s)' = 0 /\ COPY_RELOCATION \in flags'[s]
        /\ \A k \in Groups : c \in outbox'[k] => k = g
  BY <1>3 DEF CopyOnce
<1>7. COPY_RELOCATION \notin flags'[s] => CopyCount(s)' = 0
  BY <1>3 DEF CopyOnce
<1> QED
  BY <1>4, <1>5, <1>6, <1>7 DEF CopyOnce, CopyRequest

(* Changing the copies of one item leaves the copies of every other item. *)
LEMMA BagOthers ==
  ASSUME NEW B, B \in [Groups -> [WorkItem -> Nat]], NEW g \in Groups,
         NEW item \in WorkItem, NEW n, NEW h \in Groups, NEW other \in WorkItem
  PROVE  [B EXCEPT ![g][item] = n][h][other] =
           IF h = g /\ other = item THEN n ELSE B[h][other]
  OBVIOUS

(* The items that load_symbol sends are not copy relocation requests. *)
LEMMA LoadSymbolNoCopy ==
  ASSUME TypeOK, NEW g \in Groups, NEW t \in Symbols, LoadSymbol(g, t),
         NEW s \in Symbols, NEW h \in Groups, CopyRequest(s) \in outbox'[h]
  PROVE  CopyRequest(s) \in outbox[h]
  BY DEF LoadSymbol, CopyRequest, TypeOK

(* Nor are the items that exporting a symbol sends. *)
LEMMA ExportSymbolNoCopy ==
  ASSUME TypeOK, NEW g \in Groups, NEW t \in Symbols, ExportSymbol(g, t),
         NEW s \in Symbols
  PROVE  /\ \A h \in Groups : CopyRequest(s) \in outbox'[h] => CopyRequest(s) \in outbox[h]
         /\ flags[s] \subseteq flags'[s]
<1>1. \A h \in Groups : CopyRequest(s) \in outbox'[h] => CopyRequest(s) \in outbox[h]
  BY LoadSymbolNoCopy DEF ExportSymbol
<1>2. flags[s] \subseteq flags'[s]
  BY DEF ExportSymbol, TypeOK
<1> QED
  BY <1>1, <1>2

(* Taking an item from a queue leaves the copies of the other items. *)
LEMMA PopsOthers ==
  ASSUME TypeOK, NEW g \in Groups, NEW item \in WorkItem, Pops(g, item),
         NEW h \in Groups, NEW other \in WorkItem
  PROVE  /\ local_work'[h][other] <= local_work[h][other]
         /\ (h # g \/ other # item) => local_work'[h][other] = local_work[h][other]
         /\ (h = g /\ other = item) =>
              local_work[h][other] > 0 /\ local_work'[h][other] = local_work[h][other] - 1
<1>1. local_work'[h][other] = IF h = g /\ other = item THEN local_work[g][item] - 1
                                                       ELSE local_work[h][other]
  BY BagOthers DEF Pops, TypeOK
<1>2. local_work[h][other] \in Nat /\ local_work[g][item] \in Nat /\ local_work[g][item] > 0
  BY DEF Pops, TypeOK
<1> QED
  BY <1>1, <1>2

(* Every step keeps the copy request for s in one place at most. *)
LEMMA CopyStep ==
  ASSUME TypeOK, TypeOK', [Next]_vars, NEW s \in Symbols, CopyOnce(s)
  PROVE  CopyOnce(s)'
<1> DEFINE o == GroupOfSymbol[s]
           c == CopyRequest(s)
<1>a. o \in Groups /\ c \in WorkItem /\ Owner(c) = o
  BY WorkItems, ConstantsAssumption DEF CopyRequest
<1>b. /\ \A g \in Groups : local_work[g][c] \in Nat /\ slot_work[g][c] \in Nat
      /\ \A g \in Groups : local_work'[g][c] \in Nat /\ slot_work'[g][c] \in Nat
      /\ copies[s] \in Nat /\ copies'[s] \in Nat
  BY <1>a DEF TypeOK
<1>c. EmptyBag[c] = 0
  BY <1>a DEF EmptyBag
<1>d. CopyCount(s) = local_work[o][c] + slot_work[o][c] + copies[s]
  BY DEF CopyCount
<1>e. CopyCount(s)' = local_work'[o][c] + slot_work'[o][c] + copies'[s]
  BY DEF CopyCount, CopyRequest
<1>1. ASSUME NEW g \in Groups, Activate(g) PROVE CopyOnce(s)'
  BY <1>1, <1>b, CopyFrame DEF Activate
<1>2. ASSUME NEW g \in Groups, ActivateFails(g) PROVE CopyOnce(s)'
  BY <1>2, <1>b, CopyFrame DEF ActivateFails
<1>3. ASSUME NEW g \in Groups, StartWork(g) PROVE CopyOnce(s)'
  BY <1>3, <1>b, CopyFrame DEF StartWork
<1>4. ASSUME NEW g \in Groups, NoteReference(g) PROVE CopyOnce(s)'
  <2>1. PICK r \in todo[g] :
          /\ r.kind = "ref" /\ outbox[g] = {}
          /\ flags' = [flags EXCEPT ![r.target] = @ \cup r.add]
          /\ outbox' = [outbox EXCEPT ![g] =
               (IF flags[r.target] = {} THEN {<<"LoadGlobalSymbol", r.target>>} ELSE {})
               \cup (IF COPY_RELOCATION \in r.add \ flags[r.target]
                     THEN {<<"CopyRelocateSymbol", r.target>>} ELSE {})]
    BY <1>4 DEF NoteReference, Handles
  <2>2. r.target \in Symbols /\ r.add \in SUBSET Flags
    BY <2>1, RequestFields DEF TypeOK
  <2>3. UNCHANGED <<local_work, slot_work, copies>>
    BY <1>4 DEF NoteReference
  <2>4. flags[s] \subseteq flags'[s]
    BY <2>1, <2>2 DEF TypeOK
  <2>5. \A h \in Groups : h # g => outbox'[h] = outbox[h]
    BY <2>1 DEF TypeOK
  <2>6. CASE c \in outbox'[g]
    <3>1. r.target = s /\ COPY_RELOCATION \in r.add \ flags[s]
      BY <2>1, <2>6 DEF TypeOK, CopyRequest
    <3>2. COPY_RELOCATION \in flags'[s]
      BY <2>1, <2>2, <3>1 DEF TypeOK
    <3>3. CopyCount(s) = 0 /\ \A h \in Groups : c \notin outbox[h]
      BY <3>1 DEF CopyOnce
    <3>4. CopyCount(s)' = 0
      BY <2>3, <3>3, <1>d, <1>e
    <3>5. \A k \in Groups : c \in outbox'[k] => k = g
      BY <2>5, <3>3
    <3>6. \A h \in Groups : h # o => local_work'[h][c] = 0 /\ slot_work'[h][c] = 0
      BY <2>3 DEF CopyOnce
    <3> QED
      BY <3>2, <3>4, <3>5, <3>6 DEF CopyOnce, CopyRequest
  <2>7. CASE c \notin outbox'[g]
    <3>1. \A h \in Groups : c \in outbox'[h] => c \in outbox[h]
      BY <2>5, <2>7
    <3> QED
      BY <2>3, <2>4, <3>1, <1>b, CopyFrame
  <2> QED
    BY <2>6, <2>7
<1>5. ASSUME NEW g \in Groups, RequestWork(g) PROVE CopyOnce(s)'
  <2>1. \A h \in Groups : c \in outbox'[h] => c \in outbox[h]
    BY <1>5 DEF RequestWork, TypeOK, CopyRequest
  <2> QED
    BY <1>5, <2>1, <1>b, CopyFrame DEF RequestWork
<1>6. ASSUME NEW g \in Groups, ExportOwnSymbol(g) PROVE CopyOnce(s)'
  <2>1. PICK r \in todo[g] : r.kind = "export" /\ ExportSymbol(g, r.target)
    BY <1>6 DEF ExportOwnSymbol
  <2>2. r.target \in Symbols
    BY <2>1, RequestFields DEF TypeOK
  <2>3. /\ \A h \in Groups : c \in outbox'[h] => c \in outbox[h]
        /\ flags[s] \subseteq flags'[s]
    BY <2>1, <2>2, ExportSymbolNoCopy
  <2> QED
    BY <1>6, <2>3, <1>b, CopyFrame DEF ExportOwnSymbol
<1>7. ASSUME NEW g \in Groups, SendWork(g) PROVE CopyOnce(s)'
  <2>1. PICK item \in outbox[g] :
          /\ outbox' = [outbox EXCEPT ![g] = @ \ {item}]
          /\ IF Owner(item) = g
             THEN /\ local_work' = [local_work EXCEPT ![g][item] = @ + 1]
                  /\ UNCHANGED slot_work
             ELSE /\ slot_work' = [slot_work EXCEPT ![Owner(item)][item] = @ + 1]
                  /\ UNCHANGED local_work
    BY <1>7 DEF SendWork
  <2>2. item \in WorkItem /\ Owner(item) \in Groups
    BY <2>1, OwnerType DEF TypeOK
  <2>3. UNCHANGED <<flags, copies>>
    BY <1>7 DEF SendWork
  <2>4. \A h \in Groups : outbox'[h] \subseteq outbox[h]
    BY <2>1 DEF TypeOK
  <2>5. CASE item # c
    <3>1. \A h \in Groups : local_work'[h][c] = local_work[h][c]
      <4> SUFFICES ASSUME NEW h \in Groups PROVE local_work'[h][c] = local_work[h][c]
        OBVIOUS
      <4>1. [local_work EXCEPT ![g][item] = @ + 1][h][c] = local_work[h][c]
        BY <2>2, <2>5, <1>a, BagOthers DEF TypeOK
      <4> QED
        BY <4>1, <2>1
    <3>2. \A h \in Groups : slot_work'[h][c] = slot_work[h][c]
      <4> SUFFICES ASSUME NEW h \in Groups PROVE slot_work'[h][c] = slot_work[h][c]
        OBVIOUS
      <4>1. [slot_work EXCEPT ![Owner(item)][item] = @ + 1][h][c] = slot_work[h][c]
        BY <2>2, <2>5, <1>a, BagOthers DEF TypeOK
      <4> QED
        BY <4>1, <2>1
    <3> QED
      BY <2>3, <2>4, <3>1, <3>2, <1>b, CopyFrame
  <2>6. CASE item = c
    <3>1. CopyCount(s) = 0 /\ COPY_RELOCATION \in flags[s]
      BY <2>1, <2>6 DEF CopyOnce
    <3>2. \A h \in Groups : c \notin outbox'[h]
      BY <2>1, <2>6 DEF CopyOnce, TypeOK
    <3>3. local_work[o][c] = 0 /\ slot_work[o][c] = 0 /\ copies[s] = 0
      BY <3>1, <1>a, <1>b, <1>d
    <3>4. /\ \A h \in Groups : h # o => local_work'[h][c] = 0 /\ slot_work'[h][c] = 0
          /\ local_work'[o][c] + slot_work'[o][c] = 1
      <4>1. CASE o = g
        <5>1. slot_work' = slot_work /\ local_work' = [local_work EXCEPT ![o][c] = @ + 1]
          BY <4>1, <2>1, <2>6, <1>a
        <5>2. \A h \in Groups : local_work'[h][c] = IF h = o THEN local_work[o][c] + 1
                                                             ELSE local_work[h][c]
          BY <5>1, <1>a, BagOthers DEF TypeOK
        <5> QED
          BY <5>1, <5>2, <3>3, <1>a DEF CopyOnce
      <4>2. CASE o # g
        <5>1. local_work' = local_work /\ slot_work' = [slot_work EXCEPT ![o][c] = @ + 1]
          BY <4>2, <2>1, <2>6, <1>a
        <5>2. \A h \in Groups : slot_work'[h][c] = IF h = o THEN slot_work[o][c] + 1
                                                            ELSE slot_work[h][c]
          BY <5>1, <1>a, BagOthers DEF TypeOK
        <5> QED
          BY <5>1, <5>2, <3>3, <1>a DEF CopyOnce
      <4> QED
        BY <4>1, <4>2
    <3>5. CopyCount(s)' = 1
      BY <3>3, <3>4, <2>3, <1>e
    <3> QED
      BY <3>1, <3>2, <3>4, <3>5, <2>3 DEF CopyOnce, CopyRequest
  <2> QED
    BY <2>5, <2>6
<1>8. ASSUME NEW g \in Groups, DoLoadGlobalSymbol(g) PROVE CopyOnce(s)'
  <2>1. PICK t \in Symbols : Pops(g, <<"LoadGlobalSymbol", t>>) /\ LoadSymbol(g, t)
    BY <1>8 DEF DoLoadGlobalSymbol
  <2>2. \A h \in Groups : local_work'[h][c] <= local_work[h][c]
    BY <2>1, <1>a, WorkItems, PopsOthers
  <2>3. \A h \in Groups : c \in outbox'[h] => c \in outbox[h]
    BY <2>1, LoadSymbolNoCopy
  <2> QED
    BY <1>8, <2>2, <2>3, <1>b, CopyFrame DEF DoLoadGlobalSymbol
<1>9. ASSUME NEW g \in Groups, DoLoadGcUnit(g) PROVE CopyOnce(s)'
  <2>1. PICK u \in Units : Pops(g, <<"LoadGcUnit", u>>)
    BY <1>9 DEF DoLoadGcUnit
  <2>2. \A h \in Groups : local_work'[h][c] <= local_work[h][c]
    BY <2>1, <1>a, WorkItems, PopsOthers
  <2> QED
    BY <1>9, <2>2, <1>b, CopyFrame DEF DoLoadGcUnit
<1>10. ASSUME NEW g \in Groups, DoLoadBadUnit(g) PROVE CopyOnce(s)'
  <2>1. PICK u \in Units : Pops(g, <<"LoadGcUnit", u>>)
    BY <1>10, ConstantsAssumption DEF DoLoadBadUnit
  <2>2. \A h \in Groups : local_work'[h][c] <= local_work[h][c]
    BY <2>1, <1>a, WorkItems, PopsOthers
  <2> QED
    BY <1>10, <2>2, <1>b, CopyFrame DEF DoLoadBadUnit
<1>11. ASSUME NEW g \in Groups, ReportError(g) PROVE CopyOnce(s)'
  <2>1. \A h \in Groups : local_work'[h][c] <= local_work[h][c]
    BY <1>11, <1>b, <1>c DEF ReportError, TypeOK
  <2> QED
    BY <1>11, <2>1, <1>b, CopyFrame DEF ReportError
<1>12. ASSUME NEW g \in Groups, DoExportDynamic(g) PROVE CopyOnce(s)'
  <2>1. PICK t \in Symbols :
          /\ Pops(g, <<"ExportDynamic", t>>)
          /\ IF t \in Exportable THEN ExportSymbol(g, t) ELSE UNCHANGED <<flags, outbox>>
    BY <1>12 DEF DoExportDynamic
  <2>2. \A h \in Groups : local_work'[h][c] <= local_work[h][c]
    BY <2>1, <1>a, WorkItems, PopsOthers
  <2>3. /\ \A h \in Groups : c \in outbox'[h] => c \in outbox[h]
        /\ flags[s] \subseteq flags'[s]
    BY <2>1, ExportSymbolNoCopy
  <2> QED
    BY <1>12, <2>2, <2>3, <1>b, CopyFrame DEF DoExportDynamic
<1>13. ASSUME NEW g \in Groups, DoCopyRelocateSymbol(g) PROVE CopyOnce(s)'
  <2>1. PICK t \in Symbols : /\ Pops(g, CopyRequest(t))
                             /\ copies' = [copies EXCEPT ![t] = @ + 1]
    BY <1>13 DEF DoCopyRelocateSymbol, CopyRequest
  <2>2. CopyRequest(t) \in WorkItem
    BY WorkItems DEF CopyRequest
  <2>3. UNCHANGED <<slot_work, outbox, flags>>
    BY <1>13 DEF DoCopyRelocateSymbol
  <2>4. CASE t # s
    <3>1. CopyRequest(t) # c /\ copies'[s] = copies[s]
      BY <2>1, <2>4 DEF CopyRequest, TypeOK
    <3>2. \A h \in Groups : local_work'[h][c] <= local_work[h][c]
      BY <2>1, <2>2, <1>a, PopsOthers
    <3> QED
      BY <2>3, <3>1, <3>2, <1>b, CopyFrame
  <2>5. CASE t = s
    <3>1. g = o
      BY <2>1, <2>5 DEF Pops, CopyOnce
    <3>2. local_work[o][c] > 0 /\ local_work'[o][c] = local_work[o][c] - 1
      BY <2>1, <2>5, <3>1, <1>a, PopsOthers
    <3>3. \A h \in Groups : h # o => local_work'[h][c] = local_work[h][c]
      BY <2>1, <2>5, <3>1, <1>a, PopsOthers
    <3>4. copies'[s] = copies[s] + 1
      BY <2>1, <2>5 DEF TypeOK
    <3>5. CopyCount(s)' = CopyCount(s)
      BY <2>3, <3>2, <3>4, <1>a, <1>b, <1>d, <1>e
    <3> QED
      BY <2>3, <3>3, <3>5 DEF CopyOnce, CopyRequest
  <2> QED
    BY <2>4, <2>5
<1>14. ASSUME NEW g \in Groups, ParkOrSwap(g) PROVE CopyOnce(s)'
  <2>1. UNCHANGED <<outbox, flags, copies>>
    BY <1>14 DEF ParkOrSwap
  <2>2. CASE slot_work[g] = EmptyBag
    BY <1>14, <2>1, <2>2, <1>b, CopyFrame DEF ParkOrSwap
  <2>3. CASE slot_work[g] # EmptyBag
    <3>1. /\ local_work[g][c] = 0 /\ slot_work'[g][c] = 0
          /\ local_work'[g][c] = slot_work[g][c]
      BY <1>14, <2>3, <1>c DEF ParkOrSwap, TypeOK
    <3>2. \A h \in Groups : h # g => /\ local_work'[h][c] = local_work[h][c]
                                     /\ slot_work'[h][c] = slot_work[h][c]
      BY <1>14, <2>3 DEF ParkOrSwap, TypeOK
    <3>3. CopyCount(s)' = CopyCount(s)
      <4>1. CASE o = g
        BY <4>1, <2>1, <3>1, <1>a, <1>b, <1>d, <1>e
      <4>2. CASE o # g
        BY <4>2, <2>1, <3>2, <1>a, <1>b, <1>d, <1>e
      <4> QED
        BY <4>1, <4>2
    <3>4. \A h \in Groups : h # o => local_work'[h][c] = 0 /\ slot_work'[h][c] = 0
      BY <3>1, <3>2 DEF CopyOnce
    <3> QED
      BY <2>1, <3>3, <3>4 DEF CopyOnce, CopyRequest
  <2> QED
    BY <2>2, <2>3
<1>15. ASSUME Finish PROVE CopyOnce(s)'
  BY <1>15, <1>b, CopyFrame DEF Finish
<1>16. ASSUME UNCHANGED vars PROVE CopyOnce(s)'
  BY <1>16, <1>b, CopyFrame DEF vars
<1> QED
  BY <1>1, <1>2, <1>3, <1>4, <1>5, <1>6, <1>7, <1>8, <1>9, <1>10, <1>11, <1>12,
     <1>13, <1>14, <1>15, <1>16 DEF Next, Step, Returned

(* load_symbol never gives a common symbol a second block. *)
LEMMA LoadSymbolOnce ==
  ASSUME TypeOK, OthersOnce, NEW g \in Groups, NEW t \in Symbols, LoadSymbol(g, t)
  PROVE  \A s \in Symbols : commons'[s] <= 1
  BY DEF LoadSymbol, OthersOnce, TypeOK

(* Exporting a symbol counts it exactly when it sets the flag. *)
LEMMA ExportSymbolOnce ==
  ASSUME TypeOK, OthersOnce, NEW g \in Groups, NEW t \in Symbols, ExportSymbol(g, t),
         UNCHANGED loads
  PROVE  OthersOnce'
<1>1. \A s \in Symbols : commons'[s] <= 1
  BY LoadSymbolOnce DEF ExportSymbol, OthersOnce
<1>2. ASSUME NEW s \in Symbols
      PROVE  exports'[s] = IF EXPORT_DYNAMIC \in flags'[s] THEN 1 ELSE 0
  <2>1. CASE s = t
    <3>1. EXPORT_DYNAMIC \in flags'[s]
      BY <2>1 DEF ExportSymbol, TypeOK
    <3>2. exports'[s] = IF EXPORT_DYNAMIC \in flags[s] THEN exports[s] ELSE exports[s] + 1
      BY <2>1 DEF ExportSymbol, TypeOK
    <3> QED
      BY <3>1, <3>2 DEF OthersOnce
  <2>2. CASE s # t
    <3>1. flags'[s] = flags[s] /\ exports'[s] = exports[s]
      BY <2>2 DEF ExportSymbol, TypeOK
    <3> QED
      BY <3>1 DEF OthersOnce
  <2> QED
    BY <2>1, <2>2
<1> QED
  BY <1>1, <1>2 DEF OthersOnce

(* Every step keeps the other counts at most one. *)
LEMMA OthersStep ==
  ASSUME TypeOK, OthersOnce, [Next]_vars
  PROVE  OthersOnce'
<1>1. ASSUME NEW g \in Groups, Activate(g) PROVE OthersOnce'
  BY <1>1 DEF Activate, OthersOnce
<1>2. ASSUME NEW g \in Groups, ActivateFails(g) PROVE OthersOnce'
  BY <1>2 DEF ActivateFails, OthersOnce
<1>3. ASSUME NEW g \in Groups, StartWork(g) PROVE OthersOnce'
  BY <1>3 DEF StartWork, OthersOnce
<1>4. ASSUME NEW g \in Groups, NoteReference(g) PROVE OthersOnce'
  <2>1. PICK r \in todo[g] : /\ r.kind = "ref"
                             /\ flags' = [flags EXCEPT ![r.target] = @ \cup r.add]
    BY <1>4 DEF NoteReference
  <2>2. r.target \in Symbols /\ EXPORT_DYNAMIC \notin r.add
    BY <2>1, RequestFields DEF TypeOK
  <2>3. \A s \in Symbols : EXPORT_DYNAMIC \in flags'[s] <=> EXPORT_DYNAMIC \in flags[s]
    BY <2>1, <2>2 DEF TypeOK
  <2> QED
    BY <1>4, <2>3 DEF NoteReference, OthersOnce
<1>5. ASSUME NEW g \in Groups, RequestWork(g) PROVE OthersOnce'
  BY <1>5 DEF RequestWork, OthersOnce
<1>6. ASSUME NEW g \in Groups, ExportOwnSymbol(g) PROVE OthersOnce'
  <2>1. PICK r \in todo[g] : r.kind = "export" /\ ExportSymbol(g, r.target)
    BY <1>6 DEF ExportOwnSymbol
  <2>2. r.target \in Symbols /\ UNCHANGED loads
    BY <1>6, <2>1, RequestFields DEF TypeOK, ExportOwnSymbol
  <2> QED
    BY <2>1, <2>2, ExportSymbolOnce
<1>7. ASSUME NEW g \in Groups, SendWork(g) PROVE OthersOnce'
  BY <1>7 DEF SendWork, OthersOnce
<1>8. ASSUME NEW g \in Groups, DoLoadGlobalSymbol(g) PROVE OthersOnce'
  <2>1. \A s \in Symbols : commons'[s] <= 1
    BY <1>8, LoadSymbolOnce DEF DoLoadGlobalSymbol
  <2> QED
    BY <1>8, <2>1 DEF DoLoadGlobalSymbol, OthersOnce
<1>9. ASSUME NEW g \in Groups, DoLoadGcUnit(g) PROVE OthersOnce'
  <2>1. PICK v \in Units : IF loads[v] > 0 THEN UNCHANGED loads
                           ELSE loads' = [loads EXCEPT ![v] = @ + 1]
    BY <1>9 DEF DoLoadGcUnit
  <2>2. ASSUME NEW u \in Units PROVE loads'[u] <= 1
    <3>1. loads[u] \in Nat /\ loads[v] \in Nat /\ loads[u] <= 1
      BY DEF TypeOK, OthersOnce
    <3>2. loads' = loads \/ (loads[v] = 0 /\ loads' = [loads EXCEPT ![v] = loads[v] + 1])
      BY <2>1, <3>1
    <3> QED
      BY <3>1, <3>2 DEF TypeOK
  <2> QED
    BY <1>9, <2>2 DEF DoLoadGcUnit, OthersOnce
<1>10. ASSUME NEW g \in Groups, DoLoadBadUnit(g) PROVE OthersOnce'
  BY <1>10 DEF DoLoadBadUnit, OthersOnce
<1>11. ASSUME NEW g \in Groups, ReportError(g) PROVE OthersOnce'
  BY <1>11 DEF ReportError, OthersOnce
<1>12. ASSUME NEW g \in Groups, DoExportDynamic(g) PROVE OthersOnce'
  <2>1. PICK t \in Symbols : IF t \in Exportable THEN ExportSymbol(g, t)
                             ELSE UNCHANGED <<flags, commons, exports>>
    BY <1>12 DEF DoExportDynamic
  <2>2. UNCHANGED loads
    BY <1>12 DEF DoExportDynamic
  <2> QED
    BY <2>1, <2>2, ExportSymbolOnce DEF OthersOnce
<1>13. ASSUME NEW g \in Groups, DoCopyRelocateSymbol(g) PROVE OthersOnce'
  BY <1>13 DEF DoCopyRelocateSymbol, OthersOnce
<1>14. ASSUME NEW g \in Groups, ParkOrSwap(g) PROVE OthersOnce'
  BY <1>14 DEF ParkOrSwap, OthersOnce
<1>15. ASSUME Finish PROVE OthersOnce'
  BY <1>15 DEF Finish, OthersOnce
<1>16. ASSUME UNCHANGED vars PROVE OthersOnce'
  BY <1>16 DEF vars, OthersOnce
<1> QED
  BY <1>1, <1>2, <1>3, <1>4, <1>5, <1>6, <1>7, <1>8, <1>9, <1>10, <1>11, <1>12,
     <1>13, <1>14, <1>15, <1>16 DEF Next, Step, Returned

(* Counting once what is requested once is enough. *)
LEMMA CountedImpliesOnce ==
  ASSUME TypeOK, CountedOnce PROVE AllocatedOnce
<1>1. ASSUME NEW s \in Symbols PROVE copies[s] <= 1
  <2>1. GroupOfSymbol[s] \in Groups /\ CopyRequest(s) \in WorkItem
    BY WorkItems, ConstantsAssumption DEF CopyRequest
  <2>2. /\ local_work[GroupOfSymbol[s]][CopyRequest(s)] \in Nat
        /\ slot_work[GroupOfSymbol[s]][CopyRequest(s)] \in Nat /\ copies[s] \in Nat
    BY <2>1 DEF TypeOK
  <2>3. CopyCount(s) <= 1
    BY DEF CountedOnce, CopyOnce
  <2> QED
    BY <2>2, <2>3 DEF CopyCount
<1> QED
  BY <1>1 DEF CountedOnce, OthersOnce, AllocatedOnce

(* Whatever the graph and the order of the tasks, a unit is loaded once, a *)
(* common symbol gets one block, a symbol one dynamic symbol table entry,  *)
(* and a copy relocation is handled once.                                  *)
THEOREM AllocatesOnce == Spec => []AllocatedOnce
<1>1. Init => CountedOnce
  BY CountedInit
<1>2. TypeOK /\ TypeOK' /\ CountedOnce /\ [Next]_vars => CountedOnce'
  BY CopyStep, OthersStep DEF CountedOnce
<1>3. TypeOK /\ CountedOnce => AllocatedOnce
  BY CountedImpliesOnce
<1> QED
  BY <1>1, <1>2, <1>3, TypeCorrect, PTL DEF Spec

-----------------------------------------------------------------------------
(* Work items are queued by their owners only, and a group that takes an   *)
(* item has activated its files.                                           *)
InQueueOfOwner ==
  \A g \in Groups, item \in WorkItem :
    local_work[g][item] > 0 \/ slot_work[g][item] > 0 => Owner(item) = g

(* A group that has started never looks unstarted again. *)
StaysActivated ==
  \A g \in Groups : worker[g] \notin {"unstarted", "activating"} =>
    worker'[g] \notin {"unstarted", "activating"}

(* Initially all queues are empty and nothing is loaded. *)
LEMMA OwnerInit == Init => InQueueOfOwner /\ ActivatedBeforeLoading
  BY DEF Init, InQueueOfOwner, ActivatedBeforeLoading, EmptyBag, Kept

(* Taking an item leaves the others in the queues of their owners. *)
LEMMA PopsOwner ==
  ASSUME TypeOK, InQueueOfOwner, NEW g \in Groups, NEW taken \in WorkItem, Pops(g, taken),
         UNCHANGED slot_work
  PROVE  InQueueOfOwner'
<1> SUFFICES ASSUME NEW h \in Groups, NEW item \in WorkItem,
                    local_work'[h][item] > 0 \/ slot_work'[h][item] > 0
             PROVE  Owner(item) = h
  BY DEF InQueueOfOwner
<1>1. local_work'[h][item] <= local_work[h][item]
  BY PopsOthers
<1>2. local_work[h][item] \in Nat /\ local_work'[h][item] \in Nat
  BY PopsType DEF TypeOK
<1>3. local_work[h][item] > 0 \/ slot_work[h][item] > 0
  BY <1>1, <1>2
<1> QED
  BY <1>3 DEF InQueueOfOwner

(* Every step sends work to its owner. *)
LEMMA OwnerStep ==
  ASSUME TypeOK, InQueueOfOwner, [Next]_vars
  PROVE  InQueueOfOwner'
<1>a. UNCHANGED <<local_work, slot_work>> => InQueueOfOwner'
  BY DEF InQueueOfOwner
<1>1. ASSUME NEW g \in Groups,
             \/ Activate(g) \/ ActivateFails(g) \/ StartWork(g) \/ NoteReference(g)
             \/ RequestWork(g) \/ ExportOwnSymbol(g)
      PROVE  InQueueOfOwner'
  BY <1>1, <1>a DEF Activate, ActivateFails, StartWork, NoteReference, RequestWork,
                    ExportOwnSymbol
<1>2. ASSUME NEW g \in Groups, SendWork(g) PROVE InQueueOfOwner'
  <2>1. PICK sent \in outbox[g] :
          IF Owner(sent) = g
          THEN local_work' = [local_work EXCEPT ![g][sent] = @ + 1] /\ UNCHANGED slot_work
          ELSE slot_work' = [slot_work EXCEPT ![Owner(sent)][sent] = @ + 1] /\ UNCHANGED local_work
    BY <1>2 DEF SendWork
  <2>2. sent \in WorkItem /\ Owner(sent) \in Groups
    BY OwnerType DEF TypeOK
  <2>3. ASSUME NEW h \in Groups, NEW item \in WorkItem
        PROVE  \/ h = Owner(sent) /\ item = sent
               \/ /\ local_work'[h][item] = local_work[h][item]
                  /\ slot_work'[h][item] = slot_work[h][item]
    <3>1. CASE Owner(sent) = g
      BY <2>1, <2>2, <3>1, BagOthers DEF TypeOK
    <3>2. CASE Owner(sent) # g
      BY <2>1, <2>2, <3>2, BagOthers DEF TypeOK
    <3> QED
      BY <3>1, <3>2
  <2> QED
    BY <2>3 DEF InQueueOfOwner
<1>3. ASSUME NEW g \in Groups,
             \/ DoLoadGlobalSymbol(g) \/ DoLoadGcUnit(g) \/ DoLoadBadUnit(g)
             \/ DoExportDynamic(g) \/ DoCopyRelocateSymbol(g)
      PROVE  InQueueOfOwner'
  <2>1. \E taken \in WorkItem : Pops(g, taken)
    BY <1>3, WorkItems, ConstantsAssumption
       DEF DoLoadGlobalSymbol, DoLoadGcUnit, DoLoadBadUnit, DoExportDynamic, DoCopyRelocateSymbol
  <2>2. UNCHANGED slot_work
    BY <1>3
       DEF DoLoadGlobalSymbol, DoLoadGcUnit, DoLoadBadUnit, DoExportDynamic, DoCopyRelocateSymbol
  <2> QED
    BY <2>1, <2>2, PopsOwner
<1>4. ASSUME NEW g \in Groups, ReportError(g) PROVE InQueueOfOwner'
  <2>1. \A h \in Groups : local_work'[h] = local_work[h] \/ local_work'[h] = EmptyBag
    BY <1>4 DEF ReportError, TypeOK
  <2> QED
    BY <1>4, <2>1 DEF ReportError, InQueueOfOwner, EmptyBag
<1>5. ASSUME NEW g \in Groups, ParkOrSwap(g) PROVE InQueueOfOwner'
  <2>1. CASE UNCHANGED <<local_work, slot_work>>
    BY <2>1, <1>a
  <2>2. CASE /\ local_work' = [local_work EXCEPT ![g] = slot_work[g]]
             /\ slot_work' = [slot_work EXCEPT ![g] = EmptyBag]
    <3>1. \A h \in Groups : /\ local_work'[h] = local_work[h] \/ local_work'[h] = slot_work[h]
                            /\ slot_work'[h] = slot_work[h] \/ slot_work'[h] = EmptyBag
      BY <2>2 DEF TypeOK
    <3> QED
      BY <3>1 DEF InQueueOfOwner, EmptyBag
  <2> QED
    BY <1>5, <2>1, <2>2 DEF ParkOrSwap
<1>6. ASSUME Finish \/ UNCHANGED vars PROVE InQueueOfOwner'
  BY <1>6, <1>a DEF Finish, vars
<1> QED
  BY <1>1, <1>2, <1>3, <1>4, <1>5, <1>6 DEF Next, Step, Returned

(* A task that starts activating was not started before, and no step goes  *)
(* back to activating or before.                                           *)
LEMMA WorkerStep ==
  ASSUME TypeOK, [Next]_vars
  PROVE  StaysActivated
<1>1. ASSUME NEW g \in Groups, Activate(g) PROVE StaysActivated
  BY <1>1 DEF Activate, StaysActivated, TypeOK
<1>2. ASSUME NEW g \in Groups,
             \/ ActivateFails(g) \/ NoteReference(g) \/ RequestWork(g) \/ ExportOwnSymbol(g)
             \/ DoLoadGlobalSymbol(g) \/ DoLoadGcUnit(g) \/ DoExportDynamic(g)
             \/ DoCopyRelocateSymbol(g)
      PROVE  StaysActivated
  BY <1>2 DEF ActivateFails, NoteReference, RequestWork, ExportOwnSymbol, DoLoadGlobalSymbol,
              DoLoadGcUnit, DoExportDynamic, DoCopyRelocateSymbol, StaysActivated
<1>3. ASSUME NEW g \in Groups,
             \/ StartWork(g) \/ SendWork(g) \/ DoLoadBadUnit(g) \/ ReportError(g)
             \/ ParkOrSwap(g)
      PROVE  StaysActivated
  <2>1. \/ UNCHANGED worker
        \/ \E h \in Groups, w \in {"running", "failing", "lost", "parked"} :
             worker' = [worker EXCEPT ![h] = w]
    BY <1>3, OwnerType
       DEF StartWork, SendWork, DoLoadBadUnit, ReportError, ParkOrSwap, TypeOK
  <2> QED
    BY <2>1 DEF StaysActivated, TypeOK
<1>4. ASSUME Finish \/ UNCHANGED vars PROVE StaysActivated
  BY <1>4 DEF Finish, vars, StaysActivated
<1> QED
  BY <1>1, <1>2, <1>3, <1>4 DEF Next, Step, Returned

(* A unit is loaded by the task of its own group, which is past activation. *)
LEMMA ActivatedStep ==
  ASSUME TypeOK, InQueueOfOwner, ActivatedBeforeLoading, [Next]_vars
  PROVE  ActivatedBeforeLoading'
<1>1. StaysActivated
  BY WorkerStep
<1>2. ASSUME NEW u \in Units, loads'[u] > 0, ~(loads[u] > 0)
      PROVE  worker[GroupOfUnit[u]] = "running"
  <2>1. PICK g \in Groups : DoLoadGcUnit(g)
    BY <1>2 DEF Next, Step, Returned, vars, Finish, Activate, ActivateFails, StartWork,
                NoteReference, RequestWork, ExportOwnSymbol, SendWork, DoLoadGlobalSymbol,
                DoLoadBadUnit, ReportError, DoExportDynamic, DoCopyRelocateSymbol, ParkOrSwap
  <2>2. PICK v \in Units : /\ Pops(g, <<"LoadGcUnit", v>>)
                           /\ loads' = loads \/ loads' = [loads EXCEPT ![v] = @ + 1]
    BY <2>1 DEF DoLoadGcUnit
  <2>3. u = v
    BY <1>2, <2>2 DEF TypeOK
  <2>4. local_work[g][<<"LoadGcUnit", u>>] > 0 /\ worker[g] = "running"
    BY <2>2, <2>3 DEF Pops, Idle
  <2> QED
    BY <2>4, WorkItems DEF InQueueOfOwner
<1>3. \A u \in Units : GroupOfUnit[u] \in Groups
  BY ConstantsAssumption
<1> QED
  BY <1>1, <1>2, <1>3 DEF ActivatedBeforeLoading, StaysActivated, Kept

(* Exception frames are attached to a section before anyone loads it: no   *)
(* unit of a group is loaded while the group's files are being activated.  *)
THEOREM ActivatesFirst == Spec => []ActivatedBeforeLoading
<1>1. Init => InQueueOfOwner /\ ActivatedBeforeLoading
  BY OwnerInit
<1>2. /\ TypeOK /\ InQueueOfOwner /\ ActivatedBeforeLoading /\ [Next]_vars
      => InQueueOfOwner' /\ ActivatedBeforeLoading'
  BY OwnerStep, ActivatedStep
<1> QED
  BY <1>1, <1>2, TypeCorrect, PTL DEF Spec

(***************************************************************************)
(* The traversal of the reference graph implements its marking, and an Ok  *)
(* traversal has kept exactly what is reachable, for every reference graph *)
(* and every order of the tasks.                                           *)
(***************************************************************************)

(* The work item is queued, or about to be sent, somewhere. *)
Pending(item) == \E h \in Groups : \/ item \in outbox[h]
                                   \/ local_work[h][item] > 0
                                   \/ slot_work[h][item] > 0

(* The units whose relocations were followed, the requests these and the   *)
(* roots make, and the units that are needed because of them.              *)
Walked == Kept \cup failed
LiveRequests == AllRoots \cup UNION {Refs[u] : u \in Walked}
NeededUnits == Marking!Needed(Walked)

-----------------------------------------------------------------------------
(* How the queues change *)

(* What taking the item from its queue leads to. *)
Done(item) ==
  \/ \E s \in Symbols : /\ item = <<"LoadGlobalSymbol", s>>
                        /\ \E g \in Groups : LoadSymbol(g, s)
  \/ \E u \in Units : item = <<"LoadGcUnit", u>> /\ loads'[u] > 0
  \/ \E s \in Symbols : /\ item = <<"ExportDynamic", s>>
                        /\ s \in Exportable => EXPORT_DYNAMIC \in flags'[s]
  \/ \E s \in Symbols : item = <<"CopyRelocateSymbol", s>> /\ copies'[s] > 0

(* No error was met so far. *)
Clean == errors = 0 /\ failed = {}

(* A task that writes to its outbox has sent what was there. *)
LEMMA OutboxWritten ==
  ASSUME TypeOK, NEW g \in Groups, outbox[g] = {},
         \A h \in Groups : h # g => outbox'[h] = outbox[h],
         UNCHANGED <<local_work, slot_work>>,
         NEW item \in WorkItem
  PROVE  /\ Pending(item) => Pending(item)'
         /\ Pending(item)' => Pending(item) \/ item \in outbox'[g]
  BY DEF Pending

(* The same while one item is taken from the task's queue. *)
LEMMA PopWritten ==
  ASSUME TypeOK, NEW g \in Groups, NEW taken \in WorkItem, Pops(g, taken),
         \A h \in Groups : h # g => outbox'[h] = outbox[h],
         UNCHANGED slot_work,
         NEW item \in WorkItem
  PROVE  /\ Pending(item) => Pending(item)' \/ item = taken
         /\ Pending(item)' => Pending(item) \/ item \in outbox'[g]
<1>1. outbox[g] = {}
  BY DEF Pops, Idle
<1>2. \A h \in Groups : /\ local_work'[h][item] <= local_work[h][item]
                        /\ item # taken => local_work'[h][item] = local_work[h][item]
  BY PopsOthers
<1>3. \A h \in Groups : /\ local_work[h][item] \in Nat /\ local_work'[h][item] \in Nat
                        /\ slot_work[h][item] \in Nat
  BY PopsType DEF TypeOK
<1>4. Pending(item) => Pending(item)' \/ item = taken
  BY <1>1, <1>2, <1>3 DEF Pending
<1>5. Pending(item)' => Pending(item) \/ item \in outbox'[g]
  <2> SUFFICES ASSUME Pending(item)', item \notin outbox'[g] PROVE Pending(item)
    OBVIOUS
  <2>1. PICK h \in Groups : \/ item \in outbox'[h]
                            \/ local_work'[h][item] > 0
                            \/ slot_work'[h][item] > 0
    BY DEF Pending
  <2>2. item \in outbox'[h] => item \in outbox[h]
    BY <1>1
  <2>3. local_work'[h][item] > 0 => local_work[h][item] > 0
    BY <1>2, <1>3
  <2> QED
    BY <2>1, <2>2, <2>3 DEF Pending
<1> QED
  BY <1>4, <1>5

(* load_symbol writes to the outbox of its task only. *)
LEMMA LoadSymbolOutbox ==
  ASSUME TypeOK, NEW g \in Groups, NEW s \in Symbols, LoadSymbol(g, s)
  PROVE  \A h \in Groups : h # g => outbox'[h] = outbox[h]
  BY DEF LoadSymbol, TypeOK

(* So does exporting a symbol. *)
LEMMA ExportSymbolOutbox ==
  ASSUME TypeOK, NEW g \in Groups, NEW s \in Symbols, ExportSymbol(g, s)
  PROVE  \A h \in Groups : h # g => outbox'[h] = outbox[h]
  BY LoadSymbolOutbox DEF ExportSymbol

(* Sending moves one item. *)
LEMMA SendMoves ==
  ASSUME TypeOK, TypeOK', NEW g \in Groups, SendWork(g), NEW item \in WorkItem
  PROVE  Pending(item)' <=> Pending(item)
<1>1. PICK sent \in outbox[g] :
        /\ outbox' = [outbox EXCEPT ![g] = @ \ {sent}]
        /\ IF Owner(sent) = g
           THEN /\ local_work' = [local_work EXCEPT ![g][sent] = @ + 1]
                /\ UNCHANGED slot_work
           ELSE /\ slot_work' = [slot_work EXCEPT ![Owner(sent)][sent] = @ + 1]
                /\ UNCHANGED local_work
  BY DEF SendWork
<1>2. sent \in WorkItem /\ Owner(sent) \in Groups
  BY <1>1, OwnerType DEF TypeOK
<1>3. /\ local_work \in [Groups -> [WorkItem -> Nat]]
      /\ slot_work \in [Groups -> [WorkItem -> Nat]]
      /\ outbox \in [Groups -> SUBSET WorkItem]
  BY DEF TypeOK
<1>4. Pending(sent) /\ Pending(sent)'
  <2>1. Pending(sent)
    BY <1>1 DEF Pending
  <2>2. CASE Owner(sent) = g
    <3>1. local_work'[g][sent] > 0
      BY <1>1, <1>2, <1>3, <2>2
    <3> QED
      BY <3>1 DEF Pending
  <2>3. CASE Owner(sent) # g
    <3>1. slot_work'[Owner(sent)][sent] > 0
      BY <1>1, <1>2, <1>3, <2>3
    <3> QED
      BY <3>1, <1>2 DEF Pending
  <2> QED
    BY <2>1, <2>2, <2>3
<1>5. CASE item # sent
  <2>1. ASSUME NEW h \in Groups
        PROVE  /\ item \in outbox'[h] <=> item \in outbox[h]
               /\ local_work'[h][item] = local_work[h][item]
               /\ slot_work'[h][item] = slot_work[h][item]
    <3>1. item \in outbox'[h] <=> item \in outbox[h]
      BY <1>1, <1>3, <1>5
    <3>2. [local_work EXCEPT ![g][sent] = @ + 1][h][item] = local_work[h][item]
      BY <1>2, <1>3, <1>5, BagOthers
    <3>3. [slot_work EXCEPT ![Owner(sent)][sent] = @ + 1][h][item] = slot_work[h][item]
      BY <1>2, <1>3, <1>5, BagOthers
    <3> QED
      BY <1>1, <3>1, <3>2, <3>3
  <2> QED
    BY <2>1 DEF Pending
<1> QED
  BY <1>4, <1>5

(* Taking over what was sent moves all of it. *)
LEMMA SwapMoves ==
  ASSUME TypeOK, NEW g \in Groups, ParkOrSwap(g), NEW item \in WorkItem
  PROVE  Pending(item)' <=> Pending(item)
<1>1. CASE slot_work[g] = EmptyBag
  BY <1>1 DEF ParkOrSwap, Pending
<1>2. CASE slot_work[g] # EmptyBag
  <2>1. /\ local_work' = [local_work EXCEPT ![g] = slot_work[g]]
        /\ slot_work' = [slot_work EXCEPT ![g] = EmptyBag]
        /\ local_work[g] = EmptyBag /\ UNCHANGED outbox
    BY <1>2 DEF ParkOrSwap
  <2>2. EmptyBag[item] = 0
    BY DEF EmptyBag
  <2>3. /\ local_work'[g][item] = slot_work[g][item] /\ slot_work'[g][item] = 0
        /\ local_work[g][item] = 0
    BY <2>1, <2>2 DEF TypeOK
  <2>4. \A h \in Groups : h # g => /\ local_work'[h][item] = local_work[h][item]
                                   /\ slot_work'[h][item] = slot_work[h][item]
    BY <2>1 DEF TypeOK
  <2> QED
    BY <2>1, <2>3, <2>4 DEF Pending
<1> QED
  BY <1>1, <1>2

(* While no error is met, an item stays pending until it is taken from its *)
(* queue and done.                                                         *)
LEMMA PendingUntilDone ==
  ASSUME TypeOK, TypeOK', [Next]_vars, Clean', NEW item \in WorkItem, Pending(item)
  PROVE  Pending(item)' \/ Done(item)
<1> DEFINE Goal == Pending(item)' \/ Done(item)
<1>1. ASSUME NEW g \in Groups, Activate(g) PROVE Goal
  BY <1>1 DEF Activate, Pending
<1>2. ASSUME NEW g \in Groups, ActivateFails(g) PROVE Goal
  BY <1>2 DEF ActivateFails, Clean, TypeOK
<1>3. ASSUME NEW g \in Groups, StartWork(g) PROVE Goal
  BY <1>3 DEF StartWork, Pending
<1>4. ASSUME NEW g \in Groups, NoteReference(g) PROVE Goal
  <2>1. /\ outbox[g] = {} /\ UNCHANGED <<local_work, slot_work>>
        /\ \A h \in Groups : h # g => outbox'[h] = outbox[h]
    BY <1>4 DEF NoteReference, Handles, TypeOK
  <2> QED
    BY <2>1, OutboxWritten
<1>5. ASSUME NEW g \in Groups, RequestWork(g) PROVE Goal
  <2>1. /\ outbox[g] = {} /\ UNCHANGED <<local_work, slot_work>>
        /\ \A h \in Groups : h # g => outbox'[h] = outbox[h]
    BY <1>5 DEF RequestWork, Handles, TypeOK
  <2> QED
    BY <2>1, OutboxWritten
<1>6. ASSUME NEW g \in Groups, ExportOwnSymbol(g) PROVE Goal
  <2>1. PICK r \in todo[g] : r.kind = "export" /\ outbox[g] = {} /\ ExportSymbol(g, r.target)
    BY <1>6 DEF ExportOwnSymbol, Handles
  <2>2. r.target \in Symbols /\ UNCHANGED <<local_work, slot_work>>
    BY <1>6, <2>1, RequestFields DEF TypeOK, ExportOwnSymbol
  <2>3. \A h \in Groups : h # g => outbox'[h] = outbox[h]
    BY <2>1, <2>2, ExportSymbolOutbox
  <2> QED
    BY <2>1, <2>2, <2>3, OutboxWritten
<1>7. ASSUME NEW g \in Groups, SendWork(g) PROVE Goal
  BY <1>7, SendMoves
<1>8. ASSUME NEW g \in Groups, DoLoadGlobalSymbol(g) PROVE Goal
  <2>1. PICK s \in Symbols : Pops(g, <<"LoadGlobalSymbol", s>>) /\ LoadSymbol(g, s)
    BY <1>8 DEF DoLoadGlobalSymbol
  <2>2. UNCHANGED slot_work
    BY <1>8 DEF DoLoadGlobalSymbol
  <2>3. Pending(item)' \/ item = <<"LoadGlobalSymbol", s>>
    BY <2>1, <2>2, WorkItems, LoadSymbolOutbox, PopWritten
  <2> QED
    BY <2>1, <2>3 DEF Done
<1>9. ASSUME NEW g \in Groups, DoLoadGcUnit(g) PROVE Goal
  <2>1. PICK u \in Units : /\ Pops(g, <<"LoadGcUnit", u>>)
                           /\ IF loads[u] > 0 THEN UNCHANGED loads
                              ELSE loads' = [loads EXCEPT ![u] = @ + 1]
    BY <1>9 DEF DoLoadGcUnit
  <2>2. UNCHANGED <<slot_work, outbox>>
    BY <1>9 DEF DoLoadGcUnit
  <2>3. loads'[u] > 0
    <3>1. loads \in [Units -> Nat] /\ loads[u] \in Nat
      BY DEF TypeOK
    <3> QED
      BY <2>1, <3>1
  <2>4. Pending(item)' \/ item = <<"LoadGcUnit", u>>
    BY <2>1, <2>2, WorkItems, PopWritten
  <2> QED
    BY <2>3, <2>4 DEF Done
<1>10. ASSUME NEW g \in Groups, DoLoadBadUnit(g) PROVE Goal
  BY <1>10 DEF DoLoadBadUnit, Clean
<1>11. ASSUME NEW g \in Groups, ReportError(g) PROVE Goal
  BY <1>11 DEF ReportError, Clean, TypeOK
<1>12. ASSUME NEW g \in Groups, DoExportDynamic(g) PROVE Goal
  <2>1. PICK s \in Symbols : /\ Pops(g, <<"ExportDynamic", s>>)
                             /\ IF s \in Exportable THEN ExportSymbol(g, s)
                                                    ELSE UNCHANGED outbox
    BY <1>12 DEF DoExportDynamic
  <2>2. UNCHANGED slot_work
    BY <1>12 DEF DoExportDynamic
  <2>3. s \in Exportable => EXPORT_DYNAMIC \in flags'[s]
    BY <2>1 DEF ExportSymbol, TypeOK
  <2>4. \A h \in Groups : h # g => outbox'[h] = outbox[h]
    BY <2>1, ExportSymbolOutbox
  <2>5. Pending(item)' \/ item = <<"ExportDynamic", s>>
    BY <2>1, <2>2, <2>4, WorkItems, PopWritten
  <2> QED
    BY <2>3, <2>5 DEF Done
<1>13. ASSUME NEW g \in Groups, DoCopyRelocateSymbol(g) PROVE Goal
  <2>1. PICK s \in Symbols : /\ Pops(g, <<"CopyRelocateSymbol", s>>)
                             /\ copies' = [copies EXCEPT ![s] = @ + 1]
    BY <1>13 DEF DoCopyRelocateSymbol
  <2>2. UNCHANGED <<slot_work, outbox>> /\ copies'[s] > 0
    BY <1>13, <2>1 DEF DoCopyRelocateSymbol, TypeOK
  <2>3. Pending(item)' \/ item = <<"CopyRelocateSymbol", s>>
    BY <2>1, <2>2, WorkItems, PopWritten
  <2> QED
    BY <2>2, <2>3 DEF Done
<1>14. ASSUME NEW g \in Groups, ParkOrSwap(g) PROVE Goal
  BY <1>14, SwapMoves
<1>15. ASSUME Finish PROVE Goal
  BY <1>15 DEF Finish, Pending
<1>16. ASSUME UNCHANGED vars PROVE Goal
  BY <1>16 DEF vars, Pending
<1> QED
  BY <1>1, <1>2, <1>3, <1>4, <1>5, <1>6, <1>7, <1>8, <1>9, <1>10, <1>11, <1>12,
     <1>13, <1>14, <1>15, <1>16 DEF Next, Step, Returned

(* What is set, counted or taken stays so. *)
Grows ==
  /\ \A s \in Symbols : /\ flags[s] \subseteq flags'[s]
                        /\ commons[s] > 0 => commons'[s] > 0
                        /\ copies[s] > 0 => copies'[s] > 0
  /\ \A u \in Units : loads[u] > 0 => loads'[u] > 0
  /\ \A sec \in Sections : candidates'[sec] \subseteq candidates[sec]
  /\ failed \subseteq failed'
  /\ Clean' => Clean

(* load_symbol only takes candidates and gives space. *)
LEMMA LoadSymbolGrows ==
  ASSUME TypeOK, NEW g \in Groups, NEW t \in Symbols, LoadSymbol(g, t)
  PROVE  /\ \A sec \in Sections : candidates'[sec] \subseteq candidates[sec]
         /\ \A s \in Symbols : commons[s] > 0 => commons'[s] > 0
<1>1. \A sec \in Sections : candidates'[sec] \subseteq candidates[sec]
  BY ConstantsAssumption DEF LoadSymbol, TypeOK
<1>2. \A s \in Symbols : commons[s] > 0 => commons'[s] > 0
  BY DEF LoadSymbol, TypeOK
<1> QED
  BY <1>1, <1>2

(* Exporting a symbol also sets its flag. *)
LEMMA ExportSymbolGrows ==
  ASSUME TypeOK, NEW g \in Groups, NEW t \in Symbols, ExportSymbol(g, t)
  PROVE  /\ \A sec \in Sections : candidates'[sec] \subseteq candidates[sec]
         /\ \A s \in Symbols : flags[s] \subseteq flags'[s] /\ (commons[s] > 0 => commons'[s] > 0)
<1>1. /\ \A sec \in Sections : candidates'[sec] \subseteq candidates[sec]
      /\ \A s \in Symbols : commons[s] > 0 => commons'[s] > 0
  BY LoadSymbolGrows DEF ExportSymbol
<1>2. \A s \in Symbols : flags[s] \subseteq flags'[s]
  BY DEF ExportSymbol, TypeOK
<1> QED
  BY <1>1, <1>2

(* Nothing that is set, counted or taken is undone by any step. *)
LEMMA StepGrows ==
  ASSUME TypeOK, [Next]_vars
  PROVE  Grows
<1>1. ASSUME NEW g \in Groups, Activate(g) PROVE Grows
  BY <1>1 DEF Activate, Grows, Clean
<1>2. ASSUME NEW g \in Groups, ActivateFails(g) PROVE Grows
  BY <1>2 DEF ActivateFails, Grows, Clean, TypeOK
<1>3. ASSUME NEW g \in Groups, StartWork(g) PROVE Grows
  BY <1>3 DEF StartWork, Grows, Clean
<1>4. ASSUME NEW g \in Groups, NoteReference(g) PROVE Grows
  BY <1>4 DEF NoteReference, Grows, Clean, TypeOK
<1>5. ASSUME NEW g \in Groups, RequestWork(g) PROVE Grows
  BY <1>5 DEF RequestWork, Grows, Clean
<1>6. ASSUME NEW g \in Groups, ExportOwnSymbol(g) PROVE Grows
  <2>1. PICK r \in todo[g] : r.kind = "export" /\ ExportSymbol(g, r.target)
    BY <1>6 DEF ExportOwnSymbol
  <2>2. r.target \in Symbols
    BY <2>1, RequestFields DEF TypeOK
  <2> QED
    BY <1>6, <2>1, <2>2, ExportSymbolGrows DEF ExportOwnSymbol, Grows, Clean
<1>7. ASSUME NEW g \in Groups, SendWork(g) PROVE Grows
  BY <1>7 DEF SendWork, Grows, Clean
<1>8. ASSUME NEW g \in Groups, DoLoadGlobalSymbol(g) PROVE Grows
  BY <1>8, LoadSymbolGrows DEF DoLoadGlobalSymbol, Grows, Clean
<1>9. ASSUME NEW g \in Groups, DoLoadGcUnit(g) PROVE Grows
  <2>1. PICK v \in Units : IF loads[v] > 0 THEN UNCHANGED loads
                           ELSE loads' = [loads EXCEPT ![v] = @ + 1]
    BY <1>9 DEF DoLoadGcUnit
  <2>2. loads \in [Units -> Nat] /\ loads[v] \in Nat
    BY DEF TypeOK
  <2>3. \A u \in Units : loads[u] > 0 => loads'[u] > 0
    BY <2>1, <2>2
  <2> QED
    BY <1>9, <2>3 DEF DoLoadGcUnit, Grows, Clean
<1>10. ASSUME NEW g \in Groups, DoLoadBadUnit(g) PROVE Grows
  BY <1>10 DEF DoLoadBadUnit, Grows, Clean
<1>11. ASSUME NEW g \in Groups, ReportError(g) PROVE Grows
  BY <1>11 DEF ReportError, Grows, Clean, TypeOK
<1>12. ASSUME NEW g \in Groups, DoExportDynamic(g) PROVE Grows
  <2>1. PICK s \in Symbols : IF s \in Exportable THEN ExportSymbol(g, s)
                             ELSE UNCHANGED <<flags, candidates, commons>>
    BY <1>12 DEF DoExportDynamic
  <2> QED
    BY <1>12, <2>1, ExportSymbolGrows DEF DoExportDynamic, Grows, Clean
<1>13. ASSUME NEW g \in Groups, DoCopyRelocateSymbol(g) PROVE Grows
  BY <1>13 DEF DoCopyRelocateSymbol, Grows, Clean, TypeOK
<1>14. ASSUME NEW g \in Groups, ParkOrSwap(g) PROVE Grows
  BY <1>14 DEF ParkOrSwap, Grows, Clean
<1>15. ASSUME Finish PROVE Grows
  BY <1>15 DEF Finish, Grows, Clean
<1>16. ASSUME UNCHANGED vars PROVE Grows
  BY <1>16 DEF vars, Grows, Clean
<1> QED
  BY <1>1, <1>2, <1>3, <1>4, <1>5, <1>6, <1>7, <1>8, <1>9, <1>10, <1>11, <1>12,
     <1>13, <1>14, <1>15, <1>16 DEF Next, Step, Returned

-----------------------------------------------------------------------------
(* The end of the traversal.  A group whose state was dropped reported an  *)
(* error, a failed unit is reported before its task ends, and no task is   *)
(* left once the traversal has a result.                                   *)

EndIsFinal ==
  /\ result # "none" => Quiescent
  /\ result = "ok" => errors = 0
  /\ \A g \in Groups :
       /\ worker[g] = "unstarted" => todo[g] = {}
       /\ worker[g] = "lost" => todo[g] = {} /\ outbox[g] = {} /\ errors > 0
  /\ failed # {} => errors > 0 \/ \E g \in Groups : worker[g] = "failing"

(* No group has started and no error was met initially. *)
LEMMA EndInit == Init => EndIsFinal
  BY DEF Init, EndIsFinal

(* A task that takes a step belongs to a group that is neither parked nor  *)
(* lost, so nothing happens once the traversal has a result.               *)
LEMMA BusyTask ==
  ASSUME TypeOK, ParkedHasNoWork, EndIsFinal, NEW g \in Groups, Step(g)
  PROVE  worker[g] \notin {"parked", "lost"} /\ result = "none"
<1>1. \/ worker[g] \in {"unstarted", "activating", "running", "failing"}
      \/ todo[g] # {} \/ outbox[g] # {}
  BY DEF Step, Activate, ActivateFails, StartWork, NoteReference, RequestWork, ExportOwnSymbol,
         SendWork, DoLoadGlobalSymbol, DoLoadGcUnit, DoLoadBadUnit, ReportError,
         DoExportDynamic, DoCopyRelocateSymbol, ParkOrSwap, Pops, Idle
<1>2. worker[g] \notin {"parked", "lost"}
  BY <1>1 DEF ParkedHasNoWork, EndIsFinal
<1> QED
  BY <1>2 DEF EndIsFinal, Quiescent

(* A step of a task that neither ends it nor meets an error. *)
LEMMA EndFrame ==
  ASSUME TypeOK, EndIsFinal, result = "none", UNCHANGED <<result, errors, failed>>,
         NEW g \in Groups, worker[g] \notin {"unstarted", "lost"},
         \A h \in Groups : h # g => todo'[h] = todo[h] /\ outbox'[h] = outbox[h],
         \A h \in Groups : /\ worker[h] = "failing" => worker'[h] = "failing"
                           /\ worker'[h] # worker[h] => worker'[h] \notin {"unstarted", "lost"}
  PROVE  EndIsFinal'
  BY DEF EndIsFinal

(* Every step keeps the end final. *)
LEMMA EndStep == TypeOK /\ TypeOK' /\ ParkedHasNoWork /\ EndIsFinal /\ [Next]_vars => EndIsFinal'
<1> SUFFICES ASSUME TypeOK, TypeOK', ParkedHasNoWork, EndIsFinal, [Next]_vars PROVE EndIsFinal'
  OBVIOUS
<1>a. \A g \in Groups : Step(g) => worker[g] \notin {"parked", "lost"} /\ result = "none"
  BY BusyTask
<1>b. \A g \in Groups : worker[g] = "unstarted" => todo[g] = {}
  BY DEF EndIsFinal
<1>1. ASSUME NEW g \in Groups, Activate(g) PROVE EndIsFinal'
  BY <1>1, <1>a DEF Step, Activate, EndIsFinal, TypeOK
<1>2. ASSUME NEW g \in Groups, ActivateFails(g) PROVE EndIsFinal'
  <2>1. /\ worker[g] = "activating" /\ UNCHANGED <<worker, outbox>>
        /\ \A h \in Groups : h # g => todo'[h] = todo[h]
    BY <1>2 DEF ActivateFails, TypeOK
  <2>2. errors \in Nat /\ errors' = errors + 1 /\ result' = "none"
    BY <1>2, <1>a DEF Step, ActivateFails, TypeOK
  <2>3. errors' > 0
    BY <2>2
  <2> QED
    BY <2>1, <2>2, <2>3 DEF EndIsFinal
<1>3. ASSUME NEW g \in Groups, StartWork(g) PROVE EndIsFinal'
  BY <1>3, <1>a DEF Step, StartWork, EndIsFinal, TypeOK
<1>4. ASSUME NEW g \in Groups, NoteReference(g) PROVE EndIsFinal'
  <2>1. worker[g] \notin {"unstarted", "lost"} /\ result = "none"
    BY <1>4, <1>a, <1>b DEF Step, NoteReference
  <2> QED
    BY <1>4, <2>1, EndFrame DEF NoteReference, Handles, TypeOK
<1>5. ASSUME NEW g \in Groups, RequestWork(g) PROVE EndIsFinal'
  <2>1. worker[g] \notin {"unstarted", "lost"} /\ result = "none"
    BY <1>5, <1>a, <1>b DEF Step, RequestWork
  <2> QED
    BY <1>5, <2>1, EndFrame DEF RequestWork, Handles, TypeOK
<1>6. ASSUME NEW g \in Groups, ExportOwnSymbol(g) PROVE EndIsFinal'
  <2>1. worker[g] \notin {"unstarted", "lost"} /\ result = "none"
    BY <1>6, <1>a, <1>b DEF Step, ExportOwnSymbol
  <2>2. PICK r \in todo[g] : r.kind = "export" /\ Handles(g, r) /\ ExportSymbol(g, r.target)
    BY <1>6 DEF ExportOwnSymbol
  <2>3. r.target \in Symbols
    BY <2>2, RequestFields DEF TypeOK
  <2>4. \A h \in Groups : h # g => todo'[h] = todo[h] /\ outbox'[h] = outbox[h]
    BY <2>2, <2>3, ExportSymbolOutbox DEF Handles, TypeOK
  <2> QED
    BY <1>6, <2>1, <2>4, EndFrame DEF ExportOwnSymbol
<1>7. ASSUME NEW g \in Groups, SendWork(g) PROVE EndIsFinal'
  <2>1. worker[g] # "lost" /\ result = "none"
    BY <1>7, <1>a DEF Step
  <2>2. PICK item \in outbox[g] :
          /\ outbox' = [outbox EXCEPT ![g] = @ \ {item}]
          /\ \/ worker' = worker
             \/ /\ worker[Owner(item)] = "parked"
                /\ worker' = [worker EXCEPT ![Owner(item)] = "running"]
    BY <1>7 DEF SendWork
  <2>3. Owner(item) \in Groups /\ UNCHANGED <<todo, result, errors, failed>>
    BY <1>7, <2>2, OwnerType DEF TypeOK, SendWork
  <2>4. \A h \in Groups : outbox[h] = {} => outbox'[h] = {}
    BY <2>2 DEF TypeOK
  <2>5. \A h \in Groups : worker'[h] = worker[h]
                          \/ (worker[h] = "parked" /\ worker'[h] = "running")
    BY <2>2, <2>3 DEF TypeOK
  <2> QED
    BY <2>1, <2>3, <2>4, <2>5 DEF EndIsFinal
<1>8. ASSUME NEW g \in Groups, DoLoadGlobalSymbol(g) PROVE EndIsFinal'
  <2>1. worker[g] = "running" /\ result = "none"
    BY <1>8, <1>a DEF Step, DoLoadGlobalSymbol, Pops, Idle
  <2> QED
    BY <1>8, <2>1, LoadSymbolOutbox, EndFrame DEF DoLoadGlobalSymbol
<1>9. ASSUME NEW g \in Groups, DoLoadGcUnit(g) PROVE EndIsFinal'
  <2>1. worker[g] = "running" /\ result = "none"
    BY <1>9, <1>a DEF Step, DoLoadGcUnit, Pops, Idle
  <2>2. \A h \in Groups : h # g => todo'[h] = todo[h]
    BY <1>9 DEF DoLoadGcUnit, TypeOK
  <2> QED
    BY <1>9, <2>1, <2>2, EndFrame DEF DoLoadGcUnit
<1>10. ASSUME NEW g \in Groups, DoLoadBadUnit(g) PROVE EndIsFinal'
  <2>1. worker[g] = "running" /\ result = "none"
    BY <1>10, <1>a DEF Step, DoLoadBadUnit, Pops, Idle
  <2>2. /\ worker' = [worker EXCEPT ![g] = "failing"]
        /\ UNCHANGED <<outbox, errors, result>>
        /\ \A h \in Groups : h # g => todo'[h] = todo[h]
    BY <1>10 DEF DoLoadBadUnit, TypeOK
  <2> QED
    BY <2>1, <2>2 DEF EndIsFinal, TypeOK
<1>11. ASSUME NEW g \in Groups, ReportError(g) PROVE EndIsFinal'
  <2>1. todo[g] = {} /\ outbox[g] = {} /\ UNCHANGED <<todo, outbox>>
    BY <1>11 DEF ReportError
  <2>3. errors \in Nat /\ errors' = errors + 1 /\ result' = "none"
    BY <1>11, <1>a DEF Step, ReportError, TypeOK
  <2>4. errors' > 0
    BY <2>3
  <2>2. \A h \in Groups : worker'[h] = IF h = g THEN "lost" ELSE worker[h]
    BY <1>11 DEF ReportError, TypeOK
  <2> QED
    BY <2>1, <2>2, <2>3, <2>4 DEF EndIsFinal
<1>12. ASSUME NEW g \in Groups, DoExportDynamic(g) PROVE EndIsFinal'
  <2>1. worker[g] = "running" /\ result = "none"
    BY <1>12, <1>a DEF Step, DoExportDynamic, Pops, Idle
  <2> QED
    BY <1>12, <2>1, ExportSymbolOutbox, EndFrame DEF DoExportDynamic
<1>13. ASSUME NEW g \in Groups, DoCopyRelocateSymbol(g) PROVE EndIsFinal'
  BY <1>13 DEF DoCopyRelocateSymbol, EndIsFinal, Quiescent
<1>14. ASSUME NEW g \in Groups, ParkOrSwap(g) PROVE EndIsFinal'
  <2>1. worker[g] = "running" /\ result = "none"
    BY <1>14, <1>a DEF Step, ParkOrSwap, Idle
  <2>2. \A h \in Groups : worker'[h] = worker[h] \/ (h = g /\ worker'[h] = "parked")
    BY <1>14 DEF ParkOrSwap, TypeOK
  <2> QED
    BY <1>14, <2>1, <2>2, EndFrame DEF ParkOrSwap
<1>15. ASSUME Finish PROVE EndIsFinal'
  BY <1>15 DEF Finish, EndIsFinal, Quiescent, TypeOK
<1>16. ASSUME UNCHANGED vars PROVE EndIsFinal'
  BY <1>16 DEF vars, EndIsFinal, Quiescent
<1> QED
  BY <1>1, <1>2, <1>3, <1>4, <1>5, <1>6, <1>7, <1>8, <1>9, <1>10, <1>11, <1>12,
     <1>13, <1>14, <1>15, <1>16 DEF Next, Step, Returned

-----------------------------------------------------------------------------
(* Nothing is forgotten.  While no error is met, what a request asks for   *)
(* is either done or pending as a work item, and every request of a root   *)
(* or of a kept unit is in progress or has been answered in this way.      *)

(* The unit is kept, or its owner is going to load it. *)
UnitServed(u) == loads[u] > 0 \/ Pending(<<"LoadGcUnit", u>>)

(* The symbol is loaded, or its owner is going to load it. *)
SymbolServed(s) ==
  \/ Pending(<<"LoadGlobalSymbol", s>>)
  \/ /\ IF StartStopSection[s] # NoSection THEN candidates[StartStopSection[s]] = {}
        ELSE \A u \in UnitsOf(s) : UnitServed(u)
     /\ s \in CommonSymbols => commons[s] > 0

(* What request r asks for is done or pending. *)
Served(r) ==
  /\ r.kind = "unit" => UnitServed(r.target)
  /\ r.kind = "ref" => r.add \subseteq flags[r.target] /\ SymbolServed(r.target)
  /\ r.kind = "export" => EXPORT_DYNAMIC \in flags[r.target]
  /\ r.kind = "exportreq" /\ r.target \in Exportable =>
       Pending(<<"ExportDynamic", r.target>>) \/ EXPORT_DYNAMIC \in flags[r.target]

(* Some task has r to handle, or r is served. *)
Asked(r) == (\E g \in Groups : r \in todo[g]) \/ Served(r)

(* The parts of the invariant. *)
RequestsAsked ==
  /\ \A g \in Groups : worker[g] # "unstarted" => \A r \in Roots[g] : Asked(r)
  /\ \A u \in Kept : \A r \in Refs[u] : Asked(r)
FlaggedServed == \A s \in Symbols : flags[s] # {} => SymbolServed(s)
TakenServed == \A sec \in Sections : \A u \in Candidates[sec] \ candidates[sec] : UnitServed(u)
CopiesServed == \A s \in Symbols : COPY_RELOCATION \in flags[s] =>
                  copies[s] > 0 \/ Pending(CopyRequest(s))

(* The inductive invariant behind the completeness of the traversal. *)
NothingForgotten ==
  Clean => RequestsAsked /\ FlaggedServed /\ TakenServed /\ CopiesServed

(* Loading a symbol serves it, and every candidate it takes. *)
LEMMA LoadSymbolServes ==
  ASSUME TypeOK, NEW g \in Groups, NEW s \in Symbols, LoadSymbol(g, s)
  PROVE  /\ SymbolServed(s)'
         /\ \A sec \in Sections : \A u \in candidates[sec] \ candidates'[sec] :
              Pending(<<"LoadGcUnit", u>>)'
<1> DEFINE own == StartStopSection[s]
           units == IF own # NoSection THEN candidates[own] ELSE UnitsOf(s)
<1>1. outbox'[g] = {<<"LoadGcUnit", u>> : u \in units}
  BY DEF LoadSymbol, TypeOK
<1>2. \A u \in units : Pending(<<"LoadGcUnit", u>>)'
  BY <1>1 DEF Pending
<1>3. own # NoSection => own \in Sections /\ candidates' = [candidates EXCEPT ![own] = {}]
  BY ConstantsAssumption DEF LoadSymbol
<1>4. s \in CommonSymbols => commons'[s] > 0
  BY DEF LoadSymbol, TypeOK
<1>5. own # NoSection => candidates'[own] = {}
  BY <1>3 DEF TypeOK
<1>6. own = NoSection => \A u \in UnitsOf(s) : UnitServed(u)'
  BY <1>2 DEF UnitServed
<1>7. SymbolServed(s)'
  BY <1>4, <1>5, <1>6 DEF SymbolServed, UnitsOf
<1>8. ASSUME NEW sec \in Sections, NEW u \in candidates[sec] \ candidates'[sec]
      PROVE  Pending(<<"LoadGcUnit", u>>)'
  <2>1. own # NoSection /\ sec = own
    BY <1>3, <1>8 DEF LoadSymbol, TypeOK
  <2> QED
    BY <2>1, <1>2, <1>8
<1> QED
  BY <1>7, <1>8

(* While no error is met, a unit that is served stays served. *)
LEMMA UnitStaysServed ==
  ASSUME TypeOK, TypeOK', [Next]_vars, Clean', NEW u \in Units, UnitServed(u)
  PROVE  UnitServed(u)'
<1>1. CASE loads[u] > 0
  BY <1>1, StepGrows DEF Grows, UnitServed
<1>2. CASE Pending(<<"LoadGcUnit", u>>)
  <2>1. Pending(<<"LoadGcUnit", u>>)' \/ Done(<<"LoadGcUnit", u>>)
    BY <1>2, WorkItems, PendingUntilDone
  <2>2. Done(<<"LoadGcUnit", u>>) => loads'[u] > 0
    BY DEF Done
  <2> QED
    BY <2>1, <2>2 DEF UnitServed
<1> QED
  BY <1>1, <1>2 DEF UnitServed

(* So does a symbol. *)
LEMMA SymbolStaysServed ==
  ASSUME TypeOK, TypeOK', [Next]_vars, Clean', NEW s \in Symbols, SymbolServed(s)
  PROVE  SymbolServed(s)'
<1>1. CASE Pending(<<"LoadGlobalSymbol", s>>)
  <2>1. Pending(<<"LoadGlobalSymbol", s>>)' \/ Done(<<"LoadGlobalSymbol", s>>)
    BY <1>1, WorkItems, PendingUntilDone
  <2>2. Done(<<"LoadGlobalSymbol", s>>) => \E g \in Groups : LoadSymbol(g, s)
    BY DEF Done
  <2> QED
    BY <2>1, <2>2, LoadSymbolServes DEF SymbolServed
<1>2. CASE /\ IF StartStopSection[s] # NoSection THEN candidates[StartStopSection[s]] = {}
              ELSE \A u \in UnitsOf(s) : UnitServed(u)
           /\ s \in CommonSymbols => commons[s] > 0
  <2>1. s \in CommonSymbols => commons'[s] > 0
    BY <1>2, StepGrows DEF Grows
  <2>2. CASE StartStopSection[s] # NoSection
    <3>1. StartStopSection[s] \in Sections
      BY <2>2, ConstantsAssumption
    <3>2. candidates'[StartStopSection[s]] = {}
      BY <1>2, <2>2, <3>1, StepGrows DEF Grows
    <3> QED
      BY <2>1, <2>2, <3>2 DEF SymbolServed
  <2>3. CASE StartStopSection[s] = NoSection
    <3>1. \A u \in UnitsOf(s) : UnitServed(u)'
      BY <1>2, <2>3, UnitsOfType, UnitStaysServed
    <3> QED
      BY <2>1, <2>3, <3>1 DEF SymbolServed, UnitsOf
  <2> QED
    BY <2>2, <2>3
<1> QED
  BY <1>1, <1>2 DEF SymbolServed

(* So does a request. *)
LEMMA RequestStaysServed ==
  ASSUME TypeOK, TypeOK', [Next]_vars, Clean', NEW r \in Request, Served(r)
  PROVE  Served(r)'
<1>1. r.kind = "unit" => UnitServed(r.target)'
  BY RequestFields, UnitStaysServed DEF Served
<1>2. r.kind = "ref" => r.add \subseteq flags'[r.target] /\ SymbolServed(r.target)'
  <2> HAVE r.kind = "ref"
  <2>1. r.target \in Symbols
    BY RequestFields
  <2>2. r.add \subseteq flags[r.target] /\ SymbolServed(r.target)
    BY DEF Served
  <2> QED
    BY <2>1, <2>2, SymbolStaysServed, StepGrows DEF Grows
<1>3. r.kind = "export" => EXPORT_DYNAMIC \in flags'[r.target]
  BY RequestFields, StepGrows DEF Grows, Served
<1>4. r.kind = "exportreq" /\ r.target \in Exportable =>
        Pending(<<"ExportDynamic", r.target>>)' \/ EXPORT_DYNAMIC \in flags'[r.target]
  <2> HAVE r.kind = "exportreq" /\ r.target \in Exportable
  <2>1. r.target \in Symbols
    BY RequestFields
  <2>2. CASE EXPORT_DYNAMIC \in flags[r.target]
    BY <2>1, <2>2, StepGrows DEF Grows
  <2>3. CASE Pending(<<"ExportDynamic", r.target>>)
    <3>1. Pending(<<"ExportDynamic", r.target>>)' \/ Done(<<"ExportDynamic", r.target>>)
      BY <2>1, <2>3, WorkItems, PendingUntilDone
    <3>2. Done(<<"ExportDynamic", r.target>>) => EXPORT_DYNAMIC \in flags'[r.target]
      BY DEF Done
    <3> QED
      BY <3>1, <3>2
  <2> QED
    BY <2>2, <2>3 DEF Served
<1> QED
  BY <1>1, <1>2, <1>3, <1>4 DEF Served

(* Noting a reference sets its flags and serves its symbol. *)
LEMMA NotedIsServed ==
  ASSUME TypeOK, TypeOK', [Next]_vars, Clean', FlaggedServed,
         NEW g \in Groups, NEW r \in Request, r.kind = "ref",
         flags' = [flags EXCEPT ![r.target] = @ \cup r.add],
         outbox' = [outbox EXCEPT ![g] =
           (IF flags[r.target] = {} THEN {<<"LoadGlobalSymbol", r.target>>} ELSE {})
           \cup (IF COPY_RELOCATION \in r.add \ flags[r.target]
                 THEN {<<"CopyRelocateSymbol", r.target>>} ELSE {})]
  PROVE  Served(r)'
<1> DEFINE s == r.target
<1>1. s \in Symbols /\ r.add \in SUBSET Flags
  BY RequestFields
<1>2. r.add \subseteq flags'[s]
  BY <1>1 DEF TypeOK
<1>3. CASE flags[s] = {}
  <2>1. <<"LoadGlobalSymbol", s>> \in outbox'[g]
    BY <1>3 DEF TypeOK
  <2> QED
    BY <1>2, <2>1 DEF Served, SymbolServed, Pending
<1>4. CASE flags[s] # {}
  BY <1>1, <1>2, <1>4, SymbolStaysServed DEF FlaggedServed, Served
<1> QED
  BY <1>3, <1>4

(* A request that was made stays in progress or is served. *)
LEMMA AskedStays ==
  ASSUME TypeOK, TypeOK', [Next]_vars, Clean', FlaggedServed, EndIsFinal,
         NEW r \in Request, Asked(r)
  PROVE  Asked(r)'
<1>a. CASE Served(r)
  BY <1>a, RequestStaysServed DEF Asked
<1>b. CASE ~Served(r)
  <2> PICK h \in Groups : r \in todo[h]
    BY <1>b DEF Asked
  <2>a. r \in todo'[h] => Asked(r)'
    BY DEF Asked
  <2>b. Served(r)' => Asked(r)'
    BY DEF Asked
  <2>1. ASSUME NEW g \in Groups, Activate(g) PROVE Asked(r)'
    BY <2>1, <2>a DEF Activate, EndIsFinal, TypeOK
  <2>2. ASSUME NEW g \in Groups, ActivateFails(g) PROVE Asked(r)'
    BY <2>2 DEF ActivateFails, Clean, TypeOK
  <2>3. ASSUME NEW g \in Groups, StartWork(g) PROVE Asked(r)'
    BY <2>3, <2>a DEF StartWork
  <2>4. ASSUME NEW g \in Groups, NoteReference(g) PROVE Asked(r)'
    <3>1. PICK q \in todo[g] :
            /\ q.kind = "ref" /\ todo' = [todo EXCEPT ![g] = @ \ {q}]
            /\ flags' = [flags EXCEPT ![q.target] = @ \cup q.add]
            /\ outbox' = [outbox EXCEPT ![g] =
                 (IF flags[q.target] = {} THEN {<<"LoadGlobalSymbol", q.target>>} ELSE {})
                 \cup (IF COPY_RELOCATION \in q.add \ flags[q.target]
                       THEN {<<"CopyRelocateSymbol", q.target>>} ELSE {})]
      BY <2>4 DEF NoteReference, Handles
    <3>2. CASE h = g /\ r = q
      BY <3>1, <3>2, <2>b, NotedIsServed
    <3>3. CASE ~(h = g /\ r = q)
      BY <3>1, <3>3, <2>a DEF TypeOK
    <3> QED
      BY <3>2, <3>3
  <2>5. ASSUME NEW g \in Groups, RequestWork(g) PROVE Asked(r)'
    <3>1. PICK q \in todo[g] :
            /\ q.kind \in {"unit", "exportreq"} /\ todo' = [todo EXCEPT ![g] = @ \ {q}]
            /\ outbox' = [outbox EXCEPT ![g] =
                 {<<IF q.kind = "unit" THEN "LoadGcUnit" ELSE "ExportDynamic", q.target>>}]
      BY <2>5 DEF RequestWork, Handles
    <3>2. CASE h = g /\ r = q
      <4>1. <<IF r.kind = "unit" THEN "LoadGcUnit" ELSE "ExportDynamic", r.target>> \in outbox'[g]
        BY <3>1, <3>2 DEF TypeOK
      <4>2. Pending(<<IF r.kind = "unit" THEN "LoadGcUnit" ELSE "ExportDynamic", r.target>>)'
        BY <4>1 DEF Pending
      <4>3. r.kind = "unit" => Pending(<<"LoadGcUnit", r.target>>)'
        BY <4>2
      <4>4. r.kind = "exportreq" => Pending(<<"ExportDynamic", r.target>>)'
        BY <4>2
      <4> QED
        BY <3>1, <3>2, <4>3, <4>4, <2>b DEF Served, UnitServed
    <3>3. CASE ~(h = g /\ r = q)
      BY <3>1, <3>3, <2>a DEF TypeOK
    <3> QED
      BY <3>2, <3>3
  <2>6. ASSUME NEW g \in Groups, ExportOwnSymbol(g) PROVE Asked(r)'
    <3>1. PICK q \in todo[g] : /\ q.kind = "export" /\ todo' = [todo EXCEPT ![g] = @ \ {q}]
                               /\ flags' = [flags EXCEPT ![q.target] = @ \cup {EXPORT_DYNAMIC}]
      BY <2>6 DEF ExportOwnSymbol, Handles, ExportSymbol
    <3>2. CASE h = g /\ r = q
      <4>1. r.target \in Symbols /\ EXPORT_DYNAMIC \in flags'[r.target]
        BY <3>1, <3>2, RequestFields DEF TypeOK
      <4> QED
        BY <3>1, <3>2, <4>1, <2>b DEF Served
    <3>3. CASE ~(h = g /\ r = q)
      BY <3>1, <3>3, <2>a DEF TypeOK
    <3> QED
      BY <3>2, <3>3
  <2>7. ASSUME NEW g \in Groups, SendWork(g) PROVE Asked(r)'
    BY <2>7, <2>a DEF SendWork
  <2>8. ASSUME NEW g \in Groups, DoLoadGlobalSymbol(g) PROVE Asked(r)'
    BY <2>8, <2>a DEF DoLoadGlobalSymbol
  <2>9. ASSUME NEW g \in Groups, DoLoadGcUnit(g) PROVE Asked(r)'
    BY <2>9, <2>a, ZenonT(60) DEF DoLoadGcUnit, Pops, Idle, TypeOK
  <2>10. ASSUME NEW g \in Groups, DoLoadBadUnit(g) PROVE Asked(r)'
    BY <2>10 DEF DoLoadBadUnit, Clean
  <2>11. ASSUME NEW g \in Groups, ReportError(g) PROVE Asked(r)'
    BY <2>11 DEF ReportError, Clean, TypeOK
  <2>12. ASSUME NEW g \in Groups, DoExportDynamic(g) PROVE Asked(r)'
    BY <2>12, <2>a DEF DoExportDynamic
  <2>13. ASSUME NEW g \in Groups, DoCopyRelocateSymbol(g) PROVE Asked(r)'
    BY <2>13, <2>a DEF DoCopyRelocateSymbol
  <2>14. ASSUME NEW g \in Groups, ParkOrSwap(g) PROVE Asked(r)'
    BY <2>14, <2>a DEF ParkOrSwap
  <2>15. ASSUME Finish PROVE Asked(r)'
    BY <2>15, <2>a DEF Finish
  <2>16. ASSUME UNCHANGED vars PROVE Asked(r)'
    BY <2>16, <2>a DEF vars
  <2> QED
    BY <2>1, <2>2, <2>3, <2>4, <2>5, <2>6, <2>7, <2>8, <2>9, <2>10, <2>11, <2>12,
       <2>13, <2>14, <2>15, <2>16 DEF Next, Step, Returned
<1> QED
  BY <1>a, <1>b

(* New requests are in progress: those of a group that starts, and those   *)
(* of a unit that is loaded.                                               *)
LEMMA NewRequests ==
  ASSUME TypeOK, [Next]_vars
  PROVE  /\ \A g \in Groups : worker[g] = "unstarted" /\ worker'[g] # "unstarted" =>
              Roots[g] \subseteq todo'[g]
         /\ \A u \in Units : loads[u] = 0 /\ loads'[u] > 0 =>
              \E g \in Groups : Refs[u] \subseteq todo'[g]
<1> DEFINE Started == \A g \in Groups : worker[g] = "unstarted" /\ worker'[g] # "unstarted" =>
                        Roots[g] \subseteq todo'[g]
           Loaded == \A u \in Units : loads[u] = 0 /\ loads'[u] > 0 =>
                       \E g \in Groups : Refs[u] \subseteq todo'[g]
<1>a. UNCHANGED loads => Loaded
  OBVIOUS
<1>1. ASSUME NEW g \in Groups, Activate(g) PROVE Started /\ Loaded
  BY <1>1, <1>a DEF Activate, TypeOK
<1>2. ASSUME NEW g \in Groups, ActivateFails(g) PROVE Started /\ Loaded
  BY <1>2, <1>a DEF ActivateFails
<1>3. ASSUME NEW g \in Groups, StartWork(g) PROVE Started /\ Loaded
  BY <1>3, <1>a DEF StartWork, TypeOK
<1>4. ASSUME NEW g \in Groups, NoteReference(g) PROVE Started /\ Loaded
  BY <1>4, <1>a DEF NoteReference
<1>5. ASSUME NEW g \in Groups, RequestWork(g) PROVE Started /\ Loaded
  BY <1>5, <1>a DEF RequestWork
<1>6. ASSUME NEW g \in Groups, ExportOwnSymbol(g) PROVE Started /\ Loaded
  BY <1>6, <1>a DEF ExportOwnSymbol
<1>7. ASSUME NEW g \in Groups, SendWork(g) PROVE Started /\ Loaded
  BY <1>7, <1>a DEF SendWork, TypeOK
<1>8. ASSUME NEW g \in Groups, DoLoadGlobalSymbol(g) PROVE Started /\ Loaded
  BY <1>8, <1>a DEF DoLoadGlobalSymbol
<1>9. ASSUME NEW g \in Groups, DoLoadGcUnit(g) PROVE Started /\ Loaded
  <2>1. PICK v \in Units : IF loads[v] > 0 THEN UNCHANGED loads
                           ELSE /\ loads' = [loads EXCEPT ![v] = @ + 1]
                                /\ todo' = [todo EXCEPT ![g] = Refs[v]]
    BY <1>9 DEF DoLoadGcUnit
  <2>2. ASSUME NEW u \in Units, loads[u] = 0, loads'[u] > 0 PROVE Refs[u] \subseteq todo'[g]
    <3>1. u = v /\ ~(loads[v] > 0)
      BY <2>1, <2>2 DEF TypeOK
    <3> QED
      BY <2>1, <3>1 DEF TypeOK
  <2> QED
    BY <1>9, <2>2 DEF DoLoadGcUnit
<1>10. ASSUME NEW g \in Groups, DoLoadBadUnit(g) PROVE Started /\ Loaded
  BY <1>10, <1>a DEF DoLoadBadUnit, Pops, Idle, TypeOK
<1>11. ASSUME NEW g \in Groups, ReportError(g) PROVE Started /\ Loaded
  BY <1>11, <1>a DEF ReportError, TypeOK
<1>12. ASSUME NEW g \in Groups, DoExportDynamic(g) PROVE Started /\ Loaded
  BY <1>12, <1>a DEF DoExportDynamic
<1>13. ASSUME NEW g \in Groups, DoCopyRelocateSymbol(g) PROVE Started /\ Loaded
  BY <1>13, <1>a DEF DoCopyRelocateSymbol
<1>14. ASSUME NEW g \in Groups, ParkOrSwap(g) PROVE Started /\ Loaded
  BY <1>14, <1>a DEF ParkOrSwap, Idle, TypeOK
<1>15. ASSUME Finish PROVE Started /\ Loaded
  BY <1>15, <1>a DEF Finish
<1>16. ASSUME UNCHANGED vars PROVE Started /\ Loaded
  BY <1>16, <1>a DEF vars
<1> QED
  BY <1>1, <1>2, <1>3, <1>4, <1>5, <1>6, <1>7, <1>8, <1>9, <1>10, <1>11, <1>12,
     <1>13, <1>14, <1>15, <1>16 DEF Next, Step, Returned

(* What a step does to the marking: work items become pending only in the  *)
(* outbox of the task that takes the step.                                 *)
Adds(items) == \A item \in WorkItem : Pending(item)' => Pending(item) \/ item \in items

(* The task of g notes the reference r. *)
Notes(g, r) ==
  /\ r \in todo[g] /\ r.kind = "ref"
  /\ flags' = [flags EXCEPT ![r.target] = @ \cup r.add]
  /\ outbox' = [outbox EXCEPT ![g] =
       (IF flags[r.target] = {} THEN {<<"LoadGlobalSymbol", r.target>>} ELSE {})
       \cup (IF COPY_RELOCATION \in r.add \ flags[r.target]
             THEN {<<"CopyRelocateSymbol", r.target>>} ELSE {})]
  /\ Adds(outbox'[g])
  /\ \A h \in Groups : todo'[h] \subseteq todo[h]
  /\ UNCHANGED <<candidates, loads, failed>>

(* It sends the work item that r asks for. *)
Forwards(g, r) ==
  /\ r \in todo[g] /\ r.kind \in {"unit", "exportreq"}
  /\ Adds({<<IF r.kind = "unit" THEN "LoadGcUnit" ELSE "ExportDynamic", r.target>>})
  /\ \A h \in Groups : todo'[h] \subseteq todo[h]
  /\ UNCHANGED <<flags, candidates, loads, failed>>

(* It exports a symbol, as some request asks. *)
Exports(g, s) ==
  /\ ExportSymbol(g, s)
  /\ \/ \E r \in todo[g] : r.kind = "export" /\ r.target = s
     \/ s \in Exportable /\ Pending(<<"ExportDynamic", s>>)
  /\ flags[s] = {} => Adds(outbox'[g])
  /\ flags[s] # {} => Adds({})
  /\ \A h \in Groups : todo'[h] \subseteq todo[h]
  /\ UNCHANGED <<loads, failed>>

(* It loads a symbol, as some task asked it to. *)
LoadsSymbol(g, s) ==
  /\ LoadSymbol(g, s) /\ Pending(<<"LoadGlobalSymbol", s>>)
  /\ Adds(outbox'[g])
  /\ UNCHANGED <<todo, flags, loads, failed>>

(* It starts to follow the relocations of a unit, as some task asked it to. *)
Walks(u) ==
  /\ Pending(<<"LoadGcUnit", u>>) /\ Walked' = Walked \cup {u}
  /\ Adds({})
  /\ \A h \in Groups : todo'[h] \subseteq todo[h] \cup Refs[u]
  /\ UNCHANGED <<flags, candidates>>

(* It starts, sends, takes over or drops work, or ends. *)
Administers ==
  /\ Adds({})
  /\ \A h \in Groups : todo'[h] \subseteq todo[h] \cup Roots[h]
  /\ UNCHANGED <<flags, candidates, loads, failed>>

Effect ==
  \/ \E g \in Groups : \E r \in Request : Notes(g, r) \/ Forwards(g, r)
  \/ \E g \in Groups, s \in Symbols : Exports(g, s) \/ LoadsSymbol(g, s)
  \/ \E u \in Units : Walks(u)
  \/ Administers

(* An item that is taken from a queue is pending. *)
LEMMA PoppedWasPending ==
  ASSUME NEW g \in Groups, NEW item, Pops(g, item)
  PROVE  Pending(item)
  BY DEF Pops, Pending

(* Every step is one of these. *)
LEMMA StepEffect ==
  ASSUME TypeOK, TypeOK', [Next]_vars
  PROVE  Effect
<1>a. Administers => Effect
  BY DEF Effect
<1>b. UNCHANGED <<local_work, slot_work, outbox>> => Adds({})
  BY DEF Adds, Pending
<1>1. ASSUME NEW g \in Groups, Activate(g) PROVE Administers
  BY <1>1, <1>b DEF Activate, Administers, TypeOK
<1>2. ASSUME NEW g \in Groups, ActivateFails(g) PROVE Administers
  BY <1>2, <1>b DEF ActivateFails, Administers, TypeOK
<1>3. ASSUME NEW g \in Groups, StartWork(g) PROVE Administers
  BY <1>3, <1>b DEF StartWork, Administers
<1>4. ASSUME NEW g \in Groups, NoteReference(g) PROVE Effect
  <2>1. PICK r \in todo[g] :
          /\ r.kind = "ref" /\ Handles(g, r)
          /\ flags' = [flags EXCEPT ![r.target] = @ \cup r.add]
          /\ outbox' = [outbox EXCEPT ![g] =
               (IF flags[r.target] = {} THEN {<<"LoadGlobalSymbol", r.target>>} ELSE {})
               \cup (IF COPY_RELOCATION \in r.add \ flags[r.target]
                     THEN {<<"CopyRelocateSymbol", r.target>>} ELSE {})]
    BY <1>4 DEF NoteReference
  <2>2. UNCHANGED <<local_work, slot_work, candidates, loads, failed>>
    BY <1>4 DEF NoteReference
  <2>3. /\ r \in Request /\ outbox[g] = {}
        /\ \A h \in Groups : h # g => outbox'[h] = outbox[h]
        /\ \A h \in Groups : todo'[h] \subseteq todo[h]
    BY <2>1 DEF Handles, TypeOK
  <2>4. Adds(outbox'[g])
    BY <2>2, <2>3, OutboxWritten DEF Adds
  <2> QED
    BY <2>1, <2>2, <2>3, <2>4 DEF Effect, Notes
<1>5. ASSUME NEW g \in Groups, RequestWork(g) PROVE Effect
  <2>1. PICK r \in todo[g] :
          /\ r.kind \in {"unit", "exportreq"} /\ Handles(g, r)
          /\ outbox' = [outbox EXCEPT ![g] =
               {<<IF r.kind = "unit" THEN "LoadGcUnit" ELSE "ExportDynamic", r.target>>}]
    BY <1>5 DEF RequestWork
  <2>2. UNCHANGED <<local_work, slot_work, flags, candidates, loads, failed>>
    BY <1>5 DEF RequestWork
  <2>3. /\ r \in Request /\ outbox[g] = {}
        /\ \A h \in Groups : h # g => outbox'[h] = outbox[h]
        /\ \A h \in Groups : todo'[h] \subseteq todo[h]
        /\ outbox'[g] = {<<IF r.kind = "unit" THEN "LoadGcUnit" ELSE "ExportDynamic", r.target>>}
    BY <2>1 DEF Handles, TypeOK
  <2>4. Adds(outbox'[g])
    BY <2>2, <2>3, OutboxWritten DEF Adds
  <2> QED
    BY <2>1, <2>2, <2>3, <2>4 DEF Effect, Forwards
<1>6. ASSUME NEW g \in Groups, ExportOwnSymbol(g) PROVE Effect
  <2>1. PICK r \in todo[g] : r.kind = "export" /\ Handles(g, r) /\ ExportSymbol(g, r.target)
    BY <1>6 DEF ExportOwnSymbol
  <2>2. UNCHANGED <<local_work, slot_work, loads, failed>>
    BY <1>6 DEF ExportOwnSymbol
  <2>3. /\ r.target \in Symbols /\ outbox[g] = {}
        /\ \A h \in Groups : todo'[h] \subseteq todo[h]
    BY <2>1, RequestFields DEF Handles, TypeOK
  <2>4. Adds(outbox'[g])
    BY <2>1, <2>2, <2>3, ExportSymbolOutbox, OutboxWritten DEF Adds
  <2>5. flags[r.target] # {} => Adds({})
    BY <2>1, <2>2, <1>b DEF ExportSymbol
  <2> QED
    BY <2>1, <2>2, <2>3, <2>4, <2>5 DEF Effect, Exports
<1>7. ASSUME NEW g \in Groups, SendWork(g) PROVE Administers
  <2>1. Adds({})
    BY <1>7, SendMoves DEF Adds
  <2> QED
    BY <1>7, <2>1 DEF SendWork, Administers
<1>8. ASSUME NEW g \in Groups, DoLoadGlobalSymbol(g) PROVE Effect
  <2>1. PICK s \in Symbols : Pops(g, <<"LoadGlobalSymbol", s>>) /\ LoadSymbol(g, s)
    BY <1>8 DEF DoLoadGlobalSymbol
  <2>2. UNCHANGED <<slot_work, todo, flags, loads, failed>>
    BY <1>8 DEF DoLoadGlobalSymbol
  <2>3. Adds(outbox'[g])
    BY <2>1, <2>2, WorkItems, LoadSymbolOutbox, PopWritten DEF Adds
  <2> QED
    BY <2>1, <2>2, <2>3, PoppedWasPending DEF Effect, LoadsSymbol
<1>9. ASSUME NEW g \in Groups, DoLoadGcUnit(g) PROVE Effect
  <2>1. PICK u \in Units : /\ Pops(g, <<"LoadGcUnit", u>>)
                           /\ IF loads[u] > 0 THEN UNCHANGED <<loads, todo>>
                              ELSE /\ loads' = [loads EXCEPT ![u] = @ + 1]
                                   /\ todo' = [todo EXCEPT ![g] = Refs[u]]
    BY <1>9 DEF DoLoadGcUnit
  <2>2. UNCHANGED <<slot_work, outbox, flags, candidates, failed>>
    BY <1>9 DEF DoLoadGcUnit
  <2>3. outbox'[g] = {}
    BY <2>1, <2>2 DEF Pops, Idle
  <2>4. Adds({})
    BY <2>1, <2>2, <2>3, WorkItems, PopWritten DEF Adds
  <2>5. \A h \in Groups : todo'[h] \subseteq todo[h] \cup Refs[u]
    BY <2>1 DEF TypeOK
  <2>6. Kept' = Kept \cup {u}
    <3>1. loads \in [Units -> Nat] /\ loads[u] \in Nat
      BY DEF TypeOK
    <3>2. \A v \in Units : loads'[v] > 0 <=> (loads[v] > 0 \/ v = u)
      BY <2>1, <3>1
    <3> QED
      BY <3>2 DEF Kept
  <2>7. Walked' = Walked \cup {u}
    BY <2>2, <2>6 DEF Walked
  <2> QED
    BY <2>1, <2>2, <2>4, <2>5, <2>7, PoppedWasPending DEF Effect, Walks
<1>10. ASSUME NEW g \in Groups, DoLoadBadUnit(g) PROVE Effect
  <2>1. PICK u \in BadUnits : /\ Pops(g, <<"LoadGcUnit", u>>)
                              /\ \E done \in SUBSET Refs[u] : todo' = [todo EXCEPT ![g] = done]
                              /\ failed' = failed \cup {u}
    BY <1>10 DEF DoLoadBadUnit
  <2>2. u \in Units /\ UNCHANGED <<slot_work, outbox, flags, candidates, loads>>
    BY <1>10, ConstantsAssumption DEF DoLoadBadUnit
  <2>3. outbox'[g] = {}
    BY <2>1, <2>2 DEF Pops, Idle
  <2>4. Adds({})
    BY <2>1, <2>2, <2>3, WorkItems, PopWritten DEF Adds
  <2>5. \A h \in Groups : todo'[h] \subseteq todo[h] \cup Refs[u]
    BY <2>1 DEF TypeOK
  <2>6. Walked' = Walked \cup {u}
    BY <2>1, <2>2 DEF Walked, Kept
  <2> QED
    BY <2>1, <2>2, <2>4, <2>5, <2>6, PoppedWasPending DEF Effect, Walks
<1>11. ASSUME NEW g \in Groups, ReportError(g) PROVE Administers
  <2>1. ASSUME NEW item \in WorkItem, NEW h \in Groups
        PROVE  local_work'[h][item] > 0 => local_work[h][item] > 0
    <3>1. EmptyBag[item] = 0
      BY DEF EmptyBag
    <3> QED
      BY <1>11, <3>1 DEF ReportError, TypeOK
  <2>2. Adds({})
    BY <1>11, <2>1 DEF ReportError, Adds, Pending
  <2> QED
    BY <1>11, <2>2 DEF ReportError, Administers
<1>12. ASSUME NEW g \in Groups, DoExportDynamic(g) PROVE Effect
  <2>1. PICK s \in Symbols :
          /\ Pops(g, <<"ExportDynamic", s>>)
          /\ IF s \in Exportable THEN ExportSymbol(g, s)
             ELSE UNCHANGED <<flags, outbox, candidates>>
    BY <1>12 DEF DoExportDynamic
  <2>2. UNCHANGED <<slot_work, todo, loads, failed>> /\ outbox[g] = {}
    BY <1>12 DEF DoExportDynamic, Pops, Idle
  <2>3. \A h \in Groups : h # g => outbox'[h] = outbox[h]
    BY <2>1, ExportSymbolOutbox
  <2>4. Adds(outbox'[g])
    BY <2>1, <2>2, <2>3, WorkItems, PopWritten DEF Adds
  <2>5. UNCHANGED outbox => Adds({})
    BY <2>2, <2>4 DEF Adds
  <2>6. CASE s \in Exportable
    <3>1. flags[s] # {} => Adds({})
      BY <2>1, <2>5, <2>6 DEF ExportSymbol
    <3> QED
      BY <2>1, <2>2, <2>4, <2>6, <3>1, PoppedWasPending DEF Effect, Exports
  <2>7. CASE s \notin Exportable
    BY <2>1, <2>2, <2>5, <2>7 DEF Effect, Administers
  <2> QED
    BY <2>6, <2>7
<1>13. ASSUME NEW g \in Groups, DoCopyRelocateSymbol(g) PROVE Administers
  <2>1. PICK s \in Symbols : Pops(g, <<"CopyRelocateSymbol", s>>)
    BY <1>13 DEF DoCopyRelocateSymbol
  <2>2. UNCHANGED <<slot_work, outbox>> /\ outbox'[g] = {}
    BY <1>13 DEF DoCopyRelocateSymbol, Pops, Idle
  <2>3. Adds({})
    BY <2>1, <2>2, WorkItems, PopWritten DEF Adds
  <2> QED
    BY <1>13, <2>3 DEF DoCopyRelocateSymbol, Administers
<1>14. ASSUME NEW g \in Groups, ParkOrSwap(g) PROVE Administers
  <2>1. Adds({})
    BY <1>14, SwapMoves DEF Adds
  <2> QED
    BY <1>14, <2>1 DEF ParkOrSwap, Administers
<1>15. ASSUME Finish PROVE Administers
  BY <1>15, <1>b DEF Finish, Administers
<1>16. ASSUME UNCHANGED vars PROVE Administers
  BY <1>16, <1>b DEF vars, Administers
<1> QED
  BY <1>a, <1>1, <1>2, <1>3, <1>4, <1>5, <1>6, <1>7, <1>8, <1>9, <1>10, <1>11, <1>12,
     <1>13, <1>14, <1>15, <1>16 DEF Next, Step, Returned

(* Initially no request was made and no flag is set. *)
LEMMA ForgottenInit == Init => NothingForgotten
<1> SUFFICES ASSUME Init PROVE RequestsAsked /\ FlaggedServed /\ TakenServed /\ CopiesServed
  BY DEF NothingForgotten
<1>1. RequestsAsked
  BY DEF Init, RequestsAsked, Kept
<1>2. FlaggedServed /\ TakenServed /\ CopiesServed
  BY DEF Init, FlaggedServed, TakenServed, CopiesServed
<1> QED
  BY <1>1, <1>2

(* Every step answers for the requests it makes, handles or inherits. *)
LEMMA ForgottenStep ==
  ASSUME TypeOK, TypeOK', [Next]_vars, EndIsFinal, NothingForgotten
  PROVE  NothingForgotten'
<1> SUFFICES ASSUME Clean'
             PROVE  RequestsAsked' /\ FlaggedServed' /\ TakenServed' /\ CopiesServed'
  BY DEF NothingForgotten
<1>1. Clean /\ RequestsAsked /\ FlaggedServed /\ TakenServed /\ CopiesServed
  BY StepGrows DEF Grows, NothingForgotten
<1>2. RequestsAsked'
  <2>1. ASSUME NEW g \in Groups, worker'[g] # "unstarted", NEW r \in Roots[g] PROVE Asked(r)'
    <3>1. r \in Request
      BY GraphAssumption
    <3>2. CASE worker[g] = "unstarted"
      BY <2>1, <3>2, NewRequests DEF Asked
    <3>3. CASE worker[g] # "unstarted"
      BY <1>1, <2>1, <3>1, <3>3, AskedStays DEF RequestsAsked
    <3> QED
      BY <3>2, <3>3
  <2>2. ASSUME NEW u \in Kept', NEW r \in Refs[u] PROVE Asked(r)'
    <3>1. u \in Units /\ loads'[u] > 0 /\ loads[u] \in Nat /\ r \in Request
      BY GraphAssumption DEF Kept, TypeOK
    <3>2. CASE loads[u] = 0
      BY <3>1, <3>2, NewRequests DEF Asked
    <3>3. CASE loads[u] > 0
      BY <1>1, <3>1, <3>3, AskedStays DEF RequestsAsked, Kept
    <3> QED
      BY <3>1, <3>2, <3>3
  <2> QED
    BY <2>1, <2>2 DEF RequestsAsked
<1>3. FlaggedServed'
  <2> SUFFICES ASSUME NEW s \in Symbols, flags'[s] # {} PROVE SymbolServed(s)'
    BY DEF FlaggedServed
  <2>1. CASE flags[s] # {}
    BY <1>1, <2>1, SymbolStaysServed DEF FlaggedServed
  <2>2. CASE flags[s] = {}
    <3>1. ASSUME NEW g \in Groups, NEW r \in Request, Notes(g, r) PROVE SymbolServed(s)'
      <4>1. r.target \in Symbols
        BY <3>1, RequestFields DEF Notes
      <4>2. r.target = s
        BY <2>2, <3>1, <4>1 DEF Notes, TypeOK
      <4>3. Served(r)'
        BY <1>1, <3>1, NotedIsServed DEF Notes
      <4> QED
        BY <3>1, <4>2, <4>3 DEF Served, Notes
    <3>2. ASSUME NEW g \in Groups, NEW t \in Symbols, Exports(g, t) PROVE SymbolServed(s)'
      <4>1. t = s
        BY <2>2, <3>2 DEF Exports, ExportSymbol, TypeOK
      <4>2. LoadSymbol(g, s)
        BY <2>2, <3>2, <4>1 DEF Exports, ExportSymbol
      <4> QED
        BY <4>2, LoadSymbolServes
    <3>3. UNCHANGED flags => SymbolServed(s)'
      BY <2>2
    <3> QED
      BY <3>1, <3>2, <3>3, StepEffect DEF Effect, Forwards, LoadsSymbol, Walks, Administers
  <2> QED
    BY <2>1, <2>2
<1>4. TakenServed'
  <2> SUFFICES ASSUME NEW sec \in Sections, NEW u \in Candidates[sec] \ candidates'[sec]
               PROVE  UnitServed(u)'
    BY DEF TakenServed
  <2>1. u \in Units
    BY ConstantsAssumption
  <2>2. CASE u \notin candidates[sec]
    BY <1>1, <2>1, <2>2, UnitStaysServed DEF TakenServed
  <2>3. CASE u \in candidates[sec]
    <3>1. ASSUME NEW g \in Groups, NEW s \in Symbols, LoadSymbol(g, s) PROVE UnitServed(u)'
      BY <2>3, <3>1, LoadSymbolServes DEF UnitServed
    <3>2. ASSUME NEW g \in Groups, NEW s \in Symbols, Exports(g, s) PROVE UnitServed(u)'
      <4>1. LoadSymbol(g, s)
        BY <2>3, <3>2 DEF Exports, ExportSymbol
      <4> QED
        BY <3>1, <4>1
    <3>3. ~UNCHANGED candidates
      BY <2>3
    <3> QED
      BY <3>1, <3>2, <3>3, StepEffect
         DEF Effect, Notes, Forwards, LoadsSymbol, Walks, Administers
  <2> QED
    BY <2>2, <2>3
<1>5. CopiesServed'
  <2> SUFFICES ASSUME NEW s \in Symbols, COPY_RELOCATION \in flags'[s]
               PROVE  copies'[s] > 0 \/ Pending(CopyRequest(s))'
    BY DEF CopiesServed
  <2>1. CopyRequest(s) \in WorkItem
    BY WorkItems DEF CopyRequest
  <2>2. CASE COPY_RELOCATION \in flags[s]
    <3>1. CASE copies[s] > 0
      BY <3>1, StepGrows DEF Grows
    <3>2. CASE Pending(CopyRequest(s))
      <4>1. Pending(CopyRequest(s))' \/ Done(CopyRequest(s))
        BY <2>1, <3>2, PendingUntilDone
      <4>2. Done(CopyRequest(s)) => copies'[s] > 0
        BY DEF Done, CopyRequest
      <4> QED
        BY <4>1, <4>2
    <3> QED
      BY <1>1, <2>2, <3>1, <3>2 DEF CopiesServed
  <2>3. CASE COPY_RELOCATION \notin flags[s]
    <3>1. ASSUME NEW g \in Groups, NEW r \in Request, Notes(g, r) PROVE Pending(CopyRequest(s))'
      <4>1. r.target \in Symbols
        BY <3>1, RequestFields DEF Notes
      <4>2. r.target = s /\ COPY_RELOCATION \in r.add
        BY <2>3, <3>1, <4>1 DEF Notes, TypeOK
      <4>3. CopyRequest(s) \in outbox'[g]
        BY <2>3, <3>1, <4>2 DEF Notes, TypeOK, CopyRequest
      <4> QED
        BY <4>3 DEF Pending, CopyRequest
    <3>2. ASSUME NEW g \in Groups, NEW t \in Symbols, Exports(g, t) PROVE FALSE
      BY <2>3, <3>2, ConstantsAssumption DEF Exports, ExportSymbol, TypeOK
    <3>3. ~UNCHANGED flags
      BY <2>3
    <3> QED
      BY <3>1, <3>2, <3>3, StepEffect DEF Effect, Forwards, LoadsSymbol, Walks, Administers
  <2> QED
    BY <2>2, <2>3
<1> QED
  BY <1>2, <1>3, <1>4, <1>5

-----------------------------------------------------------------------------
(* Nothing is kept without a reason.  Every request in progress was made   *)
(* by a root or by a unit whose relocations were followed, every pending   *)
(* item was sent for such a request, and flags are those the requests ask  *)
(* for.                                                                    *)

RequestsJustified == \A g \in Groups : todo[g] \subseteq LiveRequests
ItemsJustified ==
  /\ \A u \in Units : Pending(<<"LoadGcUnit", u>>) => u \in NeededUnits
  /\ \A s \in Symbols : Pending(<<"LoadGlobalSymbol", s>>) =>
       \E r \in LiveRequests : r.kind = "ref" /\ r.target = s
  /\ \A s \in Symbols : Pending(<<"ExportDynamic", s>>) =>
       \E r \in LiveRequests : r.kind = "exportreq" /\ r.target = s
FlagsJustified == \A s \in Symbols : flags[s] \subseteq ExpectedFlags(s, Walked)
CandidatesLeft == \A sec \in Sections : candidates[sec] \subseteq Candidates[sec]

(* The inductive invariant behind the soundness of the traversal. *)
Justified ==
  /\ RequestsJustified /\ ItemsJustified /\ FlagsJustified /\ CandidatesLeft
  /\ Walked \subseteq Marking!Reachable

(* The requests of the roots and of the units are requests; what they lead *)
(* to are units.                                                           *)
LEMMA RequestUnits ==
  /\ AllRoots \subseteq Request /\ \A u \in Units : Refs[u] \subseteq Request
  /\ \A r \in Request : UnitsOfRequest(r) \subseteq Units
  /\ RootUnits \subseteq Units /\ \A u \in Units : Successors[u] \subseteq Units
<1>1. AllRoots \subseteq Request /\ \A u \in Units : Refs[u] \subseteq Request
  BY GraphAssumption DEF AllRoots
<1>2. \A r \in Request : UnitsOfRequest(r) \subseteq Units
  BY RequestFields, UnitsOfType DEF UnitsOfRequest
<1>3. RootUnits \subseteq Units /\ \A u \in Units : Successors[u] \subseteq Units
  BY <1>1, <1>2 DEF RootUnits, Successors
<1> QED
  BY <1>1, <1>2, <1>3

(* The units whose relocations were followed are units. *)
LEMMA WalkedUnits == TypeOK => Walked \subseteq Units
  BY ConstantsAssumption DEF TypeOK, Walked, Kept

(* A live request needs the units it leads to. *)
LEMMA LiveNeeds ==
  ASSUME TypeOK
  PROVE  /\ LiveRequests \subseteq Request
         /\ \A r \in LiveRequests : UnitsOfRequest(r) \subseteq NeededUnits
<1>1. LiveRequests \subseteq Request
  BY WalkedUnits, RequestUnits DEF LiveRequests
<1>2. ASSUME NEW r \in LiveRequests PROVE UnitsOfRequest(r) \subseteq NeededUnits
  <2>1. CASE r \in AllRoots
    BY <2>1 DEF NeededUnits, Marking!Needed, RootUnits
  <2>2. CASE \E u \in Walked : r \in Refs[u]
    <3>1. PICK u \in Walked : r \in Refs[u]
      BY <2>2
    <3>2. UnitsOfRequest(r) \subseteq Successors[u]
      BY <3>1, WalkedUnits DEF Successors
    <3> QED
      BY <3>1, <3>2 DEF NeededUnits, Marking!Needed
  <2> QED
    BY <2>1, <2>2 DEF LiveRequests
<1> QED
  BY <1>1, <1>2

(* What is needed because of reachable units is reachable. *)
LEMMA NeededReachable ==
  ASSUME NEW K \in SUBSET Units, K \subseteq Marking!Reachable
  PROVE  Marking!Needed(K) \subseteq Marking!Reachable
<1> SUFFICES ASSUME NEW n \in Marking!Needed(K) PROVE n \in Marking!Reachable
  OBVIOUS
<1>1. n \in Units
  BY RequestUnits DEF Marking!Needed
<1>2. ASSUME NEW C \in SUBSET Units, Marking!Closed(C) PROVE n \in C
  <2>1. K \subseteq C
    BY <1>2 DEF Marking!Reachable
  <2>2. n \in Marking!Needed(C)
    BY <2>1 DEF Marking!Needed
  <2> QED
    BY <1>2, <2>2 DEF Marking!Closed
<1> QED
  BY <1>1, <1>2 DEF Marking!Reachable

(* Following more relocations only adds to what is live, needed, expected. *)
LEMMA WalkedMonotone ==
  ASSUME Walked \subseteq Walked'
  PROVE  /\ LiveRequests \subseteq LiveRequests'
         /\ NeededUnits \subseteq NeededUnits'
         /\ \A s \in Symbols : ExpectedFlags(s, Walked) \subseteq ExpectedFlags(s, Walked')
<1>1. LiveRequests \subseteq LiveRequests'
  BY DEF LiveRequests
<1>2. NeededUnits \subseteq NeededUnits'
  BY DEF NeededUnits, Marking!Needed
<1>3. \A s \in Symbols : ExpectedFlags(s, Walked) \subseteq ExpectedFlags(s, Walked')
  BY DEF ExpectedFlags
<1> QED
  BY <1>1, <1>2, <1>3

(* Initially nothing is in progress, pending, flagged or followed. *)
LEMMA JustifiedInit == Init => Justified
<1> SUFFICES ASSUME Init PROVE Justified
  OBVIOUS
<1>1. Walked = {}
  BY DEF Init, Walked, Kept
<1>2. \A item \in WorkItem : ~Pending(item)
  BY DEF Init, Pending, EmptyBag
<1>3. RequestsJustified /\ CandidatesLeft /\ FlagsJustified
  BY DEF Init, RequestsJustified, CandidatesLeft, FlagsJustified
<1>4. ItemsJustified
  BY <1>2, WorkItems DEF ItemsJustified
<1> QED
  BY <1>1, <1>3, <1>4 DEF Justified

(* Pending items stay justified when the ones a step adds are. *)
LEMMA ItemsFrame ==
  ASSUME TypeOK, ItemsJustified, Walked \subseteq Walked', NEW items, Adds(items),
         \A u \in Units : <<"LoadGcUnit", u>> \in items => u \in NeededUnits,
         \A s \in Symbols : <<"LoadGlobalSymbol", s>> \in items =>
           \E r \in LiveRequests : r.kind = "ref" /\ r.target = s,
         \A s \in Symbols : <<"ExportDynamic", s>> \in items =>
           \E r \in LiveRequests : r.kind = "exportreq" /\ r.target = s
  PROVE  ItemsJustified'
<1>1. \A u \in Units : Pending(<<"LoadGcUnit", u>>)' => u \in NeededUnits'
  BY WorkItems, WalkedMonotone DEF Adds, ItemsJustified
<1>2. ASSUME NEW s \in Symbols, Pending(<<"LoadGlobalSymbol", s>>)'
      PROVE  \E r \in LiveRequests' : r.kind = "ref" /\ r.target = s
  BY <1>2, WorkItems, WalkedMonotone DEF Adds, ItemsJustified
<1>3. ASSUME NEW s \in Symbols, Pending(<<"ExportDynamic", s>>)'
      PROVE  \E r \in LiveRequests' : r.kind = "exportreq" /\ r.target = s
  BY <1>3, WorkItems, WalkedMonotone DEF Adds, ItemsJustified
<1> QED
  BY <1>1, <1>2, <1>3 DEF ItemsJustified

(* The items that loading a symbol sends, when its units are needed. *)
LEMMA LoadSymbolItems ==
  ASSUME TypeOK, CandidatesLeft, NEW g \in Groups, NEW s \in Symbols, LoadSymbol(g, s),
         UnitsOf(s) \subseteq NeededUnits
  PROVE  /\ \A u \in Units : <<"LoadGcUnit", u>> \in outbox'[g] => u \in NeededUnits
         /\ \A t \in Symbols : /\ <<"LoadGlobalSymbol", t>> \notin outbox'[g]
                               /\ <<"ExportDynamic", t>> \notin outbox'[g]
         /\ CandidatesLeft'
<1> DEFINE own == StartStopSection[s]
           units == IF own # NoSection THEN candidates[own] ELSE UnitsOf(s)
<1>1. outbox'[g] = {<<"LoadGcUnit", u>> : u \in units}
  BY DEF LoadSymbol, TypeOK
<1>2. own # NoSection => own \in Sections /\ candidates[own] \subseteq UnitsOf(s)
  BY ConstantsAssumption DEF CandidatesLeft, UnitsOf
<1>3. units \subseteq NeededUnits
  BY <1>2
<1>4. \A u \in Units : <<"LoadGcUnit", u>> \in outbox'[g] => u \in NeededUnits
  BY <1>1, <1>3
<1>5. \A t \in Symbols : /\ <<"LoadGlobalSymbol", t>> \notin outbox'[g]
                         /\ <<"ExportDynamic", t>> \notin outbox'[g]
  BY <1>1
<1>6. CandidatesLeft'
  BY LoadSymbolGrows DEF CandidatesLeft
<1> QED
  BY <1>4, <1>5, <1>6

(* Every step has a reason for what it adds. *)
LEMMA JustifiedStep ==
  ASSUME TypeOK, TypeOK', [Next]_vars, Justified
  PROVE  Justified'
<1>a. RequestsJustified /\ ItemsJustified /\ FlagsJustified /\ CandidatesLeft
  BY DEF Justified
<1>b. UNCHANGED <<loads, failed>> => Walked' = Walked
  BY DEF Walked, Kept
<1>c. Walked' = Walked =>
        /\ LiveRequests' = LiveRequests
        /\ Walked' \subseteq Marking!Reachable'
        /\ \A s \in Symbols : ExpectedFlags(s, Walked)' = ExpectedFlags(s, Walked)
  BY DEF LiveRequests, Justified, Marking!Reachable, Marking!Closed, Marking!Needed, ExpectedFlags
<1>d. UNCHANGED flags /\ Walked \subseteq Walked' => FlagsJustified'
  BY <1>a, WalkedMonotone DEF FlagsJustified
<1>e. UNCHANGED candidates => CandidatesLeft'
  BY <1>a DEF CandidatesLeft
<1>f. (\A h \in Groups : todo'[h] \subseteq todo[h]) /\ Walked' = Walked => RequestsJustified'
  BY <1>a, <1>c DEF RequestsJustified
<1>g. \A r \in LiveRequests : r \in Request /\ UnitsOfRequest(r) \subseteq NeededUnits
  BY LiveNeeds
<1>1. ASSUME NEW g \in Groups, NEW r \in Request, Notes(g, r) PROVE Justified'
  <2>1. /\ r \in LiveRequests /\ r.target \in Symbols /\ Walked' = Walked
        /\ flags' = [flags EXCEPT ![r.target] = @ \cup r.add]
    BY <1>1, <1>a, <1>b, RequestFields DEF Notes, RequestsJustified
  <2>2. FlagsJustified'
    <3> SUFFICES ASSUME NEW s \in Symbols PROVE flags'[s] \subseteq ExpectedFlags(s, Walked)
      BY <2>1, <1>c DEF FlagsJustified
    <3>1. s = r.target => r.add \subseteq ExpectedFlags(s, Walked)
      BY <2>1 DEF ExpectedFlags, LiveRequests
    <3>2. flags[s] \subseteq ExpectedFlags(s, Walked)
      BY <1>a DEF FlagsJustified
    <3> QED
      BY <2>1, <3>1, <3>2 DEF TypeOK
  <2>3. \A item \in outbox'[g] : \/ item = <<"LoadGlobalSymbol", r.target>>
                                 \/ item = <<"CopyRelocateSymbol", r.target>>
    BY <1>1 DEF Notes, TypeOK
  <2>4. ItemsJustified'
    BY <1>1, <1>a, <2>1, <2>3, ItemsFrame DEF Notes
  <2> QED
    BY <1>1, <1>c, <1>e, <1>f, <2>1, <2>2, <2>4 DEF Notes, Justified
<1>2. ASSUME NEW g \in Groups, NEW r \in Request, Forwards(g, r) PROVE Justified'
  <2>1. /\ r \in LiveRequests /\ Walked' = Walked
        /\ UNCHANGED <<flags, candidates>>
    BY <1>2, <1>a, <1>b DEF Forwards, RequestsJustified
  <2>2. r.kind = "unit" => r.target \in NeededUnits
    BY <2>1, <1>g DEF UnitsOfRequest
  <2>3. ItemsJustified'
    <3> DEFINE item == <<IF r.kind = "unit" THEN "LoadGcUnit" ELSE "ExportDynamic", r.target>>
    <3>1. \A u \in Units : <<"LoadGcUnit", u>> \in {item} => u \in NeededUnits
      BY <2>2
    <3>2. \A s \in Symbols : <<"LoadGlobalSymbol", s>> \notin {item}
      OBVIOUS
    <3>3. \A s \in Symbols : <<"ExportDynamic", s>> \in {item} =>
            r.kind = "exportreq" /\ r.target = s
      BY <1>2 DEF Forwards
    <3> QED
      BY <1>2, <1>a, <2>1, <3>1, <3>2, <3>3, ItemsFrame DEF Forwards
  <2> QED
    BY <1>2, <1>c, <1>d, <1>e, <1>f, <2>1, <2>3 DEF Forwards, Justified
<1>3. ASSUME NEW g \in Groups, NEW s \in Symbols, Exports(g, s) PROVE Justified'
  <2>1. PICK r \in LiveRequests : r.kind # "ref" /\ r.kind # "unit" /\ r.target = s /\ Effective(r)
    BY <1>3, <1>a DEF Exports, RequestsJustified, ItemsJustified, Effective
  <2>2. Walked' = Walked
    BY <1>3, <1>b DEF Exports
  <2>3. UnitsOf(s) \subseteq NeededUnits
    BY <2>1, <1>g DEF UnitsOfRequest
  <2>4. FlagsJustified'
    <3> SUFFICES ASSUME NEW t \in Symbols PROVE flags'[t] \subseteq ExpectedFlags(t, Walked)
      BY <2>2, <1>c DEF FlagsJustified
    <3>1. EXPORT_DYNAMIC \in ExpectedFlags(s, Walked)
      BY <2>1 DEF ExpectedFlags, LiveRequests
    <3>2. flags[t] \subseteq ExpectedFlags(t, Walked)
      BY <1>a DEF FlagsJustified
    <3> QED
      BY <1>3, <3>1, <3>2 DEF Exports, ExportSymbol, TypeOK
  <2>5. ItemsJustified' /\ CandidatesLeft'
    <3>1. CASE flags[s] = {}
      BY <1>3, <1>a, <2>2, <2>3, <3>1, LoadSymbolItems, ItemsFrame DEF Exports, ExportSymbol
    <3>2. CASE flags[s] # {}
      BY <1>3, <1>a, <1>e, <2>2, <3>2, ItemsFrame DEF Exports, ExportSymbol
    <3> QED
      BY <3>1, <3>2
  <2> QED
    BY <1>3, <1>c, <1>f, <2>2, <2>4, <2>5 DEF Exports, Justified
<1>4. ASSUME NEW g \in Groups, NEW s \in Symbols, LoadsSymbol(g, s) PROVE Justified'
  <2>1. PICK r \in LiveRequests : r.kind = "ref" /\ r.target = s
    BY <1>4, <1>a DEF LoadsSymbol, ItemsJustified
  <2>2. Walked' = Walked /\ UNCHANGED <<todo, flags>>
    BY <1>4, <1>b DEF LoadsSymbol
  <2>3. UnitsOf(s) \subseteq NeededUnits
    BY <2>1, <1>g DEF UnitsOfRequest, Effective
  <2>4. ItemsJustified' /\ CandidatesLeft'
    BY <1>4, <1>a, <2>2, <2>3, LoadSymbolItems, ItemsFrame DEF LoadsSymbol
  <2> QED
    BY <1>c, <1>d, <1>f, <2>2, <2>4 DEF Justified
<1>5. ASSUME NEW u \in Units, Walks(u) PROVE Justified'
  <2>1. u \in NeededUnits
    BY <1>5, <1>a DEF Walks, ItemsJustified
  <2>2. Walked' = Walked \cup {u} /\ Walked \subseteq Walked' /\ UNCHANGED <<flags, candidates>>
    BY <1>5 DEF Walks
  <2>3. RequestsJustified'
    <3>1. LiveRequests \subseteq LiveRequests' /\ Refs[u] \subseteq LiveRequests'
      BY <2>2, WalkedMonotone DEF LiveRequests
    <3> QED
      BY <1>5, <1>a, <3>1 DEF Walks, RequestsJustified
  <2>4. ItemsJustified'
    BY <1>5, <1>a, <2>2, ItemsFrame DEF Walks
  <2>5. Walked' \subseteq Marking!Reachable'
    <3>1. u \in Marking!Reachable
      BY <2>1, WalkedUnits, NeededReachable DEF NeededUnits, Justified
    <3>2. Marking!Reachable' = Marking!Reachable
      BY DEF Marking!Reachable, Marking!Closed, Marking!Needed
    <3> QED
      BY <2>2, <3>1, <3>2 DEF Justified
  <2> QED
    BY <1>d, <1>e, <2>2, <2>3, <2>4, <2>5 DEF Justified
<1>6. ASSUME Administers PROVE Justified'
  <2>1. Walked' = Walked /\ UNCHANGED <<flags, candidates>>
    BY <1>6, <1>b DEF Administers
  <2>2. RequestsJustified'
    <3>1. \A h \in Groups : Roots[h] \subseteq LiveRequests
      BY DEF LiveRequests, AllRoots
    <3> QED
      BY <1>6, <1>a, <1>c, <2>1, <3>1 DEF Administers, RequestsJustified
  <2>3. ItemsJustified'
    BY <1>6, <1>a, <2>1, ItemsFrame DEF Administers
  <2> QED
    BY <1>c, <1>d, <1>e, <2>1, <2>2, <2>3 DEF Justified
<1> QED
  BY <1>1, <1>2, <1>3, <1>4, <1>5, <1>6, StepEffect DEF Effect

-----------------------------------------------------------------------------
(* The end of the traversal *)

(* When no task is left and no error was met, every group is parked, and   *)
(* neither a request nor a work item is left anywhere.                     *)
LEMMA NothingLeft ==
  ASSUME TypeOK, ParkedHasNoWork, EndIsFinal, Quiescent, errors = 0
  PROVE  /\ \A g \in Groups : worker[g] = "parked" /\ todo[g] = {}
         /\ failed = {}
         /\ \A item \in WorkItem : ~Pending(item)
<1>1. \A g \in Groups : worker[g] = "parked"
  <2>1. ~(errors > 0)
    OBVIOUS
  <2> QED
    BY <2>1 DEF Quiescent, EndIsFinal
<1>2. failed = {}
  BY <1>1 DEF EndIsFinal
<1>3. \A g \in Groups : todo[g] = {}
  BY <1>1 DEF ParkedHasNoWork
<1>4. \A item \in WorkItem : ~Pending(item)
  BY <1>1 DEF ParkedHasNoWork, Pending, EmptyBag
<1> QED
  BY <1>1, <1>2, <1>3, <1>4

(* A symbol that is served when no item is pending has its units kept and, *)
(* if it is a common symbol, its space.                                    *)
LEMMA ServedIsLoaded ==
  ASSUME TypeOK, TakenServed, \A item \in WorkItem : ~Pending(item),
         NEW s \in Symbols, SymbolServed(s)
  PROVE  UnitsOf(s) \subseteq Kept /\ (s \in CommonSymbols => commons[s] > 0)
<1>1. \A u \in Units : UnitServed(u) => u \in Kept
  BY WorkItems DEF UnitServed, Kept
<1>2. /\ IF StartStopSection[s] # NoSection THEN candidates[StartStopSection[s]] = {}
         ELSE \A u \in UnitsOf(s) : UnitServed(u)
      /\ s \in CommonSymbols => commons[s] > 0
  BY WorkItems DEF SymbolServed
<1>3. CASE StartStopSection[s] # NoSection
  <2>1. StartStopSection[s] \in Sections /\ UnitsOf(s) = Candidates[StartStopSection[s]]
    BY <1>3, ConstantsAssumption DEF UnitsOf
  <2>2. \A u \in UnitsOf(s) : UnitServed(u)
    BY <1>2, <1>3, <2>1 DEF TakenServed
  <2> QED
    BY <1>1, <1>2, <2>2, UnitsOfType
<1>4. CASE StartStopSection[s] = NoSection
  BY <1>1, <1>2, <1>4, UnitsOfType
<1> QED
  BY <1>3, <1>4

(* Then every request is answered: the kept units are closed under the     *)
(* references, and the flags are the ones the requests ask for.            *)
LEMMA EverythingAnswered ==
  ASSUME TypeOK, ParkedHasNoWork, EndIsFinal, NothingForgotten, Quiescent, errors = 0
  PROVE  /\ Marking!Closed(Kept)
         /\ \A s \in Symbols : ExpectedFlags(s, Kept) \subseteq flags[s]
         /\ \A s \in Symbols : COPY_RELOCATION \in flags[s] => copies[s] > 0
         /\ \A s \in CommonSymbols : flags[s] # {} => commons[s] > 0
<1> DEFINE Live == AllRoots \cup UNION {Refs[u] : u \in Kept}
<1>1. /\ \A g \in Groups : worker[g] = "parked" /\ todo[g] = {}
      /\ \A item \in WorkItem : ~Pending(item)
      /\ RequestsAsked /\ FlaggedServed /\ TakenServed /\ CopiesServed
  BY NothingLeft DEF NothingForgotten, Clean
<1>2. \A r \in Live : Served(r)
  BY <1>1 DEF RequestsAsked, Asked, AllRoots
<1>3. Live \subseteq Request
  BY RequestUnits DEF Kept
<1>4. \A s \in Symbols : SymbolServed(s) =>
        UnitsOf(s) \subseteq Kept /\ (s \in CommonSymbols => commons[s] > 0)
  BY <1>1, ServedIsLoaded
<1>5. ASSUME NEW r \in Live PROVE UnitsOfRequest(r) \subseteq Kept
  <2>1. Served(r) /\ r \in Request
    BY <1>2, <1>3
  <2>2. CASE r.kind = "unit"
    BY <1>1, <2>1, <2>2, RequestFields, WorkItems DEF Served, UnitServed, UnitsOfRequest, Kept
  <2>3. CASE r.kind # "unit" /\ Effective(r)
    <3>1. r.target \in Symbols /\ r.kind \in {"ref", "export", "exportreq"}
      BY <2>1, <2>3, RequestFields DEF RequestKinds
    <3>2. r.kind # "ref" => EXPORT_DYNAMIC \in flags[r.target]
      BY <1>1, <2>1, <2>3, <3>1, WorkItems DEF Served, Effective
    <3>3. SymbolServed(r.target)
      BY <1>1, <2>1, <3>1, <3>2 DEF Served, FlaggedServed
    <3> QED
      BY <1>4, <2>3, <3>1, <3>3 DEF UnitsOfRequest
  <2> QED
    BY <2>2, <2>3 DEF UnitsOfRequest
<1>6. Marking!Closed(Kept)
  BY <1>5 DEF Marking!Closed, Marking!Needed, RootUnits, Successors, Kept
<1>7. ASSUME NEW s \in Symbols PROVE ExpectedFlags(s, Kept) \subseteq flags[s]
  <2>1. ASSUME NEW r \in Live, r.target = s
        PROVE  /\ r.add \subseteq flags[s]
               /\ r.kind # "ref" /\ Effective(r) => EXPORT_DYNAMIC \in flags[s]
    <3>1. Served(r) /\ r \in Request
      BY <1>2, <1>3, <2>1
    <3>2. r.kind \in {"ref", "export", "exportreq"} /\ (r.kind # "ref" => r.add = {})
      <4>1. r.target \notin Units
        BY <2>1, ConstantsAssumption
      <4> QED
        BY <3>1, <4>1, RequestFields DEF RequestKinds
    <3>3. r.kind # "ref" /\ Effective(r) => EXPORT_DYNAMIC \in flags[s]
      BY <1>1, <2>1, <3>1, <3>2, WorkItems DEF Served, Effective
    <3> QED
      BY <2>1, <3>1, <3>2, <3>3 DEF Served
  <2> QED
    BY <2>1 DEF ExpectedFlags
<1>8. \A s \in Symbols : COPY_RELOCATION \in flags[s] => copies[s] > 0
  BY <1>1, WorkItems DEF CopiesServed, CopyRequest
<1>9. \A s \in CommonSymbols : flags[s] # {} => commons[s] > 0
  BY <1>1, <1>4, ConstantsAssumption DEF FlaggedServed
<1> QED
  BY <1>6, <1>7, <1>8, <1>9

(* The invariants together. *)
TraversalInv ==
  /\ TypeOK /\ ParkedHasNoWork /\ EndIsFinal /\ CountedOnce /\ NothingForgotten /\ Justified

(* They hold throughout. *)
LEMMA TraversalInvariant == Spec => []TraversalInv
<1>1. Init => TraversalInv
  BY TypeInit, ParkedInit, EndInit, CountedInit, ForgottenInit, JustifiedInit DEF TraversalInv
<1>2. TraversalInv /\ [Next]_vars => TraversalInv'
  <2> SUFFICES ASSUME TraversalInv, [Next]_vars PROVE TraversalInv'
    OBVIOUS
  <2>1. TypeOK /\ ParkedHasNoWork /\ EndIsFinal /\ CountedOnce /\ NothingForgotten /\ Justified
    BY DEF TraversalInv
  <2>2. TypeOK'
    BY <2>1, TypeStep
  <2>3. ParkedHasNoWork' /\ EndIsFinal'
    BY <2>1, <2>2, ParkedStep, EndStep
  <2>4. CountedOnce'
    BY <2>1, <2>2, CopyStep, OthersStep DEF CountedOnce
  <2>5. NothingForgotten' /\ Justified'
    BY <2>1, <2>2, ForgottenStep, JustifiedStep
  <2> QED
    BY <2>2, <2>3, <2>4, <2>5 DEF TraversalInv
<1> QED
  BY <1>1, <1>2, PTL DEF Spec

(* A traversal of any reference graph, by any number of groups, that       *)
(* returns Ok has all groups back, has kept exactly the reachable units    *)
(* and has given every symbol exactly the flags, table entries and copies  *)
(* that the live references ask for.                                       *)
THEOREM OkTraversalIsComplete == Spec => []OkIsComplete
<1>1. ASSUME TraversalInv, result = "ok" PROVE OkIsComplete
  <2>1. /\ TypeOK /\ ParkedHasNoWork /\ EndIsFinal /\ CountedOnce /\ NothingForgotten /\ Justified
        /\ Quiescent /\ errors = 0
    BY <1>1 DEF TraversalInv, EndIsFinal
  <2>2. /\ Marking!Closed(Kept)
        /\ \A s \in Symbols : ExpectedFlags(s, Kept) \subseteq flags[s]
        /\ \A s \in Symbols : COPY_RELOCATION \in flags[s] => copies[s] > 0
        /\ \A s \in CommonSymbols : flags[s] # {} => commons[s] > 0
    BY <2>1, EverythingAnswered
  <2>3. Walked = Kept /\ \A g \in Groups : worker[g] = "parked"
    BY <2>1, NothingLeft DEF Walked
  <2>4. Kept = Marking!Reachable
    <3>1. Kept \subseteq Marking!Reachable
      BY <2>1, <2>3 DEF Justified
    <3>2. Marking!Reachable \subseteq Kept
      BY <2>2 DEF Marking!Reachable, Kept
    <3> QED
      BY <3>1, <3>2
  <2>5. \A s \in Symbols : flags[s] = ExpectedFlags(s, Kept)
    BY <2>1, <2>2, <2>3 DEF Justified, FlagsJustified
  <2>6. \A s \in Symbols : exports[s] = 1 <=> EXPORT_DYNAMIC \in flags[s]
    BY <2>1 DEF CountedOnce, OthersOnce
  <2>7. AllocatedOnce
    BY <2>1, CountedImpliesOnce
  <2>8. ASSUME NEW s \in Symbols PROVE copies[s] = 1 <=> COPY_RELOCATION \in flags[s]
    <3>1. copies[s] \in Nat /\ copies[s] <= 1
      BY <2>1, <2>7 DEF TypeOK, AllocatedOnce
    <3>2. COPY_RELOCATION \in flags[s] => copies[s] > 0
      BY <2>2
    <3>3. /\ local_work[GroupOfSymbol[s]][CopyRequest(s)] \in Nat
          /\ slot_work[GroupOfSymbol[s]][CopyRequest(s)] \in Nat
      <4>1. GroupOfSymbol[s] \in Groups /\ CopyRequest(s) \in WorkItem
        BY WorkItems, ConstantsAssumption DEF CopyRequest
      <4> QED
        BY <2>1, <4>1 DEF TypeOK
    <3>4. COPY_RELOCATION \notin flags[s] => CopyCount(s) = 0
      BY <2>1 DEF CountedOnce, CopyOnce
    <3> QED
      BY <3>1, <3>2, <3>3, <3>4 DEF CopyCount
  <2>9. ASSUME NEW s \in CommonSymbols, flags[s] # {} PROVE commons[s] = 1
    <3>1. s \in Symbols /\ commons[s] > 0
      BY <2>2, <2>9, ConstantsAssumption
    <3>2. commons[s] \in Nat /\ commons[s] <= 1
      BY <2>1, <2>7, <3>1 DEF TypeOK, AllocatedOnce
    <3> QED
      BY <3>1, <3>2
  <2> QED
    BY <2>3, <2>4, <2>5, <2>6, <2>8, <2>9 DEF OkIsComplete
<1>2. TraversalInv => OkIsComplete
  BY <1>1 DEF OkIsComplete
<1> QED
  BY <1>2, TraversalInvariant, PTL

-----------------------------------------------------------------------------
(* The refinement *)

(* The steps that keep Walked are a stuttering step of the marking unless  *)
(* they end the traversal.                                                 *)
LEMMA MarkingStep ==
  ASSUME TraversalInv, TraversalInv', [Next]_vars
  PROVE  [Marking!Next]_<<Successors, Walked, result>>
<1>1. TypeOK /\ TypeOK' /\ ParkedHasNoWork /\ EndIsFinal /\ NothingForgotten /\ Justified
  BY DEF TraversalInv
<1>2. CASE Finish
  <2>1. Walked' = Walked /\ result = "none" /\ Quiescent /\ UNCHANGED errors
    BY <1>2 DEF Finish, Walked, Kept
  <2>2. CASE errors > 0
    BY <1>2, <2>1, <2>2 DEF Finish, Marking!Next, Marking!Fail, Successors, Walked
  <2>3. CASE errors = 0
    <3>1. Marking!Closed(Kept) /\ failed = {}
      BY <1>1, <2>1, <2>3, EverythingAnswered, NothingLeft
    <3>2. Walked = Kept
      BY <3>1 DEF Walked
    <3>3. result' = "ok"
      BY <1>2, <2>3 DEF Finish
    <3> QED
      BY <2>1, <3>1, <3>2, <3>3 DEF Marking!Next, Marking!Succeed, Successors, Walked
  <2> QED
    BY <1>1, <2>2, <2>3 DEF TypeOK
<1>3. CASE \E g \in Groups : Step(g)
  <2>0. PICK g \in Groups : Step(g)
    BY <1>3
  <2>a. UNCHANGED result
    BY <2>0
       DEF Step, Activate, ActivateFails, StartWork, NoteReference, RequestWork, ExportOwnSymbol,
           SendWork, DoLoadGlobalSymbol, DoLoadGcUnit, DoLoadBadUnit, ReportError,
           DoExportDynamic, DoCopyRelocateSymbol, ParkOrSwap
  <2>1. result = "none" /\ UNCHANGED result
    BY <1>1, <2>0, <2>a, BusyTask
  <2>2. Walked' = Walked \/ \E u \in Units : Walks(u)
    BY <1>1, StepEffect DEF Effect, Notes, Forwards, Exports, LoadsSymbol, Administers, Walked, Kept
  <2>3. CASE Walked' = Walked
    BY <2>1, <2>3 DEF Successors
  <2>4. ASSUME NEW u \in Units, Walks(u), Walked' # Walked
        PROVE  Marking!Keep
    <3>1. u \in Marking!Needed(Walked) /\ Walked' = Walked \cup {u} /\ u \notin Walked
      BY <1>1, <2>4 DEF Walks, Justified, ItemsJustified, NeededUnits
    <3>2. {u} \in (SUBSET (Marking!Needed(Walked) \ Walked)) \ {{}}
      BY <3>1
    <3> QED
      BY <2>1, <3>1, <3>2 DEF Marking!Keep, Walked, Successors
  <2> QED
    BY <2>2, <2>3, <2>4 DEF Marking!Next
<1>4. CASE UNCHANGED vars
  BY <1>4 DEF vars, Walked, Kept, Successors
<1> QED
  BY <1>2, <1>3, <1>4 DEF Next, Returned

(* The traversal implements the marking of the reference graph: whatever   *)
(* the interleaving of tasks and queues, each step is a stuttering step,   *)
(* marks one more needed unit, or ends the marking, and it ends with Ok    *)
(* only when the marked units are closed under the references.             *)
THEOREM TraversalImplementsMarking == Spec => ImplementsMarking
<1>1. Init => Marking!Init
  <2>1. Init => Kept \cup failed = {} /\ result = "none"
    BY DEF Init, Kept
  <2>2. Successors \in [Units -> SUBSET Units]
    BY RequestUnits DEF Successors
  <2> QED
    BY <2>1, <2>2 DEF Marking!Init
<1>2. TraversalInv /\ TraversalInv' /\ [Next]_vars =>
        [Marking!Next]_<<Successors, Kept \cup failed, result>>
  BY MarkingStep DEF Walked
<1> QED
  BY <1>1, <1>2, TraversalInvariant, PTL DEF Spec, ImplementsMarking, Marking!Spec
=============================================================================
