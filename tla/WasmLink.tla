------------------------------ MODULE WasmLink ------------------------------
(***************************************************************************)
(* WebAssembly output (libjdxld/src/wasm.rs, wasm_writer.rs).  Objects mark *)
(* their functions, globals, data segments and imports live in parallel;    *)
(* what is left is numbered a first time while indices are handed out and   *)
(* emitted a second time by other code, and every relocation, export and    *)
(* GOT entry holds an index that is only right when the two agree.          *)
(*                                                                          *)
(* Abstractions.  Every object is a group of its own.  Bytes and LEB128     *)
(* are left out: a body or segment is its sequence of relocations.  Local   *)
(* index spaces count from 1, output index spaces from 0, as in the module  *)
(* that is written.  Types are opaque values.  Signatures of constructors,  *)
(* debug sections and tag, event and 64-bit relocations are left out.       *)
(***************************************************************************)
EXTENDS Integers, Sequences, FiniteSets, FiniteSetsExt, SequencesExt

CONSTANTS Programs,    \* the programs to choose from
          MemoryBase,  \* LINKER_MEMORY_BASE
          PageSize,    \* wasm_page_size
          StackAlign,  \* STACK_ALIGNMENT
          MaxPages     \* pages of the 32-bit address space

ASSUME WasmAssumption ==
  /\ MemoryBase \in Nat \ {0} /\ PageSize \in Nat \ {0} /\ StackAlign \in Nat \ {0}
  /\ MaxPages \in Nat \ {0}

VARIABLES
  prog,
  db,         \* symbol_db: the definition that each name has
  phase,      \* "symbols", "gc", "absorb", "maps", "layout", "done", "failed"
  activated,  \* objects whose roots were requested
  live,       \* GC units that are live
  requested,  \* symbols that have the flag DIRECT
  queue,      \* work items: units and symbols to load
  failure,    \* what the link reports: "none" or a kind of error
  res,        \* import_resolutions: of each import of each object
  got,        \* LayoutRelocScan: what has an entry in the GOT
  host,       \* imports that nothing defines: weak ones, functions, globals;
              \* and which definitions of the linker are needed
  maps,       \* object_index_maps
  module      \* WasmLayout, the output module

gc_state == <<activated, live, requested, queue>>
vars == <<prog, db, phase, activated, live, requested, queue, failure, res, got, host, maps, module>>

Obj(o) == prog.objects[o]
Objects == DOMAIN prog.objects
SymbolIds == UNION {{<<o, s>> : s \in DOMAIN Obj(o).symbols} : o \in Objects}
Dead == -1
None == "none"

(* backfill_unnamed_import_symbols: an undefined symbol without name has   *)
(* the name of its import.                                                 *)
Imports(o, kind) == IF kind = "func" THEN Obj(o).function_imports ELSE Obj(o).global_imports
Sym(id) ==
  LET y == Obj(id[1]).symbols[id[2]]
  IN IF y.name = None /\ y.undefined THEN [y EXCEPT !.name = Imports(id[1], y.kind)[y.index].name] ELSE y

-----------------------------------------------------------------------------
(* Linker-defined symbols *)
DataSymbols == {"__data_end", "__global_base", "__heap_base", "__heap_end",
                "__wasm_first_page_end", "__dso_handle"}
GlobalSymbols == {"__memory_base", "__table_base", "__stack_pointer", "__tls_base"}
CallCtors == "__wasm_call_ctors"
LinkerSymbols == DataSymbols \cup GlobalSymbols \cup {CallCtors}

MatchesImportKind(name, kind) ==
  \/ name = CallCtors /\ kind = "func"
  \/ name \in GlobalSymbols /\ kind = "global"

(* symbol_db.definition: of an object, of the prelude, or the last         *)
(* reference of a name that nothing defines.                               *)
Named(name) == {id \in SymbolIds : ~Sym(id).local /\ Sym(id).name = name}
Defines(name, weak) == {id \in Named(name) : ~Sym(id).undefined /\ Sym(id).weak = weak}
FirstId(ids) == CHOOSE a \in ids : \A b \in ids : a[1] < b[1] \/ (a[1] = b[1] /\ a[2] <= b[2])
LastId(ids) == CHOOSE a \in ids : \A b \in ids : a[1] > b[1] \/ (a[1] = b[1] /\ a[2] >= b[2])
SelectDefinition(name) ==
  CASE Defines(name, FALSE) # {} -> FirstId(Defines(name, FALSE))
    [] Defines(name, FALSE) = {} /\ Defines(name, TRUE) # {} -> FirstId(Defines(name, TRUE))
    [] OTHER -> IF name \in LinkerSymbols THEN <<0, name>> ELSE LastId(Named(name))
SymbolDb ==
  [n \in LinkerSymbols \cup {Sym(id).name : id \in {i \in SymbolIds : ~Sym(i).local}} |-> SelectDefinition(n)]
(* select_symbol refuses a second strong definition. *)
DuplicateSymbols ==
  ~prog.allow_multiple_definition
    /\ \E id \in SymbolIds : ~Sym(id).local /\ Cardinality(Defines(Sym(id).name, FALSE)) > 1
NameDefinition(name) == db[name]
Definition(id) == IF Sym(id).local THEN id ELSE NameDefinition(Sym(id).name)
InObject(id) == id[1] # 0
IsDefined(id) == InObject(id) => ~Sym(id).undefined
IsKnown(name) == name \in DOMAIN db

-----------------------------------------------------------------------------
(* Garbage collection *)

(* wasm_gc_unit_for_symbol, as a set of at most one unit *)
FunctionImports(o) == Len(Obj(o).function_imports)
GlobalImports(o) == Len(Obj(o).global_imports)
FunctionUnit(o, i) ==
  IF i <= FunctionImports(o) THEN <<"FunctionImport", o, i>>
  ELSE <<"DefinedFunction", o, i - FunctionImports(o)>>
GlobalUnit(o, i) ==
  IF i <= GlobalImports(o) THEN <<"GlobalImport", o, i>>
  ELSE <<"DefinedGlobal", o, i - GlobalImports(o)>>
UnitFor(id) ==
  LET y == Sym(id)
  IN CASE y.kind = "func" -> {FunctionUnit(id[1], y.index)}
       [] y.kind = "global" -> {GlobalUnit(id[1], y.index)}
       [] y.kind = "data" /\ ~y.undefined -> {<<"DataSegment", id[1], y.index>>}
       [] OTHER -> {}

AllUnits(o) ==
  {FunctionUnit(o, i) : i \in 1..FunctionImports(o) + Len(Obj(o).functions)}
  \cup {GlobalUnit(o, i) : i \in 1..GlobalImports(o) + Len(Obj(o).globals)}
  \cup {<<"DataSegment", o, i>> : i \in DOMAIN Obj(o).segments}

(* send_wasm_definition_request: only the first request is sent. *)
DefinitionRequests(ids) == {d \in {Definition(id) : id \in ids} : InObject(d)} \ requested

IsWeakFunction(y) == y.weak /\ y.kind = "func" /\ ~y.undefined

(* note_wasm_reloc_edge *)
RelocEdge(id) ==
  [units |-> UnitFor(id),
   symbols |-> IF Sym(id).undefined \/ IsWeakFunction(Sym(id)) THEN {id} ELSE {}]

RelocsOf(u) ==
  CASE u[1] = "DefinedFunction" -> Obj(u[2]).functions[u[3]].relocs
    [] u[1] = "DataSegment" -> Obj(u[2]).segments[u[3]].relocs
    [] OTHER -> <<>>
RelocSymbols(u) == {<<u[2], RelocsOf(u)[k].index>> :
                      k \in {j \in DOMAIN RelocsOf(u) : RelocsOf(u)[j].type # "TypeIndex"}}

(* walk_wasm_gc_unit_edges *)
UnitEdges(units) ==
  LET edges == {RelocEdge(id) : id \in UNION {RelocSymbols(u) : u \in units}}
  IN [units |-> UNION {e.units : e \in edges}, symbols |-> UNION {e.symbols : e \in edges}]

(* note_wasm_import_unit_definition: all symbols of the import *)
ImportSymbols(u) ==
  {id \in SymbolIds : id[1] = u[2] /\ Sym(id).undefined /\ UnitFor(id) = {u}}

(* enqueue_wasm_force_export_roots *)
ForceExports == prog.required_exports \o prog.exports_if_defined
ForceExportRoots(o) ==
  {id \in {NameDefinition(n) : n \in {m \in ToSet(ForceExports) : IsKnown(m)}} : id[1] = o}

InitSymbols(o) == {<<o, Obj(o).init_funcs[k].symbol>> : k \in DOMAIN Obj(o).init_funcs}

(* enqueue_wasm_gc_roots *)
GcRoots(o) ==
  LET exports == {FunctionUnit(o, Obj(o).exports[k].index) :
                    k \in {j \in DOMAIN Obj(o).exports : Obj(o).exports[j].kind = "func"}}
                 \cup {GlobalUnit(o, Obj(o).exports[k].index) :
                    k \in {j \in DOMAIN Obj(o).exports : Obj(o).exports[j].kind = "global"}}
      kept == {id \in SymbolIds : id[1] = o /\ Sym(id).no_strip} \cup InitSymbols(o)
  IN [units |-> exports \cup UNION {UnitFor(id) : id \in kept},
      symbols |-> {id \in InitSymbols(o) : IsWeakFunction(Sym(id))} \cup ForceExportRoots(o)]

(* mark_all_wasm_units_live_and_scan_relocs *)
AllEdges(o) ==
  [UnitEdges(AllUnits(o)) EXCEPT !.symbols = @ \cup ForceExportRoots(o)]

(* Work goes to the units that are still dead and to symbols that nobody   *)
(* asked for yet.                                                          *)
Request(edges) ==
  /\ queue' = [units |-> (queue.units \cup edges.units) \ live',
               symbols |-> queue.symbols \cup DefinitionRequests(edges.symbols)]
  /\ requested' = requested \cup DefinitionRequests(edges.symbols)

(* resolve_alternative_symbol_definitions, then load_entry_point sends the *)
(* first request.                                                          *)
ResolveSymbols ==
  /\ phase = "symbols"
  /\ db' = SymbolDb
  /\ IF DuplicateSymbols
     THEN phase' = "failed" /\ failure' = "duplicate symbol" /\ UNCHANGED <<requested, queue>>
     ELSE /\ phase' = "gc" /\ UNCHANGED failure
          /\ requested' = {db'[n] : n \in {prog.entry} \cap {m \in DOMAIN db' : InObject(db'[m])}}
          /\ queue' = [queue EXCEPT !.symbols = requested']
  /\ UNCHANGED <<prog, activated, live, res, got, host, maps, module>>

(* activate_object_gc *)
ActivateObjectGc(o) ==
  /\ phase = "gc" /\ o \notin activated
  /\ activated' = activated \cup {o}
  /\ live' = IF prog.gc THEN live ELSE live \cup AllUnits(o)
  /\ Request(IF prog.gc THEN GcRoots(o) ELSE AllEdges(o))
  /\ UNCHANGED <<prog, db, phase, failure, res, got, host, maps, module>>

(* load_gc_unit *)
LoadGcUnit(u) ==
  /\ phase = "gc" /\ u[2] \in activated
  /\ live' = live \cup {u}
  /\ Request(IF u[1] \in {"FunctionImport", "GlobalImport"}
             THEN [units |-> {}, symbols |-> ImportSymbols(u)]
             ELSE UnitEdges({u}))
  /\ UNCHANGED <<prog, db, phase, activated, failure, res, got, host, maps, module>>

(* ObjectLayoutState::load_symbol *)
LoadSymbol(id) ==
  /\ phase = "gc" /\ id[1] \in activated
  /\ queue' = [units |-> queue.units \cup (UnitFor(id) \ live), symbols |-> queue.symbols \ {id}]
  /\ UNCHANGED <<prog, db, phase, activated, live, requested, failure, res, got, host, maps, module>>

-----------------------------------------------------------------------------
(* What is left of an object: WasmObjectLayoutInput::from_file *)
IsLive(kind, o, i) == <<kind, o, i>> \in live
LiveOf(kind, o, n) == SetToSortSeq({i \in 1..n : IsLive(kind, o, i)}, <)
LiveFunctions(o) == LiveOf("DefinedFunction", o, Len(Obj(o).functions))
LiveGlobals(o) == LiveOf("DefinedGlobal", o, Len(Obj(o).globals))
LiveSegments(o) == LiveOf("DataSegment", o, Len(Obj(o).segments))

(* pack_live_ordinals *)
LiveOrdinal(kind, o, i) ==
  IF IsLive(kind, o, i) THEN Cardinality({j \in 1..i - 1 : IsLive(kind, o, j)}) ELSE Dead

Concat(f(_), n) == FoldLeft(LAMBDA acc, x : acc \o f(x), <<>>, [k \in 1..n |-> k])
Mapped(seq, f(_)) == [k \in DOMAIN seq |-> f(seq[k])]
Distinct(seq) == FoldLeft(LAMBDA acc, x : IF Contains(acc, x) THEN acc ELSE Append(acc, x), <<>>, seq)
PositionOf(seq, x) == SelectInSeq(seq, LAMBDA y : y = x) - 1
N == Len(prog.objects)

LiveRelocs(o) ==
  FlattenSeq(Mapped(LiveFunctions(o), LAMBDA i : Obj(o).functions[i].relocs)
             \o Mapped(LiveSegments(o), LAMBDA i : Obj(o).segments[i].relocs))

-----------------------------------------------------------------------------
(* Resolution of imports *)
Unresolved == [how |-> "unresolved"]

LinkerDefined(name, kind) ==
  IF InObject(NameDefinition(name)) \/ ~MatchesImportKind(name, kind)
  THEN Unresolved ELSE [how |-> "linker", name |-> name]

(* resolve_one_import *)
ResolveOneImport(id, kind) ==
  LET d == Definition(id)
  IN CASE ~InObject(d) -> LinkerDefined(d[2], kind)
       [] InObject(d) /\ (Sym(d).undefined \/ Sym(d).kind # kind) -> Unresolved
       [] OTHER ->
            [how |-> "defined", object |-> d[1],
             ordinal |-> IF kind = "func"
                         THEN LiveOrdinal("DefinedFunction", d[1], Sym(d).index - FunctionImports(d[1]))
                         ELSE LiveOrdinal("DefinedGlobal", d[1], Sym(d).index - GlobalImports(d[1]))]

ImportIsLive(o, kind, i) == IsLive(IF kind = "func" THEN "FunctionImport" ELSE "GlobalImport", o, i)
SymbolsOfImport(o, kind, i) ==
  LET ss == {s \in DOMAIN Obj(o).symbols : /\ Obj(o).symbols[s].undefined
                                           /\ Obj(o).symbols[s].kind = kind
                                           /\ Obj(o).symbols[s].index = i}
  IN SetToSortSeq(ss, <)

(* resolve_import_symbols: the first symbol that resolves decides, then    *)
(* the name of the import.                                                 *)
ResolveImport(o, kind, i) ==
  LET found == SelectSeq(Mapped(SymbolsOfImport(o, kind, i),
                                LAMBDA s : ResolveOneImport(<<o, s>>, kind)),
                         LAMBDA r : r # Unresolved)
      name == Imports(o, kind)[i].name
  IN CASE ~ImportIsLive(o, kind, i) -> Unresolved
       [] ImportIsLive(o, kind, i) /\ found # <<>> -> found[1]
       [] OTHER -> IF IsKnown(name) THEN LinkerDefined(name, kind) ELSE Unresolved

(* GOT entries in the order of the first relocation that needs them:       *)
(* scan_object_layout_relocations and scan_layout_relocations              *)
GotIds(o, kind) ==
  Mapped(SelectSeq(LiveRelocs(o), LAMBDA r : r.type = "GlobalIndex" /\ Sym(<<o, r.index>>).kind = kind),
         LAMBDA r : <<o, r.index>>)
GotReferences(kind) == Concat(LAMBDA o : GotIds(o, kind), N)
GotMem == Distinct(Mapped(GotReferences("data"), Definition))

(* The first reference to each definition *)
GotFunc ==
  FoldLeft(LAMBDA acc, id : IF \E e \in ToSet(acc) : Definition(e) = Definition(id)
                            THEN acc ELSE Append(acc, id),
           <<>>, GotReferences("func"))

HasReloc(types) == \E o \in Objects : \E r \in ToSet(LiveRelocs(o)) : r.type \in types
NeedsTable ==
  \/ HasReloc({"TableIndex", "TableIndexRel", "TableNumber"})
  \/ got.func # <<>> \/ \E o \in Objects : Obj(o).table_imports # <<>>

GotMemIsDefined(d) == IF InObject(d) THEN Sym(d).kind = "data" ELSE d[2] \in DataSymbols

(* note_undefined_data_from_reloc *)
UndefinedData ==
  /\ ~prog.allow_undefined
  /\ \E o \in Objects : \E r \in ToSet(LiveRelocs(o)) :
       /\ r.type # "TypeIndex"
       /\ LET y == Sym(<<o, r.index>>)
          IN y.kind = "data" /\ y.undefined /\ ~y.weak /\ ~y.explicit /\ ~IsDefined(Definition(<<o, r.index>>))

IdName(id) == IF InObject(id) THEN Sym(id).name ELSE id[2]

(* absorb_got_imports *)
Absorbed(o, i) ==
  LET imp == Obj(o).global_imports[i]
      mem == Mapped(got.mem, IdName)
      func == Mapped(got.func, LAMBDA id : IdName(Definition(id)))
  IN CASE imp.module = "GOT.mem" /\ Contains(mem, imp.name) ->
            [how |-> "GOT.mem", slot |-> PositionOf(mem, imp.name)]
       [] imp.module = "GOT.func" /\ Contains(func, imp.name) ->
            [how |-> "GOT.func", slot |-> PositionOf(func, imp.name)]
       [] OTHER -> Unresolved

FunctionResolution(o, i) == res.func[o][i]
GlobalResolution(o, i) == IF res.global[o][i] = Unresolved THEN Absorbed(o, i) ELSE res.global[o][i]

(* Live imports that nothing resolves, in order: <<object, ordinal>> *)
OpenImports(o, kind) ==
  LET open == {i \in DOMAIN Imports(o, kind) :
                 /\ ImportIsLive(o, kind, i)
                 /\ IF kind = "func" THEN FunctionResolution(o, i) = Unresolved
                                     ELSE GlobalResolution(o, i) = Unresolved}
  IN Mapped(SetToSortSeq(open, <), LAMBDA i : <<o, i>>)
AllOpenImports(kind) == Concat(LAMBDA o : OpenImports(o, kind), N)
ImportOf(kind, at) == Imports(at[1], kind)[at[2]]
TypeOf(at) == Obj(at[1]).types[ImportOf("func", at).type]

(* pure_weak_function_import_flags *)
IsPureWeak(at) ==
  LET ss == ToSet(SymbolsOfImport(at[1], "func", at[2]))
  IN ss # {} /\ \A s \in ss : Obj(at[1]).symbols[s].weak

(* Mutant: a stub for every weak import, whatever other objects import. *)
WeakImportsAlone == SelectSeq(AllOpenImports("func"), IsPureWeak)

(* absorb_weak_undef_function_imports: the imports that become stubs; one  *)
(* strong reference keeps the import of that name for all.                 *)
WeakImports ==
  LET strong == {ImportOf("func", at).name :
                   at \in {a \in ToSet(AllOpenImports("func")) : ~IsPureWeak(a)}}
  IN SelectSeq(AllOpenImports("func"),
               LAMBDA at : IsPureWeak(at) /\ ImportOf("func", at).name \notin strong)
StubName(at) == ImportOf("func", at).name
Stubs == Distinct(Mapped(host.weak, StubName))
StubType(name) == TypeOf(host.weak[SelectInSeq(host.weak, LAMBDA at : StubName(at) = name)])
StubsConflict == \E at \in ToSet(host.weak) : TypeOf(at) # StubType(StubName(at))

(* report_disallowed_unresolved_imports *)
UndefinedImport ==
  /\ ~prog.allow_undefined
  /\ \E kind \in {"func", "global"} : \E at \in ToSet(host[kind]) :
       \E s \in ToSet(SymbolsOfImport(at[1], kind, at[2])) :
          ~Obj(at[1]).symbols[s].weak /\ ~Obj(at[1]).symbols[s].explicit

(* collect_shared_unresolved_imports: one import for each module and name *)
ImportKey(kind, at) == <<ImportOf(kind, at).module, ImportOf(kind, at).name>>
SharedFunctions == Distinct(Mapped(host.func, LAMBDA at : ImportKey("func", at)))
SharedGlobals == Distinct(Mapped(host.global, LAMBDA at : ImportKey("global", at)))
FirstImport(kind, key) ==
  host[kind][SelectInSeq(host[kind], LAMBDA at : ImportKey(kind, at) = key)]
ImportsConflict ==
  \/ \E at \in ToSet(host.func) : TypeOf(at) # TypeOf(FirstImport("func", ImportKey("func", at)))
  \/ \E at \in ToSet(host.global) :
       ImportOf("global", at).type # ImportOf("global", FirstImport("global", ImportKey("global", at))).type

-----------------------------------------------------------------------------
(* Entry and constructors *)
EntryId == NameDefinition(prog.entry)
EntryIsDefined ==
  prog.entry # None /\ IsKnown(prog.entry) /\ InObject(EntryId)
    /\ ~Sym(EntryId).undefined /\ Sym(EntryId).kind = "func"
HasInitFuncs == \E o \in Objects : Obj(o).init_funcs # <<>>

(* call_ctors_used_in_objects: by any import or export, live or not *)
CallCtorsUsed ==
  \E o \in Objects : \/ \E i \in DOMAIN Obj(o).function_imports : Obj(o).function_imports[i].name = CallCtors
                     \/ \E k \in DOMAIN Obj(o).exports : Obj(o).exports[k].name = CallCtors
WrapEntry == HasInitFuncs /\ ~CallCtorsUsed /\ EntryIsDefined

(* LinkerDefinedIndices::compute: which definitions the linker adds, and   *)
(* at which index.                                                         *)
RequestedExports == Distinct(SelectSeq(ForceExports, LAMBDA n : n \in LinkerSymbols))
Imported(name) ==
  \E o \in Objects :
    \/ \E i \in DOMAIN Obj(o).function_imports : FunctionResolution(o, i) = [how |-> "linker", name |-> name]
    \/ \E i \in DOMAIN Obj(o).global_imports : GlobalResolution(o, i) = [how |-> "linker", name |-> name]
MemoryBaseUsed == HasReloc({"MemoryAddrRel"}) \/ Imported("__memory_base")
FixedGlobals == <<"__memory_base", "__table_base", "__stack_pointer", "__tls_base">>
IsNeeded(name) ==
  CASE name = "__stack_pointer" -> TRUE
    [] name = "__memory_base" -> MemoryBaseUsed \/ Contains(RequestedExports, name)
    [] name = "__table_base" -> HasReloc({"TableIndexRel"}) \/ Imported(name) \/ Contains(RequestedExports, name)
    [] name = "__tls_base" -> Imported(name)
    [] name = CallCtors -> HasInitFuncs \/ Imported(name) \/ Contains(RequestedExports, name)
LinkerDefinedIndices == {n \in ToSet(FixedGlobals) \cup {CallCtors} : IsNeeded(n)}
Needs(name) == name \in host.linker

BoolToNat(b) == IF b THEN 1 ELSE 0
DataExports == SelectSeq(RequestedExports, LAMBDA n : n \in DataSymbols)
GlobalImportCount == Len(SharedGlobals)
FunctionImportCount == Len(SharedFunctions)
FixedBefore(k) == Cardinality({j \in 1..k - 1 : Needs(FixedGlobals[j])})
GlobalIndex(name) ==
  GlobalImportCount
    + IF name \in DataSymbols THEN FixedBefore(5) + PositionOf(DataExports, name)
      ELSE FixedBefore(PositionOf(FixedGlobals, name) + 1)
StackPointerSlot == BoolToNat(Needs("__memory_base")) + BoolToNat(Needs("__table_base"))

GotMemBase == GlobalImportCount + FixedBefore(5) + Len(DataExports)
GotFuncBase == GotMemBase + Len(got.mem)
LinkerGlobalCount == GotFuncBase + Len(got.func) - GlobalImportCount

CallCtorsIndex == FunctionImportCount
WrapperIndex == FunctionImportCount + BoolToNat(Needs(CallCtors))
StubIndex(name) == WrapperIndex + BoolToNat(WrapEntry) + PositionOf(Stubs, name)
LinkerFunctionCount == BoolToNat(Needs(CallCtors)) + BoolToNat(WrapEntry) + Len(Stubs)

(* allocate_wasm_object_index_bases *)
Total(f(_), o) == FoldLeft(LAMBDA acc, x : acc + f(x), 0, [k \in 1..o - 1 |-> k])
TypeBase(o) == Total(LAMBDA x : Len(Obj(x).types), o)
FunctionBase(o) == FunctionImportCount + LinkerFunctionCount + Total(LAMBDA x : Len(LiveFunctions(x)), o)
GlobalBase(o) == GlobalImportCount + LinkerGlobalCount + Total(LAMBDA x : Len(LiveGlobals(x)), o)

-----------------------------------------------------------------------------
(* build_object_index_map: functions and globals of an object by their     *)
(* local index, DEAD when they were removed                                *)
FunctionImportIndex(o, i) ==
  LET r == FunctionResolution(o, i)
  IN CASE ~ImportIsLive(o, "func", i) -> Dead
       [] Contains(host.weak, <<o, i>>) -> StubIndex(StubName(<<o, i>>))
       [] r = Unresolved /\ Contains(host.func, <<o, i>>) ->
            PositionOf(SharedFunctions, ImportKey("func", <<o, i>>))
       [] r.how = "linker" -> CallCtorsIndex
       [] r.how = "defined" -> IF r.ordinal = Dead THEN Dead ELSE FunctionBase(r.object) + r.ordinal

GlobalImportIndex(o, i) ==
  LET r == GlobalResolution(o, i)
  IN CASE ~ImportIsLive(o, "global", i) -> Dead
       [] r = Unresolved /\ ImportIsLive(o, "global", i) ->
            PositionOf(SharedGlobals, ImportKey("global", <<o, i>>))
       [] r.how = "linker" -> GlobalIndex(r.name)
       [] r.how = "GOT.mem" -> GotMemBase + r.slot
       [] r.how = "GOT.func" -> GotFuncBase + r.slot
       [] r.how = "defined" -> IF r.ordinal = Dead THEN Dead ELSE GlobalBase(r.object) + r.ordinal

DefinedOrImportedFunction(o, i) ==
  LET ordinal == LiveOrdinal("DefinedFunction", o, i - FunctionImports(o))
  IN CASE i <= FunctionImports(o) -> FunctionImportIndex(o, i)
       [] i > FunctionImports(o) /\ ordinal = Dead -> Dead
       [] OTHER -> FunctionBase(o) + ordinal
DefinedOrImportedGlobal(o, i) ==
  LET ordinal == LiveOrdinal("DefinedGlobal", o, i - GlobalImports(o))
  IN CASE i <= GlobalImports(o) -> GlobalImportIndex(o, i)
       [] i > GlobalImports(o) /\ ordinal = Dead -> Dead
       [] OTHER -> GlobalBase(o) + ordinal

FunctionIndices(o, i) == maps.func[o][i]
GlobalIndices(o, i) == maps.global[o][i]

(* fill_function_symbol_redirects and output_function_index: a weak        *)
(* function that lost stands for the one that won.                         *)
OutputFunctionIndex(id) ==
  LET d == Definition(id)
      redirect == IsWeakFunction(Sym(id)) /\ d # id /\ InObject(d) /\ IsDefined(d) /\ Sym(d).kind = "func"
      won == FunctionIndices(d[1], Sym(d).index)
  IN IF redirect /\ won # Dead THEN won ELSE FunctionIndices(id[1], Sym(id).index)

-----------------------------------------------------------------------------
(* Linear memory *)
AlignUp(x, a) == ((x + a - 1) \div a) * a
NeedsLinkerMemory(o) == Obj(o).memory_imports # <<>> \/ Obj(o).memories # <<>>
LayoutMemoryBase ==
  IF host.memory_base_used \/ \E o \in Objects : NeedsLinkerMemory(o) THEN MemoryBase ELSE 0
DataStart == IF prog.stack_first THEN prog.stack_size ELSE LayoutMemoryBase

(* layout_object_data for all objects: where each live segment goes *)
DataLayout ==
  LET place(acc, at) ==
        LET segment == Obj(at[1]).segments[at[2]]
            offset == AlignUp(acc.cursor, segment.align)
        IN [cursor |-> offset + segment.size,
            segments |-> Append(acc.segments, [object |-> at[1], index |-> at[2], offset |-> offset,
                                               size |-> segment.size])]
      all == Concat(LAMBDA o : Mapped(LiveSegments(o), LAMBDA i : <<o, i>>), N)
  IN FoldLeft(place, [cursor |-> DataStart, segments |-> <<>>], all)

(* stack_high_after_data, heap_base_after_data, stack_pointer_init *)
StackHighAfterData(data_end) == AlignUp(data_end, StackAlign) + prog.stack_size
StackPointerInit(data_end) ==
  IF prog.stack_first THEN prog.stack_size ELSE StackHighAfterData(data_end)
HeapBaseAddress(data_end) ==
  IF prog.stack_first THEN AlignUp(data_end, StackAlign) ELSE StackHighAfterData(data_end)

(* Mutant: the initial memory covers the data only. *)
BytesNeededForData(data_end) == Max({data_end, LayoutMemoryBase})

(* ensure_memory_covers: what the memory has to hold *)
BytesNeeded(data_end) ==
  Max({data_end, LayoutMemoryBase}
      \cup IF ~prog.stack_first /\ prog.stack_size > 0 THEN {StackHighAfterData(data_end)} ELSE {})
Pages(bytes) == Max({1, (bytes + PageSize - 1) \div PageSize})

(* The memories of the objects, or else one of the linker that is as large *)
(* as the largest import (linker_output_memory_type)                       *)
Unbounded == -1
DefinedMemories == Concat(LAMBDA o : Obj(o).memories, N)
InputPages == Max({2} \cup UNION {ToSet(Obj(o).memory_imports) : o \in Objects})
InputMemories ==
  IF DefinedMemories # <<>> THEN DefinedMemories ELSE <<[initial |-> InputPages, maximum |-> Unbounded]>>

(* ensure_memory_covers: every memory gets the pages that are needed, and  *)
(* __heap_end is the end of the largest.                                   *)
RaisedMemories(data_end) ==
  LET bytes == IF prog.initial_memory # 0 THEN prog.initial_memory ELSE BytesNeeded(data_end)
  IN Mapped(InputMemories,
            LAMBDA m : [m EXCEPT !.initial = Max({@} \cup IF bytes > 0 THEN {Pages(bytes)} ELSE {})])
InitialPages(data_end) == Max({m.initial : m \in ToSet(RaisedMemories(data_end))})
MemoryFails(data_end) ==
  \/ prog.stack_size % StackAlign # 0
  \/ /\ prog.initial_memory # 0
     /\ \/ prog.initial_memory % PageSize # 0
        \/ prog.initial_memory > (MaxPages - 1) * PageSize
        \/ BytesNeeded(data_end) > prog.initial_memory
  \/ /\ prog.max_memory # 0
     /\ \/ prog.max_memory % PageSize # 0
        \/ prog.max_memory > MaxPages * PageSize
        \/ InitialPages(data_end) * PageSize > prog.max_memory
MaximumPages(m) ==
  LET maximum == IF prog.max_memory # 0 THEN prog.max_memory \div PageSize ELSE m.maximum
  IN IF prog.shared_memory THEN Max({maximum, m.initial}) ELSE maximum
OutputMemories(data_end) ==
  Mapped(RaisedMemories(data_end), LAMBDA m : [m EXCEPT !.maximum = MaximumPages(m)])

(* WasmLinkerSymbol::data_address *)
LinkerAddress(name, data_end) ==
  CASE name = "__data_end" -> data_end
    [] name \in {"__global_base", "__dso_handle"} -> DataStart
    [] name = "__heap_base" -> HeapBaseAddress(data_end)
    [] name = "__wasm_first_page_end" -> PageSize
    [] name = "__heap_end" -> InitialPages(data_end) * PageSize
    [] OTHER -> 0

(* compute_data_addresses: a symbol that is defined here is at its own     *)
(* segment, another one where its definition is; 0 when that was removed.  *)
DataAddress(id, data) ==
  LET d == IF Sym(id).undefined THEN Definition(id) ELSE id
      at == IF InObject(d) /\ ~Sym(d).undefined
            THEN {g \in ToSet(data.segments) : g.object = d[1] /\ g.index = Sym(d).index} ELSE {}
  IN CASE ~InObject(d) -> LinkerAddress(d[2], data.cursor)
       [] InObject(d) /\ at = {} -> 0
       [] OTHER -> (CHOOSE g \in at : TRUE).offset + Sym(d).offset

-----------------------------------------------------------------------------
(* The indirect function table: finalize_indirect_function_table           *)
TableSymbols(o) ==
  Mapped(SelectSeq(LiveRelocs(o),
                   LAMBDA r : \/ r.type \in {"TableIndex", "TableIndexRel"}
                              \/ r.type = "GlobalIndex" /\ Sym(<<o, r.index>>).kind = "func"),
         LAMBDA r : <<o, r.index>>)
StubIndices == {StubIndex(n) : n \in ToSet(Stubs)}
ElementFunctions ==
  SelectSeq(Distinct(Mapped(Concat(TableSymbols, N), OutputFunctionIndex)),
            LAMBDA f : f \notin StubIndices)

(* A function's slot; slot 0 is the null of undefined weak functions. *)
TableSlot(elements, f) ==
  IF f \in StubIndices THEN 0 ELSE IF Contains(elements, f) THEN PositionOf(elements, f) + 1 ELSE Dead
TableSize(elements) ==
  Max({Len(elements) + 1} \cup UNION {ToSet(Obj(o).table_imports) : o \in Objects})

-----------------------------------------------------------------------------
AllInitFuncs ==
  Concat(LAMBDA o : Mapped(Obj(o).init_funcs, LAMBDA f : [priority |-> f.priority, id |-> <<o, f.symbol>>]), N)

(* Constructors: collect_sorted_init_function_calls, a stable sort         *)
InitFunctionCalls ==
  LET all == AllInitFuncs
      before(a, b) == all[a].priority < all[b].priority \/ (all[a].priority = all[b].priority /\ a < b)
  IN Mapped(SetToSortSeq(DOMAIN all, before), LAMBDA k : OutputFunctionIndex(all[k].id))

(* Exports *)
PushExport(exports, e) == IF \E x \in ToSet(exports) : x.name = e.name THEN exports ELSE Append(exports, e)

(* remapped_exports *)
ObjectExports ==
  Concat(LAMBDA o : Mapped(Obj(o).exports,
                           LAMBDA e : [name |-> e.name, kind |-> e.kind,
                                       index |-> IF e.kind = "func" THEN FunctionIndices(o, e.index)
                                                 ELSE IF e.kind = "global" THEN GlobalIndices(o, e.index) ELSE 0]),
         N)

(* ensure_memory_export *)
WithMemoryExport(exports) ==
  Append(SelectSeq(exports, LAMBDA e : e.kind # "memory"), [name |-> "memory", kind |-> "memory", index |-> 0])

(* resolve_entry_function and ensure_entry_export: an export of that name  *)
(* is turned to the wrapper.                                               *)
EntryFunction == FunctionIndices(EntryId[1], Sym(EntryId).index)
WithEntryExport(exports) ==
  LET entry == [name |-> prog.entry, kind |-> "func",
                index |-> IF WrapEntry THEN WrapperIndex ELSE EntryFunction]
      at == {k \in DOMAIN exports : exports[k].name = prog.entry}
  IN CASE prog.entry = None -> exports
       [] prog.entry # None /\ at = {} -> Append(exports, entry)
       [] OTHER -> IF WrapEntry THEN [exports EXCEPT ![Min(at)] = entry] ELSE exports

(* ensure_force_exports *)
LinkerExport(name) ==
  IF name = CallCtors THEN [name |-> name, kind |-> "func", index |-> CallCtorsIndex]
  ELSE [name |-> name, kind |-> "global", index |-> GlobalIndex(name)]
ForceExport(name) ==
  LET d == NameDefinition(name)
  IN IF Sym(d).kind = "func"
     THEN [name |-> name, kind |-> "func",
           index |-> IF WrapEntry /\ name = prog.entry THEN WrapperIndex
                     ELSE FunctionIndices(d[1], Sym(d).index)]
     ELSE [name |-> name, kind |-> Sym(d).kind, index |-> GlobalIndices(d[1], Sym(d).index)]
HasLinkerExport(name) == name \in DataSymbols \/ Needs(name)
HasForceExport(name) ==
  IsKnown(name) /\ InObject(NameDefinition(name)) /\ ~Sym(NameDefinition(name)).undefined
WithForceExports(exports) ==
  LET linker == Mapped(SelectSeq(RequestedExports, HasLinkerExport), LinkerExport)
      others == Mapped(SelectSeq(ForceExports, LAMBDA n : n \notin LinkerSymbols /\ HasForceExport(n)),
                       ForceExport)
  IN FoldLeft(PushExport, exports, linker \o others)
ForceExportsFail ==
  \/ \E n \in ToSet(prog.required_exports) :
       IF n \in LinkerSymbols THEN ~HasLinkerExport(n) ELSE ~HasForceExport(n)
  \/ \E n \in ToSet(ForceExports) \ LinkerSymbols : HasForceExport(n) /\ Sym(NameDefinition(n)).kind \notin {"func", "global"}

-----------------------------------------------------------------------------
(* Types: those of all objects, then what the linker's functions need      *)
VoidType == "void"
PushType(types, t) == IF Contains(types, t) THEN types ELSE Append(types, t)
InputTypes == Concat(LAMBDA o : Obj(o).types, N)
OutputTypes ==
  IF LinkerFunctionCount = 0 THEN InputTypes
  ELSE FoldLeft(PushType, PushType(InputTypes, VoidType), Mapped(Stubs, StubType))

(* deduplicate_output_types: the new index of a type *)
Deduplicated(old) == PositionOf(Distinct(OutputTypes), OutputTypes[old + 1])
TypeIndices(o, i) == Deduplicated(TypeBase(o) + i - 1)
EnsuredType(t) == Deduplicated(PositionOf(OutputTypes, t))

(* The function section: to_output_imports, emit_reserved_linker_definitions *)
OutputFunctions ==
  LET import(key) == LET at == FirstImport("func", key)
                     IN [is |-> "import", of |-> key,
                         type |-> TypeIndices(at[1], ImportOf("func", at).type)]
      body(o, i) == [is |-> "body", of |-> <<o, i>>, type |-> TypeIndices(o, Obj(o).functions[i].type)]
  IN Mapped(SharedFunctions, import)
     \o (IF Needs(CallCtors) THEN <<[is |-> "ctors", of |-> CallCtors, type |-> EnsuredType(VoidType)]>> ELSE <<>>)
     \o (IF WrapEntry THEN <<[is |-> "wrapper", of |-> prog.entry, type |-> EnsuredType(VoidType)]>> ELSE <<>>)
     \o Mapped(Stubs, LAMBDA n : [is |-> "stub", of |-> n, type |-> EnsuredType(StubType(n))])
     \o Concat(LAMBDA o : Mapped(LiveFunctions(o), LAMBDA i : body(o, i)), N)

(* The global section: emit_reserved_linker_definitions puts placeholders, *)
(* which fill_got_mem_inits, fill_exported_data_global_inits,              *)
(* fill_got_func_inits and fill_stack_pointer_init replace.                *)
GotMemInit(d, data) == IF InObject(d) THEN DataAddress(d, data) ELSE LinkerAddress(d[2], data.cursor)
LinkerGlobalInit(name, data) ==
  CASE name = "__memory_base" -> IF host.memory_base_used THEN MemoryBase ELSE 0
    [] name = "__table_base" -> 1
    [] name = "__stack_pointer" -> MemoryBase
    [] name = "__tls_base" -> 0
    [] OTHER -> LinkerAddress(name, data.cursor)
WithStackPointer(globals, data) ==
  [globals EXCEPT ![GlobalImportCount + StackPointerSlot + 1].value = StackPointerInit(data.cursor)]
OutputGlobals(data, elements) ==
  LET constant(is, of, value) == [is |-> is, of |-> of, value |-> value]
  IN Mapped(SharedGlobals, LAMBDA key : constant("import", key, 0))
     \o Mapped(SelectSeq(FixedGlobals, Needs) \o DataExports,
               LAMBDA n : constant("linker", n, LinkerGlobalInit(n, data)))
     \o Mapped(got.mem, LAMBDA d : constant("GOT.mem", d, GotMemInit(d, data)))
     \o Mapped(got.func, LAMBDA id : constant("GOT.func", Definition(id),
                                              TableSlot(elements, OutputFunctionIndex(id))))
     \o Concat(LAMBDA o : Mapped(LiveGlobals(o), LAMBDA i : constant("global", <<o, i>>, 0)), N)

(* resolve_reloc; Dead stands for the error it returns. *)
TableReference(slot, relative) ==
  IF slot \in {0, Dead} \/ ~relative THEN slot ELSE slot - 1
ResolveReloc(o, r, data, elements) ==
  LET id == <<o, r.index>>
  IN CASE r.type = "TypeIndex" -> TypeIndices(o, r.index)
       [] r.type = "TableNumber" -> 0
       [] r.type = "FunctionIndex" -> OutputFunctionIndex(id)
       [] r.type \in {"TableIndex", "TableIndexRel"} ->
            TableReference(TableSlot(elements, OutputFunctionIndex(id)), r.type = "TableIndexRel")
       [] r.type = "MemoryAddr" -> DataAddress(id, data)
       [] r.type = "MemoryAddrRel" -> DataAddress(id, data) - LayoutMemoryBase
       [] r.type = "GlobalIndex" ->
            CASE Sym(id).kind = "global" -> GlobalIndices(o, Sym(id).index)
              [] Sym(id).kind = "data" -> GotMemBase + PositionOf(got.mem, Definition(id))
              [] Sym(id).kind = "func" ->
                   GotFuncBase + PositionOf(Mapped(got.func, Definition), Definition(id))

(* apply_section_reloc, write_code_section and write_data_section: the     *)
(* values put into each live body and segment                              *)
ApplySectionRelocs(u, data, elements) ==
  [k \in DOMAIN RelocsOf(u) |-> ResolveReloc(u[2], RelocsOf(u)[k], data, elements)]
WriteCodeSection(data, elements) ==
  [u \in {x \in live : x[1] = "DefinedFunction"} |-> ApplySectionRelocs(u, data, elements)]
WriteDataSection(data, elements) ==
  [u \in {x \in live : x[1] = "DataSegment"} |-> ApplySectionRelocs(u, data, elements)]

(* encode_call_sequence_body of __wasm_call_ctors and of the entry wrapper *)
WrapperCalls == IF WrapEntry THEN <<CallCtorsIndex, EntryFunction>> ELSE <<>>

(* collect_target_feature_sets, validate_shared_memory_features and        *)
(* build_target_features_section                                           *)
UsedFeatures == UNION {Obj(o).used_features : o \in Objects}
DisallowedFeatures == UNION {Obj(o).disallowed_features : o \in Objects}
OutputFeatures == UsedFeatures \cup prog.extra_features
SharedMemoryRefused ==
  prog.shared_memory
    /\ ("shared-mem" \in DisallowedFeatures \/ ~({"atomics", "bulk-memory"} \subseteq OutputFeatures))
FeaturesConflict == UsedFeatures \cap DisallowedFeatures # {}

(* build_name_section, for functions: imports, the constructor call, the   *)
(* symbols of all objects and the exports; the first name wins.            *)
SetNameFirstWins(names, entry) ==
  IF entry[1] = Dead \/ names[entry[1] + 1] # None THEN names ELSE [names EXCEPT ![entry[1] + 1] = entry[2]]
FunctionNames(functions, exports) ==
  LET imports == [k \in DOMAIN SharedFunctions |-> <<k - 1, SharedFunctions[k][2]>>]
      ctors == IF Needs(CallCtors) THEN <<<<CallCtorsIndex, CallCtors>>>> ELSE <<>>
      symbols(o) == Mapped(SelectSeq([s \in DOMAIN Obj(o).symbols |-> <<o, s>>], LAMBDA id : Sym(id).kind = "func"),
                           LAMBDA id : <<FunctionIndices(o, Sym(id).index), Sym(id).name>>)
      exported == Mapped(SelectSeq(exports, LAMBDA e : e.kind = "func"), LAMBDA e : <<e.index, e.name>>)
  IN FoldLeft(SetNameFirstWins, [k \in DOMAIN functions |-> None],
              imports \o ctors \o Concat(symbols, N) \o exported)

-----------------------------------------------------------------------------
(* The steps after garbage collection *)
Fail(kind) == /\ phase' = "failed" /\ failure' = kind

(* resolve_cross_object_imports and scan_layout_relocations; an ordinal    *)
(* that was collected and a GOT entry without definition are errors.       *)
AllResolutions ==
  [func |-> [o \in Objects |-> [i \in DOMAIN Obj(o).function_imports |-> ResolveImport(o, "func", i)]],
   global |-> [o \in Objects |-> [i \in DOMAIN Obj(o).global_imports |-> ResolveImport(o, "global", i)]]]
ScanLayoutRelocations ==
  /\ phase = "gc" /\ activated = Objects /\ queue = [units |-> {}, symbols |-> {}]
  /\ res' = AllResolutions
  /\ got' = [mem |-> GotMem, func |-> GotFunc]
  /\ IF SharedMemoryRefused THEN Fail("features")
     ELSE IF UndefinedData \/ \E d \in ToSet(GotMem) : ~GotMemIsDefined(d)
     THEN Fail("undefined data") ELSE phase' = "absorb" /\ UNCHANGED failure
  /\ UNCHANGED <<prog, db, gc_state, host, maps, module>>

(* The rest of setup_got_mem_and_indices *)
AbsorbImports ==
  /\ phase = "absorb"
  /\ host' = [weak |-> WeakImports,
              func |-> SelectSeq(AllOpenImports("func"), LAMBDA at : ~Contains(WeakImports, at)),
              global |-> AllOpenImports("global"),
              linker |-> LinkerDefinedIndices, memory_base_used |-> MemoryBaseUsed]
  /\ phase' = "maps"
  /\ UNCHANGED <<prog, db, gc_state, failure, res, got, maps, module>>

(* allocate_wasm_object_index_bases and build_object_index_map *)
ResolvedToDead ==
  \/ \E o \in Objects : \E i \in DOMAIN Obj(o).function_imports :
       LET r == FunctionResolution(o, i) IN r.how = "defined" /\ r.ordinal = Dead
  \/ \E o \in Objects : \E i \in DOMAIN Obj(o).global_imports :
       LET r == GlobalResolution(o, i) IN r.how = "defined" /\ r.ordinal = Dead
BuildIndexMaps ==
  /\ phase = "maps"
  /\ LET error == IF StubsConflict THEN "type mismatch"
                  ELSE IF UndefinedImport THEN "undefined import"
                  ELSE IF ImportsConflict THEN "type mismatch"
                  ELSE IF ResolvedToDead THEN "collected" ELSE None
     IN IF error # None THEN Fail(error) ELSE phase' = "layout" /\ UNCHANGED failure
  /\ maps' = [func |-> [o \in Objects |-> [i \in 1..FunctionImports(o) + Len(Obj(o).functions) |->
                                             DefinedOrImportedFunction(o, i)]],
              global |-> [o \in Objects |-> [i \in 1..GlobalImports(o) + Len(Obj(o).globals) |->
                                               DefinedOrImportedGlobal(o, i)]]]
  /\ UNCHANGED <<prog, db, gc_state, res, got, host, module>>

(* The rest of build_output_module_layout, then the writer *)
OutputModule ==
  LET data == DataLayout
      elements == IF NeedsTable THEN ElementFunctions ELSE <<>>
      exports == WithForceExports(WithEntryExport(WithMemoryExport(ObjectExports)))
  IN [types |-> Distinct(OutputTypes), functions |-> OutputFunctions,
      globals |-> WithStackPointer(OutputGlobals(data, elements), data), elements |-> elements,
      table |-> IF NeedsTable THEN TableSize(elements) ELSE 0,
      memories |-> OutputMemories(data.cursor), data |-> data,
      code |-> WriteCodeSection(data, elements) @@ WriteDataSection(data, elements),
      ctors |-> InitFunctionCalls, wrapper |-> WrapperCalls,
      exports |-> exports, names |-> FunctionNames(OutputFunctions, exports), features |-> OutputFeatures]
MissingInLayout(m) ==
  \/ \E e \in ToSet(m.exports) : e.index = Dead
  \/ \E g \in ToSet(m.globals) : g.value = Dead
  \/ Contains(m.ctors, Dead) \/ Contains(m.wrapper, Dead)
MissingInCode(m) ==
  \E u \in DOMAIN m.code : \E k \in DOMAIN m.code[u] :
    m.code[u][k] = Dead /\ RelocsOf(u)[k].type # "MemoryAddrRel"

(* unsupported_output: what from_file met and the writer refuses           *)
UnsupportedOutput == \E o \in Objects : Obj(o).unsupported_output # {}
WriterFails(m) ==
  CASE MissingInLayout(m) -> "collected"
    [] ~MissingInLayout(m) /\ UnsupportedOutput -> "unsupported"
    [] ~MissingInLayout(m) /\ ~UnsupportedOutput /\ MissingInCode(m) -> "collected"
    [] OTHER -> None
BuildOutputModuleLayout ==
  /\ phase = "layout"
  /\ LET error == IF prog.entry # None /\ ~EntryIsDefined THEN "entry not defined"
                  ELSE IF MemoryFails(DataLayout.cursor) THEN "memory"
                  ELSE IF ForceExportsFail THEN "export"
                  ELSE IF FeaturesConflict THEN "features" ELSE None
     IN IF error # None THEN Fail(error) /\ UNCHANGED module
        ELSE /\ module' = OutputModule
             /\ IF WriterFails(module') # None THEN Fail(WriterFails(module'))
                ELSE phase' = "done" /\ UNCHANGED failure
  /\ UNCHANGED <<prog, db, gc_state, res, got, host, maps>>

-----------------------------------------------------------------------------
EmptyModule == [types |-> <<>>]

Init ==
  /\ prog \in Programs /\ db = <<>>
  /\ phase = "symbols" /\ failure = None
  /\ activated = {} /\ live = {} /\ requested = {}
  /\ queue = [units |-> {}, symbols |-> {}]
  /\ res = <<>> /\ got = <<>> /\ host = <<>> /\ maps = <<>> /\ module = EmptyModule

Finished == phase \in {"done", "failed"} /\ UNCHANGED vars

Next ==
  \/ ResolveSymbols
  \/ \E o \in Objects : ActivateObjectGc(o)
  \/ \E u \in queue.units : LoadGcUnit(u)
  \/ \E id \in queue.symbols : LoadSymbol(id)
  \/ ScanLayoutRelocations
  \/ AbsorbImports
  \/ BuildIndexMaps
  \/ BuildOutputModuleLayout
  \/ Finished

Spec == Init /\ [][Next]_vars

-----------------------------------------------------------------------------
(* Properties: the output module read as an engine reads it *)
FunctionAt(f) == module.functions[f + 1]
GlobalAt(g) == module.globals[g + 1]
NameOfImport(id) ==
  Imports(id[1], Sym(id).kind)[Sym(id).index].name

OnlyWeakReferences(name) ==
  \A at \in ToSet(host.weak) \cup ToSet(host.func) : ImportOf("func", at).name = name => IsPureWeak(at)

(* With --allow-multiple-definition, a strong function or data symbol that *)
(* lost keeps its own definition in its object: only weak functions are    *)
(* redirected.                                                             *)
KeepsItsOwn(id) ==
  /\ InObject(id) /\ IsDefined(id) /\ Definition(id) # id
  /\ prog.allow_multiple_definition /\ ~Sym(id).weak
Meant(id) == IF InObject(id) /\ ~KeepsItsOwn(id) THEN Definition(id) ELSE id

DenotesFunction(id, f) ==
  LET d == Meant(id)
  IN /\ f \in 0..Len(module.functions) - 1
     /\ CASE ~InObject(d) -> FunctionAt(f).is = "ctors"
          [] InObject(d) /\ IsDefined(d) ->
               /\ FunctionAt(f).is = "body"
               /\ FunctionAt(f).of = <<d[1], Sym(d).index - FunctionImports(d[1])>>
          [] OTHER -> \/ FunctionAt(f).is = "import" /\ FunctionAt(f).of[2] = NameOfImport(id)
                      \/ /\ FunctionAt(f).is = "stub" /\ FunctionAt(f).of = NameOfImport(id)
                         /\ OnlyWeakReferences(NameOfImport(id))

IsNull(id) == ~IsDefined(Definition(id)) /\ OnlyWeakReferences(NameOfImport(id))
DenotesSlot(id, slot) ==
  \/ slot = 0 /\ IsNull(id)
  \/ slot \in 1..Len(module.elements) /\ slot < module.table /\ DenotesFunction(id, module.elements[slot])

DenotesAddress(id, address) ==
  LET d == Meant(id)
  IN CASE ~InObject(d) -> address = LinkerAddress(d[2], module.data.cursor)
       [] InObject(d) /\ IsDefined(d) ->
            \E g \in ToSet(module.data.segments) :
              g.object = d[1] /\ g.index = Sym(d).index /\ address = g.offset + Sym(d).offset
       [] OTHER -> address = 0

DenotesGlobal(id, g) ==
  LET d == Definition(id)
  IN /\ g \in 0..Len(module.globals) - 1
     /\ CASE Sym(id).kind = "data" -> GlobalAt(g).is = "GOT.mem" /\ DenotesAddress(d, GlobalAt(g).value)
          [] Sym(id).kind = "func" -> GlobalAt(g).is = "GOT.func" /\ DenotesSlot(id, GlobalAt(g).value)
          [] OTHER ->
               LET e == GlobalAt(g)
               IN CASE ~InObject(d) -> e.is = "linker" /\ e.of = d[2]
                    [] InObject(d) /\ IsDefined(d) /\ Sym(d).kind = "global" ->
                         e.is = "global" /\ e.of = <<d[1], Sym(d).index - GlobalImports(d[1])>>
                    [] OTHER -> \/ e.is = "import" /\ e.of[2] = NameOfImport(id)
                                \/ e.is = "GOT.mem" /\ DenotesAddress(d, e.value)
                                \/ e.is = "GOT.func" /\ DenotesSlot(d, e.value)

(* Whatever the order in which objects mark each other's functions and     *)
(* data live, each index and address that apply_relocation writes into     *)
(* kept code or data leads, in the module as emitted, to the definition    *)
(* that symbol resolution chose: the right function, table slot, segment,  *)
(* GOT global or type.  Relative slots count from __table_base; a null     *)
(* function is 0 in both forms.                                            *)
RelocationsAreRight ==
  phase = "done" =>
    \A u \in DOMAIN module.code : \A k \in DOMAIN RelocsOf(u) :
      LET r == RelocsOf(u)[k]
          id == <<u[2], r.index>>
          value == module.code[u][k]
      IN CASE r.type = "TypeIndex" -> module.types[value + 1] = Obj(u[2]).types[r.index]
           [] r.type = "TableNumber" -> module.table > 0
           [] r.type = "FunctionIndex" -> DenotesFunction(id, value)
           [] r.type = "TableIndex" -> DenotesSlot(id, value)
           [] r.type = "TableIndexRel" -> (value = 0 /\ IsNull(id)) \/ DenotesSlot(id, value + 1)
           [] r.type = "MemoryAddr" -> DenotesAddress(id, value)
           [] r.type = "MemoryAddrRel" -> DenotesAddress(id, value + LayoutMemoryBase)
           [] r.type = "GlobalIndex" -> DenotesGlobal(id, value)

(* Every function of the output has the signature that its object, its     *)
(* import or the linker gave it, although types were renumbered in         *)
(* between, and the name section does not give it a stranger's name.       *)
SourceType(e) ==
  CASE e.is = "import" -> TypeOf(FirstImport("func", e.of))
    [] e.is = "stub" -> StubType(e.of)
    [] e.is = "body" -> Obj(e.of[1]).types[Obj(e.of[1]).functions[e.of[2]].type]
    [] OTHER -> VoidType
MayBeCalled(e, name) ==
  CASE e.is = "body" -> \/ \E id \in SymbolIds : /\ UnitFor(id) = {<<"DefinedFunction", e.of[1], e.of[2]>>}
                                                /\ Sym(id).name = name
                        \/ \E x \in Named(name) : Definition(x) \in SymbolIds
                             /\ UnitFor(Definition(x)) = {<<"DefinedFunction", e.of[1], e.of[2]>>}
    [] e.is = "import" -> e.of[2] = name
    [] OTHER -> e.of = name
TypesAndNamesAreKept ==
  phase = "done" =>
    \A k \in DOMAIN module.functions :
      LET e == module.functions[k]
      IN /\ module.types[e.type + 1] = SourceType(e)
         /\ module.names[k] # None => MayBeCalled(e, module.names[k])

(* Constructors of all objects are called, in the order of their           *)
(* priorities, and before the entry function when no object calls          *)
(* __wasm_call_ctors itself; an export leads to what its object or the     *)
(* command line asked for.                                                 *)
Constructors ==
  UNION {{[priority |-> f.priority, id |-> <<o, f.symbol>>] : f \in ToSet(Obj(o).init_funcs)} : o \in Objects}
PrioritiesOf(f) == {c.priority : c \in {x \in Constructors : DenotesFunction(x.id, f)}}
ConstructorsRunFirst ==
  phase = "done" =>
    /\ \A c \in Constructors : \E f \in ToSet(module.ctors) : DenotesFunction(c.id, f)
    /\ \A a, b \in DOMAIN module.ctors :
         a < b => \E x \in PrioritiesOf(module.ctors[a]), y \in PrioritiesOf(module.ctors[b]) : x <= y
    /\ HasInitFuncs /\ prog.entry # None /\ ~CallCtorsUsed =>
         \A e \in ToSet(module.exports) : e.name = prog.entry =>
           /\ FunctionAt(e.index).is = "wrapper"
           /\ Len(module.wrapper) = 2 /\ FunctionAt(module.wrapper[1]).is = "ctors"
           /\ DenotesFunction(EntryId, module.wrapper[2])
    /\ \A e \in ToSet(module.exports) : e.kind = "func" /\ e.name # prog.entry /\ IsKnown(e.name) =>
         FunctionAt(e.index).is = "ctors" \/ DenotesFunction(FirstId(Named(e.name)), e.index)

(* Segments keep their alignment and lie apart from each other and from    *)
(* the stack; stack, data and the start of the heap are inside the memory  *)
(* that the code uses, which is memory 0.  It ends at __heap_end unless    *)
(* objects define several memories, is as large as every import asks       *)
(* unless an object defines one, and has no maximum below its size unless  *)
(* an object set that maximum.                                             *)
SeveralMemories == Len(DefinedMemories) > 1
ObjectSetsMaximum == prog.max_memory = 0 /\ \E m \in ToSet(DefinedMemories) : m.maximum # Unbounded
MemoryIsApart ==
  phase = "done" =>
    LET end == module.data.cursor
        sp == GlobalAt(GlobalIndex("__stack_pointer")).value
        memory == module.memories[1]
        bytes == memory.initial * PageSize
        segments == ToSet(module.data.segments)
    IN /\ \A g \in segments : /\ g.offset % Obj(g.object).segments[g.index].align = 0
                              /\ g.offset + g.size <= bytes
                              /\ g.offset + g.size <= sp - prog.stack_size \/ sp <= g.offset
                              /\ g.offset + g.size <= HeapBaseAddress(end)
       /\ \A g, h \in segments : g # h => g.offset + g.size <= h.offset \/ h.offset + h.size <= g.offset
       /\ prog.stack_size <= sp /\ sp <= bytes /\ sp <= Max({HeapBaseAddress(end), prog.stack_size})
       /\ sp % StackAlign = 0 /\ HeapBaseAddress(end) <= bytes
       /\ SeveralMemories \/ LinkerAddress("__heap_end", end) = bytes
       /\ DefinedMemories = <<>> => \A o \in Objects : \A n \in ToSet(Obj(o).memory_imports) : n <= memory.initial
       /\ memory.maximum # Unbounded => memory.initial <= memory.maximum \/ ObjectSetsMaximum

(* Nothing that the output needs was removed: no relocation, export,       *)
(* constructor or import meets the index of a collected definition, which  *)
(* the code reports as an internal error.                                  *)
NothingNeededIsCollected == failure # "collected"

(* The module does what its objects say: indices, types, names,            *)
(* constructors and exports, and nothing they need is gone.                *)
ModuleIsRight ==
  RelocationsAreRight /\ TypesAndNamesAreKept /\ ConstructorsRunFirst /\ NothingNeededIsCollected
=============================================================================
