----------------------------- MODULE Resolution -----------------------------
(***************************************************************************)
(* Name resolution and the selection of archive members                    *)
(* (libjdxld/src/resolution.rs), and the choice between several            *)
(* definitions of a name (libjdxld/src/symbol_db.rs).                      *)
(*                                                                         *)
(* Tasks of a rayon scope walk over chunks of the symbol tables of the     *)
(* loaded files.  A strong reference to a name requests the file that      *)
(* defines it first; the task that takes that file's cell loads it and     *)
(* spawns tasks for its chunks.  References without a definition, and weak *)
(* ones, are put in a queue.  When the scope has ended, each name with     *)
(* more than one definition is given the strongest loaded one, and then    *)
(* the queue is worked off: references that stayed undefined are pointed   *)
(* at one canonical reference of the same name.                            *)
(*                                                                         *)
(* Abstractions.  A name is a base name with a version or without one.     *)
(* The null symbol of a table is left out.  The entry symbol, --undefined and the symbols that occur  *)
(* in redirects are references of the prelude or of a linker script        *)
(* (Scripts).  Local symbols, --wrap, -Bsymbolic, export lists, version    *)
(* scripts and the second resolution after link-time optimisation are left *)
(* out.                                                                    *)
(***************************************************************************)
EXTENDS Integers, Sequences, FiniteSets, Functions

CONSTANTS Files,       \* all input files
          Optional,    \* archive members and --as-needed shared objects
          Dynamic,     \* shared objects
          Scripts,     \* the prelude and the linker scripts
          Prelude,     \* the file of the linker's own symbols
          BaseNames, Versions, NoVersion,
          StartStop,   \* __start_/__stop_ names of existing custom sections
          Programs,    \* possible symbol tables of the files, see SymbolInfo
          MaxSymbolsPerWorkItem,
          OutputKind,  \* "shared", "executable" or "static"
          AllowMultipleDefinitions,
          NoFile

(* SymbolId::undefined *)
Undefined == 0

(* RawSymbolName: a base name with its version, or without one. *)
Versioned == BaseNames \X Versions
Names == BaseNames \X (Versions \cup {NoVersion})

(* enum Visibility, ordered *)
Default == 0
Protected == 1
Hidden == 2

Bindings == {"Strong", "Weak", "GnuUnique", "Common"}

(* What the tables of an input file say of one of its symbols.  A          *)
(* definition with a default version has two names, the versioned and the  *)
(* plain one; a reference has one, which may be unreadable.  A program is  *)
(* the sequence of all symbols in input order; the index is the symbol ID. *)
SymbolInfo == [file: Files, names: SUBSET Names, def: BOOLEAN, binding: Bindings,
               size: Nat, vis: Default..Hidden, comdat: BOOLEAN, readable: BOOLEAN]

ASSUME ResolutionAssumption ==
  /\ Optional \subseteq Files /\ Dynamic \subseteq Files /\ Scripts \subseteq Files
  /\ Prelude \in Scripts
  /\ Scripts \cap (Optional \cup Dynamic) = {}
  /\ Files # Scripts                    \* "no input files" otherwise
  /\ NoFile \notin Files
  /\ NoVersion \notin Versions /\ StartStop \subseteq Names \ Versioned
  /\ Programs \subseteq Seq(SymbolInfo)
  /\ \A p \in Programs :
       /\ \A s \in DOMAIN p : ~p[s].def => \E n \in Names : p[s].names = {n}
       /\ \A s \in DOMAIN p : p[s].file \in Scripts => p[s].readable
       /\ \A s, t \in DOMAIN p : \A u \in s..t : p[s].file = p[t].file => p[u].file = p[s].file
  /\ MaxSymbolsPerWorkItem \in Nat \ {0}
  /\ OutputKind \in {"shared", "executable", "static"}
  /\ AllowMultipleDefinitions \in BOOLEAN

VARIABLES
  sym,          \* the symbols of the input files, chosen once
  phase,        \* where the link is, see Phases
  untaken,      \* files whose AtomicTake still holds their definitions
  loads,        \* how often each file was pushed to Outputs.loaded
  tasks,        \* spawned tasks, see Task
  definitions,  \* symbol_definitions
  flags,        \* per_symbol_flags, the flags that resolution sets
  undefined,    \* Outputs.undefined_symbols
  errors,       \* number of errors in Outputs.errors, which holds one
  duplicates,   \* names reported as defined more than once
  selecting,    \* names whose alternatives are still to be resolved
  stores,       \* per name, what its task has selected and still has to store
  canonical     \* name_to_id and versioned_name_to_id of the undefined names

vars == <<sym, phase, untaken, loads, tasks, definitions, flags, undefined, errors,
          duplicates, selecting, stores, canonical>>

Symbols == DOMAIN sym

FileOf(s) == sym[s].file
OwnName(s) == CHOOSE n \in sym[s].names : TRUE
IsWeak(s) == sym[s].binding = "Weak"
SymbolsOf(f) == {s \in Symbols : FileOf(s) = f}

(* Hidden symbols of shared objects are ignored, also as definitions. *)
Ignored(s) == FileOf(s) \in Dynamic /\ sym[s].vis = Hidden

(* The first of a set of symbols, in input order. *)
First(S) == CHOOSE s \in S : \A t \in S : s <= t

(* The symbols that define n, and name_to_id: the first of them.  The      *)
(* others are its alternatives.                                            *)
DefinitionsOf(n) == {s \in Symbols : sym[s].def /\ n \in sym[s].names /\ ~Ignored(s)}
FirstOf(n) == IF DefinitionsOf(n) = {} THEN Undefined ELSE First(DefinitionsOf(n))

-----------------------------------------------------------------------------
(* SymbolPrioritySelector: the first strong, the largest common and the    *)
(* first weak candidate seen so far.                                       *)
NoCandidate == [first_strong |-> Undefined, max_common |-> Undefined, first_weak |-> Undefined]

(* Mutant: a later common symbol of the same size replaces the first one. *)
ConsiderLastCommon(sel, id, strength) ==
  [first_strong |-> IF strength = "Strong" /\ sel.first_strong = Undefined THEN id
                    ELSE sel.first_strong,
   max_common |-> IF /\ strength = "Common"
                     /\ sel.max_common = Undefined \/ sym[id].size >= sym[sel.max_common].size
                  THEN id ELSE sel.max_common,
   first_weak |-> IF strength \in {"Weak", "GnuUnique"} /\ sel.first_weak = Undefined THEN id
                  ELSE sel.first_weak]

(* SymbolPrioritySelector::consider *)
Consider(sel, id, strength) ==
  [first_strong |-> IF strength = "Strong" /\ sel.first_strong = Undefined THEN id
                    ELSE sel.first_strong,
   max_common |-> IF /\ strength = "Common"
                     /\ sel.max_common = Undefined \/ sym[id].size > sym[sel.max_common].size
                  THEN id ELSE sel.max_common,
   first_weak |-> IF strength \in {"Weak", "GnuUnique"} /\ sel.first_weak = Undefined THEN id
                  ELSE sel.first_weak]

(* SymbolPrioritySelector::best *)
Best(sel) == IF sel.first_strong # Undefined THEN sel.first_strong
             ELSE IF sel.max_common # Undefined THEN sel.max_common ELSE sel.first_weak

(* The selector after the candidates were considered in input order. *)
Considered(candidates, strength) ==
  LET upto[i \in 0..Len(sym)] ==
        IF i = 0 THEN NoCandidate
        ELSE IF i \in candidates THEN Consider(upto[i - 1], i, strength[i]) ELSE upto[i - 1]
  IN upto[Len(sym)]

(* get_non_dynamic: the best alternative that is not in a shared object,   *)
(* whether or not its file gets loaded.  Alternatives of versioned names   *)
(* are kept in another table, in which it does not look.                   *)
GetNonDynamic(n) ==
  LET candidates == {s \in DefinitionsOf(n) \ {FirstOf(n)} : FileOf(s) \notin Dynamic}
  IN IF n \in Versioned THEN Undefined
     ELSE Best(Considered(candidates, [s \in candidates |-> sym[s].binding]))

(* SymbolDb::get *)
Get(n, allow_dynamic) ==
  LET first == FirstOf(n) IN
  IF first # Undefined /\ ~allow_dynamic /\ FileOf(first) \in Dynamic
  THEN GetNonDynamic(n) ELSE first

-----------------------------------------------------------------------------
Phases == {"setup", "resolve", "select", "sort", "canonicalise", "done",
           "failed", "duplicates"}

(* A task resolves the symbols pos..last of file.  While it is between the *)
(* read and the take of a file's cell, that file is ask.                   *)
Task == [file: Files, pos: 1..(Len(sym) + 1), last: Symbols, ask: Files \cup {NoFile}]

FlagSet == {"DYNAMIC", "NON_INTERPOSABLE", "DOWNGRADE_TO_LOCAL"}

(* compute_value_flags of the three kinds of file *)
InitialFlags(s) ==
  IF FileOf(s) \in Dynamic THEN {"DYNAMIC"}
  ELSE IF \/ FileOf(s) \in Scripts /\ sym[s].def
          \/ sym[s].vis # Default \/ OutputKind = "static"
          \/ sym[s].def /\ OutputKind = "executable"
       THEN {"NON_INTERPOSABLE"} ELSE {}

(* SymbolDb::add_inputs: a definition leads to itself. *)
InitialDefinition(s) ==
  IF (sym[s].def /\ ~Ignored(s)) \/ FileOf(s) \in Scripts THEN s ELSE Undefined

Init ==
  /\ sym \in Programs
  /\ phase = "setup"
  /\ untaken = {}
  /\ loads = [f \in Files |-> 0]
  /\ tasks = {}
  /\ definitions = [s \in Symbols |-> InitialDefinition(s)]
  /\ flags = [s \in Symbols |-> InitialFlags(s)]
  /\ undefined = <<>>
  /\ errors = 0
  /\ duplicates = {}
  /\ selecting = {}
  /\ stores = [n \in Names |-> {}]
  /\ canonical = [n \in Names |-> Undefined]

Loaded == {f \in Files : loads[f] > 0}

-----------------------------------------------------------------------------
FirstSymbolOf(f) == First(SymbolsOf(f))
LastSymbolOf(f) == CHOOSE s \in SymbolsOf(f) : \A t \in SymbolsOf(f) : t <= s

(* Only the symbols of objects are split into chunks. *)
ChunkSize(f) == IF f \in Scripts THEN Len(sym) ELSE MaxSymbolsPerWorkItem

(* The symbols of f that a chunk starts with. *)
ChunkStarts(f) ==
  {s \in SymbolsOf(f) : \E k \in 0..Len(sym) : s = FirstSymbolOf(f) + k * ChunkSize(f)}

(* The work item for the chunk of f that starts with symbol s. *)
WorkItemFrom(f, s) ==
  [file |-> f, pos |-> s, ask |-> NoFile,
   last |-> IF s + ChunkSize(f) <= LastSymbolOf(f) THEN s + ChunkSize(f) - 1
            ELSE LastSymbolOf(f)]

(* Mutant: the loop ends after the first chunk. *)
FirstWorkItem(f) ==
  {WorkItemFrom(f, s) : s \in {t \in SymbolsOf(f) : t = FirstSymbolOf(f)}}

(* work_items_do: the work items of file f. *)
WorkItems(f) == {WorkItemFrom(f, s) : s \in ChunkStarts(f)}

(* The first symbol of the chunk that s is in. *)
ChunkStart(s) ==
  CHOOSE t \in ChunkStarts(FileOf(s)) : t <= s /\ s <= WorkItemFrom(FileOf(s), t).last

(* VerneedTable::version_name: the version that a symbol of a shared       *)
(* object asks for.  A definition asks for none.                           *)
VersionName(s) == IF sym[s].def THEN NoVersion ELSE OwnName(s)[2]

(* raw_symbol_name, as resolve_symbols calls it: the name that a reference *)
(* is looked up under.  The symbols of a chunk are counted from its start, *)
(* and the version is taken from the symbol which has that number in the   *)
(* file.  Only shared objects have a table of versions.                    *)
NameOf(s) ==
  IF FileOf(s) \in Dynamic
  THEN <<OwnName(s)[1], VersionName(FirstSymbolOf(FileOf(s)) + (s - ChunkStart(s)))>>
  ELSE OwnName(s)

(* Resolution setup: files that are not optional are loaded, the cells of  *)
(* the others are filled.                                                  *)
SetUp ==
  /\ phase = "setup"
  /\ phase' = "resolve"
  /\ untaken' = Optional
  /\ loads' = [f \in Files |-> IF f \in Optional THEN 0 ELSE 1]
  /\ tasks' = UNION {WorkItems(f) : f \in Files \ Optional}
  /\ UNCHANGED <<sym, definitions, flags, undefined, errors, duplicates,
                   selecting, stores, canonical>>

(* Task t is done with its current symbol and asks for file f next. *)
Advance(t, f) ==
  (tasks \ {t}) \cup
    (IF f = NoFile /\ t.pos >= t.last THEN {}
     ELSE {[t EXCEPT !.pos = @ + 1, !.ask = f]})

(* The tasks that are ready for their next symbol. *)
Ready == {t \in tasks : t.ask = NoFile}

(* The symbol needs no resolution: it is defined, or hidden in a shared    *)
(* object.                                                                 *)
Skips(t) == /\ FileOf(t.pos) \notin Scripts
            /\ definitions[t.pos] # Undefined \/ Ignored(t.pos)

SkipSymbol ==
  \E t \in Ready :
    /\ Skips(t)
    /\ tasks' = Advance(t, NoFile)
    /\ UNCHANGED <<sym, phase, untaken, loads, definitions, flags, undefined, errors,
                   duplicates, selecting, stores, canonical>>

(* handle_result: Outputs.errors holds one error, others are dropped. *)
HandleResult == errors' = IF errors = 0 THEN 1 ELSE errors

(* A symbol cannot be read: the task reports the error and ends. *)
FailSymbol ==
  \E t \in Ready :
    /\ ~Skips(t) /\ ~sym[t.pos].readable
    /\ tasks' = tasks \ {t}
    /\ HandleResult
    /\ UNCHANGED <<sym, phase, untaken, loads, definitions, flags, undefined, duplicates,
                   selecting, stores, canonical>>

(* load_prelude, load_symbol_named and load_symbols_in_redirect: the file  *)
(* that defines the name is requested, nothing is recorded otherwise.      *)
LookUpName ==
  \E t \in Ready :
    LET s == t.pos
        id == IF sym[s].def THEN Undefined ELSE FirstOf(NameOf(s))
    IN /\ FileOf(s) \in Scripts
       /\ tasks' = Advance(t, IF id # Undefined /\ FileOf(id) \in untaken
                              THEN FileOf(id) ELSE NoFile)
       /\ definitions' = IF id # Undefined THEN [definitions EXCEPT ![s] = id] ELSE definitions
       /\ UNCHANGED <<sym, phase, untaken, loads, flags, undefined, errors, duplicates,
                   selecting, stores, canonical>>

(* apply_visibility_to_definition, and the same code in resolve_symbol *)
ApplyVisibility(old, vis) ==
  IF vis = Hidden THEN old \cup {"NON_INTERPOSABLE", "DOWNGRADE_TO_LOCAL"}
  ELSE IF vis = Protected /\ "DYNAMIC" \notin old THEN old \cup {"NON_INTERPOSABLE"}
  ELSE old

(* Whether the reference s to definition id requests the file of id:       *)
(* weak references do not, and a shared object does not pull in another.   *)
Requests(s, id) ==
  /\ FileOf(id) # FileOf(s) /\ ~IsWeak(s)
  /\ ~(FileOf(s) \in Dynamic /\ FileOf(id) \in Dynamic)

(* resolve_symbol, when the name has a definition.  A weak reference is    *)
(* queued, as the file of the definition may never be loaded; the prelude  *)
(* always is.                                                              *)
ResolveFound ==
  \E t \in Ready :
    LET s == t.pos
        id == Get(NameOf(s), sym[s].vis = Default)
    IN /\ ~Skips(t) /\ sym[s].readable /\ FileOf(s) \notin Scripts
       /\ id # Undefined
       /\ definitions' = [definitions EXCEPT ![s] = id]
       /\ flags' = [flags EXCEPT ![id] = ApplyVisibility(@, sym[s].vis)]
       /\ tasks' = Advance(t, IF Requests(s, id) /\ FileOf(id) \in untaken
                              THEN FileOf(id) ELSE NoFile)
       /\ undefined' = IF (FileOf(id) = FileOf(s) \/ IsWeak(s)) /\ FileOf(id) # Prelude
                       THEN Append(undefined, [symbol |-> s, ignore_if_loaded |-> FileOf(id)])
                       ELSE undefined
       /\ UNCHANGED <<sym, phase, untaken, loads, errors, duplicates, selecting, stores, canonical>>

(* resolve_symbol, when nothing defines the name. *)
ResolveMissing ==
  \E t \in Ready :
    LET s == t.pos IN
    /\ ~Skips(t) /\ sym[s].readable /\ FileOf(s) \notin Scripts
    /\ Get(NameOf(s), sym[s].vis = Default) = Undefined
    /\ undefined' = Append(undefined, [symbol |-> s, ignore_if_loaded |-> NoFile])
    /\ tasks' = Advance(t, NoFile)
    /\ UNCHANGED <<sym, phase, untaken, loads, definitions, flags, errors, duplicates,
                   selecting, stores, canonical>>

(* Mutant: the cell is not looked at again. *)
TakeUnchecked ==
  \E t \in tasks :
    LET left == IF t.pos > t.last THEN tasks \ {t}
                ELSE (tasks \ {t}) \cup {[t EXCEPT !.ask = NoFile]}
    IN /\ t.ask # NoFile
       /\ untaken' = untaken \ {t.ask}
       /\ loads' = [loads EXCEPT ![t.ask] = @ + 1]
       /\ tasks' = left \cup WorkItems(t.ask)
       /\ UNCHANGED <<sym, phase, definitions, flags, undefined, errors, duplicates,
                   selecting, stores, canonical>>

(* Mutant: a task that finds the cell empty asks again. *)
TakeOrAskAgain ==
  \E t \in tasks :
    LET left == IF t.pos > t.last THEN tasks \ {t}
                ELSE (tasks \ {t}) \cup {[t EXCEPT !.ask = NoFile]}
    IN /\ t.ask # NoFile
       /\ IF t.ask \in untaken
          THEN /\ untaken' = untaken \ {t.ask}
               /\ loads' = [loads EXCEPT ![t.ask] = @ + 1]
               /\ tasks' = left \cup WorkItems(t.ask)
          ELSE UNCHANGED <<tasks, untaken, loads>>
       /\ UNCHANGED <<sym, phase, definitions, flags, undefined, errors, duplicates,
                   selecting, stores, canonical>>

(* try_request_file_id, after is_taken returned false: the task takes the  *)
(* cell and loads the file, unless another task was faster.                *)
TakeFile ==
  \E t \in tasks :
    LET left == IF t.pos > t.last THEN tasks \ {t}
                ELSE (tasks \ {t}) \cup {[t EXCEPT !.ask = NoFile]}
    IN /\ t.ask # NoFile
       /\ IF t.ask \in untaken
          THEN /\ untaken' = untaken \ {t.ask}
               /\ loads' = [loads EXCEPT ![t.ask] = @ + 1]
               /\ tasks' = left \cup WorkItems(t.ask)
          ELSE /\ tasks' = left
               /\ UNCHANGED <<untaken, loads>>
       /\ UNCHANGED <<sym, phase, definitions, flags, undefined, errors, duplicates,
                   selecting, stores, canonical>>

(* The scope has no task left. *)
ScopeEnded == tasks = {}

(* The loaded files are gathered, or the error is returned. *)
Gather ==
  /\ phase = "resolve" /\ ScopeEnded
  /\ phase' = IF errors > 0 THEN "failed" ELSE "select"
  /\ selecting' = {n \in Names : Cardinality(DefinitionsOf(n)) > 1}
  /\ UNCHANGED <<sym, untaken, loads, tasks, definitions, flags, undefined, errors,
                 duplicates, stores, canonical>>

-----------------------------------------------------------------------------
(* SymbolDb::symbol_strength: the scripts' definitions, like those in      *)
(* files that were not loaded, count as undefined.                         *)
Strength(s) == IF FileOf(s) \in Loaded \ Scripts THEN sym[s].binding ELSE "Undefined"

(* Two strong definitions clash unless both are in COMDAT groups. *)
Clash(existing, id) ==
  /\ existing # Undefined /\ Strength(id) = "Strong" /\ ~AllowMultipleDefinitions
  /\ ~(sym[existing].comdat /\ sym[id].comdat)

(* The first pass of select_symbol, over the definitions that are not in   *)
(* shared objects.                                                         *)
Scan(n) ==
  LET candidates == {s \in DefinitionsOf(n) : "DYNAMIC" \notin flags[s]}
  IN Considered(candidates, [s \in candidates |-> Strength(s)])

HasDuplicate(n) ==
  LET first == Scan(n).first_strong
  IN \E id \in DefinitionsOf(n) \ {first} : "DYNAMIC" \notin flags[id] /\ Clash(first, id)

(* select_symbol: the best regular definition, else the first one in a     *)
(* loaded shared object, else the first one.                               *)
SelectSymbol(n) ==
  LET best == Best(Scan(n))
      defined == {s \in DefinitionsOf(n) : Strength(s) # "Undefined"}
  IN IF best # Undefined THEN best
     ELSE IF defined # {} THEN First(defined)
     ELSE FirstOf(n)

(* handle_non_default_visibility *)
MergeVisibility(old, vis) == IF "DYNAMIC" \in old THEN old ELSE ApplyVisibility(old, vis)

(* The most restrictive visibility of the definitions of n. *)
LeastVisible(n) ==
  CHOOSE v \in {sym[s].vis : s \in DefinitionsOf(n)} : \A s \in DefinitionsOf(n) : sym[s].vis <= v

(* process_alternatives for name n, up to the stores: a duplicate is       *)
(* reported, or a definition is selected for all of them and the most      *)
(* restrictive visibility of any of them is merged into each.              *)
SelectName ==
  \E n \in selecting :
    /\ phase = "select"
    /\ selecting' = selecting \ {n}
    /\ IF HasDuplicate(n)
       THEN duplicates' = duplicates \cup {n} /\ UNCHANGED <<stores, flags>>
       ELSE /\ stores' = [stores EXCEPT ![n] = DefinitionsOf(n) \X {SelectSymbol(n)}]
            /\ flags' = [s \in DOMAIN flags |->
                 IF s \in DefinitionsOf(n) THEN MergeVisibility(flags[s], LeastVisible(n))
                 ELSE flags[s]]
            /\ UNCHANGED duplicates
    /\ UNCHANGED <<sym, phase, untaken, loads, tasks, definitions, undefined, errors, canonical>>

(* update_definition, one atomic store; those of a name come in the order  *)
(* of its definitions.  Names that share a definition are in different     *)
(* buckets, whose tasks run side by side.                                  *)
UpdateDefinition ==
  \E n \in Names : \E store \in stores[n] :
    /\ phase = "select"
    /\ \A other \in stores[n] : store[1] <= other[1]
    /\ definitions' = [definitions EXCEPT ![store[1]] = store[2]]
    /\ stores' = [stores EXCEPT ![n] = @ \ {store}]
    /\ UNCHANGED <<sym, phase, untaken, loads, tasks, flags, undefined, errors, duplicates,
                   selecting, canonical>>

(* All buckets are done. *)
EndSelect ==
  /\ phase = "select" /\ selecting = {} /\ \A n \in Names : stores[n] = {}
  /\ phase' = IF duplicates # {} THEN "duplicates" ELSE "sort"
  /\ UNCHANGED <<sym, untaken, loads, tasks, definitions, flags, undefined, errors,
                 duplicates, selecting, stores, canonical>>

-----------------------------------------------------------------------------
(* SymbolDb::definition: two steps, as the definition that a name led to   *)
(* may have been replaced by an alternative since.                         *)
DefinitionIn(defs, s) == IF defs[s] = Undefined THEN Undefined ELSE defs[defs[s]]
Definition(s) == DefinitionIn(definitions, s)

(* A reference that stays undefined and has default visibility can still   *)
(* be bound by the dynamic loader, depending on what is being linked.      *)
UndefinedFlag(s) ==
  IF sym[s].vis = Default
     /\ (OutputKind = "shared" \/ (OutputKind = "executable" /\ IsWeak(s)))
  THEN "DYNAMIC" ELSE "NON_INTERPOSABLE"

(* Visibility vis of a reference to n, applied to the definition n has. *)
WithVisibility(fl, defs, first, vis) ==
  IF vis = Default \/ first = Undefined THEN fl
  ELSE [fl EXCEPT ![DefinitionIn(defs, first)] = ApplyVisibility(@, vis)]

(* Mutant: the references are taken in the order they were noticed. *)
AsNoticed(queue) == queue

(* References are canonicalised from the last symbol ID to the first,      *)
(* whatever the order in which the tasks noticed them.                     *)
LastFirst(queue) ==
  [i \in 1..Len(queue) |->
     CHOOSE u \in Range(queue) :
       Cardinality({v \in Range(queue) : v.symbol > u.symbol}) = i - 1]

(* canonicalise_undefined_symbols, run by a single thread: first the sort, *)
(* then one action for each kind of round of the loop.                     *)
SortUndefined ==
  /\ phase = "sort"
  /\ phase' = "canonicalise"
  /\ undefined' = LastFirst(undefined)
  /\ UNCHANGED <<sym, untaken, loads, tasks, definitions, flags, errors, duplicates, selecting,
                 stores, canonical>>

(* The next reference, and what is common to the rounds of the loop. *)
Reference == Head(undefined)
Round ==
  /\ phase = "canonicalise" /\ undefined # <<>>
  /\ undefined' = Tail(undefined)
  /\ UNCHANGED <<sym, phase, untaken, loads, tasks, errors, duplicates, selecting, stores>>

(* The file that defines the symbol was loaded in the end: the weak        *)
(* reference is defined after all.                                         *)
AlreadyDefined ==
  /\ Round
  /\ Reference.ignore_if_loaded \in Loaded
  /\ UNCHANGED <<definitions, flags, canonical>>

(* The first reference to a versioned name is remembered; the others are   *)
(* pointed at it.                                                          *)
VersionedReference ==
  LET s == Reference.symbol
      n == NameOf(s)
  IN /\ Round
     /\ Reference.ignore_if_loaded \notin Loaded /\ n \in Versioned
     /\ IF canonical[n] = Undefined
        THEN canonical' = [canonical EXCEPT ![n] = s] /\ UNCHANGED definitions
        ELSE definitions' = [definitions EXCEPT ![s] = canonical[n]] /\ UNCHANGED canonical
     /\ UNCHANGED flags

(* The name gets a start/stop symbol, with the next symbol ID. *)
StartStopReference ==
  LET s == Reference.symbol
      n == NameOf(s)
      id == Len(definitions) + 1
  IN /\ Round
     /\ Reference.ignore_if_loaded \notin Loaded
     /\ n \in StartStop /\ canonical[n] = Undefined
     /\ definitions' = Append([definitions EXCEPT ![s] = id], id)
     /\ flags' = Append(flags, {"NON_INTERPOSABLE"})
     /\ canonical' = [canonical EXCEPT ![n] = id]

(* The reference becomes the canonical one of its name. *)
FirstReference ==
  LET s == Reference.symbol
      n == NameOf(s)
  IN /\ Round
     /\ Reference.ignore_if_loaded \notin Loaded
     /\ n \notin Versioned \cup StartStop /\ canonical[n] = Undefined
     /\ flags' = WithVisibility([flags EXCEPT ![s] = @ \cup {UndefinedFlag(s)}],
                                definitions, FirstOf(n), sym[s].vis)
     /\ definitions' = [definitions EXCEPT ![s] = s]
     /\ canonical' = [canonical EXCEPT ![n] = s]

(* The reference is pointed at the canonical one. *)
LaterReference ==
  LET s == Reference.symbol
      n == NameOf(s)
      first == IF FirstOf(n) = Undefined /\ n \in StartStop THEN canonical[n] ELSE FirstOf(n)
  IN /\ Round
     /\ Reference.ignore_if_loaded \notin Loaded
     /\ n \notin Versioned /\ canonical[n] # Undefined
     /\ definitions' = [definitions EXCEPT ![s] = Definition(canonical[n])]
     /\ flags' = WithVisibility(flags, definitions', first, sym[s].vis)
     /\ UNCHANGED canonical

EndCanonicalise ==
  /\ phase = "canonicalise" /\ undefined = <<>>
  /\ phase' = "done"
  /\ UNCHANGED <<sym, untaken, loads, tasks, definitions, flags, undefined, errors, duplicates,
                 selecting, stores, canonical>>

Finished == phase \in {"done", "failed", "duplicates"} /\ UNCHANGED vars

Step == \/ SetUp \/ SkipSymbol \/ FailSymbol \/ LookUpName \/ ResolveFound \/ ResolveMissing
        \/ TakeFile \/ Gather \/ SelectName \/ UpdateDefinition \/ EndSelect
        \/ SortUndefined \/ AlreadyDefined \/ VersionedReference \/ StartStopReference
        \/ FirstReference \/ LaterReference \/ EndCanonicalise

Next == Step \/ Finished

Spec == Init /\ [][Next]_vars

(* rayon runs every spawned task to its end. *)
FairSpec == Spec /\ WF_vars(Step)
-----------------------------------------------------------------------------
TypeOK ==
  /\ sym \in Programs
  /\ phase \in Phases
  /\ untaken \subseteq Optional
  /\ loads \in [Files -> Nat]
  /\ tasks \subseteq Task
  /\ DOMAIN definitions = DOMAIN flags /\ Symbols \subseteq DOMAIN definitions
  /\ \A s \in DOMAIN definitions : definitions[s] \in {Undefined} \cup DOMAIN definitions
  /\ \A s \in DOMAIN flags : flags[s] \subseteq FlagSet
  /\ undefined \in Seq([symbol: Symbols, ignore_if_loaded: Files \cup {NoFile}])
  /\ errors \in 0..1
  /\ duplicates \subseteq Names /\ selecting \subseteq Names
  /\ stores \in [Names -> SUBSET (Symbols \X Symbols)]
  /\ canonical \in [Names -> {Undefined} \cup DOMAIN definitions]

(* The state is well formed, and a file is loaded once however many tasks  *)
(* ask for it, so that the queue of loaded files, made for one entry per   *)
(* object, never overflows, and no two tasks write the same definitions.   *)
LoadedOnce ==
  /\ TypeOK
  /\ \A f \in Files : loads[f] <= 1
  /\ \A t, u \in tasks : t # u /\ t.file = u.file => t.last < u.pos \/ u.last < t.pos

(* In every chunk of a shared object but its first one the version of a    *)
(* reference is read from another symbol: the reference is misread.        *)
Misread(s) == /\ FileOf(s) \in Dynamic
              /\ s >= FirstSymbolOf(FileOf(s)) + MaxSymbolsPerWorkItem

(* The name that the reference s should be looked up under: its own one,   *)
(* unless it is misread.                                                   *)
NeededName(s) == IF Misread(s) THEN NameOf(s) ELSE OwnName(s)

(* The files that the reference s requests. *)
RequestedBy(s) ==
  LET id == IF FileOf(s) \in Scripts THEN FirstOf(NeededName(s))
            ELSE Get(NeededName(s), sym[s].vis = Default)
  IN IF /\ ~sym[s].def /\ ~Ignored(s) /\ id # Undefined
        /\ FileOf(s) \in Scripts \/ Requests(s, id)
     THEN {FileOf(id)} ELSE {}

Pulls == [f \in Files |-> UNION {RequestedBy(s) : s \in SymbolsOf(f)}]

Outcome == CASE phase \in {"setup", "resolve"} -> "none"
             [] phase = "failed" -> "err"
             [] OTHER -> "ok"

Marking == INSTANCE ReferenceMarking
             WITH Nodes <- Files, RootNodes <- Files \ Optional, needs <- Pulls,
                  kept <- Loaded, outcome <- Outcome

(* An unreadable symbol in a loaded file fails the link, also when the one *)
(* place in the error queue is taken.                                      *)
ErrorsAreReported ==
  phase \in {"select", "sort", "canonicalise", "done"} =>
    \A s \in Symbols : ~sym[s].readable /\ FileOf(s) \in Loaded \ Scripts => sym[s].def \/ Ignored(s)

(* The regular loaded definitions of n with the given binding. *)
Regular(n, bindings) ==
  {d \in DefinitionsOf(n) : FileOf(d) \in Loaded \ (Scripts \cup Dynamic)
                             /\ sym[d].binding \in bindings}
Largest(S) == {s \in S : \A t \in S : sym[t].size <= sym[s].size}

(* The definition of n that should be used, by the documented priorities:  *)
(* the first strong one in a loaded object, else the largest common one,   *)
(* else the first weak one, else the first in a loaded shared object.      *)
Strongest(n) ==
  LET shared == {d \in DefinitionsOf(n) : FileOf(d) \in Loaded \cap Dynamic}
  IN CASE Regular(n, {"Strong"}) # {} -> First(Regular(n, {"Strong"}))
       [] Regular(n, {"Strong"}) = {} /\ Regular(n, {"Common"}) # {} ->
            First(Largest(Regular(n, {"Common"})))
       [] Regular(n, {"Strong", "Common"}) = {} /\ Regular(n, Bindings) # {} ->
            First(Regular(n, Bindings))
       [] Regular(n, Bindings) = {} /\ shared # {} -> First(shared)
       [] OTHER -> FirstOf(n)

(* Names whose definitions have no other name. *)
Plain == {n \in Names : \A d \in DefinitionsOf(n) : sym[d].names = {n}}

(* Two strong definitions of a name in loaded objects fail the link unless *)
(* all its strong definitions are in COMDAT groups, and nothing else does. *)
DuplicatesFail ==
  LET clash == \E n \in Names : LET strong == Regular(n, {"Strong"}) IN
                 /\ Cardinality(strong) > 1 /\ ~AllowMultipleDefinitions
                 /\ \E d \in strong : ~sym[d].comdat
  IN /\ phase = "duplicates" => clash
     /\ phase \in {"sort", "canonicalise", "done"} => ~clash

(* Once alternatives are resolved, every definition of a name leads to the *)
(* strongest loaded one, in whatever order the buckets were processed, and *)
(* the link fails exactly when two of them are strong.                     *)
SelectedIsStrongest ==
  /\ DuplicatesFail
  /\ phase \in {"sort", "canonicalise", "done"} =>
       \A n \in Plain : \A d \in DefinitionsOf(n) : definitions[d] = Strongest(n)

(* The references of loaded objects to unversioned names. *)
References == {s \in Symbols : /\ ~sym[s].def /\ ~Ignored(s) /\ NameOf(s) \notin Versioned
                               /\ FileOf(s) \in Loaded \ Scripts}

(* A reference stays undefined when its name led to nothing, or it is weak *)
(* and its name led to a file that was not loaded.                         *)
StaysUndefined(s) ==
  LET id == Get(NameOf(s), sym[s].vis = Default)
  IN id = Undefined \/ (~Requests(s, id) /\ FileOf(id) \notin Loaded
                        /\ (IsWeak(s) \/ FileOf(id) = FileOf(s)))

(* When resolution is over, a defined reference leads to the strongest     *)
(* definition, and the undefined references of a name all lead to the last *)
(* of them, or to the start/stop symbol made for the name: the result does *)
(* not depend on the order in which the tasks ran.                         *)
ReferencesSettled ==
  phase = "done" =>
    \A s \in References :
      LET n == NameOf(s)
          same == {r \in References : NameOf(r) = n /\ StaysUndefined(r)}
      IN CASE ~StaysUndefined(s) -> n \in Plain => Definition(s) = Strongest(n)
           [] StaysUndefined(s) /\ n \in StartStop -> 
                Definition(s) > Len(sym) /\ \A r \in same : Definition(r) = Definition(s)
           [] OTHER -> Definition(s) \in same /\ \A r \in same : r <= Definition(s)

(* Archive members are loaded exactly when a chain of strong references    *)
(* from the files on the command line leads to them, in any order of the   *)
(* tasks, and an error in any task fails the link.  A reference leads to   *)
(* the definition of its own name and version, except for the misread ones *)
(* in the later chunks of shared objects.                                  *)
LoadsWhatIsNeeded == Marking!Spec /\ []ErrorsAreReported

(* Resolution ends: no task waits for a file that another one takes.       *)
ResolutionEnds == <>(phase \in {"done", "failed", "duplicates"})

-----------------------------------------------------------------------------
(* A statement of the code's comments that some inputs refute. *)

(* A weak reference to a name that a loaded object defines is not left     *)
(* undefined.                                                              *)
WeakReferenceIsDefined ==
  phase = "done" =>
    \A s \in References :
      Regular(NameOf(s), Bindings) # {} => Definition(s) \in Regular(NameOf(s), Bindings)
=============================================================================
