------------------------------- MODULE LtoLink -------------------------------
(***************************************************************************)
(* Link-time optimisation (linker_plugins.rs, and what it uses of          *)
(* symbol_db.rs and resolution.rs).  Files of compiler IR take part in a   *)
(* first resolution; the plugin is told what became of their symbols and   *)
(* answers with objects, which are loaded like inputs and resolved in a    *)
(* second round, in which the IR no longer counts.                         *)
(*                                                                         *)
(* A definition is <<file, name>>, files being numbered in the order they  *)
(* are registered.  How the tasks of one resolution interleave is the      *)
(* subject of module Resolution: here a resolution is its outcome.         *)
(* Versions, visibility, COMDAT groups, sizes of common symbols, --wrap    *)
(* and the names in export lists that are files are left out.              *)
(***************************************************************************)
EXTENDS FileLoader

CONSTANTS CommandLines,  \* <<platform, arguments>>
          Symbols,       \* <<path, entry>> -> [defs: name -> strength, refs: name -> strength]
          LtoOutput,     \* the path of the object the plugin makes
          LibCalls,      \* names the plugin's code may refer to on its own
          PluginLibrary  \* a library the plugin may ask for

VARIABLES round,         \* 1 or 2
          groups,        \* file -> Record
          name_to_id,    \* name -> the first file registered that defines it
          alternatives,  \* name -> the other files that define it
          resolved,      \* the files that are loaded
          definition,    \* symbol_definitions: <<file, name>> -> file, 0 undefined
          non_ir_ref,    \* symbols with HAS_NON_IR_REF
          told,          \* <<file, name>> -> resolution reported to the plugin
          generated,     \* the symbols of LtoOutput
          selected_once, \* names an alternative of the first round was selected for
          left_out       \* alternatives of the first round whose file was not loaded then

lto_vars == <<round, groups, name_to_id, alternatives, resolved, definition, non_ir_ref,
              told, generated, selected_once, left_out>>
----------------------------------------------------------------------------
SymbolsOf(f) ==
  LET r == groups[f]
  IN IF Stored(r.path) = LtoOutput THEN generated ELSE Symbols[<<Stored(r.path), r.entry>>]
Defs(f)   == DOMAIN SymbolsOf(f).defs
Refs(f)   == DOMAIN SymbolsOf(f).refs
IsIr(f)   == groups[f].kind = "ir"
Names     == UNION {Defs(f) \union Refs(f) : f \in DOMAIN groups}

(* Entries are written over those of before. *)
Over(new, old) ==
  [d \in DOMAIN new \union DOMAIN old |-> IF d \in DOMAIN new THEN new[d] ELSE old[d]]

(* definition(id) looks twice. *)
Definition(f, n) == IF definition[<<f, n>>] = 0 THEN 0
                    ELSE definition[<<definition[<<f, n>>], n>>]

(* add_inputs: the files of IR are registered after all others. *)
LtoLast(l) == l.objects \o l.lto_objects
Registered(new) ==
  [f \in 1 .. Len(groups) + Len(new) |-> IF f <= Len(groups) THEN groups[f] ELSE new[f - Len(groups)]]
AddInputs ==
  /\ stage = "loaded"
  /\ IF \E n \in DOMAIN loaded.lto_objects : loaded.lto_objects[n].kind = "error"
     THEN stage' = "failed" /\ UNCHANGED groups
     ELSE stage' = "added" /\ groups' = Registered(LtoLast(loaded))
  /\ UNCHANGED <<parse_vars, requests, tasks, files, todo, loaded, loader, round, name_to_id,
                 alternatives, resolved, definition, non_ir_ref, told, generated, selected_once, left_out>>

(* populate_symbol_db: the first definition of a name gets it. *)
NewFiles == {f \in DOMAIN groups : <<f, "">> \notin DOMAIN definition}
Definers(n, fs) == SelectSeq([f \in DOMAIN groups |-> f], LAMBDA f : f \in fs /\ n \in Defs(f))
PopulateSymbolDb ==
  /\ stage = "added"
  /\ LET definers(n) == {f \in NewFiles : n \in Defs(f)}
         first(n) == IF n \in DOMAIN name_to_id THEN name_to_id[n]
                     ELSE CHOOSE f \in definers(n) : \A g \in definers(n) : f <= g
         known == DOMAIN name_to_id \union {n \in Names : definers(n) # {}}
     IN /\ name_to_id' = [n \in known |-> first(n)]
        /\ alternatives' = [n \in known |-> Definers(n, NewFiles \ {first(n)})]
        /\ definition' = Over([d \in ((NewFiles \X {""}) \union
                                 UNION {{<<f, n>> : n \in Defs(f) \union Refs(f)} : f \in NewFiles})
                                |-> IF d[2] # "" /\ d[2] \in Defs(d[1]) THEN d[1] ELSE 0],
                              definition)
  /\ stage' = "resolve"
  /\ UNCHANGED <<parse_vars, requests, tasks, files, todo, loaded, loader, round, groups,
                 resolved, non_ir_ref, told, generated, selected_once, left_out>>
----------------------------------------------------------------------------
(* resolve_symbol: the files a file makes the link load. *)
Undefined(f) == Refs(f) \ Defs(f)
Requested(f) ==
  {name_to_id[n] : n \in {m \in Undefined(f) \intersect DOMAIN name_to_id :
       /\ SymbolsOf(f).refs[m] = "strong"
       /\ ~(groups[f].kind = "dynamic" /\ groups[name_to_id[m]].kind = "dynamic")}}

(* Mutant: the flag is set for references from IR. *)
RefersFromIr(f) == IsIr(f)
RefersFromNonIr(f) == ~IsIr(f)

(* resolve_symbols_and_select_archive_entries: new files that are not       *)
(* optional, and everything they need.                                      *)
ResolveSymbols ==
  /\ stage = "resolve"
  /\ LET start == {f \in DOMAIN groups : f \notin resolved /\ ~is_optional(groups[f])}
         reach[k \in 0..Len(groups)] ==
           IF k = 0 THEN start
           ELSE reach[k - 1] \union (UNION {Requested(f) : f \in reach[k - 1]} \ resolved)
         now   == reach[Len(groups)]
         found == {d \in now \X DOMAIN name_to_id : d[2] \in Undefined(d[1])}
     IN IF groups = <<>> THEN stage' = "failed" /\ UNCHANGED <<resolved, definition, non_ir_ref>>
        ELSE /\ stage' = "select"
             /\ resolved' = resolved \union now
             /\ definition' = Over([d \in found |-> name_to_id[d[2]]], definition)
             /\ non_ir_ref' = non_ir_ref \union
                  {<<name_to_id[d[2]], d[2]>> : d \in {e \in found : RefersFromNonIr(e[1])}}
  /\ UNCHANGED <<parse_vars, requests, tasks, files, todo, loaded, loader, round, groups,
                 name_to_id, alternatives, told, generated, selected_once, left_out>>
----------------------------------------------------------------------------
symbol_strength(f, n, on) ==
  IF f \notin resolved \/ (IsIr(f) /\ ~on) THEN "undefined" ELSE SymbolsOf(f).defs[n]
StrongOf(fs, n, on) ==
  SelectSeq(fs, LAMBDA f : groups[f].kind # "dynamic" /\ symbol_strength(f, n, on) = "strong")
WeakOf(fs, n, on) ==
  SelectSeq(fs, LAMBDA f : groups[f].kind # "dynamic" /\ symbol_strength(f, n, on) = "weak")
DefinedOf(fs, n, on) == SelectSeq(fs, LAMBDA f : symbol_strength(f, n, on) # "undefined")

(* select_symbol: the first strong one, else the first weak one, of files   *)
(* that are not shared objects; else the first of the shared objects.       *)
select_symbol(fs, n, on) ==
  CASE StrongOf(fs, n, on) # <<>> -> Head(StrongOf(fs, n, on))
    [] WeakOf(fs, n, on) # <<>> -> Head(WeakOf(fs, n, on))
    [] DefinedOf(fs, n, on) # <<>> -> Head(DefinedOf(fs, n, on))
    [] OTHER -> Head(fs)

(* Mutant: the IR files still count in the second round. *)
KeepLtoInputs == TRUE
LtoInputsCount == round = 1

(* ELF and WebAssembly have the option. *)
allow_multiple_definitions ==
  \E f \in {"allow_multiple_definitions", "allow_multiple_definition"} \intersect DOMAIN parser.args :
     parser.args[f]

(* resolve_alternative_symbol_definitions: the lists are drained. *)
SelectAlternatives ==
  /\ stage = "select"
  /\ LET on == LtoInputsCount
         among(n) == <<name_to_id[n]>> \o alternatives[n]
         several  == {n \in DOMAIN alternatives : alternatives[n] # <<>>}
         winner(n) == select_symbol(among(n), n, on)
     IN IF ~allow_multiple_definitions /\ \E n \in several : Len(StrongOf(among(n), n, on)) > 1
        THEN stage' = "failed" /\ UNCHANGED <<definition, alternatives, selected_once, left_out>>
        ELSE /\ stage' = IF round = 1 THEN "plugin" ELSE "done"
             /\ definition' = Over([d \in UNION {Range(among(n)) \X {n} : n \in several}
                                     |-> winner(d[2])], definition)
             /\ alternatives' = [n \in DOMAIN alternatives |-> <<>>]
             /\ selected_once' = IF round = 1
                                 THEN {n \in several : winner(n) # name_to_id[n]}
                                 ELSE selected_once
             /\ left_out' = IF round = 1
                            THEN UNION {(Range(among(n)) \ resolved) \X {n} : n \in several}
                            ELSE left_out
  /\ UNCHANGED <<parse_vars, requests, tasks, files, todo, loaded, loader, round, groups,
                 name_to_id, resolved, non_ir_ref, told, generated>>
----------------------------------------------------------------------------
(* mark_lto_symbols_for_dynamic_export: in a shared object every definition *)
(* of IR is exported unless its library is excluded; in other dynamic       *)
(* outputs all of them, or those of the export list, when asked for.        *)
ExportsDynamic(f, n) ==
  LET a == parser.args
      excluded == "ALL" \in a.exclude_libs \/ groups[f].path[2] \in a.exclude_libs \X {".a"}
      needs_dynsym == \/ OutputKind \in {"shared", "dynamic"}
                      \/ OutputKind = "static" /\ a.relocation_model = "pic"
  IN \/ OutputKind = "shared" /\ ~(has_archive_semantics(groups[f]) /\ excluded)
     \/ needs_dynsym /\ (a.export_all_dynamic_symbols \/ n \in Range(a.export_list))

(* get_symbol_resolution: what the plugin is told of a symbol of its file.  *)
get_symbol_resolution(f, n) ==
  LET d == IF n \in DOMAIN name_to_id THEN Definition(name_to_id[n], n) ELSE 0
  IN CASE d = 0 -> "undef"
       [] d # 0 /\ n \notin Defs(f) ->
            CASE IsIr(d) -> "resolved_ir"
              [] ~IsIr(d) /\ groups[d].kind = "dynamic" -> "resolved_dyn"
              [] OTHER -> "resolved_exec"
       [] d # 0 /\ n \in Defs(f) /\ d = f ->
            CASE <<d, n>> \in non_ir_ref -> "prevailing_def"
              [] <<d, n>> \notin non_ir_ref /\ ExportsDynamic(d, n) -> "prevailing_def_ironly_exp"
              [] OTHER -> "prevailing_def_ironly"
       [] OTHER -> IF IsIr(d) THEN "preempted_ir" ELSE "preempted_reg"

LoadedIr == {f \in resolved : IsIr(f)}
IrSymbols == UNION {{f} \X (Defs(f) \union Refs(f)) : f \in LoadedIr}

(* all_symbols_read.  The plugin keeps what prevails, may drop what only IR *)
(* refers to, refers to some of what its files refer to, and may refer to   *)
(* library functions and ask for a library; or it fails.                    *)
Generated(tell, kept, refs) ==
  LET by(n) == CHOOSE f \in LoadedIr : <<f, n>> \in DOMAIN tell
                                       /\ tell[<<f, n>>] \in {"prevailing_def",
                                            "prevailing_def_ironly_exp", "prevailing_def_ironly"}
  IN [defs |-> [n \in kept |-> SymbolsOf(by(n)).defs[n]], refs |-> [n \in refs |-> "strong"]]
AddInputFile(path) ==
  [spec |-> "File", file |-> path[2], search_first |-> None, at |-> 0,
   modifiers |-> [DefaultModifiers EXCEPT !.temporary = TRUE]]
AddInputLibrary(lib) ==
  [spec |-> "Lib", file |-> lib, search_first |-> None, at |-> 0,
   modifiers |-> [DefaultModifiers EXCEPT !.as_needed = TRUE]]

AllSymbolsRead ==
  /\ stage = "plugin" /\ LoadedIr # {}
  /\ LET tell == [s \in IrSymbols |-> get_symbol_resolution(s[1], s[2])]
         are(k) == {s[2] : s \in {t \in IrSymbols : tell[t] \in k}}
         keep == are({"prevailing_def", "prevailing_def_ironly_exp"})
     IN \E kept \in {keep \union more : more \in SUBSET are({"prevailing_def_ironly"})} :
        \E refs \in SUBSET ((are({"resolved_exec", "resolved_dyn", "preempted_reg", "undef"})
                             \union LibCalls) \ kept) :
        \E outputs \in {<<AddInputFile(LtoOutput)>>,
                        <<AddInputFile(LtoOutput), AddInputLibrary(PluginLibrary)>>} :
          /\ told' = tell
          /\ generated' = Generated(tell, kept, refs)
          /\ StartLoad(outputs, "open", "failed")
  /\ round' = 2
  /\ UNCHANGED <<parse_vars, groups, name_to_id, alternatives, resolved, definition, non_ir_ref,
                 selected_once, left_out>>

(* Without IR in the link the plugin is not asked; asked, it may report an  *)
(* error.                                                                   *)
PluginStops ==
  /\ stage = "plugin"
  /\ stage' = IF LoadedIr = {} THEN "done" ELSE "failed"
  /\ UNCHANGED <<parse_vars, requests, tasks, files, todo, loaded, loader, lto_vars>>

LtoInit ==
  /\ round = 1 /\ groups = <<>> /\ name_to_id = <<>> /\ alternatives = <<>> /\ resolved = {}
  /\ definition = <<>> /\ non_ir_ref = {} /\ told = <<>>
  /\ generated = [defs |-> <<>>, refs |-> <<>>] /\ selected_once = {} /\ left_out = {}
----------------------------------------------------------------------------
(* The way of a link from its command line to the second resolution.        *)
Init == /\ \E l \in CommandLines : ParseInit(l[1], l[2])
        /\ LoadInit /\ LtoInit

Parse == /\ stage = "parse"
         /\ ParseNext
         /\ UNCHANGED <<load_vars, lto_vars>>
Load ==
  /\ \/ LoadInputs
     \/ \E i \in DOMAIN requests : OpenFile(i) \/ load_input(i) \/ ScriptRead(i)
     \/ AllOpened
     \/ ExtractFile(round = 1 /\ parser.args.plugin_path # None, "failed")
     \/ AllExtracted(IF round = 1 /\ ~AuxiliaryFound THEN "failed" ELSE "loaded")
  /\ UNCHANGED lto_vars
Lto == AddInputs \/ PopulateSymbolDb \/ ResolveSymbols \/ SelectAlternatives
       \/ AllSymbolsRead \/ PluginStops
Finished == /\ stage \in {"done", "failed"} \/ parser.status \in {"error", "exit"}
            /\ UNCHANGED <<parse_vars, load_vars, lto_vars>>
Next == Parse \/ Load \/ Lto \/ Finished
Spec == Init /\ [][Next]_<<parse_vars, load_vars, lto_vars>>
----------------------------------------------------------------------------
(* An alternative was selected over the first definition of the name in the *)
(* first round.  Flags and lists belong to the first definition, so what    *)
(* the second round makes of such a name is not what is stated below.       *)
Overridden(n) == n \in selected_once

(* A file of the first round that only the second one loads defines the     *)
(* name: its definition was in a list that the first round has drained, so  *)
(* that it is not selected however strong it is.                            *)
Late(n) == \E f \in resolved : <<f, n>> \in left_out

(* After both rounds a reference of a loaded object to a name that had a    *)
(* definition when the object was resolved leads to the definition that     *)
(* would be selected among all loaded files without the IR: never into IR   *)
(* that is gone while an object defines the name                            *)
(* (resolve_alternative_symbol_definitions, disable_lto_inputs).            *)
ReferencesReachTheSelected ==
  stage = "done" =>
    \A f \in {g \in resolved : ~IsIr(g)} :
      \A n \in {m \in Undefined(f) : definition[<<f, m>>] # 0 /\ ~Overridden(m) /\ ~Late(m)} :
        LET among == Definers(n, resolved)
        IN DefinedOf(among, n, FALSE) # <<>> =>
             Definition(f, n) = select_symbol(among, n, round = 1)

(* What the plugin may drop, because only IR refers to it, is not referred  *)
(* to by an object of the first round (HAS_NON_IR_REF in resolve_symbol,    *)
(* get_symbol_resolution).                                                  *)
IronlyIsUnreferenced ==
  round = 2 /\ stage = "open" =>
    \A s \in {t \in DOMAIN told : told[t] = "prevailing_def_ironly" /\ ~Overridden(t[2])} :
      \A f \in {g \in resolved : ~IsIr(g)} : s[2] \notin Undefined(f)
=============================================================================
