----------------------------- MODULE FileLoader -----------------------------
(***************************************************************************)
(* Opening the inputs (input_data.rs): every input of the command line is  *)
(* a task, a linker script starts tasks for the files it names while it is *)
(* read, and when all have ended the files are put in the order in which   *)
(* one reader of the command line would have met them.                     *)
(*                                                                         *)
(* A path is <<directory, file>>: a directory is <<root, name>> as in      *)
(* CommandLine and a file <<stem, suffix>>.  Here is the directory of a    *)
(* path without one: such a path is opened like the same file of Cwd, but  *)
(* is another key.  What a file holds is one of                            *)
(*   [kind |-> "object" | "dynamic" | "ir" | "stub" | "bad"]               *)
(*   [kind |-> "archive", members |-> sequence of kinds]                   *)
(*   [kind |-> "thin",    members |-> sequence of files, beside it]        *)
(*   [kind |-> "text",    inputs  |-> sequence of script inputs]           *)
(*   [kind |-> "fat",     entry   |-> what it holds for this machine]      *)
(* Texts of errors and the deferred errors of parsing an object are left   *)
(* out.                                                                    *)
(***************************************************************************)
EXTENDS CommandLine, FiniteSets

CONSTANTS FileSystem,    \* path -> what the file holds
          Claimed        \* the files of IR the plugin claims

VARIABLES stage,         \* "parse", "open", "extract", "loaded", then LtoLink's
          requests,      \* FileLoadIndex -> [path, modifiers]: path_to_load_index
          tasks,         \* scripts being read: index -> [todo, got]
          files,         \* index -> LoadedFileState, of the tasks that ended
          todo,          \* indexes still to extract
          loaded,        \* LoadedInputs
          loader         \* loaded_files and has_dynamic of the FileLoader

load_vars == <<stage, requests, tasks, files, todo, loaded, loader>>
----------------------------------------------------------------------------
Here == <<".", "">>
Cwd  == <<"", "cwd">>
Stored(p)  == <<IF p[1] = Here THEN Cwd ELSE p[1], p[2]>>
Exists(p)  == Stored(p) \in DOMAIN FileSystem
Content(p) == FileSystem[Stored(p)]

(* The first directory with one of the names, and in it the first of them. *)
search_for_files(dirs, names) ==
  LET found(d) == {n \in DOMAIN names : Exists(<<d, names[n]>>)}
      hits     == {d \in DOMAIN dirs : found(dirs[d]) # {}}
  IN IF hits = {} THEN None
     ELSE LET d == dirs[CHOOSE x \in hits : \A y \in hits : x <= y]
          IN <<d, names[CHOOSE x \in found(d) : \A y \in found(d) : x <= y]>>

(* Input::path: where an input is, None if it is not found. *)
InputPath(input) ==
  LET dirs == (IF input.search_first = None THEN <<>> ELSE <<input.search_first>>)
              \o parser.args.lib_search_path
      lib(suffixes) == [i \in DOMAIN suffixes |-> <<input.file[1], suffixes[i]>>]
      found == CASE input.spec = "Lib" ->
                      search_for_files(dirs, lib(IF input.modifiers.allow_shared
                                                 THEN <<".so", ".a">> ELSE <<".a">>))
                 [] input.spec = "File" /\ input.search_first = None -> None
                 [] OTHER -> search_for_files(dirs, <<input.file>>)
  IN CASE found # None -> found
       [] input.spec = "Lib" -> search_for_files(dirs, lib(<<".tbd">>))
       [] input.spec = "File" -> <<Here, input.file>>
       [] OTHER -> None

(* The inputs of a script have its modifiers, as_needed inside AS_NEEDED;   *)
(* they are looked for beside it first.  A directory a script writes is     *)
(* absolute or asks for the sysroot.                                        *)
maybe_apply_sysroot(script, dir) ==
  LET root == parser.args.sysroot
  IN CASE root = None -> dir
       [] script[1][1] = root -> IF dir[1] = "" THEN <<root, dir[2]>> ELSE dir
       [] OTHER -> maybe_forced_sysroot(dir, root)
process_linker_script(script, modifiers) ==
  LET of(i) == [spec |-> i.spec, file |-> i.file,
                search_first |-> Stored(script)[1],
                modifiers |-> [modifiers EXCEPT !.as_needed = @ \/ i.as_needed],
                directory |-> IF i.directory = None THEN None
                              ELSE maybe_apply_sysroot(Stored(script), i.directory)]
  IN [n \in DOMAIN Content(script).inputs |-> of(Content(script).inputs[n])]
ScriptPath(input) ==
  IF input.directory = None THEN InputPath(input) ELSE <<input.directory, input.file>>
----------------------------------------------------------------------------
(* What a file or a member becomes; entry 0 is a whole file. *)
Failure == [state |-> "error"]
Record(path, entry, kind, modifiers) ==
  [path |-> path, entry |-> entry, kind |-> kind, modifiers |-> modifiers]
process_input(r) ==
  CASE r.kind = "ir" -> "ok"
    [] r.kind = "bad" -> "error"
    [] r.entry > 0 /\ r.kind # "object" -> "error"
    [] r.kind = "dynamic" /\ ~r.modifiers.allow_shared -> "error"
    [] OTHER -> "ok"
Records(state, opened, rs) ==
  IF \A n \in DOMAIN rs : process_input(rs[n]) = "ok"
  THEN [state |-> state, files |-> opened, records |-> rs] ELSE Failure

process_archive(path, c, modifiers) ==
  Records("archive", <<path>>,
          [n \in DOMAIN c.members |-> Record(path, n, c.members[n], modifiers)])

(* The members of a thin archive are files of their own; the archive itself *)
(* is not remembered.                                                       *)
process_thin_archive(path, c, modifiers) ==
  LET member(n) == <<path[1], c.members[n]>>
      rs == [n \in DOMAIN c.members |->
               Record(member(n), 0, IF Exists(member(n)) THEN Content(member(n)).kind ELSE "bad",
                      [modifiers EXCEPT !.archive_semantics = TRUE])]
  IN Records("thin", [n \in DOMAIN rs |-> rs[n].path], rs)

process_plain(path, c, modifiers) ==
  IF c.kind = "stub" THEN [state |-> "stub", files |-> <<path>>]
  ELSE Records("loaded", <<path>>, <<Record(path, 0, c.kind, modifiers)>>)

process_fat_macho_object(path, c, modifiers) ==
  CASE c.entry.kind = "archive" -> process_archive(path, c.entry, modifiers)
    [] c.entry.kind \in {"object", "dynamic"} -> process_plain(path, c.entry, modifiers)
    [] OTHER -> Failure

process_open_file_request(path, modifiers) ==
  IF ~Exists(path) THEN Failure
  ELSE LET c == Content(path)
       IN CASE c.kind = "archive" -> process_archive(path, c, modifiers)
            [] c.kind = "thin" -> process_thin_archive(path, c, modifiers)
            [] c.kind = "fat" -> process_fat_macho_object(path, c, modifiers)
            [] OTHER -> process_plain(path, c, modifiers)
----------------------------------------------------------------------------
IndexOf(rs, path) == {i \in DOMAIN rs : rs[i].path = path}
Request(rs, path, modifiers) ==
  IF IndexOf(rs, path) # {} THEN rs
  ELSE Append(rs, [path |-> path, modifiers |-> modifiers])

(* load_inputs: the inputs are registered in order, before any is opened. *)
StartLoad(inputs, next, fail) ==
  /\ LET paths == [n \in DOMAIN inputs |-> InputPath(inputs[n])]
     IN IF \E n \in DOMAIN inputs : paths[n] = None
        THEN stage' = fail /\ UNCHANGED requests
        ELSE /\ stage' = next
             /\ requests' = FoldLeft(LAMBDA rs, n : Request(rs, paths[n], inputs[n].modifiers),
                                     <<>>, [n \in DOMAIN inputs |-> n])
  /\ tasks' = <<>> /\ files' = <<>> /\ todo' = <<>>
  /\ loaded' = [objects |-> <<>>, linker_scripts |-> <<>>, stub_libraries |-> <<>>,
                lto_objects |-> <<>>]
  /\ UNCHANGED loader

LoadInputs ==
  /\ stage = "parse" /\ parser.status = "parsed"
  /\ StartLoad(parser.inputs, "open", "failed")
  /\ UNCHANGED parse_vars

Pending == DOMAIN requests \ (DOMAIN files \union DOMAIN tasks)

OpenFile(i) ==
  /\ stage = "open" /\ i \in Pending
  /\ LET r == requests[i]
     IN IF Exists(r.path) /\ Content(r.path).kind = "text"
        THEN /\ tasks' = tasks @@ i :> [todo |-> process_linker_script(r.path, r.modifiers),
                                        got |-> <<>>]
             /\ UNCHANGED files
        ELSE /\ files' = files @@ i :> process_open_file_request(r.path, r.modifiers)
             /\ UNCHANGED tasks
  /\ UNCHANGED <<parse_vars, stage, requests, todo, loaded, loader>>

(* load_input: one file a script names, under the lock. *)
(* Mutant: the latest request for a file decides how it is loaded. *)
RegisterLatest(rs, path, modifiers) ==
  [i \in DOMAIN Request(rs, path, modifiers) |->
     IF i \in IndexOf(rs, path) THEN [path |-> path, modifiers |-> modifiers]
     ELSE Request(rs, path, modifiers)[i]]
Register(rs, path, modifiers) == Request(rs, path, modifiers)

Without(f, i) == [j \in DOMAIN f \ {i} |-> f[j]]

load_input(i) ==
  /\ stage = "open" /\ i \in DOMAIN tasks /\ tasks[i].todo # <<>>
  /\ LET input == Head(tasks[i].todo)
         path  == ScriptPath(input)
         rs    == Register(requests, path, input.modifiers)
     IN IF path = None
        THEN /\ files' = files @@ i :> Failure
             /\ tasks' = Without(tasks, i)
             /\ UNCHANGED requests
        ELSE /\ requests' = rs
             /\ tasks' = [tasks EXCEPT ![i] = [todo |-> Tail(@.todo),
                            got |-> Append(@.got, CHOOSE j \in IndexOf(rs, path) : TRUE)]]
             /\ UNCHANGED files
  /\ UNCHANGED <<parse_vars, stage, todo, loaded, loader>>

ScriptRead(i) ==
  /\ stage = "open" /\ i \in DOMAIN tasks /\ tasks[i].todo = <<>>
  /\ files' = files @@ i :> [state |-> "script", files |-> <<requests[i].path>>,
                             indexes |-> tasks[i].got]
  /\ tasks' = Without(tasks, i)
  /\ UNCHANGED <<parse_vars, stage, requests, todo, loaded, loader>>

AllOpened ==
  /\ stage = "open" /\ Pending = {} /\ tasks = <<>>
  /\ stage' = "extract"
  /\ todo' = [i \in 1..Len(requests) |-> i]
  /\ UNCHANGED <<parse_vars, requests, tasks, files, loaded, loader>>
----------------------------------------------------------------------------
(* add_record: compiler IR goes to the plugin. *)
has_archive_semantics(r) == r.entry > 0 \/ r.modifiers.archive_semantics
add_record(into, r, plugin) ==
  IF r.kind # "ir" THEN [into EXCEPT !.objects = Append(@, r)]
  ELSE CASE plugin /\ r.path \in Claimed -> [into EXCEPT !.lto_objects = Append(@, r)]
         [] plugin /\ has_archive_semantics(r) -> into
         [] OTHER -> [into EXCEPT !.lto_objects = Append(@, [r EXCEPT !.kind = "error"])]

AfterScript(indexes, rest) == indexes \o rest

(* extract_file; an index that was taken is skipped, the first error met    *)
(* ends the link.                                                           *)
ExtractFile(plugin, fail) ==
  /\ stage = "extract" /\ todo # <<>>
  /\ LET i == Head(todo)
         f == files[i]
         taken == f.state = "taken"
     IN IF f.state = "error"
        THEN /\ stage' = fail
             /\ UNCHANGED <<files, todo, loaded, loader>>
        ELSE /\ todo' = IF f.state = "script" THEN AfterScript(f.indexes, Tail(todo))
                        ELSE Tail(todo)
             /\ files' = [files EXCEPT ![i] = [state |-> "taken"]]
             /\ loaded' =
                  CASE taken -> loaded
                    [] f.state = "script" ->
                         [loaded EXCEPT !.linker_scripts = Append(@, f.files[1])]
                    [] f.state = "stub" ->
                         [loaded EXCEPT !.stub_libraries = Append(@, f.files[1])]
                    [] OTHER -> FoldLeft(LAMBDA l, r : add_record(l, r, plugin),
                                         loaded, f.records)
             /\ loader' =
                  [loaded_files |-> loader.loaded_files \o
                     (IF taken THEN <<>>
                      ELSE [n \in DOMAIN f.files |-> [path |-> f.files[n],
                                        temporary |-> requests[i].modifiers.temporary]]),
                   has_dynamic |-> \/ loader.has_dynamic
                                   \/ f.state = "stub"
                                   \/ f.state = "loaded" /\ f.records[1].kind = "dynamic"]
             /\ stage' = stage
  /\ UNCHANGED <<parse_vars, requests, tasks>>

AllExtracted(next) ==
  /\ stage = "extract" /\ todo = <<>>
  /\ stage' = next
  /\ UNCHANGED <<parse_vars, requests, tasks, files, todo, loaded, loader>>

(* OutputKind::new *)
OutputKind ==
  LET a == parser.args
  IN CASE ~a.should_output_executable -> IF a.should_output_partial_object THEN "partial"
                                         ELSE "shared"
       [] a.dynamic_linker # None /\ a.relocation_model = "pic" -> "dynamic"
       [] loader.has_dynamic -> "dynamic"
       [] OTHER -> "static"

(* AuxiliaryFiles::new: the version script and the export list are found    *)
(* here or in the directories that are searched.                            *)
AuxiliaryFound ==
  \A f \in {"version_script_path", "export_list_path"} \intersect DOMAIN parser.args :
    LET v == parser.args[f]
    IN v = None \/ Exists(<<Here, <<v, ".map">>>>)
       \/ search_for_files(parser.args.lib_search_path, <<<<v, ".map">>>>) # None

(* write_dependency_file: each file once, the plugin's not. *)
Dependencies ==
  FoldLeft(LAMBDA deps, f : IF f.temporary \/ Contains(deps, f.path) THEN deps
                            ELSE Append(deps, f.path), <<>>, loader.loaded_files)

(* Optional files are loaded only when a reference needs them. *)
is_optional(r) == (has_archive_semantics(r) /\ ~r.modifiers.whole_archive)
                  \/ (r.kind = "dynamic" /\ r.modifiers.as_needed)

LoadInit ==
  /\ stage = "parse"
  /\ requests = <<>> /\ tasks = <<>> /\ files = <<>> /\ todo = <<>>
  /\ loaded = [objects |-> <<>>, linker_scripts |-> <<>>, stub_libraries |-> <<>>,
               lto_objects |-> <<>>]
  /\ loader = [loaded_files |-> <<>>, has_dynamic |-> FALSE]
=============================================================================
