# A verification project for jdxld

jdxld is a fast ELF/Mach-O/Wasm linker written in Rust. One link is a short
program that runs almost all of its phases in parallel, so most of what can go
wrong in its own logic is a matter of order: which task gets to a symbol, a
slot or a file first, what happens to the losers, and what is left behind when
one of them fails. The modules in this directory model those phases, TLC checks
them on small instances, and TLAPS proves the most important facts for every
size.

## 1. The system

### 1.1 A link, from start to end

    main (jdxld/src/main.rs)
      ├─ fork a child that does the work        libjdxld/src/subprocess.rs
      │  or hand it to a resident worker        jdxld/src/mbx_worker.rs
      └─ Linker::run                            libjdxld/src/lib.rs
           open and parse inputs                input_data.rs, archive.rs, parsing.rs, fs.rs
           linker plugins (LTO)                 linker_plugins.rs
           build the symbol database            symbol_db.rs
           resolve names, pull archive members  resolution.rs
           pick among several definitions       symbol_db.rs
           merge strings                        string_merging.rs
           mark what is reachable               layout.rs   <- traverse_reference_graph
           sizes, addresses, thunks             layout.rs, layout_rules.rs, thunks.rs
           write                                file_writer.rs, elf_writer.rs, macho_writer.rs
           check that no input changed          input_data.rs, fs.rs
           record the state of the link         jdxld/src/persistent_state.rs

### 1.2 Components

| component | state | operations | talks to | what is hard | what makes it correct |
|---|---|---|---|---|---|
| command line (`args.rs`, `args/*.rs`) | stack of modifiers, options so far, nested response files | handle one argument, push and pop states, finish | input loading, everything that reads an option | what an option means depends on those before it | every input has the modifiers written before it |
| input loading (`input_data.rs`) | table of files by path, tasks that read scripts | search, open once, read scripts that add inputs, extract archives | file system, plugins | one path requested twice, by tasks in any order | a file is opened once, the order is that of the line |
| LTO plugins (`linker_plugins.rs`) | symbols of claimed files, what the plugin was told | claim, resolve, report, add the objects made, resolve again | symbol database, input loading | two rounds over tables made for one | the plugin drops only what nobody needs; no reference leads into IR at the end |
| symbol resolution (`resolution.rs`) | one take-once cell per file, a queue of loaded files, a list of undefined symbols, one error slot | request a file, resolve a chunk of symbols, gather, canonicalise | tasks of a rayon scope | two tasks want the same archive member; the order in which undefined symbols are noticed | every needed member is loaded once, the result does not depend on the order |
| definition selection (`symbol_db.rs`) | chains of alternative definitions | select, merge visibility, report duplicates | resolution, layout | strong, weak, common, unique and shared definitions in every order | the strongest definition wins, first on ties |
| linker scripts (`linker_script.rs`, `layout_rules.rs`, `expression_eval.rs`) | rules, output sections, location counters, regions, symbols | parse, process a command, match an input section, evaluate early and finally | layout | rules found through a hash of a prefix; two evaluations in different states | inputs go where the first matching statement says, both evaluations agree |
| version scripts, export lists (`version_script.rs`, `export_list.rs`) | lists of patterns by version, a special form | parse, match a name | symbol tables | precedence of exact names, patterns and `*`; two forms of one script | same versions in both forms |
| reference graph traversal (`layout.rs`) | one slot per group with its queue, per-symbol atomic flags, lists of loaded sections | activate a file, load a symbol, load a section, export a symbol, copy-relocate, park, send work | every group sends work to every other one | a worker parks while work is pushed to it; errors drop a whole group; space must be reserved once | keeps exactly the reachable sections, reserves space once, ends |
| string merging (`string_merging.rs`) | hash buckets, offsets, pool of vectors | split, insert, assign offsets, look up | layout | parallel buckets, tail of a section | equal strings share one offset, all bytes are found again |
| thunks (`thunks.rs`) | ranges of objects, blocks | assign blocks, collect symbols, write | layout, writer | positions are estimated before thunks are inserted | every branch reaches |
| layout (`layout.rs`, `output_section_id.rs`, `compression.rs`) | output order, sizes and addresses of parts, segments | order sections, walk, relax, place groups, compress | writers | file offsets computed twice; groups place their inputs in parallel | nothing overlaps, segments map every section |
| ELF relocations and tables (`elf.rs`, `elf_writer.rs`) | flags of symbols, sizes by group, GOT and PLT | scan, finalise sizes, write | traversal, layout | the writer repeats decisions that the scan and the sizes made | each allocation is used up exactly, references reach their symbols |
| Mach-O (`macho.rs`, `macho_writer.rs`) | imports, layout, chained fixups, exports trie | scan, sizes, layout, write, fix up, sign | layout | fixups found a second time; sizes that depend on themselves | the loader finds every pointer, the file describes itself |
| WebAssembly (`wasm.rs`, `wasm_writer.rs`) | live units, index maps, module | mark, resolve imports, number, write | symbol database | index spaces shared by imports, the linker and objects | every index and address means what the symbol means |
| output file (`file_writer.rs`, `fs.rs`) | background creator, size message, mapping | create, set size, write, finish | layout, background thread | unlink and create run concurrently with the link | a failed link never leaves a half-written executable under the output's name |
| forked link (`subprocess.rs`) | child process, pipe | fork, report success early, wait | the shell | the parent reports for a child that may die | the parent's exit code tells what happened to the link |
| caching file system (`fs.rs`) | map from path to mapped bytes with mtime and length | open, verify unchanged, forget | worker | a file changes between its metadata, its bytes and the end of the link | a link that reports success used one consistent version of every input |
| resident worker (`mbx_worker.rs`, `digest_helper.rs`) | socket, cache of inputs, parent pid | serve, poll, hash files | compiler driver | a client that dies, a parent that dies | one answer per request, stops when its parent is gone |
| persistent state (`persistent_state.rs`) | manifest file with generation and digests | read, compare, write a temporary, rename | next link | crash between the two writes; concurrent links to one output | the manifest is always one that some link wrote |

All of these are modelled, some with the omissions that section 7 lists. `PROJECT.json` lists every component with its
files, every modelled definition with the lines it translates ("map"), and every hazard with the properties that would
catch it.

### 1.3 Where components meet

* Resolution and the traversal share their outer form: tasks in a rayon scope, take-once ownership, errors in a queue
  that is read when the scope has ended. Both implement one abstract specification, `ReferenceMarking`.
* The traversal reads definitions that resolution selected, and reserves what string merging, thunks and the writers use.
* The command line is parsed into the inputs that `FileLoader` opens; the loaded files are registered by `LtoLink`, and
  the objects a plugin adds go through `FileLoader` again. `LtoLink` composes the three in one specification.
* A linker script is parsed, processed, laid out and evaluated; its symbols then go to the symbol tables, together with
  what a version script says. `MCLinkerScripts` composes `ScriptParser`, `GlobPatterns` and `LinkerScripts` with
  `VersionScripts` and `ElfSymbols`.
* Merged strings, thunks and sections share the address space but no state: `MCLayout` runs `StringMerging`, `Thunks`
  and `SectionLayout` one at a time.
* The output file is created in the background while the link goes on; `LinkProcess` composes it with the forked child,
  whose parent has already answered when the clean-up runs.
* The worker runs many links in one process. Its input cache replaces the file system of `LinkProcess`, and the manifest
  is written after the link; `ResidentWorker` composes the three.

## 2. Modules

| module | source | state | actions |
|---|---|---|---|
| `ReferenceGraph` | `layout.rs`, `elf.rs` | where each GroupState is (`worker`), its two queues, the requests its task still has (`todo`) and the items it is about to send (`outbox`), the flags, counters of what was allocated | `Activate` ... `ParkOrSwap`, one per branch of `activate_group`, `do_pending_work` and `do_work`; `SendWork` is the critical section of a slot |
| `ReferenceMarking` | abstract | the kept nodes and the outcome | keep a node that a kept node needs; end |
| `Resolution` | `resolution.rs`, `symbol_db.rs`, `grouping.rs` | the program (chosen in `Init`), untaken cells, tasks with their positions, definitions and flags of all symbols, the queue of undefined references, the one place for an error, the stores of `process_alternatives` that are still to be done | one per branch of `resolve_symbol` (`SkipSymbol`, `LookUpName`, `ResolveFound`, ...), `TakeFile`, `Gather`, `SelectName`, one per branch of `canonicalise_undefined_symbols` |
| `LinkProcess` | `subprocess.rs`, `lib.rs`, `file_writer.rs`, `fs.rs` | directory, inodes with content and executable bit, parents, children, pipes, background creator and deleter of each link | the steps of `Linker::run` in order, `RenameOld`, `RemoveOld`, `CreateInBackground`, `InformParent`, `Exit`, `Kill`, `ParentReads` |
| `ResidentWorker` | `mbx_worker.rs`, `fs.rs`, `digest_helper.rs`, `persistent_state.rs` | inputs as inodes with content and stamp, cache, what the current link has opened and read, manifest (visible and durable), clients, session | `Accept` to `Reply` in the order of `handle_request`; the environment edits inputs and stops the worker or the machine at any step |
| `StringMerging` | `string_merging.rs` | groups of input, slots by group and bucket, pool counters with the value each task has read, merged strings, the offset map | `LoadAvailable`/`ExchangeAvailable` (the two halves of the compare-and-exchange), `SplitGroup`, `Deliver`, `TakeStrings`, `ReturnVector`, `ReleaseVector`, `Finish` |
| `Thunks` | `thunks.rs`, `layout.rs`, `elf_writer.rs` | the program, ranges of the objects, block of each object, owners, symbols of each block | one per branch of the loop in `assign_thunk_blocks`, `CollectSymbols`, `WriteBranches` |
| `SectionLayout` | `layout.rs`, `output_section_id.rs`, `output_section_part_map.rs`, `compression.rs` | sizes by part and group, output order with its segments, position of the walk, layouts of parts, segments, addresses given to inputs, relaxation passes | `OutputOrderStep`, `SetLocation`, `SegmentStart`, `LayoutSection`, `RelaxPass`, `ComputeSegmentLayout`, `FinaliseLayout(g)` in any order of the groups, `CompressDebugSections` |
| `ElfRelocations` | `elf.rs`, `elf_writer.rs`, `elf_x86_64.rs`, `value_flags.rs` | flags of each symbol, next relocation of each section, RELR runs, sizes by group, GOT addresses, what the writer took | `Scan` of one relocation, `SkipNext`, `ActivateRoot`, `FinaliseSizes`, `WriteFile`, `Finish` |
| `VersionScripts` | `version_script.rs`, `export_list.rs` | none: operators on tokens | parser, both forms, the version of a name |
| `ElfSymbols` | `elf.rs`, `elf_writer.rs`, `layout.rs`, `symbol_db.rs` | flags, exports by group, sizes, dynamic indexes, what each group wrote | from `LoadSymbols`, `ApplyVisibility`, `Activate(f)` in any order to `FinaliseLayout` and `WriteGroup(g)` in any order |
| `ScriptParser`, `GlobPatterns` | `linker_script.rs`, `glob_match.rs` | none: operators on tokens and characters | the recursive-descent parser, matching of patterns |
| `LinkerScripts` | `linker_script.rs`, `layout_rules.rs`, `expression_eval.rs`, `layout.rs` | rules, counters, sections, symbols, regions, the walk of the layout, values | one per kind of command, `BuildRules`, `PlaceInputs`, one per event of the walk, `UpdateDefSym`, `UpdateRedirect` |
| `CommandLine` | `args.rs`, `args/elf.rs`, `macho.rs`, `wasm.rs`, `coff.rs` | iterators of nested response files, options, modifier stack, inputs | `HandleArgument`, `EndOfFile`, `ParseEnd`; an option is a row of a table of its platform |
| `FileLoader` | `input_data.rs`, `file_kind.rs`, `grouping.rs`, `linker_script.rs` | requests by path, tasks that read a script, files, the lists of loaded inputs | registering, opening and reading in any order, then extraction in order |
| `LtoLink` | `linker_plugins.rs`, `symbol_db.rs`, `resolution.rs` | files by group, names, alternatives, definitions, what the plugin was told and made | `AddInputs`, `PopulateSymbolDb`, `ResolveSymbols`, `SelectAlternatives`, `AllSymbolsRead`, `PluginStops`, in two rounds |
| `WasmLink` | `wasm.rs`, `wasm_writer.rs` | live units, requests, import resolutions, GOT, index maps, the module | `ResolveSymbols`; `ActivateObjectGc`, `LoadGcUnit`, `LoadSymbol` in any order, then the steps of `build_output_module_layout` |
| `MachOLink`, `ExportsTrie` | `macho.rs`, `macho_writer.rs`, `macho_aarch64.rs`, `trie.rs` | flags, imports by library, sizes, layout, fixups, the output file | `LoadEntryPoint`, `ProcessRelocation`, `LoadLibrarySymbol`, then `BeginWrite`, `WriteFile` in any order, the writer's phases in theirs |
| `ReferenceGraphProofs` | | | theorems about `ReferenceGraph`, section 5.1 |
| `ResolutionProofs` | | | theorems about `Resolution`, section 5.2 |
| `LinkProcessProofs` | | | theorems about `LinkProcess`, section 5.3 |
| `ResidentWorkerProofs` | | | theorems about `ResidentWorker`, section 5.4 |
| `StringsAndThunksProofs` | | | theorems about `StringMerging` and `Thunks`, sections 5.5 and 5.6 |
| `LtoLinkProofs` | | | theorem about `LtoLink`, section 5.9 |
| `SectionLayoutProofs` | | | theorems about `SectionLayout`, section 5.7 |
| `ElfRelocationsProofs` | | | theorem about `ElfRelocations`, section 5.8 |

Each module's header states what it abstracts. What is common to all: names, contents and paths are model values;
a critical section is one step, everything between two of them another; each atomic operation is a step of its own
where its order matters. A definition whose comment begins with "Mutant" is not part of the model: it is a plausible
defect of the definition that follows it, put in its place to see that a property notices. `PROJECT.json` says which.

## 3. Runs

States are distinct states. Every run that passes visits all of its instance; none has a state constraint or symmetry.

| run | instance | what it shows |
|---|---|---|
| `gc` | 3 groups, 5 symbols, 4 sections, one start/stop section; two sections and a file that may fail; fair; 223,864 states | All flags and tables of a link that succeeds follow from the live references, whatever the order, and exactly the reachable sections are kept (`OkIsComplete`); space is reserved once, in well-typed states (`AllocatedOnce`); no wake-up is lost (`ParkedHasNoWork`); no section is loaded before its group's exception frames are attached (`ActivatedBeforeLoading`); the traversal ends (`Terminates`) and implements `ReferenceMarking`, so nothing unreachable is ever kept (`ImplementsMarking`) |
| `resolve` | 6 programs of up to 7 files and 19 symbols, work items of 3 symbols, shared objects with one and with two of them; fair; 30,149 states | Members are loaded once and tasks never share symbols (`LoadedOnce`); exactly what a chain of strong references needs is loaded and errors are not lost in the queue of one place (`LoadsWhatIsNeeded`, a refinement of `ReferenceMarking` with one more conjunct; references that are `Misread` count with the name they are looked up under, see 6.2); resolution ends (`ResolutionEnds`); the strongest loaded definition wins and duplicates, and only they, fail (`SelectedIsStrongest`); references settle independently of the order (`ReferencesSettled`) |
| `inputs` | 5,227 command lines: every option of four platforms in every form, nested states, response files, scripts that name the same files, archives, plugins that keep or drop; 120,441 states | Inputs have the modifiers that are written before them, directories the sysroot (`OptionsFollowTheLine`); files come in the order of the line and with the first request's modifiers, in every order of opening (`FilesFollowTheLine`); after both rounds no reference leads into IR that is gone (`ReferencesReachTheSelected`); what the plugin may drop is not referred to (`IronlyIsUnreferenced`) |
| `scripts` | 2,402 pairs of scripts and links: statements combined with each other, all pairs of operators, sorted and unsorted inputs of several alignments; shared objects with four kinds of version script, with weak, strong and hidden definitions and references of one name, executables, static and relocatable outputs; 79,886 states | The parser groups by precedence, rules apply in the order of the script although they are looked up by a prefix, dot is where the script has got to (`PlacedByTheScript`); a symbol that was used early has the same value in the end (`EarlyIsFinal`); every group writes what was reserved and every index names its symbol (`TablesAreAsReserved`); lookups through both hash tables find exactly the exports (`LoaderFindsExports`); versions are those of the script, in both of its forms (`VersionsAreTheScripts`) |
| `layout` | 8 lists of sections to merge, 8,372 programs of up to 5 objects, 76 outputs; fair; 132,262 states | No bucket, vector or group is lost or twice (`NothingIsLost`), every byte of every string is found at its merged address (`ReferencesAreKept`), merging ends unless empty tasks are spawned for ever (`TerminatesUnlessSpinning`, see 6.2); thunk blocks have one owner, are near their objects and apart, and every branch reaches (`EveryBranchReaches`); no two sections share an address or a byte of the file, before and after compression (`SectionsAreApart`); segments map all sections to their addresses and have their rights, with the exceptions `AfterZeros` and `InRegions` that 6.2 describes, RELRO covers pages of its own (`SegmentsMapTheirSections`); the groups fill the parts without overlap (`GroupsFillTheirParts`) |
| `elf_relocations` | 11,414 programs: text and data that refer to a symbol of each class, also to undefined ones of each strength and visibility, five kinds of output, with and without relaxation and RELR; 358,200 states | The writer takes exactly the entries of the GOT, PLT and relocation tables that were reserved (`ReservedIsUsed`; `UnusedOffset` is the one exception, see 6.2), and each reference reaches its symbol through the right one (`ReferencesAreRight`) |
| `macho` | 32 programs, scanned and written in every order; 7,342 states | The loader's walk along the chains of fixups meets every pointer once, and code and data reach what their symbols mean (`ReferencesReach`); headers, symbols, exports trie, UUID and signature agree with the image (`FileIsConsistent`) |
| `wasm` | 181 programs of one or two objects, marked in every order; 345,774 states | Indices, types, names, constructors and exports of the module mean what the symbols mean and nothing needed was collected (`ModuleIsRight`); data, stack and heap are apart and inside memory 0, which is as large as its imports ask and ends at `__heap_end` (`MemoryIsApart`) |
| `link` | 2 links to one output one after the other and 1 to a neighbour that shares their `.delete` name, every step may fail; 3 that replace in a directory that may refuse; 4 links in place while busy, with one thread and killable, and to a read-only file; fair; 276,256 states | Exit code zero means that nothing failed and the output is complete, also while the child still runs (`SuccessMeansComplete`); the old inode is never written and a half-written file is never executable, unless renaming or removing it was refused (`OldFileUntouched`, `kept`); all links end: with one thread nothing waits for a background task (`AllExit`) |
| `worker` | 2 links of one or two inputs with edits at any time; 2 sessions with all error paths in which the worker or the machine stops anywhere; one input is an auxiliary file, which is not verified; fair; 374,368 states | A successful link has read only contents that an input had during the link, although mappings are reused, and one content of each loaded file (`UsedBytesWereCurrent`); inputs that both links verified and that are reported unchanged have the same bytes (`UnchangedMeansSameBytes`); the manifest is never torn and is that of a completed link (`ManifestIsCommitted`); every request is answered and no worker outlives its session (`EveryRequestAnswered`) |
| `weak_reference`, `killed_child` | | violations, section 6.1 |

### 3.1 Why the bounds are enough

* `gc`: three groups are one more than a sender and a receiver, so that a second sender can race with the wake-up; the
  graph has a cycle between groups, a symbol requested with and without flags, a request for a copy relocation, garbage
  that refers to live symbols, and both kinds of failure. A section that fails has references of its
  own that were followed before it failed, also one that would keep another section.
* `resolve`: each program contains the situations its comment lists; two files with three symbols per work item give
  several tasks per file, and three members give chains, diamonds and cycles of requests.
* `inputs`: every row of every option table is used with a good and a bad value; two nested states and two response
  files are one more than what a single level would show. Scripts name files of the line and of each other.
* `scripts`: two operators show every precedence; a script of one text and one data section with statements before,
  inside, between and after them shows every place where dot is read. Numbers have 12 bits, so that they wrap.
* `layout`: two buckets and up to three groups make a bucket wait in a slot while another one is ahead; strings of one
  to three bytes cross the ends of groups of four and blocks of two. The ratio of object sizes to the branch range makes
  up to three thunk blocks; `MaxThunkBytes` is half of the range where the code has 2 MiB of 128 MiB. A page of 16 bytes
  is smaller than some sections and alignments, larger than others; two groups have inputs in the same part.
* `elf_relocations`: two relocations to one symbol and one to a neighbour show every combination of flags that two
  references can make, and every position of a symbol's GOT entries behind another's. RELR runs have two slots.
* `macho`: pages have their real size, so pointers are placed around their ends; the other programs each have a shape
  that a part of the writer has a case for. `MaxSectionIndex`, 255 in the code, is 10, so that a program exceeds it.
* `wasm`: two objects are needed for a weak function that loses, a third would only repeat it. Objects with memories of
  their own, a second strong definition and output that is refused have a program each.
* `link`: a third link is needed for the shared temporary name, a second one for a predecessor that still cleans up.
* `worker`: two edits allow an edit and its undoing; two requests are one that fills the cache and one that uses it.

The theorems of section 5 have no bound at all: what `gc`, `resolve`, `link`, `worker` and the merging and thunk parts
of `layout` show on these instances holds for every instance, with the exceptions named there; so do
`GroupsFillTheirParts` of `layout` and `ReservedIsUsed` of `elf_relocations`.

Deadlock is not checked in `macho` and `elf_relocations`, where a link ends, and in `worker`: an idle worker without
clients, and a machine without sessions left, may stop.

## 4. Fairness

Weak fairness of the steps of each task, and no more. rayon runs every job that is spawned in a scope before the scope
returns, and the modelled tasks wait for each other only in critical sections of a few instructions, so a task that has
a next step takes it. For processes the operating system gives the same. `LinkProcess` has no fairness for `Kill`,
`ResidentWorker` none for clients, edits, the owner and stops: these may or may not happen. `Resolution` asks only
that some task goes on, which is weaker. In `StringMerging` each task has its own fairness (`MergeFairness`), because
the compare-and-exchange of one may be repeated for ever if only the others run. The other modules state only safety:
their interleavings are those of tasks of one scope, and the phases between them have no choice.

## 5. Theorems

All of them are of the form *the specification implies that always*, for every value of the constants that the named
assumptions of the modules allow: any number of groups, symbols, files, links, clients, strings, and any graph, program
or setup over them. TLC evaluates the assumptions on the instances of the runs. What TLC can evaluate
of each inductive invariant was checked on the run's instance before it was proved; a proof that a step keeps it has one
step per action. Type
correctness is part of every one (`TypeCorrect`, `LinkTypeCorrect`, `WorkerTypeCorrect`, `StateOK`, `GroupsInv` with
`TasksInv`), and says more than the name: that no queue count goes below zero, for instance.

### 5.1 Traversal

From `ConstantsAssumption` and `GraphAssumption`: functions have their types, relocations are references, a file keeps
and exports what is its own, the two flags that ask for an entry of their own differ.

| theorem | states | argument |
|---|---|---|
| `NoLostWakeup` | `ParkedHasNoWork` | inductive with `TypeOK`: a task with something to handle or send is not parked, sending to a parked group wakes it in the same critical section, and a group parks only when it found both queues empty under the mutex |
| `AllocatesOnce` | `AllocatedOnce` | the bound on `copies` alone is not inductive: two requests in flight would break it later. `CountedOnce` follows the request from the task whose `fetch_or` added COPY_RELOCATION, through one outbox, to the queues of the symbol's own group and into `copies`; it is in one of these places at most and in none before the flag is set. `OthersOnce` ties `exports` to EXPORT_DYNAMIC |
| `ActivatesFirst` | `ActivatedBeforeLoading` | `InQueueOfOwner`: an item is only ever in the queues of the group that owns its target, and that group's task activates its files before it takes the first item |
| `OkTraversalIsComplete` | `OkIsComplete` | `NothingForgotten`: every request of a root or of a walked unit has been served or is in a `todo`, an outbox or a queue. `Justified`: everything that is kept, queued or flagged has a live reason. At an Ok end all places are empty, so that the flags and the kept units are exactly those of the live references |
| `TraversalImplementsMarking` | `ImplementsMarking` | every step maps to a step of `ReferenceMarking` or to nothing, given `TraversalInv` |

The attempt to prove the last one showed that it had been false outside of the old instance: a section that fails is
not kept, but the relocations before the failing one have already been followed, and what they lead to is kept. The
history variable `failed` remembers such sections and the mapping is now `kept <- Kept \cup failed`; the instance has a
failing section that leads to others.

### 5.2 Resolution and selection

From `ResolutionAssumption`, which says what a symbol table is. The programs are those of the constant, any number.

| theorem | states | argument |
|---|---|---|
| `LoadsOnce` | `LoadedOnce` | `CellsInv`: a cell is empty exactly when its file was loaded. `TasksInv`: tasks walk over symbols of their own loaded file, and no two of them share one |
| `LoadsNeeded` | `LoadsWhatIsNeeded` | `SettledInv`: unless a task failed, each symbol of a loaded file is ahead of a task, or the file it requests is loaded or being asked for. A reference is looked up under its own name unless it is `Misread` (`NameFacts`, from the cover of a file by its chunks). With both, resolution implements `ReferenceMarking`, and no error is lost in the place for one |
| `SelectionIsStrongest` | `SelectedIsStrongest` | `SelectingInv`: once a name has been selected for, each of its definitions leads to the strongest one or a store that makes it do so is pending, and the name is among the duplicates exactly when strong definitions clash. `KindsInv`: merging visibility does not change what a definition is |
| `ReferencesAreSettled` | `ReferencesSettled` | `EntriesInv`, `TargetsInv`, `CanonicalInv`: the queue has exactly the references that may stay undefined, each once; it is sorted in descending order, so the canonical symbol of a name is the last reference, whatever order the tasks queued them in |

What a fold over the alternatives returns is proved by induction over a *set* of natural numbers that is shown to be all
of them (`NatInductionSet`, `FoldExists`, `ConsideredFold`): the library's induction theorems take a predicate as a
parameter, which the provers cannot instantiate.

### 5.3 Link processes

From `LinkProcessAssumption`, for any number of links, paths and modes, wherever a step fails or a process is killed.

| theorem | states | argument |
|---|---|---|
| `ReplacementIsSafe` | `OldFileUntouched`, if no output has the name of a temporary file; about links that got the old output out of the way (`Replaces`) | `DirInv`: no inode has two names and that of a link has none before it is created. `BufferInv`, `ReplaceInv`: a link writes into the inode that it made, which becomes executable when it is complete |
| `SuccessIsComplete` | `SuccessMeansComplete`, also if no forked child is killed | `ProcessesInv` relates the steps of child, background creator and parent: a byte in the pipe or an exit code of zero means that the file had been written |

Both hypotheses are needed: an output `x.delete` is its own temporary name (6.2), and `killed_child` shows what happens
when a forked child is killed (6.1).

### 5.4 Resident worker

From `ResidentWorkerAssumption`, for any number of clients, requests, inputs, edits and stops.

| theorem | states | argument |
|---|---|---|
| `ManifestsAreCommitted` | `ManifestIsCommitted` | `CommitInv`: what is visible, what is durable and what is about to be renamed is absent or belongs to a completed link, and only a synced temporary is renamed |
| `LinksCurrentBytes` | `UsedBytesWereCurrent` | `DiskInv`, `CacheInv`, `ReadInv`, `CurrentInv`: stamps grow with edits; every content read is one the file had since the link began; a mapping under a stamp that the file still has is a mapping of that file; what was read is the current content until the file is edited, and is settled when it is verified |
| `UnchangedIsSame` | `UnchangedMeansSameBytes` | `TruthInv`: equal stamps in two manifests mean equal bytes |

The two properties about contents exclude, in their own statements, files that are moved back, and the second one a
digest helper. What they say of one content and of equal bytes is for `LoadedFiles`, the files that are verified. 6.2 has
the behaviours that they would not hold in.

### 5.5 String merging

From `StringMergingAssumption` and `SplitAssumption` (splitting into groups gives at least one group of strings; TLC
evaluates it on all inputs of the run).

| theorem | states | argument |
|---|---|---|
| `MergingLosesNothing` | `NothingIsLost` | `SlotsInv`: a slot is filled from the delivery of its group to the time its bucket takes it, and a bucket waits in the slot of its next group. `PoolInv` counts the vectors wherever they are. `SomebodyGoesOn`: while groups are left, a task exists that will split one, release a vector or look at the counter, so that the tasks cannot all end before |

### 5.6 Thunks

From `ThunksAssumption`, for any number and sizes of objects, callers and callees, both for the ELF and for the
conservative (Mach-O) choice of symbols.

| theorem | states | argument |
|---|---|---|
| `BlocksAreWellPlaced` | `OneOwnerPerBlock`, `NearItsBlock` and `BlocksAreApart` | `BlocksInv`: blocks are numbered in the order of the objects, so that a block's users are next to each other. `LastInv` describes the last block that was placed and the one that is open: its first object is out of range of the last block, and what came after it is within range of its start, or without code |
| `BranchesReach` | `EveryBranchReaches`, if the program `Fits` | two blocks are at least the estimated range apart, so code within that range has one block in between at most and is spread by the reserve at most (`Stretch`). Between an object and its own block there is no other block (`ReachesThunk`). What `provably_in_range` accepts stays in range (`ProvableReaches`), and the code outside of the primary part reaches the first block |

`Fits` names what the estimates of `thunks.rs` take for granted: `executable_bytes` counts all code, no object is larger
than the estimated range, a block together with the object that owns it is within the reserve of
`MAXIMUM_THUNK_BYTES_PER_BLOCK`, and the code outside of the primary part leaves room for the first block. All programs
of the run fit; 6.2 says where the code does not ensure it. The first theorem does not need it. Addresses are sums over
the objects, written as recursive functions; `SumExists`, `SumFacts` and `SameGrowth` are the inductions.

### 5.7 Layout of sections and groups

From `LayoutAssumption`: `IsOutput` says what the phases before the layout leave behind. The parts of a section come in
the order of decreasing alignment, alignments divide each other (the code's are powers of two), and the size of an input
is a multiple of its part's alignment, which `verification.rs` checks for each part, except in the sections of `Packed`
(`.init`), whose inputs are put together without padding. Any number of sections, parts, groups, inputs, segments,
regions and locations.

| theorem | states | argument |
|---|---|---|
| `LayoutInvariant` | `LayoutInv`, the inductive invariant | `PlacesInv`: the walk has given each section that it passed a place for each part, aligned and as large as the sum of the sizes. `SizesInv`: relaxation only shrinks sizes, by whole multiples of the alignment. `GroupsInv`: what a group has stored is what it computes, whichever groups were before it. One lemma per action |
| `GroupsAlwaysFillTheirParts` | `GroupsFillTheirParts` | two computations that never meet in the code: the walk adds up the sizes of a part, and each group starts from the sizes of the groups before it (`compute_start_offsets_by_group`). A running sum of multiples of the alignment stays aligned, grows, and ends at the size of the part. So each input lies in its part, apart from all others |

The sums are recursive functions; their inductions (`SumsFacts`, `SumsGrow`, `SumsMultiple`) are again over a set of
numbers.

### 5.8 Relocations

From `RelocationsAssumption`: any set of programs of any number of files, symbols, sections and relocations for the five
kinds of output, any size of the GOT's header and of a RELR entry and its bitmap.

| theorem | states | argument |
|---|---|---|
| `WriterUsesWhatIsReserved` | `ReservedIsUsed` | below |

Three places of the code decide on their own what a relocation or a symbol needs: the scan (`process_relocation`), which
runs in any order over the sections while flags are still being added, the sizes (`allocate_resolution`), and the writer.
The property is that they agree, and it is not inductive: it only says something when the writer is at work. `IInv` adds
the following.

* `SymbolsOk`: the flags that say what a symbol is (`V`) never change, the others are only added to and go together as
  `FlagsOk` says. So the classification of a relocation, with the relaxation that is chosen and whether the next
  relocation is swallowed, is a function of the program (`Fixed`, `Kind`, `LiveOf`), whenever it is computed
  (`RelocationFlags`).
* `ScanOk`: each relocation that was scanned has left its flags on its symbol (`AllSatisfied`); the scan never stands on
  a relocation that is skipped (`Positions`); the state of a section's RELR encoder is that of the table of runs
  (`RunsOk`); the sizes of a group are the sum of what its scanned relocations need (`SizesOk`).
* `WriterOk` and `EntriesOk`: the sizes are those sums with the sizes of the symbols and the late adjustments added,
  every symbol that needs the GOT has its entries (`GotOk`), and a file that was written has taken all that it was given.

The steps that need an idea: RELR runs do not depend on where their section is placed (`EncodeMoved`: the scan encodes
offsets, the writer addresses); what `process_resolution` takes for a symbol is what `allocate_resolution` reserved for
its flags, over all combinations of flags that `FlagsOk` allows (`SymbolTakes`); the bitmaps
of the GOT's RELR part are rounded up over all groups at once, after the groups were counted one by one.

For an undefined symbol that is not dynamic the reservation is only an upper bound: `process_got_tls_offset` takes
nothing when the address is 0, although a shared object reserved a relocation (6.2). So `SymbolTakes` has an inequality
for that flag, a sum of terms that are at most the others is at most their sum (`SumLeq`), and a file is
written with something left only if such a symbol, `UnusedOffset`, is among the program's.

`IsProgram` has, besides the types, what the code takes for granted. It is what the proof needed and no more, and 6.2
describes what happens otherwise where that is more than a badly formed object: thread-local accesses are not to ifuncs;
hidden references are to definitions in objects; position-independent code has no absolute address of an ifunc or of
something in a shared object; data refers to what may be in a shared object by absolute relocations; sections start at
even addresses; the ifuncs of static output are not roots; copy relocations are off in shared objects.

### 5.9 Link-time optimisation

For every command line, file system, script, archive and symbol table, from the first argument to the plugin's answer.

| theorem | states | argument |
|---|---|---|
| `IronlyAlwaysUnreferenced` | `IronlyIsUnreferenced`, if no input of the first round is the object the plugin makes (`OutputIsNew`; that object is a new temporary file) | below |

The flag is set on the first definition of the name and tested on the selected one, and what an object refers to is read
again after the plugin has made its object. `LtoInv` has three parts for the first round. `EmptyInv`: nothing is
registered while files are read. `FirstInv`: the first definition of a name is of a file that defines it, and
`definition` leads it to itself, until an alternative is selected, which `selected_once` notes. `FlagInv`: each
reference of a loaded object that is not IR has flagged the first definition. What the plugin is told to be of IR alone
is its own selected definition without a flag, so for a name without a selected alternative it is the first one, and
nobody has referred to it. `OutputIsNew` is needed because a file with the plugin's path would have other symbols after
its answer; TLC finds it true in every state of `inputs`.

### 5.10 Only model-checked

* Liveness, which is beyond the prover: `Terminates`, `ResolutionEnds`, `AllExit`, `TerminatesUnlessSpinning` and
  `EveryRequestAnswered`.
* `ReferencesAreKept`: about strings that are split, hashed and found again; it needs an induction over bytes and
  blocks.
* `SectionsAreApart` and `SegmentsMapTheirSections`: the first one does not hold for every output that the code accepts
  (a script may move the location counter back, which is not always reported), so that a theorem would need a
  precondition on where scripts put sections; the second one needs the first.
* `ReferencesAreRight`: a case for each kind of access, combination of flags and position in the GOT. The theorem of
  5.8 gives that the entries exist and are in order; what is in them is checked by TLC.
* `ReferencesReachTheSelected`: the attempt showed that it was too strong for inputs the instance did not have. A
  definition in an archive member that only the second round loads is in no list any more and is not selected, however
  strong it is. The property now leaves out such names (`Late`), the instance has one, and 6.2 describes it. What is left
  depends on what a plugin may define in place of its IR files.
* The properties of `WasmLink`, `CommandLine` and `MCInputs`: phases with few interleavings, whose invariants relate
  large tables; not proved.
* The parsers, the exports trie and the walks over scripts, symbol tables and modules are recursive definitions.
  `ScriptParser`, `GlobPatterns`, `VersionScripts`, `LinkerScripts`, `ElfSymbols`, `MachOLink` and `ExportsTrie`
  are written for TLC only.

## 6. What was found

### 6.1 With a run

* `weak_reference`: a weak reference is queued with the file of the *first* definition of its name
  (`resolution.rs:1126`). If that is an archive member that stays out, the reference becomes undefined although another
  loaded object defines the name and the alternatives were resolved in its favour (`symbol_db.rs:1222`).
* `killed_child`: the parent uses `WEXITSTATUS` without `WIFEXITED` (`subprocess.rs:101`): a child killed by a signal
  counts as success.

### 6.2 Without a run

Met while translating, described for the reader; the inputs of the runs keep off the ones that concern their properties.

* A versioned weak reference that comes first for its name is only remembered (`resolution.rs:1219`) and keeps leading
  into a file that was not loaded; the comment at `resolution.rs:1683` expects it to be undefined.
* `resolve_symbols` skips to the start of its chunk and then counts from 0 (`resolution.rs:1557-1558`). Where the index
  in the file is needed the start is added (`:1567`, `:1590`), but not in the call of `raw_symbol_name` (`:1578`), which
  looks a version up in the table of the whole file (`elf.rs:2303` and `:4926`). In a shared object with more than
  `MAX_SYMBOLS_PER_WORK_ITEM` symbols a reference in a later chunk is looked up with the version of another symbol, or
  without its own one: an archive member that defines it may stay out, or another one is loaded. The run has both;
  `LoadsWhatIsNeeded` and `LoadsNeeded` exempt such references by name (`Misread`).
* The visibility of a reference is applied to the definition that the name has at that time (`resolution.rs:1642`); a
  strong definition that is selected later is not downgraded, against `resolution.rs:1636`.
* A default-versioned symbol is in two lists of alternatives that two tasks process at once (`symbol_db.rs:1306`); the
  last store wins, and it can be the one that prefers a shared object (`symbol_db.rs:1394`).
* The alternatives are drained when they are processed (`symbol_db.rs:1293`), so that a second resolution after
  link-time optimisation only sees the new ones.
* A failure to rename the old output (`file_writer.rs:156`), or with one thread to remove it (`file_writer.rs:252`), is
  ignored: the file is then opened with `truncate` and overwritten in place (`fs.rs:693`), hard links, running readers
  and executable bit included, although `fs.rs:23` says that "Any hard links to the file will not be affected".
  `OldFileUntouched` leaves out the links to which this happened, which the history variable `kept` names.
* An output called `x.delete` is its own temporary name and is removed (`file_writer.rs:155`).
* With one thread an existing output is unlinked also when it is to be updated in place (`file_writer.rs:204`), so other
  hard links keep the old content (`fs.rs:27`).
* `UpdateInPlaceWithFallback` falls back for ETXTBSY only (`fs.rs:706`), its comment says for any failure (`fs.rs:32`).
* `try_spawn_input_processing` spawns a task whenever vectors are available, also when no group is left
  (`string_merging.rs:566`); two tasks can keep spawning empty ones. `TerminatesUnlessSpinning` excludes that.
* `find_string` adds the offset within a string to a packed offset (`string_merging.rs:1091`); past the limit of an
  offset this carries into the number of the bucket (`string_merging.rs:1000`). `MCStringMerging` leaves out inputs in
  which a string lies across the limit.
* A block of thunks is placed behind an object that may be larger than the reserve (`thunks.rs:445` and `:436`); objects
  of the run are not.
* The PLT is not counted when it is decided whether thunks are needed at all (`thunks.rs:125`). The inputs of the run
  count all code.
* With a digest helper, digests are asked for by path after the link (`mbx_worker.rs:167`), so they may be those of a
  later content, while `docs/INCREMENTAL_LINKING.md:56` speaks of "a BLAKE3 digest of the bytes jdxld consumed". A link
  reads content a and verifies its input; the file is edited to b; the helper hashes b. The manifest now has the stamp
  of a with the digest of b. The next link reads b, gets the same digest, and because digests are preferred to stamps
  its input counts as unchanged although the bytes differ. `UnchangedMeansSameBytes` is stated for sessions without a
  helper; the proof of its inductive invariant is where this showed.
* `verify_inputs_unchanged` walks `loaded_files` (`input_data.rs:359`), although its comment speaks of "all our input
  files" (`input_data.rs:352`). Version scripts and export lists (`input_data.rs:245-272`, read at `864-881`) and the
  file of a thin archive (`input_data.rs:422-425`, its members only) are never in that list. Such a file may be edited
  while it is read without the link failing, and a manifest records its stamp although its bytes may be others: the
  next link can be told that it is unchanged. The worker run has such a file; `UsedBytesWereCurrent` and
  `UnchangedMeansSameBytes` name the verified files.
* The manifest's output is the first `-o` (`persistent_state.rs:173`), the linker's the last (`args/macho.rs:350`).
* `read_request` has no timeout (`mbx_worker.rs:206`): a client that stops in the middle of a request stops the worker.
  The model's clients send whole requests.
* `CachingFileSystem` reads the metadata by path before it opens the file (`fs.rs:414`). A file that is replaced in
  between and moved back later, with its old time, leaves the wrong bytes in the cache under its own stamp, against the
  comment at `fs.rs:322`. The two properties of the worker about contents leave out setups that move files back.

Command line and loading (`inputs`):

* `-llibname` and `-l:file` meet the sub-options of `-l` that exist for the help text only and fail
  (`args/elf.rs:476`, `args.rs:884`). `--flag=value` for an option without a value does nothing. `-Ttext 0x..` in two
  words is a script called `text`.
* `-r` followed by `-pie`, `-no-pie` or `-shared` still asks for a partial object. On Mach-O `-syslibroot` discards the
  `-L` before it (`args/macho.rs:234`). A second `--sysroot` does not move directories that were already resolved. A
  response file that names itself is read without end.
* A file that two scripts ask for has the modifiers of whichever was registered first (`input_data.rs:752`), which
  depends on scheduling; requests of the line always win, and that is what `FilesFollowTheLine` states. Paths are keyed
  as they are spelled. A thin archive itself is neither in the dependency file nor among the files verified at the end.
* The second round of resolution finds the lists of alternatives drained (`symbol_db.rs:1293`), against
  `symbol_db.rs:1222`, and HAS_NON_IR_REF is set on the first definition registered (`resolution.rs:1667`) while
  `get_symbol_resolution` tests the selected one (`linker_plugins.rs:1038`): `Overridden` keeps the two properties of
  `LtoLink` off names for which the first round selected an alternative. For the same reason a strong definition in an
  archive member that is loaded for a library call of the optimised code does not replace a weak one of the first round,
  as it would without a plugin (`Late`). A name that was undefined in the first round
  and that only inputs of the plugin define stays undefined for the objects of that round.

Linker scripts and layout (`scripts`, `layout`):

* A comparison binds less tightly than `|`, `^` and `&`, and a second comparison in a chain does not parse; GNU ld
  follows C.
* The final pass evaluates the script's symbols in order and `--defsym` before all of them: a forward reference gets 0,
  where the early evaluation sees the value (`layout.rs:3775` says otherwise). A name that is assigned twice has its
  first value early and its last one finally. A symbol that stands at a location counter or in a section which is still
  to be laid out when a location needs it counts as 0 (`layout.rs:5490`, `expression_eval.rs:147`), and so does the size
  or the address of such a section; the end and the size of a section early leave out its secondaries. The run has all
  of these; `Settled`, which takes the events left at the use, names what `EarlyIsFinal` is about. Symbols in a section
  that is sorted (`SORT`) have no early value: the link fails (`layout.rs:5143`).
* `ASSERT(...)` between output sections and `ENTRY(x)` take no `;` (`linker_script.rs:1217`, `1160`): one that follows is
  a parse error. The scripts have both forms.
* One NOBITS input makes its output section NOBITS, since the larger of two section types wins (`elf.rs:4773`, `4792`);
  such a section may be moved back to a lower address (`layout.rs:5640`), over sections that are already laid out.
* A late reference to a symbol of another section adds this section's base to an absolute address
  (`expression_eval.rs:95`). Of two locations before the first section only the last is used. PROVIDE is a plain
  assignment, and `PROVIDE_HIDDEN(x = foo)` does not load `foo`.
* A pattern with a wildcard or an escape among its first bytes never matches when rules are looked up by them; a version
  script that ends inside an extern block is parsed without end; its parent's name is taken up to the `;` untrimmed.
* After compression, `update_file_offset` aligns NOBITS sections (`compression.rs:475`) that the layout does not align
  (`layout.rs:5688`); the check for a segment that moved (`compression.rs:487`) stops at the first header of another
  type. With PHDRS, padding can be taken for such a move (`CompressFails`).
* With PHDRS, read-only data that the script does not place goes to a segment that is only readable if the script has
  one, but otherwise to whichever loadable segment was named last without serving another kind (`elf.rs:2676`), also
  to the one with `.data`. There it follows `.bss` (`elf.rs:2765`), whose zeros take no room in the file, so the segment
  maps other bytes to its address. `AfterZeros` names these sections, and those that a script itself puts after
  zeros; `SegmentsMapTheirSections` leaves them out, and the run has them.
* The bytes used of a MEMORY region are not reset between relaxation passes (`layout.rs:5621`), and a section of a
  region starts at the region's position after its segment was aligned (`InRegions`). Overlaps that `-Ttext` or
  `--section-start` cause are not reported.

ELF (`elf_relocations`, `scripts`):

* A thread-local symbol that is exported but cannot be interposed gets a zero as the offset of its module-and-offset
  pair: the writer leaves it to a relocation (`elf_writer.rs:911`) that is only made for interposable symbols
  (`layout.rs:635`); `elf.rs:6305` speaks of "a pair of values". The programs have no such symbol.
* A shared object that refers by GOTTPOFF to a thread-local symbol that nothing defines and that is hidden or protected
  reserves a dynamic relocation for its offset (`elf.rs:2032`). The writer finds the address 0, writes a zero and takes
  no relocation (`elf_writer.rs:857`), so the link fails with "excessive allocation" for what ought to be a zero or an
  undefined symbol. `UnusedOffset` names this case in `ReservedIsUsed` and the run has programs with it.
* A 64-bit absolute relocation in read-only data to an ifunc, a function of a shared object or a copied symbol fails
  with an internal error in position-independent output (`TextRelocation`). A PC32 relocation in writable data to a
  shared object's symbol reserves an entry that is not written.
* Whether a relative relocation fits into RELR is decided by the scan from its offset (`elf.rs:6227`) and by the writer
  from its address (`elf_writer.rs:1217`): a writable section that starts at an odd address reserves in one table and
  takes from the other. The proof of `ReservedIsUsed` is where this showed; `IsProgram` has even addresses.
* An ifunc of static output gets its GOT and PLT entries only from the reference that resolves it first
  (`elf.rs:6279`); one that is activated as the entry point before (`layout.rs:3192`) gets none.
* Sections that a script SORTs are reserved with their object's group but written by the epilogue (`elf_writer.rs:4330`).
* A hidden reference downgrades the definition that its name has when the reference is resolved
  (`resolution.rs:1633-1645`), which is the first one; alternatives are selected later. When a weak definition comes
  first and a strong one is selected, the strong one stays exported although a reference to it is hidden, contrary to
  the comment at `resolution.rs:1636`, the definition "must be downgraded so it cannot leak into dynsym". `HidesAnother`
  names this case in `LoaderFindsExports` and the run has links with it.
* The special form of a version script undoes the downgrade that a hidden reference caused, and a hidden definition
  does not hide a symbol of a linker script or `--defsym`: `symbol_db.rs:1337` says it "cannot leak into dynsym".
* Symbols of a linker script get no entry in the version table, which shifts those that follow. A version script and a
  soname without a `.dynamic` section stop the linker at an `expect`. `--got-plt-syms` and `-r` with versioned undefined
  names reserve other sizes than they write (`ReservesAnother`). With `--hash-style=sysv` the order of exports depends
  on scheduling.

Mach-O (`macho`):

* The addend in place of an unsigned relocation is only read for pairs with a subtractor. A pointer that is not a
  multiple of four away from the one before breaks the chain; pointers in `__TEXT` get no fixup.
* With `-dead_strip_dylibs` a library that is used but is not a stub is never marked as loaded (`macho.rs:462` and
  `:1721`). Ordinals up to 255 are accepted, those above 0xF0 have a special meaning to the loader.
* A section that is zero-filled in one object and not in another becomes zero-filled (`macho.rs:831`). A segment of
  its own with zero-filled sections before others (`MixedSegment`), more than one such segment, and data outside of the
  expected segment fail or give headers that do not match.
* An indirect symbol fails the link unless symbols are stripped.
* A symbol that is copied to the symbol table although nothing refers to it and it is not exported has no resolution and
  is written with the number of its section but the value 0 (`macho_writer.rs:1935`, `:1979-1981`). Such symbols are
  `WithoutValue` in `ImageIsConsistent`, which states that value.
* A relocation with `r_extern = 0` names a section; `process_relocation` skips it (`macho.rs:2312`), but `get_resolution`
  takes the number for that of a symbol (`macho_writer.rs:1070-1100`), counted from 0 where sections count from 1. The
  pointer then leads to another symbol, or the link fails. The run has both cases, and `ReferencesReach` does not say
  where such references lead (`NamesSection`); operands of a difference, which the code reads as sections, are included.

WebAssembly (`wasm`):

* COMDAT groups of the linking section are not used. A weak data symbol that lost still refers to its own segment, while
  its GOT entry uses the winner's, which nobody requests.
* The relative table index of a null function is 0, which is also that of the first slot.
* With `--allow-multiple-definition`, the object of a strong function that lost still calls its own: only weak functions
  are redirected (`wasm.rs:4610`). `ModuleIsRight` names such references `KeepsItsOwn`.
* "Imported and defined memories are merged into a single output memory" (`wasm.rs:3329`) is true of the indices only.
  When objects define several memories, all are emitted (`wasm.rs:5872`), code uses the first and `__heap_end` is the end
  of the largest (`SeveralMemories` in `MemoryIsApart`); imports of other objects no longer count (`wasm.rs:5968`); and a
  maximum that an object declared stays when the initial size is raised above it (`ObjectSetsMaximum`).

## 7. What is not modelled, and the plan

Left out for good: the bytes of instructions and their encodings, debug data and its indexes, diagnostics and timing,
`linker-diff`, and the formats of trace and layout files. These are functions on bytes without state or concurrency, or
tools beside the link. The code of libraries (rayon, the file system, processes, plugins, compressors) is modelled from
its use and marked external.

Left out of modelled components:

* `Resolution`: `--wrap`, stub libraries, `-Bsymbolic`; the second round is in `LtoLink`, where a resolution is its
  outcome. `LtoLink` leaves out versions, visibility and COMDAT groups.
* `ElfRelocations` is about x86-64 and sections that are allocated; `ElfSymbols` leaves out values and sections of
  symbols, `.symtab_shndx` and thunk symbols. Notes, `.eh_frame_hdr` and attributes of RISC-V are in neither.
* `SectionLayout`: load addresses (AT), the sharding of vectors. `Thunks`: an object is one range of code.
* `MachOLink`: parsing of objects, libraries and stubs. `WasmLink`: parsing, LEB128, debug sections.
* Texts: the characters of scripts, response files and names; everything works on tokens.
* `LinkProcess` and `ResidentWorker`: framing of messages, tracing. `read_request` without a timeout, see 6.2.

What could follow:

1. Theorems. `ReferencesAreKept` for string merging, from `NothingIsLost` and `SplitAssumption`, and that assumption
   itself. `ReferencesAreRight` for relocations, from `IInv`. `SectionsAreApart` for layout, from `LayoutInvariant` and
   a condition on the locations of scripts.
2. The offsets of deleted bytes in relaxation (`relaxation.rs`) as a pure function, then `ElfRelocations` for RISC-V.
3. `ElfRelocations` and `SectionLayout` composed: what is reserved moves addresses, which decide what is relaxed.

## 8. Running

    tlc -workers 2 -config MCReferenceGraph.cfg MCReferenceGraph
    tlapm ReferenceGraphProofs.tla

and likewise for the other configurations: `MCx.cfg` belongs to the module `MCx`, `MCResolutionWeak.cfg` to
`MCResolution` and `MCLinkProcessKilled.cfg` to `MCLinkProcess`. `MCStringMerging`, `MCThunks` and `MCSectionLayout`
hold the inputs of `MCLayout`. Each module whose name ends in `Proofs` is checked by `tlapm` by itself; the longest,
`ElfRelocationsProofs`, takes less than ten minutes.
