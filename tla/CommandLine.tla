---------------------------- MODULE CommandLine ----------------------------
(***************************************************************************)
(* The command line: args.rs and the option tables of the four platforms   *)
(* (args/elf.rs, args/macho.rs, args/wasm.rs, args/coff.rs).               *)
(*                                                                         *)
(* An argument is a record [form, name, value]:                            *)
(*   "at"        @name, a response file                                    *)
(*   "attached"  --name=value (/NAME:value for link.exe)                   *)
(*   "long"      --name,  "short" -name                                    *)
(*   "joined"    -namevalue, a prefix option with its value                *)
(*   "plain"     a word without a prefix; as a file it is <<name, value>>, *)
(*               a stem and a suffix.                                      *)
(* Words are abstract: the split of a text into prefix, name and value,    *)
(* the quoting rules of response files and the texts of messages are left  *)
(* out.  An option is a row of a table: how many values it takes and what  *)
(* it does with them.                                                      *)
(***************************************************************************)
EXTENDS Integers, Sequences, SequencesExt, TLC

CONSTANTS None,          \* an option that was not given
          ArgFiles,      \* the files that options name: name -> sequence of arguments
          Forced,        \* directories written as =dir or $SYSROOT/dir: word -> dir
          Unsupported    \* JDXLD_UNSUPPORTED: "warn", "ignore" or "error"

VARIABLES platform,      \* "elf", "macho", "wasm" or "coff"
          frames,        \* iterators of arguments, the innermost last
          parser,        \* args, modifier_stack, inputs, unrecognized, status
          history        \* the options handled so far, with their values

parse_vars == <<platform, frames, parser, history>>
----------------------------------------------------------------------------
(* What an option does with its value. *)
Flag(r)          == [takes |-> "none", does |-> "assign", set |-> r]
Value(f)         == [takes |-> "one", does |-> "store", field |-> f]
Number(f)        == [takes |-> "one", does |-> "number", field |-> f]
List(f)          == [takes |-> "one", does |-> "append", field |-> f]
Choice(f, c, e)  == [takes |-> "one", does |-> "choose", field |-> f, of |-> c, other |-> e]
Optional(f)      == [takes |-> "optional", does |-> "store", field |-> f]
Top(f, b)        == [takes |-> "none", does |-> "top", field |-> f, to |-> b]
Special(n, s)    == [takes |-> n, does |-> s]
Ignored(n)       == [takes |-> n, does |-> "assign", set |-> <<>>]
Rows(names, row) == [n \in names |-> row]

DefaultModifiers == [as_needed |-> FALSE, allow_shared |-> TRUE, whole_archive |-> FALSE,
                     archive_semantics |-> FALSE, temporary |-> FALSE]

CommonDefaults ==
  [output |-> "a.out", relocation_model |-> "fixed", should_fork |-> TRUE, demangle |-> TRUE,
   version_mode |-> "none", validate_output |-> FALSE, write_layout |-> FALSE,
   write_trace |-> FALSE, prepopulate_maps |-> FALSE]
  @@ Rows({"num_threads", "file_replacement_mode", "file_write_mode", "fallocate_output_file",
           "madvise_huge_pages", "sym_info", "time_phase_options", "numeric_experiments",
           "debug_fuel"}, None)

CommonOptions ==
     "write-layout"             :> Flag([write_layout |-> TRUE])
  @@ "write-trace"              :> Flag([write_trace |-> TRUE])
  @@ "sym-info"                 :> Value("sym_info")
  @@ "validate-output"          :> Flag([validate_output |-> TRUE])
  @@ "update-in-place"          :> Flag([file_replacement_mode |-> "update_in_place"])
  @@ "time"                     :> Optional("time_phase_options")
  @@ "mmap-output-file"         :> Flag([file_write_mode |-> "mmap"])
  @@ "no-mmap-output-file"      :> Flag([file_write_mode |-> "buffer"])
  @@ "fallocate-output-file"    :> Flag([fallocate_output_file |-> TRUE])
  @@ "no-fallocate-output-file" :> Flag([fallocate_output_file |-> FALSE])
  @@ "madvise-huge-pages"       :> Flag([madvise_huge_pages |-> TRUE])
  @@ "no-madvise-huge-pages"    :> Flag([madvise_huge_pages |-> FALSE])
  @@ "threads"                  :> Optional("num_threads")
  @@ "no-threads"               :> Flag([num_threads |-> "1"])
  @@ "no-fork"                  :> Flag([should_fork |-> FALSE])
  @@ "fork"                     :> Flag([should_fork |-> TRUE])
----------------------------------------------------------------------------
(* ELF *)
ElfDefaults ==
  [should_output_executable |-> TRUE, should_output_partial_object |-> FALSE,
   strip |-> "nothing", gc_sections |-> TRUE, merge_sections |-> TRUE,
   copy_relocations |-> "allowed", should_write_eh_frame_hdr |-> FALSE,
   verbose_gc_stats |-> FALSE, enable_new_dtags |-> TRUE, execstack |-> FALSE,
   needs_origin_handling |-> FALSE, needs_nodelete_handling |-> FALSE,
   should_write_linker_identity |-> TRUE, build_id |-> "none", exclude_libs |-> {},
   allow_shlib_undefined |-> FALSE, relro |-> TRUE, b_symbolic |-> "none",
   export_all_dynamic_symbols |-> FALSE, got_plt_syms |-> FALSE, relax |-> TRUE,
   hash_style |-> "both", trace |-> FALSE, pack_dyn_relocs |-> "none",
   use_android_relr_tags |-> FALSE, discard_sframe |-> FALSE, nmagic |-> FALSE,
   rosegment |-> TRUE, unresolved_symbols |-> "report-all",
   error_unresolved_symbols |-> TRUE, allow_multiple_definitions |-> FALSE,
   z_interpose |-> FALSE, z_pack_relative_relocs |-> FALSE, experimental_sframe |-> FALSE,
   gdb_index |-> FALSE, section_start |-> <<>>]
  @@ Rows({"arch", "dynamic_linker", "version_script_path", "write_gc_stats", "rpath", "soname",
           "no_undefined", "sysroot", "dependency_file", "entry", "export_list_path", "ttext",
           "tdata", "tbss", "z_stack_size", "z_isa", "max_page_size", "plugin_path",
           "debug_compression_kind", "sort_section", "output_format_endian"}, None)
  @@ Rows({"lib_search_path", "wrap", "gc_stats_ignore", "undefined", "export_list", "defsym",
           "auxiliary", "rpath_set", "plugin_args"}, <<>>)
  @@ CommonDefaults

Emulations ==
  [elf_x86_64 |-> "x86_64", elf_x86_64_sol2 |-> "x86_64", aarch64linux |-> "aarch64",
   aarch64elf |-> "aarch64", elf64lriscv |-> "riscv64", elf64loongarch |-> "loongarch64",
   elf64lppc |-> "ppc64"]

(* -L, -l, -u and -m take their value joined or from the next argument. *)
ElfPrefixes ==
     "L" :> Special("one", "search")
  @@ "l" :> Special("one", "library")
  @@ "u" :> List("undefined")
  @@ "m" :> Special("one", "emulation")
  @@ "R" :> Special("one", "rpath")
  @@ "O" :> Ignored("one")
  @@ "o" :> Value("output")
  @@ "h" :> Value("soname")
  @@ "T" :> Special("one", "script")

(* -z: the values it knows; the others are warned about. *)
ElfZ ==
     Rows({"now", "notext", "nostart-stop-gc", "lazy"}, <<>>)
  @@ "origin"                 :> [needs_origin_handling |-> TRUE]
  @@ "relro"                  :> [relro |-> TRUE]
  @@ "norelro"                :> [relro |-> FALSE]
  @@ "execstack"              :> [execstack |-> TRUE]
  @@ "noexecstack"            :> [execstack |-> FALSE]
  @@ "nocopyreloc"            :> [copy_relocations |-> "flag"]
  @@ "nodelete"               :> [needs_nodelete_handling |-> TRUE]
  @@ "defs"                   :> [no_undefined |-> TRUE]
  @@ "undefs"                 :> [no_undefined |-> FALSE]
  @@ "muldefs"                :> [allow_multiple_definitions |-> TRUE]
  @@ "interpose"              :> [z_interpose |-> TRUE]
  @@ "stack-size=8"           :> [z_stack_size |-> 8]
  @@ "stack-size=0"           :> [z_stack_size |-> None]
  @@ "pack-relative-relocs"   :> [z_pack_relative_relocs |-> TRUE]
  @@ "nopack-relative-relocs" :> [z_pack_relative_relocs |-> FALSE]
  @@ [v \in {"x86-64-baseline", "x86-64-v2", "x86-64-v3", "x86-64-v4"} |-> [z_isa |-> v]]
  @@ "max-page-size=8"        :> [max_page_size |-> 8]
(* Values that are no numbers, or no power of two. *)
InvalidZ == [elf |-> {"stack-size=x", "max-page-size=x", "max-page-size=3"}, wasm |-> {"stack-size=x"}]

(* The long options from --static to --pop-state. *)
ElfOptions1 ==
     Rows({"static", "Bstatic"}, Top("allow_shared", FALSE))
  @@ "Bdynamic"          :> Top("allow_shared", TRUE)
  @@ "output"            :> Value("output")
  @@ "strip-all"         :> Flag([strip |-> "all"])
  @@ "strip-debug"       :> Flag([strip |-> "debug"])
  @@ "gc-sections"       :> Flag([gc_sections |-> TRUE])
  @@ "no-gc-sections"    :> Flag([gc_sections |-> FALSE])
  @@ Rows({"shared", "Bshareable"}, Flag([should_output_executable |-> FALSE]))
  @@ Rows({"pie", "pic-executable"},
          Flag([relocation_model |-> "pic", should_output_executable |-> TRUE]))
  @@ "no-pie"            :> Flag([relocation_model |-> "fixed", should_output_executable |-> TRUE])
  @@ "relocatable"       :> Flag([should_output_executable |-> FALSE,
                                  should_output_partial_object |-> TRUE,
                                  gc_sections |-> FALSE, relro |-> FALSE,
                                  should_write_linker_identity |-> FALSE,
                                  merge_sections |-> FALSE])
  @@ "pack-dyn-relocs"   :> Choice("pack_dyn_relocs", [none |-> "none", relr |-> "relr",
                                                       android |-> "android"]
                                                      @@ "android+relr" :> "android_relr", "warn")
  @@ "help"              :> Special("none", "exit")

ElfOptions2 ==
     "version"           :> Flag([version_mode |-> "exit_after_print"])
  @@ "demangle"          :> Flag([demangle |-> TRUE])
  @@ "no-demangle"       :> Flag([demangle |-> FALSE])
  @@ "dynamic-linker"    :> Value("dynamic_linker")
  @@ "no-dynamic-linker" :> Flag([dynamic_linker |-> None])
  @@ "entry"             :> Value("entry")
  @@ "jdxld-experiments" :> Number("numeric_experiments")
  @@ "as-needed"         :> Top("as_needed", TRUE)
  @@ "no-as-needed"      :> Top("as_needed", FALSE)
  @@ "whole-archive"     :> Top("whole_archive", TRUE)
  @@ "no-whole-archive"  :> Top("whole_archive", FALSE)
  @@ "push-state"        :> Special("none", "push")
  @@ "pop-state"         :> Special("none", "pop")

ElfOptions3 ==
     "eh-frame-hdr"              :> Flag([should_write_eh_frame_hdr |-> TRUE])
  @@ "no-eh-frame-hdr"           :> Flag([should_write_eh_frame_hdr |-> FALSE])
  @@ "export-dynamic"            :> Flag([export_all_dynamic_symbols |-> TRUE])
  @@ "no-export-dynamic"         :> Flag([export_all_dynamic_symbols |-> FALSE])
  @@ "compress-debug-sections"   :> Choice("debug_compression_kind",
                                           [none |-> None, zlib |-> "zlib", zstd |-> "zstd"],
                                           "error")
  @@ "gdb-index"                 :> Flag([gdb_index |-> TRUE])
  @@ "no-gdb-index"              :> Flag([gdb_index |-> FALSE])
  @@ "soname"                    :> Value("soname")
  @@ "rpath"                     :> List("rpath_set")
  @@ "no-string-merge"           :> Flag([merge_sections |-> FALSE])
  @@ "no-undefined"              :> Flag([no_undefined |-> TRUE])
  @@ "allow-multiple-definition" :> Flag([allow_multiple_definitions |-> TRUE])
  @@ "relax"                     :> Flag([relax |-> TRUE])
  @@ "no-relax"                  :> Flag([relax |-> FALSE])
  @@ "got-plt-syms"              :> Flag([got_plt_syms |-> TRUE])

ElfOptions4 ==
     "Bsymbolic"                    :> Flag([b_symbolic |-> "all"])
  @@ "Bsymbolic-functions"          :> Flag([b_symbolic |-> "functions"])
  @@ "Bsymbolic-non-weak-functions" :> Flag([b_symbolic |-> "non-weak-functions"])
  @@ "Bsymbolic-non-weak"           :> Flag([b_symbolic |-> "non-weak"])
  @@ "Bno-symbolic"                 :> Flag([b_symbolic |-> "none"])
  @@ "thread-count"                 :> Number("num_threads")
  @@ "exclude-libs"                 :> Special("one", "exclude")
  @@ "version-script"               :> Value("version_script_path")
  @@ "script"                       :> Special("one", "script")
  @@ "export-dynamic-symbol"        :> List("export_list")

ElfOptions5 ==
     "export-dynamic-symbol-list" :> Value("export_list_path")
  @@ "dynamic-list"        :> Special("one", "dynamic-list")
  @@ "write-gc-stats"      :> Value("write_gc_stats")
  @@ "gc-stats-ignore"     :> List("gc_stats_ignore")
  @@ "no-identity-comment" :> Flag([should_write_linker_identity |-> FALSE])
  @@ "debug-fuel"          :> Special("one", "fuel")
  @@ "unresolved-symbols"  :> Choice("unresolved_symbols",
                                     [v \in {"report-all", "ignore-in-shared-libs",
                                             "ignore-in-object-files", "ignore-all"} |-> v],
                                     "error")
  @@ "undefined"           :> List("undefined")
  @@ "wrap"                :> List("wrap")
  @@ "defsym"              :> List("defsym")
  @@ "section-start"       :> List("section_start")
  @@ "hash-style"          :> Choice("hash_style", [v \in {"gnu", "sysv", "both"} |-> v], "error")

ElfOptions6 ==
     "enable-new-dtags"    :> Flag([enable_new_dtags |-> TRUE])
  @@ "disable-new-dtags"   :> Flag([enable_new_dtags |-> FALSE])
  @@ "retain-symbols-file" :> Special("one", "retain")
  @@ "build-id"            :> Choice("build_id", [none |-> "none", fast |-> "fast", md5 |-> "fast",
                                                  sha1 |-> "fast", uuid |-> "uuid"], "error")
  @@ "icf"                 :> Choice("icf", [none |-> "none"], "warn")
  @@ "sort-section"        :> Choice("sort_section", [name |-> "name", alignment |-> "alignment"],
                                     "warn")
  @@ "sysroot"             :> Special("one", "sysroot")
  @@ "auxiliary"           :> List("auxiliary")
  @@ "plugin-opt"          :> List("plugin_args")
  @@ "dependency-file"     :> Value("dependency_file")

ElfOptions7 ==
     "trace"                     :> Flag([trace |-> TRUE])
  @@ "plugin"                    :> Value("plugin_path")
  @@ "rpath-link"                :> Ignored("one")
  @@ "start-lib"                 :> Top("archive_semantics", TRUE)
  @@ "end-lib"                   :> Top("archive_semantics", FALSE)
  @@ "no-update-in-place"        :> Flag([file_replacement_mode |-> "unlink_and_replace"])
  @@ "prepopulate-maps"          :> Flag([prepopulate_maps |-> TRUE])
  @@ "verbose-gc-stats"          :> Flag([verbose_gc_stats |-> TRUE])
  @@ "allow-shlib-undefined"     :> Flag([allow_shlib_undefined |-> TRUE])
  @@ "no-allow-shlib-undefined"  :> Flag([allow_shlib_undefined |-> FALSE])
  @@ "error-unresolved-symbols"  :> Flag([error_unresolved_symbols |-> TRUE])
  @@ "warn-unresolved-symbols"   :> Flag([error_unresolved_symbols |-> FALSE])
  @@ "use-android-relr-tags"     :> Flag([use_android_relr_tags |-> TRUE])
  @@ "no-use-android-relr-tags"  :> Flag([use_android_relr_tags |-> FALSE])
  @@ "jdxld-experimental-sframe" :> Flag([experimental_sframe |-> TRUE])
  @@ "nmagic"                    :> Flag([nmagic |-> TRUE])
  @@ "no-nmagic"                 :> Flag([nmagic |-> FALSE])
  @@ "rosegment"                 :> Flag([rosegment |-> TRUE])
  @@ "no-rosegment"              :> Flag([rosegment |-> FALSE])
  @@ "discard-sframe"            :> Flag([discard_sframe |-> TRUE])

ElfShort ==
     [s |-> ElfOptions1["strip-all"], S |-> ElfOptions1["strip-debug"],
      r |-> ElfOptions1["relocatable"], v |-> Flag([version_mode |-> "verbose"]),
      V |-> Flag([version_mode |-> "verbose_with_emulations"]), e |-> ElfOptions2["entry"],
      E |-> ElfOptions3["export-dynamic"], f |-> ElfOptions6["auxiliary"],
      t |-> ElfOptions7["trace"], n |-> ElfOptions7["nmagic"],
      EL |-> Flag([output_format_endian |-> "little"]),
      EB |-> Flag([output_format_endian |-> "big"])]

SilentlyIgnored ==
  Rows({"start-group", "end-group", "nostdlib", "no-undefined-version", "fatal-warnings",
        "color-diagnostics", "undefined-version", "sort-common", "stats", "verbose"},
       Ignored("none"))
DefaultFlags ==
  Rows({"no-call-graph-profile-sort", "no-copy-dt-needed-entries", "no-add-needed",
        "discard-locals", "no-fatal-warnings"}, Ignored("none"))
IgnoredFlags == {"fix-cortex-a53-835769", "fix-cortex-a53-843419", "discard-all", "x"}

ElfOptions == ElfOptions1 @@ ElfOptions2 @@ ElfOptions3 @@ ElfOptions4 @@ ElfOptions5
              @@ ElfOptions6 @@ ElfOptions7 @@ CommonOptions @@ SilentlyIgnored @@ DefaultFlags
----------------------------------------------------------------------------
(* Mach-O, WebAssembly and COFF *)
MachODefaults ==
  [dead_strip_dylibs |-> FALSE, entry |-> "_main", lib_search_path |-> <<>>]
  @@ Rows({"platform_version", "sysroot", "plugin_path"}, None) @@ CommonDefaults
MachOOptions ==
     "platform_version"  :> Special("three", "platform_version")
  @@ "syslibroot"        :> Special("one", "syslibroot")
  @@ "framework"         :> Special("one", "framework")
  @@ "lto_library"       :> Value("plugin_path")
  @@ "dead_strip_dylibs" :> Flag([dead_strip_dylibs |-> TRUE])
  @@ "output"            :> Value("output")
  @@ CommonOptions
  @@ Rows({"dead_strip", "no_deduplicate", "demangle", "dynamic"}, Ignored("none"))
MachOShort ==
  [e |-> Value("entry"), o |-> Value("output"),
   mllvm |-> Choice("mllvm", "-enable-linkonceodr-outlining" :> "ignored", "warn")]
MachOPrefixes ==
  [arch |-> Choice("arch", [arm64 |-> "arm64"], "error"),
   L |-> List("lib_search_path"), l |-> Special("one", "library")]

WasmDefaults ==
  [z_stack_size |-> 65536, stack_first |-> TRUE, entry |-> "_start", gc_sections |-> TRUE,
   shared_memory |-> FALSE, allow_undefined |-> FALSE, allow_multiple_definition |-> FALSE]
  @@ Rows({"export_memory", "initial_memory", "max_memory", "sysroot", "plugin_path"}, None)
  @@ Rows({"lib_search_path", "export_symbols", "required_export_symbols", "extra_features"},
          <<>>)
  @@ CommonDefaults
WasmOptions1 ==
     "output"            :> Value("output")
  @@ "gc-sections"       :> Flag([gc_sections |-> TRUE])
  @@ "no-gc-sections"    :> Flag([gc_sections |-> FALSE])
  @@ "export"            :> Special("one", "export")
  @@ "export-if-defined" :> List("export_symbols")
  @@ "export-memory"     :> [Optional("export_memory") EXCEPT !.does = "export-memory"]
  @@ "extra-features"    :> Value("extra_features")
  @@ "no-entry"          :> Flag([entry |-> None])
  @@ "entry"             :> Value("entry")
  @@ "mllvm"             :> Choice("mllvm", <<>>, "warn")
WasmOptions2 ==
     "stack-first"       :> Flag([stack_first |-> TRUE])
  @@ "no-stack-first"    :> Flag([stack_first |-> FALSE])
  @@ "initial-memory"    :> Number("initial_memory")
  @@ "allow-undefined"   :> Flag([allow_undefined |-> TRUE])
  @@ "allow-multiple-definition"    :> Flag([allow_multiple_definition |-> TRUE])
  @@ "no-allow-multiple-definition" :> Flag([allow_multiple_definition |-> FALSE])
  @@ "max-memory"        :> Number("max_memory")
  @@ "shared-memory"     :> Flag([shared_memory |-> TRUE])
  @@ "no-demangle"       :> Flag([demangle |-> FALSE])
  @@ "help"              :> Special("none", "exit")
  @@ "version"           :> Flag([version_mode |-> "exit_after_print"])
  @@ "merge-data-segments"    :> Special("none", "warn")
  @@ "no-merge-data-segments" :> Ignored("none")
WasmShort ==
  [o |-> Value("output"), e |-> Value("entry"), v |-> Flag([version_mode |-> "verbose"]),
   V |-> Flag([version_mode |-> "verbose"])]
WasmPrefixes ==
  [L |-> List("lib_search_path"), l |-> Special("one", "library"), O |-> Ignored("one"),
   m |-> Choice("arch", [wasm32 |-> "wasm32"], "error")]
WasmZ == "muldefs"      :> [allow_multiple_definition |-> TRUE]
      @@ "stack-size=8" :> [z_stack_size |-> 8]

CoffDefaults ==
  [is_dll |-> FALSE, no_default_libraries |-> FALSE]
  @@ Rows({"entry", "subsystem", "sysroot", "plugin_path"}, None)
  @@ Rows({"lib_search_path", "default_libraries", "excluded_default_libraries"}, <<>>)
  @@ CommonDefaults
CoffOptions ==
     "out"        :> Value("output")
  @@ "entry"      :> Value("entry")
  @@ "subsystem"  :> Choice("subsystem", [console |-> "console", windows |-> "windows"], "error")
  @@ "dll"        :> Flag([is_dll |-> TRUE])
  @@ "machine"    :> Choice("machine", [x64 |-> "x64", amd64 |-> "x64"], "error")
  @@ "libpath"    :> List("lib_search_path")
  @@ "defaultlib" :> List("default_libraries")
  @@ "nodefaultlib" :> Special("optional", "nodefaultlib")
  @@ "debug"      :> Special("optional", "debug")
  @@ Rows({"pdb", "pdbaltpath", "natvis", "opt", "manifest", "manifestinput", "manifestuac",
           "wx", "nxcompat", "dynamicbase"}, Ignored("optional"))
  @@ Rows({"nologo"}, Ignored("none"))
CoffIgnored == {"guard", "implib", "def", "wholearchive"}
----------------------------------------------------------------------------
Defaults == [elf |-> ElfDefaults, macho |-> MachODefaults, wasm |-> WasmDefaults,
             coff |-> CoffDefaults]
Long     == [elf |-> ElfOptions, macho |-> MachOOptions, coff |-> CoffOptions,
             wasm |-> WasmOptions1 @@ WasmOptions2 @@ CommonOptions]
Short    == [elf |-> ElfShort @@ Rows({"(", ")", "X"}, Ignored("none")),
             macho |-> MachOShort, wasm |-> WasmShort, coff |-> <<>>]
Prefix   == [elf |-> ElfPrefixes @@ "z" :> Special("one", "z"), macho |-> MachOPrefixes,
             wasm |-> WasmPrefixes @@ "z" :> Special("one", "z"), coff |-> <<>>]
Z        == [elf |-> ElfZ, wasm |-> WasmZ]
is_ignored_flag == [elf |-> IgnoredFlags, macho |-> {}, wasm |-> {}, coff |-> CoffIgnored]
allows_separate_value == platform # "coff"
Numerals == {"1", "8"}

Failed(st, what) == [st EXCEPT !.status = what]
warn_unsupported(st) == IF Unsupported = "error" THEN Failed(st, "error") ELSE st

Assign(st, r)   == [st EXCEPT !.args = r @@ @]
TopOf(st)       == Last(st.modifier_stack)
SetTop(st, f, b) ==
  [st EXCEPT !.modifier_stack[Len(st.modifier_stack)] = [@ EXCEPT ![f] = b]]
AddInput(st, spec, file, mods) ==
  [st EXCEPT !.inputs = Append(@, [spec |-> spec, file |-> file, search_first |-> None,
                                   modifiers |-> mods, at |-> Len(history)])]

(* A directory is <<root, name>>; "=" is the root of one that asks for the *)
(* sysroot and has not been given it yet.                                  *)
Directory(v) == IF v \in DOMAIN Forced THEN <<"=", Forced[v]>> ELSE <<"", v>>
maybe_forced_sysroot(d, root) == IF d[1] = "=" /\ root # None THEN <<root, d[2]>> ELSE d

SetSysroot(st, v) ==
  LET dirs == st.args.lib_search_path
  IN Assign(st, [sysroot |-> v,
                 lib_search_path |-> [i \in DOMAIN dirs |-> maybe_forced_sysroot(dirs[i], v)]])

(* -lname, -l:file; WebAssembly has no shared libraries to find. *)
AddLibrary(st, v) ==
  LET mods == IF platform = "wasm" THEN [TopOf(st) EXCEPT !.allow_shared = FALSE] ELSE TopOf(st)
  IN CASE v = "libname" /\ platform # "wasm" -> Failed(st, "error")
       [] v = ":file" -> AddInput(st, "Search", <<"file", "">>, mods)
       [] OTHER -> AddInput(st, "Lib", <<v, "">>, mods)

(* -T: -Ttext=, -Tdata= and -Tbss= are addresses, the rest are scripts,     *)
(* which do not get the modifiers of their place.                           *)
AddScript(st, v) ==
  IF v \in {"text=8", "data=8", "bss=8"}
  THEN Assign(st, [f \in {("text=8" :> "ttext" @@ "data=8" :> "tdata" @@ "bss=8" :> "tbss")[v]}
                   |-> 8])
  ELSE AddInput(st, "File", <<v, ".ld">>, DefaultModifiers)

(* Mutant: --pop-state starts again from the defaults. *)
PopStateToDefaults(st) ==
  IF Len(st.modifier_stack) = 1 THEN Failed(st, "error")
  ELSE [st EXCEPT !.modifier_stack =
          Append(SubSeq(@, 1, Len(@) - 2), DefaultModifiers)]
PopState(st) ==
  IF Len(st.modifier_stack) = 1 THEN Failed(st, "error")
  ELSE [st EXCEPT !.modifier_stack = Front(@)]

(* -m: Solaris has a loader of its own, unless one was given. *)
SetEmulation(st, v) ==
  IF v \notin DOMAIN Emulations THEN Failed(st, "error")
  ELSE Assign(st, [arch |-> Emulations[v],
                   dynamic_linker |-> IF v = "elf_x86_64_sol2" /\ st.args.dynamic_linker = None
                                      THEN "/lib/amd64/ld.so.1" ELSE st.args.dynamic_linker])

(* Options that do more than assign. *)
RunSpecial(st, does, v) ==
  CASE does = "push" -> [st EXCEPT !.modifier_stack = Append(@, TopOf(st))]
    [] does = "pop" -> PopState(st)
    [] does = "exit" -> Failed(st, "exit")
    [] does = "warn" -> warn_unsupported(st)
    [] does = "search" ->
         Assign(st, [lib_search_path |-> Append(st.args.lib_search_path,
                        maybe_forced_sysroot(Directory(v), st.args.sysroot))])
    [] does = "library" -> AddLibrary(st, v)
    [] does = "script" -> AddScript(st, v)
    [] does = "sysroot" -> SetSysroot(st, v)
    [] does = "exclude" ->
         Assign(st, [exclude_libs |-> IF "ALL" \in {v} \union st.args.exclude_libs THEN {"ALL"}
                                      ELSE st.args.exclude_libs \union {v}])
    [] does = "dynamic-list" -> Assign(st, [b_symbolic |-> "all", export_list_path |-> v])
    [] does = "fuel" -> IF v \in Numerals
                        THEN Assign(st, [debug_fuel |-> v, num_threads |-> "1"])
                        ELSE Failed(st, "error")
    [] does = "retain" -> IF v \in DOMAIN ArgFiles THEN Assign(st, [strip |-> "retain"])
                          ELSE Failed(st, "error")
    [] does = "z" -> CASE v \in DOMAIN Z[platform] -> Assign(st, Z[platform][v])
                       [] v \in InvalidZ[platform] -> Failed(st, "error")
                       [] OTHER -> warn_unsupported(st)
    [] does = "emulation" -> SetEmulation(st, v)
    [] does = "rpath" -> IF v \in DOMAIN ArgFiles THEN [st EXCEPT !.unrecognized = @ + 1]
                         ELSE Assign(st, [rpath_set |-> Append(st.args.rpath_set, v)])
    [] does = "export" ->
         Assign(st, [f \in {"export_symbols", "required_export_symbols"} |->
                       Append(st.args[f], v)])
    [] does = "export-memory" ->
         Assign(st, [export_memory |-> IF v = None THEN "memory" ELSE v])
    [] does = "syslibroot" ->
         Assign(st, [sysroot |-> v, lib_search_path |-> <<<<v, "usr/lib">>>>])
    [] does = "framework" ->
         IF st.args.sysroot = None THEN Failed(st, "error")
         ELSE AddInput(st, "File", <<v, ".tbd">>, TopOf(st))
    [] does = "platform_version" -> Assign(st, [platform_version |-> v])
    [] does = "nodefaultlib" ->
         CASE v = None -> Assign(st, [no_default_libraries |-> TRUE])
           [] v = "" -> Failed(st, "error")
           [] OTHER -> Assign(st, [excluded_default_libraries |->
                                     Append(st.args.excluded_default_libraries, v)])
    [] does = "debug" -> IF v = "none" THEN st ELSE warn_unsupported(st)

Run(st, o, v) ==
  CASE o.does = "assign" -> Assign(st, o.set)
    [] o.does = "store" -> Assign(st, [f \in {o.field} |-> v])
    [] o.does = "number" -> IF v \in Numerals THEN Assign(st, [f \in {o.field} |-> v])
                            ELSE Failed(st, "error")
    [] o.does = "append" ->
         Assign(st, [f \in {o.field} |->
                       Append(st.args[f],
                              IF f = "lib_search_path" THEN Directory(v) ELSE v)])
    [] o.does = "choose" ->
         IF v \in DOMAIN o.of THEN Assign(st, [f \in {o.field} |-> o.of[v]])
         ELSE IF o.other = "error" THEN Failed(st, "error") ELSE warn_unsupported(st)
    [] o.does = "top" -> SetTop(st, o.field, o.to)
    [] OTHER -> RunSpecial(st, o.does, v)

(* Which table knows an argument: long before short before prefix options. *)
Lookup(arg) ==
  CASE arg.form \in {"attached", "long", "short"} /\ arg.name \in DOMAIN Long[platform] ->
         [by |-> "long", option |-> Long[platform][arg.name]]
    [] arg.form = "short" /\ arg.name \in DOMAIN Short[platform] \ DOMAIN Long[platform] ->
         [by |-> "short", option |-> Short[platform][arg.name]]
    [] arg.form \in {"short", "joined"}
         /\ arg.name \in DOMAIN Prefix[platform] \ (DOMAIN Long[platform] \union
                           (IF arg.form = "short" THEN DOMAIN Short[platform] ELSE {})) ->
         [by |-> "prefix", option |-> Prefix[platform][arg.name]]
    [] arg.form = "plain" -> [by |-> "input"]
    [] OTHER -> [by |-> IF arg.name \in is_ignored_flag[platform] THEN "ignored"
                        ELSE "unrecognized"]

(* How many of the arguments after it an option consumes. *)
Consumes(arg, found) ==
  CASE found.by \in {"input", "ignored", "unrecognized"} \/ arg.form \in {"attached", "joined"} -> 0
    [] found.option.takes = "three" -> 3
    [] found.option.takes = "one" -> IF arg.name = "build-id" THEN 0 ELSE 1
    [] OTHER -> 0

(* The value it is run with; an option without a value ignores one attached *)
(* to it, except with link.exe's syntax.                                    *)
invoke_handler(st, arg, o, values) ==
  CASE arg.form = "attached" ->
         CASE o.takes = "three" -> Failed(st, "error")
           [] o.takes = "none" -> IF allows_separate_value THEN st ELSE Failed(st, "error")
           [] o.takes = "one" /\ arg.value = "" /\ ~allows_separate_value -> Failed(st, "error")
           [] OTHER -> Run(st, o, arg.value)
    [] arg.form = "joined" -> Run(st, o, arg.value)
    [] o.takes \in {"one", "three"} /\ ~allows_separate_value -> Failed(st, "error")
    [] arg.name = "build-id" -> Run(st, o, "fast")
    [] o.takes = "optional" -> Run(st, o, None)
    [] o.takes = "none" -> Run(st, o, "")
    [] o.takes = "three" -> IF values[1].name = "macos" THEN Run(st, o, values[3].name)
                            ELSE Failed(st, "error")
    [] OTHER -> Run(st, o, values[1].name)

Remember(found, arg, value) ==
  IF found.by \in {"long", "short", "prefix"} /\ (arg.form # "attached" \/ found.option.takes # "none")
  THEN Append(history, [does |-> found.option.does, value |-> value,
                        field |-> IF found.option.does = "top" THEN found.option.field ELSE "",
                        to |-> found.option.does = "top" /\ found.option.to])
  ELSE history

(* handle_argument: one argument, with the values it takes, of the          *)
(* innermost iterator.  A response file is an iterator of its own: an       *)
(* option at its end cannot take its value from beyond it.                  *)
HandleArgument ==
  /\ parser.status = "parse" /\ frames # <<>> /\ Last(frames) # <<>>
  /\ LET arg   == Head(Last(frames))
         rest  == Tail(Last(frames))
         found == Lookup(arg)
         n     == Consumes(arg, found)
     IN IF arg.form = "at"
        THEN /\ frames' = Append(Append(Front(frames), rest),
                                 IF arg.name \in DOMAIN ArgFiles THEN ArgFiles[arg.name] ELSE <<>>)
             /\ parser' = IF arg.name \in DOMAIN ArgFiles THEN parser
                          ELSE Failed(parser, "error")
             /\ history' = history
        ELSE /\ frames' = Append(Front(frames), SubSeq(rest, n + 1, Len(rest)))
             /\ history' = Remember(found, arg,
                              IF n = 1 /\ rest # <<>> THEN rest[1].name ELSE arg.value)
             /\ parser' =
                  CASE found.by = "input" ->
                         AddInput(parser, "File", <<arg.name, arg.value>>, TopOf(parser))
                    [] found.by = "ignored" -> warn_unsupported(parser)
                    [] found.by = "unrecognized" -> [parser EXCEPT !.unrecognized = @ + 1]
                    [] OTHER ->
                         IF Len(rest) < n /\ allows_separate_value THEN Failed(parser, "error")
                         ELSE invoke_handler(parser, arg, found.option, SubSeq(rest, 1, n))
  /\ UNCHANGED platform

EndOfFile ==
  /\ parser.status = "parse" /\ frames # <<>> /\ Last(frames) = <<>>
  /\ frames' = Front(frames)
  /\ UNCHANGED <<platform, parser, history>>

(* What parse does after the last argument. *)
FinishElf(st) ==
  LET a == st.args
  IN IF a.auxiliary # <<>> /\ a.should_output_executable THEN Failed(st, "error")
     ELSE IF a.pack_dyn_relocs \in {"android", "android_relr"} /\ Unsupported = "error" THEN Failed(st, "error")
     ELSE [Assign(st,
             [copy_relocations |-> IF a.should_output_executable THEN a.copy_relocations
                                   ELSE "shared_object",
              relro |-> a.relro /\ ~a.nmagic,
              discard_sframe |-> a.discard_sframe \/ ~a.experimental_sframe,
              rpath |-> IF a.rpath_set = <<>> THEN a.rpath ELSE a.rpath_set])
           EXCEPT !.inputs = [i \in DOMAIN @ |-> IF a.nmagic
                                THEN [@[i] EXCEPT !.modifiers.allow_shared = FALSE] ELSE @[i]]]

ParseEnd ==
  /\ parser.status = "parse" /\ frames = <<>>
  /\ parser' = LET st == [parser EXCEPT !.status = "parsed"]
               IN IF parser.unrecognized > 0 THEN Failed(parser, "error")
                  ELSE IF platform = "elf" THEN FinishElf(st) ELSE st
  /\ UNCHANGED <<platform, frames, history>>

ParseInit(p, line) ==
  /\ platform = p
  /\ frames = <<line>>
  /\ parser = [args |-> Defaults[p], modifier_stack |-> <<DefaultModifiers>>, inputs |-> <<>>,
               unrecognized |-> 0, status |-> "parse"]
  /\ history = <<>>

ParseNext == HandleArgument \/ EndOfFile \/ ParseEnd
----------------------------------------------------------------------------
(* How deep --push-state is after the k-th option, and the value an option  *)
(* of the line gives a modifier at a place: the last one that is not inside *)
(* a state that was popped.                                                 *)
Depth(k) == LET count(d) == Len(SelectSeq(SubSeq(history, 1, k), LAMBDA h : h.does = d))
            IN count("push") - count("pop")
Written(field, at) ==
  LET visible == {j \in 1..at : /\ history[j].does = "top" /\ history[j].field = field
                                /\ \A k \in j..at : Depth(k) >= Depth(j)}
  IN IF visible = {} THEN DefaultModifiers[field]
     ELSE history[CHOOSE j \in visible : \A k \in visible : k <= j].to

(* Every input gets the modifiers the options before it ask for, through    *)
(* any nesting of --push-state, --pop-state and response files              *)
(* (handle_argument, the modifier stack).                                   *)
ModifiersFollowTheLine ==
  platform \in {"elf", "macho"} =>
    \A n \in DOMAIN parser.inputs :
      LET i == parser.inputs[n]
      IN i.file[2] = ".ld" \/
         \A field \in {"as_needed", "whole_archive", "archive_semantics", "allow_shared"} :
           \/ i.modifiers[field] = Written(field, i.at)
           \/ field = "allow_shared" /\ platform = "elf" /\ parser.args.nmagic

(* With one --sysroot on the line, the directories to search are those of   *)
(* the -L options in order, and the ones written with = are inside the      *)
(* sysroot wherever --sysroot stands (the handlers of -L and --sysroot).    *)
DirectoriesAreInTheSysroot ==
  LET all(d) == SelectSeq(history, LAMBDA h : h.does = d)
      roots  == all("sysroot")
      dirs   == all("search")
  IN platform = "elf" /\ parser.status = "parsed" /\ Len(roots) = 1 =>
       parser.args.lib_search_path =
         [n \in DOMAIN dirs |-> maybe_forced_sysroot(Directory(dirs[n].value), roots[1].value)]

(* Everything after parsing sees the line as it was written: the modifiers  *)
(* of every input and the directories to search.                            *)
OptionsFollowTheLine == ModifiersFollowTheLine /\ DirectoriesAreInTheSysroot
=============================================================================
