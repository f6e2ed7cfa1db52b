------------------------------ MODULE MCInputs ------------------------------
(* The way of a link from its command line to the second resolution.        *)
EXTENDS LtoLink

At(n)          == [form |-> "at", name |-> n, value |-> ""]
LongOpt(n)     == [form |-> "long", name |-> n, value |-> ""]
ShortOpt(n)    == [form |-> "short", name |-> n, value |-> ""]
Attached(n, v) == [form |-> "attached", name |-> n, value |-> v]
Joined(n, v)   == [form |-> "joined", name |-> n, value |-> v]
Plain(n, s)    == [form |-> "plain", name |-> n, value |-> s]
Word(v)        == Plain(v, "")
MissingFile    == Plain("n", ".o")

MCArgFiles ==
  [f |-> <<LongOpt("push-state"), LongOpt("as-needed"), MissingFile>>,
   g |-> <<LongOpt("pop-state"), Joined("L", "=d")>>]
MCForced == "=d" :> "d"
----------------------------------------------------------------------------
(* Every option of every table, with and without a value. *)
ValuesOf(p, o) ==
  CASE o.does = "choose" -> DOMAIN o.of \union {"x"}
    [] o.does = "z" -> DOMAIN Z[p] \union InvalidZ["elf"] \union {"x"}
    [] o.does = "emulation" -> DOMAIN Emulations \union {"x"}
    [] o.does \in {"retain", "rpath"} -> {"x", "f"}
    [] o.does = "exclude" -> {"x", "ALL"}
    [] o.does = "script" -> {"x", "text=8", "data=8", "bss=8"}
    [] o.does = "library" -> {"z", ":file", "libname"}
    [] o.does = "debug" -> {"none", "x"}
    [] o.does = "nodefaultlib" -> {"", "x"}
    [] OTHER -> {"8", "x"}
EveryLong(p) ==
  UNION {LET o == Long[p][n]
             alone == <<LongOpt(n)>>
         IN CASE o.takes = "none" -> {alone, <<Attached(n, "x")>>}
              [] o.takes = "three" -> {<<LongOpt(n), Word(w), Word("8"), Word("8")>> :
                                          w \in {"macos", "x"}} \union {<<Attached(n, "x")>>}
              [] OTHER -> {alone} \union {<<Attached(n, v)>> : v \in ValuesOf(p, o) \union {""}}
                          \union {<<LongOpt(n), Word(v)>> : v \in ValuesOf(p, o)}
         : n \in DOMAIN Long[p]}
EveryShort(p) ==
  {<<ShortOpt(n), Word("x")>> : n \in DOMAIN Short[p] \union DOMAIN Prefix[p]}
  \union UNION {{<<Joined(n, v)>> : v \in ValuesOf(p, Prefix[p][n])} : n \in DOMAIN Prefix[p]}
Others(p) == {<<LongOpt(n)>> : n \in is_ignored_flag[p] \union {"nonsense"}}
Platforms == {"elf", "macho", "wasm", "coff"}
AloneLines == UNION {{<<p, l \o <<MissingFile>>>> :
                        l \in EveryLong(p) \union EveryShort(p) \union Others(p)} : p \in Platforms}

(* Options that change what later ones mean. *)
Interacting ==
  {LongOpt("as-needed"), LongOpt("whole-archive"), LongOpt("Bstatic"), LongOpt("push-state"),
   LongOpt("pop-state"), LongOpt("start-lib"), Joined("L", "=d"), Joined("L", "e"),
   Attached("sysroot", "r"), Joined("l", "z"), At("f"), At("g"), ShortOpt("n"),
   Joined("T", "s")}
MixedLines == {<<"elf", <<a, b, c, MissingFile>>>> : a, b, c \in Interacting}
Nesting == {LongOpt("as-needed"), LongOpt("no-as-needed"), LongOpt("push-state"),
            LongOpt("pop-state"), At("f"), At("g")}
NestedLines == {<<"elf", <<LongOpt("as-needed"), a, b, c, d, MissingFile>>>> :
                  a, b, c, d \in Nesting}
----------------------------------------------------------------------------
(* The files of the links that load something. *)
D  == <<"", "d">>
RD == <<"r", "d">>
O(s)        == <<s, ".o">>
SO(s)       == <<s, ".so">>
In(spec, f, needed) == [spec |-> spec, file |-> f, as_needed |-> needed, directory |-> None]
InDir(dir, f) == [In("File", f, FALSE) EXCEPT !.directory = dir]
Kind(k)     == [kind |-> k]
MCFileSystem ==
     <<Cwd, O("a")>> :> Kind("object")
  @@ <<Cwd, O("b")>> :> Kind("bad")
  @@ <<Cwd, <<"t", ".a">>>> :> [kind |-> "thin", members |-> <<O("a"), SO("y")>>]
  @@ <<Cwd, SO("y")>> :> Kind("dynamic")
  @@ <<Cwd, <<"u", ".tbd">>>> :> Kind("stub")
  @@ <<Cwd, <<"v", ".dylib">>>> :> [kind |-> "fat", entry |-> Kind("dynamic")]
  @@ <<Cwd, <<"v", ".a">>>> :> [kind |-> "fat",
                                entry |-> [kind |-> "archive", members |-> <<"object">>]]
  @@ <<Cwd, <<"v", ".x">>>> :> [kind |-> "fat", entry |-> Kind("bad")]
  @@ <<Cwd, <<"s", ".t">>>> :>
       [kind |-> "text", inputs |-> <<In("File", O("a"), FALSE), In("Lib", <<"z", "">>, TRUE)>>]
  @@ <<Cwd, <<"w", ".t">>>> :>
       [kind |-> "text", inputs |-> <<In("Lib", <<"z", "">>, FALSE),
                                      In("File", <<"w", ".t">>, FALSE),
                                      In("File", <<"s", ".t">>, FALSE)>>]
  @@ <<RD, <<"q", ".t">>>> :>
       [kind |-> "text", inputs |-> <<InDir(D, SO("z")), InDir(<<"=", "d">>, SO("z"))>>]
  @@ <<Cwd, <<"q", ".t">>>> :>
       [kind |-> "text", inputs |-> <<InDir(<<"=", "d">>, SO("z")),
                                      In("Lib", <<"nowhere", "">>, FALSE)>>]
  @@ <<D, <<"z", ".a">>>> :> [kind |-> "archive", members |-> <<"object", "object">>]
  @@ <<RD, SO("z")>> :> Kind("dynamic")
  @@ <<Cwd, O("m")>> :> Kind("object")
  @@ <<Cwd, O("l")>> :> Kind("object")
  @@ <<Cwd, O("e")>> :> Kind("object")
  @@ <<Cwd, O("i")>> :> Kind("ir")
  @@ <<Cwd, O("j")>> :> Kind("ir")
  @@ <<Cwd, O("x")>> :> Kind("ir")
  @@ <<Cwd, <<"k", ".a">>>> :> [kind |-> "archive", members |-> <<"object", "ir", "object">>]
  @@ <<Cwd, O("lto")>> :> Kind("object")
MCClaimed == {<<Here, O("i")>>, <<Here, O("j")>>, <<Here, <<"k", ".a">>>>}
MCLtoOutput == <<Cwd, O("lto")>>

S(ds, rs) == [defs |-> ds, refs |-> rs]
NoSymbols == S(<<>>, <<>>)
MCSymbols ==
     <<<<Cwd, O("m")>>, 0>> :> S([main |-> "strong", g |-> "weak"], [f |-> "strong", h |-> "weak"])
  @@ <<<<Cwd, O("l")>>, 0>> :> S([g |-> "strong"], [p |-> "strong"])
  @@ <<<<Cwd, O("e")>>, 0>> :> S([p |-> "strong"], [h |-> "strong"])
  @@ <<<<Cwd, O("i")>>, 0>> :> S([f |-> "weak", p |-> "strong"], [g |-> "strong"])
  @@ <<<<Cwd, O("j")>>, 0>> :> S([g |-> "weak", h |-> "strong"], [p |-> "strong"])
  @@ <<<<Cwd, <<"k", ".a">>>>, 1>> :> S([f |-> "strong"], <<>>)
  @@ <<<<Cwd, <<"k", ".a">>>>, 2>> :> S([p |-> "weak", h |-> "weak"], [g |-> "strong"])
  @@ <<<<Cwd, <<"k", ".a">>>>, 3>> :> S([call |-> "strong", g |-> "strong"], <<>>)
  @@ <<<<D, <<"z", ".a">>>>, 1>> :> S([call |-> "strong"], [p |-> "strong"])
  @@ <<<<D, <<"z", ".a">>>>, 2>> :> S([h |-> "strong"], <<>>)
  @@ <<<<RD, SO("z")>>, 0>> :> S([f |-> "strong", call |-> "strong"], <<>>)
  @@ [x \in ({<<Cwd, O("a")>>, <<Cwd, SO("y")>>, <<Cwd, <<"v", ".dylib">>>>} \X {0})
            \union {<<<<Cwd, <<"v", ".a">>>>, 1>>} |-> NoSymbols]
MCPluginLibrary == <<"z", "">>

Loads == {O("a"), O("b"), <<"t", ".a">>, <<"s", ".t">>, <<"w", ".t">>, <<"q", ".t">>,
          <<"u", ".tbd">>, <<"v", ".dylib">>, <<"v", ".a">>, <<"v", ".x">>, SO("y")}
Scripts == {<<"s", ".t">>, <<"w", ".t">>}
LoadLines ==
  {<<"elf", <<Joined("L", "d"), Plain(a[1], a[2]), Plain(b[1], b[2])>>>> : a, b \in Loads}
  \union {<<"elf", <<Joined("L", "d"), o, Plain(a[1], a[2]), Plain(b[1], b[2]),
                     Plain(c[1], c[2])>>>> :
            o \in {LongOpt("as-needed")}, a, b \in Scripts, c \in {O("a"), <<"s", ".t">>}}
  \union {<<"elf", <<Attached("sysroot", "r"), Joined("L", "=d"), a, Joined("l", l), b>>>> :
            a \in {LongOpt("Bdynamic"), LongOpt("Bstatic")}, l \in {"z", "nowhere", ":file"},
            b \in {Plain("q", ".t"), Plain("s", ".t"), Joined("T", "x"), Attached("version-script", "x")}}
IrLines ==
  {<<"elf", <<LongOpt(k), Joined("L", d), Attached("plugin", "p")>>
            \o <<Plain(a[1], a[2]), Plain(b[1], b[2]), Plain(c[1], c[2])>> \o lib>> :
     k \in {"no-pie", "shared"}, d \in {"d"},
     a \in {O("m")}, b, c \in {O("i"), O("j"), O("l"), <<"k", ".a">>},
     lib \in {<<>>, <<LongOpt("start-lib"), Plain("i", ".o")>>, <<Plain("x", ".o")>>,
             <<Plain("e", ".o")>>}}
  \union {<<"elf", o \o <<Joined("L", "d"), Attached("plugin", "p"), Plain("m", ".o"), Plain(b[1], b[2]),
                         Plain("k", ".a")>> \o l>> :
            o \in {<<LongOpt("allow-multiple-definition")>>,
                   <<LongOpt("shared"), Attached("exclude-libs", "ALL")>>,
                   <<LongOpt("shared"), Attached("exclude-libs", "k")>>,
                   <<LongOpt("pie"), Attached("export-dynamic-symbol", "p")>>,
                   <<LongOpt("pie"), LongOpt("export-dynamic")>>},
            b \in {O("i"), O("j")}, l \in {<<>>, <<Plain("l", ".o")>>}}
  \union {<<"elf", <<Plain("i", ".o")>>>>}

Lines == AloneLines \union MixedLines \union NestedLines \union LoadLines \union IrLines
----------------------------------------------------------------------------
(* The files a reader of the line meets, each at its first mention: a       *)
(* script first, then what it names.                                        *)
RECURSIVE Walk(_, _)
Walk(asked, met) ==
  IF asked = <<>> THEN met
  ELSE LET r == Head(asked)
           p == r.path
           script == Exists(p) /\ Content(p).kind = "text"
           named == [n \in DOMAIN process_linker_script(p, r.modifiers) |->
                       LET i == process_linker_script(p, r.modifiers)[n]
                       IN [path |-> ScriptPath(i), modifiers |-> i.modifiers]]
       IN IF Contains(met, p) THEN Walk(Tail(asked), met)
          ELSE Walk((IF script THEN named ELSE <<>>) \o Tail(asked), Append(met, p))
Asked == [n \in DOMAIN parser.inputs |-> [path |-> InputPath(parser.inputs[n]),
                                          modifiers |-> parser.inputs[n].modifiers]]
Met == LET met == Walk(Asked, <<>>)
           opened(p) == IF Content(p).kind = "thin"
                        THEN [n \in DOMAIN Content(p).members |-> <<p[1], Content(p).members[n]>>]
                        ELSE <<p>>
       IN FlattenSeq([n \in DOMAIN met |-> opened(met[n])])

(* Whatever order the files were opened in, they end up in the order of the *)
(* command line, each once, with the files of a script at its place         *)
(* (load_inputs, extract_all).  The dependency file names what was met and  *)
(* nothing the plugin made (write_dependency_file).                         *)
OrderIsTheCommandLines ==
  /\ stage = "loaded" /\ round = 1 =>
       /\ [n \in DOMAIN loader.loaded_files |-> loader.loaded_files[n].path] = Met
       /\ Range(Dependencies) = Range(Met)
  /\ stage = "done" => ~Contains(Dependencies, <<Here, LtoOutput[2]>>)

(* A file has the modifiers of the first input of the command line that     *)
(* names it; one that only scripts name has the modifiers one of them gives *)
(* it (load_input).                                                         *)
LoadedAsRequested ==
  round = 1 /\ stage = "extract" =>
    LET asked == Asked
        named == UNION {LET r == requests[j]
                            is == process_linker_script(r.path, r.modifiers)
                        IN {[path |-> ScriptPath(is[n]), modifiers |-> is[n].modifiers] :
                              n \in DOMAIN is}
                        : j \in {i \in DOMAIN requests : Exists(requests[i].path)
                                                        /\ Content(requests[i].path).kind = "text"}}
    IN \A i \in DOMAIN requests :
         LET inputs == SelectSeq(asked, LAMBDA a : a.path = requests[i].path)
         IN IF inputs # <<>> THEN requests[i] = inputs[1] ELSE requests[i] \in named

(* The files of the link are those of the line, in its order and with the   *)
(* modifiers it gives them, however the opening of files was scheduled.     *)
FilesFollowTheLine == OrderIsTheCommandLines /\ LoadedAsRequested
=============================================================================
