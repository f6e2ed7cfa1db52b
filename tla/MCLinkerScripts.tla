-------------------------- MODULE MCLinkerScripts --------------------------
(***************************************************************************)
(* Scripts put together from a list of statements, and links whose symbol  *)
(* tables are written.  The symbols of a linker script go to the tables    *)
(* when its evaluation has ended.                                          *)
(***************************************************************************)
EXTENDS LinkerScripts, ElfSymbols

MCNumerals ==
    [n \in {"0", "1", "2", "4", "8", "16", "64", "1K"} |->
        CASE n = "0" -> [digits |-> 0, suffix |-> ""]
          [] n = "1" -> [digits |-> 1, suffix |-> ""]
          [] n = "2" -> [digits |-> 2, suffix |-> ""]
          [] n = "4" -> [digits |-> 4, suffix |-> ""]
          [] n = "8" -> [digits |-> 8, suffix |-> ""]
          [] n = "16" -> [digits |-> 16, suffix |-> ""]
          [] n = "64" -> [digits |-> 64, suffix |-> ""]
          [] OTHER -> [digits |-> 1, suffix |-> "K"]]

MCBuiltIn == <<".text", ".data", ".comment", ".bss">>
MCDefaultPlacement == <<<<".text", 1>>, <<".text.*", 1>>, <<".data", 2>>, <<".comment", 3>>, <<".bss", 4>>>>
MCRank == [n \in {".text", ".text.hot", ".mine", ".data", ".bss", ".comment", "/DISCARD/"} |->
            CASE n = ".text" -> 1 [] n = ".mine" -> 2 [] n = ".data" -> 3 [] n = ".bss" -> 4
              [] n = ".text.hot" -> 5 [] n = ".comment" -> 6 [] OTHER -> 7]
MCInput(name, order, file, size, alignment, attributes) ==
    [name |-> name, order |-> order, file |-> file, size |-> size, alignment |-> alignment,
     flags |-> attributes]
MCInputs == <<
    MCInput(".text.hot", 6, "a.o", 4, 4, {"A", "X"}),
    MCInput(".text", 5, "a.o", 6, 4, {"A", "X"}),
    MCInput(".data", 3, "a.o", 4, 2, {"A", "W"}),
    MCInput(".text", 5, "b.o", 8, 4, {"A", "X"}),
    MCInput(".mine", 4, "b.o", 2, 8, {"A", "W"}),
    MCInput("", 0, "b.o", 2, 2, {"A", "W"}),
    MCInput(".bss", 1, "b.o", 4, 4, {"A", "W", "N"}),
    MCInput(".comment", 2, "b.o", 3, 1, {})>>
MCSymbols == [n \in {"f", "g", "d", "k"} |->
                CASE n = "f" -> [input |-> 2, offset |-> 2]
                  [] n = "g" -> [input |-> 4, offset |-> 4]
                  [] n = "d" -> [input |-> 3, offset |-> 0]
                  [] OTHER -> [input |-> 0, offset |-> 5]]
ScriptSpelling ==
    [n \in {"", ".text", ".text.hot", ".text.*", ".text*", ".data", ".mine", ".bss", ".comment", "*",
             ".m\\ine", "a.o", "b.o"} |->
        CASE n = ".text" -> <<".", "t">>
          [] n = ".text.hot" -> <<".", "t", ".", "h">>
          [] n = ".text.*" -> <<".", "t", ".", "*">>
          [] n = ".text*" -> <<".", "t", "*">>
          [] n = ".data" -> <<".", "d">>
          [] n = ".bss" -> <<".", "b">>
          [] n = "" -> <<>>
          [] n = ".mine" -> <<".", "m", "i">>
          [] n = ".m\\ine" -> <<".", "m", "\\", "i">>
          [] n = ".comment" -> <<".", "c">>
          [] n = "*" -> <<"*">>
          [] n = "a.o" -> <<"a">>
          [] OTHER -> <<"b">>]

(* Inputs of .text, statements between them, and what follows.             *)
Texts == {
    <<"*", "(", ".text", ")">>,
    <<"a.o", "(", ".text", ")">>,
    <<"KEEP", "(", "*", "(", ".text.*", ".text", ")", ")">>,
    <<"*", "(", "SORT", "(", ".text.*", ")", ".text", ")">>,
    <<"*", "(", "SORT", "(", ".text*", ")", ")">>}
Inners == {
    <<>>,
    <<".", "=", "ALIGN", "(", "16", ")", ";">>,
    <<".", "+=", "8", ";", ".", "=", "ALIGN", "(", "8", ")", ";">>,
    <<".", "=", ".", "+", "SIZEOF", "(", ".text", ")", ";">>,
    <<".", "=", "f", "+", "64", ";">>}
Between == {
    <<>>,
    <<".", "=", ".", "+", "16", ";">>,
    <<".", "=", "ALIGN", "(", "g", "+", "8", ",", "64", ")", ";">>,
    <<"e", "=", "1K", ";", ".", "=", "v", "+", "64", "+", "e", ";">>,
    <<".", "=", "2", ";">>}
Data == {
    <<".data", ":", "{", "*", "(", ".data", ")", "}">>,
    <<".data", "g", "+", "64", ":", "ALIGN", "(", "8", ")", "{", "*", "(", ".data", ")", "}", "=", "0">>,
    <<".data", ":", "{", "s", "=", ".", ";", "*", "(", ".data", ".mine", ")", "}", ">", "ram">>}

Body(first, inner, second, between, data) ==
    <<"v", "=", "g", "+", "8", ";", "SECTIONS", "{", ".", "=", "64", ";", ".text", ":", "{">>
    \o first \o <<"x", "=", ".", ";">> \o inner \o <<"y", "=", ".", ";">>
    \o second \o <<"}", "z", "=", ".", ";">> \o between
    \o <<"w", "=", ".", ";">> \o data
    \o <<"ASSERT", "(", "x", "<=", "y", ",", "text", ")", "}">>

Memory == <<"MEMORY", "{", "ram", ":", "ORIGIN", "=", "1K", ",", "LENGTH", "=", "2", "*", "8", "}">>

(* Other statements, alone.                                                *)
Operators == {"||", "&&", "<", "==", "|", "^", "&", "<<", ">>", "+", "-", "*", "/", "%"}
Others == {
    <<"p", "=", "1", o1, "2", o2, "4", ";">> : o1 \in Operators, o2 \in Operators}
    \cup {<<"p", "=", "1", "?", "2", o1, "-", "4", ":", "8", o2, "k", ";", "q", "=", "~", "1", o1, "0", ";">> :
            o1 \in {"<", "&", "*"}, o2 \in {"?", "|", "+"}}
    \cup {
      <<"SECTIONS", "{", "/DISCARD/", ":", "{", "*", "(", ".comment", ")", "}",
        ".mine", ":", "{", "KEEP", "(", "b.o", "(", ".m\\ine", ")", ")", "x", "=", ".", ";", "}", "}">>,
      <<"SECTIONS", "{", "/DISCARD/", ":", "{", "x", "=", "1", ";", "}", "}">>,
      <<"SECTIONS", "{", ".text", ":", "{", "*", "(", "*", ")", "}", "}">>,
      <<"SECTIONS", "{", ".data", ":", "{", "*", "(", ".data", ")", "}", ".", "=", "64", ";",
        ".text", ":", "{", "x", "=", ".", ";", "*", "(", ".text", ")", "}", "}">>,
      <<"SECTIONS", "{", ".", "=", "SEGMENT_START", "(", "t", ",", "64", ")", ";", "x", "=", ".", ";",
        ".text", ":", "{", "*", "(", ".text", ")", "}", ".", "=", "64", "K", ";", "}">>,
      <<"ENTRY", "(", "f", ")", "OUTPUT_FORMAT", "(", "native", ")", "VERSION", "{", "V", "{", "}", ";", "}",
        "INPUT", "(", "a.o", "AS_NEEDED", "(", "b.o", ")", ")",
        "PHDRS", "{", "t", "LOAD", "FILEHDR", "FLAGS", "(", "4", ")", ";", "}">>,
      <<"OUTPUT_FORMAT", "(", "other", ",", "other", ",", "native", ")">>,
      <<"PROVIDE", "(", "x", "=", "d", "+", "1", ")", ";", "ASSERT", "(", "DEFINED", "(", "x", ")", ",", "m", ")",
        "y", "=", "MAX", "(", "x", ",", "ADDR", "(", ".data", ")", ")", "-", "SIZEOF_HEADERS", ";",
        ".", "=", "SEGMENT_START", "(", "t", ",", "8", ")", ";">>,
      <<"ASSERT", "(", "v2", "==", "k", ",", "m", ")">>,
      <<"ASSERT", "(", "ORIGIN", "(", "rom", ")", ",", "m", ")">>,
      Memory \o Memory}
    \cup {<<"r", "=", "8", ";", "r", o, "2", ";">> :
            o \in {"+=", "-=", "*=", "/=", "<<=", ">>=", "&=", "|=", "^="}}
    \cup {<<"SECTIONS", "{", ".text", ":", "{", "*", "(", ".text", ")", "}", "ASSERT", "(", "1", ",", "m", ")",
            ";", "}">>,
          <<"ENTRY", "(", "f", ")", ";">>}

(* Where symbols stand that locations are computed from: before the first  *)
(* section, at a location, at the end of a section, with or without parts  *)
(* that follow it, in one, and outside SECTIONS, where sections are asked  *)
(* about; and where they are used.                                         *)
TextSection(inner) == <<".text", ":", "{", "*", "(", ".text", ")">> \o inner \o <<"}">>
Uses == {<<>>, <<".", "=", "u", "+", "16", ";">>}
Defines(e) == <<"u", "=">> \o e \o <<";">>
Asked == {<<"SIZEOF", "(", ".text", ")">>, <<"ADDR", "(", ".data", ")", "+", "64">>,
          <<"SIZEOF", "(", ".bss", ")">>, <<"64">>, <<"g", "+", "16">>}
DotAt(i, n) == IF i = n THEN Defines(<<".">>) ELSE <<>>
PlacesOfUses ==
    {Defines(e) \o <<"SECTIONS", "{">> \o first \o TextSection(inner)
        \o second \o <<".data", ":", "{", "*", "(", ".data", ")", "}">> \o third
        \o <<".bss", ":", "{", "*", "(", ".bss", ")", "}", "}">> :
        e \in Asked, first \in Uses, second \in Uses, third \in Uses,
        inner \in {<<>>, <<".", "=", ".", "+", "4", ";", "*", "(", ".text.*", ")">>}}
    \cup {
      <<"SECTIONS", "{", ".", "=", "64", ";">> \o DotAt(1, n) \o TextSection(DotAt(2, n)) \o DotAt(3, n) \o <<".", "=", "u", "+", "64", ";">>
        \o DotAt(4, n) \o <<".data", ":", "{", "*", "(", ".data", ")", "}", ".", "=", "u", "+", "1K", ";", ".bss", ":", "{",
            "*", "(", ".bss", ")", "}", "}">> :
        n \in 1 .. 4}

(* Back to a lower address: without data in the file, with an address.     *)
Backwards == {
    <<"SECTIONS", "{">> \o TextSection(<<>>) \o <<".", "=", "16", ";", name, ":", "{", "*", "(", name, ")", "}", "}">> :
        name \in {".bss", ".mine"}}
    \cup {<<"SECTIONS", "{">> \o TextSection(<<>>)
            \o <<".mine", "16", ":", "{", "*", "(", ".mine", ")", "x", "=", ".", ";", "*", "(", ".data", ")", "}", "}">>,
          <<"SECTIONS", "{", ".", "=", "64", ";", "u", "=", ".", ";", ".", "=", "u", ";">>
            \o TextSection(<<>>) \o <<"}">>}

Read(tokens) == [tokens |-> tokens, parsed |-> ParseCommands(tokens)]
(* Scripts whose symbols go to the symbol tables.                          *)
Forwarded == {<<>>, <<Read(<<"x", "=", "4", ";", "PROVIDE_HIDDEN", "(", "y", "=", "k", ")", ";">>)>>}

MCScripts ==
    {<<Read(Memory), Read(Body(a, i, b, n, d))>> :
        a \in Texts, i \in Inners, b \in Texts, n \in Between, d \in Data}
    \cup {<<Read(o)>> : o \in Others \cup PlacesOfUses \cup Backwards} \cup {<<Read(Memory), Read(Memory)>>} \cup Forwarded
MCDefSyms == <<[name |-> "v2", expr |-> ParseTernary(<<"k", "*", "2">>).what]>>
(***************************************************************************)
(* Symbol tables.                                                          *)
(***************************************************************************)
SymbolNames == {"fa", "fb", "fc", "da", "db", "dc", "wr", "end", "ds", "x", "y"}
MCHashOf ==
    [n \in SymbolNames |->
        CASE n = "fa" -> [gnu |-> 4, sysv |-> 3, rank |-> 5]
          [] n = "fb" -> [gnu |-> 9, sysv |-> 5, rank |-> 4]
          [] n = "fc" -> [gnu |-> 6, sysv |-> 2, rank |-> 6]
          [] n = "da" -> [gnu |-> 5, sysv |-> 1, rank |-> 1]
          [] n = "db" -> [gnu |-> 12, sysv |-> 7, rank |-> 2]
          [] n = "ds" -> [gnu |-> 7, sysv |-> 4, rank |-> 3]
          [] n = "x" -> [gnu |-> 3, sysv |-> 6, rank |-> 8]
          [] OTHER -> [gnu |-> 8, sysv |-> 8, rank |-> 9]]
SymbolSpelling ==
    [n \in SymbolNames \cup {"f*", "?b", "*", "\\fa", "\"fa\"", "\\\\fa", "fb\\"} |->
        CASE n = "fa" -> <<"f", "a">> [] n = "fb" -> <<"f", "b">> [] n = "fc" -> <<"f", "c">>
          [] n = "f*" -> <<"f", "*">> [] n = "?b" -> <<"?", "b">> [] n = "*" -> <<"*">>
          [] n = "\\fa" -> <<"\\", "f", "a">> [] n = "\"fa\"" -> <<"\"", "f", "a", "\"">>
          [] n = "\\\\fa" -> <<"\\", "\\", "f", "a">> [] n = "fb\\" -> <<"f", "b", "\\">>
          [] n = "da" -> <<"d", "a">> [] n = "db" -> <<"d", "b">> [] n = "ds" -> <<"d", "s">>
          [] n = "x" -> <<"x">> [] n = "y" -> <<"y">> [] n = "dc" -> <<"d", "c">> [] n = "wr" -> <<"w">> [] OTHER -> <<"e">>]
MCSpelling == [n \in DOMAIN ScriptSpelling \cup DOMAIN SymbolSpelling |->
                IF n \in DOMAIN ScriptSpelling THEN ScriptSpelling[n] ELSE SymbolSpelling[n]]
MCDemangled == [n \in SymbolNames |-> IF n = "fb" THEN <<"f", "a">> ELSE <<"n">>]

Define(name, def, sec, bind, vis, uses) ==
    [name |-> name, def |-> def, sec |-> sec, bind |-> bind, vis |-> vis, uses |-> uses, version |-> 1, addr |-> 0]
Refer(name, bind, vis, uses) == Define(name, "undef", "live", bind, vis, uses)
Global(name, sec) == Define(name, "section", sec, "global", "default", {})
Shares(name, bind, version, addr) ==
    [Define(name, IF addr = 0 THEN "undef" ELSE "section", "live", bind, "default", {})
        EXCEPT !.version = version, !.addr = addr]
File(kind, group, symbols) ==
    [kind |-> kind, group |-> group, symbols |-> symbols, lib |-> <<>>, versions |-> <<>>]
Library(group, lib, versions, symbols) ==
    [kind |-> "dso", group |-> group, symbols |-> symbols, lib |-> lib, versions |-> versions]

MCPrelude == File("prelude", 1, <<Define(<<"end">>, "internal", "live", "global", "default", {}),
                                  Define(<<"ds">>, "redirect", "live", "global", "default", {})>>)
FirstObject(vis, uses) ==
    File("object", 2, <<Define(<<"l">>, "section", "live", "local", "default", {}),
                        Define(<<"fa">>, "section", "live", "global", vis, {}),
                        Refer(<<"da">>, "global", "default", uses),
                        Refer(<<"wr">>, "weak", "default", {"GOT"})>>)
SecondObject(group, symbol, vis) ==
    File("object", group, <<symbol, Refer(<<"fa">>, "global", vis, {"GOT", "PLT"}),
                            Define(<<"fc">>, "section", "dead", "weak", "default", {}),
                            Refer(<<"dc">>, "global", "default", {"PLT"}),
                            Refer(<<"db">>, "global", "default", {"GOT"})>>)
Libraries == <<Library(3, <<"lib", "1">>, <<<<"V", "1">>, <<"V", "2">>, <<"V3">>>>,
                       <<Shares(<<"da">>, "weak", 3, 1), Shares(<<"fa">>, "global", 1, 2),
                         Shares(<<"fc">>, "global", 2, 0), Shares(<<"dc">>, "global", 2, 3), Shares(<<"y">>, "global", 4, 1)>>),
               Library(3, <<"lib2">>, <<<<"W">>>>, <<Shares(<<"db">>, "global", 2, 1), Shares(<<"wr">>, "global", 1, 0)>>)>>

Versioned == <<"V1", "{", "fa", ";", "local:", "*", ";", "}", ";", "V2", "{", "?b", ";", "}", "V1", ";">>
VersionScripts_ == {<<>>, Versioned,
    <<"{", "fa", ";", "local:", "*", ";", "}", ";">>,
    <<"{", "global:", "\"fa\"", ";", "extern", "C++", "{", "\\fa", ";", "fc", "}", ";", "\\\\fa", ";", "fb\\", ";", "local:", "f*", ";", "}", ";">>}
ExportList == <<"{", "f*", ";", "}", ";">>

MCLink(kind, hash, version, exportList, objects, libraries) ==
    LET shared == kind \in {"shared", "pie", "dynamic"}
        files == <<MCPrelude>> \o objects \o (IF shared THEN libraries ELSE <<>>)
    IN  [kind |-> kind, strip |-> FALSE, gotplt |-> FALSE, hash |-> hash, soname |-> <<>>, rpath |-> <<>>, auxiliary |-> <<>>,
         exportAll |-> FALSE, exportList |-> exportList, version |-> version, present |-> 1,
         files |-> files \o <<File("script", 4, <<>>), File("epilogue", 5, <<>>)>>]
Named(link_) == [link_ EXCEPT !.soname = <<"so">>, !.rpath = <<"r", "p">>, !.auxiliary = <<<<"aux", "1">>, <<"aux2">>>>]

(* Shared objects with every kind of version script, executables with      *)
(* copy relocations, export lists and stripping, and relocatable outputs.  *)
SharedLinks ==
    {Named(MCLink("shared", hash, script, <<>>, <<FirstObject(vis, {"GOT"}), SecondObject(group, symbol, hides)>>, Libraries)) :
        hash \in {"both"}, script \in VersionScripts_, vis \in {"default", "hidden"}, group \in {2, 3},
        symbol \in {Global(<<"fb">>, "dead"), Global(<<"fb", "@", "V1">>, "live"), Global(<<"fb", "@@", "V2">>, "live")},
        hides \in {"default", "hidden"}}
(* Two definitions of a name, one of them weak, and hidden references to   *)
(* it and to a symbol of a shared object.                                  *)
AlternativeObject(group, bind, vis) == File("object", group, <<Define(<<"fa">>, "section", "live", bind, vis, {"GOT"})>>)
HidingObject(group, vis) ==
    File("object", group, <<Refer(<<"fa">>, "global", vis, {"GOT"}), Refer(<<"da">>, "weak", vis, {"GOT"}),
                            Refer(<<"db">>, "global", "default", {"GOT"})>>)
AlternativeLinks ==
    {Named(MCLink("shared", "both", script, <<>>,
                  <<AlternativeObject(2, binds[1], "default"), HidingObject(2, hides), AlternativeObject(3, binds[2], vis)>>,
                  Libraries)) :
        script \in {<<>>, Versioned}, binds \in {<<"weak", "global">>, <<"global", "weak">>},
        hides \in {"default", "hidden"}, vis \in {"default", "hidden"}}
VersionedLinks == {l \in SharedLinks : l.version = Versioned /\ l.files[2].symbols[2].vis = "default"}
Executables ==
    {[MCLink(kind, hash, <<>>, list, <<FirstObject("default", {"COPY"}), SecondObject(2, Global(<<"fb">>, "live"), "default")>>,
             Libraries) EXCEPT !.strip = strip, !.exportAll = all, !.gotplt = ~strip] :
        kind \in {"dynamic", "pie"}, hash \in {"sysv", "gnu"}, list \in {<<>>, ExportList},
        strip \in BOOLEAN, all \in BOOLEAN}
    \cup {MCLink("pie", "gnu", Versioned, <<>>, <<FirstObject("default", {"GOT"})>>, <<>>)}
StaticLinks ==
    {[MCLink(kind, "both", <<>>, <<>>, <<FirstObject("default", {"DIRECT"}), SecondObject(group, Define(<<"fb">>, "common", "live", "global", "default", {}), "default")>>, <<>>)
        EXCEPT !.gotplt = kind = "static"] : kind \in {"static", "staticpie", "partial"}, group \in {2, 3}}
    \cup {MCLink("partial", "gnu", script, <<>>, <<SecondObject(2, Global(<<"fb">>, "live"), "hidden"), FirstObject("default", {})>>, <<>>) :
            script \in VersionScripts_}
MCLinks == SharedLinks \cup AlternativeLinks \cup Executables \cup StaticLinks

Trivial == MCLink("static", "gnu", <<>>, <<>>, <<>>, <<>>)

AllLinks == MCLinks \cup {Trivial}

ScriptSymbols ==
    LET named == SelectSeq(defs, LAMBDA d : d.name # "")
    IN  [i \in DOMAIN named |-> Define(<<named[i].name>>, "redirect", "live", "global",
                                       IF named[i].hidden THEN "hidden" ELSE "default", {})]

MCInit ==
    /\ Init
    /\ link \in CASE scripts = <<>> -> Links
                  [] scripts # <<>> /\ scripts \in Forwarded -> Executables \cup StaticLinks \cup VersionedLinks
                  [] OTHER -> {Trivial}
    /\ SymInit

MCNext ==
    \/ Next /\ UNCHANGED symVars
    \/ /\ UNCHANGED vars
       /\ \/ phase = "done" /\ scripts \in Forwarded /\ SymBegin(ScriptSymbols)
          \/ SymNext

MCSpec == MCInit /\ [][MCNext]_<<vars, symVars>>
=============================================================================
