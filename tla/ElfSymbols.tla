----------------------------- MODULE ElfSymbols -----------------------------
(***************************************************************************)
(* The symbol tables of an ELF output: which definitions are exported,     *)
(* what is reserved for .symtab, .dynsym, their strings, the version       *)
(* sections, .dynamic and the hash tables, and what is written into them.  *)
(* Every group of files writes its own part of each table, in parallel     *)
(* with the others, into space that was measured by other code; exported   *)
(* definitions are written at the end, sorted for the hash table.          *)
(*                                                                         *)
(* A symbol is <<file, index>>.  The first file is the prelude, the last   *)
(* but one the linker script, the last one the epilogue.  A string is a    *)
(* sequence of parts, foo@@V is <<"foo", "@@", "V">>, and takes one unit   *)
(* for each part and one for its end.  Verneed and vernaux records take    *)
(* one unit, verdef records 5 and verdaux records 2.                       *)
(*                                                                         *)
(* Left out: values and sections of symbols, .symtab_shndx, thunk symbols, *)
(* the flags that relocations ask for (a symbol brings its own: uses),     *)
(* names that --strip or --retain-symbols-file drop.  Symbols of a linker  *)
(* script come when its evaluation has ended, an export list is not        *)
(* combined with versioned definitions, and without a GNU hash table the   *)
(* definitions stay in the order in which their files were activated.      *)
(***************************************************************************)
EXTENDS VersionScripts, FiniteSets

CONSTANTS
    Links,          \* the links to try
    HashOf,         \* [name -> [gnu, sysv, rank]]: its hashes and its place in the order of names
    ChunkSize,      \* exported definitions that one task writes
    SectionSymbols, \* section symbols of a relocatable output
    Optional        \* optional entries of .dynamic for which there is space

VARIABLES
    link,       \* [kind, strip, gotplt, hash, soname, rpath, auxiliary, exportAll, exportList,
                \*  version: tokens of the version script, present: entries of .dynamic, files]
    step,       \* the step that comes next
    inputs,     \* [script: the version script, list: the export list,
                \*  definition: [symbol -> the symbol that defines it]]
    flags,      \* [symbol -> flags of its value]
    active,     \* files that were activated
    exports,    \* [group -> exported definitions, in the order of the requests]
    definitions,    \* all of them: sequence of [symbol, name, version, hidden]
    reserved,   \* [group -> [part -> units]]
    verneed,    \* [file -> first version index that it may use]
    indexes,    \* [symbol -> its index in .dynsym, or 0]
    symbolMap,  \* for relocatable outputs: [symbol -> its index in .symtab, or 0]
    written     \* [group -> [part -> what was written]]

symVars == <<link, step, inputs, flags, active, exports, definitions, reserved, verneed, indexes, symbolMap, written>>

(***************************************************************************)
(* Files and symbols.                                                      *)
(***************************************************************************)
Files == link.files
Prelude == 1
Script == Len(Files) - 1
Epilogue == Len(Files)
GroupOf(f) == Files[f].group
Groups == 1 .. Files[Epilogue].group
FilesOf(g) == SelectSeq([f \in DOMAIN Files |-> f], LAMBDA f : GroupOf(f) = g)

Symbols == UNION {{<<f, i>> : i \in DOMAIN Files[f].symbols} : f \in DOMAIN Files}
SymbolsOf(f) == [i \in DOMAIN Files[f].symbols |-> <<f, i>>]
Sym(s) == Files[s[1]].symbols[s[2]]
Kind(s) == Files[s[1]].kind
Before(s, t) == s[1] < t[1] \/ (s[1] = t[1] /\ s[2] < t[2])
Undefined(s) == Sym(s).def = "undef"

(* foo@V and foo@@V: the name, the version and whether it is the default.  *)
BaseName(name) == name[1]
VersionName(name) == IF Len(name) = 3 THEN name[3] ELSE "none"
IsDefaultVersion(name) == Len(name) = 1 \/ name[2] = "@@"

NeedsDynsym == link.kind \in {"shared", "pie", "dynamic", "staticpie"}
NeedsDynamic == link.kind \notin {"static", "partial"}
OutputsVersions == link.kind \in {"shared", "pie", "dynamic"}
IsPartial == link.kind = "partial"
StripAll == link.strip /\ ~IsPartial

(* The definition a name is resolved to; without one, the last reference   *)
(* that has none.  Only references of default visibility see the           *)
(* definitions of shared objects.                                          *)
Strength(s) ==
    CASE Kind(s) = "dso" -> 4
      [] Kind(s) # "dso" /\ Sym(s).bind = "weak" -> 3
      [] Kind(s) # "dso" /\ Sym(s).bind # "weak" /\ Sym(s).def = "common" -> 2
      [] OTHER -> 1
Answers(d, name) ==
    /\ ~Undefined(d) /\ Sym(d).bind # "local"
    /\ \/ Sym(d).name = name
       \/ Len(name) = 1 /\ BaseName(Sym(d).name) = name[1] /\ IsDefaultVersion(Sym(d).name)
AllowDynamic(s) == ~Undefined(s) \/ Sym(s).vis = "default"
Candidates(s) == {d \in Symbols : Answers(d, Sym(s).name) /\ (Kind(d) = "dso" => AllowDynamic(s))}
Resolve(s) ==
    LET named == Candidates(s)
        refs == {u \in Symbols : Undefined(u) /\ Sym(u).name = Sym(s).name /\ Candidates(u) = {}}
        better(d, e) == Strength(d) < Strength(e) \/ (Strength(d) = Strength(e) /\ Before(d, e))
    IN  CASE Sym(s).bind = "local" -> s
          [] Sym(s).bind # "local" /\ named # {} ->
                CHOOSE d \in named : \A e \in named \ {d} : better(d, e)
          [] Sym(s).bind # "local" /\ named = {} /\ refs # {} ->
                CHOOSE u \in refs : \A v \in refs \ {u} : Before(v, u)
          [] OTHER -> s
Definition(s) == inputs.definition[s]
IsCanonical(s) == Definition(s) = s

Resolving == {"DIRECT", "GOT", "PLT", "EXPORT", "COPY"}
HasResolution(s) == flags[s] \cap Resolving # {}
Add(s, new) == [flags EXCEPT ![s] = @ \cup new]
(***************************************************************************)
(* Flags that symbols start with, and the visibility of names.             *)
(***************************************************************************)
VersionScript == inputs.script

ShouldDowngradeToLocal(name) ==
    VersionScript.form = "rust" \/ IsLocal(VersionScript, BaseName(name))

InternalFlags(s) == IF Sym(s).vis = "hidden" THEN {"LOCAL"} ELSE {}
ComputeValueFlags(s) ==
    CASE Kind(s) = "dso" -> IF Undefined(s) THEN {"DYNAMIC", "ABSOLUTE"} ELSE {"DYNAMIC"}
      [] Kind(s) = "object" /\ Undefined(s) -> {"ABSOLUTE"}
      [] Kind(s) = "object" /\ ~Undefined(s) ->
            IF Sym(s).bind # "local" /\ ShouldDowngradeToLocal(Sym(s).name) THEN {"LOCAL"} ELSE {}
      [] OTHER -> InternalFlags(s)

SymInit ==
    /\ link \in Links
    /\ step = "waiting"
    /\ inputs = [script |-> NoScript, list |-> <<>>, definition |-> <<>>]
    /\ flags = <<>> /\ active = {} /\ exports = <<>> /\ definitions = <<>>
    /\ reserved = <<>> /\ verneed = <<>> /\ indexes = <<>> /\ symbolMap = <<>> /\ written = <<>>

(* The linker script brings its symbols.                                   *)
SymBegin(symbols) ==
    /\ step = "waiting"
    /\ link' = [link EXCEPT !.files[Script].symbols = symbols]
    /\ step' = "read"
    /\ UNCHANGED <<inputs, flags, active, exports, definitions, reserved, verneed, indexes, symbolMap, written>>

ReadInputs ==
    /\ step = "read"
    /\ inputs' = [script |-> IF link.version = <<>> THEN NoScript ELSE ParseVersionScript(link.version).what,
                  list |-> IF link.exportList = <<>> THEN <<>> ELSE ParseExportList(link.exportList).what,
                  definition |-> [s \in Symbols |-> Resolve(s)]]
    /\ step' = "load"
    /\ UNCHANGED <<link, flags, active, exports, definitions, reserved, verneed, indexes, symbolMap, written>>

Parts == {"symtabLocal", "symtabGlobal", "strtab", "dynsym", "dynstr", "dynamic",
          "versym", "versionR", "versionD", "gnuHash", "sysvHash"}

LoadSymbols ==
    /\ step = "load"
    /\ flags' = [s \in Symbols |-> ComputeValueFlags(s)]
    /\ exports' = [g \in Groups |-> <<>>]
    /\ reserved' = [g \in Groups |-> [p \in Parts |-> 0]]
    /\ step' = "visibility"
    /\ UNCHANGED <<link, inputs, active, definitions, verneed, indexes, symbolMap, written>>

(* When a name has several definitions and one of them is hidden, all but  *)
(* those of shared objects are made local, the selected one among them.    *)
SameName(d, e) ==
    \E name \in {Sym(d).name, Sym(e).name, <<BaseName(Sym(d).name)>>} : Answers(d, name) /\ Answers(e, name)
HiddenByAlternative(d) ==
    LET others == {e \in Symbols : e # d /\ ~Undefined(d) /\ SameName(d, e)}
    IN  /\ others # {} /\ "DYNAMIC" \notin flags[d]
        /\ \E e \in others \cup {d} : Kind(e) = "object" /\ Sym(e).vis = "hidden"

(* A hidden reference marks the definition that its name has when it is    *)
(* resolved: the first one, before any of them is selected, or the         *)
(* selected one when the first is in a shared object.                      *)
HidesByReference(e) ==
    LET named == {d \in Symbols : Answers(d, Sym(e).name)}
        first == CHOOSE d \in named : \A o \in named \ {d} : Before(d, o)
    IN  CASE named = {} -> {}
          [] named # {} /\ Kind(first) # "dso" -> {first}
          [] named # {} /\ Kind(first) = "dso" /\ ~Undefined(Definition(e)) -> {Definition(e)}
          [] OTHER -> IF Len(Sym(e).name) = 1 THEN {Definition(first)} ELSE {}
HiddenReferences == {e \in Symbols : /\ Kind(e) = "object" /\ Undefined(e)
                                     /\ Sym(e).vis = "hidden" /\ Sym(e).bind # "local"}
HiddenByReference(d) == \E e \in HiddenReferences : d \in HidesByReference(e)

(* A reference that nothing defines may be left to the dynamic linker.     *)
BecomesDynamic(s) ==
    /\ Kind(s) = "object" /\ Undefined(s) /\ IsCanonical(s) /\ Len(Sym(s).name) = 1
    /\ Sym(s).vis = "default"
    /\ link.kind = "shared" \/ (link.kind \notin {"static", "staticpie"} /\ Sym(s).bind = "weak")

ApplyVisibility ==
    /\ step = "visibility"
    /\ flags' = [s \in Symbols |->
                    flags[s] \cup (IF HiddenByAlternative(s) \/ HiddenByReference(s) THEN {"LOCAL"} ELSE {})
                             \cup (IF BecomesDynamic(s) THEN {"DYNAMIC"} ELSE {})]
    /\ step' = "rust"
    /\ UNCHANGED <<link, inputs, active, exports, definitions, reserved, verneed, indexes, symbolMap, written>>

(* The special form of version scripts: its globals are made global again. *)
MadeGlobal(s) ==
    /\ VersionScript.form = "rust"
    /\ \E u \in Symbols : /\ Definition(u) = s /\ ~Undefined(u) /\ Sym(u).bind # "local"
                         /\ IsDefaultVersion(Sym(u).name)
                         /\ Chars(BaseName(Sym(u).name)) \in VersionScript.global

HandleRustVersionScript ==
    /\ step = "rust"
    /\ flags' = [s \in Symbols |-> flags[s] \ (IF MadeGlobal(s) THEN {"LOCAL"} ELSE {})]
    /\ step' = "activate"
    /\ UNCHANGED <<link, inputs, active, exports, definitions, reserved, verneed, indexes, symbolMap, written>>

(***************************************************************************)
(* Files are activated, those of a group in order: what is exported.       *)
(***************************************************************************)
ExportSymbolsMode ==
    CASE link.kind = "shared" \/ (NeedsDynsym /\ link.exportAll) -> "all"
      [] link.kind # "shared" /\ NeedsDynsym /\ ~link.exportAll /\ link.exportList # <<>> -> "selected"
      [] OTHER -> "none"

CanExport(s, mode, fl) ==
    /\ ~Undefined(s) /\ Sym(s).bind # "local" /\ Sym(s).sec # "discard"
    /\ Sym(s).vis # "hidden" /\ IsCanonical(s) /\ "LOCAL" \notin fl[s]
    /\ mode = "selected" =>
            /\ Len(Sym(s).name) = 1
            /\ ExportListContains(inputs.list, BaseName(Sym(s).name))

(* Exports the symbols of a sequence: <<flags, exports>>.                  *)
ExportAll(seq, mode, start) ==
    FoldLeft(LAMBDA st, s :
                IF ~CanExport(s, mode, st[1]) THEN st
                ELSE << [st[1] EXCEPT ![s] = @ \cup {"EXPORT"}],
                        IF "EXPORT" \in st[1][s] THEN st[2]
                        ELSE [st[2] EXCEPT ![GroupOf(s[1])] = Append(@, s)] >>,
             start, seq)

(* The flags that the relocations of a file ask for.                       *)
WithUses(f) ==
    [s \in Symbols |-> flags[s] \cup
        (IF IsPartial THEN {}
         ELSE UNION {Sym(u).uses : u \in {v \in Symbols : v[1] = f /\ Definition(v) = s}})]

ActivateFile(f) ==
    LET own == SymbolsOf(f)
        canonical == SelectSeq(own, IsCanonical)
        (* what a shared object refers to or also defines *)
        foreign == SelectSeq([i \in DOMAIN own |-> Definition(own[i])],
                             LAMBDA d : Kind(d) = "object")
        named == SelectSeq(canonical, LAMBDA s : Sym(s).vis # "hidden")
    IN  CASE Files[f].kind = "object" ->
                ExportAll(IF ExportSymbolsMode = "none" THEN <<>> ELSE own,
                          ExportSymbolsMode, <<WithUses(f), exports>>)
          [] Files[f].kind = "dso" -> ExportAll(foreign, "all", <<flags, exports>>)
          [] Files[f].kind = "prelude" ->
                << [s \in Symbols |-> flags[s] \cup
                        (IF s[1] = f /\ IsCanonical(s) /\ Sym(s).def = "redirect" THEN {"DIRECT"} ELSE {})],
                   exports >>
          [] Files[f].kind = "script" ->
                << [s \in Symbols |-> flags[s] \cup (IF Contains(named, s) THEN {"DIRECT", "EXPORT"} ELSE {})],
                   IF NeedsDynsym THEN [exports EXCEPT ![GroupOf(f)] = @ \o named] ELSE exports >>
          [] OTHER -> <<flags, exports>>

StrSize(name) == Len(name) + 1
Units(r) == [p \in Parts |-> IF p \in DOMAIN r THEN r[p] ELSE 0]
Plus(a, b) == [p \in Parts |-> a[p] + b[p]]
One(b) == IF b THEN 1 ELSE 0

ActivationSizes(f) ==
    CASE Files[f].kind = "prelude" ->
            Units([symtabLocal |-> One(~StripAll), strtab |-> One(~StripAll),
                   dynsym |-> One(NeedsDynsym), dynstr |-> One(NeedsDynsym)])
      [] Files[f].kind = "dso" -> Units([dynamic |-> 1, dynstr |-> StrSize(Files[f].lib)])
      [] OTHER -> Units(<<>>)

Activate(f) ==
    /\ step = "activate" /\ f \notin active
    /\ \A e \in DOMAIN Files : GroupOf(e) = GroupOf(f) /\ e < f => e \in active
    /\ active' = active \cup {f}
    /\ flags' = ActivateFile(f)[1]
    /\ exports' = ActivateFile(f)[2]
    /\ reserved' = [reserved EXCEPT ![GroupOf(f)] = Plus(@, ActivationSizes(f))]
    /\ UNCHANGED <<link, inputs, step, definitions, verneed, indexes, symbolMap, written>>

(* Every symbol of a shared object at an address that is copied.           *)
CopiedAddress(s) ==
    /\ Kind(s) = "dso" /\ IsCanonical(s) /\ ~Undefined(s)
    /\ \E t \in Symbols : t[1] = s[1] /\ "COPY" \in flags[t] /\ Sym(t).addr = Sym(s).addr

FinaliseCopyRelocations ==
    /\ step = "activate" /\ active = DOMAIN Files
    /\ flags' = [s \in Symbols |-> flags[s] \cup (IF CopiedAddress(s) THEN {"COPY"} ELSE {})]
    /\ exports' = [g \in Groups |-> exports[g] \o
                     FoldLeft(LAMBDA seq, f : seq \o SelectSeq(SymbolsOf(f), CopiedAddress), <<>>, FilesOf(g))]
    /\ step' = "merge"
    /\ UNCHANGED <<link, inputs, active, definitions, reserved, verneed, indexes, symbolMap, written>>
(***************************************************************************)
(* The definitions of all groups, sorted by bucket when there is a GNU     *)
(* hash table.  The sort is not stable and names with several versions are *)
(* equal to it.                                                            *)
(***************************************************************************)
CreateDefinition(s) ==
    LET name == Sym(s).name
        version == IF VersionCount(VersionScript) > 0 \/ VersionName(name) # "none"
                   THEN VersionForSymbol(VersionScript, BaseName(name), VersionName(name)) ELSE 1
    IN  [symbol |-> s, name |-> BaseName(name), version |-> version,
         hidden |-> version # 1 /\ ~IsDefaultVersion(name)]

NextPowerOfTwo(n) == CHOOSE p \in {1, 2, 4, 8, 16} : p >= n /\ \A q \in {1, 2, 4, 8, 16} : q >= n => p <= q
GnuBuckets(defs) == NextPowerOfTwo(Len(defs) \div 2)
HasGnuHash == link.hash \in {"gnu", "both"} /\ NeedsDynamic

MergedDefinitions ==
    LET ofGroups == FoldLeft(LAMBDA seq, g : seq \o exports[g], <<>>, [g \in Groups |-> g])
        defsyms == SelectSeq(SymbolsOf(Prelude), LAMBDA s :
                        NeedsDynsym /\ Sym(s).def = "redirect" /\ IsCanonical(s) /\ ~Contains(ofGroups, s))
        all == ofGroups \o defsyms
    IN  [i \in DOMAIN all |-> CreateDefinition(all[i])]

(* Mutant: definitions stay in the order of the groups.                    *)
SortedByGroup(defs) == {defs}

(* The orders that the sort may leave the definitions in: each definition  *)
(* goes between the smaller and the larger ones, anywhere among its equals. *)
Places(order, d, buckets) ==
    LET key(e) == (HashOf[e.name].gnu % buckets) * 100 + HashOf[e.name].rank
        own == key(d)
        smaller == Cardinality({i \in DOMAIN order : key(order[i]) < own})
        larger == Cardinality({i \in DOMAIN order : key(order[i]) > own})
    IN  {InsertAt(order, p, d) : p \in smaller + 1 .. Len(order) - larger + 1}

Sorted(defs) ==
    IF ~HasGnuHash THEN {defs}
    ELSE FoldLeft(LAMBDA orders, d : UNION {Places(o, d, GnuBuckets(defs)) : o \in orders}, {<<>>}, defs)

MergeDefinitions ==
    /\ step = "merge"
    /\ IF \E i \in DOMAIN MergedDefinitions : MergedDefinitions[i].version = 0
       THEN step' = "failed" /\ UNCHANGED definitions
       ELSE step' = "sizes" /\ definitions' \in Sorted(MergedDefinitions)
    /\ UNCHANGED <<link, inputs, flags, active, exports, reserved, verneed, indexes, symbolMap, written>>

(***************************************************************************)
(* Sizes of the tables.                                                    *)
(***************************************************************************)
Own(f) == {s \in Symbols : s[1] = f}
SumOf(S, size(_)) == MapThenSumSet(size, S)
FullSize(s) == StrSize(Sym(s).name)
BaseSize(s) == StrSize(<<BaseName(Sym(s).name)>>)

(* Symbols of an object that go to .symtab.                                *)
SymbolCopied(s) ==
    /\ IsCanonical(s) /\ ~Undefined(s)
    /\ Sym(s).sec = "live" \/ (Sym(s).sec = "dead" /\ HasResolution(s))
    /\ Sym(s).def = "common" => HasResolution(s)
IsSymtabLocal(s) == Sym(s).bind = "local" \/ "LOCAL" \in flags[s]
UndefinedCopied(s) == IsPartial /\ Undefined(s) /\ IsCanonical(s)

(* Mutant: the space is measured by the binding of the symbol alone.       *)
ObjectSymtabSizesByBinding(f) ==
    LET kept == IF StripAll THEN {} ELSE {s \in Own(f) : SymbolCopied(s)}
        locals == {s \in kept : Sym(s).bind = "local"}
        undefined == {s \in Own(f) : UndefinedCopied(s)}
    IN  Units([symtabLocal |-> Cardinality(locals),
               symtabGlobal |-> Cardinality(kept \ locals) + Cardinality(undefined),
               strtab |-> SumOf(kept \cup undefined, FullSize)])

ObjectSymtabSizes(f) ==
    LET kept == IF StripAll THEN {} ELSE {s \in Own(f) : SymbolCopied(s)}
        locals == {s \in kept : IsSymtabLocal(s)}
        undefined == {s \in Own(f) : UndefinedCopied(s)}
    IN  Units([symtabLocal |-> Cardinality(locals),
               symtabGlobal |-> Cardinality(kept \ locals) + Cardinality(undefined),
               strtab |-> SumOf(kept \cup undefined, FullSize)])

(* Entries of dynamic symbols, and of $got and $plt symbols.               *)
SymbolSizes(f) ==
    LET own == {s \in Own(f) : IsCanonical(s)}
        dynamic == {s \in own : "DYNAMIC" \in flags[s] /\ HasResolution(s)}
        copies == {s \in dynamic : "COPY" \in flags[s]}
        got == IF link.gotplt THEN {s \in own : "GOT" \in flags[s]} ELSE {}
        plt == {s \in got : "PLT" \in flags[s]}
        suffixed(s) == BaseSize(s) + 1
    IN  Units([symtabGlobal |-> Cardinality(copies),
               symtabLocal |-> Cardinality(got) + Cardinality(plt),
               strtab |-> SumOf(copies, BaseSize) + SumOf(got, suffixed) + SumOf(plt, suffixed),
               dynstr |-> SumOf(dynamic \ copies, BaseSize),
               dynsym |-> Cardinality(dynamic \ copies)])

(* The versions of a shared object that a relocation asked for.            *)
DynamicSymbolUsed(s) ==
    ~IsPartial /\ \E u \in Symbols : Kind(u) = "object" /\ Definition(u) = s /\ Sym(u).uses # {}
VersionsNeeded(f) ==
    {v \in 2 .. Len(Files[f].versions) + 1 : \E s \in Own(f) : DynamicSymbolUsed(s) /\ Sym(s).version = v}

DynamicSizes(f) ==
    LET needed == VersionsNeeded(f)
    IN  IF needed = {} THEN Units(<<>>)
        ELSE Units([dynstr |-> SumOf(needed, LAMBDA v : StrSize(Files[f].versions[v - 1]))
                               + StrSize(Files[f].lib),
                    versionR |-> 1 + Cardinality(needed)])

(* Symbols of the linker script that have a value; strip does not matter.  *)
InternalSizes(S) ==
    Units([symtabLocal |-> Cardinality({s \in S : Sym(s).vis = "hidden"}),
           symtabGlobal |-> Cardinality({s \in S : Sym(s).vis # "hidden"}),
           strtab |-> SumOf(S, FullSize)])
ScriptSizes(f) == InternalSizes({s \in Own(f) : IsCanonical(s) /\ HasResolution(s)})

DynamicEpilogueSizes ==
    LET extra == SelectSeq(<<link.rpath, link.soname>>, LAMBDA name : name # <<>>) \o link.auxiliary
    IN  IF ~NeedsDynamic THEN Units(<<>>)
        ELSE Units([dynamic |-> Optional + Len(extra),
                    dynstr |-> SumOf(DOMAIN extra, LAMBDA i : StrSize(extra[i]))
                               + SumOf(DOMAIN definitions, LAMBDA i : StrSize(<<definitions[i].name>>)),
                    dynsym |-> Len(definitions)])

FileName == <<"a", ".", "so">>
VerdefSizes ==
    LET count == VersionCount(VersionScript)
        named == 2 .. Len(VersionScript.versions)
    IN  IF count = 0 THEN Units(<<>>)
        ELSE Units([dynstr |-> (IF link.soname = <<>> THEN StrSize(FileName) ELSE 0)
                               + SumOf(named, LAMBDA i : StrSize(<<VersionScript.versions[i].name>>)),
                    versionD |-> 5 * count + 2 * (count + ParentCount(VersionScript))])

EpilogueSizes ==
    Plus(Plus(DynamicEpilogueSizes, VerdefSizes),
         Units([gnuHash |-> IF HasGnuHash THEN GnuBuckets(definitions) + Len(definitions) ELSE 0]))

FileSizes(f) ==
    CASE Files[f].kind = "object" -> Plus(ObjectSymtabSizes(f), SymbolSizes(f))
      [] Files[f].kind = "dso" -> Plus(DynamicSizes(f), SymbolSizes(f))
      [] Files[f].kind = "prelude" -> SymbolSizes(f)
      [] Files[f].kind = "script" -> Plus(ScriptSizes(f), SymbolSizes(f))
      [] OTHER -> EpilogueSizes

(* The size of .gnu.version is set from that of .dynsym.                   *)
WithVersions(sizes) == [sizes EXCEPT !.versym = IF OutputsVersions THEN sizes.dynsym ELSE 0]

FinaliseSizes ==
    /\ step = "sizes"
    /\ reserved' = [g \in Groups |->
                      WithVersions(FoldLeft(LAMBDA sum, f : Plus(sum, FileSizes(f)), reserved[g], FilesOf(g)))]
    /\ flags' = [s \in Symbols |-> flags[s] \cup
                    (IF Kind(s) = "object" /\ ~StripAll /\ SymbolCopied(s) THEN {"DIRECT"} ELSE {})]
    /\ step' = "indexes"
    /\ UNCHANGED <<link, inputs, active, exports, definitions, verneed, indexes, symbolMap, written>>

(***************************************************************************)
(* Late sizes, version indexes and the places of symbols in the tables.    *)
(***************************************************************************)
HasVersions == VersionCount(VersionScript) > 0 \/ \E f \in DOMAIN Files : Files[f].kind = "dso" /\ VersionsNeeded(f) # {}

(* Internal symbols are kept when something refers to them or the section  *)
(* they are in is written.                                                 *)
KeptInternal(s) ==
    /\ s[1] = Prelude /\ IsCanonical(s) /\ ~StripAll
    /\ HasResolution(s) \/ (Sym(s).def = "internal" /\ Sym(s).sec = "live")

PreludeLateSizes ==
    Plus(InternalSizes({s \in Own(Prelude) : KeptInternal(s)}),
         Units([symtabLocal |-> IF IsPartial THEN SectionSymbols ELSE 0]))

Total(part) == SumOf(Groups, LAMBDA g : reserved[g][part])
SysvBuckets == NextPowerOfTwo(Max({1, Len(definitions) \div 2}))
HasSysvHash == link.hash \in {"sysv", "both"} /\ definitions # <<>>
SysvHashSize == IF HasSysvHash THEN 2 + SysvBuckets + Total("dynsym") ELSE 0

LateSizes(g) ==
    LET sized == [reserved[g] EXCEPT !.versym = IF OutputsVersions /\ ~HasVersions THEN 0 ELSE @]
    IN  CASE g = GroupOf(Prelude) -> Plus(sized, PreludeLateSizes)
          [] g = GroupOf(Epilogue) /\ g # GroupOf(Prelude) -> Plus(sized, Units([sysvHash |-> SysvHashSize]))
          [] OTHER -> sized

(* Mutant: one version for each shared object.                             *)
FirstVersionByFile(f) ==
    1 + Max({1, VersionCount(VersionScript)})
      + Cardinality({e \in DOMAIN Files : e < f /\ Files[e].kind = "dso" /\ VersionsNeeded(e) # {}})

(* Shared objects get their version indexes one after the other.           *)
FirstVersion(f) ==
    1 + Max({1, VersionCount(VersionScript)})
      + SumOf({e \in DOMAIN Files : e < f /\ Files[e].kind = "dso"}, LAMBDA e : Cardinality(VersionsNeeded(e)))

AdjustSizes ==
    /\ step = "indexes"
    /\ reserved' = [g \in Groups |-> LateSizes(g)]
    /\ flags' = [s \in Symbols |-> flags[s] \cup (IF KeptInternal(s) THEN {"DIRECT"} ELSE {})]
    /\ verneed' = [f \in DOMAIN Files |-> FirstVersion(f)]
    /\ step' = "layout"
    /\ UNCHANGED <<link, inputs, active, exports, definitions, indexes, symbolMap, written>>

Start(g, part) == SumOf({h \in Groups : h < g}, LAMBDA h : reserved[h][part])

(* Entries of .dynsym that a file's symbols take while it is laid out.     *)
TakesDynsym(s) ==
    /\ HasResolution(s) /\ "COPY" \notin flags[s]
    /\ Kind(s) = "dso" \/ (Kind(s) = "object" /\ IsCanonical(s) /\ "DYNAMIC" \in flags[s])
Earlier(s) == {t \in Symbols : GroupOf(t[1]) = GroupOf(s[1]) /\ Before(t, s) /\ TakesDynsym(t)}
DynsymStart == Start(GroupOf(Epilogue), "dynsym")

DynsymIndex(s) ==
    LET exported == {i \in DOMAIN definitions : definitions[i].symbol = s}
    IN  CASE exported # {} -> DynsymStart + Max(exported) - 1
          [] exported = {} /\ TakesDynsym(s) -> Start(GroupOf(s[1]), "dynsym") + Cardinality(Earlier(s))
          [] OTHER -> 0

(* For relocations of a relocatable output: where symbols are in .symtab.  *)
(* The undefined symbols of a file come after its other ones.              *)
SymIndexMap(s) ==
    LET same == {t \in Symbols : Kind(t) = "object" /\ GroupOf(t[1]) = GroupOf(s[1])}
        locals == {t \in same : SymbolCopied(t) /\ IsSymtabLocal(t)}
        globals == {t \in same : UndefinedCopied(t) \/ (SymbolCopied(t) /\ ~IsSymtabLocal(t))}
        precedes(t) == t[1] < s[1] \/ (t[1] = s[1] /\ IF Undefined(t) = Undefined(s) THEN t[2] < s[2]
                                                      ELSE Undefined(s))
    IN  CASE s \in locals -> Start(GroupOf(s[1]), "symtabLocal")
                             + Cardinality({t \in locals : Before(t, s)})
          [] s \in globals -> Total("symtabLocal") + Start(GroupOf(s[1]), "symtabGlobal")
                              + Cardinality({t \in globals : precedes(t)})
          [] OTHER -> 0

EmptyTables == [p \in Parts |-> <<>>]

FinaliseLayout ==
    /\ step = "layout"
    /\ indexes' = [s \in Symbols |-> DynsymIndex(s)]
    /\ symbolMap' = [s \in Symbols |-> IF IsPartial /\ Kind(s) = "object" THEN SymIndexMap(s) ELSE 0]
    /\ written' = [g \in Groups |-> EmptyTables]
    /\ step' = "write" /\ active' = {}
    /\ UNCHANGED <<link, inputs, flags, exports, definitions, reserved, verneed>>
(***************************************************************************)
(* Writing.  Groups are written in parallel, the files of one in order; a  *)
(* group reads nothing that another one writes, and the model takes them   *)
(* one after the other.                                                    *)
(* An entry is [symbol, name]: the name is an offset in the strings, for   *)
(* which the group starts at the place that was reserved for it.           *)
(***************************************************************************)
NoSymbol == <<0, 0>>
StringsSize(seq) == SumOf(DOMAIN seq, LAMBDA i : StrSize(seq[i]))
Offset(w, g, table) == Start(g, table) + StringsSize(w[table])
WriteStr(w, table, string) == [w EXCEPT ![table] = Append(@, string)]
Put(w, part, item) == [w EXCEPT ![part] = Append(@, item)]
PutIf(w, condition, part, item) == IF condition THEN Put(w, part, item) ELSE w

DefineSymbol(w, g, part, s, name) ==
    LET table == IF part = "dynsym" THEN "dynstr" ELSE "strtab"
    IN  WriteStr(Put(w, part, [symbol |-> s, name |-> Offset(w, g, table)]), table, name)
DefineDynamic(w, g, s, name) == DefineSymbol(w, g, "dynsym", s, <<name>>)

GnuVersionEnabled == Total("versym") > 0
SetNextVersion(w, version) ==
    PutIf(w, GnuVersionEnabled, "versym", [index |-> version, hidden |-> FALSE])

WriteInternalSymbols(w, g, f) ==
    FoldLeft(LAMBDA x, s :
                IF ~IsCanonical(s) \/ ~HasResolution(s) THEN x
                ELSE DefineSymbol(x, g, IF Sym(s).vis = "hidden" THEN "symtabLocal" ELSE "symtabGlobal",
                                  s, Sym(s).name),
             w, SymbolsOf(f))

WriteSectionSymbols(w) ==
    [w EXCEPT !.symtabLocal = @ \o [i \in 1 .. SectionSymbols |-> [symbol |-> NoSymbol, name |-> 0]]]

WritePrelude(w, g) ==
    LET null == DefineSymbol(w, g, "symtabLocal", NoSymbol, <<>>)
        table == IF StripAll THEN w
                 ELSE WriteInternalSymbols(IF IsPartial THEN WriteSectionSymbols(null) ELSE null, g, Prelude)
        versioned == SetNextVersion(table, 1)
    IN  IF NeedsDynsym THEN DefineSymbol(versioned, g, "dynsym", NoSymbol, <<>>) ELSE versioned

(* name$got and name$plt.                                                  *)
WriteGotPltSyms(w, g, s) ==
    LET got == DefineSymbol(w, g, "symtabLocal", s, Sym(s).name \o <<"$got">>)
    IN  CASE ~link.gotplt \/ ~IsCanonical(s) \/ "GOT" \notin flags[s] -> w
          [] link.gotplt /\ IsCanonical(s) /\ "GOT" \in flags[s] /\ "PLT" \in flags[s] ->
                DefineSymbol(got, g, "symtabLocal", s, Sym(s).name \o <<"$plt">>)
          [] OTHER -> got

WriteSymbols(w, g, f) ==
    LET copy(x, s) == IF ~SymbolCopied(s) THEN x
                      ELSE DefineSymbol(x, g, IF IsSymtabLocal(s) THEN "symtabLocal" ELSE "symtabGlobal",
                                        s, Sym(s).name)
        defined == FoldLeft(LAMBDA x, s : copy(WriteGotPltSyms(x, g, s), s), w, SymbolsOf(f))
    IN  FoldLeft(LAMBDA x, s : IF ~UndefinedCopied(s) THEN x
                               ELSE DefineSymbol(x, g, "symtabGlobal", s, <<BaseName(Sym(s).name)>>),
                 defined, SymbolsOf(f))

(* References that are left to the dynamic linker, then .symtab.           *)
WriteObject(w, g, f) ==
    LET references == FoldLeft(LAMBDA x, s :
                        IF HasResolution(s) /\ IsCanonical(s) /\ "DYNAMIC" \in flags[s]
                        THEN SetNextVersion(DefineDynamic(x, g, s, BaseName(Sym(s).name)), 1) ELSE x,
                        w, SymbolsOf(f))
    IN  IF StripAll THEN references ELSE WriteSymbols(references, g, f)

(* The version index in the output of a version of a shared object.        *)
VersionMapping(f, v) ==
    IF v \in VersionsNeeded(f) THEN verneed[f] + Cardinality({u \in VersionsNeeded(f) : u < v}) ELSE 1
CopySymbolVersion(s) ==
    IF Sym(s).version <= 1 THEN Sym(s).version ELSE VersionMapping(s[1], Sym(s).version)

WriteDynamicSymbol(w, g, s) ==
    IF ~HasResolution(s) THEN w
    ELSE IF "COPY" \in flags[s] THEN DefineSymbol(w, g, "symtabGlobal", s, Sym(s).name)
    ELSE SetNextVersion(DefineDynamic(w, g, s, BaseName(Sym(s).name)), CopySymbolVersion(s))

(* The record of the versions that are needed of a shared object.  It is   *)
(* the last one when the section ends with it.                             *)
IsLastVerneed(f, g, w) ==
    Start(g, "versionR") + Len(w.versionR) + 1 + Cardinality(VersionsNeeded(f)) = Total("versionR")
WriteVerneed(w, g, f) ==
    LET needed == SetToSortSeq(VersionsNeeded(f), <)
        record == WriteStr(Put(w, "versionR", [type |-> "need", file |-> Offset(w, g, "dynstr"),
                                               count |-> Len(needed), last |-> IsLastVerneed(f, g, w)]),
                           "dynstr", Files[f].lib)
    IN  IF needed = <<>> THEN w
        ELSE FoldLeft(LAMBDA x, v :
                WriteStr(Put(x, "versionR", [type |-> "aux", name |-> Offset(x, g, "dynstr"),
                                             other |-> VersionMapping(f, v)]),
                         "dynstr", Files[f].versions[v - 1]),
                record, needed)

WriteDynamicFile(w, g, f) ==
    LET soname == WriteStr(Put(w, "dynamic", [tag |-> "NEEDED", value |-> Offset(w, g, "dynstr")]),
                           "dynstr", Files[f].lib)
        symbols == FoldLeft(LAMBDA x, s : WriteDynamicSymbol(WriteGotPltSyms(x, g, s), g, s),
                            soname, SymbolsOf(f))
    IN  WriteVerneed(symbols, g, f)

(* rpath, soname, --auxiliary and the entries the output has; the rest     *)
(* of the table is filled with zeros.                                      *)
WriteDynamicEntries(w, g) ==
    LET entry(x, tag, string) ==
            IF string = <<>> THEN x
            ELSE WriteStr(Put(x, "dynamic", [tag |-> tag, value |-> Offset(x, g, "dynstr")]), "dynstr", string)
        named == FoldLeft(LAMBDA x, aux : entry(x, "AUXILIARY", aux),
                          entry(entry(w, "RUNPATH", link.rpath), "SONAME", link.soname), link.auxiliary)
        rest == reserved[g].dynamic - Len(named.dynamic)
    IN  [named EXCEPT !.dynamic = @ \o [i \in 1 .. rest |->
            [tag |-> IF i <= link.present THEN "OTHER" ELSE "NULL", value |-> 0]]]

(* Exported definitions, in chunks that are written in parallel.  Symbols  *)
(* of a linker script write no version, so that the versions of a chunk    *)
(* move up and the last ones stay 0.                                       *)
VersionOf(d) ==
    IF Kind(d.symbol) = "dso" THEN [index |-> CopySymbolVersion(d.symbol), hidden |-> FALSE]
    ELSE [index |-> d.version, hidden |-> d.hidden]
ChunkVersions(chunk) ==
    LET some == SelectSeq(chunk, LAMBDA d : Kind(d.symbol) # "script")
    IN  [i \in DOMAIN chunk |-> IF i <= Len(some) THEN VersionOf(some[i])
                               ELSE [index |-> 0, hidden |-> FALSE]]

WriteDefinitions(w, g) ==
    LET n == Len(definitions)
        chunkOf(i) == (i - 1) \div ChunkSize
        chunk(i) == SubSeq(definitions, chunkOf(i) * ChunkSize + 1, Min({n, (chunkOf(i) + 1) * ChunkSize}))
        versions == [i \in 1 .. n |-> ChunkVersions(chunk(i))[i - chunkOf(i) * ChunkSize]]
        defined == FoldLeft(LAMBDA x, d : DefineDynamic(x, g, d.symbol, d.name), w, definitions)
    IN  IF GnuVersionEnabled THEN [defined EXCEPT !.versym = @ \o versions] ELSE defined

(* The chains of the System V table go through all of .dynsym; those of    *)
(* the GNU table are runs of the sorted definitions.                       *)
WriteSysvHash ==
    LET bucket(i) == HashOf[definitions[i].name].sysv % SysvBuckets
        index(i) == DynsymStart + i - 1
        later(i) == {j \in DOMAIN definitions : j > i /\ bucket(j) = bucket(i)}
        ofBucket(b) == {i \in DOMAIN definitions : bucket(i) = b}
    IN  [buckets |-> [b \in 0 .. SysvBuckets - 1 |-> IF ofBucket(b) = {} THEN 0 ELSE index(Min(ofBucket(b)))],
         chains |-> [c \in 0 .. DynsymStart + Len(definitions) - 1 |->
                        LET i == c - DynsymStart + 1
                        IN  IF i \notin DOMAIN definitions \/ later(i) = {} THEN 0 ELSE index(Min(later(i)))]]

WriteGnuHash ==
    LET n == GnuBuckets(definitions)
        hash(i) == HashOf[definitions[i].name].gnu
        starts(i) == i = 1 \/ hash(i - 1) % n # hash(i) % n
        ends(i) == i = Len(definitions) \/ hash(i + 1) % n # hash(i) % n
        ofBucket(b) == {i \in DOMAIN definitions : starts(i) /\ hash(i) % n = b}
    IN  [base |-> DynsymStart,
         buckets |-> [b \in 0 .. n - 1 |-> IF ofBucket(b) = {} THEN 0 ELSE Max(ofBucket(b)) - 1 + DynsymStart],
         chains |-> [i \in DOMAIN definitions |-> [hash |-> hash(i) \div 2, last |-> ends(i)]]]

(* The first record is the base version, named by the soname; records are  *)
(* followed by their names and that of their parent.                       *)
WriteVerdef(w, g) ==
    LET versions == VersionScript.versions
        sonameAt == w.dynamic[CHOOSE i \in DOMAIN w.dynamic : w.dynamic[i].tag = "SONAME"].value
        own(x, i) == IF i = 1 /\ link.soname # <<>> THEN sonameAt ELSE Offset(x, g, "dynstr")
        string(x, i) == CASE i = 1 /\ link.soname # <<>> -> x
                          [] i = 1 /\ link.soname = <<>> -> WriteStr(x, "dynstr", FileName)
                          [] OTHER -> WriteStr(x, "dynstr", <<versions[i].name>>)
        record(x, i) == Put(x, "versionD",
            [index |-> i, base |-> i = 1, name |-> own(x, i),
             parent |-> IF versions[i].parent = 0 THEN 0
                        ELSE x.versionD[versions[i].parent + 1].name,
             units |-> 5 + IF versions[i].parent = 0 THEN 2 ELSE 4])
    IN  IF VersionCount(VersionScript) = 0 THEN w
        ELSE FoldLeft(LAMBDA x, i : string(record(x, i), i), w, [i \in DOMAIN versions |-> i])

WriteEpilogue(w, g) ==
    LET dynamic == IF NeedsDynamic THEN WriteDynamicEntries(w, g) ELSE w
        sysv == PutIf(dynamic, HasSysvHash, "sysvHash", WriteSysvHash)
        gnu == PutIf(sysv, HasGnuHash, "gnuHash", WriteGnuHash)
    IN  WriteVerdef(WriteDefinitions(gnu, g), g)

WriteFile(w, g, f) ==
    CASE Files[f].kind = "prelude" -> WritePrelude(w, g)
      [] Files[f].kind = "object" -> WriteObject(w, g, f)
      [] Files[f].kind = "dso" -> WriteDynamicFile(w, g, f)
      [] Files[f].kind = "script" -> WriteInternalSymbols(w, g, f)
      [] OTHER -> WriteEpilogue(w, g)

WriteGroup(g) ==
    /\ step = "write" /\ g \notin active /\ 1 .. g - 1 \subseteq active
    /\ active' = active \cup {g}
    /\ written' = [written EXCEPT ![g] = FoldLeft(LAMBDA w, f : WriteFile(w, g, f), @, FilesOf(g))]
    /\ step' = IF active' = Groups THEN "written" ELSE "write"
    /\ UNCHANGED <<link, inputs, flags, exports, definitions, reserved, verneed, indexes, symbolMap>>

SymNext ==
    \/ ReadInputs \/ LoadSymbols \/ ApplyVisibility \/ HandleRustVersionScript
    \/ step = "activate" /\ \E f \in DOMAIN Files : Activate(f)
    \/ FinaliseCopyRelocations \/ MergeDefinitions \/ FinaliseSizes \/ AdjustSizes \/ FinaliseLayout
    \/ step = "write" /\ \E g \in Groups : WriteGroup(g)
(***************************************************************************)
(* What is written is what was reserved.                                   *)
(***************************************************************************)
AllOf(part) == FoldLeft(LAMBDA seq, g : seq \o written[g][part], <<>>, [g \in Groups |-> g])

Used(g, part) ==
    LET w == written[g][part]
    IN  CASE part \in {"strtab", "dynstr"} -> StringsSize(w)
          [] part = "versionD" -> SumOf(DOMAIN w, LAMBDA i : w[i].units)
          [] part = "gnuHash" /\ w # <<>> -> Cardinality(DOMAIN w[1].buckets) + Len(w[1].chains)
          [] part = "sysvHash" /\ w # <<>> -> 2 + Cardinality(DOMAIN w[1].buckets) + Cardinality(DOMAIN w[1].chains)
          [] OTHER -> Len(w)

(* --got-plt-syms reserves space for names without their version, for      *)
(* symbols of the linker and when .symtab is stripped; a relocatable       *)
(* output reserves the whole name of an undefined symbol.                  *)
ReservesAnother ==
    \/ link.gotplt /\ \E s \in Symbols : /\ "GOT" \in flags[s] /\ IsCanonical(s)
                                         /\ StripAll \/ Len(Sym(s).name) = 3 \/ Kind(s) \notin {"object", "dso"}
    \/ \E s \in Symbols : UndefinedCopied(s) /\ Len(Sym(s).name) = 3

(* Every group writes into each table exactly what was reserved for it     *)
(* (TableWriter::validate_empty, elf_writer.rs), by code that decides      *)
(* again which symbols there are, and .dynamic ends with a null entry.     *)
ReservedIsWritten ==
    step = "written" =>
        /\ ~ReservesAnother => \A g \in Groups, p \in Parts : Used(g, p) = reserved[g][p]
        /\ LET d == AllOf("dynamic") IN d # <<>> => d[Len(d)].tag = "NULL"

(***************************************************************************)
(* What the dynamic linker sees.                                           *)
(***************************************************************************)
StringAt(table, offset) ==
    LET strings == AllOf(table)
        at == {i \in DOMAIN strings : StringsSize(SubSeq(strings, 1, i - 1)) = offset}
    IN  IF at = {} THEN <<"no string">> ELSE strings[Max(at)]

Dynsym(i) == AllOf("dynsym")[i + 1]
NameOf(i) == StringAt("dynstr", Dynsym(i).name)

(* The entries that a lookup finds: it follows one chain and compares      *)
(* hashes and names.                                                       *)
GnuLookup(name) ==
    LET table == AllOf("gnuHash")[1]
        n == Cardinality(DOMAIN table.buckets)
        first == table.buckets[HashOf[name].gnu % n]
        RECURSIVE follow(_)
        follow(i) == LET link_ == table.chains[i - table.base + 1]
                         here == IF link_.hash = HashOf[name].gnu \div 2 /\ NameOf(i) = <<name>> THEN {i} ELSE {}
                     IN  here \cup IF link_.last THEN {} ELSE follow(i + 1)
    IN  IF first = 0 THEN {} ELSE follow(first)

SysvLookup(name) ==
    LET table == AllOf("sysvHash")[1]
        RECURSIVE follow(_)
        follow(i) == IF i = 0 THEN {}
                     ELSE (IF NameOf(i) = <<name>> THEN {i} ELSE {}) \cup follow(table.chains[i])
    IN  follow(table.buckets[HashOf[name].sysv % Cardinality(DOMAIN table.buckets)])

(* A hidden reference to d marked another definition of the name, because  *)
(* d was selected after that one was met (resolution.rs, resolve_symbol:   *)
(* "the definition must be downgraded so it cannot leak into dynsym").     *)
HidesAnother(e, d) == e \in HiddenReferences /\ HidesByReference(e) # {d}

(* Lookups by name, through either hash table, find exactly the exported   *)
(* definitions (write_gnu_hash_tables, write_sysv_hash_table), although    *)
(* the tables are built from indexes that other groups' sizes determine;   *)
(* and a definition that another file hides is not among them              *)
(* (symbol_db.rs: it "cannot leak into dynsym").  The special form of      *)
(* version scripts, symbols of linker scripts and --defsym do leak, and so *)
(* does a definition that HidesAnother names.                              *)
LoaderFindsExports ==
    step = "written" =>
        \A name \in DOMAIN HashOf :
            LET defined == {i \in 0 .. Len(AllOf("dynsym")) - 1 :
                                i >= DynsymStart /\ BaseName(Sym(Dynsym(i).symbol).name) = name}
            IN  /\ HasGnuHash => GnuLookup(name) = defined
                /\ HasSysvHash => SysvLookup(name) = defined
                /\ \A i \in defined :
                        Kind(Dynsym(i).symbol) = "object" /\ VersionScript.form # "rust" =>
                            \A e \in Symbols :
                                Definition(e) = Dynsym(i).symbol /\ ~HidesAnother(e, Dynsym(i).symbol)
                                    => Sym(e).vis # "hidden"

(* Linker script symbols write no version (elf_writer.rs), so that the     *)
(* versions of the definitions in their chunk belong to other symbols.     *)
VersionsShift == \E i \in DOMAIN definitions : Kind(definitions[i].symbol) = "script"

(* The name of a version, as the records of the output give it.            *)
VersionNames(index) ==
    LET defs_ == AllOf("versionD")
        needs == AllOf("versionR")
    IN  {StringAt("dynstr", defs_[i].name) : i \in {j \in DOMAIN defs_ : defs_[j].index = index /\ ~defs_[j].base}}
        \cup {StringAt("dynstr", needs[i].name) :
                i \in {j \in DOMAIN needs : needs[j].type = "aux" /\ needs[j].other = index}}

(* The version that a symbol should have: that of its shared object if a   *)
(* relocation asked for it, or the one the version script gives it.        *)
ExpectedVersion(s) ==
    LET named == VersionName(Sym(s).name)
        matched == FindMatch(VersionScript.versions, BaseName(Sym(s).name))[1]
    IN  CASE Kind(s) = "dso" ->
                IF Sym(s).version > 1 /\ Sym(s).version \in VersionsNeeded(s[1])
                THEN {Files[s[1]].versions[Sym(s).version - 1]} ELSE {}
          [] Kind(s) # "dso" /\ ~Undefined(s) /\ named \notin {"none", ""} /\ VersionScript.form # "rust" -> {<<named>>}
          [] Kind(s) # "dso" /\ ~Undefined(s) /\ named = "none" /\ matched > 0 ->
                {<<VersionScript.versions[matched + 1].name>>}
          [] OTHER -> {}

(* Every entry of .dynsym has the version that its symbol has, by way of   *)
(* indexes that are assigned to the version script and to one shared       *)
(* object after the other, no index has two names, and the chain of        *)
(* records of needed versions goes on to the last one (elf.rs,             *)
(* compute_version_mapping and is_last_verneed).                           *)
VersionsMatch ==
    step = "written" /\ GnuVersionEnabled /\ ~VersionsShift =>
        /\ \A i \in 1 .. Len(AllOf("dynsym")) - 1 :
                LET s == Dynsym(i).symbol
                    v == AllOf("versym")[i + 1]
                IN  /\ VersionNames(v.index) = ExpectedVersion(s)
                    /\ v.hidden => VersionName(Sym(s).name) # "none"
        /\ \A i \in 1 .. 20 : Cardinality(VersionNames(i)) <= 1
        /\ LET needs == SelectSeq(AllOf("versionR"), LAMBDA r : r.type = "need")
           IN  \A i \in DOMAIN needs : needs[i].last <=> i = Len(needs)

(* The index that relocations use for a symbol is where it was written:    *)
(* in .dynsym, for symbols of the dynamic linker, and in .symtab for the   *)
(* relocations of a relocatable output (build_sym_index_map).              *)
IndexesNameTheirSymbols ==
    step = "written" =>
        /\ \A s \in Symbols :
              /\ indexes[s] # 0 => Dynsym(indexes[s]).symbol = s /\ NameOf(indexes[s]) = <<BaseName(Sym(s).name)>>
              /\ IsCanonical(s) /\ "DYNAMIC" \in flags[s] /\ HasResolution(s) => indexes[s] # 0
        /\ IsPartial =>
              LET table == AllOf("symtabLocal") \o AllOf("symtabGlobal")
              IN  \A s \in Symbols :
                    Kind(s) = "object" /\ (SymbolCopied(s) \/ UndefinedCopied(s)) =>
                        table[symbolMap[s] + 1].symbol = s

(* The special form of version scripts leaves the same definitions local   *)
(* as the general one would, except for names with a version and for those *)
(* that a hidden reference localised before (symbol_db.rs).                *)
SpecialFormAgrees ==
    step = "activate" /\ VersionScript.form = "rust" =>
        LET general == Regular(<<Version("", 0, ParseVersionSection(link.version).what)>>)
        IN  \A s \in Symbols :
                Kind(s) = "object" /\ ~Undefined(s) /\ IsCanonical(s) /\ Sym(s).bind # "local"
                /\ Len(Sym(s).name) = 1 /\ (\A e \in Symbols : Definition(e) = s => Sym(e).vis # "hidden")
                => ("LOCAL" \in flags[s] <=> IsLocal(general, BaseName(Sym(s).name)))

(* Every symbol table is written as it was reserved, and every index that  *)
(* was given out leads to its symbol.                                      *)
TablesAreAsReserved == ReservedIsWritten /\ IndexesNameTheirSymbols

(* Versions, and what is exported at all, are those of the version script. *)
VersionsAreTheScripts == VersionsMatch /\ SpecialFormAgrees
=============================================================================
