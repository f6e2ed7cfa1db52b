----------------------------- MODULE MachOLink -----------------------------
(***************************************************************************)
(* Linking of Mach-O executables (macho.rs, macho_writer.rs,               *)
(* macho_aarch64.rs): the scan of relocations by the tasks of the objects, *)
(* the imports it asks libraries for, sizes and addresses, the parallel    *)
(* writing of files, and the steps after it, each of which reads what the  *)
(* ones before it wrote: global offset table, stubs, chained fixups, code  *)
(* signature and UUID.                                                     *)
(*                                                                         *)
(* A program is a sequence of files in the order of the command line.      *)
(* A section is loaded when references reach it, which the program says    *)
(* (ReferenceGraph has that), or when it holds an exported symbol or the   *)
(* entry point.  Each name has one definition (Resolution) and branches    *)
(* are in range (Thunks).  The inputs of an output section    *)
(* have one alignment.  An instruction or a word that is not a pointer     *)
(* stands for the address it leads to; sizes and offsets are those of the  *)
(* format, except for the start of the image, which is a constant.         *)
(* A hash is the value that was hashed.                                    *)
(***************************************************************************)
EXTENDS Integers, Sequences, FiniteSets, SequencesExt, ExportsTrie

CONSTANTS
    Programs,      \* the programs to link
    ImageBase,     \* MACHO_START_MEM_ADDRESS
    PageSize,      \* MACHO_PAGE_ALIGNMENT
    MaxSectionIndex \* u8::MAX

VARIABLES
    prog,          \* the program
    step,          \* what the link does next
    error,         \* why the link failed, or ""
    scanned,       \* per object, the number of relocations that were scanned;
                   \* for the prelude, file 0, 1 when it has asked for the entry point
    flags,         \* per symbol, what references need of it
    queue,         \* per library, requests that were sent and not handled
    imported,      \* per library, imported_symbols
    loaded,        \* per library, whether it gets a load command
    sizes,         \* what finalise_sizes reserved
    lay,           \* the layout
    unwritten,     \* the files that are still to be written
    fixups,        \* the result of collect_chained_fixups
    out            \* the output file

vars == <<prog, step, error, scanned, flags, queue, imported, loaded, sizes, lay,
          unwritten, fixups, out>>

AlignUp(n, a) == ((n + a - 1) \div a) * a
DivCeil(n, d) == (n + d - 1) \div d
ToSeq(n) == [i \in 1..n |-> i]
SumSeq(s) == FoldLeft(LAMBDA a, b : a + b, 0, s)

\* Section types, in the order in which the strongest one wins.
S_REGULAR == 0
S_ZEROFILL == 1
S_THREAD_LOCAL_REGULAR == 17
S_THREAD_LOCAL_ZEROFILL == 18
S_THREAD_LOCAL_VARIABLES == 19
NoBits(ty) == ty \in {S_ZEROFILL, S_THREAD_LOCAL_ZEROFILL}
IsTls(ty) == ty \in {S_THREAD_LOCAL_REGULAR, S_THREAD_LOCAL_ZEROFILL}

(***************************************************************************)
(* Files and symbols                                                       *)
(***************************************************************************)
Files == DOMAIN prog.files
Objects == {f \in Files : prog.files[f].kind = "object"}
IsDynamicLibrary(f) == prog.files[f].kind \in {"stub", "dylib"}
Libraries == {f \in Files : IsDynamicLibrary(f)}
Symbol(id) == prog.files[id[1]].symbols[id[2]]
IdsOf(f) == [i \in 1..Len(prog.files[f].symbols) |-> <<f, i>>]
Ids == FlattenSeq([f \in 1..Len(prog.files) |-> IdsOf(f)])
IsUndefined(sym) == sym.scope = "undefined"

\* Definitions in objects come before those of libraries.
DefinitionsOf(name) ==
    LET found == SelectSeq(Ids, LAMBDA d : /\ Symbol(d).name = name
                                           /\ Symbol(d).scope \notin {"undefined", "local", "ltmp"})
    IN SelectSeq(found, LAMBDA d : ~IsDynamicLibrary(d[1])) \o found
Definition(id) == IF ~IsUndefined(Symbol(id)) THEN id ELSE Head(DefinitionsOf(Symbol(id).name))

\* The entry point, if anything defines it.
Entry == DefinitionsOf(prog.entry)

InstallName(f) == prog.files[f].install

\* A common symbol without an alignment of its own has the next power of
\* two of its size.
CommonAlignment(sym) ==
    IF sym.align # 0 THEN sym.align
    ELSE CHOOSE a \in {2 ^ k : k \in 0..15} :
             /\ \/ a >= sym.off
                \/ a = 2 ^ 15
             /\ \A k \in 0..15 : 2 ^ k < a => 2 ^ k < sym.off
CommonSize(sym) == AlignUp(sym.off, CommonAlignment(sym))

(***************************************************************************)
(* The scan of relocations                                                 *)
(***************************************************************************)
RelocationKind(r) ==
    CASE r.type \in {"unsigned", "subtractor"}     -> IF r.pcrel THEN "relative" ELSE "absolute"
      [] r.type \in {"branch26", "page21", "tlvp_page21"} -> "relative"
      [] r.type \in {"pageoff12", "tlvp_pageoff12"}    -> "low"
      [] r.type \in {"got_page21", "pointer_to_got"}   -> "gotrelative"
      [] r.type = "got_pageoff12"                      -> "got"

ResolutionFlags(kind) ==
    CASE kind \in {"absolute", "relative"}  -> {"direct"}
      [] kind \in {"got", "gotrelative"}    -> {"got"}
      [] kind = "low"                       -> {}

\* Debug sections, those of segments that only the linker writes and the
\* tables of indirect symbols are discarded.
IndirectTypes == {6, 7, 8, 16, 20}
ShouldExclude(sec) ==
    \/ sec.debug
    \/ sec.seg \in {"__PAGEZERO", "__LINKEDIT", "__LLVM"}
    \/ sec.ty \in IndirectTypes

InDiscarded(id) == Symbol(id).sec # 0 /\ ShouldExclude(prog.files[id[1]].sections[Symbol(id).sec])
IsExported(id) ==
    /\ prog.dynsym
    /\ id[1] \in Objects
    /\ Symbol(id).scope \in {"global", "weak", "indirect"}
    /\ ~InDiscarded(id)
IsLoaded(f, s) ==
    LET sec == prog.files[f].sections[s]
        own == {id \in ToSet(IdsOf(f)) : Symbol(id).sec = s}
    IN ~ShouldExclude(sec)
       /\ \/ sec.loaded
          \/ \E id \in own : IsExported(id) \/ (Entry # <<>> /\ id = Head(Entry))

LoadedSections(f) ==
    SelectSeq(ToSeq(Len(prog.files[f].sections)), LAMBDA s : IsLoaded(f, s))

Relocations(f) ==
    FlattenSeq([k \in 1..Len(LoadedSections(f)) |->
        prog.files[f].sections[LoadedSections(f)[k]].relocs])

FlagsToAdd(r, target) ==
    ResolutionFlags(RelocationKind(r))
    \cup (IF IsDynamicLibrary(target[1])
            THEN {"got"} \cup (IF r.type = "branch26" THEN {"plt"} ELSE {})
            ELSE {})

\* A request for a symbol that had none yet is sent to its file.
Request(target, new) ==
    /\ flags' = [flags EXCEPT ![target] = @ \cup new]
    /\ IF flags[target] = {} /\ IsDynamicLibrary(target[1])
         THEN queue' = [queue EXCEPT ![target[1]] = Append(@, target)]
         ELSE UNCHANGED queue

\* The prelude asks for the entry point.
LoadEntryPoint ==
    /\ step = "scan"
    /\ scanned[0] = 0
    /\ IF Entry = <<>> THEN UNCHANGED <<flags, queue>> ELSE Request(Head(Entry), {"direct"})
    /\ scanned' = [scanned EXCEPT ![0] = 1]
    /\ UNCHANGED <<prog, step, error, imported, loaded, sizes, lay, unwritten, fixups, out>>

\* A relocation that names a section instead of a symbol asks for nothing.
ProcessRelocation(f) ==
    /\ step = "scan"
    /\ scanned[f] < Len(Relocations(f))
    /\ LET r == Relocations(f)[scanned[f] + 1]
           target == Definition(<<f, r.sym>>)
       IN IF r.extern THEN Request(target, FlagsToAdd(r, target)) ELSE UNCHANGED <<flags, queue>>
    /\ scanned' = [scanned EXCEPT ![f] = @ + 1]
    /\ UNCHANGED <<prog, step, error, imported, loaded, sizes, lay, unwritten, fixups, out>>

\* The task of a library handles a request for one of its symbols.
LoadLibrarySymbol(f) ==
    /\ step = "scan"
    /\ queue[f] # <<>>
    /\ queue' = [queue EXCEPT ![f] = Tail(@)]
    /\ imported' = [imported EXCEPT ![f] = Append(@, Head(queue[f]))]
    /\ loaded' = [loaded EXCEPT ![f] = @ \/ prog.files[f].kind = "stub"]
    /\ UNCHANGED <<prog, step, error, scanned, flags, sizes, lay, unwritten, fixups, out>>

(***************************************************************************)
(* Output sections, named by segment and section, in their order.          *)
(***************************************************************************)
FileHeader == <<"", "FILE_HEADER">>
LoadCommands == <<"", "LOAD_COMMANDS">>
Strtab == <<"", "STRTAB">>
ChainedFixupTable == <<"", "DYLD_CHAINED_FIXUPS_TABLE">>
ExportsTrieSection == <<"", "EXPORTS_TRIE">>
SymtabGlobal == <<"", "SYMTAB">>
CodeSignature == <<"", "CODE_SIGNATURE">>
Text == <<"__TEXT", "__text">>
Stubs == <<"__TEXT", "__stubs">>
Got == <<"__DATA_CONST", "__got">>
Common == <<"__DATA", "__common">>

LinkEdit == <<Strtab, ChainedFixupTable, ExportsTrieSection, SymtabGlobal, CodeSignature>>
BuiltIn == {FileHeader, LoadCommands, Text, Stubs, Got, Common}
           \cup {LinkEdit[i] : i \in DOMAIN LinkEdit}

OutputSection(sec) == IF sec.name = "__text" THEN Text ELSE <<sec.seg, sec.name>>

Input(at) == prog.files[at[1]].sections[at[2]]
InputSections ==
    SelectSeq(FlattenSeq([f \in 1..Len(prog.files) |->
                  IF f \in Objects
                    THEN [s \in 1..Len(prog.files[f].sections) |-> <<f, s>>] ELSE <<>>]),
              LAMBDA at : ~ShouldExclude(Input(at)))

Unique(s) == FoldLeft(LAMBDA u, x : IF Contains(u, x) THEN u ELSE Append(u, x), <<>>, s)

CustomSections ==
    Unique(SelectSeq([k \in 1..Len(InputSections) |-> OutputSection(Input(InputSections[k]))],
                     LAMBDA id : id \notin BuiltIn))

InputsOf(id) == SelectSeq(InputSections, LAMBDA at : OutputSection(Input(at)) = id)
LoadedInputs(id) == SelectSeq(InputsOf(id), LAMBDA at : IsLoaded(at[1], at[2]))

\* The strongest type of the inputs, and whether any of them has code.
SectionType(id) ==
    IF id = Common THEN S_ZEROFILL
    ELSE FoldLeft(LAMBDA ty, at : IF Input(at).ty > ty THEN Input(at).ty ELSE ty,
                  S_REGULAR, InputsOf(id))
HasCode(id) == \E k \in DOMAIN InputsOf(id) : Input(InputsOf(id)[k]).exec
SegmentIsWritable(seg) == seg \notin {"__PAGEZERO", "__TEXT", "__LINKEDIT"}

CustomClass(id) ==
    CASE HasCode(id)                  -> "exec"
      [] ~HasCode(id) /\ IsTls(SectionType(id)) ->
             IF NoBits(SectionType(id)) THEN "tbss" ELSE "tdata"
      [] OTHER -> IF ~SegmentIsWritable(id[1]) THEN "ro"
                  ELSE IF NoBits(SectionType(id)) THEN "bss" ELSE "data"

AddSectionsInSegment(class, seg) ==
    SelectSeq(CustomSections, LAMBDA id : CustomClass(id) = class /\ id[1] = seg)

KnownSegments == {"__PAGEZERO", "__TEXT", "__DATA_CONST", "__DATA", "__LINKEDIT"}
ArbitrarySegments ==
    SelectSeq(Unique([k \in DOMAIN CustomSections |-> CustomSections[k][1]]),
              LAMBDA seg : seg \notin KnownSegments)
SegmentOrder == <<"__TEXT", "__DATA_CONST", "__DATA">> \o ArbitrarySegments \o <<"__LINKEDIT">>

BuildOutputOrder ==
    <<FileHeader, LoadCommands, Text>> \o AddSectionsInSegment("exec", "__TEXT")
    \o <<Stubs>> \o AddSectionsInSegment("ro", "__TEXT") \o <<Got>>
    \o FlattenSeq([k \in 1..2 |->
           LET seg == <<"__DATA_CONST", "__DATA">>[k] IN
           AddSectionsInSegment("exec", seg) \o AddSectionsInSegment("ro", seg)
           \o AddSectionsInSegment("data", seg)
           \o (IF seg = "__DATA"
                 THEN AddSectionsInSegment("tdata", seg)
                      \o AddSectionsInSegment("tbss", seg) \o <<Common>>
                 ELSE <<>>)
           \o AddSectionsInSegment("bss", seg)])
    \o FlattenSeq([k \in DOMAIN ArbitrarySegments |->
           SelectSeq(CustomSections, LAMBDA id : id[1] = ArbitrarySegments[k])])
    \o LinkEdit

SegmentOf(id) ==
    CASE id \in {FileHeader, LoadCommands} -> "__TEXT"
      [] id[1] = "" /\ id \notin {FileHeader, LoadCommands} -> "__LINKEDIT"
      [] OTHER -> id[1]

(***************************************************************************)
(* Sizes.  A symbol gets space when a reference or an export needs it.     *)
(***************************************************************************)
NeedsGot(id) == flags[id] \cap {"got", "plt"} # {}
NeedsPlt(id) == "plt" \in flags[id]

IsCommon(id) == Symbol(id).scope = "common"
IsAbsolute(id) == Symbol(id).sec = 0 /\ Symbol(id).scope \in {"global", "weak", "local"}
InLoadedSection(id) ==
    Symbol(id).sec # 0 /\ IsLoaded(id[1], Symbol(id).sec)

\* SymbolCopyInfo::new: whether a symbol goes to the symbol table.
IsCopied(id) ==
    /\ id[1] \in Objects
    /\ ~prog.strip
    /\ Symbol(id).scope \notin {"undefined", "ltmp"}
    /\ Symbol(id).sec # 0 => InLoadedSection(id)
    /\ IsCommon(id) => flags[id] # {}
CopiedOf(f) == SelectSeq(IdsOf(f), IsCopied)

LessName(a, b) ==
    LET n == CommonPrefix(a, b) IN
    \/ n = Len(a) /\ n < Len(b)
    \/ n < Len(a) /\ n < Len(b) /\ a[n + 1] < b[n + 1]

DynamicSymbolDefinitions ==
    SortSeq(SelectSeq(Ids, IsExported), LAMBDA a, b : LessName(Symbol(a).name, Symbol(b).name))

ReservedExports(defs) ==
    [k \in DOMAIN defs |->
        [name |-> Symbol(defs[k]).name, address |-> Unknown, flags |-> 0]]

ChainedFixupTableBaseSize == 28 + 4 * 7 + (22 + 2 * 8192) * 6
FixupTableSize(imports) ==
    AlignUp(ChainedFixupTableBaseSize
            + SumSeq([k \in DOMAIN imports |-> 4 + Len(Symbol(imports[k]).name) + 1]), 8)

\* Offsets of inputs and of common symbols in their output section.
PlaceInputs(inputs) ==
    FoldLeft(LAMBDA p, at :
                 LET start == AlignUp(p.end, Input(at).align) IN
                 [end |-> start + Input(at).size, at |-> Append(p.at, start)],
             [end |-> 0, at |-> <<>>], inputs)
Commons == SelectSeq(Ids, LAMBDA id : id[1] \in Objects /\ IsCommon(id) /\ flags[id] # {})
PlaceCommons ==
    FoldLeft(LAMBDA p, id :
                 LET start == AlignUp(p.end, CommonAlignment(Symbol(id))) IN
                 [end |-> start + CommonSize(Symbol(id)), at |-> Append(p.at, start)],
             [end |-> 0, at |-> <<>>], Commons)

HeadersSize == 20 + 88 + AlignUp(prog.ident + 1, 16)
SectionSize(id, imports, defs, topology) ==
    CASE id = Got    -> 8 * Len(SelectSeq(Ids, NeedsGot))
      [] id = Stubs  -> 12 * Len(SelectSeq(Ids, NeedsPlt))
      [] id = Common -> PlaceCommons.end
      [] id = Strtab -> 1 + SumSeq([f \in 1..Len(prog.files) |->
             SumSeq([k \in DOMAIN CopiedOf(f) |-> Len(Symbol(CopiedOf(f)[k]).name) + 1])])
      [] id = SymtabGlobal       -> 16 * Len(SelectSeq(Ids, IsCopied))
      [] id = ChainedFixupTable  -> FixupTableSize(imports)
      [] id = ExportsTrieSection -> SizeWithTopology(ReservedExports(defs), topology)
      [] id = CodeSignature      -> HeadersSize
      [] id = FileHeader         -> 32
      [] id = LoadCommands       -> 0
      [] OTHER                   -> PlaceInputs(LoadedInputs(id)).end

AllSections == Unique(BuildOutputOrder \o CustomSections)
IsKept(id, size) == size > 0 \/ LoadedInputs(id) # <<>>
HasHeader(id) == id[1] # ""

SegmentCommandSize(count) == 72 + 80 * count
LoadDylibCommandSize(f) == AlignUp(24 + prog.files[f].length + 1, 8)

(***************************************************************************)
(* The commands for which allocate_header_sizes reserves space; the number *)
(* of sections of a segment is counted over all output sections.           *)
(***************************************************************************)
AllocateHeaderSizes(kept, active, libraries) ==
    <<72>>
    \o [k \in DOMAIN active |->
           SegmentCommandSize(Len(SelectSeq(AllSections, LAMBDA id :
               id \in kept /\ HasHeader(id) /\ SegmentOf(id) = active[k])))]
    \o (IF prog.exec THEN <<24>> ELSE <<>>)
    \o <<AlignUp(12 + 13, 8)>>
    \o [k \in DOMAIN libraries |-> LoadDylibCommandSize(libraries[k])]
    \o <<16>> \o (IF prog.dynsym THEN <<16>> ELSE <<>>) \o <<24, 16, 24>>
    \o (IF prog.version THEN <<24>> ELSE <<>>)

Imports == FlattenSeq([f \in 1..Len(prog.files) |->
                           IF f \in Libraries THEN imported[f] ELSE <<>>])

\* One library for each install name.
ImportedLibraries ==
    FoldLeft(LAMBDA libs, f :
                 IF /\ f \in Libraries
                    /\ loaded[f]
                    /\ \A k \in DOMAIN libs : InstallName(libs[k]) # InstallName(f)
                   THEN Append(libs, f) ELSE libs,
             <<>>, ToSeq(Len(prog.files)))

SizesOf(defs, topology, imports, libraries) ==
    LET size == [id \in ToSet(AllSections) |-> SectionSize(id, imports, defs, topology)]
        kept == {id \in ToSet(AllSections) : IsKept(id, size[id])}
        active == SelectSeq(SegmentOrder, LAMBDA seg :
                      \/ seg \in {"__TEXT", "__LINKEDIT"}
                      \/ \E k \in DOMAIN BuildOutputOrder :
                             /\ BuildOutputOrder[k] \in kept
                             /\ SegmentOf(BuildOutputOrder[k]) = seg)
        commands == AllocateHeaderSizes(kept, active, libraries)
    IN [size |-> [size EXCEPT ![LoadCommands] = SumSeq(commands)],
        kept |-> kept, active |-> active, count |-> Len(commands),
        defs |-> defs, topology |-> topology, imports |-> imports, libraries |-> libraries]

FinaliseSizes ==
    /\ step = "scan"
    /\ scanned[0] = 1 /\ \A f \in Objects : scanned[f] = Len(Relocations(f))
    /\ \A f \in Libraries : queue[f] = <<>>
    /\ LET defs == DynamicSymbolDefinitions IN
       sizes' = SizesOf(defs, Topology([k \in DOMAIN defs |-> Symbol(defs[k]).name]),
                        Imports, ImportedLibraries)
    /\ step' = "layout"
    /\ UNCHANGED <<prog, error, scanned, flags, queue, imported, loaded, lay, unwritten,
                   fixups, out>>

(***************************************************************************)
(* Addresses.  Segments start on a page, in the file and in memory.        *)
(***************************************************************************)
InputAlignment(id) ==
    FoldLeft(LAMBDA a, at : IF Input(at).align > a THEN Input(at).align ELSE a,
             1, LoadedInputs(id))
MaxOf(S) == CHOOSE x \in S : \A y \in S : y <= x
SectionAlignment(id) ==
    CASE id \in {Text, Stubs} -> MaxOf({4, InputAlignment(id)})
      [] id = Got \/ id = ChainedFixupTable \/ id = SymtabGlobal -> 8
      [] id = CodeSignature -> 16
      [] id = Common -> MaxOf({1} \cup {CommonAlignment(Symbol(Commons[k])) : k \in DOMAIN Commons})
      [] IsTls(SectionType(id)) ->
             MaxOf({InputAlignment(t) : t \in {t \in ToSet(CustomSections) : IsTls(SectionType(t))}})
      [] SectionType(id) = S_THREAD_LOCAL_VARIABLES -> MaxOf({8, InputAlignment(id)})
      [] OTHER -> InputAlignment(id)

AlignLoadSegmentStart(w) ==
    [w EXCEPT !.file = AlignUp(@, PageSize), !.mem = AlignUp(@, PageSize)]

PlaceSection(w, id) ==
    LET s == IF SegmentOf(id) # w.seg THEN AlignLoadSegmentStart(w) ELSE w
        align == SectionAlignment(id)
        inFile == ~NoBits(SectionType(id))
        file == IF inFile THEN AlignUp(s.file, align) ELSE s.file
        mem == AlignUp(s.mem, align)
        size == sizes.size[id]
                + (IF id = CodeSignature THEN DivCeil(file, 4096) * 32 ELSE 0)
        fileSize == IF inFile THEN size ELSE 0
    IN [seg |-> SegmentOf(id), file |-> file + fileSize, mem |-> mem + size,
        at |-> Append(w.at, [id |-> id, offset |-> file, fileSize |-> fileSize,
                             addr |-> mem, size |-> size])]

ComputeSections ==
    FoldLeft(PlaceSection, [seg |-> "__TEXT", file |-> 0, mem |-> ImageBase, at |-> <<>>],
             BuildOutputOrder).at

ComputeSegmentLayout(sections) ==
    [k \in DOMAIN sizes.active |->
        LET own == SelectSeq(sections, LAMBDA s :
                       /\ SegmentOf(s.id) = sizes.active[k]
                       /\ (s.size # 0 \/ s.id \in sizes.kept))
            fileEnd == MaxOf({own[j].offset + own[j].fileSize : j \in DOMAIN own})
            memEnd == MaxOf({own[j].addr + own[j].size : j \in DOMAIN own})
        IN [name |-> sizes.active[k], offset |-> own[1].offset, addr |-> own[1].addr,
            fileSize |-> fileEnd - own[1].offset, size |-> memEnd - own[1].addr]]

Position(s, x) == CHOOSE k \in DOMAIN s : s[k] = x
InputAddress(input, at) ==
    LET inputs == LoadedInputs(OutputSection(Input(input))) IN
    at[OutputSection(Input(input))] + PlaceInputs(inputs).at[Position(inputs, input)]

\* A symbol has a resolution when something asked for it.  Symbols of a
\* library have the value zero.
HasResolution(id) == flags[id] # {} \/ IsExported(id)
SymbolAddress(id, at) ==
    CASE IsDynamicLibrary(id[1])           -> 0
      [] id[1] \in Objects /\ IsCommon(id) ->
             at[Common] + PlaceCommons.at[Position(Commons, id)]
      [] id[1] \in Objects /\ Symbol(id).sec # 0 ->
             InputAddress(<<id[1], Symbol(id).sec>>, at) + Symbol(id).off
      [] OTHER -> Symbol(id).off

\* create_resolution gives entries to symbols in the order of their ids.
GotAddress(id, at) == at[Got] + 8 * (Position(SelectSeq(Ids, NeedsGot), id) - 1)
PltAddress(id, at) == at[Stubs] + 12 * (Position(SelectSeq(Ids, NeedsPlt), id) - 1)

\* create_layout_ext: imports in the order of their entries.
SortedImports(got) == SortSeq(sizes.imports, LAMBDA a, b : got[a] < got[b])

\* One-based position of the library, 0 for one without a load command.
Ordinal(f) ==
    LET same == {k \in DOMAIN sizes.libraries : InstallName(sizes.libraries[k]) = InstallName(f)}
    IN IF same = {} THEN 0 ELSE CHOOSE k \in same : TRUE

LayoutOf(sections) ==
    LET at == [id \in ToSet(BuildOutputOrder) |->
                  sections[CHOOSE k \in DOMAIN sections : sections[k].id = id].addr]
        got == [id \in {Ids[k] : k \in DOMAIN Ids} |-> IF NeedsGot(id) THEN GotAddress(id, at) ELSE 0]
    IN [sections |-> sections,
        segments |-> ComputeSegmentLayout(sections),
        got     |-> got,
        plt     |-> [id \in DOMAIN got |-> IF NeedsPlt(id) THEN PltAddress(id, at) ELSE 0],
        value   |-> [id \in DOMAIN got |->
                        IF HasResolution(id) THEN SymbolAddress(id, at) ELSE 0],
        input   |-> [i \in {x \in ToSet(InputSections) : IsLoaded(x[1], x[2])} |-> InputAddress(i, at)],
        imports |-> SortedImports(got),
        local   |-> SortSeq(SelectSeq(Ids, LAMBDA id : NeedsGot(id) /\ ~IsDynamicLibrary(id[1])),
                            LAMBDA a, b : got[a] < got[b])]

SectionLayout(id) == lay.sections[CHOOSE k \in DOMAIN lay.sections : lay.sections[k].id = id]
SegmentIndex(name) == CHOOSE k \in DOMAIN lay.segments : lay.segments[k].name = name
TextSegment == lay.segments[SegmentIndex("__TEXT")]

Empty == [x \in {} |-> 0]
EmptyOutput ==
    [header |-> <<>>, commands |-> <<>>, words |-> Empty, stubs |-> Empty,
     symtab |-> Empty, strtab |-> Empty, trie |-> <<>>, table |-> <<>>, metadata |-> <<>>,
     uuid |-> <<>>, hashes |-> <<>>]

ComputeLayout ==
    /\ step = "layout"
    /\ lay' = LayoutOf(ComputeSections)
    /\ step' = "begin"
    /\ UNCHANGED <<prog, error, scanned, flags, queue, imported, loaded, sizes, unwritten, fixups, out>>

Fails(why) == /\ error' = why /\ step' = "failed"

\* macho_section_indexes: every section header has an index of eight bits.
HeaderCount == Cardinality({id \in sizes.kept : HasHeader(id) /\ Contains(BuildOutputOrder, id)})
BeginWrite ==
    /\ step = "begin"
    /\ IF HeaderCount > MaxSectionIndex THEN Fails("section index") /\ UNCHANGED unwritten
       ELSE /\ unwritten' = Objects \cup {0, Len(prog.files) + 1}
            /\ step' = "files" /\ UNCHANGED error
    /\ UNCHANGED <<prog, scanned, flags, queue, imported, loaded, sizes, lay, fixups, out>>

(***************************************************************************)
(* Writing of files, in parallel.  The prelude is file 0; its commands     *)
(* must fill the space that was reserved for them.                         *)
(***************************************************************************)
GetSegmentSections(seg) ==
    SelectSeq(lay.sections, LAMBDA s :
        s.id \in sizes.kept /\ HasHeader(s.id) /\ SegmentOf(s.id) = seg)

WriteSegmentCommands ==
    <<[cmd |-> "segment", size |-> 72, name |-> "__PAGEZERO", sections |-> <<>>]>>
    \o [k \in DOMAIN lay.segments |->
           LET own == GetSegmentSections(lay.segments[k].name) IN
           [cmd |-> "segment", size |-> SegmentCommandSize(Len(own)),
            name |-> lay.segments[k].name, sections |-> own]]

\* The entry point must be an address in the image.
EntryFails ==
    prog.exec /\ (IF Entry = <<>> THEN TRUE
                 ELSE \/ IsDynamicLibrary(Head(Entry)[1]) \/ ~HasResolution(Head(Entry))
                      \/ lay.value[Head(Entry)] < TextSegment.addr)
WriteEntryPointCommand ==
    [cmd |-> "main", size |-> 24, offset |-> lay.value[Head(Entry)] - TextSegment.addr]
WriteLinkeditCommand(cmd, id, dataSize) ==
    [cmd |-> cmd, size |-> 16, offset |-> SectionLayout(id).offset, dataSize |-> dataSize]
WriteSymtabCommand ==
    [cmd |-> "symtab", size |-> 24, nsyms |-> SectionLayout(SymtabGlobal).fileSize \div 16]

\* build_exports_trie: symbols without an address are dropped; the shape is
\* only reused when none was.
TrieSymbol(id) ==
    LET absolute == IsAbsolute(id)
        weak == IF Symbol(id).scope = "weak" THEN 4 ELSE 0
    IN [name |-> Symbol(id).name,
        address |-> lay.value[id] - (IF absolute THEN 0 ELSE TextSegment.addr),
        flags |-> weak + (IF absolute THEN 2 ELSE 0)]
BuildExportsTrie ==
    LET survived == SelectSeq(sizes.defs, LAMBDA id :
                        IsAbsolute(id) \/ lay.value[id] >= TextSegment.addr)
        symbols == [k \in DOMAIN survived |-> TrieSymbol(survived[k])]
    IN IF ~prog.dynsym THEN <<>>
       ELSE IF Len(survived) = Len(sizes.defs) THEN BuildWithTopology(symbols, sizes.topology)
       ELSE BuildWithTopology(symbols, Topology([k \in DOMAIN symbols |-> symbols[k].name]))

WriteLoadCommands(trie) ==
    WriteSegmentCommands
    \o (IF prog.exec THEN <<WriteEntryPointCommand>> ELSE <<>>)
    \o <<[cmd |-> "uuid", size |-> 24]>>
    \o (IF prog.version THEN <<[cmd |-> "build_version", size |-> 24]>> ELSE <<>>)
    \o <<[cmd |-> "dylinker", size |-> AlignUp(12 + 13, 8)]>>
    \o [k \in DOMAIN sizes.libraries |->
           [cmd |-> "dylib", size |-> LoadDylibCommandSize(sizes.libraries[k]),
            install |-> InstallName(sizes.libraries[k])]]
    \o <<WriteLinkeditCommand("fixups", ChainedFixupTable,
                              SectionLayout(ChainedFixupTable).fileSize)>>
    \o (IF prog.dynsym
          THEN <<WriteLinkeditCommand("trie", ExportsTrieSection, Len(trie))>> ELSE <<>>)
    \o <<WriteSymtabCommand>>
    \o <<WriteLinkeditCommand("signature", CodeSignature, SectionLayout(CodeSignature).fileSize)>>

WritePrelude(commands) ==
    [out EXCEPT !.header = [count |-> sizes.count,
                            size  |-> SectionLayout(LoadCommands).fileSize,
                            tlv   |-> \E k \in DOMAIN lay.sections :
                                /\ SectionType(lay.sections[k].id) = S_THREAD_LOCAL_VARIABLES
                                /\ lay.sections[k].size # 0],
                !.commands = commands]

(***************************************************************************)
(* The relocations of a section.  Subtractors and addends wait for the     *)
(* relocation after them.  A symbol without a resolution stands for the    *)
(* start of its section.  The number of a relocation that names a section  *)
(* is read as that of a symbol too, counted from zero.                     *)
(***************************************************************************)
GetSymbol(f, r) == <<f, IF r.extern THEN r.sym ELSE r.sym + 1>>
GetResolution(f, r) == Definition(GetSymbol(f, r))
HasTarget(f, r) ==
    LET id == GetSymbol(f, r) IN
    /\ id[2] <= Len(prog.files[f].symbols)
    /\ HasResolution(Definition(id)) \/ <<f, Symbol(id).sec>> \in DOMAIN lay.input
ResolvedValue(f, r) ==
    LET id == GetResolution(f, r) IN
    IF HasResolution(id) THEN lay.value[id] ELSE lay.input[<<f, Symbol(GetSymbol(f, r)).sec>>]

\* Operands of a difference name symbols, sections or nothing (R_ABS).
HasOperand(f, r) ==
    IF r.extern THEN HasTarget(f, r) ELSE r.sym = 0 \/ <<f, r.sym>> \in DOMAIN lay.input
SubtractorOperand(f, r) ==
    CASE r.extern                -> ResolvedValue(f, r)
      [] ~r.extern /\ r.sym = 0  -> 0
      [] ~r.extern /\ r.sym # 0  -> lay.input[<<f, r.sym>>]

TlsStarts == {lay.sections[k].addr : k \in {k \in DOMAIN lay.sections :
                  lay.sections[k].size # 0 /\ IsTls(SectionType(lay.sections[k].id))}}
TlsStart == CHOOSE a \in TlsStarts : \A b \in TlsStarts : a <= b

IsTlvTemplateOffset(sec, r) == sec.ty = S_THREAD_LOCAL_VARIABLES /\ r.at % 24 = 16

RelocationTarget(f, r) ==
    LET id == GetResolution(f, r) IN
    CASE RelocationKind(r) \in {"got", "gotrelative"}          -> lay.got[id]
      [] r.type = "branch26" /\ lay.plt[id] # 0                -> lay.plt[id]
      [] OTHER                                                 -> ResolvedValue(f, r)

\* A value is what was stored, or the address to which an instruction leads.
ApplyRelocation(f, sec, r, addend) ==
    LET target == RelocationTarget(f, r) + addend IN
    IF RelocationKind(r) = "absolute" /\ IsTlvTemplateOffset(sec, r)
      THEN target - TlsStart ELSE target
\* Accesses to thread-local variables of libraries, and entries of the
\* global offset table that no scan has asked for, are errors.
ApplyRelocationFails(f, sec, r, addend) ==
    IF ~HasTarget(f, r) THEN TRUE
    ELSE \/ RelocationKind(r) \in {"got", "gotrelative"} /\ lay.got[GetResolution(f, r)] = 0
         \/ r.type = "tlvp_pageoff12"
            /\ (~prog.exec \/ IsDynamicLibrary(GetResolution(f, r)[1]) \/ IsAbsolute(GetResolution(f, r)))
         \/ RelocationKind(r) = "absolute" /\ IsTlvTemplateOffset(sec, r)
            /\ (IF TlsStarts = {} THEN TRUE ELSE RelocationTarget(f, r) + addend < TlsStart)

ApplySubtractorPair(f, subtractor, r) ==
    SubtractorOperand(f, r) - SubtractorOperand(f, subtractor) + r.inplace
SubtractorPairFails(f, subtractor, r) ==
    \/ r.type # "unsigned" \/ r.at # subtractor.at \/ r.length # subtractor.length
    \/ r.length \notin {2, 3} \/ ~HasOperand(f, r) \/ ~HasOperand(f, subtractor)

Word(kind, value, next) == [kind |-> kind, value |-> value, addend |-> 0, next |-> next]
Pending == [subtractor |-> <<>>, addend |-> <<>>]

\* The words of a section; failed when a relocation is not supported.
WriteObjectSection(f, s) ==
    LET sec == prog.files[f].sections[s]
        Failed(state) == [state EXCEPT !.failed = TRUE]
        Put(state, r, value) ==
            [state EXCEPT !.words = [a \in {lay.input[<<f, s>>] + r.at} |-> Word("plain", value, 0)] @@ @]
        Apply(state, r) ==
            LET subtractor == state.pending.subtractor
                addend == IF state.pending.addend = <<>> THEN 0 ELSE state.pending.addend[1]
            IN CASE state.failed         -> state
                 [] ~state.failed /\ r.type = "addend" ->
                        IF state.pending.addend # <<>> THEN Failed(state)
                        ELSE [state EXCEPT !.pending.addend = <<r.value>>]
                 [] ~state.failed /\ r.type = "subtractor" ->
                        IF subtractor # <<>> THEN Failed(state)
                        ELSE [state EXCEPT !.pending.subtractor = <<r>>]
                 [] ~state.failed /\ r.type \notin {"addend", "subtractor"} /\ subtractor # <<>> ->
                        IF SubtractorPairFails(f, subtractor[1], r) THEN Failed(state)
                        ELSE [Put(state, r, ApplySubtractorPair(f, subtractor[1], r))
                                EXCEPT !.pending.subtractor = <<>>]
                 [] OTHER ->
                        IF ApplyRelocationFails(f, sec, r, addend) THEN Failed(state)
                        ELSE [Put(state, r, ApplyRelocation(f, sec, r, addend))
                                EXCEPT !.pending.addend = <<>>]
        end == FoldLeft(Apply, [pending |-> Pending, words |-> Empty, failed |-> FALSE], sec.relocs)
    IN [words |-> end.words, failed |-> end.failed \/ end.pending # Pending]

\* The symbol table: string offsets and entries of a file follow those of
\* the files before it.
StringsBefore(f) ==
    1 + SumSeq([g \in 1..(f - 1) |->
            SumSeq([k \in DOMAIN CopiedOf(g) |-> Len(Symbol(CopiedOf(g)[k]).name) + 1])])
EntriesBefore(f) == SumSeq([g \in 1..(f - 1) |-> Len(CopiedOf(g))])

\* Mutant: empty sections are counted too.
SectionIndexOfAll(id) ==
    Cardinality({k \in DOMAIN lay.sections :
        /\ HasHeader(lay.sections[k].id)
        /\ k <= CHOOSE j \in DOMAIN lay.sections : lay.sections[j].id = id})
\* macho_section_indexes: one-based, in the output order.
SectionIndex(id) ==
    Cardinality({k \in DOMAIN lay.sections :
        /\ lay.sections[k].id \in sizes.kept /\ HasHeader(lay.sections[k].id)
        /\ k <= CHOOSE j \in DOMAIN lay.sections : lay.sections[j].id = id})

SymbolSectionIndex(id) ==
    CASE Symbol(id).sec # 0 -> SectionIndex(OutputSection(Input(<<id[1], Symbol(id).sec>>)))
      [] IsCommon(id)       -> SectionIndex(Common)
      [] OTHER              -> 0

WriteSymbols(f) ==
    LET copied == CopiedOf(f)
        strx == FoldLeft(LAMBDA o, id : Append(o, Last(o) + Len(Symbol(id).name) + 1),
                         <<StringsBefore(f)>>, copied)
    IN [symtab |-> [n \in {EntriesBefore(f) + k : k \in DOMAIN copied} |->
                       LET k == n - EntriesBefore(f) IN
                       [strx |-> strx[k], section |-> SymbolSectionIndex(copied[k]),
                        value |-> lay.value[copied[k]]]],
        strtab |-> [o \in {strx[k] : k \in DOMAIN copied} |->
                       Symbol(copied[CHOOSE k \in DOMAIN copied : strx[k] = o]).name]]

HasDataInFile(f, s) == ~NoBits(SectionType(OutputSection(prog.files[f].sections[s])))
WrittenSections(f) == SelectSeq(LoadedSections(f), LAMBDA s : HasDataInFile(f, s))
WriteObjectFails(f) ==
    \E k \in DOMAIN WrittenSections(f) : WriteObjectSection(f, WrittenSections(f)[k]).failed
WriteObject(f) ==
    LET symbols == WriteSymbols(f)
    IN [out EXCEPT !.words = FoldLeft(LAMBDA w, s : WriteObjectSection(f, s).words @@ w, @, WrittenSections(f)),
                   !.symtab = symbols.symtab @@ @,
                   !.strtab = symbols.strtab @@ @]

WriteFile(f) ==
    /\ step = "files"
    /\ f \in unwritten
    /\ unwritten' = unwritten \ {f}
    /\ LET trie == IF f \in Objects THEN <<>> ELSE BuildExportsTrie
           noEntry == f = 0 /\ EntryFails
           commands == IF f = 0 /\ ~noEntry THEN WriteLoadCommands(trie) ELSE <<>>
           commandsSize == SumSeq([k \in DOMAIN commands |-> commands[k].size])
           why == CASE noEntry -> "entry"
                    [] f \in Objects /\ WriteObjectFails(f) -> "relocation"
                    [] f = 0 /\ ~noEntry /\ commandsSize # sizes.size[LoadCommands] -> "load commands"
                    [] f > Len(prog.files) /\ Len(trie) > sizes.size[ExportsTrieSection]
                           -> "exports trie"
                    [] OTHER -> ""
       IN IF why # "" THEN Fails(why) /\ UNCHANGED out
          ELSE /\ out' = CASE f = 0        -> WritePrelude(commands)
                           [] f \in Objects -> WriteObject(f)
                           [] OTHER         -> [out EXCEPT !.trie = trie]
               /\ UNCHANGED <<error, step>>
    /\ UNCHANGED <<prog, scanned, flags, queue, imported, loaded, sizes, lay, fixups>>

(***************************************************************************)
(* The steps after the files, in the order of write().                     *)
(***************************************************************************)
Steps == <<"files", "got", "plt", "collect", "apply", "table", "metadata", "uuid", "hashes",
           "done">>
StepAfter(s) == Steps[Position(Steps, s) + 1]

FilesWritten ==
    /\ step = "files" /\ unwritten = {}
    /\ step' = StepAfter(step)
    /\ UNCHANGED <<prog, error, scanned, flags, queue, imported, loaded, sizes, lay, unwritten,
                   fixups, out>>

Bind(ordinal, addend, next) ==
    [kind |-> "bind", value |-> ordinal, addend |-> addend, next |-> next]
Rebase(offset, next) == Word("rebase", offset, next)

\* The words of the table are complete except for the links between them,
\* which apply_chained_fixups replaces.
GotEntries ==
    SortSeq(lay.imports \o lay.local, LAMBDA a, b : lay.got[a] < lay.got[b])
GotWord(k) ==
    LET id == GotEntries[k]
        next == IF k = Len(GotEntries) THEN 0 ELSE 2
    IN IF IsDynamicLibrary(id[1]) THEN Bind(Position(lay.imports, id), 0, next)
       ELSE Rebase(lay.value[id] - ImageBase, next)

WriteGotEntries ==
    /\ step = "got"
    /\ out' = [out EXCEPT !.words =
           [a \in {lay.got[GotEntries[k]] : k \in DOMAIN GotEntries} |->
               GotWord(CHOOSE k \in DOMAIN GotEntries : lay.got[GotEntries[k]] = a)] @@ @]
    /\ step' = StepAfter(step)
    /\ UNCHANGED <<prog, error, scanned, flags, queue, imported, loaded, sizes, lay, unwritten,
                   fixups>>

\* A stub loads the entry of its symbol.
WritePltEntries ==
    /\ step = "plt"
    /\ LET stubs == {id \in ToSet(lay.imports) : lay.plt[id] # 0} IN
       out' = [out EXCEPT !.stubs =
           [a \in {lay.plt[id] : id \in stubs} |->
               lay.got[CHOOSE id \in stubs : lay.plt[id] = a]]]
    /\ step' = StepAfter(step)
    /\ UNCHANGED <<prog, error, scanned, flags, queue, imported, loaded, sizes, lay, unwritten,
                   fixups>>

(***************************************************************************)
(* Chained fixups: the pointers that the loader has to change, found again *)
(* from the relocations.                                                   *)
(***************************************************************************)
NotAFixup == 0
FixupLocation(address) ==
    LET within == {k \in DOMAIN lay.segments :
            /\ lay.segments[k].addr <= address
            /\ address + 8 <= lay.segments[k].addr + lay.segments[k].fileSize}
    IN IF within = {} THEN NotAFixup
       ELSE LET k == CHOOSE k \in within : \A j \in within : k <= j IN
            IF SegmentIsWritable(lay.segments[k].name) THEN k ELSE NotAFixup

FixupTarget(f, r, address) ==
    LET id == GetResolution(f, r)
        value == out.words[address].value
    IN IF IsDynamicLibrary(id[1])
         THEN Bind(Position(lay.imports, id), value - ResolvedValue(f, r), 0)
         ELSE Rebase(value, 0)

CollectSectionFixups(f, s) ==
    LET sec == prog.files[f].sections[s]
        Collect(state, r) ==
            LET address == lay.input[<<f, s>>] + r.at IN
            IF r.type = "subtractor" THEN [state EXCEPT !.paired = TRUE]
            ELSE IF state.paired THEN [state EXCEPT !.paired = FALSE]
            ELSE IF \/ r.type # "unsigned" \/ r.length # 3 \/ r.pcrel
                    \/ IsTlvTemplateOffset(sec, r)
                    \/ FixupLocation(address) = NotAFixup
              THEN state
            ELSE [state EXCEPT !.fixups = Append(@,
                     [segment |-> FixupLocation(address), address |-> address,
                      target |-> FixupTarget(f, r, address)])]
    IN FoldLeft(Collect, [paired |-> FALSE, fixups |-> <<>>], sec.relocs).fixups

\* The sections of all objects, then the entries of imports and local symbols.
CollectedFixups ==
    FlattenSeq([k \in DOMAIN InputSections |->
        IF InputSections[k] \in DOMAIN lay.input
          THEN CollectSectionFixups(InputSections[k][1], InputSections[k][2]) ELSE <<>>])
    \o [k \in DOMAIN lay.imports |->
           [segment |-> FixupLocation(lay.got[lay.imports[k]]),
            address |-> lay.got[lay.imports[k]], target |-> Bind(k, 0, 0)]]
    \o [k \in DOMAIN lay.local |->
           [segment |-> FixupLocation(lay.got[lay.local[k]]),
            address |-> lay.got[lay.local[k]], target |-> Rebase(lay.value[lay.local[k]], 0)]]

Conflicting(found) ==
    \E i, j \in DOMAIN found : found[i].address = found[j].address /\ found[i] # found[j]

CollectChainedFixups ==
    /\ step = "collect"
    /\ LET found == CollectedFixups
           addendTooLarge == \E k \in DOMAIN found :
               found[k].target.kind = "bind" /\ found[k].target.addend \notin 0..255
       IN \/ /\ addendTooLarge
             /\ Fails("bind addend") /\ UNCHANGED fixups
          \/ /\ ~addendTooLarge /\ Conflicting(found)
             /\ Fails("conflicting fixups") /\ UNCHANGED fixups
          \/ /\ ~addendTooLarge /\ ~Conflicting(found)
             /\ fixups' = SortSeq(Unique(found), LAMBDA a, b :
                    \/ a.segment < b.segment
                    \/ a.segment = b.segment /\ a.address < b.address)
             /\ step' = StepAfter(step) /\ UNCHANGED error
    /\ UNCHANGED <<prog, scanned, flags, queue, imported, loaded, sizes, lay, unwritten, out>>

\* Mutant: links lead to the next page too.
NextStrideAcrossPages(k) ==
    IF k < Len(fixups) /\ fixups[k + 1].segment = fixups[k].segment
      THEN (fixups[k + 1].address - fixups[k].address) \div 4 ELSE 0
\* Links lead to the next pointer of the same page, in words of four bytes.
NextStride(k) ==
    IF /\ k < Len(fixups)
       /\ fixups[k + 1].segment = fixups[k].segment
       /\ fixups[k + 1].address \div PageSize = fixups[k].address \div PageSize
      THEN (fixups[k + 1].address - fixups[k].address) \div 4 ELSE 0

ChainedWord(k) ==
    LET target == fixups[k].target IN
    IF target.kind = "bind" THEN [target EXCEPT !.next = NextStride(k)]
    ELSE Rebase(target.value - TextSegment.addr, NextStride(k))

ApplyChainedFixups ==
    /\ step = "apply"
    /\ out' = [out EXCEPT !.words =
           [a \in {fixups[k].address : k \in DOMAIN fixups} |->
               ChainedWord(CHOOSE k \in DOMAIN fixups : fixups[k].address = a)] @@ @]
    /\ step' = StepAfter(step)
    /\ UNCHANGED <<prog, error, scanned, flags, queue, imported, loaded, sizes, lay, unwritten,
                   fixups>>

(***************************************************************************)
(* The table of page starts and imports.  Segments are counted with        *)
(* __PAGEZERO, which comes first.                                          *)
(***************************************************************************)
NoStart == -1
StartsInSegment(k) ==
    LET own == SelectSeq(fixups, LAMBDA x : x.segment = k)
        Offset(x) == x.address - lay.segments[k].addr
        pages == Offset(Last(own)) \div PageSize + 1
    IN IF own = <<>> THEN <<>>
       ELSE [p \in 1..pages |->
                LET first == SelectSeq(own, LAMBDA x : Offset(x) \div PageSize = p - 1) IN
                IF first = <<>> THEN NoStart ELSE Offset(Head(first)) % PageSize]

SegmentRecord(k) ==
    [offset |-> lay.segments[k].addr - TextSegment.addr, pages |-> StartsInSegment(k)]
StartsInImage ==
    <<[offset |-> 0, pages |-> <<>>]>> \o [k \in DOMAIN lay.segments |-> SegmentRecord(k)]

WriteImports ==
    [k \in DOMAIN lay.imports |->
        [library |-> Ordinal(lay.imports[k][1]), name |-> Symbol(lay.imports[k]).name]]

TableSize(starts) ==
    28 + 4 * (Len(starts) + 1)
    + SumSeq([k \in DOMAIN starts |->
          IF starts[k].pages = <<>> THEN 0 ELSE 22 + 2 * Len(starts[k].pages)])
    + 4 * Len(lay.imports)

WriteChainedFixupTable ==
    /\ step = "table"
    /\ LET starts == StartsInImage
           why == CASE Len(lay.segments) + 1 > 6 -> "segments"
                    [] TableSize(starts) > sizes.size[ChainedFixupTable] -> "table size"
                    [] \E k \in DOMAIN lay.imports : Ordinal(lay.imports[k][1]) = 0 -> "library"
                    [] OTHER -> ""
       IN IF why # "" THEN Fails(why) /\ UNCHANGED out
          ELSE /\ out' = [out EXCEPT !.table = [starts |-> starts, imports |-> WriteImports]]
               /\ step' = StepAfter(step) /\ UNCHANGED error
    /\ UNCHANGED <<prog, scanned, flags, queue, imported, loaded, sizes, lay, unwritten, fixups>>

(***************************************************************************)
(* Signature and UUID                                                      *)
(***************************************************************************)
Hash(x) == <<x>>
SignedData(o) == [o EXCEPT !.metadata = <<>>, !.hashes = <<>>]

WriteCodeSignatureMetadata ==
    /\ step = "metadata"
    /\ LET sig == SectionLayout(CodeSignature) IN
       out' = [out EXCEPT !.metadata =
                   [slots |-> DivCeil(sig.offset, 4096), limit |-> sig.offset,
                    execBase |-> TextSegment.offset, execLimit |-> TextSegment.fileSize],
                          !.hashes = <<>>]
    /\ step' = StepAfter(step)
    /\ UNCHANGED <<prog, error, scanned, flags, queue, imported, loaded, sizes, lay, unwritten,
                   fixups>>

WriteUuid ==
    /\ step = "uuid"
    /\ out' = [out EXCEPT !.uuid = Hash(out)]
    /\ step' = StepAfter(step)
    /\ UNCHANGED <<prog, error, scanned, flags, queue, imported, loaded, sizes, lay, unwritten,
                   fixups>>

WriteCodeSignatureHashes ==
    /\ step = "hashes"
    /\ LET sig == SectionLayout(CodeSignature)
           room == sig.fileSize - HeadersSize
       IN IF room # DivCeil(sig.offset, 4096) * 32
            THEN Fails("hash allocation") /\ UNCHANGED out
            ELSE /\ out' = [out EXCEPT !.hashes = Hash(SignedData(out))]
                 /\ step' = StepAfter(step) /\ UNCHANGED error
    /\ UNCHANGED <<prog, scanned, flags, queue, imported, loaded, sizes, lay, unwritten, fixups>>

(***************************************************************************)
(* The link                                                                *)
(***************************************************************************)
Init ==
    /\ prog \in Programs
    /\ step = "scan" /\ error = ""
    /\ scanned = [f \in Objects \cup {0} |-> 0]
    /\ flags = [id \in ToSet(Ids) |-> {}]
    /\ queue = [f \in Libraries |-> <<>>]
    /\ imported = [f \in Libraries |-> <<>>]
    /\ loaded = [f \in Libraries |-> ~prog.deadStripDylibs]
    /\ sizes = <<>> /\ lay = <<>> /\ unwritten = {} /\ fixups = <<>>
    /\ out = EmptyOutput

Next ==
    \/ LoadEntryPoint
    \/ \E f \in Objects : ProcessRelocation(f)
    \/ \E f \in Libraries : LoadLibrarySymbol(f)
    \/ FinaliseSizes
    \/ ComputeLayout
    \/ BeginWrite
    \/ \E f \in unwritten : WriteFile(f)
    \/ FilesWritten
    \/ WriteGotEntries
    \/ WritePltEntries
    \/ CollectChainedFixups
    \/ ApplyChainedFixups
    \/ WriteChainedFixupTable
    \/ WriteCodeSignatureMetadata
    \/ WriteUuid
    \/ WriteCodeSignatureHashes

Spec == Init /\ [][Next]_vars

(***************************************************************************)
(* What the loader makes of the file                                       *)
(***************************************************************************)
RECURSIVE Chain(_)
Chain(address) ==
    LET next == out.words[address].next IN
    <<address>> \o (IF next = 0 THEN <<>> ELSE Chain(address + 4 * next))

\* The pointers that the loader visits, page by page.
Visited ==
    FlattenSeq([k \in DOMAIN out.table.starts |->
        LET record == out.table.starts[k] IN
        FlattenSeq([p \in DOMAIN record.pages |->
            IF record.pages[p] = NoStart THEN <<>>
            ELSE Chain(ImageBase + record.offset + (p - 1) * PageSize + record.pages[p])])])

Dylibs == SelectSeq(out.commands, LAMBDA c : c.cmd = "dylib")
\* What a pointer holds once the program runs.
AtRuntime(address) ==
    LET w == out.words[address]
        import == out.table.imports[w.value]
    IN CASE w.kind = "bind"   -> <<"bind", Dylibs[import.library].install, import.name, w.addend>>
         [] w.kind = "rebase" -> <<"at", ImageBase + w.value>>
         [] OTHER             -> <<"at", w.value>>

\* What the program means by a reference.
Address(id) ==
    IF Symbol(id).sec = 0 THEN lay.value[id]
    ELSE lay.input[<<id[1], Symbol(id).sec>>] + Symbol(id).off
Meant(id, addend) ==
    IF IsDynamicLibrary(id[1])
      THEN <<"bind", InstallName(id[1]), Symbol(id).name, addend>>
      ELSE <<"at", Address(id) + addend>>

Before(relocs, k) == IF k = 1 THEN "none" ELSE relocs[k - 1].type
AddendOf(relocs, k) == IF Before(relocs, k) = "addend" THEN relocs[k - 1].value ELSE 0
\* Relocations of sections that are written, except the first ones of pairs.
WrittenRelocations ==
    UNION {{<<i, k>> : k \in {k \in DOMAIN Input(i).relocs :
                                 Input(i).relocs[k].type \notin {"addend", "subtractor"}}}
           : i \in {i \in DOMAIN lay.input : HasDataInFile(i[1], i[2])}}
Relocation(x) == Input(x[1]).relocs[x[2]]
Place(x) == lay.input[x[1]] + Relocation(x).at
TargetOf(x) == Definition(<<x[1][1], Relocation(x).sym>>)
\* A relocation that names a section by its number, which get_resolution
\* (macho_writer.rs) takes for the number of a symbol.
NamesSection(x) == ~Relocation(x).extern
Difference(x) == Before(Input(x[1]).relocs, x[2]) = "subtractor"
\* What an operand of a difference means: a symbol, a section or nothing.
Operand(f, r) ==
    IF r.extern THEN Address(Definition(<<f, r.sym>>)) ELSE IF r.sym = 0 THEN 0 ELSE lay.input[<<f, r.sym>>]
IsPointer(x) ==
    LET r == Relocation(x) IN
    /\ r.type = "unsigned" /\ r.length = 3 /\ ~r.pcrel
    /\ ~Difference(x)
    /\ ~IsTlvTemplateOffset(Input(x[1]), r)
    /\ SegmentIsWritable(OutputSection(Input(x[1]))[1])

(***************************************************************************)
(* Properties                                                              *)
(***************************************************************************)
Done == step = "done"

\* The chains of the fixup table (apply_chained_fixups,
\* write_chained_fixup_table) lead the loader to every pointer of a writable
\* segment and to every entry of the global offset table, each exactly once
\* and to nothing else, and each pointer then holds the address or the
\* symbol of the library that the program means, except where it names a
\* section (NamesSection).
DyldSeesEveryPointer ==
    Done =>
        LET pointers == {x \in WrittenRelocations : IsPointer(x)}
            slots == {id \in DOMAIN lay.got : NeedsGot(id)}
        IN /\ ToSet(Visited) = {Place(x) : x \in pointers} \cup {lay.got[id] : id \in slots}
           /\ Cardinality(ToSet(Visited)) = Len(Visited)
           /\ \A x \in {p \in pointers : ~NamesSection(p)} :
                  AtRuntime(Place(x)) = Meant(TargetOf(x), AddendOf(Input(x[1]).relocs, x[2]))
           /\ \A id \in slots : AtRuntime(lay.got[id]) = Meant(id, 0)

\* Instructions and differences lead where the program says
\* (apply_relocation, apply_subtractor_pair, write_plt_entries): a call of a
\* function of a library goes through a stub and its entry to that
\* function, loads through the global offset table find the symbol, and the
\* third word of a thread-local descriptor finds the variable in the
\* template.
InstructionsReach ==
    Done => \A x \in {x \in WrittenRelocations : ~IsPointer(x)} :
        Difference(x) \/ ~NamesSection(x) =>
        LET r == Relocation(x)
            relocs == Input(x[1]).relocs
            leads == out.words[Place(x)].value
            id == TargetOf(x)
        IN CASE RelocationKind(r) \in {"got", "gotrelative"} -> AtRuntime(leads) = Meant(id, 0)
             [] Difference(x) ->
                    leads - r.inplace = Operand(x[1][1], r) - Operand(x[1][1], relocs[x[2] - 1])
             [] ~Difference(x) /\ IsTlvTemplateOffset(Input(x[1]), r) ->
                    TlsStart + leads = Address(id)
             [] r.type = "branch26" /\ IsDynamicLibrary(id[1]) ->
                    leads \in DOMAIN out.stubs /\ AtRuntime(out.stubs[leads]) = Meant(id, 0)
             [] OTHER -> <<"at", leads>> = Meant(id, AddendOf(relocs, x[2]))

\* At run time every reference of the program, in data or in code, leads to
\* what its symbol means.
ReferencesReach == DyldSeesEveryPointer /\ InstructionsReach

\* Why a program cannot be linked.
MixedSegment ==
    \E i, j \in DOMAIN lay.sections :
        /\ i < j /\ lay.sections[i].size # 0 /\ lay.sections[j].fileSize # 0
        /\ SegmentOf(lay.sections[i].id) = SegmentOf(lay.sections[j].id)
        /\ NoBits(SectionType(lay.sections[i].id))
StripsUsedDylib ==
    /\ prog.deadStripDylibs
    /\ \E f \in Libraries : prog.files[f].kind = "dylib" /\ imported[f] # <<>>
\* Relocations that no pair explains, thread-local variables of libraries
\* and sections whose number is that of no symbol.
UnsupportedRelocation(f) ==
    \E s \in ToSet(LoadedSections(f)) :
        LET relocs == prog.files[f].sections[s].relocs IN
        \E k \in DOMAIN relocs :
            LET r == relocs[k]
                next == IF k = Len(relocs) THEN "none" ELSE relocs[k + 1].type
            IN \/ r.type = "tlvp_pageoff12" /\ IsDynamicLibrary(Definition(<<f, r.sym>>)[1])
               \/ r.type \notin {"addend", "subtractor"} /\ ~r.extern
               \/ r.type = "subtractor" /\ (next # "unsigned" \/ relocs[k + 1].at # r.at)
               \/ r.type = "addend" /\ next \in {"addend", "none"}
MayFail(why) ==
    \/ why = "segments" /\ Len(ArbitrarySegments) > 1
    \/ why = "library" /\ StripsUsedDylib
    \/ why \in {"bind addend", "conflicting fixups"}
    \/ why = "entry" /\ (IF Entry = <<>> THEN TRUE ELSE IsDynamicLibrary(Head(Entry)[1]) \/ IsAbsolute(Head(Entry)))
    \/ why = "section index" /\ HeaderCount > MaxSectionIndex
    \/ why = "relocation" /\ \E f \in Objects : UnsupportedRelocation(f)

\* write_symbols finds no resolution for a symbol that nothing refers to and
\* that is not exported.
WithoutValue(id) == ~HasResolution(id)

\* The sizes that were reserved are those that are written, so that the
\* link does not fail for want of space; the headers describe the image:
\* commands fill what the file header announces, sections are mapped by
\* their segments, the entry point is that of the program, and each symbol
\* that has a resolution has its address and names the section header that
\* holds it (macho_section_indexes counts in another loop than
\* write_segment_commands).  A symbol that nothing asked for is written
\* with its section but the value zero (WithoutValue).
ImageIsConsistent ==
    /\ error # "" => MayFail(error)
    /\ Done =>
        LET headers == FlattenSeq([k \in DOMAIN out.commands |->
                           IF out.commands[k].cmd = "segment"
                             THEN out.commands[k].sections ELSE <<>>])
            copied == {id \in DOMAIN lay.value : IsCopied(id)}
        IN /\ Len(out.commands) = out.header.count
           /\ SumSeq([k \in DOMAIN out.commands |-> out.commands[k].size]) = out.header.size
           /\ \A k \in DOMAIN headers :
                  LET seg == lay.segments[SegmentIndex(SegmentOf(headers[k].id))] IN
                  headers[k].fileSize # 0 /\ ~MixedSegment =>
                      headers[k].offset - seg.offset = headers[k].addr - seg.addr
           /\ \A k \in DOMAIN out.commands : out.commands[k].cmd = "main" =>
                  ImageBase + out.commands[k].offset = Address(Head(Entry))
           /\ Cardinality(DOMAIN out.symtab) = Cardinality(copied)
           /\ \A id \in copied : \E n \in DOMAIN out.symtab :
                  LET e == out.symtab[n] IN
                  /\ out.strtab[e.strx] = Symbol(id).name
                  /\ e.value = IF WithoutValue(id) THEN 0 ELSE Address(id)
                  /\ IF IsAbsolute(id) THEN e.section = 0
                     ELSE /\ e.section \in DOMAIN headers
                          /\ ~WithoutValue(id) =>
                                 e.value \in headers[e.section].addr
                                              ..(headers[e.section].addr + headers[e.section].size)

\* The exports trie (trie.rs) fits the space that was reserved before the
\* addresses were known, and spells exactly the exported names that have an
\* address, each with its offset in the image.
ExportsAreFound ==
    /\ error # "exports trie"
    /\ Done => ReadTrie(out.trie) =
           {[name |-> Symbol(id).name,
             flags |-> (IF Symbol(id).scope = "weak" THEN 4 ELSE 0)
                       + (IF IsAbsolute(id) THEN 2 ELSE 0),
             address |-> IF IsAbsolute(id) THEN Symbol(id).off ELSE Address(id) - ImageBase]
            : id \in {d \in DOMAIN lay.value : IsExported(d) /\ Symbol(d).scope # "indirect"}}

\* The hashes of the code signature are those of the final file
\* (write_code_signature_hashes is last), there is one for each block, and
\* the UUID only depends on the file without UUID and hashes.
SignatureIsFinal ==
    Done =>
        /\ out.hashes = Hash(SignedData(out))
        /\ out.uuid = Hash([out EXCEPT !.uuid = <<>>, !.hashes = <<>>])
        /\ SectionLayout(CodeSignature).fileSize = HeadersSize + 32 * out.metadata.slots
        /\ 4096 * out.metadata.slots >= SectionLayout(CodeSignature).offset

\* The file as a whole: its headers, symbols, exports and signature agree
\* with each other and with the image.
FileIsConsistent == ImageIsConsistent /\ ExportsAreFound /\ SignatureIsFinal
=============================================================================
