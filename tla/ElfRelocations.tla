--------------------------- MODULE ElfRelocations ---------------------------
(***************************************************************************)
(* Relocations of ELF output (libjdxld/src/elf.rs, elf_writer.rs,          *)
(* elf_x86_64.rs, value_flags.rs, output_kind.rs).  Groups scan the        *)
(* relocations of their sections in parallel; each one adds flags to the   *)
(* symbol it refers to and reserves entries in the tables of the group     *)
(* that scans it.  The flags then decide how many entries of the GOT, the  *)
(* PLT and the relocation tables each symbol gets and where its GOT entry  *)
(* is.  The writer makes all of these decisions a second time, from the    *)
(* final flags, and takes the next free entry of a table whenever it needs *)
(* one.                                                                    *)
(*                                                                         *)
(* Abstractions.  x86-64 and sections that are allocated.  Every file is a *)
(* group of its own.  Sizes are numbers of entries.  An entry holds what   *)
(* it means at run time: <<what, symbol>>.  Instructions have the form     *)
(* that their relaxation expects.  Groups write to disjoint parts, so the  *)
(* order in which they write is fixed.                                     *)
(***************************************************************************)
EXTENDS Integers, Sequences, FiniteSets, Functions

CONSTANTS Programs,      \* the programs to choose from
          RelrEntrySize, \* RELR_ENTRY_SIZE
          RelrSlots,     \* relr_bitmap_slots
          GotHeader      \* num_got_plt_header_entries

(* OutputKind. *)
OutputKinds == {"static", "static pie", "dynamic", "dynamic pie", "shared"}
Parts == {"GOT", "GOT_RELR", "PLT_GOT", "RELA_PLT", "RELA_GENERAL", "RELA_RELATIVE", "RELR"}
None == "none"

TlsTypes == {"GOTTPOFF", "TPOFF32", "DTPOFF32", "TLSGD", "TLSLD", "GOTPC32_TLSDESC", "TLSDESC_CALL"}
Types == {"32", "64", "PC32", "PLT32", "GOTPCREL", "GOTPCRELX", "NONE"} \cup TlsTypes

(* A symbol, which its file defines or only refers to, and the flags that  *)
(* it gets from outside of sections.  It may be weak, and a version script *)
(* or a hidden reference may make it local.                                *)
IsSymbol(p, sym) ==
  /\ sym.file \in Range(p.files)
  /\ sym.hidden \in BOOLEAN /\ sym.weak \in BOOLEAN /\ sym.local \in BOOLEAN
  /\ sym.kind \in {"data", "function", "tls", "ifunc", "absolute", "undefined"}
  /\ sym.root \subseteq {"DIRECT", "EXPORT_DYNAMIC"}
  /\ sym.kind = "ifunc" /\ p.kind \in {"static", "static pie"} => sym.root = {}

(* canonicalise_undefined_symbols: whether something may define a symbol   *)
(* at run time that nothing defines now.                                   *)
MayBeDefinedLater(kind, sym) ==
  ~sym.hidden /\ (kind = "shared" \/ (kind \in {"dynamic", "dynamic pie"} /\ sym.weak))

(* A relocation that the linker supports.  The code takes for granted that *)
(* thread-local accesses are not to ifuncs, that hidden references are to  *)
(* definitions in objects, that position independent code has no absolute  *)
(* address of an ifunc or of something in a shared object, and that data   *)
(* refers to what may be in a shared object by absolute relocations.       *)
IsRelocation(p, section, rel) ==
  LET sym == p.symbols[rel.symbol]
      dynamic == sym.file = "so" \/ (sym.kind = "undefined" /\ MayBeDefinedLater(p.kind, sym))
  IN /\ rel.type \in Types /\ rel.symbol \in DOMAIN p.symbols
     /\ rel.offset \in Nat /\ rel.hidden \in BOOLEAN
     /\ sym.kind = "ifunc" => rel.type \notin TlsTypes
     /\ rel.hidden => ~dynamic
     /\ rel.type \in {"32", "64"} /\ ~section.writable /\ p.kind \notin {"static", "dynamic"}
          => sym.kind # "ifunc" /\ sym.file # "so"
     /\ rel.type = "PC32" /\ section.writable => ~dynamic

(* A program.  Symbols, sections and files are numbered; sections start at *)
(* even addresses.                                                         *)
IsProgram(p) ==
  /\ p.kind \in OutputKinds /\ p.relr \in BOOLEAN /\ p.relax \in BOOLEAN /\ p.copy \in BOOLEAN
  /\ p.copy => p.kind # "shared"
  /\ p.files = [k \in 1 .. Len(p.files) |-> p.files[k]] /\ Len(p.files) \in Nat
  /\ {"prelude", "epilogue"} \subseteq Range(p.files)
  /\ p.symbols = [s \in 1 .. Len(p.symbols) |-> p.symbols[s]] /\ Len(p.symbols) \in Nat
  /\ \A s \in DOMAIN p.symbols : IsSymbol(p, p.symbols[s])
  /\ p.sections = [i \in 1 .. Len(p.sections) |-> p.sections[i]] /\ Len(p.sections) \in Nat
  /\ \A i \in DOMAIN p.sections :
       LET section == p.sections[i]
           rels == section.relocations
       IN /\ section.file \in Range(p.files) /\ section.writable \in BOOLEAN /\ section.exec \in BOOLEAN
          /\ section.address \in Nat /\ section.address % 2 = 0
          /\ rels = [k \in 1 .. Len(rels) |-> rels[k]] /\ Len(rels) \in Nat
          /\ \A k \in DOMAIN rels : IsRelocation(p, section, rels[k])

ASSUME RelocationsAssumption ==
  /\ RelrEntrySize \in Nat \ {0} /\ RelrSlots \in Nat \ {0} /\ GotHeader \in Nat
  /\ \A p \in Programs : IsProgram(p)

VARIABLES
  prog,
  phase,    \* "scan", "write", "written", "failed"
  failure,  \* "none", "user", "insufficient", "excessive", "missing"
  next,     \* [sections -> next relocation]
  skip,     \* sections whose next relocation is skipped: RelocationModifier
  runs,     \* RelrEncoder of each section
  flags,    \* per_symbol_flags: sets of flags
  roots,    \* symbols that are still to be activated from outside of sections
  tlsld,    \* uses_tlsld
  copies,   \* copy_relocations
  sizes,    \* mem_sizes of each group
  got_at,   \* got_address of each symbol: part, group and index
  entries,  \* what the writer put into the tables: a sequence for each group
  places    \* what the writer put into the sections

vars == <<prog, phase, failure, next, skip, runs, flags, roots, tlsld, copies, sizes, got_at,
          entries, places>>
scan_state == <<next, skip, runs, flags, roots, tlsld, copies, sizes>>

Symbols == DOMAIN prog.symbols
Sections == DOMAIN prog.sections
Files == Range(prog.files)

(* Sums(seq)[n] is the sum of the first n numbers of a sequence, Joined of *)
(* the first n sequences.                                                  *)
Sums(seq) ==
  LET upto[n \in 0 .. Len(seq)] == IF n = 0 THEN 0 ELSE upto[n - 1] + seq[n]
  IN upto
Sum(seq) == Sums(seq)[Len(seq)]
Joined(seqs) ==
  LET upto[n \in 0 .. Len(seqs)] == IF n = 0 THEN <<>> ELSE upto[n - 1] \o seqs[n]
  IN upto
Join(seqs) == Joined(seqs)[Len(seqs)]

-----------------------------------------------------------------------------
(* OutputKind *)
IsStatic == prog.kind \in {"static", "static pie"}
IsExecutable == prog.kind # "shared"
IsPositionIndependent == prog.kind \in {"static pie", "dynamic pie", "shared"}
HasFixedLoadAddress == prog.kind \in {"static", "dynamic"}

(* compute_value_flags and canonicalise_undefined_symbols.  A definition   *)
(* that becomes local cannot be interposed, except for thread-local ones.  *)
NonInterposable(sym) ==
  /\ sym.file # "so"
  /\ IF sym.kind = "undefined" THEN ~MayBeDefinedLater(prog.kind, sym)
     ELSE sym.hidden \/ IsExecutable \/ (sym.local /\ sym.kind # "tls")

ValueFlags(sym) ==
  (IF NonInterposable(sym) THEN {"NON_INTERPOSABLE"} ELSE {})
  \cup (IF sym.local THEN {"DOWNGRADE_TO_LOCAL"} ELSE {})
  \cup IF sym.file = "so"
       THEN {"DYNAMIC"} \cup (IF sym.kind = "function" THEN {"DYNAMIC_FUNCTION"} ELSE {})
       ELSE CASE sym.kind = "undefined" -> {"ABSOLUTE"} \cup (IF NonInterposable(sym) THEN {} ELSE {"DYNAMIC"})
              [] sym.kind = "absolute" -> {"ABSOLUTE"}
              [] sym.kind = "ifunc" -> {"IFUNC"}
              [] OTHER -> {}

ResolutionFlags == {"DIRECT", "GOT", "PLT", "GOT_TLS_MODULE", "GOT_TLS_OFFSET",
                    "GOT_TLS_DESCRIPTOR", "EXPORT_DYNAMIC", "COPY_RELOCATION",
                    "IFUNC_GOT_FOR_ADDRESS"}
HasResolution(f) == f \cap ResolutionFlags # {}
IsInterposable(f) == "NON_INTERPOSABLE" \notin f
HasLinkTimeAddress(f) == f \cap {"IFUNC", "DYNAMIC", "ABSOLUTE"} = {}
NeedsTlsGot(f) == f \cap {"GOT_TLS_OFFSET", "GOT_TLS_MODULE", "GOT_TLS_DESCRIPTOR"} # {}
HasDynamicSymbol(f) == "DYNAMIC" \in f \/ ("EXPORT_DYNAMIC" \in f /\ IsInterposable(f))

(* ValueFlags::merge: the reference itself may be hidden. *)
Merge(f, rel) == IF rel.hidden THEN f \cup {"NON_INTERPOSABLE"} ELSE f

-----------------------------------------------------------------------------
(* Relocation types and their kinds *)
KindOf(type) ==
  CASE type \in {"32", "64"} -> "Absolute"
    [] type = "PC32" -> "Relative"
    [] type = "PLT32" -> "PltRelative"
    [] type \in {"GOTPCREL", "GOTPCRELX"} -> "GotRelative"
    [] type = "GOTTPOFF" -> "GotTpOff"
    [] type = "TPOFF32" -> "TpOff"
    [] type = "DTPOFF32" -> "DtpOff"
    [] type = "TLSGD" -> "TlsGd"
    [] type = "TLSLD" -> "TlsLd"
    [] type = "GOTPC32_TLSDESC" -> "TlsDesc"
    [] type = "TLSDESC_CALL" -> "TlsDescCall"
    [] type = "NONE" -> "None"

IsTls(kind) == kind \in {"DtpOff", "GotTpOff", "TlsDesc", "TlsDescCall", "TlsGd", "TlsLd", "TpOff"}
IsDisallowedForInterposable(type) == type \in {"32", "PC32"}

FlagsForKind(kind) ==
  CASE kind = "PltRelative" -> {"PLT", "GOT"}
    [] kind = "GotRelative" -> {"GOT"}
    [] kind = "GotTpOff" -> {"GOT_TLS_OFFSET"}
    [] kind = "TlsGd" -> {"GOT_TLS_MODULE"}
    [] kind \in {"TlsDesc", "TlsDescCall"} -> {"GOT_TLS_DESCRIPTOR"}
    [] kind \in {"Absolute", "Relative", "DtpOff", "TpOff"} -> {"DIRECT"}
    [] OTHER -> {}

(* new_relaxation: the types a relocation may become, with whether that is *)
(* mandatory; at most one.                                                 *)
Relaxations(type, f, section) ==
  LET interposable == IsInterposable(f)
      absolute == "ABSOLUTE" \in f /\ "DYNAMIC" \notin f
      fixed == HasLinkTimeAddress(f) /\ HasFixedLoadAddress
      To(t, mandatory) == {[type |-> t, mandatory |-> mandatory]}
  IN CASE "IFUNC" \in f -> IF type = "PC32" THEN To("PLT32", TRUE) ELSE {}
       [] "IFUNC" \notin f /\ ~section.exec -> {}
       [] "IFUNC" \notin f /\ section.exec ->
            CASE type = "GOTPCRELX" /\ (absolute \/ fixed) -> To("32", IsStatic)
              [] type = "GOTPCRELX" /\ ~(absolute \/ fixed) /\ ~interposable -> To("PC32", IsStatic)
              [] type = "GOTPCREL" /\ ~interposable -> To("PC32", FALSE)
              [] type = "PLT32" /\ ~interposable -> To("PC32", IsStatic)
              [] type = "GOTTPOFF" /\ IsExecutable /\ ~interposable -> To("TPOFF32", IsStatic)
              [] type = "TLSGD" /\ IsExecutable ->
                   IF interposable THEN To("GOTTPOFF", FALSE) ELSE To("TPOFF32", IsStatic)
              [] type = "TLSLD" /\ IsExecutable -> To("NONE", IsStatic)
              [] type = "GOTPC32_TLSDESC" /\ IsExecutable ->
                   To(IF interposable THEN "GOTTPOFF" ELSE "TPOFF32", IsStatic)
              [] type = "TLSDESC_CALL" /\ IsExecutable -> To("NONE", IsStatic)
              [] OTHER -> {}

Applied(rel, f, section) ==
  {r \in Relaxations(rel.type, f, section) : prog.relax \/ r.mandatory}
EffectiveType(rel, f, section) ==
  LET applied == Applied(rel, f, section)
  IN IF applied = {} THEN rel.type ELSE (CHOOSE r \in applied : TRUE).type

(* next_modifier: the call that follows is part of the relaxed sequence. *)
SkipsNext(rel, f, section) ==
  rel.type \in {"TLSGD", "TLSLD"} /\ Applied(rel, f, section) # {}

-----------------------------------------------------------------------------
(* RelrEncoder: a run is an address, and then a bitmap that covers the     *)
(* RelrSlots words from start.  Encode gives the new run and whether a new *)
(* entry is needed.                                                        *)
NoRun == [state |-> "NoRun", start |-> 0]
InWindow(start, address) ==
  /\ address >= start /\ address < start + RelrSlots * RelrEntrySize
  /\ (address - start) % RelrEntrySize = 0

Encode(run, address) ==
  LET following == run.start + RelrSlots * RelrEntrySize
      fresh == [run |-> [state |-> "AddressOnly", start |-> address + RelrEntrySize], new |-> TRUE]
  IN CASE run.state = "NoRun" -> fresh
       [] run.state = "AddressOnly" ->
            IF InWindow(run.start, address)
            THEN [run |-> [run EXCEPT !.state = "WithBitmap"], new |-> TRUE]
            ELSE fresh
       [] run.state = "WithBitmap" ->
            CASE InWindow(run.start, address) -> [run |-> run, new |-> FALSE]
              [] ~InWindow(run.start, address) /\ InWindow(following, address) ->
                   [run |-> [run EXCEPT !.start = following], new |-> TRUE]
              [] OTHER -> fresh

-----------------------------------------------------------------------------
Init ==
  /\ prog \in Programs
  /\ phase = "scan" /\ failure = None
  /\ next = [i \in Sections |-> 1] /\ skip = {}
  /\ runs = [i \in Sections |-> NoRun]
  /\ flags = [s \in Symbols |-> ValueFlags(prog.symbols[s])]
  /\ roots = {s \in Symbols : prog.symbols[s].root # {}}
  /\ tlsld = FALSE /\ copies = {}
  /\ sizes = [g \in Files |-> [p \in Parts |-> 0]]
  /\ got_at = [s \in Symbols |-> <<>>]
  /\ entries = [g \in Files |-> <<>>]
  /\ places = {}

(* The entry point, a symbol that a script assigns, an exported symbol. *)
ActivateRoot(s) ==
  /\ phase = "scan" /\ s \in roots
  /\ flags' = [flags EXCEPT ![s] = @ \cup prog.symbols[s].root]
  /\ roots' = roots \ {s}
  /\ UNCHANGED <<prog, phase, failure, next, skip, runs, tlsld, copies, sizes, got_at, entries, places>>

Fail(kind) == phase' = "failed" /\ failure' = kind

Reserve(g, part) == sizes' = [sizes EXCEPT ![g][part] = @ + 1]

(* GOT and PLT of an ifunc: in static executables note_relocation adds     *)
(* them for the first reference only.                                      *)
IfuncFlags(f, to_add, before) ==
  IF "IFUNC" \notin f THEN {}
  ELSE (IF ~IsStatic \/ ~HasResolution(before) THEN {"GOT", "PLT"} ELSE {})
       \cup (IF "GOT" \in to_add /\ HasFixedLoadAddress THEN {"IFUNC_GOT_FOR_ADDRESS"} ELSE {})

(* materialize_relocation_requirements: what the relocation itself needs. *)
DirectToInterposable(rel, f, section, to_add) ==
  LET Add(added) ==
        flags' = [flags EXCEPT ![rel.symbol] = @ \cup added \cup IfuncFlags(f, added, flags[rel.symbol])]
  IN /\ "DIRECT" \in to_add /\ IsInterposable(f)
     /\ UNCHANGED runs
     /\ \/ /\ prog.kind = "shared" /\ IsDisallowedForInterposable(rel.type)
           /\ Fail("user") /\ UNCHANGED <<sizes, flags>>
        \/ /\ ~(prog.kind = "shared" /\ IsDisallowedForInterposable(rel.type))
           /\ \/ /\ section.writable
                 /\ Reserve(section.file, "RELA_GENERAL") /\ Add(to_add)
                 /\ UNCHANGED <<phase, failure>>
              \/ /\ ~section.writable /\ "DYNAMIC_FUNCTION" \in f
                 /\ Add((to_add \ {"DIRECT"}) \cup {"PLT", "GOT"})
                 /\ UNCHANGED <<sizes, phase, failure>>
              \/ /\ ~section.writable /\ "DYNAMIC_FUNCTION" \notin f /\ "ABSOLUTE" \in f
                 /\ Add(to_add)
                 /\ UNCHANGED <<sizes, phase, failure>>
              \/ /\ ~section.writable /\ "DYNAMIC_FUNCTION" \notin f /\ "ABSOLUTE" \notin f /\ prog.copy
                 /\ Add(to_add \cup {"COPY_RELOCATION"})
                 /\ UNCHANGED <<sizes, phase, failure>>
              \/ /\ ~section.writable /\ "DYNAMIC_FUNCTION" \notin f /\ "ABSOLUTE" \notin f /\ ~prog.copy
                 /\ Fail("user") /\ UNCHANGED <<sizes, flags>>

RelativeInData(i, rel, section) ==
  LET encoded == Encode(runs[i], rel.offset)
  IN IF prog.relr /\ rel.offset % 2 = 0
     THEN /\ runs' = [runs EXCEPT ![i] = encoded.run]
          /\ IF encoded.new THEN Reserve(section.file, "RELR") ELSE UNCHANGED sizes
     ELSE Reserve(section.file, "RELA_RELATIVE") /\ UNCHANGED runs

ToLinkTimeAddress(i, rel, f, section, to_add) ==
  LET kind == KindOf(EffectiveType(rel, f, section))
      needs_ifunc == "IFUNC" \in f /\ kind = "Absolute" /\ section.writable /\ IsPositionIndependent
      needs_relative == IsPositionIndependent /\ kind = "Absolute" /\ HasLinkTimeAddress(f)
      Add == flags' = [flags EXCEPT ![rel.symbol] = @ \cup to_add \cup IfuncFlags(f, to_add, flags[rel.symbol])]
  IN /\ ~("DIRECT" \in to_add /\ IsInterposable(f))
     /\ \/ /\ needs_ifunc
           /\ Reserve(section.file, "RELA_GENERAL") /\ Add
           /\ UNCHANGED <<runs, phase, failure>>
        \/ /\ needs_relative /\ section.writable
           /\ RelativeInData(i, rel, section) /\ Add
           /\ UNCHANGED <<phase, failure>>
        \/ /\ needs_relative /\ ~section.writable
           /\ Fail("user") /\ UNCHANGED <<runs, sizes, flags>>
        \/ /\ ~needs_ifunc /\ ~needs_relative /\ Add
           /\ UNCHANGED <<runs, sizes, phase, failure>>

(* process_relocation *)
Scan(i) ==
  LET section == prog.sections[i]
      rel == section.relocations[next[i]]
      f == Merge(flags[rel.symbol], rel)
      kind == KindOf(EffectiveType(rel, f, section))
      to_add == FlagsForKind(kind)
  IN /\ phase = "scan" /\ next[i] <= Len(section.relocations) /\ i \notin skip
     /\ next' = [next EXCEPT ![i] = @ + 1]
     /\ skip' = IF SkipsNext(rel, f, section) THEN skip \cup {i} ELSE skip
     /\ \/ /\ IsTls(kind)
           /\ tlsld' = (tlsld \/ kind = "TlsLd")
           /\ flags' = [flags EXCEPT ![rel.symbol] = @ \cup to_add]
           /\ UNCHANGED <<runs, sizes, phase, failure>>
        \/ /\ ~IsTls(kind) /\ UNCHANGED tlsld
           /\ \/ DirectToInterposable(rel, f, section, to_add)
              \/ ToLinkTimeAddress(i, rel, f, section, to_add)
     /\ copies' = IF "COPY_RELOCATION" \in flags'[rel.symbol] THEN copies \cup {rel.symbol} ELSE copies
     /\ UNCHANGED <<prog, roots, got_at, entries, places>>

SkipNext(i) ==
  /\ phase = "scan" /\ i \in skip
  /\ next' = [next EXCEPT ![i] = @ + 1] /\ skip' = skip \ {i}
  /\ UNCHANGED <<prog, phase, failure, runs, flags, roots, tlsld, copies, sizes, got_at, entries, places>>

-----------------------------------------------------------------------------
(* Sizes and addresses of what the symbols need *)
IsGotRelr(f) ==
  /\ prog.relr /\ ~HasDynamicSymbol(f) /\ HasLinkTimeAddress(f) /\ IsPositionIndependent
  /\ "DOWNGRADE_TO_LOCAL" \notin f

Count(b) == IF b THEN 1 ELSE 0
RelativeParts(n) == [p \in Parts |-> IF p = (IF prog.relr THEN "RELR" ELSE "RELA_RELATIVE") THEN n ELSE 0]

(* Mutant: the second GOT entry of an ifunc comes without its own slot. *)
AllocateResolutionOnce(f) ==
  LET plain == "GOT" \in f /\ ~NeedsTlsGot(f)
  IN [p \in Parts |->
        CASE p = "GOT_RELR" -> Count(plain /\ IsGotRelr(f))
          [] p = "GOT" -> Count(plain /\ ~IsGotRelr(f))
          [] p = "PLT_GOT" -> Count(plain /\ "PLT" \in f)
          [] p = "RELA_PLT" -> Count(plain /\ "IFUNC" \in f)
          [] p = "RELA_GENERAL" -> Count(plain /\ "IFUNC" \notin f /\ HasDynamicSymbol(f))
          [] OTHER -> RelativeParts(Count(plain /\ ~IsGotRelr(f) /\ HasLinkTimeAddress(f)))[p]]

AllocateResolution(f) ==
  LET plain == "GOT" \in f /\ ~NeedsTlsGot(f)
      dynamic == HasDynamicSymbol(f)
      relr == plain /\ IsGotRelr(f)
      address == plain /\ ~dynamic /\ HasLinkTimeAddress(f) /\ IsPositionIndependent
      extra == "IFUNC_GOT_FOR_ADDRESS" \in f
      offset == "GOT_TLS_OFFSET" \in f
      module == "GOT_TLS_MODULE" \in f
      descriptor == "GOT_TLS_DESCRIPTOR" \in f
  IN [p \in Parts |->
        CASE p = "GOT_RELR" -> Count(relr)
          [] p = "GOT" -> Count(plain /\ ~relr) + Count(extra) + Count(offset) + 2 * Count(module)
                            + 2 * Count(descriptor)
          [] p = "PLT_GOT" -> Count(plain /\ "PLT" \in f)
          [] p = "RELA_PLT" -> Count(plain /\ "IFUNC" \in f)
          [] p = "RELA_GENERAL" ->
               Count(plain /\ "IFUNC" \notin f /\ dynamic)
               + Count(offset /\ (IsInterposable(f) \/ prog.kind = "shared"))
               + Count(module /\ (~IsExecutable \/ "DYNAMIC" \in f))
               + Count(module /\ dynamic) + Count(descriptor)
          [] OTHER -> RelativeParts(Count(address /\ ~relr)
                                    + Count(extra /\ IsPositionIndependent))[p]]

(* pre_finalise_sizes_prelude, allocate_for_copy_relocations *)
FilePart(g, p) ==
  CASE g = "prelude" /\ tlsld ->
         CASE p = "GOT" -> 2
           [] p = "RELA_GENERAL" -> Count(~IsExecutable)
           [] OTHER -> 0
    [] g = "so" /\ p = "RELA_GENERAL" -> Cardinality(copies)
    [] OTHER -> 0

(* apply_late_size_adjustments *)
GotRelrBitmapCount(n) == IF n = 0 THEN 0 ELSE 1 + ((n - 1 + RelrSlots - 1) \div RelrSlots)
Total(sz, p) == Sum([k \in DOMAIN prog.files |-> sz[prog.files[k]][p]])
LateAdjustments(sz) ==
  [sz EXCEPT !["prelude"]["GOT"] = @ + (IF Total(sz, "RELA_PLT") > 0 THEN GotHeader ELSE 0),
             !["epilogue"]["RELR"] =
                @ + (IF prog.relr THEN GotRelrBitmapCount(Total(sz, "GOT_RELR")) ELSE 0)]

FinalSizes ==
  LateAdjustments(
    [g \in Files |-> [p \in Parts |->
       sizes[g][p] + FilePart(g, p)
       + Sum([s \in Symbols |-> IF prog.symbols[s].file = g THEN AllocateResolution(flags[s])[p] ELSE 0])]])

(* create_resolution: the number of GOT entries, and the part. *)
GotEntries(f) ==
  CASE "PLT" \in f -> IF "IFUNC_GOT_FOR_ADDRESS" \in f THEN 2 ELSE 1
    [] "PLT" \notin f /\ NeedsTlsGot(f) ->
         Count("GOT_TLS_OFFSET" \in f) + 2 * Count("GOT_TLS_MODULE" \in f)
         + 2 * Count("GOT_TLS_DESCRIPTOR" \in f)
    [] "PLT" \notin f /\ ~NeedsTlsGot(f) -> Count("GOT" \in f)
GotPart(f) ==
  IF IsGotRelr(f) /\ GotEntries(f) = 1 /\ ~("PLT" \notin f /\ NeedsTlsGot(f)) THEN "GOT_RELR" ELSE "GOT"

CreateResolution(s) ==
  IF GotEntries(flags[s]) = 0 THEN <<>>
  ELSE LET part == GotPart(flags[s])
           file == prog.symbols[s].file
       IN <<part, file,
            1 + Sum([t \in 1 .. s - 1 |->
                       IF prog.symbols[t].file = file /\ GotPart(flags[t]) = part
                       THEN GotEntries(flags[t]) ELSE 0])>>
TlsldGotEntry == <<"GOT", "prelude", 1 + IF Total(sizes, "RELA_PLT") > 0 THEN GotHeader ELSE 0>>

FinaliseSizes ==
  /\ phase = "scan" /\ roots = {} /\ skip = {}
  /\ \A i \in Sections : next[i] > Len(prog.sections[i].relocations)
  /\ sizes' = FinalSizes
  /\ got_at' = [s \in Symbols |-> CreateResolution(s)]
  /\ phase' = "write"
  /\ UNCHANGED <<prog, failure, next, skip, runs, flags, roots, tlsld, copies, entries, places>>

-----------------------------------------------------------------------------
(* TableWriter.  Take gives an entry of a part and what is put into it.    *)
Take(part, what, s) == [part |-> part, means |-> <<what, s>>]
Rela(s) == Take("RELA_GENERAL", "rela", s)

(* write_relr_entry_flat, and what the entry then means *)
RelativeEntry(s) == Take(IF prog.relr THEN "RELR" ELSE "RELA_RELATIVE", "relative", s)
(* A dynamic symbol has an index; definitions get theirs from              *)
(* update_dynamic_symbol_resolutions.                                      *)
HasDynamicIndex(s) == flags[s] \cap {"DYNAMIC", "EXPORT_DYNAMIC"} # {}

(* A symbol that stays undefined has the address 0. *)
ProcessTlsOffset(s, f) ==
  CASE HasDynamicSymbol(f) -> <<Take("GOT", "tpoff symbol", s), Rela(s)>>
    [] ~HasDynamicSymbol(f) /\ prog.symbols[s].kind = "undefined" -> <<Take("GOT", "zero", s)>>
    [] ~HasDynamicSymbol(f) /\ prog.symbols[s].kind # "undefined" /\ IsExecutable ->
         <<Take("GOT", "tpoff", s)>>
    [] OTHER -> <<Take("GOT", "tpoff", s), Rela(s)>>

ProcessTlsModAndOffset(s, f) ==
  (IF IsExecutable /\ "DYNAMIC" \notin f
   THEN <<Take("GOT", "this module", s)>>
   ELSE <<Take("GOT", "module", s), Rela(s)>>)
  \o CASE HasDynamicIndex(s) /\ IsInterposable(f) -> <<Take("GOT", "dtpoff symbol", s), Rela(s)>>
       [] HasDynamicIndex(s) /\ ~IsInterposable(f) -> <<Take("GOT", "zero", s)>>
       [] ~HasDynamicIndex(s) -> <<Take("GOT", "dtpoff", s)>>

ProcessTlsDescriptor(s) ==
  <<Take("GOT", "descriptor", s), Take("GOT", "descriptor", s), Rela(s)>>

ProcessAddress(s, f) ==
  LET part == IF IsGotRelr(f) THEN "GOT_RELR" ELSE "GOT"
  IN CASE "DYNAMIC" \in f \/ ("EXPORT_DYNAMIC" \in f /\ IsInterposable(f) /\ "IFUNC" \notin f) ->
            <<Take(part, "symbol", s), Rela(s)>>
       [] "DYNAMIC" \notin f /\ "IFUNC" \in f ->
            <<Take(part, "ifunc", s), Take("RELA_PLT", "irelative", s)>>
       [] OTHER ->
            IF ~IsGotRelr(f) /\ HasLinkTimeAddress(f) /\ IsPositionIndependent
            THEN <<Take(part, "address", s), RelativeEntry(s)>>
            ELSE <<Take(part, "address", s)>>

(* process_resolution *)
ProcessResolution(s) ==
  LET f == flags[s]
  IN CASE got_at[s] = <<>> -> <<>>
       [] got_at[s] # <<>> /\ NeedsTlsGot(f) ->
            (IF "GOT_TLS_OFFSET" \in f THEN ProcessTlsOffset(s, f) ELSE <<>>)
            \o (IF "GOT_TLS_MODULE" \in f THEN ProcessTlsModAndOffset(s, f) ELSE <<>>)
            \o (IF "GOT_TLS_DESCRIPTOR" \in f THEN ProcessTlsDescriptor(s) ELSE <<>>)
       [] OTHER ->
            ProcessAddress(s, f)
            \o (IF "PLT" \in f THEN <<Take("PLT_GOT", "plt", s)>> ELSE <<>>)
            \o (IF "IFUNC_GOT_FOR_ADDRESS" \in f
                THEN <<Take("GOT", "plt", s)>> \o (IF IsPositionIndependent THEN <<RelativeEntry(s)>> ELSE <<>>)
                ELSE <<>>)

(* The offset of what is not thread-local (absolute values are not in the  *)
(* segment either), and descriptors of a static executable, end the link.  *)
TlsRefused(s) ==
  \/ /\ "GOT_TLS_OFFSET" \in flags[s] /\ ~HasDynamicSymbol(flags[s])
     /\ prog.symbols[s].kind \notin {"tls", "undefined"}
  \/ "GOT_TLS_DESCRIPTOR" \in flags[s] /\ IsStatic

ProcessResolutions(g) ==
  Join([s \in Symbols |-> IF prog.symbols[s].file = g THEN ProcessResolution(s) ELSE <<>>])

-----------------------------------------------------------------------------
(* apply_relocations: the writer skips what the scan skips. *)
NotSkipped(skips) ==
  LET live[k \in 0 .. Len(skips)] == k <= 1 \/ ~(live[k - 1] /\ skips[k - 1])
  IN live
Live(i) ==
  LET section == prog.sections[i]
      rels == section.relocations
  IN NotSkipped([k \in DOMAIN rels |-> SkipsNext(rels[k], Merge(flags[rels[k].symbol], rels[k]), section)])

(* value_with_addend *)
Value(s) ==
  CASE "IFUNC" \in flags[s] -> <<IF "PLT" \in flags[s] THEN "plt" ELSE "missing", s>>
    [] "IFUNC" \notin flags[s] /\ "DYNAMIC" \in flags[s] ->
         <<CASE "PLT" \in flags[s] -> "plt"
             [] "PLT" \notin flags[s] /\ "COPY_RELOCATION" \in flags[s] -> "copy"
             [] OTHER -> "zero", s>>
    [] OTHER -> <<"address", s>>

Plain(s) == [takes |-> <<>>, means |-> Value(s)]
Taking(takes, what, s) == [takes |-> takes, means |-> <<what, s>>]

(* write_absolute_relocation *)
WriteAbsolute(rel, f, section, encoded) ==
  LET s == rel.symbol
      odd == (section.address + rel.offset) % 2 = 1
  IN CASE "DYNAMIC" \in f /\ "ABSOLUTE" \in f /\ ~section.writable -> Taking(<<>>, "zero", s)
       [] IsInterposable(f) /\ section.writable -> Taking(<<Rela(s)>>, "symbol", s)
       [] ~IsInterposable(f) /\ "IFUNC" \in f /\ section.writable /\ IsPositionIndependent ->
            Taking(<<Rela(s)>>, "ifunc", s)
       [] OTHER ->
            IF IsPositionIndependent /\ "ABSOLUTE" \notin f
            THEN CASE prog.relr /\ ~odd /\ encoded.new -> [Plain(s) EXCEPT !.takes = <<Take("RELR", "relative", s)>>]
                   [] prog.relr /\ ~odd /\ ~encoded.new -> Plain(s)
                   [] OTHER -> [Plain(s) EXCEPT !.takes = <<Take("RELA_RELATIVE", "relative", s)>>]
            ELSE Plain(s)

(* The entries of the GOT that a relocation refers to *)
Slot(s, k) == <<got_at[s][1], got_at[s][2], got_at[s][3] + k>>
(* Mutant: every access uses the first entry of the symbol. *)
FirstSlots(kind, s) ==
  CASE kind \in {"GotRelative", "GotTpOff"} -> <<Slot(s, 0)>>
    [] kind \in {"TlsGd", "TlsDesc"} -> <<Slot(s, 0), Slot(s, 1)>>
GotSlots(kind, s) ==
  LET f == flags[s]
      module == Count("GOT_TLS_OFFSET" \in f)
      descriptor == module + 2 * Count("GOT_TLS_MODULE" \in f)
  IN CASE kind = "GotRelative" -> <<Slot(s, Count("IFUNC_GOT_FOR_ADDRESS" \in f))>>
       [] kind = "GotTpOff" -> <<Slot(s, 0)>>
       [] kind = "TlsGd" -> <<Slot(s, module), Slot(s, module + 1)>>
       [] kind = "TlsDesc" -> <<Slot(s, descriptor), Slot(s, descriptor + 1)>>

(* apply_relocation *)
Rejected(rel, f) ==
  \/ prog.kind = "shared" /\ rel.type = "32"
  \/ /\ IsPositionIndependent /\ (IsInterposable(f) \/ "DYNAMIC" \in f)
     /\ f \cap {"COPY_RELOCATION", "PLT"} = {}
     /\ IsDisallowedForInterposable(rel.type)

ApplyRelocation(rel, section, encoded) ==
  LET s == rel.symbol
      f == Merge(flags[s], rel)
      kind == KindOf(EffectiveType(rel, f, section))
  IN CASE Rejected(rel, f) -> Taking(<<>>, "user", s)
       [] ~Rejected(rel, f) /\ kind = "Absolute" -> WriteAbsolute(rel, f, section, encoded)
       [] ~Rejected(rel, f) /\ kind = "Relative" -> Plain(s)
       [] ~Rejected(rel, f) /\ kind = "PltRelative" ->
            Taking(<<>>, IF "PLT" \in flags[s] THEN "plt" ELSE "missing", s)
       [] ~Rejected(rel, f) /\ kind \in {"GotRelative", "GotTpOff", "TlsGd", "TlsDesc"} ->
            IF got_at[s] = <<>> THEN Taking(<<>>, "missing", s)
            ELSE [takes |-> <<>>, means |-> <<"slots", GotSlots(kind, s)>>]
       [] ~Rejected(rel, f) /\ kind = "TlsLd" ->
            IF tlsld THEN Taking(<<>>, "tlsld", s) ELSE Taking(<<>>, "missing", s)
       [] ~Rejected(rel, f) /\ kind \in {"TpOff", "DtpOff"} -> Taking(<<>>, "tls offset", s)
       [] OTHER -> Taking(<<>>, "nothing", s)

(* write_object_section, with reset_relr_run. *)
UsesRelr(rel, section) ==
  LET f == Merge(flags[rel.symbol], rel)
  IN /\ prog.relr /\ IsPositionIndependent /\ (section.address + rel.offset) % 2 = 0
     /\ KindOf(EffectiveType(rel, f, section)) = "Absolute"
     /\ ~(IsInterposable(f) /\ section.writable)
     /\ f \cap {"IFUNC", "ABSOLUTE"} = {}
EncodeAll(uses, addresses) ==
  LET run[k \in 0 .. Len(uses)] ==
        IF k = 0 THEN NoRun
        ELSE IF uses[k] THEN Encode(run[k - 1], addresses[k]).run
        ELSE run[k - 1]
  IN run
(* What the relocations that are not skipped take and put into the section. *)
WriteSection(i) ==
  LET section == prog.sections[i]
      rels == section.relocations
      live == Live(i)
      address == [k \in DOMAIN rels |-> section.address + rels[k].offset]
      run == EncodeAll([k \in DOMAIN rels |-> live[k] /\ UsesRelr(rels[k], section)], address)
  IN [k \in DOMAIN rels |->
        IF live[k] THEN ApplyRelocation(rels[k], section, Encode(run[k - 1], address[k]))
        ELSE Taking(<<>>, "skipped", rels[k].symbol)]

Takes(results) == Join([k \in DOMAIN results |-> results[k].takes])

(* write_plt_got_entries, write_got_relr_bitmap, write_copy_relocations *)
Repeat(n, x) == [k \in 1 .. n |-> x]
OwnEntries(g) ==
  CASE g = "prelude" ->
         Repeat(IF Total(sizes, "RELA_PLT") > 0 THEN GotHeader ELSE 0, Take("GOT", "header", None))
         \o (IF ~tlsld THEN <<>>
             ELSE IF IsExecutable
                  THEN <<Take("GOT", "this module", None), Take("GOT", "base", None)>>
                  ELSE <<Take("GOT", "module", None), Rela(None), Take("GOT", "base", None)>>)
    [] g = "epilogue" ->
         LET n == Total(sizes, "GOT_RELR")
         IN IF ~prog.relr \/ n = 0 THEN <<>>
            ELSE Repeat(1 + ((n - 1) \div RelrSlots) + Count((n - 1) % RelrSlots > 0),
                        Take("RELR", "bitmap", None))
    [] g = "so" -> Repeat(Cardinality(copies), Rela(None))
    [] OTHER -> <<>>

NumTaken(takes, p) == Sum([k \in DOMAIN takes |-> Count(takes[k].part = p)])

(* write_file for the files of a group, then validate_empty: .plt.got and  *)
(* .rela.plt are not among what it checks.                                 *)
Validated == Parts \ {"PLT_GOT", "RELA_PLT"}
WriteFile(g) ==
  LET written == [i \in Sections |-> IF prog.sections[i].file = g THEN WriteSection(i) ELSE <<>>]
      takes == Join([i \in Sections |-> Takes(written[i])]) \o OwnEntries(g) \o ProcessResolutions(g)
      Place(i, k) == [section |-> i, rel |-> prog.sections[i].relocations[k], result |-> written[i][k]]
      Kept(i) == {k \in DOMAIN written[i] : written[i][k].means[1] # "skipped"}
      Bad(what) == \E i \in Sections : \E k \in DOMAIN written[i] : written[i][k].means[1] = what
      refused == \E s \in Symbols : prog.symbols[s].file = g /\ TlsRefused(s)
  IN /\ phase = "write"
     /\ entries' = [entries EXCEPT ![g] = Append(takes, Take("done", "done", None))]
     /\ places' = places \cup UNION {{Place(i, k) : k \in Kept(i)} : i \in Sections}
     /\ \/ /\ Bad("user") \/ refused
           /\ Fail("user")
        \/ /\ ~Bad("user") /\ ~refused /\ Bad("missing") /\ Fail("missing")
        \/ /\ ~Bad("user") /\ ~refused /\ ~Bad("missing")
           /\ \E p \in Parts : NumTaken(takes, p) > sizes[g][p]
           /\ Fail("insufficient")
        \/ /\ ~Bad("user") /\ ~refused /\ ~Bad("missing")
           /\ \A p \in Parts : NumTaken(takes, p) <= sizes[g][p]
           /\ \E p \in Validated : NumTaken(takes, p) < sizes[g][p]
           /\ Fail("excessive")
        \/ /\ ~Bad("user") /\ ~refused /\ ~Bad("missing")
           /\ \A p \in Parts : NumTaken(takes, p) <= sizes[g][p]
           /\ \A p \in Validated : NumTaken(takes, p) = sizes[g][p]
           /\ UNCHANGED <<phase, failure>>
     /\ UNCHANGED <<prog, scan_state, got_at>>

Unwritten == {g \in Files : entries[g] = <<>>}
Finish ==
  /\ phase = "write" /\ Unwritten = {}
  /\ phase' = "written"
  /\ UNCHANGED <<prog, failure, scan_state, got_at, entries, places>>

Next ==
  \/ \E s \in Symbols : ActivateRoot(s)
  \/ \E i \in Sections : Scan(i)
  \/ \E i \in Sections : SkipNext(i)
  \/ FinaliseSizes
  \/ /\ Unwritten # {}
     /\ WriteFile(CHOOSE g \in Unwritten : TRUE)
  \/ Finish

Spec == Init /\ [][Next]_vars

-----------------------------------------------------------------------------
(* A shared object reserves a relocation for every thread-local offset,    *)
(* and the writer takes none for a symbol that stays undefined.            *)
UnusedOffset(s) ==
  /\ prog.kind = "shared" /\ prog.symbols[s].kind = "undefined"
  /\ "GOT_TLS_OFFSET" \in flags[s] /\ ~HasDynamicSymbol(flags[s])

(* The writer never runs out of what the scan and the sizes reserved, and  *)
(* leaves nothing of it: TableWriter::validate_empty for the parts that it *)
(* checks, and .plt.got and .rela.plt besides.  A resolution that a        *)
(* relocation needs is never missing.  The one exception is UnusedOffset,  *)
(* which ends the link: allocate_resolution and process_got_tls_offset do  *)
(* not agree there.                                                        *)
ReservedIsUsed ==
  /\ \/ failure \in {None, "user"}
     \/ failure = "excessive" /\ \E s \in Symbols : UnusedOffset(s)
  /\ phase = "written" =>
       \A g \in Files : \A p \in Parts : NumTaken(entries[g], p) = sizes[g][p]

(* What an entry of the GOT holds once the loader has applied the dynamic  *)
(* relocations, and what code that goes through the PLT reaches.           *)
Content(slot) ==
  LET of_part == SelectSeq(entries[slot[2]], LAMBDA t : t.part = slot[1])
  IN IF slot[3] \in DOMAIN of_part THEN of_part[slot[3]].means ELSE <<"outside", None>>
Through(m) == IF m[1] = "plt" THEN Content(Slot(m[2], 0)) ELSE m

ReachesAddress(m, s, f) ==
  LET to == Through(m)
  IN /\ to[2] = s
     /\ CASE IsInterposable(flags[s]) ->
               \/ to[1] \in {"symbol", "copy"}
               \/ to[1] = "zero" /\ "ABSOLUTE" \in f
               \/ to[1] = "ifunc" /\ "IFUNC" \in f
               \/ to[1] = "address" /\ ~IsInterposable(f)
          [] ~IsInterposable(flags[s]) /\ "IFUNC" \in f ->
               to[1] = "ifunc" /\ (HasFixedLoadAddress => m[1] = "plt")
          [] OTHER -> to[1] = "address"

(* A definition that became local is not looked up at run time. *)
LookedUp(s) == IsInterposable(flags[s]) /\ ~prog.symbols[s].local
ReachesTls(kind, m, s, f) ==
  CASE kind = "GotTpOff" ->
         m = <<<<CASE LookedUp(s) -> "tpoff symbol"
                   [] ~LookedUp(s) /\ prog.symbols[s].kind = "undefined" -> "zero"
                   [] OTHER -> "tpoff", s>>>>
    [] kind = "TlsGd" ->
         m = IF LookedUp(s) THEN <<<<"module", s>>, <<"dtpoff symbol", s>>>>
             ELSE <<<<IF IsExecutable THEN "this module" ELSE "module", s>>, <<"dtpoff", s>>>>
    [] kind = "TlsDesc" -> m = <<<<"descriptor", s>>, <<"descriptor", s>>>>

Right(w) ==
  LET s == w.rel.symbol
      f == Merge(flags[s], w.rel)
      kind == KindOf(EffectiveType(w.rel, f, prog.sections[w.section]))
      m == w.result.means
  IN CASE kind \in {"Absolute", "Relative", "PltRelative"} -> ReachesAddress(m, s, f)
       [] kind = "GotRelative" -> ReachesAddress(Content(m[2][1]), s, f)
       [] kind \in {"GotTpOff", "TlsGd", "TlsDesc"} ->
            ReachesTls(kind, [k \in DOMAIN m[2] |-> Content(m[2][k])], s, f)
       [] kind = "TlsLd" -> Content(TlsldGotEntry) \in {<<"this module", None>>, <<"module", None>>}
       [] kind = "TpOff" -> IsExecutable /\ ~IsInterposable(f)
       [] OTHER -> TRUE

(* Every reference of the written program reaches its symbol: through the  *)
(* run-time lookup when the definition may be interposed, through the PLT  *)
(* or the resolver when it is an ifunc (and in output with a fixed address *)
(* always the same PLT entry), and the slots of the GOT that code refers   *)
(* to are the ones that the writer filled for that symbol and access.      *)
ReferencesAreRight == phase = "written" => \A w \in places : Right(w)
=============================================================================
