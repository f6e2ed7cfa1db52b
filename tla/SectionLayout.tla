---------------------------- MODULE SectionLayout ----------------------------
(***************************************************************************)
(* The layout of an ELF output file: which sections follow which in which  *)
(* program segment, where every section and every part of it (the inputs   *)
(* of one alignment) is in memory and in the file, where each group of     *)
(* input files puts its share of a part, and the second computation of the *)
(* file offsets after debug sections were compressed.                      *)
(*                                                                         *)
(* One input is what the phases before left behind: the attributes, least  *)
(* alignment, location and region of every output section and the sizes    *)
(* that each group asked for.  Addresses are numbers of a small scale:     *)
(* Page stands for the alignment of loadable segments.                     *)
(*                                                                         *)
(* Left out: load addresses (AT), which are copied along with the memory   *)
(* address; --nmagic; the sections that only repeat a modelled class (the  *)
(* dynamic tables are read-only data, .init_array and .got are RELRO       *)
(* data, .comment and .symtab are not allocated); the values of script     *)
(* expressions, which are given as numbers.                                *)
(***************************************************************************)
EXTENDS Integers, Sequences, FiniteSets, SequencesExt

CONSTANTS
    Page,       \* alignment of loadable segments
    Base,       \* base address of the output
    NumGroups,  \* groups of input files; the first holds the prelude and
                \* the last is the epilogue
    Outputs     \* the inputs to lay out

(* Sections whose inputs follow each other without alignment.              *)
Packed == {"init"}

(* An output section.  Its parts are in the order of decreasing alignment; *)
(* alignments are powers of two, of which one of any two divides the       *)
(* other.  The size of an input is a multiple of the alignment of its      *)
(* part, unless the section is packed (PartMemorySize::capacity, checked   *)
(* by verification.rs).                                                    *)
IsOutputSection(s, r) ==
    /\ r.min_alignment \in Nat \ {0}
    /\ r.alignments \in Seq(Nat \ {0}) \ {<<>>}
    /\ \A p, q \in DOMAIN r.alignments : p <= q => r.alignments[p] % r.alignments[q] = 0
    /\ \/ r.min_alignment % r.alignments[1] = 0
       \/ r.alignments[1] % r.min_alignment = 0
    /\ r.sizes \in [DOMAIN r.alignments -> [1 .. NumGroups -> Seq(Nat)]]
    /\ \A p \in DOMAIN r.sizes : \A g \in 1 .. NumGroups : \A k \in DOMAIN r.sizes[p][g] :
        /\ s \notin Packed => r.sizes[p][g][k] % r.alignments[p] = 0
        /\ s = "relro_padding" => r.sizes[p][g][k] = 0
    /\ r.location \in Nat /\ r.counter \in Nat /\ r.priority \in Nat

SegmentTypes == {"PHDR", "LOAD", "TLS", "STACK", "RELRO"}

(* What the phases before the layout leave behind.                         *)
IsOutput(o) ==
    /\ IsFiniteSet(DOMAIN o.sections)
    /\ \A s \in DOMAIN o.sections : IsOutputSection(s, o.sections[s])
    /\ {"file_header", "program_headers", "section_headers"} \subseteq DOMAIN o.sections
    /\ "none" \notin DOMAIN o.sections
    /\ o.sections["program_headers"].alignments = <<1>>
    /\ \A s, t \in DOMAIN o.sections :
        s # t /\ o.sections[s].primary = o.sections[t].primary /\ o.sections[s].primary # "none"
            => o.sections[s].priority # o.sections[t].priority
    /\ \A s \in DOMAIN o.sections : o.sections[s].region \in {"none"} \cup DOMAIN o.regions
    /\ \A r \in DOMAIN o.regions : o.regions[r].origin \in Nat /\ o.regions[r].length \in Nat
    /\ o.custom \in Seq(DOMAIN o.sections)
    /\ o.script_order \in Seq(DOMAIN o.sections)
    /\ o.named \in Seq(Seq(DOMAIN o.phdrs)) /\ DOMAIN o.named = DOMAIN o.script_order
    /\ o.keep \subseteq DOMAIN o.sections
    /\ Len(o.phdrs) \in Nat /\ DOMAIN o.phdrs = 1 .. Len(o.phdrs)
    /\ \A g \in DOMAIN o.phdrs : o.phdrs[g].type \in SegmentTypes
    /\ o.compressed_size \in Nat /\ o.max_passes \in Nat

ASSUME LayoutAssumption ==
    /\ Page \in Nat \ {0}
    /\ Base \in Nat
    /\ NumGroups \in Nat \ {0}
    /\ \A o \in Outputs : IsOutput(o)

VARIABLES
    input,      \* the member of Outputs being laid out
    stage,      \* the phase that comes next
    sizes,      \* [section -> [part -> [group -> sizes of its inputs]]]
    plan,       \* steps of the output order that are still to come
    order,      \* events of the output order, and the segments they start
    walk,       \* counters of compute_layout_sections and its position
    parts,      \* [section -> layouts of its parts]
    used,       \* [region -> bytes in use]
    segments,   \* layouts of the segments that are kept
    placed,     \* [group -> [section -> [part -> addresses of its inputs]]]
    passes,     \* relaxation passes done
    failure     \* the error that ended the layout, or "none"

layout == <<order, walk, parts, used, segments, placed>>
layout_vars == <<input, plan, stage, sizes, layout, passes, failure>>

AlignUp(a, v) == ((v + a - 1) \div a) * a

(* offset moved up so that it is congruent to ref modulo a.                *)
AlignModulo(a, ref, offset) ==
    LET up == AlignUp(a, offset)
        adjustment == (ref % a) + a - (up % a)
    IN  IF up % a = ref % a THEN up
        ELSE up + (IF adjustment > a THEN adjustment - a ELSE adjustment)

MaxOf(S) == CHOOSE x \in S : \A y \in S : y <= x
MinOf(S) == CHOOSE x \in S : \A y \in S : x <= y

(* Sums(seq)[n] is the sum of the first n numbers of a sequence.           *)
Sums(seq) ==
    LET upto[n \in 0 .. Len(seq)] == IF n = 0 THEN 0 ELSE upto[n - 1] + seq[n]
    IN  upto
Total(seq) == Sums(seq)[Len(seq)]

(* The elements of a sequence that are in a set, in their order.           *)
Only(seq, S) ==
    LET upto[n \in 0 .. Len(seq)] ==
            IF n = 0 THEN <<>>
            ELSE IF seq[n] \in S THEN Append(upto[n - 1], seq[n])
            ELSE upto[n - 1]
    IN  upto[Len(seq)]

(***************************************************************************)
(* Sections.  The attributes are letters: A(lloc), W(rite), X (execute),   *)
(* T(LS), N(o bits), R(elro).                                              *)
(***************************************************************************)
Section(s) == input.sections[s]
Sections == DOMAIN input.sections
Has(s, a) == a \in Section(s).attributes
Primary(s) == IF Section(s).primary = "none" THEN s ELSE Section(s).primary
IsAlloc(s) == Has(Primary(s), "A")
HasData(s) == ~Has(Primary(s), "N")
OnlyTls(s) == Has(s, "T") /\ Has(s, "N")
Parts(s) == DOMAIN Section(s).alignments
PartAlignment(s, p) == Section(s).alignments[p]

GroupSize(s, p, g) == Total(sizes[s][p][g])
PartSize(s, p) == Total([g \in 1 .. NumGroups |-> GroupSize(s, p, g)])
IsEmpty(s) == \A p \in Parts(s) : PartSize(s, p) = 0

MaxAlignment(s) ==
    LET filled == {p \in Parts(s) : PartSize(s, p) > 0}
        first == IF filled = {} THEN 1 ELSE PartAlignment(s, MinOf(filled))
    IN  MaxOf({first, Section(s).min_alignment})

(***************************************************************************)
(* Output order.                                                           *)
(***************************************************************************)
CustomClass(s) ==
    CASE Has(s, "X") -> "exec"
      [] Has(s, "T") /\ Has(s, "N") -> "tbss"
      [] Has(s, "T") /\ ~Has(s, "N") -> "tdata"
      [] ~Has(s, "W") /\ Has(s, "A") -> "ro"
      [] ~Has(s, "W") /\ ~Has(s, "A") -> "nonalloc"
      [] Has(s, "N") -> "bss"
      [] OTHER -> "data"

OfClass(class) == Only(input.custom, {s \in Sections : CustomClass(s) = class})

DefaultOrder ==
    Only(<<"file_header", "program_headers", "section_headers", "rodata">>
         \o OfClass("ro") \o <<"init">> \o OfClass("exec") \o <<"text", "tdata">>
         \o OfClass("tdata") \o <<"tbss">> \o OfClass("tbss")
         \o <<"init_array", "got", "relro_padding", "data">> \o OfClass("data")
         \o <<"bss">> \o OfClass("bss") \o OfClass("nonalloc") \o <<"strtab">>,
         Sections)

SegmentDefs ==
    <<[type |-> "PHDR", write |-> FALSE, exec |-> FALSE],
      [type |-> "LOAD", write |-> FALSE, exec |-> FALSE],
      [type |-> "LOAD", write |-> FALSE, exec |-> TRUE],
      [type |-> "LOAD", write |-> TRUE, exec |-> FALSE],
      [type |-> "LOAD", write |-> TRUE, exec |-> TRUE],
      [type |-> "TLS", write |-> FALSE, exec |-> FALSE],
      [type |-> "RELRO", write |-> FALSE, exec |-> FALSE]>>
StackDef == [type |-> "STACK", write |-> TRUE, exec |-> FALSE]

Defs == DOMAIN SegmentDefs
RwLoad == 4
Relro == 7

ShouldInclude(s, def) ==
    CASE def.type = "TLS" -> Has(s, "T")
      [] def.type = "LOAD" ->
            /\ Has(s, "A")
            /\ Has(s, "W") = def.write
            /\ (Has(s, "X") \/ (~input.rosegment /\ ~Has(s, "W"))) = def.exec
      [] def.type = "RELRO" -> Has(s, "T") \/ Has(s, "R")
      [] OTHER -> s = "program_headers"

Event(kind, what) == [kind |-> kind, what |-> what]

(* A builder is the events so far, the segments created and, for every     *)
(* definition, the segment that is active (0: none) and its region.        *)
NewBuilder ==
    [events |-> <<>>, segs |-> <<>>, id |-> [d \in Defs |-> 0],
     region |-> [d \in Defs |-> "none"]]

Push(b, kind, what) == [b EXCEPT !.events = Append(@, Event(kind, what))]

(* The RW segment ends where the RELRO segment does.                       *)
EndRwLoadSegment(b, s) ==
    IF /\ b.id[Relro] # 0
       /\ ~ShouldInclude(s, SegmentDefs[Relro])
       /\ b.id[RwLoad] # 0
    THEN [Push(b, "SegmentEnd", b.id[RwLoad])
            EXCEPT !.id[RwLoad] = 0, !.region[RwLoad] = "none"]
    ELSE b

StopSegments(b, s) ==
    LET stops == {d \in Defs :
            /\ b.id[d] # 0
            /\ \/ Section(s).location # 0
               \/ ~ShouldInclude(s, SegmentDefs[d])
               \/ b.region[d] # Section(s).region}
        step(acc, d) ==
            IF d \in stops
            THEN [Push(acc, "SegmentEnd", acc.id[d])
                    EXCEPT !.id[d] = 0, !.region[d] = "none"]
            ELSE acc
        upto[n \in 0 .. Len(SegmentDefs)] == IF n = 0 THEN b ELSE step(upto[n - 1], n)
    IN  upto[Len(SegmentDefs)]

StartSegments(b, s) ==
    LET step(acc, d) ==
            IF acc.id[d] = 0 /\ ShouldInclude(s, SegmentDefs[d])
            THEN LET new == Len(acc.segs) + 1
                 IN  [Push(acc, "SegmentStart", new)
                        EXCEPT !.segs = Append(@, SegmentDefs[d]),
                               !.id[d] = new, !.region[d] = Section(s).region]
            ELSE acc
        upto[n \in 0 .. Len(SegmentDefs)] == IF n = 0 THEN b ELSE step(upto[n - 1], n)
    IN  upto[Len(SegmentDefs)]

Secondaries(s) ==
    LET all == {t \in Sections : Section(t).primary = s}
        rank(t) == Cardinality({u \in all : Section(u).priority < Section(t).priority})
    IN  [i \in 1 .. Cardinality(all) |-> CHOOSE t \in all : rank(t) = i - 1]

EmitLocation(b, s) ==
    IF Section(s).counter = 0 THEN b ELSE Push(b, "SetLocation", Section(s).counter)

AddSection(b, s) ==
    LET automatic == ~input.partial /\ input.phdrs = <<>>
        b1 == IF automatic THEN StopSegments(EndRwLoadSegment(b, s), s) ELSE b
        b2 == IF Section(s).location # 0 /\ Has(s, "A")
              THEN Push(b1, "SetSectionAddress", Section(s).location) ELSE b1
        b3 == IF automatic THEN StartSegments(b2, s) ELSE b2
        emit(acc, t) == Push(EmitLocation(acc, t), "Section", t)
        others == Secondaries(s)
        upto[n \in 0 .. Len(others)] ==
            IF n = 0 THEN emit(b3, s) ELSE emit(upto[n - 1], others[n])
    IN  upto[Len(others)]

(* What build adds after the last section.                                 *)
Build(b) ==
    LET upto[n \in 0 .. Len(SegmentDefs)] ==
            IF n = 0 THEN b
            ELSE IF b.id[n] = 0 THEN upto[n - 1]
            ELSE Push(upto[n - 1], "SegmentEnd", b.id[n])
        ended == upto[Len(SegmentDefs)]
        stack == Len(b.segs) + 1
    IN  IF input.partial \/ input.phdrs # <<>> THEN ended
        ELSE [Push(Push(ended, "SegmentStart", stack), "SegmentEnd", stack)
                EXCEPT !.segs = Append(@, StackDef)]

(***************************************************************************)
(* With PHDRS in a script the script lists the sections, names the         *)
(* segments of each and says which segments hold the headers.  Sections    *)
(* that the script does not place go to the end of the first segment of    *)
(* their kind, as Chosen finds it.                                          *)
(***************************************************************************)
Phdrs == DOMAIN input.phdrs
ScriptOrder == input.script_order
Named(i) == input.named[i]
Positions(g) == {i \in DOMAIN ScriptOrder : \E k \in DOMAIN Named(i) : Named(i)[k] = g}
Starts(g) == IF Positions(g) = {} THEN 0 ELSE MinOf(Positions(g))
Ends(g) == IF Positions(g) = {} THEN 0 ELSE MaxOf(Positions(g))
WithHeaders == {g \in Phdrs : input.phdrs[g].filehdr \/ input.phdrs[g].phdrs}

Rights(s) == (IF Has(s, "A") THEN {"R"} ELSE {}) \cup (Section(s).attributes \cap {"W", "X"})
PhdrFlags(g) ==
    IF input.phdrs[g].explicit THEN input.phdrs[g].flags
    ELSE (IF g \in WithHeaders THEN {"R"} ELSE {})
         \cup UNION {Rights(ScriptOrder[i]) : i \in Positions(g)}

(* The loadable segments that the sections of the script name, in order.   *)
LoadVisits ==
    LET visits == FlattenSeq([i \in DOMAIN ScriptOrder |-> Named(i)])
    IN  Only(visits, {g \in Phdrs : input.phdrs[g].type = "LOAD"})

PhdrsRefused ==
    /\ input.phdrs # <<>>
    /\ \/ \E g, h \in Phdrs :
            /\ g < h /\ input.phdrs[g].type = "LOAD" /\ input.phdrs[h].type = "LOAD"
            /\ g \notin WithHeaders /\ h \in WithHeaders
       \/ \E g \in WithHeaders : input.phdrs[g].type \notin {"LOAD", "PHDR"} /\ Positions(g) # {}
       \/ LoadVisits = <<>>

(* Which segments take what the script does not place.  The n-th visit     *)
(* serves executable sections unless an earlier one does so that is not    *)
(* writable, else writable ones unless one that is not executable does,    *)
(* else read-only ones unless one that is only readable does; the last     *)
(* visit that serves a kind counts.  So a segment that is named a second   *)
(* time may take read-only data.                                           *)
Chosen ==
    LET visits == LoadVisits
        flags == [n \in DOMAIN visits |-> PhdrFlags(visits[n])]
        Before(n, f) == \E m \in 1 .. n - 1 : flags[m] \cap {"W", "X"} = f
        exec == {n \in DOMAIN visits : "X" \in flags[n] /\ ~Before(n, {"X"})}
        rw == {n \in DOMAIN visits \ exec : "W" \in flags[n] /\ ~Before(n, {"W"})}
        ro == {n \in DOMAIN visits \ (exec \cup rw) : \A m \in 1 .. n - 1 : flags[m] # {"R"}}
        Take(S) == IF visits = <<>> THEN 0 ELSE visits[IF S = {} THEN 1 ELSE MaxOf(S)]
    IN  [exec |-> Take(exec), rw |-> Take(rw), ro |-> Take(ro)]

Unplaced(g) ==
    LET chosen == Chosen
    IN  (IF g = chosen.exec THEN OfClass("exec") ELSE <<>>)
        \o (IF g = chosen.rw THEN OfClass("tdata") \o OfClass("tbss") \o OfClass("data")
                                  \o OfClass("bss") ELSE <<>>)
        \o (IF g = chosen.ro THEN OfClass("ro") ELSE <<>>)

Each(kind, S) ==
    LET ids == Only([g \in Phdrs |-> g], S)
    IN  [i \in DOMAIN ids |-> Event(kind, ids[i])]
AddEach(seq) == [i \in DOMAIN seq |-> Event("Add", seq[i])]

(* Segments that hold headers start before them; those that hold nothing   *)
(* else end after them.                                                    *)
CustomHeaders ==
    LET filehdr == {g \in Phdrs : input.phdrs[g].filehdr}
        phdrs == {g \in Phdrs : input.phdrs[g].phdrs}
        none == {g \in Phdrs : Ends(g) = 0}
    IN  Each("SegmentStart", filehdr) \o <<Event("Section", "file_header")>>
        \o Each("SegmentEnd", (filehdr \cap none) \ phdrs)
        \o Each("SegmentStart", phdrs \ filehdr) \o <<Event("Section", "program_headers")>>
        \o Each("SegmentEnd", phdrs \cap none) \o <<Event("Section", "section_headers")>>

(* The section at a position of the script, with the segments that start   *)
(* and end there.                                                          *)
CustomPosition(i) ==
    Each("SegmentStart", {g \in Phdrs \ WithHeaders : Starts(g) = i})
    \o <<Event("Add", ScriptOrder[i])>>
    \o FlattenSeq([g \in Phdrs |->
            IF Ends(g) # i THEN <<>>
            ELSE AddEach(Unplaced(g)) \o <<Event("SegmentEnd", g)>>])

CustomPlan ==
    CustomHeaders \o FlattenSeq([i \in DOMAIN ScriptOrder |-> CustomPosition(i)])
    \o AddEach(OfClass("nonalloc"))
    \o FlattenSeq([g \in Phdrs |->
            IF g \in WithHeaders \/ Ends(g) # 0 THEN <<>>
            ELSE <<Event("SegmentStart", g), Event("SegmentEnd", g)>>])

(* Without flags of its own a segment has the rights of all its sections.  *)
SegmentHas(g, a) ==
    \/ a \in PhdrFlags(g)
    \/ ~input.phdrs[g].explicit /\ \E s \in ToSet(Unplaced(g)) : a \in Rights(s)
CustomSegments ==
    [g \in Phdrs |-> [type |-> input.phdrs[g].type, write |-> SegmentHas(g, "W"),
                      exec |-> SegmentHas(g, "X")]]

Plan == IF input.phdrs = <<>> THEN AddEach(DefaultOrder) ELSE CustomPlan

(***************************************************************************)
(* The events.                                                             *)
(***************************************************************************)
Events == order.events
IsLoad(g) == order.segs[g].type = "LOAD"
EventIndex(kind, what) ==
    CHOOSE i \in DOMAIN Events : Events[i] = Event(kind, what)
InSegment(s, g) ==
    LET at == EventIndex("Section", s)
    IN  EventIndex("SegmentStart", g) < at /\ at < EventIndex("SegmentEnd", g)
EmittedSections == {s \in Sections : \E i \in DOMAIN Events : Events[i] = Event("Section", s)}

(* Sections that get a section header, and the segments that hold one.  A  *)
(* primary section is kept for its secondary ones; sections are also kept  *)
(* for an empty input that was loaded into them or a symbol that is at     *)
(* their start or end.                                                     *)
IsKept(s) ==
    /\ s = Primary(s) /\ s \notin {"program_headers", "section_headers"}
    /\ \/ \E t \in Sections : Primary(t) = s /\ (~IsEmpty(t) \/ t \in input.keep)
       \/ s = "file_header"
       \/ s = "relro_padding" /\ input.relro
KeptSegments ==
    {g \in DOMAIN order.segs :
        \/ input.phdrs # <<>>
        \/ order.segs[g].type = "STACK"
        \/ order.segs[g].type = "PHDR"
        \/ /\ order.segs[g].type = "RELRO" => input.relro
           /\ \E s \in EmittedSections : InSegment(s, g) /\ IsKept(s)}

(* Units that the header of a segment takes in the file.                   *)
PhdrSize == 1

SegmentAlignment(g) ==
    MaxOf({Page} \cup {MaxAlignment(s) : s \in {t \in EmittedSections : InSegment(t, g)}})

(***************************************************************************)
(* Phases before the walk.                                                 *)
(***************************************************************************)
NoWalk == [at |-> 1, mem |-> 0, file |-> 0, pending |-> -1, tls |-> -1]

LayoutInit ==
    /\ input \in Outputs
    /\ stage = "plan"
    /\ plan = <<>>
    /\ sizes = [s \in Sections |-> Section(s).sizes]
    /\ order = NewBuilder
    /\ walk = NoWalk
    /\ parts = <<>>
    /\ used = <<>>
    /\ segments = <<>>
    /\ placed = <<>>
    /\ passes = 0
    /\ failure = "none"

Stop(message) ==
    /\ failure' = message
    /\ stage' = "failed"
    /\ UNCHANGED <<input, plan, sizes, layout, passes>>

PlanOutputOrder ==
    /\ stage = "plan" /\ ~PhdrsRefused
    /\ plan' = Plan
    /\ order' = [NewBuilder EXCEPT !.segs = CustomSegments]
    /\ stage' = "order"
    /\ UNCHANGED <<input, sizes, walk, parts, used, segments, placed, passes, failure>>

OutputOrderFails ==
    /\ stage = "plan" /\ PhdrsRefused
    /\ Stop("program headers")

(* The next step of the output order: a section with the segments it       *)
(* starts and ends, or an event of a script's own segments.                *)
OutputOrderStep ==
    /\ stage = "order"
    /\ plan # <<>>
    /\ order' = IF Head(plan).kind = "Add" THEN AddSection(order, Head(plan).what)
                ELSE Push(order, Head(plan).kind, Head(plan).what)
    /\ plan' = Tail(plan)
    /\ UNCHANGED <<input, stage, sizes, walk, parts, used, segments, placed, passes, failure>>

OutputOrderDone ==
    /\ stage = "order"
    /\ plan = <<>>
    /\ order' = Build(order)
    /\ stage' = "headers"
    /\ UNCHANGED <<input, plan, sizes, walk, parts, used, segments, placed, passes, failure>>

StartWalk ==
    /\ walk' = [NoWalk EXCEPT !.mem = Base]
    /\ parts' = [s \in Sections |-> <<>>]

(* The prelude learns the number of segments and reserves their headers;   *)
(* thunks and the index for debuggers grow in the same way, in the group   *)
(* that owns them.                                                         *)
DetermineHeaderSizes ==
    /\ stage = "headers"
    /\ LET n == IF input.partial THEN 0 ELSE Cardinality(KeptSegments) * PhdrSize
       IN  sizes' = [sizes EXCEPT !["program_headers"][1][1] = <<n>>]
    /\ stage' = "walk"
    /\ StartWalk
    /\ used' = [r \in DOMAIN input.regions |-> 0]
    /\ UNCHANGED <<input, plan, order, segments, placed, passes, failure>>

(***************************************************************************)
(* The walk over the events gives every part its place.                    *)
(***************************************************************************)
Current == Events[walk.at]
Advance(w) == [w EXCEPT !.at = @ + 1]
Walking(kind) == stage = "walk" /\ walk.at <= Len(Events) /\ Current.kind = kind

SetLocation ==
    /\ Walking("SetLocation") \/ Walking("SetSectionAddress")
    /\ walk' = [Advance(walk) EXCEPT !.pending = Current.what]
    /\ UNCHANGED <<input, plan, stage, sizes, order, parts, used, segments, placed, passes, failure>>

(* Mutant: the segment is aligned to pages whatever its sections need.     *)
AlignLoadSegmentToPage(w, g) ==
    IF w.pending # -1
    THEN [w EXCEPT !.mem = w.pending, !.file = AlignModulo(Page, w.pending, w.file)]
    ELSE [w EXCEPT !.mem = AlignModulo(Page, w.file, w.mem)]

(* A loadable segment starts at an address that is congruent to the file   *)
(* offset.                                                                 *)
AlignLoadSegmentStart(w, g) ==
    IF w.pending # -1
    THEN [w EXCEPT !.mem = w.pending,
                   !.file = AlignModulo(SegmentAlignment(g), w.pending, w.file)]
    ELSE [w EXCEPT !.mem = AlignModulo(SegmentAlignment(g), w.file, w.mem)]

SegmentStart ==
    /\ Walking("SegmentStart")
    /\ walk' = Advance(IF IsLoad(Current.what)
                       THEN AlignLoadSegmentStart(walk, Current.what) ELSE walk)
    /\ UNCHANGED <<input, plan, stage, sizes, order, parts, used, segments, placed, passes, failure>>

SegmentEnd ==
    /\ Walking("SegmentEnd")
    /\ walk' = Advance(walk)
    /\ UNCHANGED <<input, plan, stage, sizes, order, parts, used, segments, placed, passes, failure>>

(* Mutant: the address that was remembered is not forgotten after use.     *)
TlsMemoryAgain(w, s) ==
    IF OnlyTls(s) THEN [w EXCEPT !.tls = IF @ = -1 THEN w.mem ELSE @]
    ELSE IF w.tls # -1 THEN [w EXCEPT !.mem = w.tls]
    ELSE w

(* Sections of thread-local zeros take no room: what follows them starts   *)
(* where the first of them does.                                           *)
TlsMemory(w, s) ==
    IF OnlyTls(s) THEN [w EXCEPT !.tls = IF @ = -1 THEN w.mem ELSE @]
    ELSE IF w.tls # -1 THEN [w EXCEPT !.mem = w.tls, !.tls = -1]
    ELSE w

Region(s) == Section(s).region
RegionStart(w, s) ==
    IF Region(s) = "none" THEN w
    ELSE [w EXCEPT !.mem = input.regions[Region(s)].origin + used[Region(s)]]

OutsideRegion(w, s) ==
    /\ Region(s) # "none"
    /\ w.pending # -1
    /\ \/ w.pending < w.mem
       \/ w.pending > w.mem + input.regions[Region(s)].length

(* The gap that a location leaves is filled in the file too.               *)
FillsGap(s) == (s = Primary(s) \/ ~Section(s).top_level) /\ IsAlloc(s) /\ HasData(s)
MoveTo(w, s) ==
    IF w.pending = -1 THEN w
    ELSE [w EXCEPT !.file = IF FillsGap(s) THEN @ + (w.pending - w.mem) ELSE @,
                   !.mem = w.pending, !.pending = -1]
Backwards(w, s) == w.pending # -1 /\ FillsGap(s) /\ w.pending < w.mem

PartRecord(mem, file, msize, fsize, alignment) ==
    [mem |-> mem, file |-> file, msize |-> msize, fsize |-> fsize, alignment |-> alignment]

(* What is missing to the end of the page.                                 *)
RelroPadding(w) == AlignUp(Page, w.mem) - w.mem

(* One part: acc is the counters, the places so far and the address within *)
(* a section that has none of its own (not allocated, or a relocatable     *)
(* output).                                                                *)
PlacePart(s, acc, p) ==
    LET w == acc.w
        a == IF p = 1 THEN MaxAlignment(s)
             ELSE MinOf({PartAlignment(s, p), MaxAlignment(s)})
        msize == IF s = "relro_padding" THEN RelroPadding(w) ELSE PartSize(s, p)
        file == IF HasData(s) THEN AlignUp(a, w.file) ELSE w.file
        fsize == IF HasData(s) \/ ~IsAlloc(s) THEN msize ELSE 0
        ownSpace == input.partial \/ ~IsAlloc(s)
        mem == AlignUp(a, IF ownSpace THEN acc.own ELSE w.mem)
    IN  [w |-> [w EXCEPT !.file = file + fsize,
                         !.mem = IF ownSpace THEN @ ELSE mem + msize],
         own |-> IF IsAlloc(s) THEN mem + msize ELSE acc.own + msize,
         parts |-> Append(acc.parts, PartRecord(mem, file, msize, fsize, a))]

PlaceParts(s, w) ==
    LET upto[p \in 0 .. Len(Section(s).alignments)] ==
            IF p = 0 THEN [w |-> w, own |-> 0, parts |-> <<>>]
            ELSE PlacePart(s, upto[p - 1], p)
    IN  upto[Len(Section(s).alignments)]

SectionStart(s) == RegionStart(TlsMemory(walk, s), s)
Overflows(w, s) ==
    /\ Region(s) # "none"
    /\ w.mem > input.regions[Region(s)].origin + input.regions[Region(s)].length

LayoutSection ==
    /\ Walking("Section")
    /\ LET s == Current.what
           w == SectionStart(s)
           placing == PlaceParts(s, MoveTo(w, s))
       IN  /\ ~OutsideRegion(w, s) /\ ~Backwards(w, s) /\ ~Overflows(placing.w, s)
           /\ walk' = Advance(placing.w)
           /\ parts' = [parts EXCEPT ![s] = placing.parts]
           /\ used' = IF Region(s) = "none" THEN used
                      ELSE [used EXCEPT ![Region(s)] =
                                placing.w.mem - input.regions[Region(s)].origin]
    /\ UNCHANGED <<input, plan, stage, sizes, order, segments, placed, passes, failure>>

LayoutFails ==
    /\ Walking("Section")
    /\ LET s == Current.what
           w == SectionStart(s)
       IN  \/ OutsideRegion(w, s) /\ Stop("not within region")
           \/ ~OutsideRegion(w, s) /\ Backwards(w, s) /\ Stop("backwards")
           \/ /\ ~OutsideRegion(w, s) /\ ~Backwards(w, s)
              /\ Overflows(PlaceParts(s, MoveTo(w, s)).w, s)
              /\ Stop("region overflowed")

(* Relaxation shortens inputs of executable sections and lays everything   *)
(* out again, as long as a pass deletes something.                         *)
RelaxPass ==
    /\ stage = "walk" /\ walk.at > Len(Events)
    /\ passes < input.max_passes
    /\ \E s \in {t \in Sections : Has(t, "X") /\ ~IsEmpty(t)} :
         \E p \in Parts(s), g \in 1 .. NumGroups :
           \E k \in DOMAIN sizes[s][p][g] :
             /\ sizes[s][p][g][k] >= PartAlignment(s, p)
             /\ sizes' = [sizes EXCEPT ![s][p][g][k] = @ - PartAlignment(s, p)]
    /\ passes' = passes + 1
    /\ StartWalk
    /\ UNCHANGED <<input, plan, stage, order, used, segments, placed, failure>>

LayoutDone ==
    /\ stage = "walk" /\ walk.at > Len(Events)
    /\ stage' = "segments"
    /\ UNCHANGED <<input, plan, sizes, layout, passes, failure>>

(***************************************************************************)
(* Sections and segments from the parts.                                   *)
(***************************************************************************)
SectionLayout(s) ==
    LET ps == parts[s]
        mem == MinOf({ps[p].mem : p \in DOMAIN ps})
        file == MinOf({ps[p].file : p \in DOMAIN ps})
    IN  PartRecord(mem, file,
            MaxOf({ps[p].mem + ps[p].msize : p \in DOMAIN ps}) - mem,
            MaxOf({ps[p].file + ps[p].fsize : p \in DOMAIN ps}) - file,
            MaxOf({Section(s).min_alignment}
                  \cup {ps[p].alignment : p \in {q \in DOMAIN ps : ps[q].msize > 0}}))

MemEnd(r) == r.mem + r.msize
FileEnd(r) == r.file + r.fsize

(* The layout of a primary section covers its secondary sections.          *)
MergedLayout(s) ==
    LET all == {SectionLayout(t) : t \in {u \in EmittedSections : Primary(u) = s}}
        mem == MinOf({r.mem : r \in all})
        file == MinOf({r.file : r \in all})
    IN  PartRecord(mem, file, MaxOf({MemEnd(r) : r \in all}) - mem,
                   MaxOf({FileEnd(r) : r \in all}) - file,
                   MaxOf({r.alignment : r \in all}))

Contributes(s, g) ==
    /\ InSegment(s, g)
    /\ IsKept(Primary(s)) \/ SectionLayout(s).msize > 0
    /\ OnlyTls(s) => order.segs[g].type = "TLS"

SegmentLayout(g) ==
    LET all == {SectionLayout(s) : s \in {t \in EmittedSections : Contributes(t, g)}}
        mem == MinOf({r.mem : r \in all})
        file == MinOf({r.file : r \in all})
    IN  IF all = {} THEN PartRecord(0, 0, 0, 0, 1)
        ELSE PartRecord(mem, file, MaxOf({MemEnd(r) : r \in all}) - mem,
                        MaxOf({FileEnd(r) : r \in all}) - file,
                        MaxOf({r.alignment : r \in all}))

TypeOrder == [PHDR |-> 0, LOAD |-> 1, TLS |-> 2, STACK |-> 3, RELRO |-> 4]

(* The program headers in the order of the file.                           *)
ComputeSegmentLayout ==
    /\ stage = "segments"
    /\ LET rows == {[id |-> g, sizes |-> SegmentLayout(g)] :
                        g \in IF input.partial THEN {} ELSE KeptSegments}
           before(r, q) ==
               LET x == TypeOrder[order.segs[r.id].type]
                   y == TypeOrder[order.segs[q.id].type]
               IN  IF input.phdrs # <<>> THEN r.id < q.id
                   ELSE \/ x < y
                        \/ x = y /\ r.sizes.mem < q.sizes.mem
                        \/ x = y /\ r.sizes.mem = q.sizes.mem /\ r.id < q.id
           rank(r) == Cardinality({q \in rows : before(q, r)})
       IN  segments' = [i \in 1 .. Cardinality(rows) |-> CHOOSE r \in rows : rank(r) = i - 1]
    /\ stage' = "groups"
    /\ placed' = [g \in 1 .. NumGroups |-> <<>>]
    /\ UNCHANGED <<input, plan, sizes, order, walk, parts, used, passes, failure>>

(***************************************************************************)
(* Every group walks its inputs from the offsets where the groups before   *)
(* it end.  The groups run in parallel.                                    *)
(***************************************************************************)
(* Mutant: the offset of a group leaves out the group just before it.      *)
StartOffsetOfEarlier(s, p, g) ==
    parts[s][p].mem
    + Total([h \in 1 .. g - 1 |-> IF h = g - 1 THEN 0 ELSE GroupSize(s, p, h)])

StartOffset(s, p, g) ==
    parts[s][p].mem + Total([h \in 1 .. g - 1 |-> GroupSize(s, p, h)])

AddressOf(s, p, g, k) == StartOffset(s, p, g) + Total(SubSeq(sizes[s][p][g], 1, k - 1))

FinaliseLayout(g) ==
    /\ stage = "groups"
    /\ placed[g] = <<>>
    /\ placed' = [placed EXCEPT ![g] =
                    [s \in EmittedSections |-> [p \in Parts(s) |->
                        [k \in DOMAIN sizes[s][p][g] |-> AddressOf(s, p, g, k)]]]]
    /\ UNCHANGED <<input, plan, stage, sizes, order, walk, parts, used, segments, passes, failure>>

GroupsDone ==
    /\ stage = "groups"
    /\ \A g \in 1 .. NumGroups : placed[g] # <<>>
    /\ stage' = IF input.compressed = {} THEN "done" ELSE "compress"
    /\ UNCHANGED <<input, plan, sizes, layout, passes, failure>>

(***************************************************************************)
(* Debug sections were compressed: their size in the file changes and the  *)
(* file offsets of all sections are computed again.                        *)
(***************************************************************************)
UpdateAllocationSizes ==
    [s \in Sections |->
        IF s \notin input.compressed THEN parts[s]
        ELSE [p \in DOMAIN parts[s] |->
                [parts[s][p] EXCEPT !.fsize = IF p = Len(parts[s])
                                              THEN input.compressed_size ELSE 0]]]

(* Offsets of one section: acc is the file offset, the parts and the       *)
(* program headers that are still to be met.                               *)
UpdateSection(acc, s) ==
    LET start == AlignUp(SectionLayout(s).alignment, acc.file)
        ps == acc.parts[s]
        before == Sums([p \in DOMAIN ps |-> ps[p].fsize])
    IN  [acc EXCEPT !.file = start + before[Len(ps)],
                    !.parts[s] = [p \in DOMAIN ps |->
                                    [ps[p] EXCEPT !.file = start + before[p - 1]]]]

UpdateFileOffset ==
    LET step(acc, e) ==
            IF e.kind = "Section" THEN UpdateSection(acc, e.what)
            ELSE IF e.kind = "SegmentStart" /\ acc.segs # <<>> /\ Head(acc.segs).id = e.what
            THEN [acc EXCEPT !.segs = Tail(@),
                             !.moved = @ \/ Head(acc.segs).sizes.file # acc.file]
            ELSE acc
        upto[n \in 0 .. Len(Events)] ==
            IF n = 0 THEN [file |-> 0, parts |-> UpdateAllocationSizes,
                           segs |-> segments, moved |-> FALSE]
            ELSE step(upto[n - 1], Events[n])
    IN  upto[Len(Events)]

CompressDebugSections ==
    /\ stage = "compress"
    /\ ~UpdateFileOffset.moved
    /\ parts' = UpdateFileOffset.parts
    /\ stage' = "done"
    /\ UNCHANGED <<input, plan, sizes, order, walk, used, segments, placed, passes, failure>>

CompressFails ==
    /\ stage = "compress"
    /\ UpdateFileOffset.moved
    /\ Stop("segment moved")

LayoutNext ==
    \/ PlanOutputOrder
    \/ OutputOrderFails
    \/ OutputOrderStep
    \/ OutputOrderDone
    \/ DetermineHeaderSizes
    \/ SetLocation
    \/ SegmentStart
    \/ SegmentEnd
    \/ LayoutSection
    \/ LayoutFails
    \/ RelaxPass
    \/ LayoutDone
    \/ ComputeSegmentLayout
    \/ \E g \in 1 .. NumGroups : FinaliseLayout(g)
    \/ GroupsDone
    \/ CompressDebugSections
    \/ CompressFails

LayoutSpec == LayoutInit /\ [][LayoutNext]_layout_vars

(***************************************************************************)
(* Properties.                                                             *)
(***************************************************************************)
LaidOut == stage \in {"groups", "compress", "done"}
Filled == {s \in EmittedSections : SectionLayout(s).msize > 0}
LoadRows == {segments[i] : i \in {j \in DOMAIN segments : IsLoad(segments[j].id)}}
Apart(a, aEnd, b, bEnd) == aEnd <= b \/ bEnd <= a

(* A section in a memory region starts where the region goes on, after its *)
(* segment was aligned: the file offset is not adapted to that address.    *)
InRegions(g) == \E s \in Filled : Contributes(s, g) /\ Region(s) # "none"

(* With PHDRS, data may follow zeros in a segment: the script says so, or  *)
(* read-only data that it does not place goes to the end of a segment with *)
(* .bss.  The zeros take no room in the file, so that such data is not     *)
(* where the segment maps it.                                              *)
AfterZeros(s, g) ==
    /\ input.phdrs # <<>>
    /\ \E t \in Filled :
        /\ Contributes(t, g) /\ ~HasData(t) /\ ~OnlyTls(t)
        /\ EventIndex("Section", t) < EventIndex("Section", s)

(* No two sections share an address, apart from the zeros of thread-local  *)
(* sections, which have none of their own (compute_layout_sections), and   *)
(* no two share a byte of the file, before and after compression.          *)
SectionsAreApart ==
    LaidOut =>
        \A s, t \in Filled :
            LET r == SectionLayout(s)
                q == SectionLayout(t)
            IN  s # t =>
                  /\ IsAlloc(s) /\ IsAlloc(t) /\ ~input.partial /\ ~OnlyTls(s) /\ ~OnlyTls(t)
                        => Apart(r.mem, MemEnd(r), q.mem, MemEnd(q))
                  /\ r.fsize > 0 /\ q.fsize > 0 => Apart(r.file, FileEnd(r), q.file, FileEnd(q))

(* What RELRO makes read-only after relocation is whole pages that hold    *)
(* nothing else: data that stays writable starts on a page of its own.     *)
RelroIsOnItsOwnPages ==
    LaidOut /\ input.phdrs = <<>> =>
        \A i \in DOMAIN segments : order.segs[segments[i].id].type = "RELRO" =>
            LET g == segments[i].sizes
            IN  /\ MemEnd(g) % Page = 0
                /\ \A s \in Filled :
                    IsAlloc(s) /\ ~OnlyTls(s) /\ ~InSegment(s, segments[i].id) =>
                        LET r == SectionLayout(s)
                        IN  Apart((g.mem \div Page) * Page, MemEnd(g), r.mem, MemEnd(r))
                            \/ MemEnd(r) <= g.mem

(* Mapping the program headers puts every section at its address: the      *)
(* distance of a section from the start of its segment is the same in the  *)
(* file and in memory, file offset and address of a segment agree modulo   *)
(* the page and modulo every alignment in it, the segment covers the       *)
(* section and has its rights, unless the script says otherwise, and no    *)
(* two segments share a page.  Segments in a MEMORY region of a script are *)
(* left out of the congruence, data AfterZeros out of the distance.  RELRO *)
(* covers whole pages.                                                     *)
SegmentsMapTheirSections ==
    RelroIsOnItsOwnPages /\ (LaidOut =>
        /\ \A row \in LoadRows :
            LET g == row.sizes
            IN  /\ InRegions(row.id) \/ (g.mem - g.file) % MaxOf({Page, g.alignment}) = 0
                /\ \A s \in Filled : Contributes(s, row.id) =>
                    LET r == SectionLayout(s)
                    IN  /\ r.mem % r.alignment = 0
                        /\ \/ input.phdrs # <<>> /\ input.phdrs[row.id].explicit
                           \/ /\ Has(s, "W") => order.segs[row.id].write
                              /\ Has(s, "X") => order.segs[row.id].exec
                        /\ g.mem <= r.mem /\ MemEnd(r) <= MemEnd(g)
                        /\ r.fsize > 0 =>
                            /\ AfterZeros(s, row.id) \/ r.file - g.file = r.mem - g.mem
                            /\ FileEnd(r) <= FileEnd(g)
        /\ \A row, other \in LoadRows : row.id # other.id /\ input.phdrs = <<>> =>
            Apart(row.sizes.mem \div Page, AlignUp(Page, MemEnd(row.sizes)) \div Page,
                  other.sizes.mem \div Page, AlignUp(Page, MemEnd(other.sizes)) \div Page))

(* The inputs of all groups fill each part without an overlap and within   *)
(* its bounds, in whatever order the groups are laid out and however much  *)
(* a late change of a size moved them (compute_start_offsets_by_group).    *)
GroupsFillTheirParts ==
    stage \in {"compress", "done"} =>
        \A s \in EmittedSections : \A p \in Parts(s) :
            LET inputs == UNION {{<<g, k>> : k \in DOMAIN sizes[s][p][g]} : g \in 1 .. NumGroups}
                start(x) == placed[x[1]][s][p][x[2]]
                end(x) == start(x) + sizes[s][p][x[1]][x[2]]
            IN  /\ \A x \in inputs :
                    /\ s \notin Packed /\ start(x) < end(x) => start(x) % PartAlignment(s, p) = 0
                    /\ parts[s][p].mem <= start(x)
                    /\ end(x) <= parts[s][p].mem + parts[s][p].msize
                /\ \A x, y \in inputs :
                    x # y => Apart(start(x), end(x), start(y), end(y))

=============================================================================
