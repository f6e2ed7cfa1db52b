------------------------ MODULE SectionLayoutProofs ------------------------
(***************************************************************************)
(* Groups fill the parts of sections, for any number of groups, sections,  *)
(* parts and inputs: when the parallel loop of                             *)
(* compute_symbols_and_layouts is over, each input of a part lies inside   *)
(* the bounds of the part, aligned, and apart from every other input, of   *)
(* its own group and of the others.                                        *)
(*                                                                         *)
(* The property is about two computations that never meet in the code: the *)
(* walk of compute_layout_sections adds up the sizes of a part, and each   *)
(* group starts from the sizes of the groups before it.  The invariant     *)
(* relates them: the walk has placed each emitted section it has passed    *)
(* (PlacesInv), in a place as large as the sum of the sizes and aligned    *)
(* for the part, and what a group has stored is the running sum from that  *)
(* place (GroupsInv).  Relaxation only shrinks sizes, by whole multiples   *)
(* (SizesInv), and the compression of debug sections moves file offsets    *)
(* and no address.                                                         *)
(***************************************************************************)
EXTENDS SectionLayout, FiniteSetTheorems, WellFoundedInduction, TLAPS

(***************************************************************************)
(* The invariants.                                                         *)
(***************************************************************************)
SegmentDef == [type: SegmentTypes, write: BOOLEAN, exec: BOOLEAN]
OrderEvent ==
  [kind: {"SegmentStart", "SegmentEnd", "SetLocation", "SetSectionAddress"}, what: Nat]
  \cup [kind: {"Section"}, what: Sections]
PlanEvent == OrderEvent \cup [kind: {"Add"}, what: Sections]
RegionNames == {"none"} \cup DOMAIN input.regions
Builder == [events: Seq(OrderEvent), segs: Seq(SegmentDef), id: [Defs -> Nat], region: [Defs -> RegionNames]]
Counters == [at: Nat \ {0}, mem: Int, file: Int, pending: Int, tls: Int]
PartLayout == [mem: Int, file: Int, msize: Nat, fsize: Nat, alignment: Nat \ {0}]

Stages == {"plan", "order", "headers", "walk", "segments", "groups", "compress", "done", "failed"}
Walked == stage \in {"segments", "groups", "compress", "done"}

TypeInv ==
  /\ input \in Outputs
  /\ stage \in Stages
  /\ plan \in Seq(PlanEvent)
  /\ order \in Builder
  /\ walk \in Counters
  /\ stage = "walk" \/ Walked =>
       parts \in [Sections -> Seq(PartLayout)] /\ used \in [DOMAIN input.regions -> Int]
  /\ stage \in {"groups", "compress", "done"} =>
       Len(segments) \in Nat /\ segments = [i \in 1 .. Len(segments) |-> segments[i]]

(* Sizes are what the phases before have found, less what was relaxed.     *)
SizesInv ==
  /\ DOMAIN sizes = Sections
  /\ \A s \in Sections :
       /\ sizes[s] \in [Parts(s) -> [1 .. NumGroups -> Seq(Nat)]]
       /\ \A p \in Parts(s) : \A g \in 1 .. NumGroups : \A k \in DOMAIN sizes[s][p][g] :
            /\ s \notin Packed => sizes[s][p][g][k] % PartAlignment(s, p) = 0
            /\ s = "relro_padding" => sizes[s][p][g][k] = 0

(* A section has a place for each part, aligned and large enough.          *)
HasPlace(s) ==
  /\ Len(parts[s]) = Len(Section(s).alignments)
  /\ \A p \in Parts(s) :
       /\ PartSize(s, p) <= parts[s][p].msize
       /\ PartSize(s, p) > 0 => parts[s][p].mem % PartAlignment(s, p) = 0

PlacesInv ==
  /\ stage = "walk" => \A s \in Sections : \A i \in DOMAIN Events :
                          i < walk.at /\ Events[i] = Event("Section", s) => HasPlace(s)
  /\ Walked => \A s \in EmittedSections : HasPlace(s)

(* What a group computes for its inputs.                                   *)
PlacesOf(g) ==
  [s \in EmittedSections |-> [p \in Parts(s) |-> [k \in DOMAIN sizes[s][p][g] |-> AddressOf(s, p, g, k)]]]
GroupsInv ==
  /\ stage \in {"groups", "compress", "done"} =>
       placed = [g \in 1 .. NumGroups |-> placed[g]]
       /\ \A g \in 1 .. NumGroups : placed[g] = <<>> \/ placed[g] = PlacesOf(g)
  /\ stage \in {"compress", "done"} => \A g \in 1 .. NumGroups : placed[g] = PlacesOf(g)

LayoutInv == TypeInv /\ SizesInv /\ PlacesInv /\ GroupsInv

-----------------------------------------------------------------------------
(* Loops and sums.                                                         *)

(* Induction, for a set instead of a predicate. *)
LEMMA NatInductionSet ==
  ASSUME NEW P \in SUBSET Nat, 0 \in P, \A k \in P : k + 1 \in P
  PROVE  P = Nat
<1> SUFFICES ASSUME Nat \ P # {} PROVE FALSE
  OBVIOUS
<1>1. IsWellFoundedOn(OpToRel(<, Nat), Nat)
  BY NatLessThanWellFounded
<1>2. PICK x \in Nat \ P : \A y \in Nat \ P : ~(<<y, x>> \in OpToRel(<, Nat))
  <2>1. Nat \ P \subseteq Nat
    OBVIOUS
  <2> QED BY <1>1, <2>1, WFMin
<1>3. \A y \in Nat \ P : ~(y < x)
  BY <1>2 DEF OpToRel
<1>4. x # 0 /\ x - 1 \in Nat /\ (x - 1) + 1 = x /\ x - 1 < x
  OBVIOUS
<1>5. x - 1 \in P
  BY <1>3, <1>4
<1> QED BY <1>4, <1>5

(* f is what a loop computes that starts with b and takes step F[n] in its *)
(* n-th round.                                                             *)
IsLoop(f, N, X, b, F) ==
  /\ f \in [0 .. N -> X] /\ f[0] = b
  /\ \A i \in 1 .. N : f[i] = F[i][f[i - 1]]

(* A loop over values of X computes something. *)
LEMMA LoopExists ==
  ASSUME NEW N \in Nat, NEW X, NEW b \in X, NEW F \in [1 .. N -> [X -> X]]
  PROVE  \E f : IsLoop(f, N, X, b, F)
<1> DEFINE Loop(k) == \E f \in [0 .. k -> X] : f[0] = b /\ \A i \in 1 .. k : f[i] = F[i][f[i - 1]]
           P == {k \in Nat : k <= N => Loop(k)}
<1>1. Loop(0)
  <2>1. [i \in 0 .. 0 |-> b] \in [0 .. 0 -> X]
    OBVIOUS
  <2>2. [i \in 0 .. 0 |-> b][0] = b /\ 1 .. 0 = {}
    OBVIOUS
  <2> QED BY <2>1, <2>2
<1>2. ASSUME NEW k \in Nat, k + 1 <= N, Loop(k) PROVE Loop(k + 1)
  <2>1. PICK f \in [0 .. k -> X] : f[0] = b /\ \A i \in 1 .. k : f[i] = F[i][f[i - 1]]
    BY <1>2
  <2> DEFINE g == [i \in 0 .. (k + 1) |-> IF i = k + 1 THEN F[k + 1][f[k]] ELSE f[i]]
  <2>2. f[k] \in X /\ F[k + 1] \in [X -> X] /\ F[k + 1][f[k]] \in X
    BY <1>2
  <2>3. g \in [0 .. (k + 1) -> X] /\ g[0] = b
    BY <2>1, <2>2
  <2>4. ASSUME NEW i \in 1 .. (k + 1) PROVE g[i] = F[i][g[i - 1]]
    <3>1. CASE i = k + 1
      BY <3>1
    <3>2. CASE i # k + 1
      <4>1. i \in 1 .. k /\ i - 1 \in 0 .. k /\ i - 1 # k + 1 /\ i - 1 \in 0 .. (k + 1)
        BY <3>2
      <4>2. g[i] = f[i] /\ g[i - 1] = f[i - 1]
        BY <3>2, <4>1
      <4> QED BY <2>1, <4>1, <4>2
    <3> QED BY <3>1, <3>2
  <2> HIDE DEF g
  <2> QED BY <2>3, <2>4
<1> HIDE DEF Loop
<1>3. 0 \in P /\ \A k \in P : k + 1 \in P
  BY <1>1, <1>2
<1>4. P \in SUBSET Nat
  OBVIOUS
<1> HIDE DEF P
<1>5. P = Nat
  BY <1>3, <1>4, NatInductionSet
<1>6. Loop(N)
  <2>1. N \in P
    BY <1>5
  <2> QED BY <2>1 DEF P
<1> QED BY <1>6 DEF Loop, IsLoop

(* A function that takes the steps of the loop is what it computes. *)
LEMMA LoopFacts ==
  ASSUME NEW N \in Nat, NEW X, NEW b \in X, NEW F \in [1 .. N -> [X -> X]],
         NEW f, f = [i \in 0 .. N |-> f[i]], f[0] = b,
         \A i \in 1 .. N : f[i - 1] \in X => f[i] = F[i][f[i - 1]]
  PROVE  IsLoop(f, N, X, b, F)
<1> DEFINE Q == {k \in Nat : k <= N => f[k] \in X}
<1>2. 0 \in Q
  OBVIOUS
<1>3. ASSUME NEW k \in Q PROVE k + 1 \in Q
  <2> SUFFICES ASSUME k + 1 <= N PROVE f[k + 1] \in X
    OBVIOUS
  <2>1. k + 1 \in 1 .. N /\ (k + 1) - 1 = k /\ f[k] \in X
    OBVIOUS
  <2>2. f[k + 1] = F[k + 1][f[k]]
    BY <2>1
  <2> QED BY <2>1, <2>2
<1>4. Q \in SUBSET Nat
  OBVIOUS
<1> HIDE DEF Q
<1>5. Q = Nat
  BY <1>2, <1>3, <1>4, NatInductionSet
<1>6. \A i \in 0 .. N : f[i] \in X
  BY <1>5 DEF Q
<1>7. f \in [0 .. N -> X]
  BY <1>6
<1>8. \A i \in 1 .. N : f[i - 1] \in X
  BY <1>6
<1> QED BY <1>7, <1>8 DEF IsLoop

(* Sums of numbers. *)
LEMMA SumsFacts ==
  ASSUME NEW seq \in Seq(Nat)
  PROVE  /\ Sums(seq) \in [0 .. Len(seq) -> Nat] /\ Sums(seq)[0] = 0
         /\ \A i \in 1 .. Len(seq) : Sums(seq)[i] = Sums(seq)[i - 1] + seq[i]
<1> DEFINE N == Len(seq)
           F == [i \in 1 .. N |-> [x \in Nat |-> x + seq[i]]]
           Eq(f) == f = [n \in 0 .. N |-> IF n = 0 THEN 0 ELSE f[n - 1] + seq[n]]
<1>1. Sums(seq) = CHOOSE f : Eq(f)
  BY DEF Sums
<1>2. N \in Nat /\ \A i \in 1 .. N : seq[i] \in Nat /\ i - 1 \in 0 .. N
  OBVIOUS
<1>3. F \in [1 .. N -> [Nat -> Nat]] /\ \A i \in 1 .. N : \A x \in Nat : F[i][x] = x + seq[i]
  BY <1>2
<1> HIDE DEF F, N
<1>4. PICK f : IsLoop(f, N, Nat, 0, F)
  BY <1>2, <1>3, LoopExists
<1>5. Eq(f)
  <2>1. \A i \in 1 .. N : f[i] = f[i - 1] + seq[i]
    BY <1>2, <1>3, <1>4 DEF IsLoop
  <2> QED BY <2>1, <1>2, <1>4 DEF IsLoop
<1>6. PICK g : g = Sums(seq)
  OBVIOUS
<1>7. Eq(g)
  BY <1>1, <1>5, <1>6
<1>8. /\ g = [i \in 0 .. N |-> g[i]] /\ g[0] = 0
      /\ \A i \in 1 .. N : g[i - 1] \in Nat => g[i] = F[i][g[i - 1]]
  <2>1. g = [i \in 0 .. N |-> g[i]] /\ g[0] = 0
    BY <1>2, <1>7
  <2>2. \A i \in 1 .. N : g[i] = g[i - 1] + seq[i]
    BY <1>2, <1>7
  <2> QED BY <1>3, <2>1, <2>2
<1>9. IsLoop(g, N, Nat, 0, F)
  BY <1>2, <1>3, <1>8, LoopFacts
<1>10. \A i \in 1 .. N : g[i] = g[i - 1] + seq[i]
  BY <1>2, <1>3, <1>9 DEF IsLoop
<1> QED BY <1>6, <1>9, <1>10 DEF IsLoop, N

(* The elements of a sequence that are in a set are a sequence of them. *)
LEMMA OnlyType ==
  ASSUME NEW T, NEW seq \in Seq(T), NEW S
  PROVE  Only(seq, S) \in Seq(S)
<1> DEFINE N == Len(seq)
           X == Seq(S)
           base == <<>>
           step(x, i) == IF seq[i] \in S THEN Append(x, seq[i]) ELSE x
           F == [i \in 1 .. N |-> [x \in X |-> step(x, i)]]
           Eq(f) == f = [n \in 0 .. N |-> IF n = 0 THEN base ELSE step(f[n - 1], n)]
<1>1. Only(seq, S) = (CHOOSE f : Eq(f))[N]
  BY DEF Only
<1>2. N \in Nat /\ base \in X /\ \A i \in 1 .. N : i \in 0 .. N /\ i # 0 /\ i - 1 \in 0 .. N
  OBVIOUS
<1>3. \A i \in 1 .. N : \A x \in X : step(x, i) \in X
  OBVIOUS
<1> HIDE DEF N, X, step
<1>4. F \in [1 .. N -> [X -> X]] /\ \A i \in 1 .. N : \A x \in X : F[i][x] = step(x, i)
  BY <1>3
<1> HIDE DEF F
<1>5. PICK f : IsLoop(f, N, X, base, F)
  BY <1>2, <1>4, LoopExists
<1>6. Eq(f)
  <2>1. \A i \in 1 .. N : f[i] = step(f[i - 1], i)
    BY <1>2, <1>4, <1>5 DEF IsLoop
  <2>2. f = [n \in 0 .. N |-> f[n]]
    BY <1>5 DEF IsLoop
  <2>3. \A n \in 0 .. N : f[n] = IF n = 0 THEN base ELSE step(f[n - 1], n)
    BY <1>2, <1>5, <2>1 DEF IsLoop
  <2> QED BY <2>2, <2>3
<1>7. PICK g : Eq(g) /\ Only(seq, S) = g[N]
  BY <1>1, <1>6
<1>8. /\ g = [i \in 0 .. N |-> g[i]] /\ g[0] = base
      /\ \A i \in 1 .. N : g[i - 1] \in X => g[i] = F[i][g[i - 1]]
  <2>1. g = [i \in 0 .. N |-> g[i]] /\ g[0] = base
    BY <1>2, <1>7
  <2>2. \A i \in 1 .. N : g[i] = step(g[i - 1], i)
    BY <1>2, <1>7
  <2> QED BY <1>4, <2>1, <2>2
<1>9. IsLoop(g, N, X, base, F)
  BY <1>2, <1>4, <1>8, LoopFacts
<1> QED BY <1>2, <1>7, <1>9 DEF IsLoop, X

(* Pushing an event. *)
LEMMA PushType ==
  ASSUME NEW b \in Builder, NEW kind, NEW what, Event(kind, what) \in OrderEvent
  PROVE  /\ Push(b, kind, what) \in Builder
         /\ Push(b, kind, what).id = b.id /\ Push(b, kind, what).segs = b.segs
<1>1. b.events \in Seq(OrderEvent) /\ b = [events |-> b.events, segs |-> b.segs, id |-> b.id, region |-> b.region]
  BY DEF Builder
<1>2. Append(b.events, Event(kind, what)) \in Seq(OrderEvent)
  BY <1>1
<1> QED BY <1>1, <1>2 DEF Push, Builder

(* Ending and starting a segment. *)
LEMMA IdType ==
  ASSUME NEW b \in Builder, NEW d \in Defs, NEW n \in Nat, NEW r \in RegionNames
  PROVE  [b EXCEPT !.id[d] = n, !.region[d] = r] \in Builder
  BY DEF Builder

(* The segments of the default order. *)
LEMMA SegmentDefsType ==
  /\ Len(SegmentDefs) = 7 /\ Defs = 1 .. 7
  /\ \A d \in Defs : SegmentDefs[d] \in SegmentDef
<1>1. Len(SegmentDefs) = 7 /\ Defs = 1 .. 7
  BY DEF SegmentDefs, Defs
<1> DEFINE e1 == [type |-> "PHDR", write |-> FALSE, exec |-> FALSE]
           e2 == [type |-> "LOAD", write |-> FALSE, exec |-> FALSE]
           e3 == [type |-> "LOAD", write |-> FALSE, exec |-> TRUE]
           e4 == [type |-> "LOAD", write |-> TRUE, exec |-> FALSE]
           e5 == [type |-> "LOAD", write |-> TRUE, exec |-> TRUE]
           e6 == [type |-> "TLS", write |-> FALSE, exec |-> FALSE]
           e7 == [type |-> "RELRO", write |-> FALSE, exec |-> FALSE]
<1>2. SegmentDefs = <<e1, e2, e3, e4, e5, e6, e7>>
  BY DEF SegmentDefs
<1>3. e1 \in SegmentDef
  BY DEF SegmentDef, SegmentTypes
<1>4. e2 \in SegmentDef
  BY DEF SegmentDef, SegmentTypes
<1>5. e3 \in SegmentDef
  BY DEF SegmentDef, SegmentTypes
<1>6. e4 \in SegmentDef
  BY DEF SegmentDef, SegmentTypes
<1>7. e5 \in SegmentDef
  BY DEF SegmentDef, SegmentTypes
<1>8. e6 \in SegmentDef
  BY DEF SegmentDef, SegmentTypes
<1>9. e7 \in SegmentDef
  BY DEF SegmentDef, SegmentTypes
<1> HIDE DEF e1, e2, e3, e4, e5, e6, e7
<1>10. SegmentDefs \in Seq(SegmentDef)
  BY <1>2, <1>3, <1>4, <1>5, <1>6, <1>7, <1>8, <1>9
<1>11. \A d \in 1 .. Len(SegmentDefs) : SegmentDefs[d] \in SegmentDef
  BY <1>10
<1> QED BY <1>1, <1>11

(* Ending segments before a section keeps the builder well formed. *)
LEMMA StopType ==
  ASSUME NEW b \in Builder, NEW s
  PROVE  StopSegments(b, s) \in Builder
<1> DEFINE N == Len(SegmentDefs)
           X == Builder
           base == b
           stops == {d \in Defs :
            /\ b.id[d] # 0
            /\ \/ Section(s).location # 0
               \/ ~ShouldInclude(s, SegmentDefs[d])
               \/ b.region[d] # Section(s).region}
           step(acc, d) ==
            IF d \in stops
            THEN [Push(acc, "SegmentEnd", acc.id[d])
                    EXCEPT !.id[d] = 0, !.region[d] = "none"]
            ELSE acc
           F == [i \in 1 .. N |-> [x \in X |-> step(x, i)]]
           Eq(f) == f = [n \in 0 .. N |-> IF n = 0 THEN base ELSE step(f[n - 1], n)]
<1>1. StopSegments(b, s) = (CHOOSE f : Eq(f))[N]
  BY DEF StopSegments
<1>0. N = 7 /\ Defs = 1 .. N
  BY SegmentDefsType
<1>2. N \in Nat /\ base \in X /\ \A i \in 1 .. N : i \in 0 .. N /\ i # 0 /\ i - 1 \in 0 .. N
  BY <1>0
<1>3. ASSUME NEW d \in 1 .. N, NEW x \in X PROVE step(x, d) \in X
  <2>1. x.id[d] \in Nat
    BY <1>0 DEF Builder
  <2>2. Event("SegmentEnd", x.id[d]) \in OrderEvent
    BY <2>1 DEF Event, OrderEvent
  <2>3. Push(x, "SegmentEnd", x.id[d]) \in Builder
    BY <2>2, PushType
  <2> DEFINE y == Push(x, "SegmentEnd", x.id[d])
  <2>4. y \in Builder
    BY <2>3
  <2>5. 0 \in Nat /\ "none" \in RegionNames /\ d \in Defs
    BY <1>0 DEF RegionNames
  <2> HIDE DEF y
  <2>6. [y EXCEPT !.id[d] = 0, !.region[d] = "none"] \in Builder
    BY <2>4, <2>5, IdType
  <2> HIDE DEF stops
  <2>7. step(x, d) = IF d \in stops THEN [y EXCEPT !.id[d] = 0, !.region[d] = "none"] ELSE x
    BY DEF y
  <2> QED BY <2>6, <2>7
<1> HIDE DEF N, X, step
<1>4. F \in [1 .. N -> [X -> X]] /\ \A i \in 1 .. N : \A x \in X : F[i][x] = step(x, i)
  BY <1>3
<1> HIDE DEF F
<1>5. PICK f : IsLoop(f, N, X, base, F)
  BY <1>2, <1>4, LoopExists
<1>6. Eq(f)
  <2>1. \A i \in 1 .. N : f[i] = step(f[i - 1], i)
    BY <1>2, <1>4, <1>5 DEF IsLoop
  <2>2. f = [n \in 0 .. N |-> f[n]]
    BY <1>5 DEF IsLoop
  <2>3. \A n \in 0 .. N : f[n] = IF n = 0 THEN base ELSE step(f[n - 1], n)
    BY <1>2, <1>5, <2>1 DEF IsLoop
  <2> QED BY <2>2, <2>3
<1>7. PICK g : Eq(g) /\ StopSegments(b, s) = g[N]
  BY <1>1, <1>6
<1>8. /\ g = [i \in 0 .. N |-> g[i]] /\ g[0] = base
      /\ \A i \in 1 .. N : g[i - 1] \in X => g[i] = F[i][g[i - 1]]
  <2>1. g = [i \in 0 .. N |-> g[i]] /\ g[0] = base
    BY <1>2, <1>7
  <2>2. \A i \in 1 .. N : g[i] = step(g[i - 1], i)
    BY <1>2, <1>7
  <2> QED BY <1>4, <2>1, <2>2
<1>9. IsLoop(g, N, X, base, F)
  BY <1>2, <1>4, <1>8, LoopFacts
<1> QED BY <1>2, <1>7, <1>9 DEF IsLoop, X

(* What is assumed of the sections of the input. *)
LEMMA InputFacts ==
  ASSUME input \in Outputs
  PROVE  /\ IsOutput(input) /\ IsFiniteSet(Sections)
         /\ \A s \in Sections : /\ IsOutputSection(s, Section(s))
                                /\ Section(s).region \in RegionNames
                                /\ Section(s).location \in Nat /\ Section(s).counter \in Nat
<1>1. IsOutput(input)
  BY LayoutAssumption
<1> QED BY <1>1 DEF IsOutput, IsOutputSection, Sections, Section, RegionNames

(* So does starting those that the section belongs to ... *)
LEMMA StartType ==
  ASSUME input \in Outputs, NEW b \in Builder, NEW s \in Sections
  PROVE  StartSegments(b, s) \in Builder
<1> DEFINE N == Len(SegmentDefs)
           X == Builder
           base == b
           step(acc, d) ==
            IF acc.id[d] = 0 /\ ShouldInclude(s, SegmentDefs[d])
            THEN LET new == Len(acc.segs) + 1
                 IN  [Push(acc, "SegmentStart", new)
                        EXCEPT !.segs = Append(@, SegmentDefs[d]),
                               !.id[d] = new, !.region[d] = Section(s).region]
            ELSE acc
           F == [i \in 1 .. N |-> [x \in X |-> step(x, i)]]
           Eq(f) == f = [n \in 0 .. N |-> IF n = 0 THEN base ELSE step(f[n - 1], n)]
<1>1. StartSegments(b, s) = (CHOOSE f : Eq(f))[N]
  BY DEF StartSegments
<1>0. N = 7 /\ Defs = 1 .. N /\ \A d \in Defs : SegmentDefs[d] \in SegmentDef
  BY SegmentDefsType
<1>2. N \in Nat /\ base \in X /\ \A i \in 1 .. N : i \in 0 .. N /\ i # 0 /\ i - 1 \in 0 .. N
  BY <1>0
<1>3. ASSUME NEW d \in 1 .. N, NEW x \in X PROVE step(x, d) \in X
  <2> DEFINE new == Len(x.segs) + 1
             y == Push(x, "SegmentStart", new)
             z == [y EXCEPT !.segs = Append(@, SegmentDefs[d])]
  <2>1. new \in Nat
    BY DEF Builder
  <2>2. Event("SegmentStart", new) \in OrderEvent
    BY <2>1 DEF Event, OrderEvent
  <2>3. y \in Builder
    BY <2>2, PushType
  <2>4. Append(y.segs, SegmentDefs[d]) \in Seq(SegmentDef)
    <3>1. y.segs \in Seq(SegmentDef) /\ SegmentDefs[d] \in SegmentDef
      BY <1>0, <2>3 DEF Builder
    <3> QED BY <3>1
  <2> HIDE DEF new, y
  <2>5. z \in Builder
    BY <2>3, <2>4 DEF Builder
  <2>6. Section(s).region \in RegionNames
    BY InputFacts
  <2> HIDE DEF z
  <2>7. [z EXCEPT !.id[d] = new, !.region[d] = Section(s).region] \in Builder
    BY <1>0, <2>1, <2>5, <2>6, IdType
  <2>8. [y EXCEPT !.segs = Append(@, SegmentDefs[d]), !.id[d] = new, !.region[d] = Section(s).region]
        = [z EXCEPT !.id[d] = new, !.region[d] = Section(s).region]
    BY DEF z
  <2> QED BY <2>7, <2>8 DEF new, y
<1> HIDE DEF N, X, step
<1>4. F \in [1 .. N -> [X -> X]] /\ \A i \in 1 .. N : \A x \in X : F[i][x] = step(x, i)
  BY <1>3
<1> HIDE DEF F
<1>5. PICK f : IsLoop(f, N, X, base, F)
  BY <1>2, <1>4, LoopExists
<1>6. Eq(f)
  <2>1. \A i \in 1 .. N : f[i] = step(f[i - 1], i)
    BY <1>2, <1>4, <1>5 DEF IsLoop
  <2>2. f = [n \in 0 .. N |-> f[n]]
    BY <1>5 DEF IsLoop
  <2>3. \A n \in 0 .. N : f[n] = IF n = 0 THEN base ELSE step(f[n - 1], n)
    BY <1>2, <1>5, <2>1 DEF IsLoop
  <2> QED BY <2>2, <2>3
<1>7. PICK g : Eq(g) /\ StartSegments(b, s) = g[N]
  BY <1>1, <1>6
<1>8. /\ g = [i \in 0 .. N |-> g[i]] /\ g[0] = base
      /\ \A i \in 1 .. N : g[i - 1] \in X => g[i] = F[i][g[i - 1]]
  <2>1. g = [i \in 0 .. N |-> g[i]] /\ g[0] = base
    BY <1>2, <1>7
  <2>2. \A i \in 1 .. N : g[i] = step(g[i - 1], i)
    BY <1>2, <1>7
  <2> QED BY <1>4, <2>1, <2>2
<1>9. IsLoop(g, N, X, base, F)
  BY <1>2, <1>4, <1>8, LoopFacts
<1> QED BY <1>2, <1>7, <1>9 DEF IsLoop, X

(* The sections that follow a primary section, by their priorities. *)
LEMMA SecondariesType ==
  ASSUME input \in Outputs, NEW s, s # "none"
  PROVE  Secondaries(s) \in Seq(Sections)
<1> DEFINE all == {t \in Sections : Section(t).primary = s}
           Below(t) == {u \in all : Section(u).priority < Section(t).priority}
           rank(t) == Cardinality(Below(t))
           C == Cardinality(all)
<1>1. Secondaries(s) = [i \in 1 .. C |-> CHOOSE t \in all : rank(t) = i - 1]
  BY DEF Secondaries
<1>2. all \subseteq Sections /\ IsFiniteSet(Sections)
  BY InputFacts
<1>3. IsFiniteSet(all) /\ C \in Nat
  BY <1>2, FS_Subset, FS_CardinalityType
<1>4. \A t \in all : Section(t).priority \in Nat
  BY InputFacts DEF IsOutputSection
<1>5. \A t, u \in all : t # u => Section(t).priority # Section(u).priority
  BY InputFacts DEF IsOutput, Sections, Section
<1>6. ASSUME NEW t \in all PROVE rank(t) \in 0 .. C - 1 /\ IsFiniteSet(Below(t))
  <2>1. Below(t) \subseteq all /\ t \notin Below(t)
    BY <1>4
  <2>2. IsFiniteSet(Below(t)) /\ rank(t) <= C /\ (C = rank(t) => all = Below(t)) /\ rank(t) \in Nat
    BY <1>3, <2>1, FS_Subset, FS_CardinalityType
  <2> QED BY <1>3, <2>1, <2>2
<1>7. ASSUME NEW t \in all, NEW u \in all, Section(t).priority < Section(u).priority
      PROVE  rank(t) # rank(u)
  <2>1. Below(t) \subseteq Below(u) /\ t \in Below(u) /\ t \notin Below(t)
    BY <1>4, <1>7
  <2> QED BY <1>6, <2>1, FS_Subset
<1>8. \A t, u \in all : rank(t) = rank(u) => t = u
  BY <1>4, <1>5, <1>7
<1> HIDE DEF Below, rank, C
<1>9. ASSUME NEW i \in 1 .. C PROVE \E t \in all : rank(t) = i - 1
  <2> SUFFICES ASSUME \A t \in all : rank(t) # i - 1 PROVE FALSE
    OBVIOUS
  <2> DEFINE T == (0 .. C - 1) \ {i - 1}
             f == [t \in all |-> rank(t)]
  <2>1. f \in [all -> T]
    BY <1>6
  <2>2. IsFiniteSet(0 .. C - 1) /\ Cardinality(0 .. C - 1) = C
    BY <1>3, <1>9, FS_Interval
  <2>3. i - 1 \in 0 .. C - 1
    BY <1>3
  <2>4. IsFiniteSet(T) /\ Cardinality(T) = C - 1
    BY <2>2, <2>3, FS_RemoveElement
  <2>5. Cardinality(T) < Cardinality(all)
    BY <1>3, <2>4 DEF C
  <2>6. \A t \in all : f[t] = rank(t)
    OBVIOUS
  <2> HIDE DEF T, f, all
  <2>7. \E t, u \in all : t # u /\ f[t] = f[u]
    BY <1>3, <2>1, <2>4, <2>5, FS_PigeonHole
  <2> QED BY <1>8, <2>6, <2>7
<1>10. \A i \in 1 .. C : (CHOOSE t \in all : rank(t) = i - 1) \in Sections
  BY <1>9
<1> DEFINE list == [i \in 1 .. C |-> CHOOSE t \in all : rank(t) = i - 1]
<1>11. list \in [1 .. C -> Sections]
  BY <1>10
<1> HIDE DEF list
<1>12. list \in Seq(Sections)
  BY <1>3, <1>11
<1> QED BY <1>1, <1>12 DEF list

(* ... ending the writable LOAD segment after .bss ... *)
LEMMA EndRwType ==
  ASSUME NEW b \in Builder, NEW s
  PROVE  EndRwLoadSegment(b, s) \in Builder
<1> DEFINE y == Push(b, "SegmentEnd", b.id[RwLoad])
<1>1. RwLoad \in Defs /\ 0 \in Nat /\ "none" \in RegionNames
  BY SegmentDefsType DEF RwLoad, RegionNames
<1>2. b.id[RwLoad] \in Nat
  BY <1>1 DEF Builder
<1>3. Event("SegmentEnd", b.id[RwLoad]) \in OrderEvent
  BY <1>2 DEF Event, OrderEvent
<1>4. y \in Builder
  BY <1>3, PushType
<1>5. EndRwLoadSegment(b, s) = [y EXCEPT !.id[RwLoad] = 0, !.region[RwLoad] = "none"]
      \/ EndRwLoadSegment(b, s) = b
  BY DEF EndRwLoadSegment
<1> HIDE DEF y
<1>6. [y EXCEPT !.id[RwLoad] = 0, !.region[RwLoad] = "none"] \in Builder
  BY <1>1, <1>4, IdType
<1> QED BY <1>5, <1>6

(* ... emitting a section with its location and address ... *)
LEMMA EmitType ==
  ASSUME input \in Outputs, NEW b \in Builder, NEW s \in Sections
  PROVE  Push(EmitLocation(b, s), "Section", s) \in Builder
<1>1. Event("SetLocation", Section(s).counter) \in OrderEvent
  <2>1. Section(s).counter \in Nat
    BY InputFacts
  <2> QED BY <2>1 DEF Event, OrderEvent
<1>2. EmitLocation(b, s) \in Builder
  BY <1>1, PushType DEF EmitLocation
<1>3. Event("Section", s) \in OrderEvent
  BY DEF Event, OrderEvent
<1> QED BY <1>2, <1>3, PushType

(* ... adding a section with its secondaries ... *)
LEMMA AddSectionType ==
  ASSUME input \in Outputs, NEW b \in Builder, NEW s \in Sections
  PROVE  AddSection(b, s) \in Builder
<1> DEFINE automatic == ~input.partial /\ input.phdrs = <<>>
           b1 == IF automatic THEN StopSegments(EndRwLoadSegment(b, s), s) ELSE b
           b2 == IF Section(s).location # 0 /\ Has(s, "A")
                 THEN Push(b1, "SetSectionAddress", Section(s).location) ELSE b1
           b3 == IF automatic THEN StartSegments(b2, s) ELSE b2
           emit(acc, t) == Push(EmitLocation(acc, t), "Section", t)
           others == Secondaries(s)
           N == Len(others)
           X == Builder
           base == emit(b3, s)
           step(acc, n) == emit(acc, others[n])
           F == [i \in 1 .. N |-> [x \in X |-> step(x, i)]]
           Eq(f) == f = [n \in 0 .. N |-> IF n = 0 THEN base ELSE step(f[n - 1], n)]
<1>1. AddSection(b, s) = (CHOOSE f : Eq(f))[N]
  BY DEF AddSection
<1>a. b1 \in Builder
  BY EndRwType, StopType
<1>b. b2 \in Builder
  <2>1. Section(s).location \in Nat
    BY InputFacts
  <2>2. Event("SetSectionAddress", Section(s).location) \in OrderEvent
    BY <2>1 DEF Event, OrderEvent
  <2> HIDE DEF b1
  <2> QED BY <1>a, <2>2, PushType
<1> HIDE DEF b2
<1>c. b3 \in Builder
  BY <1>b, StartType
<1> HIDE DEF b3
<1>d. others \in Seq(Sections)
  <2>1. s # "none"
    BY InputFacts DEF IsOutput, Sections
  <2> QED BY <2>1, SecondariesType
<1> HIDE DEF others
<1>2. N \in Nat /\ base \in X /\ \A i \in 1 .. N : i \in 0 .. N /\ i # 0 /\ i - 1 \in 0 .. N
  <2>1. base \in X
    BY <1>c, EmitType
  <2> HIDE DEF base
  <2> QED BY <1>d, <2>1
<1>3. ASSUME NEW d \in 1 .. N, NEW x \in X PROVE step(x, d) \in X
  <2>1. others[d] \in Sections
    BY <1>d
  <2> QED BY <2>1, EmitType
<1> HIDE DEF base
<1> HIDE DEF N, X, step
<1>4. F \in [1 .. N -> [X -> X]] /\ \A i \in 1 .. N : \A x \in X : F[i][x] = step(x, i)
  BY <1>3
<1> HIDE DEF F
<1>5. PICK f : IsLoop(f, N, X, base, F)
  BY <1>2, <1>4, LoopExists
<1>6. Eq(f)
  <2>1. \A i \in 1 .. N : f[i] = step(f[i - 1], i)
    BY <1>2, <1>4, <1>5 DEF IsLoop
  <2>2. f = [n \in 0 .. N |-> f[n]]
    BY <1>5 DEF IsLoop
  <2>3. \A n \in 0 .. N : f[n] = IF n = 0 THEN base ELSE step(f[n - 1], n)
    BY <1>2, <1>5, <2>1 DEF IsLoop
  <2> QED BY <2>2, <2>3
<1>7. PICK g : Eq(g) /\ AddSection(b, s) = g[N]
  BY <1>1, <1>6
<1>8. /\ g = [i \in 0 .. N |-> g[i]] /\ g[0] = base
      /\ \A i \in 1 .. N : g[i - 1] \in X => g[i] = F[i][g[i - 1]]
  <2>1. g = [i \in 0 .. N |-> g[i]] /\ g[0] = base
    BY <1>2, <1>7
  <2>2. \A i \in 1 .. N : g[i] = step(g[i - 1], i)
    BY <1>2, <1>7
  <2> QED BY <1>4, <2>1, <2>2
<1>9. IsLoop(g, N, X, base, F)
  BY <1>2, <1>4, <1>8, LoopFacts
<1> QED BY <1>2, <1>7, <1>9 DEF IsLoop, X

(* ... and ending what is still open when the order is built. *)
LEMMA BuildType ==
  ASSUME NEW b \in Builder
  PROVE  Build(b) \in Builder
<1> DEFINE N == Len(SegmentDefs)
           X == {y \in Builder : y.segs = b.segs}
           base == b
           step(acc, n) == IF b.id[n] = 0 THEN acc ELSE Push(acc, "SegmentEnd", b.id[n])
           F == [i \in 1 .. N |-> [x \in X |-> step(x, i)]]
           Eq(f) == f = [n \in 0 .. N |-> IF n = 0 THEN base ELSE step(f[n - 1], n)]
           ended == (CHOOSE f : f = [n \in 0 .. N |-> IF n = 0 THEN b
                                            ELSE IF b.id[n] = 0 THEN f[n - 1]
                                            ELSE Push(f[n - 1], "SegmentEnd", b.id[n])])[N]
           stack == Len(b.segs) + 1
<1>1. ended = (CHOOSE f : Eq(f))[N]
  OBVIOUS
<1>0. Build(b) = IF input.partial \/ input.phdrs # <<>> THEN ended
                 ELSE [Push(Push(ended, "SegmentStart", stack), "SegmentEnd", stack)
                         EXCEPT !.segs = Append(@, StackDef)]
  BY DEF Build
<1> HIDE DEF ended
<1>2. N \in Nat /\ base \in X /\ \A i \in 1 .. N : i \in 0 .. N /\ i # 0 /\ i - 1 \in 0 .. N
  BY SegmentDefsType
<1>3. ASSUME NEW d \in 1 .. N, NEW x \in X PROVE step(x, d) \in X
  <2>1. b.id[d] \in Nat
    BY SegmentDefsType DEF Builder
  <2>2. Event("SegmentEnd", b.id[d]) \in OrderEvent
    BY <2>1 DEF Event, OrderEvent
  <2>3. Push(x, "SegmentEnd", b.id[d]) \in Builder /\ Push(x, "SegmentEnd", b.id[d]).segs = x.segs
    BY <2>2, PushType
  <2> QED BY <2>3
<1> HIDE DEF N, X, step
<1>4. F \in [1 .. N -> [X -> X]] /\ \A i \in 1 .. N : \A x \in X : F[i][x] = step(x, i)
  BY <1>3
<1> HIDE DEF F
<1>5. PICK f : IsLoop(f, N, X, base, F)
  BY <1>2, <1>4, LoopExists
<1>6. Eq(f)
  <2>1. \A i \in 1 .. N : f[i] = step(f[i - 1], i)
    BY <1>2, <1>4, <1>5 DEF IsLoop
  <2>2. f = [n \in 0 .. N |-> f[n]]
    BY <1>5 DEF IsLoop
  <2>3. \A n \in 0 .. N : f[n] = IF n = 0 THEN base ELSE step(f[n - 1], n)
    BY <1>2, <1>5, <2>1 DEF IsLoop
  <2> QED BY <2>2, <2>3
<1>7. PICK g : Eq(g) /\ ended = g[N]
  BY <1>1, <1>6
<1>8. /\ g = [i \in 0 .. N |-> g[i]] /\ g[0] = base
      /\ \A i \in 1 .. N : g[i - 1] \in X => g[i] = F[i][g[i - 1]]
  <2>1. g = [i \in 0 .. N |-> g[i]] /\ g[0] = base
    BY <1>2, <1>7
  <2>2. \A i \in 1 .. N : g[i] = step(g[i - 1], i)
    BY <1>2, <1>7
  <2> QED BY <1>4, <2>1, <2>2
<1>9. IsLoop(g, N, X, base, F)
  BY <1>2, <1>4, <1>8, LoopFacts
<1>10. ended \in X
  BY <1>2, <1>7, <1>9 DEF IsLoop, X
<1>11. stack \in Nat /\ b.segs \in Seq(SegmentDef)
  BY DEF Builder
<1> DEFINE y == Push(Push(ended, "SegmentStart", stack), "SegmentEnd", stack)
<1>12. y \in Builder /\ y.segs = b.segs
  <2>1. Event("SegmentStart", stack) \in OrderEvent /\ Event("SegmentEnd", stack) \in OrderEvent
    BY <1>11 DEF Event, OrderEvent
  <2>2. ended \in Builder /\ ended.segs = b.segs
    BY <1>10 DEF X
  <2> HIDE DEF stack
  <2>3. Push(ended, "SegmentStart", stack) \in Builder /\ Push(ended, "SegmentStart", stack).segs = b.segs
    BY <2>1, <2>2, PushType
  <2> QED BY <2>1, <2>3, PushType
<1> HIDE DEF y
<1>13. StackDef \in SegmentDef
  BY DEF StackDef, SegmentDef, SegmentTypes
<1>14. Append(y.segs, StackDef) \in Seq(SegmentDef)
  BY <1>11, <1>12, <1>13
<1>15. [y EXCEPT !.segs = Append(@, StackDef)] \in Builder
  BY <1>12, <1>14 DEF Builder
<1> QED BY <1>0, <1>10, <1>15 DEF X, y

(* A concatenation of sequences. *)
LEMMA FlattenType ==
  ASSUME NEW T, NEW seqs \in Seq(Seq(T))
  PROVE  FlattenSeq(seqs) \in Seq(T)
<1> DEFINE N == Len(seqs)
           X == Seq(T)
           Eq(f) == f = [i \in 1 .. N |-> IF i = 1 THEN seqs[i] ELSE f[i - 1] \o seqs[i]]
<1>1. CASE N = 0
  <2>1. FlattenSeq(seqs) = seqs /\ seqs = <<>>
    BY <1>1 DEF FlattenSeq
  <2> QED BY <2>1
<1>2. CASE N # 0
  <2> DEFINE M == N - 1
             F == [i \in 1 .. M |-> [x \in X |-> x \o seqs[i + 1]]]
  <2>1. M \in Nat /\ N = M + 1 /\ \A i \in 1 .. N : seqs[i] \in X
    BY <1>2
  <2>2. F \in [1 .. M -> [X -> X]] /\ \A i \in 1 .. M : \A x \in X : F[i][x] = x \o seqs[i + 1]
    <3>1. \A i \in 1 .. M : i + 1 \in 1 .. N
      BY <2>1
    <3>2. \A i \in 1 .. M : \A x \in X : x \o seqs[i + 1] \in X
      BY <2>1, <3>1
    <3> HIDE DEF X, M
    <3> QED BY <3>2
  <2>3. FlattenSeq(seqs) = (CHOOSE f : Eq(f))[N]
    BY <1>2 DEF FlattenSeq
  <2> HIDE DEF F, N, M, X
  <2>4. seqs[1] \in X
    BY <2>1
  <2>5. PICK f : IsLoop(f, M, X, seqs[1], F)
    BY <2>1, <2>2, <2>4, LoopExists
  <2> DEFINE h == [i \in 1 .. N |-> f[i - 1]]
  <2>6. Eq(h)
    <3>1. ASSUME NEW i \in 1 .. N PROVE h[i] = IF i = 1 THEN seqs[i] ELSE h[i - 1] \o seqs[i]
      <4>1. CASE i = 1
        BY <2>5, <4>1 DEF IsLoop
      <4>2. CASE i # 1
        <5>1. i - 1 \in 1 .. M /\ (i - 1) + 1 = i /\ i - 1 \in 1 .. N /\ (i - 1) - 1 \in 0 .. M
          BY <2>1, <4>2
        <5>2. f[i - 1] = F[i - 1][f[(i - 1) - 1]] /\ f[(i - 1) - 1] \in X
          BY <2>5, <5>1 DEF IsLoop
        <5>3. f[i - 1] = f[(i - 1) - 1] \o seqs[i]
          BY <2>2, <5>1, <5>2
        <5>4. h[i] = f[i - 1] /\ h[i - 1] = f[(i - 1) - 1]
          BY <5>1
        <5> QED BY <4>2, <5>3, <5>4
      <4> QED BY <4>1, <4>2
    <3> QED BY <3>1
  <2>7. PICK g : Eq(g) /\ FlattenSeq(seqs) = g[N]
    BY <2>3, <2>6
  <2> DEFINE Q == {k \in Nat : k + 1 <= N => g[k + 1] \in X}
  <2>8. 0 \in Q
    BY <2>1, <2>4, <2>7
  <2>9. ASSUME NEW k \in Q PROVE k + 1 \in Q
    <3> SUFFICES ASSUME (k + 1) + 1 <= N PROVE g[(k + 1) + 1] \in X
      BY <2>1
    <3>1. (k + 1) + 1 \in 1 .. N /\ (k + 1) + 1 # 1 /\ ((k + 1) + 1) - 1 = k + 1 /\ k + 1 <= N
      BY <2>1
    <3>2. g[(k + 1) + 1] = g[k + 1] \o seqs[(k + 1) + 1]
      BY <2>7, <3>1
    <3>3. g[k + 1] \in X /\ seqs[(k + 1) + 1] \in X
      BY <2>1, <3>1
    <3> QED BY <3>2, <3>3 DEF X
  <2>10. Q \in SUBSET Nat
    OBVIOUS
  <2> HIDE DEF Q
  <2>11. Q = Nat
    BY <2>8, <2>9, <2>10, NatInductionSet
  <2>12. g[N] \in X
    <3>1. M \in Q /\ M + 1 = N /\ M + 1 <= N
      BY <2>1, <2>11
    <3> QED BY <3>1 DEF Q
  <2> QED BY <2>7, <2>12 DEF X
<1> QED BY <1>1, <1>2

(* The classes of custom sections. *)
LEMMA OfClassType ==
  ASSUME input \in Outputs, NEW class
  PROVE  OfClass(class) \in Seq(Sections)
<1>1. input.custom \in Seq(Sections)
  BY InputFacts DEF IsOutput, Sections
<1> DEFINE S == {s \in Sections : CustomClass(s) = class}
<1>2. S \subseteq Sections
  OBVIOUS
<1> HIDE DEF S
<1>a. Only(input.custom, S) \in Seq(S)
  BY <1>1, OnlyType
<1>3. Only(input.custom, S) \in Seq(Sections)
  BY <1>2, <1>a
<1> QED BY <1>3 DEF OfClass, S

(* The plan that adds the sections of a sequence. *)
LEMMA AddEachType ==
  ASSUME NEW seq \in Seq(Sections)
  PROVE  AddEach(seq) \in Seq(PlanEvent)
<1>1. \A i \in 1 .. Len(seq) : Event("Add", seq[i]) \in PlanEvent
  BY DEF Event, PlanEvent
<1>2. [i \in 1 .. Len(seq) |-> Event("Add", seq[i])] \in Seq(PlanEvent)
  BY <1>1
<1>3. DOMAIN seq = 1 .. Len(seq)
  OBVIOUS
<1> QED BY <1>2, <1>3 DEF AddEach

(* The script's segments are numbered from 1 and have a known type. *)
LEMMA PhdrsType ==
  ASSUME input \in Outputs
  PROVE  /\ Len(input.phdrs) \in Nat /\ Phdrs = 1 .. Len(input.phdrs) /\ Phdrs \subseteq Nat
         /\ \A g \in Phdrs : input.phdrs[g].type \in SegmentTypes
<1>1. IsOutput(input)
  BY InputFacts
<1>2. /\ Len(input.phdrs) \in Nat /\ Phdrs = 1 .. Len(input.phdrs)
      /\ \A g \in Phdrs : input.phdrs[g].type \in SegmentTypes
  BY <1>1 DEF IsOutput, Phdrs
<1> QED BY <1>2

(* Events for a set of the script's segments. *)
LEMMA EachType ==
  ASSUME input \in Outputs, NEW kind \in {"SegmentStart", "SegmentEnd"}, NEW S \in SUBSET Nat
  PROVE  Each(kind, S) \in Seq(PlanEvent)
<1> DEFINE all == [g \in Phdrs |-> g]
           ids == Only(all, S)
<1>1. all \in Seq(Nat)
  BY PhdrsType
<1> HIDE DEF all
<1>2. ids \in Seq(S)
  BY <1>1, OnlyType
<1> HIDE DEF ids
<1>3. DOMAIN ids = 1 .. Len(ids) /\ Len(ids) \in Nat /\ \A i \in 1 .. Len(ids) : ids[i] \in Nat
  <2>1. ids \in [1 .. Len(ids) -> S] /\ Len(ids) \in Nat
    BY <1>2
  <2> QED BY <2>1
<1>4. \A i \in 1 .. Len(ids) : Event(kind, ids[i]) \in PlanEvent
  BY <1>3 DEF Event, PlanEvent, OrderEvent
<1>5. [i \in 1 .. Len(ids) |-> Event(kind, ids[i])] \in Seq(PlanEvent)
  BY <1>3, <1>4
<1> QED BY <1>3, <1>5 DEF Each, ids, all

(* The plan of a script with segments of its own. *)
LEMMA CustomPlanType ==
  ASSUME input \in Outputs
  PROVE  CustomPlan \in Seq(PlanEvent)
<1> DEFINE Pos == DOMAIN ScriptOrder
<1>1. ScriptOrder \in Seq(Sections) /\ Pos = 1 .. Len(ScriptOrder) /\ Len(ScriptOrder) \in Nat
  BY InputFacts DEF IsOutput, Sections, ScriptOrder
<1>2. Phdrs \subseteq Nat /\ Phdrs = 1 .. Len(input.phdrs) /\ Len(input.phdrs) \in Nat
  BY PhdrsType
<1>3. \A kind \in {"SegmentStart", "SegmentEnd"}, g \in Phdrs : Event(kind, g) \in PlanEvent
  BY <1>2 DEF Event, PlanEvent, OrderEvent
<1>4. CustomHeaders \in Seq(PlanEvent)
  <2> DEFINE filehdr == {g \in Phdrs : input.phdrs[g].filehdr}
             phdrs == {g \in Phdrs : input.phdrs[g].phdrs}
             none == {g \in Phdrs : Ends(g) = 0}
             e1 == Each("SegmentStart", filehdr)
             e2 == Each("SegmentEnd", (filehdr \cap none) \ phdrs)
             e3 == Each("SegmentStart", phdrs \ filehdr)
             e4 == Each("SegmentEnd", phdrs \cap none)
             h1 == <<Event("Section", "file_header")>>
             h2 == <<Event("Section", "program_headers")>>
             h3 == <<Event("Section", "section_headers")>>
  <2>1. /\ filehdr \in SUBSET Nat /\ (filehdr \cap none) \ phdrs \in SUBSET Nat
        /\ phdrs \ filehdr \in SUBSET Nat /\ phdrs \cap none \in SUBSET Nat
    BY <1>2
  <2>2. CustomHeaders = e1 \o h1 \o e2 \o e3 \o h2 \o e4 \o h3
    BY DEF CustomHeaders
  <2>3. /\ "file_header" \in Sections /\ "program_headers" \in Sections
        /\ "section_headers" \in Sections
    BY InputFacts DEF IsOutput, Sections
  <2>4. h1 \in Seq(PlanEvent) /\ h2 \in Seq(PlanEvent) /\ h3 \in Seq(PlanEvent)
    BY <2>3 DEF Event, PlanEvent, OrderEvent
  <2> HIDE DEF filehdr, phdrs, none
  <2>5. e1 \in Seq(PlanEvent) /\ e2 \in Seq(PlanEvent) /\ e3 \in Seq(PlanEvent) /\ e4 \in Seq(PlanEvent)
    BY <2>1, EachType
  <2> HIDE DEF e1, e2, e3, e4, h1, h2, h3
  <2> QED BY <2>2, <2>4, <2>5
<1>5. ASSUME NEW g \in Phdrs PROVE AddEach(Unplaced(g)) \in Seq(PlanEvent)
  <2> DEFINE OfC(P, class) == IF P THEN OfClass(class) ELSE <<>>
  <2>1. /\ OfClass("exec") \in Seq(Sections) /\ OfClass("tdata") \in Seq(Sections)
        /\ OfClass("tbss") \in Seq(Sections) /\ OfClass("data") \in Seq(Sections)
        /\ OfClass("bss") \in Seq(Sections) /\ OfClass("ro") \in Seq(Sections)
    BY OfClassType
  <2>2. Unplaced(g) \in Seq(Sections)
    <3> DEFINE A == g = Chosen.exec
               B == g = Chosen.rw
               C == g = Chosen.ro
    <3>1. Unplaced(g) = (IF A THEN OfClass("exec") ELSE <<>>)
                        \o (IF B THEN OfClass("tdata") \o OfClass("tbss") \o OfClass("data")
                                        \o OfClass("bss") ELSE <<>>)
                        \o (IF C THEN OfClass("ro") ELSE <<>>)
      BY DEF Unplaced
    <3> HIDE DEF A, B, C
    <3> QED BY <2>1, <3>1
  <2> QED BY <2>2, AddEachType
<1>6. ASSUME NEW i \in Pos PROVE CustomPosition(i) \in Seq(PlanEvent)
  <2> DEFINE starts == {g \in Phdrs \ WithHeaders : Starts(g) = i}
             e == Each("SegmentStart", starts)
             h == <<Event("Add", ScriptOrder[i])>>
             ends == [g \in Phdrs |-> IF Ends(g) # i THEN <<>>
                                      ELSE AddEach(Unplaced(g)) \o <<Event("SegmentEnd", g)>>]
  <2>1. CustomPosition(i) = e \o h \o FlattenSeq(ends)
    BY DEF CustomPosition
  <2>2. starts \in SUBSET Nat
    BY <1>2
  <2> HIDE DEF starts
  <2>3. e \in Seq(PlanEvent)
    BY <2>2, EachType
  <2>4. h \in Seq(PlanEvent)
    BY <1>1 DEF Event, PlanEvent
  <2>5. ends \in [1 .. Len(input.phdrs) -> Seq(PlanEvent)]
    <3>1. ASSUME NEW g \in Phdrs
          PROVE  (IF Ends(g) # i THEN <<>> ELSE AddEach(Unplaced(g)) \o <<Event("SegmentEnd", g)>>)
                 \in Seq(PlanEvent)
      <4>1. <<Event("SegmentEnd", g)>> \in Seq(PlanEvent)
        BY <1>3
      <4> QED BY <4>1, <1>5
    <3> QED BY <1>2, <3>1
  <2> HIDE DEF ends
  <2>6. ends \in Seq(Seq(PlanEvent))
    BY <1>2, <2>5
  <2>7. FlattenSeq(ends) \in Seq(PlanEvent)
    BY <2>6, FlattenType
  <2> HIDE DEF e, h
  <2> QED BY <2>1, <2>3, <2>4, <2>7
<1> DEFINE body == [i \in Pos |-> CustomPosition(i)]
           rest == [g \in Phdrs |-> IF g \in WithHeaders \/ Ends(g) # 0 THEN <<>>
                                    ELSE <<Event("SegmentStart", g), Event("SegmentEnd", g)>>]
           free == AddEach(OfClass("nonalloc"))
<1>7. CustomPlan = CustomHeaders \o FlattenSeq(body) \o free \o FlattenSeq(rest)
  BY DEF CustomPlan
<1>8. FlattenSeq(body) \in Seq(PlanEvent)
  <2>1. body \in [1 .. Len(ScriptOrder) -> Seq(PlanEvent)]
    BY <1>1, <1>6
  <2> HIDE DEF body
  <2>2. body \in Seq(Seq(PlanEvent))
    BY <1>1, <2>1
  <2> QED BY <2>2, FlattenType
<1>9. FlattenSeq(rest) \in Seq(PlanEvent)
  <2>1. ASSUME NEW g \in Phdrs
        PROVE  <<Event("SegmentStart", g), Event("SegmentEnd", g)>> \in Seq(PlanEvent)
    BY <1>3
  <2>2. rest \in [1 .. Len(input.phdrs) -> Seq(PlanEvent)]
    BY <1>2, <2>1
  <2> HIDE DEF rest
  <2>3. rest \in Seq(Seq(PlanEvent))
    BY <1>2, <2>2
  <2> QED BY <2>3, FlattenType
<1>10. free \in Seq(PlanEvent)
  BY OfClassType, AddEachType
<1> HIDE DEF body, rest, free
<1> QED BY <1>4, <1>7, <1>8, <1>9, <1>10

(* The plan of the output order is a sequence of events. *)
LEMMA PlanType ==
  ASSUME input \in Outputs
  PROVE  Plan \in Seq(PlanEvent)
<1>1. DefaultOrder \in Seq(Sections)
  <2> DEFINE n1 == <<"file_header", "program_headers", "section_headers", "rodata">>
             n2 == <<"init">>
             n3 == <<"text", "tdata">>
             n4 == <<"tbss">>
             n5 == <<"init_array", "got", "relro_padding", "data">>
             n6 == <<"bss">>
             n7 == <<"strtab">>
             T == Sections \cup {"file_header", "program_headers", "section_headers", "rodata", "init",
                    "text", "tdata", "tbss", "init_array", "got", "relro_padding", "data", "bss", "strtab"}
             list == n1 \o OfClass("ro") \o n2 \o OfClass("exec") \o n3 \o OfClass("tdata") \o n4
                     \o OfClass("tbss") \o n5 \o OfClass("data") \o n6 \o OfClass("bss")
                     \o OfClass("nonalloc") \o n7
  <2>1. DefaultOrder = Only(list, Sections)
    BY DEF DefaultOrder
  <2>2. /\ n1 \in Seq(T) /\ n2 \in Seq(T) /\ n3 \in Seq(T) /\ n4 \in Seq(T)
        /\ n5 \in Seq(T) /\ n6 \in Seq(T) /\ n7 \in Seq(T)
    OBVIOUS
  <2>3. \A class : OfClass(class) \in Seq(T)
    <3>1. Sections \subseteq T
      OBVIOUS
    <3> HIDE DEF T
    <3> QED BY <3>1, OfClassType
  <2> HIDE DEF n1, n2, n3, n4, n5, n6, n7, T
  <2>4. /\ OfClass("ro") \in Seq(T) /\ OfClass("exec") \in Seq(T) /\ OfClass("tdata") \in Seq(T)
        /\ OfClass("tbss") \in Seq(T) /\ OfClass("data") \in Seq(T) /\ OfClass("bss") \in Seq(T)
        /\ OfClass("nonalloc") \in Seq(T)
    BY <2>3
  <2>5. list \in Seq(T)
    BY <2>2, <2>4
  <2> HIDE DEF list
  <2> QED BY <2>1, <2>5, OnlyType
<1> QED BY <1>1, AddEachType, CustomPlanType DEF Plan

(* The segments that PHDRS declares are segment definitions. *)
LEMMA CustomSegmentsType ==
  ASSUME input \in Outputs
  PROVE  CustomSegments \in Seq(SegmentDef)
<1>1. ASSUME NEW g \in Phdrs
      PROVE  [type |-> input.phdrs[g].type, write |-> SegmentHas(g, "W"), exec |-> SegmentHas(g, "X")]
             \in SegmentDef
  <2>1. SegmentHas(g, "W") \in BOOLEAN /\ SegmentHas(g, "X") \in BOOLEAN
    BY DEF SegmentHas
  <2> HIDE DEF SegmentHas
  <2> QED BY <2>1, PhdrsType DEF SegmentDef
<1>2. CustomSegments \in [1 .. Len(input.phdrs) -> SegmentDef] /\ Len(input.phdrs) \in Nat
  BY <1>1, PhdrsType DEF CustomSegments
<1> QED BY <1>2

-----------------------------------------------------------------------------
(* Alignment.                                                              *)

(* Quotient and remainder. *)
LEMMA DivisionFacts ==
  ASSUME NEW a \in Nat \ {0}, NEW x \in Int
  PROVE  \E q, m \in Int : q = x \div a /\ m = x % a /\ x = a * q + m /\ 0 <= m /\ m < a
<1>1. PICK q \in Int, m \in Int : q = x \div a /\ m = x % a
  <2>1. x \div a \in Int /\ x % a \in Int
    OBVIOUS
  <2> QED BY <2>1
<1>2. x = a * q + m
  BY <1>1
<1>3. 0 <= x % a /\ x % a < a
  OBVIOUS
<1> QED BY <1>1, <1>2, <1>3

(* A multiple leaves no remainder. *)
LEMMA Multiple ==
  ASSUME NEW a \in Nat \ {0}, NEW q \in Int
  PROVE  q * a \in Int /\ (q * a) % a = 0
<1> DEFINE x == q * a
<1>1. x \in Int
  OBVIOUS
<1>2. PICK d, m \in Int : d = x \div a /\ m = x % a /\ x = a * d + m /\ 0 <= m /\ m < a
  BY <1>1, DivisionFacts
<1>3. q * a = a * d + m /\ 0 <= m /\ m < a
  BY <1>2
<1>4. a * (q - d) = m
  BY <1>3
<1>5. q - d >= 1 => a * (q - d) >= a
  OBVIOUS
<1>6. q - d <= -1 => a * (q - d) <= -a
  OBVIOUS
<1>7. q - d = 0
  BY <1>3, <1>4, <1>5, <1>6
<1>8. m = 0
  BY <1>4, <1>7
<1> QED BY <1>1, <1>2, <1>8

(* What leaves no remainder is a multiple. *)
LEMMA IsMultiple ==
  ASSUME NEW a \in Nat \ {0}, NEW x \in Int, x % a = 0
  PROVE  \E q \in Int : x = q * a
<1>1. PICK q, m \in Int : q = x \div a /\ m = x % a /\ x = a * q + m /\ 0 <= m /\ m < a
  BY DivisionFacts
<1>2. x = q * a
  BY <1>1
<1> QED BY <1>2

(* Sums of multiples are multiples, and so are multiples of a multiple. *)
LEMMA MultiplesAdd ==
  ASSUME NEW a \in Nat \ {0}, NEW x \in Int, NEW y \in Int, x % a = 0, y % a = 0
  PROVE  (x + y) % a = 0 /\ (x - y) % a = 0
<1>1. PICK i \in Int, j \in Int : x = i * a /\ y = j * a
  BY IsMultiple
<1>2. x + y = (i + j) * a /\ x - y = (i - j) * a
  BY <1>1
<1>3. i + j \in Int /\ i - j \in Int
  OBVIOUS
<1> QED BY <1>2, <1>3, Multiple

(* A multiple of a multiple of b is a multiple of b. *)
LEMMA MultiplesCompose ==
  ASSUME NEW a \in Nat \ {0}, NEW b \in Nat \ {0}, NEW x \in Int, x % a = 0, a % b = 0
  PROVE  x % b = 0
<1>1. PICK i \in Int : x = i * a
  BY IsMultiple
<1>2. PICK j \in Int : a = j * b
  BY IsMultiple
<1>3. x = (i * j) * b /\ i * j \in Int
  BY <1>1, <1>2
<1> QED BY <1>3, Multiple

(* A multiple is not smaller. *)
LEMMA MultipleIsLarger ==
  ASSUME NEW a \in Nat \ {0}, NEW b \in Nat \ {0}, a % b = 0
  PROVE  b <= a
<1>1. PICK j \in Int : a = j * b
  BY IsMultiple
<1>2. j <= 0 => j * b <= 0
  OBVIOUS
<1>3. j >= 1 => j * b >= b
  OBVIOUS
<1> QED BY <1>1, <1>2, <1>3

(* Aligning an address. *)
LEMMA AlignUpFacts ==
  ASSUME NEW a \in Nat \ {0}, NEW v \in Int
  PROVE  AlignUp(a, v) \in Int /\ AlignUp(a, v) % a = 0 /\ v <= AlignUp(a, v)
<1>1. v + a - 1 \in Int
  OBVIOUS
<1>2. PICK q, r \in Int : /\ q = (v + a - 1) \div a /\ r = (v + a - 1) % a
                          /\ v + a - 1 = a * q + r /\ 0 <= r /\ r < a
  BY <1>1, DivisionFacts
<1>3. v + a - 1 = a * q + r /\ r < a
  BY <1>2
<1>4. AlignUp(a, v) = q * a
  BY <1>2 DEF AlignUp
<1>5. q * a >= v
  BY <1>3
<1> QED BY <1>4, <1>5, Multiple

(* Aligning a file offset modulo an alignment gives a number. *)
LEMMA AlignModuloType ==
  ASSUME NEW a \in Nat \ {0}, NEW ref \in Int, NEW offset \in Int
  PROVE  AlignModulo(a, ref, offset) \in Int
<1>1. PICK up \in Int : up = AlignUp(a, offset)
  BY AlignUpFacts
<1>2. PICK m \in Int, n \in Int : m = up % a /\ n = ref % a
  OBVIOUS
<1>3. AlignModulo(a, ref, offset) =
        IF m = n THEN up ELSE up + (IF n + a - m > a THEN n + a - m - a ELSE n + a - m)
  BY <1>1, <1>2 DEF AlignModulo
<1> QED BY <1>3

(* The smallest of a set of numbers, and the largest of a finite set. *)
LEMMA MinOfFacts ==
  ASSUME NEW S \in SUBSET Nat, S # {}
  PROVE  MinOf(S) \in S /\ \A y \in S : MinOf(S) <= y
<1>1. IsWellFoundedOn(OpToRel(<, Nat), Nat)
  BY NatLessThanWellFounded
<1>2. PICK x \in S : \A y \in S : ~(<<y, x>> \in OpToRel(<, Nat))
  BY <1>1, WFMin
<1>3. \A y \in S : x <= y
  <2> SUFFICES ASSUME NEW y \in S, y < x PROVE FALSE
    OBVIOUS
  <2>1. x \in Nat /\ y \in Nat
    OBVIOUS
  <2>2. <<y, x>> \in OpToRel(<, Nat)
    BY <2>1 DEF OpToRel
  <2> QED BY <1>2, <2>2
<1> QED BY <1>3 DEF MinOf

(* A finite set of numbers that is not empty has a maximum. *)
LEMMA MaxOfFacts ==
  ASSUME NEW S \in SUBSET Nat, S # {}, IsFiniteSet(S)
  PROVE  MaxOf(S) \in S /\ \A y \in S : y <= MaxOf(S)
<1> DEFINE Above == {n \in Nat : \A y \in S : y <= n}
<1>1. \E n \in Nat : \A y \in S : y <= n
  <2> DEFINE P == {n \in Nat : \A T \in SUBSET S : Cardinality(T) = n => \E m \in Nat : \A y \in T : y <= m}
  <2>1. 0 \in P
    <3> SUFFICES ASSUME NEW T \in SUBSET S, Cardinality(T) = 0 PROVE \E m \in Nat : \A y \in T : y <= m
      OBVIOUS
    <3>1. IsFiniteSet(T)
      BY FS_Subset
    <3>2. T = {}
      BY <3>1, FS_EmptySet
    <3> QED BY <3>2
  <2>2. ASSUME NEW k \in P PROVE k + 1 \in P
    <3> SUFFICES ASSUME NEW T \in SUBSET S, Cardinality(T) = k + 1
                 PROVE  \E m \in Nat : \A y \in T : y <= m
      <4>1. k + 1 \in Nat
        OBVIOUS
      <4> QED BY <4>1
    <3>1. IsFiniteSet(T) /\ k \in Nat
      BY FS_Subset
    <3>2. T # {}
      BY <3>1, FS_EmptySet
    <3>3. PICK x \in T : TRUE
      BY <3>2
    <3>4. Cardinality(T \ {x}) = k
      <4>1. Cardinality(T \ {x}) = Cardinality(T) - 1
        BY <3>1, <3>3, FS_RemoveElement
      <4> QED BY <3>1, <4>1
    <3>5. PICK m \in Nat : \A y \in T \ {x} : y <= m
      BY <3>4
    <3>6. PICK n \in Nat : n >= m /\ n >= x
      <4>1. m + x \in Nat /\ m + x >= m /\ m + x >= x
        OBVIOUS
      <4> QED BY <4>1
    <3>7. \A y \in T : y <= n
      BY <3>5, <3>6
    <3> QED BY <3>7
  <2>3. P \in SUBSET Nat
    OBVIOUS
  <2>4. P = Nat
    <3> HIDE DEF P
    <3> QED BY <2>1, <2>2, <2>3, NatInductionSet
  <2>5. Cardinality(S) \in P /\ S \in SUBSET S
    BY <2>4, FS_CardinalityType
  <2> QED BY <2>5
<1>2. Above # {} /\ Above \in SUBSET Nat
  BY <1>1
<1>3. PICK x \in Above : \A y \in Above : x <= y
  BY <1>2, MinOfFacts
<1>4. x \in S
  <2> SUFFICES ASSUME x \notin S PROVE FALSE
    OBVIOUS
  <2>1. \A y \in S : y <= x - 1 /\ y \in Nat
    OBVIOUS
  <2>2. x - 1 \in Nat
    <3>1. PICK y \in S : y <= x - 1 /\ y \in Nat
      BY <2>1
    <3> QED BY <3>1
  <2>3. x - 1 \in Above
    BY <2>1, <2>2
  <2> QED BY <1>3, <2>3
<1>5. \A y \in S : y <= x
  OBVIOUS
<1> QED BY <1>4, <1>5 DEF MaxOf

(* The maximum of two numbers ... *)
LEMMA MaxOfPair ==
  ASSUME NEW x \in Nat, NEW y \in Nat
  PROVE  MaxOf({x, y}) = IF x <= y THEN y ELSE x
<1>1. {x, y} \in SUBSET Nat /\ {x, y} # {} /\ IsFiniteSet({x, y})
  <2>1. IsFiniteSet({x}) /\ {x, y} = {x} \cup {y}
    BY FS_Singleton
  <2>2. IsFiniteSet({x} \cup {y})
    BY <2>1, FS_AddElement
  <2> QED BY <2>1, <2>2
<1>2. MaxOf({x, y}) \in {x, y} /\ \A z \in {x, y} : z <= MaxOf({x, y})
  BY <1>1, MaxOfFacts
<1> QED BY <1>2

(* ... and their minimum. *)
LEMMA MinOfPair ==
  ASSUME NEW x \in Nat, NEW y \in Nat
  PROVE  MinOf({x, y}) = IF x <= y THEN x ELSE y
<1>1. {x, y} \in SUBSET Nat /\ {x, y} # {}
  OBVIOUS
<1>2. MinOf({x, y}) \in {x, y} /\ \A z \in {x, y} : MinOf({x, y}) <= z
  BY <1>1, MinOfFacts
<1> QED BY <1>2

-----------------------------------------------------------------------------
(* Sizes and alignments of sections.                                       *)

(* The parts of a section and their alignments. *)
LEMMA PartFacts ==
  ASSUME input \in Outputs, NEW s \in Sections
  PROVE  /\ Len(Section(s).alignments) \in Nat \ {0}
         /\ Parts(s) = 1 .. Len(Section(s).alignments) /\ 1 \in Parts(s)
         /\ \A p \in Parts(s) : PartAlignment(s, p) \in Nat \ {0}
         /\ \A p, q \in Parts(s) : p <= q => PartAlignment(s, p) % PartAlignment(s, q) = 0
         /\ Section(s).min_alignment \in Nat \ {0}
         /\ \/ Section(s).min_alignment % PartAlignment(s, 1) = 0
            \/ PartAlignment(s, 1) % Section(s).min_alignment = 0
<1>1. IsOutputSection(s, Section(s))
  BY InputFacts
<1> DEFINE al == Section(s).alignments
<1>2. al \in Seq(Nat \ {0}) /\ al # <<>>
  BY <1>1 DEF IsOutputSection
<1> HIDE DEF al
<1>3. Len(al) \in Nat \ {0} /\ DOMAIN al = 1 .. Len(al) /\ 1 \in 1 .. Len(al)
      /\ \A p \in 1 .. Len(al) : al[p] \in Nat \ {0}
  BY <1>2
<1> QED BY <1>1, <1>3 DEF IsOutputSection, Parts, PartAlignment, al

(* Sizes of the inputs of a group, and of a part. *)
LEMMA SizeFacts ==
  ASSUME input \in Outputs, SizesInv, NEW s \in Sections, NEW p \in Parts(s)
  PROVE  /\ \A g \in 1 .. NumGroups : sizes[s][p][g] \in Seq(Nat) /\ GroupSize(s, p, g) \in Nat
         /\ [g \in 1 .. NumGroups |-> GroupSize(s, p, g)] \in Seq(Nat)
         /\ Len([g \in 1 .. NumGroups |-> GroupSize(s, p, g)]) = NumGroups
         /\ PartSize(s, p) \in Nat
<1>0. NumGroups \in Nat
  BY LayoutAssumption
<1>1. ASSUME NEW g \in 1 .. NumGroups
      PROVE  sizes[s][p][g] \in Seq(Nat) /\ GroupSize(s, p, g) \in Nat
  <2>1. sizes[s][p][g] \in Seq(Nat)
    <3>1. sizes[s] \in [Parts(s) -> [1 .. NumGroups -> Seq(Nat)]]
      BY DEF SizesInv
    <3>2. sizes[s][p] \in [1 .. NumGroups -> Seq(Nat)]
      BY <3>1
    <3> QED BY <3>2
  <2>2. Len(sizes[s][p][g]) \in 0 .. Len(sizes[s][p][g])
    BY <2>1
  <2>3. Sums(sizes[s][p][g]) \in [0 .. Len(sizes[s][p][g]) -> Nat]
    BY <2>1, SumsFacts
  <2> QED BY <2>1, <2>2, <2>3 DEF GroupSize, Total
<1> DEFINE all == [g \in 1 .. NumGroups |-> GroupSize(s, p, g)]
<1>2. all \in Seq(Nat) /\ Len(all) = NumGroups
  BY <1>0, <1>1
<1> HIDE DEF all
<1>3. Total(all) \in Nat
  <2>1. Len(all) \in 0 .. Len(all)
    BY <1>0, <1>2
  <2> QED BY <1>2, <2>1, SumsFacts DEF Total
<1> QED BY <1>1, <1>2, <1>3 DEF PartSize, all

(* The alignment that a part is placed with. *)
PlaceAlignment(s, p) ==
  IF p = 1 THEN MaxAlignment(s) ELSE MinOf({PartAlignment(s, p), MaxAlignment(s)})

(* A part that is not empty is placed at a multiple of its alignment. *)
LEMMA AlignmentFacts ==
  ASSUME input \in Outputs, SizesInv, NEW s \in Sections
  PROVE  /\ MaxAlignment(s) \in Nat \ {0}
         /\ \A p \in Parts(s) :
              /\ PlaceAlignment(s, p) \in Nat \ {0}
              /\ PartSize(s, p) > 0 => PlaceAlignment(s, p) % PartAlignment(s, p) = 0
<1> DEFINE filled == {p \in Parts(s) : PartSize(s, p) > 0}
           first == IF filled = {} THEN 1 ELSE PartAlignment(s, MinOf(filled))
           M == MaxAlignment(s)
           min == Section(s).min_alignment
<1>1. M = MaxOf({first, min})
  BY DEF MaxAlignment
<1>2. filled \subseteq Parts(s) /\ filled \in SUBSET Nat
  BY PartFacts
<1>3. filled # {} => MinOf(filled) \in filled /\ \A p \in filled : MinOf(filled) <= p
  BY <1>2, MinOfFacts
<1>4. first \in Nat \ {0} /\ min \in Nat \ {0}
  BY <1>2, <1>3, PartFacts
<1>5. ASSUME NEW p \in filled
      PROVE  first % PartAlignment(s, p) = 0 /\ (p = 1 => first = PartAlignment(s, 1))
  <2>1. first = PartAlignment(s, MinOf(filled)) /\ MinOf(filled) \in Parts(s) /\ MinOf(filled) <= p
    BY <1>2, <1>3, <1>5
  <2>2. p = 1 => MinOf(filled) = 1
    BY <2>1, PartFacts
  <2> QED BY <1>2, <2>1, <2>2, PartFacts
<1> HIDE DEF first, filled, min, M
<1>6. M = IF first <= min THEN min ELSE first
  BY <1>1, <1>4, MaxOfPair
<1>7. M \in Nat \ {0} /\ first <= M
  BY <1>4, <1>6
<1>8. ASSUME NEW p \in Parts(s)
      PROVE  /\ PlaceAlignment(s, p) \in Nat \ {0}
             /\ PartSize(s, p) > 0 => PlaceAlignment(s, p) % PartAlignment(s, p) = 0
  <2>1. PICK a \in Nat \ {0} : a = PartAlignment(s, p)
    BY PartFacts
  <2>2. a % a = 0
    BY <2>1, PartFacts
  <2>3. CASE p = 1
    <3>1. PlaceAlignment(s, p) = M
      BY <2>3 DEF PlaceAlignment, M
    <3>2. ASSUME PartSize(s, p) > 0 PROVE M % a = 0
      <4>1. first = a
        BY <1>5, <2>1, <2>3, <3>2 DEF filled
      <4>2. min % a = 0 \/ a % min = 0
        BY <2>1, <2>3, PartFacts DEF min
      <4>3. min % a = 0 => a <= min
        BY <1>4, MultipleIsLarger
      <4>4. a % min = 0 => min <= a
        BY <1>4, MultipleIsLarger
      <4>5. M = a \/ (M = min /\ min % a = 0)
        BY <1>4, <1>6, <4>1, <4>2, <4>3, <4>4
      <4> QED BY <2>2, <4>5
    <3> QED BY <1>7, <2>1, <3>1, <3>2
  <2>4. CASE p # 1
    <3>1. PlaceAlignment(s, p) = IF a <= M THEN a ELSE M
      BY <1>7, <2>1, <2>4, MinOfPair DEF PlaceAlignment, M
    <3>2. ASSUME PartSize(s, p) > 0 PROVE a <= M
      <4>1. first % a = 0
        BY <1>5, <2>1, <3>2 DEF filled
      <4>2. a <= first
        BY <1>4, <4>1, MultipleIsLarger
      <4> QED BY <1>4, <1>7, <4>2
    <3> QED BY <1>7, <2>1, <2>2, <3>1, <3>2
  <2> QED BY <2>3, <2>4
<1> QED BY <1>7, <1>8 DEF M

(* Values of a function on a finite set are finitely many. *)
LEMMA FiniteImage ==
  ASSUME NEW S, IsFiniteSet(S), NEW f, DOMAIN f = S
  PROVE  IsFiniteSet({f[x] : x \in S})
<1> DEFINE h == [x \in S |-> f[x]]
           T == {f[x] : x \in S}
<1>1. h \in Surjection(S, T)
  BY DEF Surjection
<1> QED BY <1>1, FS_Surjection

(* The alignment of a segment is positive. *)
LEMMA SegmentAlignmentType ==
  ASSUME input \in Outputs, SizesInv, NEW g
  PROVE  SegmentAlignment(g) \in Nat \ {0}
<1> DEFINE S == {t \in EmittedSections : InSegment(t, g)}
           f == [s \in S |-> MaxAlignment(s)]
           T == {f[s] : s \in S}
<1>1. S \subseteq Sections /\ IsFiniteSet(Sections)
  BY InputFacts DEF EmittedSections
<1>2. IsFiniteSet(S)
  BY <1>1, FS_Subset
<1>3. IsFiniteSet(T)
  BY <1>2, FiniteImage
<1>4. {MaxAlignment(s) : s \in S} = T
  OBVIOUS
<1>5. T \subseteq Nat \ {0}
  BY <1>1, AlignmentFacts
<1>6. Page \in Nat \ {0}
  BY LayoutAssumption
<1> DEFINE U == {Page} \cup T
<1> HIDE DEF T
<1>7. IsFiniteSet(U) /\ U \in SUBSET Nat /\ U # {} /\ U \subseteq Nat \ {0}
  <2>1. IsFiniteSet({Page})
    BY FS_Singleton
  <2>2. IsFiniteSet(U)
    BY <1>3, <2>1, FS_Union
  <2> QED BY <1>5, <1>6, <2>2
<1> HIDE DEF U
<1>8. MaxOf(U) \in U
  BY <1>7, MaxOfFacts
<1>9. SegmentAlignment(g) = MaxOf(U)
  BY <1>4 DEF SegmentAlignment, U
<1> QED BY <1>7, <1>8, <1>9

(* Zeros sum up to zero. *)
LEMMA ZeroSum ==
  ASSUME NEW seq \in Seq(Nat), \A k \in 1 .. Len(seq) : seq[k] = 0
  PROVE  Total(seq) = 0
<1> DEFINE f == Sums(seq)
           N == Len(seq)
           P == {k \in Nat : k <= N => f[k] = 0}
<1>1. f[0] = 0 /\ N \in Nat /\ \A i \in 1 .. N : f[i] = f[i - 1] + 0
  BY SumsFacts
<1> HIDE DEF f, N
<1>2. 0 \in P
  BY <1>1
<1>3. ASSUME NEW k \in P PROVE k + 1 \in P
  <2> SUFFICES ASSUME k + 1 <= N PROVE f[k + 1] = 0
    OBVIOUS
  <2>1. k + 1 \in 1 .. N /\ (k + 1) - 1 = k /\ f[k] = 0
    BY <1>1
  <2> QED BY <1>1, <2>1
<1>4. P \in SUBSET Nat
  OBVIOUS
<1> HIDE DEF P
<1>5. P = Nat
  BY <1>2, <1>3, <1>4, NatInductionSet
<1>6. f[N] = 0
  BY <1>1, <1>5 DEF P
<1> QED BY <1>6 DEF Total, f, N

(* Nothing is put into .relro_padding. *)
LEMMA PaddingIsEmpty ==
  ASSUME input \in Outputs, SizesInv, NEW s \in Sections, s = "relro_padding", NEW p \in Parts(s)
  PROVE  PartSize(s, p) = 0
<1> DEFINE all == [g \in 1 .. NumGroups |-> GroupSize(s, p, g)]
<1>1. ASSUME NEW g \in 1 .. NumGroups PROVE all[g] = 0
  <2>1. sizes[s][p][g] \in Seq(Nat)
    BY SizeFacts
  <2>2. \A k \in 1 .. Len(sizes[s][p][g]) : sizes[s][p][g][k] = 0
    BY <2>1 DEF SizesInv
  <2> QED BY <2>1, <2>2, ZeroSum DEF GroupSize
<1>2. all \in Seq(Nat) /\ Len(all) = NumGroups
  BY SizeFacts
<1> HIDE DEF all
<1>3. Total(all) = 0
  BY <1>1, <1>2, ZeroSum
<1> QED BY <1>3 DEF PartSize, all

-----------------------------------------------------------------------------
(* Placing a section.                                                      *)

(* A place is aligned and large enough for a part. *)
PlaceOk(r, s, p) ==
  /\ PartSize(s, p) <= r.msize
  /\ PartSize(s, p) > 0 => r.mem % PartAlignment(s, p) = 0

Placing == [w: Counters, own: Int, parts: Seq(PartLayout)]

(* One round of the loop over the parts of a section places one part. *)
LEMMA PlacePartFacts ==
  ASSUME input \in Outputs, SizesInv, NEW s \in Sections, NEW p \in Parts(s), NEW acc \in Placing
  PROVE  /\ PlacePart(s, acc, p) \in Placing
         /\ \E r \in PartLayout : PlacePart(s, acc, p).parts = Append(acc.parts, r) /\ PlaceOk(r, s, p)
         /\ PlacePart(s, acc, p).w.at = acc.w.at
<1> DEFINE w == acc.w
           a == PlaceAlignment(s, p)
           msize == IF s = "relro_padding" THEN RelroPadding(w) ELSE PartSize(s, p)
           file == IF HasData(s) THEN AlignUp(a, w.file) ELSE w.file
           fsize == IF HasData(s) \/ ~IsAlloc(s) THEN msize ELSE 0
           ownSpace == input.partial \/ ~IsAlloc(s)
           mem == AlignUp(a, IF ownSpace THEN acc.own ELSE w.mem)
           r == PartRecord(mem, file, msize, fsize, a)
           w2 == [w EXCEPT !.file = file + fsize, !.mem = IF ownSpace THEN @ ELSE mem + msize]
           own2 == IF IsAlloc(s) THEN mem + msize ELSE acc.own + msize
<1>1. PlacePart(s, acc, p) = [w |-> w2, own |-> own2, parts |-> Append(acc.parts, r)]
  BY DEF PlacePart, PlaceAlignment
<1>2. /\ w \in Counters /\ acc.own \in Int /\ acc.parts \in Seq(PartLayout)
      /\ w.mem \in Int /\ w.file \in Int
  BY DEF Placing, Counters
<1>3. a \in Nat \ {0} /\ (PartSize(s, p) > 0 => a % PartAlignment(s, p) = 0) /\ PartSize(s, p) \in Nat
  BY AlignmentFacts, SizeFacts
<1>4. msize \in Nat /\ PartSize(s, p) <= msize
  <2>1. CASE s = "relro_padding"
    <3>1. PartSize(s, p) = 0
      BY <2>1, PaddingIsEmpty
    <3>2. RelroPadding(w) \in Nat
      <4>1. AlignUp(Page, w.mem) \in Int /\ w.mem <= AlignUp(Page, w.mem)
        BY <1>2, LayoutAssumption, AlignUpFacts
      <4> QED BY <1>2, <4>1 DEF RelroPadding
    <3> QED BY <2>1, <3>1, <3>2
  <2>2. CASE s # "relro_padding"
    BY <1>3, <2>2
  <2> QED BY <2>1, <2>2
<1> HIDE DEF a, msize
<1>5. file \in Int
  BY <1>2, <1>3, AlignUpFacts
<1>6. fsize \in Nat
  BY <1>4
<1>7. mem \in Int /\ mem % a = 0
  <2> DEFINE v == IF ownSpace THEN acc.own ELSE w.mem
  <2>1. v \in Int
    BY <1>2
  <2> HIDE DEF v
  <2>2. AlignUp(a, v) \in Int /\ AlignUp(a, v) % a = 0
    BY <1>3, <2>1, AlignUpFacts
  <2> QED BY <2>2 DEF v
<1> HIDE DEF file, fsize, mem, ownSpace
<1>8. r \in PartLayout
  BY <1>3, <1>4, <1>5, <1>6, <1>7 DEF PartRecord, PartLayout
<1>9. r.mem = mem /\ r.msize = msize
  BY DEF PartRecord
<1>10. PlaceOk(r, s, p)
  <2>1. ASSUME PartSize(s, p) > 0 PROVE mem % PartAlignment(s, p) = 0
    <3>1. a % PartAlignment(s, p) = 0 /\ PartAlignment(s, p) \in Nat \ {0}
      BY <1>3, <2>1, PartFacts
    <3> QED BY <1>3, <1>7, <3>1, MultiplesCompose
  <2> QED BY <1>4, <1>9, <2>1 DEF PlaceOk
<1>11. w2 \in Counters /\ w2.at = w.at
  <2>1. file + fsize \in Int /\ mem + msize \in Int
    BY <1>4, <1>5, <1>6, <1>7
  <2> QED BY <1>2, <2>1 DEF Counters
<1>12. own2 \in Int
  BY <1>2, <1>4, <1>7
<1> HIDE DEF w2, own2, r
<1>13. Append(acc.parts, r) \in Seq(PartLayout)
  BY <1>2, <1>8
<1>14. PlacePart(s, acc, p) \in Placing
  BY <1>1, <1>11, <1>12, <1>13 DEF Placing
<1>15. PlacePart(s, acc, p).parts = Append(acc.parts, r) /\ PlacePart(s, acc, p).w = w2
  BY <1>1
<1> QED BY <1>8, <1>10, <1>11, <1>14, <1>15

(* A section gets a place for each of its parts. *)
LEMMA PlacePartsFacts ==
  ASSUME input \in Outputs, SizesInv, NEW s \in Sections, NEW w \in Counters
  PROVE  /\ PlaceParts(s, w) \in Placing
         /\ PlaceParts(s, w).w.at = w.at
         /\ Len(PlaceParts(s, w).parts) = Len(Section(s).alignments)
         /\ \A p \in Parts(s) : PlaceOk(PlaceParts(s, w).parts[p], s, p)
<1> DEFINE N == Len(Section(s).alignments)
           X == Placing
           base == [w |-> w, own |-> 0, parts |-> <<>>]
           step(acc, n) == PlacePart(s, acc, n)
           F == [i \in 1 .. N |-> [x \in X |-> step(x, i)]]
           Eq(f) == f = [n \in 0 .. N |-> IF n = 0 THEN base ELSE step(f[n - 1], n)]
<1>1. PlaceParts(s, w) = (CHOOSE f : Eq(f))[N]
  BY DEF PlaceParts
<1>0. N \in Nat /\ Parts(s) = 1 .. N
  BY PartFacts
<1>a. base \in X /\ base.w = w /\ base.parts = <<>>
  BY DEF Placing
<1> HIDE DEF base
<1>2. N \in Nat /\ base \in X /\ \A i \in 1 .. N : i \in 0 .. N /\ i # 0 /\ i - 1 \in 0 .. N
  BY <1>0, <1>a
<1>3. ASSUME NEW d \in 1 .. N, NEW x \in X PROVE step(x, d) \in X
  BY <1>0, PlacePartFacts
<1> HIDE DEF N, X, step
<1>4. F \in [1 .. N -> [X -> X]] /\ \A i \in 1 .. N : \A x \in X : F[i][x] = step(x, i)
  BY <1>3
<1> HIDE DEF F
<1>5. PICK f : IsLoop(f, N, X, base, F)
  BY <1>2, <1>4, LoopExists
<1>6. Eq(f)
  <2>1. \A i \in 1 .. N : f[i] = step(f[i - 1], i)
    BY <1>2, <1>4, <1>5 DEF IsLoop
  <2>2. f = [n \in 0 .. N |-> f[n]]
    BY <1>5 DEF IsLoop
  <2>3. \A n \in 0 .. N : f[n] = IF n = 0 THEN base ELSE step(f[n - 1], n)
    BY <1>2, <1>5, <2>1 DEF IsLoop
  <2> QED BY <2>2, <2>3
<1>7. PICK g : Eq(g) /\ PlaceParts(s, w) = g[N]
  BY <1>1, <1>6
<1>8. /\ g = [i \in 0 .. N |-> g[i]] /\ g[0] = base
      /\ \A i \in 1 .. N : g[i - 1] \in X => g[i] = F[i][g[i - 1]]
  <2>1. g = [i \in 0 .. N |-> g[i]] /\ g[0] = base
    BY <1>2, <1>7
  <2>2. \A i \in 1 .. N : g[i] = step(g[i - 1], i)
    BY <1>2, <1>7
  <2> QED BY <1>4, <2>1, <2>2
<1>9. IsLoop(g, N, X, base, F)
  BY <1>2, <1>4, <1>8, LoopFacts
<1>10. PlaceParts(s, w) \in Placing
  BY <1>2, <1>7, <1>9 DEF IsLoop, X
<1> DEFINE Good(k) == /\ g[k] \in Placing /\ g[k].w.at = w.at /\ Len(g[k].parts) = k
                      /\ \A p \in 1 .. k : PlaceOk(g[k].parts[p], s, p)
           P == {k \in Nat : k <= N => Good(k)}
<1>11. 0 \in P
  <2>1. g[0] = base
    BY <1>8
  <2> QED BY <1>a, <2>1 DEF X
<1>12. ASSUME NEW k \in P PROVE k + 1 \in P
  <2> SUFFICES ASSUME k + 1 <= N PROVE Good(k + 1)
    OBVIOUS
  <2>1. k \in Nat /\ Good(k) /\ k + 1 \in 1 .. N /\ (k + 1) - 1 = k /\ k + 1 \in Parts(s)
    BY <1>0
  <2>2. g[k + 1] = PlacePart(s, g[k], k + 1)
    <3>1. g[k + 1] = step(g[k], k + 1)
      BY <1>2, <1>7, <2>1
    <3> QED BY <3>1 DEF step
  <2> DEFINE x == g[k]
             y == g[k + 1]
  <2>3. /\ y \in Placing /\ y.w.at = x.w.at
        /\ \E r \in PartLayout : y.parts = Append(x.parts, r) /\ PlaceOk(r, s, k + 1)
    <3>1. x \in Placing /\ k + 1 \in Parts(s) /\ y = PlacePart(s, x, k + 1)
      BY <2>1, <2>2
    <3> HIDE DEF x, y
    <3> QED BY <3>1, PlacePartFacts
  <2>4. PICK r \in PartLayout : y.parts = Append(x.parts, r) /\ PlaceOk(r, s, k + 1)
    BY <2>3
  <2>5. x.parts \in Seq(PartLayout) /\ Len(x.parts) = k /\ \A p \in 1 .. k : PlaceOk(x.parts[p], s, p)
    BY <2>1 DEF Placing
  <2>6. Len(y.parts) = k + 1 /\ y.parts[k + 1] = r /\ \A p \in 1 .. k : y.parts[p] = x.parts[p]
    BY <2>1, <2>4, <2>5
  <2>7. x.w.at = w.at
    BY <2>1
  <2> HIDE DEF x, y
  <2>8. \A p \in 1 .. (k + 1) : PlaceOk(y.parts[p], s, p)
    <3> SUFFICES ASSUME NEW p \in 1 .. (k + 1) PROVE PlaceOk(y.parts[p], s, p)
      OBVIOUS
    <3>1. CASE p = k + 1
      BY <2>4, <2>6, <3>1
    <3>2. CASE p # k + 1
      <4>1. p \in 1 .. k
        BY <2>1, <3>2
      <4> QED BY <2>5, <2>6, <4>1
    <3> QED BY <3>1, <3>2
  <2> QED BY <2>3, <2>6, <2>7, <2>8 DEF y
<1>13. P \in SUBSET Nat
  OBVIOUS
<1> HIDE DEF P
<1>14. P = Nat
  BY <1>11, <1>12, <1>13, NatInductionSet
<1>15. Good(N)
  BY <1>2, <1>14 DEF P
<1> QED BY <1>0, <1>7, <1>15 DEF N

-----------------------------------------------------------------------------
(* The steps of the walk.                                                  *)

(* Counters stay numbers when the walk comes to a section ... *)
LEMMA SectionStartType ==
  ASSUME TypeInv, stage = "walk", NEW s \in Sections
  PROVE  SectionStart(s) \in Counters /\ SectionStart(s).at = walk.at
<1>1. walk \in Counters /\ used \in [DOMAIN input.regions -> Int] /\ input \in Outputs
  BY DEF TypeInv
<1> DEFINE v == TlsMemory(walk, s)
<1>2. v \in Counters /\ v.at = walk.at
  <2> DEFINE m == IF walk.tls = -1 THEN walk.mem ELSE walk.tls
  <2>1. m \in Int /\ walk.tls \in Int /\ -1 \in Int
    BY <1>1 DEF Counters
  <2>2. v = IF OnlyTls(s) THEN [walk EXCEPT !.tls = m]
            ELSE IF walk.tls # -1 THEN [walk EXCEPT !.mem = walk.tls, !.tls = -1] ELSE walk
    BY DEF TlsMemory
  <2> HIDE DEF m, v
  <2> QED BY <1>1, <2>1, <2>2 DEF Counters
<1> HIDE DEF v
<1>3. RegionStart(v, s) \in Counters /\ RegionStart(v, s).at = walk.at
  <2>1. CASE Region(s) = "none"
    BY <1>2, <2>1 DEF RegionStart
  <2>2. CASE Region(s) # "none"
    <3> DEFINE m == input.regions[Region(s)].origin + used[Region(s)]
    <3>1. Region(s) \in DOMAIN input.regions
      BY <1>1, <2>2, InputFacts DEF Region, RegionNames
    <3>2. input.regions[Region(s)].origin \in Nat
      BY <1>1, <3>1, InputFacts DEF IsOutput
    <3>3. m \in Int
      BY <1>1, <3>1, <3>2
    <3>4. RegionStart(v, s) = [v EXCEPT !.mem = m]
      BY <2>2 DEF RegionStart
    <3> HIDE DEF m
    <3> QED BY <1>2, <3>3, <3>4 DEF Counters
  <2> QED BY <2>1, <2>2
<1> QED BY <1>3 DEF SectionStart, v

(* ... when it moves to the address of the section ... *)
LEMMA MoveToType ==
  ASSUME NEW w \in Counters, NEW s
  PROVE  MoveTo(w, s) \in Counters /\ MoveTo(w, s).at = w.at
<1>1. w.file + (w.pending - w.mem) \in Int /\ w.file \in Int /\ w.pending \in Int /\ -1 \in Int
  BY DEF Counters
<1> DEFINE file == IF FillsGap(s) THEN w.file + (w.pending - w.mem) ELSE w.file
<1>2. file \in Int
  BY <1>1
<1>3. MoveTo(w, s) = IF w.pending = -1 THEN w
                     ELSE [w EXCEPT !.file = file, !.mem = w.pending, !.pending = -1]
  BY DEF MoveTo
<1> HIDE DEF file
<1> QED BY <1>1, <1>2, <1>3 DEF Counters

(* ... and when it goes on to the next event. *)
LEMMA AdvanceType ==
  ASSUME NEW w \in Counters
  PROVE  Advance(w) \in Counters /\ Advance(w).at = w.at + 1
<1>1. w.at + 1 \in Nat \ {0}
  BY DEF Counters
<1> QED BY <1>1 DEF Advance, Counters

(* The event at which the walk is. *)
LEMMA CurrentFacts ==
  ASSUME TypeInv, NEW kind, Walking(kind)
  PROVE  /\ walk.at \in DOMAIN Events /\ Current \in OrderEvent /\ Current.kind = kind
         /\ kind = "Section" => Current.what \in Sections
         /\ kind # "Section" => Current.what \in Nat
<1>1. Events \in Seq(OrderEvent) /\ walk.at \in Nat \ {0} /\ walk.at <= Len(Events) /\ Current.kind = kind
  BY DEF TypeInv, Builder, Counters, Walking, Events
<1>2. walk.at \in 1 .. Len(Events) /\ DOMAIN Events = 1 .. Len(Events)
  BY <1>1
<1>3. Current \in OrderEvent
  BY <1>1, <1>2 DEF Current
<1> QED BY <1>1, <1>2, <1>3 DEF OrderEvent

(* Starting the walk. *)
LEMMA NoWalkType == NoWalk \in Counters /\ [NoWalk EXCEPT !.mem = Base] \in Counters
                    /\ [NoWalk EXCEPT !.mem = Base].at = 1
<1>1. Base \in Nat
  BY LayoutAssumption
<1> QED BY <1>1 DEF NoWalk, Counters

(* Segments that are kept are finitely many. *)
LEMMA KeptFinite ==
  ASSUME TypeInv
  PROVE  IsFiniteSet(KeptSegments) /\ Cardinality(KeptSegments) \in Nat
<1>1. DOMAIN order.segs = 1 .. Len(order.segs) /\ Len(order.segs) \in Nat
  BY DEF TypeInv, Builder
<1>2. IsFiniteSet(1 .. Len(order.segs))
  BY <1>1, FS_Interval
<1>3. KeptSegments \subseteq 1 .. Len(order.segs)
  BY <1>1 DEF KeptSegments
<1>4. IsFiniteSet(KeptSegments)
  BY <1>2, <1>3, FS_Subset
<1> QED BY <1>4, FS_CardinalityType

-----------------------------------------------------------------------------
(* Compression.                                                            *)

(* q has the places of p in memory. *)
SameMemory(p, q) ==
  /\ q \in [Sections -> Seq(PartLayout)]
  /\ \A s \in Sections :
       /\ Len(q[s]) = Len(p[s])
       /\ \A k \in 1 .. Len(p[s]) : q[s][k].mem = p[s][k].mem /\ q[s][k].msize = p[s][k].msize

(* The alignment of a section as a whole. *)
LEMMA SectionAlignmentType ==
  ASSUME input \in Outputs, parts \in [Sections -> Seq(PartLayout)], NEW s \in Sections
  PROVE  SectionLayout(s).alignment \in Nat \ {0}
<1> DEFINE ps == parts[s]
           D == {q \in DOMAIN ps : ps[q].msize > 0}
           f == [q \in D |-> ps[q].alignment]
           T == {f[q] : q \in D}
           U == {Section(s).min_alignment} \cup T
<1>1. ps \in Seq(PartLayout) /\ DOMAIN ps = 1 .. Len(ps) /\ Len(ps) \in Nat
  OBVIOUS
<1>2. IsFiniteSet(D)
  <2>1. IsFiniteSet(1 .. Len(ps)) /\ D \subseteq 1 .. Len(ps)
    BY <1>1, FS_Interval
  <2> QED BY <2>1, FS_Subset
<1>3. IsFiniteSet(T)
  BY <1>2, FiniteImage, ZenonT(60)
<1>4. T = {ps[p].alignment : p \in D}
  OBVIOUS
<1>5. SectionLayout(s).alignment = MaxOf(U)
  BY <1>4 DEF SectionLayout, PartRecord
<1>6. T \subseteq Nat \ {0}
  <2>1. \A q \in D : ps[q] \in PartLayout
    BY <1>1
  <2>2. \A q \in D : ps[q].alignment \in Nat \ {0}
    BY <2>1 DEF PartLayout
  <2> HIDE DEF ps, D
  <2> QED BY <2>2
<1>7. Section(s).min_alignment \in Nat \ {0}
  BY PartFacts
<1> HIDE DEF T
<1>8. U \in SUBSET Nat /\ U # {} /\ IsFiniteSet(U) /\ U \subseteq Nat \ {0}
  <2>1. IsFiniteSet({Section(s).min_alignment})
    BY FS_Singleton
  <2>2. IsFiniteSet(U)
    BY <1>3, <2>1, FS_Union
  <2> QED BY <1>6, <1>7, <2>2
<1> HIDE DEF U
<1>9. MaxOf(U) \in U
  BY <1>8, MaxOfFacts
<1> QED BY <1>5, <1>8, <1>9

(* Compression leaves places in memory alone. *)
LEMMA CompressFacts ==
  ASSUME TypeInv, stage = "compress"
  PROVE  SameMemory(parts, UpdateFileOffset.parts)
<1>1. /\ input \in Outputs /\ parts \in [Sections -> Seq(PartLayout)]
      /\ Events \in Seq(OrderEvent)
      /\ Len(segments) \in Nat /\ segments = [i \in 1 .. Len(segments) |-> segments[i]]
  BY DEF TypeInv, Walked, Builder, Events
<1> DEFINE Row == {segments[i] : i \in 1 .. Len(segments)}
           X == {x \in [file: Int, parts: [Sections -> Seq(PartLayout)], segs: Seq(Row), moved: BOOLEAN] :
                   SameMemory(parts, x.parts)}
<1>2. segments \in Seq(Row)
  BY <1>1
<1>3. SameMemory(parts, UpdateAllocationSizes)
  <2> DEFINE q == UpdateAllocationSizes
             size(s, p) == IF p = Len(parts[s]) THEN input.compressed_size ELSE 0
             new(s) == [p \in DOMAIN parts[s] |-> [parts[s][p] EXCEPT !.fsize = size(s, p)]]
  <2>1. input.compressed_size \in Nat
    BY <1>1, InputFacts DEF IsOutput
  <2>2. q = [s \in Sections |-> IF s \notin input.compressed THEN parts[s] ELSE new(s)]
    BY DEF UpdateAllocationSizes
  <2>3. ASSUME NEW s \in Sections
        PROVE  /\ new(s) \in Seq(PartLayout) /\ Len(new(s)) = Len(parts[s])
               /\ \A k \in 1 .. Len(parts[s]) : new(s)[k].mem = parts[s][k].mem
                                                /\ new(s)[k].msize = parts[s][k].msize
    <3> DEFINE ps == parts[s]
    <3>1. DOMAIN ps = 1 .. Len(ps) /\ Len(ps) \in Nat /\ \A k \in 1 .. Len(ps) : ps[k] \in PartLayout
      BY <1>1
    <3>2. \A k \in 1 .. Len(ps) : size(s, k) \in Nat
      BY <2>1
    <3>3. ASSUME NEW k \in 1 .. Len(ps)
          PROVE  /\ [ps[k] EXCEPT !.fsize = size(s, k)] \in PartLayout
                 /\ [ps[k] EXCEPT !.fsize = size(s, k)].mem = ps[k].mem
                 /\ [ps[k] EXCEPT !.fsize = size(s, k)].msize = ps[k].msize
      <4>1. ps[k] \in PartLayout /\ size(s, k) \in Nat
        BY <3>1, <3>2
      <4> HIDE DEF ps, size
      <4> QED BY <4>1 DEF PartLayout
    <3>4. new(s) = [k \in 1 .. Len(ps) |-> [ps[k] EXCEPT !.fsize = size(s, k)]]
      BY <3>1
    <3> HIDE DEF new, size
    <3> QED BY <3>1, <3>3, <3>4
  <2> HIDE DEF new
  <2>4. \A s \in Sections : q[s] = IF s \notin input.compressed THEN parts[s] ELSE new(s)
    BY <2>2
  <2>5. q \in [Sections -> Seq(PartLayout)]
    BY <1>1, <2>2, <2>3
  <2> HIDE DEF q
  <2> QED BY <2>3, <2>4, <2>5 DEF SameMemory, q
<1>4. ASSUME NEW x \in X, NEW s \in Sections PROVE UpdateSection(x, s) \in X
  <2> DEFINE start == AlignUp(SectionLayout(s).alignment, x.file)
             ps == x.parts[s]
             fs == [p \in DOMAIN ps |-> ps[p].fsize]
             before == Sums(fs)
             moved(p) == [ps[p] EXCEPT !.file = start + before[p - 1]]
             new == [p \in DOMAIN ps |-> moved(p)]
             file == start + before[Len(ps)]
             q == [x.parts EXCEPT ![s] = new]
  <2>1. start \in Int
    BY <1>1, SectionAlignmentType, AlignUpFacts
  <2>2. /\ ps \in Seq(PartLayout) /\ DOMAIN ps = 1 .. Len(ps) /\ Len(ps) \in Nat
        /\ \A k \in 1 .. Len(ps) : ps[k] \in PartLayout
    OBVIOUS
  <2>3. x.parts \in [Sections -> Seq(PartLayout)] /\ SameMemory(parts, x.parts) /\ x.parts[s] = ps
    OBVIOUS
  <2>4. UpdateSection(x, s) = [x EXCEPT !.file = file, !.parts = q]
    BY DEF UpdateSection
  <2> HIDE DEF ps, start
  <2>5. fs \in Seq(Nat) /\ Len(fs) = Len(ps)
    <3>1. \A k \in 1 .. Len(ps) : ps[k].fsize \in Nat
      BY <2>2 DEF PartLayout
    <3> QED BY <2>2, <3>1
  <2> HIDE DEF fs
  <2>6. before \in [0 .. Len(ps) -> Nat]
    BY <2>5, SumsFacts
  <2> HIDE DEF before
  <2>7. ASSUME NEW k \in 1 .. Len(ps)
        PROVE  moved(k) \in PartLayout /\ moved(k).mem = ps[k].mem /\ moved(k).msize = ps[k].msize
    <3>1. k - 1 \in 0 .. Len(ps)
      BY <2>2
    <3>2. before[k - 1] \in Nat
      BY <2>6, <3>1
    <3>3. PICK v \in Int : v = start + before[k - 1]
      BY <2>1, <3>2
    <3>4. ps[k] \in PartLayout /\ moved(k) = [ps[k] EXCEPT !.file = v]
      BY <2>2, <3>3
    <3> HIDE DEF moved
    <3> QED BY <3>4 DEF PartLayout
  <2> HIDE DEF moved
  <2>8. /\ new \in Seq(PartLayout) /\ Len(new) = Len(ps)
        /\ \A k \in 1 .. Len(ps) : new[k].mem = ps[k].mem /\ new[k].msize = ps[k].msize
    <3>1. new \in [1 .. Len(ps) -> PartLayout] /\ \A k \in 1 .. Len(ps) : new[k] = moved(k)
      BY <2>2, <2>7
    <3> HIDE DEF new
    <3> QED BY <2>2, <2>7, <3>1
  <2> HIDE DEF new
  <2>9. file \in Int
    <3>1. before[Len(ps)] \in Nat
      BY <2>2, <2>6
    <3> QED BY <2>1, <3>1
  <2> HIDE DEF file
  <2>10. q \in [Sections -> Seq(PartLayout)] /\ SameMemory(parts, q)
    <3>1. q \in [Sections -> Seq(PartLayout)] /\ \A t \in Sections : q[t] = IF t = s THEN new ELSE x.parts[t]
      BY <2>3, <2>8
    <3> HIDE DEF q, X
    <3>2. ASSUME NEW t \in Sections
          PROVE  /\ Len(q[t]) = Len(parts[t])
                 /\ \A k \in 1 .. Len(parts[t]) : q[t][k].mem = parts[t][k].mem /\ q[t][k].msize = parts[t][k].msize
      <4>1. /\ Len(x.parts[t]) = Len(parts[t])
            /\ \A k \in 1 .. Len(parts[t]) : x.parts[t][k].mem = parts[t][k].mem
                                             /\ x.parts[t][k].msize = parts[t][k].msize
        BY <2>3 DEF SameMemory
      <4>2. CASE t = s
        <5>1. q[t] = new /\ x.parts[t] = ps
          BY <2>3, <3>1, <4>2
        <5>2. Len(new) = Len(parts[t]) /\ Len(ps) = Len(parts[t])
          BY <2>8, <4>1, <5>1
        <5>3. \A k \in 1 .. Len(parts[t]) : new[k].mem = parts[t][k].mem /\ new[k].msize = parts[t][k].msize
          <6> SUFFICES ASSUME NEW k \in 1 .. Len(parts[t])
                       PROVE  new[k].mem = parts[t][k].mem /\ new[k].msize = parts[t][k].msize
            OBVIOUS
          <6>1. new[k].mem = ps[k].mem /\ new[k].msize = ps[k].msize
            BY <2>8, <5>2
          <6>2. ps[k].mem = parts[t][k].mem /\ ps[k].msize = parts[t][k].msize
            BY <4>1, <5>1
          <6> QED BY <6>1, <6>2
        <5> QED BY <5>1, <5>2, <5>3
      <4>3. CASE t # s
        BY <3>1, <4>1, <4>3
      <4> QED BY <4>2, <4>3
    <3> QED BY <3>1, <3>2 DEF SameMemory
  <2> HIDE DEF q, Row
  <2>11. [x EXCEPT !.file = file, !.parts = q] \in X
    <3> DEFINE y == [x EXCEPT !.file = file, !.parts = q]
    <3>1. y \in [file: Int, parts: [Sections -> Seq(PartLayout)], segs: Seq(Row), moved: BOOLEAN]
      BY <2>9, <2>10
    <3>2. y.parts = q
      OBVIOUS
    <3> HIDE DEF y
    <3>3. SameMemory(parts, y.parts)
      BY <2>10, <3>2
    <3>4. y \in X
      BY <3>1, <3>3
    <3> QED BY <3>4 DEF y
  <2> QED BY <2>4, <2>11
<1> DEFINE one(acc, e) ==
            IF e.kind = "Section" THEN UpdateSection(acc, e.what)
            ELSE IF e.kind = "SegmentStart" /\ acc.segs # <<>> /\ Head(acc.segs).id = e.what
            THEN [acc EXCEPT !.segs = Tail(@),
                             !.moved = @ \/ Head(acc.segs).sizes.file # acc.file]
            ELSE acc
           N == Len(Events)
           base == [file |-> 0, parts |-> UpdateAllocationSizes, segs |-> segments, moved |-> FALSE]
           step(acc, n) == one(acc, Events[n])
           F == [i \in 1 .. N |-> [x \in X |-> step(x, i)]]
           Eq(f) == f = [n \in 0 .. N |-> IF n = 0 THEN base ELSE step(f[n - 1], n)]
<1>5. UpdateFileOffset = (CHOOSE f : Eq(f))[N]
  BY DEF UpdateFileOffset
<1>6. base \in X
  <2> HIDE DEF Row
  <2> QED BY <1>2, <1>3 DEF SameMemory
<1> HIDE DEF base
<1>7. N \in Nat /\ base \in X /\ \A i \in 1 .. N : i \in 0 .. N /\ i # 0 /\ i - 1 \in 0 .. N
  BY <1>1, <1>6
<1>8. ASSUME NEW d \in 1 .. N, NEW x \in X PROVE step(x, d) \in X
  <2> DEFINE e == Events[d]
  <2>1. e.kind = "Section" => e.what \in Sections
    <3>1. e \in OrderEvent
      BY <1>1
    <3> HIDE DEF e
    <3> QED BY <3>1 DEF OrderEvent
  <2>2. e.kind = "Section" => step(x, d) \in X
    BY <1>4, <2>1
  <2> DEFINE m == x.moved \/ Head(x.segs).sizes.file # x.file
             y == [x EXCEPT !.segs = Tail(@), !.moved = m]
  <2>3. x.segs # <<>> => y \in X
    <3> SUFFICES ASSUME x.segs # <<>> PROVE y \in X
      OBVIOUS
    <3>1. m \in BOOLEAN
      OBVIOUS
    <3> HIDE DEF m, Row
    <3>2. Tail(x.segs) \in Seq(Row)
      OBVIOUS
    <3> QED BY <3>1, <3>2
  <2>4. e.kind # "Section" => step(x, d) = x \/ (x.segs # <<>> /\ step(x, d) = y)
    OBVIOUS
  <2> HIDE DEF e, m, y, step
  <2> QED BY <2>2, <2>3, <2>4
<1> HIDE DEF N, X, step
<1>14. F \in [1 .. N -> [X -> X]] /\ \A i \in 1 .. N : \A x \in X : F[i][x] = step(x, i)
  BY <1>8
<1> HIDE DEF F
<1>15. PICK f : IsLoop(f, N, X, base, F)
  BY <1>7, <1>14, LoopExists
<1>16. Eq(f)
  <2>1. \A i \in 1 .. N : f[i] = step(f[i - 1], i)
    BY <1>7, <1>14, <1>15 DEF IsLoop
  <2>2. f = [n \in 0 .. N |-> f[n]]
    BY <1>15 DEF IsLoop
  <2>3. \A n \in 0 .. N : f[n] = IF n = 0 THEN base ELSE step(f[n - 1], n)
    BY <1>7, <1>15, <2>1 DEF IsLoop
  <2> QED BY <2>2, <2>3
<1>17. PICK g : Eq(g) /\ UpdateFileOffset = g[N]
  BY <1>5, <1>16
<1>18. /\ g = [i \in 0 .. N |-> g[i]] /\ g[0] = base
      /\ \A i \in 1 .. N : g[i - 1] \in X => g[i] = F[i][g[i - 1]]
  <2>1. g = [i \in 0 .. N |-> g[i]] /\ g[0] = base
    BY <1>7, <1>17
  <2>2. \A i \in 1 .. N : g[i] = step(g[i - 1], i)
    BY <1>7, <1>17
  <2> QED BY <1>14, <2>1, <2>2
<1>19. IsLoop(g, N, X, base, F)
  BY <1>7, <1>14, <1>18, LoopFacts
<1>20. UpdateFileOffset \in X
  BY <1>7, <1>17, <1>19 DEF IsLoop
<1> QED BY <1>20 DEF X

-----------------------------------------------------------------------------
(* The invariant holds initially and is preserved.                         *)

(* An order without events. *)
LEMMA NewBuilderType == NewBuilder \in Builder
  BY DEF NewBuilder, Builder, RegionNames

(* The invariant holds before the layout starts. *)
LEMMA InitInv == LayoutInit => LayoutInv
<1> SUFFICES ASSUME LayoutInit PROVE LayoutInv
  OBVIOUS
<1>1. input \in Outputs /\ stage = "plan" /\ walk = NoWalk /\ plan = <<>>
      /\ order = NewBuilder /\ sizes = [s \in Sections |-> Section(s).sizes]
  BY DEF LayoutInit
<1>3. order \in Builder
  BY <1>1, NewBuilderType
<1>4. TypeInv
  BY <1>1, <1>3, NoWalkType DEF TypeInv, Stages, Walked
<1>5. SizesInv
  <2>1. \A s \in Sections : IsOutputSection(s, Section(s)) /\ sizes[s] = Section(s).sizes
    BY <1>1, InputFacts
  <2> QED BY <1>1, <2>1 DEF SizesInv, IsOutputSection, Parts, PartAlignment
<1> QED BY <1>1, <1>4, <1>5 DEF LayoutInv, PlacesInv, GroupsInv, Walked

(* Types depend on the input only. *)
LEMMA SameTypes ==
  ASSUME input' = input
  PROVE  /\ Sections' = Sections /\ OrderEvent' = OrderEvent /\ PlanEvent' = PlanEvent
         /\ Builder' = Builder /\ \A s : Section(s)' = Section(s) /\ Parts(s)' = Parts(s)
         /\ \A s, p : PartAlignment(s, p)' = PartAlignment(s, p)
  BY DEF Sections, OrderEvent, PlanEvent, Builder, RegionNames, Section, Parts, PartAlignment

(* A step that leaves the sizes alone leaves the sizes of parts alone ... *)
LEMMA SameSizes ==
  ASSUME SizesInv, input' = input, sizes' = sizes
  PROVE  SizesInv' /\ \A s, p : PartSize(s, p)' = PartSize(s, p)
<1>1. SizesInv'
  BY SameTypes DEF SizesInv
<1>2. \A s, p : PartSize(s, p)' = PartSize(s, p)
  BY DEF PartSize, GroupSize
<1> QED BY <1>1, <1>2

(* Places stay as they are. *)
LEMMA SamePlaces ==
  ASSUME input' = input, sizes' = sizes, NEW s, parts'[s] = parts[s], HasPlace(s)
  PROVE  HasPlace(s)'
<1>1. \A p : PartSize(s, p)' = PartSize(s, p)
  BY DEF PartSize, GroupSize
<1> QED BY <1>1, SameTypes DEF HasPlace

(* ... one that leaves the order alone, the sections that are emitted ... *)
LEMMA SameEmitted ==
  ASSUME input' = input, order' = order
  PROVE  EmittedSections' = EmittedSections /\ Events' = Events
  BY DEF EmittedSections, Events, Sections

(* ... and one that moves no part, the addresses of inputs. *)
LEMMA SameGroups ==
  ASSUME input' = input, order' = order, sizes' = sizes, NEW g,
         \A s \in EmittedSections : \A p \in Parts(s) : parts'[s][p].mem = parts[s][p].mem
  PROVE  PlacesOf(g)' = PlacesOf(g)
<1>1. /\ EmittedSections' = EmittedSections /\ \A s : Parts(s)' = Parts(s)
      /\ \A s, p, h : GroupSize(s, p, h)' = GroupSize(s, p, h)
  BY SameEmitted, SameTypes DEF GroupSize
<1>2. ASSUME NEW s \in EmittedSections, NEW p \in Parts(s), NEW k
      PROVE  AddressOf(s, p, g, k)' = AddressOf(s, p, g, k)
  BY <1>1 DEF AddressOf, StartOffset
<1> DEFINE A(s, p) == [k \in DOMAIN sizes[s][p][g] |-> AddressOf(s, p, g, k)]
           B(s) == [p \in Parts(s) |-> A(s, p)]
<1>3. \A s \in EmittedSections : \A p \in Parts(s) : A(s, p)' = A(s, p)
  BY <1>2
<1> HIDE DEF A
<1>4. \A s \in EmittedSections : B(s)' = B(s)
  BY <1>1, <1>3
<1> HIDE DEF B
<1>5. [s \in EmittedSections |-> B(s)]' = [s \in EmittedSections |-> B(s)]
  BY <1>1, <1>4
<1> QED BY <1>5 DEF PlacesOf, B, A

(* A walk that goes on past an event that is not a section. *)
LEMMA StepPlaces ==
  ASSUME LayoutInv, stage = "walk", stage' = "walk", walk'.at = walk.at + 1,
         input' = input, sizes' = sizes, order' = order, parts' = parts,
         Current.kind # "Section"
  PROVE  PlacesInv' /\ GroupsInv'
<1>1. walk.at \in Nat /\ DOMAIN Events \subseteq Nat
  BY DEF LayoutInv, TypeInv, Counters, Builder, Events
<1>2. Events' = Events
  BY SameEmitted
<1>3. ASSUME NEW s \in Sections, NEW i \in DOMAIN Events, i < walk.at + 1, Events[i] = Event("Section", s)
      PROVE  HasPlace(s)'
  <2>1. i # walk.at
    BY <1>3 DEF Current, Event
  <2>2. i < walk.at
    BY <1>1, <1>3, <2>1
  <2>3. HasPlace(s)
    BY <1>3, <2>2 DEF LayoutInv, PlacesInv
  <2> QED BY <2>3, SamePlaces
<1>4. Sections' = Sections
  BY SameTypes
<1> QED BY <1>2, <1>3, <1>4 DEF PlacesInv, GroupsInv, Walked

(* Computing the output order. *)
LEMMA OrderSteps ==
  ASSUME LayoutInv, PlanOutputOrder \/ OutputOrderStep \/ OutputOrderDone
  PROVE  LayoutInv'
<1>1. /\ input \in Outputs /\ input' = input /\ sizes' = sizes /\ walk' = walk /\ stage' \in {"order", "headers"}
      /\ order \in Builder /\ plan \in Seq(PlanEvent) /\ walk \in Counters
  BY DEF LayoutInv, TypeInv, PlanOutputOrder, OutputOrderStep, OutputOrderDone
<1>2. order' \in Builder /\ plan' \in Seq(PlanEvent)
  <2>1. CASE OutputOrderStep
    <3> DEFINE e == Head(plan)
    <3>1. e \in PlanEvent /\ Tail(plan) \in Seq(PlanEvent)
      BY <1>1, <2>1 DEF OutputOrderStep
    <3>2. order' = IF e.kind = "Add" THEN AddSection(order, e.what) ELSE Push(order, e.kind, e.what)
      BY <2>1 DEF OutputOrderStep
    <3> HIDE DEF e
    <3>3. CASE e.kind = "Add"
      <4>1. e.what \in Sections
        BY <3>1, <3>3 DEF PlanEvent, OrderEvent
      <4>2. AddSection(order, e.what) \in Builder
        BY <1>1, <4>1, AddSectionType
      <4> QED BY <2>1, <3>1, <3>2, <3>3, <4>2 DEF OutputOrderStep
    <3>4. CASE e.kind # "Add"
      <4>1. e \in OrderEvent
        BY <3>1, <3>4 DEF PlanEvent
      <4>2. Event(e.kind, e.what) \in OrderEvent
        BY <4>1 DEF Event, OrderEvent
      <4>3. Push(order, e.kind, e.what) \in Builder
        BY <1>1, <4>2, PushType
      <4> QED BY <2>1, <3>1, <3>2, <3>4, <4>3 DEF OutputOrderStep
    <3> QED BY <3>3, <3>4
  <2>2. CASE OutputOrderDone
    BY <1>1, <2>2, BuildType DEF OutputOrderDone
  <2>3. CASE PlanOutputOrder
    <3>1. CustomSegments \in Seq(SegmentDef)
      BY <1>1, CustomSegmentsType
    <3>2. [NewBuilder EXCEPT !.segs = CustomSegments] \in Builder
      BY <3>1, NewBuilderType DEF Builder
    <3> QED BY <1>1, <2>3, <3>2, PlanType DEF PlanOutputOrder
  <2> QED BY <2>1, <2>2, <2>3
<1>3. TypeInv'
  <2>1. Builder' = Builder /\ PlanEvent' = PlanEvent
    BY <1>1, SameTypes
  <2> QED BY <1>1, <1>2, <2>1 DEF TypeInv, Stages, Walked
<1>4. SizesInv'
  BY <1>1, SameSizes DEF LayoutInv
<1>5. PlacesInv' /\ GroupsInv'
  BY <1>1 DEF PlacesInv, GroupsInv, Walked
<1> QED BY <1>3, <1>4, <1>5 DEF LayoutInv

(* A walk that starts over. *)
LEMMA StartWalkInv ==
  ASSUME TypeInv, StartWalk, SizesInv', input' = input, order' = order, plan' = plan, stage' = "walk",
         used' \in [DOMAIN input.regions -> Int]
  PROVE  LayoutInv'
<1>1. walk' \in Counters /\ walk'.at = 1
  BY NoWalkType DEF StartWalk
<1>2. parts' \in [Sections -> Seq(PartLayout)]
  BY DEF StartWalk
<1>3. TypeInv'
  BY <1>1, <1>2, SameTypes DEF TypeInv, Stages, Walked
<1>4. PlacesInv'
  <2>1. Events' = Events /\ DOMAIN Events \subseteq Nat \ {0}
    BY SameEmitted DEF TypeInv, Builder, Events
  <2>2. \A i \in DOMAIN Events' : ~(i < walk'.at)
    BY <1>1, <2>1
  <2> QED BY <2>2 DEF PlacesInv, Walked
<1>5. GroupsInv'
  BY DEF GroupsInv
<1> QED BY <1>3, <1>4, <1>5 DEF LayoutInv

(* The prelude reserves the program headers. *)
LEMMA HeaderSizesStep ==
  ASSUME LayoutInv, DetermineHeaderSizes
  PROVE  LayoutInv'
<1> DEFINE n == IF input.partial THEN 0 ELSE Cardinality(KeptSegments) * PhdrSize
           h == "program_headers"
<1>1. /\ input \in Outputs /\ input' = input /\ order' = order /\ plan' = plan /\ stage' = "walk" /\ StartWalk
      /\ used' = [r \in DOMAIN input.regions |-> 0] /\ TypeInv /\ SizesInv
      /\ sizes' = [sizes EXCEPT ![h][1][1] = <<n>>]
  BY DEF LayoutInv, TypeInv, DetermineHeaderSizes
<1>2. n \in Nat
  <2>1. Cardinality(KeptSegments) \in Nat
    BY <1>1, KeptFinite
  <2> QED BY <2>1 DEF PhdrSize
<1> HIDE DEF n
<1>3. h \in Sections /\ PartAlignment(h, 1) = 1 /\ Section(h).alignments = <<1>>
  BY <1>1, InputFacts DEF IsOutput, Sections, Section, PartAlignment
<1>4. Parts(h) = {1}
  BY <1>3 DEF Parts
<1>5. SizesInv'
  <2>1. DOMAIN sizes = Sections /\ DOMAIN sizes' = Sections
    BY <1>1 DEF SizesInv
  <2>2. \A s \in Sections : s # h => sizes'[s] = sizes[s]
    BY <1>1, <1>3, <2>1
  <2>3. sizes[h] \in [{1} -> [1 .. NumGroups -> Seq(Nat)]] /\ 1 \in 1 .. NumGroups
    BY <1>1, <1>3, <1>4, LayoutAssumption DEF SizesInv
  <2>4. sizes'[h] = [sizes[h] EXCEPT ![1][1] = <<n>>]
    BY <1>1, <1>3, <2>1
  <2>5. sizes'[h] \in [{1} -> [1 .. NumGroups -> Seq(Nat)]]
        /\ sizes'[h][1][1] = <<n>> /\ \A g \in 1 .. NumGroups : g # 1 => sizes'[h][1][g] = sizes[h][1][g]
    <3>1. <<n>> \in Seq(Nat)
      BY <1>2
    <3> DEFINE f == sizes[h]
               y == [f[1] EXCEPT ![1] = <<n>>]
               z == [f EXCEPT ![1] = y]
    <3>2. sizes'[h] = z
      BY <2>4
    <3>3. f \in [{1} -> [1 .. NumGroups -> Seq(Nat)]] /\ f[1] \in [1 .. NumGroups -> Seq(Nat)]
      BY <2>3
    <3> HIDE DEF f
    <3>4. /\ y \in [1 .. NumGroups -> Seq(Nat)] /\ y[1] = <<n>>
          /\ \A g \in 1 .. NumGroups : g # 1 => y[g] = f[1][g]
      BY <2>3, <3>1, <3>3
    <3> HIDE DEF y
    <3>5. z \in [{1} -> [1 .. NumGroups -> Seq(Nat)]] /\ z[1] = y
      BY <3>3, <3>4
    <3> HIDE DEF z
    <3> QED BY <3>2, <3>4, <3>5 DEF f
  <2>6. ASSUME NEW g \in 1 .. NumGroups, NEW k \in DOMAIN sizes'[h][1][g]
        PROVE  h \notin Packed => sizes'[h][1][g][k] % PartAlignment(h, 1) = 0
    <3>1. sizes'[h][1][g] \in Seq(Nat)
      BY <2>5
    <3>2. PICK x \in Nat : x = sizes'[h][1][g][k]
      BY <3>1
    <3>3. x % 1 = 0
      OBVIOUS
    <3> QED BY <1>3, <3>2, <3>3
  <2>7. h # "relro_padding"
    OBVIOUS
  <2> HIDE DEF h
  <2>8. ASSUME NEW s \in Sections
        PROVE  /\ sizes'[s] \in [Parts(s) -> [1 .. NumGroups -> Seq(Nat)]]
               /\ \A p \in Parts(s) : \A g \in 1 .. NumGroups : \A k \in DOMAIN sizes'[s][p][g] :
                    /\ s \notin Packed => sizes'[s][p][g][k] % PartAlignment(s, p) = 0
                    /\ s = "relro_padding" => sizes'[s][p][g][k] = 0
    <3>1. CASE s = h
      <4>1. sizes'[s] \in [Parts(s) -> [1 .. NumGroups -> Seq(Nat)]]
        BY <1>4, <2>5, <3>1
      <4>2. ASSUME NEW p \in Parts(s), NEW g \in 1 .. NumGroups, NEW k \in DOMAIN sizes'[s][p][g]
            PROVE  s \notin Packed => sizes'[s][p][g][k] % PartAlignment(s, p) = 0
        <5>1. p = 1 /\ k \in DOMAIN sizes'[h][1][g]
          BY <1>4, <3>1, <4>2
        <5> QED BY <2>6, <3>1, <5>1
      <4> QED BY <2>7, <3>1, <4>1, <4>2
    <3>2. CASE s # h
      BY <1>1, <2>2, <3>2 DEF SizesInv
    <3> QED BY <3>1, <3>2
  <2> QED BY <1>1, <2>1, <2>8, SameTypes DEF SizesInv
<1>6. used' \in [DOMAIN input.regions -> Int]
  BY <1>1
<1> QED BY <1>1, <1>5, <1>6, StartWalkInv

(* Steps of the walk that place nothing. *)
LEMMA WalkSteps ==
  ASSUME LayoutInv, SetLocation \/ SegmentStart \/ SegmentEnd
  PROVE  LayoutInv'
<1>1. /\ input \in Outputs /\ input' = input /\ sizes' = sizes /\ order' = order /\ plan' = plan
      /\ parts' = parts /\ used' = used /\ stage = "walk" /\ stage' = "walk" /\ walk \in Counters
      /\ TypeInv /\ SizesInv /\ segments' = segments
  BY DEF LayoutInv, TypeInv, SetLocation, SegmentStart, SegmentEnd, Walking
<1>2. walk' \in Counters /\ walk'.at = walk.at + 1 /\ Current.kind # "Section"
  <2>1. CASE SetLocation
    <3>1. Current.what \in Nat /\ Current.kind # "Section"
      BY <1>1, <2>1, CurrentFacts DEF SetLocation
    <3>2. Advance(walk) \in Counters /\ Advance(walk).at = walk.at + 1
      BY <1>1, AdvanceType
    <3>3. walk' = [Advance(walk) EXCEPT !.pending = Current.what]
      BY <2>1 DEF SetLocation
    <3> QED BY <3>1, <3>2, <3>3 DEF Counters
  <2>2. CASE SegmentStart
    <3>1. Current.kind # "Section"
      BY <2>2 DEF SegmentStart, Walking
    <3> DEFINE g == Current.what
               a == SegmentAlignment(g)
               v == IF IsLoad(g) THEN AlignLoadSegmentStart(walk, g) ELSE walk
    <3>2. walk' = Advance(v)
      BY <2>2 DEF SegmentStart
    <3>3. a \in Nat \ {0}
      BY <1>1, SegmentAlignmentType
    <3>4. walk.mem \in Int /\ walk.file \in Int /\ walk.pending \in Int
      BY <1>1 DEF Counters
    <3> DEFINE x == AlignModulo(a, walk.pending, walk.file)
               y == AlignModulo(a, walk.file, walk.mem)
    <3>5. x \in Int /\ y \in Int
      <4> HIDE DEF a
      <4> QED BY <3>3, <3>4, AlignModuloType
    <3>6. AlignLoadSegmentStart(walk, g) = IF walk.pending # -1 THEN [walk EXCEPT !.mem = walk.pending, !.file = x]
                                           ELSE [walk EXCEPT !.mem = y]
      BY DEF AlignLoadSegmentStart
    <3> HIDE DEF g, a, x, y
    <3>7. v \in Counters /\ v.at = walk.at
      BY <1>1, <3>4, <3>5, <3>6 DEF Counters
    <3> HIDE DEF v
    <3> QED BY <3>1, <3>2, <3>7, AdvanceType
  <2>3. CASE SegmentEnd
    BY <1>1, <2>3, AdvanceType DEF SegmentEnd, Walking
  <2> QED BY <2>1, <2>2, <2>3
<1>3. TypeInv'
  BY <1>1, <1>2, SameTypes DEF TypeInv
<1>4. SizesInv'
  BY <1>1, SameSizes
<1>5. PlacesInv' /\ GroupsInv'
  BY <1>1, <1>2, StepPlaces
<1> QED BY <1>3, <1>4, <1>5 DEF LayoutInv

(* A section gets its place. *)
LEMMA SectionStep ==
  ASSUME LayoutInv, LayoutSection
  PROVE  LayoutInv'
<1>0. PICK s : s = Current.what
  OBVIOUS
<1> DEFINE w == SectionStart(s)
           v == MoveTo(w, s)
           placing == PlaceParts(s, v)
<1>1. /\ input \in Outputs /\ input' = input /\ sizes' = sizes /\ order' = order /\ plan' = plan
      /\ stage = "walk" /\ stage' = "walk" /\ walk \in Counters
      /\ TypeInv /\ SizesInv /\ segments' = segments
      /\ parts \in [Sections -> Seq(PartLayout)] /\ used \in [DOMAIN input.regions -> Int]
  BY DEF LayoutInv, TypeInv, LayoutSection, Walking
<1>2. s \in Sections /\ walk.at \in DOMAIN Events /\ Current \in OrderEvent /\ Current.kind = "Section"
  BY <1>0, <1>1, CurrentFacts DEF LayoutSection
<1>3. /\ walk' = Advance(placing.w) /\ parts' = [parts EXCEPT ![s] = placing.parts]
      /\ used' = IF Region(s) = "none" THEN used
                 ELSE [used EXCEPT ![Region(s)] = placing.w.mem - input.regions[Region(s)].origin]
  BY <1>0 DEF LayoutSection
<1>4. Current = Event("Section", s)
  BY <1>0, <1>2 DEF OrderEvent, Event
<1>5. w \in Counters /\ w.at = walk.at
  BY <1>1, <1>2, SectionStartType
<1> HIDE DEF w
<1>6. v \in Counters /\ v.at = walk.at
  BY <1>5, MoveToType
<1> HIDE DEF v
<1>7. /\ placing \in Placing /\ placing.w.at = walk.at
      /\ Len(placing.parts) = Len(Section(s).alignments)
      /\ \A p \in Parts(s) : PlaceOk(placing.parts[p], s, p)
  BY <1>1, <1>2, <1>6, PlacePartsFacts
<1> HIDE DEF placing
<1>8. placing.w \in Counters /\ placing.parts \in Seq(PartLayout) /\ placing.w.mem \in Int
  BY <1>7 DEF Placing, Counters
<1>9. walk' \in Counters /\ walk'.at = walk.at + 1
  BY <1>3, <1>7, <1>8, AdvanceType
<1>10. /\ parts' \in [Sections -> Seq(PartLayout)] /\ parts'[s] = placing.parts
       /\ \A t \in Sections : t # s => parts'[t] = parts[t]
  BY <1>1, <1>2, <1>3, <1>8
<1>11. used' \in [DOMAIN input.regions -> Int]
  <2>1. CASE Region(s) = "none"
    BY <1>1, <1>3, <2>1
  <2>2. CASE Region(s) # "none"
    <3>1. Region(s) \in DOMAIN input.regions
      BY <1>1, <1>2, <2>2, InputFacts DEF Region, RegionNames
    <3>2. input.regions[Region(s)].origin \in Nat
      BY <1>1, <3>1, InputFacts DEF IsOutput
    <3>3. placing.w.mem - input.regions[Region(s)].origin \in Int
      BY <1>8, <3>2
    <3> QED BY <1>1, <1>3, <2>2, <3>1, <3>3
  <2> QED BY <2>1, <2>2
<1>12. TypeInv'
  BY <1>1, <1>9, <1>10, <1>11, SameTypes DEF TypeInv
<1>13. SizesInv'
  BY <1>1, SameSizes
<1>14. HasPlace(s)'
  <2>1. \A p : PartSize(s, p)' = PartSize(s, p)
    BY <1>1, SameSizes
  <2> QED BY <1>1, <1>7, <1>10, <2>1, SameTypes DEF HasPlace, PlaceOk
<1>15. ASSUME NEW t \in Sections, NEW i \in DOMAIN Events, i < walk.at + 1, Events[i] = Event("Section", t)
       PROVE  HasPlace(t)'
  <2>1. CASE t = s
    BY <1>14, <2>1
  <2>2. CASE t # s
    <3>1. i # walk.at
      BY <1>4, <1>15, <2>2 DEF Current, Event
    <3>2. walk.at \in Nat /\ i \in Nat
      BY <1>1 DEF TypeInv, Counters, Builder, Events
    <3>3. i < walk.at
      BY <1>15, <3>1, <3>2
    <3>4. HasPlace(t)
      BY <1>1, <1>15, <3>3 DEF LayoutInv, PlacesInv
    <3>5. parts'[t] = parts[t]
      BY <1>10, <2>2
    <3> QED BY <1>1, <3>4, <3>5, SamePlaces
  <2> QED BY <2>1, <2>2
<1>16. PlacesInv'
  <2>1. Sections' = Sections /\ Events' = Events
    BY <1>1, SameTypes, SameEmitted
  <2> QED BY <1>1, <1>9, <1>15, <2>1 DEF PlacesInv, Walked
<1>17. GroupsInv'
  BY <1>1 DEF GroupsInv
<1> QED BY <1>12, <1>13, <1>16, <1>17 DEF LayoutInv

(* The layout fails. *)
LEMMA FailSteps ==
  ASSUME LayoutInv, OutputOrderFails \/ LayoutFails \/ CompressFails
  PROVE  LayoutInv'
<1>1. /\ input' = input /\ sizes' = sizes /\ order' = order /\ plan' = plan /\ walk' = walk
      /\ stage' = "failed" /\ TypeInv /\ SizesInv
  BY DEF LayoutInv, OutputOrderFails, LayoutFails, CompressFails, Stop, layout
<1>2. TypeInv'
  BY <1>1, SameTypes DEF TypeInv, Stages, Walked
<1>3. SizesInv'
  BY <1>1, SameSizes
<1> QED BY <1>1, <1>2, <1>3 DEF LayoutInv, PlacesInv, GroupsInv, Walked

(* Relaxation shortens an input by a multiple of the alignment. *)
LEMMA RelaxStep ==
  ASSUME LayoutInv, RelaxPass
  PROVE  LayoutInv'
<1>1. /\ input \in Outputs /\ input' = input /\ order' = order /\ plan' = plan
      /\ stage' = "walk" /\ used' = used /\ StartWalk
      /\ TypeInv /\ SizesInv /\ used \in [DOMAIN input.regions -> Int]
  BY DEF LayoutInv, TypeInv, RelaxPass
<1>a. PICK s \in Sections : \E p \in Parts(s), g \in 1 .. NumGroups : \E k \in DOMAIN sizes[s][p][g] :
        /\ sizes[s][p][g][k] >= PartAlignment(s, p)
        /\ sizes' = [sizes EXCEPT ![s][p][g][k] = @ - PartAlignment(s, p)]
  BY DEF RelaxPass
<1>2. PICK p \in Parts(s), g \in 1 .. NumGroups : \E k \in DOMAIN sizes[s][p][g] :
        /\ sizes[s][p][g][k] >= PartAlignment(s, p)
        /\ sizes' = [sizes EXCEPT ![s][p][g][k] = @ - PartAlignment(s, p)]
  BY <1>a
<1>3. PICK k \in DOMAIN sizes[s][p][g] :
        /\ sizes[s][p][g][k] >= PartAlignment(s, p)
        /\ sizes' = [sizes EXCEPT ![s][p][g][k] = @ - PartAlignment(s, p)]
  BY <1>2
<1> DEFINE f == sizes[s]
           row == f[p]
           list == row[g]
           a == PartAlignment(s, p)
           list2 == [list EXCEPT ![k] = list[k] - a]
           row2 == [row EXCEPT ![g] = list2]
           f2 == [f EXCEPT ![p] = row2]
<1>4. a \in Nat \ {0}
  BY <1>1, PartFacts
<1>5. /\ DOMAIN sizes = Sections /\ f \in [Parts(s) -> [1 .. NumGroups -> Seq(Nat)]]
      /\ row \in [1 .. NumGroups -> Seq(Nat)] /\ list \in Seq(Nat)
  <2>1. DOMAIN sizes = Sections /\ f \in [Parts(s) -> [1 .. NumGroups -> Seq(Nat)]]
    BY <1>1 DEF SizesInv
  <2>2. row \in [1 .. NumGroups -> Seq(Nat)]
    BY <2>1
  <2> QED BY <2>1, <2>2
<1>6. list[k] \in Nat /\ list[k] >= a /\ DOMAIN list = 1 .. Len(list) /\ k \in 1 .. Len(list)
  BY <1>3, <1>5
<1>7. sizes' = [sizes EXCEPT ![s] = f2]
  BY <1>3
<1>8. /\ s \notin Packed => list[k] % a = 0
      /\ s = "relro_padding" => list[k] = 0
  BY <1>1, <1>3 DEF SizesInv
<1> DEFINE Ok(t, q, x) == /\ t \notin Packed => x % PartAlignment(t, q) = 0
                          /\ t = "relro_padding" => x = 0
<1>9. \A t \in Sections : \A q \in Parts(t) : \A h \in 1 .. NumGroups : \A i \in DOMAIN sizes[t][q][h] :
        Ok(t, q, sizes[t][q][h][i])
  BY <1>1 DEF SizesInv
<1>10. list[k] - a \in Nat /\ Ok(s, p, list[k] - a)
  <2>1. PICK x \in Nat : x = list[k]
    BY <1>6
  <2>2. s \notin Packed => (x - a) % a = 0
    <3>1. a % a = 0
      BY <1>1, PartFacts
    <3> QED BY <1>4, <1>8, <2>1, <3>1, MultiplesAdd
  <2>3. s # "relro_padding"
    BY <1>4, <1>6, <1>8
  <2> QED BY <1>4, <1>6, <2>1, <2>2, <2>3
<1> HIDE DEF Ok, a
<1>11. list2 \in Seq(Nat) /\ DOMAIN list2 = DOMAIN list
       /\ \A i \in DOMAIN list : list2[i] = IF i = k THEN list[k] - a ELSE list[i]
  <2> HIDE DEF list
  <2>1. list \in [1 .. Len(list) -> Nat] /\ Len(list) \in Nat
    BY <1>5
  <2>2. list2 \in [1 .. Len(list) -> Nat]
    BY <1>10, <2>1
  <2>3. list2 \in Seq(Nat)
    BY <2>1, <2>2
  <2> QED BY <1>6, <2>1, <2>2, <2>3
<1> HIDE DEF list2
<1>12. row2 \in [1 .. NumGroups -> Seq(Nat)] /\ \A h \in 1 .. NumGroups : row2[h] = IF h = g THEN list2 ELSE row[h]
  <2> HIDE DEF row
  <2> QED BY <1>5, <1>11
<1> HIDE DEF row2
<1>13. f2 \in [Parts(s) -> [1 .. NumGroups -> Seq(Nat)]] /\ \A q \in Parts(s) : f2[q] = IF q = p THEN row2 ELSE f[q]
  <2> HIDE DEF f
  <2> QED BY <1>5, <1>12
<1> HIDE DEF f2
<1>14. DOMAIN sizes' = Sections /\ \A t \in Sections : sizes'[t] = IF t = s THEN f2 ELSE sizes[t]
  BY <1>5, <1>7
<1>15. \A t \in Sections : sizes'[t] \in [Parts(t) -> [1 .. NumGroups -> Seq(Nat)]]
  BY <1>1, <1>13, <1>14 DEF SizesInv
<1>16. ASSUME NEW t \in Sections, NEW q \in Parts(t), NEW h \in 1 .. NumGroups, NEW i \in DOMAIN sizes'[t][q][h]
       PROVE  Ok(t, q, sizes'[t][q][h][i])
  <2>1. CASE t = s /\ q = p /\ h = g
    <3>1. sizes'[t][q][h] = list2
      BY <1>12, <1>13, <1>14, <2>1
    <3>2. i \in DOMAIN list /\ list2[i] = IF i = k THEN list[k] - a ELSE list[i]
      BY <1>11, <1>16, <3>1
    <3>3. Ok(s, p, list[i])
      BY <1>9, <3>2
    <3> QED BY <1>10, <2>1, <3>1, <3>2, <3>3
  <2>2. CASE ~(t = s /\ q = p /\ h = g)
    <3>1. sizes'[t][q][h] = sizes[t][q][h]
      BY <1>12, <1>13, <1>14, <2>2
    <3> QED BY <1>9, <1>16, <3>1
  <2> QED BY <2>1, <2>2
<1>17. SizesInv'
  BY <1>1, <1>14, <1>15, <1>16, SameTypes DEF SizesInv, Ok
<1> QED BY <1>1, <1>17, StartWalkInv

(* The walk is complete: every section has a place. *)
LEMMA LayoutDoneStep ==
  ASSUME LayoutInv, LayoutDone
  PROVE  LayoutInv'
<1>1. /\ input' = input /\ sizes' = sizes /\ order' = order /\ plan' = plan /\ walk' = walk /\ parts' = parts
      /\ used' = used /\ stage = "walk" /\ stage' = "segments" /\ TypeInv /\ SizesInv /\ walk.at > Len(Events)
  BY DEF LayoutInv, LayoutDone, layout
<1>2. TypeInv'
  BY <1>1, SameTypes DEF TypeInv, Stages, Walked
<1>3. SizesInv'
  BY <1>1, SameSizes
<1>4. ASSUME NEW s \in EmittedSections PROVE HasPlace(s)'
  <2>1. PICK i \in DOMAIN Events : Events[i] = Event("Section", s)
    BY DEF EmittedSections
  <2>2. i < walk.at
    <3>1. Events \in Seq(OrderEvent) /\ walk.at \in Nat
      BY <1>1 DEF TypeInv, Builder, Counters, Events
    <3> QED BY <1>1, <3>1
  <2>3. HasPlace(s)
    BY <1>1, <2>1, <2>2 DEF LayoutInv, PlacesInv, EmittedSections
  <2> QED BY <1>1, <2>3, SamePlaces
<1>5. PlacesInv'
  BY <1>1, <1>4, SameEmitted DEF PlacesInv
<1> QED BY <1>1, <1>2, <1>3, <1>5 DEF LayoutInv, GroupsInv

(* Places of sections stay as they are after the walk. *)
LEMMA KeepPlaces ==
  ASSUME LayoutInv, Walked, Walked', input' = input, sizes' = sizes, order' = order, plan' = plan,
         walk' = walk, parts' = parts, used' = used, stage' # "walk",
         stage' \in {"groups", "compress", "done"} =>
           Len(segments') \in Nat /\ segments' = [i \in 1 .. Len(segments') |-> segments'[i]]
  PROVE  TypeInv' /\ SizesInv' /\ PlacesInv' /\ \A g : PlacesOf(g)' = PlacesOf(g)
<1>1. TypeInv'
  BY SameTypes DEF LayoutInv, TypeInv, Stages, Walked
<1>2. SizesInv'
  BY SameSizes DEF LayoutInv
<1>3. PlacesInv'
  BY SamePlaces, SameEmitted DEF LayoutInv, PlacesInv
<1>4. \A g : PlacesOf(g)' = PlacesOf(g)
  BY SameGroups
<1> QED BY <1>1, <1>2, <1>3, <1>4

(* compute_segment_layout keeps the invariant. *)
LEMMA SegmentsStep ==
  ASSUME LayoutInv, ComputeSegmentLayout
  PROVE  LayoutInv'
<1>1. /\ input' = input /\ sizes' = sizes /\ order' = order /\ plan' = plan /\ walk' = walk /\ parts' = parts
      /\ used' = used /\ stage = "segments" /\ stage' = "groups" /\ TypeInv
      /\ placed' = [g \in 1 .. NumGroups |-> <<>>]
  BY DEF LayoutInv, ComputeSegmentLayout
<1>2. Len(segments') \in Nat /\ segments' = [i \in 1 .. Len(segments') |-> segments'[i]]
  <2> DEFINE ids == IF input.partial THEN {} ELSE KeptSegments
             f == [g \in ids |-> [id |-> g, sizes |-> SegmentLayout(g)]]
             rows == {[id |-> g, sizes |-> SegmentLayout(g)] : g \in ids}
             n == Cardinality(rows)
  <2>1. IsFiniteSet(ids)
    BY <1>1, KeptFinite, FS_EmptySet
  <2>2. rows = {f[g] : g \in ids} /\ DOMAIN f = ids
    OBVIOUS
  <2> HIDE DEF f, ids
  <2>3. IsFiniteSet(rows)
    BY <2>1, <2>2, FiniteImage
  <2>4. n \in Nat
    BY <2>3, FS_CardinalityType
  <2> DEFINE before(r, q) ==
               LET x == TypeOrder[order.segs[r.id].type]
                   y == TypeOrder[order.segs[q.id].type]
               IN  IF input.phdrs # <<>> THEN r.id < q.id
                   ELSE \/ x < y
                        \/ x = y /\ r.sizes.mem < q.sizes.mem
                        \/ x = y /\ r.sizes.mem = q.sizes.mem /\ r.id < q.id
             rank(r) == Cardinality({q \in rows : before(q, r)})
             row(i) == CHOOSE r \in rows : rank(r) = i - 1
  <2>a. segments' = [i \in 1 .. n |-> row(i)]
    BY DEF ComputeSegmentLayout, ids
  <2> HIDE DEF row, n
  <2>5. DOMAIN segments' = 1 .. n /\ segments' = [i \in 1 .. n |-> segments'[i]]
    BY <2>a
  <2> HIDE DEF n
  <2>6. Len(segments') = n
    BY <2>4, <2>5
  <2> QED BY <2>4, <2>5, <2>6
<1>3. TypeInv' /\ SizesInv' /\ PlacesInv'
  BY <1>1, <1>2, KeepPlaces DEF Walked
<1>4. GroupsInv'
  <2>1. placed' = [g \in 1 .. NumGroups |-> placed'[g]] /\ \A g \in 1 .. NumGroups : placed'[g] = <<>>
    BY <1>1
  <2> QED BY <1>1, <2>1 DEF GroupsInv
<1> QED BY <1>3, <1>4 DEF LayoutInv

(* A group places its inputs. *)
LEMMA GroupStep ==
  ASSUME LayoutInv, NEW g \in 1 .. NumGroups, FinaliseLayout(g)
  PROVE  LayoutInv'
<1>1. /\ input' = input /\ sizes' = sizes /\ order' = order /\ plan' = plan /\ walk' = walk /\ parts' = parts
      /\ used' = used /\ stage = "groups" /\ stage' = "groups" /\ segments' = segments /\ TypeInv
      /\ placed' = [placed EXCEPT ![g] = PlacesOf(g)]
  BY DEF LayoutInv, FinaliseLayout, PlacesOf
<1>2. TypeInv' /\ SizesInv' /\ PlacesInv' /\ \A h : PlacesOf(h)' = PlacesOf(h)
  BY <1>1, KeepPlaces DEF Walked, TypeInv
<1>3. GroupsInv'
  <2>1. placed = [h \in 1 .. NumGroups |-> placed[h]]
        /\ \A h \in 1 .. NumGroups : placed[h] = <<>> \/ placed[h] = PlacesOf(h)
    BY <1>1 DEF LayoutInv, GroupsInv
  <2>2. placed' = [h \in 1 .. NumGroups |-> placed'[h]]
        /\ \A h \in 1 .. NumGroups : placed'[h] = <<>> \/ placed'[h] = PlacesOf(h)
    BY <1>1, <2>1
  <2> QED BY <1>1, <1>2, <2>2 DEF GroupsInv
<1> QED BY <1>2, <1>3 DEF LayoutInv

(* The end of the parallel loop over groups keeps the invariant. *)
LEMMA GroupsDoneStep ==
  ASSUME LayoutInv, GroupsDone
  PROVE  LayoutInv'
<1>1. /\ input' = input /\ sizes' = sizes /\ order' = order /\ plan' = plan /\ walk' = walk /\ parts' = parts
      /\ used' = used /\ stage = "groups" /\ stage' \in {"compress", "done"} /\ segments' = segments
      /\ placed' = placed /\ TypeInv /\ \A g \in 1 .. NumGroups : placed[g] # <<>>
  BY DEF LayoutInv, GroupsDone, layout
<1>2. TypeInv' /\ SizesInv' /\ PlacesInv' /\ \A h : PlacesOf(h)' = PlacesOf(h)
  BY <1>1, KeepPlaces DEF Walked, TypeInv
<1>3. GroupsInv'
  BY <1>1, <1>2 DEF LayoutInv, GroupsInv
<1> QED BY <1>2, <1>3 DEF LayoutInv

(* Compression moves sections in the file only. *)
LEMMA CompressStep ==
  ASSUME LayoutInv, CompressDebugSections
  PROVE  LayoutInv'
<1>1. /\ input \in Outputs /\ input' = input /\ sizes' = sizes /\ order' = order /\ plan' = plan /\ walk' = walk
      /\ used' = used /\ stage = "compress" /\ stage' = "done" /\ segments' = segments
      /\ placed' = placed /\ TypeInv /\ SizesInv
  BY DEF LayoutInv, CompressDebugSections, TypeInv
<1>2. SameMemory(parts, parts')
  BY <1>1, CompressFacts DEF CompressDebugSections
<1>3. TypeInv'
  <2>1. parts' \in [Sections -> Seq(PartLayout)]
    BY <1>2 DEF SameMemory
  <2> QED BY <1>1, <2>1, SameTypes DEF TypeInv, Stages, Walked
<1>4. SizesInv' /\ \A s, p : PartSize(s, p)' = PartSize(s, p)
  BY <1>1, SameSizes
<1>5. ASSUME NEW s \in EmittedSections
      PROVE  /\ HasPlace(s) /\ Len(parts'[s]) = Len(parts[s])
             /\ \A p \in Parts(s) : parts'[s][p].mem = parts[s][p].mem /\ parts'[s][p].msize = parts[s][p].msize
  <2>1. s \in Sections /\ HasPlace(s)
    BY <1>1 DEF LayoutInv, PlacesInv, Walked, EmittedSections
  <2>2. Parts(s) = 1 .. Len(parts[s])
    BY <1>1, <2>1, PartFacts DEF HasPlace
  <2> QED BY <1>2, <2>1, <2>2 DEF SameMemory
<1>6. PlacesInv'
  <2>1. ASSUME NEW s \in EmittedSections PROVE HasPlace(s)'
    BY <1>1, <1>4, <1>5, SameTypes DEF HasPlace
  <2> QED BY <1>1, <2>1, SameEmitted DEF PlacesInv
<1>7. \A g : PlacesOf(g)' = PlacesOf(g)
  BY <1>1, <1>5, SameGroups
<1>8. GroupsInv'
  BY <1>1, <1>7 DEF LayoutInv, GroupsInv
<1> QED BY <1>3, <1>4, <1>6, <1>8 DEF LayoutInv

(* Nothing happens. *)
LEMMA StutterStep ==
  ASSUME LayoutInv, UNCHANGED layout_vars
  PROVE  LayoutInv'
<1>1. /\ input' = input /\ stage' = stage /\ sizes' = sizes /\ plan' = plan /\ order' = order /\ walk' = walk
      /\ parts' = parts /\ used' = used /\ segments' = segments /\ placed' = placed
  BY DEF layout_vars, layout
<1>2. TypeInv' /\ SizesInv'
  BY <1>1, SameTypes, SameSizes DEF LayoutInv, TypeInv, Walked
<1>3. PlacesInv'
  <2>1. Events' = Events /\ EmittedSections' = EmittedSections /\ Sections' = Sections
    BY <1>1, SameEmitted, SameTypes
  <2>2. \A s : HasPlace(s) => HasPlace(s)'
    BY <1>1, SamePlaces
  <2> QED BY <1>1, <2>1, <2>2 DEF LayoutInv, PlacesInv, Walked
<1>4. \A g : PlacesOf(g)' = PlacesOf(g)
  BY <1>1, SameGroups
<1>5. GroupsInv'
  BY <1>1, <1>4 DEF LayoutInv, GroupsInv
<1> QED BY <1>2, <1>3, <1>5 DEF LayoutInv

(* The invariant of the layout: every variable has its type, and each      *)
(* section that was walked has an aligned place that is large enough for   *)
(* each of its parts, which the groups of inputs use and compression keeps.*)
THEOREM LayoutInvariant == LayoutSpec => []LayoutInv
<1>1. LayoutInit => LayoutInv
  BY InitInv
<1>2. LayoutInv /\ [LayoutNext]_layout_vars => LayoutInv'
  <2> SUFFICES ASSUME LayoutInv, [LayoutNext]_layout_vars PROVE LayoutInv'
    OBVIOUS
  <2>1. CASE PlanOutputOrder \/ OutputOrderStep \/ OutputOrderDone
    BY <2>1, OrderSteps
  <2>2. CASE DetermineHeaderSizes
    BY <2>2, HeaderSizesStep
  <2>3. CASE SetLocation \/ SegmentStart \/ SegmentEnd
    BY <2>3, WalkSteps
  <2>4. CASE LayoutSection
    BY <2>4, SectionStep
  <2>5. CASE OutputOrderFails \/ LayoutFails \/ CompressFails
    BY <2>5, FailSteps
  <2>6. CASE RelaxPass
    BY <2>6, RelaxStep
  <2>7. CASE LayoutDone
    BY <2>7, LayoutDoneStep
  <2>8. CASE ComputeSegmentLayout
    BY <2>8, SegmentsStep
  <2>9. CASE \E g \in 1 .. NumGroups : FinaliseLayout(g)
    BY <2>9, GroupStep
  <2>10. CASE GroupsDone
    BY <2>10, GroupsDoneStep
  <2>11. CASE CompressDebugSections
    BY <2>11, CompressStep
  <2>12. CASE UNCHANGED layout_vars
    BY <2>12, StutterStep
  <2> QED BY <2>1, <2>2, <2>3, <2>4, <2>5, <2>6, <2>7, <2>8, <2>9, <2>10, <2>11, <2>12 DEF LayoutNext
<1> QED BY <1>1, <1>2, PTL DEF LayoutSpec

-----------------------------------------------------------------------------
(* What the groups put in a part.                                          *)

(* Sums grow. *)
LEMMA SumsGrow ==
  ASSUME NEW seq \in Seq(Nat), NEW i \in 0 .. Len(seq), NEW j \in 0 .. Len(seq), i <= j
  PROVE  Sums(seq)[i] <= Sums(seq)[j]
<1> DEFINE f == Sums(seq)
           N == Len(seq)
           P == {k \in Nat : i + k <= N => f[i] <= f[i + k]}
<1>1. N \in Nat /\ f \in [0 .. N -> Nat] /\ \A n \in 1 .. N : f[n] = f[n - 1] + seq[n] /\ seq[n] \in Nat
  BY SumsFacts
<1>0. i \in 0 .. N /\ j \in 0 .. N
  OBVIOUS
<1> HIDE DEF f, N
<1>2. 0 \in P
  <2>1. f[i] \in Nat /\ i + 0 = i
    BY <1>0, <1>1
  <2> QED BY <2>1
<1>3. ASSUME NEW k \in P PROVE k + 1 \in P
  <2> SUFFICES ASSUME i + (k + 1) <= N PROVE f[i] <= f[i + (k + 1)]
    OBVIOUS
  <2>1. i + (k + 1) \in 1 .. N /\ (i + (k + 1)) - 1 = i + k /\ i + k \in 0 .. N /\ i + k <= N
    BY <1>0, <1>1
  <2>2. f[i] <= f[i + k]
    BY <2>1
  <2>3. PICK x, y, z \in Nat : x = f[i] /\ y = f[i + k] /\ z = seq[i + (k + 1)]
    BY <1>0, <1>1, <2>1
  <2>4. f[i + (k + 1)] = y + z
    BY <1>1, <2>1, <2>3
  <2> QED BY <2>2, <2>3, <2>4, SMTT(30)
<1>4. P \in SUBSET Nat
  OBVIOUS
<1> HIDE DEF P
<1>5. P = Nat
  BY <1>2, <1>3, <1>4, NatInductionSet
<1>6. j - i \in P /\ i + (j - i) = j /\ j <= N
  BY <1>0, <1>1, <1>5
<1>7. f[i] <= f[j]
  BY <1>6 DEF P
<1> QED BY <1>7 DEF f

(* The sum of a prefix. *)
LEMMA SumsPrefix ==
  ASSUME NEW seq \in Seq(Nat), NEW pre \in Seq(Nat), Len(pre) <= Len(seq),
         \A i \in 1 .. Len(pre) : pre[i] = seq[i]
  PROVE  Total(pre) = Sums(seq)[Len(pre)]
<1> DEFINE f == Sums(seq)
           h == Sums(pre)
           N == Len(pre)
           P == {k \in Nat : k <= N => h[k] = f[k]}
<1>1. /\ N \in Nat /\ Len(seq) \in Nat /\ f[0] = 0 /\ h[0] = 0
      /\ \A n \in 1 .. N : h[n] = h[n - 1] + pre[n] /\ f[n] = f[n - 1] + seq[n]
  BY SumsFacts
<1>2. \A i \in 1 .. N : pre[i] = seq[i]
  OBVIOUS
<1> HIDE DEF f, h, N
<1>3. 0 \in P
  BY <1>1
<1>4. ASSUME NEW k \in P PROVE k + 1 \in P
  <2> SUFFICES ASSUME k + 1 <= N PROVE h[k + 1] = f[k + 1]
    OBVIOUS
  <2>1. k + 1 \in 1 .. N /\ (k + 1) - 1 = k /\ h[k] = f[k]
    BY <1>1
  <2> QED BY <1>1, <1>2, <2>1
<1>5. P \in SUBSET Nat
  OBVIOUS
<1> HIDE DEF P
<1>6. P = Nat
  BY <1>3, <1>4, <1>5, NatInductionSet
<1>7. h[N] = f[N]
  <2>1. N \in P /\ N <= N
    BY <1>1, <1>6
  <2> QED BY <2>1 DEF P
<1> QED BY <1>7 DEF Total, f, h, N

(* Sums of multiples. *)
LEMMA SumsMultiple ==
  ASSUME NEW seq \in Seq(Nat), NEW a \in Nat \ {0}, \A i \in 1 .. Len(seq) : seq[i] % a = 0,
         NEW n \in 0 .. Len(seq)
  PROVE  Sums(seq)[n] % a = 0
<1> DEFINE f == Sums(seq)
           N == Len(seq)
           P == {k \in Nat : k <= N => f[k] % a = 0}
<1>1. /\ N \in Nat /\ f \in [0 .. N -> Nat] /\ f[0] = 0 /\ n \in 0 .. N
      /\ \A i \in 1 .. N : f[i] = f[i - 1] + seq[i] /\ seq[i] \in Nat /\ seq[i] % a = 0
  BY SumsFacts
<1> HIDE DEF f, N
<1>2. 0 \in P
  <2>1. 0 % a = 0
    OBVIOUS
  <2> QED BY <1>1, <2>1
<1>3. ASSUME NEW k \in P PROVE k + 1 \in P
  <2> SUFFICES ASSUME k + 1 <= N PROVE f[k + 1] % a = 0
    OBVIOUS
  <2>1. k + 1 \in 1 .. N /\ (k + 1) - 1 = k /\ k \in 0 .. N /\ f[k] % a = 0
    BY <1>1
  <2>2. PICK x, y \in Nat : x = f[k] /\ y = seq[k + 1]
    BY <1>1, <2>1
  <2>3. x % a = 0 /\ y % a = 0 /\ f[k + 1] = x + y
    BY <1>1, <2>1, <2>2
  <2>4. x \in Int /\ y \in Int
    OBVIOUS
  <2>5. (x + y) % a = 0
    BY <2>3, <2>4, MultiplesAdd
  <2> QED BY <2>3, <2>5
<1>4. P \in SUBSET Nat
  OBVIOUS
<1> HIDE DEF P
<1>5. P = Nat
  BY <1>2, <1>3, <1>4, NatInductionSet
<1>6. f[n] % a = 0
  <2>1. n \in P /\ n <= N
    BY <1>1, <1>5
  <2> QED BY <2>1 DEF P
<1> QED BY <1>6 DEF f

(* Sizes of the first groups, and of the first inputs of a group. *)
GroupTotals(s, p) == Sums([h \in 1 .. NumGroups |-> GroupSize(s, p, h)])
InputTotals(s, p, g) == Sums(sizes[s][p][g])

(* Where an input is: after the groups before it and the inputs before it. *)
LEMMA AddressFacts ==
  ASSUME input \in Outputs, SizesInv, NEW s \in Sections, NEW p \in Parts(s), NEW g \in 1 .. NumGroups,
         NEW k \in DOMAIN sizes[s][p][g]
  PROVE  AddressOf(s, p, g, k) = (parts[s][p].mem + GroupTotals(s, p)[g - 1]) + InputTotals(s, p, g)[k - 1]
<1> DEFINE all == [h \in 1 .. NumGroups |-> GroupSize(s, p, h)]
           pre == [h \in 1 .. g - 1 |-> GroupSize(s, p, h)]
           list == sizes[s][p][g]
           head == SubSeq(list, 1, k - 1)
<1>1. NumGroups \in Nat /\ g \in 1 .. NumGroups /\ g - 1 \in Nat
  BY LayoutAssumption
<1>2. /\ list \in Seq(Nat) /\ all \in Seq(Nat) /\ Len(all) = NumGroups
      /\ \A h \in 1 .. NumGroups : GroupSize(s, p, h) \in Nat
  BY SizeFacts
<1>3. pre \in Seq(Nat) /\ Len(pre) = g - 1 /\ \A h \in 1 .. g - 1 : pre[h] = all[h]
  <2>1. \A h \in 1 .. g - 1 : h \in 1 .. NumGroups
    BY <1>1
  <2>2. \A h \in 1 .. g - 1 : GroupSize(s, p, h) \in Nat
    BY <1>2, <2>1
  <2>3. pre \in [1 .. g - 1 -> Nat]
    BY <2>2
  <2>4. \A h \in 1 .. g - 1 : pre[h] = all[h]
    BY <2>1
  <2> HIDE DEF pre, all
  <2> QED BY <1>1, <2>3, <2>4
<1>4. k \in 1 .. Len(list) /\ Len(list) \in Nat /\ k \in DOMAIN list
  <2>1. list \in Seq(Nat)
    BY <1>2
  <2>2. k \in DOMAIN list
    OBVIOUS
  <2> HIDE DEF list
  <2> QED BY <2>1, <2>2
<1>5. StartOffset(s, p, g) = parts[s][p].mem + Sums(all)[g - 1]
  <2>1. Total(pre) = Sums(all)[g - 1]
    <3> HIDE DEF pre, all
    <3>1. Len(pre) <= Len(all) /\ \A h \in 1 .. Len(pre) : pre[h] = all[h]
      BY <1>1, <1>2, <1>3
    <3>2. Total(pre) = Sums(all)[Len(pre)]
      BY <1>2, <1>3, <3>1, SumsPrefix
    <3> QED BY <1>3, <3>2
  <2> QED BY <2>1 DEF StartOffset
<1>6. Total(head) = Sums(list)[k - 1]
  <2> HIDE DEF list
  <2>1. head \in Seq(Nat) /\ Len(head) = k - 1 /\ \A i \in 1 .. k - 1 : head[i] = list[i]
    BY <1>2, <1>4, SMTT(30)
  <2> HIDE DEF head
  <2>2. k - 1 <= Len(list)
    BY <1>4
  <2> QED BY <1>2, <2>1, <2>2, SumsPrefix
<1> QED BY <1>5, <1>6 DEF AddressOf, GroupTotals, InputTotals

(* Sums of the groups and of the inputs of a group. *)
LEMMA GroupSums ==
  ASSUME input \in Outputs, SizesInv, NEW s \in Sections, NEW p \in Parts(s), NEW g \in 1 .. NumGroups
  PROVE  LET A == GroupTotals(s, p)
             L == InputTotals(s, p, g)
             n == Len(sizes[s][p][g])
         IN
         /\ A \in [0 .. NumGroups -> Nat] /\ PartSize(s, p) = A[NumGroups]
         /\ n \in Nat /\ DOMAIN sizes[s][p][g] = 1 .. n
         /\ L \in [0 .. n -> Nat] /\ L[0] = 0 /\ A[g] = A[g - 1] + L[n]
         /\ \A k \in 1 .. n : sizes[s][p][g][k] \in Nat /\ L[k] = L[k - 1] + sizes[s][p][g][k]
         /\ \A i, j \in 0 .. NumGroups : i <= j => A[i] <= A[j]
         /\ \A i, j \in 0 .. n : i <= j => L[i] <= L[j]
<1> DEFINE all == [h \in 1 .. NumGroups |-> GroupSize(s, p, h)]
           list == sizes[s][p][g]
<1>1. NumGroups \in Nat /\ g \in 1 .. NumGroups
  BY LayoutAssumption
<1>2. /\ list \in Seq(Nat) /\ all \in Seq(Nat) /\ Len(all) = NumGroups /\ all[g] = Total(list)
  BY SizeFacts DEF GroupSize
<1>3. PartSize(s, p) = Total(all)
  BY DEF PartSize
<1>4. PICK A, L, n : /\ A = GroupTotals(s, p) /\ L = InputTotals(s, p, g) /\ n = Len(list)
                     /\ A = Sums(all) /\ L = Sums(list)
  BY DEF GroupTotals, InputTotals
<1> HIDE DEF all
<1>5. /\ A \in [0 .. NumGroups -> Nat] /\ PartSize(s, p) = A[NumGroups]
      /\ \A i \in 1 .. NumGroups : A[i] = A[i - 1] + all[i]
  BY <1>2, <1>3, <1>4, SumsFacts DEF Total
<1>6. \A i, j \in 0 .. NumGroups : i <= j => A[i] <= A[j]
  BY <1>2, <1>4, SumsGrow
<1> HIDE DEF list
<1>7. /\ L \in [0 .. n -> Nat] /\ L[0] = 0 /\ n \in Nat /\ DOMAIN list = 1 .. n
      /\ \A k \in 1 .. n : L[k] = L[k - 1] + list[k] /\ list[k] \in Nat
  <2>1. n \in Nat /\ DOMAIN list = 1 .. n /\ \A k \in 1 .. n : list[k] \in Nat
    BY <1>2, <1>4
  <2>2. /\ Sums(list) \in [0 .. Len(list) -> Nat] /\ Sums(list)[0] = 0
        /\ \A k \in 1 .. Len(list) : Sums(list)[k] = Sums(list)[k - 1] + list[k]
    BY <1>2, SumsFacts
  <2> QED BY <1>4, <2>1, <2>2
<1>8. \A i, j \in 0 .. n : i <= j => L[i] <= L[j]
  BY <1>2, <1>4, SumsGrow
<1>9. A[g] = A[g - 1] + L[n]
  BY <1>1, <1>2, <1>4, <1>5 DEF Total
<1> QED BY <1>4, <1>5, <1>6, <1>7, <1>8, <1>9 DEF list

(* The inputs of a part: each in its bounds, aligned, and apart. *)
LEMMA InputsOfPart ==
  ASSUME input \in Outputs, SizesInv, NEW s \in Sections, NEW p \in Parts(s),
         NEW g \in 1 .. NumGroups, NEW k \in DOMAIN sizes[s][p][g],
         parts[s][p] \in PartLayout, PlaceOk(parts[s][p], s, p),
         NEW a, a = AddressOf(s, p, g, k), NEW b, b = a + sizes[s][p][g][k],
         NEW mem, mem = parts[s][p].mem, NEW A, A = GroupTotals(s, p)
  PROVE  /\ a \in Int /\ b \in Int /\ mem \in Int
         /\ mem + A[g - 1] <= a /\ b <= mem + A[g] /\ mem <= a /\ a <= b
         /\ b <= mem + parts[s][p].msize
         /\ s \notin Packed /\ a < b => a % PartAlignment(s, p) = 0
<1>0. PICK L, n, z : L = InputTotals(s, p, g) /\ n = Len(sizes[s][p][g]) /\ z = sizes[s][p][g][k]
  OBVIOUS
<1>1. NumGroups \in Nat /\ g \in 1 .. NumGroups /\ g - 1 \in 0 .. NumGroups /\ g \in 0 .. NumGroups
      /\ NumGroups \in 0 .. NumGroups /\ 0 \in 0 .. NumGroups
  BY LayoutAssumption
<1>2. /\ A \in [0 .. NumGroups -> Nat] /\ PartSize(s, p) = A[NumGroups]
      /\ n \in Nat /\ DOMAIN sizes[s][p][g] = 1 .. n
      /\ L \in [0 .. n -> Nat] /\ L[0] = 0 /\ A[g] = A[g - 1] + L[n]
      /\ \A i \in 1 .. n : sizes[s][p][g][i] \in Nat /\ L[i] = L[i - 1] + sizes[s][p][g][i]
      /\ \A i, j \in 0 .. NumGroups : i <= j => A[i] <= A[j]
      /\ \A i, j \in 0 .. n : i <= j => L[i] <= L[j]
  BY <1>0, GroupSums, SMTT(30)
<1>3. k \in 1 .. n /\ k - 1 \in 0 .. n /\ k \in 0 .. n /\ n \in 0 .. n
  BY <1>2
<1>4. PICK c, d, e, f, l, m \in Nat :
        /\ c = A[g - 1] /\ d = A[g] /\ e = A[NumGroups] /\ f = L[k - 1] /\ l = L[k] /\ m = L[n]
  <2>1. A[g - 1] \in Nat /\ A[g] \in Nat /\ A[NumGroups] \in Nat
    BY <1>1, <1>2
  <2>2. L[k - 1] \in Nat /\ L[k] \in Nat /\ L[n] \in Nat
    BY <1>2, <1>3
  <2> QED BY <2>1, <2>2
<1>5. z \in Nat /\ l = f + z /\ d = c + m /\ d <= e /\ l <= m
  <2>1. z \in Nat /\ L[k] = L[k - 1] + z
    BY <1>0, <1>2, <1>3
  <2>2. A[g] <= A[NumGroups]
    <3>1. g <= NumGroups
      BY <1>1
    <3> QED BY <1>1, <1>2, <3>1
  <2>3. L[k] <= L[n]
    <3>1. k <= n
      BY <1>2, <1>3
    <3> QED BY <1>2, <1>3, <3>1
  <2> QED BY <1>2, <1>4, <2>1, <2>2, <2>3
<1>6. PICK x \in Int : x = parts[s][p].mem
  BY DEF PartLayout
<1>7. a = (x + c) + f
  BY <1>0, <1>4, <1>6, AddressFacts
<1>8. PICK y \in Nat : y = parts[s][p].msize
  BY DEF PartLayout
<1>9. PartSize(s, p) = e /\ e <= y /\ (e > 0 => x % PartAlignment(s, p) = 0)
  BY <1>2, <1>4, <1>6, <1>8 DEF PlaceOk
<1>10. b = a + z /\ mem = x
  BY <1>0, <1>6
<1>11. /\ a \in Int /\ b \in Int /\ mem \in Int /\ mem + c <= a /\ b <= mem + d /\ mem <= a /\ a <= b
       /\ b <= mem + y
  BY <1>5, <1>7, <1>9, <1>10
<1>12. ASSUME s \notin Packed, a < b PROVE a % PartAlignment(s, p) = 0
  <2> DEFINE al == PartAlignment(s, p)
  <2>1. al \in Nat \ {0}
    BY PartFacts
  <2>2. e > 0
    BY <1>5, <1>7, <1>10, <1>12
  <2>3. x % al = 0
    BY <1>9, <2>2
  <2>4. \A h \in 1 .. NumGroups : sizes[s][p][h] \in Seq(Nat)
                                  /\ \A i \in 1 .. Len(sizes[s][p][h]) : sizes[s][p][h][i] % al = 0
    <3> SUFFICES ASSUME NEW h \in 1 .. NumGroups
                 PROVE  sizes[s][p][h] \in Seq(Nat)
                        /\ \A i \in 1 .. Len(sizes[s][p][h]) : sizes[s][p][h][i] % al = 0
      OBVIOUS
    <3>1. sizes[s][p][h] \in Seq(Nat)
      BY SizeFacts
    <3>2. DOMAIN sizes[s][p][h] = 1 .. Len(sizes[s][p][h])
      BY <3>1
    <3> QED BY <1>12, <3>1, <3>2 DEF SizesInv
  <2> DEFINE all == [h \in 1 .. NumGroups |-> GroupSize(s, p, h)]
  <2>5. all \in Seq(Nat) /\ Len(all) = NumGroups
    BY SizeFacts
  <2>6. ASSUME NEW h \in 1 .. NumGroups PROVE all[h] % al = 0
    <3>1. Len(sizes[s][p][h]) \in 0 .. Len(sizes[s][p][h])
      BY <2>4
    <3>2. Sums(sizes[s][p][h])[Len(sizes[s][p][h])] % al = 0
      <4> HIDE DEF al
      <4> QED BY <2>1, <2>4, <3>1, SumsMultiple
    <3> QED BY <3>2 DEF GroupSize, Total
  <2>7. A = Sums(all)
    BY DEF GroupTotals
  <2> HIDE DEF all, al
  <2>8. c % al = 0
    <3>1. g - 1 \in 0 .. Len(all) /\ \A h \in 1 .. Len(all) : all[h] % al = 0
      BY <1>1, <2>5, <2>6
    <3> QED BY <1>4, <2>1, <2>5, <2>7, <3>1, SumsMultiple
  <2>9. f % al = 0
    <3> DEFINE list == sizes[s][p][g]
    <3>1. list \in Seq(Nat) /\ \A i \in 1 .. Len(list) : list[i] % al = 0
      BY <2>4
    <3>2. k - 1 \in 0 .. Len(list) /\ L = Sums(list)
      BY <1>0, <1>3 DEF InputTotals
    <3> HIDE DEF list
    <3>3. Sums(list)[k - 1] % al = 0
      BY <2>1, <3>1, <3>2, SumsMultiple
    <3> QED BY <1>4, <3>2, <3>3
  <2>10. (x + c) % al = 0
    <3>1. c \in Int
      OBVIOUS
    <3> QED BY <2>1, <2>3, <2>8, <3>1, MultiplesAdd
  <2>11. x + c \in Int /\ f \in Int
    OBVIOUS
  <2>12. ((x + c) + f) % al = 0
    BY <2>1, <2>9, <2>10, <2>11, MultiplesAdd
  <2> QED BY <1>7, <2>12 DEF al
<1> QED BY <1>4, <1>8, <1>11, <1>12

(* The invariant implies the property: what precedes an input is a sum. *)
LEMMA GroupsFill == LayoutInv => GroupsFillTheirParts
<1> SUFFICES ASSUME LayoutInv, stage \in {"compress", "done"}, NEW s \in EmittedSections, NEW p \in Parts(s)
             PROVE  LET inputs == UNION {{<<g, k>> : k \in DOMAIN sizes[s][p][g]} : g \in 1 .. NumGroups}
                        start(x) == placed[x[1]][s][p][x[2]]
                        end(x) == start(x) + sizes[s][p][x[1]][x[2]]
                    IN  /\ \A x \in inputs :
                            /\ s \notin Packed /\ start(x) < end(x) => start(x) % PartAlignment(s, p) = 0
                            /\ parts[s][p].mem <= start(x)
                            /\ end(x) <= parts[s][p].mem + parts[s][p].msize
                        /\ \A x, y \in inputs :
                            x # y => Apart(start(x), end(x), start(y), end(y))
  BY DEF GroupsFillTheirParts
<1> DEFINE inputs == UNION {{<<g, k>> : k \in DOMAIN sizes[s][p][g]} : g \in 1 .. NumGroups}
           start(x) == placed[x[1]][s][p][x[2]]
           end(x) == start(x) + sizes[s][p][x[1]][x[2]]
<1>1. /\ input \in Outputs /\ SizesInv /\ s \in Sections /\ HasPlace(s)
      /\ parts \in [Sections -> Seq(PartLayout)]
      /\ \A g \in 1 .. NumGroups : placed[g] = PlacesOf(g)
  BY DEF LayoutInv, TypeInv, PlacesInv, GroupsInv, Walked, EmittedSections
<1>2. parts[s][p] \in PartLayout /\ PlaceOk(parts[s][p], s, p)
  <2>1. parts[s] \in Seq(PartLayout) /\ p \in 1 .. Len(parts[s])
    BY <1>1, PartFacts DEF HasPlace
  <2>2. parts[s][p] \in PartLayout
    BY <2>1
  <2> QED BY <1>1, <2>2 DEF HasPlace, PlaceOk
<1>3. ASSUME NEW x \in inputs
      PROVE  \E g \in 1 .. NumGroups : \E k \in DOMAIN sizes[s][p][g] :
               x = <<g, k>> /\ start(x) = AddressOf(s, p, g, k) /\ end(x) = start(x) + sizes[s][p][g][k]
  <2>1. PICK g \in 1 .. NumGroups : \E k \in DOMAIN sizes[s][p][g] : x = <<g, k>>
    OBVIOUS
  <2>2. PICK k \in DOMAIN sizes[s][p][g] : x = <<g, k>>
    BY <2>1
  <2>3. x[1] = g /\ x[2] = k
    BY <2>2
  <2>4. placed[g][s][p][k] = AddressOf(s, p, g, k)
    <3> DEFINE In(t, q) == [i \in DOMAIN sizes[t][q][g] |-> AddressOf(t, q, g, i)]
               Of(t) == [q \in Parts(t) |-> In(t, q)]
    <3>1. placed[g] = [t \in EmittedSections |-> Of(t)]
      BY <1>1 DEF PlacesOf
    <3>2. placed[g][s] = Of(s)
      BY <3>1
    <3>3. Of(s)[p] = In(s, p) /\ In(s, p)[k] = AddressOf(s, p, g, k)
      OBVIOUS
    <3> QED BY <3>2, <3>3
  <2>5. start(x) = AddressOf(s, p, g, k) /\ end(x) = start(x) + sizes[s][p][g][k]
    BY <2>3, <2>4
  <2> HIDE DEF start, end
  <2> QED BY <2>2, <2>5
<1>a. PICK A, mem : A = GroupTotals(s, p) /\ mem = parts[s][p].mem
  OBVIOUS
<1> HIDE DEF inputs, start, end
<1>4. ASSUME NEW x \in inputs
      PROVE  /\ s \notin Packed /\ start(x) < end(x) => start(x) % PartAlignment(s, p) = 0
             /\ parts[s][p].mem <= start(x)
             /\ end(x) <= parts[s][p].mem + parts[s][p].msize
  <2>1. PICK g \in 1 .. NumGroups : \E k \in DOMAIN sizes[s][p][g] :
               x = <<g, k>> /\ start(x) = AddressOf(s, p, g, k) /\ end(x) = start(x) + sizes[s][p][g][k]
    BY <1>3
  <2>2. PICK k \in DOMAIN sizes[s][p][g] :
               x = <<g, k>> /\ start(x) = AddressOf(s, p, g, k) /\ end(x) = start(x) + sizes[s][p][g][k]
    BY <2>1
  <2>3. /\ s \notin Packed /\ start(x) < end(x) => start(x) % PartAlignment(s, p) = 0
        /\ mem <= start(x) /\ end(x) <= mem + parts[s][p].msize
    BY <1>1, <1>2, <1>a, <2>2, InputsOfPart
  <2> QED BY <1>a, <2>3
<1>5. ASSUME NEW x \in inputs, NEW y \in inputs, x # y
      PROVE  Apart(start(x), end(x), start(y), end(y))
  <2>1. PICK g \in 1 .. NumGroups : \E k \in DOMAIN sizes[s][p][g] :
               x = <<g, k>> /\ start(x) = AddressOf(s, p, g, k) /\ end(x) = start(x) + sizes[s][p][g][k]
    BY <1>3
  <2>2. PICK k \in DOMAIN sizes[s][p][g] :
               x = <<g, k>> /\ start(x) = AddressOf(s, p, g, k) /\ end(x) = start(x) + sizes[s][p][g][k]
    BY <2>1
  <2>3. PICK h \in 1 .. NumGroups : \E l \in DOMAIN sizes[s][p][h] :
               y = <<h, l>> /\ start(y) = AddressOf(s, p, h, l) /\ end(y) = start(y) + sizes[s][p][h][l]
    BY <1>3
  <2>4. PICK l \in DOMAIN sizes[s][p][h] :
               y = <<h, l>> /\ start(y) = AddressOf(s, p, h, l) /\ end(y) = start(y) + sizes[s][p][h][l]
    BY <2>3
  <2>5. start(x) \in Int /\ end(x) \in Int /\ mem \in Int /\ mem + A[g - 1] <= start(x) /\ end(x) <= mem + A[g]
    BY <1>1, <1>2, <1>a, <2>2, InputsOfPart
  <2>6. start(y) \in Int /\ end(y) \in Int /\ mem + A[h - 1] <= start(y) /\ end(y) <= mem + A[h]
    BY <1>1, <1>2, <1>a, <2>4, InputsOfPart
  <2>7. NumGroups \in Nat /\ g \in 1 .. NumGroups /\ h \in 1 .. NumGroups
    BY LayoutAssumption
  <2>8. A \in [0 .. NumGroups -> Nat] /\ \A i, j \in 0 .. NumGroups : i <= j => A[i] <= A[j]
    BY <1>1, <1>a, GroupSums
  <2>9. PICK a1, a2, b1, b2 \in Nat : a1 = A[g - 1] /\ a2 = A[g] /\ b1 = A[h - 1] /\ b2 = A[h]
    BY <2>7, <2>8, SMTT(30)
  <2>10. CASE g < h
    <3>1. g \in 0 .. NumGroups /\ h - 1 \in 0 .. NumGroups /\ g <= h - 1
      BY <2>7, <2>10
    <3>2. a2 <= b1
      BY <2>8, <2>9, <3>1
    <3>3. end(x) <= start(y)
      BY <2>5, <2>6, <2>9, <3>2
    <3> QED BY <3>3 DEF Apart
  <2>11. CASE h < g
    <3>1. h \in 0 .. NumGroups /\ g - 1 \in 0 .. NumGroups /\ h <= g - 1
      BY <2>7, <2>11
    <3>2. b2 <= a1
      BY <2>8, <2>9, <3>1
    <3>3. end(y) <= start(x)
      BY <2>5, <2>6, <2>9, <3>2
    <3> QED BY <3>3 DEF Apart
  <2>12. CASE g = h
    <3>0. PICK L, n : L = InputTotals(s, p, g) /\ n = Len(sizes[s][p][g])
      OBVIOUS
    <3>1. /\ n \in Nat /\ DOMAIN sizes[s][p][g] = 1 .. n /\ L \in [0 .. n -> Nat]
          /\ \A i \in 1 .. n : sizes[s][p][g][i] \in Nat /\ L[i] = L[i - 1] + sizes[s][p][g][i]
          /\ \A i, j \in 0 .. n : i <= j => L[i] <= L[j]
      BY <1>1, <1>a, <3>0, GroupSums, SMTT(30)
    <3>2. k # l /\ k \in 1 .. n /\ l \in 1 .. n
      BY <1>5, <2>2, <2>4, <2>12, <3>1
    <3>3. /\ start(x) = (mem + A[g - 1]) + L[k - 1] /\ start(y) = (mem + A[g - 1]) + L[l - 1]
      BY <1>1, <1>a, <2>2, <2>4, <2>12, <3>0, AddressFacts
    <3>4. PICK k1, k2, l1, l2, u, v \in Nat :
            /\ k1 = L[k - 1] /\ k2 = L[k] /\ l1 = L[l - 1] /\ l2 = L[l]
            /\ u = sizes[s][p][g][k] /\ v = sizes[s][p][g][l]
      <4>1. k - 1 \in 0 .. n /\ k \in 0 .. n /\ l - 1 \in 0 .. n /\ l \in 0 .. n
        BY <3>1, <3>2
      <4>2. L[k - 1] \in Nat /\ L[k] \in Nat /\ L[l - 1] \in Nat /\ L[l] \in Nat
        BY <3>1, <4>1
      <4>3. sizes[s][p][g][k] \in Nat /\ sizes[s][p][g][l] \in Nat
        BY <3>1, <3>2
      <4> QED BY <4>2, <4>3
    <3>5. k2 = k1 + u /\ l2 = l1 + v
      BY <3>1, <3>2, <3>4
    <3>6. k < l => k2 <= l1
      <4> SUFFICES ASSUME k < l PROVE k2 <= l1
        OBVIOUS
      <4>1. k \in 0 .. n /\ l - 1 \in 0 .. n /\ k <= l - 1
        BY <3>1, <3>2
      <4> QED BY <3>1, <3>4, <4>1
    <3>7. l < k => l2 <= k1
      <4> SUFFICES ASSUME l < k PROVE l2 <= k1
        OBVIOUS
      <4>1. l \in 0 .. n /\ k - 1 \in 0 .. n /\ l <= k - 1
        BY <3>1, <3>2
      <4> QED BY <3>1, <3>4, <4>1
    <3>8. start(x) = (mem + a1) + k1 /\ start(y) = (mem + a1) + l1
      BY <2>9, <3>3, <3>4
    <3>9. end(x) = start(x) + u /\ end(y) = start(y) + v
      BY <2>2, <2>4, <2>12, <3>4
    <3>10. k < l \/ l < k
      BY <3>1, <3>2
    <3>11. end(x) <= start(y) \/ end(y) <= start(x)
      BY <2>5, <3>5, <3>6, <3>7, <3>8, <3>9, <3>10
    <3> QED BY <3>11 DEF Apart
  <2> QED BY <2>7, <2>10, <2>11, <2>12
<1> QED BY <1>4, <1>5 DEF inputs, start, end

(* The groups of input files, which compute their addresses on their own,  *)
(* fill each part of each section without an overlap, within its bounds    *)
(* and aligned, for every script, relaxation and compression               *)
(* (compute_start_offsets_by_group, compute_layout_sections).              *)
THEOREM GroupsAlwaysFillTheirParts == LayoutSpec => []GroupsFillTheirParts
  BY LayoutInvariant, GroupsFill, PTL
=============================================================================
