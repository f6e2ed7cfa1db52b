-------------------------- MODULE ResolutionProofs --------------------------
(***************************************************************************)
(* Proofs about Resolution.                                                *)
(***************************************************************************)
EXTENDS Resolution, FiniteSetTheorems, WellFoundedInduction, TLAPS

(* A set of natural numbers that has an element has a least one. *)
LEMMA LeastNumber ==
  ASSUME NEW S \in SUBSET Nat, S # {}
  PROVE  \E x \in S : \A y \in S : x <= y
<1>1. IsWellFoundedOn(OpToRel(<, Nat), Nat)
  BY NatLessThanWellFounded
<1>2. PICK x \in S : \A y \in S : ~(<<y, x>> \in OpToRel(<, Nat))
  <2>1. S \subseteq Nat
    OBVIOUS
  <2> QED BY <1>1, <2>1, WFMin
<1>3. \A y \in S : ~(y < x)
  BY <1>2 DEF OpToRel
<1> QED BY <1>3

(* First, when there is one. *)
LEMMA FirstIsLeast ==
  ASSUME NEW S \in SUBSET Nat, S # {}
  PROVE  First(S) \in S /\ \A t \in S : First(S) <= t
<1>1. \E x \in S : \A y \in S : x <= y
  BY LeastNumber
<1> QED BY <1>1 DEF First

(* Induction, for a set instead of a predicate. *)
LEMMA NatInductionSet ==
  ASSUME NEW P \in SUBSET Nat, 0 \in P, \A k \in P : k + 1 \in P
  PROVE  P = Nat
<1> SUFFICES ASSUME Nat \ P # {} PROVE FALSE
  OBVIOUS
<1>1. PICK x \in Nat \ P : \A y \in Nat \ P : x <= y
  BY LeastNumber
<1>2. x # 0 /\ x - 1 \in Nat
  BY <1>1
<1>3. x - 1 \in P
  BY <1>1, <1>2
<1>4. (x - 1) + 1 = x
  BY <1>1
<1> QED BY <1>1, <1>3, <1>4

(* The values of a fold over 1..N that starts with a.  The steps are       *)
(* functions, so that no operator is needed as a parameter.                *)
IsFold(f, N, A, a, step) ==
  f \in [0..N -> A] /\ f[0] = a /\ \A i \in 1..N : f[i] = step[i][f[i - 1]]
Steps(N, A) == [1..N -> [A -> A]]

(* A function on 1..N is a sequence. *)
LEMMA FunctionIsSeq ==
  ASSUME NEW N \in Nat, NEW E, NEW f \in [1..N -> E]
  PROVE  f \in Seq(E) /\ Len(f) = N /\ DOMAIN f = 1..N
OBVIOUS

(* The elements of a sequence, and a sequence in which one is replaced. *)
LEMMA SeqExcept ==
  ASSUME NEW E, NEW q \in Seq(E), NEW i, NEW v, i \in DOMAIN q => v \in E
  PROVE  /\ [q EXCEPT ![i] = v] \in Seq(E) /\ Len([q EXCEPT ![i] = v]) = Len(q)
         /\ DOMAIN [q EXCEPT ![i] = v] = DOMAIN q
         /\ \A j \in DOMAIN q : [q EXCEPT ![i] = v][j] = IF j = i THEN v ELSE q[j]
<1> DEFINE r == [q EXCEPT ![i] = v]
<1>1. Len(q) \in Nat /\ DOMAIN q = 1..Len(q) /\ \A j \in 1..Len(q) : q[j] \in E
  OBVIOUS
<1>2. DOMAIN r = DOMAIN q /\ \A j \in DOMAIN q : r[j] = IF j = i THEN v ELSE q[j]
  OBVIOUS
<1>3. r \in [1..Len(q) -> E]
  BY <1>1, <1>2
<1> HIDE DEF r
<1>4. r \in Seq(E) /\ Len(r) = Len(q)
  BY <1>1, <1>3, FunctionIsSeq
<1> QED BY <1>2, <1>4 DEF r

(* An element of a sequence. *)
LEMMA SeqElement ==
  ASSUME NEW E, NEW q \in Seq(E), NEW i \in DOMAIN q
  PROVE  q[i] \in E
OBVIOUS

(* A fold with steps that stay in A exists. *)
LEMMA FoldExists ==
  ASSUME NEW N \in Nat, NEW A, NEW a \in A, NEW step \in Steps(N, A)
  PROVE  \E f : IsFold(f, N, A, a, step)
<1> DEFINE Fold(k) == \E f \in [0..k -> A] : f[0] = a /\ \A i \in 1..k : f[i] = step[i][f[i - 1]]
           P == {k \in Nat : k <= N => Fold(k)}
<1>1. 0 \in P
  <2>1. [i \in 0..0 |-> a] \in [0..0 -> A]
    OBVIOUS
  <2>2. [i \in 0..0 |-> a][0] = a /\ 1..0 = {}
    OBVIOUS
  <2> QED BY <2>1, <2>2
<1>2. ASSUME NEW k \in P PROVE k + 1 \in P
  <2> SUFFICES ASSUME k + 1 <= N PROVE Fold(k + 1)
    OBVIOUS
  <2>1. PICK f \in [0..k -> A] : f[0] = a /\ \A i \in 1..k : f[i] = step[i][f[i - 1]]
    OBVIOUS
  <2> DEFINE g == [i \in 0..(k + 1) |-> IF i = k + 1 THEN step[k + 1][f[k]] ELSE f[i]]
  <2>2. step[k + 1] \in [A -> A] /\ f[k] \in A
    BY <2>1 DEF Steps
  <2>3. g \in [0..(k + 1) -> A]
    BY <2>1, <2>2
  <2>4. g[0] = a
    BY <2>1
  <2>5. ASSUME NEW i \in 1..(k + 1) PROVE g[i] = step[i][g[i - 1]]
    <3>1. CASE i = k + 1
      BY <3>1, <2>1
    <3>2. CASE i # k + 1
      <4>1. i \in 1..k /\ i - 1 \in 0..k /\ i - 1 # k + 1 /\ i - 1 \in 0..(k+1)
        BY <3>2
      <4>2. g[i] = f[i] /\ g[i - 1] = f[i - 1]
        BY <4>1, <3>2
      <4> QED BY <4>1, <4>2, <2>1
    <3> QED BY <3>1, <3>2
  <2> HIDE DEF g
  <2> QED BY <2>3, <2>4, <2>5
<1> HIDE DEF P
<1>3. P \in SUBSET Nat
  BY DEF P
<1>4. P = Nat
  BY <1>1, <1>2, <1>3, NatInductionSet
<1> HIDE DEF Fold
<1>5. Fold(N)
  <2>1. N \in P
    BY <1>4
  <2> QED BY <2>1 DEF P
<1>6. PICK f \in [0..N -> A] : f[0] = a /\ \A i \in 1..N : f[i] = step[i][f[i - 1]]
  BY <1>5 DEF Fold
<1>7. IsFold(f, N, A, a, step)
  BY <1>6 DEF IsFold
<1> QED BY <1>7

(* The fields of a selector. *)
SelectorRec == [first_strong: Nat, max_common: Nat, first_weak: Nat]

Strengths == Bindings \cup {"Undefined"}

(* Considered is the end of a fold over the symbols. *)
LEMMA ConsideredFold ==
  ASSUME sym \in Programs, NEW C \in SUBSET Symbols, NEW strength \in [C -> Strengths]
  PROVE  \E f \in [0..Len(sym) -> SelectorRec] :
           /\ f[0] = NoCandidate
           /\ \A i \in 1..Len(sym) :
                f[i] = IF i \in C THEN Consider(f[i - 1], i, strength[i]) ELSE f[i - 1]
           /\ Considered(C, strength) = f[Len(sym)]
<1> DEFINE step == [i \in 1..Len(sym) |-> [x \in SelectorRec |->
                      IF i \in C THEN Consider(x, i, strength[i]) ELSE x]]
           Is(f) == f = [i \in 0..Len(sym) |->
                      IF i = 0 THEN NoCandidate
                      ELSE IF i \in C THEN Consider(f[i - 1], i, strength[i]) ELSE f[i - 1]]
<1>1. Len(sym) \in Nat /\ Symbols = 1..Len(sym)
  BY ResolutionAssumption DEF Symbols
<1>2. NoCandidate \in SelectorRec
  BY DEF NoCandidate, SelectorRec, Undefined
<1>3. ASSUME NEW x \in SelectorRec, NEW i \in Nat, NEW t \in Strengths
      PROVE  Consider(x, i, t) \in SelectorRec
  BY <1>3 DEF Consider, SelectorRec
<1>4. step \in Steps(Len(sym), SelectorRec)
  BY <1>1, <1>3 DEF Steps
<1>5. \A i \in 1..Len(sym) : \A x \in SelectorRec :
        step[i][x] = IF i \in C THEN Consider(x, i, strength[i]) ELSE x
  OBVIOUS
<1> HIDE DEF step
<1>6. PICK f \in [0..Len(sym) -> SelectorRec] :
         f[0] = NoCandidate /\ \A i \in 1..Len(sym) : f[i] = step[i][f[i - 1]]
  <2>1. Len(sym) \in Nat
    BY <1>1
  <2>2. \E f : IsFold(f, Len(sym), SelectorRec, NoCandidate, step)
    BY <2>1, <1>2, <1>4, FoldExists
  <2> QED BY <2>2 DEF IsFold
<1>7. \A i \in 1..Len(sym) :
        f[i] = IF i \in C THEN Consider(f[i - 1], i, strength[i]) ELSE f[i - 1]
  BY <1>1, <1>5, <1>6, SMTT(30)
<1>8. \E g : Is(g)
  <2>1. Is(f)
    BY <1>1, <1>6, <1>7
  <2> QED BY <2>1
<1> DEFINE g == CHOOSE h : Is(h)
<1>9. Is(g)
  BY <1>8
<1>10. Considered(C, strength) = g[Len(sym)]
  BY DEF Considered
<1> HIDE DEF g
<1>11. g[0] = NoCandidate /\ \A i \in 1..Len(sym) :
         g[i] = IF i \in C THEN Consider(g[i - 1], i, strength[i]) ELSE g[i - 1]
  BY <1>1, <1>9
<1> DEFINE P == {k \in Nat : k <= Len(sym) => g[k] = f[k]}
<1>12. 0 \in P
  BY <1>6, <1>11
<1>13. ASSUME NEW k \in P PROVE k + 1 \in P
  <2> SUFFICES ASSUME k + 1 <= Len(sym) PROVE g[k + 1] = f[k + 1]
    OBVIOUS
  <2>1. k + 1 \in 1..Len(sym) /\ (k + 1) - 1 = k /\ g[k] = f[k]
    BY <1>1
  <2> QED BY <2>1, <1>7, <1>11
<1>14. P = Nat
  <2>1. P \in SUBSET Nat
    OBVIOUS
  <2> HIDE DEF P
  <2> QED BY <2>1, <1>12, <1>13, NatInductionSet
<1>15. g[Len(sym)] = f[Len(sym)]
  BY <1>1, <1>14
<1> QED BY <1>6, <1>7, <1>10, <1>15

(* What the assumption says of a program. *)
LEMMA ProgramFacts ==
  ASSUME sym \in Programs
  PROVE  /\ Len(sym) \in Nat /\ Symbols = 1..Len(sym)
         /\ \A s \in Symbols :
              /\ sym[s].file \in Files /\ sym[s].names \in SUBSET Names
              /\ sym[s].def \in BOOLEAN /\ sym[s].binding \in Bindings
              /\ sym[s].size \in Nat /\ sym[s].vis \in Default..Hidden
              /\ sym[s].comdat \in BOOLEAN /\ sym[s].readable \in BOOLEAN
              /\ ~sym[s].def => \E n \in Names : sym[s].names = {n}
              /\ sym[s].file \in Scripts => sym[s].readable
         /\ \A s, t \in Symbols : \A u \in s..t :
              sym[s].file = sym[t].file => sym[u].file = sym[s].file
<1>1. sym \in Seq(SymbolInfo)
  BY ResolutionAssumption
<1>2. Len(sym) \in Nat /\ Symbols = 1..Len(sym) /\ \A s \in Symbols : sym[s] \in SymbolInfo
  BY <1>1 DEF Symbols
<1>3. \A s \in Symbols :
         /\ sym[s].file \in Files /\ sym[s].names \in SUBSET Names
         /\ sym[s].def \in BOOLEAN /\ sym[s].binding \in Bindings
         /\ sym[s].size \in Nat /\ sym[s].vis \in Default..Hidden
         /\ sym[s].comdat \in BOOLEAN /\ sym[s].readable \in BOOLEAN
  BY <1>2 DEF SymbolInfo
<1>4. /\ \A s \in Symbols : ~sym[s].def => \E n \in Names : sym[s].names = {n}
      /\ \A s \in Symbols : sym[s].file \in Scripts => sym[s].readable
      /\ \A s, t \in Symbols : \A u \in s..t :
            sym[s].file = sym[t].file => sym[u].file = sym[s].file
  BY ResolutionAssumption DEF Symbols
<1> QED BY <1>2, <1>3, <1>4

(* The first of the candidates S, and the first of the largest, or         *)
(* Undefined when there is none.                                           *)
IsFirst(x, S) == IF S = {} THEN x = Undefined ELSE x \in S /\ \A s \in S : x <= s
IsFirstLargest(x, S) ==
  IF S = {} THEN x = Undefined
  ELSE /\ x \in S
       /\ \A s \in S : /\ sym[s].size <= sym[x].size
                       /\ sym[s].size = sym[x].size => x <= s

(* SymbolPrioritySelector, whatever the candidates: the fold that the code *)
(* computes finds the first strong, the first largest common and the first *)
(* weak one.                                                               *)
LEMMA ConsideredIs ==
  ASSUME sym \in Programs, NEW C \in SUBSET Symbols, NEW strength \in [C -> Strengths]
  PROVE  LET sel == Considered(C, strength) IN
         /\ sel \in SelectorRec
         /\ IsFirst(sel.first_strong, {s \in C : strength[s] = "Strong"})
         /\ IsFirstLargest(sel.max_common, {s \in C : strength[s] = "Common"})
         /\ IsFirst(sel.first_weak, {s \in C : strength[s] \in {"Weak", "GnuUnique"}})
<1>1. /\ Len(sym) \in Nat /\ Symbols = 1..Len(sym) /\ Undefined = 0
      /\ \A s \in Symbols : sym[s].size \in Nat
  BY ProgramFacts DEF Undefined
<1>2. PICK f \in [0..Len(sym) -> SelectorRec] :
           /\ f[0] = NoCandidate
           /\ \A i \in 1..Len(sym) :
                f[i] = IF i \in C THEN Consider(f[i - 1], i, strength[i]) ELSE f[i - 1]
           /\ Considered(C, strength) = f[Len(sym)]
  BY ConsideredFold
<1> DEFINE Strong(k) == {s \in C : s <= k /\ strength[s] = "Strong"}
           Common(k) == {s \in C : s <= k /\ strength[s] = "Common"}
           Weak(k) == {s \in C : s <= k /\ strength[s] \in {"Weak", "GnuUnique"}}
           Good(k) == /\ IsFirst(f[k].first_strong, Strong(k))
                      /\ IsFirstLargest(f[k].max_common, Common(k))
                      /\ IsFirst(f[k].first_weak, Weak(k))
           P == {k \in Nat : k <= Len(sym) => Good(k)}
<1>3. 0 \in P
  <2>0. \A s \in C : ~(s <= 0)
    BY <1>1
  <2>1. Strong(0) = {} /\ Common(0) = {} /\ Weak(0) = {}
    BY <2>0
  <2>2. f[0].first_strong = 0 /\ f[0].max_common = 0 /\ f[0].first_weak = 0
    BY <1>2 DEF NoCandidate, Undefined
  <2> QED BY <1>1, <2>1, <2>2 DEF IsFirst, IsFirstLargest
<1>4. ASSUME NEW k \in P PROVE k + 1 \in P
  <2> SUFFICES ASSUME k + 1 <= Len(sym) PROVE Good(k + 1)
    OBVIOUS
  <2> DEFINE i == k + 1
             x == f[k]
             y == f[k + 1]
  <2>1. i \in 1..Len(sym) /\ i - 1 = k /\ k \in 0..Len(sym) /\ i \in Symbols /\ i # 0
    BY <1>1
  <2>2. Good(k)
    BY <1>1
  <2>3. y = IF i \in C THEN Consider(x, i, strength[i]) ELSE x
    BY <1>2, <2>1
  <2>4. x \in SelectorRec
    BY <1>2, <2>1
  <2>5. \A s \in C : s \in Nat /\ s # 0 /\ s \in Symbols /\ (s <= i <=> (s <= k \/ s = i))
    BY <1>1
  <2> HIDE DEF x, y, i
  <2>6. IsFirst(y.first_strong, Strong(k + 1))
    <3>1. IsFirst(x.first_strong, Strong(k))
      BY <2>2 DEF x
    <3>2. \A s : s \in Strong(k + 1) <=> (s \in Strong(k) \/ (s = i /\ i \in C /\ strength[i] = "Strong"))
      BY <2>5 DEF i
    <3>3. \A s \in Strong(k) : s \in Nat /\ s # 0 /\ s <= i
      BY <2>5
    <3>4. y.first_strong = IF i \in C /\ strength[i] = "Strong" /\ x.first_strong = Undefined
                           THEN i ELSE x.first_strong
      BY <2>3, <2>4 DEF Consider, SelectorRec
    <3> HIDE DEF Strong
    <3> QED BY <3>1, <3>2, <3>3, <3>4, <1>1, <2>1 DEF IsFirst
  <2>7. IsFirst(y.first_weak, Weak(k + 1))
    <3>1. IsFirst(x.first_weak, Weak(k))
      BY <2>2 DEF x
    <3>2. \A s : s \in Weak(k + 1) <=>
            (s \in Weak(k) \/ (s = i /\ i \in C /\ strength[i] \in {"Weak", "GnuUnique"}))
      BY <2>5 DEF i
    <3>3. \A s \in Weak(k) : s \in Nat /\ s # 0 /\ s <= i
      BY <2>5
    <3>4. y.first_weak = IF i \in C /\ strength[i] \in {"Weak", "GnuUnique"} /\ x.first_weak = Undefined
                         THEN i ELSE x.first_weak
      BY <2>3, <2>4 DEF Consider, SelectorRec
    <3> HIDE DEF Weak
    <3> QED BY <3>1, <3>2, <3>3, <3>4, <1>1, <2>1 DEF IsFirst
  <2>8. IsFirstLargest(y.max_common, Common(k + 1))
    <3>1. IsFirstLargest(x.max_common, Common(k))
      BY <2>2 DEF x
    <3>2. \A s : s \in Common(k + 1) <=> (s \in Common(k) \/ (s = i /\ i \in C /\ strength[i] = "Common"))
      BY <2>5 DEF i
    <3>3. \A s \in Common(k) : s \in Nat /\ s # 0 /\ s < i /\ s \in Symbols
      BY <2>5 DEF i
    <3>4. y.max_common = IF /\ i \in C /\ strength[i] = "Common"
                            /\ x.max_common = Undefined \/ sym[i].size > sym[x.max_common].size
                         THEN i ELSE x.max_common
      BY <2>3, <2>4 DEF Consider, SelectorRec
    <3> HIDE DEF Common
    <3> QED BY <3>1, <3>2, <3>3, <3>4, <1>1, <2>1, SMTT(30) DEF IsFirstLargest
  <2> QED BY <2>6, <2>7, <2>8 DEF y
<1>5. P = Nat
  <2>1. P \in SUBSET Nat
    OBVIOUS
  <2> HIDE DEF P
  <2> QED BY <2>1, <1>3, <1>4, NatInductionSet
<1>6. Good(Len(sym))
  <2> HIDE DEF Good
  <2>1. Len(sym) \in P
    BY <1>1, <1>5
  <2> QED BY <1>1, <2>1
<1>7. /\ Strong(Len(sym)) = {s \in C : strength[s] = "Strong"}
      /\ Common(Len(sym)) = {s \in C : strength[s] = "Common"}
      /\ Weak(Len(sym)) = {s \in C : strength[s] \in {"Weak", "GnuUnique"}}
  BY <1>1
<1> HIDE DEF Strong, Common, Weak
<1>8. f[Len(sym)] \in SelectorRec
  BY <1>1, <1>2
<1> QED BY <1>2, <1>6, <1>7, <1>8

-----------------------------------------------------------------------------
(* Lookups and work items.                                                 *)

(* What a name leads to is nothing or one of its definitions. *)
LEMMA LookUpFacts ==
  ASSUME sym \in Programs, NEW n
  PROVE  /\ DefinitionsOf(n) \subseteq Symbols /\ DefinitionsOf(n) \subseteq Nat \ {0}
         /\ Undefined \notin DefinitionsOf(n)
         /\ FirstOf(n) \in DefinitionsOf(n) \cup {Undefined}
         /\ FirstOf(n) = Undefined <=> DefinitionsOf(n) = {}
         /\ \A b : Get(n, b) \in DefinitionsOf(n) \cup {Undefined}
<1>1. Len(sym) \in Nat /\ Symbols = 1..Len(sym) /\ \A s \in Symbols : sym[s].binding \in Bindings
  BY ProgramFacts
<1>2. DefinitionsOf(n) \subseteq Symbols /\ DefinitionsOf(n) \in SUBSET Nat /\ 0 \notin DefinitionsOf(n)
  BY <1>1 DEF DefinitionsOf
<1>3. Undefined \notin DefinitionsOf(n)
  BY <1>2 DEF Undefined
<1>4. DefinitionsOf(n) # {} => First(DefinitionsOf(n)) \in DefinitionsOf(n)
  BY <1>2, FirstIsLeast
<1>5. FirstOf(n) \in DefinitionsOf(n) \cup {Undefined}
  BY <1>4 DEF FirstOf
<1>6. FirstOf(n) = Undefined <=> DefinitionsOf(n) = {}
  BY <1>3, <1>4 DEF FirstOf
<1>7. GetNonDynamic(n) \in DefinitionsOf(n) \cup {Undefined}
  <2> DEFINE C == {s \in DefinitionsOf(n) \ {FirstOf(n)} : FileOf(s) \notin Dynamic}
             strength == [s \in C |-> sym[s].binding]
             sel == Considered(C, strength)
  <2>1. C \in SUBSET Symbols /\ strength \in [C -> Strengths]
    BY <1>1, <1>2 DEF Strengths
  <2>2. C \subseteq DefinitionsOf(n)
    OBVIOUS
  <2>3. GetNonDynamic(n) = Undefined \/ GetNonDynamic(n) = Best(sel)
    BY DEF GetNonDynamic
  <2> HIDE DEF C, strength, sel
  <2>4. /\ IsFirst(sel.first_strong, {s \in C : strength[s] = "Strong"})
        /\ IsFirstLargest(sel.max_common, {s \in C : strength[s] = "Common"})
        /\ IsFirst(sel.first_weak, {s \in C : strength[s] \in {"Weak", "GnuUnique"}})
    BY <2>1, ConsideredIs DEF sel
  <2>5. /\ sel.first_strong \in C \cup {Undefined}
        /\ sel.max_common \in C \cup {Undefined}
        /\ sel.first_weak \in C \cup {Undefined}
    BY <2>4 DEF IsFirst, IsFirstLargest
  <2>6. Best(sel) \in C \cup {Undefined}
    BY <2>5 DEF Best
  <2> QED BY <2>2, <2>3, <2>6
<1>8. \A b : Get(n, b) \in DefinitionsOf(n) \cup {Undefined}
  BY <1>5, <1>7 DEF Get
<1> QED BY <1>2, <1>3, <1>5, <1>6, <1>8

(* The last symbol of a file, when it has symbols. *)
LEMMA LastSymbol ==
  ASSUME sym \in Programs, NEW f, SymbolsOf(f) # {}
  PROVE  LastSymbolOf(f) \in SymbolsOf(f) /\ \A s \in SymbolsOf(f) : s <= LastSymbolOf(f)
<1>1. Len(sym) \in Nat /\ SymbolsOf(f) \subseteq 1..Len(sym)
  BY ProgramFacts DEF SymbolsOf
<1> DEFINE S == {Len(sym) - s : s \in SymbolsOf(f)}
<1>2. S \in SUBSET Nat /\ S # {}
  BY <1>1
<1>3. PICK x \in S : \A y \in S : x <= y
  BY <1>2, LeastNumber
<1>4. PICK s \in SymbolsOf(f) : x = Len(sym) - s
  BY <1>3
<1>5. ASSUME NEW t \in SymbolsOf(f) PROVE t <= s
  <2>1. Len(sym) - t \in S
    OBVIOUS
  <2>2. x <= Len(sym) - t
    BY <1>3, <2>1
  <2>3. s \in Nat /\ t \in Nat
    BY <1>1
  <2> QED BY <1>1, <1>4, <2>2, <2>3
<1> QED BY <1>4, <1>5 DEF LastSymbolOf

(* The work items of a file cover its symbols, without overlap. *)
LEMMA WorkItemFacts ==
  ASSUME sym \in Programs, NEW f \in Files
  PROVE  /\ \A w \in WorkItems(f) :
              /\ w \in Task /\ w.file = f /\ w.ask = NoFile /\ w.pos <= w.last
              /\ \A s \in w.pos..w.last : s \in Symbols /\ FileOf(s) = f
         /\ \A w, v \in WorkItems(f) :
              w # v => w.last # v.last /\ (w.last < v.pos \/ v.last < w.pos)
         /\ \A s \in SymbolsOf(f) : \E w \in WorkItems(f) : w.pos <= s /\ s <= w.last
<1>1. CASE SymbolsOf(f) = {}
  BY <1>1 DEF WorkItems, ChunkStarts
<1>2. CASE SymbolsOf(f) # {}
  <2> DEFINE F == FirstSymbolOf(f)
             L == LastSymbolOf(f)
             c == ChunkSize(f)
             N == Len(sym)
             Start(p) == p \in SymbolsOf(f) /\ \E k \in 0..N : p = F + k * c
             last(p) == IF p + c <= L THEN p + c - 1 ELSE L
  <2>1. N \in Nat /\ Symbols = 1..N /\ SymbolsOf(f) \in SUBSET Nat /\ SymbolsOf(f) \subseteq 1..N
    BY ProgramFacts DEF SymbolsOf
  <2>2. F \in SymbolsOf(f) /\ \A s \in SymbolsOf(f) : F <= s
    BY <1>2, <2>1, FirstIsLeast DEF FirstSymbolOf
  <2>3. L \in SymbolsOf(f) /\ \A s \in SymbolsOf(f) : s <= L
    BY <1>2, LastSymbol
  <2>4. \A s \in F..L : s \in SymbolsOf(f)
    <3>1. sym[F].file = f /\ sym[L].file = f /\ F \in Symbols /\ L \in Symbols
      BY <2>2, <2>3 DEF SymbolsOf, FileOf
    <3>2. \A s \in F..L : sym[s].file = f
      BY <3>1, ProgramFacts
    <3>3. \A s \in F..L : s \in Symbols
      BY <2>1, <2>2, <2>3
    <3> QED BY <3>2, <3>3 DEF SymbolsOf, FileOf
  <2>5. c \in Nat /\ c >= 1
    BY <1>2, <2>1, ResolutionAssumption DEF ChunkSize
  <2>6. WorkItems(f) = {[file |-> f, pos |-> p, ask |-> NoFile, last |-> last(p)] :
                          p \in {q \in SymbolsOf(f) : Start(q)}}
    BY DEF WorkItems, WorkItemFrom, ChunkStarts
  <2> HIDE DEF F, L, c, N
  <2>7. F \in 1..N /\ L \in 1..N /\ F <= L
    BY <2>1, <2>2, <2>3
  <2>8. ASSUME NEW p \in SymbolsOf(f) 
        PROVE  /\ p \in 1..N /\ last(p) \in p..L /\ \A s \in p..last(p) : s \in SymbolsOf(f)
    BY <2>1, <2>2, <2>3, <2>4, <2>5, <2>7
  <2>9. ASSUME NEW k \in Nat, NEW m \in Nat, k < m PROVE k * c + c <= m * c
    <3>1. m - k - 1 \in Nat /\ m = k + 1 + (m - k - 1)
      BY <2>9
    <3>2. \A d \in Nat : (k + 1 + d) * c = k * c + c + d * c /\ d * c \in Nat /\ k * c \in Nat
      BY <2>5
    <3> QED BY <3>1, <3>2, <2>5
  <2>10. ASSUME NEW p \in SymbolsOf(f), NEW q \in SymbolsOf(f), Start(p), Start(q), p < q
         PROVE  last(p) < q
    <3>1. PICK k \in 0..N, m \in 0..N : p = F + k * c /\ q = F + m * c
      BY <2>10
    <3>2. k \in Nat /\ m \in Nat /\ k * c \in Nat /\ m * c \in Nat
      BY <2>1, <2>5
    <3>3. k < m
      <4> SUFFICES ASSUME ~(k < m) PROVE FALSE
        OBVIOUS
      <4>1. CASE k = m
        BY <4>1, <3>1, <3>2, <2>7, <2>10
      <4>2. CASE m < k
        <5>1. m * c + c <= k * c
          BY <4>2, <3>2, <2>9
        <5> QED BY <5>1, <3>1, <3>2, <2>5, <2>7, <2>10
      <4> QED BY <4>1, <4>2, <3>2
    <3>4. k * c + c <= m * c
      BY <3>2, <3>3, <2>9
    <3>5. p + c <= q /\ q <= L
      BY <3>1, <3>2, <3>4, <2>3, <2>5, <2>7
    <3> QED BY <3>5, <2>1, <2>5, <2>7, <2>8
  <2>11. \A s \in SymbolsOf(f) : \E p \in SymbolsOf(f) : Start(p) /\ p <= s /\ s <= last(p)
    <3> DEFINE Covered(s) == \E p \in SymbolsOf(f) : Start(p) /\ p <= s /\ s <= last(p)
               P == {j \in Nat : F + j <= L => Covered(F + j)}
    <3>1. 0 \in P
      <4>1. 0 \in 0..N /\ F = F + 0 * c /\ F + 0 = F
        BY <2>1, <2>5, <2>7
      <4>2. Start(F)
        BY <4>1, <2>2
      <4>3. F <= F /\ F <= last(F)
        BY <2>2, <2>7, <2>8
      <4> QED BY <4>1, <4>2, <4>3, <2>2
    <3>2. ASSUME NEW j \in P PROVE j + 1 \in P
      <4> SUFFICES ASSUME F + (j + 1) <= L PROVE Covered(F + (j + 1))
        OBVIOUS
      <4>1. PICK p \in SymbolsOf(f) : Start(p) /\ p <= F + j /\ F + j <= last(p)
        BY <2>7
      <4>2. p \in Nat /\ last(p) \in Nat
        BY <2>1, <2>7, <2>8
      <4>3. CASE F + j < last(p)
        <5>1. p <= F + (j + 1) /\ F + (j + 1) <= last(p)
          BY <4>1, <4>2, <4>3, <2>7
        <5> QED BY <5>1, <4>1
      <4>4. CASE F + j = last(p)
        <5> DEFINE q == F + (j + 1)
        <5>1. q = p + c /\ q \in F..L
          BY <4>1, <4>2, <4>4, <2>5, <2>7
        <5>2. q \in SymbolsOf(f)
          BY <5>1, <2>4
        <5>3. PICK k \in 0..N : p = F + k * c
          BY <4>1
        <5>4. (k + 1) * c = k * c + c /\ k * c \in Nat /\ k <= k * c
          <6>1. k \in Nat
            BY <2>1
          <6>2. k * c + c = (k + 1) * c /\ k * c \in Nat
            BY <6>1, <2>5
          <6>3. c - 1 \in Nat /\ k * c = k + k * (c - 1) /\ k * (c - 1) \in Nat
            BY <6>1, <2>5
          <6> QED BY <6>1, <6>2, <6>3
        <5>5. q = F + (k + 1) * c /\ k + 1 \in 0..N
          BY <5>1, <5>3, <5>4, <2>1, <2>5, <2>7, <4>2
        <5>6. Start(q)
          BY <5>2, <5>5
        <5>7. q <= q /\ q <= last(q)
          BY <5>1, <5>2, <2>7, <2>8
        <5> QED BY <5>2, <5>6, <5>7
      <4> QED BY <4>1, <4>2, <4>3, <4>4, <2>7
    <3>3. P = Nat
      <4>1. P \in SUBSET Nat
        OBVIOUS
      <4> HIDE DEF P
      <4> QED BY <4>1, <3>1, <3>2, NatInductionSet
    <3>4. ASSUME NEW s \in SymbolsOf(f) PROVE Covered(s)
      <4>1. s - F \in Nat /\ F + (s - F) = s /\ s <= L
        BY <2>1, <2>2, <2>3, <2>7
      <4> HIDE DEF Covered
      <4>2. s - F \in P
        BY <4>1, <3>3
      <4> QED BY <4>1, <4>2
    <3> QED BY <3>4
  <2>12. ASSUME NEW w \in WorkItems(f)
         PROVE  /\ w \in Task /\ w.file = f /\ w.ask = NoFile /\ w.pos <= w.last
                /\ \A s \in w.pos..w.last : s \in Symbols /\ FileOf(s) = f
    <3>1. PICK p \in SymbolsOf(f) :
            w = [file |-> f, pos |-> p, ask |-> NoFile, last |-> last(p)]
      BY <2>6
    <3>2. p \in 1..N /\ last(p) \in p..L /\ \A s \in p..last(p) : s \in SymbolsOf(f)
      BY <2>8
    <3>3. p <= last(p) /\ last(p) \in Symbols /\ p \in 1..(N + 1)
      BY <3>2, <2>1, <2>7
    <3> HIDE DEF last
    <3>4. \A s \in p..last(p) : s \in Symbols /\ FileOf(s) = f
      BY <3>2 DEF SymbolsOf
    <3>5. w \in Task
      BY <3>1, <3>3 DEF Task, N
    <3> QED BY <3>1, <3>3, <3>4, <3>5
  <2>13. ASSUME NEW w \in WorkItems(f), NEW v \in WorkItems(f), w # v
         PROVE  w.last # v.last /\ (w.last < v.pos \/ v.last < w.pos)
    <3>1. PICK p \in SymbolsOf(f) :
            Start(p) /\ w = [file |-> f, pos |-> p, ask |-> NoFile, last |-> last(p)]
      BY <2>6
    <3>2. PICK q \in SymbolsOf(f) :
            Start(q) /\ v = [file |-> f, pos |-> q, ask |-> NoFile, last |-> last(q)]
      BY <2>6
    <3>3. p # q
      BY <3>1, <3>2, <2>13
    <3>4. p \in Nat /\ q \in Nat /\ last(p) \in Nat /\ last(q) \in Nat /\ p <= last(p) /\ q <= last(q)
      BY <2>1, <2>7, <2>8
    <3>5. (p < q => last(p) < q) /\ (q < p => last(q) < p)
      BY <3>1, <3>2, <2>10
    <3> HIDE DEF last, Start
    <3> QED BY <3>1, <3>2, <3>3, <3>4, <3>5
  <2>14. ASSUME NEW s \in SymbolsOf(f)
         PROVE  \E w \in WorkItems(f) : w.pos <= s /\ s <= w.last
    <3>1. PICK p \in SymbolsOf(f) : Start(p) /\ p <= s /\ s <= last(p)
      BY <2>11
    <3> DEFINE w == [file |-> f, pos |-> p, ask |-> NoFile, last |-> last(p)]
    <3>2. w \in WorkItems(f)
      BY <3>1, <2>6
    <3>3. w.pos <= s /\ s <= w.last
      BY <3>1
    <3> QED BY <3>2, <3>3
  <2> QED BY <2>12, <2>13, <2>14
<1> QED BY <1>1, <1>2

(* The chunk of a symbol starts at it or before it, and in the first chunk *)
(* of a shared object with the object's first symbol.                      *)
LEMMA ChunkFacts ==
  ASSUME sym \in Programs, NEW s \in Symbols, FileOf(s) \in Dynamic
  PROVE  /\ FirstSymbolOf(FileOf(s)) \in Nat /\ ChunkStart(s) \in Nat
         /\ 1 <= FirstSymbolOf(FileOf(s)) /\ FirstSymbolOf(FileOf(s)) <= ChunkStart(s)
         /\ ChunkStart(s) <= s
         /\ ~Misread(s) => ChunkStart(s) = FirstSymbolOf(FileOf(s))
<1> DEFINE f == FileOf(s)
           F == FirstSymbolOf(f)
           c == ChunkStart(s)
<1>1. /\ Len(sym) \in Nat /\ Symbols = 1..Len(sym) /\ s \in SymbolsOf(f) /\ s \in Nat
      /\ SymbolsOf(f) \in SUBSET Nat /\ SymbolsOf(f) \subseteq 1..Len(sym) /\ f \in Files
  BY ProgramFacts DEF SymbolsOf, FileOf
<1>2. F \in SymbolsOf(f) /\ \A t \in SymbolsOf(f) : F <= t
  BY <1>1, FirstIsLeast DEF FirstSymbolOf
<1>3. \E t \in ChunkStarts(f) : t <= s /\ s <= WorkItemFrom(f, t).last
  <2>1. PICK w \in WorkItems(f) : w.pos <= s /\ s <= w.last
    BY <1>1, WorkItemFacts
  <2>2. PICK t \in ChunkStarts(f) : w = WorkItemFrom(f, t)
    BY DEF WorkItems
  <2>3. w.pos = t
    BY <2>2 DEF WorkItemFrom
  <2> QED BY <2>1, <2>2, <2>3
<1>4. c \in ChunkStarts(f) /\ c <= s /\ s <= WorkItemFrom(f, c).last
  BY <1>3 DEF ChunkStart
<1>5. c \in SymbolsOf(f)
  BY <1>4 DEF ChunkStarts
<1>6. ASSUME ~Misread(s) PROVE c = F
  <2>1. s < F + MaxSymbolsPerWorkItem /\ MaxSymbolsPerWorkItem \in Nat
    BY <1>1, <1>2, <1>6, ResolutionAssumption DEF Misread
  <2>2. ChunkSize(f) = MaxSymbolsPerWorkItem
    BY ResolutionAssumption DEF ChunkSize
  <2>3. F \in ChunkStarts(f)
    <3>1. 0 \in 0..Len(sym) /\ F = F + 0 * ChunkSize(f)
      BY <1>1, <1>2, <2>1, <2>2
    <3> QED BY <1>2, <3>1 DEF ChunkStarts
  <2>4. LastSymbolOf(f) \in Nat /\ s <= LastSymbolOf(f)
    BY <1>1, LastSymbol
  <2>5. s <= WorkItemFrom(f, F).last /\ WorkItemFrom(f, F).last \in Nat
    <3>1. WorkItemFrom(f, F).last = IF F + ChunkSize(f) <= LastSymbolOf(f)
                                    THEN F + ChunkSize(f) - 1 ELSE LastSymbolOf(f)
      BY DEF WorkItemFrom
    <3>2. F \in Nat /\ F <= s
      BY <1>1, <1>2
    <3> HIDE DEF F, f
    <3> QED BY <1>1, <2>1, <2>2, <2>4, <3>1, <3>2
  <2> DEFINE v == WorkItemFrom(f, F)
             w == WorkItemFrom(f, c)
  <2>6. v \in WorkItems(f) /\ w \in WorkItems(f) /\ v.pos = F /\ w.pos = c
    <3>1. v.pos = F /\ w.pos = c
      BY DEF WorkItemFrom
    <3> QED BY <1>4, <2>3, <3>1 DEF WorkItems
  <2>7. v.last \in Nat /\ w.last \in Nat
    <3>1. v \in Task /\ w \in Task
      BY <1>1, <2>6, WorkItemFacts
    <3> QED BY <1>1, <3>1 DEF Task
  <2> HIDE DEF v, w
  <2>8. v # w => v.last < w.pos \/ w.last < v.pos
    BY <1>1, <2>6, WorkItemFacts
  <2>9. F <= s /\ F \in Nat /\ c \in Nat /\ c <= s /\ s <= w.last /\ s <= v.last
    BY <1>1, <1>2, <1>4, <1>5, <2>5 DEF v, w
  <2> HIDE DEF F, c
  <2>10. v = w
    BY <1>1, <2>6, <2>7, <2>8, <2>9
  <2> QED BY <2>6, <2>10
<1>7. F \in Nat /\ c \in Nat /\ 1 <= F /\ F <= c
  BY <1>1, <1>2, <1>5
<1> QED BY <1>4, <1>6, <1>7

(* A reference is looked up under one of the names, which is its own one   *)
(* unless the reference is misread.                                        *)
LEMMA NameFacts ==
  ASSUME sym \in Programs, NEW s \in Symbols, ~sym[s].def
  PROVE  NameOf(s) \in Names /\ NeededName(s) = NameOf(s)
<1>1. Len(sym) \in Nat /\ Symbols = 1..Len(sym)
  BY ProgramFacts
<1>2. ASSUME NEW t \in Symbols, ~sym[t].def PROVE OwnName(t) \in Names
  <2>1. PICK n \in Names : sym[t].names = {n}
    BY <1>2, ProgramFacts
  <2> QED BY <2>1 DEF OwnName
<1>3. ASSUME NEW t \in Symbols, ~sym[t].def
      PROVE  /\ OwnName(t)[1] \in BaseNames /\ OwnName(t)[2] \in Versions \cup {NoVersion}
             /\ OwnName(t) = <<OwnName(t)[1], OwnName(t)[2]>>
  BY <1>2, <1>3 DEF Names
<1>4. CASE FileOf(s) \notin Dynamic
  BY <1>2, <1>4 DEF NameOf, NeededName, Misread
<1>5. CASE FileOf(s) \in Dynamic
  <2> DEFINE i == FirstSymbolOf(FileOf(s)) + (s - ChunkStart(s))
  <2>1. i \in Symbols
    BY <1>1, <1>5, ChunkFacts
  <2>2. VersionName(i) \in Versions \cup {NoVersion}
    BY <1>3, <2>1 DEF VersionName
  <2>3. NameOf(s) = <<OwnName(s)[1], VersionName(i)>>
    BY <1>5 DEF NameOf
  <2>4. NameOf(s) \in Names
    BY <1>3, <2>2, <2>3 DEF Names
  <2>5. ASSUME ~Misread(s) PROVE NameOf(s) = OwnName(s)
    <3>1. i = s
      BY <1>1, <1>5, <2>5, ChunkFacts
    <3>2. VersionName(i) = OwnName(s)[2]
      BY <3>1 DEF VersionName
    <3> QED BY <1>3, <2>3, <3>2
  <2> QED BY <2>4, <2>5 DEF NeededName
<1> QED BY <1>4, <1>5

-----------------------------------------------------------------------------
(* The inductive invariant.                                                *)

(* The type of the entries of the queue of undefined references. *)
Entry == [symbol: Symbols, ignore_if_loaded: Files \cup {NoFile}]

(* The state is well typed; there is one definition and one set of flags   *)
(* per symbol, and one more for each start/stop symbol that was made.      *)
StateOK ==
  /\ sym \in Programs
  /\ phase \in Phases
  /\ untaken \subseteq Optional
  /\ loads \in [Files -> Nat]
  /\ tasks \subseteq Task
  /\ definitions \in Seq(Nat) /\ flags \in Seq(SUBSET FlagSet)
  /\ Len(definitions) = Len(flags) /\ Len(sym) <= Len(definitions)
  /\ phase \notin {"canonicalise", "done"} => Len(definitions) = Len(sym)
  /\ \A s \in DOMAIN definitions : definitions[s] <= Len(definitions)
  /\ undefined \in Seq(Entry)
  /\ errors \in 0..1
  /\ duplicates \subseteq Names /\ selecting \subseteq Names
  /\ stores \in [Names -> SUBSET (Symbols \X Symbols)]
  /\ canonical \in [Names -> Nat] /\ \A n \in Names : canonical[n] <= Len(definitions)
  /\ \A n \in selecting : Cardinality(DefinitionsOf(n)) > 1

(* A cell is empty exactly when its file was loaded, once. *)
CellsInv ==
  IF phase = "setup"
  THEN untaken = {} /\ tasks = {} /\ errors = 0 /\ \A f \in Files : loads[f] = 0
  ELSE \A f \in Files : IF f \in untaken THEN loads[f] = 0 ELSE loads[f] = 1

(* A task walks over symbols of its own file, which is loaded, and asks    *)
(* for a file that its file needs; no two tasks share a symbol.            *)
TasksInv ==
  /\ tasks # {} => phase = "resolve"
  /\ \A t \in tasks :
       /\ loads[t.file] = 1 /\ t.pos <= t.last + 1
       /\ \A s \in t.pos..t.last : s \in Symbols /\ FileOf(s) = t.file
       /\ IF t.ask = NoFile THEN t.pos <= t.last ELSE t.ask \in Pulls[t.file]
  /\ \A t, u \in tasks : t # u /\ t.file = u.file =>
       t.last # u.last /\ (t.last < u.pos \/ u.last < t.pos)

(* The symbols that no task has resolved so far. *)
Unresolved(s) ==
  phase = "setup" \/ FileOf(s) \in untaken \/ \E t \in tasks : t.pos <= s /\ s <= t.last

(* They have the definitions they were given at first, and definitions     *)
(* keep theirs until one of several is selected.                           *)
InitialInv ==
  phase \in {"setup", "resolve"} =>
    \A s \in Symbols : Unresolved(s) \/ sym[s].def => definitions[s] = InitialDefinition(s)

(* The files a symbol requests are loaded or about to be, and it could be  *)
(* read.                                                                   *)
Settled(s) ==
  /\ \A f \in RequestedBy(s) : f \notin untaken \/ \E t \in tasks : t.ask = f
  /\ sym[s].readable \/ sym[s].def \/ Ignored(s)

(* Unless a task failed, the symbols of loaded files are settled when they *)
(* are resolved.                                                           *)
SettledInv ==
  /\ phase # "setup" /\ errors = 0 =>
       \A s \in Symbols : Unresolved(s) \/ Settled(s)
  /\ phase \notin {"setup", "resolve", "failed"} => errors = 0

(* A reference is queued at most once, when it is resolved. *)
Queued(s) == \E i \in DOMAIN undefined : undefined[i].symbol = s
QueueInv ==
  /\ \A i, j \in DOMAIN undefined : i # j => undefined[i].symbol # undefined[j].symbol
  /\ \A s \in Symbols : Queued(s) =>
       ~Unresolved(s) /\ ~sym[s].def /\ ~Ignored(s) /\ FileOf(s) \notin Scripts

ResolutionInv == StateOK /\ CellsInv /\ TasksInv /\ InitialInv /\ SettledInv /\ QueueInv

-----------------------------------------------------------------------------
(* Steps.                                                                  *)

(* The symbol tables never change, nor what depends on them alone. *)
LEMMA SameProgram ==
  ASSUME sym' = sym
  PROVE  /\ Symbols' = Symbols /\ Pulls' = Pulls /\ Task' = Task
         /\ \A s : /\ FileOf(s)' = FileOf(s) /\ Ignored(s)' = Ignored(s) /\ NameOf(s)' = NameOf(s)
                   /\ InitialDefinition(s)' = InitialDefinition(s)
                   /\ RequestedBy(s)' = RequestedBy(s)
         /\ \A n : DefinitionsOf(n)' = DefinitionsOf(n) /\ FirstOf(n)' = FirstOf(n)
         /\ \A n, b : Get(n, b)' = Get(n, b)
<1>1. Symbols' = Symbols
  BY DEF Symbols
<1>2. \A s : FileOf(s)' = FileOf(s)
  BY DEF FileOf
<1>3. \A s : Ignored(s)' = Ignored(s) /\ NameOf(s)' = NameOf(s)
  BY DEF FileOf, Ignored, NameOf, OwnName, VersionName, FirstSymbolOf, First, ChunkStart, ChunkStarts,
         WorkItemFrom, ChunkSize, LastSymbolOf, SymbolsOf, Symbols
<1>a. \A s : NeededName(s)' = NeededName(s)
  BY <1>3 DEF NeededName, Misread, OwnName, FileOf, FirstSymbolOf, First, SymbolsOf, Symbols
<1>4. \A s : InitialDefinition(s)' = InitialDefinition(s)
  BY DEF InitialDefinition, FileOf, Ignored
<1>5. \A n : DefinitionsOf(n)' = DefinitionsOf(n)
  BY DEF DefinitionsOf, Symbols, Ignored, FileOf
<1>6. \A n : FirstOf(n)' = FirstOf(n)
  BY <1>5 DEF FirstOf
<1>7. \A n, b : Get(n, b)' = Get(n, b)
  BY DEF Get, GetNonDynamic, Considered, Consider, Best, FirstOf, First, DefinitionsOf, Symbols,
         Ignored, FileOf, NoCandidate
<1>8. \A s : RequestedBy(s)' = RequestedBy(s)
  BY <1>2, <1>3, <1>6, <1>7, <1>a, SMTT(30) DEF RequestedBy, Requests, IsWeak
<1>9. Pulls' = Pulls
  <2>1. \A f : SymbolsOf(f)' = SymbolsOf(f)
    BY DEF SymbolsOf, Symbols, FileOf
  <2> QED BY <1>8, <2>1 DEF Pulls
<1>10. Task' = Task
  BY DEF Task, Symbols
<1> QED BY <1>1, <1>2, <1>3, <1>4, <1>5, <1>6, <1>7, <1>8, <1>9, <1>10

(* References have one name, and request files. *)
LEMMA ReferenceFacts ==
  ASSUME sym \in Programs, NEW s \in Symbols
  PROVE  /\ FileOf(s) \in Files
         /\ ~sym[s].def => NameOf(s) \in Names /\ NeededName(s) = NameOf(s)
         /\ RequestedBy(s) \subseteq Files
         /\ \A f \in RequestedBy(s) : FileOf(s) \in Files /\ f \in Pulls[FileOf(s)]
<1>1. FileOf(s) \in Files /\ \A t \in Symbols : FileOf(t) \in Files
  BY ProgramFacts DEF FileOf
<1>2. ~sym[s].def => NameOf(s) \in Names /\ NeededName(s) = NameOf(s)
  BY NameFacts
<1>3. RequestedBy(s) \subseteq Files
  <2> DEFINE id == IF FileOf(s) \in Scripts THEN FirstOf(NeededName(s))
                   ELSE Get(NeededName(s), sym[s].vis = Default)
  <2>1. id \in DefinitionsOf(NeededName(s)) \cup {Undefined}
    BY LookUpFacts
  <2>2. DefinitionsOf(NeededName(s)) \subseteq Symbols
    BY LookUpFacts
  <2>3. id # Undefined => FileOf(id) \in Files
    BY <1>1, <2>1, <2>2
  <2>4. RequestedBy(s) \subseteq IF id # Undefined THEN {FileOf(id)} ELSE {}
    BY DEF RequestedBy
  <2> QED BY <2>3, <2>4
<1>4. \A f \in RequestedBy(s) : f \in Pulls[FileOf(s)]
  BY <1>1 DEF Pulls, SymbolsOf
<1> QED BY <1>1, <1>2, <1>3, <1>4

(* The task t is done with its symbol: what becomes of the tasks. *)
LEMMA AdvanceStep ==
  ASSUME sym \in Programs, untaken \subseteq Optional, tasks \subseteq Task, CellsInv, TasksInv,
         NEW t \in Ready, NEW f, f = NoFile \/ (f \in Files /\ f \in Pulls[t.file]),
         tasks' = Advance(t, f), UNCHANGED <<sym, phase, untaken, loads, errors>>
  PROVE  /\ tasks' \subseteq Task' /\ CellsInv' /\ TasksInv'
         /\ t.pos \in Symbols /\ FileOf(t.pos) = t.file /\ phase = "resolve" /\ Unresolved(t.pos)
         /\ \A s \in Symbols : Unresolved(s)' <=> (Unresolved(s) /\ s # t.pos)
         /\ \A u \in tasks : u.ask # NoFile => u \in tasks'
         /\ f # NoFile => \E u \in tasks' : u.ask = f
<1> DEFINE n == [t EXCEPT !.pos = @ + 1, !.ask = f]
<1>1. t \in tasks /\ t.ask = NoFile /\ t \in Task
  BY DEF Ready
<1>2. /\ Len(sym) \in Nat /\ Symbols = 1..Len(sym) /\ Task' = Task /\ Symbols' = Symbols
      /\ Pulls' = Pulls /\ \A s : FileOf(s)' = FileOf(s)
  BY ProgramFacts, SameProgram
<1>3. \A u \in tasks : /\ u.file \in Files /\ u.pos \in 1..(Len(sym) + 1) /\ u.last \in Symbols
                       /\ u.ask \in Files \cup {NoFile}
  BY DEF Task
<1>4. /\ phase = "resolve" /\ t.pos <= t.last /\ loads[t.file] = 1
      /\ \A s \in t.pos..t.last : s \in Symbols /\ FileOf(s) = t.file
  BY <1>1 DEF TasksInv
<1>5. t.pos \in Nat /\ t.last \in Nat /\ t.pos \in Symbols /\ FileOf(t.pos) = t.file
  BY <1>1, <1>2, <1>3, <1>4
<1>6. /\ n \in Task /\ n.file = t.file /\ n.pos = t.pos + 1 /\ n.last = t.last /\ n.ask = f
  <2>1. t.pos + 1 \in 1..(Len(sym) + 1)
    BY <1>1, <1>2, <1>3, <1>4, <1>5
  <2>2. f \in Files \cup {NoFile}
    OBVIOUS
  <2> QED BY <1>1, <2>1, <2>2 DEF Task
<1>7. tasks' = (tasks \ {t}) \cup (IF f = NoFile /\ t.pos >= t.last THEN {} ELSE {n})
  BY DEF Advance
<1> HIDE DEF n
<1>8. \A u \in tasks : u # t /\ u.file = t.file => u.last # t.last /\ (t.last < u.pos \/ u.last < t.pos)
  BY <1>1 DEF TasksInv
<1>9. tasks' \subseteq Task'
  BY <1>2, <1>6, <1>7
<1>10. CellsInv'
  BY <1>4 DEF CellsInv
<1>11. TasksInv'
  <2>1. tasks' # {} => phase' = "resolve"
    BY <1>4
  <2>2. ASSUME NEW u \in tasks'
        PROVE  /\ loads'[u.file] = 1 /\ u.pos <= u.last + 1
               /\ \A s \in u.pos..u.last : s \in Symbols' /\ FileOf(s)' = u.file
               /\ IF u.ask = NoFile THEN u.pos <= u.last ELSE u.ask \in Pulls'[u.file]
    <3>1. CASE u \in tasks
      BY <3>1, <1>2 DEF TasksInv
    <3>2. CASE u = n /\ ~(f = NoFile /\ t.pos >= t.last)
      <4>1. \A s \in n.pos..n.last : s \in t.pos..t.last
        BY <1>5, <1>6
      <4>2. n.pos <= n.last + 1 /\ (f = NoFile => n.pos <= n.last)
        BY <1>4, <1>5, <1>6, <3>2
      <4> QED BY <3>2, <4>1, <4>2, <1>2, <1>4, <1>6
    <3> QED BY <3>1, <3>2, <1>7
  <2>3. ASSUME NEW u \in tasks', NEW v \in tasks', u # v, u.file = v.file
        PROVE  u.last # v.last /\ (u.last < v.pos \/ v.last < u.pos)
    <3>1. CASE u \in tasks /\ v \in tasks
      BY <3>1, <2>3 DEF TasksInv
    <3>2. CASE u = n /\ v \in tasks \ {t}
      BY <3>2, <2>3, <1>2, <1>3, <1>5, <1>6, <1>8
    <3>3. CASE v = n /\ u \in tasks \ {t}
      BY <3>3, <2>3, <1>2, <1>3, <1>5, <1>6, <1>8
    <3> QED BY <3>1, <3>2, <3>3, <2>3, <1>7
  <2> QED BY <2>1, <2>2, <2>3 DEF TasksInv
<1>12. Unresolved(t.pos)
  BY <1>1, <1>4, <1>5 DEF Unresolved
<1>13. ASSUME NEW s \in Symbols PROVE Unresolved(s)' <=> (Unresolved(s) /\ s # t.pos)
  <2>1. s \in Nat
    BY <1>2
  <2>2. CASE s = t.pos
    <3>1. FileOf(s) \notin untaken
      BY <2>2, <1>3, <1>1, <1>4, <1>5 DEF CellsInv
    <3>2. ASSUME NEW u \in tasks', u.pos <= s, s <= u.last PROVE FALSE
      <4>1. u # n
        BY <2>2, <3>2, <1>5, <1>6
      <4>2. u \in tasks \ {t}
        BY <4>1, <1>7
      <4>3. s \in u.pos..u.last /\ u.file = t.file
        BY <4>2, <3>2, <2>1, <2>2, <1>2, <1>3, <1>5 DEF TasksInv
      <4> QED BY <4>2, <4>3, <3>2, <2>1, <2>2, <1>2, <1>3, <1>5, <1>4, <1>8
    <3> QED BY <2>2, <3>1, <3>2, <1>2, <1>4 DEF Unresolved
  <2>3. CASE s # t.pos
    <3>1. (\E u \in tasks' : u.pos <= s /\ s <= u.last) <=> (\E u \in tasks : u.pos <= s /\ s <= u.last)
      BY <2>1, <2>3, <1>1, <1>5, <1>6, <1>7
    <3> QED BY <2>3, <3>1, <1>2 DEF Unresolved
  <2> QED BY <2>2, <2>3
<1>14. \A u \in tasks : u.ask # NoFile => u \in tasks'
  BY <1>1, <1>7
<1>15. f # NoFile => \E u \in tasks' : u.ask = f
  BY <1>6, <1>7
<1> QED BY <1>4, <1>5, <1>9, <1>10, <1>11, <1>12, <1>13, <1>14, <1>15

(* A symbol that a task is done with: what is common to the four actions.  *)
LEMMA ResolveStep ==
  ASSUME ResolutionInv,
         NEW t \in Ready, NEW f, f = NoFile \/ (f \in Files /\ f \in Pulls[t.file]),
         tasks' = Advance(t, f), UNCHANGED <<sym, phase, untaken, loads, errors>>,
         \A s \in Symbols : s # t.pos \/ sym[s].def => definitions'[s] = definitions[s],
         \A g \in RequestedBy(t.pos) : g \notin untaken \/ (f = g /\ g # NoFile),
         sym[t.pos].readable \/ sym[t.pos].def \/ Ignored(t.pos),
         undefined' = undefined \/
           \E g \in Files \cup {NoFile} :
             /\ undefined' = Append(undefined, [symbol |-> t.pos, ignore_if_loaded |-> g])
             /\ ~sym[t.pos].def /\ ~Ignored(t.pos) /\ FileOf(t.pos) \notin Scripts
  PROVE  /\ tasks' \subseteq Task' /\ undefined' \in Seq(Entry)'
         /\ CellsInv' /\ TasksInv' /\ InitialInv' /\ SettledInv' /\ QueueInv'
<1> USE DEF ResolutionInv
<1>1. /\ tasks' \subseteq Task' /\ CellsInv' /\ TasksInv'
      /\ t.pos \in Symbols /\ FileOf(t.pos) = t.file /\ phase = "resolve" /\ Unresolved(t.pos)
      /\ \A s \in Symbols : Unresolved(s)' <=> (Unresolved(s) /\ s # t.pos)
      /\ \A u \in tasks : u.ask # NoFile => u \in tasks'
      /\ f # NoFile => \E u \in tasks' : u.ask = f
  <2>1. sym \in Programs /\ untaken \subseteq Optional /\ tasks \subseteq Task
    BY DEF StateOK
  <2> QED BY <2>1, AdvanceStep
<1>2. /\ Symbols' = Symbols
      /\ \A s : /\ FileOf(s)' = FileOf(s) /\ Ignored(s)' = Ignored(s)
                /\ InitialDefinition(s)' = InitialDefinition(s) /\ RequestedBy(s)' = RequestedBy(s)
  BY SameProgram
<1>3. Entry' = Entry
  BY <1>2 DEF Entry
<1>4. undefined \in Seq(Entry) /\ errors \in 0..1
  BY DEF StateOK, Entry
<1>5. undefined' \in Seq(Entry)
  <2>1. CASE undefined' = undefined
    BY <2>1, <1>4
  <2>2. CASE \E g \in Files \cup {NoFile} : undefined' = Append(undefined, [symbol |-> t.pos, ignore_if_loaded |-> g])
    <3>1. PICK g \in Files \cup {NoFile} : undefined' = Append(undefined, [symbol |-> t.pos, ignore_if_loaded |-> g])
      BY <2>2
    <3>2. [symbol |-> t.pos, ignore_if_loaded |-> g] \in Entry
      BY <1>1 DEF Entry
    <3> QED BY <3>1, <3>2, <1>4
  <2> QED BY <2>1, <2>2
<1>6. InitialInv'
  BY <1>1, <1>2 DEF InitialInv
<1>7. SettledInv'
  <2>1. ASSUME errors = 0, NEW s \in Symbols PROVE Unresolved(s)' \/ Settled(s)'
    <3>1. CASE s = t.pos
      <4>1. \A g \in RequestedBy(s) : g \notin untaken \/ \E u \in tasks' : u.ask = g
        BY <3>1, <1>1
      <4> QED BY <3>1, <4>1, <1>2 DEF Settled
    <3>2. CASE s # t.pos
      <4>1. CASE Unresolved(s)
        BY <3>2, <4>1, <1>1
      <4>2. CASE Settled(s)
        <5>1. ASSUME NEW g \in RequestedBy(s) PROVE g \notin untaken \/ \E u \in tasks' : u.ask = g
          <6>1. RequestedBy(s) \subseteq Files
            BY ReferenceFacts DEF StateOK
          <6>2. g # NoFile
            BY <6>1, ResolutionAssumption
          <6> QED BY <4>2, <6>2, <1>1 DEF Settled
        <5> QED BY <4>2, <5>1, <1>2 DEF Settled
      <4> QED BY <4>1, <4>2, <2>1, <1>1 DEF SettledInv
    <3> QED BY <3>1, <3>2
  <2> QED BY <2>1, <1>1, <1>2 DEF SettledInv
<1>8. QueueInv'
  <2>1. CASE undefined' = undefined
    <3>1. \A s : Queued(s)' <=> Queued(s)
      BY <2>1 DEF Queued
    <3> QED BY <2>1, <3>1, <1>1, <1>2 DEF QueueInv
  <2>2. CASE \E g \in Files \cup {NoFile} :
             /\ undefined' = Append(undefined, [symbol |-> t.pos, ignore_if_loaded |-> g])
             /\ ~sym[t.pos].def /\ ~Ignored(t.pos) /\ FileOf(t.pos) \notin Scripts
    <3>1. PICK g \in Files \cup {NoFile} :
             /\ undefined' = Append(undefined, [symbol |-> t.pos, ignore_if_loaded |-> g])
             /\ ~sym[t.pos].def /\ ~Ignored(t.pos) /\ FileOf(t.pos) \notin Scripts
      BY <2>2
    <3> DEFINE k == Len(undefined) + 1
               e == [symbol |-> t.pos, ignore_if_loaded |-> g]
    <3>2. /\ DOMAIN undefined' = 1..k /\ DOMAIN undefined = 1..(k - 1) /\ k \in Nat \ {0}
          /\ undefined'[k] = e
          /\ \A i \in 1..(k - 1) : undefined'[i] = undefined[i]
      <4> HIDE DEF e
      <4>1. undefined' = Append(undefined, e)
        BY <3>1 DEF e
      <4> QED BY <1>4, <4>1
    <3>3. undefined'[k].symbol = t.pos
      BY <3>2
    <3> HIDE DEF k, e
    <3>4. \A i \in 1..k : i \in 1..(k - 1) \/ i = k
      BY <3>2
    <3>5. k \in 1..k /\ \A i \in 1..(k - 1) : i \in 1..k
      BY <3>2
    <3>6. \A s : Queued(s)' <=> (Queued(s) \/ s = t.pos)
      BY <3>2, <3>3, <3>4, <3>5 DEF Queued
    <3>7. \A i \in 1..(k - 1) : undefined[i].symbol # t.pos
      BY <3>2, <1>1 DEF QueueInv, Queued
    <3>8. \A i, j \in 1..(k - 1) : i # j => undefined[i].symbol # undefined[j].symbol
      BY <3>2 DEF QueueInv
    <3>9. \A i, j \in 1..k : i # j => undefined'[i].symbol # undefined'[j].symbol
      BY <3>2, <3>3, <3>4, <3>7, <3>8
    <3>10. \A s \in Symbols : Queued(s)' =>
             ~Unresolved(s)' /\ ~sym'[s].def /\ ~Ignored(s)' /\ FileOf(s)' \notin Scripts
      BY <3>1, <3>6, <1>1, <1>2 DEF QueueInv
    <3> QED BY <3>2, <3>9, <3>10, <1>2 DEF QueueInv
  <2> QED BY <2>1, <2>2
<1> QED BY <1>1, <1>3, <1>5, <1>6, <1>7, <1>8

-----------------------------------------------------------------------------
(* Queues without duplicates, and what the sort makes of them.             *)

Distinct(q) == \A i, j \in DOMAIN q : i # j => q[i].symbol # q[j].symbol

(* The sort leaves the entries and puts them in descending order. *)
LEMMA SortFacts ==
  ASSUME NEW E, NEW q \in Seq(E), \A e \in E : e.symbol \in Nat, Distinct(q)
  PROVE  /\ LastFirst(q) \in Seq(E) /\ Len(LastFirst(q)) = Len(q)
         /\ Range(LastFirst(q)) = Range(q)
         /\ \A i, j \in DOMAIN LastFirst(q) : i < j => LastFirst(q)[i].symbol > LastFirst(q)[j].symbol
<1> DEFINE R == Range(q)
           N == Len(q)
           above(u) == {v \in R : v.symbol > u.symbol}
           rank == [u \in R |-> Cardinality(above(u))]
<1>1. N \in Nat /\ DOMAIN q = 1..N /\ R \subseteq E /\ R = {q[i] : i \in 1..N}
  BY DEF Range
<1>2. \A u \in R : u.symbol \in Nat
  BY <1>1
<1>3. \A u, v \in R : u.symbol = v.symbol => u = v
  BY <1>1 DEF Distinct
<1>4. IsFiniteSet(R) /\ Cardinality(R) = N
  <2>1. IsFiniteSet(1..N) /\ Cardinality(1..N) = N
    BY <1>1, FS_Interval
  <2>2. q \in Surjection(1..N, R)
    BY <1>1 DEF Surjection
  <2>3. \A i, j \in 1..N : q[i] = q[j] => i = j
    BY <1>1 DEF Distinct
  <2>4. q \in Injection(1..N, R)
    BY <1>1, <2>2, <2>3 DEF Injection, Surjection, IsInjective
  <2>5. ExistsBijection(1..N, R)
    BY <2>2, <2>4 DEF ExistsBijection, Bijection
  <2> QED BY <2>1, <2>5, FS_Bijection
<1> HIDE DEF R, N
<1>5. ASSUME NEW u \in R
      PROVE  /\ IsFiniteSet(above(u)) /\ Cardinality(above(u)) \in 0..(N - 1)
  <2>1. above(u) \in SUBSET R /\ u \notin above(u)
    BY <1>2
  <2>2. IsFiniteSet(above(u)) /\ Cardinality(above(u)) <= N /\ Cardinality(above(u)) # N
    BY <1>4, <2>1, FS_Subset
  <2>3. Cardinality(above(u)) \in Nat
    BY <2>2, FS_CardinalityType
  <2> QED BY <1>1, <2>2, <2>3
<1>6. ASSUME NEW u \in R, NEW v \in R, u.symbol > v.symbol
      PROVE  Cardinality(above(u)) < Cardinality(above(v))
  <2>1. above(u) \in SUBSET above(v)
    BY <1>2, <1>6
  <2>2. u \in above(v) /\ u \notin above(u)
    BY <1>2, <1>6
  <2>3. /\ Cardinality(above(u)) <= Cardinality(above(v))
        /\ Cardinality(above(v)) = Cardinality(above(u)) => above(v) = above(u)
    BY <1>5, <2>1, FS_Subset
  <2> HIDE DEF above
  <2>4. Cardinality(above(u)) \in Nat /\ Cardinality(above(v)) \in Nat
    BY <1>1, <1>5
  <2> QED BY <2>2, <2>3, <2>4
<1>7. rank \in [R -> 0..(N - 1)] /\ \A u \in R : rank[u] = Cardinality(above(u))
  BY <1>5
<1>8. \A u, v \in R : u.symbol > v.symbol => rank[u] < rank[v]
  BY <1>6, <1>7
<1> HIDE DEF rank
<1>9. \A u, v \in R : rank[u] = rank[v] => u = v
  BY <1>2, <1>3, <1>7, <1>8
<1>10. \A k \in 0..(N - 1) : \E u \in R : rank[u] = k
  <2>1. IsFiniteSet(0..(N - 1)) /\ Cardinality(0..(N - 1)) = N
    <3>1. N - 1 \in Int /\ 0 \in Int
      BY <1>1
    <3>2. /\ IsFiniteSet(0..(N - 1))
          /\ Cardinality(0..(N - 1)) = IF 0 > N - 1 THEN 0 ELSE (N - 1) - 0 + 1
      BY <3>1, FS_Interval
    <3> QED BY <1>1, <3>2
  <2>2. rank \in Injection(R, 0..(N - 1))
    BY <1>7, <1>9 DEF Injection, IsInjective
  <2>3. rank \in Surjection(R, 0..(N - 1))
    BY <1>4, <2>1, <2>2, FS_Injection
  <2> QED BY <2>3 DEF Surjection
<1> DEFINE r == LastFirst(q)
<1>11. r = [i \in 1..N |-> CHOOSE u \in R : Cardinality(above(u)) = i - 1]
  BY DEF LastFirst, R, N
<1>12. ASSUME NEW i \in 1..N PROVE r[i] \in R /\ rank[r[i]] = i - 1
  <2>1. i - 1 \in 0..(N - 1)
    BY <1>1
  <2>2. \E u \in R : Cardinality(above(u)) = i - 1
    BY <2>1, <1>7, <1>10
  <2> HIDE DEF above
  <2>3. r[i] = CHOOSE u \in R : Cardinality(above(u)) = i - 1
    BY <1>11
  <2>4. r[i] \in R /\ Cardinality(above(r[i])) = i - 1
    BY <2>2, <2>3
  <2> QED BY <2>4, <1>7
<1>13. DOMAIN r = 1..N
  BY <1>11
<1>14. r \in Seq(E) /\ Len(r) = N
  <2>1. r \in [1..N -> E]
    BY <1>1, <1>11, <1>12
  <2> QED BY <2>1, <1>1
<1> HIDE DEF r
<1>15. Range(r) = R
  <2>1. Range(r) \subseteq R
    BY <1>12, <1>13 DEF Range
  <2>2. ASSUME NEW u \in R PROVE u \in Range(r)
    <3>1. rank[u] + 1 \in 1..N /\ (rank[u] + 1) - 1 = rank[u]
      BY <1>1, <1>7
    <3>2. r[rank[u] + 1] = u
      BY <3>1, <1>9, <1>12
    <3> QED BY <3>1, <3>2, <1>13 DEF Range
  <2> QED BY <2>1, <2>2
<1>16. ASSUME NEW i \in 1..N, NEW j \in 1..N, i < j PROVE r[i].symbol > r[j].symbol
  <2>1. r[i] \in R /\ r[j] \in R /\ rank[r[i]] = i - 1 /\ rank[r[j]] = j - 1
    BY <1>12
  <2>2. rank[r[i]] < rank[r[j]] /\ rank[r[i]] \in Nat /\ rank[r[j]] \in Nat
    BY <2>1, <1>1, <1>16
  <2>3. r[i].symbol \in Nat /\ r[j].symbol \in Nat
    BY <2>1, <1>2
  <2>4. r[i].symbol # r[j].symbol
    BY <2>1, <2>2, <1>3
  <2>5. ~(r[j].symbol > r[i].symbol)
    BY <2>1, <2>2, <1>8
  <2> QED BY <2>3, <2>4, <2>5
<1> QED BY <1>13, <1>14, <1>15, <1>16 DEF r, R, N

-----------------------------------------------------------------------------
(* Every action keeps the invariant.                                       *)

(* The initial states. *)
LEMMA InitInv == Init => ResolutionInv
<1> SUFFICES ASSUME Init PROVE ResolutionInv
  OBVIOUS
<1> USE DEF Init
<1>1. /\ sym \in Programs /\ Len(sym) \in Nat /\ Symbols = 1..Len(sym)
      /\ \A s \in Symbols : FileOf(s) \in Files
  BY ProgramFacts DEF FileOf
<1>2. \A s \in Symbols : InitialDefinition(s) \in 0..Len(sym) /\ InitialFlags(s) \in SUBSET FlagSet
  BY <1>1 DEF InitialDefinition, InitialFlags, FlagSet, Undefined
<1>3. definitions \in [1..Len(sym) -> Nat] /\ flags \in [1..Len(sym) -> SUBSET FlagSet]
  BY <1>1, <1>2
<1>4. definitions \in Seq(Nat) /\ flags \in Seq(SUBSET FlagSet)
  BY <1>1, <1>3, FunctionIsSeq
<1>5. Len(definitions) = Len(sym) /\ Len(flags) = Len(sym) /\ DOMAIN definitions = Symbols
  BY <1>1, <1>3
<1>6. StateOK
  BY <1>1, <1>2, <1>4, <1>5 DEF StateOK, Phases, Undefined
<1>7. CellsInv /\ TasksInv
  BY DEF CellsInv, TasksInv
<1>8. InitialInv /\ SettledInv
  BY DEF InitialInv, SettledInv
<1>9. QueueInv
  BY DEF QueueInv, Queued
<1> QED BY <1>6, <1>7, <1>8, <1>9 DEF ResolutionInv

(* All files that are not optional are loaded at once; none of their       *)
(* symbols is resolved.                                                    *)
LEMMA SetUpInv ==
  ASSUME ResolutionInv, SetUp
  PROVE  ResolutionInv' /\ \A s \in Symbols : Unresolved(s)'
<1> USE DEF ResolutionInv, SetUp
<1>1. /\ sym \in Programs /\ Len(sym) \in Nat /\ Symbols = 1..Len(sym)
      /\ \A s \in Symbols : FileOf(s) \in Files
  BY ProgramFacts DEF StateOK, FileOf
<1>2. /\ Symbols' = Symbols /\ Pulls' = Pulls /\ Task' = Task
      /\ \A s : /\ FileOf(s)' = FileOf(s) /\ Ignored(s)' = Ignored(s)
                /\ InitialDefinition(s)' = InitialDefinition(s) /\ RequestedBy(s)' = RequestedBy(s)
      /\ \A n : DefinitionsOf(n)' = DefinitionsOf(n)
  BY SameProgram
<1>3. \A f \in Files \ Optional : WorkItems(f) \subseteq tasks'
  OBVIOUS
<1>4. ASSUME NEW t \in tasks'
      PROVE  \E f \in Files \ Optional : t \in WorkItems(f)
  BY <1>4
<1>5. ASSUME NEW t \in tasks'
      PROVE  /\ t \in Task /\ t.file \in Files \ Optional /\ t \in WorkItems(t.file)
             /\ t.ask = NoFile /\ t.pos <= t.last
             /\ \A s \in t.pos..t.last : s \in Symbols /\ FileOf(s) = t.file
  <2>1. PICK f \in Files \ Optional : t \in WorkItems(f)
    BY <1>4
  <2> QED BY <1>1, <2>1, WorkItemFacts
<1>6. \A s \in Symbols : Unresolved(s)'
  <2> SUFFICES ASSUME NEW s \in Symbols, FileOf(s) \notin Optional
               PROVE  \E t \in tasks' : t.pos <= s /\ s <= t.last
    BY <1>2 DEF Unresolved
  <2>1. FileOf(s) \in Files \ Optional /\ s \in SymbolsOf(FileOf(s))
    BY <1>1 DEF SymbolsOf
  <2>2. \E w \in WorkItems(FileOf(s)) : w.pos <= s /\ s <= w.last
    BY <1>1, <2>1, WorkItemFacts
  <2> QED BY <1>3, <2>1, <2>2
<1>7. StateOK'
  <2>1. loads' \in [Files -> Nat]
    OBVIOUS
  <2>2. Entry' = Entry
    BY <1>2 DEF Entry
  <2> QED BY <1>2, <1>5, <2>1, <2>2 DEF StateOK, Phases
<1>8. CellsInv'
  BY DEF CellsInv
<1>9. TasksInv'
  <2>1. \A t \in tasks' : loads'[t.file] = 1 /\ t.pos \in Nat /\ t.last \in Nat
    BY <1>1, <1>5 DEF Task
  <2>2. \A t, u \in tasks' : t # u /\ t.file = u.file =>
          t.last # u.last /\ (t.last < u.pos \/ u.last < t.pos)
    BY <1>1, <1>5, WorkItemFacts
  <2> QED BY <1>2, <1>5, <2>1, <2>2 DEF TasksInv
<1>10. InitialInv'
  BY <1>1, <1>2 DEF InitialInv, Unresolved
<1>11. SettledInv'
  BY <1>2, <1>6 DEF SettledInv
<1>12. QueueInv'
  <2>1. \A s \in Symbols : ~Queued(s)
    BY DEF QueueInv, Unresolved
  <2>2. \A s : Queued(s)' = Queued(s)
    BY DEF Queued
  <2> QED BY <1>2, <2>1, <2>2 DEF QueueInv
<1> QED BY <1>6, <1>7, <1>8, <1>9, <1>10, <1>11, <1>12

(* What the symbol of a task is. *)
LEMMA ReadyFacts ==
  ASSUME ResolutionInv, NEW t \in Ready
  PROVE  /\ t \in tasks /\ t \in Task /\ t.ask = NoFile /\ t.pos \in Symbols
         /\ FileOf(t.pos) = t.file /\ Unresolved(t.pos) /\ phase = "resolve"
         /\ definitions[t.pos] = InitialDefinition(t.pos)
<1>1. t \in tasks /\ t.ask = NoFile /\ t \in Task
  BY DEF Ready, ResolutionInv, StateOK
<1>2. Len(sym) \in Nat /\ Symbols = 1..Len(sym)
  BY ProgramFacts DEF ResolutionInv, StateOK
<1>3. t.pos \in 1..(Len(sym) + 1) /\ t.last \in Symbols
  BY <1>1 DEF Task
<1>4. /\ phase = "resolve" /\ t.pos <= t.last
      /\ \A s \in t.pos..t.last : s \in Symbols /\ FileOf(s) = t.file
  BY <1>1 DEF ResolutionInv, TasksInv
<1>5. t.pos \in t.pos..t.last
  BY <1>2, <1>3, <1>4
<1>6. Unresolved(t.pos)
  BY <1>1, <1>2, <1>3, <1>4 DEF Unresolved
<1> QED BY <1>1, <1>4, <1>5, <1>6 DEF ResolutionInv, InitialInv

(* A symbol that needs no resolution is passed over. *)
LEMMA SkipSymbolInv == ResolutionInv /\ SkipSymbol => ResolutionInv'
<1> SUFFICES ASSUME ResolutionInv, NEW t \in Ready, Skips(t), tasks' = Advance(t, NoFile),
                    UNCHANGED <<sym, phase, untaken, loads, definitions, flags, undefined, errors,
                                duplicates, selecting, stores, canonical>>
             PROVE  ResolutionInv'
  BY DEF SkipSymbol
<1>1. /\ t.pos \in Symbols /\ definitions[t.pos] = InitialDefinition(t.pos)
  BY ReadyFacts
<1>2. Ignored(t.pos) \/ sym[t.pos].def
  BY <1>1 DEF Skips, InitialDefinition
<1>3. RequestedBy(t.pos) = {}
  BY <1>2 DEF RequestedBy
<1>4. /\ tasks' \subseteq Task' /\ undefined' \in Seq(Entry)'
      /\ CellsInv' /\ TasksInv' /\ InitialInv' /\ SettledInv' /\ QueueInv'
  BY <1>2, <1>3, ResolveStep
<1>5. StateOK'
  BY <1>4, SameProgram DEF ResolutionInv, StateOK
<1> QED BY <1>4, <1>5 DEF ResolutionInv

(* A reference that leads to nothing is queued. *)
LEMMA ResolveMissingInv == ResolutionInv /\ ResolveMissing => ResolutionInv'
<1> SUFFICES ASSUME ResolutionInv,
                    NEW t \in Ready, ~Skips(t), sym[t.pos].readable, FileOf(t.pos) \notin Scripts,
                    Get(NameOf(t.pos), sym[t.pos].vis = Default) = Undefined,
                    undefined' = Append(undefined, [symbol |-> t.pos, ignore_if_loaded |-> NoFile]),
                    tasks' = Advance(t, NoFile),
                    UNCHANGED <<sym, phase, untaken, loads, definitions, flags, errors, duplicates,
                                selecting, stores, canonical>>
             PROVE  ResolutionInv'
  BY DEF ResolveMissing
<1>1. t.pos \in Symbols /\ definitions[t.pos] = InitialDefinition(t.pos) /\ t.pos # 0
  BY ReadyFacts, ProgramFacts DEF ResolutionInv, StateOK
<1>2. ~Ignored(t.pos) /\ ~sym[t.pos].def
  BY <1>1 DEF Skips, InitialDefinition, Undefined
<1>3. RequestedBy(t.pos) = {}
  <2>1. NeededName(t.pos) = NameOf(t.pos)
    BY <1>1, <1>2, NameFacts DEF ResolutionInv, StateOK
  <2> QED BY <2>1 DEF RequestedBy
<1>4. /\ tasks' \subseteq Task' /\ undefined' \in Seq(Entry)'
      /\ CellsInv' /\ TasksInv' /\ InitialInv' /\ SettledInv' /\ QueueInv'
  BY <1>2, <1>3, ResolveStep
<1>5. StateOK'
  BY <1>4, SameProgram DEF ResolutionInv, StateOK
<1> QED BY <1>4, <1>5 DEF ResolutionInv

(* A reference of the prelude or of a script. *)
LEMMA LookUpNameInv == ResolutionInv /\ LookUpName => ResolutionInv'
<1> SUFFICES ASSUME ResolutionInv, LookUpName PROVE ResolutionInv'
  OBVIOUS
<1>1. PICK t \in Ready :
        LET s == t.pos
            id == IF sym[s].def THEN Undefined ELSE FirstOf(NameOf(s))
        IN /\ FileOf(s) \in Scripts
           /\ tasks' = Advance(t, IF id # Undefined /\ FileOf(id) \in untaken
                                  THEN FileOf(id) ELSE NoFile)
           /\ definitions' = IF id # Undefined THEN [definitions EXCEPT ![s] = id] ELSE definitions
  BY DEF LookUpName
<1>2. UNCHANGED <<sym, phase, untaken, loads, flags, undefined, errors, duplicates, selecting,
                  stores, canonical>>
  BY DEF LookUpName
<1> DEFINE s == t.pos
           id == IF sym[s].def THEN Undefined ELSE FirstOf(NameOf(s))
           f == IF id # Undefined /\ FileOf(id) \in untaken THEN FileOf(id) ELSE NoFile
<1>3. /\ s \in Symbols /\ FileOf(s) = t.file /\ FileOf(s) \in Scripts
      /\ sym \in Programs /\ Len(sym) \in Nat /\ Symbols = 1..Len(sym)
  BY <1>1, ReadyFacts, ProgramFacts DEF ResolutionInv, StateOK
<1>4. id = Undefined \/ id \in Symbols
  BY <1>3, LookUpFacts
<1>5. id # Undefined => FileOf(id) \in Files
  BY <1>3, <1>4, ReferenceFacts
<1>6. ~Ignored(s) /\ sym[s].readable
  BY <1>3, ResolutionAssumption, ProgramFacts DEF Ignored, FileOf
<1>7. RequestedBy(s) = IF id # Undefined THEN {FileOf(id)} ELSE {}
  <2>1. ~sym[s].def => NeededName(s) = NameOf(s)
    BY <1>3, NameFacts
  <2> QED BY <1>3, <1>6, <2>1 DEF RequestedBy
<1>8. /\ tasks' = Advance(t, f)
      /\ definitions' = IF id # Undefined THEN [definitions EXCEPT ![s] = id] ELSE definitions
  BY <1>1
<1>9. id # Undefined => ~sym[s].def
  OBVIOUS
<1> HIDE DEF s, id
<1>10. f = NoFile \/ (f \in Files /\ f \in Pulls[t.file])
  BY <1>3, <1>5, <1>7, ReferenceFacts
<1>11. \A g \in RequestedBy(s) : g \notin untaken \/ (f = g /\ g # NoFile)
  BY <1>5, <1>7, ResolutionAssumption
<1>12. \A u \in Symbols : u # s \/ sym[u].def => definitions'[u] = definitions[u]
  BY <1>8, <1>9
<1> HIDE DEF f
<1>13. /\ tasks' \subseteq Task' /\ undefined' \in Seq(Entry)'
       /\ CellsInv' /\ TasksInv' /\ InitialInv' /\ SettledInv' /\ QueueInv'
  BY <1>2, <1>6, <1>8, <1>10, <1>11, <1>12, ResolveStep DEF s
<1>14. /\ definitions' \in Seq(Nat) /\ Len(definitions') = Len(definitions)
       /\ \A u \in DOMAIN definitions' : definitions'[u] <= Len(definitions')
  BY <1>3, <1>4, <1>8 DEF ResolutionInv, StateOK
<1>15. StateOK'
  BY <1>2, <1>13, <1>14, SameProgram DEF ResolutionInv, StateOK
<1> QED BY <1>13, <1>15 DEF ResolutionInv

(* ApplyVisibility sets flags. *)
LEMMA ApplyVisibilityType ==
  ASSUME NEW old \in SUBSET FlagSet, NEW vis
  PROVE  /\ ApplyVisibility(old, vis) \in SUBSET FlagSet
         /\ "DYNAMIC" \in ApplyVisibility(old, vis) <=> "DYNAMIC" \in old
BY DEF ApplyVisibility, FlagSet

(* A reference that leads to a definition. *)
LEMMA ResolveFoundInv == ResolutionInv /\ ResolveFound => ResolutionInv'
<1> SUFFICES ASSUME ResolutionInv, ResolveFound PROVE ResolutionInv'
  OBVIOUS
<1>1. PICK t \in Ready :
        LET s == t.pos
            id == Get(NameOf(s), sym[s].vis = Default)
        IN /\ ~Skips(t) /\ sym[s].readable /\ FileOf(s) \notin Scripts
           /\ id # Undefined
           /\ definitions' = [definitions EXCEPT ![s] = id]
           /\ flags' = [flags EXCEPT ![id] = ApplyVisibility(@, sym[s].vis)]
           /\ tasks' = Advance(t, IF Requests(s, id) /\ FileOf(id) \in untaken
                                  THEN FileOf(id) ELSE NoFile)
           /\ undefined' = IF (FileOf(id) = FileOf(s) \/ IsWeak(s)) /\ FileOf(id) # Prelude
                           THEN Append(undefined, [symbol |-> s, ignore_if_loaded |-> FileOf(id)])
                           ELSE undefined
  BY DEF ResolveFound
<1>2. UNCHANGED <<sym, phase, untaken, loads, errors, duplicates, selecting, stores, canonical>>
  BY DEF ResolveFound
<1> DEFINE s == t.pos
           id == Get(NameOf(s), sym[s].vis = Default)
           f == IF Requests(s, id) /\ FileOf(id) \in untaken THEN FileOf(id) ELSE NoFile
<1>3. /\ s \in Symbols /\ FileOf(s) = t.file /\ FileOf(s) \notin Scripts /\ s # 0
      /\ sym \in Programs /\ Len(sym) \in Nat /\ Symbols = 1..Len(sym)
      /\ definitions[s] = InitialDefinition(s)
  BY <1>1, ReadyFacts, ProgramFacts DEF ResolutionInv, StateOK
<1>4. id # Undefined /\ id \in Symbols
  BY <1>1, <1>3, LookUpFacts
<1>5. FileOf(id) \in Files
  BY <1>3, <1>4, ReferenceFacts
<1>6. ~Ignored(s) /\ sym[s].readable /\ ~sym[s].def
  BY <1>1, <1>3 DEF Skips, InitialDefinition, Undefined
<1>7. RequestedBy(s) = IF Requests(s, id) THEN {FileOf(id)} ELSE {}
  <2>1. NeededName(s) = NameOf(s)
    BY <1>3, <1>6, NameFacts
  <2> QED BY <1>3, <1>4, <1>6, <2>1 DEF RequestedBy
<1>8. /\ tasks' = Advance(t, f)
      /\ definitions' = [definitions EXCEPT ![s] = id]
      /\ flags' = [flags EXCEPT ![id] = ApplyVisibility(@, sym[s].vis)]
      /\ undefined' = IF (FileOf(id) = FileOf(s) \/ IsWeak(s)) /\ FileOf(id) # Prelude
                      THEN Append(undefined, [symbol |-> s, ignore_if_loaded |-> FileOf(id)])
                      ELSE undefined
  BY <1>1
<1> HIDE DEF s, id
<1>9. f = NoFile \/ (f \in Files /\ f \in Pulls[t.file])
  BY <1>3, <1>5, <1>7, ReferenceFacts
<1>10. \A g \in RequestedBy(s) : g \notin untaken \/ (f = g /\ g # NoFile)
  BY <1>5, <1>7, ResolutionAssumption
<1>11. \A u \in Symbols : u # s \/ sym[u].def => definitions'[u] = definitions[u]
  BY <1>6, <1>8
<1> HIDE DEF f
<1>12. undefined' = undefined \/
         \E g \in Files \cup {NoFile} :
             /\ undefined' = Append(undefined, [symbol |-> s, ignore_if_loaded |-> g])
             /\ ~sym[s].def /\ ~Ignored(s) /\ FileOf(s) \notin Scripts
  BY <1>3, <1>5, <1>6, <1>8
<1>13. /\ tasks' \subseteq Task' /\ undefined' \in Seq(Entry)'
       /\ CellsInv' /\ TasksInv' /\ InitialInv' /\ SettledInv' /\ QueueInv'
  BY <1>2, <1>6, <1>8, <1>9, <1>10, <1>11, <1>12, ResolveStep DEF s
<1>14. /\ definitions' \in Seq(Nat) /\ Len(definitions') = Len(definitions)
       /\ \A u \in DOMAIN definitions' : definitions'[u] <= Len(definitions')
  BY <1>3, <1>4, <1>8 DEF ResolutionInv, StateOK
<1>15. flags' \in Seq(SUBSET FlagSet) /\ Len(flags') = Len(flags)
  <2>1. flags \in Seq(SUBSET FlagSet)
    BY DEF ResolutionInv, StateOK
  <2>2. id \in DOMAIN flags => flags[id] \in SUBSET FlagSet
    BY <2>1, SeqElement
  <2>3. id \in DOMAIN flags => ApplyVisibility(flags[id], sym[s].vis) \in SUBSET FlagSet
    BY <2>2, ApplyVisibilityType
  <2>4. flags' = [flags EXCEPT ![id] = ApplyVisibility(flags[id], sym[s].vis)]
    BY <1>8
  <2> QED BY <2>1, <2>3, <2>4, SeqExcept
<1>16. StateOK'
  BY <1>2, <1>13, <1>14, <1>15, SameProgram DEF ResolutionInv, StateOK
<1> QED BY <1>13, <1>16 DEF ResolutionInv

(* A symbol cannot be read. *)
LEMMA FailSymbolInv == ResolutionInv /\ FailSymbol => ResolutionInv'
<1> SUFFICES ASSUME ResolutionInv, NEW t \in Ready, tasks' = tasks \ {t}, HandleResult,
                    UNCHANGED <<sym, phase, untaken, loads, definitions, flags, undefined,
                                duplicates, selecting, stores, canonical>>
             PROVE  ResolutionInv'
  BY DEF FailSymbol
<1> USE DEF ResolutionInv
<1>1. /\ Symbols' = Symbols /\ Pulls' = Pulls /\ Task' = Task /\ Entry' = Entry
      /\ \A s : /\ FileOf(s)' = FileOf(s) /\ Ignored(s)' = Ignored(s)
                /\ InitialDefinition(s)' = InitialDefinition(s) /\ RequestedBy(s)' = RequestedBy(s)
      /\ \A n : DefinitionsOf(n)' = DefinitionsOf(n)
  BY SameProgram DEF Entry
<1>2. phase = "resolve" /\ errors' = 1
  BY ReadyFacts DEF HandleResult, StateOK
<1>3. \A s : Unresolved(s)' => Unresolved(s)
  BY <1>1 DEF Unresolved
<1>4. StateOK'
  BY <1>1, <1>2 DEF StateOK
<1>5. CellsInv' /\ TasksInv'
  BY <1>1, <1>2 DEF CellsInv, TasksInv
<1>6. InitialInv'
  BY <1>1, <1>3 DEF InitialInv
<1>7. SettledInv'
  BY <1>2 DEF SettledInv
<1>8. QueueInv'
  <2>1. \A s : Queued(s)' = Queued(s)
    BY DEF Queued
  <2> QED BY <1>1, <1>3, <2>1 DEF QueueInv
<1> QED BY <1>4, <1>5, <1>6, <1>7, <1>8

(* A task that had asked for a file goes on, after loading it unless       *)
(* another one was faster.                                                 *)
LEMMA TakeFileInv ==
  ASSUME ResolutionInv, TakeFile
  PROVE  ResolutionInv' /\ \A s \in Symbols : Unresolved(s)' <=> Unresolved(s)
<1> USE DEF ResolutionInv
<1>0. UNCHANGED <<sym, phase, definitions, flags, undefined, errors, duplicates, selecting,
                  stores, canonical>>
  BY DEF TakeFile
<1>1. PICK t \in tasks :
        LET left == IF t.pos > t.last THEN tasks \ {t}
                    ELSE (tasks \ {t}) \cup {[t EXCEPT !.ask = NoFile]}
        IN /\ t.ask # NoFile
           /\ IF t.ask \in untaken
              THEN /\ untaken' = untaken \ {t.ask}
                   /\ loads' = [loads EXCEPT ![t.ask] = @ + 1]
                   /\ tasks' = left \cup WorkItems(t.ask)
              ELSE /\ tasks' = left
                   /\ UNCHANGED <<untaken, loads>>
  BY DEF TakeFile
<1> DEFINE a == t.ask
           n == [t EXCEPT !.ask = NoFile]
           new == IF a \in untaken THEN WorkItems(a) ELSE {}
           left == (tasks \ {t}) \cup (IF t.pos > t.last THEN {} ELSE {n})
<1>2. /\ sym \in Programs /\ Len(sym) \in Nat /\ Symbols = 1..Len(sym)
      /\ \A s \in Symbols : FileOf(s) \in Files
  BY ProgramFacts DEF StateOK, FileOf
<1>3. /\ Symbols' = Symbols /\ Pulls' = Pulls /\ Task' = Task /\ Entry' = Entry
      /\ \A s : /\ FileOf(s)' = FileOf(s) /\ Ignored(s)' = Ignored(s)
                /\ InitialDefinition(s)' = InitialDefinition(s) /\ RequestedBy(s)' = RequestedBy(s)
      /\ \A m : DefinitionsOf(m)' = DefinitionsOf(m)
  BY <1>0, SameProgram DEF Entry
<1>4. /\ t \in Task /\ a # NoFile /\ a \in Files /\ phase = "resolve" /\ loads[t.file] = 1
      /\ \A u \in tasks : /\ u.file \in Files /\ u.pos \in 1..(Len(sym) + 1) /\ u.last \in Symbols
  BY <1>1 DEF StateOK, TasksInv, Task
<1>5. n \in Task /\ n.file = t.file /\ n.pos = t.pos /\ n.last = t.last /\ n.ask = NoFile
  BY <1>4 DEF Task
<1>6. tasks' = left \cup new /\ untaken' = untaken \ {a}
  BY <1>1
<1>7. loads \in [Files -> Nat] /\ loads' \in [Files -> Nat]
      /\ \A f \in Files : loads'[f] = IF f = a THEN 1 ELSE loads[f]
  <2>1. loads \in [Files -> Nat] /\ (a \in untaken => loads[a] = 0) /\ (a \notin untaken => loads[a] = 1)
    BY <1>4 DEF StateOK, CellsInv
  <2>2. CASE a \in untaken
    <3>1. loads' = [loads EXCEPT ![a] = loads[a] + 1] /\ loads[a] + 1 = 1
      BY <1>1, <2>1, <2>2
    <3> QED BY <2>1, <3>1, <1>4
  <2>3. CASE a \notin untaken
    BY <1>1, <2>1, <2>3
  <2> QED BY <2>2, <2>3
<1>8. /\ \A w \in new : /\ w \in Task /\ w.file = a /\ w.ask = NoFile /\ w.pos <= w.last
                         /\ \A s \in w.pos..w.last : s \in Symbols /\ FileOf(s) = a
      /\ \A w, v \in new : w # v => w.last # v.last /\ (w.last < v.pos \/ v.last < w.pos)
      /\ a \in untaken => \A s \in SymbolsOf(a) : \E w \in new : w.pos <= s /\ s <= w.last
      /\ new # {} => a \in untaken
  BY <1>2, <1>4, WorkItemFacts
<1> HIDE DEF a, n, new
<1>9. \A u \in left : u \in tasks \/ u = n
  OBVIOUS
<1>10. /\ \A u \in left : /\ loads[u.file] = 1 /\ u.file \in Files /\ u.pos <= u.last + 1
                          /\ u \in Task
                          /\ \A s \in u.pos..u.last : s \in Symbols /\ FileOf(s) = u.file
                          /\ IF u.ask = NoFile THEN u.pos <= u.last ELSE u.ask \in Pulls[u.file]
       /\ \A u, v \in left : u # v /\ u.file = v.file =>
            u.last # v.last /\ (u.last < v.pos \/ v.last < u.pos)
  <2>1. n \in left => n.pos <= n.last
    <3>1. CASE t.pos > t.last
      <4>1. n \in left => n \in tasks
        BY <3>1
      <4> QED BY <4>1, <1>5 DEF TasksInv
    <3>2. CASE ~(t.pos > t.last)
      BY <3>2, <1>2, <1>4, <1>5
    <3> QED BY <3>1, <3>2
  <2>2. \A u \in left : u \in tasks \ {t} \/ u = n
    OBVIOUS
  <2>3. \A u \in tasks \ {t} : u.file = t.file =>
          u.last # t.last /\ (u.last < t.pos \/ t.last < u.pos)
    BY DEF TasksInv
  <2>4. ASSUME NEW u \in left
        PROVE  /\ loads[u.file] = 1 /\ u.file \in Files /\ u.pos <= u.last + 1 /\ u \in Task
               /\ \A s \in u.pos..u.last : s \in Symbols /\ FileOf(s) = u.file
               /\ IF u.ask = NoFile THEN u.pos <= u.last ELSE u.ask \in Pulls[u.file]
    <3>1. CASE u \in tasks
      BY <3>1, <1>4 DEF TasksInv, StateOK
    <3>2. CASE u = n
      <4>1. /\ t.pos <= t.last + 1 /\ \A s \in t.pos..t.last : s \in Symbols /\ FileOf(s) = t.file
        BY DEF TasksInv
      <4> QED BY <3>2, <4>1, <2>1, <1>4, <1>5
    <3> QED BY <3>1, <3>2, <2>2
  <2>5. ASSUME NEW u \in left, NEW v \in left, u # v, u.file = v.file
        PROVE  u.last # v.last /\ (u.last < v.pos \/ v.last < u.pos)
    <3>1. CASE u \in tasks \ {t} /\ v \in tasks \ {t}
      BY <3>1, <2>5 DEF TasksInv
    <3>2. CASE u = n /\ v \in tasks \ {t}
      BY <3>2, <2>3, <2>5, <1>5
    <3>3. CASE v = n /\ u \in tasks \ {t}
      BY <3>3, <2>3, <2>5, <1>5
    <3> QED BY <3>1, <3>2, <3>3, <2>2, <2>5
  <2> QED BY <2>4, <2>5
<1>11. \A s \in Symbols : (\E u \in left : u.pos <= s /\ s <= u.last)
                           <=> (\E u \in tasks : u.pos <= s /\ s <= u.last)
  BY <1>2, <1>4, <1>5
<1>12. \A u \in tasks : u = t \/ u \in left
  OBVIOUS
<1> HIDE DEF left
<1>13. new # {} => loads[a] = 0
  BY <1>4, <1>8 DEF CellsInv
<1>14. \A s \in Symbols : Unresolved(s)' <=> Unresolved(s)
  <2> SUFFICES ASSUME NEW s \in Symbols PROVE Unresolved(s)' <=> Unresolved(s)
    OBVIOUS
  <2>1. (\E u \in new : u.pos <= s /\ s <= u.last) <=> (a \in untaken /\ FileOf(s) = a)
    <3>1. s \in SymbolsOf(a) <=> FileOf(s) = a
      BY DEF SymbolsOf
    <3>2. \A u \in new : u.pos \in Nat /\ u.last \in Nat
      BY <1>2, <1>8 DEF Task
    <3>3. \A u \in new : u.pos <= s /\ s <= u.last => s \in u.pos..u.last
      BY <1>2, <3>2
    <3> QED BY <3>1, <3>3, <1>8
  <2> QED BY <1>0, <1>3, <1>6, <1>11, <2>1 DEF Unresolved
<1>15. StateOK'
  BY <1>0, <1>3, <1>6, <1>7, <1>8, <1>10 DEF StateOK
<1>16. CellsInv'
  BY <1>0, <1>4, <1>6, <1>7 DEF CellsInv
<1>17. TasksInv'
  <2>1. ASSUME NEW u \in tasks'
        PROVE  /\ loads'[u.file] = 1 /\ u.pos <= u.last + 1
               /\ \A s \in u.pos..u.last : s \in Symbols /\ FileOf(s) = u.file
               /\ IF u.ask = NoFile THEN u.pos <= u.last ELSE u.ask \in Pulls[u.file]
    <3>1. CASE u \in left
      BY <3>1, <1>7, <1>10
    <3>2. CASE u \in new
      <4>1. u.pos \in Nat /\ u.last \in Nat
        BY <3>2, <1>2, <1>8 DEF Task
      <4> QED BY <3>2, <4>1, <1>4, <1>7, <1>8
    <3> QED BY <3>1, <3>2, <1>6
  <2>2. ASSUME NEW u \in tasks', NEW v \in tasks', u # v, u.file = v.file
        PROVE  u.last # v.last /\ (u.last < v.pos \/ v.last < u.pos)
    <3>1. \A x \in left, y \in new : x.file # y.file
      BY <1>8, <1>10, <1>13
    <3> QED BY <2>2, <3>1, <1>6, <1>8, <1>10
  <2> QED BY <1>0, <1>3, <1>4, <2>1, <2>2 DEF TasksInv
<1>18. InitialInv'
  BY <1>0, <1>3, <1>14 DEF InitialInv
<1>19. SettledInv'
  <2>1. ASSUME errors = 0, NEW s \in Symbols PROVE Unresolved(s)' \/ Settled(s)'
    <3>1. CASE Settled(s)
      <4>1. ASSUME NEW f \in RequestedBy(s) PROVE f \notin untaken' \/ \E u \in tasks' : u.ask = f
        <5>1. CASE f \notin untaken
          BY <5>1, <1>6
        <5>2. CASE f \in untaken
          <6>1. PICK u \in tasks : u.ask = f
            BY <3>1, <5>2 DEF Settled
          <6>2. CASE u = t
            BY <6>1, <6>2, <1>6 DEF a
          <6>3. CASE u # t
            BY <6>1, <6>3, <1>6, <1>12
          <6> QED BY <6>2, <6>3
        <5> QED BY <5>1, <5>2
      <4> QED BY <3>1, <4>1, <1>0, <1>3 DEF Settled
    <3>2. CASE Unresolved(s)
      BY <3>2, <1>14
    <3> QED BY <3>1, <3>2, <2>1, <1>4 DEF SettledInv
  <2> QED BY <1>0, <1>3, <1>4, <2>1 DEF SettledInv
<1>20. QueueInv'
  <2>1. \A s : Queued(s)' = Queued(s)
    BY <1>0 DEF Queued
  <2> QED BY <1>0, <1>3, <1>14, <2>1 DEF QueueInv
<1> QED BY <1>14, <1>15, <1>16, <1>17, <1>18, <1>19, <1>20

(* A step that leaves the files and the tasks alone keeps what is said of  *)
(* them.                                                                   *)
LEMMA QuietStep ==
  ASSUME ResolutionInv, UNCHANGED <<sym, untaken, loads, tasks, errors>>,
         phase' = "setup" <=> phase = "setup",
         phase' \in {"setup", "resolve"} => phase = phase' /\ definitions' = definitions,
         tasks # {} => phase' = "resolve",
         phase' \notin {"setup", "resolve", "failed"} => errors = 0,
         Distinct(undefined'), \A s \in Symbols : Queued(s)' => Queued(s)
  PROVE  CellsInv' /\ TasksInv' /\ InitialInv' /\ SettledInv' /\ QueueInv'
<1> USE DEF ResolutionInv
<1>1. /\ Symbols' = Symbols /\ Pulls' = Pulls
      /\ \A s : /\ FileOf(s)' = FileOf(s) /\ Ignored(s)' = Ignored(s)
                /\ InitialDefinition(s)' = InitialDefinition(s) /\ RequestedBy(s)' = RequestedBy(s)
  BY SameProgram
<1>2. \A s : Unresolved(s)' <=> Unresolved(s)
  BY <1>1 DEF Unresolved
<1>3. \A s : Settled(s)' <=> Settled(s)
  BY <1>1 DEF Settled
<1>4. CellsInv'
  BY DEF CellsInv
<1>5. TasksInv'
  BY <1>1 DEF TasksInv
<1>6. InitialInv'
  BY <1>1, <1>2 DEF InitialInv
<1>7. SettledInv'
  BY <1>1, <1>2, <1>3 DEF SettledInv
<1>8. QueueInv'
  BY <1>1, <1>2 DEF QueueInv, Distinct
<1> QED BY <1>4, <1>5, <1>6, <1>7, <1>8

(* The end of the scope, with or without an error. *)
LEMMA GatherInv == ResolutionInv /\ Gather => ResolutionInv'
<1> SUFFICES ASSUME ResolutionInv, Gather PROVE ResolutionInv'
  OBVIOUS
<1>1. UNCHANGED <<sym, untaken, loads, tasks, definitions, flags, undefined, errors, duplicates,
                  stores, canonical>>
  BY DEF Gather
<1>2. /\ phase = "resolve" /\ tasks = {} /\ phase' \in {"failed", "select"}
      /\ phase' = "select" => errors = 0
      /\ selecting' = {n \in Names : Cardinality(DefinitionsOf(n)) > 1}
  BY DEF Gather, ScopeEnded, ResolutionInv, StateOK
<1>3. Distinct(undefined') /\ \A s \in Symbols : Queued(s)' => Queued(s)
  BY <1>1 DEF ResolutionInv, QueueInv, Distinct, Queued
<1>4. CellsInv' /\ TasksInv' /\ InitialInv' /\ SettledInv' /\ QueueInv'
  BY <1>1, <1>2, <1>3, QuietStep
<1>5. Symbols' = Symbols /\ Task' = Task /\ Entry' = Entry /\ \A n : DefinitionsOf(n)' = DefinitionsOf(n)
  BY <1>1, SameProgram DEF Entry
<1>6. StateOK'
  BY <1>1, <1>2, <1>5 DEF ResolutionInv, StateOK, Phases
<1> QED BY <1>4, <1>6 DEF ResolutionInv

(* After resolution: the phases that select and canonicalise. *)
LaterPhases == {"select", "sort", "canonicalise", "done", "duplicates"}

(* A step of these phases need only be shown to keep the types. *)
LEMMA LaterStep ==
  ASSUME ResolutionInv, UNCHANGED <<sym, untaken, loads, tasks, errors>>,
         phase \in LaterPhases, phase' \in LaterPhases,
         Distinct(undefined'), \A s \in Symbols : Queued(s)' => Queued(s)
  PROVE  CellsInv' /\ TasksInv' /\ InitialInv' /\ SettledInv' /\ QueueInv'
<1>1. tasks = {} /\ errors = 0
  BY DEF ResolutionInv, TasksInv, SettledInv, LaterPhases
<1> QED BY <1>1, QuietStep DEF LaterPhases

(* The queue is the same, or shorter by its head. *)
LEMMA ShorterQueue ==
  ASSUME ResolutionInv, undefined' = undefined \/ (undefined # <<>> /\ undefined' = Tail(undefined))
  PROVE  /\ Distinct(undefined') /\ \A s \in Symbols : Queued(s)' => Queued(s)
         /\ undefined' \in Seq(Entry)
<1>1. undefined \in Seq(Entry) /\ Distinct(undefined)
  BY DEF ResolutionInv, StateOK, QueueInv, Distinct
<1>2. CASE undefined' = undefined
  BY <1>1, <1>2 DEF Queued
<1>3. CASE undefined # <<>> /\ undefined' = Tail(undefined)
  <2>1. /\ Len(undefined) \in Nat /\ Len(undefined) # 0 /\ DOMAIN undefined = 1..Len(undefined)
        /\ undefined' \in Seq(Entry) /\ DOMAIN undefined' = 1..(Len(undefined) - 1)
        /\ \A i \in 1..(Len(undefined) - 1) : undefined'[i] = undefined[i + 1]
    BY <1>1, <1>3
  <2>2. \A i \in DOMAIN undefined' : i + 1 \in DOMAIN undefined /\ undefined'[i] = undefined[i + 1]
    BY <2>1
  <2>3. Distinct(undefined')
    BY <1>1, <2>1, <2>2 DEF Distinct
  <2>4. \A s \in Symbols : Queued(s)' => Queued(s)
    BY <2>2 DEF Queued
  <2> QED BY <2>1, <2>3, <2>4
<1> QED BY <1>2, <1>3

(* One of the definitions of a name is selected. *)
LEMMA SelectSymbolType ==
  ASSUME sym \in Programs, NEW n, DefinitionsOf(n) # {}
  PROVE  SelectSymbol(n) \in DefinitionsOf(n)
<1> DEFINE C == {s \in DefinitionsOf(n) : "DYNAMIC" \notin flags[s]}
           strength == [s \in C |-> Strength(s)]
           sel == Considered(C, strength)
           defined == {s \in DefinitionsOf(n) : Strength(s) # "Undefined"}
<1>1. DefinitionsOf(n) \subseteq Symbols /\ DefinitionsOf(n) \subseteq Nat \ {0}
  BY LookUpFacts
<1>2. \A s \in Symbols : Strength(s) \in Strengths
  BY ProgramFacts DEF Strength, Strengths
<1>3. C \in SUBSET Symbols /\ strength \in [C -> Strengths] /\ C \subseteq DefinitionsOf(n)
  BY <1>1, <1>2
<1>4. Scan(n) = sel
  BY DEF Scan
<1> HIDE DEF C, strength, sel
<1>5. /\ IsFirst(sel.first_strong, {s \in C : strength[s] = "Strong"})
      /\ IsFirstLargest(sel.max_common, {s \in C : strength[s] = "Common"})
      /\ IsFirst(sel.first_weak, {s \in C : strength[s] \in {"Weak", "GnuUnique"}})
  BY <1>3, ConsideredIs DEF sel
<1>6. Best(sel) \in C \cup {Undefined}
  BY <1>5 DEF IsFirst, IsFirstLargest, Best
<1>7. defined # {} => First(defined) \in defined
  BY <1>1, FirstIsLeast
<1>8. FirstOf(n) \in DefinitionsOf(n)
  BY LookUpFacts
<1> QED BY <1>3, <1>4, <1>6, <1>7, <1>8 DEF SelectSymbol

(* Flags that are merged are flags. *)
LEMMA MergeVisibilityType ==
  ASSUME NEW old \in SUBSET FlagSet, NEW vis
  PROVE  /\ MergeVisibility(old, vis) \in SUBSET FlagSet
         /\ "DYNAMIC" \in MergeVisibility(old, vis) <=> "DYNAMIC" \in old
BY ApplyVisibilityType DEF MergeVisibility

(* The definition of a name is selected, or a duplicate is reported. *)
LEMMA SelectNameInv == ResolutionInv /\ SelectName => ResolutionInv'
<1> SUFFICES ASSUME ResolutionInv, SelectName PROVE ResolutionInv'
  OBVIOUS
<1>1. UNCHANGED <<sym, phase, untaken, loads, tasks, definitions, undefined, errors, canonical>>
      /\ phase = "select"
  BY DEF SelectName
<1>2. PICK n \in selecting :
        /\ selecting' = selecting \ {n}
        /\ \/ duplicates' = duplicates \cup {n} /\ UNCHANGED <<stores, flags>>
           \/ /\ stores' = [stores EXCEPT ![n] = DefinitionsOf(n) \X {SelectSymbol(n)}]
              /\ flags' = [s \in DOMAIN flags |->
                   IF s \in DefinitionsOf(n) THEN MergeVisibility(flags[s], LeastVisible(n))
                   ELSE flags[s]]
              /\ UNCHANGED duplicates
  BY DEF SelectName
<1>3. /\ sym \in Programs /\ selecting \subseteq Names /\ duplicates \subseteq Names
      /\ Cardinality(DefinitionsOf(n)) > 1 /\ flags \in Seq(SUBSET FlagSet)
      /\ stores \in [Names -> SUBSET (Symbols \X Symbols)]
  BY DEF ResolutionInv, StateOK
<1>4. DefinitionsOf(n) # {}
  <2>1. Cardinality({}) = 0
    BY FS_EmptySet
  <2>2. ASSUME DefinitionsOf(n) = {} PROVE FALSE
    BY <1>3, <2>1, <2>2
  <2> QED BY <2>2
<1>5. SelectSymbol(n) \in Symbols /\ DefinitionsOf(n) \subseteq Symbols
  BY <1>3, <1>4, SelectSymbolType, LookUpFacts
<1>6. stores' \in [Names -> SUBSET (Symbols \X Symbols)]
  BY <1>2, <1>3, <1>5
<1>7. flags' \in Seq(SUBSET FlagSet) /\ Len(flags') = Len(flags)
  <2>1. CASE UNCHANGED flags
    BY <2>1, <1>3
  <2>2. CASE flags' = [s \in DOMAIN flags |->
               IF s \in DefinitionsOf(n) THEN MergeVisibility(flags[s], LeastVisible(n)) ELSE flags[s]]
    <3>1. Len(flags) \in Nat /\ DOMAIN flags = 1..Len(flags)
          /\ \A s \in DOMAIN flags : flags[s] \in SUBSET FlagSet
      BY <1>3
    <3>2. \A s \in DOMAIN flags : MergeVisibility(flags[s], LeastVisible(n)) \in SUBSET FlagSet
      BY <3>1, MergeVisibilityType
    <3>3. flags' \in [1..Len(flags) -> SUBSET FlagSet]
      BY <2>2, <3>1, <3>2
    <3> QED BY <3>1, <3>3, FunctionIsSeq
  <2> QED BY <1>2, <2>1, <2>2
<1>8. Distinct(undefined') /\ \A s \in Symbols : Queued(s)' => Queued(s)
  BY <1>1, ShorterQueue
<1>9. CellsInv' /\ TasksInv' /\ InitialInv' /\ SettledInv' /\ QueueInv'
  BY <1>1, <1>8, LaterStep DEF LaterPhases
<1>10. Symbols' = Symbols /\ Task' = Task /\ Entry' = Entry
       /\ \A m : DefinitionsOf(m)' = DefinitionsOf(m)
  BY <1>1, SameProgram DEF Entry
<1>11. selecting' \subseteq selecting /\ duplicates' \subseteq Names
  BY <1>2, <1>3
<1>12. StateOK'
  BY <1>1, <1>6, <1>7, <1>10, <1>11 DEF ResolutionInv, StateOK
<1> QED BY <1>9, <1>12 DEF ResolutionInv

(* A selected definition is stored. *)
LEMMA UpdateDefinitionInv == ResolutionInv /\ UpdateDefinition => ResolutionInv'
<1> SUFFICES ASSUME ResolutionInv, UpdateDefinition PROVE ResolutionInv'
  OBVIOUS
<1>1. /\ UNCHANGED <<sym, phase, untaken, loads, tasks, flags, undefined, errors, duplicates,
                     selecting, canonical>>
      /\ phase = "select"
  BY DEF UpdateDefinition
<1>2. PICK n \in Names : \E st \in stores[n] :
        /\ definitions' = [definitions EXCEPT ![st[1]] = st[2]]
        /\ stores' = [stores EXCEPT ![n] = @ \ {st}]
  BY DEF UpdateDefinition
<1>3. PICK st \in stores[n] : /\ definitions' = [definitions EXCEPT ![st[1]] = st[2]]
                              /\ stores' = [stores EXCEPT ![n] = @ \ {st}]
  BY <1>2
<1>4. /\ stores \in [Names -> SUBSET (Symbols \X Symbols)] /\ sym \in Programs
      /\ definitions \in Seq(Nat) /\ Len(definitions) = Len(sym)
      /\ \A s \in DOMAIN definitions : definitions[s] <= Len(definitions)
  BY <1>1 DEF ResolutionInv, StateOK
<1> DEFINE d == st[1]
           e == st[2]
<1>5. d \in Symbols /\ e \in Symbols /\ definitions' = [definitions EXCEPT ![d] = e]
  BY <1>3, <1>4
<1> HIDE DEF d, e
<1>6. Len(sym) \in Nat /\ Symbols = 1..Len(sym)
  BY <1>4, ProgramFacts
<1>7. e \in Nat /\ e <= Len(sym)
  BY <1>5, <1>6
<1>8. /\ definitions' \in Seq(Nat) /\ Len(definitions') = Len(definitions)
      /\ DOMAIN definitions' = DOMAIN definitions
      /\ \A s \in DOMAIN definitions : definitions'[s] = IF s = d THEN e ELSE definitions[s]
  BY <1>4, <1>5, <1>7, SeqExcept
<1>9. \A s \in DOMAIN definitions' : definitions'[s] <= Len(definitions')
  BY <1>4, <1>7, <1>8
<1>10. stores' \in [Names -> SUBSET (Symbols \X Symbols)]
  BY <1>3, <1>4
<1>11. Distinct(undefined') /\ \A s \in Symbols : Queued(s)' => Queued(s)
  BY <1>1, ShorterQueue
<1>12. CellsInv' /\ TasksInv' /\ InitialInv' /\ SettledInv' /\ QueueInv'
  BY <1>1, <1>11, LaterStep DEF LaterPhases
<1>13. Symbols' = Symbols /\ Task' = Task /\ Entry' = Entry
       /\ \A m : DefinitionsOf(m)' = DefinitionsOf(m)
  BY <1>1, SameProgram DEF Entry
<1>14. StateOK'
  BY <1>1, <1>8, <1>9, <1>10, <1>13 DEF ResolutionInv, StateOK
<1> QED BY <1>12, <1>14 DEF ResolutionInv

(* Steps that only move on to the next phase. *)
LEMMA NextPhaseInv == ResolutionInv /\ (EndSelect \/ EndCanonicalise) => ResolutionInv'
<1> SUFFICES ASSUME ResolutionInv, EndSelect \/ EndCanonicalise PROVE ResolutionInv'
  OBVIOUS
<1>1. /\ UNCHANGED <<sym, untaken, loads, tasks, definitions, flags, undefined, errors, duplicates,
                     selecting, stores, canonical>>
      /\ phase \in LaterPhases /\ phase' \in LaterPhases
      /\ phase' = "done" => phase = "canonicalise"
      /\ phase = "canonicalise" => phase' = "done"
  BY DEF EndSelect, EndCanonicalise, LaterPhases
<1>2. Distinct(undefined') /\ \A s \in Symbols : Queued(s)' => Queued(s)
  BY <1>1, ShorterQueue
<1>3. CellsInv' /\ TasksInv' /\ InitialInv' /\ SettledInv' /\ QueueInv'
  BY <1>1, <1>2, LaterStep
<1>4. Symbols' = Symbols /\ Task' = Task /\ Entry' = Entry
      /\ \A m : DefinitionsOf(m)' = DefinitionsOf(m)
  BY <1>1, SameProgram DEF Entry
<1>5. phase' \in Phases /\ (phase' \notin {"canonicalise", "done"} => phase \notin {"canonicalise", "done"})
  BY <1>1 DEF LaterPhases, Phases, EndSelect, EndCanonicalise
<1>6. StateOK'
  BY <1>1, <1>4, <1>5 DEF ResolutionInv, StateOK
<1> QED BY <1>3, <1>6 DEF ResolutionInv

(* The queue is sorted. *)
LEMMA SortUndefinedInv == ResolutionInv /\ SortUndefined => ResolutionInv'
<1> SUFFICES ASSUME ResolutionInv, SortUndefined PROVE ResolutionInv'
  OBVIOUS
<1>1. /\ UNCHANGED <<sym, untaken, loads, tasks, definitions, flags, errors, duplicates,
                     selecting, stores, canonical>>
      /\ phase = "sort" /\ phase' = "canonicalise" /\ undefined' = LastFirst(undefined)
  BY DEF SortUndefined
<1>2. undefined \in Seq(Entry) /\ Distinct(undefined) /\ sym \in Programs
  BY DEF ResolutionInv, StateOK, QueueInv, Distinct
<1>3. \A e \in Entry : e.symbol \in Nat
  BY <1>2, ProgramFacts DEF Entry
<1>4. /\ undefined' \in Seq(Entry) /\ Range(undefined') = Range(undefined)
      /\ \A i, j \in DOMAIN undefined' : i < j => undefined'[i].symbol > undefined'[j].symbol
  BY <1>1, <1>2, <1>3, SortFacts
<1>5. DOMAIN undefined' \subseteq Nat /\ \A i \in DOMAIN undefined' : undefined'[i].symbol \in Nat
  BY <1>3, <1>4
<1>6. Distinct(undefined')
  <2> SUFFICES ASSUME NEW i \in DOMAIN undefined', NEW j \in DOMAIN undefined', i # j
               PROVE  undefined'[i].symbol # undefined'[j].symbol
    BY DEF Distinct
  <2>1. i < j \/ j < i
    BY <1>5
  <2> QED BY <1>4, <1>5, <2>1
<1>7. \A s \in Symbols : Queued(s)' => Queued(s)
  BY <1>4 DEF Queued, Range
<1>8. CellsInv' /\ TasksInv' /\ InitialInv' /\ SettledInv' /\ QueueInv'
  BY <1>1, <1>6, <1>7, LaterStep DEF LaterPhases
<1>9. Symbols' = Symbols /\ Task' = Task /\ Entry' = Entry
      /\ \A m : DefinitionsOf(m)' = DefinitionsOf(m)
  BY <1>1, SameProgram DEF Entry
<1>10. StateOK'
  BY <1>1, <1>4, <1>9 DEF ResolutionInv, StateOK, Phases
<1> QED BY <1>8, <1>10 DEF ResolutionInv

(* The reference of a round of canonicalise_undefined_symbols. *)
LEMMA RoundFacts ==
  ASSUME ResolutionInv, Round
  PROVE  /\ Reference \in Entry /\ Reference.symbol \in Symbols /\ ~sym[Reference.symbol].def
         /\ NameOf(Reference.symbol) \in Names
         /\ sym \in Programs /\ definitions \in Seq(Nat) /\ flags \in Seq(SUBSET FlagSet)
         /\ Len(definitions) \in Nat /\ DOMAIN definitions = 1..Len(definitions)
         /\ DOMAIN flags = 1..Len(definitions) /\ Symbols \subseteq DOMAIN definitions
         /\ \A s \in DOMAIN definitions :
              definitions[s] \in Nat /\ definitions[s] <= Len(definitions)
         /\ canonical \in [Names -> Nat] /\ \A n \in Names : canonical[n] <= Len(definitions)
<1>1. /\ sym \in Programs /\ definitions \in Seq(Nat) /\ flags \in Seq(SUBSET FlagSet)
      /\ Len(definitions) = Len(flags) /\ Len(sym) <= Len(definitions)
      /\ \A s \in DOMAIN definitions : definitions[s] <= Len(definitions)
      /\ canonical \in [Names -> Nat] /\ \A n \in Names : canonical[n] <= Len(definitions)
      /\ undefined \in Seq(Entry) /\ undefined # <<>>
  BY DEF ResolutionInv, StateOK, Round
<1>2. Reference \in Entry /\ 1 \in DOMAIN undefined /\ Reference = undefined[1]
  BY <1>1 DEF Reference
<1>3. Reference.symbol \in Symbols /\ Queued(Reference.symbol)
  BY <1>2 DEF Entry, Queued
<1>4. ~sym[Reference.symbol].def
  BY <1>3 DEF ResolutionInv, QueueInv
<1>5. NameOf(Reference.symbol) \in Names
  BY <1>1, <1>3, <1>4, ReferenceFacts
<1>6. Len(sym) \in Nat /\ Symbols = 1..Len(sym)
  BY <1>1, ProgramFacts
<1>7. Len(definitions) \in Nat /\ DOMAIN definitions = 1..Len(definitions)
      /\ DOMAIN flags = 1..Len(definitions) /\ \A s \in DOMAIN definitions : definitions[s] \in Nat
  BY <1>1
<1> QED BY <1>1, <1>2, <1>3, <1>4, <1>5, <1>6, <1>7

(* A round need only be shown to keep the types of what it assigns. *)
LEMMA RoundStep ==
  ASSUME ResolutionInv, Round,
         definitions' \in Seq(Nat), flags' \in Seq(SUBSET FlagSet),
         Len(definitions') = Len(flags'), Len(sym) <= Len(definitions'),
         \A s \in DOMAIN definitions' : definitions'[s] <= Len(definitions'),
         canonical' \in [Names -> Nat], \A n \in Names : canonical'[n] <= Len(definitions')
  PROVE  ResolutionInv'
<1>1. /\ phase = "canonicalise" /\ undefined # <<>> /\ undefined' = Tail(undefined)
      /\ UNCHANGED <<sym, phase, untaken, loads, tasks, errors, duplicates, selecting, stores>>
  BY DEF Round
<1>2. /\ Distinct(undefined') /\ \A s \in Symbols : Queued(s)' => Queued(s)
      /\ undefined' \in Seq(Entry)
  BY <1>1, ShorterQueue
<1>3. CellsInv' /\ TasksInv' /\ InitialInv' /\ SettledInv' /\ QueueInv'
  BY <1>1, <1>2, LaterStep DEF LaterPhases
<1>4. Symbols' = Symbols /\ Task' = Task /\ Entry' = Entry
      /\ \A m : DefinitionsOf(m)' = DefinitionsOf(m)
  BY <1>1, SameProgram DEF Entry
<1>5. StateOK'
  BY <1>1, <1>2, <1>4 DEF ResolutionInv, StateOK
<1> QED BY <1>3, <1>5 DEF ResolutionInv

(* Flags with a visibility applied are flags. *)
LEMMA WithVisibilityType ==
  ASSUME NEW fl \in Seq(SUBSET FlagSet), NEW defs, NEW first, NEW vis
  PROVE  /\ WithVisibility(fl, defs, first, vis) \in Seq(SUBSET FlagSet)
         /\ Len(WithVisibility(fl, defs, first, vis)) = Len(fl)
         /\ \A s \in DOMAIN fl : "DYNAMIC" \in WithVisibility(fl, defs, first, vis)[s]
                                 <=> "DYNAMIC" \in fl[s]
<1> DEFINE d == DefinitionIn(defs, first)
           v == ApplyVisibility(fl[d], vis)
           new == WithVisibility(fl, defs, first, vis)
<1>1. CASE vis = Default \/ first = Undefined
  BY <1>1 DEF WithVisibility
<1>2. CASE ~(vis = Default \/ first = Undefined)
  <2>1. new = [fl EXCEPT ![d] = v]
    BY <1>2 DEF WithVisibility
  <2>2. \A s \in DOMAIN fl : fl[s] \in SUBSET FlagSet
    OBVIOUS
  <2>3. d \in DOMAIN fl => v \in SUBSET FlagSet /\ ("DYNAMIC" \in v <=> "DYNAMIC" \in fl[d])
    BY <2>2, ApplyVisibilityType
  <2> HIDE DEF d, v, new
  <2>4. /\ new \in Seq(SUBSET FlagSet) /\ Len(new) = Len(fl)
        /\ \A s \in DOMAIN fl : new[s] = IF s = d THEN v ELSE fl[s]
    BY <2>1, <2>3, SeqExcept
  <2>5. \A s \in DOMAIN fl : "DYNAMIC" \in new[s] <=> "DYNAMIC" \in fl[s]
    BY <2>3, <2>4
  <2> QED BY <2>4, <2>5 DEF new
<1> QED BY <1>1, <1>2

(* The rounds in which nothing new is made. *)
LEMMA AlreadyDefinedInv == ResolutionInv /\ AlreadyDefined => ResolutionInv'
<1> SUFFICES ASSUME ResolutionInv, AlreadyDefined PROVE ResolutionInv'
  OBVIOUS
<1>1. Round /\ UNCHANGED <<definitions, flags, canonical>>
  BY DEF AlreadyDefined
<1> QED BY <1>1, RoundStep DEF ResolutionInv, StateOK

(* A reference to a versioned name is remembered or pointed at another. *)
LEMMA VersionedReferenceInv == ResolutionInv /\ VersionedReference => ResolutionInv'
<1> SUFFICES ASSUME ResolutionInv, VersionedReference PROVE ResolutionInv'
  OBVIOUS
<1> DEFINE s == Reference.symbol
           n == NameOf(s)
<1>1. /\ Round /\ flags' = flags
      /\ \/ canonical' = [canonical EXCEPT ![n] = s] /\ definitions' = definitions
         \/ definitions' = [definitions EXCEPT ![s] = canonical[n]] /\ canonical' = canonical
  BY DEF VersionedReference
<1>2. /\ s \in Symbols /\ n \in Names
      /\ definitions \in Seq(Nat) /\ flags \in Seq(SUBSET FlagSet)
      /\ Len(definitions) \in Nat /\ DOMAIN definitions = 1..Len(definitions)
      /\ Symbols \subseteq DOMAIN definitions
      /\ \A d \in DOMAIN definitions : definitions[d] \in Nat /\ definitions[d] <= Len(definitions)
      /\ canonical \in [Names -> Nat] /\ \A m \in Names : canonical[m] <= Len(definitions)
  BY <1>1, RoundFacts
<1> HIDE DEF s, n
<1>3. s \in Nat /\ s <= Len(definitions) /\ canonical[n] \in Nat /\ canonical[n] <= Len(definitions)
  BY <1>2
<1>4. /\ [definitions EXCEPT ![s] = canonical[n]] \in Seq(Nat)
      /\ Len([definitions EXCEPT ![s] = canonical[n]]) = Len(definitions)
      /\ DOMAIN [definitions EXCEPT ![s] = canonical[n]] = DOMAIN definitions
      /\ \A d \in DOMAIN definitions :
           [definitions EXCEPT ![s] = canonical[n]][d] = IF d = s THEN canonical[n] ELSE definitions[d]
  BY <1>2, <1>3, SeqExcept
<1>5. /\ definitions' \in Seq(Nat) /\ Len(definitions') = Len(definitions)
      /\ \A d \in DOMAIN definitions' : definitions'[d] <= Len(definitions')
  BY <1>1, <1>2, <1>3, <1>4
<1>6. canonical' \in [Names -> Nat] /\ \A m \in Names : canonical'[m] <= Len(definitions')
  BY <1>1, <1>2, <1>3, <1>5
<1>7. Len(flags) = Len(definitions) /\ Len(sym) <= Len(definitions)
  BY DEF ResolutionInv, StateOK
<1> QED BY <1>1, <1>2, <1>5, <1>6, <1>7, RoundStep

(* A start/stop symbol is made. *)
LEMMA StartStopReferenceInv == ResolutionInv /\ StartStopReference => ResolutionInv'
<1> SUFFICES ASSUME ResolutionInv, StartStopReference PROVE ResolutionInv'
  OBVIOUS
<1> DEFINE s == Reference.symbol
           n == NameOf(s)
           id == Len(definitions) + 1
           old == [definitions EXCEPT ![s] = id]
<1>1. /\ Round /\ definitions' = Append(old, id)
      /\ flags' = Append(flags, {"NON_INTERPOSABLE"}) /\ canonical' = [canonical EXCEPT ![n] = id]
  BY DEF StartStopReference
<1>2. /\ s \in Symbols /\ n \in Names
      /\ definitions \in Seq(Nat) /\ flags \in Seq(SUBSET FlagSet)
      /\ Len(definitions) \in Nat /\ DOMAIN definitions = 1..Len(definitions)
      /\ \A d \in DOMAIN definitions : definitions[d] \in Nat /\ definitions[d] <= Len(definitions)
      /\ canonical \in [Names -> Nat] /\ \A m \in Names : canonical[m] <= Len(definitions)
  BY <1>1, RoundFacts
<1>3. Len(flags) = Len(definitions) /\ Len(sym) \in Nat /\ Len(sym) <= Len(definitions)
  BY ProgramFacts DEF ResolutionInv, StateOK
<1>4. id \in Nat /\ id = Len(definitions) + 1 /\ old = [definitions EXCEPT ![s] = id]
  BY <1>2
<1> HIDE DEF s, n, id, old
<1>5. /\ old \in Seq(Nat) /\ Len(old) = Len(definitions)
      /\ \A d \in DOMAIN definitions : old[d] = IF d = s THEN id ELSE definitions[d]
  BY <1>2, <1>4, SeqExcept
<1>6. /\ definitions' \in Seq(Nat) /\ Len(definitions') = id /\ DOMAIN definitions' = 1..id
      /\ \A d \in 1..id : definitions'[d] = IF d = id THEN id ELSE old[d]
  BY <1>1, <1>2, <1>4, <1>5
<1>7. \A d \in DOMAIN definitions' : definitions'[d] <= Len(definitions')
  <2>1. \A d \in DOMAIN definitions : old[d] \in Nat /\ old[d] <= id
    BY <1>2, <1>4, <1>5
  <2>2. \A d \in 1..id : d = id \/ d \in 1..Len(definitions)
    BY <1>2, <1>4
  <2> QED BY <1>2, <1>4, <1>6, <2>1, <2>2
<1>8. flags' \in Seq(SUBSET FlagSet) /\ Len(flags') = id
  <2>1. {"NON_INTERPOSABLE"} \in SUBSET FlagSet
    BY DEF FlagSet
  <2> QED BY <1>1, <1>2, <1>3, <1>4, <2>1
<1>9. canonical' \in [Names -> Nat] /\ \A m \in Names : canonical'[m] <= Len(definitions')
  BY <1>1, <1>2, <1>4, <1>6
<1> QED BY <1>1, <1>3, <1>4, <1>6, <1>7, <1>8, <1>9, RoundStep

(* The reference becomes the canonical one. *)
LEMMA FirstReferenceInv == ResolutionInv /\ FirstReference => ResolutionInv'
<1> SUFFICES ASSUME ResolutionInv, FirstReference PROVE ResolutionInv'
  OBVIOUS
<1> DEFINE s == Reference.symbol
           n == NameOf(s)
           fl == [flags EXCEPT ![s] = @ \cup {UndefinedFlag(s)}]
<1>1. /\ Round /\ definitions' = [definitions EXCEPT ![s] = s]
      /\ flags' = WithVisibility(fl, definitions, FirstOf(n), sym[s].vis)
      /\ canonical' = [canonical EXCEPT ![n] = s]
  BY DEF FirstReference
<1>2. /\ s \in Symbols /\ n \in Names
      /\ definitions \in Seq(Nat) /\ flags \in Seq(SUBSET FlagSet)
      /\ Len(definitions) \in Nat /\ DOMAIN definitions = 1..Len(definitions)
      /\ DOMAIN flags = 1..Len(definitions) /\ Symbols \subseteq DOMAIN definitions
      /\ \A d \in DOMAIN definitions : definitions[d] \in Nat /\ definitions[d] <= Len(definitions)
      /\ canonical \in [Names -> Nat] /\ \A m \in Names : canonical[m] <= Len(definitions)
  BY <1>1, RoundFacts
<1>3. Len(flags) = Len(definitions) /\ Len(sym) <= Len(definitions)
  BY DEF ResolutionInv, StateOK
<1>4. flags[s] \cup {UndefinedFlag(s)} \in SUBSET FlagSet
  <2>1. flags[s] \in SUBSET FlagSet
    BY <1>2, SeqElement
  <2>2. UndefinedFlag(s) \in FlagSet
    BY DEF UndefinedFlag, FlagSet
  <2> QED BY <2>1, <2>2
<1>5. fl \in Seq(SUBSET FlagSet) /\ Len(fl) = Len(flags)
  BY <1>2, <1>4, SeqExcept
<1> HIDE DEF s, n, fl
<1>6. s \in Nat /\ s <= Len(definitions)
  BY <1>2
<1>7. /\ definitions' \in Seq(Nat) /\ Len(definitions') = Len(definitions)
      /\ DOMAIN definitions' = DOMAIN definitions
      /\ \A d \in DOMAIN definitions : definitions'[d] = IF d = s THEN s ELSE definitions[d]
  BY <1>1, <1>2, <1>6, SeqExcept
<1>8. \A d \in DOMAIN definitions' : definitions'[d] <= Len(definitions')
  BY <1>2, <1>6, <1>7
<1>9. flags' \in Seq(SUBSET FlagSet) /\ Len(flags') = Len(flags)
  BY <1>1, <1>5, WithVisibilityType
<1>10. canonical' \in [Names -> Nat] /\ \A m \in Names : canonical'[m] <= Len(definitions')
  BY <1>1, <1>2, <1>6, <1>7
<1> QED BY <1>1, <1>3, <1>7, <1>8, <1>9, <1>10, RoundStep

(* The reference is pointed at the canonical one. *)
LEMMA LaterReferenceInv == ResolutionInv /\ LaterReference => ResolutionInv'
<1> SUFFICES ASSUME ResolutionInv, LaterReference PROVE ResolutionInv'
  OBVIOUS
<1> DEFINE s == Reference.symbol
           n == NameOf(s)
           d == Definition(canonical[n])
<1>1. /\ Round /\ definitions' = [definitions EXCEPT ![s] = d] /\ canonical' = canonical
      /\ canonical[n] # Undefined
      /\ \E first : flags' = WithVisibility(flags, definitions', first, sym[s].vis)
  BY DEF LaterReference
<1>2. /\ s \in Symbols /\ n \in Names
      /\ definitions \in Seq(Nat) /\ flags \in Seq(SUBSET FlagSet)
      /\ Len(definitions) \in Nat /\ DOMAIN definitions = 1..Len(definitions)
      /\ DOMAIN flags = 1..Len(definitions) /\ Symbols \subseteq DOMAIN definitions
      /\ \A e \in DOMAIN definitions : definitions[e] \in Nat /\ definitions[e] <= Len(definitions)
      /\ canonical \in [Names -> Nat] /\ \A m \in Names : canonical[m] <= Len(definitions)
  BY <1>1, RoundFacts
<1>3. Len(flags) = Len(definitions) /\ Len(sym) <= Len(definitions)
  BY DEF ResolutionInv, StateOK
<1>4. d \in Nat /\ d <= Len(definitions)
  <2>1. canonical[n] \in DOMAIN definitions
    BY <1>1, <1>2 DEF Undefined
  <2>2. definitions[canonical[n]] # Undefined => definitions[canonical[n]] \in DOMAIN definitions
    BY <1>2, <2>1 DEF Undefined
  <2> QED BY <1>2, <2>1, <2>2 DEF Definition, DefinitionIn, Undefined
<1> HIDE DEF s, n, d
<1>5. /\ definitions' \in Seq(Nat) /\ Len(definitions') = Len(definitions)
      /\ DOMAIN definitions' = DOMAIN definitions
      /\ \A e \in DOMAIN definitions : definitions'[e] = IF e = s THEN d ELSE definitions[e]
  BY <1>1, <1>2, <1>4, SeqExcept
<1>6. \A e \in DOMAIN definitions' : definitions'[e] <= Len(definitions')
  BY <1>2, <1>4, <1>5
<1>7. flags' \in Seq(SUBSET FlagSet) /\ Len(flags') = Len(flags)
  BY <1>1, <1>2, WithVisibilityType, SMTT(30)
<1> QED BY <1>1, <1>2, <1>3, <1>5, <1>6, <1>7, RoundStep

(* A step that changes nothing. *)
LEMMA StutterInv == ResolutionInv /\ UNCHANGED vars => ResolutionInv'
<1> SUFFICES ASSUME ResolutionInv, UNCHANGED vars PROVE ResolutionInv'
  OBVIOUS
<1>1. UNCHANGED <<sym, phase, untaken, loads, tasks, definitions, flags, undefined, errors,
                  duplicates, selecting, stores, canonical>>
  BY DEF vars
<1>2. Distinct(undefined') /\ \A s \in Symbols : Queued(s)' => Queued(s)
  BY <1>1, ShorterQueue
<1>3. tasks # {} => phase = "resolve"
  BY DEF ResolutionInv, TasksInv
<1>4. phase \notin {"setup", "resolve", "failed"} => errors = 0
  BY DEF ResolutionInv, SettledInv
<1>5. CellsInv' /\ TasksInv' /\ InitialInv' /\ SettledInv' /\ QueueInv'
  BY <1>1, <1>2, <1>3, <1>4, QuietStep
<1>6. Symbols' = Symbols /\ Task' = Task /\ Entry' = Entry
      /\ \A m : DefinitionsOf(m)' = DefinitionsOf(m)
  BY <1>1, SameProgram DEF Entry
<1>7. StateOK'
  BY <1>1, <1>6 DEF ResolutionInv, StateOK
<1> QED BY <1>5, <1>7 DEF ResolutionInv

-----------------------------------------------------------------------------
(* The theorems.                                                           *)

(* The invariant holds throughout, for all symbol tables, however the      *)
(* tasks interleave.                                                       *)
THEOREM ResolutionInvariant == Spec => []ResolutionInv
<1>1. ResolutionInv /\ [Next]_vars => ResolutionInv'
  BY SetUpInv, SkipSymbolInv, FailSymbolInv, LookUpNameInv, ResolveFoundInv, ResolveMissingInv,
     TakeFileInv, GatherInv, SelectNameInv, UpdateDefinitionInv, NextPhaseInv, SortUndefinedInv,
     AlreadyDefinedInv, VersionedReferenceInv, StartStopReferenceInv, FirstReferenceInv,
     LaterReferenceInv, StutterInv
     DEF Next, Step, Finished
<1> QED BY <1>1, InitInv, PTL DEF Spec

(* However many tasks ask for a file, it is loaded once, and no two tasks  *)
(* write the same definitions (resolution.rs: try_request_file_id and      *)
(* work_items_do).                                                         *)
THEOREM LoadsOnce == Spec => []LoadedOnce
<1>1. ASSUME ResolutionInv PROVE LoadedOnce
  <2>1. /\ StateOK /\ sym \in Programs /\ Len(sym) \in Nat /\ Symbols = 1..Len(sym)
    BY <1>1, ProgramFacts DEF ResolutionInv, StateOK
  <2>2. /\ Len(definitions) \in Nat /\ DOMAIN definitions = 1..Len(definitions)
        /\ DOMAIN flags = 1..Len(flags) /\ \A s \in DOMAIN definitions : definitions[s] \in Nat
        /\ \A s \in DOMAIN flags : flags[s] \subseteq FlagSet
    BY <2>1 DEF StateOK
  <2>3. \A s \in DOMAIN definitions : definitions[s] \in {Undefined} \cup DOMAIN definitions
    BY <2>1, <2>2 DEF StateOK, Undefined
  <2>4. canonical \in [Names -> {Undefined} \cup DOMAIN definitions]
    BY <2>1, <2>2 DEF StateOK, Undefined
  <2>5. TypeOK
    BY <2>1, <2>2, <2>3, <2>4 DEF StateOK, TypeOK, Entry
  <2>6. \A f \in Files : loads[f] <= 1
    BY <1>1 DEF ResolutionInv, CellsInv
  <2> QED BY <1>1, <2>5, <2>6 DEF LoadedOnce, ResolutionInv, TasksInv
<1> QED BY <1>1, ResolutionInvariant, PTL

(* When the scope has ended without an error, the symbols of the loaded    *)
(* files are settled.                                                      *)
LEMMA AllSettled ==
  ASSUME ResolutionInv, tasks = {}, phase # "setup", errors = 0,
         NEW s \in Symbols, FileOf(s) \in Loaded
  PROVE  RequestedBy(s) \cap untaken = {} /\ (sym[s].readable \/ sym[s].def \/ Ignored(s))
<1>1. FileOf(s) \notin untaken
  BY DEF Loaded, ResolutionInv, CellsInv
<1>2. ~Unresolved(s)
  BY <1>1 DEF Unresolved
<1>3. Settled(s)
  BY <1>2 DEF ResolutionInv, SettledInv
<1> QED BY <1>3 DEF Settled

(* The steps of resolution that load files are steps of the marking, and   *)
(* so is its end.                                                          *)
LEMMA LoadingStep ==
  ASSUME ResolutionInv, ResolutionInv', [Next]_vars
  PROVE  [Marking!Next]_<<Pulls, Loaded, Outcome>>
<1>1. sym \in Programs /\ untaken \subseteq Optional /\ tasks \subseteq Task /\ errors \in 0..1
  BY DEF ResolutionInv, StateOK
<1>2. sym' = sym => Pulls' = Pulls
  BY SameProgram
<1>3. CASE SetUp
  <2>1. Outcome = "none" /\ Outcome' = "none" /\ Pulls' = Pulls
    BY <1>2, <1>3 DEF SetUp, Outcome
  <2>2. Loaded = {}
    BY <1>3 DEF SetUp, Loaded, ResolutionInv, CellsInv
  <2>3. Loaded' = Files \ Optional
    BY <1>3 DEF SetUp, Loaded
  <2>4. Prelude \in Files \ Optional
    BY ResolutionAssumption
  <2>5. Files \ Optional \in (SUBSET (Marking!Needed({}) \ {})) \ {{}}
    BY <2>4 DEF Marking!Needed
  <2>6. Marking!Keep
    BY <2>1, <2>2, <2>3, <2>5 DEF Marking!Keep
  <2> QED BY <2>6 DEF Marking!Next
<1>4. CASE TakeFile
  <2>1. UNCHANGED <<sym, phase>> /\ Pulls' = Pulls /\ Outcome' = Outcome
    BY <1>2, <1>4 DEF TakeFile, Outcome
  <2>2. PICK t \in tasks : /\ t.ask # NoFile
                           /\ t.ask \in untaken => loads' = [loads EXCEPT ![t.ask] = @ + 1]
                           /\ t.ask \notin untaken => loads' = loads
    BY <1>4 DEF TakeFile
  <2>3. /\ phase = "resolve" /\ loads \in [Files -> Nat] /\ t.file \in Files /\ t.ask \in Files
        /\ loads[t.file] = 1 /\ t.ask \in Pulls[t.file]
    BY <1>1, <2>2 DEF ResolutionInv, StateOK, TasksInv, Task
  <2>4. CASE t.ask \notin untaken
    BY <2>1, <2>2, <2>4 DEF Loaded
  <2>5. CASE t.ask \in untaken
    <3>1. loads[t.ask] = 0
      BY <2>3, <2>5 DEF ResolutionInv, CellsInv
    <3>2. Loaded' = Loaded \cup {t.ask} /\ t.ask \notin Loaded
      BY <2>2, <2>3, <2>5, <3>1 DEF Loaded
    <3>3. t.ask \in Marking!Needed(Loaded)
      BY <2>3 DEF Marking!Needed, Loaded
    <3>4. {t.ask} \in (SUBSET (Marking!Needed(Loaded) \ Loaded)) \ {{}}
      BY <3>2, <3>3
    <3>5. Outcome = "none"
      BY <2>3 DEF Outcome
    <3>6. Marking!Keep
      BY <2>1, <3>2, <3>4, <3>5 DEF Marking!Keep
    <3> QED BY <3>6 DEF Marking!Next
  <2> QED BY <2>4, <2>5
<1>5. CASE Gather
  <2>1. /\ Loaded' = Loaded /\ Pulls' = Pulls /\ Outcome = "none"
        /\ Outcome' = IF errors > 0 THEN "err" ELSE "ok"
    BY <1>2, <1>5 DEF Gather, Loaded, Outcome
  <2>2. CASE errors > 0
    BY <2>1, <2>2 DEF Marking!Next, Marking!Fail
  <2>3. CASE errors = 0
    <3>1. tasks = {} /\ phase = "resolve"
      BY <1>5 DEF Gather, ScopeEnded
    <3>2. \A f \in Files : f \in Loaded <=> f \notin untaken
      BY <3>1 DEF Loaded, ResolutionInv, CellsInv
    <3>3. Files \ Optional \subseteq Loaded
      BY <1>1, <3>2
    <3>4. ASSUME NEW f \in Loaded PROVE Pulls[f] \subseteq Loaded
      <4> SUFFICES ASSUME NEW g \in Pulls[f] PROVE g \in Loaded
        OBVIOUS
      <4>1. f \in Files
        BY DEF Loaded
      <4>2. PICK s \in SymbolsOf(f) : g \in RequestedBy(s)
        BY <4>1 DEF Pulls
      <4>3. s \in Symbols /\ FileOf(s) = f
        BY DEF SymbolsOf
      <4>4. g \in Files
        BY <1>1, <4>2, <4>3, ReferenceFacts
      <4>5. g \notin untaken
        BY <2>3, <3>1, <4>2, <4>3, AllSettled
      <4> QED BY <3>2, <4>4, <4>5
    <3>5. Marking!Closed(Loaded)
      BY <3>3, <3>4 DEF Marking!Closed, Marking!Needed
    <3>6. Marking!Succeed
      BY <2>1, <2>3, <3>5 DEF Marking!Succeed
    <3> QED BY <3>6 DEF Marking!Next
  <2> QED BY <1>1, <2>2, <2>3
<1>6. CASE SkipSymbol \/ FailSymbol \/ LookUpName \/ ResolveFound \/ ResolveMissing \/ SelectName
           \/ UpdateDefinition \/ AlreadyDefined \/ VersionedReference \/ StartStopReference
           \/ FirstReference \/ LaterReference \/ UNCHANGED vars
  <2>1. UNCHANGED <<sym, phase, loads>>
    BY <1>6 DEF SkipSymbol, FailSymbol, LookUpName, ResolveFound, ResolveMissing, SelectName,
                UpdateDefinition, AlreadyDefined, VersionedReference, StartStopReference,
                FirstReference, LaterReference, Round, vars
  <2> QED BY <1>2, <2>1 DEF Outcome, Loaded
<1>7. CASE EndSelect \/ SortUndefined \/ EndCanonicalise
  <2>1. /\ UNCHANGED <<sym, loads>> /\ phase \in LaterPhases /\ phase' \in LaterPhases
    BY <1>7 DEF EndSelect, SortUndefined, EndCanonicalise, LaterPhases
  <2>2. Outcome = "ok" /\ Outcome' = "ok"
    BY <2>1 DEF Outcome, LaterPhases
  <2> QED BY <1>2, <2>1, <2>2 DEF Loaded
<1> QED BY <1>3, <1>4, <1>5, <1>6, <1>7 DEF Next, Step, Finished

(* Selection of archive members implements the marking of files: each step *)
(* loads files that loaded ones need, and resolution succeeds only when    *)
(* nothing needed is missing and every symbol of a loaded file could be    *)
(* read, however the tasks interleave (resolution.rs: resolve_symbol,      *)
(* try_request_file_id, Outputs).                                          *)
THEOREM LoadsNeeded == Spec => LoadsWhatIsNeeded
<1>1. Init => Marking!Init
  <2> SUFFICES ASSUME Init PROVE Marking!Init
    OBVIOUS
  <2>1. Loaded = {} /\ Outcome = "none"
    BY DEF Init, Loaded, Outcome
  <2>2. sym \in Programs
    BY DEF Init
  <2>3. \A f \in Files : \A s \in SymbolsOf(f) : RequestedBy(s) \subseteq Files
    BY <2>2, ReferenceFacts DEF SymbolsOf
  <2>4. Pulls \in [Files -> SUBSET Files]
    BY <2>3 DEF Pulls
  <2> QED BY <2>1, <2>4 DEF Marking!Init
<1>2. ResolutionInv /\ ResolutionInv' /\ [Next]_vars => [Marking!Next]_<<Pulls, Loaded, Outcome>>
  BY LoadingStep
<1>3. Spec => Marking!Spec
  BY <1>1, <1>2, ResolutionInvariant, PTL DEF Spec, Marking!Spec
<1>4. ASSUME ResolutionInv PROVE ErrorsAreReported
  <2>1. ASSUME phase \in {"select", "sort", "canonicalise", "done"} PROVE tasks = {} /\ errors = 0
    BY <1>4, <2>1 DEF ResolutionInv, TasksInv, SettledInv
  <2> QED BY <1>4, <2>1, AllSettled DEF ErrorsAreReported
<1>5. Spec => []ErrorsAreReported
  BY <1>4, ResolutionInvariant, PTL
<1> QED BY <1>3, <1>5, PTL DEF LoadsWhatIsNeeded

(***************************************************************************)
(* Proofs about the second half of Resolution: which definition is         *)
(* selected for a name, and what the references lead to in the end.        *)
(***************************************************************************)

-----------------------------------------------------------------------------
(* The invariants.                                                         *)

(* A definition is flagged as dynamic exactly when its file is a shared    *)
(* object, whatever visibility was merged into its flags.                  *)
KindsInv ==
  \A s \in Symbols : sym[s].def => ("DYNAMIC" \in flags[s] <=> FileOf(s) \in Dynamic)

(* Strong definitions of n in loaded objects that are not all in COMDAT    *)
(* groups.                                                                 *)
ClashOf(n) ==
  /\ Cardinality(Regular(n, {"Strong"})) > 1 /\ ~AllowMultipleDefinitions
  /\ \E d \in Regular(n, {"Strong"}) : ~sym[d].comdat

(* Every definition of n leads to the strongest one, or a store that makes *)
(* it do so is pending.                                                    *)
SelectedOrStored(n) ==
  \A d \in DefinitionsOf(n) :
    definitions[d] = Strongest(n) \/ <<d, Strongest(n)>> \in stores[n]

(* Names are selected for one by one; until then nothing is stored.        *)
SelectingInv ==
  /\ phase \in {"setup", "resolve"} =>
       selecting = {} /\ duplicates = {} /\ \A n \in Names : stores[n] = {}
  /\ phase = "select" => \A n \in Names :
       /\ n \in selecting => stores[n] = {} /\ n \notin duplicates
       /\ n \notin selecting => (n \in duplicates <=> ClashOf(n))
       /\ stores[n] \subseteq DefinitionsOf(n) \X {Strongest(n)}
       /\ n \in Plain /\ n \notin selecting \cup duplicates => SelectedOrStored(n)

SelectionInv == KindsInv /\ SelectingInv /\ SelectedIsStrongest

(* The references that a task resolves, what they lead to, and the entry   *)
(* that is queued for those that may stay undefined.                       *)
Refs == {s \in Symbols : ~sym[s].def /\ ~Ignored(s) /\ FileOf(s) \notin Scripts}
Target(s) == Get(NameOf(s), sym[s].vis = Default)
EntryOf(s) ==
  [symbol |-> s,
   ignore_if_loaded |-> IF Target(s) = Undefined THEN NoFile ELSE FileOf(Target(s))]
ToQueue(s) ==
  \/ Target(s) = Undefined
  \/ (FileOf(Target(s)) = FileOf(s) \/ IsWeak(s)) /\ FileOf(Target(s)) # Prelude

(* The queue holds such entries only, in the end in descending order. *)
EntriesInv ==
  /\ \A i \in DOMAIN undefined : /\ undefined[i] = EntryOf(undefined[i].symbol)
                                 /\ ToQueue(undefined[i].symbol)
  /\ phase = "canonicalise" =>
       \A i, j \in DOMAIN undefined : i < j => undefined[i].symbol > undefined[j].symbol

(* A reference that has been resolved leads to its target, and is queued   *)
(* when it may stay undefined.                                             *)
TargetsInv ==
  phase \in {"resolve", "select", "sort"} /\ errors = 0 =>
    \A s \in Refs : ~Unresolved(s) => /\ definitions[s] = Target(s)
                                      /\ ToQueue(s) => Queued(s)

(* The references that canonicalise_undefined_symbols makes undefined, and *)
(* those of them it is done with.                                          *)
LoadedRefs == {s \in Refs : FileOf(s) \in Loaded}
Missing(s) == ToQueue(s) /\ EntryOf(s).ignore_if_loaded \notin Loaded
Done(s) == Missing(s) /\ ~Queued(s)

(* All references of a name that were made undefined lead to its canonical *)
(* symbol, which is the last of them or a start/stop symbol.               *)
IsCanonical(c, n) ==
  /\ definitions[c] = c
  /\ IF n \in StartStop THEN c > Len(sym)
     ELSE c \in LoadedRefs /\ NameOf(c) = n /\ Done(c)

CanonicalInv ==
  /\ phase \notin {"canonicalise", "done"} => \A n \in Names : canonical[n] = Undefined
  /\ phase \in {"canonicalise", "done"} =>
       /\ \A s \in LoadedRefs : ~Done(s) => definitions[s] = Target(s)
       /\ \A s \in LoadedRefs : Done(s) /\ NameOf(s) \notin Versioned =>
            /\ canonical[NameOf(s)] # Undefined
            /\ definitions[s] = canonical[NameOf(s)] /\ s <= canonical[NameOf(s)]
       /\ \A n \in Names \ Versioned : canonical[n] # Undefined =>
            /\ IsCanonical(canonical[n], n)
            /\ \A s \in Symbols : Queued(s) => s < canonical[n]
  /\ phase = "done" => undefined = <<>>

ReferencesInv == EntriesInv /\ TargetsInv /\ CanonicalInv

-----------------------------------------------------------------------------
(* The selection.                                                          *)

(* What depends on the symbol tables and the loaded files alone. *)
LEMMA SameLoaded ==
  ASSUME UNCHANGED <<sym, loads>>
  PROVE  /\ Loaded' = Loaded /\ Plain' = Plain
         /\ \A n : Strongest(n)' = Strongest(n) /\ (ClashOf(n)' <=> ClashOf(n))
<1>1. Loaded' = Loaded
  BY DEF Loaded
<1>2. Plain' = Plain
  BY DEF Plain, DefinitionsOf, Symbols, Ignored, FileOf
<1>3. \A n : Strongest(n)' = Strongest(n)
  BY DEF Strongest, Regular, Largest, First, FirstOf, DefinitionsOf, Symbols, Ignored, FileOf, Loaded
<1>4. \A n : ClashOf(n)' <=> ClashOf(n)
  BY DEF ClashOf, Regular, DefinitionsOf, Symbols, Ignored, FileOf, Loaded
<1> QED BY <1>1, <1>2, <1>3, <1>4

(* There is one first element. *)
LEMMA FirstIs ==
  ASSUME NEW S \in SUBSET Nat, NEW x \in S, \A s \in S : x <= s
  PROVE  First(S) = x
<1>1. First(S) \in S /\ \A s \in S : First(S) <= s
  BY FirstIsLeast
<1>2. First(S) <= x /\ x <= First(S) /\ First(S) \in Nat /\ x \in Nat
  BY <1>1
<1> QED BY <1>2

(* What the first pass of select_symbol finds among the definitions that   *)
(* are not in shared objects.                                              *)
LEMMA ScanFacts ==
  ASSUME sym \in Programs, KindsInv, NEW n
  PROVE  /\ IsFirst(Scan(n).first_strong, Regular(n, {"Strong"}))
         /\ IsFirstLargest(Scan(n).max_common, Regular(n, {"Common"}))
         /\ IsFirst(Scan(n).first_weak, Regular(n, {"Weak", "GnuUnique"}))
<1> DEFINE C == {s \in DefinitionsOf(n) : "DYNAMIC" \notin flags[s]}
           strength == [s \in C |-> Strength(s)]
           sel == Considered(C, strength)
<1>1. /\ DefinitionsOf(n) \subseteq Symbols
      /\ \A s \in DefinitionsOf(n) : sym[s].def /\ sym[s].binding \in Bindings
  BY LookUpFacts, ProgramFacts DEF DefinitionsOf
<1>2. C = {s \in DefinitionsOf(n) : FileOf(s) \notin Dynamic}
  BY <1>1 DEF KindsInv
<1>3. \A s \in DefinitionsOf(n) : Strength(s) \in Strengths
  BY <1>1 DEF Strength, Strengths
<1>4. C \in SUBSET Symbols /\ strength \in [C -> Strengths]
  BY <1>1, <1>3
<1>5. Scan(n) = sel
  BY DEF Scan
<1>6. ASSUME NEW B \in SUBSET Bindings PROVE {s \in C : strength[s] \in B} = Regular(n, B)
  <2>1. "Undefined" \notin B
    BY DEF Bindings
  <2>2. \A s \in C : strength[s] \in B <=> FileOf(s) \in Loaded \ Scripts /\ sym[s].binding \in B
    BY <2>1 DEF Strength
  <2> QED BY <1>2, <2>2 DEF Regular
<1>7. /\ {s \in C : strength[s] = "Strong"} = Regular(n, {"Strong"})
      /\ {s \in C : strength[s] = "Common"} = Regular(n, {"Common"})
      /\ {s \in C : strength[s] \in {"Weak", "GnuUnique"}} = Regular(n, {"Weak", "GnuUnique"})
  <2>1. {"Strong"} \in SUBSET Bindings /\ {"Common"} \in SUBSET Bindings
        /\ {"Weak", "GnuUnique"} \in SUBSET Bindings
    BY DEF Bindings
  <2>2. /\ {s \in C : strength[s] \in {"Strong"}} = Regular(n, {"Strong"})
        /\ {s \in C : strength[s] \in {"Common"}} = Regular(n, {"Common"})
        /\ {s \in C : strength[s] \in {"Weak", "GnuUnique"}} = Regular(n, {"Weak", "GnuUnique"})
    BY <1>6, <2>1
  <2>3. /\ {s \in C : strength[s] \in {"Strong"}} = {s \in C : strength[s] = "Strong"}
        /\ {s \in C : strength[s] \in {"Common"}} = {s \in C : strength[s] = "Common"}
    OBVIOUS
  <2> QED BY <2>2, <2>3
<1> HIDE DEF C, strength, sel
<1>8. /\ IsFirst(sel.first_strong, {s \in C : strength[s] = "Strong"})
      /\ IsFirstLargest(sel.max_common, {s \in C : strength[s] = "Common"})
      /\ IsFirst(sel.first_weak, {s \in C : strength[s] \in {"Weak", "GnuUnique"}})
  BY <1>4, ConsideredIs DEF sel
<1> QED BY <1>5, <1>7, <1>8

(* select_symbol selects the strongest definition. *)
LEMMA SelectsStrongest ==
  ASSUME sym \in Programs, KindsInv, NEW n, DefinitionsOf(n) # {}
  PROVE  SelectSymbol(n) = Strongest(n) /\ Strongest(n) \in DefinitionsOf(n)
<1> DEFINE strong == Regular(n, {"Strong"})
           common == Regular(n, {"Common"})
           weak == Regular(n, {"Weak", "GnuUnique"})
           shared == {d \in DefinitionsOf(n) : FileOf(d) \in Loaded \cap Dynamic}
           defined == {s \in DefinitionsOf(n) : Strength(s) # "Undefined"}
           sel == Scan(n)
<1>1. /\ DefinitionsOf(n) \subseteq Symbols /\ DefinitionsOf(n) \subseteq Nat \ {0}
      /\ \A s \in Symbols : sym[s].size \in Nat
      /\ \A s \in DefinitionsOf(n) : sym[s].binding \in Bindings
  BY LookUpFacts, ProgramFacts
<1>2. \A B : Regular(n, B) \subseteq DefinitionsOf(n)
  BY DEF Regular
<1>3. /\ IsFirst(sel.first_strong, strong)
      /\ IsFirstLargest(sel.max_common, common)
      /\ IsFirst(sel.first_weak, weak)
  BY ScanFacts
<1>4. /\ Regular(n, Bindings) = strong \cup common \cup weak
      /\ Regular(n, {"Strong", "Common"}) = strong \cup common
  BY DEF Regular, Bindings
<1>5. Regular(n, Bindings) = {} => defined = shared
  <2> SUFFICES ASSUME Regular(n, Bindings) = {}, NEW s \in DefinitionsOf(n)
               PROVE  Strength(s) # "Undefined" <=> FileOf(s) \in Loaded \cap Dynamic
    OBVIOUS
  <2>1. Strength(s) # "Undefined" <=> FileOf(s) \in Loaded \ Scripts
    BY <1>1 DEF Strength, Bindings
  <2>2. FileOf(s) \notin Loaded \ (Scripts \cup Dynamic)
    BY <1>1 DEF Regular
  <2> QED BY <2>1, <2>2, ResolutionAssumption
<1>6. SelectSymbol(n) = IF Best(sel) # Undefined THEN Best(sel)
                        ELSE IF defined # {} THEN First(defined) ELSE FirstOf(n)
  BY DEF SelectSymbol
<1>7. SelectSymbol(n) \in DefinitionsOf(n)
  BY SelectSymbolType
<1>8. 0 \notin strong /\ 0 \notin common /\ 0 \notin weak /\ Undefined = 0
  BY <1>1, <1>2 DEF Undefined
<1>9. strong \in SUBSET Nat /\ common \in SUBSET Nat /\ weak \in SUBSET Nat
  BY <1>1, <1>2
<1> HIDE DEF strong, common, weak, shared, defined, sel
<1>10. CASE strong # {}
  <2>1. sel.first_strong \in strong /\ \A s \in strong : sel.first_strong <= s
    BY <1>3, <1>10 DEF IsFirst
  <2>2. First(strong) = sel.first_strong
    BY <1>9, <2>1, FirstIs
  <2>3. SelectSymbol(n) = First(strong)
    BY <1>6, <1>8, <2>1, <2>2 DEF Best
  <2>4. Regular(n, Bindings) # {} /\ Regular(n, {"Strong", "Common"}) # {}
    BY <1>4, <1>10
  <2>5. Strongest(n) = First(strong)
    BY <1>10, <2>4 DEF Strongest, strong
  <2> QED BY <1>7, <2>3, <2>5
<1>11. CASE strong = {} /\ common # {}
  <2>1. /\ sel.first_strong = Undefined /\ sel.max_common \in common
        /\ \A s \in common : /\ sym[s].size <= sym[sel.max_common].size
                             /\ sym[s].size = sym[sel.max_common].size => sel.max_common <= s
    BY <1>3, <1>11 DEF IsFirst, IsFirstLargest
  <2>2. \A s \in common : sym[s].size \in Nat
    BY <1>1, <1>2 DEF common
  <2>3. Largest(common) \in SUBSET Nat /\ sel.max_common \in Largest(common)
    BY <1>9, <2>1 DEF Largest
  <2>4. \A s \in Largest(common) : sel.max_common <= s
    <3> SUFFICES ASSUME NEW s \in Largest(common) PROVE sel.max_common <= s
      OBVIOUS
    <3>1. s \in common /\ sym[sel.max_common].size <= sym[s].size
      BY <2>1 DEF Largest
    <3>2. sym[s].size = sym[sel.max_common].size
      BY <2>1, <2>2, <3>1
    <3> QED BY <2>1, <3>1, <3>2
  <2>5. First(Largest(common)) = sel.max_common
    BY <2>3, <2>4, FirstIs
  <2>6. SelectSymbol(n) = First(Largest(common))
    BY <1>6, <1>8, <2>1, <2>5 DEF Best
  <2>7. Regular(n, Bindings) # {} /\ Regular(n, {"Strong", "Common"}) # {}
    BY <1>4, <1>11
  <2>8. Strongest(n) = First(Largest(common))
    BY <1>11, <2>7 DEF Strongest, strong, common
  <2> QED BY <1>7, <2>6, <2>8
<1>12. CASE strong = {} /\ common = {} /\ weak # {}
  <2>1. /\ sel.first_strong = Undefined /\ sel.max_common = Undefined
        /\ sel.first_weak \in weak /\ \A s \in weak : sel.first_weak <= s
    BY <1>3, <1>12 DEF IsFirst, IsFirstLargest
  <2>2. First(weak) = sel.first_weak
    BY <1>9, <2>1, FirstIs
  <2>3. SelectSymbol(n) = First(weak)
    BY <1>6, <1>8, <2>1, <2>2 DEF Best
  <2>4. Regular(n, Bindings) = weak /\ Regular(n, {"Strong", "Common"}) = {}
    BY <1>4, <1>12
  <2>5. Strongest(n) = First(weak)
    BY <1>12, <2>4 DEF Strongest, strong, common
  <2> QED BY <1>7, <2>3, <2>5
<1>13. CASE strong = {} /\ common = {} /\ weak = {}
  <2>1. Best(sel) = Undefined
    BY <1>3, <1>13 DEF IsFirst, IsFirstLargest, Best
  <2>2. Regular(n, Bindings) = {} /\ Regular(n, {"Strong", "Common"}) = {}
    BY <1>4, <1>13
  <2>3. defined = shared
    BY <1>5, <2>2
  <2>4. SelectSymbol(n) = IF shared # {} THEN First(shared) ELSE FirstOf(n)
    BY <1>6, <2>1, <2>3
  <2>5. Strongest(n) = IF shared # {} THEN First(shared) ELSE FirstOf(n)
    BY <1>13, <2>2 DEF Strongest, strong, common, shared
  <2> QED BY <1>7, <2>4, <2>5
<1> QED BY <1>10, <1>11, <1>12, <1>13

(* Cardinality > 1, for a finite set. *)
LEMMA MoreThanOne ==
  ASSUME NEW S, IsFiniteSet(S)
  PROVE  Cardinality(S) > 1 <=> \E a, b \in S : a # b
<1>1. Cardinality(S) \in Nat
  BY FS_CardinalityType
<1>2. Cardinality(S) = 0 <=> S = {}
  BY FS_EmptySet
<1>3. Cardinality(S) = 1 <=> \E x : S = {x}
  BY FS_Singleton
<1>4. (\E a, b \in S : a # b) <=> ~(S = {}) /\ ~(\E x : S = {x})
  OBVIOUS
<1>5. Cardinality(S) > 1 <=> ~(Cardinality(S) = 0) /\ ~(Cardinality(S) = 1)
  BY <1>1
<1> QED BY <1>2, <1>3, <1>4, <1>5

(* A name has finitely many definitions. *)
LEMMA FiniteDefinitions ==
  ASSUME sym \in Programs, NEW n
  PROVE  IsFiniteSet(DefinitionsOf(n)) /\ \A B : IsFiniteSet(Regular(n, B))
<1>1. Len(sym) \in Nat /\ Symbols = 1..Len(sym)
  BY ProgramFacts
<1>2. IsFiniteSet(Symbols)
  BY <1>1, FS_Interval
<1>3. DefinitionsOf(n) \in SUBSET Symbols /\ \A B : Regular(n, B) \in SUBSET Symbols
  BY DEF DefinitionsOf, Regular
<1> QED BY <1>2, <1>3, FS_Subset

(* The check inside the scan finds a clash when there is one, although it  *)
(* compares each strong definition with the first one only.                *)
LEMMA DuplicateIsClash ==
  ASSUME sym \in Programs, KindsInv, NEW n
  PROVE  HasDuplicate(n) <=> ClashOf(n)
<1> DEFINE strong == Regular(n, {"Strong"})
           first == Scan(n).first_strong
<1>1. /\ DefinitionsOf(n) \subseteq Symbols /\ 0 \notin DefinitionsOf(n)
      /\ \A s \in DefinitionsOf(n) : sym[s].def /\ sym[s].comdat \in BOOLEAN
      /\ AllowMultipleDefinitions \in BOOLEAN
  BY LookUpFacts, ProgramFacts, ResolutionAssumption DEF DefinitionsOf
<1>2. IF strong = {} THEN first = Undefined ELSE first \in strong
  BY ScanFacts DEF IsFirst
<1>3. \A id \in DefinitionsOf(n) :
         "DYNAMIC" \notin flags[id] /\ Strength(id) = "Strong" <=> id \in strong
  BY <1>1 DEF KindsInv, Strength, Regular
<1>4. strong \subseteq DefinitionsOf(n) /\ IsFiniteSet(strong)
  BY FiniteDefinitions DEF Regular
<1>5. HasDuplicate(n) <=>
        \E id \in DefinitionsOf(n) \ {first} :
          /\ "DYNAMIC" \notin flags[id] /\ first # Undefined /\ Strength(id) = "Strong"
          /\ ~AllowMultipleDefinitions /\ ~(sym[first].comdat /\ sym[id].comdat)
  BY DEF HasDuplicate, Clash
<1>6. ClashOf(n) <=> /\ \E a, b \in strong : a # b
                     /\ ~AllowMultipleDefinitions /\ \E d \in strong : ~sym[d].comdat
  BY <1>4, MoreThanOne DEF ClashOf
<1> HIDE DEF strong, first
<1>7. first # Undefined <=> first \in strong
  BY <1>1, <1>2, <1>4 DEF Undefined
<1>8. HasDuplicate(n) <=>
        \E id \in strong \ {first} : /\ first \in strong /\ ~AllowMultipleDefinitions
                                     /\ ~(sym[first].comdat /\ sym[id].comdat)
  BY <1>3, <1>4, <1>5, <1>7
<1>9. ASSUME HasDuplicate(n) PROVE ClashOf(n)
  <2>1. PICK id \in strong \ {first} : /\ first \in strong /\ ~AllowMultipleDefinitions
                                       /\ ~(sym[first].comdat /\ sym[id].comdat)
    BY <1>8, <1>9
  <2>2. \E d \in strong : ~sym[d].comdat
    BY <2>1
  <2> QED BY <1>6, <2>1, <2>2
<1>10. ASSUME ClashOf(n) PROVE HasDuplicate(n)
  <2>1. PICK d \in strong : ~sym[d].comdat /\ ~AllowMultipleDefinitions
    BY <1>6, <1>10
  <2>2. first \in strong
    BY <1>2, <2>1
  <2>3. PICK other \in strong : other # first
    BY <1>6, <1>10
  <2>4. CASE d = first
    BY <1>8, <2>1, <2>2, <2>3, <2>4
  <2>5. CASE d # first
    BY <1>8, <2>1, <2>2, <2>5
  <2> QED BY <2>4, <2>5
<1> QED BY <1>9, <1>10

(* The flags that tell shared objects from others are never changed. *)
LEMMA KindsStep ==
  ASSUME ResolutionInv, KindsInv, [Next]_vars
  PROVE  KindsInv'
<1>1. /\ sym \in Programs /\ Len(sym) \in Nat /\ Symbols = 1..Len(sym)
      /\ flags \in Seq(SUBSET FlagSet) /\ Symbols \subseteq DOMAIN flags
      /\ \A s \in DOMAIN flags : flags[s] \in SUBSET FlagSet
  <2>1. sym \in Programs /\ Len(sym) \in Nat /\ Symbols = 1..Len(sym)
    BY ProgramFacts DEF ResolutionInv, StateOK
  <2>2. flags \in Seq(SUBSET FlagSet) /\ Len(sym) <= Len(flags)
    BY DEF ResolutionInv, StateOK
  <2>3. DOMAIN flags = 1..Len(flags) /\ Len(flags) \in Nat
        /\ \A s \in DOMAIN flags : flags[s] \in SUBSET FlagSet
    BY <2>2
  <2> QED BY <2>1, <2>2, <2>3
<1>2. SUFFICES ASSUME sym' = sym,
                      \A s \in Symbols : sym[s].def =>
                        ("DYNAMIC" \in flags'[s] <=> "DYNAMIC" \in flags[s])
               PROVE  KindsInv'
  <2>1. sym' = sym
    BY DEF Next, Step, Finished, vars, SetUp, SkipSymbol, FailSymbol, LookUpName, ResolveFound,
           ResolveMissing, TakeFile, Gather, SelectName, UpdateDefinition, EndSelect, SortUndefined,
           AlreadyDefined, VersionedReference, StartStopReference, FirstReference, LaterReference,
           EndCanonicalise, Round
  <2> SUFFICES \A s \in Symbols : sym[s].def => ("DYNAMIC" \in flags'[s] <=> "DYNAMIC" \in flags[s])
    BY <2>1
  <2>2. CASE UNCHANGED flags
    BY <2>2
  <2>3. CASE ResolveFound
    <3>1. PICK t \in Ready :
            flags' = [flags EXCEPT ![Get(NameOf(t.pos), sym[t.pos].vis = Default)] =
                        ApplyVisibility(@, sym[t.pos].vis)]
      BY <2>3 DEF ResolveFound
    <3> DEFINE id == Get(NameOf(t.pos), sym[t.pos].vis = Default)
               vis == sym[t.pos].vis
    <3>2. \A s \in Symbols : flags'[s] = IF s = id THEN ApplyVisibility(flags[s], vis) ELSE flags[s]
      BY <1>1, <3>1
    <3> QED BY <1>1, <3>2, ApplyVisibilityType
  <2>4. CASE SelectName
    <3>1. \/ UNCHANGED flags
          \/ \E n \in selecting : flags' = [s \in DOMAIN flags |->
               IF s \in DefinitionsOf(n) THEN MergeVisibility(flags[s], LeastVisible(n)) ELSE flags[s]]
      BY <2>4 DEF SelectName
    <3> QED BY <1>1, <3>1, MergeVisibilityType
  <2>5. CASE StartStopReference
    <3>1. flags' = Append(flags, {"NON_INTERPOSABLE"})
      BY <2>5 DEF StartStopReference
    <3>2. \A s \in DOMAIN flags : flags'[s] = flags[s]
      BY <1>1, <3>1
    <3> QED BY <1>1, <3>2
  <2>6. CASE FirstReference
    <3> DEFINE r == Reference.symbol
               fl == [flags EXCEPT ![r] = @ \cup {UndefinedFlag(r)}]
    <3>1. Round /\ \E first, vis : flags' = WithVisibility(fl, definitions, first, vis)
      BY <2>6 DEF FirstReference
    <3>2. r \in Symbols /\ ~sym[r].def
      BY <3>1, RoundFacts
    <3>3. flags[r] \cup {UndefinedFlag(r)} \in SUBSET FlagSet
      BY <1>1, <3>2 DEF UndefinedFlag, FlagSet
    <3>4. fl \in Seq(SUBSET FlagSet) /\ DOMAIN fl = DOMAIN flags
          /\ \A s \in Symbols : sym[s].def => fl[s] = flags[s]
      BY <1>1, <3>2, <3>3, SeqExcept
    <3> HIDE DEF fl
    <3>5. \A s \in DOMAIN fl : "DYNAMIC" \in flags'[s] <=> "DYNAMIC" \in fl[s]
      BY <3>1, <3>4, WithVisibilityType
    <3> QED BY <1>1, <3>4, <3>5
  <2>7. CASE LaterReference
    <3>1. \E first, vis : flags' = WithVisibility(flags, definitions', first, vis)
      BY <2>7 DEF LaterReference
    <3>2. \A s \in DOMAIN flags : "DYNAMIC" \in flags'[s] <=> "DYNAMIC" \in flags[s]
      BY <1>1, <3>1, WithVisibilityType
    <3> QED BY <1>1, <3>2
  <2>8. UNCHANGED flags \/ ResolveFound \/ SelectName \/ StartStopReference \/ FirstReference
        \/ LaterReference
    BY DEF Next, Step, Finished, vars, SetUp, SkipSymbol, FailSymbol, LookUpName, ResolveMissing,
           TakeFile, Gather, UpdateDefinition, EndSelect, SortUndefined, AlreadyDefined,
           VersionedReference, EndCanonicalise, Round
  <2> QED BY <2>2, <2>3, <2>4, <2>5, <2>6, <2>7, <2>8
<1>3. Symbols' = Symbols /\ \A s : FileOf(s)' = FileOf(s)
  BY <1>2, SameProgram
<1> QED BY <1>2, <1>3 DEF KindsInv

(* DuplicatesFail, name by name. *)
LEMMA DuplicatesFailIs ==
  DuplicatesFail <=>
    /\ phase = "duplicates" => \E n \in Names : ClashOf(n)
    /\ phase \in {"sort", "canonicalise", "done"} => \A n \in Names : ~ClashOf(n)
BY DEF DuplicatesFail, ClashOf

(* A name with fewer than two definitions needs no selection. *)
LEMMA OneDefinition ==
  ASSUME sym \in Programs, KindsInv, NEW n, ~(Cardinality(DefinitionsOf(n)) > 1)
  PROVE  ~ClashOf(n) /\ \A d \in DefinitionsOf(n) : Strongest(n) = d
<1>1. \A a, b \in DefinitionsOf(n) : a = b
  BY FiniteDefinitions, MoreThanOne
<1>2. \A a, b \in Regular(n, {"Strong"}) : a = b
  BY <1>1 DEF Regular
<1>3. ~(Cardinality(Regular(n, {"Strong"})) > 1)
  BY <1>2, FiniteDefinitions, MoreThanOne
<1>4. \A d \in DefinitionsOf(n) : Strongest(n) = d
  BY <1>1, SelectsStrongest
<1> QED BY <1>3, <1>4 DEF ClashOf

(* The end of resolution: names with one definition need nothing. *)
LEMMA GatherSelection ==
  ASSUME ResolutionInv, SelectionInv, Gather
  PROVE  SelectingInv' /\ SelectedIsStrongest'
<1>1. /\ UNCHANGED <<sym, loads, definitions, stores, duplicates>> /\ phase = "resolve"
      /\ phase' \in {"failed", "select"}
      /\ selecting' = {n \in Names : Cardinality(DefinitionsOf(n)) > 1}
  BY DEF Gather
<1>2. SelectedIsStrongest'
  BY <1>1 DEF SelectedIsStrongest, DuplicatesFail
<1>3. /\ sym \in Programs /\ KindsInv /\ duplicates = {} /\ \A n \in Names : stores[n] = {}
      /\ InitialInv
  BY <1>1 DEF SelectionInv, SelectingInv, ResolutionInv, StateOK
<1>4. /\ Plain' = Plain /\ \A n : Strongest(n)' = Strongest(n) /\ (ClashOf(n)' <=> ClashOf(n))
      /\ \A n : DefinitionsOf(n)' = DefinitionsOf(n)
  BY <1>1, SameLoaded, SameProgram
<1>5. \A n : \A d \in DefinitionsOf(n) : definitions[d] = d
  BY <1>1, <1>3 DEF DefinitionsOf, InitialInv, InitialDefinition
<1>6. \A n \in Names : n \notin selecting' => ~ClashOf(n) /\ SelectedOrStored(n)
  BY <1>1, <1>3, <1>5, OneDefinition DEF SelectedOrStored
<1>7. \A n \in Names : SelectedOrStored(n)' <=> SelectedOrStored(n)
  BY <1>1, <1>4 DEF SelectedOrStored
<1>8. SelectingInv'
  BY <1>1, <1>3, <1>4, <1>6, <1>7 DEF SelectingInv
<1> QED BY <1>2, <1>8

(* A definition is selected for one name. *)
LEMMA SelectNameSelection ==
  ASSUME ResolutionInv, SelectionInv, SelectName
  PROVE  SelectingInv' /\ SelectedIsStrongest'
<1>1. PICK n \in selecting :
        /\ selecting' = selecting \ {n}
        /\ IF HasDuplicate(n)
           THEN duplicates' = duplicates \cup {n} /\ stores' = stores
           ELSE /\ stores' = [stores EXCEPT ![n] = DefinitionsOf(n) \X {SelectSymbol(n)}]
                /\ duplicates' = duplicates
  BY DEF SelectName
<1>2. phase = "select" /\ UNCHANGED <<sym, phase, loads, definitions>>
  BY DEF SelectName
<1>3. SelectedIsStrongest'
  BY <1>2 DEF SelectedIsStrongest, DuplicatesFail
<1>4. /\ sym \in Programs /\ KindsInv /\ n \in Names /\ SelectingInv
      /\ stores \in [Names -> SUBSET (Symbols \X Symbols)]
      /\ Cardinality(DefinitionsOf(n)) > 1
  BY <1>1 DEF SelectionInv, ResolutionInv, StateOK
<1>5. /\ Plain' = Plain /\ \A m : Strongest(m)' = Strongest(m) /\ (ClashOf(m)' <=> ClashOf(m))
      /\ \A m : DefinitionsOf(m)' = DefinitionsOf(m)
  BY <1>2, SameLoaded, SameProgram
<1>6. HasDuplicate(n) <=> ClashOf(n)
  BY <1>4, DuplicateIsClash
<1>7. SelectSymbol(n) = Strongest(n)
  <2>1. Cardinality({}) = 0
    BY FS_EmptySet
  <2>2. DefinitionsOf(n) # {}
    BY <1>4, <2>1
  <2> QED BY <1>4, <2>2, SelectsStrongest
<1>8. stores[n] = {} /\ n \notin duplicates
  BY <1>1, <1>2, <1>4 DEF SelectingInv
<1>9. \A m \in Names : m # n => stores'[m] = stores[m] /\ (m \in duplicates' <=> m \in duplicates)
                                /\ (m \in selecting' <=> m \in selecting)
  BY <1>1, <1>4
<1>10. ASSUME NEW m \in Names, m # n
       PROVE  /\ m \in selecting' => stores'[m] = {} /\ m \notin duplicates'
              /\ m \notin selecting' => (m \in duplicates' <=> ClashOf(m)')
              /\ stores'[m] \subseteq DefinitionsOf(m)' \X {Strongest(m)'}
              /\ m \in Plain' /\ m \notin selecting' \cup duplicates' => SelectedOrStored(m)'
  <2>1. SelectedOrStored(m)' <=> SelectedOrStored(m)
    BY <1>2, <1>5, <1>9, <1>10 DEF SelectedOrStored
  <2> QED BY <1>2, <1>4, <1>5, <1>9, <1>10, <2>1 DEF SelectingInv
<1>11. n \notin selecting' /\ (n \in duplicates' <=> ClashOf(n)')
  BY <1>1, <1>5, <1>6, <1>8
<1>12. stores'[n] \subseteq DefinitionsOf(n)' \X {Strongest(n)'}
  BY <1>1, <1>4, <1>5, <1>7, <1>8
<1>13. n \notin duplicates' => SelectedOrStored(n)'
  BY <1>1, <1>4, <1>5, <1>7 DEF SelectedOrStored
<1>14. SelectingInv'
  BY <1>2, <1>10, <1>11, <1>12, <1>13 DEF SelectingInv
<1> QED BY <1>3, <1>14

(* A store is made.  It changes no definition of another plain name.       *)
LEMMA UpdateSelection ==
  ASSUME ResolutionInv, SelectionInv, UpdateDefinition
  PROVE  SelectingInv' /\ SelectedIsStrongest'
<1>1. phase = "select" /\ UNCHANGED <<sym, phase, loads, duplicates, selecting>>
  BY DEF UpdateDefinition
<1>2. PICK n \in Names : \E st \in stores[n] :
        /\ definitions' = [definitions EXCEPT ![st[1]] = st[2]]
        /\ stores' = [stores EXCEPT ![n] = @ \ {st}]
  BY DEF UpdateDefinition
<1>3. SelectedIsStrongest'
  BY <1>1 DEF SelectedIsStrongest, DuplicatesFail
<1>4. /\ sym \in Programs /\ SelectingInv
      /\ stores \in [Names -> SUBSET (Symbols \X Symbols)]
      /\ definitions \in Seq(Nat) /\ Len(definitions) = Len(sym)
  BY <1>1 DEF SelectionInv, ResolutionInv, StateOK
<1>5. Symbols = 1..Len(sym) /\ DOMAIN definitions = Symbols
  BY <1>4, ProgramFacts
<1>6. /\ Plain' = Plain /\ \A m : Strongest(m)' = Strongest(m) /\ (ClashOf(m)' <=> ClashOf(m))
      /\ \A m : DefinitionsOf(m)' = DefinitionsOf(m)
  BY <1>1, SameLoaded, SameProgram
<1>7. PICK d \in DefinitionsOf(n) :
        /\ <<d, Strongest(n)>> \in stores[n]
        /\ definitions' = [definitions EXCEPT ![d] = Strongest(n)]
        /\ stores' = [stores EXCEPT ![n] = @ \ {<<d, Strongest(n)>>}]
  <2>1. stores[n] \subseteq DefinitionsOf(n) \X {Strongest(n)}
    BY <1>1, <1>4 DEF SelectingInv
  <2>2. PICK st \in stores[n] : /\ definitions' = [definitions EXCEPT ![st[1]] = st[2]]
                                /\ stores' = [stores EXCEPT ![n] = @ \ {st}]
    BY <1>2
  <2>3. PICK d \in DefinitionsOf(n) : st = <<d, Strongest(n)>>
    BY <2>1
  <2>4. st[1] = d /\ st[2] = Strongest(n)
    BY <2>3
  <2> QED BY <2>2, <2>3, <2>4
<1>8. d \in Symbols /\ n \in sym[d].names
  BY DEF DefinitionsOf
<1>9. /\ \A s \in Symbols : definitions'[s] = IF s = d THEN Strongest(n) ELSE definitions[s]
      /\ \A m \in Names : stores'[m] = IF m = n THEN stores[n] \ {<<d, Strongest(n)>>} ELSE stores[m]
  BY <1>4, <1>5, <1>7
<1>10. ASSUME NEW m \in Names, m \in Plain, SelectedOrStored(m) PROVE SelectedOrStored(m)'
  <2> SUFFICES ASSUME NEW e \in DefinitionsOf(m)
               PROVE  definitions'[e] = Strongest(m) \/ <<e, Strongest(m)>> \in stores'[m]
    BY <1>6 DEF SelectedOrStored
  <2>1. e \in Symbols /\ sym[e].names = {m}
    BY <1>10 DEF Plain, DefinitionsOf
  <2>2. definitions[e] = Strongest(m) \/ <<e, Strongest(m)>> \in stores[m]
    BY <1>10 DEF SelectedOrStored
  <2>3. CASE e = d
    BY <1>8, <1>9, <2>1, <2>3
  <2>4. CASE e # d
    BY <1>9, <2>1, <2>2, <2>4
  <2> QED BY <2>3, <2>4
<1>11. \A m \in Names : stores'[m] \subseteq stores[m]
  BY <1>9
<1>12. SelectingInv'
  BY <1>1, <1>4, <1>6, <1>10, <1>11 DEF SelectingInv
<1> QED BY <1>3, <1>12

(* The end of the selection. *)
LEMMA EndSelectSelection ==
  ASSUME ResolutionInv, SelectionInv, EndSelect
  PROVE  SelectingInv' /\ SelectedIsStrongest'
<1>1. /\ UNCHANGED <<sym, loads, definitions>> /\ phase = "select" /\ selecting = {}
      /\ \A n \in Names : stores[n] = {}
      /\ phase' = IF duplicates # {} THEN "duplicates" ELSE "sort"
  BY DEF EndSelect
<1>2. SelectingInv /\ duplicates \subseteq Names
  BY DEF SelectionInv, ResolutionInv, StateOK
<1>3. /\ Plain' = Plain /\ \A m : Strongest(m)' = Strongest(m) /\ (ClashOf(m)' <=> ClashOf(m))
      /\ \A m : DefinitionsOf(m)' = DefinitionsOf(m)
  BY <1>1, SameLoaded, SameProgram
<1>4. /\ \A n \in Names : n \in duplicates <=> ClashOf(n)
      /\ \A n \in Names : n \in Plain /\ n \notin duplicates =>
           \A d \in DefinitionsOf(n) : definitions[d] = Strongest(n)
  BY <1>1, <1>2 DEF SelectingInv, SelectedOrStored
<1>5. SelectingInv'
  BY <1>1 DEF SelectingInv
<1>6. /\ phase' = "duplicates" => \E n \in Names : ClashOf(n)'
      /\ phase' \in {"sort", "canonicalise", "done"} => \A n \in Names : ~ClashOf(n)'
  BY <1>1, <1>2, <1>3, <1>4
<1>7. DuplicatesFail' <=>
        /\ phase' = "duplicates" => \E n \in Names : ClashOf(n)'
        /\ phase' \in {"sort", "canonicalise", "done"} => \A n \in Names : ~ClashOf(n)'
  BY DEF DuplicatesFail, ClashOf
<1>8. phase' \in {"sort", "canonicalise", "done"} =>
        \A n \in Plain' : \A d \in DefinitionsOf(n)' : definitions'[d] = Strongest(n)'
  BY <1>1, <1>3, <1>4 DEF Plain
<1>9. SelectedIsStrongest'
  BY <1>6, <1>7, <1>8 DEF SelectedIsStrongest
<1> QED BY <1>5, <1>9

(* Canonicalisation changes the definitions of references only. *)
LEMMA LateSelection ==
  ASSUME ResolutionInv, SelectionInv, UNCHANGED <<sym, loads>>,
         phase \in {"sort", "canonicalise", "done"}, phase' \in {"sort", "canonicalise", "done"},
         \A s \in Symbols : sym[s].def => definitions'[s] = definitions[s]
  PROVE  SelectingInv' /\ SelectedIsStrongest'
<1>1. /\ Plain' = Plain /\ \A m : Strongest(m)' = Strongest(m) /\ (ClashOf(m)' <=> ClashOf(m))
      /\ \A m : DefinitionsOf(m)' = DefinitionsOf(m)
  BY SameLoaded, SameProgram
<1>2. SelectedIsStrongest
  BY DEF SelectionInv
<1>3. \A n \in Names : ~ClashOf(n)
  BY <1>2, DuplicatesFailIs DEF SelectedIsStrongest
<1>4. DuplicatesFail'
  <2>1. DuplicatesFail' <=>
          /\ phase' = "duplicates" => \E n \in Names : ClashOf(n)'
          /\ phase' \in {"sort", "canonicalise", "done"} => \A n \in Names : ~ClashOf(n)'
    BY DEF DuplicatesFail, ClashOf
  <2> QED BY <1>1, <1>3, <2>1
<1>5. \A n \in Plain : \A d \in DefinitionsOf(n) : definitions'[d] = Strongest(n)
  BY <1>2 DEF SelectedIsStrongest, DefinitionsOf
<1>6. SelectedIsStrongest'
  BY <1>1, <1>4, <1>5 DEF SelectedIsStrongest
<1> QED BY <1>6 DEF SelectingInv

(* A round of canonicalise_undefined_symbols assigns to the definition of  *)
(* its reference, at most.                                                 *)
LEMMA RoundAssigns ==
  ASSUME ResolutionInv,
         AlreadyDefined \/ VersionedReference \/ StartStopReference \/ FirstReference \/ LaterReference
  PROVE  /\ Round /\ \A s \in DOMAIN definitions : s # Reference.symbol => definitions'[s] = definitions[s]
         /\ Reference.symbol \in Symbols /\ ~sym[Reference.symbol].def
         /\ Symbols \subseteq DOMAIN definitions
<1>1. Round
  BY DEF AlreadyDefined, VersionedReference, StartStopReference, FirstReference, LaterReference
<1>2. /\ Reference.symbol \in Symbols /\ ~sym[Reference.symbol].def
      /\ definitions \in Seq(Nat) /\ Len(definitions) \in Nat
      /\ DOMAIN definitions = 1..Len(definitions) /\ Symbols \subseteq DOMAIN definitions
  BY <1>1, RoundFacts
<1> DEFINE r == Reference.symbol
<1>3. \/ definitions' = definitions
      \/ \E v : definitions' = [definitions EXCEPT ![r] = v]
      \/ definitions' = Append([definitions EXCEPT ![r] = Len(definitions) + 1], Len(definitions) + 1)
  BY DEF AlreadyDefined, VersionedReference, StartStopReference, FirstReference, LaterReference
<1>4. \A s \in DOMAIN definitions : s # r => definitions'[s] = definitions[s]
  <2>1. CASE definitions' = definitions
    BY <2>1
  <2>2. CASE \E v : definitions' = [definitions EXCEPT ![r] = v]
    BY <1>2, <2>2
  <2>3. CASE definitions' = Append([definitions EXCEPT ![r] = Len(definitions) + 1],
                                   Len(definitions) + 1)
    <3> DEFINE id == Len(definitions) + 1
               old == [definitions EXCEPT ![r] = id]
    <3>1. id \in Nat /\ old = [definitions EXCEPT ![r] = id] /\ definitions' = Append(old, id)
      BY <1>2, <2>3
    <3> HIDE DEF id, old
    <3>2. /\ old \in Seq(Nat) /\ DOMAIN old = DOMAIN definitions
          /\ \A s \in DOMAIN definitions : old[s] = IF s = r THEN id ELSE definitions[s]
      BY <1>2, <3>1, SeqExcept
    <3>3. \A s \in DOMAIN old : definitions'[s] = old[s]
      BY <3>1, <3>2
    <3> QED BY <1>2, <3>2, <3>3
  <2> QED BY <1>3, <2>1, <2>2, <2>3
<1> QED BY <1>1, <1>2, <1>4

(* Every step keeps the selection. *)
LEMMA SelectionStep ==
  ASSUME ResolutionInv, SelectionInv, [Next]_vars
  PROVE  SelectionInv'
<1>1. KindsInv'
  BY KindsStep DEF SelectionInv
<1>2. SUFFICES SelectingInv' /\ SelectedIsStrongest'
  BY <1>1 DEF SelectionInv
<1>3. CASE SetUp \/ SkipSymbol \/ FailSymbol \/ LookUpName \/ ResolveFound \/ ResolveMissing \/ TakeFile
  <2>1. /\ UNCHANGED <<selecting, duplicates, stores>>
        /\ phase \in {"setup", "resolve"} /\ phase' \in {"setup", "resolve"}
    <3>1. CASE SetUp
      BY <3>1 DEF SetUp
    <3>2. CASE SkipSymbol \/ FailSymbol \/ LookUpName \/ ResolveFound \/ ResolveMissing \/ TakeFile
      <4>1. UNCHANGED <<phase, selecting, duplicates, stores>> /\ tasks # {}
        BY <3>2 DEF SkipSymbol, FailSymbol, LookUpName, ResolveFound, ResolveMissing, TakeFile, Ready
      <4> QED BY <4>1 DEF ResolutionInv, TasksInv
    <3> QED BY <1>3, <3>1, <3>2
  <2>2. SelectingInv'
    BY <2>1 DEF SelectionInv, SelectingInv
  <2>3. SelectedIsStrongest'
    BY <2>1 DEF SelectedIsStrongest, DuplicatesFail
  <2> QED BY <2>2, <2>3
<1>4. CASE SortUndefined \/ EndCanonicalise
  <2>1. /\ UNCHANGED <<sym, loads, definitions>>
        /\ phase \in {"sort", "canonicalise", "done"} /\ phase' \in {"sort", "canonicalise", "done"}
    BY <1>4 DEF SortUndefined, EndCanonicalise
  <2> QED BY <2>1, LateSelection
<1>5. CASE AlreadyDefined \/ VersionedReference \/ StartStopReference \/ FirstReference \/ LaterReference
  <2>1. /\ Round /\ \A s \in DOMAIN definitions :
                      s # Reference.symbol => definitions'[s] = definitions[s]
        /\ ~sym[Reference.symbol].def /\ Symbols \subseteq DOMAIN definitions
    BY <1>5, RoundAssigns
  <2>2. /\ UNCHANGED <<sym, loads>> /\ phase = "canonicalise" /\ phase' = "canonicalise"
    BY <2>1 DEF Round
  <2> QED BY <2>1, <2>2, LateSelection
<1>6. CASE UNCHANGED vars
  <2>1. UNCHANGED <<sym, phase, loads, definitions, duplicates, selecting, stores>>
    BY <1>6 DEF vars
  <2>2. /\ Plain' = Plain /\ \A m : Strongest(m)' = Strongest(m) /\ (ClashOf(m)' <=> ClashOf(m))
        /\ \A m : DefinitionsOf(m)' = DefinitionsOf(m)
    BY <2>1, SameLoaded, SameProgram
  <2>3. \A n : SelectedOrStored(n)' <=> SelectedOrStored(n)
    BY <2>1, <2>2 DEF SelectedOrStored
  <2>4. SelectingInv'
    BY <2>1, <2>2, <2>3 DEF SelectionInv, SelectingInv
  <2>5. DuplicatesFail' <=> DuplicatesFail
    BY <2>1 DEF DuplicatesFail, Regular, DefinitionsOf, Symbols, Ignored, FileOf, Loaded
  <2>6. SelectedIsStrongest'
    BY <2>1, <2>2, <2>5 DEF SelectionInv, SelectedIsStrongest
  <2> QED BY <2>4, <2>6
<1> QED
  BY <1>3, <1>4, <1>5, <1>6, GatherSelection, SelectNameSelection, UpdateSelection,
     EndSelectSelection
     DEF Next, Step, Finished

(* Whatever the files that were loaded and the order in which the buckets  *)
(* are processed, every definition of a name leads to the strongest one in *)
(* a loaded file, and the link fails exactly when two of them clash        *)
(* (symbol_db.rs: process_alternatives, select_symbol).                    *)
THEOREM SelectionIsStrongest == Spec => []SelectedIsStrongest
<1>1. Init => SelectionInv
  <2> SUFFICES ASSUME Init PROVE SelectionInv
    OBVIOUS
  <2>1. KindsInv
    BY DEF Init, KindsInv, InitialFlags
  <2>2. SelectingInv
    BY DEF Init, SelectingInv
  <2>3. SelectedIsStrongest
    BY DEF Init, SelectedIsStrongest, DuplicatesFail
  <2> QED BY <2>1, <2>2, <2>3 DEF SelectionInv
<1>2. ResolutionInv /\ SelectionInv /\ [Next]_vars => SelectionInv'
  BY SelectionStep
<1>3. SelectionInv => SelectedIsStrongest
  BY DEF SelectionInv
<1> QED BY <1>1, <1>2, <1>3, ResolutionInvariant, PTL DEF Spec

-----------------------------------------------------------------------------
(* What the references lead to.                                            *)

(* What depends on the symbol tables alone, or on the loaded files too. *)
LEMMA SameRefs ==
  ASSUME sym' = sym
  PROVE  /\ Refs' = Refs
         /\ \A s : /\ Target(s)' = Target(s) /\ EntryOf(s)' = EntryOf(s)
                   /\ (ToQueue(s)' <=> ToQueue(s)) /\ NameOf(s)' = NameOf(s)
         /\ loads' = loads =>
              /\ Loaded' = Loaded /\ LoadedRefs' = LoadedRefs
              /\ \A s : Missing(s)' <=> Missing(s)
<1>1. Refs' = Refs
  BY DEF Refs, Symbols, Ignored, FileOf
<1>2. \A s : Target(s)' = Target(s)
  BY SameProgram DEF Target
<1>3. \A s : FileOf(s)' = FileOf(s) /\ NameOf(s)' = NameOf(s) /\ (IsWeak(s)' <=> IsWeak(s))
  BY SameProgram DEF FileOf, IsWeak
<1>4. \A s : FileOf(Target(s))' = FileOf(Target(s))
  BY <1>2 DEF FileOf
<1>5. \A s : EntryOf(s)' = EntryOf(s)
  BY <1>2, <1>4 DEF EntryOf
<1>6. \A s : ToQueue(s)' <=> ToQueue(s)
  BY <1>2, <1>3, <1>4 DEF ToQueue
<1>7. loads' = loads => Loaded' = Loaded
  BY DEF Loaded
<1>8. loads' = loads => LoadedRefs' = LoadedRefs /\ \A s : Missing(s)' <=> Missing(s)
  BY <1>1, <1>3, <1>5, <1>6, <1>7 DEF LoadedRefs, Missing
<1> QED BY <1>1, <1>2, <1>3, <1>5, <1>6, <1>7, <1>8

(* A task that advances leaves the other symbols of its chunk to do. *)
LEMMA AdvanceKeeps ==
  ASSUME ResolutionInv, NEW t \in Ready, NEW f, tasks' = Advance(t, f),
         UNCHANGED <<sym, phase, untaken>>, NEW s \in Symbols, Unresolved(s), s # t.pos
  PROVE  Unresolved(s)'
<1>1. /\ t \in tasks /\ t \in Task /\ t.pos \in Symbols
  BY ReadyFacts
<1>2. /\ Len(sym) \in Nat /\ Symbols = 1..Len(sym) /\ FileOf(s)' = FileOf(s)
  BY ProgramFacts, SameProgram DEF ResolutionInv, StateOK
<1>3. t.pos \in Nat /\ t.last \in Nat /\ s \in Nat
  BY <1>1, <1>2 DEF Task
<1>4. CASE phase = "setup" \/ FileOf(s) \in untaken
  BY <1>2, <1>4 DEF Unresolved
<1>5. CASE \E u \in tasks : u.pos <= s /\ s <= u.last
  <2>1. PICK u \in tasks : u.pos <= s /\ s <= u.last
    BY <1>5
  <2>2. CASE u # t
    BY <2>1, <2>2 DEF Unresolved, Advance
  <2>3. CASE u = t
    <3> DEFINE n == [t EXCEPT !.pos = @ + 1, !.ask = f]
    <3>1. t.pos + 1 <= s /\ s <= t.last /\ ~(t.pos >= t.last)
      BY <1>3, <2>1, <2>3
    <3>2. n \in tasks'
      BY <3>1 DEF Advance
    <3>3. n.pos = t.pos + 1 /\ n.last = t.last
      BY <1>1 DEF Task
    <3> QED BY <3>1, <3>2, <3>3 DEF Unresolved
  <2> QED BY <2>2, <2>3
<1> QED BY <1>4, <1>5 DEF Unresolved

(* A step that changes neither the queue nor what references lead to. *)
LEMMA QuietReferences ==
  ASSUME ResolutionInv, ReferencesInv, UNCHANGED <<sym, undefined, canonical>>, errors <= errors',
         phase' \notin {"canonicalise", "done"}, phase \notin {"setup", "canonicalise", "done"},
         phase = "failed" => phase' = "failed", phase = "duplicates" => phase' = "duplicates",
         \A s \in Refs : ~Unresolved(s)' => ~Unresolved(s) /\ definitions'[s] = definitions[s]
  PROVE  ReferencesInv'
<1>1. /\ Refs' = Refs
      /\ \A s : /\ Target(s)' = Target(s) /\ EntryOf(s)' = EntryOf(s)
                /\ (ToQueue(s)' <=> ToQueue(s))
  BY SameRefs
<1>2. \A s : Queued(s)' <=> Queued(s)
  BY DEF Queued
<1>3. EntriesInv'
  BY <1>1 DEF ReferencesInv, EntriesInv
<1>4. errors \in 0..1
  BY DEF ResolutionInv, StateOK
<1>5. errors' = 0 => errors = 0
  BY <1>4
<1>6. phase \in Phases
  BY DEF ResolutionInv, StateOK
<1>7. TargetsInv'
  BY <1>1, <1>2, <1>5, <1>6 DEF ReferencesInv, TargetsInv, Phases
<1>8. CanonicalInv'
  BY DEF ReferencesInv, CanonicalInv
<1> QED BY <1>3, <1>7, <1>8 DEF ReferencesInv

(* The reference of a task is resolved, and queued when it may stay        *)
(* undefined.                                                              *)
LEMMA ResolvedReference ==
  ASSUME ResolutionInv, ReferencesInv, NEW t \in Ready, NEW f, tasks' = Advance(t, f),
         UNCHANGED <<sym, phase, untaken, errors, canonical>>,
         t.pos \in Refs, definitions'[t.pos] = Target(t.pos),
         \A s \in Symbols : s # t.pos => definitions'[s] = definitions[s],
         undefined' = IF ToQueue(t.pos) THEN Append(undefined, EntryOf(t.pos)) ELSE undefined
  PROVE  ReferencesInv'
<1>1. /\ Refs' = Refs
      /\ \A s : /\ Target(s)' = Target(s) /\ EntryOf(s)' = EntryOf(s)
                /\ (ToQueue(s)' <=> ToQueue(s))
  BY SameRefs
<1>2. phase = "resolve" /\ undefined \in Seq(Entry)
  BY ReadyFacts DEF ResolutionInv, StateOK
<1>3. CanonicalInv'
  BY <1>2 DEF ReferencesInv, CanonicalInv
<1> DEFINE r == t.pos
           e == EntryOf(r)
<1>4. e.symbol = r
  BY DEF EntryOf
<1>5. EntryOf(e.symbol) = e /\ ToQueue(e.symbol) = ToQueue(r)
  BY <1>4
<1> HIDE DEF r, e
<1>6. /\ \A i \in DOMAIN undefined' : undefined'[i] = EntryOf(undefined'[i].symbol)
                                      /\ ToQueue(undefined'[i].symbol)
      /\ \A s : Queued(s) => Queued(s)'
      /\ ToQueue(r) => Queued(r)'
  <2>1. CASE ToQueue(r)
    <3>1. undefined' = Append(undefined, e)
      BY <2>1 DEF e, r
    <3> DEFINE k == Len(undefined)
    <3>2. /\ k \in Nat /\ DOMAIN undefined = 1..k /\ DOMAIN undefined' = 1..(k + 1)
          /\ undefined'[k + 1] = e /\ \A i \in 1..k : undefined'[i] = undefined[i]
      BY <1>2, <3>1
    <3> HIDE DEF k
    <3>3. k + 1 \in 1..(k + 1) /\ \A i \in 1..(k + 1) : i \in 1..k \/ i = k + 1
      BY <3>2
    <3>4. \A i \in 1..k : i \in 1..(k + 1)
      BY <3>2
    <3>5. \A i \in DOMAIN undefined' : undefined'[i] = EntryOf(undefined'[i].symbol)
                                       /\ ToQueue(undefined'[i].symbol)
      BY <1>5, <2>1, <3>2, <3>3 DEF ReferencesInv, EntriesInv
    <3>6. Queued(r)'
      BY <1>4, <3>2, <3>3 DEF Queued
    <3>7. \A s : Queued(s) => Queued(s)'
      BY <3>2, <3>4 DEF Queued
    <3> QED BY <3>5, <3>6, <3>7
  <2>2. CASE ~ToQueue(r)
    <3>1. undefined' = undefined
      BY <2>2 DEF r
    <3> QED BY <2>2, <3>1 DEF ReferencesInv, EntriesInv, Queued
  <2> QED BY <2>1, <2>2
<1>7. EntriesInv'
  BY <1>1, <1>2, <1>6 DEF EntriesInv
<1>8. TargetsInv'
  <2> SUFFICES ASSUME errors = 0, NEW s \in Refs, ~Unresolved(s)'
               PROVE  definitions'[s] = Target(s) /\ (ToQueue(s) => Queued(s)')
    BY <1>1, <1>2 DEF TargetsInv
  <2>1. CASE s = r
    BY <1>6, <2>1 DEF r
  <2>2. CASE s # r
    <3>1. s \in Symbols
      BY DEF Refs
    <3>2. ~Unresolved(s)
      BY <2>2, <3>1, AdvanceKeeps DEF r
    <3> QED BY <1>2, <1>6, <2>2, <3>1, <3>2 DEF ReferencesInv, TargetsInv, r
  <2> QED BY <2>1, <2>2
<1> QED BY <1>3, <1>7, <1>8 DEF ReferencesInv

(* Set-up resolves nothing. *)
LEMMA SetUpReferences ==
  ASSUME ResolutionInv, ReferencesInv, SetUp
  PROVE  ReferencesInv'
<1>1. /\ UNCHANGED <<sym, undefined, canonical>> /\ phase = "setup" /\ phase' = "resolve"
  BY DEF SetUp
<1>2. /\ Refs' = Refs
      /\ \A s : EntryOf(s)' = EntryOf(s) /\ (ToQueue(s)' <=> ToQueue(s))
  BY <1>1, SameRefs
<1>3. \A s \in Symbols : Unresolved(s)'
  BY SetUpInv
<1>4. EntriesInv'
  BY <1>1, <1>2 DEF ReferencesInv, EntriesInv
<1>5. TargetsInv'
  BY <1>2, <1>3 DEF TargetsInv, Refs
<1>6. CanonicalInv'
  BY <1>1 DEF ReferencesInv, CanonicalInv
<1> QED BY <1>4, <1>5, <1>6 DEF ReferencesInv

(* Symbols that are no references of objects: nothing is queued. *)
LEMMA PassedReferences ==
  ASSUME ResolutionInv, ReferencesInv, SkipSymbol \/ LookUpName
  PROVE  ReferencesInv'
<1>1. PICK t \in Ready :
        /\ \E f : tasks' = Advance(t, f)
        /\ UNCHANGED <<sym, phase, untaken, errors, undefined, canonical>>
        /\ definitions' = definitions \/ \E v : definitions' = [definitions EXCEPT ![t.pos] = v]
        /\ Skips(t) \/ FileOf(t.pos) \in Scripts
  BY DEF SkipSymbol, LookUpName
<1>2. PICK f : tasks' = Advance(t, f)
  BY <1>1
<1>3. phase = "resolve" /\ t.pos \in Symbols /\ definitions[t.pos] = InitialDefinition(t.pos)
  BY ReadyFacts
<1>4. t.pos \notin Refs
  BY <1>1, <1>3 DEF Skips, Refs, InitialDefinition
<1>5. /\ definitions \in Seq(Nat) /\ errors \in 0..1
      /\ DOMAIN definitions = 1..Len(definitions)
  BY DEF ResolutionInv, StateOK
<1>6. \A s \in Symbols : s # t.pos => definitions'[s] = definitions[s]
  <2>1. Symbols \subseteq DOMAIN definitions
    BY <1>5, ProgramFacts DEF ResolutionInv, StateOK
  <2> QED BY <1>1, <2>1
<1>7. \A s \in Refs : ~Unresolved(s)' => ~Unresolved(s) /\ definitions'[s] = definitions[s]
  <2> SUFFICES ASSUME NEW s \in Refs, ~Unresolved(s)'
               PROVE  ~Unresolved(s) /\ definitions'[s] = definitions[s]
    OBVIOUS
  <2>1. s \in Symbols /\ s # t.pos
    BY <1>4 DEF Refs
  <2>2. UNCHANGED <<sym, phase, untaken>>
    BY <1>1
  <2>3. ~Unresolved(s)
    BY <1>2, <2>1, <2>2, AdvanceKeeps
  <2> QED BY <1>6, <2>1, <2>3
<1>8. errors <= errors'
  BY <1>1, <1>5
<1> QED BY <1>1, <1>3, <1>7, <1>8, QuietReferences

(* After an error nothing is claimed of the references. *)
LEMMA FailedReferences ==
  ASSUME ResolutionInv, ReferencesInv, FailSymbol
  PROVE  ReferencesInv'
<1>1. UNCHANGED <<sym, phase, undefined, canonical>> /\ HandleResult /\ \E t \in Ready : TRUE
  BY DEF FailSymbol
<1>2. phase = "resolve" /\ errors' # 0
  BY <1>1, ReadyFacts DEF HandleResult
<1>3. \A s : EntryOf(s)' = EntryOf(s) /\ (ToQueue(s)' <=> ToQueue(s))
  BY <1>1, SameRefs
<1>4. EntriesInv'
  BY <1>1, <1>3 DEF ReferencesInv, EntriesInv
<1>5. TargetsInv' /\ CanonicalInv'
  BY <1>1, <1>2 DEF ReferencesInv, TargetsInv, CanonicalInv
<1> QED BY <1>4, <1>5 DEF ReferencesInv

(* resolve_symbol *)
LEMMA ResolveReferences ==
  ASSUME ResolutionInv, ReferencesInv, ResolveFound \/ ResolveMissing
  PROVE  ReferencesInv'
<1>1. CASE ResolveFound
  <2>1. PICK t \in Ready :
          /\ ~Skips(t) /\ FileOf(t.pos) \notin Scripts
          /\ Target(t.pos) # Undefined
          /\ definitions' = [definitions EXCEPT ![t.pos] = Target(t.pos)]
          /\ \E f : tasks' = Advance(t, f)
          /\ undefined' = IF (FileOf(Target(t.pos)) = FileOf(t.pos) \/ IsWeak(t.pos))
                             /\ FileOf(Target(t.pos)) # Prelude
                          THEN Append(undefined, [symbol |-> t.pos,
                                                  ignore_if_loaded |-> FileOf(Target(t.pos))])
                          ELSE undefined
          /\ UNCHANGED <<sym, phase, untaken, errors, canonical>>
    BY <1>1 DEF ResolveFound, Target
  <2>2. PICK f : tasks' = Advance(t, f)
    BY <2>1
  <2>3. /\ t.pos \in Symbols /\ definitions[t.pos] = InitialDefinition(t.pos)
        /\ Symbols = 1..Len(sym) /\ definitions \in Seq(Nat) /\ Len(sym) <= Len(definitions)
        /\ Len(sym) \in Nat
    BY ReadyFacts, ProgramFacts DEF ResolutionInv, StateOK
  <2>4. t.pos \in Refs
    BY <2>1, <2>3 DEF Skips, Refs, InitialDefinition, Undefined
  <2>5. t.pos \in DOMAIN definitions
    BY <2>3
  <2>6. /\ definitions'[t.pos] = Target(t.pos)
        /\ \A s \in Symbols : s # t.pos => definitions'[s] = definitions[s]
    BY <2>1, <2>5
  <2>7. undefined' = IF ToQueue(t.pos) THEN Append(undefined, EntryOf(t.pos)) ELSE undefined
    BY <2>1 DEF ToQueue, EntryOf
  <2> QED BY <2>1, <2>2, <2>4, <2>6, <2>7, ResolvedReference
<1>2. CASE ResolveMissing
  <2>1. PICK t \in Ready :
          /\ ~Skips(t) /\ FileOf(t.pos) \notin Scripts
          /\ Target(t.pos) = Undefined
          /\ tasks' = Advance(t, NoFile)
          /\ undefined' = Append(undefined, [symbol |-> t.pos, ignore_if_loaded |-> NoFile])
          /\ UNCHANGED <<sym, phase, untaken, errors, canonical, definitions>>
    BY <1>2 DEF ResolveMissing, Target
  <2>2. t.pos \in Symbols /\ definitions[t.pos] = InitialDefinition(t.pos)
    BY ReadyFacts
  <2>3. t.pos \in Refs /\ definitions[t.pos] = Undefined
    <3>1. t.pos # Undefined
      BY <2>2, ProgramFacts DEF ResolutionInv, StateOK, Undefined
    <3> QED BY <2>1, <2>2, <3>1 DEF Skips, Refs, InitialDefinition
  <2>4. undefined' = IF ToQueue(t.pos) THEN Append(undefined, EntryOf(t.pos)) ELSE undefined
    BY <2>1 DEF ToQueue, EntryOf
  <2>5. /\ definitions'[t.pos] = Target(t.pos)
        /\ \A s \in Symbols : s # t.pos => definitions'[s] = definitions[s]
    BY <2>1, <2>3
  <2> QED BY <2>1, <2>3, <2>4, <2>5, ResolvedReference
<1> QED BY <1>1, <1>2

(* Loading files and selecting definitions leave the references alone. *)
LEMMA SelectReferences ==
  ASSUME ResolutionInv, SelectionInv, ReferencesInv,
         TakeFile \/ Gather \/ SelectName \/ UpdateDefinition \/ EndSelect
  PROVE  ReferencesInv'
<1>1. errors \in 0..1 /\ UNCHANGED <<sym, undefined, canonical, errors>>
  BY DEF ResolutionInv, StateOK, TakeFile, Gather, SelectName, UpdateDefinition, EndSelect
<1>2. errors <= errors'
  BY <1>1
<1>3. /\ phase' \notin {"canonicalise", "done"} /\ phase \in {"resolve", "select"}
  <2>1. CASE TakeFile
    BY <2>1 DEF TakeFile, ResolutionInv, TasksInv
  <2>2. CASE Gather \/ SelectName \/ UpdateDefinition \/ EndSelect
    BY <2>2 DEF Gather, SelectName, UpdateDefinition, EndSelect
  <2> QED BY <2>1, <2>2
<1>4. \A s \in Refs : ~Unresolved(s)' => ~Unresolved(s)
  <2>1. CASE TakeFile
    BY <2>1, TakeFileInv DEF Refs
  <2>2. CASE Gather \/ SelectName \/ UpdateDefinition \/ EndSelect
    <3>1. UNCHANGED <<untaken, tasks>>
      BY <2>2 DEF Gather, SelectName, UpdateDefinition, EndSelect
    <3> QED BY <1>1, <1>3, <3>1 DEF Unresolved, FileOf
  <2> QED BY <2>1, <2>2
<1>5. \A s \in Refs : definitions'[s] = definitions[s]
  <2>1. CASE TakeFile \/ Gather \/ SelectName \/ EndSelect
    BY <2>1 DEF TakeFile, Gather, SelectName, EndSelect
  <2>2. CASE UpdateDefinition
    <3>1. PICK n \in Names : \E store \in stores[n] :
            /\ phase = "select" /\ definitions' = [definitions EXCEPT ![store[1]] = store[2]]
      BY <2>2 DEF UpdateDefinition
    <3>2. PICK store \in stores[n] : definitions' = [definitions EXCEPT ![store[1]] = store[2]]
      BY <3>1
    <3>3. stores[n] \subseteq DefinitionsOf(n) \X {Strongest(n)}
      BY <3>1 DEF SelectionInv, SelectingInv
    <3>4. store[1] \in DefinitionsOf(n)
      BY <3>2, <3>3
    <3>5. store[1] \notin Refs
      BY <3>4 DEF DefinitionsOf, Refs
    <3>6. Refs \subseteq DOMAIN definitions
      BY ProgramFacts DEF Refs, ResolutionInv, StateOK
    <3> QED BY <3>2, <3>5, <3>6
  <2> QED BY <2>1, <2>2
<1> QED BY <1>1, <1>2, <1>3, <1>4, <1>5, QuietReferences

(* The sort keeps the entries.  All files that were loaded have been       *)
(* resolved by then.                                                       *)
LEMMA SortReferences ==
  ASSUME ResolutionInv, ReferencesInv, SortUndefined
  PROVE  ReferencesInv'
<1>1. /\ phase = "sort" /\ phase' = "canonicalise" /\ undefined' = LastFirst(undefined)
      /\ UNCHANGED <<sym, untaken, loads, tasks, definitions, errors, canonical>>
  BY DEF SortUndefined
<1>2. /\ Refs' = Refs /\ LoadedRefs' = LoadedRefs
      /\ \A s : /\ Target(s)' = Target(s) /\ EntryOf(s)' = EntryOf(s)
                /\ (ToQueue(s)' <=> ToQueue(s)) /\ (Missing(s)' <=> Missing(s))
  BY <1>1, SameRefs
<1>3. /\ undefined \in Seq(Entry) /\ Distinct(undefined) /\ \A e \in Entry : e.symbol \in Nat
  BY ProgramFacts DEF ResolutionInv, StateOK, QueueInv, Distinct, Entry
<1>4. /\ undefined' \in Seq(Entry) /\ Range(undefined') = Range(undefined)
      /\ \A i, j \in DOMAIN undefined' : i < j => undefined'[i].symbol > undefined'[j].symbol
  BY <1>1, <1>3, SortFacts
<1>5. /\ \A i \in DOMAIN undefined' : \E j \in DOMAIN undefined : undefined'[i] = undefined[j]
      /\ \A j \in DOMAIN undefined : \E i \in DOMAIN undefined' : undefined'[i] = undefined[j]
  BY <1>4 DEF Range
<1>6. \A s : Queued(s)' <=> Queued(s)
  BY <1>5 DEF Queued
<1>7. \A i \in DOMAIN undefined' : /\ undefined'[i] = EntryOf(undefined'[i].symbol)
                                   /\ ToQueue(undefined'[i].symbol)
  BY <1>5 DEF ReferencesInv, EntriesInv
<1>8. EntriesInv'
  BY <1>1, <1>2, <1>4, <1>7 DEF EntriesInv
<1>9. TargetsInv'
  BY <1>1 DEF TargetsInv
<1>10. \A s \in LoadedRefs : definitions[s] = Target(s) /\ ~Done(s)
  <2> SUFFICES ASSUME NEW s \in LoadedRefs PROVE definitions[s] = Target(s) /\ ~Done(s)
    OBVIOUS
  <2>1. s \in Refs /\ s \in Symbols /\ FileOf(s) \in Loaded
    BY DEF LoadedRefs, Refs
  <2>2. FileOf(s) \in Files /\ loads[FileOf(s)] > 0
    BY <2>1 DEF Loaded
  <2>3. errors = 0 /\ tasks = {}
    BY <1>1 DEF ResolutionInv, TasksInv, SettledInv
  <2>4. FileOf(s) \notin untaken
    BY <1>1, <2>2 DEF ResolutionInv, CellsInv
  <2>5. ~Unresolved(s)
    BY <1>1, <2>3, <2>4 DEF Unresolved
  <2>6. definitions[s] = Target(s) /\ (ToQueue(s) => Queued(s))
    BY <1>1, <2>1, <2>3, <2>5 DEF ReferencesInv, TargetsInv
  <2> QED BY <2>6 DEF Done, Missing
<1>11. \A n \in Names : canonical[n] = Undefined
  BY <1>1 DEF ReferencesInv, CanonicalInv
<1>12. \A s : Done(s)' <=> Done(s)
  BY <1>2, <1>6 DEF Done
<1>13. CanonicalInv'
  BY <1>1, <1>2, <1>10, <1>11, <1>12 DEF CanonicalInv
<1> QED BY <1>8, <1>9, <1>13 DEF ReferencesInv

(* A round of the loop takes the largest entry off the queue. *)
LEMMA RoundTakes ==
  ASSUME ResolutionInv, ReferencesInv, Round, NEW r, r = Reference.symbol
  PROVE  /\ r \in LoadedRefs /\ r \in Nat /\ Queued(r) /\ ToQueue(r) /\ Reference = EntryOf(r)
         /\ (Missing(r) <=> Reference.ignore_if_loaded \notin Loaded)
         /\ \A s : Queued(s)' <=> Queued(s) /\ s # r
         /\ \A s : Queued(s)' => s < r
         /\ EntriesInv'
<1>1. /\ phase = "canonicalise" /\ phase' = "canonicalise" /\ undefined # <<>>
      /\ undefined' = Tail(undefined) /\ UNCHANGED <<sym, loads>>
  BY DEF Round
<1>2. /\ Refs' = Refs /\ LoadedRefs' = LoadedRefs
      /\ \A s : /\ Target(s)' = Target(s) /\ EntryOf(s)' = EntryOf(s)
                /\ (ToQueue(s)' <=> ToQueue(s)) /\ (Missing(s)' <=> Missing(s))
  BY <1>1, SameRefs
<1>3. undefined \in Seq(Entry)
  BY DEF ResolutionInv, StateOK
<1> DEFINE k == Len(undefined)
<1>4. /\ k \in Nat /\ DOMAIN undefined = 1..k /\ DOMAIN undefined' = 1..(k - 1)
      /\ Reference = undefined[1] /\ 1 \in 1..k
      /\ \A i \in 1..(k - 1) : undefined'[i] = undefined[i + 1] /\ i + 1 \in 1..k
  BY <1>1, <1>3 DEF Reference
<1> HIDE DEF k
<1>5. /\ \A i \in 1..k : undefined[i] = EntryOf(undefined[i].symbol) /\ ToQueue(undefined[i].symbol)
      /\ \A i, j \in 1..k : i < j => undefined[i].symbol > undefined[j].symbol
  BY <1>1, <1>4 DEF ReferencesInv, EntriesInv
<1>6. Queued(r) /\ ToQueue(r) /\ Reference = EntryOf(r)
  BY <1>4, <1>5 DEF Queued
<1>7. r \in Symbols /\ ~sym[r].def /\ Symbols = 1..Len(sym) /\ Len(sym) \in Nat
  BY RoundFacts, ProgramFacts DEF ResolutionInv, StateOK
<1>8. r \in Refs /\ ~Unresolved(r)
  BY <1>6, <1>7 DEF ResolutionInv, QueueInv, Refs
<1>9. FileOf(r) \in Files /\ loads[FileOf(r)] = 1
  BY <1>1, <1>7, <1>8, ReferenceFacts DEF Unresolved, ResolutionInv, StateOK, CellsInv
<1>10. r \in LoadedRefs
  BY <1>8, <1>9 DEF LoadedRefs, Loaded
<1>11. Missing(r) <=> Reference.ignore_if_loaded \notin Loaded
  BY <1>6 DEF Missing
<1>12. \A i \in 1..k : undefined[i].symbol \in Nat
  <2>1. \A i \in 1..k : undefined[i] \in Entry
    BY <1>3, <1>4, SeqElement
  <2> QED BY <1>7, <2>1 DEF Entry
<1>13. \A s : Queued(s)' => s < r /\ Queued(s)
  <2> SUFFICES ASSUME NEW s, NEW i \in 1..(k - 1), undefined'[i].symbol = s
               PROVE  s < r /\ Queued(s)
    BY <1>4 DEF Queued
  <2>1. i + 1 \in 1..k /\ 1 < i + 1 /\ undefined'[i] = undefined[i + 1]
    BY <1>4
  <2>2. r = undefined[1].symbol
    BY <1>4
  <2>3. undefined[1].symbol > undefined[i + 1].symbol
    BY <1>4, <1>5, <2>1
  <2> QED BY <1>4, <1>12, <2>1, <2>2, <2>3 DEF Queued
<1>14. \A s : Queued(s) /\ s # r => Queued(s)'
  <2> SUFFICES ASSUME NEW s, NEW i \in 1..k, undefined[i].symbol = s, s # r PROVE Queued(s)'
    BY <1>4 DEF Queued
  <2>1. i # 1
    BY <1>4
  <2>2. i - 1 \in 1..(k - 1) /\ (i - 1) + 1 = i
    BY <1>4, <2>1
  <2>3. undefined'[i - 1] = undefined[i]
    BY <1>4, <2>2
  <2> QED BY <1>4, <2>2, <2>3 DEF Queued
<1>15. \A s : Queued(s)' <=> Queued(s) /\ s # r
  BY <1>7, <1>13, <1>14
<1>16. EntriesInv'
  <2>1. \A i \in 1..(k - 1) : /\ undefined'[i] = EntryOf(undefined'[i].symbol)
                              /\ ToQueue(undefined'[i].symbol)
    BY <1>4, <1>5
  <2>2. \A i, j \in 1..(k - 1) : i < j => undefined'[i].symbol > undefined'[j].symbol
    <3> SUFFICES ASSUME NEW i \in 1..(k - 1), NEW j \in 1..(k - 1), i < j
                 PROVE  undefined'[i].symbol > undefined'[j].symbol
      OBVIOUS
    <3>1. i + 1 < j + 1 /\ i + 1 \in 1..k /\ j + 1 \in 1..k
      BY <1>4
    <3> QED BY <1>4, <1>5, <3>1
  <2> QED BY <1>2, <1>4, <2>1, <2>2 DEF EntriesInv
<1> QED BY <1>6, <1>7, <1>10, <1>11, <1>13, <1>15, <1>16

(* What a round must do with its reference so that all references of its   *)
(* name lead to the canonical one.                                         *)
LEMMA RoundSettles ==
  ASSUME ResolutionInv, ReferencesInv, Round, NEW r, r = Reference.symbol, NEW n, n = NameOf(r),
         \A s \in DOMAIN definitions : s # r => definitions'[s] = definitions[s],
         \A m \in Names : m # n \/ canonical[m] # Undefined => canonical'[m] = canonical[m],
         ~Missing(r) => definitions'[r] = definitions[r] /\ canonical'[n] = canonical[n],
         Missing(r) /\ n \notin Versioned =>
           canonical'[n] # Undefined /\ definitions'[r] = canonical'[n],
         Missing(r) /\ n \notin Versioned /\ canonical[n] = Undefined =>
           /\ definitions'[canonical'[n]] = canonical'[n]
           /\ IF n \in StartStop THEN canonical'[n] \in Nat /\ canonical'[n] > Len(sym)
              ELSE canonical'[n] = r
  PROVE  ReferencesInv'
<1>1. /\ phase = "canonicalise" /\ phase' = "canonicalise" /\ UNCHANGED <<sym, loads>>
  BY DEF Round
<1>2. /\ LoadedRefs' = LoadedRefs /\ Loaded' = Loaded
      /\ \A s : /\ Target(s)' = Target(s) /\ (Missing(s)' <=> Missing(s)) /\ NameOf(s)' = NameOf(s)
  BY <1>1, SameRefs
<1>3. /\ r \in LoadedRefs /\ r \in Nat /\ Queued(r) /\ ToQueue(r)
      /\ \A s : Queued(s)' <=> Queued(s) /\ s # r
      /\ \A s : Queued(s)' => s < r
      /\ EntriesInv'
  BY RoundTakes
<1>4. TargetsInv'
  BY <1>1 DEF TargetsInv
<1>5. /\ r \in Symbols /\ n \in Names /\ Symbols \subseteq DOMAIN definitions
      /\ DOMAIN definitions = 1..Len(definitions) /\ Len(definitions) \in Nat
      /\ canonical \in [Names -> Nat] /\ \A m \in Names : canonical[m] <= Len(definitions)
      /\ Len(sym) \in Nat /\ Symbols = 1..Len(sym)
  BY RoundFacts, ProgramFacts
<1>6. LoadedRefs \subseteq Symbols
  BY DEF LoadedRefs, Refs
<1>7. /\ \A s \in LoadedRefs : ~Done(s) => definitions[s] = Target(s)
      /\ \A s \in LoadedRefs : Done(s) /\ NameOf(s) \notin Versioned =>
           /\ canonical[NameOf(s)] # Undefined
           /\ definitions[s] = canonical[NameOf(s)] /\ s <= canonical[NameOf(s)]
      /\ \A m \in Names \ Versioned : canonical[m] # Undefined =>
           /\ IsCanonical(canonical[m], m)
           /\ \A s \in Symbols : Queued(s) => s < canonical[m]
  BY <1>1 DEF ReferencesInv, CanonicalInv
<1>8. /\ \A s : s # r => (Done(s)' <=> Done(s))
      /\ Done(r)' <=> Missing(r)
      /\ ~Done(r)
  BY <1>2, <1>3 DEF Done
<1>9. \A s \in LoadedRefs : ~Done(s)' => definitions'[s] = Target(s)
  <2> SUFFICES ASSUME NEW s \in LoadedRefs, ~Done(s)' PROVE definitions'[s] = Target(s)
    OBVIOUS
  <2>1. CASE s = r
    BY <1>7, <1>8, <2>1
  <2>2. CASE s # r
    BY <1>5, <1>6, <1>7, <1>8, <2>2
  <2> QED BY <2>1, <2>2
<1>10. \A m \in Names \ Versioned : canonical'[m] # canonical[m] =>
         m = n /\ Missing(r) /\ canonical[n] = Undefined
  BY <1>5
<1>11. \A m \in Names \ Versioned : canonical[m] # Undefined => r < canonical[m]
  BY <1>3, <1>5, <1>7
<1>12. Missing(r) /\ n \notin Versioned => r <= canonical'[n]
  <2> SUFFICES ASSUME Missing(r), n \notin Versioned PROVE r <= canonical'[n]
    OBVIOUS
  <2>1. CASE canonical[n] # Undefined
    <3>1. canonical'[n] = canonical[n] /\ r < canonical[n] /\ canonical[n] \in Nat
      BY <1>5, <1>11, <2>1
    <3> QED BY <1>3, <3>1
  <2>2. CASE canonical[n] = Undefined /\ n \in StartStop
    <3>1. canonical'[n] \in Nat /\ canonical'[n] > Len(sym) /\ r <= Len(sym)
      BY <1>5, <2>2
    <3> QED BY <1>3, <1>5, <3>1
  <2>3. CASE canonical[n] = Undefined /\ n \notin StartStop
    BY <1>3, <2>3
  <2> QED BY <2>1, <2>2, <2>3
<1>13. \A s \in LoadedRefs : Done(s)' /\ NameOf(s) \notin Versioned =>
         /\ canonical'[NameOf(s)] # Undefined
         /\ definitions'[s] = canonical'[NameOf(s)] /\ s <= canonical'[NameOf(s)]
  <2> SUFFICES ASSUME NEW s \in LoadedRefs, Done(s)', NameOf(s) \notin Versioned
               PROVE  /\ canonical'[NameOf(s)] # Undefined
                      /\ definitions'[s] = canonical'[NameOf(s)] /\ s <= canonical'[NameOf(s)]
    OBVIOUS
  <2>1. CASE s = r
    BY <1>8, <1>12, <2>1
  <2>2. CASE s # r
    <3>1. Done(s) /\ s \in Symbols /\ s \in DOMAIN definitions /\ definitions'[s] = definitions[s]
      BY <1>5, <1>6, <1>8, <2>2
    <3>2. NameOf(s) \in Names
      BY <3>1, ReferenceFacts DEF LoadedRefs, Refs, ResolutionInv, StateOK
    <3> QED BY <1>7, <3>1, <3>2
  <2> QED BY <2>1, <2>2
<1>14. ASSUME NEW m \in Names \ Versioned, canonical'[m] # Undefined
       PROVE  /\ IsCanonical(canonical[m], m)'
              /\ \A s \in Symbols : Queued(s)' => s < canonical'[m]
  <2>1. CASE canonical'[m] = canonical[m]
    <3> DEFINE c == canonical[m]
    <3>1. c \in Nat /\ c # 0 /\ c <= Len(definitions) /\ c # Undefined /\ canonical'[m] = c
      BY <1>5, <1>14, <2>1 DEF Undefined
    <3>2. c \in DOMAIN definitions
      BY <1>5, <3>1
    <3>3. r < c /\ \A s \in Symbols : Queued(s) => s < c
      BY <1>7, <1>11, <3>1
    <3>4. c # r
      BY <1>3, <3>1, <3>3
    <3>5. IsCanonical(c, m)
      BY <1>7, <3>1
    <3> HIDE DEF c
    <3>6. definitions'[c] = c
      BY <3>2, <3>4, <3>5 DEF IsCanonical
    <3>7. IsCanonical(canonical[m], m)'
      BY <1>1, <1>2, <1>8, <3>1, <3>4, <3>5, <3>6 DEF IsCanonical
    <3>8. \A s \in Symbols : Queued(s)' => s < c
      BY <1>3, <3>3
    <3> QED BY <3>1, <3>7, <3>8
  <2>2. CASE canonical'[m] # canonical[m]
    <3>1. m = n /\ Missing(r) /\ canonical[n] = Undefined
      BY <1>10, <2>2
    <3>2. /\ definitions'[canonical'[n]] = canonical'[n]
          /\ IF n \in StartStop THEN canonical'[n] \in Nat /\ canonical'[n] > Len(sym)
             ELSE canonical'[n] = r
      BY <3>1
    <3>3. IsCanonical(canonical[n], n)'
      BY <1>1, <1>2, <1>3, <1>8, <3>1, <3>2 DEF IsCanonical
    <3>4. r <= canonical'[n] /\ canonical'[n] \in Nat
      BY <1>3, <1>12, <3>1, <3>2
    <3>5. \A s \in Symbols : Queued(s)' => s < canonical'[n]
      BY <1>3, <1>5, <3>4
    <3> QED BY <3>1, <3>3, <3>5
  <2> QED BY <2>1, <2>2
<1>15. Symbols' = Symbols
  BY <1>1, SameProgram
<1>16. CanonicalInv'
  BY <1>1, <1>2, <1>9, <1>13, <1>14, <1>15 DEF CanonicalInv
<1> QED BY <1>3, <1>4, <1>16 DEF ReferencesInv

(* The weak reference is defined after all. *)
LEMMA AlreadyDefinedReferences ==
  ASSUME ResolutionInv, ReferencesInv, AlreadyDefined
  PROVE  ReferencesInv'
<1>1. /\ Round /\ Reference.ignore_if_loaded \in Loaded /\ UNCHANGED <<definitions, canonical>>
  BY DEF AlreadyDefined
<1>2. ~Missing(Reference.symbol)
  BY <1>1, RoundTakes
<1> QED BY <1>1, <1>2, RoundSettles

(* References to versioned names. *)
LEMMA VersionedReferences ==
  ASSUME ResolutionInv, ReferencesInv, VersionedReference
  PROVE  ReferencesInv'
<1> DEFINE r == Reference.symbol
           n == NameOf(r)
<1>1. /\ Round /\ Reference.ignore_if_loaded \notin Loaded /\ n \in Versioned
      /\ IF canonical[n] = Undefined
         THEN canonical' = [canonical EXCEPT ![n] = r] /\ UNCHANGED definitions
         ELSE definitions' = [definitions EXCEPT ![r] = canonical[n]] /\ UNCHANGED canonical
  BY DEF VersionedReference
<1>2. Missing(r)
  BY <1>1, RoundTakes
<1>3. \A s \in DOMAIN definitions : s # r => definitions'[s] = definitions[s]
  BY RoundAssigns
<1>4. n \in Names /\ canonical \in [Names -> Nat]
  BY <1>1, RoundFacts
<1>5. \A m \in Names : m # n \/ canonical[m] # Undefined => canonical'[m] = canonical[m]
  BY <1>1, <1>4
<1> HIDE DEF r, n
<1>6. r = Reference.symbol /\ n = NameOf(r)
  BY DEF r, n
<1> QED BY <1>1, <1>2, <1>3, <1>5, <1>6, RoundSettles

(* A start/stop symbol is made, after all symbols of the inputs. *)
LEMMA StartStopReferences ==
  ASSUME ResolutionInv, ReferencesInv, StartStopReference
  PROVE  ReferencesInv'
<1> DEFINE r == Reference.symbol
           n == NameOf(r)
           id == Len(definitions) + 1
           old == [definitions EXCEPT ![r] = id]
<1>1. /\ Round /\ Reference.ignore_if_loaded \notin Loaded
      /\ n \in StartStop /\ canonical[n] = Undefined
      /\ definitions' = Append(old, id) /\ canonical' = [canonical EXCEPT ![n] = id]
  BY DEF StartStopReference
<1>2. \A s \in DOMAIN definitions : s # r => definitions'[s] = definitions[s]
  BY RoundAssigns
<1>3. /\ n \in Names /\ canonical \in [Names -> Nat] /\ definitions \in Seq(Nat)
      /\ Len(definitions) \in Nat /\ r \in DOMAIN definitions /\ Len(sym) <= Len(definitions)
      /\ Len(sym) \in Nat
  BY <1>1, RoundFacts, ProgramFacts DEF ResolutionInv, StateOK
<1>4. /\ id = Len(definitions) + 1 /\ id \in Nat /\ id > Len(sym) /\ id # Undefined
      /\ old = [definitions EXCEPT ![r] = id]
  BY <1>3 DEF Undefined
<1>5. n \notin Versioned
  BY <1>1, ResolutionAssumption
<1>6. \A m \in Names : m # n \/ canonical[m] # Undefined => canonical'[m] = canonical[m]
  BY <1>1, <1>3
<1>7. canonical'[n] = id
  BY <1>1, <1>3
<1>8. Missing(r)
  BY <1>1, RoundTakes
<1>9. r = Reference.symbol /\ n = NameOf(r)
  OBVIOUS
<1> HIDE DEF r, n, id, old
<1>10. /\ old \in Seq(Nat) /\ Len(old) = Len(definitions) /\ DOMAIN old = DOMAIN definitions
       /\ old[r] = id
  BY <1>3, <1>4, SeqExcept
<1>11. definitions'[r] = id /\ definitions'[id] = id
  BY <1>1, <1>3, <1>4, <1>10
<1>12. /\ canonical'[n] # Undefined /\ definitions'[r] = canonical'[n]
       /\ definitions'[canonical'[n]] = canonical'[n]
       /\ canonical'[n] \in Nat /\ canonical'[n] > Len(sym)
  BY <1>4, <1>7, <1>11
<1>13. Round /\ n \in StartStop
  BY <1>1
<1> QED BY <1>2, <1>6, <1>8, <1>9, <1>12, <1>13, RoundSettles

(* The first reference becomes the canonical one; as the queue is sorted,  *)
(* it is the last in input order.                                          *)
LEMMA FirstReferences ==
  ASSUME ResolutionInv, ReferencesInv, FirstReference
  PROVE  ReferencesInv'
<1> DEFINE r == Reference.symbol
           n == NameOf(r)
<1>1. /\ Round /\ Reference.ignore_if_loaded \notin Loaded
      /\ n \notin Versioned \cup StartStop /\ canonical[n] = Undefined
      /\ definitions' = [definitions EXCEPT ![r] = r] /\ canonical' = [canonical EXCEPT ![n] = r]
  BY DEF FirstReference
<1>2. \A s \in DOMAIN definitions : s # r => definitions'[s] = definitions[s]
  BY RoundAssigns
<1>3. /\ n \in Names /\ canonical \in [Names -> Nat] /\ r \in DOMAIN definitions
      /\ r \in Symbols /\ Symbols = 1..Len(sym) /\ Len(sym) \in Nat
  BY <1>1, RoundFacts, ProgramFacts
<1>4. r # Undefined
  BY <1>3 DEF Undefined
<1>5. \A m \in Names : m # n \/ canonical[m] # Undefined => canonical'[m] = canonical[m]
  BY <1>1, <1>3
<1>6. canonical'[n] = r /\ definitions'[r] = r
  BY <1>1, <1>3
<1>7. Missing(r)
  BY <1>1, RoundTakes
<1>8. r = Reference.symbol /\ n = NameOf(r)
  OBVIOUS
<1> HIDE DEF r, n
<1> QED BY <1>1, <1>2, <1>4, <1>5, <1>6, <1>7, <1>8, RoundSettles

(* The other references are pointed at the canonical one. *)
LEMMA LaterReferences ==
  ASSUME ResolutionInv, ReferencesInv, LaterReference
  PROVE  ReferencesInv'
<1> DEFINE r == Reference.symbol
           n == NameOf(r)
           c == canonical[n]
<1>1. /\ Round /\ Reference.ignore_if_loaded \notin Loaded
      /\ n \notin Versioned /\ c # Undefined
      /\ definitions' = [definitions EXCEPT ![r] = Definition(c)] /\ UNCHANGED canonical
  BY DEF LaterReference
<1>2. \A s \in DOMAIN definitions : s # r => definitions'[s] = definitions[s]
  BY RoundAssigns
<1>3. n \in Names /\ r \in DOMAIN definitions
  BY <1>1, RoundFacts
<1>4. phase = "canonicalise"
  BY <1>1 DEF Round
<1>5. definitions[c] = c
  BY <1>1, <1>3, <1>4 DEF ReferencesInv, CanonicalInv, IsCanonical
<1>6. Definition(c) = c
  BY <1>1, <1>5 DEF Definition, DefinitionIn
<1>7. definitions'[r] = c
  BY <1>1, <1>3, <1>6
<1>8. Missing(r)
  BY <1>1, RoundTakes
<1>9. r = Reference.symbol /\ n = NameOf(r) /\ canonical[n] = c
  OBVIOUS
<1> HIDE DEF r, n, c
<1> QED BY <1>1, <1>2, <1>7, <1>8, <1>9, RoundSettles

(* Every step keeps what is known of the references. *)
LEMMA ReferencesStep ==
  ASSUME ResolutionInv, SelectionInv, ReferencesInv, [Next]_vars
  PROVE  ReferencesInv'
<1>1. CASE EndCanonicalise \/ UNCHANGED vars
  <2>1. /\ UNCHANGED <<sym, untaken, loads, tasks, definitions, undefined, errors, canonical>>
        /\ \/ phase' = phase
           \/ phase = "canonicalise" /\ phase' = "done" /\ undefined = <<>>
    BY <1>1 DEF EndCanonicalise, vars
  <2>2. /\ Refs' = Refs /\ LoadedRefs' = LoadedRefs /\ Symbols' = Symbols
        /\ \A s : /\ Target(s)' = Target(s) /\ EntryOf(s)' = EntryOf(s) /\ NameOf(s)' = NameOf(s)
                  /\ (ToQueue(s)' <=> ToQueue(s)) /\ (Missing(s)' <=> Missing(s))
    BY <2>1, SameRefs, SameProgram
  <2>3. \A s : Queued(s)' <=> Queued(s)
    BY <2>1 DEF Queued
  <2>4. \A s : Done(s)' <=> Done(s)
    BY <2>2, <2>3 DEF Done
  <2>5. EntriesInv'
    BY <2>1, <2>2 DEF ReferencesInv, EntriesInv
  <2>6. phase' = phase => \A s : Unresolved(s)' <=> Unresolved(s)
    BY <2>1 DEF Unresolved, FileOf
  <2>7. TargetsInv'
    BY <2>1, <2>2, <2>3, <2>6 DEF ReferencesInv, TargetsInv
  <2>8. \A c, n : IsCanonical(c, n)' <=> IsCanonical(c, n)
    BY <2>1, <2>2, <2>4 DEF IsCanonical
  <2>9. \A n \in Names : IsCanonical(canonical[n], n)' <=> IsCanonical(canonical[n], n)
    BY <2>1, <2>8 DEF IsCanonical
  <2>10. CanonicalInv'
    BY <2>1, <2>2, <2>3, <2>4, <2>9 DEF ReferencesInv, CanonicalInv
  <2> QED BY <2>5, <2>7, <2>10 DEF ReferencesInv
<1> QED
  BY <1>1, SetUpReferences, PassedReferences, FailedReferences, ResolveReferences,
     SelectReferences, SortReferences, AlreadyDefinedReferences, VersionedReferences,
     StartStopReferences, FirstReferences, LaterReferences
     DEF Next, Step, Finished

(* The references that stay undefined are the ones that were queued and    *)
(* whose file was not loaded in the end.                                   *)
LEMMA StaysUndefinedIs ==
  ASSUME ResolutionInv, phase = "done", NEW s
  PROVE  StaysUndefined(s) <=> Missing(s)
<1> DEFINE T == Target(s)
<1>1. StaysUndefined(s) <=> T = Undefined \/ (~Requests(s, T) /\ FileOf(T) \notin Loaded
                                              /\ (IsWeak(s) \/ FileOf(T) = FileOf(s)))
  BY DEF StaysUndefined, Target
<1>2. NoFile \notin Loaded
  BY ResolutionAssumption DEF Loaded
<1>3. Prelude \in Loaded
  <2>1. Prelude \in Files /\ Prelude \notin untaken
    BY ResolutionAssumption DEF ResolutionInv, StateOK
  <2>2. loads[Prelude] = 1
    BY <2>1 DEF ResolutionInv, CellsInv
  <2> QED BY <2>1, <2>2 DEF Loaded
<1>4. ~Requests(s, T) <=> \/ FileOf(T) = FileOf(s) \/ IsWeak(s)
                          \/ (FileOf(s) \in Dynamic /\ FileOf(T) \in Dynamic)
  BY DEF Requests
<1>5. Missing(s) <=>
        \/ T = Undefined
        \/ T # Undefined /\ (FileOf(T) = FileOf(s) \/ IsWeak(s)) /\ FileOf(T) # Prelude
           /\ FileOf(T) \notin Loaded
  BY <1>2 DEF Missing, ToQueue, EntryOf
<1> QED BY <1>1, <1>3, <1>4, <1>5

(* The invariants imply the property. *)
LEMMA SettledInTheEnd ==
  ASSUME ResolutionInv, SelectionInv, ReferencesInv
  PROVE  ReferencesSettled
<1> SUFFICES ASSUME phase = "done", NEW s \in References
             PROVE  LET n == NameOf(s)
                        same == {r \in References : NameOf(r) = n /\ StaysUndefined(r)}
                    IN CASE ~StaysUndefined(s) -> n \in Plain => Definition(s) = Strongest(n)
                         [] StaysUndefined(s) /\ n \in StartStop ->
                              Definition(s) > Len(sym) /\ \A r \in same : Definition(r) = Definition(s)
                         [] OTHER -> Definition(s) \in same /\ \A r \in same : r <= Definition(s)
  BY DEF ReferencesSettled
<1> DEFINE n == NameOf(s)
           same == {r \in References : NameOf(r) = n /\ StaysUndefined(r)}
<1>1. References = {r \in LoadedRefs : NameOf(r) \notin Versioned}
  BY DEF References, LoadedRefs, Refs
<1>2. \A r : StaysUndefined(r) <=> Done(r)
  <2>1. undefined = <<>>
    BY DEF ReferencesInv, CanonicalInv
  <2>2. \A r : ~Queued(r)
    BY <2>1 DEF Queued
  <2>3. \A r : StaysUndefined(r) <=> Missing(r)
    BY StaysUndefinedIs
  <2> QED BY <2>2, <2>3 DEF Done
<1>3. s \in Symbols /\ ~sym[s].def /\ sym \in Programs /\ n \in Names /\ n \notin Versioned
  BY ReferenceFacts DEF References, ResolutionInv, StateOK
<1>4. /\ \A r \in LoadedRefs : ~Done(r) => definitions[r] = Target(r)
      /\ \A r \in LoadedRefs : Done(r) /\ NameOf(r) \notin Versioned =>
           /\ canonical[NameOf(r)] # Undefined
           /\ definitions[r] = canonical[NameOf(r)] /\ r <= canonical[NameOf(r)]
      /\ \A m \in Names \ Versioned : canonical[m] # Undefined => IsCanonical(canonical[m], m)
  BY DEF ReferencesInv, CanonicalInv
<1>5. CASE ~StaysUndefined(s)
  <2>1. n \in Plain => Definition(s) = Strongest(n)
    <3> SUFFICES ASSUME n \in Plain PROVE Definition(s) = Strongest(n)
      OBVIOUS
    <3>1. definitions[s] = Target(s)
      BY <1>1, <1>2, <1>4, <1>5
    <3>2. Target(s) # Undefined
      BY <1>5 DEF StaysUndefined, Target
    <3>3. Target(s) \in DefinitionsOf(n)
      BY <1>3, <3>2, LookUpFacts DEF Target
    <3>4. definitions[Target(s)] = Strongest(n)
      BY <3>3 DEF SelectionInv, SelectedIsStrongest
    <3> QED BY <3>1, <3>2, <3>4 DEF Definition, DefinitionIn
  <2> QED BY <1>5, <2>1
<1>6. CASE StaysUndefined(s)
  <2> DEFINE c == canonical[n]
  <2>1. c # Undefined /\ IsCanonical(c, n)
    BY <1>1, <1>2, <1>3, <1>4, <1>6
  <2>2. definitions[c] = c
    BY <2>1 DEF IsCanonical
  <2>3. \A r \in same : definitions[r] = c /\ r <= c
    BY <1>1, <1>2, <1>4
  <2>4. s \in same
    BY <1>6
  <2>5. \A r \in same : Definition(r) = c /\ r <= c
    BY <2>1, <2>2, <2>3 DEF Definition, DefinitionIn
  <2>6. n \in StartStop => c > Len(sym)
    BY <2>1 DEF IsCanonical
  <2>7. n \notin StartStop => c \in same
    <3> SUFFICES ASSUME n \notin StartStop PROVE c \in same
      OBVIOUS
    <3>1. c \in LoadedRefs /\ NameOf(c) = n /\ Done(c)
      BY <2>1 DEF IsCanonical
    <3> QED BY <1>1, <1>2, <1>3, <3>1
  <2>8. Definition(s) = c
    BY <2>4, <2>5
  <2> HIDE DEF same, c
  <2>9. CASE n \in StartStop
    <3>1. Definition(s) > Len(sym) /\ \A r \in same : Definition(r) = Definition(s)
      BY <2>5, <2>6, <2>8, <2>9
    <3> QED BY <1>6, <2>9, <3>1 DEF same
  <2>10. CASE n \notin StartStop
    <3>1. Definition(s) \in same /\ \A r \in same : r <= Definition(s)
      BY <2>5, <2>7, <2>8, <2>10
    <3> QED BY <1>6, <2>10, <3>1 DEF same
  <2> QED BY <2>9, <2>10
<1> QED BY <1>5, <1>6

(* In whatever order the tasks of resolve_symbols ran, a defined reference *)
(* leads to the strongest definition of its name, and all references that  *)
(* stay undefined lead to the last of them or to one start/stop symbol     *)
(* (resolution.rs: canonicalise_undefined_symbols).                        *)
THEOREM ReferencesAreSettled == Spec => []ReferencesSettled
<1>1. Init => SelectionInv /\ ReferencesInv
  <2> SUFFICES ASSUME Init PROVE SelectionInv /\ ReferencesInv
    OBVIOUS
  <2>1. KindsInv
    BY DEF Init, KindsInv, InitialFlags
  <2>2. SelectingInv /\ SelectedIsStrongest
    BY DEF Init, SelectingInv, SelectedIsStrongest, DuplicatesFail
  <2>3. EntriesInv
    BY DEF Init, EntriesInv
  <2>4. TargetsInv /\ CanonicalInv
    BY DEF Init, TargetsInv, CanonicalInv
  <2> QED BY <2>1, <2>2, <2>3, <2>4 DEF SelectionInv, ReferencesInv
<1>2. ResolutionInv /\ SelectionInv /\ [Next]_vars => SelectionInv'
  BY SelectionStep
<1>3. ResolutionInv /\ SelectionInv /\ ReferencesInv /\ [Next]_vars => ReferencesInv'
  BY ReferencesStep
<1>4. ResolutionInv /\ SelectionInv /\ ReferencesInv => ReferencesSettled
  BY SettledInTheEnd
<1> QED BY <1>1, <1>2, <1>3, <1>4, ResolutionInvariant, PTL DEF Spec
=============================================================================
