---------------------- MODULE ElfRelocationsProofs ----------------------
(***************************************************************************)
(* ReservedIsUsed, for every set of programs and every encoding of RELR.   *)
(*                                                                         *)
(* The scan, the sizes and the writer classify each relocation on their    *)
(* own, with the flags that its symbol has at that moment.  The flags that *)
(* say what the symbol is (V) never change, the others are only added to,  *)
(* so every classification is a function of the program: Fixed and Kind    *)
(* give the flags and the kind of a relocation, General, Relative and      *)
(* Packs say which dynamic relocation it needs, and Reserved counts what   *)
(* it needs of each part.  The proof has three layers.                     *)
(*                                                                         *)
(*  - Loops: what the recursive functions of the model compute (sums,      *)
(*    runs, the relocations that another one swallows).                    *)
(*  - Scan: sizes[g] is at each moment the sum of Reserved over the        *)
(*    relocations of g that were scanned, and the flags of every scanned   *)
(*    symbol satisfy the relocation.                                       *)
(*  - Writer: process_resolution takes for a symbol what                   *)
(*    allocate_resolution reserves for its flags, write_section takes what *)
(*    Reserved says, and a RELR run is encoded alike wherever its section  *)
(*    is placed.  So nothing is missing and nothing is left over.          *)
(*                                                                         *)
(* IInv is the conjunction of what the scan and the writer rely on.        *)
(***************************************************************************)
EXTENDS ElfRelocations, FiniteSetTheorems, SequenceTheorems, WellFoundedInduction, TLAPS

-----------------------------------------------------------------------------
(* Loops and sums.                                                         *)

(* Induction, for a set instead of a predicate. *)
LEMMA NatInductionSet ==
  ASSUME NEW P \in SUBSET Nat, 0 \in P, \A k \in P : k + 1 \in P
  PROVE  P = Nat
<1> SUFFICES ASSUME Nat \ P # {} PROVE FALSE
  OBVIOUS
<1>1. IsWellFoundedOn(OpToRel(<, Nat), Nat)
  BY NatLessThanWellFounded
<1>2. PICK x \in Nat \ P : \A y \in Nat \ P : ~(<<y, x>> \in OpToRel(<, Nat))
  <2>1. Nat \ P \subseteq Nat
    OBVIOUS
  <2> QED BY <1>1, <2>1, WFMin
<1>3. \A y \in Nat \ P : ~(y < x)
  BY <1>2 DEF OpToRel
<1>4. x # 0 /\ x - 1 \in Nat /\ (x - 1) + 1 = x /\ x - 1 < x
  OBVIOUS
<1>5. x - 1 \in P
  BY <1>3, <1>4
<1> QED BY <1>4, <1>5

(* f is what a loop computes that starts with b and takes step F[n] in its *)
(* n-th round.                                                             *)
IsLoop(f, N, X, b, F) ==
  /\ f \in [0 .. N -> X] /\ f[0] = b
  /\ \A i \in 1 .. N : f[i] = F[i][f[i - 1]]

(* A loop over values of X computes something. *)
LEMMA LoopExists ==
  ASSUME NEW N \in Nat, NEW X, NEW b \in X, NEW F \in [1 .. N -> [X -> X]]
  PROVE  \E f : IsLoop(f, N, X, b, F)
<1> DEFINE Loop(k) == \E f \in [0 .. k -> X] : f[0] = b /\ \A i \in 1 .. k : f[i] = F[i][f[i - 1]]
           P == {k \in Nat : k <= N => Loop(k)}
<1>1. Loop(0)
  <2>1. [i \in 0 .. 0 |-> b] \in [0 .. 0 -> X]
    OBVIOUS
  <2>2. [i \in 0 .. 0 |-> b][0] = b /\ 1 .. 0 = {}
    OBVIOUS
  <2> QED BY <2>1, <2>2
<1>2. ASSUME NEW k \in Nat, k + 1 <= N, Loop(k) PROVE Loop(k + 1)
  <2>1. PICK f \in [0 .. k -> X] : f[0] = b /\ \A i \in 1 .. k : f[i] = F[i][f[i - 1]]
    BY <1>2
  <2> DEFINE g == [i \in 0 .. (k + 1) |-> IF i = k + 1 THEN F[k + 1][f[k]] ELSE f[i]]
  <2>2. f[k] \in X /\ F[k + 1] \in [X -> X] /\ F[k + 1][f[k]] \in X
    BY <1>2
  <2>3. g \in [0 .. (k + 1) -> X] /\ g[0] = b
    BY <2>1, <2>2
  <2>4. ASSUME NEW i \in 1 .. (k + 1) PROVE g[i] = F[i][g[i - 1]]
    <3>1. CASE i = k + 1
      BY <3>1
    <3>2. CASE i # k + 1
      <4>1. i \in 1 .. k /\ i - 1 \in 0 .. k /\ i - 1 # k + 1 /\ i - 1 \in 0 .. (k + 1)
        BY <3>2
      <4>2. g[i] = f[i] /\ g[i - 1] = f[i - 1]
        BY <3>2, <4>1
      <4> QED BY <2>1, <4>1, <4>2
    <3> QED BY <3>1, <3>2
  <2> HIDE DEF g
  <2> QED BY <2>3, <2>4
<1> HIDE DEF Loop
<1>3. 0 \in P /\ \A k \in P : k + 1 \in P
  BY <1>1, <1>2
<1>4. P \in SUBSET Nat
  OBVIOUS
<1> HIDE DEF P
<1>5. P = Nat
  BY <1>3, <1>4, NatInductionSet
<1>6. Loop(N)
  <2>1. N \in P
    BY <1>5
  <2> QED BY <2>1 DEF P
<1> QED BY <1>6 DEF Loop, IsLoop

(* A function that takes the steps of the loop is what it computes. *)
LEMMA LoopFacts ==
  ASSUME NEW N \in Nat, NEW X, NEW b \in X, NEW F \in [1 .. N -> [X -> X]],
         NEW f, f = [i \in 0 .. N |-> f[i]], f[0] = b,
         \A i \in 1 .. N : f[i - 1] \in X => f[i] = F[i][f[i - 1]]
  PROVE  IsLoop(f, N, X, b, F)
<1> DEFINE Q == {k \in Nat : k <= N => f[k] \in X}
<1>2. 0 \in Q
  OBVIOUS
<1>3. ASSUME NEW k \in Q PROVE k + 1 \in Q
  <2> SUFFICES ASSUME k + 1 <= N PROVE f[k + 1] \in X
    OBVIOUS
  <2>1. k + 1 \in 1 .. N /\ (k + 1) - 1 = k /\ f[k] \in X
    OBVIOUS
  <2>2. f[k + 1] = F[k + 1][f[k]]
    BY <2>1
  <2> QED BY <2>1, <2>2
<1>4. Q \in SUBSET Nat
  OBVIOUS
<1> HIDE DEF Q
<1>5. Q = Nat
  BY <1>2, <1>3, <1>4, NatInductionSet
<1>6. \A i \in 0 .. N : f[i] \in X
  BY <1>5 DEF Q
<1>7. f \in [0 .. N -> X]
  BY <1>6
<1>8. \A i \in 1 .. N : f[i - 1] \in X
  BY <1>6
<1> QED BY <1>7, <1>8 DEF IsLoop

(* Sums of numbers. *)
LEMMA SumsFacts ==
  ASSUME NEW seq \in Seq(Nat)
  PROVE  /\ Sums(seq) \in [0 .. Len(seq) -> Nat] /\ Sums(seq)[0] = 0
         /\ \A i \in 1 .. Len(seq) : Sums(seq)[i] = Sums(seq)[i - 1] + seq[i]
<1> DEFINE N == Len(seq)
           F == [i \in 1 .. N |-> [x \in Nat |-> x + seq[i]]]
           Eq(f) == f = [n \in 0 .. N |-> IF n = 0 THEN 0 ELSE f[n - 1] + seq[n]]
<1>1. Sums(seq) = CHOOSE f : Eq(f)
  BY DEF Sums
<1>2. N \in Nat /\ \A i \in 1 .. N : seq[i] \in Nat /\ i - 1 \in 0 .. N
  OBVIOUS
<1>3. F \in [1 .. N -> [Nat -> Nat]] /\ \A i \in 1 .. N : \A x \in Nat : F[i][x] = x + seq[i]
  BY <1>2
<1> HIDE DEF F, N
<1>4. PICK f : IsLoop(f, N, Nat, 0, F)
  BY <1>2, <1>3, LoopExists
<1>5. Eq(f)
  <2>1. \A i \in 1 .. N : f[i] = f[i - 1] + seq[i]
    BY <1>2, <1>3, <1>4 DEF IsLoop
  <2> QED BY <2>1, <1>2, <1>4 DEF IsLoop
<1>6. PICK g : g = Sums(seq)
  OBVIOUS
<1>7. Eq(g)
  BY <1>1, <1>5, <1>6
<1>8. /\ g = [i \in 0 .. N |-> g[i]] /\ g[0] = 0
      /\ \A i \in 1 .. N : g[i - 1] \in Nat => g[i] = F[i][g[i - 1]]
  <2>1. g = [i \in 0 .. N |-> g[i]] /\ g[0] = 0
    BY <1>2, <1>7
  <2>2. \A i \in 1 .. N : g[i] = g[i - 1] + seq[i]
    BY <1>2, <1>7
  <2> QED BY <1>3, <2>1, <2>2
<1>9. IsLoop(g, N, Nat, 0, F)
  BY <1>2, <1>3, <1>8, LoopFacts
<1>10. \A i \in 1 .. N : g[i] = g[i - 1] + seq[i]
  BY <1>2, <1>3, <1>9 DEF IsLoop
<1> QED BY <1>6, <1>9, <1>10 DEF IsLoop, N


(* A function on 1 .. n is a sequence. *)
LEMMA IsSeq ==
  ASSUME NEW S, NEW n \in Nat, NEW f \in [1 .. n -> S]
  PROVE  f \in Seq(S) /\ Len(f) = n /\ DOMAIN f = 1 .. n
OBVIOUS

(* A sum is a number. *)
LEMMA SumType ==
  ASSUME NEW seq \in Seq(Nat)
  PROVE  Sum(seq) \in Nat
<1>1. Len(seq) \in 0 .. Len(seq)
  OBVIOUS
<1> QED BY <1>1, SumsFacts DEF Sum

(* When one number grows, the sum grows as much. *)
LEMMA SumUpdate ==
  ASSUME NEW n \in Nat, NEW a \in [1 .. n -> Nat], NEW b \in [1 .. n -> Nat],
         NEW j \in 1 .. n, NEW d \in Nat, b[j] = a[j] + d,
         \A i \in 1 .. n : i # j => b[i] = a[i]
  PROVE  Sum(b) = Sum(a) + d
<1>1. a \in Seq(Nat) /\ Len(a) = n /\ b \in Seq(Nat) /\ Len(b) = n
  BY IsSeq
<1>2. PICK A : A = Sums(a)
  OBVIOUS
<1>3. PICK B : B = Sums(b)
  OBVIOUS
<1>4. A \in [0 .. n -> Nat] /\ A[0] = 0 /\ \A i \in 1 .. n : A[i] = A[i - 1] + a[i]
  BY <1>1, <1>2, SumsFacts
<1>5. B \in [0 .. n -> Nat] /\ B[0] = 0 /\ \A i \in 1 .. n : B[i] = B[i - 1] + b[i]
  BY <1>1, <1>3, SumsFacts
<1> DEFINE P == {k \in Nat : k <= n => B[k] = A[k] + (IF k < j THEN 0 ELSE d)}
<1>6. 0 \in P
  BY <1>4, <1>5
<1>7. ASSUME NEW k \in P PROVE k + 1 \in P
  <2> SUFFICES ASSUME k + 1 <= n PROVE B[k + 1] = A[k + 1] + (IF k + 1 < j THEN 0 ELSE d)
    OBVIOUS
  <2>1. k \in 0 .. n /\ k + 1 \in 1 .. n /\ (k + 1) - 1 = k
    OBVIOUS
  <2>2. B[k] = A[k] + (IF k < j THEN 0 ELSE d)
    OBVIOUS
  <2>3. B[k + 1] = B[k] + b[k + 1] /\ A[k + 1] = A[k] + a[k + 1]
    BY <1>4, <1>5, <2>1
  <2>4. A[k] \in Nat /\ B[k] \in Nat /\ a[k + 1] \in Nat /\ b[k + 1] \in Nat
    BY <1>4, <1>5, <2>1
  <2>5. CASE k + 1 = j
    <3>1. b[k + 1] = a[k + 1] + d /\ k < j /\ ~(k + 1 < j)
      <4>1. k < j /\ ~(k + 1 < j)
        BY <2>1, <2>5
      <4> QED BY <2>5, <4>1
    <3>2. PICK x, y, u, v \in Nat : x = A[k] /\ y = B[k] /\ u = a[k + 1] /\ v = b[k + 1]
      BY <2>4
    <3>3. y = x /\ v = u + d /\ B[k + 1] = y + v /\ A[k + 1] = x + u
      BY <2>2, <2>3, <3>1, <3>2
    <3>4. B[k + 1] = A[k + 1] + d
      BY <3>3
    <3> QED BY <3>1, <3>4
  <2>6. CASE k + 1 # j
    <3>1. b[k + 1] = a[k + 1]
      BY <2>1, <2>6
    <3> QED BY <2>2, <2>3, <2>4, <2>6, <3>1, SMTT(30)
  <2> QED BY <2>5, <2>6
<1>8. P \in SUBSET Nat
  OBVIOUS
<1> HIDE DEF P
<1>9. P = Nat
  BY <1>6, <1>7, <1>8, NatInductionSet
<1>10. B[n] = A[n] + d
  BY <1>9 DEF P
<1> QED BY <1>1, <1>2, <1>3, <1>10 DEF Sum

(* The sum of smaller numbers is no larger. *)
LEMMA SumLeq ==
  ASSUME NEW n \in Nat, NEW a \in [1 .. n -> Nat], NEW b \in [1 .. n -> Nat], \A k \in 1 .. n : a[k] <= b[k]
  PROVE  Sum(a) \in Nat /\ Sum(b) \in Nat /\ Sum(a) <= Sum(b)
<1>1. a \in Seq(Nat) /\ Len(a) = n /\ b \in Seq(Nat) /\ Len(b) = n
  BY IsSeq
<1>2. PICK A, B : A = Sums(a) /\ B = Sums(b)
  OBVIOUS
<1>3. A \in [0 .. n -> Nat] /\ A[0] = 0 /\ \A i \in 1 .. n : A[i] = A[i - 1] + a[i]
  BY <1>1, <1>2, SumsFacts
<1>4. B \in [0 .. n -> Nat] /\ B[0] = 0 /\ \A i \in 1 .. n : B[i] = B[i - 1] + b[i]
  BY <1>1, <1>2, SumsFacts
<1> DEFINE P == {k \in Nat : k <= n => A[k] <= B[k]}
<1>5. 0 \in P
  BY <1>3, <1>4
<1>6. ASSUME NEW k \in P PROVE k + 1 \in P
  <2> SUFFICES ASSUME k + 1 <= n PROVE A[k + 1] <= B[k + 1]
    OBVIOUS
  <2>1. k \in 0 .. n /\ k + 1 \in 1 .. n /\ (k + 1) - 1 = k /\ A[k] <= B[k]
    OBVIOUS
  <2>2. A[k + 1] = A[k] + a[k + 1] /\ B[k + 1] = B[k] + b[k + 1] /\ a[k + 1] <= b[k + 1]
    BY <1>3, <1>4, <2>1
  <2>3. A[k] \in Nat /\ B[k] \in Nat /\ a[k + 1] \in Nat /\ b[k + 1] \in Nat
    BY <1>3, <1>4, <2>1
  <2> QED BY <2>1, <2>2, <2>3
<1>7. P \in SUBSET Nat
  OBVIOUS
<1> HIDE DEF P
<1>8. P = Nat
  BY <1>5, <1>6, <1>7, NatInductionSet
<1>9. A[n] <= B[n]
  BY <1>8 DEF P
<1>10. n \in 0 .. n /\ A[n] \in Nat /\ B[n] \in Nat
  BY <1>3, <1>4
<1> QED BY <1>1, <1>2, <1>9, <1>10 DEF Sum

(* The sum of n zeros is zero, that of n ones is n. *)
LEMMA SumSame ==
  ASSUME NEW n \in Nat, NEW c \in {0, 1}
  PROVE  Sum([k \in 1 .. n |-> c]) = IF c = 0 THEN 0 ELSE n
<1>1. PICK a : a = [k \in 1 .. n |-> c]
  OBVIOUS
<1>2. a \in Seq(Nat) /\ Len(a) = n /\ \A i \in 1 .. n : a[i] = c
  BY <1>1, IsSeq
<1>3. PICK A : A = Sums(a)
  OBVIOUS
<1>4. A \in [0 .. n -> Nat] /\ A[0] = 0 /\ \A i \in 1 .. n : A[i] = A[i - 1] + a[i]
  BY <1>2, <1>3, SumsFacts
<1> DEFINE P == {k \in Nat : k <= n => A[k] = IF c = 0 THEN 0 ELSE k}
<1>5. 0 \in P
  BY <1>4
<1>6. ASSUME NEW k \in P PROVE k + 1 \in P
  <2> SUFFICES ASSUME k + 1 <= n PROVE A[k + 1] = IF c = 0 THEN 0 ELSE k + 1
    OBVIOUS
  <2>1. k \in 0 .. n /\ k + 1 \in 1 .. n /\ (k + 1) - 1 = k
    OBVIOUS
  <2>2. A[k + 1] = A[k] + c
    BY <1>2, <1>4, <2>1
  <2> QED BY <2>1, <2>2
<1>7. P \in SUBSET Nat
  OBVIOUS
<1> HIDE DEF P
<1>8. P = Nat
  BY <1>5, <1>6, <1>7, NatInductionSet
<1>9. A[n] = IF c = 0 THEN 0 ELSE n
  BY <1>8 DEF P
<1> QED BY <1>1, <1>2, <1>3, <1>9 DEF Sum

(* The sum of two sequences, one after the other. *)
LEMMA SumConcat ==
  ASSUME NEW a \in Seq(Nat), NEW b \in Seq(Nat)
  PROVE  Sum(a \o b) = Sum(a) + Sum(b)
<1>1. PICK c : c = a \o b
  OBVIOUS
<1>2. PICK n \in Nat, m \in Nat : n = Len(a) /\ m = Len(b)
  OBVIOUS
<1>3. /\ c \in Seq(Nat) /\ Len(c) = n + m
      /\ \A i \in 1 .. n : c[i] = a[i]
      /\ \A i \in 1 .. m : c[n + i] = b[i]
  BY <1>1, <1>2
<1>4. PICK A, B, C : A = Sums(a) /\ B = Sums(b) /\ C = Sums(c)
  OBVIOUS
<1>5. A \in [0 .. n -> Nat] /\ A[0] = 0 /\ \A i \in 1 .. n : A[i] = A[i - 1] + a[i]
  BY <1>2, <1>4, SumsFacts
<1>6. B \in [0 .. m -> Nat] /\ B[0] = 0 /\ \A i \in 1 .. m : B[i] = B[i - 1] + b[i]
  BY <1>2, <1>4, SumsFacts
<1>7. C \in [0 .. (n + m) -> Nat] /\ C[0] = 0 /\ \A i \in 1 .. (n + m) : C[i] = C[i - 1] + c[i]
  BY <1>3, <1>4, SumsFacts
<1> DEFINE P == {k \in Nat : k <= n => C[k] = A[k]}
           Q == {k \in Nat : k <= m => C[n + k] = A[n] + B[k]}
<1>8. 0 \in P
  BY <1>5, <1>7
<1>9. ASSUME NEW k \in P PROVE k + 1 \in P
  <2> SUFFICES ASSUME k + 1 <= n PROVE C[k + 1] = A[k + 1]
    OBVIOUS
  <2>1. k + 1 \in 1 .. n /\ (k + 1) - 1 = k /\ k + 1 \in 1 .. (n + m) /\ C[k] = A[k]
    OBVIOUS
  <2> QED BY <1>3, <1>5, <1>7, <2>1
<1>10. P \in SUBSET Nat
  OBVIOUS
<1> HIDE DEF P
<1>11. P = Nat
  BY <1>8, <1>9, <1>10, NatInductionSet
<1>12. C[n] = A[n]
  BY <1>11 DEF P
<1>13. 0 \in Q
  BY <1>5, <1>6, <1>12
<1>14. ASSUME NEW k \in Q PROVE k + 1 \in Q
  <2> SUFFICES ASSUME k + 1 <= m PROVE C[n + (k + 1)] = A[n] + B[k + 1]
    OBVIOUS
  <2>1. /\ k + 1 \in 1 .. m /\ (k + 1) - 1 = k /\ n + (k + 1) \in 1 .. (n + m)
        /\ (n + (k + 1)) - 1 = n + k /\ C[n + k] = A[n] + B[k]
    OBVIOUS
  <2>2. C[n + (k + 1)] = C[n + k] + b[k + 1]
    BY <1>3, <1>7, <2>1
  <2>3. B[k + 1] = B[k] + b[k + 1]
    BY <1>6, <2>1
  <2>4. A[n] \in Nat /\ B[k] \in Nat /\ b[k + 1] \in Nat
    <3>1. n \in 0 .. n /\ k \in 0 .. m /\ DOMAIN b = 1 .. m
      BY <1>2, <2>1
    <3> QED BY <1>5, <1>6, <2>1, <3>1, SMTT(30)
  <2> QED BY <2>1, <2>2, <2>3, <2>4
<1>15. Q \in SUBSET Nat
  OBVIOUS
<1> HIDE DEF Q
<1>16. Q = Nat
  BY <1>13, <1>14, <1>15, NatInductionSet
<1>17. C[n + m] = A[n] + B[m]
  BY <1>16, SMTT(30) DEF Q
<1> QED BY <1>1, <1>2, <1>3, <1>4, <1>17 DEF Sum

(* What the sequences of a sequence are when they are joined. *)
LEMMA JoinedFacts ==
  ASSUME NEW S, NEW seqs \in Seq(Seq(S))
  PROVE  /\ Joined(seqs) \in [0 .. Len(seqs) -> Seq(S)] /\ Joined(seqs)[0] = <<>>
         /\ \A i \in 1 .. Len(seqs) : Joined(seqs)[i] = Joined(seqs)[i - 1] \o seqs[i]
<1> DEFINE N == Len(seqs)
           X == Seq(S)
           base == <<>>
           step(x, i) == x \o seqs[i]
           F == [i \in 1 .. N |-> [x \in X |-> step(x, i)]]
           Eq(f) == f = [n \in 0 .. N |-> IF n = 0 THEN base ELSE step(f[n - 1], n)]
<1>1. Joined(seqs) = CHOOSE f : Eq(f)
  BY DEF Joined
<1>2. N \in Nat /\ base \in X /\ \A i \in 1 .. N : i \in 0 .. N /\ i # 0 /\ i - 1 \in 0 .. N
  OBVIOUS
<1>3. \A i \in 1 .. N : \A x \in X : step(x, i) \in X
  OBVIOUS
<1> HIDE DEF N, X, step, base
<1>4. F \in [1 .. N -> [X -> X]] /\ \A i \in 1 .. N : \A x \in X : F[i][x] = step(x, i)
  BY <1>3
<1> HIDE DEF F
<1>5. PICK f : IsLoop(f, N, X, base, F)
  BY <1>2, <1>4, LoopExists
<1>6. Eq(f)
  <2>1. \A i \in 1 .. N : f[i] = step(f[i - 1], i)
    BY <1>2, <1>4, <1>5 DEF IsLoop
  <2>2. f = [n \in 0 .. N |-> f[n]]
    BY <1>5 DEF IsLoop
  <2>3. \A n \in 0 .. N : f[n] = IF n = 0 THEN base ELSE step(f[n - 1], n)
    BY <1>2, <1>5, <2>1 DEF IsLoop
  <2> QED BY <2>2, <2>3
<1>7. PICK g : Eq(g) /\ Joined(seqs) = g
  BY <1>1, <1>6
<1>8. /\ g = [i \in 0 .. N |-> g[i]] /\ g[0] = base
      /\ \A i \in 1 .. N : g[i - 1] \in X => g[i] = F[i][g[i - 1]]
  <2>1. g = [i \in 0 .. N |-> g[i]] /\ g[0] = base
    BY <1>2, <1>7
  <2>2. \A i \in 1 .. N : g[i] = step(g[i - 1], i)
    BY <1>2, <1>7
  <2> QED BY <1>4, <2>1, <2>2
<1>9. IsLoop(g, N, X, base, F)
  BY <1>2, <1>4, <1>8, LoopFacts
<1>10. /\ g \in [0 .. N -> X] /\ g[0] = base
       /\ \A i \in 1 .. N : g[i] = step(g[i - 1], i)
  BY <1>2, <1>4, <1>9 DEF IsLoop
<1> QED BY <1>7, <1>10 DEF N, X, base, step

-----------------------------------------------------------------------------
(* Counting the entries of tables.                                         *)
Whats == {"header", "this module", "module", "base", "bitmap", "rela", "relative", "tpoff symbol", "tpoff",
          "dtpoff symbol", "dtpoff", "zero", "descriptor", "symbol", "ifunc", "irelative", "address", "plt", "done"}
Entry == [part: Parts \cup {"done"}, means: Whats \X (Nat \cup {None})]

(* Take gives an entry of the part. *)
LEMMA TakeType ==
  ASSUME NEW part \in Parts \cup {"done"}, NEW what \in Whats, NEW s \in Nat \cup {None}
  PROVE  Take(part, what, s) \in Entry /\ Take(part, what, s).part = part
BY DEF Take, Entry

(* Whether an entry is one of part p, as a number. *)
Marks(takes, p) == [k \in DOMAIN takes |-> Count(takes[k].part = p)]

(* The marks of a sequence of entries are zeros and ones. *)
LEMMA MarksType ==
  ASSUME NEW takes \in Seq(Entry), NEW p
  PROVE  Marks(takes, p) \in Seq(Nat) /\ NumTaken(takes, p) = Sum(Marks(takes, p)) /\ NumTaken(takes, p) \in Nat
<1>1. NumTaken(takes, p) = Sum(Marks(takes, p))
  BY DEF NumTaken, Marks
<1>2. Marks(takes, p) \in Seq(Nat)
  <2>1. DOMAIN takes = 1 .. Len(takes) /\ Len(takes) \in Nat
    OBVIOUS
  <2>2. Marks(takes, p) \in [1 .. Len(takes) -> Nat]
    BY <2>1 DEF Marks, Count
  <2> QED BY <2>1, <2>2, IsSeq
<1> QED BY <1>1, <1>2, SumType

(* Entries of two sequences, one after the other. *)
LEMMA NumTakenConcat ==
  ASSUME NEW a \in Seq(Entry), NEW b \in Seq(Entry), NEW p
  PROVE  NumTaken(a \o b, p) = NumTaken(a, p) + NumTaken(b, p)
<1>1. a \o b \in Seq(Entry) /\ Len(a \o b) = Len(a) + Len(b)
  OBVIOUS
<1>2. Marks(a \o b, p) = Marks(a, p) \o Marks(b, p)
  <2>1. PICK n \in Nat, m \in Nat : n = Len(a) /\ m = Len(b)
    OBVIOUS
  <2>2. DOMAIN a = 1 .. n /\ DOMAIN b = 1 .. m /\ DOMAIN (a \o b) = 1 .. (n + m)
    BY <1>1, <2>1
  <2>3. /\ Marks(a, p) \in Seq(Nat) /\ Len(Marks(a, p)) = n
        /\ Marks(b, p) \in Seq(Nat) /\ Len(Marks(b, p)) = m
    <3>1. Marks(a, p) \in [1 .. n -> Nat] /\ Marks(b, p) \in [1 .. m -> Nat]
      BY <2>2 DEF Marks, Count
    <3> QED BY <3>1, IsSeq
  <2>4. \A i \in 1 .. (n + m) : (a \o b)[i] = IF i <= n THEN a[i] ELSE b[i - n]
    BY <2>1
  <2>5. \A i \in 1 .. (n + m) : Marks(a \o b, p)[i] = IF i <= n THEN Marks(a, p)[i] ELSE Marks(b, p)[i - n]
    <3> SUFFICES ASSUME NEW i \in 1 .. (n + m)
                 PROVE  Marks(a \o b, p)[i] = IF i <= n THEN Marks(a, p)[i] ELSE Marks(b, p)[i - n]
      OBVIOUS
    <3>1. Marks(a \o b, p)[i] = Count((a \o b)[i].part = p)
      BY <2>2 DEF Marks
    <3>2. CASE i <= n
      <4>1. i \in 1 .. n
        BY <3>2
      <4> QED BY <2>2, <2>4, <3>1, <3>2, <4>1 DEF Marks
    <3>3. CASE ~(i <= n)
      <4>1. i - n \in 1 .. m
        BY <3>3
      <4> QED BY <2>2, <2>4, <3>1, <3>3, <4>1 DEF Marks
    <3> QED BY <3>2, <3>3
  <2>6. Marks(a \o b, p) \in Seq(Nat) /\ Len(Marks(a \o b, p)) = n + m
    <3>1. Marks(a \o b, p) \in [1 .. (n + m) -> Nat]
      BY <2>2 DEF Marks, Count
    <3> QED BY <3>1, IsSeq
  <2>7. PICK x, y, z : x = Marks(a, p) /\ y = Marks(b, p) /\ z = Marks(a \o b, p)
    OBVIOUS
  <2>8. /\ x \o y \in Seq(Nat) /\ Len(x \o y) = n + m
        /\ \A i \in 1 .. (n + m) : (x \o y)[i] = IF i <= n THEN x[i] ELSE y[i - n]
    BY <2>3, <2>7, ConcatProperties
  <2>9. \A i \in 1 .. (n + m) : (x \o y)[i] = z[i]
    BY <2>5, <2>7, <2>8
  <2>10. x \o y = z
    BY <2>6, <2>7, <2>8, <2>9, SeqEqual
  <2> QED BY <2>7, <2>10
<1> QED BY <1>1, <1>2, MarksType, SumConcat, ZenonT(60)

(* Short sequences. *)
LEMMA NumTakenFew ==
  ASSUME NEW p
  PROVE  /\ NumTaken(<<>>, p) = 0
         /\ \A t \in Entry : NumTaken(<<t>>, p) = Count(t.part = p)
         /\ \A t, u \in Entry : NumTaken(<<t, u>>, p) = Count(t.part = p) + Count(u.part = p)
         /\ \A t, u, v \in Entry :
              NumTaken(<<t, u, v>>, p) = (Count(t.part = p) + Count(u.part = p)) + Count(v.part = p)
<1>1. NumTaken(<<>>, p) = 0
  <2>1. <<>> \in Seq(Entry) /\ DOMAIN <<>> = 1 .. 0
    OBVIOUS
  <2>2. Marks(<<>>, p) \in Seq(Nat) /\ Len(Marks(<<>>, p)) = 0
    <3>1. Marks(<<>>, p) \in [1 .. 0 -> Nat]
      BY <2>1 DEF Marks, Count
    <3> QED BY <3>1, IsSeq
  <2>3. Sum(Marks(<<>>, p)) = 0
    BY <2>2, SumsFacts DEF Sum
  <2> QED BY <2>1, <2>3, MarksType
<1>2. ASSUME NEW n \in 1 .. 3, NEW x \in Seq(Entry), Len(x) = n
      PROVE  \E A : /\ A[0] = 0 /\ NumTaken(x, p) = A[n]
                    /\ \A i \in 1 .. n : A[i] = A[i - 1] + Count(x[i].part = p)
  <2>1. DOMAIN x = 1 .. n /\ n \in Nat
    BY <1>2
  <2>2. Marks(x, p) \in [1 .. n -> Nat] /\ \A i \in 1 .. n : Marks(x, p)[i] = Count(x[i].part = p)
    BY <2>1 DEF Marks, Count
  <2>3. Marks(x, p) \in Seq(Nat) /\ Len(Marks(x, p)) = n
    BY <2>1, <2>2, IsSeq
  <2>4. PICK A : A = Sums(Marks(x, p))
    OBVIOUS
  <2>5. A[0] = 0 /\ \A i \in 1 .. n : A[i] = A[i - 1] + Marks(x, p)[i]
    BY <2>3, <2>4, SumsFacts
  <2>6. NumTaken(x, p) = A[n]
    BY <2>3, <2>4, MarksType DEF Sum
  <2> QED BY <2>2, <2>5, <2>6
<1>3. \A b : Count(b) \in Nat
  BY DEF Count
<1>4. ASSUME NEW t \in Entry PROVE NumTaken(<<t>>, p) = Count(t.part = p)
  <2>1. <<t>> \in Seq(Entry) /\ Len(<<t>>) = 1 /\ <<t>>[1] = t
    OBVIOUS
  <2>2. PICK A : /\ A[0] = 0 /\ NumTaken(<<t>>, p) = A[1]
                 /\ \A i \in 1 .. 1 : A[i] = A[i - 1] + Count(<<t>>[i].part = p)
    <3>1. 1 \in 1 .. 3
      OBVIOUS
    <3> QED BY <1>2, <2>1, <3>1
  <2>3. A[1] = A[0] + Count(t.part = p)
    <3>1. 1 \in 1 .. 1 /\ 1 - 1 = 0
      OBVIOUS
    <3> QED BY <2>1, <2>2, <3>1
  <2> QED BY <1>3, <2>2, <2>3
<1>5. ASSUME NEW t \in Entry, NEW u \in Entry
      PROVE  NumTaken(<<t, u>>, p) = Count(t.part = p) + Count(u.part = p)
  <2>1. <<t, u>> \in Seq(Entry) /\ Len(<<t, u>>) = 2 /\ <<t, u>>[1] = t /\ <<t, u>>[2] = u
    OBVIOUS
  <2>2. PICK A : /\ A[0] = 0 /\ NumTaken(<<t, u>>, p) = A[2]
                 /\ \A i \in 1 .. 2 : A[i] = A[i - 1] + Count(<<t, u>>[i].part = p)
    <3>1. 2 \in 1 .. 3
      OBVIOUS
    <3> QED BY <1>2, <2>1, <3>1
  <2>3. A[1] = A[0] + Count(t.part = p)
    <3>1. 1 \in 1 .. 2 /\ 1 - 1 = 0
      OBVIOUS
    <3> QED BY <2>1, <2>2, <3>1
  <2>4. A[2] = A[1] + Count(u.part = p)
    <3>1. 2 \in 1 .. 2 /\ 2 - 1 = 1
      OBVIOUS
    <3> QED BY <2>1, <2>2, <3>1
  <2> QED BY <1>3, <2>2, <2>3, <2>4
<1>6. ASSUME NEW t \in Entry, NEW u \in Entry, NEW v \in Entry
      PROVE  NumTaken(<<t, u, v>>, p) = (Count(t.part = p) + Count(u.part = p)) + Count(v.part = p)
  <2>1. /\ <<t, u, v>> \in Seq(Entry) /\ Len(<<t, u, v>>) = 3
        /\ <<t, u, v>>[1] = t /\ <<t, u, v>>[2] = u /\ <<t, u, v>>[3] = v
    OBVIOUS
  <2>2. PICK A : /\ A[0] = 0 /\ NumTaken(<<t, u, v>>, p) = A[3]
                 /\ \A i \in 1 .. 3 : A[i] = A[i - 1] + Count(<<t, u, v>>[i].part = p)
    <3>1. 3 \in 1 .. 3
      OBVIOUS
    <3> QED BY <1>2, <2>1, <3>1
  <2>3. A[1] = A[0] + Count(t.part = p)
    <3>1. 1 \in 1 .. 3 /\ 1 - 1 = 0
      OBVIOUS
    <3> QED BY <2>1, <2>2, <3>1
  <2>4. A[2] = A[1] + Count(u.part = p)
    <3>1. 2 \in 1 .. 3 /\ 2 - 1 = 1
      OBVIOUS
    <3> QED BY <2>1, <2>2, <3>1
  <2>5. A[3] = A[2] + Count(v.part = p)
    <3>1. 3 \in 1 .. 3 /\ 3 - 1 = 2
      OBVIOUS
    <3> QED BY <2>1, <2>2, <3>1
  <2> QED BY <1>3, <2>2, <2>3, <2>4, <2>5
<1> QED BY <1>1, <1>4, <1>5, <1>6

(* Entries of joined sequences. *)
LEMMA NumTakenJoin ==
  ASSUME NEW seqs \in Seq(Seq(Entry)), NEW p, NEW n, n = Len(seqs)
  PROVE  /\ Join(seqs) \in Seq(Entry)
         /\ [k \in 1 .. n |-> NumTaken(seqs[k], p)] \in [1 .. n -> Nat]
         /\ NumTaken(Join(seqs), p) = Sum([k \in 1 .. n |-> NumTaken(seqs[k], p)])
<1>1. PICK J : J = Joined(seqs)
  OBVIOUS
<1>2. n \in Nat /\ DOMAIN seqs = 1 .. n
  OBVIOUS
<1>3. J \in [0 .. n -> Seq(Entry)] /\ J[0] = <<>> /\ \A i \in 1 .. n : J[i] = J[i - 1] \o seqs[i]
  BY <1>1, JoinedFacts
<1>4. PICK a : a = [k \in 1 .. n |-> NumTaken(seqs[k], p)]
  OBVIOUS
<1>5. \A k \in 1 .. n : seqs[k] \in Seq(Entry)
  BY <1>2
<1>6. a \in [1 .. n -> Nat] /\ \A k \in 1 .. n : a[k] = NumTaken(seqs[k], p)
  BY <1>4, <1>5, MarksType
<1>7. a \in Seq(Nat) /\ Len(a) = n
  BY <1>2, <1>6, IsSeq
<1>8. PICK A : A = Sums(a)
  OBVIOUS
<1>9. A \in [0 .. n -> Nat] /\ A[0] = 0 /\ \A i \in 1 .. n : A[i] = A[i - 1] + a[i]
  BY <1>7, <1>8, SumsFacts
<1> DEFINE P == {k \in Nat : k <= n => NumTaken(J[k], p) = A[k]}
<1>10. 0 \in P
  BY <1>3, <1>9, NumTakenFew
<1>11. ASSUME NEW k \in P PROVE k + 1 \in P
  <2> SUFFICES ASSUME k + 1 <= n PROVE NumTaken(J[k + 1], p) = A[k + 1]
    OBVIOUS
  <2>1. k \in 0 .. n /\ k + 1 \in 1 .. n /\ (k + 1) - 1 = k /\ NumTaken(J[k], p) = A[k]
    BY <1>2
  <2>2. J[k + 1] = J[k] \o seqs[k + 1] /\ J[k] \in Seq(Entry)
    BY <1>3, <2>1
  <2>3. NumTaken(J[k + 1], p) = NumTaken(J[k], p) + NumTaken(seqs[k + 1], p)
    BY <1>5, <2>1, <2>2, NumTakenConcat
  <2> QED BY <1>6, <1>9, <2>1, <2>3
<1>12. P \in SUBSET Nat
  OBVIOUS
<1> HIDE DEF P
<1>13. P = Nat
  BY <1>10, <1>11, <1>12, NatInductionSet
<1>14. NumTaken(J[n], p) = A[n]
  BY <1>2, <1>13 DEF P
<1>15. Join(seqs) = J[n] /\ J[n] \in Seq(Entry)
  BY <1>1, <1>2, <1>3 DEF Join
<1> QED BY <1>4, <1>6, <1>7, <1>8, <1>14, <1>15 DEF Sum

(* An entry several times. *)
LEMMA NumTakenRepeat ==
  ASSUME NEW n \in Nat, NEW t \in Entry, NEW p
  PROVE  /\ Repeat(n, t) \in Seq(Entry)
         /\ NumTaken(Repeat(n, t), p) = IF t.part = p THEN n ELSE 0
<1>1. Repeat(n, t) \in [1 .. n -> Entry] /\ \A k \in 1 .. n : Repeat(n, t)[k] = t
  BY DEF Repeat
<1>2. Repeat(n, t) \in Seq(Entry) /\ DOMAIN Repeat(n, t) = 1 .. n
  BY <1>1, IsSeq
<1>3. PICK c \in {0, 1} : c = Count(t.part = p)
  BY DEF Count
<1>4. Marks(Repeat(n, t), p) = [k \in 1 .. n |-> c]
  BY <1>1, <1>2, <1>3 DEF Marks
<1>5. NumTaken(Repeat(n, t), p) = IF c = 0 THEN 0 ELSE n
  <2>1. Sum([k \in 1 .. n |-> c]) = IF c = 0 THEN 0 ELSE n
    BY SumSame
  <2>2. NumTaken(Repeat(n, t), p) = Sum(Marks(Repeat(n, t), p))
    BY <1>2, MarksType
  <2> QED BY <1>4, <2>1, <2>2
<1> QED BY <1>2, <1>3, <1>5 DEF Count

-----------------------------------------------------------------------------
(* What is known of a symbol and a relocation before the scan.             *)
V == {"NON_INTERPOSABLE", "DYNAMIC", "DYNAMIC_FUNCTION", "ABSOLUTE", "IFUNC", "DOWNGRADE_TO_LOCAL"}
VF(s) == ValueFlags(prog.symbols[s])
Fixed(rel) == Merge(VF(rel.symbol), rel)
Rels(i) == prog.sections[i].relocations
Kind(i, k) == KindOf(EffectiveType(Rels(i)[k], Fixed(Rels(i)[k]), prog.sections[i]))
Kinds == {"Absolute", "Relative", "PltRelative", "GotRelative", "GotTpOff", "TpOff", "DtpOff", "TlsGd",
          "TlsLd", "TlsDesc", "TlsDescCall", "None"}

(* Output kinds exclude each other. *)
LEMMA OutputFacts ==
  ASSUME prog \in Programs
  PROVE  /\ IsPositionIndependent <=> prog.kind \notin {"static", "dynamic"}
         /\ HasFixedLoadAddress <=> ~IsPositionIndependent
         /\ ~IsExecutable => IsPositionIndependent /\ ~IsStatic
         /\ prog.copy => IsExecutable
         /\ prog.relr \in BOOLEAN /\ prog.relax \in BOOLEAN /\ prog.copy \in BOOLEAN
<1>1. IsProgram(prog)
  BY RelocationsAssumption
<1>2. prog.kind \in OutputKinds
  BY <1>1 DEF IsProgram
<1>3. prog.copy => prog.kind # "shared"
  BY <1>1 DEF IsProgram
<1>4. prog.relr \in BOOLEAN /\ prog.relax \in BOOLEAN /\ prog.copy \in BOOLEAN
  BY <1>1 DEF IsProgram
<1> QED BY <1>2, <1>3, <1>4 DEF OutputKinds, IsPositionIndependent, HasFixedLoadAddress, IsExecutable, IsStatic

(* Symbols, sections and files are numbered. *)
LEMMA ProgramFacts ==
  ASSUME prog \in Programs
  PROVE  /\ Len(prog.symbols) \in Nat /\ Symbols = 1 .. Len(prog.symbols)
         /\ Len(prog.sections) \in Nat /\ Sections = 1 .. Len(prog.sections)
         /\ Len(prog.files) \in Nat /\ DOMAIN prog.files = 1 .. Len(prog.files)
         /\ \A k \in DOMAIN prog.files : prog.files[k] \in Files
         /\ "prelude" \in Files /\ "epilogue" \in Files
<1>1. IsProgram(prog)
  BY RelocationsAssumption
<1>2. Len(prog.symbols) \in Nat /\ prog.symbols = [s \in 1 .. Len(prog.symbols) |-> prog.symbols[s]]
  BY <1>1 DEF IsProgram
<1>3. Len(prog.sections) \in Nat /\ prog.sections = [i \in 1 .. Len(prog.sections) |-> prog.sections[i]]
  BY <1>1 DEF IsProgram
<1>4. Len(prog.files) \in Nat /\ prog.files = [k \in 1 .. Len(prog.files) |-> prog.files[k]]
  BY <1>1 DEF IsProgram
<1>5. {"prelude", "epilogue"} \subseteq Range(prog.files)
  BY <1>1 DEF IsProgram
<1>6. Symbols = 1 .. Len(prog.symbols)
  BY <1>2 DEF Symbols
<1>7. Sections = 1 .. Len(prog.sections)
  BY <1>3 DEF Sections
<1>8. DOMAIN prog.files = 1 .. Len(prog.files)
  BY <1>4
<1>9. \A k \in DOMAIN prog.files : prog.files[k] \in Files
  BY DEF Files, Range
<1> QED BY <1>2, <1>3, <1>4, <1>5, <1>6, <1>7, <1>8, <1>9 DEF Files

(* Which flags a symbol starts with. *)
LEMMA ValueFacts ==
  ASSUME prog \in Programs, NEW s \in Symbols, NEW sym, sym = prog.symbols[s], NEW v, v = VF(s)
  PROVE  /\ v \subseteq V
         /\ "DYNAMIC" \in v <=> sym.file = "so" \/ (sym.kind = "undefined" /\ MayBeDefinedLater(prog.kind, sym))
         /\ "DYNAMIC" \in v => IsInterposable(v)
         /\ IsExecutable /\ IsInterposable(v) => "DYNAMIC" \in v
         /\ "IFUNC" \in v => sym.kind = "ifunc" /\ "DYNAMIC" \notin v /\ "ABSOLUTE" \notin v
         /\ "DYNAMIC_FUNCTION" \in v => "DYNAMIC" \in v
         /\ "DYNAMIC" \in v /\ "ABSOLUTE" \notin v => sym.file = "so"
         /\ ~IsInterposable(v) => "DYNAMIC" \notin v
         /\ sym.file \in Files /\ sym.root \subseteq {"DIRECT", "EXPORT_DYNAMIC"}
         /\ "IFUNC" \in v /\ IsStatic => sym.root = {}
<1>1. IsProgram(prog)
  BY RelocationsAssumption
<1>2. IsSymbol(prog, sym)
  BY <1>1 DEF IsProgram, Symbols
<1>3. /\ sym.hidden \in BOOLEAN /\ sym.local \in BOOLEAN /\ sym.kind \in {"data", "function", "tls", "ifunc", "absolute", "undefined"}
      /\ sym.file \in Files /\ sym.root \subseteq {"DIRECT", "EXPORT_DYNAMIC"}
      /\ sym.kind = "ifunc" /\ IsStatic => sym.root = {}
  BY <1>2 DEF IsSymbol, Files, IsStatic
<1>4. NonInterposable(sym) <=>
        IF sym.file = "so" THEN FALSE
        ELSE IF sym.kind = "undefined" THEN ~MayBeDefinedLater(prog.kind, sym)
        ELSE sym.hidden \/ IsExecutable \/ (sym.local /\ sym.kind # "tls")
  BY <1>3 DEF NonInterposable, IsExecutable
<1>5. v = ((IF NonInterposable(sym) THEN {"NON_INTERPOSABLE"} ELSE {})
           \cup (IF sym.local THEN {"DOWNGRADE_TO_LOCAL"} ELSE {}))
          \cup IF sym.file = "so"
               THEN {"DYNAMIC"} \cup (IF sym.kind = "function" THEN {"DYNAMIC_FUNCTION"} ELSE {})
               ELSE IF sym.kind = "undefined" THEN {"ABSOLUTE"} \cup (IF NonInterposable(sym) THEN {} ELSE {"DYNAMIC"})
               ELSE IF sym.kind = "absolute" THEN {"ABSOLUTE"}
               ELSE IF sym.kind = "ifunc" THEN {"IFUNC"}
               ELSE {}
  BY DEF VF, ValueFlags
<1>6. CASE sym.file = "so"
  <2>1. ~NonInterposable(sym)
    BY <1>4, <1>6
  <2>2. v = (IF sym.local THEN {"DOWNGRADE_TO_LOCAL"} ELSE {})
            \cup ({"DYNAMIC"} \cup (IF sym.kind = "function" THEN {"DYNAMIC_FUNCTION"} ELSE {}))
    BY <1>5, <1>6, <2>1
  <2> QED BY <1>3, <1>6, <2>2 DEF V, IsInterposable
<1>7. CASE sym.file # "so" /\ sym.kind = "undefined"
  <2>1. v = (IF sym.local THEN {"DOWNGRADE_TO_LOCAL"} ELSE {})
            \cup (IF MayBeDefinedLater(prog.kind, sym) THEN {"ABSOLUTE", "DYNAMIC"}
                  ELSE {"NON_INTERPOSABLE", "ABSOLUTE"})
    BY <1>4, <1>5, <1>7
  <2> QED BY <1>3, <1>7, <2>1 DEF V, IsInterposable
<1>8. CASE sym.file # "so" /\ sym.kind # "undefined"
  <2>1. v \subseteq {"NON_INTERPOSABLE", "ABSOLUTE", "IFUNC", "DOWNGRADE_TO_LOCAL"}
    BY <1>3, <1>4, <1>5, <1>8
  <2>2. "NON_INTERPOSABLE" \in v <=> sym.hidden \/ IsExecutable \/ (sym.local /\ sym.kind # "tls")
    BY <1>3, <1>4, <1>5, <1>8
  <2>3. "IFUNC" \in v => sym.kind = "ifunc" /\ "ABSOLUTE" \notin v
    BY <1>3, <1>4, <1>5, <1>8
  <2> QED BY <1>3, <1>8, <2>1, <2>2, <2>3 DEF V, IsInterposable
<1> QED BY <1>6, <1>7, <1>8

(* What is known of a section. *)
LEMMA SectionFacts ==
  ASSUME prog \in Programs, NEW i \in Sections, NEW section, section = prog.sections[i], NEW n, n = Len(Rels(i))
  PROVE  /\ section.file \in Files /\ section.writable \in BOOLEAN /\ section.exec \in BOOLEAN
         /\ section.address \in Nat /\ section.address % 2 = 0
         /\ n \in Nat /\ DOMAIN Rels(i) = 1 .. n
         /\ \A k \in 1 .. n : IsRelocation(prog, section, Rels(i)[k])
<1>1. IsProgram(prog)
  BY RelocationsAssumption
<1>2. /\ section.file \in Range(prog.files) /\ section.writable \in BOOLEAN /\ section.exec \in BOOLEAN
      /\ section.address \in Nat /\ section.address % 2 = 0
      /\ Rels(i) = [k \in 1 .. n |-> Rels(i)[k]] /\ n \in Nat
      /\ \A k \in DOMAIN Rels(i) : IsRelocation(prog, section, Rels(i)[k])
  BY <1>1 DEF IsProgram, Sections, Rels
<1>3. DOMAIN Rels(i) = 1 .. n
  BY <1>2
<1> QED BY <1>2, <1>3 DEF Files

(* What is known of a relocation: what the code takes for granted. *)
LEMMA RelFacts ==
  ASSUME prog \in Programs, NEW i \in Sections, NEW k \in 1 .. Len(Rels(i)), NEW rel, rel = Rels(i)[k],
         NEW section, section = prog.sections[i], NEW v, v = VF(rel.symbol)
  PROVE  /\ rel.type \in Types /\ rel.symbol \in Symbols /\ rel.offset \in Nat /\ rel.hidden \in BOOLEAN
         /\ "IFUNC" \in v => rel.type \notin TlsTypes
         /\ rel.hidden => "DYNAMIC" \notin v
         /\ rel.type \in {"32", "64"} /\ ~section.writable /\ IsPositionIndependent
              => "IFUNC" \notin v /\ ("DYNAMIC" \in v => "ABSOLUTE" \in v)
         /\ rel.type = "PC32" /\ section.writable => "DYNAMIC" \notin v
<1>1. IsRelocation(prog, section, rel)
  BY SectionFacts
<1>2. PICK sym : sym = prog.symbols[rel.symbol]
  OBVIOUS
<1>3. /\ rel.type \in Types /\ rel.symbol \in Symbols /\ rel.offset \in Nat /\ rel.hidden \in BOOLEAN
      /\ sym.kind = "ifunc" => rel.type \notin TlsTypes
      /\ rel.hidden => ~(sym.file = "so" \/ (sym.kind = "undefined" /\ MayBeDefinedLater(prog.kind, sym)))
      /\ rel.type \in {"32", "64"} /\ ~section.writable /\ prog.kind \notin {"static", "dynamic"}
           => sym.kind # "ifunc" /\ sym.file # "so"
      /\ rel.type = "PC32" /\ section.writable => ~(sym.file = "so" \/ (sym.kind = "undefined" /\ MayBeDefinedLater(prog.kind, sym)))
  BY <1>1, <1>2 DEF IsRelocation, Symbols
<1>4. /\ "DYNAMIC" \in v <=> sym.file = "so" \/ (sym.kind = "undefined" /\ MayBeDefinedLater(prog.kind, sym))
      /\ "IFUNC" \in v => sym.kind = "ifunc"
      /\ "DYNAMIC" \in v /\ "ABSOLUTE" \notin v => sym.file = "so"
  BY <1>2, <1>3, ValueFacts
<1> QED BY <1>3, <1>4, OutputFacts

(* What a relocation may be relaxed to. *)
LEMMA RelaxFacts ==
  ASSUME NEW type \in Types, NEW f, NEW section, section.exec \in BOOLEAN, NEW r \in Relaxations(type, f, section)
  PROVE  /\ r.type \in {"32", "PC32", "PLT32", "TPOFF32", "GOTTPOFF", "NONE"}
         /\ "IFUNC" \in f => r.type = "PLT32"
         /\ "IFUNC" \notin f => r.type # "PLT32"
         /\ r.type = "32" => \/ "ABSOLUTE" \in f /\ "DYNAMIC" \notin f
                             \/ HasLinkTimeAddress(f) /\ HasFixedLoadAddress
         /\ r.type = "PC32" => ~IsInterposable(f)
<1>1. CASE "IFUNC" \in f
  <2>1. r.type = "PLT32"
    BY <1>1 DEF Relaxations
  <2> QED BY <1>1, <2>1
<1>2. CASE "IFUNC" \notin f /\ ~section.exec
  <2>1. Relaxations(type, f, section) = {}
    BY <1>2 DEF Relaxations
  <2> QED BY <2>1
<1>3. CASE "IFUNC" \notin f /\ section.exec
  <2> DEFINE interposable == IsInterposable(f)
             absolute == "ABSOLUTE" \in f /\ "DYNAMIC" \notin f
             fixed == HasLinkTimeAddress(f) /\ HasFixedLoadAddress
             To(t, mandatory) == {[type |-> t, mandatory |-> mandatory]}
  <2>1. Relaxations(type, f, section) =
          CASE type = "GOTPCRELX" /\ (absolute \/ fixed) -> To("32", IsStatic)
            [] type = "GOTPCRELX" /\ ~(absolute \/ fixed) /\ ~interposable -> To("PC32", IsStatic)
            [] type = "GOTPCREL" /\ ~interposable -> To("PC32", FALSE)
            [] type = "PLT32" /\ ~interposable -> To("PC32", IsStatic)
            [] type = "GOTTPOFF" /\ IsExecutable /\ ~interposable -> To("TPOFF32", IsStatic)
            [] type = "TLSGD" /\ IsExecutable ->
                 IF interposable THEN To("GOTTPOFF", FALSE) ELSE To("TPOFF32", IsStatic)
            [] type = "TLSLD" /\ IsExecutable -> To("NONE", IsStatic)
            [] type = "GOTPC32_TLSDESC" /\ IsExecutable ->
                 To(IF interposable THEN "GOTTPOFF" ELSE "TPOFF32", IsStatic)
            [] type = "TLSDESC_CALL" /\ IsExecutable -> To("NONE", IsStatic)
            [] OTHER -> {}
    BY <1>3 DEF Relaxations
  <2> HIDE DEF interposable, absolute, fixed
  <2>2. /\ r.type \in {"32", "PC32", "TPOFF32", "GOTTPOFF", "NONE"}
        /\ r.type = "32" => absolute \/ fixed
        /\ r.type = "PC32" => ~interposable
    BY <2>1 DEF Types, TlsTypes
  <2> QED BY <1>3, <2>2 DEF interposable, absolute, fixed
<1> QED BY <1>1, <1>2, <1>3

(* The type that a relocation ends up with is its own or a relaxed one. *)
LEMMA EffectiveFacts ==
  ASSUME NEW rel, rel.type \in Types, NEW f, NEW section, section.exec \in BOOLEAN,
         NEW type, type = EffectiveType(rel, f, section)
  PROVE  /\ type \in Types
         /\ type = "64" => rel.type = "64"
         /\ type = "32" => \/ rel.type = "32"
                           \/ "ABSOLUTE" \in f /\ "DYNAMIC" \notin f /\ "IFUNC" \notin f
                           \/ HasLinkTimeAddress(f) /\ HasFixedLoadAddress
         /\ type = "PC32" => rel.type = "PC32" \/ ~IsInterposable(f)
         /\ "IFUNC" \in f /\ rel.type \notin TlsTypes => type \notin TlsTypes
<1>1. CASE Applied(rel, f, section) = {}
  <2>1. type = rel.type
    BY <1>1 DEF EffectiveType
  <2> QED BY <2>1
<1>2. CASE Applied(rel, f, section) # {}
  <2>1. PICK r : r \in Applied(rel, f, section) /\ type = r.type
    BY <1>2 DEF EffectiveType
  <2>2. r \in Relaxations(rel.type, f, section)
    BY <2>1 DEF Applied
  <2>3. /\ type \in {"32", "PC32", "PLT32", "TPOFF32", "GOTTPOFF", "NONE"}
        /\ "IFUNC" \in f => type = "PLT32"
        /\ type = "32" => \/ "ABSOLUTE" \in f /\ "DYNAMIC" \notin f
                          \/ HasLinkTimeAddress(f) /\ HasFixedLoadAddress
        /\ type = "PC32" => ~IsInterposable(f)
    BY <2>1, <2>2, RelaxFacts
  <2> QED BY <2>3 DEF Types, TlsTypes
<1> QED BY <1>1, <1>2

(* An ifunc is never reached relative to the place: PC32 becomes PLT32. *)
LEMMA IfuncType ==
  ASSUME NEW rel, rel.type \in Types, NEW f, "IFUNC" \in f, NEW section
  PROVE  EffectiveType(rel, f, section) # "PC32"
<1>1. CASE rel.type = "PC32"
  <2>1. Relaxations(rel.type, f, section) = {[type |-> "PLT32", mandatory |-> TRUE]}
    BY <1>1 DEF Relaxations
  <2>2. Applied(rel, f, section) = {[type |-> "PLT32", mandatory |-> TRUE]}
    BY <2>1 DEF Applied
  <2>3. PICK r : r \in Applied(rel, f, section) /\ EffectiveType(rel, f, section) = r.type
    BY <2>2 DEF EffectiveType
  <2> QED BY <2>2, <2>3
<1>2. CASE rel.type # "PC32"
  <2>1. Relaxations(rel.type, f, section) = {}
    BY <1>2 DEF Relaxations
  <2>2. Applied(rel, f, section) = {}
    BY <2>1 DEF Applied
  <2> QED BY <1>2, <2>2 DEF EffectiveType
<1> QED BY <1>1, <1>2

(* What a relocation becomes depends on the flags that never change only. *)
LEMMA SameRelaxation ==
  ASSUME NEW f, NEW g, \A x \in V : x \in f <=> x \in g, NEW rel, NEW section
  PROVE  /\ IsInterposable(f) <=> IsInterposable(g)
         /\ HasLinkTimeAddress(f) <=> HasLinkTimeAddress(g)
         /\ EffectiveType(rel, f, section) = EffectiveType(rel, g, section)
         /\ SkipsNext(rel, f, section) <=> SkipsNext(rel, g, section)
<1>1. /\ "IFUNC" \in f <=> "IFUNC" \in g
      /\ "ABSOLUTE" \in f <=> "ABSOLUTE" \in g
      /\ "DYNAMIC" \in f <=> "DYNAMIC" \in g
      /\ "NON_INTERPOSABLE" \in f <=> "NON_INTERPOSABLE" \in g
  BY DEF V
<1>2. IsInterposable(f) <=> IsInterposable(g)
  BY <1>1 DEF IsInterposable
<1>3. HasLinkTimeAddress(f) <=> HasLinkTimeAddress(g)
  BY <1>1 DEF HasLinkTimeAddress
<1>4. Relaxations(rel.type, f, section) = Relaxations(rel.type, g, section)
  <2>1. CASE "IFUNC" \in f
    BY <1>1, <2>1 DEF Relaxations
  <2>2. CASE "IFUNC" \notin f
    BY <1>1, <1>2, <1>3, <2>2 DEF Relaxations
  <2> QED BY <2>1, <2>2
<1>5. Applied(rel, f, section) = Applied(rel, g, section)
  BY <1>4 DEF Applied
<1> QED BY <1>2, <1>3, <1>5 DEF EffectiveType, SkipsNext

(* The kind of a type, and the flags that it asks for. *)
LEMMA KindFacts ==
  ASSUME NEW type \in Types, NEW kind, kind = KindOf(type), NEW add, add = FlagsForKind(kind)
  PROVE  /\ kind \in Kinds
         /\ kind = "Absolute" <=> type \in {"32", "64"}
         /\ kind = "Relative" <=> type = "PC32"
         /\ IsTls(kind) <=> type \in TlsTypes
         /\ add \subseteq {"DIRECT", "GOT", "PLT", "GOT_TLS_MODULE", "GOT_TLS_OFFSET", "GOT_TLS_DESCRIPTOR"}
         /\ "PLT" \in add => "GOT" \in add
         /\ "DIRECT" \in add <=> kind \in {"Absolute", "Relative", "DtpOff", "TpOff"}
         /\ IsTls(kind) => "GOT" \notin add /\ "PLT" \notin add
         /\ ~IsTls(kind) => add \cap {"GOT_TLS_MODULE", "GOT_TLS_OFFSET", "GOT_TLS_DESCRIPTOR"} = {}
         /\ kind = "PltRelative" => add = {"PLT", "GOT"}
         /\ kind = "GotRelative" => add = {"GOT"}
         /\ kind = "GotTpOff" => add = {"GOT_TLS_OFFSET"}
         /\ kind = "TlsGd" => add = {"GOT_TLS_MODULE"}
         /\ kind = "TlsDesc" => add = {"GOT_TLS_DESCRIPTOR"}
         /\ kind \in {"Absolute", "Relative"} => add = {"DIRECT"}
<1>1. /\ type \in {"32", "64"} => kind = "Absolute"
      /\ type = "PC32" => kind = "Relative"
      /\ type = "PLT32" => kind = "PltRelative"
      /\ type \in {"GOTPCREL", "GOTPCRELX"} => kind = "GotRelative"
      /\ type = "GOTTPOFF" => kind = "GotTpOff"
      /\ type = "TPOFF32" => kind = "TpOff"
      /\ type = "DTPOFF32" => kind = "DtpOff"
      /\ type = "TLSGD" => kind = "TlsGd"
      /\ type = "TLSLD" => kind = "TlsLd"
      /\ type = "GOTPC32_TLSDESC" => kind = "TlsDesc"
      /\ type = "TLSDESC_CALL" => kind = "TlsDescCall"
      /\ type = "NONE" => kind = "None"
  BY DEF KindOf
<1>2. /\ kind = "PltRelative" => add = {"PLT", "GOT"}
      /\ kind = "GotRelative" => add = {"GOT"}
      /\ kind = "GotTpOff" => add = {"GOT_TLS_OFFSET"}
      /\ kind = "TlsGd" => add = {"GOT_TLS_MODULE"}
      /\ kind \in {"TlsDesc", "TlsDescCall"} => add = {"GOT_TLS_DESCRIPTOR"}
      /\ kind \in {"Absolute", "Relative", "DtpOff", "TpOff"} => add = {"DIRECT"}
      /\ kind \in {"None", "TlsLd"} => add = {}
  BY DEF FlagsForKind
<1>3. /\ kind \in Kinds
      /\ kind = "Absolute" <=> type \in {"32", "64"}
      /\ kind = "Relative" <=> type = "PC32"
  BY <1>1 DEF Types, TlsTypes, Kinds
<1>4. IsTls(kind) <=> type \in TlsTypes
  BY <1>1 DEF Types, TlsTypes, IsTls
<1>5. /\ add \subseteq {"DIRECT", "GOT", "PLT", "GOT_TLS_MODULE", "GOT_TLS_OFFSET", "GOT_TLS_DESCRIPTOR"}
      /\ "PLT" \in add => "GOT" \in add
      /\ "DIRECT" \in add <=> kind \in {"Absolute", "Relative", "DtpOff", "TpOff"}
      /\ IsTls(kind) => "GOT" \notin add /\ "PLT" \notin add
      /\ ~IsTls(kind) => add \cap {"GOT_TLS_MODULE", "GOT_TLS_OFFSET", "GOT_TLS_DESCRIPTOR"} = {}
  BY <1>2, <1>3 DEF Kinds, IsTls
<1> QED BY <1>2, <1>3, <1>4, <1>5

-----------------------------------------------------------------------------
(* Relocations that are skipped, and the runs of RELR.                     *)

(* After a relaxed call that takes two relocations the second is skipped. *)
LEMMA NotSkippedFacts ==
  ASSUME NEW n \in Nat, NEW skips \in [1 .. n -> BOOLEAN], NEW L, L = NotSkipped(skips)
  PROVE  /\ L \in [0 .. n -> BOOLEAN]
         /\ \A k \in 1 .. n : L[k] <=> (k <= 1 \/ ~(L[k - 1] /\ skips[k - 1]))
<1> DEFINE X == BOOLEAN
           base == TRUE
           step(x, k) == k <= 1 \/ ~(x /\ skips[k - 1])
           F == [k \in 1 .. n |-> [x \in X |-> step(x, k)]]
           Eq(f) == f = [k \in 0 .. n |-> k <= 1 \/ ~(f[k - 1] /\ skips[k - 1])]
<1>0. Len(skips) = n
  BY IsSeq
<1>1. L = CHOOSE f : Eq(f)
  BY <1>0 DEF NotSkipped
<1>2. n \in Nat /\ base \in X /\ \A i \in 1 .. n : i \in 0 .. n /\ i # 0 /\ i - 1 \in 0 .. n
  OBVIOUS
<1>3. \A i \in 1 .. n : \A x \in X : step(x, i) \in X
  OBVIOUS
<1>4. F \in [1 .. n -> [X -> X]] /\ \A i \in 1 .. n : \A x \in X : F[i][x] = step(x, i)
  BY <1>3
<1> HIDE DEF F
<1>5. PICK f : IsLoop(f, n, X, base, F)
  BY <1>2, <1>4, LoopExists
<1>6. Eq(f)
  <2>1. \A i \in 1 .. n : f[i] = step(f[i - 1], i)
    BY <1>2, <1>4, <1>5 DEF IsLoop
  <2>2. f = [k \in 0 .. n |-> f[k]] /\ f[0] = TRUE
    BY <1>5 DEF IsLoop
  <2>3. \A k \in 0 .. n : f[k] = (k <= 1 \/ ~(f[k - 1] /\ skips[k - 1]))
    <3> SUFFICES ASSUME NEW k \in 0 .. n PROVE f[k] = (k <= 1 \/ ~(f[k - 1] /\ skips[k - 1]))
      OBVIOUS
    <3>1. CASE k = 0
      <4>1. f[k] = TRUE
        BY <2>2, <3>1
      <4>2. (k <= 1 \/ ~(f[k - 1] /\ skips[k - 1])) = TRUE
        BY <3>1
      <4> QED BY <4>1, <4>2
    <3>2. CASE k # 0
      <4>1. k \in 1 .. n
        BY <3>2
      <4> QED BY <2>1, <4>1
    <3> QED BY <3>1, <3>2
  <2> QED BY <2>2, <2>3
<1>7. Eq(L)
  BY <1>1, <1>6, ZenonT(60)
<1>8. /\ L = [i \in 0 .. n |-> L[i]] /\ L[0] = base
      /\ \A i \in 1 .. n : L[i - 1] \in X => L[i] = F[i][L[i - 1]]
  <2>1. L = [i \in 0 .. n |-> L[i]]
    BY <1>2, <1>7
  <2>2. L[0] = base
    <3>1. 0 \in 0 .. n /\ 0 <= 1
      OBVIOUS
    <3>2. L[0] = (0 <= 1 \/ ~(L[0 - 1] /\ skips[0 - 1]))
      BY <1>7, <3>1
    <3> QED BY <3>1, <3>2
  <2>3. \A i \in 1 .. n : L[i] = step(L[i - 1], i)
    BY <1>2, <1>7
  <2> QED BY <1>4, <2>1, <2>2, <2>3
<1>9. IsLoop(L, n, X, base, F)
  BY <1>2, <1>4, <1>8, LoopFacts
<1> QED BY <1>2, <1>4, <1>9 DEF IsLoop

Run == [state: {"NoRun", "AddressOnly", "WithBitmap"}, start: Nat]

(* A run stays a run. *)
LEMMA EncodeType ==
  ASSUME NEW run \in Run, NEW address \in Nat
  PROVE  Encode(run, address).run \in Run /\ Encode(run, address).new \in BOOLEAN
<1> DEFINE following == run.start + RelrSlots * RelrEntrySize
           fresh == [run |-> [state |-> "AddressOnly", start |-> address + RelrEntrySize], new |-> TRUE]
<1>1. RelrEntrySize \in Nat /\ RelrSlots \in Nat
  BY RelocationsAssumption
<1>2. PICK w \in Nat : w = RelrSlots * RelrEntrySize
  BY <1>1
<1>3. run.start \in Nat /\ run.state \in {"NoRun", "AddressOnly", "WithBitmap"} /\ following \in Nat
  BY <1>2 DEF Run
<1>4. fresh.run \in Run /\ fresh.new \in BOOLEAN
  BY <1>1 DEF Run
<1> HIDE DEF fresh, following
<1>0. PICK E : E = Encode(run, address)
  OBVIOUS
<1> SUFFICES E.run \in Run /\ E.new \in BOOLEAN
  BY <1>0, Zenon
<1>5. CASE run.state = "NoRun"
  <2>1. E = fresh
    BY <1>0, <1>5 DEF Encode, fresh
  <2> QED BY <1>4, <2>1
<1>6. CASE run.state = "AddressOnly"
  <2>1. E = IF InWindow(run.start, address)
                               THEN [run |-> [run EXCEPT !.state = "WithBitmap"], new |-> TRUE]
                               ELSE fresh
    BY <1>0, <1>6 DEF Encode, fresh
  <2>2. [run EXCEPT !.state = "WithBitmap"] \in Run
    BY DEF Run
  <2> QED BY <1>4, <2>1, <2>2
<1>7. CASE run.state = "WithBitmap"
  <2>1. E = CASE InWindow(run.start, address) -> [run |-> run, new |-> FALSE]
                                 [] ~InWindow(run.start, address) /\ InWindow(following, address) ->
                                      [run |-> [run EXCEPT !.start = following], new |-> TRUE]
                                 [] OTHER -> fresh
    BY <1>0, <1>7 DEF Encode, fresh, following
  <2>2. [run EXCEPT !.start = following] \in Run
    BY <1>3 DEF Run
  <2> QED BY <1>4, <2>1, <2>2
<1> QED BY <1>3, <1>5, <1>6, <1>7

(* R is the run after each relocation of a section. *)
IsEncoding(R, n, uses, at) ==
  /\ R \in [0 .. n -> Run] /\ R[0] = NoRun
  /\ \A k \in 1 .. n : R[k] = IF uses[k] THEN Encode(R[k - 1], at[k]).run ELSE R[k - 1]

(* The runs through a section. *)
LEMMA EncodeAllFacts ==
  ASSUME NEW n \in Nat, NEW uses \in [1 .. n -> BOOLEAN], NEW at \in [1 .. n -> Nat],
         NEW R, R = EncodeAll(uses, at)
  PROVE  IsEncoding(R, n, uses, at)
<1> DEFINE step(x, k) == IF uses[k] THEN Encode(x, at[k]).run ELSE x
           F == [k \in 1 .. n |-> [x \in Run |-> step(x, k)]]
           Eq(f) == f = [k \in 0 .. n |-> IF k = 0 THEN NoRun ELSE step(f[k - 1], k)]
<1>0. Len(uses) = n
  BY IsSeq
<1>1. R = CHOOSE f : Eq(f)
  BY <1>0 DEF EncodeAll
<1>2. n \in Nat /\ NoRun \in Run /\ \A i \in 1 .. n : i \in 0 .. n /\ i # 0 /\ i - 1 \in 0 .. n
  BY DEF NoRun, Run
<1>3. \A i \in 1 .. n : \A x \in Run : step(x, i) \in Run
  <2> SUFFICES ASSUME NEW i \in 1 .. n, NEW x \in Run PROVE step(x, i) \in Run
    OBVIOUS
  <2>1. at[i] \in Nat
    OBVIOUS
  <2> QED BY <2>1, EncodeType
<1> HIDE DEF step
<1>4. F \in [1 .. n -> [Run -> Run]] /\ \A i \in 1 .. n : \A x \in Run : F[i][x] = step(x, i)
  BY <1>3
<1> HIDE DEF F
<1>5. PICK f : IsLoop(f, n, Run, NoRun, F)
  BY <1>2, <1>4, LoopExists
<1>6. Eq(f)
  <2>1. \A i \in 1 .. n : f[i] = step(f[i - 1], i)
    BY <1>2, <1>4, <1>5 DEF IsLoop
  <2>2. f = [k \in 0 .. n |-> f[k]]
    BY <1>5 DEF IsLoop
  <2>3. \A k \in 0 .. n : f[k] = IF k = 0 THEN NoRun ELSE step(f[k - 1], k)
    BY <1>2, <1>5, <2>1 DEF IsLoop
  <2> QED BY <2>2, <2>3
<1>7. Eq(R)
  BY <1>1, <1>6
<1>8. /\ R = [i \in 0 .. n |-> R[i]] /\ R[0] = NoRun
      /\ \A i \in 1 .. n : R[i - 1] \in Run => R[i] = F[i][R[i - 1]]
  <2>1. R = [i \in 0 .. n |-> R[i]] /\ R[0] = NoRun
    BY <1>2, <1>7
  <2>2. \A i \in 1 .. n : R[i] = step(R[i - 1], i)
    BY <1>2, <1>7
  <2> QED BY <1>4, <2>1, <2>2
<1>9. IsLoop(R, n, Run, NoRun, F)
  BY <1>2, <1>4, <1>8, LoopFacts
<1>10. R \in [0 .. n -> Run] /\ \A i \in 1 .. n : R[i] = step(R[i - 1], i)
  BY <1>2, <1>4, <1>9 DEF IsLoop
<1> QED BY <1>8, <1>10 DEF step, IsEncoding

(* The scan knows offsets, the writer addresses: the run of one is the run *)
(* of the other, moved by the address of the section.                      *)
Moved(w, r, a) == w.state = r.state /\ (r.state # "NoRun" => w.start = r.start + a)

(* A run that was moved by a is encoded alike at addresses moved by a: the *)
(* scan works with offsets, the writer with addresses.                     *)
LEMMA EncodeMoved ==
  ASSUME NEW r \in Run, NEW w \in Run, NEW a \in Nat, NEW x \in Nat, Moved(w, r, a)
  PROVE  /\ Encode(w, a + x).new = Encode(r, x).new
         /\ Moved(Encode(w, a + x).run, Encode(r, x).run, a)
<1>1. PICK e \in Nat, size \in Nat : e = RelrEntrySize /\ size = RelrSlots * RelrEntrySize
  BY RelocationsAssumption
<1>2. PICK b \in Nat, c \in Nat : b = r.start /\ c = w.start
  BY DEF Run
<1>3. r.state \in {"NoRun", "AddressOnly", "WithBitmap"} /\ w.state = r.state
  BY DEF Run, Moved
<1>4. r.state # "NoRun" => c = b + a
  BY <1>2 DEF Moved
<1>5. ASSUME NEW s \in Nat PROVE InWindow(s + a, a + x) <=> InWindow(s, x)
  <2>1. (a + x) - (s + a) = x - s
    OBVIOUS
  <2>2. (a + x >= s + a <=> x >= s) /\ (a + x < (s + a) + size <=> x < s + size)
    OBVIOUS
  <2> QED BY <1>1, <2>1, <2>2 DEF InWindow
<1>0. PICK We, Re : We = Encode(w, a + x) /\ Re = Encode(r, x)
  OBVIOUS
<1> SUFFICES We.new = Re.new /\ Moved(We.run, Re.run, a)
  BY <1>0, Zenon
<1>6. CASE r.state = "NoRun"
  <2>1. We = [run |-> [state |-> "AddressOnly", start |-> (a + x) + e], new |-> TRUE]
    BY <1>0, <1>1, <1>3, <1>6 DEF Encode
  <2>2. Re = [run |-> [state |-> "AddressOnly", start |-> x + e], new |-> TRUE]
    BY <1>0, <1>1, <1>6 DEF Encode
  <2>3. (a + x) + e = (x + e) + a
    OBVIOUS
  <2> QED BY <2>1, <2>2, <2>3 DEF Moved
<1>7. CASE r.state = "AddressOnly"
  <2>1. We = IF InWindow(c, a + x)
                           THEN [run |-> [w EXCEPT !.state = "WithBitmap"], new |-> TRUE]
                           ELSE [run |-> [state |-> "AddressOnly", start |-> (a + x) + e], new |-> TRUE]
    BY <1>0, <1>1, <1>2, <1>3, <1>7 DEF Encode
  <2>2. Re = IF InWindow(b, x)
                       THEN [run |-> [r EXCEPT !.state = "WithBitmap"], new |-> TRUE]
                       ELSE [run |-> [state |-> "AddressOnly", start |-> x + e], new |-> TRUE]
    BY <1>0, <1>1, <1>2, <1>7 DEF Encode
  <2>3. InWindow(c, a + x) <=> InWindow(b, x)
    BY <1>4, <1>5, <1>7
  <2>4. (a + x) + e = (x + e) + a
    OBVIOUS
  <2>5. /\ [w EXCEPT !.state = "WithBitmap"].state = "WithBitmap" /\ [w EXCEPT !.state = "WithBitmap"].start = c
        /\ [r EXCEPT !.state = "WithBitmap"].state = "WithBitmap" /\ [r EXCEPT !.state = "WithBitmap"].start = b
    BY <1>2 DEF Run
  <2>6. CASE InWindow(b, x)
    <3>1. We = [run |-> [w EXCEPT !.state = "WithBitmap"], new |-> TRUE]
      BY <2>1, <2>3, <2>6
    <3>2. Re = [run |-> [r EXCEPT !.state = "WithBitmap"], new |-> TRUE]
      BY <2>2, <2>6
    <3> QED BY <1>4, <1>7, <2>5, <3>1, <3>2 DEF Moved
  <2>7. CASE ~InWindow(b, x)
    <3>1. We = [run |-> [state |-> "AddressOnly", start |-> (a + x) + e], new |-> TRUE]
      BY <2>1, <2>3, <2>7
    <3>2. Re = [run |-> [state |-> "AddressOnly", start |-> x + e], new |-> TRUE]
      BY <2>2, <2>7
    <3> QED BY <2>4, <3>1, <3>2 DEF Moved
  <2> QED BY <2>6, <2>7
<1>8. CASE r.state = "WithBitmap"
  <2>1. We = CASE InWindow(c, a + x) -> [run |-> w, new |-> FALSE]
                             [] ~InWindow(c, a + x) /\ InWindow(c + size, a + x) ->
                                  [run |-> [w EXCEPT !.start = c + size], new |-> TRUE]
                             [] OTHER -> [run |-> [state |-> "AddressOnly", start |-> (a + x) + e], new |-> TRUE]
    BY <1>0, <1>1, <1>2, <1>3, <1>8 DEF Encode
  <2>2. Re = CASE InWindow(b, x) -> [run |-> r, new |-> FALSE]
                         [] ~InWindow(b, x) /\ InWindow(b + size, x) ->
                              [run |-> [r EXCEPT !.start = b + size], new |-> TRUE]
                         [] OTHER -> [run |-> [state |-> "AddressOnly", start |-> x + e], new |-> TRUE]
    BY <1>0, <1>1, <1>2, <1>8 DEF Encode
  <2>3. c = b + a /\ c + size = (b + size) + a /\ b + size \in Nat
    BY <1>4, <1>8
  <2>4. (InWindow(c, a + x) <=> InWindow(b, x)) /\ (InWindow(c + size, a + x) <=> InWindow(b + size, x))
    BY <1>5, <2>3
  <2>5. (a + x) + e = (x + e) + a
    OBVIOUS
  <2>6. /\ [w EXCEPT !.start = c + size].state = w.state /\ [w EXCEPT !.start = c + size].start = c + size
        /\ [r EXCEPT !.start = b + size].state = r.state /\ [r EXCEPT !.start = b + size].start = b + size
    BY DEF Run
  <2>7. CASE InWindow(b, x)
    <3>1. We = [run |-> w, new |-> FALSE]
      BY <2>1, <2>4, <2>7
    <3>2. Re = [run |-> r, new |-> FALSE]
      BY <2>2, <2>7
    <3> QED BY <3>1, <3>2
  <2>8. CASE ~InWindow(b, x) /\ InWindow(b + size, x)
    <3>1. We = [run |-> [w EXCEPT !.start = c + size], new |-> TRUE]
      BY <2>1, <2>4, <2>8
    <3>2. Re = [run |-> [r EXCEPT !.start = b + size], new |-> TRUE]
      BY <2>2, <2>8
    <3> QED BY <1>3, <2>3, <2>6, <3>1, <3>2 DEF Moved
  <2>9. CASE ~InWindow(b, x) /\ ~InWindow(b + size, x)
    <3>1. We = [run |-> [state |-> "AddressOnly", start |-> (a + x) + e], new |-> TRUE]
      BY <2>1, <2>4, <2>9
    <3>2. Re = [run |-> [state |-> "AddressOnly", start |-> x + e], new |-> TRUE]
      BY <2>2, <2>9
    <3> QED BY <2>5, <3>1, <3>2 DEF Moved
  <2> QED BY <2>7, <2>8, <2>9
<1> QED BY <1>3, <1>6, <1>7, <1>8

(* The same for all runs of a section. *)
LEMMA RunsMoved ==
  ASSUME NEW n \in Nat, NEW uses \in [1 .. n -> BOOLEAN], NEW at \in [1 .. n -> Nat], NEW a \in Nat,
         NEW to \in [1 .. n -> Nat], \A k \in 1 .. n : to[k] = a + at[k]
  PROVE  \A k \in 0 .. n : Moved(EncodeAll(uses, to)[k], EncodeAll(uses, at)[k], a)
<1>1. PICK R : R = EncodeAll(uses, at)
  OBVIOUS
<1>2. PICK W : W = EncodeAll(uses, to)
  OBVIOUS
<1>3. /\ R \in [0 .. n -> Run] /\ R[0] = NoRun
      /\ \A k \in 1 .. n : R[k] = IF uses[k] THEN Encode(R[k - 1], at[k]).run ELSE R[k - 1]
  <2>1. IsEncoding(R, n, uses, at)
    BY <1>1, EncodeAllFacts
  <2> QED BY <2>1 DEF IsEncoding
<1>4. /\ W \in [0 .. n -> Run] /\ W[0] = NoRun
      /\ \A k \in 1 .. n : W[k] = IF uses[k] THEN Encode(W[k - 1], to[k]).run ELSE W[k - 1]
  <2>1. IsEncoding(W, n, uses, to)
    BY <1>2, EncodeAllFacts
  <2> QED BY <2>1 DEF IsEncoding
<1> DEFINE P == {k \in Nat : k <= n => Moved(W[k], R[k], a)}
<1>5. 0 \in P
  BY <1>3, <1>4 DEF Moved, NoRun
<1>6. ASSUME NEW k \in P PROVE k + 1 \in P
  <2> SUFFICES ASSUME k + 1 <= n PROVE Moved(W[k + 1], R[k + 1], a)
    OBVIOUS
  <2>1. k \in 0 .. n /\ k + 1 \in 1 .. n /\ (k + 1) - 1 = k /\ Moved(W[k], R[k], a)
    OBVIOUS
  <2>2. W[k] \in Run /\ R[k] \in Run /\ at[k + 1] \in Nat /\ to[k + 1] = a + at[k + 1]
    BY <1>3, <1>4, <2>1
  <2>3. Moved(Encode(W[k], to[k + 1]).run, Encode(R[k], at[k + 1]).run, a)
    BY <2>1, <2>2, EncodeMoved
  <2>4. /\ R[k + 1] = IF uses[k + 1] THEN Encode(R[k], at[k + 1]).run ELSE R[k]
        /\ W[k + 1] = IF uses[k + 1] THEN Encode(W[k], to[k + 1]).run ELSE W[k]
    BY <1>3, <1>4, <2>1
  <2> QED BY <2>1, <2>3, <2>4
<1>7. P \in SUBSET Nat
  OBVIOUS
<1> HIDE DEF P
<1>8. P = Nat
  BY <1>5, <1>6, <1>7, NatInductionSet
<1>9. \A k \in 0 .. n : Moved(W[k], R[k], a)
  <2> SUFFICES ASSUME NEW k \in 0 .. n PROVE Moved(W[k], R[k], a)
    OBVIOUS
  <2>1. k \in P /\ k <= n
    BY <1>8
  <2> QED BY <2>1 DEF P
<1> QED BY <1>1, <1>2, <1>9

-----------------------------------------------------------------------------
(* What the scan reserves for a relocation, as a function of the program.  *)

(* It needs a dynamic relocation for a symbol, or one for an address that  *)
(* only the loader knows.                                                  *)
General(i, k) ==
  /\ Kind(i, k) = "Absolute" /\ prog.sections[i].writable
  /\ IsInterposable(Fixed(Rels(i)[k])) \/ ("IFUNC" \in Fixed(Rels(i)[k]) /\ IsPositionIndependent)
Relative(i, k) ==
  /\ Kind(i, k) = "Absolute" /\ prog.sections[i].writable
  /\ ~IsInterposable(Fixed(Rels(i)[k])) /\ HasLinkTimeAddress(Fixed(Rels(i)[k])) /\ IsPositionIndependent
Packs(i, k) == Relative(i, k) /\ prog.relr /\ Rels(i)[k].offset % 2 = 0

Skips(i, k) == SkipsNext(Rels(i)[k], Fixed(Rels(i)[k]), prog.sections[i])
SkipsOf(i) == [k \in 1 .. Len(Rels(i)) |-> Skips(i, k)]
LiveOf(i) == NotSkipped(SkipsOf(i))
UsesOf(i) == [k \in 1 .. Len(Rels(i)) |-> LiveOf(i)[k] /\ Packs(i, k)]
OffsetsOf(i) == [k \in 1 .. Len(Rels(i)) |-> Rels(i)[k].offset]
RunOf(i) == EncodeAll(UsesOf(i), OffsetsOf(i))

NewEntries(run, at) == Count(Encode(run, at).new)
Reserved(i, k, p) ==
  IF ~LiveOf(i)[k] THEN 0
  ELSE IF General(i, k) THEN Count(p = "RELA_GENERAL")
  ELSE IF Packs(i, k) THEN IF p = "RELR" THEN NewEntries(RunOf(i)[k - 1], OffsetsOf(i)[k]) ELSE 0
  ELSE IF Relative(i, k) THEN Count(p = "RELA_RELATIVE")
  ELSE 0
ReservedIn(i, p) == [k \in 1 .. Len(Rels(i)) |-> Reserved(i, k, p)]

(* The program does not change, and so nothing of this does. *)
LEMMA SameOutput ==
  ASSUME prog' = prog
  PROVE  /\ IsStatic' <=> IsStatic
         /\ IsExecutable' <=> IsExecutable
         /\ IsPositionIndependent' <=> IsPositionIndependent
         /\ HasFixedLoadAddress' <=> HasFixedLoadAddress
         /\ Symbols' = Symbols /\ Sections' = Sections /\ Files' = Files
BY DEF IsStatic, IsExecutable, IsPositionIndependent, HasFixedLoadAddress, Symbols, Sections, Files

(* What a symbol is ... *)
LEMMA SameValueFlags ==
  ASSUME prog' = prog, NEW CONSTANT s
  PROVE  VF(s)' = VF(s)
BY DEF VF, ValueFlags, NonInterposable, MayBeDefinedLater, IsExecutable

(* ... which relaxations fit it ... *)
LEMMA SameRelaxations ==
  ASSUME prog' = prog, NEW CONSTANT type, NEW CONSTANT f, NEW CONSTANT section
  PROVE  Relaxations(type, f, section)' = Relaxations(type, f, section)
BY DEF Relaxations, IsStatic, IsExecutable, HasFixedLoadAddress

(* ... the one that is applied ... *)
LEMMA SameApplied ==
  ASSUME prog' = prog, NEW CONSTANT rel, NEW CONSTANT f, NEW CONSTANT section
  PROVE  Applied(rel, f, section)' = Applied(rel, f, section)
BY SameRelaxations DEF Applied

(* ... the type it leaves and whether it swallows the next relocation ... *)
LEMMA SameEffective ==
  ASSUME prog' = prog, NEW CONSTANT rel, NEW CONSTANT f, NEW CONSTANT section
  PROVE  /\ EffectiveType(rel, f, section)' = EffectiveType(rel, f, section)
         /\ SkipsNext(rel, f, section)' <=> SkipsNext(rel, f, section)
<1>1. PICK A : A = Applied(rel, f, section)
  OBVIOUS
<1>2. EffectiveType(rel, f, section) = IF A = {} THEN rel.type ELSE (CHOOSE r \in A : TRUE).type
  BY <1>1 DEF EffectiveType
<1>3. A = Applied(rel, f, section)'
  BY <1>1, SameApplied
<1>4. EffectiveType(rel, f, section)' = IF A = {} THEN rel.type ELSE (CHOOSE r \in A : TRUE).type
  BY <1>3 DEF EffectiveType
<1> QED BY <1>1, <1>2, <1>3, <1>4 DEF SkipsNext

(* ... the relocations of a section ... *)
LEMMA SameRels ==
  ASSUME prog' = prog, NEW CONSTANT i
  PROVE  Rels(i)' = Rels(i)
BY DEF Rels

(* ... the flags of a relocation that never change ... *)
LEMMA SameFixed ==
  ASSUME prog' = prog, NEW CONSTANT i, NEW CONSTANT k
  PROVE  Fixed(Rels(i)[k])' = Fixed(Rels(i)[k])
<1>1. PICK rel : rel = Rels(i)[k]
  OBVIOUS
<1>2. rel = (Rels(i)[k])'
  BY <1>1 DEF Rels
<1>3. Fixed(rel) = Fixed(rel)'
  BY <1>1, SameValueFlags DEF Fixed, Merge
<1> QED BY <1>1, <1>2, <1>3

(* ... its kind, and whether it skips the next one ... *)
LEMMA SameKind ==
  ASSUME prog' = prog, NEW CONSTANT i, NEW CONSTANT k
  PROVE  /\ Kind(i, k)' = Kind(i, k)
         /\ Skips(i, k)' = Skips(i, k)
<1>1. PICK rel, f, section : rel = Rels(i)[k] /\ section = prog.sections[i] /\ f = Fixed(Rels(i)[k])
  OBVIOUS
<1>2. rel = (Rels(i)[k])' /\ f = Fixed(Rels(i)[k])' /\ section = (prog.sections[i])'
  BY <1>1, SameRels, SameFixed
<1>3. Kind(i, k)' = Kind(i, k)
  BY <1>1, <1>2, SameEffective DEF Kind
<1>4. Skips(i, k)' <=> Skips(i, k)
  BY <1>1, <1>2, SameEffective DEF Skips
<1>5. Skips(i, k) \in BOOLEAN /\ Skips(i, k)' \in BOOLEAN
  BY DEF Skips, SkipsNext
<1> QED BY <1>3, <1>4, <1>5

(* ... which dynamic relocation it needs ... *)
LEMMA SamePlan ==
  ASSUME prog' = prog, NEW CONSTANT i, NEW CONSTANT k
  PROVE  /\ General(i, k)' <=> General(i, k)
         /\ Relative(i, k)' <=> Relative(i, k)
         /\ Packs(i, k)' <=> Packs(i, k)
<1>1. PICK f : f = Fixed(Rels(i)[k])
  OBVIOUS
<1>2. f = Fixed(Rels(i)[k])'
  BY <1>1, SameFixed
<1>3. General(i, k)' <=> General(i, k)
  BY <1>1, <1>2, SameKind, SameOutput DEF General
<1>4. Relative(i, k)' <=> Relative(i, k)
  BY <1>1, <1>2, SameKind, SameOutput DEF Relative
<1> QED BY <1>3, <1>4, SameRels DEF Packs

(* ... the tables over the relocations of a section ... *)
LEMMA SameTables ==
  ASSUME prog' = prog, NEW CONSTANT i
  PROVE  /\ LiveOf(i)' = LiveOf(i) /\ RunOf(i)' = RunOf(i)
         /\ OffsetsOf(i)' = OffsetsOf(i)
<1>1. SkipsOf(i)' = SkipsOf(i)
  BY SameRels, SameKind DEF SkipsOf
<1>2. LiveOf(i)' = LiveOf(i)
  BY <1>1 DEF LiveOf
<1>3. UsesOf(i)' = UsesOf(i)
  BY <1>2, SameRels, SamePlan DEF UsesOf
<1>4. OffsetsOf(i)' = OffsetsOf(i)
  BY SameRels DEF OffsetsOf
<1> QED BY <1>2, <1>3, <1>4 DEF RunOf

(* ... and what is reserved for them are all functions of the program. *)
LEMMA SameReserved ==
  ASSUME prog' = prog, NEW CONSTANT i, NEW CONSTANT p
  PROVE  ReservedIn(i, p)' = ReservedIn(i, p)
<1>1. \A k : Reserved(i, k, p)' = Reserved(i, k, p)
  <2> SUFFICES ASSUME NEW CONSTANT k PROVE Reserved(i, k, p)' = Reserved(i, k, p)
    OBVIOUS
  <2> QED BY SameTables, SamePlan DEF Reserved
<1> QED BY <1>1, SameRels DEF ReservedIn

(* Types of these tables. *)
LEMMA LiveFacts ==
  ASSUME prog \in Programs, NEW i \in Sections, NEW n, n = Len(Rels(i))
  PROVE  /\ n \in Nat /\ LiveOf(i) \in [0 .. n -> BOOLEAN]
         /\ n >= 1 => LiveOf(i)[1]
         /\ \A k \in 1 .. n : k + 1 <= n => (LiveOf(i)[k + 1] <=> ~(LiveOf(i)[k] /\ Skips(i, k)))
<1>1. n \in Nat
  BY SectionFacts
<1>2. SkipsOf(i) \in [1 .. n -> BOOLEAN] /\ \A k \in 1 .. n : SkipsOf(i)[k] = Skips(i, k)
  <2>1. \A k : Skips(i, k) \in BOOLEAN
    BY DEF Skips, SkipsNext
  <2> QED BY <2>1 DEF SkipsOf
<1>3. PICK skips \in [1 .. n -> BOOLEAN] : skips = SkipsOf(i)
  BY <1>2
<1>4. PICK L : L = LiveOf(i)
  OBVIOUS
<1>5. L = NotSkipped(skips)
  BY <1>3, <1>4 DEF LiveOf
<1>6. /\ L \in [0 .. n -> BOOLEAN]
      /\ \A k \in 1 .. n : L[k] <=> (k <= 1 \/ ~(L[k - 1] /\ skips[k - 1]))
  BY <1>1, <1>3, <1>5, NotSkippedFacts
<1>7. n >= 1 => L[1]
  <2> SUFFICES ASSUME n >= 1 PROVE L[1]
    OBVIOUS
  <2>1. 1 \in 1 .. n
    BY <1>1
  <2> QED BY <1>6, <2>1
<1>8. ASSUME NEW k \in 1 .. n, k + 1 <= n PROVE L[k + 1] <=> ~(L[k] /\ Skips(i, k))
  <2>1. k + 1 \in 1 .. n /\ (k + 1) - 1 = k /\ ~(k + 1 <= 1)
    BY <1>1, <1>8
  <2>2. L[k + 1] <=> ~(L[k] /\ skips[k])
    BY <1>6, <2>1
  <2>3. skips[k] = Skips(i, k)
    BY <1>2, <1>3
  <2> QED BY <2>2, <2>3
<1> QED BY <1>1, <1>4, <1>6, <1>7, <1>8

(* The RELR run along a section goes on at the relocations that are packed,*)
(* and nowhere else.                                                       *)
LEMMA RunFacts ==
  ASSUME prog \in Programs, NEW i \in Sections, NEW n, n = Len(Rels(i))
  PROVE  /\ OffsetsOf(i) \in [1 .. n -> Nat] /\ \A k \in 1 .. n : OffsetsOf(i)[k] = Rels(i)[k].offset
         /\ UsesOf(i) \in [1 .. n -> BOOLEAN]
         /\ IsEncoding(RunOf(i), n, UsesOf(i), OffsetsOf(i))
         /\ RunOf(i) \in [0 .. n -> Run] /\ RunOf(i)[0] = NoRun
         /\ \A k \in 1 .. n : LiveOf(i)[k] /\ Packs(i, k) =>
              RunOf(i)[k] = Encode(RunOf(i)[k - 1], Rels(i)[k].offset).run
         /\ \A k \in 1 .. n : ~(LiveOf(i)[k] /\ Packs(i, k)) => RunOf(i)[k] = RunOf(i)[k - 1]
<1>1. n \in Nat
  BY SectionFacts
<1>2. \A k \in 1 .. n : Rels(i)[k].offset \in Nat
  BY RelFacts
<1>3. OffsetsOf(i) \in [1 .. n -> Nat] /\ \A k \in 1 .. n : OffsetsOf(i)[k] = Rels(i)[k].offset
  BY <1>2 DEF OffsetsOf
<1>4. UsesOf(i) \in [1 .. n -> BOOLEAN] /\ \A k \in 1 .. n : UsesOf(i)[k] <=> LiveOf(i)[k] /\ Packs(i, k)
  BY DEF UsesOf
<1>5. PICK U \in [1 .. n -> BOOLEAN] : U = UsesOf(i)
  BY <1>4
<1>6. PICK A \in [1 .. n -> Nat] : A = OffsetsOf(i)
  BY <1>3
<1>7. PICK R : R = RunOf(i)
  OBVIOUS
<1>8. IsEncoding(R, n, U, A)
  BY <1>1, <1>5, <1>6, <1>7, EncodeAllFacts DEF RunOf
<1>9. /\ R \in [0 .. n -> Run] /\ R[0] = NoRun
      /\ \A k \in 1 .. n : R[k] = IF U[k] THEN Encode(R[k - 1], A[k]).run ELSE R[k - 1]
  BY <1>8 DEF IsEncoding
<1>10. ASSUME NEW k \in 1 .. n, LiveOf(i)[k] /\ Packs(i, k)
       PROVE  R[k] = Encode(R[k - 1], Rels(i)[k].offset).run
  BY <1>3, <1>4, <1>5, <1>6, <1>9, <1>10
<1>11. ASSUME NEW k \in 1 .. n, ~(LiveOf(i)[k] /\ Packs(i, k))
       PROVE  R[k] = R[k - 1]
  BY <1>4, <1>5, <1>9, <1>11
<1> QED BY <1>3, <1>4, <1>5, <1>6, <1>7, <1>8, <1>9, <1>10, <1>11

(* What is reserved for a relocation is a count. *)
LEMMA ReservedType ==
  ASSUME prog \in Programs, NEW i \in Sections, NEW n, n = Len(Rels(i)), NEW p
  PROVE  ReservedIn(i, p) \in [1 .. n -> Nat] /\ \A k \in 1 .. n : ReservedIn(i, p)[k] = Reserved(i, k, p)
<1>1. \A k : Reserved(i, k, p) \in Nat
  BY DEF Reserved, NewEntries, Count
<1> QED BY <1>1 DEF ReservedIn

-----------------------------------------------------------------------------
(* The flags of a symbol.  Those that say what it is never change; the     *)
(* others are added to, and what depends on several of them stays          *)
(* together.                                                               *)
FlagsOk(s, f) ==
  /\ f \subseteq V \cup ResolutionFlags
  /\ \A x \in V : x \in f <=> x \in VF(s)
  /\ "PLT" \in f => "GOT" \in f
  /\ "IFUNC_GOT_FOR_ADDRESS" \in f => "GOT" \in f /\ "IFUNC" \in f
  /\ NeedsTlsGot(f) => "IFUNC" \notin f
  /\ IsStatic /\ "IFUNC" \in f /\ HasResolution(f) => "PLT" \in f

(* What the writer will look for when it applies a relocation to a symbol  *)
(* with flags f.                                                           *)
Satisfied(i, k, f, tls) ==
  /\ Kind(i, k) \in {"PltRelative", "GotRelative", "GotTpOff", "TlsGd", "TlsDesc"} => FlagsForKind(Kind(i, k)) \subseteq f
  /\ Kind(i, k) = "TlsLd" => tls
  /\ Kind(i, k) = "Absolute" /\ "IFUNC" \in f /\ ~IsInterposable(Fixed(Rels(i)[k])) => "PLT" \in f
  /\ Kind(i, k) = "Absolute" /\ ~prog.sections[i].writable =>
       ~(IsPositionIndependent /\ HasLinkTimeAddress(Fixed(Rels(i)[k])))

(* Both depend on the program and their arguments alone: the flags ... *)
LEMMA SameFlagsOk ==
  ASSUME prog' = prog, NEW CONSTANT s, NEW CONSTANT f
  PROVE  FlagsOk(s, f)' <=> FlagsOk(s, f)
BY SameValueFlags, SameOutput DEF FlagsOk

(* ... and what a relocation needs of them. *)
LEMMA SameSatisfied ==
  ASSUME prog' = prog, NEW CONSTANT i, NEW CONSTANT k, NEW CONSTANT f, NEW CONSTANT tls
  PROVE  Satisfied(i, k, f, tls)' <=> Satisfied(i, k, f, tls)
<1>1. PICK v : v = Fixed(Rels(i)[k])
  OBVIOUS
<1>2. v = Fixed(Rels(i)[k])'
  BY <1>1, SameFixed
<1>3. PICK kind : kind = Kind(i, k)
  OBVIOUS
<1>4. kind = Kind(i, k)'
  BY <1>3, SameKind
<1> QED BY <1>1, <1>2, <1>3, <1>4, SameOutput DEF Satisfied

(* Value flags are none of the others. *)
LEMMA FlagsApart == V \cap ResolutionFlags = {}
BY DEF V, ResolutionFlags

(* More flags satisfy no less. *)
LEMMA SatisfiedStays ==
  ASSUME NEW i, NEW k, NEW f, NEW x \in SUBSET ResolutionFlags, NEW tls, NEW more, tls => more,
         Satisfied(i, k, f, tls)
  PROVE  Satisfied(i, k, f \cup x, more)
<1>1. "IFUNC" \in f \cup x <=> "IFUNC" \in f
  BY FlagsApart DEF V
<1> QED BY <1>1 DEF Satisfied

(* What may be added to the flags of a symbol. *)
LEMMA AddFlags ==
  ASSUME NEW s, NEW f, FlagsOk(s, f), NEW x \in SUBSET ResolutionFlags,
         "PLT" \in x => "GOT" \in x,
         "IFUNC_GOT_FOR_ADDRESS" \in x => "GOT" \in x /\ "IFUNC" \in f,
         NeedsTlsGot(x) => "IFUNC" \notin f,
         IsStatic /\ "IFUNC" \in f /\ x # {} => "PLT" \in f \cup x
  PROVE  FlagsOk(s, f \cup x)
<1>1. \A y \in V : y \in f \cup x <=> y \in VF(s)
  BY FlagsApart DEF FlagsOk
<1>2. "IFUNC" \in f \cup x <=> "IFUNC" \in f
  BY FlagsApart DEF V
<1>3. NeedsTlsGot(f \cup x) => "IFUNC" \notin f \cup x
  BY <1>2 DEF FlagsOk, NeedsTlsGot
<1>4. IsStatic /\ "IFUNC" \in f \cup x /\ HasResolution(f \cup x) => "PLT" \in f \cup x
  <2>1. CASE x = {}
    BY <2>1 DEF FlagsOk
  <2>2. CASE x # {}
    BY <1>2, <2>2
  <2> QED BY <2>1, <2>2
<1>5. f \cup x \subseteq V \cup ResolutionFlags
  BY DEF FlagsOk
<1> QED BY <1>1, <1>2, <1>3, <1>4, <1>5 DEF FlagsOk

(* The scan and the writer come to the same kind of a relocation: it is    *)
(* decided by flags that do not change.                                    *)
Agree(i, k, f, own) ==
  /\ \A x \in V : x \in f <=> x \in Fixed(Rels(i)[k])
  /\ KindOf(EffectiveType(Rels(i)[k], f, prog.sections[i])) = Kind(i, k)
  /\ SkipsNext(Rels(i)[k], f, prog.sections[i]) <=> Skips(i, k)
  /\ IsInterposable(f) <=> IsInterposable(Fixed(Rels(i)[k]))
  /\ HasLinkTimeAddress(f) <=> HasLinkTimeAddress(Fixed(Rels(i)[k]))
  /\ own \subseteq f
  /\ "PLT" \in f <=> "PLT" \in own
  /\ "COPY_RELOCATION" \in f <=> "COPY_RELOCATION" \in own
  /\ "IFUNC" \in f <=> "IFUNC" \in own

(* Whatever flags were added to the symbol by then, the flags of a         *)
(* relocation agree with those that never change.                          *)
LEMMA RelocationFlags ==
  ASSUME NEW i, NEW k, NEW s, s = Rels(i)[k].symbol, NEW own, FlagsOk(s, own)
  PROVE  Agree(i, k, Merge(own, Rels(i)[k]), own)
<1>1. PICK rel, section : rel = Rels(i)[k] /\ section = prog.sections[i]
  OBVIOUS
<1>2. PICK f : f = Merge(own, rel)
  OBVIOUS
<1>3. PICK v : v = Fixed(rel)
  OBVIOUS
<1>4. \A x \in V : x \in own <=> x \in VF(rel.symbol)
  BY <1>1 DEF FlagsOk
<1>5. \A x \in V : x \in f <=> x \in v
  BY <1>2, <1>3, <1>4 DEF Merge, Fixed
<1>6. /\ own \subseteq f
      /\ "PLT" \in f <=> "PLT" \in own
      /\ "COPY_RELOCATION" \in f <=> "COPY_RELOCATION" \in own
      /\ "IFUNC" \in f <=> "IFUNC" \in own
  BY <1>2 DEF Merge
<1>7. /\ IsInterposable(f) <=> IsInterposable(v)
      /\ HasLinkTimeAddress(f) <=> HasLinkTimeAddress(v)
      /\ EffectiveType(rel, f, section) = EffectiveType(rel, v, section)
      /\ SkipsNext(rel, f, section) <=> SkipsNext(rel, v, section)
  BY <1>5, SameRelaxation
<1>8. Kind(i, k) = KindOf(EffectiveType(rel, v, section)) /\ (Skips(i, k) <=> SkipsNext(rel, v, section))
  BY <1>1, <1>3 DEF Kind, Skips
<1> QED BY <1>1, <1>2, <1>3, <1>5, <1>6, <1>7, <1>8 DEF Agree

(* What is known of a relocation and its symbol together. *)
LEMMA RelocationFacts ==
  ASSUME prog \in Programs, NEW i \in Sections, NEW k \in 1 .. Len(Rels(i)), NEW rel, rel = Rels(i)[k],
         NEW section, section = prog.sections[i], NEW v, v = Fixed(rel), NEW kind, kind = Kind(i, k)
  PROVE  /\ kind \in Kinds
         /\ IsExecutable /\ IsInterposable(v) => "DYNAMIC" \in v
         /\ "DYNAMIC" \in v => IsInterposable(v)
         /\ "IFUNC" \in v => "DYNAMIC" \notin v /\ "ABSOLUTE" \notin v /\ ~IsTls(kind) /\ kind # "Relative"
         /\ "DYNAMIC_FUNCTION" \in v => "DYNAMIC" \in v
         /\ kind = "Absolute" /\ ~section.writable /\ IsPositionIndependent
              => "IFUNC" \notin v /\ ("DYNAMIC" \in v => "ABSOLUTE" \in v)
         /\ kind = "Relative" /\ section.writable /\ IsInterposable(v)
              => ~IsExecutable /\ rel.type = "PC32"
         /\ rel.symbol \in Symbols /\ rel.offset \in Nat
         /\ section.file \in Files /\ section.writable \in BOOLEAN
<1>1. PICK type : type = EffectiveType(rel, v, section)
  OBVIOUS
<1>2. kind = KindOf(type)
  BY <1>1 DEF Kind
<1>3. PICK own : own = VF(rel.symbol)
  OBVIOUS
<1>4. /\ rel.type \in Types /\ rel.symbol \in Symbols /\ rel.offset \in Nat /\ rel.hidden \in BOOLEAN
      /\ "IFUNC" \in own => rel.type \notin TlsTypes
      /\ rel.hidden => "DYNAMIC" \notin own
      /\ rel.type \in {"32", "64"} /\ ~section.writable /\ IsPositionIndependent
           => "IFUNC" \notin own /\ ("DYNAMIC" \in own => "ABSOLUTE" \in own)
      /\ rel.type = "PC32" /\ section.writable => "DYNAMIC" \notin own
  BY <1>3, RelFacts
<1>5. section.exec \in BOOLEAN /\ section.writable \in BOOLEAN /\ section.file \in Files
  BY SectionFacts
<1>6. /\ type \in Types
      /\ type = "64" => rel.type = "64"
      /\ type = "32" => \/ rel.type = "32"
                        \/ "ABSOLUTE" \in v /\ "DYNAMIC" \notin v /\ "IFUNC" \notin v
                        \/ HasLinkTimeAddress(v) /\ HasFixedLoadAddress
      /\ type = "PC32" => rel.type = "PC32" \/ ~IsInterposable(v)
      /\ "IFUNC" \in v /\ rel.type \notin TlsTypes => type \notin TlsTypes
  BY <1>1, <1>4, <1>5, EffectiveFacts
<1>7. /\ kind \in Kinds
      /\ kind = "Absolute" <=> type \in {"32", "64"}
      /\ kind = "Relative" <=> type = "PC32"
      /\ IsTls(kind) <=> type \in TlsTypes
  BY <1>2, <1>6, KindFacts
<1>8. v = IF rel.hidden THEN own \cup {"NON_INTERPOSABLE"} ELSE own
  BY <1>3 DEF Fixed, Merge
<1>9. /\ "IFUNC" \in v <=> "IFUNC" \in own
      /\ "DYNAMIC" \in v <=> "DYNAMIC" \in own
      /\ "ABSOLUTE" \in v <=> "ABSOLUTE" \in own
      /\ "DYNAMIC_FUNCTION" \in v <=> "DYNAMIC_FUNCTION" \in own
      /\ IsInterposable(v) <=> IsInterposable(own) /\ ~rel.hidden
  BY <1>4, <1>8 DEF IsInterposable
<1>10. /\ "DYNAMIC" \in own => IsInterposable(own)
       /\ IsExecutable /\ IsInterposable(own) => "DYNAMIC" \in own
       /\ "IFUNC" \in own => "DYNAMIC" \notin own /\ "ABSOLUTE" \notin own
       /\ "DYNAMIC_FUNCTION" \in own => "DYNAMIC" \in own
  BY <1>3, <1>4, ValueFacts
<1>11. "IFUNC" \in v => type # "PC32"
  BY <1>1, <1>4, IfuncType
<1>12. HasFixedLoadAddress <=> ~IsPositionIndependent
  BY OutputFacts
<1>13. kind = "Absolute" /\ ~section.writable /\ IsPositionIndependent
         => "IFUNC" \notin v /\ ("DYNAMIC" \in v => "ABSOLUTE" \in v)
  BY <1>4, <1>6, <1>7, <1>9, <1>12
<1>14. kind = "Relative" /\ section.writable /\ IsInterposable(v) => ~IsExecutable /\ rel.type = "PC32"
  BY <1>4, <1>6, <1>7, <1>9, <1>10
<1> QED BY <1>4, <1>5, <1>6, <1>7, <1>9, <1>10, <1>11, <1>13, <1>14

(* Sizes grow by what a relocation reserves. *)
Grown(more, less, g, amounts) ==
  /\ more \in [Files -> [Parts -> Nat]]
  /\ \A h \in Files : \A p \in Parts : more[h][p] = less[h][p] + IF h = g THEN amounts[p] ELSE 0

(* One entry of one part is reserved. *)
LEMMA ReserveGrows ==
  ASSUME NEW less \in [Files -> [Parts -> Nat]], NEW g \in Files, NEW part \in Parts, NEW more,
         more = [less EXCEPT ![g][part] = @ + 1], NEW amounts \in [Parts -> Nat],
         \A p \in Parts : amounts[p] = Count(p = part)
  PROVE  Grown(more, less, g, amounts)
<1>1. PICK inner : inner = [less[g] EXCEPT ![part] = less[g][part] + 1]
  OBVIOUS
<1>2. inner \in [Parts -> Nat] /\ \A p \in Parts : inner[p] = less[g][p] + amounts[p]
  BY <1>1 DEF Count
<1>3. more = [less EXCEPT ![g] = inner]
  BY <1>1
<1>4. more \in [Files -> [Parts -> Nat]]
  BY <1>2, <1>3
<1>5. ASSUME NEW h \in Files, NEW p \in Parts
      PROVE  more[h][p] = less[h][p] + IF h = g THEN amounts[p] ELSE 0
  <2>1. CASE h = g
    BY <1>2, <1>3, <2>1
  <2>2. CASE h # g
    <3>1. more[h] = less[h]
      BY <1>3, <2>2
    <3>2. less[h][p] \in Nat
      OBVIOUS
    <3> QED BY <2>2, <3>1, <3>2
  <2> QED BY <2>1, <2>2
<1> QED BY <1>4, <1>5 DEF Grown

(* Nothing is reserved. *)
LEMMA NothingGrows ==
  ASSUME NEW less \in [Files -> [Parts -> Nat]], NEW g \in Files, NEW amounts \in [Parts -> Nat],
         \A p \in Parts : amounts[p] = 0
  PROVE  Grown(less, less, g, amounts)
<1>1. ASSUME NEW h \in Files, NEW p \in Parts
      PROVE  less[h][p] = less[h][p] + IF h = g THEN amounts[p] ELSE 0
  <2>1. less[h][p] \in Nat
    OBVIOUS
  <2> QED BY <2>1
<1> QED BY <1>1 DEF Grown

-----------------------------------------------------------------------------
(* One relocation of the scan.                                             *)

(* Relocation k of section i is next. *)
At(i, k) ==
  /\ prog \in Programs /\ i \in Sections /\ k \in 1 .. Len(Rels(i)) /\ LiveOf(i)[k]
  /\ sizes \in [Files -> [Parts -> Nat]]
  /\ runs \in [Sections -> Run] /\ runs[i] = RunOf(i)[k - 1]
  /\ flags \in [Symbols -> SUBSET (V \cup ResolutionFlags)]
  /\ FlagsOk(Rels(i)[k].symbol, flags[Rels(i)[k].symbol])

(* It was scanned: its symbol has the flags that the writer will look for, *)
(* and what it needs is reserved.                                          *)
ReservedOf(i, k) == [p \in Parts |-> Reserved(i, k, p)]
FlagsAdded(i, k, s) ==
  \E x \in SUBSET ResolutionFlags :
    /\ flags' = [flags EXCEPT ![s] = flags[s] \cup x]
    /\ FlagsOk(s, flags[s] \cup x) /\ Satisfied(i, k, flags[s] \cup x, tlsld')
RunGoesOn(i, k) == runs' = [runs EXCEPT ![i] = RunOf(i)[k]]
Done(i, k) ==
  /\ phase' = phase /\ failure' = failure
  /\ FlagsAdded(i, k, Rels(i)[k].symbol)
  /\ RunGoesOn(i, k)
  /\ Grown(sizes', sizes, prog.sections[i].file, ReservedOf(i, k))

(* A relocation that is not packed leaves the run alone. *)
LEMMA RunStays ==
  ASSUME NEW i, NEW k, At(i, k), ~Packs(i, k), runs' = runs
  PROVE  RunGoesOn(i, k)
<1>1. RunOf(i)[k] = RunOf(i)[k - 1]
  BY RunFacts DEF At
<1> QED BY <1>1 DEF At, RunGoesOn

(* What is reserved for one relocation, over the parts. *)
LEMMA ReservedOfType ==
  ASSUME NEW i, NEW k
  PROVE  ReservedOf(i, k) \in [Parts -> Nat] /\ \A p \in Parts : ReservedOf(i, k)[p] = Reserved(i, k, p)
<1>1. \A p : Reserved(i, k, p) \in Nat
  BY DEF Reserved, NewEntries, Count
<1> QED BY <1>1 DEF ReservedOf

(* A relocation that needs nothing of its own. *)
LEMMA NothingReserved ==
  ASSUME NEW i, NEW k, At(i, k), ~General(i, k), ~Relative(i, k), runs' = runs, sizes' = sizes
  PROVE  RunGoesOn(i, k) /\ Grown(sizes', sizes, prog.sections[i].file, ReservedOf(i, k))
<1>1. ~Packs(i, k)
  BY DEF Packs
<1>2. \A p \in Parts : ReservedOf(i, k)[p] = 0
  BY <1>1, ReservedOfType DEF Reserved
<1>3. prog.sections[i].file \in Files /\ sizes \in [Files -> [Parts -> Nat]]
  BY SectionFacts DEF At
<1>4. Grown(sizes, sizes, prog.sections[i].file, ReservedOf(i, k))
  BY <1>2, <1>3, NothingGrows, ReservedOfType
<1> QED BY <1>1, <1>4, RunStays

(* A relocation that needs a dynamic relocation for its symbol. *)
LEMMA GeneralReserved ==
  ASSUME NEW i, NEW k, At(i, k), General(i, k), runs' = runs, Reserve(prog.sections[i].file, "RELA_GENERAL")
  PROVE  RunGoesOn(i, k) /\ Grown(sizes', sizes, prog.sections[i].file, ReservedOf(i, k))
<1>1. ~Packs(i, k)
  <2> SUFFICES ASSUME Packs(i, k) PROVE FALSE
    OBVIOUS
  <2>1. ~IsInterposable(Fixed(Rels(i)[k])) /\ HasLinkTimeAddress(Fixed(Rels(i)[k]))
    BY DEF Packs, Relative
  <2>2. "IFUNC" \in Fixed(Rels(i)[k])
    BY <2>1 DEF General
  <2> QED BY <2>1, <2>2 DEF HasLinkTimeAddress
<1>2. \A p \in Parts : ReservedOf(i, k)[p] = Count(p = "RELA_GENERAL")
  BY ReservedOfType DEF Reserved, At
<1>3. prog.sections[i].file \in Files /\ sizes \in [Files -> [Parts -> Nat]] /\ "RELA_GENERAL" \in Parts
  BY SectionFacts DEF At, Parts
<1>4. sizes' = [sizes EXCEPT ![prog.sections[i].file]["RELA_GENERAL"] = @ + 1]
  BY DEF Reserve
<1>5. Grown(sizes', sizes, prog.sections[i].file, ReservedOf(i, k))
  BY <1>2, <1>3, <1>4, ReserveGrows, ReservedOfType
<1> QED BY <1>1, <1>5, RunStays

(* A relocation that needs a relative relocation, packed or not. *)
LEMMA RelativeReserved ==
  ASSUME NEW i, NEW k, At(i, k), Relative(i, k), RelativeInData(i, Rels(i)[k], prog.sections[i])
  PROVE  RunGoesOn(i, k) /\ Grown(sizes', sizes, prog.sections[i].file, ReservedOf(i, k))
<1>1. ~General(i, k)
  <2> SUFFICES ASSUME General(i, k) PROVE FALSE
    OBVIOUS
  <2>1. ~IsInterposable(Fixed(Rels(i)[k])) /\ HasLinkTimeAddress(Fixed(Rels(i)[k]))
    BY DEF Relative
  <2>2. "IFUNC" \in Fixed(Rels(i)[k])
    BY <2>1 DEF General
  <2> QED BY <2>1, <2>2 DEF HasLinkTimeAddress
<1>2. PICK file : file = prog.sections[i].file
  OBVIOUS
<1>3. file \in Files /\ sizes \in [Files -> [Parts -> Nat]] /\ "RELR" \in Parts /\ "RELA_RELATIVE" \in Parts
  BY <1>2, SectionFacts DEF At, Parts
<1>4. PICK encoded : encoded = Encode(runs[i], Rels(i)[k].offset)
  OBVIOUS
<1>5. CASE ~Packs(i, k)
  <2>1. ~(prog.relr /\ Rels(i)[k].offset % 2 = 0)
    BY <1>5 DEF Packs
  <2>2. Reserve(file, "RELA_RELATIVE") /\ runs' = runs
    BY <1>2, <2>1 DEF RelativeInData
  <2>3. \A p \in Parts : ReservedOf(i, k)[p] = Count(p = "RELA_RELATIVE")
    BY <1>1, <1>5, ReservedOfType DEF Reserved, At
  <2>4. sizes' = [sizes EXCEPT ![file]["RELA_RELATIVE"] = @ + 1]
    BY <2>2 DEF Reserve
  <2>5. Grown(sizes', sizes, file, ReservedOf(i, k))
    BY <1>3, <2>3, <2>4, ReserveGrows, ReservedOfType
  <2> QED BY <1>2, <1>5, <2>2, <2>5, RunStays
<1>6. CASE Packs(i, k)
  <2>1. prog.relr /\ Rels(i)[k].offset % 2 = 0
    BY <1>6 DEF Packs
  <2>2. /\ runs' = [runs EXCEPT ![i] = encoded.run]
        /\ IF encoded.new THEN Reserve(file, "RELR") ELSE UNCHANGED sizes
    BY <1>2, <1>4, <2>1 DEF RelativeInData
  <2>3. RunOf(i)[k] = encoded.run
    BY <1>4, <1>6, RunFacts DEF At
  <2>4. OffsetsOf(i)[k] = Rels(i)[k].offset
    BY RunFacts DEF At
  <2>5. NewEntries(RunOf(i)[k - 1], OffsetsOf(i)[k]) = Count(encoded.new)
    BY <1>4, <2>4 DEF NewEntries, At
  <2>6. \A p \in Parts : ReservedOf(i, k)[p] = IF p = "RELR" THEN Count(encoded.new) ELSE 0
    BY <1>1, <1>6, <2>5, ReservedOfType DEF Reserved, At
  <2>7. CASE encoded.new
    <3>1. \A p \in Parts : ReservedOf(i, k)[p] = Count(p = "RELR")
      BY <2>6, <2>7 DEF Count
    <3>2. sizes' = [sizes EXCEPT ![file]["RELR"] = @ + 1]
      BY <2>2, <2>7 DEF Reserve
    <3>3. Grown(sizes', sizes, file, ReservedOf(i, k))
      BY <1>3, <3>1, <3>2, ReserveGrows, ReservedOfType
    <3> QED BY <1>2, <2>2, <2>3, <3>3 DEF RunGoesOn
  <2>8. CASE ~encoded.new
    <3>1. \A p \in Parts : ReservedOf(i, k)[p] = 0
      BY <2>6, <2>8 DEF Count
    <3>2. sizes' = sizes
      BY <2>2, <2>8
    <3>3. Grown(sizes, sizes, file, ReservedOf(i, k))
      BY <1>3, <3>1, NothingGrows, ReservedOfType
    <3> QED BY <1>2, <2>2, <2>3, <3>2, <3>3 DEF RunGoesOn
  <2> QED BY <2>7, <2>8
<1> QED BY <1>5, <1>6

(* A thread-local access. *)
LEMMA ScanTls ==
  ASSUME NEW i, NEW k, At(i, k), NEW s, s = Rels(i)[k].symbol, IsTls(Kind(i, k)),
         tlsld' = (tlsld \/ Kind(i, k) = "TlsLd"),
         flags' = [flags EXCEPT ![s] = @ \cup FlagsForKind(Kind(i, k))],
         UNCHANGED <<runs, sizes, phase, failure>>
  PROVE  Done(i, k)
<1>1. PICK x : x = FlagsForKind(Kind(i, k))
  OBVIOUS
<1>2. PICK own : own = flags[s]
  OBVIOUS
<1>3. s \in Symbols /\ "IFUNC" \notin Fixed(Rels(i)[k])
  BY RelocationFacts DEF At
<1>4. FlagsOk(s, own) /\ own \subseteq V \cup ResolutionFlags /\ "IFUNC" \notin own
  <2>1. FlagsOk(s, own)
    BY <1>2 DEF At
  <2>2. "IFUNC" \in VF(s) <=> "IFUNC" \in Fixed(Rels(i)[k])
    BY DEF Fixed, Merge
  <2>3. "IFUNC" \in VF(s) <=> "IFUNC" \in own
    BY <2>1 DEF FlagsOk, V
  <2> QED BY <1>3, <2>1, <2>2, <2>3 DEF FlagsOk
<1>5. Kind(i, k) \in Kinds
  BY RelocationFacts DEF At
<1>6. x \subseteq {"DIRECT", "GOT_TLS_MODULE", "GOT_TLS_OFFSET", "GOT_TLS_DESCRIPTOR"}
  BY <1>1, <1>5 DEF FlagsForKind, IsTls
<1>7. FlagsOk(s, own \cup x)
  <2>1. x \in SUBSET ResolutionFlags
    BY <1>6 DEF ResolutionFlags
  <2>2. "PLT" \notin x /\ "IFUNC_GOT_FOR_ADDRESS" \notin x
    BY <1>6
  <2> QED BY <1>4, <2>1, <2>2, AddFlags
<1>8. Satisfied(i, k, own \cup x, tlsld')
  <2>1. Kind(i, k) # "Absolute"
    BY DEF IsTls
  <2>2. Kind(i, k) = "TlsLd" => tlsld'
    OBVIOUS
  <2> QED BY <1>1, <2>1, <2>2 DEF Satisfied
<1>9. flags' = [flags EXCEPT ![s] = flags[s] \cup x]
  BY <1>1
<1>10. FlagsAdded(i, k, s)
  <2>1. x \in SUBSET ResolutionFlags
    BY <1>6 DEF ResolutionFlags
  <2> QED BY <1>2, <1>7, <1>8, <1>9, <2>1 DEF FlagsAdded
<1>11. ~General(i, k) /\ ~Relative(i, k)
  BY DEF General, Relative, IsTls
<1> QED BY <1>10, <1>11, NothingReserved DEF Done

(* What an ifunc gets besides: its PLT entry with the first reference. *)
LEMMA IfuncFlagsFacts ==
  ASSUME NEW s, NEW own, FlagsOk(s, own), NEW f, "IFUNC" \in f <=> "IFUNC" \in own,
         NEW add \in SUBSET {"DIRECT", "GOT", "PLT", "COPY_RELOCATION"}, "PLT" \in add => "GOT" \in add,
         NEW x, x = add \cup IfuncFlags(f, add, own)
  PROVE  /\ x \in SUBSET ResolutionFlags /\ FlagsOk(s, own \cup x)
         /\ "IFUNC" \in own => "PLT" \in own \cup x
         /\ add \subseteq x
<1>1. x \subseteq {"DIRECT", "GOT", "PLT", "COPY_RELOCATION", "IFUNC_GOT_FOR_ADDRESS"}
  BY DEF IfuncFlags
<1>2. x \in SUBSET ResolutionFlags /\ ~NeedsTlsGot(x)
  BY <1>1 DEF ResolutionFlags, NeedsTlsGot
<1>3. "PLT" \in x => "GOT" \in x
  BY DEF IfuncFlags
<1>4. "IFUNC_GOT_FOR_ADDRESS" \in x => "GOT" \in x /\ "IFUNC" \in own
  BY DEF IfuncFlags
<1>5. "IFUNC" \in own => "PLT" \in own \cup x
  <2> SUFFICES ASSUME "IFUNC" \in own PROVE "PLT" \in own \cup x
    OBVIOUS
  <2>1. CASE ~IsStatic \/ ~HasResolution(own)
    BY <2>1 DEF IfuncFlags
  <2>2. CASE IsStatic /\ HasResolution(own)
    BY <2>2 DEF FlagsOk
  <2> QED BY <2>1, <2>2
<1>6. FlagsOk(s, own \cup x)
  BY <1>2, <1>3, <1>4, <1>5, AddFlags
<1> QED BY <1>2, <1>5, <1>6

(* A direct reference to a symbol that may be interposed. *)
LEMMA ScanDirect ==
  ASSUME NEW i, NEW k, At(i, k), NEW rel, rel = Rels(i)[k], NEW section, section = prog.sections[i],
         NEW f, f = Merge(flags[rel.symbol], rel), NEW add, add = FlagsForKind(Kind(i, k)),
         ~IsTls(Kind(i, k)), tlsld' = tlsld, DirectToInterposable(rel, f, section, add)
  PROVE  \/ phase' = "failed" /\ failure' = "user"
         \/ Done(i, k)
<1>1. PICK s : s = rel.symbol
  OBVIOUS
<1>2. PICK own : own = flags[s]
  OBVIOUS
<1>3. PICK v : v = Fixed(rel)
  OBVIOUS
<1>4. PICK kind : kind = Kind(i, k)
  OBVIOUS
<1>5. FlagsOk(s, own)
  BY <1>1, <1>2 DEF At
<1>6. /\ \A y \in V : y \in f <=> y \in v
      /\ IsInterposable(f) <=> IsInterposable(v)
      /\ HasLinkTimeAddress(f) <=> HasLinkTimeAddress(v)
  <2>1. Agree(i, k, Merge(own, Rels(i)[k]), own)
    BY <1>1, <1>5, RelocationFlags
  <2>2. Merge(own, Rels(i)[k]) = f
    BY <1>1, <1>2
  <2> QED BY <1>3, <2>1, <2>2 DEF Agree
<1>7. /\ kind \in Kinds
      /\ IsExecutable /\ IsInterposable(v) => "DYNAMIC" \in v
      /\ "IFUNC" \in v => "DYNAMIC" \notin v
      /\ "DYNAMIC_FUNCTION" \in v => "DYNAMIC" \in v
      /\ kind = "Relative" /\ section.writable /\ IsInterposable(v) => ~IsExecutable /\ rel.type = "PC32"
      /\ s \in Symbols /\ section.file \in Files /\ section.writable \in BOOLEAN
  BY <1>1, <1>3, <1>4, RelocationFacts DEF At
<1>8. "DIRECT" \in add /\ IsInterposable(f) /\ runs' = runs
  BY DEF DirectToInterposable
<1>9. kind \in {"Absolute", "Relative"} /\ add = {"DIRECT"} /\ IsInterposable(v)
  BY <1>4, <1>6, <1>7, <1>8 DEF Kinds, FlagsForKind, IsTls
<1>10. /\ "IFUNC" \in own <=> "IFUNC" \in v
       /\ "IFUNC" \in f <=> "IFUNC" \in v
       /\ "DYNAMIC" \in f <=> "DYNAMIC" \in v
       /\ "ABSOLUTE" \in f <=> "ABSOLUTE" \in v
       /\ "DYNAMIC_FUNCTION" \in f <=> "DYNAMIC_FUNCTION" \in v
  BY <1>1, <1>2, <1>6 DEF V, Merge
<1>11. "IFUNC" \in f <=> "IFUNC" \in own
  BY <1>10
<1>12. ~Relative(i, k) /\ (General(i, k) <=> kind = "Absolute" /\ section.writable)
  BY <1>3, <1>4, <1>9 DEF General, Relative
<1>13. CASE phase' = "failed" /\ failure' = "user"
  BY <1>13
<1>14. ASSUME NEW y \in SUBSET {"DIRECT", "PLT", "GOT", "COPY_RELOCATION"}, "PLT" \in y => "GOT" \in y,
              flags' = [flags EXCEPT ![s] = (flags[s] \cup y) \cup IfuncFlags(f, y, own)],
              kind = "Absolute" /\ ~section.writable => ~(IsPositionIndependent /\ HasLinkTimeAddress(v))
       PROVE  FlagsAdded(i, k, s)
  <2> DEFINE x == y \cup IfuncFlags(f, y, own)
  <2>1. x \in SUBSET ResolutionFlags /\ FlagsOk(s, own \cup x)
    <3>1. PICK z : z = y \cup IfuncFlags(f, y, own)
      OBVIOUS
    <3>2. y \in SUBSET {"DIRECT", "GOT", "PLT", "COPY_RELOCATION"}
      BY <1>14
    <3>3. z \in SUBSET ResolutionFlags /\ FlagsOk(s, own \cup z)
      BY <1>5, <1>11, <1>14, <3>1, <3>2, IfuncFlagsFacts
    <3> QED BY <3>1, <3>3
  <2>2. flags' = [flags EXCEPT ![s] = flags[s] \cup x]
    BY <1>14
  <2> HIDE DEF x
  <2>3. Satisfied(i, k, own \cup x, tlsld')
    <3>1. Kind(i, k) \in {"Absolute", "Relative"}
      BY <1>4, <1>9
    <3> QED BY <1>3, <1>4, <1>9, <1>14, <3>1 DEF Satisfied
  <2> QED BY <1>2, <2>1, <2>2, <2>3 DEF FlagsAdded
<1>15. CASE ~(phase' = "failed" /\ failure' = "user") /\ section.writable
  <2>1. /\ ~(prog.kind = "shared" /\ IsDisallowedForInterposable(rel.type))
        /\ Reserve(section.file, "RELA_GENERAL")
        /\ flags' = [flags EXCEPT ![s] = (flags[s] \cup add) \cup IfuncFlags(f, add, own)]
        /\ phase' = phase /\ failure' = failure
    BY <1>1, <1>2, <1>15 DEF DirectToInterposable, Fail
  <2>2. kind = "Absolute"
    <3>1. kind # "Relative"
      BY <1>7, <1>9, <1>15, <2>1 DEF IsExecutable, IsDisallowedForInterposable
    <3> QED BY <1>9, <3>1
  <2>3. General(i, k)
    BY <1>12, <1>15, <2>2
  <2>4. FlagsAdded(i, k, s)
    BY <1>1, <1>9, <1>14, <1>15, <2>1
  <2> QED BY <1>1, <1>8, <2>1, <2>3, <2>4, GeneralReserved DEF Done
<1>16. CASE ~(phase' = "failed" /\ failure' = "user") /\ ~section.writable
  <2>1. ~General(i, k)
    BY <1>12, <1>16
  <2>2. sizes' = sizes /\ phase' = phase /\ failure' = failure
    BY <1>16 DEF DirectToInterposable, Fail
  <2>3. PICK x \in SUBSET {"DIRECT", "PLT", "GOT", "COPY_RELOCATION"} :
          /\ "PLT" \in x => "GOT" \in x
          /\ flags' = [flags EXCEPT ![s] = (flags[s] \cup x) \cup IfuncFlags(f, x, own)]
          /\ "DYNAMIC_FUNCTION" \in f \/ "ABSOLUTE" \in f \/ prog.copy
    <3>1. CASE "DYNAMIC_FUNCTION" \in f
      <4> DEFINE x == (add \ {"DIRECT"}) \cup {"PLT", "GOT"}
      <4>1. flags' = [flags EXCEPT ![s] = (flags[s] \cup x) \cup IfuncFlags(f, x, own)]
        BY <1>1, <1>2, <1>16, <3>1 DEF DirectToInterposable, Fail
      <4>2. x \in SUBSET {"DIRECT", "PLT", "GOT", "COPY_RELOCATION"} /\ "GOT" \in x
        BY <1>9
      <4> QED BY <3>1, <4>1, <4>2
    <3>2. CASE "DYNAMIC_FUNCTION" \notin f /\ "ABSOLUTE" \in f
      <4>1. flags' = [flags EXCEPT ![s] = (flags[s] \cup add) \cup IfuncFlags(f, add, own)]
        BY <1>1, <1>2, <1>16, <3>2 DEF DirectToInterposable, Fail
      <4> QED BY <1>9, <3>2, <4>1
    <3>3. CASE "DYNAMIC_FUNCTION" \notin f /\ "ABSOLUTE" \notin f
      <4> DEFINE x == add \cup {"COPY_RELOCATION"}
      <4>1. prog.copy /\ flags' = [flags EXCEPT ![s] = (flags[s] \cup x) \cup IfuncFlags(f, x, own)]
        BY <1>1, <1>2, <1>16, <3>3 DEF DirectToInterposable, Fail
      <4>2. x \in SUBSET {"DIRECT", "PLT", "GOT", "COPY_RELOCATION"} /\ "PLT" \notin x
        BY <1>9
      <4> QED BY <4>1, <4>2
    <3> QED BY <3>1, <3>2, <3>3
  <2>4. ~HasLinkTimeAddress(v)
    <3>1. prog.copy => IsExecutable
      BY OutputFacts DEF At
    <3>2. "DYNAMIC" \in v \/ "ABSOLUTE" \in v
      BY <1>7, <1>9, <1>10, <2>3, <3>1
    <3> QED BY <3>2 DEF HasLinkTimeAddress
  <2>5. FlagsAdded(i, k, s)
    BY <1>14, <2>3, <2>4
  <2> QED BY <1>1, <1>8, <1>12, <2>1, <2>2, <2>5, NothingReserved DEF Done
<1> QED BY <1>7, <1>13, <1>15, <1>16

(* Any other reference. *)
LEMMA ScanLinkTime ==
  ASSUME NEW i, NEW k, At(i, k), NEW rel, rel = Rels(i)[k], NEW section, section = prog.sections[i],
         NEW f, f = Merge(flags[rel.symbol], rel), NEW add, add = FlagsForKind(Kind(i, k)),
         ~IsTls(Kind(i, k)), tlsld' = tlsld, ToLinkTimeAddress(i, rel, f, section, add)
  PROVE  \/ phase' = "failed" /\ failure' = "user"
         \/ Done(i, k)
<1>1. PICK s : s = rel.symbol
  OBVIOUS
<1>2. PICK own : own = flags[s]
  OBVIOUS
<1>3. PICK v : v = Fixed(rel)
  OBVIOUS
<1>4. PICK kind : kind = Kind(i, k)
  OBVIOUS
<1>5. FlagsOk(s, own)
  BY <1>1, <1>2 DEF At
<1>6. /\ \A y \in V : y \in f <=> y \in v
      /\ KindOf(EffectiveType(rel, f, section)) = kind
      /\ IsInterposable(f) <=> IsInterposable(v)
      /\ HasLinkTimeAddress(f) <=> HasLinkTimeAddress(v)
      /\ "IFUNC" \in f <=> "IFUNC" \in own
  <2>1. Agree(i, k, Merge(own, Rels(i)[k]), own)
    BY <1>1, <1>5, RelocationFlags
  <2>2. Merge(own, Rels(i)[k]) = f
    BY <1>1, <1>2
  <2> QED BY <1>3, <1>4, <2>1, <2>2 DEF Agree
<1>7. kind \in Kinds /\ s \in Symbols /\ section.writable \in BOOLEAN
  BY <1>1, <1>4, RelocationFacts DEF At
<1>8. "IFUNC" \in f <=> "IFUNC" \in v
  BY <1>6 DEF V
<1>9. /\ add \in SUBSET {"DIRECT", "GOT", "PLT"}
      /\ "PLT" \in add => "GOT" \in add
      /\ "DIRECT" \in add <=> kind \in {"Absolute", "Relative"}
  BY <1>4, <1>7 DEF Kinds, FlagsForKind, IsTls
<1>10. PICK x : x = add \cup IfuncFlags(f, add, own)
  OBVIOUS
<1>11. /\ x \in SUBSET ResolutionFlags /\ FlagsOk(s, own \cup x)
       /\ "IFUNC" \in own => "PLT" \in own \cup x
       /\ add \subseteq x
  BY <1>5, <1>6, <1>9, <1>10, IfuncFlagsFacts
<1> DEFINE needs_ifunc == "IFUNC" \in f /\ kind = "Absolute" /\ section.writable /\ IsPositionIndependent
           needs_relative == IsPositionIndependent /\ kind = "Absolute" /\ HasLinkTimeAddress(f)
           adds == flags' = [flags EXCEPT ![rel.symbol] = @ \cup add \cup IfuncFlags(f, add, flags[rel.symbol])]
<1>12. kind = "Absolute" => ~IsInterposable(v)
  BY <1>6, <1>9 DEF ToLinkTimeAddress
<1>13. \/ needs_ifunc /\ Reserve(section.file, "RELA_GENERAL") /\ adds /\ UNCHANGED <<runs, phase, failure>>
       \/ needs_relative /\ section.writable /\ RelativeInData(i, rel, section) /\ adds /\ UNCHANGED <<phase, failure>>
       \/ needs_relative /\ ~section.writable /\ phase' = "failed" /\ failure' = "user"
       \/ ~needs_ifunc /\ ~needs_relative /\ adds /\ UNCHANGED <<runs, sizes, phase, failure>>
  BY <1>6 DEF ToLinkTimeAddress, Fail
<1>14. General(i, k) <=> needs_ifunc
  BY <1>3, <1>4, <1>8, <1>12 DEF General
<1>15. Relative(i, k) <=> needs_relative /\ section.writable
  BY <1>3, <1>4, <1>6, <1>12 DEF Relative
<1>16. ASSUME adds, kind = "Absolute" /\ ~section.writable => ~(IsPositionIndependent /\ HasLinkTimeAddress(v))
       PROVE  FlagsAdded(i, k, s)
  <2>1. flags' = [flags EXCEPT ![s] = flags[s] \cup x]
    <3>1. flags' = [flags EXCEPT ![s] = flags[s] \cup add \cup IfuncFlags(f, add, own)]
      BY <1>1, <1>2, <1>16
    <3>2. (flags[s] \cup add) \cup IfuncFlags(f, add, own) = flags[s] \cup x
      BY <1>10
    <3> QED BY <3>1, <3>2
  <2>2. Satisfied(i, k, own \cup x, tlsld')
    <3>1. "IFUNC" \in own \cup x => "PLT" \in own \cup x
      BY <1>11, FlagsApart DEF V
    <3>2. kind # "TlsLd"
      BY <1>4 DEF IsTls
    <3>3. FlagsForKind(kind) \subseteq own \cup x
      BY <1>4, <1>11
    <3> QED BY <1>3, <1>4, <1>16, <3>1, <3>2, <3>3 DEF Satisfied
  <2> QED BY <1>2, <1>11, <2>1, <2>2 DEF FlagsAdded
<1> HIDE DEF adds
<1>17. CASE needs_ifunc /\ Reserve(section.file, "RELA_GENERAL") /\ adds /\ UNCHANGED <<runs, phase, failure>>
  <2>1. FlagsAdded(i, k, s)
    BY <1>16, <1>17
  <2>2. General(i, k)
    BY <1>14, <1>17
  <2>3. RunGoesOn(i, k) /\ Grown(sizes', sizes, section.file, ReservedOf(i, k))
    BY <1>17, <2>2, GeneralReserved
  <2> QED BY <1>1, <1>17, <2>1, <2>3 DEF Done
<1>18. CASE needs_relative /\ section.writable /\ RelativeInData(i, rel, section) /\ adds /\ UNCHANGED <<phase, failure>>
  <2>1. FlagsAdded(i, k, s)
    BY <1>16, <1>18
  <2>2. Relative(i, k)
    BY <1>15, <1>18
  <2>3. RunGoesOn(i, k) /\ Grown(sizes', sizes, section.file, ReservedOf(i, k))
    BY <1>18, <2>2, RelativeReserved
  <2> QED BY <1>1, <1>18, <2>1, <2>3 DEF Done
<1>19. CASE ~needs_ifunc /\ ~needs_relative /\ adds /\ UNCHANGED <<runs, sizes, phase, failure>>
  <2>1. FlagsAdded(i, k, s)
    BY <1>6, <1>16, <1>19
  <2>2. ~General(i, k) /\ ~Relative(i, k)
    BY <1>14, <1>15, <1>19
  <2>3. RunGoesOn(i, k) /\ Grown(sizes', sizes, section.file, ReservedOf(i, k))
    BY <1>19, <2>2, NothingReserved
  <2> QED BY <1>1, <1>19, <2>1, <2>3 DEF Done
<1> QED BY <1>13, <1>17, <1>18, <1>19

(* A step of the scan fails for the user, or the relocation is done. *)
LEMMA ScanRelocation ==
  ASSUME NEW i, NEW k, At(i, k), k = next[i], Scan(i)
  PROVE  /\ prog' = prog /\ phase = "scan"
         /\ next' = [next EXCEPT ![i] = k + 1]
         /\ skip' = IF Skips(i, k) THEN skip \cup {i} ELSE skip
         /\ tlsld => tlsld'
         /\ \/ phase' = "failed" /\ failure' = "user"
            \/ Done(i, k)
<1>1. PICK rel, section : rel = Rels(i)[k] /\ section = prog.sections[i]
  OBVIOUS
<1>2. PICK s : s = rel.symbol
  OBVIOUS
<1>3. PICK own : own = flags[s]
  OBVIOUS
<1>4. PICK f : f = Merge(flags[rel.symbol], rel)
  OBVIOUS
<1>5. FlagsOk(s, own)
  BY <1>1, <1>2, <1>3 DEF At
<1>6. KindOf(EffectiveType(rel, f, section)) = Kind(i, k) /\ (SkipsNext(rel, f, section) <=> Skips(i, k))
  <2>1. Agree(i, k, Merge(own, Rels(i)[k]), own)
    BY <1>1, <1>2, <1>5, RelocationFlags
  <2>2. Merge(own, Rels(i)[k]) = f
    BY <1>1, <1>2, <1>3, <1>4
  <2> QED BY <1>1, <2>1, <2>2 DEF Agree
<1>7. PICK add : add = FlagsForKind(Kind(i, k))
  OBVIOUS
<1>8. section.relocations[next[i]] = rel
  BY <1>1 DEF Rels
<1>9. /\ phase = "scan" /\ prog' = prog
      /\ next' = [next EXCEPT ![i] = @ + 1]
      /\ skip' = IF SkipsNext(rel, f, section) THEN skip \cup {i} ELSE skip
      /\ \/ /\ IsTls(Kind(i, k))
            /\ tlsld' = (tlsld \/ Kind(i, k) = "TlsLd")
            /\ flags' = [flags EXCEPT ![rel.symbol] = @ \cup add]
            /\ UNCHANGED <<runs, sizes, phase, failure>>
         \/ /\ ~IsTls(Kind(i, k)) /\ UNCHANGED tlsld
            /\ \/ DirectToInterposable(rel, f, section, add)
               \/ ToLinkTimeAddress(i, rel, f, section, add)
  BY <1>1, <1>4, <1>6, <1>7, <1>8 DEF Scan
<1>10. tlsld => tlsld'
  BY <1>9
<1>11. \/ phase' = "failed" /\ failure' = "user"
       \/ Done(i, k)
  <2>1. CASE /\ IsTls(Kind(i, k))
             /\ tlsld' = (tlsld \/ Kind(i, k) = "TlsLd")
             /\ flags' = [flags EXCEPT ![rel.symbol] = @ \cup add]
             /\ UNCHANGED <<runs, sizes, phase, failure>>
    BY <1>1, <1>7, <2>1, ScanTls
  <2>2. CASE ~IsTls(Kind(i, k)) /\ UNCHANGED tlsld /\ DirectToInterposable(rel, f, section, add)
    BY <1>1, <1>4, <1>7, <2>2, ScanDirect
  <2>3. CASE ~IsTls(Kind(i, k)) /\ UNCHANGED tlsld /\ ToLinkTimeAddress(i, rel, f, section, add)
    BY <1>1, <1>4, <1>7, <2>3, ScanLinkTime
  <2> QED BY <1>9, <2>1, <2>2, <2>3
<1> QED BY <1>6, <1>9, <1>10, <1>11

-----------------------------------------------------------------------------
(* The invariant of the scan.                                              *)

(* How many relocations of a section are behind the scan. *)
Upto(i) == IF next[i] > Len(Rels(i)) THEN Len(Rels(i)) ELSE next[i] - 1
Reached == [i \in Sections |-> Upto(i)]

(* What the sections of file g reserve of part p with the first            *)
(* relocations of each.                                                    *)
TotalsOf(g, p, reached) ==
  [i \in Sections |-> IF prog.sections[i].file = g THEN Sums(ReservedIn(i, p))[reached[i]] ELSE 0]

SymbolsOk ==
  /\ flags \in [Symbols -> SUBSET (V \cup ResolutionFlags)]
  /\ \A s \in Symbols : FlagsOk(s, flags[s])
  /\ copies \subseteq Symbols

AllSatisfied ==
  \A i \in Sections : \A k \in 1 .. Len(Rels(i)) :
    k < next[i] /\ LiveOf(i)[k] => Satisfied(i, k, flags[Rels(i)[k].symbol], tlsld)

Positions ==
  /\ next \in [Sections -> Nat \ {0}] /\ skip \subseteq Sections
  /\ \A i \in Sections : next[i] <= Len(Rels(i)) => (i \in skip <=> ~LiveOf(i)[next[i]])

RunsOk == runs = [i \in Sections |-> RunOf(i)[Upto(i)]]

SizesOk ==
  /\ sizes \in [Files -> [Parts -> Nat]]
  /\ \A g \in Files : \A p \in Parts : sizes[g][p] = Sum(TotalsOf(g, p, Reached))

(* One relocation further in section i. *)
LEMMA Advance ==
  ASSUME prog \in Programs, prog' = prog, next \in [Sections -> Nat \ {0}], NEW i \in Sections,
         next' = [next EXCEPT ![i] = next[i] + 1]
  PROVE  /\ next' \in [Sections -> Nat \ {0}]
         /\ \A j \in Sections : j # i => Upto(j)' = Upto(j)
         /\ next[i] > Len(Rels(i)) => Upto(i)' = Upto(i)
         /\ next[i] <= Len(Rels(i)) => Upto(i)' = next[i] /\ Upto(i) = next[i] - 1
         /\ \A j \in Sections : Upto(j) \in 0 .. Len(Rels(j))
<1>1. \A j \in Sections : Len(Rels(j)) \in Nat /\ next[j] \in Nat \ {0} /\ Rels(j)' = Rels(j)
  BY SectionFacts, SameRels
<1>2. next' \in [Sections -> Nat \ {0}]
  BY <1>1
<1>3. next'[i] = next[i] + 1 /\ \A j \in Sections : j # i => next'[j] = next[j]
  OBVIOUS
<1>4. \A j \in Sections : j # i => Upto(j)' = Upto(j)
  BY <1>1, <1>3 DEF Upto
<1>5. PICK n \in Nat, m \in Nat \ {0} : n = Len(Rels(i)) /\ m = next[i]
  BY <1>1
<1>6. Len(Rels(i))' = n
  BY <1>1, <1>5
<1>7. Upto(i) = IF m > n THEN n ELSE m - 1
  BY <1>5 DEF Upto
<1>8. Upto(i)' = IF m + 1 > n THEN n ELSE (m + 1) - 1
  BY <1>3, <1>5, <1>6 DEF Upto
<1>9. m > n => Upto(i)' = Upto(i)
  BY <1>7, <1>8
<1>10. m <= n => Upto(i)' = m /\ Upto(i) = m - 1
  BY <1>7, <1>8
<1>11. ASSUME NEW j \in Sections PROVE Upto(j) \in 0 .. Len(Rels(j))
  <2>1. PICK a \in Nat, b \in Nat \ {0} : a = Len(Rels(j)) /\ b = next[j]
    BY <1>1
  <2>2. Upto(j) = IF b > a THEN a ELSE b - 1
    BY <2>1 DEF Upto
  <2>3. Upto(j) \in 0 .. a
    BY <2>2
  <2> QED BY <2>1, <2>3
<1> QED BY <1>2, <1>4, <1>5, <1>9, <1>10, <1>11

(* The totals of the sections are counts. *)
LEMMA TotalsType ==
  ASSUME prog \in Programs, NEW g, NEW p, NEW r, \A j \in Sections : r[j] \in 0 .. Len(Rels(j)),
         NEW n, n = Len(prog.sections)
  PROVE  /\ TotalsOf(g, p, r) \in [1 .. n -> Nat] /\ n \in Nat /\ Sections = 1 .. n
         /\ Sum(TotalsOf(g, p, r)) \in Nat
<1>1. n \in Nat /\ Sections = 1 .. n
  BY ProgramFacts
<1>2. \A j \in Sections : Sums(ReservedIn(j, p))[r[j]] \in Nat
  <2> SUFFICES ASSUME NEW j \in Sections PROVE Sums(ReservedIn(j, p))[r[j]] \in Nat
    OBVIOUS
  <2>1. PICK m \in Nat : m = Len(Rels(j))
    BY SectionFacts
  <2>2. ReservedIn(j, p) \in [1 .. m -> Nat]
    BY <2>1, ReservedType
  <2>3. ReservedIn(j, p) \in Seq(Nat) /\ Len(ReservedIn(j, p)) = m
    BY <2>2, IsSeq
  <2>4. Sums(ReservedIn(j, p)) \in [0 .. m -> Nat]
    BY <2>3, SumsFacts
  <2> QED BY <2>1, <2>4
<1>3. TotalsOf(g, p, r) \in [1 .. n -> Nat]
  BY <1>1, <1>2 DEF TotalsOf
<1>4. TotalsOf(g, p, r) \in Seq(Nat)
  BY <1>1, <1>3, IsSeq
<1> QED BY <1>1, <1>3, <1>4, SumType

(* What relocation k of section i adds for file g. *)
Share(g, i, k, p) == IF g = prog.sections[i].file THEN Reserved(i, k, p) ELSE 0

(* One more relocation of one section adds its share to the total of the   *)
(* section's file, and nothing to the others.                              *)
LEMMA TotalsGrow ==
  ASSUME prog \in Programs, NEW r \in [Sections -> Nat], \A j \in Sections : r[j] \in 0 .. Len(Rels(j)),
         NEW i \in Sections, NEW k \in 1 .. Len(Rels(i)), r[i] = k - 1,
         NEW q \in [Sections -> Nat], q[i] = k, \A j \in Sections : j # i => q[j] = r[j],
         NEW g \in Files, NEW p \in Parts
  PROVE  Sum(TotalsOf(g, p, q)) = Sum(TotalsOf(g, p, r)) + Share(g, i, k, p)
<1>1. PICK n : n = Len(prog.sections)
  OBVIOUS
<1>2. q \in [Sections -> Nat] /\ q[i] = k /\ \A j \in Sections : j # i => q[j] = r[j]
  OBVIOUS
<1>3. \A j \in Sections : q[j] \in 0 .. Len(Rels(j))
  <2>1. k \in 0 .. Len(Rels(i))
    BY SectionFacts
  <2> QED BY <1>2, <2>1
<1>4. n \in Nat /\ Sections = 1 .. n /\ TotalsOf(g, p, r) \in [1 .. n -> Nat]
  BY <1>1, TotalsType
<1>5. TotalsOf(g, p, q) \in [1 .. n -> Nat]
  BY <1>1, <1>3, TotalsType
<1>6. PICK a \in [1 .. n -> Nat], b \in [1 .. n -> Nat] : a = TotalsOf(g, p, r) /\ b = TotalsOf(g, p, q)
  BY <1>4, <1>5
<1>7. \A j \in 1 .. n : j # i => b[j] = a[j]
  BY <1>2, <1>4, <1>6 DEF TotalsOf
<1>8. PICK d \in Nat : d = Share(g, i, k, p)
  BY DEF Share, Reserved, NewEntries, Count
<1>9. b[i] = a[i] + d
  <2>1. PICK m \in Nat : m = Len(Rels(i))
    BY SectionFacts
  <2>2. ReservedIn(i, p) \in [1 .. m -> Nat] /\ ReservedIn(i, p)[k] = Reserved(i, k, p)
    BY <2>1, ReservedType
  <2>3. ReservedIn(i, p) \in Seq(Nat) /\ Len(ReservedIn(i, p)) = m
    BY <2>2, IsSeq
  <2>4. /\ Sums(ReservedIn(i, p)) \in [0 .. m -> Nat]
        /\ Sums(ReservedIn(i, p))[k] = Sums(ReservedIn(i, p))[k - 1] + Reserved(i, k, p)
    BY <2>1, <2>2, <2>3, SumsFacts
  <2>5. a[i] = IF prog.sections[i].file = g THEN Sums(ReservedIn(i, p))[k - 1] ELSE 0
    BY <1>6 DEF TotalsOf
  <2>6. b[i] = IF prog.sections[i].file = g THEN Sums(ReservedIn(i, p))[k] ELSE 0
    BY <1>2, <1>6 DEF TotalsOf
  <2>7. CASE prog.sections[i].file = g
    BY <1>8, <2>4, <2>5, <2>6, <2>7 DEF Share
  <2>8. CASE prog.sections[i].file # g
    BY <1>8, <2>5, <2>6, <2>8 DEF Share
  <2> QED BY <2>7, <2>8
<1>10. Sum(b) = Sum(a) + d
  BY <1>4, <1>7, <1>9, SumUpdate
<1> QED BY <1>6, <1>8, <1>10

(* The totals depend on the program and on how far the scan has come. *)
LEMMA SameTotals ==
  ASSUME prog' = prog, NEW CONSTANT g, NEW CONSTANT p, NEW CONSTANT r
  PROVE  TotalsOf(g, p, r)' = TotalsOf(g, p, r)
<1>1. \A i : ReservedIn(i, p)' = ReservedIn(i, p)
  BY SameReserved
<1>2. Sections' = Sections
  BY SameOutput
<1> QED BY <1>1, <1>2 DEF TotalsOf

(* Flags are only ever added. *)
LEMMA FlagsGrow ==
  ASSUME SymbolsOk, AllSatisfied, prog' = prog, NEW s \in Symbols, NEW x \in SUBSET ResolutionFlags,
         flags' = [flags EXCEPT ![s] = flags[s] \cup x], FlagsOk(s, flags[s] \cup x), tlsld => tlsld'
  PROVE  /\ flags' \in [Symbols -> SUBSET (V \cup ResolutionFlags)]
         /\ \A t \in Symbols : FlagsOk(t, flags'[t])
         /\ flags'[s] = flags[s] \cup x
         /\ \A i \in Sections : \A k \in 1 .. Len(Rels(i)) :
              k < next[i] /\ LiveOf(i)[k] /\ Rels(i)[k].symbol \in Symbols
                => Satisfied(i, k, flags'[Rels(i)[k].symbol], tlsld')
<1>1. flags \in [Symbols -> SUBSET (V \cup ResolutionFlags)]
  BY DEF SymbolsOk
<1>2. flags'[s] = flags[s] \cup x /\ \A t \in Symbols : t # s => flags'[t] = flags[t]
  BY <1>1
<1>3. flags' \in [Symbols -> SUBSET (V \cup ResolutionFlags)]
  BY <1>1
<1>4. \A t \in Symbols : FlagsOk(t, flags'[t])
  BY <1>2 DEF SymbolsOk
<1>5. ASSUME NEW i \in Sections, NEW k \in 1 .. Len(Rels(i)), k < next[i], LiveOf(i)[k], Rels(i)[k].symbol \in Symbols
      PROVE  Satisfied(i, k, flags'[Rels(i)[k].symbol], tlsld')
  <2>1. PICK t \in Symbols : t = Rels(i)[k].symbol
    BY <1>5
  <2>2. PICK own : own = flags[t]
    OBVIOUS
  <2>3. Satisfied(i, k, own, tlsld)
    BY <1>5, <2>1, <2>2 DEF AllSatisfied
  <2>4. PICK y \in SUBSET ResolutionFlags : flags'[t] = own \cup y
    <3>1. CASE t = s
      BY <1>2, <2>2, <3>1
    <3>2. CASE t # s
      <4>1. flags'[t] = own \cup {}
        BY <1>2, <2>2, <3>2
      <4> QED BY <4>1
    <3> QED BY <3>1, <3>2
  <2>5. Satisfied(i, k, own \cup y, tlsld')
    BY <2>3, SatisfiedStays
  <2> QED BY <2>1, <2>4, <2>5
<1> QED BY <1>2, <1>3, <1>4, <1>5

(* A symbol that is activated from outside. *)
LEMMA ActivateStep ==
  ASSUME prog \in Programs, SymbolsOk, AllSatisfied, NEW s \in Symbols, ActivateRoot(s)
  PROVE  SymbolsOk' /\ AllSatisfied'
<1>1. prog' = prog /\ next' = next /\ tlsld' = tlsld /\ copies' = copies
  BY DEF ActivateRoot
<1>2. PICK x : x = prog.symbols[s].root
  OBVIOUS
<1>3. PICK own : own = flags[s]
  OBVIOUS
<1>4. flags' = [flags EXCEPT ![s] = flags[s] \cup x]
  BY <1>2 DEF ActivateRoot
<1>5. FlagsOk(s, own)
  BY <1>3 DEF SymbolsOk
<1>6. x \subseteq {"DIRECT", "EXPORT_DYNAMIC"} /\ ("IFUNC" \in VF(s) /\ IsStatic => x = {})
  BY <1>2, ValueFacts
<1>7. x \in SUBSET ResolutionFlags /\ ~NeedsTlsGot(x) /\ "PLT" \notin x /\ "IFUNC_GOT_FOR_ADDRESS" \notin x
  BY <1>6 DEF ResolutionFlags, NeedsTlsGot
<1>8. "IFUNC" \in own => "IFUNC" \in VF(s)
  BY <1>5 DEF FlagsOk, V
<1>9. FlagsOk(s, own \cup x)
  BY <1>5, <1>6, <1>7, <1>8, AddFlags
<1>10. /\ flags' \in [Symbols -> SUBSET (V \cup ResolutionFlags)]
       /\ \A t \in Symbols : FlagsOk(t, flags'[t])
       /\ \A i \in Sections : \A k \in 1 .. Len(Rels(i)) :
            k < next[i] /\ LiveOf(i)[k] /\ Rels(i)[k].symbol \in Symbols
              => Satisfied(i, k, flags'[Rels(i)[k].symbol], tlsld')
  BY <1>1, <1>3, <1>4, <1>7, <1>9, FlagsGrow
<1>11. SymbolsOk'
  <2>1. \A t \in Symbols : FlagsOk(t, flags[t])'
    <3> SUFFICES ASSUME NEW t \in Symbols PROVE FlagsOk(t, flags[t])'
      OBVIOUS
    <3>1. PICK f : f = flags'[t]
      OBVIOUS
    <3>2. FlagsOk(t, f)'
      BY <1>1, <1>10, <3>1, SameFlagsOk
    <3> QED BY <3>1, <3>2
  <2>2. Symbols' = Symbols
    BY <1>1, SameOutput
  <2> QED BY <1>1, <1>10, <2>1, <2>2 DEF SymbolsOk
<1>12. AllSatisfied'
  <2> SUFFICES ASSUME NEW i \in Sections', NEW k \in (1 .. Len(Rels(i)))', k < next'[i], LiveOf(i)'[k]
               PROVE  Satisfied(i, k, flags[Rels(i)[k].symbol], tlsld)'
    BY DEF AllSatisfied
  <2>1. i \in Sections /\ Rels(i)' = Rels(i) /\ LiveOf(i)' = LiveOf(i)
    BY <1>1, SameOutput, SameRels, SameTables
  <2>2. k \in 1 .. Len(Rels(i)) /\ k < next[i]
    BY <1>1, <2>1
  <2>3. Rels(i)[k].symbol \in Symbols
    BY <2>1, <2>2, RelocationFacts
  <2>4. Satisfied(i, k, flags'[Rels(i)[k].symbol], tlsld')
    BY <1>10, <2>1, <2>2, <2>3
  <2>5. PICK f, tls : f = flags'[Rels(i)[k].symbol] /\ tls = tlsld'
    OBVIOUS
  <2>6. Satisfied(i, k, f, tls)'
    BY <1>1, <2>4, <2>5, SameSatisfied
  <2> QED BY <2>1, <2>5, <2>6
<1> QED BY <1>11, <1>12

(* Where the scan of a section is, after one more relocation. *)
LEMMA PositionsStep ==
  ASSUME prog \in Programs, Positions, prog' = prog, NEW i \in Sections,
         next' = [next EXCEPT ![i] = next[i] + 1], skip' \subseteq Sections,
         \A j \in Sections : j # i => (j \in skip' <=> j \in skip),
         \A n \in Nat : n = Len(Rels(i)) /\ next[i] + 1 <= n => (i \in skip' <=> ~LiveOf(i)[next[i] + 1])
  PROVE  Positions'
<1>1. /\ next \in [Sections -> Nat \ {0}] /\ skip \subseteq Sections
      /\ \A j \in Sections : next[j] <= Len(Rels(j)) => (j \in skip <=> ~LiveOf(j)[next[j]])
  BY DEF Positions
<1>2. Sections' = Sections /\ \A j : Rels(j)' = Rels(j) /\ LiveOf(j)' = LiveOf(j)
  BY SameOutput, SameRels, SameTables
<1>3. next' \in [Sections -> Nat \ {0}]
  BY <1>1, Advance
<1>4. ASSUME NEW j \in Sections, next'[j] <= Len(Rels(j)) PROVE j \in skip' <=> ~LiveOf(j)[next'[j]]
  <2>1. CASE j = i
    <3>1. next'[j] = next[i] + 1 /\ Len(Rels(i)) \in Nat
      BY <1>1, <2>1, SectionFacts
    <3> QED BY <1>4, <2>1, <3>1
  <2>2. CASE j # i
    <3>1. next'[j] = next[j]
      BY <1>1, <2>2
    <3> QED BY <1>1, <1>4, <2>2, <3>1
  <2> QED BY <2>1, <2>2
<1> QED BY <1>2, <1>3, <1>4 DEF Positions

(* How far the scan has come after one more step: past the end it stays at *)
(* the last relocation.                                                    *)
LEMMA ReachedFacts ==
  ASSUME prog \in Programs, prog' = prog, next \in [Sections -> Nat \ {0}], NEW i \in Sections,
         next' = [next EXCEPT ![i] = next[i] + 1]
  PROVE  /\ Reached \in [Sections -> Nat] /\ \A j \in Sections : Reached[j] = Upto(j)
         /\ \A j \in Sections : Reached[j] \in 0 .. Len(Rels(j))
         /\ next[i] > Len(Rels(i)) => Reached' = Reached
         /\ next[i] <= Len(Rels(i)) => Reached' = [Reached EXCEPT ![i] = next[i]] /\ Reached[i] = next[i] - 1
<1>1. /\ \A j \in Sections : j # i => Upto(j)' = Upto(j)
      /\ next[i] > Len(Rels(i)) => Upto(i)' = Upto(i)
      /\ next[i] <= Len(Rels(i)) => Upto(i)' = next[i] /\ Upto(i) = next[i] - 1
      /\ \A j \in Sections : Upto(j) \in 0 .. Len(Rels(j))
  BY Advance
<1>2. Reached \in [Sections -> Nat] /\ \A j \in Sections : Reached[j] = Upto(j)
  BY <1>1 DEF Reached
<1>3. Sections' = Sections
  BY SameOutput
<1>4. Reached' = [j \in Sections |-> Upto(j)']
  BY <1>3 DEF Reached
<1>5. next[i] > Len(Rels(i)) => Reached' = Reached
  <2> SUFFICES ASSUME next[i] > Len(Rels(i)) PROVE Reached' = Reached
    OBVIOUS
  <2>1. \A j \in Sections : Upto(j)' = Upto(j)
    BY <1>1
  <2> QED BY <1>4, <2>1 DEF Reached
<1>6. next[i] <= Len(Rels(i)) => Reached' = [Reached EXCEPT ![i] = next[i]]
  <2> SUFFICES ASSUME next[i] <= Len(Rels(i)) PROVE Reached' = [Reached EXCEPT ![i] = next[i]]
    OBVIOUS
  <2>1. \A j \in Sections : Upto(j)' = IF j = i THEN next[i] ELSE Reached[j]
    BY <1>1, <1>2
  <2>2. [Reached EXCEPT ![i] = next[i]] = [j \in Sections |-> IF j = i THEN next[i] ELSE Reached[j]]
    BY <1>2
  <2> QED BY <1>4, <2>1, <2>2
<1> QED BY <1>1, <1>2, <1>5, <1>6

(* The sizes are what the scanned relocations reserve. *)
LEMMA SizesStep ==
  ASSUME prog \in Programs, prog' = prog, next \in [Sections -> Nat \ {0}], NEW i \in Sections,
         next' = [next EXCEPT ![i] = next[i] + 1], NEW k \in 1 .. Len(Rels(i)), k = next[i],
         SizesOk, Grown(sizes', sizes, prog.sections[i].file, ReservedOf(i, k))
  PROVE  SizesOk'
<1>1. PICK r \in [Sections -> Nat] : r = Reached
  BY ReachedFacts
<1>2. (\A j \in Sections : r[j] \in 0 .. Len(Rels(j))) /\ r[i] = k - 1
  <2>1. next[i] <= Len(Rels(i))
    BY SectionFacts
  <2> QED BY <1>1, <2>1, ReachedFacts
<1>3. PICK q : q = [r EXCEPT ![i] = k]
  OBVIOUS
<1>4. Reached' = q
  <2>1. next[i] <= Len(Rels(i))
    BY SectionFacts
  <2> QED BY <1>1, <1>3, <2>1, ReachedFacts
<1>5. Files' = Files
  BY SameOutput
<1>6. ASSUME NEW g \in Files, NEW p \in Parts PROVE sizes'[g][p] = Sum(TotalsOf(g, p, q))
  <2>1. sizes[g][p] = Sum(TotalsOf(g, p, r))
    BY <1>1 DEF SizesOk
  <2>2. sizes'[g][p] = sizes[g][p] + Share(g, i, k, p)
    BY ReservedOfType DEF Grown, Share
  <2>3. Sum(TotalsOf(g, p, q)) = Sum(TotalsOf(g, p, r)) + Share(g, i, k, p)
    <3>1. r \in [Sections -> Nat] /\ (\A j \in Sections : r[j] \in 0 .. Len(Rels(j)))
      BY <1>2
    <3>2. r[i] = k - 1
      BY <1>2
    <3>3. q \in [Sections -> Nat] /\ q[i] = k /\ (\A j \in Sections : j # i => q[j] = r[j])
      <4>1. k \in Nat
        BY SectionFacts
      <4> QED BY <1>3, <4>1
    <3> QED BY <3>1, <3>2, <3>3, TotalsGrow, ZenonT(60)
  <2> QED BY <2>1, <2>2, <2>3
<1>7. \A g \in Files : \A p \in Parts : sizes'[g][p] = Sum(TotalsOf(g, p, Reached))'
  <2> SUFFICES ASSUME NEW g \in Files, NEW p \in Parts PROVE sizes'[g][p] = Sum(TotalsOf(g, p, Reached))'
    OBVIOUS
  <2>1. TotalsOf(g, p, q)' = TotalsOf(g, p, q)
    BY SameTotals
  <2>2. Sum(TotalsOf(g, p, q))' = Sum(TotalsOf(g, p, q))
    BY <2>1
  <2> QED BY <1>4, <1>6, <2>2
<1> QED BY <1>5, <1>7 DEF SizesOk, Grown

(* The run of the scanned section goes on as the table of runs says; those *)
(* of the other sections are left alone.                                   *)
LEMMA RunsStep ==
  ASSUME prog \in Programs, prog' = prog, next \in [Sections -> Nat \ {0}], NEW i \in Sections,
         next' = [next EXCEPT ![i] = next[i] + 1], NEW k \in 1 .. Len(Rels(i)), k = next[i],
         RunsOk, RunGoesOn(i, k)
  PROVE  RunsOk'
<1>1. Sections' = Sections /\ \A j : RunOf(j)' = RunOf(j)
  BY SameOutput, SameTables
<1>2. next[i] <= Len(Rels(i))
  BY SectionFacts
<1>3. Upto(i)' = k /\ \A j \in Sections : j # i => Upto(j)' = Upto(j)
  BY <1>2, Advance
<1>4. runs' = [j \in Sections |-> IF j = i THEN RunOf(i)[k] ELSE RunOf(j)[Upto(j)]]
  BY DEF RunsOk, RunGoesOn
<1>5. \A j \in Sections : (IF j = i THEN RunOf(i)[k] ELSE RunOf(j)[Upto(j)]) = (RunOf(j)[Upto(j)])'
  BY <1>1, <1>3
<1>6. (RunsOk)' <=> runs' = [j \in Sections |-> (RunOf(j)[Upto(j)])']
  BY <1>1 DEF RunsOk
<1> QED BY <1>4, <1>5, <1>6

(* What the scan has of a relocation when it comes to it. *)
LEMMA ScanComesTo ==
  ASSUME prog \in Programs, SymbolsOk, Positions, RunsOk, SizesOk, NEW i \in Sections, NEW k, k = next[i],
         k <= Len(Rels(i)), i \notin skip
  PROVE  At(i, k)
<1>1. next \in [Sections -> Nat \ {0}] /\ k \in Nat \ {0} /\ Len(Rels(i)) \in Nat
  BY SectionFacts DEF Positions
<1>2. k \in 1 .. Len(Rels(i)) /\ Upto(i) = k - 1
  BY <1>1 DEF Upto
<1>3. LiveOf(i)[k]
  BY DEF Positions
<1>4. runs \in [Sections -> Run] /\ runs[i] = RunOf(i)[k - 1]
  <2>1. ASSUME NEW j \in Sections PROVE RunOf(j)[Upto(j)] \in Run
    <3>1. PICK a \in Nat, b \in Nat \ {0} : a = Len(Rels(j)) /\ b = next[j]
      BY <1>1, SectionFacts
    <3>2. Upto(j) \in 0 .. a
      BY <3>1 DEF Upto
    <3>3. RunOf(j) \in [0 .. a -> Run]
      BY <3>1, RunFacts
    <3> QED BY <3>2, <3>3
  <2> QED BY <1>2, <2>1 DEF RunsOk
<1>5. Rels(i)[k].symbol \in Symbols
  BY <1>2, RelocationFacts
<1> QED BY <1>2, <1>3, <1>4, <1>5 DEF At, SymbolsOk, SizesOk

(* A step of the scan. *)
LEMMA ScanStep ==
  ASSUME prog \in Programs, SymbolsOk, AllSatisfied, Positions, RunsOk, SizesOk, NEW i \in Sections, Scan(i)
  PROVE  \/ phase' = "failed" /\ failure' = "user" /\ prog' = prog
         \/ /\ phase' = phase /\ failure' = failure /\ prog' = prog
            /\ SymbolsOk' /\ AllSatisfied' /\ Positions' /\ RunsOk' /\ SizesOk'
<1>1. PICK k : k = next[i]
  OBVIOUS
<1>2. k <= Len(Rels(i)) /\ i \notin skip
  BY <1>1 DEF Scan, Rels
<1>3. At(i, k)
  BY <1>1, <1>2, ScanComesTo
<1>4. /\ prog' = prog /\ phase = "scan"
      /\ next' = [next EXCEPT ![i] = k + 1]
      /\ skip' = IF Skips(i, k) THEN skip \cup {i} ELSE skip
      /\ tlsld => tlsld'
      /\ (phase' = "failed" /\ failure' = "user") \/ Done(i, k)
  BY <1>1, <1>3, ScanRelocation
<1>5. CASE phase' = "failed" /\ failure' = "user"
  BY <1>4, <1>5
<1>6. CASE Done(i, k)
  <2>1. PICK s : s = Rels(i)[k].symbol
    OBVIOUS
  <2>2. k \in 1 .. Len(Rels(i)) /\ next \in [Sections -> Nat \ {0}] /\ s \in Symbols
    <3>1. k \in 1 .. Len(Rels(i))
      BY <1>3 DEF At
    <3> QED BY <2>1, <3>1, RelocationFacts DEF Positions
  <2>3. PICK x \in SUBSET ResolutionFlags :
          /\ flags' = [flags EXCEPT ![s] = flags[s] \cup x]
          /\ FlagsOk(s, flags[s] \cup x) /\ Satisfied(i, k, flags[s] \cup x, tlsld')
    BY <1>6, <2>1 DEF Done, FlagsAdded
  <2>4. /\ flags' \in [Symbols -> SUBSET (V \cup ResolutionFlags)]
        /\ \A t \in Symbols : FlagsOk(t, flags'[t])
        /\ flags'[s] = flags[s] \cup x
        /\ \A j \in Sections : \A m \in 1 .. Len(Rels(j)) :
             m < next[j] /\ LiveOf(j)[m] /\ Rels(j)[m].symbol \in Symbols
               => Satisfied(j, m, flags'[Rels(j)[m].symbol], tlsld')
    BY <1>4, <2>2, <2>3, FlagsGrow
  <2>5. SymbolsOk'
    <3>1. \A t \in Symbols : FlagsOk(t, flags[t])'
      <4> SUFFICES ASSUME NEW t \in Symbols PROVE FlagsOk(t, flags[t])'
        OBVIOUS
      <4>1. PICK f : f = flags'[t]
        OBVIOUS
      <4>2. FlagsOk(t, f)'
        BY <1>4, <2>4, <4>1, SameFlagsOk
      <4> QED BY <4>1, <4>2
    <3>2. Symbols' = Symbols
      BY <1>4, SameOutput
    <3>3. copies' \subseteq Symbols
      <4>1. copies' \subseteq copies \cup {s}
        BY <1>1, <2>1 DEF Scan, Rels
      <4> QED BY <2>2, <4>1 DEF SymbolsOk
    <3> QED BY <2>4, <3>1, <3>2, <3>3 DEF SymbolsOk
  <2>6. AllSatisfied'
    <3> SUFFICES ASSUME NEW j \in Sections', NEW m \in (1 .. Len(Rels(j)))', m < next'[j], LiveOf(j)'[m]
                 PROVE  Satisfied(j, m, flags[Rels(j)[m].symbol], tlsld)'
      BY DEF AllSatisfied
    <3>1. j \in Sections /\ Rels(j)' = Rels(j) /\ LiveOf(j)' = LiveOf(j)
      BY <1>4, SameOutput, SameRels, SameTables
    <3>2. m \in 1 .. Len(Rels(j)) /\ Rels(j)[m].symbol \in Symbols
      <4>1. m \in 1 .. Len(Rels(j))
        BY <3>1
      <4> QED BY <3>1, <4>1, RelocationFacts
    <3>3. PICK f, tls : f = flags'[Rels(j)[m].symbol] /\ tls = tlsld'
      OBVIOUS
    <3>4. Satisfied(j, m, f, tls)
      <4>1. CASE m < next[j]
        BY <2>4, <3>1, <3>2, <3>3, <4>1
      <4>2. CASE ~(m < next[j])
        <5>1. next[j] \in Nat /\ m \in Nat
          BY <2>2, <3>1, <3>2, SectionFacts
        <5>2. j = i /\ m = k
          BY <1>1, <1>4, <2>2, <3>1, <4>2, <5>1
        <5> QED BY <2>1, <2>3, <2>4, <3>3, <5>2
      <4> QED BY <4>1, <4>2
    <3>5. Satisfied(j, m, f, tls)'
      BY <1>4, <3>4, SameSatisfied
    <3> QED BY <3>1, <3>3, <3>5
  <2>7. next' = [next EXCEPT ![i] = next[i] + 1]
    BY <1>1, <1>4
  <2>8. Positions'
    <3>1. skip' \subseteq Sections /\ \A j \in Sections : j # i => (j \in skip' <=> j \in skip)
      BY <1>4 DEF Positions
    <3>2. ASSUME NEW n \in Nat, n = Len(Rels(i)), next[i] + 1 <= n
          PROVE  i \in skip' <=> ~LiveOf(i)[next[i] + 1]
      <4>1. LiveOf(i)[k] /\ k \in 1 .. n /\ k + 1 <= n
        BY <1>1, <1>3, <2>2, <3>2 DEF At
      <4>2. LiveOf(i)[k + 1] <=> ~(LiveOf(i)[k] /\ Skips(i, k))
        BY <3>2, <4>1, LiveFacts
      <4> QED BY <1>1, <1>2, <1>4, <4>1, <4>2
    <3> QED BY <1>4, <2>7, <3>1, <3>2, PositionsStep
  <2>9. RunsOk'
    BY <1>1, <1>4, <1>6, <2>2, <2>7, RunsStep DEF Done
  <2>10. SizesOk'
    BY <1>1, <1>4, <1>6, <2>2, <2>7, SizesStep DEF Done
  <2> QED BY <1>4, <1>6, <2>5, <2>6, <2>8, <2>9, <2>10 DEF Done
<1> QED BY <1>4, <1>5, <1>6

(* A relocation that is skipped. *)
LEMMA SkipStep ==
  ASSUME prog \in Programs, SymbolsOk, AllSatisfied, Positions, RunsOk, SizesOk, NEW i \in Sections, SkipNext(i)
  PROVE  /\ phase' = phase /\ failure' = failure /\ prog' = prog
         /\ SymbolsOk' /\ AllSatisfied' /\ Positions' /\ RunsOk' /\ SizesOk'
<1>1. /\ prog' = prog /\ phase' = phase /\ failure' = failure /\ runs' = runs /\ flags' = flags
      /\ tlsld' = tlsld /\ copies' = copies /\ sizes' = sizes
      /\ i \in skip /\ skip' = skip \ {i} /\ next' = [next EXCEPT ![i] = next[i] + 1]
  BY DEF SkipNext
<1>2. PICK k \in Nat \ {0} : k = next[i]
  BY DEF Positions
<1>3. PICK n \in Nat : n = Len(Rels(i))
  BY SectionFacts
<1>4. next \in [Sections -> Nat \ {0}]
  BY DEF Positions
<1>5. k <= n => k \in 1 .. n /\ ~LiveOf(i)[k]
  BY <1>1, <1>2, <1>3 DEF Positions
<1>6. Sections' = Sections /\ Symbols' = Symbols /\ Files' = Files
  BY <1>1, SameOutput
<1>7. SymbolsOk'
  <2>1. \A t \in Symbols : FlagsOk(t, flags[t])'
    <3> SUFFICES ASSUME NEW t \in Symbols PROVE FlagsOk(t, flags[t])'
      OBVIOUS
    <3>1. PICK f : f = flags[t]
      OBVIOUS
    <3>2. FlagsOk(t, f)
      BY <3>1 DEF SymbolsOk
    <3>3. FlagsOk(t, f)'
      BY <1>1, <3>2, SameFlagsOk
    <3> QED BY <1>1, <3>1, <3>3
  <2> QED BY <1>1, <1>6, <2>1 DEF SymbolsOk
<1>8. AllSatisfied'
  <2> SUFFICES ASSUME NEW j \in Sections', NEW m \in (1 .. Len(Rels(j)))', m < next'[j], LiveOf(j)'[m]
               PROVE  Satisfied(j, m, flags[Rels(j)[m].symbol], tlsld)'
    BY DEF AllSatisfied
  <2>1. j \in Sections /\ Rels(j)' = Rels(j) /\ LiveOf(j)' = LiveOf(j)
    BY <1>1, SameOutput, SameRels, SameTables
  <2>2. m \in 1 .. Len(Rels(j)) /\ LiveOf(j)[m]
    BY <2>1
  <2>3. PICK f, tls : f = flags[Rels(j)[m].symbol] /\ tls = tlsld
    OBVIOUS
  <2>4. m < next[j]
    <3> SUFFICES ASSUME ~(m < next[j]) PROVE FALSE
      OBVIOUS
    <3>1. next[j] \in Nat /\ m \in Nat
      BY <1>4, <2>1, <2>2, SectionFacts
    <3>2. j = i /\ m = k
      BY <1>1, <1>2, <1>4, <2>1, <3>1
    <3> QED BY <1>3, <1>5, <2>2, <3>2
  <2>5. Satisfied(j, m, f, tls)
    BY <2>1, <2>2, <2>3, <2>4 DEF AllSatisfied
  <2>6. Satisfied(j, m, f, tls)'
    BY <1>1, <2>5, SameSatisfied
  <2> QED BY <1>1, <2>1, <2>3, <2>6
<1>9. Positions'
  <2>1. skip' \subseteq Sections /\ \A j \in Sections : j # i => (j \in skip' <=> j \in skip)
    BY <1>1 DEF Positions
  <2>2. ASSUME NEW m \in Nat, m = Len(Rels(i)), next[i] + 1 <= m
        PROVE  i \in skip' <=> ~LiveOf(i)[next[i] + 1]
    <3>1. k \in 1 .. m /\ k + 1 <= m /\ ~LiveOf(i)[k]
      BY <1>2, <1>3, <1>5, <2>2
    <3>2. LiveOf(i)[k + 1] <=> ~(LiveOf(i)[k] /\ Skips(i, k))
      BY <2>2, <3>1, LiveFacts
    <3> QED BY <1>1, <1>2, <3>1, <3>2
  <2> QED BY <1>1, <2>1, <2>2, PositionsStep
<1>10. CASE k <= n
  <2>1. k \in 1 .. Len(Rels(i))
    BY <1>3, <1>5, <1>10
  <2>2. RunGoesOn(i, k)
    <3>1. RunOf(i)[k] = RunOf(i)[k - 1]
      BY <1>3, <1>5, <1>10, <2>1, RunFacts
    <3>2. runs = [j \in Sections |-> RunOf(j)[Upto(j)]] /\ Upto(i) = k - 1
      BY <1>2, <1>3, <1>10 DEF RunsOk, Upto
    <3>3. runs = [runs EXCEPT ![i] = RunOf(i)[k]]
      BY <3>1, <3>2
    <3> QED BY <1>1, <3>3 DEF RunGoesOn
  <2>3. Grown(sizes, sizes, prog.sections[i].file, ReservedOf(i, k))
    <3>1. \A p \in Parts : ReservedOf(i, k)[p] = 0
      BY <1>5, <1>10, ReservedOfType DEF Reserved
    <3>2. prog.sections[i].file \in Files /\ sizes \in [Files -> [Parts -> Nat]]
      BY SectionFacts DEF SizesOk
    <3> QED BY <3>1, <3>2, NothingGrows, ReservedOfType
  <2>4. RunsOk'
    BY <1>1, <1>2, <1>4, <2>1, <2>2, RunsStep
  <2>5. SizesOk'
    BY <1>1, <1>2, <1>4, <2>1, <2>3, SizesStep
  <2> QED BY <1>1, <1>7, <1>8, <1>9, <2>4, <2>5
<1>11. CASE k > n
  <2>1. Reached' = Reached /\ \A j \in Sections : Upto(j)' = Upto(j)
    BY <1>1, <1>2, <1>3, <1>4, <1>11, ReachedFacts, Advance
  <2>2. RunsOk'
    <3>1. \A j \in Sections : (RunOf(j)[Upto(j)])' = RunOf(j)[Upto(j)]
      BY <1>1, <2>1, SameTables
    <3>2. RunsOk' <=> runs' = [j \in Sections |-> (RunOf(j)[Upto(j)])']
      BY <1>6 DEF RunsOk
    <3>3. runs = [j \in Sections |-> RunOf(j)[Upto(j)]]
      BY DEF RunsOk
    <3> QED BY <1>1, <3>1, <3>2, <3>3
  <2>3. SizesOk'
    <3>1. PICK r : r = Reached
      OBVIOUS
    <3>2. ASSUME NEW g \in Files, NEW p \in Parts PROVE sizes'[g][p] = Sum(TotalsOf(g, p, Reached))'
      <4>1. TotalsOf(g, p, r)' = TotalsOf(g, p, r)
        BY <1>1, SameTotals
      <4>2. sizes[g][p] = Sum(TotalsOf(g, p, r))
        BY <3>1 DEF SizesOk
      <4>3. Reached' = r
        BY <2>1, <3>1
      <4> QED BY <1>1, <4>1, <4>2, <4>3
    <3> QED BY <1>1, <1>6, <3>2 DEF SizesOk
  <2> QED BY <1>1, <1>7, <1>8, <1>9, <2>2, <2>3
<1> QED BY <1>10, <1>11

(* Nothing that the scan knows is disturbed by other steps. *)
LEMMA ScanKept ==
  ASSUME prog \in Programs, Positions, RunsOk, SizesOk, UNCHANGED <<prog, next, skip, runs, sizes>>
  PROVE  Positions' /\ RunsOk' /\ SizesOk'
<1>1. Sections' = Sections /\ Files' = Files
  BY SameOutput
<1>2. \A j : Rels(j)' = Rels(j) /\ LiveOf(j)' = LiveOf(j) /\ RunOf(j)' = RunOf(j)
  BY SameRels, SameTables
<1>3. \A j : Upto(j)' = Upto(j)
  BY <1>2 DEF Upto
<1>4. Positions'
  BY <1>1, <1>2 DEF Positions
<1>5. RunsOk'
  BY <1>1, <1>2, <1>3 DEF RunsOk
<1>6. SizesOk'
  <2>1. PICK r : r = Reached
    OBVIOUS
  <2>2. Reached' = r
    BY <1>1, <1>3, <2>1 DEF Reached
  <2>3. ASSUME NEW g \in Files, NEW p \in Parts PROVE sizes'[g][p] = Sum(TotalsOf(g, p, Reached))'
    <3>1. TotalsOf(g, p, r)' = TotalsOf(g, p, r)
      BY SameTotals
    <3>2. sizes[g][p] = Sum(TotalsOf(g, p, r))
      BY <2>1 DEF SizesOk
    <3> QED BY <2>2, <3>1, <3>2
  <2> QED BY <1>1, <2>3 DEF SizesOk
<1> QED BY <1>4, <1>5, <1>6

-----------------------------------------------------------------------------
(* What the writer takes for a symbol is what was allocated for it.        *)

LEMMA TakesOne ==
  ASSUME NEW p, NEW t \in Entry
  PROVE  <<t>> \in Seq(Entry) /\ NumTaken(<<t>>, p) = IF t.part = p THEN 1 ELSE 0
<1>1. NumTaken(<<t>>, p) = Count(t.part = p)
  BY NumTakenFew
<1> QED BY <1>1 DEF Count

(* Two entries ... *)
LEMMA TakesTwo ==
  ASSUME NEW p, NEW t \in Entry, NEW u \in Entry
  PROVE  <<t, u>> \in Seq(Entry)
         /\ NumTaken(<<t, u>>, p) = (IF t.part = p THEN 1 ELSE 0) + (IF u.part = p THEN 1 ELSE 0)
BY NumTakenFew DEF Count

(* ... three ... *)
LEMMA TakesThree ==
  ASSUME NEW p, NEW t \in Entry, NEW u \in Entry, NEW w \in Entry
  PROVE  <<t, u, w>> \in Seq(Entry)
         /\ NumTaken(<<t, u, w>>, p) =
              ((IF t.part = p THEN 1 ELSE 0) + (IF u.part = p THEN 1 ELSE 0)) + (IF w.part = p THEN 1 ELSE 0)
<1>1. NumTaken(<<t, u, w>>, p) = (Count(t.part = p) + Count(u.part = p)) + Count(w.part = p)
  BY NumTakenFew
<1>2. <<t, u, w>> \in Seq(Entry)
  OBVIOUS
<1> QED BY <1>1, <1>2 DEF Count

(* ... and none. *)
LEMMA TakesNone ==
  ASSUME NEW p
  PROVE  <<>> \in Seq(Entry) /\ NumTaken(<<>>, p) = 0
BY NumTakenFew

(* A dynamic relocation is an entry of RELA_GENERAL ... *)
LEMMA RelaType ==
  ASSUME NEW s \in Nat \cup {None}
  PROVE  Rela(s) \in Entry /\ Rela(s).part = "RELA_GENERAL"
<1>1. "RELA_GENERAL" \in Parts \cup {"done"} /\ "rela" \in Whats
  BY DEF Parts, Whats
<1> QED BY <1>1, TakeType DEF Rela

(* ... and a slot one of the GOT. *)
LEMMA GotType ==
  ASSUME NEW s \in Nat \cup {None}, NEW what \in Whats
  PROVE  Take("GOT", what, s) \in Entry /\ Take("GOT", what, s).part = "GOT"
<1>1. "GOT" \in Parts \cup {"done"}
  BY DEF Parts
<1> QED BY <1>1, TakeType

(* The entries of a thread-local symbol. *)
LEMMA OffsetTakes ==
  ASSUME NEW s \in Nat, NEW f, NEW p
  PROVE  /\ ProcessTlsOffset(s, f) \in Seq(Entry)
         /\ NumTaken(ProcessTlsOffset(s, f), p) =
              (IF p = "GOT" THEN 1 ELSE 0)
              + (IF p = "RELA_GENERAL" /\ (HasDynamicSymbol(f) \/ (~IsExecutable /\ prog.symbols[s].kind # "undefined"))
                 THEN 1 ELSE 0)
<1>1. Rela(s) \in Entry /\ Rela(s).part = "RELA_GENERAL"
  BY RelaType
<1>2. "tpoff symbol" \in Whats /\ "tpoff" \in Whats /\ "zero" \in Whats
  BY DEF Whats
<1>3. PICK a : a = Take("GOT", "tpoff symbol", s)
  OBVIOUS
<1>4. PICK b : b = Take("GOT", "tpoff", s)
  OBVIOUS
<1>5. PICK r : r = Rela(s)
  OBVIOUS
<1>6. a \in Entry /\ a.part = "GOT" /\ b \in Entry /\ b.part = "GOT" /\ r \in Entry /\ r.part = "RELA_GENERAL"
  BY <1>1, <1>2, <1>3, <1>4, <1>5, GotType
<1>7. CASE HasDynamicSymbol(f)
  <2>1. ProcessTlsOffset(s, f) = <<a, r>>
    BY <1>3, <1>5, <1>7 DEF ProcessTlsOffset
  <2> QED BY <1>6, <1>7, <2>1, TakesTwo
<1>8. CASE ~HasDynamicSymbol(f) /\ prog.symbols[s].kind = "undefined"
  <2>1. PICK z : z = Take("GOT", "zero", s)
    OBVIOUS
  <2>2. z \in Entry /\ z.part = "GOT"
    BY <1>2, <2>1, GotType
  <2>3. ProcessTlsOffset(s, f) = <<z>>
    BY <1>8, <2>1 DEF ProcessTlsOffset
  <2> QED BY <1>8, <2>2, <2>3, TakesOne
<1>9. CASE ~HasDynamicSymbol(f) /\ prog.symbols[s].kind # "undefined" /\ IsExecutable
  <2>1. ProcessTlsOffset(s, f) = <<b>>
    BY <1>4, <1>9 DEF ProcessTlsOffset
  <2> QED BY <1>6, <1>9, <2>1, TakesOne
<1>10. CASE ~HasDynamicSymbol(f) /\ prog.symbols[s].kind # "undefined" /\ ~IsExecutable
  <2>1. ProcessTlsOffset(s, f) = <<b, r>>
    BY <1>4, <1>5, <1>10 DEF ProcessTlsOffset
  <2> QED BY <1>6, <1>10, <2>1, TakesTwo
<1> QED BY <1>7, <1>8, <1>9, <1>10

(* A module and an offset: two slots, and a relocation for each that the   *)
(* linker does not know.                                                   *)
LEMMA ModuleTakes ==
  ASSUME NEW s \in Nat, NEW f, NEW p
  PROVE  /\ ProcessTlsModAndOffset(s, f) \in Seq(Entry)
         /\ NumTaken(ProcessTlsModAndOffset(s, f), p) =
              ((IF p = "GOT" THEN 2 ELSE 0)
               + (IF p = "RELA_GENERAL" /\ ~(IsExecutable /\ "DYNAMIC" \notin f) THEN 1 ELSE 0))
              + (IF p = "RELA_GENERAL" /\ HasDynamicIndex(s) /\ IsInterposable(f) THEN 1 ELSE 0)
<1>1. {"this module", "module", "dtpoff symbol", "zero", "dtpoff"} \subseteq Whats
  BY DEF Whats
<1>2. PICK r : r = Rela(s)
  OBVIOUS
<1>3. PICK a : a = Take("GOT", "this module", s)
  OBVIOUS
<1>4. PICK b : b = Take("GOT", "module", s)
  OBVIOUS
<1>5. PICK c : c = Take("GOT", "dtpoff symbol", s)
  OBVIOUS
<1>6. PICK d : d = Take("GOT", "zero", s)
  OBVIOUS
<1>7. PICK e : e = Take("GOT", "dtpoff", s)
  OBVIOUS
<1>8. r \in Entry /\ r.part = "RELA_GENERAL"
  BY <1>2, RelaType
<1>9. a \in Entry /\ a.part = "GOT" /\ b \in Entry /\ b.part = "GOT" /\ c \in Entry /\ c.part = "GOT"
  BY <1>1, <1>3, <1>4, <1>5, GotType
<1>10. d \in Entry /\ d.part = "GOT" /\ e \in Entry /\ e.part = "GOT"
  BY <1>1, <1>6, <1>7, GotType
<1>11. PICK x : x = IF IsExecutable /\ "DYNAMIC" \notin f THEN <<a>> ELSE <<b, r>>
  OBVIOUS
<1>12. PICK y : y = IF HasDynamicIndex(s) /\ IsInterposable(f) THEN <<c, r>>
                    ELSE IF HasDynamicIndex(s) THEN <<d>> ELSE <<e>>
  OBVIOUS
<1>13. ProcessTlsModAndOffset(s, f) = x \o y
  <2>1. (CASE HasDynamicIndex(s) /\ IsInterposable(f) -> <<c, r>>
          [] HasDynamicIndex(s) /\ ~IsInterposable(f) -> <<d>>
          [] ~HasDynamicIndex(s) -> <<e>>) = y
    BY <1>12
  <2> QED BY <1>2, <1>3, <1>4, <1>5, <1>6, <1>7, <1>11, <2>1 DEF ProcessTlsModAndOffset
<1>14. /\ x \in Seq(Entry)
       /\ NumTaken(x, p) = (IF p = "GOT" THEN 1 ELSE 0)
                           + (IF p = "RELA_GENERAL" /\ ~(IsExecutable /\ "DYNAMIC" \notin f) THEN 1 ELSE 0)
  <2>1. CASE IsExecutable /\ "DYNAMIC" \notin f
    BY <1>9, <1>11, <2>1, TakesOne
  <2>2. CASE ~(IsExecutable /\ "DYNAMIC" \notin f)
    BY <1>8, <1>9, <1>11, <2>2, TakesTwo
  <2> QED BY <2>1, <2>2
<1>15. /\ y \in Seq(Entry)
       /\ NumTaken(y, p) = (IF p = "GOT" THEN 1 ELSE 0)
                           + (IF p = "RELA_GENERAL" /\ HasDynamicIndex(s) /\ IsInterposable(f) THEN 1 ELSE 0)
  <2>1. CASE HasDynamicIndex(s) /\ IsInterposable(f)
    BY <1>8, <1>9, <1>12, <2>1, TakesTwo
  <2>2. CASE ~(HasDynamicIndex(s) /\ IsInterposable(f)) /\ HasDynamicIndex(s)
    BY <1>10, <1>12, <2>2, TakesOne
  <2>3. CASE ~HasDynamicIndex(s)
    BY <1>10, <1>12, <2>3, TakesOne
  <2> QED BY <2>1, <2>2, <2>3
<1>16. x \o y \in Seq(Entry) /\ NumTaken(x \o y, p) = NumTaken(x, p) + NumTaken(y, p)
  BY <1>14, <1>15, NumTakenConcat
<1>17. PICK g \in {0, 1} : g = IF p = "GOT" THEN 1 ELSE 0
  OBVIOUS
<1>18. (IF p = "GOT" THEN 2 ELSE 0) = g + g
  BY <1>17
<1> QED BY <1>13, <1>14, <1>15, <1>16, <1>17, <1>18

(* A descriptor: two slots and one relocation. *)
LEMMA DescriptorTakes ==
  ASSUME NEW s \in Nat, NEW p
  PROVE  /\ ProcessTlsDescriptor(s) \in Seq(Entry)
         /\ NumTaken(ProcessTlsDescriptor(s), p) =
              (IF p = "GOT" THEN 2 ELSE 0) + (IF p = "RELA_GENERAL" THEN 1 ELSE 0)
<1>1. PICK r : r = Rela(s)
  OBVIOUS
<1>2. PICK a : a = Take("GOT", "descriptor", s)
  OBVIOUS
<1>3. "descriptor" \in Whats
  BY DEF Whats
<1>4. a \in Entry /\ a.part = "GOT" /\ r \in Entry /\ r.part = "RELA_GENERAL"
  BY <1>1, <1>2, <1>3, GotType, RelaType
<1>5. ProcessTlsDescriptor(s) = <<a, a, r>>
  BY <1>1, <1>2 DEF ProcessTlsDescriptor
<1> QED BY <1>4, <1>5, TakesThree

(* The part of a relative relocation, packed or not. *)
RelativePart == IF prog.relr THEN "RELR" ELSE "RELA_RELATIVE"

(* A relative entry is in RELR if the output has one. *)
LEMMA RelativeEntryType ==
  ASSUME NEW s \in Nat
  PROVE  RelativeEntry(s) \in Entry /\ RelativeEntry(s).part = RelativePart
<1>1. RelativePart \in Parts \cup {"done"} /\ "relative" \in Whats
  BY DEF Parts, Whats, RelativePart
<1>2. RelativeEntry(s) = Take(RelativePart, "relative", s)
  BY DEF RelativeEntry, RelativePart
<1> QED BY <1>1, <1>2, TakeType

(* The entries of a symbol whose address is in the GOT. *)
BySymbol(f) == "DYNAMIC" \in f \/ ("EXPORT_DYNAMIC" \in f /\ IsInterposable(f) /\ "IFUNC" \notin f)
ByResolver(f) == "DYNAMIC" \notin f /\ "IFUNC" \in f
ByAddress(f) == ~BySymbol(f) /\ ~ByResolver(f) /\ ~IsGotRelr(f) /\ HasLinkTimeAddress(f) /\ IsPositionIndependent

(* One slot, and a relocation by symbol, by resolver or by address. *)
LEMMA AddressTakes ==
  ASSUME NEW s \in Nat, NEW f, NEW p
  PROVE  /\ ProcessAddress(s, f) \in Seq(Entry)
         /\ NumTaken(ProcessAddress(s, f), p) =
              (IF p = (IF IsGotRelr(f) THEN "GOT_RELR" ELSE "GOT") THEN 1 ELSE 0)
              + (IF \/ p = "RELA_GENERAL" /\ BySymbol(f)
                    \/ p = "RELA_PLT" /\ ByResolver(f)
                    \/ p = RelativePart /\ ByAddress(f)
                 THEN 1 ELSE 0)
<1>1. PICK part : part = IF IsGotRelr(f) THEN "GOT_RELR" ELSE "GOT"
  OBVIOUS
<1>2. part \in Parts \cup {"done"} /\ {"symbol", "ifunc", "address", "irelative"} \subseteq Whats /\ "RELA_PLT" \in Parts
  BY <1>1 DEF Parts, Whats
<1>3. PICK a : a = Take(part, "symbol", s)
  OBVIOUS
<1>4. PICK b : b = Take(part, "ifunc", s)
  OBVIOUS
<1>5. PICK c : c = Take(part, "address", s)
  OBVIOUS
<1>6. PICK r : r = Rela(s)
  OBVIOUS
<1>7. PICK i : i = Take("RELA_PLT", "irelative", s)
  OBVIOUS
<1>8. PICK e : e = RelativeEntry(s)
  OBVIOUS
<1>9. a \in Entry /\ a.part = part /\ b \in Entry /\ b.part = part /\ c \in Entry /\ c.part = part
  BY <1>2, <1>3, <1>4, <1>5, TakeType
<1>10. r \in Entry /\ r.part = "RELA_GENERAL" /\ i \in Entry /\ i.part = "RELA_PLT"
  BY <1>2, <1>6, <1>7, TakeType, RelaType
<1>11. e \in Entry /\ e.part = RelativePart
  BY <1>8, RelativeEntryType
<1>12. CASE BySymbol(f)
  <2>1. ProcessAddress(s, f) = <<a, r>>
    BY <1>1, <1>3, <1>6, <1>12 DEF ProcessAddress, BySymbol
  <2>2. ~ByResolver(f) /\ ~ByAddress(f)
    BY <1>12 DEF BySymbol, ByResolver, ByAddress
  <2> QED BY <1>1, <1>9, <1>10, <1>12, <2>1, <2>2, TakesTwo
<1>13. CASE ByResolver(f)
  <2>1. ProcessAddress(s, f) = <<b, i>>
    BY <1>1, <1>4, <1>7, <1>13 DEF ProcessAddress, ByResolver
  <2>2. ~BySymbol(f) /\ ~ByAddress(f)
    BY <1>13 DEF BySymbol, ByResolver, ByAddress
  <2> QED BY <1>1, <1>9, <1>10, <1>13, <2>1, <2>2, TakesTwo
<1>14. CASE ~BySymbol(f) /\ ~ByResolver(f) /\ ByAddress(f)
  <2>1. ProcessAddress(s, f) = <<c, e>>
    BY <1>1, <1>5, <1>8, <1>14 DEF ProcessAddress, BySymbol, ByResolver, ByAddress
  <2> QED BY <1>1, <1>9, <1>11, <1>14, <2>1, TakesTwo
<1>15. CASE ~BySymbol(f) /\ ~ByResolver(f) /\ ~ByAddress(f)
  <2>1. ProcessAddress(s, f) = <<c>>
    BY <1>1, <1>5, <1>15 DEF ProcessAddress, BySymbol, ByResolver, ByAddress
  <2> QED BY <1>1, <1>9, <1>15, <2>1, TakesOne
<1> QED BY <1>12, <1>13, <1>14, <1>15

(* What is allocated, for a thread-local symbol and for another. *)
LEMMA AllocateTls ==
  ASSUME NEW f, NeedsTlsGot(f), "IFUNC_GOT_FOR_ADDRESS" \notin f, NEW p \in Parts
  PROVE  AllocateResolution(f)[p] =
           IF p = "GOT"
           THEN ((IF "GOT_TLS_OFFSET" \in f THEN 1 ELSE 0) + (IF "GOT_TLS_MODULE" \in f THEN 2 ELSE 0))
                + (IF "GOT_TLS_DESCRIPTOR" \in f THEN 2 ELSE 0)
           ELSE IF p = "RELA_GENERAL"
           THEN (((IF "GOT_TLS_OFFSET" \in f /\ (IsInterposable(f) \/ ~IsExecutable) THEN 1 ELSE 0)
                  + (IF "GOT_TLS_MODULE" \in f /\ ~(IsExecutable /\ "DYNAMIC" \notin f) THEN 1 ELSE 0))
                 + (IF "GOT_TLS_MODULE" \in f /\ HasDynamicSymbol(f) THEN 1 ELSE 0))
                + (IF "GOT_TLS_DESCRIPTOR" \in f THEN 1 ELSE 0)
           ELSE 0
<1>1. ~("GOT" \in f /\ ~NeedsTlsGot(f))
  OBVIOUS
<1>2. CASE p = "GOT"
  BY <1>1, <1>2 DEF AllocateResolution, Count
<1>3. CASE p = "RELA_GENERAL"
  BY <1>1, <1>3 DEF AllocateResolution, Count, IsExecutable
<1>4. CASE p \in {"GOT_RELR", "PLT_GOT", "RELA_PLT"}
  BY <1>1, <1>4 DEF AllocateResolution, Count
<1>5. CASE p \in {"RELR", "RELA_RELATIVE"}
  BY <1>1, <1>5 DEF AllocateResolution, Count, RelativeParts, Parts
<1> QED BY <1>2, <1>3, <1>4, <1>5 DEF Parts

(* What is reserved for a symbol whose address is in the GOT is what the   *)
(* writer takes, part by part.                                             *)
LEMMA AllocatePlain ==
  ASSUME NEW f, ~NeedsTlsGot(f), "GOT" \in f, "IFUNC" \in f => "DYNAMIC" \notin f, NEW p \in Parts
  PROVE  AllocateResolution(f)[p] =
           (((IF p = (IF IsGotRelr(f) THEN "GOT_RELR" ELSE "GOT") THEN 1 ELSE 0)
             + (IF \/ p = "RELA_GENERAL" /\ BySymbol(f)
                   \/ p = "RELA_PLT" /\ ByResolver(f)
                   \/ p = RelativePart /\ ByAddress(f)
                THEN 1 ELSE 0))
            + (IF p = "PLT_GOT" /\ "PLT" \in f THEN 1 ELSE 0))
           + (IF /\ "IFUNC_GOT_FOR_ADDRESS" \in f
                 /\ p = "GOT" \/ (p = RelativePart /\ IsPositionIndependent)
              THEN 1 ELSE 0)
<1>1. "GOT" \in f /\ ~NeedsTlsGot(f)
  OBVIOUS
<1>2. /\ "GOT_TLS_OFFSET" \notin f /\ "GOT_TLS_MODULE" \notin f /\ "GOT_TLS_DESCRIPTOR" \notin f
  BY DEF NeedsTlsGot
<1>3. RelativePart \in {"RELR", "RELA_RELATIVE"}
  BY DEF RelativePart
<1>4. /\ BySymbol(f) <=> "IFUNC" \notin f /\ HasDynamicSymbol(f)
      /\ ByResolver(f) <=> "IFUNC" \in f
      /\ ByAddress(f) <=> ~HasDynamicSymbol(f) /\ HasLinkTimeAddress(f) /\ IsPositionIndependent /\ ~IsGotRelr(f)
  BY DEF BySymbol, ByResolver, ByAddress, HasDynamicSymbol, HasLinkTimeAddress
<1>5. CASE p = "GOT_RELR"
  BY <1>1, <1>3, <1>5 DEF AllocateResolution, Count
<1>6. CASE p = "GOT"
  BY <1>1, <1>2, <1>3, <1>6 DEF AllocateResolution, Count
<1>7. CASE p = "PLT_GOT"
  BY <1>1, <1>3, <1>7 DEF AllocateResolution, Count
<1>8. CASE p = "RELA_PLT"
  BY <1>1, <1>3, <1>4, <1>8 DEF AllocateResolution, Count
<1>9. CASE p = "RELA_GENERAL"
  BY <1>1, <1>2, <1>3, <1>4, <1>9 DEF AllocateResolution, Count
<1>10. CASE p \in {"RELR", "RELA_RELATIVE"}
  <2>1. AllocateResolution(f)[p] =
          RelativeParts((IF ByAddress(f) THEN 1 ELSE 0)
                        + (IF "IFUNC_GOT_FOR_ADDRESS" \in f /\ IsPositionIndependent THEN 1 ELSE 0))[p]
    BY <1>1, <1>4, <1>10 DEF AllocateResolution, Count
  <2> QED BY <1>10, <2>1 DEF RelativeParts, RelativePart
<1> QED BY <1>5, <1>6, <1>7, <1>8, <1>9, <1>10 DEF Parts

(* A symbol that needs no entry of the GOT gets nothing. *)
LEMMA AllocateNone ==
  ASSUME NEW f, ~NeedsTlsGot(f), "GOT" \notin f, "IFUNC_GOT_FOR_ADDRESS" \notin f, NEW p \in Parts
  PROVE  AllocateResolution(f)[p] = 0
<1>1. ~("GOT" \in f /\ ~NeedsTlsGot(f))
  OBVIOUS
<1>2. "GOT_TLS_OFFSET" \notin f /\ "GOT_TLS_MODULE" \notin f /\ "GOT_TLS_DESCRIPTOR" \notin f
  BY DEF NeedsTlsGot
<1>3. CASE p \in {"GOT", "GOT_RELR", "PLT_GOT", "RELA_PLT"}
  BY <1>1, <1>2, <1>3 DEF AllocateResolution, Count
<1>4. CASE p = "RELA_GENERAL"
  BY <1>1, <1>2, <1>4 DEF AllocateResolution, Count
<1>5. CASE p \in {"RELR", "RELA_RELATIVE"}
  BY <1>1, <1>5 DEF AllocateResolution, Count, RelativeParts, Parts
<1> QED BY <1>3, <1>4, <1>5 DEF Parts

(* Which symbols have an entry of the GOT. *)
LEMMA GotEntriesFacts ==
  ASSUME NEW f
  PROVE  GotEntries(f) = 0 <=> "PLT" \notin f /\ ~NeedsTlsGot(f) /\ "GOT" \notin f
<1>1. CASE "PLT" \in f
  BY <1>1 DEF GotEntries
<1>2. CASE "PLT" \notin f /\ NeedsTlsGot(f)
  BY <1>2 DEF GotEntries, NeedsTlsGot, Count
<1>3. CASE "PLT" \notin f /\ ~NeedsTlsGot(f)
  BY <1>3 DEF GotEntries, Count
<1> QED BY <1>1, <1>2, <1>3

(* What is known of the flags of a symbol. *)
LEMMA SymbolFlags ==
  ASSUME prog \in Programs, NEW s \in Symbols, NEW f, FlagsOk(s, f)
  PROVE  /\ "IFUNC" \in f => "DYNAMIC" \notin f
         /\ "DYNAMIC" \in f => IsInterposable(f)
         /\ IsExecutable /\ IsInterposable(f) => "DYNAMIC" \in f
         /\ s \in Nat
<1>1. PICK v : v = VF(s)
  OBVIOUS
<1>2. PICK sym : sym = prog.symbols[s]
  OBVIOUS
<1>3. \A x \in V : x \in f <=> x \in v
  BY <1>1 DEF FlagsOk
<1>4. /\ "IFUNC" \in f <=> "IFUNC" \in v
      /\ "DYNAMIC" \in f <=> "DYNAMIC" \in v
      /\ IsInterposable(f) <=> IsInterposable(v)
  BY <1>3 DEF V, IsInterposable
<1>5. /\ "IFUNC" \in v => "DYNAMIC" \notin v
      /\ "DYNAMIC" \in v => IsInterposable(v)
      /\ IsExecutable /\ IsInterposable(v) => "DYNAMIC" \in v
  BY <1>1, <1>2, ValueFacts
<1>6. s \in Nat
  BY ProgramFacts
<1> QED BY <1>4, <1>5, <1>6

(* A thread-local symbol. *)
LEMMA TlsTakes ==
  ASSUME prog \in Programs, NEW s \in Symbols, NEW f, f = flags[s], FlagsOk(s, f), NeedsTlsGot(f),
         got_at[s] # <<>>, NEW p \in Parts
  PROVE  /\ ProcessResolution(s) \in Seq(Entry)
         /\ NumTaken(ProcessResolution(s), p) <= AllocateResolution(f)[p]
         /\ (p = "RELA_GENERAL" => ~UnusedOffset(s)) => NumTaken(ProcessResolution(s), p) = AllocateResolution(f)[p]
<1>1. s \in Nat /\ ("DYNAMIC" \in f => IsInterposable(f)) /\ (IsExecutable /\ IsInterposable(f) => "DYNAMIC" \in f)
  BY SymbolFlags
<1>2. "IFUNC_GOT_FOR_ADDRESS" \notin f
  BY DEF FlagsOk
<1>3. PICK o : o = IF "GOT_TLS_OFFSET" \in f THEN ProcessTlsOffset(s, f) ELSE <<>>
  OBVIOUS
<1>4. PICK m : m = IF "GOT_TLS_MODULE" \in f THEN ProcessTlsModAndOffset(s, f) ELSE <<>>
  OBVIOUS
<1>5. PICK d : d = IF "GOT_TLS_DESCRIPTOR" \in f THEN ProcessTlsDescriptor(s) ELSE <<>>
  OBVIOUS
<1>6. ProcessResolution(s) = (o \o m) \o d
  BY <1>3, <1>4, <1>5 DEF ProcessResolution
<1>7. HasDynamicIndex(s) /\ IsInterposable(f) <=> HasDynamicSymbol(f)
  BY <1>1 DEF HasDynamicIndex, HasDynamicSymbol
<1>8. "GOT_TLS_OFFSET" \in f =>
        (HasDynamicSymbol(f) \/ (~IsExecutable /\ prog.symbols[s].kind # "undefined")
         <=> (IsInterposable(f) \/ ~IsExecutable) /\ ~UnusedOffset(s))
  <2>1. CASE IsExecutable
    <3>1. ~UnusedOffset(s)
      BY <2>1 DEF IsExecutable, UnusedOffset
    <3> QED BY <1>1, <2>1, <3>1 DEF HasDynamicSymbol
  <2>2. CASE ~IsExecutable
    BY <2>2 DEF IsExecutable, UnusedOffset
  <2> QED BY <2>1, <2>2
<1>9. /\ o \in Seq(Entry)
      /\ NumTaken(o, p) =
           (IF "GOT_TLS_OFFSET" \in f /\ p = "GOT" THEN 1 ELSE 0)
           + (IF "GOT_TLS_OFFSET" \in f /\ p = "RELA_GENERAL" /\ (IsInterposable(f) \/ ~IsExecutable)
                 /\ ~UnusedOffset(s) THEN 1 ELSE 0)
  <2>1. CASE "GOT_TLS_OFFSET" \in f
    <3>1. /\ o \in Seq(Entry)
          /\ NumTaken(o, p) =
              (IF p = "GOT" THEN 1 ELSE 0)
              + (IF p = "RELA_GENERAL" /\ (HasDynamicSymbol(f) \/ (~IsExecutable /\ prog.symbols[s].kind # "undefined"))
                 THEN 1 ELSE 0)
      BY <1>1, <1>3, <2>1, OffsetTakes
    <3> QED BY <1>8, <2>1, <3>1
  <2>2. CASE "GOT_TLS_OFFSET" \notin f
    BY <1>3, <2>2, TakesNone
  <2> QED BY <2>1, <2>2
<1>10. /\ m \in Seq(Entry)
       /\ NumTaken(m, p) =
            ((IF "GOT_TLS_MODULE" \in f /\ p = "GOT" THEN 2 ELSE 0)
             + (IF "GOT_TLS_MODULE" \in f /\ p = "RELA_GENERAL" /\ ~(IsExecutable /\ "DYNAMIC" \notin f) THEN 1 ELSE 0))
            + (IF "GOT_TLS_MODULE" \in f /\ p = "RELA_GENERAL" /\ HasDynamicSymbol(f) THEN 1 ELSE 0)
  <2>1. CASE "GOT_TLS_MODULE" \in f
    <3>1. /\ m \in Seq(Entry)
          /\ NumTaken(m, p) =
              ((IF p = "GOT" THEN 2 ELSE 0)
               + (IF p = "RELA_GENERAL" /\ ~(IsExecutable /\ "DYNAMIC" \notin f) THEN 1 ELSE 0))
              + (IF p = "RELA_GENERAL" /\ HasDynamicIndex(s) /\ IsInterposable(f) THEN 1 ELSE 0)
      BY <1>1, <1>4, <2>1, ModuleTakes
    <3> QED BY <1>7, <2>1, <3>1
  <2>2. CASE "GOT_TLS_MODULE" \notin f
    BY <1>4, <2>2, TakesNone
  <2> QED BY <2>1, <2>2
<1>11. /\ d \in Seq(Entry)
       /\ NumTaken(d, p) =
            (IF "GOT_TLS_DESCRIPTOR" \in f /\ p = "GOT" THEN 2 ELSE 0)
            + (IF "GOT_TLS_DESCRIPTOR" \in f /\ p = "RELA_GENERAL" THEN 1 ELSE 0)
  <2>1. CASE "GOT_TLS_DESCRIPTOR" \in f
    BY <1>1, <1>5, <2>1, DescriptorTakes
  <2>2. CASE "GOT_TLS_DESCRIPTOR" \notin f
    BY <1>5, <2>2, TakesNone
  <2> QED BY <2>1, <2>2
<1>12. o \o m \in Seq(Entry) /\ NumTaken(o \o m, p) = NumTaken(o, p) + NumTaken(m, p)
  BY <1>9, <1>10, NumTakenConcat
<1>13. (o \o m) \o d \in Seq(Entry) /\ NumTaken((o \o m) \o d, p) = NumTaken(o \o m, p) + NumTaken(d, p)
  <2>1. PICK x : x = o \o m
    OBVIOUS
  <2>2. x \in Seq(Entry) /\ d \in Seq(Entry)
    BY <1>11, <1>12, <2>1
  <2>3. x \o d \in Seq(Entry) /\ NumTaken(x \o d, p) = NumTaken(x, p) + NumTaken(d, p)
    BY <2>2, NumTakenConcat
  <2> QED BY <2>1, <2>3
<1>14. /\ (NumTaken(o, p) + NumTaken(m, p)) + NumTaken(d, p) <= AllocateResolution(f)[p]
       /\ (p = "RELA_GENERAL" => ~UnusedOffset(s)) => AllocateResolution(f)[p] = (NumTaken(o, p) + NumTaken(m, p)) + NumTaken(d, p)
  <2>1. CASE p = "GOT"
    BY <1>2, <1>9, <1>10, <1>11, <2>1, AllocateTls
  <2>2. CASE p = "RELA_GENERAL"
    BY <1>2, <1>9, <1>10, <1>11, <2>2, AllocateTls
  <2>3. CASE p \notin {"GOT", "RELA_GENERAL"}
    BY <1>2, <1>9, <1>10, <1>11, <2>3, AllocateTls
  <2> QED BY <2>1, <2>2, <2>3
<1> QED BY <1>6, <1>12, <1>13, <1>14

(* Another symbol with an entry of the GOT. *)
LEMMA PlainTakes ==
  ASSUME prog \in Programs, NEW s \in Symbols, NEW f, f = flags[s], FlagsOk(s, f), ~NeedsTlsGot(f), "GOT" \in f,
         got_at[s] # <<>>, NEW p \in Parts
  PROVE  /\ ProcessResolution(s) \in Seq(Entry)
         /\ NumTaken(ProcessResolution(s), p) = AllocateResolution(f)[p]
<1>1. s \in Nat /\ ("IFUNC" \in f => "DYNAMIC" \notin f)
  BY SymbolFlags
<1>2. PICK a : a = ProcessAddress(s, f)
  OBVIOUS
<1>3. PICK b : b = IF "PLT" \in f THEN <<Take("PLT_GOT", "plt", s)>> ELSE <<>>
  OBVIOUS
<1>4. PICK c : c = IF IsPositionIndependent THEN <<RelativeEntry(s)>> ELSE <<>>
  OBVIOUS
<1>5. PICK t : t = Take("GOT", "plt", s)
  OBVIOUS
<1>6. PICK d : d = IF "IFUNC_GOT_FOR_ADDRESS" \in f THEN <<t>> \o c ELSE <<>>
  OBVIOUS
<1>7. ProcessResolution(s) = (a \o b) \o d
  BY <1>2, <1>3, <1>4, <1>5, <1>6 DEF ProcessResolution
<1>8. /\ a \in Seq(Entry)
      /\ NumTaken(a, p) =
              (IF p = (IF IsGotRelr(f) THEN "GOT_RELR" ELSE "GOT") THEN 1 ELSE 0)
              + (IF \/ p = "RELA_GENERAL" /\ BySymbol(f)
                    \/ p = "RELA_PLT" /\ ByResolver(f)
                    \/ p = RelativePart /\ ByAddress(f)
                 THEN 1 ELSE 0)
  BY <1>1, <1>2, AddressTakes
<1>9. "plt" \in Whats /\ "PLT_GOT" \in Parts \cup {"done"}
  BY DEF Whats, Parts
<1>10. b \in Seq(Entry) /\ NumTaken(b, p) = IF p = "PLT_GOT" /\ "PLT" \in f THEN 1 ELSE 0
  <2>1. PICK u : u = Take("PLT_GOT", "plt", s)
    OBVIOUS
  <2>2. u \in Entry /\ u.part = "PLT_GOT"
    BY <1>1, <1>9, <2>1, TakeType
  <2>3. CASE "PLT" \in f
    BY <1>3, <2>1, <2>2, <2>3, TakesOne
  <2>4. CASE "PLT" \notin f
    BY <1>3, <2>4, TakesNone
  <2> QED BY <2>3, <2>4
<1>11. c \in Seq(Entry) /\ NumTaken(c, p) = IF p = RelativePart /\ IsPositionIndependent THEN 1 ELSE 0
  <2>1. PICK u : u = RelativeEntry(s)
    OBVIOUS
  <2>2. u \in Entry /\ u.part = RelativePart
    BY <1>1, <2>1, RelativeEntryType
  <2>3. CASE IsPositionIndependent
    BY <1>4, <2>1, <2>2, <2>3, TakesOne
  <2>4. CASE ~IsPositionIndependent
    BY <1>4, <2>4, TakesNone
  <2> QED BY <2>3, <2>4
<1>12. t \in Entry /\ t.part = "GOT"
  BY <1>1, <1>5, <1>9, GotType
<1>13. /\ d \in Seq(Entry)
       /\ NumTaken(d, p) = IF /\ "IFUNC_GOT_FOR_ADDRESS" \in f
                              /\ p = "GOT" \/ (p = RelativePart /\ IsPositionIndependent)
                           THEN 1 ELSE 0
  <2>1. CASE "IFUNC_GOT_FOR_ADDRESS" \in f
    <3>1. <<t>> \in Seq(Entry) /\ NumTaken(<<t>>, p) = IF p = "GOT" THEN 1 ELSE 0
      BY <1>12, TakesOne
    <3>2. <<t>> \o c \in Seq(Entry) /\ NumTaken(<<t>> \o c, p) = NumTaken(<<t>>, p) + NumTaken(c, p)
      <4>1. PICK x : x = <<t>>
        OBVIOUS
      <4>2. x \in Seq(Entry) /\ c \in Seq(Entry)
        BY <1>11, <3>1, <4>1
      <4>3. x \o c \in Seq(Entry) /\ NumTaken(x \o c, p) = NumTaken(x, p) + NumTaken(c, p)
        BY <4>2, NumTakenConcat
      <4> QED BY <4>1, <4>3
    <3>3. RelativePart # "GOT"
      BY DEF RelativePart
    <3> QED BY <1>6, <1>11, <2>1, <3>1, <3>2, <3>3
  <2>2. CASE "IFUNC_GOT_FOR_ADDRESS" \notin f
    BY <1>6, <2>2, TakesNone
  <2> QED BY <2>1, <2>2
<1>14. a \o b \in Seq(Entry) /\ NumTaken(a \o b, p) = NumTaken(a, p) + NumTaken(b, p)
  BY <1>8, <1>10, NumTakenConcat
<1>15. (a \o b) \o d \in Seq(Entry) /\ NumTaken((a \o b) \o d, p) = NumTaken(a \o b, p) + NumTaken(d, p)
  <2>1. PICK x : x = a \o b
    OBVIOUS
  <2>2. x \in Seq(Entry) /\ d \in Seq(Entry)
    BY <1>13, <1>14, <2>1
  <2>3. x \o d \in Seq(Entry) /\ NumTaken(x \o d, p) = NumTaken(x, p) + NumTaken(d, p)
    BY <2>2, NumTakenConcat
  <2> QED BY <2>1, <2>3
<1>16. AllocateResolution(f)[p] = (NumTaken(a, p) + NumTaken(b, p)) + NumTaken(d, p)
  BY <1>1, <1>8, <1>10, <1>13, AllocatePlain
<1> QED BY <1>7, <1>14, <1>15, <1>16

(* What is allocated for a symbol or for a file is a number. *)
LEMMA AllocationType ==
  ASSUME NEW f, NEW p \in Parts
  PROVE  AllocateResolution(f)[p] \in Nat
<1>1. CASE p \in {"GOT", "GOT_RELR", "PLT_GOT", "RELA_PLT"}
  BY <1>1 DEF AllocateResolution, Count
<1>2. CASE p = "RELA_GENERAL"
  BY <1>2 DEF AllocateResolution, Count
<1>3. CASE p \in {"RELR", "RELA_RELATIVE"}
  BY <1>3 DEF AllocateResolution, Count, RelativeParts, Parts
<1> QED BY <1>1, <1>2, <1>3 DEF Parts

(* Every symbol: the writer, which goes by the entry of the GOT, takes     *)
(* what was allocated, which goes by the flags.                            *)
LEMMA SymbolTakes ==
  ASSUME prog \in Programs, NEW s \in Symbols, NEW f, f = flags[s], FlagsOk(s, f),
         got_at[s] = <<>> <=> GotEntries(f) = 0, NEW p \in Parts
  PROVE  /\ ProcessResolution(s) \in Seq(Entry)
         /\ NumTaken(ProcessResolution(s), p) <= AllocateResolution(f)[p]
         /\ (p = "RELA_GENERAL" => ~UnusedOffset(s)) => NumTaken(ProcessResolution(s), p) = AllocateResolution(f)[p]
<1>1. GotEntries(f) = 0 <=> "PLT" \notin f /\ ~NeedsTlsGot(f) /\ "GOT" \notin f
  BY GotEntriesFacts
<1>2. ("PLT" \in f => "GOT" \in f) /\ ("IFUNC_GOT_FOR_ADDRESS" \in f => "GOT" \in f)
  BY DEF FlagsOk
<1>3. CASE got_at[s] = <<>>
  <2>1. ~NeedsTlsGot(f) /\ "GOT" \notin f /\ "IFUNC_GOT_FOR_ADDRESS" \notin f
    BY <1>1, <1>2, <1>3
  <2>2. AllocateResolution(f)[p] = 0
    BY <2>1, AllocateNone
  <2>3. ProcessResolution(s) = <<>>
    BY <1>3 DEF ProcessResolution
  <2> QED BY <2>2, <2>3, TakesNone
<1>4. CASE got_at[s] # <<>> /\ NeedsTlsGot(f)
  BY <1>4, TlsTakes
<1>5. CASE got_at[s] # <<>> /\ ~NeedsTlsGot(f)
  <2>1. "GOT" \in f
    BY <1>1, <1>2, <1>5
  <2>2. ProcessResolution(s) \in Seq(Entry) /\ NumTaken(ProcessResolution(s), p) = AllocateResolution(f)[p]
    BY <1>5, <2>1, PlainTakes
  <2>3. AllocateResolution(f)[p] \in Nat
    BY AllocationType
  <2> QED BY <2>2, <2>3
<1> QED BY <1>3, <1>4, <1>5

(* The resolutions of a file. *)
GotOk == \A s \in Symbols : got_at[s] = <<>> <=> GotEntries(flags[s]) = 0
AllocatedOf(g, p) ==
  [s \in Symbols |-> IF prog.symbols[s].file = g THEN AllocateResolution(flags[s])[p] ELSE 0]

NoneUnused(g, p) == p = "RELA_GENERAL" => \A s \in Symbols : prog.symbols[s].file = g => ~UnusedOffset(s)

(* The symbols of a file take no more than what was allocated for all of   *)
(* them, and without a thread-local offset that is not used all of it.     *)
LEMMA SymbolsTake ==
  ASSUME prog \in Programs, SymbolsOk, GotOk, NEW g, NEW p \in Parts, NEW n, n = Len(prog.symbols)
  PROVE  /\ ProcessResolutions(g) \in Seq(Entry)
         /\ AllocatedOf(g, p) \in [1 .. n -> Nat] /\ n \in Nat
         /\ Sum(AllocatedOf(g, p)) \in Nat
         /\ NumTaken(ProcessResolutions(g), p) <= Sum(AllocatedOf(g, p))
         /\ NoneUnused(g, p) => NumTaken(ProcessResolutions(g), p) = Sum(AllocatedOf(g, p))
<1>1. n \in Nat /\ Symbols = 1 .. n
  BY ProgramFacts
<1>2. PICK q : q = [s \in Symbols |-> IF prog.symbols[s].file = g THEN ProcessResolution(s) ELSE <<>>]
  OBVIOUS
<1>3. ASSUME NEW s \in Symbols
      PROVE  /\ q[s] \in Seq(Entry) /\ AllocatedOf(g, p)[s] \in Nat
             /\ NumTaken(q[s], p) <= AllocatedOf(g, p)[s]
             /\ NoneUnused(g, p) => NumTaken(q[s], p) = AllocatedOf(g, p)[s]
  <2>1. CASE prog.symbols[s].file = g
    <3>1. PICK f : f = flags[s]
      OBVIOUS
    <3>2. FlagsOk(s, f) /\ (got_at[s] = <<>> <=> GotEntries(f) = 0)
      BY <3>1 DEF SymbolsOk, GotOk
    <3>3. /\ ProcessResolution(s) \in Seq(Entry)
          /\ NumTaken(ProcessResolution(s), p) <= AllocateResolution(f)[p]
          /\ (p = "RELA_GENERAL" => ~UnusedOffset(s)) => NumTaken(ProcessResolution(s), p) = AllocateResolution(f)[p]
      BY <3>1, <3>2, SymbolTakes
    <3>4. q[s] = ProcessResolution(s) /\ AllocatedOf(g, p)[s] = AllocateResolution(f)[p]
      BY <1>2, <2>1, <3>1 DEF AllocatedOf
    <3>5. AllocateResolution(f)[p] \in Nat
      BY AllocationType
    <3>6. NoneUnused(g, p) => (p = "RELA_GENERAL" => ~UnusedOffset(s))
      BY <2>1 DEF NoneUnused
    <3> QED BY <3>3, <3>4, <3>5, <3>6
  <2>2. CASE prog.symbols[s].file # g
    BY <1>2, <2>2, TakesNone DEF AllocatedOf
  <2> QED BY <2>1, <2>2
<1>4. q \in [1 .. n -> Seq(Entry)]
  BY <1>1, <1>2, <1>3
<1>5. q \in Seq(Seq(Entry)) /\ Len(q) = n
  BY <1>1, <1>4, IsSeq
<1>6. /\ Join(q) \in Seq(Entry)
      /\ [k \in 1 .. n |-> NumTaken(q[k], p)] \in [1 .. n -> Nat]
      /\ NumTaken(Join(q), p) = Sum([k \in 1 .. n |-> NumTaken(q[k], p)])
  BY <1>5, NumTakenJoin
<1>7. AllocatedOf(g, p) \in [1 .. n -> Nat]
  <2>1. AllocatedOf(g, p) = [s \in 1 .. n |-> AllocatedOf(g, p)[s]]
    BY <1>1 DEF AllocatedOf
  <2> QED BY <1>1, <1>3, <2>1
<1>8. ProcessResolutions(g) = Join(q)
  BY <1>2 DEF ProcessResolutions
<1>9. PICK a, b : a = [k \in 1 .. n |-> NumTaken(q[k], p)] /\ b = AllocatedOf(g, p)
  OBVIOUS
<1>10. a \in [1 .. n -> Nat] /\ b \in [1 .. n -> Nat] /\ \A k \in 1 .. n : a[k] <= b[k]
  BY <1>1, <1>3, <1>6, <1>7, <1>9
<1>11. Sum(a) \in Nat /\ Sum(b) \in Nat /\ Sum(a) <= Sum(b)
  BY <1>1, <1>10, SumLeq
<1>12. NoneUnused(g, p) => a = b
  <2> SUFFICES ASSUME NoneUnused(g, p) PROVE a = b
    OBVIOUS
  <2>1. \A k \in 1 .. n : a[k] = b[k]
    BY <1>1, <1>3, <1>9
  <2> QED BY <1>10, <2>1
<1> QED BY <1>1, <1>6, <1>7, <1>8, <1>9, <1>11, <1>12

-----------------------------------------------------------------------------
(* What the writer takes for a relocation is what the scan reserved.       *)

(* The scan saw the relocation when the flags were f or fewer.             *)
IsWritten(i, k, p, w) ==
  /\ w.takes \in Seq(Entry)
  /\ w.means[1] # "user" => NumTaken(w.takes, p) = Reserved(i, k, p) /\ w.means[1] # "missing"

(* The address of the section is even. *)
LEMMA SameParity ==
  ASSUME NEW a \in Nat, a % 2 = 0, NEW x \in Nat
  PROVE  (a + x) % 2 = x % 2
<1>1. PICK q \in Nat, y \in Nat : a = 2 * q /\ x \in {2 * y, 2 * y + 1}
  <2>1. a = 2 * (a \div 2) /\ a \div 2 \in Nat
    OBVIOUS
  <2>2. x \in {2 * (x \div 2), 2 * (x \div 2) + 1} /\ x \div 2 \in Nat
    OBVIOUS
  <2> QED BY <2>1, <2>2
<1> QED BY <1>1

(* The value of a symbol that is not an ifunc, or that has an entry of the *)
(* PLT, is known.                                                          *)
LEMMA ValueKnown ==
  ASSUME NEW s, "IFUNC" \in flags[s] => "PLT" \in flags[s]
  PROVE  Value(s)[1] \in {"plt", "copy", "zero", "address"}
BY DEF Value

(* Absolute relocations. *)
LEMMA AbsoluteTakes ==
  ASSUME prog \in Programs, SymbolsOk, NEW i \in Sections, NEW k \in 1 .. Len(Rels(i)), LiveOf(i)[k],
         NEW rel, rel = Rels(i)[k], NEW section, section = prog.sections[i],
         NEW own, own = flags[rel.symbol], Satisfied(i, k, own, tlsld), Kind(i, k) = "Absolute",
         NEW f, f = Merge(own, rel), NEW p \in Parts, NEW encoded, encoded.new \in BOOLEAN,
         Packs(i, k) => encoded.new = Encode(RunOf(i)[k - 1], OffsetsOf(i)[k]).new
  PROVE  IsWritten(i, k, p, WriteAbsolute(rel, f, section, encoded))
<1>1. PICK v : v = Fixed(rel)
  OBVIOUS
<1>2. PICK s : s = rel.symbol
  OBVIOUS
<1>3. s \in Symbols /\ s \in Nat /\ rel.offset \in Nat /\ section.writable \in BOOLEAN
  <2>1. PICK kind : kind = Kind(i, k)
    OBVIOUS
  <2>2. rel.symbol \in Symbols /\ rel.offset \in Nat /\ section.writable \in BOOLEAN
    BY <1>1, <2>1, RelocationFacts
  <2> QED BY <1>2, <2>2, ProgramFacts
<1>4. Agree(i, k, f, own)
  <2>1. FlagsOk(s, own)
    BY <1>2, <1>3 DEF SymbolsOk
  <2>2. Agree(i, k, Merge(own, Rels(i)[k]), own)
    BY <1>2, <2>1, RelocationFlags
  <2> QED BY <2>2
<1>5. /\ "DYNAMIC" \in f <=> "DYNAMIC" \in v
      /\ "ABSOLUTE" \in f <=> "ABSOLUTE" \in v
      /\ "IFUNC" \in f <=> "IFUNC" \in v
      /\ IsInterposable(f) <=> IsInterposable(v)
      /\ "IFUNC" \in own <=> "IFUNC" \in v
  BY <1>1, <1>4 DEF Agree, V
<1>6. /\ IsExecutable /\ IsInterposable(v) => "DYNAMIC" \in v
      /\ "DYNAMIC" \in v => IsInterposable(v)
      /\ "IFUNC" \in v => "DYNAMIC" \notin v /\ "ABSOLUTE" \notin v
      /\ ~section.writable /\ IsPositionIndependent => "IFUNC" \notin v /\ ("DYNAMIC" \in v => "ABSOLUTE" \in v)
  <2>1. PICK kind : kind = Kind(i, k)
    OBVIOUS
  <2>2. /\ IsExecutable /\ IsInterposable(v) => "DYNAMIC" \in v
        /\ "DYNAMIC" \in v => IsInterposable(v)
        /\ "IFUNC" \in v => "DYNAMIC" \notin v /\ "ABSOLUTE" \notin v
        /\ kind = "Absolute" /\ ~section.writable /\ IsPositionIndependent
              => "IFUNC" \notin v /\ ("DYNAMIC" \in v => "ABSOLUTE" \in v)
    BY <1>1, <2>1, RelocationFacts
  <2> QED BY <2>1, <2>2
<1>7. HasLinkTimeAddress(v) <=> "IFUNC" \notin v /\ "DYNAMIC" \notin v /\ "ABSOLUTE" \notin v
  BY DEF HasLinkTimeAddress
<1>8. /\ General(i, k) <=> section.writable /\ (IsInterposable(v) \/ ("IFUNC" \in v /\ IsPositionIndependent))
      /\ Relative(i, k) <=> section.writable /\ ~IsInterposable(v) /\ HasLinkTimeAddress(v) /\ IsPositionIndependent
      /\ Packs(i, k) <=> Relative(i, k) /\ prog.relr /\ rel.offset % 2 = 0
  BY <1>1 DEF General, Relative, Packs
<1>9. /\ "IFUNC" \in v /\ ~IsInterposable(v) => "PLT" \in own
      /\ ~section.writable => ~(IsPositionIndependent /\ HasLinkTimeAddress(v))
  BY <1>1, <1>5 DEF Satisfied
<1>10. ~IsPositionIndependent => IsExecutable
  BY OutputFacts
<1>11. (section.address + rel.offset) % 2 = rel.offset % 2 /\ rel.offset % 2 \in {0, 1}
  <2>1. PICK n : n = Len(Rels(i))
    OBVIOUS
  <2>2. section.address \in Nat /\ section.address % 2 = 0
    BY <2>1, SectionFacts
  <2>3. (section.address + rel.offset) % 2 = rel.offset % 2
    BY <1>3, <2>2, SameParity
  <2> QED BY <1>3, <2>3
<1>12. PICK r : r = Rela(s)
  OBVIOUS
<1>13. r \in Entry /\ r.part = "RELA_GENERAL"
  BY <1>3, <1>12, RelaType
<1>14. PICK w : w = WriteAbsolute(rel, f, section, encoded)
  OBVIOUS
<1>15. CASE "DYNAMIC" \in v /\ "ABSOLUTE" \in v /\ ~section.writable
  <2>1. w = [takes |-> <<>>, means |-> <<"zero", s>>]
    BY <1>2, <1>5, <1>14, <1>15 DEF WriteAbsolute, Taking
  <2>2. Reserved(i, k, p) = 0
    BY <1>8, <1>15 DEF Reserved
  <2> QED BY <1>14, <2>1, <2>2, TakesNone DEF IsWritten
<1>16. CASE section.writable /\ (IsInterposable(v) \/ ("IFUNC" \in v /\ IsPositionIndependent))
  <2>1. w.takes = <<r>> /\ w.means[1] \in {"symbol", "ifunc"}
    <3>1. CASE IsInterposable(v)
      <4>1. w = [takes |-> <<r>>, means |-> <<"symbol", s>>]
        BY <1>2, <1>5, <1>12, <1>14, <1>16, <3>1 DEF WriteAbsolute, Taking
      <4> QED BY <4>1
    <3>2. CASE ~IsInterposable(v)
      <4>1. w = [takes |-> <<r>>, means |-> <<"ifunc", s>>]
        BY <1>2, <1>5, <1>12, <1>14, <1>16, <3>2 DEF WriteAbsolute, Taking
      <4> QED BY <4>1
    <3> QED BY <3>1, <3>2
  <2>2. Reserved(i, k, p) = IF p = "RELA_GENERAL" THEN 1 ELSE 0
    BY <1>8, <1>16 DEF Reserved, Count
  <2>3. <<r>> \in Seq(Entry) /\ NumTaken(<<r>>, p) = IF "RELA_GENERAL" = p THEN 1 ELSE 0
    BY <1>13, TakesOne
  <2> QED BY <1>14, <2>1, <2>2, <2>3 DEF IsWritten
<1>17. CASE /\ ~("DYNAMIC" \in v /\ "ABSOLUTE" \in v /\ ~section.writable)
            /\ ~(section.writable /\ (IsInterposable(v) \/ ("IFUNC" \in v /\ IsPositionIndependent)))
  <2>1. ~General(i, k)
    BY <1>8, <1>17
  <2>2. PICK value : value = Value(s)
    OBVIOUS
  <2>3. value[1] \in {"plt", "copy", "zero", "address"}
    <3>1. "IFUNC" \in v => "PLT" \in own
      BY <1>6, <1>9, <1>10, <1>17
    <3>2. "IFUNC" \in flags[s] => "PLT" \in flags[s]
      BY <1>2, <1>5, <3>1
    <3> QED BY <2>2, <3>2, ValueKnown
  <2>4. Plain(s) = [takes |-> <<>>, means |-> value]
    BY <2>2 DEF Plain
  <2>5. CASE IsPositionIndependent /\ "ABSOLUTE" \notin v
    <3>1. Relative(i, k)
      BY <1>6, <1>7, <1>8, <1>9, <1>17, <2>5
    <3>2. w = IF prog.relr /\ rel.offset % 2 = 0
              THEN IF encoded.new THEN [Plain(s) EXCEPT !.takes = <<Take("RELR", "relative", s)>>] ELSE Plain(s)
              ELSE [Plain(s) EXCEPT !.takes = <<Take("RELA_RELATIVE", "relative", s)>>]
      BY <1>2, <1>5, <1>11, <1>14, <1>17, <2>5 DEF WriteAbsolute
    <3>3. "RELR" \in Parts \cup {"done"} /\ "RELA_RELATIVE" \in Parts \cup {"done"} /\ "relative" \in Whats
      BY DEF Parts, Whats
    <3>4. CASE ~(prog.relr /\ rel.offset % 2 = 0)
      <4>1. PICK t : t = Take("RELA_RELATIVE", "relative", s)
        OBVIOUS
      <4>2. t \in Entry /\ t.part = "RELA_RELATIVE"
        BY <1>3, <3>3, <4>1, TakeType
      <4>3. w = [takes |-> <<t>>, means |-> value]
        BY <2>4, <3>2, <3>4, <4>1
      <4>4. <<t>> \in Seq(Entry) /\ NumTaken(<<t>>, p) = IF "RELA_RELATIVE" = p THEN 1 ELSE 0
        BY <4>2, TakesOne
      <4>5. Reserved(i, k, p) = IF p = "RELA_RELATIVE" THEN 1 ELSE 0
        BY <1>8, <2>1, <3>1, <3>4 DEF Reserved, Count
      <4> QED BY <1>14, <2>3, <4>3, <4>4, <4>5 DEF IsWritten
    <3>5. CASE prog.relr /\ rel.offset % 2 = 0 /\ encoded.new
      <4>1. PICK t : t = Take("RELR", "relative", s)
        OBVIOUS
      <4>2. t \in Entry /\ t.part = "RELR"
        BY <1>3, <3>3, <4>1, TakeType
      <4>3. w = [takes |-> <<t>>, means |-> value]
        BY <2>4, <3>2, <3>5, <4>1
      <4>4. <<t>> \in Seq(Entry) /\ NumTaken(<<t>>, p) = IF "RELR" = p THEN 1 ELSE 0
        BY <4>2, TakesOne
      <4>5. Reserved(i, k, p) = IF p = "RELR" THEN 1 ELSE 0
        <5>1. Packs(i, k)
          BY <1>8, <3>1, <3>5
        <5>2. Encode(RunOf(i)[k - 1], OffsetsOf(i)[k]).new
          BY <3>5, <5>1
        <5>3. NewEntries(RunOf(i)[k - 1], OffsetsOf(i)[k]) = 1
          BY <5>2 DEF NewEntries, Count
        <5> QED BY <2>1, <5>1, <5>3 DEF Reserved
      <4> QED BY <1>14, <2>3, <4>3, <4>4, <4>5 DEF IsWritten
    <3>6. CASE prog.relr /\ rel.offset % 2 = 0 /\ ~encoded.new
      <4>1. w = [takes |-> <<>>, means |-> value]
        BY <2>4, <3>2, <3>6
      <4>2. Reserved(i, k, p) = 0
        <5>1. Packs(i, k)
          BY <1>8, <3>1, <3>6
        <5>2. ~Encode(RunOf(i)[k - 1], OffsetsOf(i)[k]).new
          BY <3>6, <5>1
        <5>3. NewEntries(RunOf(i)[k - 1], OffsetsOf(i)[k]) = 0
          BY <5>2 DEF NewEntries, Count
        <5> QED BY <2>1, <5>1, <5>3 DEF Reserved
      <4> QED BY <1>14, <2>3, <4>1, <4>2, TakesNone DEF IsWritten
    <3> QED BY <3>4, <3>5, <3>6
  <2>6. CASE ~(IsPositionIndependent /\ "ABSOLUTE" \notin v)
    <3>1. w = [takes |-> <<>>, means |-> value]
      BY <1>2, <1>5, <1>14, <1>17, <2>4, <2>6 DEF WriteAbsolute
    <3>2. ~Relative(i, k) /\ ~Packs(i, k)
      BY <1>7, <1>8, <2>6
    <3>3. Reserved(i, k, p) = 0
      BY <2>1, <3>2 DEF Reserved
    <3> QED BY <1>14, <2>3, <3>1, <3>3, TakesNone DEF IsWritten
  <2> QED BY <2>5, <2>6
<1> QED BY <1>15, <1>16, <1>17

(* Any relocation that is applied. *)
LEMMA RelocationTakes ==
  ASSUME prog \in Programs, SymbolsOk, GotOk, NEW i \in Sections, NEW k \in 1 .. Len(Rels(i)), LiveOf(i)[k],
         NEW rel, rel = Rels(i)[k], NEW section, section = prog.sections[i],
         Satisfied(i, k, flags[rel.symbol], tlsld), NEW p \in Parts, NEW encoded, encoded.new \in BOOLEAN,
         Packs(i, k) => encoded.new = Encode(RunOf(i)[k - 1], OffsetsOf(i)[k]).new
  PROVE  IsWritten(i, k, p, ApplyRelocation(rel, section, encoded))
<1>1. PICK v : v = Fixed(rel)
  OBVIOUS
<1>2. PICK s : s = rel.symbol
  OBVIOUS
<1>3. PICK kind : kind = Kind(i, k)
  OBVIOUS
<1>4. PICK own : own = flags[s]
  OBVIOUS
<1>5. PICK f : f = Merge(own, rel)
  OBVIOUS
<1>6. /\ s \in Symbols /\ kind \in Kinds
      /\ "IFUNC" \in v => kind # "Relative"
  BY <1>1, <1>2, <1>3, RelocationFacts
<1>7. FlagsOk(s, own)
  BY <1>4, <1>6 DEF SymbolsOk
<1>8. Agree(i, k, f, own)
  <2>1. Agree(i, k, Merge(own, Rels(i)[k]), own)
    BY <1>2, <1>7, RelocationFlags
  <2> QED BY <1>5, <2>1
<1>9. KindOf(EffectiveType(rel, f, section)) = kind
  BY <1>3, <1>8 DEF Agree
<1>10. PICK w : w = ApplyRelocation(rel, section, encoded)
  OBVIOUS
<1>11. w = CASE Rejected(rel, f) -> Taking(<<>>, "user", s)
       [] ~Rejected(rel, f) /\ kind = "Absolute" -> WriteAbsolute(rel, f, section, encoded)
       [] ~Rejected(rel, f) /\ kind = "Relative" -> Plain(s)
       [] ~Rejected(rel, f) /\ kind = "PltRelative" ->
            Taking(<<>>, IF "PLT" \in flags[s] THEN "plt" ELSE "missing", s)
       [] ~Rejected(rel, f) /\ kind \in {"GotRelative", "GotTpOff", "TlsGd", "TlsDesc"} ->
            IF got_at[s] = <<>> THEN Taking(<<>>, "missing", s)
            ELSE [takes |-> <<>>, means |-> <<"slots", GotSlots(kind, s)>>]
       [] ~Rejected(rel, f) /\ kind = "TlsLd" ->
            IF tlsld THEN Taking(<<>>, "tlsld", s) ELSE Taking(<<>>, "missing", s)
       [] ~Rejected(rel, f) /\ kind \in {"TpOff", "DtpOff"} -> Taking(<<>>, "tls offset", s)
       [] OTHER -> Taking(<<>>, "nothing", s)
  BY <1>2, <1>4, <1>5, <1>9, <1>10 DEF ApplyRelocation
<1>12. kind # "Absolute" => Reserved(i, k, p) = 0
  BY <1>3 DEF Reserved, General, Packs, Relative
<1>13. Satisfied(i, k, own, tlsld)
  BY <1>2, <1>4
<1>14. CASE Rejected(rel, f)
  <2>1. w = [takes |-> <<>>, means |-> <<"user", s>>]
    BY <1>11, <1>14 DEF Taking
  <2> QED BY <1>10, <2>1, TakesNone DEF IsWritten
<1>15. CASE ~Rejected(rel, f) /\ kind = "Absolute"
  <2>1. w = WriteAbsolute(rel, f, section, encoded)
    BY <1>11, <1>15
  <2>2. own = flags[rel.symbol]
    BY <1>2, <1>4
  <2>3. Kind(i, k) = "Absolute"
    BY <1>3, <1>15
  <2>4. IsWritten(i, k, p, WriteAbsolute(rel, f, section, encoded))
    BY <1>5, <1>13, <2>2, <2>3, AbsoluteTakes
  <2> QED BY <1>10, <2>1, <2>4
<1>16. CASE ~Rejected(rel, f) /\ kind = "Relative"
  <2>1. w = [takes |-> <<>>, means |-> Value(s)]
    BY <1>11, <1>16 DEF Plain
  <2>2. "IFUNC" \notin flags[s]
    BY <1>1, <1>4, <1>6, <1>8, <1>16 DEF Agree, V
  <2>3. Value(s)[1] \in {"plt", "copy", "zero", "address"}
    BY <2>2, ValueKnown
  <2> QED BY <1>10, <1>12, <1>16, <2>1, <2>3, TakesNone DEF IsWritten
<1>17. CASE ~Rejected(rel, f) /\ kind = "PltRelative"
  <2>1. "PLT" \in own
    BY <1>3, <1>13, <1>17 DEF Satisfied, FlagsForKind
  <2>2. w = [takes |-> <<>>, means |-> <<"plt", s>>]
    BY <1>4, <1>11, <1>17, <2>1 DEF Taking
  <2> QED BY <1>10, <1>12, <1>17, <2>2, TakesNone DEF IsWritten
<1>18. CASE ~Rejected(rel, f) /\ kind \in {"GotRelative", "GotTpOff", "TlsGd", "TlsDesc"}
  <2>1. FlagsForKind(kind) \subseteq own
    BY <1>3, <1>13, <1>18 DEF Satisfied
  <2>2. "GOT" \in own \/ NeedsTlsGot(own)
    BY <1>18, <2>1 DEF FlagsForKind, NeedsTlsGot
  <2>3. got_at[s] # <<>>
    <3>1. GotEntries(own) # 0
      BY <2>2, GotEntriesFacts
    <3> QED BY <1>4, <1>6, <3>1 DEF GotOk
  <2>4. w = [takes |-> <<>>, means |-> <<"slots", GotSlots(kind, s)>>]
    BY <1>11, <1>18, <2>3
  <2> QED BY <1>10, <1>12, <1>18, <2>4, TakesNone DEF IsWritten
<1>19. CASE ~Rejected(rel, f) /\ kind = "TlsLd"
  <2>1. tlsld
    BY <1>3, <1>13, <1>19 DEF Satisfied
  <2>2. w = [takes |-> <<>>, means |-> <<"tlsld", s>>]
    BY <1>11, <1>19, <2>1 DEF Taking
  <2> QED BY <1>10, <1>12, <1>19, <2>2, TakesNone DEF IsWritten
<1>20. CASE ~Rejected(rel, f) /\ kind \in {"TpOff", "DtpOff"}
  <2>1. w = [takes |-> <<>>, means |-> <<"tls offset", s>>]
    BY <1>11, <1>20 DEF Taking
  <2>2. Reserved(i, k, p) = 0
    BY <1>12, <1>20
  <2>3. w.takes = <<>> /\ w.means[1] = "tls offset"
    BY <2>1
  <2> QED BY <1>10, <2>2, <2>3, TakesNone DEF IsWritten
<1>21. CASE ~Rejected(rel, f) /\ kind \in {"TlsDescCall", "None"}
  <2>1. w = [takes |-> <<>>, means |-> <<"nothing", s>>]
    BY <1>11, <1>21 DEF Taking
  <2> QED BY <1>10, <1>12, <1>21, <2>1, TakesNone DEF IsWritten
<1> QED BY <1>6, <1>14, <1>15, <1>16, <1>17, <1>18, <1>19, <1>20, <1>21 DEF Kinds

(* The writer skips what the scan skipped. *)
LEMMA SameLive ==
  ASSUME prog \in Programs, SymbolsOk, NEW i \in Sections
  PROVE  Live(i) = LiveOf(i)
<1>1. PICK n : n = Len(Rels(i))
  OBVIOUS
<1>2. DOMAIN Rels(i) = 1 .. n
  BY <1>1, SectionFacts
<1>3. PICK L : L = [k \in 1 .. n |-> SkipsNext(Rels(i)[k], Merge(flags[Rels(i)[k].symbol], Rels(i)[k]), prog.sections[i])]
  OBVIOUS
<1>4. ASSUME NEW k \in 1 .. n PROVE L[k] = SkipsOf(i)[k]
  <2>1. PICK s : s = Rels(i)[k].symbol
    OBVIOUS
  <2>2. PICK own : own = flags[s]
    OBVIOUS
  <2>3. s \in Symbols
    <3>1. PICK rel : rel = Rels(i)[k]
      OBVIOUS
    <3>2. PICK v, section : v = VF(rel.symbol) /\ section = prog.sections[i]
      OBVIOUS
    <3>3. rel.symbol \in Symbols
      BY <1>1, <3>1, <3>2, RelFacts
    <3> QED BY <2>1, <3>1, <3>3
  <2>4. FlagsOk(s, own)
    BY <2>2, <2>3 DEF SymbolsOk
  <2>5. Agree(i, k, Merge(own, Rels(i)[k]), own)
    BY <2>1, <2>4, RelocationFlags
  <2>6. SkipsNext(Rels(i)[k], Merge(own, Rels(i)[k]), prog.sections[i]) <=> Skips(i, k)
    BY <2>5 DEF Agree
  <2>7. L[k] = SkipsNext(Rels(i)[k], Merge(own, Rels(i)[k]), prog.sections[i]) /\ SkipsOf(i)[k] = Skips(i, k)
    BY <1>1, <1>3, <2>1, <2>2 DEF SkipsOf
  <2>8. (L[k] <=> SkipsOf(i)[k]) /\ L[k] \in BOOLEAN /\ SkipsOf(i)[k] \in BOOLEAN
    BY <2>6, <2>7 DEF SkipsNext, Skips
  <2> QED BY <2>8
<1>5. L = SkipsOf(i)
  BY <1>1, <1>3, <1>4 DEF SkipsOf
<1>6. Live(i) = NotSkipped(L)
  BY <1>2, <1>3 DEF Live, Rels
<1> QED BY <1>5, <1>6 DEF LiveOf

(* Both decide alike which relocations are packed. *)
LEMMA SamePacks ==
  ASSUME prog \in Programs, SymbolsOk, NEW i \in Sections, NEW k \in 1 .. Len(Rels(i)),
         NEW rel, rel = Rels(i)[k], NEW section, section = prog.sections[i],
         Satisfied(i, k, flags[rel.symbol], tlsld)
  PROVE  UsesRelr(rel, section) <=> Packs(i, k)
<1>1. PICK v : v = Fixed(rel)
  OBVIOUS
<1>2. PICK s : s = rel.symbol
  OBVIOUS
<1>3. PICK kind : kind = Kind(i, k)
  OBVIOUS
<1>4. PICK own : own = flags[s]
  OBVIOUS
<1>5. PICK f : f = Merge(own, rel)
  OBVIOUS
<1>6. /\ s \in Symbols /\ rel.offset \in Nat /\ section.writable \in BOOLEAN
      /\ "DYNAMIC" \in v => IsInterposable(v)
      /\ kind = "Absolute" /\ ~section.writable /\ IsPositionIndependent
              => "IFUNC" \notin v /\ ("DYNAMIC" \in v => "ABSOLUTE" \in v)
  BY <1>1, <1>2, <1>3, RelocationFacts
<1>7. FlagsOk(s, own)
  BY <1>4, <1>6 DEF SymbolsOk
<1>8. Agree(i, k, f, own)
  <2>1. Agree(i, k, Merge(own, Rels(i)[k]), own)
    BY <1>2, <1>7, RelocationFlags
  <2> QED BY <1>5, <2>1
<1>9. /\ KindOf(EffectiveType(rel, f, section)) = kind
      /\ "ABSOLUTE" \in f <=> "ABSOLUTE" \in v
      /\ "IFUNC" \in f <=> "IFUNC" \in v
      /\ IsInterposable(f) <=> IsInterposable(v)
  BY <1>1, <1>3, <1>8 DEF Agree, V
<1>10. HasLinkTimeAddress(v) <=> "IFUNC" \notin v /\ "DYNAMIC" \notin v /\ "ABSOLUTE" \notin v
  BY DEF HasLinkTimeAddress
<1>11. kind = "Absolute" /\ ~section.writable => ~(IsPositionIndependent /\ HasLinkTimeAddress(v))
  BY <1>1, <1>3 DEF Satisfied
<1>12. (section.address + rel.offset) % 2 = rel.offset % 2
  <2>1. PICK n : n = Len(Rels(i))
    OBVIOUS
  <2>2. section.address \in Nat /\ section.address % 2 = 0
    BY <2>1, SectionFacts
  <2> QED BY <1>6, <2>2, SameParity
<1>13. UsesRelr(rel, section) <=>
         /\ prog.relr /\ IsPositionIndependent /\ rel.offset % 2 = 0
         /\ kind = "Absolute" /\ ~(IsInterposable(v) /\ section.writable)
         /\ "IFUNC" \notin v /\ "ABSOLUTE" \notin v
  BY <1>2, <1>4, <1>5, <1>9, <1>12 DEF UsesRelr
<1>14. Packs(i, k) <=>
         /\ kind = "Absolute" /\ section.writable /\ ~IsInterposable(v) /\ HasLinkTimeAddress(v)
         /\ IsPositionIndependent /\ prog.relr /\ rel.offset % 2 = 0
  BY <1>1, <1>3 DEF Packs, Relative
<1> QED BY <1>6, <1>10, <1>11, <1>13, <1>14

(* What is known of a section when it is written. *)
SectionOk(i) ==
  \A k \in 1 .. Len(Rels(i)) : LiveOf(i)[k] => Satisfied(i, k, flags[Rels(i)[k].symbol], tlsld)

(* Every relocation of a section. *)
LEMMA SectionWritten ==
  ASSUME prog \in Programs, SymbolsOk, GotOk, NEW i \in Sections, SectionOk(i), NEW p \in Parts,
         NEW n, n = Len(Rels(i)), NEW W, W = WriteSection(i)
  PROVE  /\ n \in Nat /\ DOMAIN W = 1 .. n
         /\ \A k \in 1 .. n : IsWritten(i, k, p, W[k])
<1>1. PICK section : section = prog.sections[i]
  OBVIOUS
<1>2. PICK rels : rels = Rels(i)
  OBVIOUS
<1>3. n \in Nat /\ DOMAIN rels = 1 .. n /\ section.address \in Nat
  BY <1>1, <1>2, SectionFacts
<1>4. PICK L : L = LiveOf(i)
  OBVIOUS
<1>5. L = Live(i) /\ L \in [0 .. n -> BOOLEAN]
  BY <1>4, SameLive, LiveFacts
<1>6. PICK a \in Nat : a = section.address
  BY <1>3
<1>7. PICK to : to = [k \in 1 .. n |-> a + rels[k].offset]
  OBVIOUS
<1>8. PICK uses : uses = [k \in 1 .. n |-> L[k] /\ UsesRelr(rels[k], section)]
  OBVIOUS
<1>9. uses = UsesOf(i)
  <2>1. ASSUME NEW k \in 1 .. n PROVE (L[k] /\ UsesRelr(rels[k], section)) <=> (L[k] /\ Packs(i, k))
    <3>1. CASE L[k]
      <4>1. PICK rel : rel = Rels(i)[k]
        OBVIOUS
      <4>2. Satisfied(i, k, flags[rel.symbol], tlsld)
        BY <1>4, <3>1, <4>1 DEF SectionOk
      <4>3. UsesRelr(rel, section) <=> Packs(i, k)
        BY <1>1, <4>1, <4>2, SamePacks
      <4> QED BY <1>2, <4>1, <4>3
    <3>2. CASE ~L[k]
      BY <3>2
    <3> QED BY <3>1, <3>2
  <2>2. \A k \in 1 .. n : uses[k] = UsesOf(i)[k]
    <3> SUFFICES ASSUME NEW k \in 1 .. n PROVE uses[k] = UsesOf(i)[k]
      OBVIOUS
    <3>1. uses[k] = (L[k] /\ UsesRelr(rels[k], section)) /\ UsesOf(i)[k] = (L[k] /\ Packs(i, k))
      BY <1>4, <1>8 DEF UsesOf
    <3> QED BY <2>1, <3>1
  <2>3. uses = [k \in 1 .. n |-> uses[k]] /\ UsesOf(i) = [k \in 1 .. n |-> UsesOf(i)[k]]
    BY <1>8 DEF UsesOf
  <2> QED BY <2>2, <2>3
<1>10. PICK R : R = EncodeAll(uses, to)
  OBVIOUS
<1>11. PICK at : at = OffsetsOf(i)
  OBVIOUS
<1>12. /\ at \in [1 .. n -> Nat] /\ \A k \in 1 .. n : at[k] = rels[k].offset
       /\ uses \in [1 .. n -> BOOLEAN]
       /\ RunOf(i) \in [0 .. n -> Run]
  BY <1>2, <1>9, <1>11, RunFacts
<1>13. to \in [1 .. n -> Nat] /\ \A k \in 1 .. n : to[k] = a + at[k]
  BY <1>7, <1>12
<1>14. \A k \in 0 .. n : Moved(R[k], RunOf(i)[k], a)
  <2>1. \A k \in 0 .. n : Moved(EncodeAll(uses, to)[k], EncodeAll(uses, at)[k], a)
    BY <1>3, <1>12, <1>13, RunsMoved
  <2> QED BY <1>9, <1>10, <1>11, <2>1 DEF RunOf
<1>15. R \in [0 .. n -> Run]
  <2>1. IsEncoding(R, n, uses, to)
    BY <1>3, <1>10, <1>12, <1>13, EncodeAllFacts
  <2> QED BY <2>1 DEF IsEncoding
<1>16. W = [k \in 1 .. n |->
              IF L[k] THEN ApplyRelocation(rels[k], section, Encode(R[k - 1], to[k]))
              ELSE Taking(<<>>, "skipped", rels[k].symbol)]
  <2>1. DOMAIN prog.sections[i].relocations = 1 .. n /\ prog.sections[i].relocations = rels
    BY <1>2, <1>3 DEF Rels
  <2> QED BY <1>1, <1>5, <1>6, <1>7, <1>8, <1>10, <2>1 DEF WriteSection
<1>17. ASSUME NEW k \in 1 .. n PROVE IsWritten(i, k, p, W[k])
  <2>1. CASE L[k]
    <3>1. PICK e : e = Encode(R[k - 1], to[k])
      OBVIOUS
    <3>2. W[k] = ApplyRelocation(rels[k], section, e)
      BY <1>16, <2>1, <3>1
    <3>3. PICK r, w : r = RunOf(i)[k - 1] /\ w = R[k - 1]
      OBVIOUS
    <3>4. k - 1 \in 0 .. n
      BY <1>3
    <3>5. r \in Run /\ w \in Run /\ Moved(w, r, a)
      BY <1>12, <1>14, <1>15, <3>3, <3>4
    <3>6. PICK x \in Nat : x = at[k]
      BY <1>12
    <3>7. Encode(w, a + x).new = Encode(r, x).new
      BY <3>5, EncodeMoved
    <3>8. a + x \in Nat /\ e = Encode(w, a + x)
      BY <1>13, <3>1, <3>3, <3>6
    <3>9. e.new \in BOOLEAN
      BY <3>5, <3>8, EncodeType
    <3>10. e.new = Encode(RunOf(i)[k - 1], OffsetsOf(i)[k]).new
      BY <1>11, <3>3, <3>6, <3>7, <3>8
    <3>11. PICK rel : rel = Rels(i)[k]
      OBVIOUS
    <3>12. Satisfied(i, k, flags[rel.symbol], tlsld)
      BY <1>4, <2>1, <3>11 DEF SectionOk
    <3>13. LiveOf(i)[k]
      BY <1>4, <2>1
    <3>14. IsWritten(i, k, p, ApplyRelocation(rel, section, e))
      BY <1>1, <3>9, <3>10, <3>11, <3>12, <3>13, RelocationTakes
    <3> QED BY <1>2, <3>2, <3>11, <3>14
  <2>2. CASE ~L[k]
    <3>1. W[k] = [takes |-> <<>>, means |-> <<"skipped", rels[k].symbol>>]
      BY <1>16, <2>2 DEF Taking
    <3>2. Reserved(i, k, p) = 0
      BY <1>4, <2>2 DEF Reserved
    <3>3. W[k].takes = <<>> /\ W[k].means[1] = "skipped"
      BY <3>1
    <3> QED BY <3>2, <3>3, TakesNone DEF IsWritten
  <2> QED BY <2>1, <2>2
<1> QED BY <1>3, <1>16, <1>17

(* The whole section. *)
NoneOf(W, what) == \A k \in DOMAIN W : W[k].means[1] # what

(* The writer takes from every part what was reserved for the section,     *)
(* unless it rejects one of its relocations as the user's error.           *)
LEMMA SectionTakes ==
  ASSUME prog \in Programs, SymbolsOk, GotOk, NEW i \in Sections, SectionOk(i), NEW p \in Parts,
         NEW W, W = WriteSection(i)
  PROVE  /\ Takes(W) \in Seq(Entry)
         /\ NoneOf(W, "user") => NoneOf(W, "missing") /\ NumTaken(Takes(W), p) = Sum(ReservedIn(i, p))
<1>1. PICK n : n = Len(Rels(i))
  OBVIOUS
<1>2. n \in Nat /\ DOMAIN W = 1 .. n /\ \A k \in 1 .. n : IsWritten(i, k, p, W[k])
  BY <1>1, SectionWritten
<1>3. PICK q : q = [k \in 1 .. n |-> W[k].takes]
  OBVIOUS
<1>4. q \in [1 .. n -> Seq(Entry)]
  BY <1>2, <1>3 DEF IsWritten
<1>5. q \in Seq(Seq(Entry)) /\ Len(q) = n
  BY <1>2, <1>4, IsSeq
<1>6. /\ Join(q) \in Seq(Entry)
      /\ NumTaken(Join(q), p) = Sum([k \in 1 .. n |-> NumTaken(q[k], p)])
  BY <1>5, NumTakenJoin
<1>7. Takes(W) = Join(q)
  BY <1>2, <1>3 DEF Takes
<1>8. ASSUME NoneOf(W, "user") PROVE NoneOf(W, "missing") /\ NumTaken(Takes(W), p) = Sum(ReservedIn(i, p))
  <2>1. \A k \in 1 .. n : W[k].means[1] # "missing" /\ NumTaken(q[k], p) = Reserved(i, k, p)
    BY <1>2, <1>3, <1>8 DEF NoneOf, IsWritten
  <2>2. [k \in 1 .. n |-> NumTaken(q[k], p)] = ReservedIn(i, p)
    BY <1>1, <2>1 DEF ReservedIn
  <2> QED BY <1>2, <1>6, <1>7, <2>1, <2>2 DEF NoneOf
<1> QED BY <1>6, <1>7, <1>8

-----------------------------------------------------------------------------
(* What the writer takes for a file.                                       *)

(* All relocations of a section. *)
Full == [i \in Sections |-> Len(Rels(i))]
(* What the writer makes of the sections of file g. *)
WrittenOf(g) == [i \in Sections |-> IF prog.sections[i].file = g THEN WriteSection(i) ELSE <<>>]
NoneIn(W, what) == \A i \in Sections : NoneOf(W[i], what)

(* The sections of a file take what the scan reserved for them. *)
LEMMA SectionsTake ==
  ASSUME prog \in Programs, SymbolsOk, GotOk, \A i \in Sections : SectionOk(i), NEW g, NEW p \in Parts,
         NEW W, W = WrittenOf(g)
  PROVE  /\ Join([i \in Sections |-> Takes(W[i])]) \in Seq(Entry)
         /\ NoneIn(W, "user") =>
              /\ NoneIn(W, "missing")
              /\ NumTaken(Join([i \in Sections |-> Takes(W[i])]), p) = Sum(TotalsOf(g, p, Full))
<1>1. PICK n : n = Len(prog.sections)
  OBVIOUS
<1>2. n \in Nat /\ Sections = 1 .. n
  BY <1>1, ProgramFacts
<1>3. /\ Takes(<<>>) \in Seq(Entry) /\ NumTaken(Takes(<<>>), p) = 0
      /\ \A what : NoneOf(<<>>, what)
  <2>1. DOMAIN <<>> = {}
    OBVIOUS
  <2>2. PICK e : e = [k \in DOMAIN <<>> |-> <<>>[k].takes]
    OBVIOUS
  <2>3. e = <<>>
    BY <2>1, <2>2
  <2>4. e \in Seq(Seq(Entry)) /\ Len(e) = 0
    BY <2>3
  <2>5. PICK m : m = 0
    OBVIOUS
  <2>6. Join(e) \in Seq(Entry) /\ NumTaken(Join(e), p) = Sum([k \in 1 .. m |-> NumTaken(e[k], p)])
    BY <2>4, <2>5, NumTakenJoin
  <2>7. [k \in 1 .. m |-> NumTaken(e[k], p)] = [k \in 1 .. m |-> 0]
    BY <2>5
  <2>8. Sum([k \in 1 .. m |-> 0]) = 0
    BY <2>5, SumSame
  <2>9. Takes(<<>>) = Join(e)
    BY <2>2 DEF Takes
  <2> QED BY <2>1, <2>6, <2>7, <2>8, <2>9 DEF NoneOf
<1>4. ASSUME NEW i \in Sections
      PROVE  /\ Takes(W[i]) \in Seq(Entry)
             /\ NoneOf(W[i], "user") =>
                  NoneOf(W[i], "missing") /\ NumTaken(Takes(W[i]), p) = TotalsOf(g, p, Full)[i]
  <2>1. CASE prog.sections[i].file = g
    <3>1. PICK w : w = WriteSection(i)
      OBVIOUS
    <3>2. W[i] = w
      BY <2>1, <3>1 DEF WrittenOf
    <3>3. SectionOk(i)
      OBVIOUS
    <3>4. /\ Takes(w) \in Seq(Entry)
          /\ NoneOf(w, "user") => NoneOf(w, "missing") /\ NumTaken(Takes(w), p) = Sum(ReservedIn(i, p))
      BY <3>1, <3>3, SectionTakes
    <3>5. Sum(ReservedIn(i, p)) = TotalsOf(g, p, Full)[i]
      <4>1. PICK m : m = Len(Rels(i))
        OBVIOUS
      <4>2. m \in Nat /\ ReservedIn(i, p) \in [1 .. m -> Nat]
        BY <4>1, SectionFacts, ReservedType
      <4>3. Len(ReservedIn(i, p)) = m
        BY <4>2, IsSeq
      <4>4. Full[i] = m
        BY <4>1 DEF Full
      <4>5. TotalsOf(g, p, Full)[i] = Sums(ReservedIn(i, p))[m]
        BY <2>1, <4>4 DEF TotalsOf
      <4> QED BY <4>3, <4>5 DEF Sum
    <3> QED BY <3>2, <3>4, <3>5
  <2>2. CASE prog.sections[i].file # g
    <3>1. W[i] = <<>>
      BY <2>2 DEF WrittenOf
    <3>2. TotalsOf(g, p, Full)[i] = 0
      BY <2>2 DEF TotalsOf
    <3> QED BY <1>3, <3>1, <3>2
  <2> QED BY <2>1, <2>2
<1>5. PICK q : q = [i \in Sections |-> Takes(W[i])]
  OBVIOUS
<1>6. q \in [1 .. n -> Seq(Entry)]
  BY <1>2, <1>4, <1>5
<1>7. q \in Seq(Seq(Entry)) /\ Len(q) = n
  BY <1>2, <1>6, IsSeq
<1>8. Join(q) \in Seq(Entry) /\ NumTaken(Join(q), p) = Sum([i \in 1 .. n |-> NumTaken(q[i], p)])
  BY <1>7, NumTakenJoin
<1>9. ASSUME NoneIn(W, "user")
      PROVE  NoneIn(W, "missing") /\ NumTaken(Join(q), p) = Sum(TotalsOf(g, p, Full))
  <2>1. \A i \in Sections : NoneOf(W[i], "missing") /\ NumTaken(q[i], p) = TotalsOf(g, p, Full)[i]
    BY <1>4, <1>5, <1>9 DEF NoneIn
  <2>2. [i \in 1 .. n |-> NumTaken(q[i], p)] = TotalsOf(g, p, Full)
    BY <1>2, <2>1 DEF TotalsOf
  <2> QED BY <1>8, <2>1, <2>2 DEF NoneIn
<1> QED BY <1>5, <1>8, <1>9

(* Rounding up is dividing, and one more for a remainder. *)
LEMMA RoundUp ==
  ASSUME NEW m \in Nat, NEW r \in Nat \ {0}
  PROVE  /\ (m + r - 1) \div r = (m \div r) + Count(m % r > 0)
         /\ m \div r \in Nat
<1>1. PICK q \in Int, x \in Int : q = m \div r /\ x = m % r
  <2>1. m \div r \in Int /\ m % r \in Int
    OBVIOUS
  <2> QED BY <2>1
<1>2. m = r * q + x /\ 0 <= x /\ x < r
  <2>1. m = r * q + x
    BY <1>1
  <2>2. 0 <= m % r /\ m % r < r
    OBVIOUS
  <2> QED BY <1>1, <2>1, <2>2
<1>3. PICK d \in Int, y \in Int : d = (m + r - 1) \div r /\ y = (m + r - 1) % r
  <2>1. (m + r - 1) \div r \in Int /\ (m + r - 1) % r \in Int
    OBVIOUS
  <2> QED BY <2>1
<1>4. m + r - 1 = r * d + y /\ 0 <= y /\ y < r
  <2>1. PICK z \in Int : z = m + r - 1
    OBVIOUS
  <2>2. d = z \div r /\ y = z % r
    BY <1>3, <2>1
  <2>3. z = r * d + y
    BY <2>2
  <2>4. 0 <= z % r /\ z % r < r
    OBVIOUS
  <2> QED BY <2>1, <2>2, <2>3, <2>4
<1>5. PICK e \in Int : e = d - q
  OBVIOUS
<1>6. PICK re \in Int : re = r * e
  OBVIOUS
<1>7. re = r * d - r * q
  BY <1>5, <1>6
<1>8. x + r - 1 = re + y
  BY <1>2, <1>4, <1>7
<1>9. e >= 2 => re >= r + r
  BY <1>6
<1>10. e <= -1 => re <= -r
  BY <1>6
<1>11. (e = 0 => re = 0) /\ (e = 1 => re = r)
  BY <1>6
<1>12. e \in {0, 1}
  BY <1>2, <1>4, <1>8, <1>9, <1>10
<1>13. e = IF x > 0 THEN 1 ELSE 0
  BY <1>2, <1>4, <1>8, <1>11, <1>12
<1>14. q >= 0
  <2>1. q <= -1 => r * q <= -r
    OBVIOUS
  <2>2. PICK w \in Int : w = r * q
    OBVIOUS
  <2> QED BY <1>2, <2>1, <2>2
<1>15. d = q + Count(x > 0)
  BY <1>5, <1>13 DEF Count
<1> QED BY <1>1, <1>3, <1>14, <1>15

(* There are finitely many symbols. *)
LEMMA CopiesCounted ==
  ASSUME prog \in Programs, copies \subseteq Symbols
  PROVE  Cardinality(copies) \in Nat
<1>1. PICK n \in Nat : n = Len(prog.symbols) /\ Symbols = 1 .. n
  BY ProgramFacts
<1>2. IsFiniteSet(1 .. n)
  BY FS_Interval
<1>3. IsFiniteSet(copies)
  BY <1>1, <1>2, FS_Subset
<1> QED BY <1>3, FS_CardinalityType

(* What the sizes are made of before the late adjustments, and what those  *)
(* add.                                                                    *)
Planned ==
  [g \in Files |-> [p \in Parts |-> (Sum(TotalsOf(g, p, Full)) + FilePart(g, p)) + Sum(AllocatedOf(g, p))]]
Sizes == [Files -> [Parts -> Nat]]
HeaderOf(sz) == IF Total(sz, "RELA_PLT") > 0 THEN GotHeader ELSE 0
BitmapOf(sz) == IF prog.relr THEN GotRelrBitmapCount(Total(sz, "GOT_RELR")) ELSE 0
More(sz, g, p) ==
  IF g = "prelude" /\ p = "GOT" THEN HeaderOf(sz)
  ELSE IF g = "epilogue" /\ p = "RELR" THEN BitmapOf(sz)
  ELSE 0

(* Totals are numbers, and depend on one part only. *)
LEMMA TotalFacts ==
  ASSUME prog \in Programs, NEW sz \in Sizes, NEW p \in Parts
  PROVE  /\ Total(sz, p) \in Nat
         /\ \A other \in Sizes : (\A g \in Files : other[g][p] = sz[g][p]) => Total(other, p) = Total(sz, p)
<1>1. PICK n : n = Len(prog.files)
  OBVIOUS
<1>2. n \in Nat /\ DOMAIN prog.files = 1 .. n /\ \A k \in 1 .. n : prog.files[k] \in Files
  BY <1>1, ProgramFacts
<1>3. PICK q : q = [k \in 1 .. n |-> sz[prog.files[k]][p]]
  OBVIOUS
<1>4. q \in [1 .. n -> Nat]
  BY <1>2, <1>3 DEF Sizes
<1>5. q \in Seq(Nat)
  BY <1>2, <1>4, IsSeq
<1>6. Total(sz, p) = Sum(q)
  BY <1>2, <1>3 DEF Total
<1>7. Total(sz, p) \in Nat
  BY <1>5, <1>6, SumType
<1>8. ASSUME NEW other \in Sizes, \A g \in Files : other[g][p] = sz[g][p] PROVE Total(other, p) = Total(sz, p)
  <2>1. [k \in 1 .. n |-> other[prog.files[k]][p]] = q
    BY <1>2, <1>3, <1>8
  <2> QED BY <1>2, <1>6, <2>1 DEF Total
<1> QED BY <1>7, <1>8

(* What the late adjustments add. *)
LEMMA AdjustedFacts ==
  ASSUME prog \in Programs, NEW sz \in Sizes, NEW S, S = LateAdjustments(sz)
  PROVE  /\ S \in Sizes
         /\ \A g \in Files : \A p \in Parts : S[g][p] = sz[g][p] + More(S, g, p)
<1>1. "prelude" \in Files /\ "epilogue" \in Files /\ GotHeader \in Nat /\ RelrSlots \in Nat \ {0}
  BY ProgramFacts, RelocationsAssumption
<1>2. "GOT" \in Parts /\ "RELR" \in Parts /\ "RELA_PLT" \in Parts /\ "GOT_RELR" \in Parts
  BY DEF Parts
<1>3. Total(sz, "RELA_PLT") \in Nat /\ Total(sz, "GOT_RELR") \in Nat
  BY <1>2, TotalFacts
<1>4. PICK h \in Nat : h = HeaderOf(sz)
  BY <1>1 DEF HeaderOf
<1>5. BitmapOf(sz) \in Nat
  <2>1. PICK n \in Nat : n = Total(sz, "GOT_RELR")
    BY <1>3
  <2>2. CASE n = 0 \/ ~prog.relr
    BY <2>1, <2>2 DEF BitmapOf, GotRelrBitmapCount
  <2>3. CASE n # 0 /\ prog.relr
    <3>1. PICK m \in Nat : m = n - 1
      BY <2>3
    <3>2. (m + RelrSlots - 1) \div RelrSlots = (m \div RelrSlots) + Count(m % RelrSlots > 0) /\ m \div RelrSlots \in Nat
      BY <1>1, RoundUp
    <3>3. BitmapOf(sz) = 1 + ((m + RelrSlots - 1) \div RelrSlots)
      BY <2>1, <2>3, <3>1 DEF BitmapOf, GotRelrBitmapCount
    <3> QED BY <3>2, <3>3 DEF Count
  <2> QED BY <2>2, <2>3
<1>6. PICK b \in Nat : b = BitmapOf(sz)
  BY <1>5
<1>7. S = [sz EXCEPT !["prelude"]["GOT"] = sz["prelude"]["GOT"] + h, !["epilogue"]["RELR"] = sz["epilogue"]["RELR"] + b]
  BY <1>1, <1>2, <1>4, <1>6 DEF LateAdjustments, HeaderOf, BitmapOf, Sizes
<1>8. /\ S \in Sizes
      /\ \A g \in Files : \A p \in Parts :
           S[g][p] = IF g = "prelude" /\ p = "GOT" THEN sz[g][p] + h
                     ELSE IF g = "epilogue" /\ p = "RELR" THEN sz[g][p] + b
                     ELSE sz[g][p]
  <2>1. PICK a : a = [sz["prelude"] EXCEPT !["GOT"] = sz["prelude"]["GOT"] + h]
    OBVIOUS
  <2>2. PICK c : c = [sz["epilogue"] EXCEPT !["RELR"] = sz["epilogue"]["RELR"] + b]
    OBVIOUS
  <2>3. sz["prelude"] \in [Parts -> Nat] /\ sz["epilogue"] \in [Parts -> Nat]
    BY <1>1 DEF Sizes
  <2>4. /\ a \in [Parts -> Nat]
        /\ \A p \in Parts : a[p] = IF p = "GOT" THEN sz["prelude"][p] + h ELSE sz["prelude"][p]
    BY <1>2, <2>1, <2>3
  <2>5. /\ c \in [Parts -> Nat]
        /\ \A p \in Parts : c[p] = IF p = "RELR" THEN sz["epilogue"][p] + b ELSE sz["epilogue"][p]
    BY <1>2, <2>2, <2>3
  <2>6. S = [[sz EXCEPT !["prelude"] = a] EXCEPT !["epilogue"] = c]
    BY <1>7, <2>1, <2>2
  <2>7. PICK T : T = [sz EXCEPT !["prelude"] = a]
    OBVIOUS
  <2>8. T \in Sizes /\ \A g \in Files : T[g] = IF g = "prelude" THEN a ELSE sz[g]
    BY <1>1, <2>4, <2>7 DEF Sizes
  <2>9. S \in Sizes /\ \A g \in Files : S[g] = IF g = "epilogue" THEN c ELSE T[g]
    BY <1>1, <2>5, <2>6, <2>7, <2>8 DEF Sizes
  <2> QED BY <2>4, <2>5, <2>8, <2>9
<1>9. \A p \in {"RELA_PLT", "GOT_RELR"} : Total(S, p) = Total(sz, p)
  <2> SUFFICES ASSUME NEW p \in {"RELA_PLT", "GOT_RELR"} PROVE Total(S, p) = Total(sz, p)
    OBVIOUS
  <2>1. p \in Parts /\ \A g \in Files : S[g][p] = sz[g][p]
    BY <1>2, <1>8
  <2> QED BY <1>8, <2>1, TotalFacts
<1>10. HeaderOf(S) = h /\ BitmapOf(S) = b
  BY <1>4, <1>6, <1>9 DEF HeaderOf, BitmapOf
<1>11. ASSUME NEW g \in Files, NEW p \in Parts PROVE S[g][p] = sz[g][p] + More(S, g, p)
  <2>1. sz[g][p] \in Nat
    BY DEF Sizes
  <2>2. CASE g = "prelude" /\ p = "GOT"
    BY <1>8, <1>10, <2>1, <2>2 DEF More
  <2>3. CASE g = "epilogue" /\ p = "RELR"
    BY <1>8, <1>10, <2>1, <2>3 DEF More
  <2>4. CASE ~(g = "prelude" /\ p = "GOT") /\ ~(g = "epilogue" /\ p = "RELR")
    BY <1>8, <2>1, <2>4 DEF More
  <2> QED BY <2>2, <2>3, <2>4
<1> QED BY <1>8, <1>11

(* The entries that no symbol and no relocation needs. *)
LEMMA OwnTakes ==
  ASSUME prog \in Programs, copies \subseteq Symbols, sizes \in Sizes, NEW g \in Files, NEW p \in Parts
  PROVE  /\ OwnEntries(g) \in Seq(Entry) /\ FilePart(g, p) \in Nat
         /\ NumTaken(OwnEntries(g), p) = FilePart(g, p) + More(sizes, g, p)
<1>1. GotHeader \in Nat /\ RelrSlots \in Nat \ {0}
  BY RelocationsAssumption
<1>2. PICK c \in Nat : c = Cardinality(copies)
  BY CopiesCounted
<1>3. Rela(None) \in Entry /\ Rela(None).part = "RELA_GENERAL"
  BY RelaType
<1>4. {"header", "this module", "module", "base", "bitmap"} \subseteq Whats /\ "RELR" \in Parts \cup {"done"}
  BY DEF Whats, Parts
<1>5. CASE g = "prelude"
  <2>1. PICK h \in Nat : h = HeaderOf(sizes)
    BY <1>1 DEF HeaderOf
  <2>2. PICK t, u, m, b, r : /\ t = Take("GOT", "header", None) /\ u = Take("GOT", "this module", None)
                             /\ m = Take("GOT", "module", None) /\ b = Take("GOT", "base", None) /\ r = Rela(None)
    OBVIOUS
  <2>3. /\ t \in Entry /\ t.part = "GOT" /\ u \in Entry /\ u.part = "GOT" /\ m \in Entry /\ m.part = "GOT"
        /\ b \in Entry /\ b.part = "GOT" /\ r \in Entry /\ r.part = "RELA_GENERAL"
    BY <1>3, <1>4, <2>2, GotType
  <2>4. PICK x : x = Repeat(h, t)
    OBVIOUS
  <2>5. PICK y : y = IF ~tlsld THEN <<>> ELSE IF IsExecutable THEN <<u, b>> ELSE <<m, r, b>>
    OBVIOUS
  <2>6. OwnEntries(g) = x \o y
    BY <1>5, <2>1, <2>2, <2>4, <2>5 DEF OwnEntries, HeaderOf
  <2>7. x \in Seq(Entry) /\ NumTaken(x, p) = IF p = "GOT" THEN h ELSE 0
    BY <2>3, <2>4, NumTakenRepeat
  <2>8. y \in Seq(Entry) /\ NumTaken(y, p) = FilePart(g, p) /\ FilePart(g, p) \in Nat
    <3>1. CASE ~tlsld
      <4>1. FilePart(g, p) = 0
        BY <1>5, <3>1 DEF FilePart
      <4> QED BY <2>5, <3>1, <4>1, TakesNone
    <3>2. CASE tlsld /\ IsExecutable
      <4>1. FilePart(g, p) = IF p = "GOT" THEN 2 ELSE 0
        BY <1>5, <3>2 DEF FilePart, Count
      <4>2. <<u, b>> \in Seq(Entry) /\ NumTaken(<<u, b>>, p) = IF p = "GOT" THEN 2 ELSE 0
        BY <2>3, TakesTwo
      <4> QED BY <2>5, <3>2, <4>1, <4>2
    <3>3. CASE tlsld /\ ~IsExecutable
      <4>1. FilePart(g, p) = IF p = "GOT" THEN 2 ELSE IF p = "RELA_GENERAL" THEN 1 ELSE 0
        BY <1>5, <3>3 DEF FilePart, Count
      <4>2. <<m, r, b>> \in Seq(Entry)
            /\ NumTaken(<<m, r, b>>, p) = IF p = "GOT" THEN 2 ELSE IF p = "RELA_GENERAL" THEN 1 ELSE 0
        BY <2>3, TakesThree
      <4> QED BY <2>5, <3>3, <4>1, <4>2
    <3> QED BY <3>1, <3>2, <3>3
  <2>9. x \o y \in Seq(Entry) /\ NumTaken(x \o y, p) = NumTaken(x, p) + NumTaken(y, p)
    BY <2>7, <2>8, NumTakenConcat
  <2>10. More(sizes, g, p) = IF p = "GOT" THEN h ELSE 0
    BY <1>5, <2>1 DEF More
  <2> QED BY <2>6, <2>7, <2>8, <2>9, <2>10
<1>6. CASE g = "epilogue"
  <2>1. FilePart(g, p) = 0
    BY <1>6 DEF FilePart
  <2>2. More(sizes, g, p) = IF p = "RELR" THEN BitmapOf(sizes) ELSE 0
    BY <1>6 DEF More
  <2>3. PICK n \in Nat : n = Total(sizes, "GOT_RELR")
    <3>1. "GOT_RELR" \in Parts
      BY DEF Parts
    <3> QED BY <3>1, TotalFacts
  <2>4. CASE ~prog.relr \/ n = 0
    <3>1. OwnEntries(g) = <<>>
      BY <1>6, <2>3, <2>4 DEF OwnEntries
    <3>2. BitmapOf(sizes) = 0
      BY <2>3, <2>4 DEF BitmapOf, GotRelrBitmapCount
    <3> QED BY <2>1, <2>2, <3>1, <3>2, TakesNone
  <2>5. CASE prog.relr /\ n # 0
    <3>1. PICK m \in Nat : m = n - 1
      BY <2>5
    <3>2. PICK t : t = Take("RELR", "bitmap", None)
      OBVIOUS
    <3>3. t \in Entry /\ t.part = "RELR"
      BY <1>4, <3>2, TakeType
    <3>4. PICK c1 : c1 = 1 + (m \div RelrSlots) + Count(m % RelrSlots > 0)
      OBVIOUS
    <3>5. OwnEntries(g) = Repeat(c1, t)
      BY <1>6, <2>3, <2>5, <3>1, <3>2, <3>4 DEF OwnEntries
    <3>6. (m + RelrSlots - 1) \div RelrSlots = (m \div RelrSlots) + Count(m % RelrSlots > 0) /\ m \div RelrSlots \in Nat
      BY <1>1, RoundUp
    <3>7. BitmapOf(sizes) = 1 + ((m + RelrSlots - 1) \div RelrSlots)
      BY <2>3, <2>5, <3>1 DEF BitmapOf, GotRelrBitmapCount
    <3>8. PICK d \in Nat, e \in Nat : d = m \div RelrSlots /\ e = Count(m % RelrSlots > 0)
      BY <3>6 DEF Count
    <3>9. c1 = 1 + d + e /\ BitmapOf(sizes) = 1 + (d + e)
      BY <3>4, <3>6, <3>7, <3>8
    <3>10. c1 \in Nat /\ c1 = BitmapOf(sizes)
      BY <3>9
    <3>11. Repeat(c1, t) \in Seq(Entry) /\ NumTaken(Repeat(c1, t), p) = IF "RELR" = p THEN c1 ELSE 0
      BY <3>3, <3>10, NumTakenRepeat
    <3> QED BY <2>1, <2>2, <3>5, <3>10, <3>11
  <2> QED BY <2>4, <2>5
<1>7. CASE g = "so"
  <2>1. OwnEntries(g) = Repeat(c, Rela(None))
    BY <1>2, <1>7 DEF OwnEntries
  <2>2. PICK r : r = Rela(None)
    OBVIOUS
  <2>3. Repeat(c, r) \in Seq(Entry) /\ NumTaken(Repeat(c, r), p) = IF p = "RELA_GENERAL" THEN c ELSE 0
    BY <1>3, <2>2, NumTakenRepeat
  <2>4. FilePart(g, p) = IF p = "RELA_GENERAL" THEN c ELSE 0
    BY <1>2, <1>7 DEF FilePart
  <2>5. More(sizes, g, p) = 0
    BY <1>7 DEF More
  <2> QED BY <2>1, <2>2, <2>3, <2>4, <2>5
<1>8. CASE g \notin {"prelude", "epilogue", "so"}
  <2>1. OwnEntries(g) = <<>> /\ FilePart(g, p) = 0 /\ More(sizes, g, p) = 0
    BY <1>8 DEF OwnEntries, FilePart, More
  <2> QED BY <2>1, TakesNone
<1> QED BY <1>5, <1>6, <1>7, <1>8

(* So is what is reserved for a file itself. *)
LEMMA FilePartType ==
  ASSUME prog \in Programs, SymbolsOk, NEW g, NEW p
  PROVE  FilePart(g, p) \in Nat
<1>1. Cardinality(copies) \in Nat
  BY CopiesCounted DEF SymbolsOk
<1>2. CASE g = "prelude" /\ tlsld
  BY <1>2 DEF FilePart, Count
<1>3. CASE ~(g = "prelude" /\ tlsld)
  BY <1>1, <1>3 DEF FilePart
<1> QED BY <1>2, <1>3

(* The planned sizes are numbers. *)
LEMMA PlannedType ==
  ASSUME prog \in Programs, SymbolsOk
  PROVE  /\ Planned \in Sizes
         /\ \A g \in Files : \A p \in Parts :
              /\ Sum(TotalsOf(g, p, Full)) \in Nat /\ FilePart(g, p) \in Nat /\ Sum(AllocatedOf(g, p)) \in Nat
              /\ Planned[g][p] = (Sum(TotalsOf(g, p, Full)) + FilePart(g, p)) + Sum(AllocatedOf(g, p))
<1>1. ASSUME NEW g \in Files, NEW p \in Parts
      PROVE  Sum(TotalsOf(g, p, Full)) \in Nat /\ FilePart(g, p) \in Nat /\ Sum(AllocatedOf(g, p)) \in Nat
  <2>1. PICK n, m : n = Len(prog.sections) /\ m = Len(prog.symbols)
    OBVIOUS
  <2>2. PICK r : r = Full
    OBVIOUS
  <2>3. \A j \in Sections : r[j] \in 0 .. Len(Rels(j))
    <3> SUFFICES ASSUME NEW j \in Sections PROVE r[j] \in 0 .. Len(Rels(j))
      OBVIOUS
    <3>1. Len(Rels(j)) \in Nat /\ r[j] = Len(Rels(j))
      BY <2>2, SectionFacts DEF Full
    <3> QED BY <3>1
  <2>4. Sum(TotalsOf(g, p, r)) \in Nat
    BY <2>1, <2>3, TotalsType
  <2>5. FilePart(g, p) \in Nat
    BY FilePartType
  <2>6. AllocatedOf(g, p) \in [1 .. m -> Nat] /\ m \in Nat
    BY <2>1, ProgramFacts, AllocationType DEF AllocatedOf
  <2>7. AllocatedOf(g, p) \in Seq(Nat)
    BY <2>6, IsSeq
  <2> QED BY <2>2, <2>4, <2>5, <2>7, SumType
<1>2. \A g \in Files : \A p \in Parts :
        Planned[g][p] = (Sum(TotalsOf(g, p, Full)) + FilePart(g, p)) + Sum(AllocatedOf(g, p))
  BY DEF Planned
<1>3. Planned = [g \in Files |-> [p \in Parts |-> Planned[g][p]]]
  BY DEF Planned
<1>4. \A g \in Files : \A p \in Parts : Planned[g][p] \in Nat
  BY <1>1, <1>2
<1>5. Planned \in Sizes
  BY <1>3, <1>4 DEF Sizes
<1> QED BY <1>1, <1>2, <1>5

(* What the writer takes for a file. *)
TakesOf(g) == (Join([i \in Sections |-> Takes(WrittenOf(g)[i])]) \o OwnEntries(g)) \o ProcessResolutions(g)
WriterOk == GotOk /\ (\A i \in Sections : SectionOk(i)) /\ sizes \in Sizes /\ sizes = LateAdjustments(Planned)

(* A file that the writer does not reject takes no more than there is, and *)
(* without a thread-local offset that is not used all of it.               *)
LEMMA FileTakes ==
  ASSUME prog \in Programs, SymbolsOk, WriterOk, NEW g \in Files, NEW p \in Parts
  PROVE  /\ TakesOf(g) \in Seq(Entry)
         /\ NoneIn(WrittenOf(g), "user") =>
              /\ NoneIn(WrittenOf(g), "missing") /\ NumTaken(TakesOf(g), p) <= sizes[g][p]
              /\ NoneUnused(g, p) => NumTaken(TakesOf(g), p) = sizes[g][p]
<1>1. GotOk /\ (\A i \in Sections : SectionOk(i)) /\ sizes \in Sizes /\ sizes = LateAdjustments(Planned)
  BY DEF WriterOk
<1>2. PICK W : W = WrittenOf(g)
  OBVIOUS
<1>3. PICK a : a = Join([i \in Sections |-> Takes(W[i])])
  OBVIOUS
<1>4. PICK b, c : b = OwnEntries(g) /\ c = ProcessResolutions(g)
  OBVIOUS
<1>5. /\ a \in Seq(Entry)
      /\ NoneIn(W, "user") => NoneIn(W, "missing") /\ NumTaken(a, p) = Sum(TotalsOf(g, p, Full))
  <2>1. \A i \in Sections : SectionOk(i)
    BY <1>1
  <2> QED BY <1>1, <1>2, <1>3, <2>1, SectionsTake
<1>6. b \in Seq(Entry) /\ NumTaken(b, p) = FilePart(g, p) + More(sizes, g, p)
  <2>1. copies \subseteq Symbols
    BY DEF SymbolsOk
  <2> QED BY <1>1, <1>4, <2>1, OwnTakes
<1>7. /\ c \in Seq(Entry) /\ NumTaken(c, p) <= Sum(AllocatedOf(g, p))
      /\ NoneUnused(g, p) => NumTaken(c, p) = Sum(AllocatedOf(g, p))
  <2>1. PICK n : n = Len(prog.symbols)
    OBVIOUS
  <2> QED BY <1>1, <1>4, <2>1, SymbolsTake
<1>8. PICK d : d = a \o b
  OBVIOUS
<1>9. d \in Seq(Entry) /\ NumTaken(d, p) = NumTaken(a, p) + NumTaken(b, p)
  BY <1>5, <1>6, <1>8, NumTakenConcat
<1>10. d \o c \in Seq(Entry) /\ NumTaken(d \o c, p) = NumTaken(d, p) + NumTaken(c, p)
  BY <1>7, <1>9, NumTakenConcat
<1>11. TakesOf(g) = d \o c
  BY <1>2, <1>3, <1>4, <1>8 DEF TakesOf
<1>12. ASSUME NoneIn(W, "user")
       PROVE  /\ NoneIn(W, "missing") /\ NumTaken(TakesOf(g), p) <= sizes[g][p]
              /\ NoneUnused(g, p) => NumTaken(TakesOf(g), p) = sizes[g][p]
  <2>1. PICK B : B = Planned
    OBVIOUS
  <2>2. /\ B \in Sizes
        /\ Sum(TotalsOf(g, p, Full)) \in Nat /\ FilePart(g, p) \in Nat /\ Sum(AllocatedOf(g, p)) \in Nat
        /\ B[g][p] = (Sum(TotalsOf(g, p, Full)) + FilePart(g, p)) + Sum(AllocatedOf(g, p))
    BY <1>1, <2>1, PlannedType
  <2>3. sizes[g][p] = B[g][p] + More(sizes, g, p)
    BY <1>1, <2>1, <2>2, AdjustedFacts
  <2>4. More(sizes, g, p) \in Int
    <3>1. sizes[g][p] \in Nat
      BY <1>1 DEF Sizes
    <3>2. "RELA_PLT" \in Parts /\ "GOT_RELR" \in Parts /\ GotHeader \in Nat /\ RelrSlots \in Nat \ {0}
      BY RelocationsAssumption DEF Parts
    <3>3. PICK n \in Nat : n = Total(sizes, "GOT_RELR")
      BY <1>1, <3>2, TotalFacts
    <3>4. (n - 1 + RelrSlots - 1) \div RelrSlots \in Int
      BY <3>2
    <3> QED BY <3>2, <3>3, <3>4 DEF More, HeaderOf, BitmapOf, GotRelrBitmapCount
  <2>5. PICK t \in Nat, f \in Nat, s \in Nat, m \in Int :
          t = Sum(TotalsOf(g, p, Full)) /\ f = FilePart(g, p) /\ s = Sum(AllocatedOf(g, p)) /\ m = More(sizes, g, p)
    BY <2>2, <2>4
  <2>6. PICK u \in Nat : u = NumTaken(c, p)
    BY <1>7, MarksType
  <2>7. NumTaken(d \o c, p) = (t + (f + m)) + u
    BY <1>5, <1>6, <1>9, <1>10, <1>12, <2>5, <2>6
  <2>8. sizes[g][p] = ((t + f) + s) + m
    BY <2>2, <2>3, <2>5
  <2>9. u <= s /\ (NoneUnused(g, p) => u = s)
    BY <1>7, <2>5, <2>6
  <2>10. (t + (f + m)) + u <= ((t + f) + s) + m /\ (u = s => (t + (f + m)) + u = ((t + f) + s) + m)
    BY <2>9
  <2> QED BY <1>5, <1>11, <1>12, <2>7, <2>8, <2>9, <2>10
<1> QED BY <1>2, <1>10, <1>11, <1>12

-----------------------------------------------------------------------------
(* What does not change while files are written.                           *)

(* Nothing that is allocated for given flags depends on the state. *)
LEMMA SameAllocation ==
  ASSUME prog' = prog, NEW CONSTANT f
  PROVE  AllocateResolution(f)' = AllocateResolution(f)
<1>1. IsGotRelr(f)' <=> IsGotRelr(f)
  BY SameOutput DEF IsGotRelr
<1>2. ASSUME NEW CONSTANT n PROVE RelativeParts(n)' = RelativeParts(n)
  BY DEF RelativeParts
<1>3. prog.kind' = prog.kind
  OBVIOUS
<1> QED BY <1>1, <1>3, SameOutput DEF AllocateResolution, RelativeParts

(* Late adjustments are a function of the program and the sizes. *)
LEMMA SameAdjustments ==
  ASSUME prog' = prog, NEW CONSTANT sz
  PROVE  LateAdjustments(sz)' = LateAdjustments(sz)
<1>1. \A p : Total(sz, p)' = Total(sz, p)
  BY DEF Total
<1>2. PICK h : h = HeaderOf(sz)
  OBVIOUS
<1>3. PICK b : b = BitmapOf(sz)
  OBVIOUS
<1>4. h = HeaderOf(sz)' /\ b = BitmapOf(sz)'
  BY <1>1, <1>2, <1>3 DEF HeaderOf, BitmapOf
<1>5. LateAdjustments(sz) = [sz EXCEPT !["prelude"]["GOT"] = @ + h, !["epilogue"]["RELR"] = @ + b]
  BY <1>2, <1>3 DEF LateAdjustments, HeaderOf, BitmapOf
<1>6. LateAdjustments(sz)' = [sz EXCEPT !["prelude"]["GOT"] = @ + h, !["epilogue"]["RELR"] = @ + b]
  BY <1>4 DEF LateAdjustments, HeaderOf, BitmapOf
<1> QED BY <1>5, <1>6

(* The planned sizes stay, as long as the flags do. *)
LEMMA SamePlanned ==
  ASSUME prog' = prog, flags' = flags, tlsld' = tlsld, copies' = copies
  PROVE  Planned' = Planned
<1>1. Files' = Files /\ Symbols' = Symbols /\ Sections' = Sections
  BY SameOutput
<1>2. PICK r : r = Full
  OBVIOUS
<1>3. Full' = r
  BY <1>1, <1>2, SameRels DEF Full
<1>4. ASSUME NEW CONSTANT g, NEW CONSTANT p PROVE Sum(TotalsOf(g, p, Full))' = Sum(TotalsOf(g, p, Full))
  <2>1. TotalsOf(g, p, r)' = TotalsOf(g, p, r)
    BY SameTotals
  <2> QED BY <1>2, <1>3, <2>1
<1>5. ASSUME NEW CONSTANT g, NEW CONSTANT p PROVE FilePart(g, p)' = FilePart(g, p)
  BY SameOutput DEF FilePart
<1>6. ASSUME NEW CONSTANT g, NEW CONSTANT p PROVE AllocatedOf(g, p)' = AllocatedOf(g, p)
  <2>1. PICK fl : fl = flags
    OBVIOUS
  <2>2. \A s : AllocateResolution(fl[s])' = AllocateResolution(fl[s])
    <3> TAKE s
    <3>1. PICK f : f = fl[s]
      OBVIOUS
    <3>2. AllocateResolution(f)' = AllocateResolution(f)
      BY SameAllocation
    <3> QED BY <3>1, <3>2
  <2> QED BY <1>1, <2>1, <2>2 DEF AllocatedOf
<1> QED BY <1>1, <1>4, <1>5, <1>6 DEF Planned

(* The relocations of a section stay satisfied. *)
LEMMA SectionKept ==
  ASSUME prog' = prog, flags' = flags, tlsld' = tlsld, NEW CONSTANT i, SectionOk(i)
  PROVE  SectionOk(i)'
<1>1. PICK fl : fl = flags
  OBVIOUS
<1>2. PICK tls : tls = tlsld
  OBVIOUS
<1>3. Rels(i)' = Rels(i) /\ LiveOf(i)' = LiveOf(i)
  BY SameRels, SameTables
<1>4. PICK rels, L : rels = Rels(i) /\ L = LiveOf(i)
  OBVIOUS
<1>5. \A k : Satisfied(i, k, fl[rels[k].symbol], tls)' <=> Satisfied(i, k, fl[rels[k].symbol], tls)
  <2> TAKE k
  <2>1. PICK f : f = fl[rels[k].symbol]
    OBVIOUS
  <2>2. Satisfied(i, k, f, tls)' <=> Satisfied(i, k, f, tls)
    BY SameSatisfied
  <2> QED BY <2>1, <2>2
<1>6. \A k \in 1 .. Len(rels) : L[k] => Satisfied(i, k, fl[rels[k].symbol], tls)
  BY <1>1, <1>2, <1>4 DEF SectionOk
<1>7. \A k \in 1 .. Len(rels) : L[k] => Satisfied(i, k, fl[rels[k].symbol], tls)'
  BY <1>5, <1>6
<1>8. flags' = fl /\ tlsld' = tls /\ Rels(i)' = rels /\ LiveOf(i)' = L
  BY <1>1, <1>2, <1>3, <1>4
<1> QED BY <1>7, <1>8 DEF SectionOk

(* The flags of the symbols stay right. *)
LEMMA SymbolsKept ==
  ASSUME SymbolsOk, prog' = prog, flags' = flags, copies' = copies
  PROVE  SymbolsOk'
<1>1. Symbols' = Symbols
  BY SameOutput
<1>2. PICK fl : fl = flags
  OBVIOUS
<1>3. \A s : FlagsOk(s, fl[s])' <=> FlagsOk(s, fl[s])
  <2> TAKE s
  <2>1. PICK f : f = fl[s]
    OBVIOUS
  <2>2. FlagsOk(s, f)' <=> FlagsOk(s, f)
    BY SameFlagsOk
  <2> QED BY <2>1, <2>2
<1> QED BY <1>1, <1>2, <1>3 DEF SymbolsOk

(* What the writer relies on stays while it writes. *)
LEMMA WriterKept ==
  ASSUME prog \in Programs, SymbolsOk, WriterOk, prog' = prog, flags' = flags, tlsld' = tlsld, copies' = copies,
         sizes' = sizes, got_at' = got_at
  PROVE  SymbolsOk' /\ WriterOk' /\ Files' = Files
<1>1. Files' = Files /\ Symbols' = Symbols /\ Sections' = Sections
  BY SameOutput
<1>3. SymbolsOk'
  BY SymbolsKept
<1>4. GotOk'
  BY <1>1 DEF WriterOk, GotOk
<1>5. \A i \in Sections : SectionOk(i)'
  BY SectionKept DEF WriterOk
<1>6. sizes' \in Sizes'
  BY <1>1 DEF WriterOk, Sizes
<1>7. sizes' = LateAdjustments(Planned)'
  <2>1. PICK B : B = Planned
    OBVIOUS
  <2>2. Planned' = B
    BY <2>1, SamePlanned
  <2>3. LateAdjustments(B)' = LateAdjustments(B)
    BY SameAdjustments
  <2>4. sizes = LateAdjustments(B)
    BY <2>1 DEF WriterOk
  <2> QED BY <2>2, <2>3, <2>4
<1> QED BY <1>1, <1>3, <1>4, <1>5, <1>6, <1>7 DEF WriterOk

(* What was scanned stays satisfied. *)
LEMMA AllKept ==
  ASSUME AllSatisfied, prog' = prog, next' = next, flags' = flags, tlsld' = tlsld
  PROVE  AllSatisfied'
<1>1. Sections' = Sections
  BY SameOutput
<1>2. PICK fl : fl = flags
  OBVIOUS
<1>3. PICK tls : tls = tlsld
  OBVIOUS
<1>4. \A i : Rels(i)' = Rels(i) /\ LiveOf(i)' = LiveOf(i)
  BY SameRels, SameTables
<1>5. \A i, k, f : Satisfied(i, k, f, tls)' <=> Satisfied(i, k, f, tls)
  BY SameSatisfied
<1>6. ASSUME NEW i \in Sections, NEW k \in 1 .. Len(Rels(i)), k < next[i] /\ LiveOf(i)[k],
             NEW f, f = fl[Rels(i)[k].symbol]
      PROVE  Satisfied(i, k, f, tls)'
  <2>1. Satisfied(i, k, f, tls)
    BY <1>2, <1>3, <1>6 DEF AllSatisfied
  <2> QED BY <1>5, <2>1
<1>7. flags' = fl /\ tlsld' = tls
  BY <1>2, <1>3
<1> QED BY <1>1, <1>4, <1>6, <1>7 DEF AllSatisfied

-----------------------------------------------------------------------------
(* The invariant, and what it says in each phase.                          *)
ScanOk == AllSatisfied /\ Positions /\ RunsOk /\ SizesOk /\ entries = [g \in Files |-> <<>>]
(* What is written takes what there is. *)
EntriesOk ==
  /\ entries \in [Files -> Seq(Entry)]
  /\ \A g \in Files : entries[g] # <<>> => \A p \in Parts : NumTaken(entries[g], p) = sizes[g][p]
(* Why the link failed. *)
FailureOk ==
  \/ failure \in {None, "user"}
  \/ phase = "failed" /\ failure = "excessive" /\ \E s \in Symbols : UnusedOffset(s)
IInv ==
  /\ prog \in Programs
  /\ phase \in {"scan", "write", "written", "failed"}
  /\ FailureOk
  /\ phase # "failed" => SymbolsOk
  /\ phase = "scan" => ScanOk
  /\ phase \in {"write", "written"} => WriterOk /\ EntriesOk
  /\ phase = "written" => \A g \in Files : entries[g] # <<>>

(* It holds at first. *)
LEMMA InitIInv == Init => IInv
<1> SUFFICES ASSUME Init PROVE IInv
  OBVIOUS
<1>1. prog \in Programs /\ phase = "scan" /\ failure = None /\ copies = {} /\ skip = {}
  BY DEF Init
<1>2. flags = [s \in Symbols |-> VF(s)]
  BY DEF Init, VF
<1>3. SymbolsOk
  <2>1. ASSUME NEW s \in Symbols PROVE VF(s) \subseteq V /\ FlagsOk(s, VF(s))
    <3>1. PICK v : v = VF(s)
      OBVIOUS
    <3>2. PICK sym : sym = prog.symbols[s]
      OBVIOUS
    <3>3. v \subseteq V
      BY <1>1, <3>1, <3>2, ValueFacts
    <3>4. v \cap ResolutionFlags = {}
      BY <3>3, FlagsApart
    <3>5. "PLT" \notin v /\ "IFUNC_GOT_FOR_ADDRESS" \notin v /\ ~NeedsTlsGot(v) /\ ~HasResolution(v)
      BY <3>4 DEF ResolutionFlags, NeedsTlsGot, HasResolution
    <3> QED BY <3>1, <3>3, <3>5 DEF FlagsOk
  <2> QED BY <1>1, <1>2, <2>1 DEF SymbolsOk
<1>4. next = [i \in Sections |-> 1] /\ runs = [i \in Sections |-> NoRun]
  BY DEF Init
<1>5. \A i \in Sections : Len(Rels(i)) \in Nat
  BY <1>1, SectionFacts
<1>6. AllSatisfied
  BY <1>4, <1>5 DEF AllSatisfied
<1>7. Positions
  <2>1. ASSUME NEW i \in Sections, next[i] <= Len(Rels(i)) PROVE LiveOf(i)[next[i]]
    <3>1. PICK n : n = Len(Rels(i))
      OBVIOUS
    <3>2. n >= 1 => LiveOf(i)[1]
      BY <1>1, <3>1, LiveFacts
    <3> QED BY <1>4, <1>5, <2>1, <3>1, <3>2
  <2> QED BY <1>1, <1>4, <2>1 DEF Positions
<1>8. \A i \in Sections : Upto(i) = 0
  BY <1>4, <1>5 DEF Upto
<1>9. RunsOk
  <2>1. ASSUME NEW i \in Sections PROVE RunOf(i)[Upto(i)] = NoRun
    <3>1. PICK n : n = Len(Rels(i))
      OBVIOUS
    <3>2. RunOf(i)[0] = NoRun
      BY <1>1, <3>1, RunFacts
    <3> QED BY <1>8, <3>2
  <2> QED BY <1>4, <2>1 DEF RunsOk
<1>10. SizesOk
  <2>1. sizes = [g \in Files |-> [p \in Parts |-> 0]]
    BY DEF Init
  <2>2. ASSUME NEW g \in Files, NEW p \in Parts PROVE Sum(TotalsOf(g, p, Reached)) = 0
    <3>1. PICK n : n = Len(prog.sections)
      OBVIOUS
    <3>2. n \in Nat /\ Sections = 1 .. n
      BY <1>1, <3>1, ProgramFacts
    <3>3. ASSUME NEW i \in Sections PROVE TotalsOf(g, p, Reached)[i] = 0
      <4>1. PICK m : m = Len(Rels(i))
        OBVIOUS
      <4>2. ReservedIn(i, p) \in [1 .. m -> Nat] /\ m \in Nat
        BY <1>1, <1>5, <4>1, ReservedType
      <4>3. ReservedIn(i, p) \in Seq(Nat)
        BY <4>2, IsSeq
      <4>4. Sums(ReservedIn(i, p))[0] = 0
        BY <4>3, SumsFacts
      <4>5. Reached[i] = 0
        BY <1>8 DEF Reached
      <4> QED BY <4>4, <4>5 DEF TotalsOf
    <3>4. TotalsOf(g, p, Reached) = [k \in 1 .. n |-> 0]
      <4>1. PICK T : T = TotalsOf(g, p, Reached)
        OBVIOUS
      <4>2. T = [i \in Sections |-> T[i]]
        BY <4>1 DEF TotalsOf
      <4> QED BY <3>2, <3>3, <4>1, <4>2
    <3>5. Sum([k \in 1 .. n |-> 0]) = 0
      BY <3>2, SumSame
    <3> QED BY <3>4, <3>5
  <2> QED BY <2>1, <2>2 DEF SizesOk
<1>11. entries = [g \in Files |-> <<>>]
  BY DEF Init
<1> QED BY <1>1, <1>3, <1>6, <1>7, <1>9, <1>10, <1>11 DEF IInv, FailureOk, ScanOk

(* A step of the scan. *)
LEMMA ScanInv ==
  ASSUME IInv, phase = "scan",
         \/ \E s \in Symbols : ActivateRoot(s)
         \/ \E i \in Sections : Scan(i)
         \/ \E i \in Sections : SkipNext(i)
  PROVE  IInv'
<1>1. prog \in Programs /\ SymbolsOk /\ ScanOk /\ failure \in {None, "user"}
  BY DEF IInv, FailureOk
<1>2. AllSatisfied /\ Positions /\ RunsOk /\ SizesOk /\ entries = [g \in Files |-> <<>>]
  BY <1>1 DEF ScanOk
<1>3. ASSUME prog' = prog, entries' = entries, phase' = phase, failure' = failure,
             SymbolsOk', AllSatisfied', Positions', RunsOk', SizesOk'
      PROVE  IInv'
  <2>1. Files' = Files
    BY <1>3, SameOutput
  <2>2. ScanOk'
    BY <1>2, <1>3, <2>1 DEF ScanOk
  <2> QED BY <1>1, <1>3, <2>2 DEF IInv, FailureOk
<1>4. ASSUME NEW s \in Symbols, ActivateRoot(s) PROVE IInv'
  <2>1. SymbolsOk' /\ AllSatisfied'
    BY <1>1, <1>2, <1>4, ActivateStep
  <2>2. UNCHANGED <<prog, next, skip, runs, sizes>>
    BY <1>4 DEF ActivateRoot
  <2>3. Positions' /\ RunsOk' /\ SizesOk'
    BY <1>1, <1>2, <2>2, ScanKept
  <2>4. entries' = entries /\ phase' = phase /\ failure' = failure
    BY <1>4 DEF ActivateRoot
  <2> QED BY <1>3, <2>1, <2>2, <2>3, <2>4
<1>5. ASSUME NEW i \in Sections, Scan(i) PROVE IInv'
  <2>1. \/ phase' = "failed" /\ failure' = "user" /\ prog' = prog
        \/ /\ phase' = phase /\ failure' = failure /\ prog' = prog
           /\ SymbolsOk' /\ AllSatisfied' /\ Positions' /\ RunsOk' /\ SizesOk'
    BY <1>1, <1>2, <1>5, ScanStep
  <2>2. CASE phase' = "failed" /\ failure' = "user" /\ prog' = prog
    BY <1>1, <2>2 DEF IInv, FailureOk
  <2>3. CASE /\ phase' = phase /\ failure' = failure /\ prog' = prog
             /\ SymbolsOk' /\ AllSatisfied' /\ Positions' /\ RunsOk' /\ SizesOk'
    <3>1. entries' = entries
      BY <1>5 DEF Scan
    <3> QED BY <1>3, <2>3, <3>1
  <2> QED BY <2>1, <2>2, <2>3
<1>6. ASSUME NEW i \in Sections, SkipNext(i) PROVE IInv'
  <2>1. /\ phase' = phase /\ failure' = failure /\ prog' = prog
        /\ SymbolsOk' /\ AllSatisfied' /\ Positions' /\ RunsOk' /\ SizesOk'
    BY <1>1, <1>2, <1>6, SkipStep
  <2>2. entries' = entries
    BY <1>6 DEF SkipNext
  <2> QED BY <1>3, <2>1, <2>2
<1> QED BY <1>4, <1>5, <1>6

(* Once everything is scanned, the sizes are the planned ones. *)
LEMMA FinaliseStep ==
  ASSUME IInv, FinaliseSizes
  PROVE  IInv'
<1>1. /\ phase = "scan" /\ skip = {} /\ phase' = "write"
      /\ sizes' = FinalSizes /\ got_at' = [s \in Symbols |-> CreateResolution(s)]
  BY DEF FinaliseSizes
<1>2. prog' = prog /\ failure' = failure /\ flags' = flags /\ tlsld' = tlsld /\ copies' = copies /\ entries' = entries
  BY DEF FinaliseSizes
<1>3. \A i \in Sections : next[i] > Len(Rels(i))
  BY DEF FinaliseSizes, Rels
<1>4. prog \in Programs /\ SymbolsOk /\ ScanOk /\ failure \in {None, "user"}
  BY <1>1 DEF IInv, FailureOk
<1>5. AllSatisfied /\ Positions /\ SizesOk /\ entries = [g \in Files |-> <<>>]
  BY <1>4 DEF ScanOk
<1>6. Files' = Files /\ Symbols' = Symbols /\ Sections' = Sections
  BY <1>2, SameOutput
<1>7. ASSUME NEW i \in Sections PROVE SectionOk(i)'
  <2>1. PICK n \in Nat : n = Len(Rels(i))
    BY <1>4, SectionFacts
  <2>2. next[i] \in Nat /\ next[i] > n
    BY <1>3, <1>5, <2>1 DEF Positions
  <2>3. \A k \in 1 .. n : k < next[i]
    BY <2>1, <2>2
  <2>4. SectionOk(i)
    BY <1>5, <2>1, <2>3 DEF AllSatisfied, SectionOk
  <2> QED BY <1>2, <2>4, SectionKept
<1>8. PICK B : B = Planned
  OBVIOUS
<1>9. B \in Sizes
  BY <1>4, <1>8, PlannedType
<1>10. FinalSizes = LateAdjustments(B)
  <2>1. Reached = Full
    BY <1>3 DEF Reached, Full, Upto
  <2>2. ASSUME NEW g \in Files, NEW p \in Parts PROVE sizes[g][p] = Sum(TotalsOf(g, p, Full))
    BY <1>5, <2>1 DEF SizesOk
  <2>3. PICK C : C = [g \in Files |-> [p \in Parts |->
          sizes[g][p] + FilePart(g, p)
          + Sum([s \in Symbols |-> IF prog.symbols[s].file = g THEN AllocateResolution(flags[s])[p] ELSE 0])]]
    OBVIOUS
  <2>4. C = [g \in Files |-> [p \in Parts |-> sizes[g][p] + FilePart(g, p) + Sum(AllocatedOf(g, p))]]
    BY <2>3 DEF AllocatedOf
  <2>5. C = B
    BY <1>8, <2>2, <2>4 DEF Planned
  <2> QED BY <2>3, <2>5 DEF FinalSizes
<1>11. sizes' = LateAdjustments(Planned)' /\ sizes' \in Sizes'
  <2>1. Planned' = B
    BY <1>2, <1>8, SamePlanned
  <2>2. LateAdjustments(B)' = LateAdjustments(B)
    BY <1>2, SameAdjustments
  <2>3. PICK S : S = LateAdjustments(B)
    OBVIOUS
  <2>4. S \in Sizes
    BY <1>4, <1>9, <2>3, AdjustedFacts
  <2>5. Sizes' = Sizes
    BY <1>6 DEF Sizes
  <2> QED BY <1>1, <1>10, <2>1, <2>2, <2>3, <2>4, <2>5
<1>12. GotOk'
  <2>1. ASSUME NEW s \in Symbols PROVE got_at'[s] = <<>> <=> GotEntries(flags[s]) = 0
    <3>1. got_at'[s] = CreateResolution(s)
      BY <1>1
    <3>2. CASE GotEntries(flags[s]) = 0
      BY <3>1, <3>2 DEF CreateResolution
    <3>3. CASE GotEntries(flags[s]) # 0
      <4>1. PICK a, b, c : CreateResolution(s) = <<a, b, c>>
        BY <3>3 DEF CreateResolution
      <4>2. <<a, b, c>> # <<>>
        OBVIOUS
      <4> QED BY <3>1, <3>3, <4>1, <4>2
    <3> QED BY <3>2, <3>3
  <2> QED BY <1>2, <1>6, <2>1 DEF GotOk
<1>13. WriterOk'
  BY <1>6, <1>7, <1>11, <1>12 DEF WriterOk
<1>14. EntriesOk'
  <2>1. entries' = [g \in Files |-> <<>>]
    BY <1>2, <1>5
  <2>2. <<>> \in Seq(Entry)
    OBVIOUS
  <2> QED BY <1>6, <2>1, <2>2 DEF EntriesOk
<1>15. SymbolsOk'
  BY <1>2, <1>4, SymbolsKept
<1> QED BY <1>1, <1>2, <1>4, <1>13, <1>14, <1>15 DEF IInv, FailureOk

(* Which offsets are not used is decided by the program and the flags. *)
LEMMA SameUnused ==
  ASSUME prog' = prog, flags' = flags, NEW CONSTANT s
  PROVE  Symbols' = Symbols /\ (UnusedOffset(s)' <=> UnusedOffset(s))
BY DEF Symbols, UnusedOffset, HasDynamicSymbol, IsInterposable

(* A file is written, or the program is rejected. *)
LEMMA WriteStep ==
  ASSUME IInv, NEW g \in Files, WriteFile(g)
  PROVE  IInv'
<1>1. phase = "write" /\ prog \in Programs /\ SymbolsOk /\ WriterOk /\ EntriesOk /\ failure \in {None, "user"}
  BY DEF WriteFile, IInv, FailureOk
<1>2. /\ prog' = prog /\ flags' = flags /\ tlsld' = tlsld /\ copies' = copies /\ sizes' = sizes /\ got_at' = got_at
  BY DEF WriteFile, scan_state
<1>3. SymbolsOk' /\ WriterOk' /\ Files' = Files
  BY <1>1, <1>2, WriterKept
<1>4. PICK W : W = WrittenOf(g)
  OBVIOUS
<1>5. PICK takes : takes = TakesOf(g)
  OBVIOUS
<1>6. takes = Join([i \in Sections |-> Takes(W[i])]) \o OwnEntries(g) \o ProcessResolutions(g)
  BY <1>4, <1>5 DEF TakesOf
<1>7. PICK done : done = Take("done", "done", None)
  OBVIOUS
<1>8. W = [i \in Sections |-> IF prog.sections[i].file = g THEN WriteSection(i) ELSE <<>>]
  BY <1>4 DEF WrittenOf
<1>9. /\ entries' = [entries EXCEPT ![g] = Append(takes, done)]
      /\ \/ Fail("user")
         \/ /\ NoneIn(W, "user") /\ ~NoneIn(W, "missing") /\ Fail("missing")
         \/ /\ NoneIn(W, "user") /\ NoneIn(W, "missing")
            /\ \E p \in Parts : NumTaken(takes, p) > sizes[g][p]
            /\ Fail("insufficient")
         \/ /\ NoneIn(W, "user") /\ NoneIn(W, "missing")
            /\ \E p \in Validated : NumTaken(takes, p) < sizes[g][p]
            /\ Fail("excessive")
         \/ /\ NoneIn(W, "user") /\ UNCHANGED <<phase, failure>>
            /\ \A p \in Validated : NumTaken(takes, p) = sizes[g][p]
  BY <1>6, <1>7, <1>8 DEF WriteFile, NoneIn, NoneOf
<1>10. takes \in Seq(Entry)
  <2>1. "GOT" \in Parts
    BY DEF Parts
  <2> QED BY <1>1, <1>5, <2>1, FileTakes
<1>11. ASSUME NoneIn(W, "user"), NEW p \in Parts
       PROVE  /\ NoneIn(W, "missing") /\ NumTaken(takes, p) <= sizes[g][p]
              /\ NoneUnused(g, p) => NumTaken(takes, p) = sizes[g][p]
  BY <1>1, <1>4, <1>5, <1>11, FileTakes
<1>12. \A p \in Parts : sizes[g][p] \in Nat
  BY <1>1 DEF WriterOk, Sizes
<1>13. CASE Fail("user")
  BY <1>1, <1>2, <1>13 DEF IInv, Fail, FailureOk
<1>14. CASE /\ NoneIn(W, "user") /\ UNCHANGED <<phase, failure>>
            /\ \A p \in Validated : NumTaken(takes, p) = sizes[g][p]
  <2>1. done \in Entry /\ done.part = "done"
    <3>1. "done" \in Parts \cup {"done"} /\ "done" \in Whats /\ None \in Nat \cup {None}
      BY DEF Whats
    <3> QED BY <1>7, <3>1, TakeType
  <2>2. PICK last : last = <<done>>
    OBVIOUS
  <2>3. PICK all : all = Append(takes, done)
    OBVIOUS
  <2>4. all = takes \o last /\ all # <<>>
    <3>1. all = takes \o last
      BY <1>10, <2>1, <2>2, <2>3
    <3>2. Len(all) = Len(takes) + 1 /\ Len(takes) \in Nat
      BY <1>10, <2>1, <2>3
    <3> QED BY <3>1, <3>2
  <2>5. ASSUME NEW p \in Parts PROVE all \in Seq(Entry) /\ NumTaken(all, p) = sizes[g][p]
    <3>1. last \in Seq(Entry) /\ NumTaken(last, p) = IF "done" = p THEN 1 ELSE 0
      BY <2>1, <2>2, TakesOne
    <3>2. "done" # p
      BY DEF Parts
    <3>3. takes \o last \in Seq(Entry) /\ NumTaken(takes \o last, p) = NumTaken(takes, p) + NumTaken(last, p)
      BY <1>10, <3>1, NumTakenConcat
    <3>4. NumTaken(takes, p) = sizes[g][p]
      <4>1. CASE p \in Validated
        BY <1>14, <4>1
      <4>2. CASE p \notin Validated
        <5>1. NoneUnused(g, p)
          BY <4>2 DEF Validated, NoneUnused
        <5> QED BY <1>11, <1>14, <5>1
      <4> QED BY <4>1, <4>2
    <3> QED BY <1>12, <2>4, <3>1, <3>2, <3>3, <3>4
  <2>6. entries' = [entries EXCEPT ![g] = all]
    BY <1>9, <2>3
  <2>7. all \in Seq(Entry)
    <3>1. "GOT" \in Parts
      BY DEF Parts
    <3> QED BY <2>5, <3>1
  <2>8. entries' \in [Files -> Seq(Entry)]
    BY <1>1, <2>6, <2>7 DEF EntriesOk
  <2>9. ASSUME NEW h \in Files, entries'[h] # <<>>, NEW p \in Parts PROVE NumTaken(entries'[h], p) = sizes[h][p]
    <3>1. CASE h = g
      <4>1. entries'[h] = all
        BY <1>1, <2>6, <3>1 DEF EntriesOk
      <4> QED BY <2>5, <3>1, <4>1
    <3>2. CASE h # g
      <4>1. entries'[h] = entries[h]
        BY <1>1, <2>6, <3>2 DEF EntriesOk
      <4> QED BY <1>1, <2>9, <4>1 DEF EntriesOk
    <3> QED BY <3>1, <3>2
  <2>10. EntriesOk'
    BY <1>2, <1>3, <2>8, <2>9 DEF EntriesOk
  <2> QED BY <1>1, <1>2, <1>3, <1>14, <2>10 DEF IInv, FailureOk
<1>15. ~(NoneIn(W, "user") /\ ~NoneIn(W, "missing"))
  <2>1. "GOT" \in Parts
    BY DEF Parts
  <2> QED BY <1>11, <2>1
<1>16. ~(NoneIn(W, "user") /\ \E p \in Parts : NumTaken(takes, p) > sizes[g][p])
  <2> SUFFICES ASSUME NoneIn(W, "user"), NEW p \in Parts, NumTaken(takes, p) > sizes[g][p] PROVE FALSE
    OBVIOUS
  <2>1. NumTaken(takes, p) \in Nat /\ sizes[g][p] \in Nat
    BY <1>10, <1>12, MarksType
  <2>2. NumTaken(takes, p) <= sizes[g][p]
    BY <1>11
  <2> QED BY <2>1, <2>2
<1>17. CASE /\ NoneIn(W, "user") /\ NoneIn(W, "missing")
            /\ \E p \in Validated : NumTaken(takes, p) < sizes[g][p]
            /\ Fail("excessive")
  <2>1. PICK p \in Parts : NumTaken(takes, p) < sizes[g][p]
    BY <1>17 DEF Validated
  <2>2. NumTaken(takes, p) \in Nat /\ sizes[g][p] \in Nat
    BY <1>10, <1>12, MarksType
  <2>3. ~NoneUnused(g, p)
    BY <1>11, <1>17, <2>1, <2>2
  <2>4. PICK s \in Symbols : UnusedOffset(s)
    BY <2>3 DEF NoneUnused
  <2>5. s \in Symbols' /\ UnusedOffset(s)'
    BY <1>2, <2>4, SameUnused
  <2>6. FailureOk'
    BY <1>17, <2>5 DEF FailureOk, Fail
  <2> QED BY <1>1, <1>2, <1>17, <2>6 DEF IInv, Fail
<1> QED BY <1>9, <1>13, <1>14, <1>15, <1>16, <1>17

(* All files are written. *)
LEMMA FinishStep ==
  ASSUME IInv, Finish
  PROVE  IInv'
<1>1. phase = "write" /\ phase' = "written" /\ failure' = failure /\ entries' = entries /\ Unwritten = {}
  BY DEF Finish
<1>2. /\ prog' = prog /\ flags' = flags /\ tlsld' = tlsld /\ copies' = copies /\ sizes' = sizes /\ got_at' = got_at
  BY DEF Finish, scan_state
<1>3. prog \in Programs /\ SymbolsOk /\ WriterOk /\ EntriesOk /\ failure \in {None, "user"}
  BY <1>1 DEF IInv, FailureOk
<1>4. SymbolsOk' /\ WriterOk' /\ Files' = Files
  BY <1>2, <1>3, WriterKept
<1>5. EntriesOk'
  BY <1>1, <1>2, <1>3, <1>4 DEF EntriesOk
<1>6. \A g \in Files : entries[g] # <<>>
  BY <1>1 DEF Unwritten
<1> QED BY <1>1, <1>2, <1>3, <1>4, <1>5, <1>6 DEF IInv, FailureOk

(* A step that changes nothing. *)
LEMMA StutterStep ==
  ASSUME IInv, UNCHANGED vars
  PROVE  IInv'
<1>1. /\ prog' = prog /\ phase' = phase /\ failure' = failure /\ next' = next /\ skip' = skip /\ runs' = runs
      /\ flags' = flags /\ tlsld' = tlsld /\ copies' = copies /\ sizes' = sizes /\ got_at' = got_at
      /\ entries' = entries /\ roots' = roots /\ places' = places
  BY DEF vars
<1>2. prog \in Programs /\ Files' = Files
  BY <1>1, SameOutput DEF IInv
<1>3. phase # "failed" => SymbolsOk'
  BY <1>1, SymbolsKept DEF IInv
<1>4. ASSUME phase = "scan" PROVE ScanOk'
  <2>1. AllSatisfied /\ Positions /\ RunsOk /\ SizesOk /\ entries = [g \in Files |-> <<>>]
    BY <1>4 DEF IInv, ScanOk
  <2>2. Positions' /\ RunsOk' /\ SizesOk'
    BY <1>1, <1>2, <2>1, ScanKept
  <2>3. AllSatisfied'
    BY <1>1, <2>1, AllKept
  <2> QED BY <1>1, <1>2, <2>1, <2>2, <2>3 DEF ScanOk
<1>5. ASSUME phase \in {"write", "written"} PROVE WriterOk' /\ EntriesOk'
  <2>1. SymbolsOk /\ WriterOk /\ EntriesOk
    BY <1>5 DEF IInv
  <2>2. WriterOk'
    BY <1>1, <1>2, <2>1, WriterKept
  <2> QED BY <1>1, <1>2, <2>1, <2>2 DEF EntriesOk
<1>6. FailureOk'
  <2>1. CASE failure \in {None, "user"}
    BY <1>1, <2>1 DEF FailureOk
  <2>2. CASE failure \notin {None, "user"}
    <3>1. PICK s \in Symbols : UnusedOffset(s)
      BY <2>2 DEF IInv, FailureOk
    <3>2. s \in Symbols' /\ UnusedOffset(s)'
      BY <1>1, <3>1, SameUnused
    <3> QED BY <1>1, <2>2, <3>2 DEF IInv, FailureOk
  <2> QED BY <2>1, <2>2
<1> QED BY <1>1, <1>2, <1>3, <1>4, <1>5, <1>6 DEF IInv

(* Every step preserves it. *)
LEMMA NextIInv == IInv /\ [Next]_vars => IInv'
<1> SUFFICES ASSUME IInv, [Next]_vars PROVE IInv'
  OBVIOUS
<1>1. CASE UNCHANGED vars
  BY <1>1, StutterStep
<1>2. CASE \/ \E s \in Symbols : ActivateRoot(s)
           \/ \E i \in Sections : Scan(i)
           \/ \E i \in Sections : SkipNext(i)
  <2>1. phase = "scan"
    BY <1>2 DEF ActivateRoot, Scan, SkipNext
  <2> QED BY <1>2, <2>1, ScanInv
<1>3. CASE FinaliseSizes
  BY <1>3, FinaliseStep
<1>4. CASE Unwritten # {} /\ WriteFile(CHOOSE g \in Unwritten : TRUE)
  <2>1. PICK g : g = CHOOSE h \in Unwritten : TRUE
    OBVIOUS
  <2>2. g \in Files
    BY <1>4, <2>1 DEF Unwritten
  <2>3. WriteFile(g)
    BY <1>4, <2>1
  <2> QED BY <2>2, <2>3, WriteStep
<1>5. CASE Finish
  BY <1>5, FinishStep
<1> QED BY <1>1, <1>2, <1>3, <1>4, <1>5 DEF Next

(* TableWriter and validate_empty: for every program, every order in which *)
(* its sections are scanned and its symbols activated, the writer comes to *)
(* the decisions of the scan: it finds each resolution that it needs, does *)
(* not take an entry that was not reserved, and leaves none unused, but    *)
(* for the relocation of a thread-local offset of a symbol that stays      *)
(* undefined in a shared object: then, and only then, the link fails.      *)
THEOREM WriterUsesWhatIsReserved == Spec => []ReservedIsUsed
<1>1. IInv => ReservedIsUsed
  BY DEF IInv, FailureOk, EntriesOk, ReservedIsUsed
<1> QED BY <1>1, InitIInv, NextIInv, PTL DEF Spec
=============================================================================
