------------------------------ MODULE SumFacts ------------------------------
(***************************************************************************)
(* What SumFunctionOnSet of the module Functions computes on finite sets:  *)
(* it is defined by a recursion that takes an arbitrary element each time, *)
(* and the proofs of the projects' modules need that the order does not    *)
(* matter, what one element more or less changes, and how sums compare.    *)
(***************************************************************************)
EXTENDS Integers, FiniteSets, Functions, FiniteSetTheorems, WellFoundedInduction, TLAPS

Picked(s) == CHOOSE x \in s : TRUE
SumStep(f, it, s) == IF s = {} THEN 0 ELSE f[Picked(s)] + it[s \ {Picked(s)}]
SumOfSubset(f, S) == CHOOSE it : it = [s \in SUBSET S |-> SumStep(f, it, s)]

LEMMA SumUnfolds == ASSUME NEW f, NEW S PROVE SumFunctionOnSet(f, S) = SumOfSubset(f, S)[S]
BY DEF SumFunctionOnSet, FoldFunctionOnSet, MapThenFoldSet, SumOfSubset, SumStep, Picked

LEMMA PickedIsIn == ASSUME NEW s, s # {} PROVE Picked(s) \in s
BY DEF Picked

(* A nonempty set of naturals has a least element. *)
LEMMA LeastNatural ==
    ASSUME NEW N \in SUBSET Nat, N # {}
    PROVE  \E m \in N : \A n \in N : m <= n
<1> DEFINE R == OpToRel(<, Nat)
<1>1. IsWellFoundedOn(R, Nat)
  BY NatLessThanWellFounded
<1>2. PICK m \in N : \A n \in N : ~(<<n, m>> \in R)
  <2> HIDE DEF R
  <2> QED BY <1>1, WFMin, Zenon
<1>3. \A n \in N : ~(n < m)
  BY <1>2 DEF OpToRel
<1> QED BY <1>3

(* Among sets of subsets of a finite set, one has no smaller one below it. *)
LEMMA SmallestSubset ==
    ASSUME NEW S, IsFiniteSet(S), NEW Bad \in SUBSET (SUBSET S), Bad # {}
    PROVE  \E m \in Bad : /\ IsFiniteSet(m)
                          /\ \A s \in SUBSET m : s # m => s \notin Bad
<1> DEFINE N == {Cardinality(s) : s \in Bad}
<1>1. \A s \in SUBSET S : IsFiniteSet(s) /\ Cardinality(s) \in Nat
  BY FS_Subset, FS_CardinalityType
<1>2. N \in SUBSET Nat /\ N # {}
  BY <1>1
<1>3. PICK n \in N : \A k \in N : n <= k
  <2> HIDE DEF N
  <2> QED BY <1>2, LeastNatural
<1>4. PICK m \in Bad : n = Cardinality(m)
  OBVIOUS
<1>5. ASSUME NEW s \in SUBSET m, s # m, s \in Bad PROVE FALSE
  <2>1. IsFiniteSet(m) /\ Cardinality(s) < Cardinality(m)
    BY <1>1, <1>5, FS_Subset
  <2>2. Cardinality(m) <= Cardinality(s)
    BY <1>3, <1>4, <1>5
  <2> QED BY <1>1, <2>1, <2>2
<1> QED BY <1>1, <1>4, <1>5

(* The values of a function on a finite set are finitely many. *)
LEMMA ImageIsFinite ==
    ASSUME NEW S, IsFiniteSet(S), NEW f
    PROVE  IsFiniteSet({f[x] : x \in S})
<1> DEFINE T == {f[x] : x \in S}
           g == [x \in S |-> f[x]]
<1>1. g \in Surjection(S, T)
  BY DEF Surjection
<1> HIDE DEF g, T
<1>2. IsFiniteSet(T)
  BY <1>1, FS_Surjection
<1> QED BY <1>2 DEF T

-----------------------------------------------------------------------------
(* The recursion has a solution on the subsets of a finite set. *)
LEMMA SumOfSubsetExists ==
    ASSUME NEW f, NEW S, IsFiniteSet(S)
    PROVE  \E it : it = [s \in SUBSET S |-> SumStep(f, it, s)]
<1> DEFINE Solves(it, n) == \A s \in SUBSET S : Cardinality(s) <= n => it[s] = SumStep(f, it, s)
           Bad == {n \in Nat : ~\E it : Solves(it, n)}
<1>1. \A s \in SUBSET S : IsFiniteSet(s) /\ Cardinality(s) \in Nat
  BY FS_Subset, FS_CardinalityType
<1>2. Bad = {}
  <2>1. SUFFICES ASSUME Bad # {} PROVE FALSE OBVIOUS
  <2>2. PICK n \in Bad : \A k \in Bad : n <= k
    <3>1. Bad \in SUBSET Nat OBVIOUS
    <3> HIDE DEF Bad
    <3> QED BY <2>1, <3>1, LeastNatural
  <2>3. CASE n = 0
    <3> DEFINE zero == [s \in SUBSET S |-> 0]
    <3>1. ASSUME NEW s \in SUBSET S, Cardinality(s) <= 0 PROVE zero[s] = SumStep(f, zero, s)
      <4>1. s = {}
        BY <1>1, <3>1, FS_EmptySet
      <4> QED BY <4>1 DEF SumStep
    <3> QED BY <2>3, <3>1
  <2>4. CASE n # 0
    <3>1. n - 1 \in Nat /\ n - 1 \notin Bad
      BY <2>2, <2>4
    <3>2. PICK it : Solves(it, n - 1)
      BY <3>1
    <3> DEFINE next == [s \in SUBSET S |-> SumStep(f, it, s)]
    <3>3. ASSUME NEW s \in SUBSET S, Cardinality(s) <= n PROVE next[s] = SumStep(f, next, s)
      <4>1. CASE s = {}
        BY <4>1 DEF SumStep
      <4>2. CASE s # {}
        <5> DEFINE p == Picked(s)
                   t == s \ {p}
        <5>1. p \in s
          BY <4>2, PickedIsIn
        <5> HIDE DEF p
        <5>2. t \in SUBSET S /\ Cardinality(t) <= n - 1
          BY <1>1, <3>3, <5>1, FS_RemoveElement
        <5>3. it[t] = next[t]
          BY <3>2, <5>2
        <5> HIDE DEF t, next
        <5>4. SumStep(f, it, s) = f[p] + it[t] /\ SumStep(f, next, s) = f[p] + next[t]
          BY <4>2 DEF SumStep, p, t
        <5> QED BY <5>3, <5>4 DEF next
      <4> QED BY <4>1, <4>2
    <3>4. Solves(next, n)
      BY <3>3
    <3> QED BY <3>4
  <2> QED BY <2>3, <2>4
<1>3. PICK it : Solves(it, Cardinality(S))
  BY <1>1, <1>2
<1> DEFINE sol == [s \in SUBSET S |-> it[s]]
<1>4. ASSUME NEW s \in SUBSET S PROVE sol[s] = SumStep(f, sol, s)
  <2>1. it[s] = SumStep(f, it, s)
    BY <1>3, <1>1, FS_Subset
  <2>2. s # {} => sol[s \ {Picked(s)}] = it[s \ {Picked(s)}]
    OBVIOUS
  <2> HIDE DEF sol
  <2>3. SumStep(f, sol, s) = SumStep(f, it, s)
    BY <2>2 DEF SumStep
  <2> QED BY <2>1, <2>3 DEF sol
<1>5. sol = [s \in SUBSET S |-> SumStep(f, sol, s)]
  <2>1. sol = [s \in SUBSET S |-> sol[s]] OBVIOUS
  <2> HIDE DEF sol
  <2> QED BY <1>4, <2>1
<1> QED BY <1>5

LEMMA SumOfSubsetSolves ==
    ASSUME NEW f, NEW S, IsFiniteSet(S), NEW s \in SUBSET S
    PROVE  SumOfSubset(f, S)[s] = SumStep(f, SumOfSubset(f, S), s)
<1>1. SumOfSubset(f, S) = [t \in SUBSET S |-> SumStep(f, SumOfSubset(f, S), t)]
  BY SumOfSubsetExists DEF SumOfSubset
<1> DEFINE it == SumOfSubset(f, S)
<1>2. it = [t \in SUBSET S |-> SumStep(f, it, t)]
  BY <1>1
<1> HIDE DEF it
<1>3. it[s] = SumStep(f, it, s)
  BY <1>2
<1> QED BY <1>3 DEF it

(* It does not depend on the set it was solved for. *)
LEMMA SumOfSubsetIsOne ==
    ASSUME NEW f, NEW S, IsFiniteSet(S), NEW T \in SUBSET S
    PROVE  SumOfSubset(f, S)[T] = SumOfSubset(f, T)[T]
<1> DEFINE big == SumOfSubset(f, S)
           small == SumOfSubset(f, T)
           Bad == {s \in SUBSET T : big[s] # small[s]}
<1>1. IsFiniteSet(T)
  BY FS_Subset
<1>2. Bad = {}
  <2>1. SUFFICES ASSUME Bad # {} PROVE FALSE OBVIOUS
  <2>2. PICK s \in Bad : \A t \in SUBSET s : t # s => t \notin Bad
    <3>1. Bad \in SUBSET (SUBSET T) OBVIOUS
    <3> HIDE DEF Bad
    <3> QED BY <1>1, <2>1, <3>1, SmallestSubset
  <2>3. big[s] = SumStep(f, big, s) /\ small[s] = SumStep(f, small, s)
    BY <1>1, SumOfSubsetSolves
  <2>4. CASE s = {}
    BY <2>3, <2>4 DEF SumStep
  <2>5. CASE s # {}
    <3>1. Picked(s) \in s
      BY <2>5, PickedIsIn
    <3>2. big[s \ {Picked(s)}] = small[s \ {Picked(s)}]
      BY <2>2, <3>1
    <3> QED BY <2>3, <2>5, <3>2 DEF SumStep
  <2> QED BY <2>4, <2>5
<1> QED BY <1>2

(* The recursion of SumFunctionOnSet. *)
LEMMA SumRecurs ==
    ASSUME NEW f, NEW S, IsFiniteSet(S)
    PROVE  /\ S = {} => SumFunctionOnSet(f, S) = 0
           /\ S # {} => SumFunctionOnSet(f, S)
                          = f[Picked(S)] + SumFunctionOnSet(f, S \ {Picked(S)})
<1>1. SumFunctionOnSet(f, S) = SumStep(f, SumOfSubset(f, S), S)
  BY SumUnfolds, SumOfSubsetSolves
<1>2. SumFunctionOnSet(f, S \ {Picked(S)}) = SumOfSubset(f, S)[S \ {Picked(S)}]
  <2>1. S \ {Picked(S)} \in SUBSET S OBVIOUS
  <2> QED BY <2>1, SumUnfolds, SumOfSubsetIsOne
<1> QED BY <1>1, <1>2 DEF SumStep
-----------------------------------------------------------------------------
LEMMA SumEmpty == ASSUME NEW f PROVE SumFunctionOnSet(f, {}) = 0
BY SumRecurs, FS_EmptySet

(* Sums of equal numbers are equal. *)
LEMMA SumEqual ==
    ASSUME NEW S, IsFiniteSet(S), NEW f, NEW g, \A x \in S : f[x] = g[x]
    PROVE  SumFunctionOnSet(f, S) = SumFunctionOnSet(g, S)
<1> DEFINE Bad == {s \in SUBSET S : SumFunctionOnSet(f, s) # SumFunctionOnSet(g, s)}
<1>1. Bad = {}
  <2>1. SUFFICES ASSUME Bad # {} PROVE FALSE OBVIOUS
  <2>2. PICK s \in Bad : IsFiniteSet(s) /\ \A t \in SUBSET s : t # s => t \notin Bad
    <3>1. Bad \in SUBSET (SUBSET S) OBVIOUS
    <3> HIDE DEF Bad
    <3> QED BY <2>1, <3>1, SmallestSubset
  <2>3. s # {}
    <3>1. SumFunctionOnSet(f, {}) = SumFunctionOnSet(g, {}) BY SumEmpty
    <3> QED BY <3>1
  <2>4. Picked(s) \in s
    BY <2>3, PickedIsIn
  <2>5. s \ {Picked(s)} \notin Bad
    BY <2>2, <2>4
  <2> QED BY <2>2, <2>3, <2>4, <2>5, SumRecurs
<1> QED BY <1>1

LEMMA SumInt ==
    ASSUME NEW S, IsFiniteSet(S), NEW f, \A x \in S : f[x] \in Int
    PROVE  SumFunctionOnSet(f, S) \in Int
<1> DEFINE Bad == {s \in SUBSET S : SumFunctionOnSet(f, s) \notin Int}
<1>1. Bad = {}
  <2>1. SUFFICES ASSUME Bad # {} PROVE FALSE OBVIOUS
  <2>2. PICK s \in Bad : IsFiniteSet(s) /\ \A t \in SUBSET s : t # s => t \notin Bad
    <3>1. Bad \in SUBSET (SUBSET S) OBVIOUS
    <3> HIDE DEF Bad
    <3> QED BY <2>1, <3>1, SmallestSubset
  <2>3. s # {}
    <3>1. SumFunctionOnSet(f, {}) = 0 BY SumEmpty
    <3> QED BY <3>1
  <2>4. Picked(s) \in s
    BY <2>3, PickedIsIn
  <2>5. s \ {Picked(s)} \notin Bad
    BY <2>2, <2>4
  <2>6. SumFunctionOnSet(f, s) = f[Picked(s)] + SumFunctionOnSet(f, s \ {Picked(s)})
    BY <2>2, <2>3, SumRecurs
  <2>7. f[Picked(s)] \in Int /\ SumFunctionOnSet(f, s \ {Picked(s)}) \in Int
    BY <2>4, <2>5
  <2> QED BY <2>6, <2>7
<1> QED BY <1>1

(* Any element may be taken first. *)
LEMMA SumRemove ==
    ASSUME NEW S, IsFiniteSet(S), NEW f, \A y \in S : f[y] \in Int, NEW x \in S
    PROVE  SumFunctionOnSet(f, S) = f[x] + SumFunctionOnSet(f, S \ {x})
<1> DEFINE Sum(s) == SumFunctionOnSet(f, s)
           Bad == {s \in SUBSET S : \E y \in s : Sum(s) # f[y] + Sum(s \ {y})}
<1>1. \A s \in SUBSET S : IsFiniteSet(s) /\ Sum(s) \in Int
  BY FS_Subset, SumInt
<1>2. \A s \in SUBSET S : s # {} => Sum(s) = f[Picked(s)] + Sum(s \ {Picked(s)})
  BY <1>1, SumRecurs
<1> HIDE DEF Sum
<1>3. Bad = {}
  <2>1. SUFFICES ASSUME Bad # {} PROVE FALSE OBVIOUS
  <2>2. PICK s \in Bad : \A t \in SUBSET s : t # s => t \notin Bad
    <3>1. Bad \in SUBSET (SUBSET S) OBVIOUS
    <3> HIDE DEF Bad
    <3> QED BY <2>1, <3>1, SmallestSubset
  <2>3. PICK y \in s : Sum(s) # f[y] + Sum(s \ {y})
    OBVIOUS
  <2>4. PICK p \in s : Sum(s) = f[p] + Sum(s \ {p})
    BY <1>2, PickedIsIn
  <2>5. y # p
    BY <2>3, <2>4
  <2>6. s \ {p} \notin Bad /\ s \ {y} \notin Bad
    BY <2>2
  <2>7. Sum(s \ {p}) = f[y] + Sum((s \ {p}) \ {y}) /\ Sum(s \ {y}) = f[p] + Sum((s \ {y}) \ {p})
    BY <2>5, <2>6
  <2>8. (s \ {p}) \ {y} = (s \ {y}) \ {p}
    OBVIOUS
  <2>9. f[y] \in Int /\ f[p] \in Int /\ Sum((s \ {y}) \ {p}) \in Int
    BY <1>1
  <2> HIDE DEF Bad
  <2>10. Sum(s) = f[p] + (f[y] + Sum((s \ {y}) \ {p}))
    BY <2>4, <2>7, <2>8
  <2>11. f[y] + Sum(s \ {y}) = f[y] + (f[p] + Sum((s \ {y}) \ {p}))
    BY <2>7
  <2> QED BY <2>3, <2>9, <2>10, <2>11
<1>4. Sum(S) = f[x] + Sum(S \ {x})
  <2>1. S \notin Bad BY <1>3
  <2> QED BY <2>1
<1> QED BY <1>4 DEF Sum

LEMMA SumAdd ==
    ASSUME NEW S, IsFiniteSet(S), NEW f, NEW x, x \notin S, \A y \in S \cup {x} : f[y] \in Int
    PROVE  SumFunctionOnSet(f, S \cup {x}) = f[x] + SumFunctionOnSet(f, S)
<1>1. IsFiniteSet(S \cup {x})
  BY FS_AddElement
<1>2. (S \cup {x}) \ {x} = S
  OBVIOUS
<1> QED BY <1>1, <1>2, SumRemove

(* One number changes. *)
LEMMA SumChange ==
    ASSUME NEW S, IsFiniteSet(S), NEW f, NEW g, NEW x \in S,
           \A y \in S : f[y] \in Int, g[x] \in Int, \A y \in S \ {x} : g[y] = f[y]
    PROVE  SumFunctionOnSet(g, S) = SumFunctionOnSet(f, S) - f[x] + g[x]
<1>1. IsFiniteSet(S \ {x})
  BY FS_Subset
<1>2. SumFunctionOnSet(f, S \ {x}) = SumFunctionOnSet(g, S \ {x})
  BY <1>1, SumEqual
<1>3. SumFunctionOnSet(f, S \ {x}) \in Int
  BY <1>1, SumInt
<1>4. \A y \in S : g[y] \in Int
  OBVIOUS
<1>5. SumFunctionOnSet(f, S) = f[x] + SumFunctionOnSet(f, S \ {x})
  BY SumRemove
<1>6. SumFunctionOnSet(g, S) = g[x] + SumFunctionOnSet(g, S \ {x})
  BY <1>4, SumRemove
<1> QED BY <1>2, <1>3, <1>5, <1>6

LEMMA SumNatural ==
    ASSUME NEW S, IsFiniteSet(S), NEW f, \A x \in S : f[x] \in Nat
    PROVE  SumFunctionOnSet(f, S) \in Nat
<1> DEFINE Bad == {s \in SUBSET S : SumFunctionOnSet(f, s) \notin Nat}
<1>1. Bad = {}
  <2>1. SUFFICES ASSUME Bad # {} PROVE FALSE OBVIOUS
  <2>2. PICK s \in Bad : IsFiniteSet(s) /\ \A t \in SUBSET s : t # s => t \notin Bad
    <3>1. Bad \in SUBSET (SUBSET S) OBVIOUS
    <3> HIDE DEF Bad
    <3> QED BY <2>1, <3>1, SmallestSubset
  <2>3. s # {}
    <3>1. SumFunctionOnSet(f, {}) = 0 BY SumEmpty
    <3> QED BY <3>1
  <2>4. Picked(s) \in s
    BY <2>3, PickedIsIn
  <2>5. s \ {Picked(s)} \notin Bad
    BY <2>2, <2>4
  <2>6. SumFunctionOnSet(f, s) = f[Picked(s)] + SumFunctionOnSet(f, s \ {Picked(s)})
    BY <2>2, <2>3, SumRecurs
  <2>7. f[Picked(s)] \in Nat /\ SumFunctionOnSet(f, s \ {Picked(s)}) \in Nat
    BY <2>4, <2>5
  <2> QED BY <2>6, <2>7
<1> QED BY <1>1

(* The sum of two disjoint sets. *)
LEMMA SumUnion ==
    ASSUME NEW A, IsFiniteSet(A), NEW B, IsFiniteSet(B), A \cap B = {},
           NEW f, \A x \in A \cup B : f[x] \in Int
    PROVE  SumFunctionOnSet(f, A \cup B) = SumFunctionOnSet(f, A) + SumFunctionOnSet(f, B)
<1> DEFINE Sum(s) == SumFunctionOnSet(f, s)
           Bad == {s \in SUBSET B : Sum(A \cup s) # Sum(A) + Sum(s)}
<1>1. \A s \in SUBSET B : IsFiniteSet(s) /\ IsFiniteSet(A \cup s) /\ A \cup s \subseteq A \cup B
  BY FS_Subset, FS_Union
<1>2. \A s \in SUBSET B : Sum(s) \in Int /\ Sum(A \cup s) \in Int
  BY <1>1, SumInt
<1>3. ASSUME NEW s \in SUBSET B, NEW p \in s
      PROVE  Sum(s) = f[p] + Sum(s \ {p}) /\ Sum(A \cup s) = f[p] + Sum((A \cup s) \ {p})
  BY <1>1, SumRemove
<1>4. Sum({}) = 0
  BY SumEmpty
<1>5. Sum(A) \in Int
  BY SumInt
<1> HIDE DEF Sum
<1>6. Bad = {}
  <2>1. SUFFICES ASSUME Bad # {} PROVE FALSE OBVIOUS
  <2>2. PICK s \in Bad : \A t \in SUBSET s : t # s => t \notin Bad
    <3>1. Bad \in SUBSET (SUBSET B) OBVIOUS
    <3> HIDE DEF Bad
    <3> QED BY <2>1, <3>1, SmallestSubset
  <2>3. s # {}
    <3>1. SUFFICES ASSUME s = {} PROVE FALSE OBVIOUS
    <3>2. A \cup s = A BY <3>1
    <3> QED BY <1>4, <1>5, <3>1, <3>2
  <2>4. PICK p \in s : TRUE
    BY <2>3
  <2>5. Sum(A \cup (s \ {p})) = Sum(A) + Sum(s \ {p})
    BY <2>2
  <2>6. (A \cup s) \ {p} = A \cup (s \ {p})
    OBVIOUS
  <2>7. f[p] \in Int /\ Sum(s \ {p}) \in Int
    BY <1>2
  <2>8. Sum(A \cup s) # Sum(A) + Sum(s)
    OBVIOUS
  <2>9. Sum(s) = f[p] + Sum(s \ {p}) /\ Sum(A \cup s) = f[p] + Sum((A \cup s) \ {p})
    <3>1. s \in SUBSET B OBVIOUS
    <3> HIDE DEF Bad
    <3> QED BY <1>3, <3>1
  <2> HIDE DEF Bad
  <2>10. Sum(A \cup s) = f[p] + (Sum(A) + Sum(s \ {p}))
    BY <2>5, <2>6, <2>9
  <2>11. Sum(A) + Sum(s) = Sum(A) + (f[p] + Sum(s \ {p}))
    BY <2>9
  <2> QED BY <1>5, <2>7, <2>8, <2>10, <2>11
<1>7. Sum(A \cup B) = Sum(A) + Sum(B)
  <2>1. B \notin Bad BY <1>6
  <2> QED BY <2>1
<1> QED BY <1>7 DEF Sum

(* A part of a sum of naturals is at most the whole. *)
LEMMA SumPart ==
    ASSUME NEW S, IsFiniteSet(S), NEW T \in SUBSET S, NEW f, \A x \in S : f[x] \in Nat
    PROVE  SumFunctionOnSet(f, T) <= SumFunctionOnSet(f, S)
<1>1. IsFiniteSet(T) /\ IsFiniteSet(S \ T)
  BY FS_Subset
<1>2. SumFunctionOnSet(f, T) \in Nat /\ SumFunctionOnSet(f, S \ T) \in Nat
  BY <1>1, SumNatural
<1>3. T \cup (S \ T) = S /\ T \cap (S \ T) = {}
  OBVIOUS
<1>4. SumFunctionOnSet(f, T \cup (S \ T)) = SumFunctionOnSet(f, T) + SumFunctionOnSet(f, S \ T)
  BY <1>1, <1>3, SumUnion
<1>5. SumFunctionOnSet(f, S) = SumFunctionOnSet(f, T) + SumFunctionOnSet(f, S \ T)
  BY <1>3, <1>4
<1> QED BY <1>2, <1>5

(* Numbers that are zero do not count. *)
LEMMA SumOfZeros ==
    ASSUME NEW S, IsFiniteSet(S), NEW f, \A x \in S : f[x] = 0
    PROVE  SumFunctionOnSet(f, S) = 0
<1> DEFINE Bad == {s \in SUBSET S : SumFunctionOnSet(f, s) # 0}
<1>1. Bad = {}
  <2>1. SUFFICES ASSUME Bad # {} PROVE FALSE OBVIOUS
  <2>2. PICK s \in Bad : IsFiniteSet(s) /\ \A t \in SUBSET s : t # s => t \notin Bad
    <3>1. Bad \in SUBSET (SUBSET S) OBVIOUS
    <3> HIDE DEF Bad
    <3> QED BY <2>1, <3>1, SmallestSubset
  <2>3. s # {}
    <3>1. SumFunctionOnSet(f, {}) = 0 BY SumEmpty
    <3> QED BY <3>1
  <2>4. Picked(s) \in s
    BY <2>3, PickedIsIn
  <2>5. s \ {Picked(s)} \notin Bad
    BY <2>2, <2>4
  <2>6. SumFunctionOnSet(f, s) = f[Picked(s)] + SumFunctionOnSet(f, s \ {Picked(s)})
    BY <2>2, <2>3, SumRecurs
  <2>7. f[Picked(s)] = 0 /\ SumFunctionOnSet(f, s \ {Picked(s)}) = 0
    BY <2>4, <2>5
  <2> QED BY <2>2, <2>6, <2>7
<1> QED BY <1>1

(* Only a part of the set counts. *)
LEMMA SumWhere ==
    ASSUME NEW S, IsFiniteSet(S), NEW T \in SUBSET S, NEW f, NEW g, \A x \in S : f[x] \in Int,
           \A x \in T : g[x] = f[x], \A x \in S \ T : f[x] = 0
    PROVE  SumFunctionOnSet(f, S) = SumFunctionOnSet(g, T)
<1>1. IsFiniteSet(T) /\ IsFiniteSet(S \ T)
  BY FS_Subset
<1>2. SumFunctionOnSet(f, T \cup (S \ T)) = SumFunctionOnSet(f, T) + SumFunctionOnSet(f, S \ T)
  <2>1. \A x \in T \cup (S \ T) : f[x] \in Int
    OBVIOUS
  <2> QED BY <1>1, <2>1, SumUnion
<1>3. SumFunctionOnSet(f, S \ T) = 0
  BY <1>1, SumOfZeros
<1>4. SumFunctionOnSet(f, T) = SumFunctionOnSet(g, T)
  BY <1>1, SumEqual
<1>5. SumFunctionOnSet(f, T) \in Int
  BY <1>1, SumInt
<1>6. SumFunctionOnSet(f, T) + SumFunctionOnSet(f, S \ T) = SumFunctionOnSet(f, T)
  BY <1>3, <1>5
<1>7. T \cup (S \ T) = S
  OBVIOUS
<1>8. SumFunctionOnSet(f, S) = SumFunctionOnSet(f, T) + SumFunctionOnSet(f, S \ T)
  BY <1>2, <1>7, Zenon
<1> QED BY <1>4, <1>6, <1>8, Zenon

(* What is summed may be renamed. *)
LEMMA SumRenamed ==
    ASSUME NEW T, IsFiniteSet(T), NEW f, NEW g, NEW e,
           \A x, y \in T : e[x] = e[y] => x = y,
           \A x \in T : f[x] = g[e[x]] /\ g[e[x]] \in Int
    PROVE  SumFunctionOnSet(f, T) = SumFunctionOnSet(g, {e[x] : x \in T})
<1> DEFINE Image(s) == {e[x] : x \in s}
           Bad == {s \in SUBSET T : SumFunctionOnSet(f, s) # SumFunctionOnSet(g, Image(s))}
<1>1. Bad = {}
  <2>1. SUFFICES ASSUME Bad # {} PROVE FALSE OBVIOUS
  <2>2. PICK s \in Bad : IsFiniteSet(s) /\ \A t \in SUBSET s : t # s => t \notin Bad
    <3>1. Bad \in SUBSET (SUBSET T) OBVIOUS
    <3> HIDE DEF Bad
    <3> QED BY <2>1, <3>1, SmallestSubset
  <2>3. s \in SUBSET T /\ SumFunctionOnSet(f, s) # SumFunctionOnSet(g, Image(s))
    OBVIOUS
  <2>4. CASE s = {}
    <3>1. Image(s) = {}
      BY <2>4
    <3> QED BY <2>3, <2>4, <3>1, SumEmpty
  <2>5. CASE s # {}
    <3>1. PICK x \in s : TRUE
      BY <2>5
    <3>2. s \ {x} \in SUBSET s /\ s \ {x} # s
      BY <3>1
    <3>3. s \ {x} \in SUBSET T /\ s \ {x} \notin Bad
      BY <2>2, <2>3, <3>2
    <3>4. SumFunctionOnSet(f, s \ {x}) = SumFunctionOnSet(g, Image(s \ {x}))
      BY <3>3
    <3>5. Image(s \ {x}) = Image(s) \ {e[x]} /\ e[x] \in Image(s)
      BY <2>3, <3>1
    <3>6. IsFiniteSet(Image(s)) /\ \A y \in Image(s) : g[y] \in Int
      BY <2>2, <2>3, ImageIsFinite
    <3>7. \A y \in s : f[y] \in Int
      BY <2>3
    <3> HIDE DEF Image, Bad
    <3>8. SumFunctionOnSet(f, s) = f[x] + SumFunctionOnSet(f, s \ {x})
      BY <2>2, <3>1, <3>7, SumRemove
    <3>9. SumFunctionOnSet(g, Image(s)) = g[e[x]] + SumFunctionOnSet(g, Image(s) \ {e[x]})
      BY <3>5, <3>6, SumRemove
    <3>10. f[x] = g[e[x]]
      BY <2>3, <3>1
    <3> QED BY <2>3, <3>4, <3>5, <3>8, <3>9, <3>10
  <2> QED BY <2>4, <2>5
<1>2. T \in SUBSET T OBVIOUS
<1> QED BY <1>1, <1>2
=============================================================================
