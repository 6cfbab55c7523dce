-------------------------------- MODULE Sums --------------------------------
(***************************************************************************)
(* Induction over sets, and the sums that the models of analyze.py and of  *)
(* the accelerator's engine are made of: what SumFunctionOnSet computes,   *)
(* in whatever order its definition goes through the set.                  *)
(***************************************************************************)
EXTENDS Integers, FiniteSets, Functions, FiniteSetTheorems, NaturalsInduction, TLAPS

-----------------------------------------------------------------------------
(* Induction over the naturals, for sets: the least element of the set of  *)
(* counterexamples has no predecessor.                                     *)

LEMMA LeastElement ==
  ASSUME NEW T \in SUBSET Nat, T # {}
  PROVE  \E m \in T : \A n \in T : m <= n
<1> DEFINE R == OpToRel(<, Nat)
<1>1. IsWellFoundedOn(R, Nat)
  BY NatLessThanWellFounded
<1> HIDE DEF R
<1>2. PICK m \in T : \A n \in T : ~ (<<n, m>> \in R)
  BY <1>1, WFMin
<1>3. \A n \in T : n < m => <<n, m>> \in R
  BY DEF R, OpToRel
<1>4. \A n \in T : n \in Nat /\ ~(n < m)
  BY <1>2, <1>3
<1> QED
  BY <1>4

LEMMA SetInduction ==
  ASSUME NEW T, 0 \in T, \A n \in Nat : n \in T => n + 1 \in T
  PROVE  Nat \subseteq T
<1> SUFFICES ASSUME Nat \ T # {} PROVE FALSE
  OBVIOUS
<1>1. PICK m \in Nat \ T : \A n \in Nat \ T : m <= n
  BY LeastElement
<1>2. m # 0 /\ m - 1 \in Nat /\ m - 1 \notin Nat \ T
  BY <1>1
<1> QED
  BY <1>1, <1>2

(* The same for the subsets of a finite set, an element at a time.         *)
LEMMA SubsetInduction ==
  ASSUME NEW S, IsFiniteSet(S), NEW T, {} \in T,
         \A s \in SUBSET S : \A x \in S \ s : s \in T => s \cup {x} \in T
  PROVE  SUBSET S \subseteq T
<1> DEFINE U == {n \in Nat : \A s \in SUBSET S : Cardinality(s) = n => s \in T}
<1>1. \A s \in SUBSET S : IsFiniteSet(s) /\ Cardinality(s) \in Nat /\ (Cardinality(s) = 0 <=> s = {})
  BY FS_Subset, FS_CardinalityType, FS_EmptySet
<1>2. 0 \in U
  BY <1>1
<1>3. \A n \in Nat : n \in U => n + 1 \in U
  <2> SUFFICES ASSUME NEW n \in Nat, n \in U,
                      NEW s \in SUBSET S, Cardinality(s) = n + 1
               PROVE  s \in T
    OBVIOUS
  <2>1. PICK x \in s : TRUE
    BY <1>1
  <2>2. Cardinality(s \ {x}) = n
    <3>1. IsFiniteSet(s)
      BY <1>1
    <3>2. Cardinality(s \ {x}) = Cardinality(s) - 1
      BY <2>1, <3>1, FS_RemoveElement
    <3> QED
      BY <3>2
  <2>3. s \ {x} \in T
    BY <2>2
  <2>4. s = (s \ {x}) \cup {x}
    BY <2>1
  <2> QED
    BY <2>1, <2>3, <2>4
<1>4. Nat \subseteq U
  <2> HIDE DEF U
  <2> QED
    BY <1>2, <1>3, SetInduction
<1> QED
  BY <1>1, <1>4

-----------------------------------------------------------------------------
(* The recursion of a sum over the subsets of a finite set has a solution  *)
(* in the naturals (<1>7), and each sum is its value (<1>9, <1>10).        *)
AnyOf(s) == CHOOSE x \in s : TRUE
SumStep(f, g, s) == IF s = {} THEN 0 ELSE f[AnyOf(s)] + g[s \ {AnyOf(s)}]

LEMMA AnyOfRemoved ==
  ASSUME NEW s, IsFiniteSet(s), s # {}
  PROVE  /\ AnyOf(s) \in s
         /\ Cardinality(s) \in Nat
         /\ Cardinality(s \ {AnyOf(s)}) = Cardinality(s) - 1
<1>1. AnyOf(s) \in s
  BY DEF AnyOf
<1> QED
  BY <1>1, FS_RemoveElement, FS_CardinalityType

NatOn(f, S) == \A x \in S : f[x] \in Nat
SumsOf(f, S, g) ==
  /\ g \in [SUBSET S -> Nat]
  /\ \A s \in SUBSET S : g[s] = SumStep(f, g, s) /\ SumFunctionOnSet(f, s) = g[s]

LEMMA SumRecursion ==
  ASSUME NEW S, IsFiniteSet(S), NEW f, NatOn(f, S)
  PROVE  \E g : SumsOf(f, S, g)
<1> DEFINE Small(n) == {s \in SUBSET S : Cardinality(s) <= n}
           Solves(g, n) == g \in [Small(n) -> Nat] /\ \A s \in Small(n) : g[s] = SumStep(f, g, s)
           T == {n \in Nat : \E g : Solves(g, n)}
<1>1. \A s \in SUBSET S : IsFiniteSet(s) /\ Cardinality(s) \in Nat /\ (Cardinality(s) = 0 <=> s = {})
  BY FS_Subset, FS_CardinalityType, FS_EmptySet
<1>2. \A s \in SUBSET S : s # {} => /\ AnyOf(s) \in s /\ f[AnyOf(s)] \in Nat
                                    /\ s \ {AnyOf(s)} \in SUBSET S
                                    /\ Cardinality(s \ {AnyOf(s)}) = Cardinality(s) - 1
  BY <1>1, AnyOfRemoved DEF NatOn
<1>3. 0 \in T
  <2>1. Small(0) = {{}}
    BY <1>1
  <2>2. Solves([s \in Small(0) |-> 0], 0)
    BY <2>1 DEF SumStep
  <2> QED
    BY <2>2
<1>4. \A n \in Nat : n \in T => n + 1 \in T
  <2> SUFFICES ASSUME NEW n \in Nat, n \in T PROVE n + 1 \in T
    OBVIOUS
  <2>1. PICK g : Solves(g, n)
    OBVIOUS
  <2> DEFINE h == [s \in Small(n + 1) |-> SumStep(f, g, s)]
  <2>2. \A s \in Small(n + 1) : s # {} => s \ {AnyOf(s)} \in Small(n)
    BY <1>1, <1>2
  <2>3. \A s \in Small(n + 1) : SumStep(f, g, s) \in Nat
    BY <1>2, <2>1, <2>2 DEF SumStep
  <2>4. \A s \in Small(n) : s \in Small(n + 1) /\ h[s] = g[s]
    BY <1>1, <2>1
  <2>5. \A s \in Small(n + 1) : h[s] = SumStep(f, h, s)
    BY <2>2, <2>4 DEF SumStep
  <2>6. Solves(h, n + 1)
    BY <2>3, <2>5
  <2> HIDE DEF h, Solves
  <2> QED
    BY <2>6
<1>5. Nat \subseteq T
  <2> HIDE DEF T
  <2> QED
    BY <1>3, <1>4, SetInduction
<1>6. Small(Cardinality(S)) = SUBSET S
  BY <1>1, FS_Subset
<1>7. PICK g : g \in [SUBSET S -> Nat] /\ \A s \in SUBSET S : g[s] = SumStep(f, g, s)
  <2>1. Cardinality(S) \in Nat
    BY <1>1
  <2>2. PICK g : Solves(g, Cardinality(S))
    BY <1>5, <2>1
  <2> QED
    BY <1>6, <2>2
<1> HIDE DEF T, Solves
<1>8. SUFFICES ASSUME NEW s0 \in SUBSET S
               PROVE  SumFunctionOnSet(f, s0) = g[s0]
  BY <1>7 DEF SumsOf
<1> DEFINE R == CHOOSE r : r = [s \in SUBSET s0 |-> SumStep(f, r, s)]
<1>9. R = [s \in SUBSET s0 |-> SumStep(f, R, s)]
  <2> DEFINE k == [s \in SUBSET s0 |-> g[s]]
  <2>1. \A s \in SUBSET s0 : SumStep(f, g, s) = SumStep(f, k, s)
    BY <1>2 DEF SumStep
  <2>2. k = [s \in SUBSET s0 |-> SumStep(f, k, s)]
    BY <1>7, <2>1
  <2> HIDE DEF k
  <2> QED
    BY <2>2
<1>10. SumFunctionOnSet(f, s0) = R[s0]
  BY DEF SumFunctionOnSet, FoldFunctionOnSet, MapThenFoldSet, R, SumStep, AnyOf
<1> HIDE DEF R
<1>11. \A s \in SUBSET s0 : R[s] = g[s]
  <2> DEFINE U == {n \in Nat : \A s \in SUBSET s0 : Cardinality(s) <= n => R[s] = g[s]}
  <2>1. \A s \in SUBSET s0 : R[s] = SumStep(f, R, s)
    BY <1>9
  <2>2. 0 \in U
    <3>1. \A s \in SUBSET s0 : Cardinality(s) <= 0 => s = {}
      BY <1>1
    <3> QED
      BY <1>7, <2>1, <3>1 DEF SumStep
  <2>3. \A n \in Nat : n \in U => n + 1 \in U
    <3> SUFFICES ASSUME NEW n \in Nat, n \in U, NEW s \in SUBSET s0, Cardinality(s) <= n + 1
                 PROVE  R[s] = g[s]
      OBVIOUS
    <3>1. s # {} => s \ {AnyOf(s)} \in SUBSET s0 /\ Cardinality(s \ {AnyOf(s)}) <= n
      BY <1>1, <1>2
    <3> QED
      BY <1>7, <2>1, <3>1 DEF SumStep
  <2>4. Nat \subseteq U
    <3> HIDE DEF U
    <3> QED
      BY <2>2, <2>3, SetInduction
  <2> QED
    BY <1>1, <2>4
<1>12. SumFunctionOnSet(f, s0) = g[s0]
  BY <1>10, <1>11
<1> QED
  BY <1>12

LEMMA SumEmpty ==
  ASSUME NEW f
  PROVE  SumFunctionOnSet(f, {}) = 0
<1>1. PICK g : SumsOf(f, {}, g)
  BY SumRecursion, FS_EmptySet DEF NatOn
<1> QED
  BY <1>1 DEF SumStep, SumsOf

LEMMA SumNat ==
  ASSUME NEW S, IsFiniteSet(S), NEW f, NatOn(f, S)
  PROVE  SumFunctionOnSet(f, S) \in Nat
<1>1. PICK g : SumsOf(f, S, g)
  BY SumRecursion
<1> QED
  BY <1>1 DEF SumsOf

LEMMA SumFunctionNat ==
  ASSUME NEW S, IsFiniteSet(S), NEW f \in [S -> Nat]
  PROVE  SumFunction(f) \in Nat
<1>1. NatOn(f, S)
  BY DEF NatOn
<1> QED
  BY <1>1, SumNat DEF SumFunction

(* Any element can be taken out of a sum.                                  *)
LEMMA SumRemove ==
  ASSUME NEW S, IsFiniteSet(S), NEW f, NatOn(f, S), NEW x \in S
  PROVE  SumFunctionOnSet(f, S) = f[x] + SumFunctionOnSet(f, S \ {x})
<1>1. PICK g : SumsOf(f, S, g)
  BY SumRecursion
<1>2. \A s \in SUBSET S : IsFiniteSet(s) /\ Cardinality(s) \in Nat /\ (Cardinality(s) = 0 <=> s = {})
  BY FS_Subset, FS_CardinalityType, FS_EmptySet
<1> DEFINE U == {n \in Nat : \A s \in SUBSET S : Cardinality(s) <= n =>
                               \A y \in s : g[s] = f[y] + g[s \ {y}]}
<1>3. 0 \in U
  BY <1>2
<1>4. \A n \in Nat : n \in U => n + 1 \in U
  <2> SUFFICES ASSUME NEW n \in Nat, n \in U,
                      NEW s \in SUBSET S, Cardinality(s) <= n + 1, NEW y \in s
               PROVE  g[s] = f[y] + g[s \ {y}]
    OBVIOUS
  <2> DEFINE p == AnyOf(s)
  <2>1. p \in s /\ Cardinality(s \ {p}) = Cardinality(s) - 1
    BY <1>2, AnyOfRemoved
  <2>2. g[s] = f[p] + g[s \ {p}]
    BY <1>1, <2>1 DEF SumStep, SumsOf
  <2> HIDE DEF p
  <2>3. CASE p = y
    BY <2>2, <2>3
  <2>4. CASE p # y
    <3>1. Cardinality(s \ {y}) = Cardinality(s) - 1
      BY <1>2, FS_RemoveElement
    <3>2. g[s \ {p}] = f[y] + g[(s \ {p}) \ {y}]
      <4>1. s \ {p} \in SUBSET S /\ Cardinality(s \ {p}) <= n /\ y \in s \ {p}
        BY <1>2, <2>1, <2>4
      <4> QED
        BY <4>1
    <3>3. g[s \ {y}] = f[p] + g[(s \ {y}) \ {p}]
      <4>1. s \ {y} \in SUBSET S /\ Cardinality(s \ {y}) <= n /\ p \in s \ {y}
        BY <1>2, <2>1, <2>4, <3>1
      <4> QED
        BY <4>1
    <3>4. g[(s \ {p}) \ {y}] = g[(s \ {y}) \ {p}]
      <4>1. (s \ {p}) \ {y} = (s \ {y}) \ {p}
        OBVIOUS
      <4> QED
        BY <4>1
    <3>5. f[p] \in Nat /\ f[y] \in Nat /\ g[(s \ {p}) \ {y}] \in Nat
      BY <1>1, <2>1 DEF SumsOf, NatOn
    <3>6. \A a, b, c \in Nat : a + (b + c) = b + (a + c)
      OBVIOUS
    <3>7. f[p] + (f[y] + g[(s \ {p}) \ {y}]) = f[y] + (f[p] + g[(s \ {p}) \ {y}])
      BY <3>5, <3>6
    <3> QED
      BY <2>2, <3>2, <3>3, <3>4, <3>7
  <2> QED
    BY <2>3, <2>4
<1>5. Nat \subseteq U
  <2> HIDE DEF U
  <2> QED
    BY <1>3, <1>4, SetInduction
<1>6. g[S] = f[x] + g[S \ {x}]
  BY <1>2, <1>5
<1> HIDE DEF U
<1>7. S \ {x} \in SUBSET S /\ S \in SUBSET S
  OBVIOUS
<1> QED
  BY <1>1, <1>6, <1>7 DEF SumsOf

(* An element of its own adds its value.                                   *)
LEMMA SumAdd ==
  ASSUME NEW S, IsFiniteSet(S), NEW f, NEW x, x \notin S, NatOn(f, S), f[x] \in Nat
  PROVE  SumFunctionOnSet(f, S \cup {x}) = f[x] + SumFunctionOnSet(f, S)
<1>1. IsFiniteSet(S \cup {x})
  BY FS_AddElement
<1>2. (S \cup {x}) \ {x} = S
  OBVIOUS
<1>3. NatOn(f, S \cup {x}) /\ x \in S \cup {x}
  BY DEF NatOn
<1>4. SumFunctionOnSet(f, S \cup {x}) = f[x] + SumFunctionOnSet(f, (S \cup {x}) \ {x})
  BY <1>1, <1>3, SumRemove
<1> QED
  BY <1>2, <1>4

(* A sum depends on the values on its set only.                           *)
LEMMA SumSame ==
  ASSUME NEW S, IsFiniteSet(S), NEW f, NEW h,
         NatOn(f, S), \A x \in S : f[x] = h[x]
  PROVE  SumFunctionOnSet(f, S) = SumFunctionOnSet(h, S)
<1> DEFINE T == {s \in SUBSET S : SumFunctionOnSet(f, s) = SumFunctionOnSet(h, s)}
<1>1. {} \in T
  BY SumEmpty
<1>2. \A s \in SUBSET S : \A x \in S \ s : s \in T => s \cup {x} \in T
  <2> SUFFICES ASSUME NEW s \in SUBSET S, NEW x \in S \ s, s \in T
               PROVE  SumFunctionOnSet(f, s \cup {x}) = SumFunctionOnSet(h, s \cup {x})
    OBVIOUS
  <2>1. /\ IsFiniteSet(s) /\ x \notin s /\ x \in S
        /\ NatOn(f, s) /\ NatOn(h, s) /\ f[x] \in Nat /\ h[x] = f[x]
    BY FS_Subset DEF NatOn
  <2>2. SumFunctionOnSet(f, s \cup {x}) = f[x] + SumFunctionOnSet(f, s)
    BY <2>1, SumAdd
  <2>3. SumFunctionOnSet(h, s \cup {x}) = h[x] + SumFunctionOnSet(h, s)
    BY <2>1, SumAdd
  <2>4. SumFunctionOnSet(f, s) = SumFunctionOnSet(h, s)
    OBVIOUS
  <2> HIDE DEF T
  <2> QED
    BY <2>1, <2>2, <2>3, <2>4
<1>3. SUBSET S \subseteq T
  <2> HIDE DEF T
  <2> QED
    BY <1>1, <1>2, SubsetInduction
<1> QED
  BY <1>3

(* Zeros may be left out of a sum.                                         *)
LEMMA SumNonzero ==
  ASSUME NEW S, IsFiniteSet(S), NEW f, NatOn(f, S),
         NEW Z \in SUBSET S, \A x \in Z : f[x] = 0
  PROVE  SumFunctionOnSet(f, S \ Z) = SumFunctionOnSet(f, S)
<1> DEFINE T == {z \in SUBSET Z : SumFunctionOnSet(f, S \ z) = SumFunctionOnSet(f, S)}
<1>1. {} \in T
  <2>1. S \ {} = S
    OBVIOUS
  <2> QED
    BY <2>1
<1>2. \A z \in SUBSET Z : \A x \in Z \ z : z \in T => z \cup {x} \in T
  <2> SUFFICES ASSUME NEW z \in SUBSET Z, NEW x \in Z \ z, z \in T
               PROVE  SumFunctionOnSet(f, S \ (z \cup {x})) = SumFunctionOnSet(f, S \ z)
    OBVIOUS
  <2>1. IsFiniteSet(S \ z) /\ IsFiniteSet(S \ (z \cup {x})) /\ x \in S \ z
    BY FS_Subset
  <2>5. NatOn(f, S \ z) /\ NatOn(f, S \ (z \cup {x})) /\ f[x] = 0
    BY DEF NatOn
  <2>2. SumFunctionOnSet(f, S \ z) = f[x] + SumFunctionOnSet(f, (S \ z) \ {x})
    BY <2>1, <2>5, SumRemove
  <2>3. (S \ z) \ {x} = S \ (z \cup {x})
    OBVIOUS
  <2>4. SumFunctionOnSet(f, S \ (z \cup {x})) \in Nat
    BY <2>1, <2>5, SumNat
  <2> QED
    BY <2>2, <2>3, <2>4, <2>5
<1>3. SUBSET Z \subseteq T
  <2> HIDE DEF T
  <2>1. IsFiniteSet(Z)
    BY FS_Subset
  <2> QED
    BY <1>1, <1>2, <2>1, SubsetInduction
<1> QED
  BY <1>3

(* A sum of naturals is positive when one of them is.                      *)
LEMMA SumPositive ==
  ASSUME NEW S, IsFiniteSet(S), NEW f \in [S -> Nat]
  PROVE  /\ SumFunction(f) \in Nat
         /\ SumFunction(f) > 0 <=> \E x \in S : f[x] > 0
<1>1. SumFunction(f) \in Nat /\ SumFunction(f) = SumFunctionOnSet(f, S) /\ NatOn(f, S)
  BY SumFunctionNat DEF SumFunction, NatOn
<1>2. ASSUME NEW x \in S, f[x] > 0
      PROVE  SumFunction(f) > 0
  <2>1. SumFunctionOnSet(f, S) = f[x] + SumFunctionOnSet(f, S \ {x})
    BY <1>1, SumRemove
  <2>2. IsFiniteSet(S \ {x}) /\ NatOn(f, S \ {x})
    BY <1>1, FS_Subset DEF NatOn
  <2>3. SumFunctionOnSet(f, S \ {x}) \in Nat
    BY <2>2, SumNat
  <2> QED
    BY <1>1, <1>2, <2>1, <2>3
<1>3. ASSUME \A x \in S : ~(f[x] > 0)
      PROVE  SumFunction(f) = 0
  <2>1. \A x \in S : f[x] = 0
    BY <1>3
  <2>2. SumFunctionOnSet(f, S \ S) = SumFunctionOnSet(f, S)
    BY <1>1, <2>1, SumNonzero
  <2>3. S \ S = {}
    OBVIOUS
  <2> QED
    BY <1>1, <2>2, <2>3, SumEmpty
<1> QED
  BY <1>1, <1>2, <1>3
=============================================================================
