----------------------------- MODULE SumProofs -----------------------------
(***************************************************************************)
(* What TLAPS proves of the sums the models take with MapThenSumSet, over  *)
(* finite sets of any size.  The induction is a least counterexample: the  *)
(* natural numbers are well founded.                                       *)
(***************************************************************************)
EXTENDS Integers, FiniteSets, FiniteSetsExt, FiniteSetTheorems,
        WellFoundedInduction, TLAPS

LEMMA LeastOf ==
  ASSUME NEW T \in SUBSET Nat, T # {}
  PROVE  \E n \in T : \A m \in T : n <= m
<1> DEFINE R == OpToRel(<, Nat)
<1>1. IsWellFoundedOn(R, Nat)
  BY NatLessThanWellFounded
<1>2. \E n \in T : \A m \in T : ~ (<<m, n>> \in R)
  <2> HIDE DEF R
  <2> QED
    BY <1>1, WFMin
<1>3. PICK n \in T : \A m \in T : ~ (<<m, n>> \in R)
  BY <1>2
<1>4. \A m \in T : ~(m < n)
  BY <1>3 DEF OpToRel
<1> QED
  BY <1>4

\* Of finite sets with a property one has the fewest elements.
LEMMA SmallestSet ==
  ASSUME NEW F, F # {}, \A S \in F : IsFiniteSet(S)
  PROVE  \E S \in F : \A T \in F : Cardinality(S) <= Cardinality(T)
<1> DEFINE C == {Cardinality(S) : S \in F}
<1>1. C \in SUBSET Nat /\ C # {}
  BY FS_CardinalityType
<1>2. PICK n \in C : \A m \in C : n <= m
  BY <1>1, LeastOf
<1> QED
  BY <1>2

\* A set of sets has every finite set if it has those whose proper subsets it
\* has.
LEMMA FiniteSetsInduction ==
  ASSUME NEW D, NEW F,
         \A S \in SUBSET D : IsFiniteSet(S) /\ (\A T \in SUBSET S : T # S => T \in F) => S \in F
  PROVE  \A S \in SUBSET D : IsFiniteSet(S) => S \in F
<1> DEFINE B == {S \in SUBSET D : IsFiniteSet(S) /\ S \notin F}
<1>1. SUFFICES ASSUME B # {} PROVE FALSE
  OBVIOUS
<1>2. PICK S \in B : \A T \in B : Cardinality(S) <= Cardinality(T)
  <2> HIDE DEF B
  <2>1. \A S \in B : IsFiniteSet(S)
    BY DEF B
  <2> QED
    BY <1>1, <2>1, SmallestSet
<1>3. \A T \in SUBSET S : T # S => T \in F
  <2> SUFFICES ASSUME NEW T \in SUBSET S, T # S, T \notin F PROVE FALSE
    OBVIOUS
  <2>1. IsFiniteSet(T) /\ Cardinality(T) < Cardinality(S)
    BY FS_Subset, FS_CardinalityType
  <2>2. T \in B
    BY <2>1
  <2>3. Cardinality(T) \in Nat /\ Cardinality(S) \in Nat
    BY <2>1, FS_CardinalityType
  <2> QED
    BY <1>2, <2>1, <2>2, <2>3
<1> QED
  BY <1>3

-----------------------------------------------------------------------------
(* The function MapThenSumSet is defined by. *)

Some(S) == CHOOSE x \in S : TRUE
Sums(f, S, g) ==
    g = [T \in SUBSET S |-> IF T = {} THEN 0 ELSE f[Some(T)] + g[T \ {Some(T)}]]
SumFcn(f, S) == CHOOSE g : Sums(f, S, g)
SumOf(f, S) == MapThenSumSet(LAMBDA x : f[x], S)

LEMMA SumIs ==
  ASSUME NEW f, NEW S
  PROVE  SumOf(f, S) = SumFcn(f, S)[S]
BY DEF SumOf, MapThenSumSet, MapThenFoldSet, SumFcn, Sums, Some

LEMMA SomeIn ==
  ASSUME NEW S, S # {}
  PROVE  Some(S) \in S
BY DEF Some

\* Two such functions agree where both are defined.
LEMMA SumsAgree ==
  ASSUME NEW f, NEW S, IsFiniteSet(S), NEW T, NEW g, NEW h, Sums(f, S, g), Sums(f, T, h)
  PROVE  \A U \in SUBSET (S \cap T) : g[U] = h[U]
<1> DEFINE D == S \cap T
           F == {U \in SUBSET D : g[U] = h[U]}
<1>1. \A U \in SUBSET D : IsFiniteSet(U) /\ (\A V \in SUBSET U : V # U => V \in F) => U \in F
  <2> SUFFICES ASSUME NEW U \in SUBSET D, \A V \in SUBSET U : V # U => V \in F
               PROVE  g[U] = h[U]
    OBVIOUS
  <2>1. /\ g[U] = IF U = {} THEN 0 ELSE f[Some(U)] + g[U \ {Some(U)}]
        /\ h[U] = IF U = {} THEN 0 ELSE f[Some(U)] + h[U \ {Some(U)}]
    BY DEF Sums
  <2>2. U # {} => g[U \ {Some(U)}] = h[U \ {Some(U)}]
    BY SomeIn
  <2> QED
    BY <2>1, <2>2
<1>2. \A U \in SUBSET D : IsFiniteSet(U) => U \in F
  <2> HIDE DEF D, F
  <2> QED
    BY <1>1, FiniteSetsInduction
<1> QED
  BY <1>2, FS_Subset

\* There is such a function for every finite set.
LEMMA SumsExist ==
  ASSUME NEW f, NEW D
  PROVE  \A S \in SUBSET D : IsFiniteSet(S) => Sums(f, S, SumFcn(f, S))
<1> DEFINE F == {S \in SUBSET D : Sums(f, S, SumFcn(f, S))}
<1>1. ASSUME NEW S \in SUBSET D, IsFiniteSet(S), \A T \in SUBSET S : T # S => T \in F
      PROVE  Sums(f, S, SumFcn(f, S))
  <2> DEFINE g == [T \in SUBSET S |->
                     IF T = {} THEN 0
                     ELSE f[Some(T)] + SumFcn(f, T \ {Some(T)})[T \ {Some(T)}]]
  <2>1. ASSUME NEW T \in SUBSET S, T # S
        PROVE  SumFcn(f, T)[T] = g[T]
    <3>1. Sums(f, T, SumFcn(f, T)) /\ IsFiniteSet(T)
      BY <1>1, <2>1, FS_Subset
    <3>2. SumFcn(f, T)[T] = IF T = {} THEN 0
                            ELSE f[Some(T)] + SumFcn(f, T)[T \ {Some(T)}]
      BY <3>1 DEF Sums
    <3>3. T # {} => SumFcn(f, T)[T \ {Some(T)}] = SumFcn(f, T \ {Some(T)})[T \ {Some(T)}]
      <4> SUFFICES ASSUME T # {}
                   PROVE  SumFcn(f, T)[T \ {Some(T)}] = SumFcn(f, T \ {Some(T)})[T \ {Some(T)}]
        OBVIOUS
      <4> DEFINE U == T \ {Some(T)}
      <4>1. U \in SUBSET S /\ U # S /\ U \in SUBSET (T \cap U)
        BY SomeIn
      <4>2. Sums(f, U, SumFcn(f, U))
        BY <1>1, <4>1
      <4> HIDE DEF U
      <4>3. SumFcn(f, T)[U] = SumFcn(f, U)[U]
        BY <3>1, <4>1, <4>2, SumsAgree
      <4> QED
        BY <4>3 DEF U
    <3> QED
      BY <3>2, <3>3
  <2>2. \A T \in SUBSET S : g[T] = IF T = {} THEN 0 ELSE f[Some(T)] + g[T \ {Some(T)}]
    <3> SUFFICES ASSUME NEW T \in SUBSET S, T # {}
                 PROVE  g[T] = f[Some(T)] + g[T \ {Some(T)}]
      OBVIOUS
    <3>1. T \ {Some(T)} \in SUBSET S /\ T \ {Some(T)} # S
      BY SomeIn
    <3>2. g[T] = f[Some(T)] + SumFcn(f, T \ {Some(T)})[T \ {Some(T)}]
      OBVIOUS
    <3> HIDE DEF g
    <3> QED
      BY <2>1, <3>1, <3>2
  <2>3. Sums(f, S, g)
    <3>1. g = [T \in SUBSET S |-> g[T]]
      OBVIOUS
    <3> HIDE DEF g
    <3> QED
      BY <2>2, <3>1 DEF Sums
  <2> HIDE DEF g
  <2> QED
    BY <2>3 DEF SumFcn
<1>2. \A S \in SUBSET D : IsFiniteSet(S) => S \in F
  <2>1. \A S \in SUBSET D : IsFiniteSet(S) /\ (\A T \in SUBSET S : T # S => T \in F) => S \in F
    BY <1>1
  <2> HIDE DEF F
  <2> QED
    BY <2>1, FiniteSetsInduction
<1> QED
  BY <1>2

\* A sum, unfolded once.
LEMMA SumUnfolds ==
  ASSUME NEW f, NEW S, IsFiniteSet(S)
  PROVE  SumOf(f, S) = IF S = {} THEN 0 ELSE f[Some(S)] + SumOf(f, S \ {Some(S)})
<1> DEFINE U == S \ {Some(S)}
<1>1. Sums(f, S, SumFcn(f, S)) /\ Sums(f, U, SumFcn(f, U))
  BY SumsExist, FS_Subset
<1>2. SumFcn(f, S)[S] = IF S = {} THEN 0 ELSE f[Some(S)] + SumFcn(f, S)[U]
  BY <1>1 DEF Sums
<1>3. SumFcn(f, S)[U] = SumFcn(f, U)[U]
  <2>1. U \in SUBSET (S \cap U)
    OBVIOUS
  <2> HIDE DEF U
  <2> QED
    BY <1>1, <2>1, SumsAgree
<1> QED
  BY <1>2, <1>3, SumIs

-----------------------------------------------------------------------------
(* How sums of integers change. *)

LEMMA SumType ==
  ASSUME NEW D, NEW f, \A x \in D : f[x] \in Int
  PROVE  \A S \in SUBSET D : IsFiniteSet(S) => SumOf(f, S) \in Int
<1> DEFINE F == {S \in SUBSET D : SumOf(f, S) \in Int}
<1>1. ASSUME NEW S \in SUBSET D, IsFiniteSet(S), \A T \in SUBSET S : T # S => T \in F
      PROVE  SumOf(f, S) \in Int
  <2>1. CASE S = {}
    <3>1. SumOf(f, S) = 0
      BY <1>1, <2>1, SumUnfolds
    <3> QED
      BY <3>1
  <2>2. CASE S # {}
    <3>1. Some(S) \in S /\ SumOf(f, S \ {Some(S)}) \in Int
      BY <1>1, <2>2, SomeIn
    <3>2. SumOf(f, S) = f[Some(S)] + SumOf(f, S \ {Some(S)})
      BY <1>1, <2>2, SumUnfolds
    <3> QED
      BY <3>1, <3>2
  <2> QED
    BY <2>1, <2>2
<1>2. \A S \in SUBSET D : IsFiniteSet(S) => S \in F
  <2>1. \A S \in SUBSET D : IsFiniteSet(S) /\ (\A T \in SUBSET S : T # S => T \in F) => S \in F
    BY <1>1
  <2> HIDE DEF F
  <2> QED
    BY <2>1, FiniteSetsInduction
<1> QED
  BY <1>2

\* Any element can be taken out.
LEMMA SumRemoves ==
  ASSUME NEW f, NEW D, IsFiniteSet(D), \A x \in D : f[x] \in Int, NEW z \in D
  PROVE  SumOf(f, D) = f[z] + SumOf(f, D \ {z})
<1> DEFINE F == {S \in SUBSET D : \A x \in S : SumOf(f, S) = f[x] + SumOf(f, S \ {x})}
<1>1. ASSUME NEW S \in SUBSET D, IsFiniteSet(S), \A T \in SUBSET S : T # S => T \in F,
             NEW x \in S
      PROVE  SumOf(f, S) = f[x] + SumOf(f, S \ {x})
  <2> DEFINE y == Some(S)
  <2>1. y \in S /\ SumOf(f, S) = f[y] + SumOf(f, S \ {y})
    BY <1>1, SomeIn, SumUnfolds
  <2>2. CASE x # y
    <3>1. SumOf(f, S \ {y}) = f[x] + SumOf(f, (S \ {y}) \ {x})
      BY <1>1, <2>1, <2>2
    <3>2. SumOf(f, S \ {x}) = f[y] + SumOf(f, (S \ {x}) \ {y})
      BY <1>1, <2>1, <2>2
    <3>3. (S \ {y}) \ {x} = (S \ {x}) \ {y}
      OBVIOUS
    <3>4. SumOf(f, (S \ {x}) \ {y}) \in Int /\ f[x] \in Int /\ f[y] \in Int
      <4>1. IsFiniteSet((S \ {x}) \ {y}) /\ (S \ {x}) \ {y} \in SUBSET D
        BY <1>1, FS_Subset
      <4> QED
        BY <2>1, <4>1, SumType
    <3>5. \A a, b, c \in Int : a + (b + c) = b + (a + c)
      OBVIOUS
    <3>6. f[y] + (f[x] + SumOf(f, (S \ {x}) \ {y})) = f[x] + (f[y] + SumOf(f, (S \ {x}) \ {y}))
      BY <3>4, <3>5
    <3> HIDE DEF y
    <3> QED
      BY <2>1, <3>1, <3>2, <3>3, <3>6
  <2> QED
    BY <2>1, <2>2
<1>2. \A S \in SUBSET D : IsFiniteSet(S) => S \in F
  <2>1. \A S \in SUBSET D : IsFiniteSet(S) /\ (\A T \in SUBSET S : T # S => T \in F) => S \in F
    BY <1>1
  <2> HIDE DEF F
  <2> QED
    BY <2>1, FiniteSetsInduction
<1> QED
  <2>1. D \in SUBSET D
    OBVIOUS
  <2> QED
    BY <1>2, <2>1

\* Functions that agree have the same sums.
LEMMA SumSame ==
  ASSUME NEW D, IsFiniteSet(D), NEW f, NEW g, \A x \in D : f[x] = g[x]
  PROVE  SumOf(f, D) = SumOf(g, D)
<1> DEFINE F == {S \in SUBSET D : SumOf(f, S) = SumOf(g, S)}
<1>1. ASSUME NEW S \in SUBSET D, IsFiniteSet(S), \A T \in SUBSET S : T # S => T \in F
      PROVE  SumOf(f, S) = SumOf(g, S)
  <2>1. CASE S = {}
    BY <1>1, <2>1, SumUnfolds
  <2>2. CASE S # {}
    <3>1. Some(S) \in S /\ SumOf(f, S \ {Some(S)}) = SumOf(g, S \ {Some(S)})
      BY <1>1, <2>2, SomeIn
    <3> QED
      BY <1>1, <2>2, <3>1, SumUnfolds
  <2> QED
    BY <2>1, <2>2
<1>2. \A S \in SUBSET D : IsFiniteSet(S) => S \in F
  <2>1. \A S \in SUBSET D : IsFiniteSet(S) /\ (\A T \in SUBSET S : T # S => T \in F) => S \in F
    BY <1>1
  <2> HIDE DEF F
  <2> QED
    BY <2>1, FiniteSetsInduction
<1> QED
  BY <1>2

\* Elements that are 0 can be left out.
LEMMA SumWithout ==
  ASSUME NEW D, NEW f, \A x \in D : f[x] \in Int,
         NEW T \in SUBSET D, \A x \in D \ T : f[x] = 0, IsFiniteSet(D)
  PROVE  SumOf(f, D) = SumOf(f, T)
<1> DEFINE F == {S \in SUBSET D : T \subseteq S => SumOf(f, S) = SumOf(f, T)}
<1>1. ASSUME NEW S \in SUBSET D, IsFiniteSet(S), \A U \in SUBSET S : U # S => U \in F,
             T \subseteq S
      PROVE  SumOf(f, S) = SumOf(f, T)
  <2>1. CASE S # T
    <3>1. PICK x \in S : x \notin T
      BY <1>1, <2>1
    <3>2. SumOf(f, S \ {x}) = SumOf(f, T)
      BY <1>1, <3>1
    <3>5. \A z \in S : f[z] \in Int
      OBVIOUS
    <3>6. SumOf(f, S) = f[x] + SumOf(f, S \ {x})
      BY <1>1, <3>1, <3>5, SumRemoves
    <3>3. SumOf(f, S) = f[x] + SumOf(f, S \ {x}) /\ f[x] = 0
      BY <3>1, <3>6
    <3>4. SumOf(f, T) \in Int
      BY SumType, FS_Subset
    <3> QED
      BY <3>2, <3>3, <3>4
  <2> QED
    BY <2>1
<1>2. \A S \in SUBSET D : IsFiniteSet(S) => S \in F
  <2>1. \A S \in SUBSET D : IsFiniteSet(S) /\ (\A U \in SUBSET S : U # S => U \in F) => S \in F
    BY <1>1
  <2> HIDE DEF F
  <2> QED
    BY <2>1, FiniteSetsInduction
<1> QED
  BY <1>2

\* One element changes.
LEMMA SumChanges ==
  ASSUME NEW D, IsFiniteSet(D), NEW f, NEW g, NEW x \in D,
         \A y \in D : f[y] \in Int /\ g[y] \in Int,
         \A y \in D \ {x} : g[y] = f[y]
  PROVE  SumOf(g, D) = SumOf(f, D) + g[x] - f[x] /\ SumOf(f, D) \in Int
<1>1. IsFiniteSet(D \ {x})
  BY FS_Subset
<1>2. SumOf(g, D \ {x}) = SumOf(f, D \ {x})
  BY <1>1, SumSame
<1>3. SumOf(f, D) = f[x] + SumOf(f, D \ {x}) /\ SumOf(g, D) = g[x] + SumOf(g, D \ {x})
  <2>1. (\A y \in D : f[y] \in Int) /\ \A y \in D : g[y] \in Int
    OBVIOUS
  <2> QED
    BY <2>1, SumRemoves
<1>4. SumOf(f, D \ {x}) \in Int
  BY <1>1, SumType
<1> QED
  BY <1>2, <1>3, <1>4

\* A sum of natural numbers is one.
LEMMA SumIsNat ==
  ASSUME NEW D, NEW f, \A x \in D : f[x] \in Nat
  PROVE  \A S \in SUBSET D : IsFiniteSet(S) => SumOf(f, S) \in Nat
<1> DEFINE F == {S \in SUBSET D : SumOf(f, S) \in Nat}
<1>1. ASSUME NEW S \in SUBSET D, IsFiniteSet(S), \A T \in SUBSET S : T # S => T \in F
      PROVE  S \in F
  <2>1. CASE S = {}
    <3>1. SumOf(f, S) = 0
      BY <1>1, <2>1, SumUnfolds
    <3> QED
      BY <3>1
  <2>2. CASE S # {}
    <3>1. Some(S) \in S
      BY <2>2, SomeIn
    <3>2. S \ {Some(S)} \in F /\ f[Some(S)] \in Nat
      BY <1>1, <3>1
    <3>3. SumOf(f, S) = f[Some(S)] + SumOf(f, S \ {Some(S)})
      BY <1>1, <2>2, SumUnfolds
    <3> QED
      BY <3>2, <3>3
  <2> QED
    BY <2>1, <2>2
<1>2. \A S \in SUBSET D : IsFiniteSet(S) => S \in F
  <2> HIDE DEF F
  <2> QED
    BY <1>1, FiniteSetsInduction
<1> QED
  BY <1>2

\* A sum is at most another when each of its terms is matched by a term of the
\* other that is no less, and no two by the same.
LEMMA SumAtMost ==
  ASSUME NEW D, IsFiniteSet(D), NEW E, IsFiniteSet(E),
         NEW f, \A x \in D : f[x] \in Nat, NEW g, \A y \in E : g[y] \in Nat,
         NEW m, \A x \in D : m[x] \in E /\ f[x] <= g[m[x]],
         \A x, y \in D : m[x] = m[y] => x = y
  PROVE  SumOf(f, D) <= SumOf(g, E)
<1> DEFINE F == {S \in SUBSET D : \A T \in SUBSET E :
                    (\A x \in S : m[x] \in T) => SumOf(f, S) <= SumOf(g, T)}
<1>1. ASSUME NEW S \in SUBSET D, IsFiniteSet(S), \A U \in SUBSET S : U # S => U \in F
      PROVE  S \in F
  <2>1. SUFFICES ASSUME NEW T \in SUBSET E, \A x \in S : m[x] \in T
                 PROVE  SumOf(f, S) <= SumOf(g, T)
    OBVIOUS
  <2>2. IsFiniteSet(T)
    BY FS_Subset
  <2>3. CASE S = {}
    <3>1. SumOf(f, S) = 0
      BY <1>1, <2>3, SumUnfolds
    <3>2. SumOf(g, T) \in Nat
      BY <2>2, SumIsNat
    <3> QED
      BY <3>1, <3>2
  <2>4. CASE S # {}
    <3>1. PICK x \in S : TRUE
      BY <2>4
    <3>2. SumOf(f, S) = f[x] + SumOf(f, S \ {x})
      BY <1>1, <3>1, SumRemoves
    <3>3. SumOf(g, T) = g[m[x]] + SumOf(g, T \ {m[x]})
      BY <2>1, <2>2, SumRemoves
    <3>4. S \ {x} \in F /\ T \ {m[x]} \in SUBSET E
      BY <1>1
    <3>5. \A y \in S \ {x} : m[y] \in T \ {m[x]}
      BY <2>1
    <3>6. SumOf(f, S \ {x}) <= SumOf(g, T \ {m[x]})
      BY <3>4, <3>5
    <3>7. SumOf(f, S \ {x}) \in Nat /\ SumOf(g, T \ {m[x]}) \in Nat
      <4>1. IsFiniteSet(S \ {x}) /\ IsFiniteSet(T \ {m[x]})
        BY <1>1, <2>2, FS_Subset
      <4> QED
        BY <4>1, <3>4, SumIsNat
    <3>8. f[x] \in Nat /\ g[m[x]] \in Nat /\ f[x] <= g[m[x]]
      BY <2>1
    <3> QED
      BY <3>2, <3>3, <3>6, <3>7, <3>8
  <2> QED
    BY <2>3, <2>4
<1>2. \A S \in SUBSET D : IsFiniteSet(S) => S \in F
  <2> HIDE DEF F
  <2> QED
    BY <1>1, FiniteSetsInduction
<1> QED
  BY <1>2
=============================================================================
