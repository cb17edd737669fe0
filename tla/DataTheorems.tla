---------------------------- MODULE DataTheorems ----------------------------
(***************************************************************************)
(* What the other proofs need by induction over data: least and greatest   *)
(* numbers, induction over a finite set, and sums over finite sets.  The   *)
(* predicate of an induction is a set here, and what is summed a function. *)
(***************************************************************************)
EXTENDS Integers, FiniteSets, Functions, FiniteSetTheorems, TLAPS

(***************************************************************************)
(* Numbers.                                                                *)
(***************************************************************************)
\* Some natural number of a set is the least.
LEMMA LeastNatural ==
  ASSUME NEW T, T \subseteq Nat, T # {}
  PROVE  \E m \in T : \A n \in T : m <= n
<1>1. PICK m \in T : \A n \in T : <<n, m>> \notin OpToRel(<, Nat)
  BY NatLessThanWellFounded, WFMin
<1>2. \A n \in T : ~(n < m)
  BY <1>1 DEF OpToRel
<1> QED
  BY <1>2

\* Some number of a set that has a bound is the greatest.
LEMMA GreatestInteger ==
  ASSUME NEW T, T \subseteq Int, T # {}, NEW b \in Int, \A n \in T : n <= b
  PROVE  \E m \in T : \A n \in T : n <= m
<1> DEFINE D == {b - n : n \in T}
<1>1. \A n \in T : n \in Int /\ b - n \in Nat
  OBVIOUS
<1>2. D \subseteq Nat /\ D # {}
  BY <1>1
<1>3. PICK d \in D : \A e \in D : d <= e
  <2> HIDE DEF D
  <2> QED
    BY <1>2, LeastNatural
<1>4. PICK m \in T : d = b - m
  OBVIOUS
<1>5. ASSUME NEW n \in T PROVE n <= m
  <2>1. b - n \in D
    OBVIOUS
  <2> QED
    BY <1>1, <1>3, <1>4, <2>1
<1> QED
  BY <1>5

(***************************************************************************)
(* Finite sets.                                                            *)
(***************************************************************************)
\* Of some subsets of a finite set, one has no other in it.
LEMMA SmallestSubset ==
  ASSUME NEW S, IsFiniteSet(S), NEW T, T \subseteq SUBSET S, T # {}
  PROVE  \E U \in T : \A V \in T : V \subseteq U => V = U
<1>1. PICK U \in T : \A V \in T : <<V, U>> \notin StrictSubsetOrdering(S)
  BY FS_StrictSubsetOrderingWellFounded, FS_FiniteSubsetsOfFinite, WFMin
<1>2. \A V \in T : V \subseteq U => V = U
  BY <1>1 DEF StrictSubsetOrdering
<1> QED
  BY <1>2

\* What holds for the empty set, and with a set for one more element, holds for
\* every subset of a finite set.
LEMMA SetInduction ==
  ASSUME NEW S, IsFiniteSet(S), NEW P, {} \in P,
         \A T \in SUBSET S, x \in S : T \in P /\ x \notin T => T \cup {x} \in P
  PROVE  \A T \in SUBSET S : T \in P
<1> DEFINE Q == (SUBSET S) \ P
<1> SUFFICES ASSUME Q # {} PROVE FALSE
  OBVIOUS
<1>1. PICK U \in Q : \A V \in Q : V \subseteq U => V = U
  <2>1. Q \subseteq SUBSET S
    OBVIOUS
  <2> HIDE DEF Q
  <2> QED
    BY <2>1, SmallestSubset
<1>2. PICK x \in U : TRUE
  BY <1>1
<1>3. U \ {x} \in P
  BY <1>1, <1>2
<1>4. (U \ {x}) \cup {x} = U
  BY <1>2
<1> QED
  BY <1>1, <1>2, <1>3, <1>4

(***************************************************************************)
(* Sums over a finite set: what the definition says of a set, when one     *)
(* element is taken out.                                                   *)
(***************************************************************************)
Some(s) == CHOOSE x \in s : TRUE

\* The sums of the subsets of S, as the definition builds them.
Sums(f, g, S) ==
  g = [s \in SUBSET S |-> IF s = {} THEN 0 ELSE f[Some(s)] + g[s \ {Some(s)}]]
TheSums(f, S) == CHOOSE g : Sums(f, g, S)

LEMMA SumOfSums ==
  ASSUME NEW f, NEW S PROVE SumFunctionOnSet(f, S) = TheSums(f, S)[S]
BY Zenon DEF SumFunctionOnSet, FoldFunctionOnSet, MapThenFoldSet, TheSums, Sums, Some

LEMMA SomeIsIn == ASSUME NEW s, s # {} PROVE Some(s) \in s
BY DEF Some

LEMMA SumsUnique ==
  ASSUME NEW f, NEW S, IsFiniteSet(S), NEW g, NEW h, Sums(f, g, S), Sums(f, h, S),
         NEW s \in SUBSET S
  PROVE  g[s] = h[s]
<1> DEFINE D == {t \in SUBSET S : g[t] # h[t]}
<1> SUFFICES ASSUME D # {} PROVE FALSE
  OBVIOUS
<1>1. PICK U \in D : \A V \in D : V \subseteq U => V = U
  <2>1. D \subseteq SUBSET S
    OBVIOUS
  <2> HIDE DEF D
  <2> QED
    BY <2>1, SmallestSubset
<1>2. /\ g[U] = IF U = {} THEN 0 ELSE f[Some(U)] + g[U \ {Some(U)}]
      /\ h[U] = IF U = {} THEN 0 ELSE f[Some(U)] + h[U \ {Some(U)}]
  BY DEF Sums
<1>3. U # {}
  BY <1>2
<1>4. U \ {Some(U)} \in SUBSET S /\ U \ {Some(U)} # U
  BY <1>3, SomeIsIn
<1>5. g[U \ {Some(U)}] = h[U \ {Some(U)}]
  BY <1>1, <1>4
<1> QED
  BY <1>2, <1>3, <1>5

LEMMA SumsOfSubset ==
  ASSUME NEW f, NEW S, NEW g, Sums(f, g, S), NEW V \in SUBSET S
  PROVE  Sums(f, [s \in SUBSET V |-> g[s]], V)
<1>1. \A s \in SUBSET V :
        g[s] = IF s = {} THEN 0 ELSE f[Some(s)] + g[s \ {Some(s)}]
  BY DEF Sums
<1>2. \A s \in SUBSET V : s \ {Some(s)} \in SUBSET V
  OBVIOUS
<1> QED
  BY <1>1, <1>2 DEF Sums

\* The sum of nothing is 0.
THEOREM SumEmpty ==
  ASSUME NEW f PROVE SumFunctionOnSet(f, {}) = 0
<1>1. Sums(f, [t \in SUBSET {} |-> 0], {})
  BY DEF Sums
<1>2. Sums(f, TheSums(f, {}), {})
  BY <1>1 DEF TheSums
<1> QED
  BY <1>2, SumOfSums DEF Sums

\* The sum of a set, whose sums exist, from that of what is left of it.
LEMMA SumOfRest ==
  ASSUME NEW f, NEW S, IsFiniteSet(S), S # {}, NEW g, Sums(f, g, S)
  PROVE  SumFunctionOnSet(f, S)
           = f[Some(S)] + SumFunctionOnSet(f, S \ {Some(S)})
<1> DEFINE T == S \ {Some(S)}
           G == TheSums(f, S)
           H == TheSums(f, T)
<1>1. Sums(f, G, S)
  BY DEF TheSums
<1>2. T \in SUBSET S /\ IsFiniteSet(T)
  BY FS_Subset
<1>3. Sums(f, [s \in SUBSET T |-> G[s]], T)
  BY <1>1, <1>2, SumsOfSubset
<1>4. Sums(f, H, T)
  BY <1>3 DEF TheSums
<1>5. H[T] = G[T]
  <2>1. T \in SUBSET T
    OBVIOUS
  <2>2. [s \in SUBSET T |-> G[s]][T] = H[T]
    <3> HIDE DEF T, G, H
    <3> QED
      BY <1>2, <1>3, <1>4, <2>1, SumsUnique
  <2> QED
    BY <2>1, <2>2
<1>6. G[S] = f[Some(S)] + G[T]
  BY <1>1 DEF Sums
<1> QED
  BY <1>5, <1>6, SumOfSums

LEMMA SumsExist ==
  ASSUME NEW f, NEW S, IsFiniteSet(S)
  PROVE  \E g : Sums(f, g, S)
<1> DEFINE D == {T \in SUBSET S : ~\E g : Sums(f, g, T)}
<1> SUFFICES ASSUME D # {} PROVE FALSE
  OBVIOUS
<1>1. PICK U \in D : \A V \in D : V \subseteq U => V = U
  <2>1. D \subseteq SUBSET S
    OBVIOUS
  <2> HIDE DEF D
  <2> QED
    BY <2>1, SmallestSubset
<1>2. \A V \in SUBSET U : V # U => IsFiniteSet(V) /\ \E g : Sums(f, g, V)
  BY <1>1, FS_Subset
<1> DEFINE h == [s \in SUBSET U |->
             IF s = {} THEN 0
             ELSE IF s # U THEN SumFunctionOnSet(f, s)
             ELSE f[Some(s)] + (IF s \ {Some(s)} = {} THEN 0
                                ELSE SumFunctionOnSet(f, s \ {Some(s)}))]
<1>3. ASSUME NEW s \in SUBSET U
      PROVE  h[s] = IF s = {} THEN 0 ELSE f[Some(s)] + h[s \ {Some(s)}]
  <2>1. CASE s = {}
    BY <2>1
  <2>2. CASE s = U /\ s # {}
    <3>1. s \ {Some(s)} # U /\ s \ {Some(s)} \in SUBSET U
      BY <2>2, SomeIsIn
    <3> QED
      BY <2>2, <3>1
  <2>3. CASE s # U /\ s # {}
    <3>1. SumFunctionOnSet(f, s) = f[Some(s)] + SumFunctionOnSet(f, s \ {Some(s)})
      BY <1>2, <2>3, SumOfRest
    <3>2. s \ {Some(s)} # U /\ s \ {Some(s)} \in SUBSET U
      BY <2>3, SomeIsIn
    <3> QED
      BY <2>3, <3>1, <3>2, SumEmpty
  <2> QED
    BY <2>1, <2>2, <2>3
<1>4. Sums(f, h, U)
  <2>1. h = [s \in SUBSET U |-> h[s]]
    OBVIOUS
  <2> HIDE DEF h
  <2> QED
    BY <1>3, <2>1 DEF Sums
<1> QED
  BY <1>1, <1>4

LEMMA SumOfOther ==
  ASSUME NEW f, NEW S, IsFiniteSet(S), S # {}
  PROVE  SumFunctionOnSet(f, S)
           = f[Some(S)] + SumFunctionOnSet(f, S \ {Some(S)})
BY SumsExist, SumOfRest

(***************************************************************************)
(* Sums of numbers.                                                        *)
(***************************************************************************)
\* A sum of integers is one, and it is not negative if none of them is.
THEOREM SumType ==
  ASSUME NEW f, NEW S, IsFiniteSet(S), \A x \in S : f[x] \in Int
  PROVE  /\ SumFunctionOnSet(f, S) \in Int
         /\ (\A x \in S : f[x] \in Nat) => SumFunctionOnSet(f, S) \in Nat
<1> DEFINE Good(V) == /\ SumFunctionOnSet(f, V) \in Int
                      /\ (\A x \in S : f[x] \in Nat) => SumFunctionOnSet(f, V) \in Nat
           D == {T \in SUBSET S : ~Good(T)}
<1> SUFFICES ASSUME D # {} PROVE FALSE
  OBVIOUS
<1>1. PICK U \in D : \A V \in D : V \subseteq U => V = U
  <2>1. D \subseteq SUBSET S
    OBVIOUS
  <2> HIDE DEF D
  <2> QED
    BY <2>1, SmallestSubset
<1>2. U # {}
  BY SumEmpty
<1>3. Some(U) \in S /\ U \ {Some(U)} \in SUBSET S /\ U \ {Some(U)} # U
  BY <1>2, SomeIsIn
<1>4. Good(U \ {Some(U)})
  BY <1>1, <1>3
<1>5. SumFunctionOnSet(f, U) = f[Some(U)] + SumFunctionOnSet(f, U \ {Some(U)})
  BY <1>2, SumOfOther, FS_Subset
<1> QED
  BY <1>3, <1>4, <1>5

\* Any element can be taken out of a sum.
THEOREM SumRemove ==
  ASSUME NEW f, NEW S, IsFiniteSet(S), \A x \in S : f[x] \in Int, NEW x \in S
  PROVE  SumFunctionOnSet(f, S) = f[x] + SumFunctionOnSet(f, S \ {x})
<1> DEFINE Out(V, y) == SumFunctionOnSet(f, V) = f[y] + SumFunctionOnSet(f, V \ {y})
           D == {T \in SUBSET S : \E y \in T : ~Out(T, y)}
<1> SUFFICES ASSUME D # {} PROVE FALSE
  OBVIOUS
<1>1. PICK U \in D : \A V \in D : V \subseteq U => V = U
  <2>1. D \subseteq SUBSET S
    OBVIOUS
  <2> HIDE DEF D
  <2> QED
    BY <2>1, SmallestSubset
<1>2. PICK y \in U : ~Out(U, y)
  OBVIOUS
<1> DEFINE c == Some(U)
<1>3. c \in U /\ Out(U, c)
  BY <1>2, SomeIsIn, SumOfOther, FS_Subset
<1>4. y # c
  BY <1>2, <1>3
<1> HIDE DEF c
<1>5. Out(U \ {c}, y) /\ Out(U \ {y}, c)
  <2>1. U \ {c} \in SUBSET S /\ U \ {c} # U /\ U \ {y} \in SUBSET S /\ U \ {y} # U
    BY <1>2, <1>3
  <2>2. U \ {c} \notin D /\ U \ {y} \notin D
    BY <1>1, <2>1
  <2> QED
    BY <1>2, <1>3, <1>4, <2>1, <2>2
<1>6. (U \ {c}) \ {y} = (U \ {y}) \ {c}
  OBVIOUS
<1>7. SumFunctionOnSet(f, (U \ {c}) \ {y}) \in Int /\ f[c] \in Int /\ f[y] \in Int
  <2>1. (U \ {c}) \ {y} \in SUBSET S
    OBVIOUS
  <2> QED
    BY <1>2, <1>3, <2>1, SumType, FS_Subset
<1> QED
  BY <1>2, <1>3, <1>5, <1>6, <1>7

THEOREM SumInsert ==
  ASSUME NEW f, NEW S, IsFiniteSet(S), NEW x, x \notin S,
         \A y \in S \cup {x} : f[y] \in Int
  PROVE  SumFunctionOnSet(f, S \cup {x}) = f[x] + SumFunctionOnSet(f, S)
<1>1. IsFiniteSet(S \cup {x}) /\ (S \cup {x}) \ {x} = S
  BY FS_AddElement
<1> QED
  BY <1>1, SumRemove

\* The sum of one, and of two.
THEOREM SumOfFew ==
  ASSUME NEW f, NEW x, f[x] \in Int
  PROVE  /\ SumFunctionOnSet(f, {x}) = f[x]
         /\ \A y : f[y] \in Int /\ x # y => SumFunctionOnSet(f, {x, y}) = f[x] + f[y]
<1>1. SumFunctionOnSet(f, {x}) = f[x]
  <2>1. IsFiniteSet({}) /\ {} \cup {x} = {x}
    BY FS_EmptySet
  <2>2. SumFunctionOnSet(f, {} \cup {x}) = f[x] + SumFunctionOnSet(f, {})
    BY <2>1, SumInsert
  <2> QED
    BY <2>1, <2>2, SumEmpty
<1>2. ASSUME NEW y, f[y] \in Int, x # y
      PROVE  SumFunctionOnSet(f, {x, y}) = f[x] + f[y]
  <2>1. IsFiniteSet({x}) /\ {x} \cup {y} = {x, y}
    BY FS_Singleton
  <2>2. SumFunctionOnSet(f, {x} \cup {y}) = f[y] + SumFunctionOnSet(f, {x})
    BY <1>2, <2>1, SumInsert
  <2> QED
    BY <1>1, <1>2, <2>1, <2>2
<1> QED
  BY <1>1, <1>2

\* A sum depends on what is summed only.
THEOREM SumEqual ==
  ASSUME NEW f, NEW g, NEW S, IsFiniteSet(S), \A x \in S : f[x] = g[x]
  PROVE  SumFunctionOnSet(f, S) = SumFunctionOnSet(g, S)
<1> DEFINE D == {T \in SUBSET S : SumFunctionOnSet(f, T) # SumFunctionOnSet(g, T)}
<1> SUFFICES ASSUME D # {} PROVE FALSE
  OBVIOUS
<1>1. PICK U \in D : \A V \in D : V \subseteq U => V = U
  <2>1. D \subseteq SUBSET S
    OBVIOUS
  <2> HIDE DEF D
  <2> QED
    BY <2>1, SmallestSubset
<1>2. U # {}
  BY SumEmpty
<1>3. Some(U) \in S /\ U \ {Some(U)} \in SUBSET S /\ U \ {Some(U)} # U
  BY <1>2, SomeIsIn
<1>4. SumFunctionOnSet(f, U \ {Some(U)}) = SumFunctionOnSet(g, U \ {Some(U)})
  BY <1>1, <1>3
<1>5. /\ SumFunctionOnSet(f, U) = f[Some(U)] + SumFunctionOnSet(f, U \ {Some(U)})
      /\ SumFunctionOnSet(g, U) = g[Some(U)] + SumFunctionOnSet(g, U \ {Some(U)})
  BY <1>2, SumOfOther, FS_Subset
<1> QED
  BY <1>3, <1>4, <1>5

\* A part of what is summed comes to no more than the whole.
THEOREM SumOfPart ==
  ASSUME NEW f, NEW S, IsFiniteSet(S), \A x \in S : f[x] \in Nat, NEW T \in SUBSET S
  PROVE  SumFunctionOnSet(f, T) <= SumFunctionOnSet(f, S)
<1> DEFINE P == {V \in SUBSET S : SumFunctionOnSet(f, V) >= SumFunctionOnSet(f, V \cap T)}
<1>1. {} \in P
  <2>1. SumFunctionOnSet(f, {}) = 0
    BY SumEmpty
  <2>2. {} \cap T = {}
    OBVIOUS
  <2> QED
    BY <2>1, <2>2
<1>2. ASSUME NEW V \in SUBSET S, NEW x \in S, V \in P, x \notin V
      PROVE  V \cup {x} \in P
  <2> DEFINE W == V \cup {x}
             total == SumFunctionOnSet(f, V)
             part == SumFunctionOnSet(f, V \cap T)
  <2>1. /\ IsFiniteSet(V) /\ IsFiniteSet(V \cap T)
        /\ \A y \in V \cup {x} : f[y] \in Int
    BY FS_Subset
  <2>2. total \in Int /\ part \in Int /\ total >= part /\ f[x] \in Nat
    BY <1>2, <2>1, SumType
  <2>3. SumFunctionOnSet(f, W) = f[x] + total
    BY <1>2, <2>1, SumInsert
  <2>4. SumFunctionOnSet(f, W \cap T) \in {part, f[x] + part}
    <3>1. CASE x \in T
      <4>1. W \cap T = (V \cap T) \cup {x}
        BY <3>1
      <4>2. SumFunctionOnSet(f, (V \cap T) \cup {x}) = f[x] + part
        BY <1>2, <2>1, SumInsert
      <4> QED
        BY <4>1, <4>2
    <3>2. CASE x \notin T
      <4>1. W \cap T = V \cap T
        BY <3>2
      <4> QED
        BY <4>1
    <3> QED
      BY <3>1, <3>2
  <2>5. W \in SUBSET S
    OBVIOUS
  <2> HIDE DEF W, total, part
  <2> QED
    <3>1. SumFunctionOnSet(f, W) >= SumFunctionOnSet(f, W \cap T)
      BY <2>2, <2>3, <2>4
    <3> QED
      BY <2>5, <3>1 DEF W
<1> HIDE DEF P
<1>3. S \in P
  BY <1>1, <1>2, SetInduction
<1>4. S \cap T = T
  OBVIOUS
<1>5. SumFunctionOnSet(f, S) \in Int /\ SumFunctionOnSet(f, T) \in Int
  BY SumType, FS_Subset
<1> QED
  BY <1>3, <1>4, <1>5 DEF P

\* A sum may leave out what adds nothing.
THEOREM SumWithoutZeros ==
  ASSUME NEW f, NEW S, IsFiniteSet(S), \A x \in S : f[x] \in Int,
         NEW T \in SUBSET S, \A x \in S \ T : f[x] = 0
  PROVE  SumFunctionOnSet(f, S) = SumFunctionOnSet(f, T)
<1> DEFINE P == {V \in SUBSET S : SumFunctionOnSet(f, V) = SumFunctionOnSet(f, V \cap T)}
<1>1. {} \in P
  <2>1. {} \cap T = {}
    OBVIOUS
  <2> QED
    BY <2>1
<1>2. ASSUME NEW V \in SUBSET S, NEW x \in S, V \in P, x \notin V
      PROVE  V \cup {x} \in P
  <2> DEFINE W == V \cup {x}
  <2>1. /\ IsFiniteSet(V) /\ IsFiniteSet(V \cap T) /\ \A y \in W : f[y] \in Int
    BY FS_Subset
  <2>2. SumFunctionOnSet(f, W) = f[x] + SumFunctionOnSet(f, V)
    BY <1>2, <2>1, SumInsert
  <2>3. SumFunctionOnSet(f, V) = SumFunctionOnSet(f, V \cap T) /\ SumFunctionOnSet(f, V) \in Int
    BY <1>2, <2>1, SumType
  <2>4. SumFunctionOnSet(f, W) = SumFunctionOnSet(f, W \cap T)
    <3>1. CASE x \in T
      <4>1. W \cap T = (V \cap T) \cup {x}
        BY <3>1
      <4>2. SumFunctionOnSet(f, (V \cap T) \cup {x}) = f[x] + SumFunctionOnSet(f, V \cap T)
        BY <1>2, <2>1, SumInsert
      <4> QED
        BY <2>2, <2>3, <4>1, <4>2
    <3>2. CASE x \notin T
      <4>1. W \cap T = V \cap T /\ f[x] = 0
        BY <3>2
      <4> HIDE DEF W
      <4>2. SumFunctionOnSet(f, W) = SumFunctionOnSet(f, V)
        BY <2>2, <2>3, <4>1
      <4> QED
        BY <2>3, <4>1, <4>2
    <3> QED
      BY <3>1, <3>2
  <2> QED
    BY <2>4
<1> HIDE DEF P
<1>3. S \in P
  BY <1>1, <1>2, SetInduction
<1>4. S \cap T = T
  OBVIOUS
<1> QED
  BY <1>3, <1>4 DEF P

\* The sum of two sets that have nothing in common.
THEOREM SumDisjoint ==
  ASSUME NEW f, NEW S, IsFiniteSet(S), \A x \in S : f[x] \in Int,
         NEW T \in SUBSET S
  PROVE  SumFunctionOnSet(f, S) = SumFunctionOnSet(f, T) + SumFunctionOnSet(f, S \ T)
<1> DEFINE P == {V \in SUBSET S : SumFunctionOnSet(f, V) =
                    SumFunctionOnSet(f, V \cap T) + SumFunctionOnSet(f, V \ T)}
<1>1. {} \in P
  <2>1. {} \cap T = {} /\ {} \ T = {} /\ SumFunctionOnSet(f, {}) = 0
    BY SumEmpty
  <2> QED
    BY <2>1
<1>2. ASSUME NEW V \in SUBSET S, NEW x \in S, V \in P, x \notin V
      PROVE  V \cup {x} \in P
  <2> DEFINE W == V \cup {x}
             inner == SumFunctionOnSet(f, V \cap T)
             outer == SumFunctionOnSet(f, V \ T)
  <2>1. /\ IsFiniteSet(V) /\ IsFiniteSet(V \cap T) /\ IsFiniteSet(V \ T)
        /\ \A y \in W : f[y] \in Int
    BY FS_Subset
  <2>2. SumFunctionOnSet(f, W) = f[x] + SumFunctionOnSet(f, V)
    BY <1>2, <2>1, SumInsert
  <2>3. inner \in Int /\ outer \in Int /\ SumFunctionOnSet(f, V) = inner + outer
    BY <1>2, <2>1, SumType
  <2>4. SumFunctionOnSet(f, W) = SumFunctionOnSet(f, W \cap T) + SumFunctionOnSet(f, W \ T)
    <3>1. CASE x \in T
      <4>1. W \cap T = (V \cap T) \cup {x} /\ W \ T = V \ T
        BY <3>1
      <4>2. SumFunctionOnSet(f, (V \cap T) \cup {x}) = f[x] + inner
        BY <1>2, <2>1, SumInsert
      <4> HIDE DEF inner
      <4>3. f[x] \in Int /\ SumFunctionOnSet(f, W \ T) = outer
        BY <4>1
      <4>4. SumFunctionOnSet(f, W \cap T) = f[x] + inner
        BY <4>1, <4>2
      <4> HIDE DEF W, outer
      <4> QED
        BY <2>2, <2>3, <4>3, <4>4
    <3>2. CASE x \notin T
      <4>1. W \cap T = V \cap T /\ W \ T = (V \ T) \cup {x}
        BY <3>2
      <4>2. SumFunctionOnSet(f, (V \ T) \cup {x}) = f[x] + outer
        BY <1>2, <2>1, SumInsert
      <4> HIDE DEF outer
      <4>3. f[x] \in Int /\ SumFunctionOnSet(f, W \cap T) = inner
        BY <4>1
      <4>4. SumFunctionOnSet(f, W \ T) = f[x] + outer
        BY <4>1, <4>2
      <4> HIDE DEF W, inner
      <4> QED
        BY <2>2, <2>3, <4>3, <4>4
    <3> QED
      BY <3>1, <3>2
  <2> QED
    BY <2>4
<1> HIDE DEF P
<1>3. S \in P
  BY <1>1, <1>2, SetInduction
<1>4. S \cap T = T
  OBVIOUS
<1> QED
  BY <1>3, <1>4 DEF P

\* The sum of what two functions come to together.
THEOREM SumOfBoth ==
  ASSUME NEW f, NEW g, NEW h, NEW S, IsFiniteSet(S),
         \A x \in S : f[x] \in Int /\ g[x] \in Int /\ h[x] = f[x] + g[x]
  PROVE  SumFunctionOnSet(h, S) = SumFunctionOnSet(f, S) + SumFunctionOnSet(g, S)
<1> DEFINE P == {V \in SUBSET S :
                   SumFunctionOnSet(h, V) = SumFunctionOnSet(f, V) + SumFunctionOnSet(g, V)}
<1>1. {} \in P
  <2>1. SumFunctionOnSet(h, {}) = 0 /\ SumFunctionOnSet(f, {}) = 0 /\ SumFunctionOnSet(g, {}) = 0
    BY SumEmpty
  <2> QED
    BY <2>1
<1>2. ASSUME NEW V \in SUBSET S, NEW x \in S, V \in P, x \notin V
      PROVE  V \cup {x} \in P
  <2> DEFINE W == V \cup {x}
             a == SumFunctionOnSet(f, V)
             b == SumFunctionOnSet(g, V)
  <2>1. /\ IsFiniteSet(V)
        /\ \A y \in W : f[y] \in Int /\ g[y] \in Int /\ h[y] \in Int
    BY FS_Subset
  <2>2. /\ SumFunctionOnSet(f, W) = f[x] + a
        /\ SumFunctionOnSet(g, W) = g[x] + b
        /\ SumFunctionOnSet(h, W) = h[x] + SumFunctionOnSet(h, V)
    BY <1>2, <2>1, SumInsert
  <2>3. a \in Int /\ b \in Int /\ SumFunctionOnSet(h, V) = a + b
    BY <1>2, <2>1, SumType
  <2>4. f[x] \in Int /\ g[x] \in Int /\ h[x] = f[x] + g[x]
    OBVIOUS
  <2>5. SumFunctionOnSet(h, W) = SumFunctionOnSet(f, W) + SumFunctionOnSet(g, W)
    <3> HIDE DEF W, a, b
    <3> QED
      BY <2>2, <2>3, <2>4
  <2> QED
    BY <2>5
<1> HIDE DEF P
<1>3. S \in P
  BY <1>1, <1>2, SetInduction
<1> QED
  BY <1>3 DEF P

\* Finitely many things have finitely many names, as many if no two have one.
LEMMA FiniteImage ==
  ASSUME NEW h, NEW S, IsFiniteSet(S)
  PROVE  /\ IsFiniteSet({h[x] : x \in S})
         /\ (\A x, y \in S : h[x] = h[y] => x = y) =>
              Cardinality({h[x] : x \in S}) = Cardinality(S)
<1> DEFINE T == {h[x] : x \in S}
           M == [x \in S |-> h[x]]
<1>1. M \in Surjection(S, T)
  BY DEF Surjection
<1>2. (\A x, y \in S : h[x] = h[y] => x = y) => M \in Injection(S, T)
  BY DEF Injection, IsInjective
<1> HIDE DEF M, T
<1>3. IsFiniteSet(T) /\ (M \in Injection(S, T) => Cardinality(T) = Cardinality(S))
  BY <1>1, FS_Surjection
<1> QED
  BY <1>2, <1>3 DEF T

\* Things may be counted under other names, no two under one.
THEOREM SumRenamed ==
  ASSUME NEW f, NEW g, NEW h, NEW S, IsFiniteSet(S),
         \A x \in S : f[x] \in Int /\ g[h[x]] = f[x],
         \A x, y \in S : h[x] = h[y] => x = y
  PROVE  SumFunctionOnSet(g, {h[x] : x \in S}) = SumFunctionOnSet(f, S)
<1> DEFINE Names(V) == {h[x] : x \in V}
           P == {V \in SUBSET S : SumFunctionOnSet(g, Names(V)) = SumFunctionOnSet(f, V)}
<1>1. {} \in P
  <2>1. Names({}) = {} /\ SumFunctionOnSet(g, {}) = 0 /\ SumFunctionOnSet(f, {}) = 0
    BY SumEmpty
  <2> QED
    BY <2>1
<1>2. ASSUME NEW V \in SUBSET S, NEW x \in S, V \in P, x \notin V
      PROVE  V \cup {x} \in P
  <2>1. IsFiniteSet(V) /\ \A y \in V \cup {x} : f[y] \in Int
    BY FS_Subset
  <2>2. IsFiniteSet(Names(V))
    BY <2>1, FiniteImage
  <2>3. h[x] \notin Names(V) /\ \A n \in Names(V) \cup {h[x]} : g[n] \in Int
    BY <1>2, <2>1
  <2>4. SumFunctionOnSet(f, V \cup {x}) = f[x] + SumFunctionOnSet(f, V)
    BY <1>2, <2>1, SumInsert
  <2>5. SumFunctionOnSet(g, Names(V) \cup {h[x]}) = g[h[x]] + SumFunctionOnSet(g, Names(V))
    <3> HIDE DEF Names
    <3> QED
      BY <2>2, <2>3, SumInsert
  <2>6. Names(V \cup {x}) = Names(V) \cup {h[x]}
    OBVIOUS
  <2> QED
    BY <1>2, <2>4, <2>5, <2>6
<1> HIDE DEF P
<1>3. S \in P
  BY <1>1, <1>2, SetInduction
<1> QED
  BY <1>3 DEF P
=============================================================================
