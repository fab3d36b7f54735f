------------------------------ MODULE Counting ------------------------------
(***************************************************************************)
(* How many elements of a finite set a function places in a given range,   *)
(* and what its values add up to; how either moves when one element does.  *)
(* Every count of tokens in a channel of the program comes down to the     *)
(* first, the totals over the files of a call to the second.               *)
(***************************************************************************)
EXTENDS Integers, FiniteSets, Functions, FiniteSetTheorems, WellFoundedInduction, TLAPS

(* The elements of S that f places in P. *)
Where(S, f, P) == {c \in S : f[c] \in P}

(* When f and g agree on S except at c, the count follows c: it stays, goes *)
(* up by one or down by one as c stays, enters or leaves P. A channel's     *)
(* token count equals the number of its holders because each step of the    *)
(* code moves one of them.                                                  *)
LEMMA CountMoves ==
  ASSUME NEW S, IsFiniteSet(S), NEW f, NEW g, NEW P, NEW c \in S,
         \A d \in S : d # c => g[d] = f[d]
  PROVE  /\ Cardinality(Where(S, f, P)) \in Nat
         /\ (f[c] \in P <=> g[c] \in P) => Cardinality(Where(S, g, P)) = Cardinality(Where(S, f, P))
         /\ f[c] \notin P /\ g[c] \in P => Cardinality(Where(S, g, P)) = Cardinality(Where(S, f, P)) + 1
         /\ f[c] \in P /\ g[c] \notin P => /\ Cardinality(Where(S, g, P)) = Cardinality(Where(S, f, P)) - 1
                                           /\ Cardinality(Where(S, f, P)) > 0
<1>1. IsFiniteSet(Where(S, f, P)) /\ Cardinality(Where(S, f, P)) \in Nat
  BY FS_Subset, FS_CardinalityType DEF Where
<1>2. ASSUME f[c] \in P <=> g[c] \in P
      PROVE  Cardinality(Where(S, g, P)) = Cardinality(Where(S, f, P))
  <2>1. Where(S, g, P) = Where(S, f, P)
    BY <1>2 DEF Where
  <2> QED BY <2>1
<1>3. ASSUME f[c] \notin P, g[c] \in P
      PROVE  Cardinality(Where(S, g, P)) = Cardinality(Where(S, f, P)) + 1
  <2>1. Where(S, g, P) = Where(S, f, P) \cup {c} /\ c \notin Where(S, f, P)
    BY <1>3 DEF Where
  <2> QED BY <1>1, <2>1, FS_AddElement
<1>4. ASSUME f[c] \in P, g[c] \notin P
      PROVE  /\ Cardinality(Where(S, g, P)) = Cardinality(Where(S, f, P)) - 1
             /\ Cardinality(Where(S, f, P)) > 0
  <2>1. Where(S, g, P) = Where(S, f, P) \ {c} /\ c \in Where(S, f, P)
    BY <1>4 DEF Where
  <2>2. Cardinality(Where(S, f, P)) # 0
    BY <1>1, <2>1, FS_EmptySet
  <2>3. Cardinality(Where(S, g, P)) = Cardinality(Where(S, f, P)) - 1
    BY <1>1, <2>1, FS_RemoveElement
  <2> QED BY <1>1, <2>2, <2>3
<1> QED BY <1>1, <1>2, <1>3, <1>4

-----------------------------------------------------------------------------
(* Induction over the natural numbers: the numbers outside N have no least  *)
(* one, so there are none. Counters of the code start at 0 and go up by one. *)
LEMMA NatSetInduction ==
  ASSUME NEW N, 0 \in N, \A n \in Nat : n \in N => n + 1 \in N
  PROVE  Nat \subseteq N
<1> SUFFICES ASSUME Nat \ N # {} PROVE FALSE
  OBVIOUS
<1> DEFINE R == {ss \in Nat \X Nat : ss[1] < ss[2]}
<1>1. IsWellFoundedOn(R, Nat)
  BY NatLessThanWellFounded DEF OpToRel
<1>2. PICK m \in Nat \ N : \A y \in Nat \ N : ~(<<y, m>> \in R)
  <2> HIDE DEF R
  <2> QED BY <1>1, WFMin
<1>3. m # 0 /\ m - 1 \in Nat /\ m - 1 < m /\ (m - 1) + 1 = m
  BY <1>2
<1>4. <<m - 1, m>> \in R
  BY <1>2, <1>3
<1>5. m - 1 \in N
  BY <1>2, <1>3, <1>4
<1> QED BY <1>2, <1>3, <1>5

(* Induction over the subsets of a finite set, for a set C of subsets: what *)
(* the sums below are computed along.                                       *)
LEMMA SubsetInduction ==
  ASSUME NEW S, IsFiniteSet(S), NEW C,
         \A T \in SUBSET S : (\A U \in SUBSET T : U # T => U \in C) => T \in C
  PROVE  SUBSET S \subseteq C
<1> SUFFICES ASSUME (SUBSET S) \ C # {} PROVE FALSE
  OBVIOUS
<1>1. IsWellFoundedOn(StrictSubsetOrdering(S), SUBSET S)
  <2>1. FiniteSubsetsOf(S) = SUBSET S
    BY FS_FiniteSubsetsOfFinite
  <2>2. IsWellFoundedOn(StrictSubsetOrdering(S), FiniteSubsetsOf(S))
    BY FS_StrictSubsetOrderingWellFounded
  <2> QED BY <2>1, <2>2
<1>2. PICK T \in (SUBSET S) \ C : \A U \in (SUBSET S) \ C : ~(<<U, T>> \in StrictSubsetOrdering(S))
  <2> DEFINE D == (SUBSET S) \ C
  <2>1. D \subseteq SUBSET S /\ D # {}
    OBVIOUS
  <2> HIDE DEF D
  <2>2. \E x \in D : \A y \in D : ~(<<y, x>> \in StrictSubsetOrdering(S))
    BY <1>1, <2>1, WFMin
  <2> QED BY <2>2 DEF D
<1>3. \A U \in SUBSET T : U # T => U \in C
  BY <1>2 DEF StrictSubsetOrdering
<1> QED BY <1>2, <1>3

Chosen(s) == CHOOSE x \in s : TRUE
Rest(s) == s \ {Chosen(s)}

(* g is the partial sums of f, element by element, on the sets in D. *)
Accumulates(g, f, D) == g = [s \in D |-> IF s = {} THEN 0 ELSE f[Chosen(s)] + g[Rest(s)]]

(* What the library's sum over a function is. *)
PartialSums(f, S) == CHOOSE g : Accumulates(g, f, SUBSET S)

(* The library sums a function up along CHOOSE, which PartialSums writes     *)
(* out: the worker's counts by format and its hashed bytes are such sums.   *)
LEMMA SumIs == ASSUME NEW f, NEW S PROVE SumFunctionOnSet(f, S) = PartialSums(f, S)[S]
BY DEF PartialSums, Accumulates, Chosen, Rest, SumFunctionOnSet, FoldFunctionOnSet, MapThenFoldSet

(* The recursion that defines a sum does define it: there is a function of   *)
(* partial sums on the subsets of at most n elements, for every n.          *)
LEMMA SumsAccumulate ==
  ASSUME NEW f, NEW S, IsFiniteSet(S)
  PROVE  Accumulates(PartialSums(f, S), f, SUBSET S)
<1> DEFINE Small(n) == {s \in SUBSET S : Cardinality(s) <= n}
           N == {n \in Nat : \E g : Accumulates(g, f, Small(n))}
<1>0. \A s \in SUBSET S : IsFiniteSet(s) /\ Cardinality(s) \in Nat /\ (Cardinality(s) = 0 <=> s = {})
  BY FS_Subset, FS_CardinalityType, FS_EmptySet
<1>r. \A s \in SUBSET S : s # {} =>
        Chosen(s) \in s /\ Rest(s) \in SUBSET S /\ Cardinality(Rest(s)) = Cardinality(s) - 1
  BY <1>0, FS_RemoveElement DEF Chosen, Rest
<1>1. 0 \in N
  <2>1. Small(0) = {{}}
    BY <1>0
  <2>2. Accumulates([s \in Small(0) |-> 0], f, Small(0))
    BY <2>1 DEF Accumulates
  <2> QED BY <2>2
<1>2. ASSUME NEW n \in Nat, n \in N PROVE n + 1 \in N
  <2>1. PICK g : Accumulates(g, f, Small(n))
    BY <1>2
  <2> DEFINE h == [s \in Small(n + 1) |-> IF s = {} THEN 0 ELSE f[Chosen(s)] + g[Rest(s)]]
  <2>2. \A s \in Small(n) : s \in Small(n + 1) /\ h[s] = g[s]
    BY <1>0, <2>1 DEF Accumulates
  <2>3. \A s \in Small(n + 1) : s # {} => Rest(s) \in Small(n)
    BY <1>0, <1>r
  <2>4. h = [s \in Small(n + 1) |-> IF s = {} THEN 0 ELSE f[Chosen(s)] + h[Rest(s)]]
    BY <2>2, <2>3
  <2>5. Accumulates(h, f, Small(n + 1))
    BY <2>4 DEF Accumulates
  <2> QED BY <2>5
<1>3. Cardinality(S) \in N
  <2> HIDE DEF N
  <2> QED BY <1>0, <1>1, <1>2, NatSetInduction
<1>4. Small(Cardinality(S)) = SUBSET S
  BY <1>0, FS_Subset
<1> QED BY <1>3, <1>4 DEF PartialSums

(* A sum of integers is the same whichever element is taken off first: the   *)
(* worker sums files in the order it reads them.                            *)
LEMMA SumsInAnyOrder ==
  ASSUME NEW f, NEW S, IsFiniteSet(S), \A x \in S : f[x] \in Int
  PROVE  \A s \in SUBSET S :
           /\ PartialSums(f, S)[s] \in Int
           /\ \A x \in s : PartialSums(f, S)[s] = f[x] + PartialSums(f, S)[s \ {x}]
<1> DEFINE g == PartialSums(f, S)
           C == {s \in SUBSET S : g[s] \in Int /\ \A x \in s : g[s] = f[x] + g[s \ {x}]}
<1>1. Accumulates(g, f, SUBSET S)
  BY SumsAccumulate
<1> HIDE DEF g
<1>2. ASSUME NEW T \in SUBSET S, \A U \in SUBSET T : U # T => U \in C
      PROVE  T \in C
  <2>1. CASE T = {}
    BY <1>1, <2>1 DEF Accumulates
  <2>2. CASE T # {}
    <3> DEFINE c == Chosen(T)
    <3>1. c \in T /\ Rest(T) = T \ {c}
      BY <2>2 DEF Chosen, Rest
    <3>2. g[T] = f[c] + g[T \ {c}]
      BY <1>1, <2>2, <3>1 DEF Accumulates
    <3> HIDE DEF c
    <3>3. T \ {c} \in C
      BY <1>2, <3>1
    <3>4. g[T] \in Int
      BY <3>1, <3>2, <3>3
    <3>5. ASSUME NEW x \in T, x # c PROVE g[T] = f[x] + g[T \ {x}]
      <4> DEFINE Both == (T \ {c}) \ {x}
      <4>1. Both = (T \ {x}) \ {c}
        OBVIOUS
      <4>2. T \ {x} \in C /\ Both \in C
        BY <1>2, <3>1, <3>5
      <4>3. g[T \ {c}] = f[x] + g[Both]
        BY <3>3, <3>5
      <4>4. g[T \ {x}] = f[c] + g[Both]
        BY <3>1, <3>5, <4>1, <4>2
      <4>5. f[x] \in Int /\ f[c] \in Int /\ g[Both] \in Int
        BY <3>1, <4>2
      <4> HIDE DEF Both
      <4> QED BY <3>2, <4>3, <4>4, <4>5
    <3> QED BY <3>2, <3>4, <3>5
  <2> QED BY <2>1, <2>2
<1>3. SUBSET S \subseteq C
  <2> HIDE DEF C
  <2> QED BY <1>2, SubsetInduction
<1> QED BY <1>3 DEF g

(* A sum only depends on the values at the elements it is over.             *)
LEMMA SumsAgree ==
  ASSUME NEW f, NEW g, NEW S, IsFiniteSet(S), NEW T \in SUBSET S, \A x \in T : g[x] = f[x]
  PROVE  PartialSums(f, S)[T] = PartialSums(g, T)[T]
<1> DEFINE P == PartialSums(f, S)
           Q == PartialSums(g, T)
           C == {s \in SUBSET T : P[s] = Q[s]}
<1>1. IsFiniteSet(T)
  BY FS_Subset
<1>2. Accumulates(P, f, SUBSET S) /\ Accumulates(Q, g, SUBSET T)
  BY <1>1, SumsAccumulate
<1> HIDE DEF P, Q
<1>3. ASSUME NEW U \in SUBSET T, \A V \in SUBSET U : V # U => V \in C
      PROVE  U \in C
  <2>1. CASE U = {}
    BY <1>2, <2>1 DEF Accumulates
  <2>2. CASE U # {}
    <3>1. Chosen(U) \in U /\ Rest(U) \in SUBSET U /\ Rest(U) # U
      BY <2>2 DEF Chosen, Rest
    <3>2. P[Rest(U)] = Q[Rest(U)] /\ f[Chosen(U)] = g[Chosen(U)]
      BY <1>3, <3>1
    <3>3. P[U] = f[Chosen(U)] + P[Rest(U)] /\ Q[U] = g[Chosen(U)] + Q[Rest(U)]
      BY <1>2, <2>2 DEF Accumulates
    <3> QED BY <3>2, <3>3
  <2> QED BY <2>1, <2>2
<1>4. SUBSET T \subseteq C
  <2> HIDE DEF C
  <2> QED BY <1>1, <1>3, SubsetInduction
<1> QED BY <1>4 DEF P, Q

(* A sum of integers is an integer, and 0 over nothing: no count is above 0  *)
(* before the first file.                                                   *)
LEMMA SumType ==
  ASSUME NEW f, NEW S, IsFiniteSet(S), \A x \in S : f[x] \in Int
  PROVE  SumFunctionOnSet(f, S) \in Int /\ (S = {} => SumFunctionOnSet(f, S) = 0)
<1>1. SumFunctionOnSet(f, S) \in Int
  BY SumIs, SumsInAnyOrder
<1>2. ASSUME S = {} PROVE SumFunctionOnSet(f, S) = 0
  <2>1. Accumulates(PartialSums(f, S), f, SUBSET S)
    BY SumsAccumulate
  <2>2. PartialSums(f, S)[{}] = 0
    BY <2>1 DEF Accumulates
  <2> QED BY <1>2, <2>2, SumIs
<1> QED BY <1>1, <1>2

(* Functions that agree on the elements have the same sum: an item that is   *)
(* only reworded leaves the hashed bytes alone.                             *)
LEMMA SumSame ==
  ASSUME NEW f, NEW g, NEW S, IsFiniteSet(S), \A x \in S : g[x] = f[x]
  PROVE  SumFunctionOnSet(g, S) = SumFunctionOnSet(f, S)
BY SumIs, SumsAgree

(* A sum over one element more is more by its value: an item that is added   *)
(* to a batch adds the bytes it hashed.                                     *)
LEMMA SumWithout ==
  ASSUME NEW f, NEW S, IsFiniteSet(S), NEW c \in S, \A x \in S : f[x] \in Int
  PROVE  SumFunctionOnSet(f, S) = f[c] + SumFunctionOnSet(f, S \ {c})
<1>1. PartialSums(f, S)[S] = f[c] + PartialSums(f, S)[S \ {c}]
  BY SumsInAnyOrder
<1>2. PartialSums(f, S)[S \ {c}] = PartialSums(f, S \ {c})[S \ {c}]
  BY SumsAgree
<1> QED BY <1>1, <1>2, SumIs

(* A sum follows the one value that changes: the counts by format go up by   *)
(* one with each file that is scanned.                                      *)
LEMMA SumMoves ==
  ASSUME NEW f, NEW g, NEW S, IsFiniteSet(S), NEW c \in S,
         \A x \in S : f[x] \in Int /\ g[x] \in Int,
         \A x \in S : x # c => g[x] = f[x]
  PROVE  SumFunctionOnSet(g, S) = SumFunctionOnSet(f, S) + g[c] - f[c]
<1>1. IsFiniteSet(S \ {c})
  BY FS_RemoveElement
<1>2. SumFunctionOnSet(g, S \ {c}) = SumFunctionOnSet(f, S \ {c})
  BY <1>1, SumSame
<1>3. SumFunctionOnSet(f, S \ {c}) \in Int
  BY <1>1, SumType
<1> QED BY <1>2, <1>3, SumWithout

(* Zeros sum up to 0: a new result has counted nothing.                     *)
LEMMA SumOfZeros ==
  ASSUME NEW f, NEW S, IsFiniteSet(S), \A x \in S : f[x] = 0
  PROVE  SumFunctionOnSet(f, S) = 0
<1> DEFINE P == PartialSums(f, S)
           C == {s \in SUBSET S : P[s] = 0}
<1>1. Accumulates(P, f, SUBSET S)
  BY SumsAccumulate
<1> HIDE DEF P
<1>2. ASSUME NEW U \in SUBSET S, \A V \in SUBSET U : V # U => V \in C
      PROVE  U \in C
  <2>1. CASE U = {}
    BY <1>1, <2>1 DEF Accumulates
  <2>2. CASE U # {}
    <3>1. Chosen(U) \in U /\ Rest(U) \in SUBSET U /\ Rest(U) # U
      BY <2>2 DEF Chosen, Rest
    <3>2. P[Rest(U)] = 0 /\ f[Chosen(U)] = 0
      BY <1>2, <3>1
    <3> QED BY <1>1, <2>2, <3>2 DEF Accumulates
  <2> QED BY <2>1, <2>2
<1>3. SUBSET S \subseteq C
  <2> HIDE DEF C
  <2> QED BY <1>2, SubsetInduction
<1> QED BY <1>3, SumIs DEF P

(* Over fewer elements a sum of natural numbers is not greater, and it is    *)
(* never below 0: a batch that drops items charges no more than it did.     *)
LEMMA SumOfSubset ==
  ASSUME NEW f, NEW S, IsFiniteSet(S), \A x \in S : f[x] \in Nat, NEW T \in SUBSET S
  PROVE  0 <= SumFunctionOnSet(f, T) /\ SumFunctionOnSet(f, T) <= SumFunctionOnSet(f, S)
<1> DEFINE C(V) == {U \in SUBSET S : SumFunctionOnSet(f, V \cap U) <= SumFunctionOnSet(f, U)}
<1>1. \A U \in SUBSET S : IsFiniteSet(U) /\ SumFunctionOnSet(f, U) \in Int
  <2> SUFFICES ASSUME NEW U \in SUBSET S
               PROVE  IsFiniteSet(U) /\ SumFunctionOnSet(f, U) \in Int
    OBVIOUS
  <2>1. IsFiniteSet(U)
    BY FS_Subset
  <2> QED BY <2>1, SumType
<1>2. ASSUME NEW V \in SUBSET S, NEW U \in SUBSET S, \A W \in SUBSET U : W # U => W \in C(V)
      PROVE  U \in C(V)
  <2>1. CASE U = {}
    <3>1. V \cap U = U
      BY <2>1
    <3> QED BY <1>1, <3>1
  <2>2. ASSUME NEW x \in U
        PROVE  U \in C(V)
    <3>1. SumFunctionOnSet(f, V \cap (U \ {x})) <= SumFunctionOnSet(f, U \ {x})
      BY <1>2
    <3>2. SumFunctionOnSet(f, U) = f[x] + SumFunctionOnSet(f, U \ {x})
      BY <1>1, SumWithout
    <3>3. /\ f[x] \in Nat /\ SumFunctionOnSet(f, U \ {x}) \in Int
          /\ SumFunctionOnSet(f, V \cap (U \ {x})) \in Int
      BY <1>1
    <3>4. CASE x \in V
      <4>1. V \cap (U \ {x}) = (V \cap U) \ {x}
        OBVIOUS
      <4>2. SumFunctionOnSet(f, V \cap U) = f[x] + SumFunctionOnSet(f, (V \cap U) \ {x})
        BY <1>1, <3>4, SumWithout
      <4>3. SumFunctionOnSet(f, V \cap U) <= SumFunctionOnSet(f, U)
        <5> HIDE DEF C
        <5> QED BY <3>1, <3>2, <3>3, <4>1, <4>2
      <4> QED BY <4>3
    <3>5. CASE x \notin V
      <4>1. V \cap (U \ {x}) = V \cap U
        BY <3>5
      <4>2. SumFunctionOnSet(f, V \cap U) = SumFunctionOnSet(f, V \cap (U \ {x}))
        BY <4>1, Zenon
      <4>3. SumFunctionOnSet(f, V \cap U) <= SumFunctionOnSet(f, U)
        <5> HIDE DEF C
        <5> QED BY <3>1, <3>2, <3>3, <4>2
      <4> QED BY <4>3
    <3> QED BY <3>4, <3>5
  <2> QED BY <2>1, <2>2
<1>3. \A V \in SUBSET S : SUBSET S \subseteq C(V)
  <2> SUFFICES ASSUME NEW V \in SUBSET S PROVE SUBSET S \subseteq C(V)
    OBVIOUS
  <2> DEFINE D == C(V)
  <2>1. \A U \in SUBSET S : (\A W \in SUBSET U : W # U => W \in D) => U \in D
    BY <1>2
  <2> HIDE DEF D
  <2>2. SUBSET S \subseteq D
    BY <2>1, SubsetInduction
  <2> QED BY <2>2 DEF D
<1>4. SumFunctionOnSet(f, T) <= SumFunctionOnSet(f, S)
  <2>1. T \cap S = T
    OBVIOUS
  <2> QED BY <1>3, <2>1
<1>5. 0 <= SumFunctionOnSet(f, T)
  <2>1. {} \cap T = {} /\ SumFunctionOnSet(f, {}) = 0
    BY FS_EmptySet, SumType
  <2> QED BY <1>3, <2>1
<1> QED BY <1>4, <1>5
=============================================================================
