---------------------------- MODULE ContentProofs ---------------------------
(***************************************************************************)
(* Proofs about the facts read off the bytes of one file, for any header    *)
(* and window, any text, pointer and image: what is said of it holds of the *)
(* whole of it.                                                            *)
(***************************************************************************)
EXTENDS ContentFacts, Counting, SequenceTheorems

(* The sequences of a bound are sequences. *)
LEMMA BoundedSeqs ==
  ASSUME NEW S, NEW n \in Nat, NEW s
  PROVE  s \in BoundedSeq(S, n) <=> s \in Seq(S) /\ Len(s) <= n
<1>1. ASSUME s \in BoundedSeq(S, n) PROVE s \in Seq(S) /\ Len(s) <= n
  <2>1. PICK m \in 0..n : s \in [1..m -> S]
    BY <1>1 DEF BoundedSeq, SeqOf
  <2> QED BY <2>1, SeqDef
<1>2. ASSUME s \in Seq(S), Len(s) <= n PROVE s \in BoundedSeq(S, n)
  <2>1. Len(s) \in 0..n /\ s \in [1..Len(s) -> S]
    BY <1>2, LenProperties
  <2> QED BY <2>1 DEF BoundedSeq, SeqOf
<1> QED BY <1>1, <1>2

(* A flattened sequence, block by block: F[k] is what the first k blocks    *)
(* make.                                                                    *)
Flattens(F, seqs, n) ==
  F = [i \in 1..n |-> IF i = 1 THEN seqs[i] ELSE F[i - 1] \o seqs[i]]

(* Flattening is defined for any number of blocks. *)
LEMMA FlattensUpTo ==
  ASSUME NEW seqs, NEW n \in Nat
  PROVE  \E F : Flattens(F, seqs, n)
<1> DEFINE N == {m \in Nat : \E F : Flattens(F, seqs, m)}
<1>1. 0 \in N
  <2>1. Flattens([i \in 1..0 |-> seqs[i]], seqs, 0)
    BY DEF Flattens
  <2> QED BY <2>1
<1>2. ASSUME NEW m \in N PROVE m + 1 \in N
  <2>1. PICK F : Flattens(F, seqs, m)
    OBVIOUS
  <2> DEFINE G == [i \in 1..(m + 1) |-> IF i <= m THEN F[i] ELSE IF i = 1 THEN seqs[i] ELSE F[i - 1] \o seqs[i]]
  <2>2. \A i \in 1..m : G[i] = F[i] /\ F[i] = IF i = 1 THEN seqs[i] ELSE F[i - 1] \o seqs[i]
    <3>1. F = [i \in 1..m |-> IF i = 1 THEN seqs[i] ELSE F[i - 1] \o seqs[i]]
      BY <2>1 DEF Flattens
    <3>2. \A i \in 1..m : F[i] = IF i = 1 THEN seqs[i] ELSE F[i - 1] \o seqs[i]
      BY <3>1
    <3> QED BY <3>2
  <2>3. \A i \in 1..(m + 1) : G[i] = IF i = 1 THEN seqs[i] ELSE G[i - 1] \o seqs[i]
    <3> SUFFICES ASSUME NEW i \in 1..(m + 1) PROVE G[i] = IF i = 1 THEN seqs[i] ELSE G[i - 1] \o seqs[i]
      OBVIOUS
    <3>1. i # 1 => i - 1 \in 1..m
      OBVIOUS
    <3>2. CASE i <= m
      <4>1. i \in 1..m /\ (i # 1 => i - 1 \in 1..m)
        BY <3>2
      <4>2. G[i] = IF i = 1 THEN seqs[i] ELSE F[i - 1] \o seqs[i]
        BY <2>2, <4>1
      <4>3. i # 1 => G[i - 1] = F[i - 1]
        BY <2>2, <4>1
      <4> HIDE DEF G
      <4> QED BY <4>2, <4>3
    <3>3. CASE i = m + 1
      <4>1. G[i] = IF i = 1 THEN seqs[i] ELSE F[i - 1] \o seqs[i]
        BY <3>3
      <4>2. i # 1 => G[i - 1] = F[i - 1]
        BY <2>2, <3>1
      <4> HIDE DEF G
      <4> QED BY <4>1, <4>2
    <3> QED BY <3>2, <3>3
  <2>4. G = [i \in 1..(m + 1) |-> IF i = 1 THEN seqs[i] ELSE G[i - 1] \o seqs[i]]
    <3> HIDE DEF G
    <3>1. DOMAIN G = 1..(m + 1) /\ G = [i \in 1..(m + 1) |-> G[i]]
      BY DEF G
    <3> QED BY <2>3, <3>1
  <2>5. Flattens(G, seqs, m + 1)
    BY <2>4 DEF Flattens
  <2> QED BY <2>5
<1> HIDE DEF N
<1>3. Nat \subseteq N
  BY <1>1, <1>2, NatSetInduction
<1> QED BY <1>3 DEF N

Blocks(seqs) == CHOOSE F : Flattens(F, seqs, Len(seqs))
Laid(seqs, k) == IF k = 0 THEN <<>> ELSE Blocks(seqs)[k]

(* What the first k blocks make: one more block is appended to it.          *)
LEMMA LaidOut ==
  ASSUME NEW S, NEW seqs \in Seq(Seq(S))
  PROVE  /\ Len(seqs) \in Nat
         /\ FlattenSeq(seqs) = Laid(seqs, Len(seqs))
         /\ Laid(seqs, 0) = <<>>
         /\ \A k \in 0..Len(seqs) : Laid(seqs, k) \in Seq(S)
         /\ \A k \in 1..Len(seqs) : Laid(seqs, k) = Laid(seqs, k - 1) \o seqs[k]
         /\ \A k \in Nat : k + 1 <= Len(seqs) => Laid(seqs, k + 1) = Laid(seqs, k) \o seqs[k + 1]
<1> DEFINE n == Len(seqs)
           F == Blocks(seqs)
<1>1. n \in Nat
  BY LenProperties
<1>2. F = [i \in 1..n |-> IF i = 1 THEN seqs[i] ELSE F[i - 1] \o seqs[i]]
  <2>1. Flattens(F, seqs, n)
    BY <1>1, FlattensUpTo DEF Blocks
  <2> QED BY <2>1 DEF Flattens
<1>3. FlattenSeq(seqs) = Laid(seqs, n)
  <2>1. CASE n = 0
    <3>1. seqs = <<>>
      BY <2>1, EmptySeq
    <3> QED BY <2>1, <3>1 DEF FlattenSeq, Laid
  <2>2. CASE n # 0
    <3>1. FlattenSeq(seqs) = Blocks(seqs)[n]
      BY <2>2 DEF FlattenSeq, Blocks, Flattens
    <3> QED BY <2>2, <3>1 DEF Laid
  <2> QED BY <2>1, <2>2
<1> HIDE DEF F
<1>4. \A k \in 1..n : seqs[k] \in Seq(S)
  BY ElementOfSeq
<1>5. \A k \in 1..n : Laid(seqs, k) = IF k = 1 THEN seqs[k] ELSE Laid(seqs, k - 1) \o seqs[k]
  <2> SUFFICES ASSUME NEW k \in 1..n
               PROVE  Laid(seqs, k) = IF k = 1 THEN seqs[k] ELSE Laid(seqs, k - 1) \o seqs[k]
    OBVIOUS
  <2>1. F[k] = IF k = 1 THEN seqs[k] ELSE F[k - 1] \o seqs[k]
    BY <1>2
  <2> QED BY <1>1, <2>1 DEF Laid, F
<1>6. \A k \in 1..n : Laid(seqs, k) = Laid(seqs, k - 1) \o seqs[k]
  <2> SUFFICES ASSUME NEW k \in 1..n PROVE Laid(seqs, k) = Laid(seqs, k - 1) \o seqs[k]
    OBVIOUS
  <2>1. CASE k = 1
    <3>1. Laid(seqs, k - 1) = <<>>
      BY <2>1 DEF Laid
    <3>2. <<>> \o seqs[k] = seqs[k]
      BY <1>4, ConcatEmptySeq
    <3> QED BY <1>5, <2>1, <3>1, <3>2
  <2>2. CASE k # 1
    BY <1>5, <2>2
  <2> QED BY <2>1, <2>2
<1>a. ASSUME NEW k \in Nat, k + 1 <= n
      PROVE  Laid(seqs, k + 1) = Laid(seqs, k) \o seqs[k + 1]
  <2> DEFINE j == k + 1
  <2>1. j \in 1..n /\ j - 1 = k
    BY <1>1, <1>a
  <2> HIDE DEF j
  <2>2. Laid(seqs, j) = Laid(seqs, k) \o seqs[j]
    BY <1>6, <2>1
  <2> QED BY <2>2 DEF j
<1> DEFINE N == {k \in Nat : k <= n => Laid(seqs, k) \in Seq(S)}
<1>7. 0 \in N
  BY EmptySeq DEF Laid
<1>8. ASSUME NEW k \in Nat, k \in N PROVE k + 1 \in N
  <2> SUFFICES ASSUME k + 1 <= n PROVE Laid(seqs, k + 1) \in Seq(S)
    OBVIOUS
  <2>1. Laid(seqs, k) \in Seq(S) /\ k + 1 \in 1..n
    BY <1>1, <1>8
  <2>2. Laid(seqs, k + 1) = Laid(seqs, k) \o seqs[k + 1]
    BY <1>a
  <2> QED BY <1>4, <2>1, <2>2, ConcatProperties
<1> HIDE DEF N
<1>9. Nat \subseteq N
  BY <1>7, <1>8, NatSetInduction
<1>10. \A k \in 0..n : Laid(seqs, k) \in Seq(S)
  BY <1>1, <1>9 DEF N
<1> QED BY <1>1, <1>3, <1>6, <1>a, <1>10 DEF Laid

(* What is laid out stays where it is.                                      *)
LEMMA LaidStays ==
  ASSUME NEW S, NEW seqs \in Seq(Seq(S)), NEW k \in 0..Len(seqs)
  PROVE  \A m \in k..Len(seqs) :
           /\ Len(Laid(seqs, k)) <= Len(Laid(seqs, m))
           /\ \A i \in 1..Len(Laid(seqs, k)) : Laid(seqs, m)[i] = Laid(seqs, k)[i]
<1> DEFINE n == Len(seqs)
           N == {m \in Nat : k <= m /\ m <= n =>
                   /\ Len(Laid(seqs, k)) <= Len(Laid(seqs, m))
                   /\ \A i \in 1..Len(Laid(seqs, k)) : Laid(seqs, m)[i] = Laid(seqs, k)[i]}
<1>1. n \in Nat /\ \A m \in 0..n : Laid(seqs, m) \in Seq(S) /\ Len(Laid(seqs, m)) \in Nat
  BY LaidOut, LenProperties
<1>2. 0 \in N
  BY <1>1
<1>3. ASSUME NEW m \in Nat, m \in N PROVE m + 1 \in N
  <2>1. CASE ~(k <= m) \/ m + 1 > n
    BY <1>1, <2>1
  <2>2. CASE k <= m /\ m + 1 <= n
    <3>1. /\ Len(Laid(seqs, k)) <= Len(Laid(seqs, m))
          /\ \A i \in 1..Len(Laid(seqs, k)) : Laid(seqs, m)[i] = Laid(seqs, k)[i]
      BY <1>1, <1>3, <2>2
    <3>2. m + 1 \in 1..n /\ m \in 0..n /\ m + 1 - 1 = m
      BY <1>1, <2>2
    <3>3. Laid(seqs, m + 1) = Laid(seqs, m) \o seqs[m + 1]
      BY <2>2, LaidOut
    <3>4. seqs[m + 1] \in Seq(S) /\ Laid(seqs, m) \in Seq(S) /\ Len(seqs[m + 1]) \in Nat
      BY <1>1, <3>2, ElementOfSeq, LenProperties
    <3>5. /\ Len(Laid(seqs, m + 1)) = Len(Laid(seqs, m)) + Len(seqs[m + 1])
          /\ \A i \in 1..Len(Laid(seqs, m)) : Laid(seqs, m + 1)[i] = Laid(seqs, m)[i]
      BY <1>1, <3>2, <3>3, <3>4, ConcatProperties
    <3> QED BY <1>1, <3>1, <3>2, <3>4, <3>5
  <2> QED BY <2>1, <2>2
<1> HIDE DEF N
<1>4. Nat \subseteq N
  BY <1>2, <1>3, NatSetInduction
<1> QED BY <1>1, <1>4 DEF N

(* Where a block is in the whole.                                           *)
Begins(seqs, k) == Len(Laid(seqs, k - 1))

(* The first block begins at the start, and the last one ends with the      *)
(* whole.                                                                   *)
LEMMA BlockBegins ==
  ASSUME NEW S, NEW seqs \in Seq(Seq(S))
  PROVE  /\ FlattenSeq(seqs) \in Seq(S)
         /\ Begins(seqs, 1) = 0 /\ Begins(seqs, Len(seqs) + 1) = Len(FlattenSeq(seqs))
         /\ \A k \in 1..(Len(seqs) + 1) : Begins(seqs, k) \in Nat /\ Begins(seqs, k) <= Len(FlattenSeq(seqs))
<1>1. /\ Len(seqs) \in Nat
      /\ FlattenSeq(seqs) = Laid(seqs, Len(seqs))
      /\ Laid(seqs, 0) = <<>>
      /\ \A k \in 0..Len(seqs) : Laid(seqs, k) \in Seq(S)
  BY LaidOut
<1>2. Len(<<>>) = 0
  BY EmptySeq
<1>3. ASSUME NEW k \in 1..(Len(seqs) + 1)
      PROVE  Begins(seqs, k) \in Nat /\ Begins(seqs, k) <= Len(FlattenSeq(seqs))
  <2>1. k - 1 \in 0..Len(seqs) /\ Len(seqs) \in (k - 1)..Len(seqs)
    BY <1>1
  <2>2. Len(Laid(seqs, k - 1)) <= Len(Laid(seqs, Len(seqs)))
    BY <2>1, LaidStays
  <2>3. Len(Laid(seqs, k - 1)) \in Nat
    BY <1>1, <2>1, LenProperties
  <2> QED BY <1>1, <2>2, <2>3 DEF Begins
<1> QED BY <1>1, <1>2, <1>3 DEF Begins

(* A block is in the whole as it is, and the next one begins behind it. *)
LEMMA BlockPlaced ==
  ASSUME NEW S, NEW seqs \in Seq(Seq(S)), NEW k \in 1..Len(seqs)
  PROVE  /\ seqs[k] \in Seq(S) /\ Len(seqs[k]) \in Nat
         /\ Begins(seqs, k + 1) = Begins(seqs, k) + Len(seqs[k])
         /\ \A i \in 1..Len(seqs[k]) : FlattenSeq(seqs)[Begins(seqs, k) + i] = seqs[k][i]
<1> DEFINE block == seqs[k]
           before == Laid(seqs, k - 1)
           whole == FlattenSeq(seqs)
<1>1. /\ Len(seqs) \in Nat /\ k - 1 \in 0..Len(seqs) /\ k \in 0..Len(seqs) /\ Len(seqs) \in k..Len(seqs)
      /\ k + 1 - 1 = k
  BY LenProperties
<1>2. /\ whole = Laid(seqs, Len(seqs)) /\ before \in Seq(S)
      /\ Laid(seqs, k) = before \o block
  BY <1>1, LaidOut
<1>3. block \in Seq(S) /\ Len(block) \in Nat /\ Len(before) \in Nat
  BY <1>2, ElementOfSeq, LenProperties
<1>4. \A i \in 1..Len(Laid(seqs, k)) : whole[i] = Laid(seqs, k)[i]
  BY <1>1, <1>2, LaidStays
<1>5. Begins(seqs, k) = Len(before) /\ Begins(seqs, k + 1) = Len(Laid(seqs, k))
  BY <1>1 DEF Begins
<1> HIDE DEF block, before, whole
<1>6. /\ Len(before \o block) = Len(before) + Len(block)
      /\ \A i \in 1..Len(before) + Len(block) :
           (before \o block)[i] = IF i <= Len(before) THEN before[i] ELSE block[i - Len(before)]
  BY <1>2, <1>3, ConcatProperties
<1>7. ASSUME NEW i \in 1..Len(block)
      PROVE  whole[Begins(seqs, k) + i] = block[i]
  <2> DEFINE j == Len(before) + i
  <2>1. j \in 1..Len(before) + Len(block) /\ ~(j <= Len(before)) /\ j - Len(before) = i
    BY <1>3
  <2> HIDE DEF j
  <2>2. (before \o block)[j] = block[i]
    BY <1>6, <2>1
  <2>3. whole[j] = (before \o block)[j]
    BY <1>2, <1>4, <1>6, <2>1
  <2> QED BY <1>5, <2>2, <2>3 DEF j
<1> QED BY <1>2, <1>3, <1>5, <1>6, <1>7 DEF block, before, whole

-----------------------------------------------------------------------------
(* As many values as positions are values no two positions share.           *)
LEMMA AsManyAsPositions ==
  ASSUME NEW f, NEW n \in Nat, DOMAIN f = 1..n
  PROVE  Cardinality({f[i] : i \in 1..n}) = n <=> \A i, j \in 1..n : f[i] = f[j] => i = j
<1> DEFINE T == {f[i] : i \in 1..n}
           g == [i \in 1..n |-> f[i]]
<1>1. g \in Surjection(1..n, T)
  BY DEF Surjection
<1>2. IsFiniteSet(1..n) /\ Cardinality(1..n) = n
  BY FS_Interval
<1>3. Cardinality(T) = n <=> g \in Injection(1..n, T)
  BY <1>1, <1>2, FS_Surjection
<1>4. g \in Injection(1..n, T) <=> \A i, j \in 1..n : f[i] = f[j] => i = j
  BY DEF Injection, IsInjective
<1> QED BY <1>3, <1>4

(* A pointer is laid out line by line.                                      *)
PointerOf(s) == <<"version">> \o s \o <<"oid", "size">>
PointerLine(s, i) ==
  IF i = 1 THEN "version" ELSE IF i <= Len(s) + 1 THEN s[i - 1] ELSE IF i = Len(s) + 2 THEN "oid" ELSE "size"

(* A pointer laid out line by line. *)
LEMMA PointerLaidOut ==
  ASSUME NEW s \in Seq(DOMAIN Priority)
  PROVE  /\ PointerOf(s) \in Seq(PointerLines) /\ Len(PointerOf(s)) = Len(s) + 3
         /\ \A i \in 1..(Len(s) + 3) : PointerOf(s)[i] = PointerLine(s, i)
<1> DEFINE a == <<"version">>
           b == <<"oid", "size">>
           c == a \o s
<1>1. Len(s) \in Nat
  BY LenProperties
<1>2. s \in Seq(PointerLines)
  <2>1. DOMAIN Priority \subseteq PointerLines
    BY DEF PointerLines
  <2> QED BY <2>1, SeqMonotonic
<1>3. a \in Seq(PointerLines) /\ b \in Seq(PointerLines)
  BY DEF PointerLines
<1>4. Len(a) = 1 /\ Len(b) = 2 /\ a[1] = "version" /\ b[1] = "oid" /\ b[2] = "size"
  OBVIOUS
<1> HIDE DEF a, b
<1>5. /\ c \in Seq(PointerLines) /\ Len(c) = Len(s) + 1
      /\ \A i \in 1..(Len(s) + 1) : c[i] = IF i <= 1 THEN a[i] ELSE s[i - 1]
  <2>1. /\ a \o s \in Seq(PointerLines) /\ Len(a \o s) = 1 + Len(s)
        /\ \A i \in 1..(1 + Len(s)) : (a \o s)[i] = IF i <= 1 THEN a[i] ELSE s[i - 1]
    BY <1>2, <1>3, <1>4, ConcatProperties
  <2>2. 1 + Len(s) = Len(s) + 1
    BY <1>1
  <2> QED BY <2>1, <2>2
<1> HIDE DEF c
<1>6. /\ c \o b \in Seq(PointerLines) /\ Len(c \o b) = Len(s) + 3
      /\ \A i \in 1..(Len(s) + 3) : (c \o b)[i] = IF i <= Len(s) + 1 THEN c[i] ELSE b[i - (Len(s) + 1)]
  <2>1. /\ c \o b \in Seq(PointerLines) /\ Len(c \o b) = Len(s) + 1 + 2
        /\ \A i \in 1..(Len(s) + 1 + 2) : (c \o b)[i] = IF i <= Len(s) + 1 THEN c[i] ELSE b[i - (Len(s) + 1)]
    <3>1. /\ c \o b \in Seq(PointerLines) /\ Len(c \o b) = Len(c) + Len(b)
          /\ \A i \in 1..(Len(c) + Len(b)) : (c \o b)[i] = IF i <= Len(c) THEN c[i] ELSE b[i - Len(c)]
      BY <1>3, <1>5, ConcatProperties
    <3> QED BY <1>4, <1>5, <3>1
  <2>2. Len(s) + 1 + 2 = Len(s) + 3
    BY <1>1
  <2> QED BY <2>1, <2>2
<1>7. ASSUME NEW i \in 1..(Len(s) + 3) PROVE (c \o b)[i] = PointerLine(s, i)
  <2>1. CASE i <= Len(s) + 1
    <3>1. i \in 1..(Len(s) + 1) /\ (i <= 1 <=> i = 1)
      BY <1>1, <2>1
    <3> QED BY <1>4, <1>5, <1>6, <2>1, <3>1 DEF PointerLine
  <2>2. CASE i = Len(s) + 2
    <3>1. i - (Len(s) + 1) = 1 /\ ~(i <= Len(s) + 1) /\ i # 1
      BY <1>1, <2>2
    <3> QED BY <1>4, <1>6, <2>2, <3>1 DEF PointerLine
  <2>3. CASE i = Len(s) + 3
    <3>1. i - (Len(s) + 1) = 2 /\ ~(i <= Len(s) + 1) /\ i # 1 /\ i # Len(s) + 2
      BY <1>1, <2>3
    <3> QED BY <1>4, <1>6, <2>3, <3>1 DEF PointerLine
  <2>4. i <= Len(s) + 1 \/ i = Len(s) + 2 \/ i = Len(s) + 3
    BY <1>1
  <2> QED BY <2>1, <2>2, <2>3, <2>4
<1> QED BY <1>6, <1>7 DEF PointerOf, a, b, c

(* As many priorities as extensions are priorities no two of them share.    *)
LEMMA DistinctPriorities ==
  ASSUME NEW s \in Seq(DOMAIN Priority)
  PROVE  Cardinality({Priority[s[i]] : i \in DOMAIN s}) = Len(s)
           <=> \A i, j \in 1..Len(s) : Priority[s[i]] = Priority[s[j]] => i = j
<1> DEFINE f == [i \in 1..Len(s) |-> Priority[s[i]]]
<1>1. Len(s) \in Nat /\ DOMAIN s = 1..Len(s)
  BY LenProperties
<1>2. DOMAIN f = 1..Len(s) /\ {Priority[s[i]] : i \in DOMAIN s} = {f[i] : i \in 1..Len(s)}
  BY <1>1
<1>3. \A i \in 1..Len(s) : f[i] = Priority[s[i]]
  OBVIOUS
<1> HIDE DEF f
<1>4. Cardinality({f[i] : i \in 1..Len(s)}) = Len(s) <=> \A i, j \in 1..Len(s) : f[i] = f[j] => i = j
  BY <1>1, <1>2, AsManyAsPositions
<1>5. (\A i, j \in 1..Len(s) : f[i] = f[j] => i = j)
         <=> \A i, j \in 1..Len(s) : Priority[s[i]] = Priority[s[j]] => i = j
  BY <1>3
<1>6. Cardinality({f[i] : i \in 1..Len(s)}) = Cardinality({Priority[s[i]] : i \in DOMAIN s})
  BY <1>2
<1> QED BY <1>4, <1>5, <1>6

(* The lines of a recognized pointer are a pointer's. inspectIndirection.    *)
LEMMA RecognizedIsPointer ==
  ASSUME NEW file \in Pointers, IsPointer(file)
  PROVE  \E s \in BoundedSeq(DOMAIN Priority, LongestPointer) :
           /\ file.lines = PointerOf(s)
           /\ Cardinality({Priority[s[i]] : i \in DOMAIN s}) = Len(s)
<1> DEFINE lines == file.lines
           n == Len(lines)
           s == [i \in 1..(n - 3) |-> lines[i + 1]]
<1>1. lines \in Seq(PointerLines) /\ n \in Nat /\ n <= LongestPointer /\ LongestPointer \in Nat
  BY TextAssumption, BoundedSeqs, LenProperties DEF Pointers
<1>2. /\ n >= 3 /\ lines[1] = "version" /\ lines[n - 1] = "oid" /\ lines[n] = "size"
      /\ \A i \in 2..(n - 2) : lines[i] \in DOMAIN Priority
      /\ \A i \in 2..(n - 2) : \A j \in 2..(i - 1) : Priority[lines[j]] # Priority[lines[i]]
  BY DEF IsPointer
<1> HIDE DEF lines, n
<1>3. s \in Seq(DOMAIN Priority) /\ Len(s) = n - 3 /\ \A i \in 1..(n - 3) : s[i] = lines[i + 1]
  <2>1. n - 3 \in Nat
    BY <1>1, <1>2
  <2>2. \A i \in 1..(n - 3) : i + 1 \in 2..(n - 2)
    BY <1>1
  <2>3. \A i \in 1..(n - 3) : lines[i + 1] \in DOMAIN Priority
    BY <1>2, <2>2
  <2>4. s \in [1..(n - 3) -> DOMAIN Priority]
    BY <2>3
  <2>5. s \in Seq(DOMAIN Priority)
    <3> HIDE DEF s
    <3> QED BY <2>1, <2>4, SeqDef
  <2>6. DOMAIN s = 1..(n - 3)
    OBVIOUS
  <2>7. Len(s) = n - 3
    <3> HIDE DEF s
    <3> QED BY <2>1, <2>5, <2>6, LenProperties
  <2> QED BY <2>5, <2>7
<1> HIDE DEF s
<1>4. s \in BoundedSeq(DOMAIN Priority, LongestPointer)
  <2>1. Len(s) <= LongestPointer
    BY <1>1, <1>3
  <2> QED BY <1>1, <1>3, <2>1, BoundedSeqs
<1>5. lines = PointerOf(s)
  <2> DEFINE w == PointerOf(s)
  <2>1. n - 3 + 3 = n
    BY <1>1
  <2>2. w \in Seq(PointerLines) /\ Len(w) = n /\ \A i \in 1..n : w[i] = PointerLine(s, i)
    BY <1>3, <2>1, PointerLaidOut
  <2> HIDE DEF w
  <2>3. ASSUME NEW i \in 1..n PROVE lines[i] = w[i]
    <3>1. w[i] = PointerLine(s, i)
      BY <2>2
    <3>2. CASE i = 1
      BY <1>2, <3>1, <3>2 DEF PointerLine
    <3>3. CASE i # 1 /\ i <= n - 2
      <4> DEFINE j == i - 1
      <4>1. j \in 1..(n - 3) /\ j + 1 = i /\ i <= Len(s) + 1
        BY <1>1, <1>3, <3>3
      <4> HIDE DEF j
      <4>2. s[j] = lines[i]
        BY <1>3, <4>1
      <4> QED BY <3>1, <3>3, <4>1, <4>2 DEF PointerLine, j
    <3>4. CASE i = n - 1
      <4>1. i # 1 /\ ~(i <= Len(s) + 1) /\ i = Len(s) + 2
        BY <1>1, <1>2, <1>3, <3>4
      <4> QED BY <1>2, <3>1, <3>4, <4>1 DEF PointerLine
    <3>5. CASE i = n
      <4>1. i # 1 /\ ~(i <= Len(s) + 1) /\ i # Len(s) + 2
        BY <1>1, <1>2, <1>3, <3>5
      <4> QED BY <1>2, <3>1, <3>5, <4>1 DEF PointerLine
    <3> QED BY <1>1, <3>2, <3>3, <3>4, <3>5
  <2>4. Len(lines) = Len(w)
    BY <2>2 DEF n
  <2>5. \A i \in 1..Len(lines) : lines[i] = w[i]
    BY <2>3 DEF n
  <2>6. lines = w
    BY <1>1, <2>2, <2>4, <2>5, SeqEqual
  <2> QED BY <2>6 DEF w
<1>6. \A i, j \in 1..Len(s) : Priority[s[i]] = Priority[s[j]] => i = j
  <2>1. ASSUME NEW i \in 1..(n - 3), NEW j \in 1..(n - 3), i < j
        PROVE  Priority[s[i]] # Priority[s[j]]
    <3> DEFINE k == j + 1
               m == i + 1
    <3>1. k \in 2..(n - 2) /\ m \in 2..(k - 1)
      BY <1>1, <2>1
    <3>2. s[i] = lines[m] /\ s[j] = lines[k]
      BY <1>3
    <3> HIDE DEF k, m
    <3> QED BY <1>2, <3>1, <3>2
  <2>2. \A i, j \in 1..(n - 3) : i < j \/ j < i \/ i = j
    BY <1>1
  <2> QED BY <1>3, <2>1, <2>2
<1>7. Cardinality({Priority[s[i]] : i \in DOMAIN s}) = Len(s)
  BY <1>3, <1>6, DistinctPriorities
<1> QED BY <1>4, <1>5, <1>7 DEF lines

(* What has the lines of a pointer is recognized.                           *)
LEMMA PointerIsRecognized ==
  ASSUME NEW file \in Pointers, file.short, NEW s \in Seq(DOMAIN Priority), file.lines = PointerOf(s),
         Cardinality({Priority[s[i]] : i \in DOMAIN s}) = Len(s)
  PROVE  IsPointer(file)
<1> DEFINE lines == file.lines
           n == Len(lines)
<1>1. Len(s) \in Nat
  BY LenProperties
<1>2. n = Len(s) + 3 /\ \A i \in 1..n : lines[i] = PointerLine(s, i)
  BY PointerLaidOut
<1>3. \A i, j \in 1..Len(s) : Priority[s[i]] = Priority[s[j]] => i = j
  BY DistinctPriorities
<1>4. \A i \in 1..Len(s) : s[i] \in DOMAIN Priority
  BY ElementOfSeq
<1>p. IsPointer(file) <=>
        /\ file.short /\ n >= 3 /\ lines[1] = "version"
        /\ \A i \in 2..(n - 2) :
             /\ lines[i] \in DOMAIN Priority
             /\ \A j \in 2..(i - 1) : Priority[lines[j]] # Priority[lines[i]]
        /\ lines[n - 1] = "oid" /\ lines[n] = "size"
  BY DEF IsPointer
<1> HIDE DEF lines, n
<1>5. n >= 3 /\ lines[1] = "version" /\ lines[n - 1] = "oid" /\ lines[n] = "size"
  <2>1. 1 \in 1..n /\ n - 1 \in 1..n /\ n \in 1..n /\ n >= 3
    BY <1>1, <1>2
  <2>2. PointerLine(s, 1) = "version"
    BY DEF PointerLine
  <2>3. PointerLine(s, n - 1) = "oid"
    BY <1>1, <1>2 DEF PointerLine
  <2>4. PointerLine(s, n) = "size"
    BY <1>1, <1>2 DEF PointerLine
  <2> QED BY <1>2, <2>1, <2>2, <2>3, <2>4
<1>6. ASSUME NEW i \in 2..(n - 2) PROVE i - 1 \in 1..Len(s) /\ lines[i] = s[i - 1]
  <2>1. i \in 1..n /\ i # 1 /\ i <= Len(s) + 1 /\ i - 1 \in 1..Len(s)
    BY <1>1, <1>2
  <2> QED BY <1>2, <2>1 DEF PointerLine
<1>7. ASSUME NEW i \in 2..(n - 2) PROVE lines[i] \in DOMAIN Priority
  BY <1>4, <1>6
<1>8. ASSUME NEW i \in 2..(n - 2), NEW j \in 2..(i - 1) PROVE Priority[lines[j]] # Priority[lines[i]]
  <2>1. j \in 2..(n - 2) /\ j - 1 # i - 1
    BY <1>1, <1>2
  <2>2. /\ i - 1 \in 1..Len(s) /\ lines[i] = s[i - 1]
        /\ j - 1 \in 1..Len(s) /\ lines[j] = s[j - 1]
    BY <1>6, <2>1
  <2> QED BY <1>3, <2>1, <2>2
<1> QED BY <1>p, <1>5, <1>7, <1>8

(* A pointer is recognized by its lines, whatever they are. inspectIndirection. *)
LEMMA PointerRight ==
  ASSUME NEW file \in Pointers
  PROVE  PointerIsHonest(file, IsPointer(file))
<1>1. \A s \in BoundedSeq(DOMAIN Priority, LongestPointer) : s \in Seq(DOMAIN Priority)
  BY TextAssumption, BoundedSeqs
<1>2. PointerIsHonest(file, IsPointer(file)) <=>
        (IsPointer(file) <=>
           /\ file.short
           /\ \E s \in BoundedSeq(DOMAIN Priority, LongestPointer) :
                /\ file.lines = PointerOf(s)
                /\ Cardinality({Priority[s[i]] : i \in DOMAIN s}) = Len(s))
  BY DEF PointerIsHonest, PointerOf
<1>3. IsPointer(file) => file.short
  BY DEF IsPointer
<1> QED BY <1>1, <1>2, <1>3, RecognizedIsPointer, PointerIsRecognized

-----------------------------------------------------------------------------
(* A walk from offset to offset: it goes on to a later one, or stops.       *)
Walks(F, n, goesOn, next, answer) ==
  F = [o \in 0..n |-> IF o \in goesOn THEN F[next[o]] ELSE answer[o]]

(* Every walk ends.                                                         *)
LEMMA WalkEnds ==
  ASSUME NEW n \in Nat, NEW goesOn \in SUBSET (0..n), NEW next, NEW answer,
         \A o \in goesOn : next[o] \in 0..n /\ next[o] > o
  PROVE  \E F : Walks(F, n, goesOn, next, answer)
<1> DEFINE Up(F, d) == \A o \in 0..n : n - o <= d => F[o] = IF o \in goesOn THEN F[next[o]] ELSE answer[o]
           N == {d \in Nat : \E F : F \in [0..n -> {F[o] : o \in 0..n}] /\ Up(F, d)}
<1>1. 0 \in N
  <2> DEFINE F == [o \in 0..n |-> answer[o]]
  <2>1. F \in [0..n -> {F[o] : o \in 0..n}] /\ \A o \in 0..n : F[o] = answer[o]
    OBVIOUS
  <2>2. ASSUME NEW o \in 0..n, n - o <= 0 PROVE o \notin goesOn
    BY <2>2
  <2> HIDE DEF F
  <2>3. Up(F, 0)
    BY <2>1, <2>2
  <2> QED BY <2>1, <2>3
<1>2. ASSUME NEW d \in Nat, d \in N PROVE d + 1 \in N
  <2>1. PICK F : F \in [0..n -> {F[o] : o \in 0..n}] /\ Up(F, d)
    BY <1>2
  <2> DEFINE G == [o \in 0..n |-> IF n - o <= d THEN F[o] ELSE IF o \in goesOn THEN F[next[o]] ELSE answer[o]]
  <2>2. G \in [0..n -> {G[o] : o \in 0..n}]
    OBVIOUS
  <2>3. \A o \in 0..n : n - o <= d => G[o] = F[o]
    OBVIOUS
  <2>4. \A o \in 0..n : ~(n - o <= d) => G[o] = IF o \in goesOn THEN F[next[o]] ELSE answer[o]
    OBVIOUS
  <2> HIDE DEF G
  <2>5. ASSUME NEW o \in 0..n, n - o <= d + 1
        PROVE  G[o] = IF o \in goesOn THEN G[next[o]] ELSE answer[o]
    <3>1. o \in goesOn => next[o] \in 0..n /\ n - next[o] <= d
      BY <2>5
    <3>2. o \in goesOn => G[next[o]] = F[next[o]]
      BY <2>3, <3>1
    <3>3. n - o <= d => F[o] = IF o \in goesOn THEN F[next[o]] ELSE answer[o]
      BY <2>1
    <3> QED BY <2>3, <2>4, <3>2, <3>3
  <2>6. Up(G, d + 1)
    BY <2>5
  <2>7. d + 1 \in Nat
    OBVIOUS
  <2> HIDE DEF Up
  <2> QED BY <2>2, <2>6, <2>7
<1> HIDE DEF N
<1>3. Nat \subseteq N
  BY <1>1, <1>2, NatSetInduction
<1>4. PICK F : F \in [0..n -> {F[o] : o \in 0..n}] /\ Up(F, n)
  BY <1>3 DEF N
<1>5. \A o \in 0..n : F[o] = IF o \in goesOn THEN F[next[o]] ELSE answer[o]
  BY <1>4
<1>6. F = [o \in 0..n |-> F[o]]
  BY <1>4
<1>7. F = [o \in 0..n |-> IF o \in goesOn THEN F[next[o]] ELSE answer[o]]
  BY <1>5, <1>6
<1> QED BY <1>7 DEF Walks

(* Backwards from the end of a list to its first element. *)
LEMMA BackToFirst ==
  ASSUME NEW n \in Nat, NEW good, n + 1 \in good,
         \A k \in 1..n : k + 1 \in good => k \in good
  PROVE  1 \in good
<1> DEFINE N == {d \in Nat : d <= n => n + 1 - d \in good}
<1>1. 0 \in N
  <2>1. n + 1 - 0 = n + 1
    OBVIOUS
  <2> QED BY <2>1
<1>2. ASSUME NEW d \in Nat, d \in N PROVE d + 1 \in N
  <2> SUFFICES ASSUME d + 1 <= n PROVE n + 1 - (d + 1) \in good
    OBVIOUS
  <2> DEFINE k == n + 1 - (d + 1)
  <2>1. k \in 1..n /\ k + 1 = n + 1 - d /\ n + 1 - d \in good
    BY <1>2
  <2> HIDE DEF k
  <2>2. k + 1 \in good
    BY <2>1
  <2> QED BY <2>1, <2>2 DEF k
<1> HIDE DEF N
<1>3. Nat \subseteq N
  BY <1>1, <1>2, NatSetInduction
<1>4. n + 1 - n \in good /\ n + 1 - n = 1
  BY <1>3 DEF N
<1> QED BY <1>4

(* The smallest of a set of numbers. *)
LEMMA LeastIs ==
  ASSUME NEW T \in SUBSET Int, NEW k \in T, \A i \in T : k <= i
  PROVE  Min(T) = k
<1>1. \A x \in T : (\A y \in T : x <= y) => x = k
  OBVIOUS
<1> QED BY <1>1 DEF Min

(* A set of positions that is not empty has a least one. *)
LEMMA LeastBelongs ==
  ASSUME NEW n \in Nat, NEW T \in SUBSET (1..n), T # {}
  PROVE  Min(T) \in T
<1> DEFINE N == {m \in Nat : \A i \in T : i <= m => \E k \in T : \A j \in T : k <= j}
<1>1. 0 \in N
  OBVIOUS
<1>2. ASSUME NEW m \in Nat, m \in N PROVE m + 1 \in N
  <2>1. CASE \E i \in T : i <= m
    BY <1>2, <2>1
  <2>2. CASE \A i \in T : ~(i <= m)
    <3>1. \A i \in T : i <= m + 1 => \A j \in T : i <= j
      BY <2>2
    <3> QED BY <3>1
  <2> QED BY <2>1, <2>2
<1> HIDE DEF N
<1>3. Nat \subseteq N
  BY <1>1, <1>2, NatSetInduction
<1>4. \E k \in T : \A j \in T : k <= j
  <2>1. n \in N /\ \A i \in T : i <= n
    BY <1>3
  <2> QED BY <2>1 DEF N
<1> QED BY <1>4 DEF Min

(* A window shows the first cells of a file as they are. *)
LEMMA WindowShows ==
  ASSUME NEW S, NEW cells \in Seq(S), NEW cut \in Nat
  PROVE  LET read == Windowed(cells, cut)
         IN  /\ read \in Seq(S) /\ Len(read) \in Nat /\ Len(read) <= Len(cells) /\ Len(cells) \in Nat
             /\ cut = 0 => read = cells
             /\ cut > 0 /\ Len(cells) > 0 => Len(read) < Len(cells)
             /\ \A i \in 1..Len(read) : read[i] = cells[i]
<1> DEFINE read == Windowed(cells, cut)
           last == Len(cells) - cut
<1>1. Len(cells) \in Nat /\ last \in Int /\ last <= Len(cells)
  BY LenProperties
<1>2. \A i \in 1..last : cells[i] \in S
  BY <1>1, ElementOfSeq
<1>3. read = SubSeq(cells, 1, last)
  BY DEF Windowed
<1> HIDE DEF read
<1>4. cut = 0 => read = cells
  BY <1>1, <1>3, SubSeqFull
<1> HIDE DEF last
<1>5. /\ read \in Seq(S)
      /\ Len(read) = IF 1 <= last THEN last - 1 + 1 ELSE 0
      /\ \A i \in 1..(last - 1 + 1) : read[i] = cells[1 + i - 1]
  BY <1>1, <1>2, <1>3, SubSeqProperties
<1>6. Len(read) = IF 1 <= last THEN last ELSE 0
  BY <1>1, <1>5
<1>7. ASSUME NEW i \in 1..Len(read) PROVE read[i] = cells[i]
  <2>1. i \in 1..(last - 1 + 1) /\ 1 + i - 1 = i
    BY <1>1, <1>6
  <2> QED BY <1>5, <2>1
<1> QED BY <1>1, <1>4, <1>5, <1>6, <1>7 DEF read, last

-----------------------------------------------------------------------------
(* One step of pngAlpha: what is said at an offset. *)
PngStep(F, cells, alpha, o) ==
  IF o = Len(cells) THEN "unknown"
  ELSE LET next == o + 1 + cells[o + 1].n
       IN  IF next > Len(cells) THEN "unknown"
           ELSE IF cells[o + 1].tag = "tRNS" THEN "yes"
           ELSE IF cells[o + 1].tag = "IEND" THEN IF alpha THEN "yes" ELSE "no"
           ELSE F[next]
PngWalk(F, cells, alpha) == F = [o \in 0..Len(cells) |-> PngStep(F, cells, alpha, o)]

(* The walk over a PNG image ends: what it says follows step by step. *)
LEMMA PngWalkEnds ==
  ASSUME NEW cells, NEW alpha, Len(cells) \in Nat, \A i \in 1..Len(cells) : cells[i].n \in Nat
  PROVE  \E F : /\ \A o \in 0..Len(cells) : F[o] = PngStep(F, cells, alpha, o)
                /\ PngAlpha(cells, alpha) = F[0]
<1> DEFINE n == Len(cells)
           next == [o \in 0..n |-> o + 1 + cells[o + 1].n]
           goesOn == {o \in 0..n : o # n /\ ~(next[o] > n) /\ cells[o + 1].tag # "tRNS" /\ cells[o + 1].tag # "IEND"}
           answer == [o \in 0..n |-> PngStep([x \in 0..n |-> x], cells, alpha, o)]
<1>1. \A o \in 0..n : o # n => o + 1 \in 1..n
  OBVIOUS
<1>2. \A o \in 0..n : next[o] = o + 1 + cells[o + 1].n
  OBVIOUS
<1>3. \A o \in goesOn : next[o] \in 0..n /\ next[o] > o
  BY <1>1
<1>4. ASSUME NEW F, NEW o \in 0..n
      PROVE  PngStep(F, cells, alpha, o) = IF o \in goesOn THEN F[next[o]] ELSE answer[o]
  <2>1. answer[o] = PngStep([x \in 0..n |-> x], cells, alpha, o)
    OBVIOUS
  <2>2. o \in goesOn <=> o # n /\ ~(next[o] > n) /\ cells[o + 1].tag # "tRNS" /\ cells[o + 1].tag # "IEND"
    OBVIOUS
  <2> HIDE DEF answer, goesOn, next
  <2> QED BY <1>2, <2>1, <2>2 DEF PngStep
<1>5. goesOn \in SUBSET (0..n)
  OBVIOUS
<1> HIDE DEF answer, goesOn, next
<1>6. PICK F : Walks(F, n, goesOn, next, answer)
  BY <1>3, <1>5, WalkEnds
<1>7. F = [o \in 0..n |-> IF o \in goesOn THEN F[next[o]] ELSE answer[o]]
  BY <1>6 DEF Walks
<1>8. [o \in 0..n |-> IF o \in goesOn THEN F[next[o]] ELSE answer[o]] = [o \in 0..n |-> PngStep(F, cells, alpha, o)]
  BY <1>4
<1>9. PngWalk(F, cells, alpha)
  BY <1>7, <1>8 DEF PngWalk
<1> DEFINE G == CHOOSE G : PngWalk(G, cells, alpha)
<1>10. PngWalk(G, cells, alpha)
  BY <1>9
<1>11. PngAlpha(cells, alpha) = G[0]
  BY DEF PngAlpha, PngWalk, PngStep
<1> HIDE DEF G
<1>12. \A o \in 0..n : G[o] = PngStep(G, cells, alpha, o)
  BY <1>10 DEF PngWalk
<1> QED BY <1>11, <1>12

(* A chunk of a PNG image is its header and as many cells as that says. *)
PngCells == [tag : {"IDAT", "x", "tEXt", "IEND", "tRNS"}, n : Nat]
(* Every chunk has that shape. *)
LEMMA PngChunkShape ==
  ASSUME NEW c \in PngChunks \ {<<>>}
  PROVE  c \in Seq(PngCells) /\ Len(c) \in Nat /\ Len(c) >= 1 /\ Len(c) = 1 + c[1].n
<1>1. CASE c = <<Cell("IDAT", 1), Cell("x", 9)>>
  BY <1>1 DEF PngCells, Cell
<1>2. CASE c = <<Cell("tEXt", 2), Cell("IEND", 0), Cell("tRNS", 0)>>
  BY <1>2 DEF PngCells, Cell
<1>3. CASE c = <<Cell("tRNS", 1), Cell("IEND", 0)>>
  BY <1>3 DEF PngCells, Cell
<1>4. CASE c = <<Cell("IEND", 0)>>
  BY <1>4 DEF PngCells, Cell
<1> QED BY <1>1, <1>2, <1>3, <1>4 DEF PngChunks

(* The cells of a list of blocks, seen through a window: what a walk meets  *)
(* where a block begins.                                                    *)
LEMMA BlocksSeen ==
  ASSUME NEW S, NEW seqs \in Seq(Seq(S)), NEW cut \in Nat, NEW k \in 1..Len(seqs)
  PROVE  LET cells == Cells(seqs)
             read == Windowed(cells, cut)
         IN  /\ Begins(seqs, k) \in Nat /\ Len(seqs[k]) \in Nat /\ Begins(seqs, k + 1) = Begins(seqs, k) + Len(seqs[k])
             /\ Begins(seqs, k + 1) <= Len(cells)
             /\ \A i \in 1..Len(seqs[k]) : Begins(seqs, k) + i <= Len(read) => read[Begins(seqs, k) + i] = seqs[k][i]
<1> DEFINE cells == Cells(seqs)
           read == Windowed(cells, cut)
<1>1. cells = FlattenSeq(seqs) /\ cells \in Seq(S)
  BY BlockBegins DEF Cells
<1> HIDE DEF cells
<1>2. Len(read) \in Nat /\ \A i \in 1..Len(read) : read[i] = cells[i]
  BY <1>1, WindowShows
<1> HIDE DEF read
<1>3. /\ Len(seqs[k]) \in Nat /\ Begins(seqs, k + 1) = Begins(seqs, k) + Len(seqs[k])
      /\ \A i \in 1..Len(seqs[k]) : cells[Begins(seqs, k) + i] = seqs[k][i]
  BY <1>1, BlockPlaced
<1>4. Begins(seqs, k) \in Nat /\ Begins(seqs, k + 1) <= Len(cells)
  <2>1. k \in 1..(Len(seqs) + 1) /\ k + 1 \in 1..(Len(seqs) + 1)
    BY LenProperties
  <2> QED BY <1>1, <2>1, BlockBegins
<1>5. ASSUME NEW i \in 1..Len(seqs[k]), Begins(seqs, k) + i <= Len(read)
      PROVE  read[Begins(seqs, k) + i] = seqs[k][i]
  <2>1. Begins(seqs, k) + i \in 1..Len(read)
    BY <1>2, <1>4, <1>5
  <2> QED BY <1>2, <1>3, <2>1
<1> QED BY <1>3, <1>4, <1>5 DEF cells, read

(* Where a list of blocks begins and ends in the window of its cells.       *)
LEMMA WindowOfBlocks ==
  ASSUME NEW S, NEW seqs \in Seq(Seq(S)), NEW cut \in Nat
  PROVE  LET cells == Cells(seqs)
             read == Windowed(cells, cut)
         IN  /\ Len(seqs) \in Nat /\ cells \in Seq(S) /\ Len(cells) \in Nat /\ read \in Seq(S) /\ Len(read) \in Nat
             /\ Begins(seqs, 1) = 0 /\ Begins(seqs, Len(seqs) + 1) = Len(cells) /\ Len(read) <= Len(cells)
             /\ cut = 0 => read = cells
             /\ cut > 0 /\ Len(cells) > 0 => Len(read) < Len(cells)
<1> DEFINE cells == Cells(seqs)
<1>1. cells = FlattenSeq(seqs) /\ cells \in Seq(S)
      /\ Begins(seqs, 1) = 0 /\ Begins(seqs, Len(seqs) + 1) = Len(cells) /\ Len(seqs) \in Nat
  BY BlockBegins, LenProperties DEF Cells
<1> HIDE DEF cells
<1> QED BY <1>1, WindowShows DEF cells

(* A walk over a list of blocks, up to where it can see: the first block    *)
(* that settles the answer decides, or nothing is said because that block   *)
(* is not seen whole. First.                                                *)
Settled(seqs, settling) == {i \in DOMAIN seqs : seqs[i] \in settling}

FirstSettled(seqs, settling, said, nothing) ==
  IF Settled(seqs, settling) = {} THEN nothing ELSE said[Min(Settled(seqs, settling))]
WalksOver(seqs, settling, said, nothing, F, w) ==
  \A k \in 1..Len(seqs) : Begins(seqs, k) <= w =>
    F[Begins(seqs, k)] = IF Begins(seqs, k + 1) > w THEN nothing
                         ELSE IF seqs[k] \in settling THEN said[k] ELSE F[Begins(seqs, k + 1)]

(* Such a walk says what the first block that settles the question says, or *)
(* nothing if it does not get there.                                        *)
LEMMA FirstBlockDecides ==
  ASSUME NEW S, NEW seqs \in Seq(Seq(S)), NEW settling, NEW said, NEW nothing, NEW truth, NEW F, NEW w \in Nat,
         w <= Len(Cells(seqs)),
         truth = FirstSettled(seqs, settling, said, nothing),
         w = Len(Cells(seqs)) => F[w] = nothing,
         WalksOver(seqs, settling, said, nothing, F, w)
  PROVE  F[0] \in {nothing, truth} /\ (w = Len(Cells(seqs)) => F[0] = truth)
<1> DEFINE n == Len(seqs)
           b(k) == Begins(seqs, k)
           all == Len(Cells(seqs))
           settled == Settled(seqs, settling)
           right(o) == F[o] \in {nothing, truth} /\ (w = all => F[o] = truth)
           good == {k \in 1..(n + 1) : (\A i \in settled : i >= k) /\ b(k) <= w => right(b(k))}
<1>1. n \in Nat /\ settled \in SUBSET (1..n) /\ all \in Nat
      /\ b(1) = 0 /\ b(n + 1) = all /\ \A k \in 1..(n + 1) : b(k) \in Nat /\ b(k) <= all
  <2>1. DOMAIN seqs = 1..n /\ n \in Nat
    BY LenProperties
  <2>2. FlattenSeq(seqs) \in Seq(S)
    BY BlockBegins
  <2>3. all \in Nat
    BY <2>2, LenProperties DEF Cells
  <2> QED BY <2>1, <2>3, BlockBegins DEF Settled, Cells
<1>2. \A k \in 1..n : k \in settled <=> seqs[k] \in settling
  <2>1. DOMAIN seqs = 1..n
    BY LenProperties
  <2> QED BY <2>1 DEF Settled
<1>3. /\ settled = {} => truth = nothing
      /\ settled # {} => truth = said[Min(settled)]
  BY DEF FirstSettled
<1>4. \A k \in 1..n : b(k) <= w =>
        F[b(k)] = IF b(k + 1) > w THEN nothing ELSE IF seqs[k] \in settling THEN said[k] ELSE F[b(k + 1)]
  BY DEF WalksOver
<1>5. w <= all /\ (w = all => F[w] = nothing)
  OBVIOUS
<1> HIDE DEF n, b, all, settled
<1>6. n + 1 \in good
  <2> SUFFICES ASSUME \A i \in settled : i >= n + 1, b(n + 1) <= w PROVE right(b(n + 1))
    BY <1>1
  <2>1. settled = {} /\ b(n + 1) = w /\ w = all
    BY <1>1, <1>5
  <2> QED BY <1>3, <1>5, <2>1
<1>7. ASSUME NEW k \in 1..n, k + 1 \in good PROVE k \in good
  <2> SUFFICES ASSUME \A i \in settled : i >= k, b(k) <= w PROVE right(b(k))
    BY <1>1
  <2>1. k + 1 \in 1..(n + 1) /\ b(k + 1) \in Nat /\ b(k + 1) <= all
    BY <1>1
  <2>2. CASE b(k + 1) > w
    <3>1. w # all /\ F[b(k)] = nothing
      BY <1>1, <1>4, <2>1, <2>2
    <3> QED BY <3>1
  <2>3. CASE b(k + 1) <= w /\ k \in settled
    <3>1. settled \in SUBSET Int
      BY <1>1
    <3>2. Min(settled) = k
      BY <2>3, <3>1, LeastIs
    <3>3. truth = said[k]
      BY <1>3, <2>3, <3>2
    <3>4. ~(b(k + 1) > w)
      BY <2>1, <2>3
    <3>5. F[b(k)] = truth
      BY <1>2, <1>4, <2>3, <3>3, <3>4
    <3> QED BY <3>5
  <2>4. CASE b(k + 1) <= w /\ k \notin settled
    <3>1. \A i \in settled : i >= k + 1
      BY <1>1, <2>4
    <3>2. right(b(k + 1))
      BY <1>7, <2>1, <2>4, <3>1
    <3>3. ~(b(k + 1) > w)
      BY <2>1, <2>4
    <3>4. F[b(k)] = F[b(k + 1)]
      BY <1>2, <1>4, <2>4, <3>3
    <3> QED BY <3>2, <3>4
  <2> QED BY <2>1, <2>2, <2>3, <2>4
<1>8. 1 \in good
  <2> HIDE DEF good
  <2> QED BY <1>1, <1>6, <1>7, BackToFirst
<1>9. right(b(1))
  <2>1. \A i \in settled : i >= 1
    BY <1>1
  <2>2. b(1) <= w
    BY <1>1
  <2> QED BY <1>8, <2>1, <2>2
<1> QED BY <1>1, <1>9 DEF all

PngSettles == {c \in PngChunks : c # <<>> /\ c[1].tag \in {"tRNS", "IEND"}}

(* What is said of a PNG image: the first chunk that settles it decides, or *)
(* nothing is said because the window ends before it. pngAlpha.             *)
LEMMA PngRight ==
  ASSUME NEW image \in Images, image.kind = "png"
  PROVE  ImageIsHonest(image, InspectImage(image))
<1> DEFINE chunks == image.chunks
           n == Len(chunks)
           alpha == image.alpha
           cut == image.cut
           cells == Cells(chunks)
           read == Windowed(cells, cut)
           said == [k \in 1..n |-> IF chunks[k][1].tag = "tRNS" \/ alpha THEN "yes" ELSE "no"]
<1>1. chunks \in Seq(PngChunks \ {<<>>}) /\ cut \in Nat
  BY ImageAssumption, BoundedSeqs DEF Images, Lists
<1>2. chunks \in Seq(Seq(PngCells))
  <2>1. PngChunks \ {<<>>} \subseteq Seq(PngCells)
    BY PngChunkShape
  <2> QED BY <1>1, <2>1, SeqMonotonic
<1>t. /\ Truth(image) = IF Settled(chunks, PngSettles) = {} THEN "unknown"
                        ELSE LET c == chunks[Min(Settled(chunks, PngSettles))]
                             IN  IF c[1].tag = "tRNS" \/ alpha THEN "yes" ELSE "no"
      /\ InspectImage(image) = PngAlpha(read, alpha)
  BY DEF Truth, PngTruth, First, PngSettles, Settled, InspectImage, ImageCells
<1>h. ImageIsHonest(image, InspectImage(image)) <=>
        /\ InspectImage(image) \in {"unknown", "invalid", Truth(image)}
        /\ cut = 0 => InspectImage(image) = Truth(image)
  BY DEF ImageIsHonest
<1> HIDE DEF chunks, alpha, cut
<1>3. Truth(image) = IF Settled(chunks, PngSettles) = {} THEN "unknown" ELSE said[Min(Settled(chunks, PngSettles))]
  <2>1. n \in Nat /\ Settled(chunks, PngSettles) \in SUBSET (1..n)
    BY <1>1, LenProperties DEF Settled
  <2>2. Settled(chunks, PngSettles) # {} => Min(Settled(chunks, PngSettles)) \in 1..n
    BY <2>1, LeastBelongs
  <2> QED BY <1>t, <2>2
<1> HIDE DEF n
<1>4. /\ cells \in Seq(PngCells) /\ Len(cells) \in Nat /\ read \in Seq(PngCells) /\ Len(read) \in Nat
      /\ Len(read) <= Len(cells) /\ (cut = 0 => read = cells)
  BY <1>1, <1>2, WindowOfBlocks
<1>5. \A i \in 1..Len(read) : read[i].n \in Nat
  <2>1. \A i \in 1..Len(read) : read[i] \in PngCells
    BY <1>4, ElementOfSeq
  <2> QED BY <2>1 DEF PngCells
<1>6. PICK F : /\ \A o \in 0..Len(read) : F[o] = PngStep(F, read, alpha, o)
               /\ PngAlpha(read, alpha) = F[0]
  BY <1>4, <1>5, PngWalkEnds
<1>7. ASSUME NEW k \in 1..n
      PROVE  /\ Begins(chunks, k) \in Nat /\ Len(chunks[k]) >= 1 /\ chunks[k] \in PngChunks \ {<<>>}
             /\ Begins(chunks, k + 1) = Begins(chunks, k) + 1 + chunks[k][1].n
             /\ chunks[k][1].n \in Nat
             /\ Begins(chunks, k) + 1 <= Len(read) => read[Begins(chunks, k) + 1] = chunks[k][1]
  <2>1. /\ Begins(chunks, k) \in Nat /\ Len(chunks[k]) \in Nat
        /\ Begins(chunks, k + 1) = Begins(chunks, k) + Len(chunks[k])
        /\ \A i \in 1..Len(chunks[k]) : Begins(chunks, k) + i <= Len(read) => read[Begins(chunks, k) + i] = chunks[k][i]
    BY <1>1, <1>2, BlocksSeen DEF n
  <2>2. chunks[k] \in PngChunks \ {<<>>}
    BY <1>1, ElementOfSeq DEF n
  <2>3. chunks[k] \in Seq(PngCells) /\ Len(chunks[k]) >= 1 /\ Len(chunks[k]) = 1 + chunks[k][1].n
    BY <2>2, PngChunkShape
  <2>4. 1 \in 1..Len(chunks[k])
    BY <2>1, <2>3
  <2>5. chunks[k][1] \in PngCells
    BY <2>3, <2>4, ElementOfSeq
  <2>6. chunks[k][1].n \in Nat
    BY <2>5 DEF PngCells
  <2>7. Begins(chunks, k + 1) = Begins(chunks, k) + 1 + chunks[k][1].n
    BY <2>1, <2>3, <2>6
  <2>8. Begins(chunks, k) + 1 <= Len(read) => read[Begins(chunks, k) + 1] = chunks[k][1]
    BY <2>1, <2>4
  <2> HIDE DEF cells, read
  <2> QED BY <2>1, <2>2, <2>3, <2>6, <2>7, <2>8
<1> HIDE DEF read
<1>8. Len(read) = Len(cells) => F[Len(read)] = "unknown"
  BY <1>4, <1>6 DEF PngStep
<1>9. ASSUME NEW k \in 1..n, Begins(chunks, k) <= Len(read)
      PROVE  F[Begins(chunks, k)] =
               IF Begins(chunks, k + 1) > Len(read) THEN "unknown"
               ELSE IF chunks[k] \in PngSettles THEN said[k] ELSE F[Begins(chunks, k + 1)]
  <2> DEFINE o == Begins(chunks, k)
             to == Begins(chunks, k + 1)
             head == chunks[k][1]
  <2>1. /\ o \in Nat /\ o <= Len(read) /\ to = o + 1 + head.n /\ head.n \in Nat
        /\ o + 1 <= Len(read) => read[o + 1] = head
    BY <1>7, <1>9
  <2>2. F[o] = PngStep(F, read, alpha, o)
    BY <1>4, <1>6, <2>1
  <2>3. chunks[k] \in PngSettles <=> head.tag \in {"tRNS", "IEND"}
    BY <1>7 DEF PngSettles
  <2>4. said[k] = IF head.tag = "tRNS" \/ alpha THEN "yes" ELSE "no"
    OBVIOUS
  <2> HIDE DEF o, to, head, said
  <2>5. CASE o = Len(read)
    <3>1. to > Len(read) /\ F[o] = "unknown"
      BY <1>4, <2>1, <2>2, <2>5 DEF PngStep
    <3> QED BY <3>1 DEF o, to
  <2>6. CASE o # Len(read)
    <3>1. o + 1 <= Len(read) /\ read[o + 1] = head
      BY <1>4, <2>1, <2>6
    <3>2. F[o] = IF to > Len(read) THEN "unknown"
                 ELSE IF head.tag = "tRNS" THEN "yes"
                 ELSE IF head.tag = "IEND" THEN IF alpha THEN "yes" ELSE "no" ELSE F[to]
      BY <2>1, <2>2, <2>6, <3>1 DEF PngStep
    <3>3. F[o] = IF to > Len(read) THEN "unknown" ELSE IF chunks[k] \in PngSettles THEN said[k] ELSE F[to]
      BY <2>3, <2>4, <3>2
    <3> QED BY <3>3 DEF o, to
  <2> QED BY <2>5, <2>6
<1>10. F[0] \in {"unknown", Truth(image)} /\ (Len(read) = Len(Cells(chunks)) => F[0] = Truth(image))
  <2>1. /\ Len(read) \in Nat /\ Len(read) <= Len(Cells(chunks))
        /\ Len(read) = Len(Cells(chunks)) => F[Len(read)] = "unknown"
    BY <1>4, <1>8
  <2> HIDE DEF said
  <2>2. WalksOver(chunks, PngSettles, said, "unknown", F, Len(read))
    BY <1>9 DEF n, WalksOver
  <2>3. Truth(image) = FirstSettled(chunks, PngSettles, said, "unknown")
    BY <1>3 DEF FirstSettled
  <2> QED BY ONLY <1>2, <2>1, <2>2, <2>3, FirstBlockDecides
<1> QED BY <1>4, <1>6, <1>10, <1>t, <1>h

-----------------------------------------------------------------------------
(* One step over sub-blocks, and the walk over them. *)
SkipStep(F, cells, o) ==
  IF o = Len(cells) THEN -1
  ELSE LET next == o + 1 + cells[o + 1].n
       IN  IF cells[o + 1].n = 0 THEN next ELSE IF next > Len(cells) THEN -1 ELSE F[next]
SkipWalk(F, cells) == F = [o \in 0..Len(cells) |-> SkipStep(F, cells, o)]

(* The walk over sub-blocks ends: where it stops follows step by step. *)
LEMMA SkipWalkEnds ==
  ASSUME NEW cells, Len(cells) \in Nat, \A i \in 1..Len(cells) : cells[i].n \in Nat
  PROVE  \E F : /\ \A o \in 0..Len(cells) : F[o] = SkipStep(F, cells, o)
                /\ \A o \in 0..Len(cells) : SkipSubBlocks(cells, o) = F[o]
<1> DEFINE n == Len(cells)
           next == [o \in 0..n |-> o + 1 + cells[o + 1].n]
           goesOn == {o \in 0..n : o # n /\ cells[o + 1].n # 0 /\ ~(next[o] > n)}
           answer == [o \in 0..n |-> SkipStep([x \in 0..n |-> x], cells, o)]
<1>1. \A o \in 0..n : o # n => o + 1 \in 1..n
  OBVIOUS
<1>2. \A o \in 0..n : next[o] = o + 1 + cells[o + 1].n
  OBVIOUS
<1>3. \A o \in goesOn : next[o] \in 0..n /\ next[o] > o
  BY <1>1
<1>4. ASSUME NEW F, NEW o \in 0..n
      PROVE  SkipStep(F, cells, o) = IF o \in goesOn THEN F[next[o]] ELSE answer[o]
  <2>1. answer[o] = SkipStep([x \in 0..n |-> x], cells, o)
    OBVIOUS
  <2>2. o \in goesOn <=> o # n /\ cells[o + 1].n # 0 /\ ~(next[o] > n)
    OBVIOUS
  <2> HIDE DEF answer, goesOn, next
  <2> QED BY <1>2, <2>1, <2>2 DEF SkipStep
<1>5. goesOn \in SUBSET (0..n)
  OBVIOUS
<1> HIDE DEF answer, goesOn, next
<1>6. PICK F : Walks(F, n, goesOn, next, answer)
  BY <1>3, <1>5, WalkEnds
<1>7. F = [o \in 0..n |-> IF o \in goesOn THEN F[next[o]] ELSE answer[o]]
  BY <1>6 DEF Walks
<1>8. [o \in 0..n |-> IF o \in goesOn THEN F[next[o]] ELSE answer[o]] = [o \in 0..n |-> SkipStep(F, cells, o)]
  BY <1>4
<1>9. SkipWalk(F, cells)
  BY <1>7, <1>8 DEF SkipWalk
<1> DEFINE G == CHOOSE G : SkipWalk(G, cells)
<1>10. SkipWalk(G, cells)
  BY <1>9
<1>11. \A o \in 0..n : SkipSubBlocks(cells, o) = G[o]
  BY DEF SkipSubBlocks, SkipWalk, SkipStep
<1> HIDE DEF G
<1>12. \A o \in 0..n : G[o] = SkipStep(G, cells, o)
  BY <1>10 DEF SkipWalk
<1> QED BY <1>11, <1>12

(* Sub-blocks end behind where they begin, or not at all. *)
LEMMA SubBlocksGoOn ==
  ASSUME NEW cells, Len(cells) \in Nat, \A i \in 1..Len(cells) : cells[i].n \in Nat, NEW from \in 0..Len(cells)
  PROVE  SkipSubBlocks(cells, from) = -1 \/ SkipSubBlocks(cells, from) \in (from + 1)..Len(cells)
<1> DEFINE n == Len(cells)
<1>1. PICK F : /\ \A o \in 0..n : F[o] = SkipStep(F, cells, o)
               /\ \A o \in 0..n : SkipSubBlocks(cells, o) = F[o]
  BY SkipWalkEnds
<1> DEFINE N == {d \in Nat : \A o \in 0..n : n - o <= d => F[o] = -1 \/ F[o] \in (o + 1)..n}
<1>2. 0 \in N
  <2>1. \A o \in 0..n : n - o <= 0 => F[o] = -1
    BY <1>1 DEF SkipStep
  <2> QED BY <2>1
<1>3. ASSUME NEW d \in Nat, d \in N PROVE d + 1 \in N
  <2>1. ASSUME NEW o \in 0..n, n - o <= d + 1 PROVE F[o] = -1 \/ F[o] \in (o + 1)..n
    <3> DEFINE to == o + 1 + cells[o + 1].n
    <3>1. F[o] = IF o = n THEN -1 ELSE IF cells[o + 1].n = 0 THEN to ELSE IF to > n THEN -1 ELSE F[to]
      BY <1>1 DEF SkipStep
    <3>2. o # n => to \in Nat /\ to >= o + 1 /\ (cells[o + 1].n = 0 => to = o + 1)
      OBVIOUS
    <3>3. o # n /\ ~(to > n) => F[to] = -1 \/ F[to] \in (to + 1)..n
      BY <1>3, <2>1, <3>2
    <3> HIDE DEF to
    <3>4. CASE o # n /\ ~(to > n) /\ cells[o + 1].n # 0
      <4>1. F[o] = F[to] /\ (F[to] = -1 \/ F[to] \in (to + 1)..n) /\ to >= o + 1 /\ to \in Nat
        BY <3>1, <3>2, <3>3, <3>4
      <4> QED BY <4>1
    <3>5. CASE o = n \/ cells[o + 1].n = 0 \/ to > n
      BY <3>1, <3>2, <3>5
    <3> QED BY <3>4, <3>5
  <2> QED BY <2>1
<1> HIDE DEF N
<1>4. Nat \subseteq N
  BY <1>2, <1>3, NatSetInduction
<1>5. n \in N /\ n - from <= n
  BY <1>4
<1> QED BY <1>1, <1>5 DEF N

(* Sub-blocks that are where they should be are skipped, whatever is in     *)
(* them, if the window shows them all. *)
LEMMA SubBlocksSkipped ==
  ASSUME NEW cells, Len(cells) \in Nat, \A i \in 1..Len(cells) : cells[i].n \in Nat, NEW from \in 0..Len(cells),
         \A i \in 1..6 : from + i <= Len(cells) => cells[from + i] = SubBlocks[i]
  PROVE  SkipSubBlocks(cells, from) = IF from + 6 <= Len(cells) THEN from + 6 ELSE -1
<1> DEFINE n == Len(cells)
<1>1. PICK F : /\ \A o \in 0..n : F[o] = SkipStep(F, cells, o)
               /\ \A o \in 0..n : SkipSubBlocks(cells, o) = F[o]
  BY SkipWalkEnds
<1>2. SubBlocks[1].n = 1 /\ SubBlocks[3].n = 2 /\ SubBlocks[6].n = 0
  BY DEF SubBlocks, Cell, Byte
<1>3. /\ from + 1 <= n => cells[from + 1].n = 1
      /\ from + 3 <= n => cells[from + 3].n = 2
      /\ from + 6 <= n => cells[from + 6].n = 0
  BY <1>2
<1> HIDE DEF n
<1>4. F[from] = IF from + 2 <= n THEN F[from + 2] ELSE -1
  <2>1. F[from] = SkipStep(F, cells, from)
    BY <1>1 DEF n
  <2> QED BY <1>3, <2>1 DEF SkipStep, n
<1>5. from + 2 <= n => F[from + 2] = IF from + 5 <= n THEN F[from + 5] ELSE -1
  <2> SUFFICES ASSUME from + 2 <= n PROVE F[from + 2] = IF from + 5 <= n THEN F[from + 5] ELSE -1
    OBVIOUS
  <2> DEFINE o == from + 2
  <2>1. o \in 0..n /\ o + 1 = from + 3 /\ o + 1 + 2 = from + 5
    BY DEF n
  <2>2. F[o] = SkipStep(F, cells, o)
    BY <1>1, <2>1 DEF n
  <2> HIDE DEF o
  <2>3. o + 1 <= n => cells[o + 1].n = 2
    BY <1>3, <2>1
  <2>4. F[o] = IF o + 1 + 2 <= n THEN F[o + 1 + 2] ELSE -1
    BY <2>1, <2>2, <2>3 DEF SkipStep, n
  <2> QED BY <2>1, <2>4 DEF o
<1>6. from + 5 <= n => F[from + 5] = IF from + 6 <= n THEN from + 6 ELSE -1
  <2> SUFFICES ASSUME from + 5 <= n PROVE F[from + 5] = IF from + 6 <= n THEN from + 6 ELSE -1
    OBVIOUS
  <2> DEFINE o == from + 5
  <2>1. o \in 0..n /\ o + 1 = from + 6
    BY DEF n
  <2>2. F[o] = SkipStep(F, cells, o)
    BY <1>1, <2>1 DEF n
  <2> HIDE DEF o
  <2>3. o + 1 <= n => cells[o + 1].n = 0
    BY <1>3, <2>1
  <2>4. F[o] = IF o + 1 <= n THEN o + 1 ELSE -1
    BY <2>1, <2>2, <2>3 DEF SkipStep, n
  <2> QED BY <2>1, <2>4 DEF o
<1>7. n \in Nat /\ from \in Nat
  BY DEF n
<1>8. F[from] = IF from + 6 <= n THEN from + 6 ELSE -1
  BY <1>4, <1>5, <1>6, <1>7
<1> QED BY <1>1, <1>8 DEF n

(* One step of gifAlpha, and where it goes on, or -1. *)
After(cells, from) == IF from > Len(cells) THEN -1 ELSE SkipSubBlocks(cells, from)
GifStep(F, cells, o) ==
  LET sub(from) ==
        LET next == IF from > Len(cells) THEN -1 ELSE SkipSubBlocks(cells, from)
        IN  IF next < 0 THEN "unknown" ELSE F[next]
  IN  IF o = Len(cells) THEN "unknown"
      ELSE CASE cells[o + 1].tag = "trailer" -> "no"
             [] cells[o + 1].tag = "extension" /\ o + 2 <= Len(cells) ->
                  IF cells[o + 2].tag # "control" THEN sub(o + 2)
                  ELSE IF o + 3 > Len(cells) THEN "unknown"
                  ELSE IF cells[o + 3].tag = "clear" THEN "yes"
                  ELSE IF cells[o + 3].tag = "opaque" THEN F[o + 3]
                  ELSE "unknown"
             [] cells[o + 1].tag = "image" -> sub(o + 2)
             [] cells[o + 1].tag = "tabled" -> sub(o + 3)
             [] OTHER -> "unknown"
GifNext(cells, o) ==
  IF o = Len(cells) THEN -1
  ELSE CASE cells[o + 1].tag = "extension" /\ o + 2 <= Len(cells) ->
              IF cells[o + 2].tag # "control" THEN After(cells, o + 2)
              ELSE IF o + 3 <= Len(cells) /\ cells[o + 3].tag = "opaque" THEN o + 3 ELSE -1
         [] cells[o + 1].tag = "image" -> After(cells, o + 2)
         [] cells[o + 1].tag = "tabled" -> After(cells, o + 3)
         [] OTHER -> -1
GifWalk(F, cells) == F = [o \in 0..Len(cells) |-> GifStep(F, cells, o)]

(* A step says something, or goes on. *)
LEMMA GifStepGoesOn ==
  ASSUME NEW cells, Len(cells) \in Nat, \A i \in 1..Len(cells) : cells[i].n \in Nat, NEW o \in 0..Len(cells)
  PROVE  /\ GifNext(cells, o) = -1 \/ GifNext(cells, o) \in (o + 1)..Len(cells)
         /\ \A F, G : GifStep(F, cells, o) = IF GifNext(cells, o) >= 0 THEN F[GifNext(cells, o)] ELSE GifStep(G, cells, o)
<1> DEFINE n == Len(cells)
           tag == cells[o + 1].tag
<1>1. \A from \in Nat : After(cells, from) = -1 \/ After(cells, from) \in (from + 1)..n
  BY SubBlocksGoOn DEF After
<1>2. o + 2 \in Nat /\ o + 3 \in Nat
  OBVIOUS
<1>3. CASE o = n
  BY <1>3 DEF GifNext, GifStep
<1>4. CASE o # n /\ tag = "extension" /\ o + 2 <= n
  <2>1. GifNext(cells, o) = IF cells[o + 2].tag # "control" THEN After(cells, o + 2)
              ELSE IF o + 3 <= n /\ cells[o + 3].tag = "opaque" THEN o + 3 ELSE -1
    BY <1>4 DEF GifNext
  <2>2. \A F : GifStep(F, cells, o) =
                  IF cells[o + 2].tag # "control"
                  THEN IF After(cells, o + 2) < 0 THEN "unknown" ELSE F[After(cells, o + 2)]
                  ELSE IF o + 3 > n THEN "unknown"
                  ELSE IF cells[o + 3].tag = "clear" THEN "yes"
                  ELSE IF cells[o + 3].tag = "opaque" THEN F[o + 3]
                  ELSE "unknown"
    BY <1>4 DEF GifStep, After
  <2>3. After(cells, o + 2) = -1 \/ After(cells, o + 2) \in (o + 2 + 1)..n
    BY <1>1, <1>2
  <2> QED BY <2>1, <2>2, <2>3
<1>5. CASE o # n /\ tag = "image"
  <2>1. GifNext(cells, o) = After(cells, o + 2)
    BY <1>5 DEF GifNext
  <2>2. \A F : GifStep(F, cells, o) = IF After(cells, o + 2) < 0 THEN "unknown" ELSE F[After(cells, o + 2)]
    BY <1>5 DEF GifStep, After
  <2>3. After(cells, o + 2) = -1 \/ After(cells, o + 2) \in (o + 2 + 1)..n
    BY <1>1, <1>2
  <2> QED BY <2>1, <2>2, <2>3
<1>6. CASE o # n /\ tag = "tabled"
  <2>1. GifNext(cells, o) = After(cells, o + 3)
    BY <1>6 DEF GifNext
  <2>2. \A F : GifStep(F, cells, o) = IF After(cells, o + 3) < 0 THEN "unknown" ELSE F[After(cells, o + 3)]
    BY <1>6 DEF GifStep, After
  <2>3. After(cells, o + 3) = -1 \/ After(cells, o + 3) \in (o + 3 + 1)..n
    BY <1>1, <1>2
  <2> QED BY <2>1, <2>2, <2>3
<1>7. CASE /\ o # n /\ ~(tag = "extension" /\ o + 2 <= n) /\ tag # "image" /\ tag # "tabled"
  <2>1. GifNext(cells, o) = -1
    BY <1>7 DEF GifNext
  <2>2. \A F, G : GifStep(F, cells, o) = GifStep(G, cells, o)
    BY <1>7 DEF GifStep
  <2> QED BY <2>1, <2>2
<1> QED BY <1>3, <1>4, <1>5, <1>6, <1>7

(* The walk over a GIF image ends: what it says follows step by step. *)
LEMMA GifWalkEnds ==
  ASSUME NEW cells, Len(cells) \in Nat, \A i \in 1..Len(cells) : cells[i].n \in Nat
  PROVE  \E F : /\ \A o \in 0..Len(cells) : F[o] = GifStep(F, cells, o)
                /\ GifAlpha(cells) = F[0]
<1> DEFINE n == Len(cells)
           next == [o \in 0..n |-> GifNext(cells, o)]
           goesOn == {o \in 0..n : next[o] >= 0}
           answer == [o \in 0..n |-> GifStep([x \in 0..n |-> x], cells, o)]
<1>1. \A o \in 0..n : next[o] = GifNext(cells, o) /\ answer[o] = GifStep([x \in 0..n |-> x], cells, o)
  OBVIOUS
<1>2. goesOn \in SUBSET (0..n) /\ \A o \in 0..n : o \in goesOn <=> next[o] >= 0
  OBVIOUS
<1> HIDE DEF next, goesOn, answer
<1>g. ASSUME NEW o \in 0..n
      PROVE  /\ next[o] = -1 \/ next[o] \in (o + 1)..n
             /\ \A F : GifStep(F, cells, o) = IF next[o] >= 0 THEN F[next[o]] ELSE answer[o]
  <2>1. /\ GifNext(cells, o) = -1 \/ GifNext(cells, o) \in (o + 1)..n
        /\ \A F, G : GifStep(F, cells, o) = IF GifNext(cells, o) >= 0 THEN F[GifNext(cells, o)] ELSE GifStep(G, cells, o)
    BY GifStepGoesOn
  <2> QED BY <1>1, <2>1
<1>3. \A o \in goesOn : next[o] \in 0..n /\ next[o] > o
  <2>1. ASSUME NEW o \in goesOn PROVE next[o] \in 0..n /\ next[o] > o
    <3>1. o \in 0..n /\ next[o] >= 0
      BY <1>2
    <3>2. next[o] = -1 \/ next[o] \in (o + 1)..n
      BY <1>g, <3>1
    <3> QED BY <3>1, <3>2
  <2> QED BY <2>1
<1>4. ASSUME NEW F, NEW o \in 0..n
      PROVE  GifStep(F, cells, o) = IF o \in goesOn THEN F[next[o]] ELSE answer[o]
  BY <1>2, <1>g
<1>6. PICK F : Walks(F, n, goesOn, next, answer)
  BY <1>2, <1>3, WalkEnds
<1>7. F = [o \in 0..n |-> IF o \in goesOn THEN F[next[o]] ELSE answer[o]]
  BY <1>6 DEF Walks
<1>8. [o \in 0..n |-> IF o \in goesOn THEN F[next[o]] ELSE answer[o]] = [o \in 0..n |-> GifStep(F, cells, o)]
  BY <1>4
<1>9. GifWalk(F, cells)
  BY <1>7, <1>8 DEF GifWalk
<1> DEFINE G == CHOOSE G : GifWalk(G, cells)
<1>10. GifWalk(G, cells)
  BY <1>9
<1>11. GifAlpha(cells) = G[0]
  BY DEF GifAlpha, GifWalk, GifStep
<1> HIDE DEF G
<1>12. \A o \in 0..n : G[o] = GifStep(G, cells, o)
  BY <1>10 DEF GifWalk
<1> QED BY <1>11, <1>12

(* A block of a GIF image is a few cells, or a few cells and sub-blocks. *)
GifTags ==
  {"extension", "control", "clear", "opaque", "odd", "comment", "1", "trailer", "2", "0", "image", "codesize",
   "tabled", "other"}
GifCells == [tag : GifTags, n : Nat]
GifSettles == {b \in GifBlocks : b # <<>> /\ b[Len(b)].tag \in {"clear", "odd", "trailer", "other"}}
GifSays == [clear |-> "yes", odd |-> "unknown", trailer |-> "no", other |-> "unknown"]

(* A byte of a GIF image is a cell. *)
LEMMA GifCellShape ==
  ASSUME NEW x \in GifTags
  PROVE  Byte(x) \in GifCells /\ Byte(x).tag = x
BY DEF GifCells, Byte, Cell

(* What a step of gifAlpha says, by what it finds. *)
GoesOn(F, cells, from) == IF After(cells, from) < 0 THEN "unknown" ELSE F[After(cells, from)]

(* The steps of gifAlpha, one by one. *)
LEMMA GifStepCases ==
  ASSUME NEW F, NEW cells, Len(cells) \in Nat, NEW o \in 0..Len(cells)
  PROVE  LET n == Len(cells)
             said == GifStep(F, cells, o)
             tag(i) == cells[o + i].tag
         IN  /\ o + 1 > n => said = "unknown"
             /\ o + 1 <= n =>
                  /\ tag(1) = "trailer" => said = "no"
                  /\ tag(1) = "other" => said = "unknown"
                  /\ tag(1) = "extension" /\ o + 2 > n => said = "unknown"
                  /\ tag(1) = "extension" /\ o + 2 <= n =>
                       /\ tag(2) # "control" => said = GoesOn(F, cells, o + 2)
                       /\ tag(2) = "control" =>
                            said = IF o + 3 > n THEN "unknown" ELSE IF tag(3) = "clear" THEN "yes"
                                   ELSE IF tag(3) = "opaque" THEN F[o + 3] ELSE "unknown"
                  /\ tag(1) = "image" => said = GoesOn(F, cells, o + 2)
                  /\ tag(1) = "tabled" => said = GoesOn(F, cells, o + 3)
<1> DEFINE n == Len(cells)
           said == GifStep(F, cells, o)
           tag(i) == cells[o + i].tag
<1>0. o + 1 > n => o = n
  OBVIOUS
<1>1. o = n => said = "unknown"
  BY DEF GifStep
<1>2. o + 1 <= n /\ tag(1) = "trailer" => said = "no"
  BY DEF GifStep
<1>3. o + 1 <= n /\ tag(1) = "other" => said = "unknown"
  BY DEF GifStep
<1>4. o + 1 <= n /\ tag(1) = "extension" /\ o + 2 > n => said = "unknown"
  BY DEF GifStep
<1>5. o + 1 <= n /\ tag(1) = "extension" /\ o + 2 <= n /\ tag(2) # "control" => said = GoesOn(F, cells, o + 2)
  BY DEF GifStep, GoesOn, After
<1>6. o + 1 <= n /\ tag(1) = "extension" /\ o + 2 <= n /\ tag(2) = "control" =>
        said = IF o + 3 > n THEN "unknown" ELSE IF tag(3) = "clear" THEN "yes"
               ELSE IF tag(3) = "opaque" THEN F[o + 3] ELSE "unknown"
  BY DEF GifStep
<1>7. o + 1 <= n /\ tag(1) = "image" => said = GoesOn(F, cells, o + 2)
  BY DEF GifStep, GoesOn, After
<1>8. o + 1 <= n /\ tag(1) = "tabled" => said = GoesOn(F, cells, o + 3)
  BY SMTT(60) DEF GifStep, GoesOn, After
<1> HIDE DEF said
<1> QED BY <1>0, <1>1, <1>2, <1>3, <1>4, <1>5, <1>6, <1>7, <1>8 DEF said

(* The sub-blocks of an image end with an empty one. *)
LEMMA SubBlocksShape ==
  /\ SubBlocks \in Seq(GifCells) /\ Len(SubBlocks) = 6 /\ SubBlocks[6].tag = "0"
BY DEF SubBlocks, GifCells, GifTags, Cell, Byte

(* What a block has before its sub-blocks stays where it is. *)
LEMMA BeforeSubBlocks ==
  ASSUME NEW a \in Seq(GifCells)
  PROVE  /\ a \o SubBlocks \in Seq(GifCells) /\ Len(a \o SubBlocks) = Len(a) + 6 /\ Len(a) \in Nat
         /\ \A i \in 1..Len(a) : (a \o SubBlocks)[i] = a[i]
         /\ \A i \in 1..6 : (a \o SubBlocks)[Len(a) + i] = SubBlocks[i]
<1>1. Len(a) \in Nat
  BY LenProperties
<1>2. /\ a \o SubBlocks \in Seq(GifCells) /\ Len(a \o SubBlocks) = Len(a) + Len(SubBlocks)
      /\ \A i \in 1..(Len(a) + Len(SubBlocks)) :
            (a \o SubBlocks)[i] = IF i <= Len(a) THEN a[i] ELSE SubBlocks[i - Len(a)]
  BY SubBlocksShape, ConcatProperties
<1>3. ASSUME NEW i \in 1..6 PROVE (a \o SubBlocks)[Len(a) + i] = SubBlocks[i]
  <2> DEFINE j == Len(a) + i
  <2>1. j \in 1..(Len(a) + Len(SubBlocks)) /\ ~(j <= Len(a)) /\ j - Len(a) = i
    BY <1>1, SubBlocksShape
  <2> HIDE DEF j
  <2>2. (a \o SubBlocks)[j] = SubBlocks[i]
    BY <1>2, <2>1
  <2> QED BY <2>2 DEF j
<1> QED BY <1>1, <1>2, <1>3, SubBlocksShape

Shown(read, o, b) == \A i \in 1..Len(b) : o + i <= Len(read) => read[o + i] = b[i]

(* What a step says of a block, or that it goes on behind it. *)
LEMMA GifBlockRead ==
  ASSUME NEW read, Len(read) \in Nat, \A i \in 1..Len(read) : read[i].n \in Nat,
         NEW F, NEW o \in 0..Len(read), F[o] = GifStep(F, read, o),
         NEW b \in GifBlocks \ {<<>>}, Shown(read, o, b)
  PROVE  /\ b \in Seq(GifCells)
         /\ F[o] = IF o + Len(b) > Len(read) THEN "unknown"
                   ELSE IF b \in GifSettles THEN GifSays[b[Len(b)].tag] ELSE F[o + Len(b)]
<1> DEFINE w == Len(read)
           e == Byte("extension")
           c == Byte("control")
           right == F[o] = IF o + Len(b) > w THEN "unknown"
                           ELSE IF b \in GifSettles THEN GifSays[b[Len(b)].tag] ELSE F[o + Len(b)]
<1>s. b \in GifSettles <=> b[Len(b)].tag \in {"clear", "odd", "trailer", "other"}
  BY DEF GifSettles
<1>b. \A i \in 1..Len(b) : o + i <= w => read[o + i] = b[i]
  BY DEF Shown
<1>c. /\ o + 1 > w => F[o] = "unknown"
      /\ o + 1 <= w =>
           /\ read[o + 1].tag = "trailer" => F[o] = "no"
           /\ read[o + 1].tag = "other" => F[o] = "unknown"
           /\ read[o + 1].tag = "extension" /\ o + 2 > w => F[o] = "unknown"
           /\ read[o + 1].tag = "extension" /\ o + 2 <= w =>
                /\ read[o + 2].tag # "control" => F[o] = GoesOn(F, read, o + 2)
                /\ read[o + 2].tag = "control" =>
                     F[o] = IF o + 3 > w THEN "unknown" ELSE IF read[o + 3].tag = "clear" THEN "yes"
                            ELSE IF read[o + 3].tag = "opaque" THEN F[o + 3] ELSE "unknown"
           /\ read[o + 1].tag = "image" => F[o] = GoesOn(F, read, o + 2)
           /\ read[o + 1].tag = "tabled" => F[o] = GoesOn(F, read, o + 3)
  BY GifStepCases
<1>d. o \in Nat /\ w \in Nat /\ o <= w
  OBVIOUS
<1>1. ASSUME NEW x \in {"clear", "opaque", "odd"}, b = <<e, c, Byte(x)>>
      PROVE  b \in Seq(GifCells) /\ right
  <2>1. b \in Seq(GifCells) /\ Len(b) = 3 /\ b[1].tag = "extension" /\ b[2].tag = "control" /\ b[3].tag = x
    <3>1. e \in GifCells /\ c \in GifCells /\ Byte(x) \in GifCells
          /\ e.tag = "extension" /\ c.tag = "control" /\ Byte(x).tag = x
      BY GifCellShape DEF GifTags
    <3> HIDE DEF e, c
    <3> QED BY <1>1, <3>1
  <2>2. /\ o + 1 <= w => read[o + 1].tag = "extension"
        /\ o + 2 <= w => read[o + 2].tag = "control"
        /\ o + 3 <= w => read[o + 3].tag = x
    BY <1>b, <2>1
  <2>3. CASE o + 3 > w
    <3>1. F[o] = "unknown"
      BY <2>2, <2>3, <1>c, <1>d
    <3> QED BY <2>1, <2>3, <3>1
  <2>4. CASE o + 3 <= w
    <3>2. F[o] = IF x = "clear" THEN "yes" ELSE IF x = "opaque" THEN F[o + 3] ELSE "unknown"
      <4>1. o + 1 <= w /\ o + 2 <= w /\ ~(o + 3 > w)
        BY <2>4
      <4> QED BY <2>2, <2>4, <4>1, <1>c, <1>d
    <3>3. b \in GifSettles <=> x # "opaque"
      BY <1>s, <2>1
    <3>4. x # "opaque" => GifSays[x] = IF x = "clear" THEN "yes" ELSE "unknown"
      BY DEF GifSays
    <3> QED BY <2>1, <2>4, <3>2, <3>3, <3>4
  <2> QED BY <2>1, <2>3, <2>4
<1>2. ASSUME NEW x \in {"trailer", "other"}, b = <<Byte(x)>>
      PROVE  b \in Seq(GifCells) /\ right
  <2>1. b \in Seq(GifCells) /\ Len(b) = 1 /\ b[1].tag = x
    <3>1. Byte(x) \in GifCells /\ Byte(x).tag = x
      BY GifCellShape DEF GifTags
    <3> QED BY <1>2, <3>1
  <2>2. o + 1 <= w => read[o + 1].tag = x
    BY <1>b, <2>1
  <2>3. CASE o + 1 > w
    <3>1. F[o] = "unknown"
      BY <2>3, <1>c, <1>d
    <3> QED BY <2>1, <2>3, <3>1
  <2>4. CASE o + 1 <= w
    <3>2. F[o] = IF x = "trailer" THEN "no" ELSE "unknown"
      BY <2>2, <2>4, <1>c, <1>d
    <3>3. b \in GifSettles
      BY <1>s, <2>1
    <3>4. GifSays[x] = IF x = "trailer" THEN "no" ELSE "unknown"
      BY DEF GifSays
    <3> QED BY <2>1, <2>4, <3>2, <3>3, <3>4
  <2> QED BY <2>1, <2>3, <2>4
<1>3. ASSUME NEW a \in Seq(GifCells), b = a \o SubBlocks, Len(a) \in {2, 3},
             o + Len(a) <= w => F[o] = GoesOn(F, read, o + Len(a)),
             o + Len(a) > w => F[o] = "unknown"
      PROVE  b \in Seq(GifCells) /\ right
  <2> DEFINE from == o + Len(a)
  <2>1. /\ b \in Seq(GifCells) /\ Len(b) = Len(a) + 6
        /\ \A i \in 1..6 : b[Len(a) + i] = SubBlocks[i]
    BY <1>3, BeforeSubBlocks
  <2>2. b \notin GifSettles
    <3>1. b[Len(b)] = SubBlocks[6]
      BY <2>1
    <3> QED BY <1>s, <3>1, SubBlocksShape
  <2>3. from \in Nat /\ from + 6 = o + Len(b)
    BY <1>3, <2>1
  <2>4. CASE from > w
    BY <1>3, <2>1, <2>3, <2>4
  <2>5. CASE from <= w
    <3>1. \A i \in 1..6 : from + i <= w => read[from + i] = SubBlocks[i]
      <4> SUFFICES ASSUME NEW i \in 1..6, from + i <= w PROVE read[from + i] = SubBlocks[i]
        OBVIOUS
      <4> DEFINE j == Len(a) + i
      <4>0. Len(a) \in Nat /\ o \in Nat /\ Len(b) = Len(a) + 6
        BY <1>3, <1>d, <2>1
      <4>1. j \in 1..Len(b) /\ o + j = from + i
        BY <4>0
      <4> HIDE DEF j
      <4>2. read[o + j] = b[j]
        BY <1>b, <4>1
      <4> QED BY <2>1, <4>1, <4>2 DEF j
    <3>2. from \in 0..w
      BY <2>3, <2>5
    <3> HIDE DEF from
    <3>3. SkipSubBlocks(read, from) = IF from + 6 <= w THEN from + 6 ELSE -1
      BY <3>1, <3>2, SubBlocksSkipped
    <3>4. After(read, from) = IF from + 6 <= w THEN from + 6 ELSE -1
      BY <2>5, <3>2, <3>3 DEF After
    <3>5. F[o] = IF from + 6 <= w THEN F[from + 6] ELSE "unknown"
      BY <1>3, <2>5, <3>2, <3>4 DEF from, GoesOn
    <3> QED BY <2>1, <2>2, <2>3, <3>2, <3>5
  <2> QED BY <2>1, <2>3, <2>4, <2>5
<1>4. ASSUME b = <<e, Byte("comment")>> \o SubBlocks PROVE b \in Seq(GifCells) /\ right
  <2> DEFINE a == <<e, Byte("comment")>>
  <2>1. a \in Seq(GifCells) /\ Len(a) = 2 /\ a[1].tag = "extension" /\ a[2].tag # "control"
    <3>1. e \in GifCells /\ Byte("comment") \in GifCells /\ e.tag = "extension" /\ Byte("comment").tag = "comment"
      BY GifCellShape DEF GifTags
    <3> HIDE DEF e
    <3> QED BY <3>1
  <2> HIDE DEF a
  <2>2. /\ o + 1 <= w => read[o + 1].tag = "extension"
        /\ o + 2 <= w => read[o + 2].tag # "control"
    <3>0. b = a \o SubBlocks
      BY <1>4 DEF a
    <3>a. Len(b) = Len(a) + 6 /\ \A i \in 1..Len(a) : b[i] = a[i]
      BY <2>1, <3>0, BeforeSubBlocks
    <3>1. b[1] = a[1] /\ b[2] = a[2] /\ Len(b) = 8
      BY <2>1, <3>a
    <3> QED BY <1>b, <2>1, <3>1
  <2>3. o + 2 <= w => F[o] = GoesOn(F, read, o + 2)
    BY <2>2, <1>c, <1>d
  <2>4. o + 2 > w => F[o] = "unknown"
    BY <2>2, <1>c, <1>d
  <2> QED BY <1>3, <1>4, <2>1, <2>3, <2>4 DEF a
<1>5. ASSUME b = <<Byte("image"), Byte("codesize")>> \o SubBlocks PROVE b \in Seq(GifCells) /\ right
  <2> DEFINE a == <<Byte("image"), Byte("codesize")>>
  <2>1. a \in Seq(GifCells) /\ Len(a) = 2 /\ a[1].tag = "image"
    <3>1. Byte("image") \in GifCells /\ Byte("codesize") \in GifCells /\ Byte("image").tag = "image"
      BY GifCellShape DEF GifTags
    <3> QED BY <3>1
  <2> HIDE DEF a
  <2>2. o + 1 <= w => read[o + 1].tag = "image"
    <3>0. b = a \o SubBlocks
      BY <1>5 DEF a
    <3>a. Len(b) = Len(a) + 6 /\ \A i \in 1..Len(a) : b[i] = a[i]
      BY <2>1, <3>0, BeforeSubBlocks
    <3>1. b[1] = a[1] /\ Len(b) = 8
      BY <2>1, <3>a
    <3> QED BY <1>b, <2>1, <3>1
  <2>3. o + 2 <= w => F[o] = GoesOn(F, read, o + 2)
    BY <2>2, <1>c, <1>d
  <2>4. o + 2 > w => F[o] = "unknown"
    <3>1. o + 2 > w => GoesOn(F, read, o + 2) = "unknown"
      BY <1>d DEF After, GoesOn
    <3> QED BY <2>2, <3>1, <1>c, <1>d
  <2> QED BY <1>3, <1>5, <2>1, <2>3, <2>4 DEF a
<1>6. ASSUME b = <<Byte("tabled"), Byte("trailer"), Byte("codesize")>> \o SubBlocks
      PROVE  b \in Seq(GifCells) /\ right
  <2> DEFINE a == <<Byte("tabled"), Byte("trailer"), Byte("codesize")>>
  <2>1. a \in Seq(GifCells) /\ Len(a) = 3 /\ a[1].tag = "tabled"
    <3>1. Byte("tabled") \in GifCells /\ Byte("trailer") \in GifCells /\ Byte("codesize") \in GifCells
          /\ Byte("tabled").tag = "tabled"
      BY GifCellShape DEF GifTags
    <3> QED BY <3>1
  <2> HIDE DEF a
  <2>2. o + 1 <= w => read[o + 1].tag = "tabled"
    <3>0. b = a \o SubBlocks
      BY <1>6 DEF a
    <3>a. Len(b) = Len(a) + 6 /\ \A i \in 1..Len(a) : b[i] = a[i]
      BY <2>1, <3>0, BeforeSubBlocks
    <3>1. b[1] = a[1] /\ Len(b) = 9
      BY <2>1, <3>a
    <3> QED BY <1>b, <2>1, <3>1
  <2>3. o + 3 <= w => F[o] = GoesOn(F, read, o + 3)
    BY <2>2, <1>c, <1>d
  <2>4. o + 3 > w => F[o] = "unknown"
    <3>1. o + 3 > w => GoesOn(F, read, o + 3) = "unknown"
      BY <1>d DEF After, GoesOn
    <3> QED BY <2>2, <3>1, <1>c, <1>d
  <2> QED BY <1>3, <1>6, <2>1, <2>3, <2>4 DEF a
<1> HIDE DEF right
<1>7. b \in Seq(GifCells) /\ right
  BY <1>1, <1>2, <1>4, <1>5, <1>6 DEF GifBlocks
<1> QED BY <1>7 DEF right

(* What is said of a GIF image: the first block that settles it decides, or *)
(* nothing is said because the window ends before it. gifAlpha.             *)
LEMMA GifRight ==
  ASSUME NEW image \in Images, image.kind = "gif"
  PROVE  ImageIsHonest(image, InspectImage(image))
<1> DEFINE blocks == image.blocks
           n == Len(blocks)
           cut == image.cut
           cells == Cells(blocks)
           read == Windowed(cells, cut)
           said == [k \in 1..n |-> GifSays[blocks[k][Len(blocks[k])].tag]]
<1>1. blocks \in Seq(GifBlocks \ {<<>>}) /\ cut \in Nat
  BY ImageAssumption, BoundedSeqs DEF Images, Lists
<1>a. ASSUME NEW b \in GifBlocks \ {<<>>} PROVE b \in Seq(GifCells)
  <2>1. \A x \in GifTags : Byte(x) \in GifCells
    BY GifCellShape
  <2>2. /\ <<Byte("extension"), Byte("control"), Byte("clear")>> \in Seq(GifCells)
        /\ <<Byte("extension"), Byte("control"), Byte("opaque")>> \in Seq(GifCells)
        /\ <<Byte("extension"), Byte("control"), Byte("odd")>> \in Seq(GifCells)
        /\ <<Byte("trailer")>> \in Seq(GifCells) /\ <<Byte("other")>> \in Seq(GifCells)
    BY <2>1 DEF GifTags
  <2>3. ASSUME NEW a \in Seq(GifCells), b = a \o SubBlocks PROVE b \in Seq(GifCells)
    BY <2>3, BeforeSubBlocks
  <2>4. /\ <<Byte("extension"), Byte("comment")>> \in Seq(GifCells)
        /\ <<Byte("image"), Byte("codesize")>> \in Seq(GifCells)
        /\ <<Byte("tabled"), Byte("trailer"), Byte("codesize")>> \in Seq(GifCells)
    BY <2>1 DEF GifTags
  <2> QED BY <2>2, <2>3, <2>4 DEF GifBlocks
<1>2. blocks \in Seq(Seq(GifCells))
  <2>1. GifBlocks \ {<<>>} \subseteq Seq(GifCells)
    BY <1>a
  <2> QED BY <1>1, <2>1, SeqMonotonic
<1>t. /\ Truth(image) = IF Settled(blocks, GifSettles) = {} THEN "unknown"
                        ELSE LET b == blocks[Min(Settled(blocks, GifSettles))] IN GifSays[b[Len(b)].tag]
      /\ InspectImage(image) = GifAlpha(read)
  BY DEF Truth, GifTruth, First, GifSettles, GifSays, Settled, InspectImage, ImageCells
<1>h. ImageIsHonest(image, InspectImage(image)) <=>
        /\ InspectImage(image) \in {"unknown", "invalid", Truth(image)}
        /\ cut = 0 => InspectImage(image) = Truth(image)
  BY DEF ImageIsHonest
<1> HIDE DEF blocks, cut
<1>3. Truth(image) = IF Settled(blocks, GifSettles) = {} THEN "unknown" ELSE said[Min(Settled(blocks, GifSettles))]
  <2>1. n \in Nat /\ Settled(blocks, GifSettles) \in SUBSET (1..n)
    BY <1>1, LenProperties DEF Settled
  <2>2. Settled(blocks, GifSettles) # {} => Min(Settled(blocks, GifSettles)) \in 1..n
    BY <2>1, LeastBelongs
  <2> QED BY <1>t, <2>2
<1> HIDE DEF n
<1>4. /\ cells \in Seq(GifCells) /\ Len(cells) \in Nat /\ read \in Seq(GifCells) /\ Len(read) \in Nat
      /\ Len(read) <= Len(cells) /\ (cut = 0 => read = cells)
  BY <1>1, <1>2, WindowOfBlocks
<1>5. \A i \in 1..Len(read) : read[i].n \in Nat
  <2>1. \A i \in 1..Len(read) : read[i] \in GifCells
    BY <1>4, ElementOfSeq
  <2> QED BY <2>1 DEF GifCells
<1>6. PICK F : /\ \A o \in 0..Len(read) : F[o] = GifStep(F, read, o)
               /\ GifAlpha(read) = F[0]
  BY <1>4, <1>5, GifWalkEnds
<1>7. ASSUME NEW k \in 1..n
      PROVE  /\ Begins(blocks, k) \in Nat /\ blocks[k] \in GifBlocks \ {<<>>}
             /\ Begins(blocks, k + 1) = Begins(blocks, k) + Len(blocks[k])
             /\ \A i \in 1..Len(blocks[k]) : Begins(blocks, k) + i <= Len(read) => read[Begins(blocks, k) + i] = blocks[k][i]
  <2>1. /\ Begins(blocks, k) \in Nat /\ Begins(blocks, k + 1) = Begins(blocks, k) + Len(blocks[k])
        /\ \A i \in 1..Len(blocks[k]) : Begins(blocks, k) + i <= Len(read) => read[Begins(blocks, k) + i] = blocks[k][i]
    BY <1>1, <1>2, BlocksSeen DEF n
  <2>2. blocks[k] \in GifBlocks \ {<<>>}
    BY <1>1, ElementOfSeq DEF n
  <2> QED BY <2>1, <2>2
<1> HIDE DEF read
<1>8. Len(read) = Len(cells) => F[Len(read)] = "unknown"
  BY <1>4, <1>6 DEF GifStep
<1>9. ASSUME NEW k \in 1..n, Begins(blocks, k) <= Len(read)
      PROVE  F[Begins(blocks, k)] =
               IF Begins(blocks, k + 1) > Len(read) THEN "unknown"
               ELSE IF blocks[k] \in GifSettles THEN said[k] ELSE F[Begins(blocks, k + 1)]
  <2> DEFINE o == Begins(blocks, k)
             b == blocks[k]
  <2>1. o \in 0..Len(read) /\ b \in GifBlocks \ {<<>>} /\ Shown(read, o, b)
    BY <1>4, <1>7, <1>9 DEF Shown
  <2>2. Begins(blocks, k + 1) = o + Len(b) /\ said[k] = GifSays[b[Len(b)].tag]
    BY <1>7
  <2>3. F[o] = GifStep(F, read, o)
    BY <1>6, <2>1
  <2> HIDE DEF o, b, said
  <2>4. F[o] = IF o + Len(b) > Len(read) THEN "unknown"
               ELSE IF b \in GifSettles THEN GifSays[b[Len(b)].tag] ELSE F[o + Len(b)]
    BY <1>4, <1>5, <2>1, <2>3, GifBlockRead
  <2> QED BY <2>2, <2>4 DEF o, b
<1>10. F[0] \in {"unknown", Truth(image)} /\ (Len(read) = Len(Cells(blocks)) => F[0] = Truth(image))
  <2>1. /\ Len(read) \in Nat /\ Len(read) <= Len(Cells(blocks))
        /\ Len(read) = Len(Cells(blocks)) => F[Len(read)] = "unknown"
    BY <1>4, <1>8
  <2> HIDE DEF said
  <2>2. WalksOver(blocks, GifSettles, said, "unknown", F, Len(read))
    BY <1>9 DEF n, WalksOver
  <2>3. Truth(image) = FirstSettled(blocks, GifSettles, said, "unknown")
    BY <1>3 DEF FirstSettled
  <2> QED BY ONLY <1>2, <2>1, <2>2, <2>3, FirstBlockDecides
<1> QED BY <1>4, <1>6, <1>10, <1>t, <1>h

-----------------------------------------------------------------------------
(* A set of positions that is not empty has a greatest one. *)
LEMMA GreatestBelongs ==
  ASSUME NEW n \in Nat, NEW T \in SUBSET (1..n), T # {}
  PROVE  Max(T) \in T
<1> DEFINE N == {m \in Nat : \A i \in T : i >= n - m => \E k \in T : \A j \in T : k >= j}
<1>1. 0 \in N
  <2>1. \A i \in T : i >= n - 0 => \A j \in T : i >= j
    OBVIOUS
  <2> QED BY <2>1
<1>2. ASSUME NEW m \in Nat, m \in N PROVE m + 1 \in N
  <2>1. CASE \E i \in T : i >= n - m
    BY <1>2, <2>1
  <2>2. CASE \A i \in T : ~(i >= n - m)
    <3>1. \A i \in T : i >= n - (m + 1) => \A j \in T : i >= j
      BY <2>2
    <3> QED BY <3>1
  <2> QED BY <2>1, <2>2
<1> HIDE DEF N
<1>3. Nat \subseteq N
  BY <1>1, <1>2, NatSetInduction
<1>4. \E k \in T : \A j \in T : k >= j
  <2>1. n \in N /\ \A i \in T : i >= n - n
    BY <1>3
  <2> QED BY <2>1 DEF N
<1> QED BY <1>4 DEF Max

(* Empty blocks take no place. *)
LEMMA EmptyBlocks ==
  ASSUME NEW S, NEW seqs \in Seq(Seq(S)), NEW i \in 1..(Len(seqs) + 1), NEW j \in i..(Len(seqs) + 1),
         \A k \in i..(j - 1) : Len(seqs[k]) = 0
  PROVE  Begins(seqs, j) = Begins(seqs, i)
<1> DEFINE N == {d \in Nat : i + d <= j => Begins(seqs, i + d) = Begins(seqs, i)}
<1>1. Len(seqs) \in Nat
  BY LenProperties
<1>2. 0 \in N
  <2>1. i + 0 = i
    BY <1>1
  <2> QED BY <2>1
<1>3. ASSUME NEW d \in Nat, d \in N PROVE d + 1 \in N
  <2> SUFFICES ASSUME i + (d + 1) <= j PROVE Begins(seqs, i + (d + 1)) = Begins(seqs, i)
    OBVIOUS
  <2> DEFINE k == i + d
  <2>1. k \in 1..Len(seqs) /\ k \in i..(j - 1) /\ i + (d + 1) = k + 1
    BY <1>1
  <2>2. Begins(seqs, k) = Begins(seqs, i)
    BY <1>1, <1>3
  <2> HIDE DEF k
  <2>3. Begins(seqs, k + 1) = Begins(seqs, k) + Len(seqs[k])
    BY <2>1, BlockPlaced
  <2>4. Len(seqs[k]) = 0 /\ Begins(seqs, k) \in Nat
    <3>1. k \in 1..(Len(seqs) + 1)
      BY <1>1, <2>1
    <3> QED BY <2>1, <3>1, BlockBegins
  <2> QED BY <2>1, <2>2, <2>3, <2>4
<1> HIDE DEF N
<1>4. Nat \subseteq N
  BY <1>2, <1>3, NatSetInduction
<1>5. j - i \in N /\ i + (j - i) = j
  BY <1>1, <1>4
<1> QED BY <1>1, <1>5 DEF N

(* Where blocks come in pairs, the whole is a pair when one of them is.     *)
LEMMA WholeOfPairs ==
  ASSUME NEW S, NEW seqs \in Seq(Seq(S)), \A k \in 1..Len(seqs) : Len(seqs[k]) \in {0, 2}
  PROVE  /\ FlattenSeq(seqs) \in Seq(S)
         /\ Len(FlattenSeq(seqs)) = 2 => \E k \in 1..Len(seqs) : Len(seqs[k]) = 2 /\ FlattenSeq(seqs) = seqs[k]
         /\ \A k \in 1..Len(seqs) :
              Len(seqs[k]) = 2 /\ (\A j \in 1..Len(seqs) : j # k => Len(seqs[j]) = 0) =>
                FlattenSeq(seqs) = seqs[k] /\ Len(FlattenSeq(seqs)) = 2
<1> DEFINE n == Len(seqs)
           whole == FlattenSeq(seqs)
<1>1. /\ n \in Nat /\ whole \in Seq(S) /\ Begins(seqs, 1) = 0 /\ Begins(seqs, n + 1) = Len(whole)
      /\ \A k \in 1..(n + 1) : Begins(seqs, k) \in Nat /\ Begins(seqs, k) <= Len(whole)
  BY BlockBegins, LenProperties
<1>2. ASSUME NEW k \in 1..n, Len(seqs[k]) = 2, Len(whole) = 2 PROVE whole = seqs[k]
  <2>1. /\ seqs[k] \in Seq(S) /\ Begins(seqs, k + 1) = Begins(seqs, k) + Len(seqs[k])
        /\ \A i \in 1..Len(seqs[k]) : whole[Begins(seqs, k) + i] = seqs[k][i]
    BY BlockPlaced
  <2>2. k \in 1..(n + 1) /\ k + 1 \in 1..(n + 1)
    BY <1>1
  <2>3. Begins(seqs, k) = 0
    <3>1. Begins(seqs, k + 1) <= 2 /\ Begins(seqs, k) \in Nat
      BY <1>1, <1>2, <2>2
    <3>2. Begins(seqs, k + 1) = Begins(seqs, k) + 2
      BY <1>2, <2>1
    <3> QED BY <3>1, <3>2
  <2> HIDE DEF whole
  <2>4. \A i \in 1..2 : whole[i] = seqs[k][i]
    BY <1>2, <2>1, <2>3
  <2> QED BY <1>1, <1>2, <2>1, <2>4, SeqEqual
<1>3. ASSUME Len(whole) = 2 PROVE \E k \in 1..n : Len(seqs[k]) = 2
  <2> SUFFICES ASSUME \A k \in 1..n : Len(seqs[k]) = 0 PROVE FALSE
    OBVIOUS
  <2>1. 1 \in 1..(n + 1) /\ n + 1 \in 1..(n + 1) /\ \A k \in 1..(n + 1 - 1) : Len(seqs[k]) = 0
    BY <1>1
  <2>2. Begins(seqs, n + 1) = Begins(seqs, 1)
    BY <2>1, EmptyBlocks
  <2> QED BY <1>1, <1>3, <2>2
<1>4. ASSUME NEW k \in 1..n, Len(seqs[k]) = 2, \A j \in 1..n : j # k => Len(seqs[j]) = 0 PROVE Len(whole) = 2
  <2>1. /\ k \in 1..(n + 1) /\ 1 \in 1..(n + 1) /\ k + 1 \in 1..(n + 1) /\ n + 1 \in (k + 1)..(n + 1)
        /\ \A j \in 1..(k - 1) : Len(seqs[j]) = 0
        /\ \A j \in (k + 1)..(n + 1 - 1) : Len(seqs[j]) = 0
    BY <1>1, <1>4
  <2>2. Begins(seqs, k) = Begins(seqs, 1)
    BY <2>1, EmptyBlocks
  <2>3. Begins(seqs, n + 1) = Begins(seqs, k + 1)
    <3> DEFINE m == k + 1
    <3>1. m \in 1..(n + 1) /\ n + 1 \in m..(n + 1) /\ \A j \in m..(n + 1 - 1) : Len(seqs[j]) = 0
      BY <2>1
    <3> HIDE DEF m
    <3>2. Begins(seqs, n + 1) = Begins(seqs, m)
      BY <3>1, EmptyBlocks
    <3> QED BY <3>2 DEF m
  <2>4. Begins(seqs, k + 1) = Begins(seqs, k) + Len(seqs[k])
    BY BlockPlaced
  <2> QED BY <1>1, <1>4, <2>2, <2>3, <2>4
<1> QED BY <1>1, <1>2, <1>3, <1>4

(* An absolute value of an attribute is one the attribute was given.        *)
LEMMA ValueIsGiven ==
  ASSUME NEW attributes \in Seq(Attributes), NEW name \in {"width", "height"}
  PROVE  /\ Value(attributes, name) \in Int
         /\ Value(attributes, name) # 0 => \E a \in ToSet(attributes) : a.name = name /\ a.value = Value(attributes, name)
<1> DEFINE set == {i \in DOMAIN attributes : attributes[i].name = name /\ attributes[i].value # Relative}
<1>1. Len(attributes) \in Nat /\ DOMAIN attributes = 1..Len(attributes)
  BY LenProperties
<1>2. Value(attributes, name) = IF set = {} THEN 0 ELSE attributes[Max(set)].value
  BY DEF Value
<1>3. set # {} => Max(set) \in set
  <2>1. set \in SUBSET (1..Len(attributes))
    BY <1>1
  <2> HIDE DEF set
  <2> QED BY <1>1, <2>1, GreatestBelongs
<1>4. \A i \in set : /\ attributes[i] \in Attributes /\ attributes[i] \in ToSet(attributes)
                     /\ attributes[i].name = name
  BY <1>1, ElementOfSeq DEF ToSet
<1> HIDE DEF set
<1>5. ASSUME NEW a \in Attributes, a.name = name PROVE a.value \in Int
  <2>1. a \in [name : {"width", "height"}, value : Lengths]
    BY <1>5 DEF Attributes
  <2>2. Lengths \subseteq Int
    BY ImageAssumption DEF Lengths, Relative
  <2> QED BY <2>1, <2>2
<1> QED BY <1>2, <1>3, <1>4, <1>5

(* The boxes of an SVG image, block by block. *)
BoxBlocks(attributes) ==
  [i \in DOMAIN attributes |->
     IF i \in Boxes(attributes) /\ \A j \in {i2 \in Boxes(attributes) : attributes[i2].value = NoBox} : i > j
     THEN attributes[i].value ELSE NoBox]

(* The view box that is read is one that is given, and the only one if      *)
(* there is one.                                                            *)
LEMMA BoxIsGiven ==
  ASSUME NEW attributes \in Seq(Attributes)
  PROVE  /\ Len(Box(attributes)) = 2 =>
              \E a \in ToSet(attributes) : a.name = "viewBox" /\ a.value # NoBox /\ a.value = Box(attributes)
         /\ Cardinality(Boxes(attributes)) = 1 =>
              \A a \in ToSet(attributes) : a.name = "viewBox" /\ a.value # NoBox =>
                Box(attributes) = a.value /\ Len(Box(attributes)) = 2
<1> DEFINE n == Len(attributes)
           seqs == BoxBlocks(attributes)
<1>1. n \in Nat /\ DOMAIN attributes = 1..n /\ \A i \in 1..n : attributes[i] \in Attributes
  BY LenProperties, ElementOfSeq
<1>2. Box(attributes) = FlattenSeq(seqs)
  BY DEF Box, BoxBlocks
<1>3. ASSUME NEW a \in Attributes, a.name = "viewBox"
      PROVE  /\ a.value \in Seq(Int) /\ Len(a.value) \in {0, 2} /\ (a.value = NoBox <=> Len(a.value) = 0)
  <2>1. a \in [name : {"viewBox"}, value : {NoBox, <<4, 8>>, <<0, 4>>, <<4, LargestSide + 4>>}]
    BY <1>3 DEF Attributes
  <2>2. LargestSide + 4 \in Int
    BY ImageAssumption
  <2>3. a.value \in {NoBox, <<4, 8>>, <<0, 4>>, <<4, LargestSide + 4>>}
    BY <2>1
  <2>4. CASE a.value = NoBox
    BY <2>4 DEF NoBox
  <2>5. ASSUME a.value # NoBox PROVE a.value \in Seq(Int) /\ Len(a.value) = 2
    <3>1. CASE a.value = <<4, 8>>
      BY <3>1
    <3>2. CASE a.value = <<0, 4>>
      BY <3>2
    <3>3. CASE a.value = <<4, LargestSide + 4>>
      BY <2>2, <3>3
    <3> QED BY <2>3, <2>5, <3>1, <3>2, <3>3
  <2>7. CASE a.value # NoBox
    <3>1. a.value \in Seq(Int) /\ Len(a.value) = 2
      BY <2>5, <2>7
    <3>2. Len(a.value) \in {0, 2} /\ Len(a.value) # 0
      BY ONLY <3>1
    <3> QED BY ONLY <2>7, <3>1, <3>2
  <2> QED BY <2>4, <2>7
<1>4. ASSUME NEW i \in 1..n
      PROVE  /\ i \in Boxes(attributes) <=> attributes[i].name = "viewBox"
             /\ seqs[i] = IF i \in Boxes(attributes) /\ \A j \in {i2 \in Boxes(attributes) : attributes[i2].value = NoBox} : i > j
                          THEN attributes[i].value ELSE NoBox
  BY <1>1 DEF Boxes, BoxBlocks
<1>5. NoBox \in Seq(Int) /\ Len(NoBox) = 0
  BY DEF NoBox
<1>6. \A i \in 1..n : seqs[i] \in Seq(Int) /\ Len(seqs[i]) \in {0, 2}
  BY <1>1, <1>3, <1>4, <1>5
<1>7. DOMAIN seqs = 1..n /\ seqs \in Seq(Seq(Int)) /\ Len(seqs) = n
  <2>1. DOMAIN seqs = 1..n /\ seqs = [i \in 1..n |-> seqs[i]]
    BY <1>1 DEF BoxBlocks
  <2> HIDE DEF seqs
  <2>2. seqs \in [1..n -> Seq(Int)]
    BY <1>6, <2>1
  <2>3. seqs \in Seq(Seq(Int))
    BY <1>1, <2>2, SeqDef
  <2>4. Len(seqs) = n
    BY <1>1, <2>1, <2>3, LenProperties
  <2> QED BY <2>1, <2>3, <2>4
<1> HIDE DEF seqs, n
<1>8. /\ Len(FlattenSeq(seqs)) = 2 => \E k \in 1..n : Len(seqs[k]) = 2 /\ FlattenSeq(seqs) = seqs[k]
      /\ \A k \in 1..n :
           Len(seqs[k]) = 2 /\ (\A j \in 1..n : j # k => Len(seqs[j]) = 0) =>
             FlattenSeq(seqs) = seqs[k] /\ Len(FlattenSeq(seqs)) = 2
  <2>1. \A k \in 1..Len(seqs) : Len(seqs[k]) \in {0, 2}
    BY <1>6, <1>7
  <2> QED BY <1>7, <2>1, WholeOfPairs
<1>9. ASSUME Len(Box(attributes)) = 2
      PROVE  \E a \in ToSet(attributes) : a.name = "viewBox" /\ a.value # NoBox /\ a.value = Box(attributes)
  <2>1. PICK k \in 1..n : Len(seqs[k]) = 2 /\ FlattenSeq(seqs) = seqs[k]
    BY <1>2, <1>8, <1>9
  <2>2. seqs[k] # NoBox
    <3> SUFFICES ASSUME seqs[k] = NoBox PROVE FALSE
      OBVIOUS
    <3>1. Len(seqs[k]) = 2 /\ Len(seqs[k]) = 0
      BY <1>5, <2>1
    <3> QED BY <3>1
  <2>3. k \in Boxes(attributes) /\ seqs[k] = attributes[k].value
    BY <1>4, <2>2
  <2>4. attributes[k] \in ToSet(attributes) /\ attributes[k].name = "viewBox"
    BY <1>1, <1>4, <2>3 DEF ToSet
  <2> QED BY <1>2, <2>1, <2>2, <2>3, <2>4
<1>10. ASSUME Cardinality(Boxes(attributes)) = 1, NEW a \in ToSet(attributes), a.name = "viewBox", a.value # NoBox
       PROVE  Box(attributes) = a.value /\ Len(Box(attributes)) = 2
  <2>1. PICK k \in 1..n : attributes[k] = a
    BY <1>1 DEF ToSet
  <2>2. k \in Boxes(attributes)
    BY <1>4, <1>10, <2>1
  <2>3. Boxes(attributes) = {k}
    <3>1. IsFiniteSet(Boxes(attributes))
      <4>1. IsFiniteSet(1..n) /\ Boxes(attributes) \subseteq 1..n
        BY <1>1, FS_Interval DEF Boxes
      <4> QED BY <4>1, FS_Subset
    <3>2. \E x : Boxes(attributes) = {x}
      BY <1>10, <3>1, FS_Singleton
    <3> QED BY <2>2, <3>2
  <2>4. {i2 \in Boxes(attributes) : attributes[i2].value = NoBox} = {}
    BY <1>10, <2>1, <2>3
  <2>5. seqs[k] = a.value
    BY <1>4, <2>1, <2>2, <2>4
  <2>6. \A j \in 1..n : j # k => Len(seqs[j]) = 0
    BY <1>4, <1>5, <2>3
  <2>7. Len(seqs[k]) = 2
    <3>1. a \in Attributes
      BY <1>1, <2>1
    <3> QED BY <1>3, <1>10, <2>5, <3>1
  <2> QED BY <1>2, <1>8, <2>5, <2>6, <2>7
<1> QED BY <1>9, <1>10

(* The size said of an SVG image is one of its own: no mixture, and none    *)
(* that does not fit. inspectSVG.                                           *)
LEMMA SvgRight ==
  ASSUME NEW image \in Images, image.kind = "svg"
  PROVE  ImageIsHonest(image, InspectImage(image))
<1> DEFINE attributes == image.attributes
           size == SvgSize(attributes)
           w == Value(attributes, "width")
           h == Value(attributes, "height")
           box == Box(attributes)
           missing == w <= 0 \/ h <= 0
           fits(b) == \A i \in 1..2 : b[i] <= LargestSide /\ Round(b[i]) > 0
           chosen == IF missing /\ Len(box) = 2 THEN box ELSE <<w, h>>
           all == ToSet(attributes)
<1>1. attributes \in Seq(Attributes)
  <2>1. attributes \in Seq(Attributes \ {<<>>})
    BY ImageAssumption, BoundedSeqs DEF Images, Lists
  <2>2. Attributes \ {<<>>} \subseteq Attributes
    OBVIOUS
  <2> QED BY <2>1, <2>2, SeqMonotonic
<1>2. InspectImage(image) = size
  BY DEF InspectImage
<1>3. ImageIsHonest(image, size) <=>
        /\ size # Unsized =>
           \/ (\E name \in {"width", "height"} : Value(attributes, name) <= 0) /\ \E b \in {a \in all : a.name = "viewBox"} :
                 b.value # NoBox /\ fits(b.value) /\ size = <<Round(b.value[1]), Round(b.value[2])>>
           \/ \E x \in {a \in all : a.name = "width"}, y \in {a \in all : a.name = "height"} :
                 fits(<<x.value, y.value>>) /\ size = <<Round(x.value), Round(y.value)>>
        /\ (\E name \in {"width", "height"} : Value(attributes, name) <= 0) /\ Cardinality(Boxes(attributes)) = 1 =>
           \A b \in {a \in all : a.name = "viewBox"} : b.value # NoBox /\ fits(b.value) => size # Unsized
  BY DEF ImageIsHonest, SizeIsHonest
<1>4. (\E name \in {"width", "height"} : Value(attributes, name) <= 0) <=> missing
  OBVIOUS
<1>5. size = IF \E i \in 1..2 : chosen[i] > LargestSide \/ Round(chosen[i]) <= 0 THEN Unsized
             ELSE <<Round(chosen[1]), Round(chosen[2])>>
  BY DEF SvgSize
<1>6. /\ w \in Int /\ (w # 0 => \E a \in all : a.name = "width" /\ a.value = w)
      /\ h \in Int /\ (h # 0 => \E a \in all : a.name = "height" /\ a.value = h)
  BY <1>1, ValueIsGiven
<1>7. /\ Len(box) = 2 => \E a \in all : a.name = "viewBox" /\ a.value # NoBox /\ a.value = box
      /\ Cardinality(Boxes(attributes)) = 1 =>
              \A a \in all : a.name = "viewBox" /\ a.value # NoBox => box = a.value /\ Len(box) = 2
  BY <1>1, BoxIsGiven
<1>8. \A a \in all : a.name = "viewBox" /\ a.value # NoBox => a.value[1] \in Int /\ a.value[2] \in Int
  <2>1. \A a \in all : a \in Attributes
    BY <1>1, LenProperties, ElementOfSeq DEF ToSet
  <2>2. LargestSide + 4 \in Int
    BY ImageAssumption
  <2>3. \A a \in all : a.name = "viewBox" => a.value \in {NoBox, <<4, 8>>, <<0, 4>>, <<4, LargestSide + 4>>}
    BY <2>1 DEF Attributes
  <2> QED BY <2>2, <2>3
<1>9. LargestSide \in Int /\ \A q \in Int : Round(q) \in Int /\ (Round(q) > 0 => q # 0)
  BY ImageAssumption DEF Round
<1> HIDE DEF size, w, h, box, all, attributes
<1>10. /\ chosen[1] \in Int /\ chosen[2] \in Int
  <2>1. CASE missing /\ Len(box) = 2
    BY <1>7, <1>8, <2>1
  <2>2. CASE ~(missing /\ Len(box) = 2)
    BY <1>6, <2>2
  <2> QED BY <2>1, <2>2
<1>11. ASSUME size # Unsized PROVE fits(chosen) /\ size = <<Round(chosen[1]), Round(chosen[2])>>
  <2>1. \A i \in 1..2 : ~(chosen[i] > LargestSide \/ Round(chosen[i]) <= 0)
    BY <1>5, <1>11
  <2>2. size = <<Round(chosen[1]), Round(chosen[2])>>
    BY <1>5, <2>1
  <2>3. \A i \in 1..2 : chosen[i] \in Int /\ Round(chosen[i]) \in Int
    BY <1>9, <1>10
  <2> HIDE DEF chosen
  <2> QED BY <1>9, <2>1, <2>2, <2>3
<1>12. ASSUME size # Unsized
       PROVE  \/ missing /\ \E b \in {a \in all : a.name = "viewBox"} :
                   b.value # NoBox /\ fits(b.value) /\ size = <<Round(b.value[1]), Round(b.value[2])>>
              \/ \E x \in {a \in all : a.name = "width"}, y \in {a \in all : a.name = "height"} :
                   fits(<<x.value, y.value>>) /\ size = <<Round(x.value), Round(y.value)>>
  <2>1. CASE missing /\ Len(box) = 2
    <3>1. chosen = box
      BY <2>1
    <3>2. PICK a \in all : a.name = "viewBox" /\ a.value # NoBox /\ a.value = box
      BY <1>7, <2>1
    <3>3. fits(a.value) /\ size = <<Round(a.value[1]), Round(a.value[2])>>
      BY <1>11, <1>12, <3>1, <3>2
    <3> QED BY <2>1, <3>2, <3>3
  <2>2. CASE ~(missing /\ Len(box) = 2)
    <3>1. chosen = <<w, h>> /\ chosen[1] = w /\ chosen[2] = h
      BY <2>2
    <3> HIDE DEF chosen
    <3>2. fits(<<w, h>>) /\ size = <<Round(w), Round(h)>>
      BY <1>11, <1>12, <3>1
    <3>3. Round(w) > 0 /\ Round(h) > 0
      BY <3>2
    <3>4. w # 0 /\ h # 0
      BY <1>6, <1>9, <3>3
    <3>5. PICK x \in all : x.name = "width" /\ x.value = w
      BY <1>6, <3>4
    <3>6. PICK y \in all : y.name = "height" /\ y.value = h
      BY <1>6, <3>4
    <3> QED BY <3>2, <3>5, <3>6
  <2> QED BY <2>1, <2>2
<1>13. ASSUME missing, Cardinality(Boxes(attributes)) = 1, NEW b \in {a \in all : a.name = "viewBox"}, b.value # NoBox, fits(b.value)
       PROVE  size # Unsized
  <2>1. box = b.value /\ Len(box) = 2 /\ chosen = box
    BY <1>7, <1>13
  <2>2. \A i \in 1..2 : chosen[i] <= LargestSide /\ Round(chosen[i]) > 0
    BY <1>13, <2>1
  <2>3. \A i \in 1..2 : chosen[i] \in Int /\ Round(chosen[i]) \in Int
    BY <1>9, <1>10
  <2> HIDE DEF chosen
  <2>4. size = <<Round(chosen[1]), Round(chosen[2])>>
    BY <1>5, <1>9, <2>2, <2>3
  <2>5. Round(chosen[1]) # 0
    BY <2>2, <2>3
  <2> QED BY <2>4, <2>5 DEF Unsized
<1> QED BY <1>2, <1>3, <1>4, <1>12, <1>13

-----------------------------------------------------------------------------
(* One step of hasImageChunk. *)
ImageStep(F, cells, p) ==
  IF p[1] + 2 > p[2] \/ PaddedEnd(cells, p[1], p[2]) < 0 THEN FALSE
  ELSE IF cells[p[1] + 1].tag = "VP8" THEN ValidFrame(cells, p[1])
  ELSE \/ /\ cells[p[1] + 1].tag = "ANMF" /\ cells[p[1] + 2].n > 2
          /\ F[<<p[1] + 4, p[1] + 2 + cells[p[1] + 2].n>>]
       \/ F[<<PaddedEnd(cells, p[1], p[2]), p[2]>>]
Points(cells) == (0..Len(cells)) \X (0..Len(cells))
ImageWalk(F, cells) == F = [p \in Points(cells) |-> ImageStep(F, cells, p)]

(* A step looks at what is behind its offset only. *)
LEMMA ImageStepLooksAhead ==
  ASSUME NEW cells, Len(cells) \in Nat, \A i \in 1..Len(cells) : cells[i].n \in Nat, NEW p \in Points(cells),
         NEW F, NEW G, \A q \in Points(cells) : q[1] > p[1] => F[q] = G[q]
  PROVE  ImageStep(F, cells, p) = ImageStep(G, cells, p)
<1> DEFINE n == Len(cells)
           o == p[1]
           end == p[2]
           size == cells[o + 2].n
           padded == PaddedEnd(cells, o, end)
<1>1. o \in 0..n /\ end \in 0..n
  BY DEF Points
<1>2. CASE o + 2 > end \/ padded < 0
  BY <1>2 DEF ImageStep
<1>3. CASE ~(o + 2 > end \/ padded < 0)
  <2>1. size \in Nat
    BY <1>1, <1>3
  <2>2. padded = o + 2 + size + (size % 2) /\ padded <= n
    <3>1. padded = IF \/ o + 2 + size + (size % 2) > end \/ o + 2 + size + (size % 2) > n
                      \/ size % 2 = 1 /\ cells[o + 2 + size + (size % 2)].tag # "zero"
                   THEN -1 ELSE o + 2 + size + (size % 2)
      BY DEF PaddedEnd
    <3> HIDE DEF padded, size
    <3>2. size % 2 \in Nat
      BY <2>1
    <3> QED BY <1>1, <1>3, <2>1, <3>1, <3>2
  <2> HIDE DEF padded, size
  <2>3. size % 2 \in Nat
    BY <2>1
  <2>4. padded \in 0..n /\ padded > o
    BY <1>1, <2>1, <2>2, <2>3
  <2>5. o + 2 + size \in 0..n /\ (size > 2 => o + 4 \in 0..n)
    <3> DEFINE r == size % 2
    <3>1. r \in Nat /\ o + 2 + size + r <= n /\ o \in Nat
      BY <1>1, <2>2, <2>3
    <3> HIDE DEF r, o, n
    <3>2. n \in Nat
      BY DEF n
    <3> QED BY <2>1, <3>1, <3>2
  <2>6. <<padded, end>> \in Points(cells) /\ <<padded, end>>[1] = padded
    BY <1>1, <2>4 DEF Points
  <2>7. F[<<padded, end>>] = G[<<padded, end>>]
    BY <2>4, <2>6
  <2>8. ASSUME size > 2 PROVE F[<<o + 4, o + 2 + size>>] = G[<<o + 4, o + 2 + size>>]
    <3> DEFINE q == <<o + 4, o + 2 + size>>
    <3>1. q \in Points(cells) /\ q[1] = o + 4 /\ q[1] > o
      BY <1>1, <2>5, <2>8 DEF Points
    <3> HIDE DEF q
    <3>2. F[q] = G[q]
      BY <3>1
    <3> QED BY <3>2 DEF q
  <2>9. \A H : ImageStep(H, cells, p) =
            IF cells[o + 1].tag = "VP8" THEN ValidFrame(cells, o)
            ELSE \/ cells[o + 1].tag = "ANMF" /\ size > 2 /\ H[<<o + 4, o + 2 + size>>]
                 \/ H[<<padded, end>>]
    BY <1>3 DEF ImageStep, padded, size
  <2> QED BY <2>7, <2>8, <2>9
<1> QED BY <1>2, <1>3

(* The walk for an image chunk ends, though it starts again inside frames:  *)
(* what it says follows step by step.                                       *)
LEMMA ImageWalkEnds ==
  ASSUME NEW cells, Len(cells) \in Nat, \A i \in 1..Len(cells) : cells[i].n \in Nat
  PROVE  \E F : /\ \A p \in Points(cells) : F[p] = ImageStep(F, cells, p)
                /\ \A o, end \in 0..Len(cells) : HasImageChunk(cells, o, end) = F[<<o, end>>]
<1> DEFINE n == Len(cells)
           Up(F, d) == \A p \in Points(cells) : n - p[1] <= d => F[p] = ImageStep(F, cells, p)
           N == {d \in Nat : \E F : DOMAIN F = Points(cells) /\ F = [p \in Points(cells) |-> F[p]] /\ Up(F, d)}
<1>0. \A p \in Points(cells) : p[1] \in 0..n
  BY DEF Points
<1>1. 0 \in N
  <2> DEFINE E == [p \in Points(cells) |-> p]
             F == [p \in Points(cells) |-> ImageStep(E, cells, p)]
  <2>1. DOMAIN F = Points(cells) /\ F = [p \in Points(cells) |-> F[p]]
    OBVIOUS
  <2>2. \A p \in Points(cells) : F[p] = ImageStep(E, cells, p)
    OBVIOUS
  <2> HIDE DEF F, E
  <2>3. ASSUME NEW p \in Points(cells), n - p[1] <= 0 PROVE F[p] = ImageStep(F, cells, p)
    <3>1. \A q \in Points(cells) : q[1] > p[1] => E[q] = F[q]
      BY <1>0, <2>3
    <3>2. ImageStep(E, cells, p) = ImageStep(F, cells, p)
      BY <3>1, ImageStepLooksAhead
    <3> QED BY <2>2, <3>2
  <2>4. Up(F, 0)
    BY <2>3
  <2> HIDE DEF Up
  <2> QED BY <2>1, <2>4
<1>2. ASSUME NEW d \in Nat, d \in N PROVE d + 1 \in N
  <2>1. PICK F : DOMAIN F = Points(cells) /\ F = [p \in Points(cells) |-> F[p]] /\ Up(F, d)
    BY <1>2
  <2> DEFINE G == [p \in Points(cells) |-> ImageStep(F, cells, p)]
  <2>2. DOMAIN G = Points(cells) /\ G = [p \in Points(cells) |-> G[p]]
    OBVIOUS
  <2>3. \A p \in Points(cells) : G[p] = ImageStep(F, cells, p)
    OBVIOUS
  <2>4. \A p \in Points(cells) : n - p[1] <= d => G[p] = F[p]
    BY <2>1, <2>3
  <2> HIDE DEF G
  <2>5. ASSUME NEW p \in Points(cells), n - p[1] <= d + 1 PROVE G[p] = ImageStep(G, cells, p)
    <3>1. \A q \in Points(cells) : q[1] > p[1] => F[q] = G[q]
      <4>1. ASSUME NEW q \in Points(cells), q[1] > p[1] PROVE F[q] = G[q]
        <5>1. n - q[1] <= d
          BY <1>0, <2>5, <4>1
        <5> QED BY <2>4, <5>1
      <4> QED BY <4>1
    <3>2. ImageStep(F, cells, p) = ImageStep(G, cells, p)
      BY <3>1, ImageStepLooksAhead
    <3> QED BY <2>3, <3>2
  <2>6. Up(G, d + 1)
    BY <2>5
  <2>7. d + 1 \in Nat
    OBVIOUS
  <2> HIDE DEF Up
  <2> QED BY <2>2, <2>6, <2>7
<1> HIDE DEF N
<1>3. Nat \subseteq N
  BY <1>1, <1>2, NatSetInduction
<1>4. PICK F : DOMAIN F = Points(cells) /\ F = [p \in Points(cells) |-> F[p]] /\ Up(F, n)
  BY <1>3 DEF N
<1>5. \A p \in Points(cells) : F[p] = ImageStep(F, cells, p)
  BY <1>0, <1>4
<1>6. ImageWalk(F, cells)
  <2>1. [p \in Points(cells) |-> F[p]] = [p \in Points(cells) |-> ImageStep(F, cells, p)]
    BY <1>5
  <2> QED BY <1>4, <2>1 DEF ImageWalk
<1> DEFINE G == CHOOSE G : ImageWalk(G, cells)
<1>7. ImageWalk(G, cells)
  BY <1>6
<1>8. \A o, end \in 0..n : HasImageChunk(cells, o, end) = G[<<o, end>>]
  BY DEF HasImageChunk, ImageWalk, ImageStep, Points
<1> HIDE DEF G
<1>9. \A p \in Points(cells) : G[p] = ImageStep(G, cells, p)
  BY <1>7 DEF ImageWalk
<1> QED BY <1>8, <1>9

(* A chunk is its type and length, its data, and a padding if it needs one. *)
WebPTags == {"VP8X", "VP8", "ICCP", "ANMF", "length", "frame", "x", "zero", "alpha"}
WebPCells == [tag : WebPTags, n : Nat]

(* A cell of a WebP image by its type. *)
LEMMA WebPCellShape ==
  ASSUME NEW x \in WebPTags, NEW n \in Nat
  PROVE  Cell(x, n) \in WebPCells /\ Cell(x, n).tag = x /\ Cell(x, n).n = n
BY DEF WebPCells, Cell

(* A sequence behind two elements. *)
LEMMA BehindTwo ==
  ASSUME NEW S, NEW a \in S, NEW b \in S, NEW s \in Seq(S)
  PROVE  /\ <<a, b>> \o s \in Seq(S) /\ Len(s) \in Nat /\ Len(<<a, b>> \o s) = Len(s) + 2
         /\ (<<a, b>> \o s)[1] = a /\ (<<a, b>> \o s)[2] = b
         /\ \A i \in 1..Len(s) : (<<a, b>> \o s)[2 + i] = s[i]
<1> DEFINE t == <<a, b>>
<1>1. t \in Seq(S) /\ Len(t) = 2 /\ t[1] = a /\ t[2] = b
  OBVIOUS
<1>2. Len(s) \in Nat
  BY LenProperties
<1> HIDE DEF t
<1>3. /\ t \o s \in Seq(S) /\ Len(t \o s) = 2 + Len(s)
      /\ \A i \in 1..(2 + Len(s)) : (t \o s)[i] = IF i <= 2 THEN t[i] ELSE s[i - 2]
  BY <1>1, ConcatProperties
<1>4. (t \o s)[1] = a /\ (t \o s)[2] = b
  <2>1. 1 \in 1..(2 + Len(s)) /\ 2 \in 1..(2 + Len(s))
    BY <1>2
  <2> QED BY <1>1, <1>3, <2>1
<1>5. ASSUME NEW i \in 1..Len(s) PROVE (t \o s)[2 + i] = s[i]
  <2> DEFINE j == 2 + i
  <2>1. j \in 1..(2 + Len(s)) /\ ~(j <= 2) /\ j - 2 = i
    BY <1>2
  <2> HIDE DEF j
  <2>2. (t \o s)[j] = s[i]
    BY <1>3, <2>1
  <2> QED BY <2>2 DEF j
<1>6. 2 + Len(s) = Len(s) + 2
  BY <1>2
<1> QED BY <1>2, <1>3, <1>4, <1>5, <1>6 DEF t

IsChunk(c, type, data, zero) ==
  /\ c \in Seq(WebPCells) /\ Len(data) \in Nat
  /\ Len(c) = Len(data) + 2 + (IF Len(data) % 2 = 1 THEN 1 ELSE 0)
  /\ c[1].tag = type /\ c[2].n = Len(data)
  /\ \A i \in 1..Len(data) : c[2 + i] = data[i]
  /\ Len(data) % 2 = 1 => c[Len(data) + 3].tag = IF zero THEN "zero" ELSE "x"

(* A chunk is laid out as its type, its length, its data and its padding. *)
LEMMA ChunkShape ==
  ASSUME NEW type \in WebPTags, NEW data \in Seq(WebPCells), NEW zero \in BOOLEAN
  PROVE  IsChunk(Chunk(type, data, zero), type, data, zero)
<1> DEFINE a == Cell(type, 9)
           b == Cell("length", Len(data))
           front == <<a, b>> \o data
           padding == IF Len(data) % 2 = 1 THEN <<Pad(zero)>> ELSE <<>>
           c == Chunk(type, data, zero)
           n == Len(data)
<1>1. n \in Nat
  BY LenProperties
<1>2. a \in WebPCells /\ b \in WebPCells /\ a.tag = type /\ b.n = n
  BY <1>1, WebPCellShape DEF WebPTags
<1>3. Pad(zero) \in WebPCells /\ Pad(zero).tag = IF zero THEN "zero" ELSE "x"
  BY WebPCellShape DEF WebPTags, Pad
<1>4. c = front \o padding
  BY DEF Chunk
<1> HIDE DEF a, b, c
<1>5. /\ front \in Seq(WebPCells) /\ Len(front) = n + 2 /\ front[1] = a /\ front[2] = b
      /\ \A i \in 1..n : front[2 + i] = data[i]
  BY <1>2, BehindTwo
<1> HIDE DEF front
<1>6. /\ padding \in Seq(WebPCells) /\ Len(padding) = IF n % 2 = 1 THEN 1 ELSE 0
      /\ n % 2 = 1 => padding[1] = Pad(zero)
  <2>1. CASE n % 2 = 1
    <3>1. padding = <<Pad(zero)>>
      BY <2>1
    <3> QED BY <1>3, <2>1, <3>1
  <2>2. CASE n % 2 # 1
    <3>1. padding = <<>>
      BY <2>2
    <3> QED BY <2>2, <3>1
  <2> QED BY <2>1, <2>2
<1> HIDE DEF padding, n
<1>7. /\ c \in Seq(WebPCells) /\ Len(c) = n + 2 + Len(padding)
      /\ \A i \in 1..(n + 2 + Len(padding)) : c[i] = IF i <= n + 2 THEN front[i] ELSE padding[i - (n + 2)]
  <2>1. /\ front \o padding \in Seq(WebPCells) /\ Len(front \o padding) = Len(front) + Len(padding)
        /\ \A i \in 1..(Len(front) + Len(padding)) :
             (front \o padding)[i] = IF i <= Len(front) THEN front[i] ELSE padding[i - Len(front)]
    BY <1>5, <1>6, ConcatProperties
  <2> QED BY <1>4, <1>5, <2>1
<1>8. Len(padding) \in Nat
  BY <1>6
<1>9. c[1] = a /\ c[2] = b /\ \A i \in 1..n : c[2 + i] = data[i]
  <2>1. \A i \in 1..(n + 2) : c[i] = front[i]
    BY <1>1, <1>7, <1>8
  <2>2. 1 \in 1..(n + 2) /\ 2 \in 1..(n + 2) /\ \A i \in 1..n : 2 + i \in 1..(n + 2)
    BY <1>1
  <2> QED BY <1>5, <2>1, <2>2
<1>10. n % 2 = 1 => c[n + 3] = Pad(zero)
  <2> SUFFICES ASSUME n % 2 = 1 PROVE c[n + 3] = Pad(zero)
    OBVIOUS
  <2> DEFINE j == n + 3
  <2>1. Len(padding) = 1
    BY <1>6
  <2>2. j \in 1..(n + 2 + Len(padding)) /\ ~(j <= n + 2) /\ j - (n + 2) = 1
    BY <1>1, <2>1
  <2> HIDE DEF j
  <2>3. c[j] = padding[1]
    BY <1>7, <2>2
  <2> QED BY <1>6, <2>3 DEF j
<1> QED BY <1>1, <1>2, <1>3, <1>6, <1>7, <1>9, <1>10 DEF c, n, IsChunk

(* The chunks, by what a walk sees of them. *)
LEMMA PictureShape ==
  ASSUME NEW good \in BOOLEAN
  PROVE  LET c == Picture(good)
         IN  /\ c \in Seq(WebPCells) /\ Len(c) = 6
             /\ c[1].tag = "VP8" /\ c[2].n = 4 /\ c[3].tag = IF good THEN "frame" ELSE "x"
<1> DEFINE data == Frame(good)
           a == Cell(IF good THEN "frame" ELSE "x", 9)
           b == Cell("VP8", 9)
           d == Cell("length", 2)
           e == Cell("frame", 9)
           c == Picture(good)
<1>1. /\ a \in WebPCells /\ b \in WebPCells /\ d \in WebPCells /\ e \in WebPCells
      /\ a.tag = IF good THEN "frame" ELSE "x"
  BY WebPCellShape DEF WebPTags
<1>2. data = <<a, b, d, e>>
  BY DEF Frame
<1>3. c = Chunk("VP8", data, TRUE)
  BY DEF Picture
<1> HIDE DEF a, b, d, e
<1>4. data \in Seq(WebPCells) /\ Len(data) = 4 /\ data[1] = a
  <2>1. <<a, b, d, e>> \in Seq(WebPCells) /\ Len(<<a, b, d, e>>) = 4 /\ <<a, b, d, e>>[1] = a
    BY <1>1
  <2> QED BY <1>2, <2>1
<1> HIDE DEF data, c
<1>5. /\ c \in Seq(WebPCells) /\ Len(c) = Len(data) + 2 + (IF Len(data) % 2 = 1 THEN 1 ELSE 0)
      /\ c[1].tag = "VP8" /\ c[2].n = Len(data) /\ \A i \in 1..Len(data) : c[2 + i] = data[i]
  <2>1. "VP8" \in WebPTags /\ TRUE \in BOOLEAN
    BY DEF WebPTags
  <2>2. IsChunk(Chunk("VP8", data, TRUE), "VP8", data, TRUE)
    BY <1>3, <1>4, <2>1, ChunkShape
  <2> QED BY <1>3, <1>4, <2>2 DEF IsChunk
<1>6. 4 % 2 = 0 /\ 1 \in 1..4
  OBVIOUS
<1>7. Len(c) = 6 /\ c[2].n = 4
  BY <1>4, <1>5, <1>6
<1>8. c[3] = a
  <2>1. c[2 + 1] = data[1]
    BY <1>4, <1>5, <1>6
  <2> QED BY <1>4, <2>1
<1> QED BY <1>1, <1>5, <1>7, <1>8 DEF c

(* A colour profile takes six cells, the last of them its padding. *)
LEMMA ProfileShape ==
  ASSUME NEW zero \in BOOLEAN
  PROVE  LET c == Profile(zero)
         IN  /\ c \in Seq(WebPCells) /\ Len(c) = 6
             /\ c[1].tag = "ICCP" /\ c[2].n = 3 /\ c[6].tag = IF zero THEN "zero" ELSE "x"
<1> DEFINE b == Cell("VP8", 9)
           d == Cell("length", 2)
           e == Cell("frame", 9)
           data == <<b, d, e>>
           c == Profile(zero)
<1>1. b \in WebPCells /\ d \in WebPCells /\ e \in WebPCells
  BY WebPCellShape DEF WebPTags
<1>2. c = Chunk("ICCP", data, zero)
  BY DEF Profile
<1> HIDE DEF b, d, e
<1>3. data \in Seq(WebPCells) /\ Len(data) = 3
  BY <1>1
<1> HIDE DEF data, c
<1>4. /\ c \in Seq(WebPCells) /\ Len(c) = Len(data) + 2 + (IF Len(data) % 2 = 1 THEN 1 ELSE 0)
      /\ c[1].tag = "ICCP" /\ c[2].n = Len(data)
      /\ Len(data) % 2 = 1 => c[Len(data) + 3].tag = IF zero THEN "zero" ELSE "x"
  <2>1. "ICCP" \in WebPTags /\ zero \in BOOLEAN
    BY DEF WebPTags
  <2>2. IsChunk(Chunk("ICCP", data, zero), "ICCP", data, zero)
    BY <1>2, <1>3, <2>1, ChunkShape
  <2> QED BY <1>2, <1>3, <2>2 DEF IsChunk
<1>5. 3 % 2 = 1 /\ 3 + 2 + 1 = 6 /\ 3 + 3 = 6
  OBVIOUS
<1> QED BY <1>3, <1>4, <1>5 DEF c

(* An animation frame takes four cells and what it holds, unpadded. *)
LEMMA AnimationShape ==
  ASSUME NEW held \in Seq(WebPCells), Len(held) % 2 = 0
  PROVE  LET c == Animation(held)
         IN  /\ c \in Seq(WebPCells) /\ Len(held) \in Nat /\ Len(c) = 4 + Len(held)
             /\ c[1].tag = "ANMF" /\ c[2].n = 2 + Len(held)
             /\ \A i \in 1..Len(held) : c[4 + i] = held[i]
<1> DEFINE x == Cell("x", 9)
           data == <<x, x>> \o held
           c == Animation(held)
           n == Len(held)
<1>1. x \in WebPCells
  BY WebPCellShape DEF WebPTags
<1>2. c = Chunk("ANMF", data, TRUE)
  BY DEF Animation
<1> HIDE DEF x
<1>3. n \in Nat /\ data \in Seq(WebPCells) /\ Len(data) = n + 2 /\ \A i \in 1..n : data[2 + i] = held[i]
  BY <1>1, BehindTwo
<1> HIDE DEF data, c
<1>4. /\ c \in Seq(WebPCells) /\ Len(c) = Len(data) + 2 + (IF Len(data) % 2 = 1 THEN 1 ELSE 0)
      /\ c[1].tag = "ANMF" /\ c[2].n = Len(data) /\ \A i \in 1..Len(data) : c[2 + i] = data[i]
  <2>1. "ANMF" \in WebPTags /\ TRUE \in BOOLEAN
    BY DEF WebPTags
  <2>2. IsChunk(Chunk("ANMF", data, TRUE), "ANMF", data, TRUE)
    BY <1>2, <1>3, <2>1, ChunkShape
  <2> QED BY <1>2, <1>3, <2>2 DEF IsChunk
<1>5. (n + 2) % 2 = 0
  BY <1>3
<1>6. Len(c) = 4 + n /\ c[2].n = 2 + n
  BY <1>3, <1>4, <1>5
<1>7. ASSUME NEW i \in 1..n PROVE c[4 + i] = held[i]
  <2> DEFINE j == 2 + i
  <2>1. j \in 1..Len(data) /\ 2 + j = 4 + i /\ data[j] = held[i]
    BY <1>3
  <2> HIDE DEF j
  <2>2. c[2 + j] = data[j]
    BY <1>4, <2>1
  <2> QED BY <2>1, <2>2
<1> QED BY <1>3, <1>4, <1>6, <1>7 DEF c

(* A profile and a picture behind it. *)
LEMMA PairShape ==
  ASSUME NEW zero \in BOOLEAN
  PROVE  LET h == Profile(zero) \o Picture(TRUE)
         IN  /\ h \in Seq(WebPCells) /\ Len(h) = 12
             /\ \A i \in 1..6 : h[i] = Profile(zero)[i] /\ h[6 + i] = Picture(TRUE)[i]
<1> DEFINE a == Profile(zero)
           b == Picture(TRUE)
<1>1. a \in Seq(WebPCells) /\ Len(a) = 6
  BY ProfileShape
<1>2. b \in Seq(WebPCells) /\ Len(b) = 6
  BY PictureShape
<1> HIDE DEF a, b
<1>3. /\ a \o b \in Seq(WebPCells) /\ Len(a \o b) = 6 + 6
      /\ \A i \in 1..(6 + 6) : (a \o b)[i] = IF i <= 6 THEN a[i] ELSE b[i - 6]
  <2>1. /\ a \o b \in Seq(WebPCells) /\ Len(a \o b) = Len(a) + Len(b)
        /\ \A i \in 1..(Len(a) + Len(b)) : (a \o b)[i] = IF i <= Len(a) THEN a[i] ELSE b[i - Len(a)]
    BY <1>1, <1>2, ConcatProperties
  <2> QED BY <1>1, <1>2, <2>1
<1>4. ASSUME NEW i \in 1..6 PROVE (a \o b)[i] = a[i] /\ (a \o b)[6 + i] = b[i]
  <2> DEFINE j == 6 + i
  <2>1. i \in 1..(6 + 6) /\ i <= 6 /\ j \in 1..(6 + 6) /\ ~(j <= 6) /\ j - 6 = i
    OBVIOUS
  <2> HIDE DEF j
  <2>2. (a \o b)[j] = b[i]
    BY <1>3, <2>1
  <2> QED BY <1>3, <2>1, <2>2 DEF j
<1>5. 6 + 6 = 12
  OBVIOUS
<1>6. Len(a \o b) = 12
  BY <1>3, <1>5
<1> QED BY <1>3, <1>4, <1>6 DEF a, b

(* A chunk in the cells of a file, and a walk over them. *)
Placed(cells, o, c) == o \in Nat /\ o + Len(c) <= Len(cells) /\ \A i \in 1..Len(c) : cells[o + i] = c[i]
WalksIn(F, cells) ==
  cells \in Seq(WebPCells) /\ Len(cells) \in Nat /\ \A p \in Points(cells) : F[p] = ImageStep(F, cells, p)

ReadsChunk(F, cells, o, e, n, pad) ==
  F[<<o, e>>] <=>
    /\ o + 2 + n + pad <= e
    /\ pad = 1 => cells[o + 2 + n + pad].tag = "zero"
    /\ IF cells[o + 1].tag = "VP8" THEN n >= 2 /\ cells[o + 3].tag = "frame"
       ELSE \/ cells[o + 1].tag = "ANMF" /\ n > 2 /\ F[<<o + 4, o + 2 + n>>]
            \/ F[<<o + 2 + n + pad, e>>]

(* What a step says where a chunk of a given size is. *)
LEMMA ChunkRead ==
  ASSUME NEW F, NEW cells, WalksIn(F, cells), NEW o \in Nat, NEW e \in 0..Len(cells), NEW n \in Nat, NEW pad \in {0, 1},
         o + 2 + n + pad <= Len(cells), cells[o + 2].n = n, n % 2 = pad
  PROVE  ReadsChunk(F, cells, o, e, n, pad)
<1> DEFINE padded == o + 2 + n + pad
           found == PaddedEnd(cells, o, e)
<1>1. Len(cells) \in Nat /\ o \in 0..Len(cells) /\ <<o, e>> \in Points(cells)
  BY DEF WalksIn, Points
<1>2. F[<<o, e>>] = ImageStep(F, cells, <<o, e>>)
  BY <1>1 DEF WalksIn
<1>3. found = IF padded > e \/ (pad = 1 /\ cells[padded].tag # "zero") THEN -1 ELSE padded
  <2>1. found = IF padded > e \/ padded > Len(cells) \/ (pad = 1 /\ cells[padded].tag # "zero") THEN -1 ELSE padded
    BY DEF PaddedEnd
  <2>2. ~(padded > Len(cells))
    BY <1>1
  <2> QED BY <2>1, <2>2
<1>4. ImageStep(F, cells, <<o, e>>) =
        IF o + 2 > e \/ found < 0 THEN FALSE
        ELSE IF cells[o + 1].tag = "VP8" THEN n >= 2 /\ cells[o + 3].tag = "frame"
        ELSE \/ cells[o + 1].tag = "ANMF" /\ n > 2 /\ F[<<o + 4, o + 2 + n>>]
             \/ F[<<found, e>>]
  BY DEF ImageStep, ValidFrame
<1>5. padded \in Nat /\ o + 2 <= padded
  OBVIOUS
<1> HIDE DEF padded, found
<1>6. CASE padded > e \/ (pad = 1 /\ cells[padded].tag # "zero")
  <2>1. found < 0
    BY <1>3, <1>6
  <2>2. ~F[<<o, e>>]
    BY <1>2, <1>4, <2>1
  <2>3. ~(padded <= e) \/ ~(pad = 1 => cells[padded].tag = "zero")
    BY <1>5, <1>6
  <2> QED BY <2>2, <2>3 DEF padded, ReadsChunk
<1>7. CASE ~(padded > e) /\ ~(pad = 1 /\ cells[padded].tag # "zero")
  <2>1. found = padded /\ ~(o + 2 > e) /\ ~(found < 0)
    BY <1>3, <1>5, <1>7
  <2>2. F[<<o, e>>] <=>
          IF cells[o + 1].tag = "VP8" THEN n >= 2 /\ cells[o + 3].tag = "frame"
          ELSE \/ cells[o + 1].tag = "ANMF" /\ n > 2 /\ F[<<o + 4, o + 2 + n>>]
               \/ F[<<padded, e>>]
    BY <1>2, <1>4, <2>1
  <2>3. padded <= e /\ (pad = 1 => cells[padded].tag = "zero")
    BY <1>5, <1>7
  <2> QED BY <2>2, <2>3 DEF padded, ReadsChunk
<1> QED BY <1>6, <1>7

(* No chunk is read where none fits. *)
LEMMA NothingRead ==
  ASSUME NEW F, NEW cells, WalksIn(F, cells), NEW o \in 0..Len(cells), NEW e \in 0..Len(cells), o + 2 > e
  PROVE  ~F[<<o, e>>]
<1>1. <<o, e>> \in Points(cells)
  BY DEF Points
<1>2. F[<<o, e>>] = ImageStep(F, cells, <<o, e>>)
  BY <1>1 DEF WalksIn
<1>3. ImageStep(F, cells, <<o, e>>) = FALSE
  BY DEF ImageStep
<1> QED BY <1>2, <1>3

(* A picture is an image chunk if it fits and is one. *)
LEMMA PictureRead ==
  ASSUME NEW F, NEW cells, WalksIn(F, cells), NEW o, NEW e \in 0..Len(cells), NEW good \in BOOLEAN,
         Placed(cells, o, Picture(good))
  PROVE  F[<<o, e>>] <=> o + 6 <= e /\ good
<1> DEFINE c == Picture(good)
<1>1. Len(c) = 6 /\ c[1].tag = "VP8" /\ c[2].n = 4 /\ c[3].tag = IF good THEN "frame" ELSE "x"
  BY PictureShape
<1> HIDE DEF c
<1>2. o \in Nat /\ o + 6 <= Len(cells) /\ \A i \in 1..6 : cells[o + i] = c[i]
  BY <1>1 DEF Placed, c
<1>3. cells[o + 1].tag = "VP8" /\ cells[o + 2].n = 4 /\ cells[o + 3].tag = IF good THEN "frame" ELSE "x"
  BY <1>1, <1>2
<1>4. o + 2 + 4 + 0 = o + 6 /\ 4 % 2 = 0 /\ 4 \in Nat /\ 0 \in {0, 1}
  BY <1>2
<1>p. ReadsChunk(F, cells, o, e, 4, 0)
  BY <1>2, <1>3, <1>4, ChunkRead
<1>5. F[<<o, e>>] <=>
           /\ o + 2 + 4 + 0 <= e
           /\ 0 = 1 => cells[o + 2 + 4 + 0].tag = "zero"
           /\ IF cells[o + 1].tag = "VP8" THEN 4 >= 2 /\ cells[o + 3].tag = "frame"
              ELSE \/ cells[o + 1].tag = "ANMF" /\ 4 > 2 /\ F[<<o + 4, o + 2 + 4>>]
                   \/ F[<<o + 2 + 4 + 0, e>>]
  BY <1>p DEF ReadsChunk
<1>6. (IF good THEN "frame" ELSE "x") = "frame" <=> good
  OBVIOUS
<1> QED BY <1>3, <1>4, <1>5, <1>6

(* A profile that fits and is padded with zero is passed. *)
LEMMA ProfileRead ==
  ASSUME NEW F, NEW cells, WalksIn(F, cells), NEW o, NEW e \in 0..Len(cells), NEW zero \in BOOLEAN,
         Placed(cells, o, Profile(zero))
  PROVE  F[<<o, e>>] <=> o + 6 <= e /\ zero /\ F[<<o + 6, e>>]
<1> DEFINE c == Profile(zero)
<1>1. Len(c) = 6 /\ c[1].tag = "ICCP" /\ c[2].n = 3 /\ c[6].tag = IF zero THEN "zero" ELSE "x"
  BY ProfileShape
<1> HIDE DEF c
<1>2. o \in Nat /\ o + 6 <= Len(cells) /\ \A i \in 1..6 : cells[o + i] = c[i]
  BY <1>1 DEF Placed, c
<1>3. cells[o + 1].tag = "ICCP" /\ cells[o + 2].n = 3 /\ cells[o + 6].tag = IF zero THEN "zero" ELSE "x"
  BY <1>1, <1>2
<1>4. o + 2 + 3 + 1 = o + 6 /\ 3 % 2 = 1 /\ 3 \in Nat /\ 1 \in {0, 1}
  BY <1>2
<1>p. ReadsChunk(F, cells, o, e, 3, 1)
  BY <1>2, <1>3, <1>4, ChunkRead
<1>5. F[<<o, e>>] <=>
           /\ o + 2 + 3 + 1 <= e
           /\ 1 = 1 => cells[o + 2 + 3 + 1].tag = "zero"
           /\ IF cells[o + 1].tag = "VP8" THEN 3 >= 2 /\ cells[o + 3].tag = "frame"
              ELSE \/ cells[o + 1].tag = "ANMF" /\ 3 > 2 /\ F[<<o + 4, o + 2 + 3>>]
                   \/ F[<<o + 2 + 3 + 1, e>>]
  BY <1>p DEF ReadsChunk
<1>6. (IF zero THEN "zero" ELSE "x") = "zero" <=> zero
  OBVIOUS
<1> QED BY <1>3, <1>4, <1>5, <1>6

(* An animation frame that fits is an image chunk if it holds one, and is   *)
(* passed if it does not.                                                   *)
LEMMA AnimationRead ==
  ASSUME NEW F, NEW cells, WalksIn(F, cells), NEW o, NEW e \in 0..Len(cells), NEW held \in Seq(WebPCells),
         Len(held) % 2 = 0, Placed(cells, o, Animation(held))
  PROVE  /\ F[<<o, e>>] <=> /\ o + (4 + Len(held)) <= e
                            /\ \/ Len(held) > 0 /\ F[<<o + 4, o + (4 + Len(held))>>]
                               \/ F[<<o + (4 + Len(held)), e>>]
         /\ Placed(cells, o + 4, held) /\ o \in Nat /\ o + (4 + Len(held)) \in 0..Len(cells)
<1> DEFINE c == Animation(held)
           n == 2 + Len(held)
           to == o + (4 + Len(held))
<1>1. /\ Len(held) \in Nat /\ Len(c) = 4 + Len(held) /\ c[1].tag = "ANMF" /\ c[2].n = n
      /\ \A i \in 1..Len(held) : c[4 + i] = held[i]
  BY AnimationShape
<1> HIDE DEF c
<1>2. o \in Nat /\ to <= Len(cells) /\ \A i \in 1..(4 + Len(held)) : cells[o + i] = c[i]
  BY <1>1 DEF Placed, c
<1>3. cells[o + 1].tag = "ANMF" /\ cells[o + 2].n = n
  <2>1. 1 \in 1..(4 + Len(held)) /\ 2 \in 1..(4 + Len(held))
    BY <1>1
  <2> QED BY <1>1, <1>2, <2>1
<1>4. o + 2 + n + 0 = to /\ o + 2 + n = to /\ n % 2 = 0 /\ n \in Nat /\ 0 \in {0, 1} /\ (n > 2 <=> Len(held) > 0)
  BY <1>1, <1>2
<1> HIDE DEF n, to
<1>p. ReadsChunk(F, cells, o, e, n, 0)
  BY <1>2, <1>3, <1>4, ChunkRead
<1>5. F[<<o, e>>] <=>
           /\ o + 2 + n + 0 <= e
           /\ 0 = 1 => cells[o + 2 + n + 0].tag = "zero"
           /\ IF cells[o + 1].tag = "VP8" THEN n >= 2 /\ cells[o + 3].tag = "frame"
              ELSE \/ cells[o + 1].tag = "ANMF" /\ n > 2 /\ F[<<o + 4, o + 2 + n>>]
                   \/ F[<<o + 2 + n + 0, e>>]
  BY <1>p DEF ReadsChunk
<1>6. F[<<o, e>>] <=> to <= e /\ ((Len(held) > 0 /\ F[<<o + 4, to>>]) \/ F[<<to, e>>])
  <2>1. cells[o + 1].tag # "VP8" /\ 0 # 1
    BY <1>3
  <2>2. F[<<o, e>>] <=> to <= e /\ ((n > 2 /\ F[<<o + 4, to>>]) \/ F[<<to, e>>])
    BY <1>3, <1>4, <1>5, <2>1
  <2> QED BY <1>4, <2>2
<1>7. ASSUME NEW i \in 1..Len(held) PROVE cells[o + 4 + i] = held[i]
  <2> DEFINE j == 4 + i
  <2>1. j \in 1..(4 + Len(held)) /\ o + j = o + 4 + i
    BY <1>1, <1>2
  <2>2. c[j] = held[i]
    BY <1>1
  <2> HIDE DEF j
  <2>3. cells[o + j] = c[j]
    BY <1>2, <2>1
  <2> QED BY <2>1, <2>2, <2>3
<1>8. o + 4 \in Nat /\ o + 4 + Len(held) <= Len(cells) /\ to \in 0..Len(cells)
  <2>1. Len(cells) \in Nat
    BY DEF WalksIn
  <2> QED BY <1>1, <1>2, <2>1 DEF to
<1> QED BY <1>2, <1>6, <1>7, <1>8 DEF to, Placed

(* What an animation frame holds, and that the chunks differ. *)
Pair(zero) == Profile(zero) \o Picture(TRUE)

(* What a frame may hold has an even length. *)
LEMMA HeldShape ==
  ASSUME NEW h \in Held
  PROVE  /\ h \in Seq(WebPCells) /\ Len(h) \in Nat /\ Len(h) % 2 = 0
         /\ h = <<>> \/ h = Picture(TRUE) \/ h = Picture(FALSE) \/ h = Profile(TRUE) \/ h = Pair(FALSE) \/ h = Pair(TRUE)
<1>1. h = <<>> \/ h = Picture(TRUE) \/ h = Picture(FALSE) \/ h = Profile(TRUE) \/ h = Pair(FALSE) \/ h = Pair(TRUE)
  BY DEF Held, Pair
<1>2. <<>> \in Seq(WebPCells) /\ Len(<<>>) = 0 /\ 0 % 2 = 0 /\ 6 % 2 = 0 /\ 12 % 2 = 0
  OBVIOUS
<1>3. \A z \in BOOLEAN : /\ Picture(z) \in Seq(WebPCells) /\ Len(Picture(z)) = 6
                         /\ Profile(z) \in Seq(WebPCells) /\ Len(Profile(z)) = 6
                         /\ Pair(z) \in Seq(WebPCells) /\ Len(Pair(z)) = 12
  <2>1. ASSUME NEW z \in BOOLEAN PROVE Picture(z) \in Seq(WebPCells) /\ Len(Picture(z)) = 6
    BY PictureShape
  <2>2. ASSUME NEW z \in BOOLEAN PROVE Profile(z) \in Seq(WebPCells) /\ Len(Profile(z)) = 6
    BY ProfileShape
  <2>3. ASSUME NEW z \in BOOLEAN PROVE Pair(z) \in Seq(WebPCells) /\ Len(Pair(z)) = 12
    BY PairShape DEF Pair
  <2> QED BY <2>1, <2>2, <2>3
<1>4. TRUE \in BOOLEAN /\ FALSE \in BOOLEAN
  OBVIOUS
<1> DEFINE Even(s) == s \in Seq(WebPCells) /\ (Len(s) = 0 \/ Len(s) = 6 \/ Len(s) = 12)
<1>5. Even(<<>>) /\ Even(Picture(TRUE)) /\ Even(Picture(FALSE)) /\ Even(Profile(TRUE)) /\ Even(Pair(TRUE)) /\ Even(Pair(FALSE))
  BY <1>2, <1>3, <1>4
<1>6. Even(h)
  <2> HIDE DEF Even
  <2> QED BY <1>1, <1>5
<1>7. Len(h) \in Nat /\ Len(h) % 2 = 0
  <2> DEFINE n == Len(h)
  <2>1. n = 0 \/ n = 6 \/ n = 12
    BY <1>6
  <2> HIDE DEF n
  <2>2. n \in Nat /\ n % 2 = 0
    BY <1>2, <2>1
  <2> QED BY <2>2 DEF n
<1> QED BY <1>1, <1>6, <1>7

(* Chunks of different kinds are different. *)
LEMMA ChunksDiffer ==
  /\ Picture(TRUE) # Picture(FALSE) /\ Profile(TRUE) # Profile(FALSE) /\ Pair(TRUE) # Pair(FALSE)
  /\ \A y, z \in BOOLEAN : Picture(y) # Profile(z)
  /\ \A y \in BOOLEAN : Picture(y) # <<>> /\ Profile(y) # <<>> /\ Pair(y) # <<>>
  /\ \A y, z \in BOOLEAN : Pair(y) # Picture(z) /\ Pair(y) # Profile(z)
<1>1. \A z \in BOOLEAN : /\ Len(Picture(z)) = 6 /\ Picture(z)[1].tag = "VP8"
                         /\ Picture(z)[3].tag = IF z THEN "frame" ELSE "x"
  BY PictureShape
<1>2. \A z \in BOOLEAN : /\ Len(Profile(z)) = 6 /\ Profile(z)[1].tag = "ICCP"
                         /\ Profile(z)[6].tag = IF z THEN "zero" ELSE "x"
  BY ProfileShape
<1>3. \A z \in BOOLEAN : Len(Pair(z)) = 12 /\ Pair(z)[6] = Profile(z)[6]
  <2>1. ASSUME NEW z \in BOOLEAN PROVE Len(Pair(z)) = 12 /\ Pair(z)[6] = Profile(z)[6]
    <3>1. Len(Pair(z)) = 12 /\ \A i \in 1..6 : Pair(z)[i] = Profile(z)[i]
      BY PairShape DEF Pair
    <3> QED BY <3>1
  <2> QED BY <2>1
<1>4. Picture(TRUE)[3].tag = "frame" /\ Picture(FALSE)[3].tag = "x"
      /\ Profile(TRUE)[6].tag = "zero" /\ Profile(FALSE)[6].tag = "x"
  BY <1>1, <1>2
<1>5. Picture(TRUE) # Picture(FALSE) /\ Profile(TRUE) # Profile(FALSE)
  BY <1>4
<1>6. Pair(TRUE) # Pair(FALSE)
  <2>1. Pair(TRUE)[6].tag = "zero" /\ Pair(FALSE)[6].tag = "x"
    BY <1>3, <1>4
  <2> QED BY <2>1
<1>7. \A y, z \in BOOLEAN : Picture(y) # Profile(z)
  BY <1>1, <1>2
<1>8. Len(<<>>) = 0
  OBVIOUS
<1>9. \A y \in BOOLEAN : Picture(y) # <<>> /\ Profile(y) # <<>> /\ Pair(y) # <<>>
  <2>1. ASSUME NEW y \in BOOLEAN PROVE Len(Picture(y)) # 0 /\ Len(Profile(y)) # 0 /\ Len(Pair(y)) # 0
    BY <1>1, <1>2, <1>3
  <2> QED BY <1>8, <2>1
<1>10. \A y, z \in BOOLEAN : Pair(y) # Picture(z) /\ Pair(y) # Profile(z)
  <2>1. ASSUME NEW y \in BOOLEAN, NEW z \in BOOLEAN PROVE Len(Pair(y)) # Len(Picture(z)) /\ Len(Pair(y)) # Len(Profile(z))
    <3>1. Len(Pair(y)) = 12 /\ Len(Picture(z)) = 6 /\ Len(Profile(z)) = 6 /\ 12 # 6
      BY <1>1, <1>2, <1>3
    <3> QED BY <3>1
  <2> QED BY <2>1
<1> QED BY <1>5, <1>6, <1>7, <1>9, <1>10

(* Two animation frames are the same if they hold the same. *)
LEMMA AnimationsDiffer ==
  ASSUME NEW h \in Held, NEW g \in Held, Animation(h) = Animation(g)
  PROVE  h = g
<1>1. /\ h \in Seq(WebPCells) /\ Len(h) \in Nat /\ Len(h) % 2 = 0
      /\ g \in Seq(WebPCells) /\ Len(g) \in Nat /\ Len(g) % 2 = 0
  BY HeldShape
<1>2. Len(Animation(h)) = 4 + Len(h) /\ \A i \in 1..Len(h) : Animation(h)[4 + i] = h[i]
  BY <1>1, AnimationShape
<1>3. Len(Animation(g)) = 4 + Len(g) /\ \A i \in 1..Len(g) : Animation(g)[4 + i] = g[i]
  BY <1>1, AnimationShape
<1>4. Len(h) = Len(g)
  BY <1>1, <1>2, <1>3
<1>5. \A i \in 1..Len(h) : h[i] = g[i]
  BY <1>2, <1>3, <1>4
<1> QED BY <1>1, <1>4, <1>5, SeqEqual

WebPSettles == HoldsPicture \cup {Picture(FALSE), Profile(FALSE)}

(* Which chunks end the walk, and which of them hold a picture. *)
LEMMA ChunksSettle ==
  /\ \A z \in BOOLEAN : (Picture(z) \in HoldsPicture <=> z) /\ Picture(z) \in WebPSettles
  /\ \A z \in BOOLEAN : Profile(z) \notin HoldsPicture /\ (Profile(z) \in WebPSettles <=> ~z)
  /\ \A h \in Held : /\ Animation(h) \in HoldsPicture <=> h = Picture(TRUE) \/ h = Pair(TRUE)
                     /\ Animation(h) \in WebPSettles <=> Animation(h) \in HoldsPicture
<1>1. \A c : c \in HoldsPicture <=> c = Picture(TRUE) \/ c = Animation(Picture(TRUE)) \/ c = Animation(Pair(TRUE))
  BY DEF HoldsPicture, Pair
<1>2. \A c : c \in WebPSettles <=> c \in HoldsPicture \/ c = Picture(FALSE) \/ c = Profile(FALSE)
  BY DEF WebPSettles
<1>3. \A h \in Held : Animation(h)[1].tag = "ANMF"
  BY HeldShape, AnimationShape
<1>4. \A z \in BOOLEAN : Picture(z)[1].tag = "VP8"
  BY PictureShape
<1>5. \A z \in BOOLEAN : Profile(z)[1].tag = "ICCP"
  BY ProfileShape
<1>6. Picture(TRUE) \in Held /\ Pair(TRUE) \in Held
  BY DEF Held, Pair
<1>7. \A z \in BOOLEAN, h \in Held : Picture(z) # Animation(h) /\ Profile(z) # Animation(h)
  BY <1>3, <1>4, <1>5
<1>8. \A z \in BOOLEAN : z = TRUE \/ z = FALSE
  OBVIOUS
<1>9. ASSUME NEW z \in BOOLEAN PROVE (Picture(z) \in HoldsPicture <=> z) /\ Picture(z) \in WebPSettles
  BY <1>1, <1>2, <1>6, <1>7, <1>8, ChunksDiffer
<1>10. ASSUME NEW z \in BOOLEAN PROVE Profile(z) \notin HoldsPicture /\ (Profile(z) \in WebPSettles <=> ~z)
  BY <1>1, <1>2, <1>6, <1>7, <1>8, ChunksDiffer
<1>11. ASSUME NEW h \in Held
       PROVE  /\ Animation(h) \in HoldsPicture <=> h = Picture(TRUE) \/ h = Pair(TRUE)
              /\ Animation(h) \in WebPSettles <=> Animation(h) \in HoldsPicture
  <2>1. \A g \in Held : Animation(h) = Animation(g) => h = g
    BY AnimationsDiffer
  <2>2. Animation(h) = Animation(Picture(TRUE)) <=> h = Picture(TRUE)
    BY <1>6, <2>1
  <2>3. Animation(h) = Animation(Pair(TRUE)) <=> h = Pair(TRUE)
    BY <1>6, <2>1
  <2>4. Animation(h) # Picture(TRUE) /\ Animation(h) # Picture(FALSE) /\ Animation(h) # Profile(FALSE)
    BY <1>7
  <2> QED BY <1>1, <1>2, <2>2, <2>3, <2>4
<1> QED BY <1>9, <1>10, <1>11

(* A pair in the cells is a profile and, behind it, a picture. *)
LEMMA PairPlaced ==
  ASSUME NEW cells, NEW o, NEW z \in BOOLEAN, Placed(cells, o, Pair(z)), Len(cells) \in Nat
  PROVE  Placed(cells, o, Profile(z)) /\ Placed(cells, o + 6, Picture(TRUE)) /\ o \in Nat /\ o + 12 <= Len(cells)
<1>1. Len(Pair(z)) = 12 /\ \A i \in 1..6 : Pair(z)[i] = Profile(z)[i] /\ Pair(z)[6 + i] = Picture(TRUE)[i]
  BY PairShape DEF Pair
<1>2. Len(Profile(z)) = 6
  BY ProfileShape
<1>3. Len(Picture(TRUE)) = 6
  BY PictureShape
<1> DEFINE c == Pair(z)
           a == Profile(z)
           b == Picture(TRUE)
<1> HIDE DEF c, a, b
<1>4. Len(c) = 12 /\ Len(a) = 6 /\ Len(b) = 6 /\ \A i \in 1..6 : c[i] = a[i] /\ c[6 + i] = b[i]
  BY <1>1, <1>2, <1>3 DEF a, b, c
<1>5. o \in Nat /\ o + 12 <= Len(cells) /\ \A i \in 1..12 : cells[o + i] = c[i]
  BY <1>4 DEF Placed, c
<1>6. ASSUME NEW i \in 1..6 PROVE cells[o + i] = a[i] /\ cells[(o + 6) + i] = b[i]
  <2> DEFINE j == 6 + i
  <2>0. c[i] = a[i] /\ c[j] = b[i]
    BY <1>4
  <2>1. i \in 1..12 /\ j \in 1..12 /\ o + j = (o + 6) + i
    <3>1. o \in Nat /\ i \in 1..6
      BY <1>5
    <3> QED BY ONLY <3>1
  <2> HIDE DEF j
  <2>2. cells[o + i] = c[i] /\ cells[o + j] = c[j]
    BY <1>5, <2>1
  <2> QED BY <2>0, <2>1, <2>2
<1>7. Placed(cells, o, a)
  BY <1>4, <1>5, <1>6 DEF Placed
<1>8. Placed(cells, o + 6, b)
  <2>1. o + 6 \in Nat /\ (o + 6) + 6 <= Len(cells)
    BY <1>5
  <2> QED BY <1>4, <1>6, <2>1 DEF Placed
<1> QED BY <1>5, <1>7, <1>8 DEF a, b

(* What an animation frame holds is a picture, or is not. *)
LEMMA HeldRead ==
  ASSUME NEW F, NEW cells, WalksIn(F, cells), NEW o, NEW h \in Held, Placed(cells, o, h)
  PROVE  F[<<o, o + Len(h)>>] <=> h = Picture(TRUE) \/ h = Pair(TRUE)
<1>1. Len(cells) \in Nat /\ o \in Nat /\ o + Len(h) <= Len(cells) /\ Len(h) \in Nat
  BY HeldShape DEF Placed, WalksIn
<1> DEFINE e == o + Len(h)
<1>2. o \in 0..Len(cells) /\ e \in 0..Len(cells)
  BY <1>1
<1>3. \A z \in BOOLEAN : Len(Picture(z)) = 6
  BY PictureShape
<1>4. \A z \in BOOLEAN : Len(Profile(z)) = 6
  BY ProfileShape
<1>5. \A z \in BOOLEAN : Len(Pair(z)) = 12
  BY PairShape DEF Pair
<1>6. TRUE \in BOOLEAN /\ FALSE \in BOOLEAN
  OBVIOUS
<1>7. CASE h = <<>>
  <2>1. o + 2 > e
    BY <1>1, <1>7
  <2> HIDE DEF e
  <2>2. ~F[<<o, e>>]
    BY <1>2, <2>1, NothingRead
  <2>3. h # Picture(TRUE) /\ h # Pair(TRUE)
    BY <1>7, <1>6, ChunksDiffer
  <2> QED BY <2>2, <2>3 DEF e
<1>8. ASSUME NEW z \in BOOLEAN, h = Picture(z) PROVE F[<<o, e>>] <=> h = Picture(TRUE) \/ h = Pair(TRUE)
  <2>1. Placed(cells, o, Picture(z)) /\ e = o + 6
    BY <1>3, <1>8
  <2> HIDE DEF e
  <2>2. F[<<o, e>>] <=> o + 6 <= e /\ z
    BY <1>2, <2>1, PictureRead
  <2>3. o + 6 <= e
    BY <1>1, <2>1
  <2>4. h # Pair(TRUE) /\ (h = Picture(TRUE) <=> z)
    BY <1>6, <1>8, ChunksDiffer
  <2> QED BY <2>2, <2>3, <2>4
<1>9. CASE h = Profile(TRUE)
  <2>1. Placed(cells, o, Profile(TRUE)) /\ e = o + 6
    BY <1>4, <1>6, <1>9
  <2> HIDE DEF e
  <2>2. F[<<o, e>>] <=> o + 6 <= e /\ TRUE /\ F[<<o + 6, e>>]
    BY <1>2, <1>6, <2>1, ProfileRead
  <2>3. ~F[<<e, e>>]
    <3>1. e + 2 > e
      BY <1>2
    <3> QED BY <1>2, <3>1, NothingRead
  <2>4. h # Pair(TRUE) /\ h # Picture(TRUE)
    <3>1. \A y, z \in BOOLEAN : Pair(y) # Profile(z) /\ Picture(y) # Profile(z)
      BY ChunksDiffer
    <3> QED BY <1>6, <1>9, <3>1
  <2>5. ~F[<<o + 6, e>>]
    BY <2>1, <2>3
  <2>6. ~F[<<o, e>>]
    BY <2>2, <2>5
  <2> QED BY <2>4, <2>6 DEF e
<1>10. ASSUME NEW z \in BOOLEAN, h = Pair(z) PROVE F[<<o, e>>] <=> h = Picture(TRUE) \/ h = Pair(TRUE)
  <2>1. Placed(cells, o, Profile(z)) /\ Placed(cells, o + 6, Picture(TRUE)) /\ e = o + 12 /\ o \in Nat
    BY <1>1, <1>5, <1>10, PairPlaced
  <2> HIDE DEF e
  <2>2. F[<<o, e>>] <=> o + 6 <= e /\ z /\ F[<<o + 6, e>>]
    BY <1>2, <2>1, ProfileRead
  <2>3. F[<<o + 6, e>>] <=> (o + 6) + 6 <= e /\ TRUE
    <3> DEFINE o2 == o + 6
    <3>1. Placed(cells, o2, Picture(TRUE))
      BY <2>1
    <3> HIDE DEF o2
    <3>2. F[<<o2, e>>] <=> o2 + 6 <= e /\ TRUE
      BY <1>2, <1>6, <3>1, PictureRead
    <3> QED BY <3>2 DEF o2
  <2>4. o + 6 <= e /\ (o + 6) + 6 <= e
    BY <2>1
  <2>5. h # Picture(TRUE) /\ (h = Pair(TRUE) <=> z)
    BY <1>6, <1>10, ChunksDiffer
  <2> QED BY <2>2, <2>3, <2>4, <2>5
<1>11. h = <<>> \/ h = Picture(TRUE) \/ h = Picture(FALSE) \/ h = Profile(TRUE) \/ h = Pair(FALSE) \/ h = Pair(TRUE)
  BY HeldShape
<1>12. /\ \A z \in BOOLEAN : h = Picture(z) \/ h = Pair(z) => (F[<<o, e>>] <=> h = Picture(TRUE) \/ h = Pair(TRUE))
       /\ h = <<>> \/ h = Profile(TRUE) => (F[<<o, e>>] <=> h = Picture(TRUE) \/ h = Pair(TRUE))
  BY <1>7, <1>8, <1>9, <1>10
<1> HIDE DEF e
<1>13. F[<<o, e>>] <=> h = Picture(TRUE) \/ h = Pair(TRUE)
  BY <1>6, <1>11, <1>12
<1> QED BY <1>13 DEF e

(* A chunk of an image: it holds a picture, ends the walk without one, or is passed. *)
WebPReads(F, cells, o, e, c) ==
  F[<<o, e>>] <=> o + Len(c) <= e /\ IF c \in WebPSettles THEN c \in HoldsPicture ELSE F[<<o + Len(c), e>>]

(* The walk does with every chunk what its kind says. *)
LEMMA WebPChunkRead ==
  ASSUME NEW F, NEW cells, WalksIn(F, cells), NEW o, NEW e \in 0..Len(cells), NEW c \in WebPChunks, c # <<>>,
         Placed(cells, o, c)
  PROVE  WebPReads(F, cells, o, e, c)
<1>1. (\E z \in BOOLEAN : c = Picture(z) \/ c = Profile(z)) \/ (\E h \in Held : c = Animation(h))
  BY DEF WebPChunks
<1>2. ASSUME NEW z \in BOOLEAN, c = Picture(z) PROVE WebPReads(F, cells, o, e, c)
  <2>1. Len(c) = 6
    BY <1>2, PictureShape
  <2>2. F[<<o, e>>] <=> o + 6 <= e /\ z
    BY <1>2, PictureRead
  <2>3. c \in WebPSettles /\ (c \in HoldsPicture <=> z)
    BY <1>2, ChunksSettle
  <2> QED BY <2>1, <2>2, <2>3 DEF WebPReads
<1>3. ASSUME NEW z \in BOOLEAN, c = Profile(z) PROVE WebPReads(F, cells, o, e, c)
  <2>1. Len(c) = 6
    BY <1>3, ProfileShape
  <2>2. F[<<o, e>>] <=> o + 6 <= e /\ z /\ F[<<o + 6, e>>]
    BY <1>3, ProfileRead
  <2>3. c \notin HoldsPicture /\ (c \in WebPSettles <=> ~z)
    BY <1>3, ChunksSettle
  <2> QED BY <2>1, <2>2, <2>3 DEF WebPReads
<1>4. ASSUME NEW h \in Held, c = Animation(h) PROVE WebPReads(F, cells, o, e, c)
  <2>1. h \in Seq(WebPCells) /\ Len(h) \in Nat /\ Len(h) % 2 = 0
    BY HeldShape
  <2>2. Len(c) = 4 + Len(h)
    BY <1>4, <2>1, AnimationShape
  <2>3. /\ F[<<o, e>>] <=> /\ o + (4 + Len(h)) <= e
                           /\ \/ Len(h) > 0 /\ F[<<o + 4, o + (4 + Len(h))>>]
                              \/ F[<<o + (4 + Len(h)), e>>]
        /\ Placed(cells, o + 4, h) /\ o \in Nat
    BY <1>4, <2>1, AnimationRead
  <2>4. F[<<o + 4, o + (4 + Len(h))>>] <=> h = Picture(TRUE) \/ h = Pair(TRUE)
    <3> DEFINE o4 == o + 4
    <3>1. Placed(cells, o4, h)
      BY <2>3
    <3>3. o4 + Len(h) = o + (4 + Len(h))
      <4> DEFINE n == Len(h)
      <4>1. n \in Nat /\ o \in Nat
        BY <2>1, <2>3
      <4> HIDE DEF n
      <4>2. o4 + n = o + (4 + n)
        BY <4>1
      <4> QED BY <4>2 DEF n
    <3> HIDE DEF o4
    <3>2. F[<<o4, o4 + Len(h)>>] <=> h = Picture(TRUE) \/ h = Pair(TRUE)
      BY <3>1, HeldRead
    <3>4. F[<<o4, o + (4 + Len(h))>>] <=> h = Picture(TRUE) \/ h = Pair(TRUE)
      BY <3>2, <3>3
    <3> QED BY <3>4 DEF o4
  <2>5. (c \in HoldsPicture <=> h = Picture(TRUE) \/ h = Pair(TRUE)) /\ (c \in WebPSettles <=> c \in HoldsPicture)
    BY <1>4, ChunksSettle
  <2>6. h = Picture(TRUE) \/ h = Pair(TRUE) => Len(h) > 0
    <3>1. Len(Picture(TRUE)) = 6
      BY PictureShape
    <3>2. Len(Pair(TRUE)) = 12
      BY PairShape DEF Pair
    <3>3. 6 > 0 /\ 12 > 0
      OBVIOUS
    <3>4. h = Picture(TRUE) => Len(h) > 0
      BY <3>1, <3>3
    <3>5. h = Pair(TRUE) => Len(h) > 0
      BY <3>2, <3>3
    <3> QED BY <3>4, <3>5
  <2> DEFINE p == F[<<o + 4, o + (4 + Len(h))>>]
             q == F[<<o + (4 + Len(h)), e>>]
             l == o + (4 + Len(h)) <= e
             held == h = Picture(TRUE) \/ h = Pair(TRUE)
             some == Len(h) > 0
             read == F[<<o, e>>]
             holds == c \in HoldsPicture
             settles == c \in WebPSettles
  <2>7. F[<<o, e>>] <=> l /\ IF c \in WebPSettles THEN c \in HoldsPicture ELSE q
    <3>1. (read <=> l /\ ((some /\ p) \/ q)) /\ (p <=> held) /\ (held => some)
      BY <2>3, <2>4, <2>6
    <3>2. (holds <=> held) /\ (settles <=> held)
      BY <2>5
    <3> HIDE DEF p, q, l, held, some, read, holds, settles
    <3>3. read <=> l /\ IF settles THEN holds ELSE q
      BY <3>1, <3>2, Zenon
    <3> QED BY <3>3 DEF q, l, read, holds, settles
  <2> QED BY <2>2, <2>7 DEF WebPReads
<1> QED BY <1>1, <1>2, <1>3, <1>4

(* Blocks of even lengths make a whole of an even length. *)
LEMMA EvenBlocks ==
  ASSUME NEW S, NEW seqs \in Seq(Seq(S)), \A k \in 1..Len(seqs) : Len(seqs[k]) % 2 = 0
  PROVE  Len(Cells(seqs)) \in Nat /\ Len(Cells(seqs)) % 2 = 0
<1> DEFINE n == Len(seqs)
           N == {m \in Nat : m + 1 \in 1..(n + 1) => Begins(seqs, m + 1) % 2 = 0}
<1>1. n \in Nat /\ \A k \in 1..(n + 1) : Begins(seqs, k) \in Nat
  BY BlockBegins, LenProperties
<1>2. 0 \in N
  <2>1. Begins(seqs, 1) = 0 /\ 0 % 2 = 0 /\ 0 + 1 = 1
    BY BlockBegins
  <2> QED BY <2>1
<1>3. ASSUME NEW m \in Nat, m \in N PROVE m + 1 \in N
  <2> SUFFICES ASSUME m + 1 + 1 \in 1..(n + 1) PROVE Begins(seqs, m + 1 + 1) % 2 = 0
    OBVIOUS
  <2> DEFINE k == m + 1
             b == Begins(seqs, k)
             l == Len(seqs[k])
  <2>1. k \in 1..n /\ k \in 1..(n + 1)
    BY <1>1
  <2> HIDE DEF k
  <2>2. b \in Nat /\ b % 2 = 0
    BY <1>1, <1>3, <2>1 DEF k
  <2>3. Begins(seqs, k + 1) = b + l /\ l \in Nat /\ l % 2 = 0
    BY <2>1, BlockPlaced
  <2> HIDE DEF b, l
  <2>4. (b + l) % 2 = 0
    BY <2>2, <2>3
  <2> QED BY <2>3, <2>4 DEF k
<1> HIDE DEF N
<1>4. Nat \subseteq N
  BY <1>2, <1>3, NatSetInduction
<1>5. Begins(seqs, n + 1) % 2 = 0
  <2>1. n \in N /\ n + 1 \in 1..(n + 1)
    BY <1>1, <1>4
  <2> QED BY <2>1 DEF N
<1>6. Begins(seqs, n + 1) = Len(Cells(seqs))
  BY BlockBegins DEF Cells
<1>7. n + 1 \in 1..(n + 1)
  BY <1>1
<1> QED BY <1>1, <1>5, <1>6, <1>7

(* Every chunk of an image has an even length. *)
LEMMA WebPChunkShape ==
  ASSUME NEW c \in WebPChunks, c # <<>>
  PROVE  c \in Seq(WebPCells) /\ Len(c) \in Nat /\ Len(c) % 2 = 0
<1>1. (\E z \in BOOLEAN : c = Picture(z) \/ c = Profile(z)) \/ (\E h \in Held : c = Animation(h))
  BY DEF WebPChunks
<1>2. 6 \in Nat /\ 6 % 2 = 0
  OBVIOUS
<1>3. ASSUME NEW z \in BOOLEAN, c = Picture(z) PROVE c \in Seq(WebPCells) /\ Len(c) \in Nat /\ Len(c) % 2 = 0
  <2>1. c \in Seq(WebPCells) /\ Len(c) = 6
    BY <1>3, PictureShape
  <2> QED BY <1>2, <2>1
<1>4. ASSUME NEW z \in BOOLEAN, c = Profile(z) PROVE c \in Seq(WebPCells) /\ Len(c) \in Nat /\ Len(c) % 2 = 0
  <2>1. c \in Seq(WebPCells) /\ Len(c) = 6
    BY <1>4, ProfileShape
  <2> QED BY <1>2, <2>1
<1>5. ASSUME NEW h \in Held, c = Animation(h) PROVE c \in Seq(WebPCells) /\ Len(c) \in Nat /\ Len(c) % 2 = 0
  <2> DEFINE n == Len(h)
  <2>1. h \in Seq(WebPCells) /\ n \in Nat /\ n % 2 = 0
    BY HeldShape
  <2>2. c \in Seq(WebPCells) /\ Len(c) = 4 + n
    BY <1>5, <2>1, AnimationShape
  <2> HIDE DEF n
  <2>3. 4 + n \in Nat /\ (4 + n) % 2 = 0
    BY <2>1
  <2> QED BY <2>2, <2>3
<1> QED BY <1>1, <1>3, <1>4, <1>5

(* What the first chunk of an image says: how long it is, and, if it        *)
(* announces an extended file, whether that has an alpha channel.           *)
LEMMA ExtendedShape ==
  ASSUME NEW alpha \in BOOLEAN
  PROVE  LET c == Extended(alpha)
         IN  /\ c \in Seq(WebPCells) /\ Len(c) = 4
             /\ c[1].tag = "VP8X" /\ c[2].n = 2 /\ c[3].tag = IF alpha THEN "alpha" ELSE "x"
<1> DEFINE a == Cell(IF alpha THEN "alpha" ELSE "x", 9)
           b == Cell("x", 9)
           data == <<a, b>>
           c == Extended(alpha)
<1>1. a \in WebPCells /\ b \in WebPCells /\ a.tag = IF alpha THEN "alpha" ELSE "x"
  BY WebPCellShape DEF WebPTags
<1>2. c = Chunk("VP8X", data, TRUE)
  BY DEF Extended
<1> HIDE DEF a, b
<1>3. data \in Seq(WebPCells) /\ Len(data) = 2 /\ data[1] = a
  BY <1>1
<1> HIDE DEF data, c
<1>4. /\ c \in Seq(WebPCells) /\ Len(c) = Len(data) + 2 + (IF Len(data) % 2 = 1 THEN 1 ELSE 0)
      /\ c[1].tag = "VP8X" /\ c[2].n = Len(data) /\ \A i \in 1..Len(data) : c[2 + i] = data[i]
  <2>1. "VP8X" \in WebPTags /\ TRUE \in BOOLEAN
    BY DEF WebPTags
  <2>2. IsChunk(Chunk("VP8X", data, TRUE), "VP8X", data, TRUE)
    BY <1>3, <2>1, ChunkShape
  <2> QED BY <1>2, <1>3, <2>2 DEF IsChunk
<1>5. 2 % 2 = 0 /\ 2 + 2 + 0 = 4 /\ 1 \in 1..2 /\ 2 + 1 = 3
  OBVIOUS
<1>6. Len(c) = 4 /\ c[2].n = 2
  BY <1>3, <1>4, <1>5
<1>7. c[3] = a
  <2>1. c[2 + 1] = data[1]
    BY <1>3, <1>4, <1>5
  <2> QED BY <1>3, <1>5, <2>1
<1> QED BY <1>1, <1>4, <1>6, <1>7 DEF c

(* A walk over the chunks behind the first one: the first chunk that        *)
(* settles it decides, up to the end that was announced. hasImageChunk.     *)
WebPSaid(chunks, yes) == [k \in 1..Len(chunks) |-> IF chunks[k] \in HoldsPicture THEN yes ELSE "invalid"]

ChunksDecide(F, cells, chunks, f, e, yes) ==
  LET answer == IF F[<<f, e>>] THEN yes ELSE "invalid"
      truth == FirstSettled(chunks, WebPSettles, WebPSaid(chunks, yes), "invalid")
  IN  answer \in {"invalid", truth} /\ (e = Len(cells) => answer = truth)

(* So the first chunk that ends the walk decides, unless the file ends      *)
(* before it.                                                               *)
LEMMA WebPChunksDecide ==
  ASSUME NEW F, NEW cells, WalksIn(F, cells), NEW chunks \in Seq(WebPChunks \ {<<>>}), NEW f \in Nat,
         Len(cells) = f + Len(Cells(chunks)), \A i \in 1..Len(Cells(chunks)) : cells[f + i] = Cells(chunks)[i],
         NEW e \in 0..Len(cells), f <= e, NEW yes
  PROVE  ChunksDecide(F, cells, chunks, f, e, yes)
<1> DEFINE n == Len(chunks)
           all == Len(Cells(chunks))
           w == e - f
           G == [o \in 0..w |-> IF F[<<f + o, e>>] THEN yes ELSE "invalid"]
           said == WebPSaid(chunks, yes)
           truth == FirstSettled(chunks, WebPSettles, said, "invalid")
<1>1. chunks \in Seq(Seq(WebPCells))
  <2>1. WebPChunks \ {<<>>} \subseteq Seq(WebPCells)
    BY WebPChunkShape
  <2> QED BY <2>1, SeqMonotonic
<1>2. n \in Nat /\ all \in Nat /\ Len(cells) = f + all /\ Len(cells) \in Nat
  BY <1>1, WindowOfBlocks DEF WalksIn
<1>3. w \in Nat /\ w <= all /\ f + w = e
  BY <1>2
<1>4. \A o \in 0..w : G[o] = IF F[<<f + o, e>>] THEN yes ELSE "invalid"
  OBVIOUS
<1> HIDE DEF G
<1>5. G[w] = "invalid"
  <2>1. e \in 0..Len(cells) /\ e + 2 > e
    BY <1>2
  <2>2. ~F[<<e, e>>]
    BY <2>1, NothingRead
  <2>3. w \in 0..w
    BY <1>3
  <2> HIDE DEF w
  <2>4. G[w] = IF F[<<f + w, e>>] THEN yes ELSE "invalid"
    BY <1>4, <2>3
  <2>5. ~F[<<f + w, e>>]
    BY <1>3, <2>2
  <2> QED BY <2>4, <2>5
<1> HIDE DEF w
<1>6. ASSUME NEW k \in 1..n, Begins(chunks, k) <= w
      PROVE  G[Begins(chunks, k)] =
               IF Begins(chunks, k + 1) > w THEN "invalid"
               ELSE IF chunks[k] \in WebPSettles THEN said[k] ELSE G[Begins(chunks, k + 1)]
  <2> DEFINE b == Begins(chunks, k)
             c == chunks[k]
             l == Len(c)
             o == f + b
  <2>1. c \in WebPChunks /\ c # <<>>
    <3>1. c \in WebPChunks \ {<<>>}
      BY ElementOfSeq DEF n
    <3> QED BY <3>1
  <2>2. l \in Nat
    BY <2>1, WebPChunkShape
  <2>3. /\ b \in Nat /\ Begins(chunks, k + 1) = b + l /\ b + l <= all
        /\ \A i \in 1..l : Cells(chunks)[b + i] = c[i]
    <3>1. k \in 1..Len(chunks)
      BY DEF n
    <3>2. /\ Begins(chunks, k + 1) = Begins(chunks, k) + Len(chunks[k])
          /\ \A i \in 1..Len(chunks[k]) : FlattenSeq(chunks)[Begins(chunks, k) + i] = chunks[k][i]
      BY <1>1, <3>1, BlockPlaced
    <3>3. Begins(chunks, k) \in Nat /\ Begins(chunks, k + 1) <= Len(FlattenSeq(chunks))
      <4>1. k \in 1..(Len(chunks) + 1) /\ k + 1 \in 1..(Len(chunks) + 1)
        BY <1>2
      <4> QED BY <1>1, <4>1, BlockBegins
    <3> QED BY <3>2, <3>3 DEF Cells
  <2>4. said[k] = IF c \in HoldsPicture THEN yes ELSE "invalid"
    BY DEF WebPSaid, n
  <2> HIDE DEF b, c, l, all, said
  <2>5. o \in Nat /\ o + l <= Len(cells)
    BY <1>2, <2>2, <2>3
  <2>6. ASSUME NEW i \in 1..l PROVE cells[o + i] = c[i]
    <3> DEFINE j == b + i
    <3>1. j \in 1..all /\ f + j = o + i
      BY <1>2, <2>2, <2>3
    <3>2. Cells(chunks)[j] = c[i]
      BY <2>3
    <3> HIDE DEF j, o
    <3>3. cells[f + j] = Cells(chunks)[j]
      BY <3>1 DEF all
    <3> QED BY <3>1, <3>2, <3>3
  <2>7. Placed(cells, o, c)
    BY <2>5, <2>6 DEF Placed, l
  <2>8. F[<<o, e>>] <=> o + l <= e /\ IF c \in WebPSettles THEN c \in HoldsPicture ELSE F[<<o + l, e>>]
    <3> HIDE DEF o
    <3>1. WebPReads(F, cells, o, e, c)
      BY <2>1, <2>7, WebPChunkRead
    <3> QED BY <3>1 DEF WebPReads, l
  <2>9. /\ b \in 0..w /\ (o + l <= e <=> b + l <= w) /\ o + l = f + (b + l)
    BY <1>2, <1>3, <1>6, <2>2, <2>3 DEF b
  <2>10. G[b] = IF F[<<o, e>>] THEN yes ELSE "invalid"
    BY <1>4, <2>9
  <2>11. b + l <= w => b + l \in 0..w
    BY <1>3, <2>2, <2>3
  <2>12. b + l <= w => G[b + l] = IF F[<<f + (b + l), e>>] THEN yes ELSE "invalid"
    BY <1>4, <2>11
  <2>13. b + l <= w => G[b + l] = IF F[<<o + l, e>>] THEN yes ELSE "invalid"
    BY <2>9, <2>12
  <2>14. b + l > w <=> ~(b + l <= w)
    BY <1>3, <2>2, <2>3
  <2> HIDE DEF o
  <2> DEFINE next == b + l
             within == next <= w
  <2>15. G[b] = IF ~within THEN "invalid" ELSE IF c \in WebPSettles THEN said[k] ELSE G[next]
    <3>1. CASE ~within
      <4>1. ~F[<<o, e>>]
        BY <2>8, <2>9, <3>1
      <4> QED BY <2>10, <3>1, <4>1
    <3>2. CASE within
      <4>1. F[<<o, e>>] <=> IF c \in WebPSettles THEN c \in HoldsPicture ELSE F[<<o + l, e>>]
        BY <2>8, <2>9, <3>2
      <4>2. G[next] = IF F[<<o + l, e>>] THEN yes ELSE "invalid"
        BY <2>13, <3>2
      <4> HIDE DEF next
      <4>3. within
        BY <3>2
      <4> HIDE DEF within
      <4>4. CASE c \in WebPSettles
        BY <2>4, <2>10, <4>1, <4>3, <4>4
      <4>5. CASE c \notin WebPSettles
        BY <2>10, <4>1, <4>2, <4>3, <4>5
      <4> QED BY <4>4, <4>5
    <3> QED BY <3>1, <3>2
  <2> QED BY <2>3, <2>14, <2>15 DEF b, c
<1>7. WalksOver(chunks, WebPSettles, said, "invalid", G, w)
  <2> HIDE DEF said
  <2> QED BY <1>6 DEF n, WalksOver
<1>8. G[0] \in {"invalid", truth} /\ (w = Len(Cells(chunks)) => G[0] = truth)
  <2>1. w \in Nat /\ w <= Len(Cells(chunks)) /\ (w = Len(Cells(chunks)) => G[w] = "invalid")
    BY <1>3, <1>5
  <2> HIDE DEF said
  <2>2. truth = FirstSettled(chunks, WebPSettles, said, "invalid")
    OBVIOUS
  <2> HIDE DEF truth
  <2> QED BY ONLY <1>1, <1>7, <2>1, <2>2, FirstBlockDecides
<1>9. G[0] = IF F[<<f, e>>] THEN yes ELSE "invalid"
  <2>1. 0 \in 0..w /\ f + 0 = f
    BY <1>3
  <2> QED BY <1>4, <2>1
<1>10. e = Len(cells) => w = Len(Cells(chunks))
  BY <1>2, <1>3
<1> HIDE DEF truth
<1>11. (IF F[<<f, e>>] THEN yes ELSE "invalid") \in {"invalid", truth}
       /\ (e = Len(cells) => (IF F[<<f, e>>] THEN yes ELSE "invalid") = truth)
  BY <1>8, <1>9, <1>10
<1> QED BY <1>11 DEF truth, said, ChunksDecide

(* The first chunk ends where it says, unless the announced end is before it. *)
LEMMA FirstChunkEnds ==
  ASSUME NEW first \in FirstChunks, NEW cells, Len(cells) \in Nat, Len(first) <= Len(cells),
         \A i \in 1..Len(first) : cells[i] = first[i], NEW riff \in 2..Len(cells)
  PROVE  /\ Len(first) = IF first \in {Extended(TRUE), Extended(FALSE)} THEN 4 ELSE 6
         /\ PaddedEnd(cells, 0, riff) = IF Len(first) > riff THEN -1 ELSE Len(first)
         /\ \A alpha \in BOOLEAN : first = Extended(alpha) =>
              cells[1].tag = "VP8X" /\ cells[2].n = 2 /\ cells[3].tag = IF alpha THEN "alpha" ELSE "x"
         /\ \A good \in BOOLEAN : first = Picture(good) =>
              cells[1].tag = "VP8" /\ (ValidFrame(cells, 0) <=> good) /\ first \notin {Extended(TRUE), Extended(FALSE)}
         /\ first = Profile(TRUE) => cells[1].tag = "ICCP" /\ first \notin {Extended(TRUE), Extended(FALSE)}
<1>1. (\E alpha \in BOOLEAN : first = Extended(alpha)) \/ (\E good \in BOOLEAN : first = Picture(good)) \/ first = Profile(TRUE)
  BY DEF FirstChunks
<1>2. \A alpha \in BOOLEAN : /\ Len(Extended(alpha)) = 4 /\ Extended(alpha)[1].tag = "VP8X" /\ Extended(alpha)[2].n = 2
                             /\ Extended(alpha)[3].tag = IF alpha THEN "alpha" ELSE "x"
  BY ExtendedShape
<1>3. \A good \in BOOLEAN : /\ Len(Picture(good)) = 6 /\ Picture(good)[1].tag = "VP8" /\ Picture(good)[2].n = 4
                            /\ Picture(good)[3].tag = IF good THEN "frame" ELSE "x"
  BY PictureShape
<1>4. Len(Profile(TRUE)) = 6 /\ Profile(TRUE)[1].tag = "ICCP" /\ Profile(TRUE)[2].n = 3 /\ Profile(TRUE)[6].tag = "zero"
  BY ProfileShape
<1>5. PaddedEnd(cells, 0, riff) =
        LET n == cells[2].n
            padded == 2 + n + (n % 2)
        IN  IF padded > riff \/ padded > Len(cells) \/ (n % 2 = 1 /\ cells[padded].tag # "zero") THEN -1 ELSE padded
  BY DEF PaddedEnd
<1>6. ValidFrame(cells, 0) <=> cells[2].n >= 2 /\ cells[3].tag = "frame"
  BY DEF ValidFrame
<1>e. TRUE \in BOOLEAN /\ FALSE \in BOOLEAN
  OBVIOUS
<1>7. ASSUME NEW alpha \in BOOLEAN, first = Extended(alpha)
      PROVE  /\ Len(first) = 4 /\ first[1].tag = "VP8X" /\ first[2].n = 2 /\ cells[1] = first[1] /\ cells[2] = first[2]
             /\ cells[3].tag = IF alpha THEN "alpha" ELSE "x"
             /\ PaddedEnd(cells, 0, riff) = IF 4 > riff THEN -1 ELSE 4
             /\ first \in {Extended(TRUE), Extended(FALSE)}
  <2>1. Len(first) = 4 /\ first[1].tag = "VP8X" /\ first[2].n = 2 /\ first[3].tag = IF alpha THEN "alpha" ELSE "x"
    BY <1>2, <1>7
  <2>2. cells[1] = first[1] /\ cells[2] = first[2] /\ cells[3] = first[3]
    BY <2>1
  <2>3. 2 % 2 = 0 /\ 2 + 2 + 0 = 4 /\ ~(4 > Len(cells)) /\ 0 # 1
    BY <2>1
  <2>4. PaddedEnd(cells, 0, riff) = IF 4 > riff THEN -1 ELSE 4
    BY <1>5, <2>1, <2>2, <2>3
  <2>5. first \in {Extended(TRUE), Extended(FALSE)}
    BY <1>7
  <2> QED BY <2>1, <2>2, <2>4, <2>5
<1>8. ASSUME NEW good \in BOOLEAN, first = Picture(good)
      PROVE  /\ Len(first) = 6 /\ first[1].tag = "VP8" /\ cells[1] = first[1]
             /\ ValidFrame(cells, 0) <=> good
             /\ PaddedEnd(cells, 0, riff) = IF 6 > riff THEN -1 ELSE 6
  <2>1. Len(first) = 6 /\ first[1].tag = "VP8" /\ first[2].n = 4 /\ first[3].tag = IF good THEN "frame" ELSE "x"
    BY <1>3, <1>8
  <2>2. cells[1] = first[1] /\ cells[2] = first[2] /\ cells[3] = first[3]
    BY <2>1
  <2>3. 4 % 2 = 0 /\ 2 + 4 + 0 = 6 /\ ~(6 > Len(cells)) /\ 0 # 1 /\ 4 >= 2
    BY <2>1
  <2>4. PaddedEnd(cells, 0, riff) = IF 6 > riff THEN -1 ELSE 6
    BY <1>5, <2>1, <2>2, <2>3
  <2>5. (IF good THEN "frame" ELSE "x") = "frame" <=> good
    OBVIOUS
  <2>6. ValidFrame(cells, 0) <=> good
    BY <1>6, <2>1, <2>2, <2>3, <2>5
  <2> QED BY <2>1, <2>2, <2>4, <2>6
<1>9. ASSUME first = Profile(TRUE)
      PROVE  /\ Len(first) = 6 /\ first[1].tag = "ICCP" /\ cells[1] = first[1]
             /\ PaddedEnd(cells, 0, riff) = IF 6 > riff THEN -1 ELSE 6
  <2>1. Len(first) = 6 /\ first[1].tag = "ICCP" /\ first[2].n = 3 /\ first[6].tag = "zero"
    BY <1>4, <1>9
  <2>2. cells[1] = first[1] /\ cells[2] = first[2] /\ cells[6] = first[6]
    BY <2>1
  <2>3. 3 % 2 = 1 /\ 2 + 3 + 1 = 6 /\ ~(6 > Len(cells))
    BY <2>1
  <2>4. PaddedEnd(cells, 0, riff) = IF 6 > riff THEN -1 ELSE 6
    BY <1>5, <2>1, <2>2, <2>3
  <2> QED BY <2>1, <2>2, <2>4
<1>10. \A alpha \in BOOLEAN : \A s : s[1].tag # "VP8X" => s # Extended(alpha)
  BY <1>2
<1>11. CASE \E alpha \in BOOLEAN : first = Extended(alpha)
  <2>1. PICK alpha \in BOOLEAN : first = Extended(alpha)
    BY <1>11
  <2>2. /\ Len(first) = 4 /\ first[1].tag = "VP8X" /\ first \in {Extended(TRUE), Extended(FALSE)}
        /\ PaddedEnd(cells, 0, riff) = IF 4 > riff THEN -1 ELSE 4
    BY <1>7, <2>1
  <2>3. (\A good \in BOOLEAN : first # Picture(good)) /\ first # Profile(TRUE)
    BY <1>3, <1>4, <2>2
  <2>4. \A a \in BOOLEAN : first = Extended(a) =>
          cells[1].tag = "VP8X" /\ cells[2].n = 2 /\ cells[3].tag = IF a THEN "alpha" ELSE "x"
    BY <1>7
  <2> QED BY <2>2, <2>3, <2>4
<1>12. CASE \E good \in BOOLEAN : first = Picture(good)
  <2>1. PICK good \in BOOLEAN : first = Picture(good)
    BY <1>12
  <2>2. Len(first) = 6 /\ first[1].tag = "VP8" /\ PaddedEnd(cells, 0, riff) = IF 6 > riff THEN -1 ELSE 6
    BY <1>8, <2>1
  <2>3. (\A a \in BOOLEAN : first # Extended(a)) /\ first # Profile(TRUE)
    BY <1>4, <1>10, <2>2
  <2>4. \A g \in BOOLEAN : first = Picture(g) => cells[1].tag = "VP8" /\ (ValidFrame(cells, 0) <=> g)
    BY <1>8
  <2>5. first \notin {Extended(TRUE), Extended(FALSE)}
    BY <1>e, <2>3
  <2> QED BY <2>2, <2>3, <2>4, <2>5
<1>13. CASE first = Profile(TRUE)
  <2>2. /\ Len(first) = 6 /\ first[1].tag = "ICCP" /\ cells[1] = first[1]
        /\ PaddedEnd(cells, 0, riff) = IF 6 > riff THEN -1 ELSE 6
    BY <1>9, <1>13
  <2>3. (\A a \in BOOLEAN : first # Extended(a)) /\ (\A good \in BOOLEAN : first # Picture(good))
    BY <1>3, <1>10, <2>2
  <2>5. first \notin {Extended(TRUE), Extended(FALSE)}
    BY <1>e, <2>3
  <2> QED BY <2>2, <2>3, <2>5
<1> QED BY <1>1, <1>11, <1>12, <1>13

(* What is said of a WebP file that was read whole and announces an end     *)
(* within it.                                                               *)
WebPWhole(first, chunks, cells, riff) ==
  LET said == FirstSettled(chunks, WebPSettles, WebPSaid(chunks, IF first = Extended(TRUE) THEN "yes" ELSE "no"), "invalid")
      truth == IF first \in {Extended(TRUE), Extended(FALSE)} THEN said
               ELSE IF first = Picture(TRUE) THEN "no" ELSE "invalid"
  IN  WebP(cells, riff) \in {"invalid", truth} /\ (riff = Len(cells) => WebP(cells, riff) = truth)

(* What webpAlpha says of a file is true of its chunks, or that it is       *)
(* invalid; of a whole file it is true.                                     *)
LEMMA WebPReadWhole ==
  ASSUME NEW first \in FirstChunks, NEW chunks \in Seq(WebPChunks \ {<<>>}), NEW cells \in Seq(WebPCells), Len(cells) \in Nat,
         Len(first) \in Nat, Len(Cells(chunks)) \in Nat, Len(cells) = Len(first) + Len(Cells(chunks)),
         \A i \in 1..Len(first) : cells[i] = first[i],
         \A i \in 1..Len(Cells(chunks)) : cells[Len(first) + i] = Cells(chunks)[i],
         NEW riff \in 2..Len(cells), riff % 2 = 0
  PROVE  WebPWhole(first, chunks, cells, riff)
<1> DEFINE f == Len(first)
           yes == IF first = Extended(TRUE) THEN "yes" ELSE "no"
           said == FirstSettled(chunks, WebPSettles, WebPSaid(chunks, yes), "invalid")
           extended == first \in {Extended(TRUE), Extended(FALSE)}
           truth == IF extended THEN said ELSE IF first = Picture(TRUE) THEN "no" ELSE "invalid"
           end == PaddedEnd(cells, 0, riff)
           answer == WebP(cells, riff)
<1>1. /\ f = IF extended THEN 4 ELSE 6
      /\ end = IF f > riff THEN -1 ELSE f
      /\ \A alpha \in BOOLEAN : first = Extended(alpha) =>
           cells[1].tag = "VP8X" /\ cells[2].n = 2 /\ cells[3].tag = IF alpha THEN "alpha" ELSE "x"
      /\ \A good \in BOOLEAN : first = Picture(good) =>
           cells[1].tag = "VP8" /\ (ValidFrame(cells, 0) <=> good) /\ ~extended
      /\ first = Profile(TRUE) => cells[1].tag = "ICCP" /\ ~extended
  <2>1. Len(first) <= Len(cells)
    OBVIOUS
  <2> QED BY <2>1, FirstChunkEnds
<1>2. /\ (\E alpha \in BOOLEAN : first = Extended(alpha)) \/ (\E good \in BOOLEAN : first = Picture(good)) \/ first = Profile(TRUE)
  BY DEF FirstChunks
<1>3. answer = IF end < 0 THEN "invalid"
               ELSE CASE cells[1].tag = "VP8X" /\ cells[2].n = 2 /\ HasImageChunk(cells, end, riff) ->
                           IF cells[3].tag = "alpha" THEN "yes" ELSE "no"
                      [] cells[1].tag = "VP8" /\ ValidFrame(cells, 0) -> "no"
                      [] OTHER -> "invalid"
  <2>1. ~(Len(cells) < 2 \/ riff > Len(cells) \/ riff < 2 \/ riff % 2 = 1)
    <3> DEFINE r == riff % 2
    <3>1. riff <= Len(cells) /\ 2 <= riff /\ r = 0 /\ riff \in Int
      OBVIOUS
    <3> HIDE DEF r
    <3> QED BY <3>1 DEF r
  <2> HIDE DEF end
  <2> QED BY <2>1 DEF WebP, end
<1>4. f \in Nat /\ riff \in Nat /\ riff <= Len(cells) /\ Len(cells) \in Nat /\ f <= Len(cells)
  OBVIOUS
<1> HIDE DEF end, f, answer
<1>5. CASE f > riff
  <2>3. end = IF f > riff THEN -1 ELSE f
    BY <1>1
  <2>2. end = -1 /\ riff # Len(cells)
    BY ONLY <1>4, <1>5, <2>3
  <2>1. answer = "invalid" /\ riff # Len(cells)
    BY <1>3, <2>2
  <2> QED BY <2>1 DEF WebPWhole, answer
<1>6. CASE ~(f > riff)
  <2>a. end = f
    BY <1>1, <1>6
  <2>1. end = f /\ ~(end < 0)
    BY <1>4, <2>a
  <2>2. answer = CASE cells[1].tag = "VP8X" /\ cells[2].n = 2 /\ HasImageChunk(cells, f, riff) ->
                        IF cells[3].tag = "alpha" THEN "yes" ELSE "no"
                   [] cells[1].tag = "VP8" /\ ValidFrame(cells, 0) -> "no"
                   [] OTHER -> "invalid"
    BY <1>3, <2>1
  <2>3. ASSUME NEW alpha \in BOOLEAN, first = Extended(alpha)
        PROVE  answer \in {"invalid", truth} /\ (riff = Len(cells) => answer = truth)
    <3>1. cells[1].tag = "VP8X" /\ cells[2].n = 2 /\ cells[3].tag = IF alpha THEN "alpha" ELSE "x"
      BY <1>1, <2>3
    <3>2. extended
      BY <2>3
    <3>3. yes = IF alpha THEN "yes" ELSE "no"
      <4>1. alpha = TRUE \/ alpha = FALSE
        OBVIOUS
      <4>2. CASE alpha = TRUE
        BY <2>3, <4>2
      <4>3. CASE alpha = FALSE
        <5>1. Extended(FALSE)[3].tag = "x" /\ Extended(TRUE)[3].tag = "alpha"
          BY ExtendedShape
        <5>2. first # Extended(TRUE)
          BY <2>3, <4>3, <5>1
        <5> QED BY <4>3, <5>2
      <4> QED BY <4>1, <4>2, <4>3
    <3>4. truth = said
      BY <3>2
    <3> HIDE DEF truth, extended, said, yes
    <3>5. answer = IF HasImageChunk(cells, f, riff) THEN yes ELSE "invalid"
      BY <2>2, <3>1, <3>3
    <3>6. \A i \in 1..Len(cells) : cells[i].n \in Nat
      <4>1. \A i \in 1..Len(cells) : cells[i] \in WebPCells
        BY ElementOfSeq
      <4> QED BY <4>1 DEF WebPCells
    <3>7. PICK F : /\ \A p \in Points(cells) : F[p] = ImageStep(F, cells, p)
                   /\ \A o, e \in 0..Len(cells) : HasImageChunk(cells, o, e) = F[<<o, e>>]
      BY <3>6, ImageWalkEnds
    <3>8. WalksIn(F, cells)
      BY <3>7 DEF WalksIn
    <3>9. f \in 0..Len(cells) /\ riff \in 0..Len(cells) /\ f <= riff
      BY <1>4, <1>6
    <3>10. answer = IF F[<<f, riff>>] THEN yes ELSE "invalid"
      BY <3>5, <3>7, <3>9
    <3>11. /\ (IF F[<<f, riff>>] THEN yes ELSE "invalid") \in {"invalid", said}
           /\ riff = Len(cells) => (IF F[<<f, riff>>] THEN yes ELSE "invalid") = said
      <4>1. /\ f \in Nat /\ Len(cells) = f + Len(Cells(chunks))
            /\ \A i \in 1..Len(Cells(chunks)) : cells[f + i] = Cells(chunks)[i]
        BY DEF f
      <4>2. f \in Nat /\ riff \in 0..Len(cells) /\ f <= riff
        BY <3>9, <4>1
      <4>3. ChunksDecide(F, cells, chunks, f, riff, yes)
        BY <3>8, <4>1, <4>2, WebPChunksDecide
      <4> QED BY <4>3 DEF said, ChunksDecide
    <3> QED BY <3>4, <3>10, <3>11
  <2>4. ASSUME NEW good \in BOOLEAN, first = Picture(good)
        PROVE  answer \in {"invalid", truth} /\ (riff = Len(cells) => answer = truth)
    <3>1. cells[1].tag = "VP8" /\ (ValidFrame(cells, 0) <=> good) /\ ~extended
      BY <1>1, <2>4
    <3>2. answer = IF good THEN "no" ELSE "invalid"
      BY <2>2, <3>1
    <3>3. first = Picture(TRUE) <=> good
      <4>1. good = TRUE \/ good = FALSE
        OBVIOUS
      <4> QED BY <2>4, <4>1, ChunksDiffer
    <3>4. answer = truth
      BY <3>1, <3>2, <3>3
    <3> QED BY <3>4
  <2>5. CASE first = Profile(TRUE)
    <3>1. cells[1].tag = "ICCP" /\ ~extended
      BY <1>1, <2>5
    <3>2. answer = "invalid"
      BY <2>2, <3>1
    <3>3. first # Picture(TRUE)
      <4>1. TRUE \in BOOLEAN
        OBVIOUS
      <4> QED BY <2>5, <4>1, ChunksDiffer
    <3>4. answer = truth
      BY <3>1, <3>2, <3>3
    <3>5. answer \in {"invalid", truth} /\ (riff = Len(cells) => answer = truth)
      BY <3>4
    <3> QED BY <3>5 DEF WebPWhole, answer
  <2>6. (\E alpha \in BOOLEAN : first = Extended(alpha)) \/ (\E good \in BOOLEAN : first = Picture(good)) =>
          answer \in {"invalid", truth} /\ (riff = Len(cells) => answer = truth)
    BY <2>3, <2>4
  <2> QED BY <1>2, <2>5, <2>6 DEF WebPWhole, answer
<1> QED BY <1>5, <1>6

(* What is said of a WebP image: a file cut short, or one whose announced   *)
(* end is odd or behind the last cell, is invalid; any other is what its    *)
(* chunks say, up to that end. inspectWebP.                                 *)
LEMMA WebPRight ==
  ASSUME NEW image \in Images, image.kind = "webp"
  PROVE  ImageIsHonest(image, InspectImage(image))
<1> DEFINE first == image.first
           chunks == image.chunks
           cut == image.cut
           off == image.off
           rest == Cells(chunks)
           cells == first \o rest
           read == Windowed(cells, cut)
           riff == Len(cells) + off
           yes == IF first = Extended(TRUE) THEN "yes" ELSE "no"
           said == FirstSettled(chunks, WebPSettles, WebPSaid(chunks, yes), "invalid")
           truth == IF first \in {Extended(TRUE), Extended(FALSE)} THEN said
                    ELSE IF first = Picture(TRUE) THEN "no" ELSE "invalid"
<1>1. /\ first \in FirstChunks /\ chunks \in Seq(WebPChunks \ {<<>>}) /\ cut \in Nat
      /\ off = 0 \/ (cut = 0 /\ off \in {-2, -1, 2})
  BY ImageAssumption, BoundedSeqs DEF Images, Lists
<1>2. InspectImage(image) = WebP(read, riff)
  BY DEF InspectImage, ImageCells
<1>3. Truth(image) = truth
  <2>1. Truth(image) = WebPTruth(image)
    BY DEF Truth
  <2>2. CASE first \in {Extended(TRUE), Extended(FALSE)}
    <3> DEFINE settled == Settled(chunks, WebPSettles)
    <3>1. WebPTruth(image) = IF settled = {} THEN "invalid"
                             ELSE IF chunks[Min(settled)] \notin HoldsPicture THEN "invalid" ELSE yes
      BY <2>2 DEF WebPTruth, First, Settled, WebPSettles
    <3>2. said = IF settled = {} THEN "invalid" ELSE WebPSaid(chunks, yes)[Min(settled)]
      BY DEF FirstSettled
    <3>3. settled # {} => Min(settled) \in 1..Len(chunks)
      <4>1. Len(chunks) \in Nat /\ settled \in SUBSET (1..Len(chunks))
        BY <1>1, LenProperties DEF Settled
      <4> QED BY <4>1, LeastBelongs
    <3> HIDE DEF settled, chunks, yes
    <3>4. settled # {} => WebPSaid(chunks, yes)[Min(settled)] =
                            IF chunks[Min(settled)] \in HoldsPicture THEN yes ELSE "invalid"
      BY <3>3 DEF WebPSaid
    <3>5. WebPTruth(image) = said
      BY <3>1, <3>2, <3>4
    <3> QED BY <2>1, <2>2, <3>5 DEF truth
  <2>3. CASE first \notin {Extended(TRUE), Extended(FALSE)}
    <3>1. WebPTruth(image) = IF first = Picture(TRUE) THEN "no" ELSE "invalid"
      BY <2>3 DEF WebPTruth
    <3> QED BY <2>1, <2>3, <3>1
  <2> QED BY <2>2, <2>3
<1>4. ImageIsHonest(image, InspectImage(image)) <=>
        /\ InspectImage(image) \in {"unknown", "invalid", Truth(image)}
        /\ cut = 0 /\ off = 0 => InspectImage(image) = Truth(image)
  BY DEF ImageIsHonest
<1> HIDE DEF first, chunks, cut, off, truth, said
<1>5. first \in Seq(WebPCells) /\ Len(first) \in Nat /\ Len(first) >= 4 /\ Len(first) % 2 = 0
  <2>1. (\E alpha \in BOOLEAN : first = Extended(alpha)) \/ (\E good \in BOOLEAN : first = Picture(good)) \/ first = Profile(TRUE)
    BY <1>1 DEF FirstChunks
  <2>2. ASSUME NEW alpha \in BOOLEAN, first = Extended(alpha) PROVE first \in Seq(WebPCells) /\ (Len(first) = 4 \/ Len(first) = 6)
    BY <2>2, ExtendedShape
  <2>3. ASSUME NEW good \in BOOLEAN, first = Picture(good) PROVE first \in Seq(WebPCells) /\ (Len(first) = 4 \/ Len(first) = 6)
    BY <2>3, PictureShape
  <2>4. CASE first = Profile(TRUE)
    <3>1. Profile(TRUE) \in Seq(WebPCells) /\ Len(Profile(TRUE)) = 6
      BY ProfileShape
    <3>2. 6 \in Nat /\ 6 >= 4 /\ 6 % 2 = 0
      OBVIOUS
    <3> QED BY <2>4, <3>1, <3>2
  <2>5. (\E alpha \in BOOLEAN : first = Extended(alpha)) \/ (\E good \in BOOLEAN : first = Picture(good))
           => first \in Seq(WebPCells) /\ (Len(first) = 4 \/ Len(first) = 6)
    BY <2>2, <2>3
  <2>6. 4 \in Nat /\ 4 >= 4 /\ 4 % 2 = 0 /\ 6 \in Nat /\ 6 >= 4 /\ 6 % 2 = 0
    OBVIOUS
  <2> QED BY <2>1, <2>4, <2>5, <2>6
<1>6. rest \in Seq(WebPCells) /\ Len(rest) \in Nat /\ Len(rest) % 2 = 0
  <2>1. WebPChunks \ {<<>>} \subseteq Seq(WebPCells)
    BY WebPChunkShape
  <2>2. chunks \in Seq(Seq(WebPCells))
    BY <1>1, <2>1, SeqMonotonic
  <2>3. \A k \in 1..Len(chunks) : Len(chunks[k]) % 2 = 0
    <3> SUFFICES ASSUME NEW k \in 1..Len(chunks) PROVE Len(chunks[k]) % 2 = 0
      OBVIOUS
    <3>1. chunks[k] \in WebPChunks \ {<<>>}
      BY <1>1, ElementOfSeq
    <3> DEFINE c == chunks[k]
    <3>2. c \in WebPChunks /\ c # <<>>
      BY <3>1
    <3> HIDE DEF c
    <3>3. Len(c) % 2 = 0
      BY <3>2, WebPChunkShape
    <3> QED BY <3>3 DEF c
  <2>4. rest \in Seq(WebPCells)
    BY <2>2, BlockBegins DEF Cells
  <2>5. Len(rest) \in Nat /\ Len(rest) % 2 = 0
    BY <2>2, <2>3, EvenBlocks
  <2> QED BY <2>4, <2>5
<1> HIDE DEF rest
<1> DEFINE f == Len(first)
           r == Len(rest)
           l == Len(cells)
<1>7. /\ cells \in Seq(WebPCells) /\ l = f + r
      /\ \A i \in 1..(f + r) : cells[i] = IF i <= f THEN first[i] ELSE rest[i - f]
  BY <1>5, <1>6, ConcatProperties
<1> HIDE DEF cells
<1>8. l \in Nat /\ l >= 4 /\ l % 2 = 0 /\ f \in Nat /\ r \in Nat
  <2>1. f \in Nat /\ f >= 4 /\ f % 2 = 0 /\ r \in Nat /\ r % 2 = 0 /\ l = f + r
    BY <1>5, <1>6, <1>7
  <2> HIDE DEF f, r, l
  <2>2. (f + r) % 2 = 0
    BY <2>1
  <2> QED BY <2>1, <2>2
<1>9. /\ Len(read) \in Nat /\ Len(read) <= l /\ (cut = 0 => read = cells) /\ (cut > 0 => Len(read) < l)
  <2>1. /\ Len(read) \in Nat /\ Len(read) <= Len(cells) /\ (cut = 0 => read = cells)
        /\ cut > 0 /\ Len(cells) > 0 => Len(read) < Len(cells)
    BY <1>1, <1>7, WindowShows
  <2> HIDE DEF read
  <2> QED BY <1>8, <2>1
<1> HIDE DEF read
<1>10. WebP(read, riff) = "invalid" \/ (cut = 0 /\ riff \in 2..l /\ riff % 2 = 0)
  <2>1. riff > Len(read) \/ riff < 2 \/ riff % 2 = 1 => WebP(read, riff) = "invalid"
    BY DEF WebP
  <2>2. CASE cut # 0
    <3>1. riff = l + 0 /\ Len(read) < l
      BY <1>1, <1>9, <2>2
    <3>2. riff > Len(read)
      BY <1>8, <1>9, <3>1
    <3> QED BY <2>1, <3>2
  <2>3. CASE cut = 0
    <3>1. Len(read) = l /\ riff = l + off /\ off \in {-2, -1, 0, 2}
      BY <1>1, <1>9, <2>3
    <3> HIDE DEF riff, l
    <3>2. riff > l \/ riff % 2 = 1 \/ (riff \in 2..l /\ riff % 2 = 0)
      BY <1>8, <3>1
    <3> QED BY <2>1, <2>3, <3>1, <3>2 DEF l
  <2> QED BY <2>2, <2>3
<1>11. ASSUME cut = 0, riff \in 2..l, riff % 2 = 0
       PROVE  WebP(read, riff) \in {"invalid", truth} /\ (riff = l => WebP(read, riff) = truth)
  <2>1. /\ \A i \in 1..f : cells[i] = first[i]
        /\ \A i \in 1..r : cells[f + i] = rest[i]
    <3>1. ASSUME NEW i \in 1..f PROVE cells[i] = first[i]
      <4>1. i \in 1..(f + r) /\ i <= f
        BY <1>8
      <4> QED BY <1>7, <4>1
    <3>2. ASSUME NEW i \in 1..r PROVE cells[f + i] = rest[i]
      <4> DEFINE j == f + i
      <4>1. j \in 1..(f + r) /\ ~(j <= f) /\ j - f = i
        BY <1>8
      <4> HIDE DEF j
      <4>2. cells[j] = rest[i]
        BY <1>7, <4>1
      <4> QED BY <4>2 DEF j
    <3> QED BY <3>1, <3>2
  <2>2. WebPWhole(first, chunks, cells, riff)
    BY <1>1, <1>7, <1>8, <1>11, <2>1, WebPReadWhole DEF rest
  <2>3. read = cells
    BY <1>9, <1>11
  <2> QED BY <2>2, <2>3 DEF WebPWhole, truth, said
<1>12. cut = 0 /\ off = 0 => riff \in 2..l /\ riff % 2 = 0 /\ riff = l
  <2>1. off = 0 => riff = l
    BY <1>8
  <2> HIDE DEF riff, l
  <2> QED BY <1>8, <2>1
<1>13. WebP(read, riff) \in {"unknown", "invalid", truth} /\ (cut = 0 /\ off = 0 => WebP(read, riff) = truth)
  BY <1>10, <1>11, <1>12
<1> QED BY <1>2, <1>3, <1>4, <1>13

(* What is said of an image is what its cells show. inspectImage. *)
LEMMA ImageRight ==
  ASSUME NEW image \in Images
  PROVE  ImageIsHonest(image, InspectImage(image))
<1>1. image.kind \in {"png", "gif", "webp", "svg"}
  BY DEF Images
<1> QED BY <1>1, PngRight, GifRight, WebPRight, SvgRight

-----------------------------------------------------------------------------
(* The ends of the lines of a text are its line feeds and the carriage      *)
(* returns no line feed follows: counting both and taking the pairs off     *)
(* counts them. countLineEndings.                                           *)
LEMMA LineEndsCounted ==
  ASSUME NEW S, NEW d \in Seq(S)
  PROVE  LET lf == Cardinality(Positions(d, "lf"))
             cr == Cardinality(Positions(d, "cr"))
             crlf == Cardinality(CrLf(d))
         IN  /\ lf \in Nat /\ cr \in Nat /\ crlf \in Nat
             /\ LineEnds(d) \in SUBSET (1..Len(d)) /\ IsFiniteSet(LineEnds(d))
             /\ Cardinality(LineEnds(d)) = lf + (cr - crlf)
             /\ Cardinality(Positions(d, "cr") \ CrLf(d)) = cr - crlf
             /\ IsFiniteSet(Positions(d, "lf")) /\ IsFiniteSet(Positions(d, "cr")) /\ IsFiniteSet(CrLf(d))
<1> DEFINE LF == Positions(d, "lf")
           CR == Positions(d, "cr")
           CL == CrLf(d)
<1>1. Len(d) \in Nat /\ DOMAIN d = 1..Len(d) /\ IsFiniteSet(1..Len(d))
  BY LenProperties, FS_Interval
<1>2. LF \in SUBSET (1..Len(d)) /\ CR \in SUBSET (1..Len(d)) /\ CL \in SUBSET CR
  BY <1>1 DEF Positions, CrLf
<1>3. LF \cap CR = {}
  BY DEF Positions
<1>4. LineEnds(d) = LF \cup (CR \ CL)
  BY DEF LineEnds, Positions, CrLf
<1> HIDE DEF LF, CR, CL
<1>5. IsFiniteSet(LF) /\ IsFiniteSet(CR) /\ IsFiniteSet(CL) /\ IsFiniteSet(CR \ CL)
  BY <1>1, <1>2, FS_Subset
<1>6. Cardinality(LF) \in Nat /\ Cardinality(CR) \in Nat /\ Cardinality(CL) \in Nat /\ Cardinality(CR \ CL) \in Nat
  BY <1>5, FS_CardinalityType
<1>7. Cardinality(CR \ CL) = Cardinality(CR) - Cardinality(CL)
  <2>1. CR \cap CL = CL
    BY <1>2
  <2>2. Cardinality(CR \ CL) = Cardinality(CR) - Cardinality(CR \cap CL)
    BY <1>5, FS_Difference
  <2> QED BY <2>1, <2>2
<1>8. Cardinality(LF \cup (CR \ CL)) = Cardinality(LF) + Cardinality(CR \ CL)
  <2>1. LF \cap (CR \ CL) = {}
    BY <1>3
  <2>2. Cardinality(LF \cup (CR \ CL)) = Cardinality(LF) + Cardinality(CR \ CL) - Cardinality(LF \cap (CR \ CL))
    BY <1>5, FS_Union
  <2>3. Cardinality(LF \cap (CR \ CL)) = 0
    BY <2>1, FS_EmptySet
  <2> DEFINE a == Cardinality(LF)
             b == Cardinality(CR \ CL)
             z == Cardinality(LF \cap (CR \ CL))
             both == Cardinality(LF \cup (CR \ CL))
  <2>4. a \in Nat /\ b \in Nat /\ z = 0 /\ both = a + b - z
    BY <1>6, <2>2, <2>3
  <2> HIDE DEF a, b, z, both
  <2>5. both = a + b
    BY <2>4
  <2> QED BY <2>5 DEF a, b, both
<1>9. LineEnds(d) \in SUBSET (1..Len(d)) /\ IsFiniteSet(LineEnds(d))
  BY <1>1, <1>2, <1>4, FS_Subset
<1> QED BY <1>4, <1>5, <1>6, <1>7, <1>8, <1>9 DEF LF, CR, CL

(* The lines that are counted are those that end, and what is behind the    *)
(* last end.                                                                *)
LEMMA LinesAreAll ==
  ASSUME NEW S, NEW d \in Seq(S)
  PROVE  Lines(d) = AllLines(d) /\ (EndsLine(d) <=> d # <<>> /\ Len(d) \in LineEnds(d))
<1>1. /\ LineEnds(d) \in SUBSET (1..Len(d)) /\ IsFiniteSet(LineEnds(d))
      /\ Cardinality(Positions(d, "lf")) \in Nat /\ Cardinality(Positions(d, "cr")) \in Nat /\ Cardinality(CrLf(d)) \in Nat
      /\ Cardinality(LineEnds(d)) =
           Cardinality(Positions(d, "lf")) + (Cardinality(Positions(d, "cr")) - Cardinality(CrLf(d)))
  BY LineEndsCounted
<1>2. Len(d) \in Nat /\ DOMAIN d = 1..Len(d) /\ (d = <<>> <=> Len(d) = 0)
  BY LenProperties, EmptySeq
<1>3. EndsLine(d) <=> d # <<>> /\ Len(d) \in LineEnds(d)
  <2>1. d # <<>> => Len(d) \in DOMAIN d
    BY <1>2
  <2>2. Len(d) \notin CrLf(d)
    BY <1>2 DEF CrLf
  <2> QED BY <2>1, <2>2 DEF EndsLine, LineEnds
<1>4. Cardinality({0} \cup LineEnds(d)) = Cardinality(LineEnds(d)) + 1
  <2>1. 0 \notin LineEnds(d) /\ {0} \cup LineEnds(d) = LineEnds(d) \cup {0}
    BY <1>1, <1>2
  <2> QED BY <1>1, <2>1, FS_AddElement
<1>5. CASE d = <<>>
  <2>1. LineEnds(d) = {}
    BY <1>1, <1>2, <1>5
  <2>2. Cardinality(LineEnds(d)) = 0
    BY <2>1, FS_EmptySet
  <2>3. AllLines(d) = 0
    BY <1>4, <1>5, <2>2 DEF AllLines
  <2>4. Lines(d) = 0
    BY <1>5 DEF Lines
  <2> QED BY <1>3, <2>3, <2>4
<1>6. CASE d # <<>>
  <2> DEFINE a == Cardinality(Positions(d, "lf"))
             b == Cardinality(Positions(d, "cr"))
             c == Cardinality(CrLf(d))
             l == Cardinality(LineEnds(d))
             zero == Cardinality({0} \cup LineEnds(d))
             ends == Len(d) \in LineEnds(d)
  <2>0. AllLines(d) = Cardinality({0} \cup LineEnds(d)) - (IF ends THEN 1 ELSE 0)
    BY <1>6 DEF AllLines
  <2>1. zero = l + 1
    BY <1>4
  <2>2. Lines(d) = a + b - c + IF ends THEN 0 ELSE 1
    BY <1>3, <1>6 DEF Lines
  <2>3. a \in Nat /\ b \in Nat /\ c \in Nat /\ l = a + (b - c)
    BY <1>1
  <2> HIDE DEF a, b, c, l, ends, zero
  <2>4. Lines(d) = AllLines(d)
    <3>1. AllLines(d) = zero - (IF ends THEN 1 ELSE 0)
      BY <2>0 DEF zero, ends
    <3> QED BY <2>1, <2>2, <2>3, <3>1
  <2> QED BY <1>3, <2>4
<1> QED BY <1>5, <1>6

(* A set has more than one element if two of its elements differ. *)
LEMMA MoreThanOne ==
  ASSUME NEW T, IsFiniteSet(T)
  PROVE  Cardinality(T) > 1 <=> \E x, y \in T : x # y
<1>1. Cardinality(T) \in Nat /\ (Cardinality(T) = 0 <=> T = {})
  BY FS_CardinalityType, FS_EmptySet
<1>2. Cardinality(T) = 1 <=> \E x : T = {x}
  BY FS_Singleton
<1>3. ASSUME NEW x \in T, NEW y \in T, x # y PROVE Cardinality(T) > 1
  <2>1. T # {} /\ ~\E z : T = {z}
    BY <1>3
  <2> QED BY <1>1, <1>2, <2>1
<1>4. ASSUME \A x, y \in T : x = y PROVE ~(Cardinality(T) > 1)
  <2>1. CASE T = {}
    BY <1>1, <2>1
  <2>2. CASE T # {}
    <3>1. PICK x : x \in T
      BY <2>2
    <3>2. T = {x}
      BY <1>4, <3>1
    <3> QED BY <1>2, <3>2
  <2> QED BY <2>1, <2>2
<1> QED BY <1>3, <1>4

(* The line ends of a text are pairs, line feeds or carriage returns, as    *)
(* many as there are more line feeds or carriage returns than pairs.        *)
LEMMA EndingsCounted ==
  ASSUME NEW S, NEW d \in Seq(S)
  PROVE  LET lf == Cardinality(Positions(d, "lf"))
             cr == Cardinality(Positions(d, "cr"))
             crlf == Cardinality(CrLf(d))
         IN  /\ "crlf" \in Endings(d) <=> crlf > 0
             /\ "lf" \in Endings(d) <=> lf - crlf > 0
             /\ "cr" \in Endings(d) <=> cr - crlf > 0
             /\ Endings(d) \subseteq {"crlf", "lf", "cr"}
<1> DEFINE LF == Positions(d, "lf")
           CR == Positions(d, "cr")
           CL == CrLf(d)
           P == {i + 1 : i \in CL}
           after(i) == i > 1 /\ d[i - 1] = "cr"
<1>1. /\ Cardinality(LF) \in Nat /\ Cardinality(CR) \in Nat /\ Cardinality(CL) \in Nat
      /\ Cardinality(CR \ CL) = Cardinality(CR) - Cardinality(CL)
      /\ IsFiniteSet(LF) /\ IsFiniteSet(CR) /\ IsFiniteSet(CL)
  BY LineEndsCounted
<1>2. Len(d) \in Nat /\ DOMAIN d = 1..Len(d)
  BY LenProperties
<1>3. /\ \A i : i \in LF <=> i \in 1..Len(d) /\ d[i] = "lf"
      /\ \A i : i \in CR <=> i \in 1..Len(d) /\ d[i] = "cr"
      /\ \A i : i \in CL <=> i \in 1..Len(d) /\ d[i] = "cr" /\ i < Len(d) /\ d[i + 1] = "lf"
  BY <1>2 DEF Positions, CrLf
<1>4. \A i : i \in LineEnds(d) <=> i \in LF \/ i \in CR \ CL
  BY DEF LineEnds, Positions, CrLf
<1>5. \A e : e \in Endings(d) <=>
        \E i \in LineEnds(d) : e = IF d[i] = "cr" THEN "cr" ELSE IF after(i) THEN "crlf" ELSE "lf"
  BY DEF Endings
<1> HIDE DEF LF, CR, CL
<1>6. \A i \in LF : i \in P <=> after(i)
  <2> SUFFICES ASSUME NEW i \in LF PROVE i \in P <=> after(i)
    OBVIOUS
  <2>1. i \in 1..Len(d) /\ d[i] = "lf"
    BY <1>3
  <2>2. ASSUME i \in P PROVE after(i)
    <3>1. PICK j \in CL : i = j + 1
      BY <2>2
    <3>2. j \in 1..Len(d) /\ d[j] = "cr" /\ i - 1 = j /\ i > 1
      BY <1>3, <3>1
    <3> QED BY <3>2
  <2>3. ASSUME after(i) PROVE i \in P
    <3> DEFINE j == i - 1
    <3>1. j \in 1..Len(d) /\ j < Len(d) /\ j + 1 = i /\ d[j] = "cr"
      BY <1>2, <2>1, <2>3
    <3> HIDE DEF j
    <3>2. j \in CL
      BY <1>3, <2>1, <3>1
    <3> QED BY <3>1, <3>2
  <2> QED BY <2>2, <2>3
<1>7. P \in SUBSET LF
  <2> SUFFICES ASSUME NEW j \in CL PROVE j + 1 \in LF
    OBVIOUS
  <2>1. j \in 1..Len(d) /\ j < Len(d) /\ d[j + 1] = "lf"
    BY <1>3
  <2>2. j + 1 \in 1..Len(d)
    BY <1>2, <2>1
  <2> QED BY <1>3, <2>1, <2>2
<1>8. IsFiniteSet(P) /\ Cardinality(P) = Cardinality(CL)
  <2> DEFINE f == [i \in CL |-> i + 1]
  <2>1. CL \subseteq Int
    BY <1>3
  <2>2. f \in Bijection(CL, P)
    <3>1. f \in [CL -> P] /\ \A i \in CL : f[i] = i + 1
      OBVIOUS
    <3>2. \A i, j \in CL : f[i] = f[j] => i = j
      BY <2>1, <3>1
    <3>3. \A p \in P : \E i \in CL : f[i] = p
      BY <3>1
    <3> HIDE DEF f, P
    <3>4. f \in Injection(CL, P)
      BY <3>1, <3>2 DEF Injection, IsInjective
    <3>5. f \in Surjection(CL, P)
      BY <3>1, <3>3 DEF Surjection
    <3> QED BY <3>4, <3>5 DEF Bijection
  <2>3. ExistsBijection(CL, P)
    BY <2>2 DEF ExistsBijection
  <2> QED BY <1>1, <2>3, FS_Bijection
<1>9. Cardinality(LF \ P) = Cardinality(LF) - Cardinality(CL)
  <2>1. LF \cap P = P
    BY <1>7
  <2>2. Cardinality(LF \ P) = Cardinality(LF) - Cardinality(LF \cap P)
    BY <1>1, FS_Difference
  <2> HIDE DEF P
  <2> QED BY <1>8, <2>1, <2>2
<1>10. IsFiniteSet(LF \ P) /\ IsFiniteSet(CR \ CL)
  BY <1>1, FS_Difference
<1>11. \A T : IsFiniteSet(T) => (T # {} <=> Cardinality(T) > 0)
  <2> SUFFICES ASSUME NEW T, IsFiniteSet(T) PROVE T # {} <=> Cardinality(T) > 0
    OBVIOUS
  <2>1. Cardinality(T) \in Nat /\ (Cardinality(T) = 0 <=> T = {})
    BY FS_CardinalityType, FS_EmptySet
  <2> QED BY <2>1
<1> HIDE DEF P
<1>12. "crlf" \in Endings(d) <=> CL # {}
  <2>1. ASSUME "crlf" \in Endings(d) PROVE CL # {}
    <3>1. PICK i \in LineEnds(d) : "crlf" = IF d[i] = "cr" THEN "cr" ELSE IF after(i) THEN "crlf" ELSE "lf"
      BY <1>5, <2>1
    <3>2. d[i] # "cr" /\ after(i)
      BY <3>1
    <3>3. i \in LF
      BY <1>3, <1>4, <3>2
    <3>4. i \in P
      BY <1>6, <3>2, <3>3
    <3> QED BY <3>4 DEF P
  <2>2. ASSUME NEW j \in CL PROVE "crlf" \in Endings(d)
    <3> DEFINE i == j + 1
    <3>1. i \in P
      BY DEF P
    <3> HIDE DEF i
    <3>2. i \in LF /\ after(i) /\ d[i] = "lf"
      BY <1>3, <1>6, <1>7, <3>1
    <3>3. i \in LineEnds(d)
      BY <1>4, <3>2
    <3> QED BY <1>5, <3>2, <3>3
  <2> QED BY <2>1, <2>2
<1>13. "lf" \in Endings(d) <=> LF \ P # {}
  <2>1. ASSUME "lf" \in Endings(d) PROVE LF \ P # {}
    <3>1. PICK i \in LineEnds(d) : "lf" = IF d[i] = "cr" THEN "cr" ELSE IF after(i) THEN "crlf" ELSE "lf"
      BY <1>5, <2>1
    <3>2. d[i] # "cr" /\ ~after(i)
      BY <3>1
    <3>3. i \in LF
      BY <1>3, <1>4, <3>2
    <3>4. i \notin P
      BY <1>6, <3>2, <3>3
    <3> QED BY <3>3, <3>4
  <2>2. ASSUME NEW i \in LF \ P PROVE "lf" \in Endings(d)
    <3>1. i \in LineEnds(d) /\ d[i] = "lf" /\ ~after(i)
      BY <1>3, <1>4, <1>6
    <3> QED BY <1>5, <3>1
  <2> QED BY <2>1, <2>2
<1>14. "cr" \in Endings(d) <=> CR \ CL # {}
  <2>1. ASSUME "cr" \in Endings(d) PROVE CR \ CL # {}
    <3>1. PICK i \in LineEnds(d) : "cr" = IF d[i] = "cr" THEN "cr" ELSE IF after(i) THEN "crlf" ELSE "lf"
      BY <1>5, <2>1
    <3>2. d[i] = "cr"
      BY <3>1
    <3>3. i \in CR \ CL
      BY <1>3, <1>4, <3>2
    <3> QED BY <3>3
  <2>2. ASSUME NEW i \in CR \ CL PROVE "cr" \in Endings(d)
    <3>1. i \in LineEnds(d) /\ d[i] = "cr"
      BY <1>3, <1>4
    <3> QED BY <1>5, <3>1
  <2> QED BY <2>1, <2>2
<1>15. Endings(d) \subseteq {"crlf", "lf", "cr"}
  BY <1>5
<1>16. /\ "crlf" \in Endings(d) <=> Cardinality(CL) > 0
       /\ "lf" \in Endings(d) <=> Cardinality(LF \ P) > 0
       /\ "cr" \in Endings(d) <=> Cardinality(CR \ CL) > 0
  BY <1>1, <1>10, <1>11, <1>12, <1>13, <1>14
<1> QED BY <1>1, <1>9, <1>15, <1>16 DEF LF, CR, CL

(* The line ending that is said is the one there is, none, or that there    *)
(* are several. countLineEndings.                                           *)
EndingOf(E) == CASE E = {} -> "none" [] Cardinality(E) > 1 -> "mixed" [] OTHER -> CHOOSE e \in E : TRUE

(* The line ending that is named is the only one, or several are there. *)
LEMMA EndingSays ==
  ASSUME NEW S, NEW d \in Seq(S)
  PROVE  /\ LineEnding(d) = EndingOf(Endings(d))
         /\ IsFiniteSet(Endings(d))
<1> DEFINE E == Endings(d)
           crlf == Cardinality(CrLf(d))
           lf == Cardinality(Positions(d, "lf")) - crlf
           cr == Cardinality(Positions(d, "cr")) - crlf
           K == {k \in 1..3 : <<crlf, lf, cr>>[k] > 0}
<1>1. /\ "crlf" \in E <=> crlf > 0
      /\ "lf" \in E <=> lf > 0
      /\ "cr" \in E <=> cr > 0
      /\ E \subseteq {"crlf", "lf", "cr"}
  BY EndingsCounted
<1>2. LineEnding(d) = IF Cardinality(K) > 1 THEN "mixed"
                      ELSE CASE crlf > 0 -> "crlf" [] lf > 0 -> "lf" [] cr > 0 -> "cr" [] OTHER -> "none"
  BY DEF LineEnding
<1>3. IsFiniteSet(K) /\ IsFiniteSet(E)
  <2>1. IsFiniteSet(1..3) /\ K \in SUBSET (1..3)
    <3>1. IsFiniteSet(1..3)
      <4>1. 1 \in Int /\ 3 \in Int
        OBVIOUS
      <4> HIDE DEF K
      <4> QED BY <4>1, FS_Interval
    <3>2. K \in SUBSET (1..3)
      OBVIOUS
    <3> QED BY <3>1, <3>2
  <2>2. IsFiniteSet({"crlf"} \cup {"lf"} \cup {"cr"})
    BY FS_Singleton, FS_Union
  <2>3. E \in SUBSET ({"crlf"} \cup {"lf"} \cup {"cr"})
    BY <1>1
  <2> QED BY <2>1, <2>2, <2>3, FS_Subset
<1>4. (1 \in K <=> crlf > 0) /\ (2 \in K <=> lf > 0) /\ (3 \in K <=> cr > 0) /\ K \subseteq {1, 2, 3}
  OBVIOUS
<1> HIDE DEF E, crlf, lf, cr, K
<1>5. Cardinality(K) > 1 <=> \E x, y \in K : x # y
  BY <1>3, MoreThanOne
<1>6. Cardinality(E) > 1 <=> \E x, y \in E : x # y
  BY <1>3, MoreThanOne
<1> DEFINE p == crlf > 0
           q == lf > 0
           r == cr > 0
<1>7. (\E x, y \in K : x # y) <=> (p /\ q) \/ (p /\ r) \/ (q /\ r)
  BY <1>4
<1>8. (\E x, y \in E : x # y) <=> (p /\ q) \/ (p /\ r) \/ (q /\ r)
  BY <1>1
<1>9. EndingOf(E) = CASE E = {} -> "none" [] Cardinality(E) > 1 -> "mixed" [] OTHER -> CHOOSE e \in E : TRUE
  BY DEF EndingOf
<1>10. (p <=> "crlf" \in E) /\ (q <=> "lf" \in E) /\ (r <=> "cr" \in E)
  BY <1>1
<1>11. LineEnding(d) = IF Cardinality(K) > 1 THEN "mixed"
                       ELSE CASE p -> "crlf" [] q -> "lf" [] r -> "cr" [] OTHER -> "none"
  BY <1>2
<1> HIDE DEF p, q, r
<1>12. CASE (p /\ q) \/ (p /\ r) \/ (q /\ r)
  <2>1. E # {} /\ Cardinality(E) > 1
    BY <1>6, <1>8, <1>12
  <2>2. EndingOf(E) = "mixed"
    BY <1>9, <2>1
  <2>3. LineEnding(d) = "mixed"
    BY <1>5, <1>7, <1>11, <1>12
  <2> QED BY <1>3, <2>2, <2>3 DEF E
<1>13. CASE ~((p /\ q) \/ (p /\ r) \/ (q /\ r))
  <2>1. ~(Cardinality(E) > 1)
    BY <1>6, <1>8, <1>13
  <2>2. LineEnding(d) = CASE p -> "crlf" [] q -> "lf" [] r -> "cr" [] OTHER -> "none"
    BY <1>5, <1>7, <1>11, <1>13
  <2>3. CASE ~p /\ ~q /\ ~r
    <3>1. E = {}
      BY <1>1, <1>10, <2>3
    <3>2. EndingOf(E) = "none"
      BY <1>9, <2>1, <3>1
    <3>3. LineEnding(d) = "none"
      BY <2>2, <2>3
    <3> QED BY <1>3, <3>2, <3>3 DEF E
  <2>4. ASSUME NEW e, E = {e}, LineEnding(d) = e PROVE LineEnding(d) = EndingOf(E)
    <3>1. (CHOOSE x \in E : TRUE) = e
      BY <2>4
    <3>2. EndingOf(E) = CHOOSE x \in E : TRUE
      BY <1>9, <2>1, <2>4
    <3> QED BY <2>4, <3>1, <3>2
  <2>5. CASE p
    <3>1. E = {"crlf"} /\ LineEnding(d) = "crlf"
      BY <1>1, <1>10, <1>13, <2>2, <2>5
    <3> QED BY <1>3, <2>4, <3>1 DEF E
  <2>6. CASE q
    <3>1. E = {"lf"} /\ LineEnding(d) = "lf"
      BY <1>1, <1>10, <1>13, <2>2, <2>6
    <3> QED BY <1>3, <2>4, <3>1 DEF E
  <2>7. CASE r
    <3>1. E = {"cr"} /\ LineEnding(d) = "cr"
      BY <1>1, <1>10, <1>13, <2>2, <2>7
    <3> QED BY <1>3, <2>4, <3>1 DEF E
  <2> QED BY <2>3, <2>5, <2>6, <2>7
<1> QED BY <1>12, <1>13

-----------------------------------------------------------------------------
(* A decoded text spells the characters of its author: each character has a *)
(* place of its own, line ends are where theirs are and nowhere else, and   *)
(* nothing is between a carriage return and what follows it.                *)
Spells(D, C, pos) ==
  /\ Len(C) \in Nat /\ Len(D) \in Nat /\ (Len(C) = 0 <=> Len(D) = 0)
  /\ DOMAIN C = 1..Len(C) /\ DOMAIN D = 1..Len(D)
  /\ \A k \in 1..Len(C) : /\ pos[k] \in 1..Len(D)
                          /\ D[pos[k]] = "lf" <=> C[k] = "lf"
                          /\ D[pos[k]] = "cr" <=> C[k] = "cr"
                          /\ C[k] \in {"lf", "cr"} => (k = Len(C) <=> pos[k] = Len(D))
                          /\ C[k] = "cr" /\ k < Len(C) => pos[k + 1] = pos[k] + 1
  /\ \A j, k \in 1..Len(C) : j < k => pos[j] < pos[k]
  /\ \A i \in 1..Len(D) : D[i] \in {"lf", "cr"} => \E k \in 1..Len(C) : pos[k] = i

(* A pair, and a line end, of the characters is one of the units. *)
LEMMA SpelledPairs ==
  ASSUME NEW D, NEW C, NEW pos, Spells(D, C, pos), NEW k \in 1..Len(C)
  PROVE  /\ k \in CrLf(C) <=> pos[k] \in CrLf(D)
         /\ k \in LineEnds(C) <=> pos[k] \in LineEnds(D)
<1>1. /\ Len(C) \in Nat /\ Len(D) \in Nat /\ pos[k] \in 1..Len(D)
      /\ D[pos[k]] = "lf" <=> C[k] = "lf"
      /\ D[pos[k]] = "cr" <=> C[k] = "cr"
      /\ C[k] \in {"lf", "cr"} => (k = Len(C) <=> pos[k] = Len(D))
      /\ C[k] = "cr" /\ k < Len(C) => pos[k + 1] = pos[k] + 1
  BY DEF Spells
<1>2. /\ \A i : i \in CrLf(C) <=> i \in 1..Len(C) /\ C[i] = "cr" /\ i < Len(C) /\ C[i + 1] = "lf"
      /\ \A i : i \in CrLf(D) <=> i \in 1..Len(D) /\ D[i] = "cr" /\ i < Len(D) /\ D[i + 1] = "lf"
      /\ \A i : i \in LineEnds(C) <=> i \in 1..Len(C) /\ (C[i] = "lf" \/ (C[i] = "cr" /\ i \notin CrLf(C)))
      /\ \A i : i \in LineEnds(D) <=> i \in 1..Len(D) /\ (D[i] = "lf" \/ (D[i] = "cr" /\ i \notin CrLf(D)))
  BY DEF Spells, CrLf, Positions, LineEnds
<1>3. ASSUME k \in CrLf(C) PROVE pos[k] \in CrLf(D)
  <2>1. C[k] = "cr" /\ k < Len(C) /\ C[k + 1] = "lf"
    BY <1>2, <1>3
  <2>2. pos[k + 1] = pos[k] + 1
    BY <1>1, <2>1
  <2>3. k + 1 \in 1..Len(C)
    BY <1>1, <2>1
  <2>4. pos[k + 1] \in 1..Len(D) /\ D[pos[k + 1]] = "lf"
    BY <2>1, <2>3 DEF Spells
  <2>5. pos[k] < Len(D) /\ D[pos[k] + 1] = "lf"
    BY <1>1, <2>2, <2>4
  <2> QED BY <1>1, <1>2, <2>1, <2>5
<1>4. ASSUME pos[k] \in CrLf(D) PROVE k \in CrLf(C)
  <2>1. D[pos[k]] = "cr" /\ pos[k] < Len(D) /\ D[pos[k] + 1] = "lf"
    BY <1>2, <1>4
  <2>2. C[k] = "cr" /\ k < Len(C)
    BY <1>1, <2>1
  <2>3. pos[k + 1] = pos[k] + 1 /\ k + 1 \in 1..Len(C)
    BY <1>1, <2>2
  <2>4. C[k + 1] = "lf"
    BY <2>1, <2>3 DEF Spells
  <2> QED BY <1>2, <2>2, <2>4
<1> QED BY <1>1, <1>2, <1>3, <1>4

(* A line feed behind a carriage return stays behind it. *)
LEMMA SpelledAfter ==
  ASSUME NEW D, NEW C, NEW pos, Spells(D, C, pos), NEW k \in 1..Len(C), C[k] = "lf"
  PROVE  (k > 1 /\ C[k - 1] = "cr") <=> (pos[k] > 1 /\ D[pos[k] - 1] = "cr")
<1>1. Len(C) \in Nat /\ Len(D) \in Nat /\ pos[k] \in 1..Len(D)
  BY DEF Spells
<1>2. ASSUME k > 1, C[k - 1] = "cr" PROVE pos[k] > 1 /\ D[pos[k] - 1] = "cr"
  <2> DEFINE j == k - 1
  <2>1. j \in 1..Len(C) /\ j < Len(C) /\ j + 1 = k /\ C[j] = "cr"
    BY <1>1, <1>2
  <2> HIDE DEF j
  <2>2. pos[j] \in 1..Len(D) /\ pos[j + 1] = pos[j] + 1 /\ D[pos[j]] = "cr"
    BY <2>1 DEF Spells
  <2>3. pos[k] > 1 /\ pos[k] - 1 = pos[j]
    BY <1>1, <2>1, <2>2
  <2> QED BY <2>2, <2>3
<1>3. ASSUME pos[k] > 1, D[pos[k] - 1] = "cr" PROVE k > 1 /\ C[k - 1] = "cr"
  <2> DEFINE i == pos[k] - 1
  <2>1. i \in 1..Len(D) /\ i + 1 = pos[k] /\ i < Len(D) /\ D[i] = "cr"
    BY <1>1, <1>3
  <2> HIDE DEF i
  <2>2. PICK j \in 1..Len(C) : pos[j] = i
    BY <2>1 DEF Spells
  <2>3. C[j] = "cr" /\ j # Len(C)
    <3>1. C[j] = "cr"
      BY <2>1, <2>2 DEF Spells
    <3>2. pos[j] # Len(D)
      BY <1>1, <2>1, <2>2
    <3> QED BY <3>1, <3>2 DEF Spells
  <2>4. j < Len(C) /\ j + 1 \in 1..Len(C)
    BY <1>1, <2>3
  <2>5. pos[j + 1] = pos[k]
    <3>1. pos[j + 1] = pos[j] + 1
      BY <2>3, <2>4 DEF Spells
    <3> QED BY <2>1, <2>2, <3>1
  <2>6. j + 1 = k
    <3>1. ~(pos[j + 1] < pos[k]) /\ ~(pos[k] < pos[j + 1])
      BY <1>1, <2>5
    <3>2. ~(j + 1 < k) /\ ~(k < j + 1)
      BY <2>4, <3>1 DEF Spells
    <3> QED BY <3>2
  <2>7. k > 1 /\ k - 1 = j
    BY <2>6
  <2> QED BY <2>3, <2>7
<1> QED BY <1>2, <1>3

(* So units that spell characters have the same line endings, *)
LEMMA SpelledEndings ==
  ASSUME NEW D, NEW C, NEW pos, Spells(D, C, pos)
  PROVE  Endings(D) = Endings(C)
<1> DEFINE ending(c, i) == IF c[i] = "cr" THEN "cr" ELSE IF i > 1 /\ c[i - 1] = "cr" THEN "crlf" ELSE "lf"
<1>1. \A c, e : e \in Endings(c) <=> \E i \in LineEnds(c) : e = ending(c, i)
  BY DEF Endings
<1>2. ASSUME NEW k \in LineEnds(C)
      PROVE  pos[k] \in LineEnds(D) /\ ending(D, pos[k]) = ending(C, k)
  <2>1. k \in 1..Len(C) /\ (C[k] = "lf" \/ C[k] = "cr")
    BY DEF LineEnds, Spells
  <2>2. pos[k] \in LineEnds(D)
    BY <2>1, SpelledPairs
  <2>3. D[pos[k]] = "cr" <=> C[k] = "cr"
    BY <2>1 DEF Spells
  <2>4. C[k] = "lf" => ((k > 1 /\ C[k - 1] = "cr") <=> (pos[k] > 1 /\ D[pos[k] - 1] = "cr"))
    BY <2>1, SpelledAfter
  <2>5. CASE C[k] = "cr"
    BY <2>2, <2>3, <2>5
  <2>6. CASE C[k] = "lf"
    <3> DEFINE a == k > 1 /\ C[k - 1] = "cr"
               b == pos[k] > 1 /\ D[pos[k] - 1] = "cr"
    <3>1. (a <=> b) /\ D[pos[k]] # "cr" /\ C[k] # "cr"
      BY <2>3, <2>4, <2>6
    <3>2. ending(D, pos[k]) = IF b THEN "crlf" ELSE "lf"
      BY <3>1
    <3>3. ending(C, k) = IF a THEN "crlf" ELSE "lf"
      BY <3>1
    <3> HIDE DEF a, b, ending
    <3> QED BY <2>2, <3>1, <3>2, <3>3
  <2> QED BY <2>1, <2>5, <2>6
<1>3. ASSUME NEW i \in LineEnds(D) PROVE \E k \in LineEnds(C) : pos[k] = i
  <2>1. i \in 1..Len(D) /\ D[i] \in {"lf", "cr"}
    BY DEF LineEnds, Spells
  <2>2. PICK k \in 1..Len(C) : pos[k] = i
    BY <2>1 DEF Spells
  <2>3. k \in LineEnds(C)
    BY <2>2, SpelledPairs
  <2> QED BY <2>2, <2>3
<1> HIDE DEF ending
<1>4. \A e : e \in Endings(D) <=> e \in Endings(C)
  BY <1>1, <1>2, <1>3
<1> QED BY <1>4

(* A spelled text has as many lines as its author sees.                     *)
LEMMA SpelledLines ==
  ASSUME NEW D, NEW C, NEW pos, Spells(D, C, pos), NEW S, D \in Seq(S), NEW T, C \in Seq(T)
  PROVE  /\ AllLines(D) = AllLines(C)
         /\ D # <<>> /\ Len(D) \in LineEnds(D) <=> C # <<>> /\ Len(C) \in LineEnds(C)
<1>1. Len(C) \in Nat /\ Len(D) \in Nat /\ (Len(C) = 0 <=> Len(D) = 0)
  BY DEF Spells
<1>2. (D = <<>> <=> Len(D) = 0) /\ (C = <<>> <=> Len(C) = 0)
  BY EmptySeq
<1>3. LineEnds(D) \in SUBSET (1..Len(D)) /\ IsFiniteSet(LineEnds(D)) /\ LineEnds(C) \in SUBSET (1..Len(C)) /\ IsFiniteSet(LineEnds(C))
  BY LineEndsCounted
<1>4. Cardinality(LineEnds(D)) = Cardinality(LineEnds(C))
  <2> DEFINE f == [k \in LineEnds(C) |-> pos[k]]
  <2>1. \A k \in LineEnds(C) : f[k] = pos[k] /\ pos[k] \in LineEnds(D)
    BY <1>3, SpelledPairs
  <2>2. f \in [LineEnds(C) -> LineEnds(D)]
    BY <2>1
  <2>3. \A j, k \in LineEnds(C) : f[j] = f[k] => j = k
    <3> SUFFICES ASSUME NEW j \in LineEnds(C), NEW k \in LineEnds(C), f[j] = f[k] PROVE j = k
      OBVIOUS
    <3>1. j \in 1..Len(C) /\ k \in 1..Len(C) /\ pos[j] = pos[k]
      BY <1>3, <2>1
    <3>2. pos[j] \in 1..Len(D) /\ pos[k] \in 1..Len(D)
      BY <3>1 DEF Spells
    <3>3. ~(pos[j] < pos[k]) /\ ~(pos[k] < pos[j])
      BY <1>1, <3>1, <3>2
    <3>4. ~(j < k) /\ ~(k < j)
      BY <3>1, <3>3 DEF Spells
    <3> QED BY <3>1, <3>4
  <2>4. \A i \in LineEnds(D) : \E k \in LineEnds(C) : f[k] = i
    <3> SUFFICES ASSUME NEW i \in LineEnds(D) PROVE \E k \in LineEnds(C) : f[k] = i
      OBVIOUS
    <3>1. i \in 1..Len(D) /\ D[i] \in {"lf", "cr"}
      BY DEF LineEnds, Spells
    <3>2. PICK k \in 1..Len(C) : pos[k] = i
      BY <3>1 DEF Spells
    <3>3. k \in LineEnds(C)
      BY <3>2, SpelledPairs
    <3> QED BY <2>1, <3>2, <3>3
  <2> HIDE DEF f
  <2>5. f \in Injection(LineEnds(C), LineEnds(D))
    BY <2>2, <2>3 DEF Injection, IsInjective
  <2>6. f \in Surjection(LineEnds(C), LineEnds(D))
    BY <2>2, <2>4 DEF Surjection
  <2>7. ExistsBijection(LineEnds(C), LineEnds(D))
    BY <2>5, <2>6 DEF Bijection, ExistsBijection
  <2> QED BY <1>3, <2>7, FS_Bijection
<1>5. D # <<>> => (Len(D) \in LineEnds(D) <=> Len(C) \in LineEnds(C))
  <2> SUFFICES ASSUME D # <<>> PROVE Len(D) \in LineEnds(D) <=> Len(C) \in LineEnds(C)
    OBVIOUS
  <2>1. Len(C) \in 1..Len(C) /\ Len(D) \in 1..Len(D)
    BY <1>1, <1>2
  <2>2. ASSUME Len(C) \in LineEnds(C) PROVE Len(D) \in LineEnds(D)
    <3>1. C[Len(C)] \in {"lf", "cr"}
      BY <2>2 DEF LineEnds
    <3>2. pos[Len(C)] = Len(D)
      BY <2>1, <3>1 DEF Spells
    <3> QED BY <2>1, <2>2, <3>2, SpelledPairs
  <2>3. ASSUME Len(D) \in LineEnds(D) PROVE Len(C) \in LineEnds(C)
    <3>1. D[Len(D)] \in {"lf", "cr"}
      BY <2>3 DEF LineEnds
    <3>2. PICK k \in 1..Len(C) : pos[k] = Len(D)
      BY <2>1, <3>1 DEF Spells
    <3>3. C[k] \in {"lf", "cr"}
      BY <3>1, <3>2 DEF Spells
    <3>4. k = Len(C)
      BY <3>2, <3>3 DEF Spells
    <3>5. k \in LineEnds(C)
      BY <2>3, <3>2, SpelledPairs
    <3> QED BY <3>4, <3>5
  <2> QED BY <2>2, <2>3
<1>6. Cardinality({0} \cup LineEnds(D)) = Cardinality({0} \cup LineEnds(C))
  <2>1. {0} \cup LineEnds(D) = LineEnds(D) \cup {0} /\ {0} \cup LineEnds(C) = LineEnds(C) \cup {0}
        /\ 0 \notin LineEnds(D) /\ 0 \notin LineEnds(C)
    BY <1>1, <1>3
  <2>2. Cardinality(LineEnds(D) \cup {0}) = Cardinality(LineEnds(D)) + 1
    BY <1>3, <2>1, FS_AddElement
  <2>3. Cardinality(LineEnds(C) \cup {0}) = Cardinality(LineEnds(C)) + 1
    BY <1>3, <2>1, FS_AddElement
  <2> QED BY <1>4, <2>1, <2>2, <2>3
<1>7. D = <<>> <=> C = <<>>
  BY <1>1, <1>2
<1>8. AllLines(D) = AllLines(C)
  <2> DEFINE p == D = <<>> \/ Len(D) \in LineEnds(D)
             q == C = <<>> \/ Len(C) \in LineEnds(C)
  <2>1. p <=> q
    BY <1>5, <1>7
  <2>2. AllLines(D) = Cardinality({0} \cup LineEnds(D)) - IF p THEN 1 ELSE 0
    BY DEF AllLines
  <2>3. AllLines(C) = Cardinality({0} \cup LineEnds(C)) - IF q THEN 1 ELSE 0
    BY DEF AllLines
  <2> HIDE DEF p, q
  <2> QED BY <1>6, <2>1, <2>2, <2>3
<1> QED BY <1>5, <1>7, <1>8

(* The first part of a text has the line ends the text has, or ends between *)
(* a carriage return and its line feed.                                     *)
LEMMA SampleEndings ==
  ASSUME NEW S, NEW d \in Seq(S), NEW D \in Seq(S), Len(d) <= Len(D), \A i \in 1..Len(d) : d[i] = D[i],
         Len(d) \notin CrLf(D)
  PROVE  Endings(d) \subseteq Endings(D)
<1> DEFINE ending(c, i) == IF c[i] = "cr" THEN "cr" ELSE IF i > 1 /\ c[i - 1] = "cr" THEN "crlf" ELSE "lf"
<1>1. \A c, e : e \in Endings(c) <=> \E i \in LineEnds(c) : e = ending(c, i)
  BY DEF Endings
<1>2. Len(d) \in Nat /\ Len(D) \in Nat /\ DOMAIN d = 1..Len(d) /\ DOMAIN D = 1..Len(D)
  BY LenProperties
<1>3. ASSUME NEW i \in LineEnds(d) PROVE i \in LineEnds(D) /\ ending(D, i) = ending(d, i)
  <2>1. i \in 1..Len(d) /\ (d[i] = "lf" \/ (d[i] = "cr" /\ i \notin CrLf(d)))
    BY <1>2 DEF LineEnds
  <2>2. i \in 1..Len(D) /\ D[i] = d[i]
    BY <1>2, <2>1
  <2>3. CASE d[i] = "lf"
    <3>1. i > 1 => i - 1 \in 1..Len(d)
      BY <1>2, <2>1
    <3>2. i > 1 => D[i - 1] = d[i - 1]
      BY <3>1
    <3>3. ending(D, i) = ending(d, i)
      BY <2>2, <3>2
    <3>4. i \in LineEnds(D)
      BY <1>2, <2>2, <2>3 DEF LineEnds
    <3> QED BY <3>3, <3>4
  <2>4. CASE d[i] = "cr"
    <3>1. ~(i < Len(d) /\ d[i + 1] = "lf")
      BY <1>2, <2>1, <2>4 DEF CrLf, Positions
    <3>2. i \notin CrLf(D)
      <4>1. SUFFICES ASSUME i \in CrLf(D) PROVE FALSE
        OBVIOUS
      <4>2. D[i + 1] = "lf" /\ i # Len(d)
        BY <4>1 DEF CrLf
      <4>a. i \in 1..Len(d) /\ i # Len(d) /\ Len(d) \in Nat
        BY <1>2, <2>1, <4>2
      <4>3. i < Len(d) /\ i + 1 \in 1..Len(d)
        BY ONLY <4>a
      <4> QED BY <3>1, <4>2, <4>3
    <3>3. i \in LineEnds(D)
      BY <1>2, <2>2, <2>4, <3>2 DEF LineEnds
    <3>4. ending(D, i) = ending(d, i)
      BY <2>2, <2>4
    <3> QED BY <3>3, <3>4
  <2> QED BY <2>1, <2>3, <2>4
<1> HIDE DEF ending
<1> QED BY <1>1, <1>3

(* So the line ending of a sample is one of the text's, none, or several if *)
(* the text has several.                                                    *)
LEMMA SampleEndingSays ==
  ASSUME NEW S, NEW d \in Seq(S), NEW E, IsFiniteSet(E), Endings(d) \subseteq E
  PROVE  LineEnding(d) \in {"none"} \cup E \/ (LineEnding(d) = "mixed" /\ Cardinality(E) > 1)
<1>1. LineEnding(d) = EndingOf(Endings(d)) /\ IsFiniteSet(Endings(d))
  BY EndingSays
<1>2. CASE Endings(d) = {}
  <2>1. ~(Cardinality({}) > 1)
    BY FS_EmptySet
  <2>2. EndingOf({}) = "none"
    BY <2>1 DEF EndingOf
  <2> QED BY <1>1, <1>2, <2>2
<1>3. CASE Endings(d) # {} /\ Cardinality(Endings(d)) > 1
  <2>1. LineEnding(d) = "mixed"
    BY <1>1, <1>3 DEF EndingOf
  <2>2. \E x, y \in Endings(d) : x # y
    BY <1>1, <1>3, MoreThanOne
  <2>3. \E x, y \in E : x # y
    BY <2>2
  <2> QED BY <2>1, <2>3, MoreThanOne
<1>4. CASE Endings(d) # {} /\ ~(Cardinality(Endings(d)) > 1)
  <2>1. LineEnding(d) = CHOOSE e \in Endings(d) : TRUE
    BY <1>1, <1>4 DEF EndingOf
  <2>2. LineEnding(d) \in Endings(d)
    BY <1>4, <2>1
  <2> QED BY <2>2
<1> QED BY <1>2, <1>3, <1>4

-----------------------------------------------------------------------------
(* The first bytes of a text, and what is behind its mark. *)
TextBytes == {"ef", "bb", "bf", "ff", "fe", "nul", "t", "lf", "cr", "lead", "cont", "ctl"}

(* A prefix shows the first elements as they are. *)
LEMMA PrefixShows ==
  ASSUME NEW S, NEW b \in Seq(S), NEW n \in Nat
  PROVE  LET p == Prefix(b, n)
         IN  /\ p \in Seq(S) /\ Len(b) \in Nat /\ Len(p) = IF n < Len(b) THEN n ELSE Len(b)
             /\ \A i \in 1..Len(p) : p[i] = b[i]
<1> DEFINE last == IF n < Len(b) THEN n ELSE Len(b)
           p == Prefix(b, n)
<1>1. Len(b) \in Nat /\ last \in Nat /\ last <= Len(b)
  BY LenProperties
<1>2. p = SubSeq(b, 1, last)
  BY DEF Prefix
<1>3. \A i \in 1..last : b[i] \in S
  BY <1>1, ElementOfSeq
<1> HIDE DEF p, last
<1>4. /\ p \in Seq(S)
      /\ Len(p) = IF 1 <= last THEN last - 1 + 1 ELSE 0
      /\ \A i \in 1..(last - 1 + 1) : p[i] = b[1 + i - 1]
  BY <1>1, <1>2, <1>3, SubSeqProperties
<1>5. Len(p) = last
  BY <1>1, <1>4
<1>6. ASSUME NEW i \in 1..Len(p) PROVE p[i] = b[i]
  <2>1. i \in 1..(last - 1 + 1) /\ 1 + i - 1 = i
    BY <1>1, <1>5
  <2> QED BY <1>4, <2>1
<1> QED BY <1>1, <1>4, <1>5, <1>6 DEF p, last

(* What is left of a sequence behind its first elements. *)
LEMMA BehindShows ==
  ASSUME NEW S, NEW b \in Seq(S), NEW m \in Nat, m <= Len(b)
  PROVE  LET r == SubSeq(b, m + 1, Len(b))
         IN  r \in Seq(S) /\ Len(b) \in Nat /\ Len(r) = Len(b) - m /\ \A i \in 1..Len(r) : r[i] = b[m + i]
<1> DEFINE r == SubSeq(b, m + 1, Len(b))
           n == Len(b)
<1>1. n \in Nat /\ m <= n
  BY LenProperties
<1>2. \A i \in (m + 1)..n : b[i] \in S
  BY <1>1, ElementOfSeq
<1>3. r = SubSeq(b, m + 1, n)
  OBVIOUS
<1> HIDE DEF r, n
<1>4. /\ r \in Seq(S)
      /\ Len(r) = IF m + 1 <= n THEN n - (m + 1) + 1 ELSE 0
      /\ \A i \in 1..(n - (m + 1) + 1) : r[i] = b[(m + 1) + i - 1]
  BY <1>1, <1>2, <1>3, SubSeqProperties
<1>5. Len(r) = n - m
  BY <1>1, <1>4
<1>6. ASSUME NEW i \in 1..Len(r) PROVE r[i] = b[m + i]
  <2>1. i \in 1..(n - (m + 1) + 1) /\ (m + 1) + i - 1 = m + i
    BY <1>1, <1>5
  <2> QED BY <1>4, <2>1
<1> QED BY <1>1, <1>4, <1>5, <1>6 DEF r, n

(* The encodings: a mark of at most four bytes, and units of one, two or    *)
(* four.                                                                    *)
Forms == {Unmarked} \cup {Marks[i] : i \in DOMAIN Marks}

(* The marks, spelled out. *)
LEMMA MarksAre ==
  /\ DOMAIN Marks = 1..5 /\ Len(Marks) = 5
  /\ Marks[1] = [encoding |-> "utf-8",    mark |-> <<"ef", "bb", "bf">>,         width |-> 1, little |-> FALSE]
  /\ Marks[2] = [encoding |-> "utf-32le", mark |-> <<"ff", "fe", "nul", "nul">>, width |-> 4, little |-> TRUE]
  /\ Marks[3] = [encoding |-> "utf-32be", mark |-> <<"nul", "nul", "fe", "ff">>, width |-> 4, little |-> FALSE]
  /\ Marks[4] = [encoding |-> "utf-16le", mark |-> <<"ff", "fe">>,               width |-> 2, little |-> TRUE]
  /\ Marks[5] = [encoding |-> "utf-16be", mark |-> <<"fe", "ff">>,               width |-> 2, little |-> FALSE]
BY DEF Marks

(* What the encodings have in common. *)
LEMMA FormsAre ==
  ASSUME NEW form \in Forms
  PROVE  /\ form = Unmarked \/ form = Marks[1] \/ form = Marks[2] \/ form = Marks[3] \/ form = Marks[4] \/ form = Marks[5]
         /\ form.width \in {1, 2, 4} /\ form.mark \in Seq(TextBytes) /\ Len(form.mark) \in 0..4 /\ form.little \in BOOLEAN
         /\ form.width = 1 <=> form = Unmarked \/ form = Marks[1]
<1> DEFINE Fine(f) == /\ f.width \in {1, 2, 4} /\ f.mark \in Seq(TextBytes) /\ Len(f.mark) \in 0..4 /\ f.little \in BOOLEAN
<1>1. form = Unmarked \/ form = Marks[1] \/ form = Marks[2] \/ form = Marks[3] \/ form = Marks[4] \/ form = Marks[5]
  <2>1. CASE form = Unmarked
    BY <2>1
  <2>2. CASE form # Unmarked
    <3>1. PICK i \in DOMAIN Marks : form = Marks[i]
      BY <2>2 DEF Forms
    <3>2. i \in 1..5
      BY <3>1, MarksAre
    <3>3. i = 1 \/ i = 2 \/ i = 3 \/ i = 4 \/ i = 5
      BY <3>2
    <3> QED BY <3>1, <3>3
  <2> QED BY <2>1, <2>2
<1>2. Fine(Unmarked) /\ Unmarked.width = 1
  BY EmptySeq DEF Unmarked, TextBytes
<1>3. Fine(Marks[1]) /\ Marks[1].width = 1
  BY MarksAre DEF TextBytes
<1>4. Fine(Marks[2]) /\ Marks[2].width = 4
  BY MarksAre DEF TextBytes
<1>5. Fine(Marks[3]) /\ Marks[3].width = 4
  BY MarksAre DEF TextBytes
<1>6. Fine(Marks[4]) /\ Marks[4].width = 2
  BY MarksAre DEF TextBytes
<1>7. Fine(Marks[5]) /\ Marks[5].width = 2
  BY MarksAre DEF TextBytes
<1> HIDE DEF Fine
<1>8. Fine(form)
  BY <1>1, <1>2, <1>3, <1>4, <1>5, <1>6, <1>7
<1>9. form.width = 1 <=> form = Unmarked \/ form = Marks[1]
  BY <1>1, <1>2, <1>3, <1>4, <1>5, <1>6, <1>7
<1> QED BY <1>1, <1>8, <1>9 DEF Fine

(* The bytes of a character of UTF-8: none of a byte order mark, and those  *)
(* of a line end for line ends only.                                        *)
LEMMA BytesAre ==
  ASSUME NEW c \in Characters
  PROVE  LET b == Bytes1[c]
         IN  /\ b \in Seq(TextBytes \ {"ef", "bb", "bf", "ff", "fe"})
             /\ Len(b) = IF c = "wide" THEN 2 ELSE 1
             /\ c \in {"t", "lf", "cr", "ctl", "nul"} => b[1] = c
             /\ c = "wide" => b[1] = "lead" /\ b[2] = "cont"
             /\ c = "stray" => b[1] = "cont"
<1>1. c = "t" \/ c = "lf" \/ c = "cr" \/ c = "wide" \/ c = "ctl" \/ c = "nul" \/ c = "stray"
  BY DEF Characters
<1>2. ASSUME NEW x \in TextBytes \ {"ef", "bb", "bf", "ff", "fe"}
      PROVE  <<x>> \in Seq(TextBytes \ {"ef", "bb", "bf", "ff", "fe"}) /\ Len(<<x>>) = 1 /\ <<x>>[1] = x
  OBVIOUS
<1>3. /\ "t" \in TextBytes \ {"ef", "bb", "bf", "ff", "fe"} /\ "lf" \in TextBytes \ {"ef", "bb", "bf", "ff", "fe"}
      /\ "cr" \in TextBytes \ {"ef", "bb", "bf", "ff", "fe"} /\ "ctl" \in TextBytes \ {"ef", "bb", "bf", "ff", "fe"}
      /\ "nul" \in TextBytes \ {"ef", "bb", "bf", "ff", "fe"} /\ "cont" \in TextBytes \ {"ef", "bb", "bf", "ff", "fe"}
      /\ "lead" \in TextBytes \ {"ef", "bb", "bf", "ff", "fe"}
  BY DEF TextBytes
<1>4. CASE c \in {"t", "lf", "cr", "ctl", "nul"}
  <2>1. Bytes1[c] = <<c>>
    BY <1>4 DEF Bytes1
  <2>2. c \in TextBytes \ {"ef", "bb", "bf", "ff", "fe"} /\ c # "wide" /\ c # "stray"
    BY <1>3, <1>4
  <2> QED BY <1>2, <1>4, <2>1, <2>2
<1>5. CASE c = "stray"
  <2>1. Bytes1[c] = <<"cont">>
    BY <1>5 DEF Bytes1
  <2> QED BY <1>2, <1>3, <1>5, <2>1
<1>6. CASE c = "wide"
  <2>1. Bytes1[c] = <<"lead", "cont">>
    BY <1>6 DEF Bytes1
  <2>2. /\ <<"lead", "cont">> \in Seq(TextBytes \ {"ef", "bb", "bf", "ff", "fe"}) /\ Len(<<"lead", "cont">>) = 2
        /\ <<"lead", "cont">>[1] = "lead" /\ <<"lead", "cont">>[2] = "cont"
    BY <1>3
  <2> QED BY <1>6, <2>1, <2>2
<1> QED BY <1>1, <1>4, <1>5, <1>6

(* Blocks follow one another, and every cell is in one of them. *)
LEMMA BlocksInOrder ==
  ASSUME NEW S, NEW seqs \in Seq(Seq(S)), NEW j \in 1..Len(seqs), NEW k \in 1..(Len(seqs) + 1), j < k
  PROVE  Begins(seqs, j) + Len(seqs[j]) <= Begins(seqs, k)
<1>1. Len(seqs) \in Nat
  BY LenProperties
<1> DEFINE m == k - 1
<1>2. j \in 0..Len(seqs) /\ m \in j..Len(seqs)
  BY <1>1
<1>3. Begins(seqs, k) = Len(Laid(seqs, m))
  BY DEF Begins
<1> HIDE DEF m
<1>4. Len(Laid(seqs, j)) <= Len(Laid(seqs, m))
  BY <1>2, LaidStays
<1>5. Begins(seqs, j + 1) = Len(Laid(seqs, j))
  <2>1. j + 1 - 1 = j
    BY <1>2
  <2> QED BY <2>1 DEF Begins
<1>6. Begins(seqs, j + 1) = Begins(seqs, j) + Len(seqs[j])
  BY BlockPlaced
<1> QED BY <1>3, <1>4, <1>5, <1>6

(* Every cell of the whole is in one of the blocks. *)
LEMMA EveryCellInABlock ==
  ASSUME NEW S, NEW seqs \in Seq(Seq(S)), NEW i \in 1..Len(FlattenSeq(seqs))
  PROVE  \E k \in 1..Len(seqs) : \E j \in 1..Len(seqs[k]) : i = Begins(seqs, k) + j
<1> DEFINE n == Len(seqs)
           In(a) == \E k \in 1..n : \E j \in 1..Len(seqs[k]) : a = Begins(seqs, k) + j
           N == {m \in Nat : m <= n => \A a \in 1..Begins(seqs, m + 1) : In(a)}
<1>1. /\ n \in Nat /\ Begins(seqs, 1) = 0 /\ Begins(seqs, n + 1) = Len(FlattenSeq(seqs))
      /\ \A k \in 1..(n + 1) : Begins(seqs, k) \in Nat
  BY BlockBegins, LenProperties
<1> HIDE DEF In
<1>2. 0 \in N
  <2>1. Begins(seqs, 0 + 1) = 0
    BY <1>1
  <2> QED BY <2>1
<1>3. ASSUME NEW m \in Nat, m \in N PROVE m + 1 \in N
  <2> SUFFICES ASSUME m + 1 <= n, NEW a \in 1..Begins(seqs, m + 1 + 1) PROVE In(a)
    OBVIOUS
  <2> DEFINE k == m + 1
             b == Begins(seqs, k)
             l == Len(seqs[k])
  <2>1. k \in 1..n /\ k \in 1..(n + 1) /\ m <= n
    BY <1>1
  <2> HIDE DEF k
  <2>2. b \in Nat /\ Begins(seqs, k + 1) = b + l /\ l \in Nat
    BY <1>1, <2>1, BlockPlaced
  <2>3. a \in 1..(b + l)
    BY <2>2 DEF k
  <2>4. CASE a <= b
    <3>1. a \in 1..Begins(seqs, m + 1)
      BY <2>2, <2>3, <2>4 DEF k
    <3> QED BY <1>3, <2>1, <3>1
  <2>5. CASE ~(a <= b)
    <3> HIDE DEF b, l
    <3>1. a - b \in 1..l /\ a = b + (a - b)
      BY <2>2, <2>3, <2>5
    <3>2. \E j \in 1..l : a = b + j
      BY <3>1
    <3> QED BY <2>1, <3>2 DEF In, b, l
  <2> QED BY <2>4, <2>5
<1> HIDE DEF N
<1>4. Nat \subseteq N
  BY <1>2, <1>3, NatSetInduction
<1>5. \A a \in 1..Begins(seqs, n + 1) : In(a)
  <2>1. n \in N
    BY <1>1, <1>4
  <2> QED BY <1>1, <2>1 DEF N
<1> QED BY <1>1, <1>5 DEF In

(* The bytes of a UTF-8 text spell its characters, by their first bytes. *)
CharBlocks(chars, form) ==
  [i \in DOMAIN chars |-> IF form.width = 1 THEN Bytes1[chars[i]] ELSE Unit(chars[i], form)]

(* The bytes of each character, none of them of a mark. *)
LEMMA ByteBlocks ==
  ASSUME NEW chars \in Seq(Characters), NEW form \in Forms, form.width = 1
  PROVE  LET s == CharBlocks(chars, form)
         IN  /\ s \in Seq(Seq(TextBytes \ {"ef", "bb", "bf", "ff", "fe"})) /\ Len(s) = Len(chars) /\ Len(chars) \in Nat
             /\ \A k \in 1..Len(chars) : s[k] = Bytes1[chars[k]] /\ chars[k] \in Characters
<1> DEFINE s == CharBlocks(chars, form)
           n == Len(chars)
<1>1. n \in Nat /\ DOMAIN chars = 1..n /\ \A k \in 1..n : chars[k] \in Characters
  BY LenProperties, ElementOfSeq
<1>2. s = [k \in 1..n |-> Bytes1[chars[k]]]
  BY <1>1 DEF CharBlocks
<1> HIDE DEF s, n
<1>3. \A k \in 1..n : s[k] = Bytes1[chars[k]]
  BY <1>2
<1>4. \A k \in 1..n : Bytes1[chars[k]] \in Seq(TextBytes \ {"ef", "bb", "bf", "ff", "fe"})
  BY <1>1, BytesAre
<1>5. s \in [1..n -> Seq(TextBytes \ {"ef", "bb", "bf", "ff", "fe"})]
  BY <1>2, <1>4
<1>6. s \in Seq(Seq(TextBytes \ {"ef", "bb", "bf", "ff", "fe"})) /\ Len(s) = n
  BY <1>1, <1>2, <1>5, SeqDef, LenProperties
<1> QED BY <1>1, <1>3, <1>6 DEF s, n

(* The first bytes of the characters spell them. *)
LEMMA BytesSpell ==
  ASSUME NEW chars \in Seq(Characters), NEW form \in Forms, form.width = 1
  PROVE  LET s == CharBlocks(chars, form)
         IN  Spells(FlattenSeq(s), chars, [k \in 1..Len(chars) |-> Begins(s, k) + 1])
<1> DEFINE s == CharBlocks(chars, form)
           n == Len(chars)
           D == FlattenSeq(s)
           B == TextBytes \ {"ef", "bb", "bf", "ff", "fe"}
           pos == [k \in 1..n |-> Begins(s, k) + 1]
<1>1. /\ s \in Seq(Seq(B)) /\ Len(s) = n /\ n \in Nat
      /\ \A k \in 1..n : s[k] = Bytes1[chars[k]] /\ chars[k] \in Characters
  BY ByteBlocks
<1>2. DOMAIN chars = 1..n
  BY LenProperties
<1> HIDE DEF B
<1> HIDE DEF s, n
<1>3. /\ D \in Seq(B) /\ Len(D) \in Nat /\ DOMAIN D = 1..Len(D)
      /\ Begins(s, 1) = 0 /\ Begins(s, n + 1) = Len(D)
      /\ \A k \in 1..(n + 1) : Begins(s, k) \in Nat /\ Begins(s, k) <= Len(D)
  BY <1>1, BlockBegins, LenProperties
<1>4. ASSUME NEW k \in 1..n
      PROVE  /\ Len(s[k]) = IF chars[k] = "wide" THEN 2 ELSE 1
             /\ Begins(s, k + 1) = Begins(s, k) + Len(s[k])
             /\ \A i \in 1..Len(s[k]) : D[Begins(s, k) + i] = s[k][i]
  <2>1. Len(s[k]) = IF chars[k] = "wide" THEN 2 ELSE 1
    <3> DEFINE c == chars[k]
    <3>1. c \in Characters /\ s[k] = Bytes1[c]
      BY <1>1
    <3> HIDE DEF c
    <3>2. Len(Bytes1[c]) = IF c = "wide" THEN 2 ELSE 1
      BY <3>1, BytesAre
    <3> QED BY <3>1, <3>2 DEF c
  <2>2. /\ Begins(s, k + 1) = Begins(s, k) + Len(s[k])
        /\ \A i \in 1..Len(s[k]) : D[Begins(s, k) + i] = s[k][i]
    BY <1>1, BlockPlaced
  <2> QED BY <2>1, <2>2
<1> HIDE DEF D
<1>5. \A k \in 1..n : pos[k] = Begins(s, k) + 1
  OBVIOUS
<1> HIDE DEF pos
<1>6. n = 0 <=> Len(D) = 0
  <2>1. n = 0 => Len(D) = 0
    BY <1>3
  <2>2. ASSUME n # 0 PROVE Len(D) # 0
    <3>1. 1 \in 1..n /\ 1 + 1 \in 1..(n + 1)
      BY <1>1, <2>2
    <3>2. Begins(s, 1 + 1) >= 1
      BY <1>3, <1>4, <3>1
    <3> QED BY <1>3, <3>1, <3>2
  <2> QED BY <2>1, <2>2
<1>7. ASSUME NEW k \in 1..n
      PROVE  /\ pos[k] \in 1..Len(D)
             /\ D[pos[k]] = "lf" <=> chars[k] = "lf"
             /\ D[pos[k]] = "cr" <=> chars[k] = "cr"
             /\ chars[k] \in {"lf", "cr"} => (k = n <=> pos[k] = Len(D))
             /\ chars[k] = "cr" /\ k < n => pos[k + 1] = pos[k] + 1
  <2> DEFINE b == Begins(s, k)
             l == Len(s[k])
  <2>1. k \in 1..(n + 1) /\ k + 1 \in 1..(n + 1)
    BY <1>1
  <2>2. b \in Nat /\ Begins(s, k + 1) = b + l /\ b + l <= Len(D) /\ pos[k] = b + 1 /\ (l = 1 \/ l = 2)
    BY <1>3, <1>4, <1>5, <2>1
  <2>3. D[b + 1] = s[k][1]
    <3>1. 1 \in 1..l
      <4> HIDE DEF l, b
      <4>1. l \in {1, 2}
        BY <2>2
      <4> QED BY <4>1
    <3> QED BY <1>4, <3>1
  <2>4. (s[k][1] = "lf" <=> chars[k] = "lf") /\ (s[k][1] = "cr" <=> chars[k] = "cr")
    <3> DEFINE c == chars[k]
    <3>1. c \in Characters /\ s[k] = Bytes1[c]
      BY <1>1
    <3> HIDE DEF c
    <3>2. /\ c \in {"t", "lf", "cr", "ctl", "nul"} => s[k][1] = c
          /\ c = "wide" => s[k][1] = "lead"
          /\ c = "stray" => s[k][1] = "cont"
      BY <3>1, BytesAre
    <3>3. (s[k][1] = "lf" <=> c = "lf") /\ (s[k][1] = "cr" <=> c = "cr")
      BY <3>1, <3>2 DEF Characters
    <3> QED BY <3>3 DEF c
  <2>5. chars[k] \in {"lf", "cr"} => l = 1
    BY <1>4
  <2> HIDE DEF b, l
  <2>6. pos[k] \in 1..Len(D)
    BY <1>3, <2>2
  <2>7. ASSUME chars[k] \in {"lf", "cr"}, k = n PROVE pos[k] = Len(D)
    <3>1. Begins(s, k + 1) = Len(D)
      BY <1>3, <2>7
    <3> QED BY <2>2, <2>5, <2>7, <3>1
  <2>8. ASSUME k < n PROVE k + 1 \in 1..n /\ pos[k + 1] = b + l + 1 /\ b + l < Len(D)
    <3> DEFINE j == k + 1
    <3>1. j \in 1..n /\ j + 1 \in 1..(n + 1)
      BY <1>1, <2>8
    <3>a. Begins(s, j) = b + l
      BY <2>2
    <3> HIDE DEF j
    <3>2. pos[j] = Begins(s, j) + 1 /\ Begins(s, j + 1) = Begins(s, j) + Len(s[j]) /\ Len(s[j]) \in {1, 2}
      BY <1>4, <1>5, <3>1
    <3>3. Begins(s, j + 1) <= Len(D)
      BY <1>3, <3>1
    <3>4. pos[j] = b + l + 1 /\ b + l < Len(D)
      <4> DEFINE x == Len(s[j])
                 y == Begins(s, j)
                 z == Begins(s, j + 1)
      <4>1. pos[j] = y + 1 /\ z = y + x /\ x \in {1, 2} /\ z <= Len(D) /\ y = b + l /\ b \in Nat /\ l \in {1, 2} /\ Len(D) \in Nat
        BY <1>3, <2>2, <3>a, <3>2, <3>3
      <4> HIDE DEF x, y, z
      <4> QED BY ONLY <4>1
    <3> QED BY <3>1, <3>4 DEF j
  <2>9. ASSUME chars[k] \in {"lf", "cr"}, pos[k] = Len(D) PROVE k = n
    <3>1. ~(k < n)
      BY <1>3, <2>2, <2>5, <2>8, <2>9
    <3> QED BY <1>1, <3>1
  <2>10. ASSUME chars[k] = "cr", k < n PROVE pos[k + 1] = pos[k] + 1
    <3>1. l = 1
      BY <2>5, <2>10
    <3> QED BY <2>2, <2>8, <2>10, <3>1
  <2> QED BY <2>2, <2>3, <2>4, <2>6, <2>7, <2>9, <2>10
<1>8. ASSUME NEW j \in 1..n, NEW k \in 1..n, j < k PROVE pos[j] < pos[k]
  <2>1. k \in 1..(n + 1) /\ j \in 1..(n + 1)
    BY <1>1
  <2>2. Begins(s, j) + Len(s[j]) <= Begins(s, k)
    BY <1>1, <1>8, <2>1, BlocksInOrder
  <2>3. Len(s[j]) \in {1, 2} /\ pos[j] = Begins(s, j) + 1 /\ pos[k] = Begins(s, k) + 1
        /\ Begins(s, j) \in Nat /\ Begins(s, k) \in Nat
    BY <1>3, <1>4, <1>5, <2>1
  <2> DEFINE x == Begins(s, j)
             y == Begins(s, k)
             l == Len(s[j])
  <2>4. x + l <= y /\ l \in {1, 2} /\ pos[j] = x + 1 /\ pos[k] = y + 1 /\ x \in Nat /\ y \in Nat
    BY <2>2, <2>3
  <2> HIDE DEF x, y, l
  <2> QED BY ONLY <2>4
<1>9. ASSUME NEW i \in 1..Len(D), D[i] \in {"lf", "cr"} PROVE \E k \in 1..n : pos[k] = i
  <2>1. PICK k \in 1..n : \E j \in 1..Len(s[k]) : i = Begins(s, k) + j
    BY <1>1, EveryCellInABlock DEF D
  <2>2. PICK j \in 1..Len(s[k]) : i = Begins(s, k) + j
    BY <2>1
  <2>3. D[i] = s[k][j]
    BY <1>4, <2>2
  <2>4. j = 1
    <3>1. CASE chars[k] = "wide"
      <4> DEFINE c == chars[k]
      <4>a. c \in Characters /\ s[k] = Bytes1[c] /\ c = "wide"
        BY <1>1, <3>1
      <4> HIDE DEF c
      <4>1. Len(s[k]) = 2 /\ s[k][2] = "cont"
        BY <4>a, BytesAre
      <4>2. j = 1 \/ j = 2
        BY <4>1
      <4>3. j # 2
        BY <1>9, <2>3, <4>1
      <4> QED BY <4>2, <4>3
    <3>2. CASE chars[k] # "wide"
      <4>1. Len(s[k]) = 1
        BY <1>4, <3>2
      <4> QED BY <4>1
    <3> QED BY <3>1, <3>2
  <2> QED BY <1>5, <2>2, <2>4
<1>10. Spells(D, chars, pos)
  BY <1>1, <1>2, <1>3, <1>6, <1>7, <1>8, <1>9 DEF Spells, n
<1> QED BY <1>10 DEF D, s, n, pos

-----------------------------------------------------------------------------
(* Where the bytes of a unit are. *)
LEMMA UnitPlaces ==
  ASSUME NEW l \in Nat, NEW w \in {1, 2, 4}, NEW k \in 1..(l \div w)
  PROVE  /\ (k - 1) * w \in Nat /\ k * w = (k - 1) * w + w /\ k * w <= l
         /\ \A j \in 1..w : (k - 1) * w + j \in 1..l
         /\ l \div w \in Nat
<1>1. CASE w = 1
  <2>1. l \div 1 = l
    OBVIOUS
  <2>2. k \in 1..l
    BY <1>1, <2>1
  <2>3. (k - 1) * 1 = k - 1 /\ k * 1 = k
    BY <2>2
  <2>4. (k - 1) * 1 \in Nat /\ k * 1 = (k - 1) * 1 + 1 /\ k * 1 <= l /\ \A j \in 1..1 : (k - 1) * 1 + j \in 1..l
    BY <2>2, <2>3
  <2> QED BY <1>1, <2>1, <2>4
<1>2. CASE w = 2
  <2>1. l \div 2 \in Nat /\ 2 * (l \div 2) <= l
    OBVIOUS
  <2>2. k \in 1..(l \div 2)
    BY <1>2
  <2>3. (k - 1) * 2 \in Nat /\ k * 2 = (k - 1) * 2 + 2 /\ k * 2 <= l
    BY <2>1, <2>2
  <2>4. \A j \in 1..2 : (k - 1) * 2 + j \in 1..l
    BY <2>3
  <2> QED BY <1>2, <2>1, <2>3, <2>4
<1>3. CASE w = 4
  <2>1. l \div 4 \in Nat /\ 4 * (l \div 4) <= l
    OBVIOUS
  <2>2. k \in 1..(l \div 4)
    BY <1>3
  <2>3. (k - 1) * 4 \in Nat /\ k * 4 = (k - 1) * 4 + 4 /\ k * 4 <= l
    BY <2>1, <2>2
  <2>4. \A j \in 1..4 : (k - 1) * 4 + j \in 1..l
    BY <2>3
  <2> QED BY <1>3, <2>1, <2>3, <2>4
<1> QED BY <1>1, <1>2, <1>3

(* What a whole unit is read as: its lowest byte, if the others are zero. *)
Lowest(form) == IF form.little THEN 1 ELSE form.width
UnitRead(b, form, k) ==
  IF \A j \in 1..form.width : j # Lowest(form) => b[(k - 1) * form.width + j] = "nul"
  THEN b[(k - 1) * form.width + Lowest(form)] ELSE "other"

(* Whole units are read one by one. *)
LEMMA UnitsRead ==
  ASSUME NEW b \in Seq(TextBytes), NEW form \in Forms
  PROVE  LET d == DecodeUnits(b, form)
             n == Len(b) \div form.width
         IN  /\ n \in Nat /\ d \in Seq(TextBytes \cup {"other"}) /\ Len(d) = n
             /\ \A k \in 1..n : d[k] = UnitRead(b, form, k)
<1> DEFINE w == form.width
           low == Lowest(form)
           l == Len(b)
           n == l \div w
           d == DecodeUnits(b, form)
           unit(k) == SubSeq(b, (k - 1) * w + 1, k * w)
           read(k) == IF \A i \in DOMAIN unit(k) \ {low} : unit(k)[i] = "nul" THEN unit(k)[low] ELSE "other"
<1>1. w \in {1, 2, 4} /\ low \in 1..w /\ l \in Nat
  BY FormsAre, LenProperties DEF Lowest
<1>2. n \in Nat
  <2> HIDE DEF w, l
  <2> QED BY <1>1
<1>3. d = [k \in 1..n |-> read(k)]
  BY DEF DecodeUnits, Lowest
<1>4. ASSUME NEW k \in 1..n PROVE read(k) = UnitRead(b, form, k) /\ read(k) \in TextBytes \cup {"other"}
  <2> DEFINE u == unit(k)
             at == (k - 1) * w
             to == k * w
  <2>1. at \in Nat /\ to = at + w /\ to <= l /\ \A j \in 1..w : at + j \in 1..l
    <3> HIDE DEF w, l
    <3> QED BY <1>1, UnitPlaces
  <2>2. u = SubSeq(b, at + 1, to)
    OBVIOUS
  <2>3. \A i \in (at + 1)..to : b[i] \in TextBytes
    <3>1. \A i \in 1..l : b[i] \in TextBytes
      BY ElementOfSeq
    <3>2. w \in Nat /\ l \in Nat
      BY <1>1
    <3>3. at \in Nat /\ to = at + w /\ to <= l
      BY <2>1
    <3> HIDE DEF at, to, l, w
    <3>4. to \in Nat /\ \A i \in (at + 1)..to : i \in 1..l
      BY ONLY <3>2, <3>3
    <3> QED BY <3>1, <3>4
  <2> HIDE DEF u, at, to, w, l
  <2>4. /\ u \in Seq(TextBytes)
        /\ Len(u) = IF at + 1 <= to THEN to - (at + 1) + 1 ELSE 0
        /\ \A i \in 1..(to - (at + 1) + 1) : u[i] = b[(at + 1) + i - 1]
    <3>1. at + 1 \in Nat /\ to \in Nat
      BY <1>1, <2>1
    <3> QED BY <2>2, <2>3, <3>1, SubSeqProperties
  <2>5. Len(u) = w /\ DOMAIN u = 1..w
    <3>1. Len(u) = w
      BY <1>1, <2>1, <2>4
    <3> QED BY <2>4, <3>1, LenProperties
  <2>6. ASSUME NEW j \in 1..w PROVE u[j] = b[at + j]
    <3>1. j \in 1..(to - (at + 1) + 1) /\ (at + 1) + j - 1 = at + j
      BY <1>1, <2>1
    <3> QED BY <2>4, <3>1
  <2>7. read(k) = IF \A i \in 1..w : i # low => u[i] = "nul" THEN u[low] ELSE "other"
    <3>1. read(k) = IF \A i \in DOMAIN u \ {low} : u[i] = "nul" THEN u[low] ELSE "other"
      BY DEF u
    <3> HIDE DEF low
    <3> QED BY <2>5, <3>1
  <2>8. UnitRead(b, form, k) = IF \A j \in 1..w : j # low => b[at + j] = "nul" THEN b[at + low] ELSE "other"
    BY DEF UnitRead, w, at
  <2>9. u[low] \in TextBytes
    BY <1>1, <2>4, <2>5, ElementOfSeq
  <2> HIDE DEF low, read
  <2>10. read(k) = UnitRead(b, form, k)
    BY <1>1, <2>6, <2>7, <2>8
  <2> QED BY <2>7, <2>9, <2>10
<1> HIDE DEF read, n
<1>5. \A k \in 1..n : d[k] = read(k)
  BY <1>3
<1>6. d \in [1..n -> TextBytes \cup {"other"}]
  BY <1>3, <1>4
<1> HIDE DEF d
<1>7. d \in Seq(TextBytes \cup {"other"}) /\ Len(d) = n
  BY <1>2, <1>6, SeqDef, LenProperties
<1> QED BY <1>2, <1>4, <1>5, <1>7 DEF n, d, l, w

(* Units of one byte are read as they are. *)
LEMMA BytesReadAsTheyAre ==
  ASSUME NEW b \in Seq(TextBytes), NEW form \in Forms, form.width = 1
  PROVE  DecodeUnits(b, form) = b
<1> DEFINE d == DecodeUnits(b, form)
<1>1. Len(b) \in Nat /\ Len(b) \div 1 = Len(b)
  BY LenProperties
<1>2. d \in Seq(TextBytes \cup {"other"}) /\ Len(d) = Len(b) /\ \A k \in 1..Len(b) : d[k] = UnitRead(b, form, k)
  BY <1>1, UnitsRead
<1> HIDE DEF d
<1>3. Lowest(form) = 1
  BY DEF Lowest
<1>4. ASSUME NEW k \in 1..Len(b) PROVE d[k] = b[k]
  <2>1. UnitRead(b, form, k) = IF \A j \in 1..1 : j # 1 => b[(k - 1) * 1 + j] = "nul" THEN b[(k - 1) * 1 + 1] ELSE "other"
    BY <1>3 DEF UnitRead
  <2>2. \A j \in 1..1 : j = 1
    OBVIOUS
  <2>3. (k - 1) * 1 + 1 = k
    BY <1>1
  <2> QED BY <1>2, <2>1, <2>2, <2>3
<1>5. b \in Seq(TextBytes \cup {"other"})
  <2>1. TextBytes \subseteq TextBytes \cup {"other"}
    OBVIOUS
  <2> QED BY <2>1, SeqMonotonic
<1>6. d = b
  BY <1>2, <1>4, <1>5, SeqEqual
<1> QED BY <1>6 DEF d

(* The units of the first bytes are the first units. *)
LEMMA FirstUnits ==
  ASSUME NEW a \in Seq(TextBytes), NEW b \in Seq(TextBytes), NEW form \in Forms,
         Len(a) <= Len(b), \A i \in 1..Len(a) : a[i] = b[i]
  PROVE  LET d == DecodeUnits(a, form)
             D == DecodeUnits(b, form)
         IN  Len(d) <= Len(D) /\ \A k \in 1..Len(d) : d[k] = D[k]
<1> DEFINE w == form.width
           d == DecodeUnits(a, form)
           D == DecodeUnits(b, form)
           m == Len(a) \div w
           n == Len(b) \div w
<1>1. w \in {1, 2, 4} /\ Lowest(form) \in 1..w /\ Len(a) \in Nat /\ Len(b) \in Nat
  BY FormsAre, LenProperties DEF Lowest
<1>2. m \in Nat /\ Len(d) = m /\ \A k \in 1..m : d[k] = UnitRead(a, form, k)
  BY UnitsRead
<1>3. n \in Nat /\ Len(D) = n /\ \A k \in 1..n : D[k] = UnitRead(b, form, k)
  BY UnitsRead
<1>4. m <= n
  <2> DEFINE x == Len(a)
             y == Len(b)
  <2>1. x \in Nat /\ y \in Nat /\ x <= y /\ (w = 1 \/ w = 2 \/ w = 4)
    BY <1>1
  <2> HIDE DEF x, y, w
  <2>2. x \div 1 <= y \div 1 /\ x \div 2 <= y \div 2 /\ x \div 4 <= y \div 4
    BY <2>1
  <2>3. x \div w <= y \div w
    BY <2>1, <2>2
  <2> QED BY <2>3 DEF x, y
<1>5. ASSUME NEW k \in 1..m PROVE UnitRead(a, form, k) = UnitRead(b, form, k)
  <2>1. \A j \in 1..w : (k - 1) * w + j \in 1..Len(a)
    <3> DEFINE x == Len(a)
    <3>1. k \in 1..(x \div w) /\ x \in Nat
      BY <1>1
    <3> HIDE DEF x, w
    <3>2. \A j \in 1..w : (k - 1) * w + j \in 1..x
      BY <1>1, <3>1, UnitPlaces
    <3> QED BY <3>2 DEF x
  <2>2. \A j \in 1..w : a[(k - 1) * w + j] = b[(k - 1) * w + j]
    BY <2>1
  <2> QED BY <1>1, <2>2 DEF UnitRead
<1> HIDE DEF m, n, d, D
<1>6. \A k \in 1..m : k \in 1..n
  BY <1>2, <1>3, <1>4
<1>7. Len(d) <= Len(D) /\ \A k \in 1..Len(d) : d[k] = D[k]
  BY <1>2, <1>3, <1>4, <1>5, <1>6
<1> QED BY <1>7 DEF d, D

(* The bytes of a unit: of a character that one byte can hold, that byte    *)
(* and zeros; of another, bytes that are no zero.                           *)
LEMMA UnitsAre ==
  ASSUME NEW c \in Characters, NEW form \in Forms, form.width # 1
  PROVE  LET u == Unit(c, form)
         IN  /\ u \in Seq(TextBytes) /\ Len(u) = form.width
             /\ c \notin {"wide", "stray"} =>
                  \A j \in 1..form.width : u[j] = IF j = Lowest(form) THEN c ELSE "nul"
             /\ c \in {"wide", "stray"} => \A j \in 1..form.width : u[j] \in {"lf", "cont"}
<1> DEFINE w == form.width
           low == Lowest(form)
           u == Unit(c, form)
           fill == CASE c = "wide" -> "lf" [] c = "stray" -> "cont" [] OTHER -> "nul"
           cell(j) == IF j = low /\ c \notin {"wide", "stray"} THEN c ELSE fill
<1>1. w \in {2, 4} /\ w \in Nat
  BY FormsAre
<1>2. u = [j \in 1..w |-> cell(j)]
  BY DEF Unit, Lowest
<1>3. /\ c = "wide" => fill = "lf"
      /\ c = "stray" => fill = "cont"
      /\ c \notin {"wide", "stray"} => fill = "nul"
  OBVIOUS
<1>4. c \notin {"wide", "stray"} => c \in TextBytes
  BY DEF Characters, TextBytes
<1> HIDE DEF fill, low, w
<1>5. \A j \in 1..w : cell(j) \in TextBytes
  <2>1. fill \in {"lf", "cont", "nul"}
    BY <1>3
  <2>2. fill \in TextBytes
    BY <2>1 DEF TextBytes
  <2> QED BY <1>4, <2>2
<1>6. \A j \in 1..w : u[j] = cell(j)
  BY <1>2
<1>7. u \in Seq(TextBytes) /\ Len(u) = w
  <2>1. u \in [1..w -> TextBytes]
    BY <1>2, <1>5
  <2> HIDE DEF u
  <2> QED BY <1>1, <2>1, SeqDef, LenProperties
<1> HIDE DEF u
<1>8. ASSUME c \notin {"wide", "stray"}, NEW j \in 1..w PROVE u[j] = IF j = low THEN c ELSE "nul"
  BY <1>3, <1>6, <1>8
<1>9. ASSUME c \in {"wide", "stray"}, NEW j \in 1..w PROVE u[j] \in {"lf", "cont"}
  BY <1>3, <1>6, <1>9
<1> QED BY <1>7, <1>8, <1>9 DEF w, u, low

(* The units of each character. *)
LEMMA UnitBlocks ==
  ASSUME NEW chars \in Seq(Characters), NEW form \in Forms, form.width # 1
  PROVE  LET s == CharBlocks(chars, form)
         IN  /\ s \in Seq(Seq(TextBytes)) /\ Len(s) = Len(chars) /\ Len(chars) \in Nat
             /\ \A k \in 1..Len(chars) : s[k] = Unit(chars[k], form) /\ chars[k] \in Characters
<1> DEFINE s == CharBlocks(chars, form)
           n == Len(chars)
<1>1. n \in Nat /\ DOMAIN chars = 1..n /\ \A k \in 1..n : chars[k] \in Characters
  BY LenProperties, ElementOfSeq
<1>2. s = [k \in 1..n |-> Unit(chars[k], form)]
  BY <1>1 DEF CharBlocks
<1> HIDE DEF s, n
<1>3. \A k \in 1..n : s[k] = Unit(chars[k], form)
  BY <1>2
<1>4. \A k \in 1..n : Unit(chars[k], form) \in Seq(TextBytes)
  BY <1>1, UnitsAre
<1>5. s \in [1..n -> Seq(TextBytes)]
  BY <1>2, <1>4
<1>6. s \in Seq(Seq(TextBytes)) /\ Len(s) = n
  BY <1>1, <1>2, <1>5, SeqDef, LenProperties
<1> QED BY <1>1, <1>3, <1>6 DEF s, n

(* Where units of one width begin. *)
LEMMA UnitsBegin ==
  ASSUME NEW S, NEW seqs \in Seq(Seq(S)), NEW w \in {1, 2, 4}, \A k \in 1..Len(seqs) : Len(seqs[k]) = w
  PROVE  \A k \in 1..(Len(seqs) + 1) : Begins(seqs, k) = (k - 1) * w
<1> DEFINE n == Len(seqs)
           N == {m \in Nat : m <= n => Begins(seqs, m + 1) = m * w}
<1>1. n \in Nat /\ Begins(seqs, 1) = 0
  BY BlockBegins, LenProperties
<1>2. 0 \in N
  <2>1. 0 + 1 = 1 /\ 0 * w = 0
    OBVIOUS
  <2> QED BY <1>1, <2>1
<1>3. ASSUME NEW m \in Nat, m \in N PROVE m + 1 \in N
  <2> SUFFICES ASSUME m + 1 <= n PROVE Begins(seqs, (m + 1) + 1) = (m + 1) * w
    OBVIOUS
  <2>1. Begins(seqs, m + 1) = m * w
    BY <1>1, <1>3
  <2> DEFINE k == m + 1
  <2>2. k \in 1..n
    BY <1>1
  <2> HIDE DEF k
  <2>3. Begins(seqs, k + 1) = Begins(seqs, k) + Len(seqs[k]) /\ Len(seqs[k]) = w
    BY <2>2, BlockPlaced
  <2>4. (m + 1) * w = m * w + w
    <3>1. (m + 1) * 1 = m * 1 + 1 /\ (m + 1) * 2 = m * 2 + 2 /\ (m + 1) * 4 = m * 4 + 4
      OBVIOUS
    <3> QED BY <3>1
  <2> QED BY <2>1, <2>3, <2>4 DEF k
<1> HIDE DEF N
<1>4. Nat \subseteq N
  BY <1>2, <1>3, NatSetInduction
<1>5. ASSUME NEW k \in 1..(n + 1) PROVE Begins(seqs, k) = (k - 1) * w
  <2>1. k - 1 \in Nat /\ k - 1 <= n /\ (k - 1) + 1 = k
    BY <1>1
  <2>2. k - 1 \in N
    BY <1>4, <2>1
  <2> QED BY <2>1, <2>2 DEF N
<1> QED BY <1>5

(* The units of a text spell its characters, one by one. *)
LEMMA UnitsSpell ==
  ASSUME NEW chars \in Seq(Characters), NEW form \in Forms, form.width # 1
  PROVE  LET F == FlattenSeq(CharBlocks(chars, form))
         IN  F \in Seq(TextBytes) /\ Spells(DecodeUnits(F, form), chars, [k \in 1..Len(chars) |-> k])
<1> DEFINE s == CharBlocks(chars, form)
           n == Len(chars)
           F == FlattenSeq(s)
           D == DecodeUnits(F, form)
           w == form.width
           low == Lowest(form)
           pos == [k \in 1..n |-> k]
<1>1. w \in {2, 4} /\ w \in {1, 2, 4} /\ low \in 1..w /\ \E j \in 1..w : j # low
  <2>1. w \in {2, 4}
    BY FormsAre
  <2>2. low = 1 \/ low = w
    BY DEF Lowest
  <2>3. low \in 1..w /\ (low = 1 => w \in 1..w /\ w # low) /\ (low = w => 1 \in 1..w /\ 1 # low)
    BY <2>1, <2>2
  <2> QED BY <2>1, <2>2, <2>3
<1>2. /\ s \in Seq(Seq(TextBytes)) /\ Len(s) = n /\ n \in Nat /\ DOMAIN chars = 1..n
      /\ \A k \in 1..n : s[k] = Unit(chars[k], form) /\ chars[k] \in Characters
  BY UnitBlocks, LenProperties
<1>3. ASSUME NEW k \in 1..n
      PROVE  /\ Len(s[k]) = w
             /\ chars[k] \notin {"wide", "stray"} => \A j \in 1..w : s[k][j] = IF j = low THEN chars[k] ELSE "nul"
             /\ chars[k] \in {"wide", "stray"} => \A j \in 1..w : s[k][j] \in {"lf", "cont"}
  <2> DEFINE c == chars[k]
  <2>1. c \in Characters /\ s[k] = Unit(c, form)
    BY <1>2
  <2> HIDE DEF c
  <2>2. /\ Len(Unit(c, form)) = w
        /\ c \notin {"wide", "stray"} => \A j \in 1..w : Unit(c, form)[j] = IF j = low THEN c ELSE "nul"
        /\ c \in {"wide", "stray"} => \A j \in 1..w : Unit(c, form)[j] \in {"lf", "cont"}
    BY <2>1, UnitsAre
  <2> QED BY <2>1, <2>2 DEF c
<1> HIDE DEF s, n, w, low
<1>4. \A k \in 1..(n + 1) : Begins(s, k) = (k - 1) * w
  <2>1. \A k \in 1..Len(s) : Len(s[k]) = w
    BY <1>2, <1>3
  <2>2. \A k \in 1..(Len(s) + 1) : Begins(s, k) = (k - 1) * w
    BY <1>1, <1>2, <2>1, UnitsBegin
  <2> QED BY <1>2, <2>2
<1>5. F \in Seq(TextBytes) /\ Len(F) = n * w
  <2>1. F \in Seq(TextBytes) /\ Begins(s, n + 1) = Len(F)
    BY <1>2, BlockBegins
  <2>2. Begins(s, n + 1) = ((n + 1) - 1) * w /\ (n + 1) - 1 = n
    BY <1>2, <1>4
  <2> QED BY <2>1, <2>2
<1>6. ASSUME NEW k \in 1..n, NEW j \in 1..w PROVE F[(k - 1) * w + j] = s[k][j]
  <2>1. F[Begins(s, k) + j] = s[k][j]
    BY <1>2, <1>3, BlockPlaced
  <2>2. k \in 1..(n + 1)
    BY <1>2
  <2> QED BY <1>4, <2>1, <2>2
<1> HIDE DEF F
<1>7. Len(F) \div w = n
  <2>1. (n * 2) \div 2 = n /\ (n * 4) \div 4 = n
    BY <1>2
  <2> QED BY <1>1, <1>5, <2>1
<1>8. D \in Seq(TextBytes \cup {"other"}) /\ Len(D) = n /\ \A k \in 1..n : D[k] = UnitRead(F, form, k)
  BY <1>5, <1>7, UnitsRead DEF w
<1> HIDE DEF D
<1>9. ASSUME NEW k \in 1..n
      PROVE  /\ D[k] = "lf" <=> chars[k] = "lf"
             /\ D[k] = "cr" <=> chars[k] = "cr"
  <2>1. D[k] = IF \A j \in 1..w : j # low => F[(k - 1) * w + j] = "nul" THEN F[(k - 1) * w + low] ELSE "other"
    BY <1>8 DEF UnitRead, w, low
  <2>2. D[k] = IF \A j \in 1..w : j # low => s[k][j] = "nul" THEN s[k][low] ELSE "other"
    <3> DEFINE at == (k - 1) * w
    <3>1. \A j \in 1..w : F[at + j] = s[k][j]
      BY <1>6
    <3>2. D[k] = IF \A j \in 1..w : j # low => F[at + j] = "nul" THEN F[at + low] ELSE "other"
      BY <2>1
    <3> HIDE DEF at
    <3> QED BY <1>1, <3>1, <3>2
  <2>3. CASE chars[k] \in {"wide", "stray"}
    <3>1. PICK j \in 1..w : j # low
      BY <1>1
    <3>2. s[k][j] # "nul"
      BY <1>3, <2>3
    <3>3. D[k] = "other"
      BY <2>2, <3>1, <3>2
    <3> QED BY <2>3, <3>3
  <2>4. CASE chars[k] \notin {"wide", "stray"}
    <3>1. D[k] = chars[k]
      BY <1>1, <1>3, <2>2, <2>4
    <3> QED BY <3>1
  <2> QED BY <2>3, <2>4
<1>10. Spells(D, chars, pos)
  <2>1. \A k \in 1..n : pos[k] = k
    OBVIOUS
  <2>2. DOMAIN D = 1..n /\ Len(chars) = n
    BY <1>8, LenProperties DEF n
  <2> HIDE DEF pos
  <2>3. \A k \in 1..n : k < n => k + 1 \in 1..n
    BY <1>2
  <2>4. \A k \in 1..n : chars[k] = "cr" /\ k < n => pos[k + 1] = pos[k] + 1
    BY <2>1, <2>3
  <2>5. \A i \in 1..n : D[i] \in {"lf", "cr"} => \E k \in 1..n : pos[k] = i
    BY <2>1
  <2>6. \A j, k \in 1..n : j < k => pos[j] < pos[k]
    BY <2>1
  <2>7. \A k \in 1..n : /\ pos[k] \in 1..n
                        /\ D[pos[k]] = "lf" <=> chars[k] = "lf"
                        /\ D[pos[k]] = "cr" <=> chars[k] = "cr"
                        /\ chars[k] \in {"lf", "cr"} => (k = n <=> pos[k] = n)
                        /\ chars[k] = "cr" /\ k < n => pos[k + 1] = pos[k] + 1
    BY <1>9, <2>1, <2>4
  <2> QED BY <1>2, <1>8, <2>2, <2>5, <2>6, <2>7 DEF Spells
<1> QED BY <1>5, <1>10 DEF D, F, s, n, pos

-----------------------------------------------------------------------------
(* A text of the model: its encoding and its characters. *)
LEMMA TextIs ==
  ASSUME NEW text \in Texts
  PROVE  text.kind = "text" /\ text.form \in Forms /\ text.chars \in Seq(Characters) /\ text.system \in BOOLEAN
<1>1. PICK n \in Paddings, s \in BoundedSeq(Characters, LongestText) : text.chars = Padded(n, s)
  BY DEF Texts
<1>2. s \in Seq(Characters)
  BY TextAssumption, BoundedSeqs
<1>3. [i \in 1..n |-> "t"] \in Seq(Characters)
  <2>1. n \in Nat
    BY TextAssumption
  <2>2. [i \in 1..n |-> "t"] \in [1..n -> Characters]
    BY DEF Characters
  <2> QED BY <2>1, <2>2, SeqDef
<1>4. text.chars \in Seq(Characters)
  BY <1>1, <1>2, <1>3, ConcatProperties DEF Padded
<1> QED BY <1>4 DEF Texts, Forms

(* The bytes of a text are its mark and its units, and the units spell it.  *)
Body(chars, form) == FlattenSeq(CharBlocks(chars, form))

(* Whatever the encoding, what is read of the units spells the characters. *)
LEMMA BodySpells ==
  ASSUME NEW chars \in Seq(Characters), NEW form \in Forms
  PROVE  /\ Body(chars, form) \in Seq(TextBytes)
         /\ DecodeUnits(Body(chars, form), form) \in Seq(TextBytes \cup {"other"})
         /\ \E pos : Spells(DecodeUnits(Body(chars, form), form), chars, pos)
         /\ form.width = 1 => /\ Body(chars, form) \in Seq(TextBytes \ {"ef", "bb", "bf", "ff", "fe"})
                              /\ DecodeUnits(Body(chars, form), form) = Body(chars, form)
<1> DEFINE F == Body(chars, form)
           B == TextBytes \ {"ef", "bb", "bf", "ff", "fe"}
<1>1. CASE form.width = 1
  <2>1. CharBlocks(chars, form) \in Seq(Seq(B))
    BY <1>1, ByteBlocks
  <2> HIDE DEF B
  <2>2. F \in Seq(B)
    BY <2>1, BlockBegins DEF Body
  <2>3. F \in Seq(TextBytes)
    <3>1. B \subseteq TextBytes
      BY DEF B
    <3> QED BY <2>2, <3>1, SeqMonotonic
  <2>4. DecodeUnits(F, form) = F
    BY <1>1, <2>3, BytesReadAsTheyAre
  <2>5. \E pos : Spells(F, chars, pos)
    BY <1>1, BytesSpell DEF Body
  <2>6. F \in Seq(TextBytes \cup {"other"})
    <3>1. TextBytes \subseteq TextBytes \cup {"other"}
      OBVIOUS
    <3> QED BY <2>3, <3>1, SeqMonotonic
  <2> QED BY <2>2, <2>3, <2>4, <2>5, <2>6 DEF B
<1>2. CASE form.width # 1
  <2>1. F \in Seq(TextBytes) /\ \E pos : Spells(DecodeUnits(F, form), chars, pos)
    BY <1>2, UnitsSpell DEF Body
  <2>2. DecodeUnits(F, form) \in Seq(TextBytes \cup {"other"})
    BY <2>1, UnitsRead
  <2> QED BY <1>2, <2>1, <2>2
<1> QED BY <1>1, <1>2

(* The bytes of a text: its mark, then its units; without a mark, its       *)
(* units.                                                                   *)
LEMMA EncodedIs ==
  ASSUME NEW chars \in Seq(Characters), NEW form \in Forms
  PROVE  LET E == Encode(chars, form)
             F == Body(chars, form)
             m == Len(form.mark)
         IN  /\ E \in Seq(TextBytes) /\ Len(E) = m + Len(F) /\ Len(F) \in Nat /\ m \in 0..4
             /\ \A i \in 1..m : E[i] = form.mark[i]
             /\ \A i \in 1..Len(F) : E[m + i] = F[i]
             /\ Encode(chars, [form EXCEPT !.mark = <<>>]) = F
<1> DEFINE E == Encode(chars, form)
           F == Body(chars, form)
           m == Len(form.mark)
<1>1. E = form.mark \o F
  BY DEF Encode, Body, CharBlocks
<1>2. F \in Seq(TextBytes) /\ form.mark \in Seq(TextBytes) /\ m \in 0..4
  BY BodySpells, FormsAre
<1>3. Encode(chars, [form EXCEPT !.mark = <<>>]) = <<>> \o F
  <2> DEFINE bare == [form EXCEPT !.mark = <<>>]
  <2>1. bare.mark = <<>> /\ bare.width = form.width /\ bare.little = form.little
    BY FormsAre, MarksAre DEF Unmarked
  <2> HIDE DEF bare
  <2>2. \A c : Unit(c, bare) = Unit(c, form)
    BY <2>1 DEF Unit
  <2>3. CharBlocks(chars, bare) = CharBlocks(chars, form)
    BY <2>1, <2>2 DEF CharBlocks
  <2>4. Encode(chars, bare) = bare.mark \o FlattenSeq(CharBlocks(chars, bare))
    BY DEF Encode, CharBlocks
  <2>5. Encode(chars, bare) = <<>> \o F
    BY <2>1, <2>3, <2>4 DEF Body
  <2> QED BY <2>5 DEF bare
<1> HIDE DEF E, F
<1>4. E \in Seq(TextBytes) /\ Len(E) = m + Len(F) /\ Len(F) \in Nat
      /\ (\A i \in 1..m : E[i] = form.mark[i])
  <2> DEFINE mark == form.mark
  <2>1. mark \in Seq(TextBytes) /\ E = mark \o F
    BY <1>1, <1>2
  <2> HIDE DEF mark
  <2>2. /\ E \in Seq(TextBytes) /\ Len(E) = Len(mark) + Len(F) /\ Len(F) \in Nat /\ Len(mark) \in Nat
        /\ \A i \in 1..(Len(mark) + Len(F)) : E[i] = IF i <= Len(mark) THEN mark[i] ELSE F[i - Len(mark)]
    BY <1>2, <2>1, ConcatProperties, LenProperties
  <2>3. \A i \in 1..Len(mark) : E[i] = mark[i]
    BY <2>2
  <2> QED BY <2>2, <2>3 DEF mark
<1>5. ASSUME NEW i \in 1..Len(F) PROVE E[m + i] = F[i]
  <2> DEFINE mark == form.mark
  <2>1. mark \in Seq(TextBytes) /\ E = mark \o F /\ m = Len(mark)
    BY <1>1, <1>2
  <2> HIDE DEF mark
  <2>2. /\ Len(F) \in Nat /\ Len(mark) \in Nat
        /\ \A j \in 1..(Len(mark) + Len(F)) : E[j] = IF j <= Len(mark) THEN mark[j] ELSE F[j - Len(mark)]
    BY <1>2, <2>1, ConcatProperties, LenProperties
  <2>3. Len(mark) + i \in 1..(Len(mark) + Len(F)) /\ ~(Len(mark) + i <= Len(mark)) /\ (Len(mark) + i) - Len(mark) = i
    BY <2>2
  <2> QED BY <2>1, <2>2, <2>3
<1>6. <<>> \o F = F
  BY <1>2, ConcatEmptySeq
<1> QED BY <1>2, <1>3, <1>4, <1>5, <1>6 DEF E, F

-----------------------------------------------------------------------------
(* A window begins with a mark when its first bytes are the mark's. *)
LEMMA BeginsWith ==
  ASSUME NEW S, NEW m \in Seq(S), NEW b \in Seq(S)
  PROVE  IsPrefix(m, b) <=> Len(m) <= Len(b) /\ \A i \in 1..Len(m) : b[i] = m[i]
<1>1. Len(m) \in Nat /\ Len(b) \in Nat
  BY LenProperties
<1>2. CASE Len(m) <= Len(b)
  <2> DEFINE l == Len(m)
             p == SubSeq(m, 1, l)
             q == SubSeq(b, 1, l)
  <2>1. (\A i \in 1..l : m[i] \in S) /\ (\A i \in 1..l : b[i] \in S)
    BY <1>1, <1>2, ElementOfSeq
  <2>2. /\ p \in Seq(S) /\ Len(p) = IF 1 <= l THEN l - 1 + 1 ELSE 0
        /\ \A i \in 1..(l - 1 + 1) : p[i] = m[1 + i - 1]
    BY <1>1, <2>1, SubSeqProperties
  <2>3. /\ q \in Seq(S) /\ Len(q) = IF 1 <= l THEN l - 1 + 1 ELSE 0
        /\ \A i \in 1..(l - 1 + 1) : q[i] = b[1 + i - 1]
    BY <1>1, <2>1, SubSeqProperties
  <2>4. IsPrefix(m, b) <=> p = q
    BY <1>2 DEF IsPrefix
  <2>a. l \in Nat
    BY <1>1
  <2> HIDE DEF p, q, l
  <2>5. Len(p) = l /\ Len(q) = l
    BY <2>2, <2>3, <2>a
  <2>6. \A i \in 1..l : p[i] = m[i] /\ q[i] = b[i]
    <3> SUFFICES ASSUME NEW i \in 1..l PROVE p[i] = m[i] /\ q[i] = b[i]
      OBVIOUS
    <3>1. i \in 1..(l - 1 + 1) /\ 1 + i - 1 = i
      BY <2>a
    <3> QED BY <2>2, <2>3, <3>1
  <2>7. p = q <=> \A i \in 1..l : p[i] = q[i]
    BY <2>2, <2>3, <2>5, SeqEqual
  <2> QED BY <1>2, <2>4, <2>6, <2>7 DEF l
<1>3. CASE ~(Len(m) <= Len(b))
  BY <1>3 DEF IsPrefix
<1> QED BY <1>2, <1>3

(* The mark of a window is the first of the marks it begins with. *)
Fits(i, b) == IsPrefix(Marks[i].mark, b)

(* The marks are tried in their order. *)
LEMMA MarkIsFirst ==
  ASSUME NEW b
  PROVE  /\ MarkOf(b) = 0 \/ (MarkOf(b) \in 1..5 /\ Fits(MarkOf(b), b))
         /\ \A i \in 1..5 : Fits(i, b) => MarkOf(b) \in 1..i
<1> DEFINE I == {i \in 1..Len(Marks) : IsPrefix(Marks[i].mark, b)}
<1>1. MarkOf(b) = IF I # {} THEN Min(I) ELSE 0
  BY DEF MarkOf, SelectInSeq
<1>2. I = {i \in 1..5 : Fits(i, b)}
  BY MarksAre DEF Fits
<1> HIDE DEF I
<1>3. CASE I = {}
  <2>1. \A i \in 1..5 : ~Fits(i, b)
    BY <1>2, <1>3
  <2> QED BY <1>1, <1>3, <2>1
<1>4. CASE I # {}
  <2>1. \E x \in I : \A y \in I : x <= y
    <3>1. \A i \in I : i \in 1..5
      BY <1>2
    <3>2. PICK a \in I : TRUE
      BY <1>4
    <3>3. CASE 1 \in I
      BY <3>1, <3>3
    <3>4. CASE 1 \notin I /\ 2 \in I
      <4>1. \A y \in I : 2 <= y
        BY <3>1, <3>4
      <4> QED BY <3>4, <4>1
    <3>5. CASE 1 \notin I /\ 2 \notin I /\ 3 \in I
      <4>1. \A y \in I : 3 <= y
        BY <3>1, <3>5
      <4> QED BY <3>5, <4>1
    <3>6. CASE 1 \notin I /\ 2 \notin I /\ 3 \notin I /\ 4 \in I
      <4>1. \A y \in I : 4 <= y
        BY <3>1, <3>6
      <4> QED BY <3>6, <4>1
    <3>7. CASE 1 \notin I /\ 2 \notin I /\ 3 \notin I /\ 4 \notin I
      <4>1. \A y \in I : y = 5
        BY <3>1, <3>7
      <4> QED BY <3>2, <4>1
    <3> QED BY <3>3, <3>4, <3>5, <3>6, <3>7
  <2>2. Min(I) \in I /\ \A y \in I : Min(I) <= y
    BY <2>1 DEF Min
  <2>3. MarkOf(b) \in I /\ \A y \in I : MarkOf(b) <= y
    BY <1>1, <1>4, <2>2
  <2>4. MarkOf(b) \in 1..5 /\ Fits(MarkOf(b), b)
    BY <1>2, <2>3
  <2>5. ASSUME NEW i \in 1..5, Fits(i, b) PROVE MarkOf(b) \in 1..i
    <3>1. MarkOf(b) <= i
      BY <1>2, <2>3, <2>5
    <3> QED BY <2>4, <3>1
  <2> QED BY <2>4, <2>5
<1> QED BY <1>3, <1>4

(* The marks differ within their first two bytes, but for the two that begin *)
(* with FF FE.                                                               *)
LEMMA MarksFit ==
  ASSUME NEW b \in Seq(TextBytes)
  PROVE  /\ Fits(1, b) <=> Len(b) >= 3 /\ b[1] = "ef" /\ b[2] = "bb" /\ b[3] = "bf"
         /\ Fits(2, b) <=> Len(b) >= 4 /\ b[1] = "ff" /\ b[2] = "fe" /\ b[3] = "nul" /\ b[4] = "nul"
         /\ Fits(3, b) <=> Len(b) >= 4 /\ b[1] = "nul" /\ b[2] = "nul" /\ b[3] = "fe" /\ b[4] = "ff"
         /\ Fits(4, b) <=> Len(b) >= 2 /\ b[1] = "ff" /\ b[2] = "fe"
         /\ Fits(5, b) <=> Len(b) >= 2 /\ b[1] = "fe" /\ b[2] = "ff"
<1>1. Len(b) \in Nat
  BY LenProperties
<1>2. \A i \in 1..5 : /\ Marks[i].mark \in Seq(TextBytes)
                      /\ Fits(i, b) <=> /\ Len(Marks[i].mark) <= Len(b)
                                        /\ \A j \in 1..Len(Marks[i].mark) : b[j] = Marks[i].mark[j]
  <2> SUFFICES ASSUME NEW i \in 1..5
               PROVE  /\ Marks[i].mark \in Seq(TextBytes)
                      /\ Fits(i, b) <=> /\ Len(Marks[i].mark) <= Len(b)
                                        /\ \A j \in 1..Len(Marks[i].mark) : b[j] = Marks[i].mark[j]
    OBVIOUS
  <2>1. Marks[i] \in Forms
    BY MarksAre DEF Forms
  <2>2. Marks[i].mark \in Seq(TextBytes)
    BY <2>1, FormsAre
  <2> DEFINE m == Marks[i].mark
  <2>3. m \in Seq(TextBytes) /\ (Fits(i, b) <=> IsPrefix(m, b))
    BY <2>2 DEF Fits
  <2> HIDE DEF m
  <2>4. IsPrefix(m, b) <=> Len(m) <= Len(b) /\ \A j \in 1..Len(m) : b[j] = m[j]
    BY <2>3, BeginsWith
  <2> QED BY <2>3, <2>4 DEF m
<1>3. /\ \A j \in 1..2 : j = 1 \/ j = 2
      /\ \A j \in 1..3 : j = 1 \/ j = 2 \/ j = 3
      /\ \A j \in 1..4 : j = 1 \/ j = 2 \/ j = 3 \/ j = 4
  OBVIOUS
<1>4. Fits(1, b) <=> Len(b) >= 3 /\ b[1] = "ef" /\ b[2] = "bb" /\ b[3] = "bf"
  <2> DEFINE m == Marks[1].mark
  <2>1. m = <<"ef", "bb", "bf">>
    BY MarksAre
  <2>2. Len(m) = 3 /\ m[1] = "ef" /\ m[2] = "bb" /\ m[3] = "bf"
    BY <2>1
  <2>3. Fits(1, b) <=> Len(m) <= Len(b) /\ \A j \in 1..Len(m) : b[j] = m[j]
    BY <1>2
  <2> HIDE DEF m
  <2> QED BY <1>1, <1>3, <2>2, <2>3
<1>5. Fits(2, b) <=> Len(b) >= 4 /\ b[1] = "ff" /\ b[2] = "fe" /\ b[3] = "nul" /\ b[4] = "nul"
  <2> DEFINE m == Marks[2].mark
  <2>1. m = <<"ff", "fe", "nul", "nul">>
    BY MarksAre
  <2>2. Len(m) = 4 /\ m[1] = "ff" /\ m[2] = "fe" /\ m[3] = "nul" /\ m[4] = "nul"
    BY <2>1
  <2>3. Fits(2, b) <=> Len(m) <= Len(b) /\ \A j \in 1..Len(m) : b[j] = m[j]
    BY <1>2
  <2> HIDE DEF m
  <2> QED BY <1>1, <1>3, <2>2, <2>3
<1>6. Fits(3, b) <=> Len(b) >= 4 /\ b[1] = "nul" /\ b[2] = "nul" /\ b[3] = "fe" /\ b[4] = "ff"
  <2> DEFINE m == Marks[3].mark
  <2>1. m = <<"nul", "nul", "fe", "ff">>
    BY MarksAre
  <2>2. Len(m) = 4 /\ m[1] = "nul" /\ m[2] = "nul" /\ m[3] = "fe" /\ m[4] = "ff"
    BY <2>1
  <2>3. Fits(3, b) <=> Len(m) <= Len(b) /\ \A j \in 1..Len(m) : b[j] = m[j]
    BY <1>2
  <2> HIDE DEF m
  <2> QED BY <1>1, <1>3, <2>2, <2>3
<1>7. Fits(4, b) <=> Len(b) >= 2 /\ b[1] = "ff" /\ b[2] = "fe"
  <2> DEFINE m == Marks[4].mark
  <2>1. m = <<"ff", "fe">>
    BY MarksAre
  <2>2. Len(m) = 2 /\ m[1] = "ff" /\ m[2] = "fe"
    BY <2>1
  <2>3. Fits(4, b) <=> Len(m) <= Len(b) /\ \A j \in 1..Len(m) : b[j] = m[j]
    BY <1>2
  <2> HIDE DEF m
  <2> QED BY <1>1, <1>3, <2>2, <2>3
<1>8. Fits(5, b) <=> Len(b) >= 2 /\ b[1] = "fe" /\ b[2] = "ff"
  <2> DEFINE m == Marks[5].mark
  <2>1. m = <<"fe", "ff">>
    BY MarksAre
  <2>2. Len(m) = 2 /\ m[1] = "fe" /\ m[2] = "ff"
    BY <2>1
  <2>3. Fits(5, b) <=> Len(m) <= Len(b) /\ \A j \in 1..Len(m) : b[j] = m[j]
    BY <1>2
  <2> HIDE DEF m
  <2> QED BY <1>1, <1>3, <2>2, <2>3
<1> QED BY <1>4, <1>5, <1>6, <1>7, <1>8

(* What the window shows: the mark whole, and the first bytes behind it. *)
Shows(text, W, F, m) ==
  /\ W \in Seq(TextBytes) /\ m \in 0..4 /\ Len(F) \in Nat /\ Size(text) = m + Len(F)
  /\ Len(W) = (IF WindowBytes < m + Len(F) THEN WindowBytes ELSE m + Len(F)) /\ Len(W) \in Nat /\ m <= Len(W)
  /\ \A i \in 1..m : W[i] = text.form.mark[i]
  /\ \A i \in 1..(Len(W) - m) : i \in 1..Len(F) /\ W[m + i] = F[i]

(* The window shows the mark whole, for it holds at least four bytes. *)
LEMMA TextWindowShows ==
  ASSUME NEW text \in Texts
  PROVE  Shows(text, Window(text), Body(text.chars, text.form), Len(text.form.mark))
<1> DEFINE W == Window(text)
           m == Len(text.form.mark)
           F == Body(text.chars, text.form)
           E == Encode(text.chars, text.form)
<1>1. text.chars \in Seq(Characters) /\ text.form \in Forms
  BY TextIs
<1>2. /\ E \in Seq(TextBytes) /\ Len(E) = m + Len(F) /\ Len(F) \in Nat /\ m \in 0..4
      /\ \A i \in 1..m : E[i] = text.form.mark[i]
      /\ \A i \in 1..Len(F) : E[m + i] = F[i]
  BY <1>1, EncodedIs
<1>3. WindowBytes \in Nat /\ WindowBytes >= 4
  BY TextAssumption
<1>4. W = Prefix(E, WindowBytes) /\ Size(text) = Len(E)
  BY DEF Window, Size
<1> HIDE DEF E, F, W
<1>5. /\ W \in Seq(TextBytes) /\ Len(W) = IF WindowBytes < Len(E) THEN WindowBytes ELSE Len(E)
      /\ \A i \in 1..Len(W) : W[i] = E[i]
  BY <1>2, <1>3, <1>4, PrefixShows
<1> DEFINE l == Len(W)
           f == Len(F)
<1>6. l = (IF WindowBytes < m + f THEN WindowBytes ELSE m + f) /\ f \in Nat /\ m \in 0..4 /\ l \in Nat
  BY <1>2, <1>3, <1>5
<1>7. m <= l /\ (\A i \in 1..m : i \in 1..l) /\ \A i \in 1..(l - m) : i \in 1..f /\ m + i \in 1..l
  <2> HIDE DEF l, f, m
  <2> QED BY ONLY <1>3, <1>6
<1>8. \A i \in 1..m : W[i] = text.form.mark[i]
  BY <1>2, <1>5, <1>7
<1>9. ASSUME NEW i \in 1..(l - m) PROVE i \in 1..f /\ W[m + i] = F[i]
  <2>1. i \in 1..f /\ m + i \in 1..l
    BY <1>7
  <2> QED BY <1>2, <1>5, <2>1
<1>10. Size(text) = m + f
  BY <1>2, <1>4
<1> HIDE DEF m
<1>11. Shows(text, W, F, m)
  BY <1>5, <1>6, <1>7, <1>8, <1>9, <1>10 DEF Shows, l, f
<1> QED BY <1>11 DEF F, W, m

(* A text that begins as one of another encoding does: FF FE 00 00. *)
Ambiguous(text) == text.form.encoding = "utf-16le" /\ text.chars # <<>> /\ text.chars[1] = "nul"

(* The mark that is seen is the text's. *)
LEMMA MarkSeen ==
  ASSUME NEW text \in Texts
  PROVE  LET r == MarkOf(Window(text))
         IN  /\ r \in 0..5 /\ (r = 0 <=> text.form = Unmarked)
             /\ r > 0 /\ ~Ambiguous(text) => text.form = Marks[r]
<1> DEFINE W == Window(text)
           r == MarkOf(W)
           f == text.form
           m == Len(f.mark)
           F == Body(text.chars, f)
<1>1. text.chars \in Seq(Characters) /\ f \in Forms
  BY TextIs
<1>2. /\ W \in Seq(TextBytes) /\ m \in 0..4 /\ Len(F) \in Nat /\ m <= Len(W) /\ Len(W) \in Nat
      /\ \A i \in 1..m : W[i] = f.mark[i]
      /\ \A i \in 1..(Len(W) - m) : i \in 1..Len(F) /\ W[m + i] = F[i]
  <2>1. Shows(text, W, F, m)
    BY TextWindowShows
  <2> HIDE DEF W, F, m
  <2> QED BY <2>1 DEF Shows
<1>3. r = 0 \/ (r \in 1..5 /\ Fits(r, W))
  BY MarkIsFirst
<1>4. \A i \in 1..5 : Fits(i, W) => r \in 1..i
  BY MarkIsFirst
<1> HIDE DEF W, F, r
<1>5. /\ Fits(1, W) <=> Len(W) >= 3 /\ W[1] = "ef" /\ W[2] = "bb" /\ W[3] = "bf"
      /\ Fits(2, W) <=> Len(W) >= 4 /\ W[1] = "ff" /\ W[2] = "fe" /\ W[3] = "nul" /\ W[4] = "nul"
      /\ Fits(3, W) <=> Len(W) >= 4 /\ W[1] = "nul" /\ W[2] = "nul" /\ W[3] = "fe" /\ W[4] = "ff"
      /\ Fits(4, W) <=> Len(W) >= 2 /\ W[1] = "ff" /\ W[2] = "fe"
      /\ Fits(5, W) <=> Len(W) >= 2 /\ W[1] = "fe" /\ W[2] = "ff"
  BY <1>2, MarksFit
<1>6. f = Unmarked \/ f = Marks[1] \/ f = Marks[2] \/ f = Marks[3] \/ f = Marks[4] \/ f = Marks[5]
  BY <1>1, FormsAre
<1>7. r \in 0..5 /\ (r = 0 => \A i \in 1..5 : ~Fits(i, W))
  BY <1>3, <1>4
<1>8. ASSUME f = Unmarked PROVE r = 0
  <2>1. m = 0 /\ f.width = 1
    BY <1>8 DEF Unmarked
  <2>2. F \in Seq(TextBytes \ {"ef", "bb", "bf", "ff", "fe"})
    BY <1>1, <2>1, BodySpells DEF F
  <2>3. \A i \in 1..Len(W) : W[i] \notin {"ef", "bb", "bf", "ff", "fe"}
    <3> SUFFICES ASSUME NEW i \in 1..Len(W) PROVE W[i] \notin {"ef", "bb", "bf", "ff", "fe"}
      OBVIOUS
    <3>1. Len(W) - m = Len(W) /\ m + i = i
      BY <1>2, <2>1
    <3>2. i \in 1..Len(F) /\ W[i] = F[i]
      BY <1>2, <3>1
    <3>3. F[i] \in TextBytes \ {"ef", "bb", "bf", "ff", "fe"}
      BY <2>2, <3>2, ElementOfSeq
    <3> QED BY <3>2, <3>3
  <2>4. /\ Len(W) >= 2 => 1 \in 1..Len(W)
        /\ Len(W) >= 3 => 1 \in 1..Len(W)
        /\ Len(W) >= 4 => 1 \in 1..Len(W) /\ 3 \in 1..Len(W)
    BY <1>2
  <2>5. ~Fits(1, W) /\ ~Fits(2, W) /\ ~Fits(3, W) /\ ~Fits(4, W) /\ ~Fits(5, W)
    BY <1>5, <2>3, <2>4
  <2>6. ~(r \in 1..5)
    <3>1. r \in 1..5 => r = 1 \/ r = 2 \/ r = 3 \/ r = 4 \/ r = 5
      OBVIOUS
    <3> QED BY <1>3, <2>5, <3>1
  <2> QED BY <1>3, <2>6
<1>9. ASSUME NEW i \in 1..5, Fits(i, W), \A j \in 1..5 : j # i => ~Fits(j, W) PROVE r = i
  <2>1. r \in 1..i
    BY <1>4, <1>9
  <2> QED BY <1>3, <1>9, <2>1
<1>10. ASSUME f = Marks[1] PROVE r = 1
  <2> DEFINE k == f.mark
  <2>1. k = <<"ef", "bb", "bf">>
    BY <1>10, MarksAre
  <2>2. Len(k) = 3 /\ k[1] = "ef" /\ k[2] = "bb" /\ k[3] = "bf"
    BY <2>1
  <2>3. W[1] = "ef" /\ W[2] = "bb" /\ W[3] = "bf" /\ Len(W) >= 3
    BY <1>2, <2>2
  <2>4. Fits(1, W) /\ ~Fits(2, W) /\ ~Fits(3, W) /\ ~Fits(4, W) /\ ~Fits(5, W)
    BY <1>5, <2>3
  <2> QED BY <1>9, <2>4
<1>11. ASSUME f = Marks[2] PROVE r = 2
  <2> DEFINE k == f.mark
  <2>1. k = <<"ff", "fe", "nul", "nul">>
    BY <1>11, MarksAre
  <2>2. Len(k) = 4 /\ k[1] = "ff" /\ k[2] = "fe" /\ k[3] = "nul" /\ k[4] = "nul"
    BY <2>1
  <2>3. W[1] = "ff" /\ W[2] = "fe" /\ W[3] = "nul" /\ W[4] = "nul" /\ Len(W) >= 4
    BY <1>2, <2>2
  <2>4. Fits(2, W) /\ ~Fits(1, W)
    BY <1>5, <2>3
  <2>5. r \in 1..2 /\ r # 1
    BY <1>3, <1>4, <2>4
  <2> QED BY <2>5
<1>12. ASSUME f = Marks[3] PROVE r = 3
  <2> DEFINE k == f.mark
  <2>1. k = <<"nul", "nul", "fe", "ff">>
    BY <1>12, MarksAre
  <2>2. Len(k) = 4 /\ k[1] = "nul" /\ k[2] = "nul" /\ k[3] = "fe" /\ k[4] = "ff"
    BY <2>1
  <2>3. W[1] = "nul" /\ W[2] = "nul" /\ W[3] = "fe" /\ W[4] = "ff" /\ Len(W) >= 4
    BY <1>2, <2>2
  <2>4. Fits(3, W) /\ ~Fits(1, W) /\ ~Fits(2, W) /\ ~Fits(4, W) /\ ~Fits(5, W)
    BY <1>5, <2>3
  <2> QED BY <1>9, <2>4
<1>13. ASSUME f = Marks[5] PROVE r = 5
  <2> DEFINE k == f.mark
  <2>1. k = <<"fe", "ff">>
    BY <1>13, MarksAre
  <2>2. Len(k) = 2 /\ k[1] = "fe" /\ k[2] = "ff"
    BY <2>1
  <2>3. W[1] = "fe" /\ W[2] = "ff" /\ Len(W) >= 2
    BY <1>2, <2>2
  <2>4. Fits(5, W) /\ ~Fits(1, W) /\ ~Fits(2, W) /\ ~Fits(3, W) /\ ~Fits(4, W)
    BY <1>5, <2>3
  <2> QED BY <1>9, <2>4
<1>14. ASSUME f = Marks[4] PROVE r > 0 /\ (~Ambiguous(text) => r = 4)
  <2> DEFINE k == f.mark
  <2>1. k = <<"ff", "fe">> /\ f.width = 2 /\ f.little = TRUE /\ f.encoding = "utf-16le"
    BY <1>14, MarksAre
  <2>2. Len(k) = 2 /\ k[1] = "ff" /\ k[2] = "fe"
    BY <2>1
  <2>3. W[1] = "ff" /\ W[2] = "fe" /\ Len(W) >= 2 /\ m = 2
    BY <1>2, <2>2
  <2>4. Fits(4, W) /\ ~Fits(1, W) /\ ~Fits(3, W) /\ ~Fits(5, W)
    BY <1>5, <2>3
  <2>5. r \in 1..4
    BY <1>4, <2>4
  <2>6. ASSUME ~Ambiguous(text) PROVE ~Fits(2, W)
    <3> SUFFICES ASSUME Fits(2, W) PROVE FALSE
      OBVIOUS
    <3>1. Len(W) >= 4 /\ W[3] = "nul" /\ W[4] = "nul"
      BY <1>5
    <3>2. 1 \in 1..(Len(W) - m) /\ 2 \in 1..(Len(W) - m) /\ m + 1 = 3 /\ m + 2 = 4
      BY <1>2, <2>3, <3>1
    <3>3. 1 \in 1..Len(F) /\ F[1] = "nul"
      <4>1. 1 \in 1..Len(F) /\ W[m + 1] = F[1]
        BY <1>2, <3>2
      <4> QED BY <3>1, <3>2, <4>1
    <3> DEFINE s == CharBlocks(text.chars, f)
               n == Len(text.chars)
    <3>4. /\ s \in Seq(Seq(TextBytes)) /\ Len(s) = n /\ n \in Nat
          /\ \A j \in 1..n : s[j] = Unit(text.chars[j], f) /\ text.chars[j] \in Characters
      BY <1>1, <2>1, UnitBlocks
    <3>5. F = FlattenSeq(s)
      BY DEF F, Body
    <3> HIDE DEF s, n
    <3>6. n # 0
      <4> SUFFICES ASSUME n = 0 PROVE FALSE
        OBVIOUS
      <4>1. Begins(s, 1) = 0 /\ Begins(s, n + 1) = Len(F)
        BY <3>4, <3>5, BlockBegins
      <4>2. Len(F) = 0
        BY <4>1
      <4> QED BY <3>3, <4>2
    <3>7. 1 \in 1..n
      BY <3>4, <3>6
    <3> DEFINE c == text.chars[1]
    <3>8. c \in Characters /\ s[1] = Unit(c, f)
      BY <3>4, <3>7
    <3> HIDE DEF c
    <3>9. /\ Len(Unit(c, f)) = 2
          /\ c \notin {"wide", "stray"} => \A j \in 1..2 : Unit(c, f)[j] = IF j = Lowest(f) THEN c ELSE "nul"
          /\ c \in {"wide", "stray"} => \A j \in 1..2 : Unit(c, f)[j] \in {"lf", "cont"}
      <4>1. f.width # 1
        BY <2>1
      <4>2. /\ Len(Unit(c, f)) = f.width
            /\ c \notin {"wide", "stray"} => \A j \in 1..f.width : Unit(c, f)[j] = IF j = Lowest(f) THEN c ELSE "nul"
            /\ c \in {"wide", "stray"} => \A j \in 1..f.width : Unit(c, f)[j] \in {"lf", "cont"}
        BY <1>1, <3>8, <4>1, UnitsAre
      <4> QED BY <2>1, <4>2
    <3>10. Lowest(f) = 1
      BY <2>1 DEF Lowest
    <3>11. F[1] = Unit(c, f)[1]
      <4>1. Begins(s, 1) = 0
        BY <3>4, BlockBegins
      <4>2. 1 \in 1..Len(s[1])
        BY <3>8, <3>9
      <4>3. F[Begins(s, 1) + 1] = s[1][1]
        BY <3>4, <3>5, <3>7, <4>2, BlockPlaced
      <4> QED BY <3>8, <4>1, <4>3
    <3>12. Unit(c, f)[1] = c \/ Unit(c, f)[1] \in {"lf", "cont"}
      BY <3>9, <3>10
    <3>13. c = "nul"
      BY <3>3, <3>11, <3>12
    <3>14. text.chars # <<>>
      BY <3>6, EmptySeq DEF n
    <3> QED BY <2>1, <2>6, <3>13, <3>14 DEF Ambiguous, c
  <2>7. ASSUME ~Ambiguous(text) PROVE r = 4
    BY <1>9, <2>4, <2>6, <2>7
  <2> QED BY <2>5, <2>7
<1>15. f # Unmarked => f = Marks[1] \/ f = Marks[2] \/ f = Marks[3] \/ f = Marks[4] \/ f = Marks[5]
  BY <1>6
<1> QED BY <1>7, <1>8, <1>10, <1>11, <1>12, <1>13, <1>14, <1>15 DEF r, W

-----------------------------------------------------------------------------
(* What is read of a text whose encoding was told: the first units behind   *)
(* its mark.                                                                *)
Reads(text, decoding, rest) ==
  /\ decoding.encoding = text.form.encoding
  /\ decoding.decoded = DecodeUnits(rest, text.form)
  /\ rest \in Seq(TextBytes)
  /\ Len(rest) = (IF Truncated(text) THEN WindowBytes ELSE Size(text)) - Len(text.form.mark)
  /\ Len(rest) <= Len(Body(text.chars, text.form))
  /\ \A i \in 1..Len(rest) : rest[i] = Body(text.chars, text.form)[i]

(* A reading that is certain is one of the units behind the text's own      *)
(* mark.                                                                    *)
LEMMA ReadsRest ==
  ASSUME NEW text \in Texts, DecodeText(Window(text)).certainty # "unknown", ~Ambiguous(text)
  PROVE  \E rest : Reads(text, DecodeText(Window(text)), rest)
<1> DEFINE W == Window(text)
           f == text.form
           m == Len(f.mark)
           F == Body(text.chars, f)
           r == MarkOf(W)
           rest == SubSeq(W, m + 1, Len(W))
           d == DecodeText(W)
<1>1. Shows(text, W, F, m)
  BY TextWindowShows
<1>2. r \in 0..5 /\ (r = 0 <=> f = Unmarked) /\ (r > 0 => f = Marks[r])
  BY MarkSeen
<1>3. f \in Forms
  BY TextIs
<1>4. d.encoding = f.encoding /\ d.decoded = DecodeUnits(rest, f)
  <2>1. CASE r > 0
    <3> HIDE DEF W
    <3>1. f = Marks[r]
      BY <1>2, <2>1
    <3>2. d = [encoding |-> f.encoding, certainty |-> "exact",
               decoded |-> DecodeUnits(SubSeq(W, Len(f.mark) + 1, Len(W)), f)]
      BY <2>1, <3>1 DEF DecodeText
    <3> HIDE DEF f
    <3> QED BY <3>2
  <2>2. CASE r = 0
    <3>1. f = Unmarked
      BY <1>2, <2>2
    <3>2. f.encoding = "utf-8" /\ f.mark = <<>> /\ f.width = 1
      BY <3>1 DEF Unmarked
    <3>3. m = 0
      BY <3>2
    <3> HIDE DEF W, f, m
    <3>4. d = [encoding |-> "utf-8", certainty |-> "probable", decoded |-> W]
      <4>1. d = Unread \/ d = [encoding |-> "utf-8", certainty |-> "probable", decoded |-> W]
        BY <2>2 DEF DecodeText
      <4>2. d # Unread
        BY DEF Unread, W
      <4> QED BY <4>1, <4>2
    <3>5. W \in Seq(TextBytes) /\ Len(W) \in Nat
      BY <1>1 DEF Shows
    <3>6. rest = W
      <4>1. /\ SubSeq(W, 0 + 1, Len(W)) \in Seq(TextBytes) /\ Len(SubSeq(W, 0 + 1, Len(W))) = Len(W) - 0
            /\ \A i \in 1..Len(SubSeq(W, 0 + 1, Len(W))) : SubSeq(W, 0 + 1, Len(W))[i] = W[0 + i]
        BY <3>5, BehindShows
      <4> DEFINE q == SubSeq(W, 0 + 1, Len(W))
      <4>2. q \in Seq(TextBytes) /\ Len(q) = Len(W) - 0 /\ \A i \in 1..Len(q) : q[i] = W[0 + i]
        BY <4>1
      <4>3. rest = q
        BY <3>3
      <4> HIDE DEF q
      <4>4. Len(q) = Len(W) /\ \A i \in 1..Len(q) : q[i] = W[i]
        BY <3>5, <4>2
      <4>5. q = W
        BY <3>5, <4>2, <4>4, SeqEqual
      <4> QED BY <4>3, <4>5
    <3>7. DecodeUnits(W, f) = W
      BY <1>3, <3>2, <3>5, BytesReadAsTheyAre DEF f
    <3> HIDE DEF rest
    <3> QED BY <3>2, <3>4, <3>6, <3>7
  <2> QED BY <1>2, <2>1, <2>2
<1>5. Truncated(text) <=> Size(text) > WindowBytes
  BY DEF Truncated
<1> HIDE DEF W, F, m, d
<1>6. /\ rest \in Seq(TextBytes) /\ Len(rest) = Len(W) - m /\ \A i \in 1..Len(rest) : rest[i] = W[m + i]
  <2>1. W \in Seq(TextBytes) /\ m \in Nat /\ m <= Len(W)
    BY <1>1 DEF Shows
  <2> QED BY <2>1, BehindShows
<1> HIDE DEF rest
<1>7. Len(rest) = (IF Truncated(text) THEN WindowBytes ELSE Size(text)) - m /\ Len(rest) <= Len(F)
  <2> DEFINE x == Len(F)
             y == Len(W)
             z == Len(rest)
  <2>1. /\ x \in Nat /\ y \in Nat /\ m \in 0..4 /\ z = y - m /\ Size(text) = m + x
        /\ y = IF WindowBytes < m + x THEN WindowBytes ELSE m + x
    BY <1>1, <1>6 DEF Shows
  <2>2. WindowBytes \in Nat
    BY TextAssumption
  <2> HIDE DEF x, y, z
  <2>3. z = (IF Truncated(text) THEN WindowBytes ELSE Size(text)) - m /\ z <= x
    BY <1>5, <2>1, <2>2
  <2> QED BY <2>3 DEF x, z
<1>8. \A i \in 1..Len(rest) : rest[i] = F[i]
  BY <1>1, <1>6 DEF Shows
<1>9. Reads(text, d, rest)
  BY <1>4, <1>6, <1>7, <1>8 DEF Reads, F, m
<1> QED BY <1>9 DEF d, W

(* A text that was read whole is counted as its author sees it. *)
LEMMA WholeReadingRight ==
  ASSUME NEW text \in Texts, ~Truncated(text), DecodeText(Window(text)).certainty # "unknown", ~Ambiguous(text)
  PROVE  LET c == text.chars
             info == TextInfo(text)
         IN  /\ info.lines = AllLines(c)
             /\ info.final = {c # <<>> /\ Len(c) \in LineEnds(c)}
             /\ info.ending = EndingOf(Endings(c))
<1> DEFINE c == text.chars
           f == text.form
           F == Body(c, f)
           D == DecodeUnits(F, f)
           decoding == DecodeText(Window(text))
           info == TextInfo(text)
           S == TextBytes \cup {"other"}
<1>1. c \in Seq(Characters) /\ f \in Forms
  BY TextIs
<1>2. F \in Seq(TextBytes) /\ D \in Seq(S) /\ \E pos : Spells(D, c, pos)
  BY <1>1, BodySpells
<1>3. PICK rest : Reads(text, decoding, rest)
  BY ReadsRest
<1>4. Shows(text, Window(text), F, Len(f.mark))
  BY TextWindowShows
<1>5. rest = F
  <2> DEFINE m == Len(f.mark)
  <2>1. /\ rest \in Seq(TextBytes) /\ Len(rest) = Size(text) - m
        /\ \A i \in 1..Len(rest) : rest[i] = F[i]
    BY <1>3 DEF Reads
  <2>2. Size(text) = m + Len(F) /\ Len(F) \in Nat /\ m \in 0..4
    BY <1>4 DEF Shows
  <2> HIDE DEF m, F
  <2>3. Len(rest) = Len(F)
    BY <2>1, <2>2
  <2> QED BY <1>2, <2>1, <2>3, SeqEqual
<1>6. decoding.decoded = D
  BY <1>3, <1>5 DEF Reads
<1>7. info.lines = Lines(D) /\ info.final = {EndsLine(D)} /\ info.ending = LineEnding(D)
  <2>1. info = [encoding |-> decoding.encoding, certainty |-> decoding.certainty,
                ending |-> LineEnding(decoding.decoded), lines |-> Lines(decoding.decoded),
                final |-> {EndsLine(decoding.decoded)}]
    BY DEF TextInfo, InspectTextBytes
  <2> HIDE DEF decoding, D, info
  <2> QED BY <1>6, <2>1
<1>8. PICK pos : Spells(D, c, pos)
  BY <1>2
<1> HIDE DEF D, c, info, S
<1>9. /\ AllLines(D) = AllLines(c)
      /\ D # <<>> /\ Len(D) \in LineEnds(D) <=> c # <<>> /\ Len(c) \in LineEnds(c)
  BY <1>1, <1>2, <1>8, SpelledLines
<1>10. Endings(D) = Endings(c)
  BY <1>8, SpelledEndings
<1>11. Lines(D) = AllLines(D) /\ (EndsLine(D) <=> D # <<>> /\ Len(D) \in LineEnds(D))
  BY <1>2, LinesAreAll
<1>12. LineEnding(D) = EndingOf(Endings(D))
  BY <1>2, EndingSays
<1>13. {EndsLine(D)} = {c # <<>> /\ Len(c) \in LineEnds(c)}
  <2> DEFINE p == EndsLine(D)
             q == c # <<>> /\ Len(c) \in LineEnds(c)
  <2>1. p <=> q
    BY <1>9, <1>11
  <2>2. p \in BOOLEAN /\ q \in BOOLEAN
    BY DEF EndsLine
  <2> HIDE DEF p, q
  <2>3. p = q
    BY <2>1, <2>2
  <2>4. {p} = {q}
    BY <2>3
  <2> QED BY <2>4 DEF p, q
<1> QED BY <1>7, <1>9, <1>10, <1>11, <1>12, <1>13 DEF c, info

(* A sample has no count, and shows no line ending the text does not have   *)
(* unless it ends between the halves of one.                                *)
LEMMA SampleReadingRight ==
  ASSUME NEW text \in Texts, Truncated(text), DecodeText(Window(text)).certainty # "unknown", ~Ambiguous(text)
  PROVE  LET c == text.chars
             info == TextInfo(text)
         IN  /\ info.lines = Unclaimed /\ info.final = {}
             /\ \/ CutsLineEnd(text)
                \/ info.ending \in {"none"} \cup Endings(c)
                \/ info.ending = "mixed" /\ Cardinality(Endings(c)) > 1
<1> DEFINE c == text.chars
           f == text.form
           m == Len(f.mark)
           F == Body(c, f)
           D == DecodeUnits(F, f)
           decoding == DecodeText(Window(text))
           info == TextInfo(text)
           S == TextBytes \cup {"other"}
<1>1. c \in Seq(Characters) /\ f \in Forms
  BY TextIs
<1>2. F \in Seq(TextBytes) /\ D \in Seq(S) /\ \E pos : Spells(D, c, pos)
  BY <1>1, BodySpells
<1>3. PICK rest : Reads(text, decoding, rest)
  BY ReadsRest
<1> DEFINE d == DecodeUnits(rest, f)
<1>4. info.lines = Unclaimed /\ info.final = {} /\ info.ending = LineEnding(d)
  <2>1. info = [encoding |-> decoding.encoding, certainty |-> decoding.certainty,
                ending |-> LineEnding(decoding.decoded), lines |-> Unclaimed, final |-> {}]
    BY DEF TextInfo, InspectTextBytes
  <2>2. decoding.decoded = d
    BY <1>3 DEF Reads
  <2> HIDE DEF decoding, d, info
  <2> QED BY <2>1, <2>2
<1>5. /\ rest \in Seq(TextBytes) /\ Len(rest) = WindowBytes - m /\ Len(rest) <= Len(F)
      /\ \A i \in 1..Len(rest) : rest[i] = F[i]
  BY <1>3 DEF Reads
<1>6. Len(d) <= Len(D) /\ \A k \in 1..Len(d) : d[k] = D[k]
  BY <1>1, <1>2, <1>5, FirstUnits
<1>7. d \in Seq(S) /\ Len(d) = Len(rest) \div f.width
  BY <1>1, <1>5, UnitsRead
<1>8. CutsLineEnd(text) <=> Len(d) \in CrLf(D)
  <2>1. Encode(c, [f EXCEPT !.mark = <<>>]) = F
    BY <1>1, EncodedIs
  <2>2. CutsLineEnd(text) <=> (WindowBytes - m) \div f.width \in CrLf(D)
    <3>1. CutsLineEnd(text) <=> (WindowBytes - m) \div f.width \in CrLf(DecodeUnits(Encode(c, [f EXCEPT !.mark = <<>>]), f))
      BY DEF CutsLineEnd
    <3> QED BY <2>1, <3>1
  <2> QED BY <1>5, <1>7, <2>2
<1>9. CASE Len(d) \in CrLf(D)
  BY <1>4, <1>8, <1>9
<1>10. CASE Len(d) \notin CrLf(D)
  <2>1. PICK pos : Spells(D, c, pos)
    BY <1>2
  <2> HIDE DEF D, d, c, S, info
  <2>2. Endings(d) \subseteq Endings(D)
    BY <1>2, <1>6, <1>7, <1>10, SampleEndings
  <2>3. Endings(D) = Endings(c)
    BY <2>1, SpelledEndings
  <2>4. IsFiniteSet(Endings(D))
    BY <1>2, EndingSays
  <2>5. LineEnding(d) \in {"none"} \cup Endings(c) \/ (LineEnding(d) = "mixed" /\ Cardinality(Endings(c)) > 1)
    <3> DEFINE E == Endings(c)
    <3>1. IsFiniteSet(E) /\ Endings(d) \subseteq E
      BY <2>2, <2>3, <2>4
    <3> HIDE DEF E
    <3>2. LineEnding(d) \in {"none"} \cup E \/ (LineEnding(d) = "mixed" /\ Cardinality(E) > 1)
      BY <1>7, <3>1, SampleEndingSays
    <3> QED BY <3>2 DEF E
  <2> QED BY <1>4, <2>5 DEF info, c
<1> QED BY <1>9, <1>10

(* So what is said of the reading of a text is honest. *)
LEMMA ReadingRight ==
  ASSUME NEW text \in Texts
  PROVE  ReadingIsHonest(text, TextInfo(text))
<1> DEFINE c == text.chars
           info == TextInfo(text)
           decoding == DecodeText(Window(text))
           lines == AllLines(c)
           final == {c # <<>> /\ Len(c) \in LineEnds(c)}
           ending == CASE Endings(c) = {} -> "none"
                       [] Cardinality(Endings(c)) > 1 -> "mixed"
                       [] OTHER -> CHOOSE e \in Endings(c) : TRUE
           shown == \/ CutsLineEnd(text)
                    \/ info.ending \in {"none"} \cup Endings(c)
                    \/ info.ending = "mixed" /\ Cardinality(Endings(c)) > 1
<1>1. info.certainty = decoding.certainty /\ info.encoding = decoding.encoding
  BY DEF TextInfo, InspectTextBytes
<1>2. ending = EndingOf(Endings(c))
  BY DEF EndingOf
<1>3. ASSUME decoding.certainty # "unknown", ~Ambiguous(text)
      PROVE  /\ info.encoding = text.form.encoding
             /\ ~Truncated(text) => info.lines = lines /\ info.final = final /\ info.ending = ending
             /\ Truncated(text) => info.lines = Unclaimed /\ info.final = {} /\ shown
  <2>1. \E rest : Reads(text, decoding, rest)
    BY <1>3, ReadsRest
  <2>2. info.encoding = text.form.encoding
    BY <1>1, <2>1 DEF Reads
  <2>3. ASSUME ~Truncated(text)
        PROVE  info.lines = lines /\ info.final = final /\ info.ending = EndingOf(Endings(c))
    BY <1>3, <2>3, WholeReadingRight
  <2>4. ASSUME Truncated(text)
        PROVE  info.lines = Unclaimed /\ info.final = {} /\ shown
    BY <1>3, <2>4, SampleReadingRight
  <2> HIDE DEF ending, info, shown, lines, final
  <2> QED BY <1>2, <2>2, <2>3, <2>4
<1>4. ReadingIsHonest(text, info) <=>
        (info.certainty # "unknown" /\ ~(text.form.encoding = "utf-16le" /\ c # <<>> /\ c[1] = "nul") =>
           /\ info.encoding = text.form.encoding
           /\ ~Truncated(text) => info.lines = lines /\ info.final = final /\ info.ending = ending
           /\ Truncated(text) => info.lines = Unclaimed /\ info.final = {} /\ shown)
  BY DEF ReadingIsHonest
<1> HIDE DEF ending, info, shown, lines, final, decoding
<1> QED BY <1>1, <1>3, <1>4 DEF Ambiguous, info

-----------------------------------------------------------------------------
(* The bytes of a UTF-8 text: those of a wide character follow one another, *)
(* and there is no other continuation.                                      *)
Plain(chars) == ~Has(chars, "nul") /\ ~Has(chars, "stray")

WellFormed(b, i) ==
  /\ b[i] \notin {"ff", "fe", "nul"}
  /\ b[i] = "lead" => i < Len(b) /\ b[i + 1] = "cont"
  /\ b[i] = "cont" => i > 1 /\ b[i - 1] = "lead"

(* So are the bytes of a text without NUL and stray bytes. *)
LEMMA BodyWellFormed ==
  ASSUME NEW chars \in Seq(Characters), NEW form \in Forms, form.width = 1, Plain(chars)
  PROVE  LET F == Body(chars, form)
         IN  /\ \A i \in 1..Len(F) : WellFormed(F, i) /\ F[i] \notin {"ef", "bb", "bf"}
             /\ ~Has(chars, "ctl") => ~Has(F, "ctl")
             /\ F # <<>> => F[1] # "cont"
<1> DEFINE F == Body(chars, form)
           s == CharBlocks(chars, form)
           n == Len(chars)
           B == TextBytes \ {"ef", "bb", "bf", "ff", "fe"}
<1>1. /\ s \in Seq(Seq(B)) /\ Len(s) = n /\ n \in Nat /\ DOMAIN chars = 1..n
      /\ \A k \in 1..n : s[k] = Bytes1[chars[k]] /\ chars[k] \in Characters
  BY ByteBlocks, LenProperties
<1>2. F \in Seq(B) /\ Len(F) \in Nat /\ DOMAIN F = 1..Len(F) /\ F = FlattenSeq(s)
  <2>1. F \in Seq(B)
    BY BodySpells
  <2> QED BY <2>1, LenProperties DEF Body
<1> HIDE DEF s, F
<1>3. ASSUME NEW i \in 1..Len(F)
      PROVE  \E k \in 1..n : \E j \in 1..Len(s[k]) :
               /\ i = Begins(s, k) + j /\ F[i] = s[k][j] /\ Begins(s, k) \in Nat /\ Begins(s, k) + Len(s[k]) <= Len(F)
               /\ \A l \in 1..Len(s[k]) : F[Begins(s, k) + l] = s[k][l]
  <2> HIDE DEF B
  <2>1. PICK k \in 1..n : \E j \in 1..Len(s[k]) : i = Begins(s, k) + j
    <3>1. i \in 1..Len(FlattenSeq(s)) /\ s \in Seq(Seq(B))
      BY <1>1, <1>2
    <3>2. \E k \in 1..Len(s) : \E j \in 1..Len(s[k]) : i = Begins(s, k) + j
      BY <3>1, EveryCellInABlock
    <3> QED BY <1>1, <3>2
  <2>2. \A l \in 1..Len(s[k]) : F[Begins(s, k) + l] = s[k][l]
    <3>1. s \in Seq(Seq(B)) /\ k \in 1..Len(s)
      BY <1>1
    <3>2. \A l \in 1..Len(s[k]) : FlattenSeq(s)[Begins(s, k) + l] = s[k][l]
      BY <3>1, BlockPlaced
    <3> QED BY <1>2, <3>2
  <2>3. Begins(s, k) \in Nat /\ Begins(s, k) + Len(s[k]) <= Len(F)
    <3>1. k \in 1..(n + 1) /\ k + 1 \in 1..(n + 1)
      BY <1>1
    <3>2. Begins(s, k) \in Nat /\ Begins(s, k + 1) <= Len(F)
      BY <1>1, <1>2, <3>1, BlockBegins
    <3>3. s \in Seq(Seq(B)) /\ k \in 1..Len(s)
      BY <1>1
    <3>4. Begins(s, k + 1) = Begins(s, k) + Len(s[k])
      BY <3>3, BlockPlaced
    <3> QED BY <3>2, <3>4
  <2> QED BY <2>1, <2>2, <2>3
<1>4. ASSUME NEW k \in 1..n
      PROVE  /\ chars[k] \in {"t", "lf", "cr", "ctl"} => Len(s[k]) = 1 /\ s[k][1] = chars[k]
             /\ chars[k] = "wide" => Len(s[k]) = 2 /\ s[k][1] = "lead" /\ s[k][2] = "cont"
             /\ chars[k] \in {"t", "lf", "cr", "ctl", "wide"}
  <2> DEFINE c == chars[k]
  <2>1. c \in Characters /\ s[k] = Bytes1[c] /\ c # "nul" /\ c # "stray"
    BY <1>1 DEF Plain, Has
  <2> HIDE DEF c
  <2>2. /\ Len(Bytes1[c]) = IF c = "wide" THEN 2 ELSE 1
        /\ c \in {"t", "lf", "cr", "ctl", "nul"} => Bytes1[c][1] = c
        /\ c = "wide" => Bytes1[c][1] = "lead" /\ Bytes1[c][2] = "cont"
    BY <2>1, BytesAre
  <2>3. c \in {"t", "lf", "cr", "ctl", "wide"}
    BY <2>1 DEF Characters
  <2> QED BY <2>1, <2>2, <2>3 DEF c
<1>5. ASSUME NEW i \in 1..Len(F)
      PROVE  /\ WellFormed(F, i) /\ F[i] \notin {"ef", "bb", "bf"}
             /\ F[i] = "ctl" => Has(chars, "ctl")
  <2>1. PICK k \in 1..n : \E j \in 1..Len(s[k]) :
               /\ i = Begins(s, k) + j /\ F[i] = s[k][j] /\ Begins(s, k) \in Nat /\ Begins(s, k) + Len(s[k]) <= Len(F)
               /\ \A l \in 1..Len(s[k]) : F[Begins(s, k) + l] = s[k][l]
    BY <1>3
  <2>2. PICK j \in 1..Len(s[k]) :
               /\ i = Begins(s, k) + j /\ F[i] = s[k][j] /\ Begins(s, k) \in Nat /\ Begins(s, k) + Len(s[k]) <= Len(F)
               /\ \A l \in 1..Len(s[k]) : F[Begins(s, k) + l] = s[k][l]
    BY <2>1
  <2> DEFINE at == Begins(s, k)
  <2>3. i = at + j /\ at \in Nat
    BY <2>2
  <2>4. CASE chars[k] \in {"t", "lf", "cr", "ctl"}
    <3>1. Len(s[k]) = 1 /\ s[k][1] = chars[k]
      BY <1>4, <2>4
    <3>2. j = 1
      BY <3>1
    <3>3. F[i] = chars[k]
      BY <2>2, <3>1, <3>2
    <3>4. F[i] \in {"t", "lf", "cr", "ctl"}
      BY <2>4, <3>3
    <3>5. F[i] = "ctl" => Has(chars, "ctl")
      BY <1>1, <3>3 DEF Has
    <3>6. WellFormed(F, i)
      BY <3>4 DEF WellFormed
    <3> QED BY <3>4, <3>5, <3>6
  <2>5. CASE chars[k] = "wide"
    <3>1. Len(s[k]) = 2 /\ s[k][1] = "lead" /\ s[k][2] = "cont"
      BY <1>4, <2>5
    <3>2. (j = 1 \/ j = 2) /\ 1 \in 1..Len(s[k]) /\ 2 \in 1..Len(s[k])
      BY <3>1
    <3>3. F[at + 1] = "lead" /\ F[at + 2] = "cont" /\ at + 2 <= Len(F)
      BY <2>2, <3>1, <3>2
    <3> HIDE DEF at
    <3>4. CASE j = 1
      <4>1. F[i] = "lead" /\ i < Len(F) /\ i + 1 = at + 2
        BY <1>2, <2>3, <3>3, <3>4
      <4>2. WellFormed(F, i)
        BY <3>3, <4>1 DEF WellFormed
      <4> QED BY <4>1, <4>2
    <3>5. CASE j = 2
      <4>1. F[i] = "cont" /\ i > 1 /\ i - 1 = at + 1
        BY <1>2, <2>3, <3>3, <3>5
      <4>2. WellFormed(F, i)
        BY <3>3, <4>1 DEF WellFormed
      <4> QED BY <4>1, <4>2
    <3> QED BY <3>2, <3>4, <3>5
  <2> QED BY <1>4, <2>4, <2>5
<1>6. F # <<>> => F[1] # "cont"
  <2> SUFFICES ASSUME F # <<>> PROVE F[1] # "cont"
    OBVIOUS
  <2>1. 1 \in 1..Len(F)
    <3>1. Len(F) # 0
      BY <1>2, EmptySeq
    <3> QED BY <1>2, <3>1
  <2>2. WellFormed(F, 1)
    BY <1>5, <2>1
  <2> QED BY <2>2 DEF WellFormed
<1>7. ~Has(chars, "ctl") => ~Has(F, "ctl")
  <2>1. Has(F, "ctl") => \E i \in 1..Len(F) : F[i] = "ctl"
    BY <1>2 DEF Has
  <2> QED BY <1>5, <2>1
<1> QED BY <1>5, <1>6, <1>7 DEF F

(* So are the first bytes of a text, unless they end inside a character. *)
LEMMA PrefixValid ==
  ASSUME NEW text \in Texts, text.form.width = 1, Plain(text.chars), NEW N \in Nat, N >= 4,
         ~CutsCharacter(Encode(text.chars, text.form), N)
  PROVE  LET P == Prefix(Encode(text.chars, text.form), N)
         IN  /\ ValidUtf8(P) /\ ~Has(P, "nul")
             /\ P # <<>> => P[1] \notin {"cont", "bb", "bf", "ff"}
             /\ ~Has(text.chars, "ctl") => ~Has(P, "ctl")
<1> DEFINE f == text.form
           E == Encode(text.chars, f)
           F == Body(text.chars, f)
           m == Len(f.mark)
           P == Prefix(E, N)
<1>1. text.chars \in Seq(Characters) /\ f \in Forms
  BY TextIs
<1>2. /\ E \in Seq(TextBytes) /\ Len(E) = m + Len(F) /\ Len(F) \in Nat
      /\ \A i \in 1..m : E[i] = f.mark[i]
      /\ \A i \in 1..Len(F) : E[m + i] = F[i]
  BY <1>1, EncodedIs
<1>3. (m = 0 \/ m = 3) /\ (m = 3 => f.mark[1] = "ef" /\ f.mark[2] = "bb" /\ f.mark[3] = "bf")
  <2> DEFINE k == f.mark
  <2>1. f = Unmarked \/ f = Marks[1]
    BY <1>1, FormsAre
  <2>2. k = <<>> \/ k = <<"ef", "bb", "bf">>
    BY <2>1, MarksAre DEF Unmarked
  <2> DEFINE none == <<>>
             mark == <<"ef", "bb", "bf">>
  <2>3. Len(none) = 0 /\ Len(mark) = 3 /\ mark[1] = "ef" /\ mark[2] = "bb" /\ mark[3] = "bf"
    OBVIOUS
  <2>4. k = none \/ k = mark
    BY <2>2
  <2> HIDE DEF none, mark
  <2>5. Len(k) = 0 \/ (Len(k) = 3 /\ k[1] = "ef" /\ k[2] = "bb" /\ k[3] = "bf")
    BY <2>3, <2>4
  <2> HIDE DEF k
  <2>6. (Len(k) = 0 \/ Len(k) = 3) /\ (Len(k) = 3 => k[1] = "ef" /\ k[2] = "bb" /\ k[3] = "bf")
    BY <2>5
  <2> QED BY <2>6 DEF k
<1>4. /\ \A i \in 1..Len(F) : WellFormed(F, i) /\ F[i] \notin {"ef", "bb", "bf"}
      /\ ~Has(text.chars, "ctl") => ~Has(F, "ctl")
      /\ F # <<>> => F[1] # "cont"
  BY <1>1, BodyWellFormed
<1>5. F \in Seq(TextBytes)
  BY <1>1, BodySpells
<1> HIDE DEF E, F, P, m
<1>6. /\ P \in Seq(TextBytes) /\ Len(P) = IF N < Len(E) THEN N ELSE Len(E)
      /\ \A i \in 1..Len(P) : P[i] = E[i]
  BY <1>2, PrefixShows DEF P
<1>7. Len(P) \in Nat /\ DOMAIN P = 1..Len(P) /\ DOMAIN F = 1..Len(F) /\ Len(E) \in Nat /\ Len(P) <= Len(E)
  <2>1. Len(P) \in Nat /\ DOMAIN P = 1..Len(P) /\ DOMAIN F = 1..Len(F) /\ Len(E) \in Nat
    BY <1>2, <1>5, <1>6, LenProperties
  <2> QED BY <1>6, <2>1
(* What the encoded text is, cell by cell. *)
<1>8. ASSUME NEW i \in 1..Len(E), i > m
      PROVE  WellFormed(E, i) /\ E[i] \notin {"ef", "bb", "bf"} /\ (E[i] = "ctl" => Has(F, "ctl"))
  <2> DEFINE k == i - m
  <2>1. k \in 1..Len(F) /\ i = m + k /\ k - 1 \in Nat
    BY <1>2, <1>3, <1>8
  <2>2. E[i] = F[k]
    BY <1>2, <2>1
  <2>3. WellFormed(F, k) /\ F[k] \notin {"ef", "bb", "bf"}
    BY <1>4, <2>1
  <2> HIDE DEF k
  <2>4. ASSUME E[i] = "lead" PROVE i < Len(E) /\ E[i + 1] = "cont"
    <3>1. k < Len(F) /\ F[k + 1] = "cont"
      BY <2>2, <2>3, <2>4 DEF WellFormed
    <3>2. k + 1 \in 1..Len(F) /\ i + 1 = m + (k + 1) /\ i < Len(E)
      BY <1>2, <1>3, <2>1, <3>1
    <3> QED BY <1>2, <3>1, <3>2
  <2>5. ASSUME E[i] = "cont" PROVE i > 1 /\ E[i - 1] = "lead"
    <3>1. k > 1 /\ F[k - 1] = "lead"
      BY <2>2, <2>3, <2>5 DEF WellFormed
    <3>2. k - 1 \in 1..Len(F) /\ i - 1 = m + (k - 1) /\ i > 1
      BY <1>2, <1>3, <2>1, <3>1
    <3> QED BY <1>2, <3>1, <3>2
  <2>6. E[i] \notin {"ff", "fe", "nul"}
    BY <2>2, <2>3 DEF WellFormed
  <2>7. E[i] = "ctl" => Has(F, "ctl")
    BY <1>7, <2>1, <2>2 DEF Has
  <2> QED BY <2>2, <2>3, <2>4, <2>5, <2>6, <2>7 DEF WellFormed
<1>9. ASSUME NEW i \in 1..Len(E), ~(i > m)
      PROVE  m = 3 /\ ((i = 1 /\ E[i] = "ef") \/ (i = 2 /\ E[i] = "bb") \/ (i = 3 /\ E[i] = "bf"))
             /\ E[1] = "ef" /\ E[2] = "bb" /\ E[3] = "bf"
  <2>1. m = 3 /\ (i = 1 \/ i = 2 \/ i = 3)
    BY <1>3, <1>9
  <2>2. E[1] = "ef" /\ E[2] = "bb" /\ E[3] = "bf"
    BY <1>2, <1>3, <2>1
  <2> QED BY <2>1, <2>2
<1>10. ASSUME NEW i \in 1..Len(P)
       PROVE  /\ P[i] \notin {"ff", "fe", "nul"}
              /\ P[i] = "lead" => i < Len(P) /\ P[i + 1] = "cont"
              /\ P[i] = "cont" => i > 1 /\ P[i - 1] = "lead"
              /\ P[i] = "ef" => i + 1 < Len(P) /\ P[i + 1] = "bb" /\ P[i + 2] = "bf"
              /\ P[i] = "ctl" => Has(F, "ctl")
              /\ i = 1 => P[i] \notin {"cont", "bb", "bf", "ff"}
  <2>1. i \in 1..Len(E) /\ P[i] = E[i]
    BY <1>6, <1>7
  <2>2. CASE i > m
    <3>1. WellFormed(E, i) /\ E[i] \notin {"ef", "bb", "bf"} /\ (E[i] = "ctl" => Has(F, "ctl"))
      BY <1>8, <2>1, <2>2
    <3>2. ASSUME P[i] = "lead" PROVE i < Len(P) /\ P[i + 1] = "cont"
      <4>1. i < Len(E) /\ E[i + 1] = "cont" /\ E[i] = "lead"
        BY <2>1, <3>1, <3>2 DEF WellFormed
      <4>2. i # N \/ ~(N < Len(E))
        <5>1. ~(N < Len(E) /\ E[N] = "lead")
          BY DEF CutsCharacter, E
        <5> QED BY <4>1, <5>1
      <4>3. i < Len(P) /\ i + 1 \in 1..Len(P)
        BY <1>6, <1>7, <4>1, <4>2
      <4> QED BY <1>6, <4>1, <4>3
    <3>3. ASSUME P[i] = "cont" PROVE i > 1 /\ P[i - 1] = "lead"
      <4>1. i > 1 /\ E[i - 1] = "lead"
        BY <2>1, <3>1, <3>3 DEF WellFormed
      <4>2. i - 1 \in 1..Len(P)
        BY <1>7, <4>1
      <4> QED BY <1>6, <4>1, <4>2
    <3>4. P[i] \notin {"ff", "fe", "nul", "ef", "bb", "bf"}
      BY <2>1, <3>1 DEF WellFormed
    <3>5. i = 1 => P[i] # "cont"
      BY <3>3
    <3> QED BY <2>1, <3>1, <3>2, <3>3, <3>4, <3>5
  <2>3. CASE ~(i > m)
    <3>1. /\ m = 3 /\ ((i = 1 /\ E[i] = "ef") \/ (i = 2 /\ E[i] = "bb") \/ (i = 3 /\ E[i] = "bf"))
          /\ E[1] = "ef" /\ E[2] = "bb" /\ E[3] = "bf"
      BY <1>9, <2>1, <2>3
    <3>2. P[i] = "ef" => i = 1
      BY <2>1, <3>1
    <3>3. 3 <= Len(P) /\ 2 \in 1..Len(P) /\ 3 \in 1..Len(P)
      BY <1>2, <1>6, <1>7, <3>1
    <3>4. P[2] = "bb" /\ P[3] = "bf"
      BY <1>6, <3>1, <3>3
    <3>5. P[i] = "ef" => i + 1 < Len(P) /\ P[i + 1] = "bb" /\ P[i + 2] = "bf"
      <4> SUFFICES ASSUME P[i] = "ef" PROVE i + 1 < Len(P) /\ P[i + 1] = "bb" /\ P[i + 2] = "bf"
        OBVIOUS
      <4>1. i = 1 /\ i + 1 = 2 /\ i + 2 = 3
        BY <3>2
      <4> QED BY <1>7, <3>3, <3>4, <4>1
    <3>6. P[i] \in {"ef", "bb", "bf"} /\ (i = 1 => P[i] = "ef")
      BY <2>1, <3>1
    <3> QED BY <3>5, <3>6
  <2> QED BY <2>2, <2>3
<1>11. ValidUtf8(P)
  BY <1>7, <1>10 DEF ValidUtf8
<1>12. ~Has(P, "nul") /\ (~Has(text.chars, "ctl") => ~Has(P, "ctl"))
  BY <1>4, <1>7, <1>10 DEF Has
<1>13. P # <<>> => P[1] \notin {"cont", "bb", "bf", "ff"}
  <2> SUFFICES ASSUME P # <<>> PROVE P[1] \notin {"cont", "bb", "bf", "ff"}
    OBVIOUS
  <2>1. Len(P) # 0
    BY <1>6, EmptySeq
  <2>2. 1 \in 1..Len(P)
    BY <1>7, <2>1
  <2> QED BY <1>10, <2>2
<1> QED BY <1>11, <1>12, <1>13 DEF P, E

(* Proper UTF-8 text is taken for text, and what cannot be read is none or  *)
(* was cut inside a character.                                              *)
LEMMA ProperIsText ==
  ASSUME NEW text \in Texts, Proper(text), text.form.encoding = "utf-8",
         ~CutsCharacter(Encode(text.chars, text.form), HeaderBytes)
  PROVE  Identified(text) = "text"
<1> DEFINE P == FileHeader(text)
           c == text.chars
           f == text.form
           E == Encode(c, f)
           F == Body(c, f)
           count(class) == Cardinality({i \in DOMAIN P : P[i] \in class})
<1>1. c \in Seq(Characters) /\ f \in Forms /\ c # <<>>
  BY TextIs DEF Proper
<1>2. f.width = 1
  <2>1. f = Unmarked \/ f = Marks[1] \/ f = Marks[2] \/ f = Marks[3] \/ f = Marks[4] \/ f = Marks[5]
    BY <1>1, FormsAre
  <2> QED BY <2>1, MarksAre DEF Unmarked
<1>3. Plain(c) /\ ~Has(c, "ctl")
  BY DEF Proper, Plain, Has
<1>4. P = Prefix(E, HeaderBytes) /\ HeaderBytes \in Nat /\ HeaderBytes >= 4
  BY TextAssumption DEF FileHeader
<1>5. /\ ValidUtf8(P) /\ ~Has(P, "nul") /\ ~Has(P, "ctl")
      /\ P # <<>> => P[1] \notin {"cont", "bb", "bf", "ff"}
  BY <1>2, <1>3, <1>4, PrefixValid
<1>6. /\ E \in Seq(TextBytes) /\ Len(E) = Len(f.mark) + Len(F) /\ Len(F) \in Nat /\ Len(f.mark) \in 0..4
  BY <1>1, EncodedIs
<1>7. Len(F) # 0
  <2> DEFINE s == CharBlocks(c, f)
             n == Len(c)
  <2>1. /\ s \in Seq(Seq(TextBytes \ {"ef", "bb", "bf", "ff", "fe"})) /\ Len(s) = n /\ n \in Nat
        /\ \A k \in 1..n : s[k] = Bytes1[c[k]] /\ c[k] \in Characters
    BY <1>1, <1>2, ByteBlocks
  <2>2. F = FlattenSeq(s)
    BY DEF Body
  <2>3. n # 0
    BY <1>1, EmptySeq
  <2> HIDE DEF s, n, F
  <2>4. 1 \in 1..n
    BY <2>1, <2>3
  <2>5. Len(s[1]) \in {1, 2}
    <3> DEFINE x == c[1]
    <3>1. x \in Characters /\ s[1] = Bytes1[x]
      BY <2>1, <2>4
    <3> HIDE DEF x
    <3>2. Len(Bytes1[x]) = IF x = "wide" THEN 2 ELSE 1
      BY <3>1, BytesAre
    <3> QED BY <3>1, <3>2
  <2>6. /\ Begins(s, 1) = 0 /\ Begins(s, 1 + 1) = Begins(s, 1) + Len(s[1])
        /\ Begins(s, 1 + 1) <= Len(FlattenSeq(s))
    <3>1. 1 + 1 \in 1..(n + 1)
      BY <2>1, <2>4
    <3>2. Begins(s, 1) = 0 /\ Begins(s, 1 + 1) <= Len(FlattenSeq(s))
      BY <2>1, <3>1, BlockBegins
    <3>3. Begins(s, 1 + 1) = Begins(s, 1) + Len(s[1])
      BY <2>1, <2>4, BlockPlaced
    <3> QED BY <3>2, <3>3
  <2>7. Len(FlattenSeq(s)) # 0
    <3> DEFINE a == Begins(s, 1)
               b == Begins(s, 1 + 1)
               l == Len(s[1])
    <3>1. a = 0 /\ b = a + l /\ l \in {1, 2} /\ b <= Len(FlattenSeq(s))
      BY <2>5, <2>6
    <3> HIDE DEF a, b, l
    <3> QED BY <3>1
  <2> QED BY <2>2, <2>7
<1> HIDE DEF E, F
<1>8. P \in Seq(TextBytes) /\ Len(P) = IF HeaderBytes < Len(E) THEN HeaderBytes ELSE Len(E)
  BY <1>4, <1>6, PrefixShows
<1> HIDE DEF P
<1>9. Len(P) \in Nat /\ Len(P) # 0 /\ DOMAIN P = 1..Len(P) /\ P # <<>>
  <2>1. Len(P) \in Nat /\ DOMAIN P = 1..Len(P)
    BY <1>8, LenProperties
  <2>2. Len(P) # 0
    BY <1>4, <1>6, <1>7, <1>8
  <2> QED BY <1>8, <2>1, <2>2, EmptySeq
<1>10. count({"ctl"}) = 0
  <2>1. {i \in DOMAIN P : P[i] \in {"ctl"}} = {}
    BY <1>5 DEF Has
  <2> QED BY <2>1, FS_EmptySet
<1>11. count({"cont", "bb", "bf"}) \in Nat /\ count({"cont", "bb", "bf"}) < Len(P)
  <2> DEFINE T == {i \in DOMAIN P : P[i] \in {"cont", "bb", "bf"}}
             l == Len(P)
  <2>1. T \subseteq 2..l /\ l \in Nat /\ l # 0
    <3>1. 1 \notin T
      BY <1>5, <1>9
    <3>2. T \subseteq 1..l
      BY <1>9
    <3> QED BY <1>9, <3>1, <3>2
  <2> HIDE DEF T, l
  <2>2. IsFiniteSet(2..l) /\ Cardinality(2..l) = l - 1
    <3> DEFINE K == 2..l
    <3>1. 2 \in Int /\ l \in Int
      BY <2>1
    <3>2. IsFiniteSet(2..l) /\ Cardinality(2..l) = IF 2 > l THEN 0 ELSE l - 2 + 1
      BY <3>1, FS_Interval
    <3> QED BY <2>1, <3>2
  <2>3. IsFiniteSet(T) /\ Cardinality(T) <= Cardinality(2..l)
    BY <2>1, <2>2, FS_Subset
  <2>4. Cardinality(T) \in Nat
    BY <2>3, FS_CardinalityType
  <2> QED BY <2>1, <2>2, <2>3, <2>4 DEF T, l
<1>12. (count({"ctl"}) * 100) \div (Len(P) - count({"cont", "bb", "bf"})) < 2
  <2> DEFINE a == count({"ctl"})
             b == count({"cont", "bb", "bf"})
             k == Len(P) - b
  <2>1. a = 0 /\ b \in Nat /\ Len(P) \in Nat /\ b < Len(P)
    BY <1>9, <1>10, <1>11
  <2> HIDE DEF a, b
  <2>2. k \in Nat /\ k > 0 /\ a * 100 = 0
    BY <2>1
  <2> HIDE DEF k
  <2>3. 0 \div k = 0
    BY <2>2
  <2>4. (a * 100) \div k < 2
    BY <2>2, <2>3
  <2> QED BY <2>4 DEF a, b, k
<1>13. ProbablyText(P)
  <2> HIDE DEF count
  <2> QED BY <1>5, <1>9, <1>12 DEF ProbablyText, count
<1>14. ~LooksLikeMP3Frame(P)
  BY <1>5, <1>9 DEF LooksLikeMP3Frame
<1>15. Sniff(text) = "text"
  BY <1>13, <1>14 DEF Sniff, P
<1> QED BY <1>15 DEF Identified

(* So what is said of the identity of a text is honest. *)
LEMMA IdentityRight ==
  ASSUME NEW text \in Texts
  PROVE  IdentityIsHonest(text, Identified(text), TextInfo(text))
<1> DEFINE E == Encode(text.chars, text.form)
           W == Window(text)
           info == TextInfo(text)
<1>1. ASSUME Proper(text), text.form.encoding = "utf-8", ~CutsCharacter(E, HeaderBytes)
      PROVE  Identified(text) = "text"
  BY <1>1, ProperIsText
<1>2. ASSUME info.certainty = "unknown", ~Has(text.chars, "nul"), ~Has(text.chars, "stray"), ~CutsCharacter(E, WindowBytes)
      PROVE  FALSE
  <2>1. DecodeText(W).certainty = "unknown"
    BY <1>2 DEF TextInfo, InspectTextBytes
  <2>2. MarkOf(W) \in 0..5 /\ (MarkOf(W) = 0 <=> text.form = Unmarked)
    BY MarkSeen
  <2>3. text.form.width = 1
    <3>1. MarkOf(W) = 0
      <4> SUFFICES ASSUME MarkOf(W) > 0 PROVE FALSE
        BY <2>2
      <4> HIDE DEF W
      <4>1. DecodeText(W).certainty = "exact"
        BY DEF DecodeText
      <4> QED BY <2>1, <4>1
    <3> QED BY <2>2, <3>1 DEF Unmarked
  <2>4. Plain(text.chars) /\ WindowBytes \in Nat /\ WindowBytes >= 4 /\ W = Prefix(E, WindowBytes)
    BY <1>2, TextAssumption DEF Plain, Window
  <2>5. ValidUtf8(W) /\ ~Has(W, "nul")
    BY <1>2, <2>3, <2>4, PrefixValid
  <2>6. DecodeText(W).certainty # "unknown"
    <3> HIDE DEF W
    <3>1. DecodeText(W).certainty \in {"exact", "probable"}
      BY <2>5 DEF DecodeText
    <3> QED BY <3>1
  <2> QED BY <2>1, <2>6
<1> HIDE DEF info, W
<1>3. IdentityIsHonest(text, Identified(text), info)
  BY <1>1, <1>2 DEF IdentityIsHonest
<1> QED BY <1>3 DEF info

-----------------------------------------------------------------------------
(* What a step leaves: nothing said yet, or the facts of one file.          *)
ContentIInv ==
  /\ content \in Texts \cup Pointers \cup Images
  /\ \/ facts = NoFacts
     \/ content \in Texts /\ facts = [of |-> "text", kind |-> Identified(content), info |-> TextInfo(content)]
     \/ content \in Pointers /\ facts = [of |-> "pointer", found |-> IsPointer(content)]
     \/ content \in Images /\ facts = [of |-> "image", answer |-> InspectImage(content)]

(* Every step leaves it so. *)
LEMMA FactsStay ==
  ASSUME ContentIInv, [ContentNext]_contentVars
  PROVE  ContentIInv'
<1>1. CASE UNCHANGED contentVars
  BY <1>1 DEF ContentIInv, contentVars
<1>2. /\ \A x \in Texts : x.kind = "text"
      /\ \A x \in Pointers : x.kind = "pointer"
      /\ \A x \in Images : x.kind \in {"png", "gif", "webp", "svg"}
  BY TextIs DEF Pointers, Images
<1>3. CASE ReadText
  <2>1. content \in Texts
    BY <1>2, <1>3 DEF ReadText, Reading, ContentIInv
  <2> QED BY <1>3, <2>1 DEF ReadText, Reading, ContentIInv
<1>4. CASE ReadPointer
  <2>1. content \in Pointers
    BY <1>2, <1>4 DEF ReadPointer, Reading, ContentIInv
  <2> QED BY <1>4, <2>1 DEF ReadPointer, Reading, ContentIInv
<1>5. CASE ReadImage
  <2>1. content \in Images
    BY <1>2, <1>5 DEF ReadImage, Reading, ContentIInv
  <2> QED BY <1>5, <2>1 DEF ReadImage, Reading, ContentIInv
<1> QED BY <1>1, <1>3, <1>4, <1>5 DEF ContentNext

(* And such facts are honest. *)
LEMMA FactsRight ==
  ASSUME ContentIInv
  PROVE  FactsAreHonest
<1>1. CASE facts = NoFacts
  BY <1>1 DEF FactsAreHonest, NoFacts
<1>2. CASE content \in Texts /\ facts = [of |-> "text", kind |-> Identified(content), info |-> TextInfo(content)]
  <2>1. facts.of = "text" /\ facts.kind = Identified(content) /\ facts.info = TextInfo(content)
    BY <1>2
  <2>2. IdentityIsHonest(content, facts.kind, facts.info) /\ ReadingIsHonest(content, facts.info)
    BY <1>2, <2>1, IdentityRight, ReadingRight
  <2> QED BY <2>1, <2>2 DEF FactsAreHonest
<1>3. CASE content \in Pointers /\ facts = [of |-> "pointer", found |-> IsPointer(content)]
  <2>1. facts.of = "pointer" /\ facts.found = IsPointer(content)
    BY <1>3
  <2>2. PointerIsHonest(content, facts.found)
    BY <1>3, <2>1, PointerRight
  <2> QED BY <2>1, <2>2 DEF FactsAreHonest
<1>4. CASE content \in Images /\ facts = [of |-> "image", answer |-> InspectImage(content)]
  <2>1. facts.of = "image" /\ facts.answer = InspectImage(content)
    BY <1>4
  <2>2. ImageIsHonest(content, facts.answer)
    BY <1>4, <2>1, ImageRight
  <2> QED BY <2>1, <2>2 DEF FactsAreHonest
<1> QED BY <1>1, <1>2, <1>3, <1>4 DEF ContentIInv

(* What is said of a text, a pointer or an image holds of the whole of it as *)
(* its author wrote it, wherever the header and the window end.              *)
THEOREM FactsHold == ContentSpec => []FactsAreHonest
<1>1. ContentInit => ContentIInv
  BY DEF ContentInit, ContentIInv
<1>2. ContentIInv /\ [ContentNext]_contentVars => ContentIInv'
  BY FactsStay
<1>3. ContentIInv => FactsAreHonest
  BY FactsRight
<1> QED BY <1>1, <1>2, <1>3, PTL DEF ContentSpec
=============================================================================
