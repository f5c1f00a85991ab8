----------------------------- MODULE NumberLemmas -----------------------------
(***************************************************************************)
(* Induction over the natural numbers, stated of sets: what the proofs     *)
(* about recursive functions, counts, orders and sequences rest on.        *)
(***************************************************************************)
EXTENDS Naturals, Sequences, WellFoundedInduction, SequenceTheorems, TLAPS

\* A nonempty set of numbers has a least element.
LEMMA LeastNumber ==
    ASSUME NEW S \in SUBSET Nat, S # {}
    PROVE  \E n \in S : \A k \in S : n <= k
<1> DEFINE R == OpToRel(<, Nat)
<1>1. IsWellFoundedOn(R, Nat)
    BY NatLessThanWellFounded
<1>2. \A i, j \in Nat : <<i, j>> \in R <=> i < j
    BY DEF OpToRel
<1> HIDE DEF R
<1>3. PICK n \in S : \A k \in S : ~(<<k, n>> \in R)
    BY <1>1, WFMin
<1>4. ASSUME NEW k \in S PROVE n <= k
  <2>1. n \in Nat /\ k \in Nat /\ ~(k < n)
      BY <1>2, <1>3
  <2> QED BY <2>1
<1> QED BY <1>4

\* A set that has 0, and with each number the next one, has them all.
LEMMA Induction ==
    ASSUME NEW S, 0 \in S, \A n \in Nat : n \in S => n + 1 \in S
    PROVE  \A n \in Nat : n \in S
<1> DEFINE Bad == {n \in Nat : n \notin S}
<1> SUFFICES ASSUME Bad # {} PROVE FALSE
    OBVIOUS
<1>1. PICK n \in Bad : \A k \in Bad : n <= k
  <2>1. Bad \in SUBSET Nat
      OBVIOUS
  <2> QED BY <2>1, LeastNumber
<1>2. n # 0 /\ n \in Nat /\ n - 1 \in Nat
    OBVIOUS
<1>3. n - 1 \in S
    BY <1>1, <1>2
<1> QED BY <1>2, <1>3

\* What holds at x whenever it holds wherever rank is lower, holds everywhere.
LEMMA RankInduction ==
    ASSUME NEW D, NEW rank \in [D -> Nat], NEW S,
           \A x \in D : (\A y \in D : rank[y] < rank[x] => y \in S) => x \in S
    PROVE  D \subseteq S
<1> SUFFICES ASSUME NEW z \in D, z \notin S PROVE FALSE
    OBVIOUS
<1>1. PICK Bad : Bad = {rank[x] : x \in {y \in D : y \notin S}}
    OBVIOUS
<1>2. PICK n \in Bad : \A k \in Bad : n <= k
  <2>1. Bad \in SUBSET Nat /\ Bad # {}
      BY <1>1
  <2> QED BY <2>1, LeastNumber
<1>3. PICK x \in D : x \notin S /\ n = rank[x]
    BY <1>1, <1>2
<1>4. ASSUME NEW y \in D, rank[y] < rank[x], y \notin S PROVE FALSE
  <2>1. rank[y] \in Bad /\ rank[y] \in Nat /\ rank[x] \in Nat
      BY <1>1, <1>4
  <2> QED BY <1>2, <1>3, <1>4, <2>1
<1> QED BY <1>3, <1>4

\* The value of B[f] at x depends only on the values of f where rank is lower
\* than at x.
FromLower(D, V, rank, B) ==
    /\ V # {} /\ rank \in [D -> Nat]
    /\ B \in [[D -> V] -> [D -> V]]
    /\ \A f, g \in [D -> V], x \in D :
          (\A y \in D : rank[y] < rank[x] => f[y] = g[y]) => B[f][x] = B[g][x]

\* f is as B says wherever rank is below j.
Solves(D, V, rank, B, j, f) ==
    f \in [D -> V] /\ \A x \in D : rank[x] < j => f[x] = B[f][x]

\* Up to every rank there is a solution of the equations.
LEMMA SolvesAll ==
    ASSUME NEW D, NEW V, NEW rank, NEW B, FromLower(D, V, rank, B)
    PROVE  \A j \in Nat : \E f : Solves(D, V, rank, B, j, f)
<1> USE DEF FromLower, Solves
<1>0. PICK v : v \in V
    OBVIOUS
<1> DEFINE Good == {j \in Nat : \E f : Solves(D, V, rank, B, j, f)}
<1>1. 0 \in Good
  <2>1. [x \in D |-> v] \in [D -> V] /\ \A x \in D : ~(rank[x] < 0)
      BY <1>0
  <2> QED BY <2>1
<1>2. ASSUME NEW j \in Nat, j \in Good PROVE j + 1 \in Good
  <2>1. PICK f : Solves(D, V, rank, B, j, f)
      BY <1>2
  <2>2. PICK g \in [D -> V] : g = B[f]
      BY <2>1
  <2>3. ASSUME NEW x \in D, rank[x] < j + 1 PROVE g[x] = B[g][x]
    <3>1. \A y \in D : rank[y] < rank[x] => f[y] = g[y]
      <4>1. \A y \in D : rank[y] < rank[x] => rank[y] < j
          BY <1>2, <2>3
      <4> QED BY <2>1, <2>2, <4>1
    <3> QED BY <2>1, <2>2, <3>1
  <2> QED BY <2>2, <2>3
<1> HIDE DEF Good
<1>3. \A j \in Nat : j \in Good
    BY <1>1, <1>2, Induction
<1> QED BY <1>3 DEF Good

\* Where two solutions are both as B says, they agree.
LEMMA SolvesOnce ==
    ASSUME NEW D, NEW V, NEW rank, NEW B, FromLower(D, V, rank, B),
           NEW i \in Nat, NEW j \in Nat, i <= j, NEW f, NEW g,
           Solves(D, V, rank, B, i, f), Solves(D, V, rank, B, j, g)
    PROVE  \A x \in D : rank[x] < i => f[x] = g[x]
<1> USE DEF FromLower, Solves
<1> DEFINE S == {x \in D : rank[x] < i => f[x] = g[x]}
<1>1. ASSUME NEW x \in D, \A y \in D : rank[y] < rank[x] => y \in S
      PROVE  x \in S
  <2> SUFFICES ASSUME rank[x] < i PROVE f[x] = g[x]
      OBVIOUS
  <2>1. \A y \in D : rank[y] < rank[x] => f[y] = g[y]
    <3>1. \A y \in D : rank[y] < rank[x] => rank[y] < i
        OBVIOUS
    <3> QED BY <1>1, <3>1
  <2>2. f[x] = B[f][x] /\ g[x] = B[g][x]
    <3>1. rank[x] < j
        OBVIOUS
    <3> QED BY <3>1
  <2> QED BY <2>1, <2>2
<1> HIDE DEF S
<1>2. D \subseteq S
    BY <1>1, RankInduction
<1> QED BY <1>2 DEF S

\* Such an equation has a solution.
LEMMA Recursion ==
    ASSUME NEW D, NEW V, NEW rank, NEW B, FromLower(D, V, rank, B)
    PROVE  \E f \in [D -> V] : f = B[f]
<1> DEFINE Below(x) == CHOOSE f : Solves(D, V, rank, B, rank[x] + 1, f)
           F == [x \in D |-> Below(x)[x]]
<1>0. rank \in [D -> Nat]
    BY DEF FromLower
<1>1. ASSUME NEW x \in D PROVE Solves(D, V, rank, B, rank[x] + 1, Below(x))
  <2>1. \E f : Solves(D, V, rank, B, rank[x] + 1, f)
      BY <1>0, SolvesAll
  <2> QED BY <2>1
<1> HIDE DEF Below
<1>2. F \in [D -> V]
    BY <1>1 DEF Solves
<1>3. ASSUME NEW x \in D PROVE F[x] = B[F][x]
  <2>1. \A y \in D : rank[y] < rank[x] => Below(y)[y] = Below(x)[y]
    <3> SUFFICES ASSUME NEW y \in D, rank[y] < rank[x]
                 PROVE  Below(y)[y] = Below(x)[y]
        OBVIOUS
    <3>1. rank[y] + 1 \in Nat /\ rank[x] + 1 \in Nat /\ rank[y] + 1 <= rank[x] + 1
          /\ rank[y] < rank[y] + 1
        BY <1>0
    <3>2. PICK f : f = Below(y)
        OBVIOUS
    <3>3. PICK g : g = Below(x)
        OBVIOUS
    <3>4. \A z \in D : rank[z] < rank[y] + 1 => f[z] = g[z]
        BY <1>1, <3>1, <3>2, <3>3, SolvesOnce
    <3> QED BY <3>1, <3>2, <3>3, <3>4
  <2>2. PICK f \in [D -> V] : f = Below(x) /\ f[x] = B[f][x]
    <3>1. rank[x] < rank[x] + 1
        BY <1>0
    <3> QED BY <1>1, <3>1 DEF Solves
  <2>3. B[f][x] = B[F][x]
    <3>1. \A y \in D : rank[y] < rank[x] => f[y] = F[y]
        BY <2>1, <2>2
    <3> QED BY <1>2, <2>2, <3>1 DEF FromLower
  <2> QED BY <2>2, <2>3
<1>4. B[F] \in [D -> V]
    BY <1>2 DEF FromLower
<1>5. F = B[F]
    BY <1>2, <1>3, <1>4
<1> QED BY <1>2, <1>5

-----------------------------------------------------------------------------
(* Sequences put together from the end *)

\* What is put in front of what comes from k + 1 on, for every k.
FromEnd(f, x, n) == f = [k \in 1..(n + 1) |-> IF k > n THEN <<>> ELSE x[k] \o f[k + 1]]

\* There is such a function.
LEMMA FromEndExists ==
    ASSUME NEW S, NEW n \in Nat, NEW x \in [1..n -> Seq(S)]
    PROVE  \E f \in [1..(n + 1) -> Seq(S)] : FromEnd(f, x, n)
<1>1. PICK D, V, rank, B :
          /\ D = 1..(n + 1) /\ V = Seq(S) /\ rank = [k \in D |-> n + 1 - k]
          /\ B = [f \in [D -> V] |->
                    [k \in D |-> IF k > n THEN <<>> ELSE x[k] \o f[k + 1]]]
    OBVIOUS
<1>2. <<>> \in V /\ rank \in [D -> Nat]
    BY <1>1
<1>3. \A k \in D : ~(k > n) => k \in 1..n /\ k + 1 \in D /\ rank[k + 1] < rank[k]
    BY <1>1
<1>4. B \in [[D -> V] -> [D -> V]]
  <2>1. ASSUME NEW f \in [D -> V], NEW k \in D, ~(k > n) PROVE x[k] \o f[k + 1] \in V
    <3>1. x[k] \in Seq(S) /\ f[k + 1] \in Seq(S)
        BY <1>1, <1>3, <2>1
    <3> QED BY <1>1, <3>1, ConcatProperties
  <2> QED BY <1>1, <1>2, <2>1
<1>5. \A f, g \in [D -> V], k \in D :
          (\A y \in D : rank[y] < rank[k] => f[y] = g[y]) => B[f][k] = B[g][k]
  <2>1. ASSUME NEW f \in [D -> V], NEW g \in [D -> V], NEW k \in D,
               \A y \in D : rank[y] < rank[k] => f[y] = g[y]
        PROVE  B[f][k] = B[g][k]
    <3>1. ~(k > n) => f[k + 1] = g[k + 1]
        BY <1>3, <2>1
    <3> QED BY <1>1, <3>1
  <2> QED BY <2>1
<1>6. FromLower(D, V, rank, B)
    BY <1>2, <1>4, <1>5 DEF FromLower
<1>7. \E f \in [D -> V] : f = B[f]
    BY <1>6, Recursion
<1> QED BY <1>1, <1>7 DEF FromEnd

\* Every such function has this type.
LEMMA FromEndType ==
    ASSUME NEW S, NEW n \in Nat, NEW x \in [1..n -> Seq(S)], NEW f, FromEnd(f, x, n)
    PROVE  f \in [1..(n + 1) -> Seq(S)]
<1>1. PICK G : G = {j \in Nat : j <= n => f[n + 1 - j] \in Seq(S)}
    OBVIOUS
<1>2. /\ DOMAIN f = 1..(n + 1) /\ f = [k \in 1..(n + 1) |-> f[k]]
      /\ \A k \in 1..(n + 1) : f[k] = IF k > n THEN <<>> ELSE x[k] \o f[k + 1]
    BY DEF FromEnd
<1>3. 0 \in G
  <2>1. n + 1 \in 1..(n + 1) /\ n + 1 > n /\ n + 1 - 0 = n + 1
      OBVIOUS
  <2>2. f[n + 1] = <<>>
      BY <2>1 DEF FromEnd
  <2>3. f[n + 1 - 0] \in Seq(S)
      BY <2>1, <2>2, EmptySeq
  <2> QED BY <1>1, <2>3
<1>4. ASSUME NEW j \in Nat, j \in G PROVE j + 1 \in G
  <2> SUFFICES ASSUME j + 1 <= n PROVE f[n + 1 - (j + 1)] \in Seq(S)
      BY <1>1
  <2>1. PICK m \in 1..n : m = n + 1 - (j + 1) /\ m + 1 = n + 1 - j
      OBVIOUS
  <2>2. m \in 1..(n + 1) /\ ~(m > n) /\ j <= n
      OBVIOUS
  <2>3. f[m] = x[m] \o f[m + 1] /\ f[m + 1] \in Seq(S) /\ x[m] \in Seq(S)
      BY <1>1, <1>2, <1>4, <2>1, <2>2
  <2>4. f[m] \in Seq(S)
      BY <2>3, ConcatProperties
  <2> QED BY <2>1, <2>4
<1>5. \A j \in Nat : j \in G
    BY <1>3, <1>4, Induction
<1>6. ASSUME NEW k \in 1..(n + 1) PROVE f[k] \in Seq(S)
  <2>1. n + 1 - k \in Nat /\ n + 1 - k <= n /\ n + 1 - (n + 1 - k) = k
      OBVIOUS
  <2> QED BY <1>1, <1>5, <2>1
<1> QED BY <1>2, <1>6

\* A set of pairs that has the empty ones, and with each pair the one with the
\* next element and its piece in front, has a sequence and its pieces put
\* together.
LEMMA PieceByPiece ==
    ASSUME NEW C, NEW S, NEW t \in Seq(C), NEW x \in [1..Len(t) -> Seq(S)],
           NEW f \in [1..(Len(t) + 1) -> Seq(S)], FromEnd(f, x, Len(t)),
           NEW T, <<<<>>, <<>>>> \in T,
           \A k \in 1..Len(t), p \in Seq(C), q \in Seq(S) :
               <<p, q>> \in T => <<<<t[k]>> \o p, x[k] \o q>> \in T
    PROVE  <<t, f[1]>> \in T
<1>1. PICK n \in Nat : n = Len(t)
    OBVIOUS
<1>2. \A i \in 1..n : t[i] \in C
    BY <1>1
<1>3. PICK rest : rest = [m \in 1..(n + 1) |-> SubSeq(t, m, n)]
    OBVIOUS
<1>4. ASSUME NEW m \in 1..(n + 1)
      PROVE  rest[m] \in Seq(C) /\ (m = n + 1 => rest[m] = <<>>)
  <2>1. \A i \in m..n : t[i] \in C
      BY <1>2
  <2>2. SubSeq(t, m, n) \in Seq(C) /\ (m = n + 1 => SubSeq(t, m, n) = <<>>)
      BY <2>1, SubSeqProperties, SubSeqEmpty
  <2> QED BY <1>3, <2>2
<1>5. PICK G : G = {j \in Nat : j <= n => <<rest[n + 1 - j], f[n + 1 - j]>> \in T}
    OBVIOUS
<1>6. 0 \in G
  <2>1. n + 1 \in 1..(n + 1) /\ n + 1 - 0 = n + 1 /\ n + 1 - (n + 1) = 0 /\ n + 1 > n
      OBVIOUS
  <2>2. rest[n + 1] = <<>>
      BY <1>4, <2>1
  <2>3. f[n + 1] = <<>>
      BY <1>1, <2>1 DEF FromEnd
  <2> QED BY <1>5, <2>1, <2>2, <2>3
<1>7. ASSUME NEW j \in Nat, j \in G PROVE j + 1 \in G
  <2> SUFFICES ASSUME j + 1 <= n PROVE <<rest[n + 1 - (j + 1)], f[n + 1 - (j + 1)]>> \in T
      BY <1>5
  <2>1. PICK m \in 1..n : m = n - j /\ m + 1 = n + 1 - j /\ m = n + 1 - (j + 1)
      OBVIOUS
  <2>2. m \in 1..(n + 1) /\ m + 1 \in 1..(n + 1) /\ ~(m > n) /\ j <= n
      OBVIOUS
  <2>3. <<rest[m + 1], f[m + 1]>> \in T
      BY <1>5, <1>7, <2>1, <2>2
  <2>4. f[m] = x[m] \o f[m + 1] /\ f[m + 1] \in Seq(S)
      BY <1>1, <2>2 DEF FromEnd
  <2>5. rest[m] = <<t[m]>> \o rest[m + 1]
    <3>1. m \in 1..Len(t) /\ n \in m..Len(t)
        BY <1>1
    <3> QED BY <1>3, <2>2, <3>1, SubSeqRecursiveFirst
  <2>6. rest[m + 1] \in Seq(C)
      BY <1>4, <2>2
  <2>7. <<<<t[m]>> \o rest[m + 1], x[m] \o f[m + 1]>> \in T
      BY <1>1, <2>3, <2>4, <2>6
  <2> QED BY <2>1, <2>4, <2>5, <2>7
<1>8. \A j \in Nat : j \in G
    BY <1>6, <1>7, Induction
<1>9. <<rest[1], f[1]>> \in T
  <2>1. n <= n /\ n + 1 - n = 1
      OBVIOUS
  <2> QED BY <1>5, <1>8, <2>1
<1>10. rest[1] = t
  <2>1. 1 \in 1..(n + 1)
      OBVIOUS
  <2> QED BY <1>1, <1>3, <2>1, SubSeqFull
<1> QED BY <1>9, <1>10

===============================================================================
