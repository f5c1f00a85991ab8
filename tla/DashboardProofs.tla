---------------------------- MODULE DashboardProofs ----------------------------
(***************************************************************************)
(* The pages of the history are those of its messages in order, and what   *)
(* the dashboard shows belongs together, for any messages, filters, page   *)
(* sizes and order of requests, statements and answers.                    *)
(***************************************************************************)
EXTENDS Dashboard, FiniteSetTheorems, NumberLemmas, TLAPS

-----------------------------------------------------------------------------
(* Messages are ordered *)

\* A set of records is finite and no larger than the table of messages.
LEMMA IdsFinite ==
    ASSUME NEW S \in SUBSET Ids
    PROVE  IsFiniteSet(S) /\ Cardinality(S) \in 0..Len(Messages)
<1>1. IsFiniteSet(Ids) /\ Cardinality(Ids) = Len(Messages)
    BY MessagesAssumption, FS_Interval DEF Ids
<1>2. IsFiniteSet(S) /\ Cardinality(S) <= Cardinality(Ids)
    BY <1>1, FS_Subset
<1> QED BY <1>1, <1>2, FS_CardinalityType, MessagesAssumption

\* Newer is a strict total order of the records.
LEMMA NewerIsOrder ==
    ASSUME NEW i \in Ids, NEW j \in Ids, NEW k \in Ids
    PROVE  /\ ~Newer(i, i)
           /\ Newer(i, j) /\ Newer(j, k) => Newer(i, k)
           /\ i # j => Newer(i, j) \/ Newer(j, i)
<1>1. i \in Int /\ j \in Int /\ k \in Int
    BY DEF Ids
<1>2. /\ Messages[i].timestamp \in Int /\ Messages[j].timestamp \in Int
      /\ Messages[k].timestamp \in Int
    BY MessagesAssumption
<1> QED BY <1>1, <1>2 DEF Newer

\* Of two messages the newer one has the lower rank.
LEMMA RankGrows ==
    ASSUME NEW S \in SUBSET Ids, NEW i \in S, NEW j \in S
    PROVE  /\ Rank(i, S) \in 0..(Cardinality(S) - 1)
           /\ Newer(i, j) => Rank(i, S) < Rank(j, S)
           /\ Rank(i, S) = Rank(j, S) => i = j
<1> DEFINE Above(x) == {k \in S : Newer(k, x)}
<1>1. ASSUME NEW x \in S PROVE Rank(x, S) \in 0..(Cardinality(S) - 1)
  <2>1. IsFiniteSet(S) /\ Above(x) \in SUBSET S /\ x \notin Above(x)
      BY IdsFinite, NewerIsOrder
  <2>2. IsFiniteSet(Above(x)) /\ Cardinality(Above(x)) <= Cardinality(S)
        /\ Cardinality(Above(x)) # Cardinality(S)
      BY <2>1, FS_Subset
  <2>3. Cardinality(Above(x)) \in Nat /\ Cardinality(S) \in Nat
      BY <2>1, <2>2, FS_CardinalityType
  <2> QED BY <2>2, <2>3 DEF Rank
<1>2. ASSUME NEW x \in S, NEW y \in S, Newer(x, y) PROVE Rank(x, S) < Rank(y, S)
  <2>1. /\ IsFiniteSet(S) /\ Above(y) \in SUBSET S
        /\ Above(x) \in SUBSET Above(y) /\ x \notin Above(x) /\ x \in Above(y)
      BY <1>2, IdsFinite, NewerIsOrder
  <2>2. IsFiniteSet(Above(y))
      BY <2>1, FS_Subset
  <2>3. Cardinality(Above(x)) <= Cardinality(Above(y)) /\ Cardinality(Above(x)) # Cardinality(Above(y))
      BY <2>1, <2>2, FS_Subset
  <2> QED BY <1>1, <2>3 DEF Rank
<1>3. ASSUME Rank(i, S) = Rank(j, S), i # j PROVE FALSE
  <2>1. Newer(i, j) \/ Newer(j, i)
      BY <1>3, NewerIsOrder
  <2> QED BY <1>1, <1>2, <1>3, <2>1
<1> QED BY <1>1, <1>2, <1>3

\* Every rank below the number of messages is that of a message.
LEMMA RankTaken ==
    ASSUME NEW S \in SUBSET Ids, NEW n \in 0..(Cardinality(S) - 1)
    PROVE  \E i \in S : Rank(i, S) = n
<1>1. PICK f, T : T = 0..(Cardinality(S) - 1) /\ f = [i \in S |-> Rank(i, S)]
    OBVIOUS
<1>2. IsFiniteSet(S) /\ Cardinality(S) \in Nat
    BY IdsFinite
<1>3. IsFiniteSet(T) /\ Cardinality(T) = Cardinality(S)
    BY <1>1, <1>2, FS_Interval
<1>4. f \in Injection(S, T)
    BY <1>1, RankGrows DEF Injection, IsInjective
<1>5. f \in Surjection(S, T)
    BY <1>2, <1>3, <1>4, FS_Injection
<1> QED BY <1>1, <1>5 DEF Surjection

Sorts(seq, S) ==
    /\ seq \in [1..Cardinality(S) -> S]
    /\ \A i, j \in DOMAIN seq : i < j => Newer(seq[i], seq[j])

\* Ordered sorts a set of records, newest first.
LEMMA OrderedSorts ==
    ASSUME NEW S \in SUBSET Ids
    PROVE  Sorts(Ordered(S), S)
<1>1. PICK N : N = Cardinality(S) /\ N \in Nat
    BY IdsFinite
<1>2. PICK g : g = [n \in 1..N |-> CHOOSE i \in S : Rank(i, S) = n - 1]
    OBVIOUS
<1>3. ASSUME NEW n \in 1..N PROVE g[n] \in S /\ Rank(g[n], S) = n - 1
  <2>1. n - 1 \in 0..(Cardinality(S) - 1)
      BY <1>1
  <2>2. \E i \in S : Rank(i, S) = n - 1
      BY <2>1, RankTaken
  <2> QED BY <1>2, <2>2
<1>4. ASSUME NEW i \in 1..N, NEW j \in 1..N, i < j PROVE Newer(g[i], g[j])
  <2>1. g[i] \in S /\ g[j] \in S /\ Rank(g[i], S) < Rank(g[j], S)
      BY <1>1, <1>3, <1>4
  <2>2. g[i] # g[j] /\ ~(Rank(g[j], S) < Rank(g[i], S))
      BY <1>1, <1>3, <1>4
  <2>3. ~Newer(g[j], g[i])
      BY <2>1, <2>2, RankGrows
  <2> QED BY <2>1, <2>2, <2>3, NewerIsOrder
<1>5. Sorts(g, S)
    BY <1>1, <1>2, <1>3, <1>4 DEF Sorts
<1>6. \E seq \in [1..Cardinality(S) -> S] :
          \A i, j \in DOMAIN seq : i < j => Newer(seq[i], seq[j])
    BY <1>5 DEF Sorts
<1> QED BY <1>6 DEF Sorts, Ordered

\* In a sequence of messages that is sorted each stands where its rank says.
LEMMA SortedByRank ==
    ASSUME NEW S \in SUBSET Ids, NEW seq, Sorts(seq, S)
    PROVE  /\ \A n \in 1..Cardinality(S) : Rank(seq[n], S) = n - 1
           /\ \A i \in S : \E n \in 1..Cardinality(S) : seq[n] = i
<1>1. PICK N : N = Cardinality(S) /\ N \in Nat
    BY IdsFinite
<1>2. /\ seq \in [1..N -> S] /\ IsFiniteSet(S) /\ IsFiniteSet(1..N) /\ Cardinality(1..N) = N
      /\ \A i, j \in 1..N : i < j => Newer(seq[i], seq[j])
  <2>1. IsFiniteSet(1..N) /\ Cardinality(1..N) = N
      BY <1>1, FS_Interval
  <2>2. IsFiniteSet(S)
      BY IdsFinite
  <2>3. seq \in [1..N -> S] /\ \A i, j \in 1..N : i < j => Newer(seq[i], seq[j])
      BY <1>1 DEF Sorts
  <2> QED BY <2>1, <2>2, <2>3
<1>3. \A i, j \in 1..N : seq[i] = seq[j] => i = j
  <2> SUFFICES ASSUME NEW i \in 1..N, NEW j \in 1..N, i < j, seq[i] = seq[j] PROVE FALSE
      BY <1>1
  <2>1. Newer(seq[i], seq[j]) /\ seq[i] \in Ids
      BY <1>2
  <2> QED BY <2>1, NewerIsOrder
<1>4. \A i \in S : \E n \in 1..N : seq[n] = i
  <2>1. seq \in Injection(1..N, S)
      BY <1>2, <1>3 DEF Injection, IsInjective
  <2>2. seq \in Surjection(1..N, S)
      BY <1>1, <1>2, <2>1, FS_Injection
  <2> QED BY <2>2 DEF Surjection
<1>5. ASSUME NEW n \in 1..N PROVE Rank(seq[n], S) = n - 1
  <2>1. PICK T, D : T = {k \in S : Newer(k, seq[n])} /\ D = 1..(n - 1)
      OBVIOUS
  <2>2. T = {seq[i] : i \in D}
    <3>1. ASSUME NEW i \in D PROVE seq[i] \in T
      <4>1. i \in 1..N /\ i < n
          BY <1>1, <2>1
      <4> QED BY <1>2, <2>1, <4>1
    <3>2. ASSUME NEW k \in T PROVE \E i \in D : k = seq[i]
      <4>1. PICK i \in 1..N : seq[i] = k
          BY <1>4, <2>1
      <4>2. ~(n < i) /\ i # n
        <5>1. Newer(k, seq[n]) /\ k \in Ids /\ seq[n] \in Ids
            BY <1>2, <2>1
        <5>2. ~Newer(seq[n], k) /\ k # seq[n]
            BY <5>1, NewerIsOrder
        <5> QED BY <1>2, <4>1, <5>2
      <4>3. i \in D
          BY <1>1, <2>1, <4>2
      <4> QED BY <4>1, <4>3
    <3> QED BY <3>1, <3>2
  <2>3. PICK f : f = [i \in D |-> seq[i]]
      OBVIOUS
  <2>4. f \in Bijection(D, T)
    <3>1. D \subseteq 1..N
        BY <1>1, <2>1
    <3>2. f \in Injection(D, T)
        BY <1>3, <2>2, <2>3, <3>1 DEF Injection, IsInjective
    <3>3. f \in Surjection(D, T)
        BY <2>2, <2>3 DEF Surjection
    <3> QED BY <3>2, <3>3 DEF Bijection
  <2>5. IsFiniteSet(D) /\ Cardinality(D) = n - 1
      BY <1>1, <2>1, FS_Interval
  <2>6. Cardinality(T) = n - 1
      BY <2>4, <2>5, FS_Bijection DEF ExistsBijection
  <2> QED BY <2>1, <2>6 DEF Rank
<1> QED BY <1>1, <1>4, <1>5

-----------------------------------------------------------------------------
(* Pages *)

\* Dividing what was multiplied gives the factor back, and the remainder.
LEMMA DivMod ==
    ASSUME NEW q \in Nat, NEW l \in Nat \ {0}, NEW m \in Nat, m < l
    PROVE  (q * l + m) \div l = q /\ (q * l + m) % l = m
OBVIOUS

\* Quotient and remainder.
LEMMA DivideBack ==
    ASSUME NEW n \in Nat, NEW l \in Nat \ {0}
    PROVE  /\ n \div l \in Nat /\ n % l \in Nat /\ n % l < l
           /\ n = ((n \div l) * l) + (n % l)
OBVIOUS

\* A product grows with its first factor.
LEMMA TimesOrder ==
    ASSUME NEW n \in Nat, NEW k \in Nat, NEW l \in Nat, n <= k
    PROVE  n * l <= k * l /\ n * l \in Nat /\ (n + 1) * l = n * l + l
OBVIOUS

\* total_pages is the number of the last page that has rows.
LEMMA LastPage ==
    ASSUME NEW total \in Nat \ {0}, NEW limit \in Nat \ {0}, NEW number \in Nat \ {0}
    PROVE  (number - 1) * limit < total <=> number <= TotalPages(total, limit)
<1>1. PICK d, q : d = (total + limit - 1) \div limit /\ q = number - 1
    OBVIOUS
<1>2. PICK r : r = (total + limit - 1) % limit
    OBVIOUS
<1>3. /\ d \in Nat /\ q \in Nat /\ r \in Nat /\ r < limit
      /\ total + limit - 1 = d * limit + r
  <2>1. total + limit - 1 \in Nat
      OBVIOUS
  <2> QED BY <1>1, <1>2, <2>1, DivideBack
<1>4. ASSUME d <= q PROVE ~(q * limit < total)
  <2>1. d * limit <= q * limit /\ d * limit \in Nat /\ q * limit \in Nat
      BY <1>3, <1>4, TimesOrder
  <2> QED BY <1>3, <2>1
<1>5. ASSUME q + 1 <= d PROVE q * limit < total
  <2>1. (q + 1) * limit <= d * limit /\ q * limit \in Nat /\ (q + 1) * limit = q * limit + limit
      BY <1>3, <1>5, TimesOrder
  <2>2. d * limit \in Nat
      BY <1>3, TimesOrder
  <2> QED BY <1>3, <2>1, <2>2
<1>6. TotalPages(total, limit) = d
    BY <1>1 DEF TotalPages
<1> QED BY <1>1, <1>3, <1>4, <1>5, <1>6

\* What the page with these rows before it has.
PageHas(seq, S, off, limit) ==
    /\ seq \in Seq(S)
    /\ Len(seq) = IF off < Cardinality(S)
                  THEN IF off + limit < Cardinality(S) THEN limit ELSE Cardinality(S) - off
                  ELSE 0
    /\ \A n \in 1..Len(seq) : seq[n] \in S /\ Rank(seq[n], S) = off + n - 1

\* The query returns the selected records whose ranks lie in the page.
LEMMA RowsByRank ==
    ASSUME NEW r \in SUBSET Ids, NEW w, NEW f,
           NEW number \in Nat \ {0}, NEW limit \in Nat \ {0}, (number - 1) * limit < Sign
    PROVE  PageHas(Rows(r, w, f, number, limit), Selected(r, w, f), (number - 1) * limit, limit)
<1>1. PICK S, sorted, off, N :
          /\ S = Selected(r, w, f) /\ sorted = Ordered(S)
          /\ off = (number - 1) * limit /\ N = Cardinality(S)
    OBVIOUS
<1>2. S \in SUBSET Ids /\ N \in Nat
    BY <1>1, IdsFinite DEF Selected
<1>3. off \in Nat /\ Offset(number, limit) = off
  <2>1. number - 1 \in Nat
      OBVIOUS
  <2>2. off \in Nat
      BY <1>1, <2>1, TimesOrder
  <2>3. off % (2 * Sign) = off
      BY <1>1, <2>2, PagingAssumption
  <2> QED BY <1>1, <2>2, <2>3 DEF Offset
<1>4. /\ sorted \in Seq(S) /\ Len(sorted) = N
      /\ \A n \in 1..N : sorted[n] \in S /\ Rank(sorted[n], S) = n - 1
  <2>1. Sorts(sorted, S)
      BY <1>1, <1>2, OrderedSorts
  <2>2. sorted \in [1..N -> S]
      BY <1>1, <2>1 DEF Sorts
  <2>3. \A n \in 1..N : Rank(sorted[n], S) = n - 1
      BY <1>1, <1>2, <2>1, SortedByRank
  <2> QED BY <1>2, <2>2, <2>3
<1>5. PICK m : m = IF off + limit < N THEN off + limit ELSE N
    OBVIOUS
<1>6. Rows(r, w, f, number, limit) = SubSeq(sorted, off + 1, m)
    BY <1>1, <1>3, <1>4, <1>5 DEF Rows
<1>7. PICK seq : seq = SubSeq(sorted, off + 1, m)
    OBVIOUS
<1>8. /\ seq \in Seq(S) /\ Len(seq) = IF off < m THEN m - off ELSE 0
      /\ \A n \in 1..Len(seq) : seq[n] = sorted[off + n] /\ off + n \in 1..N
  <2>1. m \in Nat /\ m <= N
      BY <1>2, <1>3, <1>5
  <2>2. CASE off < m
      BY <1>3, <1>4, <1>7, <2>1, <2>2
  <2>3. CASE ~(off < m)
      BY <1>3, <1>4, <1>7, <2>1, <2>3
  <2> QED BY <2>2, <2>3
<1>9. Len(seq) = IF off < N THEN IF off + limit < N THEN limit ELSE N - off ELSE 0
    BY <1>2, <1>3, <1>5, <1>8
<1>10. \A n \in 1..Len(seq) : seq[n] \in S /\ Rank(seq[n], S) = off + n - 1
    BY <1>2, <1>3, <1>4, <1>8
<1> QED BY <1>1, <1>6, <1>7, <1>8, <1>9, <1>10 DEF PageHas

\* Such a sequence is the page.
LEMMA PageIsPage ==
    ASSUME NEW S \in SUBSET Ids, NEW seq, NEW number \in Nat \ {0}, NEW limit \in Nat \ {0},
           PageHas(seq, S, (number - 1) * limit, limit)
    PROVE  IsPage(seq, S, number, limit)
<1>1. PICK q, off, N : q = number - 1 /\ off = q * limit /\ N = Cardinality(S)
    OBVIOUS
<1>2. q \in Nat /\ off \in Nat /\ N \in Nat
    BY <1>1, IdsFinite, TimesOrder
<1>3. /\ seq \in Seq(S) /\ DOMAIN seq = 1..Len(seq) /\ Len(seq) \in Nat
      /\ Len(seq) = IF off < N THEN IF off + limit < N THEN limit ELSE N - off ELSE 0
      /\ \A n \in 1..Len(seq) : seq[n] \in S /\ Rank(seq[n], S) = off + n - 1
    BY <1>1 DEF PageHas
<1>4. IsInjective(seq)
  <2>1. \A m, n \in 1..Len(seq) : seq[m] = seq[n] => m = n
      BY <1>2, <1>3
  <2> QED BY <1>3, <2>1 DEF IsInjective
<1>5. ASSUME NEW n \in 1..Len(seq)
      PROVE  Rank(seq[n], S) \div limit = q /\ Rank(seq[n], S) % limit = n - 1
  <2>1. n - 1 \in Nat /\ n - 1 < limit
      BY <1>2, <1>3
  <2>2. (q * limit + (n - 1)) \div limit = q /\ (q * limit + (n - 1)) % limit = n - 1
      BY <1>2, <2>1, DivMod
  <2>3. Rank(seq[n], S) = q * limit + (n - 1)
      BY <1>1, <1>2, <1>3
  <2> QED BY <2>2, <2>3
<1>6. ASSUME NEW i \in S, Rank(i, S) \div limit = q
      PROVE  \E n \in 1..Len(seq) : seq[n] = i
  <2>1. PICK rank, m, n : rank = Rank(i, S) /\ m = rank % limit /\ n = m + 1
      OBVIOUS
  <2>2. rank \in Nat /\ rank < N
      BY <1>1, <1>2, <2>1, RankGrows
  <2>3. m \in Nat /\ m < limit /\ rank = off + m
    <3>1. /\ rank % limit \in Nat /\ rank % limit < limit
          /\ rank = ((rank \div limit) * limit) + (rank % limit)
        BY <2>2, DivideBack
    <3>2. rank \div limit = q
        BY <1>6, <2>1
    <3> QED BY <1>1, <2>1, <3>1, <3>2
  <2>4. n \in 1..Len(seq) /\ off + n - 1 = rank
    <3>1. n = m + 1
        BY <2>1
    <3> QED BY <1>2, <1>3, <2>2, <2>3, <3>1
  <2>5. seq[n] \in S /\ Rank(seq[n], S) = Rank(i, S)
      BY <1>3, <2>1, <2>4
  <2>6. seq[n] = i
      BY <2>5, RankGrows
  <2> QED BY <2>4, <2>6
<1>7. Range(seq) = {i \in S : Rank(i, S) \div limit = q}
  <2>1. Range(seq) = {seq[n] : n \in 1..Len(seq)}
      BY <1>3 DEF Range
  <2>2. ASSUME NEW i \in Range(seq) PROVE i \in S /\ Rank(i, S) \div limit = q
      BY <1>3, <1>5, <2>1
  <2>3. ASSUME NEW i \in S, Rank(i, S) \div limit = q PROVE i \in Range(seq)
      BY <1>6, <2>1, <2>3
  <2> QED BY <2>2, <2>3
<1> QED BY <1>1, <1>3, <1>4, <1>5, <1>7 DEF IsPage

\* Every page number and limit a client can ask for is made one.
LEMMA Asked ==
    /\ \A n \in ApiPages : PageNumber(n) \in Nat \ {0}
    /\ \A n \in ApiLimits : Limit(n) \in Nat \ {0}
<1>1. \A n \in Nat \cup {Unset} : PageNumber(n) \in Nat \ {0}
    BY DEF PageNumber
<1>2. \A n \in Nat \cup {Unset} : Limit(n) \in Nat \ {0}
    BY PagingAssumption DEF Limit, Clamp
<1> QED BY <1>1, <1>2, DashboardAssumption

\* The pages of any table deal out its selected records.
LEMMA AnyPages ==
    ASSUME NEW r \in SUBSET Ids, NEW w, NEW f
    PROVE  PagesDealOut(r, w, f)
<1> SUFFICES ASSUME NEW p \in ApiPages, NEW n \in ApiLimits,
                    (PageNumber(p) - 1) * Limit(n) < Sign
             PROVE  LET found == Rows(r, w, f, PageNumber(p), Limit(n))
                        total == Counted(r, w, f)
                    IN  /\ IsPage(found, Selected(r, w, f), PageNumber(p), Limit(n))
                        /\ (found # <<>>) =
                              (PageNumber(p) <= TotalPages(total, Limit(n)) /\ total > 0)
    BY DEF PagesDealOut
<1>1. PICK number, limit, S, found, total :
          /\ number = PageNumber(p) /\ limit = Limit(n) /\ S = Selected(r, w, f)
          /\ found = Rows(r, w, f, number, limit) /\ total = Counted(r, w, f)
    OBVIOUS
<1>2. number \in Nat \ {0} /\ limit \in Nat \ {0} /\ (number - 1) * limit < Sign
    BY <1>1, Asked
<1>3. S \in SUBSET Ids /\ total = Cardinality(S) /\ total \in Nat
    BY <1>1, IdsFinite DEF Selected, Counted
<1>4. PageHas(found, S, (number - 1) * limit, limit)
    BY <1>1, <1>2, RowsByRank
<1>5. IsPage(found, S, number, limit)
    BY <1>2, <1>3, <1>4, PageIsPage
<1>6. (found # <<>>) = (number <= TotalPages(total, limit) /\ total > 0)
  <2>1. PICK off : off = (number - 1) * limit
      OBVIOUS
  <2>2. off \in Nat
    <3>1. number - 1 \in Nat
        BY <1>2
    <3> QED BY <1>2, <2>1, <3>1, TimesOrder
  <2>3. found \in Seq(S) /\ (Len(found) > 0 <=> off < total)
      BY <1>2, <1>3, <1>4, <2>1, <2>2 DEF PageHas
  <2>4. total > 0 => (off < total <=> number <= TotalPages(total, limit))
      BY <1>2, <1>3, <2>1, LastPage
  <2>5. found # <<>> <=> Len(found) > 0
      BY <2>3
  <2> QED BY <1>3, <2>2, <2>3, <2>4, <2>5
<1> QED BY <1>1, <1>5, <1>6

-----------------------------------------------------------------------------
(* The invariant.  Requests are for pages that are not so far that their     *)
(* offset wraps, and a reply that is exact is made of the tables as they     *)
(* were when it was counted.                                                 *)

Pages == 1..(Len(Messages) + 1)
Kinds == {"none", "load", "stats", "clear"}
Steps == {"idle", "count", "page", "items", "unlink", "purge", "answered"}
CallType ==
    [kind : Kinds, pc : Steps, filter : {in.filter : in \in Inputs}, limit : 1..MaxLimit,
     page : Pages, total : 0..Len(Messages), records : Seq(Ids), items : SUBSET Ids,
     seen : [rows : SUBSET Ids, whole : SUBSET Ids], exact : BOOLEAN]

\* c's reply is that of the tables r and w.
RepliesFrom(c, r, w) ==
    /\ c.total = Counted(r, w, c.filter)
    /\ c.records = Rows(r, w, c.filter, c.page, c.limit)
    /\ c.items = Range(c.records) \cap w

\* What c has of its reply while the tables are r and w.
HalfRead(c, r, w) ==
    /\ c.pc \in {"unlink", "purge"} => c.kind = "clear"
    /\ c.pc \in {"count", "page"} => c.records = <<>> /\ c.items = {}
    /\ c.exact /\ c.pc \in {"page", "items"} =>
          c.seen = [rows |-> r, whole |-> w] /\ c.total = Counted(r, w, c.filter)
    /\ c.exact /\ c.pc = "items" => c.records = Rows(r, w, c.filter, c.page, c.limit)
    /\ c.exact /\ c.pc = "answered" /\ c.kind = "load" =>
          RepliesFrom(c, c.seen.rows, c.seen.whole)

ShownAs(c, e, b, f) ==
    [error |-> e, page |-> c.page, total |-> c.total, call |-> c,
     pages |-> PagesOf(c), records |-> c.records, back |-> b, forth |-> f,
     first |-> IF c.total = 0 THEN 0 ELSE (c.page - 1) * c.limit + 1,
     last |-> Clamp(c.page * c.limit, 0, c.total)]

TablesInv ==
    /\ arrived \in 0..Len(Messages)
    /\ rows \in SUBSET (1..arrived) /\ whole \in SUBSET (1..arrived)
PageInv == inputs \in Inputs /\ page \in Pages /\ pages \in Pages
CallsInv ==
    /\ call \in [Calls -> CallType]
    /\ \A j \in Calls : HalfRead(call[j], rows, whole)
ShownInv ==
    \E c, e, b, f :
        /\ c \in CallType
        /\ shown = ShownAs(c, e, b, f)
        /\ c.exact => RepliesFrom(c, c.seen.rows, c.seen.whole)
DInv == TablesInv /\ PageInv /\ CallsInv /\ ShownInv

\* A product grows with both factors.
LEMMA TimesBoth ==
    ASSUME NEW a \in Nat, NEW b \in Nat, NEW c \in Nat, NEW d \in Nat, a <= b, c <= d
    PROVE  a * c <= b * d
<1>1. a * c <= b * c /\ c * b <= d * b
    BY TimesOrder
<1>2. b * c = c * b /\ d * b = b * d /\ a * c \in Nat /\ b * c \in Nat /\ b * d \in Nat
    OBVIOUS
<1> QED BY <1>1, <1>2

\* The rows that the dashboard asks for.
LEMMA RowsFor ==
    ASSUME NEW r \in SUBSET Ids, NEW w, NEW f, NEW p \in Pages, NEW l \in 1..MaxLimit
    PROVE  /\ Selected(r, w, f) \in SUBSET Ids
           /\ Counted(r, w, f) = Cardinality(Selected(r, w, f))
           /\ Counted(r, w, f) \in 0..Len(Messages)
           /\ PageHas(Rows(r, w, f, p, l), Selected(r, w, f), (p - 1) * l, l)
           /\ Rows(r, w, f, p, l) \in Seq(Ids)
           /\ PageNumber(p) = p /\ Limit(l) = l
<1>1. /\ p \in Nat \ {0} /\ l \in Nat \ {0} /\ l <= MaxLimit /\ p - 1 \in Nat
      /\ p - 1 <= Len(Messages) /\ Len(Messages) \in Nat /\ MaxLimit \in Nat
    BY MessagesAssumption, PagingAssumption DEF Pages
<1>2. Selected(r, w, f) \in SUBSET Ids
    BY DEF Selected
<1>3. (p - 1) * l < Sign
  <2>1. (p - 1) * l <= Len(Messages) * MaxLimit
      BY <1>1, TimesBoth
  <2>2. (p - 1) * l \in Nat /\ Len(Messages) * MaxLimit \in Nat
      BY <1>1, TimesOrder
  <2> QED BY <2>1, <2>2, DashboardAssumption, PagingAssumption
<1>4. PageHas(Rows(r, w, f, p, l), Selected(r, w, f), (p - 1) * l, l)
    BY <1>1, <1>3, RowsByRank
<1>5. Rows(r, w, f, p, l) \in Seq(Ids)
  <2>1. PICK seq, S : seq = Rows(r, w, f, p, l) /\ S = Selected(r, w, f)
      OBVIOUS
  <2>2. seq \in Seq(S) /\ S \in SUBSET Ids
      BY <1>2, <1>4, <2>1 DEF PageHas
  <2>3. seq \in Seq(Ids)
      BY <2>2
  <2> QED BY <2>1, <2>3
<1>6. PageNumber(p) = p /\ Limit(l) = l
    BY <1>1, PagingAssumption DEF PageNumber, Limit, Clamp
<1> QED BY <1>2, <1>4, <1>5, <1>6, IdsFinite DEF Counted

\* The number of pages is a page number.
LEMMA PagesFit ==
    ASSUME NEW total \in 0..Len(Messages), NEW l \in 1..MaxLimit
    PROVE  TotalPages(total, l) \in Pages
<1>1. CASE total = 0
    BY <1>1, MessagesAssumption DEF TotalPages, Pages
<1>2. CASE total # 0
  <2>1. PICK d, r : /\ d = (total + l - 1) \div l /\ r = (total + l - 1) % l
      OBVIOUS
  <2>2. total \in Nat \ {0} /\ l \in Nat \ {0} /\ total + l - 1 \in Nat
      BY <1>2, MessagesAssumption, PagingAssumption
  <2>3. d \in Nat /\ r \in Nat /\ r < l /\ total + l - 1 = d * l + r
      BY <2>1, <2>2, DivideBack
  <2>4. d # 0
    <3>1. 0 * l = 0
        BY <2>2
    <3> QED BY <2>2, <2>3, <3>1
  <2>5. d <= total
    <3> SUFFICES ASSUME total + 1 <= d PROVE FALSE
        BY <2>2, <2>3
    <3>1. (total + 1) * l <= d * l /\ (total + 1) * l = total * l + l /\ d * l \in Nat
        BY <2>2, <2>3, TimesOrder
    <3>2. total * 1 <= total * l /\ total * 1 = total /\ total * l \in Nat
        BY <2>2, TimesBoth
    <3> QED BY <2>2, <2>3, <3>1, <3>2
  <2> QED BY <1>2, <2>1, <2>3, <2>4, <2>5, MessagesAssumption DEF TotalPages, Pages
<1> QED BY <1>1, <1>2

\* Both tables hold records.
LEMMA TablesAreIds ==
    ASSUME TablesInv
    PROVE  rows \in SUBSET Ids /\ whole \in SUBSET Ids
BY MessagesAssumption DEF TablesInv, Ids

-----------------------------------------------------------------------------
(* Requests *)

\* The values a call starts with have their types.
LEMMA Fresh ==
    /\ \A in \in Inputs : in.size \in 1..MaxLimit
    /\ 0 \in 0..Len(Messages) /\ <<>> \in Seq(Ids)
    /\ Nothing \in [rows : SUBSET Ids, whole : SUBSET Ids]
BY DashboardAssumption, MessagesAssumption DEF Nothing

\* A call that is not made has its type.
LEMMA BlankCall ==
    /\ Blank \in Inputs /\ 1 \in Pages
    /\ NoCall \in CallType /\ NoCall.pc = "idle" /\ NoCall.kind = "none"
    /\ NoCall.total = 0 /\ NoCall.records = <<>> /\ NoCall.items = {}
    /\ NoCall.seen = Nothing /\ NoCall.page = 1
<1>1. Blank \in Inputs /\ 1 \in Pages
    BY DashboardAssumption, MessagesAssumption DEF Blank, Pages
<1>2. PICK kind, pc, in, c : /\ kind = "none" /\ pc = "idle" /\ in = Blank /\ c = NoCall
    OBVIOUS
<1>3. kind \in Kinds /\ pc \in Steps /\ in \in Inputs /\ 1 \in Pages
    BY <1>1, <1>2 DEF Kinds, Steps
<1>4. c = NewCall(kind, pc, in, 1)
    BY <1>2 DEF NoCall
<1>5. /\ c \in CallType /\ c.pc = pc /\ c.kind = kind
      /\ c.total = 0 /\ c.records = <<>> /\ c.items = {} /\ c.seen = Nothing
      /\ c.page = 1
    BY <1>3, <1>4, Fresh DEF NewCall, CallType
<1> QED BY <1>1, <1>2, <1>5

\* A request that was just sent.
LEMMA AskedCall ==
    ASSUME NEW in \in Inputs, NEW p \in Pages, NEW r, NEW w
    PROVE  /\ NewCall("load", "count", in, p) \in CallType
           /\ HalfRead(NewCall("load", "count", in, p), r, w)
<1>1. PICK kind, pc, c : kind = "load" /\ pc = "count" /\ c = NewCall(kind, pc, in, p)
    OBVIOUS
<1>2. kind \in Kinds /\ pc \in Steps
    BY <1>1 DEF Kinds, Steps
<1>3. c \in CallType /\ c.pc = pc /\ c.records = <<>> /\ c.items = {}
    BY <1>1, <1>2, Fresh DEF NewCall, CallType
<1>4. HalfRead(c, r, w)
    BY <1>1, <1>3 DEF HalfRead
<1> QED BY <1>1, <1>3, <1>4

\* Requests that read nothing.
LEMMA OtherCalls ==
    ASSUME NEW r, NEW w,
           NEW c \in {NoCall, StatsCall, [NoCall EXCEPT !.kind = "clear", !.pc = "unlink"]}
    PROVE  c \in CallType /\ HalfRead(c, r, w)
<1>1. PICK n : n = NoCall
    OBVIOUS
<1>2. n \in CallType /\ n.pc = "idle" /\ n.kind = "none"
    BY <1>1, BlankCall
<1>3. CASE c = NoCall
    BY <1>1, <1>2, <1>3 DEF HalfRead
<1>4. CASE c = StatsCall
  <2>1. c \in CallType /\ c.pc = "answered" /\ c.kind = "stats"
      BY <1>1, <1>2, <1>4 DEF StatsCall, CallType, Kinds, Steps
  <2> QED BY <2>1 DEF HalfRead
<1>5. CASE c = [NoCall EXCEPT !.kind = "clear", !.pc = "unlink"]
  <2>1. c \in CallType /\ c.pc = "unlink" /\ c.kind = "clear"
      BY <1>1, <1>2, <1>5 DEF CallType, Kinds, Steps
  <2> QED BY <2>1 DEF HalfRead
<1> QED BY <1>3, <1>4, <1>5

\* Changing one call for one that is half read from the same tables keeps the invariant.
LEMMA OneCall ==
    ASSUME CallsInv, NEW j \in Calls, NEW new \in CallType, HalfRead(new, rows, whole),
           call' = [call EXCEPT ![j] = new], rows' = rows, whole' = whole
    PROVE  CallsInv'
<1>1. call' \in [Calls -> CallType] /\ \A k \in Calls : call'[k] = new \/ call'[k] = call[k]
    BY DEF CallsInv
<1>2. \A k \in Calls : HalfRead(call'[k], rows, whole)
    BY <1>1 DEF CallsInv
<1>3. (\A k \in Calls : HalfRead(call[k], rows, whole))'
          <=> \A k \in Calls : HalfRead(call'[k], rows, whole)
    BY DEF HalfRead
<1> QED BY <1>1, <1>2, <1>3 DEF CallsInv

\* A reply that is half read when a table changes is no longer exact.
LEMMA InexactCall ==
    ASSUME NEW c \in CallType, c.pc \notin {"unlink", "purge"}, NEW r, NEW w
    PROVE  /\ Inexact(c) \in CallType
           /\ (c.pc \in {"count", "page"} => c.records = <<>> /\ c.items = {})
                 => HalfRead(Inexact(c), r, w)
<1>1. PICK d : d = Inexact(c)
    OBVIOUS
<1>2. /\ d \in CallType /\ d.exact = FALSE /\ d.pc = c.pc
      /\ d.records = c.records /\ d.items = c.items
    BY <1>1 DEF Inexact, CallType, Nothing
<1>3. (c.pc \in {"count", "page"} => c.records = <<>> /\ c.items = {}) => HalfRead(d, r, w)
    BY <1>2 DEF HalfRead
<1> QED BY <1>1, <1>2, <1>3

\* So does marking the calls whose tables changed under them.
LEMMA TornCalls ==
    ASSUME NEW c \in [Calls -> CallType], \A j \in Calls : HalfRead(c[j], rows, whole),
           call' = Torn(c)
    PROVE  CallsInv'
<1>1. ASSUME NEW j \in Calls
      PROVE  call'[j] \in CallType /\ HalfRead(call'[j], rows', whole')
  <2>1. CASE c[j].pc \in {"page", "items"}
    <3>1. call'[j] = Inexact(c[j])
        BY <2>1 DEF Torn
    <3>2. c[j].pc \in {"count", "page"} => c[j].records = <<>> /\ c[j].items = {}
        BY DEF HalfRead
    <3>3. c[j].pc \notin {"unlink", "purge"} /\ c[j] \in CallType
        BY <2>1
    <3> QED BY <3>1, <3>2, <3>3, InexactCall
  <2>2. CASE c[j].pc \notin {"page", "items"}
    <3>1. call'[j] = c[j] /\ c[j] \in CallType
        BY <2>2 DEF Torn
    <3>2. HalfRead(c[j], rows', whole')
        BY <2>2 DEF HalfRead
    <3> QED BY <3>1, <3>2
  <2> QED BY <2>1, <2>2
<1>2. call' \in [Calls -> CallType]
    BY <1>1 DEF Torn
<1>3. (\A j \in Calls : HalfRead(call[j], rows, whole))'
          <=> \A j \in Calls : HalfRead(call'[j], rows', whole')
    BY DEF HalfRead
<1> QED BY <1>1, <1>2, <1>3 DEF CallsInv

-----------------------------------------------------------------------------
(* Initially, and after every step *)

\* A reply without records is the reply to empty tables.
LEMMA NothingFound ==
    ASSUME NEW c \in CallType, c.total = 0, c.records = <<>>, c.items = {}
    PROVE  RepliesFrom(c, {}, {})
<1>1. PICK seq, S : seq = Rows({}, {}, c.filter, c.page, c.limit) /\ S = Selected({}, {}, c.filter)
    OBVIOUS
<1>2. c.page \in Pages /\ c.limit \in 1..MaxLimit /\ {} \in SUBSET Ids
    BY DEF CallType
<1>3. S = {} /\ Cardinality(S) = 0
    BY <1>1, FS_EmptySet DEF Selected
<1>4. PageHas(seq, S, (c.page - 1) * c.limit, c.limit)
      /\ Counted({}, {}, c.filter) = Cardinality(S)
    BY <1>1, <1>2, RowsFor
<1>5. (c.page - 1) * c.limit \in Nat
  <2>1. c.page - 1 \in Nat /\ c.limit \in Nat
      BY <1>2, MessagesAssumption, PagingAssumption DEF Pages
  <2> QED BY <2>1, TimesOrder
<1>6. seq \in Seq(S) /\ Len(seq) = 0
    BY <1>3, <1>4, <1>5 DEF PageHas
<1>7. seq = <<>>
    BY <1>6
<1> QED BY <1>1, <1>3, <1>4, <1>7 DEF RepliesFrom

\* The first state satisfies the invariant.
LEMMA DInitially == Init => DInv
<1> SUFFICES ASSUME Init PROVE DInv
    OBVIOUS
<1>1. PICK c : c = NoCall
    OBVIOUS
<1>2. /\ c \in CallType /\ c.pc = "idle" /\ c.total = 0 /\ c.records = <<>> /\ c.items = {}
      /\ c.seen = Nothing /\ Blank \in Inputs /\ 1 \in Pages
    BY <1>1, BlankCall
<1>3. TablesInv
    BY DashboardAssumption, MessagesAssumption DEF Init, TablesInv
<1>4. PageInv
    BY <1>2 DEF Init, PageInv
<1>5. CallsInv
  <2>1. HalfRead(c, rows, whole)
      BY <1>2 DEF HalfRead
  <2>2. call \in [Calls -> CallType] /\ \A j \in Calls : call[j] = c
      BY <1>1, <1>2 DEF Init
  <2> QED BY <2>1, <2>2 DEF CallsInv
<1>6. ShownInv
  <2>1. RepliesFrom(c, c.seen.rows, c.seen.whole)
      BY <1>2, NothingFound DEF Nothing
  <2>2. shown = ShownAs(c, FALSE, TRUE, TRUE)
      BY <1>1 DEF Init, Drawn, ShownAs
  <2> QED BY <1>2, <2>1, <2>2 DEF ShownInv
<1> QED BY <1>3, <1>4, <1>5, <1>6 DEF DInv

\* What a step that leaves them alone keeps.
LEMMA TablesKept == ASSUME TablesInv, UNCHANGED database PROVE TablesInv'
BY DEF TablesInv, database

\* Changing the inputs or the page number keeps them in range.
LEMMA PageKept ==
    ASSUME PageInv, inputs' \in Inputs, page' \in Pages, UNCHANGED pages PROVE PageInv'
BY DEF PageInv

\* What is shown stays as read.
LEMMA ShownKept == ASSUME ShownInv, UNCHANGED shown PROVE ShownInv'
BY DEF ShownInv

\* Starting to load a page keeps the invariant.
LEMMA LoadStep ==
    ASSUME CallsInv, NEW j \in Calls, NEW in \in Inputs, NEW p \in Pages,
           Load(j, in, p), UNCHANGED database
    PROVE  CallsInv' /\ page' \in Pages
<1>1. PICK c : c = NewCall("load", "count", in, p)
    OBVIOUS
<1>2. c \in CallType /\ HalfRead(c, rows, whole)
    BY <1>1, AskedCall
<1>3. call' = [call EXCEPT ![j] = c] /\ rows' = rows /\ whole' = whole /\ page' = p
    BY <1>1 DEF Load, Ask, database
<1> QED BY <1>2, <1>3, OneCall

\* Starting another call, or ending one, keeps it.
LEMMA OtherStep ==
    ASSUME CallsInv, NEW j \in Calls,
           NEW c \in {NoCall, StatsCall, [NoCall EXCEPT !.kind = "clear", !.pc = "unlink"]},
           call' = [call EXCEPT ![j] = c], UNCHANGED database
    PROVE  CallsInv'
<1>1. c \in CallType /\ HalfRead(c, rows, whole)
    BY OtherCalls
<1> QED BY <1>1, OneCall DEF database

-----------------------------------------------------------------------------
(* What the user does, and the answers *)

\* What the user does, and the timer's refresh, keep the invariant.
LEMMA UserStep ==
    ASSUME DInv, NEW j \in Calls, User(j) \/ Refresh(j)
    PROVE  DInv'
<1>1. TablesInv /\ PageInv /\ CallsInv /\ ShownInv
    BY DEF DInv
<1>2. inputs \in Inputs /\ page \in Pages /\ pages \in Pages /\ 1..pages \subseteq Pages
      /\ 1 \in Pages
    BY <1>1, MessagesAssumption DEF PageInv, Pages
<1>3. CASE GoToPage(j)
  <2>1. PICK p \in Pages : Load(j, inputs, p)
      BY <1>2, <1>3 DEF GoToPage
  <2>2. UNCHANGED <<database, inputs, pages, shown>>
      BY <1>3 DEF GoToPage
  <2>3. CallsInv' /\ page' \in Pages
      BY <1>1, <1>2, <2>1, <2>2, LoadStep
  <2> QED BY <1>1, <1>2, <2>2, <2>3, TablesKept, PageKept, ShownKept DEF DInv
<1>4. CASE Choose(j)
  <2>1. PICK in \in Inputs : inputs' = in /\ Load(j, in, 1)
      BY <1>4 DEF Choose
  <2>2. UNCHANGED <<database, pages, shown>>
      BY <1>4 DEF Choose
  <2>3. CallsInv' /\ page' \in Pages
      BY <1>1, <1>2, <2>1, <2>2, LoadStep
  <2> QED BY <1>1, <2>1, <2>2, <2>3, TablesKept, PageKept, ShownKept DEF DInv
<1>5. CASE SwitchMainView(j)
  <2>1. UNCHANGED <<database, inputs, pages, shown>>
      BY <1>5 DEF SwitchMainView
  <2>2. CASE Load(j, inputs, page)
    <3>1. CallsInv' /\ page' \in Pages
        BY <1>1, <1>2, <2>1, <2>2, LoadStep
    <3> QED BY <1>1, <1>2, <2>1, <3>1, TablesKept, PageKept, ShownKept DEF DInv
  <2>3. CASE UNCHANGED <<call, page>>
    <3>1. CallsInv'
        BY <1>1, <2>1, <2>3 DEF CallsInv, HalfRead, database
    <3> QED BY <1>1, <1>2, <2>1, <2>3, <3>1, TablesKept, PageKept, ShownKept DEF DInv
  <2> QED BY <1>5, <2>2, <2>3 DEF SwitchMainView
<1>6. CASE ExecuteClear(j)
  <2>1. UNCHANGED <<database, inputs, page, pages, shown>>
      BY <1>6 DEF ExecuteClear, browser
  <2>2. CallsInv'
      BY <1>1, <1>6, <2>1, OtherStep DEF ExecuteClear
  <2> QED BY <1>1, <1>2, <2>1, <2>2, TablesKept, PageKept, ShownKept DEF DInv
<1>7. CASE Refresh(j)
  <2>1. UNCHANGED <<database, inputs, page, pages, shown>>
      BY <1>7 DEF Refresh
  <2>2. CallsInv'
      BY <1>1, <1>7, <2>1, OtherStep DEF Refresh
  <2> QED BY <1>1, <1>2, <2>1, <2>2, TablesKept, PageKept, ShownKept DEF DInv
<1> QED BY <1>3, <1>4, <1>5, <1>6, <1>7 DEF User

\* An answer or a failure keeps it.
LEMMA AnswerStep ==
    ASSUME DInv, NEW j \in Calls,
           StatsAnswered(j) \/ ClearAnswered(j) \/ LoadAnswered(j) \/ CallFails(j)
    PROVE  DInv'
<1>1. TablesInv /\ PageInv /\ CallsInv /\ ShownInv
    BY DEF DInv
<1>2. inputs \in Inputs /\ page \in Pages /\ pages \in Pages /\ 1 \in Pages
    BY <1>1, MessagesAssumption DEF PageInv, Pages
<1>3. CASE StatsAnswered(j) \/ ClearAnswered(j)
  <2>1. UNCHANGED <<database, inputs, pages, shown>>
      BY <1>3 DEF StatsAnswered, ClearAnswered
  <2>2. CASE \E p \in {1, page} : Load(j, inputs, p)
    <3>1. CallsInv' /\ page' \in Pages
        BY <1>1, <1>2, <2>1, <2>2, LoadStep
    <3> QED BY <1>1, <1>2, <2>1, <3>1, TablesKept, PageKept, ShownKept DEF DInv
  <2>3. CASE call' = [call EXCEPT ![j] = NoCall] /\ UNCHANGED page
    <3>1. CallsInv'
        BY <1>1, <2>1, <2>3, OtherStep
    <3> QED BY <1>1, <1>2, <2>1, <2>3, <3>1, TablesKept, PageKept, ShownKept DEF DInv
  <2> QED BY <1>3, <2>2, <2>3 DEF StatsAnswered, ClearAnswered, RefreshHistory
<1>4. CASE LoadAnswered(j)
  <2>1. UNCHANGED <<database, inputs, page>> /\ CallsInv'
      BY <1>1, <1>4, OtherStep DEF LoadAnswered
  <2>2. PICK c : c = call[j]
      OBVIOUS
  <2>3. /\ c \in CallType /\ c.total \in 0..Len(Messages) /\ c.limit \in 1..MaxLimit
        /\ c.page \in Pages /\ HalfRead(c, rows, whole)
        /\ c.kind = "load" /\ c.pc = "answered"
      BY <1>1, <1>4, <2>2 DEF CallsInv, CallType, LoadAnswered
  <2>4. shown' = ShownAs(c, FALSE, c.page > 1, c.page < PagesOf(c))
      BY <1>4, <2>2 DEF LoadAnswered, Drawn, ShownAs
  <2>5. ShownInv'
    <3>1. c.exact => RepliesFrom(c, c.seen.rows, c.seen.whole)
        BY <2>3 DEF HalfRead
    <3> QED BY <2>3, <2>4, <3>1 DEF ShownInv
  <2>6. pages' \in Pages
    <3>1. pages' = PagesOf(c)
        BY <1>4, <2>2 DEF LoadAnswered, Drawn
    <3>2. Limit(c.limit) = c.limit
        BY <2>3, RowsFor
    <3>3. TotalPages(c.total, c.limit) \in Pages
        BY <2>3, PagesFit
    <3> QED BY <3>1, <3>2, <3>3 DEF PagesOf
  <2>7. PageInv'
      BY <1>2, <2>1, <2>6 DEF PageInv
  <2> QED BY <1>1, <2>1, <2>5, <2>7, TablesKept DEF DInv
<1>5. CASE CallFails(j)
  <2>1. UNCHANGED <<database, inputs, page, pages>> /\ CallsInv'
      BY <1>1, <1>5, OtherStep DEF CallFails
  <2>2. ShownInv'
    <3>1. CASE shown' = shown
        BY <1>1, <3>1, ShownKept
    <3>2. CASE shown' = [shown EXCEPT !.error = TRUE]
      <4>1. PICK c, e, b, f :
                /\ c \in CallType
                /\ shown = ShownAs(c, e, b, f)
                /\ c.exact => RepliesFrom(c, c.seen.rows, c.seen.whole)
          BY <1>1 DEF ShownInv
      <4>2. shown' = ShownAs(c, TRUE, b, f)
          BY <3>2, <4>1 DEF ShownAs
      <4> QED BY <4>1, <4>2 DEF ShownInv
    <3> QED BY <1>5, <3>1, <3>2 DEF CallFails
  <2> QED BY <1>1, <1>2, <2>1, <2>2, TablesKept, PageKept DEF DInv
<1> QED BY <1>3, <1>4, <1>5

-----------------------------------------------------------------------------
(* The statements of the server *)

\* A statement that reads the tables keeps it.
LEMMA StatementStep ==
    ASSUME DInv, NEW j \in Calls, Tally(j) \/ Page(j) \/ Items(j)
    PROVE  DInv'
<1>1. TablesInv /\ PageInv /\ CallsInv /\ ShownInv
    BY DEF DInv
<1>2. UNCHANGED <<database, inputs, page, pages, shown>>
    BY DEF Tally, Page, Items, browser
<1>3. PICK c : c = call[j]
    OBVIOUS
<1>4. /\ c \in CallType /\ HalfRead(c, rows, whole)
      /\ c.page \in Pages /\ c.limit \in 1..MaxLimit
      /\ rows \in SUBSET Ids /\ whole \in SUBSET Ids
    BY <1>1, <1>3, TablesAreIds DEF CallsInv, CallType
<1>5. \E new \in CallType : HalfRead(new, rows, whole) /\ call' = [call EXCEPT ![j] = new]
  <2>1. CASE Tally(j)
    <3>1. c.pc = "count" /\ c.records = <<>> /\ c.items = {}
        BY <1>3, <1>4, <2>1 DEF Tally, HalfRead
    <3>2. PICK d : d = [c EXCEPT !.pc = "page"]
        OBVIOUS
    <3>3. d \in CallType /\ d.pc = "page" /\ d.records = <<>> /\ d.items = {}
          /\ d.filter = c.filter
        BY <1>4, <3>1, <3>2 DEF CallType, Steps
    <3>4. CASE call' = [call EXCEPT ![j] =
                   [d EXCEPT !.total = Counted(rows, whole, d.filter),
                             !.seen = [rows |-> rows, whole |-> whole]]]
      <4>1. PICK n : n = Counted(rows, whole, d.filter)
          OBVIOUS
      <4>2. n \in 0..Len(Messages)
          BY <1>4, <4>1, RowsFor
      <4>3. PICK new : new = [d EXCEPT !.total = n, !.seen = [rows |-> rows, whole |-> whole]]
          OBVIOUS
      <4>4. /\ new \in CallType /\ new.pc = "page" /\ new.records = <<>> /\ new.items = {}
            /\ new.seen = [rows |-> rows, whole |-> whole]
            /\ new.total = Counted(rows, whole, new.filter)
          BY <1>4, <3>3, <4>1, <4>2, <4>3 DEF CallType
      <4>5. HalfRead(new, rows, whole)
          BY <4>4 DEF HalfRead
      <4> QED BY <3>4, <4>1, <4>3, <4>4, <4>5
    <3>5. CASE call' = [call EXCEPT ![j] = Inexact(d)]
      <4>1. Inexact(d) \in CallType /\ HalfRead(Inexact(d), rows, whole)
          BY <3>3, InexactCall
      <4> QED BY <3>5, <4>1
    <3> QED BY <1>3, <2>1, <3>2, <3>4, <3>5 DEF Tally
  <2>2. CASE Page(j)
    <3>1. /\ c.pc = "page" /\ c.items = {}
          /\ c.exact => c.seen = [rows |-> rows, whole |-> whole]
                        /\ c.total = Counted(rows, whole, c.filter)
        BY <1>3, <1>4, <2>2 DEF Page, HalfRead
    <3>2. PICK found : found = Rows(rows, whole, c.filter, c.page, c.limit)
        OBVIOUS
    <3>3. /\ found = Rows(rows, whole, c.filter, PageNumber(c.page), Limit(c.limit))
          /\ found \in Seq(Ids)
        BY <1>4, <3>2, RowsFor
    <3>4. CASE call' = [call EXCEPT ![j] =
                   [c EXCEPT !.records = found,
                             !.pc = IF found = <<>> THEN "answered" ELSE "items"]]
      <4>1. PICK pc : pc = IF found = <<>> THEN "answered" ELSE "items"
          OBVIOUS
      <4>2. PICK new : new = [c EXCEPT !.records = found, !.pc = pc]
          OBVIOUS
      <4>3. /\ new \in CallType /\ new.pc = pc /\ new.records = found /\ new.items = {}
            /\ new.seen = c.seen /\ new.total = c.total /\ new.exact = c.exact
            /\ new.filter = c.filter /\ new.page = c.page /\ new.limit = c.limit
          BY <1>4, <3>1, <3>3, <4>1, <4>2 DEF CallType, Steps
      <4>4. new.exact /\ pc = "answered" =>
                RepliesFrom(new, new.seen.rows, new.seen.whole)
        <5>1. found = <<>> => Range(found) = {}
            BY DEF Range
        <5> QED BY <3>1, <3>2, <4>1, <4>3, <5>1 DEF RepliesFrom
      <4>5. HalfRead(new, rows, whole)
          BY <3>1, <3>2, <4>1, <4>3, <4>4 DEF HalfRead
      <4> QED BY <3>4, <4>1, <4>2, <4>3, <4>5
    <3>5. CASE call' = [call EXCEPT ![j] = [Inexact(c) EXCEPT !.pc = "answered"]]
      <4>1. PICK new : new = [Inexact(c) EXCEPT !.pc = "answered"]
          OBVIOUS
      <4>2. new \in CallType /\ new.pc = "answered" /\ new.exact = FALSE
          BY <1>4, <4>1 DEF Inexact, CallType, Nothing, Steps
      <4>3. HalfRead(new, rows, whole)
          BY <4>2 DEF HalfRead
      <4> QED BY <3>5, <4>1, <4>2, <4>3
    <3> QED BY <1>3, <2>2, <3>3, <3>4, <3>5 DEF Page
  <2>3. CASE Items(j)
    <3>1. /\ c.pc = "items"
          /\ c.exact => c.seen = [rows |-> rows, whole |-> whole]
                        /\ c.total = Counted(rows, whole, c.filter)
                        /\ c.records = Rows(rows, whole, c.filter, c.page, c.limit)
        BY <1>3, <1>4, <2>3 DEF Items, HalfRead
    <3>2. PICK d : d = [c EXCEPT !.pc = "answered"]
        OBVIOUS
    <3>3. /\ d \in CallType /\ d.pc = "answered" /\ d.records = c.records
          /\ d.seen = c.seen /\ d.total = c.total /\ d.exact = c.exact
          /\ d.filter = c.filter /\ d.page = c.page /\ d.limit = c.limit
        BY <1>4, <3>2 DEF CallType, Steps
    <3>4. CASE call' = [call EXCEPT ![j] = [d EXCEPT !.items = whole \cap Range(d.records)]]
      <4>1. PICK items : items = whole \cap Range(d.records) /\ items \in SUBSET Ids
          BY <1>4
      <4>2. PICK new : new = [d EXCEPT !.items = items]
          OBVIOUS
      <4>3. /\ new \in CallType /\ new.pc = "answered" /\ new.records = c.records
            /\ new.seen = c.seen /\ new.total = c.total /\ new.exact = c.exact
            /\ new.filter = c.filter /\ new.page = c.page /\ new.limit = c.limit
            /\ new.items = whole \cap Range(c.records)
          BY <3>3, <4>1, <4>2 DEF CallType
      <4>4. new.exact => RepliesFrom(new, new.seen.rows, new.seen.whole)
          BY <3>1, <4>3 DEF RepliesFrom
      <4>5. HalfRead(new, rows, whole)
          BY <4>3, <4>4 DEF HalfRead
      <4> QED BY <3>4, <4>1, <4>2, <4>3, <4>5
    <3>5. CASE call' = [call EXCEPT ![j] = Inexact(d)]
      <4>1. Inexact(d) \in CallType /\ HalfRead(Inexact(d), rows, whole)
          BY <3>3, InexactCall
      <4> QED BY <3>5, <4>1
    <3> QED BY <1>3, <2>3, <3>2, <3>4, <3>5 DEF Items
  <2> QED BY <2>1, <2>2, <2>3
<1>6. CallsInv'
    BY <1>1, <1>2, <1>5, OneCall DEF database
<1> QED BY <1>1, <1>2, <1>6, TablesKept, PageKept, ShownKept DEF DInv, PageInv

\* Clearing the tables keeps it.
LEMMA WipeStep ==
    ASSUME DInv, NEW j \in Calls, Unlink(j) \/ Purge(j)
    PROVE  DInv'
<1>1. TablesInv /\ PageInv /\ CallsInv /\ ShownInv
    BY DEF DInv
<1>2. UNCHANGED <<arrived, inputs, page, pages, shown>>
    BY DEF Unlink, Purge, browser
<1>3. /\ rows' \in SUBSET (1..arrived) /\ whole' \in SUBSET (1..arrived)
    BY <1>1 DEF Unlink, Purge, TablesInv
<1>4. ASSUME NEW pc \in {"purge", "answered"}, NEW c, c = [call EXCEPT ![j].pc = pc]
      PROVE  c \in [Calls -> CallType] /\ \A k \in Calls : HalfRead(c[k], rows, whole)
  <2>1. PICK d, new : d = call[j] /\ new = [d EXCEPT !.pc = pc]
      OBVIOUS
  <2>2. d \in CallType /\ d.kind = "clear"
      BY <1>1, <2>1 DEF CallsInv, HalfRead, Unlink, Purge
  <2>3. new \in CallType /\ new.kind = "clear" /\ new.pc = pc
      BY <2>1, <2>2 DEF CallType, Steps
  <2>4. HalfRead(new, rows, whole)
      BY <2>3 DEF HalfRead
  <2>5. c = [call EXCEPT ![j] = new]
      BY <1>4, <2>1
  <2> QED BY <1>1, <2>3, <2>4, <2>5 DEF CallsInv
<1>5. CallsInv'
  <2>1. PICK pc, c : pc \in {"purge", "answered"} /\ c = [call EXCEPT ![j].pc = pc]
                     /\ (call' = Torn(c) \/ (call' = c /\ rows' = rows /\ whole' = whole))
      BY DEF Unlink, Purge
  <2>2. c \in [Calls -> CallType] /\ \A k \in Calls : HalfRead(c[k], rows, whole)
      BY <1>4, <2>1
  <2>3. CASE call' = Torn(c)
      BY <2>2, <2>3, TornCalls
  <2>4. CASE call' = c /\ rows' = rows /\ whole' = whole
      BY <2>2, <2>4 DEF CallsInv, HalfRead
  <2> QED BY <2>1, <2>3, <2>4
<1>6. TablesInv'
    BY <1>1, <1>2, <1>3 DEF TablesInv
<1> QED BY <1>1, <1>2, <1>5, <1>6, PageKept, ShownKept DEF DInv, PageInv

\* A stored or pruned record keeps it.
LEMMA ArrivalStep ==
    ASSUME DInv, Store \/ Prune
    PROVE  DInv'
<1>1. TablesInv /\ PageInv /\ CallsInv /\ ShownInv
    BY DEF DInv
<1>2. UNCHANGED <<inputs, page, pages, shown>> /\ call' = Torn(call)
    BY DEF Store, Prune, browser
<1>3. CallsInv'
    BY <1>1, <1>2, TornCalls DEF CallsInv
<1>4. TablesInv'
  <2>1. CASE Store
    <3>1. PICK n \in arrived + 1..Len(Messages) :
              /\ arrived' = n
              /\ rows' = rows \cup (arrived + 1..n)
              /\ whole' = whole \cup (arrived + 1..n)
        BY <2>1 DEF Store
    <3>2. /\ n \in 0..Len(Messages) /\ 1..arrived \subseteq 1..n
          /\ arrived + 1..n \subseteq 1..n
        BY <1>1, MessagesAssumption DEF TablesInv
    <3> QED BY <1>1, <3>1, <3>2 DEF TablesInv
  <2>2. CASE Prune
      BY <1>1, <2>2 DEF Prune, TablesInv
  <2> QED BY <2>1, <2>2
<1> QED BY <1>1, <1>2, <1>3, <1>4, PageKept, ShownKept DEF DInv, PageInv

\* Every step keeps it.
LEMMA DSteps == DInv /\ [Next]_vars => DInv'
<1> SUFFICES ASSUME DInv, [Next]_vars PROVE DInv'
    OBVIOUS
<1>1. ASSUME NEW j \in Calls, User(j) \/ Refresh(j) \/ Serve(j) \/ CallFails(j)
      PROVE  DInv'
    BY <1>1, UserStep, AnswerStep, StatementStep, WipeStep DEF Serve
<1>2. CASE Store \/ Prune
    BY <1>2, ArrivalStep
<1>3. CASE Type \/ ToggleAutoRefresh \/ UNCHANGED vars
  <2>1. UNCHANGED <<database, call, page, pages, shown>> /\ inputs' \in Inputs
      BY <1>3 DEF Type, ToggleAutoRefresh, vars, browser, DInv, PageInv
  <2>2. CallsInv'
      BY <2>1 DEF DInv, CallsInv, HalfRead, database
  <2>3. page' \in Pages
      BY <2>1 DEF DInv, PageInv
  <2> QED BY <2>1, <2>2, <2>3, TablesKept, PageKept, ShownKept DEF DInv
<1> QED BY <1>1, <1>2, <1>3 DEF Next

\* It holds in every reachable state.
LEMMA AlwaysD == Spec => []DInv
<1>1. Init => DInv
    BY DInitially
<1>2. DInv /\ [Next]_vars => DInv'
    BY DSteps
<1> QED BY <1>1, <1>2, PTL DEF Spec

-----------------------------------------------------------------------------
(* What the history view promises *)

\* For any messages, filters, page sizes and page numbers, the pages of the API
\* deal out the matching messages, newest first, without a gap or a repetition
\* (query_messages and api_history), whatever was stored, pruned or wiped.
THEOREM PagesArePartition == Spec => PagesPartition
<1>1. DInv /\ DInv' /\ [Next]_vars =>
          [<<rows', whole', inputs'>> # <<rows, whole, inputs>>
              => PagesDealOut(rows', whole', inputs'.filter)]_vars
  <2> SUFFICES ASSUME DInv' PROVE PagesDealOut(rows', whole', inputs'.filter)
      OBVIOUS
  <2>1. rows' \in SUBSET Ids
      BY MessagesAssumption DEF DInv, TablesInv, Ids
  <2> QED BY <2>1, AnyPages
<1> QED BY <1>1, AlwaysD, PTL DEF Spec, PagesPartition

\* A reply read from one state of the tables is exact for that state.
LEMMA ExactReply ==
    ASSUME NEW c \in CallType, RepliesFrom(c, c.seen.rows, c.seen.whole)
    PROVE  LET matching == Selected(c.seen.rows, c.seen.whole, c.filter)
           IN  /\ c.total = Cardinality(matching)
               /\ PageHas(c.records, matching, (c.page - 1) * c.limit, c.limit)
               /\ IsPage(c.records, matching, c.page, c.limit)
               /\ c.items = Range(c.records) \cap c.seen.whole
<1>1. PICK r, w, f, p, l, S :
          /\ r = c.seen.rows /\ w = c.seen.whole /\ f = c.filter /\ p = c.page /\ l = c.limit
          /\ S = Selected(r, w, f)
    OBVIOUS
<1>2. r \in SUBSET Ids /\ p \in Pages /\ l \in 1..MaxLimit
    BY <1>1 DEF CallType
<1>3. /\ c.total = Counted(r, w, f) /\ c.records = Rows(r, w, f, p, l)
      /\ c.items = Range(c.records) \cap w
    BY <1>1 DEF RepliesFrom
<1>4. /\ S \in SUBSET Ids /\ c.total = Cardinality(S)
      /\ PageHas(c.records, S, (p - 1) * l, l)
  <2>1. /\ Selected(r, w, f) \in SUBSET Ids
        /\ Counted(r, w, f) = Cardinality(Selected(r, w, f))
        /\ PageHas(Rows(r, w, f, p, l), Selected(r, w, f), (p - 1) * l, l)
      BY <1>2, RowsFor
  <2> QED BY <1>1, <1>3, <2>1
<1>5. p \in Nat \ {0} /\ l \in Nat \ {0}
    BY <1>2, MessagesAssumption, PagingAssumption DEF Pages
<1>6. IsPage(c.records, S, p, l)
    BY <1>4, <1>5, PageIsPage
<1> QED BY <1>1, <1>3, <1>4, <1>6

\* A reply that nothing overlapped is the page, the total and the items of the
\* history as it was when it was counted, in three statements (query_messages).
THEOREM RepliesAreExact == Spec => []ReplyExact
<1>1. DInv => ReplyExact
  <2> SUFFICES ASSUME DInv, NEW j \in Calls,
                      call[j].kind = "load", call[j].pc = "answered", call[j].exact
               PROVE  LET c == call[j]
                          matching == Selected(c.seen.rows, c.seen.whole, c.filter)
                      IN  /\ c.total = Cardinality(matching)
                          /\ IsPage(c.records, matching, c.page, c.limit)
                          /\ c.items = Range(c.records) \cap c.seen.whole
      BY DEF ReplyExact
  <2>1. PICK c : c = call[j]
      OBVIOUS
  <2>2. c \in CallType /\ RepliesFrom(c, c.seen.rows, c.seen.whole)
      BY <2>1 DEF DInv, CallsInv, HalfRead
  <2> QED BY <2>1, <2>2, ExactReply
<1> QED BY <1>1, AlwaysD, PTL

\* The page number, the range and the rows on show belong together whatever
\* order replies arrive in, and past the last page no rows are on show; of
\* replies that were not torn (renderHistoryTable draws with its request's page).
THEOREM RowsShownTogether == Spec => []ShownTogether
<1>1. DInv => ShownTogether
  <2> SUFFICES ASSUME DInv, shown.call.exact
               PROVE  LET c == shown.call
                          matching == Selected(c.seen.rows, c.seen.whole, c.filter)
                      IN  /\ Len(shown.records) =
                                IF shown.total = 0 \/ shown.page > shown.pages THEN 0
                                ELSE shown.last - shown.first + 1
                          /\ \A n \in DOMAIN shown.records :
                                Rank(shown.records[n], matching) = shown.first + n - 2
      BY DEF ShownTogether
  <2>1. PICK c, e, b, f :
            c \in CallType /\ shown = ShownAs(c, e, b, f) /\ RepliesFrom(c, c.seen.rows, c.seen.whole)
    <3>1. PICK c, e, b, f :
              /\ c \in CallType
              /\ shown = ShownAs(c, e, b, f)
              /\ c.exact => RepliesFrom(c, c.seen.rows, c.seen.whole)
        BY DEF DInv, ShownInv
    <3>2. shown.call = c
        BY <3>1 DEF ShownAs
    <3> QED BY <3>1, <3>2
  <2>2. PICK S, off, l, p, N, seq :
            /\ S = Selected(c.seen.rows, c.seen.whole, c.filter)
            /\ l = c.limit /\ p = c.page /\ off = (p - 1) * l /\ N = c.total
            /\ seq = c.records
      OBVIOUS
  <2>3. /\ l \in Nat \ {0} /\ l \in 1..MaxLimit /\ p \in Nat \ {0} /\ N \in Nat
        /\ p * l = off + l /\ off \in Nat
    <3>1. /\ l \in Nat \ {0} /\ l \in 1..MaxLimit /\ p \in Nat \ {0} /\ N \in Nat
        BY <2>1, <2>2, MessagesAssumption, PagingAssumption DEF CallType, Pages
    <3>2. p - 1 \in Nat /\ (p - 1) + 1 = p
        BY <3>1
    <3>3. PICK q : q = p - 1
        OBVIOUS
    <3>4. q * l \in Nat /\ (q + 1) * l = q * l + l
        BY <3>1, <3>2, <3>3
    <3> QED BY <2>2, <3>1, <3>2, <3>3, <3>4
  <2>4. N = Cardinality(S) /\ PageHas(seq, S, off, l)
      BY <2>1, <2>2, ExactReply
  <2>5. /\ seq \in Seq(S) /\ DOMAIN seq = 1..Len(seq) /\ Len(seq) \in Nat
        /\ Len(seq) = IF off < N THEN IF off + l < N THEN l ELSE N - off ELSE 0
        /\ \A n \in 1..Len(seq) : Rank(seq[n], S) = off + n - 1
      BY <2>4 DEF PageHas
  <2>6. /\ shown.total = N /\ shown.records = seq /\ shown.call = c /\ shown.page = p
        /\ shown.pages = TotalPages(N, l)
        /\ shown.first = IF N = 0 THEN 0 ELSE off + 1
        /\ shown.last = Clamp(p * l, 0, N)
    <3>1. Limit(l) = l
        BY <2>3, PagingAssumption DEF Limit, Clamp
    <3> QED BY <2>1, <2>2, <3>1 DEF ShownAs, PagesOf
  <2>7. N # 0 => (off < N <=> ~(p > shown.pages))
    <3>1. TotalPages(N, l) \in Nat
        BY <2>3, LastPage DEF TotalPages
    <3> QED BY <2>2, <2>3, <2>6, <3>1, LastPage
  <2>8. shown.last = IF off + l > N THEN N ELSE off + l
      BY <2>3, <2>6 DEF Clamp
  <2>9. Len(seq) = IF N = 0 \/ p > shown.pages THEN 0 ELSE shown.last - shown.first + 1
      BY <2>3, <2>5, <2>6, <2>7, <2>8
  <2>10. ASSUME NEW n \in 1..Len(seq) PROVE Rank(seq[n], S) = shown.first + n - 2
    <3>1. N # 0 /\ shown.first = off + 1
        BY <2>3, <2>5, <2>6
    <3> QED BY <2>3, <2>5, <3>1
  <2> QED BY <2>2, <2>5, <2>6, <2>9, <2>10
<1> QED BY <1>1, AlwaysD, PTL

===============================================================================
