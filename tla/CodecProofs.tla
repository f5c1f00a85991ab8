------------------------------ MODULE CodecProofs ------------------------------
(***************************************************************************)
(* Theorems about PacketCodec, for any packets of bytes and any limit of   *)
(* pointers: what its functions return, what parsing and keeping leave in  *)
(* a packet, and when serializing fails.                                   *)
(***************************************************************************)
EXTENDS PacketCodec, NumberLemmas, SequenceTheorems, FiniteSetTheorems

-----------------------------------------------------------------------------
(* Sequences by their first element *)

\* An element in front of a sequence: the join's type, length, head and tail.
LEMMA FirstAndRest ==
    ASSUME NEW S, NEW c \in S, NEW t \in Seq(S)
    PROVE  /\ <<c>> \o t \in Seq(S) /\ <<c>> \o t # <<>>
           /\ Len(<<c>> \o t) = 1 + Len(t)
           /\ Head(<<c>> \o t) = c /\ Tail(<<c>> \o t) = t
<1>1. <<c>> \in Seq(S) /\ Len(<<c>>) = 1
    OBVIOUS
<1>2. PICK s : s = <<c>> \o t
    OBVIOUS
<1>3. /\ s \in Seq(S) /\ Len(s) = 1 + Len(t)
      /\ \A i \in 1..(1 + Len(t)) : s[i] = IF i <= 1 THEN c ELSE t[i - 1]
    BY <1>1, <1>2, ConcatProperties
<1>4. s # <<>> /\ Head(s) = c
    BY <1>3
<1>5. Tail(s) = t
  <2>1. /\ Tail(s) \in Seq(S) /\ Len(Tail(s)) = Len(t)
        /\ \A i \in 1..Len(Tail(s)) : Tail(s)[i] = s[i + 1]
      BY <1>3, <1>4, HeadTailProperties
  <2>2. \A i \in 1..Len(t) : Tail(s)[i] = t[i]
    <3>1. ASSUME NEW i \in 1..Len(t) PROVE Tail(s)[i] = t[i]
      <4>1. i + 1 \in 1..(1 + Len(t)) /\ ~(i + 1 <= 1) /\ (i + 1) - 1 = i
          OBVIOUS
      <4> QED BY <1>3, <2>1, <4>1
    <3> QED BY <3>1
  <2> QED BY <2>1, <2>2, SeqEqual
<1> QED BY <1>2, <1>3, <1>4, <1>5

\* A sequence that is not empty is its first element and the rest.
LEMMA Split ==
    ASSUME NEW S, NEW s \in Seq(S), s # <<>>
    PROVE  /\ Head(s) \in S /\ Tail(s) \in Seq(S) /\ s = <<Head(s)>> \o Tail(s)
           /\ Len(s) = 1 + Len(Tail(s))
<1>1. /\ Head(s) \in S /\ Tail(s) \in Seq(S) /\ Len(Tail(s)) = Len(s) - 1
      /\ \A i \in 1..Len(Tail(s)) : Tail(s)[i] = s[i + 1]
    BY HeadTailProperties
<1>2. PICK t : t = Tail(s)
    OBVIOUS
<1>3. PICK u : u = <<Head(s)>> \o t
    OBVIOUS
<1>4. Len(s) \in Nat /\ Len(s) = 1 + Len(t) /\ Head(s) = s[1]
    BY <1>1, <1>2
<1>5. /\ u \in Seq(S) /\ Len(u) = Len(s)
      /\ \A i \in 1..Len(s) : u[i] = IF i <= 1 THEN Head(s) ELSE t[i - 1]
  <2>1. <<Head(s)>> \in Seq(S) /\ Len(<<Head(s)>>) = 1 /\ <<Head(s)>>[1] = Head(s)
      BY <1>1
  <2> QED BY <1>1, <1>2, <1>3, <1>4, <2>1, ConcatProperties
<1>6. \A i \in 1..Len(s) : s[i] = u[i]
  <2>1. ASSUME NEW i \in 1..Len(s) PROVE s[i] = u[i]
    <3>1. CASE i = 1
        BY <1>4, <1>5, <3>1
    <3>2. CASE i # 1
      <4>1. i - 1 \in 1..Len(t) /\ (i - 1) + 1 = i /\ ~(i <= 1)
          BY <1>4, <3>2
      <4> QED BY <1>1, <1>2, <1>5, <4>1
    <3> QED BY <3>1, <3>2
  <2> QED BY <2>1
<1>7. s = u
    BY <1>5, <1>6, SeqEqual
<1> QED BY <1>1, <1>2, <1>3, <1>4, <1>7

\* A set of sequences that has <<>>, and with each one all that are longer by
\* an element in front, has them all.
LEMMA SequenceInduction ==
    ASSUME NEW S, NEW T, <<>> \in T,
           \A c \in S, t \in Seq(S) : t \in T => <<c>> \o t \in T
    PROVE  Seq(S) \subseteq T
<1>1. PICK rank : rank = [s \in Seq(S) |-> Len(s)]
    OBVIOUS
<1>2. rank \in [Seq(S) -> Nat]
    BY <1>1
<1>3. ASSUME NEW s \in Seq(S), \A t \in Seq(S) : rank[t] < rank[s] => t \in T
      PROVE  s \in T
  <2>1. CASE s = <<>>
      BY <2>1
  <2>2. CASE s # <<>>
    <3>1. /\ Head(s) \in S /\ Tail(s) \in Seq(S) /\ s = <<Head(s)>> \o Tail(s)
          /\ Len(s) = 1 + Len(Tail(s))
        BY <2>2, Split
    <3>2. rank[Tail(s)] < rank[s]
        BY <1>1, <3>1
    <3> QED BY <1>3, <3>1, <3>2
  <2> QED BY <2>1, <2>2
<1> QED BY <1>2, <1>3, RankInduction

-----------------------------------------------------------------------------
(* The recursive functions, by their equations *)

\* The length of a sequence as a rank.
LEMMA LengthRank ==
    ASSUME NEW S
    PROVE  /\ [s \in Seq(S) |-> Len(s)] \in [Seq(S) -> Nat]
           /\ <<>> \in Seq(S)
           /\ \A s \in Seq(S) : s # <<>> =>
                 /\ Tail(s) \in Seq(S) /\ Head(s) \in S
                 /\ Len(Tail(s)) < Len(s)
<1>1. ASSUME NEW s \in Seq(S), s # <<>>
      PROVE  Tail(s) \in Seq(S) /\ Head(s) \in S /\ Len(Tail(s)) < Len(s)
  <2>1. /\ Head(s) \in S /\ Tail(s) \in Seq(S) /\ Len(s) = 1 + Len(Tail(s))
      BY <1>1, Split
  <2>2. Len(Tail(s)) \in Nat
      BY <2>1
  <2> QED BY <2>1, <2>2
<1> QED BY <1>1

\* What is used of a sequence of bytes: its length, its elements, the sequences of one
\* byte.
LEMMA OctetsAre ==
    /\ <<>> \in Octets
    /\ \A d \in Octets : Len(d) \in Nat
    /\ \A d \in Octets, i \in Nat : i >= 1 /\ i <= Len(d) => d[i] \in Octet
    /\ \A n \in Octet : <<n>> \in Octets
<1>1. ASSUME NEW d \in Octets, NEW i \in Nat, i >= 1, i <= Len(d) PROVE d[i] \in Octet
  <2>1. i \in 1..Len(d)
      BY <1>1 DEF Octets
  <2> QED BY <2>1, ElementOfSeq DEF Octets
<1> QED BY <1>1 DEF Octets

\* Two sequences of bytes joined keep their bytes where they were, the second shifted.
LEMMA OctetsJoin ==
    ASSUME NEW a \in Octets, NEW b \in Octets
    PROVE  /\ a \o b \in Octets /\ Len(a \o b) = Len(a) + Len(b)
           /\ \A i \in 1..Len(a) : (a \o b)[i] = a[i]
           /\ \A i \in 1..Len(b) : (a \o b)[Len(a) + i] = b[i]
<1>1. /\ a \o b \in Seq(Octet) /\ Len(a \o b) = Len(a) + Len(b)
      /\ \A i \in 1..Len(a) + Len(b) : (a \o b)[i] = IF i <= Len(a) THEN a[i] ELSE b[i - Len(a)]
    BY ConcatProperties DEF Octets
<1>2. PICK m \in Nat, n \in Nat : m = Len(a) /\ n = Len(b)
    BY OctetsAre
<1>3. ASSUME NEW i \in 1..m PROVE (a \o b)[i] = a[i]
  <2>1. i \in 1..m + n /\ i <= m
      OBVIOUS
  <2> QED BY <1>1, <1>2, <2>1
<1>4. ASSUME NEW i \in 1..n PROVE (a \o b)[m + i] = b[i]
  <2>1. m + i \in 1..m + n /\ ~(m + i <= m) /\ (m + i) - m = i
      OBVIOUS
  <2> QED BY <1>1, <1>2, <2>1
<1> QED BY <1>1, <1>2, <1>3, <1>4 DEF Octets

\* Joining bytes is associative.
LEMMA OctetsAssociate ==
    ASSUME NEW a \in Octets, NEW b \in Octets, NEW c \in Octets
    PROVE  (a \o b) \o c = a \o (b \o c)
<1>1. a \in Seq(Octet) /\ b \in Seq(Octet) /\ c \in Seq(Octet)
    BY DEF Octets
<1> QED BY <1>1, ConcatAssociative

\* A sequence of two bytes.
LEMMA TwoOctets ==
    ASSUME NEW u \in Octet, NEW v \in Octet
    PROVE  /\ <<u, v>> \in Octets /\ Len(<<u, v>>) = 2
           /\ <<u, v>>[1] = u /\ <<u, v>>[2] = v
<1>1. <<u, v>> \in Seq(Octet)
    OBVIOUS
<1> QED BY <1>1 DEF Octets

\* A byte that is not the first of a character.
LEMMA LaterIs == \A n \in Nat : Later(n) \in 128..191 /\ Later(n) \in Octet /\ Later(n) - 128 = n % 64
<1>1. \A n \in Nat : n % 64 \in 0..63
    OBVIOUS
<1> QED BY <1>1 DEF Later, Octet

\* A character's bits in groups of six.
LEMMA Sixes ==
    \A c \in Nat :
        /\ c < 2048 => c = (c \div 64) * 64 + (c % 64) /\ c \div 64 \in 0..31
        /\ c >= 128 => c \div 64 >= 2
        /\ c < 65536 =>
              /\ c = (c \div 4096) * 4096 + ((c \div 64) % 64) * 64 + (c % 64)
              /\ c \div 4096 \in 0..15
        /\ c <= 1114111 =>
              /\ c = (c \div 262144) * 262144 + ((c \div 4096) % 64) * 4096
                     + ((c \div 64) % 64) * 64 + (c % 64)
              /\ c \div 262144 \in 0..4
        /\ c \div 64 \in Nat /\ c \div 4096 \in Nat
<1> SUFFICES ASSUME NEW c \in Nat
             PROVE  /\ c < 2048 => c = (c \div 64) * 64 + (c % 64) /\ c \div 64 \in 0..31
                    /\ c >= 128 => c \div 64 >= 2
                    /\ c < 65536 =>
                          /\ c = (c \div 4096) * 4096 + ((c \div 64) % 64) * 64 + (c % 64)
                          /\ c \div 4096 \in 0..15
                    /\ c <= 1114111 =>
                          /\ c = (c \div 262144) * 262144 + ((c \div 4096) % 64) * 4096
                                 + ((c \div 64) % 64) * 64 + (c % 64)
                          /\ c \div 262144 \in 0..4
                    /\ c \div 64 \in Nat /\ c \div 4096 \in Nat
    OBVIOUS
<1>1. PICK q \in Nat : q = c \div 64 /\ c = q * 64 + (c % 64)
    OBVIOUS
<1>2. PICK r \in Nat : r = c \div 4096 /\ q = r * 64 + (q % 64)
  <2>1. q \div 64 = c \div 4096
      BY <1>1
  <2> QED BY <2>1
<1>3. PICK t \in Nat : t = c \div 262144 /\ r = t * 64 + (r % 64)
  <2>1. r \div 64 = c \div 262144
      BY <1>2
  <2> QED BY <2>1
<1>4. \A n \in Nat : n % 64 \in 0..63
    OBVIOUS
<1>5. c % 64 \in 0..63 /\ q % 64 \in 0..63 /\ r % 64 \in 0..63
    BY <1>4
<1>6. c < 2048 => q \in 0..31
    BY <1>1, <1>5
<1>7. c >= 128 => q >= 2
    BY <1>1, <1>5
<1>8. c = r * 4096 + (q % 64) * 64 + (c % 64) /\ (c < 65536 => r \in 0..15)
    BY <1>1, <1>2, <1>5
<1>9. /\ c = t * 262144 + (r % 64) * 4096 + (q % 64) * 64 + (c % 64)
      /\ c <= 1114111 => t \in 0..4
    BY <1>3, <1>5, <1>8
<1> QED BY <1>1, <1>2, <1>3, <1>6, <1>7, <1>8, <1>9

\* Utf8 by its cases.
LEMMA Utf8Is ==
    ASSUME NEW c \in Char
    PROVE  /\ c \in Nat
           /\ c < 128 => Utf8(c) = <<c>>
           /\ c >= 128 /\ c < 2048 => Utf8(c) = <<192 + (c \div 64), Later(c)>>
           /\ c >= 2048 /\ c < 65536 =>
                 Utf8(c) = <<224 + (c \div 4096), Later(c \div 64), Later(c)>>
           /\ c >= 65536 =>
                 Utf8(c) = <<240 + (c \div 262144), Later(c \div 4096), Later(c \div 64), Later(c)>>
<1>1. c \in Nat
    BY DEF Char
<1>2. ASSUME c < 128 PROVE Utf8(c) = <<c>>
    BY <1>1, <1>2 DEF Utf8
<1>3. ASSUME c >= 128, c < 2048 PROVE Utf8(c) = <<192 + (c \div 64), Later(c)>>
    BY <1>1, <1>3 DEF Utf8
<1>4. ASSUME c >= 2048, c < 65536
      PROVE  Utf8(c) = <<224 + (c \div 4096), Later(c \div 64), Later(c)>>
    BY <1>1, <1>4 DEF Utf8
<1>5. ASSUME c >= 65536
      PROVE  Utf8(c) = <<240 + (c \div 262144), Later(c \div 4096), Later(c \div 64), Later(c)>>
    BY <1>1, <1>5 DEF Utf8
<1> QED BY <1>1, <1>2, <1>3, <1>4, <1>5

\* How many bytes a character is encoded in.
LEMMA Utf8Length ==
    ASSUME NEW c \in Char
    PROVE  /\ Utf8(c) \in Octets
           /\ Len(Utf8(c)) = IF c < 128 THEN 1 ELSE IF c < 2048 THEN 2
                             ELSE IF c < 65536 THEN 3 ELSE 4
<1>1. c \in Nat /\ c <= 1114111
    BY DEF Char
<1>2. /\ Later(c) \in Octet /\ Later(c \div 64) \in Octet /\ Later(c \div 4096) \in Octet
      /\ c < 2048 => 192 + (c \div 64) \in Octet
      /\ c < 65536 => 224 + (c \div 4096) \in Octet
      /\ 240 + (c \div 262144) \in Octet
  <2>1. Later(c) \in Octet /\ Later(c \div 64) \in Octet /\ Later(c \div 4096) \in Octet
    <3>1. c \div 64 \in Nat /\ c \div 4096 \in Nat
        BY <1>1
    <3> QED BY <1>1, <3>1, LaterIs
  <2>2. c < 2048 => c \div 64 \in 0..31
      BY <1>1, Sixes
  <2>3. c < 65536 => c \div 4096 \in 0..15
      BY <1>1, Sixes
  <2>4. c \div 262144 \in 0..4
      BY <1>1, Sixes
  <2>5. \A n \in 0..31 : 192 + n \in Octet /\ (n <= 15 => 224 + n \in Octet /\ 240 + n \in Octet)
      BY DEF Octet
  <2> QED BY <2>1, <2>2, <2>3, <2>4, <2>5
<1>3. CASE c < 128
  <2>1. c \in Octet /\ Utf8(c) = <<c>>
      BY <1>1, <1>3, Utf8Is DEF Octet
  <2> QED BY <1>3, <2>1 DEF Octets
<1>4. CASE c >= 128 /\ c < 2048
  <2>1. Utf8(c) = <<192 + (c \div 64), Later(c)>> /\ ~(c < 128)
      BY <1>1, <1>4, Utf8Is
  <2> QED BY <1>2, <1>4, <2>1 DEF Octets
<1>5. CASE c >= 2048 /\ c < 65536
  <2>1. /\ Utf8(c) = <<224 + (c \div 4096), Later(c \div 64), Later(c)>>
        /\ ~(c < 128) /\ ~(c < 2048)
      BY <1>1, <1>5, Utf8Is
  <2> QED BY <1>2, <1>5, <2>1 DEF Octets
<1>6. CASE c >= 65536
  <2>1. /\ Utf8(c) = <<240 + (c \div 262144), Later(c \div 4096), Later(c \div 64), Later(c)>>
        /\ ~(c < 128) /\ ~(c < 2048) /\ ~(c < 65536)
      BY <1>1, <1>6, Utf8Is
  <2> QED BY <1>2, <2>1 DEF Octets
<1> QED BY <1>1, <1>3, <1>4, <1>5, <1>6

\* A character is encoded in one byte to four.
LEMMA Utf8Type == \A c \in Char : Utf8(c) \in Octets /\ Len(Utf8(c)) \in 1..4
<1>1. ASSUME NEW c \in Char PROVE Utf8(c) \in Octets /\ Len(Utf8(c)) \in {1, 2, 3, 4}
    BY Utf8Length
<1> QED BY <1>1

\* Encode encodes the first character, then the others.
LEMMA EncodeIs ==
    /\ \A s \in Text : Encode[s] \in Octets
    /\ Encode[<<>>] = <<>>
    /\ \A c \in Char, t \in Text : Encode[<<c>> \o t] = Utf8(c) \o Encode[t]
<1> DEFINE Solution(h) ==
        h = [s \in Text |-> IF s = <<>> THEN <<>> ELSE Utf8(Head(s)) \o h[Tail(s)]]
<1>1. \E f \in [Text -> Octets] : Solution(f)
  <2>1. PICK D, V, rank, B :
            /\ D = Text /\ V = Octets /\ rank = [s \in Text |-> Len(s)]
            /\ B = [f \in [D -> V] |->
                      [s \in D |-> IF s = <<>> THEN <<>> ELSE Utf8(Head(s)) \o f[Tail(s)]]]
      OBVIOUS
  <2>2. <<>> \in V /\ rank \in [D -> Nat]
      BY <2>1, LengthRank DEF Text, Octets
  <2>3. \A s \in D : s # <<>> => Tail(s) \in D /\ Head(s) \in Char /\ rank[Tail(s)] < rank[s]
      BY <2>1, LengthRank DEF Text, Octets
  <2>4. B \in [[D -> V] -> [D -> V]]
    <3>1. ASSUME NEW f \in [D -> V], NEW s \in D, s # <<>>
          PROVE  Utf8(Head(s)) \o f[Tail(s)] \in V
      <4>1. Utf8(Head(s)) \in Octets /\ f[Tail(s)] \in Octets
          BY <2>1, <2>3, <3>1, Utf8Type
      <4> QED BY <2>1, <4>1, OctetsJoin
    <3> QED BY <2>1, <2>2, <3>1
  <2>5. \A f, g \in [D -> V], x \in D :
            (\A y \in D : rank[y] < rank[x] => f[y] = g[y]) => B[f][x] = B[g][x]
    <3>1. ASSUME NEW f \in [D -> V], NEW g \in [D -> V], NEW x \in D,
                 \A y \in D : rank[y] < rank[x] => f[y] = g[y]
          PROVE  B[f][x] = B[g][x]
      <4>1. x # <<>> => f[Tail(x)] = g[Tail(x)]
          BY <2>3, <3>1
      <4> QED BY <2>1, <4>1
    <3> QED BY <3>1
  <2>6. FromLower(D, V, rank, B)
      BY <2>2, <2>4, <2>5 DEF FromLower
  <2>7. \E f \in [D -> V] : f = B[f]
      BY <2>6, Recursion
  <2> QED BY <2>1, <2>7
<1>2. Encode = CHOOSE h : Solution(h)
    BY DEF Encode
<1> HIDE DEF Solution
<1>3. Solution(Encode)
    BY <1>1, <1>2
<1>4. \A s \in Text : Encode[s] = IF s = <<>> THEN <<>>
                                  ELSE Utf8(Head(s)) \o Encode[Tail(s)]
    BY <1>3 DEF Solution
<1>5. Encode[<<>>] = <<>>
    BY <1>4, LengthRank DEF Text, Octets
<1>6. ASSUME NEW c \in Char, NEW t \in Text
      PROVE  Encode[<<c>> \o t] = Utf8(c) \o Encode[t]
  <2>1. PICK s : s = <<c>> \o t
      OBVIOUS
  <2>2. s \in Text /\ s # <<>> /\ Head(s) = c /\ Tail(s) = t
      BY <2>1, FirstAndRest DEF Text
  <2> QED BY <1>4, <2>1, <2>2
<1>7. Text \subseteq {s \in Text : Encode[s] \in Octets}
  <2>1. PICK T : T = {s \in Text : Encode[s] \in Octets}
      OBVIOUS
  <2>2. <<>> \in T
      BY <1>5, <2>1, LengthRank DEF Text, Octets
  <2>3. ASSUME NEW c \in Char, NEW t \in Text, t \in T PROVE <<c>> \o t \in T
    <3>1. Utf8(c) \in Octets /\ Encode[t] \in Octets
        BY <2>1, <2>3, Utf8Type
    <3>2. Encode[<<c>> \o t] = Utf8(c) \o Encode[t]
        BY <1>6
    <3>3. Encode[<<c>> \o t] \in Octets
        BY <3>1, <3>2, OctetsJoin
    <3> QED BY <2>1, <3>3, FirstAndRest DEF Text
  <2>4. Text \subseteq T
      BY <2>2, <2>3, SequenceInduction DEF Text
  <2> QED BY <2>1, <2>4
<1> QED BY <1>5, <1>6, <1>7

\* Parts cuts a text at its dots, from the front: its equations.
LEMMA PartsAre ==
    /\ \A s \in Text : Parts[s] \in Seq(Text) /\ Parts[s] # <<>>
    /\ Parts[<<>>] = <<<<>>>>
    /\ \A c \in Char, t \in Text :
          Parts[<<c>> \o t] =
             IF c = Dot THEN <<<<>>>> \o Parts[t]
             ELSE <<<<c>> \o Head(Parts[t])>> \o Tail(Parts[t])
<1> DEFINE Longer(c, parts) ==
               IF c = Dot THEN <<<<>>>> \o parts
               ELSE <<<<c>> \o Head(parts)>> \o Tail(parts)
           V == {s \in Seq(Text) : s # <<>>}
           Solution(h) ==
               h = [s \in Text |-> IF s = <<>> THEN <<<<>>>>
                                   ELSE Longer(Head(s), h[Tail(s)])]
<1>0. <<<<>>>> \in V /\ \A c \in Char, parts \in V : Longer(c, parts) \in V
  <2>1. <<>> \in Text
      BY LengthRank DEF Text, Octets
  <2>2. ASSUME NEW c \in Char, NEW parts \in V PROVE Longer(c, parts) \in V
    <3>1. CASE c = Dot
        BY <2>1, <3>1, FirstAndRest
    <3>2. CASE c # Dot
      <4>1. Head(parts) \in Text /\ Tail(parts) \in Seq(Text)
          BY Split
      <4>2. PICK p : p = <<c>> \o Head(parts)
          OBVIOUS
      <4>3. p \in Text
          BY <4>1, <4>2, FirstAndRest DEF Text
      <4>4. <<p>> \o Tail(parts) \in V
          BY <4>1, <4>3, FirstAndRest
      <4> QED BY <3>2, <4>2, <4>4
    <3> QED BY <3>1, <3>2
  <2>3. <<<<>>>> \in V
      BY <2>1
  <2> QED BY <2>2, <2>3
<1>1. \E f \in [Text -> V] : Solution(f)
  <2> HIDE DEF Longer
  <2>1. PICK D, W, rank, B :
            /\ D = Text /\ W = V /\ rank = [s \in Text |-> Len(s)]
            /\ B = [f \in [D -> W] |->
                      [s \in D |-> IF s = <<>> THEN <<<<>>>> ELSE Longer(Head(s), f[Tail(s)])]]
      OBVIOUS
  <2>2. <<<<>>>> \in W /\ rank \in [D -> Nat]
      BY <1>0, <2>1, LengthRank DEF Text, Octets
  <2>3. \A s \in D : s # <<>> => Tail(s) \in D /\ Head(s) \in Char /\ rank[Tail(s)] < rank[s]
      BY <2>1, LengthRank DEF Text, Octets
  <2> HIDE DEF V
  <2>4. B \in [[D -> W] -> [D -> W]]
    <3>1. ASSUME NEW f \in [D -> W], NEW s \in D, s # <<>>
          PROVE  Longer(Head(s), f[Tail(s)]) \in W
        BY <1>0, <2>1, <2>3, <3>1
    <3> QED BY <2>1, <2>2, <3>1
  <2>5. \A f, g \in [D -> W], x \in D :
            (\A y \in D : rank[y] < rank[x] => f[y] = g[y]) => B[f][x] = B[g][x]
    <3>1. ASSUME NEW f \in [D -> W], NEW g \in [D -> W], NEW x \in D,
                 \A y \in D : rank[y] < rank[x] => f[y] = g[y]
          PROVE  B[f][x] = B[g][x]
      <4>1. x # <<>> => f[Tail(x)] = g[Tail(x)]
          BY <2>3, <3>1
      <4> QED BY <2>1, <4>1
    <3> QED BY <3>1
  <2>6. FromLower(D, W, rank, B)
      BY <2>2, <2>4, <2>5 DEF FromLower
  <2>7. \E f \in [D -> W] : f = B[f]
      BY <2>6, Recursion
  <2> QED BY <2>1, <2>7
<1>2. Parts = CHOOSE h : Solution(h)
    BY DEF Parts
<1> HIDE DEF Solution
<1>3. Solution(Parts)
    BY <1>1, <1>2
<1>4. \A s \in Text : Parts[s] = IF s = <<>> THEN <<<<>>>>
                                 ELSE Longer(Head(s), Parts[Tail(s)])
    BY <1>3 DEF Solution
<1>5. Parts[<<>>] = <<<<>>>>
    BY <1>4, LengthRank DEF Text, Octets
<1>6. ASSUME NEW c \in Char, NEW t \in Text
      PROVE  Parts[<<c>> \o t] = Longer(c, Parts[t])
  <2> HIDE DEF Longer
  <2>1. PICK s : s = <<c>> \o t
      OBVIOUS
  <2>2. s \in Text /\ s # <<>> /\ Head(s) = c /\ Tail(s) = t
      BY <2>1, FirstAndRest DEF Text
  <2> QED BY <1>4, <2>1, <2>2
<1>7. Text \subseteq {s \in Text : Parts[s] \in V}
  <2> HIDE DEF V, Longer
  <2>1. PICK T : T = {s \in Text : Parts[s] \in V}
      OBVIOUS
  <2>2. <<>> \in T
      BY <1>0, <1>5, <2>1, LengthRank DEF Text, Octets
  <2>3. ASSUME NEW c \in Char, NEW t \in Text, t \in T PROVE <<c>> \o t \in T
      BY <1>0, <1>6, <2>1, <2>3, FirstAndRest DEF Text
  <2>4. Text \subseteq T
      BY <2>2, <2>3, SequenceInduction DEF Text
  <2> QED BY <2>1, <2>4
<1> QED BY <1>5, <1>6, <1>7

\* A label on the wire is bytes.
LEMMA LabelBytesType == \A p \in Text : LabelBytes(p) \in Octets
<1>1. ASSUME NEW p \in Text PROVE LabelBytes(p) \in Octets
  <2>1. Encode[p] \in Octets
      BY EncodeIs
  <2>2. PICK n : n = Len(Encode[p]) % 256
      OBVIOUS
  <2>3. n \in Octet
    <3>1. Len(Encode[p]) \in Nat
        BY <2>1
    <3>2. \A m \in Nat : m % 256 \in 0..255
        OBVIOUS
    <3> QED BY <2>2, <3>1, <3>2 DEF Octet
  <2>4. <<n>> \o Encode[p] \in Octets
      BY <2>1, <2>3, OctetsAre, OctetsJoin
  <2> QED BY <2>2, <2>4 DEF LabelBytes
<1> QED BY <1>1

\* Labels writes the labels one after another and ends with the root.
LEMMA LabelsAre ==
    /\ \A s \in Seq(Text) : Labels[s] \in Octets
    /\ Labels[<<>>] = <<0>>
    /\ \A p \in Text, t \in Seq(Text) : Labels[<<p>> \o t] = LabelBytes(p) \o Labels[t]
<1> DEFINE Solution(h) == h = [s \in Seq(Text) |-> IF s = <<>> THEN <<0>>
                                                ELSE LabelBytes(Head(s)) \o h[Tail(s)]]
<1>0. <<0>> \in Octets
    BY DEF Octet, Octets
<1>1. \E f \in [Seq(Text) -> Octets] : Solution(f)
  <2>1. PICK D, V, rank, B :
            /\ D = Seq(Text) /\ V = Octets /\ rank = [s \in Seq(Text) |-> Len(s)]
            /\ B = [f \in [D -> V] |->
                      [s \in D |-> IF s = <<>> THEN <<0>> ELSE LabelBytes(Head(s)) \o f[Tail(s)]]]
      OBVIOUS
  <2>2. <<0>> \in V /\ rank \in [D -> Nat]
      BY <1>0, <2>1, LengthRank
  <2>3. \A s \in D : s # <<>> => Tail(s) \in D /\ Head(s) \in Text /\ rank[Tail(s)] < rank[s]
      BY <2>1, LengthRank
  <2>4. B \in [[D -> V] -> [D -> V]]
    <3>1. ASSUME NEW f \in [D -> V], NEW s \in D, s # <<>>
          PROVE  LabelBytes(Head(s)) \o f[Tail(s)] \in V
      <4>1. LabelBytes(Head(s)) \in Octets /\ f[Tail(s)] \in Octets
          BY <2>1, <2>3, <3>1, LabelBytesType
      <4> QED BY <2>1, <4>1, OctetsJoin
    <3> QED BY <2>1, <2>2, <3>1
  <2>5. \A f, g \in [D -> V], x \in D :
            (\A y \in D : rank[y] < rank[x] => f[y] = g[y]) => B[f][x] = B[g][x]
    <3>1. ASSUME NEW f \in [D -> V], NEW g \in [D -> V], NEW x \in D,
                 \A y \in D : rank[y] < rank[x] => f[y] = g[y]
          PROVE  B[f][x] = B[g][x]
      <4>1. x # <<>> => f[Tail(x)] = g[Tail(x)]
          BY <2>3, <3>1
      <4> QED BY <2>1, <4>1
    <3> QED BY <3>1
  <2>6. FromLower(D, V, rank, B)
      BY <2>2, <2>4, <2>5 DEF FromLower
  <2>7. \E f \in [D -> V] : f = B[f]
      BY <2>6, Recursion
  <2> QED BY <2>1, <2>7
<1>2. Labels = CHOOSE h : Solution(h)
    BY DEF Labels
<1> HIDE DEF Solution
<1>3. Solution(Labels)
    BY <1>1, <1>2
<1>4. \A s \in Seq(Text) : Labels[s] = IF s = <<>> THEN <<0>>
                                       ELSE LabelBytes(Head(s)) \o Labels[Tail(s)]
    BY <1>3 DEF Solution
<1>5. Labels[<<>>] = <<0>>
    BY <1>4, LengthRank
<1>6. ASSUME NEW p \in Text, NEW t \in Seq(Text)
      PROVE  Labels[<<p>> \o t] = LabelBytes(p) \o Labels[t]
  <2>1. PICK s : s = <<p>> \o t
      OBVIOUS
  <2>2. s \in Seq(Text) /\ s # <<>> /\ Head(s) = p /\ Tail(s) = t
      BY <2>1, FirstAndRest
  <2> QED BY <1>4, <2>1, <2>2
<1>7. Seq(Text) \subseteq {s \in Seq(Text) : Labels[s] \in Octets}
  <2>1. PICK T : T = {s \in Seq(Text) : Labels[s] \in Octets}
      OBVIOUS
  <2>2. <<>> \in T
      BY <1>0, <1>5, <2>1, LengthRank
  <2>3. ASSUME NEW p \in Text, NEW t \in Seq(Text), t \in T PROVE <<p>> \o t \in T
    <3>1. LabelBytes(p) \in Octets /\ Labels[t] \in Octets
        BY <2>1, <2>3, LabelBytesType
    <3>2. Labels[<<p>> \o t] = LabelBytes(p) \o Labels[t]
        BY <1>6
    <3>3. Labels[<<p>> \o t] \in Octets
        BY <3>1, <3>2, OctetsJoin
    <3> QED BY <2>1, <3>3, FirstAndRest
  <2>4. Seq(Text) \subseteq T
      BY <2>2, <2>3, SequenceInduction
  <2> QED BY <2>1, <2>4
<1> QED BY <1>5, <1>6, <1>7

\* How many bytes a character has is said by its first byte.
LEMMA WideIs ==
    ASSUME NEW b \in Nat
    PROVE  /\ Wide(b) = 1 <=> b <= 127
           /\ Wide(b) = 2 <=> (194 <= b /\ b <= 223)
           /\ Wide(b) = 3 <=> (224 <= b /\ b <= 239)
           /\ Wide(b) = 4 <=> (240 <= b /\ b <= 244)
<1>1. ASSUME b \in 0..127 PROVE Wide(b) = 1
    BY <1>1 DEF Wide
<1>2. ASSUME b \in 194..223 PROVE Wide(b) = 2
  <2>1. ~(b \in 0..127)
      BY <1>2
  <2> QED BY <1>2, <2>1 DEF Wide
<1>3. ASSUME b \in 224..239 PROVE Wide(b) = 3
  <2>1. ~(b \in 0..127) /\ ~(b \in 194..223)
      BY <1>3
  <2> QED BY <1>3, <2>1 DEF Wide
<1>4. ASSUME b \in 240..244 PROVE Wide(b) = 4
  <2>1. ~(b \in 0..127) /\ ~(b \in 194..223) /\ ~(b \in 224..239)
      BY <1>4
  <2> QED BY <1>4, <2>1 DEF Wide
<1>5. ASSUME ~(b \in 0..127), ~(b \in 194..223), ~(b \in 224..239), ~(b \in 240..244)
      PROVE  Wide(b) = 0
    BY <1>5 DEF Wide
<1>6. /\ b \in 0..127 <=> b <= 127
      /\ b \in 194..223 <=> (194 <= b /\ b <= 223)
      /\ b \in 224..239 <=> (224 <= b /\ b <= 239)
      /\ b \in 240..244 <=> (240 <= b /\ b <= 244)
    OBVIOUS
<1> QED BY <1>1, <1>2, <1>3, <1>4, <1>5, <1>6

\* What may be the second byte of a character.
LEMMA SecondIs ==
    ASSUME NEW b \in Nat, NEW x
    PROVE  x \in Second(b) <=>
               /\ x \in Nat /\ 128 <= x /\ x <= 191
               /\ b = 224 => 160 <= x
               /\ b = 237 => x <= 159
               /\ b = 240 => 144 <= x
               /\ b = 244 => x <= 143
<1>1. CASE b = 224
    BY <1>1 DEF Second
<1>2. CASE b = 237
    BY <1>2 DEF Second
<1>3. CASE b = 240
    BY <1>3 DEF Second
<1>4. CASE b = 244
    BY <1>4 DEF Second
<1>5. CASE b \notin {224, 237, 240, 244}
    BY <1>5 DEF Second
<1> QED BY <1>1, <1>2, <1>3, <1>4, <1>5

\* The characters of two bytes, of three and of four.
LEMMA FromTwo ==
    ASSUME NEW b \in Nat, NEW x \in Nat, NEW c, c = (b - 192) * 64 + (x - 128),
           194 <= b, b <= 223, 128 <= x, x <= 191
    PROVE  c \in Nat /\ c >= 128 /\ c < 2048
OBVIOUS

\* None of three is a surrogate.
LEMMA FromThree ==
    ASSUME NEW b \in Nat, NEW x \in Nat, NEW y \in Nat,
           NEW c, c = (b - 224) * 4096 + (x - 128) * 64 + (y - 128),
           224 <= b, b <= 239, 128 <= x, x <= 191, 128 <= y, y <= 191,
           b = 224 => 160 <= x, b = 237 => x <= 159
    PROVE  c \in Nat /\ c >= 2048 /\ c < 65536 /\ ~(55296 <= c /\ c <= 57343)
OBVIOUS

\* None of four is beyond the last one.
LEMMA FromFour ==
    ASSUME NEW b \in Nat, NEW x \in Nat, NEW y \in Nat, NEW z \in Nat,
           NEW c, c = (b - 240) * 262144 + (x - 128) * 4096 + (y - 128) * 64 + (z - 128),
           240 <= b, b <= 244, 128 <= x, x <= 191, 128 <= y, y <= 191,
           128 <= z, z <= 191, b = 240 => 144 <= x, b = 244 => x <= 143
    PROVE  c \in Nat /\ c >= 65536 /\ c <= 1114111
OBVIOUS

\* What has begun as a character is at least a byte, and goes on within the
\* bytes there are.
LEMMA BegunIs ==
    ASSUME NEW s \in Octets, s # <<>>
    PROVE  /\ Begun(s) \in 1..4 /\ Begun(s) <= Len(s)
           /\ \A n \in 2..Begun(s) : Goes(s, n)
<1>1. Len(s) \in Nat /\ Len(s) >= 1
  <2>1. Len(s) \in Nat /\ s \in Seq(Octet)
      BY DEF Octets
  <2>2. Len(s) # 0
      BY <2>1, EmptySeq
  <2> QED BY <2>1, <2>2
<1>2. \A n \in 2..4 : Goes(s, n) => n <= Len(s)
    BY DEF Goes
<1>3. CASE ~Goes(s, 2)
  <2>1. Begun(s) = 1
      BY <1>3 DEF Begun
  <2> QED BY <1>1, <2>1
<1>4. CASE Goes(s, 2) /\ ~Goes(s, 3)
  <2>1. Begun(s) = 2
      BY <1>4 DEF Begun
  <2>2. \A n \in 2..2 : n = 2
      OBVIOUS
  <2> QED BY <1>2, <1>4, <2>1, <2>2
<1>5. CASE Goes(s, 2) /\ Goes(s, 3) /\ ~Goes(s, 4)
  <2>1. Begun(s) = 3
      BY <1>5 DEF Begun
  <2>2. \A n \in 2..3 : n = 2 \/ n = 3
      OBVIOUS
  <2> QED BY <1>2, <1>5, <2>1, <2>2
<1>6. CASE Goes(s, 2) /\ Goes(s, 3) /\ Goes(s, 4)
  <2>1. Begun(s) = 4
      BY <1>6 DEF Begun
  <2>2. \A n \in 2..4 : n = 2 \/ n = 3 \/ n = 4
      OBVIOUS
  <2> QED BY <1>2, <1>6, <2>1, <2>2
<1> QED BY <1>3, <1>4, <1>5, <1>6

\* The bytes that go on a character.
LEMMA GoesIs ==
    ASSUME NEW s, NEW n, Goes(s, n), NEW b \in Nat, b = s[1]
    PROVE  /\ s[n] \in Nat /\ 128 <= s[n] /\ s[n] <= 191
           /\ n = 2 => /\ b = 224 => 160 <= s[2]
                       /\ b = 237 => s[2] <= 159
                       /\ b = 240 => 144 <= s[2]
                       /\ b = 244 => s[2] <= 143
<1>1. CASE n = 2
  <2>1. s[2] \in Second(b)
      BY <1>1 DEF Goes
  <2> QED BY <1>1, <2>1, SecondIs
<1>2. CASE n # 2
  <2>1. s[n] \in 128..191
      BY <1>2 DEF Goes
  <2> QED BY <1>2, <2>1
<1> QED BY <1>1, <1>2

\* A whole character is one, and is encoded in as many bytes.
LEMMA DecodedIs ==
    ASSUME NEW s \in Octets, s # <<>>, Begun(s) = Wide(s[1])
    PROVE  Decoded(s) \in Char /\ Len(Utf8(Decoded(s))) = Begun(s)
<1>1. PICK b \in Nat : b = s[1]
  <2>1. 1 <= Len(s) /\ Len(s) \in Nat
      BY BegunIs, OctetsAre
  <2>2. s[1] \in Octet
      BY <2>1, OctetsAre
  <2>3. \A o \in Octet : o \in Nat
      BY DEF Octet
  <2> QED BY <2>2, <2>3, Zenon
<1>2. Begun(s) \in 1..4 /\ \A n \in 2..Begun(s) : Goes(s, n)
    BY BegunIs
<1>3. CASE Begun(s) = 1
  <2>0. Wide(b) = 1
      BY <1>1, <1>3, Zenon
  <2>1. b <= 127 /\ Wide(b) = 1
      BY <2>0, WideIs
  <2>2. Decoded(s) = b
      BY <1>1, <2>1 DEF Decoded
  <2>3. b \in Char /\ b < 128
      BY <2>1 DEF Char
  <2> QED BY <1>3, <2>2, <2>3, Utf8Length
<1>4. CASE Begun(s) = 2
  <2>0. Wide(b) = 2
      BY <1>1, <1>4, Zenon
  <2>1. 194 <= b /\ b <= 223 /\ Wide(b) = 2
      BY <2>0, WideIs
  <2>2. PICK x \in Nat : x = s[2] /\ 128 <= x /\ x <= 191
    <3>1. Goes(s, 2)
        BY <1>2, <1>4
    <3> QED BY <1>1, <3>1, GoesIs
  <2>3. PICK c : c = (b - 192) * 64 + (x - 128)
      OBVIOUS
  <2>4. Decoded(s) = c
      BY <1>1, <2>1, <2>2, <2>3 DEF Decoded
  <2>5. c \in Nat /\ c >= 128 /\ c < 2048
      BY <2>1, <2>2, <2>3, FromTwo
  <2>6. c \in Char
      BY <2>5 DEF Char
  <2> QED BY <1>4, <2>4, <2>5, <2>6, Utf8Length
<1>5. CASE Begun(s) = 3
  <2>0. Wide(b) = 3
      BY <1>1, <1>5, Zenon
  <2>1. 224 <= b /\ b <= 239 /\ Wide(b) = 3
      BY <2>0, WideIs
  <2>2. PICK x \in Nat, y \in Nat :
            /\ x = s[2] /\ y = s[3]
            /\ 128 <= x /\ x <= 191 /\ 128 <= y /\ y <= 191
            /\ (b = 224 => 160 <= x) /\ (b = 237 => x <= 159)
    <3>1. Goes(s, 2) /\ Goes(s, 3)
        BY <1>2, <1>5
    <3>2. s[3] \in Nat /\ 128 <= s[3] /\ s[3] <= 191
        BY <1>1, <3>1, GoesIs
    <3>3. s[2] \in Nat /\ 128 <= s[2] /\ s[2] <= 191
          /\ (b = 224 => 160 <= s[2]) /\ (b = 237 => s[2] <= 159)
        BY <1>1, <3>1, GoesIs
    <3> QED BY <3>2, <3>3
  <2>3. PICK c : c = (b - 224) * 4096 + (x - 128) * 64 + (y - 128)
      OBVIOUS
  <2>4. Decoded(s) = c
      BY <1>1, <2>1, <2>2, <2>3 DEF Decoded
  <2>5. c \in Nat /\ c >= 2048 /\ c < 65536 /\ ~(55296 <= c /\ c <= 57343)
    <3>1. 128 <= x /\ x <= 191 /\ 128 <= y /\ y <= 191
        BY <2>2
    <3>2. (b = 224 => 160 <= x) /\ (b = 237 => x <= 159)
        BY <2>2
    <3>3. 224 <= b /\ b <= 239
        BY <2>1
    <3> QED BY <2>3, <3>1, <3>2, <3>3, FromThree
  <2>6. c \in Char
      BY <2>5 DEF Char
  <2> QED BY <1>5, <2>4, <2>5, <2>6, Utf8Length
<1>6. CASE Begun(s) = 4
  <2>0. Wide(b) = 4
      BY <1>1, <1>6, Zenon
  <2>1. 240 <= b /\ b <= 244 /\ Wide(b) = 4
      BY <2>0, WideIs
  <2>2. PICK x \in Nat, y \in Nat, z \in Nat :
            /\ x = s[2] /\ y = s[3] /\ z = s[4]
            /\ 128 <= x /\ x <= 191 /\ 128 <= y /\ y <= 191 /\ 128 <= z /\ z <= 191
            /\ (b = 240 => 144 <= x) /\ (b = 244 => x <= 143)
    <3>1. Goes(s, 2) /\ Goes(s, 3) /\ Goes(s, 4)
        BY <1>2, <1>6
    <3>2. /\ s[3] \in Nat /\ 128 <= s[3] /\ s[3] <= 191
          /\ s[4] \in Nat /\ 128 <= s[4] /\ s[4] <= 191
        BY <1>1, <3>1, GoesIs
    <3>3. s[2] \in Nat /\ 128 <= s[2] /\ s[2] <= 191
          /\ (b = 240 => 144 <= s[2]) /\ (b = 244 => s[2] <= 143)
        BY <1>1, <3>1, GoesIs
    <3> QED BY <3>2, <3>3
  <2>3. PICK c : c = (b - 240) * 262144 + (x - 128) * 4096 + (y - 128) * 64 + (z - 128)
      OBVIOUS
  <2>4. Decoded(s) = c
      BY <1>1, <2>1, <2>2, <2>3 DEF Decoded
  <2>5. c \in Nat /\ c >= 65536 /\ c <= 1114111
    <3>1. 128 <= x /\ x <= 191 /\ 128 <= y /\ y <= 191 /\ 128 <= z /\ z <= 191
        BY <2>2
    <3>2. (b = 240 => 144 <= x) /\ (b = 244 => x <= 143)
        BY <2>2
    <3>3. 240 <= b /\ b <= 244
        BY <2>1
    <3> QED BY <2>3, <3>1, <3>2, <3>3, FromFour
  <2>6. c \in Char
      BY <2>5 DEF Char
  <2> QED BY <1>6, <2>4, <2>5, <2>6, Utf8Length
<1> QED BY <1>2, <1>3, <1>4, <1>5, <1>6

\* How many bytes a character has been read from at least, and a text: U+FFFD
\* may stand for a single one.
Least(c) == IF c = Unknown THEN 1 ELSE Len(Utf8(c))
Squeezed(c) == IF c = Unknown THEN 0 ELSE c
Squeeze(t) == [k \in DOMAIN t |-> Squeezed(t[k])]
Weight(t) == Len(Encode[Squeeze(t)])

\* A character without U+FFFD.
LEMMA SqueezedIs ==
    \A c \in Char : Squeezed(c) \in Char /\ Len(Utf8(Squeezed(c))) = Least(c) /\ Least(c) \in 1..4
<1> SUFFICES ASSUME NEW c \in Char
             PROVE  /\ Squeezed(c) \in Char /\ Len(Utf8(Squeezed(c))) = Least(c)
                    /\ Least(c) \in 1..4
    OBVIOUS
<1>1. CASE c = Unknown
  <2>1. 0 \in Char /\ Squeezed(c) = 0 /\ Least(c) = 1
      BY <1>1 DEF Char, Squeezed, Least
  <2>2. Len(Utf8(0)) = 1
      BY <2>1, Utf8Length
  <2> QED BY <2>1, <2>2
<1>2. CASE c # Unknown
    BY <1>2, Utf8Type DEF Squeezed, Least
<1> QED BY <1>1, <1>2

\* Squeeze works character by character.
LEMMA SqueezeIs ==
    /\ Squeeze(<<>>) = <<>>
    /\ \A t \in Text : Squeeze(t) \in Text
    /\ \A c \in Char, t \in Text : Squeeze(<<c>> \o t) = <<Squeezed(c)>> \o Squeeze(t)
<1>1. Squeeze(<<>>) = <<>>
    BY DEF Squeeze
<1>2. ASSUME NEW t \in Seq(Char)
      PROVE  /\ Squeeze(t) \in Seq(Char) /\ Len(Squeeze(t)) = Len(t)
             /\ \A k \in 1..Len(t) : Squeeze(t)[k] = Squeezed(t[k])
  <2>1. PICK n \in Nat : n = Len(t) /\ DOMAIN t = 1..n
      OBVIOUS
  <2>2. \A k \in 1..n : t[k] \in Char
      BY <2>1
  <2>3. \A k \in 1..n : Squeezed(t[k]) \in Char
      BY <2>2, SqueezedIs
  <2>4. Squeeze(t) = [k \in 1..n |-> Squeezed(t[k])]
      BY <2>1 DEF Squeeze
  <2>5. [k \in 1..n |-> Squeezed(t[k])] \in Seq(Char)
      BY <2>3, IsASeq
  <2> QED BY <2>1, <2>4, <2>5
<1>3. ASSUME NEW c \in Char, NEW t \in Seq(Char)
      PROVE  Squeeze(<<c>> \o t) = <<Squeezed(c)>> \o Squeeze(t)
  <2>1. PICK n \in Nat : n = Len(t)
      OBVIOUS
  <2>2. PICK s, u : s = <<c>> \o t /\ u = <<Squeezed(c)>> \o Squeeze(t)
      OBVIOUS
  <2>3. <<c>> \in Seq(Char) /\ <<Squeezed(c)>> \in Seq(Char) /\ Squeeze(t) \in Seq(Char)
      BY <1>2, SqueezedIs
  <2>4. /\ s \in Seq(Char) /\ Len(s) = 1 + n
        /\ \A i \in 1..(1 + n) : s[i] = IF i <= 1 THEN c ELSE t[i - 1]
      BY <2>1, <2>2, <2>3, ConcatProperties
  <2>5. Len(Squeeze(t)) = n /\ \A k \in 1..n : Squeeze(t)[k] = Squeezed(t[k])
      BY <1>2, <2>1
  <2>6. /\ u \in Seq(Char) /\ Len(u) = 1 + n
        /\ \A i \in 1..(1 + n) : u[i] = IF i <= 1 THEN Squeezed(c) ELSE Squeeze(t)[i - 1]
      BY <2>2, <2>3, <2>5, ConcatProperties
  <2>7. Squeeze(s) \in Seq(Char) /\ Len(Squeeze(s)) = 1 + n
        /\ \A k \in 1..(1 + n) : Squeeze(s)[k] = Squeezed(s[k])
      BY <1>2, <2>4
  <2>8. \A i \in 1..(1 + n) : Squeeze(s)[i] = u[i]
    <3>1. ASSUME NEW i \in 1..(1 + n) PROVE Squeeze(s)[i] = u[i]
      <4>1. CASE i = 1
          BY <2>4, <2>6, <2>7, <4>1
      <4>2. CASE i # 1
        <5>1. ~(i <= 1) /\ i - 1 \in 1..n
            BY <4>2
        <5> QED BY <2>4, <2>5, <2>6, <2>7, <5>1
      <4> QED BY <4>1, <4>2
    <3> QED BY <3>1
  <2>9. Squeeze(s) = u
      BY <2>6, <2>7, <2>8, SeqEqual
  <2> QED BY <2>2, <2>9
<1> QED BY <1>1, <1>2, <1>3 DEF Text

\* A character in front adds its bytes to the weight.
LEMMA WeightIs ==
    /\ Weight(<<>>) = 0
    /\ \A t \in Text : Weight(t) \in Nat
    /\ \A c \in Char, t \in Text : Weight(<<c>> \o t) = Least(c) + Weight(t)
<1>1. Weight(<<>>) = 0
    BY SqueezeIs, EncodeIs DEF Weight
<1>2. \A t \in Text : Weight(t) \in Nat
    BY SqueezeIs, EncodeIs, OctetsAre DEF Weight
<1>3. ASSUME NEW c \in Char, NEW t \in Text PROVE Weight(<<c>> \o t) = Least(c) + Weight(t)
  <2>1. PICK b \in Char, u \in Text : b = Squeezed(c) /\ u = Squeeze(t)
      BY SqueezedIs, SqueezeIs
  <2>2. Encode[Squeeze(<<c>> \o t)] = Utf8(b) \o Encode[u]
    <3>1. Squeeze(<<c>> \o t) = <<b>> \o u
        BY <2>1, SqueezeIs
    <3>2. Encode[<<b>> \o u] = Utf8(b) \o Encode[u]
        BY EncodeIs
    <3> QED BY <3>1, <3>2, Zenon
  <2>3. Len(Utf8(b) \o Encode[u]) = Len(Utf8(b)) + Len(Encode[u])
      BY EncodeIs, Utf8Type, OctetsJoin
  <2> QED BY <2>1, <2>2, <2>3, SqueezedIs DEF Weight
<1> QED BY <1>1, <1>2, <1>3

\* What Lossy makes of what has begun as a character, and what is left then.
CharOf(s) == IF Begun(s) = Wide(s[1]) THEN Decoded(s) ELSE Unknown
AfterChar(s) == SubSeq(s, Begun(s) + 1, Len(s))

\* It is a character of no more bytes, and what is left is shorter by them.
LEMMA CharOfIs ==
    ASSUME NEW s \in Octets, s # <<>>
    PROVE  /\ CharOf(s) \in Char /\ Least(CharOf(s)) <= Begun(s)
           /\ AfterChar(s) \in Octets /\ Len(s) = Begun(s) + Len(AfterChar(s))
<1>1. PICK n \in Nat : n = Begun(s) /\ n >= 1 /\ n <= Len(s)
    BY BegunIs
<1>2. /\ CharOf(s) \in Char /\ Least(CharOf(s)) <= n
  <2>1. CASE n = Wide(s[1])
    <3>1. CharOf(s) \in Char /\ Len(Utf8(CharOf(s))) = n
        BY <1>1, <2>1, DecodedIs DEF CharOf
    <3> QED BY <1>1, <3>1 DEF Least
  <2>2. CASE n # Wide(s[1])
    <3>1. CharOf(s) = Unknown
        BY <1>1, <2>2 DEF CharOf
    <3>2. Unknown \in Char
        BY DEF Unknown, Char
    <3> QED BY <1>1, <3>1, <3>2 DEF Least
  <2> QED BY <2>1, <2>2
<1>3. PICK l \in Nat : l = Len(s)
    BY OctetsAre
<1>4. \A i \in (n + 1)..l : s[i] \in Octet
  <2>1. \A i \in (n + 1)..l : i \in Nat /\ i >= 1 /\ i <= l
      BY <1>1
  <2> QED BY <1>3, <2>1, OctetsAre
<1>5. /\ SubSeq(s, n + 1, l) \in Seq(Octet)
      /\ Len(SubSeq(s, n + 1, l)) = IF n + 1 <= l THEN l - (n + 1) + 1 ELSE 0
    BY <1>4, SubSeqProperties
<1>6. n + Len(SubSeq(s, n + 1, l)) = l
    BY <1>1, <1>3, <1>5
<1> QED BY <1>1, <1>2, <1>3, <1>5, <1>6 DEF AfterChar, Octets

\* Lossy reads one character at a time: its equations.
LEMMA LossyIs ==
    /\ \A s \in Octets : Lossy[s] \in Text /\ Weight(Lossy[s]) <= Len(s)
    /\ Lossy[<<>>] = <<>>
    /\ \A s \in Octets : s # <<>> => Lossy[s] = <<CharOf(s)>> \o Lossy[AfterChar(s)]
<1> DEFINE Body(h, s) == IF s = <<>> THEN <<>> ELSE <<CharOf(s)>> \o h[AfterChar(s)]
           Solution(h) == h = [s \in Octets |-> Body(h, s)]
<1>0. \A s \in Octets : s # <<>> =>
          CharOf(s) \in Char /\ AfterChar(s) \in Octets /\ Len(AfterChar(s)) < Len(s)
  <2>1. ASSUME NEW s \in Octets, s # <<>>
        PROVE  CharOf(s) \in Char /\ AfterChar(s) \in Octets /\ Len(AfterChar(s)) < Len(s)
    <3>1. PICK n \in Nat, m \in Nat : n = Begun(s) /\ n >= 1 /\ m = Len(AfterChar(s))
        BY <2>1, BegunIs, CharOfIs, OctetsAre
    <3>2. Len(s) = n + m /\ m < n + m
        BY <2>1, <3>1, CharOfIs
    <3> QED BY <2>1, <3>1, <3>2, CharOfIs
  <2> QED BY <2>1
<1>1. \E f \in [Octets -> Text] : Solution(f)
  <2>1. PICK D, V, rank, B :
            /\ D = Octets /\ V = Text /\ rank = [s \in Octets |-> Len(s)]
            /\ B = [f \in [D -> V] |-> [s \in D |-> Body(f, s)]]
      OBVIOUS
  <2>2. <<>> \in V /\ rank \in [D -> Nat]
      BY <2>1, LengthRank DEF Text, Octets
  <2>3. \A s \in D : s # <<>> => /\ AfterChar(s) \in D /\ CharOf(s) \in Char
                                 /\ rank[AfterChar(s)] < rank[s]
      BY <1>0, <2>1
  <2>4. B \in [[D -> V] -> [D -> V]]
    <3>1. ASSUME NEW f \in [D -> V], NEW s \in D PROVE Body(f, s) \in V
      <4>1. CASE s = <<>>
          BY <2>2, <4>1
      <4>2. CASE s # <<>>
        <5>1. f[AfterChar(s)] \in Seq(Char) /\ CharOf(s) \in Char
            BY <2>1, <2>3, <4>2 DEF Text
        <5>2. <<CharOf(s)>> \o f[AfterChar(s)] \in Seq(Char)
            BY <5>1, FirstAndRest
        <5> QED BY <2>1, <4>2, <5>2 DEF Text
      <4> QED BY <4>1, <4>2
    <3> HIDE DEF Body
    <3> QED BY <2>1, <3>1
  <2>5. \A f, g \in [D -> V], x \in D :
            (\A y \in D : rank[y] < rank[x] => f[y] = g[y]) => B[f][x] = B[g][x]
    <3>1. ASSUME NEW f \in [D -> V], NEW g \in [D -> V], NEW x \in D,
                 \A y \in D : rank[y] < rank[x] => f[y] = g[y]
          PROVE  B[f][x] = B[g][x]
      <4>1. x # <<>> => f[AfterChar(x)] = g[AfterChar(x)]
          BY <2>3, <3>1
      <4>2. Body(f, x) = Body(g, x)
          BY <4>1
      <4> HIDE DEF Body
      <4> QED BY <2>1, <4>2
    <3> QED BY <3>1
  <2>6. FromLower(D, V, rank, B)
      BY <2>2, <2>4, <2>5 DEF FromLower
  <2>7. \E f \in [D -> V] : f = B[f]
      BY <2>6, Recursion
  <2> QED BY <2>1, <2>7
<1>2. Lossy = CHOOSE h : Solution(h)
    BY DEF Lossy, CharOf, AfterChar
<1> HIDE DEF Solution
<1>3. Solution(Lossy)
    BY <1>1, <1>2
<1>4. \A s \in Octets : Lossy[s] = Body(Lossy, s)
  <2> HIDE DEF Body
  <2> QED BY <1>3 DEF Solution
<1>5. Lossy[<<>>] = <<>>
    BY <1>4, OctetsAre
<1>6. \A s \in Octets : Lossy[s] \in Text /\ Weight(Lossy[s]) <= Len(s)
  <2>1. PICK T, rank : /\ T = {s \in Octets : Lossy[s] \in Text /\ Weight(Lossy[s]) <= Len(s)}
                       /\ rank = [s \in Octets |-> Len(s)]
      OBVIOUS
  <2>2. ASSUME NEW s \in Octets, \A t \in Octets : rank[t] < rank[s] => t \in T
        PROVE  s \in T
    <3>1. CASE s = <<>>
      <4>1. <<>> \in Text /\ Len(<<>>) = 0
          BY DEF Text
      <4>2. Lossy[s] \in Text /\ Weight(Lossy[s]) = 0 /\ Len(s) = 0
          BY <1>5, <3>1, <4>1, WeightIs
      <4> QED BY <2>1, <4>2
    <3>2. CASE s # <<>>
      <4>1. PICK c \in Char, t \in Octets : c = CharOf(s) /\ t = AfterChar(s)
          BY <1>0, <3>2
      <4>2. rank[t] < rank[s]
          BY <1>0, <2>1, <3>2, <4>1
      <4>3. Lossy[t] \in Text /\ Weight(Lossy[t]) <= Len(t)
          BY <2>1, <2>2, <4>2
      <4>4. Lossy[s] = <<c>> \o Lossy[t]
          BY <1>4, <3>2, <4>1
      <4>5. Lossy[s] \in Text /\ Weight(Lossy[s]) = Least(c) + Weight(Lossy[t])
          BY <4>3, <4>4, FirstAndRest, WeightIs DEF Text
      <4>6. PICK a \in Nat, b \in Nat, m \in Nat, n \in Nat :
                a = Least(c) /\ b = Weight(Lossy[t]) /\ m = Begun(s) /\ n = Len(t)
          BY <3>2, <4>3, WeightIs, SqueezedIs, BegunIs, OctetsAre
      <4>7. a <= m /\ b <= n /\ Len(s) = m + n
          BY <3>2, <4>1, <4>3, <4>6, CharOfIs
      <4>8. a + b <= m + n
          BY <4>7
      <4>9. Weight(Lossy[s]) <= Len(s)
          BY <4>5, <4>6, <4>7, <4>8
      <4> QED BY <2>1, <4>5, <4>9
    <3> QED BY <3>1, <3>2
  <2>3. rank \in [Octets -> Nat]
      BY <2>1
  <2>4. Octets \subseteq T
      BY <2>2, <2>3, RankInduction
  <2> QED BY <2>1, <2>4
<1> QED BY <1>4, <1>5, <1>6

Reads == Octets \X Nat \X SUBSET Targets
Readings == [ok : BOOLEAN, text : Text, next : Nat]

\* What Name does at <<d, o, v>>, in parts: the target of a pointer, whether it
\* is followed, and whether a label is taken.
Target(d, o) == (Byte(d, o) % 64) * 256 + Byte(d, o + 1)
Follows(d, o, v) ==
    /\ o + 1 < Len(d) /\ Byte(d, o) >= 192
    /\ Target(d, o) \notin v /\ Cardinality(v) <= MaxPointers
TakesLabel(d, o) ==
    o < Len(d) /\ Byte(d, o) \in 1..63 /\ o + 1 + Byte(d, o) <= Len(d)
Joined(label, text) == label \o (IF text = <<>> THEN <<>> ELSE <<Dot>> \o text)

NameBody(h, d, o, v) ==
    IF o >= Len(d) THEN NoName
    ELSE IF Byte(d, o) = 0 THEN [ok |-> TRUE, text |-> <<>>, next |-> o + 1]
    ELSE IF Byte(d, o) >= 192
    THEN IF \/ o + 1 >= Len(d) \/ Target(d, o) \in v
            \/ Cardinality(v) > MaxPointers \/ ~h[<<d, Target(d, o), v \cup {Target(d, o)}>>].ok
         THEN NoName
         ELSE [h[<<d, Target(d, o), v \cup {Target(d, o)}>>] EXCEPT !.next = o + 2]
    ELSE IF Byte(d, o) >= 64 \/ o + 1 + Byte(d, o) > Len(d)
            \/ ~h[<<d, o + 1 + Byte(d, o), v>>].ok THEN NoName
    ELSE [h[<<d, o + 1 + Byte(d, o), v>>] EXCEPT
             !.text = Lossy[Slice(d, o + 1, Byte(d, o))]
                      \o (IF @ = <<>> THEN <<>> ELSE <<Dot>> \o @)]

\* Name is chosen as a solution of NameBody: the form the theorem on recursion wants.
LEMMA NameDef ==
    Name = CHOOSE h : h = [at \in Reads |-> NameBody(h, at[1], at[2], at[3])]
BY DEF Name, Reads, NameBody, Target

\* A slice inside the data has the bytes of the data, shifted.
LEMMA SliceType ==
    ASSUME NEW d \in Octets, NEW o \in Nat, NEW n \in Nat, o + n <= Len(d)
    PROVE  /\ Slice(d, o, n) \in Octets /\ Len(Slice(d, o, n)) = n
           /\ \A k \in 1..n : Slice(d, o, n)[k] = d[o + k]
<1>1. PICK l \in Nat : l = Len(d)
    BY OctetsAre
<1>2. PICK a, b : a = o + 1 /\ b = o + n
    OBVIOUS
<1>3. \A i \in a..b : d[i] \in Octet
  <2>1. ASSUME NEW i \in a..b PROVE d[i] \in Octet
    <3>1. i \in Nat /\ i >= 1 /\ i <= l
        BY <1>1, <1>2
    <3> QED BY <1>1, <3>1, OctetsAre
  <2> QED BY <2>1
<1>4. /\ SubSeq(d, a, b) \in Seq(Octet)
      /\ Len(SubSeq(d, a, b)) = IF a <= b THEN b - a + 1 ELSE 0
      /\ \A i \in 1..(b - a + 1) : SubSeq(d, a, b)[i] = d[a + i - 1]
  <2>1. a \in Int /\ b \in Int
      BY <1>2
  <2> QED BY <1>3, <2>1, SubSeqProperties
<1>5. Slice(d, o, n) = SubSeq(d, a, b)
    BY <1>2 DEF Slice
<1>6. Len(SubSeq(d, a, b)) = n
    BY <1>2, <1>4
<1>7. \A k \in 1..n : SubSeq(d, a, b)[k] = d[o + k]
  <2>1. ASSUME NEW k \in 1..n PROVE SubSeq(d, a, b)[k] = d[o + k]
    <3>1. k \in 1..(b - a + 1) /\ a + k - 1 = o + k
        BY <1>2
    <3> QED BY <1>4, <3>1
  <2> QED BY <2>1
<1> QED BY <1>4, <1>5, <1>6, <1>7 DEF Octets

\* A byte and a pointer's target are in range where the data reaches.
LEMMA ByteType ==
    ASSUME NEW d \in Octets, NEW o \in Nat
    PROVE  /\ o < Len(d) => Byte(d, o) \in 0..255
           /\ o + 1 < Len(d) => Target(d, o) \in Targets /\ Target(d, o) \in Nat
<1>1. PICK l \in Nat : l = Len(d)
    BY OctetsAre
<1>2. ASSUME NEW n \in Nat, n < l PROVE Byte(d, n) \in 0..255
  <2>1. n + 1 \in Nat /\ n + 1 >= 1 /\ n + 1 <= l
      BY <1>2
  <2> QED BY <1>1, <2>1, OctetsAre DEF Byte, Octet
<1>3. ASSUME o + 1 < l PROVE Target(d, o) \in Targets
  <2>1. PICK a, b : a = Byte(d, o) /\ b = Byte(d, o + 1)
      OBVIOUS
  <2>2. a \in 0..255 /\ b \in 0..255
    <3>1. o + 1 \in Nat /\ o < l
        BY <1>3
    <3> QED BY <1>2, <1>3, <2>1, <3>1
  <2>3. (a % 64) * 256 + b \in 0..16383
      BY <2>2
  <2>4. Target(d, o) = (a % 64) * 256 + b
      BY <2>1 DEF Target
  <2> QED BY <2>3, <2>4 DEF Targets
<1>4. Targets \subseteq Nat
    BY DEF Targets
<1> QED BY <1>1, <1>2, <1>3, <1>4

PointersLeft(v) == IF Cardinality(v) > MaxPointers THEN 0 ELSE MaxPointers + 1 - Cardinality(v)
BytesLeft(d, o) == IF o < Len(d) THEN Len(d) - o ELSE 0
ReadRank == [at \in Reads |-> PointersLeft(at[3]) * (Len(at[1]) + 1) + BytesLeft(at[1], at[2])]

\* Visiting one more target leaves one pointer fewer.
LEMMA VisitedCount ==
    ASSUME NEW v \in SUBSET Targets
    PROVE  /\ IsFiniteSet(v) /\ Cardinality(v) \in Nat /\ PointersLeft(v) \in Nat
           /\ \A t \in Targets : t \notin v /\ Cardinality(v) <= MaxPointers =>
                 PointersLeft(v \cup {t}) + 1 = PointersLeft(v)
<1>1. IsFiniteSet(v)
  <2>1. IsFiniteSet(Targets)
    <3>1. PICK a \in Int, b \in Int : a = 0 /\ b = 16383
        OBVIOUS
    <3>2. IsFiniteSet(a..b)
        BY FS_Interval
    <3>3. Targets = a..b
        BY <3>1 DEF Targets
    <3> QED BY <3>2, <3>3
  <2> QED BY <2>1, FS_Subset
<1>2. Cardinality(v) \in Nat
    BY <1>1, FS_CardinalityType
<1>3. ASSUME NEW t \in Targets, t \notin v, Cardinality(v) <= MaxPointers
      PROVE  PointersLeft(v \cup {t}) + 1 = PointersLeft(v)
  <2>1. Cardinality(v \cup {t}) = Cardinality(v) + 1
      BY <1>1, <1>3, FS_AddElement
  <2> QED BY <1>2, <1>3, <2>1, CodecAssumption DEF PointersLeft
<1> QED BY <1>1, <1>2, <1>3, CodecAssumption DEF PointersLeft

\* A followed pointer and a taken label each lower the rank of the read that remains.
LEMMA ReadRankFalls ==
    /\ ReadRank \in [Reads -> Nat]
    /\ \A d \in Octets, o \in Nat, v \in SUBSET Targets :
          /\ <<d, o, v>> \in Reads
          /\ Follows(d, o, v) =>
                /\ <<d, Target(d, o), v \cup {Target(d, o)}>> \in Reads
                /\ ReadRank[<<d, Target(d, o), v \cup {Target(d, o)}>>] < ReadRank[<<d, o, v>>]
          /\ TakesLabel(d, o) =>
                /\ <<d, o + 1 + Byte(d, o), v>> \in Reads
                /\ ReadRank[<<d, o + 1 + Byte(d, o), v>>] < ReadRank[<<d, o, v>>]
<1>1. ASSUME NEW d \in Octets, NEW o \in Nat, NEW v \in SUBSET Targets
      PROVE  /\ <<d, o, v>> \in Reads
             /\ ReadRank[<<d, o, v>>] = PointersLeft(v) * (Len(d) + 1) + BytesLeft(d, o)
             /\ BytesLeft(d, o) \in 0..Len(d)
             /\ PointersLeft(v) * (Len(d) + 1) \in Nat
             /\ PointersLeft(v) \in Nat
  <2>1. <<d, o, v>> \in Reads
      BY DEF Reads
  <2>2. BytesLeft(d, o) \in 0..Len(d)
      BY DEF BytesLeft
  <2>3. PointersLeft(v) \in Nat /\ Len(d) + 1 \in Nat
      BY VisitedCount
  <2>4. PointersLeft(v) * (Len(d) + 1) \in Nat
      BY <2>3
  <2> QED BY <2>1, <2>2, <2>3, <2>4 DEF ReadRank
<1>2. ReadRank \in [Reads -> Nat]
  <2>1. ASSUME NEW at \in Reads
        PROVE  PointersLeft(at[3]) * (Len(at[1]) + 1) + BytesLeft(at[1], at[2]) \in Nat
    <3>1. PICK d, o, v : d = at[1] /\ o = at[2] /\ v = at[3]
        OBVIOUS
    <3>2. d \in Octets /\ o \in Nat /\ v \in SUBSET Targets
        BY <3>1 DEF Reads
    <3>3. PICK n : n = PointersLeft(v) * (Len(d) + 1)
        OBVIOUS
    <3>4. n \in Nat /\ BytesLeft(d, o) \in Nat
      <4>1. BytesLeft(d, o) \in 0..Len(d) /\ n \in Nat
          BY <1>1, <3>2, <3>3
      <4> QED BY <4>1
    <3>5. n + BytesLeft(d, o) \in Nat
        BY <3>4
    <3> QED BY <3>1, <3>3, <3>5
  <2> QED BY <2>1 DEF ReadRank
<1>3. ASSUME NEW d \in Octets, NEW o \in Nat, NEW v \in SUBSET Targets, Follows(d, o, v)
      PROVE  /\ <<d, Target(d, o), v \cup {Target(d, o)}>> \in Reads
             /\ ReadRank[<<d, Target(d, o), v \cup {Target(d, o)}>>] < ReadRank[<<d, o, v>>]
  <2>1. PICK t, w : t = Target(d, o) /\ w = v \cup {t}
      OBVIOUS
  <2>2. t \in Nat /\ w \in SUBSET Targets /\ t \in Targets
      BY <1>3, <2>1, ByteType DEF Follows
  <2>3. PointersLeft(w) + 1 = PointersLeft(v)
      BY <1>3, <2>1, <2>2, VisitedCount DEF Follows
  <2>4. PICK p, q, m : p = PointersLeft(v) /\ q = PointersLeft(w) /\ m = Len(d) + 1
      OBVIOUS
  <2>5. p \in Nat /\ q \in Nat /\ m \in Nat /\ p = q + 1 /\ m = Len(d) + 1
    <3>1. p \in Nat /\ q \in Nat
        BY <2>2, <2>4, VisitedCount
    <3> QED BY <2>3, <2>4, <3>1
  <2>6. p * m = q * m + m
      BY <2>5
  <2>7. /\ ReadRank[<<d, o, v>>] = p * m + BytesLeft(d, o)
        /\ ReadRank[<<d, t, w>>] = q * m + BytesLeft(d, t)
        /\ BytesLeft(d, o) \in 0..Len(d) /\ BytesLeft(d, t) \in 0..Len(d)
        /\ q * m \in Nat /\ p * m \in Nat
      BY <1>1, <2>2, <2>4
  <2>8. ReadRank[<<d, t, w>>] < ReadRank[<<d, o, v>>]
    <3>1. PICK x, y, z, u : x = p * m /\ y = q * m /\ z = BytesLeft(d, o) /\ u = BytesLeft(d, t)
        OBVIOUS
    <3>2. x = y + m /\ y \in Nat /\ z \in 0..Len(d) /\ u \in 0..Len(d)
        BY <2>6, <2>7, <3>1
    <3>3. y + u < x + z
        BY <2>5, <3>2
    <3> QED BY <2>7, <3>1, <3>3
  <2> QED BY <1>1, <2>1, <2>2, <2>8
<1>4. ASSUME NEW d \in Octets, NEW o \in Nat, NEW v \in SUBSET Targets, TakesLabel(d, o)
      PROVE  /\ <<d, o + 1 + Byte(d, o), v>> \in Reads
             /\ ReadRank[<<d, o + 1 + Byte(d, o), v>>] < ReadRank[<<d, o, v>>]
  <2>1. PICK n : n = o + 1 + Byte(d, o)
      OBVIOUS
  <2>2. n \in Nat /\ n > o /\ n <= Len(d) /\ o < Len(d) /\ Len(d) \in Nat
    <3>1. PICK b \in 1..63 : b = Byte(d, o)
        BY <1>4 DEF TakesLabel
    <3>2. n = o + 1 + b /\ o < Len(d) /\ n <= Len(d)
        BY <1>4, <2>1, <3>1 DEF TakesLabel
    <3>3. Len(d) \in Nat
        OBVIOUS
    <3> QED BY <3>2, <3>3
  <2>3. BytesLeft(d, n) < BytesLeft(d, o)
      BY <2>2 DEF BytesLeft
  <2> QED BY <1>1, <2>1, <2>2, <2>3
<1> QED BY <1>1, <1>2, <1>3, <1>4

\* The same by its cases.
NameCases(h, d, o, v) ==
    IF o < Len(d) /\ Byte(d, o) = 0 THEN [ok |-> TRUE, text |-> <<>>, next |-> o + 1]
    ELSE IF Follows(d, o, v) /\ h[<<d, Target(d, o), v \cup {Target(d, o)}>>].ok
    THEN [h[<<d, Target(d, o), v \cup {Target(d, o)}>>] EXCEPT !.next = o + 2]
    ELSE IF TakesLabel(d, o) /\ h[<<d, o + 1 + Byte(d, o), v>>].ok
    THEN [h[<<d, o + 1 + Byte(d, o), v>>] EXCEPT
             !.text = Lossy[Slice(d, o + 1, Byte(d, o))]
                      \o (IF @ = <<>> THEN <<>> ELSE <<Dot>> \o @)]
    ELSE NoName

\* NameBody by cases: a pointer, the root, a label, or a failure.
LEMMA NameByCases ==
    ASSUME NEW d \in Octets, NEW o \in Nat, NEW v \in SUBSET Targets, NEW h
    PROVE  NameBody(h, d, o, v) = NameCases(h, d, o, v)
<1> DEFINE sub == h[<<d, Target(d, o), v \cup {Target(d, o)}>>]
           rest == h[<<d, o + 1 + Byte(d, o), v>>]
           Followed == [sub EXCEPT !.next = o + 2]
           Longer == [rest EXCEPT !.text = Lossy[Slice(d, o + 1, Byte(d, o))]
                                           \o (IF @ = <<>> THEN <<>> ELSE <<Dot>> \o @)]
           Root == [ok |-> TRUE, text |-> <<>>, next |-> o + 1]
<1>1. NameBody(h, d, o, v) =
          IF o >= Len(d) THEN NoName
          ELSE IF Byte(d, o) = 0 THEN Root
          ELSE IF Byte(d, o) >= 192
          THEN IF \/ o + 1 >= Len(d) \/ Target(d, o) \in v
                  \/ Cardinality(v) > MaxPointers \/ ~sub.ok THEN NoName ELSE Followed
          ELSE IF Byte(d, o) >= 64 \/ o + 1 + Byte(d, o) > Len(d) \/ ~rest.ok THEN NoName
          ELSE Longer
    BY DEF NameBody
<1>2. NameCases(h, d, o, v) =
          IF o < Len(d) /\ Byte(d, o) = 0 THEN Root
          ELSE IF Follows(d, o, v) /\ sub.ok THEN Followed
          ELSE IF TakesLabel(d, o) /\ rest.ok THEN Longer
          ELSE NoName
    BY DEF NameCases
<1> HIDE DEF sub, rest, Followed, Longer, Root
<1>3. Len(d) \in Nat /\ Cardinality(v) \in Nat /\ MaxPointers \in Nat
    BY VisitedCount, CodecAssumption
<1>4. o < Len(d) => Byte(d, o) \in 0..255
    BY ByteType
<1>5. PICK b, t, l : b = Byte(d, o) /\ t = Target(d, o) /\ l = Len(d)
    OBVIOUS
<1>11. l \in Nat /\ (o < l => b \in 0..255)
    BY <1>3, <1>4, <1>5
<1>6. TakesLabel(d, o) <=> o < l /\ b \in 1..63 /\ o + 1 + b <= l
    BY <1>5 DEF TakesLabel
<1>7. Follows(d, o, v) <=> o + 1 < l /\ b >= 192 /\ t \notin v /\ Cardinality(v) <= MaxPointers
    BY <1>5 DEF Follows
<1>8. CASE o >= l
  <2>1. ~(o < l) /\ ~Follows(d, o, v) /\ ~TakesLabel(d, o)
      BY <1>6, <1>7, <1>8, <1>11
  <2> QED BY <1>1, <1>2, <1>5, <1>8, <2>1
<1>9. CASE o < l /\ b = 0
  <2>1. ~(o >= l)
      BY <1>9, <1>11
  <2> QED BY <1>1, <1>2, <1>5, <1>9, <2>1
<1>10. CASE o < l /\ b >= 192
  <2>1. ~(o >= l) /\ b # 0 /\ ~TakesLabel(d, o)
      BY <1>6, <1>10, <1>11
  <2>2. Follows(d, o, v) <=> ~(o + 1 >= l \/ t \in v \/ Cardinality(v) > MaxPointers)
      BY <1>3, <1>7, <1>10, <1>11
  <2> QED BY <1>1, <1>2, <1>5, <1>10, <2>1, <2>2
<1>12. CASE o < l /\ b # 0 /\ b < 192
  <2>1. ~(o >= l) /\ ~(b >= 192) /\ ~Follows(d, o, v)
      BY <1>7, <1>11, <1>12
  <2>2. TakesLabel(d, o) <=> ~(b >= 64 \/ o + 1 + b > l)
      BY <1>6, <1>11, <1>12
  <2> QED BY <1>1, <1>2, <1>5, <1>12, <2>1, <2>2
<1>13. o >= l \/ (o < l /\ (b = 0 \/ b >= 192 \/ (b # 0 /\ b < 192)))
    BY <1>11
<1> QED BY <1>8, <1>9, <1>10, <1>12, <1>13

\* A label before a name is a text.
LEMMA JoinedType ==
    ASSUME NEW label \in Text, NEW text \in Text
    PROVE  Joined(label, text) \in Text
<1>1. Dot \in Char
    BY DEF Dot, Char
<1>2. label \in Seq(Char) /\ text \in Seq(Char) /\ <<Dot>> \in Seq(Char)
    BY <1>1 DEF Text
<1>3. label \o <<>> \in Seq(Char) /\ label \o (<<Dot>> \o text) \in Seq(Char)
    BY <1>2
<1> QED BY <1>3 DEF Joined, Text

\* A case whose continuation is a reading gives a reading.
LEMMA NameCasesType ==
    ASSUME NEW d \in Octets, NEW o \in Nat, NEW v \in SUBSET Targets, NEW h,
           Follows(d, o, v) => h[<<d, Target(d, o), v \cup {Target(d, o)}>>] \in Readings,
           TakesLabel(d, o) => h[<<d, o + 1 + Byte(d, o), v>>] \in Readings
    PROVE  NameCases(h, d, o, v) \in Readings
<1> DEFINE sub == h[<<d, Target(d, o), v \cup {Target(d, o)}>>]
           rest == h[<<d, o + 1 + Byte(d, o), v>>]
<1>1. <<>> \in Text /\ o + 1 \in Nat /\ o + 2 \in Nat
    BY LengthRank DEF Text, Octets
<1>2. NoName \in Readings /\ [ok |-> TRUE, text |-> <<>>, next |-> o + 1] \in Readings
    BY <1>1 DEF NoName, Readings
<1>3. ASSUME Follows(d, o, v) PROVE [sub EXCEPT !.next = o + 2] \in Readings
    BY <1>1, <1>3 DEF Readings
<1>4. ASSUME TakesLabel(d, o)
      PROVE  [rest EXCEPT !.text = Lossy[Slice(d, o + 1, Byte(d, o))]
                                   \o (IF @ = <<>> THEN <<>> ELSE <<Dot>> \o @)] \in Readings
  <2>1. PICK label : label = Lossy[Slice(d, o + 1, Byte(d, o))]
      OBVIOUS
  <2>2. label \in Text
    <3>1. PICK a, b : a \in Nat /\ a = o + 1 /\ b = Byte(d, o)
        BY <1>1
    <3>2. b \in 1..63 /\ a + b <= Len(d)
        BY <1>4, <3>1 DEF TakesLabel
    <3>3. b \in Nat
        BY <3>2
    <3>4. Slice(d, a, b) \in Octets
        BY <3>1, <3>2, <3>3, SliceType
    <3> QED BY <2>1, <3>1, <3>4, LossyIs
  <2>3. rest \in Readings /\ rest.text \in Text
      BY <1>4 DEF Readings
  <2>4. PICK r : r = rest
      OBVIOUS
  <2>5. Joined(label, r.text) \in Text
      BY <2>2, <2>3, <2>4, JoinedType
  <2>6. [r EXCEPT !.text = Joined(label, r.text)] \in Readings
      BY <2>3, <2>4, <2>5 DEF Readings
  <2> QED BY <2>1, <2>4, <2>6 DEF Joined
<1> QED BY <1>2, <1>3, <1>4 DEF NameCases

\* A case looks at no other read than its continuation.
LEMMA NameCasesSame ==
    ASSUME NEW d, NEW o, NEW v, NEW h, NEW g,
           Follows(d, o, v) => h[<<d, Target(d, o), v \cup {Target(d, o)}>>]
                               = g[<<d, Target(d, o), v \cup {Target(d, o)}>>],
           TakesLabel(d, o) => h[<<d, o + 1 + Byte(d, o), v>>] = g[<<d, o + 1 + Byte(d, o), v>>]
    PROVE  NameCases(h, d, o, v) = NameCases(g, d, o, v)
BY DEF NameCases

\* What Name reads, for any packet, offset and pointers followed before.
LEMMA NameIs ==
    \A d \in Octets, o \in Nat, v \in SUBSET Targets :
        /\ Name[<<d, o, v>>] \in Readings
        /\ Name[<<d, o, v>>] = NameCases(Name, d, o, v)
<1> DEFINE Solution(h) == h = [at \in Reads |-> NameBody(h, at[1], at[2], at[3])]
<1>1. \E h \in [Reads -> Readings] : Solution(h)
  <2>1. PICK D, V, rank, B :
            /\ D = Reads /\ V = Readings /\ rank = ReadRank
            /\ B = [f \in [D -> V] |-> [at \in D |-> NameBody(f, at[1], at[2], at[3])]]
      OBVIOUS
  <2>2. ASSUME NEW f \in [D -> V], NEW at \in D
        PROVE  NameBody(f, at[1], at[2], at[3]) \in V
    <3>1. PICK d \in Octets, o \in Nat, v \in SUBSET Targets :
              d = at[1] /\ o = at[2] /\ v = at[3]
        BY <2>1 DEF Reads
    <3>2. /\ Follows(d, o, v) => f[<<d, Target(d, o), v \cup {Target(d, o)}>>] \in Readings
          /\ TakesLabel(d, o) => f[<<d, o + 1 + Byte(d, o), v>>] \in Readings
        BY <2>1, ReadRankFalls
    <3>3. NameCases(f, d, o, v) \in Readings
        BY <3>2, NameCasesType
    <3>4. NameBody(f, d, o, v) = NameCases(f, d, o, v)
        BY NameByCases
    <3> QED BY <2>1, <3>1, <3>3, <3>4
  <2>3. ASSUME NEW f \in [D -> V], NEW g \in [D -> V], NEW x \in D,
               \A y \in D : rank[y] < rank[x] => f[y] = g[y]
        PROVE  B[f][x] = B[g][x]
    <3>1. PICK d \in Octets, o \in Nat, v \in SUBSET Targets :
              d = x[1] /\ o = x[2] /\ v = x[3] /\ x = <<d, o, v>>
        BY <2>1 DEF Reads
    <3>2. /\ Follows(d, o, v) => f[<<d, Target(d, o), v \cup {Target(d, o)}>>]
                                 = g[<<d, Target(d, o), v \cup {Target(d, o)}>>]
          /\ TakesLabel(d, o) =>
                f[<<d, o + 1 + Byte(d, o), v>>] = g[<<d, o + 1 + Byte(d, o), v>>]
        BY <2>1, <2>3, <3>1, ReadRankFalls
    <3>3. NameCases(f, d, o, v) = NameCases(g, d, o, v)
        BY <3>2, NameCasesSame
    <3>4. NameBody(f, d, o, v) = NameBody(g, d, o, v)
        BY <3>3, NameByCases
    <3> QED BY <2>1, <3>1, <3>4
  <2>4. NoName \in V
    <3>1. <<>> \in Text
        BY LengthRank DEF Text
    <3> QED BY <2>1, <3>1 DEF NoName, Readings
  <2>5. rank \in [D -> Nat]
      BY <2>1, ReadRankFalls
  <2>6. B \in [[D -> V] -> [D -> V]]
      BY <2>1, <2>2
  <2>7. FromLower(D, V, rank, B)
      BY <2>3, <2>4, <2>5, <2>6 DEF FromLower
  <2>8. \E f \in [D -> V] : f = B[f]
      BY <2>7, Recursion
  <2> QED BY <2>1, <2>8
<1>2. Name = CHOOSE h : Solution(h)
    BY NameDef
<1> HIDE DEF Solution
<1>3. Solution(Name)
    BY <1>1, <1>2
<1>4. ASSUME NEW d \in Octets, NEW o \in Nat, NEW v \in SUBSET Targets
      PROVE  Name[<<d, o, v>>] = NameCases(Name, d, o, v)
  <2>1. Name[<<d, o, v>>] = NameBody(Name, d, o, v)
      BY <1>3, ReadRankFalls DEF Solution
  <2> QED BY <2>1, NameByCases
<1>5. Reads \subseteq {at \in Reads : Name[at] \in Readings}
  <2>1. PICK T : T = {at \in Reads : Name[at] \in Readings}
      OBVIOUS
  <2>2. ASSUME NEW x \in Reads, \A y \in Reads : ReadRank[y] < ReadRank[x] => y \in T
        PROVE  x \in T
    <3>1. PICK d \in Octets, o \in Nat, v \in SUBSET Targets : x = <<d, o, v>>
        BY DEF Reads
    <3>2. /\ Follows(d, o, v) => Name[<<d, Target(d, o), v \cup {Target(d, o)}>>] \in Readings
          /\ TakesLabel(d, o) => Name[<<d, o + 1 + Byte(d, o), v>>] \in Readings
        BY <2>1, <2>2, <3>1, ReadRankFalls
    <3>3. NameCases(Name, d, o, v) \in Readings
        BY <3>2, NameCasesType
    <3> QED BY <1>4, <2>1, <3>1, <3>3
  <2>3. Reads \subseteq T
      BY <2>2, ReadRankFalls, RankInduction
  <2> QED BY <2>1, <2>3
<1>6. ASSUME NEW d \in Octets, NEW o \in Nat, NEW v \in SUBSET Targets
      PROVE  Name[<<d, o, v>>] \in Readings
    BY <1>5, ReadRankFalls
<1> QED BY <1>4, <1>6

-----------------------------------------------------------------------------
(* Names as texts *)

\* What is used of a text: its length, the dot, and texts joined.
LEMMA TextsAre ==
    /\ <<>> \in Text /\ Dot \in Char /\ <<Dot>> \in Text
    /\ \A t \in Text : Len(t) \in Nat
    /\ \A s, t \in Text : s \o t \in Text /\ Len(s \o t) = Len(s) + Len(t)
    /\ \A c \in Char, t \in Text :
          <<c>> \o t \in Text /\ <<c>> \o t # <<>> /\ Len(<<c>> \o t) = 1 + Len(t)
<1>1. <<>> \in Seq(Char) /\ Dot \in Char /\ <<Dot>> \in Seq(Char)
    BY DEF Dot, Char
<1>2. \A t \in Seq(Char) : Len(t) \in Nat
    OBVIOUS
<1>3. \A s, t \in Seq(Char) : s \o t \in Seq(Char) /\ Len(s \o t) = Len(s) + Len(t)
    BY ConcatProperties
<1>4. \A c \in Char, t \in Seq(Char) :
          <<c>> \o t \in Seq(Char) /\ <<c>> \o t # <<>> /\ Len(<<c>> \o t) = 1 + Len(t)
    BY FirstAndRest
<1> QED BY <1>1, <1>2, <1>3, <1>4 DEF Text

\* The first element of a join is the first one's, when that is not empty.
LEMMA HeadTailJoin ==
    ASSUME NEW S, NEW s \in Seq(S), s # <<>>, NEW t \in Seq(S)
    PROVE  Head(s \o t) = Head(s) /\ Tail(s \o t) = Tail(s) \o t
<1>1. PICK c, r : c \in S /\ r \in Seq(S) /\ s = <<c>> \o r /\ c = Head(s) /\ r = Tail(s)
    BY Split
<1>2. <<c>> \in Seq(S)
    BY <1>1
<1>3. (<<c>> \o r) \o t = <<c>> \o (r \o t)
    BY <1>1, <1>2, ConcatAssociative
<1>4. r \o t \in Seq(S)
    BY <1>1, ConcatProperties
<1>5. Head(<<c>> \o (r \o t)) = c /\ Tail(<<c>> \o (r \o t)) = r \o t
    BY <1>1, <1>4, FirstAndRest
<1> QED BY <1>1, <1>3, <1>5

\* One element in front of a join is in front of its first part.
LEMMA JoinFirst ==
    ASSUME NEW S, NEW c \in S, NEW s \in Seq(S), NEW t \in Seq(S)
    PROVE  (<<c>> \o s) \o t = <<c>> \o (s \o t)
<1>1. <<c>> \in Seq(S)
    OBVIOUS
<1> QED BY <1>1, ConcatAssociative

\* Two texts joined by a dot have the parts of both.
LEMMA PartsJoin ==
    \A a, b \in Text : Parts[a \o (<<Dot>> \o b)] = Parts[a] \o Parts[b]
<1>1. ASSUME NEW b \in Text
      PROVE  Text \subseteq {a \in Text : Parts[a \o (<<Dot>> \o b)] = Parts[a] \o Parts[b]}
  <2>1. PICK T, x : /\ x = <<Dot>> \o b
                    /\ T = {a \in Text : Parts[a \o x] = Parts[a] \o Parts[b]}
      OBVIOUS
  <2>2. x \in Text /\ x \in Seq(Char) /\ Parts[b] \in Seq(Text) /\ <<>> \in Text
      BY <2>1, TextsAre, PartsAre DEF Text
  <2>3. <<>> \in T
    <3>1. Parts[x] = <<<<>>>> \o Parts[b]
        BY <2>1, PartsAre, TextsAre
    <3>2. <<>> \o x = x
        BY <2>2, ConcatEmptySeq
    <3> QED BY <2>1, <2>2, <3>1, <3>2, PartsAre
  <2>4. ASSUME NEW c \in Char, NEW t \in Seq(Char), t \in T PROVE <<c>> \o t \in T
    <3>1. PICK q, p : q = Parts[b] /\ p = Parts[t]
        OBVIOUS
    <3>2. p \in Seq(Text) /\ p # <<>> /\ q \in Seq(Text)
        BY <2>1, <2>4, <3>1, PartsAre
    <3>3. (<<c>> \o t) \o x = <<c>> \o (t \o x)
        BY <2>2, JoinFirst
    <3>4. t \o x \in Text /\ Parts[t \o x] = p \o q /\ t \in Text
        BY <2>1, <2>2, <2>4, <3>1, TextsAre
    <3>5. Head(p \o q) = Head(p) /\ Tail(p \o q) = Tail(p) \o q
        BY <3>2, HeadTailJoin
    <3>6. Parts[(<<c>> \o t) \o x] =
             IF c = Dot THEN <<<<>>>> \o (p \o q) ELSE <<<<c>> \o Head(p)>> \o (Tail(p) \o q)
        BY <3>3, <3>4, <3>5, PartsAre
    <3>7. Parts[<<c>> \o t] =
             IF c = Dot THEN <<<<>>>> \o p ELSE <<<<c>> \o Head(p)>> \o Tail(p)
        BY <3>1, <3>4, PartsAre
    <3>8. (<<<<>>>> \o p) \o q = <<<<>>>> \o (p \o q)
        BY <2>2, <3>2, JoinFirst
    <3>9. (<<<<c>> \o Head(p)>> \o Tail(p)) \o q = <<<<c>> \o Head(p)>> \o (Tail(p) \o q)
      <4>1. Head(p) \in Text /\ Tail(p) \in Seq(Text)
          BY <3>2, Split
      <4>2. PICK h : h = <<c>> \o Head(p)
          OBVIOUS
      <4>3. h \in Text
          BY <4>1, <4>2, TextsAre
      <4> QED BY <3>2, <4>1, <4>2, <4>3, JoinFirst
    <3>10. Parts[(<<c>> \o t) \o x] = Parts[<<c>> \o t] \o q
        BY <3>6, <3>7, <3>8, <3>9
    <3> QED BY <2>1, <3>1, <3>4, <3>10, TextsAre
  <2>5. Text \subseteq T
      BY <2>3, <2>4, SequenceInduction DEF Text
  <2> QED BY <2>1, <2>5
<1> QED BY <1>1

\* The first part of a text is all of it, or a dot and the other parts follow.
LEMMA FirstPart ==
    \A t \in Text :
        \/ Parts[t] = <<t>>
        \/ \E u \in Text : /\ t = Head(Parts[t]) \o (<<Dot>> \o u)
                           /\ Parts[t] = <<Head(Parts[t])>> \o Parts[u]
<1> DEFINE Good(t) == \/ Parts[t] = <<t>>
                      \/ \E u \in Text : /\ t = Head(Parts[t]) \o (<<Dot>> \o u)
                                         /\ Parts[t] = <<Head(Parts[t])>> \o Parts[u]
<1>1. Good(<<>>)
    BY PartsAre
<1>2. ASSUME NEW c \in Char, NEW t \in Text, Good(t) PROVE Good(<<c>> \o t)
  <2>1. PICK s, p : s = <<c>> \o t /\ p = Parts[t]
      OBVIOUS
  <2>2. /\ s \in Text /\ p \in Seq(Text) /\ p # <<>>
        /\ Parts[s] = IF c = Dot THEN <<<<>>>> \o p ELSE <<<<c>> \o Head(p)>> \o Tail(p)
      BY <2>1, PartsAre, TextsAre
  <2>3. CASE c = Dot
    <3>1. Head(Parts[s]) = <<>> /\ Parts[s] = <<<<>>>> \o p
        BY <2>2, <2>3, TextsAre, FirstAndRest
    <3>2. s \in Seq(Char) /\ <<>> \o s = s
        BY <2>2, ConcatEmptySeq DEF Text
    <3>3. s = Head(Parts[s]) \o (<<Dot>> \o t) /\ Parts[s] = <<Head(Parts[s])>> \o Parts[t]
        BY <2>1, <2>3, <3>1, <3>2
    <3> QED BY <2>1, <3>3
  <2>4. CASE c # Dot /\ p = <<t>>
    <3>1. Head(p) = t /\ Tail(p) = <<>>
        BY <2>4
    <3>2. Parts[s] = <<s>> \o <<>>
        BY <2>1, <2>2, <2>4, <3>1
    <3>3. Parts[s] = <<s>>
      <4>1. <<s>> \in Seq(Text)
          BY <2>2
      <4> QED BY <3>2, <4>1, ConcatEmptySeq
    <3> QED BY <2>1, <3>3
  <2>5. CASE c # Dot /\ p # <<t>>
    <3>1. PICK u \in Text : t = Head(p) \o (<<Dot>> \o u) /\ p = <<Head(p)>> \o Parts[u]
        BY <1>2, <2>1, <2>5
    <3>2. PICK h : h = <<c>> \o Head(p)
        OBVIOUS
    <3>3. Head(p) \in Text /\ Parts[u] \in Seq(Text) /\ h \in Text /\ <<Dot>> \o u \in Text
      <4>1. Head(p) \in Text
          BY <2>2, Split
      <4> QED BY <3>2, <4>1, PartsAre, TextsAre
    <3>4. Tail(p) = Parts[u]
        BY <3>1, <3>3, FirstAndRest
    <3>5. Parts[s] = <<h>> \o Parts[u]
        BY <2>2, <2>5, <3>2, <3>4
    <3>6. Head(Parts[s]) = h
        BY <3>3, <3>5, FirstAndRest
    <3>7. s = h \o (<<Dot>> \o u)
      <4>1. Head(p) \in Seq(Char) /\ <<Dot>> \o u \in Seq(Char)
          BY <3>3 DEF Text
      <4>2. PICK a, x : a = Head(p) /\ x = <<Dot>> \o u
          OBVIOUS
      <4>3. a \in Seq(Char) /\ x \in Seq(Char)
          BY <4>1, <4>2
      <4>4. (<<c>> \o a) \o x = <<c>> \o (a \o x)
          BY <4>3, JoinFirst
      <4> QED BY <2>1, <3>1, <3>2, <4>2, <4>4
    <3> QED BY <2>1, <3>5, <3>6, <3>7
  <2> HIDE DEF Good
  <2> QED BY <2>3, <2>4, <2>5
<1> HIDE DEF Good
<1>3. PICK T : T = {t \in Text : Good(t)}
    OBVIOUS
<1>4. Text \subseteq T
  <2>1. <<>> \in T
      BY <1>1, <1>3, TextsAre
  <2>2. \A c \in Char, t \in Text : t \in T => <<c>> \o t \in T
      BY <1>2, <1>3, TextsAre
  <2> QED BY <2>1, <2>2, SequenceInduction DEF Text
<1>5. \A t \in Text : Good(t)
    BY <1>3, <1>4
<1> QED BY <1>5 DEF Good

\* The elements of a sequence, by its first element and by a join.
LEMMA ToSetIs ==
    ASSUME NEW S
    PROVE  /\ ToSet(<<>>) = {}
           /\ \A c \in S, t \in Seq(S) : ToSet(<<c>> \o t) = {c} \cup ToSet(t)
           /\ \A s, t \in Seq(S) : ToSet(s \o t) = ToSet(s) \cup ToSet(t)
           /\ \A s \in Seq(S) : ToSet(s) \subseteq S
           /\ \A s \in Seq(S) : \A k \in DOMAIN s : s[k] \in ToSet(s)
<1>0. \A s : ToSet(s) = Range(s)
    BY DEF Range, ToSet
<1>1. \A s, t \in Seq(S) : ToSet(s \o t) = ToSet(s) \cup ToSet(t)
    BY <1>0, RangeConcatenation
<1>2. \A c \in S : <<c>> \in Seq(S) /\ ToSet(<<c>>) = {c}
    BY DEF ToSet
<1>3. ASSUME NEW s \in Seq(S) PROVE ToSet(s) \subseteq S
    BY DEF ToSet
<1>4. \A s \in Seq(S) : \A k \in DOMAIN s : s[k] \in ToSet(s)
    BY DEF ToSet
<1>5. \A c \in S, t \in Seq(S) : ToSet(<<c>> \o t) = {c} \cup ToSet(t)
    BY <1>1, <1>2
<1>6. ToSet(<<>>) = {}
    BY DEF ToSet
<1> QED BY <1>1, <1>3, <1>4, <1>5, <1>6

\* No part weighs more than its text.
LEMMA PartsShort ==
    \A t \in Text : \A p \in ToSet(Parts[t]) : p \in Text /\ Weight(p) <= Weight(t)
<1>5. \A g \in Text, q \in Seq(Text) : ToSet(<<g>> \o q) = {g} \cup ToSet(q)
    BY ToSetIs
<1>1. PICK T : T = {t \in Text : \A p \in ToSet(Parts[t]) : p \in Text /\ Weight(p) <= Weight(t)}
    OBVIOUS
<1>2. <<>> \in T
  <2>1. ToSet(Parts[<<>>]) = {<<>>}
      BY PartsAre DEF ToSet
  <2>2. Weight(<<>>) <= Weight(<<>>)
      BY WeightIs
  <2> QED BY <1>1, <2>1, <2>2, TextsAre
<1>3. ASSUME NEW c \in Char, NEW t \in Text, t \in T PROVE <<c>> \o t \in T
  <2>1. PICK s, p : s = <<c>> \o t /\ p = Parts[t]
      OBVIOUS
  <2>2. PICK h, r : h = Head(p) /\ r = Tail(p)
      OBVIOUS
  <2>3. h \in Text /\ r \in Seq(Text) /\ p = <<h>> \o r /\ p \in Seq(Text)
      BY <2>1, <2>2, PartsAre, Split
  <2>4. PICK l \in Nat, a \in Nat :
            l = Weight(t) /\ a = Least(c) /\ Weight(s) = a + l /\ s \in Text
    <3>1. Least(c) \in Nat /\ Weight(t) \in Nat
        BY SqueezedIs, WeightIs
    <3>2. Weight(s) = Least(c) + Weight(t) /\ s \in Text
        BY <2>1, WeightIs, TextsAre
    <3> QED BY <3>1, <3>2
  <2>5. \A q \in ToSet(p) : q \in Text /\ Weight(q) <= l
      BY <1>1, <1>3, <2>1, <2>4
  <2>6. ASSUME NEW q, q \in ToSet(p) \/ q = <<>> \/ q = <<c>> \o h
        PROVE  q \in Text /\ Weight(q) <= a + l
    <3>1. CASE q \in ToSet(p)
      <4>1. q \in Text /\ Weight(q) <= l
          BY <2>5, <3>1
      <4>2. PICK m \in Nat : m = Weight(q)
          BY <4>1, WeightIs
      <4>3. m <= a + l
          BY <4>1, <4>2
      <4> QED BY <4>1, <4>2, <4>3
    <3>2. CASE q = <<>>
      <4>1. Weight(q) = 0
          BY <3>2, WeightIs
      <4> QED BY <3>2, <4>1, TextsAre
    <3>3. CASE q = <<c>> \o h
      <4>1. h \in ToSet(p)
          BY <2>3, ToSetIs
      <4>2. PICK m \in Nat : m = Weight(h) /\ m <= l
          BY <2>5, <4>1, WeightIs
      <4>3. q \in Text /\ Weight(q) = a + m
          BY <2>3, <2>4, <3>3, <4>2, TextsAre, WeightIs
      <4> QED BY <4>2, <4>3
    <3> QED BY <2>6, <3>1, <3>2, <3>3
  <2>7. ASSUME NEW q \in ToSet(Parts[s]) PROVE q \in ToSet(p) \/ q = <<>> \/ q = <<c>> \o h
    <3>1. Parts[s] = IF c = Dot THEN <<<<>>>> \o p ELSE <<<<c>> \o h>> \o r
        BY <2>1, <2>2, PartsAre
    <3>2. CASE c = Dot
      <4>1. ToSet(<<<<>>>> \o p) = {<<>>} \cup ToSet(p)
          BY <1>5, <2>3, TextsAre
      <4> QED BY <3>1, <3>2, <4>1
    <3>3. CASE c # Dot
      <4>1. PICK g : g = <<c>> \o h /\ g \in Text
          BY <2>3, TextsAre
      <4>2. ToSet(<<g>> \o r) = {g} \cup ToSet(r)
          BY <1>5, <2>3, <4>1
      <4>3. Parts[s] = <<g>> \o r
          BY <3>1, <3>3, <4>1
      <4>4. ToSet(p) = {h} \cup ToSet(r)
          BY <1>5, <2>3
      <4> QED BY <4>1, <4>2, <4>3, <4>4
    <3> QED BY <3>2, <3>3
  <2>8. \A q \in ToSet(Parts[s]) : q \in Text /\ Weight(q) <= Weight(s)
      BY <2>4, <2>6, <2>7
  <2> QED BY <1>1, <2>1, <2>4, <2>8
<1>4. Text \subseteq T
    BY <1>2, <1>3, SequenceInduction DEF Text
<1> QED BY <1>1, <1>4

\* What has no dot goes before the first part.
LEMMA PartsFront ==
    ASSUME NEW u \in Text, NEW x \in Text, Dot \notin ToSet(x)
    PROVE  Parts[x \o u] = <<x \o Head(Parts[u])>> \o Tail(Parts[u])
<1>1. PICK h \in Text, r \in Seq(Text) :
          h = Head(Parts[u]) /\ r = Tail(Parts[u]) /\ Parts[u] = <<h>> \o r
  <2>1. PICK p \in Seq(Text) : p = Parts[u] /\ p # <<>>
      BY PartsAre
  <2>2. Head(p) \in Text /\ Tail(p) \in Seq(Text) /\ p = <<Head(p)>> \o Tail(p)
      BY <2>1, Split
  <2> QED BY <2>1, <2>2
<1>2. PICK T : T = {a \in Text : Dot \notin ToSet(a) => Parts[a \o u] = <<a \o h>> \o r}
    OBVIOUS
<1>3. <<>> \in T
  <2>1. <<>> \o u = u /\ <<>> \o h = h
      BY ConcatEmptySeq DEF Text
  <2> QED BY <1>1, <1>2, <2>1, TextsAre
<1>4. ASSUME NEW c \in Char, NEW a \in Text, a \in T PROVE <<c>> \o a \in T
  <2>1. (<<c>> \o a) \o u = <<c>> \o (a \o u) /\ (<<c>> \o a) \o h = <<c>> \o (a \o h)
      BY JoinFirst DEF Text
  <2>2. ASSUME Dot \notin ToSet(<<c>> \o a)
        PROVE  Parts[(<<c>> \o a) \o u] = <<(<<c>> \o a) \o h>> \o r
    <3>1. c # Dot /\ Dot \notin ToSet(a)
        BY <2>2, ToSetIs DEF Text
    <3>2. PICK b \in Text, p \in Text : b = a \o u /\ p = a \o h
        BY TextsAre
    <3>3. Parts[b] = <<p>> \o r
        BY <1>2, <1>4, <3>1, <3>2
    <3>4. Head(Parts[b]) = p /\ Tail(Parts[b]) = r
        BY <3>3, FirstAndRest
    <3>5. Parts[<<c>> \o b] = <<<<c>> \o p>> \o r
        BY <3>1, <3>4, PartsAre
    <3> QED BY <2>1, <3>2, <3>5
  <2> QED BY <1>2, <2>2, TextsAre
<1>5. Text \subseteq T
    BY <1>3, <1>4, SequenceInduction DEF Text
<1> QED BY <1>1, <1>2, <1>5

\* A character by itself, and two strings joined, are encoded by their bytes.
LEMMA EncodeJoin ==
    /\ \A c \in Char : Encode[<<c>>] = Utf8(c)
    /\ \A s, t \in Text : Len(Encode[s \o t]) = Len(Encode[s]) + Len(Encode[t])
<1>1. ASSUME NEW c \in Char PROVE Encode[<<c>>] = Utf8(c)
  <2>1. <<c>> \o <<>> = <<c>>
    <3>1. <<c>> \in Seq(Char)
        OBVIOUS
    <3> QED BY <3>1, ConcatEmptySeq
  <2>2. Encode[<<c>> \o <<>>] = Utf8(c) \o Encode[<<>>] /\ Encode[<<>>] = <<>>
      BY EncodeIs, TextsAre
  <2>3. Utf8(c) \o <<>> = Utf8(c)
      BY Utf8Type, ConcatEmptySeq DEF Octets
  <2> QED BY <2>1, <2>2, <2>3
<1>2. ASSUME NEW t \in Text
      PROVE  \A s \in Text : Len(Encode[s \o t]) = Len(Encode[s]) + Len(Encode[t])
  <2>1. PICK T : T = {s \in Text : Len(Encode[s \o t]) = Len(Encode[s]) + Len(Encode[t])}
      OBVIOUS
  <2>2. <<>> \in T
    <3>1. <<>> \o t = t
        BY ConcatEmptySeq DEF Text
    <3>2. PICK n \in Nat : n = Len(Encode[t])
        BY EncodeIs, OctetsAre
    <3>3. Len(Encode[<<>>]) = 0
        BY EncodeIs
    <3>4. Len(Encode[<<>> \o t]) = Len(Encode[<<>>]) + Len(Encode[t])
        BY <3>1, <3>2, <3>3
    <3> QED BY <2>1, <3>4, TextsAre
  <2>3. ASSUME NEW c \in Char, NEW s \in Text, s \in T PROVE <<c>> \o s \in T
    <3>1. PICK a \in Text : a = s \o t
        BY TextsAre
    <3>2. (<<c>> \o s) \o t = <<c>> \o a
        BY <3>1, JoinFirst DEF Text
    <3>3. /\ Len(Encode[<<c>> \o a]) = Len(Utf8(c)) + Len(Encode[a])
          /\ Len(Encode[<<c>> \o s]) = Len(Utf8(c)) + Len(Encode[s])
      <4>1. ASSUME NEW r \in Text PROVE Len(Encode[<<c>> \o r]) = Len(Utf8(c)) + Len(Encode[r])
        <5>1. PICK x \in Octets, y \in Octets : x = Utf8(c) /\ y = Encode[r]
            BY EncodeIs, Utf8Type
        <5>2. Encode[<<c>> \o r] = x \o y
            BY <5>1, EncodeIs
        <5> QED BY <5>1, <5>2, OctetsJoin
      <4> QED BY <4>1
    <3>4. PICK l \in Nat, m \in Nat, n \in Nat :
              l = Len(Utf8(c)) /\ m = Len(Encode[s]) /\ n = Len(Encode[t])
        BY EncodeIs, Utf8Type, OctetsAre
    <3>5. Len(Encode[a]) = m + n
        BY <2>1, <2>3, <3>1, <3>4
    <3>6. Len(Encode[<<c>> \o a]) = Len(Encode[<<c>> \o s]) + n
      <4>1. PICK k \in Nat : k = Len(Encode[a]) /\ k = m + n
          BY <3>5
      <4>2. Len(Encode[<<c>> \o a]) = l + k /\ Len(Encode[<<c>> \o s]) = l + m
          BY <3>3, <3>4, <4>1
      <4>3. l + k = (l + m) + n
          BY <4>1
      <4> QED BY <4>2, <4>3
    <3> QED BY <2>1, <3>2, <3>4, <3>6, TextsAre
  <2>4. Text \subseteq T
      BY <2>2, <2>3, SequenceInduction DEF Text
  <2> QED BY <2>1, <2>4
<1> QED BY <1>1, <1>2

\* The characters that have another lower case.
Raised == DOMAIN LowerCase \cup 65..90 \cup {Sigma}

\* The lower case of a character: a text of characters that have no other one,
\* with a dot of a dot only, and as long in bytes unless the character grows.
LEMMA LowerAtIs ==
    ASSUME NEW t \in Text, NEW k \in 1..Len(t),
           NEW c, c = t[k], NEW x, x = LowerAt(t, k)
    PROVE  /\ c \in Char
           /\ x \in Text /\ x # <<>> /\ \A d \in ToSet(x) : d \notin Raised
           /\ c = Dot => x = <<Dot>>
           /\ c # Dot => Dot \notin ToSet(x)
           /\ c \notin Raised => x = <<c>>
           /\ ~Grows(c) => Len(Encode[x]) <= Least(c)
<1>1. c \in Char
    BY ElementOfSeq DEF Text
<1>2. /\ \A d \in DOMAIN LowerCase : d \notin 0..127
      /\ Sigma \notin DOMAIN LowerCase
      /\ \A d \in SmallSigmas : d \notin DOMAIN LowerCase
  <2>1. \A d \in DOMAIN LowerCase : d \notin 0..127
      BY CaseAssumption
  <2>2. Sigma \notin DOMAIN LowerCase
      BY CaseAssumption
  <2>3. \A d \in SmallSigmas : d \notin DOMAIN LowerCase
      BY CaseAssumption
  <2> QED BY <2>1, <2>2, <2>3
<1>3. ~Grows(c) => Least(c) = Len(Utf8(c))
    BY DEF Grows, Least
<1>4. ASSUME NEW w \in Char, w \notin Raised, w = Dot <=> c = Dot, c \notin Raised => w = c,
             Len(Utf8(w)) = Len(Utf8(c)), x = <<w>>
      PROVE  /\ x \in Text /\ x # <<>> /\ \A d \in ToSet(x) : d \notin Raised
             /\ c = Dot => x = <<Dot>>
             /\ c # Dot => Dot \notin ToSet(x)
             /\ c \notin Raised => x = <<c>>
             /\ ~Grows(c) => Len(Encode[x]) <= Least(c)
  <2>1. <<w>> \in Seq(Char) /\ <<w>> # <<>> /\ ToSet(<<w>>) = {w}
      BY DEF ToSet
  <2>2. Len(Encode[x]) = Len(Utf8(c))
      BY <1>4, EncodeJoin
  <2>3. ~Grows(c) => Len(Encode[x]) <= Least(c)
    <3>1. PICK n \in Nat : n = Len(Utf8(c))
        BY <1>1, Utf8Type
    <3> QED BY <1>3, <2>2, <3>1
  <2> QED BY <1>4, <2>1, <2>3 DEF Text
<1>5. CASE c \in 65..90
  <2>1. c \in Nat /\ 65 <= c /\ c <= 90
    <3>1. \A n \in 65..90 : n \in Nat /\ 65 <= n /\ n <= 90
        OBVIOUS
    <3> QED BY <1>5, <3>1, Zenon
  <2>2. PICK w \in Nat : w = c + 32
      BY <2>1
  <2>3. 97 <= w /\ w <= 122
      BY <2>1, <2>2
  <2>4. x = <<w>>
    <3>1. c # Sigma
        BY <2>1 DEF Sigma
    <3>2. c \notin DOMAIN LowerCase
      <4>1. \A n \in 65..90 : n \in 0..127
          OBVIOUS
      <4> QED BY <1>2, <1>5, <4>1, Zenon
    <3> QED BY <1>5, <2>2, <3>1, <3>2 DEF LowerAt
  <2>5. w \in Char
      BY <2>3 DEF Char
  <2>6. w # Dot /\ c # Dot
      BY <2>1, <2>3 DEF Dot
  <2>7. c \in Raised
      BY <1>5 DEF Raised
  <2>8. w \notin Raised
    <3>1. w \notin 65..90 /\ w \in 0..127
        BY <2>3
    <3>2. w # Sigma
        BY <2>3 DEF Sigma
    <3> QED BY <1>2, <3>1, <3>2 DEF Raised
  <2>9. Len(Utf8(w)) = 1 /\ Len(Utf8(c)) = 1
    <3>1. w < 128 /\ c < 128
        BY <2>1, <2>3
    <3> QED BY <1>1, <2>5, <3>1, Utf8Length
  <2>10. (w = Dot <=> c = Dot) /\ (c \notin Raised => w = c) /\ Len(Utf8(w)) = Len(Utf8(c))
      BY <2>6, <2>7, <2>9, Zenon
  <2> QED BY <1>1, <1>4, <2>4, <2>5, <2>8, <2>10
<1>6. CASE c = Sigma
  <2>1. PICK w \in SmallSigmas : x = <<w>>
    <3>1. c \notin 65..90 /\ c \notin DOMAIN LowerCase
        BY <1>2, <1>6 DEF Sigma
    <3>2. x = <<IF FinalSigma(t, k) THEN 962 ELSE 963>>
        BY <1>6, <3>1 DEF LowerAt
    <3> QED BY <3>2 DEF SmallSigmas
  <2>2. w \in Char /\ w \notin 65..90 /\ w # Sigma /\ w # Dot /\ c # Dot
      BY <1>6 DEF Char, SmallSigmas, Sigma, Dot
  <2>3. c \in Raised
      BY <1>6 DEF Raised
  <2>5. w \notin Raised
    <3>2. w \notin DOMAIN LowerCase
        BY <1>2
    <3> QED BY <2>2, <3>2 DEF Raised
  <2>4. Len(Utf8(w)) = 2 /\ Len(Utf8(c)) = 2
    <3>1. w >= 128 /\ w < 2048 /\ c >= 128 /\ c < 2048
        BY <1>6 DEF Sigma, SmallSigmas
    <3>2. ASSUME NEW d \in Char, d >= 128, d < 2048 PROVE Len(Utf8(d)) = 2
      <4>1. d \in Nat /\ ~(d < 128)
          BY <3>2 DEF Char
      <4> QED BY <3>2, <4>1, Utf8Length
    <3> QED BY <1>1, <2>2, <3>1, <3>2
  <2>6. (w = Dot <=> c = Dot) /\ (c \notin Raised => w = c) /\ Len(Utf8(w)) = Len(Utf8(c))
      BY <2>2, <2>3, <2>4, Zenon
  <2> QED BY <1>1, <1>4, <2>1, <2>2, <2>5, <2>6
<1>7. CASE c \in DOMAIN LowerCase
  <2>1. x = LowerCase[c]
    <3>1. \A n \in 65..90 : n \in 0..127
        OBVIOUS
    <3>2. c \notin 65..90 /\ c # Sigma
        BY <1>2, <1>7, <3>1, Zenon
    <3> QED BY <1>7, <3>2 DEF LowerAt
  <2>2. /\ x \in Text /\ x # <<>>
        /\ \A j \in DOMAIN x : x[j] \notin Raised \cup {Dot}
    <3>1. \A j \in DOMAIN x :
              x[j] \notin DOMAIN LowerCase \cup 65..90 \cup {Sigma, Dot, Newline}
        BY <1>7, <2>1, CaseAssumption
    <3>2. x \in Text \ {<<>>}
        BY <1>7, <2>1, CaseAssumption
    <3> QED BY <3>1, <3>2 DEF Raised
  <2>3. \A d \in ToSet(x) : d \notin Raised /\ d # Dot
      BY <2>2 DEF ToSet
  <2>4. c \in Raised /\ c # Dot
    <3>1. Dot \in 0..127
        BY DEF Dot
    <3> QED BY <1>2, <1>7, <3>1 DEF Raised
  <2>5. ~Grows(c) => Len(Encode[x]) <= Least(c)
    <3>1. PICK m \in Nat, n \in Nat : m = Len(Encode[x]) /\ n = Len(Utf8(c))
        BY <1>1, <2>2, EncodeIs, Utf8Type, OctetsAre
    <3>2. ~Grows(c) => ~(m > n)
        BY <1>7, <2>1, <3>1 DEF Grows
    <3> QED BY <1>3, <3>1, <3>2
  <2> QED BY <1>1, <2>2, <2>3, <2>4, <2>5
<1>8. CASE c \notin Raised
  <2>1. x = <<c>>
      BY <1>8 DEF LowerAt, Raised
  <2> QED BY <1>1, <1>4, <1>8, <2>1
<1> QED BY <1>5, <1>6, <1>7, <1>8 DEF Raised

\* A set of pairs that has the empty ones, and with each pair the one with the
\* next character and its lower case in front, has a text and its lower case.
LEMMA LowerByPieces ==
    ASSUME NEW t \in Text, NEW T, <<<<>>, <<>>>> \in T,
           \A k \in 1..Len(t), p \in Text, q \in Text :
               <<p, q>> \in T => <<<<t[k]>> \o p, LowerAt(t, k) \o q>> \in T
    PROVE  Lower(t) \in Text /\ <<t, Lower(t)>> \in T
<1>1. PICK n \in Nat : n = Len(t)
    BY TextsAre
<1>2. PICK x : x = [k \in 1..n |-> LowerAt(t, k)]
    OBVIOUS
<1>3. x \in [1..n -> Text] /\ t \in Seq(Char)
  <2>1. \A k \in 1..n : LowerAt(t, k) \in Text
      BY <1>1, LowerAtIs
  <2> QED BY <1>2, <2>1 DEF Text
<1> DEFINE Solution(h) ==
        h = [k \in 1..(Len(t) + 1) |->
                IF k > Len(t) THEN <<>> ELSE LowerAt(t, k) \o h[k + 1]]
<1>4. PICK from : from = CHOOSE h : Solution(h)
    OBVIOUS
<1>5. Lower(t) = from[1]
    BY <1>4 DEF Lower
<1>6. \A h : FromEnd(h, x, n) <=> Solution(h)
  <2>1. \A k \in 1..(n + 1) : ~(k > n) => x[k] = LowerAt(t, k)
      BY <1>2
  <2> QED BY <1>1, <2>1 DEF FromEnd
<1> HIDE DEF Solution
<1>7. x \in [1..n -> Seq(Char)]
    BY <1>3 DEF Text
<1>8. PICK f \in [1..(n + 1) -> Seq(Char)] : FromEnd(f, x, n)
    BY <1>7, FromEndExists
<1>9. FromEnd(from, x, n)
    BY <1>4, <1>6, <1>8
<1>10. from \in [1..(n + 1) -> Seq(Char)]
    BY <1>7, <1>9, FromEndType
<1>11. from[1] \in Text
  <2>1. 1 \in 1..(n + 1)
      OBVIOUS
  <2> QED BY <1>10, <2>1 DEF Text
<1>12. \A k \in 1..n, p \in Seq(Char), q \in Seq(Char) :
          <<p, q>> \in T => <<<<t[k]>> \o p, x[k] \o q>> \in T
    BY <1>1, <1>2 DEF Text
<1>13. <<t, from[1]>> \in T
    BY <1>1, <1>3, <1>7, <1>9, <1>10, <1>12, PieceByPiece
<1> QED BY <1>5, <1>11, <1>13

\* Of a and of what it becomes: without a character that grows, it is no
\* longer than a at its least.
NotLonger(a, b) == (\A c \in ToSet(a) : ~Grows(c)) => Len(Encode[b]) <= Weight(a)
Matched(p, q) == Len(p) = Len(q) /\ \A k \in 1..Len(p) : NotLonger(p[k], q[k])

\* Sequences are matched when their first elements and the rests are.
LEMMA MatchedFirst ==
    ASSUME NEW a \in Text, NEW b \in Text, NEW p \in Seq(Text), NEW q \in Seq(Text)
    PROVE  Matched(<<a>> \o p, <<b>> \o q) <=> NotLonger(a, b) /\ Matched(p, q)
<1>1. PICK m \in Nat, n \in Nat : m = Len(p) /\ n = Len(q)
    OBVIOUS
<1>2. PICK s, r : s = <<a>> \o p /\ r = <<b>> \o q
    OBVIOUS
<1>3. ASSUME NEW c \in Text, NEW u \in Seq(Text), NEW v, v = <<c>> \o u, NEW l \in Nat, l = Len(u)
      PROVE  Len(v) = 1 + l /\ v[1] = c /\ \A i \in 1..l : v[i + 1] = u[i]
  <2>1. <<c>> \in Seq(Text) /\ Len(<<c>>) = 1
      OBVIOUS
  <2>2. /\ Len(v) = 1 + l
        /\ \A i \in 1..(1 + l) : v[i] = IF i <= 1 THEN <<c>>[i] ELSE u[i - 1]
      BY <1>3, <2>1, ConcatProperties
  <2>3. v[1] = c
    <3>1. 1 \in 1..(1 + l) /\ <<c>>[1] = c
        OBVIOUS
    <3> QED BY <2>2, <3>1
  <2>4. ASSUME NEW i \in 1..l PROVE v[i + 1] = u[i]
    <3>1. i + 1 \in 1..(1 + l) /\ ~(i + 1 <= 1) /\ (i + 1) - 1 = i
        OBVIOUS
    <3> QED BY <2>2, <3>1
  <2> QED BY <2>2, <2>3, <2>4
<1>4. Len(s) = 1 + m /\ s[1] = a /\ \A i \in 1..m : s[i + 1] = p[i]
    BY <1>1, <1>2, <1>3
<1>5. Len(r) = 1 + n /\ r[1] = b /\ \A i \in 1..n : r[i + 1] = q[i]
    BY <1>1, <1>2, <1>3
<1>6. ASSUME Matched(s, r) PROVE NotLonger(a, b) /\ Matched(p, q)
  <2>1. m = n /\ \A k \in 1..(1 + m) : NotLonger(s[k], r[k])
      BY <1>4, <1>5, <1>6 DEF Matched
  <2>2. NotLonger(a, b)
    <3>1. 1 \in 1..(1 + m)
        OBVIOUS
    <3> QED BY <1>4, <1>5, <2>1, <3>1
  <2>3. ASSUME NEW k \in 1..m PROVE NotLonger(p[k], q[k])
    <3>1. k + 1 \in 1..(1 + m)
        OBVIOUS
    <3> QED BY <1>4, <1>5, <2>1, <3>1
  <2> QED BY <1>1, <2>1, <2>2, <2>3 DEF Matched
<1>7. ASSUME NotLonger(a, b), Matched(p, q) PROVE Matched(s, r)
  <2>1. m = n /\ \A k \in 1..m : NotLonger(p[k], q[k])
      BY <1>1, <1>7 DEF Matched
  <2>2. ASSUME NEW k \in 1..(1 + m) PROVE NotLonger(s[k], r[k])
    <3>1. CASE k = 1
        BY <1>4, <1>5, <1>7, <3>1
    <3>2. CASE k # 1
      <4>1. PICK i \in 1..m : k = i + 1
        <5>1. k - 1 \in 1..m /\ k = (k - 1) + 1
            BY <3>2
        <5> QED BY <5>1
      <4> QED BY <1>4, <1>5, <2>1, <4>1
    <3> QED BY <3>1, <3>2
  <2> QED BY <1>4, <1>5, <2>1, <2>2 DEF Matched
<1> QED BY <1>2, <1>6, <1>7

\* What a text t and its lower case u have to do with each other.
Lowered(t, u) ==
    /\ \A d \in ToSet(u) : d \notin Raised
    /\ u = <<>> <=> t = <<>>
    /\ t # <<>> => (u[Len(u)] = Dot <=> t[Len(t)] = Dot)
    /\ Matched(Parts[t], Parts[u])

\* The last element of a join.
LEMMA LastOfJoin ==
    ASSUME NEW a \in Text, NEW b \in Text, b # <<>>
    PROVE  a \o b # <<>> /\ (a \o b)[Len(a \o b)] = b[Len(b)]
<1>1. PICK m \in Nat, n \in Nat : m = Len(a) /\ n = Len(b) /\ n # 0
    BY TextsAre DEF Text
<1>2. /\ Len(a \o b) = m + n
      /\ \A i \in 1..(m + n) : (a \o b)[i] = IF i <= m THEN a[i] ELSE b[i - m]
    BY <1>1, ConcatProperties DEF Text
<1>3. m + n \in 1..(m + n) /\ ~(m + n <= m) /\ (m + n) - m = n
    BY <1>1
<1>4. (a \o b)[m + n] = b[n]
    BY <1>2, <1>3
<1>5. a \o b # <<>>
  <2>1. Len(a \o b) # 0
      BY <1>1, <1>2
  <2> QED BY <2>1
<1> QED BY <1>1, <1>2, <1>4, <1>5

\* A character and its lower case go in front.
LEMMA LoweredFirst ==
    ASSUME NEW c \in Char, NEW x \in Text, x # <<>>, \A d \in ToSet(x) : d \notin Raised,
           c = Dot => x = <<Dot>>, c # Dot => Dot \notin ToSet(x),
           ~Grows(c) => Len(Encode[x]) <= Least(c),
           NEW p \in Text, NEW q \in Text, Lowered(p, q)
    PROVE  Lowered(<<c>> \o p, x \o q)
<1>1. \A d \in ToSet(x \o q) : d \notin Raised
  <2>1. ToSet(x \o q) = ToSet(x) \cup ToSet(q)
      BY ToSetIs DEF Text
  <2> QED BY <2>1 DEF Lowered
<1>2. <<c>> \o p # <<>> /\ x \o q # <<>>
  <2>1. CASE q = <<>>
    <3>1. x \o q = x
        BY <2>1, ConcatEmptySeq DEF Text
    <3> QED BY <3>1, TextsAre
  <2>2. CASE q # <<>>
      BY <2>2, LastOfJoin, TextsAre
  <2> QED BY <2>1, <2>2
<1>3. (x \o q)[Len(x \o q)] = Dot <=> (<<c>> \o p)[Len(<<c>> \o p)] = Dot
  <2>1. <<c>> \in Text
      BY DEF Text
  <2>2. CASE p = <<>>
    <3>1. <<c>> \o p = <<c>> /\ x \o q = x
        BY <2>1, <2>2, ConcatEmptySeq DEF Text, Lowered
    <3>2. <<c>>[Len(<<c>>)] = c
        OBVIOUS
    <3>3. PICK n \in Nat : n = Len(x) /\ n # 0 /\ DOMAIN x = 1..n
        BY DEF Text
    <3>4. x[n] \in ToSet(x)
      <4>1. n \in DOMAIN x
          BY <3>3
      <4> QED BY <4>1, ToSetIs DEF Text
    <3>5. c = Dot => x[n] = Dot
      <4>1. ASSUME c = Dot PROVE x[n] = Dot
        <5>1. x = <<Dot>>
            BY <4>1
        <5> QED BY <3>3, <5>1
      <4> QED BY <4>1
    <3>6. c # Dot => x[n] # Dot
        BY <3>4
    <3> QED BY <3>1, <3>2, <3>3, <3>5, <3>6
  <2>3. CASE p # <<>>
    <3>1. q # <<>> /\ (q[Len(q)] = Dot <=> p[Len(p)] = Dot)
        BY <2>3 DEF Lowered
    <3> QED BY <2>1, <2>3, <3>1, LastOfJoin
  <2> QED BY <2>2, <2>3
<1>4. Matched(Parts[<<c>> \o p], Parts[x \o q])
  <2>1. PICK P, Q : P = Parts[p] /\ Q = Parts[q]
      OBVIOUS
  <2>2. P \in Seq(Text) /\ P # <<>> /\ Q \in Seq(Text) /\ Q # <<>> /\ Matched(P, Q)
      BY <2>1, PartsAre DEF Lowered
  <2>3. PICK h \in Text, r \in Seq(Text) : h = Head(P) /\ r = Tail(P) /\ P = <<h>> \o r
    <3>1. Head(P) \in Text /\ Tail(P) \in Seq(Text) /\ P = <<Head(P)>> \o Tail(P)
        BY <2>2, Split
    <3> QED BY <3>1, Zenon
  <2>4. PICK g \in Text, s \in Seq(Text) : g = Head(Q) /\ s = Tail(Q) /\ Q = <<g>> \o s
    <3>1. Head(Q) \in Text /\ Tail(Q) \in Seq(Text) /\ Q = <<Head(Q)>> \o Tail(Q)
        BY <2>2, Split
    <3> QED BY <3>1, Zenon
  <2>5. NotLonger(h, g) /\ Matched(r, s)
    <3>1. Matched(<<h>> \o r, <<g>> \o s)
        BY <2>2, <2>3, <2>4, Zenon
    <3> QED BY <3>1, MatchedFirst, Zenon
  <2>6. Parts[<<c>> \o p] = IF c = Dot THEN <<<<>>>> \o P ELSE <<<<c>> \o h>> \o r
      BY <2>1, <2>3, PartsAre
  <2>7. CASE c = Dot
    <3>1. Parts[x \o q] = <<<<>>>> \o Q
        BY <2>1, <2>7, PartsAre, TextsAre
    <3>2. NotLonger(<<>>, <<>>)
      <4>1. Len(Encode[<<>>]) = 0 /\ Weight(<<>>) = 0
          BY EncodeIs, WeightIs
      <4> QED BY <4>1 DEF NotLonger
    <3>3. PICK e \in Text : e = <<>>
        BY TextsAre
    <3>4. Matched(<<e>> \o P, <<e>> \o Q)
        BY <2>2, <3>2, <3>3, MatchedFirst
    <3> QED BY <2>6, <2>7, <3>1, <3>3, <3>4
  <2>8. CASE c # Dot
    <3>1. Parts[x \o q] = <<x \o g>> \o s
        BY <2>1, <2>4, <2>8, PartsFront
    <3>2. PICK a \in Text, b \in Text : a = <<c>> \o h /\ b = x \o g
        BY TextsAre
    <3>3. NotLonger(a, b)
      <4> SUFFICES ASSUME \A d \in ToSet(a) : ~Grows(d) PROVE Len(Encode[b]) <= Weight(a)
          BY DEF NotLonger
      <4>1. ToSet(a) = {c} \cup ToSet(h)
          BY <3>2, ToSetIs DEF Text
      <4>2. ~Grows(c) /\ \A d \in ToSet(h) : ~Grows(d)
          BY <4>1
      <4>3. PICK i \in Nat, j \in Nat, l \in Nat, m \in Nat :
                i = Len(Encode[x]) /\ j = Len(Encode[g]) /\ l = Least(c) /\ m = Weight(h)
        <5>1. Len(Encode[x]) \in Nat /\ Len(Encode[g]) \in Nat
            BY EncodeIs, OctetsAre
        <5>2. Least(c) \in Nat /\ Weight(h) \in Nat
            BY SqueezedIs, WeightIs
        <5> QED BY <5>1, <5>2, Zenon
      <4>4. i <= l
          BY <4>2, <4>3
      <4>5. j <= m
          BY <2>5, <4>2, <4>3 DEF NotLonger
      <4>6. Len(Encode[b]) = i + j
          BY <3>2, <4>3, EncodeJoin
      <4>7. Weight(a) = l + m
          BY <3>2, <4>3, WeightIs
      <4>8. i + j <= l + m
          BY <4>4, <4>5
      <4> QED BY <4>6, <4>7, <4>8
    <3>4. Matched(<<a>> \o r, <<b>> \o s)
        BY <2>5, <3>3, MatchedFirst
    <3> QED BY <2>6, <2>8, <3>1, <3>2, <3>4
  <2> QED BY <2>7, <2>8
<1> QED BY <1>1, <1>2, <1>3, <1>4 DEF Lowered

\* The lower case of a text, and of a text in lower case.
LEMMA LowerIs ==
    ASSUME NEW t \in Text
    PROVE  /\ Lower(t) \in Text /\ Lowered(t, Lower(t))
           /\ (\A d \in ToSet(t) : d \notin Raised) => Lower(t) = t
<1>1. Lower(t) \in Text /\ Lowered(t, Lower(t))
  <2>1. PICK T : T = {pair \in Text \X Text : Lowered(pair[1], pair[2])}
      OBVIOUS
  <2>2. <<<<>>, <<>>>> \in T
    <3>1. ToSet(<<>>) = {} /\ <<>> \in Text
        BY TextsAre DEF ToSet
    <3>2. Matched(Parts[<<>>], Parts[<<>>])
      <4>1. Parts[<<>>] = <<<<>>>>
          BY PartsAre
      <4>2. Len(Encode[<<>>]) = 0 /\ Weight(<<>>) = 0
          BY EncodeIs, WeightIs
      <4>3. NotLonger(<<>>, <<>>)
          BY <4>2 DEF NotLonger
      <4> QED BY <4>1, <4>3 DEF Matched
    <3> QED BY <2>1, <3>1, <3>2 DEF Lowered
  <2>3. ASSUME NEW k \in 1..Len(t), NEW p \in Text, NEW q \in Text, <<p, q>> \in T
        PROVE  <<<<t[k]>> \o p, LowerAt(t, k) \o q>> \in T
    <3>1. Lowered(p, q)
        BY <2>1, <2>3
    <3>2. PICK c, x : c = t[k] /\ x = LowerAt(t, k)
        OBVIOUS
    <3>3. /\ c \in Char
          /\ x \in Text /\ x # <<>> /\ \A d \in ToSet(x) : d \notin Raised
          /\ c = Dot => x = <<Dot>>
          /\ c # Dot => Dot \notin ToSet(x)
          /\ ~Grows(c) => Len(Encode[x]) <= Least(c)
        BY <3>2, LowerAtIs
    <3>4. Lowered(<<c>> \o p, x \o q)
        BY <3>1, <3>3, LoweredFirst
    <3>5. <<c>> \o p \in Text /\ x \o q \in Text
        BY <3>3, TextsAre
    <3> QED BY <2>1, <3>2, <3>4, <3>5
  <2>4. Lower(t) \in Text /\ <<t, Lower(t)>> \in T
      BY <2>2, <2>3, LowerByPieces
  <2> QED BY <2>1, <2>4
<1>2. ASSUME \A d \in ToSet(t) : d \notin Raised PROVE Lower(t) = t
  <2>1. PICK T : T = {<<p, p>> : p \in Text}
      OBVIOUS
  <2>2. <<<<>>, <<>>>> \in T
      BY <2>1, TextsAre
  <2>3. ASSUME NEW k \in 1..Len(t), NEW p \in Text, NEW q \in Text, <<p, q>> \in T
        PROVE  <<<<t[k]>> \o p, LowerAt(t, k) \o q>> \in T
    <3>1. p = q
        BY <2>1, <2>3
    <3>2. PICK c : c = t[k] /\ c \in Char /\ c \notin Raised
      <4>1. k \in DOMAIN t
          BY DEF Text
      <4> QED BY <1>2, <4>1, ToSetIs, LowerAtIs DEF Text
    <3>3. LowerAt(t, k) = <<c>>
        BY <3>2, LowerAtIs
    <3> QED BY <2>1, <3>1, <3>2, <3>3, TextsAre
  <2>4. <<t, Lower(t)>> \in T
      BY <2>2, <2>3, LowerByPieces
  <2> QED BY <2>1, <2>4
<1> QED BY <1>1, <1>2

\* Trim takes the dots off the end.
LEMMA TrimIs ==
    ASSUME NEW t \in Text
    PROVE  /\ Trim(t) \in Text /\ Len(Trim(t)) <= Len(t)
           /\ Trim(t) = t \/ \E u \in Text : t = Trim(t) \o (<<Dot>> \o u)
           /\ Trim(t) # <<>> => Trim(t)[Len(Trim(t))] # Dot
           /\ Len(t) = 0 \/ t[Len(t)] # Dot => Trim(t) = t
<1> DEFINE IsEnd(n) == /\ n = 0 \/ t[n] # Dot
                       /\ \A k \in (n + 1)..Len(t) : t[k] = Dot
<1>1. PICK l \in Nat : l = Len(t) /\ t \in Seq(Char)
    BY TextsAre DEF Text
<1>2. \E n \in 0..l : IsEnd(n)
  <2>1. PICK S : S = {l - n : n \in {m \in 0..l : m = 0 \/ t[m] # Dot}}
      OBVIOUS
  <2>2. S \in SUBSET Nat /\ S # {}
    <3>1. l - 0 \in S
        BY <2>1
    <3> QED BY <2>1, <3>1
  <2>3. PICK x \in S : \A k \in S : x <= k
      BY <2>2, LeastNumber
  <2>4. PICK n \in 0..l : x = l - n /\ (n = 0 \/ t[n] # Dot)
      BY <2>1
  <2>5. ASSUME NEW k \in (n + 1)..l, t[k] # Dot PROVE FALSE
    <3>1. k \in 0..l /\ l - k < l - n
        BY <2>5
    <3>2. l - k \in S
        BY <2>1, <2>5, <3>1
    <3> QED BY <2>3, <2>4, <3>1, <3>2
  <2> QED BY <1>1, <2>4, <2>5
<1>3. PICK n \in 0..l : IsEnd(n) /\ Trim(t) = SubSeq(t, 1, n)
  <2>1. PICK n : n = CHOOSE m \in 0..Len(t) : IsEnd(m)
      OBVIOUS
  <2>2. n \in 0..l /\ IsEnd(n)
    <3> HIDE DEF IsEnd
    <3> QED BY <1>1, <1>2, <2>1
  <2>3. Trim(t) = SubSeq(t, 1, n)
      BY <2>1 DEF Trim
  <2> QED BY <2>2, <2>3
<1>4. \A i \in 1..l : t[i] \in Char
    BY <1>1
<1>5. PICK s : s = SubSeq(t, 1, n)
    OBVIOUS
<1>6. s \in Seq(Char) /\ Len(s) = n /\ \A i \in 1..n : s[i] = t[i]
  <2>1. \A i \in 1..n : t[i] \in Char
      BY <1>4
  <2>2. /\ s \in Seq(Char) /\ Len(s) = IF 1 <= n THEN n - 1 + 1 ELSE 0
        /\ \A i \in 1..(n - 1 + 1) : s[i] = t[1 + i - 1]
      BY <1>5, <2>1, SubSeqProperties
  <2>3. n - 1 + 1 = n /\ Len(s) = n
      BY <2>2
  <2> QED BY <2>2, <2>3
<1>7. n = l => s = t
    BY <1>1, <1>6, SeqEqual
<1>8. ASSUME n # l PROVE \E u \in Text : t = s \o (<<Dot>> \o u)
  <2>1. PICK u : u = SubSeq(t, n + 2, l)
      OBVIOUS
  <2>2. /\ u \in Seq(Char) /\ Len(u) = l - n - 1
        /\ \A i \in 1..(l - n - 1) : u[i] = t[n + 1 + i]
    <3>1. PICK m \in Int : m = n + 2
        OBVIOUS
    <3>2. \A i \in m..l : t[i] \in Char
        BY <1>4, <3>1
    <3>3. /\ SubSeq(t, m, l) \in Seq(Char)
          /\ Len(SubSeq(t, m, l)) = IF m <= l THEN l - m + 1 ELSE 0
          /\ \A i \in 1..(l - m + 1) : SubSeq(t, m, l)[i] = t[m + i - 1]
        BY <3>2, SubSeqProperties
    <3>4. Len(u) = l - n - 1
        BY <1>8, <2>1, <3>1, <3>3
    <3>5. ASSUME NEW i \in 1..(l - n - 1) PROVE u[i] = t[n + 1 + i]
      <4>1. i \in 1..(l - m + 1) /\ m + i - 1 = n + 1 + i
          BY <3>1
      <4> QED BY <2>1, <3>1, <3>3, <4>1
    <3> QED BY <2>1, <3>1, <3>3, <3>4, <3>5
  <2>3. PICK v : v = <<Dot>> \o u
      OBVIOUS
  <2>4. <<Dot>> \in Seq(Char) /\ Len(<<Dot>>) = 1 /\ <<Dot>>[1] = Dot
      BY TextsAre DEF Text
  <2>5. /\ v \in Seq(Char) /\ Len(v) = l - n
        /\ \A i \in 1..(l - n) : v[i] = IF i <= 1 THEN Dot ELSE u[i - 1]
    <3>1. /\ v \in Seq(Char) /\ Len(v) = 1 + Len(u)
          /\ \A i \in 1..(1 + Len(u)) : v[i] = IF i <= 1 THEN Dot ELSE u[i - 1]
        BY <2>2, <2>3, <2>4, ConcatProperties
    <3>2. 1 + Len(u) = l - n
        BY <2>2
    <3> QED BY <3>1, <3>2
  <2>6. /\ s \o v \in Seq(Char) /\ Len(s \o v) = l
        /\ \A i \in 1..l : (s \o v)[i] = IF i <= n THEN s[i] ELSE v[i - n]
    <3>1. PICK m : m = Len(v)
        OBVIOUS
    <3>2. /\ s \o v \in Seq(Char) /\ Len(s \o v) = n + m
          /\ \A i \in 1..(n + m) : (s \o v)[i] = IF i <= n THEN s[i] ELSE v[i - n]
        BY <1>6, <2>5, <3>1, ConcatProperties
    <3>3. n + m = l
        BY <2>5, <3>1
    <3> QED BY <3>2, <3>3
  <2>7. ASSUME NEW i \in 1..l PROVE (s \o v)[i] = t[i]
    <3>1. CASE i <= n
        BY <1>6, <2>6, <3>1
    <3>2. CASE i = n + 1
      <4>1. ~(i <= n) /\ i - n = 1 /\ 1 \in 1..(l - n) /\ i \in (n + 1)..l
          BY <1>8, <3>2
      <4>2. t[i] = Dot
          BY <1>1, <1>3, <4>1
      <4> QED BY <2>5, <2>6, <4>1, <4>2
    <3>3. CASE i > n + 1
      <4>1. /\ ~(i <= n) /\ i - n \in 1..(l - n) /\ ~(i - n <= 1)
            /\ (i - n) - 1 \in 1..(l - n - 1) /\ n + 1 + ((i - n) - 1) = i
          BY <3>3
      <4>2. v[i - n] = u[(i - n) - 1]
          BY <2>5, <4>1
      <4>3. u[(i - n) - 1] = t[i]
          BY <2>2, <4>1
      <4> QED BY <2>6, <4>1, <4>2, <4>3
    <3>4. i <= n \/ i = n + 1 \/ i > n + 1
        OBVIOUS
    <3> QED BY <3>1, <3>2, <3>3, <3>4
  <2>8. t = s \o v
      BY <1>1, <2>6, <2>7, SeqEqual
  <2> QED BY <2>2, <2>3, <2>8 DEF Text
<1>9. s # <<>> => n # 0 /\ s[Len(s)] # Dot
  <2>1. n = 0 => s = <<>>
      BY <1>6
  <2>2. n # 0 => n \in 1..n
      OBVIOUS
  <2> QED BY <1>3, <1>6, <2>1, <2>2
<1>10. n <= l
    OBVIOUS
<1>11. l = 0 \/ t[l] # Dot => n = l
  <2>1. ASSUME n # l PROVE l # 0 /\ t[l] = Dot
    <3>1. l \in (n + 1)..l /\ l # 0
        BY <2>1
    <3> QED BY <1>1, <1>3, <3>1
  <2> QED BY <2>1
<1> QED BY <1>1, <1>3, <1>5, <1>6, <1>7, <1>8, <1>9, <1>10, <1>11 DEF Text

\* Canon gives a text and is idempotent.
LEMMA CanonIs ==
    ASSUME NEW t \in Text
    PROVE  Canon(t) \in Text /\ Canon(Canon(t)) = Canon(t)
<1>1. PICK s : s = Trim(t) /\ s \in Text /\ (s # <<>> => s[Len(s)] # Dot)
    BY TrimIs
<1>2. PICK c : c = Lower(s) /\ c \in Text /\ Lowered(s, c)
    BY <1>1, LowerIs
<1>3. Trim(c) = c
  <2>1. CASE c = <<>>
    <3>1. Len(c) = 0
        BY <2>1
    <3> QED BY <1>2, <3>1, TrimIs
  <2>2. CASE c # <<>>
    <3>1. s # <<>> /\ c[Len(c)] # Dot
        BY <1>1, <1>2, <2>2 DEF Lowered
    <3> QED BY <1>2, <3>1, TrimIs
  <2> QED BY <2>1, <2>2
<1>4. Lower(c) = c
    BY <1>2, LowerIs DEF Lowered
<1> QED BY <1>1, <1>2, <1>3, <1>4 DEF Canon

\* Each part of the canonical name is that of the name at its place, in lower
\* case.
LEMMA CanonParts ==
    ASSUME NEW t \in Text, NEW k \in DOMAIN Parts[Canon(t)]
    PROVE  k \in DOMAIN Parts[t] /\ NotLonger(Parts[t][k], Parts[Canon(t)][k])
<1>1. PICK s : s = Trim(t) /\ s \in Text /\ (s = t \/ \E u \in Text : t = s \o (<<Dot>> \o u))
    BY TrimIs
<1>2. PICK P, Q : P = Parts[s] /\ Q = Parts[Canon(t)]
    OBVIOUS
<1>3. P \in Seq(Text) /\ Q \in Seq(Text) /\ Matched(P, Q)
  <2>1. Canon(t) = Lower(s) /\ Canon(t) \in Text /\ Lowered(s, Lower(s))
      BY <1>1, CanonIs, LowerIs DEF Canon
  <2> QED BY <1>1, <1>2, <2>1, PartsAre DEF Lowered
<1>4. PICK n \in Nat : n = Len(P) /\ DOMAIN P = 1..n /\ DOMAIN Q = 1..n
  <2>1. Len(P) \in Nat /\ DOMAIN P = 1..Len(P) /\ DOMAIN Q = 1..Len(Q) /\ Len(Q) = Len(P)
      BY <1>3 DEF Matched
  <2> QED BY <2>1
<1>5. k \in 1..n /\ NotLonger(P[k], Q[k])
    BY <1>2, <1>3, <1>4 DEF Matched
<1>6. k \in DOMAIN Parts[t] /\ Parts[t][k] = P[k]
  <2>1. CASE s = t
      BY <1>2, <1>4, <1>5, <2>1
  <2>2. ASSUME NEW u \in Text, t = s \o (<<Dot>> \o u)
        PROVE  k \in DOMAIN Parts[t] /\ Parts[t][k] = P[k]
    <3>1. PICK R \in Seq(Text) : R = Parts[u]
        BY PartsAre
    <3>2. PICK m \in Nat : m = Len(R)
        OBVIOUS
    <3>3. Parts[t] = P \o R
        BY <1>1, <1>2, <2>2, <3>1, PartsJoin
    <3>4. /\ P \o R \in Seq(Text) /\ Len(P \o R) = n + m
          /\ \A i \in 1..(n + m) : (P \o R)[i] = IF i <= n THEN P[i] ELSE R[i - n]
        BY <1>3, <1>4, <3>2, ConcatProperties
    <3>5. k \in 1..(n + m) /\ k <= n
        BY <1>5
    <3>6. DOMAIN (P \o R) = 1..(n + m)
        BY <3>4, LenProperties
    <3> QED BY <3>3, <3>4, <3>5, <3>6
  <2> QED BY <1>1, <2>1, <2>2
<1> QED BY <1>2, <1>5, <1>6

\* No label is too long for write_name.
Fits(name) == \A p \in ToSet(Parts[name]) : ~TooLong(p)

\* A name of short parts that does not fit has a part that is too long where
\* the name has a character that grows.
LEMMA GrownPart ==
    ASSUME NEW t \in Text, \A p \in ToSet(Parts[t]) : Weight(p) <= 63, ~Fits(Canon(t))
    PROVE  \E k \in DOMAIN Parts[Canon(t)] :
              TooLong(Parts[Canon(t)][k]) /\ \E c \in ToSet(Parts[t][k]) : Grows(c)
<1>1. PICK P, Q : P = Parts[t] /\ Q = Parts[Canon(t)]
    OBVIOUS
<1>2. P \in Seq(Text) /\ Q \in Seq(Text)
    BY <1>1, CanonIs, PartsAre
<1>3. PICK k \in DOMAIN Q : TooLong(Q[k])
    BY <1>1 DEF Fits, ToSet
<1>4. k \in DOMAIN P /\ NotLonger(P[k], Q[k])
    BY <1>1, CanonParts
<1>5. P[k] \in Text /\ Q[k] \in Text /\ Weight(P[k]) <= 63
  <2>1. P[k] \in ToSet(P) /\ Q[k] \in ToSet(Q)
      BY <1>2, <1>4, ToSetIs
  <2>2. ToSet(P) \subseteq Text /\ ToSet(Q) \subseteq Text
      BY <1>2, ToSetIs
  <2> QED BY <1>1, <2>1, <2>2
<1>6. ASSUME \A c \in ToSet(P[k]) : ~Grows(c) PROVE FALSE
  <2>1. Len(Encode[Q[k]]) <= Weight(P[k])
      BY <1>4, <1>6 DEF NotLonger
  <2>2. PICK m \in Nat, n \in Nat : m = Len(Encode[Q[k]]) /\ n = Weight(P[k])
      BY <1>5, EncodeIs, OctetsAre, WeightIs
  <2>3. m > 63 /\ n <= 63 /\ m <= n
      BY <1>3, <1>5, <2>1, <2>2 DEF TooLong
  <2> QED BY <2>3
<1> QED BY <1>1, <1>3, <1>6

\* A label that is taken reads as a text that weighs at most 63 bytes.
LEMMA LabelIs ==
    ASSUME NEW d \in Octets, NEW o \in Nat, TakesLabel(d, o)
    PROVE  /\ Lossy[Slice(d, o + 1, Byte(d, o))] \in Text
           /\ Weight(Lossy[Slice(d, o + 1, Byte(d, o))]) <= 63
<1>1. PICK a, b : a \in Nat /\ a = o + 1 /\ b = Byte(d, o)
    OBVIOUS
<1>2. b \in 1..63 /\ a + b <= Len(d)
    BY <1>1 DEF TakesLabel
<1>3. b \in Nat
    BY <1>2
<1>4. Slice(d, a, b) \in Octets /\ Len(Slice(d, a, b)) = b
    BY <1>1, <1>2, <1>3, SliceType
<1>5. PICK t : t = Lossy[Slice(d, a, b)] /\ t \in Text /\ Weight(t) <= b
    BY <1>4, LossyIs
<1>6. Weight(t) <= 63
  <2>1. PICK n \in Nat : n = Weight(t)
      BY <1>5, WeightIs
  <2> QED BY <1>2, <1>5, <2>1
<1> QED BY <1>1, <1>5, <1>6

\* A label before a name adds the parts of the label only.
LEMMA JoinedParts ==
    ASSUME NEW a \in Text, NEW b \in Text
    PROVE  ToSet(Parts[Joined(a, b)]) \subseteq ToSet(Parts[a]) \cup ToSet(Parts[b])
<1>1. CASE b = <<>>
  <2>1. a \o <<>> = a
      BY ConcatEmptySeq DEF Text
  <2> QED BY <1>1, <2>1 DEF Joined
<1>2. CASE b # <<>>
  <2>1. Joined(a, b) = a \o (<<Dot>> \o b)
      BY <1>2 DEF Joined
  <2>2. Parts[Joined(a, b)] = Parts[a] \o Parts[b]
      BY <2>1, PartsJoin
  <2>3. Parts[a] \in Seq(Text) /\ Parts[b] \in Seq(Text)
      BY PartsAre
  <2>4. ToSet(Parts[a] \o Parts[b]) = ToSet(Parts[a]) \cup ToSet(Parts[b])
      BY <2>3, ToSetIs
  <2> QED BY <2>2, <2>4
<1> QED BY <1>1, <1>2

\* The parts of a name that was parsed weigh no more than labels.
LEMMA NamePartsShort ==
    \A d \in Octets, o \in Nat, v \in SUBSET Targets :
        \A p \in ToSet(Parts[Name[<<d, o, v>>].text]) : Weight(p) <= 63
<1> DEFINE Short(t) == \A p \in ToSet(Parts[t]) : Weight(p) <= 63
<1>1. PICK T : T = {at \in Reads : Short(Name[at].text)}
    OBVIOUS
<1>2. Short(<<>>)
  <2>1. ToSet(Parts[<<>>]) = {<<>>} /\ Weight(<<>>) <= 63
      BY PartsAre, WeightIs DEF ToSet
  <2> QED BY <2>1
<1>3. ASSUME NEW t \in Text, Weight(t) <= 63 PROVE Short(t)
  <2>1. ASSUME NEW p \in ToSet(Parts[t]) PROVE Weight(p) <= 63
    <3>1. p \in Text /\ Weight(p) <= Weight(t)
        BY PartsShort
    <3>2. PICK m \in Nat, n \in Nat : m = Weight(p) /\ n = Weight(t)
        BY <3>1, WeightIs
    <3>3. m <= 63
        BY <1>3, <3>1, <3>2
    <3> QED BY <3>2, <3>3
  <2> QED BY <2>1
<1>4. ASSUME NEW a \in Text, NEW b \in Text, Short(a), Short(b) PROVE Short(Joined(a, b))
    BY <1>4, JoinedParts
<1> HIDE DEF Short
<1>5. ASSUME NEW x \in Reads, \A y \in Reads : ReadRank[y] < ReadRank[x] => y \in T
      PROVE  x \in T
  <2>1. PICK d \in Octets, o \in Nat, v \in SUBSET Targets : x = <<d, o, v>>
      BY DEF Reads
  <2>2. PICK sub : sub = Name[<<d, Target(d, o), v \cup {Target(d, o)}>>]
      OBVIOUS
  <2>3. PICK rest : rest = Name[<<d, o + 1 + Byte(d, o), v>>]
      OBVIOUS
  <2>4. Follows(d, o, v) => Short(sub.text)
      BY <1>1, <1>5, <2>1, <2>2, ReadRankFalls
  <2>5. TakesLabel(d, o) => Short(rest.text) /\ rest \in Readings
    <3>1. TakesLabel(d, o) => <<d, o + 1 + Byte(d, o), v>> \in T
        BY <1>5, <2>1, ReadRankFalls
    <3>2. ASSUME TakesLabel(d, o) PROVE rest \in Readings
      <4>1. <<d, o + 1 + Byte(d, o), v>> \in Reads
          BY <3>2, ReadRankFalls
      <4>2. PICK n : n = o + 1 + Byte(d, o)
          OBVIOUS
      <4>3. n \in Nat
          BY <4>1, <4>2 DEF Reads
      <4> QED BY <2>3, <4>2, <4>3, NameIs
    <3> QED BY <1>1, <2>3, <3>1, <3>2
  <2>6. Name[x] = NameCases(Name, d, o, v)
      BY <2>1, NameIs
  <2>7. CASE o < Len(d) /\ Byte(d, o) = 0
    <3>1. Name[x].text = <<>>
        BY <2>6, <2>7 DEF NameCases
    <3> QED BY <1>1, <1>2, <3>1
  <2>8. CASE ~(o < Len(d) /\ Byte(d, o) = 0) /\ Follows(d, o, v) /\ sub.ok
    <3>1. sub \in Readings
      <4>1. <<d, Target(d, o), v \cup {Target(d, o)}>> \in Reads
          BY <2>8, ReadRankFalls
      <4>2. Target(d, o) \in Nat /\ v \cup {Target(d, o)} \in SUBSET Targets
          BY <4>1 DEF Reads
      <4> QED BY <2>2, <4>2, NameIs
    <3>2. Name[x] = [sub EXCEPT !.next = o + 2]
        BY <2>2, <2>6, <2>8 DEF NameCases
    <3>3. Name[x].text = sub.text
        BY <3>1, <3>2 DEF Readings
    <3> QED BY <1>1, <2>4, <2>8, <3>3
  <2>9. CASE /\ ~(o < Len(d) /\ Byte(d, o) = 0) /\ ~(Follows(d, o, v) /\ sub.ok)
             /\ TakesLabel(d, o) /\ rest.ok
    <3>1. PICK label : label = Lossy[Slice(d, o + 1, Byte(d, o))]
        OBVIOUS
    <3>2. label \in Text /\ Short(label)
        BY <1>3, <2>9, <3>1, LabelIs
    <3>3. Name[x] = [rest EXCEPT !.text = Joined(label, @)]
        BY <2>2, <2>3, <2>6, <2>9, <3>1 DEF NameCases, Joined
    <3>4. rest.text \in Text /\ Name[x].text = Joined(label, rest.text)
        BY <2>5, <2>9, <3>3 DEF Readings
    <3> QED BY <1>1, <1>4, <2>5, <2>9, <3>2, <3>4
  <2>10. CASE /\ ~(o < Len(d) /\ Byte(d, o) = 0) /\ ~(Follows(d, o, v) /\ sub.ok)
              /\ ~(TakesLabel(d, o) /\ rest.ok)
    <3>1. Name[x] = NoName
        BY <2>2, <2>3, <2>6, <2>10 DEF NameCases
    <3> QED BY <1>1, <1>2, <3>1 DEF NoName
  <2> QED BY <2>7, <2>8, <2>9, <2>10
<1>6. Reads \subseteq T
    BY <1>5, ReadRankFalls, RankInduction
<1>7. \A d \in Octets, o \in Nat, v \in SUBSET Targets : Short(Name[<<d, o, v>>].text)
    BY <1>1, <1>6, ReadRankFalls
<1> QED BY <1>7 DEF Short

-----------------------------------------------------------------------------
(* What the serializer writes *)

Dicts == UNION {[S -> Nat] : S \in SUBSET Text}
Writers == [buf : Octets, dict : Dicts, ok : BOOLEAN]

\* The bytes a name is written as, the names known after that, and whether it
\* can be written.
NameBytes(dict, name) ==
    CASE name = <<>>                          -> <<0>>
      [] name # <<>> /\ name \in DOMAIN dict  -> Bytes16(49152 + dict[name])
      [] name # <<>> /\ name \notin DOMAIN dict ->
            IF Fits(name) THEN Labels[Parts[name]] ELSE <<>>
Learns(len, dict, name) ==
    name # <<>> /\ name \notin DOMAIN dict /\ Fits(name) /\ len % 65536 < 16383
NameDict(len, dict, name) ==
    IF Learns(len, dict, name)
    THEN [n \in DOMAIN dict \cup {name} |-> IF n = name THEN len % 65536 ELSE dict[n]]
    ELSE dict
NameFits(dict, name) == name = <<>> \/ name \in DOMAIN dict \/ Fits(name)

\* A number of 16 bits takes two bytes.
LEMMA Bytes16Type == \A n \in Nat : Bytes16(n) \in Octets /\ Len(Bytes16(n)) = 2
<1>1. ASSUME NEW n \in Nat PROVE Bytes16(n) \in Octets /\ Len(Bytes16(n)) = 2
  <2>1. PICK a, b : a = (n \div 256) % 256 /\ b = n % 256
      OBVIOUS
  <2>2. a \in 0..255 /\ b \in 0..255
    <3>1. n \div 256 \in Nat
        OBVIOUS
    <3>2. \A m \in Nat : m % 256 \in 0..255
        OBVIOUS
    <3> QED BY <2>1, <3>1, <3>2
  <2>3. <<a, b>> \in Seq(Octet) /\ Len(<<a, b>>) = 2
      BY <2>2 DEF Octet
  <2> QED BY <2>1, <2>3 DEF Bytes16, Octets
<1> QED BY <1>1

\* What write_name appends, learns and rejects has its type.
LEMMA NameBytesType ==
    ASSUME NEW dict \in Dicts, NEW name \in Text, NEW len \in Nat
    PROVE  /\ NameBytes(dict, name) \in Octets
           /\ NameDict(len, dict, name) \in Dicts
           /\ NameFits(dict, name) \in BOOLEAN
<1>1. NameBytes(dict, name) \in Octets
  <2>1. CASE name = <<>>
    <3>1. 0 \in Octet
        BY DEF Octet
    <3> QED BY <2>1, <3>1, OctetsAre DEF NameBytes
  <2>2. CASE name # <<>> /\ name \in DOMAIN dict
    <3>1. PICK n : n = 49152 + dict[name]
        OBVIOUS
    <3>2. dict[name] \in Nat
        BY <2>2 DEF Dicts
    <3>3. n \in Nat
        BY <3>1, <3>2
    <3> QED BY <2>2, <3>1, <3>3, Bytes16Type DEF NameBytes
  <2>3. CASE name # <<>> /\ name \notin DOMAIN dict
      BY <2>3, PartsAre, LabelsAre, OctetsAre DEF NameBytes
  <2> QED BY <2>1, <2>2, <2>3
<1>2. NameDict(len, dict, name) \in Dicts
  <2>1. len % 65536 \in Nat
      OBVIOUS
  <2>2. PICK S \in SUBSET Text : dict \in [S -> Nat]
      BY DEF Dicts
  <2>3. PICK at \in Nat : at = len % 65536
      BY <2>1
  <2>4. [n \in S \cup {name} |-> IF n = name THEN at ELSE dict[n]] \in [S \cup {name} -> Nat]
      BY <2>2, <2>3
  <2>5. S \cup {name} \in SUBSET Text /\ DOMAIN dict = S
      BY <2>2
  <2>6. [n \in S \cup {name} |-> IF n = name THEN at ELSE dict[n]] \in Dicts
      BY <2>4, <2>5 DEF Dicts
  <2> QED BY <2>3, <2>5, <2>6 DEF NameDict
<1> QED BY <1>1, <1>2 DEF NameFits

\* Put appends and touches nothing else.
LEMMA PutType ==
    ASSUME NEW w \in Writers, NEW b \in Octets
    PROVE  /\ Put(w, b) \in Writers
           /\ Put(w, b) = [buf |-> w.buf \o b, dict |-> w.dict, ok |-> w.ok]
           /\ Put(w, b).buf = w.buf \o b /\ Put(w, b).dict = w.dict /\ Put(w, b).ok = w.ok
<1>1. w.buf \in Octets /\ w.dict \in Dicts /\ w.ok \in BOOLEAN
    BY DEF Writers
<1>2. w.buf \o b \in Octets
    BY <1>1, OctetsJoin
<1>3. PICK buf, dict, ok : /\ w = [buf |-> buf, dict |-> dict, ok |-> ok]
                           /\ buf = w.buf /\ dict = w.dict /\ ok = w.ok
    BY DEF Writers
<1>4. PICK v : v = buf \o b
    OBVIOUS
<1>5. Put(w, b) = [w EXCEPT !.buf = v]
    BY <1>3, <1>4 DEF Put
<1>6. [w EXCEPT !.buf = v] = [buf |-> v, dict |-> dict, ok |-> ok]
    BY <1>3
<1>7. [buf |-> v, dict |-> dict, ok |-> ok] \in Writers
    BY <1>1, <1>2, <1>3, <1>4 DEF Writers
<1> QED BY <1>3, <1>4, <1>5, <1>6, <1>7

\* WriteName in one record: the bytes, the offset learned, and whether the name fits.
LEMMA WriteNameIs ==
    ASSUME NEW w \in Writers, NEW t \in Text
    PROVE  WriteName(w, t) = [buf |-> w.buf \o NameBytes(w.dict, Canon(t)),
                              dict |-> NameDict(Len(w.buf), w.dict, Canon(t)),
                              ok |-> w.ok /\ NameFits(w.dict, Canon(t))]
<1>1. PICK name : name = Canon(t) /\ name \in Text
    BY CanonIs
<1>2. PICK buf, dict, ok : /\ buf = w.buf /\ dict = w.dict /\ ok = w.ok
                           /\ w = [buf |-> buf, dict |-> dict, ok |-> ok]
    BY DEF Writers
<1>3. buf \in Octets /\ dict \in Dicts /\ ok \in BOOLEAN
    BY <1>2 DEF Writers
<1>4. PICK written : written = [buf |-> buf \o NameBytes(dict, name),
                                dict |-> NameDict(Len(buf), dict, name),
                                ok |-> ok /\ NameFits(dict, name)]
    OBVIOUS
<1>5. CASE name = <<>>
  <2>1. WriteCanon(w, name) = [buf |-> buf \o <<0>>, dict |-> dict, ok |-> ok]
    <3>1. <<0>> \in Octets
        BY OctetsAre DEF Octet
    <3>2. Put(w, <<0>>) = [buf |-> buf \o <<0>>, dict |-> dict, ok |-> ok]
        BY <1>2, <3>1, PutType
    <3> QED BY <1>5, <3>2 DEF WriteCanon
  <2>2. /\ NameBytes(dict, name) = <<0>> /\ NameDict(Len(buf), dict, name) = dict
        /\ NameFits(dict, name)
      BY <1>5 DEF NameBytes, NameDict, Learns, NameFits
  <2> QED BY <1>1, <1>2, <1>3, <2>1, <2>2 DEF WriteName
<1>6. CASE name # <<>> /\ name \in DOMAIN dict
  <2>1. WriteCanon(w, name) = [buf |-> buf \o Bytes16(49152 + dict[name]),
                               dict |-> dict, ok |-> ok]
    <3>1. PICK n : n = 49152 + dict[name]
        OBVIOUS
    <3>2. dict[name] \in Nat
        BY <1>3, <1>6 DEF Dicts
    <3>3. n \in Nat
        BY <3>1, <3>2
    <3>4. Put(w, Bytes16(n)) = [buf |-> buf \o Bytes16(n), dict |-> dict, ok |-> ok]
        BY <1>2, <3>3, Bytes16Type, PutType
    <3> QED BY <1>2, <1>6, <3>1, <3>4 DEF WriteCanon
  <2>2. /\ NameBytes(dict, name) = Bytes16(49152 + dict[name])
        /\ NameDict(Len(buf), dict, name) = dict /\ NameFits(dict, name)
      BY <1>6 DEF NameBytes, NameDict, Learns, NameFits
  <2>3. (ok /\ NameFits(dict, name)) = ok
      BY <1>3, <2>2
  <2>4. WriteCanon(w, name) = [buf |-> buf \o NameBytes(dict, name),
                               dict |-> NameDict(Len(buf), dict, name),
                               ok |-> ok /\ NameFits(dict, name)]
      BY <2>1, <2>2, <2>3
  <2> QED BY <1>1, <1>2, <2>4 DEF WriteName
<1>7. CASE name # <<>> /\ name \notin DOMAIN dict
  <2>1. WriteCanon(w, name) = WriteParts(w, name, Parts[name])
      BY <1>2, <1>7 DEF WriteCanon
  <2>2. Fits(name) <=> ~\E k \in DOMAIN Parts[name] : TooLong(Parts[name][k])
      BY DEF Fits, ToSet
  <2>3. CASE ~Fits(name)
    <3>1. WriteCanon(w, name) = [buf |-> buf, dict |-> dict, ok |-> FALSE]
        BY <1>2, <2>1, <2>2, <2>3 DEF WriteParts
    <3>2. /\ NameBytes(dict, name) = <<>>
          /\ NameDict(Len(buf), dict, name) = dict /\ ~NameFits(dict, name)
        BY <1>7, <2>3 DEF NameBytes, NameDict, Learns, NameFits
    <3>3. buf \o <<>> = buf
        BY <1>3, ConcatEmptySeq DEF Octets
    <3>4. written = [buf |-> buf, dict |-> dict, ok |-> FALSE]
        BY <1>3, <1>4, <3>2, <3>3
    <3> QED BY <1>1, <1>2, <1>4, <3>1, <3>4 DEF WriteName
  <2>4. CASE Fits(name)
    <3>1. WriteCanon(w, name) = Put(Remember(w, name), Labels[Parts[name]])
        BY <2>1, <2>2, <2>4 DEF WriteParts
    <3>2. Remember(w, name) = [buf |-> buf, dict |-> NameDict(Len(buf), dict, name), ok |-> ok]
      <4>1. Learns(Len(buf), dict, name) <=> Len(buf) % 65536 < 16383
          BY <1>7, <2>4 DEF Learns
      <4>0. PICK at : at = Len(buf) % 65536
          OBVIOUS
      <4>2. PICK v : v = [n \in DOMAIN dict \cup {name} |-> IF n = name THEN at ELSE dict[n]]
          OBVIOUS
      <4>3. Offset(w, name, at) = [w EXCEPT !.dict = v]
          BY <1>2, <4>2 DEF Offset
      <4>4. [w EXCEPT !.dict = v] = [buf |-> buf, dict |-> v, ok |-> ok]
          BY <1>2
      <4>5. Remember(w, name) = IF at < 16383 THEN Offset(w, name, at) ELSE w
          BY <1>2, <4>0 DEF Remember, Written
      <4>6. NameDict(Len(buf), dict, name) = IF at < 16383 THEN v ELSE dict
          BY <4>0, <4>1, <4>2 DEF NameDict
      <4> QED BY <1>2, <4>3, <4>4, <4>5, <4>6
    <3>3. NameBytes(dict, name) = Labels[Parts[name]] /\ NameFits(dict, name)
        BY <1>7, <2>4 DEF NameBytes, NameFits
    <3>4. WriteCanon(w, name) = [buf |-> buf \o NameBytes(dict, name),
                                 dict |-> NameDict(Len(buf), dict, name), ok |-> ok]
      <4>1. PICK x, b : x = Remember(w, name) /\ b = Labels[Parts[name]]
          OBVIOUS
      <4>2. x \in Writers /\ x.buf = buf /\ x.dict = NameDict(Len(buf), dict, name) /\ x.ok = ok
        <5>1. NameDict(Len(buf), dict, name) \in Dicts
            BY <1>1, <1>3, OctetsAre, NameBytesType
        <5> QED BY <1>3, <3>2, <4>1, <5>1 DEF Writers
      <4>3. b \in Octets
          BY <1>1, <4>1, PartsAre, LabelsAre
      <4>4. Put(x, b) = [buf |-> x.buf \o b, dict |-> x.dict, ok |-> x.ok]
          BY <4>2, <4>3, PutType
      <4> QED BY <3>1, <3>3, <4>1, <4>2, <4>4
    <3>5. (ok /\ NameFits(dict, name)) = ok
        BY <1>3, <3>3
    <3> QED BY <1>1, <1>2, <3>4, <3>5 DEF WriteName
  <2> QED BY <2>3, <2>4
<1> QED BY <1>5, <1>6, <1>7

\* The same field by field.
LEMMA WriteNameType ==
    ASSUME NEW w \in Writers, NEW t \in Text
    PROVE  /\ WriteName(w, t) \in Writers
           /\ WriteName(w, t).buf = w.buf \o NameBytes(w.dict, Canon(t))
           /\ WriteName(w, t).dict = NameDict(Len(w.buf), w.dict, Canon(t))
           /\ WriteName(w, t).ok <=> w.ok /\ NameFits(w.dict, Canon(t))
<1>1. PICK x, c : x = WriteName(w, t) /\ c = Canon(t) /\ c \in Text
    BY CanonIs
<1>2. w.buf \in Octets /\ w.dict \in Dicts /\ w.ok \in BOOLEAN
    BY DEF Writers
<1>3. Len(w.buf) \in Nat
    BY <1>2, OctetsAre
<1>4. /\ NameBytes(w.dict, c) \in Octets /\ NameDict(Len(w.buf), w.dict, c) \in Dicts
      /\ NameFits(w.dict, c) \in BOOLEAN
    BY <1>1, <1>2, <1>3, NameBytesType
<1>5. w.buf \o NameBytes(w.dict, c) \in Octets
    BY <1>2, <1>4, OctetsJoin
<1>6. x = [buf |-> w.buf \o NameBytes(w.dict, c), dict |-> NameDict(Len(w.buf), w.dict, c),
           ok |-> w.ok /\ NameFits(w.dict, c)]
    BY <1>1, WriteNameIs
<1>7. PICK a, b, e : /\ a = w.buf \o NameBytes(w.dict, c)
                     /\ b = NameDict(Len(w.buf), w.dict, c)
                     /\ e = (w.ok /\ NameFits(w.dict, c))
    OBVIOUS
<1>8. a \in Octets /\ b \in Dicts /\ e \in BOOLEAN
    BY <1>4, <1>5, <1>7
<1>9. x = [buf |-> a, dict |-> b, ok |-> e]
    BY <1>6, <1>7
<1>10. x \in Writers /\ x.buf = a /\ x.dict = b /\ x.ok = e
    BY <1>8, <1>9 DEF Writers
<1> QED BY <1>1, <1>7, <1>10

\* Whether rdata is written with a name, what goes before the name, and what
\* is written of it.
WritesName(r) == r.type \in {PTR, SRV} /\ r.target # <<>>
RdataHead(r) == IF r.type = SRV THEN Fixed(r.rdata) ELSE <<>>
RdataBytes(dict, r) ==
    IF WritesName(r) THEN RdataHead(r) \o NameBytes(dict, Canon(r.target[1])) ELSE r.rdata
RdataDict(len, dict, r) ==
    IF WritesName(r) THEN NameDict(len + Len(RdataHead(r)), dict, Canon(r.target[1])) ELSE dict
RdataFits(dict, r) == WritesName(r) => NameFits(dict, Canon(r.target[1]))

\* What the parser makes of a record, as far as the serializer looks at it.
IsRecord(r) == r.rdata \in Octets /\ r.target \in Seq(Text) /\ r.type \in Nat

\* The priority, weight and port of an SRV record take six bytes, whatever the rdata.
LEMMA FixedType == \A rd \in Octets : Fixed(rd) \in Octets /\ Len(Fixed(rd)) = 6
<1>1. ASSUME NEW rd \in Octets PROVE Fixed(rd) \in Octets /\ Len(Fixed(rd)) = 6
  <2>1. PICK n \in Nat : n = Len(rd)
      BY OctetsAre
  <2>2. CASE n >= 6
    <3>1. \A i \in 1..6 : rd[i] \in Octet
      <4>1. ASSUME NEW i \in 1..6 PROVE rd[i] \in Octet
        <5>1. i \in Nat /\ i >= 1 /\ i <= n
            BY <2>2
        <5> QED BY <2>1, <5>1, OctetsAre
      <4> QED BY <4>1
    <3>2. SubSeq(rd, 1, 6) \in Seq(Octet) /\ Len(SubSeq(rd, 1, 6)) = 6
        BY <3>1, SubSeqProperties
    <3> QED BY <2>1, <2>2, <3>2 DEF Fixed, Octets
  <2>3. CASE ~(n >= 6)
    <3>1. [k \in 1..6 |-> 0] \in Seq(Octet) /\ Len([k \in 1..6 |-> 0]) = 6
        BY DEF Octet
    <3> QED BY <2>1, <2>3, <3>1 DEF Fixed, Octets
  <2> QED BY <2>2, <2>3
<1> QED BY <1>1

\* The bytes before the name in the rdata, and the name, have their types.
LEMMA RdataHeadType ==
    ASSUME NEW r, IsRecord(r)
    PROVE  /\ RdataHead(r) \in Octets /\ Len(RdataHead(r)) \in Nat
           /\ WritesName(r) => r.target[1] \in Text /\ Canon(r.target[1]) \in Text
<1>1. RdataHead(r) \in Octets
  <2>1. r.rdata \in Octets
      BY DEF IsRecord
  <2>2. Fixed(r.rdata) \in Octets /\ <<>> \in Octets
      BY <2>1, FixedType, OctetsAre
  <2> QED BY <2>2 DEF RdataHead
<1>2. ASSUME WritesName(r) PROVE r.target[1] \in Text
  <2>1. r.target \in Seq(Text) /\ r.target # <<>>
      BY <1>2 DEF WritesName, IsRecord
  <2>2. Head(r.target) \in Text
      BY <2>1, Split
  <2> QED BY <2>1, <2>2
<1> QED BY <1>1, <1>2, OctetsAre, CanonIs

\* The rdata that is written, by its bytes, offset learned and fit, has its type.
LEMMA RdataType ==
    ASSUME NEW dict \in Dicts, NEW len \in Nat, NEW r, IsRecord(r)
    PROVE  /\ RdataBytes(dict, r) \in Octets
           /\ RdataDict(len, dict, r) \in Dicts
           /\ RdataFits(dict, r) \in BOOLEAN
<1>1. CASE WritesName(r)
  <2>1. PICK h, c, m : h = RdataHead(r) /\ c = Canon(r.target[1]) /\ m = len + Len(h)
      OBVIOUS
  <2>2. h \in Octets /\ c \in Text
      BY <1>1, <2>1, RdataHeadType
  <2>3. m \in Nat
    <3>1. Len(h) \in Nat
        BY <2>2, OctetsAre
    <3> QED BY <2>1, <3>1
  <2>4. /\ NameBytes(dict, c) \in Octets /\ NameDict(m, dict, c) \in Dicts
        /\ NameFits(dict, c) \in BOOLEAN
      BY <2>2, <2>3, NameBytesType
  <2>5. h \o NameBytes(dict, c) \in Octets
      BY <2>2, <2>4, OctetsJoin
  <2> QED BY <1>1, <2>1, <2>4, <2>5 DEF RdataBytes, RdataDict, RdataFits
<1>2. CASE ~WritesName(r)
    BY <1>2 DEF RdataBytes, RdataDict, RdataFits, IsRecord
<1> QED BY <1>1, <1>2

\* WriteRdata in one record: the bytes, the offset learned, and whether its name fits.
LEMMA WriteRdataIs ==
    ASSUME NEW w \in Writers, NEW r, IsRecord(r)
    PROVE  /\ WriteRdata(w, r) \in Writers
           /\ WriteRdata(w, r) = [buf |-> w.buf \o RdataBytes(w.dict, r),
                                  dict |-> RdataDict(Len(w.buf), w.dict, r),
                                  ok |-> w.ok /\ RdataFits(w.dict, r)]
<1>1. PICK buf, dict, ok : /\ w = [buf |-> buf, dict |-> dict, ok |-> ok]
                           /\ buf = w.buf /\ dict = w.dict /\ ok = w.ok
                           /\ buf \in Octets /\ dict \in Dicts /\ ok \in BOOLEAN
    BY DEF Writers
<1>2. PICK l \in Nat : l = Len(buf)
    BY <1>1, OctetsAre
<1>3. CASE WritesName(r)
  <2>1. PICK h, t, c : h = RdataHead(r) /\ t = r.target[1] /\ c = Canon(t)
      OBVIOUS
  <2>2. h \in Octets /\ t \in Text /\ c \in Text
      BY <1>3, <2>1, RdataHeadType
  <2>3. PICK n \in Nat : n = Len(h)
      BY <2>2, OctetsAre
  <2>4. WriteRdata(w, r) = WriteName(Put(w, h), t)
    <3>1. CASE r.type = PTR
      <4>1. WriteRdata(w, r) = WriteName(w, t)
          BY <1>3, <2>1, <3>1 DEF WriteRdata, WritesName, PTR, SRV
      <4>2. h = <<>>
          BY <2>1, <3>1 DEF RdataHead, PTR, SRV
      <4>3. buf \o <<>> = buf
          BY <1>1, ConcatEmptySeq DEF Octets
      <4>4. Put(w, h) = [buf |-> buf \o h, dict |-> dict, ok |-> ok]
          BY <1>1, <2>2, PutType
      <4>5. Put(w, h) = w
          BY <1>1, <4>2, <4>3, <4>4
      <4> QED BY <4>1, <4>5
    <3>2. CASE r.type = SRV
      <4>1. WriteRdata(w, r) = WriteName(Put(w, Fixed(r.rdata)), t)
          BY <1>3, <2>1, <3>2 DEF WriteRdata, WritesName, PTR, SRV
      <4> QED BY <2>1, <3>2, <4>1 DEF RdataHead
    <3> QED BY <1>3, <3>1, <3>2 DEF WritesName
  <2>5. PICK x : x = Put(w, h)
      OBVIOUS
  <2>6. x \in Writers /\ x.buf = buf \o h /\ x.dict = dict /\ x.ok = ok
      BY <1>1, <2>2, <2>5, PutType
  <2>7. Len(x.buf) = l + n
      BY <1>1, <1>2, <2>2, <2>3, <2>6, OctetsJoin
  <2>8. /\ WriteName(x, t) \in Writers
        /\ WriteName(x, t) = [buf |-> (buf \o h) \o NameBytes(dict, c),
                              dict |-> NameDict(l + n, dict, c),
                              ok |-> ok /\ NameFits(dict, c)]
    <3>1. WriteName(x, t) \in Writers
        BY <2>2, <2>6, WriteNameType
    <3>2. WriteName(x, t) = [buf |-> x.buf \o NameBytes(x.dict, c),
                             dict |-> NameDict(Len(x.buf), x.dict, c),
                             ok |-> x.ok /\ NameFits(x.dict, c)]
        BY <2>1, <2>2, <2>6, WriteNameIs
    <3> QED BY <2>6, <2>7, <3>1, <3>2
  <2>9. (buf \o h) \o NameBytes(dict, c) = buf \o (h \o NameBytes(dict, c))
    <3>1. NameBytes(dict, c) \in Octets
        BY <1>1, <1>2, <2>2, NameBytesType
    <3> QED BY <1>1, <2>2, <3>1, ConcatAssociative DEF Octets
  <2>10. /\ RdataBytes(dict, r) = h \o NameBytes(dict, c)
         /\ RdataDict(l, dict, r) = NameDict(l + n, dict, c)
         /\ RdataFits(dict, r) = NameFits(dict, c)
    <3>1. NameFits(dict, c) \in BOOLEAN
        BY <1>1, <1>2, <2>2, NameBytesType
    <3> QED BY <1>3, <2>1, <2>3, <3>1 DEF RdataBytes, RdataDict, RdataFits
  <2> QED BY <1>1, <1>2, <2>4, <2>5, <2>8, <2>9, <2>10
<1>4. CASE ~WritesName(r)
  <2>1. WriteRdata(w, r) = Put(w, r.rdata)
      BY <1>4 DEF WriteRdata, WritesName, PTR, SRV
  <2>2. RdataBytes(dict, r) = r.rdata /\ RdataDict(l, dict, r) = dict /\ RdataFits(dict, r)
      BY <1>4 DEF RdataBytes, RdataDict, RdataFits
  <2>3. Put(w, r.rdata) \in Writers
        /\ Put(w, r.rdata) = [buf |-> buf \o r.rdata, dict |-> dict, ok |-> ok]
    <3>1. PICK rd : rd = r.rdata
        OBVIOUS
    <3>2. rd \in Octets
        BY <3>1 DEF IsRecord
    <3>3. Put(w, rd) \in Writers /\ Put(w, rd) = [buf |-> buf \o rd, dict |-> dict, ok |-> ok]
        BY <1>1, <3>2, PutType
    <3> QED BY <3>1, <3>3
  <2>4. (ok /\ RdataFits(dict, r)) = ok
      BY <1>1, <2>2
  <2> QED BY <1>1, <1>2, <2>1, <2>2, <2>3, <2>4
<1> QED BY <1>3, <1>4

\* Filling in two bytes that were written as zeros is as if they had been
\* written then.
ZerosAt(w, a, r, at) == at = Len(a) + 2 /\ w.buf = (a \o <<0, 0>>) \o r
FilledAt(w, a, r, at, x, y) ==
    FillIn(w, at, <<x, y>>) = [w EXCEPT !.buf = (a \o <<x, y>>) \o r]

\* Filling in the length of the rdata changes the two placeholder bytes and no other.
LEMMA FillInIs ==
    ASSUME NEW a \in Octets, NEW r \in Octets, NEW x \in Octet, NEW y \in Octet,
           NEW w \in Writers, NEW at, ZerosAt(w, a, r, at)
    PROVE  FilledAt(w, a, r, at, x, y)
<1>0. w.buf = (a \o <<0, 0>>) \o r /\ at = Len(a) + 2
    BY DEF ZerosAt
<1>1. PICK l \in Nat, n \in Nat : l = Len(a) /\ n = Len(r)
    BY OctetsAre
<1> DEFINE Filled(b, u, v) ==
               /\ b \in Octets /\ Len(b) = l + 2 + n
               /\ \A i \in 1..(l + 2 + n) :
                      b[i] = IF i <= l THEN a[i] ELSE IF i = l + 1 THEN u
                             ELSE IF i = l + 2 THEN v ELSE r[i - l - 2]
<1>2. ASSUME NEW u \in Octet, NEW v \in Octet, NEW b, b = (a \o <<u, v>>) \o r
      PROVE  Filled(b, u, v)
  <2>1. PICK m : m = <<u, v>>
      OBVIOUS
  <2>2. m \in Octets /\ Len(m) = 2 /\ m[1] = u /\ m[2] = v
      BY <2>1 DEF Octets
  <2>3. PICK c : c = a \o m
      OBVIOUS
  <2>4. /\ c \in Octets /\ Len(c) = l + 2
        /\ \A i \in 1..(l + 2) : c[i] = IF i <= l THEN a[i] ELSE m[i - l]
    <3>1. /\ a \o m \in Seq(Octet) /\ Len(a \o m) = Len(a) + Len(m)
          /\ \A i \in 1..(Len(a) + Len(m)) :
                (a \o m)[i] = IF i <= Len(a) THEN a[i] ELSE m[i - Len(a)]
        BY <2>2, ConcatProperties DEF Octets
    <3> QED BY <1>1, <2>2, <2>3, <3>1 DEF Octets
  <2>5. /\ b \in Octets /\ Len(b) = (l + 2) + n
        /\ \A i \in 1..((l + 2) + n) : b[i] = IF i <= l + 2 THEN c[i] ELSE r[i - (l + 2)]
      BY <1>1, <1>2, <2>1, <2>3, <2>4, ConcatProperties DEF Octets
  <2>6. ASSUME NEW i \in 1..(l + 2 + n)
        PROVE  b[i] = IF i <= l THEN a[i] ELSE IF i = l + 1 THEN u
                      ELSE IF i = l + 2 THEN v ELSE r[i - l - 2]
    <3>1. CASE i <= l
      <4>1. i <= l + 2 /\ i \in 1..(l + 2)
          BY <3>1
      <4> QED BY <2>4, <2>5, <3>1, <4>1
    <3>2. CASE i = l + 1
      <4>1. ~(i <= l) /\ i <= l + 2 /\ i \in 1..(l + 2) /\ i - l = 1
          BY <3>2
      <4> QED BY <2>2, <2>4, <2>5, <3>2, <4>1
    <3>3. CASE i = l + 2
      <4>1. ~(i <= l) /\ i # l + 1 /\ i <= l + 2 /\ i \in 1..(l + 2) /\ i - l = 2
          BY <3>3
      <4> QED BY <2>2, <2>4, <2>5, <3>3, <4>1
    <3>4. CASE i > l + 2
      <4>1. ~(i <= l) /\ i # l + 1 /\ i # l + 2 /\ ~(i <= l + 2) /\ i - (l + 2) = i - l - 2
          BY <3>4
      <4> QED BY <2>5, <4>1
    <3>5. i <= l \/ i = l + 1 \/ i = l + 2 \/ i > l + 2
        OBVIOUS
    <3> QED BY <3>1, <3>2, <3>3, <3>4, <3>5
  <2>7. (l + 2) + n = l + 2 + n
      OBVIOUS
  <2> QED BY <2>5, <2>6, <2>7
<1>3. PICK b, c : b = (a \o <<0, 0>>) \o r /\ c = (a \o <<x, y>>) \o r
    OBVIOUS
<1>4. 0 \in Octet
    BY DEF Octet
<1>5. PICK e : e = [b EXCEPT ![l + 1] = x, ![l + 2] = y]
    OBVIOUS
<1>6. e = c
  <2>0. Filled(b, 0, 0) /\ Filled(c, x, y)
    <3> HIDE DEF Filled
    <3> QED BY <1>2, <1>3, <1>4
  <2>1. /\ b \in Seq(Octet) /\ Len(b) = l + 2 + n /\ c \in Seq(Octet) /\ Len(c) = l + 2 + n
      BY <2>0 DEF Octets
  <2>2. DOMAIN b = 1..(l + 2 + n) /\ DOMAIN c = 1..(l + 2 + n)
      BY <2>1, LenProperties
  <2>3. DOMAIN e = 1..(l + 2 + n)
      BY <1>5, <2>2
  <2>4. ASSUME NEW i \in 1..(l + 2 + n) PROVE e[i] = c[i]
    <3>1. e[i] = IF i = l + 2 THEN y ELSE IF i = l + 1 THEN x ELSE b[i]
        BY <1>5, <2>2
    <3>2. b[i] = IF i <= l THEN a[i] ELSE IF i = l + 1 THEN 0
                 ELSE IF i = l + 2 THEN 0 ELSE r[i - l - 2]
        BY <2>0
    <3>3. c[i] = IF i <= l THEN a[i] ELSE IF i = l + 1 THEN x
                 ELSE IF i = l + 2 THEN y ELSE r[i - l - 2]
        BY <2>0
    <3>4. i = l + 2 => ~(i <= l) /\ i # l + 1
        OBVIOUS
    <3>5. i = l + 1 => ~(i <= l)
        OBVIOUS
    <3> QED BY <3>1, <3>2, <3>3, <3>4, <3>5
  <2>5. e = [i \in DOMAIN e |-> e[i]] /\ c = [i \in DOMAIN c |-> c[i]]
    <3>1. e = [i \in DOMAIN e |-> e[i]]
        BY <1>5
    <3>2. c = [i \in DOMAIN c |-> c[i]]
        BY <2>1
    <3> QED BY <3>1, <3>2
  <2> QED BY <2>2, <2>3, <2>4, <2>5
<1>7. FillIn(w, l + 2, <<x, y>>) = [w EXCEPT !.buf = e]
  <2>1. (l + 2) - 1 = l + 1
      OBVIOUS
  <2>2. <<x, y>>[1] = x /\ <<x, y>>[2] = y /\ w.buf = b
      BY <1>0, <1>3
  <2> QED BY <1>5, <2>1, <2>2 DEF FillIn
<1> QED BY <1>0, <1>1, <1>3, <1>6, <1>7 DEF FilledAt

\* A record as the serializer takes it.
IsWhole(r) == IsRecord(r) /\ r.name \in Text /\ r.class \in Octets /\ r.ttl \in Octets
RRHead(r) == (Bytes16(r.type) \o r.class) \o r.ttl

\* The type, class and TTL of a record are bytes.
LEMMA RRHeadType == ASSUME NEW r, IsWhole(r) PROVE RRHead(r) \in Octets
<1>1. PICK a, b, c : a = Bytes16(r.type) /\ b = r.class /\ c = r.ttl
    OBVIOUS
<1>2. b \in Octets /\ c \in Octets
    BY <1>1 DEF IsWhole
<1>6. r.type \in Nat
  <2>1. IsRecord(r)
      BY DEF IsWhole
  <2> QED BY <2>1 DEF IsRecord
<1>3. a \in Octets
    BY <1>1, <1>6, Bytes16Type
<1>4. a \o b \in Octets
    BY <1>2, <1>3, OctetsJoin
<1>5. (a \o b) \o c \in Octets
    BY <1>2, <1>4, OctetsJoin
<1> QED BY <1>1, <1>5 DEF RRHead

\* A record is written from front to back, the length of its rdata in its place.
LEMMA WriteRRIs ==
    ASSUME NEW w \in Writers, NEW r, IsWhole(r)
    PROVE  LET x == WriteName(w, r.name)
               len == Len(RdataBytes(x.dict, r))
           IN  WriteRR(w, r) = WriteRdata(Put(x, RRHead(r) \o Bytes16(len)), r)
<1>1. PICK x : x = WriteName(w, r.name)
    OBVIOUS
<1>2. x \in Writers
    BY <1>1, WriteNameType DEF IsWhole
<1>3. PICK buf, dict, ok : /\ buf = x.buf /\ dict = x.dict /\ ok = x.ok
                           /\ buf \in Octets /\ dict \in Dicts /\ ok \in BOOLEAN
    BY <1>2 DEF Writers
<1>4. PICK hd : hd = RRHead(r) /\ hd \in Octets
    BY RRHeadType
<1>5. PICK a : a = buf \o hd /\ a \in Octets
    BY <1>3, <1>4, OctetsJoin
<1>6. PICK R : R = RdataBytes(dict, r) /\ R \in Octets
    BY <1>3, OctetsAre, RdataType DEF IsWhole
<1>7. PICK l \in Nat, n \in Nat : l = Len(a) /\ n = Len(R)
    BY <1>5, <1>6, OctetsAre
<1>8. PICK p \in Octet, q \in Octet : Bytes16(n) = <<p, q>>
  <2>1. PICK p, q : p = (n \div 256) % 256 /\ q = n % 256
      OBVIOUS
  <2>2. n \div 256 \in Nat /\ \A m \in Nat : m % 256 \in 0..255
      OBVIOUS
  <2>3. p \in Octet /\ q \in Octet
      BY <2>1, <2>2 DEF Octet
  <2> QED BY <2>1, <2>3 DEF Bytes16
\* What the rdata is written after, whatever two bytes are there before it.
<1>9. ASSUME NEW u \in Octet, NEW v \in Octet
      PROVE  LET y == Put(x, hd \o <<u, v>>)
             IN  /\ y \in Writers /\ y.buf = a \o <<u, v>> /\ Len(y.buf) = l + 2
                 /\ WriteRdata(y, r) \in Writers
                 /\ WriteRdata(y, r) = [buf |-> (a \o <<u, v>>) \o R,
                                        dict |-> RdataDict(l + 2, dict, r),
                                        ok |-> ok /\ RdataFits(dict, r)]
  <2>0. <<u, v>> \in Octets /\ Len(<<u, v>>) = 2
      BY TwoOctets
  <2>1. PICK m : m = <<u, v>> /\ m \in Octets /\ Len(m) = 2
      BY <2>0
  <2>2. PICK y : y = Put(x, hd \o m)
      OBVIOUS
  <2>3. hd \o m \in Octets
      BY <1>4, <2>1, OctetsJoin
  <2>4. y \in Writers /\ y.buf = buf \o (hd \o m) /\ y.dict = dict /\ y.ok = ok
      BY <1>2, <1>3, <2>2, <2>3, PutType
  <2>5. buf \o (hd \o m) = a \o m
    <3>1. buf \in Octets /\ hd \in Octets /\ m \in Octets
        BY <1>3, <1>4, <2>1
    <3>2. (buf \o hd) \o m = buf \o (hd \o m)
        BY <3>1, OctetsAssociate
    <3> QED BY <1>5, <3>2
  <2>6. Len(a \o m) = l + 2
      BY <1>5, <1>7, <2>1, OctetsJoin
  <2>7. IsRecord(r)
      BY DEF IsWhole
  <2>8. /\ WriteRdata(y, r) \in Writers
        /\ WriteRdata(y, r) = [buf |-> y.buf \o RdataBytes(y.dict, r),
                               dict |-> RdataDict(Len(y.buf), y.dict, r),
                               ok |-> y.ok /\ RdataFits(y.dict, r)]
      BY <2>4, <2>7, WriteRdataIs
  <2> QED BY <1>6, <2>1, <2>2, <2>4, <2>5, <2>6, <2>8
<1>10. 0 \in Octet
    BY DEF Octet
<1>11. PICK y, z : y = Put(x, hd \o <<0, 0>>) /\ z = WriteRdata(y, r)
    OBVIOUS
<1>12. /\ Len(y.buf) = l + 2 /\ z \in Writers
       /\ z = [buf |-> (a \o <<0, 0>>) \o R, dict |-> RdataDict(l + 2, dict, r),
               ok |-> ok /\ RdataFits(dict, r)]
    BY <1>9, <1>10, <1>11
<1>13. Len(z.buf) - (l + 2) = n
  <2>1. Len(a \o <<0, 0>>) = l + 2 /\ a \o <<0, 0>> \in Octets
    <3>1. <<0, 0>> \in Octets /\ Len(<<0, 0>>) = 2
        BY <1>10, TwoOctets
    <3> QED BY <1>5, <1>7, <3>1, OctetsJoin
  <2>2. z.buf = (a \o <<0, 0>>) \o R
      BY <1>12
  <2>3. Len(z.buf) = (l + 2) + n
      BY <1>6, <1>7, <2>1, <2>2, OctetsJoin
  <2> QED BY <2>3
<1>14. Sized(z, l + 2) = [z EXCEPT !.buf = (a \o <<p, q>>) \o R]
  <2>1. z.buf = (a \o <<0, 0>>) \o R
      BY <1>12
  <2>2. PICK at : at = l + 2
      OBVIOUS
  <2>3. ZerosAt(z, a, R, at)
      BY <1>7, <2>1, <2>2 DEF ZerosAt
  <2>4. FilledAt(z, a, R, at, p, q)
    <3>1. a \in Octets /\ R \in Octets /\ z \in Writers /\ p \in Octet /\ q \in Octet
        BY <1>5, <1>6, <1>8, <1>12
    <3> QED BY <2>3, <3>1, FillInIs
  <2> QED BY <1>8, <1>13, <2>2, <2>4 DEF Sized, FilledAt
<1>15. WriteRR(w, r) = Sized(z, l + 2)
  <2>1. WriteRR(w, r) = WriteBody(Put(x, hd \o <<0, 0>>), r)
      BY <1>1, <1>4 DEF WriteRR, RRHead
  <2> QED BY <1>11, <1>12, <2>1 DEF WriteBody
<1>16. WriteRdata(Put(x, hd \o Bytes16(n)), r) =
           [buf |-> (a \o <<p, q>>) \o R, dict |-> RdataDict(l + 2, dict, r),
            ok |-> ok /\ RdataFits(dict, r)]
    BY <1>8, <1>9
<1>17. [z EXCEPT !.buf = (a \o <<p, q>>) \o R] =
           [buf |-> (a \o <<p, q>>) \o R, dict |-> RdataDict(l + 2, dict, r),
            ok |-> ok /\ RdataFits(dict, r)]
  <2>1. PICK b, e, f, g : /\ b = (a \o <<p, q>>) \o R /\ e = RdataDict(l + 2, dict, r)
                          /\ f = (ok /\ RdataFits(dict, r)) /\ g = (a \o <<0, 0>>) \o R
      OBVIOUS
  <2>2. z = [buf |-> g, dict |-> e, ok |-> f]
      BY <1>12, <2>1
  <2>3. [z EXCEPT !.buf = b] = [buf |-> b, dict |-> e, ok |-> f]
      BY <2>2
  <2> QED BY <2>1, <2>3
<1> QED BY <1>1, <1>3, <1>4, <1>6, <1>7, <1>14, <1>15, <1>16, <1>17

-----------------------------------------------------------------------------
(* What the parser reads *)

\* The names of a packet, wherever one may start, and its items.
ReadNames(d) == {Name[<<d, o, {}>>].text : o \in Nat}
ParsedItems(d, s) == {ParseItem(d, o, s).item : o \in {n \in Nat : ParseItem(d, n, s).ok}}

IsItem(s, item) ==
    /\ item.name \in Text /\ item.class \in Octets /\ Len(item.class) = 2
    /\ item.type \in Nat /\ item.type < 65536
    /\ IsRR(item) <=> s # 1
    /\ s # 1 => IsWhole(item) /\ Len(item.ttl) = 4 /\ Len(item.rdata) < 65536

\* Two bytes make a number of 16 bits.
LEMMA U16Type ==
    ASSUME NEW d \in Octets, NEW o \in Nat, o + 1 < Len(d)
    PROVE  U16(d, o) \in Nat /\ U16(d, o) < 65536
<1>1. PICK a, b : a = Byte(d, o) /\ b = Byte(d, o + 1)
    OBVIOUS
<1>2. o + 1 \in Nat /\ o < Len(d)
  <2>1. Len(d) \in Nat
      BY OctetsAre
  <2> QED BY <2>1
<1>3. a \in 0..255 /\ b \in 0..255
  <2>1. a \in 0..255
      BY <1>1, <1>2, ByteType
  <2>2. PICK n \in Nat : n = o + 1
      BY <1>2
  <2>3. Byte(d, n) \in 0..255
      BY <2>2, ByteType
  <2> QED BY <1>1, <2>1, <2>2, <2>3
<1>4. a * 256 + b \in Nat /\ a * 256 + b < 65536
    BY <1>3
<1> QED BY <1>1, <1>4 DEF U16

\* A name is parsed to a reading of the packet.
LEMMA NameTextIs ==
    \A d \in Octets, o \in Nat :
        /\ ParseName(d, o) \in Readings
        /\ ParseName(d, o).text \in Text /\ ParseName(d, o).text \in ReadNames(d)
        /\ ParseName(d, o).next \in Nat
<1>1. ASSUME NEW d \in Octets, NEW o \in Nat
      PROVE  ParseName(d, o) \in Readings
  <2>1. {} \in SUBSET Targets
      OBVIOUS
  <2> QED BY <2>1, NameIs DEF ParseName
<1> QED BY <1>1 DEF Readings, ReadNames, ParseName

\* A name that an rdata holds is none, or one read from the packet.
LEMMA NameAtIs ==
    \A d \in Octets, o \in Nat : NameAt(d, o) \in Seq(Text) /\ ToSet(NameAt(d, o)) \subseteq ReadNames(d)
<1>1. ASSUME NEW d \in Octets, NEW o \in Nat
      PROVE  NameAt(d, o) \in Seq(Text) /\ ToSet(NameAt(d, o)) \subseteq ReadNames(d)
  <2>1. PICK t : t = ParseName(d, o).text /\ t \in Text /\ t \in ReadNames(d)
      BY NameTextIs
  <2>2. <<t>> \in Seq(Text) /\ ToSet(<<t>>) = {t} /\ <<>> \in Seq(Text) /\ ToSet(<<>>) = {}
      BY <2>1 DEF ToSet
  <2> QED BY <2>1, <2>2 DEF NameAt, Found
<1> QED BY <1>1

\* So is the target of a PTR or SRV record.
LEMMA TargetNameIs ==
    ASSUME NEW d \in Octets, NEW o \in Nat, NEW len, NEW type
    PROVE  /\ TargetName(d, o, len, type) \in Seq(Text)
           /\ ToSet(TargetName(d, o, len, type)) \subseteq ReadNames(d)
<1>1. o + 6 \in Nat
    OBVIOUS
<1>2. <<>> \in Seq(Text) /\ ToSet(<<>>) = {}
    BY DEF ToSet
<1>3. TargetName(d, o, len, type) \in {NameAt(d, o), NameAt(d, o + 6), <<>>}
  <2>1. CASE type = PTR
      BY <2>1 DEF TargetName, PTR, SRV
  <2>2. CASE type # PTR /\ type = SRV /\ len > 6
      BY <2>2 DEF TargetName
  <2>3. CASE type # PTR /\ ~(type = SRV /\ len > 6)
      BY <2>3 DEF TargetName
  <2> QED BY <2>1, <2>2, <2>3
<1>4. PICK p \in Nat : p = o + 6
    BY <1>1
<1>5. /\ NameAt(d, o) \in Seq(Text) /\ ToSet(NameAt(d, o)) \subseteq ReadNames(d)
      /\ NameAt(d, p) \in Seq(Text) /\ ToSet(NameAt(d, p)) \subseteq ReadNames(d)
    BY NameAtIs
<1> QED BY <1>2, <1>3, <1>4, <1>5

\* A question that parses.
LEMMA QuestionIs ==
    ASSUME NEW d \in Octets, NEW o \in Nat, ParseItem(d, o, 1).ok
    PROVE  LET n == ParseName(d, o)
           IN  /\ n.ok /\ n.next + 4 <= Len(d)
               /\ ParseItem(d, o, 1) =
                     [ok |-> TRUE, next |-> n.next + 4,
                      item |-> [name |-> n.text, type |-> U16(d, n.next),
                                class |-> Slice(d, n.next + 2, 2)]]
<1>1. PICK n : n = ParseName(d, o) /\ n \in Readings /\ n.next \in Nat
    BY NameTextIs
<1>2. QuestionAfter(d, n).ok
    BY <1>1 DEF ParseItem
<1>3. n.ok
    BY <1>2 DEF QuestionAfter, NoItem
<1>4. ~(n.next + 4 > Len(d))
    BY <1>2, <1>3 DEF QuestionAfter, NoItem
<1>5. n.next + 4 <= Len(d)
  <2>1. Len(d) \in Nat
      BY OctetsAre
  <2> QED BY <1>1, <1>4, <2>1
<1>6. QuestionAfter(d, n) = [ok |-> TRUE, next |-> n.next + 4,
                             item |-> [name |-> n.text, type |-> U16(d, n.next),
                                       class |-> Slice(d, n.next + 2, 2)]]
    BY <1>3, <1>4 DEF QuestionAfter
<1> QED BY <1>1, <1>3, <1>5, <1>6 DEF ParseItem

\* A record that parses.
LEMMA RecordIs ==
    ASSUME NEW d \in Octets, NEW o \in Nat, NEW s, s # 1, ParseItem(d, o, s).ok
    PROVE  LET n == ParseName(d, o)
               type == U16(d, n.next)
               len == U16(d, n.next + 8)
           IN  /\ n.ok /\ n.next + 10 <= Len(d) /\ n.next + 10 + len <= Len(d)
               /\ len \in Nat /\ len < 65536
               /\ ParseItem(d, o, s) = RRWith(d, n.text, n.next, type, len)
<1>1. PICK n : n = ParseName(d, o) /\ n \in Readings /\ n.next \in Nat
    BY NameTextIs
<1>2. RRAfter(d, n).ok /\ ParseItem(d, o, s) = RRAfter(d, n)
    BY <1>1 DEF ParseItem
<1>3. n.ok
    BY <1>2 DEF RRAfter, NoItem
<1>4. ~(n.next + 10 > Len(d))
    BY <1>2, <1>3 DEF RRAfter, NoItem
<1>5. PICK m \in Nat, l \in Nat : m = n.next /\ l = Len(d)
    BY <1>1, OctetsAre
<1>6. m + 10 <= l
    BY <1>4, <1>5
<1>7. PICK len : len = U16(d, m + 8)
    OBVIOUS
<1>8. len \in Nat /\ len < 65536
  <2>1. PICK a \in Nat : a = m + 8
      BY <1>5
  <2>2. a + 1 < Len(d)
      BY <1>5, <1>6, <2>1
  <2> QED BY <1>7, <2>1, <2>2, U16Type
<1>9. RRAfter(d, n) = RRWith(d, n.text, m, U16(d, m), len)
    BY <1>3, <1>4, <1>5, <1>7 DEF RRAfter
<1>10. ~(m + 10 + len > Len(d))
  <2>1. RRWith(d, n.text, m, U16(d, m), len).ok
      BY <1>2, <1>9
  <2> QED BY <2>1 DEF RRWith, NoItem
<1>11. m + 10 + len <= l
    BY <1>5, <1>8, <1>10
<1> QED BY <1>1, <1>2, <1>3, <1>5, <1>6, <1>7, <1>8, <1>9, <1>11

\* The record RRWith reads, when there are as many bytes.
RRFields(d, name, o, type, len) ==
    [name |-> name, type |-> type, class |-> Slice(d, o + 2, 2), ttl |-> Slice(d, o + 4, 4),
     rdata |-> Slice(d, o + 10, len), target |-> TargetName(d, o + 10, len, type),
     summary |-> RdataSummary(d, o + 10, len, type)]

\* A record whose rdata lies inside the packet parses, and the next one starts behind it.
LEMMA RRWithIs ==
    ASSUME NEW d \in Octets, NEW name, NEW o \in Nat, NEW type, NEW len \in Nat,
           o + 10 + len <= Len(d)
    PROVE  RRWith(d, name, o, type, len) =
               [ok |-> TRUE, next |-> o + 10 + len, item |-> RRFields(d, name, o, type, len)]
<1>1. PICK l \in Nat : l = Len(d)
    BY OctetsAre
<1>2. ~(o + 10 + len > l)
    BY <1>1
<1> QED BY <1>1, <1>2 DEF RRWith, RRFields

\* What parses is a question or a record whose names are read from the packet.
LEMMA ParsedItemIs ==
    ASSUME NEW d \in Octets, NEW o \in Nat, NEW s, ParseItem(d, o, s).ok
    PROVE  /\ ParseItem(d, o, s).next \in Nat
           /\ IsItem(s, ParseItem(d, o, s).item)
           /\ NamesIn(ParseItem(d, o, s).item) \subseteq ReadNames(d)
<1>1. PICK n : n = ParseName(d, o) /\ n.text \in Text /\ n.text \in ReadNames(d)
    BY NameTextIs
<1>2. PICK m, l : m = n.next /\ m \in Nat /\ l = Len(d) /\ l \in Nat
    BY <1>1, NameTextIs, OctetsAre
<1>3. ASSUME NEW b \in Nat, NEW k \in Nat, m + b + k <= l
      PROVE  Slice(d, m + b, k) \in Octets /\ Len(Slice(d, m + b, k)) = k
  <2>1. PICK a \in Nat : a = m + b
      BY <1>2
  <2>2. a + k <= Len(d)
      BY <1>2, <1>3, <2>1
  <2> QED BY <2>1, <2>2, SliceType
<1>4. ASSUME m + 2 <= l PROVE U16(d, m) \in Nat /\ U16(d, m) < 65536
  <2>1. m + 1 < Len(d)
      BY <1>2, <1>4
  <2> QED BY <1>2, <2>1, U16Type
<1>5. CASE s = 1
  <2>1. PICK item : item = [name |-> n.text, type |-> U16(d, m), class |-> Slice(d, m + 2, 2)]
      OBVIOUS
  <2>2. m + 4 <= l /\ ParseItem(d, o, s) = [ok |-> TRUE, next |-> m + 4, item |-> item]
      BY <1>1, <1>2, <1>5, <2>1, QuestionIs
  <2>3. m + 2 <= l /\ m + 2 + 2 <= l /\ m + 4 \in Nat
      BY <1>2, <2>2
  <2>4. Slice(d, m + 2, 2) \in Octets /\ Len(Slice(d, m + 2, 2)) = 2
      BY <1>3, <2>3
  <2>5. DOMAIN item = {"name", "type", "class"}
      BY <2>1
  <2>6. ~IsRR(item)
      BY <2>5 DEF IsRR
  <2>7. IsItem(s, item)
      BY <1>1, <1>4, <1>5, <2>1, <2>3, <2>4, <2>6 DEF IsItem
  <2>8. NamesIn(item) = {n.text}
      BY <2>1, <2>6 DEF NamesIn
  <2> QED BY <1>1, <2>2, <2>3, <2>7, <2>8
<1>6. CASE s # 1
  <2>1. PICK type, len : type = U16(d, m) /\ len = U16(d, m + 8)
      OBVIOUS
  <2>2. /\ m + 10 <= l /\ m + 10 + len <= l /\ len \in Nat /\ len < 65536
        /\ ParseItem(d, o, s) = RRWith(d, n.text, m, type, len)
      BY <1>1, <1>2, <1>6, <2>1, RecordIs
  <2>3. PICK item : item = RRFields(d, n.text, m, type, len)
      OBVIOUS
  <2>4. ParseItem(d, o, s) = [ok |-> TRUE, next |-> m + 10 + len, item |-> item]
    <3>1. m \in Nat /\ len \in Nat /\ m + 10 + len <= Len(d)
        BY <1>2, <2>2
    <3>2. RRWith(d, n.text, m, type, len) =
              [ok |-> TRUE, next |-> m + 10 + len, item |-> RRFields(d, n.text, m, type, len)]
        BY <3>1, RRWithIs
    <3> QED BY <2>2, <2>3, <3>2
  <2>5. m + 2 <= l /\ m + 2 + 2 <= l /\ m + 4 + 4 <= l /\ m + 10 + len \in Nat /\ m + 10 \in Nat
      BY <1>2, <2>2
  <2>6. /\ Slice(d, m + 2, 2) \in Octets /\ Len(Slice(d, m + 2, 2)) = 2
        /\ Slice(d, m + 4, 4) \in Octets /\ Len(Slice(d, m + 4, 4)) = 4
        /\ Slice(d, m + 10, len) \in Octets /\ Len(Slice(d, m + 10, len)) = len
    <3>1. Slice(d, m + 2, 2) \in Octets /\ Len(Slice(d, m + 2, 2)) = 2
        BY <1>3, <2>5
    <3>2. Slice(d, m + 4, 4) \in Octets /\ Len(Slice(d, m + 4, 4)) = 4
        BY <1>3, <2>5
    <3>3. Slice(d, m + 10, len) \in Octets /\ Len(Slice(d, m + 10, len)) = len
        BY <1>3, <2>2
    <3> QED BY <3>1, <3>2, <3>3
  <2>7. type \in Nat /\ type < 65536
      BY <1>4, <2>1, <2>5
  <2>8. PICK p \in Nat : p = m + 10
      BY <2>5
  <2>9. PICK target : /\ target = TargetName(d, p, len, type)
                      /\ target \in Seq(Text) /\ ToSet(target) \subseteq ReadNames(d)
      BY TargetNameIs
  <2>10. DOMAIN item = {"name", "type", "class", "ttl", "rdata", "target", "summary"}
      BY <2>3 DEF RRFields
  <2>11. IsRR(item)
      BY <2>10 DEF IsRR
  <2>12. /\ item.name = n.text /\ item.type = type /\ item.class = Slice(d, m + 2, 2)
         /\ item.ttl = Slice(d, m + 4, 4) /\ item.rdata = Slice(d, m + 10, len)
         /\ item.target = target
      BY <2>3, <2>8, <2>9 DEF RRFields
  <2>13. IsRecord(item)
      BY <2>6, <2>7, <2>9, <2>12 DEF IsRecord
  <2>14. IsWhole(item)
      BY <1>1, <2>6, <2>12, <2>13 DEF IsWhole
  <2>15. IsItem(s, item)
      BY <1>1, <1>6, <2>2, <2>6, <2>7, <2>11, <2>12, <2>14 DEF IsItem
  <2>16. NamesIn(item) \subseteq ReadNames(d)
      BY <1>1, <2>9, <2>11, <2>12 DEF NamesIn
  <2> QED BY <2>4, <2>5, <2>15, <2>16
<1> QED BY <1>5, <1>6

\* A section, as the steps of its loop.
SectionSteps(f, d, o, s, n) ==
    /\ f[0] = [ok |-> TRUE, next |-> o, items |-> <<>>]
    /\ \A k \in 1..n : f[k] = IF f[k - 1].ok
                              THEN AddItem(f[k - 1], ParseItem(d, f[k - 1].next, s))
                              ELSE f[k - 1]

\* ReadSection is the last of its steps.
LEMMA SectionIs ==
    ASSUME NEW d, NEW o, NEW s, Count(d, s) \in Nat
    PROVE  \E f : SectionSteps(f, d, o, s, Count(d, s)) /\ ReadSection(d, o, s) = f[Count(d, s)]
<1>1. PICK n \in Nat : n = Count(d, s)
    OBVIOUS
<1> DEFINE Body(f, k) == IF k = 0 THEN [ok |-> TRUE, next |-> o, items |-> <<>>]
                         ELSE IF f[k - 1].ok
                              THEN AddItem(f[k - 1], ParseItem(d, f[k - 1].next, s))
                              ELSE f[k - 1]
           Solution(j, f) == f = [k \in 0..j |-> Body(f, k)]
<1>2. ReadSection(d, o, s) = (CHOOSE f : Solution(n, f))[n]
    BY <1>1 DEF ReadSection
<1>3. PICK S : S = {j \in Nat : \E f : Solution(j, f)}
    OBVIOUS
<1>4. 0 \in S
  <2>1. PICK f : f = [k \in 0..0 |-> [ok |-> TRUE, next |-> o, items |-> <<>>]]
      OBVIOUS
  <2>2. \A k \in 0..0 : Body(f, k) = [ok |-> TRUE, next |-> o, items |-> <<>>]
      OBVIOUS
  <2> HIDE DEF Body
  <2>3. Solution(0, f)
      BY <2>1, <2>2
  <2> QED BY <1>3, <2>3
<1>5. ASSUME NEW j \in Nat, j \in S PROVE j + 1 \in S
  <2>1. PICK f : Solution(j, f)
      BY <1>3, <1>5
  <2>2. PICK g : g = [k \in 0..(j + 1) |-> IF k <= j THEN f[k] ELSE Body(f, k)]
      OBVIOUS
  <2>3. ASSUME NEW k \in 0..(j + 1) PROVE g[k] = Body(g, k)
    <3>1. CASE k = 0
      <4>1. k <= j /\ k \in 0..j
          BY <3>1
      <4>2. g[k] = Body(f, k)
          BY <2>1, <2>2, <4>1
      <4> QED BY <3>1, <4>2
    <3>2. CASE k # 0
      <4>1. k - 1 \in 0..(j + 1) /\ k - 1 <= j
          BY <3>2
      <4>2. g[k - 1] = f[k - 1]
          BY <2>2, <4>1
      <4>3. Body(g, k) = Body(f, k)
          BY <3>2, <4>2
      <4>4. g[k] = Body(f, k)
        <5>1. k <= j => k \in 0..j
            OBVIOUS
        <5> HIDE DEF Body
        <5> QED BY <2>1, <2>2, <5>1
      <4> QED BY <4>3, <4>4
    <3> QED BY <3>1, <3>2
  <2> HIDE DEF Body
  <2>4. Solution(j + 1, g)
      BY <2>2, <2>3
  <2> QED BY <1>3, <2>4
<1> HIDE DEF Solution
<1>6. n \in S
    BY <1>4, <1>5, Induction
<1>7. PICK f : Solution(n, f) /\ ReadSection(d, o, s) = f[n]
    BY <1>2, <1>3, <1>6
<1>8. \A k \in 0..n : f[k] = Body(f, k)
  <2> HIDE DEF Body
  <2> QED BY <1>7 DEF Solution
<1>9. f[0] = [ok |-> TRUE, next |-> o, items |-> <<>>]
  <2>1. 0 \in 0..n
      OBVIOUS
  <2> QED BY <1>8, <2>1
<1>10. ASSUME NEW k \in 1..n
       PROVE  f[k] = IF f[k - 1].ok THEN AddItem(f[k - 1], ParseItem(d, f[k - 1].next, s))
                     ELSE f[k - 1]
  <2>1. k \in 0..n /\ k # 0
      OBVIOUS
  <2> QED BY <1>8, <2>1
<1>11. SectionSteps(f, d, o, s, n)
    BY <1>9, <1>10 DEF SectionSteps
<1> QED BY <1>1, <1>7, <1>11

\* A section holds items of the packet, no more than its header counts.
LEMMA SectionItems ==
    ASSUME NEW d \in Octets, NEW o \in Nat, NEW s, Count(d, s) \in Nat
    PROVE  /\ ReadSection(d, o, s).next \in Nat
           /\ ReadSection(d, o, s).items \in Seq(ParsedItems(d, s))
           /\ Len(ReadSection(d, o, s).items) <= Count(d, s)
<1>1. PICK n \in Nat : n = Count(d, s)
    OBVIOUS
<1>2. PICK f : SectionSteps(f, d, o, s, n) /\ ReadSection(d, o, s) = f[n]
    BY <1>1, SectionIs
<1>3. PICK P : P = ParsedItems(d, s)
    OBVIOUS
<1> DEFINE Good(q, k) == q.next \in Nat /\ q.items \in Seq(P) /\ Len(q.items) <= k
<1>4. PICK S : S = {k \in Nat : k <= n => Good(f[k], k)}
    OBVIOUS
<1>5. 0 \in S
  <2>1. f[0].next = o /\ f[0].items = <<>>
      BY <1>2 DEF SectionSteps
  <2>2. <<>> \in Seq(P) /\ Len(<<>>) <= 0
      OBVIOUS
  <2>3. Good(f[0], 0)
      BY <2>1, <2>2
  <2> QED BY <1>4, <2>3
<1>6. ASSUME NEW j \in Nat, j \in S PROVE j + 1 \in S
  <2> SUFFICES ASSUME j + 1 <= n PROVE Good(f[j + 1], j + 1)
      BY <1>4
  <2>1. PICK q : q = f[j] /\ Good(q, j)
    <3>1. j <= n
        OBVIOUS
    <3> HIDE DEF Good
    <3> QED BY <1>4, <1>6, <3>1
  <2>2. f[j + 1] = IF q.ok THEN AddItem(q, ParseItem(d, q.next, s)) ELSE q
    <3>1. j + 1 \in 1..n /\ (j + 1) - 1 = j
        OBVIOUS
    <3> QED BY <1>2, <2>1, <3>1 DEF SectionSteps
  <2>3. PICK x : x = ParseItem(d, q.next, s)
      OBVIOUS
  <2>4. PICK l \in Nat : l = Len(q.items)
      BY <2>1
  <2>5. l <= j + 1
      BY <2>1, <2>4
  <2>6. CASE q.ok /\ x.ok
    <3>1. f[j + 1] = [ok |-> TRUE, next |-> x.next, items |-> Append(q.items, x.item)]
        BY <2>2, <2>3, <2>6 DEF AddItem
    <3>2. x.next \in Nat /\ x.item \in P
        BY <1>3, <2>1, <2>3, <2>6, ParsedItemIs DEF ParsedItems
    <3>3. Append(q.items, x.item) \in Seq(P) /\ Len(Append(q.items, x.item)) = l + 1
        BY <2>1, <2>4, <3>2, AppendProperties
    <3>4. l + 1 <= j + 1
        BY <2>1, <2>4
    <3> QED BY <3>1, <3>2, <3>3, <3>4
  <2>7. CASE q.ok /\ ~x.ok
    <3>1. f[j + 1] = NoItems
        BY <2>2, <2>3, <2>7 DEF AddItem
    <3>2. <<>> \in Seq(P) /\ Len(<<>>) <= j + 1
        OBVIOUS
    <3> QED BY <3>1, <3>2 DEF NoItems
  <2>8. CASE ~q.ok
      BY <2>1, <2>2, <2>4, <2>5, <2>8
  <2> QED BY <2>6, <2>7, <2>8
<1> HIDE DEF Good
<1>7. n \in S
    BY <1>5, <1>6, Induction
<1>8. Good(f[n], n)
    BY <1>4, <1>7
<1> QED BY <1>1, <1>2, <1>3, <1>8 DEF Good

\* A packet whose items are all in d.
IsPacket(d, p) ==
    /\ p = [ok |-> TRUE, head |-> p.head, sections |-> p.sections]
    /\ p.head = Slice(d, 0, 4) /\ p.head \in Octets /\ Len(p.head) = 4
    /\ \A s \in Sections : /\ p.sections[s] \in Seq(ParsedItems(d, s))
                           /\ Len(p.sections[s]) < 65536

\* A count in the header is a number of 16 bits.
LEMMA CountType ==
    ASSUME NEW d \in Octets, Len(d) >= 12, NEW s \in Sections
    PROVE  Count(d, s) \in Nat /\ Count(d, s) < 65536
<1>1. PICK n : n = 2 + 2 * s
    OBVIOUS
<1>2. n \in Nat /\ n + 1 < 12
    BY <1>1 DEF Sections
<1>3. n + 1 < Len(d)
  <2>1. Len(d) \in Nat
      BY OctetsAre
  <2> QED BY <1>2, <2>1
<1> QED BY <1>1, <1>2, <1>3, U16Type DEF Count

\* A packet that parses has a header, and sections of items parsed from it.
LEMMA ParsePacketIs ==
    ASSUME NEW d \in Octets
    PROVE  /\ ParsePacket(d).ok \in BOOLEAN
           /\ ParsePacket(d).ok => Len(d) >= 12 /\ IsPacket(d, ParsePacket(d))
<1>1. PICK q1, q2, q3, q4 :
          /\ q1 = ReadSection(d, 12, 1) /\ q2 = ReadSection(d, q1.next, 2)
          /\ q3 = ReadSection(d, q2.next, 3) /\ q4 = ReadSection(d, q3.next, 4)
    OBVIOUS
<1>2. PICK p : p = ParsePacket(d)
    OBVIOUS
<1>3. p = IF Len(d) >= 12 /\ q1.ok /\ q2.ok /\ q3.ok /\ q4.ok
          THEN [ok |-> TRUE, head |-> Slice(d, 0, 4),
                sections |-> <<q1.items, q2.items, q3.items, q4.items>>]
          ELSE Rejected
    BY <1>1, <1>2 DEF ParsePacket
<1>4. CASE ~(Len(d) >= 12 /\ q1.ok /\ q2.ok /\ q3.ok /\ q4.ok)
  <2>1. p = Rejected
      BY <1>3, <1>4
  <2> QED BY <1>2, <2>1 DEF Rejected
<1>5. CASE Len(d) >= 12 /\ q1.ok /\ q2.ok /\ q3.ok /\ q4.ok
  <2>1. p = [ok |-> TRUE, head |-> Slice(d, 0, 4),
             sections |-> <<q1.items, q2.items, q3.items, q4.items>>]
      BY <1>3, <1>5
  <2>2. \A s \in Sections : Count(d, s) \in Nat /\ Count(d, s) < 65536
      BY <1>5, CountType
  <2>3. ASSUME NEW s \in Sections, NEW o \in Nat, NEW q, q = ReadSection(d, o, s)
        PROVE  q.next \in Nat /\ q.items \in Seq(ParsedItems(d, s)) /\ Len(q.items) < 65536
    <3>1. PICK n \in Nat : n = Count(d, s) /\ n < 65536
        BY <2>2
    <3>2. q.next \in Nat /\ q.items \in Seq(ParsedItems(d, s)) /\ Len(q.items) <= n
        BY <2>3, <3>1, SectionItems
    <3>3. PICK l \in Nat : l = Len(q.items)
        BY <3>2
    <3>4. l < 65536
        BY <3>1, <3>2, <3>3
    <3> QED BY <3>2, <3>3, <3>4
  <2>4. 1 \in Sections /\ 2 \in Sections /\ 3 \in Sections /\ 4 \in Sections /\ 12 \in Nat
      BY DEF Sections
  <2>5. q1.next \in Nat /\ q1.items \in Seq(ParsedItems(d, 1)) /\ Len(q1.items) < 65536
      BY <1>1, <2>3, <2>4
  <2>6. q2.next \in Nat /\ q2.items \in Seq(ParsedItems(d, 2)) /\ Len(q2.items) < 65536
      BY <1>1, <2>3, <2>4, <2>5
  <2>7. q3.next \in Nat /\ q3.items \in Seq(ParsedItems(d, 3)) /\ Len(q3.items) < 65536
      BY <1>1, <2>3, <2>4, <2>6
  <2>8. q4.items \in Seq(ParsedItems(d, 4)) /\ Len(q4.items) < 65536
      BY <1>1, <2>3, <2>4, <2>7
  <2>9. ASSUME NEW s \in Sections
        PROVE  p.sections[s] \in Seq(ParsedItems(d, s)) /\ Len(p.sections[s]) < 65536
    <3>1. s = 1 \/ s = 2 \/ s = 3 \/ s = 4
        BY DEF Sections
    <3>2. CASE s = 1
        BY <2>1, <2>5, <3>2
    <3>3. CASE s = 2
        BY <2>1, <2>6, <3>3
    <3>4. CASE s = 3
        BY <2>1, <2>7, <3>4
    <3>5. CASE s = 4
        BY <2>1, <2>8, <3>5
    <3> QED BY <3>1, <3>2, <3>3, <3>4, <3>5
  <2>10. Slice(d, 0, 4) \in Octets /\ Len(Slice(d, 0, 4)) = 4
    <3>1. PICK l \in Nat : l = Len(d)
        BY OctetsAre
    <3>2. 0 \in Nat /\ 4 \in Nat /\ 0 + 4 <= l
        BY <1>5, <3>1
    <3> QED BY <3>1, <3>2, SliceType
  <2>11. p.ok = TRUE /\ p.head = Slice(d, 0, 4)
         /\ p = [ok |-> TRUE, head |-> p.head, sections |-> p.sections]
      BY <2>1
  <2>12. IsPacket(d, p)
      BY <2>9, <2>10, <2>11 DEF IsPacket
  <2> QED BY <1>2, <1>5, <2>11, <2>12
<1> QED BY <1>4, <1>5

\* What is kept of a section, as the steps of its loop.
KeepSteps(f, items, some) ==
    /\ f[0] = <<>>
    /\ \A k \in 1..Len(items) :
          f[k] = IF k \in some THEN Append(f[k - 1], items[k]) ELSE f[k - 1]

\* KeepSome is the last of its steps.
LEMMA KeepSomeIs ==
    ASSUME NEW items, NEW some, Len(items) \in Nat
    PROVE  \E f : KeepSteps(f, items, some) /\ KeepSome(items, some) = f[Len(items)]
<1>1. PICK n \in Nat : n = Len(items)
    OBVIOUS
<1> DEFINE Body(f, k) == IF k = 0 THEN <<>>
                         ELSE IF k \in some THEN Append(f[k - 1], items[k]) ELSE f[k - 1]
           Solution(j, f) == f = [k \in 0..j |-> Body(f, k)]
<1>2. KeepSome(items, some) = (CHOOSE f : Solution(n, f))[n]
    BY <1>1 DEF KeepSome
<1>3. PICK S : S = {j \in Nat : \E f : Solution(j, f)}
    OBVIOUS
<1>4. 0 \in S
  <2>1. PICK f : f = [k \in 0..0 |-> <<>>]
      OBVIOUS
  <2>2. \A k \in 0..0 : Body(f, k) = <<>>
      OBVIOUS
  <2> HIDE DEF Body
  <2>3. Solution(0, f)
      BY <2>1, <2>2
  <2> QED BY <1>3, <2>3
<1>5. ASSUME NEW j \in Nat, j \in S PROVE j + 1 \in S
  <2>1. PICK f : Solution(j, f)
      BY <1>3, <1>5
  <2>2. PICK g : g = [k \in 0..(j + 1) |-> IF k <= j THEN f[k] ELSE Body(f, k)]
      OBVIOUS
  <2>3. ASSUME NEW k \in 0..(j + 1) PROVE g[k] = Body(g, k)
    <3>1. CASE k = 0
      <4>1. k <= j /\ k \in 0..j
          BY <3>1
      <4>2. g[k] = Body(f, k)
          BY <2>1, <2>2, <4>1
      <4> QED BY <3>1, <4>2
    <3>2. CASE k # 0
      <4>1. k - 1 \in 0..(j + 1) /\ k - 1 <= j
          BY <3>2
      <4>2. g[k - 1] = f[k - 1]
          BY <2>2, <4>1
      <4>3. Body(g, k) = Body(f, k)
          BY <3>2, <4>2
      <4>4. g[k] = Body(f, k)
        <5>1. k <= j => k \in 0..j
            OBVIOUS
        <5> HIDE DEF Body
        <5> QED BY <2>1, <2>2, <5>1
      <4> QED BY <4>3, <4>4
    <3> QED BY <3>1, <3>2
  <2> HIDE DEF Body
  <2>4. Solution(j + 1, g)
      BY <2>2, <2>3
  <2> QED BY <1>3, <2>4
<1> HIDE DEF Solution
<1>6. n \in S
    BY <1>4, <1>5, Induction
<1>7. PICK f : Solution(n, f) /\ KeepSome(items, some) = f[n]
    BY <1>2, <1>3, <1>6
<1>8. \A k \in 0..n : f[k] = Body(f, k)
  <2> HIDE DEF Body
  <2> QED BY <1>7 DEF Solution
<1>9. f[0] = <<>>
  <2>1. 0 \in 0..n
      OBVIOUS
  <2> QED BY <1>8, <2>1
<1>10. ASSUME NEW k \in 1..n
       PROVE  f[k] = IF k \in some THEN Append(f[k - 1], items[k]) ELSE f[k - 1]
  <2>1. k \in 0..n /\ k # 0
      OBVIOUS
  <2> QED BY <1>8, <2>1
<1>11. KeepSteps(f, items, some)
    BY <1>1, <1>9, <1>10 DEF KeepSteps
<1> QED BY <1>1, <1>7, <1>11

\* KeepSome keeps the items' type and adds none.
LEMMA KeepSomeType ==
    ASSUME NEW X, NEW items \in Seq(X), NEW some
    PROVE  KeepSome(items, some) \in Seq(X) /\ Len(KeepSome(items, some)) <= Len(items)
<1>1. PICK n \in Nat : n = Len(items)
    OBVIOUS
<1>2. PICK f : KeepSteps(f, items, some) /\ KeepSome(items, some) = f[n]
    BY <1>1, KeepSomeIs
<1> DEFINE Good(q, k) == q \in Seq(X) /\ Len(q) <= k
<1>3. PICK S : S = {k \in Nat : k <= n => Good(f[k], k)}
    OBVIOUS
<1>4. 0 \in S
  <2>1. <<>> \in Seq(X) /\ Len(<<>>) <= 0
      OBVIOUS
  <2> QED BY <1>2, <1>3, <2>1 DEF KeepSteps
<1>5. ASSUME NEW j \in Nat, j \in S PROVE j + 1 \in S
  <2> SUFFICES ASSUME j + 1 <= n PROVE Good(f[j + 1], j + 1)
      BY <1>3
  <2>1. PICK q : q = f[j] /\ Good(q, j)
    <3>1. j <= n
        OBVIOUS
    <3> HIDE DEF Good
    <3> QED BY <1>3, <1>5, <3>1
  <2>2. PICK k \in Nat : k = j + 1
      OBVIOUS
  <2>3. k \in 1..n /\ k - 1 = j
      BY <2>2
  <2>4. f[k] = IF k \in some THEN Append(q, items[k]) ELSE q
      BY <1>1, <1>2, <2>1, <2>3 DEF KeepSteps
  <2>5. PICK l \in Nat : l = Len(q) /\ l <= j
      BY <2>1
  <2>6. items[k] \in X
      BY <1>1, <2>3
  <2>7. Append(q, items[k]) \in Seq(X) /\ Len(Append(q, items[k])) = l + 1
      BY <2>1, <2>5, <2>6, AppendProperties
  <2>8. l + 1 <= k /\ l <= k
      BY <2>2, <2>5
  <2> QED BY <2>1, <2>2, <2>4, <2>5, <2>7, <2>8
<1> HIDE DEF Good
<1>6. n \in S
    BY <1>4, <1>5, Induction
<1>7. Good(f[n], n)
    BY <1>3, <1>6
<1> QED BY <1>1, <1>2, <1>7 DEF Good

\* Keep gives a packet of the same bytes with the same head.
LEMMA KeepIs ==
    ASSUME NEW d, NEW p, NEW some, IsPacket(d, p)
    PROVE  IsPacket(d, Keep(p, some)) /\ Keep(p, some).head = p.head
<1>1. PICK head, sections :
          /\ head = p.head /\ sections = p.sections
          /\ p = [ok |-> TRUE, head |-> head, sections |-> sections]
    BY DEF IsPacket
<1>2. PICK rest : rest = [s \in Sections |->
                             KeepSome(sections[s], {k \in DOMAIN sections[s] : <<s, k>> \in some})]
    OBVIOUS
<1>3. Keep(p, some) = [p EXCEPT !.sections = rest]
    BY <1>1, <1>2 DEF Keep
<1>4. [p EXCEPT !.sections = rest] = [ok |-> TRUE, head |-> head, sections |-> rest]
  <2>1. PICK ok : ok = TRUE
      OBVIOUS
  <2>2. p = [ok |-> ok, head |-> head, sections |-> sections]
      BY <1>1, <2>1
  <2>3. [p EXCEPT !.sections = rest] = [ok |-> ok, head |-> head, sections |-> rest]
      BY <2>2
  <2> QED BY <2>1, <2>3
<1>5. PICK q : q = Keep(p, some)
    OBVIOUS
<1>6. q = [ok |-> TRUE, head |-> head, sections |-> rest] /\ q.head = head /\ q.sections = rest
    BY <1>3, <1>4, <1>5
<1>7. ASSUME NEW s \in Sections
      PROVE  rest[s] \in Seq(ParsedItems(d, s)) /\ Len(rest[s]) < 65536
  <2>1. PICK items : /\ items = sections[s] /\ items \in Seq(ParsedItems(d, s))
                     /\ Len(items) < 65536
      BY <1>1 DEF IsPacket
  <2>2. PICK X : X = ParsedItems(d, s)
      OBVIOUS
  <2>3. PICK some2 : some2 = {k \in DOMAIN items : <<s, k>> \in some}
      OBVIOUS
  <2>4. rest[s] = KeepSome(items, some2)
      BY <1>2, <2>1, <2>3
  <2>5. items \in Seq(X)
      BY <2>1, <2>2
  <2>6. KeepSome(items, some2) \in Seq(X) /\ Len(KeepSome(items, some2)) <= Len(items)
      BY <2>5, KeepSomeType
  <2>7. PICK r : r = rest[s] /\ r \in Seq(X) /\ Len(r) <= Len(items)
      BY <2>4, <2>6
  <2>8. PICK m, n : m \in Nat /\ n \in Nat /\ m = Len(r) /\ n = Len(items)
    <3>1. Len(r) \in Nat /\ Len(items) \in Nat
        BY <2>5, <2>7, LenProperties
    <3> QED BY <3>1
  <2>9. m < 65536
      BY <2>1, <2>7, <2>8
  <2> QED BY <2>2, <2>7, <2>8, <2>9
<1>8. head = Slice(d, 0, 4) /\ head \in Octets /\ Len(head) = 4
    BY <1>1 DEF IsPacket
<1>9. IsPacket(d, q)
    BY <1>6, <1>7, <1>8 DEF IsPacket
<1> QED BY <1>1, <1>5, <1>6, <1>9

WriteSteps(f, w, s, items) ==
    /\ f[0] = w
    /\ \A k \in 1..Len(items) : f[k] = WriteItem(f[k - 1], s, items[k])

\* WriteSection is the last of its steps.
LEMMA WriteSectionIs ==
    ASSUME NEW w, NEW s, NEW items, Len(items) \in Nat
    PROVE  \E f : WriteSteps(f, w, s, items) /\ WriteSection(w, s, items) = f[Len(items)]
<1>1. PICK n \in Nat : n = Len(items)
    OBVIOUS
<1> DEFINE Body(f, k) == IF k = 0 THEN w ELSE WriteItem(f[k - 1], s, items[k])
           Solution(j, f) == f = [k \in 0..j |-> Body(f, k)]
<1>2. WriteSection(w, s, items) = (CHOOSE f : Solution(n, f))[n]
    BY <1>1 DEF WriteSection
<1>3. PICK S : S = {j \in Nat : \E f : Solution(j, f)}
    OBVIOUS
<1>4. 0 \in S
  <2>1. PICK f : f = [k \in 0..0 |-> w]
      OBVIOUS
  <2>2. \A k \in 0..0 : Body(f, k) = w
      OBVIOUS
  <2> HIDE DEF Body
  <2>3. Solution(0, f)
      BY <2>1, <2>2
  <2> QED BY <1>3, <2>3
<1>5. ASSUME NEW j \in Nat, j \in S PROVE j + 1 \in S
  <2>1. PICK f : Solution(j, f)
      BY <1>3, <1>5
  <2>2. PICK g : g = [k \in 0..(j + 1) |-> IF k <= j THEN f[k] ELSE Body(f, k)]
      OBVIOUS
  <2>3. ASSUME NEW k \in 0..(j + 1) PROVE g[k] = Body(g, k)
    <3>1. CASE k = 0
      <4>1. k <= j /\ k \in 0..j
          BY <3>1
      <4>2. g[k] = Body(f, k)
          BY <2>1, <2>2, <4>1
      <4> QED BY <3>1, <4>2
    <3>2. CASE k # 0
      <4>1. k - 1 \in 0..(j + 1) /\ k - 1 <= j
          BY <3>2
      <4>2. g[k - 1] = f[k - 1]
          BY <2>2, <4>1
      <4>3. Body(g, k) = Body(f, k)
          BY <3>2, <4>2
      <4>4. g[k] = Body(f, k)
        <5>1. k <= j => k \in 0..j
            OBVIOUS
        <5> HIDE DEF Body
        <5> QED BY <2>1, <2>2, <5>1
      <4> QED BY <4>3, <4>4
    <3> QED BY <3>1, <3>2
  <2> HIDE DEF Body
  <2>4. Solution(j + 1, g)
      BY <2>2, <2>3
  <2> QED BY <1>3, <2>4
<1> HIDE DEF Solution
<1>6. n \in S
    BY <1>4, <1>5, Induction
<1>7. PICK f : Solution(n, f) /\ WriteSection(w, s, items) = f[n]
    BY <1>2, <1>3, <1>6
<1>8. \A k \in 0..n : f[k] = Body(f, k)
  <2> HIDE DEF Body
  <2> QED BY <1>7 DEF Solution
<1>9. f[0] = w
  <2>1. 0 \in 0..n
      OBVIOUS
  <2> QED BY <1>8, <2>1
<1>10. ASSUME NEW k \in 1..n PROVE f[k] = WriteItem(f[k - 1], s, items[k])
  <2>1. k \in 0..n /\ k # 0
      OBVIOUS
  <2> QED BY <1>8, <2>1
<1>11. WriteSteps(f, w, s, items)
    BY <1>1, <1>9, <1>10 DEF WriteSteps
<1> QED BY <1>1, <1>7, <1>11

QuestionTail(q) == Bytes16(q.type) \o q.class

\* A question is its name, then its type and class; it fails when the name does not fit.
LEMMA WriteQuestionType ==
    ASSUME NEW w \in Writers, NEW q, IsItem(1, q)
    PROVE  /\ QuestionTail(q) \in Octets /\ Len(QuestionTail(q)) = 4
           /\ WriteItem(w, 1, q) = Put(WriteName(w, q.name), QuestionTail(q))
           /\ WriteItem(w, 1, q) \in Writers
           /\ WriteItem(w, 1, q).ok <=> w.ok /\ NameFits(w.dict, Canon(q.name))
<1>1. PICK b : b = Bytes16(q.type) /\ b \in Octets /\ Len(b) = 2
    BY Bytes16Type DEF IsItem
<1>2. PICK c : c = q.class /\ c \in Octets /\ Len(c) = 2
    BY DEF IsItem
<1>3. PICK e : e = b \o c /\ e \in Octets /\ Len(e) = 4
  <2>1. PICK j : j = b \o c
      OBVIOUS
  <2>2. j \in Octets /\ Len(j) = Len(b) + Len(c)
      BY <1>1, <1>2, <2>1, OctetsJoin
  <2>3. PICK l : l = Len(j)
      OBVIOUS
  <2>4. l = 4
      BY <1>1, <1>2, <2>2, <2>3
  <2>5. Len(j) = 4
      BY <2>3, <2>4
  <2> HIDE <2>3
  <2> QED BY <2>1, <2>2, <2>5, Zenon
<1>4. e = QuestionTail(q)
    BY <1>1, <1>2, <1>3 DEF QuestionTail
<1>5. q.name \in Text
    BY DEF IsItem
<1>6. PICK x : x = WriteName(w, q.name) /\ x \in Writers
               /\ (x.ok <=> w.ok /\ NameFits(w.dict, Canon(q.name)))
    BY <1>5, WriteNameType
<1>7. WriteItem(w, 1, q) = Put(x, e)
    BY <1>3, <1>1, <1>2, <1>6 DEF WriteItem, WriteQuestion
<1>8. Put(x, e) \in Writers /\ Put(x, e).ok = x.ok
    BY <1>3, <1>6, PutType
<1> QED BY <1>3, <1>4, <1>6, <1>7, <1>8

RRHeader(len, r) == RRHead(r) \o Bytes16(len)

\* A record is its name, its header, then its rdata; it fails when one of its names does
\* not fit.
LEMMA WriteRecordType ==
    ASSUME NEW w \in Writers, NEW s \in Sections, s # 1, NEW r, IsItem(s, r)
    PROVE  LET x == WriteName(w, r.name)
               len == Len(RdataBytes(x.dict, r))
               h == RRHeader(len, r)
           IN  /\ x \in Writers /\ len \in Nat /\ h \in Octets
               /\ Put(x, h) \in Writers
               /\ WriteItem(w, s, r) = WriteRdata(Put(x, h), r)
               /\ WriteItem(w, s, r) \in Writers
               /\ WriteItem(w, s, r).ok <=> /\ w.ok /\ NameFits(w.dict, Canon(r.name))
                                            /\ RdataFits(x.dict, r)
<1>1. IsWhole(r) /\ IsRecord(r) /\ r.name \in Text
  <2>1. IsWhole(r)
      BY DEF IsItem
  <2>2. IsRecord(r) /\ r.name \in Text
      BY <2>1 DEF IsWhole
  <2> QED BY <2>1, <2>2
<1>2. PICK x : x = WriteName(w, r.name) /\ x \in Writers
               /\ (x.ok <=> w.ok /\ NameFits(w.dict, Canon(r.name)))
    BY <1>1, WriteNameType
<1>3. PICK dict : dict = x.dict /\ dict \in Dicts
    BY <1>2 DEF Writers
<1>4. PICK b : b = RdataBytes(dict, r) /\ b \in Octets
  <2>1. PICK z \in Nat : z = 0
      OBVIOUS
  <2> QED BY <1>1, <1>3, RdataType
<1>5. PICK len \in Nat : len = Len(b)
    BY <1>4, OctetsAre
<1>6. PICK h : h = RRHeader(len, r) /\ h \in Octets
  <2>1. PICK a : a = RRHead(r) /\ a \in Octets
      BY <1>1, RRHeadType
  <2>2. PICK c : c = Bytes16(len) /\ c \in Octets
      BY <1>5, Bytes16Type
  <2>3. a \o c \in Octets
      BY <2>1, <2>2, OctetsJoin
  <2> QED BY <2>1, <2>2, <2>3 DEF RRHeader
<1>7. PICK y : y = Put(x, h) /\ y \in Writers /\ y.dict = dict /\ y.ok = x.ok
    BY <1>2, <1>3, <1>6, PutType
<1>8. WriteRR(w, r) = WriteRdata(y, r)
    BY <1>1, <1>2, <1>3, <1>4, <1>5, <1>6, <1>7, WriteRRIs DEF RRHeader
<1>9. WriteItem(w, s, r) = WriteRdata(y, r)
    BY <1>8 DEF WriteItem
<1>10. PICK l \in Nat : l = Len(y.buf)
    BY <1>7, OctetsAre DEF Writers
<1>11. RdataFits(dict, r) \in BOOLEAN
    BY <1>1, <1>3, <1>10, RdataType
<1>12. WriteRdata(y, r) \in Writers
    BY <1>1, <1>7, WriteRdataIs
<1>13. WriteRdata(y, r) = [buf |-> y.buf \o RdataBytes(dict, r),
                           dict |-> RdataDict(Len(y.buf), dict, r),
                           ok |-> y.ok /\ RdataFits(dict, r)]
    BY <1>1, <1>7, WriteRdataIs
<1>14. WriteRdata(y, r).ok <=> y.ok /\ RdataFits(dict, r)
  <2>1. PICK buf, dct, ok : WriteRdata(y, r) = [buf |-> buf, dict |-> dct, ok |-> ok]
                            /\ ok = (y.ok /\ RdataFits(dict, r))
      BY <1>13
  <2>2. WriteRdata(y, r).ok = ok
      BY <2>1
  <2> QED BY <2>1, <2>2
<1> QED BY <1>2, <1>3, <1>4, <1>5, <1>6, <1>7, <1>9, <1>12, <1>14

\* Every name of an item can be written.
NamesFit(item) == \A n \in NamesIn(item) : Fits(Canon(n))

\* An item is written when its names fit, and a failed write stays failed.
LEMMA WriteItemOk ==
    ASSUME NEW w \in Writers, NEW s \in Sections, NEW item, IsItem(s, item)
    PROVE  /\ WriteItem(w, s, item) \in Writers
           /\ w.ok /\ NamesFit(item) => WriteItem(w, s, item).ok
           /\ WriteItem(w, s, item).ok => w.ok
<1>1. item.name \in NamesIn(item)
    BY DEF NamesIn
<1>2. \A dict : NamesFit(item) => NameFits(dict, Canon(item.name))
    BY <1>1 DEF NamesFit, NameFits
<1>3. CASE s = 1
    BY <1>2, <1>3, WriteQuestionType
<1>4. CASE s # 1
  <2>1. PICK x : x = WriteName(w, item.name)
      OBVIOUS
  <2>2. WriteItem(w, s, item) \in Writers
      BY <1>4, WriteRecordType
  <2>3. WriteItem(w, s, item).ok <=> /\ w.ok /\ NameFits(w.dict, Canon(item.name))
                                     /\ RdataFits(x.dict, item)
      BY <1>4, <2>1, WriteRecordType
  <2>4. NamesFit(item) => RdataFits(x.dict, item)
    <3> SUFFICES ASSUME NamesFit(item), WritesName(item)
                 PROVE  NameFits(x.dict, Canon(item.target[1]))
        BY DEF RdataFits
    <3>1. item.target \in Seq(Text) /\ item.target # <<>>
        BY <1>4 DEF IsItem, IsWhole, IsRecord, WritesName
    <3>2. PICK n \in Text : n = item.target[1] /\ n \in ToSet(item.target)
      <4>1. 1 \in DOMAIN item.target
          BY <3>1
      <4> QED BY <3>1, <4>1, ToSetIs
    <3>3. n \in NamesIn(item)
        BY <1>4, <3>2 DEF IsItem, NamesIn
    <3>4. Fits(Canon(n))
        BY <3>3 DEF NamesFit
    <3> QED BY <3>2, <3>4 DEF NameFits
  <2> QED BY <1>2, <2>2, <2>3, <2>4
<1> QED BY <1>3, <1>4

AllItems(s, X) == \A item \in X : IsItem(s, item)

\* So is a section of such items.
LEMMA WriteSectionOk ==
    ASSUME NEW w \in Writers, NEW s \in Sections, NEW X, AllItems(s, X), NEW items \in Seq(X)
    PROVE  /\ WriteSection(w, s, items) \in Writers
           /\ w.ok /\ (\A k \in 1..Len(items) : NamesFit(items[k])) =>
                 WriteSection(w, s, items).ok
           /\ WriteSection(w, s, items).ok => w.ok
<1>1. PICK n \in Nat : n = Len(items)
    OBVIOUS
<1>2. PICK f : WriteSteps(f, w, s, items) /\ WriteSection(w, s, items) = f[n]
    BY <1>1, WriteSectionIs
<1> DEFINE All(k) == \A j \in 1..k : NamesFit(items[j])
           Good(x, k) == x \in Writers /\ (w.ok /\ All(k) => x.ok) /\ (x.ok => w.ok)
<1>3. PICK S : S = {k \in Nat : k <= n => Good(f[k], k)}
    OBVIOUS
<1>4. 0 \in S
    BY <1>2, <1>3 DEF WriteSteps
<1>5. ASSUME NEW j \in Nat, j \in S PROVE j + 1 \in S
  <2> SUFFICES ASSUME j + 1 <= n PROVE Good(f[j + 1], j + 1)
      BY <1>3
  <2>1. PICK x : x = f[j] /\ Good(x, j)
    <3>1. j <= n
        OBVIOUS
    <3> HIDE DEF Good
    <3> QED BY <1>3, <1>5, <3>1
  <2>2. PICK k \in Nat : k = j + 1
      OBVIOUS
  <2>3. k \in 1..n /\ k - 1 = j
      BY <2>2
  <2>4. PICK item : item = items[k] /\ item \in X
      BY <1>1, <2>3
  <2>5. IsItem(s, item)
      BY <2>4 DEF AllItems
  <2>6. f[k] = WriteItem(x, s, item)
      BY <1>1, <1>2, <2>1, <2>3, <2>4 DEF WriteSteps
  <2>7. /\ f[k] \in Writers /\ (x.ok /\ NamesFit(item) => f[k].ok)
        /\ (f[k].ok => x.ok)
      BY <2>1, <2>5, <2>6, WriteItemOk
  <2>8. All(k) => All(j) /\ NamesFit(item)
      BY <2>2, <2>3, <2>4
  <2>9. Good(f[k], k)
    <3> HIDE DEF All
    <3> QED BY <2>1, <2>7, <2>8
  <2> QED BY <2>2, <2>9
<1> HIDE DEF Good
<1>6. n \in S
    BY <1>4, <1>5, Induction
<1>7. Good(f[n], n)
    BY <1>3, <1>6
<1> QED BY <1>1, <1>2, <1>7 DEF Good

\* All that is parsed in a section is of its kind.
LEMMA ItemsAre ==
    ASSUME NEW d \in Octets, NEW s
    PROVE  AllItems(s, ParsedItems(d, s))
<1> SUFFICES ASSUME NEW item \in ParsedItems(d, s) PROVE IsItem(s, item)
    BY DEF AllItems
<1>1. PICK o \in Nat : ParseItem(d, o, s).ok /\ item = ParseItem(d, o, s).item
    BY DEF ParsedItems
<1> QED BY <1>1, ParsedItemIs

\* The writer after each of the four sections.
Wrote1(p) == WriteSection(Start(p), 1, p.sections[1])
Wrote2(p) == WriteSection(Wrote1(p), 2, p.sections[2])
Wrote3(p) == WriteSection(Wrote2(p), 3, p.sections[3])
Wrote4(p) == WriteSection(Wrote3(p), 4, p.sections[4])

\* Serialize gives the buffer after the four sections, or fails when a write did.
LEMMA SerializeIs ==
    ASSUME NEW p
    PROVE  /\ Wrote4(p).ok => Serialize(p) = [ok |-> TRUE, buf |-> Wrote4(p).buf]
           /\ ~Wrote4(p).ok => Serialize(p) = Rejected
           /\ Serialize(p).ok <=> Wrote4(p).ok
<1>1. PICK w : w = Wrote4(p)
    OBVIOUS
<1>2. Serialize(p) = IF w.ok THEN [ok |-> TRUE, buf |-> w.buf] ELSE Rejected
    BY <1>1 DEF Serialize, Wrote1, Wrote2, Wrote3, Wrote4
<1>3. ~Rejected.ok
    BY DEF Rejected
<1> QED BY <1>1, <1>2, <1>3

\* The header that serialize writes first takes twelve bytes and learns no name.
LEMMA StartType ==
    ASSUME NEW d, NEW p, IsPacket(d, p)
    PROVE  /\ Start(p) \in Writers /\ Start(p).ok /\ Start(p).dict = <<>>
           /\ Start(p).buf = p.head \o Counts(p)
           /\ Counts(p) \in Octets /\ Len(Counts(p)) = 8
           /\ Start(p).buf \in Octets /\ Len(Start(p).buf) = 12
<1>1. ASSUME NEW s \in Sections
      PROVE  Length16(p.sections[s]) \in Octets /\ Len(Length16(p.sections[s])) = 2
  <2>1. PICK n \in Nat : n = Len(p.sections[s])
      BY DEF IsPacket
  <2> QED BY <2>1, Bytes16Type DEF Length16
<1>2. PICK a1, a2, a3, a4 :
          /\ a1 = Length16(p.sections[1]) /\ a2 = Length16(p.sections[2])
          /\ a3 = Length16(p.sections[3]) /\ a4 = Length16(p.sections[4])
    OBVIOUS
<1>3. /\ a1 \in Octets /\ Len(a1) = 2 /\ a2 \in Octets /\ Len(a2) = 2
      /\ a3 \in Octets /\ Len(a3) = 2 /\ a4 \in Octets /\ Len(a4) = 2
  <2>1. 1 \in Sections /\ 2 \in Sections /\ 3 \in Sections /\ 4 \in Sections
      BY DEF Sections
  <2> QED BY <1>1, <1>2, <2>1
<1>4. PICK b : b = a1 \o a2
    OBVIOUS
<1>5. b \in Octets /\ Len(b) = Len(a1) + Len(a2)
    BY <1>3, <1>4, OctetsJoin
<1>6. PICK c : c = b \o a3
    OBVIOUS
<1>7. c \in Octets /\ Len(c) = Len(b) + Len(a3)
    BY <1>3, <1>5, <1>6, OctetsJoin
<1>8. PICK e : e = c \o a4
    OBVIOUS
<1>9. e \in Octets /\ Len(e) = Len(c) + Len(a4)
    BY <1>3, <1>7, <1>8, OctetsJoin
<1>10. PICK i, j, k : i = Len(b) /\ j = Len(c) /\ k = Len(e)
    OBVIOUS
<1>11. k = 8
    BY <1>3, <1>5, <1>7, <1>9, <1>10
<1>12. e = Counts(p)
    BY <1>2, <1>4, <1>6, <1>8 DEF Counts
<1>13. PICK h : h = p.head /\ h \in Octets /\ Len(h) = 4
    BY DEF IsPacket
<1>14. PICK g : g = h \o e
    OBVIOUS
<1>15. g \in Octets /\ Len(g) = Len(h) + Len(e)
    BY <1>9, <1>13, <1>14, OctetsJoin
<1>16. PICK l : l = Len(g)
    OBVIOUS
<1>17. l = 12
  <2>1. PICK m : m = Len(h) /\ m = 4
      BY <1>13
  <2>2. l = m + k
      BY <1>10, <1>15, <1>16, <2>1
  <2> QED BY <1>11, <2>1, <2>2
<1>18. <<>> \in Dicts
  <2>1. <<>> \in [{} -> Nat]
      OBVIOUS
  <2> QED BY <2>1 DEF Dicts
<1>19. Start(p) = [buf |-> g, dict |-> <<>>, ok |-> TRUE]
    BY <1>12, <1>13, <1>14 DEF Start
<1>20. Start(p) \in Writers
    BY <1>15, <1>18, <1>19 DEF Writers
<1>21. Start(p).ok /\ Start(p).dict = <<>> /\ Start(p).buf = g
    BY <1>19
<1>22. Len(e) = 8 /\ Len(g) = 12
    BY <1>10, <1>11, <1>16, <1>17
<1> HIDE <1>10, <1>16, <1>19
<1> QED BY <1>9, <1>12, <1>13, <1>14, <1>15, <1>20, <1>21, <1>22

-----------------------------------------------------------------------------
(* The history of a packet *)

\* What has become of wire, as far as pc has come.
History ==
    /\ wire \in Octets
    /\ pc \in {"received", "rejected", "parsed", "unsent", "rewritten", "reread"}
    /\ pc \notin {"received", "rejected"} => packet = ParsePacket(wire) /\ packet.ok
    /\ pc \in {"unsent", "rewritten", "reread"} =>
          /\ \E some : kept = Keep(packet, some)
          /\ out = Serialize(kept)
          /\ out.ok <=> pc # "unsent"
    /\ pc = "reread" => /\ Len(out.buf) <= MaxDatagram
                        /\ reread = ParsePacket(out.buf)
                        /\ again = IF reread.ok THEN Serialize(reread) ELSE Rejected

\* The packet's history is that of its steps.
THEOREM HistoryKept == Spec => []History
<1>1. Init => History
    BY CodecAssumption DEF Init, History
<1>2. History /\ [Next]_vars => History'
  <2> SUFFICES ASSUME History, [Next]_vars PROVE History'
      OBVIOUS
  <2>1. CASE Parse
      BY <2>1 DEF Parse, History
  <2>2. CASE Rewrite
    <3>1. PICK some : kept' = Keep(packet, some) /\ out' = Serialize(kept')
        BY <2>2 DEF Rewrite
    <3>2. /\ pc = "parsed" /\ pc' \in {"rewritten", "unsent"} /\ (out'.ok <=> pc' # "unsent")
          /\ wire' = wire /\ packet' = packet
        BY <2>2 DEF Rewrite
    <3> QED BY <3>1, <3>2 DEF History
  <2>3. CASE Reread
      BY <2>3 DEF Reread, History
  <2>4. CASE UNCHANGED vars
      BY <2>4 DEF vars, History
  <2> QED BY <2>1, <2>2, <2>3, <2>4 DEF Next
<1> QED BY <1>1, <1>2, PTL DEF Spec

\* From the filtering on, both packets are packets of what arrived.
LEMMA KeptIs ==
    ASSUME History, pc \in {"unsent", "rewritten", "reread"}
    PROVE  /\ wire \in Octets /\ IsPacket(wire, packet) /\ IsPacket(wire, kept)
           /\ kept.head = packet.head
<1>1. IsPacket(wire, packet)
    BY ParsePacketIs DEF History
<1>2. PICK some : kept = Keep(packet, some)
    BY DEF History
<1> QED BY <1>1, <1>2, KeepIs DEF History

\* What is not written has a name that does not fit.
LEMMA UnsentName ==
    ASSUME NEW d \in Octets, NEW p, IsPacket(d, p), ~Serialize(p).ok
    PROVE  \E s \in Sections : \E k \in 1..Len(p.sections[s]) : ~NamesFit(p.sections[s][k])
<1> SUFFICES ASSUME \A s \in Sections : \A k \in 1..Len(p.sections[s]) : NamesFit(p.sections[s][k])
             PROVE  FALSE
    OBVIOUS
<1>1. 1 \in Sections /\ 2 \in Sections /\ 3 \in Sections /\ 4 \in Sections
    BY DEF Sections
<1>2. ASSUME NEW s \in Sections
      PROVE  AllItems(s, ParsedItems(d, s)) /\ p.sections[s] \in Seq(ParsedItems(d, s))
    BY ItemsAre DEF IsPacket
<1>3. PICK w0 : w0 = Start(p) /\ w0 \in Writers /\ w0.ok
    BY StartType
<1>4. PICK w1 : w1 = Wrote1(p) /\ w1 \in Writers /\ w1.ok
    BY <1>1, <1>2, <1>3, WriteSectionOk DEF Wrote1
<1>5. PICK w2 : w2 = Wrote2(p) /\ w2 \in Writers /\ w2.ok
    BY <1>1, <1>2, <1>4, WriteSectionOk DEF Wrote2
<1>6. PICK w3 : w3 = Wrote3(p) /\ w3 \in Writers /\ w3.ok
    BY <1>1, <1>2, <1>5, WriteSectionOk DEF Wrote3
<1>7. Wrote4(p).ok
    BY <1>1, <1>2, <1>6, WriteSectionOk DEF Wrote4
<1> QED BY <1>7, SerializeIs

\* serialize() fails for no other reason than a label that has grown beyond
\* 63 bytes, by U+FFFD or by letters with a longer lower case (parser.rs:61,
\* packet.rs:159, 179-181), whatever arrives.
THEOREM FailsOnlyForGrown == Spec => []FailsOnlyForGrownLabels
<1>1. History => FailsOnlyForGrownLabels
  <2> SUFFICES ASSUME History, pc = "unsent"
               PROVE  \E n \in KeptNames : \E k \in DOMAIN Parts[Canon(n)] :
                          TooLong(Parts[Canon(n)][k]) /\ \E c \in ToSet(Parts[n][k]) : Grows(c)
      BY DEF FailsOnlyForGrownLabels
  <2>1. wire \in Octets /\ IsPacket(wire, kept)
      BY KeptIs
  <2>2. ~Serialize(kept).ok
      BY DEF History
  <2>3. PICK s \in Sections : \E k \in 1..Len(kept.sections[s]) : ~NamesFit(kept.sections[s][k])
      BY <2>1, <2>2, UnsentName
  <2>4. PICK items, X : /\ items = kept.sections[s] /\ X = ParsedItems(wire, s)
                        /\ items \in Seq(X)
      BY <2>1 DEF IsPacket
  <2>5. PICK i \in 1..Len(items) : ~NamesFit(items[i])
      BY <2>3, <2>4
  <2>6. PICK item : item = items[i] /\ item \in X /\ item \in ToSet(items)
    <3>1. i \in DOMAIN items /\ items[i] \in X
        BY <2>4, <2>5
    <3> QED BY <2>4, <3>1, ToSetIs
  <2>7. item \in KeptItems
      BY <2>4, <2>6 DEF KeptItems
  <2>8. PICK n \in NamesIn(item) : ~Fits(Canon(n))
      BY <2>5, <2>6 DEF NamesFit
  <2>9. n \in KeptNames
      BY <2>7, <2>8 DEF KeptNames
  <2>10. PICK o \in Nat : ParseItem(wire, o, s).ok /\ item = ParseItem(wire, o, s).item
      BY <2>4, <2>6 DEF ParsedItems
  <2>11. n \in ReadNames(wire)
      BY <2>1, <2>8, <2>10, ParsedItemIs
  <2>12. PICK a \in Nat : n = Name[<<wire, a, {}>>].text
      BY <2>11 DEF ReadNames
  <2>13. PICK v \in SUBSET Targets : v = {}
      OBVIOUS
  <2>14. Name[<<wire, a, v>>] \in Readings /\ n = Name[<<wire, a, v>>].text
      BY <2>1, <2>12, <2>13, NameIs
  <2>15. n \in Text
      BY <2>14 DEF Readings
  <2>16. \A p \in ToSet(Parts[n]) : Weight(p) <= 63
      BY <2>1, <2>14, NamePartsShort
  <2>17. \E k \in DOMAIN Parts[Canon(n)] :
             TooLong(Parts[Canon(n)][k]) /\ \E c \in ToSet(Parts[n][k]) : Grows(c)
      BY <2>8, <2>15, <2>16, GrownPart
  <2> QED BY <2>9, <2>17
<1> QED BY <1>1, HistoryKept, PTL

===============================================================================
