----------------------------- MODULE RewriteProofs -----------------------------
(***************************************************************************)
(* Theorems about PacketCodec: what is written is read again, whatever     *)
(* arrived and whatever of it was kept, and is written the same again.     *)
(***************************************************************************)
EXTENDS CodecProofs

-----------------------------------------------------------------------------
(* Bytes found again *)

\* From offset o on, d has the bytes b.
HeldAt(d, o, b) ==
    /\ o + Len(b) <= Len(d)
    /\ \A i \in 1..Len(b) : d[o + i] = b[i]

\* Data holds itself at its start.
LEMMA HeldWhole == \A d \in Octets : HeldAt(d, 0, d)
<1> SUFFICES ASSUME NEW d \in Octets PROVE HeldAt(d, 0, d)
    OBVIOUS
<1>1. PICK n \in Nat : n = Len(d)
    BY OctetsAre
<1> QED BY <1>1 DEF HeldAt

\* Data holds a join when it holds the two parts one behind the other.
LEMMA HeldJoin ==
    ASSUME NEW d \in Octets, NEW o \in Nat, NEW a \in Octets, NEW b \in Octets
    PROVE  HeldAt(d, o, a \o b) <=> HeldAt(d, o, a) /\ HeldAt(d, o + Len(a), b)
<1>1. PICK m, n, l : m \in Nat /\ n \in Nat /\ l \in Nat /\ m = Len(a) /\ n = Len(b) /\ l = Len(d)
    BY OctetsAre
<1>2. PICK c : c = a \o b
    OBVIOUS
<1>3. /\ Len(c) = m + n
      /\ \A i \in 1..m : c[i] = a[i]
      /\ \A i \in 1..n : c[m + i] = b[i]
    BY <1>1, <1>2, OctetsJoin
<1>4. HeldAt(d, o, c) => HeldAt(d, o, a)
    BY <1>1, <1>3 DEF HeldAt
<1>5. HeldAt(d, o, c) => HeldAt(d, o + m, b)
  <2> SUFFICES ASSUME HeldAt(d, o, c) PROVE HeldAt(d, o + m, b)
      OBVIOUS
  <2>1. o + m + n <= l /\ \A i \in 1..(m + n) : d[o + i] = c[i]
      BY <1>1, <1>3 DEF HeldAt
  <2>2. ASSUME NEW i \in 1..n PROVE d[o + m + i] = b[i]
    <3>1. PICK j \in Nat : j = m + i
        BY <1>1
    <3>2. j \in 1..(m + n) /\ o + m + i = o + j
        BY <1>1, <3>1
    <3>3. d[o + j] = c[j]
        BY <2>1, <3>2
    <3> QED BY <1>3, <3>1, <3>2, <3>3
  <2> QED BY <1>1, <2>1, <2>2 DEF HeldAt
<1>6. HeldAt(d, o, a) /\ HeldAt(d, o + m, b) => HeldAt(d, o, c)
  <2> SUFFICES ASSUME HeldAt(d, o, a), HeldAt(d, o + m, b) PROVE HeldAt(d, o, c)
      OBVIOUS
  <2>1. o + m + n <= l /\ \A i \in 1..m : d[o + i] = a[i]
      BY <1>1 DEF HeldAt
  <2>2. \A i \in 1..n : d[o + m + i] = b[i]
      BY <1>1 DEF HeldAt
  <2>3. ASSUME NEW i \in 1..(m + n) PROVE d[o + i] = c[i]
    <3>1. CASE i <= m
        BY <1>3, <2>1, <3>1
    <3>2. CASE ~(i <= m)
      <4>1. PICK j \in 1..n : i = m + j
        <5>1. i - m \in 1..n /\ i = m + (i - m)
            BY <1>1, <3>2
        <5> QED BY <5>1
      <4>2. d[o + m + j] = b[j] /\ c[m + j] = b[j]
          BY <1>3, <2>2
      <4>3. o + i = o + m + j
          BY <1>1, <4>1
      <4> QED BY <4>1, <4>2, <4>3
    <3> QED BY <3>1, <3>2
  <2>4. o + Len(c) <= Len(d)
      BY <1>1, <1>3, <2>1
  <2>5. \A i \in 1..Len(c) : d[o + i] = c[i]
      BY <1>3, <2>3
  <2> QED BY <2>4, <2>5 DEF HeldAt
<1> QED BY <1>1, <1>2, <1>4, <1>5, <1>6

\* What is held in held bytes is held in the data.
LEMMA HeldIn ==
    ASSUME NEW d \in Octets, NEW e \in Octets, NEW p \in Nat, NEW o \in Nat, NEW b \in Octets,
           HeldAt(d, p, e), HeldAt(e, o, b)
    PROVE  HeldAt(d, p + o, b)
<1>1. PICK m, n, l : m \in Nat /\ n \in Nat /\ l \in Nat /\ m = Len(e) /\ n = Len(b) /\ l = Len(d)
    BY OctetsAre
<1>2. p + m <= l /\ (\A i \in 1..m : d[p + i] = e[i]) /\ o + n <= m /\ \A i \in 1..n : e[o + i] = b[i]
    BY <1>1 DEF HeldAt
<1>3. ASSUME NEW i \in 1..n PROVE d[p + o + i] = b[i]
  <2>1. PICK j \in Nat : j = o + i
      OBVIOUS
  <2>2. j \in 1..m /\ p + o + i = p + j
      BY <1>1, <1>2, <2>1
  <2>3. d[p + j] = e[j] /\ e[o + i] = b[i]
      BY <1>2, <2>2
  <2> QED BY <2>1, <2>2, <2>3
<1> QED BY <1>1, <1>2, <1>3 DEF HeldAt

\* A slice where bytes are held is those bytes.
LEMMA HeldSlice ==
    ASSUME NEW d \in Octets, NEW o \in Nat, NEW b \in Octets, HeldAt(d, o, b)
    PROVE  Slice(d, o, Len(b)) = b
<1>1. PICK n \in Nat : n = Len(b)
    BY OctetsAre
<1>2. o + n <= Len(d) /\ \A i \in 1..n : d[o + i] = b[i]
    BY <1>1 DEF HeldAt
<1>3. PICK s : s = Slice(d, o, n)
    OBVIOUS
<1>4. s \in Octets /\ Len(s) = n /\ \A k \in 1..n : s[k] = d[o + k]
    BY <1>2, <1>3, SliceType
<1>5. \A k \in 1..n : s[k] = b[k]
    BY <1>2, <1>4
<1>6. s \in Seq(Octet) /\ b \in Seq(Octet)
    BY <1>4 DEF Octets
<1>7. s = b
    BY <1>1, <1>4, <1>5, <1>6, SeqEqual
<1> QED BY <1>1, <1>3, <1>7

\* What is joined, cut again.
LEMMA CutJoin ==
    ASSUME NEW a \in Octets, NEW b \in Octets
    PROVE  Slice(a \o b, 0, Len(a)) = a /\ Slice(a \o b, Len(a), Len(b)) = b
<1>1. PICK c : c = a \o b
    OBVIOUS
<1>2. c \in Octets /\ Len(a) \in Nat /\ 0 + Len(a) = Len(a)
    BY <1>1, OctetsJoin, OctetsAre
<1>3. HeldAt(c, 0, a) /\ HeldAt(c, 0 + Len(a), b)
  <2>1. HeldAt(c, 0, a \o b)
      BY <1>1, <1>2, HeldWhole
  <2> QED BY <1>2, <2>1, HeldJoin
<1>4. HeldAt(c, Len(a), b)
    BY <1>2, <1>3
<1> QED BY <1>1, <1>2, <1>3, <1>4, HeldSlice

\* What has begun as a character and goes on to its end.
LEMMA BegunWhole ==
    ASSUME NEW s \in Octets, NEW b \in Nat, b = s[1], NEW w \in 1..4, w = Wide(b), w <= Len(s),
           w >= 2 => s[2] \in Second(b),
           \A n \in 3..w : s[n] \in 128..191
    PROVE  Begun(s) = w
<1>1. \A n \in 2..w : Goes(s, n)
  <2>1. ASSUME NEW n \in 2..w PROVE Goes(s, n)
    <3>1. n <= w /\ n <= Len(s)
        BY OctetsAre
    <3>2. s[n] \in IF n = 2 THEN Second(b) ELSE 128..191
      <4>1. CASE n = 2
          BY <4>1
      <4>2. CASE n # 2
        <5>1. n \in 3..w
            BY <4>2
        <5> QED BY <4>2, <5>1
      <4> QED BY <4>1, <4>2
    <3> QED BY <3>1, <3>2, Zenon DEF Goes
  <2> QED BY <2>1
<1>2. \A n \in 2..4 : n > w => ~Goes(s, n)
  <2>1. ASSUME NEW n \in 2..4, n > w PROVE ~Goes(s, n)
    <3>1. ~(n <= w)
        BY <2>1
    <3>2. ~(n <= Wide(s[1]))
        BY <3>1, Zenon
    <3> QED BY <3>2 DEF Goes
  <2> QED BY <2>1
<1>3. CASE w = 1
    BY <1>2, <1>3 DEF Begun
<1>4. CASE w = 2
    BY <1>1, <1>2, <1>4 DEF Begun
<1>5. CASE w = 3
    BY <1>1, <1>2, <1>5 DEF Begun
<1>6. CASE w = 4
    BY <1>1, <1>2, <1>6 DEF Begun
<1> QED BY <1>3, <1>4, <1>5, <1>6

\* A byte that is not the first, by its bounds.
LEMMA LaterBounds ==
    ASSUME NEW n \in Nat, NEW x, x = Later(n)
    PROVE  x \in Nat /\ 128 <= x /\ x <= 191 /\ x - 128 = n % 64
<1>1. Later(n) \in 128..191 /\ Later(n) - 128 = n % 64
    BY LaterIs
<1> QED BY <1>1

\* The bytes b, x, y and z a character c has, when it has two, three or four.
TwoOf(c, b, x) ==
    /\ b \in Nat /\ 194 <= b /\ b <= 223 /\ x \in Nat /\ 128 <= x /\ x <= 191
    /\ c = (b - 192) * 64 + (x - 128)
ThreeOf(c, b, x, y) ==
    /\ b \in Nat /\ 224 <= b /\ b <= 239
    /\ x \in Nat /\ 128 <= x /\ x <= 191 /\ y \in Nat /\ 128 <= y /\ y <= 191
    /\ (b = 224 => 160 <= x) /\ (b = 237 => x <= 159)
    /\ c = (b - 224) * 4096 + (x - 128) * 64 + (y - 128)
FourOf(c, b, x, y, z) ==
    /\ b \in Nat /\ 240 <= b /\ b <= 244 /\ x \in Nat /\ 128 <= x /\ x <= 191
    /\ y \in Nat /\ 128 <= y /\ y <= 191 /\ z \in Nat /\ 128 <= z /\ z <= 191
    /\ (b = 240 => 144 <= x) /\ (b = 244 => x <= 143)
    /\ c = (b - 240) * 262144 + (x - 128) * 4096 + (y - 128) * 64 + (z - 128)

\* The two bytes of a character.
LEMMA InTwo ==
    ASSUME NEW c \in Nat, c >= 128, c < 2048
    PROVE  TwoOf(c, 192 + (c \div 64), Later(c))
<1>1. PICK q \in Nat : q = c \div 64 /\ 2 <= q /\ q <= 31 /\ c = q * 64 + (c % 64)
    BY Sixes
<1>2. PICK b, x : b \in Nat /\ b = 192 + q /\ x = Later(c)
    OBVIOUS
<1>3. x \in Nat /\ 128 <= x /\ x <= 191 /\ x - 128 = c % 64
    BY <1>2, LaterBounds
<1>4. b \in Nat /\ 194 <= b /\ b <= 223 /\ c = (b - 192) * 64 + (x - 128)
    BY <1>1, <1>2, <1>3
<1>5. TwoOf(c, b, x)
    BY <1>3, <1>4 DEF TwoOf
<1> QED BY <1>1, <1>2, <1>5

\* The three bytes of one, which is no surrogate.
LEMMA InThree ==
    ASSUME NEW c \in Nat, c >= 2048, c < 65536, ~(55296 <= c /\ c <= 57343)
    PROVE  ThreeOf(c, 224 + (c \div 4096), Later(c \div 64), Later(c))
<1>1. PICK q \in Nat, r \in Nat :
          /\ q = c \div 64 /\ r = c \div 4096 /\ r <= 15
          /\ c = r * 4096 + (q % 64) * 64 + (c % 64)
    BY Sixes
<1>2. PICK b, x, y : b \in Nat /\ b = 224 + r /\ x = Later(q) /\ y = Later(c)
    OBVIOUS
<1>3. x \in Nat /\ 128 <= x /\ x <= 191 /\ x - 128 = q % 64
    BY <1>2, LaterBounds
<1>4. y \in Nat /\ 128 <= y /\ y <= 191 /\ y - 128 = c % 64
    BY <1>2, LaterBounds
<1>5. c = r * 4096 + (x - 128) * 64 + (y - 128)
    BY <1>1, <1>3, <1>4
<1>6. b = 224 => 160 <= x
  <2> SUFFICES ASSUME b = 224, ~(160 <= x) PROVE FALSE
      OBVIOUS
  <2>1. r = 0
      BY <1>2
  <2>2. c < 2048
      BY <1>3, <1>4, <1>5, <2>1
  <2> QED BY <2>2
<1>7. b = 237 => x <= 159
  <2> SUFFICES ASSUME b = 237, ~(x <= 159) PROVE FALSE
      OBVIOUS
  <2>1. r = 13
      BY <1>2
  <2>2. 55296 <= c /\ c <= 57343
      BY <1>3, <1>4, <1>5, <2>1
  <2> QED BY <2>2
<1>8. b \in Nat /\ 224 <= b /\ b <= 239 /\ c = (b - 224) * 4096 + (x - 128) * 64 + (y - 128)
    BY <1>1, <1>2, <1>5
<1>9. ThreeOf(c, b, x, y)
    BY <1>3, <1>4, <1>6, <1>7, <1>8 DEF ThreeOf
<1> QED BY <1>1, <1>2, <1>9

\* The four bytes of one, which is not beyond the last one.
LEMMA InFour ==
    ASSUME NEW c \in Nat, c >= 65536, c <= 1114111
    PROVE  FourOf(c, 240 + (c \div 262144), Later(c \div 4096), Later(c \div 64), Later(c))
<1>1. PICK q \in Nat, r \in Nat, t \in Nat :
          /\ q = c \div 64 /\ r = c \div 4096 /\ t = c \div 262144 /\ t <= 4
          /\ c = t * 262144 + (r % 64) * 4096 + (q % 64) * 64 + (c % 64)
    BY Sixes
<1>2. PICK b, x, y, z : b \in Nat /\ b = 240 + t /\ x = Later(r) /\ y = Later(q) /\ z = Later(c)
    OBVIOUS
<1>3. x \in Nat /\ 128 <= x /\ x <= 191 /\ x - 128 = r % 64
    BY <1>2, LaterBounds
<1>4. y \in Nat /\ 128 <= y /\ y <= 191 /\ y - 128 = q % 64
    BY <1>2, LaterBounds
<1>5. z \in Nat /\ 128 <= z /\ z <= 191 /\ z - 128 = c % 64
    BY <1>2, LaterBounds
<1>6. c = t * 262144 + (x - 128) * 4096 + (y - 128) * 64 + (z - 128)
    BY <1>1, <1>3, <1>4, <1>5
<1>7. b = 240 => 144 <= x
    BY <1>2, <1>3, <1>4, <1>5, <1>6
<1>8. b = 244 => x <= 143
    BY <1>2, <1>3, <1>4, <1>5, <1>6
<1>9. b \in Nat /\ 240 <= b /\ b <= 244
    BY <1>1, <1>2
<1>10. c = (b - 240) * 262144 + (x - 128) * 4096 + (y - 128) * 64 + (z - 128)
    BY <1>1, <1>2, <1>6
<1>11. FourOf(c, b, x, y, z)
    BY <1>3, <1>4, <1>5, <1>7, <1>8, <1>9, <1>10 DEF FourOf
<1> QED BY <1>1, <1>2, <1>11

\* A character has one of these numbers of bytes.
LEMMA Utf8Cases ==
    ASSUME NEW c \in Char
    PROVE  \/ Utf8(c) = <<c>> /\ c \in Nat /\ c <= 127
           \/ \E b, x : Utf8(c) = <<b, x>> /\ TwoOf(c, b, x)
           \/ \E b, x, y : Utf8(c) = <<b, x, y>> /\ ThreeOf(c, b, x, y)
           \/ \E b, x, y, z : Utf8(c) = <<b, x, y, z>> /\ FourOf(c, b, x, y, z)
<1>1. c \in Nat
    BY DEF Char
<1>2. CASE c < 128
  <2>1. Utf8(c) = <<c>> /\ c <= 127
      BY <1>1, <1>2, Utf8Is
  <2> QED BY <1>1, <2>1
<1>3. CASE c >= 128 /\ c < 2048
  <2>1. Utf8(c) = <<192 + (c \div 64), Later(c)>>
      BY <1>1, <1>3, Utf8Is
  <2>2. TwoOf(c, 192 + (c \div 64), Later(c))
      BY <1>1, <1>3, InTwo
  <2> QED BY <2>1, <2>2
<1>4. CASE c >= 2048 /\ c < 65536
  <2>1. Utf8(c) = <<224 + (c \div 4096), Later(c \div 64), Later(c)>>
      BY <1>1, <1>4, Utf8Is
  <2>2. ThreeOf(c, 224 + (c \div 4096), Later(c \div 64), Later(c))
    <3>1. ~(55296 <= c /\ c <= 57343)
        BY DEF Char
    <3> QED BY <1>1, <1>4, <3>1, InThree
  <2> QED BY <2>1, <2>2
<1>5. CASE c >= 65536
  <2>1. Utf8(c) = <<240 + (c \div 262144), Later(c \div 4096), Later(c \div 64), Later(c)>>
      BY <1>1, <1>5, Utf8Is
  <2>2. FourOf(c, 240 + (c \div 262144), Later(c \div 4096), Later(c \div 64), Later(c))
    <3>1. c <= 1114111
        BY DEF Char
    <3> QED BY <1>1, <1>5, <3>1, InFour
  <2> QED BY <2>1, <2>2
<1> QED BY <1>1, <1>2, <1>3, <1>4, <1>5

\* Two such bytes begin as that character.
LEMMA TwoHeld ==
    ASSUME NEW s \in Octets, NEW c, NEW b, NEW x, TwoOf(c, b, x),
           2 <= Len(s), s[1] = b, s[2] = x
    PROVE  Begun(s) = 2 /\ CharOf(s) = c
<1>1. b \in Nat /\ 194 <= b /\ b <= 223 /\ x \in Nat /\ 128 <= x /\ x <= 191
    BY DEF TwoOf
<1>2. c = (b - 192) * 64 + (x - 128)
    BY DEF TwoOf
<1>3. Wide(b) = 2
    BY <1>1, WideIs
<1>4. x \in Second(b)
    BY <1>1, SecondIs
<1>5. Begun(s) = 2
    BY <1>1, <1>3, <1>4, BegunWhole
<1>6. Decoded(s) = c
    BY <1>2, <1>3 DEF Decoded
<1> QED BY <1>3, <1>5, <1>6 DEF CharOf

\* So do three.
LEMMA ThreeHeld ==
    ASSUME NEW s \in Octets, NEW c, NEW b, NEW x, NEW y, ThreeOf(c, b, x, y),
           3 <= Len(s), s[1] = b, s[2] = x, s[3] = y
    PROVE  Begun(s) = 3 /\ CharOf(s) = c
<1>1. /\ b \in Nat /\ 224 <= b /\ b <= 239 /\ x \in Nat /\ 128 <= x /\ x <= 191
      /\ (b = 224 => 160 <= x) /\ (b = 237 => x <= 159)
    BY DEF ThreeOf
<1>2. c = (b - 224) * 4096 + (x - 128) * 64 + (y - 128)
    BY DEF ThreeOf
<1>3. Wide(b) = 3
    BY <1>1, WideIs
<1>4. x \in Second(b)
    BY <1>1, SecondIs
<1>5. \A n \in 3..3 : s[n] \in 128..191
  <2>1. y \in 128..191
      BY DEF ThreeOf
  <2>2. \A n \in 3..3 : n = 3
      OBVIOUS
  <2> QED BY <2>1, <2>2
<1>6. Begun(s) = 3
    BY <1>1, <1>3, <1>4, <1>5, BegunWhole
<1>7. Decoded(s) = c
    BY <1>2, <1>3 DEF Decoded
<1> QED BY <1>3, <1>6, <1>7 DEF CharOf

\* And four.
LEMMA FourHeld ==
    ASSUME NEW s \in Octets, NEW c, NEW b, NEW x, NEW y, NEW z, FourOf(c, b, x, y, z),
           4 <= Len(s), s[1] = b, s[2] = x, s[3] = y, s[4] = z
    PROVE  Begun(s) = 4 /\ CharOf(s) = c
<1>1. /\ b \in Nat /\ 240 <= b /\ b <= 244 /\ x \in Nat /\ 128 <= x /\ x <= 191
      /\ (b = 240 => 144 <= x) /\ (b = 244 => x <= 143)
    BY DEF FourOf
<1>2. c = (b - 240) * 262144 + (x - 128) * 4096 + (y - 128) * 64 + (z - 128)
    BY DEF FourOf
<1>3. Wide(b) = 4
    BY <1>1, WideIs
<1>4. x \in Second(b)
    BY <1>1, SecondIs
<1>5. \A n \in 3..4 : s[n] \in 128..191
  <2>1. y \in 128..191 /\ z \in 128..191
      BY DEF FourOf
  <2>2. \A n \in 3..4 : n = 3 \/ n = 4
      OBVIOUS
  <2> QED BY <2>1, <2>2
<1>6. Begun(s) = 4
    BY <1>1, <1>3, <1>4, <1>5, BegunWhole
<1>7. Decoded(s) = c
    BY <1>2, <1>3 DEF Decoded
<1> QED BY <1>3, <1>6, <1>7 DEF CharOf

\* Bytes that start with those of a character begin as this character.
LEMMA CharHeld ==
    ASSUME NEW c \in Char, NEW s \in Octets, NEW u, u = Utf8(c), NEW n \in Nat, n = Len(u),
           n <= Len(s), \A i \in 1..n : s[i] = u[i]
    PROVE  Begun(s) = n /\ CharOf(s) = c
<1>1. CASE u = <<c>> /\ c \in Nat /\ c <= 127
  <2>1. n = 1 /\ s[1] = c
      BY <1>1
  <2>2. Wide(c) = 1
      BY <1>1, WideIs
  <2>3. Begun(s) = 1
      BY <1>1, <2>1, <2>2, BegunWhole
  <2>4. Decoded(s) = c
      BY <2>1, <2>2 DEF Decoded
  <2> QED BY <2>1, <2>2, <2>3, <2>4 DEF CharOf
<1>2. ASSUME NEW b, NEW x, u = <<b, x>>, TwoOf(c, b, x) PROVE Begun(s) = n /\ CharOf(s) = c
  <2>1. n = 2 /\ s[1] = b /\ s[2] = x
      BY <1>2
  <2> QED BY <1>2, <2>1, TwoHeld
<1>3. ASSUME NEW b, NEW x, NEW y, u = <<b, x, y>>, ThreeOf(c, b, x, y)
      PROVE  Begun(s) = n /\ CharOf(s) = c
  <2>1. n = 3 /\ s[1] = b /\ s[2] = x /\ s[3] = y
      BY <1>3
  <2> QED BY <1>3, <2>1, ThreeHeld
<1>4. ASSUME NEW b, NEW x, NEW y, NEW z, u = <<b, x, y, z>>, FourOf(c, b, x, y, z)
      PROVE  Begun(s) = n /\ CharOf(s) = c
  <2>1. n = 4 /\ s[1] = b /\ s[2] = x /\ s[3] = y /\ s[4] = z
      BY <1>4
  <2> QED BY <1>4, <2>1, FourHeld
<1> QED BY <1>1, <1>2, <1>3, <1>4, Utf8Cases

\* A string that is written is read as it was.
LEMMA LossyEncode == \A t \in Text : Lossy[Encode[t]] = t
<1>1. PICK T : T = {t \in Text : Lossy[Encode[t]] = t}
    OBVIOUS
<1>2. <<>> \in T
    BY <1>1, EncodeIs, LossyIs, TextsAre
<1>3. ASSUME NEW c \in Char, NEW t \in Text, t \in T PROVE <<c>> \o t \in T
  <2>1. PICK e \in Octets : e = Encode[t] /\ Lossy[e] = t
      BY <1>1, <1>3, EncodeIs
  <2>2. PICK u \in Octets : u = Utf8(c) /\ Len(u) \in 1..4
      BY Utf8Type
  <2>3. PICK s \in Octets : s = u \o e
      BY OctetsJoin
  <2>4. PICK m \in Nat, n \in Nat : m = Len(u) /\ n = Len(e) /\ 1 <= m
    <3>1. Len(u) \in Nat /\ 1 <= Len(u)
        BY <2>2
    <3>2. Len(e) \in Nat
        BY OctetsAre
    <3> QED BY <3>1, <3>2
  <2>5. Len(s) = m + n /\ \A i \in 1..m : s[i] = u[i]
      BY <2>3, <2>4, OctetsJoin
  <2>6. m <= Len(s) /\ s # <<>>
    <3>1. Len(s) # 0 /\ m <= m + n
        BY <2>4, <2>5
    <3> QED BY <2>5, <3>1
  <2>7. Begun(s) = m /\ CharOf(s) = c
      BY <2>2, <2>4, <2>5, <2>6, CharHeld
  <2>8. AfterChar(s) = e
    <3>1. Slice(s, m, n) = e
        BY <2>3, <2>4, CutJoin
    <3> QED BY <2>5, <2>7, <3>1 DEF AfterChar, Slice
  <2>9. Lossy[s] = <<c>> \o t
      BY <2>1, <2>6, <2>7, <2>8, LossyIs
  <2>10. Encode[<<c>> \o t] = s
      BY <2>1, <2>2, <2>3, EncodeIs
  <2> QED BY <1>1, <2>9, <2>10, TextsAre
<1>4. Text \subseteq T
    BY <1>2, <1>3, SequenceInduction DEF Text
<1> QED BY <1>1, <1>4

\* The three ways to read a name.
Reading(t, n) == [ok |-> TRUE, text |-> t, next |-> n]

\* A name ends at a zero byte.
LEMMA NameEnds ==
    ASSUME NEW d \in Octets, NEW o \in Nat, NEW v \in SUBSET Targets,
           o < Len(d), Byte(d, o) = 0
    PROVE  Name[<<d, o, v>>] = Reading(<<>>, o + 1)
<1>1. NameCases(Name, d, o, v) = Reading(<<>>, o + 1)
    BY DEF NameCases, Reading
<1> QED BY <1>1, NameIs

\* A label is followed by the rest of the name.
LEMMA NameGoesOn ==
    ASSUME NEW d \in Octets, NEW o \in Nat, NEW v \in SUBSET Targets, NEW l \in Text,
           NEW t \in Text, NEW n, TakesLabel(d, o), l = Lossy[Slice(d, o + 1, Byte(d, o))],
           Name[<<d, o + 1 + Byte(d, o), v>>] = Reading(t, n)
    PROVE  Name[<<d, o, v>>] = Reading(Joined(l, t), n)
<1>1. PICK b \in 1..63 : b = Byte(d, o)
    BY DEF TakesLabel
<1>2. b # 0 /\ ~(b >= 192)
    BY <1>1
<1>3. PICK r : r = Name[<<d, o + 1 + b, v>>]
    OBVIOUS
<1>4. r = Reading(t, n)
    BY <1>1, <1>3
<1>5. PICK ok : ok = TRUE
    OBVIOUS
<1>6. r = [ok |-> ok, text |-> t, next |-> n]
    BY <1>4, <1>5 DEF Reading
<1>7. r.text = t /\ r.ok
    BY <1>5, <1>6
<1>8. PICK j : j = Joined(l, t)
    OBVIOUS
<1>9. [r EXCEPT !.text = j] = [ok |-> ok, text |-> j, next |-> n]
    BY <1>6
<1>10. [r EXCEPT !.text = l \o (IF @ = <<>> THEN <<>> ELSE <<Dot>> \o @)] = [r EXCEPT !.text = j]
    BY <1>7, <1>8 DEF Joined
<1>11. ~(Byte(d, o) = 0) /\ ~Follows(d, o, v)
    BY <1>1, <1>2 DEF Follows
<1>12. NameCases(Name, d, o, v) =
        [r EXCEPT !.text = l \o (IF @ = <<>> THEN <<>> ELSE <<Dot>> \o @)]
    BY <1>1, <1>3, <1>7, <1>11 DEF NameCases
<1>13. NameCases(Name, d, o, v) = Reading(j, n)
    BY <1>5, <1>9, <1>10, <1>12 DEF Reading
<1> QED BY <1>8, <1>13, NameIs

\* A pointer reads as the name at its target, and the read goes on behind the pointer.
LEMMA NamePoints ==
    ASSUME NEW d \in Octets, NEW o \in Nat, NEW v \in SUBSET Targets, NEW t \in Text, NEW n,
           Follows(d, o, v), Name[<<d, Target(d, o), v \cup {Target(d, o)}>>] = Reading(t, n)
    PROVE  Name[<<d, o, v>>] = Reading(t, o + 2)
<1>1. PICK r : r = Name[<<d, Target(d, o), v \cup {Target(d, o)}>>]
    OBVIOUS
<1>2. PICK ok : ok = TRUE
    OBVIOUS
<1>3. r = [ok |-> ok, text |-> t, next |-> n]
    BY <1>1, <1>2 DEF Reading
<1>4. r.ok
    BY <1>2, <1>3
<1>5. PICK m : m = o + 2
    OBVIOUS
<1>6. [r EXCEPT !.next = m] = [ok |-> ok, text |-> t, next |-> m]
    BY <1>3
<1>7. Byte(d, o) >= 192 => ~(Byte(d, o) = 0)
  <2>1. o < Len(d)
    <3>1. Len(d) \in Nat
        BY OctetsAre
    <3> QED BY <3>1 DEF Follows
  <2>2. PICK b \in 0..255 : b = Byte(d, o)
      BY <2>1, ByteType
  <2> QED BY <2>2
<1>8. NameCases(Name, d, o, v) = [r EXCEPT !.next = m]
    BY <1>1, <1>4, <1>5, <1>7 DEF NameCases, Follows
<1>9. NameCases(Name, d, o, v) = Reading(t, m)
    BY <1>2, <1>6, <1>8 DEF Reading
<1> QED BY <1>5, <1>9, NameIs

\* A label that is written is read as it was.
LEMMA LabelHeld ==
    ASSUME NEW d \in Octets, NEW o \in Nat, NEW p \in Text, p # <<>>, ~TooLong(p),
           HeldAt(d, o, LabelBytes(p))
    PROVE  /\ TakesLabel(d, o) /\ o + 1 + Byte(d, o) = o + Len(LabelBytes(p))
           /\ Lossy[Slice(d, o + 1, Byte(d, o))] = p
<1>1. PICK e : e = Encode[p] /\ e \in Octets /\ Lossy[e] = p
    BY EncodeIs, LossyEncode
<1>2. PICK n \in Nat : n = Len(e) /\ n <= 63
    BY <1>1, OctetsAre DEF TooLong
<1>3. n # 0
  <2> SUFFICES ASSUME n = 0 PROVE FALSE
      OBVIOUS
  <2>1. e = <<>>
      BY <1>1, <1>2, EmptySeq DEF Octets
  <2> QED BY <1>1, <2>1, LossyIs
<1>4. n % 256 = n
    BY <1>2
<1>5. PICK a : a = <<n>> /\ a \in Octets /\ Len(a) = 1 /\ a[1] = n
  <2>1. n \in Octet
    <3>1. \A m \in Nat : m % 256 \in 0..255
        OBVIOUS
    <3> QED BY <1>4, <3>1, Zenon DEF Octet
  <2>2. <<n>> \in Octets
      BY <2>1, OctetsAre
  <2>3. Len(<<n>>) = 1 /\ <<n>>[1] = n
      OBVIOUS
  <2> QED BY <2>2, <2>3, Zenon
<1>6. LabelBytes(p) = a \o e /\ Len(a \o e) = 1 + n
  <2>1. Len(a \o e) = Len(a) + Len(e)
      BY <1>1, <1>5, OctetsJoin
  <2> QED BY <1>1, <1>2, <1>4, <1>5, <2>1 DEF LabelBytes
<1>7. HeldAt(d, o, a) /\ HeldAt(d, o + 1, e)
  <2>1. HeldAt(d, o, a \o e) /\ Len(a) = 1
      BY <1>5, <1>6
  <2>2. HeldAt(d, o, a) /\ HeldAt(d, o + Len(a), e)
      BY <1>1, <1>5, <2>1, HeldJoin
  <2> QED BY <2>1, <2>2, Zenon
<1>8. PICK l \in Nat : l = Len(d)
    BY OctetsAre
<1>9. o + 1 + n <= l
    BY <1>2, <1>7, <1>8 DEF HeldAt
<1>10. Byte(d, o) = n
  <2>1. 1 \in 1..Len(a)
      BY <1>5
  <2> QED BY <1>5, <1>7, <2>1 DEF HeldAt, Byte
<1>11. TakesLabel(d, o)
  <2>1. n \in 1..63
    <3>1. \A m \in Int : \A k \in Nat : k # 0 /\ k <= m => k \in 1..m
        OBVIOUS
    <3>2. 63 \in Int
        OBVIOUS
    <3>3. n # 0 /\ n <= 63
        BY <1>2, <1>3
    <3> QED BY <3>1, <3>2, <3>3, Zenon
  <2>2. o < l /\ o + 1 + n <= l
      BY <1>8, <1>9
  <2> HIDE <1>9
  <2> QED BY <1>8, <1>10, <2>1, <2>2, Zenon DEF TakesLabel
<1>12. Slice(d, o + 1, n) = e
  <2>1. o + 1 \in Nat
      OBVIOUS
  <2> QED BY <1>1, <1>2, <1>7, <2>1, HeldSlice
<1>13. o + 1 + n = o + (1 + n)
    OBVIOUS
<1> QED BY <1>1, <1>6, <1>10, <1>11, <1>12, <1>13

\* A name that is written, without its pointers.
Spelled(t) == Labels[Parts[t]]
Real(t) == t # <<>> /\ <<>> \notin ToSet(Parts[t]) /\ Fits(t)

\* A name spelled out is bytes.
LEMMA SpelledType == \A t \in Text : Spelled(t) \in Octets
BY PartsAre, LabelsAre DEF Spelled

\* A name is spelled as its first label and the rest, or the end.
LEMMA SpelledIs ==
    ASSUME NEW t \in Text, Real(t)
    PROVE  \E p \in Text : /\ p # <<>> /\ ~TooLong(p)
                           /\ \/ t = p /\ Spelled(t) = LabelBytes(p) \o <<0>>
                              \/ \E u \in Text : /\ Real(u) /\ t = Joined(p, u)
                                                 /\ Len(u) < Len(t)
                                                 /\ Spelled(t) = LabelBytes(p) \o Spelled(u)
<1>1. CASE Parts[t] = <<t>>
  <2>1. t \in ToSet(Parts[t])
      BY <1>1 DEF ToSet
  <2>2. t # <<>> /\ ~TooLong(t)
      BY <2>1 DEF Real, Fits
  <2>3. <<t>> = <<t>> \o <<>>
    <3>1. <<t>> \in Seq(Text)
        OBVIOUS
    <3> QED BY <3>1, ConcatEmptySeq
  <2>4. Labels[<<t>> \o <<>>] = LabelBytes(t) \o Labels[<<>>]
    <3>1. <<>> \in Seq(Text)
        OBVIOUS
    <3> QED BY <3>1, LabelsAre
  <2>5. Spelled(t) = LabelBytes(t) \o <<0>>
      BY <1>1, <2>3, <2>4, LabelsAre DEF Spelled
  <2> QED BY <2>2, <2>5
<1>2. CASE Parts[t] # <<t>>
  <2>1. PICK u \in Text : /\ t = Head(Parts[t]) \o (<<Dot>> \o u)
                          /\ Parts[t] = <<Head(Parts[t])>> \o Parts[u]
      BY <1>2, FirstPart
  <2>2. PICK p : p = Head(Parts[t]) /\ p \in Text
      BY PartsAre, Split
  <2>3. PICK s : s = Parts[u] /\ s \in Seq(Text)
      BY PartsAre
  <2>4. t = p \o (<<Dot>> \o u) /\ Parts[t] = <<p>> \o s
      BY <2>1, <2>2, <2>3
  <2>5. ToSet(Parts[t]) = {p} \cup ToSet(s)
      BY <2>2, <2>3, <2>4, ToSetIs
  <2>6. p # <<>> /\ ~TooLong(p)
      BY <2>5 DEF Real, Fits
  <2>7. <<>> \notin ToSet(s) /\ \A q \in ToSet(s) : ~TooLong(q)
      BY <2>5 DEF Real, Fits
  <2>8. u # <<>>
    <3>1. ToSet(Parts[<<>>]) = {<<>>}
        BY PartsAre DEF ToSet
    <3> QED BY <2>3, <2>7, <3>1
  <2>9. Real(u)
      BY <2>3, <2>7, <2>8 DEF Real, Fits
  <2>10. t = Joined(p, u)
      BY <2>4, <2>8 DEF Joined
  <2>11. Len(u) < Len(t)
    <3>1. PICK x : x = <<Dot>> \o u
        OBVIOUS
    <3>2. x \in Text /\ Len(x) = 1 + Len(u)
        BY <3>1, TextsAre
    <3>3. Len(t) = Len(p) + Len(x)
        BY <2>2, <2>4, <3>1, <3>2, TextsAre
    <3>4. PICK i, j, k, m : i = Len(u) /\ j = Len(x) /\ k = Len(p) /\ m = Len(t)
        OBVIOUS
    <3>5. i \in Nat /\ k \in Nat
        BY <2>2, <3>4, TextsAre
    <3>6. i < m
        BY <3>2, <3>3, <3>4, <3>5
    <3> QED BY <3>4, <3>6
  <2>12. Spelled(t) = LabelBytes(p) \o Spelled(u)
      BY <2>2, <2>3, <2>4, LabelsAre DEF Spelled
  <2> QED BY <2>2, <2>6, <2>9, <2>10, <2>11, <2>12
<1> QED BY <1>1, <1>2

\* A name that is spelled is read as it was.
LEMMA HeldName ==
    \A t \in Text : Real(t) =>
        \A d \in Octets, o \in Nat, v \in SUBSET Targets :
            HeldAt(d, o, Spelled(t)) =>
                Name[<<d, o, v>>] = Reading(t, o + Len(Spelled(t)))
<1> DEFINE Good(t) ==
             Real(t) =>
               \A d \in Octets, o \in Nat, v \in SUBSET Targets :
                   HeldAt(d, o, Spelled(t)) =>
                       Name[<<d, o, v>>] = Reading(t, o + Len(Spelled(t)))
<1>1. PICK T, rank : T = {t \in Text : Good(t)} /\ rank = [t \in Text |-> Len(t)]
    OBVIOUS
<1>2. rank \in [Text -> Nat]
    BY <1>1, TextsAre
<1>3. ASSUME NEW t \in Text, \A u \in Text : rank[u] < rank[t] => u \in T
      PROVE  t \in T
  <2> SUFFICES ASSUME Real(t), NEW d \in Octets, NEW o \in Nat, NEW v \in SUBSET Targets,
                      HeldAt(d, o, Spelled(t))
               PROVE  Name[<<d, o, v>>] = Reading(t, o + Len(Spelled(t)))
      BY <1>1
  <2>1. PICK p \in Text : /\ p # <<>> /\ ~TooLong(p)
                          /\ \/ t = p /\ Spelled(t) = LabelBytes(p) \o <<0>>
                             \/ \E u \in Text : /\ Real(u) /\ t = Joined(p, u)
                                                /\ Len(u) < Len(t)
                                                /\ Spelled(t) = LabelBytes(p) \o Spelled(u)
      BY SpelledIs
  <2>2. PICK a : a = LabelBytes(p) /\ a \in Octets
      BY LabelBytesType
  <2>3. PICK r : /\ Spelled(t) = a \o r /\ r \in Octets
                 /\ \/ t = p /\ r = <<0>>
                    \/ \E u \in Text : /\ Real(u) /\ t = Joined(p, u)
                                       /\ Len(u) < Len(t) /\ r = Spelled(u)
    <3>1. CASE t = p /\ Spelled(t) = a \o <<0>>
      <4>1. <<0>> \in Octets
        <5>1. <<>> \in Seq(Text)
            OBVIOUS
        <5> QED BY <5>1, LabelsAre
      <4> QED BY <3>1, <4>1
    <3>2. CASE \E u \in Text : /\ Real(u) /\ t = Joined(p, u)
                               /\ Len(u) < Len(t) /\ Spelled(t) = a \o Spelled(u)
        BY <3>2, SpelledType
    <3> QED BY <2>1, <2>2, <3>1, <3>2
  <2>4. HeldAt(d, o, a) /\ HeldAt(d, o + Len(a), r)
      BY <2>2, <2>3, HeldJoin
  <2>5. /\ TakesLabel(d, o) /\ o + 1 + Byte(d, o) = o + Len(a)
        /\ Lossy[Slice(d, o + 1, Byte(d, o))] = p
      BY <2>1, <2>2, <2>4, LabelHeld
  <2>6. PICK m, n, q : m = Len(a) /\ n = Len(r) /\ q = o + m
      OBVIOUS
  <2>7. m \in Nat /\ n \in Nat /\ q \in Nat
      BY <2>2, <2>3, <2>6, OctetsAre
  <2>8. o + Len(Spelled(t)) = q + n
    <3>1. PICK l : l = Len(Spelled(t))
        OBVIOUS
    <3>2. l = m + n
        BY <2>2, <2>3, <2>6, <3>1, OctetsJoin
    <3>3. o + l = q + n
        BY <2>6, <2>7, <3>2
    <3> QED BY <3>1, <3>3
  <2>9. CASE t = p /\ r = <<0>>
    <3>1. n = 1 /\ r[1] = 0
        BY <2>6, <2>9
    <3>2. q < Len(d) /\ Byte(d, q) = 0
      <4>1. PICK l \in Nat : l = Len(d)
          BY OctetsAre
      <4>2. q + 1 <= l
          BY <2>4, <2>6, <3>1, <4>1 DEF HeldAt
      <4>3. 1 \in 1..n
          BY <3>1
      <4>4. d[q + 1] = 0
          BY <2>4, <2>6, <3>1, <4>3 DEF HeldAt
      <4>5. q < l
          BY <2>7, <4>2
      <4> QED BY <4>1, <4>4, <4>5 DEF Byte
    <3>3. Name[<<d, q, v>>] = Reading(<<>>, q + 1)
        BY <2>7, <3>2, NameEnds
    <3>4. Name[<<d, o + 1 + Byte(d, o), v>>] = Reading(<<>>, q + n)
        BY <2>5, <2>6, <3>1, <3>3
    <3>5. <<>> \in Text
        BY TextsAre
    <3>6. Name[<<d, o, v>>] = Reading(Joined(p, <<>>), q + n)
        BY <2>5, <3>4, <3>5, NameGoesOn
    <3>7. Joined(p, <<>>) = p
      <4>1. p \in Seq(Char)
          BY DEF Text
      <4> QED BY <4>1, ConcatEmptySeq DEF Joined
    <3> QED BY <2>8, <2>9, <3>6, <3>7
  <2>10. CASE \E u \in Text : /\ Real(u) /\ t = Joined(p, u)
                              /\ Len(u) < Len(t) /\ r = Spelled(u)
    <3>1. PICK u \in Text : /\ Real(u) /\ t = Joined(p, u)
                            /\ Len(u) < Len(t) /\ r = Spelled(u)
        BY <2>10
    <3>2. Good(u)
      <4>1. rank[u] < rank[t]
          BY <1>1, <3>1
      <4> HIDE DEF Good
      <4> QED BY <1>1, <1>3, <4>1
    <3>3. HeldAt(d, q, Spelled(u)) /\ Len(Spelled(u)) = n
        BY <2>4, <2>6, <3>1
    <3>4. Name[<<d, q, v>>] = Reading(u, q + n)
        BY <2>7, <3>1, <3>2, <3>3
    <3>5. Name[<<d, o + 1 + Byte(d, o), v>>] = Reading(u, q + n)
        BY <2>5, <2>6, <3>4
    <3>6. Name[<<d, o, v>>] = Reading(Joined(p, u), q + n)
        BY <2>5, <3>5, NameGoesOn
    <3> QED BY <2>8, <3>1, <3>6
  <2> QED BY <2>3, <2>9, <2>10
<1> HIDE DEF Good
<1>4. Text \subseteq T
    BY <1>2, <1>3, RankInduction
<1>5. \A t \in Text : Good(t)
    BY <1>1, <1>4
<1> QED BY <1>5 DEF Good

\* What goes into a pointer, and a pointer.
Pointable(off) == off \in Nat /\ off < 16383
PointerTo(off) == Bytes16(49152 + off)

\* Every name in the dictionary is spelled where it says.
DictHeld(dict, b) ==
    \A n \in DOMAIN dict : /\ n \in Text /\ Real(n) /\ Pointable(dict[n])
                           /\ HeldAt(b, dict[n], Spelled(n))

\* A pointer to an offset takes two bytes.
LEMMA PointerType ==
    ASSUME NEW off, Pointable(off)
    PROVE  off \in Nat /\ PointerTo(off) \in Octets /\ Len(PointerTo(off)) = 2
<1>1. PICK n : n = 49152 + off
    OBVIOUS
<1>2. off \in Nat
    BY DEF Pointable
<1>3. n \in Nat
    BY <1>1, <1>2
<1>4. PointerTo(off) = Bytes16(n)
    BY <1>1 DEF PointerTo
<1> QED BY <1>2, <1>3, <1>4, Bytes16Type

\* A join holds its two parts.
LEMMA JoinHolds ==
    ASSUME NEW b \in Octets, NEW c \in Octets
    PROVE  HeldAt(b \o c, 0, b) /\ HeldAt(b \o c, Len(b), c)
<1>1. PICK e : e = b \o c /\ e \in Octets
    BY OctetsJoin
<1>2. PICK n, z : n = Len(b) /\ n \in Nat /\ z = 0 /\ z \in Nat /\ z + n = n
    BY OctetsAre
<1>3. HeldAt(e, z, b \o c)
    BY <1>1, <1>2, HeldWhole
<1>4. HeldAt(e, z, b) /\ HeldAt(e, z + n, c)
    BY <1>1, <1>2, <1>3, HeldJoin
<1> QED BY <1>1, <1>2, <1>4

\* Appending to the buffer leaves every name learned where it is.
LEMMA DictKept ==
    ASSUME NEW dict, NEW b \in Octets, NEW c \in Octets, DictHeld(dict, b)
    PROVE  DictHeld(dict, b \o c)
<1>1. PICK e : e = b \o c /\ e \in Octets /\ HeldAt(e, 0, b)
    BY OctetsJoin, JoinHolds
<1>2. ASSUME NEW n \in DOMAIN dict PROVE HeldAt(e, dict[n], Spelled(n))
  <2>1. PICK o \in Nat : o = dict[n] /\ n \in Text /\ HeldAt(b, o, Spelled(n))
      BY PointerType DEF DictHeld
  <2>2. PICK s, z : s = Spelled(n) /\ s \in Octets /\ z = 0 /\ z \in Nat
      BY <2>1, SpelledType
  <2>3. HeldAt(e, z + o, s)
      BY <1>1, <2>1, <2>2, HeldIn
  <2>4. z + o = o
      BY <2>2
  <2> QED BY <2>1, <2>2, <2>3, <2>4
<1> QED BY <1>1, <1>2 DEF DictHeld

\* The two bytes of a pointer.
PointsTo(off, h, l) ==
    /\ h \in Nat /\ l \in Nat /\ h < 64 /\ off = h * 256 + l
    /\ PointerTo(off) = <<192 + h, l>> /\ (192 + h) % 64 = h

\* The two bytes of a pointer give back its offset.
LEMMA PointerBytes ==
    ASSUME NEW off, Pointable(off)
    PROVE  \E h, l : PointsTo(off, h, l)
<1>1. PICK h, l : h = off \div 256 /\ l = off % 256
    OBVIOUS
<1>2. off \in Nat /\ off < 16383
    BY DEF Pointable
<1>3. h \in Nat /\ l \in Nat /\ h < 64 /\ l < 256 /\ off = h * 256 + l
    BY <1>1, <1>2
<1>4. (49152 + off) \div 256 = 192 + h /\ (49152 + off) % 256 = l
    BY <1>1, <1>2
<1>5. (192 + h) % 256 = 192 + h /\ (192 + h) % 64 = h
    BY <1>3
<1>6. PointerTo(off) = <<192 + h, l>>
    BY <1>4, <1>5 DEF PointerTo, Bytes16
<1>7. PointsTo(off, h, l)
    BY <1>3, <1>5, <1>6 DEF PointsTo
<1> QED BY <1>7

\* A pointer is followed to where it points.
LEMMA PointerHeld ==
    ASSUME NEW d \in Octets, NEW o \in Nat, NEW off, Pointable(off),
           HeldAt(d, o, PointerTo(off)), NEW t \in Text, Real(t),
           HeldAt(d, off, Spelled(t))
    PROVE  ParseName(d, o) = Reading(t, o + 2)
<1>1. PICK h, l : PointsTo(off, h, l)
    BY PointerBytes
<1>2. /\ h \in Nat /\ l \in Nat /\ off = h * 256 + l /\ off \in Nat
      /\ PointerTo(off) = <<192 + h, l>> /\ (192 + h) % 64 = h
    BY <1>1, PointerType DEF PointsTo
<1>3. PICK b : b = <<192 + h, l>>
    OBVIOUS
<1>4. Len(b) = 2 /\ b[1] = 192 + h /\ b[2] = l
    BY <1>3
<1>5. HeldAt(d, o, b)
    BY <1>2, <1>3
<1>6. PICK n \in Nat : n = Len(d)
    BY OctetsAre
<1>7. o + 2 <= n /\ d[o + 1] = 192 + h /\ d[o + 2] = l
  <2>1. \A i \in 1..2 : d[o + i] = b[i]
      BY <1>4, <1>5 DEF HeldAt
  <2>2. o + 2 <= n
      BY <1>4, <1>5, <1>6 DEF HeldAt
  <2>3. 1 \in 1..2 /\ 2 \in 1..2
      OBVIOUS
  <2> QED BY <1>4, <2>1, <2>2, <2>3
<1>8. Byte(d, o) = 192 + h /\ Byte(d, o + 1) = l
  <2>1. (o + 1) + 1 = o + 2
      OBVIOUS
  <2> QED BY <1>7, <2>1 DEF Byte
<1>9. Target(d, o) = off
    BY <1>2, <1>8 DEF Target
<1>10. o + 1 < n /\ 192 + h >= 192
    BY <1>2, <1>6, <1>7
<1>11. PICK v : v = {} /\ v \in SUBSET Targets /\ Cardinality(v) = 0
    BY FS_EmptySet
<1>12. Follows(d, o, v)
  <2>1. Cardinality(v) <= MaxPointers
      BY <1>11, CodecAssumption
  <2> QED BY <1>6, <1>8, <1>9, <1>10, <1>11, <2>1 DEF Follows
<1>13. PICK v2 : v2 = v \cup {off} /\ v2 \in SUBSET Targets
  <2>1. off \in Targets
      BY <1>6, <1>9, <1>10, ByteType
  <2> QED BY <1>11, <2>1
<1>14. PICK n2 : n2 = off + Len(Spelled(t)) /\ Name[<<d, off, v2>>] = Reading(t, n2)
    BY <1>2, <1>13, HeldName
<1>15. Name[<<d, Target(d, o), v \cup {Target(d, o)}>>] = Reading(t, n2)
    BY <1>9, <1>13, <1>14
<1>16. Name[<<d, o, v>>] = Reading(t, o + 2)
    BY <1>11, <1>12, <1>15, NamePoints
<1> QED BY <1>11, <1>16 DEF ParseName

InDatagram(n) == n \in Nat /\ n <= MaxDatagram

\* A length within a datagram loses nothing in 16 bits.
LEMMA DatagramIs ==
    ASSUME NEW n, InDatagram(n)
    PROVE  /\ n \in Nat /\ n % 65536 = n
           /\ \A m \in Nat : m <= n => InDatagram(m)
           /\ n % 65536 < 16383 <=> Pointable(n)
<1>1. n \in Nat /\ n <= 65535
    BY DEF InDatagram, MaxDatagram
<1>2. n % 65536 = n
    BY <1>1
<1>3. \A m \in Nat : m <= n => InDatagram(m)
    BY <1>1 DEF InDatagram, MaxDatagram
<1>4. n % 65536 < 16383 <=> Pointable(n)
    BY <1>1, <1>2 DEF Pointable
<1> QED BY <1>1, <1>2, <1>3, <1>4

\* A dictionary with one more name.
Learned(dict, name, at) == [n \in DOMAIN dict \cup {name} |-> IF n = name THEN at ELSE dict[n]]

\* A name learned where it was just spelled out keeps the dictionary right.
LEMMA LearnedHeld ==
    ASSUME NEW dict, NEW b \in Octets, DictHeld(dict, b), NEW name \in Text, Real(name),
           NEW at, Pointable(at), HeldAt(b, at, Spelled(name))
    PROVE  DictHeld(Learned(dict, name, at), b)
<1>1. PICK dict2 : dict2 = Learned(dict, name, at)
    OBVIOUS
<1>2. DOMAIN dict2 = DOMAIN dict \cup {name}
    BY <1>1 DEF Learned
<1>3. \A n \in DOMAIN dict2 : dict2[n] = IF n = name THEN at ELSE dict[n]
    BY <1>1 DEF Learned
<1>4. ASSUME NEW n \in DOMAIN dict2
      PROVE  /\ n \in Text /\ Real(n) /\ Pointable(dict2[n])
             /\ HeldAt(b, dict2[n], Spelled(n))
  <2>1. CASE n = name
      BY <1>3, <2>1
  <2>2. CASE n # name
    <3>1. n \in DOMAIN dict /\ dict2[n] = dict[n]
        BY <1>2, <1>3, <2>2
    <3> QED BY <3>1 DEF DictHeld
  <2> QED BY <2>1, <2>2
<1> QED BY <1>1, <1>4 DEF DictHeld

\* A name without empty labels that is written after b is read as it was,
\* whatever follows it, and the dictionary stays right.
LEMMA NameWritten ==
    ASSUME NEW b \in Octets, NEW dict \in Dicts, DictHeld(dict, b), InDatagram(Len(b)),
           NEW name \in Text, NoEmptyPart(name), NameFits(dict, name)
    PROVE  LET c == NameBytes(dict, name)
           IN  /\ c \in Octets /\ c # <<>>
               /\ NameDict(Len(b), dict, name) \in Dicts
               /\ DictHeld(NameDict(Len(b), dict, name), b \o c)
               /\ \A d \in Octets : HeldAt(d, Len(b), c) /\ HeldAt(d, 0, b) =>
                     ParseName(d, Len(b)) = Reading(name, Len(b) + Len(c))
<1>1. PICK o \in Nat : o = Len(b)
    BY OctetsAre
<1>2. PICK c : c = NameBytes(dict, name) /\ c \in Octets
    BY <1>1, NameBytesType
<1>3. PICK dict2 : dict2 = NameDict(o, dict, name) /\ dict2 \in Dicts
    BY <1>1, NameBytesType
<1>4. DictHeld(dict, b \o c) /\ b \o c \in Octets /\ HeldAt(b \o c, o, c)
    BY <1>1, <1>2, DictKept, JoinHolds, OctetsJoin
<1>5. CASE name = <<>>
  <2>1. c = <<0>> /\ dict2 = dict
      BY <1>2, <1>3, <1>5 DEF NameBytes, NameDict, Learns
  <2>2. Len(c) = 1 /\ c[1] = 0 /\ c # <<>>
      BY <2>1
  <2>3. ASSUME NEW d \in Octets, HeldAt(d, o, c) PROVE ParseName(d, o) = Reading(<<>>, o + 1)
    <3>1. PICK l \in Nat : l = Len(d)
        BY OctetsAre
    <3>2. o + 1 <= l
        BY <2>2, <2>3, <3>1 DEF HeldAt
    <3>3. 1 \in 1..1
        OBVIOUS
    <3>4. d[o + 1] = 0
        BY <2>2, <2>3, <3>3 DEF HeldAt
    <3>5. o < Len(d) /\ Byte(d, o) = 0
        BY <3>1, <3>2, <3>4 DEF Byte
    <3>6. PICK v \in SUBSET Targets : v = {}
        OBVIOUS
    <3>7. Name[<<d, o, v>>] = Reading(<<>>, o + 1)
        BY <3>5, <3>6, NameEnds
    <3> QED BY <3>6, <3>7 DEF ParseName
  <2> QED BY <1>1, <1>2, <1>3, <1>4, <1>5, <2>1, <2>2, <2>3
<1>6. CASE name # <<>> /\ name \in DOMAIN dict
  <2>1. PICK off : off = dict[name] /\ Pointable(off) /\ Real(name) /\ HeldAt(b, off, Spelled(name))
      BY <1>6 DEF DictHeld
  <2>2. c = PointerTo(off) /\ dict2 = dict
      BY <1>2, <1>3, <1>6, <2>1 DEF NameBytes, NameDict, Learns, PointerTo
  <2>3. Len(c) = 2 /\ c # <<>>
    <3>1. Len(c) = 2
        BY <2>1, <2>2, PointerType
    <3>2. Len(<<>>) = 0
        OBVIOUS
    <3> QED BY <3>1, <3>2
  <2>4. ASSUME NEW d \in Octets, HeldAt(d, o, c), HeldAt(d, 0, b)
        PROVE  ParseName(d, o) = Reading(name, o + 2)
    <3>1. PICK s, z : s = Spelled(name) /\ s \in Octets /\ z = 0 /\ z \in Nat
        BY SpelledType
    <3>2. off \in Nat
        BY <2>1, PointerType
    <3>3. HeldAt(d, z + off, s)
        BY <2>1, <2>4, <3>1, <3>2, HeldIn
    <3>4. z + off = off
        BY <3>1, <3>2
    <3>5. HeldAt(d, off, Spelled(name)) /\ HeldAt(d, o, PointerTo(off))
        BY <2>2, <2>4, <3>1, <3>3, <3>4
    <3> QED BY <2>1, <3>5, PointerHeld
  <2> QED BY <1>1, <1>2, <1>3, <1>4, <2>2, <2>3, <2>4
<1>7. CASE name # <<>> /\ name \notin DOMAIN dict
  <2>1. Fits(name) /\ Real(name)
      BY <1>7 DEF NameFits, Real, NoEmptyPart
  <2>2. c = Spelled(name)
      BY <1>2, <1>7, <2>1 DEF NameBytes, Spelled
  <2>3. PICK n \in Nat : n = Len(c)
      BY <1>2, OctetsAre
  <2>4. ASSUME NEW d \in Octets, HeldAt(d, o, c)
        PROVE  ParseName(d, o) = Reading(name, o + n)
    <3>1. PICK v \in SUBSET Targets : v = {}
        OBVIOUS
    <3>2. Name[<<d, o, v>>] = Reading(name, o + n)
        BY <2>1, <2>2, <2>3, <2>4, <3>1, HeldName
    <3> QED BY <3>1, <3>2 DEF ParseName
  <2>5. c # <<>>
    <3> SUFFICES ASSUME c = <<>> PROVE FALSE
        OBVIOUS
    <3>1. PICK p \in Text : /\ p # <<>> /\ ~TooLong(p)
                            /\ \/ name = p /\ c = LabelBytes(p) \o <<0>>
                               \/ \E u \in Text : Real(u) /\ c = LabelBytes(p) \o Spelled(u)
        BY <2>1, <2>2, SpelledIs
    <3>2. PICK r : r \in Octets /\ c = LabelBytes(p) \o r
      <4>1. <<0>> \in Octets
        <5>1. <<>> \in Seq(Text)
            OBVIOUS
        <5> QED BY <5>1, LabelsAre
      <4> QED BY <3>1, <4>1, SpelledType
    <3>3. PICK a, z, d : a = LabelBytes(p) /\ a \in Octets /\ z = 0 /\ z \in Nat
                         /\ d = a \o r /\ d \in Octets
        BY <3>2, LabelBytesType, OctetsJoin
    <3>4. HeldAt(d, z, a)
        BY <3>2, <3>3, JoinHolds
    <3>5. TakesLabel(d, z)
        BY <3>1, <3>3, <3>4, LabelHeld
    <3>6. z < Len(d)
        BY <3>5 DEF TakesLabel
    <3>7. Len(d) = 0
        BY <3>2, <3>3
    <3> QED BY <3>3, <3>6, <3>7
  <2>6. DictHeld(dict2, b \o c)
    <3>1. CASE Learns(o, dict, name)
      <4>1. Pointable(o) /\ o % 65536 = o
          BY <1>1, <3>1, DatagramIs DEF Learns
      <4>2. dict2 = Learned(dict, name, o)
          BY <1>3, <3>1, <4>1 DEF NameDict, Learned
      <4> QED BY <1>4, <2>1, <2>2, <4>1, <4>2, LearnedHeld
    <3>2. CASE ~Learns(o, dict, name)
        BY <1>3, <1>4, <3>2 DEF NameDict
    <3> QED BY <3>1, <3>2
  <2> QED BY <1>1, <1>2, <1>3, <2>3, <2>4, <2>5, <2>6
<1> QED BY <1>5, <1>6, <1>7

\* A reading that succeeded is its text and its next offset.
LEMMA ReadingIs ==
    /\ \A r \in Readings : r.ok => r = Reading(r.text, r.next) /\ r.text \in Text /\ r.next \in Nat
    /\ \A t, n : Reading(t, n).ok /\ Reading(t, n).text = t /\ Reading(t, n).next = n
<1>1. ASSUME NEW r \in Readings, r.ok PROVE r = Reading(r.text, r.next) /\ r.text \in Text /\ r.next \in Nat
  <2>1. PICK ok \in BOOLEAN, t \in Text, n \in Nat : r = [ok |-> ok, text |-> t, next |-> n]
      BY DEF Readings
  <2>2. r.ok = ok /\ r.text = t /\ r.next = n
      BY <2>1
  <2>3. ok = TRUE
      BY <1>1, <2>2
  <2> QED BY <2>1, <2>2, <2>3 DEF Reading
<1>2. ASSUME NEW t, NEW n PROVE Reading(t, n).ok /\ Reading(t, n).text = t /\ Reading(t, n).next = n
    BY DEF Reading
<1> QED BY <1>1, <1>2

\* Held bytes are read as the bytes they are.
LEMMA HeldBytes ==
    ASSUME NEW d \in Octets, NEW a \in Nat, NEW b \in Octets, HeldAt(d, a, b)
    PROVE  \A o \in Nat : o < Len(b) => Byte(d, a + o) = Byte(b, o) /\ a + o < Len(d)
<1>1. PICK m, n : m \in Nat /\ n \in Nat /\ m = Len(b) /\ n = Len(d)
    BY OctetsAre
<1>2. ASSUME NEW o \in Nat, o < m PROVE Byte(d, a + o) = Byte(b, o) /\ a + o < n
  <2>1. PICK i : i = o + 1
      OBVIOUS
  <2>2. i \in 1..m /\ a + o + 1 = a + i
      BY <1>1, <1>2, <2>1
  <2>3. d[a + i] = b[i]
      BY <1>1, <2>2 DEF HeldAt
  <2>4. a + m <= n
      BY <1>1 DEF HeldAt
  <2>5. a + o < n
      BY <1>1, <1>2, <2>4
  <2> QED BY <2>1, <2>2, <2>3, <2>5 DEF Byte
<1> QED BY <1>1, <1>2

\* A slice of held bytes is that slice of the data.
LEMMA HeldCut ==
    ASSUME NEW d \in Octets, NEW a \in Nat, NEW b \in Octets, HeldAt(d, a, b),
           NEW o \in Nat, NEW n \in Nat, o + n <= Len(b)
    PROVE  Slice(d, a + o, n) = Slice(b, o, n) /\ HeldAt(d, a + o, Slice(b, o, n))
<1>1. PICK s : s = Slice(b, o, n)
    OBVIOUS
<1>2. s \in Octets /\ Len(s) = n /\ \A k \in 1..n : s[k] = b[o + k]
    BY <1>1, SliceType
<1>3. HeldAt(b, o, s)
    BY <1>2 DEF HeldAt
<1>4. HeldAt(d, a + o, s)
    BY <1>2, <1>3, HeldIn
<1>5. a + o \in Nat
    OBVIOUS
<1> QED BY <1>1, <1>2, <1>4, <1>5, HeldSlice

\* A name that is all in its rdata is read the same wherever the rdata is.
LEMMA OwnNameMoves ==
    ASSUME NEW rd \in Octets
    PROVE  \A o \in Nat : OwnName(rd, o).ok =>
               \A d \in Octets, a \in Nat, v \in SUBSET Targets : HeldAt(d, a, rd) =>
                   /\ Name[<<d, a + o, v>>].ok
                   /\ Name[<<d, a + o, v>>].text = OwnName(rd, o).text
<1> DEFINE Good(o) == OwnName(rd, o).ok =>
               \A d \in Octets, a \in Nat, v \in SUBSET Targets : HeldAt(d, a, rd) =>
                   /\ Name[<<d, a + o, v>>].ok
                   /\ Name[<<d, a + o, v>>].text = OwnName(rd, o).text
<1>1. PICK all \in SUBSET Targets : all = Targets
    OBVIOUS
<1>2. PICK l \in Nat : l = Len(rd)
    BY OctetsAre
<1>3. PICK S, rank : S = {o \in Nat : Good(o)} /\ rank = [o \in Nat |-> IF o < l THEN l - o ELSE 0]
    OBVIOUS
<1>4. rank \in [Nat -> Nat]
    BY <1>3
<1>5. ASSUME NEW o \in Nat, \A y \in Nat : rank[y] < rank[o] => y \in S
      PROVE  o \in S
  <2> SUFFICES ASSUME OwnName(rd, o).ok, NEW d \in Octets, NEW a \in Nat,
                      NEW v \in SUBSET Targets, HeldAt(d, a, rd)
               PROVE  /\ Name[<<d, a + o, v>>].ok
                      /\ Name[<<d, a + o, v>>].text = OwnName(rd, o).text
      BY <1>3
  <2>1. OwnName(rd, o) = NameCases(Name, rd, o, all)
      BY <1>1, NameIs DEF OwnName
  <2>2. ~Follows(rd, o, all)
      BY <1>1, ByteType DEF Follows
  <2>3. PICK p \in Nat : p = a + o
      OBVIOUS
  <2>4. CASE o < Len(rd) /\ Byte(rd, o) = 0
    <3>1. OwnName(rd, o).text = <<>>
        BY <2>1, <2>4 DEF NameCases
    <3>2. p < Len(d) /\ Byte(d, p) = 0
        BY <2>3, <2>4, HeldBytes
    <3>3. Name[<<d, p, v>>] = Reading(<<>>, p + 1)
        BY <3>2, NameEnds
    <3> QED BY <2>3, <3>1, <3>3, ReadingIs
  <2>5. CASE ~(o < Len(rd) /\ Byte(rd, o) = 0)
    <3>1. TakesLabel(rd, o) /\ Name[<<rd, o + 1 + Byte(rd, o), all>>].ok
        BY <2>1, <2>2, <2>5 DEF NameCases, NoName
    <3>2. PICK b, i : /\ b = Byte(rd, o) /\ b \in 1..63 /\ o < l /\ o + 1 + b <= l
                      /\ i = o + 1 + b
        BY <1>2, <3>1 DEF TakesLabel
    <3>3. b \in Nat /\ i \in Nat /\ o < i /\ o + 1 + b = i
        BY <3>2
    <3>4. PICK r : r = OwnName(rd, i)
        OBVIOUS
    <3>5. r = Name[<<rd, i, all>>] /\ r.ok /\ r \in Readings
        BY <1>1, <3>1, <3>2, <3>3, <3>4, NameIs DEF OwnName
    <3>6. i \in S
      <4>1. rank[i] < rank[o]
          BY <1>3, <3>2, <3>3
      <4> QED BY <1>5, <3>3, <4>1
    <3>7. Good(i)
      <4> HIDE DEF Good
      <4> QED BY <1>3, <3>6
    <3>8. PICK q \in Nat : q = a + i
        BY <3>3
    <3>9. Name[<<d, q, v>>].ok /\ Name[<<d, q, v>>].text = r.text
        BY <3>4, <3>5, <3>7, <3>8
    <3>10. PICK t, n : t \in Text /\ Name[<<d, q, v>>] = Reading(t, n) /\ t = r.text
        BY <3>9, NameIs, ReadingIs
    <3>11. PICK j : j = Lossy[Slice(rd, o + 1, b)]
        OBVIOUS
    <3>12. j \in Text
        BY <3>1, <3>2, <3>11, LabelIs
    <3>13. Byte(d, p) = b /\ p < Len(d)
        BY <1>2, <2>3, <3>2, HeldBytes
    <3>14. p + 1 + b = q /\ a + (o + 1) = p + 1 /\ (o + 1) + b = i
        BY <2>3, <3>3, <3>8
    <3>15. Slice(d, p + 1, b) = Slice(rd, o + 1, b)
      <4>1. PICK k \in Nat : k = o + 1
          OBVIOUS
      <4>2. k + b <= Len(rd)
          BY <1>2, <3>2, <4>1
      <4>3. HeldAt(d, a, rd) /\ b \in Nat
          BY <3>3
      <4> HIDE DEF Good
      <4>4. Slice(d, a + k, b) = Slice(rd, k, b)
          BY ONLY <1>2, <3>3, <4>2, <4>3, d \in Octets, rd \in Octets, a \in Nat, HeldCut
      <4> QED BY <3>14, <4>1, <4>4
    <3>16. TakesLabel(d, p)
      <4>1. PICK m \in Nat : m = Len(d)
          BY OctetsAre
      <4>2. a + l <= m
          BY <1>2, <4>1 DEF HeldAt
      <4>3. q <= m
          BY <3>2, <3>3, <3>8, <4>2
      <4> QED BY <3>2, <3>13, <3>14, <4>1, <4>3 DEF TakesLabel
    <3>17. Name[<<d, p + 1 + Byte(d, p), v>>] = Reading(t, n)
        BY <3>10, <3>13, <3>14
    <3>18. j = Lossy[Slice(d, p + 1, Byte(d, p))]
        BY <3>11, <3>13, <3>15
    <3>19. Name[<<d, p, v>>] = Reading(Joined(j, t), n)
        BY <3>10, <3>12, <3>16, <3>17, <3>18, NameGoesOn
    <3>20. Name[<<rd, o, all>>] = Reading(Joined(j, t), r.next)
      <4>1. Name[<<rd, o + 1 + Byte(rd, o), all>>] = Reading(t, r.next)
          BY <3>2, <3>5, <3>10, ReadingIs
      <4>2. PICK m : m = r.next
          OBVIOUS
      <4>3. j = Lossy[Slice(rd, o + 1, Byte(rd, o))]
          BY <3>2, <3>11
      <4> QED BY <3>1, <3>10, <3>12, <4>1, <4>2, <4>3, NameGoesOn
    <3>21. OwnName(rd, o).text = Joined(j, t)
        BY <1>1, <3>20, ReadingIs DEF OwnName
    <3> QED BY <2>3, <3>19, <3>21, ReadingIs
  <2> QED BY <2>4, <2>5
<1> HIDE DEF Good
<1>6. Nat \subseteq S
    BY <1>4, <1>5, RankInduction
<1>7. \A o \in Nat : Good(o)
    BY <1>3, <1>6
<1> QED BY <1>7 DEF Good

-----------------------------------------------------------------------------
(* Records read again *)

\* What a record of the packet d0 is, with len bytes of rdata at o.
FromPacket(r, d0, o, len) ==
    /\ d0 \in Octets /\ o \in Nat /\ len \in Nat /\ o + len <= Len(d0)
    /\ r.rdata = Slice(d0, o, len)
    /\ r.target = TargetName(d0, o, len, r.type)
    /\ r.summary = RdataSummary(d0, o, len, r.type)

\* A name found inside an rdata alone is found wherever that rdata is held.
LEMMA FoundMoves ==
    ASSUME NEW rd \in Octets, NEW k \in Nat, OwnName(rd, k).ok,
           NEW d \in Octets, NEW a \in Nat, HeldAt(d, a, rd)
    PROVE  NameAt(d, a + k) = <<OwnName(rd, k).text>>
<1>1. PICK v \in SUBSET Targets : v = {}
    OBVIOUS
<1>2. Name[<<d, a + k, v>>].ok /\ Name[<<d, a + k, v>>].text = OwnName(rd, k).text
    BY OwnNameMoves
<1>3. PICK n : n = ParseName(d, a + k)
    OBVIOUS
<1>4. n.ok /\ n.text = OwnName(rd, k).text
    BY <1>1, <1>2, <1>3 DEF ParseName
<1> QED BY <1>3, <1>4 DEF NameAt, Found

\* Copied rdata is read the same if its name is all in it.
LEMMA CopiedRdata ==
    ASSUME NEW r, NEW d0, NEW o0, NEW len, FromPacket(r, d0, o0, len), IsRR(r),
           r.rdata \in Octets, ~WritesName(r), ~NeedsPacket(r),
           NEW d \in Octets, NEW o \in Nat, HeldAt(d, o, r.rdata)
    PROVE  /\ TargetName(d, o, len, r.type) = r.target
           /\ RdataSummary(d, o, len, r.type) = r.summary
<1>1. PICK rd, type : rd = r.rdata /\ type = r.type /\ rd \in Octets
    OBVIOUS
<1>2. /\ d0 \in Octets /\ o0 \in Nat /\ len \in Nat /\ o0 + len <= Len(d0)
      /\ rd = Slice(d0, o0, len) /\ Len(rd) = len
    BY <1>1, SliceType DEF FromPacket
<1>3. HeldAt(d0, o0, rd)
  <2>1. \A k \in 1..len : rd[k] = d0[o0 + k]
      BY <1>2, SliceType
  <2> QED BY <1>2, <2>1 DEF HeldAt
<1>4. Slice(d, o, len) = rd /\ HeldAt(d, o, rd)
    BY <1>1, <1>2, HeldSlice
<1>5. ASSUME NEW k \in Nat, OwnName(rd, k).ok
      PROVE  NameAt(d, o + k) = NameAt(d0, o0 + k) /\ NameAt(d0, o0 + k) # <<>>
  <2>1. NameAt(d, o + k) = <<OwnName(rd, k).text>>
      BY <1>1, <1>4, <1>5, FoundMoves
  <2>2. NameAt(d0, o0 + k) = <<OwnName(rd, k).text>>
      BY <1>1, <1>2, <1>3, <1>5, FoundMoves
  <2>3. \A x : <<x>> # <<>>
      OBVIOUS
  <2> QED BY <2>1, <2>2, <2>3, Zenon
<1>6. o + 0 = o /\ o0 + 0 = o0
    BY <1>2
<1>7. OwnName(rd, 0).ok => NameAt(d, o) = NameAt(d0, o0) /\ NameAt(d0, o0) # <<>>
    BY <1>5, <1>6
<1>8. OwnName(rd, 6).ok => NameAt(d, o + 6) = NameAt(d0, o0 + 6) /\ NameAt(d0, o0 + 6) # <<>>
    BY <1>5
<1>9. PICK target : target = r.target /\ target = TargetName(d0, o0, len, type)
    BY <1>1 DEF FromPacket
<1>10. r.summary = RdataSummary(d0, o0, len, type)
    BY <1>1 DEF FromPacket
<1>11. type \in {PTR, SRV} => target = <<>>
    BY <1>1, <1>9 DEF WritesName
<1>12. ~(/\ target = <<>>
         /\ \/ type \in {NS, CNAME, NSEC, PTR} /\ ~OwnName(rd, 0).ok
            \/ type = SRV /\ Len(rd) > 6 /\ ~OwnName(rd, 6).ok)
    BY <1>1, <1>9 DEF NeedsPacket
<1>13. CASE type = PTR
  <2>1. target = NameAt(d0, o0)
      BY <1>9, <1>13 DEF TargetName, PTR, SRV
  <2> QED BY <1>7, <1>11, <1>12, <1>13, <2>1
<1>14. CASE type = SRV /\ len > 6
  <2>1. target = NameAt(d0, o0 + 6)
      BY <1>9, <1>14 DEF TargetName, PTR, SRV
  <2> QED BY <1>2, <1>8, <1>11, <1>12, <1>14, <2>1
<1>15. CASE type = SRV /\ ~(len > 6)
  <2>1. \A e, i : TargetName(e, i, len, type) = <<>> /\ RdataSummary(e, i, len, type) = <<>>
      BY <1>15 DEF TargetName, RdataSummary, PTR, SRV, A, AAAA, NS, CNAME, NSEC, TXT
  <2> QED BY <1>1, <1>9, <1>10, <2>1
<1>16. CASE type \notin {PTR, SRV}
  <2>1. \A e, i : TargetName(e, i, len, type) = <<>>
      BY <1>16 DEF TargetName
  <2>2. target = <<>>
      BY <1>9, <2>1
  <2>3. CASE type \in {NS, CNAME, NSEC}
    <3>1. \A e, i : RdataSummary(e, i, len, type) = Named(NameAt(e, i), <<>>)
        BY <2>3 DEF RdataSummary, PTR, SRV, A, AAAA, NS, CNAME, NSEC, TXT
    <3>2. NameAt(d, o) = NameAt(d0, o0)
        BY <1>7, <1>12, <2>2, <2>3
    <3> QED BY <1>1, <1>9, <1>10, <2>1, <3>1, <3>2
  <2>4. CASE type = TXT
    <3>1. \A e, i : RdataSummary(e, i, len, type) = Listed(Strings[Slice(e, i, len)])
        BY <2>4 DEF RdataSummary, PTR, SRV, A, AAAA, NS, CNAME, NSEC, TXT
    <3> QED BY <1>1, <1>2, <1>4, <1>9, <1>10, <2>1, <3>1
  <2>5. CASE (type = A /\ len = 4) \/ (type = AAAA /\ len = 16)
    <3>1. \A e, i : RdataSummary(e, i, len, type) = Summary(<<>>, Slice(e, i, len))
        BY <2>5 DEF RdataSummary, PTR, SRV, A, AAAA, NS, CNAME, NSEC, TXT
    <3> QED BY <1>1, <1>2, <1>4, <1>9, <1>10, <2>1, <3>1
  <2>6. CASE /\ type \notin {NS, CNAME, NSEC} /\ type # TXT
             /\ ~((type = A /\ len = 4) \/ (type = AAAA /\ len = 16))
    <3>1. /\ ~((type = A /\ len = 4) \/ (type = AAAA /\ len = 16))
          /\ type \notin {PTR, NS, CNAME, NSEC} /\ ~(type = SRV /\ len > 6) /\ type # TXT
        BY <1>16, <2>6
    <3>2. ASSUME NEW e, NEW i PROVE RdataSummary(e, i, len, type) = <<>>
        BY <3>1 DEF RdataSummary
    <3> QED BY <1>1, <1>9, <1>10, <2>1, <3>2
  <2> QED BY <2>3, <2>4, <2>5, <2>6
<1> QED BY <1>13, <1>14, <1>15, <1>16

\* The writer's buffer and dictionary agree.
Sound(w) == w \in Writers /\ DictHeld(w.dict, w.buf)

\* A record that is written out, not copied, is read with its target, after
\* what goes before it.
RdataHeld(d, o, r, len) ==
    LET head == RdataHead(r)
    IN  /\ Slice(d, o, Len(head)) = head /\ len > Len(head)
        /\ NameAt(d, o + Len(head)) = <<Canon(r.target[1])>>

\* The rdata written after a sound writer is sound, and reads back as the rdata it stands
\* for.
LEMMA RdataWritten ==
    ASSUME NEW y, Sound(y), NEW r, IsRecord(r), WriteRdata(y, r).ok,
           InDatagram(Len(WriteRdata(y, r).buf)),
           WritesName(r) => NoEmptyPart(Canon(r.target[1]))
    PROVE  LET R == RdataBytes(y.dict, r)
           IN  /\ Sound(WriteRdata(y, r)) /\ R \in Octets /\ y.ok
               /\ WriteRdata(y, r).buf = y.buf \o R
               /\ ~WritesName(r) => R = r.rdata
               /\ WritesName(r) => \A d \in Octets : HeldAt(d, 0, y.buf \o R) =>
                                       RdataHeld(d, Len(y.buf), r, Len(R))
<1>1. PICK b, dict : b = y.buf /\ dict = y.dict /\ b \in Octets /\ dict \in Dicts /\ DictHeld(dict, b)
    BY DEF Sound, Writers
<1>2. PICK W : W = WriteRdata(y, r) /\ W \in Writers
    BY WriteRdataIs DEF Sound
<1>3. PICK R : R = RdataBytes(dict, r) /\ R \in Octets
  <2>1. PICK z \in Nat : z = 0
      OBVIOUS
  <2> QED BY <1>1, <2>1, RdataType
<1>4. PICK o \in Nat : o = Len(b)
    BY <1>1, OctetsAre
<1>5. W.buf = b \o R /\ W.dict = RdataDict(o, dict, r) /\ (W.ok => y.ok /\ RdataFits(dict, r))
  <2>1. PICK buf, dct, ok : /\ buf = b \o R /\ dct = RdataDict(o, dict, r)
                            /\ ok = (y.ok /\ RdataFits(dict, r))
      OBVIOUS
  <2>2. W = [buf |-> buf, dict |-> dct, ok |-> ok]
      BY <1>1, <1>2, <1>3, <1>4, <2>1, WriteRdataIs DEF Sound
  <2>3. W.buf = buf /\ W.dict = dct /\ W.ok = ok
      BY <2>2
  <2> QED BY <2>1, <2>3
<1>6. y.ok /\ RdataFits(dict, r)
    BY <1>2, <1>5
<1>7. CASE ~WritesName(r)
  <2>1. R = r.rdata /\ W.dict = dict
      BY <1>3, <1>5, <1>7 DEF RdataBytes, RdataDict
  <2>2. DictHeld(dict, b \o R)
      BY <1>1, <1>3, DictKept
  <2> QED BY <1>1, <1>2, <1>3, <1>5, <1>6, <1>7, <2>1, <2>2 DEF Sound
<1>8. CASE WritesName(r)
  <2>1. PICK head, name : /\ head = RdataHead(r) /\ name = Canon(r.target[1])
                          /\ head \in Octets /\ name \in Text /\ NoEmptyPart(name)
      BY <1>8, RdataHeadType
  <2>2. NameFits(dict, name)
      BY <1>6, <1>8, <2>1 DEF RdataFits
  <2>3. PICK k \in Nat : k = Len(head)
      BY <2>1, OctetsAre
  <2>4. PICK c : c = NameBytes(dict, name) /\ c \in Octets
      BY <1>1, <1>4, <2>1, NameBytesType
  <2>5. R = head \o c
      BY <1>3, <1>8, <2>1, <2>4 DEF RdataBytes
  <2>6. PICK b2 : b2 = b \o head /\ b2 \in Octets /\ Len(b2) = o + k
    <3>1. PICK j : j = b \o head
        OBVIOUS
    <3>2. j \in Octets /\ Len(j) = o + k
        BY <1>1, <1>4, <2>1, <2>3, <3>1, OctetsJoin
    <3> QED BY <3>1, <3>2
  <2>7. b \o R = b2 \o c
    <3>1. b \in Octets /\ head \in Octets /\ c \in Octets
        BY <1>1, <2>1, <2>4
    <3>2. (b \o head) \o c = b \o (head \o c)
        BY <3>1, OctetsAssociate
    <3> QED BY <2>5, <2>6, <3>2
  <2>8. DictHeld(dict, b2)
      BY <1>1, <2>1, <2>6, DictKept
  <2>9. PICK m \in Nat : m = Len(c)
      BY <2>4, OctetsAre
  <2>10. PICK o2 \in Nat : o2 = o + k /\ o2 = Len(b2)
      BY <2>6
  <2>11. InDatagram(o2)
    <3>1. PICK l : l = Len(b2 \o c)
        OBVIOUS
    <3>2. l = o2 + m
      <4>1. Len(b2 \o c) = Len(b2) + Len(c)
          BY <2>4, <2>6, OctetsJoin
      <4> QED BY <2>9, <2>10, <3>1, <4>1
    <3>3. InDatagram(l)
        BY <1>2, <1>5, <2>7, <3>1
    <3>4. o2 <= l
        BY <3>2
    <3> QED BY <3>3, <3>4, DatagramIs
  <2>12. /\ c # <<>>
         /\ DictHeld(NameDict(o2, dict, name), b2 \o c)
         /\ \A d \in Octets : HeldAt(d, o2, c) /\ HeldAt(d, 0, b2) =>
               ParseName(d, o2) = Reading(name, o2 + m)
    <3>1. /\ b2 \in Octets /\ dict \in Dicts /\ DictHeld(dict, b2) /\ InDatagram(Len(b2))
          /\ name \in Text /\ NoEmptyPart(name) /\ NameFits(dict, name)
        BY <1>1, <2>1, <2>2, <2>6, <2>8, <2>10, <2>11
    <3>2. PICK dict2 : dict2 = NameDict(Len(b2), dict, name)
        OBVIOUS
    <3>3. /\ c # <<>> /\ DictHeld(dict2, b2 \o c)
          /\ \A d \in Octets : HeldAt(d, Len(b2), c) /\ HeldAt(d, 0, b2) =>
                ParseName(d, Len(b2)) = Reading(name, Len(b2) + Len(c))
        BY <2>4, <3>1, <3>2, NameWritten
    <3> QED BY <2>9, <2>10, <3>2, <3>3
  <2>13. W.dict = NameDict(o2, dict, name)
      BY <1>5, <1>8, <2>1, <2>3, <2>10 DEF RdataDict
  <2>14. Sound(W)
      BY <1>2, <1>5, <2>7, <2>12, <2>13 DEF Sound
  <2>15. m > 0
    <3> SUFFICES ASSUME m = 0 PROVE FALSE
        OBVIOUS
    <3>1. c = <<>>
        BY <2>4, <2>9, EmptySeq DEF Octets
    <3> QED BY <2>12, <3>1
  <2>16. PICK n : n = Len(R)
      OBVIOUS
  <2>17. n > k
    <3>1. n = k + m
        BY <2>1, <2>3, <2>4, <2>5, <2>9, <2>16, OctetsJoin
    <3> QED BY <2>15, <3>1
  <2>18. ASSUME NEW d \in Octets, HeldAt(d, 0, b \o R) PROVE RdataHeld(d, o, r, n)
    <3>1. PICK z : z = 0 /\ z \in Nat /\ z + o2 = o2 /\ z + o = o
        OBVIOUS
    <3>2. HeldAt(d, z, b2) /\ HeldAt(d, z + Len(b2), c)
        BY <2>4, <2>6, <2>7, <2>18, <3>1, HeldJoin
    <3>3. HeldAt(d, z, b) /\ HeldAt(d, z + Len(b), head)
        BY <1>1, <2>1, <2>6, <3>1, <3>2, HeldJoin
    <3>4. HeldAt(d, o2, c) /\ HeldAt(d, o, head) /\ HeldAt(d, 0, b2)
        BY <1>4, <2>10, <3>1, <3>2, <3>3
    <3>5. Slice(d, o, k) = head
        BY <2>1, <2>3, <3>4, HeldSlice
    <3>6. PICK q : q = o2 + m
        OBVIOUS
    <3>7. ParseName(d, o2) = Reading(name, q)
        BY <2>12, <3>4, <3>6
    <3>8. NameAt(d, o2) = <<name>>
        BY <3>7, ReadingIs DEF NameAt, Found
    <3> QED BY <2>1, <2>3, <2>10, <2>17, <3>5, <3>8 DEF RdataHeld
  <2>19. \A d \in Octets : HeldAt(d, 0, b \o R) => RdataHeld(d, o, r, Len(R))
      BY <2>16, <2>18
  <2> QED BY <1>1, <1>2, <1>3, <1>4, <1>5, <1>6, <1>8, <2>14, <2>19
<1> QED BY <1>7, <1>8

Word(n) == n \in Nat /\ n < 65536

\* A number of 16 bits reads back.
LEMMA WordHeld ==
    ASSUME NEW d \in Octets, NEW o \in Nat, NEW n, Word(n), HeldAt(d, o, Bytes16(n))
    PROVE  U16(d, o) = n /\ o + 1 < Len(d)
<1>1. PICK h, l : h = n \div 256 /\ l = n % 256
    OBVIOUS
<1>2. n \in Nat /\ n < 65536
    BY DEF Word
<1>3. h \in Nat /\ l \in Nat /\ h < 256 /\ n = h * 256 + l
    BY <1>1, <1>2
<1>4. h % 256 = h
    BY <1>3
<1>5. PICK b : b = <<h, l>>
    OBVIOUS
<1>6. Len(b) = 2 /\ b[1] = h /\ b[2] = l
    BY <1>5
<1>7. HeldAt(d, o, b)
    BY <1>1, <1>4, <1>5 DEF Bytes16
<1>8. PICK m \in Nat : m = Len(d)
    BY OctetsAre
<1>9. o + 2 <= m /\ d[o + 1] = h /\ d[o + 2] = l
  <2>1. \A i \in 1..2 : d[o + i] = b[i]
      BY <1>6, <1>7 DEF HeldAt
  <2>2. o + 2 <= m
      BY <1>6, <1>7, <1>8 DEF HeldAt
  <2>3. 1 \in 1..2 /\ 2 \in 1..2
      OBVIOUS
  <2> QED BY <1>6, <2>1, <2>2, <2>3
<1>10. Byte(d, o) = h /\ Byte(d, o + 1) = l
  <2>1. (o + 1) + 1 = o + 2
      OBVIOUS
  <2> QED BY <1>9, <2>1 DEF Byte
<1>11. o + 1 < m
    BY <1>8, <1>9
<1> HIDE <1>1
<1> QED BY <1>3, <1>8, <1>10, <1>11 DEF U16

\* A name written after a sound writer reads back in its canonical form, and the read ends
\* with it.
LEMMA NameReread ==
    ASSUME NEW w, Sound(w), NEW t \in Text, NoEmptyPart(Canon(t)), WriteName(w, t).ok,
           InDatagram(Len(w.buf))
    PROVE  LET x == WriteName(w, t)
           IN  /\ Sound(x) /\ w.ok
               /\ \E c \in Octets : x.buf = w.buf \o c
               /\ \A d \in Octets : HeldAt(d, 0, x.buf) =>
                     ParseName(d, Len(w.buf)) = Reading(Canon(t), Len(x.buf))
<1>1. PICK b, dict : b = w.buf /\ dict = w.dict /\ b \in Octets /\ dict \in Dicts /\ DictHeld(dict, b)
    BY DEF Sound, Writers
<1>2. PICK name : name = Canon(t) /\ name \in Text /\ NoEmptyPart(name)
    BY CanonIs
<1>3. PICK o \in Nat : o = Len(b) /\ InDatagram(o)
    BY <1>1, OctetsAre
<1>4. PICK x : x = WriteName(w, t) /\ x \in Writers
    BY WriteNameType DEF Sound
<1>5. PICK c : c = NameBytes(dict, name) /\ c \in Octets
    BY <1>1, <1>2, <1>3, NameBytesType
<1>6. x.buf = b \o c /\ x.dict = NameDict(o, dict, name) /\ w.ok /\ NameFits(dict, name)
    BY <1>1, <1>2, <1>3, <1>4, <1>5, WriteNameType DEF Sound
<1>7. /\ DictHeld(NameDict(o, dict, name), b \o c)
      /\ \A d \in Octets : HeldAt(d, o, c) /\ HeldAt(d, 0, b) =>
            ParseName(d, o) = Reading(name, o + Len(c))
  <2>1. PICK dict2 : dict2 = NameDict(Len(b), dict, name)
      OBVIOUS
  <2>2. InDatagram(Len(b))
      BY <1>3
  <2>3. /\ DictHeld(dict2, b \o c)
        /\ \A d \in Octets : HeldAt(d, Len(b), c) /\ HeldAt(d, 0, b) =>
              ParseName(d, Len(b)) = Reading(name, Len(b) + Len(c))
    <3>1. /\ b \in Octets /\ dict \in Dicts /\ DictHeld(dict, b) /\ InDatagram(Len(b))
          /\ name \in Text /\ NoEmptyPart(name) /\ NameFits(dict, name)
        BY <1>1, <1>2, <1>6, <2>2
    <3> QED BY <1>5, <2>1, <3>1, NameWritten
  <2> QED BY <1>3, <2>1, <2>3
<1>8. Sound(x)
    BY <1>4, <1>6, <1>7 DEF Sound
<1>9. ASSUME NEW d \in Octets, HeldAt(d, 0, x.buf) PROVE ParseName(d, o) = Reading(name, Len(x.buf))
  <2>1. PICK z : z = 0 /\ z \in Nat /\ z + o = o
      OBVIOUS
  <2>2. HeldAt(d, z, b) /\ HeldAt(d, z + Len(b), c)
      BY <1>1, <1>5, <1>6, <1>9, <2>1, HeldJoin
  <2>3. HeldAt(d, 0, b) /\ HeldAt(d, o, c)
      BY <1>3, <2>1, <2>2
  <2>4. Len(x.buf) = o + Len(c)
      BY <1>1, <1>3, <1>5, <1>6, OctetsJoin
  <2> QED BY <1>7, <2>3, <2>4
<1> QED BY <1>1, <1>2, <1>3, <1>4, <1>5, <1>6, <1>8, <1>9

\* What has been written before.
LEMMA WrittenBefore ==
    ASSUME NEW a \in Octets, NEW c \in Octets, InDatagram(Len(a \o c))
    PROVE  InDatagram(Len(a)) /\ \A d \in Octets : HeldAt(d, 0, a \o c) =>
                                    HeldAt(d, 0, a) /\ HeldAt(d, Len(a), c)
<1>1. PICK l, m, n : l = Len(a \o c) /\ m = Len(a) /\ n = Len(c)
    OBVIOUS
<1>2. m \in Nat /\ n \in Nat /\ l = m + n
    BY <1>1, OctetsAre, OctetsJoin
<1>3. InDatagram(m)
    BY <1>1, <1>2, DatagramIs
<1>4. ASSUME NEW d \in Octets, HeldAt(d, 0, a \o c) PROVE HeldAt(d, 0, a) /\ HeldAt(d, m, c)
  <2>1. PICK z : z = 0 /\ z \in Nat /\ z + m = m
      BY <1>2
  <2>2. HeldAt(d, z, a) /\ HeldAt(d, z + Len(a), c)
      BY <1>4, <2>1, HeldJoin
  <2> QED BY <1>1, <2>1, <2>2
<1> QED BY <1>1, <1>3, <1>4

QuestionRead(q) == [name |-> Canon(q.name), type |-> q.type, class |-> q.class]
Parsed(item, next) == [ok |-> TRUE, next |-> next, item |-> item]

\* A question reads back with its name canonical.
LEMMA QuestionWritten ==
    ASSUME NEW w, Sound(w), NEW q, IsItem(1, q), WriteItem(w, 1, q).ok,
           InDatagram(Len(WriteItem(w, 1, q).buf)), NoEmptyPart(Canon(q.name))
    PROVE  LET W == WriteItem(w, 1, q)
           IN  /\ Sound(W) /\ w.ok /\ \E c \in Octets : W.buf = w.buf \o c
               /\ \A d \in Octets : HeldAt(d, 0, W.buf) =>
                     ParseItem(d, Len(w.buf), 1) = Parsed(QuestionRead(q), Len(W.buf))
<1>1. PICK W : W = WriteItem(w, 1, q)
    OBVIOUS
<1>2. PICK e : /\ e = QuestionTail(q) /\ e \in Octets /\ Len(e) = 4
               /\ W = Put(WriteName(w, q.name), e) /\ W \in Writers
    BY <1>1, WriteQuestionType DEF Sound
<1>3. q.name \in Text /\ w \in Writers
    BY DEF IsItem, Sound
<1>4. PICK x : x = WriteName(w, q.name) /\ x \in Writers
    BY <1>3, WriteNameType
<1>5. W.buf = x.buf \o e /\ W.dict = x.dict /\ W.ok = x.ok /\ x.ok
  <2>1. W.buf = x.buf \o e /\ W.dict = x.dict /\ W.ok = x.ok
      BY <1>2, <1>4, PutType
  <2> QED BY <1>1, <2>1
<1>6. PICK a, b : a = w.buf /\ b = x.buf /\ a \in Octets /\ b \in Octets
    BY <1>3, <1>4 DEF Writers
<1>7. PICK c0 \in Octets : b = a \o c0
  <2>1. x.buf = w.buf \o NameBytes(w.dict, Canon(q.name))
      BY <1>3, <1>4, WriteNameType
  <2>2. PICK dict, name, n : /\ dict = w.dict /\ name = Canon(q.name) /\ n = Len(a)
                             /\ dict \in Dicts /\ name \in Text /\ n \in Nat
      BY <1>3, <1>6, CanonIs, OctetsAre DEF Writers
  <2>3. NameBytes(dict, name) \in Octets
      BY <2>2, NameBytesType
  <2> QED BY <1>6, <2>1, <2>2, <2>3
<1>8. InDatagram(Len(b)) /\ \A d \in Octets : HeldAt(d, 0, b \o e) => HeldAt(d, 0, b) /\ HeldAt(d, Len(b), e)
  <2>1. InDatagram(Len(b \o e))
      BY <1>1, <1>5, <1>6
  <2> QED BY <1>2, <1>6, <2>1, WrittenBefore
<1>9. InDatagram(Len(a))
    BY <1>6, <1>7, <1>8, WrittenBefore
<1>10. /\ Sound(x) /\ w.ok
       /\ \A d \in Octets : HeldAt(d, 0, b) => ParseName(d, Len(a)) = Reading(Canon(q.name), Len(b))
    BY <1>3, <1>4, <1>5, <1>6, <1>9, NameReread
<1>11. Sound(W)
  <2>1. DictHeld(x.dict, b \o e)
      BY <1>2, <1>6, <1>10, DictKept DEF Sound
  <2> QED BY <1>2, <1>5, <1>6, <2>1 DEF Sound
<1>12. \E c \in Octets : W.buf = a \o c
  <2>1. a \in Octets /\ c0 \in Octets /\ e \in Octets
      BY <1>2, <1>6, <1>7
  <2>2. (a \o c0) \o e = a \o (c0 \o e)
      BY <2>1, OctetsAssociate
  <2>3. c0 \o e \in Octets
      BY <2>1, OctetsJoin
  <2> QED BY <1>5, <1>6, <1>7, <2>2, <2>3
<1>13. PICK t, u, n : t = Bytes16(q.type) /\ u = q.class /\ n = Len(b) /\ n \in Nat
    BY <1>6, OctetsAre
<1>14. /\ Word(q.type) /\ t \in Octets /\ Len(t) = 2 /\ u \in Octets /\ Len(u) = 2
       /\ e = t \o u
  <2>1. Word(q.type) /\ u \in Octets /\ Len(u) = 2
      BY <1>13 DEF Word, IsItem
  <2>2. t \in Octets /\ Len(t) = 2
      BY <1>13, <2>1, Bytes16Type DEF Word
  <2> QED BY <1>2, <1>13, <2>1, <2>2 DEF QuestionTail
<1>15. ASSUME NEW d \in Octets, HeldAt(d, 0, W.buf)
       PROVE  ParseItem(d, Len(a), 1) = Parsed(QuestionRead(q), Len(W.buf))
  <2>1. HeldAt(d, 0, b) /\ HeldAt(d, n, e)
      BY <1>5, <1>6, <1>8, <1>13, <1>15
  <2>2. PICK p : p = ParseName(d, Len(a)) /\ p = Reading(Canon(q.name), n)
      BY <1>10, <1>13, <2>1
  <2>3. p.ok /\ p.text = Canon(q.name) /\ p.next = n
      BY <2>2, ReadingIs
  <2>4. HeldAt(d, n, t) /\ HeldAt(d, n + 2, u)
    <3>1. HeldAt(d, n, t) /\ HeldAt(d, n + Len(t), u)
        BY <1>13, <1>14, <2>1, HeldJoin
    <3> QED BY <1>14, <3>1
  <2>5. U16(d, n) = q.type
      BY <1>13, <1>14, <2>4, WordHeld
  <2>6. Slice(d, n + 2, 2) = q.class
    <3>1. PICK n2 \in Nat : n2 = n + 2
        BY <1>13
    <3>2. Slice(d, n2, Len(u)) = u
        BY <1>14, <2>4, <3>1, HeldSlice
    <3> QED BY <1>13, <1>14, <3>1, <3>2
  <2>7. n + 4 <= Len(d)
      BY <1>2, <2>1 DEF HeldAt
  <2>8. ~(n + 4 > Len(d))
    <3>1. Len(d) \in Nat
        BY OctetsAre
    <3> QED BY <1>13, <2>7, <3>1
  <2>9. Len(W.buf) = n + 4
    <3>1. Len(b \o e) = Len(b) + Len(e)
        BY <1>2, <1>6, OctetsJoin
    <3> QED BY <1>2, <1>5, <1>6, <1>13, <3>1
  <2>10. QuestionAfter(d, p) = Parsed(QuestionRead(q), n + 4)
      BY <2>3, <2>5, <2>6, <2>8 DEF QuestionAfter, Parsed, QuestionRead
  <2> QED BY <2>2, <2>9, <2>10 DEF ParseItem
<1> QED BY <1>1, <1>6, <1>10, <1>11, <1>12, <1>15

\* r2 is what is read for r, with the rdata R at offset o.
RecordRead(r2, r, d, o, R) ==
    /\ r2.name = Canon(r.name) /\ r2.type = r.type /\ r2.class = r.class /\ r2.ttl = r.ttl
    /\ r2.rdata = R /\ r2.target = TargetName(d, o, Len(R), r.type)
    /\ r2.summary = RdataSummary(d, o, Len(R), r.type)
    /\ IsRR(r2) /\ o \in Nat /\ R \in Octets /\ HeldAt(d, o, R)
    /\ ~WritesName(r) => R = r.rdata
    /\ WritesName(r) => RdataHeld(d, o, r, Len(R))

RecordReadAs(r, d, at, s, next) ==
    \E r2, o, R : RecordRead(r2, r, d, o, R) /\ ParseItem(d, at, s) = Parsed(r2, next)

\* The ten bytes between a record's name and its rdata read back.
LEMMA RRHeaderHeld ==
    ASSUME NEW r, IsWhole(r), Word(r.type), Len(r.class) = 2, Len(r.ttl) = 4, NEW len, Word(len)
    PROVE  LET h == RRHeader(len, r)
           IN  /\ h \in Octets /\ Len(h) = 10
               /\ \A d \in Octets, o \in Nat : HeldAt(d, o, h) =>
                     /\ U16(d, o) = r.type /\ U16(d, o + 8) = len
                     /\ Slice(d, o + 2, 2) = r.class /\ Slice(d, o + 4, 4) = r.ttl
<1>1. PICK t, c, l, n : t = Bytes16(r.type) /\ c = r.class /\ l = r.ttl /\ n = Bytes16(len)
    OBVIOUS
<1>2. /\ t \in Octets /\ Len(t) = 2 /\ c \in Octets /\ Len(c) = 2
      /\ l \in Octets /\ Len(l) = 4 /\ n \in Octets /\ Len(n) = 2
    BY <1>1, Bytes16Type DEF IsWhole, Word
<1>3. PICK e : e = t \o c /\ e \in Octets
    BY <1>2, OctetsJoin
<1>4. Len(e) = Len(t) + Len(c)
    BY <1>2, <1>3, OctetsJoin
<1>5. PICK f : f = e \o l /\ f \in Octets
    BY <1>2, <1>3, OctetsJoin
<1>6. Len(f) = Len(e) + Len(l)
    BY <1>2, <1>3, <1>5, OctetsJoin
<1>7. PICK h : h = f \o n /\ h \in Octets
    BY <1>2, <1>5, OctetsJoin
<1>8. Len(h) = Len(f) + Len(n)
    BY <1>2, <1>5, <1>7, OctetsJoin
<1>9. PICK i, j, k : i = Len(e) /\ j = Len(f) /\ k = Len(h)
    OBVIOUS
<1>10. i = 4 /\ j = 8 /\ k = 10
    BY <1>2, <1>4, <1>6, <1>8, <1>9
<1>11. h = RRHeader(len, r)
    BY <1>1, <1>3, <1>5, <1>7 DEF RRHeader, RRHead
<1>12. ASSUME NEW d \in Octets, NEW o \in Nat, HeldAt(d, o, h)
       PROVE  /\ U16(d, o) = r.type /\ U16(d, o + 8) = len
              /\ Slice(d, o + 2, 2) = r.class /\ Slice(d, o + 4, 4) = r.ttl
  <2>1. HeldAt(d, o, f) /\ HeldAt(d, o + 8, n)
    <3>1. HeldAt(d, o, f) /\ HeldAt(d, o + Len(f), n)
        BY <1>2, <1>5, <1>7, <1>12, HeldJoin
    <3> QED BY <1>9, <1>10, <3>1
  <2>2. HeldAt(d, o, e) /\ HeldAt(d, o + 4, l)
    <3>1. HeldAt(d, o, e) /\ HeldAt(d, o + Len(e), l)
        BY <1>2, <1>3, <1>5, <2>1, HeldJoin
    <3> QED BY <1>9, <1>10, <3>1
  <2>3. HeldAt(d, o, t) /\ HeldAt(d, o + 2, c)
    <3>1. HeldAt(d, o, t) /\ HeldAt(d, o + Len(t), c)
        BY <1>2, <1>3, <2>2, HeldJoin
    <3> QED BY <1>2, <3>1
  <2>4. PICK o2, o4, o8 : /\ o2 = o + 2 /\ o4 = o + 4 /\ o8 = o + 8
                          /\ o2 \in Nat /\ o4 \in Nat /\ o8 \in Nat
      OBVIOUS
  <2>5. HeldAt(d, o2, c) /\ HeldAt(d, o4, l) /\ HeldAt(d, o8, n)
      BY <2>1, <2>2, <2>3, <2>4
  <2>6. U16(d, o) = r.type
      BY <1>1, <2>3, WordHeld
  <2>7. U16(d, o8) = len
      BY <1>1, <2>4, <2>5, WordHeld
  <2>8. Slice(d, o2, Len(c)) = c
      BY <1>2, <2>4, <2>5, HeldSlice
  <2>9. Slice(d, o4, Len(l)) = l
      BY <1>2, <2>4, <2>5, HeldSlice
  <2> QED BY <1>1, <1>2, <2>4, <2>6, <2>7, <2>8, <2>9
<1>13. Len(h) = 10
    BY <1>9, <1>10
<1> HIDE <1>9
<1> QED BY <1>7, <1>11, <1>12, <1>13

\* A record reads back with its names canonical.
LEMMA RecordWritten ==
    ASSUME NEW w, Sound(w), NEW s \in Sections, s # 1, NEW r, IsItem(s, r),
           WriteItem(w, s, r).ok, InDatagram(Len(WriteItem(w, s, r).buf)),
           NoEmptyPart(Canon(r.name)), WritesName(r) => NoEmptyPart(Canon(r.target[1]))
    PROVE  LET W == WriteItem(w, s, r)
           IN  /\ Sound(W) /\ w.ok /\ \E c \in Octets : W.buf = w.buf \o c
               /\ \A d \in Octets : HeldAt(d, 0, W.buf) =>
                     RecordReadAs(r, d, Len(w.buf), s, Len(W.buf))
<1>1. IsWhole(r) /\ IsRecord(r) /\ r.name \in Text /\ Word(r.type) /\ Len(r.class) = 2 /\ Len(r.ttl) = 4
  <2>1. IsWhole(r) /\ Word(r.type) /\ Len(r.class) = 2 /\ Len(r.ttl) = 4
      BY DEF IsItem, Word
  <2>2. IsRecord(r) /\ r.name \in Text
      BY <2>1 DEF IsWhole
  <2> QED BY <2>1, <2>2
<1>2. PICK x : x = WriteName(w, r.name)
    OBVIOUS
<1>3. PICK len : len = Len(RdataBytes(x.dict, r))
    OBVIOUS
<1>4. PICK h : h = RRHeader(len, r)
    OBVIOUS
<1>5. PICK y : y = Put(x, h)
    OBVIOUS
<1>6. PICK W : W = WriteItem(w, s, r)
    OBVIOUS
<1>7. /\ x \in Writers /\ len \in Nat /\ h \in Octets /\ y \in Writers
      /\ W = WriteRdata(y, r) /\ W \in Writers
      /\ W.ok /\ InDatagram(Len(W.buf))
  <2>1. w \in Writers
      BY DEF Sound
  <2> QED BY <1>2, <1>3, <1>4, <1>5, <1>6, <2>1, WriteRecordType
<1>8. y.buf = x.buf \o h /\ y.dict = x.dict /\ y.ok = x.ok
    BY <1>5, <1>7, PutType
<1>9. PICK a, b, g, R : a = w.buf /\ b = x.buf /\ g = y.buf /\ R = RdataBytes(x.dict, r)
    OBVIOUS
<1>10. a \in Octets /\ b \in Octets /\ g \in Octets /\ g = b \o h /\ len = Len(R)
    BY <1>3, <1>7, <1>8, <1>9 DEF Writers, Sound
<1>11. R \in Octets
  <2>1. PICK dict, z : dict = x.dict /\ z = 0
      OBVIOUS
  <2>2. dict \in Dicts /\ z \in Nat
      BY <1>7, <2>1 DEF Writers
  <2> QED BY <1>1, <1>9, <2>1, <2>2, RdataType
<1>12. y.ok /\ W.buf = g \o R
  <2>1. W = [buf |-> g \o R, dict |-> RdataDict(Len(g), y.dict, r), ok |-> y.ok /\ RdataFits(y.dict, r)]
      BY <1>1, <1>7, <1>8, <1>9, WriteRdataIs
  <2>2. PICK buf, dct, ok : /\ buf = g \o R /\ dct = RdataDict(Len(g), y.dict, r)
                            /\ ok = (y.ok /\ RdataFits(y.dict, r))
      OBVIOUS
  <2>3. W = [buf |-> buf, dict |-> dct, ok |-> ok]
      BY <2>1, <2>2
  <2>4. W.buf = buf /\ W.ok = ok
      BY <2>3
  <2> QED BY <1>7, <2>2, <2>4
<1>13. InDatagram(Len(g)) /\ \A d \in Octets : HeldAt(d, 0, W.buf) => HeldAt(d, 0, g) /\ HeldAt(d, Len(g), R)
  <2>1. InDatagram(Len(g \o R))
      BY <1>7, <1>12
  <2> QED BY <1>10, <1>11, <1>12, <2>1, WrittenBefore
<1>14. InDatagram(Len(b)) /\ \A d \in Octets : HeldAt(d, 0, g) => HeldAt(d, 0, b) /\ HeldAt(d, Len(b), h)
  <2>1. InDatagram(Len(b \o h))
      BY <1>10, <1>13
  <2> QED BY <1>7, <1>10, <2>1, WrittenBefore
<1>15. PICK c0 \in Octets : b = a \o c0
  <2>1. PICK dict, name, n : /\ dict = w.dict /\ name = Canon(r.name) /\ n = Len(a)
                             /\ dict \in Dicts /\ name \in Text /\ n \in Nat
      BY <1>1, <1>10, CanonIs, OctetsAre DEF Writers, Sound
  <2>2. NameBytes(dict, name) \in Octets
      BY <2>1, NameBytesType
  <2>3. x.buf = w.buf \o NameBytes(w.dict, Canon(r.name))
      BY <1>1, <1>2, WriteNameType DEF Sound
  <2> QED BY <1>9, <2>1, <2>2, <2>3
<1>16. InDatagram(Len(a))
    BY <1>10, <1>14, <1>15, WrittenBefore
<1>17. /\ Sound(x) /\ w.ok
       /\ \A d \in Octets : HeldAt(d, 0, b) => ParseName(d, Len(a)) = Reading(Canon(r.name), Len(b))
  <2>1. x.ok /\ InDatagram(Len(w.buf))
      BY <1>8, <1>9, <1>12, <1>16
  <2> QED BY <1>1, <1>2, <1>9, <2>1, NameReread
<1>18. Sound(y)
  <2>1. DictHeld(x.dict, b \o h)
      BY <1>7, <1>9, <1>10, <1>17, DictKept DEF Sound
  <2> QED BY <1>7, <1>8, <1>9, <1>10, <2>1 DEF Sound
<1>19. /\ Sound(W)
       /\ ~WritesName(r) => R = r.rdata
       /\ WritesName(r) => \A d \in Octets : HeldAt(d, 0, g \o R) => RdataHeld(d, Len(g), r, len)
  <2>1. R = RdataBytes(y.dict, r)
      BY <1>8, <1>9
  <2> QED BY <1>1, <1>7, <1>9, <1>10, <1>18, <2>1, RdataWritten
<1>20. \E c \in Octets : W.buf = a \o c
  <2>1. a \in Octets /\ c0 \in Octets /\ h \in Octets /\ R \in Octets
      BY <1>7, <1>10, <1>11, <1>15
  <2>2. (a \o c0) \o h = a \o (c0 \o h)
      BY <2>1, OctetsAssociate
  <2>3. PICK c1 : c1 = c0 \o h /\ c1 \in Octets
      BY <2>1, OctetsJoin
  <2>4. (a \o c1) \o R = a \o (c1 \o R)
      BY <2>1, <2>3, OctetsAssociate
  <2>5. c1 \o R \in Octets
      BY <2>1, <2>3, OctetsJoin
  <2> QED BY <1>10, <1>12, <1>15, <2>2, <2>3, <2>4, <2>5
<1>21. PICK m, n, o, l : m = Len(a) /\ n = Len(b) /\ o = Len(g) /\ l = Len(W.buf)
    OBVIOUS
<1>22. /\ m \in Nat /\ n \in Nat /\ o \in Nat /\ l \in Nat
       /\ o = n + Len(h) /\ l = o + len
  <2>1. m \in Nat /\ n \in Nat /\ o \in Nat
      BY <1>10, <1>21, OctetsAre
  <2>2. o = n + Len(h)
      BY <1>7, <1>10, <1>21, OctetsJoin
  <2>3. l = o + len
      BY <1>10, <1>11, <1>12, <1>21, OctetsJoin
  <2> QED BY <1>7, <2>1, <2>2, <2>3
<1>23. Word(len)
  <2>1. InDatagram(l)
      BY <1>7, <1>21
  <2>2. l <= 65535
      BY <2>1 DEF InDatagram, MaxDatagram
  <2> QED BY <1>7, <1>22, <2>2 DEF Word
<1>24. /\ o = n + 10
       /\ \A d \in Octets, i \in Nat : HeldAt(d, i, h) =>
             /\ U16(d, i) = r.type /\ U16(d, i + 8) = len
             /\ Slice(d, i + 2, 2) = r.class /\ Slice(d, i + 4, 4) = r.ttl
  <2>1. /\ Len(h) = 10
        /\ \A d \in Octets, i \in Nat : HeldAt(d, i, h) =>
             /\ U16(d, i) = r.type /\ U16(d, i + 8) = len
             /\ Slice(d, i + 2, 2) = r.class /\ Slice(d, i + 4, 4) = r.ttl
      BY <1>1, <1>4, <1>23, RRHeaderHeld
  <2>2. o = n + 10
      BY <1>22, <2>1
  <2> QED BY <2>1, <2>2
<1>25. ASSUME NEW d \in Octets, HeldAt(d, 0, W.buf) PROVE RecordReadAs(r, d, m, s, l)
  <2>1. HeldAt(d, 0, g) /\ HeldAt(d, o, R) /\ HeldAt(d, 0, b) /\ HeldAt(d, n, h)
      BY <1>13, <1>14, <1>21, <1>25
  <2>2. PICK p : p = ParseName(d, m) /\ p = Reading(Canon(r.name), n)
      BY <1>17, <1>21, <2>1
  <2>3. p.ok /\ p.text = Canon(r.name) /\ p.next = n
      BY <2>2, ReadingIs
  <2>4. /\ U16(d, n) = r.type /\ U16(d, n + 8) = len
        /\ Slice(d, n + 2, 2) = r.class /\ Slice(d, n + 4, 4) = r.ttl
      BY <1>22, <1>24, <2>1
  <2>5. PICK size \in Nat : size = Len(d)
      BY OctetsAre
  <2>6. o + len <= size
      BY <1>10, <2>1, <2>5 DEF HeldAt
  <2>7. n + 10 + len <= size /\ ~(n + 10 > size) /\ n + 10 + len = l /\ n + 10 = o
    <3>1. n \in Nat /\ len \in Nat /\ o = n + 10 /\ l = o + len
        BY <1>7, <1>22, <1>24
    <3>2. n + 10 + len <= size
        BY <2>6, <3>1
    <3>3. ~(n + 10 > size)
        BY <2>5, <3>1, <3>2
    <3>4. n + 10 + len = l
        BY <3>1
    <3> QED BY <3>1, <3>2, <3>3, <3>4
  <2>8. PICK r2 : r2 = RRFields(d, Canon(r.name), n, r.type, len)
      OBVIOUS
  <2>9. RRWith(d, Canon(r.name), n, r.type, len) = Parsed(r2, l)
    <3>1. PICK name, type : name = Canon(r.name) /\ type = r.type
        OBVIOUS
    <3>2. n + 10 + len <= Len(d)
        BY <2>5, <2>7
    <3>3. RRWith(d, name, n, type, len) =
             [ok |-> TRUE, next |-> n + 10 + len, item |-> RRFields(d, name, n, type, len)]
        BY <1>7, <1>22, <3>2, RRWithIs
    <3> QED BY <2>7, <2>8, <3>1, <3>3 DEF Parsed
  <2>10. RRAfter(d, p) = RRWith(d, Canon(r.name), n, r.type, len)
      BY <2>3, <2>4, <2>5, <2>7 DEF RRAfter
  <2>11. ParseItem(d, m, s) = Parsed(r2, l)
      BY <2>2, <2>9, <2>10 DEF ParseItem
  <2>12. Slice(d, o, len) = R
      BY <1>10, <1>11, <1>22, <2>1, HeldSlice
  <2>13. r2 = [name |-> Canon(r.name), type |-> r.type, class |-> r.class, ttl |-> r.ttl,
               rdata |-> R, target |-> TargetName(d, o, len, r.type),
               summary |-> RdataSummary(d, o, len, r.type)]
      BY <2>4, <2>7, <2>8, <2>12 DEF RRFields
  <2>14. /\ r2.name = Canon(r.name) /\ r2.type = r.type /\ r2.class = r.class /\ r2.ttl = r.ttl
         /\ r2.rdata = R /\ r2.target = TargetName(d, o, len, r.type)
         /\ r2.summary = RdataSummary(d, o, len, r.type) /\ IsRR(r2)
      BY <2>13 DEF IsRR
  <2>15. RecordRead(r2, r, d, o, R)
      BY <1>10, <1>11, <1>12, <1>19, <1>21, <1>22, <1>25, <2>1, <2>14 DEF RecordRead
  <2> QED BY <2>11, <2>15 DEF RecordReadAs
<1> QED BY <1>6, <1>9, <1>17, <1>19, <1>20, <1>21, <1>25

\* What a reader sees of a summary, case apart.
SeenSummary(sm) == [k \in DOMAIN sm |-> [sm[k] EXCEPT !.names = CanonAll(@)]]

\* The receiver sees a name in its canonical form.
LEMMA SummarySeen ==
    ASSUME NEW t, NEW rest
    PROVE  /\ SeenSummary(Summary(<<t>>, rest)) = Summary(<<Canon(t)>>, rest)
           /\ CanonAll(<<t>>) = <<Canon(t)>>
<1>1. PICK names, c : names = <<t>> /\ c = <<Canon(t)>>
    OBVIOUS
<1>2. CanonAll(names) = c
    BY <1>1 DEF CanonAll
<1>3. PICK m : m = [names |-> names, rest |-> rest]
    OBVIOUS
<1>4. m.names = names
    BY <1>3
<1>5. [m EXCEPT !.names = c] = [names |-> c, rest |-> rest]
    BY <1>3
<1>6. [m EXCEPT !.names = CanonAll(@)] = [names |-> c, rest |-> rest]
    BY <1>2, <1>4, <1>5
<1>7. PICK m2 : m2 = [names |-> c, rest |-> rest]
    OBVIOUS
<1>8. \A k \in {1} : <<m>>[k] = m
    OBVIOUS
<1>9. SeenSummary(<<m>>) = [k \in {1} |-> m2]
  <2>1. DOMAIN <<m>> = {1}
      OBVIOUS
  <2>2. \A k \in {1} : [<<m>>[k] EXCEPT !.names = CanonAll(@)] = m2
      BY <1>6, <1>7, <1>8
  <2> QED BY <2>1, <2>2, Zenon DEF SeenSummary
<1>10. [k \in {1} |-> m2] = <<m2>>
    OBVIOUS
<1>11. Summary(names, rest) = <<m>> /\ Summary(c, rest) = <<m2>>
    BY <1>3, <1>7 DEF Summary
<1> QED BY <1>1, <1>2, <1>9, <1>10, <1>11

\* A written target is read, with the data before it.
LEMMA WrittenTarget ==
    ASSUME NEW r, NEW d0, NEW o0, NEW len, FromPacket(r, d0, o0, len),
           IsRecord(r), WritesName(r),
           NEW r2, NEW d \in Octets, NEW o, NEW R, RecordRead(r2, r, d, o, R)
    PROVE  \E t \in Text :
              /\ r.target = <<t>> /\ r.summary = Summary(<<t>>, RdataHead(r))
              /\ r2.target = <<Canon(t)>> /\ r2.summary = Summary(<<Canon(t)>>, RdataHead(r))
              /\ RdataHead(r2) = RdataHead(r)
<1>1. PICK type, head, n : type = r.type /\ head = RdataHead(r) /\ n = Len(R)
    OBVIOUS
<1>2. /\ o \in Nat /\ R \in Octets /\ n \in Nat /\ HeldAt(d, o, R)
      /\ r2.type = type /\ r2.rdata = R
      /\ r2.target = TargetName(d, o, n, type) /\ r2.summary = RdataSummary(d, o, n, type)
    BY <1>1, OctetsAre DEF RecordRead
<1>3. /\ Slice(d, o, Len(head)) = head /\ n > Len(head)
      /\ NameAt(d, o + Len(head)) = <<Canon(r.target[1])>>
    BY <1>1 DEF RecordRead, RdataHeld
<1>4. /\ r.target = TargetName(d0, o0, len, type) /\ r.summary = RdataSummary(d0, o0, len, type)
      /\ r.target # <<>> /\ type \in {PTR, SRV} /\ r.target \in Seq(Text)
      /\ d0 \in Octets /\ o0 \in Nat /\ len \in Nat /\ o0 + len <= Len(d0)
      /\ r.rdata = Slice(d0, o0, len)
    BY <1>1 DEF FromPacket, WritesName, IsRecord
<1>5. ASSUME NEW i, NameAt(d0, i) # <<>>, r.target = NameAt(d0, i)
      PROVE  \E t \in Text : r.target = <<t>>
  <2>1. PICK t : t = ParseName(d0, i).text
      OBVIOUS
  <2>2. r.target = <<t>>
      BY <1>5, <2>1 DEF NameAt, Found
  <2>3. 1 \in DOMAIN r.target /\ r.target[1] = t
      BY <2>2
  <2>4. t \in Text
      BY <1>4, <2>3
  <2> QED BY <2>2, <2>4
<1>6. CASE type = PTR
  <2>1. \A e, i, l : /\ TargetName(e, i, l, type) = NameAt(e, i)
                     /\ RdataSummary(e, i, l, type) = Named(NameAt(e, i), <<>>)
      BY <1>6 DEF TargetName, RdataSummary, PTR, SRV, A, AAAA, NS, CNAME, NSEC, TXT
  <2>2. head = <<>> /\ Len(head) = 0
      BY <1>1, <1>6 DEF RdataHead, PTR, SRV
  <2>3. PICK t \in Text : r.target = <<t>>
      BY <1>4, <1>5, <2>1
  <2>4. NameAt(d, o) = <<Canon(t)>>
    <3>1. o + 0 = o
        BY <1>2
    <3>2. r.target[1] = t
        BY <2>3
    <3> QED BY <1>3, <2>2, <3>1, <3>2
  <2>5. \A x : <<x>> # <<>>
      OBVIOUS
  <2>6. r.summary = Summary(<<t>>, <<>>)
      BY <1>4, <2>1, <2>3, <2>5, Zenon DEF Named
  <2>7. r2.target = <<Canon(t)>>
      BY <1>2, <2>1, <2>4, Zenon
  <2>8. r2.summary = Summary(<<Canon(t)>>, <<>>)
      BY <1>2, <2>1, <2>4, <2>5, Zenon DEF Named
  <2>9. RdataHead(r2) = <<>>
      BY <1>2, <1>6 DEF RdataHead, PTR, SRV
  <2> QED BY <1>1, <2>2, <2>3, <2>6, <2>7, <2>8, <2>9
<1>7. CASE type = SRV
  <2>1. len > 6
    <3> SUFFICES ASSUME ~(len > 6) PROVE FALSE
        OBVIOUS
    <3>1. TargetName(d0, o0, len, type) = <<>>
        BY <1>7 DEF TargetName, PTR, SRV
    <3> QED BY <1>4, <3>1
  <2>2. \A e, i, l : l > 6 =>
            /\ TargetName(e, i, l, type) = NameAt(e, i + 6)
            /\ RdataSummary(e, i, l, type) = Named(NameAt(e, i + 6), Slice(e, i, 6))
      BY <1>7 DEF TargetName, RdataSummary, PTR, SRV, A, AAAA, NS, CNAME, NSEC, TXT
  <2>3. head = Fixed(r.rdata) /\ Len(head) = 6
    <3>1. r.rdata \in Octets
        BY DEF IsRecord
    <3> QED BY <1>1, <1>7, <3>1, FixedType DEF RdataHead
  <2>4. PICK t \in Text : r.target = <<t>>
      BY <1>4, <1>5, <2>1, <2>2
  <2>5. NameAt(d, o + 6) = <<Canon(t)>> /\ n > 6 /\ Slice(d, o, 6) = head
    <3>1. r.target[1] = t
        BY <2>4
    <3> QED BY <1>3, <2>3, <3>1
  <2>6. \A rd \in Octets : Len(rd) > 6 => Fixed(rd) = Slice(rd, 0, 6)
    <3>1. ASSUME NEW rd \in Octets, Len(rd) > 6 PROVE Fixed(rd) = Slice(rd, 0, 6)
      <4>1. Len(rd) >= 6
        <5>1. Len(rd) \in Nat
            BY OctetsAre
        <5> QED BY <3>1, <5>1
      <4>2. 0 + 1 = 1 /\ 0 + 6 = 6
          OBVIOUS
      <4> QED BY <4>1, <4>2 DEF Fixed, Slice
    <3> QED BY <3>1
  <2>7. head = Slice(d0, o0, 6)
    <3>1. PICK rd : rd = r.rdata /\ rd \in Octets /\ Len(rd) = len
        BY <1>4, SliceType
    <3>2. head = Slice(rd, 0, 6)
        BY <2>1, <2>3, <2>6, <3>1
    <3>3. HeldAt(d0, o0, rd)
      <4>1. \A k \in 1..len : rd[k] = d0[o0 + k]
          BY <1>4, <3>1, SliceType
      <4> QED BY <1>4, <3>1, <4>1 DEF HeldAt
    <3>4. PICK z, k : z = 0 /\ k = 6 /\ z \in Nat /\ k \in Nat /\ z + k <= len /\ o0 + z = o0
        BY <1>4, <2>1
    <3>5. Slice(d0, o0 + z, k) = Slice(rd, z, k)
        BY <1>4, <3>1, <3>3, <3>4, HeldCut
    <3> QED BY <3>2, <3>4, <3>5
  <2>8. Fixed(R) = head
    <3>1. Fixed(R) = Slice(R, 0, 6)
        BY <1>1, <1>2, <2>5, <2>6
    <3>2. PICK z, k : z = 0 /\ k = 6 /\ z \in Nat /\ k \in Nat /\ z + k <= n /\ o + z = o
        BY <1>2, <2>5
    <3>3. Slice(d, o + z, k) = Slice(R, z, k)
        BY <1>1, <1>2, <3>2, HeldCut
    <3> QED BY <2>5, <3>1, <3>2, <3>3
  <2>9. \A x : <<x>> # <<>>
      OBVIOUS
  <2>10. r.summary = Summary(<<t>>, head)
    <3>1. NameAt(d0, o0 + 6) = <<t>> /\ r.summary = Named(NameAt(d0, o0 + 6), Slice(d0, o0, 6))
        BY <1>4, <2>1, <2>2, <2>4
    <3> QED BY <2>7, <2>9, <3>1, Zenon DEF Named
  <2>11. r2.target = <<Canon(t)>> /\ r2.summary = Named(<<Canon(t)>>, head)
    <3>1. r2.target = NameAt(d, o + 6) /\ r2.summary = Named(NameAt(d, o + 6), Slice(d, o, 6))
        BY <1>2, <2>2, <2>5
    <3> QED BY <2>5, <3>1, Zenon
  <2>12. r2.summary = Summary(<<Canon(t)>>, head)
      BY <2>9, <2>11, Zenon DEF Named
  <2>13. RdataHead(r2) = head
      BY <1>2, <1>7, <2>8 DEF RdataHead
  <2> QED BY <1>1, <2>4, <2>10, <2>11, <2>12, <2>13
<1> QED BY <1>4, <1>6, <1>7

\* Two items that are written the same.
Same(s, i2, i) ==
    /\ Canon(i2.name) = Canon(i.name) /\ i2.type = i.type /\ i2.class = i.class
    /\ s # 1 => /\ i2.ttl = i.ttl /\ (WritesName(i2) <=> WritesName(i))
                /\ WritesName(i) => /\ Canon(i2.target[1]) = Canon(i.target[1])
                                    /\ RdataHead(i2) = RdataHead(i)
                /\ ~WritesName(i) => i2.rdata = i.rdata

\* Items that differ only in what serialize never looks at are written the same.
LEMMA WritesSame ==
    ASSUME NEW w \in Writers, NEW s \in Sections, NEW i2, NEW i, IsItem(s, i2), IsItem(s, i),
           Same(s, i2, i)
    PROVE  WriteItem(w, s, i2) = WriteItem(w, s, i)
<1>1. WriteName(w, i2.name) = WriteName(w, i.name)
    BY DEF WriteName, Same
<1>2. CASE s = 1
    BY <1>1, <1>2 DEF WriteItem, WriteQuestion, Same
<1>3. CASE s # 1
  <2>1. PICK x : x = WriteName(w, i.name) /\ x \in Writers
    <3>1. i.name \in Text
        BY DEF IsItem
    <3> QED BY <3>1, WriteNameType
  <2>2. IsWhole(i) /\ IsRecord(i) /\ IsWhole(i2) /\ IsRecord(i2)
    <3>1. IsWhole(i) /\ IsWhole(i2)
        BY <1>3 DEF IsItem
    <3> QED BY <3>1 DEF IsWhole
  <2>3. ASSUME NEW dict, NEW l
        PROVE  /\ RdataBytes(dict, i2) = RdataBytes(dict, i)
               /\ RdataDict(l, dict, i2) = RdataDict(l, dict, i)
               /\ RdataFits(dict, i2) = RdataFits(dict, i)
    <3>1. CASE WritesName(i)
        BY <1>3, <3>1 DEF Same, RdataBytes, RdataDict, RdataFits
    <3>2. CASE ~WritesName(i)
        BY <1>3, <3>2 DEF Same, RdataBytes, RdataDict, RdataFits
    <3> QED BY <3>1, <3>2
  <2>4. ASSUME NEW z \in Writers PROVE WriteRdata(z, i2) = WriteRdata(z, i)
    <3>1. WriteRdata(z, i2) = [buf |-> z.buf \o RdataBytes(z.dict, i2),
                               dict |-> RdataDict(Len(z.buf), z.dict, i2),
                               ok |-> z.ok /\ RdataFits(z.dict, i2)]
        BY <2>2, WriteRdataIs
    <3>2. WriteRdata(z, i) = [buf |-> z.buf \o RdataBytes(z.dict, i),
                              dict |-> RdataDict(Len(z.buf), z.dict, i),
                              ok |-> z.ok /\ RdataFits(z.dict, i)]
        BY <2>2, WriteRdataIs
    <3> QED BY <2>3, <3>1, <3>2
  <2>5. RRHead(i2) = RRHead(i)
      BY <1>3 DEF RRHead, Same
  <2>6. PICK len, h : /\ len = Len(RdataBytes(x.dict, i)) /\ h = RRHeader(len, i)
      OBVIOUS
  <2>7. Put(x, h) \in Writers /\ WriteItem(w, s, i) = WriteRdata(Put(x, h), i)
      BY <1>3, <2>1, <2>6, WriteRecordType
  <2>8. WriteItem(w, s, i2) = WriteRdata(Put(x, h), i2)
    <3>1. len = Len(RdataBytes(x.dict, i2)) /\ h = RRHeader(len, i2) /\ x = WriteName(w, i2.name)
        BY <1>1, <2>1, <2>3, <2>5, <2>6 DEF RRHeader
    <3> QED BY <1>3, <3>1, WriteRecordType
  <2> QED BY <2>4, <2>7, <2>8
<1> QED BY <1>2, <1>3

\* What is read for a record is written the same, unless it now has a target.
LEMMA RecordSame ==
    ASSUME NEW r, NEW d0, NEW o0, NEW len, FromPacket(r, d0, o0, len), NEW s,
           IsItem(s, r), s # 1, r.type \in {PTR, SRV} => ~NeedsPacket(r),
           NEW r2, NEW d \in Octets, NEW o, NEW R, RecordRead(r2, r, d, o, R)
    PROVE  Same(s, r2, r)
<1>1. /\ r2.name = Canon(r.name) /\ r2.type = r.type /\ r2.class = r.class /\ r2.ttl = r.ttl
      /\ r2.rdata = R /\ r2.target = TargetName(d, o, Len(R), r.type)
      /\ o \in Nat /\ R \in Octets /\ HeldAt(d, o, R)
      /\ ~WritesName(r) => R = r.rdata
    BY DEF RecordRead
<1>2. IsWhole(r) /\ IsRecord(r) /\ r.name \in Text /\ IsRR(r)
  <2>1. IsWhole(r) /\ r.name \in Text /\ IsRR(r)
      BY DEF IsItem
  <2> QED BY <2>1 DEF IsWhole
<1>3. Canon(r2.name) = Canon(r.name)
    BY <1>1, <1>2, CanonIs
<1>4. CASE WritesName(r)
  <2>1. PICK t \in Text : /\ r.target = <<t>> /\ r2.target = <<Canon(t)>>
                          /\ RdataHead(r2) = RdataHead(r)
      BY <1>2, <1>4, WrittenTarget
  <2>2. r.target[1] = t /\ r2.target[1] = Canon(t) /\ r2.target # <<>>
      BY <2>1
  <2>3. Canon(Canon(t)) = Canon(t)
      BY CanonIs
  <2>4. WritesName(r2)
      BY <1>1, <1>4, <2>2 DEF WritesName
  <2> QED BY <1>1, <1>3, <1>4, <2>1, <2>2, <2>3, <2>4 DEF Same
<1>5. CASE ~WritesName(r)
  <2>1. R = r.rdata
      BY <1>1, <1>5
  <2>2. Len(R) = len
    <3>1. r.rdata = Slice(d0, o0, len) /\ d0 \in Octets /\ o0 \in Nat /\ len \in Nat
          /\ o0 + len <= Len(d0)
        BY DEF FromPacket
    <3> QED BY <2>1, <3>1, SliceType
  <2>3. ~WritesName(r2)
    <3>1. CASE r.type \in {PTR, SRV}
      <4>1. TargetName(d, o, len, r.type) = r.target
        <5>1. HeldAt(d, o, r.rdata) /\ r.rdata \in Octets /\ ~NeedsPacket(r)
            BY <1>1, <2>1, <3>1
        <5> QED BY <1>1, <1>2, <1>5, <5>1, CopiedRdata
      <4> QED BY <1>1, <1>5, <2>2, <4>1 DEF WritesName
    <3>2. CASE r.type \notin {PTR, SRV}
        BY <1>1, <3>2 DEF WritesName
    <3> QED BY <3>1, <3>2
  <2> QED BY <1>1, <1>3, <1>5, <2>1, <2>3 DEF Same
<1> QED BY <1>4, <1>5

\* What is read for a record looks the same, unless it needs the packet.
LEMMA RecordViewed ==
    ASSUME NEW r, NEW d0, NEW o0, NEW len, FromPacket(r, d0, o0, len), NEW s,
           IsItem(s, r), s # 1, ~NeedsPacket(r),
           NEW r2, NEW d \in Octets, NEW o, NEW R, RecordRead(r2, r, d, o, R)
    PROVE  View(r2) = View(r)
<1>1. /\ r2.name = Canon(r.name) /\ r2.type = r.type /\ r2.class = r.class /\ r2.ttl = r.ttl
      /\ r2.rdata = R /\ r2.target = TargetName(d, o, Len(R), r.type)
      /\ r2.summary = RdataSummary(d, o, Len(R), r.type)
      /\ o \in Nat /\ R \in Octets /\ HeldAt(d, o, R) /\ IsRR(r2)
      /\ ~WritesName(r) => R = r.rdata
    BY DEF RecordRead
<1>2. IsWhole(r) /\ IsRecord(r) /\ r.name \in Text /\ IsRR(r)
  <2>1. IsWhole(r) /\ r.name \in Text /\ IsRR(r)
      BY DEF IsItem
  <2> QED BY <2>1 DEF IsWhole
<1>3. Canon(r2.name) = Canon(r.name)
    BY <1>1, <1>2, CanonIs
<1>4. /\ CanonAll(r2.target) = CanonAll(r.target) /\ SeenSummary(r2.summary) = SeenSummary(r.summary)
      /\ (IF r2.target = <<>> THEN r2.rdata ELSE <<>>) = (IF r.target = <<>> THEN r.rdata ELSE <<>>)
  <2>1. CASE WritesName(r)
    <3>0. PICK t \in Text :
             /\ r.target = <<t>> /\ r.summary = Summary(<<t>>, RdataHead(r))
             /\ r2.target = <<Canon(t)>> /\ r2.summary = Summary(<<Canon(t)>>, RdataHead(r))
        BY <1>2, <2>1, WrittenTarget
    <3>1. PICK head : /\ head = RdataHead(r)
                      /\ r.target = <<t>> /\ r.summary = Summary(<<t>>, head)
                      /\ r2.target = <<Canon(t)>> /\ r2.summary = Summary(<<Canon(t)>>, head)
        BY <3>0
    <3>2. PICK c : c = Canon(t) /\ Canon(c) = c
        BY <3>1, CanonIs
    <3>3. /\ CanonAll(<<t>>) = <<c>> /\ CanonAll(<<c>>) = <<c>>
          /\ SeenSummary(Summary(<<t>>, head)) = Summary(<<c>>, head)
          /\ SeenSummary(Summary(<<c>>, head)) = Summary(<<c>>, head)
        BY <3>2, SummarySeen
    <3>4. \A x : <<x>> # <<>>
        OBVIOUS
    <3> QED BY <3>1, <3>2, <3>3, <3>4, Zenon
  <2>2. CASE ~WritesName(r)
    <3>1. R = r.rdata
        BY <1>1, <2>2
    <3>2. Len(R) = len
      <4>1. r.rdata = Slice(d0, o0, len) /\ d0 \in Octets /\ o0 \in Nat /\ len \in Nat
            /\ o0 + len <= Len(d0)
          BY DEF FromPacket
      <4> QED BY <3>1, <4>1, SliceType
    <3>3. TargetName(d, o, len, r.type) = r.target /\ RdataSummary(d, o, len, r.type) = r.summary
      <4>1. HeldAt(d, o, r.rdata) /\ r.rdata \in Octets
          BY <1>1, <3>1
      <4> QED BY <1>1, <1>2, <2>2, <4>1, CopiedRdata
    <3> QED BY <1>1, <3>1, <3>2, <3>3
  <2> QED BY <2>1, <2>2
<1>5. \A i : IsRR(i) => View(i) = <<Canon(i.name), i.type, i.class, i.ttl, CanonAll(i.target),
                                    SeenSummary(i.summary),
                                    IF i.target = <<>> THEN i.rdata ELSE <<>>>>
    BY DEF View, SeenSummary
<1> HIDE DEF View
<1>6. View(r2) = <<Canon(r2.name), r2.type, r2.class, r2.ttl, CanonAll(r2.target),
                   SeenSummary(r2.summary),
                   IF r2.target = <<>> THEN r2.rdata ELSE <<>>>>
    BY <1>1, <1>5
<1>7. View(r) = <<Canon(r.name), r.type, r.class, r.ttl, CanonAll(r.target),
                  SeenSummary(r.summary),
                  IF r.target = <<>> THEN r.rdata ELSE <<>>>>
    BY <1>2, <1>5
<1> QED BY <1>1, <1>3, <1>4, <1>6, <1>7

\* A record that parsed was parsed somewhere in its packet.
LEMMA ItemFromPacket ==
    ASSUME NEW d \in Octets, NEW s, s # 1, NEW item \in ParsedItems(d, s)
    PROVE  \E o, len : FromPacket(item, d, o, len)
<1>1. PICK i \in Nat : ParseItem(d, i, s).ok /\ item = ParseItem(d, i, s).item
    BY DEF ParsedItems
<1>2. PICK n : n = ParseName(d, i)
    OBVIOUS
<1>3. PICK k, type, len, l, name : /\ k = n.next /\ type = U16(d, n.next) /\ len = U16(d, n.next + 8)
                                   /\ l = Len(d) /\ name = n.text
    OBVIOUS
<1>4. k \in Nat /\ l \in Nat
    BY <1>2, <1>3, NameTextIs, OctetsAre
<1>5. k + 10 + len <= l /\ len \in Nat /\ ParseItem(d, i, s) = RRWith(d, name, k, type, len)
    BY <1>1, <1>2, <1>3, RecordIs
<1>6. RRWith(d, name, k, type, len) =
         [ok |-> TRUE, next |-> k + 10 + len, item |-> RRFields(d, name, k, type, len)]
  <2>1. k \in Nat /\ len \in Nat /\ k + 10 + len <= Len(d)
      BY <1>3, <1>4, <1>5
  <2> QED BY <2>1, RRWithIs
<1>7. item = RRFields(d, name, k, type, len)
    BY <1>1, <1>5, <1>6
<1>8. PICK o : o = k + 10
    OBVIOUS
<1>9. /\ item.type = type /\ item.rdata = Slice(d, o, len)
      /\ item.target = TargetName(d, o, len, type) /\ item.summary = RdataSummary(d, o, len, type)
    BY <1>7, <1>8 DEF RRFields
<1>10. o \in Nat /\ o + len <= Len(d)
    BY <1>3, <1>4, <1>5, <1>8
<1> QED BY <1>5, <1>9, <1>10 DEF FromPacket

-----------------------------------------------------------------------------
(* What is read of a section *)

\* x is what w has become after more is written.
After(w, x) ==
    /\ w \in Writers /\ x \in Writers /\ (x.ok => w.ok)
    /\ \E c \in Octets : x.buf = w.buf \o c

\* A writer has come to itself.
LEMMA AfterSelf == \A w \in Writers : After(w, w)
<1> SUFFICES ASSUME NEW w \in Writers PROVE After(w, w)
    OBVIOUS
<1>1. PICK b, e : b = w.buf /\ b \in Octets /\ e = <<>> /\ e \in Octets
  <2>1. w.buf \in Octets
      BY DEF Writers
  <2>2. <<>> \in Octets
      BY DEF Octets
  <2> QED BY <2>1, <2>2
<1>2. b \o e = b
    BY <1>1 DEF Octets
<1> QED BY <1>1, <1>2 DEF After

\* Writing on is transitive.
LEMMA AfterAfter ==
    ASSUME NEW w, NEW x, NEW y, After(w, x), After(x, y)
    PROVE  After(w, y)
<1>1. PICK a, b, e : a = w.buf /\ b = x.buf /\ e = y.buf /\ a \in Octets
    BY DEF After, Writers
<1>2. PICK c \in Octets : b = a \o c
    BY <1>1 DEF After
<1>3. PICK c2 \in Octets : e = b \o c2
    BY <1>1 DEF After
<1>4. (a \o c) \o c2 = a \o (c \o c2) /\ c \o c2 \in Octets
    BY <1>1, OctetsAssociate, OctetsJoin
<1> QED BY <1>1, <1>2, <1>3, <1>4 DEF After

\* What a writer has written is held in all that comes after, and failed before is failed
\* after.
LEMMA AfterHeld ==
    ASSUME NEW w, NEW x, After(w, x), x.ok, InDatagram(Len(x.buf))
    PROVE  /\ w.ok /\ InDatagram(Len(w.buf))
           /\ \A d \in Octets : HeldAt(d, 0, x.buf) => HeldAt(d, 0, w.buf)
<1>1. PICK a, b : a = w.buf /\ b = x.buf /\ a \in Octets
    BY DEF After, Writers
<1>2. PICK c \in Octets : b = a \o c
    BY <1>1 DEF After
<1>3. InDatagram(Len(a \o c))
    BY <1>1, <1>2
<1>4. InDatagram(Len(a)) /\ \A d \in Octets : HeldAt(d, 0, a \o c) => HeldAt(d, 0, a)
    BY <1>1, <1>3, WrittenBefore
<1> QED BY <1>1, <1>2, <1>4 DEF After

\* Writing a name only appends.
LEMMA NameAfter == \A w \in Writers : \A t \in Text : After(w, WriteName(w, t))
<1> SUFFICES ASSUME NEW w \in Writers, NEW t \in Text PROVE After(w, WriteName(w, t))
    OBVIOUS
<1>1. PICK dict, name, n : /\ dict = w.dict /\ name = Canon(t) /\ n = Len(w.buf)
                           /\ dict \in Dicts /\ name \in Text /\ n \in Nat
    BY CanonIs, OctetsAre DEF Writers
<1>2. NameBytes(dict, name) \in Octets
    BY <1>1, NameBytesType
<1> QED BY <1>1, <1>2, WriteNameType DEF After

\* Putting bytes only appends.
LEMMA PutAfter == \A w \in Writers : \A c \in Octets : After(w, Put(w, c))
    BY PutType DEF After

\* Writing an item only appends.
LEMMA ItemAfter ==
    ASSUME NEW w \in Writers, NEW s \in Sections, NEW item, IsItem(s, item)
    PROVE  After(w, WriteItem(w, s, item))
<1>1. item.name \in Text
    BY DEF IsItem
<1>2. PICK x : x = WriteName(w, item.name) /\ x \in Writers /\ After(w, x)
    BY <1>1, WriteNameType, NameAfter
<1>3. CASE s = 1
  <2>1. After(x, WriteItem(w, s, item))
      BY <1>2, <1>3, WriteQuestionType, PutAfter
  <2> QED BY <1>2, <2>1, AfterAfter
<1>4. CASE s # 1
  <2>1. PICK h, y : /\ h = RRHeader(Len(RdataBytes(x.dict, item)), item) /\ y = Put(x, h)
                    /\ h \in Octets /\ y \in Writers
                    /\ WriteItem(w, s, item) = WriteRdata(y, item)
      BY <1>2, <1>4, WriteRecordType
  <2>2. After(x, y)
      BY <1>2, <2>1, PutAfter
  <2>3. IsRecord(item)
    <3>1. IsWhole(item)
        BY <1>4 DEF IsItem
    <3> QED BY <3>1 DEF IsWhole
  <2>4. PICK dict, R : dict = y.dict /\ dict \in Dicts /\ R = RdataBytes(dict, item) /\ R \in Octets
    <3>1. PICK dict, z : dict = y.dict /\ dict \in Dicts /\ z = 0 /\ z \in Nat
        BY <2>1 DEF Writers
    <3>2. RdataBytes(dict, item) \in Octets
        BY <2>3, <3>1, RdataType
    <3> QED BY <3>1, <3>2
  <2>5. PICK z : z = WriteRdata(y, item) /\ z \in Writers /\ z.buf = y.buf \o R /\ (z.ok => y.ok)
    <3>1. PICK buf, dct, ok : /\ buf = y.buf \o R /\ dct = RdataDict(Len(y.buf), dict, item)
                              /\ ok = (y.ok /\ RdataFits(dict, item))
        OBVIOUS
    <3>2. PICK z : z = WriteRdata(y, item)
        OBVIOUS
    <3>3. z \in Writers /\ z = [buf |-> buf, dict |-> dct, ok |-> ok]
        BY <2>1, <2>3, <2>4, <3>1, <3>2, WriteRdataIs
    <3>4. z.buf = buf /\ z.ok = ok
        BY <3>3
    <3> QED BY <3>1, <3>2, <3>3, <3>4
  <2>6. After(y, z)
      BY <2>1, <2>4, <2>5 DEF After
  <2>7. After(w, z)
      BY <1>2, <2>2, <2>6, AfterAfter
  <2> QED BY <2>1, <2>5, <2>7
<1> QED BY <1>3, <1>4

\* No name of an item has an empty part.
Clear(item) == \A n \in NamesIn(item) : NoEmptyPart(Canon(n))

\* i2 is what is read for an item.
ItemRead(s, item, i2) ==
    /\ ~NeedsPacket(item) => View(i2) = View(item)
    /\ (item.type \in {PTR, SRV} => ~NeedsPacket(item)) => Same(s, i2, item)

\* A question read back is the one written, as the receiver sees it.
LEMMA QuestionViewed ==
    ASSUME NEW q, IsItem(1, q), IsItem(1, QuestionRead(q))
    PROVE  ItemRead(1, q, QuestionRead(q))
<1>1. PICK i2 : i2 = QuestionRead(q) /\ IsItem(1, i2)
    OBVIOUS
<1>2. i2.name = Canon(q.name) /\ i2.type = q.type /\ i2.class = q.class
    BY <1>1 DEF QuestionRead
<1>3. Canon(i2.name) = Canon(q.name)
  <2>1. q.name \in Text
      BY DEF IsItem
  <2> QED BY <1>2, <2>1, CanonIs
<1>4. ~IsRR(q) /\ ~IsRR(i2)
    BY <1>1 DEF IsItem
<1>5. View(i2) = View(q)
    BY <1>2, <1>3, <1>4 DEF View
<1>6. Same(1, i2, q)
    BY <1>2, <1>3 DEF Same
<1> QED BY <1>1, <1>5, <1>6 DEF ItemRead

\* An item that is written is read where it was written.
LEMMA ItemWritten ==
    ASSUME NEW w, Sound(w), NEW s \in Sections, NEW d0 \in Octets, NEW item \in ParsedItems(d0, s),
           Clear(item), WriteItem(w, s, item).ok, InDatagram(Len(WriteItem(w, s, item).buf))
    PROVE  LET W == WriteItem(w, s, item)
           IN  /\ Sound(W)
               /\ \A d \in Octets : HeldAt(d, 0, W.buf) =>
                     \E i2 \in ParsedItems(d, s) :
                        /\ ParseItem(d, Len(w.buf), s) = Parsed(i2, Len(W.buf))
                        /\ ItemRead(s, item, i2)
<1>1. PICK W, o, l : W = WriteItem(w, s, item) /\ o = Len(w.buf) /\ l = Len(W.buf)
    OBVIOUS
<1>2. IsItem(s, item) /\ o \in Nat
  <2>1. w.buf \in Octets
      BY DEF Sound, Writers
  <2>2. IsItem(s, item)
      BY ItemsAre DEF AllItems
  <2> QED BY <1>1, <2>1, <2>2, OctetsAre
<1>3. item.name \in NamesIn(item)
    BY DEF NamesIn
<1>4. NoEmptyPart(Canon(item.name))
    BY <1>3 DEF Clear
<1>5. ASSUME NEW d \in Octets, NEW i2, ParseItem(d, o, s) = Parsed(i2, l)
      PROVE  i2 \in ParsedItems(d, s) /\ IsItem(s, i2)
  <2>1. ParseItem(d, o, s).ok /\ ParseItem(d, o, s).item = i2
      BY <1>5 DEF Parsed
  <2>2. i2 \in ParsedItems(d, s)
      BY <1>2, <2>1 DEF ParsedItems
  <2> QED BY <2>2, ItemsAre DEF AllItems
<1>6. CASE s = 1
  <2>1. /\ Sound(W)
        /\ \A d \in Octets : HeldAt(d, 0, W.buf) => ParseItem(d, o, 1) = Parsed(QuestionRead(item), l)
    <3>1. /\ IsItem(1, item) /\ WriteItem(w, 1, item).ok
          /\ InDatagram(Len(WriteItem(w, 1, item).buf)) /\ W = WriteItem(w, 1, item)
        BY <1>1, <1>2, <1>6
    <3> QED BY <1>1, <1>4, <3>1, QuestionWritten
  <2>2. ASSUME NEW d \in Octets, HeldAt(d, 0, W.buf)
        PROVE  \E i2 \in ParsedItems(d, s) : ParseItem(d, o, s) = Parsed(i2, l) /\ ItemRead(s, item, i2)
    <3>1. PICK i2 : i2 = QuestionRead(item) /\ ParseItem(d, o, s) = Parsed(i2, l)
        BY <1>6, <2>1, <2>2
    <3>2. i2 \in ParsedItems(d, s) /\ IsItem(s, i2)
        BY <1>5, <3>1
    <3>3. ItemRead(s, item, i2)
        BY <1>2, <1>6, <3>1, <3>2, QuestionViewed
    <3> QED BY <3>1, <3>2, <3>3
  <2> QED BY <1>1, <2>1, <2>2
<1>7. CASE s # 1
  <2>1. WritesName(item) => NoEmptyPart(Canon(item.target[1]))
    <3> SUFFICES ASSUME WritesName(item) PROVE NoEmptyPart(Canon(item.target[1]))
        OBVIOUS
    <3>1. item.target \in Seq(Text) /\ item.target # <<>>
        BY <1>2, <1>7 DEF IsItem, IsWhole, IsRecord, WritesName
    <3>2. PICK n \in Text : n = item.target[1] /\ n \in ToSet(item.target)
      <4>1. 1 \in DOMAIN item.target
          BY <3>1
      <4> QED BY <3>1, <4>1, ToSetIs
    <3>3. n \in NamesIn(item)
        BY <1>2, <1>7, <3>2 DEF IsItem, NamesIn
    <3> QED BY <3>2, <3>3 DEF Clear
  <2>2. /\ Sound(W)
        /\ \A d \in Octets : HeldAt(d, 0, W.buf) => RecordReadAs(item, d, o, s, l)
      BY <1>1, <1>2, <1>4, <1>7, <2>1, RecordWritten
  <2>3. PICK o0, len : FromPacket(item, d0, o0, len)
      BY <1>7, ItemFromPacket
  <2>4. ASSUME NEW d \in Octets, HeldAt(d, 0, W.buf)
        PROVE  \E i2 \in ParsedItems(d, s) : ParseItem(d, o, s) = Parsed(i2, l) /\ ItemRead(s, item, i2)
    <3>1. PICK i2, o2, R : RecordRead(i2, item, d, o2, R) /\ ParseItem(d, o, s) = Parsed(i2, l)
        BY <2>2, <2>4 DEF RecordReadAs
    <3>2. i2 \in ParsedItems(d, s)
        BY <1>5, <3>1
    <3>3. ~NeedsPacket(item) => View(i2) = View(item)
        BY <1>2, <1>7, <2>3, <3>1, RecordViewed
    <3>4. (item.type \in {PTR, SRV} => ~NeedsPacket(item)) => Same(s, i2, item)
        BY <1>2, <1>7, <2>3, <3>1, RecordSame
    <3> QED BY <3>1, <3>2, <3>3, <3>4 DEF ItemRead
  <2> QED BY <1>1, <2>2, <2>4
<1> QED BY <1>6, <1>7

\* Of a section, k items have been read, and the next one is looked for at l.
ReadTo(q, d, s, items, k, l) ==
    /\ q.ok /\ q.next = l
    /\ q.items \in Seq(ParsedItems(d, s)) /\ Len(q.items) = k
    /\ \A j \in 1..k : ItemRead(s, items[j], q.items[j])

\* One more item parsed carries a section that is read back to the next one.
LEMMA ReadOn ==
    ASSUME NEW q, NEW d, NEW s, NEW items, NEW k \in Nat, NEW l, ReadTo(q, d, s, items, k, l),
           NEW i2 \in ParsedItems(d, s), ItemRead(s, items[k + 1], i2), NEW l2
    PROVE  ReadTo(AddItem(q, Parsed(i2, l2)), d, s, items, k + 1, l2)
<1>1. PICK X, old, new, n : /\ X = ParsedItems(d, s) /\ old = q.items /\ new = Append(old, i2)
                            /\ n = k + 1 /\ n \in Nat
  <2>1. PICK n \in Nat : n = k + 1
      OBVIOUS
  <2>2. PICK old, new : old = q.items /\ new = Append(old, i2)
      OBVIOUS
  <2> QED BY <2>1, <2>2
<1>2. old \in Seq(X) /\ Len(old) = k /\ i2 \in X /\ \A j \in 1..k : ItemRead(s, items[j], old[j])
    BY <1>1 DEF ReadTo
<1>3. /\ new \in Seq(X) /\ Len(new) = n
      /\ \A j \in 1..k : new[j] = old[j]
      /\ new[n] = i2
    BY <1>1, <1>2, AppendProperties
<1>4. ASSUME NEW j \in 1..n PROVE ItemRead(s, items[j], new[j])
  <2>1. CASE j = n
      BY <1>1, <1>3, <2>1
  <2>2. CASE j # n
    <3>1. j \in 1..k
        BY <1>1, <2>2
    <3> QED BY <1>2, <1>3, <3>1
  <2> QED BY <2>1, <2>2
<1>5. PICK z : z = AddItem(q, Parsed(i2, l2))
    OBVIOUS
<1>6. z = [ok |-> TRUE, next |-> l2, items |-> new]
    BY <1>1, <1>5 DEF AddItem, Parsed
<1>7. z.ok /\ z.next = l2 /\ z.items = new
    BY <1>6
<1>8. ReadTo(z, d, s, items, n, l2)
    BY <1>1, <1>3, <1>4, <1>7 DEF ReadTo
<1> QED BY <1>1, <1>5, <1>8

\* A section that is written is read where it was written.
LEMMA SectionWritten ==
    ASSUME NEW w \in Writers, NEW s \in Sections, NEW d0 \in Octets,
           NEW items \in Seq(ParsedItems(d0, s)), \A k \in 1..Len(items) : Clear(items[k])
    PROVE  LET W == WriteSection(w, s, items)
           IN  /\ After(w, W)
               /\ Sound(w) /\ W.ok /\ InDatagram(Len(W.buf)) =>
                     /\ Sound(W)
                     /\ \A d \in Octets : HeldAt(d, 0, W.buf) /\ Count(d, s) = Len(items) =>
                           ReadTo(ReadSection(d, Len(w.buf), s), d, s, items, Len(items), Len(W.buf))
<1>1. PICK n, o, X : /\ n = Len(items) /\ n \in Nat /\ o = Len(w.buf) /\ o \in Nat
                     /\ X = ParsedItems(d0, s) /\ items \in Seq(X)
  <2>1. w.buf \in Octets
      BY DEF Writers
  <2>2. Len(items) \in Nat /\ Len(w.buf) \in Nat
      BY <2>1, OctetsAre
  <2> QED BY <2>2
<1>2. PICK f : WriteSteps(f, w, s, items) /\ WriteSection(w, s, items) = f[n]
    BY <1>1, WriteSectionIs
<1> DEFINE Reads2(x, k) ==
              \A d \in Octets : HeldAt(d, 0, x.buf) =>
                 \A g : SectionSteps(g, d, o, s, n) => ReadTo(g[k], d, s, items, k, Len(x.buf))
           Good(x, k) == /\ After(w, x)
                         /\ Sound(w) /\ x.ok /\ InDatagram(Len(x.buf)) => Sound(x) /\ Reads2(x, k)
<1>3. PICK S : S = {k \in Nat : k <= n => Good(f[k], k)}
    OBVIOUS
<1>4. 0 \in S
  <2>1. f[0] = w /\ w \in Writers /\ After(w, w)
      BY <1>2, AfterSelf DEF WriteSteps, Sound
  <2>2. Reads2(w, 0)
    <3> SUFFICES ASSUME NEW d \in Octets, NEW g, SectionSteps(g, d, o, s, n)
                 PROVE  ReadTo(g[0], d, s, items, 0, Len(w.buf))
        OBVIOUS
    <3>1. g[0].ok /\ g[0].next = o /\ g[0].items = <<>>
        BY DEF SectionSteps
    <3>2. <<>> \in Seq(ParsedItems(d, s)) /\ Len(<<>>) = 0
        OBVIOUS
    <3> QED BY <1>1, <3>1, <3>2 DEF ReadTo
  <2>3. Good(w, 0)
    <3> HIDE DEF Reads2
    <3> QED BY <2>1, <2>2
  <2> HIDE DEF Good
  <2> QED BY <1>3, <2>1, <2>3
<1>5. ASSUME NEW j \in Nat, j \in S PROVE j + 1 \in S
  <2> SUFFICES ASSUME j + 1 <= n PROVE Good(f[j + 1], j + 1)
      BY <1>3
  <2>1. PICK x : x = f[j] /\ Good(x, j)
    <3>1. j <= n
        BY <1>1
    <3> HIDE DEF Good
    <3> QED BY <1>3, <1>5, <3>1
  <2>2. PICK k \in Nat : k = j + 1
      OBVIOUS
  <2>3. k \in 1..n /\ k - 1 = j
      BY <1>1, <2>2
  <2>4. PICK item : item = items[k] /\ item \in X /\ Clear(item)
      BY <1>1, <2>3
  <2>5. IsItem(s, item)
      BY <1>1, <2>4, ItemsAre DEF AllItems
  <2>6. PICK y : y = f[k] /\ y = WriteItem(x, s, item)
      BY <1>1, <1>2, <2>1, <2>3, <2>4 DEF WriteSteps
  <2>7. After(w, x) /\ After(x, y) /\ After(w, y)
    <3>1. After(w, x)
        BY <2>1
    <3>2. x \in Writers
        BY <3>1 DEF After
    <3>3. After(x, y)
        BY <2>5, <2>6, <3>2, ItemAfter
    <3> QED BY <3>1, <3>3, AfterAfter
  <2>8. ASSUME Sound(w), y.ok, InDatagram(Len(y.buf)) PROVE Sound(y) /\ Reads2(y, k)
    <3>1. /\ x.ok /\ InDatagram(Len(x.buf))
          /\ \A d \in Octets : HeldAt(d, 0, y.buf) => HeldAt(d, 0, x.buf)
        BY <2>7, <2>8, AfterHeld
    <3>2. Sound(x) /\ Reads2(x, j)
      <4> HIDE DEF Reads2
      <4> QED BY <2>1, <2>8, <3>1
    <3>3. /\ Sound(y)
          /\ \A d \in Octets : HeldAt(d, 0, y.buf) =>
                \E i2 \in ParsedItems(d, s) :
                   ParseItem(d, Len(x.buf), s) = Parsed(i2, Len(y.buf)) /\ ItemRead(s, item, i2)
        BY <1>1, <2>4, <2>6, <2>8, <3>2, ItemWritten
    <3>4. ASSUME NEW d \in Octets, HeldAt(d, 0, y.buf), NEW g, SectionSteps(g, d, o, s, n)
          PROVE  ReadTo(g[k], d, s, items, k, Len(y.buf))
      <4>1. PICK i2 \in ParsedItems(d, s) :
               ParseItem(d, Len(x.buf), s) = Parsed(i2, Len(y.buf)) /\ ItemRead(s, item, i2)
          BY <3>3, <3>4
      <4>2. PICK q : q = g[j] /\ ReadTo(q, d, s, items, j, Len(x.buf))
          BY <3>1, <3>2, <3>4
      <4>3. g[k] = AddItem(q, Parsed(i2, Len(y.buf)))
        <5>1. q.ok /\ q.next = Len(x.buf)
            BY <4>2 DEF ReadTo
        <5>2. g[k] = IF g[k - 1].ok THEN AddItem(g[k - 1], ParseItem(d, g[k - 1].next, s)) ELSE g[k - 1]
            BY <2>3, <3>4 DEF SectionSteps
        <5> QED BY <2>3, <4>1, <4>2, <5>1, <5>2
      <4>4. ItemRead(s, items[j + 1], i2)
          BY <2>2, <2>4, <4>1
      <4>5. PICK l : l = Len(y.buf)
          OBVIOUS
      <4>6. ReadTo(AddItem(q, Parsed(i2, l)), d, s, items, j + 1, l)
          BY <4>2, <4>4, ReadOn
      <4> QED BY <2>2, <4>3, <4>5, <4>6
    <3> QED BY <3>3, <3>4
  <2>9. Good(y, k)
    <3> HIDE DEF Reads2
    <3> QED BY <2>7, <2>8
  <2> HIDE DEF Good
  <2> QED BY <2>2, <2>6, <2>9
<1>6. n \in S
  <2> HIDE DEF Good
  <2> QED BY <1>1, <1>4, <1>5, Induction
<1>7. PICK W : W = f[n] /\ Good(W, n)
  <2> HIDE DEF Good
  <2> QED BY <1>1, <1>3, <1>6
<1>8. ASSUME Reads2(W, n), NEW d \in Octets, HeldAt(d, 0, W.buf), Count(d, s) = n
      PROVE  ReadTo(ReadSection(d, o, s), d, s, items, n, Len(W.buf))
  <2>1. PICK g : SectionSteps(g, d, o, s, n) /\ ReadSection(d, o, s) = g[n]
      BY <1>1, <1>8, SectionIs
  <2> QED BY <1>8, <2>1
<1>9. Good(W, n) /\ WriteSection(w, s, items) = W
    BY <1>2, <1>7
<1>10. /\ After(w, W)
       /\ Sound(w) /\ W.ok /\ InDatagram(Len(W.buf)) =>
             /\ Sound(W)
             /\ \A d \in Octets : HeldAt(d, 0, W.buf) /\ Count(d, s) = n =>
                   ReadTo(ReadSection(d, o, s), d, s, items, n, Len(W.buf))
  <2> HIDE DEF Reads2
  <2> QED BY <1>8, <1>9
<1> HIDE DEF Good
<1> QED BY <1>1, <1>9, <1>10

\* Sections of the same items are written the same.
LEMMA SectionSame ==
    ASSUME NEW w \in Writers, NEW s \in Sections, NEW X, AllItems(s, X), NEW items \in Seq(X),
           NEW Y, AllItems(s, Y), NEW items2 \in Seq(Y), Len(items2) = Len(items),
           \A j \in 1..Len(items) : Same(s, items2[j], items[j])
    PROVE  WriteSection(w, s, items2) = WriteSection(w, s, items)
<1>1. PICK n \in Nat : n = Len(items)
    OBVIOUS
<1>2. PICK f : WriteSteps(f, w, s, items) /\ WriteSection(w, s, items) = f[n]
    BY <1>1, WriteSectionIs
<1>3. PICK g : WriteSteps(g, w, s, items2) /\ WriteSection(w, s, items2) = g[n]
    BY <1>1, WriteSectionIs
<1>4. PICK S : S = {k \in Nat : k <= n => f[k] \in Writers /\ g[k] = f[k]}
    OBVIOUS
<1>5. 0 \in S
    BY <1>2, <1>3, <1>4 DEF WriteSteps
<1>6. ASSUME NEW j \in Nat, j \in S PROVE j + 1 \in S
  <2> SUFFICES ASSUME j + 1 <= n PROVE f[j + 1] \in Writers /\ g[j + 1] = f[j + 1]
      BY <1>4
  <2>1. PICK x : x = f[j] /\ x = g[j] /\ x \in Writers
    <3>1. j <= n
        BY <1>1
    <3> QED BY <1>4, <1>6, <3>1
  <2>2. PICK k \in Nat : k = j + 1
      OBVIOUS
  <2>3. k \in 1..n /\ k - 1 = j
      BY <1>1, <2>2
  <2>4. PICK item, item2 : item = items[k] /\ item \in X /\ item2 = items2[k] /\ item2 \in Y
      BY <1>1, <2>3
  <2>5. IsItem(s, item) /\ IsItem(s, item2) /\ Same(s, item2, item)
      BY <1>1, <2>3, <2>4 DEF AllItems
  <2>6. f[k] = WriteItem(x, s, item) /\ g[k] = WriteItem(x, s, item2)
      BY <1>1, <1>2, <1>3, <2>1, <2>3, <2>4 DEF WriteSteps
  <2>7. f[k] \in Writers /\ g[k] = f[k]
      BY <2>1, <2>5, <2>6, WritesSame, WriteItemOk
  <2> QED BY <2>2, <2>7
<1>7. n \in S
    BY <1>5, <1>6, Induction
<1> QED BY <1>2, <1>3, <1>4, <1>7

-----------------------------------------------------------------------------
(* What is read of a packet *)

\* Where the header was written, the ids, the flags and the counts read back.
LEMMA HeaderHeld ==
    ASSUME NEW d0, NEW p, IsPacket(d0, p), NEW d \in Octets, HeldAt(d, 0, Start(p).buf)
    PROVE  /\ Len(d) >= 12 /\ Slice(d, 0, 4) = p.head
           /\ \A s \in Sections : Count(d, s) = Len(p.sections[s])
<1>1. ASSUME NEW s \in Sections
      PROVE  /\ Length16(p.sections[s]) \in Octets /\ Len(Length16(p.sections[s])) = 2
             /\ \A o \in Nat : HeldAt(d, o, Length16(p.sections[s])) => U16(d, o) = Len(p.sections[s])
  <2>1. PICK n \in Nat : n = Len(p.sections[s]) /\ Word(n)
      BY DEF IsPacket, Word
  <2> QED BY <2>1, Bytes16Type, WordHeld DEF Length16
<1>2. PICK a1, a2, a3, a4 :
          /\ a1 = Length16(p.sections[1]) /\ a2 = Length16(p.sections[2])
          /\ a3 = Length16(p.sections[3]) /\ a4 = Length16(p.sections[4])
    OBVIOUS
<1>3. /\ a1 \in Octets /\ Len(a1) = 2 /\ a2 \in Octets /\ Len(a2) = 2
      /\ a3 \in Octets /\ Len(a3) = 2 /\ a4 \in Octets /\ Len(a4) = 2
  <2>1. 1 \in Sections /\ 2 \in Sections /\ 3 \in Sections /\ 4 \in Sections
      BY DEF Sections
  <2> QED BY <1>1, <1>2, <2>1
<1>4. PICK b : b = a1 \o a2
    OBVIOUS
<1>5. b \in Octets /\ Len(b) = Len(a1) + Len(a2)
    BY <1>3, <1>4, OctetsJoin
<1>6. PICK c : c = b \o a3
    OBVIOUS
<1>7. c \in Octets /\ Len(c) = Len(b) + Len(a3)
    BY <1>3, <1>5, <1>6, OctetsJoin
<1>8. PICK e : e = c \o a4
    OBVIOUS
<1>9. e \in Octets
    BY <1>3, <1>7, <1>8, OctetsJoin
<1>10. PICK h : h = p.head /\ h \in Octets /\ Len(h) = 4
    BY DEF IsPacket
<1>11. PICK i0, i2, i4, i6, i8, i10 :
          /\ i0 = 0 /\ i2 = 2 /\ i4 = 4 /\ i6 = 6 /\ i8 = 8 /\ i10 = 10
    OBVIOUS
<1>12. Len(b) = i4 /\ Len(c) = i6 /\ Len(h) = i4
  <2>1. PICK m, n, k : m = Len(b) /\ n = Len(c) /\ k = Len(h)
      OBVIOUS
  <2>2. m = i4 /\ n = i6 /\ k = i4
      BY <1>3, <1>5, <1>7, <1>10, <1>11, <2>1
  <2> QED BY <2>1, <2>2
<1>13. /\ i0 \in Nat /\ i4 \in Nat /\ i6 \in Nat /\ i8 \in Nat /\ i10 \in Nat
       /\ i0 + i4 = i4 /\ i4 + i2 = i6 /\ i4 + i4 = i8 /\ i4 + i6 = i10
    BY <1>11
<1>14. HeldAt(d, i0, h \o e)
  <2>1. Start(p).buf = h \o e
      BY <1>2, <1>4, <1>6, <1>8, <1>10, StartType DEF Counts
  <2> QED BY <1>11, <2>1
<1>15. HeldAt(d, i0, h) /\ HeldAt(d, i4, e)
  <2>1. HeldAt(d, i0, h) /\ HeldAt(d, i0 + Len(h), e)
      BY <1>9, <1>10, <1>13, <1>14, HeldJoin
  <2> QED BY <1>12, <1>13, <2>1
<1>16. HeldAt(d, i4, c) /\ HeldAt(d, i10, a4)
  <2>1. HeldAt(d, i4, c) /\ HeldAt(d, i4 + Len(c), a4)
      BY <1>3, <1>7, <1>8, <1>13, <1>15, HeldJoin
  <2> QED BY <1>12, <1>13, <2>1
<1>17. HeldAt(d, i4, b) /\ HeldAt(d, i8, a3)
  <2>1. HeldAt(d, i4, b) /\ HeldAt(d, i4 + Len(b), a3)
      BY <1>3, <1>5, <1>6, <1>13, <1>16, HeldJoin
  <2> QED BY <1>12, <1>13, <2>1
<1>18. HeldAt(d, i4, a1) /\ HeldAt(d, i6, a2)
  <2>1. HeldAt(d, i4, a1) /\ HeldAt(d, i4 + Len(a1), a2)
      BY <1>3, <1>4, <1>13, <1>17, HeldJoin
  <2>2. Len(a1) = i2
      BY <1>3, <1>11
  <2> QED BY <1>13, <2>1, <2>2
<1>19. /\ U16(d, i4) = Len(p.sections[1]) /\ U16(d, i6) = Len(p.sections[2])
       /\ U16(d, i8) = Len(p.sections[3]) /\ U16(d, i10) = Len(p.sections[4])
  <2>1. 1 \in Sections /\ 2 \in Sections /\ 3 \in Sections /\ 4 \in Sections
      BY DEF Sections
  <2> QED BY <1>1, <1>2, <1>13, <1>16, <1>17, <1>18, <2>1
<1>20. ASSUME NEW s \in Sections PROVE Count(d, s) = Len(p.sections[s])
  <2>1. s = 1 \/ s = 2 \/ s = 3 \/ s = 4
      BY DEF Sections
  <2>2. 2 + 2 * 1 = i4 /\ 2 + 2 * 2 = i6 /\ 2 + 2 * 3 = i8 /\ 2 + 2 * 4 = i10
      BY <1>11
  <2>3. CASE s = 1
      BY <1>19, <2>2, <2>3 DEF Count
  <2>4. CASE s = 2
      BY <1>19, <2>2, <2>4 DEF Count
  <2>5. CASE s = 3
      BY <1>19, <2>2, <2>5 DEF Count
  <2>6. CASE s = 4
      BY <1>19, <2>2, <2>6 DEF Count
  <2> QED BY <2>1, <2>3, <2>4, <2>5, <2>6
<1>21. Slice(d, 0, 4) = p.head
  <2>1. Slice(d, i0, Len(h)) = h
      BY <1>10, <1>13, <1>15, HeldSlice
  <2> QED BY <1>10, <1>11, <2>1
<1>22. Len(d) >= 12
  <2>1. PICK m \in Nat : m = Len(d)
      BY OctetsAre
  <2>2. i10 + Len(a4) <= m
      BY <1>16, <2>1 DEF HeldAt
  <2>3. m >= 12
      BY <1>3, <1>11, <2>1, <2>2
  <2> QED BY <2>1, <2>3
<1> QED BY <1>20, <1>21, <1>22

AllClear(p) == \A s \in Sections : \A k \in 1..Len(p.sections[s]) : Clear(p.sections[s][k])

\* r is what is read for the packet p.
PacketRead(r, p) ==
    /\ r.ok /\ r.head = p.head
    /\ \A s \in Sections :
          /\ Len(r.sections[s]) = Len(p.sections[s])
          /\ \A k \in 1..Len(p.sections[s]) : ItemRead(s, p.sections[s][k], r.sections[s][k])

\* Serialize starts from a sound writer.
LEMMA StartSound ==
    ASSUME NEW d, NEW p, IsPacket(d, p)
    PROVE  Start(p) \in Writers /\ Sound(Start(p)) /\ Len(Start(p).buf) = 12
<1>1. DictHeld(<<>>, Start(p).buf)
    BY DEF DictHeld
<1> QED BY <1>1, StartType DEF Sound

\* A packet that is written is read.
LEMMA PacketWritten ==
    ASSUME NEW d0 \in Octets, NEW p, IsPacket(d0, p), AllClear(p),
           Serialize(p).ok, InDatagram(Len(Serialize(p).buf))
    PROVE  /\ Serialize(p).buf \in Octets
           /\ PacketRead(ParsePacket(Serialize(p).buf), p)
<1>1. 1 \in Sections /\ 2 \in Sections /\ 3 \in Sections /\ 4 \in Sections
    BY DEF Sections
<1>2. PICK x1, x2, x3, x4 : /\ x1 = p.sections[1] /\ x2 = p.sections[2]
                            /\ x3 = p.sections[3] /\ x4 = p.sections[4]
    OBVIOUS
<1>3. /\ x1 \in Seq(ParsedItems(d0, 1)) /\ x2 \in Seq(ParsedItems(d0, 2))
      /\ x3 \in Seq(ParsedItems(d0, 3)) /\ x4 \in Seq(ParsedItems(d0, 4))
    BY <1>1, <1>2 DEF IsPacket
<1>4. /\ \A k \in 1..Len(x1) : Clear(x1[k])
      /\ \A k \in 1..Len(x2) : Clear(x2[k])
      /\ \A k \in 1..Len(x3) : Clear(x3[k])
      /\ \A k \in 1..Len(x4) : Clear(x4[k])
    BY <1>1, <1>2 DEF AllClear
<1>5. PICK w0 : w0 = Start(p) /\ w0 \in Writers /\ Sound(w0) /\ Len(w0.buf) = 12
    BY StartSound
<1>6. PICK w1 : w1 = WriteSection(w0, 1, x1) /\ After(w0, w1) /\ w1 \in Writers
    BY <1>1, <1>3, <1>4, <1>5, SectionWritten DEF After
<1>7. PICK w2 : w2 = WriteSection(w1, 2, x2) /\ After(w1, w2) /\ w2 \in Writers
    BY <1>1, <1>3, <1>4, <1>6, SectionWritten DEF After
<1>8. PICK w3 : w3 = WriteSection(w2, 3, x3) /\ After(w2, w3) /\ w3 \in Writers
    BY <1>1, <1>3, <1>4, <1>7, SectionWritten DEF After
<1>9. PICK w4 : w4 = WriteSection(w3, 4, x4) /\ After(w3, w4) /\ w4 \in Writers
    BY <1>1, <1>3, <1>4, <1>8, SectionWritten DEF After
<1>10. w4.ok /\ Serialize(p).buf = w4.buf /\ InDatagram(Len(w4.buf))
  <2>1. w4 = Wrote4(p)
      BY <1>2, <1>5, <1>6, <1>7, <1>8, <1>9 DEF Wrote1, Wrote2, Wrote3, Wrote4
  <2>2. w4.ok /\ Serialize(p) = [ok |-> TRUE, buf |-> w4.buf]
      BY <2>1, SerializeIs
  <2> QED BY <2>2
<1>11. PICK d : d = w4.buf /\ d \in Octets /\ HeldAt(d, 0, w4.buf)
    BY <1>9, HeldWhole DEF Writers
<1>12. w3.ok /\ InDatagram(Len(w3.buf)) /\ HeldAt(d, 0, w3.buf)
    BY <1>9, <1>10, <1>11, AfterHeld
<1>13. w2.ok /\ InDatagram(Len(w2.buf)) /\ HeldAt(d, 0, w2.buf)
    BY <1>8, <1>11, <1>12, AfterHeld
<1>14. w1.ok /\ InDatagram(Len(w1.buf)) /\ HeldAt(d, 0, w1.buf)
    BY <1>7, <1>11, <1>13, AfterHeld
<1>15. HeldAt(d, 0, w0.buf)
    BY <1>6, <1>11, <1>14, AfterHeld
<1>16. /\ Len(d) >= 12 /\ Slice(d, 0, 4) = p.head
       /\ Count(d, 1) = Len(x1) /\ Count(d, 2) = Len(x2)
       /\ Count(d, 3) = Len(x3) /\ Count(d, 4) = Len(x4)
    BY <1>1, <1>2, <1>5, <1>11, <1>15, HeaderHeld
<1>17. PICK q1, q2, q3, q4 :
          /\ q1 = ReadSection(d, 12, 1) /\ q2 = ReadSection(d, q1.next, 2)
          /\ q3 = ReadSection(d, q2.next, 3) /\ q4 = ReadSection(d, q3.next, 4)
    OBVIOUS
<1>18. Sound(w1) /\ ReadTo(q1, d, 1, x1, Len(x1), Len(w1.buf))
  <2>1. Sound(w1) /\ ReadTo(ReadSection(d, Len(w0.buf), 1), d, 1, x1, Len(x1), Len(w1.buf))
      BY <1>1, <1>3, <1>4, <1>5, <1>6, <1>11, <1>14, <1>16, SectionWritten
  <2> QED BY <1>5, <1>17, <2>1
<1>19. Sound(w2) /\ ReadTo(q2, d, 2, x2, Len(x2), Len(w2.buf))
  <2>1. Sound(w2) /\ ReadTo(ReadSection(d, Len(w1.buf), 2), d, 2, x2, Len(x2), Len(w2.buf))
      BY <1>1, <1>3, <1>4, <1>6, <1>7, <1>11, <1>13, <1>16, <1>18, SectionWritten
  <2>2. q1.next = Len(w1.buf)
      BY <1>18 DEF ReadTo
  <2> QED BY <1>17, <2>1, <2>2
<1>20. Sound(w3) /\ ReadTo(q3, d, 3, x3, Len(x3), Len(w3.buf))
  <2>1. Sound(w3) /\ ReadTo(ReadSection(d, Len(w2.buf), 3), d, 3, x3, Len(x3), Len(w3.buf))
      BY <1>1, <1>3, <1>4, <1>7, <1>8, <1>11, <1>12, <1>16, <1>19, SectionWritten
  <2>2. q2.next = Len(w2.buf)
      BY <1>19 DEF ReadTo
  <2> QED BY <1>17, <2>1, <2>2
<1>21. ReadTo(q4, d, 4, x4, Len(x4), Len(w4.buf))
  <2>1. ReadTo(ReadSection(d, Len(w3.buf), 4), d, 4, x4, Len(x4), Len(w4.buf))
      BY <1>1, <1>3, <1>4, <1>8, <1>9, <1>10, <1>11, <1>16, <1>20, SectionWritten
  <2>2. q3.next = Len(w3.buf)
      BY <1>20 DEF ReadTo
  <2> QED BY <1>17, <2>1, <2>2
<1>22. PICK r : r = ParsePacket(d)
    OBVIOUS
<1>23. r = [ok |-> TRUE, head |-> p.head, sections |-> <<q1.items, q2.items, q3.items, q4.items>>]
  <2>1. q1.ok /\ q2.ok /\ q3.ok /\ q4.ok
      BY <1>18, <1>19, <1>20, <1>21 DEF ReadTo
  <2> QED BY <1>16, <1>17, <1>22, <2>1 DEF ParsePacket
<1>24. /\ r.ok /\ r.head = p.head
       /\ r.sections[1] = q1.items /\ r.sections[2] = q2.items
       /\ r.sections[3] = q3.items /\ r.sections[4] = q4.items
  <2>1. PICK i1, i2, i3, i4, h : /\ i1 = q1.items /\ i2 = q2.items /\ i3 = q3.items /\ i4 = q4.items
                                 /\ h = p.head
      OBVIOUS
  <2>2. r = [ok |-> TRUE, head |-> h, sections |-> <<i1, i2, i3, i4>>]
      BY <1>23, <2>1
  <2>3. r.ok /\ r.head = h /\ r.sections = <<i1, i2, i3, i4>>
      BY <2>2
  <2> QED BY <2>1, <2>3
<1>25. ASSUME NEW s \in Sections
       PROVE  /\ Len(r.sections[s]) = Len(p.sections[s])
              /\ \A k \in 1..Len(p.sections[s]) : ItemRead(s, p.sections[s][k], r.sections[s][k])
  <2>1. s = 1 \/ s = 2 \/ s = 3 \/ s = 4
      BY DEF Sections
  <2>2. CASE s = 1
      BY <1>2, <1>18, <1>24, <2>2 DEF ReadTo
  <2>3. CASE s = 2
      BY <1>2, <1>19, <1>24, <2>3 DEF ReadTo
  <2>4. CASE s = 3
      BY <1>2, <1>20, <1>24, <2>4 DEF ReadTo
  <2>5. CASE s = 4
      BY <1>2, <1>21, <1>24, <2>5 DEF ReadTo
  <2> QED BY <2>1, <2>2, <2>3, <2>4, <2>5
<1>26. PacketRead(r, p)
    BY <1>24, <1>25 DEF PacketRead
<1> QED BY <1>10, <1>11, <1>22, <1>26

\* What is read of a packet that is written looks the same.
LEMMA ViewsRead ==
    ASSUME NEW d0 \in Octets, NEW p, IsPacket(d0, p), NEW d \in Octets, NEW r, IsPacket(d, r),
           PacketRead(r, p),
           \A s \in Sections : \A k \in 1..Len(p.sections[s]) : ~NeedsPacket(p.sections[s][k])
    PROVE  Views(r) = Views(p)
<1> DEFINE Seen(q, s) == [k \in DOMAIN q.sections[s] |-> View(q.sections[s][k])]
<1>1. ASSUME NEW s \in Sections PROVE Seen(r, s) = Seen(p, s)
  <2>1. PICK x, y, n : x = p.sections[s] /\ y = r.sections[s] /\ n = Len(x)
      OBVIOUS
  <2>2. DOMAIN x = 1..n /\ DOMAIN y = 1..n
    <3>1. x \in Seq(ParsedItems(d0, s)) /\ y \in Seq(ParsedItems(d, s)) /\ Len(y) = n
        BY <2>1 DEF IsPacket, PacketRead
    <3> QED BY <2>1, <3>1
  <2>3. \A k \in 1..n : View(y[k]) = View(x[k])
      BY <2>1 DEF PacketRead, ItemRead
  <2>4. [k \in DOMAIN y |-> View(y[k])] = [k \in DOMAIN x |-> View(x[k])]
      BY <2>2, <2>3
  <2> QED BY <2>1, <2>4
<1>2. Views(r) = [s \in Sections |-> Seen(r, s)] /\ Views(p) = [s \in Sections |-> Seen(p, s)]
    BY DEF Views
<1> HIDE DEF Seen
<1> QED BY <1>1, <1>2

\* And is written the same.
LEMMA SerializedSame ==
    ASSUME NEW d0 \in Octets, NEW p, IsPacket(d0, p), NEW d \in Octets, NEW r, IsPacket(d, r),
           PacketRead(r, p),
           \A s \in Sections : \A k \in 1..Len(p.sections[s]) :
              p.sections[s][k].type \in {PTR, SRV} => ~NeedsPacket(p.sections[s][k])
    PROVE  Serialize(r) = Serialize(p)
<1>1. 1 \in Sections /\ 2 \in Sections /\ 3 \in Sections /\ 4 \in Sections
    BY DEF Sections
<1>2. Start(r) = Start(p)
  <2>1. \A s \in Sections : Len(r.sections[s]) = Len(p.sections[s])
      BY DEF PacketRead
  <2>2. Counts(r) = Counts(p)
      BY <1>1, <2>1 DEF Counts, Length16
  <2> QED BY <2>2 DEF Start, PacketRead
<1>3. ASSUME NEW s \in Sections, NEW w \in Writers
      PROVE  /\ WriteSection(w, s, r.sections[s]) = WriteSection(w, s, p.sections[s])
             /\ WriteSection(w, s, p.sections[s]) \in Writers
  <2>1. PICK x, y, X, Y : /\ x = p.sections[s] /\ y = r.sections[s]
                          /\ X = ParsedItems(d0, s) /\ Y = ParsedItems(d, s)
      OBVIOUS
  <2>2. x \in Seq(X) /\ y \in Seq(Y)
      BY <2>1 DEF IsPacket
  <2>3. AllItems(s, X) /\ AllItems(s, Y)
      BY <2>1, ItemsAre
  <2>4. Len(y) = Len(x) /\ \A j \in 1..Len(x) : Same(s, y[j], x[j])
      BY <2>1 DEF PacketRead, ItemRead
  <2> QED BY <2>1, <2>2, <2>3, <2>4, SectionSame, WriteSectionOk
<1>4. PICK w0 : w0 = Start(p) /\ w0 = Start(r) /\ w0 \in Writers
    BY <1>2, StartType
<1>5. PICK w1 : w1 = Wrote1(p) /\ w1 = Wrote1(r) /\ w1 \in Writers
    BY <1>1, <1>3, <1>4 DEF Wrote1
<1>6. PICK w2 : w2 = Wrote2(p) /\ w2 = Wrote2(r) /\ w2 \in Writers
    BY <1>1, <1>3, <1>5 DEF Wrote2
<1>7. PICK w3 : w3 = Wrote3(p) /\ w3 = Wrote3(r) /\ w3 \in Writers
    BY <1>1, <1>3, <1>6 DEF Wrote3
<1>8. PICK w4 : w4 = Wrote4(p) /\ w4 = Wrote4(r)
    BY <1>1, <1>3, <1>7 DEF Wrote4
<1> QED BY <1>8, SerializeIs

\* The four sections leave a writer.
LEMMA WroteType ==
    ASSUME NEW d \in Octets, NEW p, IsPacket(d, p)
    PROVE  Wrote4(p) \in Writers
<1>1. 1 \in Sections /\ 2 \in Sections /\ 3 \in Sections /\ 4 \in Sections
    BY DEF Sections
<1>2. ASSUME NEW s \in Sections
      PROVE  AllItems(s, ParsedItems(d, s)) /\ p.sections[s] \in Seq(ParsedItems(d, s))
    BY ItemsAre DEF IsPacket
<1>3. ASSUME NEW s \in Sections, NEW w \in Writers
      PROVE  WriteSection(w, s, p.sections[s]) \in Writers
    BY <1>2, WriteSectionOk
<1> QED BY <1>1, <1>3, StartType DEF Wrote1, Wrote2, Wrote3, Wrote4

\* An item that is kept was parsed, and has no empty label when the names are splittable.
LEMMA KeptItem ==
    ASSUME NEW d, IsPacket(d, kept), NEW s \in Sections, NEW k \in 1..Len(kept.sections[s])
    PROVE  /\ kept.sections[s][k] \in KeptItems
           /\ Splittable => Clear(kept.sections[s][k])
<1>1. PICK items, X : items = kept.sections[s] /\ items \in Seq(X)
    BY DEF IsPacket
<1>2. PICK item : item = items[k] /\ item \in ToSet(items)
  <2>1. k \in DOMAIN items
      BY <1>1
  <2> QED BY <1>1, <2>1, ToSetIs
<1>3. item \in KeptItems
    BY <1>1, <1>2 DEF KeptItems
<1>4. NamesIn(item) \subseteq KeptNames
    BY <1>3 DEF KeptNames
<1> QED BY <1>1, <1>2, <1>3, <1>4 DEF Splittable, Clear

\* What the next daemon reads of a packet that came out.
LEMMA NextReads ==
    ASSUME History, pc = "reread", Splittable
    PROVE  /\ wire \in Octets /\ IsPacket(wire, kept) /\ kept.head = packet.head
           /\ out.buf \in Octets /\ IsPacket(out.buf, reread) /\ PacketRead(reread, kept)
           /\ out = Serialize(kept) /\ again = Serialize(reread)
<1>1. /\ pc \in {"unsent", "rewritten", "reread"} /\ out = Serialize(kept) /\ out.ok
      /\ Len(out.buf) <= MaxDatagram /\ reread = ParsePacket(out.buf)
      /\ again = IF reread.ok THEN Serialize(reread) ELSE Rejected
    BY DEF History
<1>2. wire \in Octets /\ IsPacket(wire, kept) /\ kept.head = packet.head
    BY <1>1, KeptIs
<1>3. AllClear(kept)
    BY <1>2, KeptItem DEF AllClear
<1>4. out.buf \in Octets
  <2>1. PICK w : w = Wrote4(kept) /\ w \in Writers
      BY <1>2, WroteType
  <2>2. w.ok /\ out.buf = w.buf
      BY <1>1, <2>1, SerializeIs
  <2> QED BY <2>1, <2>2 DEF Writers
<1>5. InDatagram(Len(out.buf))
    BY <1>1, <1>4, OctetsAre DEF InDatagram
<1>6. PacketRead(reread, kept)
    BY <1>1, <1>2, <1>3, <1>5, PacketWritten
<1>7. IsPacket(out.buf, reread)
    BY <1>1, <1>4, <1>6, ParsePacketIs DEF PacketRead
<1> QED BY <1>1, <1>2, <1>4, <1>6, <1>7 DEF PacketRead

\* The next daemon reads the items that were kept, with their names, targets,
\* times and data, however names are compressed anew (packet.rs:158-187); but
\* for names that split into an empty label and rdata that needs its packet.
THEOREM Faithful == Spec => []RewriteFaithful
<1>1. History => RewriteFaithful
  <2> SUFFICES ASSUME History, pc = "reread", Splittable,
                      \A item \in KeptItems : ~NeedsPacket(item)
               PROVE  reread.ok /\ reread.head = packet.head /\ Views(reread) = Views(kept)
      BY DEF RewriteFaithful
  <2>1. /\ wire \in Octets /\ IsPacket(wire, kept) /\ kept.head = packet.head
        /\ out.buf \in Octets /\ IsPacket(out.buf, reread) /\ PacketRead(reread, kept)
      BY NextReads
  <2>2. \A s \in Sections : \A k \in 1..Len(kept.sections[s]) : ~NeedsPacket(kept.sections[s][k])
      BY <2>1, KeptItem
  <2>3. Views(reread) = Views(kept)
      BY <2>1, <2>2, ViewsRead
  <2> QED BY <2>1, <2>3 DEF PacketRead
<1> QED BY <1>1, HistoryKept, PTL

\* A second daemon that rewrites what the first one sent, and keeps all,
\* sends the same bytes; but for names that split into an empty label, and PTR
\* and SRV records whose rdata needs its packet.
THEOREM Stable == Spec => []RewriteStable
<1>1. History => RewriteStable
  <2> SUFFICES ASSUME History, pc = "reread", Splittable,
                      \A item \in KeptItems : NeedsPacket(item) => item.type \notin {PTR, SRV}
               PROVE  again = out
      BY DEF RewriteStable
  <2>1. /\ wire \in Octets /\ IsPacket(wire, kept)
        /\ out.buf \in Octets /\ IsPacket(out.buf, reread) /\ PacketRead(reread, kept)
        /\ out = Serialize(kept) /\ again = Serialize(reread)
      BY NextReads
  <2>2. \A s \in Sections : \A k \in 1..Len(kept.sections[s]) :
           kept.sections[s][k].type \in {PTR, SRV} => ~NeedsPacket(kept.sections[s][k])
      BY <2>1, KeptItem
  <2>3. Serialize(reread) = Serialize(kept)
      BY <2>1, <2>2, SerializedSame
  <2> QED BY <2>1, <2>3
<1> QED BY <1>1, HistoryKept, PTL

===============================================================================
