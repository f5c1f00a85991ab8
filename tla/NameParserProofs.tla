--------------------------- MODULE NameParserProofs ---------------------------
(***************************************************************************)
(* parse_name ends soon, reads only bytes of the packet and goes forward,  *)
(* for every packet and every pointer limit.                               *)
(***************************************************************************)
EXTENDS NameParser, FiniteSetTheorems, SequenceTheorems, NumberLemmas, TLAPS

-----------------------------------------------------------------------------
(* Bytes and arithmetic *)

\* A byte of the packet is a byte.
LEMMA ByteRange ==
    ASSUME TypeOK, NEW o \in Nat, Inside(o)
    PROVE  At(o) \in Nat /\ Len(data) \in Nat
<1>1. data \in Seq(Byte)
  BY DEF TypeOK, Packet
<1>2. o + 1 \in 1..Len(data)
  BY <1>1 DEF Inside
<1>3. \A k \in 1..Len(data) : data[k] \in Byte
  BY <1>1
<1>4. At(o) \in Byte
  BY <1>2, <1>3 DEF At
<1>5. Byte \subseteq Nat
  BY DEF Byte
<1>6. Len(data) \in Nat
  BY <1>1
<1> QED
  BY <1>4, <1>5, <1>6

\* A pointer leads to an offset.
LEMMA TargetType ==
    ASSUME TypeOK, NEW o \in Nat, Inside(o), Inside(o + 1)
    PROVE  Target(o) \in Nat
<1>1. At(o) \in Nat /\ At(o + 1) \in Nat
  BY ByteRange
<1>2. At(o) % 64 \in Nat
  BY <1>1
<1>3. \A k \in Nat : k * 256 \in Nat
  OBVIOUS
<1> QED
  BY <1>1, <1>2, <1>3 DEF Target

\* A product with a factor one larger.
LEMMA OneMore ==
    ASSUME NEW n \in Nat, NEW len \in Nat
    PROVE  (n + 1) * len = n * len + len /\ n * len \in Nat
  OBVIOUS

\* A product grows with its first factor.
LEMMA TimesGrows ==
    ASSUME NEW n \in Nat, NEW k \in Nat, NEW len \in Nat, n <= k
    PROVE  n * len <= k * len
  OBVIOUS

-----------------------------------------------------------------------------
(* Types *)

\* The first state has its types.
LEMMA TypeInit == Init => TypeOK
  BY ParserAssumption DEF Init, TypeOK, Packet

\* Every step keeps them.
LEMMA TypeStep == TypeOK /\ [Next]_vars => TypeOK'
<1> SUFFICES ASSUME TypeOK, [Next]_vars
             PROVE  TypeOK'
  OBVIOUS
<1>1. CASE Follow
  <2>1. offset \in Nat /\ Inside(offset) /\ Inside(offset + 1)
    BY <1>1 DEF Follow, Scanning, PointerOK, TypeOK
  <2>2. Target(offset) \in Nat
    BY <2>1, TargetType
  <2>3. visited' \subseteq Nat
    BY <1>1, <2>2 DEF Follow, TypeOK
  <2>4. next' \in Nat /\ steps' \in Nat /\ offset' \in Nat
    BY <1>1, <2>1, <2>2 DEF Follow, TypeOK
  <2> QED
    BY <1>1, <2>3, <2>4 DEF Follow, TypeOK
<1>2. CASE TakeLabel
  <2>1. offset \in Nat /\ Inside(offset)
    BY <1>2 DEF TakeLabel, Scanning, TypeOK
  <2>2. At(offset) \in Nat
    BY <2>1, ByteRange
  <2> QED
    BY <1>2, <2>1, <2>2 DEF TakeLabel, TypeOK
<1>3. CASE Root
  BY <1>3 DEF Root, TypeOK
<1>4. CASE Fail
  BY <1>4 DEF Fail, TypeOK
<1>5. CASE UNCHANGED vars
  BY <1>5 DEF vars, TypeOK
<1> QED
  BY <1>1, <1>2, <1>3, <1>4, <1>5 DEF Next

\* Every variable of the parser keeps its type.
THEOREM ParserTypeCorrect == Spec => []TypeOK
  BY TypeInit, TypeStep, PTL DEF Spec

-----------------------------------------------------------------------------
(* Work.  Between two pointers the walk only moves forward: what is left of  *)
(* a run of labels is the distance to the end of the packet.                 *)

Width == Len(data) + 1

\* Each pointer costs at most the length of the packet.
WorkInv ==
    /\ IsFiniteSet(visited)
    /\ Cardinality(visited) <= MaxPointers + 1
    /\ pc = "scan" =>
          /\ steps <= Cardinality(visited) * Width + Len(data)
          /\ Inside(offset) => steps <= Cardinality(visited) * Width + offset
    /\ steps <= (Cardinality(visited) + 1) * Width

\* At first no step is counted.
LEMMA WorkInit == Init => WorkInv
<1> SUFFICES ASSUME Init
             PROVE  WorkInv
  OBVIOUS
<1>1. TypeOK
  BY TypeInit
<1>2. Len(data) \in Nat /\ start \in Nat
  BY <1>1 DEF TypeOK, Packet
<1>3. IsFiniteSet(visited) /\ Cardinality(visited) = 0
  BY FS_EmptySet DEF Init
<1>4. 0 * Width = 0 /\ (0 + 1) * Width = Width
  BY <1>2 DEF Width
<1> QED
  BY <1>2, <1>3, <1>4, ParserAssumption DEF Init, WorkInv, Width

\* Every step keeps the count within what the pointers followed and the offset allow.
LEMMA WorkStep == TypeOK /\ WorkInv /\ [Next]_vars => WorkInv'
<1> SUFFICES ASSUME TypeOK, WorkInv, [Next]_vars
             PROVE  WorkInv'
  OBVIOUS
<1> DEFINE n == Cardinality(visited)
<1>1. Len(data) \in Nat /\ offset \in Nat /\ steps \in Nat /\ MaxPointers \in Nat
  BY ParserAssumption DEF TypeOK, Packet
<1>2. n \in Nat
  BY FS_CardinalityType DEF WorkInv
<1>3. Width \in Nat
  BY <1>1 DEF Width
<1>4. (n + 1) * Width = n * Width + Width /\ n * Width \in Nat
  BY <1>2, <1>3, OneMore
<1>5. (n + 1 + 1) * Width = (n + 1) * Width + Width
  BY <1>2, <1>3, OneMore
<1>6. CASE Follow
  <2>1. Target(offset) \notin visited /\ n <= MaxPointers
    BY <1>6 DEF Follow, PointerOK
  <2>2. IsFiniteSet(visited') /\ Cardinality(visited') = n + 1
    BY <1>6, <2>1, FS_AddElement DEF Follow, WorkInv
  <2>3. data' = data /\ Width' = Width
    BY <1>6 DEF Follow, Width
  <2>4. steps <= n * Width + offset /\ offset < Len(data)
    BY <1>6 DEF Follow, Scanning, Inside, WorkInv
  <2>5. steps' <= (n + 1) * Width
    BY <1>1, <1>4, <1>6, <2>4 DEF Follow, Width
  <2>6. offset' \in Nat
    BY TypeStep DEF TypeOK
  <2>7. steps' \in Nat /\ (n + 1) * Width \in Nat
    BY <1>1, <1>3, <1>4, <1>6 DEF Follow
  <2>8. steps' <= (n + 1) * Width + offset' /\ steps' <= (n + 1) * Width + Len(data)
    BY <1>1, <2>5, <2>6, <2>7
  <2>9. steps' <= (n + 1 + 1) * Width
    BY <1>3, <1>5, <2>5, <2>7
  <2> QED
    BY <1>1, <1>2, <2>1, <2>2, <2>3, <2>8, <2>9 DEF WorkInv, Inside
<1>7. CASE TakeLabel
  <2>1. visited' = visited /\ data' = data /\ Width' = Width
    BY <1>7 DEF TakeLabel, Width
  <2>2. Inside(offset) /\ IsLabel(At(offset)) /\ LabelFits(offset)
    BY <1>7 DEF TakeLabel, Scanning
  <2>3. steps <= n * Width + offset
    BY <1>7, <2>2 DEF TakeLabel, Scanning, WorkInv
  <2>4. At(offset) \in Nat /\ At(offset) >= 1
    BY <2>2 DEF IsLabel
  <2>5. offset + 1 + At(offset) <= Len(data)
    BY <2>2 DEF LabelFits
  <2>6. steps' = steps + 1 /\ offset' = offset + 1 + At(offset)
    BY <1>7 DEF TakeLabel
  <2>7. steps' <= n * Width + offset' /\ offset' <= Len(data)
    BY <1>1, <1>4, <2>3, <2>4, <2>5, <2>6
  <2>8. steps' <= n * Width + Len(data) /\ steps' <= (n + 1) * Width
    BY <1>1, <1>4, <2>4, <2>6, <2>7 DEF Width
  <2> QED
    BY <2>1, <2>7, <2>8 DEF WorkInv
<1>8. CASE Root \/ Fail
  <2>1. visited' = visited /\ data' = data /\ Width' = Width /\ pc' # "scan"
    BY <1>8 DEF Root, Fail, Width
  <2>2. pc = "scan" /\ steps' = steps + 1
    BY <1>8 DEF Root, Fail, Scanning
  <2>3. steps <= n * Width + Len(data)
    BY <2>2 DEF WorkInv
  <2>4. steps' <= (n + 1) * Width
    BY <1>1, <1>4, <2>2, <2>3 DEF Width
  <2> QED
    BY <2>1, <2>4 DEF WorkInv
<1>9. CASE UNCHANGED vars
  BY <1>9 DEF vars, WorkInv, Width, Inside
<1> QED
  BY <1>6, <1>7, <1>8, <1>9 DEF Next

\* That bounds the work.
LEMMA WorkEnough == TypeOK /\ WorkInv => WorkBounded
<1> SUFFICES ASSUME TypeOK, WorkInv
             PROVE  WorkBounded
  OBVIOUS
<1>1. Cardinality(visited) \in Nat /\ Cardinality(visited) <= MaxPointers + 1
  BY FS_CardinalityType DEF WorkInv
<1>2. Width \in Nat /\ steps \in Nat /\ MaxPointers \in Nat
  BY ParserAssumption DEF TypeOK, Packet, Width
<1>3. (Cardinality(visited) + 1) * Width <= (MaxPointers + 2) * Width
  BY <1>1, <1>2, TimesGrows
<1>4. (MaxPointers + 2) * Width \in Nat /\ (Cardinality(visited) + 1) * Width \in Nat
  BY <1>1, <1>2
<1>5. steps <= (MaxPointers + 2) * Width
  BY <1>2, <1>3, <1>4 DEF WorkInv
<1> QED
  BY <1>1, <1>5 DEF WorkBounded, Width

\* Parsing a name takes a number of steps linear in the packet's length, with
\* at most MaxPointers + 1 pointers followed, whatever the packet holds.
THEOREM ParserWorkBounded == Spec => []WorkBounded
<1>1. Init => TypeOK /\ WorkInv
  BY TypeInit, WorkInit
<1>2. TypeOK /\ WorkInv /\ [Next]_vars => (TypeOK /\ WorkInv)'
  BY TypeStep, WorkStep
<1> QED
  BY <1>1, <1>2, WorkEnough, PTL DEF Spec

-----------------------------------------------------------------------------
(* The offset that is returned: until the first pointer or the end it is     *)
(* not known, and the walk is where it started or further on.                *)

Forward ==
    /\ next # 0 => start < next /\ next <= Len(data)
    /\ next = 0 => start <= offset
    /\ pc = "done" => next # 0

\* Every step keeps the end of the name behind its start and inside the data.
LEMMA ForwardStep == TypeOK /\ Forward /\ [Next]_vars => Forward'
<1> SUFFICES ASSUME TypeOK, Forward, [Next]_vars
             PROVE  Forward'
  OBVIOUS
<1>1. Len(data) \in Nat /\ offset \in Nat /\ start \in Nat /\ next \in Nat
  BY DEF TypeOK, Packet
<1>2. CASE Follow
  <2>1. offset + 1 < Len(data) /\ data' = data /\ start' = start
    BY <1>2 DEF Follow, PointerOK, Inside
  <2>2. pc' = "scan" /\ next' = IF next = 0 THEN offset + 2 ELSE next
    BY <1>2 DEF Follow, Scanning
  <2> QED
    BY <1>1, <2>1, <2>2 DEF Forward
<1>3. CASE TakeLabel
  <2>1. IsLabel(At(offset)) /\ offset' = offset + 1 + At(offset)
    BY <1>3 DEF TakeLabel
  <2>2. At(offset) \in Nat
    BY <2>1 DEF IsLabel
  <2>3. UNCHANGED <<data, start, next, pc>>
    BY <1>3 DEF TakeLabel
  <2> QED
    BY <1>1, <2>1, <2>2, <2>3 DEF Forward
<1>4. CASE Root
  <2>1. offset < Len(data) /\ UNCHANGED <<data, start, offset>>
    BY <1>4 DEF Root, Scanning, Inside
  <2>2. next' = IF next = 0 THEN offset + 1 ELSE next
    BY <1>4 DEF Root
  <2> QED
    BY <1>1, <2>1, <2>2 DEF Forward
<1>5. CASE Fail
  BY <1>5 DEF Fail, Forward
<1>6. CASE UNCHANGED vars
  BY <1>6 DEF vars, Forward
<1> QED
  BY <1>2, <1>3, <1>4, <1>5, <1>6 DEF Next

\* A name that is accepted ends after it starts, and within the packet.
THEOREM ParserAdvances == Spec => []Advances
<1>1. Init => Forward
  BY DEF Init, Forward
<1>2. Forward => Advances
  BY DEF Forward, Advances
<1> QED
  BY <1>1, <1>2, TypeInit, TypeStep, ForwardStep, PTL DEF Spec

-----------------------------------------------------------------------------
(* What a name is.  The functions that say so are what their equations say. *)

Offsets == 0..Len(data)
\* A label is at o, and the walk would go on after it.
LabelAt(o) == Inside(o) /\ IsLabel(At(o)) /\ LabelFits(o)
After(o) == o + 1 + At(o)

\* A label ends inside the data, behind its start.
LEMMA LabelGoesOn ==
    ASSUME TypeOK, NEW o \in Offsets, LabelAt(o)
    PROVE  After(o) \in Offsets /\ After(o) > o
BY ByteRange DEF LabelAt, IsLabel, LabelFits, After, Offsets, TypeOK, Packet

\* How far from the end of the packet an offset is.
Left == [o \in Offsets |-> Len(data) - o]

\* Each label leaves fewer bytes.
LEMMA LeftShrinks ==
    ASSUME TypeOK
    PROVE  /\ Len(data) \in Nat /\ Left \in [Offsets -> 0..Len(data)] /\ 0 \in Offsets
           /\ \A o \in Offsets : LabelAt(o) => After(o) \in Offsets /\ Left[After(o)] < Left[o]
<1>1. Len(data) \in Nat
    BY DEF TypeOK, Packet
<1> QED BY <1>1, LabelGoesOn DEF Left, Offsets

\* The end of a run of labels, by its first label.
LEMMA RunEndIs ==
    ASSUME TypeOK
    PROVE  \A o \in Offsets :
              /\ RunEnd[o] \in Offsets
              /\ RunEnd[o] = IF LabelAt(o) THEN RunEnd[After(o)] ELSE o
<1> DEFINE Fixed(h) == h = [o \in Offsets |-> IF LabelAt(o) THEN h[After(o)] ELSE o]
<1>1. \E f \in [Offsets -> Offsets] : Fixed(f)
  <2>1. PICK D, rank, B :
            /\ D = Offsets /\ rank = Left
            /\ B = [f \in [D -> D] |-> [o \in D |-> IF LabelAt(o) THEN f[After(o)] ELSE o]]
      OBVIOUS
  <2>2. D # {} /\ rank \in [D -> Nat] /\ B \in [[D -> D] -> [D -> D]]
      BY <2>1, LeftShrinks
  <2>3. \A f, g \in [D -> D], x \in D :
            (\A y \in D : rank[y] < rank[x] => f[y] = g[y]) => B[f][x] = B[g][x]
      BY <2>1, LeftShrinks
  <2>4. FromLower(D, D, rank, B)
      BY <2>2, <2>3 DEF FromLower
  <2>5. \E f \in [D -> D] : f = B[f]
      BY <2>4, Recursion
  <2> QED BY <2>1, <2>5
<1>2. Fixed(RunEnd)
  <2>1. RunEnd = CHOOSE h : Fixed(h)
      BY DEF RunEnd, Offsets, LabelAt, After
  <2> HIDE DEF Fixed
  <2> QED BY <1>1, <2>1
<1>3. \A o \in Offsets : RunEnd[o] = IF LabelAt(o) THEN RunEnd[After(o)] ELSE o
    BY <1>2
<1>4. Offsets \subseteq {o \in Offsets : RunEnd[o] \in Offsets}
  <2>1. PICK D, S, rank : D = Offsets /\ S = {o \in Offsets : RunEnd[o] \in Offsets} /\ rank = Left
      OBVIOUS
  <2>2. rank \in [D -> Nat]
      BY <2>1, LeftShrinks
  <2>3. \A o \in D : (\A y \in D : rank[y] < rank[o] => y \in S) => o \in S
      BY <1>3, <2>1, LeftShrinks
  <2>4. D \subseteq S
      BY <2>2, <2>3, RankInduction
  <2> QED BY <2>1, <2>4
<1> QED BY <1>3, <1>4

\* The labels of a run, by its first label.
LEMMA RunLabelsAre ==
    ASSUME TypeOK
    PROVE  \A o \in Offsets :
              /\ RunLabels[o] \in Seq(Nat)
              /\ RunLabels[o] = IF LabelAt(o) THEN <<o>> \o RunLabels[After(o)] ELSE <<>>
<1> DEFINE Fixed(h) ==
        h = [o \in Offsets |-> IF LabelAt(o) THEN <<o>> \o h[After(o)] ELSE <<>>]
<1>1. \E f \in [Offsets -> Seq(Nat)] : Fixed(f)
  <2>1. PICK D, V, rank, B :
            /\ D = Offsets /\ V = Seq(Nat) /\ rank = Left
            /\ B = [f \in [D -> V] |->
                      [o \in D |-> IF LabelAt(o) THEN <<o>> \o f[After(o)] ELSE <<>>]]
      OBVIOUS
  <2>2. <<>> \in V /\ rank \in [D -> Nat]
    <3>1. <<>> \in Seq(Nat)
        OBVIOUS
    <3> QED BY <2>1, <3>1, LeftShrinks
  <2>3. B \in [[D -> V] -> [D -> V]]
    <3>1. \A f \in [D -> V], o \in D : LabelAt(o) => <<o>> \o f[After(o)] \in V
      <4>1. ASSUME NEW f \in [D -> V], NEW o \in D, LabelAt(o)
            PROVE  <<o>> \o f[After(o)] \in V
        <5>1. f[After(o)] \in Seq(Nat) /\ <<o>> \in Seq(Nat)
            BY <2>1, <4>1, LeftShrinks DEF Offsets
        <5> QED BY <2>1, <5>1
      <4> QED BY <4>1
    <3> QED BY <2>1, <2>2, <3>1
  <2>4. \A f, g \in [D -> V], x \in D :
            (\A y \in D : rank[y] < rank[x] => f[y] = g[y]) => B[f][x] = B[g][x]
    <3>1. ASSUME NEW f \in [D -> V], NEW g \in [D -> V], NEW x \in D,
                 \A y \in D : rank[y] < rank[x] => f[y] = g[y]
          PROVE  B[f][x] = B[g][x]
      <4>1. LabelAt(x) => f[After(x)] = g[After(x)]
          BY <2>1, <3>1, LeftShrinks
      <4>2. /\ B[f][x] = IF LabelAt(x) THEN <<x>> \o f[After(x)] ELSE <<>>
            /\ B[g][x] = IF LabelAt(x) THEN <<x>> \o g[After(x)] ELSE <<>>
          BY <2>1
      <4> QED BY <4>1, <4>2
    <3> QED BY <3>1
  <2>5. FromLower(D, V, rank, B)
      BY <2>2, <2>3, <2>4 DEF FromLower
  <2>6. \E f \in [D -> V] : f = B[f]
      BY <2>5, Recursion
  <2> QED BY <2>1, <2>6
<1>2. RunLabels \in [Offsets -> Seq(Nat)] /\ Fixed(RunLabels)
  <2>1. RunLabels = CHOOSE h : Fixed(h)
      BY DEF RunLabels, Offsets, LabelAt, After
  <2>2. Fixed(RunLabels)
    <3> HIDE DEF Fixed
    <3> QED BY <1>1, <2>1
  <2>3. Offsets \subseteq {o \in Offsets : RunLabels[o] \in Seq(Nat)}
    <3>1. PICK D, S, rank :
              D = Offsets /\ S = {o \in Offsets : RunLabels[o] \in Seq(Nat)} /\ rank = Left
        OBVIOUS
    <3>2. rank \in [D -> Nat]
        BY <3>1, LeftShrinks
    <3>3. ASSUME NEW o \in D, \A y \in D : rank[y] < rank[o] => y \in S PROVE o \in S
      <4>1. CASE LabelAt(o)
        <5>1. RunLabels[After(o)] \in Seq(Nat) /\ <<o>> \in Seq(Nat)
            BY <3>1, <3>3, <4>1, LeftShrinks DEF Offsets
        <5>2. RunLabels[o] = <<o>> \o RunLabels[After(o)]
            BY <2>2, <3>1, <4>1
        <5>3. <<o>> \o RunLabels[After(o)] \in Seq(Nat)
            BY <5>1
        <5> QED BY <3>1, <5>2, <5>3
      <4>2. CASE ~LabelAt(o)
          BY <2>2, <3>1, <4>2
      <4> QED BY <4>1, <4>2
    <3>4. D \subseteq S
      <4>1. \A x \in D : (\A y \in D : rank[y] < rank[x] => y \in S) => x \in S
          BY <3>3
      <4> QED BY <3>2, <4>1, RankInduction
    <3> QED BY <3>1, <3>4
  <2> QED BY <2>2, <2>3
<1> QED BY <1>2

RootAt(o) == Inside(o) /\ At(o) = 0
PointerAt(o) == Inside(o) /\ IsPointer(At(o)) /\ Inside(o + 1) /\ Target(o) <= Len(data)

\* A pointer that is followed leads inside the data.
LEMMA TargetInside ==
    ASSUME TypeOK, NEW o \in Offsets, PointerAt(o)
    PROVE  Target(o) \in Offsets
BY TargetType DEF PointerAt, Offsets, TypeOK, Packet

Counts == 0..(MaxPointers + 1)
\* What Names[k][o] is, given the names with fewer pointers.
NamesFrom(names, k, o) ==
    IF RootAt(RunEnd[o]) THEN {RunLabels[o]}
    ELSE IF k > 0 /\ PointerAt(RunEnd[o])
    THEN {RunLabels[o] \o rest : rest \in names[k - 1][Target(RunEnd[o])]}
    ELSE {}

\* Names that are sets of sequences of offsets give names that are.
LEMMA NamesFromType ==
    ASSUME TypeOK, NEW names, NEW k \in Counts, NEW o \in Offsets,
           k > 0 => names[k - 1] \in [Offsets -> SUBSET Seq(Nat)]
    PROVE  NamesFrom(names, k, o) \in SUBSET Seq(Nat)
<1>1. RunEnd[o] \in Offsets /\ RunLabels[o] \in Seq(Nat)
    BY RunEndIs, RunLabelsAre
<1>2. ASSUME k > 0, PointerAt(RunEnd[o]), NEW rest \in names[k - 1][Target(RunEnd[o])]
      PROVE  RunLabels[o] \o rest \in Seq(Nat)
  <2>1. Target(RunEnd[o]) \in Offsets
      BY <1>1, <1>2, TargetInside
  <2>2. rest \in Seq(Nat)
      BY <1>2, <2>1
  <2> QED BY <1>1, <2>2
<1> QED BY <1>1, <1>2 DEF NamesFrom

\* They depend on those names only.
LEMMA NamesFromSame ==
    ASSUME NEW f, NEW g, NEW k \in Counts, NEW o, k > 0 => f[k - 1] = g[k - 1]
    PROVE  NamesFrom(f, k, o) = NamesFrom(g, k, o)
BY DEF NamesFrom

\* The names within some number of pointers, by those within one fewer.
LEMMA NamesAre ==
    ASSUME TypeOK
    PROVE  /\ Names \in [Counts -> [Offsets -> SUBSET Seq(Nat)]]
           /\ \A k \in Counts, o \in Offsets : Names[k][o] = NamesFrom(Names, k, o)
<1> DEFINE Fixed(h) == h = [k \in Counts |-> [o \in Offsets |-> NamesFrom(h, k, o)]]
<1>0. MaxPointers + 1 \in Nat /\ 0 \in Counts
    BY ParserAssumption DEF Counts
<1>1. \E f \in [Counts -> [Offsets -> SUBSET Seq(Nat)]] : Fixed(f)
  <2>1. PICK D, V, rank, B :
            /\ D = Counts /\ V = [Offsets -> SUBSET Seq(Nat)]
            /\ rank = [k \in Counts |-> k]
            /\ B = [f \in [D -> V] |-> [k \in D |-> [o \in Offsets |-> NamesFrom(f, k, o)]]]
      OBVIOUS
  <2>2. V # {} /\ rank \in [D -> Nat]
    <3>1. [o \in Offsets |-> {}] \in V
        BY <2>1
    <3>2. rank \in [D -> Nat]
        BY <1>0, <2>1 DEF Counts
    <3> QED BY <3>1, <3>2
  <2>3. \A f \in [D -> V], k \in D : k > 0 => k - 1 \in D /\ f[k - 1] \in V
    <3>1. \A k \in D : k > 0 => k - 1 \in D
        BY <1>0, <2>1 DEF Counts
    <3> QED BY <3>1
  <2>4. B \in [[D -> V] -> [D -> V]]
    <3>1. ASSUME NEW f \in [D -> V], NEW k \in D, NEW o \in Offsets
          PROVE  NamesFrom(f, k, o) \in SUBSET Seq(Nat)
      <4>1. k > 0 => f[k - 1] \in [Offsets -> SUBSET Seq(Nat)]
          BY <2>1, <2>3
      <4>2. k \in Counts
          BY <2>1
      <4> QED BY <4>1, <4>2, NamesFromType
    <3>2. \A f \in [D -> V], k \in D :
              [o \in Offsets |-> NamesFrom(f, k, o)] \in [Offsets -> SUBSET Seq(Nat)]
        BY <3>1
    <3> HIDE DEF NamesFrom
    <3> QED BY <2>1, <3>2
  <2>5. \A f, g \in [D -> V], x \in D :
            (\A y \in D : rank[y] < rank[x] => f[y] = g[y]) => B[f][x] = B[g][x]
    <3>1. ASSUME NEW f \in [D -> V], NEW g \in [D -> V], NEW x \in D,
                 \A y \in D : rank[y] < rank[x] => f[y] = g[y]
          PROVE  B[f][x] = B[g][x]
      <4>1. x > 0 => f[x - 1] = g[x - 1]
          BY <1>0, <2>1, <2>3, <3>1 DEF Counts
      <4>2. \A o \in Offsets : NamesFrom(f, x, o) = NamesFrom(g, x, o)
          BY <2>1, <4>1, NamesFromSame
      <4>3. /\ B[f][x] = [o \in Offsets |-> NamesFrom(f, x, o)]
            /\ B[g][x] = [o \in Offsets |-> NamesFrom(g, x, o)]
          BY <2>1
      <4> QED BY <4>2, <4>3
    <3> QED BY <3>1
  <2>6. FromLower(D, V, rank, B)
      BY <2>2, <2>4, <2>5 DEF FromLower
  <2>7. \E f \in [D -> V] : f = B[f]
      BY <2>6, Recursion
  <2> QED BY <2>1, <2>7
<1>2. Fixed(Names)
  <2>1. Names = CHOOSE h : Fixed(h)
      BY DEF Names, Counts, Offsets, NamesFrom, RootAt, PointerAt
  <2> HIDE DEF Fixed
  <2> QED BY <1>1, <2>1
<1>3. \A k \in Counts : Names[k] \in [Offsets -> SUBSET Seq(Nat)]
  <2>1. PICK S : S = {k \in Nat : k \in Counts => Names[k] \in [Offsets -> SUBSET Seq(Nat)]}
      OBVIOUS
  <2>2. ASSUME NEW k \in Counts, k > 0 => Names[k - 1] \in [Offsets -> SUBSET Seq(Nat)]
        PROVE  Names[k] \in [Offsets -> SUBSET Seq(Nat)]
    <3>1. \A o \in Offsets : NamesFrom(Names, k, o) \in SUBSET Seq(Nat)
        BY <2>2, NamesFromType
    <3>2. Names[k] = [o \in Offsets |-> NamesFrom(Names, k, o)]
        BY <1>2
    <3> QED BY <3>1, <3>2
  <2>3. 0 \in S
      BY <1>0, <2>1, <2>2
  <2>4. \A k \in Nat : k \in S => k + 1 \in S
    <3>1. ASSUME NEW k \in Nat, k \in S, k + 1 \in Counts
          PROVE  Names[k + 1] \in [Offsets -> SUBSET Seq(Nat)]
      <4>1. k \in Counts /\ k + 1 - 1 = k
          BY <1>0, <3>1 DEF Counts
      <4>2. Names[k + 1 - 1] \in [Offsets -> SUBSET Seq(Nat)]
          BY <2>1, <3>1, <4>1
      <4> QED BY <2>2, <3>1, <4>2
    <3> QED BY <2>1, <3>1
  <2>5. \A k \in Nat : k \in S
      BY <2>3, <2>4, Induction
  <2> QED BY <1>0, <2>1, <2>5 DEF Counts
<1> QED BY <1>2, <1>3

-----------------------------------------------------------------------------
(* The names at an offset, by what is there *)

\* Joining runs of labels is associative.
LEMMA ThreeRuns ==
    ASSUME NEW r \in Seq(Nat), NEW s \in Seq(Nat), NEW t \in Seq(Nat)
    PROVE  (r \o s) \o t = r \o (s \o t)
BY ConcatAssociative

\* A name at a label is that label and a name behind it.
LEMMA NamesAtLabel ==
    ASSUME TypeOK, NEW k \in Counts, NEW o \in Offsets, LabelAt(o)
    PROVE  Names[k][o] = {<<o>> \o rest : rest \in Names[k][After(o)]}
<1>1. After(o) \in Offsets /\ RunEnd[o] = RunEnd[After(o)]
    BY LabelGoesOn, RunEndIs
<1>2. PICK e, first, tail :
          e = RunEnd[o] /\ first = <<o>> /\ tail = RunLabels[After(o)]
    OBVIOUS
<1>3. RunLabels[o] = first \o tail /\ first \in Seq(Nat) /\ tail \in Seq(Nat)
  <2>1. RunLabels[o] = <<o>> \o RunLabels[After(o)] /\ RunLabels[After(o)] \in Seq(Nat)
      BY <1>1, RunLabelsAre
  <2>2. <<o>> \in Seq(Nat)
      BY DEF Offsets
  <2> QED BY <1>2, <2>1, <2>2
<1>4. /\ Names[k][o] = NamesFrom(Names, k, o)
      /\ Names[k][After(o)] = NamesFrom(Names, k, After(o))
    BY <1>1, NamesAre
<1>5. CASE RootAt(e)
  <2>1. Names[k][o] = {first \o tail} /\ Names[k][After(o)] = {tail}
      BY <1>1, <1>2, <1>3, <1>4, <1>5 DEF NamesFrom
  <2> QED BY <1>2, <2>1
<1>6. CASE ~RootAt(e) /\ k > 0 /\ PointerAt(e)
  <2>1. PICK rests : rests = Names[k - 1][Target(e)]
      OBVIOUS
  <2>2. rests \in SUBSET Seq(Nat)
    <3>1. k - 1 \in Counts
        BY <1>6, ParserAssumption DEF Counts
    <3>2. Target(e) \in Offsets
        BY <1>1, <1>2, <1>6, RunEndIs, TargetInside
    <3> QED BY <2>1, <3>1, <3>2, NamesAre
  <2>3. /\ Names[k][o] = {(first \o tail) \o rest : rest \in rests}
        /\ Names[k][After(o)] = {tail \o rest : rest \in rests}
      BY <1>1, <1>2, <1>3, <1>4, <1>6, <2>1 DEF NamesFrom
  <2>4. ASSUME NEW rest \in rests
        PROVE  (first \o tail) \o rest = first \o (tail \o rest)
    <3>1. first \in Seq(Nat) /\ tail \in Seq(Nat) /\ rest \in Seq(Nat)
        BY <1>3, <2>2
    <3> QED BY <3>1, ThreeRuns
  <2>5. Names[k][o] = {first \o (tail \o rest) : rest \in rests}
    <3>1. {(first \o tail) \o rest : rest \in rests} = {first \o (tail \o rest) : rest \in rests}
        BY <2>4
    <3> QED BY <2>3, <3>1
  <2>6. {first \o (tail \o rest) : rest \in rests} = {first \o r : r \in {tail \o rest : rest \in rests}}
      OBVIOUS
  <2> QED BY <1>2, <2>3, <2>5, <2>6
<1>7. CASE ~RootAt(e) /\ ~(k > 0 /\ PointerAt(e))
  <2>1. Names[k][o] = {} /\ Names[k][After(o)] = {}
      BY <1>1, <1>2, <1>4, <1>7 DEF NamesFrom
  <2> QED BY <2>1
<1> QED BY <1>5, <1>6, <1>7

\* A byte is the start of a label, the end of a name, or the first of a pointer.
LEMMA Kinds ==
    ASSUME TypeOK, NEW o \in Offsets, Inside(o)
    PROVE  /\ RootAt(o) => ~LabelAt(o)
           /\ IsPointer(At(o)) => ~LabelAt(o) /\ ~RootAt(o)
<1>1. At(o) \in Nat
    BY ByteRange DEF Offsets
<1> QED BY <1>1 DEF RootAt, LabelAt, IsLabel, IsPointer

\* At a zero byte there is the empty name only.
LEMMA NamesAtRoot ==
    ASSUME TypeOK, NEW k \in Counts, NEW o \in Offsets, RootAt(o)
    PROVE  Names[k][o] = {<<>>}
<1>1. ~LabelAt(o)
    BY Kinds DEF RootAt
<1>2. RunEnd[o] = o /\ RunLabels[o] = <<>>
    BY <1>1, RunEndIs, RunLabelsAre
<1> QED BY <1>2, NamesAre DEF NamesFrom

\* A name at a pointer is one at its target, within one pointer fewer.
LEMMA NamesAtPointer ==
    ASSUME TypeOK, NEW k \in Counts, NEW o \in Offsets, PointerAt(o)
    PROVE  Names[k][o] = IF k > 0 THEN Names[k - 1][Target(o)] ELSE {}
<1>1. ~LabelAt(o) /\ ~RootAt(o)
    BY Kinds DEF PointerAt
<1>2. RunEnd[o] = o /\ RunLabels[o] = <<>>
    BY <1>1, RunEndIs, RunLabelsAre
<1>3. Names[k][o] = IF k > 0 THEN {<<>> \o rest : rest \in Names[k - 1][Target(o)]} ELSE {}
  <2>1. Names[k][o] = NamesFrom(Names, k, o)
      BY NamesAre
  <2>2. NamesFrom(Names, k, o)
            = IF k > 0 THEN {RunLabels[o] \o rest : rest \in Names[k - 1][Target(o)]} ELSE {}
      BY <1>1, <1>2 DEF NamesFrom
  <2> QED BY <1>2, <2>1, <2>2
<1>4. ASSUME k > 0 PROVE {<<>> \o rest : rest \in Names[k - 1][Target(o)]} = Names[k - 1][Target(o)]
  <2>1. k - 1 \in Counts
      BY <1>4, ParserAssumption DEF Counts
  <2>2. Names[k - 1][Target(o)] \in SUBSET Seq(Nat)
      BY <2>1, TargetInside, NamesAre
  <2>3. \A rest \in Names[k - 1][Target(o)] : <<>> \o rest = rest
      BY <2>2, ConcatEmptySeq
  <2> QED BY <2>3
<1> QED BY <1>3, <1>4

\* Anywhere else there is no name.
LEMMA NamesNowhere ==
    ASSUME TypeOK, NEW k \in Counts, NEW o \in Offsets,
           ~LabelAt(o), ~RootAt(o), ~PointerAt(o)
    PROVE  Names[k][o] = {}
<1>1. RunEnd[o] = o
    BY RunEndIs
<1> QED BY <1>1, NamesAre DEF NamesFrom

-----------------------------------------------------------------------------
(* What is read *)

\* What the walk still has to read is what is left of the name at the start.
Walk ==
    pc = "scan" =>
        Names[MaxPointers + 1][start] =
            IF offset \in Offsets
            THEN {labels \o rest : rest \in Names[MaxPointers + 1 - Cardinality(visited)][offset]}
            ELSE {}

\* A name at a target passed has an end no nearer than the walk's: of two
\* visits to one target the second would have to be nearer, so there is none.
Nearer ==
    pc = "scan" =>
        \A t \in visited \cap Offsets, k \in Counts :
            Names[k][t] # {} =>
                offset \in Offsets /\ \E i \in 0..k : Names[i][offset] # {}

Answered == pc # "scan" => Names[MaxPointers + 1][start] = IF pc = "done" THEN {labels} ELSE {}

\* The first run of labels is what the returned offset is after.
RunKept ==
    /\ pc = "scan" /\ next = 0 => offset \in Offsets /\ RunEnd[offset] = RunEnd[start]
    /\ pc = "done" => next # 0
    /\ next # 0 => next = RunEnd[start] + (IF At(RunEnd[start]) = 0 THEN 1 ELSE 2)

ReadInv == Walk /\ Nearer /\ Answered /\ RunKept

\* Names depend on the data alone.
LEMMA SameNames ==
    ASSUME data' = data
    PROVE  Names' = Names /\ RunEnd' = RunEnd /\ Offsets' = Offsets
BY DEF Names, RunEnd, RunLabels, Offsets, Inside, At, IsLabel, IsPointer, LabelFits, Target

\* The first state satisfies the invariant of the walk.
LEMMA ReadInit == Init => ReadInv
<1> SUFFICES ASSUME Init PROVE ReadInv
    OBVIOUS
<1>1. TypeOK /\ Cardinality(visited) = 0
    BY TypeInit, FS_EmptySet DEF Init
<1>2. offset \in Offsets /\ start \in Offsets /\ MaxPointers + 1 \in Counts
    BY ParserAssumption DEF Init, Offsets, Counts
<1>3. PICK names : names = Names[MaxPointers + 1][start]
    OBVIOUS
<1>4. \A rest \in names : <<>> \o rest = rest
  <2>1. names \in SUBSET Seq(Nat)
      BY <1>1, <1>2, <1>3, NamesAre
  <2> QED BY <2>1, ConcatEmptySeq
<1>5. Walk
  <2>1. MaxPointers + 1 - Cardinality(visited) = MaxPointers + 1
      BY <1>1, ParserAssumption
  <2>2. {labels \o rest : rest \in names} = names
      BY <1>4 DEF Init
  <2> QED BY <1>2, <1>3, <2>1, <2>2 DEF Walk, Init
<1> QED BY <1>2, <1>5 DEF ReadInv, Nearer, Answered, RunKept, Init

\* Following a pointer keeps it.
LEMMA ReadFollow ==
    ASSUME TypeOK, WorkInv, ReadInv, Follow
    PROVE  ReadInv'
<1>1. /\ data' = data /\ start' = start /\ labels' = labels /\ pc' = "scan" /\ pc = "scan"
      /\ visited' = visited \cup {Target(offset)} /\ offset' = Target(offset)
      /\ next' = IF next = 0 THEN offset + 2 ELSE next
    BY DEF Follow, Scanning
<1>2. Names' = Names /\ RunEnd' = RunEnd /\ Offsets' = Offsets /\ Counts' = Counts
    BY <1>1, SameNames DEF Counts
<1>3. /\ Inside(offset) /\ Inside(offset + 1) /\ IsPointer(At(offset))
      /\ Target(offset) \notin visited /\ Cardinality(visited) <= MaxPointers
    BY DEF Follow, Scanning, PointerOK
<1>4. offset \in Offsets /\ offset \in Nat /\ Len(data) \in Nat /\ Target(offset) \in Nat
    BY <1>3, TargetType DEF TypeOK, Packet, Offsets, Inside
<1>5. ~LabelAt(offset) /\ ~RootAt(offset) /\ (PointerAt(offset) <=> Target(offset) \in Offsets)
    BY <1>3, <1>4, Kinds DEF PointerAt, Offsets
<1>6. PICK k \in Counts : k = MaxPointers + 1 - Cardinality(visited)
    BY <1>3, FS_CardinalityType, ParserAssumption DEF WorkInv, Counts
<1>7. k > 0 /\ k - 1 \in Counts /\ MaxPointers + 1 - Cardinality(visited') = k - 1
  <2>1. Cardinality(visited') = Cardinality(visited) + 1
      BY <1>1, <1>3, FS_AddElement DEF WorkInv
  <2> QED BY <1>3, <1>6, <2>1, FS_CardinalityType, ParserAssumption DEF WorkInv, Counts
<1>8. \A j \in Counts : Names[j][offset] =
          IF j > 0 /\ Target(offset) \in Offsets THEN Names[j - 1][Target(offset)] ELSE {}
    BY <1>4, <1>5, NamesAtPointer, NamesNowhere
<1>9. Walk'
  <2>1. Names[MaxPointers + 1][start] = {labels \o rest : rest \in Names[k][offset]}
      BY <1>1, <1>4, <1>6 DEF ReadInv, Walk
  <2>2. Names[MaxPointers + 1][start] =
            IF Target(offset) \in Offsets
            THEN {labels \o rest : rest \in Names[k - 1][Target(offset)]} ELSE {}
      BY <1>7, <1>8, <2>1
  <2> QED BY <1>1, <1>2, <1>7, <2>2 DEF Walk
<1>10. Nearer'
  <2>1. ASSUME NEW t \in visited \cap Offsets, NEW j \in Counts, Names[j][t] # {}
        PROVE  Target(offset) \in Offsets /\ \E i \in 0..j : Names[i][Target(offset)] # {}
    <3>1. PICK i \in 0..j : Names[i][offset] # {}
        BY <1>1, <2>1 DEF ReadInv, Nearer
    <3>2. i \in Counts
        BY ParserAssumption DEF Counts
    <3>3. i > 0 /\ Target(offset) \in Offsets /\ Names[i - 1][Target(offset)] # {}
        BY <1>8, <3>1, <3>2
    <3>4. i - 1 \in 0..j
        BY <3>3 DEF Counts
    <3> QED BY <3>3, <3>4
  <2>2. \A j \in Counts : j \in 0..j
      BY DEF Counts
  <2> QED BY <1>1, <1>2, <2>1, <2>2 DEF Nearer
<1>11. RunKept'
  <2>1. ASSUME next = 0
        PROVE  next' = RunEnd[start] + (IF At(RunEnd[start]) = 0 THEN 1 ELSE 2)
    <3>1. RunEnd[start] = offset
        BY <1>1, <1>4, <1>5, <2>1, RunEndIs DEF ReadInv, RunKept
    <3>2. At(offset) # 0
        BY <1>3, <1>5 DEF RootAt
    <3> QED BY <1>1, <2>1, <3>1, <3>2
  <2>2. next' = RunEnd[start] + (IF At(RunEnd[start]) = 0 THEN 1 ELSE 2)
      BY <1>1, <2>1 DEF ReadInv, RunKept
  <2>3. next' # 0
      BY <1>1, <1>4 DEF TypeOK
  <2>4. At(RunEnd[start])' = At(RunEnd[start])
      BY <1>1, <1>2 DEF At
  <2> QED BY <1>1, <1>2, <2>2, <2>3, <2>4 DEF RunKept
<1> QED BY <1>1, <1>9, <1>10, <1>11 DEF ReadInv, Answered

\* So does taking a label.
LEMMA ReadLabel ==
    ASSUME TypeOK, WorkInv, ReadInv, TakeLabel
    PROVE  ReadInv'
<1>1. /\ data' = data /\ start' = start /\ labels' = Append(labels, offset)
      /\ pc' = "scan" /\ pc = "scan" /\ visited' = visited /\ next' = next
      /\ offset' = After(offset) /\ LabelAt(offset)
    BY DEF TakeLabel, Scanning, After, LabelAt
<1>2. Names' = Names /\ RunEnd' = RunEnd /\ Offsets' = Offsets /\ Counts' = Counts
    BY <1>1, SameNames DEF Counts
<1>3. offset \in Offsets /\ offset \in Nat /\ labels \in Seq(Nat)
    BY <1>1 DEF LabelAt, TypeOK, Packet, Offsets, Inside
<1>4. After(offset) \in Offsets
    BY <1>1, <1>3, LabelGoesOn
<1>5. \A j \in Counts :
          Names[j][offset] = {<<offset>> \o rest : rest \in Names[j][After(offset)]}
    BY <1>1, <1>3, NamesAtLabel
<1>6. Walk'
  <2>1. PICK k \in Counts : k = MaxPointers + 1 - Cardinality(visited)
      BY FS_CardinalityType, ParserAssumption DEF WorkInv, Counts
  <2>2. PICK rests : rests = Names[k][After(offset)]
      OBVIOUS
  <2>3. rests \in SUBSET Seq(Nat)
      BY <1>4, <2>2, NamesAre
  <2>4. Names[MaxPointers + 1][start] = {labels \o rest : rest \in Names[k][offset]}
      BY <1>1, <1>3, <2>1 DEF ReadInv, Walk
  <2>5. Names[MaxPointers + 1][start] = {labels \o (<<offset>> \o rest) : rest \in rests}
      BY <1>5, <2>2, <2>4
  <2>6. ASSUME NEW rest \in rests
        PROVE  labels \o (<<offset>> \o rest) = labels' \o rest
    <3>1. <<offset>> \in Seq(Nat) /\ rest \in Seq(Nat)
        BY <1>3, <2>3
    <3>2. labels' = labels \o <<offset>>
        BY <1>1, <1>3, AppendIsConcat
    <3> QED BY <1>3, <3>1, <3>2, ConcatAssociative
  <2>7. Names[MaxPointers + 1][start] = {labels' \o rest : rest \in rests}
      BY <2>5, <2>6
  <2> QED BY <1>1, <1>2, <1>4, <2>1, <2>2, <2>7 DEF Walk
<1>7. Nearer'
  <2>1. \A j \in Counts : Names[j][offset] # {} => Names[j][After(offset)] # {}
      BY <1>5
  <2>2. \A j \in Counts : 0..j \subseteq Counts
      BY ParserAssumption DEF Counts
  <2> QED BY <1>1, <1>2, <1>4, <2>1, <2>2 DEF ReadInv, Nearer
<1>8. RunKept'
  <2>1. RunEnd[After(offset)] = RunEnd[offset]
      BY <1>1, <1>3, RunEndIs
  <2>2. At(RunEnd[start])' = At(RunEnd[start])
      BY <1>1, <1>2 DEF At
  <2> QED BY <1>1, <1>2, <1>4, <2>1, <2>2 DEF ReadInv, RunKept
<1> QED BY <1>1, <1>6, <1>7, <1>8 DEF ReadInv, Answered

\* So does ending at a zero byte.
LEMMA ReadRoot ==
    ASSUME TypeOK, WorkInv, ReadInv, Root
    PROVE  ReadInv'
<1>1. /\ data' = data /\ start' = start /\ labels' = labels /\ pc' = "done" /\ pc = "scan"
      /\ next' = (IF next = 0 THEN offset + 1 ELSE next) /\ RootAt(offset)
    BY DEF Root, Scanning, RootAt
<1>2. Names' = Names /\ RunEnd' = RunEnd
    BY <1>1, SameNames
<1>3. offset \in Offsets /\ offset \in Nat /\ labels \in Seq(Nat)
    BY <1>1 DEF RootAt, TypeOK, Packet, Offsets, Inside
<1>4. Answered'
  <2>1. PICK k \in Counts : k = MaxPointers + 1 - Cardinality(visited)
      BY FS_CardinalityType, ParserAssumption DEF WorkInv, Counts
  <2>2. Names[k][offset] = {<<>>}
      BY <1>1, <1>3, NamesAtRoot
  <2>3. Names[MaxPointers + 1][start] = {labels \o rest : rest \in Names[k][offset]}
      BY <1>1, <1>3, <2>1 DEF ReadInv, Walk
  <2>4. labels \o <<>> = labels
      BY <1>3
  <2>5. Names[MaxPointers + 1][start] = {labels}
      BY <2>2, <2>3, <2>4
  <2> QED BY <1>1, <1>2, <2>5 DEF Answered
<1>5. RunKept'
  <2>1. ASSUME next = 0 PROVE RunEnd[start] = offset /\ At(RunEnd[start]) = 0
    <3>1. ~LabelAt(offset)
        BY <1>1, <1>3, Kinds DEF RootAt
    <3> QED BY <1>1, <1>3, <2>1, <3>1, RunEndIs DEF ReadInv, RunKept, RootAt
  <2>2. next' = RunEnd[start] + (IF At(RunEnd[start]) = 0 THEN 1 ELSE 2)
      BY <1>1, <2>1 DEF ReadInv, RunKept
  <2>3. next' # 0
      BY <1>1, <1>3 DEF TypeOK
  <2>4. At(RunEnd[start])' = At(RunEnd[start])
      BY <1>1, <1>2 DEF At
  <2> QED BY <1>1, <1>2, <2>2, <2>3, <2>4 DEF RunKept
<1> QED BY <1>1, <1>4, <1>5 DEF ReadInv, Walk, Nearer

\* A pointer whose target was passed before has no name: of the numbers of
\* pointers a name at that target may take, the least would not be the least.
LEMMA RepeatedIsNoName ==
    ASSUME TypeOK, ReadInv, pc = "scan", offset \in Offsets, PointerAt(offset),
           Target(offset) \in visited, NEW k \in Counts
    PROVE  Names[k][offset] = {}
<1>1. Target(offset) \in Offsets
    BY TargetInside
<1>2. PICK ends : ends = {j \in Counts : Names[j][Target(offset)] # {}}
    OBVIOUS
<1>3. ends = {}
  <2> SUFFICES ASSUME ends # {} PROVE FALSE
      OBVIOUS
  <2>1. PICK j \in ends : \A l \in ends : j <= l
    <3>1. ends \in SUBSET Nat
        BY <1>2 DEF Counts
    <3> QED BY <3>1, LeastNumber
  <2>2. PICK i \in 0..j : Names[i][offset] # {}
      BY <1>1, <1>2 DEF ReadInv, Nearer
  <2>3. i \in Counts /\ i <= j /\ j \in Nat
      BY <1>2, ParserAssumption DEF Counts
  <2>4. i > 0 /\ Names[i - 1][Target(offset)] # {}
      BY <2>2, <2>3, NamesAtPointer
  <2>5. i - 1 \in Counts
      BY <2>3, <2>4, ParserAssumption DEF Counts
  <2>6. i - 1 \in ends
      BY <1>2, <2>4, <2>5
  <2> QED BY <2>1, <2>3, <2>6 DEF Counts
<1>4. k > 0 => k - 1 \in Counts
    BY ParserAssumption DEF Counts
<1> QED BY <1>2, <1>3, <1>4, NamesAtPointer

\* So does failing.
LEMMA ReadFail ==
    ASSUME TypeOK, WorkInv, ReadInv, Fail
    PROVE  ReadInv'
<1>1. /\ data' = data /\ start' = start /\ pc' = "error" /\ pc = "scan" /\ next' = next
      /\ ~(Inside(offset) /\ Readable(offset))
    BY DEF Fail
<1>2. Names' = Names /\ RunEnd' = RunEnd
    BY <1>1, SameNames
<1>3. PICK k \in Counts : k = MaxPointers + 1 - Cardinality(visited)
    BY FS_CardinalityType, ParserAssumption DEF WorkInv, Counts
<1>4. ASSUME offset \in Offsets PROVE Names[k][offset] = {}
  <2>1. ~LabelAt(offset) /\ ~RootAt(offset)
      BY <1>1 DEF Readable, LabelAt, RootAt
  <2>2. CASE ~PointerAt(offset)
      BY <1>4, <2>1, <2>2, NamesNowhere
  <2>3. CASE PointerAt(offset) /\ Target(offset) \in visited
      BY <1>1, <1>4, <2>3, RepeatedIsNoName
  <2>4. CASE PointerAt(offset) /\ Target(offset) \notin visited
    <3>1. ~(Cardinality(visited) <= MaxPointers)
        BY <1>1, <2>4 DEF Readable, PointerAt, PointerOK
    <3>2. k = 0
        BY <1>3, <3>1, FS_CardinalityType, ParserAssumption DEF WorkInv, Counts
    <3> QED BY <1>4, <2>4, <3>2, NamesAtPointer
  <2> QED BY <2>2, <2>3, <2>4
<1>5. Names[MaxPointers + 1][start] = {}
    BY <1>1, <1>3, <1>4 DEF ReadInv, Walk
<1>6. RunKept'
  <2>1. At(RunEnd[start])' = At(RunEnd[start])
      BY <1>1, <1>2 DEF At
  <2> QED BY <1>1, <1>2, <2>1 DEF ReadInv, RunKept
<1> QED BY <1>1, <1>2, <1>5, <1>6 DEF ReadInv, Walk, Nearer, Answered

\* So does every step.
LEMMA ReadStep == TypeOK /\ WorkInv /\ ReadInv /\ [Next]_vars => ReadInv'
<1> SUFFICES ASSUME TypeOK, WorkInv, ReadInv, [Next]_vars PROVE ReadInv'
    OBVIOUS
<1>1. ASSUME UNCHANGED vars PROVE ReadInv'
  <2>1. Names' = Names /\ RunEnd' = RunEnd /\ Offsets' = Offsets
      BY <1>1, SameNames DEF vars
  <2> QED BY <1>1, <2>1 DEF vars, ReadInv, Walk, Nearer, Answered, RunKept, Counts, At
<1> QED BY <1>1, ReadFollow, ReadLabel, ReadRoot, ReadFail DEF Next

\* parse_name returns a name's labels and the end of its first run exactly if
\* the name ends after at most MaxPointers + 1 pointers, for every packet.
THEOREM ParserReadsTheName == Spec => []ReadsTheName
<1>1. Init => TypeOK /\ WorkInv /\ ReadInv
    BY TypeInit, WorkInit, ReadInit
<1>2. TypeOK /\ WorkInv /\ ReadInv /\ [Next]_vars => (TypeOK /\ WorkInv /\ ReadInv)'
    BY TypeStep, WorkStep, ReadStep
<1>3. ReadInv => ReadsTheName
    BY DEF ReadInv, Answered, RunKept, ReadsTheName
<1> QED
    BY <1>1, <1>2, <1>3, PTL DEF Spec

===============================================================================
