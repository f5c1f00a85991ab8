--------------------------- MODULE ReflectorProofs ---------------------------
(***************************************************************************)
(* Theorems about Reflector, for any number of interfaces, packets, places *)
(* in the channel and rules: the history of a message is what was sent,    *)
(* its disposition says so, and it is what the rules let through.          *)
(***************************************************************************)
EXTENDS Reflector, NumberLemmas, TLAPS

Item == [kind : {"question", "record"}, names : (SUBSET Seq(Nat)) \ {{}}]
Entry == [id : Nat, src : Interfaces, routing : Seq(RouteRecord),
          disposition : {"forwarded", "partially_forwarded", "dropped"},
          fwd : SUBSET Interfaces, drop : SUBSET Interfaces]

\* Types, with the sequences as such.
Typed ==
    /\ config = Load(file)
    /\ sockets \subseteq Interfaces
    /\ received \in 0..MaxPackets
    /\ holding \in [Interfaces -> Seq(Message)]
    /\ \A i \in Interfaces : Len(holding[i]) <= 1
    /\ channel \in Seq(Message) /\ Len(channel) <= Capacity
    /\ current \in Seq(Message) /\ Len(current) <= 1
    /\ todo \subseteq sockets
    /\ routing \in Seq(RouteRecord)
    /\ recorded \in Seq(Entry)

Ids(seq) == {seq[k].id : k \in DOMAIN seq}
Distinct(seq) == \A k, l \in DOMAIN seq : seq[k].id = seq[l].id => k = l
Done == Ids(current) \cup Ids(recorded)

\* A packet is in one place only.
Apart ==
    /\ \A i \in Interfaces :
          /\ Ids(holding[i]) \subseteq 1..received
          /\ Ids(holding[i]) \cap (Ids(channel) \cup Done) = {}
          /\ \A j \in Interfaces : i # j => Ids(holding[i]) \cap Ids(holding[j]) = {}
    /\ Ids(channel) \cup Done \subseteq 1..received
    /\ Ids(channel) \cap Done = {}
    /\ Distinct(channel)
    /\ Ids(current) \cap Ids(recorded) = {}

\* Only packets the loop has taken were sent.
SentDone == \A s \in sent : s.id \in Done

\* What is noted of message m in rt is what was sent, to all but left.
Told(m, rt, left) ==
    /\ \A n \in DOMAIN rt :
          /\ rt[n].fwd = {d \in sockets : WentTo(m, n, d)}
          /\ rt[n].drop = ((sockets \ {m.src}) \ left) \ rt[n].fwd
          /\ rt[n].fwd \subseteq (sockets \ {m.src}) \ left
    /\ \A s \in sent : s.id = m.id =>
          s.dst \in sockets /\ \E it \in s.items : it[1] \in DOMAIN rt

RoutingSoFar ==
    current # <<>> =>
        /\ DOMAIN routing = DOMAIN Items(current[1])
        /\ routing # <<>>
        /\ todo \subseteq sockets \ {current[1].src}
        /\ Told(current[1], routing, todo)

LogTold ==
    \A k \in DOMAIN recorded :
        /\ Told(recorded[k], recorded[k].routing, {})
        /\ recorded[k].routing # <<>>
        /\ recorded[k].disposition = Disposition(recorded[k].routing)

RInv == Typed /\ Apart /\ SentDone /\ RoutingSoFar /\ LogTold

-----------------------------------------------------------------------------
(* Sequences of messages *)

\* A message put behind distinct messages, with an id of its own, leaves them distinct.
LEMMA Concatenated ==
    ASSUME NEW s \in Seq(Message), NEW t \in Seq(Message), Len(t) <= 1,
           Distinct(s), Ids(s) \cap Ids(t) = {}
    PROVE  /\ s \o t \in Seq(Message)
           /\ Len(s \o t) = Len(s) + Len(t)
           /\ Distinct(s \o t)
           /\ Ids(s \o t) = Ids(s) \cup Ids(t)
<1> DEFINE u == s \o t
<1>1. /\ u \in Seq(Message) /\ Len(u) = Len(s) + Len(t)
      /\ \A k \in 1..Len(u) : u[k] = IF k <= Len(s) THEN s[k] ELSE t[k - Len(s)]
    OBVIOUS
<1>2. DOMAIN s = 1..Len(s) /\ DOMAIN t = 1..Len(t) /\ DOMAIN u = 1..Len(u)
    BY <1>1
<1>3. Len(s) \in Nat /\ Len(t) \in Nat
    OBVIOUS
<1> HIDE DEF u
<1>0. /\ \A k \in 1..Len(s) : s[k].id \in Ids(s)
      /\ \A k \in 1..Len(t) : t[k].id \in Ids(t)
    BY <1>2 DEF Ids
<1>4. Ids(u) = Ids(s) \cup Ids(t)
  <2>1. \A k \in DOMAIN u : u[k].id \in Ids(s) \cup Ids(t)
    <3> SUFFICES ASSUME NEW k \in 1..Len(u) PROVE u[k].id \in Ids(s) \cup Ids(t)
        BY <1>2
    <3>1. CASE k <= Len(s)
      <4>1. k \in 1..Len(s) /\ u[k] = s[k]
          BY <3>1, <1>1, <1>3
      <4> QED BY <1>0, <4>1
    <3>2. CASE k > Len(s)
      <4>1. k - Len(s) \in 1..Len(t) /\ u[k] = t[k - Len(s)]
          BY <3>2, <1>1, <1>3
      <4> QED BY <1>0, <4>1
    <3> QED BY <3>1, <3>2, <1>3
  <2>2. \A k \in DOMAIN s : s[k].id \in Ids(u)
      BY <1>1, <1>2, <1>3 DEF Ids
  <2>3. \A k \in DOMAIN t : t[k].id \in Ids(u)
    <3> SUFFICES ASSUME NEW k \in 1..Len(t) PROVE t[k].id \in Ids(u)
        BY <1>2
    <3>1. k + Len(s) \in 1..Len(u) /\ u[k + Len(s)] = t[k]
        BY <1>1, <1>3
    <3> QED BY <3>1, <1>2 DEF Ids
  <2> QED BY <2>1, <2>2, <2>3 DEF Ids
<1>5. Distinct(u)
  <2> SUFFICES ASSUME NEW k \in 1..Len(u), NEW l \in 1..Len(u), u[k].id = u[l].id
               PROVE  k = l
      BY <1>2 DEF Distinct
  <2>1. CASE k <= Len(s) /\ l <= Len(s)
    <3>1. k \in 1..Len(s) /\ l \in 1..Len(s) /\ u[k] = s[k] /\ u[l] = s[l]
        BY <2>1, <1>1, <1>3
    <3> QED BY <3>1, <1>2 DEF Distinct
  <2>2. CASE k > Len(s) /\ l > Len(s)
      BY <2>2, <1>1, <1>3
  <2>3. CASE k <= Len(s) /\ l > Len(s)
    <3>1. u[k] = s[k] /\ u[l] = t[l - Len(s)] /\ l - Len(s) \in 1..Len(t)
        BY <2>3, <1>1, <1>3
    <3>2. u[k].id \in Ids(s) /\ u[l].id \in Ids(t)
      <4>1. k \in 1..Len(s)
          BY <2>3, <1>3
      <4> QED BY <1>0, <3>1, <4>1
    <3> QED BY <3>2
  <2>4. CASE k > Len(s) /\ l <= Len(s)
    <3>1. u[l] = s[l] /\ u[k] = t[k - Len(s)] /\ k - Len(s) \in 1..Len(t)
        BY <2>4, <1>1, <1>3
    <3>2. u[l].id \in Ids(s) /\ u[k].id \in Ids(t)
      <4>1. l \in 1..Len(s)
          BY <2>4, <1>3
      <4> QED BY <1>0, <3>1, <4>1
    <3> QED BY <3>2
  <2> QED BY <2>1, <2>2, <2>3, <2>4, <1>3
<1> QED BY <1>1, <1>4, <1>5 DEF u

\* Taking the first of distinct messages leaves the others, one fewer, without its id.
LEMMA HeadAndTail ==
    ASSUME NEW s \in Seq(Message), s # <<>>, Distinct(s)
    PROVE  /\ Head(s) \in Message
           /\ Tail(s) \in Seq(Message)
           /\ Len(Tail(s)) = Len(s) - 1
           /\ Distinct(Tail(s))
           /\ Ids(Tail(s)) \subseteq Ids(s) \ {Head(s).id}
           /\ Head(s).id \in Ids(s)
<1>1. Len(s) \in Nat \ {0} /\ DOMAIN s = 1..Len(s) /\ Head(s) = s[1] /\ s[1] \in Message
    OBVIOUS
<1>2. /\ Tail(s) \in Seq(Message) /\ Len(Tail(s)) = Len(s) - 1
      /\ DOMAIN Tail(s) = 1..(Len(s) - 1)
      /\ \A k \in 1..(Len(s) - 1) : Tail(s)[k] = s[k + 1]
    BY <1>1
<1>3. Distinct(Tail(s))
    BY <1>1, <1>2 DEF Distinct
<1>4. \A k \in DOMAIN Tail(s) : Tail(s)[k].id \in Ids(s) \ {Head(s).id}
    BY <1>1, <1>2 DEF Ids, Distinct
<1> QED BY <1>1, <1>2, <1>3, <1>4 DEF Ids

-----------------------------------------------------------------------------
(* The invariant *)

\* The first state satisfies the invariant.
LEMMA InitRInv == Init => RInv
<1> SUFFICES ASSUME Init PROVE RInv
    OBVIOUS
<1>1. /\ \A i \in Interfaces : Ids(holding[i]) = {}
      /\ Ids(channel) = {} /\ Ids(current) = {} /\ Ids(recorded) = {}
    BY DEF Init, Ids
<1>2. Typed
    BY ReflectorAssumption DEF Init, Typed
<1>3. Apart
    BY <1>1 DEF Init, Apart, Done, Distinct
<1>4. SentDone /\ RoutingSoFar /\ LogTold
    BY DEF Init, SentDone, RoutingSoFar, LogTold
<1> QED BY <1>2, <1>3, <1>4 DEF RInv

\* While nothing is sent, what is told stays told.
LEMMA ToldStays ==
    ASSUME RInv, UNCHANGED <<sockets, sent>>
    PROVE  /\ UNCHANGED <<current, todo, routing>> => RoutingSoFar'
           /\ UNCHANGED recorded => LogTold'
<1>1. \A m, rt, left : Told(m, rt, left)' <=> Told(m, rt, left)
    BY DEF Told, WentTo
<1> QED BY <1>1 DEF RInv, RoutingSoFar, LogTold

\* Receiving keeps the invariant.
LEMMA ReceiveRInv ==
    ASSUME RInv, NEW i \in Interfaces, Receive(i)
    PROVE  RInv'
<1>1. PICK p \in Packets :
          holding' = [holding EXCEPT
              ![i] = <<[id |-> received + 1, src |-> i, packet |-> p]>>]
    BY DEF Receive
<1> DEFINE m == [id |-> received + 1, src |-> i, packet |-> p]
<1>2. received \in Nat /\ received' = received + 1 /\ received' \in 0..MaxPackets
    BY ReflectorAssumption DEF RInv, Typed, Receive
<1>3. m \in Message /\ m.id = received + 1
    BY <1>2 DEF Message
<1> HIDE DEF m
<1>4. /\ holding'[i] = <<m>>
      /\ \A j \in Interfaces : j # i => holding'[j] = holding[j]
      /\ Ids(holding'[i]) = {received + 1}
    BY <1>1, <1>3 DEF RInv, Typed, Ids, m
<1>5. Typed'
    BY <1>1, <1>2, <1>3, <1>4 DEF RInv, Typed, Receive, m
<1>6. Apart'
  <2>1. UNCHANGED <<channel, current, recorded>>
      BY DEF Receive
  <2>2. 1..received \subseteq 1..received' /\ received + 1 \in 1..received' /\ received + 1 \notin 1..received
      BY <1>2
  <2>3. Done' = Done /\ Ids(channel)' = Ids(channel) /\ Ids(current)' = Ids(current) /\ Ids(recorded)' = Ids(recorded)
      BY <2>1 DEF Done, Ids
  <2> QED BY <1>4, <2>1, <2>2, <2>3 DEF RInv, Apart, Distinct
<1>7. SentDone' /\ RoutingSoFar' /\ LogTold'
    BY ToldStays DEF RInv, SentDone, Done, Ids, Receive
<1> QED BY <1>5, <1>6, <1>7 DEF RInv

\* Handing a packet to the channel keeps it.
LEMMA EnqueueRInv ==
    ASSUME RInv, NEW i \in Interfaces, Enqueue(i)
    PROVE  RInv'
<1>1. /\ channel' = channel \o holding[i]
      /\ channel \in Seq(Message) /\ holding[i] \in Seq(Message)
      /\ Len(holding[i]) <= 1 /\ Len(channel) < Capacity
      /\ Ids(channel) \cap Ids(holding[i]) = {} /\ Distinct(channel)
    BY DEF RInv, Typed, Apart, Enqueue
<1>2. /\ channel' \in Seq(Message)
      /\ Len(channel') = Len(channel) + Len(holding[i])
      /\ Distinct(channel')
      /\ Ids(channel') = Ids(channel) \cup Ids(holding[i])
    BY <1>1, Concatenated
<1>3. /\ holding' \in [Interfaces -> Seq(Message)]
      /\ holding'[i] = <<>> /\ Len(holding'[i]) = 0
      /\ \A j \in Interfaces : j # i => holding'[j] = holding[j]
    BY DEF RInv, Typed, Enqueue
<1>4. Ids(holding'[i]) = {}
    BY <1>3 DEF Ids
<1>5. Len(channel') <= Capacity
    BY <1>1, <1>2, ReflectorAssumption
<1>6. Typed'
    BY <1>2, <1>3, <1>5 DEF RInv, Typed, Enqueue
<1>7. Apart'
  <2>1. UNCHANGED <<received, current, recorded>>
      BY DEF Enqueue
  <2>2. Done' = Done /\ Ids(current)' = Ids(current) /\ Ids(recorded)' = Ids(recorded)
      BY <2>1 DEF Done, Ids
  <2> QED BY <1>2, <1>3, <1>4, <2>1, <2>2 DEF RInv, Apart
<1>8. SentDone' /\ RoutingSoFar' /\ LogTold'
    BY ToldStays DEF RInv, SentDone, Done, Ids, Enqueue
<1> QED BY <1>6, <1>7, <1>8 DEF RInv

\* Taking a packet from the channel keeps it.
LEMMA TakeRInv ==
    ASSUME RInv, Take
    PROVE  RInv'
<1>0. PICK m : m = Head(channel)
    OBVIOUS
<1>1. /\ channel # <<>> /\ channel' = Tail(channel)
      /\ current = <<>> /\ channel \in Seq(Message) /\ Distinct(channel)
    BY DEF RInv, Typed, Apart, Take
<1>2. /\ m \in Message
      /\ channel' \in Seq(Message)
      /\ Len(channel') = Len(channel) - 1
      /\ Distinct(channel')
      /\ Ids(channel') \subseteq Ids(channel) \ {m.id}
      /\ m.id \in Ids(channel)
    BY <1>0, <1>1, HeadAndTail
<1>3. Len(channel') <= Capacity
    BY <1>1, <1>2, ReflectorAssumption DEF RInv, Typed
<1>4. UNCHANGED <<file, config, sockets, received, holding, sent, recorded>>
    BY DEF Take
<1>5. Ids(current) = {} /\ Ids(recorded)' = Ids(recorded)
    BY <1>1, <1>4 DEF Ids
<1>6. /\ m.packet.items \in Seq(Item) /\ m.src \in Interfaces
    BY <1>2, ReflectorAssumption DEF Message, Item
<1>7. CASE Routable(m)
  <2>1. /\ current' = <<m>> /\ todo' = Destinations(m.src)
        /\ routing' = [n \in DOMAIN Items(m) |-> NoRoute]
      BY <1>0, <1>7 DEF Take
  <2>2. Ids(current') = {m.id} /\ current'[1] = m
      BY <2>1 DEF Ids
  <2>3. Items(m) # <<>> /\ Items(m) \in Seq(Item)
      BY <1>6, <1>7 DEF Routable, Items
  <2>4. DOMAIN Items(m) = 1..Len(Items(m)) /\ Len(Items(m)) \in Nat \ {0}
      BY <2>3
  <2>5. routing' \in Seq(RouteRecord) /\ routing' # <<>>
    <3>1. NoRoute \in RouteRecord
        BY DEF NoRoute, RouteRecord
    <3> QED BY <2>1, <2>4, <3>1
  <2>6. Typed'
      BY <1>2, <1>3, <1>4, <2>1, <2>5 DEF RInv, Typed, Destinations
  <2>7. Done' = Done \cup {m.id}
      BY <1>5, <2>2 DEF Done, Ids
  <2>8. Apart'
    <3>1. \A i \in Interfaces : m.id \notin Ids(holding[i])
        BY <1>2 DEF RInv, Apart
    <3>2. Ids(channel') \subseteq Ids(channel) /\ m.id \notin Ids(channel') /\ m.id \notin Done
        BY <1>2 DEF RInv, Apart
    <3>3. \A i \in Interfaces : Ids(holding[i]) \cap (Ids(channel') \cup Done') = {}
        BY <2>7, <3>1, <3>2 DEF RInv, Apart
    <3>4. /\ Ids(channel') \cup Done' \subseteq 1..received /\ Ids(channel') \cap Done' = {}
          /\ Ids(current') \cap Ids(recorded) = {}
        BY <1>2, <2>2, <2>7, <3>2 DEF RInv, Apart, Done
    <3>5. \A i \in Interfaces : Ids(holding[i])' = Ids(holding[i])
        BY <1>4 DEF Ids
    <3> QED BY <1>2, <1>4, <1>5, <3>3, <3>4, <3>5 DEF RInv, Apart
  <2>9. SentDone'
      BY <1>4, <2>7 DEF RInv, SentDone
  <2>10. \A s \in sent : s.id # m.id
      BY <1>2 DEF RInv, SentDone, Apart
  <2>11. ASSUME NEW rt, NEW left, left = sockets \ {m.src},
                \A n \in DOMAIN rt : rt[n].fwd = {} /\ rt[n].drop = {}
         PROVE  Told(m, rt, left)'
    <3>1. \A n, d : ~ WentTo(m, n, d)'
        BY <1>4, <2>10 DEF WentTo
    <3> QED BY <3>1, <1>4, <2>10, <2>11 DEF Told
  <2>12. RoutingSoFar'
    <3>1. \A n \in DOMAIN routing' : routing'[n].fwd = {} /\ routing'[n].drop = {}
        BY <2>1 DEF NoRoute
    <3>2. todo' = sockets \ {m.src}
        BY <2>1 DEF Destinations
    <3>3. DOMAIN routing' = DOMAIN Items(m)
        BY <2>1
    <3>4. Told(current[1], routing, todo)'
        BY <3>1, <3>2, <2>2, <2>11
    <3> QED BY <3>2, <3>3, <3>4, <2>2, <2>5, <1>4 DEF RoutingSoFar, Items
  <2>13. LogTold'
      BY ToldStays, <1>4
  <2> QED BY <2>6, <2>8, <2>9, <2>12, <2>13 DEF RInv
<1>8. CASE ~Routable(m)
  <2>1. UNCHANGED <<current, todo, routing>>
      BY <1>0, <1>8 DEF Take
  <2>2. Typed'
      BY <1>2, <1>3, <1>4, <2>1 DEF RInv, Typed
  <2>3. Done' = Done /\ Ids(current)' = Ids(current)
      BY <2>1, <1>4 DEF Done, Ids
  <2>4. Apart'
      BY <1>2, <1>4, <1>5, <2>3 DEF RInv, Apart
  <2>5. SentDone' /\ RoutingSoFar' /\ LogTold'
      BY ToldStays, <1>4, <2>1, <2>3 DEF RInv, SentDone
  <2> QED BY <2>2, <2>4, <2>5 DEF RInv
<1> QED BY <1>7, <1>8

\* Recording the packet keeps it.
LEMMA RecordRInv ==
    ASSUME RInv, Record
    PROVE  RInv'
<1> DEFINE entry(m) ==
              [id |-> m.id, src |-> m.src, routing |-> routing,
               disposition |-> Disposition(routing),
               fwd  |-> UNION {routing[n].fwd : n \in DOMAIN routing},
               drop |-> UNION {routing[n].drop : n \in DOMAIN routing}]
<1>0. PICK m : m = current[1]
    OBVIOUS
<1>a. PICK e : e = entry(m)
    OBVIOUS
<1>1. /\ current # <<>> /\ todo = {}
      /\ recorded' = Append(recorded, e)
      /\ current' = <<>> /\ routing' = <<>>
      /\ UNCHANGED <<file, config, sockets, received, holding, channel, todo, sent>>
    BY <1>0, <1>a DEF Record
<1>2. /\ current \in Seq(Message) /\ Len(current) <= 1 /\ routing \in Seq(RouteRecord)
      /\ recorded \in Seq(Entry)
    BY DEF RInv, Typed
<1>3. m \in Message /\ Ids(current) = {m.id}
  <2>1. Len(current) \in Nat /\ Len(current) # 0 /\ DOMAIN current = 1..Len(current)
      BY <1>1, <1>2
  <2>2. DOMAIN current = {1}
      BY <2>1, <1>2
  <2> QED BY <1>0, <2>2, <1>2 DEF Ids
<1>4. e \in Entry
  <2>1. \A n \in DOMAIN routing : routing[n].fwd \subseteq Interfaces /\ routing[n].drop \subseteq Interfaces
    <3> SUFFICES ASSUME NEW n \in DOMAIN routing
                 PROVE  routing[n].fwd \subseteq Interfaces /\ routing[n].drop \subseteq Interfaces
        OBVIOUS
    <3>1. routing[n] \in RouteRecord
        BY <1>2
    <3> QED BY <3>1 DEF RouteRecord
  <2>2. Disposition(routing) \in {"forwarded", "partially_forwarded", "dropped"}
      BY DEF Disposition
  <2> QED BY <1>a, <1>2, <1>3, <2>1, <2>2 DEF Entry, Message
<1>5. e.id = m.id /\ e.src = m.src /\ e.routing = routing /\ e.disposition = Disposition(routing)
    BY <1>a
<1> HIDE DEF entry
<1>6. /\ recorded' \in Seq(Entry) /\ DOMAIN recorded = 1..Len(recorded)
      /\ DOMAIN recorded' = 1..(Len(recorded) + 1) /\ Len(recorded) \in Nat
      /\ \A k \in DOMAIN recorded : recorded'[k] = recorded[k]
      /\ recorded'[Len(recorded) + 1] = e
    BY <1>1, <1>2, <1>4
<1>7. Ids(recorded') = Ids(recorded) \cup {m.id} /\ Ids(current') = {}
  <2>1. \A k \in DOMAIN recorded' : recorded'[k].id \in Ids(recorded) \cup {m.id}
      BY <1>5, <1>6 DEF Ids
  <2>2. \A k \in DOMAIN recorded : recorded[k].id \in Ids(recorded')
      BY <1>6 DEF Ids
  <2>3. m.id \in Ids(recorded')
      BY <1>5, <1>6, Len(recorded) + 1 \in DOMAIN recorded' DEF Ids
  <2> QED BY <1>1, <2>1, <2>2, <2>3 DEF Ids
<1>8. Done' = Done
    BY <1>3, <1>7 DEF Done, Ids
<1>9. Typed'
    BY <1>1, <1>2, <1>6 DEF RInv, Typed
<1>10. Apart'
  <2>1. Ids(channel)' = Ids(channel) /\ Ids(current)' = {}
      BY <1>1, <1>7 DEF Ids
  <2> QED BY <1>1, <1>8, <2>1 DEF RInv, Apart, Distinct
<1>11. SentDone' /\ RoutingSoFar'
    BY <1>1, <1>8 DEF RInv, SentDone, RoutingSoFar
<1>12. LogTold'
  <2>1. \A rt, left, a, b : a.id = b.id /\ a.src = b.src => (Told(a, rt, left) <=> Told(b, rt, left)')
      BY <1>1 DEF Told, WentTo
  <2>2. Told(m, routing, {}) /\ routing # <<>>
      BY <1>0, <1>1 DEF RInv, RoutingSoFar
  <2>3. Told(e, e.routing, {})' /\ e.routing # <<>> /\ e.disposition = Disposition(e.routing)
      BY <2>1, <2>2, <1>5
  <2>4. ASSUME NEW r, r \in {recorded[k] : k \in DOMAIN recorded} \cup {e}
        PROVE  /\ Told(r, r.routing, {})'
               /\ r.routing # <<>>
               /\ r.disposition = Disposition(r.routing)
    <3>1. CASE r = e
        BY <3>1, <2>3
    <3>2. CASE r # e
      <4>1. PICK k \in DOMAIN recorded : r = recorded[k]
          BY <2>4, <3>2
      <4>2. /\ Told(r, r.routing, {}) /\ r.routing # <<>>
            /\ r.disposition = Disposition(r.routing)
          BY <4>1 DEF RInv, LogTold
      <4> QED BY <4>2, <2>1
    <3> QED BY <3>1, <3>2
  <2>5. \A k \in DOMAIN recorded' :
            recorded'[k] \in {recorded[n] : n \in DOMAIN recorded} \cup {e}
      BY <1>6
  <2> QED BY <2>4, <2>5 DEF LogTold
<1> QED BY <1>9, <1>10, <1>11, <1>12 DEF RInv

\* One send_to, or none, and what is noted of it.
LEMMA RouteToSends ==
    ASSUME RInv, NEW dst \in Interfaces, RouteTo(dst), NEW m, m = current[1]
    PROVE  \E kept \in SUBSET DOMAIN Items(m) :
              /\ Send(m, dst, kept)
              /\ routing' = Route(kept, dst)
<1> DEFINE kept == IF config.rewrite THEN KeptItems(m, dst) ELSE KeptWhole(m, dst)
<1>1. kept \subseteq DOMAIN Items(m)
    BY DEF KeptItems, KeptWhole
<1>2. CASE Send(m, dst, kept) /\ routing' = Route(kept, dst)
    BY <1>1, <1>2
<1>3. CASE UNCHANGED sent /\ routing' = Route({}, dst)
    BY <1>3 DEF Send
<1> QED BY <1>2, <1>3 DEF RouteTo

\* Routing the packet to one interface keeps it.
LEMMA RouteToRInv ==
    ASSUME RInv, NEW dst \in Interfaces, RouteTo(dst)
    PROVE  RInv'
<1>0. PICK m : m = current[1]
    OBVIOUS
<1>1. PICK kept \in SUBSET DOMAIN Items(m) : Send(m, dst, kept) /\ routing' = Route(kept, dst)
    BY <1>0, RouteToSends
<1>2. /\ current # <<>> /\ dst \in todo /\ todo' = todo \ {dst}
      /\ UNCHANGED <<file, config, sockets, received, holding, channel, current, recorded>>
    BY DEF RouteTo
<1>3. /\ DOMAIN routing = DOMAIN Items(m) /\ routing # <<>>
      /\ todo \subseteq sockets \ {m.src}
      /\ Told(m, routing, todo)
    BY <1>0, <1>2 DEF RInv, RoutingSoFar
<1>4. m.id \in Ids(current) /\ m.id \in Done /\ m.id \notin Ids(recorded)
  <2>1. current \in Seq(Message) /\ current # <<>>
      BY <1>2 DEF RInv, Typed
  <2>2. 1 \in DOMAIN current
      BY <2>1
  <2> QED BY <1>0, <2>2 DEF RInv, Apart, Ids, Done
<1>5. /\ routing' \in Seq(RouteRecord) /\ DOMAIN routing' = DOMAIN routing /\ routing' # <<>>
      /\ \A n \in DOMAIN routing :
            /\ routing'[n].fwd = IF n \in kept THEN routing[n].fwd \cup {dst} ELSE routing[n].fwd
            /\ routing'[n].drop = IF n \in kept THEN routing[n].drop ELSE routing[n].drop \cup {dst}
  <2>1. routing \in Seq(RouteRecord) /\ DOMAIN routing = 1..Len(routing) /\ Len(routing) \in Nat \ {0}
      BY <1>3 DEF RInv, Typed
  <2>2. \A n \in DOMAIN routing : routing[n] \in RouteRecord
      BY <2>1
  <2>3. routing' = [n \in 1..Len(routing) |->
                       IF n \in kept THEN [routing[n] EXCEPT !.fwd = @ \cup {dst}]
                                     ELSE [routing[n] EXCEPT !.drop = @ \cup {dst}]]
      BY <1>1, <2>1 DEF Route
  <2>4. \A n \in DOMAIN routing :
           /\ routing'[n] \in RouteRecord
           /\ routing'[n].fwd = IF n \in kept THEN routing[n].fwd \cup {dst} ELSE routing[n].fwd
           /\ routing'[n].drop = IF n \in kept THEN routing[n].drop ELSE routing[n].drop \cup {dst}
      BY <2>1, <2>2, <2>3 DEF RouteRecord
  <2>5. DOMAIN routing' = 1..Len(routing)
      BY <2>3
  <2>6. routing' \in Seq(RouteRecord) /\ Len(routing') = Len(routing)
      BY <2>1, <2>3, <2>4
  <2> QED BY <2>1, <2>4, <2>5, <2>6
<1>6. Typed'
    BY <1>2, <1>5 DEF RInv, Typed
<1>7. Done' = Done /\ \A seq : Ids(seq)' = Ids(seq)
    BY <1>2 DEF Done, Ids
<1>8. Apart'
  <2>1. /\ UNCHANGED <<received, holding, channel, current, recorded>>
        /\ Ids(channel)' = Ids(channel) /\ Ids(current)' = Ids(current) /\ Ids(recorded)' = Ids(recorded)
        /\ Distinct(channel)' = Distinct(channel)
        /\ \A i \in Interfaces : Ids(holding[i])' = Ids(holding[i])
      BY <1>2 DEF Ids, Distinct
  <2> QED BY <1>7, <2>1 DEF RInv, Apart
<1>9. \A s \in sent' : s \in sent \/ s.id = m.id
    BY <1>1 DEF Send
<1>10. SentDone'
    BY <1>4, <1>7, <1>9 DEF RInv, SentDone
<1>11. sent \subseteq sent'
    BY <1>1 DEF Send
<1>12. ASSUME NEW n \in DOMAIN routing, NEW d
       PROVE  WentTo(m, n, d)' <=> WentTo(m, n, d) \/ (d = dst /\ n \in kept)
  <2> DEFINE x == [id |-> m.id, src |-> m.src, dst |-> dst,
                   response |-> m.packet.response,
                   items |-> {<<k, Items(m)[k]>> : k \in kept}]
  <2>1. x.id = m.id /\ x.dst = dst /\ x.items = {<<k, Items(m)[k]>> : k \in kept}
      OBVIOUS
  <2>2. sent' = IF kept = {} THEN sent ELSE sent \cup {x}
      BY <1>1 DEF Send
  <2>3. (\E it \in x.items : it[1] = n) <=> n \in kept
    <3>1. ASSUME n \in kept PROVE \E it \in x.items : it[1] = n
        BY <3>1, <2>1, <<n, Items(m)[n]>> \in x.items
    <3>2. ASSUME NEW it \in x.items, it[1] = n PROVE n \in kept
        BY <3>2, <2>1
    <3> QED BY <3>1, <3>2
  <2> HIDE DEF x
  <2>4. CASE kept = {}
      BY <2>2, <2>4 DEF WentTo
  <2>5. CASE kept # {}
      BY <2>1, <2>2, <2>3, <2>5 DEF WentTo
  <2> QED BY <2>4, <2>5
<1>13. ASSUME NEW rt, NEW left, rt = routing', left = todo'
       PROVE  Told(m, rt, left)'
  <2>1. ASSUME NEW n \in DOMAIN routing
        PROVE  /\ rt[n].fwd = {d \in sockets : WentTo(m, n, d)'}
               /\ rt[n].drop = ((sockets \ {m.src}) \ left) \ rt[n].fwd
               /\ rt[n].fwd \subseteq (sockets \ {m.src}) \ left
    <3>1. /\ routing[n].fwd = {d \in sockets : WentTo(m, n, d)}
          /\ routing[n].drop = ((sockets \ {m.src}) \ todo) \ routing[n].fwd
          /\ routing[n].fwd \subseteq (sockets \ {m.src}) \ todo
        BY <1>3 DEF Told
    <3>2. dst \in sockets \ {m.src} /\ dst \notin routing[n].fwd
        BY <3>1, <1>2, <1>3
    <3>3. CASE n \in kept
      <4>1. {d \in sockets : WentTo(m, n, d)'} = {d \in sockets : WentTo(m, n, d)} \cup {dst}
          BY <3>2, <3>3, <1>12
      <4>2. rt[n].fwd = routing[n].fwd \cup {dst} /\ rt[n].drop = routing[n].drop
          BY <3>3, <1>5, <1>13
      <4> QED BY <4>1, <4>2, <3>1, <3>2, <1>2, <1>13
    <3>4. CASE n \notin kept
      <4>1. {d \in sockets : WentTo(m, n, d)'} = {d \in sockets : WentTo(m, n, d)}
          BY <3>4, <1>12
      <4>2. rt[n].fwd = routing[n].fwd /\ rt[n].drop = routing[n].drop \cup {dst}
          BY <3>4, <1>5, <1>13
      <4> QED BY <4>1, <4>2, <3>1, <3>2, <1>2, <1>13
    <3> QED BY <3>3, <3>4
  <2>2. ASSUME NEW s \in sent', s.id = m.id
        PROVE  s.dst \in sockets /\ \E it \in s.items : it[1] \in DOMAIN rt
    <3>1. CASE s \in sent
        BY <3>1, <2>2, <1>3, <1>5, <1>13 DEF Told
    <3>2. CASE s \notin sent
      <4>1. /\ kept # {} /\ s.dst = dst
            /\ s.items = {<<n, Items(m)[n]>> : n \in kept}
          BY <3>2, <2>2, <1>1 DEF Send
      <4>2. PICK n \in kept : TRUE
          BY <4>1
      <4>3. <<n, Items(m)[n]>> \in s.items /\ <<n, Items(m)[n]>>[1] = n
          BY <4>1, <4>2
      <4>4. n \in DOMAIN rt
          BY <4>2, <1>3, <1>5, <1>13
      <4> QED BY <4>1, <4>3, <4>4, <1>2, <1>3
    <3> QED BY <3>1, <3>2
  <2> QED BY <2>1, <2>2, <1>2, <1>5, <1>13 DEF Told
<1>14. RoutingSoFar'
    BY <1>0, <1>2, <1>3, <1>5, <1>13 DEF RoutingSoFar, Items
<1>15. LogTold'
  <2>1. ASSUME NEW r, r.id # m.id, NEW rt, NEW left, Told(r, rt, left)
        PROVE  Told(r, rt, left)'
    <3>1. \A n, d : WentTo(r, n, d)' <=> WentTo(r, n, d)
        BY <1>9, <1>11, <2>1 DEF WentTo
    <3> QED BY <3>1, <1>2, <1>9, <2>1 DEF Told
  <2>2. \A k \in DOMAIN recorded : recorded[k].id # m.id
      BY <1>4 DEF Ids
  <2> QED BY <1>2, <2>1, <2>2 DEF RInv, LogTold
<1> QED BY <1>6, <1>8, <1>10, <1>14, <1>15 DEF RInv

\* Every step keeps it.
LEMMA StepRInv == RInv /\ [Next]_vars => RInv'
<1> SUFFICES ASSUME RInv, [Next]_vars PROVE RInv'
    OBVIOUS
<1>1. ASSUME NEW i \in Interfaces, Receive(i) PROVE RInv'
    BY <1>1, ReceiveRInv
<1>2. ASSUME NEW i \in Interfaces, Enqueue(i) PROVE RInv'
    BY <1>2, EnqueueRInv
<1>3. CASE Take
    BY <1>3, TakeRInv
<1>4. ASSUME NEW dst \in Interfaces, RouteTo(dst) PROVE RInv'
    BY <1>4, RouteToRInv
<1>5. CASE Record
    BY <1>5, RecordRInv
<1>6. CASE UNCHANGED vars
  <2>1. UNCHANGED <<current, todo, routing, recorded, sockets, sent, received, channel, holding, file, config>>
      BY <1>6 DEF vars
  <2>2. Typed'
      BY <2>1 DEF RInv, Typed
  <2>3. Done' = Done /\ Ids(channel)' = Ids(channel) /\ Ids(current)' = Ids(current)
        /\ Ids(recorded)' = Ids(recorded) /\ Distinct(channel)' = Distinct(channel)
        /\ \A i \in Interfaces : Ids(holding[i])' = Ids(holding[i])
      BY <2>1 DEF Done, Ids, Distinct
  <2>4. Apart' /\ SentDone'
      BY <2>1, <2>3 DEF RInv, Apart, SentDone
  <2> QED BY <2>1, <2>2, <2>4, ToldStays DEF RInv
<1> QED BY <1>1, <1>2, <1>3, <1>4, <1>5, <1>6 DEF Next

\* It holds in every reachable state.
LEMMA AlwaysRInv == Spec => []RInv
BY InitRInv, StepRInv, PTL DEF Spec

-----------------------------------------------------------------------------
(* What follows from it *)

\* The sets of messages are typed, and the channel holds no more than it may.
THEOREM ReflectorTypeCorrect == Spec => []TypeOK
<1>1. RInv => TypeOK
    BY DEF RInv, Typed, TypeOK
<1> QED BY <1>1, AlwaysRInv, PTL

\* Whatever the rules, the mode, the order of the destinations and the failures
\* to serialize, an item is noted as forwarded to exactly the interfaces it was
\* sent to, and as dropped for all others.
THEOREM HistoryMatchesWire == Spec => []LogMatchesWire
<1>1. RInv => LogMatchesWire
    BY DEF RInv, LogTold, Told, LogMatchesWire
<1> QED BY <1>1, AlwaysRInv, PTL

\* The disposition of r, a recorded message, says what was sent of it.
Truthful(r) ==
    LET others == sockets \ {r.src}
    IN  /\ r.disposition \in {"forwarded", "partially_forwarded", "dropped"}
        /\ r.disposition = "forwarded" <=>
               /\ others # {}
               /\ \A n \in DOMAIN r.routing, d \in others : WentTo(r, n, d)
        /\ r.disposition = "dropped" <=> \A s \in sent : s.id # r.id
        /\ others = {} => r.disposition = "dropped"

\* Every disposition recorded says what became of the packet.
LEMMA DispositionTold == ASSUME RInv, NEW k \in DOMAIN recorded PROVE Truthful(recorded[k])
<1>0. PICK r, others : r = recorded[k] /\ others = sockets \ {r.src}
    OBVIOUS
<1> DEFINE ds == {ItemDisposition(r.routing[n]) : n \in DOMAIN r.routing}
<1>1. /\ Told(r, r.routing, {}) /\ r.routing # <<>>
      /\ r.disposition = Disposition(r.routing)
    BY <1>0 DEF RInv, LogTold
<1>2. PICK first : first \in DOMAIN r.routing
  <2>1. recorded[k] \in Entry
      BY <1>0 DEF RInv, Typed
  <2>2. r.routing \in Seq(RouteRecord)
      BY <1>0, <2>1 DEF Entry
  <2> QED BY <1>1, <2>2, 1 \in DOMAIN r.routing
<1>3. \A n \in DOMAIN r.routing :
          /\ r.routing[n].fwd = {d \in others : WentTo(r, n, d)}
          /\ r.routing[n].drop = others \ r.routing[n].fwd
    BY <1>0, <1>1 DEF Told
<1>4. /\ r.disposition \in {"forwarded", "partially_forwarded", "dropped"}
      /\ r.disposition = "forwarded" <=> ds = {"forwarded"}
      /\ r.disposition = "dropped" <=> ds = {"dropped"}
    BY <1>1 DEF Disposition
<1>5. ds = {"forwarded"} <=> \A n \in DOMAIN r.routing : ItemDisposition(r.routing[n]) = "forwarded"
    BY <1>2
<1>6. ds = {"dropped"} <=> \A n \in DOMAIN r.routing : ItemDisposition(r.routing[n]) = "dropped"
    BY <1>2
<1>7. \A n \in DOMAIN r.routing :
          /\ ItemDisposition(r.routing[n]) = "forwarded"
             <=> others # {} /\ \A d \in others : WentTo(r, n, d)
          /\ ItemDisposition(r.routing[n]) = "dropped" <=> \A d \in others : ~WentTo(r, n, d)
    BY <1>3 DEF ItemDisposition
<1>8. (\A s \in sent : s.id # r.id) <=> \A n \in DOMAIN r.routing, d \in others : ~WentTo(r, n, d)
  <2>1. ASSUME NEW s \in sent, s.id = r.id
        PROVE  \E n \in DOMAIN r.routing, d \in others : WentTo(r, n, d)
    <3>1. PICK it \in s.items : it[1] \in DOMAIN r.routing
        BY <1>1, <2>1 DEF Told
    <3>2. s.dst \in sockets /\ WentTo(r, it[1], s.dst)
        BY <1>1, <2>1, <3>1 DEF Told, WentTo
    <3>3. s.dst \in r.routing[it[1]].fwd
        BY <1>1, <3>1, <3>2 DEF Told
    <3> QED BY <1>3, <3>1, <3>2, <3>3
  <2> QED BY <2>1 DEF WentTo
<1>9. /\ r.disposition \in {"forwarded", "partially_forwarded", "dropped"}
      /\ r.disposition = "forwarded" <=>
             /\ others # {}
             /\ \A n \in DOMAIN r.routing, d \in others : WentTo(r, n, d)
      /\ r.disposition = "dropped" <=> \A s \in sent : s.id # r.id
      /\ others = {} => r.disposition = "dropped"
    BY <1>2, <1>4, <1>5, <1>6, <1>7, <1>8
<1> QED BY <1>0, <1>9 DEF Truthful

\* The disposition of a message says "forwarded" exactly if all of it went
\* everywhere, and "dropped" exactly if nothing was sent.
THEOREM DispositionsExact == Spec => []DispositionExact
<1>1. RInv => DispositionExact
    BY DispositionTold DEF DispositionExact, Truthful
<1> QED BY <1>1, AlwaysRInv, PTL

-----------------------------------------------------------------------------
(* Order *)

\* In s, of the messages of one interface the earlier come first, ...
Sorted(s) ==
    \A k, l \in DOMAIN s : k < l /\ s[k].src = s[l].src => s[k].id < s[l].id
\* ... and all of them before those in t.
Before(s, t) ==
    \A k \in DOMAIN s, l \in DOMAIN t : s[k].src = t[l].src => s[k].id < t[l].id

Ordered ==
    /\ Sorted(recorded) /\ Sorted(channel)
    /\ Before(recorded, current) /\ Before(recorded, channel) /\ Before(current, channel)
    /\ \A i \in Interfaces :
          /\ \A k \in DOMAIN holding[i] : holding[i][k].src = i
          /\ Before(recorded, holding[i])
          /\ Before(current, holding[i])
          /\ Before(channel, holding[i])

\* A message put behind an ordered sequence, and after it in order, keeps the order.
LEMMA ConcatenatedInOrder ==
    ASSUME NEW S, NEW s \in Seq(S), NEW t \in Seq(S), Len(t) <= 1,
           Sorted(s), Before(s, t)
    PROVE  /\ Sorted(s \o t)
           /\ \A x : Before(x, s) /\ Before(x, t) => Before(x, s \o t)
           /\ \A x : Before(s, x) /\ Before(t, x) => Before(s \o t, x)
<1> DEFINE u == s \o t
<1>1. /\ DOMAIN u = 1..(Len(s) + Len(t)) /\ Len(s) \in Nat /\ Len(t) \in Nat
      /\ DOMAIN s = 1..Len(s) /\ DOMAIN t = 1..Len(t)
      /\ \A k \in DOMAIN u : u[k] = IF k <= Len(s) THEN s[k] ELSE t[k - Len(s)]
    OBVIOUS
<1> HIDE DEF u
<1>2. \A k \in DOMAIN u : \/ k \in DOMAIN s /\ u[k] = s[k]
                          \/ k > Len(s) /\ k - Len(s) \in DOMAIN t /\ u[k] = t[k - Len(s)]
    BY <1>1
<1>3. Sorted(u)
  <2> SUFFICES ASSUME NEW k \in DOMAIN u, NEW l \in DOMAIN u, k < l, u[k].src = u[l].src
               PROVE  u[k].id < u[l].id
      BY DEF Sorted
  <2>1. CASE l \in DOMAIN s
      BY <2>1, <1>1 DEF Sorted
  <2>2. CASE l \notin DOMAIN s
    <3>1. k \in DOMAIN s /\ u[k] = s[k]
        BY <2>2, <1>1
    <3>2. l - Len(s) \in DOMAIN t /\ u[l] = t[l - Len(s)]
        BY <2>2, <1>2
    <3> QED BY <3>1, <3>2 DEF Before
  <2> QED BY <2>1, <2>2
<1>4. \A x : Before(x, s) /\ Before(x, t) => Before(x, u)
    BY <1>2 DEF Before
<1>5. \A x : Before(s, x) /\ Before(t, x) => Before(u, x)
    BY <1>2 DEF Before
<1> QED BY <1>3, <1>4, <1>5 DEF u

\* The rest of an ordered sequence is ordered, and behind its first.
LEMMA TailInOrder ==
    ASSUME NEW S, NEW s \in Seq(S), s # <<>>, Sorted(s)
    PROVE  /\ Sorted(Tail(s))
           /\ Before(<<Head(s)>>, Tail(s))
           /\ \A x : Before(x, s) => Before(x, Tail(s)) /\ Before(x, <<Head(s)>>)
           /\ \A x : Before(s, x) => Before(Tail(s), x) /\ Before(<<Head(s)>>, x)
<1>1. /\ Len(s) \in Nat \ {0} /\ DOMAIN s = 1..Len(s) /\ Head(s) = s[1]
      /\ DOMAIN Tail(s) = 1..(Len(s) - 1)
      /\ \A k \in 1..(Len(s) - 1) : Tail(s)[k] = s[k + 1]
    OBVIOUS
<1>2. DOMAIN <<Head(s)>> = {1} /\ <<Head(s)>>[1] = s[1]
    BY <1>1
<1>3. \A k \in DOMAIN Tail(s) : k + 1 \in DOMAIN s /\ 1 < k + 1 /\ Tail(s)[k] = s[k + 1]
    BY <1>1
<1>4. Sorted(Tail(s))
    BY <1>1, <1>3 DEF Sorted
<1>5. Before(<<Head(s)>>, Tail(s))
    BY <1>1, <1>2, <1>3 DEF Sorted, Before
<1>6. \A x : Before(x, s) => Before(x, Tail(s)) /\ Before(x, <<Head(s)>>)
    BY <1>1, <1>2, <1>3 DEF Before
<1>7. \A x : Before(s, x) => Before(Tail(s), x) /\ Before(<<Head(s)>>, x)
    BY <1>1, <1>2, <1>3 DEF Before
<1> QED BY <1>4, <1>5, <1>6, <1>7

\* Every step keeps the packets of each interface in order.
LEMMA StepOrdered ==
    ASSUME RInv, Ordered, [Next]_vars
    PROVE  Ordered'
<1>1. ASSUME NEW i \in Interfaces, Receive(i) PROVE Ordered'
  <2>1. PICK p \in Packets :
            holding' = [holding EXCEPT
                ![i] = <<[id |-> received + 1, src |-> i, packet |-> p]>>]
      BY <1>1 DEF Receive
  <2>2. /\ DOMAIN holding'[i] = {1} /\ holding'[i][1].id = received + 1 /\ holding'[i][1].src = i
        /\ \A j \in Interfaces : j # i => holding'[j] = holding[j]
      BY <2>1 DEF RInv, Typed
  <2>3. \A k \in DOMAIN holding'[i] : holding'[i][k].id = received + 1 /\ holding'[i][k].src = i
      BY <2>2
  <2>4. ASSUME NEW x, Ids(x) \subseteq 1..received PROVE Before(x, holding'[i])
    <3>1. \A k \in DOMAIN x : x[k].id \in 1..received
        BY <2>4 DEF Ids
    <3> QED BY <2>3, <3>1 DEF Before, RInv, Typed
  <2>5. /\ Before(recorded, holding'[i]) /\ Before(current, holding'[i])
        /\ Before(channel, holding'[i])
      BY <2>4 DEF RInv, Apart, Done
  <2>6. UNCHANGED <<recorded, current, channel>>
      BY <1>1 DEF Receive
  <2> QED BY <2>2, <2>3, <2>5, <2>6 DEF Ordered
<1>2. ASSUME NEW i \in Interfaces, Enqueue(i) PROVE Ordered'
  <2>1. /\ channel' = channel \o holding[i] /\ holding'[i] = <<>>
        /\ \A j \in Interfaces : j # i => holding'[j] = holding[j]
        /\ UNCHANGED <<recorded, current>>
      BY <1>2 DEF RInv, Typed, Enqueue
  <2>2. /\ channel \in Seq(Message) /\ holding[i] \in Seq(Message) /\ Len(holding[i]) <= 1
      BY DEF RInv, Typed
  <2>3. /\ Sorted(channel')
        /\ \A x : Before(x, channel) /\ Before(x, holding[i]) => Before(x, channel')
        /\ \A x : Before(channel, x) /\ Before(holding[i], x) => Before(channel', x)
      BY <2>1, <2>2, ConcatenatedInOrder DEF Ordered
  <2>4. ASSUME NEW j \in Interfaces, j # i PROVE Before(holding[i], holding[j])
      BY <2>4 DEF Ordered, Before
  <2>5. \A x : Before(x, <<>>)
      BY DEF Before
  <2>6. \A j \in Interfaces : /\ \A k \in DOMAIN holding'[j] : holding'[j][k].src = j
                              /\ Before(recorded, holding'[j]) /\ Before(current, holding'[j])
                              /\ Before(channel', holding'[j])
      BY <2>1, <2>3, <2>4, <2>5 DEF Ordered
  <2> QED BY <2>1, <2>3, <2>6 DEF Ordered
<1>3. CASE Take
  <2>1. /\ channel' = Tail(channel) /\ channel # <<>> /\ channel \in Seq(Message)
        /\ current' \in {current, <<Head(channel)>>}
        /\ UNCHANGED <<recorded, holding>>
      BY <1>3 DEF RInv, Typed, Take
  <2>2. /\ Sorted(channel')
        /\ Before(<<Head(channel)>>, channel')
        /\ \A x : Before(x, channel) => Before(x, channel') /\ Before(x, <<Head(channel)>>)
        /\ \A x : Before(channel, x) => Before(channel', x) /\ Before(<<Head(channel)>>, x)
      BY <2>1, TailInOrder DEF Ordered
  <2>3. Before(recorded, current') /\ Before(current', channel')
        /\ \A i \in Interfaces : Before(current', holding[i])
      BY <2>1, <2>2 DEF Ordered
  <2> QED BY <2>1, <2>2, <2>3 DEF Ordered
<1>4. ASSUME NEW dst \in Interfaces, RouteTo(dst) PROVE Ordered'
    BY <1>4 DEF RouteTo, Ordered
<1>5. CASE Record
  <2>1. PICK e : /\ recorded' = Append(recorded, e)
                 /\ e.id = current[1].id /\ e.src = current[1].src
      BY <1>5 DEF Record
  <2>2. /\ current' = <<>> /\ UNCHANGED <<channel, holding>> /\ 1 \in DOMAIN current
        /\ recorded \in Seq(Entry)
      BY <1>5 DEF Record, RInv, Typed
  <2>3. /\ DOMAIN recorded' = 1..(Len(recorded) + 1) /\ DOMAIN recorded = 1..Len(recorded)
        /\ Len(recorded) \in Nat
        /\ \A k \in DOMAIN recorded : recorded'[k] = recorded[k]
        /\ recorded'[Len(recorded) + 1] = e
      BY <2>1, <2>2
  <2>4. \A k \in DOMAIN recorded' :
            \/ k \in DOMAIN recorded /\ recorded'[k] = recorded[k]
            \/ k = Len(recorded) + 1 /\ recorded'[k] = e
      BY <2>3
  <2>5. Sorted(recorded')
      BY <2>1, <2>2, <2>3, <2>4 DEF Ordered, Sorted, Before
  <2>6. \A x : Before(recorded, x) /\ Before(current, x) => Before(recorded', x)
      BY <2>1, <2>2, <2>4 DEF Before
  <2>7. Before(recorded', current') /\ Before(current', channel')
        /\ \A i \in Interfaces : Before(current', holding[i])
      BY <2>2 DEF Before
  <2> QED BY <2>2, <2>5, <2>6, <2>7 DEF Ordered
<1>6. CASE UNCHANGED vars
    BY <1>6 DEF vars, Ordered
<1> QED BY <1>1, <1>2, <1>3, <1>4, <1>5, <1>6 DEF Next

\* The messages of one interface are recorded in the order in which they came
\* in, whatever the channel's size and the timing of the tasks.
THEOREM RecordedInOrder == Spec => []InOrder
<1>1. Init => Ordered
    BY DEF Init, Ordered, Sorted, Before
<1>2. Ordered => InOrder
    BY DEF Ordered, Sorted, InOrder
<1> QED BY <1>1, <1>2, AlwaysRInv, StepOrdered, PTL DEF Spec

-----------------------------------------------------------------------------
(* Conservation *)

Held == UNION {Ids(holding[i]) : i \in Interfaces}

\* Every packet received is held, in the channel, current, recorded or skipped;
\* none is skipped and also elsewhere, and none is recorded twice.
Placed ==
    /\ Held \cup Ids(channel) \cup Done \cup skipped = 1..received
    /\ skipped \cap (Held \cup Ids(channel) \cup Done) = {}
    /\ Distinct(recorded)

\* At first no packet has been received.
LEMMA InitPlaced == Init => Placed
    BY DEF Init, Placed, Held, Done, Ids, Distinct

\* Every step leaves each received packet in one place.
LEMMA StepPlaced ==
    ASSUME RInv, Placed, [Next]_vars
    PROVE  Placed'
<1>0. /\ holding \in [Interfaces -> Seq(Message)] /\ channel \in Seq(Message)
      /\ received \in Nat /\ recorded \in Seq(Entry)
      /\ \A i \in Interfaces : holding[i] \in Seq(Message) /\ Len(holding[i]) <= 1
    BY ReflectorAssumption DEF RInv, Typed
<1>1. ASSUME NEW i \in Interfaces, Receive(i) PROVE Placed'
  <2>1. PICK p \in Packets :
            holding' = [holding EXCEPT
                ![i] = <<[id |-> received + 1, src |-> i, packet |-> p]>>]
      BY <1>1 DEF Receive
  <2>2. /\ Ids(holding[i]) = {} /\ Ids(holding'[i]) = {received + 1}
        /\ \A j \in Interfaces : j # i => holding'[j] = holding[j]
      BY <1>0, <1>1, <2>1 DEF Receive, Ids
  <2>3. Held' = Held \cup {received + 1}
    <3>1. \A j \in Interfaces : Ids(holding'[j]) \subseteq Ids(holding[j]) \cup {received + 1}
        BY <2>2
    <3>2. \A j \in Interfaces : Ids(holding[j]) \subseteq Ids(holding'[j])
        BY <2>2
    <3> QED BY <2>2, <3>1, <3>2 DEF Held
  <2>4. /\ received' = received + 1 /\ Ids(channel)' = Ids(channel) /\ Done' = Done
        /\ skipped' = skipped /\ recorded' = recorded
      BY <1>1 DEF Receive, Ids, Done
  <2>5. 1..(received + 1) = (1..received) \cup {received + 1} /\ received + 1 \notin 1..received
      BY <1>0
  <2> QED BY <2>3, <2>4, <2>5 DEF Placed, Distinct
<1>2. ASSUME NEW i \in Interfaces, Enqueue(i) PROVE Placed'
  <2>1. /\ channel' = channel \o holding[i] /\ holding' = [holding EXCEPT ![i] = <<>>]
        /\ UNCHANGED <<received, current, recorded, skipped>>
      BY <1>2 DEF Enqueue
  <2>2. Ids(channel') = Ids(channel) \cup Ids(holding[i])
    <3>1. Distinct(channel) /\ Ids(channel) \cap Ids(holding[i]) = {}
        BY DEF RInv, Apart
    <3> QED BY <1>0, <2>1, <3>1, Concatenated
  <2>3. /\ Ids(holding'[i]) = {} /\ \A j \in Interfaces : j # i => holding'[j] = holding[j]
      BY <1>0, <2>1 DEF Ids
  <2>4. Held' \cup Ids(holding[i]) = Held /\ Held' \subseteq Held
    <3>1. \A j \in Interfaces : Ids(holding'[j]) \subseteq Ids(holding[j])
        BY <2>3
    <3>2. \A j \in Interfaces : Ids(holding[j]) \subseteq Ids(holding'[j]) \cup Ids(holding[i])
        BY <2>3
    <3> QED BY <3>1, <3>2 DEF Held
  <2>5. Done' = Done
      BY <2>1 DEF Done, Ids
  <2> QED BY <2>1, <2>2, <2>4, <2>5 DEF Placed, Distinct
<1>3. CASE Take
  <2> DEFINE m == Head(channel)
  <2>1. /\ channel' = Tail(channel) /\ current = <<>> /\ channel # <<>>
        /\ UNCHANGED <<received, holding, recorded>>
        /\ \/ current' = <<m>> /\ skipped' = skipped
           \/ current' = <<>> /\ skipped' = skipped \cup {m.id}
      BY <1>3 DEF Take
  <2>2. Ids(channel') \cup {m.id} = Ids(channel) /\ m.id \notin Ids(channel')
    <3>1. /\ Ids(Tail(channel)) \subseteq Ids(channel) \ {m.id}
          /\ m.id \in Ids(channel)
        BY <1>0, <2>1, HeadAndTail DEF RInv, Apart
    <3>2. \A k \in DOMAIN channel : k = 1 \/ k - 1 \in DOMAIN Tail(channel)
        BY <1>0
    <3>3. \A k \in DOMAIN Tail(channel) : Tail(channel)[k] = channel[k + 1]
        BY <1>0, <2>1
    <3>4. \A k \in DOMAIN channel : k # 1 => Tail(channel)[k - 1] = channel[k]
        BY <1>0, <3>2, <3>3
    <3>5. channel[1] = m
        BY <1>0, <2>1
    <3>6. \A k \in DOMAIN channel : channel[k].id \in Ids(Tail(channel)) \cup {m.id}
        BY <3>2, <3>4, <3>5 DEF Ids
    <3>7. Ids(channel) \subseteq Ids(Tail(channel)) \cup {m.id}
        BY <3>6 DEF Ids
    <3> QED BY <2>1, <3>1, <3>7
  <2>3. m.id \notin Held \cup Done
      BY <2>2 DEF RInv, Apart, Held
  <2>4. Held' = Held
      BY <2>1 DEF Held, Ids
  <2>5. Ids(current) = {} /\ Ids(recorded)' = Ids(recorded)
      BY <2>1 DEF Ids
  <2>6. \/ Ids(current') = {m.id} /\ skipped' = skipped
        \/ Ids(current') = {} /\ skipped' = skipped \cup {m.id}
      BY <2>1 DEF Ids
  <2> HIDE DEF m
  <2>7. Distinct(recorded)'
      BY <2>1 DEF Placed, Distinct
  <2> QED BY <2>1, <2>2, <2>3, <2>4, <2>5, <2>6, <2>7 DEF Placed, Done
<1>4. ASSUME NEW dst \in Interfaces, RouteTo(dst) PROVE Placed'
    BY <1>4 DEF RouteTo, Placed, Held, Done, Ids, Distinct
<1>5. CASE Record
  <2>1. PICK e : recorded' = Append(recorded, e) /\ e.id = current[1].id
      BY <1>5 DEF Record
  <2>2. /\ current' = <<>> /\ current # <<>> /\ UNCHANGED <<received, holding, channel, skipped>>
        /\ current \in Seq(Message) /\ Len(current) <= 1
      BY <1>5 DEF Record, RInv, Typed
  <2>3. /\ DOMAIN recorded' = 1..(Len(recorded) + 1) /\ DOMAIN recorded = 1..Len(recorded)
        /\ Len(recorded) \in Nat
        /\ \A k \in DOMAIN recorded : recorded'[k] = recorded[k]
        /\ recorded'[Len(recorded) + 1] = e
      BY <1>0, <2>1
  <2>4. \A k \in DOMAIN recorded' :
            \/ k \in DOMAIN recorded /\ recorded'[k] = recorded[k]
            \/ k = Len(recorded) + 1 /\ recorded'[k] = e
      BY <2>3
  <2>5. Ids(current) = {e.id} /\ Ids(current') = {}
      BY <2>1, <2>2 DEF Ids
  <2>6. Ids(recorded') = Ids(recorded) \cup {e.id}
    <3>1. \A k \in DOMAIN recorded' : recorded'[k].id \in Ids(recorded) \cup {e.id}
        BY <2>4 DEF Ids
    <3>2. \A k \in DOMAIN recorded : recorded[k].id \in Ids(recorded')
        BY <2>3 DEF Ids
    <3>3. e.id \in Ids(recorded')
        BY <2>3 DEF Ids
    <3> QED BY <3>1, <3>2, <3>3 DEF Ids
  <2>7. e.id \notin Ids(recorded)
      BY <2>5 DEF RInv, Apart
  <2>8. Distinct(recorded')
    <3>1. \A k \in DOMAIN recorded : recorded[k].id # e.id
        BY <2>7 DEF Ids
    <3> QED BY <2>4, <3>1 DEF Placed, Distinct
  <2>9. Held' = Held /\ Ids(channel)' = Ids(channel)
      BY <2>2 DEF Held, Ids
  <2> QED BY <2>2, <2>5, <2>6, <2>8, <2>9 DEF Placed, Done
<1>6. CASE UNCHANGED vars
    BY <1>6 DEF vars, Placed, Held, Done, Ids, Distinct
<1> QED BY <1>1, <1>2, <1>3, <1>4, <1>5, <1>6 DEF Next

-----------------------------------------------------------------------------
(* The filter rules, for any configuration file: the regex made of a       *)
(* pattern matches what the pattern means, and what leaves in a rewritten  *)
(* packet is what the rules let through.                                   *)

NoNewline(text) == \A k \in DOMAIN text : text[k] # Newline

-----------------------------------------------------------------------------
(* Patterns.  IsMatch works from the end of the text to its beginning; what *)
(* it computes for the tokens from the k-th on is whether a way to cut the  *)
(* rest of the text into pieces is left.                                    *)

\* The token takes the characters of text from n up to, not including, m.
Takes(token, text, n, m) ==
    /\ IF token.run THEN n <= m ELSE n + 1 = m
    /\ \A i \in n..(m - 1) : Accepts(token, text[i])

\* The equations of the function in IsMatch.
Computes(rest, regex, text) ==
    /\ IsMatch(regex, text) <=> 1 \in rest[1]
    /\ rest[Len(regex) + 1] = {Len(text) + 1}
    /\ \A k \in 1..Len(regex) :
          rest[k] = {n \in 1..(Len(text) + 1) :
                       \E m \in rest[k + 1] : Takes(regex[k], text, n, m)}

\* IsMatch fills in, from the back, the places from which each rest of the pattern matches.
LEMMA MatchPlaces ==
    ASSUME NEW regex, NEW text, Len(regex) \in Nat
    PROVE  \E rest : Computes(rest, regex, text)
<1> DEFINE K == Len(regex)
           D == 1..(K + 1)
           Body(f, k) ==
               IF k > K THEN {Len(text) + 1}
               ELSE {n \in 1..(Len(text) + 1) :
                        \E m \in f[k + 1] : Takes(regex[k], text, n, m)}
           Good == {j \in Nat : \E f : \A k \in D : k > K + 1 - j => f[k] = Body(f, k)}
\* As many as j of the last places can be computed.
<1>1. 0 \in Good
    OBVIOUS
<1>2. ASSUME NEW j \in Nat, j \in Good PROVE j + 1 \in Good
  <2>1. PICK f : \A k \in D : k > K + 1 - j => f[k] = Body(f, k)
      BY <1>2
  <2> DEFINE g == [k \in D |-> IF k > K + 1 - j THEN f[k] ELSE Body(f, k)]
  <2>2. ASSUME NEW k \in D, k > K + 1 - (j + 1) PROVE g[k] = Body(g, k)
    <3>1. k > K \/ g[k + 1] = f[k + 1]
        BY <2>2
    <3>2. Body(g, k) = Body(f, k)
      <4> HIDE DEF g
      <4> QED BY <3>1
    <3>3. g[k] = Body(f, k)
      <4> HIDE DEF Body
      <4> QED BY <2>1
    <3> QED BY <3>2, <3>3
  <2> HIDE DEF g, Body
  <2> QED BY <2>2
<1>3. K + 1 \in Good
  <2> HIDE DEF Good
  <2> QED BY <1>1, <1>2, Induction
<1>4. PICK f : \A k \in D : f[k] = Body(f, k)
  <2>1. PICK f : \A k \in D : k > K + 1 - (K + 1) => f[k] = Body(f, k)
      BY <1>3
  <2>2. \A k \in D : k > K + 1 - (K + 1)
      OBVIOUS
  <2> QED BY <2>1, <2>2
<1> DEFINE Fixed(h) == h = [k \in D |-> Body(h, k)]
           all == [k \in D |-> f[k]]
           rest == CHOOSE h : Fixed(h)
<1>5. Fixed(all)
  <2>1. ASSUME NEW k \in D PROVE Body(all, k) = Body(f, k)
    <3>1. k > K \/ all[k + 1] = f[k + 1]
        OBVIOUS
    <3> HIDE DEF all
    <3> QED BY <3>1
  <2> HIDE DEF Body
  <2> QED BY <1>4, <2>1
<1>6. Fixed(rest)
    BY <1>5
<1>7. IsMatch(regex, text) <=> 1 \in rest[1]
    BY DEF IsMatch, Takes
<1> HIDE DEF rest
<1>8. \A k \in D : rest[k] = Body(rest, k)
  <2> HIDE DEF Body
  <2> QED BY <1>6
<1>9. rest[K + 1] = {Len(text) + 1}
  <2>1. K + 1 \in D /\ K + 1 > K
      OBVIOUS
  <2> QED BY <1>8, <2>1
<1>10. \A k \in 1..K : k \in D /\ ~(k > K)
    OBVIOUS
<1> QED BY <1>7, <1>8, <1>9, <1>10 DEF Computes

-----------------------------------------------------------------------------

\* What Globs asks of the piece of name, from a to b, for a character.
Piece(c, name, a, b) ==
    IF c = Star THEN a <= b ELSE b = a + 1 /\ c \in {Mark, name[b]}

\* The name from n on can be cut into the pieces of the pattern from k on.
Cuts(pattern, name, k, n) ==
    \E cut \in [(k - 1)..Len(pattern) -> 0..Len(name)] :
        /\ cut[k - 1] = n - 1 /\ cut[Len(pattern)] = Len(name)
        /\ \A i \in k..Len(pattern) : Piece(pattern[i], name, cut[i - 1], cut[i])

\* Behind the pattern only the end of the name is a cut.
LEMMA CutsLast ==
    ASSUME NEW pattern \in Seq(Nat), NEW name \in Seq(Nat),
           NEW n \in 1..(Len(name) + 1)
    PROVE  Cuts(pattern, name, Len(pattern) + 1, n) <=> n = Len(name) + 1
<1> DEFINE K == Len(pattern)
           N == Len(name)
<1>1. K \in Nat /\ N \in Nat /\ (K + 1) - 1 = K
    OBVIOUS
<1> HIDE DEF K, N
<1>2. ASSUME n = N + 1 PROVE Cuts(pattern, name, K + 1, n)
  <2> DEFINE cut == [i \in ((K + 1) - 1)..K |-> N]
  <2>1. cut \in [((K + 1) - 1)..K -> 0..N] /\ cut[K] = N /\ (K + 1)..K = {} /\ n - 1 = N
      BY <1>1, <1>2
  <2> HIDE DEF cut
  <2> QED BY <1>1, <2>1 DEF Cuts, K, N
<1>3. ASSUME Cuts(pattern, name, K + 1, n) PROVE n = N + 1
  <2>1. PICK cut : cut[(K + 1) - 1] = n - 1 /\ cut[K] = N
      BY <1>3 DEF Cuts, K, N
  <2>2. n \in Nat
      OBVIOUS
  <2> QED BY <1>1, <2>1, <2>2
<1> QED BY <1>2, <1>3 DEF K, N

\* A cut before a piece is one after which that piece fits and the rest is cut.
LEMMA CutsNext ==
    ASSUME NEW pattern \in Seq(Nat), NEW name \in Seq(Nat),
           NEW k \in 1..Len(pattern), NEW n \in 1..(Len(name) + 1)
    PROVE  Cuts(pattern, name, k, n) <=>
              \E m \in 1..(Len(name) + 1) : /\ Piece(pattern[k], name, n - 1, m - 1)
                                            /\ Cuts(pattern, name, k + 1, m)
<1> DEFINE K == Len(pattern)
           N == Len(name)
<1>1. K \in Nat /\ N \in Nat /\ k \in 1..K /\ n \in 1..(N + 1) /\ (k + 1) - 1 = k
    OBVIOUS
<1> HIDE DEF K, N
<1>2. ASSUME Cuts(pattern, name, k, n)
      PROVE  \E m \in 1..(N + 1) : /\ Piece(pattern[k], name, n - 1, m - 1)
                                   /\ Cuts(pattern, name, k + 1, m)
  <2>1. PICK cut \in [(k - 1)..K -> 0..N] :
            /\ cut[k - 1] = n - 1 /\ cut[K] = N
            /\ \A i \in k..K : Piece(pattern[i], name, cut[i - 1], cut[i])
      BY <1>2 DEF Cuts, K, N
  <2> DEFINE rest == [i \in ((k + 1) - 1)..K |-> cut[i]]
             m == cut[k] + 1
  <2>2. /\ rest \in [((k + 1) - 1)..K -> 0..N]
        /\ rest[k] = cut[k] /\ rest[K] = N
        /\ \A i \in (k + 1)..K : rest[i] = cut[i] /\ rest[i - 1] = cut[i - 1] /\ i \in k..K
      BY <1>1, <2>1
  <2>3. m \in 1..(N + 1) /\ m - 1 = cut[k] /\ k \in k..K
      BY <1>1, <2>1
  <2> HIDE DEF rest, m
  <2>4. Cuts(pattern, name, k + 1, m)
      BY <1>1, <2>1, <2>2, <2>3 DEF Cuts, K, N
  <2> QED BY <2>1, <2>3, <2>4
<1>3. ASSUME NEW m \in 1..(N + 1), Piece(pattern[k], name, n - 1, m - 1),
             Cuts(pattern, name, k + 1, m)
      PROVE  Cuts(pattern, name, k, n)
  <2>1. PICK rest \in [((k + 1) - 1)..K -> 0..N] :
            /\ rest[(k + 1) - 1] = m - 1 /\ rest[K] = N
            /\ \A i \in (k + 1)..K : Piece(pattern[i], name, rest[i - 1], rest[i])
      BY <1>3 DEF Cuts, K, N
  <2> DEFINE cut == [i \in (k - 1)..K |-> IF i = k - 1 THEN n - 1 ELSE rest[i]]
  <2>2. /\ cut \in [(k - 1)..K -> 0..N]
        /\ cut[k - 1] = n - 1 /\ cut[k] = m - 1 /\ cut[K] = N
        /\ \A i \in (k + 1)..K : cut[i] = rest[i] /\ cut[i - 1] = rest[i - 1]
      BY <1>1, <2>1
  <2> HIDE DEF cut
  <2>3. \A i \in k..K : i = k \/ i \in (k + 1)..K
      BY <1>1
  <2>4. \A i \in k..K : Piece(pattern[i], name, cut[i - 1], cut[i])
      BY <1>3, <2>1, <2>2, <2>3
  <2> QED BY <2>2, <2>4 DEF Cuts, K, N
<1> QED BY <1>2, <1>3 DEF K, N

\* A token takes what its character stands for; without newlines also all of it.
LEMMA TakesPiece ==
    ASSUME NEW c \in Nat, NEW text \in Seq(Nat),
           NEW n \in 1..(Len(text) + 1), NEW m \in 1..(Len(text) + 1)
    PROVE  /\ Takes(Token(c), text, n, m) => Piece(c, text, n - 1, m - 1)
           /\ NoNewline(text) /\ Piece(c, text, n - 1, m - 1)
                 => Takes(Token(c), text, n, m)
<1>1. CASE c = Star
  <2>1. \A i \in n..(m - 1) : i \in DOMAIN text
      OBVIOUS
  <2> QED BY <1>1, <2>1 DEF Takes, Token, Accepts, Piece, NoNewline
<1>2. CASE c # Star
  <2>1. n + 1 = m => n..(m - 1) = {n} /\ m - 1 = n /\ n \in DOMAIN text
      OBVIOUS
  <2>2. n + 1 = m <=> m - 1 = (n - 1) + 1
      OBVIOUS
  <2>3. Takes(Token(c), text, n, m) <=> n + 1 = m /\ Accepts(Token(c), text[n])
      BY <1>2, <2>1 DEF Takes, Token
  <2>4. Piece(c, text, n - 1, m - 1) <=> n + 1 = m /\ c \in {Mark, text[n]}
      BY <1>2, <2>1, <2>2 DEF Piece
  <2>5. Accepts(Token(c), text[n]) => c \in {Mark, text[n]}
      BY <1>2 DEF Accepts, Token
  <2>6. ASSUME n + 1 = m, NoNewline(text), c \in {Mark, text[n]}
        PROVE  Accepts(Token(c), text[n])
      BY <1>2, <2>1, <2>6 DEF Accepts, Token, NoNewline
  <2> QED BY <2>3, <2>4, <2>5, <2>6
<1> QED BY <1>1, <1>2

\* fnmatch_to_regex is right: what its regex matches is what the pattern means;
\* the converse holds of texts without a newline, which "." does not match.
THEOREM RegexIsGlob ==
    ASSUME NEW pattern \in Seq(Nat), NEW text \in Seq(Nat)
    PROVE  /\ IsMatch(Regex(pattern), text) => Globs(pattern, text)
           /\ NoNewline(text) /\ Globs(pattern, text) => IsMatch(Regex(pattern), text)
<1> DEFINE K == Len(pattern)
           N == Len(text)
           Ends == 1..(N + 1)
<1>1. /\ K \in Nat /\ N \in Nat
      /\ Len(Regex(pattern)) = K
      /\ \A k \in 1..K : pattern[k] \in Nat /\ Regex(pattern)[k] = Token(pattern[k])
    BY DEF Regex
<1>2. PICK rest :
          /\ IsMatch(Regex(pattern), text) <=> 1 \in rest[1]
          /\ rest[K + 1] = {N + 1}
          /\ \A k \in 1..K :
                rest[k] = {n \in Ends : \E m \in rest[k + 1] :
                                           Takes(Regex(pattern)[k], text, n, m)}
  <2>1. Len(Regex(pattern)) \in Nat
      BY <1>1
  <2>2. PICK rest : Computes(rest, Regex(pattern), text)
      BY <2>1, MatchPlaces
  <2>3. Len(Regex(pattern)) = K
      BY <1>1
  <2> HIDE DEF K, N
  <2>4. /\ IsMatch(Regex(pattern), text) <=> 1 \in rest[1]
        /\ rest[K + 1] = {N + 1}
        /\ \A k \in 1..K :
              rest[k] = {n \in Ends : \E m \in rest[k + 1] :
                                         Takes(Regex(pattern)[k], text, n, m)}
      BY <2>2, <2>3 DEF Computes, N
  <2> QED BY <2>4
<1> HIDE DEF K, N
<1>3. \A k \in 1..K, n \in Ends, m \in Ends :
          /\ Takes(Regex(pattern)[k], text, n, m) => Piece(pattern[k], text, n - 1, m - 1)
          /\ NoNewline(text) /\ Piece(pattern[k], text, n - 1, m - 1)
                => Takes(Regex(pattern)[k], text, n, m)
    BY <1>1, TakesPiece DEF N
<1> DEFINE Right(k) ==
               /\ rest[k] \subseteq Ends
               /\ \A n \in rest[k] : Cuts(pattern, text, k, n)
               /\ NoNewline(text) =>
                     \A n \in Ends : Cuts(pattern, text, k, n) => n \in rest[k]
           Good == {j \in Nat : j <= K => Right(K + 1 - j)}
<1>4. 0 \in Good
  <2>1. \A n \in Ends : Cuts(pattern, text, K + 1, n) <=> n = N + 1
      BY CutsLast DEF K, N
  <2>2. Right(K + 1)
      BY <1>1, <1>2, <2>1
  <2>3. K + 1 - 0 = K + 1
      BY <1>1
  <2> HIDE DEF Right
  <2> QED BY <2>2, <2>3
<1>5. ASSUME NEW j \in Nat, j \in Good PROVE j + 1 \in Good
  <2> SUFFICES ASSUME j + 1 <= K PROVE Right(K + 1 - (j + 1))
      OBVIOUS
  <2> DEFINE k == K - j
  <2>1. k \in 1..K /\ K + 1 - (j + 1) = k /\ K + 1 - j = k + 1 /\ j <= K
      BY <1>1
  <2>2. Right(k + 1)
    <3> HIDE DEF Right, k
    <3> QED BY <1>5, <2>1
  <2> HIDE DEF k
  <2>3. \A n \in Ends : Cuts(pattern, text, k, n) <=>
            \E m \in Ends : Piece(pattern[k], text, n - 1, m - 1) /\ Cuts(pattern, text, k + 1, m)
      BY <2>1, CutsNext DEF K, N
  <2>4. rest[k] = {n \in Ends : \E m \in rest[k + 1] : Takes(Regex(pattern)[k], text, n, m)}
      BY <1>2, <2>1
  <2>5. Right(k)
    <3> HIDE DEF Ends
    <3> QED BY <1>3, <2>1, <2>2, <2>3, <2>4
  <2> HIDE DEF Right
  <2> QED BY <2>1, <2>5
<1>6. Right(1)
  <2>1. K \in Good
    <3> HIDE DEF Good
    <3> QED BY <1>1, <1>4, <1>5, Induction
  <2>2. K <= K /\ K + 1 - K = 1
      BY <1>1
  <2> HIDE DEF Right
  <2> QED BY <2>1, <2>2
<1>7. Globs(pattern, text) <=> Cuts(pattern, text, 1, 1)
    BY <1>1 DEF Globs, Cuts, Piece, K, N
<1>8. 1 \in Ends
    BY <1>1
<1> QED BY <1>2, <1>6, <1>7, <1>8

-----------------------------------------------------------------------------
(* Rules *)

\* to_lowercase makes characters of each character, and no newline of another
\* one.
LEMMA LowerAtIs ==
    ASSUME NEW text \in Seq(Nat), NEW k \in 1..Len(text)
    PROVE  /\ LowerAt(text, k) \in Seq(Nat)
           /\ text[k] # Newline => NoNewline(LowerAt(text, k))
<1>1. PICK c \in Nat : c = text[k]
    OBVIOUS
<1>2. c \in DOMAIN LowerCase => /\ c \notin 65..90 /\ c # Sigma
                               /\ LowerCase[c] \in Seq(Nat) /\ NoNewline(LowerCase[c])
  <2> SUFFICES ASSUME c \in DOMAIN LowerCase
               PROVE  /\ c \notin 65..90 /\ c # Sigma
                      /\ LowerCase[c] \in Seq(Nat) /\ NoNewline(LowerCase[c])
      OBVIOUS
  <2>1. c \notin 0..127 /\ c # Sigma
      BY CaseAssumption
  <2>2. LowerCase[c] \in Seq(Char) /\ Char \subseteq Nat
      BY CaseAssumption DEF Text, Char
  <2>3. LowerCase[c] \in Seq(Nat)
      BY <2>2, SeqMonotonic
  <2>4. NoNewline(LowerCase[c])
      BY CaseAssumption DEF NoNewline
  <2> QED BY <2>1, <2>3, <2>4
<1>3. CASE c \in 65..90
  <2>1. c # Sigma /\ c \notin DOMAIN LowerCase /\ c + 32 # Newline
      BY <1>2, <1>3 DEF Sigma, Newline
  <2>2. LowerAt(text, k) = <<c + 32>>
      BY <1>1, <1>3, <2>1 DEF LowerAt
  <2> QED BY <2>1, <2>2 DEF NoNewline
<1>4. CASE c = Sigma
  <2>1. c \notin 65..90 /\ c \notin DOMAIN LowerCase /\ 962 # Newline /\ 963 # Newline
      BY <1>2, <1>4 DEF Sigma, Newline
  <2>2. LowerAt(text, k) = <<IF FinalSigma(text, k) THEN 962 ELSE 963>>
      BY <1>1, <1>4, <2>1 DEF LowerAt
  <2>3. PICK w \in Nat : w # Newline /\ LowerAt(text, k) = <<w>>
      BY <2>1, <2>2
  <2> QED BY <2>3 DEF NoNewline
<1>5. CASE c \in DOMAIN LowerCase
  <2>1. LowerAt(text, k) = LowerCase[c]
      BY <1>1, <1>2, <1>5 DEF LowerAt
  <2> QED BY <1>2, <1>5, <2>1
<1>6. CASE c \notin 65..90 /\ c # Sigma /\ c \notin DOMAIN LowerCase
  <2>1. LowerAt(text, k) = <<c>>
      BY <1>1, <1>6 DEF LowerAt
  <2> QED BY <1>1, <2>1 DEF NoNewline
<1> QED BY <1>3, <1>4, <1>5, <1>6

\* Nor does it of a string.
LEMMA LowerKeeps ==
    ASSUME NEW text \in Seq(Nat)
    PROVE  Lower(text) \in Seq(Nat) /\ (NoNewline(text) => NoNewline(Lower(text)))
<1>1. PICK n \in Nat : n = Len(text)
    OBVIOUS
<1>2. PICK x : x = [k \in 1..n |-> LowerAt(text, k)]
    OBVIOUS
<1>3. x \in [1..n -> Seq(Nat)]
    BY <1>1, <1>2, LowerAtIs
<1> DEFINE Solution(h) ==
        h = [k \in 1..(Len(text) + 1) |->
                IF k > Len(text) THEN <<>> ELSE LowerAt(text, k) \o h[k + 1]]
<1>4. PICK from : from = CHOOSE h : Solution(h)
    OBVIOUS
<1>5. Lower(text) = from[1]
    BY <1>4 DEF Lower
<1>6. \A h : FromEnd(h, x, n) <=> Solution(h)
  <2>1. \A k \in 1..(n + 1) : ~(k > n) => x[k] = LowerAt(text, k)
      BY <1>2
  <2> QED BY <1>1, <2>1 DEF FromEnd
<1> HIDE DEF Solution
<1>7. PICK f \in [1..(n + 1) -> Seq(Nat)] : FromEnd(f, x, n)
    BY <1>3, FromEndExists
<1>8. FromEnd(from, x, n)
    BY <1>4, <1>6, <1>7
<1>9. from \in [1..(n + 1) -> Seq(Nat)]
    BY <1>3, <1>8, FromEndType
<1>10. PICK T : T = {pair \in Seq(Nat) \X Seq(Nat) : NoNewline(pair[1]) => NoNewline(pair[2])}
    OBVIOUS
<1>11. <<<<>>, <<>>>> \in T
  <2>1. NoNewline(<<>>) /\ <<>> \in Seq(Nat)
      BY DEF NoNewline
  <2> QED BY <1>10, <2>1
<1>12. ASSUME NEW k \in 1..n, NEW p \in Seq(Nat), NEW q \in Seq(Nat), <<p, q>> \in T
       PROVE  <<<<text[k]>> \o p, x[k] \o q>> \in T
  <2>1. PICK c \in Nat, y \in Seq(Nat) :
            c = text[k] /\ y = x[k] /\ (c # Newline => NoNewline(y))
      BY <1>1, <1>2, LowerAtIs
  <2>2. <<c>> \o p \in Seq(Nat) /\ y \o q \in Seq(Nat)
      OBVIOUS
  <2>3. ASSUME NoNewline(<<c>> \o p) PROVE c # Newline /\ NoNewline(p)
    <3>1. PICK s : s = <<c>> \o p
        OBVIOUS
    <3>2. PICK l \in Nat : l = Len(p)
        OBVIOUS
    <3>3. /\ Len(s) = 1 + l /\ s[1] = c /\ s \in Seq(Nat)
          /\ \A i \in 1..l : s[i + 1] = p[i]
        BY <3>1, <3>2
    <3>4. \A i \in 1..(1 + l) : s[i] # Newline
      <4>1. DOMAIN s = 1..(1 + l)
          BY <3>3, LenProperties
      <4>2. NoNewline(s)
          BY <2>3, <3>1
      <4> QED BY <4>1, <4>2 DEF NoNewline
    <3>5. \A i \in 1..l : p[i] # Newline
      <4>1. \A i \in 1..l : i + 1 \in 1..(1 + l)
          OBVIOUS
      <4> QED BY <3>3, <3>4, <4>1
    <3>6. 1 \in 1..(1 + l)
        OBVIOUS
    <3> QED BY <3>2, <3>3, <3>4, <3>5, <3>6 DEF NoNewline
  <2>4. ASSUME NoNewline(y), NoNewline(q) PROVE NoNewline(y \o q)
    <3> SUFFICES ASSUME NEW i \in 1..(Len(y) + Len(q)) PROVE (y \o q)[i] # Newline
        BY DEF NoNewline
    <3>1. CASE i <= Len(y)
        BY <2>4, <3>1 DEF NoNewline
    <3>2. CASE i > Len(y)
      <4>1. i - Len(y) \in 1..Len(q) /\ (y \o q)[i] = q[i - Len(y)]
          BY <3>2
      <4> QED BY <2>4, <4>1 DEF NoNewline
    <3> QED BY <3>1, <3>2
  <2> QED BY <1>10, <1>12, <2>1, <2>2, <2>3, <2>4
<1>13. <<text, from[1]>> \in T
    BY <1>1, <1>3, <1>8, <1>9, <1>11, <1>12, PieceByPiece
<1> QED BY <1>5, <1>10, <1>13

\* Names and patterns are still strings when case and final dots are gone.
LEMMA CanonKeeps ==
    ASSUME NEW text \in Seq(Nat)
    PROVE  Canon(text) \in Seq(Nat) /\ (NoNewline(text) => NoNewline(Canon(text)))
<1> DEFINE Cut(n) == /\ n = 0 \/ text[n] # Dot
                     /\ \A k \in (n + 1)..Len(text) : text[k] = Dot
           n == CHOOSE n \in 0..Len(text) : Cut(n)
           Dots == {m \in 0..Len(text) : \A k \in (m + 1)..Len(text) : text[k] = Dot}
<1>1. Len(text) \in Dots
    OBVIOUS
<1>2. PICK m \in Dots : \A k \in Dots : m <= k
  <2>1. Dots \in SUBSET Nat
      OBVIOUS
  <2> HIDE DEF Dots
  <2> QED BY <1>1, <2>1, LeastNumber
<1>3. Cut(m)
  <2>1. ASSUME m # 0, text[m] = Dot PROVE FALSE
    <3>1. m \in Nat /\ m \in 1..Len(text)
        BY <2>1
    <3>2. \A k \in ((m - 1) + 1)..Len(text) : k = m \/ k \in (m + 1)..Len(text)
        BY <3>1
    <3>3. \A k \in ((m - 1) + 1)..Len(text) : text[k] = Dot
        BY <2>1, <3>1, <3>2
    <3>4. m - 1 \in Dots
      <4>1. m - 1 \in 0..Len(text)
          BY <3>1
      <4> QED BY <3>3, <4>1
    <3> HIDE DEF Dots
    <3> QED BY <1>2, <3>1, <3>4
  <2> QED BY <2>1
<1>4. n \in 0..Len(text)
  <2> HIDE DEF Cut
  <2> QED BY <1>3
<1>5. Trim(text) = SubSeq(text, 1, n)
    BY DEF Trim
<1> HIDE DEF n
<1>6. /\ Trim(text) \in Seq(Nat) /\ DOMAIN Trim(text) \subseteq DOMAIN text
      /\ \A k \in DOMAIN Trim(text) : Trim(text)[k] = text[k]
    BY <1>4, <1>5
<1> DEFINE t == Trim(text)
<1> HIDE DEF t
<1>7. Lower(t) \in Seq(Nat) /\ (NoNewline(t) => NoNewline(Lower(t)))
    BY <1>6, LowerKeeps DEF t
<1>8. NoNewline(text) => NoNewline(t)
    BY <1>6 DEF NoNewline, t
<1> QED BY <1>6, <1>7, <1>8 DEF Canon, t

\* The first rule that hits decides.
LEMMA FirstHit ==
    ASSUME NEW rules, NEW hits \in SUBSET Nat, hits # {}, NEW otherwise
    PROVE  \E h \in hits : /\ \A k \in hits : h <= k
                           /\ Decide(rules, hits, otherwise) = rules[h].action
<1>1. \E h \in hits : \A k \in hits : h <= k
    BY LeastNumber
<1> DEFINE h == CHOOSE i \in hits : \A k \in hits : i <= k
<1>2. h \in hits /\ \A k \in hits : h <= k
    BY <1>1
<1>3. Decide(rules, hits, otherwise) = rules[h].action
    BY DEF Decide
<1> QED BY <1>2, <1>3

\* One of the names matches one of the patterns, or there are no patterns.
Names(r, names) ==
    \/ r.patterns = {}
    \/ \E p \in r.patterns, name \in names : Globs(Canon(p), Canon(name))

\* A rule matches a packet when one of its patterns globs one of the packet's names.
LEMMA MatchesNames ==
    ASSUME NEW f \in Files, NEW i \in DOMAIN f.rules, NEW qs, NEW as, NEW names,
           names = TargetNames(FromConfig(f.rules[i]), qs, as), names \subseteq Seq(Nat)
    PROVE  LET r == f.rules[i] IN
           /\ MatchesPacket(FromConfig(r), qs, as) => Names(r, names) /\ names # {}
           /\ (names # {} /\ \A name \in names : NoNewline(name)) /\ Names(r, names)
                 => MatchesPacket(FromConfig(r), qs, as)
<1> DEFINE r == f.rules[i]
<1>1. FromConfig(r).patterns = {Regex(Canon(p)) : p \in r.patterns}
    BY DEF FromConfig
<1>2. r.patterns \subseteq Seq(Nat)
    BY ReflectorAssumption
<1>3. MatchesPacket(FromConfig(r), qs, as) <=>
          \E name \in names : \/ r.patterns = {}
                             \/ \E p \in r.patterns : IsMatch(Regex(Canon(p)), Canon(name))
  <2>1. MatchesPacket(FromConfig(r), qs, as) <=>
            \E name \in names :
               \/ FromConfig(r).patterns = {}
               \/ \E regex \in FromConfig(r).patterns : IsMatch(regex, Canon(name))
      BY DEF MatchesPacket
  <2> HIDE DEF r
  <2> QED BY <1>1, <2>1
<1> HIDE DEF r
<1>4. \A p \in r.patterns, name \in names :
          /\ IsMatch(Regex(Canon(p)), Canon(name)) => Globs(Canon(p), Canon(name))
          /\ NoNewline(name) /\ Globs(Canon(p), Canon(name))
                => IsMatch(Regex(Canon(p)), Canon(name))
    BY <1>2, CanonKeeps, RegexIsGlob
<1>5. MatchesPacket(FromConfig(r), qs, as) => Names(r, names) /\ names # {}
    BY <1>3, <1>4 DEF Names
<1>6. (names # {} /\ \A name \in names : NoNewline(name)) /\ Names(r, names)
          => MatchesPacket(FromConfig(r), qs, as)
    BY <1>3, <1>4 DEF Names
<1> QED BY <1>5, <1>6 DEF r

\* The rules of file f that have a say about an item; a known answer is a
\* record in a query.
Known(item, response) == item.kind = "record" /\ ~response
HitsOf(f, src, dst, item, response) ==
    LET cfg == Load(f) IN
    IF Known(item, response) THEN KnownAnswerRules(cfg, src, dst, item.names)
    ELSE {i \in DOMAIN cfg.rules :
             /\ AppliesTo(cfg.rules[i], src, dst)
             /\ IF item.kind = "question" THEN MatchesPacket(cfg.rules[i], item.names, {})
                ELSE MatchesPacket(cfg.rules[i], {}, item.names)}

\* An item is forwarded as the rules that hit it decide, the known answers by their
\* setting.
LEMMA ItemDecided ==
    ASSUME NEW f, NEW src, NEW dst, NEW item \in Item, NEW response \in BOOLEAN
    PROVE  ShouldForwardItem(Load(f), src, dst, item, response) <=>
              LET hits == HitsOf(f, src, dst, item, response) IN
              IF Known(item, response)
              THEN f.knownAnswers \/ Decide(Load(f).rules, hits, FALSE)
              ELSE Decide(Load(f).rules, hits, f.default = "forward")
<1>1. Load(f).knownAnswers = f.knownAnswers /\ Load(f).forward = (f.default = "forward")
    BY DEF Load
<1>2. item.kind \in {"question", "record"} /\ (item.kind = "record" <=> item.kind # "question")
    BY DEF Item
<1> DEFINE cfg == Load(f)
<1> HIDE DEF cfg
<1>3. cfg.knownAnswers = f.knownAnswers /\ cfg.forward = (f.default = "forward")
    BY <1>1 DEF cfg
<1>4. CASE item.kind = "question"
    BY <1>2, <1>3, <1>4 DEF ShouldForwardItem, ShouldForwardQuestion, ShouldForward, Known,
                            HitsOf, cfg
<1>5. CASE item.kind = "record" /\ response
    BY <1>2, <1>3, <1>5 DEF ShouldForwardItem, ShouldForwardRecord, ShouldForward, Known,
                            HitsOf, cfg
<1>6. CASE item.kind = "record" /\ ~response
    BY <1>2, <1>3, <1>6 DEF ShouldForwardItem, ShouldForwardRecord, Known, HitsOf, cfg
<1> QED BY <1>2, <1>4, <1>5, <1>6

\* A rule that hits speaks of the item; and the other way around, if the item's
\* names have no newline.
LEMMA HitsSay ==
    ASSUME NEW f \in Files, NEW i \in DOMAIN f.rules, NEW src, NEW dst,
           NEW item \in Item, NEW response \in BOOLEAN
    PROVE  /\ i \in HitsOf(f, src, dst, item, response)
                 => Says(f.rules[i], src, dst, item, response)
           /\ (\A name \in item.names : NoNewline(name))
              /\ Says(f.rules[i], src, dst, item, response)
                 => i \in HitsOf(f, src, dst, item, response)
<1> DEFINE r == f.rules[i]
           c == FromConfig(r)
           names == item.names
           plain == \A name \in names : NoNewline(name)
<1>1. /\ DOMAIN Load(f).rules = DOMAIN f.rules /\ Load(f).rules[i] = c
      /\ c.src = r.src /\ c.dst = r.dst /\ c.section = r.section
    BY DEF Load, FromConfig
<1>2. /\ item.kind \in {"question", "record"} /\ names \subseteq Seq(Nat) /\ names # {}
      /\ r.section \in {"questions", "answers", "any"}
    BY ReflectorAssumption DEF Item
<1>3. ASSUME NEW qs, NEW as, TargetNames(c, qs, as) \in {names, {}}
      PROVE  /\ MatchesPacket(c, qs, as) => Names(r, names) /\ TargetNames(c, qs, as) = names
             /\ plain /\ Names(r, names) /\ TargetNames(c, qs, as) = names
                   => MatchesPacket(c, qs, as)
    BY <1>2, <1>3, MatchesNames
<1>4. TargetNames(c, names, {}) = IF r.section \in {"any", "questions"} THEN names ELSE {}
    BY <1>1, <1>2 DEF TargetNames
<1>5. TargetNames(c, {}, names) = IF r.section \in {"any", "answers"} THEN names ELSE {}
    BY <1>1, <1>2 DEF TargetNames
<1>6. \A a, b : AppliesTo(c, a, b) <=> ("*" \in r.src \/ a \in r.src) /\ ("*" \in r.dst \/ b \in r.dst)
    BY <1>1 DEF AppliesTo
<1>7. Says(r, src, dst, item, response) <=>
          /\ AppliesTo(c, src, dst) \/ (Known(item, response) /\ AppliesTo(c, dst, src))
          /\ r.section \in {"any", IF item.kind = "question" THEN "questions" ELSE "answers"}
          /\ Names(r, names)
    BY <1>6 DEF Says, Known, Names
<1> HIDE DEF c, plain
<1>8. CASE item.kind = "question"
  <2>1. i \in HitsOf(f, src, dst, item, response) <=>
            AppliesTo(c, src, dst) /\ MatchesPacket(c, names, {})
      BY <1>1, <1>8 DEF HitsOf, Known
  <2> QED BY <1>2, <1>3, <1>4, <1>7, <1>8, <2>1 DEF plain, Known
<1>9. CASE item.kind = "record" /\ response
  <2>1. i \in HitsOf(f, src, dst, item, response) <=>
            AppliesTo(c, src, dst) /\ MatchesPacket(c, {}, names)
      BY <1>1, <1>9 DEF HitsOf, Known
  <2> QED BY <1>2, <1>3, <1>5, <1>7, <1>9, <2>1 DEF plain, Known
<1>10. CASE item.kind = "record" /\ ~response
  <2>1. i \in HitsOf(f, src, dst, item, response) <=>
            /\ AppliesTo(c, dst, src) \/ AppliesTo(c, src, dst)
            /\ r.section \in {"answers", "any"}
            /\ MatchesPacket(c, {}, names)
      BY <1>1, <1>10 DEF HitsOf, Known, KnownAnswerRules
  <2> QED BY <1>2, <1>3, <1>5, <1>7, <1>10, <2>1 DEF plain, Known
<1> QED BY <1>2, <1>8, <1>9, <1>10 DEF plain

-----------------------------------------------------------------------------
(* What leaves *)

\* Every item of a rewritten packet is one of a packet that came in, and was let
\* through.
Allowed ==
    file.rewrite =>
        \A s \in sent : \A it \in s.items :
            /\ \E p \in Packets : /\ \E n \in DOMAIN p.items : it[2] = p.items[n]
                                  /\ s.response = p.response
            /\ ShouldForwardItem(config, s.src, s.dst, it[2], s.response)

SInv == RInv /\ file \in Files /\ Allowed

\* Every step keeps what was sent allowed by the file.
LEMMA StepSInv ==
    ASSUME SInv, [Next]_vars
    PROVE  SInv'
<1>1. RInv'
    BY StepRInv DEF SInv
<1>2. UNCHANGED <<file, config>>
    BY DEF Next, vars, Receive, Enqueue, Take, RouteTo, Record
<1>3. CASE UNCHANGED sent
    BY <1>1, <1>2, <1>3 DEF SInv, Allowed
<1>4. ASSUME NEW dst \in Interfaces, RouteTo(dst), sent' # sent
      PROVE  SInv'
  <2> DEFINE m == current[1]
             kept == IF config.rewrite THEN KeptItems(m, dst) ELSE KeptWhole(m, dst)
             new == [id |-> m.id, src |-> m.src, dst |-> dst,
                     response |-> m.packet.response,
                     items |-> {<<n, Items(m)[n]>> : n \in kept}]
  <2>1. sent' = sent \cup {new}
      BY <1>4 DEF RouteTo, Send
  <2>2. m.packet \in Packets
    <3>1. current \in Seq(Message) /\ current # <<>>
        BY <1>4 DEF RouteTo, SInv, RInv, Typed
    <3>2. m \in Message
        BY <3>1
    <3> QED BY <3>2 DEF Message
  <2>3. new.src = m.src /\ new.dst = dst /\ new.response = m.packet.response
      OBVIOUS
  <2>4. config.rewrite = file.rewrite
      BY DEF SInv, RInv, Typed, Load
  <2>5. ASSUME file.rewrite, NEW it \in new.items
        PROVE  /\ \E n \in DOMAIN m.packet.items : it[2] = m.packet.items[n]
               /\ ShouldForwardItem(config, m.src, dst, it[2], m.packet.response)
    <3>1. PICK n \in KeptItems(m, dst) : it = <<n, Items(m)[n]>>
        BY <2>4, <2>5
    <3> QED BY <3>1 DEF KeptItems, Items
  <2> HIDE DEF new, m
  <2>6. ASSUME file.rewrite, NEW s \in sent', NEW it \in s.items
        PROVE  /\ \E p \in Packets : /\ \E n \in DOMAIN p.items : it[2] = p.items[n]
                                     /\ s.response = p.response
               /\ ShouldForwardItem(config, s.src, s.dst, it[2], s.response)
    <3>1. CASE s \in sent
        BY <2>6, <3>1 DEF SInv, Allowed
    <3>2. CASE s = new
        BY <2>2, <2>3, <2>5, <2>6, <3>2
    <3> QED BY <2>1, <3>1, <3>2
  <2> QED BY <1>1, <1>2, <2>6 DEF SInv, Allowed
<1>5. CASE \E dst \in Interfaces : RouteTo(dst)
    BY <1>3, <1>4, <1>5
<1> QED
    BY <1>3, <1>5 DEF Next, vars, Receive, Enqueue, Take, Record

\* It holds in every reachable state.
LEMMA AlwaysSInv == Spec => []SInv
<1>1. Init => SInv
    BY InitRInv DEF Init, SInv, Allowed
<1> QED BY <1>1, StepSInv, PTL DEF Spec

\* What is known of an item that left in a rewritten packet.
LEMMA SentItem ==
    ASSUME SInv, file.rewrite, NEW s \in sent, NEW it \in s.items
    PROVE  /\ it[2] \in Item /\ s.response \in BOOLEAN
           /\ \E p \in Packets : \E n \in DOMAIN p.items : it[2] = p.items[n]
           /\ ShouldForwardItem(Load(file), s.src, s.dst, it[2], s.response)
<1>1. PICK p \in Packets : /\ \E n \in DOMAIN p.items : it[2] = p.items[n]
                          /\ s.response = p.response
    BY DEF SInv, Allowed
<1>2. p.items \in Seq(Item) /\ p.response \in BOOLEAN
    BY ReflectorAssumption DEF Item
<1>3. it[2] \in Item
    BY <1>1, <1>2
<1>4. config = Load(file)
    BY DEF SInv, RInv, Typed
<1> QED BY <1>1, <1>2, <1>3, <1>4 DEF SInv, Allowed

\* Why it left: known answers are all allowed, no rule hits and the default lets
\* it through, or the first rule that hits does.
LEMMA WhySent ==
    ASSUME SInv, file.rewrite, NEW s \in sent, NEW it \in s.items
    PROVE  LET hits == HitsOf(file, s.src, s.dst, it[2], s.response) IN
           \/ Known(it[2], s.response) /\ file.knownAnswers
           \/ hits = {} /\ ~Known(it[2], s.response) /\ file.default = "forward"
           \/ \E h \in hits : (\A k \in hits : h <= k) /\ file.rules[h].action = "forward"
<1> DEFINE hits == HitsOf(file, s.src, s.dst, it[2], s.response)
           rules == Load(file).rules
           known == Known(it[2], s.response)
<1>1. /\ it[2] \in Item /\ s.response \in BOOLEAN
      /\ ShouldForwardItem(Load(file), s.src, s.dst, it[2], s.response)
    BY SentItem
<1>2. IF known THEN file.knownAnswers \/ Decide(rules, hits, FALSE)
      ELSE Decide(rules, hits, file.default = "forward")
    BY <1>1, ItemDecided
<1>3. /\ hits \subseteq DOMAIN file.rules /\ DOMAIN file.rules \subseteq Nat
      /\ \A i \in DOMAIN file.rules : rules[i].action = (file.rules[i].action = "forward")
    BY ReflectorAssumption DEF HitsOf, KnownAnswerRules, Load, FromConfig, SInv
<1> HIDE DEF hits, rules, known
<1>4. CASE hits = {}
    BY <1>2, <1>4 DEF Decide, hits, known
<1>5. CASE hits # {} /\ ~(known /\ file.knownAnswers)
  <2>1. PICK o \in BOOLEAN : Decide(rules, hits, o)
      BY <1>2, <1>5
  <2>2. PICK hs, rs : hs = hits /\ rs = rules
      OBVIOUS
  <2>3. hs \in SUBSET Nat
      BY <1>3, <2>2
  <2>4. PICK h \in hs : (\A k \in hs : h <= k) /\ Decide(rs, hs, o) = rs[h].action
      BY <1>5, <2>2, <2>3, FirstHit
  <2>5. (\A k \in hits : h <= k) /\ file.rules[h].action = "forward" /\ h \in hits
      BY <1>3, <2>1, <2>2, <2>4
  <2> QED BY <2>5 DEF hits
<1> QED BY <1>4, <1>5 DEF hits, known

\* No item of a rewritten packet leaves unless a forward rule of the file speaks
\* of it, or the default lets it through, or known answers are all allowed:
\* whatever the rules, their order and patterns, and the packets.
THEOREM OnlyGrantedLeaves == Spec => []OnlyGranted
<1>1. ASSUME SInv, file.rewrite, NEW s \in sent, NEW it \in s.items
      PROVE  \/ \E i \in DOMAIN file.rules :
                   /\ file.rules[i].action = "forward"
                   /\ Says(file.rules[i], s.src, s.dst, it[2], s.response)
             \/ IF it[2].kind = "record" /\ ~s.response
                THEN file.knownAnswers ELSE file.default = "forward"
  <2> DEFINE hits == HitsOf(file, s.src, s.dst, it[2], s.response)
  <2>1. it[2] \in Item /\ s.response \in BOOLEAN /\ file \in Files
      BY <1>1, SentItem DEF SInv
  <2>2. \A h \in hits : /\ h \in DOMAIN file.rules
                        /\ Says(file.rules[h], s.src, s.dst, it[2], s.response)
    <3>1. \A h \in hits : h \in DOMAIN file.rules
        BY DEF HitsOf, KnownAnswerRules, Load
    <3> QED BY <2>1, <3>1, HitsSay
  <2> QED BY <1>1, <2>2, WhySent DEF Known
<1>2. SInv => OnlyGranted
    BY <1>1 DEF OnlyGranted
<1> QED BY <1>2, AlwaysSInv, PTL

\* The first matching rule wins, for every file and all packets: an item without
\* a newline in its names that a drop rule speaks of is only sent if a forward
\* rule before it speaks of the item too.
THEOREM FirstRuleWins == Spec => []FirstMatchWins
<1>1. ASSUME SInv, file.rewrite, NEW s \in sent, NEW it \in s.items, OneLine(it[2]),
             NEW i \in DOMAIN file.rules, file.rules[i].action # "forward",
             Says(file.rules[i], s.src, s.dst, it[2], s.response),
             ~(Known(it[2], s.response) /\ file.knownAnswers)
      PROVE  \E k \in 1..(i - 1) :
                 /\ file.rules[k].action = "forward"
                 /\ Says(file.rules[k], s.src, s.dst, it[2], s.response)
  <2> DEFINE hits == HitsOf(file, s.src, s.dst, it[2], s.response)
  <2>1. it[2] \in Item /\ s.response \in BOOLEAN /\ file \in Files
      BY <1>1, SentItem DEF SInv
  <2>2. \A name \in it[2].names : NoNewline(name)
      BY <1>1 DEF OneLine, NoNewline
  <2>3. i \in hits
      BY <1>1, <2>1, <2>2, HitsSay
  <2>4. PICK h \in hits : (\A k \in hits : h <= k) /\ file.rules[h].action = "forward"
      BY <1>1, <2>3, WhySent
  <2>5. h \in DOMAIN file.rules /\ h <= i /\ h # i
      BY <1>1, <2>3, <2>4 DEF HitsOf, KnownAnswerRules, Load
  <2>6. Says(file.rules[h], s.src, s.dst, it[2], s.response)
      BY <2>1, <2>4, <2>5, HitsSay
  <2>7. h \in 1..(i - 1)
      BY <1>1, <2>1, <2>5, ReflectorAssumption
  <2> QED BY <2>4, <2>6, <2>7
<1>2. SInv => FirstMatchWins
    BY <1>1 DEF FirstMatchWins, ByFirstMatch, Known
<1> QED BY <1>2, AlwaysSInv, PTL

===============================================================================
