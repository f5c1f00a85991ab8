------------------------------ MODULE Reflector ------------------------------
(***************************************************************************)
(* The reflector of mdns-sieve (reflector.rs): one task per interface      *)
(* receives packets into a bounded channel; one loop takes them out, sends *)
(* each, whole or rewritten, to the other interfaces, and hands the        *)
(* message and what became of its items to the tracking manager.           *)
(*                                                                         *)
(* A packet is a record: valid (parse_mdns_packet accepts it), response,   *)
(* and items, the sequence of its questions and records (FilterRules says  *)
(* what an item is); the loop treats the three record sections alike.      *)
(***************************************************************************)
EXTENDS FilterRules, FiniteSets

CONSTANTS
    Interfaces,   \* the configured interfaces
    Files,        \* configuration files the process may be started with
    Packets,      \* packets that may arrive
    Capacity,     \* places in the channel (1000)
    MaxPackets    \* bound: packets received

ASSUME ReflectorAssumption ==
    /\ IsFiniteSet(Interfaces) /\ "*" \notin Interfaces
    /\ Capacity \in Nat \ {0}
    /\ MaxPackets \in Nat
    /\ \A p \in Packets :
          /\ p.valid \in BOOLEAN /\ p.response \in BOOLEAN
          /\ p.items \in Seq([kind : {"question", "record"},
                              names : (SUBSET Seq(Nat)) \ {{}}])
    /\ \A f \in Files :
          /\ DOMAIN f.rules \subseteq Nat \ {0}
          /\ \A i \in DOMAIN f.rules :
                /\ f.rules[i].section \in {"questions", "answers", "any"}
                /\ f.rules[i].patterns \subseteq Seq(Nat)

VARIABLES
    file,         \* the configuration file
    config,       \* and what was loaded from it
    sockets,      \* interfaces whose socket could be set up
    received,     \* packets received so far; its value numbers the next one
    holding,      \* per interface: what its task has received, not yet sent
    channel,      \* the mpsc channel
    current,      \* the message the loop works on: a sequence of length <= 1
    todo,         \* destinations it still has to be routed to
    routing,      \* per item: the destinations it went, and did not go, to
    sent,         \* history: the send_to calls
    recorded,     \* history: the messages given to the manager, in order
    skipped       \* history: numbers of the messages that were not routed

vars == <<file, config, sockets, received, holding, channel, current, todo,
          routing, sent, recorded, skipped>>

Init ==
    /\ file \in Files /\ config = Load(file)
    /\ sockets \in (SUBSET Interfaces) \ {{}}   \* with none the loop never starts
    /\ received = 0
    /\ holding = [i \in Interfaces |-> <<>>]
    /\ channel = <<>>
    /\ current = <<>> /\ todo = {} /\ routing = <<>>
    /\ sent = {} /\ recorded = <<>> /\ skipped = {}

-----------------------------------------------------------------------------
(* The receiving tasks *)

\* recv_from returns a packet.
Receive(i) ==
    /\ i \in sockets
    /\ holding[i] = <<>>
    /\ received < MaxPackets
    /\ received' = received + 1
    /\ \E p \in Packets :
          holding' = [holding EXCEPT
              ![i] = <<[id |-> received + 1, src |-> i, packet |-> p]>>]
    /\ UNCHANGED <<file, config, sockets, channel, current, todo, routing,
                   sent, recorded, skipped>>

EnqueueFirst(i) ==   \* mutant: last in, first out
    /\ holding[i] # <<>>
    /\ Len(channel) < Capacity
    /\ channel' = holding[i] \o channel
    /\ holding' = [holding EXCEPT ![i] = <<>>]
    /\ UNCHANGED <<file, config, sockets, received, current, todo, routing,
                   sent, recorded, skipped>>
EnqueueOrDrop(i) ==   \* mutant: try_send
    /\ holding[i] # <<>>
    /\ channel' = IF Len(channel) < Capacity THEN channel \o holding[i]
                  ELSE channel
    /\ holding' = [holding EXCEPT ![i] = <<>>]
    /\ UNCHANGED <<file, config, sockets, received, current, todo, routing,
                   sent, recorded, skipped>>

\* tx.send: waits while the channel is full.
Enqueue(i) ==
    /\ holding[i] # <<>>
    /\ Len(channel) < Capacity
    /\ channel' = channel \o holding[i]
    /\ holding' = [holding EXCEPT ![i] = <<>>]
    /\ UNCHANGED <<file, config, sockets, received, current, todo, routing,
                   sent, recorded, skipped>>

-----------------------------------------------------------------------------
(* The loop *)

Items(m) == m.packet.items
NoRoute == [fwd |-> {}, drop |-> {}]
Routable(m) == m.packet.valid /\ Items(m) # <<>>

DestinationsConfigured(src) ==   \* mutant: also interfaces without a socket
    Interfaces \ {src}
\* What is left to route to: every socket but the one it came in on.
Destinations(src) == sockets \ {src}

\* rx.recv: a packet that does not parse, or has no items, is skipped.
Take ==
    /\ current = <<>>
    /\ channel # <<>>
    /\ channel' = Tail(channel)
    /\ LET m == Head(channel)
       IN  \/ /\ Routable(m)
              /\ current' = <<m>>
              /\ todo' = Destinations(m.src)
              /\ routing' = [n \in DOMAIN Items(m) |-> NoRoute]
              /\ UNCHANGED skipped
           \/ /\ ~Routable(m)
              /\ skipped' = skipped \cup {m.id}
              /\ UNCHANGED <<current, todo, routing>>
    /\ UNCHANGED <<file, config, sockets, received, holding, sent, recorded>>

NamesOf(m, kind) ==
    UNION {Items(m)[n].names :
              n \in {k \in DOMAIN Items(m) : Items(m)[k].kind = kind}}

RouteUnsent(kept, dst) ==   \* mutant: kept and packet_sent are not looked at
    [n \in DOMAIN routing |-> [routing[n] EXCEPT !.fwd = @ \cup {dst}]]

\* A destination is noted for every item: the ones sent there, and the rest.
Route(kept, dst) ==
    [n \in DOMAIN routing |->
        IF n \in kept THEN [routing[n] EXCEPT !.fwd = @ \cup {dst}]
                      ELSE [routing[n] EXCEPT !.drop = @ \cup {dst}]]

\* One send_to; its result is not looked at.
Send(m, dst, kept) ==
    sent' = IF kept = {} THEN sent
            ELSE sent \cup {[id |-> m.id, src |-> m.src, dst |-> dst,
                             response |-> m.packet.response,
                             items |-> {<<n, Items(m)[n]>> : n \in kept}]}

\* The items that go to dst: all or none of a whole packet ...
KeptWhole(m, dst) ==
    IF ShouldForward(config, m.src, dst, NamesOf(m, "question"),
                     NamesOf(m, "record"))
    THEN DOMAIN Items(m) ELSE {}

\* ... or, in rewrite mode, those the rules let through one by one.
KeptItems(m, dst) ==
    {n \in DOMAIN Items(m) :
        ShouldForwardItem(config, m.src, dst, Items(m)[n], m.packet.response)}

RouteTo(dst) ==
    /\ current # <<>>
    /\ dst \in todo
    /\ todo' = todo \ {dst}
    /\ LET m == current[1]
           kept == IF config.rewrite THEN KeptItems(m, dst)
                   ELSE KeptWhole(m, dst)
       IN  \/ /\ Send(m, dst, kept)
              /\ routing' = Route(kept, dst)
           \/ \* serialize() of a packet that lost items fails: nothing is sent
              /\ config.rewrite
              /\ kept \notin {{}, DOMAIN Items(m)}
              /\ UNCHANGED sent
              /\ routing' = Route({}, dst)
    /\ UNCHANGED <<file, config, sockets, received, holding, channel, current,
                   recorded, skipped>>

\* compute_item_disposition.
ItemDisposition(r) ==
    IF r.fwd = {} THEN "dropped"
    ELSE IF r.drop = {} THEN "forwarded" ELSE "partially_forwarded"

DispositionAny(rs) ==   \* mutant: any() for all()
    LET ds == {ItemDisposition(rs[n]) : n \in DOMAIN rs}
    IN  IF "forwarded" \in ds THEN "forwarded"
        ELSE IF ds = {"dropped"} THEN "dropped" ELSE "partially_forwarded"

\* The disposition of the message, from those of its items.
Disposition(rs) ==
    LET ds == {ItemDisposition(rs[n]) : n \in DOMAIN rs}
    IN  IF ds = {"forwarded"} THEN "forwarded"
        ELSE IF ds = {"dropped"} THEN "dropped" ELSE "partially_forwarded"

\* Every destination is done: record_message_deferred gets the message.
Record ==
    /\ current # <<>>
    /\ todo = {}
    /\ LET m == current[1] IN
          recorded' = Append(recorded,
              [id |-> m.id, src |-> m.src, routing |-> routing,
               disposition |-> Disposition(routing),
               fwd  |-> UNION {routing[n].fwd : n \in DOMAIN routing},
               drop |-> UNION {routing[n].drop : n \in DOMAIN routing}])
    /\ current' = <<>>
    /\ routing' = <<>>
    /\ UNCHANGED <<file, config, sockets, received, holding, channel, todo,
                   sent, skipped>>

-----------------------------------------------------------------------------

Next ==
    \/ \E i \in Interfaces : Receive(i) \/ Enqueue(i)
    \/ Take \/ (\E dst \in Interfaces : RouteTo(dst)) \/ Record

Spec == Init /\ [][Next]_vars

-----------------------------------------------------------------------------
(* What the reflector promises *)

Message == [id : Nat, src : Interfaces, packet : Packets]
RouteRecord == [fwd : SUBSET Interfaces, drop : SUBSET Interfaces]

\* Type invariant.
TypeOK ==
    /\ config = Load(file)
    /\ sockets \subseteq Interfaces
    /\ received \in 0..MaxPackets
    /\ \A i \in Interfaces : Len(holding[i]) <= 1
    /\ \A i \in Interfaces : \A k \in DOMAIN holding[i] : holding[i][k] \in Message
    /\ Len(channel) <= Capacity
    /\ \A k \in DOMAIN channel : channel[k] \in Message
    /\ Len(current) <= 1
    /\ \A k \in DOMAIN current : current[k] \in Message
    /\ todo \subseteq sockets
    /\ \A n \in DOMAIN routing : routing[n] \in RouteRecord

\* Item n of the recorded message r was in a packet sent to dst.
WentTo(r, n, dst) ==
    \E s \in sent : s.id = r.id /\ s.dst = dst /\ \E it \in s.items : it[1] = n

\* The history tells the truth about every item and destination: an item is
\* noted as forwarded to exactly the interfaces a packet with it was sent to,
\* and as dropped for all the others but the one it came in on, whatever the
\* mode, the order of the destinations, and failures to serialize.
LogMatchesWire ==
    \A k \in DOMAIN recorded :
        LET r == recorded[k]
        IN  \A n \in DOMAIN r.routing :
               /\ r.routing[n].fwd = {d \in sockets : WentTo(r, n, d)}
               /\ r.routing[n].drop = (sockets \ {r.src}) \ r.routing[n].fwd

\* The disposition of a message, computed from those of its items, says what
\* happened to it: "forwarded" if every item went to every other interface,
\* "dropped" if nothing was sent (reflector.rs:268-277).
DispositionExact ==
    \A k \in DOMAIN recorded :
        LET r == recorded[k]
            others == sockets \ {r.src}
        IN  /\ r.disposition = "forwarded" <=>
                  /\ others # {}
                  /\ \A n \in DOMAIN r.routing, d \in others : WentTo(r, n, d)
            /\ r.disposition = "dropped" <=> \A s \in sent : s.id # r.id

\* What a glob pattern of the file means, case and final dots apart: the
\* characters of the pattern cut the name into pieces, "*" into any piece, "?"
\* into any character, others into themselves; cut[k] is where the k-th ends.
Globs(pattern, name) ==
    \E cut \in [0..Len(pattern) -> 0..Len(name)] :
        /\ cut[0] = 0 /\ cut[Len(pattern)] = Len(name)
        /\ \A k \in 1..Len(pattern) :
              IF pattern[k] = Star THEN cut[k - 1] <= cut[k]
              ELSE /\ cut[k] = cut[k - 1] + 1
                   /\ pattern[k] \in {Mark, name[cut[k]]}

\* What rule r of the file says of an item that came in on src and would go
\* to dst; a known answer is also judged by the rules for the way back.
Says(r, src, dst, item, response) ==
    LET there == "*" \in r.src \/ src \in r.src
        here  == "*" \in r.dst \/ dst \in r.dst
        back  == ("*" \in r.src \/ dst \in r.src) /\ ("*" \in r.dst \/ src \in r.dst)
        known == item.kind = "record" /\ ~response
    IN  /\ (there /\ here) \/ (known /\ back)
        /\ r.section \in {"any", IF item.kind = "question" THEN "questions"
                                 ELSE "answers"}
        /\ r.patterns = {} \/ \E p \in r.patterns, name \in item.names :
                                  Globs(Canon(p), Canon(name))

\* No item of a rewritten packet leaves unless a forward rule lets it, or the
\* default does, or it is a known answer and those are all allowed
\* (README.md:23, config-sample.yaml:16-19).
OnlyGranted ==
    file.rewrite =>
        \A s \in sent : \A it \in s.items :
            \/ \E i \in DOMAIN file.rules :
                  /\ file.rules[i].action = "forward"
                  /\ Says(file.rules[i], s.src, s.dst, it[2], s.response)
            \/ IF it[2].kind = "record" /\ ~s.response
               THEN file.knownAnswers ELSE file.default = "forward"

\* If a drop rule speaks of an item that was sent, a forward rule before it
\* does, too.
ByFirstMatch(s, item) ==
    \A i \in DOMAIN file.rules :
        \/ file.rules[i].action = "forward"
        \/ ~Says(file.rules[i], s.src, s.dst, item, s.response)
        \/ item.kind = "record" /\ ~s.response /\ file.knownAnswers
        \/ \E k \in 1..(i - 1) :
              /\ file.rules[k].action = "forward"
              /\ Says(file.rules[k], s.src, s.dst, item, s.response)

OneLine(item) == \A name \in item.names : \A k \in DOMAIN name : name[k] # Newline

\* An item of a rewritten packet that a drop rule speaks of is only sent if a
\* forward rule before it speaks of the item too.  Left out are items with a
\* newline in a name: "*" and "?" become ".*" and ".", which do not match it
\* (config.rs:62-77).
FirstMatchWins ==
    file.rewrite =>
        \A s \in sent : \A it \in s.items : OneLine(it[2]) => ByFirstMatch(s, it[2])

\* The messages of one interface are recorded in the order they came in.
InOrder ==
    \A j, k \in DOMAIN recorded :
        j < k /\ recorded[j].src = recorded[k].src => recorded[j].id < recorded[k].id

==============================================================================
