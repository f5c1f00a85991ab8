-------------------------------- MODULE Sieve ---------------------------------
(***************************************************************************)
(* The daemon from socket to database, in one life of the process: the     *)
(* reflector (Reflector) and message tracking (Tracking) together.  They   *)
(* meet where the loop waits for the manager's Mutex to record a message   *)
(* (reflector.rs:296-304), which the jobs' slots and main()'s last flush   *)
(* may delay while the channel fills up behind it, and where the runtime   *)
(* is dropped, which ends the loop and the receive tasks at once.          *)
(*                                                                         *)
(* Time is counted in messages here, there is no Tick: the clock is only   *)
(* looked at when a message is recorded.                                   *)
(***************************************************************************)
EXTENDS Naturals, Sequences, FiniteSets

CONSTANTS
    LowerCase, Cased, Ignorable,                              \* DnsNames
    Interfaces, Files, Packets, Capacity, MaxPackets,          \* Reflector
    Jobs, Main, FlushThreshold, FlushInterval, Retention,      \* Tracking
    MaxRecords, Signals, MaxTime, MaxFaults, MaxKills

VARIABLES
    file, config, sockets, received, holding, channel, current, todo,
    routing, sent, recorded, skipped,
    now, phase, stats, buffer, lastFlush, job, rows, items, dbStats,
    gone, lost, wipedAt, faults, kills,
    stamp         \* history: the timestamp of each recorded message

R == INSTANCE Reflector
T == INSTANCE Tracking WITH
         Requests <- {},
         Dispositions <- {"forwarded", "partially_forwarded", "dropped"}

reflector == <<file, config, sockets, received, holding, channel, current,
               todo, routing, sent, recorded, skipped>>
tracking  == <<now, phase, stats, buffer, lastFlush, job, rows, items,
               dbStats, gone, lost, wipedAt, faults, kills>>
vars == <<reflector, tracking, stamp>>

ASSUME SieveAssumption ==
    /\ R!CaseAssumption /\ R!ReflectorAssumption
    /\ T!SlotsAssumption /\ T!ConfigAssumption /\ T!InputAssumption /\ T!BoundAssumption

Init == R!Init /\ T!Init /\ stamp = <<>>

-----------------------------------------------------------------------------

\* Tasks run until the runtime is dropped.
Alive == phase \in {"serving", "stopping", "flushing", "returned"}

Receive ==
    /\ Alive
    /\ \E i \in Interfaces : R!Receive(i)
    /\ UNCHANGED <<tracking, stamp>>

Enqueue(i) ==
    /\ Alive
    /\ R!Enqueue(i)
    /\ UNCHANGED <<tracking, stamp>>

\* The loop, up to the Mutex ...
Forward ==
    /\ Alive
    /\ R!Take \/ \E dst \in Interfaces : R!RouteTo(dst)
    /\ UNCHANGED <<tracking, stamp>>

RecordLast ==   \* mutant: counted with the disposition of the message before
    /\ Alive
    /\ R!Record
    /\ T!Record(IF recorded = <<>> THEN "dropped"
                ELSE recorded[Len(recorded)].disposition)
    /\ stamp' = Append(stamp, now')
\* ... and with it: record_message_deferred gets the message.
Record ==
    /\ Alive
    /\ R!Record
    /\ T!Record(R!Disposition(routing))
    /\ stamp' = Append(stamp, now')

\* A pool thread, or main().  RuntimeDrops ends the loop and the tasks: what
\* they hold is never handled.
Job(j) == T!JobStep(j) /\ UNCHANGED <<reflector, stamp>>
Process ==
    /\ \/ T!Interrupt \/ T!ShutdownFlush \/ T!MainReturns \/ T!RuntimeDrops
       \/ T!Exit \/ T!Terminate
       \/ \E j \in Jobs : T!Cancel(j)
    /\ UNCHANGED <<reflector, stamp>>

Next ==
    \/ Receive \/ (\E i \in Interfaces : Enqueue(i)) \/ Forward \/ Record
    \/ \E j \in T!Slots : Job(j)
    \/ Process

\* Tasks are polled, the channel serves its waiting senders and the Mutex its
\* waiting tasks, and pool threads run their closures.
Spec ==
    /\ Init /\ [][Next]_vars
    /\ WF_vars(Forward \/ Record)
    /\ \A i \in Interfaces : WF_vars(Enqueue(i))
    /\ \A j \in T!Slots : WF_vars(Job(j))
    /\ WF_vars(T!MainReturns /\ UNCHANGED <<reflector, stamp>>)

-----------------------------------------------------------------------------
(* What the daemon promises *)

Ids(seq) == {seq[k].id : k \in DOMAIN seq}

\* Packets in memory: with a receive task, in the channel, or in the loop.
OnTheWay == (UNION {Ids(holding[i]) : i \in Interfaces}) \cup Ids(channel) \cup Ids(current)
Handled == skipped \cup Ids(recorded)

\* Every packet received is in one place: on its way, skipped, or recorded
\* once; none is dropped or handled twice, though the channel is bounded and
\* the loop waits for the Mutex (reflector.rs:66-76, 296-304).
Conserved ==
    /\ OnTheWay \cup Handled = 1..received
    /\ OnTheWay \cap Handled = {}
    /\ skipped \cap Ids(recorded) = {}
    /\ Cardinality(Ids(recorded)) = Len(recorded)

\* What happened on the wire to the packet of a recorded message.
Fate(r) ==
    LET others == sockets \ {r.src}
    IN  IF \A s \in sent : s.id # r.id THEN "dropped"
        ELSE IF \A n \in DOMAIN r.routing, d \in others : R!WentTo(r, n, d)
        THEN "forwarded" ELSE "partially_forwarded"

\* The numbers the dashboard shows are those of packets that really went out,
\* went out in part, or did not go out; and what is saved, by whatever flush,
\* was true once.
CountsAreTrue(s, n) ==
    \A d \in T!AllDispositions :
        s[d] = Cardinality({k \in 1..n : Fate(recorded[k]) = d})
CountersTrue ==
    /\ phase # "down" => CountsAreTrue(stats, Len(recorded))
    /\ \E n \in 0..Len(recorded) : CountsAreTrue(dbStats, n)

\* The daemon is a message log of packets: a packet is accepted when the loop
\* has routed it, and goes from memory to the database to the past.
At(ms) == {recorded[k].id : k \in {n \in DOMAIN recorded : stamp[n] \in ms}}
PacketLog == INSTANCE MessageLog WITH
                 Message <- 1..MaxPackets,
                 pending <- At(buffer \cup T!InFlight),
                 stored  <- At(rows),
                 retired <- At(gone \cup lost)
LogsPackets == PacketLog!LogSpec

\* The messages of one interface are recorded in the order they came in.
InOrder == R!InOrder

\* A packet that was received is recorded, or skipped as unroutable, unless
\* the process ends first: a full channel and the Mutex held by main() only
\* delay it.
EveryPacketHandled ==
    \A id \in 1..MaxPackets : received = id ~> (id \in Handled \/ ~Alive)

===============================================================================
