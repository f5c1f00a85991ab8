------------------------------- MODULE Tracking -------------------------------
(***************************************************************************)
(* Message tracking of mdns-sieve: the CommandServerManager behind its     *)
(* tokio Mutex (server.rs), the flush, history and clear jobs it hands to  *)
(* the blocking-thread pool, the SQLite database those jobs write          *)
(* (database.rs), and the process that starts and stops all of it          *)
(* (main.rs).  Tracking and the web server are enabled.                    *)
(*                                                                         *)
(* A message is identified by its timestamp: Record advances the clock, so *)
(* no two messages share one, and the database's timestamp order is their  *)
(* order of arrival.  A job is one spawn_blocking closure; each of its     *)
(* steps is one SQL statement or transaction, because SQLite serialises    *)
(* statements and nothing holds the Mutex while a job runs.                *)
(***************************************************************************)
EXTENDS Integers, FiniteSets

CONSTANTS
    Jobs,           \* slots of the blocking pool: jobs in flight at once
    Main,           \* the flush main() itself runs at shutdown
    FlushThreshold, \* buffered messages that force a flush (200)
    FlushInterval,  \* flush_interval_seconds
    Retention,      \* retention_days, in clock units
    MaxRecords,     \* max_records; 0 means no limit
    Dispositions,   \* dispositions messages are recorded with
    Requests,       \* HTTP requests made: "history", "reset", "wipe"
    Signals,        \* signals delivered: "SIGINT", "SIGTERM", "SIGKILL"
    MaxTime,        \* bound: the clock stops here
    MaxFaults,      \* bound: database operations that fail
    MaxKills        \* bound: times the process is killed

AllDispositions == {"forwarded", "partially_forwarded", "dropped"}

ASSUME SlotsAssumption == IsFiniteSet(Jobs) /\ Main \notin Jobs
ASSUME ConfigAssumption ==
    /\ FlushThreshold \in Nat \ {0}
    /\ FlushInterval \in Nat
    /\ Retention \in Nat
    /\ MaxRecords \in Nat
ASSUME InputAssumption ==
    /\ Dispositions \subseteq AllDispositions
    /\ Requests \subseteq {"history", "reset", "wipe"}
    /\ Signals \subseteq {"SIGINT", "SIGTERM", "SIGKILL"}
ASSUME BoundAssumption ==
    /\ MaxTime \in Nat
    /\ MaxFaults \in Nat
    /\ MaxKills \in Nat

VARIABLES
    now,        \* the wall clock
    phase,      \* how far main() and the runtime are
    stats,      \* the four counters of the manager
    buffer,     \* db_buffer_messages
    lastFlush,  \* last_flush_time
    job,        \* what each pool slot, and main's own flush, is doing
    rows,       \* messages in the messages table
    items,      \* those of them that have their message_items rows
    dbStats,    \* the global_stats row (absent reads as zeros)
    gone,       \* history: pruned or cleared on purpose
    lost,       \* history: died with the process or with a failed insert
    wipedAt,    \* history: request time of the last completed wipe
    faults,     \* database operations that have failed
    kills       \* times the process was killed

manager  == <<stats, buffer, lastFlush>>
database == <<rows, items, dbStats>>
history  == <<gone, lost, wipedAt>>
counters == <<faults, kills>>
vars == <<now, phase, manager, job, database, history, counters>>

-----------------------------------------------------------------------------
(* Data *)

Slots == Jobs \cup {Main}

Phases == {"serving",     \* main() waits for ctrl_c
           "stopping",    \* ctrl_c returned, main() waits for the Mutex
           "flushing",    \* main() holds the Mutex and flushes
           "returned",    \* main() has released it; the runtime still runs
           "draining",    \* the runtime is being dropped
           "down"}        \* no process

PCs == {"idle", "queued",
        "insert", "save", "expire", "count", "trim",   \* a flush
        "tally", "page", "items",                      \* a history query
        "zero", "unlink", "purge"}                     \* a clear

Kinds == {"flush", "history", "reset", "wipe"}

Counters == [{"total"} \cup AllDispositions -> Nat]
Zeros    == [c \in {"total"} \cup AllDispositions |-> 0]
CountedTwice(s, d) ==   \* mutant: the last else branch always runs
    [s EXCEPT !["total"] = @ + 1, ![d] = @ + 1, !["dropped"] = @ + 1]
Counted(s, d) == [s EXCEPT !["total"] = @ + 1, ![d] = @ + 1]
Balanced(s) ==
    s["total"] = s["forwarded"] + s["partially_forwarded"] + s["dropped"]

\* want and page only serve a history job, since a prune or a wipe; count is
\* the excess of a prune or the total of a history job.
Job == [pc : PCs, kind : Kinds, msgs : SUBSET Nat, stats : Counters,
        count : Nat, since : Nat, want : SUBSET Nat, page : SUBSET Nat]

NewJob(pc, kind, msgs, s, since, want) ==
    [pc |-> pc, kind |-> kind, msgs |-> msgs, stats |-> s,
     count |-> 0, since |-> since, want |-> want, page |-> {}]

Idle == NewJob("idle", "flush", {}, Zeros, 0, {})

\* Messages taken from the buffer and not yet inserted.
Batch(j)  == IF job[j].pc \in {"queued", "insert"} THEN job[j].msgs ELSE {}
InFlight  == UNION {Batch(j) : j \in Slots}

OldestButOne(S, n) ==   \* mutant: off by one
    {m \in S : Cardinality({k \in S : k < m}) < n - 1}
\* ORDER BY timestamp ASC LIMIT n.
Oldest(S, n) == {m \in S : Cardinality({k \in S : k < m}) < n}

LockHeld == phase = "serving"   \* mutant: main() never releases it
\* The manager's Mutex is free: main() holds it only during its own flush.
LockFree == phase \in {"serving", "stopping", "returned"}

\* Jobs run until the process ends.
Running == phase # "down"

-----------------------------------------------------------------------------
(* Start *)

Init ==
    /\ now = 0
    /\ phase = "serving"
    /\ stats = Zeros
    /\ buffer = {}
    /\ lastFlush = 0
    /\ job = [j \in Slots |-> Idle]
    /\ rows = {} /\ items = {} /\ dbStats = Zeros
    /\ gone = {} /\ lost = {} /\ wipedAt = 0
    /\ faults = 0 /\ kills = 0

Tick ==
    /\ now < MaxTime
    /\ now' = now + 1
    /\ UNCHANGED <<phase, manager, job, database, history, counters>>

-----------------------------------------------------------------------------
(* The manager: every action here is one critical section of its Mutex *)

FlushDueLate(batch, t) ==   \* mutant: > for >=
    \/ Cardinality(batch) > FlushThreshold
    \/ t - lastFlush >= FlushInterval
\* prepare_flush_task does not return None: the batch is full, or the
\* interval since the last flush has passed.
FlushDue(batch, t) ==
    \/ Cardinality(batch) >= FlushThreshold
    \/ t - lastFlush >= FlushInterval

CopyBuffer(t) ==   \* mutant: clone for mem::take
    /\ UNCHANGED buffer
    /\ lastFlush' = t
\* prepare_flush_task takes the buffer and a copy of the counters.
TakeBuffer(t) ==
    /\ buffer' = {}
    /\ lastFlush' = t

\* record_message_deferred: count the message, buffer it, and spawn a flush
\* when one is due.
Record(d) ==
    LET m == now + 1
        batch == buffer \cup {m}
    IN  /\ LockFree
        /\ now < MaxTime
        /\ now' = m
        /\ stats' = Counted(stats, d)
        /\ \/ /\ ~FlushDue(batch, m)
              /\ buffer' = batch
              /\ UNCHANGED <<lastFlush, job>>
           \/ /\ FlushDue(batch, m)
              /\ TakeBuffer(m)
              /\ \E j \in Jobs :
                    /\ job[j].pc = "idle"
                    /\ job' = [job EXCEPT ![j] =
                         NewJob("queued", "flush", batch, stats', 0, {})]
        /\ UNCHANGED <<phase, database, history, counters>>

\* api_history: force a flush that does not prune, then query in one job.
HistoryRequest(j) ==
    /\ "history" \in Requests
    /\ LockFree
    /\ job[j].pc = "idle"
    /\ TakeBuffer(now)
    /\ job' = [job EXCEPT ![j] =
         NewJob("queued", "history", buffer, stats, 0, buffer \cup rows)]
    /\ UNCHANGED <<now, phase, stats, database, history, counters>>

\* api_clear: zero the counters, for a wipe also drop the buffer, and let a
\* job clear the database.
ClearRequest(j, kind) ==
    /\ kind \in Requests \cap {"reset", "wipe"}
    /\ LockFree
    /\ job[j].pc = "idle"
    /\ stats' = Zeros
    /\ IF kind = "wipe"
       THEN buffer' = {} /\ gone' = gone \cup buffer
       ELSE UNCHANGED <<buffer, gone>>
    /\ job' = [job EXCEPT ![j] = NewJob("queued", kind, {}, Zeros, now, {})]
    /\ UNCHANGED <<now, phase, lastFlush, database, lost, wipedAt, counters>>

-----------------------------------------------------------------------------
(* The jobs.  Go moves a job to its next statement; a job that ends frees  *)
(* its slot.                                                               *)

Go(j, pc) ==
    job' = [job EXCEPT ![j] = IF pc = "idle" THEN Idle ELSE [@ EXCEPT !.pc = pc]]

\* The next statement after each one; a failing statement is skipped, so
\* the order is the same whether it succeeds or fails.
AfterStartSkipped(k, msgs) ==   \* mutant: the emptiness test inverted
    IF k \in {"reset", "wipe"} THEN "zero"
    ELSE IF msgs # {} THEN "save" ELSE "insert"
AfterStartQueries(k, msgs) ==   \* mutant: the query runs before the flush
    IF k \in {"reset", "wipe"} THEN "zero"
    ELSE IF k = "history" THEN "tally"
    ELSE IF msgs = {} THEN "save" ELSE "insert"
AfterStart(k, msgs) == IF k \in {"reset", "wipe"} THEN "zero"
                       ELSE IF msgs = {} THEN "save" ELSE "insert"
AfterSave(k)   == IF k = "flush" THEN "expire" ELSE "tally"
AfterExpire    == IF MaxRecords > 0 THEN "count" ELSE "idle"
AfterZeroRetries(k) == IF k = "wipe" THEN "unlink" ELSE "zero"   \* mutant
AfterZero(k)   == IF k = "wipe" THEN "unlink" ELSE "idle"

\* A pool thread picks the closure up.
Start(j) ==
    /\ Running
    /\ job[j].pc = "queued"
    /\ Go(j, AfterStart(job[j].kind, job[j].msgs))
    /\ UNCHANGED <<now, phase, manager, database, history, counters>>

\* batch_insert_messages: one transaction.
Insert(j) ==
    /\ Running
    /\ job[j].pc = "insert"
    /\ rows' = rows \cup job[j].msgs
    /\ items' = items \cup job[j].msgs
    /\ Go(j, "save")
    /\ UNCHANGED <<now, phase, manager, dbStats, history, counters>>

\* It fails: a message whose INSERT fails is skipped, an item that fails is
\* skipped, and no connection, transaction or commit means no row at all.
\* The batch was taken from the buffer, so what is not stored is lost.
InsertFails(j) ==
    /\ Running
    /\ job[j].pc = "insert"
    /\ faults < MaxFaults
    /\ faults' = faults + 1
    /\ \E kept \in SUBSET job[j].msgs : \E whole \in SUBSET kept :
          /\ rows' = rows \cup kept
          /\ items' = items \cup whole
          /\ lost' = lost \cup (job[j].msgs \ kept)
    /\ Go(j, "save")
    /\ UNCHANGED <<now, phase, manager, dbStats, gone, wipedAt, kills>>

\* save_global_stats, and the clock prune_old_records reads next.
Save(j) ==
    /\ Running
    /\ job[j].pc = "save"
    /\ dbStats' = job[j].stats
    /\ job' = [job EXCEPT ![j].pc = AfterSave(job[j].kind), ![j].since = now]
    /\ UNCHANGED <<now, phase, manager, rows, items, history, counters>>

DeleteRows(ms) ==   \* mutant: foreign_keys left off
    /\ rows' = rows \ ms
    /\ UNCHANGED items
    /\ gone' = gone \cup ms
\* A DELETE FROM messages cascades to message_items (foreign_keys = ON).
Delete(ms) ==
    /\ rows' = rows \ ms
    /\ items' = items \ ms
    /\ gone' = gone \cup ms

\* Rows that the retention limit makes too old.
Expired(S, t) == {m \in S : m + Retention < t}

\* prune_old_records: the retention limit ...
Expire(j) ==
    /\ Running
    /\ job[j].pc = "expire"
    /\ Delete(Expired(rows, job[j].since))
    /\ Go(j, AfterExpire)
    /\ UNCHANGED <<now, phase, manager, dbStats, lost, wipedAt, counters>>

CountUnchecked(j) ==   \* mutant: the excess is not checked to be positive
    /\ Running
    /\ job[j].pc = "count"
    /\ job' = [job EXCEPT ![j].pc = "trim",
                          ![j].count = Cardinality(rows) - MaxRecords]
    /\ UNCHANGED <<now, phase, manager, database, history, counters>>

\* ... SELECT COUNT(*), and the excess over the record limit ...
Count(j) ==
    /\ Running
    /\ job[j].pc = "count"
    /\ LET n == Cardinality(rows) IN
          job' = [job EXCEPT ![j] =
                    IF n > MaxRecords
                    THEN [@ EXCEPT !.pc = "trim", !.count = n - MaxRecords]
                    ELSE Idle]
    /\ UNCHANGED <<now, phase, manager, database, history, counters>>

\* ... and the oldest rows, as many as the excess was when it was counted.
Trim(j) ==
    /\ Running
    /\ job[j].pc = "trim"
    /\ Delete(Oldest(rows, job[j].count))
    /\ Go(j, "idle")
    /\ UNCHANGED <<now, phase, manager, dbStats, lost, wipedAt, counters>>

\* query_messages: SELECT COUNT(*) ...
Tally(j) ==
    /\ Running
    /\ job[j].pc = "tally"
    /\ job' = [job EXCEPT ![j].pc = "page", ![j].count = Cardinality(rows)]
    /\ UNCHANGED <<now, phase, manager, database, history, counters>>

\* ... the page of messages (unfiltered, and with every row on it) ...
Page(j) ==
    /\ Running
    /\ job[j].pc = "page"
    /\ job' = [job EXCEPT ![j] = IF rows = {} THEN Idle
                               ELSE [@ EXCEPT !.pc = "items", !.page = rows]]
    /\ UNCHANGED <<now, phase, manager, database, history, counters>>

\* ... and their items, which ends the job.
Items(j) ==
    /\ Running
    /\ job[j].pc = "items"
    /\ Go(j, "idle")
    /\ UNCHANGED <<now, phase, manager, database, history, counters>>

\* The closure of api_clear: save_global_stats(0, 0, 0, 0) ...
Zero(j) ==
    /\ Running
    /\ job[j].pc = "zero"
    /\ dbStats' = Zeros
    /\ Go(j, AfterZero(job[j].kind))
    /\ UNCHANGED <<now, phase, manager, rows, items, history, counters>>

\* ... clear_tracking_data: DELETE FROM message_items ...
Unlink(j) ==
    /\ Running
    /\ job[j].pc = "unlink"
    /\ items' = {}
    /\ Go(j, "purge")
    /\ UNCHANGED <<now, phase, manager, rows, dbStats, history, counters>>

\* ... DELETE FROM messages.
Purge(j) ==
    /\ Running
    /\ job[j].pc = "purge"
    /\ Delete(rows)
    /\ wipedAt' = job[j].since
    /\ Go(j, "idle")
    /\ UNCHANGED <<now, phase, manager, dbStats, lost, counters>>

\* Where a job may be after its statement failed: every error is dropped.
\* A connection that cannot be opened also skips what would have used it.
AfterFailure(k, pc) ==
    CASE pc = "save"   -> {AfterSave(k)}
      [] pc = "zero"   -> {AfterZero(k)}
      [] pc = "expire" -> {AfterExpire, "idle"}
      [] pc = "tally"  -> {"page", "idle"}
      [] pc = "unlink" -> {"purge", "idle"}
      [] pc \in {"count", "trim", "page", "items", "purge"} -> {"idle"}
      [] OTHER -> {}

StatementFails(j) ==
    /\ Running
    /\ faults < MaxFaults
    /\ faults' = faults + 1
    /\ \E pc \in AfterFailure(job[j].kind, job[j].pc) :
          \/ pc = "idle" /\ Go(j, pc)
          \/ pc # "idle" /\ job' = [job EXCEPT ![j].pc = pc, ![j].since =
                                 IF job[j].pc = "save" THEN now ELSE @]
    /\ UNCHANGED <<now, phase, manager, database, history, kills>>

JobStep(j) ==
    \/ Start(j)
    \/ Insert(j) \/ InsertFails(j) \/ Save(j)
    \/ Expire(j) \/ Count(j) \/ Trim(j)
    \/ Tally(j) \/ Page(j) \/ Items(j)
    \/ Zero(j) \/ Unlink(j) \/ Purge(j)
    \/ StatementFails(j)

-----------------------------------------------------------------------------
(* The process *)

\* ctrl_c() returns: only SIGINT is caught.
Interrupt ==
    /\ "SIGINT" \in Signals
    /\ phase = "serving"
    /\ phase' = "stopping"
    /\ UNCHANGED <<now, manager, job, database, history, counters>>

\* main() gets the Mutex and calls flush_stats(true), which executes the
\* flush on main's own thread.
ShutdownFlush ==
    /\ phase = "stopping"
    /\ phase' = "flushing"
    /\ TakeBuffer(now)
    /\ job' = [job EXCEPT ![Main] =
         NewJob(AfterStart("flush", buffer), "flush", buffer, stats, 0, {})]
    /\ UNCHANGED <<now, stats, database, history, counters>>

\* main() returns and drops the guard; reflector and web server still run.
MainReturns ==
    /\ phase = "flushing"
    /\ job[Main].pc = "idle"
    /\ phase' = "returned"
    /\ UNCHANGED <<now, manager, job, database, history, counters>>

\* The runtime is dropped: its tasks stop, its blocking jobs do not.
RuntimeDrops ==
    /\ phase = "returned"
    /\ phase' = "draining"
    /\ UNCHANGED <<now, manager, job, database, history, counters>>

\* A closure still in the pool's queue is dropped, not run (tokio).
Cancel(j) ==
    /\ phase = "draining"
    /\ job[j].pc = "queued"
    /\ Go(j, "idle")
    /\ lost' = lost \cup job[j].msgs
    /\ UNCHANGED <<now, phase, manager, database, gone, wipedAt, counters>>

\* What is only in memory is lost with the process.
Die ==
    /\ phase' = "down"
    /\ stats' = Zeros
    /\ buffer' = {}
    /\ lastFlush' = 0
    /\ job' = [j \in Slots |-> Idle]
    /\ lost' = lost \cup buffer \cup InFlight
    /\ UNCHANGED <<now, database, gone, wipedAt, faults>>

\* The runtime waits for the running jobs, then the process ends.
Exit ==
    /\ phase = "draining"
    /\ \A j \in Jobs : job[j].pc = "idle"
    /\ Die
    /\ UNCHANGED kills

\* A signal nothing handles ends the process where it is.  Every committed
\* statement survives (WAL); an open transaction does not.
Terminate ==
    /\ Signals \cap {"SIGTERM", "SIGKILL"} # {}
    /\ Running
    /\ kills < MaxKills
    /\ kills' = kills + 1
    /\ Die

\* CommandServerManager::new: load_global_stats answers zeros on any error.
\* It defaults each column by itself, but only one that is no natural number,
\* and save_global_stats writes four of them in one statement.
Restart ==
    /\ phase = "down"
    /\ phase' = "serving"
    /\ lastFlush' = now
    /\ \/ stats' = dbStats /\ UNCHANGED faults
       \/ faults < MaxFaults /\ stats' = Zeros /\ faults' = faults + 1
    /\ UNCHANGED <<now, buffer, job, database, history, kills>>

-----------------------------------------------------------------------------

Next ==
    \/ Tick
    \/ \E d \in Dispositions : Record(d)
    \/ \E j \in Jobs : HistoryRequest(j)
    \/ \E j \in Jobs, kind \in {"reset", "wipe"} : ClearRequest(j, kind)
    \/ \E j \in Slots : JobStep(j)
    \/ \E j \in Jobs : Cancel(j)
    \/ Interrupt \/ ShutdownFlush \/ MainReturns \/ RuntimeDrops
    \/ Exit \/ Terminate \/ Restart

Spec == Init /\ [][Next]_vars

\* Pool threads run their closures; main() is polled, tokio's Mutex is fair,
\* and dropping the runtime ends.  Nothing forces a message, a request, a
\* signal or a restart.
Fairness ==
    /\ \A j \in Slots : WF_vars(JobStep(j))
    /\ WF_vars(ShutdownFlush)
    /\ WF_vars(MainReturns)
    /\ WF_vars(RuntimeDrops)
    /\ WF_vars(Exit)
    /\ WF_vars(Tick)

FairSpec == Spec /\ Fairness

-----------------------------------------------------------------------------
(* What tracking promises *)

\* Type invariant.
TypeOK ==
    /\ now \in Nat
    /\ phase \in Phases
    /\ stats \in Counters
    /\ buffer \subseteq Nat
    /\ lastFlush \in Nat
    /\ job \in [Slots -> Job]
    /\ rows \subseteq Nat /\ items \subseteq Nat
    /\ dbStats \in Counters
    /\ gone \subseteq Nat /\ lost \subseteq Nat /\ wipedAt \in Nat
    /\ faults \in Nat /\ kills \in Nat

\* A recorded message is in exactly one of the buffer, one batch, the
\* database, and the two ways of having left them: no interleaving of
\* flushes, history requests, clears, failures and restarts stores a message
\* twice or lets one come back (std::mem::take, server.rs:125).
ExactlyOnce ==
    /\ \A j, k \in Slots : j # k => Batch(j) \cap Batch(k) = {}
    /\ buffer \cap InFlight = {}
    /\ (buffer \cup InFlight) \cap (rows \cup gone \cup lost) = {}
    /\ rows \cap (gone \cup lost) = {}
    /\ gone \cap lost = {}

\* The buffer never holds a full batch, nor a message that was overdue when
\* it arrived (record_message_deferred and prepare_flush_task together).
BufferFresh ==
    /\ Cardinality(buffer) < FlushThreshold
    /\ \A m \in buffer : m - lastFlush < FlushInterval

\* The total is the sum of the three dispositions in memory, in every
\* snapshot on its way to the database, and in the database, whatever clears,
\* flushes and reloads overlap.
StatsBalanced ==
    /\ Balanced(stats)
    /\ Balanced(dbStats)
    /\ \A j \in Slots : Balanced(job[j].stats)

\* A history reply shows every message that was buffered or stored when it
\* was asked for, unless it was deleted since: the forced flush of
\* api_history lands before its query reads (server.rs:320-325).
HistoryComplete ==
    \A j \in Slots : faults = 0 /\ job[j].pc = "items" =>
        job[j].want \subseteq job[j].page \cup gone

\* No item outlives its message; and a message keeps its items, except
\* between the two DELETEs of a wipe, after a database error, or when the
\* process was killed between the two.
WholeMessages ==
    /\ items \subseteq rows
    /\ (faults = 0 /\ kills = 0 /\ \A j \in Slots : job[j].pc # "purge")
          => items = rows

\* Once every flush has finished, the database is within max_records, however
\* the inserts, counts and deletes of concurrent flushes interleaved
\* (database.rs:237-246).  It is what pruning is for; it holds as long as
\* nobody asks for the history.
CappedWhenQuiet ==
    (MaxRecords > 0 /\ \A j \in Slots : job[j].pc = "idle")
        => Cardinality(rows) <= MaxRecords

\* Every message taken from the buffer reaches the database or is accounted
\* for: no flush is forgotten (reflector.rs:300-304 drops the JoinHandle).
BatchLands ==
    \A m \in 1..MaxTime : m \in InFlight ~> m \in rows \cup gone \cup lost

\* After SIGINT the process ends: main() gets the Mutex, its flush ends, and
\* the runtime's shutdown waits for no job that never ends (main.rs:53-65).
ShutdownCompletes == phase = "stopping" ~> phase = "down"

\* The abstract message log, with the buffer and the batches on their way as
\* what is pending.
Log == INSTANCE MessageLog WITH
           Message <- 1..MaxTime,
           pending <- buffer \cup InFlight,
           stored  <- rows,
           retired <- gone \cup lost

\* Tracking implements it: messages are accepted once, move forward only, and
\* none disappears without being pruned, cleared or counted as lost.
ImplementsLog == Log!LogSpec

-----------------------------------------------------------------------------
(* What the documentation says of the code, and the code does not do *)

\* README.md:123 "purge SQLite tracking history", and the test at
\* database.rs:675-678: after a wipe nothing recorded before it is there.
WipeIsFinal == \A m \in rows : m > wipedAt

\* README.md:119 and config-sample.yaml:31: pruning bounds the database by
\* max_records (here with a whole batch to spare).
DatabaseBounded ==
    (MaxRecords > 0 /\ \A j \in Slots : job[j].pc = "idle")
        => Cardinality(rows) <= MaxRecords + FlushThreshold

===============================================================================
