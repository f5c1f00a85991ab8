---------------------------- MODULE TrackingProofs ----------------------------
(***************************************************************************)
(* Proofs about Tracking, for every pool size, threshold, limit, set of    *)
(* requests and signals, and every bound.                                  *)
(***************************************************************************)
EXTENDS Tracking, FiniteSetTheorems, NumberLemmas, TLAPS

USE DEF manager, database, history, counters

(* Facts about the data *)

\* Counters at zero, and after one more packet, have their type.
LEMMA CountersType ==
    /\ Zeros \in Counters
    /\ \A s \in Counters, d \in AllDispositions : Counted(s, d) \in Counters
BY DEF Zeros, Counters, Counted, AllDispositions

\* A new job has its type.
LEMMA NewJobType ==
    ASSUME NEW pc \in PCs, NEW kind \in Kinds, NEW msgs \in SUBSET Nat,
           NEW s \in Counters, NEW t \in Nat, NEW want \in SUBSET Nat
    PROVE  NewJob(pc, kind, msgs, s, t, want) \in Job
BY DEF NewJob, Job

\* An idle job has its type and carries nothing.
LEMMA IdleType == Idle \in Job /\ Idle.pc = "idle" /\ Idle.msgs = {}
<1>1. Idle \in Job
  BY CountersType, NewJobType DEF Idle, PCs, Kinds
<1>2. QED BY <1>1 DEF Idle, NewJob

\* Where a job may go next.
LEMMA NextPCs ==
    ASSUME NEW k \in Kinds, NEW msgs
    PROVE  /\ AfterStart(k, msgs) \in PCs
           /\ AfterSave(k) \in PCs
           /\ AfterExpire \in PCs
           /\ AfterZero(k) \in PCs
           /\ \A pc \in PCs : AfterFailure(k, pc) \subseteq PCs
<1>1. AfterStart(k, msgs) \in PCs BY DEF AfterStart, PCs
<1>2. AfterSave(k) \in PCs BY DEF AfterSave, PCs
<1>3. AfterExpire \in PCs BY DEF AfterExpire, PCs
<1>4. AfterZero(k) \in PCs BY DEF AfterZero, PCs
<1>5. ASSUME NEW pc \in PCs PROVE AfterFailure(k, pc) \subseteq PCs
  BY <1>2, <1>3, <1>4 DEF AfterFailure, PCs
<1>6. QED BY <1>1, <1>2, <1>3, <1>4, <1>5

\* A job that moves on keeps its type, and the other jobs do not move.
LEMMA GoType ==
    ASSUME NEW j \in Slots, NEW pc \in PCs, job \in [Slots -> Job], Go(j, pc)
    PROVE  /\ job' \in [Slots -> Job]
           /\ job'[j].msgs \in {{}, job[j].msgs}
           /\ \A k \in Slots \ {j} : job'[k] = job[k]
<1> DEFINE new == IF pc = "idle" THEN Idle ELSE [job[j] EXCEPT !.pc = pc]
<1>1. job' = [job EXCEPT ![j] = new] BY DEF Go
<1>2. new \in Job /\ new.msgs \in {{}, job[j].msgs}
  <2>1. CASE pc = "idle" BY <2>1, IdleType
  <2>2. CASE pc # "idle" BY <2>2 DEF Job
  <2>3. QED BY <2>1, <2>2
<1>3. QED BY <1>1, <1>2

-----------------------------------------------------------------------------
(* Type correctness.  That the excess of a prune is a number needs the      *)
(* messages table to be finite, which it is because every message is older  *)
(* than the clock.                                                          *)

Past ==
    /\ buffer \subseteq 1..now
    /\ rows \subseteq 1..now
    /\ gone \subseteq 1..now
    /\ lost \subseteq 1..now
    /\ \A j \in Slots : job[j].msgs \subseteq 1..now

Typed == TypeOK /\ Past

\* The table has a number of rows.
LEMMA RowsCount == ASSUME Typed PROVE Cardinality(rows) \in Nat
<1>1. IsFiniteSet(1..now) BY FS_Interval DEF Typed, TypeOK
<1>2. IsFiniteSet(rows) BY <1>1, FS_Subset DEF Typed, Past
<1>3. QED BY <1>2, FS_CardinalityType

\* The first state has its types.
LEMMA InitTyped == ASSUME Init PROVE Typed
<1>1. TypeOK BY CountersType, IdleType DEF Init, TypeOK, Phases
<1>2. Past BY IdleType DEF Init, Past
<1>3. QED BY <1>1, <1>2 DEF Typed

\* What a step of job j that only moves it keeps of the two invariants.
LEMMA GoTyped ==
    ASSUME Typed, NEW j \in Slots, NEW pc \in PCs, Go(j, pc), now' = now
    PROVE  /\ job' \in [Slots -> Job]
           /\ \A k \in Slots : job'[k].msgs \subseteq 1..now'
<1>1. /\ job' \in [Slots -> Job]
      /\ job'[j].msgs \in {{}, job[j].msgs}
      /\ \A k \in Slots \ {j} : job'[k] = job[k]
  BY GoType DEF Typed, TypeOK
<1>2. QED BY <1>1 DEF Typed, Past

\* A job replaced by a well-formed one whose messages are in the past.
LEMMA SetJobTyped ==
    ASSUME Typed, NEW j \in Slots, NEW new \in Job,
           job' = [job EXCEPT ![j] = new],
           now' \in {now, now + 1}, new.msgs \subseteq 1..now'
    PROVE  /\ job' \in [Slots -> Job]
           /\ \A k \in Slots : job'[k].msgs \subseteq 1..now'
<1>1. job' \in [Slots -> Job] BY DEF Typed, TypeOK
<1>2. 1..now \subseteq 1..now' BY DEF Typed, TypeOK
<1>3. QED BY <1>1, <1>2 DEF Typed, TypeOK, Past

\* Every step keeps the types.
LEMMA NextTyped == ASSUME Typed, [Next]_vars PROVE Typed'
<1> USE DEF Typed, TypeOK, Past
<1>1. CASE UNCHANGED vars BY <1>1 DEF vars
<1>2. CASE Tick
  <2>1. 1..now \subseteq 1..now' BY <1>2 DEF Tick
  <2>2. QED BY <1>2, <2>1 DEF Tick
<1>3. ASSUME NEW d \in Dispositions, Record(d) PROVE Typed'
  <2> DEFINE batch == buffer \cup {now + 1}
  <2>1. /\ now' = now + 1 /\ 1..now \subseteq 1..now'
        /\ batch \subseteq 1..now' /\ batch \in SUBSET Nat
    <3>1. now' = now + 1 /\ now \in Nat BY <1>3 DEF Record
    <3>2. 1..now \subseteq 1..(now + 1) /\ now + 1 \in 1..(now + 1) BY <3>1
    <3>3. batch \subseteq 1..(now + 1) BY <3>2
    <3>4. QED BY <3>1, <3>2, <3>3
  <2>2. stats' \in Counters
    BY <1>3, CountersType, InputAssumption DEF Record
  <2>3. CASE ~FlushDue(batch, now + 1)
    BY <1>3, <2>1, <2>2, <2>3 DEF Record
  <2>4. CASE FlushDue(batch, now + 1)
    <3>1. PICK j \in Jobs :
             job' = [job EXCEPT ![j] =
                       NewJob("queued", "flush", batch, stats', 0, {})]
      BY <1>3, <2>4 DEF Record
    <3>2. NewJob("queued", "flush", batch, stats', 0, {}) \in Job
      BY <2>1, <2>2, NewJobType DEF PCs, Kinds
    <3>3. NewJob("queued", "flush", batch, stats', 0, {}).msgs = batch
      BY DEF NewJob
    <3>4. /\ job' \in [Slots -> Job]
          /\ \A k \in Slots : job'[k].msgs \subseteq 1..now'
      <4> HIDE DEF Typed
      <4>1. j \in Slots BY DEF Slots
      <4>2. QED BY <4>1, <2>1, <3>1, <3>2, <3>3, SetJobTyped
    <3>5. buffer' = {} /\ lastFlush' = now'
      BY <1>3, <2>1, <2>4 DEF Record, TakeBuffer
    <3>6. UNCHANGED <<phase, database, history, counters>>
      BY <1>3 DEF Record
    <3>7. QED BY <2>1, <2>2, <3>4, <3>5, <3>6
  <2>5. QED BY <2>3, <2>4
<1>4. ASSUME NEW j \in Jobs, HistoryRequest(j) PROVE Typed'
  <2> DEFINE new == NewJob("queued", "history", buffer, stats, 0, buffer \cup rows)
  <2>1. new \in Job /\ new.msgs = buffer
    BY NewJobType DEF PCs, Kinds, NewJob
  <2>2. job' = [job EXCEPT ![j] = new] /\ now' = now BY <1>4 DEF HistoryRequest
  <2>3. /\ job' \in [Slots -> Job]
        /\ \A k \in Slots : job'[k].msgs \subseteq 1..now'
    <3> HIDE DEF new
    <3>1. j \in Slots BY DEF Slots
    <3>2. new.msgs \subseteq 1..now' BY <2>1, <2>2
    <3>3. QED BY <2>1, <2>2, <3>1, <3>2, SetJobTyped
  <2>4. QED BY <1>4, <2>3 DEF HistoryRequest, TakeBuffer
<1>5. ASSUME NEW j \in Jobs, NEW kind \in {"reset", "wipe"}, ClearRequest(j, kind)
      PROVE Typed'
  <2> DEFINE new == NewJob("queued", kind, {}, Zeros, now, {})
  <2>1. new \in Job /\ new.msgs = {}
    BY NewJobType, CountersType DEF PCs, Kinds, NewJob
  <2>2. job' = [job EXCEPT ![j] = new] /\ now' = now BY <1>5 DEF ClearRequest
  <2>3. /\ job' \in [Slots -> Job]
        /\ \A k \in Slots : job'[k].msgs \subseteq 1..now'
    <3> HIDE DEF new
    <3>1. j \in Slots BY DEF Slots
    <3>2. QED BY <2>1, <2>2, <3>1, SetJobTyped
  <2>4. QED BY <1>5, <2>3, CountersType DEF ClearRequest
<1>6. ASSUME NEW j \in Slots, JobStep(j) PROVE Typed'
  <2> USE <1>6
  <2>0. job[j] \in Job BY DEF Slots
  <2>1. CASE Start(j)
    <3>1. AfterStart(job[j].kind, job[j].msgs) \in PCs BY <2>0, NextPCs DEF Job
    <3>2. QED BY <2>1, <3>1, GoTyped DEF Start
  <2>2. CASE Insert(j)
    BY <2>2, <2>0, GoTyped DEF Insert, PCs, Job
  <2>3. CASE InsertFails(j)
    <3>1. PICK kept \in SUBSET job[j].msgs : \E whole \in SUBSET kept :
             /\ rows' = rows \cup kept
             /\ items' = items \cup whole
             /\ lost' = lost \cup (job[j].msgs \ kept)
      BY <2>3 DEF InsertFails
    <3>2. job[j].msgs \subseteq Nat /\ job[j].msgs \subseteq 1..now
      BY <2>0 DEF Job
    <3>3. /\ rows' \subseteq Nat /\ rows' \subseteq 1..now
          /\ items' \subseteq Nat
          /\ lost' \subseteq Nat /\ lost' \subseteq 1..now
      BY <3>1, <3>2
    <3>4. Go(j, "save") /\ "save" \in PCs /\ now' = now /\ faults' \in Nat
      BY <2>3 DEF InsertFails, PCs
    <3>5. /\ job' \in [Slots -> Job]
          /\ \A k \in Slots : job'[k].msgs \subseteq 1..now'
      BY <3>4, GoTyped
    <3>6. QED BY <2>3, <3>3, <3>4, <3>5 DEF InsertFails
  <2>4. CASE Save(j)
    <3> DEFINE new == [job[j] EXCEPT !.pc = AfterSave(job[j].kind), !.since = now]
    <3>1. new \in Job /\ new.msgs = job[j].msgs BY <2>0, NextPCs DEF Job
    <3>2. job' = [job EXCEPT ![j] = new] BY <2>4 DEF Save
    <3>3. /\ job' \in [Slots -> Job]
          /\ \A k \in Slots : job'[k].msgs \subseteq 1..now'
      <4> HIDE DEF new
      <4>1. QED BY <2>4, <3>1, <3>2, SetJobTyped DEF Save
    <3>4. dbStats' \in Counters BY <2>4, <2>0 DEF Save, Job
    <3>5. QED BY <2>4, <3>3, <3>4 DEF Save
  <2>5. CASE Expire(j)
    BY <2>5, NextPCs, <2>0, GoTyped DEF Expire, Delete, Expired, Job
  <2>6. CASE Count(j)
    <3> DEFINE n == Cardinality(rows)
               new == IF n > MaxRecords
                      THEN [job[j] EXCEPT !.pc = "trim", !.count = n - MaxRecords]
                      ELSE Idle
    <3>1. n \in Nat BY RowsCount
    <3>2. new \in Job /\ new.msgs \in {{}, job[j].msgs}
      <4> HIDE DEF n
      <4>1. CASE n > MaxRecords
        <5>1. n - MaxRecords \in Nat BY <3>1, <4>1, ConfigAssumption
        <5> DEFINE excess == n - MaxRecords
        <5>2. new = [job[j] EXCEPT !.pc = "trim", !.count = excess] BY <4>1
        <5> HIDE DEF excess, new
        <5>3. QED BY <2>0, <5>1, <5>2 DEF Job, PCs, excess
      <4>2. CASE ~(n > MaxRecords) BY <4>2, IdleType
      <4>3. QED BY <4>1, <4>2
    <3>3. job' = [job EXCEPT ![j] = new] BY <2>6 DEF Count
    <3>4. /\ job' \in [Slots -> Job]
          /\ \A k \in Slots : job'[k].msgs \subseteq 1..now'
      <4> HIDE DEF new
      <4>1. QED BY <2>6, <3>2, <3>3, SetJobTyped DEF Count
    <3>5. QED BY <2>6, <3>4 DEF Count
  <2>7. CASE Trim(j)
    BY <2>7, GoTyped DEF Trim, Delete, Oldest, PCs
  <2>8. CASE Tally(j)
    <3> DEFINE new == [job[j] EXCEPT !.pc = "page", !.count = Cardinality(rows)]
    <3>1. new \in Job /\ new.msgs = job[j].msgs
      BY <2>0, RowsCount DEF Job, PCs
    <3>2. job' = [job EXCEPT ![j] = new] BY <2>8 DEF Tally
    <3>3. /\ job' \in [Slots -> Job]
          /\ \A k \in Slots : job'[k].msgs \subseteq 1..now'
      <4> HIDE DEF new
      <4>1. QED BY <2>8, <3>1, <3>2, SetJobTyped DEF Tally
    <3>4. QED BY <2>8, <3>3 DEF Tally
  <2>9. CASE Page(j)
    <3> DEFINE new == IF rows = {} THEN Idle
                      ELSE [job[j] EXCEPT !.pc = "items", !.page = rows]
    <3>1. new \in Job /\ new.msgs \in {{}, job[j].msgs}
      BY <2>0, IdleType DEF Job, PCs
    <3>2. job' = [job EXCEPT ![j] = new] BY <2>9 DEF Page
    <3>3. /\ job' \in [Slots -> Job]
          /\ \A k \in Slots : job'[k].msgs \subseteq 1..now'
      <4> HIDE DEF new
      <4>1. QED BY <2>9, <3>1, <3>2, SetJobTyped DEF Page
    <3>4. QED BY <2>9, <3>3 DEF Page
  <2>10. CASE Items(j)
    BY <2>10, GoTyped DEF Items, PCs
  <2>11. CASE Zero(j)
    BY <2>11, <2>0, NextPCs, CountersType, GoTyped DEF Zero, Job
  <2>12. CASE Unlink(j)
    BY <2>12, GoTyped DEF Unlink, PCs
  <2>13. CASE Purge(j)
    BY <2>13, <2>0, GoTyped DEF Purge, Delete, PCs, Job
  <2>14. CASE StatementFails(j)
    <3>1. PICK pc \in AfterFailure(job[j].kind, job[j].pc) :
             \/ pc = "idle" /\ Go(j, pc)
             \/ pc # "idle" /\ job' = [job EXCEPT ![j].pc = pc, ![j].since =
                                    IF job[j].pc = "save" THEN now ELSE @]
      BY <2>14 DEF StatementFails
    <3>2. pc \in PCs BY <2>0, NextPCs DEF Job
    <3>3. /\ job' \in [Slots -> Job]
          /\ \A k \in Slots : job'[k].msgs \subseteq 1..now'
      <4>1. CASE pc = "idle" /\ Go(j, pc)
        BY <2>14, <3>2, <4>1, GoTyped DEF StatementFails
      <4>2. CASE pc # "idle" /\ job' = [job EXCEPT ![j].pc = pc, ![j].since =
                                    IF job[j].pc = "save" THEN now ELSE @]
        <5> DEFINE new == [job[j] EXCEPT !.pc = pc, !.since =
                              IF job[j].pc = "save" THEN now ELSE @]
        <5>1. new \in Job /\ new.msgs = job[j].msgs BY <2>0, <3>2 DEF Job
        <5>2. job' = [job EXCEPT ![j] = new] BY <4>2
        <5> HIDE DEF new
        <5>3. QED BY <2>14, <5>1, <5>2, SetJobTyped DEF StatementFails
      <4>3. QED BY <3>1, <4>1, <4>2
    <3>4. QED BY <2>14, <3>3 DEF StatementFails
  <2>15. QED
    BY <2>1, <2>2, <2>3, <2>4, <2>5, <2>6, <2>7, <2>8, <2>9, <2>10, <2>11,
       <2>12, <2>13, <2>14 DEF JobStep
<1>7. ASSUME NEW j \in Jobs, Cancel(j) PROVE Typed'
  <2>1. j \in Slots /\ job[j] \in Job BY DEF Slots
  <2>2. QED BY <1>7, <2>1, GoTyped DEF Cancel, PCs, Job
<1>8. CASE Interrupt BY <1>8 DEF Interrupt, Phases
<1>9. CASE ShutdownFlush
  <2> DEFINE new == NewJob(AfterStart("flush", buffer), "flush", buffer, stats, 0, {})
  <2>1. new \in Job /\ new.msgs = buffer
    BY NewJobType, NextPCs DEF Kinds, NewJob
  <2>2. job' = [job EXCEPT ![Main] = new] /\ now' = now BY <1>9 DEF ShutdownFlush
  <2>3. /\ job' \in [Slots -> Job]
        /\ \A k \in Slots : job'[k].msgs \subseteq 1..now'
    <3> HIDE DEF new
    <3>1. Main \in Slots BY DEF Slots
    <3>2. new.msgs \subseteq 1..now' BY <2>1, <2>2
    <3>3. QED BY <2>1, <2>2, <3>1, <3>2, SetJobTyped
  <2>4. QED BY <1>9, <2>3 DEF ShutdownFlush, TakeBuffer, Phases
<1>10. CASE MainReturns BY <1>10 DEF MainReturns, Phases
<1>11. CASE RuntimeDrops BY <1>11 DEF RuntimeDrops, Phases
<1>12. ASSUME Die, faults' = faults, kills' \in Nat PROVE Typed'
  <2>1. InFlight \subseteq 1..now BY DEF InFlight, Batch
  <2>2. lost' \subseteq 1..now' /\ lost' \in SUBSET Nat
    BY <1>12, <2>1 DEF Die
  <2>3. /\ job' \in [Slots -> Job]
        /\ \A k \in Slots : job'[k].msgs = {}
    BY <1>12, IdleType DEF Die
  <2>4. QED BY <1>12, <2>2, <2>3, CountersType DEF Die, Phases
<1>13. CASE Exit BY <1>13, <1>12 DEF Exit, Die
<1>14. CASE Terminate BY <1>14, <1>12 DEF Terminate, Die
<1>15. CASE Restart BY <1>15, CountersType DEF Restart, Phases
<1>16. QED
  BY <1>1, <1>2, <1>3, <1>4, <1>5, <1>6, <1>7, <1>8, <1>9, <1>10, <1>11,
     <1>13, <1>14, <1>15 DEF Next

\* Every reachable state is well typed, and every message a component holds is
\* older than the clock.
THEOREM TypeCorrect == Spec => []TypeOK
<1>1. Init => Typed BY InitTyped
<1>2. Typed /\ [Next]_vars => Typed' BY NextTyped
<1>3. Typed => TypeOK BY DEF Typed
<1>4. QED BY <1>1, <1>2, <1>3, PTL DEF Spec

-----------------------------------------------------------------------------
(* The buffer *)

\* The buffer is never full and never holds a message that was overdue on
\* arrival: a message is only added when no flush is due, and everything else
\* that touches the buffer or the time of the last flush empties the buffer.
THEOREM BufferStaysFresh == Spec => []BufferFresh
<1>0. ASSUME buffer = {} PROVE BufferFresh
  BY <1>0, FS_EmptySet, ConfigAssumption DEF BufferFresh
<1> DEFINE Fresh == BufferFresh /\ (phase = "down" => buffer = {})
<1>1. Init => Fresh BY <1>0 DEF Init
<1>2. ASSUME Typed, Fresh, [Next]_vars PROVE Fresh'
  <2> USE <1>2
  <2>1. ASSUME buffer' = {} PROVE Fresh'
    BY <2>1, FS_EmptySet, ConfigAssumption DEF BufferFresh
  <2>2. ASSUME UNCHANGED <<buffer, lastFlush>>,
               phase' # "down" \/ phase' = phase
        PROVE Fresh'
    BY <2>2 DEF BufferFresh
  <2>3. ASSUME NEW d \in Dispositions, Record(d) PROVE Fresh'
    <3> DEFINE batch == buffer \cup {now + 1}
    <3>1. CASE ~FlushDue(batch, now + 1)
      <4>1. buffer' = batch /\ lastFlush' = lastFlush BY <2>3, <3>1 DEF Record
      <4>2. now \in Nat /\ lastFlush \in Nat /\ IsFiniteSet(batch)
        <5>1. IsFiniteSet(1..now) BY FS_Interval DEF Typed, TypeOK
        <5>2. IsFiniteSet(buffer) BY <5>1, FS_Subset DEF Typed, Past
        <5>3. QED BY <5>2, FS_AddElement DEF Typed, TypeOK
      <4>3. Cardinality(batch) < FlushThreshold
        <5>1. Cardinality(batch) \in Nat BY <4>2, FS_CardinalityType
        <5>2. ~(Cardinality(batch) >= FlushThreshold) BY <3>1 DEF FlushDue
        <5> DEFINE size == Cardinality(batch)
        <5>3. size \in Nat /\ ~(size >= FlushThreshold) BY <5>1, <5>2
        <5> HIDE DEF size
        <5>4. size < FlushThreshold BY <5>3, ConfigAssumption
        <5>5. QED BY <5>4 DEF size
      <4>4. now + 1 - lastFlush < FlushInterval
        BY <3>1, <4>2, ConfigAssumption DEF FlushDue
      <4>5. \A m \in batch : m - lastFlush < FlushInterval
        <5>1. SUFFICES ASSUME NEW m \in batch PROVE m - lastFlush < FlushInterval
          OBVIOUS
        <5>2. CASE m \in buffer BY <5>2 DEF BufferFresh
        <5>3. CASE m = now + 1 BY <4>2, <4>4, <5>3, ConfigAssumption
        <5>4. QED BY <5>2, <5>3
      <4>6. QED BY <2>3, <4>1, <4>3, <4>5 DEF BufferFresh, Record, LockFree
    <3>2. CASE FlushDue(batch, now + 1)
      BY <2>1, <2>3, <3>2 DEF Record, TakeBuffer
    <3>3. QED BY <3>1, <3>2
  <2>4. ASSUME NEW j \in Jobs, NEW kind \in {"reset", "wipe"},
               ClearRequest(j, kind)
        PROVE Fresh'
    BY <2>1, <2>2, <2>4 DEF ClearRequest
  <2>5. ASSUME NEW j \in Slots, JobStep(j) PROVE Fresh'
    BY <2>2, <2>5 DEF JobStep, Start, Insert, InsertFails, Save, Expire, Count,
       Trim, Tally, Page, Items, Zero, Unlink, Purge, StatementFails
  <2>6. ASSUME NEW j \in Jobs, HistoryRequest(j) PROVE Fresh'
    BY <2>1, <2>6 DEF HistoryRequest, TakeBuffer
  <2>7. CASE ShutdownFlush BY <2>1, <2>7 DEF ShutdownFlush, TakeBuffer
  <2>8. CASE Exit \/ Terminate BY <2>1, <2>8 DEF Exit, Terminate, Die
  <2>9. CASE Restart
    <3>1. buffer' = {} BY <2>9 DEF Restart
    <3>2. QED BY <2>1, <3>1
  <2>10. CASE \/ UNCHANGED vars \/ Tick \/ (\E j \in Jobs : Cancel(j))
              \/ Interrupt \/ MainReturns \/ RuntimeDrops
    BY <2>2, <2>10 DEF vars, Tick, Cancel, Interrupt, MainReturns, RuntimeDrops
  <2>11. QED
    BY <2>3, <2>4, <2>5, <2>6, <2>7, <2>8, <2>9, <2>10 DEF Next
<1>3. Init => Typed BY InitTyped
<1>4. Typed /\ [Next]_vars => Typed' BY NextTyped
<1>5. Fresh => BufferFresh OBVIOUS
<1>6. QED BY <1>1, <1>2, <1>3, <1>4, <1>5, PTL DEF Spec

-----------------------------------------------------------------------------
(* What a step of a job does to the jobs *)

\* The jobs it may leave in its slot: none, or itself a little further on,
\* with the same kind, batch and counters.
Advances(old, new) ==
    \/ new = Idle
    \/ /\ new.kind = old.kind /\ new.msgs = old.msgs /\ new.stats = old.stats
       /\ new.pc # "queued"
       /\ new.pc = "insert" => old.pc = "queued"

\* A job that moves on keeps what it carries, or drops it and is idle.
LEMMA GoAdvances ==
    ASSUME NEW j \in Slots, NEW pc \in PCs, job \in [Slots -> Job], Go(j, pc),
           pc # "queued", pc = "insert" => job[j].pc = "queued"
    PROVE  /\ Advances(job[j], job'[j])
           /\ pc # "idle" => job'[j].pc = pc /\ job'[j] # Idle
           /\ \A k \in Slots \ {j} : job'[k] = job[k]
<1> DEFINE new == IF pc = "idle" THEN Idle ELSE [job[j] EXCEPT !.pc = pc]
<1>1. job' = [job EXCEPT ![j] = new] BY DEF Go
<1>2. Advances(job[j], new) /\ (pc # "idle" => new.pc = pc)
  <2>1. CASE pc = "idle" BY <2>1 DEF Advances
  <2>2. CASE pc # "idle" BY <2>2 DEF Advances, Job
  <2>3. QED BY <2>1, <2>2
<1>3. QED BY <1>1, <1>2, IdleType

\* So does every step of a job.
LEMMA JobStepAdvances ==
    ASSUME TypeOK, NEW j \in Slots, JobStep(j)
    PROVE  /\ Advances(job[j], job'[j])
           /\ \A k \in Slots \ {j} : job'[k] = job[k]
<1>0. job \in [Slots -> Job] /\ job[j] \in Job BY DEF TypeOK
<1>1. ASSUME NEW new \in Job, job' = [job EXCEPT ![j] = new],
             Advances(job[j], new)
      PROVE  /\ Advances(job[j], job'[j])
             /\ \A k \in Slots \ {j} : job'[k] = job[k]
  BY <1>0, <1>1
<1>2. CASE Start(j)
  <2> DEFINE pc == AfterStart(job[j].kind, job[j].msgs)
  <2>1. pc \in PCs /\ pc # "queued" BY <1>0, NextPCs DEF Job, AfterStart
  <2>2. QED BY <1>0, <1>2, <2>1, GoAdvances DEF Start
<1>3. CASE Insert(j) BY <1>0, <1>3, GoAdvances DEF Insert, PCs
<1>4. CASE InsertFails(j) BY <1>0, <1>4, GoAdvances DEF InsertFails, PCs
<1>5. CASE Save(j)
  <2> DEFINE new == [job[j] EXCEPT !.pc = AfterSave(job[j].kind), !.since = now]
  <2>1. AfterSave(job[j].kind) \in PCs \ {"queued", "insert"}
    BY DEF AfterSave, PCs
  <2>2. new \in Job /\ Advances(job[j], new)
    BY <1>0, <2>1 DEF Job, Advances, TypeOK
  <2>3. job' = [job EXCEPT ![j] = new] BY <1>5 DEF Save
  <2> HIDE DEF new
  <2>4. QED BY <1>1, <2>2, <2>3
<1>6. CASE Expire(j)
  <2>1. AfterExpire \in PCs \ {"queued", "insert"} BY DEF AfterExpire, PCs
  <2>2. QED BY <1>0, <1>6, <2>1, GoAdvances DEF Expire
<1>7. CASE Count(j)
  <2>1. CASE ~(Cardinality(rows) > MaxRecords)
    <3>1. job' = [job EXCEPT ![j] = Idle] BY <1>7, <2>1 DEF Count
    <3>2. QED BY <1>1, <3>1, IdleType DEF Advances
  <2>2. CASE Cardinality(rows) > MaxRecords
    <3> DEFINE excess == Cardinality(rows) - MaxRecords
               new == [job[j] EXCEPT !.pc = "trim", !.count = excess]
    <3>1. job' = [job EXCEPT ![j] = new] BY <1>7, <2>2 DEF Count
    <3>2. Advances(job[j], new)
      <4> HIDE DEF excess
      <4>1. QED BY <1>0 DEF Job, Advances
    <3> HIDE DEF new
    <3>3. QED BY <1>0, <3>1, <3>2
  <2>3. QED BY <2>1, <2>2
<1>8. CASE Trim(j) BY <1>0, <1>8, GoAdvances DEF Trim, PCs
<1>9. CASE Tally(j)
  <2> DEFINE new == [job[j] EXCEPT !.pc = "page", !.count = Cardinality(rows)]
  <2>1. job' = [job EXCEPT ![j] = new] BY <1>9 DEF Tally
  <2>2. Advances(job[j], new) BY <1>0 DEF Job, Advances
  <2> HIDE DEF new
  <2>3. QED BY <1>0, <2>1, <2>2
<1>10. CASE Page(j)
  <2>1. CASE rows = {}
    <3>1. job' = [job EXCEPT ![j] = Idle] BY <1>10, <2>1 DEF Page
    <3>2. QED BY <1>1, <3>1, IdleType DEF Advances
  <2>2. CASE rows # {}
    <3> DEFINE new == [job[j] EXCEPT !.pc = "items", !.page = rows]
    <3>1. job' = [job EXCEPT ![j] = new] BY <1>10, <2>2 DEF Page
    <3>2. Advances(job[j], new) BY <1>0 DEF Job, Advances
    <3> HIDE DEF new
    <3>3. QED BY <1>0, <3>1, <3>2
  <2>3. QED BY <2>1, <2>2
<1>11. CASE Items(j) BY <1>0, <1>11, GoAdvances DEF Items, PCs
<1>12. CASE Zero(j)
  <2>1. AfterZero(job[j].kind) \in PCs \ {"queued", "insert"}
    BY DEF AfterZero, PCs
  <2>2. QED BY <1>0, <1>12, <2>1, GoAdvances DEF Zero
<1>13. CASE Unlink(j) BY <1>0, <1>13, GoAdvances DEF Unlink, PCs
<1>14. CASE Purge(j) BY <1>0, <1>14, GoAdvances DEF Purge, PCs
<1>15. CASE StatementFails(j)
  <2>1. PICK pc \in AfterFailure(job[j].kind, job[j].pc) :
           \/ pc = "idle" /\ Go(j, pc)
           \/ pc # "idle" /\ job' = [job EXCEPT ![j].pc = pc, ![j].since =
                                  IF job[j].pc = "save" THEN now ELSE @]
    BY <1>15 DEF StatementFails
  <2>2. pc \in PCs \ {"queued", "insert"}
    <3>1. job[j].kind \in Kinds /\ job[j].pc \in PCs BY <1>0 DEF Job
    <3>2. pc \in PCs BY <3>1, NextPCs
    <3>3. pc \notin {"queued", "insert"}
      BY <2>1 DEF AfterFailure, AfterSave, AfterZero, AfterExpire
    <3>4. QED BY <3>2, <3>3
  <2>3. CASE pc = "idle" /\ Go(j, pc) BY <1>0, <2>2, <2>3, GoAdvances
  <2>4. CASE pc # "idle" /\ job' = [job EXCEPT ![j].pc = pc, ![j].since =
                                  IF job[j].pc = "save" THEN now ELSE @]
    <3> DEFINE new == [job[j] EXCEPT !.pc = pc, !.since =
                          IF job[j].pc = "save" THEN now ELSE @]
    <3>1. job' = [job EXCEPT ![j] = new] BY <2>4
    <3>2. new \in Job /\ Advances(job[j], new)
      BY <1>0, <2>2 DEF Job, Advances, TypeOK
    <3> HIDE DEF new
    <3>3. QED BY <1>1, <3>1, <3>2
  <2>5. QED BY <2>1, <2>3, <2>4
<1>16. QED
  BY <1>2, <1>3, <1>4, <1>5, <1>6, <1>7, <1>8, <1>9, <1>10, <1>11, <1>12,
     <1>13, <1>14, <1>15 DEF JobStep

-----------------------------------------------------------------------------
(* The counters *)

\* Counting a packet keeps the counters balanced.
LEMMA CountedBalanced ==
    ASSUME NEW s \in Counters, NEW d \in AllDispositions, Balanced(s)
    PROVE  Balanced(Counted(s, d))
BY DEF Counters, Balanced, Counted, AllDispositions

\* Counters at zero balance.
LEMMA ZerosBalanced == Balanced(Zeros) /\ Balanced(Idle.stats)
BY DEF Zeros, Balanced, AllDispositions, Idle, NewJob

\* Where the counters come from: a recorded message is counted; otherwise those
\* in memory, in a job and in the database are ones that were in memory, in a
\* job or in the database before, or zeros.
LEMMA StatsMove ==
    ASSUME Typed, [Next]_vars
    PROVE  \/ /\ \E d \in Dispositions : Record(d) /\ stats' = Counted(stats, d)
              /\ dbStats' = dbStats /\ phase' = phase
              /\ \A k \in Slots : job'[k].stats \in {job[k].stats, stats'}
           \/ /\ dbStats' \in {dbStats, Zeros} \cup {job[j].stats : j \in Slots}
              /\ \A k \in Slots : job'[k].stats \in {job[k].stats, stats, Zeros}
              /\ stats' \in {stats, Zeros, dbStats}
              /\ stats' # stats => phase' = "down" \/ phase = "down" \/ Requests # {}
<1>0. job \in [Slots -> Job] /\ TypeOK BY DEF Typed, TypeOK
<1> DEFINE Moves == /\ dbStats' \in {dbStats, Zeros} \cup {job[j].stats : j \in Slots}
                    /\ \A k \in Slots : job'[k].stats \in {job[k].stats, stats, Zeros}
                    /\ stats' \in {stats, Zeros, dbStats}
                    /\ stats' # stats => phase' = "down" \/ phase = "down" \/ Requests # {}
<1>1. ASSUME NEW d \in Dispositions, Record(d)
      PROVE  /\ stats' = Counted(stats, d) /\ dbStats' = dbStats /\ phase' = phase
             /\ \A k \in Slots : job'[k].stats \in {job[k].stats, stats'}
  <2> DEFINE batch == buffer \cup {now + 1}
  <2>1. stats' = Counted(stats, d) /\ dbStats' = dbStats /\ phase' = phase
    BY <1>1 DEF Record
  <2>2. CASE ~FlushDue(batch, now + 1) BY <1>1, <2>1, <2>2 DEF Record
  <2>3. CASE FlushDue(batch, now + 1)
    <3> DEFINE new == NewJob("queued", "flush", batch, stats', 0, {})
    <3>1. PICK j \in Jobs : job' = [job EXCEPT ![j] = new]
      BY <1>1, <2>3 DEF Record
    <3>2. new.stats = stats' BY DEF NewJob
    <3> HIDE DEF new
    <3>3. QED BY <1>0, <2>1, <3>1, <3>2
  <2>4. QED BY <2>2, <2>3
<1>2. Idle.stats = Zeros BY DEF Idle, NewJob
<1>3. ASSUME NEW j \in Slots, JobStep(j) PROVE Moves
  <2>1. \A k \in Slots : job'[k].stats \in {job[k].stats, Zeros}
    BY <1>0, <1>2, <1>3, JobStepAdvances DEF Advances
  <2>2. stats' = stats /\ dbStats' \in {dbStats, job[j].stats, Zeros}
    BY <1>3 DEF JobStep, Start, Insert, InsertFails, Save, Expire, Count,
       Trim, Tally, Page, Items, Zero, Unlink, Purge, StatementFails
  <2>3. QED BY <2>1, <2>2
<1>4. ASSUME NEW j \in Slots, NEW pc, NEW kind, NEW msgs, NEW t, NEW want,
             NEW s \in {stats, Zeros},
             job' = [job EXCEPT ![j] = NewJob(pc, kind, msgs, s, t, want)]
      PROVE  \A k \in Slots : job'[k].stats \in {job[k].stats, stats, Zeros}
  <2>1. NewJob(pc, kind, msgs, s, t, want).stats = s BY DEF NewJob
  <2>2. \A k \in Slots : job'[k].stats \in {job[k].stats, s}
    BY <1>0, <1>4, <2>1
  <2>3. QED BY <1>4, <2>2
<1>5. ASSUME NEW j \in Jobs, HistoryRequest(j) PROVE Moves
  <2>1. \A k \in Slots : job'[k].stats \in {job[k].stats, stats, Zeros}
    BY <1>4, <1>5 DEF HistoryRequest, Slots
  <2>2. QED BY <1>5, <2>1 DEF HistoryRequest
<1>6. ASSUME NEW j \in Jobs, NEW kind \in {"reset", "wipe"}, ClearRequest(j, kind)
      PROVE  Moves
  <2>1. \A k \in Slots : job'[k].stats \in {job[k].stats, stats, Zeros}
    BY <1>4, <1>6 DEF ClearRequest, Slots
  <2>2. Requests # {} /\ stats' = Zeros /\ dbStats' = dbStats BY <1>6 DEF ClearRequest
  <2>3. QED BY <2>1, <2>2
<1>7. CASE ShutdownFlush
  <2>1. \A k \in Slots : job'[k].stats \in {job[k].stats, stats, Zeros}
    BY <1>4, <1>7 DEF ShutdownFlush, Slots
  <2>2. QED BY <1>7, <2>1 DEF ShutdownFlush
<1>8. ASSUME NEW j \in Jobs, Cancel(j) PROVE Moves
  <2>1. /\ Advances(job[j], job'[j])
        /\ \A k \in Slots \ {j} : job'[k] = job[k]
    BY <1>0, <1>8, GoAdvances DEF Cancel, Slots, PCs
  <2>2. QED BY <1>2, <1>8, <2>1 DEF Cancel, Advances
<1>9. CASE Exit \/ Terminate BY <1>2, <1>9 DEF Exit, Terminate, Die
<1>10. CASE Restart BY <1>10 DEF Restart
<1>11. CASE UNCHANGED vars \/ Tick \/ Interrupt \/ MainReturns \/ RuntimeDrops
  BY <1>11 DEF vars, Tick, Interrupt, MainReturns, RuntimeDrops
<1>12. QED
  BY <1>1, <1>3, <1>5, <1>6, <1>7, <1>8, <1>9, <1>10, <1>11 DEF Next

\* The total is the sum of the dispositions, in memory, in every snapshot and
\* in the database.
THEOREM StatsStayBalanced == Spec => []StatsBalanced
<1>1. Init => StatsBalanced BY ZerosBalanced DEF Init, StatsBalanced
<1>2. Typed /\ StatsBalanced /\ [Next]_vars => StatsBalanced'
  <2> SUFFICES ASSUME Typed, StatsBalanced, [Next]_vars PROVE StatsBalanced'
    OBVIOUS
  <2>1. \A d \in Dispositions : Balanced(Counted(stats, d))
    BY CountedBalanced, InputAssumption DEF StatsBalanced, Typed, TypeOK
  <2>2. QED BY <2>1, StatsMove, ZerosBalanced DEF StatsBalanced
<1>3. Init => Typed BY InitTyped
<1>4. Typed /\ [Next]_vars => Typed' BY NextTyped
<1>5. QED BY <1>1, <1>2, <1>3, <1>4, PTL DEF Spec

-----------------------------------------------------------------------------
(* Two facts about the slots that the next results need: a clear carries no *)
(* messages, and main's slot is only used while main() flushes.             *)

Carried == \A j \in Slots : job[j].kind \in {"reset", "wipe"} => job[j].msgs = {}

MainIdle == phase # "flushing" => job[Main].pc = "idle"

Consistent == Typed /\ Carried /\ MainIdle

\* Only a job that is not idle takes a step.
LEMMA IdleJobIsStill ==
    ASSUME NEW j \in Slots, JobStep(j)
    PROVE  job[j].pc # "idle"
BY DEF JobStep, Start, Insert, InsertFails, Save, Expire, Count, Trim, Tally,
   Page, Items, Zero, Unlink, Purge, StatementFails, AfterFailure

\* An idle slot is of the kind that flushes.
LEMMA IdleKind == Idle.kind = "flush" BY DEF Idle, NewJob

\* The first state is consistent.
LEMMA InitConsistent == ASSUME Init PROVE Consistent
<1>1. Typed BY InitTyped
<1>2. Carried /\ MainIdle BY IdleType DEF Init, Carried, MainIdle, Slots
<1>3. QED BY <1>1, <1>2 DEF Consistent

\* Every step keeps it consistent.
LEMMA NextConsistent == ASSUME Consistent, [Next]_vars PROVE Consistent'
<1> USE DEF Consistent
<1>1. Typed' BY NextTyped
<1>2. job \in [Slots -> Job] /\ TypeOK BY DEF Typed, TypeOK
<1>3. Main \in Slots /\ Main \notin Jobs /\ Jobs \subseteq Slots
  BY SlotsAssumption DEF Slots
<1>4. SUFFICES (Carried /\ MainIdle)' BY <1>1
<1> USE DEF Carried, MainIdle
\* A new job in a pool slot.
<1>5. ASSUME NEW j \in Jobs, NEW pc, NEW kind, NEW msgs, NEW t, NEW s, NEW want,
             job' = [job EXCEPT ![j] = NewJob(pc, kind, msgs, s, t, want)],
             kind \in {"reset", "wipe"} => msgs = {}, phase' = phase
      PROVE  (Carried /\ MainIdle)'
  <2> DEFINE new == NewJob(pc, kind, msgs, s, t, want)
  <2>1. new.kind = kind /\ new.msgs = msgs BY DEF NewJob
  <2>2. job' = [job EXCEPT ![j] = new] BY <1>5
  <2> HIDE DEF new
  <2>3. job'[j] = new /\ \A k \in Slots \ {j} : job'[k] = job[k]
    BY <1>2, <1>3, <2>2
  <2>4. job'[Main] = job[Main] BY <1>3, <2>3
  <2>5. QED BY <1>5, <2>1, <2>3, <2>4
<1>6. ASSUME NEW d \in Dispositions, Record(d) PROVE (Carried /\ MainIdle)'
  <2> DEFINE batch == buffer \cup {now + 1}
  <2>1. phase' = phase BY <1>6 DEF Record
  <2>2. CASE ~FlushDue(batch, now + 1) BY <1>6, <2>1, <2>2 DEF Record
  <2>3. CASE FlushDue(batch, now + 1)
    <3>1. PICK j \in Jobs :
             job' = [job EXCEPT ![j] =
                       NewJob("queued", "flush", batch, stats', 0, {})]
      BY <1>6, <2>3 DEF Record
    <3>2. "flush" \in {"reset", "wipe"} => batch = {} OBVIOUS
    <3> HIDE DEF batch
    <3>3. QED BY <1>5, <2>1, <3>1, <3>2, Zenon
  <2>4. QED BY <2>2, <2>3
<1>7. ASSUME NEW j \in Jobs, HistoryRequest(j) PROVE (Carried /\ MainIdle)'
  <2>1. job' = [job EXCEPT ![j] =
                  NewJob("queued", "history", buffer, stats, 0, buffer \cup rows)]
    BY <1>7 DEF HistoryRequest
  <2>2. phase' = phase BY <1>7 DEF HistoryRequest
  <2>3. "history" \in {"reset", "wipe"} => buffer = {} OBVIOUS
  <2>4. QED BY <1>5, <2>1, <2>2, <2>3, Zenon
<1>8. ASSUME NEW j \in Jobs, NEW kind \in {"reset", "wipe"},
             ClearRequest(j, kind)
      PROVE  (Carried /\ MainIdle)'
  BY <1>5, <1>8 DEF ClearRequest
<1>9. ASSUME NEW j \in Slots, JobStep(j) PROVE (Carried /\ MainIdle)'
  <2>1. /\ Advances(job[j], job'[j])
        /\ \A k \in Slots \ {j} : job'[k] = job[k]
    BY <1>2, <1>9, JobStepAdvances
  <2>2. phase' = phase
    BY <1>9 DEF JobStep, Start, Insert, InsertFails, Save, Expire, Count,
       Trim, Tally, Page, Items, Zero, Unlink, Purge, StatementFails
  <2>3. job[j].pc # "idle" BY <1>9, IdleJobIsStill
  <2>4. Carried' BY <2>1, IdleType DEF Advances
  <2>5. MainIdle' BY <1>3, <2>1, <2>2, <2>3
  <2>6. QED BY <2>4, <2>5
<1>10. ASSUME NEW j \in Jobs, Cancel(j) PROVE (Carried /\ MainIdle)'
  <2>1. /\ Advances(job[j], job'[j])
        /\ \A k \in Slots \ {j} : job'[k] = job[k]
    BY <1>2, <1>3, <1>10, GoAdvances DEF Cancel, PCs
  <2>2. phase' = phase BY <1>10 DEF Cancel
  <2>3. Carried' BY <2>1, IdleType DEF Advances
  <2>4. MainIdle' BY <1>3, <2>1, <2>2
  <2>5. QED BY <2>3, <2>4
<1>11. CASE ShutdownFlush
  <2> DEFINE new == NewJob(AfterStart("flush", buffer), "flush", buffer, stats, 0, {})
  <2>1. job' = [job EXCEPT ![Main] = new] /\ phase' = "flushing"
    BY <1>11 DEF ShutdownFlush
  <2>2. new.kind = "flush" BY DEF NewJob
  <2> HIDE DEF new
  <2>3. QED BY <1>2, <2>1, <2>2
<1>12. CASE Exit \/ Terminate
  BY <1>3, <1>12, IdleType DEF Exit, Terminate, Die
<1>13. CASE UNCHANGED vars BY <1>13 DEF vars
<1>14. CASE Tick \/ Interrupt \/ MainReturns \/ RuntimeDrops \/ Restart
  BY <1>14 DEF Tick, Interrupt, MainReturns, RuntimeDrops, Restart
<1>15. QED
  BY <1>6, <1>7, <1>8, <1>9, <1>10, <1>11, <1>12, <1>13, <1>14 DEF Next

-----------------------------------------------------------------------------
(* What a step of a job does to the messages *)

\* A step of a job lands its batch, some of it lost, or takes rows away, and nothing else
\* moves.
LEMMA JobStepMoves ==
    ASSUME Consistent, NEW j \in Slots, JobStep(j)
    PROVE  /\ buffer' = buffer
           /\ \A k \in Slots \ {j} : Batch(k)' = Batch(k)
           /\ \/ \E kept \in SUBSET Batch(j) :
                    /\ Batch(j)' = {}
                    /\ rows' = rows \cup kept
                    /\ gone' = gone
                    /\ lost' = lost \cup (Batch(j) \ kept)
              \/ \E ms \in SUBSET rows :
                    /\ Batch(j)' = Batch(j)
                    /\ rows' = rows \ ms
                    /\ gone' = gone \cup ms
                    /\ lost' = lost
<1> USE DEF Consistent
<1>1. job \in [Slots -> Job] /\ TypeOK BY DEF Typed, TypeOK
<1>2. /\ Advances(job[j], job'[j])
      /\ \A k \in Slots \ {j} : job'[k] = job[k]
  BY <1>1, JobStepAdvances
<1>3. \A k \in Slots \ {j} : Batch(k)' = Batch(k) BY <1>2 DEF Batch
<1>4. buffer' = buffer
  BY DEF JobStep, Start, Insert, InsertFails, Save, Expire, Count, Trim, Tally,
     Page, Items, Zero, Unlink, Purge, StatementFails
<1>5. CASE Insert(j) \/ InsertFails(j)
  <2>1. Go(j, "save") /\ job[j].pc = "insert" BY <1>5 DEF Insert, InsertFails
  <2>2. job'[j].pc = "save" BY <1>1, <2>1, GoAdvances DEF PCs
  <2>3. Batch(j)' = {} /\ Batch(j) = job[j].msgs BY <2>1, <2>2 DEF Batch
  <2>4. CASE Insert(j) BY <1>3, <1>4, <2>3, <2>4 DEF Insert
  <2>5. CASE InsertFails(j) BY <1>3, <1>4, <2>3, <2>5 DEF InsertFails
  <2>6. QED BY <1>5, <2>4, <2>5
<1>9. ASSUME rows' = rows, gone' = gone, lost' = lost
      PROVE  \E ms \in SUBSET rows :
                rows' = rows \ ms /\ gone' = gone \cup ms /\ lost' = lost
  <2>1. {} \in SUBSET rows /\ rows' = rows \ {} /\ gone' = gone \cup {}
    BY <1>9
  <2>2. QED BY <1>9, <2>1
<1>6. CASE Start(j)
  <2>0. rows' = rows /\ gone' = gone /\ lost' = lost BY <1>6 DEF Start
  <2>1. job[j].pc = "queued" /\ Go(j, AfterStart(job[j].kind, job[j].msgs))
    BY <1>6 DEF Start
  <2>2. CASE AfterStart(job[j].kind, job[j].msgs) = "insert"
    <3>1. job'[j].pc = "insert" /\ job'[j] # Idle
      BY <1>1, <2>1, <2>2, GoAdvances DEF PCs
    <3>2. Batch(j)' = Batch(j) BY <1>2, <2>1, <3>1 DEF Batch, Advances
    <3>3. QED BY <1>3, <1>4, <1>9, <2>0, <3>2
  <2>3. CASE AfterStart(job[j].kind, job[j].msgs) # "insert"
    <3>1. job[j].msgs = {} BY <2>3 DEF AfterStart, Carried
    <3>2. Batch(j) = {} /\ Batch(j)' = {}
      BY <1>2, <3>1, IdleType DEF Batch, Advances
    <3>3. QED BY <1>3, <1>4, <1>9, <2>0, <3>2
  <2>4. QED BY <2>2, <2>3
<1>7. CASE \/ Save(j) \/ Expire(j) \/ Count(j) \/ Trim(j) \/ Tally(j)
           \/ Page(j) \/ Items(j) \/ Zero(j) \/ Unlink(j) \/ Purge(j)
           \/ StatementFails(j)
  <2>1. job[j].pc \notin {"queued", "insert"}
    BY <1>7 DEF Save, Expire, Count, Trim, Tally, Page, Items, Zero, Unlink,
       Purge, StatementFails, AfterFailure
  <2>2. Batch(j) = {} /\ Batch(j)' = {}
    BY <1>2, <2>1, IdleType DEF Batch, Advances
  <2>3. \E ms \in SUBSET rows :
           rows' = rows \ ms /\ gone' = gone \cup ms /\ lost' = lost
    <3>1. CASE Expire(j)
      <4>1. Expired(rows, job[j].since) \in SUBSET rows BY DEF Expired
      <4>2. QED BY <3>1, <4>1 DEF Expire, Delete
    <3>2. CASE Trim(j)
      <4>1. Oldest(rows, job[j].count) \in SUBSET rows BY DEF Oldest
      <4>2. QED BY <3>2, <4>1 DEF Trim, Delete
    <3>3. CASE Purge(j) BY <3>3 DEF Purge, Delete
    <3>4. CASE \/ Save(j) \/ Count(j) \/ Tally(j) \/ Page(j) \/ Items(j)
               \/ Zero(j) \/ Unlink(j) \/ StatementFails(j)
      <4>1. rows' = rows /\ gone' = gone /\ lost' = lost
        BY <3>4 DEF Save, Count, Tally, Page, Items, Zero, Unlink, StatementFails
      <4>2. QED BY <1>9, <4>1
    <3>5. QED BY <1>7, <3>1, <3>2, <3>3, <3>4
  <2>4. QED BY <1>3, <1>4, <2>2, <2>3
<1>8. QED BY <1>5, <1>6, <1>7 DEF JobStep

-----------------------------------------------------------------------------
(* Where messages are: how InFlight changes with one slot *)

Others(j) == UNION {Batch(k) : k \in Slots \ {j}}

\* What is in flight is a job's batch and the others'.
LEMMA InFlightSplit ==
    ASSUME NEW j \in Slots
    PROVE  InFlight = Others(j) \cup Batch(j)
BY DEF InFlight, Others

\* The same after a step in which the others' batches stay.
LEMMA InFlightAfter ==
    ASSUME NEW j \in Slots, \A k \in Slots \ {j} : Batch(k)' = Batch(k)
    PROVE  InFlight' = Others(j) \cup Batch(j)'
BY DEF InFlight, Others

\* When no batch changes, what is in flight stays.
LEMMA InFlightSame ==
    ASSUME \A k \in Slots : Batch(k)' = Batch(k)
    PROVE  InFlight' = InFlight
BY DEF InFlight

\* A job is put into an idle slot.
LEMMA SpawnMoves ==
    ASSUME Consistent, NEW j \in Slots, job[j].pc = "idle",
           NEW pc \in {"queued", "insert", "save"}, NEW kind, NEW msgs, NEW s,
           NEW t, NEW want,
           job' = [job EXCEPT ![j] = NewJob(pc, kind, msgs, s, t, want)],
           pc = "save" => msgs = {}
    PROVE  /\ Batch(j) = {} /\ Batch(j)' = msgs
           /\ \A k \in Slots \ {j} : Batch(k)' = Batch(k)
           /\ InFlight' = InFlight \cup msgs
<1> DEFINE new == NewJob(pc, kind, msgs, s, t, want)
<1>1. new.pc = pc /\ new.msgs = msgs BY DEF NewJob
<1>2. job' = [job EXCEPT ![j] = new] OBVIOUS
<1> HIDE DEF new
<1>3. job'[j] = new /\ \A k \in Slots \ {j} : job'[k] = job[k]
  BY <1>2 DEF Consistent, Typed, TypeOK
<1>4. Batch(j) = {} /\ Batch(j)' = msgs BY <1>1, <1>3 DEF Batch
<1>5. \A k \in Slots \ {j} : Batch(k)' = Batch(k) BY <1>3 DEF Batch
<1>6. InFlight' = InFlight \cup msgs
  BY <1>4, <1>5, InFlightSplit, InFlightAfter
<1>7. QED BY <1>4, <1>5, <1>6

\* A cancelled job loses its batch, and the others keep theirs.
LEMMA CancelMoves ==
    ASSUME Consistent, NEW j \in Jobs, Cancel(j)
    PROVE  /\ j \in Slots
           /\ Batch(j) = job[j].msgs /\ Batch(j)' = {}
           /\ \A k \in Slots \ {j} : Batch(k)' = Batch(k)
<1>1. j \in Slots /\ job \in [Slots -> Job] BY DEF Slots, Consistent, Typed, TypeOK
<1>2. job' = [job EXCEPT ![j] = Idle] BY DEF Cancel, Go
<1>3. job'[j] = Idle /\ \A k \in Slots \ {j} : job'[k] = job[k] BY <1>1, <1>2
<1>4. QED BY <1>1, <1>3, IdleType DEF Batch, Cancel

\* A process that dies has nothing in flight.
LEMMA DieMoves ==
    ASSUME Die
    PROVE  InFlight' = {} /\ \A j \in Slots : Batch(j)' = {}
<1>1. \A j \in Slots : Batch(j)' = {} BY IdleType DEF Die, Batch
<1>2. QED BY <1>1 DEF InFlight

\* What is in flight was recorded before.
LEMMA InFlightPast == ASSUME Typed PROVE InFlight \subseteq 1..now
BY DEF Typed, Past, InFlight, Batch

-----------------------------------------------------------------------------
(* Refinement *)

\* A recorded message is new, and pending from now on.
LEMMA RecordAccepts ==
    ASSUME Consistent, NEW d \in Dispositions, Record(d)
    PROVE  /\ now + 1 \in 1..MaxTime
           /\ now + 1 \notin buffer \cup InFlight \cup rows \cup gone \cup lost
           /\ (buffer \cup InFlight)' = buffer \cup InFlight \cup {now + 1}
           /\ UNCHANGED <<rows, gone, lost>>
<1> DEFINE m == now + 1
           batch == buffer \cup {m}
<1>0. Typed BY DEF Consistent
<1>1. m \in 1..MaxTime
  BY <1>0, BoundAssumption DEF Record, Typed, TypeOK
<1>2. m \notin 1..now BY <1>0 DEF Typed, TypeOK
<1>3. m \notin buffer \cup InFlight \cup rows \cup gone \cup lost
  BY <1>0, <1>2, InFlightPast DEF Typed, Past
<1>4. UNCHANGED <<rows, gone, lost>> BY DEF Record
<1>5. CASE ~FlushDue(batch, m)
  <2>1. buffer' = batch /\ job' = job BY <1>5 DEF Record
  <2>2. InFlight' = InFlight BY <2>1, InFlightSame DEF Batch
  <2>3. QED BY <1>1, <1>3, <1>4, <2>1, <2>2
<1>6. CASE FlushDue(batch, m)
  <2>1. buffer' = {} BY <1>6 DEF Record, TakeBuffer
  <2>2. PICK j \in Jobs :
           /\ job[j].pc = "idle"
           /\ job' = [job EXCEPT ![j] =
                        NewJob("queued", "flush", batch, stats', 0, {})]
    BY <1>6 DEF Record
  <2>3. j \in Slots BY DEF Slots
  <2>4. InFlight' = InFlight \cup batch
    <3> HIDE DEF batch
    <3>1. QED BY <2>2, <2>3, SpawnMoves
  <2>5. QED BY <1>1, <1>3, <1>4, <2>1, <2>4
<1>7. QED BY <1>5, <1>6

\* Every step of tracking is a step of the abstract log, or none of it.
LEMMA StepRefines ==
    ASSUME Consistent, ExactlyOnce, [Next]_vars
    PROVE  [Log!LogNext]_(Log!logVars)
<1> DEFINE pend == buffer \cup InFlight
           ret == gone \cup lost
           Accepts(m) == /\ m \notin pend \cup rows \cup ret
                         /\ pend' = pend \cup {m}
                         /\ rows' = rows /\ ret' = ret
           Stores(kept, dropped) == /\ kept \cup dropped \subseteq pend
                                    /\ kept \cap dropped = {}
                                    /\ pend' = pend \ (kept \cup dropped)
                                    /\ rows' = rows \cup kept
                                    /\ ret' = ret \cup dropped
           Retires(ms) == /\ ms \subseteq pend \cup rows
                          /\ pend' = pend \ ms
                          /\ rows' = rows \ ms
                          /\ ret' = ret \cup ms
<1>1. ASSUME NEW m \in 1..MaxTime, Accepts(m) PROVE Log!LogNext
  BY <1>1 DEF Log!LogNext, Log!Accept
<1>2. ASSUME NEW kept, NEW dropped, Stores(kept, dropped) PROVE Log!LogNext
  <2>1. kept \in SUBSET pend /\ dropped \in SUBSET pend BY <1>2
  <2>2. QED BY <1>2, <2>1 DEF Log!LogNext, Log!Store
<1>3. ASSUME NEW ms, Retires(ms) PROVE Log!LogNext
  <2>1. ms \in SUBSET (pend \cup rows) BY <1>3
  <2>2. QED BY <1>3, <2>1 DEF Log!LogNext, Log!Retire
<1>4. ASSUME pend' = pend, rows' = rows, ret' = ret
      PROVE  [Log!LogNext]_(Log!logVars)
  BY <1>4 DEF Log!logVars
<1>5. Typed BY DEF Consistent
<1>6. ASSUME NEW d \in Dispositions, Record(d) PROVE Log!LogNext
  <2>1. now + 1 \in 1..MaxTime /\ Accepts(now + 1)
    BY <1>6, RecordAccepts
  <2>2. QED BY <1>1, <2>1
<1>7. ASSUME NEW j \in Jobs, HistoryRequest(j)
      PROVE  [Log!LogNext]_(Log!logVars)
  <2>1. j \in Slots BY DEF Slots
  <2>2. InFlight' = InFlight \cup buffer
    BY <1>7, <2>1, SpawnMoves DEF HistoryRequest
  <2>3. pend' = pend BY <1>7, <2>2 DEF HistoryRequest, TakeBuffer
  <2>4. rows' = rows /\ ret' = ret BY <1>7 DEF HistoryRequest
  <2>5. QED BY <1>4, <2>3, <2>4
<1>8. ASSUME NEW j \in Jobs, NEW kind \in {"reset", "wipe"},
             ClearRequest(j, kind)
      PROVE  [Log!LogNext]_(Log!logVars)
  <2>1. j \in Slots BY DEF Slots
  <2>2. InFlight' = InFlight
    <3>1. InFlight' = InFlight \cup {}
      BY <1>8, <2>1, SpawnMoves DEF ClearRequest
    <3>2. QED BY <3>1
  <2>3. rows' = rows /\ lost' = lost BY <1>8 DEF ClearRequest
  <2>4. CASE kind = "wipe"
    <3>1. buffer' = {} /\ gone' = gone \cup buffer BY <1>8, <2>4 DEF ClearRequest
    <3>2. Retires(buffer)
      BY <2>2, <2>3, <3>1 DEF ExactlyOnce
    <3>3. QED BY <1>3, <3>2
  <2>5. CASE kind # "wipe"
    <3>1. buffer' = buffer /\ gone' = gone BY <1>8, <2>5 DEF ClearRequest
    <3>2. QED BY <1>4, <2>2, <2>3, <3>1
  <2>6. QED BY <2>4, <2>5
<1>9. ASSUME NEW j \in Slots, JobStep(j) PROVE [Log!LogNext]_(Log!logVars)
  <2>1. /\ buffer' = buffer
        /\ \A k \in Slots \ {j} : Batch(k)' = Batch(k)
    BY <1>9, JobStepMoves
  <2>2. InFlight = Others(j) \cup Batch(j) /\ InFlight' = Others(j) \cup Batch(j)'
    BY <2>1, InFlightSplit, InFlightAfter
  <2>3. Others(j) \cap Batch(j) = {} BY DEF ExactlyOnce, Others
  <2>4. CASE \E kept \in SUBSET Batch(j) :
                /\ Batch(j)' = {}
                /\ rows' = rows \cup kept
                /\ gone' = gone
                /\ lost' = lost \cup (Batch(j) \ kept)
    <3>1. PICK kept \in SUBSET Batch(j) :
                /\ Batch(j)' = {}
                /\ rows' = rows \cup kept
                /\ gone' = gone
                /\ lost' = lost \cup (Batch(j) \ kept)
      BY <2>4
    <3>2. buffer \cap Batch(j) = {} BY <2>2 DEF ExactlyOnce
    <3>3. Stores(kept, Batch(j) \ kept) BY <2>1, <2>2, <2>3, <3>1, <3>2
    <3>4. QED BY <1>2, <3>3
  <2>5. CASE \E ms \in SUBSET rows :
                /\ Batch(j)' = Batch(j)
                /\ rows' = rows \ ms
                /\ gone' = gone \cup ms
                /\ lost' = lost
    <3>1. PICK ms \in SUBSET rows :
                /\ Batch(j)' = Batch(j)
                /\ rows' = rows \ ms
                /\ gone' = gone \cup ms
                /\ lost' = lost
      BY <2>5
    <3>2. ms \cap pend = {} BY DEF ExactlyOnce
    <3>3. Retires(ms) BY <2>1, <2>2, <3>1, <3>2
    <3>4. QED BY <1>3, <3>3
  <2>6. QED BY <1>9, <2>4, <2>5, JobStepMoves
<1>10. ASSUME NEW j \in Jobs, Cancel(j) PROVE Log!LogNext
  <2>1. /\ j \in Slots
        /\ Batch(j) = job[j].msgs /\ Batch(j)' = {}
        /\ \A k \in Slots \ {j} : Batch(k)' = Batch(k)
    BY <1>10, CancelMoves
  <2>2. InFlight = Others(j) \cup Batch(j) /\ InFlight' = Others(j)
    BY <2>1, InFlightSplit, InFlightAfter
  <2>3. Others(j) \cap Batch(j) = {} BY <2>1 DEF ExactlyOnce, Others
  <2>4. Retires(Batch(j))
    BY <1>10, <2>1, <2>2, <2>3 DEF Cancel, ExactlyOnce
  <2>5. QED BY <1>3, <2>4
<1>11. CASE ShutdownFlush
  <2>1. Main \in Slots /\ job[Main].pc = "idle"
    BY <1>11 DEF ShutdownFlush, Slots, Consistent, MainIdle
  <2>2. /\ AfterStart("flush", buffer) \in {"queued", "insert", "save"}
        /\ AfterStart("flush", buffer) = "save" => buffer = {}
    BY DEF AfterStart
  <2>3. InFlight' = InFlight \cup buffer
    BY <1>11, <2>1, <2>2, SpawnMoves DEF ShutdownFlush
  <2>4. pend' = pend BY <1>11, <2>3 DEF ShutdownFlush, TakeBuffer
  <2>5. rows' = rows /\ ret' = ret BY <1>11 DEF ShutdownFlush
  <2>6. QED BY <1>4, <2>4, <2>5
<1>12. CASE Exit \/ Terminate
  <2>1. Die BY <1>12 DEF Exit, Terminate
  <2>2. pend' = {} BY <2>1, DieMoves DEF Die
  <2>3. rows' = rows /\ ret' = ret \cup pend BY <2>1 DEF Die
  <2>4. Retires(pend) BY <2>2, <2>3 DEF ExactlyOnce
  <2>5. QED BY <1>3, <2>4
<1>13. CASE \/ UNCHANGED vars \/ Tick \/ Interrupt \/ MainReturns
            \/ RuntimeDrops \/ Restart
  <2>1. /\ buffer' = buffer /\ job' = job /\ rows' = rows
        /\ gone' = gone /\ lost' = lost
    BY <1>13 DEF vars, Tick, Interrupt, MainReturns, RuntimeDrops, Restart
  <2>2. InFlight' = InFlight BY <2>1, InFlightSame DEF Batch
  <2>3. QED BY <1>4, <2>1, <2>2
<1>14. QED
  BY <1>6, <1>7, <1>8, <1>9, <1>10, <1>11, <1>12, <1>13 DEF Next

-----------------------------------------------------------------------------
(* Exactly once *)

\* What must hold after a step that touches only slot j and the sets.
LEMMA OnceAfter ==
    ASSUME ExactlyOnce, NEW j \in Slots,
           \A k \in Slots \ {j} : Batch(k)' = Batch(k),
           Batch(j)' \cap Others(j) = {},
           buffer' \cap (Others(j) \cup Batch(j)') = {},
           (buffer' \cup Others(j) \cup Batch(j)')
               \cap (rows' \cup gone' \cup lost') = {},
           rows' \cap (gone' \cup lost') = {},
           gone' \cap lost' = {}
    PROVE  ExactlyOnce'
<1>1. InFlight' = Others(j) \cup Batch(j)' BY InFlightAfter
<1>2. ASSUME NEW k \in Slots, NEW l \in Slots, k # l
      PROVE  Batch(k)' \cap Batch(l)' = {}
  <2>1. CASE k # j /\ l # j BY <1>2, <2>1 DEF ExactlyOnce
  <2>2. CASE k = j
    <3>1. Batch(l)' = Batch(l) /\ Batch(l) \subseteq Others(j)
      BY <1>2, <2>2 DEF Others
    <3>2. QED BY <2>2, <3>1
  <2>3. CASE l = j
    <3>1. Batch(k)' = Batch(k) /\ Batch(k) \subseteq Others(j)
      BY <1>2, <2>3 DEF Others
    <3>2. QED BY <2>3, <3>1
  <2>4. QED BY <2>1, <2>2, <2>3
<1>3. QED BY <1>1, <1>2 DEF ExactlyOnce

\* The same, of a step after which no slot's batch has changed.
LEMMA OnceSame ==
    ASSUME ExactlyOnce, \A k \in Slots : Batch(k)' = Batch(k),
           buffer' \cap InFlight = {},
           (buffer' \cup InFlight) \cap (rows' \cup gone' \cup lost') = {},
           rows' \cap (gone' \cup lost') = {},
           gone' \cap lost' = {}
    PROVE  ExactlyOnce'
<1>1. InFlight' = InFlight BY InFlightSame
<1>2. QED BY <1>1 DEF ExactlyOnce

\* What one slot's batch is disjoint from.
LEMMA OnceAt ==
    ASSUME ExactlyOnce, NEW j \in Slots
    PROVE  /\ InFlight = Others(j) \cup Batch(j)
           /\ Others(j) \cap Batch(j) = {}
BY InFlightSplit DEF ExactlyOnce, Others

\* Every step leaves each message in one place.
LEMMA NextOnce == ASSUME Consistent, ExactlyOnce, [Next]_vars PROVE ExactlyOnce'
<1>1. Typed BY DEF Consistent
<1>2. ASSUME NEW d \in Dispositions, Record(d) PROVE ExactlyOnce'
  <2> DEFINE m == now + 1
             batch == buffer \cup {m}
  <2>1. m \notin 1..now BY <1>1 DEF Typed, TypeOK
  <2>2. m \notin InFlight \cup rows \cup gone \cup lost
    BY <1>1, <2>1, InFlightPast DEF Typed, Past
  <2>3. rows' = rows /\ gone' = gone /\ lost' = lost BY <1>2 DEF Record
  <2>4. CASE ~FlushDue(batch, m)
    <3>1. buffer' = batch /\ job' = job BY <1>2, <2>4 DEF Record
    <3>2. \A k \in Slots : Batch(k)' = Batch(k) BY <3>1 DEF Batch
    <3>3. /\ buffer' \cap InFlight = {}
          /\ (buffer' \cup InFlight) \cap (rows' \cup gone' \cup lost') = {}
      BY <2>2, <2>3, <3>1 DEF ExactlyOnce
    <3>4. rows' \cap (gone' \cup lost') = {} /\ gone' \cap lost' = {}
      BY <2>3 DEF ExactlyOnce
    <3>5. QED BY <3>2, <3>3, <3>4, OnceSame
  <2>5. CASE FlushDue(batch, m)
    <3>1. buffer' = {} BY <1>2, <2>5 DEF Record, TakeBuffer
    <3>2. PICK j \in Jobs :
             /\ job[j].pc = "idle"
             /\ job' = [job EXCEPT ![j] =
                          NewJob("queued", "flush", batch, stats', 0, {})]
      BY <1>2, <2>5 DEF Record
    <3>3. j \in Slots BY DEF Slots
    <3>4. /\ Batch(j)' = batch
          /\ \A k \in Slots \ {j} : Batch(k)' = Batch(k)
      <4> HIDE DEF batch
      <4>1. QED BY <3>2, <3>3, SpawnMoves
    <3>5. Others(j) \cap batch = {} /\ Others(j) \subseteq InFlight
      BY <2>2, <3>3, OnceAt DEF ExactlyOnce
    <3>6. (Others(j) \cup batch) \cap (rows \cup gone \cup lost) = {}
      BY <2>2, <3>5 DEF ExactlyOnce
    <3>7. rows \cap (gone \cup lost) = {} /\ gone \cap lost = {}
      BY DEF ExactlyOnce
    <3> HIDE DEF batch
    <3>8. QED BY <2>3, <3>1, <3>3, <3>4, <3>5, <3>6, <3>7, OnceAfter
  <2>6. QED BY <2>4, <2>5
<1>3. ASSUME NEW j \in Slots, buffer' = {}, Batch(j) = {}, Batch(j)' = buffer,
             \A k \in Slots \ {j} : Batch(k)' = Batch(k),
             rows' = rows, gone' = gone, lost' = lost
      PROVE  ExactlyOnce'
  <2>1. Others(j) = InFlight BY <1>3, OnceAt
  <2>2. /\ buffer \cap Others(j) = {}
        /\ (Others(j) \cup buffer) \cap (rows \cup gone \cup lost) = {}
        /\ rows \cap (gone \cup lost) = {}
        /\ gone \cap lost = {}
    BY <2>1 DEF ExactlyOnce
  <2>3. QED BY <1>3, <2>2, OnceAfter
<1>4. ASSUME NEW j \in Jobs, HistoryRequest(j) PROVE ExactlyOnce'
  <2>1. j \in Slots BY DEF Slots
  <2>2. /\ Batch(j) = {} /\ Batch(j)' = buffer
        /\ \A k \in Slots \ {j} : Batch(k)' = Batch(k)
    BY <1>4, <2>1, SpawnMoves DEF HistoryRequest
  <2>3. QED BY <1>3, <1>4, <2>1, <2>2 DEF HistoryRequest, TakeBuffer
<1>5. ASSUME NEW j \in Jobs, NEW kind \in {"reset", "wipe"},
             ClearRequest(j, kind)
      PROVE  ExactlyOnce'
  <2>1. j \in Slots BY DEF Slots
  <2>2. /\ Batch(j) = {} /\ Batch(j)' = {}
        /\ \A k \in Slots \ {j} : Batch(k)' = Batch(k)
    BY <1>5, <2>1, SpawnMoves DEF ClearRequest
  <2>3. \A k \in Slots : Batch(k)' = Batch(k) BY <2>2
  <2>4. rows' = rows /\ lost' = lost BY <1>5 DEF ClearRequest
  <2>5. \/ buffer' = {} /\ gone' = gone \cup buffer
        \/ buffer' = buffer /\ gone' = gone
    BY <1>5 DEF ClearRequest
  <2>6. /\ buffer' \cap InFlight = {}
        /\ (buffer' \cup InFlight) \cap (rows' \cup gone' \cup lost') = {}
        /\ rows' \cap (gone' \cup lost') = {}
        /\ gone' \cap lost' = {}
    BY <2>4, <2>5 DEF ExactlyOnce
  <2>7. QED BY <2>3, <2>6, OnceSame
<1>6. ASSUME NEW j \in Slots, JobStep(j) PROVE ExactlyOnce'
  <2>1. /\ buffer' = buffer
        /\ \A k \in Slots \ {j} : Batch(k)' = Batch(k)
    BY <1>6, JobStepMoves
  <2>2. InFlight = Others(j) \cup Batch(j) /\ Others(j) \cap Batch(j) = {}
    BY OnceAt
  <2>3. /\ buffer \cap Others(j) = {} /\ buffer \cap Batch(j) = {}
        /\ buffer \cap (rows \cup gone \cup lost) = {}
        /\ Others(j) \cap (rows \cup gone \cup lost) = {}
        /\ Batch(j) \cap (rows \cup gone \cup lost) = {}
        /\ rows \cap (gone \cup lost) = {} /\ gone \cap lost = {}
    BY <2>2 DEF ExactlyOnce
  <2>4. CASE \E kept \in SUBSET Batch(j) :
                /\ Batch(j)' = {}
                /\ rows' = rows \cup kept
                /\ gone' = gone
                /\ lost' = lost \cup (Batch(j) \ kept)
    <3>1. PICK kept \in SUBSET Batch(j) :
                /\ Batch(j)' = {}
                /\ rows' = rows \cup kept
                /\ gone' = gone
                /\ lost' = lost \cup (Batch(j) \ kept)
      BY <2>4
    <3>2. /\ (buffer \cup Others(j)) \cap (rows' \cup gone' \cup lost') = {}
          /\ rows' \cap (gone' \cup lost') = {} /\ gone' \cap lost' = {}
      BY <2>2, <2>3, <3>1
    <3>3. QED BY <2>1, <2>3, <3>1, <3>2, OnceAfter
  <2>5. CASE \E ms \in SUBSET rows :
                /\ Batch(j)' = Batch(j)
                /\ rows' = rows \ ms
                /\ gone' = gone \cup ms
                /\ lost' = lost
    <3>1. PICK ms \in SUBSET rows :
                /\ Batch(j)' = Batch(j)
                /\ rows' = rows \ ms
                /\ gone' = gone \cup ms
                /\ lost' = lost
      BY <2>5
    <3>2. /\ (buffer \cup Others(j) \cup Batch(j))
                 \cap (rows' \cup gone' \cup lost') = {}
          /\ rows' \cap (gone' \cup lost') = {} /\ gone' \cap lost' = {}
      BY <2>3, <3>1
    <3>3. QED BY <2>1, <2>2, <2>3, <3>1, <3>2, OnceAfter
  <2>6. QED BY <1>6, <2>4, <2>5, JobStepMoves
<1>7. ASSUME NEW j \in Jobs, Cancel(j) PROVE ExactlyOnce'
  <2>1. /\ j \in Slots
        /\ Batch(j) = job[j].msgs /\ Batch(j)' = {}
        /\ \A k \in Slots \ {j} : Batch(k)' = Batch(k)
    BY <1>7, CancelMoves
  <2>2. InFlight = Others(j) \cup Batch(j) /\ Others(j) \cap Batch(j) = {}
    BY <2>1, OnceAt
  <2>3. /\ buffer' = buffer /\ rows' = rows /\ gone' = gone
        /\ lost' = lost \cup Batch(j)
    BY <1>7, <2>1 DEF Cancel
  <2>4. /\ buffer' \cap Others(j) = {}
        /\ (buffer' \cup Others(j)) \cap (rows' \cup gone' \cup lost') = {}
        /\ rows' \cap (gone' \cup lost') = {} /\ gone' \cap lost' = {}
    BY <2>2, <2>3 DEF ExactlyOnce
  <2>5. QED BY <2>1, <2>4, OnceAfter
<1>8. CASE ShutdownFlush
  <2>1. Main \in Slots /\ job[Main].pc = "idle"
    BY <1>8 DEF ShutdownFlush, Slots, Consistent, MainIdle
  <2>2. /\ AfterStart("flush", buffer) \in {"queued", "insert", "save"}
        /\ AfterStart("flush", buffer) = "save" => buffer = {}
    BY DEF AfterStart
  <2>3. /\ Batch(Main) = {} /\ Batch(Main)' = buffer
        /\ \A k \in Slots \ {Main} : Batch(k)' = Batch(k)
    BY <1>8, <2>1, <2>2, SpawnMoves DEF ShutdownFlush
  <2>4. QED BY <1>3, <1>8, <2>1, <2>3 DEF ShutdownFlush, TakeBuffer
<1>9. CASE Exit \/ Terminate
  <2>1. Die BY <1>9 DEF Exit, Terminate
  <2>2. /\ buffer' = {} /\ rows' = rows /\ gone' = gone
        /\ lost' = lost \cup buffer \cup InFlight
    BY <2>1 DEF Die
  <2>3. InFlight' = {} /\ \A j \in Slots : Batch(j)' = {} BY <2>1, DieMoves
  <2>4. /\ rows' \cap (gone' \cup lost') = {}
        /\ gone' \cap lost' = {}
    BY <2>2 DEF ExactlyOnce
  <2>5. \A j, k \in Slots : j # k => Batch(j)' \cap Batch(k)' = {} BY <2>3
  <2>6. QED BY <2>2, <2>3, <2>4, <2>5 DEF ExactlyOnce
<1>10. CASE \/ UNCHANGED vars \/ Tick \/ Interrupt \/ MainReturns
            \/ RuntimeDrops \/ Restart
  <2>1. /\ buffer' = buffer /\ job' = job /\ rows' = rows
        /\ gone' = gone /\ lost' = lost
    BY <1>10 DEF vars, Tick, Interrupt, MainReturns, RuntimeDrops, Restart
  <2>2. \A k \in Slots : Batch(k)' = Batch(k) BY <2>1 DEF Batch
  <2>3. QED BY <2>1, <2>2, OnceSame DEF ExactlyOnce
<1>11. QED
  BY <1>2, <1>4, <1>5, <1>6, <1>7, <1>8, <1>9, <1>10 DEF Next

\* Initially nothing is anywhere.
LEMMA InitEmpty ==
    ASSUME Init
    PROVE  /\ buffer \cup InFlight = {} /\ rows = {} /\ gone \cup lost = {}
           /\ \A j \in Slots : Batch(j) = {}
<1>1. \A j \in Slots : Batch(j) = {} BY IdleType DEF Init, Batch
<1>2. InFlight = {} BY <1>1 DEF InFlight
<1>3. QED BY <1>1, <1>2 DEF Init

Kept == Consistent /\ ExactlyOnce

\* The first state has each message in one place.
LEMMA InitKept == ASSUME Init PROVE Kept
<1>1. Consistent BY InitConsistent
<1>2. ExactlyOnce BY InitEmpty DEF ExactlyOnce
<1>3. QED BY <1>1, <1>2 DEF Kept

\* So has every state after it.
LEMMA NextKept == ASSUME Kept, [Next]_vars PROVE Kept'
BY NextConsistent, NextOnce DEF Kept

\* A recorded message is in one place at a time, for ever: no interleaving of
\* flushes, requests, clears, database errors, shutdowns and kills stores one
\* twice or brings one back.
THEOREM MessagesKeptOnce == Spec => []ExactlyOnce
<1>1. Init => Kept BY InitKept
<1>2. Kept /\ [Next]_vars => Kept' BY NextKept
<1>3. Kept => ExactlyOnce BY DEF Kept
<1>4. QED BY <1>1, <1>2, <1>3, PTL DEF Spec

\* Tracking implements the abstract message log.
THEOREM TrackingImplementsLog == Spec => ImplementsLog
<1>1. Init => Kept BY InitKept
<1>2. Kept /\ [Next]_vars => Kept' BY NextKept
<1>3. Init => Log!LogInit BY InitEmpty DEF Log!LogInit
<1>4. Kept /\ [Next]_vars => [Log!LogNext]_(Log!logVars)
  BY StepRefines DEF Kept
<1>5. QED BY <1>1, <1>2, <1>3, <1>4, PTL DEF Spec, ImplementsLog, Log!LogSpec

-----------------------------------------------------------------------------
(* The history: messages keep their items, a reply to a history request is *)
(* complete, and the record limit holds when every flush has ended.        *)

\* Where a job is after a step of it: what it carries, it keeps.
Moved(old, new) ==
    new = Idle \/ /\ new.kind = old.kind /\ new.msgs = old.msgs /\ new.want = old.want

\* A job that moves on keeps its kind, its batch and what it wants, or is idle.
LEMMA GoMoves ==
    ASSUME job \in [Slots -> Job], NEW j \in Slots, NEW pc \in PCs, Go(j, pc)
    PROVE  /\ \A k \in Slots \ {j} : job'[k] = job[k]
           /\ Moved(job[j], job'[j])
           /\ job'[j].pc = pc
           /\ pc # "idle" => job'[j].page = job[j].page
<1>1. job[j] \in Job
    OBVIOUS
<1>2. CASE pc = "idle"
    BY <1>2, IdleType DEF Go, Moved
<1>3. CASE pc # "idle"
    BY <1>1, <1>3 DEF Go, Moved, Job
<1> QED BY <1>2, <1>3

\* A step of job j in terms of where it is before and after: rows only leave
\* the database for gone, and what an insert is to store is there after it.
LEMMA JobStepHistory ==
    ASSUME Typed, NEW j \in Slots, JobStep(j), faults' = 0
    PROVE  /\ \A k \in Slots \ {j} : job'[k] = job[k]
           /\ Moved(job[j], job'[j])
           /\ rows \cup gone \subseteq rows' \cup gone' /\ gone \subseteq gone'
           /\ job[j].pc = "insert" => job[j].msgs \subseteq rows'
           /\ job[j].pc = "queued" =>
                 job[j].kind \in {"reset", "wipe"} \/ job[j].msgs = {} \/ job'[j].pc = "insert"
           /\ job'[j].pc = "items" => job'[j].page = rows /\ job[j].pc = "page"
           /\ faults = 0 /\ UNCHANGED <<kills, phase>>
<1>0. /\ job \in [Slots -> Job] /\ job[j] \in Job /\ job[j].kind \in Kinds
      /\ faults \in Nat
    BY DEF Typed, TypeOK, Job
<1>1. CASE Start(j)
  <2>1. AfterStart(job[j].kind, job[j].msgs) \in PCs
      BY <1>0, NextPCs
  <2> QED BY <1>0, <1>1, <2>1, GoMoves DEF Start, AfterStart
<1>2. CASE Insert(j)
    BY <1>0, <1>2, GoMoves DEF Insert, PCs
<1>3. CASE InsertFails(j)
    BY <1>0, <1>3 DEF InsertFails
<1>4. CASE Save(j)
    BY <1>0, <1>4 DEF Save, Moved, Job, AfterSave
<1>5. CASE Expire(j)
  <2>1. AfterExpire \in PCs /\ AfterExpire \notin {"items", "insert"}
      BY DEF AfterExpire, PCs
  <2> QED BY <1>0, <1>5, <2>1, GoMoves DEF Expire, Delete
<1>6. CASE Count(j)
    BY <1>0, <1>6, IdleType DEF Count, Moved, Job
<1>7. CASE Trim(j)
    BY <1>0, <1>7, GoMoves DEF Trim, Delete, PCs
<1>8. CASE Tally(j)
    BY <1>0, <1>8 DEF Tally, Moved, Job
<1>9. CASE Page(j)
    BY <1>0, <1>9, IdleType DEF Page, Moved, Job
<1>10. CASE Items(j)
    BY <1>0, <1>10, GoMoves DEF Items, PCs
<1>11. CASE Zero(j)
  <2>1. AfterZero(job[j].kind) \in PCs /\ AfterZero(job[j].kind) \notin {"items", "insert"}
      BY DEF AfterZero, PCs
  <2> QED BY <1>0, <1>11, <2>1, GoMoves DEF Zero
<1>12. CASE Unlink(j)
    BY <1>0, <1>12, GoMoves DEF Unlink, PCs
<1>13. CASE Purge(j)
    BY <1>0, <1>13, GoMoves DEF Purge, Delete, PCs
<1>14. CASE StatementFails(j)
    BY <1>0, <1>14 DEF StatementFails
<1> QED
    BY <1>1, <1>2, <1>3, <1>4, <1>5, <1>6, <1>7, <1>8, <1>9, <1>10, <1>11,
       <1>12, <1>13, <1>14 DEF JobStep

-----------------------------------------------------------------------------
(* What a history request asked for is on its way to its reply: in the      *)
(* batch its job inserts first, or in the database, and then on the page.   *)

Wanted(j) ==
    /\ job[j].kind # "history" => job[j].want = {}
    /\ job[j].pc # "items" => job[j].want \subseteq rows \cup gone \cup Batch(j)
    /\ job[j].pc = "items" => job[j].want \subseteq job[j].page \cup gone

HInv == Typed /\ (faults = 0 => \A j \in Slots : Wanted(j))

\* A job that does not move keeps what it wants.
LEMMA WantedStays ==
    ASSUME NEW j \in Slots, Wanted(j), job'[j] = job[j],
           rows \cup gone \subseteq rows' \cup gone', gone \subseteq gone'
    PROVE  Wanted(j)'
BY DEF Wanted, Batch

\* An idle job wants nothing.
LEMMA IdleWanted ==
    ASSUME NEW j \in Slots, job'[j] = Idle
    PROVE  Wanted(j)'
BY DEF Wanted, Idle, NewJob

\* A new job replaces the one in slot i.
LEMMA SpawnWanted ==
    ASSUME HInv, faults = 0, NEW i \in Slots, NEW pc \in {"queued", "insert", "save", "zero"},
           NEW kind, NEW msgs, NEW s, NEW t, NEW want,
           job' = [job EXCEPT ![i] = NewJob(pc, kind, msgs, s, t, want)],
           rows' = rows, gone \subseteq gone',
           kind # "history" => want = {},
           want # {} => pc = "queued" /\ want \subseteq rows \cup msgs
    PROVE  \A j \in Slots : Wanted(j)'
<1> SUFFICES ASSUME NEW j \in Slots PROVE Wanted(j)'
    OBVIOUS
<1>1. job \in [Slots -> Job]
    BY DEF HInv, Typed, TypeOK
<1>2. CASE j # i
    BY <1>1, <1>2, WantedStays DEF HInv
<1>3. CASE j = i
  <2>1. /\ job'[j].pc = pc /\ job'[j].kind = kind
        /\ job'[j].msgs = msgs /\ job'[j].want = want
      BY <1>1, <1>3 DEF NewJob
  <2> QED BY <2>1 DEF Wanted, Batch
<1> QED BY <1>2, <1>3

\* Every step keeps what each history request wants among its page, the rows and what is
\* gone.
LEMMA NextHInv == HInv /\ [Next]_vars => HInv'
<1> SUFFICES ASSUME HInv, [Next]_vars PROVE HInv'
    OBVIOUS
<1>1. Typed /\ Typed'
    BY NextTyped DEF HInv
<1>2. faults \in Nat /\ job \in [Slots -> Job] /\ Main \in Slots /\ Jobs \subseteq Slots
    BY <1>1 DEF Typed, TypeOK, Slots
<1> SUFFICES ASSUME faults' = 0 PROVE \A j \in Slots : Wanted(j)'
    BY <1>1 DEF HInv
<1>3. ASSUME faults = 0, UNCHANGED <<job, rows, gone>> PROVE \A j \in Slots : Wanted(j)'
    BY <1>3, WantedStays DEF HInv
<1>4. CASE UNCHANGED vars
    BY <1>3, <1>4 DEF vars
<1>5. CASE Tick \/ Interrupt \/ MainReturns \/ RuntimeDrops
    BY <1>3, <1>5 DEF Tick, Interrupt, MainReturns, RuntimeDrops
<1>6. ASSUME NEW d \in Dispositions, Record(d) PROVE \A j \in Slots : Wanted(j)'
  <2>1. UNCHANGED <<rows, gone, faults>>
      BY <1>6 DEF Record
  <2>2. CASE UNCHANGED job
      BY <2>1, <2>2, <1>3
  <2>3. CASE job' # job
    <3>1. PICK j \in Jobs :
              job' = [job EXCEPT ![j] =
                        NewJob("queued", "flush", buffer \cup {now + 1}, stats', 0, {})]
        BY <1>6, <2>3 DEF Record
    <3>2. PICK s : s = stats'
        OBVIOUS
    <3>3. job' = [job EXCEPT ![j] =
                    NewJob("queued", "flush", buffer \cup {now + 1}, s, 0, {})]
        BY <3>1, <3>2
    <3> QED BY <2>1, <3>3, <1>2, SpawnWanted
  <2> QED BY <2>2, <2>3
<1>7. ASSUME NEW i \in Jobs, HistoryRequest(i) PROVE \A j \in Slots : Wanted(j)'
    BY <1>7, <1>2, SpawnWanted DEF HistoryRequest
<1>8. ASSUME NEW i \in Jobs, NEW kind \in {"reset", "wipe"}, ClearRequest(i, kind)
      PROVE  \A j \in Slots : Wanted(j)'
  <2>1. /\ job' = [job EXCEPT ![i] = NewJob("queued", kind, {}, Zeros, now, {})]
        /\ UNCHANGED <<rows, faults>> /\ gone \subseteq gone'
      BY <1>8 DEF ClearRequest
  <2> QED BY <2>1, <1>2, SpawnWanted
<1>9. ASSUME NEW i \in Slots, JobStep(i) PROVE \A j \in Slots : Wanted(j)'
  <2>1. /\ \A k \in Slots \ {i} : job'[k] = job[k]
        /\ Moved(job[i], job'[i])
        /\ rows \cup gone \subseteq rows' \cup gone' /\ gone \subseteq gone'
        /\ job[i].pc = "insert" => job[i].msgs \subseteq rows'
        /\ job[i].pc = "queued" =>
              job[i].kind \in {"reset", "wipe"} \/ job[i].msgs = {} \/ job'[i].pc = "insert"
        /\ job'[i].pc = "items" => job'[i].page = rows /\ job[i].pc = "page"
        /\ faults = 0
      BY <1>1, <1>9, JobStepHistory
  <2>2. \A j \in Slots : Wanted(j)
      BY <2>1 DEF HInv
  <2>3. \A j \in Slots \ {i} : Wanted(j)'
      BY <2>1, <2>2, WantedStays
  <2>4. CASE job'[i] = Idle
      BY <2>3, <2>4, IdleWanted
  <2>5. CASE job'[i] # Idle
    <3>1. job'[i].kind = job[i].kind /\ job'[i].msgs = job[i].msgs /\ job'[i].want = job[i].want
        BY <2>1, <2>5 DEF Moved
    <3>2. CASE job'[i].pc = "items"
        BY <2>1, <2>2, <3>1, <3>2 DEF Wanted, Batch
    <3>3. CASE job'[i].pc # "items"
      <4>1. CASE job[i].pc = "items"
          BY <1>9, <4>1, <2>5, <1>2, <2>1, GoMoves DEF JobStep, Start, Insert, InsertFails, Save,
             Expire, Count, Trim, Tally, Page, Items, Zero, Unlink, Purge, StatementFails, Go
      <4>2. CASE job[i].pc # "items"
          BY <2>1, <2>2, <3>1, <3>3, <4>2 DEF Wanted, Batch
      <4> QED BY <4>1, <4>2
    <3>4. Wanted(i)'
        BY <3>2, <3>3, <2>1, <2>2, <3>1 DEF Wanted
    <3> QED BY <2>3, <3>4
  <2> QED BY <2>4, <2>5
<1>10. ASSUME NEW i \in Jobs, Cancel(i) PROVE \A j \in Slots : Wanted(j)'
  <2>1. /\ job' = [job EXCEPT ![i] = Idle]
        /\ UNCHANGED <<rows, gone, faults>>
      BY <1>10 DEF Cancel, Go
  <2>2. \A j \in Slots : Wanted(j)
      BY <2>1 DEF HInv
  <2> QED BY <2>1, <2>2, <1>2, WantedStays, IdleWanted
<1>11. CASE ShutdownFlush
  <2>1. PICK pc : pc = AfterStart("flush", buffer)
      OBVIOUS
  <2>2. pc \in {"insert", "save"}
      BY <2>1 DEF AfterStart
  <2>3. /\ job' = [job EXCEPT ![Main] = NewJob(pc, "flush", buffer, stats, 0, {})]
        /\ UNCHANGED <<rows, gone, faults>>
      BY <1>11, <2>1 DEF ShutdownFlush
  <2> QED BY <2>2, <2>3, <1>2, SpawnWanted
<1>12. CASE Exit \/ Terminate
    BY <1>12, IdleWanted DEF Exit, Terminate, Die
<1>13. CASE Restart
    BY <1>13, <1>2, <1>3 DEF Restart
<1> QED
    BY <1>4, <1>5, <1>6, <1>7, <1>8, <1>9, <1>10, <1>11, <1>12, <1>13 DEF Next

\* As long as no database operation fails, the reply to a history request shows
\* all that was buffered or stored when it was asked for, or deleted since,
\* however many flushes, prunes and clears overlap it.
THEOREM HistoryIsComplete == Spec => []HistoryComplete
<1>1. Init => HInv
  <2> SUFFICES ASSUME Init PROVE HInv
      OBVIOUS
  <2>1. \A j \in Slots : job[j] = Idle
      BY DEF Init
  <2>2. \A j \in Slots : Wanted(j)
      BY <2>1 DEF Wanted, Idle, NewJob
  <2> QED BY <2>2, InitTyped DEF HInv
<1>2. HInv => HistoryComplete
    BY DEF HInv, Wanted, HistoryComplete
<1> QED BY <1>1, <1>2, NextHInv, PTL DEF Spec

-----------------------------------------------------------------------------
(* Messages and their items *)

\* Only the job of a clear deletes items first, and main's flush is no clear.
KindFits ==
    /\ \A j \in Slots : job[j].pc \in {"zero", "unlink", "purge"} =>
                           job[j].kind \in {"reset", "wipe"}
    /\ job[Main].kind = "flush"

WInv == Typed /\ WholeMessages /\ KindFits

\* A step of a job leaves no items without a row, and without faults each row its items.
LEMMA JobStepItems ==
    ASSUME Typed, items \subseteq rows, NEW j \in Slots, JobStep(j)
    PROVE  /\ items' \subseteq rows'
           /\ faults' = 0 /\ job[j].pc = "purge" => items' = rows'
           /\ faults' = 0 /\ items = rows /\ job'[j].pc # "purge" => items' = rows'
<1>0. job \in [Slots -> Job] /\ job[j] \in Job /\ faults \in Nat
    BY DEF Typed, TypeOK, Job
<1>1. CASE Insert(j)
    BY <1>1 DEF Insert
<1>2. CASE InsertFails(j)
    BY <1>0, <1>2 DEF InsertFails
<1>3. CASE Expire(j) \/ Trim(j) \/ Purge(j)
    BY <1>3 DEF Expire, Trim, Purge, Delete
<1>4. CASE Unlink(j)
  <2>1. job'[j].pc = "purge" /\ job[j].pc = "unlink" /\ items' = {}
      BY <1>0, <1>4, GoMoves DEF Unlink, PCs
  <2> QED BY <2>1
<1>5. CASE Start(j) \/ Save(j) \/ Count(j) \/ Tally(j) \/ Page(j) \/ Items(j) \/ Zero(j)
    BY <1>5 DEF Start, Save, Count, Tally, Page, Items, Zero
<1>6. CASE StatementFails(j)
    BY <1>0, <1>6 DEF StatementFails
<1> QED BY <1>1, <1>2, <1>3, <1>4, <1>5, <1>6 DEF JobStep

\* Only resets and wipes reach the statements that empty the tables.
LEMMA JobStepKind ==
    ASSUME Typed, NEW j \in Slots, JobStep(j), KindFits
    PROVE  KindFits'
<1>0. /\ job \in [Slots -> Job] /\ job[j] \in Job /\ job[j].kind \in Kinds
      /\ job[j].pc \in PCs /\ Main \in Slots
    BY DEF Typed, TypeOK, Job, Slots
<1>1. ASSUME NEW pc \in PCs, Go(j, pc),
             pc \in {"zero", "unlink", "purge"} => job[j].kind \in {"reset", "wipe"}
      PROVE  KindFits'
  <2>1. /\ \A k \in Slots \ {j} : job'[k] = job[k]
        /\ job'[j] = Idle \/ job'[j].kind = job[j].kind
        /\ job'[j].pc = pc
      BY <1>0, <1>1, GoMoves DEF Moved
  <2>2. Idle.kind = "flush" /\ Idle.pc = "idle"
      BY DEF Idle, NewJob
  <2> QED BY <1>0, <1>1, <2>1, <2>2 DEF KindFits
<1>2. ASSUME NEW new, job' = [job EXCEPT ![j] = new], new.kind = job[j].kind,
             new.pc \in {"zero", "unlink", "purge"} => job[j].kind \in {"reset", "wipe"}
      PROVE  KindFits'
    BY <1>0, <1>2 DEF KindFits
<1>3. CASE Start(j)
  <2>1. AfterStart(job[j].kind, job[j].msgs) \in PCs
      BY <1>0, NextPCs
  <2> QED BY <1>1, <1>3, <2>1 DEF Start, AfterStart
<1>4. CASE Insert(j) \/ InsertFails(j) \/ Trim(j) \/ Items(j) \/ Purge(j)
    BY <1>1, <1>4 DEF Insert, InsertFails, Trim, Items, Purge, PCs
<1>5. CASE Save(j)
  <2>1. PICK new : /\ job' = [job EXCEPT ![j] = new]
                   /\ new = [job[j] EXCEPT !.pc = AfterSave(job[j].kind), !.since = now]
      BY <1>5 DEF Save
  <2>2. new.kind = job[j].kind /\ new.pc \notin {"zero", "unlink", "purge"}
      BY <1>0, <2>1 DEF AfterSave, Job
  <2> QED BY <1>2, <2>1, <2>2
<1>6. CASE Expire(j)
  <2>1. AfterExpire \in {"count", "idle"} /\ {"count", "idle"} \subseteq PCs
      BY DEF AfterExpire, PCs
  <2> QED BY <1>1, <1>6, <2>1 DEF Expire
<1>7. CASE Count(j) \/ Tally(j) \/ Page(j)
  <2>1. PICK new : /\ job' = [job EXCEPT ![j] = new]
                   /\ \/ new = [job[j] EXCEPT !.pc = "trim", !.count = Cardinality(rows) - MaxRecords]
                      \/ new = [job[j] EXCEPT !.pc = "page", !.count = Cardinality(rows)]
                      \/ new = [job[j] EXCEPT !.pc = "items", !.page = rows]
                      \/ new = Idle
    <3>1. CASE Count(j)
        BY <3>1 DEF Count
    <3>2. CASE Tally(j)
        BY <3>2 DEF Tally
    <3>3. CASE Page(j)
        BY <3>3 DEF Page
    <3> QED BY <1>7, <3>1, <3>2, <3>3
  <2>2. CASE new = Idle
      BY <1>0, <2>1, <2>2 DEF KindFits, Idle, NewJob
  <2>3. CASE new # Idle
    <3>1. new.kind = job[j].kind /\ new.pc \in {"trim", "page", "items"}
        BY <1>0, <2>1, <2>3 DEF Job
    <3> QED BY <1>2, <2>1, <3>1
  <2> QED BY <2>2, <2>3
<1>8. CASE Zero(j)
  <2>1. AfterZero(job[j].kind) \in PCs /\ job[j].kind \in {"reset", "wipe"}
      BY <1>0, <1>8, NextPCs DEF Zero, KindFits
  <2> QED BY <1>1, <1>8, <2>1 DEF Zero
<1>9. CASE Unlink(j)
    BY <1>1, <1>9 DEF Unlink, KindFits, PCs
<1>10. CASE StatementFails(j)
  <2>1. PICK pc \in AfterFailure(job[j].kind, job[j].pc) :
            \/ pc = "idle" /\ Go(j, pc)
            \/ pc # "idle" /\ job' = [job EXCEPT ![j].pc = pc, ![j].since =
                                   IF job[j].pc = "save" THEN now ELSE @]
      BY <1>10 DEF StatementFails
  <2>2. pc \in PCs
      BY <1>0, <2>1, NextPCs
  <2>3. pc \in {"zero", "unlink", "purge"} => job[j].kind \in {"reset", "wipe"}
      BY <2>1, <1>0 DEF AfterFailure, AfterSave, AfterZero, AfterExpire, KindFits
  <2>4. CASE pc = "idle" /\ Go(j, pc)
      BY <1>1, <2>2, <2>4
  <2>5. CASE pc # "idle" /\ job' = [job EXCEPT ![j].pc = pc, ![j].since =
                                 IF job[j].pc = "save" THEN now ELSE @]
    <3>1. PICK new : /\ job' = [job EXCEPT ![j] = new]
                     /\ new = [job[j] EXCEPT !.pc = pc, !.since =
                                  IF job[j].pc = "save" THEN now ELSE @]
        BY <2>5
    <3>2. new.kind = job[j].kind /\ new.pc = pc
        BY <1>0, <3>1 DEF Job
    <3> QED BY <1>2, <2>3, <3>1, <3>2
  <2> QED BY <2>1, <2>4, <2>5
<1> QED
    BY <1>3, <1>4, <1>5, <1>6, <1>7, <1>8, <1>9, <1>10 DEF JobStep

\* A new or cancelled job is not one that deletes.
LEMMA SpawnKind ==
    ASSUME Typed, KindFits, NEW i \in Slots, NEW new,
           job' = [job EXCEPT ![i] = new], new.pc \notin {"zero", "unlink", "purge"},
           i # Main \/ new.kind = "flush"
    PROVE  KindFits' /\ \A j \in Slots : job'[j].pc = "purge" => job[j].pc = "purge"
BY DEF Typed, TypeOK, KindFits, Slots

\* Every step keeps the messages whole.
LEMMA NextWInv == WInv /\ [Next]_vars => WInv'
<1> SUFFICES ASSUME WInv, [Next]_vars PROVE WInv'
    OBVIOUS
<1>1. Typed /\ Typed' /\ WholeMessages /\ KindFits
    BY NextTyped DEF WInv
<1>2. /\ faults \in Nat /\ kills \in Nat /\ job \in [Slots -> Job] /\ Main \in Slots
      /\ Jobs \subseteq Slots /\ Main \notin Jobs
    BY <1>1, SlotsAssumption DEF Typed, TypeOK, Slots
<1> SUFFICES WholeMessages' /\ KindFits'
    BY <1>1 DEF WInv
\* A step that leaves the tables alone and ends no job at its purge.
<1>3. ASSUME UNCHANGED <<rows, items>>, faults' = 0 => faults = 0, kills' = 0 => kills = 0,
             \A j \in Slots : faults' = 0 /\ kills' = 0 /\ job[j].pc = "purge" => job'[j].pc = "purge"
      PROVE  WholeMessages'
    BY <1>1, <1>3 DEF WholeMessages
<1>4. CASE UNCHANGED vars
    BY <1>1, <1>3, <1>4 DEF vars, KindFits
<1>5. CASE Tick \/ Interrupt \/ MainReturns \/ RuntimeDrops
    BY <1>1, <1>3, <1>5 DEF Tick, Interrupt, MainReturns, RuntimeDrops, KindFits
<1>6. ASSUME NEW i \in Slots, NEW new, job' = [job EXCEPT ![i] = new],
             job[i].pc # "purge", new.pc \notin {"zero", "unlink", "purge"},
             i # Main \/ new.kind = "flush", UNCHANGED <<rows, items, faults, kills>>
      PROVE  WholeMessages' /\ KindFits'
    BY <1>1, <1>2, <1>3, <1>6, SpawnKind
<1>7. ASSUME NEW d \in Dispositions, Record(d) PROVE WholeMessages' /\ KindFits'
  <2>1. CASE UNCHANGED job
      BY <1>1, <1>3, <1>7, <2>1 DEF Record, KindFits
  <2>2. CASE job' # job
    <3>1. PICK j \in Jobs :
              /\ job[j].pc = "idle"
              /\ job' = [job EXCEPT ![j] =
                   NewJob("queued", "flush", buffer \cup {now + 1}, stats', 0, {})]
        BY <1>7, <2>2 DEF Record
    <3>2. PICK new : new = NewJob("queued", "flush", buffer \cup {now + 1}, stats', 0, {})
        OBVIOUS
    <3>3. new.pc = "queued" /\ job' = [job EXCEPT ![j] = new]
        BY <3>1, <3>2 DEF NewJob
    <3>4. UNCHANGED <<rows, items, faults, kills>>
        BY <1>7 DEF Record
    <3> QED BY <1>2, <1>6, <3>1, <3>3, <3>4
  <2> QED BY <2>1, <2>2
<1>8. ASSUME NEW i \in Jobs, HistoryRequest(i) PROVE WholeMessages' /\ KindFits'
  <2>1. PICK new : new = NewJob("queued", "history", buffer, stats, 0, buffer \cup rows)
      OBVIOUS
  <2>2. /\ new.pc = "queued" /\ job' = [job EXCEPT ![i] = new] /\ job[i].pc = "idle"
        /\ UNCHANGED <<rows, items, faults, kills>>
      BY <1>8, <2>1 DEF HistoryRequest, NewJob
  <2> QED BY <1>2, <1>6, <2>2
<1>9. ASSUME NEW i \in Jobs, NEW kind \in {"reset", "wipe"}, ClearRequest(i, kind)
      PROVE  WholeMessages' /\ KindFits'
  <2>1. PICK new : new = NewJob("queued", kind, {}, Zeros, now, {})
      OBVIOUS
  <2>2. /\ new.pc = "queued" /\ job' = [job EXCEPT ![i] = new] /\ job[i].pc = "idle"
        /\ UNCHANGED <<rows, items, faults, kills>>
      BY <1>9, <2>1 DEF ClearRequest, NewJob
  <2> QED BY <1>2, <1>6, <2>2
<1>10. ASSUME NEW i \in Slots, JobStep(i) PROVE WholeMessages' /\ KindFits'
  <2>1. KindFits'
      BY <1>1, <1>10, JobStepKind
  <2>2. /\ items' \subseteq rows'
        /\ faults' = 0 /\ job[i].pc = "purge" => items' = rows'
        /\ faults' = 0 /\ items = rows /\ job'[i].pc # "purge" => items' = rows'
      BY <1>1, <1>10, JobStepItems DEF WholeMessages
  <2>3. ASSUME faults' = 0, kills' = 0, \A j \in Slots : job'[j].pc # "purge",
               job[i].pc # "purge"
        PROVE  items = rows
    <3>1. faults = 0 /\ kills = 0 /\ \A k \in Slots \ {i} : job'[k] = job[k]
        BY <1>1, <1>10, <2>3, JobStepHistory
    <3> QED BY <1>1, <2>3, <3>1 DEF WholeMessages
  <2> QED BY <2>1, <2>2, <2>3 DEF WholeMessages
<1>11. ASSUME NEW i \in Jobs, Cancel(i) PROVE WholeMessages' /\ KindFits'
  <2>1. /\ job' = [job EXCEPT ![i] = Idle] /\ job[i].pc = "queued"
        /\ UNCHANGED <<rows, items, faults, kills>>
      BY <1>11 DEF Cancel, Go
  <2>2. Idle.pc = "idle" /\ Idle.kind = "flush"
      BY DEF Idle, NewJob
  <2> QED BY <1>2, <1>6, <2>1, <2>2
<1>12. CASE ShutdownFlush
  <2>1. PICK new : new = NewJob(AfterStart("flush", buffer), "flush", buffer, stats, 0, {})
      OBVIOUS
  <2>2. /\ new.pc \in {"insert", "save"} /\ new.kind = "flush"
        /\ job' = [job EXCEPT ![Main] = new]
        /\ UNCHANGED <<rows, items, faults, kills>>
      BY <1>12, <2>1 DEF ShutdownFlush, NewJob, AfterStart
  <2>3. job[Main].pc # "purge"
      BY <1>1, <1>2 DEF KindFits
  <2> QED BY <1>2, <1>6, <2>2, <2>3
<1>13. CASE Exit \/ Terminate
  <2>1. /\ job' = [j \in Slots |-> Idle] /\ UNCHANGED <<rows, items, faults>>
        /\ kills' = 0 => kills = 0
      BY <1>2, <1>13 DEF Exit, Terminate, Die
  <2>2. KindFits'
      BY <1>2, <2>1 DEF KindFits, Idle, NewJob
  <2>3. CASE Terminate
    <3>1. kills' # 0
        BY <1>2, <2>3 DEF Terminate
    <3> QED BY <1>1, <2>1, <2>2, <3>1 DEF WholeMessages
  <2>4. CASE Exit
    <3>1. \A j \in Slots : job[j].pc # "purge"
        BY <1>1, <2>4 DEF Exit, KindFits, Slots
    <3> QED BY <1>3, <2>1, <2>2, <3>1
  <2> QED BY <1>13, <2>3, <2>4
<1>14. CASE Restart
    BY <1>1, <1>2, <1>3, <1>14 DEF Restart, KindFits
<1> QED
    BY <1>4, <1>5, <1>7, <1>8, <1>9, <1>10, <1>11, <1>12, <1>13, <1>14 DEF Next

\* No item outlives its message, and unless a database operation failed, the
\* process was killed or a wipe is between its two DELETEs, every message has
\* its items.
THEOREM MessagesStayWhole == Spec => []WholeMessages
<1>1. Init => WInv
  <2> SUFFICES ASSUME Init PROVE WInv
      OBVIOUS
  <2>1. WholeMessages /\ KindFits
      BY DEF Init, WholeMessages, KindFits, Idle, NewJob, Slots
  <2> QED BY <2>1, InitTyped DEF WInv
<1>2. WInv => WholeMessages
    BY DEF WInv
<1> QED BY <1>1, <1>2, NextWInv, PTL DEF Spec
-----------------------------------------------------------------------------
(* The record limit                                                        *)

\* Without its n oldest messages a table that had at most n + limit of them
\* has at most limit.
LEMMA OldestTrimmed ==
    ASSUME NEW S \in SUBSET Nat, IsFiniteSet(S), NEW n \in Nat, NEW limit \in Nat,
           Cardinality(S) <= n + limit
    PROVE  Cardinality(S \ Oldest(S, n)) <= limit
<1> DEFINE U == S \ Oldest(S, n)
<1>1. IsFiniteSet(U) /\ U \in SUBSET Nat
    BY FS_Subset
<1>2. CASE U = {}
    BY <1>2, FS_EmptySet
<1>3. CASE U # {}
  <2>1. PICK u \in U : \A k \in U : u <= k
      BY <1>1, <1>3, LeastNumber
  <2> DEFINE Below == {k \in S : k < u}
  <2>2. IsFiniteSet(Below) /\ Cardinality(Below) \in Nat /\ Cardinality(U) \in Nat
        /\ Cardinality(S) \in Nat
      BY <1>1, FS_Subset, FS_CardinalityType
  <2>3. ~(Cardinality(Below) < n)
      BY DEF Oldest
  <2>4. Below \cap U = {}
    <3>1. ASSUME NEW k \in Below, k \in U PROVE FALSE
      <4>1. k \in Nat /\ u \in Nat /\ k < u /\ u <= k
          BY <1>1, <2>1, <3>1
      <4> QED BY <4>1
    <3> QED BY <3>1
  <2>5. Below \cup U \in SUBSET S
      OBVIOUS
  <2> HIDE DEF U, Below
  <2>6. Cardinality(Below \cup U) = Cardinality(Below) + Cardinality(U)
      BY <1>1, <2>2, <2>4, FS_Union, FS_EmptySet
  <2>7. Cardinality(Below \cup U) <= Cardinality(S)
      BY <2>5, FS_Subset
  <2> QED BY <2>2, <2>3, <2>6, <2>7 DEF U
<1> QED BY <1>2, <1>3

\* Job j has still to look whether there are too many rows, or has and is
\* going to delete what was too many.
Prunes(j) ==
    \/ job[j].pc \in {"save", "expire", "count"}
    \/ job[j].pc = "trim" /\ Cardinality(rows) <= job[j].count + MaxRecords

\* Nobody asks for the history, and a clear writes no messages.
FlushOnly(j) ==
    /\ job[j].kind # "history"
    /\ job[j].kind # "flush" => job[j].pc \in {"queued", "zero", "unlink", "purge"}

Pruned == Cardinality(rows) <= MaxRecords \/ \E j \in Slots : Prunes(j)

CInv ==
    /\ Consistent
    /\ (faults = 0 /\ kills = 0 /\ MaxRecords > 0)
          => Pruned /\ \A j \in Slots : FlushOnly(j)

\* The rows are a finite set of messages.
LEMMA RowsFinite ==
    ASSUME Typed
    PROVE  IsFiniteSet(rows) /\ rows \in SUBSET Nat /\ Cardinality(rows) \in Nat
<1>1. IsFiniteSet(1..now)
    BY FS_Interval DEF Typed, TypeOK
<1> QED BY <1>1, FS_Subset, FS_CardinalityType DEF Typed, TypeOK, Past

\* Nothing is added, and who was to prune still is.
LEMMA PrunedStays ==
    ASSUME Typed, Pruned, rows' \subseteq rows,
           \A j \in Slots : Prunes(j) =>
               job'[j] = job[j] \/ job'[j].pc \in {"save", "expire", "count"}
    PROVE  Pruned'
<1>1. IsFiniteSet(rows) /\ rows' \in SUBSET rows /\ Cardinality(rows) \in Nat
    BY RowsFinite
<1>2. Cardinality(rows') \in Nat /\ Cardinality(rows') <= Cardinality(rows)
    BY <1>1, FS_Subset, FS_CardinalityType
<1>3. CASE Cardinality(rows) <= MaxRecords
    BY <1>1, <1>2, <1>3, ConfigAssumption DEF Pruned
<1>4. ASSUME NEW j \in Slots, Prunes(j) PROVE Prunes(j)'
  <2>1. job[j].count \in Nat
      BY DEF Typed, TypeOK, Job
  <2> QED BY <1>1, <1>2, <1>4, <2>1, ConfigAssumption DEF Prunes
<1> QED BY <1>3, <1>4 DEF Pruned

\* A step of a job keeps the rows within the limit, or a job that will prune them.
LEMMA JobStepPrunes ==
    ASSUME Typed, Pruned, NEW j \in Slots, FlushOnly(j), JobStep(j), faults' = 0,
           MaxRecords > 0
    PROVE  Pruned' /\ FlushOnly(j)'
<1>0. /\ job \in [Slots -> Job] /\ job[j] \in Job /\ job[j].kind \in Kinds
      /\ faults \in Nat
    BY DEF Typed, TypeOK, Job
<1>1. /\ \A k \in Slots \ {j} : job'[k] = job[k]
      /\ Moved(job[j], job'[j])
    BY JobStepHistory
<1>2. ASSUME Prunes(j)', Moved(job[j], job'[j]), job[j].kind = "flush"
      PROVE  Pruned' /\ FlushOnly(j)'
    BY <1>2, IdleKind DEF Pruned, FlushOnly, Moved
<1>3. ASSUME rows' \subseteq rows, ~Prunes(j),
             \/ job'[j] = Idle
             \/ job[j].kind = "flush"
             \/ job'[j].pc \in {"zero", "unlink", "purge"}
      PROVE  Pruned' /\ FlushOnly(j)'
  <2>1. Pruned'
      BY <1>1, <1>3, PrunedStays
  <2>2. FlushOnly(j)'
      BY <1>1, <1>3, IdleKind DEF FlushOnly, Moved
  <2> QED BY <2>1, <2>2
<1>4. CASE Start(j)
  <2> DEFINE pc == AfterStart(job[j].kind, job[j].msgs)
  <2>1. pc \in PCs
      BY <1>0, NextPCs
  <2>2. job[j].pc = "queued" /\ rows' = rows /\ job'[j].pc = pc
      BY <1>0, <1>4, <2>1, GoMoves DEF Start
  <2>3. job[j].kind = "flush" \/ pc = "zero"
      BY <1>0 DEF AfterStart, FlushOnly, Kinds
  <2> QED BY <1>3, <2>2, <2>3 DEF Prunes
<1>5. CASE Insert(j)
  <2>1. job'[j].pc = "save" /\ job[j].pc = "insert"
      BY <1>0, <1>5, GoMoves DEF Insert, PCs
  <2> QED BY <1>1, <1>2, <2>1 DEF Prunes, FlushOnly
<1>6. CASE InsertFails(j) \/ StatementFails(j)
    BY <1>0, <1>6 DEF InsertFails, StatementFails
<1>7. CASE Save(j)
  <2>1. job[j].kind = "flush" /\ job'[j].pc = AfterSave(job[j].kind)
      BY <1>0, <1>7 DEF Save, FlushOnly, Job
  <2> QED BY <1>1, <1>2, <2>1 DEF Prunes, AfterSave
<1>8. CASE Expire(j)
  <2>1. AfterExpire = "count" /\ "count" \in PCs
      BY DEF AfterExpire, PCs
  <2>2. job[j].kind = "flush" /\ job'[j].pc = "count"
      BY <1>0, <1>8, <2>1, GoMoves DEF Expire, FlushOnly
  <2> QED BY <1>1, <1>2, <2>2 DEF Prunes
<1>9. CASE Count(j)
  <2> DEFINE n == Cardinality(rows)
  <2>1. n \in Nat /\ rows' = rows /\ job[j].kind = "flush"
      BY <1>9, RowsFinite DEF Count, FlushOnly
  <2>2. CASE n > MaxRecords
    <3>1. job'[j].pc = "trim" /\ job'[j].count = n - MaxRecords
        BY <1>0, <1>9, <2>2 DEF Count, Job
    <3>2. Prunes(j)'
      <4> HIDE DEF n
      <4>1. n <= (n - MaxRecords) + MaxRecords
          BY <2>1, ConfigAssumption
      <4> QED BY <2>1, <3>1, <4>1 DEF Prunes, n
    <3> QED BY <1>1, <1>2, <2>1, <3>2
  <2>3. CASE ~(n > MaxRecords)
    <3>1. Pruned'
        BY <2>1, <2>3, ConfigAssumption DEF Pruned
    <3> QED BY <1>1, <2>1, <3>1, IdleKind DEF FlushOnly, Moved
  <2> QED BY <2>2, <2>3
<1>10. CASE Trim(j)
  <2>1. /\ job[j].count \in Nat /\ job[j].pc = "trim" /\ job[j].kind = "flush"
        /\ rows' = rows \ Oldest(rows, job[j].count)
      BY <1>0, <1>10 DEF Trim, Delete, Job, FlushOnly
  <2>2. CASE Cardinality(rows) <= job[j].count + MaxRecords
    <3>1. Cardinality(rows') <= MaxRecords
        BY <2>1, <2>2, RowsFinite, OldestTrimmed, ConfigAssumption
    <3> QED BY <1>1, <2>1, <3>1, IdleKind DEF Pruned, FlushOnly, Moved
  <2>3. CASE ~(Cardinality(rows) <= job[j].count + MaxRecords)
      BY <1>3, <2>1, <2>3 DEF Prunes
  <2> QED BY <2>2, <2>3
<1>11. CASE Tally(j) \/ Page(j) \/ Items(j)
    BY <1>3, <1>11 DEF Tally, Page, Items, Prunes, FlushOnly
<1>12. CASE Zero(j)
  <2>1. AfterZero(job[j].kind) \in PCs
      BY <1>0, NextPCs
  <2>2. job'[j].pc = AfterZero(job[j].kind) /\ job[j].pc = "zero" /\ rows' = rows
      BY <1>0, <1>12, <2>1, GoMoves DEF Zero
  <2>3. AfterZero(job[j].kind) # "idle" => AfterZero(job[j].kind) = "unlink"
      BY DEF AfterZero
  <2>4. AfterZero(job[j].kind) = "idle" => job'[j] = Idle
      BY <1>0, <1>12 DEF Zero, Go
  <2> QED BY <1>3, <2>2, <2>3, <2>4 DEF Prunes
<1>13. CASE Unlink(j)
  <2>1. job'[j].pc = "purge" /\ job[j].pc = "unlink" /\ rows' = rows
      BY <1>0, <1>13, GoMoves DEF Unlink, PCs
  <2> QED BY <1>3, <2>1 DEF Prunes
<1>14. CASE Purge(j)
  <2>1. job'[j] = Idle /\ job[j].pc = "purge" /\ rows' \subseteq rows
      BY <1>0, <1>14 DEF Purge, Delete, Go
  <2> QED BY <1>3, <2>1 DEF Prunes
<1> QED
    BY <1>4, <1>5, <1>6, <1>7, <1>8, <1>9, <1>10, <1>11, <1>12, <1>13, <1>14 DEF JobStep

\* So does every step, when no history is asked for.
LEMMA NextCInv ==
    ASSUME CInv, [Next]_vars, "history" \notin Requests
    PROVE  CInv'
<1>1. Consistent /\ Consistent' /\ Typed
    BY NextConsistent DEF CInv, Consistent
<1>2. /\ faults \in Nat /\ kills \in Nat /\ job \in [Slots -> Job] /\ Main \in Slots
      /\ Jobs \subseteq Slots
    BY <1>1 DEF Typed, TypeOK, Slots
<1> SUFFICES ASSUME faults' = 0, kills' = 0, MaxRecords > 0
             PROVE  Pruned' /\ \A j \in Slots : FlushOnly(j)'
    BY <1>1 DEF CInv
<1>3. ASSUME faults = 0, kills = 0 PROVE Pruned /\ \A j \in Slots : FlushOnly(j)
    BY <1>3 DEF CInv
\* Neither the rows nor the jobs change.
<1>4. ASSUME UNCHANGED <<job, rows, faults, kills>>
      PROVE  Pruned' /\ \A j \in Slots : FlushOnly(j)'
    BY <1>1, <1>3, <1>4, PrunedStays DEF FlushOnly
\* Another job takes a slot whose job was not pruning.
<1>5. ASSUME NEW i \in Slots, NEW new, job' = [job EXCEPT ![i] = new],
             UNCHANGED <<rows, faults, kills>>, job[i].pc \in {"idle", "queued"},
             new.kind # "history",
             new.kind # "flush" => new.pc \in {"queued", "zero", "unlink", "purge"}
      PROVE  Pruned' /\ \A j \in Slots : FlushOnly(j)'
  <2>1. job'[i] = new /\ \A j \in Slots \ {i} : job'[j] = job[j]
      BY <1>2, <1>5
  <2>2. ~Prunes(i)
      BY <1>5 DEF Prunes
  <2>3. Pruned'
      BY <1>1, <1>3, <1>5, <2>1, <2>2, PrunedStays
  <2> QED BY <1>3, <1>5, <2>1, <2>3 DEF FlushOnly
<1>6. CASE UNCHANGED vars
    BY <1>4, <1>6 DEF vars
<1>7. CASE Tick \/ Interrupt \/ MainReturns \/ RuntimeDrops
    BY <1>4, <1>7 DEF Tick, Interrupt, MainReturns, RuntimeDrops
<1>8. ASSUME NEW d \in Dispositions, Record(d)
      PROVE  Pruned' /\ \A j \in Slots : FlushOnly(j)'
  <2>1. CASE UNCHANGED job
      BY <1>4, <1>8, <2>1 DEF Record
  <2>2. CASE job' # job
    <3>1. PICK j \in Jobs :
              /\ job[j].pc = "idle"
              /\ job' = [job EXCEPT ![j] =
                   NewJob("queued", "flush", buffer \cup {now + 1}, stats', 0, {})]
        BY <1>8, <2>2 DEF Record
    <3>2. PICK new : new = NewJob("queued", "flush", buffer \cup {now + 1}, stats', 0, {})
        OBVIOUS
    <3>3. new.kind = "flush" /\ job' = [job EXCEPT ![j] = new]
        BY <3>1, <3>2 DEF NewJob
    <3>4. UNCHANGED <<rows, faults, kills>>
        BY <1>8 DEF Record
    <3> QED BY <1>2, <1>5, <3>1, <3>3, <3>4
  <2> QED BY <2>1, <2>2
<1>9. ASSUME NEW i \in Jobs, HistoryRequest(i) PROVE FALSE
    BY <1>9 DEF HistoryRequest
<1>10. ASSUME NEW i \in Jobs, NEW kind \in {"reset", "wipe"}, ClearRequest(i, kind)
       PROVE  Pruned' /\ \A j \in Slots : FlushOnly(j)'
  <2>1. PICK new : new = NewJob("queued", kind, {}, Zeros, now, {})
      OBVIOUS
  <2>2. /\ new.pc = "queued" /\ new.kind # "history"
        /\ job' = [job EXCEPT ![i] = new] /\ job[i].pc = "idle"
        /\ UNCHANGED <<rows, faults, kills>>
      BY <1>10, <2>1 DEF ClearRequest, NewJob
  <2> QED BY <1>2, <1>5, <2>2
<1>11. ASSUME NEW i \in Slots, JobStep(i)
       PROVE  Pruned' /\ \A j \in Slots : FlushOnly(j)'
  <2>1. /\ \A k \in Slots \ {i} : job'[k] = job[k]
        /\ faults = 0 /\ UNCHANGED <<kills, phase>>
      BY <1>1, <1>11, JobStepHistory
  <2>2. Pruned /\ \A j \in Slots : FlushOnly(j)
      BY <1>3, <2>1
  <2>3. Pruned' /\ FlushOnly(i)'
      BY <1>1, <1>11, <2>2, JobStepPrunes
  <2> QED BY <2>1, <2>2, <2>3 DEF FlushOnly
<1>12. ASSUME NEW i \in Jobs, Cancel(i)
       PROVE  Pruned' /\ \A j \in Slots : FlushOnly(j)'
  <2>1. /\ job' = [job EXCEPT ![i] = Idle] /\ job[i].pc = "queued"
        /\ UNCHANGED <<rows, faults, kills>>
      BY <1>12 DEF Cancel, Go
  <2> QED BY <1>2, <1>5, <2>1, IdleKind
<1>13. CASE ShutdownFlush
  <2>1. PICK new : new = NewJob(AfterStart("flush", buffer), "flush", buffer, stats, 0, {})
      OBVIOUS
  <2>2. /\ new.kind = "flush" /\ job' = [job EXCEPT ![Main] = new]
        /\ UNCHANGED <<rows, faults, kills>>
      BY <1>13, <2>1 DEF ShutdownFlush, NewJob
  <2>3. job[Main].pc = "idle"
      BY <1>1, <1>13 DEF Consistent, MainIdle, ShutdownFlush
  <2> QED BY <1>2, <1>5, <2>2, <2>3
\* When the process ends by itself no job is left.
<1>14. CASE Exit
  <2>1. \A j \in Slots : job[j].pc = "idle"
      BY <1>1, <1>14 DEF Exit, Consistent, MainIdle, Slots
  <2>2. job' = [j \in Slots |-> Idle] /\ UNCHANGED <<rows, faults, kills>>
      BY <1>14 DEF Exit, Die
  <2>3. Pruned'
      BY <1>1, <1>3, <2>1, <2>2, PrunedStays DEF Prunes
  <2> QED BY <2>2, <2>3, IdleKind DEF FlushOnly
<1>15. CASE Terminate
    BY <1>2, <1>15 DEF Terminate
<1>16. CASE Restart
    BY <1>2, <1>4, <1>16 DEF Restart
<1> QED
    BY <1>6, <1>7, <1>8, <1>9, <1>10, <1>11, <1>12, <1>13, <1>14, <1>15, <1>16 DEF Next

\* As long as nobody asks for the history, no database operation has failed and
\* the process was not killed, the table is within max_records whenever no
\* flush is under way, however the inserts, counts and deletes of any number of
\* flushes interleaved: the last to insert has counted after all of them.
THEOREM RecordLimitKept ==
    ASSUME "history" \notin Requests
    PROVE  Spec => [](faults = 0 /\ kills = 0 => CappedWhenQuiet)
<1>1. Init => CInv
  <2> SUFFICES ASSUME Init PROVE CInv
      OBVIOUS
  <2>1. Cardinality(rows) <= MaxRecords
      BY FS_EmptySet, ConfigAssumption DEF Init
  <2>2. \A j \in Slots : FlushOnly(j)
      BY IdleKind DEF Init, FlushOnly
  <2> QED BY <2>1, <2>2, InitConsistent DEF CInv, Pruned
<1>2. CInv => (faults = 0 /\ kills = 0 => CappedWhenQuiet)
    BY DEF CInv, Pruned, Prunes, CappedWhenQuiet
<1>3. CInv /\ [Next]_vars => CInv'
    BY NextCInv
<1> QED BY <1>1, <1>2, <1>3, PTL DEF Spec

==============================================================================
