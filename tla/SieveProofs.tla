----------------------------- MODULE SieveProofs -----------------------------
(***************************************************************************)
(* Theorems about the daemon as a whole (Sieve), from what is proved of    *)
(* its two parts: every packet is in one place, recorded in order, and     *)
(* counted as what happened to it, and the daemon is a message log.        *)
(***************************************************************************)
EXTENDS Sieve, FiniteSetTheorems, TLAPS

RP == INSTANCE ReflectorProofs
TP == INSTANCE TrackingProofs WITH
          Requests <- {},
          Dispositions <- {"forwarded", "partially_forwarded", "dropped"}

-----------------------------------------------------------------------------
(* The parts, as Sieve names them and as their proofs do *)

\* Names compare alike under both names.
LEMMA SameNames ==
    /\ R!Char = RP!Char /\ R!Text = RP!Text /\ R!Unknown = RP!Unknown
    /\ R!SmallSigmas = RP!SmallSigmas /\ R!Sigma = RP!Sigma /\ R!Dot = RP!Dot
    /\ R!Newline = RP!Newline
    /\ \A text : R!Canon(text) = RP!Canon(text)
<1>1. /\ R!Char = RP!Char /\ R!Text = RP!Text /\ R!Unknown = RP!Unknown
      /\ R!SmallSigmas = RP!SmallSigmas /\ R!Sigma = RP!Sigma /\ R!Dot = RP!Dot
      /\ R!Newline = RP!Newline
    BY DEF R!Char, RP!Char, R!Text, RP!Text, R!Unknown, RP!Unknown, R!SmallSigmas,
           RP!SmallSigmas, R!Sigma, RP!Sigma, R!Dot, RP!Dot, R!Newline, RP!Newline
<1>2. ASSUME NEW text, NEW k PROVE R!LowerAt(text, k) = RP!LowerAt(text, k)
  <2>1. R!FinalSigma(text, k) <=> RP!FinalSigma(text, k)
      BY DEF R!FinalSigma, RP!FinalSigma
  <2> QED BY <1>1, <2>1 DEF R!LowerAt, RP!LowerAt
<1>3. \A text : R!Lower(text) = RP!Lower(text)
    BY <1>2 DEF R!Lower, RP!Lower
<1>4. \A text : R!Trim(text) = RP!Trim(text)
    BY <1>1 DEF R!Trim, RP!Trim
<1> QED BY <1>1, <1>3, <1>4 DEF R!Canon, RP!Canon

\* The rules decide alike under both names.
LEMMA SameRules ==
    /\ \A cfg, src, dst, item, response :
          R!ShouldForwardItem(cfg, src, dst, item, response)
             = RP!ShouldForwardItem(cfg, src, dst, item, response)
    /\ \A cfg, src, dst, qs, as :
          R!ShouldForward(cfg, src, dst, qs, as) = RP!ShouldForward(cfg, src, dst, qs, as)
    /\ \A f : R!Load(f) = RP!Load(f)
<1>1. \A regex, text : R!IsMatch(regex, text) = RP!IsMatch(regex, text)
    BY SameNames DEF R!Accepts, RP!Accepts, R!IsMatch, RP!IsMatch
<1>2. \A pattern : R!Regex(pattern) = RP!Regex(pattern)
    BY DEF R!Star, RP!Star, R!Mark, RP!Mark, R!Token, RP!Token, R!Regex, RP!Regex
<1>3. \A f : R!Load(f) = RP!Load(f)
    BY <1>2, SameNames DEF R!FromConfig, RP!FromConfig, R!Load, RP!Load
<1>4. \A r, qs, as : R!MatchesPacket(r, qs, as) <=> RP!MatchesPacket(r, qs, as)
    BY <1>1, SameNames
    DEF R!TargetNames, RP!TargetNames, R!MatchesPacket, RP!MatchesPacket
<1>5. \A r, src, dst : R!AppliesTo(r, src, dst) <=> RP!AppliesTo(r, src, dst)
    BY DEF R!AppliesTo, RP!AppliesTo
<1>6. ASSUME NEW cfg, NEW src, NEW dst, NEW qs, NEW as
      PROVE  R!ShouldForward(cfg, src, dst, qs, as) = RP!ShouldForward(cfg, src, dst, qs, as)
  <2>1. {i \in DOMAIN cfg.rules : /\ R!AppliesTo(cfg.rules[i], src, dst)
                                  /\ R!MatchesPacket(cfg.rules[i], qs, as)}
           = {i \in DOMAIN cfg.rules : /\ RP!AppliesTo(cfg.rules[i], src, dst)
                                       /\ RP!MatchesPacket(cfg.rules[i], qs, as)}
      BY <1>4, <1>5, Zenon
  <2>2. \A rules, hits, otherwise :
            R!Decide(rules, hits, otherwise) = RP!Decide(rules, hits, otherwise)
      BY DEF R!Decide, RP!Decide
  <2> QED BY <2>1, <2>2, Zenon DEF R!ShouldForward, RP!ShouldForward
<1>7. ASSUME NEW cfg, NEW src, NEW dst, NEW names
      PROVE  R!KnownAnswerRules(cfg, src, dst, names)
                = RP!KnownAnswerRules(cfg, src, dst, names)
  <2>1. \A i : (R!AppliesTo(cfg.rules[i], dst, src) \/ R!AppliesTo(cfg.rules[i], src, dst))
                <=> (RP!AppliesTo(cfg.rules[i], dst, src)
                       \/ RP!AppliesTo(cfg.rules[i], src, dst))
      BY <1>5, Zenon
  <2>2. \A i : R!MatchesPacket(cfg.rules[i], {}, names)
                <=> RP!MatchesPacket(cfg.rules[i], {}, names)
      BY <1>4, Zenon
  <2> QED BY <2>1, <2>2 DEF R!KnownAnswerRules, RP!KnownAnswerRules
<1>8. ASSUME NEW cfg, NEW src, NEW dst, NEW names, NEW response
      PROVE  R!ShouldForwardRecord(cfg, src, dst, names, response)
                = RP!ShouldForwardRecord(cfg, src, dst, names, response)
  <2>1. \A rules, hits, otherwise :
            R!Decide(rules, hits, otherwise) = RP!Decide(rules, hits, otherwise)
      BY DEF R!Decide, RP!Decide
  <2>2. R!Decide(cfg.rules, R!KnownAnswerRules(cfg, src, dst, names), FALSE)
           = RP!Decide(cfg.rules, RP!KnownAnswerRules(cfg, src, dst, names), FALSE)
      BY <1>7, <2>1
  <2>3. R!ShouldForward(cfg, src, dst, {}, names) = RP!ShouldForward(cfg, src, dst, {}, names)
      BY <1>6
  <2> QED BY <2>2, <2>3, Zenon DEF R!ShouldForwardRecord, RP!ShouldForwardRecord
<1>9. \A cfg, src, dst, item, response :
          R!ShouldForwardItem(cfg, src, dst, item, response)
             = RP!ShouldForwardItem(cfg, src, dst, item, response)
    BY <1>6, <1>8, Zenon
    DEF R!ShouldForwardQuestion, RP!ShouldForwardQuestion, R!ShouldForwardItem,
        RP!ShouldForwardItem
<1> QED BY <1>3, <1>6, <1>9

\* The reflector composed here is the one the proofs instantiated here are about.
LEMMA SameReflector ==
    /\ R!Init <=> RP!Init
    /\ \A i \in Interfaces : (R!Receive(i) <=> RP!Receive(i)) /\ (R!Enqueue(i) <=> RP!Enqueue(i))
    /\ R!Take <=> RP!Take
    /\ \A dst \in Interfaces : R!RouteTo(dst) <=> RP!RouteTo(dst)
    /\ R!Record <=> RP!Record
    /\ R!Disposition(routing) = RP!Disposition(routing)
<1>1. R!Init <=> RP!Init
    BY SameRules DEF R!Init, RP!Init
<1>2. \A i \in Interfaces : (R!Receive(i) <=> RP!Receive(i)) /\ (R!Enqueue(i) <=> RP!Enqueue(i))
    BY Zenon DEF R!Receive, RP!Receive, R!Enqueue, RP!Enqueue
<1>3. R!Take <=> RP!Take
    BY DEF R!Take, RP!Take, R!Destinations, RP!Destinations, R!Routable, RP!Routable, R!NoRoute,
           RP!NoRoute, R!Items, RP!Items
<1>4. \A dst \in Interfaces : R!RouteTo(dst) <=> RP!RouteTo(dst)
  <2>1. /\ \A m, dst : R!KeptItems(m, dst) = RP!KeptItems(m, dst)
        /\ \A m, dst : R!KeptWhole(m, dst) = RP!KeptWhole(m, dst)
      BY SameRules
      DEF R!KeptItems, RP!KeptItems, R!KeptWhole, RP!KeptWhole, R!Items, RP!Items,
          R!NamesOf, RP!NamesOf
  <2>2. /\ \A m, dst, kept : R!Send(m, dst, kept) <=> RP!Send(m, dst, kept)
        /\ \A kept, dst : R!Route(kept, dst) = RP!Route(kept, dst)
        /\ \A m : R!Items(m) = RP!Items(m)
      BY DEF R!Send, RP!Send, R!Route, RP!Route, R!Items, RP!Items
  <2> QED BY <2>1, <2>2 DEF R!RouteTo, RP!RouteTo
<1>5. R!Record <=> RP!Record
    BY DEF R!Record, RP!Record, R!Disposition, RP!Disposition, R!ItemDisposition,
           RP!ItemDisposition
<1>6. R!Disposition(routing) = RP!Disposition(routing)
    BY DEF R!Disposition, RP!Disposition, R!ItemDisposition, RP!ItemDisposition
<1> QED BY <1>1, <1>2, <1>3, <1>4, <1>5, <1>6

\* So is the tracking manager.
LEMMA SameTracking ==
    /\ T!Init <=> TP!Init
    /\ T!Slots = TP!Slots /\ T!InFlight = TP!InFlight /\ T!AllDispositions = TP!AllDispositions
    /\ \A d : T!Record(d) <=> TP!Record(d)
    /\ \A j : T!JobStep(j) <=> TP!JobStep(j)
    /\ T!Interrupt <=> TP!Interrupt
    /\ T!ShutdownFlush <=> TP!ShutdownFlush
    /\ T!MainReturns <=> TP!MainReturns
    /\ T!RuntimeDrops <=> TP!RuntimeDrops
    /\ T!Exit <=> TP!Exit
    /\ T!Terminate <=> TP!Terminate
    /\ \A j : T!Cancel(j) <=> TP!Cancel(j)
BY DEF T!Init, TP!Init, T!manager, TP!manager, T!database, TP!database, T!history,
       TP!history, T!counters, TP!counters, T!AllDispositions, TP!AllDispositions,
       T!Slots, TP!Slots, T!Zeros, TP!Zeros, T!NewJob, TP!NewJob, T!Idle, TP!Idle,
       T!Oldest, TP!Oldest, T!Batch, TP!Batch, T!InFlight, TP!InFlight, T!Running,
       TP!Running, T!LockFree, TP!LockFree, T!Counted, TP!Counted, T!FlushDue,
       TP!FlushDue, T!TakeBuffer, TP!TakeBuffer, T!Go, TP!Go, T!AfterStart,
       TP!AfterStart, T!AfterSave, TP!AfterSave, T!AfterExpire, TP!AfterExpire,
       T!AfterZero, TP!AfterZero, T!AfterFailure, TP!AfterFailure, T!Delete,
       TP!Delete, T!Expired, TP!Expired, T!Record, TP!Record, T!Start, TP!Start,
       T!Insert, TP!Insert, T!InsertFails, TP!InsertFails, T!Save, TP!Save,
       T!Expire, TP!Expire, T!Count, TP!Count, T!Trim, TP!Trim, T!Tally, TP!Tally,
       T!Page, TP!Page, T!Items, TP!Items, T!Zero, TP!Zero, T!Unlink, TP!Unlink,
       T!Purge, TP!Purge, T!StatementFails, TP!StatementFails, T!JobStep,
       TP!JobStep, T!Interrupt, TP!Interrupt, T!ShutdownFlush, TP!ShutdownFlush,
       T!MainReturns, TP!MainReturns, T!RuntimeDrops, TP!RuntimeDrops, T!Cancel,
       TP!Cancel, T!Die, TP!Die, T!Exit, TP!Exit, T!Terminate, TP!Terminate,
       T!Cardinality, TP!Cardinality

\* The assumptions on the constants are those of both components.
LEMMA Assumed ==
    /\ RP!CaseAssumption /\ RP!ReflectorAssumption
    /\ TP!SlotsAssumption /\ TP!ConfigAssumption /\ TP!InputAssumption /\ TP!BoundAssumption
BY SieveAssumption, SameNames
DEF R!CaseAssumption, RP!CaseAssumption, R!ReflectorAssumption, RP!ReflectorAssumption, R!IsFiniteSet, RP!IsFiniteSet,
    T!SlotsAssumption, TP!SlotsAssumption, T!ConfigAssumption, TP!ConfigAssumption,
    T!InputAssumption, TP!InputAssumption, T!BoundAssumption, TP!BoundAssumption,
    T!AllDispositions, TP!AllDispositions, T!IsFiniteSet, TP!IsFiniteSet

\* A step records one message in both parts, or is one of either part, if any,
\* and leaves the clock and what is recorded alone.
LEMMA StepParts ==
    ASSUME [Next]_vars
    PROVE  /\ [RP!Next]_RP!vars /\ [TP!Next]_TP!vars
           /\ \/ /\ RP!Record /\ TP!Record(RP!Disposition(routing))
                 /\ stamp' = Append(stamp, now + 1)
              \/ UNCHANGED <<now, recorded, stamp>>
           /\ phase = "down" => phase' = "down"
<1> USE DEF vars, reflector, tracking, RP!vars, TP!vars, TP!manager, TP!database, TP!history,
            TP!counters
<1> DEFINE Goal == /\ [RP!Next]_RP!vars /\ [TP!Next]_TP!vars
                   /\ \/ /\ RP!Record /\ TP!Record(RP!Disposition(routing))
                         /\ stamp' = Append(stamp, now + 1)
                      \/ UNCHANGED <<now, recorded, stamp>>
                   /\ phase = "down" => phase' = "down"
<1>1. CASE Receive
    BY <1>1, SameReflector DEF Receive, RP!Next, RP!Receive
<1>2. ASSUME NEW i \in Interfaces, Enqueue(i) PROVE Goal
    BY <1>2, SameReflector DEF Enqueue, RP!Next, RP!Enqueue
<1>3. CASE Forward
  <2>1. RP!Take \/ \E dst \in Interfaces : RP!RouteTo(dst)
      BY <1>3, SameReflector DEF Forward
  <2>2. UNCHANGED <<tracking, stamp>>
      BY <1>3 DEF Forward
  <2>3. recorded' = recorded
      BY <2>1 DEF RP!Take, RP!RouteTo
  <2> QED BY <2>1, <2>2, <2>3 DEF RP!Next
<1>4. CASE Record
  <2>1. RP!Record /\ TP!Record(RP!Disposition(routing)) /\ stamp' = Append(stamp, now') /\ phase # "down"
      BY <1>4, SameReflector, SameTracking DEF Record, Alive
  <2>2. RP!Disposition(routing) \in {"forwarded", "partially_forwarded", "dropped"}
      BY DEF RP!Disposition
  <2>3. now' = now + 1
      BY <2>1 DEF TP!Record
  <2> QED BY <2>1, <2>2, <2>3 DEF RP!Next, TP!Next
<1>5. ASSUME NEW j \in T!Slots, Job(j) PROVE Goal
  <2>1. TP!JobStep(j) /\ j \in TP!Slots /\ UNCHANGED <<reflector, stamp>>
      BY <1>5, SameTracking DEF Job
  <2>2. now' = now /\ phase' = phase
      BY <2>1 DEF TP!JobStep, TP!Start, TP!Insert, TP!InsertFails, TP!Save, TP!Expire, TP!Count,
         TP!Trim, TP!Tally, TP!Page, TP!Items, TP!Zero, TP!Unlink, TP!Purge, TP!StatementFails
  <2> QED BY <2>1, <2>2 DEF TP!Next
<1>6. CASE Process
  <2>1. /\ \/ TP!Interrupt \/ TP!ShutdownFlush \/ TP!MainReturns \/ TP!RuntimeDrops
           \/ TP!Exit \/ TP!Terminate
           \/ \E j \in Jobs : TP!Cancel(j)
        /\ UNCHANGED <<reflector, stamp>>
      BY <1>6, SameTracking DEF Process
  <2>2. now' = now /\ (phase = "down" => phase' = "down")
      BY <2>1 DEF TP!Interrupt, TP!ShutdownFlush, TP!MainReturns, TP!RuntimeDrops, TP!Exit,
         TP!Terminate, TP!Cancel, TP!Die
  <2>3. TP!Next
      BY <2>1 DEF TP!Next
  <2> QED BY <2>1, <2>2, <2>3
<1>7. CASE UNCHANGED vars
    BY <1>7
<1> QED BY <1>1, <1>2, <1>3, <1>4, <1>5, <1>6, <1>7 DEF Next

-----------------------------------------------------------------------------
(* The counters *)

Fates == {"forwarded", "partially_forwarded", "dropped"}

\* s counts the first n messages of log by their dispositions.
TrueAt(log, s, n) ==
    \A d \in Fates : s[d] = Cardinality({k \in 1..n : log[k].disposition = d})
WasTrue(log, s) == \E n \in 0..Len(log) : TrueAt(log, s, n)

\* Counters at zero are true of an empty log.
LEMMA ZerosTrue == \A log : TrueAt(log, TP!Zeros, 0)
<1>1. \A log, d : {k \in 1..0 : log[k].disposition = d} = {}
    OBVIOUS
<1>2. \A d \in Fates : TP!Zeros[d] = 0
    BY DEF TP!Zeros, TP!AllDispositions, Fates
<1> QED BY <1>1, <1>2, FS_EmptySet DEF TrueAt

\* A message appended changes no count of the ones before, ...
LEMMA TrueBefore ==
    ASSUME NEW S, NEW log \in Seq(S), NEW e \in S, NEW s, NEW n \in 0..Len(log), TrueAt(log, s, n)
    PROVE  TrueAt(Append(log, e), s, n)
<1>1. \A k \in 1..n : Append(log, e)[k] = log[k]
    OBVIOUS
<1>2. \A d : {k \in 1..n : Append(log, e)[k].disposition = d} = {k \in 1..n : log[k].disposition = d}
    BY <1>1
<1> QED BY <1>2 DEF TrueAt

\* Counters that were true of a log are so of a longer one.
LEMMA WasTrueBefore ==
    ASSUME NEW S, NEW log \in Seq(S), NEW e \in S, NEW s, WasTrue(log, s)
    PROVE  WasTrue(Append(log, e), s)
<1>1. PICK n \in 0..Len(log) : TrueAt(log, s, n)
    BY DEF WasTrue
<1>2. n \in 0..Len(Append(log, e))
    OBVIOUS
<1> QED BY <1>1, <1>2, TrueBefore DEF WasTrue

\* ... and is counted once, as what it is.
LEMMA TrueAfter ==
    ASSUME NEW S, NEW log \in Seq(S), NEW e \in S, NEW s \in TP!Counters,
           e.disposition \in Fates, TrueAt(log, s, Len(log))
    PROVE  TrueAt(Append(log, e), TP!Counted(s, e.disposition), Len(log) + 1)
<1> DEFINE After(d) == {k \in 1..(Len(log) + 1) : Append(log, e)[k].disposition = d}
           Ago(d) == {k \in 1..Len(log) : log[k].disposition = d}
<1>1. /\ \A k \in 1..Len(log) : Append(log, e)[k] = log[k]
      /\ Append(log, e)[Len(log) + 1] = e
      /\ Len(log) \in Nat
      /\ 1..(Len(log) + 1) = (1..Len(log)) \cup {Len(log) + 1}
      /\ Len(log) + 1 \notin 1..Len(log)
    OBVIOUS
<1>2. ASSUME NEW d \in Fates
      PROVE  /\ TP!Counted(s, e.disposition)[d] = IF d = e.disposition THEN s[d] + 1 ELSE s[d]
             /\ s[d] \in Nat /\ s[d] = Cardinality(Ago(d))
  <2>1. /\ DOMAIN s = {"total"} \cup Fates /\ s[d] \in Nat /\ "total" \notin Fates
      BY <1>2 DEF TP!Counters, TP!AllDispositions, Fates
  <2> QED BY <1>2, <2>1 DEF TP!Counted, TrueAt
<1>3. ASSUME NEW d \in Fates
      PROVE  /\ IsFiniteSet(Ago(d)) /\ Len(log) + 1 \notin Ago(d)
             /\ After(d) = IF d = e.disposition THEN Ago(d) \cup {Len(log) + 1} ELSE Ago(d)
  <2>1. IsFiniteSet(1..Len(log))
      BY <1>1, FS_Interval
  <2>2. IsFiniteSet(Ago(d))
      BY <2>1, FS_Subset
  <2>3. \A k \in 1..(Len(log) + 1) : k \in After(d) <=> k \in Ago(d) \/ (k = Len(log) + 1 /\ d = e.disposition)
      BY <1>1
  <2> QED BY <1>1, <2>2, <2>3
<1>4. ASSUME NEW d \in Fates
      PROVE  Cardinality(After(d)) = IF d = e.disposition THEN s[d] + 1 ELSE s[d]
  <2>1. PICK ago : ago = Ago(d)
      OBVIOUS
  <2>2. /\ IsFiniteSet(ago) /\ Len(log) + 1 \notin ago /\ s[d] = Cardinality(ago)
        /\ After(d) = IF d = e.disposition THEN ago \cup {Len(log) + 1} ELSE ago
      BY <1>2, <1>3, <2>1
  <2>3. Cardinality(ago \cup {Len(log) + 1}) = Cardinality(ago) + 1
      BY <2>2, FS_AddElement
  <2> HIDE DEF After
  <2> QED BY <2>2, <2>3
<1> QED BY <1>2, <1>4 DEF TrueAt

-----------------------------------------------------------------------------
(* The invariant *)

\* Every recorded message was stamped, and tracking knows what became of it.
Stamped ==
    /\ stamp \in Seq(Nat) /\ Len(stamp) = Len(recorded)
    /\ \A k \in DOMAIN stamp :
          stamp[k] \in buffer \cup TP!InFlight \cup rows \cup gone \cup lost

\* The counters count the messages recorded, those of a snapshot the messages
\* recorded when it was taken.
Counting ==
    /\ phase # "down" => TrueAt(recorded, stats, Len(recorded))
    /\ WasTrue(recorded, stats) /\ WasTrue(recorded, dbStats)
    /\ \A j \in TP!Slots : WasTrue(recorded, job[j].stats)

SieveInv == RP!RInv /\ RP!Ordered /\ RP!Placed /\ TP!Kept /\ Stamped /\ Counting

\* The first state satisfies the invariant.
LEMMA InitSieveInv == ASSUME Init PROVE SieveInv
<1>1. RP!Init /\ TP!Init /\ stamp = <<>>
    BY SameReflector, SameTracking DEF Init
<1>2. RP!RInv /\ RP!Placed
    BY <1>1, Assumed, RP!InitRInv, RP!InitPlaced
<1>3. RP!Ordered
    BY <1>1 DEF RP!Init, RP!Ordered, RP!Sorted, RP!Before
<1>4. TP!Kept
    BY <1>1, Assumed, TP!InitKept
<1>5. Stamped
    BY <1>1 DEF Stamped, RP!Init
<1>6. WasTrue(recorded, TP!Zeros) /\ TrueAt(recorded, TP!Zeros, Len(recorded))
    BY <1>1, ZerosTrue DEF WasTrue, RP!Init
<1>7. stats = TP!Zeros /\ dbStats = TP!Zeros /\ \A j \in TP!Slots : job[j].stats = TP!Zeros
    BY <1>1 DEF TP!Init, TP!Idle, TP!NewJob
<1>8. Counting
    BY <1>6, <1>7 DEF Counting
<1> QED BY <1>2, <1>3, <1>4, <1>5, <1>8 DEF SieveInv

\* What a step that records a message does, in both parts.
LEMMA RecordBoth ==
    ASSUME SieveInv, RP!Record, TP!Record(RP!Disposition(routing))
    PROVE  /\ \E e \in RP!Entry :
                 /\ recorded' = Append(recorded, e)
                 /\ e.id = current[1].id /\ e.disposition = RP!Disposition(routing)
           /\ current # <<>>
           /\ recorded \in Seq(RP!Entry) /\ now \in Nat
           /\ now + 1 \notin buffer \cup TP!InFlight \cup rows \cup gone \cup lost
           /\ (buffer \cup TP!InFlight)' = buffer \cup TP!InFlight \cup {now + 1}
           /\ UNCHANGED <<rows, gone, lost>>
           /\ RP!Disposition(routing) \in Fates
<1>1. RP!Typed /\ TP!Consistent /\ TP!Typed /\ TP!TypeOK
    BY DEF SieveInv, RP!RInv, TP!Kept, TP!Consistent, TP!Typed
<1>2. RP!Disposition(routing) \in Fates
    BY DEF RP!Disposition, Fates
<1>3. RP!Typed'
    BY Assumed, RP!StepRInv DEF SieveInv, RP!Next, RP!RInv
<1>4. PICK e : /\ recorded' = Append(recorded, e)
               /\ e.id = current[1].id /\ e.disposition = RP!Disposition(routing)
    BY DEF RP!Record
<1>5. recorded \in Seq(RP!Entry) /\ recorded' \in Seq(RP!Entry)
    BY <1>1, <1>3 DEF RP!Typed
<1>6. e \in RP!Entry
  <2>1. Len(recorded) + 1 \in DOMAIN recorded' /\ recorded'[Len(recorded) + 1] = e
      BY <1>4, <1>5
  <2> QED BY <1>5, <2>1
<1>7. PICK d \in Fates : TP!Record(d)
    BY <1>2
<1>8. /\ now + 1 \notin buffer \cup TP!InFlight \cup rows \cup gone \cup lost
      /\ (buffer \cup TP!InFlight)' = buffer \cup TP!InFlight \cup {now + 1}
      /\ UNCHANGED <<rows, gone, lost>>
    BY <1>1, <1>7, Assumed, TP!RecordAccepts DEF Fates
<1>9. current # <<>> /\ now \in Nat
    BY <1>1 DEF RP!Record, TP!TypeOK
<1> QED BY <1>2, <1>4, <1>5, <1>6, <1>8, <1>9


\* Tracking forgets no message.
LEMMA NothingForgotten ==
    ASSUME TP!Kept, [TP!Next]_TP!vars
    PROVE  buffer \cup TP!InFlight \cup rows \cup gone \cup lost
              \subseteq (buffer \cup TP!InFlight \cup rows \cup gone \cup lost)'
<1>1. [TP!Log!LogNext]_(TP!Log!logVars)
    BY Assumed, TP!StepRefines DEF TP!Kept
<1> QED BY <1>1 DEF TP!Log!LogNext, TP!Log!Accept, TP!Log!Store, TP!Log!Retire, TP!Log!logVars

\* Every step keeps it.
LEMMA NextSieveInv == ASSUME SieveInv, [Next]_vars PROVE SieveInv'
<1>1. /\ [RP!Next]_RP!vars /\ [TP!Next]_TP!vars
      /\ phase = "down" => phase' = "down"
    BY StepParts
<1>2. RP!RInv' /\ RP!Ordered' /\ RP!Placed' /\ TP!Kept'
    BY <1>1, Assumed, RP!StepRInv, RP!StepOrdered, RP!StepPlaced, TP!NextKept DEF SieveInv
<1>3. TP!Typed /\ TP!TypeOK /\ recorded \in Seq(RP!Entry)
    BY DEF SieveInv, TP!Kept, TP!Consistent, TP!Typed, RP!RInv, RP!Typed
<1>4. CASE /\ RP!Record /\ TP!Record(RP!Disposition(routing))
           /\ stamp' = Append(stamp, now + 1)
  <2> DEFINE d == RP!Disposition(routing)
  <2>1. PICK e \in RP!Entry :
            recorded' = Append(recorded, e) /\ e.id = current[1].id /\ e.disposition = d
      BY <1>4, RecordBoth
  <2>2. /\ now \in Nat /\ d \in Fates
        /\ (buffer \cup TP!InFlight)' = buffer \cup TP!InFlight \cup {now + 1}
        /\ UNCHANGED <<rows, gone, lost>>
      BY <1>4, RecordBoth
  <2>3. Stamped'
    <3>1. /\ stamp' \in Seq(Nat) /\ Len(stamp') = Len(recorded')
          /\ \A k \in DOMAIN stamp' :
                (k \in DOMAIN stamp /\ stamp'[k] = stamp[k]) \/ stamp'[k] = now + 1
        BY <1>3, <1>4, <2>1, <2>2 DEF SieveInv, Stamped
    <3> QED BY <2>2, <3>1 DEF SieveInv, Stamped
  <2>4. /\ stats' = TP!Counted(stats, d) /\ stats \in TP!Counters
        /\ phase # "down" /\ phase' = phase /\ dbStats' = dbStats
      BY <1>3, <1>4 DEF TP!Record, TP!LockFree, TP!TypeOK, TP!database
  <2>5. \A j \in TP!Slots : job'[j].stats \in {job[j].stats, stats'}
    <3>1. stats' # stats
      <4>1. d \in DOMAIN stats /\ "total" # d /\ stats[d] \in Nat
          BY <2>2, <2>4 DEF TP!Counters, TP!AllDispositions, Fates
      <4> QED BY <2>4, <4>1 DEF TP!Counted
    <3> QED BY <1>1, <1>3, <1>4, <2>4, <3>1, Assumed, TP!StatsMove
  <2>6. TrueAt(recorded', stats', Len(recorded'))
    <3>1. TrueAt(recorded, stats, Len(recorded))
        BY <2>4 DEF SieveInv, Counting
    <3>2. TrueAt(Append(recorded, e), TP!Counted(stats, e.disposition), Len(recorded) + 1)
        BY <1>3, <2>1, <2>2, <2>4, <3>1, TrueAfter
    <3>3. Len(recorded') = Len(recorded) + 1
        BY <1>3, <2>1
    <3> QED BY <2>1, <2>4, <3>2, <3>3
  <2>7. WasTrue(recorded', stats')
    <3>1. Len(recorded') \in 0..Len(recorded')
        BY <1>3, <2>1
    <3> QED BY <2>6, <3>1 DEF WasTrue
  <2>8. WasTrue(recorded', dbStats') /\ \A j \in TP!Slots : WasTrue(recorded', job'[j].stats)
    <3>1. \A s : WasTrue(recorded, s) => WasTrue(recorded', s)
        BY <1>3, <2>1, WasTrueBefore
    <3> QED BY <2>4, <2>5, <2>7, <3>1 DEF SieveInv, Counting
  <2>9. Counting'
      BY <2>6, <2>7, <2>8 DEF Counting, TP!Slots
  <2> QED BY <1>2, <2>3, <2>9 DEF SieveInv
<1>5. CASE UNCHANGED <<now, recorded, stamp>>
  <2>1. Stamped'
    <3>1. buffer \cup TP!InFlight \cup rows \cup gone \cup lost
             \subseteq (buffer \cup TP!InFlight \cup rows \cup gone \cup lost)'
        BY <1>1, NothingForgotten DEF SieveInv
    <3> QED BY <1>5, <3>1 DEF SieveInv, Stamped
  <2>2. ~(\E d \in Fates : TP!Record(d))
      BY <1>3, <1>5 DEF TP!Record, TP!TypeOK
  <2>3. /\ dbStats' \in {dbStats, TP!Zeros} \cup {job[j].stats : j \in TP!Slots}
        /\ \A k \in TP!Slots : job'[k].stats \in {job[k].stats, stats, TP!Zeros}
        /\ stats' \in {stats, TP!Zeros, dbStats}
        /\ stats' # stats => phase' = "down" \/ phase = "down"
      BY <1>1, <1>3, <2>2, Assumed, TP!StatsMove DEF Fates
  <2>4. WasTrue(recorded, TP!Zeros)
    <3>1. 0 \in 0..Len(recorded)
        BY <1>3
    <3> QED BY <3>1, ZerosTrue DEF WasTrue
  <2>5. WasTrue(recorded, stats') /\ WasTrue(recorded, dbStats')
        /\ \A j \in TP!Slots : WasTrue(recorded, job'[j].stats)
      BY <2>3, <2>4 DEF SieveInv, Counting
  <2>6. phase' # "down" => TrueAt(recorded, stats', Len(recorded))
      BY <1>1, <2>3 DEF SieveInv, Counting
  <2>7. Counting'
      BY <1>5, <2>5, <2>6 DEF Counting, TP!Slots
  <2> QED BY <1>2, <2>1, <2>7 DEF SieveInv
<1> QED BY <1>4, <1>5, StepParts

\* It holds in every reachable state.
LEMMA AlwaysSieveInv == Spec => []SieveInv
<1>1. Init => SieveInv BY InitSieveInv
<1>2. SieveInv /\ [Next]_vars => SieveInv' BY NextSieveInv
<1> QED BY <1>1, <1>2, PTL DEF Spec

-----------------------------------------------------------------------------
(* What follows from it *)

\* The ids of a sequence are the same under both names.
LEMMA SameIds == \A seq : Ids(seq) = RP!Ids(seq)
BY DEF Ids, RP!Ids

\* Distinct messages have as many ids as there are messages.
LEMMA IdsCount ==
    ASSUME NEW S, NEW seq \in Seq(S), RP!Distinct(seq)
    PROVE  Cardinality(Ids(seq)) = Len(seq)
<1> DEFINE Id == [k \in 1..Len(seq) |-> seq[k].id]
<1>1. Len(seq) \in Nat /\ DOMAIN seq = 1..Len(seq)
    OBVIOUS
<1>2. IsFiniteSet(1..Len(seq)) /\ Cardinality(1..Len(seq)) = Len(seq)
    BY <1>1, FS_Interval
<1>3. Id \in Bijection(1..Len(seq), Ids(seq))
  <2>1. Id \in [1..Len(seq) -> Ids(seq)] /\ \A x \in Ids(seq) : \E k \in 1..Len(seq) : Id[k] = x
      BY <1>1 DEF Ids
  <2>2. \A k, l \in 1..Len(seq) : Id[k] = Id[l] => k = l
      BY <1>1 DEF RP!Distinct
  <2> QED BY <2>1, <2>2 DEF Bijection, Injection, Surjection, IsInjective
<1>4. ExistsBijection(1..Len(seq), Ids(seq))
    BY <1>3 DEF ExistsBijection
<1> QED BY <1>2, <1>4, FS_Bijection

\* Every packet received is on its way, skipped or recorded, in one place only,
\* and recorded once: neither the bounded channel nor the Mutex the loop waits
\* for drops or doubles one.
THEOREM PacketsConserved == Spec => []Conserved
<1>1. ASSUME SieveInv PROVE Conserved
  <2>1. /\ OnTheWay = RP!Held \cup RP!Ids(channel) \cup RP!Ids(current)
        /\ Handled = skipped \cup RP!Ids(recorded)
      BY SameIds DEF OnTheWay, Handled, RP!Held
  <2>2. /\ RP!Held \cap (RP!Ids(channel) \cup RP!Done) = {}
        /\ RP!Ids(channel) \cap RP!Done = {}
        /\ RP!Ids(current) \cap RP!Ids(recorded) = {}
      BY <1>1 DEF SieveInv, RP!RInv, RP!Apart, RP!Held
  <2>3. /\ RP!Held \cup RP!Ids(channel) \cup RP!Done \cup skipped = 1..received
        /\ skipped \cap (RP!Held \cup RP!Ids(channel) \cup RP!Done) = {}
        /\ RP!Distinct(recorded) /\ recorded \in Seq(RP!Entry)
      BY <1>1 DEF SieveInv, RP!RInv, RP!Placed, RP!Typed
  <2>4. Cardinality(Ids(recorded)) = Len(recorded)
      BY <2>3, IdsCount
  <2> QED BY <2>1, <2>2, <2>3, <2>4, SameIds DEF Conserved, RP!Done
<1> QED BY <1>1, AlwaysSieveInv, PTL

\* The messages of one interface are recorded in the order they came in, with
\* the manager's Mutex in the loop's way.
THEOREM SieveRecordsInOrder == Spec => []InOrder
<1>1. SieveInv => InOrder
    BY DEF SieveInv, RP!Ordered, RP!Sorted, InOrder, R!InOrder
<1> QED BY <1>1, AlwaysSieveInv, PTL

\* What the log says of a message is what happened to its packet.
LEMMA FateTold ==
    ASSUME SieveInv
    PROVE  \A k \in DOMAIN recorded : Fate(recorded[k]) = recorded[k].disposition
<1> SUFFICES ASSUME NEW k \in DOMAIN recorded
             PROVE  Fate(recorded[k]) = recorded[k].disposition
    OBVIOUS
<1>1. RP!Truthful(recorded[k])
    BY Assumed, RP!DispositionTold DEF SieveInv
<1>2. \A r, n, d : R!WentTo(r, n, d) <=> RP!WentTo(r, n, d)
    BY DEF R!WentTo, RP!WentTo
<1> QED BY <1>1, <1>2 DEF Fate, RP!Truthful

\* The numbers of the dashboard are those of packets that went out, went out
\* in part, or did not go out; what is saved, by whatever flush, was true once.
THEOREM CountersStayTrue == Spec => []CountersTrue
<1>1. ASSUME SieveInv PROVE CountersTrue
  <2>1. \A k \in 1..Len(recorded) : Fate(recorded[k]) = recorded[k].disposition
    <3>1. DOMAIN recorded = 1..Len(recorded)
        BY <1>1 DEF SieveInv, RP!RInv, RP!Typed
    <3> QED BY <1>1, <3>1, FateTold
  <2>2. ASSUME NEW s, NEW n \in 0..Len(recorded), TrueAt(recorded, s, n)
        PROVE  CountsAreTrue(s, n)
    <3>1. \A k \in 1..n : k \in 1..Len(recorded)
        BY <1>1 DEF SieveInv, RP!RInv, RP!Typed
    <3>2. \A d : {k \in 1..n : Fate(recorded[k]) = d} = {k \in 1..n : recorded[k].disposition = d}
        BY <2>1, <3>1
    <3> QED BY <2>2, <3>2 DEF CountsAreTrue, TrueAt, T!AllDispositions, Fates
  <2>3. Len(recorded) \in 0..Len(recorded)
      BY <1>1 DEF SieveInv, RP!RInv, RP!Typed
  <2> QED BY <1>1, <2>2, <2>3 DEF CountersTrue, SieveInv, Counting, WasTrue
<1> QED BY <1>1, AlwaysSieveInv, PTL

-----------------------------------------------------------------------------
(* The daemon as a message log *)

\* The packets of log that were recorded at the times ms.
PacketsAt(log, times, ms) == {log[k].id : k \in {n \in DOMAIN log : times[n] \in ms}}

\* One more packet.
LEMMA PacketAdded ==
    ASSUME NEW S, NEW log \in Seq(S), NEW e \in S, NEW T0, NEW times \in Seq(T0),
           Len(times) = Len(log), NEW t \in T0, NEW ms
    PROVE  PacketsAt(Append(log, e), Append(times, t), ms)
              = PacketsAt(log, times, ms) \cup (IF t \in ms THEN {e.id} ELSE {})
<1>1. /\ DOMAIN log = 1..Len(log) /\ Len(log) \in Nat
      /\ DOMAIN Append(log, e) = (1..Len(log)) \cup {Len(log) + 1}
      /\ \A k \in 1..Len(log) : Append(log, e)[k] = log[k] /\ Append(times, t)[k] = times[k]
      /\ Append(log, e)[Len(log) + 1] = e /\ Append(times, t)[Len(log) + 1] = t
    OBVIOUS
<1>2. ASSUME NEW x \in PacketsAt(Append(log, e), Append(times, t), ms)
      PROVE  x \in PacketsAt(log, times, ms) \cup (IF t \in ms THEN {e.id} ELSE {})
    BY <1>1 DEF PacketsAt
<1>3. ASSUME NEW x \in PacketsAt(log, times, ms) \cup (IF t \in ms THEN {e.id} ELSE {})
      PROVE  x \in PacketsAt(Append(log, e), Append(times, t), ms)
    BY <1>1 DEF PacketsAt
<1> QED BY <1>2, <1>3

\* What a step of a log does to what is pending, stored and retired.
Accepts(m, pend, st, ret, pend1, st1, ret1) ==
    /\ m \notin pend \cup st \cup ret
    /\ pend1 = pend \cup {m} /\ st1 = st /\ ret1 = ret
Stores(kept, dropped, pend, st, ret, pend1, st1, ret1) ==
    /\ kept \in SUBSET pend /\ dropped \in SUBSET pend /\ kept \cap dropped = {}
    /\ pend1 = pend \ (kept \cup dropped)
    /\ st1 = st \cup kept /\ ret1 = ret \cup dropped
Retires(ms, pend, st, ret, pend1, st1, ret1) ==
    /\ ms \in SUBSET (pend \cup st)
    /\ pend1 = pend \ ms /\ st1 = st \ ms /\ ret1 = ret \cup ms

\* P, S, R0 and P1, S1, R1 are the packets of the messages before and after.
PacketsOf(log, times, pend, st, ret, pend1, st1, ret1, P, S, R0, P1, S1, R1) ==
    /\ RP!Distinct(log)
    /\ \A k \in DOMAIN log : times[k] \in pend \cup st \cup ret
    /\ P = PacketsAt(log, times, pend) /\ P1 = PacketsAt(log, times, pend1)
    /\ S = PacketsAt(log, times, st) /\ S1 = PacketsAt(log, times, st1)
    /\ R0 = PacketsAt(log, times, ret) /\ R1 = PacketsAt(log, times, ret1)

\* It does the same to the packets of the messages, if none is recorded.
LEMMA SameStepOfPackets ==
    ASSUME NEW log, NEW times, NEW pend, NEW st, NEW ret, NEW pend1, NEW st1, NEW ret1,
           NEW P, NEW S, NEW R0, NEW P1, NEW S1, NEW R1,
           PacketsOf(log, times, pend, st, ret, pend1, st1, ret1, P, S, R0, P1, S1, R1)
    PROVE  /\ \A m : Accepts(m, pend, st, ret, pend1, st1, ret1)
                     => P1 = P /\ S1 = S /\ R1 = R0
           /\ \A kept, dropped :
                 Stores(kept, dropped, pend, st, ret, pend1, st1, ret1)
                     => \E k, d : Stores(k, d, P, S, R0, P1, S1, R1)
           /\ \A ms : Retires(ms, pend, st, ret, pend1, st1, ret1)
                     => \E m : Retires(m, P, S, R0, P1, S1, R1)
<1> USE DEF PacketsOf
<1> DEFINE Of(ms) == PacketsAt(log, times, ms)
<1>1. \A k, l \in DOMAIN log : log[k].id = log[l].id => k = l
    BY DEF RP!Distinct
<1>2. \A ms, x : x \in Of(ms) <=> \E k \in DOMAIN log : x = log[k].id /\ times[k] \in ms
    BY DEF PacketsAt
<1>3. /\ \A A, B : Of(A \cup B) = Of(A) \cup Of(B)
      /\ \A A, B : Of(A \ B) = Of(A) \ Of(B)
      /\ \A A, B : A \cap B = {} => Of(A) \cap Of(B) = {}
      /\ \A A, B : A \subseteq B => Of(A) \subseteq Of(B)
    BY <1>1, <1>2
<1>4. /\ P = Of(pend) /\ S = Of(st) /\ R0 = Of(ret)
      /\ P1 = Of(pend1) /\ S1 = Of(st1) /\ R1 = Of(ret1)
    OBVIOUS
<1>5. ASSUME NEW m, Accepts(m, pend, st, ret, pend1, st1, ret1)
      PROVE  P1 = P /\ S1 = S /\ R1 = R0
  <2>1. Of({m}) = {}
      BY <1>2, <1>5 DEF Accepts
  <2> HIDE DEF Of
  <2>2. Of(pend \cup {m}) = Of(pend) \cup Of({m})
      BY <1>3
  <2> QED BY <1>4, <1>5, <2>1, <2>2 DEF Accepts
<1>6. ASSUME NEW kept, NEW dropped, Stores(kept, dropped, pend, st, ret, pend1, st1, ret1)
      PROVE  \E k, d : Stores(k, d, P, S, R0, P1, S1, R1)
  <2> HIDE DEF Of
  <2>1. PICK k, d : k = Of(kept) /\ d = Of(dropped)
      OBVIOUS
  <2>2. /\ Of(pend \ (kept \cup dropped)) = Of(pend) \ Of(kept \cup dropped)
        /\ Of(kept \cup dropped) = Of(kept) \cup Of(dropped)
        /\ Of(st \cup kept) = Of(st) \cup Of(kept)
        /\ Of(ret \cup dropped) = Of(ret) \cup Of(dropped)
      BY <1>3
  <2>3. k \in SUBSET P /\ d \in SUBSET P /\ k \cap d = {}
      BY <1>3, <1>4, <1>6, <2>1 DEF Stores
  <2>4. Stores(k, d, P, S, R0, P1, S1, R1)
      BY <1>4, <1>6, <2>1, <2>2, <2>3 DEF Stores
  <2> QED BY <2>4
<1>7. ASSUME NEW ms, Retires(ms, pend, st, ret, pend1, st1, ret1)
      PROVE  \E m : Retires(m, P, S, R0, P1, S1, R1)
  <2> HIDE DEF Of
  <2>1. PICK m : m = Of(ms)
      OBVIOUS
  <2>2. /\ Of(pend \ ms) = Of(pend) \ Of(ms) /\ Of(st \ ms) = Of(st) \ Of(ms)
        /\ Of(ret \cup ms) = Of(ret) \cup Of(ms) /\ Of(pend \cup st) = Of(pend) \cup Of(st)
      BY <1>3
  <2>3. Of(ms) \subseteq Of(pend \cup st)
      BY <1>3, <1>7 DEF Retires
  <2>4. Retires(m, P, S, R0, P1, S1, R1)
      BY <1>4, <1>7, <2>1, <2>2, <2>3 DEF Retires
  <2> QED BY <2>4
<1> QED BY <1>5, <1>6, <1>7

\* Every step appends to the log of packets what the abstract log may append, or leaves it.
LEMMA StepLogs ==
    ASSUME SieveInv, [Next]_vars
    PROVE  [PacketLog!LogNext]_(PacketLog!logVars)
<1>1. PICK pend, ret, pend1, ret1 :
          /\ pend = buffer \cup TP!InFlight /\ pend1 = (buffer \cup TP!InFlight)'
          /\ ret = gone \cup lost /\ ret1 = (gone \cup lost)'
    OBVIOUS
<1>2. PICK P, S, R0, P1, S1, R1 :
          /\ P = PacketsAt(recorded, stamp, pend) /\ P1 = PacketsAt(recorded', stamp', pend1)
          /\ S = PacketsAt(recorded, stamp, rows) /\ S1 = PacketsAt(recorded', stamp', rows')
          /\ R0 = PacketsAt(recorded, stamp, ret) /\ R1 = PacketsAt(recorded', stamp', ret1)
    OBVIOUS
<1>3. /\ P = At(buffer \cup T!InFlight) /\ P1 = At(buffer \cup T!InFlight)'
      /\ S = At(rows) /\ S1 = At(rows)'
      /\ R0 = At(gone \cup lost) /\ R1 = At(gone \cup lost)'
  <2>1. T!InFlight = TP!InFlight /\ T!InFlight' = TP!InFlight'
      BY DEF T!InFlight, TP!InFlight, T!Batch, TP!Batch, T!Slots, TP!Slots
  <2> QED BY <1>1, <1>2, <2>1 DEF At, PacketsAt
<1>4. /\ recorded \in Seq(RP!Entry) /\ RP!Distinct(recorded)
      /\ stamp \in Seq(Nat) /\ Len(stamp) = Len(recorded)
      /\ \A k \in DOMAIN recorded : stamp[k] \in pend \cup rows \cup ret
    BY <1>1 DEF SieveInv, RP!RInv, RP!Typed, RP!Placed, Stamped
<1>5. CASE /\ RP!Record /\ TP!Record(RP!Disposition(routing))
           /\ stamp' = Append(stamp, now + 1)
  <2>1. PICK e \in RP!Entry : recorded' = Append(recorded, e) /\ e.id = current[1].id
      BY <1>5, RecordBoth
  <2>2. /\ now \in Nat /\ now + 1 \notin pend \cup rows \cup ret
        /\ pend1 = pend \cup {now + 1} /\ rows' = rows /\ ret1 = ret
        /\ current # <<>>
      BY <1>1, <1>5, RecordBoth
  <2>3. /\ P1 = PacketsAt(recorded, stamp, pend \cup {now + 1}) \cup {e.id}
        /\ S1 = S /\ R1 = R0
    <3>1. now + 1 \in Nat
        BY <2>2
    <3>2. /\ PacketsAt(recorded', stamp', pend1)
                = PacketsAt(recorded, stamp, pend1) \cup (IF now + 1 \in pend1 THEN {e.id} ELSE {})
          /\ PacketsAt(recorded', stamp', rows)
                = PacketsAt(recorded, stamp, rows) \cup (IF now + 1 \in rows THEN {e.id} ELSE {})
          /\ PacketsAt(recorded', stamp', ret)
                = PacketsAt(recorded, stamp, ret) \cup (IF now + 1 \in ret THEN {e.id} ELSE {})
        BY <1>4, <1>5, <2>1, <3>1, PacketAdded
    <3> QED BY <1>2, <2>2, <3>2
  <2>4. PacketsAt(recorded, stamp, pend \cup {now + 1}) = P
    <3>1. {n \in DOMAIN recorded : stamp[n] \in pend \cup {now + 1}}
             = {n \in DOMAIN recorded : stamp[n] \in pend}
        BY <1>4, <2>2
    <3> QED BY <1>2, <3>1 DEF PacketsAt
  <2>5. e.id \in RP!Ids(current) /\ e.id \in 1..MaxPackets
    <3>1. /\ RP!Ids(current) \subseteq 1..received /\ received \in 0..MaxPackets
          /\ current \in Seq(RP!Message) /\ MaxPackets \in Nat
        BY Assumed DEF SieveInv, RP!RInv, RP!Apart, RP!Done, RP!Typed, RP!ReflectorAssumption
    <3>2. 1 \in DOMAIN current
        BY <2>2, <3>1
    <3> QED BY <2>1, <3>1, <3>2 DEF RP!Ids
  <2>6. e.id \notin P \cup S \cup R0
    <3>1. P \cup S \cup R0 \subseteq RP!Ids(recorded)
        BY <1>2 DEF PacketsAt, RP!Ids
    <3> QED BY <2>5, <3>1 DEF SieveInv, RP!RInv, RP!Apart
  <2>7. PacketLog!Accept(e.id)
      BY <1>3, <2>3, <2>4, <2>6 DEF PacketLog!Accept
  <2> QED BY <2>5, <2>7 DEF PacketLog!LogNext
<1>6. CASE UNCHANGED <<now, recorded, stamp>>
  <2>1. [TP!Log!LogNext]_(TP!Log!logVars)
      BY StepParts, Assumed, TP!StepRefines DEF SieveInv, TP!Kept
  <2>2. \/ \E m : Accepts(m, pend, rows, ret, pend1, rows', ret1)
        \/ \E kept, dropped : Stores(kept, dropped, pend, rows, ret, pend1, rows', ret1)
        \/ \E ms : Retires(ms, pend, rows, ret, pend1, rows', ret1)
        \/ pend1 = pend /\ rows' = rows /\ ret1 = ret
      BY <1>1, <2>1
      DEF TP!Log!LogNext, TP!Log!Accept, TP!Log!Store, TP!Log!Retire, TP!Log!logVars,
          Accepts, Stores, Retires
  <2>3. \/ \E k, d : Stores(k, d, P, S, R0, P1, S1, R1)
        \/ \E m : Retires(m, P, S, R0, P1, S1, R1)
        \/ P1 = P /\ S1 = S /\ R1 = R0
    <3>1. PICK log, times, st, st1 :
              log = recorded /\ times = stamp /\ st = rows /\ st1 = rows'
        OBVIOUS
    <3>2. PacketsOf(log, times, pend, st, ret, pend1, st1, ret1, P, S, R0, P1, S1, R1)
        BY <1>2, <1>4, <1>6, <3>1 DEF PacketsOf
    <3>3. /\ \A m : Accepts(m, pend, st, ret, pend1, st1, ret1)
                    => P1 = P /\ S1 = S /\ R1 = R0
          /\ \A kept, dropped :
                Stores(kept, dropped, pend, st, ret, pend1, st1, ret1)
                    => \E k, d : Stores(k, d, P, S, R0, P1, S1, R1)
          /\ \A ms : Retires(ms, pend, st, ret, pend1, st1, ret1)
                    => \E m : Retires(m, P, S, R0, P1, S1, R1)
        BY <3>2, SameStepOfPackets
    <3>4. \/ \E m : Accepts(m, pend, st, ret, pend1, st1, ret1)
          \/ \E kept, dropped : Stores(kept, dropped, pend, st, ret, pend1, st1, ret1)
          \/ \E ms : Retires(ms, pend, st, ret, pend1, st1, ret1)
          \/ pend1 = pend /\ st1 = st /\ ret1 = ret
        BY <2>2, <3>1
    <3>5. CASE pend1 = pend /\ st1 = st /\ ret1 = ret
        BY <3>2, <3>5 DEF PacketsOf
    <3>6. CASE \E m : Accepts(m, pend, st, ret, pend1, st1, ret1)
        BY <3>3, <3>6
    <3>7. CASE \E kept, dropped : Stores(kept, dropped, pend, st, ret, pend1, st1, ret1)
        BY <3>3, <3>7
    <3>8. CASE \E ms : Retires(ms, pend, st, ret, pend1, st1, ret1)
        BY <3>3, <3>8
    <3> QED BY <3>4, <3>5, <3>6, <3>7, <3>8
  <2>4. CASE \E k, d : Stores(k, d, P, S, R0, P1, S1, R1)
      BY <1>3, <2>4 DEF PacketLog!LogNext, PacketLog!Store, Stores
  <2>5. CASE \E m : Retires(m, P, S, R0, P1, S1, R1)
      BY <1>3, <2>5 DEF PacketLog!LogNext, PacketLog!Retire, Retires
  <2>6. CASE P1 = P /\ S1 = S /\ R1 = R0
      BY <1>3, <2>6 DEF PacketLog!logVars
  <2> QED BY <2>3, <2>4, <2>5, <2>6
<1> QED BY <1>5, <1>6, StepParts

\* A packet is accepted once, when the loop has routed it, and goes from memory
\* to the database to the past, however the loop, the jobs, main() and the end
\* of the process interleave.
THEOREM SieveLogsPackets == Spec => LogsPackets
<1>1. Init => PacketLog!LogInit
  <2>1. Init => recorded = <<>>
      BY SameReflector DEF Init, RP!Init
  <2> QED BY <2>1 DEF PacketLog!LogInit, At
<1>2. SieveInv /\ [Next]_vars => [PacketLog!LogNext]_(PacketLog!logVars)
    BY StepLogs
<1> QED BY <1>1, <1>2, AlwaysSieveInv, PTL DEF Spec, LogsPackets, PacketLog!LogSpec

==============================================================================
