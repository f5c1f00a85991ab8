# Verification of mdns-sieve

TLA+ models of the mDNS reflector `mdns-sieve` (Rust, `src/rs`), the TLC runs
that check them on small instances, and TLAPS proofs that hold for every
instance. Paths below are relative to the directory that holds `src/`.

## 1. The system

`mdns-sieve` receives multicast DNS packets on several interfaces, decides by
rules which of them (or which parts of them) go out on which other interface,
and keeps a history of what it did in an SQLite database, with a web page to look
at it. It is one tokio process.

| Component | State | Operations | Talks to |
|---|---|---|---|
| Reflector, `reflector.rs` | one socket per interface, an mpsc channel of 1000 packets, the routing of the current packet | receive tasks, the loop of `Reflector::run` | filter rules (calls), parser and serializer (calls), tracking manager (under its Mutex) |
| Filter rules, `config.rs` | the configuration, loaded from a file at start and then fixed | `from_config`, `should_forward`, `should_forward_question`, `should_forward_record` | called by the reflector |
| Tracking manager and HTTP API, `server.rs` | four counters, the buffer of messages, the time of the last flush, all behind one tokio `Mutex` | `record_message_deferred`, `prepare_flush_task`, `flush_stats`, `api_history`, `api_clear`, `api_stats` | spawns jobs on tokio's blocking pool, which call the database |
| SQLite database, `database.rs` | tables `messages`, `message_items`, `global_stats` | `batch_insert_messages`, `save_global_stats`, `load_global_stats`, `prune_old_records`, `query_messages`, `clear_tracking_data` | called from jobs, each with a connection of its own, without the manager's Mutex |
| Process, `main.rs` | running, stopping, gone | start, wait for `ctrl_c`, flush under the Mutex, drop the runtime | everything |
| DNS parser and packet, `mdns/` | none (functions) | `parse_mdns_packet`, `serialize` | called by the reflector |
| Dashboard, `static/app.js` | view, page, number of pages, filters and page size, refresh timer, what is drawn | polls `/api/stats` and `/api/history`, posts `/api/clear` | HTTP API |

### What is hard

* **Jobs without order.** A flush takes the buffer under the Mutex and is then
  executed by a pool thread, statement by statement, while others do the same.
  Nothing orders two jobs: batches, counter snapshots, prunes, clears and queries
  interleave between any two SQL statements.
* **State used after the lock is gone.** A batch, a copy of the counters, or
  the excess counted by a prune is stale when it is used.
* **Shutdown.** `main()` holds the Mutex during its last flush, older flushes
  are still running, queued ones are dropped by the runtime, and the reflector goes
  on recording between the two.
* **Failure.** Every database error is ignored; a batch that fails is lost, and
  a start that cannot read the counters begins at zero.
* **Time.** The flush interval is only looked at when a message arrives.
* **Bytes.** A packet comes from anybody. Names are chains of labels and pointers
  that may lead anywhere in it; what is kept of a packet is written anew, with
  names compressed against other names than before.
* **Rules.** A glob pattern is turned into a regular expression and matched against
  a name that was decoded, lowered and trimmed on another path than the pattern.
* **Answers without order.** The page does not wait for a reply before it sends the
  next request; a reply that was overtaken is drawn all the same, and one reply is
  read by three statements.
* **Routing.** One packet goes to several interfaces in any order, whole or item
  by item, and sending may be impossible for one of them; the history has to say
  what really happened to each item at each interface.
* **Back-pressure.** The channel is bounded; receive tasks wait when it is full.
  The loop that empties it waits for the manager's Mutex, which requests and
  `main()` take too.

`PROJECT.json` lists each of these at its line under `hazards`, with the
properties that watch it, or the reason none does yet.

### What makes it correct

* Tracking: a recorded message is in one place, and moves buffer -> batch ->
  database -> pruned or cleared; it is never stored twice, never comes back, and
  never vanishes silently. The counters add up wherever they are. The buffer is
  never full or overdue. A history reply shows all that was recorded before it. The
  database respects its limits. Shutdown ends.
* Reflector: only what the rules grant goes out; the first matching rule decides; the
  recorded history is what was sent; no packet is dropped by the queue, and order per interface is kept.
* Parser and serializer: parsing ends, stays inside the packet and always goes
  forward; the packet written from some items of another is read as these items.
* Dashboard: pages deal out the history without gaps or repetitions; what is drawn
  belongs together; once nothing changes it is what the database holds.
* The whole: every packet received is handled once, unless the process ends, and
  counters and database tell what happened to it on the wire.

## 2. Modules

| Module | Models | Lines of the code |
|---|---|---|
| `MessageLog` | abstract: accepted, stored and retired messages | none; it is the specification tracking implements |
| `NumberLemmas` | least numbers, induction and recursion, for the proofs | |
| `Tracking` | manager, jobs, database, process | `server.rs`, `database.rs`, `main.rs` |
| `TrackingProofs` | theorems about `Tracking` | |
| `DnsNames` | characters of a name, lower case, its canonical form | `mdns/packet.rs`, `config.rs` |
| `FilterRules` | loading rules, globs, the decision functions | `config.rs` |
| `Reflector` | receive tasks, channel, loop | `reflector.rs` |
| `ReflectorProofs` | theorems about `Reflector` and `FilterRules` | |
| `Sieve` | `Reflector` and `Tracking` in one process | `reflector.rs`, `main.rs` |
| `SieveProofs` | theorems about `Sieve` | |
| `NameParser` | `parse_name` step by step | `mdns/parser.rs` |
| `NameParserProofs` | theorems about `NameParser` | |
| `PacketCodec` | parsing, keeping some items, serializing | `mdns/parser.rs`, `mdns/packet.rs`, `reflector.rs` |
| `CodecProofs`, `RewriteProofs` | theorems about `PacketCodec` | |
| `HistoryQuery` | filters, order and pages of the history | `database.rs`, `server.rs` |
| `Dashboard` | the history page, its requests, the server's answers | `static/app.js`, `server.rs`, `database.rs` |
| `DashboardProofs` | theorems about `HistoryQuery` and `Dashboard` | |
| `MCTracking`, `MCReflector`, `MCSieve`, `MCNameParser`, `MCPacketCodec`, `MCDashboard` | symmetry, files, packets and messages for TLC | |

`FilterRules` and `PacketCodec` extend `DnsNames`, `Reflector` extends `FilterRules`,
`Dashboard` extends `HistoryQuery`, and `Sieve` instantiates `Reflector` and
`Tracking`.

### Tracking

`stats`, `buffer`, `lastFlush` are the fields of `CommandServerManager`; `rows`,
`items`, `dbStats` are the three tables; `job[j]` is a `spawn_blocking` closure
with the statement it executes next (`pc`) and what it carries: a batch, a snapshot
of the counters, the excess it counted, the time. `job[Main]` is the flush `main()`
executes itself. `gone`, `lost` and `wipedAt` are history variables: messages
deleted on purpose, messages that died in memory or in a failed insert, and
the request time of the last completed wipe.

Every action of the manager is one critical section of its Mutex (`Record`,
`HistoryRequest`, `ClearRequest`, `ShutdownFlush`); every action of a job is one SQL
statement or transaction:

| Job | Steps |
|---|---|
| flush (`FlushTask::execute`) | `Start`, `Insert`, `Save`, `Expire`, `Count`, `Trim` |
| history (`api_history`) | `Start`, `Insert`, `Save`, `Tally`, `Page`, `Items` |
| clear (`api_clear`) | `Start`, `Zero`, and for a wipe `Unlink`, `Purge` |

`InsertFails` and `StatementFails` are the error paths, which skip what the code
skips and go on. `Interrupt`, `ShutdownFlush`, `MainReturns`, `RuntimeDrops`,
`Exit` follow `main()` and the drop of the runtime, in which queued closures are
dropped (`Cancel`) and running ones are waited for. `Terminate` is a signal
nobody handles; `Restart` is `CommandServerManager::new`.

Choices a reader should know:

* A message is its timestamp, and each `Record` advances the clock. So no two
  messages have the same timestamp and the wall clock never goes back.
* Tracking and the web server are enabled. Without tracking there is no buffer.
* A history query is unfiltered and its page holds every row.
* A pool slot stands for a job queued or running. tokio's queue is not bounded,
  so an action that needs a free slot is a bound on the jobs in flight, not a wait
  in the code. `Jobs` is that bound.
* A committed statement survives the end of the process (the database is in WAL
  mode). Loss of power is not modelled.
* `Save` also reads the clock that the DELETE of `prune_old_records` uses, which
  the code reads right after.
* The loop ends for good when the process does; `RuntimeDrops` ends the tasks.

### Reflector and FilterRules

`channel` is the mpsc channel, `holding[i]` what the task of interface `i` has
received and not yet queued, `current`, `todo` and `routing` the iteration of the
loop: the message, the destinations left, and for each item where it went and
did not go. `Take`, `RouteTo(dst)` once per destination in any order (the code
iterates a `HashMap`), and `Record` are one iteration. `sent`, `recorded`,
`skipped` are history. `RouteTo` covers both modes and a `serialize()` that
fails. The code discards the result of `send_to`; `sent` is the calls made.

`file` is the configuration file and `config = Load(file)` what the process made of
it: `FromConfig` lowers and trims each pattern (`Canon`) and translates it to a
regular expression (`Regex`, one `Token` per character), and `IsMatch` is that of
the regex library, anchored at both ends. Rules match the canonical form of a
name. The properties do not use any of this: they speak of the file, with `Globs`
as the reference for what a pattern means.

An item is a question or a record with the set of names a rule may look at (its
name and target). Services and hosts of a rule are treated alike by the code and
are one set of patterns, and so are the three record sections.

### Sieve

Both modules' variables, and every action of `Reflector` and `Tracking` that is
possible in one life of the process, with tracking's `Record` joined to the
reflector's: the loop awaits the Mutex (`LockFree`), then counts and buffers the
message with the disposition it has computed. Tasks run while the runtime does
(`Alive`); `RuntimeDrops` ends them wherever they are. `stamp` is history: which
timestamp each recorded message got. There is no `Tick`, because the clock is
only looked at when a message arrives and tracking alone has it, and there are no
HTTP requests, which the tracking runs cover.

### NameParser and PacketCodec

`NameParser` has one action per way a turn of the loop in `parse_name_internal` can
go (`Follow`, `TakeLabel`, `Root`, `Fail`). The recursion through
`resolve_pointer` is one walk: what a caller still does after its callee returns is
to put its labels in front and to return the offset after its own pointer, which
is `next`. `steps` is history. A label is the offset of its length byte.

`PacketCodec` has the same parser as a function (`Name`), and everything around it:
questions, records, decoded rdata, sections by the counts of the header. Its
actions follow a packet through rewrite mode: `Parse`, `Rewrite` (any part of the
items is kept, which the rules decide; all or none is not rewritten), and `Reread`
by the next daemon, which writes it once more. `Serialize` is `DNSPacket::serialize`
with its compression dictionary, 63-byte limit and patched lengths.

* What the code does by recursion or in a loop over bytes is a recursive function on
  sequences (`Name`, `Lossy`, `Strings`, `Parts`, `Encode`, `Labels`), or on the number of
  items done (`ReadSection`, `WriteSection`, `KeepSome`), so that it can be proved about.
* A string is a sequence of characters (`Char`, the Unicode scalar values). `Lossy` is
  `from_utf8_lossy` on any bytes: what is whole UTF-8 is kept, and what has begun as a
  character and is none (`Begun`: its first byte and as many as go on from there) becomes one
  U+FFFD. `Encode` writes a string as UTF-8, so `len()` is that of the bytes.
* `to_lowercase` is `Lower` of `DnsNames`, with what Unicode says as constants: `LowerCase` is
  the lower case of characters beyond ASCII, one or more characters each, `Cased` and
  `Ignorable` are what the final sigma depends on. ASCII and the sigma are written out.
  `CaseAssumption` asks of `LowerCase` what holds of Unicode: lower case stays as it is and
  has no dot, newline or sigma in it. The theorems hold for any such constants; the runs take some
  letters that stay as long, and two whose lower case takes more bytes (U+0130, U+023A).
* The next daemon receives into a buffer of 65535 bytes (`MaxDatagram`), so `Reread` is of
  packets up to that length. In a longer one rdata can be longer than its length field says.
* The decoded summary of rdata is kept as the names and the rest it consists of,
  without its layout.
* Records whose rdata is too short for their type have no target and no summary,
  as in the code.
* A name with a label that ends with a dot, unless it is the last, or starts with one, comes
  out as several labels, one of them empty, which ends it early. `Splittable` leaves it out
  of `RewriteFaithful` and `RewriteStable`: once a name is a string, the code has no way to
  represent it.
* The parser reads the name in rdata from the whole packet: it may follow pointers, or run
  on past the rdata. Where the name is written anew (`PTR`, `SRV`) that is harmless; where
  rdata is copied, the copy means something else elsewhere. `NeedsPacket` says of which
  records that is so: `OwnName` reads the copied bytes alone, with all pointers refused.
  `RewriteFaithful` leaves these records out; `RewriteStable` only PTR and SRV among
  them, which had no target in the first packet and may have one in the second.

### HistoryQuery and Dashboard

`HistoryQuery` is `query_messages`: `Selected` the WHERE clause, `Newer` and `Ordered` the
order, `Limit`, `PageNumber` and `Offset` the arithmetic (in integers that wrap, as in a
release build; `Sign` is the first that is negative), `TotalPages` that of `api_history`. `IsPage` is
the reference: a page by the ranks of its messages.

`Dashboard` is one open page. `call[j]` is a `fetch` that is awaited, with the filters,
page and page size it was sent with and the reply the server makes of it statement by
statement (`Tally`, `Page`, `Items`; `Unlink`, `Purge` of a clear). The user acts
through `GoToPage`, `Choose`, `Type`, `SwitchMainView`, `ToggleAutoRefresh` and
`ExecuteClear`; `Refresh` is the timer; the `...Answered` actions are what the code does
after each `await`. `Store` and `Prune` change the tables meanwhile; any statement or
request may fail.

* A text is the set of search terms that occur in it: SQL's `LIKE` is a library's.
* The time filters are fixed; a time range that slides with the clock is not.
* `seen`, `exact` and `shown.call` are history: what the tables were when the reply
  was counted, and whether they changed before it was complete.
* `ReplyExact` and `ShownTogether` are about replies that no change of the tables and no error
  came into: the code reads one reply by three statements and lets the others happen.
* `executeClearStats` is modelled with the history ticked; without it, it only resets
  counters.
* `refreshData` after a clear and at page load is a counter, `refreshes`, because the
  page may have no request free at that moment in the model; a browser has.
* Offsets of 2^63 and more, which only a client other than the page asks for, wrap to
  the first rows. `PagesPartition` leaves them out.

## 3. Runs

| Run | Instance | Shows |
|---|---|---|
| `tracking_core` | 2 slots, 4 ticks, history and wipe requests | `TypeOK`, `ExactlyOnce`, `BufferFresh`, `HistoryComplete` |
| `tracking_faults` | 1 slot and main's flush, 3 ticks, one failure, one kill, all requests, all dispositions | `StatsBalanced`, `WholeMessages`, `ImplementsLog` |
| `tracking_live` | 2 slots, 3 ticks, resets, SIGINT, fairness | `CappedWhenQuiet`, `BatchLands`, `ShutdownCompletes` |
| `reflector_rules` | 3 interfaces, every list of up to 2 of 16 rules, every default and mode, every set of sockets, 6 packets | `TypeOK`, `LogMatchesWire`, `DispositionExact`, `OnlyGranted`, `FirstMatchWins` |
| `sieve` | 2 interfaces, 3 packets, a channel of 2, 1 slot, SIGINT and SIGTERM, fairness | `Conserved`, `CountersTrue`, `InOrder`, `LogsPackets`, `EveryPacketHandled` |
| `codec_names` | every packet of 4 chunks, pointers to all its parts, a limit of 1, every start | `WorkBounded`, `Advances`, `ReadsTheName` |
| `codec_packets` | packets of a question or record and two more records, every part kept | `RewriteFaithful`, `RewriteStable`, `FailsOnlyForGrownLabels` |
| `dashboard` | 2 requests on their way, 3 messages, 2 settings of the controls, fairness | `PagesPartition`, `ReplyExact`, `ShownTogether`, `Settles` |

Four more runs each show a place where the code does not do what its
documentation or a test says. They are expected to fail, and do:

| Run | Property | What happens |
|---|---|---|
| `tracking_wiped` | `WipeIsFinal` | a flush under way when the history is purged puts old messages back after it |
| `tracking_polled` | `DatabaseBounded` | every history request restarts the flush interval with a flush that does not prune; refreshing the history page often enough keeps the database growing |
| `codec_decoded` | `DecodedDataSurvives` | the rdata of a CNAME record is a pointer to the name of another record, which the rules drop; copied as it is, it decodes to the name that is now there |
| `dashboard_past_end` | `PageExists` | the history shrinks while its last page is on show; a refresh asks for that page again and draws "Showing 2 - 1 of 1" and "Page 2 of 1" |

What the code also does, and no property states otherwise:

* SIGTERM is not caught (`main.rs:53` waits for `ctrl_c`, which is SIGINT): it is a `Terminate`,
  and the buffer is lost. `src/README.md:120` says that it is flushed.
* An older flush may save its counters after main's last flush has saved newer ones, and an
  orderly exit then leaves a total below the number of messages stored. `StatsBalanced` says that
  each copy is consistent, not that the last one saved is the latest.
* There is no timer: on a network gone quiet the buffer is kept until something arrives or
  asks. `BufferFresh` says what is left of the interval.
* A pattern's `*` and `?` do not match a newline in a name (the regex `.`), so a drop rule for
  every name does not stop a name with one, although `src/config-sample.yaml:36` says that the first
  matching rule wins. `FirstMatchWins` leaves items with such a name out.
* Two flushes that both count before either deletes remove the excess twice.
* In whole-packet mode known answers leave with their query.
* The pointer limit of 20 admits 21 pointers (`ReadsTheName` says so).
* On a page two or more past the end of a history that has shrunk, the button for the
  previous page does nothing (`historyGoToPage`); First and Last do.
* A kill between the two DELETEs of a clear leaves messages without items (`WholeMessages`
  leaves kills out), and a start that cannot read the saved counters begins at zero.
* A packet that was sent but not yet recorded when the runtime is dropped is in no
  place of the history.

### Bounds

* Two slots are enough for two jobs between any two of each other's statements.
  All races found, and those `CappedWhenQuiet` and `HistoryComplete` exclude, are
  between two jobs; with main's flush there are three. The proofs cover any
  number.
* A threshold of 2 and an interval of 1 to 3 make both reasons for a flush
  occur; `MaxTime` (3 or 4) makes a batch of two, a flush of one and a message
  left in the buffer possible in one run. A `MaxRecords` of 1 makes pruning by
  count necessary after every full batch, and `Retention` is shorter than the run
  where `Expire` has to delete. In `tracking_polled` the clock (6) goes three times round the
  interval (2): a flush prunes first, and requests then restart the interval.
* One failure (`MaxFaults`) and one kill (`MaxKills`) reach every error path
  and a restart from every state of the database. Orderly shutdowns are not bounded.
* Where a run leaves out requests or signals, another has them.
  `tracking_live` has no history request because with them `CappedWhenQuiet` does
  not hold, which is what `tracking_polled` shows.
* In `reflector_rules` the channel holds one packet and one arrives: routing a
  packet does not depend on the one before. The patterns differ from the names in
  case, also of a letter with an accent, a final dot, a literal dot where another name has a
  letter, `*` and `?`. One packet has a name with a newline.
* In `sieve` three packets fill the channel of 2 with a task waiting before the loop takes
  one, and fill it while the loop waits for the Mutex. A threshold of 2
  makes a batch be on its way while `main()` flushes the rest.
* In `codec_names` four chunks let a chain go forward, back, into itself and into
  the middle of a label, and break off anywhere; with a limit of 1 chains are on
  both sides of it.
* In `codec_packets` a record's name and data can each be new, equal to, or a
  suffix or extension of an earlier one, in other letter case, and its data can
  point to what is dropped, or end before its name does. Labels have letters of two and three
  bytes, sigmas within and at the end, U+FFFD, broken characters, and just too many bytes as
  received, after decoding and after lowering. Every prefix of one packet is among the inputs.
  `codec_decoded` has packets of two records, the second with a pointer to the first's name in
  its rdata. The offset where names stop being remembered (16383) and the largest
  datagram are beyond these packets; the theorems cover them.
* In `dashboard` three messages on pages of one make pages appear and, by prunes
  and wipes, disappear; the message that was stored second is older than the first. `MaxEvents`
  (2) bounds what the user does, prunes and failures together; the timer, arriving
  messages and the first switch to the history are not counted. `Sign` is 8, so
  that the largest pages asked for pass the sign bit.
* Symmetry is over pool slots and only in `tracking_core`, which checks
  no liveness.

The violation runs that stop when the clock reaches `MaxTime` have
`CHECK_DEADLOCK FALSE`, and so do the reflector, `sieve` and codec runs, whose packets
run out, and `dashboard`, where a page without a timer may wait for its user. In
the tracking runs that pass, a request or a restart is always possible.

### Fairness

* `WF(JobStep(j))`: a pool thread runs the closure it took, and no SQLite call
  blocks for ever (the busy timeout of `get_connection` turns waiting into an error). A
  queued closure is picked up since the pool starts threads as needed.
* `WF(ShutdownFlush)`: tokio's Mutex is fair, and none of its holders awaits
  anything while holding it.
* `WF(MainReturns)`, `WF(RuntimeDrops)`, `WF(Exit)`: `main()` runs on, and so does
  the drop of the runtime.
* `WF(Tick)`: time passes.
* `sieve`: `WF` of the loop and of each task's `send`, since tokio polls its tasks and
  the channel serves its waiting senders in turn; of every job and of `MainReturns`,
  which give the Mutex back. `EveryPacketHandled` needs no more.
* `dashboard`: `WF` of the timer while it is set and of the server's next statement or
  answer for every request. The page has no timeout; a request that fails is an
  event, and bounded.

There is none for messages, the user, signals, kills and restarts.

## 4. Proofs

`TrackingProofs` is about `Tracking` with any pool, threshold, interval, limits, requests, signals and bounds, under the assumptions named there
(`SlotsAssumption`, `ConfigAssumption`, `InputAssumption`, `BoundAssumption`);
`ReflectorProofs` about `Reflector` with any interfaces, files, packets and
capacity (`ReflectorAssumption`); `SieveProofs` about their composition with all of these
(`SieveAssumption`); `NameParserProofs` about `NameParser` with any packets and any
limit (`ParserAssumption`); `CodecProofs` and `RewriteProofs` about `PacketCodec` with any
packets of bytes and any pointer limit (`CodecAssumption`), and, as `ReflectorProofs`, with any
letters (`CaseAssumption`); `DashboardProofs` about `Dashboard` with any messages, controls
and number of requests (`PagingAssumption`, `MessagesAssumption`, `DashboardAssumption`: the
page sizes offered are within the limit, and the history is not so long that the offset of
its last page passes 2^63). `NumberLemmas` has what all of them use.

| Theorem | Says |
|---|---|
| `TypeCorrect` | `Tracking!Spec => []TypeOK` |
| `BufferStaysFresh` | `Spec => []BufferFresh` |
| `StatsStayBalanced` | `Spec => []StatsBalanced` |
| `MessagesKeptOnce` | `Spec => []ExactlyOnce` |
| `TrackingImplementsLog` | `Spec => ImplementsLog` |
| `HistoryIsComplete` | `Spec => []HistoryComplete` |
| `MessagesStayWhole` | `Spec => []WholeMessages` |
| `RecordLimitKept` | `Spec => [](faults = 0 /\ kills = 0 => CappedWhenQuiet)`, if nobody asks for the history |
| `ReflectorTypeCorrect` | `Reflector!Spec => []TypeOK` |
| `HistoryMatchesWire` | `Spec => []LogMatchesWire` |
| `DispositionsExact` | `Spec => []DispositionExact` |
| `RecordedInOrder` | `Spec => []InOrder` |
| `RegexIsGlob` | a text the regular expression of a pattern matches, the glob matches, and conversely without newlines |
| `OnlyGrantedLeaves` | `Spec => []OnlyGranted` |
| `FirstRuleWins` | `Spec => []FirstMatchWins`: about items without a newline in a name |
| `PacketsConserved` | `Sieve!Spec => []Conserved` |
| `SieveRecordsInOrder` | `Spec => []InOrder` |
| `CountersStayTrue` | `Spec => []CountersTrue` |
| `SieveLogsPackets` | `Spec => LogsPackets`: the daemon implements `MessageLog` |
| `ParserTypeCorrect` | `NameParser!Spec => []TypeOK` |
| `ParserWorkBounded` | `Spec => []WorkBounded` |
| `ParserAdvances` | `Spec => []Advances` |
| `ParserReadsTheName` | `Spec => []ReadsTheName` |
| `HistoryKept` | `PacketCodec!Spec => []History` |
| `FailsOnlyForGrown` | `Spec => []FailsOnlyForGrownLabels`: only for U+FFFD, or a letter with a longer lower case |
| `Faithful` | `Spec => []RewriteFaithful`: names that split into an empty label and rdata that needs its packet left out (`codec_decoded` shows the latter) |
| `Stable` | `Spec => []RewriteStable`: with the same names left out, and PTR and SRV records without a target |
| `PagesArePartition` | `Dashboard!Spec => PagesPartition` |
| `RepliesAreExact` | `Spec => []ReplyExact`: of replies that nothing came into |
| `RowsShownTogether` | `Spec => []ShownTogether`: of replies that were neither torn nor cut short |

The argument for tracking:

1. *Types.* `TypeOK` alone is not inductive: the excess of a prune is the
   cardinality of a set, a number only if the set is finite. It is,
   because every message anywhere is older than the clock (`Past`). `Typed` is
   both.
2. *Freshness.* A message is only added when no flush is due. All other changes
   of the buffer or of `lastFlush` empty the buffer, but for `Restart`: so the
   invariant also says that the buffer is empty while the process is down.
3. *Counters.* Zeros and `Counted` keep the balance; every other value is a copy.
4. *Exactly once.* Two more facts are needed. `Carried`: what a job that was
   not yet started carries, so that a job that skips the insert has nothing to lose;
   `MainIdle`: main's slot is free when it flushes. `Consistent` is `Typed`
   and both. `JobStepMoves` then says what any of the fourteen job steps
   does to messages: it ends a batch, part of it stored and the rest lost, or it
   deletes rows, or neither. `SpawnMoves`, `CancelMoves` and `DieMoves` say it of
   the other actions. A new message is in none of the places because its
   timestamp is in the future of all of them.
5. *Refinement.* With `pending` the buffer and all batches, `stored` the rows, and
   `retired` what is `gone` or `lost`, the same lemmas make each step an
   `Accept`, a `Store`, a `Retire` or a stutter (`StepRefines`).
6. *Complete replies.* What a history job wants (`Wanted`) is among rows, `gone` and
   its own batch until its page is read, and then on the page or `gone`. Rows only
   leave for `gone`, and the job inserts its batch before it counts
   (`JobStepHistory`).
7. *Whole messages.* Items and rows differ only after an `Unlink`, which leaves its job
   at `purge`; the only way on from there without a failure or a kill empties both. That the
   process cannot end in between takes `KindFits`: main's own job is never a clear.
8. *The record limit.* Each flush counts after it has inserted, so of all that are under way
   the last to insert counts after all of them. `Pruned` says it of states: the table is
   within its limit, or some job has still to count, or is about to delete at least what
   is too many. A job that finishes leaves nothing to do or another one that has
   (`JobStepPrunes`); two that count the same excess delete it twice, which only makes the
   table smaller. A history request saves without pruning, hence the assumption
   (`tracking_polled` shows the property violated without it).

For the reflector, `LogMatchesWire` needs to know that what is sent later is never
sent under the number of a recorded message: `Apart` says that a packet is in one
place only, `SentDone` that only packets the loop took were sent. `Told` is
`LogMatchesWire` for a message and a set of destinations still to do; `RouteTo` takes
one out of it. `DispositionExact` follows from `Told` for recorded messages. For
`InOrder`, `Ordered` says that recorded, current, queued and held messages of an
interface follow each other, and a new packet has the largest number. That needs
`Apart`, too.

For the rules, `IsMatch` is a recursive function that works from the end of the regular
expression and keeps the places in the text from which the rest matches, while `Globs` says
that the text can be cut into pieces, one for each character of the pattern. `MatchPlaces`
gives the function by its equation, and `CutsLast` and `CutsNext` show that whether a cut
exists for the rest of a pattern obeys the same one. `CanonKeeps` shows that lowering
and trimming on different paths ends in the same form. `Decide` finds the first rule
that hits (`FirstHit`), and `SInv` adds to the reflector's invariant that what was sent
was let through.

For the composition, every step of `Sieve` is a step or a stutter of each part, and the
loop's record is a step of both (`StepParts`), so the invariants of the parts hold.
`SieveInv` adds how they agree: every recorded message has a timestamp at which tracking has
it in one of its places (`Stamped`), and any copy of the counters, in memory, in a job or in
the database, counts the records up to some moment (`Counting`). `Placed` of
`ReflectorProofs` is the conservation of packets. The
refinement of `MessageLog` maps a recorded packet to where its timestamp is.

For the parser, the work done is bounded by what is left: a turn of the loop that
follows no pointer moves the offset on within the packet, and one that does uses up
one of the pointers allowed, which are distinct (`WorkInv`). `next` is set once, after the start, and by a turn that read to there.

`ReadsTheName` compares the walk with `Names[k][o]`, the names that end after at most `k`
pointers. The walk keeps to it (`Walk`): what is still to be read is the name at the
current offset with the pointers that are left. The difficulty is a pointer to a target
passed before, which the code refuses: it has to be shown that no name was there. `Nearer`
does: a name at a target that was passed has an end no further from it than one from where the
walk is now. When the walk comes to the same target again, the name with the fewest
pointers there would have one with fewer yet (`RepeatedIsNoName`, by `LeastNumber`).

For the codec, the invariant is the history of a packet (`History`): each of `packet`, `kept`,
`out`, `reread` and `again` is what the functions make of the one before. The rest is about
these functions, and says that what is written is read:

1. *Functions by their equations.* `LengthRank` and `ReadRank` are the ranks that make the
   recursive functions well-founded: sequences get shorter; a name follows a pointer that
   was not followed before, or moves on in the packet (`EncodeIs`, `LossyIs`, `PartsAre`,
   `LabelsAre`, `NameIs`). Equations on sequences turn into statements about all of them by
   `SequenceInduction`.
2. *Names as texts.* Every name read is a `Text`. The weight of a text is the least number of
   bytes it can have been received in: one for a U+FFFD, its UTF-8 for any other character.
   `LossyIs` shows by `BegunIs` that decoding never adds weight, so the parts of a name that was
   read weigh at most 63 (`NamePartsShort`). `Lowered` is what lower case does to a text: none of
   it is left to lower, its dots stay where they are, and each part is `Matched` to the one it
   came from, no longer than its weight unless a character in it grows (`LowerIs`, character by
   character). `CanonParts` says so of the canonical form. So a part that does not fit has such
   a character (`GrownPart`), and `serialize` fails for nothing else (`UnsentName`).
3. *What was written stays.* `HeldAt` says that a packet has some bytes at an offset. The
   serializer only adds bytes (`After`), apart from the two of `rdlen`, which are the length in
   the end (`WriteRRIs`).
4. *Names.* A name that is spelled is read back where its bytes are (`HeldName`, by induction
   over its labels, with `LossyEncode`: encoding a label and decoding it is the identity), and a
   pointer to it is read as it (`PointerHeld`). `DictHeld` is the invariant of the serializer:
   every name in the dictionary is spelled at its offset. It holds of a name that is new
   because its offset is below 16383 and the offsets do not wrap in a datagram (`NameWritten`).
5. *Items.* A question or record is read back where it was written (`QuestionWritten`,
   `RecordWritten`); copied rdata decodes to the same if the name in it is its own
   (`OwnNameMoves`: reading it follows no pointer and stays in the rdata, so it reads the same
   bytes in either packet). `ItemRead` is what this means for its looks (`View`) and for writing
   it once more (`Same`).
6. *Sections and packets.* By induction over the items, then for the four sections, each
   starting where the one before ended (`SectionWritten`, `PacketWritten`); the counts in the
   header are below 65536 since they were when the packet arrived and items are only dropped
   (`KeepIs`, `HeaderHeld`).

For the history, messages are ordered by `Newer`, the rank of a message is below their number and
no two share one (`RankGrows`), so every rank is taken (`RankTaken`), a sorted sequence
exists, and each message stands where its rank says (`SortedByRank`). A page has the ranks
from its offset on (`RowsByRank`), which are those whose quotient by the limit is the page
(`PageIsPage`), and `total_pages` is the last that has any (`LastPage`). `HalfRead` is the
invariant of a request: while it is exact, what it has read is that of the tables as they are;
a change of the tables ends that for every reply that is half made (`TornCalls`).
`ShownInv` says that what is on show was drawn from one reply.

Recursive functions are written as functions on a set. `Recursion` (`NumberLemmas`) proves that
such a function is what its equation says if each value depends on values of lower rank only,
and `Induction` and `RankInduction` are stated of sets, not of operators, so that they
can be cited.

Every invariant a passing run checks is proved. Only model-checked: that the properties are
not vacuous and break when the code does (the mutants); and the liveness properties `BatchLands`, `ShutdownCompletes`,
`EveryPacketHandled` and `Settles`, since TLAPS has no rules for fairness and ENABLED.

## 5. Not modelled

* The creation of the schema at start: a fixed list of idempotent statements, some
  of which drop the tables of older versions.
* YAML, and the checks of the configuration it is parsed into.
* Unicode's tables of lower case, which are constants; the layout of decoded data.
* The live view of the page with its charts and counters, themes, settings dialog
  and the drawing of rows.
* Socket options, multicast membership and errors of the kernel, so also a task that
  spins on an error `recv_from` keeps returning.
* `process_command("clear")`: nothing calls it with that command. `extract_names`:
  nothing calls it.
* Loss of power; a wall clock that is set back.
* Build scripts and packages.

## 6. Plan

Written, in this order: `MessageLog`, `Tracking` and its proofs, `FilterRules`,
`Reflector`, `NameParser` and its proofs, `PacketCodec`, `HistoryQuery` and `Dashboard`,
`Sieve`, the proofs of `Reflector`, of tracking's history, of the rules, of `Sieve` and of the
rest of `NameParser`, `DashboardProofs`, `CodecProofs`, `RewriteProofs`. What could follow:

1. That `Name` of `PacketCodec` is what `NameParser` reads, as a theorem.
2. A history page with a sliding time range.
