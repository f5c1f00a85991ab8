----------------------------- MODULE HistoryQuery -----------------------------
(***************************************************************************)
(* One page of the message history: what query_messages (database.rs)      *)
(* selects and counts, and the arithmetic of pages in it and in            *)
(* api_history (server.rs).                                                *)
(*                                                                         *)
(* A message is named by its row id: id i is Messages[i], and ids grow in  *)
(* the order of insertion, which need not be the order of the timestamps,  *)
(* because flushes overlap.  A text is the set of the search terms that    *)
(* occur in it (ignoring case), an interface list the set of its names;    *)
(* an empty or blank filter is Unset.                                      *)
(***************************************************************************)
EXTENDS Integers, Sequences, FiniteSets, Functions

CONSTANTS
    Messages,       \* the messages that arrive, by row id
    Unset,          \* a filter that is not set
    DefaultLimit,   \* rows per page when the request names none (50)
    MaxLimit,       \* most rows per page (200)
    Sign            \* the least number that is negative as an i64 (2^63)

ASSUME PagingAssumption ==
    /\ MaxLimit \in Nat \ {0}
    /\ DefaultLimit \in 1..MaxLimit
    /\ Sign \in Nat \ {0}
    /\ Unset \notin Nat

Ids == 1..Len(Messages)

ASSUME MessagesAssumption ==
    /\ Len(Messages) \in Nat
    /\ \A i \in Ids : Messages[i].timestamp \in Int

-----------------------------------------------------------------------------
(* The WHERE clause: every filter that is set must hold.  An EXISTS filter  *)
(* only finds items whose rows are there (whole).                          *)

\* A response search looks at the names and at the data of the records.
FoundIn(i, sections, whole, term, dataToo) ==
    /\ i \in whole
    /\ \E item \in Messages[i].items :
          /\ item.section \in sections
          /\ term \in item.name \cup (IF dataToo THEN item.rdata ELSE {})

Matches(i, f, whole) ==
    LET m == Messages[i]
        Set(field) == f[field] # Unset
    IN  /\ Set("srcIp") => f.srcIp \in m.srcIp
        /\ Set("srcInterface") => f.srcInterface = m.srcInterface
        /\ Set("dstInterface") => f.dstInterface \in m.forwarded
        /\ Set("disposition") => f.disposition = m.disposition
        /\ Set("packetType") => f.packetType = m.packetType
        /\ Set("fromTime") => m.timestamp >= f.fromTime
        /\ Set("toTime") => m.timestamp <= f.toTime
        /\ Set("querySearch") =>
              FoundIn(i, {0}, whole, f.querySearch, FALSE)
        /\ Set("responseSearch") =>
              FoundIn(i, {1, 2, 3}, whole, f.responseSearch, TRUE)

Selected(rows, whole, f) == {i \in rows : Matches(i, f, whole)}

CountedAll(rows, whole, f) == Cardinality(rows)   \* mutant: no WHERE clause
\* SELECT COUNT(*).
Counted(rows, whole, f) == Cardinality(Selected(rows, whole, f))

-----------------------------------------------------------------------------
(* Pages *)

\* ORDER BY timestamp DESC, id DESC.
Newer(i, j) ==
    LET t == Messages[i].timestamp
        u == Messages[j].timestamp
    IN  t > u \/ (t = u /\ i > j)

Clamp(n, low, high) == IF n < low THEN low ELSE IF n > high THEN high ELSE n

Limit(n) == Clamp(IF n = Unset THEN DefaultLimit ELSE n, 1, MaxLimit)
PageNumber(n) == IF n = Unset \/ n = 0 THEN 1 ELSE n

\* A sequence of all of S, each newer than those after it.
Ordered(S) ==
    CHOOSE seq \in [1..Cardinality(S) -> S] :
        \A i, j \in DOMAIN seq : i < j => Newer(seq[i], seq[j])

OffsetFromOne(page, limit) == page * limit   \* mutant: pages from zero
\* (page - 1) * limit in usize, then `as i64': it wraps, and SQLite takes a
\* negative offset for zero.
Offset(page, limit) ==
    LET n == ((page - 1) * limit) % (2 * Sign)
    IN  IF n < Sign THEN n ELSE 0

\* LIMIT limit OFFSET n.
Rows(rows, whole, f, page, limit) ==
    LET sorted == Ordered(Selected(rows, whole, f))
        first  == Offset(page, limit) + 1
        most   == Offset(page, limit) + limit
    IN  SubSeq(sorted, first, IF most < Len(sorted) THEN most ELSE Len(sorted))

\* api_history rounds up, and an empty history has one page.
TotalPages(total, limit) ==
    IF total = 0 THEN 1 ELSE (total + limit - 1) \div limit

-----------------------------------------------------------------------------
(* The reference: a page by the rank of its messages among those selected *)

Rank(i, S) == Cardinality({k \in S : Newer(k, i)})

\* The messages numbered from (page - 1) * limit, newest first.
IsPage(seq, S, page, limit) ==
    /\ IsInjective(seq)
    /\ Range(seq) = {i \in S : Rank(i, S) \div limit = page - 1}
    /\ \A n \in DOMAIN seq : Rank(seq[n], S) % limit = n - 1

===============================================================================
