------------------------------- MODULE Dashboard -------------------------------
(***************************************************************************)
(* The message history as the browser shows it: app.js in one page, the    *)
(* requests it has on the way, api_history and api_clear answering them    *)
(* (server.rs), and the database they read while messages arrive and are   *)
(* pruned (database.rs).  A request is a fetch that is awaited: the page   *)
(* goes on meanwhile, and nothing orders the answers.                      *)
(***************************************************************************)
EXTENDS HistoryQuery

CONSTANTS
    Calls,          \* requests on their way at once
    Inputs,         \* [filter, size] the controls can be set to
    ApiPages,       \* page numbers a client of the API may ask for
    ApiLimits,      \* limits it may ask for
    Opened,         \* messages stored before the page is opened
    MaxEvents       \* bound: what the user does, prunes, and requests and
                    \* database statements that fail, together

\* The sizes the page offers are among those the server takes as they are, and
\* no page of them is so far that its offset wraps.
ASSUME DashboardAssumption ==
    /\ Inputs # {} /\ \A in \in Inputs : in.size \in 1..MaxLimit
    /\ ApiPages \cup ApiLimits \subseteq Nat \cup {Unset}
    /\ Opened \in 0..Len(Messages)
    /\ Len(Messages) * MaxLimit < Sign

VARIABLES
    rows,           \* ids in the messages table
    whole,          \* those with their message_items rows
    arrived,        \* the last id given
    call,           \* the requests
    inputs,         \* filters and page size, as the controls show them
    view,           \* currentMainView
    timer,          \* refreshTimer is set
    refreshes,      \* calls of refreshData not sent yet
    page,           \* currentHistoryPage
    pages,          \* totalHistoryPages
    shown,          \* what renderHistoryTable drew last
    events          \* how many of the bounded events there were

database == <<rows, whole, arrived>>
browser  == <<inputs, view, timer, refreshes, page, pages, shown>>
vars == <<database, call, browser, events>>

-----------------------------------------------------------------------------
(* Data *)

\* A request: by whom, for what, how far, and the reply as it is made.  seen
\* (history) is the tables as the count saw them; exact (history) is lost
\* when they change, or a statement fails, before the reply is complete.
Nothing == [rows |-> {}, whole |-> {}]
NewCall(kind, pc, in, p) ==
    [kind |-> kind, pc |-> pc, filter |-> in.filter, limit |-> in.size,
     page |-> p, total |-> 0, records |-> <<>>, items |-> {},
     seen |-> Nothing, exact |-> TRUE]

Blank == CHOOSE in \in Inputs : TRUE
NoCall == NewCall("none", "idle", Blank, 1)

Idle(j) == call[j].pc = "idle"
Ask(j, kind, in, p) == [call EXCEPT ![j] = NewCall(kind, "count", in, p)]

Inexact(c) == [c EXCEPT !.exact = FALSE, !.seen = Nothing]
\* A table that changes makes every reply it finds half read inexact.
Torn(c) == [j \in Calls |-> IF c[j].pc \in {"page", "items"}
                            THEN Inexact(c[j]) ELSE c[j]]

PagesOf(c) == TotalPages(c.total, Limit(c.limit))

DrawnCurrent(c) ==   \* mutant: drawn as the current page, not the one asked for
    [error |-> FALSE, page |-> page, total |-> c.total, call |-> c,
     pages |-> PagesOf(c), records |-> c.records,
     back |-> page > 1, forth |-> page < PagesOf(c),
     first |-> IF c.total = 0 THEN 0 ELSE (page - 1) * c.limit + 1,
     last |-> Clamp(page * c.limit, 0, c.total)]
\* renderHistoryTable, with the page and the size of the request.  call
\* (history) is the request it drew.
Drawn(c) ==
    [error |-> FALSE, page |-> c.page, total |-> c.total, call |-> c,
     pages |-> PagesOf(c), records |-> c.records,
     back |-> c.page > 1, forth |-> c.page < PagesOf(c),
     first |-> IF c.total = 0 THEN 0 ELSE (c.page - 1) * c.limit + 1,
     last |-> Clamp(c.page * c.limit, 0, c.total)]

Init ==
    /\ arrived = Opened /\ rows = 1..Opened /\ whole = 1..Opened
    /\ call = [j \in Calls |-> NoCall]
    /\ inputs = Blank
    /\ view = "live" /\ timer = TRUE /\ refreshes = 1
    /\ page = 1 /\ pages = 1
    /\ shown = [Drawn(NoCall) EXCEPT !.back = TRUE, !.forth = TRUE]
    /\ events = 0

-----------------------------------------------------------------------------
(* The page *)

\* loadHistoryData asks for page p with the controls as they are.
Load(j, in, p) ==
    /\ page' = p
    /\ call' = Ask(j, "load", in, p)

Event == events < MaxEvents /\ events' = events + 1

\* The four page buttons, as the last drawing enabled them; historyGoToPage
\* ignores a page that is not there.
GoToPage(j) ==
    /\ Event /\ Idle(j) /\ view = "history"
    /\ \E p \in (IF shown.back THEN {1, page - 1} ELSE {})
            \cup (IF shown.forth THEN {page + 1, pages} ELSE {}) :
          /\ p \in 1..pages
          /\ Load(j, inputs, p)
    /\ UNCHANGED <<database, inputs, view, timer, refreshes, pages, shown>>

\* A filter or the page size is chosen, which loads the first page ...
Choose(j) ==
    /\ Event /\ Idle(j) /\ view = "history"
    /\ \E in \in Inputs : inputs' = in /\ Load(j, in, 1)
    /\ UNCHANGED <<database, view, timer, refreshes, pages, shown>>

\* ... while typing into a search field loads nothing until Enter.
Type ==
    /\ Event /\ view = "history"
    /\ \E in \in Inputs : in.size = inputs.size /\ inputs' = in
    /\ UNCHANGED <<database, call, view, timer, refreshes, page, pages, shown>>

SwitchMainView(j) ==
    /\ \/ /\ view = "live" /\ view' = "history"
          /\ Idle(j)
          /\ Load(j, inputs, page)
          /\ UNCHANGED events
       \/ Event /\ view = "history" /\ view' = "live" /\ UNCHANGED <<call, page>>
    /\ UNCHANGED <<database, inputs, timer, refreshes, pages, shown>>

\* The auto-refresh switch; saveSettings restarts a timer that runs.
ToggleAutoRefresh ==
    /\ Event
    /\ timer' = ~timer
    /\ UNCHANGED <<database, call, inputs, view, refreshes, page, pages, shown>>

StatsCall == [NoCall EXCEPT !.kind = "stats", !.pc = "answered"]

\* The timer fires: refreshData asks for the statistics first.  It does not
\* look whether an earlier refresh is still waiting.
Refresh(j) ==
    /\ Idle(j)
    /\ \/ timer /\ UNCHANGED refreshes
       \/ refreshes > 0 /\ refreshes' = refreshes - 1
    /\ call' = [call EXCEPT ![j] = StatsCall]
    /\ UNCHANGED <<database, inputs, view, timer, page, pages, shown, events>>

\* executeClearStats with the history ticked.
ExecuteClear(j) ==
    /\ Event /\ Idle(j)
    /\ call' = [call EXCEPT ![j] = [NoCall EXCEPT !.kind = "clear", !.pc = "unlink"]]
    /\ UNCHANGED <<database, browser>>

-----------------------------------------------------------------------------
(* The answers, in any order *)

RefreshStays(j) ==   \* mutant: the history is left to the user
    /\ call' = [call EXCEPT ![j] = NoCall]
    /\ UNCHANGED page
\* The statistics are there: a history that is on show is loaded again.
RefreshHistory(j) ==
    IF view = "history" THEN Load(j, inputs, page)
    ELSE call' = [call EXCEPT ![j] = NoCall] /\ UNCHANGED page

StatsAnswered(j) ==
    /\ call[j].kind = "stats" /\ call[j].pc = "answered"
    /\ RefreshHistory(j)
    /\ UNCHANGED <<database, inputs, view, timer, refreshes, pages, shown, events>>

\* The clear is answered, whether or not the database was cleared: the first
\* page is loaded, and refreshData is called, whose request waits its turn.
ClearAnswered(j) ==
    /\ call[j].kind = "clear" /\ call[j].pc = "answered"
    /\ refreshes' = refreshes + 1
    /\ IF view = "history" THEN Load(j, inputs, 1)
       ELSE call' = [call EXCEPT ![j] = NoCall] /\ UNCHANGED page
    /\ UNCHANGED <<database, inputs, view, timer, pages, shown, events>>

\* A history reply is drawn whatever was asked for since.
LoadAnswered(j) ==
    /\ call[j].kind = "load" /\ call[j].pc = "answered"
    /\ shown' = Drawn(call[j])
    /\ pages' = shown'.pages
    /\ call' = [call EXCEPT ![j] = NoCall]
    /\ UNCHANGED <<database, inputs, view, timer, refreshes, page, events>>

\* A request fails on its way there or back: a failed load puts a message in
\* place of the rows, a failed refresh loads nothing.
CallFails(j) ==
    /\ Event
    /\ call[j].pc \notin {"idle", "purge"}
    /\ shown' = IF call[j].kind = "load" THEN [shown EXCEPT !.error = TRUE] ELSE shown
    /\ call' = [call EXCEPT ![j] = NoCall]
    /\ UNCHANGED <<database, inputs, view, timer, refreshes, page, pages>>

-----------------------------------------------------------------------------
(* The server: the statements of query_messages and of a wipe *)

\* Each statement succeeds, or fails and leaves its part of the reply empty.
Tally(j) ==
    /\ call[j].pc = "count"
    /\ LET c == [call[j] EXCEPT !.pc = "page"]
       IN  \/ /\ call' = [call EXCEPT ![j] =
                   [c EXCEPT !.total = Counted(rows, whole, c.filter),
                             !.seen = [rows |-> rows, whole |-> whole]]]
              /\ UNCHANGED events
           \/ Event /\ call' = [call EXCEPT ![j] = Inexact(c)]
    /\ UNCHANGED <<database, browser>>

Page(j) ==
    /\ call[j].pc = "page"
    /\ LET c == call[j]
           found == Rows(rows, whole, c.filter, PageNumber(c.page), Limit(c.limit))
       IN  \/ /\ call' = [call EXCEPT ![j] =
                   [c EXCEPT !.records = found,
                             !.pc = IF found = <<>> THEN "answered" ELSE "items"]]
              /\ UNCHANGED events
           \/ Event /\ call' = [call EXCEPT ![j] = [Inexact(c) EXCEPT !.pc = "answered"]]
    /\ UNCHANGED <<database, browser>>

\* The items of the messages found.
Items(j) ==
    /\ call[j].pc = "items"
    /\ LET c == [call[j] EXCEPT !.pc = "answered"]
       IN  \/ /\ call' = [call EXCEPT ![j] =
                   [c EXCEPT !.items = whole \cap Range(c.records)]]
              /\ UNCHANGED events
           \/ Event /\ call' = [call EXCEPT ![j] = Inexact(c)]
    /\ UNCHANGED <<database, browser>>

\* clear_tracking_data: two statements, whose results nobody looks at; only
\* without a connection neither is tried.
Unlink(j) ==
    /\ call[j].pc = "unlink"
    /\ \/ /\ whole' = {}
          /\ call' = Torn([call EXCEPT ![j].pc = "purge"])
          /\ UNCHANGED events
       \/ /\ Event
          /\ \E pc \in {"purge", "answered"} : call' = [call EXCEPT ![j].pc = pc]
          /\ UNCHANGED whole
    /\ UNCHANGED <<rows, arrived, browser>>

Purge(j) ==
    /\ call[j].pc = "purge"
    /\ \/ /\ rows' = {} /\ whole' = {}
          /\ call' = Torn([call EXCEPT ![j].pc = "answered"])
          /\ UNCHANGED events
       \/ Event /\ call' = [call EXCEPT ![j].pc = "answered"] /\ UNCHANGED <<rows, whole>>
    /\ UNCHANGED <<arrived, browser>>

\* A flush stores the next messages, in one transaction ...
Store ==
    /\ arrived < Len(Messages)
    /\ \E n \in arrived + 1..Len(Messages) :
          /\ arrived' = n
          /\ rows' = rows \cup (arrived + 1..n)
          /\ whole' = whole \cup (arrived + 1..n)
    /\ call' = Torn(call)
    /\ UNCHANGED <<browser, events>>

\* ... and a prune deletes the oldest.
Prune ==
    /\ Event
    /\ \E i \in rows :
          LET kept == {k \in rows : Newer(k, i)}
          IN  rows' = kept /\ whole' = whole \cap kept
    /\ call' = Torn(call)
    /\ UNCHANGED <<arrived, browser>>

-----------------------------------------------------------------------------

Serve(j) ==
    \/ Tally(j) \/ Page(j) \/ Items(j) \/ Unlink(j) \/ Purge(j)
    \/ StatsAnswered(j) \/ LoadAnswered(j) \/ ClearAnswered(j)

User(j) ==
    \/ GoToPage(j) \/ Choose(j) \/ SwitchMainView(j) \/ ExecuteClear(j)

Next ==
    \/ \E j \in Calls : User(j) \/ Refresh(j) \/ Serve(j) \/ CallFails(j)
    \/ Type \/ ToggleAutoRefresh
    \/ Store \/ Prune

\* The timer fires while it is set, and every request is served and answered;
\* nobody has to do anything else.
Spec ==
    /\ Init /\ [][Next]_vars
    /\ WF_vars(\E j \in Calls : Refresh(j))
    /\ \A j \in Calls : WF_vars(Serve(j))

-----------------------------------------------------------------------------
(* What the history view promises *)

\* Whatever was stored, pruned or wiped, the pages a client can ask for deal
\* out the matching messages, newest first, without a gap or a repetition, and
\* total_pages is the last page with rows; for every limit, also one that is
\* clamped, and every page whose offset fits an integer (query_messages, and
\* api_history with its own copy of both).
PagesDealOut(r, w, f) ==
    \A p \in ApiPages, n \in ApiLimits :
        LET number == PageNumber(p)
            limit  == Limit(n)
            total  == Counted(r, w, f)
            found  == Rows(r, w, f, number, limit)
        IN  (number - 1) * limit < Sign =>
              /\ IsPage(found, Selected(r, w, f), number, limit)
              /\ (found # <<>>) = (number <= TotalPages(total, limit) /\ total > 0)

PagesPartition ==
    [][<<rows', whole', inputs'>> # <<rows, whole, inputs>>
          => PagesDealOut(rows', whole', inputs'.filter)]_vars

\* A reply that no flush, prune or wipe overlapped, and no failure, is the
\* history as it was when it was counted: the total, the page and the items
\* are read by three statements.
ReplyExact ==
    \A j \in Calls :
        LET c == call[j]
            matching == Selected(c.seen.rows, c.seen.whole, c.filter)
        IN  (c.kind = "load" /\ c.pc = "answered" /\ c.exact) =>
              /\ c.total = Cardinality(matching)
              /\ IsPage(c.records, matching, c.page, c.limit)
              /\ c.items = Range(c.records) \cap c.seen.whole

\* Whatever order replies arrive in, the page number and the rows on show
\* belong together: a row drawn as number n of the history was number n when
\* the reply was made (app.js:739-778 draws with the page and the size of the
\* request, not with the current ones), and past the last page there are no
\* rows.  Left out are replies torn by a change of the tables or cut short by
\* an error, whose rows and numbers are of different moments.
ShownTogether ==
    (~shown.error /\ shown.call.exact) =>
        LET c == shown.call
            matching == Selected(c.seen.rows, c.seen.whole, c.filter)
        IN  /\ Len(shown.records) =
                  IF shown.total = 0 \/ shown.page > shown.pages THEN 0
                  ELSE shown.last - shown.first + 1
            /\ \A n \in DOMAIN shown.records :
                  Rank(shown.records[n], matching) = shown.first + n - 2

\* What is shown is what the database holds on the current page.
UpToDate ==
    /\ ~shown.error
    /\ shown.page = page
    /\ shown.total = Counted(rows, whole, inputs.filter)
    /\ shown.records = Rows(rows, whole, inputs.filter, page, Limit(inputs.size))
    /\ shown.call.items = Range(shown.records) \cap whole

\* Late, lost and overtaking replies are made good: once nothing changes, a
\* history left on show with auto-refresh on comes to show its current page
\* as the database holds it, and stays so, also after a clear that was
\* answered "ok" and failed (refreshData, app.js:357-389).
Settles == <>[](view = "history" /\ timer) => <>[]UpToDate

-----------------------------------------------------------------------------
(* What the documentation says of the code, and the code does not do *)

\* README.md:111 "Provides a detailed, paginated log of received mDNS queries
\* and responses", and historyGoToPage lets nobody go to a page that is not
\* there (app.js:735): of a history that is not empty one of the pages is
\* on show, and its range is not "2 - 1 of 1".
PageExists ==
    (~shown.error /\ shown.total > 0) => shown.page \in 1..shown.pages

===============================================================================
