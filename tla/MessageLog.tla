------------------------------ MODULE MessageLog ------------------------------
(***************************************************************************)
(* What message tracking promises, without saying how it is done.  A       *)
(* message the reflector has handled is accepted once; it is then pending  *)
(* (in memory), stored (a row of the SQLite database) or retired (pruned,  *)
(* cleared or lost), it moves only forward along that path, and it never   *)
(* comes back.                                                             *)
(***************************************************************************)

CONSTANT Message          \* every message that can ever be recorded

VARIABLES
    pending,              \* accepted, not yet in the database
    stored,               \* rows of the messages table
    retired               \* pruned, cleared or lost

logVars == <<pending, stored, retired>>

LogInit ==
    /\ pending = {}
    /\ stored = {}
    /\ retired = {}

\* A new message is recorded.
Accept(m) ==
    /\ m \notin pending \cup stored \cup retired
    /\ pending' = pending \cup {m}
    /\ UNCHANGED <<stored, retired>>

\* One batch reaches the database: kept becomes rows, dropped does not.
Store(kept, dropped) ==
    /\ kept \cup dropped \subseteq pending
    /\ kept \cap dropped = {}
    /\ pending' = pending \ (kept \cup dropped)
    /\ stored' = stored \cup kept
    /\ retired' = retired \cup dropped

\* Messages are pruned, cleared, or lost before they were stored.
Retire(ms) ==
    /\ ms \subseteq pending \cup stored
    /\ pending' = pending \ ms
    /\ stored' = stored \ ms
    /\ retired' = retired \cup ms

LogNext ==
    \/ \E m \in Message : Accept(m)
    \/ \E kept, dropped \in SUBSET pending : Store(kept, dropped)
    \/ \E ms \in SUBSET (pending \cup stored) : Retire(ms)

LogSpec == LogInit /\ [][LogNext]_logVars

===============================================================================
