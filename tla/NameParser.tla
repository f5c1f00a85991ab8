------------------------------ MODULE NameParser ------------------------------
(***************************************************************************)
(* parse_name (mdns/parser.rs): reading one DNS name, a chain of labels    *)
(* and compression pointers, out of a packet whose bytes may be anything.  *)
(*                                                                         *)
(* Every step is one turn of the loop of parse_name_internal.  A pointer   *)
(* ends the loop, and resolve_pointer calls parse_name_internal again:     *)
(* what the callers still have to do is to put their labels in front and,  *)
(* for the outermost, to return the offset after its pointer.  So the      *)
(* whole recursion is one walk, with next the outermost caller's result.   *)
(* A label is the offset of its length byte.  Offsets count from 0.        *)
(***************************************************************************)
EXTENDS Naturals, Sequences, FiniteSets

CONSTANTS
    Inputs,       \* the packets, as sequences of bytes
    MaxPointers   \* the limit resolve_pointer compares with (20)

Byte == 0..255
Packet == Seq(Byte)

ASSUME ParserAssumption ==
    /\ Inputs \subseteq Packet
    /\ MaxPointers \in Nat

VARIABLES
    data,         \* the packet
    start,        \* where the name is said to be
    offset,       \* where the walk is
    labels,       \* labels read so far
    visited,      \* targets of the pointers followed
    next,         \* offset after the name; 0 until it is known
    steps,        \* history: turns of the loop
    pc            \* "scan", "done" or "error"

vars == <<data, start, offset, labels, visited, next, steps, pc>>

At(o) == data[o + 1]
Inside(o) == o < Len(data)

\* The two high bits of a byte tell a pointer from the length of a label.
IsPointer(b) == b >= 192
IsLabel(b) == b \in 1..63
Target(o) == (At(o) % 64) * 256 + At(o + 1)

\* parse_name is called at any offset up to the end of the packet.
Init ==
    /\ data \in Inputs
    /\ start \in 0..Len(data)
    /\ offset = start
    /\ labels = <<>> /\ visited = {} /\ next = 0
    /\ steps = 0 /\ pc = "scan"

PointerUnlimited(o) ==   \* mutant: no limit
    /\ Inside(o + 1)
    /\ Target(o) \notin visited
PointerStrict(o) ==   \* mutant: the limit refuses one pointer earlier
    /\ Inside(o + 1)
    /\ Target(o) \notin visited
    /\ Cardinality(visited) < MaxPointers
\* resolve_pointer follows it: both its bytes are there, it was not followed
\* before, and the limit was not passed before it.
PointerOK(o) ==
    /\ Inside(o + 1)
    /\ Target(o) \notin visited
    /\ Cardinality(visited) <= MaxPointers

LabelFits(o) == o + 1 + At(o) <= Len(data)

Scanning == pc = "scan" /\ Inside(offset)

Follow ==
    /\ Scanning
    /\ IsPointer(At(offset))
    /\ PointerOK(offset)
    /\ visited' = visited \cup {Target(offset)}
    /\ offset' = Target(offset)
    /\ next' = IF next = 0 THEN offset + 2 ELSE next
    /\ steps' = steps + 1
    /\ UNCHANGED <<data, start, labels, pc>>

TakeLabel ==
    /\ Scanning
    /\ IsLabel(At(offset))
    /\ LabelFits(offset)
    /\ labels' = Append(labels, offset)
    /\ offset' = offset + 1 + At(offset)
    /\ steps' = steps + 1
    /\ UNCHANGED <<data, start, visited, next, pc>>

RootInner ==   \* mutant: the innermost call's offset is returned
    /\ Scanning
    /\ At(offset) = 0
    /\ pc' = "done"
    /\ next' = offset + 1
    /\ steps' = steps + 1
    /\ UNCHANGED <<data, start, offset, labels, visited>>
\* A length of 0 ends the name.
Root ==
    /\ Scanning
    /\ At(offset) = 0
    /\ pc' = "done"
    /\ next' = IF next = 0 THEN offset + 1 ELSE next
    /\ steps' = steps + 1
    /\ UNCHANGED <<data, start, offset, labels, visited>>

\* What the three steps above take; everything else is an error.
Readable(o) ==
    \/ IsPointer(At(o)) /\ PointerOK(o)
    \/ IsLabel(At(o)) /\ LabelFits(o)
    \/ At(o) = 0

Fail ==
    /\ pc = "scan"
    /\ ~(Inside(offset) /\ Readable(offset))
    /\ pc' = "error"
    /\ steps' = steps + 1
    /\ UNCHANGED <<data, start, offset, labels, visited, next>>

Next == Follow \/ TakeLabel \/ Root \/ Fail

Spec == Init /\ [][Next]_vars

-----------------------------------------------------------------------------
(* What a name is: the run of labels at an offset, and, if a pointer ends   *)
(* it, the name the pointer leads to.                                       *)

RunEnd[o \in 0..Len(data)] ==
    IF Inside(o) /\ IsLabel(At(o)) /\ LabelFits(o)
    THEN RunEnd[o + 1 + At(o)] ELSE o

RunLabels[o \in 0..Len(data)] ==
    IF Inside(o) /\ IsLabel(At(o)) /\ LabelFits(o)
    THEN <<o>> \o RunLabels[o + 1 + At(o)] ELSE <<>>

\* The names at the offsets that end after at most k pointers: each a set of
\* at most one sequence of labels.
Names[k \in 0..(MaxPointers + 1)] ==
    [o \in 0..Len(data) |->
        LET e == RunEnd[o]
        IN  IF Inside(e) /\ At(e) = 0 THEN {RunLabels[o]}
            ELSE IF /\ k > 0 /\ Inside(e) /\ IsPointer(At(e))
                    /\ Inside(e + 1) /\ Target(e) <= Len(data)
            THEN {RunLabels[o] \o rest : rest \in Names[k - 1][Target(e)]}
            ELSE {}]

-----------------------------------------------------------------------------
(* What parse_name promises *)

\* Type invariant.
TypeOK ==
    /\ data \in Packet
    /\ start \in 0..Len(data)
    /\ offset \in Nat
    /\ labels \in Seq(Nat)
    /\ visited \subseteq Nat
    /\ next \in Nat
    /\ steps \in Nat
    /\ pc \in {"scan", "done", "error"}

\* No packet keeps the parser busy: at most MaxPointers + 1 pointers are
\* followed, and the loop turns a number of times linear in the packet's
\* length, though pointers may go forward, backward, to themselves and into
\* the middle of labels (resolve_pointer, parser.rs:12-19).
WorkBounded ==
    /\ Cardinality(visited) <= MaxPointers + 1
    /\ steps <= (MaxPointers + 2) * (Len(data) + 1)

\* The offset returned is after the start and within the packet, so that
\* parse_mdns_packet goes forward with every item (parser.rs:200-229).
Advances == pc = "done" => start < next /\ next <= Len(data)

\* A name is accepted exactly if it ends after at most MaxPointers + 1
\* pointers (the limit is tested before a pointer is added, parser.rs:15-19),
\* and what is returned is that name and the end of its first run: the check
\* for repeated pointers never refuses a name that has an end.
ReadsTheName ==
    pc # "scan" =>
        /\ Names[MaxPointers + 1][start] = IF pc = "done" THEN {labels} ELSE {}
        /\ pc = "done" =>
              next = RunEnd[start] + (IF At(RunEnd[start]) = 0 THEN 1 ELSE 2)

===============================================================================
