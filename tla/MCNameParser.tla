----------------------------- MODULE MCNameParser -----------------------------
(***************************************************************************)
(* Packets for TLC: every sequence of chunks, a chunk being the end of a   *)
(* name, a label, a label that a pointer can enter in the middle, half a   *)
(* pointer, a byte with an unknown prefix, or a pointer.                   *)
(***************************************************************************)
EXTENDS NameParser

Chunk == {<<0>>, <<1, 97>>, <<2, 1, 97>>, <<192>>, <<64>>}
         \cup {<<192, t>> : t \in {0, 1, 2, 4, 6}}

SomeInputs == {c[1] \o c[2] \o c[3] \o c[4] : c \in [1..4 -> Chunk]}

===============================================================================
