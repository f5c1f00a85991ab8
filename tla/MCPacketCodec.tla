---------------------------- MODULE MCPacketCodec ----------------------------
(***************************************************************************)
(* Packets for TLC: a question, or a record in its place, for the name     *)
(* "Ab.c" at offset 12, then two records with every combination of the     *)
(* names and rdata below, which point to it, to its suffix, and to each    *)
(* other's positions; truncated packets; and packets with a pointer in     *)
(* rdata that is copied.  Bytes above 127 are letters with an accent or a  *)
(* stroke, sigmas, U+FFFD, and what is not UTF-8.                          *)
(***************************************************************************)
EXTENDS PacketCodec

\* U+00C9, U+0130 and U+023A: the last two take more bytes in lower case.
SmallLetters == [c \in {201, 304, 570} |->
                    CASE c = 201 -> <<233>> [] c = 304 -> <<105, 775>> [] c = 570 -> <<11365>>]
CasedLetters == 65..90 \cup 97..122 \cup {201, 233, 304, 570, Sigma, 11365} \cup SmallSigmas
IgnorableMarks == {Dot, 775}

First == <<2, 65, 98, 1, 99, 0>>          \* Ab.c, at 12; c is at 15
ToFirst == <<192, 12>>
ToSuffix == <<192, 15>>

Owners == {<<0>>, ToFirst, <<1, 100>> \o ToFirst, <<2, 97, 98>> \o ToSuffix,
           <<2, 100, 46>> \o ToFirst, <<3, 100, 46, 101, 0>>,
           <<6, 100, 195, 137, 206, 163, 97>> \o ToFirst}

Rec(owner, type, rd) ==
    owner \o Bytes16(type) \o <<128, 1, 0, 0, 0, 120>> \o Bytes16(Len(rd)) \o rd

Port == <<0, 0, 0, 5, 31, 144>>
Longest == <<63>> \o [k \in 1..63 |-> 97] \o <<0>>
Invalid == <<22>> \o [k \in 1..22 |-> 255] \o <<0>>
Grown == <<44>> \o [k \in 1..44 |-> IF k % 2 = 1 THEN 200 ELSE 186] \o <<0>>
Broken == <<9, 255, 226, 130, 239, 191, 189, 240, 159, 152>>
Letters == <<9, 195, 137, 206, 163, 196, 176, 206, 163, 65>>
Datas == {<<A, <<10, 0, 0, 1>>>>, <<PTR, <<1, 100>> \o ToFirst>>, <<PTR, ToFirst>>,
          <<PTR, <<2, 65, 66>> \o ToSuffix>>, <<PTR, Invalid>>, <<PTR, Longest>>,
          <<PTR, Grown>>, <<PTR, Broken \o ToFirst>>, <<PTR, <<192, 255>>>>,
          <<SRV, Port \o Letters \o ToFirst>>, <<TXT, <<1, 120, 0, 2, 121, 122, 9>>>>,
          <<PTR, <<2, 97>>>>, <<CNAME, <<2, 97>>>>, <<CNAME, <<1, 100, 0>>>>,
          <<NSEC, ToFirst \o <<0, 1, 64>>>>, <<99, <<7>>>>}

Header(counts) == <<0, 7, 132, 0>> \o FlattenSeq([s \in Sections |-> Bytes16(counts[s])])

Asked(recs) == Header(<<1, 1, 0, 1>>) \o First \o <<0, 12, 0, 1>> \o recs
Answered(recs) == Header(<<0, 2, 1, 0>>) \o Rec(First, A, <<10, 0, 0, 2>>) \o recs

TwoRecs == {Rec(o1, d1[1], d1[2]) \o Rec(o2, d2[1], d2[2]) :
               o1 \in {<<0>>, ToFirst, <<1, 100>> \o ToFirst}, o2 \in Owners,
               d1 \in Datas, d2 \in Datas}

Whole == {Asked(r) : r \in TwoRecs} \cup {Answered(r) : r \in TwoRecs}
OneWhole == Asked(Rec(ToFirst, PTR, <<1, 100>> \o ToFirst) \o Rec(<<1, 101>> \o ToFirst, A, <<1, 2, 3, 4>>))
SomeWires == Whole \cup {SubSeq(OneWhole, 1, n) : n \in 0..(Len(OneWhole) - 1)}


\* Copied rdata that is all there and points to the name of the record before,
\* d.c at offset 12: when the rules drop that record, e.c is there.
Pointed == {<<CNAME, ToFirst>>, <<NS, <<1, 102>> \o ToFirst>>, <<NSEC, ToFirst \o <<0, 1, 64>>>>}
PointedWires == {Header(<<0, 2, 0, 0>>) \o Rec(<<1, 100, 1, 99, 0>>, A, <<10, 0, 0, 1>>)
                 \o Rec(<<1, 101, 1, 99, 0>>, d[1], d[2]) : d \in Pointed}

==============================================================================
