----------------------------- MODULE PacketCodec -----------------------------
(***************************************************************************)
(* What becomes of a packet in rewrite mode: its bytes are parsed          *)
(* (mdns/parser.rs), some of its items are dropped (reflector.rs), and the *)
(* rest is serialized (mdns/packet.rs) for other daemons to parse.         *)
(*                                                                         *)
(* Bytes are numbers, offsets count from 0.  Strings are those of          *)
(* DnsNames.  What may be missing is a sequence of at most one element.    *)
(* A function on sequences is defined by recursion on their length.        *)
(***************************************************************************)
EXTENDS DnsNames, SequencesExt

CONSTANTS
    Wires,        \* the packets that may arrive, as sequences of bytes
    MaxPointers   \* the limit of resolve_pointer (20)

Octet == 0..255
Octets == Seq(Octet)

ASSUME CodecAssumption == MaxPointers \in Nat /\ Wires \subseteq Octets

VARIABLES
    wire,         \* the bytes received
    packet,       \* what they are parsed to
    kept,         \* the packet of the items the rules let through
    out,          \* what serialize makes of it
    reread,       \* what the next daemon parses out to
    again,        \* and what serialize makes of that
    pc            \* "received", "rejected", "parsed", "rewritten", ...

vars == <<wire, packet, kept, out, reread, again, pc>>

Sections == 1..4   \* questions, answers, authorities, additionals

A == 1
NS == 2
CNAME == 5
PTR == 12
TXT == 16
AAAA == 28
SRV == 33
NSEC == 47

-----------------------------------------------------------------------------
(* Parsing *)

Byte(d, o) == d[o + 1]
Slice(d, o, n) == SubSeq(d, o + 1, o + n)
U16(d, o) == Byte(d, o) * 256 + Byte(d, o + 1)

\* UTF-8: how many bytes a character has that begins with byte b, what may be
\* the second one (any other is in 128..191), and how many bytes of a character
\* a sequence that is not empty begins with: its first, right or wrong, and as
\* many as go on from there.
Wide(b) ==
    CASE b \in 0..127   -> 1
      [] b \in 194..223 -> 2
      [] b \in 224..239 -> 3
      [] b \in 240..244 -> 4
      [] OTHER          -> 0
Second(b) ==
    CASE b = 224 -> 160..191
      [] b = 237 -> 128..159
      [] b = 240 -> 144..191
      [] b = 244 -> 128..143
      [] OTHER   -> 128..191
Goes(s, n) ==
    /\ n <= Wide(s[1]) /\ n <= Len(s)
    /\ s[n] \in IF n = 2 THEN Second(s[1]) ELSE 128..191
Begun(s) ==
    IF ~Goes(s, 2) THEN 1 ELSE IF ~Goes(s, 3) THEN 2 ELSE IF ~Goes(s, 4) THEN 3 ELSE 4
Decoded(s) ==
    CASE Wide(s[1]) = 1 -> s[1]
      [] Wide(s[1]) = 2 -> (s[1] - 192) * 64 + (s[2] - 128)
      [] Wide(s[1]) = 3 -> (s[1] - 224) * 4096 + (s[2] - 128) * 64 + (s[3] - 128)
      [] OTHER -> (s[1] - 240) * 262144 + (s[2] - 128) * 4096
                  + (s[3] - 128) * 64 + (s[4] - 128)

\* from_utf8_lossy: what has begun as a character and is none becomes U+FFFD.
Lossy[bytes \in Octets] ==
    IF bytes = <<>> THEN <<>>
    ELSE <<IF Begun(bytes) = Wide(bytes[1]) THEN Decoded(bytes) ELSE Unknown>>
         \o Lossy[SubSeq(bytes, Begun(bytes) + 1, Len(bytes))]

Targets == 0..16383   \* what a pointer can hold
NoName == [ok |-> FALSE, text |-> <<>>, next |-> 0]

\* parse_name_internal and resolve_pointer; NameParser has their steps.
Name[at \in Octets \X Nat \X SUBSET Targets] ==
    LET d == at[1]
        o == at[2]
        visited == at[3]
        b == Byte(d, o)
        target == (b % 64) * 256 + Byte(d, o + 1)
        sub == Name[<<d, target, visited \cup {target}>>]
        rest == Name[<<d, o + 1 + b, visited>>]
        label == Lossy[Slice(d, o + 1, b)]
    IN  IF o >= Len(d) THEN NoName
        ELSE IF b = 0 THEN [ok |-> TRUE, text |-> <<>>, next |-> o + 1]
        ELSE IF b >= 192
        THEN IF \/ o + 1 >= Len(d) \/ target \in visited
                \/ Cardinality(visited) > MaxPointers \/ ~sub.ok
             THEN NoName ELSE [sub EXCEPT !.next = o + 2]
        ELSE IF b >= 64 \/ o + 1 + b > Len(d) \/ ~rest.ok THEN NoName
        ELSE [rest EXCEPT !.text = label \o (IF @ = <<>> THEN <<>> ELSE <<Dot>> \o @)]

ParseName(d, o) == Name[<<d, o, {}>>]

\* The name at o if it parses; rdata names may run on past the rdata.
Found(n) == IF n.ok THEN <<n.text>> ELSE <<>>
NameAt(d, o) == Found(ParseName(d, o))

\* The strings of a TXT record, empty ones and a truncated last one left out.
Strings[rd \in Octets] ==
    IF rd = <<>> \/ 1 + Head(rd) > Len(rd) THEN <<>>
    ELSE (IF Head(rd) = 0 THEN <<>> ELSE <<Lossy[Slice(rd, 1, Head(rd))]>>)
         \o Strings[SubSeq(rd, Head(rd) + 2, Len(rd))]

\* target_name and rdata_summary of a record with len bytes of rdata at o.
TargetName(d, o, len, type) ==
    CASE type = PTR            -> NameAt(d, o)
      [] type = SRV /\ len > 6 -> NameAt(d, o + 6)
      [] OTHER                 -> <<>>

\* A summary is its names and the rest; its layout is left out.
Summary(names, rest) == <<[names |-> names, rest |-> rest]>>
Named(names, rest) == IF names = <<>> THEN <<>> ELSE Summary(names, rest)
Listed(strings) == IF strings = <<>> THEN <<>> ELSE Summary(<<>>, strings)
RdataSummary(d, o, len, type) ==
    CASE \/ type = A /\ len = 4
         \/ type = AAAA /\ len = 16         -> Summary(<<>>, Slice(d, o, len))
      [] type \in {PTR, NS, CNAME, NSEC}   -> Named(NameAt(d, o), <<>>)
      [] type = SRV /\ len > 6             -> Named(NameAt(d, o + 6), Slice(d, o, 6))
      [] type = TXT                        -> Listed(Strings[Slice(d, o, len)])
      [] OTHER                             -> <<>>

NoItem == [ok |-> FALSE]

\* What follows a name n, and what its rdata is.
QuestionAfter(d, n) ==
    IF ~n.ok THEN NoItem
    ELSE IF n.next + 4 > Len(d) THEN NoItem
    ELSE [ok |-> TRUE, next |-> n.next + 4,
          item |-> [name |-> n.text, type |-> U16(d, n.next),
                    class |-> Slice(d, n.next + 2, 2)]]

RRWith(d, name, o, type, len) ==
    IF o + 10 + len > Len(d) THEN NoItem
    ELSE [ok |-> TRUE, next |-> o + 10 + len,
          item |-> [name |-> name, type |-> type,
                    class |-> Slice(d, o + 2, 2), ttl |-> Slice(d, o + 4, 4),
                    rdata |-> Slice(d, o + 10, len),
                    target |-> TargetName(d, o + 10, len, type),
                    summary |-> RdataSummary(d, o + 10, len, type)]]

RRAfter(d, n) ==
    IF ~n.ok THEN NoItem
    ELSE IF n.next + 10 > Len(d) THEN NoItem
    ELSE RRWith(d, n.text, n.next, U16(d, n.next), U16(d, n.next + 8))

ParseItem(d, o, section) ==
    IF section = 1 THEN QuestionAfter(d, ParseName(d, o)) ELSE RRAfter(d, ParseName(d, o))

NoItems == [ok |-> FALSE, next |-> 0, items |-> <<>>]

AddItem(q, parsed) ==
    IF ~parsed.ok THEN NoItems
    ELSE [ok |-> TRUE, next |-> parsed.next, items |-> Append(q.items, parsed.item)]

\* As many items from o on as the header says.
Count(d, section) == U16(d, 2 + 2 * section)
ReadSection(d, o, section) ==
    LET read[k \in 0..Count(d, section)] ==
            IF k = 0 THEN [ok |-> TRUE, next |-> o, items |-> <<>>]
            ELSE LET q == read[k - 1]
                 IN  IF q.ok THEN AddItem(q, ParseItem(d, q.next, section)) ELSE q
    IN  read[Count(d, section)]

Rejected == [ok |-> FALSE]

\* parse_mdns_packet: an item that does not parse fails the packet.  Of the
\* header, id and flags are kept.
ParsePacket(d) ==
    LET q1 == ReadSection(d, 12, 1)
        q2 == ReadSection(d, q1.next, 2)
        q3 == ReadSection(d, q2.next, 3)
        q4 == ReadSection(d, q3.next, 4)
    IN  IF Len(d) >= 12 /\ q1.ok /\ q2.ok /\ q3.ok /\ q4.ok
        THEN [ok |-> TRUE, head |-> Slice(d, 0, 4),
              sections |-> <<q1.items, q2.items, q3.items, q4.items>>]
        ELSE Rejected

-----------------------------------------------------------------------------
(* Serializing *)

Bytes16(n) == <<(n \div 256) % 256, n % 256>>

\* split('.'): a dot within a label, or at its end, also splits.
Parts[text \in Text] ==
    IF text = <<>> THEN <<<<>>>>
    ELSE LET parts == Parts[Tail(text)]
         IN  IF Head(text) = Dot THEN <<<<>>>> \o parts
             ELSE <<<<Head(text)>> \o Head(parts)>> \o Tail(parts)

\* A string as UTF-8: six bits in each byte but the first.
Later(bits) == 128 + (bits % 64)
Utf8(c) ==
    CASE c < 128               -> <<c>>
      [] c >= 128 /\ c < 2048   -> <<192 + (c \div 64), Later(c)>>
      [] c >= 2048 /\ c < 65536 -> <<224 + (c \div 4096), Later(c \div 64), Later(c)>>
      [] OTHER -> <<240 + (c \div 262144), Later(c \div 4096), Later(c \div 64), Later(c)>>
Encode[part \in Text] ==
    IF part = <<>> THEN <<>> ELSE Utf8(Head(part)) \o Encode[Tail(part)]
LongAt63(part) == Len(Encode[part]) >= 63   \* mutant: off by one
TooLong(part) == Len(Encode[part]) > 63

\* The serializer: the buffer, the names written so far with their offsets,
\* and whether no error has occurred.
Put(w, bytes) == [w EXCEPT !.buf = @ \o bytes]
Written(w) == Len(w.buf) % 65536

LabelBytes(part) == <<Len(Encode[part]) % 256>> \o Encode[part]
Labels[parts \in Seq(Text)] ==
    IF parts = <<>> THEN <<0>> ELSE LabelBytes(Head(parts)) \o Labels[Tail(parts)]

Offset(w, name, at) ==
    [w EXCEPT !.dict = [n \in DOMAIN @ \cup {name} |-> IF n = name THEN at ELSE @[n]]]

RememberLate(w, name) ==   \* mutant: the offset after the first label
    IF Written(w) < 16383
    THEN Offset(w, name, Written(w) + Len(Parts[name][1]) + 1) ELSE w
\* compression_dict.insert, of offsets a pointer can hold.
Remember(w, name) == IF Written(w) < 16383 THEN Offset(w, name, Written(w)) ELSE w

WriteParts(w, name, parts) ==
    IF \E k \in DOMAIN parts : TooLong(parts[k]) THEN [w EXCEPT !.ok = FALSE]
    ELSE Put(Remember(w, name), Labels[parts])

WriteCanon(w, name) ==
    IF name = <<>> THEN Put(w, <<0>>)
    ELSE IF name \in DOMAIN w.dict THEN Put(w, Bytes16(49152 + w.dict[name]))
    ELSE WriteParts(w, name, Parts[name])

WriteName(w, text) == WriteCanon(w, Canon(text))

WriteQuestion(w, q) == Put(WriteName(w, q.name), Bytes16(q.type) \o q.class)

\* The priority, weight and port of an SRV record.
Fixed(rdata) == IF Len(rdata) >= 6 THEN SubSeq(rdata, 1, 6) ELSE [k \in 1..6 |-> 0]

WriteRdataPort(w, r) ==   \* mutant: priority and weight are left out
    CASE r.type = PTR /\ r.target # <<>> -> WriteName(w, r.target[1])
      [] r.type = SRV /\ r.target # <<>> ->
            WriteName(Put(w, <<0, 0, 0, 0>> \o SubSeq(Fixed(r.rdata), 5, 6)), r.target[1])
      [] OTHER -> Put(w, r.rdata)
\* The targets of PTR and SRV are written anew, other rdata is copied.
WriteRdata(w, r) ==
    CASE r.type = PTR /\ r.target # <<>> -> WriteName(w, r.target[1])
      [] r.type = SRV /\ r.target # <<>> ->
            WriteName(Put(w, Fixed(r.rdata)), r.target[1])
      [] OTHER -> Put(w, r.rdata)

\* rdlen is filled in when the rdata is there.
FillIn(w, at, len) == [w EXCEPT !.buf = [@ EXCEPT ![at - 1] = len[1], ![at] = len[2]]]
Sized(w, at) == FillIn(w, at, Bytes16(Len(w.buf) - at))
WriteBody(w, r) == Sized(WriteRdata(w, r), Len(w.buf))
WriteRR(w, r) ==
    WriteBody(Put(WriteName(w, r.name), Bytes16(r.type) \o r.class \o r.ttl \o <<0, 0>>), r)

WriteItem(w, section, item) ==
    IF section = 1 THEN WriteQuestion(w, item) ELSE WriteRR(w, item)

WriteSection(w, section, items) ==
    LET wrote[k \in 0..Len(items)] ==
            IF k = 0 THEN w ELSE WriteItem(wrote[k - 1], section, items[k])
    IN  wrote[Len(items)]

\* DNSPacket::serialize.
Length16(items) == Bytes16(Len(items))
Counts(p) == Length16(p.sections[1]) \o Length16(p.sections[2])
             \o Length16(p.sections[3]) \o Length16(p.sections[4])
Start(p) == [buf |-> p.head \o Counts(p), dict |-> <<>>, ok |-> TRUE]
Serialize(p) ==
    LET w1 == WriteSection(Start(p), 1, p.sections[1])
        w2 == WriteSection(w1, 2, p.sections[2])
        w3 == WriteSection(w2, 3, p.sections[3])
        w4 == WriteSection(w3, 4, p.sections[4])
    IN  IF w4.ok THEN [ok |-> TRUE, buf |-> w4.buf] ELSE Rejected

-----------------------------------------------------------------------------
(* A packet in the loop of the reflector, for one destination *)

Init ==
    /\ wire \in Wires
    /\ packet = Rejected /\ kept = Rejected /\ out = Rejected
    /\ reread = Rejected /\ again = Rejected
    /\ pc = "received"

Parse ==
    /\ pc = "received"
    /\ packet' = ParsePacket(wire)
    /\ pc' = IF packet'.ok THEN "parsed" ELSE "rejected"
    /\ UNCHANGED <<wire, kept, out, reread, again>>

ItemsOf(p) == UNION {{s} \X DOMAIN p.sections[s] : s \in Sections}

\* rewritten_packet: what is kept, in its order.
KeepSome(items, some) ==
    LET keep[k \in 0..Len(items)] ==
            IF k = 0 THEN <<>>
            ELSE IF k \in some THEN Append(keep[k - 1], items[k]) ELSE keep[k - 1]
    IN  keep[Len(items)]
Keep(p, some) ==
    [p EXCEPT !.sections =
        [s \in Sections |-> KeepSome(@[s], {k \in DOMAIN @[s] : <<s, k>> \in some})]]

\* Some items are kept and some dropped: otherwise nothing or wire is sent.
Rewrite ==
    /\ pc = "parsed"
    /\ \E some \in SUBSET ItemsOf(packet) \ {{}, ItemsOf(packet)} :
          /\ kept' = Keep(packet, some)
          /\ out' = Serialize(kept')
    /\ pc' = IF out'.ok THEN "rewritten" ELSE "unsent"
    /\ UNCHANGED <<wire, packet, reread, again>>

\* The same program in the next network reads it, and would rewrite it.  No
\* datagram is longer than the buffer it is received into.
MaxDatagram == 65535
Reread ==
    /\ pc = "rewritten" /\ Len(out.buf) <= MaxDatagram
    /\ reread' = ParsePacket(out.buf)
    /\ again' = IF reread'.ok THEN Serialize(reread') ELSE Rejected
    /\ pc' = "reread"
    /\ UNCHANGED <<wire, packet, kept, out>>

Next == Parse \/ Rewrite \/ Reread

Spec == Init /\ [][Next]_vars

-----------------------------------------------------------------------------
(* What rewriting promises *)

IsRR(item) == "rdata" \in DOMAIN item
NamesIn(item) == {item.name} \cup (IF IsRR(item) THEN ToSet(item.target) ELSE {})
KeptItems == UNION {ToSet(kept.sections[s]) : s \in Sections}
KeptNames == UNION {NamesIn(item) : item \in KeptItems}

\* A name that is split where it was joined, or elsewhere, into real labels:
\* no label starts with a dot, has two in a row, or, but for the last, ends
\* with one.
NoEmptyPart(name) == name = <<>> \/ <<>> \notin ToSet(Parts[name])
Splittable == \A n \in KeptNames : NoEmptyPart(Canon(n))

\* rdata that is copied as it is and holds a name may need the packet it came
\* in: the name has pointers, or runs on past the rdata.
OwnName(rdata, o) == Name[<<rdata, o, Targets>>]   \* no pointer is followed
NeedsPacket(item) ==
    /\ IsRR(item) /\ item.target = <<>>
    /\ \/ item.type \in {NS, CNAME, NSEC, PTR} /\ ~OwnName(item.rdata, 0).ok
       \/ item.type = SRV /\ Len(item.rdata) > 6 /\ ~OwnName(item.rdata, 6).ok

\* A character that may take more bytes than it was received in: U+FFFD, for
\* one byte, or one with a longer lower case.
Grows(c) ==
    \/ c = Unknown
    \/ c \in DOMAIN LowerCase /\ Len(Encode[LowerCase[c]]) > Len(Utf8(c))

\* What a reader of an item sees, case apart.
CanonAll(names) == [k \in DOMAIN names |-> Canon(names[k])]
View(item) ==
    IF ~IsRR(item) THEN <<Canon(item.name), item.type, item.class>>
    ELSE <<Canon(item.name), item.type, item.class, item.ttl, CanonAll(item.target),
           [k \in DOMAIN item.summary |-> [item.summary[k] EXCEPT !.names = CanonAll(@)]],
           IF item.target = <<>> THEN item.rdata ELSE <<>>>>
Views(p) == [s \in Sections |-> [k \in DOMAIN p.sections[s] |-> View(p.sections[s][k])]]

\* The next daemon reads, in the same sections and order, the items that were
\* kept, with the names the rules were asked about, their targets, times and
\* data, whatever was dropped before them: names are compressed anew, against
\* names written before (packet.rs:158-187).  Left out are names that split
\* into an empty label, as one with the label "Acme Inc." does, and copied
\* rdata whose name is not all in it.
RewriteFaithful ==
    (pc = "reread" /\ Splittable /\ \A item \in KeptItems : ~NeedsPacket(item))
    => /\ reread.ok
       /\ reread.head = packet.head
       /\ Views(reread) = Views(kept)

\* A second daemon that rewrites what the first one sent, and keeps all,
\* sends the same bytes: names, offsets and lengths do not drift when
\* reflectors are chained.  Left out are, again, names that split into an empty
\* label, and PTR and SRV records of which the second one may read a target
\* where the first read none.
RewriteStable ==
    (/\ pc = "reread" /\ Splittable
     /\ \A item \in KeptItems : NeedsPacket(item) => item.type \notin {PTR, SRV})
    => again = out

\* serialize() fails for no other reason than a label that has grown beyond
\* 63 bytes, because bytes that are not UTF-8 have become U+FFFD (parser.rs:61)
\* or letters have a longer lower case (packet.rs:159): the label that is too
\* long (packet.rs:179-181) has such a character where it was received.
\* Then the destination gets nothing.
FailsOnlyForGrownLabels ==
    pc = "unsent" =>
        \E n \in KeptNames : \E k \in DOMAIN Parts[Canon(n)] :
            TooLong(Parts[Canon(n)][k]) /\ \E c \in ToSet(Parts[n][k]) : Grows(c)

-----------------------------------------------------------------------------
(* What the documentation says of the code, and the code does not do *)

\* README.md:113 shows records with "decoded record data (A, AAAA, PTR, SRV,
\* TXT, CNAME, NS, NSEC)", and the test at parser.rs:280-286 wants it to
\* survive serialize and parse: what the history shows of a forwarded record
\* is what its receiver decodes.
DecodedDataSurvives ==
    (pc = "reread" /\ Splittable) => reread.ok /\ Views(reread) = Views(kept)

===============================================================================
