----------------------------- MODULE MCReflector -----------------------------
(***************************************************************************)
(* Configuration files and packets for TLC.  There are two names, E.l and  *)
(* ebl, each with an acute accent on its E, and patterns that tell them    *)
(* apart; E.l may have ebl as its target, as an SRV record has.  A third   *)
(* name is ebl after a newline.                                            *)
(***************************************************************************)
EXTENDS Reflector

SmallLetters == [c \in {201} |-> <<233>>]
CasedLetters == {201, 233} \cup 65..90 \cup 97..122
IgnorableMarks == {Dot}

svc  == <<201, 46, 108>>
host == <<233, 98, 108>>
line == <<Newline>> \o host

Rule(action, src, dst, section, patterns) ==
    [action |-> action, src |-> src, dst |-> dst, section |-> section,
     patterns |-> patterns]

Actions == {"forward", "drop"}

\* Rules with one end given, for every section, by name or for any name.
SomeRules ==
    {Rule(a, ends[1], ends[2], sec, {<<233, 46, 76, 46>>}) :       \* e.L.
        a \in Actions,
        ends \in {<<{"*"}, {"lan"}>>, <<{"lan"}, {"*"}>>},
        sec \in {"questions", "answers", "any"}}
    \cup {Rule(a, {"iot"}, {"lan", "*"}, "any", ps) :
             a \in Actions, ps \in {{}, {<<42, 98, 63>>}}}            \* *b?

RuleLists == {<<>>} \cup [1..1 -> SomeRules] \cup [1..2 -> SomeRules]

File(rules, default, rewrite, known) ==
    [rules |-> rules, default |-> default, rewrite |-> rewrite,
     knownAnswers |-> known]

AllFiles == {File(rs, d, w, k) :
                  rs \in RuleLists, d \in Actions, w \in BOOLEAN, k \in BOOLEAN}

Question(ns) == [kind |-> "question", names |-> ns]
RR(ns) == [kind |-> "record", names |-> ns]
Packet(response, its) == [valid |-> TRUE, response |-> response, items |-> its]
Garbage == [valid |-> FALSE, response |-> FALSE, items |-> <<>>]

Query      == Packet(FALSE, <<Question({svc}), Question({host})>>)
KnownQuery == Packet(FALSE, <<Question({svc}), RR({svc, host}), RR({host})>>)
Answer     == Packet(TRUE, <<RR({svc, host}), RR({host})>>)
Lines      == Packet(TRUE, <<RR({line}), RR({host})>>)
Empty      == Packet(FALSE, <<>>)

AllPackets == {Query, KnownQuery, Answer, Lines, Empty, Garbage}

==============================================================================
