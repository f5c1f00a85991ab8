-------------------------------- MODULE MCSieve --------------------------------
(***************************************************************************)
(* A configuration and packets for TLC: a rule that lets a go to lan, so   *)
(* that an answer with a and b goes there in part and not back.            *)
(***************************************************************************)
EXTENDS Sieve

\* Names are ASCII here.
SmallLetters == <<>>
CasedLetters == 97..122
IgnorableMarks == {46}

OneFile ==
    {[rules |-> <<[action |-> "forward", src |-> {"*"}, dst |-> {"lan"},
                   section |-> "any", patterns |-> {<<97>>}]>>,
      default |-> "drop", rewrite |-> TRUE, knownAnswers |-> FALSE]}

RR(name) == [kind |-> "record", names |-> {name}]
Packet(items_) == [valid |-> TRUE, response |-> TRUE, items |-> items_]

SomePackets == {Packet(<<RR(<<97>>)>>), Packet(<<RR(<<97>>), RR(<<98>>)>>), Packet(<<>>)}

===============================================================================
