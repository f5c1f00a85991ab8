----------------------------- MODULE MCDashboard -----------------------------
(***************************************************************************)
(* Dashboard for TLC: three messages, the second of them older than the    *)
(* first because its flush came later, and two settings of the controls.   *)
(***************************************************************************)
EXTENDS Dashboard

Message(t, items) ==
    [timestamp |-> t, srcIp |-> {"host"}, srcInterface |-> "lan",
     forwarded |-> {"iot"}, disposition |-> 1, packetType |-> 0, items |-> items]

Item(section, name) == [section |-> section, name |-> {name}, rdata |-> {}]

SomeMessages == << Message(2, {Item(0, "cast")}), Message(1, {Item(1, "cast")}),
                   Message(3, {Item(0, "cast")}) >>

NoFilter == [srcIp |-> Unset, srcInterface |-> Unset, dstInterface |-> Unset,
             disposition |-> Unset, packetType |-> Unset, fromTime |-> Unset,
             toTime |-> Unset, querySearch |-> Unset, responseSearch |-> Unset]

SomeInputs == { [filter |-> NoFilter, size |-> 1],
                [filter |-> [NoFilter EXCEPT !.querySearch = "cast"], size |-> 1] }

===============================================================================
