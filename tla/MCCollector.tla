---------------------------- MODULE MCCollector ----------------------------
(* Small instances of Collector for TLC. *)
EXTENDS Collector

CONSTANTS daemon, once, log, db, c1, c2, e1, e2, e3, g1, g2, r1, r2

Row(k, g) == [key |-> k, group |-> g, tokens |-> 1, price |-> NoPrice]
Good(k, g) == [event |-> Row(k, g), ok |-> TRUE]
Poison(k, g) == [event |-> Row(k, g), ok |-> FALSE]

MCKey == {e1, e2, e3} \cup (AccKey \X Instant)
MCGroupOf == [c \in AccKey |-> g1]

(* r1 knows no rate, r2 has one for g1 and none for g2. *)
MCPriceEvent ==
    [rev \in Revision |-> [g \in Group |->
        IF rev = r2 /\ g = g1 THEN [micro |-> 3, class |-> "computed", free |-> FALSE] ELSE NoPrice]]

NoLogs == [s \in {} |-> <<>>]
OneDatabase == [s \in {db} |-> <<c1, c2>>]
OneCell == [s \in {db} |-> <<c1>>]
OneLog == [s \in {log} |-> <<Good(e1, g2), Poison(e2, g1), Good(e3, g1)>>]

OldTables == <<r1>>
NewTables == <<r1, r2>>
DatabaseOnly == <<db>>
Both == <<log, db>>
=============================================================================
