-------------------------------- MODULE Crush -------------------------------
(***************************************************************************)
(* A read of Crush's session database (adapter/crush), which holds one     *)
(* growing cost per session.  A read records how much each session grew    *)
(* past its mark, the highest cost seen; the cost of a sub-agent's session *)
(* is part of its parent's and is left out.                                *)
(***************************************************************************)
EXTENDS Tokens

CONSTANT None

(* The marks: the sessions whose cost was seen. *)
Start == <<>>

(* A session without a mark has been charged nothing. *)
Mark(marks, id) == IF id \in DOMAIN marks THEN marks[id] ELSE 0

(* A cost that is no amount is not taken. *)
microUSD(s) == s.cost # None /\ s.cost >= 0

event(s, mark) ==
    [table |-> "usage", key |-> <<s.id, s.cost>>, of |-> <<s.id>>, tokens |-> s.cost - mark]

readSessions(db) == {s \in db.sessions : s.readable}

(* The sessions of which the row could not be read keep their mark: without *)
(* it their whole cost would be charged again.                              *)
carryUnreadable(db, marks) == DOMAIN marks \ {s.id : s \in readSessions(db)}

CollectIncremental(db, marks) ==
    LET roots == {s \in readSessions(db) : s.parent = None}
        grown == {s \in roots : microUSD(s) /\ s.cost > Mark(marks, s.id)}
        cost == [id \in {s.id : s \in roots} |->
                    LET s == CHOOSE x \in roots : x.id = id
                    IN IF s \in grown THEN s.cost ELSE Mark(marks, id)]
        carried == IF readSessions(db) = db.sessions THEN {} ELSE carryUnreadable(db, marks)
        kept == {id \in DOMAIN cost : cost[id] > 0} \cup carried
    IN [rows |-> {event(s, Mark(marks, s.id)) : s \in grown},
        marks |-> [id \in kept |-> IF id \in DOMAIN cost THEN cost[id] ELSE marks[id]],
        clean |-> TRUE]

Look(db, marks) == CollectIncremental(db, marks)
=============================================================================
