-------------------------------- MODULE Goose -------------------------------
(***************************************************************************)
(* A read of Goose's session database (adapter/goose): the rows of its     *)
(* usage ledger and, in a second query, the calls of its messages, each    *)
(* behind a row id of its own.  Row ids only grow (AUTOINCREMENT).         *)
(***************************************************************************)
EXTENDS Tokens, SequencesExt

CONSTANT None

(* The two row ids a read resumes behind. *)
Start == [usage |-> 0, messages |-> 0]
Stages == 2

(* A usage of nothing is no row, one without a time is left out for good,   *)
(* and a missing total is the sum of input and output.                      *)
buildEvent(r) ==
    LET all == NonNeg(r.input) + NonNeg(r.output)
        total == IF NonNeg(r.total) = 0 THEN all ELSE r.total
    IN IF all + NonNeg(r.total) = 0 \/ r.at <= 0 THEN {}
       ELSE {[table |-> "usage", key |-> <<r.session, r.id, r.at>>, of |-> <<r.of>>, tokens |-> total]}

Behind(rows, mark) == {r \in rows : r.id > mark}
Reached(rows, mark) == Max({mark} \cup {r.id : r \in rows})

(* A row that cannot be read leaves its query unfinished: nothing of the    *)
(* read is kept as read.                                                    *)
collectUsage(db, marks) ==
    LET rows == Behind(db.usage, marks.usage)
    IN [rows |-> UNION {buildEvent(r) : r \in {x \in rows : x.readable}},
        marks |-> [marks EXCEPT !.usage = Reached(rows, @)],
        clean |-> \A r \in rows : r.readable]

(* The named calls of a message, known by session, message and place.  They *)
(* name no usage: Goose ties no message to a row of its ledger.             *)
messageCalls(m) ==
    LET named == SelectSeq(m.calls, LAMBDA c : c # None)
    IN IF m.at <= 0 THEN {}
       ELSE {[table |-> "activity", key |-> <<m.session, m.id, i>>, of |-> <<m.of, i>>, joins |-> None] :
             i \in DOMAIN named}

collectActivity(db, marks) ==
    LET rows == {m \in Behind(db.messages, marks.messages) : m.role = "assistant"}
    IN [rows |-> UNION {messageCalls(m) : m \in {x \in rows : x.readable}},
        marks |-> [marks EXCEPT !.messages = Reached(rows, @)],
        clean |-> \A m \in rows : m.readable]

(* What a query that breaks off has read is kept. *)
Kept(rows) == rows

Look(stage, db, marks) == IF stage = 1 THEN collectUsage(db, marks) ELSE collectActivity(db, marks)
=============================================================================
