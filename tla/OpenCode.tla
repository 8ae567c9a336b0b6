------------------------------ MODULE OpenCode ------------------------------
(***************************************************************************)
(* A read of opencode's database (adapter/opencode), in one snapshot.  A   *)
(* message is written before its answer is complete: its row id is kept as *)
(* pending and looked at again by every read until it is complete.         *)
(***************************************************************************)
EXTENDS Tokens, SequencesExt

CONSTANTS None, Bad

(* dbState, which only the reads of a modern database leave behind. *)
Start == [watermark |-> 0, modern |-> FALSE, pending |-> {}]

(* The output may include the reasoning; a total beyond the sum is filled   *)
(* up, one below it is raised.                                              *)
buildEvent(m) ==
    LET input == NonNeg(m.input)
        cache == NonNeg(m.cache)
        reasoning == NonNeg(m.reasoning)
        total == NonNeg(m.total)
        apart == /\ reasoning > 0 /\ m.output >= reasoning /\ total > 0
                 /\ m.output = total - input - cache
        output == IF apart THEN m.output - reasoning ELSE NonNeg(m.output)
        filled == ApplyTotalFallback(input, output, cache, reasoning, total)
        stored == Most(total, input + filled.output + cache + filled.extra)
    IN IF m.model = None \/ m.id = None \/ stored = 0 \/ m.at <= 0 THEN {}
       ELSE {[table |-> "usage", key |-> <<m.id>>, of |-> <<m.of>>, tokens |-> stored]}

(* The tool parts of the messages read, joined by the message's id. *)
collectActivity(messages, events) ==
    UNION {LET usage == {e.key : e \in {x \in events : x.key = <<m.id>>}}
           IN {[table |-> "activity", key |-> p, of |-> <<m.of, p>>,
                joins |-> IF usage = {} THEN None ELSE <<m.id>>] :
               p \in {q \in m.parts : usage # {} \/ m.at > 0}} : m \in messages}

(* The lines the changes of a user's message added and removed, known only   *)
(* where every one of them is two counts.  The newest state replaces what    *)
(* the ledger has.                                                           *)
collectCodeChanges(db) ==
    {LET diffs == IF m.diffs \in {None, Bad} THEN <<>> ELSE m.diffs
         valid == m.diffs # Bad /\ Bad \notin Range(diffs)
     IN [table |-> "change", key |-> <<m.id>>, of |-> <<m.of>>, updated |-> m.updated,
         tokens |-> IF valid THEN FoldSeq(LAMBDA d, n : n + d, 0, diffs) ELSE 0,
         known |-> valid /\ diffs # <<>>] :
        m \in {x \in db.messages : x.role = "user"}}

(* The row id a read begins behind: the watermark, and for the first read of *)
(* a modern database none.                                                   *)
Resumed(db, marks) == IF db.modern /\ ~marks.modern THEN 0 ELSE marks.watermark

(* The rows behind it, and those that were pending. *)
Selected(db, marks) ==
    {m \in db.messages : m.rowid > Resumed(db, marks) \/ (db.modern /\ m.rowid \in marks.pending)}

(* A row nobody can classify stops the read of a modern database: what was  *)
(* before it is recorded, and read again.                                   *)
collectDB(db, marks) ==
    LET rows == Selected(db, marks)
        unclassified == {m \in rows : db.modern /\ (m.role = Bad \/ m.id = None)}
        read == {m \in rows : \A u \in unclassified : m.rowid < u.rowid}
        waiting == {m \in read : db.modern /\ m.role = "assistant" /\ ~m.completed}
        done == {m \in read \ waiting : ~db.modern \/ m.role = "assistant"}
        events == UNION {buildEvent(m) : m \in done}
    IN [rows |-> events \cup IF unclassified # {} THEN {}
                            ELSE collectActivity(done, events)
                                 \cup IF db.modern THEN collectCodeChanges(db) ELSE {},
        marks |-> [watermark |-> Max({Resumed(db, marks)} \cup {m.rowid : m \in read}),
                   modern |-> db.modern, pending |-> {m.rowid : m \in waiting}],
        clean |-> unclassified = {}]

(* The usage is kept when the query of the calls fails. *)
Kept(rows) == {r \in rows : r.table = "usage"}

Look(db, marks) == collectDB(db, marks)
=============================================================================
