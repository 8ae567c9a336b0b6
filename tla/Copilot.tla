------------------------------ MODULE Copilot -------------------------------
(***************************************************************************)
(* A read of a telemetry file of Copilot CLI (adapter/copilot): all of it, *)
(* whenever it has changed.  One model call may be described by a chat     *)
(* span, an inference log, an agent-turn log and the summary span of its   *)
(* agent; of those that share a trace or a response the first kind counts. *)
(***************************************************************************)
EXTENDS Tokens, Sequences

CONSTANT None

Start == None

Ranks == <<"chat", "log", "turn", "summary">>
Spans == {"chat", "summary", "tool"}

(* The records that carry usage; cached input is part of input, and a       *)
(* missing total is the sum.                                                *)
total(r) ==
    LET filled == ApplyTotalFallback(NonNeg(r.input - r.cached), r.output, r.cached, 0, r.total)
    IN IF r.total > 0 THEN r.total ELSE NonNeg(r.input - r.cached) + filled.output + r.cached

Candidates(records) == {i \in DOMAIN records : records[i].kind \in {Ranks[n] : n \in 1..4} /\ total(records[i]) # 0}

(* A candidate is suppressed by one of a kind before its own that shares    *)
(* its trace or its response.                                               *)
Rank(r) == CHOOSE n \in 1..4 : Ranks[n] = r.kind
SameCall(a, b) == (a.trace # None /\ a.trace = b.trace) \/ (a.response # None /\ a.response = b.response)

filterEmitted(records) ==
    {i \in Candidates(records) :
        ~\E j \in Candidates(records) : Rank(records[j]) < Rank(records[i]) /\ SameCall(records[i], records[j])}

(* Each kind has keys of its own; without trace and span it is the place in *)
(* the file that tells two records apart.                                   *)
dedupKeyForRecord(r, i) ==
    IF r.kind = "turn" THEN IF r.trace # None THEN <<"turn", r.trace, r.turn>> ELSE <<"turn", "line", i, r.turn>>
    ELSE LET prefix == IF r.kind = "log" THEN "log" ELSE "span"
         IN IF None \notin {r.trace, r.span} THEN <<prefix, r.trace, r.span>> ELSE <<prefix, "line", r.at, i>>

(* The nearest span of kind k at or above a record, over at most eight      *)
(* parents.                                                                 *)
spanIndex(records, id) == {i \in DOMAIN records : records[i].kind \in Spans /\ records[i].span = id}

ancestorSpan(records, i, k) ==
    LET above[hop \in 0..8] ==
            IF hop = 0 THEN {i}
            ELSE UNION {IF records[j].parent = None \/ records[j].kind = k THEN {}
                        ELSE spanIndex(records, records[j].parent) : j \in above[hop - 1]}
    IN {j \in UNION {above[hop] : hop \in 0..8} : records[j].kind = k}

(* The context of an emitted record is the named agent it ran under. *)
turnContexts(records, emitted) ==
    {[table |-> "context", key |-> dedupKeyForRecord(records[i], i), of |-> <<records[i].of>>, value |-> (CHOOSE v \in {records[j].agent : j \in ancestorSpan(records, i, "summary")} : TRUE),
      joins |-> dedupKeyForRecord(records[i], i)] :
        i \in {e \in emitted : \E j \in ancestorSpan(records, e, "summary") : records[j].agent # None}}

candidatesToEvents(records, emitted) ==
    {[table |-> "usage", key |-> dedupKeyForRecord(records[i], i), of |-> <<records[i].of>>,
      tokens |-> total(records[i])] : i \in emitted}

(* A named tool call, by its span or by the call's own id. *)
toolCallActivity(records) ==
    {[table |-> "activity", of |-> records[i].of, joins |-> None,
      key |-> IF None \notin {records[i].trace, records[i].span} THEN <<"tool", records[i].trace, records[i].span>>
              ELSE <<"tool", records[i].call>>] :
        i \in {n \in DOMAIN records : /\ records[n].kind = "tool" /\ records[n].agent # None
                                      /\ None \notin {records[n].trace, records[n].span} \/ records[n].call # None}}

collectOTEL(records) ==
    LET emitted == filterEmitted(records)
    IN candidatesToEvents(records, emitted) \cup turnContexts(records, emitted) \cup toolCallActivity(records)

(* The skills and hooks of a session's own event log, by the record's id.    *)
toSessionActivity(session, r) ==
    IF r.id = None \/ r.type \notin {"skill.invoked", "hook.start"} \/ r.name = None THEN {}
    ELSE {[table |-> "activity", of |-> r.of, key |-> <<r.type, session, r.id>>, joins |-> None]}

collectSessionEvents(db) == UNION {toSessionActivity(db.session, db.records[i]) : i \in DOMAIN db.records}

(* A line that cannot be read is left out. *)
Look(db) ==
    [rows |-> IF db.kind = "otel" THEN collectOTEL(db.records) ELSE collectSessionEvents(db),
     marks |-> None, clean |-> TRUE]
=============================================================================
