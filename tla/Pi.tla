-------------------------------- MODULE Pi ---------------------------------
(***************************************************************************)
(* One entry of a Pi or OpenClaw session (adapter/pi).  The first entry    *)
(* must be the session header; an entry that lacks what its usage is       *)
(* counted by ends the read for good.                                      *)
(***************************************************************************)
EXTENDS Integers

CONSTANTS None, Bad

(* ckptState, whether the header is still due, and whether the read ended. *)
Start == [session |-> None, provider |-> None, model |-> None, first |-> TRUE, ended |-> FALSE]

Fewest(a, b) == IF a < b THEN a ELSE b

(* The usage an entry is counted by: an assistant's, or that of the call    *)
(* that summarised a branch.                                                *)
Counted(e) ==
    IF e.type = "message" THEN (IF e.role = "assistant" THEN e.usage ELSE None)
    ELSE IF e.type \in {"compaction", "branch_summary"} THEN e.usage ELSE None

missingAnchor(e, first) ==
    \/ first /\ e.type # "session"
    \/ e.type = "session" /\ (e.id = None \/ e.at = None \/ e.cwd = None)
    \/ e.type = "message" /\ (e.role = None \/ (e.role = "assistant" /\ e.usage = None))
    \/ e.role = "assistant" /\ e.type # "message"
    \/ /\ Counted(e) # None
       /\ e.id = None \/ e.at = None \/ e.usage.input = None \/ e.usage.output = None

(* The row: reasoning is part of output, a missing total the sum.  The key  *)
(* is the entry's facts without its session, so that a fork that copies its *)
(* parent's entries yields the rows of the parent.                          *)
event(e, model, provider) ==
    LET u == e.usage
        reasoning == Fewest(u.reasoning, u.output)
        total == IF u.total > 0 THEN u.total ELSE u.input + u.output
    IN IF u.input = 0 /\ u.output = 0 /\ total = 0 THEN {}
       ELSE {[table |-> "usage", tokens |-> total,
              key |-> <<e.type, e.id, e.at, provider, model, u.input, u.output, reasoning, total>>]}

(* The calls of a counted message: joined to its row, and known by their    *)
(* own id, or by the row and their place in it.                             *)
calls(e, ev) ==
    {[table |-> "activity", tokens |-> 0,
      key |-> IF e.calls[i] # None THEN <<e.calls[i]>> ELSE <<ev.key, i>>] : i \in DOMAIN e.calls}

apply(st, e) ==
    CASE e.type = "session" ->
           [state |-> [st EXCEPT !.session = e.id, !.first = FALSE], rows |-> {}]
      [] e.type = "model_change" ->
           [state |-> [st EXCEPT !.model = IF e.model # None THEN e.model ELSE @,
                                 !.provider = IF e.provider # None THEN e.provider ELSE @,
                                 !.first = FALSE],
            rows |-> {}]
      [] e.type = "message" /\ Counted(e) # None ->
           LET ev == event(e, IF e.model # None THEN e.model ELSE st.model,
                              IF e.provider # None THEN e.provider ELSE st.provider)
           IN [state |-> [st EXCEPT !.first = FALSE],
               rows |-> ev \cup UNION {calls(e, row) : row \in ev}]
      [] e.type \in {"compaction", "branch_summary"} /\ Counted(e) # None ->
           [state |-> [st EXCEPT !.first = FALSE], rows |-> event(e, st.model, st.provider)]
      [] OTHER -> [state |-> [st EXCEPT !.first = FALSE], rows |-> {}]

(* One line of the loop of readSession. *)
Read(st, e) ==
    IF st.ended THEN [state |-> st, rows |-> {}, drift |-> TRUE, known |-> TRUE]
    ELSE IF e.type = "malformed" THEN [state |-> st, rows |-> {}, drift |-> FALSE, known |-> ~st.first]
    ELSE IF e.type = Bad \/ missingAnchor(e, st.first)
    THEN [state |-> [st EXCEPT !.ended = TRUE], rows |-> {}, drift |-> TRUE, known |-> TRUE]
    ELSE LET applied == apply(st, e)
         IN [state |-> applied.state, rows |-> applied.rows, drift |-> FALSE, known |-> TRUE]

(* An unusable entry that has no newline yet may still be being written. *)
Waits(st, e) == Read(st, e).drift

(* Only a checkpoint past the header is resumed. *)
Resumable(cp) == cp.offset > 0
=============================================================================
