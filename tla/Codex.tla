------------------------------- MODULE Codex -------------------------------
(***************************************************************************)
(* One line of a Codex session log (adapter/codex).  A token_count record  *)
(* carries the usage of its turn, or a running total of which the          *)
(* difference to the previous one is the usage; the model is the last one  *)
(* named.  Both are state that a resumed read takes from the checkpoint.   *)
(***************************************************************************)
EXTENDS Integers

CONSTANTS None,  \* an absent or empty field
          Bad    \* a field of another type than the format's

(* ckptState: the model, and the running total once one was seen. *)
Start == [model |-> None, prev |-> None]

Recognized == {"session_meta", "turn_context", "event_msg", "response_item", "compacted"}

Fewest(a, b) == IF a < b THEN a ELSE b

(* The counters of a usage object that are there. *)
Present(u) == u \notin {None, Bad}

(* A line whose type or payload says one thing and its usage another.  A     *)
(* token_count may carry rate limits alone.                                  *)
validateUsageShape(l) ==
    IF l.type # "event_msg"
    THEN l.last = None /\ l.total = None
    ELSE /\ l.payload # None
         /\ l.payload # "token_count" => l.last = None /\ l.total = None
         /\ l.payload = "token_count" =>
               \/ l.info = "rate_limits"
               \/ /\ l.info = "usage"
                  /\ Bad \notin {l.last, l.total}
                  /\ Present(l.last) \/ Present(l.total)

satSub(a, b) == IF a > b THEN a - b ELSE 0

Since(cur, prev) == IF prev = None THEN cur ELSE [f \in DOMAIN cur |-> satSub(cur[f], prev[f])]

(* The row of a usage: cached is part of input, a missing total is input    *)
(* plus output, and a usage of nothing is no row.  The key leaves the       *)
(* session out, so that a log archived elsewhere yields the same rows.      *)
buildEvent(t, model, at) ==
    LET cached == Fewest(t.cached, t.input)
        total == IF t.total > 0 THEN t.total ELSE t.input + t.output
    IN IF t.input = 0 /\ t.output = 0 /\ total = 0 THEN {}
       ELSE {[table |-> "usage", key |-> <<at, model, t.input, cached, t.output, total>>,
              tokens |-> total]}

(* The last turn's usage is taken before the running total, and leaves the  *)
(* running total where it was.                                              *)
parseUsageLine(st, l) ==
    LET model == IF l.model # None THEN l.model ELSE st.model
        named == IF model = None THEN "gpt-5" ELSE model
    IN IF l.type = "turn_context" THEN [state |-> [st EXCEPT !.model = model], rows |-> {}]
       ELSE IF l.type # "event_msg" \/ l.payload # "token_count" \/ l.info # "usage"
       THEN [state |-> st, rows |-> {}]
       ELSE IF Present(l.last)
       THEN [state |-> [st EXCEPT !.model = model], rows |-> buildEvent(l.last, named, l.at)]
       ELSE [state |-> [model |-> model, prev |-> l.total],
             rows |-> buildEvent(Since(l.total, st.prev), named, l.at)]

(* A call names no usage: its row stays unattributed. *)
parseCallLine(l) ==
    IF l.type = "response_item" /\ l.payload \in {"function_call", "custom_tool_call"} /\ l.id # None
    THEN {[table |-> "activity", key |-> l.id, tokens |-> 0]}
    ELSE {}

(* One line of the loop of collectReader. *)
Read(st, l) ==
    IF l.type = "malformed" THEN [state |-> st, rows |-> {}, drift |-> FALSE, known |-> FALSE]
    ELSE IF ~validateUsageShape(l)
    THEN [state |-> st, rows |-> {}, drift |-> TRUE, known |-> l.type \in Recognized]
    ELSE LET usage == parseUsageLine(st, l)
         IN [state |-> usage.state, rows |-> usage.rows \cup parseCallLine(l),
             drift |-> FALSE, known |-> l.type \in Recognized]

(* A whole line is read whether or not its newline is there. *)
Waits(st, l) == FALSE

(* A checkpoint of this format is resumed wherever it points. *)
Resumable(cp) == TRUE
=============================================================================
