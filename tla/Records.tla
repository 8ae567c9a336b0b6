------------------------------ MODULE Records ------------------------------
(***************************************************************************)
(* One record of Qwen Code's usage ledger, of Reasonix's daily usage file  *)
(* and of a Kimi Code wire log (adapter/qwencode, adapter/reasonix,        *)
(* adapter/kimicode).  In the first two a record stands by itself: a       *)
(* resumed read carries nothing.                                           *)
(***************************************************************************)
EXTENDS Integers

CONSTANTS None, Bad

Fewest(a, b) == IF a < b THEN a ELSE b
Most(a, b) == IF a > b THEN a ELSE b
NonNeg(n) == IF n = None THEN 0 ELSE Most(n, 0)

Counters(r) == {r.input, r.output, r.total}

(* A record of none of the ledger's fields is another kind of record. *)
Unrelated(r) == /\ r.id = None /\ r.version = None
                /\ {r.cached, r.thoughts} \cup Counters(r) = {None}

(* What a record must have to be counted: an id, counters that are numbers, *)
(* all three of them if it names its version, any one of them if not.       *)
ledgerRecordShape(r) ==
    /\ r.id # None
    /\ Bad \notin {r.cached, r.thoughts, r.version} \cup Counters(r)
    /\ IF r.version # None THEN r.version > 0 /\ None \notin Counters(r)
       ELSE {r.cached, r.thoughts} \cup Counters(r) # {None}

(* The total is never less than its parts, of which cached is one of input. *)
event(r) ==
    LET in == NonNeg(r.input)
        output == NonNeg(r.output)
        total == Most(NonNeg(r.total), in + output)
    IN IF total = 0 THEN {} ELSE {[table |-> "usage", key |-> r.id, tokens |-> total]}

(* A record of a subagent names it; the main one is no context. *)
turnContext(r, ev) ==
    IF r.source \in {None, "main"} THEN {}
    ELSE {[table |-> "context", key |-> row.key, tokens |-> 0] : row \in ev}

(* One line of the loop of collectReader. *)
QwenRead(st, r) ==
    IF r.type = "malformed" \/ Unrelated(r)
    THEN [state |-> st, rows |-> {}, drift |-> FALSE, known |-> FALSE]
    ELSE IF ~ledgerRecordShape(r)
    THEN [state |-> st, rows |-> {}, drift |-> TRUE, known |-> FALSE]
    ELSE [state |-> st, rows |-> event(r) \cup turnContext(r, event(r)), drift |-> FALSE, known |-> TRUE]
----------------------------------------------------------------------------
(* Reasonix.  The key is the line itself: two equal lines are one row.      *)

(* A record of the current schema must say when it was written. *)
Undated(r) == r.current /\ r.at = None

(* Cached is part of the prompt; a missing total is the sum.  A record of   *)
(* zeros is no row, and one without a known field is not of this file.      *)
parseRecord(r) ==
    LET hit == Fewest(r.hit, r.prompt)
        input == r.prompt - hit
        total == IF r.total = 0 THEN r.prompt + r.completion ELSE r.total
    IN IF input = 0 /\ hit = 0 /\ r.completion = 0 /\ total = 0 THEN {}
       ELSE {[table |-> "usage", key |-> r, tokens |-> total]}

ReasonixRead(st, r) ==
    IF r.type = "malformed" THEN [state |-> st, rows |-> {}, drift |-> FALSE, known |-> TRUE]
    ELSE IF r.type # "stats" \/ Undated(r)
    THEN [state |-> st, rows |-> {}, drift |-> TRUE, known |-> TRUE]
    ELSE [state |-> st, rows |-> parseRecord(r), drift |-> FALSE, known |-> TRUE]
----------------------------------------------------------------------------
(* Kimi Code.  A usage record names an alias only: its model is that of the *)
(* request before it, which a resumed read takes from the checkpoint.       *)

(* ckptState, and whether the last request could not be read. *)
KimiStart == [model |-> None, alias |-> None, request |-> None, protocol |-> None, invalid |-> FALSE]

Requests == {"metadata", "llm.request"}

Counts(l) == {l.usage[f] : f \in DOMAIN l.usage}

(* Records of other types pass, unless they look like one of these. *)
Foreign(l) == l.type \notin Requests \cup {"usage.record"} /\ ~l.marked

(* What decodeWireRecord takes: a header with its version, a request with   *)
(* its model, a usage with its counters, all of them under a header and any *)
(* one of them without.                                                     *)
decodes(st, l) ==
    CASE l.type = "metadata" -> l.protocol \notin {None, Bad, "legacy"} /\ l.at # None
      [] l.type = "llm.request" -> l.model \notin {None, Bad}
      [] l.type = "usage.record" ->
           /\ l.usage \notin {None, Bad}
           /\ Bad \notin Counts(l)
           /\ IF st.protocol \in {None, "legacy"} THEN Counts(l) # {None} ELSE None \notin Counts(l)
      [] OTHER -> FALSE

requestState(st, l) ==
    [model |-> l.model, alias |-> l.alias, request |-> <<l.at, l.step>>,
     protocol |-> IF st.protocol = None THEN "legacy" ELSE st.protocol, invalid |-> FALSE]

(* A usage of zeros is no row; the total is the sum of the counters.  The   *)
(* key holds what the record claims and the request it was read under.      *)
buildEvent(l, st) ==
    LET u == [f \in DOMAIN l.usage |-> NonNeg(l.usage[f])]
    IN IF Counts(l) \subseteq {0, None} THEN {}
       ELSE {[table |-> "usage", tokens |-> u.input + u.output,
              key |-> <<l.at, l.alias, st.model, st.alias, st.request, l.usage>>]}

(* One line of the loop of collectReader.  After a request that could not   *)
(* be read, usage is not charged to the one before it.                      *)
KimiRead(st, l) ==
    IF l.type = "malformed" \/ Foreign(l)
    THEN [state |-> st, rows |-> {}, drift |-> FALSE, known |-> FALSE]
    ELSE IF ~decodes(st, l)
    THEN [state |-> [st EXCEPT !.invalid = @ \/ l.type \in Requests \/ l.request],
          rows |-> {}, drift |-> TRUE, known |-> FALSE]
    ELSE LET versioned == [st EXCEPT !.protocol = IF @ = None THEN "legacy" ELSE @]
         IN CASE l.type = "metadata" ->
                   [state |-> [st EXCEPT !.protocol = l.protocol], rows |-> {}, drift |-> FALSE, known |-> TRUE]
              [] l.type = "llm.request" ->
                   [state |-> requestState(st, l), rows |-> {}, drift |-> FALSE, known |-> TRUE]
              [] OTHER ->
                   [state |-> versioned, rows |-> IF st.invalid THEN {} ELSE buildEvent(l, st),
                    drift |-> FALSE, known |-> TRUE]

(* A checkpoint of a time before protocols were recorded is not resumed. *)
KimiResumable(cp) == cp.state.protocol # None
=============================================================================
