----------------------------- MODULE ClaudeCode -----------------------------
(***************************************************************************)
(* A read of Claude Code's transcripts (adapter/claudecode): all of them,  *)
(* whenever one has changed.  One answer is streamed over several records, *)
(* each with the token counts so far and some of the calls; a sidechain    *)
(* replays records under other request ids.  Of the records of one answer  *)
(* the best is its usage, and the calls of all of them are its calls.      *)
(***************************************************************************)
EXTENDS Tokens, SequencesExt, FiniteSetsExt

CONSTANTS None, Bad

Start == None

(* persistedKey: the message, or the line itself. *)
persistedKey(r) == IF r.message # None THEN <<r.message>> ELSE <<"line", r>>

(* What parseLine makes of a record: a candidate, nothing, or an error of   *)
(* the format.  A record that names its version must be whole.              *)
Incomplete(r) == r.version # None /\ r.model # "synthetic" /\ (None \in {r.message, r.model, r.tokens})
Candidate(r) == r.type = "assistant" /\ ~Incomplete(r) /\ r.tokens # None /\ ~r.null
                /\ r.model \notin {None, "synthetic"} /\ r.at > 0

better(a, b) ==
    IF a.sidechain # b.sidechain THEN ~a.sidechain
    ELSE IF a.tokens # b.tokens THEN a.tokens > b.tokens
    ELSE IF a.cost # b.cost THEN a.cost > b.cost
    ELSE a.speed /\ ~b.speed

(* deduper: the turns so far in the order they were first seen, each with   *)
(* its best record and the calls and contexts of all of its records.        *)
Turn(c) == [message |-> c.message, request |-> c.request, best |-> c, calls |-> c.calls, contexts |-> c.contexts]

(* The first value of each dimension stays. *)
addContexts(old, new) == [d \in DOMAIN old \cup DOMAIN new |-> IF d \in DOMAIN old THEN old[d] ELSE new[d]]

Joined(t, c) ==
    [t EXCEPT !.best = IF better(c, @) THEN c ELSE @, !.calls = @ \cup c.calls,
              !.contexts = addContexts(@, c.contexts)]

(* The turn a candidate belongs to: that of its message and request, or,    *)
(* where a sidechain is involved, the last one begun for its message.       *)
Home(turns, c) ==
    LET same == {i \in DOMAIN turns : turns[i].message = c.message}
        own == {i \in same : turns[i].request = c.request}
        resident == IF same = {} THEN {} ELSE {Max(same)}
        replay == {i \in resident : turns[i].best.sidechain \/ c.sidechain}
    IN IF c.message = None THEN {} ELSE IF own # {} THEN own ELSE replay

add(turns, c) ==
    LET home == Home(turns, c)
    IN IF home = {} THEN Append(turns, Turn(c))
       ELSE [turns EXCEPT ![CHOOSE i \in home : TRUE] = Joined(@, c)]

(* The rows of a turn: its best record, the calls of all its records, which *)
(* are known by their own id, and its contexts.                             *)
events(t) == {[table |-> "usage", key |-> persistedKey(t.best), of |-> <<t.best.of>>, tokens |-> t.best.tokens]}
mintActivity(t) ==
    {[table |-> "activity", key |-> <<"call", id>>, of |-> <<t.best.of, id>>, joins |-> persistedKey(t.best)] : id \in t.calls}
turnContexts(t) ==
    {[table |-> "context", key |-> <<d, persistedKey(t.best)>>, of |-> <<t.best.of>>,
      value |-> t.contexts[d], joins |-> persistedKey(t.best)] : d \in DOMAIN t.contexts}

(* A summary of hooks stands outside of the turns. *)
parseHookLine(r) ==
    {[table |-> "activity", key |-> <<"hook", r.uuid, i>>, of |-> <<r.of, i>>, joins |-> None] : i \in 1..r.hooks}

(* The turns that come of candidates one after the other, as a set of one. *)
turnsOf(candidates) ==
    LET after[n \in 0..Len(candidates)] ==
            IF n = 0 THEN {<<>>} ELSE {add(turns, candidates[n]) : turns \in after[n - 1]}
    IN after[Len(candidates)]

(* Of two rows with one key the store keeps that of the earlier turn. *)
rowsOf(turns) ==
    LET rows == [i \in DOMAIN turns |-> events(turns[i]) \cup mintActivity(turns[i]) \cup turnContexts(turns[i])]
        Kept(i) == {r \in rows[i] : \A j \in 1..(i - 1) : \A q \in rows[j] : q.table # r.table \/ q.key # r.key}
    IN UNION {Kept(i) : i \in DOMAIN turns}

parseFiles(files) ==
    LET lines == FlattenSeq(files)
    IN UNION {rowsOf(turns) : turns \in turnsOf(SelectSeq(lines, Candidate))}
       \cup UNION {parseHookLine(r) : r \in {x \in Range(lines) : x.type = "system" /\ x.at > 0}}

Recognized == {"assistant", "user", "system", "progress", "summary", "file-history-snapshot", "queue-operation"}

(* A file whose records are none of Claude Code's, or with an incomplete    *)
(* record, is read again.                                                   *)
parseFileClean(lines) ==
    /\ \A r \in Range(lines) : ~(r.type = "assistant" /\ Incomplete(r))
    /\ lines = <<>> \/ \E r \in Range(lines) : r.type \in Recognized

(* The walk has noted which files there are; they are read one after the    *)
(* other, in the order of their names, as they are by then.                 *)
Look(found, db) ==
    LET names == SetToSortSeq(DOMAIN found.files, LAMBDA a, b : a < b)
        files == [i \in DOMAIN names |-> db.files[names[i]]]
    IN [rows |-> parseFiles(files), marks |-> None, clean |-> \A f \in Range(files) : parseFileClean(f)]
=============================================================================
