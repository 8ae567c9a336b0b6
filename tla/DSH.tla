-------------------------------- MODULE DSH ---------------------------------
(***************************************************************************)
(* A read of a DSH session log (adapter/dsh): all of it, whenever it has   *)
(* changed.  A message carries the usage of one step, the calls of a step  *)
(* are records of their own.  A forked session begins with a copy of its   *)
(* parent's records.                                                       *)
(***************************************************************************)
EXTENDS Tokens, Sequences, FiniteSets

CONSTANT None

Start == None

(* A record of the fork's seed, or one that cannot be shown not to be. *)
seeded(header, r) == header.seedLength > 0 /\ (r.seq = None \/ r.seq < header.seedLength)

allZero(u) == \A c \in DOMAIN u : u[c] \in {None, 0}
deref(n) == IF n = None THEN 0 ELSE NonNeg(n)

(* A message names the chunks it collapses; one of them may have reported    *)
(* its usage.                                                                *)
expectedUsage(log, i) ==
    /\ log[i].sources # None
    /\ \E j \in 1..(i - 1) : log[j].type = "usage chunk" /\ log[j].seq \in log[i].sources

collapsed(log, i) == log[i].sources # None /\ (log[i].type = "message" \/ expectedUsage(log, i))

(* badAssistant: a collapsed message that lost its identity or its usage. *)
badAssistant(log, i) ==
    LET r == log[i]
    IN /\ collapsed(log, i)
       /\ \/ r.type # "message" \/ r.seq = None \/ r.time <= 0 \/ r.message = None
          \/ expectedUsage(log, i) /\ r.usage = None
          \/ r.usage # None /\ None \in {r.usage.input, r.usage.output}

(* The message's own id is the key, so that a fork's copy is the same row.   *)
usageKey(header, r) ==
    IF r.message # None THEN <<"msg", r.message>> ELSE <<header.session, "seq", r.seq>>

Spent(log, i) ==
    log[i].type = "message" /\ ~badAssistant(log, i) /\ log[i].usage # None /\ ~allZero(log[i].usage)

buildEvent(header, r) ==
    [table |-> "usage", key |-> usageKey(header, r), of |-> <<r.of>>,
     tokens |-> deref(r.usage.input) + deref(r.usage.output) + deref(r.usage.cached)]

(* The preset of the header is that of the records it does not share. *)
context(header, r) ==
    IF header.preset = None \/ seeded(header, r) THEN {}
    ELSE {[table |-> "context", key |-> <<"agent", usageKey(header, r)>>, of |-> <<r.of>>,
           value |-> header.preset, joins |-> usageKey(header, r)]}

(* The messages of a step.  Calls are joined where there is exactly one.     *)
anchors(log, step) ==
    {i \in DOMAIN log : log[i].step = step /\ (log[i].type = "message" \/ badAssistant(log, i))}

(* A bug: a call is known by its session. *)
activityKeyOfSession(header, anchor, c) == <<"call", "seq", header.session, c.seq>>

activityKey(header, anchor, c) ==
    IF anchor # None THEN IF c.call # None THEN <<"call", anchor, c.call>> ELSE <<"call", "#", anchor, c.seq>>
    ELSE <<"call", "seq", header.session, c.seq>>

resolveCalls(header, log) ==
    {LET c == log[i]
         own == anchors(log, c.step)
         anchor == IF Cardinality(own) = 1 THEN {log[j].message : j \in own} \ {None} ELSE {}
         usage == IF Cardinality(own) = 1 THEN {usageKey(header, log[j]) : j \in {k \in own : Spent(log, k)}} ELSE {}
     IN [table |-> "activity", of |-> c.of,
         key |-> activityKey(header, IF anchor = {} THEN None ELSE CHOOSE id \in anchor : TRUE, c),
         joins |-> IF usage = {} THEN None ELSE CHOOSE k \in usage : TRUE] :
        i \in {n \in DOMAIN log : log[n].type = "call" /\ log[n].name # None}}

NoHeader == [session |-> None, preset |-> None, seedLength |-> 0]

(* A torn end, a message that lost its usage, or a log without any record of *)
(* DSH's: what was read is recorded, and read again.                         *)
readTranscript(db) ==
    LET header == IF db.header = None THEN NoHeader ELSE db.header
        log == db.log
        spent == {i \in DOMAIN log : Spent(log, i)}
    IN [rows |-> {buildEvent(header, log[i]) : i \in spent}
                 \cup UNION {context(header, log[i]) : i \in spent} \cup resolveCalls(header, log),
        marks |-> None,
        clean |-> /\ ~db.torn /\ \A i \in DOMAIN log : ~badAssistant(log, i)
                  /\ db.header # None \/ \E i \in DOMAIN log : log[i].type \in {"context", "call", "message"}]

Look(db) == readTranscript(db)
=============================================================================
