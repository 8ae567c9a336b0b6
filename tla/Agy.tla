-------------------------------- MODULE Agy ---------------------------------
(***************************************************************************)
(* A read of an Antigravity capture (adapter/agy): a stream of records, of *)
(* which a result holds what its conversation has used so far, or the      *)
(* older documents of the Gemini CLI's shape (adapter/internal/            *)
(* geminishape), a record per turn.  Both yield counters, not rows: the    *)
(* collector records how much each has grown.                              *)
(***************************************************************************)
EXTENDS Tokens, Sequences, FiniteSets

CONSTANTS None, Bad

Start == None

(* A record of the stream that cannot be trusted, and a usage that is        *)
(* inconsistent: the file is read again until it can.                        *)
normalizeStreamUsage(u) ==
    /\ None \notin {u.input, u.output, u.thoughts, u.cached, u.total}
    /\ \A c \in DOMAIN u : u[c] >= 0
    /\ u.total = u.input + u.output
    /\ u.thoughts <= u.output /\ u.cached <= u.input

Named(log, i) == {j \in 1..(i - 1) : log[j].event = "init" /\ log[j].conversation = log[i].conversation /\ log[j].model # None}

WellFormed(log, i) ==
    LET r == log[i]
    IN CASE r.event = "init" -> None \notin {r.conversation, r.model}
         [] r.event = "result" ->
              /\ None \notin {r.conversation, r.status} /\ r.turns > 0
              /\ IF r.usage = None THEN r.status # "SUCCESS"
                 ELSE Named(log, i) # {} /\ normalizeStreamUsage(r.usage)
         [] OTHER -> r.event # None

(* Of the results of a conversation the last one counts. *)
latest(log) ==
    LET results == {i \in DOMAIN log : log[i].event = "result" /\ log[i].usage # None /\ WellFormed(log, i)}
    IN {i \in results : \A j \in results : log[j].conversation = log[i].conversation => j <= i}

snapshot(key, of, total) == [table |-> "snapshot", key |-> key, of |-> <<of>>, tokens |-> total]

readStreamFile(whole) ==
  LET log == SelectSeq(whole, LAMBDA r : r # Bad)
  IN
    [rows |-> {snapshot(<<log[i].conversation>>, log[i].conversation, log[i].usage.total) :
               i \in {n \in latest(log) : log[n].usage.total # 0 \/ log[n].usage.cached # 0}},
     marks |-> None,
     clean |-> \A i \in DOMAIN log : WellFormed(log, i)]

(* A turn's total is what it reports, or the sum of its parts if that is more. *)
authoritativeTotal(t) ==
    Most(NonNeg(t.total), NonNeg(t.input) + NonNeg(t.tool) + NonNeg(t.output) + NonNeg(t.thoughts))

(* Of the records of one turn the largest, and of those the last. *)
best(log) ==
    {i \in DOMAIN log : \A j \in DOMAIN log : log[j].id = log[i].id =>
        \/ authoritativeTotal(log[j].tokens) < authoritativeTotal(log[i].tokens)
        \/ authoritativeTotal(log[j].tokens) = authoritativeTotal(log[i].tokens) /\ j <= i}

(* A line that is no record is left out, and the file is kept as read. *)
ReadFile(db) ==
    LET whole == SelectSeq(db.log, LAMBDA r : r # Bad)
    IN [rows |-> {snapshot(<<db.path, whole[i].id>>, whole[i].of, authoritativeTotal(whole[i].tokens)) :
                  i \in {n \in best(whole) : \E c \in DOMAIN whole[n].tokens : whole[n].tokens[c] > 0}},
        marks |-> None, clean |-> TRUE]

Look(db) == IF db.stream THEN readStreamFile(db.log) ELSE ReadFile(db)
=============================================================================
