------------------------------- MODULE Cline --------------------------------
(***************************************************************************)
(* A read of a Cline CLI session document (adapter/clinecli): one JSON     *)
(* document, written anew as the session goes on, read as a whole whenever *)
(* it has changed.                                                         *)
(***************************************************************************)
EXTENDS Tokens, Sequences

CONSTANTS None, Bad

Start == None

dedupKey(db, m) == <<db.session, db.agent, m.id>>

(* Cached input is part of the input where it can be. *)
mapTokens(u) ==
    LET cache == NonNeg(u.cached)
        input == IF cache <= NonNeg(u.input) THEN NonNeg(u.input) - cache ELSE NonNeg(u.input)
    IN input + NonNeg(u.output) + cache

buildEvent(db, m) ==
    IF m.metrics = None \/ mapTokens(m.metrics) = 0 THEN {}
    ELSE {[table |-> "usage", key |-> dedupKey(db, m), of |-> <<m.of>>, tokens |-> mapTokens(m.metrics)]}

(* The calls of a message, by their id or their place among its calls. *)
buildActivity(db, m) ==
    {[table |-> "activity", of |-> <<m.of, i>>,
      key |-> dedupKey(db, m) \o (IF m.calls[i] # None THEN <<"call", m.calls[i]>> ELSE <<"idx", i>>),
      joins |-> IF buildEvent(db, m) = {} THEN None ELSE dedupKey(db, m)] : i \in DOMAIN m.calls}

(* An assistant's message with an identity and a time: its own, or that of   *)
(* the document.                                                             *)
Countable(db, m) == m.role = "assistant" /\ m.id # None /\ (m.at > 0 \/ db.updated > 0)

build(db) ==
    UNION {buildEvent(db, m) \cup buildActivity(db, m) :
           m \in {db.messages[i] : i \in {n \in DOMAIN db.messages : Countable(db, db.messages[n])}}}

(* A document caught half written is read again. *)
Look(db) ==
    IF db.messages = Bad THEN [rows |-> {}, marks |-> None, clean |-> FALSE]
    ELSE [rows |-> build(db), marks |-> None, clean |-> TRUE]
=============================================================================
