------------------------------- MODULE Polled ------------------------------
(***************************************************************************)
(* Reading a source that its agent rewrites in place or that is read as a  *)
(* whole (adapter: goose, opencode, crush, claudecode, copilot, dsh,       *)
(* clinecli, agy).  Every pass of the collector looks at the files' sizes  *)
(* and times, reads a changed source in one or two steps, resuming from    *)
(* what its checkpoint remembers, and records the rows together with the   *)
(* new checkpoint.  The agent goes on meanwhile, also between the stat and *)
(* the read.                                                               *)
(*                                                                         *)
(* What a read finds in a source is the format's own (Goose, Crush, ...).  *)
(* A row is [table, key, of, ...]; what it stands for, `of', is known here *)
(* only: a call or a session, and for a row of activity its place there.   *)
(***************************************************************************)
EXTENDS Naturals, Sequences, FiniteSets, FiniteSetsExt

CONSTANTS
    Format,             \* the formats
    Path,               \* the places a source may be at
    Scripts(_),         \* what an agent of the format may do: the states its sources go through,
                        \* each [files, spent, ran]: path -> content, thing -> tokens, call -> agent
    StartOf(_),         \* what a first read resumes from
    StagesOf(_),        \* the steps of a read
    Gated(_),           \* whether an unchanged source is left alone
    LookOf(_, _, _, _, _),\* format, step, the source at its stat, the source now, marks
    KeptOf(_, _),       \* format, rows: what a read that fails hands on of them
    Retold,             \* the formats that tell of a call while it goes on, under the key it keeps
    None,
    MaxMishaps          \* bound on reads that do not end

VARIABLES
    format, script,  \* which agent, and what it does
    at,              \* how far it has come
    checkpoint,      \* path -> [seen, marks], source_checkpoints
    reader,          \* the read under way, None between two
    ledger,          \* the rows recorded
    mishaps

vars == <<format, script, at, checkpoint, reader, ledger, mishaps>>

Source == script[at].files

Init ==
    /\ format \in Format /\ script \in Scripts(format) /\ at = 1
    /\ checkpoint = <<>> /\ reader = None /\ ledger = {} /\ mishaps = 0

(* A counter's growth is a row, and its value what the next one is compared  *)
(* with; one that shrank began anew.                                         *)
Advanced(into, s) ==
    LET last == {r \in into : r.table = "snapshot" /\ r.key = s.key}
        before == IF last = {} THEN 0 ELSE (CHOOSE r \in last : TRUE).tokens
        growth == IF s.tokens >= before THEN s.tokens - before ELSE s.tokens
        rows == Cardinality({r \in into : r.table = "usage" /\ r.of = s.of})
    IN IF s.tokens = before THEN into
       ELSE (into \ last) \cup
            {s, [table |-> "usage", key |-> <<"growth", s.key, rows>>, of |-> s.of, tokens |-> growth]}

(* What becomes of a row: dropped when its key is there; a change replaced   *)
(* by one that is not older; a counter advanced.                             *)
Insert(r, into) ==
    LET there == {k \in into : k.table = r.table /\ k.key = r.key}
    IN IF r.table = "snapshot" THEN Advanced(into, r)
       ELSE IF r.table = "change" /\ \A k \in there : k.updated <= r.updated THEN (into \ there) \cup {r}
       ELSE IF there = {} THEN into \cup {r} ELSE into

Recorded(into, rows) == FoldSet(Insert, into, rows)

(* The agent's next step. *)
Write ==
    /\ at < Len(script)
    /\ at' = at + 1
    /\ UNCHANGED <<format, script, checkpoint, reader, ledger, mishaps>>

Marks(path) == IF path \in DOMAIN checkpoint THEN checkpoint[path].marks ELSE StartOf(format)

Unchanged(path) == Gated(format) /\ path \in DOMAIN checkpoint /\ checkpoint[path].seen = Source[path]

(* The stat of a source that has changed, and its checkpoint. *)
Open(path) ==
    /\ reader = None /\ path \in DOMAIN Source /\ ~Unchanged(path)
    /\ reader' = [path |-> path, seen |-> Source[path], stage |-> 1, rows |-> {},
                  marks |-> Marks(path), clean |-> TRUE]
    /\ UNCHANGED <<format, script, at, checkpoint, ledger, mishaps>>

(* A step of the read. *)
ReadStage ==
    /\ reader # None /\ reader.stage <= StagesOf(format) /\ reader.path \in DOMAIN Source
    /\ LET look == LookOf(format, reader.stage, reader.seen, Source[reader.path], reader.marks)
       IN reader' = [reader EXCEPT !.stage = @ + 1, !.rows = @ \cup look.rows,
                                   !.marks = look.marks, !.clean = @ /\ look.clean]
    /\ UNCHANGED <<format, script, at, checkpoint, ledger, mishaps>>

(* Bugs: a read that could not read everything is kept as read; the marks    *)
(* are not kept.                                                             *)
CommitUnread ==
    /\ reader # None /\ reader.stage > StagesOf(format)
    /\ ledger' = Recorded(ledger, reader.rows)
    /\ checkpoint' = [p \in DOMAIN checkpoint \cup {reader.path} |->
                         IF p # reader.path THEN checkpoint[p] ELSE [seen |-> reader.seen, marks |-> reader.marks]]
    /\ reader' = None
    /\ UNCHANGED <<format, script, at, mishaps>>

CommitAnew ==
    /\ reader # None /\ reader.stage > StagesOf(format)
    /\ ledger' = Recorded(ledger, reader.rows)
    /\ checkpoint' = IF ~reader.clean THEN checkpoint
                     ELSE [p \in DOMAIN checkpoint \cup {reader.path} |->
                             IF p # reader.path THEN checkpoint[p]
                             ELSE [seen |-> reader.seen, marks |-> StartOf(format)]]
    /\ reader' = None
    /\ UNCHANGED <<format, script, at, mishaps>>

(* What was read is recorded, and with it, unless something could not be     *)
(* read, the files as they were seen and what the next read resumes from.    *)
Commit ==
    /\ reader # None /\ reader.stage > StagesOf(format)
    /\ ledger' = Recorded(ledger, reader.rows)
    /\ checkpoint' = IF ~reader.clean THEN checkpoint
                     ELSE [p \in DOMAIN checkpoint \cup {reader.path} |->
                             IF p # reader.path THEN checkpoint[p]
                             ELSE [seen |-> reader.seen, marks |-> reader.marks]]
    /\ reader' = None
    /\ UNCHANGED <<format, script, at, mishaps>>

(* The source is gone between its stat and the read. *)
Gone ==
    /\ reader # None /\ reader.stage <= StagesOf(format) /\ reader.path \notin DOMAIN Source
    /\ reader' = None
    /\ UNCHANGED <<format, script, at, checkpoint, ledger, mishaps>>

(* A read that does not end: its process is gone, or a query fails, with     *)
(* some of its rows.                                                         *)
Interrupt ==
    /\ reader # None /\ mishaps < MaxMishaps
    /\ ledger' \in {ledger, Recorded(ledger, KeptOf(format, reader.rows))}
    /\ reader' = None
    /\ mishaps' = mishaps + 1
    /\ UNCHANGED <<format, script, at, checkpoint>>

Continue == ReadStage \/ Gone \/ Commit
Pass == (\E path \in Path : Open(path)) \/ Continue

Next == Write \/ Pass \/ Interrupt

Spec == Init /\ [][Next]_vars

(* The daemon runs a pass every interval, for as long as it lives; a pass    *)
(* comes to every source.                                                    *)
FairSpec == Spec /\ WF_vars(Continue) /\ \A p \in Path : SF_vars(Open(p))

----------------------------------------------------------------------------
Usage == {r \in ledger : r.table = "usage"}

(* One row for a key, counters that are numbers, and a read that belongs to  *)
(* a source.                                                                 *)
TypeOK ==
    /\ format \in Format /\ script \in Scripts(format) /\ at \in DOMAIN script
    /\ \A r, s \in ledger : r.table = s.table /\ r.key = s.key => r = s
    /\ \A r \in Usage : r.tokens \in Nat
    /\ \A p \in DOMAIN checkpoint : DOMAIN checkpoint[p] = {"seen", "marks"}
    /\ reader = None \/ (reader.stage \in 1..3 /\ reader.clean \in BOOLEAN)
    /\ mishaps \in 0..MaxMishaps

(* What was recorded for a thing. *)
Counted(of) == MapThenSumSet(LAMBDA r : r.tokens, {r \in Usage : r.of = of})

(* However the reads of a source were cut, repeated or overtaken by its      *)
(* agent, the ledger never holds more for a call or a session than it used.  *)
NeverOverstated == \A of \in {r.of : r \in Usage} : Counted(of) <= script[at].spent[of[1]]

(* A call is recorded under one key for good, also while its log grows       *)
(* around it and where a fork repeats it.                                    *)
CallsOnce == \A r, s \in ledger : r.table = "activity" /\ s.table = "activity" /\ r.of = s.of => r = s

(* A row that names a usage row, to share its cost or to say what it ran     *)
(* under, names the one of its own call, and that row is there.              *)
JoinsOwnCall ==
    \A r \in {x \in ledger : x.table \in {"activity", "context"} /\ x.joins # None} :
        /\ \E u \in Usage : u.key = r.joins /\ u.of[1] = r.of[1]
        /\ r.table = "context" /\ r.of[1] \in DOMAIN script[at].ran => r.value = script[at].ran[r.of[1]]

(* A call has one place in the ledger, and what tells of it is joined to its own. *)
CallsAreTheirOwn == CallsOnce /\ JoinsOwnCall

(* The rows that a first read would find in a source, all of it. *)
Found(source) ==
    LET marks == StartOf(format)
        one == LookOf(format, 1, source, source, marks)
    IN one.rows \cup IF StagesOf(format) = 1 THEN {} ELSE LookOf(format, 2, source, source, one.marks).rows

(* What stands under the key of a row is what an earlier state of the source *)
(* told of the same thing.                                                   *)
ToldBefore(r) ==
    \E k \in ledger :
        /\ k.table = r.table /\ k.key = r.key /\ k.of = r.of
        /\ \E i \in 1..(at - 1) : \E p \in DOMAIN script[i].files : k \in Found(script[i].files[p])

(* Usage is accounted for when all its tokens are, under any key; a call, a  *)
(* context or a change when it is there as the source tells it.  The one     *)
(* exception, by name: a call that is told of again, and of more, after it   *)
(* was recorded; its key is taken, and the ledger keeps what was told first. *)
Accounted(r) ==
    \/ IF r.table \in {"usage", "snapshot"} THEN Counted(r.of) >= r.tokens ELSE r \in ledger
    \/ format \in Retold /\ ToldBefore(r)

(* In the end everything a source holds is in the ledger, and every token,   *)
(* however the reads were cut, repeated or overtaken; but for what a format  *)
(* of Retold tells of again once it is recorded, which Accounted excepts.    *)
AllRecorded == <>[](\A p \in DOMAIN Source : \A r \in Found(Source[p]) : Accounted(r))
=============================================================================
