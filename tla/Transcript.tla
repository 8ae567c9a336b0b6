----------------------------- MODULE Transcript ----------------------------
(***************************************************************************)
(* Reading a log that its agent appends to (adapter: codex, pi, qwencode,  *)
(* kimicode, reasonix).  Every pass of the collector looks at the file's   *)
(* size and modification time, resumes where the last pass stopped when    *)
(* the file only grew, reads line by line, and leaves a checkpoint: the    *)
(* file as it was seen before reading, the offset after the last complete  *)
(* line, and what the format carries from line to line.  The agent writes  *)
(* meanwhile, also between two steps of one pass.                          *)
(*                                                                         *)
(* What one line means is the format's own (Codex, Pi, ...).               *)
(***************************************************************************)
EXTENDS Naturals, Sequences

CONSTANTS
    Format,            \* the formats
    Script(_),         \* the logs an agent of the format may write, each a sequence of lines
    StartOf(_),        \* what a read from the beginning carries
    ReadOf(_, _, _),   \* format, carried, line: what the line changes and yields
    WaitsOf(_, _, _),  \* a last line without its newline that is left alone
    ResumableOf(_, _), \* format, checkpoint: one that is resumed
    StateAfter(_, _),  \* format, lines: what a read of them carries on
    None,
    MaxMishaps         \* bound: logs begun anew or moved, and passes that do not end

(* Keys of a set of rows. *)
Keys(rows) == {<<r.table, r.key>> : r \in rows}

(* A line that a pass read without its newline is read again by the next: it *)
(* then leaves what is carried as it is, and its rows are there already.     *)
Steady(f, st, l) ==
    LET once == ReadOf(f, st, l)
        again == ReadOf(f, once.state, l)
    IN ~WaitsOf(f, st, l) => again.state = once.state /\ Keys(again.rows) \subseteq Keys(once.rows)

(* Every line of every log is steady where it stands. *)
ASSUME TranscriptAssumption ==
    /\ MaxMishaps \in Nat
    /\ \A f \in Format :
         /\ StateAfter(f, <<>>) = StartOf(f)
         /\ \A t \in Script(f) :
              /\ Len(t) \in Nat
              /\ \A n \in 0 .. Len(t) - 1 :
                   LET before == SubSeq(t, 1, n)
                       st == StateAfter(f, before)
                   IN /\ StateAfter(f, Append(before, t[n + 1])) = ReadOf(f, st, t[n + 1]).state
                      /\ Steady(f, st, t[n + 1])

VARIABLES
    format,      \* which agent writes the log
    log,         \* the complete lines
    fragment,    \* what stands after the last newline: None, or a line, whole or not
    written,     \* the file's modification time
    checkpoint,  \* source_checkpoints' row of the file, None before the first
    reader,      \* the pass under way, None between two
    ledger,      \* the rows recorded
    (* History: what one uninterrupted read would have found. *)
    found,       \* found[n + 1]: what it carries and has yielded after n lines
    ever,        \* all rows it would have yielded so far, of the logs before as well
    generation,  \* how many logs there were
    blind,       \* a pass took a line of a new log for one of the log before
    interrupts

agent == <<format, log, fragment, written, found, ever, generation>>
vars == <<format, log, fragment, written, checkpoint, reader, ledger,
          found, ever, generation, blind, interrupts>>

(* INSERT OR IGNORE: a row whose key is there is dropped. *)
Recorded(into, rows) ==
    into \cup {r \in rows : \A k \in into : k.table # r.table \/ k.key # r.key}

(* Sizes in steps of a fragment: a line is longer than its beginning, and   *)
(* its newline is one more.                                                 *)
Size == 3 * Len(log) + (IF fragment = None THEN 0 ELSE IF fragment.whole THEN 2 ELSE 1)

(* A modification time is only ever compared with those remembered: a write *)
(* makes it one that is not.                                                *)
Later == CHOOSE n \in 0..2 : /\ checkpoint = None \/ checkpoint.written # n
                             /\ reader = None \/ reader.written # n

(* The lines that may come next. *)
Following == {s[Len(log) + 1] : s \in {t \in Script(format) :
                 Len(log) < Len(t) /\ SubSeq(t, 1, Len(log)) = log}}

TypeOK ==
    /\ format \in Format
    /\ fragment = None \/ fragment \in [line : Following, whole : BOOLEAN]
    /\ {written, generation, interrupts} \subseteq Nat
    /\ checkpoint = None \/
          /\ DOMAIN checkpoint = {"size", "written", "offset", "state", "generation"}
          /\ {checkpoint.size, checkpoint.written, checkpoint.offset} \subseteq Nat
    /\ reader = None \/
          /\ DOMAIN reader = {"size", "written", "pos", "state", "rows", "drift", "known", "done", "generation"}
          /\ {reader.size, reader.written, reader.pos} \subseteq Nat
          /\ {reader.drift, reader.known, reader.done} \subseteq BOOLEAN
    /\ Len(found) = Len(log) + 1
    /\ blind \in BOOLEAN

Init ==
    /\ format \in Format
    /\ log = <<>> /\ fragment = None /\ written = 0
    /\ checkpoint = None /\ reader = None /\ ledger = {}
    /\ found = <<[state |-> StartOf(format), rows |-> {}]>>
    /\ ever = {} /\ generation = 0 /\ blind = FALSE /\ interrupts = 0

----------------------------------------------------------------------------
(* The agent. *)

Completes(l) ==
    LET before == found[Len(found)]
        line == ReadOf(format, before.state, l)
    IN /\ log' = Append(log, l)
       /\ found' = Append(found, [state |-> line.state, rows |-> Recorded(before.rows, line.rows)])
       /\ ever' = ever \cup line.rows

(* The rows of a line that has no newline yet. *)
Pending == IF fragment = None THEN {} ELSE ReadOf(format, found[Len(found)].state, fragment.line).rows

(* A line and its newline at once. *)
AppendLine(l) ==
    /\ fragment = None /\ l \in Following
    /\ Completes(l)
    /\ written' = Later
    /\ UNCHANGED <<format, fragment, checkpoint, reader, ledger, generation, blind, interrupts>>

(* The beginning of a line, or the line without its newline. *)
BeginLine(l, whole) ==
    /\ fragment = None /\ l \in Following
    /\ fragment' = [line |-> l, whole |-> whole]
    /\ written' = Later
    /\ UNCHANGED <<format, log, checkpoint, reader, ledger, found, ever, generation, blind, interrupts>>

EndLine ==
    /\ fragment # None
    /\ Completes(fragment.line)
    /\ fragment' = None
    /\ written' = Later
    /\ UNCHANGED <<format, checkpoint, reader, ledger, generation, blind, interrupts>>

(* The log is emptied, to be written anew. *)
Truncate ==
    /\ generation + interrupts < MaxMishaps /\ log # <<>>
    /\ log' = <<>> /\ fragment' = None /\ written' = Later
    /\ found' = <<[state |-> StartOf(format), rows |-> {}]>>
    /\ ever' = ever \cup Pending
    /\ generation' = generation + 1
    /\ UNCHANGED <<format, checkpoint, reader, ledger, blind, interrupts>>

(* The log is moved to where sessions are archived, or a session is forked: *)
(* the same lines under a path that has no checkpoint.                      *)
Move ==
    /\ generation + interrupts < MaxMishaps /\ checkpoint # None /\ reader = None
    /\ checkpoint' = None
    /\ generation' = generation + 1
    /\ UNCHANGED <<format, log, fragment, written, reader, ledger, found, ever, blind, interrupts>>

----------------------------------------------------------------------------
(* A pass. *)

(* Stat and, where the file only grew, the checkpoint's offset and state.   *)
Resumes ==
    /\ checkpoint # None
    /\ Size > checkpoint.size /\ checkpoint.offset * 3 <= Size
    /\ ResumableOf(format, checkpoint)

(* A bug: a file of the same size is taken for the same file. *)
UnchangedSize == checkpoint # None /\ checkpoint.size = Size

Unchanged == checkpoint # None /\ checkpoint.size = Size /\ checkpoint.written = written

(* A bug: what the format carries is not kept with the offset. *)
OpenForgetful ==
    /\ reader = None /\ ~Unchanged
    /\ LET pos == IF Resumes THEN checkpoint.offset ELSE 0
       IN reader' = [size |-> Size, written |-> written, pos |-> pos, state |-> StartOf(format),
                     rows |-> {}, drift |-> FALSE, known |-> pos > 0, done |-> FALSE, generation |-> generation]
    /\ blind' = (blind \/ (Resumes /\ checkpoint.generation # generation))
    /\ UNCHANGED <<agent, checkpoint, ledger, interrupts>>

Open ==
    /\ reader = None /\ ~Unchanged
    /\ LET pos == IF Resumes THEN checkpoint.offset ELSE 0
       IN reader' = [size |-> Size, written |-> written, pos |-> pos,
                     state |-> IF Resumes THEN checkpoint.state ELSE StartOf(format),
                     rows |-> {}, drift |-> FALSE, known |-> pos > 0, done |-> FALSE, generation |-> generation]
    /\ blind' = (blind \/ (Resumes /\ checkpoint.generation # generation))
    /\ UNCHANGED <<agent, checkpoint, ledger, interrupts>>

(* A complete line. *)
ReadLine ==
    /\ reader # None /\ ~reader.done /\ reader.pos < Len(log)
    /\ LET line == ReadOf(format, reader.state, log[reader.pos + 1])
       IN reader' = [reader EXCEPT !.pos = @ + 1, !.state = line.state,
                                   !.rows = Recorded(@, line.rows),
                                   !.drift = @ \/ line.drift, !.known = @ \/ line.known]
    /\ blind' = (blind \/ reader.generation # generation)
    /\ UNCHANGED <<agent, checkpoint, ledger, interrupts>>

(* What is read after the last newline: nothing, unless the line is whole.  *)
WithFragment(r) ==
    IF fragment = None \/ ~fragment.whole \/ r.pos > Len(log) THEN r
    ELSE IF WaitsOf(format, r.state, fragment.line) THEN r
    ELSE LET line == ReadOf(format, r.state, fragment.line)
         IN [r EXCEPT !.state = line.state, !.rows = Recorded(@, line.rows),
                      !.drift = @ \/ line.drift, !.known = @ \/ line.known]

Empty(r) == r.pos = 0 /\ (fragment = None \/ ~fragment.whole \/ WaitsOf(format, r.state, fragment.line))

EndOfFile ==
    /\ reader # None /\ ~reader.done /\ reader.pos >= Len(log)
    /\ LET read == WithFragment(reader)
       IN /\ reader' = [read EXCEPT !.done = TRUE, !.known = @ \/ Empty(reader)]
          /\ blind' = (blind \/ (read # reader /\ reader.generation # generation))
    /\ UNCHANGED <<agent, checkpoint, ledger, interrupts>>

(* Bugs: the file is looked at again after it was read; the offset is one   *)
(* line short; the state before the last line is kept.                      *)
CommitLater ==
    /\ reader # None /\ reader.done
    /\ ledger' = Recorded(ledger, reader.rows)
    /\ checkpoint' = IF reader.drift \/ ~reader.known THEN checkpoint
                     ELSE [size |-> Size, written |-> written, offset |-> reader.pos,
                           state |-> reader.state, generation |-> reader.generation]
    /\ reader' = None
    /\ UNCHANGED <<agent, blind, interrupts>>

(* What was read is recorded.  The offset stays before a line without       *)
(* newline, though its rows are recorded and its state is kept; no          *)
(* checkpoint is left by a read that met a record it could not trust, or    *)
(* recognized none.                                                         *)
Commit ==
    /\ reader # None /\ reader.done
    /\ ledger' = Recorded(ledger, reader.rows)
    /\ checkpoint' = IF reader.drift \/ ~reader.known THEN checkpoint
                     ELSE [size |-> reader.size, written |-> reader.written, offset |-> reader.pos,
                           state |-> reader.state, generation |-> reader.generation]
    /\ reader' = None
    /\ UNCHANGED <<agent, blind, interrupts>>

(* A pass that ends before the file does: cancelled or failing, with the    *)
(* rows read so far, or killed, with none.                                  *)
Interrupt ==
    /\ reader # None /\ generation + interrupts < MaxMishaps
    /\ \/ UNCHANGED ledger
       \/ ~reader.done /\ ledger' = Recorded(ledger, reader.rows)
    /\ reader' = None
    /\ interrupts' = interrupts + 1
    /\ UNCHANGED <<agent, checkpoint, blind>>

Agent == \/ \E l \in Following : AppendLine(l) \/ \E whole \in BOOLEAN : BeginLine(l, whole)
         \/ EndLine \/ Truncate \/ Move
Pass == Open \/ ReadLine \/ EndOfFile \/ Commit

Next == Agent \/ Pass \/ Interrupt

Spec == Init /\ [][Next]_vars

(* The daemon runs a pass every interval, for as long as it lives. *)
FairSpec == Spec /\ WF_vars(Pass)

----------------------------------------------------------------------------
(* However a log was cut into passes, and wherever a pass was interrupted,  *)
(* every recorded row is one that a single read of the log yields: nothing  *)
(* is counted from the wrong model or the wrong baseline, or twice.  (A row *)
(* of the last line may be recorded before its newline.)                    *)
RowsOfOneRead == blind \/ ledger \subseteq ever \cup Pending

(* Where the file is as the checkpoint says, no line before its end is      *)
(* missing from the ledger.                                                 *)
NoLineSkipped ==
    Unchanged /\ ~blind => Keys(found[Len(found)].rows) \subseteq Keys(ledger)

(* The checkpoint stands before a line, with what a read of all lines       *)
(* before it carries: or of that line as well, when it had no newline yet.  *)
CheckpointOfOneRead ==
    checkpoint # None /\ checkpoint.generation = generation /\ ~blind =>
        /\ checkpoint.offset <= Len(log)
        /\ LET at == found[checkpoint.offset + 1].state
               next == IF checkpoint.offset < Len(log) THEN {log[checkpoint.offset + 1]}
                       ELSE IF fragment # None THEN {fragment.line} ELSE {}
           IN checkpoint.state \in {at} \cup {ReadOf(format, at, l).state : l \in next}

(* Rows and checkpoint are those of one uninterrupted read of each log. *)
AsReadAtOnce == RowsOfOneRead /\ CheckpointOfOneRead

(* Every complete line is recorded in the end, unless its log is gone.      *)
Due == Keys(found[Len(found)].rows)
EveryLineRecorded == <>[](blind \/ Due \subseteq Keys(ledger))
=============================================================================
