-------------------------- MODULE TranscriptProofs --------------------------
(***************************************************************************)
(* Theorems about Transcript: for any formats, logs and mishaps, what is   *)
(* recorded of a log in passes is what one read of it yields, and a file   *)
(* that is as its checkpoint says has every line recorded.                 *)
(*                                                                         *)
(* The argument: found is the one read.  A reader, and a checkpoint of the *)
(* log that is there, stand before a line and carry what the one read      *)
(* carries there, or what it carries one line later, when that line was    *)
(* read before its newline; then its rows are recorded, and reading it     *)
(* again adds nothing.                                                     *)
(***************************************************************************)
EXTENDS Transcript, TLAPS

(* ------------------------------------------------------------ sequences *)

IsSeq(q) == \E S : q \in Seq(S)

LEMMA SeqFacts ==
    ASSUME NEW q, IsSeq(q), NEW e
    PROVE  /\ Len(q) \in Nat
           /\ IsSeq(Append(q, e))
           /\ Len(Append(q, e)) = Len(q) + 1
           /\ \A n \in 1 .. Len(q) : Append(q, e)[n] = q[n]
           /\ Append(q, e)[Len(q) + 1] = e
<1>1. PICK S : q \in Seq(S)
  BY DEF IsSeq
<1> DEFINE T == S \cup {e}
<1>2. q \in Seq(T)
  BY <1>1
<1>3. Append(q, e) \in Seq(T)
  BY <1>2
<1>4. IsSeq(Append(q, e))
  BY <1>3 DEF IsSeq
<1> QED
  BY <1>2, <1>4

LEMMA OneElement ==
    ASSUME NEW e
    PROVE  IsSeq(<<>>) /\ Len(<<>>) = 0 /\ IsSeq(<<e>>) /\ Len(<<e>>) = 1 /\ <<e>>[1] = e
<1>1. <<>> \in Seq({e}) /\ <<e>> \in Seq({e})
  OBVIOUS
<1> QED
  BY <1>1 DEF IsSeq

(* ----------------------------------------------------------------- rows *)

(* Rows under keys that are there are dropped, and the keys are all kept. *)
LEMMA RecordedRows ==
    ASSUME NEW into, NEW rows
    PROVE  /\ into \subseteq Recorded(into, rows)
           /\ \A r \in Recorded(into, rows) :
                 r \in into \/ (r \in rows /\ <<r.table, r.key>> \notin Keys(into))
           /\ Keys(Recorded(into, rows)) = Keys(into) \cup Keys(rows)
<1>1. into \subseteq Recorded(into, rows)
  BY DEF Recorded
<1>2. \A r \in Recorded(into, rows) :
         r \in into \/ (r \in rows /\ <<r.table, r.key>> \notin Keys(into))
  BY DEF Recorded, Keys
<1>3. Keys(Recorded(into, rows)) \subseteq Keys(into) \cup Keys(rows)
  BY DEF Recorded, Keys
<1>4. ASSUME NEW r \in rows
      PROVE  <<r.table, r.key>> \in Keys(Recorded(into, rows))
  <2>1. CASE \E k \in into : k.table = r.table /\ k.key = r.key
    BY <1>1, <2>1 DEF Keys
  <2>2. CASE ~\E k \in into : k.table = r.table /\ k.key = r.key
    BY <2>2 DEF Keys, Recorded
  <2> QED
    BY <2>1, <2>2
<1>5. Keys(into) \cup Keys(rows) \subseteq Keys(Recorded(into, rows))
  BY <1>1, <1>4 DEF Keys
<1> QED
  BY <1>1, <1>2, <1>3, <1>5

LEMMA KeysGrow ==
    ASSUME NEW A, NEW B, A \subseteq B
    PROVE  Keys(A) \subseteq Keys(B)
BY DEF Keys

(* ------------------------------------------------------- the invariants *)

(* What a line adds to what one read has found, and that it is steady. *)
ReadsOn(f, before, after, l, all) ==
    LET once == ReadOf(f, before.state, l)
    IN /\ after.state = once.state
       /\ Keys(after.rows) \subseteq Keys(before.rows) \cup Keys(once.rows)
       /\ once.rows \subseteq all
       /\ Steady(f, before.state, l)

(* found is one read of the log, and what is after the newline continues it. *)
FoundInv ==
    /\ format \in Format
    /\ IsSeq(log) /\ IsSeq(found) /\ Len(found) = Len(log) + 1
    /\ found[1] = [state |-> StartOf(format), rows |-> {}]
    /\ found[Len(log) + 1].state = StateAfter(format, log)
    /\ fragment # None => fragment.line \in Following
    /\ \A n \in 1 .. Len(log) : ReadsOn(format, found[n], found[n + 1], log[n], ever)

(* The line a reader finds at a position, with or without its newline. *)
NextLine(lines, rest, pos) ==
    IF pos < Len(lines) THEN {lines[pos + 1]} ELSE IF rest # None THEN {rest.line} ELSE {}

(* What is carried before a line: what one read carries there, or what it    *)
(* carries after the line, whose rows are then recorded.                     *)
Carries(f, at, lines, st, keys) ==
    \/ st = at
    \/ \E l \in lines :
          LET once == ReadOf(f, at, l)
          IN ~WaitsOf(f, at, l) /\ st = once.state /\ Keys(once.rows) \subseteq keys

(* A position in the log that is there, whose lines before it are recorded.  *)
Stands(pos, st, recorded, keys) ==
    /\ pos \in 0 .. Len(log)
    /\ Keys(found[pos + 1].rows) \subseteq recorded
    /\ Carries(format, found[pos + 1].state, NextLine(log, fragment, pos), st, keys)

(* Rows that belong to all, or are recorded under their keys already. *)
Accounted(rows, all, keys) == \A r \in rows : r \in all \/ <<r.table, r.key>> \in keys

(* The rows of the logs so far, and of the line without its newline. *)
Yielded == ever \cup Pending

PassRows == IF reader.done THEN Keys(reader.rows) ELSE {}

ReaderInv ==
    reader # None =>
      /\ DOMAIN reader = {"size", "written", "pos", "state", "rows", "drift", "known", "done", "generation"}
      /\ reader.done \in BOOLEAN /\ reader.generation \in 0 .. generation
      /\ ~blind => Accounted(reader.rows, Yielded, Keys(ledger))
      /\ reader.written = written => reader.generation = generation
      /\ ~blind /\ reader.generation = generation =>
            Stands(reader.pos, reader.state, Keys(ledger) \cup Keys(reader.rows), Keys(ledger) \cup PassRows)
      /\ ~blind /\ reader.written = written /\ reader.done => reader.pos = Len(log)

CheckpointInv ==
    checkpoint # None =>
      /\ checkpoint.generation \in 0 .. generation
      /\ checkpoint.written = written => checkpoint.generation = generation
      /\ ~blind /\ checkpoint.generation = generation =>
            Stands(checkpoint.offset, checkpoint.state, Keys(ledger), Keys(ledger))
      /\ ~blind /\ checkpoint.written = written => checkpoint.offset = Len(log)

LedgerInv == blind \in BOOLEAN /\ generation \in Nat /\ (~blind => ledger \subseteq Yielded)

TranscriptInv == FoundInv /\ ReaderInv /\ CheckpointInv /\ LedgerInv

(* ------------------------------------------------------- the log changes *)

(* What an agent does to a log that stays the same log. *)
Grows ==
    /\ generation' = generation /\ Len(log') \in Nat /\ Len(log) <= Len(log')
    /\ \A n \in 1 .. Len(log) + 1 : found'[n] = found[n]
    /\ \A pos \in 0 .. Len(log) : NextLine(log, fragment, pos) \subseteq NextLine(log', fragment', pos)

(* A write gives the file a time that nobody remembers. *)
Unseen == /\ checkpoint # None => checkpoint.written # written'
          /\ reader # None => reader.written # written'

LEMMA LaterIsUnseen ==
    /\ checkpoint # None => checkpoint.written # Later
    /\ reader # None => reader.written # Later
<1> DEFINE Free(n) == /\ checkpoint = None \/ checkpoint.written # n
                      /\ reader = None \/ reader.written # n
<1>1. \E n \in 0 .. 2 : Free(n)
  <2>1. 0 \in 0 .. 2 /\ 1 \in 0 .. 2 /\ 2 \in 0 .. 2
    OBVIOUS
  <2> QED
    BY <2>1
<1>2. Later = CHOOSE n \in 0 .. 2 : Free(n)
  BY DEF Later
<1>3. Free(CHOOSE n \in 0 .. 2 : Free(n))
  BY <1>1
<1> QED
  BY <1>2, <1>3

(* The line that comes next has a place in the assumption. *)
LEMMA FollowingIsSteady ==
    ASSUME format \in Format, Len(log) \in Nat, NEW l \in Following
    PROVE  /\ StateAfter(format, Append(log, l)) = ReadOf(format, StateAfter(format, log), l).state
           /\ Steady(format, StateAfter(format, log), l)
<1>1. PICK t \in Script(format) :
          Len(log) < Len(t) /\ SubSeq(t, 1, Len(log)) = log /\ l = t[Len(log) + 1]
  BY DEF Following
<1>2. Len(log) \in 0 .. Len(t) - 1
  BY <1>1, TranscriptAssumption
<1> QED
  BY <1>1, <1>2, TranscriptAssumption

LEMMA CarriesOn ==
    ASSUME NEW f, NEW at, NEW lines, NEW more, NEW st, NEW keys, NEW further,
           lines \subseteq more, keys \subseteq further, Carries(f, at, lines, st, keys)
    PROVE  Carries(f, at, more, st, further)
BY DEF Carries

(* Reader, checkpoint and ledger do not mind what the agent does. *)
LEMMA AgentLeavesPasses ==
    ASSUME TranscriptInv, Unseen, format' = format,
           UNCHANGED <<reader, ledger, blind>>, checkpoint' \in {checkpoint, None},
           Yielded \subseteq Yielded', Grows \/ generation' = generation + 1
    PROVE  ReaderInv' /\ CheckpointInv' /\ LedgerInv'
<1>1. /\ Len(log) \in Nat /\ generation \in Nat
  BY SeqFacts DEF TranscriptInv, FoundInv, LedgerInv
<1>2. LedgerInv'
  BY <1>1 DEF TranscriptInv, LedgerInv, Grows
<1>3. ASSUME generation' = generation, NEW pos, NEW st, NEW recorded, NEW keys,
             Stands(pos, st, recorded, keys)
      PROVE  /\ pos \in 0 .. Len(log')
             /\ Keys(found'[pos + 1].rows) \subseteq recorded
             /\ Carries(format', found'[pos + 1].state, NextLine(log', fragment', pos), st, keys)
  <2>1. Grows
    BY <1>1, <1>3
  <2>2. pos \in 0 .. Len(log) /\ pos + 1 \in 1 .. Len(log) + 1 /\ pos \in 0 .. Len(log')
    BY <1>1, <1>3, <2>1 DEF Stands, Grows
  <2>3. found'[pos + 1] = found[pos + 1]
    BY <2>1, <2>2 DEF Grows
  <2>4. NextLine(log, fragment, pos) \subseteq NextLine(log', fragment', pos)
    BY <2>1, <2>2 DEF Grows
  <2> QED
    BY <1>3, <2>2, <2>3, <2>4, CarriesOn DEF Stands
<1>4. ReaderInv'
  <2> SUFFICES ASSUME reader # None
               PROVE  ReaderInv'
    BY DEF ReaderInv
  <2>1. generation \in 0 .. generation' /\ generation' \in Nat
    BY <1>1 DEF Grows
  <2>2. reader.generation \in 0 .. generation /\ reader.generation \in 0 .. generation'
    BY <1>1, <2>1 DEF TranscriptInv, ReaderInv
  <2>3. ~blind => Accounted(reader.rows, Yielded', Keys(ledger))
    BY DEF TranscriptInv, ReaderInv, Accounted
  <2>4. reader.written # written'
    BY DEF Unseen
  <2>5. ~blind /\ reader.generation = generation' =>
           Stands(reader.pos, reader.state, Keys(ledger) \cup Keys(reader.rows), Keys(ledger) \cup PassRows)'
    <3> SUFFICES ASSUME ~blind, reader.generation = generation'
                 PROVE  Stands(reader.pos, reader.state, Keys(ledger) \cup Keys(reader.rows), Keys(ledger) \cup PassRows)'
      OBVIOUS
    <3>1. generation' = generation
      BY <1>1, <2>2 DEF Grows
    <3>2. Stands(reader.pos, reader.state, Keys(ledger) \cup Keys(reader.rows), Keys(ledger) \cup PassRows)
      BY <3>1 DEF TranscriptInv, ReaderInv
    <3>3. (Keys(ledger) \cup PassRows)' = Keys(ledger) \cup PassRows
          /\ (Keys(ledger) \cup Keys(reader.rows))' = Keys(ledger) \cup Keys(reader.rows)
      BY DEF PassRows, Keys
    <3>4. reader'.pos = reader.pos /\ reader'.state = reader.state
      OBVIOUS
    <3> QED
      BY <1>3, <3>1, <3>2, <3>3, <3>4 DEF Stands
  <2> QED
    BY <2>2, <2>3, <2>4, <2>5 DEF TranscriptInv, ReaderInv
<1>5. CheckpointInv'
  <2> SUFFICES ASSUME checkpoint' # None
               PROVE  CheckpointInv'
    BY DEF CheckpointInv
  <2>0. checkpoint' = checkpoint /\ checkpoint # None
    OBVIOUS
  <2>1. generation \in 0 .. generation' /\ generation' \in Nat
    BY <1>1 DEF Grows
  <2>2. checkpoint.generation \in 0 .. generation /\ checkpoint.generation \in 0 .. generation'
    BY <1>1, <2>0, <2>1 DEF TranscriptInv, CheckpointInv
  <2>3. checkpoint.written # written'
    BY <2>0 DEF Unseen
  <2>4. ~blind /\ checkpoint.generation = generation' =>
           Stands(checkpoint.offset, checkpoint.state, Keys(ledger), Keys(ledger))'
    <3> SUFFICES ASSUME ~blind, checkpoint.generation = generation'
                 PROVE  Stands(checkpoint.offset, checkpoint.state, Keys(ledger), Keys(ledger))'
      OBVIOUS
    <3>1. generation' = generation
      BY <1>1, <2>2 DEF Grows
    <3>2. Stands(checkpoint.offset, checkpoint.state, Keys(ledger), Keys(ledger))
      BY <2>0, <3>1 DEF TranscriptInv, CheckpointInv
    <3> QED
      BY <1>3, <2>0, <3>1, <3>2 DEF Stands
  <2> QED
    BY <2>0, <2>2, <2>3, <2>4 DEF CheckpointInv
<1> QED
  BY <1>2, <1>4, <1>5

(* A line and its newline: the one read goes on by it. *)
LEMMA LineCompletes ==
    ASSUME FoundInv, NEW l \in Following, Completes(l), format' = format, fragment' = None,
           generation' = generation, fragment # None => l = fragment.line
    PROVE  FoundInv' /\ Grows /\ Yielded \subseteq Yielded'
<1> DEFINE before == found[Len(found)]
           line == ReadOf(format, before.state, l)
           next == [state |-> line.state, rows |-> Recorded(before.rows, line.rows)]
           n0 == Len(log)
<1>1. log' = Append(log, l) /\ found' = Append(found, next) /\ ever' = ever \cup line.rows
  BY DEF Completes
<1>2. /\ n0 \in Nat /\ Len(found) = n0 + 1 /\ before = found[n0 + 1]
      /\ IsSeq(log) /\ IsSeq(found)
  BY SeqFacts DEF FoundInv
<1>3. /\ IsSeq(log') /\ Len(log') = n0 + 1 /\ log'[n0 + 1] = l
      /\ \A n \in 1 .. n0 : log'[n] = log[n]
  BY <1>1, <1>2, SeqFacts
<1>4. /\ IsSeq(found') /\ Len(found') = n0 + 2 /\ found'[n0 + 2] = next
      /\ \A n \in 1 .. n0 + 1 : found'[n] = found[n]
  <2>1. /\ IsSeq(Append(found, next)) /\ Len(Append(found, next)) = Len(found) + 1
        /\ Append(found, next)[Len(found) + 1] = next
        /\ \A n \in 1 .. Len(found) : Append(found, next)[n] = found[n]
    BY <1>2, SeqFacts
  <2>2. n0 + 1 + 1 = n0 + 2
    BY <1>2
  <2> HIDE DEF next
  <2> QED
    BY <1>1, <1>2, <2>1, <2>2
<1>5. /\ before.state = StateAfter(format, log)
      /\ StateAfter(format, log') = line.state
      /\ Steady(format, before.state, l)
  BY <1>1, <1>2, FollowingIsSteady DEF FoundInv
<1>6. ReadsOn(format, found'[n0 + 1], found'[n0 + 2], log'[n0 + 1], ever')
  <2>1. n0 + 1 \in 1 .. n0 + 1
    BY <1>2
  <2>2. found'[n0 + 1] = before /\ found'[n0 + 2] = next /\ log'[n0 + 1] = l
    BY <1>2, <1>3, <1>4, <2>1
  <2>3. next.state = line.state /\ Keys(next.rows) = Keys(before.rows) \cup Keys(line.rows)
    BY RecordedRows
  <2>4. line.rows \subseteq ever'
    BY <1>1
  <2> QED
    BY <1>5, <2>2, <2>3, <2>4 DEF ReadsOn
<1>7. ASSUME NEW n \in 1 .. n0
      PROVE  ReadsOn(format, found'[n], found'[n + 1], log'[n], ever')
  <2>1. n \in 1 .. n0 + 1 /\ n + 1 \in 1 .. n0 + 1
    BY <1>2
  <2>2. found'[n] = found[n] /\ found'[n + 1] = found[n + 1] /\ log'[n] = log[n]
    BY <1>3, <1>4, <2>1
  <2>3. ReadsOn(format, found[n], found[n + 1], log[n], ever)
    BY DEF FoundInv
  <2> QED
    BY <1>1, <2>2, <2>3 DEF ReadsOn
<1>8. FoundInv'
  <2>1. \A n \in 1 .. Len(log') : ReadsOn(format', found'[n], found'[n + 1], log'[n], ever')
    <3> SUFFICES ASSUME NEW n \in 1 .. Len(log')
                 PROVE  ReadsOn(format', found'[n], found'[n + 1], log'[n], ever')
      OBVIOUS
    <3>1. n \in 1 .. n0 \/ n = n0 + 1
      BY <1>2, <1>3
    <3>2. n0 + 1 + 1 = n0 + 2
      BY <1>2
    <3> QED
      BY <1>6, <1>7, <3>1, <3>2
  <2>2. found'[1] = [state |-> StartOf(format), rows |-> {}]
    <3>1. 1 \in 1 .. n0 + 1
      BY <1>2
    <3> QED
      BY <1>4, <3>1 DEF FoundInv
  <2>3. found'[Len(log') + 1].state = StateAfter(format, log')
    <3>1. Len(log') + 1 = n0 + 2
      BY <1>2, <1>3
    <3> QED
      BY <1>4, <1>5, <3>1
  <2>4. Len(found') = Len(log') + 1
    BY <1>2, <1>3, <1>4
  <2> QED
    BY <1>3, <1>4, <2>1, <2>2, <2>3, <2>4 DEF FoundInv
<1>9. Grows
  <2>1. ASSUME NEW pos \in 0 .. n0
        PROVE  NextLine(log, fragment, pos) \subseteq NextLine(log', fragment', pos)
    <3>1. CASE pos < n0
      <4>1. pos + 1 \in 1 .. n0 /\ pos < Len(log')
        BY <1>2, <1>3, <3>1
      <4> QED
        BY <1>3, <3>1, <4>1 DEF NextLine
    <3>2. CASE pos = n0
      <4>1. NextLine(log', fragment', pos) = {l}
        BY <1>2, <1>3, <3>2 DEF NextLine
      <4> QED
        BY <1>2, <3>2, <4>1 DEF NextLine
    <3> QED
      BY <1>2, <3>1, <3>2
  <2> QED
    BY <1>2, <1>3, <1>4, <2>1 DEF Grows
<1>10. Yielded \subseteq Yielded'
  <2>1. Pending \subseteq line.rows
    BY DEF Pending
  <2> QED
    BY <1>1, <2>1 DEF Yielded
<1> QED
  BY <1>8, <1>9, <1>10

LEMMA WritesUnseen ==
    ASSUME written' = Later
    PROVE  Unseen
BY LaterIsUnseen DEF Unseen

LEMMA AppendLineKeeps ==
    ASSUME TranscriptInv, NEW l \in Following, AppendLine(l)
    PROVE  TranscriptInv'
<1>1. Unseen
  BY WritesUnseen DEF AppendLine
<1>2. FoundInv' /\ Grows /\ Yielded \subseteq Yielded'
  BY LineCompletes DEF AppendLine, TranscriptInv
<1>3. ReaderInv' /\ CheckpointInv' /\ LedgerInv'
  BY <1>1, <1>2, AgentLeavesPasses DEF AppendLine
<1> QED
  BY <1>2, <1>3 DEF TranscriptInv

LEMMA EndLineKeeps ==
    ASSUME TranscriptInv, EndLine
    PROVE  TranscriptInv'
<1>1. Unseen
  BY WritesUnseen DEF EndLine
<1>2. FoundInv' /\ Grows /\ Yielded \subseteq Yielded'
  BY LineCompletes DEF EndLine, TranscriptInv, FoundInv
<1>3. ReaderInv' /\ CheckpointInv' /\ LedgerInv'
  BY <1>1, <1>2, AgentLeavesPasses DEF EndLine
<1> QED
  BY <1>2, <1>3 DEF TranscriptInv

LEMMA BeginLineKeeps ==
    ASSUME TranscriptInv, NEW l \in Following, NEW whole, BeginLine(l, whole)
    PROVE  TranscriptInv'
<1>1. Unseen
  BY WritesUnseen DEF BeginLine
<1>2. FoundInv'
  <2>1. Following' = Following
    BY DEF BeginLine, Following
  <2>2. fragment'.line = l
    BY DEF BeginLine
  <2> QED
    BY <2>1, <2>2 DEF BeginLine, TranscriptInv, FoundInv
<1>3. Len(log) \in Nat
  BY SeqFacts DEF TranscriptInv, FoundInv
<1>4. Grows
  <2>1. \A pos \in 0 .. Len(log) : NextLine(log, fragment, pos) \subseteq NextLine(log', fragment', pos)
    BY DEF BeginLine, NextLine
  <2> QED
    BY <1>3, <2>1 DEF BeginLine, Grows
<1>5. Yielded \subseteq Yielded'
  BY DEF BeginLine, Yielded, Pending
<1>6. ReaderInv' /\ CheckpointInv' /\ LedgerInv'
  BY <1>1, <1>4, <1>5, AgentLeavesPasses DEF BeginLine
<1> QED
  BY <1>2, <1>6 DEF TranscriptInv

LEMMA TruncateKeeps ==
    ASSUME TranscriptInv, Truncate
    PROVE  TranscriptInv'
<1>1. Unseen
  BY WritesUnseen DEF Truncate
<1> DEFINE start == [state |-> StartOf(format), rows |-> {}]
<1>2. /\ format' = format /\ log' = <<>> /\ found' = <<start>> /\ fragment' = None
      /\ ever' = ever \cup Pending /\ generation' = generation + 1
      /\ UNCHANGED <<checkpoint, reader, ledger, blind>>
  BY DEF Truncate
<1>3. FoundInv'
  <2>1. /\ IsSeq(log') /\ Len(log') = 0
        /\ IsSeq(found') /\ Len(found') = 1 /\ found'[1] = start
    <3> HIDE DEF start
    <3> QED
      BY <1>2, OneElement
  <2>2. StateAfter(format, <<>>) = StartOf(format) /\ format \in Format
    BY TranscriptAssumption DEF TranscriptInv, FoundInv
  <2>3. 1 .. Len(log') = {}
    BY <2>1
  <2> QED
    BY <1>2, <2>1, <2>2, <2>3 DEF FoundInv
<1>4. Yielded \subseteq Yielded'
  BY <1>2 DEF Yielded
<1>5. ReaderInv' /\ CheckpointInv' /\ LedgerInv'
  BY <1>1, <1>2, <1>4, AgentLeavesPasses
<1> QED
  BY <1>3, <1>5 DEF TranscriptInv

LEMMA MoveKeeps ==
    ASSUME TranscriptInv, Move
    PROVE  TranscriptInv'
<1>1. FoundInv'
  <2>1. Following' = Following
    BY DEF Move, Following
  <2> QED
    BY <2>1 DEF Move, TranscriptInv, FoundInv
<1>2. ReaderInv' /\ CheckpointInv'
  BY DEF Move, ReaderInv, CheckpointInv
<1>3. LedgerInv'
  <2>1. Yielded' = Yielded
    BY DEF Move, Yielded, Pending
  <2> QED
    BY <2>1 DEF Move, TranscriptInv, LedgerInv
<1> QED
  BY <1>1, <1>2, <1>3 DEF TranscriptInv

(* --------------------------------------------------------------- passes *)

LEMMA AgentUntouched ==
    ASSUME FoundInv, UNCHANGED agent
    PROVE  /\ FoundInv' /\ Yielded' = Yielded
           /\ \A pos, st, recorded, keys :
                 Stands(pos, st, recorded, keys)' = Stands(pos, st, recorded, keys)
<1>1. Following' = Following /\ Pending' = Pending
  BY DEF agent, Following, Pending
<1> QED
  BY <1>1 DEF agent, FoundInv, Yielded, Stands

(* More may be recorded than is needed. *)
LEMMA StandsOn ==
    ASSUME NEW pos, NEW st, NEW recorded, NEW keys, NEW more, NEW further,
           recorded \subseteq more, keys \subseteq further, Stands(pos, st, recorded, keys)
    PROVE  Stands(pos, st, more, further)
BY CarriesOn DEF Stands

LEMMA OpenKeeps ==
    ASSUME TranscriptInv, Open
    PROVE  TranscriptInv'
<1> DEFINE pos == IF Resumes THEN checkpoint.offset ELSE 0
           st == IF Resumes THEN checkpoint.state ELSE StartOf(format)
<1>1. /\ reader' = [size |-> Size, written |-> written, pos |-> pos, state |-> st,
                     rows |-> {}, drift |-> FALSE, known |-> pos > 0, done |-> FALSE, generation |-> generation]
      /\ blind' = (blind \/ (Resumes /\ checkpoint.generation # generation))
      /\ UNCHANGED <<agent, checkpoint, ledger>>
  BY DEF Open
<1>2. /\ reader'.written = written /\ reader'.pos = pos /\ reader'.state = st /\ reader'.rows = {}
      /\ reader'.done = FALSE /\ reader'.generation = generation
      /\ DOMAIN reader' = {"size", "written", "pos", "state", "rows", "drift", "known", "done", "generation"}
  <2> HIDE DEF pos, st
  <2> QED
    BY <1>1
<1>3. FoundInv' /\ Yielded' = Yielded /\ generation' = generation /\ written' = written
  BY <1>1, AgentUntouched DEF TranscriptInv, agent
<1>4. Len(log) \in Nat /\ generation \in Nat
  BY SeqFacts DEF TranscriptInv, FoundInv, LedgerInv
<1>5. ~blind' => ~blind
  BY <1>1 DEF TranscriptInv, LedgerInv
<1>6. ~blind' => Stands(pos, st, Keys(ledger), Keys(ledger))
  <2>1. CASE Resumes
    <3>1. ~blind' => checkpoint.generation = generation
      BY <1>1, <2>1
    <3>2. checkpoint # None
      BY <2>1 DEF Resumes
    <3> QED
      BY <1>5, <2>1, <3>1, <3>2 DEF TranscriptInv, CheckpointInv
  <2>2. CASE ~Resumes
    <3>1. found[1].rows = {} /\ found[1].state = StartOf(format)
      BY DEF TranscriptInv, FoundInv
    <3>2. 0 \in 0 .. Len(log) /\ 0 + 1 = 1 /\ Keys({}) = {}
      BY <1>4 DEF Keys
    <3> QED
      BY <2>2, <3>1, <3>2 DEF Stands, Carries
  <2> QED
    BY <2>1, <2>2
<1>7. ReaderInv'
  <2>1. ~blind' => Stands(pos, st, Keys(ledger) \cup Keys({}), Keys(ledger) \cup {})
    BY <1>6, StandsOn
  <2>2. (Keys(ledger) \cup Keys(reader.rows))' = Keys(ledger) \cup Keys({})
        /\ (Keys(ledger) \cup PassRows)' = Keys(ledger) \cup {}
    BY <1>1, <1>2 DEF PassRows, Keys
  <2>3. ~blind' => Stands(reader.pos, reader.state, Keys(ledger) \cup Keys(reader.rows), Keys(ledger) \cup PassRows)'
    <3> HIDE DEF pos, st
    <3> QED
      BY <1>1, <1>2, <2>1, <2>2 DEF Stands, agent
  <2>4. generation \in 0 .. generation /\ Accounted(reader.rows, Yielded, Keys(ledger))'
    BY <1>2, <1>4 DEF Accounted
  <2> HIDE DEF pos, st
  <2> QED
    BY <1>2, <1>3, <2>3, <2>4 DEF ReaderInv
<1>8. CheckpointInv'
  <2>1. \A p, s, r, k : Stands(p, s, r, k)' = Stands(p, s, r, k)
    BY <1>1, AgentUntouched DEF TranscriptInv
  <2> QED
    BY <1>1, <1>3, <1>5, <2>1 DEF TranscriptInv, CheckpointInv, Stands, agent
<1>9. LedgerInv'
  BY <1>1, <1>3, <1>5 DEF TranscriptInv, LedgerInv
<1> QED
  BY <1>3, <1>7, <1>8, <1>9 DEF TranscriptInv

(* A steady line that is read leaves what one read carries after it, and its *)
(* rows are those of the one read, or all there already.                     *)
LEMMA ReadsAsOnce ==
    ASSUME NEW f, NEW at, NEW l, NEW st, NEW keys,
           Steady(f, at, l), Carries(f, at, {l}, st, keys)
    PROVE  /\ ReadOf(f, st, l).state = ReadOf(f, at, l).state
           /\ \/ ReadOf(f, st, l) = ReadOf(f, at, l)
              \/ /\ Keys(ReadOf(f, at, l).rows) \subseteq keys
                 /\ Keys(ReadOf(f, st, l).rows) \subseteq keys
BY DEF Steady, Carries

(* The rows a reader adds to those it has. *)
LEMMA ReadRows ==
    ASSUME NEW rows, NEW more, NEW keys, NEW all,
           Accounted(rows, all, keys), more \subseteq all \/ Keys(more) \subseteq keys
    PROVE  Accounted(Recorded(rows, more), all, keys)
<1>1. ASSUME NEW r \in more
      PROVE  r \in all \/ <<r.table, r.key>> \in keys
  BY DEF Keys
<1> QED
  BY <1>1, RecordedRows DEF Accounted

LEMMA ReadLineKeeps ==
    ASSUME TranscriptInv, ReadLine
    PROVE  TranscriptInv'
<1> DEFINE n0 == reader.pos
           l == log[n0 + 1]
           line == ReadOf(format, reader.state, l)
           r == reader'
<1>1. /\ reader # None /\ ~reader.done /\ n0 < Len(log)
      /\ reader' = [reader EXCEPT !.pos = @ + 1, !.state = line.state,
                                  !.rows = Recorded(@, line.rows),
                                  !.drift = @ \/ line.drift, !.known = @ \/ line.known]
      /\ blind' = (blind \/ reader.generation # generation)
      /\ UNCHANGED <<agent, checkpoint, ledger>>
  BY DEF ReadLine
<1>2. /\ r.written = reader.written /\ r.pos = n0 + 1 /\ r.state = line.state
      /\ r.rows = Recorded(reader.rows, line.rows) /\ r.done = FALSE /\ r.generation = reader.generation
      /\ DOMAIN r = {"size", "written", "pos", "state", "rows", "drift", "known", "done", "generation"}
  <2> HIDE DEF line
  <2> QED
    BY <1>1 DEF TranscriptInv, ReaderInv
<1>3. FoundInv' /\ Yielded' = Yielded /\ generation' = generation /\ written' = written
  BY <1>1, AgentUntouched DEF TranscriptInv, agent
<1>4. Len(log) \in Nat /\ generation \in Nat
  BY SeqFacts DEF TranscriptInv, FoundInv, LedgerInv
<1>5. ~blind' => ~blind /\ reader.generation = generation
  BY <1>1 DEF TranscriptInv, LedgerInv
<1>6. ASSUME ~blind'
      PROVE  /\ Accounted(r.rows, Yielded, Keys(ledger))
             /\ Stands(r.pos, r.state, Keys(ledger) \cup Keys(r.rows), Keys(ledger))
  <2> DEFINE at == found[n0 + 1]
             once == ReadOf(format, at.state, l)
  <2>1. Stands(n0, reader.state, Keys(ledger) \cup Keys(reader.rows), Keys(ledger))
    <3>1. Stands(n0, reader.state, Keys(ledger) \cup Keys(reader.rows), Keys(ledger) \cup PassRows)
      BY <1>1, <1>5, <1>6 DEF TranscriptInv, ReaderInv
    <3>2. Keys(ledger) \cup PassRows = Keys(ledger)
      BY <1>1 DEF PassRows
    <3> QED
      BY <3>1, <3>2
  <2>2. n0 \in 0 .. Len(log) /\ n0 + 1 \in 1 .. Len(log) /\ n0 + 1 \in 0 .. Len(log)
    BY <1>1, <1>4, <2>1 DEF Stands
  <2>3. Carries(format, at.state, {l}, reader.state, Keys(ledger))
    BY <1>1, <2>1 DEF Stands, NextLine
  <2>4. ReadsOn(format, at, found[n0 + 2], l, ever)
    <3>1. n0 + 1 + 1 = n0 + 2
      BY <2>2
    <3> QED
      BY <2>2, <3>1 DEF TranscriptInv, FoundInv
  <2>5. /\ line.state = once.state
        /\ line = once \/ (Keys(once.rows) \subseteq Keys(ledger) /\ Keys(line.rows) \subseteq Keys(ledger))
    BY <2>3, <2>4, ReadsAsOnce DEF ReadsOn
  <2>6. Keys(once.rows) \subseteq Keys(ledger) \cup Keys(r.rows)
    BY <1>2, <2>5, RecordedRows
  <2>7. Accounted(r.rows, Yielded, Keys(ledger))
    <3>1. Accounted(reader.rows, Yielded, Keys(ledger))
      BY <1>1, <1>5, <1>6 DEF TranscriptInv, ReaderInv
    <3>2. line.rows \subseteq Yielded \/ Keys(line.rows) \subseteq Keys(ledger)
      BY <2>4, <2>5 DEF ReadsOn, Yielded
    <3> QED
      BY <1>2, <3>1, <3>2, ReadRows
  <2>8. Stands(r.pos, r.state, Keys(ledger) \cup Keys(r.rows), Keys(ledger))
    <3>1. r.pos + 1 = n0 + 2
      BY <1>2, <2>2
    <3>2. found[n0 + 2].state = once.state /\ Keys(found[n0 + 2].rows) \subseteq Keys(at.rows) \cup Keys(once.rows)
      BY <2>4 DEF ReadsOn
    <3>3. Keys(at.rows) \subseteq Keys(ledger) \cup Keys(reader.rows)
      BY <2>1 DEF Stands
    <3>4. Keys(reader.rows) \subseteq Keys(r.rows)
      BY <1>2, RecordedRows
    <3>5. Keys(found[n0 + 2].rows) \subseteq Keys(ledger) \cup Keys(r.rows)
      BY <2>6, <3>2, <3>3, <3>4
    <3>6. Carries(format, found[n0 + 2].state, NextLine(log, fragment, n0 + 1), r.state, Keys(ledger))
      BY <1>2, <2>5, <3>2 DEF Carries
    <3> QED
      BY <1>2, <2>2, <3>1, <3>5, <3>6 DEF Stands
  <2> QED
    BY <2>7, <2>8
<1>7. \A p, s, d, k : Stands(p, s, d, k)' = Stands(p, s, d, k)
  BY <1>1, AgentUntouched DEF TranscriptInv
<1>8. ReaderInv'
  <2>1. (Keys(ledger) \cup Keys(reader.rows))' = Keys(ledger) \cup Keys(r.rows)
        /\ (Keys(ledger) \cup PassRows)' = Keys(ledger) /\ Keys(ledger)' = Keys(ledger)
    BY <1>1, <1>2 DEF PassRows, Keys
  <2>2. ~blind' => Stands(reader.pos, reader.state, Keys(ledger) \cup Keys(reader.rows), Keys(ledger) \cup PassRows)'
    BY <1>1, <1>6, <2>1 DEF Stands, agent
  <2>3. ~blind' => Accounted(reader.rows, Yielded, Keys(ledger))'
    BY <1>3, <1>6, <2>1
  <2>4. reader.generation \in 0 .. generation /\ (reader.written = written => reader.generation = generation)
    BY <1>1 DEF TranscriptInv, ReaderInv
  <2> QED
    BY <1>2, <1>3, <2>2, <2>3, <2>4 DEF ReaderInv
<1>9. CheckpointInv'
  BY <1>1, <1>3, <1>5, <1>7 DEF TranscriptInv, CheckpointInv, Stands, agent
<1>10. LedgerInv'
  BY <1>1, <1>3, <1>5 DEF TranscriptInv, LedgerInv
<1> QED
  BY <1>3, <1>8, <1>9, <1>10 DEF TranscriptInv

(* The end of the file, whether or not a line without its newline is read. *)
LEMMA EndOfFileReads ==
    ASSUME TranscriptInv, EndOfFile
    PROVE  /\ DOMAIN reader' = {"size", "written", "pos", "state", "rows", "drift", "known", "done", "generation"}
           /\ reader'.written = reader.written /\ reader'.pos = reader.pos /\ reader'.done = TRUE
           /\ reader'.generation = reader.generation
           /\ \/ reader'.state = reader.state /\ reader'.rows = reader.rows
              \/ LET line == ReadOf(format, reader.state, fragment.line)
                 IN /\ fragment # None /\ ~WaitsOf(format, reader.state, fragment.line)
                    /\ reader'.state = line.state /\ reader'.rows = Recorded(reader.rows, line.rows)
                    /\ ~blind' => reader.generation = generation
<1> DEFINE line == ReadOf(format, reader.state, fragment.line)
           read == WithFragment(reader)
           more == [reader EXCEPT !.state = line.state, !.rows = Recorded(@, line.rows),
                                  !.drift = @ \/ line.drift, !.known = @ \/ line.known]
           Shape(r) == DOMAIN r = {"size", "written", "pos", "state", "rows", "drift", "known", "done", "generation"}
<1>1. /\ reader' = [read EXCEPT !.done = TRUE, !.known = @ \/ Empty(reader)]
      /\ blind' = (blind \/ (read # reader /\ reader.generation # generation))
      /\ Shape(reader)
  BY DEF EndOfFile, TranscriptInv, ReaderInv
<1>2. \/ read = reader
      \/ read = more /\ fragment # None /\ ~WaitsOf(format, reader.state, fragment.line)
  BY DEF WithFragment
<1>3. /\ Shape(more) /\ more.written = reader.written /\ more.pos = reader.pos
      /\ more.generation = reader.generation
      /\ more.state = line.state /\ more.rows = Recorded(reader.rows, line.rows)
  <2> HIDE DEF line
  <2> QED
    BY <1>1
<1>4. Shape(read)
  <2> HIDE DEF more, read
  <2> QED
    BY <1>1, <1>2, <1>3
<1>5. /\ Shape(reader') /\ reader'.written = read.written /\ reader'.pos = read.pos /\ reader'.done = TRUE
      /\ reader'.generation = read.generation /\ reader'.state = read.state /\ reader'.rows = read.rows
  <2> HIDE DEF read
  <2> QED
    BY <1>1, <1>4
<1> HIDE DEF read, more
<1>6. CASE read = reader
  BY <1>5, <1>6
<1>7. CASE read # reader
  <2>1. ~blind' => reader.generation = generation
    BY <1>1, <1>7 DEF TranscriptInv, LedgerInv
  <2> QED
    BY <1>2, <1>3, <1>5, <1>7, <2>1
<1> QED
  BY <1>6, <1>7

LEMMA EndOfFileKeeps ==
    ASSUME TranscriptInv, EndOfFile
    PROVE  TranscriptInv'
<1> DEFINE r == reader'
           all == Keys(ledger) \cup Keys(r.rows)
<1>1. /\ reader # None /\ ~reader.done /\ reader.pos >= Len(log)
      /\ (~blind' => ~blind) /\ blind' \in BOOLEAN
      /\ UNCHANGED <<agent, checkpoint, ledger>>
  BY DEF EndOfFile, TranscriptInv, LedgerInv
<1>2. FoundInv' /\ Yielded' = Yielded /\ generation' = generation /\ written' = written
      /\ Keys(ledger)' = Keys(ledger)
  BY <1>1, AgentUntouched DEF TranscriptInv, agent, Keys
<1>3. Len(log) \in Nat
  BY SeqFacts DEF TranscriptInv, FoundInv
<1>4. ASSUME ~blind
      PROVE  /\ Accounted(reader.rows, Yielded, Keys(ledger))
             /\ reader.generation = generation =>
                   /\ Stands(reader.pos, reader.state, Keys(ledger) \cup Keys(reader.rows), Keys(ledger))
                   /\ reader.pos = Len(log)
  <2>1. Keys(ledger) \cup PassRows = Keys(ledger)
    BY <1>1 DEF PassRows
  <2>2. reader.generation = generation =>
           Stands(reader.pos, reader.state, Keys(ledger) \cup Keys(reader.rows), Keys(ledger))
    BY <1>1, <1>4, <2>1 DEF TranscriptInv, ReaderInv
  <2>3. reader.generation = generation => reader.pos = Len(log)
    BY <1>1, <1>3, <2>2 DEF Stands
  <2> QED
    BY <1>1, <1>4, <2>2, <2>3 DEF TranscriptInv, ReaderInv
<1>5. ASSUME ~blind', r.state = reader.state, r.rows = reader.rows
      PROVE  /\ Accounted(r.rows, Yielded, Keys(ledger))
             /\ reader.generation = generation => Stands(reader.pos, r.state, all, all)
  <2>1. reader.generation = generation => Stands(reader.pos, r.state, all, Keys(ledger))
    BY <1>1, <1>4, <1>5
  <2>2. reader.generation = generation => Stands(reader.pos, r.state, all, all)
    <3>1. all \subseteq all /\ Keys(ledger) \subseteq all
      OBVIOUS
    <3> HIDE DEF all, r
    <3> QED
      BY <2>1, <3>1, StandsOn
  <2> QED
    BY <1>1, <1>4, <1>5, <2>2
<1>6. ASSUME ~blind', fragment # None, ~WaitsOf(format, reader.state, fragment.line),
             reader.generation = generation,
             r.state = ReadOf(format, reader.state, fragment.line).state,
             r.rows = Recorded(reader.rows, ReadOf(format, reader.state, fragment.line).rows)
      PROVE  Accounted(r.rows, Yielded, Keys(ledger)) /\ Stands(reader.pos, r.state, all, all)
  <2> DEFINE at == found[Len(log) + 1]
             l == fragment.line
             once == ReadOf(format, at.state, l)
             line == ReadOf(format, reader.state, l)
  <2>1. /\ Stands(reader.pos, reader.state, Keys(ledger) \cup Keys(reader.rows), Keys(ledger))
        /\ reader.pos = Len(log) /\ Accounted(reader.rows, Yielded, Keys(ledger))
    BY <1>1, <1>4, <1>6
  <2>2. /\ Keys(at.rows) \subseteq Keys(ledger) \cup Keys(reader.rows)
        /\ Carries(format, at.state, {l}, reader.state, Keys(ledger))
        /\ reader.pos \in 0 .. Len(log)
    BY <1>3, <1>6, <2>1 DEF Stands, NextLine
  <2>3. Steady(format, at.state, l) /\ once.rows = Pending
    <3>1. l \in Following /\ at.state = StateAfter(format, log) /\ format \in Format /\ Len(found) = Len(log) + 1
      BY <1>6 DEF TranscriptInv, FoundInv
    <3> QED
      BY <1>3, <1>6, <3>1, FollowingIsSteady DEF Pending
  <2>4. /\ line.state = once.state
        /\ line = once \/ (Keys(once.rows) \subseteq Keys(ledger) /\ Keys(line.rows) \subseteq Keys(ledger))
    <3> HIDE DEF at, l
    <3> QED
      BY <2>2, <2>3, ReadsAsOnce
  <2>5. Keys(r.rows) = Keys(reader.rows) \cup Keys(line.rows)
    BY <1>6, RecordedRows
  <2>6. Keys(once.rows) \subseteq all
    BY <2>4, <2>5
  <2>7. Accounted(r.rows, Yielded, Keys(ledger))
    <3>1. line.rows \subseteq Yielded \/ Keys(line.rows) \subseteq Keys(ledger)
      BY <2>3, <2>4 DEF Yielded
    <3> QED
      BY <1>6, <2>1, <3>1, ReadRows
  <2>8. Carries(format, at.state, {l}, r.state, all)
    <3>1. CASE WaitsOf(format, at.state, l)
      <4>1. reader.state = at.state
        BY <2>2, <3>1 DEF Carries
      <4> QED
        BY <1>6, <3>1, <4>1
    <3>2. CASE ~WaitsOf(format, at.state, l)
      <4>1. r.state = once.state
        BY <1>6, <2>4
      <4> HIDE DEF all, r, once
      <4>2. ~WaitsOf(format, at.state, l) /\ r.state = ReadOf(format, at.state, l).state
            /\ Keys(ReadOf(format, at.state, l).rows) \subseteq all
        BY <2>6, <3>2, <4>1 DEF once
      <4> QED
        BY <4>2 DEF Carries
    <3> QED
      BY <3>1, <3>2
  <2>9. Stands(reader.pos, r.state, all, all)
    <3>1. Keys(at.rows) \subseteq all
      BY <2>2, <2>5
    <3>2. NextLine(log, fragment, reader.pos) = {l}
      BY <1>3, <1>6, <2>1 DEF NextLine
    <3> HIDE DEF all, r, l
    <3> QED
      BY <2>1, <2>2, <2>8, <3>1, <3>2 DEF Stands
  <2> QED
    BY <2>7, <2>9
<1>7. ReaderInv'
  <2>1. /\ DOMAIN r = {"size", "written", "pos", "state", "rows", "drift", "known", "done", "generation"}
        /\ r.written = reader.written /\ r.pos = reader.pos /\ r.done = TRUE
        /\ r.generation = reader.generation
    BY EndOfFileReads
  <2>2. ~blind' => /\ Accounted(r.rows, Yielded, Keys(ledger))
                   /\ reader.generation = generation => Stands(reader.pos, r.state, all, all)
    BY <1>5, <1>6, EndOfFileReads
  <2>3. (Keys(ledger) \cup Keys(reader.rows))' = all /\ (Keys(ledger) \cup PassRows)' = all
    BY <1>2, <2>1 DEF PassRows, Keys
  <2>4. ~blind' /\ reader.generation = generation =>
           Stands(reader.pos, reader.state, Keys(ledger) \cup Keys(reader.rows), Keys(ledger) \cup PassRows)'
    <3> HIDE DEF all
    <3> QED
      BY <1>1, <2>1, <2>2, <2>3 DEF Stands, agent
  <2>5. ~blind' => Accounted(reader.rows, Yielded, Keys(ledger))'
    BY <1>2, <2>2
  <2>6. /\ reader.generation \in 0 .. generation
        /\ reader.written = written => reader.generation = generation
    BY <1>1 DEF TranscriptInv, ReaderInv
  <2>7. ~blind' /\ reader.written = written => reader.pos = Len(log)
    BY <1>1, <1>4, <2>6
  <2>8. Len(log)' = Len(log)
    BY <1>1 DEF agent
  <2> QED
    BY <1>2, <2>1, <2>4, <2>5, <2>6, <2>7, <2>8 DEF ReaderInv
<1>8. CheckpointInv'
  <2>1. \A p, s, d, k : Stands(p, s, d, k)' = Stands(p, s, d, k)
    BY <1>1, AgentUntouched DEF TranscriptInv
  <2> QED
    BY <1>1, <1>2, <2>1 DEF TranscriptInv, CheckpointInv, Stands, agent
<1>9. LedgerInv'
  BY <1>1, <1>2 DEF TranscriptInv, LedgerInv
<1> QED
  BY <1>2, <1>7, <1>8, <1>9 DEF TranscriptInv

(* What is recorded belongs to the one read, when the pass is accounted for. *)
LEMMA RecordsTheOneRead ==
    ASSUME ledger \subseteq Yielded, Accounted(reader.rows, Yielded, Keys(ledger))
    PROVE  Recorded(ledger, reader.rows) \subseteq Yielded
<1> SUFFICES ASSUME NEW r \in Recorded(ledger, reader.rows)
             PROVE  r \in Yielded
  OBVIOUS
<1>1. r \in ledger \/ (r \in reader.rows /\ <<r.table, r.key>> \notin Keys(ledger))
  BY RecordedRows
<1> QED
  BY <1>1 DEF Accounted

LEMMA CommitKeeps ==
    ASSUME TranscriptInv, Commit
    PROVE  TranscriptInv'
<1> DEFINE left == [size |-> reader.size, written |-> reader.written, offset |-> reader.pos,
                    state |-> reader.state, generation |-> reader.generation]
           more == Recorded(ledger, reader.rows)
<1>1. /\ reader # None /\ reader.done /\ ledger' = more
      /\ checkpoint' = checkpoint \/ checkpoint' = left
      /\ reader' = None /\ UNCHANGED <<agent, blind>>
  BY DEF Commit
<1>2. FoundInv' /\ Yielded' = Yielded /\ generation' = generation /\ written' = written
  BY <1>1, AgentUntouched DEF TranscriptInv, agent
<1>3. Keys(ledger)' = Keys(ledger) \cup Keys(reader.rows) /\ PassRows = Keys(reader.rows)
  <2>1. Keys(ledger)' = Keys(more)
    BY <1>1 DEF Keys
  <2> QED
    BY <1>1, <2>1, RecordedRows DEF PassRows
<1>4. ReaderInv'
  BY <1>1 DEF ReaderInv
<1>5. \A p, s, d, k : Stands(p, s, d, k)' = Stands(p, s, d, k)
  BY <1>1, AgentUntouched DEF TranscriptInv
<1>6. Len(log)' = Len(log)
  BY <1>1 DEF agent
<1>7. CheckpointInv'
  <2>1. CASE checkpoint' = checkpoint
    <3> SUFFICES ASSUME checkpoint # None
                 PROVE  CheckpointInv'
      BY <2>1 DEF CheckpointInv
    <3>1. ~blind /\ checkpoint.generation = generation =>
             Stands(checkpoint.offset, checkpoint.state, Keys(ledger)', Keys(ledger)')
      <4>1. ~blind /\ checkpoint.generation = generation =>
               Stands(checkpoint.offset, checkpoint.state, Keys(ledger), Keys(ledger))
        BY DEF TranscriptInv, CheckpointInv
      <4>2. Keys(ledger) \subseteq Keys(ledger)'
        BY <1>3
      <4> QED
        BY <4>1, <4>2, CarriesOn DEF Stands
    <3>2. ~blind' /\ checkpoint'.generation = generation' =>
             Stands(checkpoint.offset, checkpoint.state, Keys(ledger), Keys(ledger))'
      BY <1>1, <1>2, <2>1, <3>1 DEF Stands, agent
    <3> QED
      BY <1>1, <1>2, <1>6, <2>1, <3>2 DEF TranscriptInv, CheckpointInv
  <2>2. CASE checkpoint' = left
    <3>1. /\ checkpoint'.written = reader.written /\ checkpoint'.offset = reader.pos
          /\ checkpoint'.state = reader.state /\ checkpoint'.generation = reader.generation
      BY <2>2
    <3>2. ~blind /\ reader.generation = generation =>
             Stands(reader.pos, reader.state, Keys(ledger)', Keys(ledger)')
      BY <1>1, <1>3 DEF TranscriptInv, ReaderInv
    <3>3. ~blind' /\ checkpoint'.generation = generation' =>
             Stands(checkpoint.offset, checkpoint.state, Keys(ledger), Keys(ledger))'
      BY <1>1, <1>2, <3>1, <3>2 DEF Stands, agent
    <3>4. /\ reader.generation \in 0 .. generation
          /\ reader.written = written => reader.generation = generation
          /\ ~blind /\ reader.written = written => reader.pos = Len(log)
      BY <1>1 DEF TranscriptInv, ReaderInv
    <3> QED
      BY <1>1, <1>2, <1>6, <3>1, <3>3, <3>4 DEF CheckpointInv
  <2> QED
    BY <1>1, <2>1, <2>2
<1>8. LedgerInv'
  <2>1. ~blind => more \subseteq Yielded
    BY <1>1, RecordsTheOneRead DEF TranscriptInv, LedgerInv, ReaderInv
  <2> QED
    BY <1>1, <1>2, <2>1 DEF TranscriptInv, LedgerInv
<1> QED
  BY <1>2, <1>4, <1>7, <1>8 DEF TranscriptInv

LEMMA InterruptKeeps ==
    ASSUME TranscriptInv, Interrupt
    PROVE  TranscriptInv'
<1>1. /\ reader # None
      /\ ledger' = ledger \/ ledger' = Recorded(ledger, reader.rows)
      /\ reader' = None /\ UNCHANGED <<agent, checkpoint, blind>>
  BY DEF Interrupt
<1>2. FoundInv' /\ Yielded' = Yielded /\ generation' = generation /\ written' = written /\ Len(log)' = Len(log)
  BY <1>1, AgentUntouched DEF TranscriptInv, agent
<1>3. Keys(ledger) \subseteq Keys(ledger)'
  <2>1. ledger \subseteq ledger'
    BY <1>1, RecordedRows
  <2> QED
    BY <2>1 DEF Keys
<1>4. ReaderInv'
  BY <1>1 DEF ReaderInv
<1>5. CheckpointInv'
  <2>1. checkpoint # None /\ ~blind /\ checkpoint.generation = generation =>
           Stands(checkpoint.offset, checkpoint.state, Keys(ledger)', Keys(ledger)')
    <3>1. checkpoint # None /\ ~blind /\ checkpoint.generation = generation =>
             Stands(checkpoint.offset, checkpoint.state, Keys(ledger), Keys(ledger))
      BY DEF TranscriptInv, CheckpointInv
    <3> QED
      BY <1>3, <3>1, CarriesOn DEF Stands
  <2>2. checkpoint # None /\ ~blind /\ checkpoint.generation = generation =>
           Stands(checkpoint.offset, checkpoint.state, Keys(ledger), Keys(ledger))'
    BY <1>1, <2>1 DEF Stands, agent
  <2> QED
    BY <1>1, <1>2, <2>2 DEF TranscriptInv, CheckpointInv
<1>6. LedgerInv'
  <2>1. ~blind => Recorded(ledger, reader.rows) \subseteq Yielded
    BY <1>1, RecordsTheOneRead DEF TranscriptInv, LedgerInv, ReaderInv
  <2> QED
    BY <1>1, <1>2, <2>1 DEF TranscriptInv, LedgerInv
<1> QED
  BY <1>2, <1>4, <1>5, <1>6 DEF TranscriptInv

(* ------------------------------------------------------------- theorems *)

LEMMA TranscriptInvInit == Init => TranscriptInv
<1> SUFFICES ASSUME Init
             PROVE  TranscriptInv
  OBVIOUS
<1> DEFINE start == [state |-> StartOf(format), rows |-> {}]
<1>1. FoundInv
  <2>1. /\ IsSeq(log) /\ Len(log) = 0
        /\ IsSeq(found) /\ Len(found) = 1 /\ found[1] = start
    <3>1. log = <<>> /\ found = <<start>>
      BY DEF Init
    <3> HIDE DEF start
    <3> QED
      BY <3>1, OneElement
  <2>2. StateAfter(format, <<>>) = StartOf(format) /\ format \in Format
    BY TranscriptAssumption DEF Init
  <2>3. 1 .. Len(log) = {}
    BY <2>1
  <2> QED
    BY <2>1, <2>2, <2>3 DEF FoundInv, Init
<1>2. ReaderInv /\ CheckpointInv /\ LedgerInv
  BY DEF Init, ReaderInv, CheckpointInv, LedgerInv
<1> QED
  BY <1>1, <1>2 DEF TranscriptInv

LEMMA TranscriptInvNext == TranscriptInv /\ [Next]_vars => TranscriptInv'
<1> SUFFICES ASSUME TranscriptInv, [Next]_vars
             PROVE  TranscriptInv'
  OBVIOUS
<1>1. CASE Agent
  <2>1. ASSUME NEW l \in Following, AppendLine(l)
        PROVE  TranscriptInv'
    BY <2>1, AppendLineKeeps
  <2>2. ASSUME NEW l \in Following, NEW whole \in BOOLEAN, BeginLine(l, whole)
        PROVE  TranscriptInv'
    BY <2>2, BeginLineKeeps
  <2> QED
    BY <1>1, <2>1, <2>2, EndLineKeeps, TruncateKeeps, MoveKeeps DEF Agent
<1>2. CASE Pass
  BY <1>2, OpenKeeps, ReadLineKeeps, EndOfFileKeeps, CommitKeeps DEF Pass
<1>3. CASE Interrupt
  BY <1>3, InterruptKeeps
<1>4. CASE UNCHANGED vars
  <2>1. UNCHANGED agent /\ UNCHANGED <<checkpoint, reader, ledger, blind>>
    BY <1>4 DEF vars, agent
  <2>2. FoundInv' /\ Yielded' = Yielded
    BY <2>1, AgentUntouched DEF TranscriptInv
  <2> QED
    BY <2>1, <2>2 DEF TranscriptInv, ReaderInv, CheckpointInv, LedgerInv, Stands, PassRows, Keys, agent
<1> QED
  BY <1>1, <1>2, <1>3, <1>4 DEF Next

(* The invariant holds of every state, for any formats, logs and mishaps.    *)
THEOREM TranscriptInvariant == Spec => []TranscriptInv
BY TranscriptInvInit, TranscriptInvNext, PTL DEF Spec

(* Whatever the formats, and however their logs are cut into passes: what is *)
(* recorded of a log, and what its checkpoint carries, is what one read of   *)
(* it yields and carries there.                                              *)
THEOREM AsReadAtOnceHolds == Spec => []AsReadAtOnce
<1>1. TranscriptInv => AsReadAtOnce
  <2> SUFFICES ASSUME TranscriptInv
               PROVE  AsReadAtOnce
    OBVIOUS
  <2>1. RowsOfOneRead
    BY DEF TranscriptInv, LedgerInv, RowsOfOneRead, Yielded
  <2>2. CheckpointOfOneRead
    <3> SUFFICES ASSUME checkpoint # None, checkpoint.generation = generation, ~blind
                 PROVE  Stands(checkpoint.offset, checkpoint.state, Keys(ledger), Keys(ledger)) => CheckpointOfOneRead
      BY DEF TranscriptInv, CheckpointInv, CheckpointOfOneRead
    <3>1. Len(log) \in Nat
      BY SeqFacts DEF TranscriptInv, FoundInv
    <3> QED
      BY <3>1 DEF Stands, Carries, NextLine, CheckpointOfOneRead
  <2> QED
    BY <2>1, <2>2 DEF AsReadAtOnce
<1> QED
  BY <1>1, TranscriptInvariant, PTL

(* A file that is as its checkpoint says has every line of it recorded,      *)
(* whatever passes were cut off and whatever was written meanwhile.          *)
THEOREM NoLineSkippedHolds == Spec => []NoLineSkipped
<1>1. TranscriptInv => NoLineSkipped
  <2> SUFFICES ASSUME TranscriptInv, Unchanged, ~blind
               PROVE  Keys(found[Len(found)].rows) \subseteq Keys(ledger)
    BY DEF NoLineSkipped
  <2>1. checkpoint # None /\ checkpoint.written = written
    BY DEF Unchanged
  <2>2. checkpoint.offset = Len(log) /\ Stands(checkpoint.offset, checkpoint.state, Keys(ledger), Keys(ledger))
    BY <2>1 DEF TranscriptInv, CheckpointInv
  <2>3. Len(found) = checkpoint.offset + 1
    BY <2>2 DEF TranscriptInv, FoundInv
  <2> QED
    BY <2>2, <2>3 DEF Stands
<1> QED
  BY <1>1, TranscriptInvariant, PTL
=============================================================================
