----------------------------- MODULE Collector -----------------------------
(***************************************************************************)
(* The collection cycle (collect/): one pass reads every source through    *)
(* its adapter and hands what it saw to the store, one transaction at a    *)
(* time, while the agents go on writing.  The processes are the daemon and *)
(* the one-shot command; a file lock lets one of them run at a time, and   *)
(* any of them may die between two steps.                                  *)
(*                                                                         *)
(* Two kinds of source stand for the adapters.  A log is a file of records *)
(* read from the offset of its checkpoint.  A database holds cells whose   *)
(* counters grow in place; its checkpoint carries the file's stamp and,    *)
(* per cell, the content last applied (adapter/hermes).  The store is      *)
(* Store.tla, action for action.                                           *)
(***************************************************************************)
EXTENDS Store, SequencesExt

CONSTANTS
    Process,       \* the processes that may collect
    SourceOrder,   \* the sources in the order a pass visits them
    LogOf,         \* log source -> its records, [event, ok], in order
    CellsOf,       \* database source -> its cells, in query order
    GroupOf,       \* cell -> group of its delta events
    RevisionOrder, \* the pricing revisions, oldest first
    Instant,       \* 1 .. the number of observation times kept apart
    MaxCounts,     \* bound on the tokens all cells count together
    MaxResets,     \* bound on counter resets
    MaxFaults,     \* bound on failing calls, crashes and cancellations
    MaxStalls      \* bound on passes that see an old clock reading again

VARIABLES
    (* the agents' files *)
    written,    \* log source -> records in the file
    counter,    \* cell -> its counter
    stamp,      \* database source -> size and mtime of its files, as a count
    used,       \* cell -> tokens it ever counted (no file holds this)
    wasReset,   \* cells whose counter was reset (no file holds this)
    (* the processes *)
    holder,     \* who holds the collection lock
    pass,       \* process -> the pass it is in the middle of
    revision,   \* revision of the price ladder
    faults, stalls

world      == <<written, counter, stamp, used, wasReset>>
collecting == <<holder, pass, revision, faults, stalls>>
allVars    == <<vars, world, collecting>>
-----------------------------------------------------------------------------
Logs == DOMAIN LogOf
Databases == DOMAIN CellsOf

ASSUME CollectorAssumption ==
    /\ IsInjective(SourceOrder)
    /\ SourceOrder \in Seq(Logs \cup Databases) /\ Logs \cup Databases \subseteq ToSet(SourceOrder)
    /\ Logs \cap Databases = {} /\ Logs \cup Databases \subseteq SourceId
    /\ \A s \in Logs : LogOf[s] \in Seq([event : Event, ok : BOOLEAN])
    /\ \A s \in Databases : CellsOf[s] \in Seq(AccKey) /\ IsInjective(CellsOf[s])
    (* A cell belongs to one source; the adapters key cells by path or id.    *)
    /\ \A s, t \in Databases : s # t => ToSet(CellsOf[s]) \cap ToSet(CellsOf[t]) = {}
    /\ ToSet(RevisionOrder) = Revision
    /\ AccKey \X Instant \subseteq Key /\ None \notin Process
    (* A delta's key starts with "agg|", an adapter's with the tool's name.    *)
    /\ \A s \in Logs : \A i \in DOMAIN LogOf[s] : LogOf[s][i].event.key \notin AccKey \X Instant

(* What one read of a source returned (adapter.Observation).  Its snapshots    *)
(* are numbered as the query lists the cells, those left out skipped.          *)
NoObservation == [events |-> <<>>, snaps |-> <<>>, cp |-> None]

(* A pass: where it is, the instant it stamps, the source and cell it is at.  *)
Idle == [at |-> "idle", observedAt |-> 0, source |-> 0, gate |-> 0,
         obs |-> NoObservation, next |-> 0, last |-> None, clean |-> TRUE]

Init ==
    /\ usage_events = [id \in {} |-> None]
    /\ usage_rollup = [c \in Cell |-> Zero]
    /\ rollup_watermark = None
    /\ price_sync = [revision |-> None, cursor |-> 0]
    /\ activity_events = [a \in {} |-> None]
    /\ activity_usage_counts = [k \in Key |-> 0]
    /\ usage_turn_context = [k \in {} |-> 0]
    /\ code_changes = [c \in ChangeId |-> None]
    /\ source_checkpoints = [s \in SourceId |-> None]
    /\ aggregate_state = [c \in AccKey |-> None]
    /\ written = [s \in Logs |-> 0]
    /\ counter = [c \in AccKey |-> 0]
    /\ stamp = [s \in Databases |-> 0]
    /\ used = [c \in AccKey |-> 0]
    /\ wasReset = {}
    /\ holder = None
    /\ pass = [p \in Process |-> Idle]
    /\ revision = RevisionOrder[1]
    /\ faults = 0 /\ stalls = 0
-----------------------------------------------------------------------------
(* The agents *)

AppendRecord(s) ==
    /\ written[s] < Len(LogOf[s])
    /\ written' = [written EXCEPT ![s] = @ + 1]
    /\ UNCHANGED <<vars, collecting, counter, stamp, used, wasReset>>

(* A session counts one more token: its row is rewritten in place. *)
Count(s, c) ==
    /\ SumFunction(used) < MaxCounts
    /\ counter' = [counter EXCEPT ![c] = @ + 1]
    /\ used' = [used EXCEPT ![c] = @ + 1]
    /\ stamp' = [stamp EXCEPT ![s] = @ + 1]
    /\ UNCHANGED <<vars, collecting, written, wasReset>>

(* A counter starts again from nothing (a reset, truncation or deletion). *)
Reset(s, c) ==
    /\ counter[c] > 0 /\ Cardinality(wasReset) < MaxResets
    /\ counter' = [counter EXCEPT ![c] = 0]
    /\ stamp' = [stamp EXCEPT ![s] = @ + 1]
    /\ wasReset' = wasReset \cup {c}
    /\ UNCHANGED <<vars, collecting, written, used>>
-----------------------------------------------------------------------------
(* The steps of a pass *)

Running(p, at) == pass[p].at = at

(* p's pass moves on to `new'; whatever it holds in memory is in the record. *)
Go(p, new) == pass' = [pass EXCEPT ![p] = new]
GoTo(p, at) == Go(p, [pass[p] EXCEPT !.at = at])

(* A call fails: its error is recorded and the pass goes on. *)
Fault == faults < MaxFaults /\ faults' = faults + 1

UsedInstants == {k[2] : k \in RecordedKeys \cap (AccKey \X Instant)}

(* nowFn.  Passes see distinct instants unless the clock stalls or is set     *)
(* back.  Instants that no delta event carries are interchangeable, so the    *)
(* fresh ones need one representative.                                        *)
ObservedAt(t) ==
    \/ /\ t \notin UsedInstants /\ \A u \in Instant \ UsedInstants : t <= u
       /\ UNCHANGED stalls
    \/ t \in UsedInstants /\ stalls < MaxStalls /\ stalls' = stalls + 1

(* Mutant of MayCollect: the lock is not taken. *)
MayCollectUnlocked(p) == TRUE

(* AcquireCollectionLock fails fast while another process holds the lock. *)
MayCollect(p) == holder \in {None, p}

(* A process starts a pass: a new one, or the daemon on its next tick. *)
BeginPass(p) ==
    /\ Running(p, "idle") /\ MayCollect(p)
    /\ holder' = p
    /\ \E t \in Instant : ObservedAt(t) /\ Go(p, [Idle EXCEPT !.at = "rollup", !.observedAt = t])
    /\ UNCHANGED <<vars, world, revision, faults>>

(* EnsureRollup comes first, one derived table after the other; its failure   *)
(* does not stop the pass, but a rollup that could not be checked leaves the  *)
(* counts unchecked too.                                                      *)
CheckRollup(p) ==
    /\ Running(p, "rollup")
    /\ \/ EnsureUsageRollup /\ GoTo(p, "counts") /\ UNCHANGED faults
       \/ Fault /\ GoTo(p, "prices") /\ UNCHANGED vars
    /\ UNCHANGED <<world, holder, revision, stalls>>

CheckCounts(p) ==
    /\ Running(p, "counts") /\ GoTo(p, "prices")
    /\ \/ EnsureActivityCounts /\ UNCHANGED faults
       \/ Fault /\ UNCHANGED vars
    /\ UNCHANGED <<world, holder, revision, stalls>>

(* Refresh: the ladder stays, or moves to the next revision of the tables. *)
Refreshed ==
    {RevisionOrder[i] : i \in {j \in DOMAIN RevisionOrder :
        RevisionOrder[j] = revision \/ (j > 1 /\ RevisionOrder[j - 1] = revision)}}

(* A pass ends: the daemon keeps its lock for the next tick, the one-shot      *)
(* command exits and drops it.                                                *)
EndPass(p) == Go(p, Idle) /\ holder' \in {None, p}

(* Refresh may or may not fetch newer tables; then one bounded price sync     *)
(* under the ladder's revision.  A failure is recorded and the pass goes on,  *)
(* unless it failed because the pass was cancelled.                           *)
SyncPrices(p) ==
    /\ Running(p, "prices")
    /\ revision' \in Refreshed
    /\ \/ /\ SyncUnpriced(revision')
          /\ GoTo(p, "sources") /\ UNCHANGED <<holder, faults>>
       \/ /\ PriceSyncCurrent(revision') \/ PriceSyncRefused(revision')
          /\ GoTo(p, "sources") /\ UNCHANGED <<vars, holder, faults>>
       \/ /\ Fault
          /\ (GoTo(p, "sources") /\ UNCHANGED holder) \/ EndPass(p)
          /\ UNCHANGED vars
    /\ UNCHANGED <<world, stalls>>

(* The next source, or the end of the pass.  A source that discovery or the   *)
(* load of its checkpoint fails on is left for the next pass, and a cancelled *)
(* context ends the pass here.                                                *)
NextSource(p) ==
    LET at == pass[p].source + 1
    IN  /\ Running(p, "sources")
        /\ \/ /\ at <= Len(SourceOrder)
              /\ Go(p, [pass[p] EXCEPT !.source = at, !.at =
                          IF SourceOrder[at] \in Logs THEN "read" ELSE "stamp"])
              /\ UNCHANGED <<holder, faults>>
           \/ /\ at <= Len(SourceOrder)
              /\ Go(p, [pass[p] EXCEPT !.source = at])
              /\ Fault /\ UNCHANGED holder
           \/ at > Len(SourceOrder) /\ EndPass(p) /\ UNCHANGED faults
           \/ at <= Len(SourceOrder) /\ EndPass(p) /\ Fault
        /\ UNCHANGED <<vars, world, revision, stalls>>

Source(p) == SourceOrder[pass[p].source]

(* The database adapter stats its files before it opens them, so that the     *)
(* stamp it stores is never newer than the rows it read.                      *)
StatDatabase(p) ==
    /\ Running(p, "stamp")
    /\ Go(p, [pass[p] EXCEPT !.gate = stamp[Source(p)], !.at = "read"])
    /\ UNCHANGED <<vars, world, holder, revision, faults, stalls>>

Snapshot(c) == [cell |-> c, counter |-> counter[c]]

(* CollectIncremental of a log: the records after the checkpoint's offset. *)
ReadLog(s) ==
    LET cp   == source_checkpoints[s]
        from == IF cp = None THEN 0 ELSE cp.offset
    IN  IF cp # None /\ from = written[s] THEN NoObservation
        ELSE [events |-> SubSeq(LogOf[s], from + 1, written[s]), snaps |-> <<>>,
              cp     |-> [source |-> s, offset |-> written[s]]]

(* CollectIncremental of a database: nothing under an unchanged stamp, else   *)
(* the cells whose content is not the one last applied.                       *)
ReadDatabase(s, gate) ==
    LET cp      == source_checkpoints[s]
        Changed(c) == cp = None \/ cp.sessions[c] # counter[c]
        changed == {i \in DOMAIN CellsOf[s] : Changed(CellsOf[s][i])}
    IN  IF cp # None /\ cp.stamp = gate THEN NoObservation
        ELSE [events |-> <<>>, snaps |-> [i \in changed |-> Snapshot(CellsOf[s][i])],
              cp     |-> [source |-> s, stamp |-> gate,
                          sessions |-> [c \in ToSet(CellsOf[s]) |-> counter[c]]]]

(* Mutant of Partial: a partial read carries the checkpoint of a whole one. *)
PartialWithCheckpoint(obs, n, kept) ==
    [events |-> SubSeq(obs.events, 1, n), snaps |-> [i \in kept |-> obs.snaps[i]], cp |-> obs.cp]

(* A read that fails half-way returns the records before the failure, and the *)
(* rows of a database it could scan, wherever they lie; without a checkpoint. *)
Partial(obs, n, kept) ==
    [events |-> SubSeq(obs.events, 1, n), snaps |-> [i \in kept |-> obs.snaps[i]], cp |-> None]

ReadSource(p) ==
    LET s   == Source(p)
        obs == IF s \in Logs THEN ReadLog(s) ELSE ReadDatabase(s, pass[p].gate)
        Saw(o) == Go(p, [pass[p] EXCEPT !.obs = o, !.at = "store"])
    IN  /\ Running(p, "read")
        /\ \/ Saw(obs) /\ UNCHANGED faults
           \/ /\ Fault
              /\ \E n \in 0 .. Len(obs.events), kept \in SUBSET DOMAIN obs.snaps : Saw(Partial(obs, n, kept))
        /\ UNCHANGED <<vars, world, holder, revision, stalls>>

(* stampCost: the price in effect now; an unknown one stays NULL. *)
Stamped(event) ==
    LET quote == PriceEvent[revision][event.group]
    IN  IF event.price # NoPrice \/ quote = NoPrice THEN event
        ELSE [event EXCEPT !.price = [micro |-> quote.micro, class |-> quote.class]]

EventBatch(events, cp) ==
    [events |-> [i \in DOMAIN events |-> [events[i] EXCEPT !.event = Stamped(@)]],
     activity |-> <<>>, contexts |-> <<>>, changes |-> <<>>, cp |-> cp]

(* The checkpoint rides the event batch unless snapshots follow. *)
EventCheckpoint(obs) == IF DOMAIN obs.snaps = {} THEN obs.cp ELSE None

AfterSource(local) == [local EXCEPT !.at = "sources", !.obs = NoObservation, !.gate = 0,
                                    !.next = 0, !.last = None, !.clean = TRUE]

(* storeObservation: events and checkpoint in one transaction.  A skipped row *)
(* or a failed transaction leaves the source unclean.                         *)
StoreObservation(p) ==
    LET obs   == pass[p].obs
        batch == EventBatch(obs.events, EventCheckpoint(obs))
        Done(clean) == Go(p, IF DOMAIN obs.snaps = {} THEN AfterSource(pass[p])
                             ELSE [pass[p] EXCEPT !.at = "state", !.next = Min(DOMAIN obs.snaps),
                                                  !.clean = clean])
    IN  /\ Running(p, "store")
        /\ IF obs.events = <<>> /\ EventCheckpoint(obs) = None
           THEN Done(TRUE) /\ UNCHANGED <<vars, faults>>
           ELSE \/ /\ ApplyBatch(batch)
                   /\ Done(\A i \in DOMAIN obs.events : obs.events[i].ok)
                   /\ UNCHANGED faults
                \/ Fault /\ Done(FALSE) /\ UNCHANGED vars
        /\ UNCHANGED <<world, holder, revision, stalls>>

(* The cells still to come of the observation under way. *)
Later(local) == {i \in DOMAIN local.obs.snaps : i > local.next}

(* What follows a cell: the next one, or the next source. *)
NextCell(local, clean) ==
    IF Later(local) = {} THEN AfterSource(local)
    ELSE [local EXCEPT !.at = "state", !.next = Min(Later(local)), !.last = None, !.clean = clean]

(* storeSnapshot, first call: LastState, outside any transaction. *)
LoadState(p) ==
    LET snap == pass[p].obs.snaps[pass[p].next]
    IN  /\ Running(p, "state")
        /\ \/ /\ Go(p, [pass[p] EXCEPT !.last = LastState(snap.cell), !.at = "cell"])
              /\ UNCHANGED faults
           \/ Fault /\ Go(p, NextCell(pass[p], FALSE))
        /\ UNCHANGED <<vars, world, holder, revision, stalls>>

(* fieldDelta: the growth, or the whole counter when it shrank. *)
fieldDelta(last, cur) == IF cur >= last THEN cur - last ELSE cur

snapshotDelta(last, cur) == IF last = None THEN cur ELSE fieldDelta(last, cur)

syntheticEvent(snap, delta, t) ==
    [event |-> Stamped([key |-> <<snap.cell, t>>, group |-> GroupOf[snap.cell],
                        tokens |-> delta, price |-> NoPrice]),
     ok    |-> TRUE]

(* Only the last cell of a clean source carries the checkpoint. *)
CheckpointFor(local) ==
    IF local.clean /\ Later(local) = {} THEN local.obs.cp ELSE None

(* Mutant of Advanced: a collision counts as success. *)
AdvancedAlways(events) == TRUE

(* The new baseline was stored: nothing to append, or the delta event landed. *)
Advanced(events) == events = <<>> \/ Fresh(events) # {}

(* storeSnapshot, the write: the delta event with the new baseline, or only   *)
(* the checkpoint when the cell did not change.                               *)
StoreSnapshot(p) ==
    LET local  == pass[p]
        snap   == local.obs.snaps[local.next]
        delta  == snapshotDelta(local.last, snap.counter)
        events == IF delta > 0 THEN <<syntheticEvent(snap, delta, local.observedAt)>> ELSE <<>>
        cp     == CheckpointFor(local)
    IN  /\ Running(p, "cell")
        /\ \/ /\ local.last = snap.counter
              /\ IF cp = None THEN UNCHANGED vars ELSE ApplyBatch(EventBatch(<<>>, cp))
              /\ Go(p, NextCell(local, local.clean)) /\ UNCHANGED faults
           \/ /\ local.last # snap.counter
              /\ ApplySnapshot(events, snap.cell, snap.counter, cp)
              /\ Go(p, NextCell(local, local.clean /\ Advanced(events))) /\ UNCHANGED faults
           \/ /\ Fault /\ Go(p, NextCell(local, FALSE)) /\ UNCHANGED vars
        /\ UNCHANGED <<world, holder, revision, stalls>>

(* The process dies between two steps; the kernel drops its lock. *)
Crash(p) ==
    /\ ~Running(p, "idle") \/ holder = p
    /\ Fault
    /\ Go(p, Idle)
    /\ holder' = IF holder = p THEN None ELSE holder
    /\ UNCHANGED <<vars, world, revision, stalls>>
-----------------------------------------------------------------------------
Step(p) ==
    \/ CheckRollup(p) \/ CheckCounts(p) \/ SyncPrices(p) \/ NextSource(p) \/ StatDatabase(p)
    \/ ReadSource(p) \/ StoreObservation(p) \/ LoadState(p) \/ StoreSnapshot(p)

Next ==
    \/ \E p \in Process : BeginPass(p) \/ Step(p) \/ Crash(p)
    \/ \E s \in Logs : AppendRecord(s)
    \/ \E s \in Databases, c \in AccKey :
          c \in ToSet(CellsOf[s]) /\ (Count(s, c) \/ Reset(s, c))

Spec == Init /\ [][Next]_allVars

(* The ticker starts pass after pass and every call of a pass returns; which  *)
(* process collects is left open.  The agents owe nothing.                    *)
FairSpec ==
    /\ Spec
    /\ WF_allVars(\E p \in Process : BeginPass(p) \/ Step(p))
-----------------------------------------------------------------------------
(* Properties *)

(* The snapshots are those of some of the query's positions. *)
PassType(positions) ==
    [at : {"idle", "rollup", "counts", "prices", "sources", "stamp", "read", "store", "state", "cell"},
     observedAt : Nat, source : Nat, gate : Nat,
     obs : [events : Seq([event : Event, ok : BOOLEAN]),
            snaps : [positions -> [cell : AccKey, counter : Nat]], cp : {None} \cup
              [source : Logs, offset : Nat] \cup
              UNION {[source : {s}, stamp : Nat, sessions : [ToSet(CellsOf[s]) -> Nat]] :
                       s \in Databases}],
     next : Nat, last : Nat \cup {None}, clean : BOOLEAN]

TypeOK ==
    /\ holder \in Process \cup {None}
    /\ DOMAIN pass = Process
    /\ \A p \in Process : pass[p] \in PassType(DOMAIN pass[p].obs.snaps)
    /\ revision \in Revision
    /\ \A id \in DOMAIN usage_events : usage_events[id] \in Event
    /\ \A c \in AccKey : counter[c] <= used[c]

(* The tokens the ledger holds for a cell, over all its delta events. *)
Recorded(c) ==
    SumFunctionOnSet([id \in DOMAIN usage_events |-> usage_events[id].tokens],
        {id \in DOMAIN usage_events : usage_events[id].key \in {c} \X Instant})

Baseline(c) == IF aggregate_state[c] = None THEN 0 ELSE aggregate_state[c]

(* Two passes never interleave: a process between the start and the end of a  *)
(* pass holds the collection lock, so no second pass can derive the same      *)
(* delta from a baseline it read before the first one moved it.               *)
OnePassAtATime ==
    \A p, q \in Process : ~Running(p, "idle") /\ ~Running(q, "idle") => p = q

(* Usage is never counted twice: whatever resets, crashes, retries, clock     *)
(* collisions and failing calls happened, the ledger holds no more tokens for *)
(* a cell than its source ever counted (storeSnapshot, ApplySnapshot and the  *)
(* lock together).                                                            *)
NeverOvercounted == \A c \in AccKey : Recorded(c) <= used[c]

(* A checkpoint never covers what was not stored: records before a log's      *)
(* offset are in the ledger unless they were rejected, and a cell's baseline  *)
(* is not behind the content the checkpoint says was applied.                 *)
CheckpointNeverSkips ==
    /\ \A s \in Logs : source_checkpoints[s] # None =>
          \A i \in 1 .. source_checkpoints[s].offset :
              LogOf[s][i].ok => LogOf[s][i].event.key \in RecordedKeys
    /\ \A s \in Databases : source_checkpoints[s] # None =>
          \A c \in ToSet(CellsOf[s]) \ wasReset :
              Baseline(c) >= source_checkpoints[s].sessions[c]

(* Nothing is lost for good: once the agents and the failures stop, everything *)
(* they wrote is in the ledger - each acceptable record, and of each cell that *)
(* was never reset the whole count - in spite of the gates that skip unchanged *)
(* sources and cells.                                                          *)
EverythingRecorded ==
    <>[](/\ \A s \in Logs : \A i \in 1 .. written[s] :
               LogOf[s][i].ok => LogOf[s][i].event.key \in RecordedKeys
         /\ \A c \in AccKey \ wasReset : Recorded(c) = used[c])

(* Rows ingested unpriced are priced once the ladder knows their rate, though *)
(* their source never changes again.                                          *)
LateRatesArrive ==
    <>[](\A id \in Unpriced : ~Acceptable(Quote(revision, id)))
=============================================================================
