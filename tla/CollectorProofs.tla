-------------------------- MODULE CollectorProofs --------------------------
(***************************************************************************)
(* What holds of Collector for any number of processes, sources and cells. *)
(*                                                                         *)
(* A checkpoint never covers what was not stored.  The invariant behind it *)
(* follows what a pass carries from its read to the store: until it        *)
(* commits, a checkpoint in memory is covered by the ledger together with  *)
(* what the pass is still to store.                                        *)
(*                                                                         *)
(* No token of a counter is recorded twice.  The invariant behind it adds  *)
(* up, for every snapshot a pass has in hand, what the ledger holds of the *)
(* cell and what the pass is still to add: never more than was used.       *)
(***************************************************************************)
EXTENDS Collector, DataProofs, SequenceTheorems

(* The ledger: rows under ids that are bounded *)

(* MAX(id) bounds the ids of a ledger whose ids are bounded at all.           *)
LEMMA MaxIdIsGreatest ==
    ASSUME NEW rows, NEW n \in Nat, DOMAIN rows \subseteq 1 .. n
    PROVE  /\ MaxId(rows) \in Nat
           /\ DOMAIN rows \subseteq 1 .. MaxId(rows)
<1>1. CASE DOMAIN rows = {}
  BY <1>1 DEF MaxId
<1>2. CASE DOMAIN rows # {}
  <2>1. Max(DOMAIN rows) \in DOMAIN rows /\ \A k \in DOMAIN rows : k <= Max(DOMAIN rows)
    BY <1>2, GreatestElement
  <2>. QED BY <1>2, <2>1 DEF MaxId
<1>. QED BY <1>1, <1>2

(* The ids of a ledger are positive and bounded by MAX(id).                   *)
IdsBounded(rows) == MaxId(rows) \in Nat /\ DOMAIN rows \subseteq 1 .. MaxId(rows)

(* insertEventsTx: old rows stay, new rows get larger ids and come from fresh *)
(* positions of the batch, every acceptable row is recorded.                  *)
LEMMA InsertedRows ==
    ASSUME NEW events, NEW n \in Nat, DOMAIN events = 1 .. n,
           IdsBounded(usage_events), InsertEvents(events)
    PROVE  /\ IdsBounded(usage_events')
           /\ DOMAIN usage_events \subseteq DOMAIN usage_events'
           /\ \A id \in DOMAIN usage_events : usage_events'[id] = usage_events[id]
           /\ \A id \in DOMAIN usage_events' \ DOMAIN usage_events :
                 /\ id > MaxId(usage_events)
                 /\ \E i \in Fresh(events) :
                       id = MaxId(usage_events) + i /\ usage_events'[id] = events[i].event
           /\ \A i \in DOMAIN events : events[i].ok => events[i].event.key \in RecordedKeys'
<1> DEFINE base == MaxId(usage_events)
           new  == {base + i : i \in Fresh(events)}
<1>1. base \in Nat /\ DOMAIN usage_events \subseteq 1 .. base
  BY DEF IdsBounded
<1>2. usage_events' = [id \in DOMAIN usage_events \cup new |->
                          IF id \in new THEN events[id - base].event ELSE usage_events[id]]
  BY DEF InsertEvents
<1> HIDE DEF base
<1>3. Appends(usage_events, base, events, n, Fresh(events), usage_events')
  BY <1>1, <1>2 DEF Appends, Fresh, RecordedKeys
<1> HIDE DEF new
<1>5. /\ DOMAIN usage_events' \subseteq 1 .. (base + n)
      /\ DOMAIN usage_events \subseteq DOMAIN usage_events'
      /\ \A id \in DOMAIN usage_events : usage_events'[id] = usage_events[id]
      /\ \A id \in DOMAIN usage_events' \ DOMAIN usage_events :
            /\ id > base
            /\ \E i \in Fresh(events) : id = base + i /\ usage_events'[id] = events[i].event
      /\ \A i \in DOMAIN events :
            events[i].ok =>
                events[i].event.key \in {usage_events'[id].key : id \in DOMAIN usage_events'}
  BY <1>3, AppendedRows
<1>6. base + n \in Nat
  BY <1>1
<1>7. IdsBounded(usage_events')
  BY <1>5, <1>6, MaxIdIsGreatest DEF IdsBounded
<1>. QED BY <1>5, <1>7 DEF RecordedKeys, base
-----------------------------------------------------------------------------
(* A process in the middle of a pass holds the lock. *)
LockInv ==
    /\ DOMAIN pass = Process
    /\ \A p \in Process : ~Running(p, "idle") => holder = p

(* A step of p's own pass: p was in the pass, only p's record changes, and    *)
(* the lock is p's or free afterwards - free only if p left the pass.         *)
LEMMA StepKeepsLock ==
    ASSUME NEW p \in Process, LockInv, ~Running(p, "idle"),
           NEW new, Go(p, new),
           UNCHANGED holder \/ (new.at = "idle" /\ holder' \in {None, p})
    PROVE  LockInv'
<1>1. pass' = [pass EXCEPT ![p] = new] /\ holder = p
  BY DEF Go, LockInv
<1>2. DOMAIN pass' = Process
  BY <1>1 DEF LockInv
<1>3. ASSUME NEW q \in Process, q # p PROVE pass'[q] = pass[q] /\ pass[q].at = "idle"
  BY <1>1, <1>3 DEF LockInv, Running
<1>4. pass'[p] = new
  BY <1>1 DEF LockInv
<1>5. ASSUME NEW q \in Process, pass'[q].at # "idle" PROVE holder' = q
  BY <1>1, <1>3, <1>4, <1>5
<1>. QED BY <1>2, <1>5 DEF LockInv, Running

LEMMA LockKept ==
    ASSUME LockInv, [Next]_allVars
    PROVE  LockInv'
<1>1. ASSUME NEW p \in Process, BeginPass(p) PROVE LockInv'
  <2>1. PICK new : pass' = [pass EXCEPT ![p] = new]
    BY <1>1 DEF BeginPass, Go
  <2>2. holder \in {None, p} /\ holder' = p
    BY <1>1 DEF BeginPass, MayCollect
  <2>3. ASSUME NEW q \in Process, q # p PROVE pass'[q] = pass[q] /\ pass[q].at = "idle"
    BY <2>1, <2>2, <2>3, CollectorAssumption DEF LockInv, Running
  <2>4. ASSUME NEW q \in Process, pass'[q].at # "idle" PROVE holder' = q
    BY <2>2, <2>3, <2>4
  <2>5. DOMAIN pass' = Process
    BY <2>1 DEF LockInv
  <2>. QED BY <2>4, <2>5 DEF LockInv, Running
<1>2. ASSUME NEW p \in Process, Step(p) PROVE LockInv'
  <2>1. ~Running(p, "idle")
    BY <1>2 DEF Step, CheckRollup, CheckCounts, SyncPrices, NextSource, StatDatabase, ReadSource,
                StoreObservation, LoadState, StoreSnapshot, Running
  <2>2. \E new : /\ Go(p, new)
                 /\ UNCHANGED holder \/ (new.at = "idle" /\ holder' \in {None, p})
    <3>1. CASE CheckRollup(p) \/ CheckCounts(p)
      BY <3>1 DEF CheckRollup, CheckCounts, GoTo
    <3>2. CASE SyncPrices(p)
      BY <3>2 DEF SyncPrices, GoTo, EndPass, Idle
    <3>3. CASE NextSource(p)
      BY <3>3 DEF NextSource, EndPass, Idle
    <3>4. CASE StatDatabase(p)
      BY <3>4 DEF StatDatabase
    <3>5. CASE ReadSource(p)
      BY <3>5 DEF ReadSource
    <3>6. CASE StoreObservation(p)
      BY <3>6 DEF StoreObservation
    <3>7. CASE LoadState(p)
      BY <3>7 DEF LoadState
    <3>8. CASE StoreSnapshot(p)
      BY <3>8 DEF StoreSnapshot
    <3>. QED BY <1>2, <3>1, <3>2, <3>3, <3>4, <3>5, <3>6, <3>7, <3>8 DEF Step
  <2>. QED BY <2>1, <2>2, StepKeepsLock
<1>3. ASSUME NEW p \in Process, Crash(p) PROVE LockInv'
  <2>1. /\ pass' = [pass EXCEPT ![p] = Idle]
        /\ holder' = IF holder = p THEN None ELSE holder
    BY <1>3 DEF Crash, Go
  <2>2. ASSUME NEW q \in Process, pass'[q].at # "idle" PROVE holder' = q
    <3>1. q # p
      BY <2>1, <2>2 DEF LockInv, Idle
    <3>2. pass[q].at # "idle"
      BY <2>1, <2>2, <3>1 DEF LockInv
    <3>. QED BY <2>1, <3>1, <3>2 DEF LockInv, Running
  <2>3. DOMAIN pass' = Process
    BY <2>1 DEF LockInv
  <2>. QED BY <2>2, <2>3 DEF LockInv, Running
<1>4. ASSUME UNCHANGED <<holder, pass>> PROVE LockInv'
  BY <1>4 DEF LockInv, Running
<1>5. ASSUME NEW s \in Logs, AppendRecord(s) PROVE UNCHANGED <<holder, pass>>
  BY <1>5 DEF AppendRecord, collecting
<1>6. ASSUME NEW s \in Databases, NEW c \in AccKey, Count(s, c) \/ Reset(s, c)
      PROVE  UNCHANGED <<holder, pass>>
  BY <1>6 DEF Count, Reset, collecting
<1>7. ASSUME UNCHANGED allVars PROVE UNCHANGED <<holder, pass>>
  BY <1>7 DEF allVars, collecting
<1>. QED BY <1>1, <1>2, <1>3, <1>4, <1>5, <1>6, <1>7 DEF Next

(* Two passes never interleave, however many processes try to collect.        *)
THEOREM PassesExclude == Spec => []OnePassAtATime
<1>1. Init => LockInv
  BY DEF Init, LockInv, Running, Idle
<1>2. LockInv /\ [Next]_allVars => LockInv'
  BY LockKept
<1>3. LockInv => OnePassAtATime
  BY DEF LockInv, OnePassAtATime
<1>. QED BY <1>1, <1>2, <1>3, PTL DEF Spec
-----------------------------------------------------------------------------
(* What a checkpoint covers *)

BaseOf(agg, c) == IF agg[c] = None THEN 0 ELSE agg[c]

(* The records before the offset are among `keys'. *)
LogCovered(s, cp, keys) ==
    /\ cp.offset \in 0 .. Len(LogOf[s])
    /\ \A i \in 1 .. cp.offset : LogOf[s][i].ok => LogOf[s][i].event.key \in keys

(* No baseline is behind the content the checkpoint says was applied. *)
CellsCovered(s, cp, agg, reset) ==
    \A c \in ToSet(CellsOf[s]) \ reset :
        cp.sessions[c] \in Nat /\ BaseOf(agg, c) >= cp.sessions[c]

Marked(s, cp, keys, agg, reset) ==
    /\ s \in Logs => LogCovered(s, cp, keys)
    /\ s \in Databases => CellsCovered(s, cp, agg, reset)

(* The keys a read still has to record, the snapshots a pass still has to apply. *)
Offered(events) == {events[i].event.key : i \in {j \in DOMAIN events : events[j].ok}}
Pending(local) == {i \in DOMAIN local.obs.snaps : local.next <= i}

(* What was read of a log: with what it offers, its checkpoint is covered.      *)
LogRead(s, obs, keys) ==
    /\ DOMAIN obs.snaps = {}
    /\ obs.events \in Seq([event : Event, ok : BOOLEAN])
    /\ obs.cp # None => obs.cp.source = s /\ LogCovered(s, obs.cp, keys \cup Offered(obs.events))

(* A snapshot of a cell that was never reset lies between the cell's baseline,  *)
(* until it is applied, and its counter.                                        *)
SnapOf(s, obs, i, pending, agg, cnt, reset) ==
    LET c == CellsOf[s][i]
        n == obs.snaps[i].counter
    IN  /\ obs.snaps[i].cell = c /\ n \in Nat
        /\ c \notin reset => n <= cnt[c] /\ (i \in pending => BaseOf(agg, c) <= n)

(* What the checkpoint says of a cell is applied or about to be.                *)
CellInHand(s, obs, i, pending, agg) ==
    LET c == CellsOf[s][i]
        n == obs.cp.sessions[c]
    IN  /\ n \in Nat
        /\ BaseOf(agg, c) >= n \/ (i \in pending /\ obs.snaps[i].counter = n)

(* What was read of a database, of which the snapshots in `pending' are still   *)
(* to be applied.                                                               *)
CellsRead(s, obs, clean, pending, agg, cnt, reset) ==
    /\ obs.events = <<>>
    /\ pending \subseteq DOMAIN obs.snaps /\ DOMAIN obs.snaps \subseteq DOMAIN CellsOf[s]
    /\ \A i \in DOMAIN obs.snaps : SnapOf(s, obs, i, pending, agg, cnt, reset)
    /\ obs.cp # None =>
          /\ obs.cp.source = s
          /\ clean = TRUE => \A i \in DOMAIN CellsOf[s] :
                CellsOf[s][i] \notin reset => CellInHand(s, obs, i, pending, agg)

(* A pass between its read of a source and the last transaction for it. *)
InHand(local, keys, agg, cnt, reset) ==
    LET s == SourceOrder[local.source]
    IN  /\ s \in Logs => LogRead(s, local.obs, keys)
        /\ s \in Databases =>
              CellsRead(s, local.obs, local.clean, Pending(local), agg, cnt, reset)

Sound(local, keys, agg, cnt, reset) ==
    /\ DOMAIN local = DOMAIN Idle
    /\ local.source \in 0 .. Len(SourceOrder)
    /\ local.at \notin {"state", "cell"} => local.next = 0 /\ local.clean = TRUE
    /\ local.at \in {"stamp", "read", "store", "state", "cell"} => local.source # 0
    /\ local.at \in {"store", "state", "cell"} => InHand(local, keys, agg, cnt, reset)
    /\ local.at \in {"state", "cell"} => local.next \in DOMAIN local.obs.snaps
    /\ local.at = "cell" => local.last = agg[local.obs.snaps[local.next].cell]

(* The rows have keys and bounded ids. *)
LedgerPart ==
    /\ IdsBounded(usage_events)
    /\ \A id \in DOMAIN usage_events : "key" \in DOMAIN usage_events[id]

(* The baseline of a cell that was never reset is not ahead of its counter. *)
CellPart ==
    /\ counter \in [AccKey -> Nat]
    /\ aggregate_state \in [AccKey -> Nat \cup {None}]
    /\ \A c \in AccKey \ wasReset : BaseOf(aggregate_state, c) <= counter[c]

MarkPart ==
    /\ DOMAIN source_checkpoints = SourceId
    /\ written \in [Logs -> Nat] /\ \A s \in Logs : written[s] <= Len(LogOf[s])
    /\ \A s \in Logs \cup Databases : source_checkpoints[s] # None =>
          Marked(s, source_checkpoints[s], RecordedKeys, aggregate_state, wasReset)

PassPart ==
    \A p \in Process : Sound(pass[p], RecordedKeys, aggregate_state, counter, wasReset)

CoverInv == LockInv /\ LedgerPart /\ CellPart /\ MarkPart /\ PassPart
-----------------------------------------------------------------------------
(* The writes of the store *)

(* Price sync changes prices only. *)
LEMMA SyncKeepsRows ==
    ASSUME LedgerPart, NEW rev, SyncUnpriced(rev)
    PROVE  /\ LedgerPart' /\ RecordedKeys' = RecordedKeys
           /\ UNCHANGED <<source_checkpoints, aggregate_state>>
<1>1. DOMAIN usage_events' = DOMAIN usage_events
  BY DEF SyncUnpriced
<1>2. ASSUME NEW id \in DOMAIN usage_events
      PROVE  /\ "key" \in DOMAIN usage_events'[id]
             /\ usage_events'[id].key = usage_events[id].key
  BY DEF SyncUnpriced, LedgerPart
<1>3. IdsBounded(usage_events')
  BY <1>1 DEF LedgerPart, IdsBounded, MaxId
<1>4. RecordedKeys' = RecordedKeys
  BY <1>1, <1>2 DEF RecordedKeys
<1>5. UNCHANGED <<source_checkpoints, aggregate_state>>
  BY DEF SyncUnpriced
<1>. QED BY <1>1, <1>2, <1>3, <1>4, <1>5 DEF LedgerPart

(* A batch of rows that have keys: all that may be recorded is, nothing goes. *)
LEMMA InsertKeepsRows ==
    ASSUME LedgerPart, NEW events, NEW n \in Nat, DOMAIN events = 1 .. n,
           \A i \in DOMAIN events : "key" \in DOMAIN events[i].event,
           InsertEvents(events)
    PROVE  /\ LedgerPart' /\ RecordedKeys \subseteq RecordedKeys'
           /\ Offered(events) \subseteq RecordedKeys'
<1>1. /\ IdsBounded(usage_events')
      /\ DOMAIN usage_events \subseteq DOMAIN usage_events'
      /\ \A id \in DOMAIN usage_events : usage_events'[id] = usage_events[id]
      /\ \A id \in DOMAIN usage_events' \ DOMAIN usage_events :
            \E i \in Fresh(events) : usage_events'[id] = events[i].event
      /\ \A i \in DOMAIN events : events[i].ok => events[i].event.key \in RecordedKeys'
  BY InsertedRows DEF LedgerPart
<1>2. \A id \in DOMAIN usage_events' : "key" \in DOMAIN usage_events'[id]
  BY <1>1 DEF LedgerPart, Fresh
<1>. QED BY <1>1, <1>2 DEF LedgerPart, RecordedKeys, Offered

(* Stamping a price leaves the key. *)
LEMMA StampedKey ==
    ASSUME NEW event, "key" \in DOMAIN event
    PROVE  "key" \in DOMAIN Stamped(event) /\ Stamped(event).key = event.key
BY DEF Stamped

LEMMA BatchRecords ==
    ASSUME LedgerPart, NEW events \in Seq([event : Event, ok : BOOLEAN]), NEW cp,
           ApplyBatch(EventBatch(events, cp))
    PROVE  /\ LedgerPart' /\ RecordedKeys \subseteq RecordedKeys'
           /\ Offered(events) \subseteq RecordedKeys'
           /\ UpsertCheckpoint(cp) /\ UNCHANGED aggregate_state
<1> DEFINE rows == EventBatch(events, cp).events
<1>1. InsertEvents(rows) /\ UpsertCheckpoint(cp) /\ UNCHANGED aggregate_state
  BY DEF ApplyBatch, EventBatch
<1>2. rows = [i \in DOMAIN events |-> [events[i] EXCEPT !.event = Stamped(@)]]
  BY DEF EventBatch
<1>3. DOMAIN rows = 1 .. Len(events) /\ Len(events) \in Nat
  BY <1>2
<1>4. DOMAIN rows = DOMAIN events
  BY <1>2
<1>5. ASSUME NEW i \in DOMAIN events
      PROVE  /\ "key" \in DOMAIN rows[i].event
             /\ rows[i].ok = events[i].ok /\ rows[i].event.key = events[i].event.key
  <2>1. events[i] \in [event : Event, ok : BOOLEAN]
    BY <1>3, <1>4, ElementOfSeq
  <2>2. rows[i] = [events[i] EXCEPT !.event = Stamped(events[i].event)]
    BY <1>2
  <2>3. rows[i].event = Stamped(events[i].event) /\ rows[i].ok = events[i].ok
    BY <2>1, <2>2
  <2>4. "key" \in DOMAIN events[i].event
    BY <2>1 DEF Event
  <2>. QED BY <2>3, <2>4, StampedKey
<1> HIDE DEF rows
<1>6. LedgerPart' /\ RecordedKeys \subseteq RecordedKeys' /\ Offered(rows) \subseteq RecordedKeys'
  BY <1>1, <1>3, <1>5, <1>4, InsertKeepsRows
<1>7. Offered(events) = Offered(rows)
  BY <1>5, <1>4 DEF Offered
<1>. QED BY <1>1, <1>6, <1>7

(* ApplySnapshot moves the baseline and the checkpoint, or neither. *)
LEMMA SnapshotRecords ==
    ASSUME LedgerPart, NEW events, NEW cell, NEW n, NEW cp,
           events = <<>> \/ \E e : "key" \in DOMAIN e /\ events = <<[event |-> e, ok |-> TRUE]>>,
           ApplySnapshot(events, cell, n, cp)
    PROVE  /\ LedgerPart' /\ RecordedKeys \subseteq RecordedKeys'
           /\ IF Advanced(events) THEN upsertState(cell, n) /\ UpsertCheckpoint(cp)
              ELSE UNCHANGED <<aggregate_state, source_checkpoints>>
<1>1. \E k \in Nat : DOMAIN events = 1 .. k /\ \A i \in DOMAIN events : "key" \in DOMAIN events[i].event
  <2>1. CASE events = <<>>
    BY <2>1
  <2>2. ASSUME NEW e, "key" \in DOMAIN e, events = <<[event |-> e, ok |-> TRUE]>>
        PROVE  DOMAIN events = 1 .. 1 /\ \A i \in DOMAIN events : "key" \in DOMAIN events[i].event
    BY <2>2
  <2>. QED BY <2>1, <2>2
<1>2. InsertEvents(events)
  BY DEF ApplySnapshot
<1>3. LedgerPart' /\ RecordedKeys \subseteq RecordedKeys'
  BY <1>1, <1>2, InsertKeepsRows
<1>. QED BY <1>3 DEF ApplySnapshot, Advanced
-----------------------------------------------------------------------------
(* What is covered stays covered *)

(* A source is a log or a database, and not both; its cells are told apart. *)
LEMMA Sources ==
    /\ Logs \cap Databases = {} /\ Logs \cup Databases \subseteq SourceId
    /\ Len(SourceOrder) \in Nat
    /\ \A n \in 1 .. Len(SourceOrder) : SourceOrder[n] \in Logs \cup Databases
    /\ \A s \in Logs : LogOf[s] \in Seq([event : Event, ok : BOOLEAN])
    /\ \A s \in Databases :
          /\ DOMAIN CellsOf[s] \subseteq Nat \ {0}
          /\ \A i \in DOMAIN CellsOf[s] : CellsOf[s][i] \in AccKey
          /\ \A i, j \in DOMAIN CellsOf[s] : CellsOf[s][i] = CellsOf[s][j] => i = j
          /\ ToSet(CellsOf[s]) = {CellsOf[s][i] : i \in DOMAIN CellsOf[s]}
    /\ None \notin Nat
<1>1. SourceOrder \in Seq(Logs \cup Databases)
  BY CollectorAssumption
<1>2. \A n \in 1 .. Len(SourceOrder) : SourceOrder[n] \in Logs \cup Databases
  BY <1>1, ElementOfSeq
<1>3. ASSUME NEW s \in Databases
      PROVE  /\ DOMAIN CellsOf[s] \subseteq Nat \ {0}
             /\ \A i \in DOMAIN CellsOf[s] : CellsOf[s][i] \in AccKey
             /\ \A i, j \in DOMAIN CellsOf[s] : CellsOf[s][i] = CellsOf[s][j] => i = j
             /\ ToSet(CellsOf[s]) = {CellsOf[s][i] : i \in DOMAIN CellsOf[s]}
  <2>1. CellsOf[s] \in Seq(AccKey) /\ IsInjective(CellsOf[s])
    BY CollectorAssumption
  <2>2. \A i \in DOMAIN CellsOf[s] : CellsOf[s][i] \in AccKey
    BY <2>1
  <2>3. \A i, j \in DOMAIN CellsOf[s] : CellsOf[s][i] = CellsOf[s][j] => i = j
    BY <2>1 DEF IsInjective
  <2>4. ToSet(CellsOf[s]) = {CellsOf[s][i] : i \in DOMAIN CellsOf[s]}
    BY DEF ToSet
  <2>. QED BY <2>1, <2>2, <2>3, <2>4
<1>4. /\ Logs \cap Databases = {} /\ Logs \cup Databases \subseteq SourceId
      /\ \A s \in Logs : LogOf[s] \in Seq([event : Event, ok : BOOLEAN])
  BY CollectorAssumption
<1>5. Len(SourceOrder) \in Nat
  BY <1>1, LenProperties
<1>6. None \notin Nat
  BY StoreAssumption
<1>. QED BY <1>2, <1>3, <1>4, <1>5, <1>6

LEMMA MarkedStays ==
    ASSUME NEW s, NEW cp, NEW keys, NEW keys2, keys \subseteq keys2,
           NEW agg \in [AccKey -> Nat \cup {None}], NEW agg2 \in [AccKey -> Nat \cup {None}],
           NEW reset, NEW reset2, reset \subseteq reset2,
           \A c \in AccKey \ reset2 : BaseOf(agg, c) <= BaseOf(agg2, c),
           Marked(s, cp, keys, agg, reset)
    PROVE  Marked(s, cp, keys2, agg2, reset2)
<1>1. ASSUME s \in Logs PROVE LogCovered(s, cp, keys2)
  BY <1>1 DEF Marked, LogCovered
<1>2. ASSUME s \in Databases PROVE CellsCovered(s, cp, agg2, reset2)
  <2>1. SUFFICES ASSUME NEW c \in ToSet(CellsOf[s]) \ reset2
                 PROVE  cp.sessions[c] \in Nat /\ BaseOf(agg2, c) >= cp.sessions[c]
    BY DEF CellsCovered
  <2>2. c \in AccKey /\ c \notin reset
    <3>1. ToSet(CellsOf[s]) = {CellsOf[s][i] : i \in DOMAIN CellsOf[s]}
      BY <1>2, Sources
    <3>2. \A i \in DOMAIN CellsOf[s] : CellsOf[s][i] \in AccKey
      BY <1>2, Sources
    <3>. QED BY <2>1, <3>1, <3>2
  <2>3. cp.sessions[c] \in Nat /\ BaseOf(agg, c) >= cp.sessions[c]
    BY <1>2, <2>1, <2>2 DEF Marked, CellsCovered
  <2>4. BaseOf(agg, c) \in Nat /\ BaseOf(agg2, c) \in Nat
    BY <2>2 DEF BaseOf
  <2>. QED BY <2>1, <2>2, <2>3, <2>4
<1>. QED BY <1>1, <1>2 DEF Marked

(* The ledger grows, counters grow, more cells are reset. *)
LEMMA SoundStays ==
    ASSUME NEW local, NEW keys, NEW keys2, keys \subseteq keys2, NEW agg,
           NEW cnt \in [AccKey -> Nat], NEW cnt2 \in [AccKey -> Nat],
           NEW reset, NEW reset2, reset \subseteq reset2,
           \A c \in AccKey \ reset2 : cnt[c] <= cnt2[c],
           Sound(local, keys, agg, cnt, reset)
    PROVE  Sound(local, keys2, agg, cnt2, reset2)
<1> DEFINE s == SourceOrder[local.source]
<1>1. ASSUME LogRead(s, local.obs, keys) PROVE LogRead(s, local.obs, keys2)
  BY <1>1 DEF LogRead, LogCovered
<1>2. ASSUME s \in Databases,
             CellsRead(s, local.obs, local.clean, Pending(local), agg, cnt, reset)
      PROVE  CellsRead(s, local.obs, local.clean, Pending(local), agg, cnt2, reset2)
  <2>1. ASSUME NEW i \in DOMAIN local.obs.snaps
        PROVE  SnapOf(s, local.obs, i, Pending(local), agg, cnt2, reset2)
    <3>1. SnapOf(s, local.obs, i, Pending(local), agg, cnt, reset)
      BY <1>2 DEF CellsRead
    <3>2. CellsOf[s][i] \in AccKey
      BY <1>2, Sources DEF CellsRead
    <3>. QED BY <3>1, <3>2 DEF SnapOf
  <2>. QED BY <1>2, <2>1 DEF CellsRead
<1>3. ASSUME InHand(local, keys, agg, cnt, reset) PROVE InHand(local, keys2, agg, cnt2, reset2)
  BY <1>1, <1>2, <1>3 DEF InHand
<1>. QED BY <1>3 DEF Sound

(* Outside a source a pass carries nothing. *)
LEMMA NothingInHand ==
    ASSUME NEW local, DOMAIN local = DOMAIN Idle, local.source \in 0 .. Len(SourceOrder),
           local.at \notin {"store", "state", "cell"}, local.next = 0, local.clean = TRUE,
           local.at \in {"stamp", "read"} => local.source # 0,
           NEW keys, NEW agg, NEW cnt, NEW reset
    PROVE  Sound(local, keys, agg, cnt, reset)
BY DEF Sound

LEMMA IdleIsSound ==
    ASSUME NEW local, local.at = "idle", NEW keys, NEW agg, NEW cnt, NEW reset,
           NEW keys2, NEW agg2, NEW cnt2, NEW reset2,
           Sound(local, keys, agg, cnt, reset)
    PROVE  Sound(local, keys2, agg2, cnt2, reset2)
BY DEF Sound

(* A step of p's pass: it need only show its own pass sound, and the baselines *)
(* and checkpoints it writes.                                                  *)
LEMMA OnePassStep ==
    ASSUME CoverInv, [Next]_allVars, NEW p \in Process, NEW new, Go(p, new),
           \A q \in Process \ {p} : Running(q, "idle"),
           LedgerPart', RecordedKeys \subseteq RecordedKeys', UNCHANGED world,
           aggregate_state' \in [AccKey -> Nat \cup {None}],
           \A c \in AccKey \ wasReset :
              BaseOf(aggregate_state, c) <= BaseOf(aggregate_state', c)
              /\ BaseOf(aggregate_state', c) <= counter[c],
           DOMAIN source_checkpoints' = SourceId,
           \A s \in Logs \cup Databases :
              \/ source_checkpoints'[s] = source_checkpoints[s]
              \/ Marked(s, source_checkpoints'[s], RecordedKeys', aggregate_state', wasReset),
           Sound(new, RecordedKeys', aggregate_state', counter, wasReset)
    PROVE  CoverInv'
<1>1. LockInv'
  BY LockKept DEF CoverInv
<1>2. UNCHANGED <<written, counter, wasReset>>
  BY DEF world
<1>3. CellPart'
  BY <1>2 DEF CoverInv, CellPart
<1>4. MarkPart'
  <2>1. ASSUME NEW s \in Logs \cup Databases, source_checkpoints'[s] # None
        PROVE  Marked(s, source_checkpoints'[s], RecordedKeys', aggregate_state', wasReset)
    <3>1. CASE source_checkpoints'[s] = source_checkpoints[s]
      <4>1. Marked(s, source_checkpoints[s], RecordedKeys, aggregate_state, wasReset)
        BY <2>1, <3>1 DEF CoverInv, MarkPart
      <4>2. \A c \in AccKey \ wasReset : BaseOf(aggregate_state, c) <= BaseOf(aggregate_state', c)
        OBVIOUS
      <4>3. aggregate_state \in [AccKey -> Nat \cup {None}]
        BY DEF CoverInv, CellPart
      <4>. QED BY <3>1, <4>1, <4>2, <4>3, MarkedStays
    <3>. QED BY <2>1, <3>1
  <2>. QED BY <1>2, <2>1 DEF CoverInv, MarkPart
<1>5. PassPart'
  <2>1. DOMAIN pass = Process /\ pass' = [pass EXCEPT ![p] = new]
    BY DEF CoverInv, LockInv, Go
  <2>2. ASSUME NEW q \in Process, q # p
        PROVE  Sound(pass'[q], RecordedKeys', aggregate_state', counter, wasReset)
    <3>1. pass'[q] = pass[q] /\ pass[q].at = "idle"
      BY <2>1, <2>2 DEF Running
    <3>2. Sound(pass[q], RecordedKeys, aggregate_state, counter, wasReset)
      BY DEF CoverInv, PassPart
    <3>. QED BY <3>1, <3>2, IdleIsSound
  <2>3. pass'[p] = new
    BY <2>1
  <2>. QED BY <1>2, <2>2, <2>3 DEF PassPart
<1>. QED BY <1>1, <1>3, <1>4, <1>5 DEF CoverInv

(* A step that touches neither baselines nor checkpoints. *)
LEMMA QuietStep ==
    ASSUME CoverInv, [Next]_allVars, NEW p \in Process, NEW new, Go(p, new),
           \A q \in Process \ {p} : Running(q, "idle"),
           LedgerPart', RecordedKeys \subseteq RecordedKeys',
           UNCHANGED <<world, aggregate_state, source_checkpoints>>,
           Sound(new, RecordedKeys', aggregate_state, counter, wasReset)
    PROVE  CoverInv'
<1>1. /\ aggregate_state' = aggregate_state /\ source_checkpoints' = source_checkpoints
      /\ UNCHANGED world
  OBVIOUS
<1>2. /\ aggregate_state \in [AccKey -> Nat \cup {None}] /\ DOMAIN source_checkpoints = SourceId
      /\ counter \in [AccKey -> Nat]
  BY DEF CoverInv, CellPart, MarkPart
<1>3. ASSUME NEW c \in AccKey \ wasReset
      PROVE  BaseOf(aggregate_state, c) <= BaseOf(aggregate_state, c)
             /\ BaseOf(aggregate_state, c) <= counter[c]
  <2>1. BaseOf(aggregate_state, c) \in Nat
    BY <1>2 DEF BaseOf
  <2>. QED BY <2>1 DEF CoverInv, CellPart
<1>. QED BY <1>1, <1>2, <1>3, OnePassStep
-----------------------------------------------------------------------------
(* The agents *)

LEMMA WorldStep ==
    ASSUME CoverInv, [Next]_allVars, UNCHANGED <<vars, pass>>,
           written' \in [Logs -> Nat], \A s \in Logs : written'[s] <= Len(LogOf[s]),
           counter' \in [AccKey -> Nat], wasReset \subseteq wasReset',
           \A c \in AccKey \ wasReset' : counter[c] <= counter'[c]
    PROVE  CoverInv'
<1>1. LockInv'
  BY LockKept DEF CoverInv
<1>2. /\ usage_events' = usage_events /\ aggregate_state' = aggregate_state
      /\ source_checkpoints' = source_checkpoints /\ pass' = pass
  BY DEF vars
<1>3. LedgerPart' /\ RecordedKeys' = RecordedKeys
  BY <1>2 DEF CoverInv, LedgerPart, IdsBounded, MaxId, RecordedKeys
<1>4. /\ aggregate_state \in [AccKey -> Nat \cup {None}] /\ counter \in [AccKey -> Nat]
      /\ \A c \in AccKey \ wasReset : BaseOf(aggregate_state, c) <= counter[c]
  BY DEF CoverInv, CellPart
<1>5. \A c \in AccKey : BaseOf(aggregate_state, c) \in Nat
  BY <1>4 DEF BaseOf
<1>6. CellPart'
  <2>1. ASSUME NEW c \in AccKey \ wasReset' PROVE BaseOf(aggregate_state, c) <= counter'[c]
    <3>1. /\ BaseOf(aggregate_state, c) <= counter[c] /\ counter[c] <= counter'[c]
          /\ counter[c] \in Nat /\ counter'[c] \in Nat /\ BaseOf(aggregate_state, c) \in Nat
      BY <1>4, <1>5, <2>1
    <3>. QED BY <3>1
  <2>. QED BY <1>2, <1>4, <2>1 DEF CellPart
<1>7. MarkPart'
  <2>1. ASSUME NEW s \in Logs \cup Databases, source_checkpoints[s] # None
        PROVE  Marked(s, source_checkpoints[s], RecordedKeys, aggregate_state, wasReset')
    <3>1. Marked(s, source_checkpoints[s], RecordedKeys, aggregate_state, wasReset)
      BY <2>1 DEF CoverInv, MarkPart
    <3>2. \A c \in AccKey \ wasReset' : BaseOf(aggregate_state, c) <= BaseOf(aggregate_state, c)
      BY <1>5
    <3>. QED BY <1>4, <3>1, <3>2, MarkedStays
  <2>. QED BY <1>2, <1>3, <2>1 DEF CoverInv, MarkPart
<1>8. PassPart'
  <2>1. ASSUME NEW p \in Process
        PROVE  Sound(pass[p], RecordedKeys, aggregate_state, counter', wasReset')
    <3>1. Sound(pass[p], RecordedKeys, aggregate_state, counter, wasReset)
      BY DEF CoverInv, PassPart
    <3>. QED BY <1>4, <3>1, SoundStays
  <2>. QED BY <1>2, <1>3, <2>1 DEF PassPart
<1>. QED BY <1>1, <1>3, <1>6, <1>7, <1>8 DEF CoverInv

LEMMA AgentsKeep ==
    ASSUME CoverInv, [Next]_allVars,
           \/ \E s \in Logs : AppendRecord(s)
           \/ \E s \in Databases, c \in AccKey : Count(s, c) \/ Reset(s, c)
    PROVE  CoverInv'
<1>1. /\ counter \in [AccKey -> Nat] /\ written \in [Logs -> Nat]
      /\ \A s \in Logs : written[s] <= Len(LogOf[s])
  BY DEF CoverInv, CellPart, MarkPart
<1>2. ASSUME NEW s \in Logs, AppendRecord(s) PROVE CoverInv'
  <2>1. /\ UNCHANGED <<vars, pass, counter, wasReset>>
        /\ written' = [written EXCEPT ![s] = @ + 1] /\ written[s] < Len(LogOf[s])
    BY <1>2 DEF AppendRecord, collecting
  <2>2. Len(LogOf[s]) \in Nat
    BY Sources, LenProperties
  <2>3. written' \in [Logs -> Nat] /\ \A t \in Logs : written'[t] <= Len(LogOf[t])
    BY <1>1, <2>1, <2>2
  <2>4. \A c \in AccKey \ wasReset' : counter[c] <= counter'[c]
    BY <1>1, <2>1
  <2>. QED BY <1>1, <2>1, <2>3, <2>4, WorldStep
<1>3. ASSUME NEW s \in Databases, NEW c \in AccKey, Count(s, c) PROVE CoverInv'
  <2>1. UNCHANGED <<vars, pass, written, wasReset>> /\ counter' = [counter EXCEPT ![c] = @ + 1]
    BY <1>3 DEF Count, collecting
  <2>2. counter' \in [AccKey -> Nat] /\ \A d \in AccKey \ wasReset' : counter[d] <= counter'[d]
    BY <1>1, <2>1
  <2>. QED BY <1>1, <2>1, <2>2, WorldStep
<1>4. ASSUME NEW s \in Databases, NEW c \in AccKey, Reset(s, c) PROVE CoverInv'
  <2>1. /\ UNCHANGED <<vars, pass, written>> /\ counter' = [counter EXCEPT ![c] = 0]
        /\ wasReset' = wasReset \cup {c}
    BY <1>4 DEF Reset, collecting
  <2>2. counter' \in [AccKey -> Nat] /\ \A d \in AccKey \ wasReset' : counter[d] <= counter'[d]
    BY <1>1, <2>1
  <2>. QED BY <1>1, <2>1, <2>2, WorldStep
<1>. QED BY <1>2, <1>3, <1>4
-----------------------------------------------------------------------------
(* The steps of a pass outside its sources *)

LEMMA OthersIdle ==
    ASSUME CoverInv, NEW p \in Process, ~Running(p, "idle")
    PROVE  \A q \in Process \ {p} : Running(q, "idle")
BY DEF CoverInv, LockInv

LEMMA RowsStay ==
    ASSUME CoverInv, UNCHANGED usage_events
    PROVE  LedgerPart' /\ RecordedKeys' = RecordedKeys
BY DEF CoverInv, LedgerPart, IdsBounded, MaxId, RecordedKeys

(* A process starts, leaves or dies in a pass. *)
LEMMA BeginAndCrashKeep ==
    ASSUME CoverInv, [Next]_allVars, NEW p \in Process, BeginPass(p) \/ Crash(p)
    PROVE  CoverInv'
<1> DEFINE Blank(new) == /\ DOMAIN new = DOMAIN Idle
                         /\ new.at \in {"idle", "rollup"} /\ new.source = 0
                         /\ new.next = 0 /\ new.clean = TRUE
<1>1. PICK new : Go(p, new) /\ Blank(new)
  <2>1. Blank(Idle)
    BY DEF Idle
  <2>2. \A t : Blank([Idle EXCEPT !.at = "rollup", !.observedAt = t])
    BY DEF Idle
  <2> HIDE DEF Blank
  <2>3. CASE BeginPass(p)
    BY <2>2, <2>3 DEF BeginPass
  <2>4. CASE Crash(p)
    BY <2>1, <2>4 DEF Crash
  <2>. QED BY <2>3, <2>4
<1>2. \A q \in Process \ {p} : Running(q, "idle")
  <2>1. CASE BeginPass(p)
    BY <2>1, StoreAssumption, CollectorAssumption DEF BeginPass, MayCollect, CoverInv, LockInv
  <2>2. CASE Crash(p)
    <3>1. CASE ~Running(p, "idle")
      BY <3>1, OthersIdle
    <3>2. CASE holder = p
      BY <3>2 DEF CoverInv, LockInv
    <3>. QED BY <2>2, <3>1, <3>2 DEF Crash
  <2>. QED BY <2>1, <2>2
<1>3. UNCHANGED <<vars, world>>
  BY DEF BeginPass, Crash
<1>4. LedgerPart' /\ RecordedKeys' = RecordedKeys
  BY <1>3, RowsStay DEF vars
<1>5. Sound(new, RecordedKeys', aggregate_state, counter, wasReset)
  <2>1. Len(SourceOrder) \in Nat
    BY Sources
  <2>2. new.source \in 0 .. Len(SourceOrder)
    BY <1>1, <2>1
  <2>. QED BY <1>1, <2>2, NothingInHand
<1>6. UNCHANGED <<world, aggregate_state, source_checkpoints>>
  BY <1>3 DEF vars
<1>. QED BY <1>1, <1>2, <1>4, <1>5, <1>6, QuietStep

LEMMA QuietStepsKeep ==
    ASSUME CoverInv, [Next]_allVars, NEW p \in Process,
           CheckRollup(p) \/ CheckCounts(p) \/ SyncPrices(p) \/ NextSource(p) \/ StatDatabase(p)
    PROVE  CoverInv'
<1> DEFINE Plain(new) ==
             /\ Go(p, new) /\ DOMAIN new = DOMAIN Idle /\ new.source \in 0 .. Len(SourceOrder)
             /\ new.at \notin {"store", "state", "cell"} /\ new.next = 0 /\ new.clean = TRUE
             /\ new.at \in {"stamp", "read"} => new.source # 0
<1>1. Sound(pass[p], RecordedKeys, aggregate_state, counter, wasReset)
  BY DEF CoverInv, PassPart
<1>2. ~Running(p, "idle")
  BY DEF CheckRollup, CheckCounts, SyncPrices, NextSource, StatDatabase, Running
<1>3. Plain(Idle) <=> Go(p, Idle)
  BY Sources DEF Idle
<1>4. UNCHANGED world /\ (UNCHANGED vars \/ EnsureRollup \/ \E rev : SyncUnpriced(rev))
  BY DEF CheckRollup, CheckCounts, SyncPrices, NextSource, StatDatabase, EnsureRollup
<1>5. \E new : Plain(new)
  <2>0. /\ DOMAIN pass[p] = DOMAIN Idle /\ pass[p].source \in 0 .. Len(SourceOrder)
        /\ DOMAIN Idle = {"at", "observedAt", "source", "gate", "obs", "next", "last", "clean"}
    BY <1>1 DEF Sound, Idle
  <2>1. CASE CheckRollup(p) \/ CheckCounts(p)
    <3>1. PICK stage \in {"counts", "prices"} :
             Go(p, [pass[p] EXCEPT !.at = stage]) /\ pass[p].at \in {"rollup", "counts"}
      BY <2>1 DEF CheckRollup, CheckCounts, GoTo, Running
    <3>2. Plain([pass[p] EXCEPT !.at = stage])
      BY <1>1, <2>0, <3>1 DEF Sound
    <3>. QED BY <3>2
  <2>2. CASE SyncPrices(p)
    <3>1. (Go(p, [pass[p] EXCEPT !.at = "sources"]) \/ Go(p, Idle)) /\ pass[p].at = "prices"
      BY <2>2 DEF SyncPrices, GoTo, EndPass, Running
    <3>2. Go(p, [pass[p] EXCEPT !.at = "sources"]) => Plain([pass[p] EXCEPT !.at = "sources"])
      BY <1>1, <2>0, <3>1 DEF Sound
    <3>. QED BY <1>3, <3>1, <3>2
  <2>3. CASE NextSource(p)
    <3> DEFINE at == pass[p].source + 1
               on == [pass[p] EXCEPT !.source = at, !.at =
                        IF SourceOrder[at] \in Logs THEN "read" ELSE "stamp"]
               by == [pass[p] EXCEPT !.source = at]
    <3>1. /\ pass[p].at = "sources"
          /\ (at <= Len(SourceOrder) /\ (Go(p, on) \/ Go(p, by))) \/ Go(p, Idle)
      BY <2>3 DEF NextSource, EndPass, Running
    <3>2. at <= Len(SourceOrder) => at \in 1 .. Len(SourceOrder)
      BY <2>0, Sources
    <3>3. pass[p].next = 0 /\ pass[p].clean = TRUE
      BY <1>1, <3>1 DEF Sound
    <3>4. /\ DOMAIN on = DOMAIN Idle /\ on.source = at /\ on.at \in {"read", "stamp"}
          /\ on.next = 0 /\ on.clean = TRUE
      BY <2>0, <3>3
    <3>5. /\ DOMAIN by = DOMAIN Idle /\ by.source = at /\ by.at = "sources"
          /\ by.next = 0 /\ by.clean = TRUE
      BY <2>0, <3>1, <3>3
    <3> HIDE DEF at, on, by
    <3>6. at <= Len(SourceOrder) /\ Go(p, on) => Plain(on)
      BY <3>2, <3>4
    <3>7. at <= Len(SourceOrder) /\ Go(p, by) => Plain(by)
      BY <3>2, <3>5
    <3>. QED BY <1>3, <3>1, <3>6, <3>7
  <2>4. CASE StatDatabase(p)
    <3> DEFINE new == [pass[p] EXCEPT !.gate = stamp[Source(p)], !.at = "read"]
    <3>1. Go(p, new) /\ pass[p].at = "stamp"
      BY <2>4 DEF StatDatabase, Running
    <3>2. Plain(new)
      BY <1>1, <2>0, <3>1 DEF Sound
    <3>. QED BY <3>2
  <2>. QED BY <2>1, <2>2, <2>3, <2>4
<1>6. PICK new : Plain(new)
  BY <1>5
<1>7. LedgerPart' /\ RecordedKeys' = RecordedKeys /\ UNCHANGED <<aggregate_state, source_checkpoints>>
  <2>1. CASE UNCHANGED vars
    BY <2>1, RowsStay DEF vars
  <2>2. CASE EnsureRollup
    BY <2>2, RowsStay DEF EnsureRollup, EnsureUsageRollup, EnsureActivityCounts, activityVars
  <2>3. CASE \E rev : SyncUnpriced(rev)
    BY <2>3, SyncKeepsRows DEF CoverInv
  <2>. QED BY <1>4, <2>1, <2>2, <2>3
<1>8. Sound(new, RecordedKeys', aggregate_state, counter, wasReset)
  BY <1>6, NothingInHand
<1>9. \A q \in Process \ {p} : Running(q, "idle")
  BY <1>2, OthersIdle
<1>. QED BY <1>4, <1>6, <1>7, <1>8, <1>9, QuietStep
-----------------------------------------------------------------------------
(* Reading a source *)

LEMMA LogIsRead ==
    ASSUME CoverInv, NEW s \in Logs
    PROVE  LogRead(s, ReadLog(s), RecordedKeys)
<1> DEFINE cp   == source_checkpoints[s]
           from == IF cp = None THEN 0 ELSE cp.offset
           tail == SubSeq(LogOf[s], from + 1, written[s])
<1>1. LogRead(s, NoObservation, RecordedKeys)
  BY EmptySeq DEF LogRead, NoObservation
<1>2. /\ written[s] \in Nat /\ written[s] <= Len(LogOf[s])
      /\ LogOf[s] \in Seq([event : Event, ok : BOOLEAN]) /\ Len(LogOf[s]) \in Nat
  BY Sources, LenProperties DEF CoverInv, MarkPart
<1>3. from \in Nat /\ \A i \in 1 .. from : LogOf[s][i].ok => LogOf[s][i].event.key \in RecordedKeys
  BY DEF CoverInv, MarkPart, Marked, LogCovered
<1> HIDE DEF from
<1>4. /\ tail \in Seq([event : Event, ok : BOOLEAN])
      /\ DOMAIN tail = 1 .. Len(tail)
      /\ Len(tail) = IF from + 1 <= written[s] THEN written[s] - from ELSE 0
      /\ \A k \in 1 .. written[s] - from : tail[k] = LogOf[s][from + k]
  <2>1. from + 1 \in Int /\ written[s] \in Int
    BY <1>2, <1>3
  <2>2. \A i \in from + 1 .. written[s] : LogOf[s][i] \in [event : Event, ok : BOOLEAN]
    <3>1. \A i \in from + 1 .. written[s] : i \in 1 .. Len(LogOf[s])
      BY <1>2, <1>3
    <3>. QED BY <1>2, <3>1, ElementOfSeq
  <2>3. /\ tail \in Seq([event : Event, ok : BOOLEAN])
        /\ Len(tail) = IF from + 1 <= written[s] THEN written[s] - (from + 1) + 1 ELSE 0
        /\ \A k \in 1 .. written[s] - (from + 1) + 1 : tail[k] = LogOf[s][(from + 1) + k - 1]
    BY <2>1, <2>2, SubSeqProperties
  <2> HIDE DEF tail
  <2>4. DOMAIN tail = 1 .. Len(tail)
    BY <2>3, LenProperties
  <2>. QED BY <1>2, <1>3, <2>3, <2>4
<1> HIDE DEF tail
<1>5. ASSUME NEW i \in 1 .. written[s], LogOf[s][i].ok
      PROVE  LogOf[s][i].event.key \in RecordedKeys \cup Offered(tail)
  <2>1. CASE i <= from
    BY <1>3, <1>5, <2>1
  <2>2. CASE i > from
    <3>1. i - from \in DOMAIN tail /\ tail[i - from] = LogOf[s][i]
      BY <1>2, <1>3, <1>4, <2>2
    <3>. QED BY <1>5, <3>1 DEF Offered
  <2>. QED BY <1>2, <1>3, <2>1, <2>2
<1>6. LogRead(s, [events |-> tail, snaps |-> <<>>, cp |-> [source |-> s, offset |-> written[s]]],
              RecordedKeys)
  BY <1>2, <1>4, <1>5 DEF LogRead, LogCovered
<1>7. ReadLog(s) \in {NoObservation, [events |-> tail, snaps |-> <<>>,
                                     cp |-> [source |-> s, offset |-> written[s]]]}
  BY DEF ReadLog, tail, from
<1>. QED BY <1>1, <1>6, <1>7

LEMMA DatabaseIsRead ==
    ASSUME CoverInv, NEW s \in Databases, NEW gate
    PROVE  LET obs == ReadDatabase(s, gate)
           IN  CellsRead(s, obs, TRUE, DOMAIN obs.snaps, aggregate_state, counter, wasReset)
<1> DEFINE cp == source_checkpoints[s]
           Changed(c) == cp = None \/ cp.sessions[c] # counter[c]
           changed == {i \in DOMAIN CellsOf[s] : Changed(CellsOf[s][i])}
           obs == [events |-> <<>>, snaps |-> [i \in changed |-> Snapshot(CellsOf[s][i])],
                   cp     |-> [source |-> s, stamp |-> gate,
                               sessions |-> [c \in ToSet(CellsOf[s]) |-> counter[c]]]]
           Read(o) == CellsRead(s, o, TRUE, DOMAIN o.snaps, aggregate_state, counter, wasReset)
<1>1. ReadDatabase(s, gate) \in {NoObservation, obs}
  BY DEF ReadDatabase
<1>2. Read(NoObservation)
  BY DEF CellsRead, NoObservation
<1>3. /\ obs.events = <<>> /\ DOMAIN obs.snaps = changed /\ obs.cp.source = s
      /\ \A i \in changed : /\ obs.snaps[i].cell = CellsOf[s][i]
                            /\ obs.snaps[i].counter = counter[CellsOf[s][i]]
      /\ obs.cp.sessions = [c \in ToSet(CellsOf[s]) |-> counter[c]]
  BY DEF Snapshot
<1>4. ASSUME NEW i \in DOMAIN CellsOf[s]
      PROVE  /\ CellsOf[s][i] \in AccKey /\ CellsOf[s][i] \in ToSet(CellsOf[s])
             /\ counter[CellsOf[s][i]] \in Nat
             /\ CellsOf[s][i] \notin wasReset => /\ BaseOf(aggregate_state, CellsOf[s][i]) \in Nat
                                               /\ BaseOf(aggregate_state, CellsOf[s][i]) <= counter[CellsOf[s][i]]
  <2>1. CellsOf[s][i] \in AccKey /\ CellsOf[s][i] \in ToSet(CellsOf[s])
    BY Sources
  <2>. QED BY <2>1 DEF CoverInv, CellPart, BaseOf
<1>5. ASSUME NEW i \in DOMAIN CellsOf[s], i \notin changed, CellsOf[s][i] \notin wasReset
      PROVE  BaseOf(aggregate_state, CellsOf[s][i]) >= counter[CellsOf[s][i]]
  <2>1. cp # None /\ cp.sessions[CellsOf[s][i]] = counter[CellsOf[s][i]]
    BY <1>5
  <2>2. CellsCovered(s, cp, aggregate_state, wasReset)
    BY <2>1 DEF CoverInv, MarkPart, Marked
  <2>. QED BY <1>4, <1>5, <2>1, <2>2 DEF CellsCovered
<1>6. changed \subseteq DOMAIN CellsOf[s]
  OBVIOUS
<1> HIDE DEF changed, obs
<1>7. \A i \in changed : SnapOf(s, obs, i, changed, aggregate_state, counter, wasReset)
  BY <1>3, <1>4, <1>6 DEF SnapOf
<1>8. ASSUME NEW i \in DOMAIN CellsOf[s], CellsOf[s][i] \notin wasReset
      PROVE  CellInHand(s, obs, i, changed, aggregate_state)
  BY <1>3, <1>4, <1>5, <1>8 DEF CellInHand
<1>9. Read(obs)
  BY <1>3, <1>6, <1>7, <1>8 DEF CellsRead
<1> HIDE DEF Read
<1>10. Read(ReadDatabase(s, gate))
  BY <1>1, <1>2, <1>9
<1>. QED BY <1>10 DEF Read

(* A read cut short has no checkpoint, and its snapshots are some of the whole. *)
LEMMA PartIsRead ==
    ASSUME NEW obs, NEW n, n \in 0 .. Len(obs.events), NEW kept \in SUBSET DOMAIN obs.snaps, NEW s,
           NEW keys, NEW agg, NEW cnt, NEW reset
    PROVE  /\ LogRead(s, obs, keys) => LogRead(s, Partial(obs, n, kept), keys)
           /\ CellsRead(s, obs, TRUE, DOMAIN obs.snaps, agg, cnt, reset) =>
                 CellsRead(s, Partial(obs, n, kept), TRUE, DOMAIN Partial(obs, n, kept).snaps, agg, cnt, reset)
<1>1. /\ Partial(obs, n, kept).cp = None /\ Partial(obs, n, kept).events = SubSeq(obs.events, 1, n)
      /\ DOMAIN Partial(obs, n, kept).snaps \subseteq DOMAIN obs.snaps
      /\ \A i \in DOMAIN Partial(obs, n, kept).snaps : Partial(obs, n, kept).snaps[i] = obs.snaps[i]
  BY DEF Partial
<1>2. ASSUME LogRead(s, obs, keys) PROVE LogRead(s, Partial(obs, n, kept), keys)
  <2>1. obs.events \in Seq([event : Event, ok : BOOLEAN])
    BY <1>2 DEF LogRead
  <2>2. Len(obs.events) \in Nat
    BY <2>1, LenProperties
  <2>3. \A i \in 1 .. n : obs.events[i] \in [event : Event, ok : BOOLEAN]
    <3>1. \A i \in 1 .. n : i \in 1 .. Len(obs.events)
      BY <2>2
    <3>. QED BY <2>1, <3>1, ElementOfSeq
  <2>4. SubSeq(obs.events, 1, n) \in Seq([event : Event, ok : BOOLEAN])
    BY <2>2, <2>3, SubSeqProperties
  <2>. QED BY <1>1, <1>2, <2>4 DEF LogRead
<1>3. ASSUME CellsRead(s, obs, TRUE, DOMAIN obs.snaps, agg, cnt, reset)
      PROVE  CellsRead(s, Partial(obs, n, kept), TRUE, DOMAIN Partial(obs, n, kept).snaps, agg, cnt, reset)
  <2>1. obs.events = <<>>
    BY <1>3 DEF CellsRead
  <2>2. n = 0
    BY <2>1
  <2>3. Partial(obs, n, kept).events = <<>>
    BY <1>1, <2>1, <2>2, SubSeqEmpty
  <2>4. ASSUME NEW i \in DOMAIN Partial(obs, n, kept).snaps
        PROVE  SnapOf(s, Partial(obs, n, kept), i, DOMAIN Partial(obs, n, kept).snaps, agg, cnt, reset)
    BY <1>1, <1>3, <2>4 DEF CellsRead, SnapOf
  <2>. QED BY <1>1, <1>3, <2>3, <2>4 DEF CellsRead
<1>. QED BY <1>2, <1>3

LEMMA ReadSourceKeeps ==
    ASSUME CoverInv, [Next]_allVars, NEW p \in Process, ReadSource(p)
    PROVE  CoverInv'
<1> DEFINE s   == Source(p)
           obs == IF s \in Logs THEN ReadLog(s) ELSE ReadDatabase(s, pass[p].gate)
           Saw(o) == [pass[p] EXCEPT !.obs = o, !.at = "store"]
           Good(o) == /\ s \in Logs => LogRead(s, o, RecordedKeys)
                      /\ s \in Databases => CellsRead(s, o, TRUE, DOMAIN o.snaps,
                                                       aggregate_state, counter, wasReset)
<1>1. Sound(pass[p], RecordedKeys, aggregate_state, counter, wasReset) /\ pass[p].at = "read"
  BY DEF CoverInv, PassPart, ReadSource, Running
<1>2. /\ DOMAIN pass[p] = {"at", "observedAt", "source", "gate", "obs", "next", "last", "clean"}
      /\ pass[p].source \in 1 .. Len(SourceOrder) /\ pass[p].next = 0 /\ pass[p].clean = TRUE
  BY <1>1, Sources DEF Sound, Idle
<1>3. s \in Logs \cup Databases /\ Logs \cap Databases = {} /\ s = SourceOrder[pass[p].source]
  BY <1>2, Sources DEF Source
<1> HIDE DEF s
<1>4. Good(obs)
  BY <1>3, LogIsRead, DatabaseIsRead
<1>5. \E o : Go(p, Saw(o)) /\ Good(o)
  <2>1. \/ Go(p, Saw(obs))
        \/ \E n \in 0 .. Len(obs.events), kept \in SUBSET DOMAIN obs.snaps : Go(p, Saw(Partial(obs, n, kept)))
    BY DEF ReadSource, s
  <2> HIDE DEF obs, Saw
  <2>2. \A n \in 0 .. Len(obs.events) : \A kept \in SUBSET DOMAIN obs.snaps : Good(Partial(obs, n, kept))
    BY <1>4, PartIsRead
  <2>. QED BY <1>4, <2>1, <2>2
<1> HIDE DEF obs
<1>6. PICK o : Go(p, Saw(o)) /\ Good(o)
  BY <1>5
<1>7. Sound(Saw(o), RecordedKeys, aggregate_state, counter, wasReset)
  <2>1. /\ DOMAIN Saw(o) = DOMAIN Idle /\ Saw(o).at = "store" /\ Saw(o).obs = o
        /\ Saw(o).source = pass[p].source /\ Saw(o).next = 0 /\ Saw(o).clean = TRUE
    BY <1>2 DEF Idle
  <2> HIDE DEF Saw
  <2>2. s \in Databases => Pending(Saw(o)) = DOMAIN o.snaps
    <3>1. s \in Databases => DOMAIN o.snaps \subseteq Nat
      BY <1>6, Sources DEF CellsRead
    <3>. QED BY <2>1, <3>1 DEF Pending
  <2>3. InHand(Saw(o), RecordedKeys, aggregate_state, counter, wasReset)
    BY <1>3, <1>6, <2>1, <2>2 DEF InHand
  <2>. QED BY <1>2, <2>1, <2>3 DEF Sound
<1>8. UNCHANGED <<vars, world>>
  BY DEF ReadSource
<1>9. /\ LedgerPart' /\ RecordedKeys' = RecordedKeys
      /\ UNCHANGED <<world, aggregate_state, source_checkpoints>>
  BY <1>8, RowsStay DEF vars
<1>10. \A q \in Process \ {p} : Running(q, "idle")
  BY <1>1, OthersIdle DEF Running
<1>. QED BY <1>6, <1>7, <1>9, <1>10, QuietStep
-----------------------------------------------------------------------------
(* Storing what was read *)

Fields == {"at", "observedAt", "source", "gate", "obs", "next", "last", "clean"}

(* With all its snapshots applied, the checkpoint of a clean read is covered. *)
LEMMA AppliedIsCovered ==
    ASSUME NEW s \in Databases, NEW obs, NEW agg, NEW cnt, NEW reset,
           CellsRead(s, obs, TRUE, {}, agg, cnt, reset), obs.cp # None
    PROVE  CellsCovered(s, obs.cp, agg, reset)
<1>1. ToSet(CellsOf[s]) = {CellsOf[s][i] : i \in DOMAIN CellsOf[s]}
  BY Sources
<1>. QED BY <1>1 DEF CellsRead, CellInHand, CellsCovered

(* The checkpoint that is stored for a source is covered. *)
LEMMA CheckpointStored ==
    ASSUME CoverInv, NEW s \in Logs \cup Databases, NEW cp, UpsertCheckpoint(cp),
           cp # None => cp.source = s /\ Marked(s, cp, RecordedKeys', aggregate_state', wasReset)
    PROVE  /\ DOMAIN source_checkpoints' = SourceId
           /\ \A t \in Logs \cup Databases :
                 \/ source_checkpoints'[t] = source_checkpoints[t]
                 \/ Marked(t, source_checkpoints'[t], RecordedKeys', aggregate_state', wasReset)
<1>1. DOMAIN source_checkpoints = SourceId /\ s \in SourceId
  BY Sources DEF CoverInv, MarkPart
<1>2. CASE cp = None
  BY <1>1, <1>2 DEF UpsertCheckpoint
<1>3. CASE cp # None
  <2>1. source_checkpoints' = [source_checkpoints EXCEPT ![s] = cp]
    BY <1>3 DEF UpsertCheckpoint
  <2>. QED BY <1>1, <1>3, <2>1
<1>. QED BY <1>2, <1>3

LEMMA AfterSourceIsSound ==
    ASSUME NEW local, DOMAIN local = Fields, local.source \in 0 .. Len(SourceOrder),
           NEW keys, NEW agg, NEW cnt, NEW reset
    PROVE  Sound(AfterSource(local), keys, agg, cnt, reset)
<1> DEFINE new == AfterSource(local)
<1>1. /\ DOMAIN new = DOMAIN Idle /\ new.source = local.source /\ new.at = "sources"
      /\ new.next = 0 /\ new.clean = TRUE
  BY DEF AfterSource, Idle, Fields
<1> HIDE DEF new
<1>2. Sound(new, keys, agg, cnt, reset)
  BY <1>1, NothingInHand
<1>. QED BY <1>2 DEF new

(* The pass comes to the first of the snapshots that are still to be applied. *)
LEMMA ToNextCell ==
    ASSUME NEW local, DOMAIN local = Fields, local.source \in 1 .. Len(SourceOrder),
           NEW s, s = SourceOrder[local.source], s \in Databases, NEW clean, NEW pending,
           NEW keys, NEW agg, NEW cnt, NEW reset,
           CellsRead(s, local.obs, clean, pending, agg, cnt, reset), pending # {},
           \A i \in DOMAIN local.obs.snaps, j \in pending : j <= i => i \in pending,
           NEW new, DOMAIN new = Fields, new.source = local.source, new.obs = local.obs,
           new.at = "state", new.next = Min(pending), new.clean = clean
    PROVE  Sound(new, keys, agg, cnt, reset)
<1>1. pending \subseteq DOMAIN local.obs.snaps /\ DOMAIN local.obs.snaps \subseteq Nat
  BY Sources DEF CellsRead
<1>2. \E m \in pending : \A i \in pending : m <= i
  BY <1>1, LeastElement
<1>3. Min(pending) \in pending /\ \A i \in pending : Min(pending) <= i
  BY <1>2 DEF Min
<1>4. Pending(new) = pending
  BY <1>1, <1>3 DEF Pending
<1>5. InHand(new, keys, agg, cnt, reset)
  BY <1>4, Sources DEF InHand
<1>. QED BY <1>1, <1>3, <1>5 DEF Sound, Idle, Fields

LEMMA NextCellIsSound ==
    ASSUME NEW local, DOMAIN local = Fields, local.source \in 1 .. Len(SourceOrder),
           NEW s, s = SourceOrder[local.source], s \in Databases, NEW clean,
           local.next \in Nat,
           NEW keys, NEW agg, NEW cnt, NEW reset,
           CellsRead(s, local.obs, clean, Later(local), agg, cnt, reset)
    PROVE  Sound(NextCell(local, clean), keys, agg, cnt, reset)
<1>1. CASE Later(local) = {}
  BY <1>1, AfterSourceIsSound DEF NextCell
<1>2. CASE Later(local) # {}
  <2> DEFINE new == NextCell(local, clean)
  <2>1. /\ DOMAIN new = Fields /\ new.source = local.source /\ new.obs = local.obs
        /\ new.at = "state" /\ new.next = Min(Later(local)) /\ new.clean = clean
    BY <1>2 DEF NextCell, Fields
  <2> HIDE DEF new
  <2>2. DOMAIN local.obs.snaps \subseteq Nat
    BY Sources DEF CellsRead
  <2>3. \A i \in DOMAIN local.obs.snaps, j \in Later(local) : j <= i => i \in Later(local)
    BY <2>2 DEF Later
  <2>4. Sound(new, keys, agg, cnt, reset)
    BY <1>2, <2>1, <2>3, ToNextCell
  <2>. QED BY <2>4 DEF new
<1>. QED BY <1>1, <1>2

LEMMA StoreObservationKeeps ==
    ASSUME CoverInv, [Next]_allVars, NEW p \in Process, StoreObservation(p)
    PROVE  CoverInv'
<1> DEFINE local == pass[p]
           obs   == local.obs
           s     == SourceOrder[local.source]
           cp    == EventCheckpoint(obs)
           Done(clean) == IF DOMAIN obs.snaps = {} THEN AfterSource(local)
                          ELSE [local EXCEPT !.at = "state", !.next = Min(DOMAIN obs.snaps),
                                             !.clean = clean]
<1>1. Sound(local, RecordedKeys, aggregate_state, counter, wasReset) /\ local.at = "store"
  BY DEF CoverInv, PassPart, StoreObservation, Running
<1>2. DOMAIN local = Fields /\ local.source \in 1 .. Len(SourceOrder) /\ local.next = 0
  BY <1>1, Sources DEF Sound, Idle, Fields
<1>3. s \in Logs \cup Databases /\ Logs \cap Databases = {}
  BY <1>2, Sources
<1>4. /\ s \in Logs => LogRead(s, obs, RecordedKeys)
      /\ s \in Databases => CellsRead(s, obs, TRUE, Pending(local), aggregate_state, counter, wasReset)
  BY <1>1 DEF Sound, InHand
<1>5. s \in Databases => Pending(local) = DOMAIN obs.snaps /\ DOMAIN obs.snaps \subseteq Nat
  <2>1. s \in Databases => DOMAIN obs.snaps \subseteq Nat
    BY <1>4, Sources DEF CellsRead
  <2>. QED BY <1>2, <2>1 DEF Pending
<1>6. obs.events \in Seq([event : Event, ok : BOOLEAN])
  BY <1>3, <1>4, EmptySeq DEF LogRead, CellsRead
<1>7. ASSUME NEW clean PROVE Sound(Done(clean), RecordedKeys, aggregate_state, counter, wasReset)
  <2>1. CASE DOMAIN obs.snaps = {}
    BY <1>2, <2>1, AfterSourceIsSound
  <2>2. CASE DOMAIN obs.snaps # {}
    <3>1. s \in Databases
      BY <1>3, <1>4, <2>2 DEF LogRead
    <3>2. CellsRead(s, obs, clean, DOMAIN obs.snaps, aggregate_state, counter, wasReset)
      BY <1>4, <1>5, <3>1 DEF CellsRead
    <3> DEFINE new == [local EXCEPT !.at = "state", !.next = Min(DOMAIN obs.snaps), !.clean = clean]
    <3>3. /\ DOMAIN new = Fields /\ new.source = local.source /\ new.obs = local.obs
          /\ new.at = "state" /\ new.next = Min(DOMAIN obs.snaps) /\ new.clean = clean
      BY <1>2 DEF Fields
    <3>4. Done(clean) = new
      BY <2>2
    <3> HIDE DEF new, Done
    <3>5. Sound(new, RecordedKeys, aggregate_state, counter, wasReset)
      BY <1>2, <2>2, <3>1, <3>2, <3>3, ToNextCell
    <3>. QED BY <3>4, <3>5
  <2>. QED BY <2>1, <2>2
<1>8. PICK clean : Go(p, Done(clean))
  BY DEF StoreObservation
<1>9. \/ UNCHANGED vars
      \/ ApplyBatch(EventBatch(obs.events, cp))
  BY DEF StoreObservation
<1> HIDE DEF Done
<1>10. UNCHANGED world /\ \A q \in Process \ {p} : Running(q, "idle")
  BY <1>1, OthersIdle DEF StoreObservation, Running
<1>11. CASE UNCHANGED vars
  <2>1. /\ LedgerPart' /\ RecordedKeys' = RecordedKeys
        /\ UNCHANGED <<aggregate_state, source_checkpoints>>
    BY <1>11, RowsStay DEF vars
  <2>. QED BY <1>7, <1>8, <1>10, <2>1, QuietStep
<1>12. CASE ApplyBatch(EventBatch(obs.events, cp))
  <2>1. /\ LedgerPart' /\ RecordedKeys \subseteq RecordedKeys'
        /\ Offered(obs.events) \subseteq RecordedKeys'
        /\ UpsertCheckpoint(cp) /\ aggregate_state' = aggregate_state
    BY <1>6, <1>12, BatchRecords DEF CoverInv
  <2>2. /\ aggregate_state \in [AccKey -> Nat \cup {None}] /\ counter \in [AccKey -> Nat]
        /\ \A c \in AccKey \ wasReset : BaseOf(aggregate_state, c) <= counter[c]
    BY DEF CoverInv, CellPart
  <2>3. \A c \in AccKey \ wasReset : BaseOf(aggregate_state, c) <= BaseOf(aggregate_state, c)
                                       /\ counter[c] <= counter[c]
    BY <2>2 DEF BaseOf
  <2>4. ASSUME cp # None
        PROVE  cp.source = s /\ Marked(s, cp, RecordedKeys', aggregate_state, wasReset)
    <3>1. cp = obs.cp /\ DOMAIN obs.snaps = {}
      BY <2>4 DEF EventCheckpoint
    <3>2. CASE s \in Logs
      BY <1>3, <1>4, <2>1, <2>4, <3>1, <3>2 DEF LogRead, LogCovered, Marked
    <3>3. CASE s \in Databases
      <4>1. CellsRead(s, obs, TRUE, {}, aggregate_state, counter, wasReset)
        BY <1>4, <1>5, <3>1, <3>3
      <4>2. CellsCovered(s, cp, aggregate_state, wasReset) /\ cp.source = s
        BY <2>4, <3>1, <3>3, <4>1, AppliedIsCovered DEF CellsRead
      <4>. QED BY <1>3, <3>3, <4>2 DEF Marked
    <3>. QED BY <1>3, <3>2, <3>3
  <2>5. /\ DOMAIN source_checkpoints' = SourceId
        /\ \A t \in Logs \cup Databases :
              \/ source_checkpoints'[t] = source_checkpoints[t]
              \/ Marked(t, source_checkpoints'[t], RecordedKeys', aggregate_state', wasReset)
    BY <1>3, <2>1, <2>4, CheckpointStored
  <2>6. Sound(Done(clean), RecordedKeys', aggregate_state', counter, wasReset)
    BY <1>7, <2>1, <2>2, <2>3, SoundStays
  <2>. QED BY <1>8, <1>10, <2>1, <2>2, <2>3, <2>5, <2>6, OnePassStep
<1>. QED BY <1>9, <1>11, <1>12

(* A snapshot is applied: its cell's baseline becomes its counter. *)
Applied(agg, snap) == [agg EXCEPT ![snap.cell] = snap.counter]

Bounded(agg, cnt, reset) == \A c \in AccKey \ reset : BaseOf(agg, c) <= cnt[c]
Grown(agg, agg2, reset) == \A c \in AccKey \ reset : BaseOf(agg, c) <= BaseOf(agg2, c)

LEMMA CellApplied ==
    ASSUME NEW s \in Databases, NEW obs, NEW clean, NEW pending, NEW cnt \in [AccKey -> Nat],
           NEW agg \in [AccKey -> Nat \cup {None}], NEW reset,
           Bounded(agg, cnt, reset),
           CellsRead(s, obs, clean, pending, agg, cnt, reset), NEW i \in pending
    PROVE  LET agg2 == Applied(agg, obs.snaps[i])
           IN  /\ agg2 \in [AccKey -> Nat \cup {None}]
               /\ Grown(agg, agg2, reset) /\ Bounded(agg2, cnt, reset)
               /\ CellsRead(s, obs, clean, pending \ {i}, agg2, cnt, reset)
<1> DEFINE c0 == CellsOf[s][i]
           n0 == obs.snaps[i].counter
           agg2 == Applied(agg, obs.snaps[i])
<1>1. /\ DOMAIN obs.snaps \subseteq DOMAIN CellsOf[s] /\ pending \subseteq DOMAIN obs.snaps
      /\ \A j \in DOMAIN obs.snaps : SnapOf(s, obs, j, pending, agg, cnt, reset)
  BY DEF CellsRead
<1>2. /\ \A j \in DOMAIN CellsOf[s] : CellsOf[s][j] \in AccKey
      /\ \A j \in DOMAIN CellsOf[s] : CellsOf[s][j] = c0 => j = i
  BY <1>1, Sources
<1>3. c0 \in AccKey /\ obs.snaps[i].cell = c0 /\ n0 \in Nat
      /\ (c0 \notin reset => n0 <= cnt[c0] /\ BaseOf(agg, c0) <= n0)
  BY <1>1, <1>2 DEF SnapOf
<1> HIDE DEF c0, n0
<1>4. agg2 = [agg EXCEPT ![c0] = n0]
  BY <1>3 DEF n0, Applied
<1> HIDE DEF agg2
<1>5. agg2 \in [AccKey -> Nat \cup {None}]
  BY <1>3, <1>4
<1>6. BaseOf(agg2, c0) = n0 /\ \A c \in AccKey \ {c0} : BaseOf(agg2, c) = BaseOf(agg, c)
  BY <1>3, <1>4, Sources DEF BaseOf
<1>7. \A c \in AccKey : BaseOf(agg, c) \in Nat /\ BaseOf(agg2, c) \in Nat
  BY <1>5 DEF BaseOf
<1>8. ASSUME NEW c \in AccKey \ reset
      PROVE  BaseOf(agg, c) <= BaseOf(agg2, c) /\ BaseOf(agg2, c) <= cnt[c]
  <2>1. CASE c = c0
    BY <1>3, <1>6, <1>8, <2>1
  <2>2. CASE c # c0
    <3>1. BaseOf(agg2, c) = BaseOf(agg, c) /\ BaseOf(agg, c) \in Nat
      BY <1>6, <1>7, <1>8, <2>2
    <3>2. BaseOf(agg, c) <= cnt[c]
      BY <1>8 DEF Bounded
    <3>. QED BY <3>1, <3>2
  <2>. QED BY <2>1, <2>2
<1>9. ASSUME NEW j \in DOMAIN obs.snaps
      PROVE  SnapOf(s, obs, j, pending \ {i}, agg2, cnt, reset)
  <2>1. SnapOf(s, obs, j, pending, agg, cnt, reset)
    BY <1>1
  <2>2. j # i => CellsOf[s][j] \in AccKey \ {c0}
    BY <1>1, <1>2
  <2>. QED BY <1>6, <2>1, <2>2 DEF SnapOf
<1>10. ASSUME NEW j \in DOMAIN CellsOf[s], CellsOf[s][j] \notin reset,
              CellInHand(s, obs, j, pending, agg)
       PROVE  CellInHand(s, obs, j, pending \ {i}, agg2)
  <2>1. CASE j = i
    <3>1. /\ CellsOf[s][j] = c0 /\ obs.cp.sessions[c0] \in Nat
          /\ BaseOf(agg, c0) >= obs.cp.sessions[c0] \/ n0 = obs.cp.sessions[c0]
      BY <1>10, <2>1 DEF CellInHand, c0, n0
    <3>2. BaseOf(agg2, c0) >= obs.cp.sessions[c0]
      BY <1>3, <1>6, <1>7, <1>10, <3>1
    <3>. QED BY <3>1, <3>2 DEF CellInHand
  <2>2. CASE j # i
    <3>1. BaseOf(agg2, CellsOf[s][j]) = BaseOf(agg, CellsOf[s][j])
      BY <1>2, <1>6, <2>2
    <3>. QED BY <1>10, <2>2, <3>1 DEF CellInHand
  <2>. QED BY <2>1, <2>2
<1>11. CellsRead(s, obs, clean, pending \ {i}, agg2, cnt, reset)
  BY <1>1, <1>9, <1>10 DEF CellsRead
<1>. QED BY <1>5, <1>8, <1>11 DEF agg2, Bounded, Grown

(* A snapshot is passed over, and the source is no longer clean. *)
LEMMA CellSkipped ==
    ASSUME NEW s, NEW obs, NEW clean, NEW pending, NEW pending2, pending2 \subseteq pending,
           NEW agg, NEW cnt, NEW reset,
           CellsRead(s, obs, clean, pending, agg, cnt, reset)
    PROVE  CellsRead(s, obs, FALSE, pending2, agg, cnt, reset)
BY DEF CellsRead, SnapOf

(* Where a pass is between two snapshots. *)
LEMMA AtCell ==
    ASSUME CoverInv, NEW p \in Process, pass[p].at \in {"state", "cell"}
    PROVE  LET local == pass[p]
               s     == SourceOrder[local.source]
           IN  /\ DOMAIN local = Fields /\ local.source \in 1 .. Len(SourceOrder)
               /\ s \in Databases /\ local.next \in Nat /\ local.next \in Pending(local)
               /\ CellsRead(s, local.obs, local.clean, Pending(local),
                            aggregate_state, counter, wasReset)
               /\ Later(local) = Pending(local) \ {local.next}
               /\ local.at = "cell" => local.last = aggregate_state[local.obs.snaps[local.next].cell]
               /\ Sound(local, RecordedKeys, aggregate_state, counter, wasReset)
<1> DEFINE local == pass[p]
           s     == SourceOrder[local.source]
<1>1. Sound(local, RecordedKeys, aggregate_state, counter, wasReset)
  BY DEF CoverInv, PassPart
<1>2. /\ DOMAIN local = Fields /\ local.source \in 1 .. Len(SourceOrder)
      /\ local.next \in DOMAIN local.obs.snaps
      /\ local.at = "cell" => local.last = aggregate_state[local.obs.snaps[local.next].cell]
      /\ s \in Logs => LogRead(s, local.obs, RecordedKeys)
      /\ s \in Databases => CellsRead(s, local.obs, local.clean, Pending(local),
                                      aggregate_state, counter, wasReset)
  BY <1>1, Sources DEF Sound, Idle, Fields, InHand
<1>3. s \in Databases
  BY <1>2, Sources DEF LogRead
<1>4. DOMAIN local.obs.snaps \subseteq Nat
  BY <1>2, <1>3, Sources DEF CellsRead
<1>5. local.next \in Pending(local) /\ Later(local) = Pending(local) \ {local.next}
  BY <1>2, <1>4 DEF Pending, Later
<1>. QED BY <1>1, <1>2, <1>3, <1>4, <1>5

LEMMA LoadStateKeeps ==
    ASSUME CoverInv, [Next]_allVars, NEW p \in Process, LoadState(p)
    PROVE  CoverInv'
<1> DEFINE local  == pass[p]
           s      == SourceOrder[local.source]
           loaded == [local EXCEPT !.last = aggregate_state[local.obs.snaps[local.next].cell],
                                   !.at = "cell"]
<1>1. local.at = "state" /\ (Go(p, loaded) \/ Go(p, NextCell(local, FALSE)))
  BY DEF LoadState, LastState, Running
<1>2. /\ DOMAIN local = Fields /\ local.source \in 1 .. Len(SourceOrder)
      /\ s \in Databases /\ local.next \in Nat /\ local.next \in Pending(local)
      /\ CellsRead(s, local.obs, local.clean, Pending(local), aggregate_state, counter, wasReset)
      /\ Later(local) = Pending(local) \ {local.next}
      /\ Sound(local, RecordedKeys, aggregate_state, counter, wasReset)
  BY <1>1, AtCell
<1>3. Sound(loaded, RecordedKeys, aggregate_state, counter, wasReset)
  <2>1. /\ DOMAIN loaded = Fields /\ loaded.at = "cell" /\ loaded.source = local.source
        /\ loaded.obs = local.obs /\ loaded.next = local.next /\ loaded.clean = local.clean
        /\ loaded.last = aggregate_state[local.obs.snaps[local.next].cell]
    BY <1>2 DEF Fields
  <2> HIDE DEF loaded
  <2>2. Pending(loaded) = Pending(local)
    BY <2>1 DEF Pending
  <2>3. InHand(loaded, RecordedKeys, aggregate_state, counter, wasReset)
    BY <1>2, <2>1, <2>2, Sources DEF InHand
  <2>4. local.source \in 0 .. Len(SourceOrder) /\ local.source # 0
        /\ local.next \in DOMAIN local.obs.snaps
    BY <1>2, Sources DEF Pending
  <2>. QED BY <2>1, <2>3, <2>4 DEF Sound, Idle, Fields
<1>4. Sound(NextCell(local, FALSE), RecordedKeys, aggregate_state, counter, wasReset)
  <2>1. CellsRead(s, local.obs, FALSE, Later(local), aggregate_state, counter, wasReset)
    BY <1>2, CellSkipped
  <2>. QED BY <1>2, <2>1, NextCellIsSound
<1>5. \E new : Go(p, new) /\ Sound(new, RecordedKeys, aggregate_state, counter, wasReset)
  BY <1>1, <1>3, <1>4
<1>6. UNCHANGED <<vars, world>>
  BY DEF LoadState
<1>7. /\ LedgerPart' /\ RecordedKeys' = RecordedKeys
      /\ UNCHANGED <<world, aggregate_state, source_checkpoints>>
  BY <1>6, RowsStay DEF vars
<1>8. \A q \in Process \ {p} : Running(q, "idle")
  BY <1>1, OthersIdle DEF Running
<1>. QED BY <1>5, <1>7, <1>8, QuietStep

(* The checkpoint that rides the last snapshot of a clean source. *)
LEMMA LastCheckpoint ==
    ASSUME NEW local, NEW s \in Databases, NEW keys, NEW agg, NEW cnt, NEW reset,
           CellsRead(s, local.obs, local.clean, Later(local), agg, cnt, reset),
           CheckpointFor(local) # None
    PROVE  /\ CheckpointFor(local).source = s
           /\ Marked(s, CheckpointFor(local), keys, agg, reset)
<1>1. CheckpointFor(local) = local.obs.cp /\ Later(local) = {} /\ local.clean = TRUE
  BY DEF CheckpointFor
<1>2. CellsRead(s, local.obs, TRUE, {}, agg, cnt, reset)
  BY <1>1
<1>3. CellsCovered(s, local.obs.cp, agg, reset) /\ local.obs.cp.source = s
  BY <1>1, <1>2, AppliedIsCovered DEF CellsRead
<1>. QED BY <1>1, <1>3, Sources DEF Marked

LEMMA StoreSnapshotKeeps ==
    ASSUME CoverInv, [Next]_allVars, NEW p \in Process, StoreSnapshot(p)
    PROVE  CoverInv'
<1> DEFINE local  == pass[p]
           s      == SourceOrder[local.source]
           snap   == local.obs.snaps[local.next]
           delta  == snapshotDelta(local.last, snap.counter)
           events == IF delta > 0 THEN <<syntheticEvent(snap, delta, local.observedAt)>> ELSE <<>>
           cp     == CheckpointFor(local)
           moved  == Applied(aggregate_state, snap)
<1>1. local.at = "cell" /\ UNCHANGED world
  BY DEF StoreSnapshot, Running
<1>2. /\ DOMAIN local = Fields /\ local.source \in 1 .. Len(SourceOrder)
      /\ s \in Databases /\ local.next \in Nat /\ local.next \in Pending(local)
      /\ CellsRead(s, local.obs, local.clean, Pending(local), aggregate_state, counter, wasReset)
      /\ Later(local) = Pending(local) \ {local.next}
      /\ local.last = aggregate_state[snap.cell]
  BY <1>1, AtCell
<1>3. /\ aggregate_state \in [AccKey -> Nat \cup {None}] /\ counter \in [AccKey -> Nat]
      /\ \A c \in AccKey \ wasReset : BaseOf(aggregate_state, c) <= counter[c]
      /\ DOMAIN source_checkpoints = SourceId
  BY DEF CoverInv, CellPart, MarkPart
<1>4. \A c \in AccKey : BaseOf(aggregate_state, c) <= BaseOf(aggregate_state, c)
  BY <1>3 DEF BaseOf
<1>5. \A q \in Process \ {p} : Running(q, "idle")
  BY <1>1, OthersIdle DEF Running
<1>6. CellsRead(s, local.obs, FALSE, Later(local), aggregate_state, counter, wasReset)
  BY <1>2, CellSkipped
<1>7. /\ moved \in [AccKey -> Nat \cup {None}]
      /\ \A c \in AccKey \ wasReset : /\ BaseOf(aggregate_state, c) <= BaseOf(moved, c)
                                     /\ BaseOf(moved, c) <= counter[c]
      /\ CellsRead(s, local.obs, local.clean, Later(local), moved, counter, wasReset)
  <2>1. Bounded(aggregate_state, counter, wasReset)
    BY <1>3 DEF Bounded
  <2>2. CellsRead(s, local.obs, local.clean, Pending(local), aggregate_state, counter, wasReset)
        /\ local.next \in Pending(local)
    BY <1>2
  <2> HIDE DEF local, s
  <2>3. LET agg2 == Applied(aggregate_state, local.obs.snaps[local.next])
        IN  /\ agg2 \in [AccKey -> Nat \cup {None}]
            /\ Grown(aggregate_state, agg2, wasReset) /\ Bounded(agg2, counter, wasReset)
            /\ CellsRead(s, local.obs, local.clean, Pending(local) \ {local.next},
                         agg2, counter, wasReset)
    BY <1>2, <1>3, <2>1, <2>2, CellApplied
  <2>. QED BY <1>2, <2>3 DEF Bounded, Grown
<1>8. cp # None => cp.source = s /\ Marked(s, cp, RecordedKeys', moved, wasReset)
  BY <1>2, <1>7, LastCheckpoint
<1>9. \/ /\ local.last = snap.counter
         /\ IF cp = None THEN UNCHANGED vars ELSE ApplyBatch(EventBatch(<<>>, cp))
         /\ Go(p, NextCell(local, local.clean))
      \/ /\ local.last # snap.counter
         /\ ApplySnapshot(events, snap.cell, snap.counter, cp)
         /\ Go(p, NextCell(local, local.clean /\ Advanced(events)))
      \/ Go(p, NextCell(local, FALSE)) /\ UNCHANGED vars
  BY DEF StoreSnapshot
<1>10. events = <<>> \/ \E e : "key" \in DOMAIN e /\ events = <<[event |-> e, ok |-> TRUE]>>
  <2>1. \A e : "key" \in DOMAIN e => "key" \in DOMAIN Stamped(e)
    BY StampedKey
  <2>. QED BY <2>1 DEF syntheticEvent
<1>11. snap.cell \in AccKey
  BY <1>2, Sources DEF CellsRead, SnapOf, Pending
<1> HIDE DEF local, s, snap, events, cp, moved
(* Nothing is written. *)
<1>12. ASSUME UNCHANGED vars, NEW clean, Go(p, NextCell(local, clean)),
              CellsRead(s, local.obs, clean, Later(local), aggregate_state, counter, wasReset)
       PROVE  CoverInv'
  <2>1. /\ LedgerPart' /\ RecordedKeys' = RecordedKeys
        /\ UNCHANGED <<aggregate_state, source_checkpoints>>
    BY <1>12, RowsStay DEF vars
  <2>2. Sound(NextCell(local, clean), RecordedKeys, aggregate_state, counter, wasReset)
    BY <1>2, <1>12, NextCellIsSound DEF s
  <2>. QED BY <1>1, <1>5, <1>12, <2>1, <2>2, QuietStep
(* The baseline moves and the checkpoint, if there is one, with it. *)
<1>13. ASSUME LedgerPart', RecordedKeys \subseteq RecordedKeys', aggregate_state' = moved,
              UpsertCheckpoint(cp), NEW clean, clean = TRUE => local.clean = TRUE,
              Go(p, NextCell(local, clean))
       PROVE  CoverInv'
  <2>1. /\ DOMAIN source_checkpoints' = SourceId
        /\ \A t \in Logs \cup Databases :
              \/ source_checkpoints'[t] = source_checkpoints[t]
              \/ Marked(t, source_checkpoints'[t], RecordedKeys', aggregate_state', wasReset)
    BY <1>2, <1>8, <1>13, CheckpointStored
  <2>2. CellsRead(s, local.obs, clean, Later(local), moved, counter, wasReset)
    BY <1>7, <1>13 DEF CellsRead
  <2>3. Sound(NextCell(local, clean), RecordedKeys', moved, counter, wasReset)
    BY <1>2, <2>2, NextCellIsSound DEF s
  <2>. QED BY <1>1, <1>5, <1>7, <1>13, <2>1, <2>3, OnePassStep
<1>14. CASE /\ local.last = snap.counter
            /\ IF cp = None THEN UNCHANGED vars ELSE ApplyBatch(EventBatch(<<>>, cp))
            /\ Go(p, NextCell(local, local.clean))
  <2>1. moved = aggregate_state
    BY <1>2, <1>3, <1>11, <1>14 DEF moved, Applied
  <2>2. CASE cp = None
    BY <1>7, <1>12, <1>14, <2>1, <2>2
  <2>3. CASE cp # None
    <3>1. <<>> \in Seq([event : Event, ok : BOOLEAN])
      BY EmptySeq
    <3>2. /\ LedgerPart' /\ RecordedKeys \subseteq RecordedKeys'
          /\ UpsertCheckpoint(cp) /\ aggregate_state' = aggregate_state
      BY <1>14, <2>3, <3>1, BatchRecords DEF CoverInv
    <3>. QED BY <1>13, <1>14, <2>1, <3>2
  <2>. QED BY <2>2, <2>3
<1>15. CASE /\ local.last # snap.counter
            /\ ApplySnapshot(events, snap.cell, snap.counter, cp)
            /\ Go(p, NextCell(local, local.clean /\ Advanced(events)))
  <2>1. /\ LedgerPart' /\ RecordedKeys \subseteq RecordedKeys'
        /\ IF Advanced(events) THEN upsertState(snap.cell, snap.counter) /\ UpsertCheckpoint(cp)
           ELSE UNCHANGED <<aggregate_state, source_checkpoints>>
    BY <1>10, <1>15, SnapshotRecords DEF CoverInv
  <2>2. CASE Advanced(events)
    <3>1. aggregate_state' = moved
      BY <2>1, <2>2 DEF upsertState, moved, Applied
    <3>2. (local.clean /\ Advanced(events)) = TRUE => local.clean = TRUE
      OBVIOUS
    <3>. QED BY <1>13, <1>15, <2>1, <2>2, <3>1, <3>2
  <2>3. CASE ~Advanced(events)
    <3>1. (local.clean /\ Advanced(events)) = FALSE
      BY <2>3
    <3>2. Go(p, NextCell(local, FALSE))
      BY <1>15, <3>1
    <3>3. Sound(NextCell(local, FALSE), RecordedKeys, aggregate_state, counter, wasReset)
      BY <1>2, <1>6, NextCellIsSound DEF s
    <3>4. Sound(NextCell(local, FALSE), RecordedKeys', aggregate_state, counter, wasReset)
      <4>1. \A c \in AccKey \ wasReset : counter[c] <= counter[c]
        BY <1>3
      <4>. QED BY <1>3, <2>1, <3>3, <4>1, SoundStays
    <3>. QED BY <1>1, <1>5, <2>1, <2>3, <3>2, <3>4, QuietStep
  <2>. QED BY <2>2, <2>3
<1>16. CASE Go(p, NextCell(local, FALSE)) /\ UNCHANGED vars
  BY <1>6, <1>12, <1>16
<1>. QED BY <1>9, <1>14, <1>15, <1>16
-----------------------------------------------------------------------------
(* CoverInv holds of every state of the collector, for any number of          *)
(* processes, sources, cells, failures and crashes.                           *)
THEOREM CollectorInvariant == Spec => []CoverInv
<1>1. Init => CoverInv
  <2> SUFFICES ASSUME Init PROVE CoverInv
    OBVIOUS
  <2>1. LockInv
    BY DEF Init, LockInv, Running, Idle
  <2>2. LedgerPart
    BY DEF Init, LedgerPart, IdsBounded, MaxId
  <2>3. CellPart
    BY DEF Init, CellPart, BaseOf
  <2>4. MarkPart
    <3>1. \A s \in Logs : Len(LogOf[s]) \in Nat
      BY Sources, LenProperties
    <3>2. \A s \in Logs \cup Databases : source_checkpoints[s] = None
      BY Sources DEF Init
    <3>. QED BY <3>1, <3>2 DEF Init, MarkPart
  <2>5. PassPart
    <3>1. /\ DOMAIN Idle = DOMAIN Idle /\ Idle.source = 0 /\ Idle.at = "idle" /\ Idle.next = 0
          /\ Idle.clean = TRUE
      BY DEF Idle
    <3>2. 0 \in 0 .. Len(SourceOrder)
      BY Sources
    <3>3. Sound(Idle, RecordedKeys, aggregate_state, counter, wasReset)
      BY <3>1, <3>2, NothingInHand
    <3>4. \A p \in Process : pass[p] = Idle
      BY DEF Init
    <3>. QED BY <3>3, <3>4 DEF PassPart
  <2>. QED BY <2>1, <2>2, <2>3, <2>4, <2>5 DEF CoverInv
<1>2. ASSUME CoverInv, [Next]_allVars PROVE CoverInv'
  <2>1. ASSUME NEW p \in Process, BeginPass(p) \/ Crash(p) PROVE CoverInv'
    BY <1>2, <2>1, BeginAndCrashKeep
  <2>2. ASSUME NEW p \in Process, Step(p) PROVE CoverInv'
    <3>1. CASE CheckRollup(p) \/ CheckCounts(p) \/ SyncPrices(p) \/ NextSource(p) \/ StatDatabase(p)
      BY <1>2, <3>1, QuietStepsKeep
    <3>2. CASE ReadSource(p)
      BY <1>2, <3>2, ReadSourceKeeps
    <3>3. CASE StoreObservation(p)
      BY <1>2, <3>3, StoreObservationKeeps
    <3>4. CASE LoadState(p)
      BY <1>2, <3>4, LoadStateKeeps
    <3>5. CASE StoreSnapshot(p)
      BY <1>2, <3>5, StoreSnapshotKeeps
    <3>. QED BY <2>2, <3>1, <3>2, <3>3, <3>4, <3>5 DEF Step
  <2>3. CASE \/ \E s \in Logs : AppendRecord(s)
             \/ \E s \in Databases, c \in AccKey : Count(s, c) \/ Reset(s, c)
    BY <1>2, <2>3, AgentsKeep
  <2>4. CASE UNCHANGED allVars
    <3>1. UNCHANGED <<vars, pass, written, counter, wasReset>>
      BY <2>4 DEF allVars, world, collecting
    <3>2. /\ written \in [Logs -> Nat] /\ \A s \in Logs : written[s] <= Len(LogOf[s])
          /\ counter \in [AccKey -> Nat]
      BY <1>2 DEF CoverInv, MarkPart, CellPart
    <3>3. \A c \in AccKey \ wasReset' : counter[c] <= counter'[c]
      BY <3>1, <3>2
    <3>. QED BY <1>2, <3>1, <3>2, <3>3, WorldStep
  <2>. QED BY <1>2, <2>1, <2>2, <2>3, <2>4 DEF Next
<1>. QED BY <1>1, <1>2, PTL DEF Spec

(* A checkpoint never covers what was not stored, whatever fails, dies, is    *)
(* cut short or collides, for any logs, databases, cells and processes.       *)
THEOREM CheckpointNeverSkipsHolds == Spec => []CheckpointNeverSkips
<1>1. CoverInv => CheckpointNeverSkips
  BY DEF CoverInv, MarkPart, Marked, LogCovered, CellsCovered, CheckpointNeverSkips, BaseOf, Baseline
<1>. QED BY <1>1, CollectorInvariant, PTL
-----------------------------------------------------------------------------
(* Usage is never counted twice.  What the ledger holds for a cell and what   *)
(* the next delta would add never exceed what was used; and while a pass      *)
(* holds a snapshot it has still to apply, the same is true of the delta it   *)
(* is about to write and of the one that will follow it.                      *)

(* Rows that can be added up. *)
Tallied(row) == {"key", "tokens"} \subseteq DOMAIN row /\ row.tokens \in Nat
RowPart == \A id \in DOMAIN usage_events : Tallied(usage_events[id])

(* What the ledger holds, cell by cell. *)
Tally == [c \in AccKey |-> Recorded(c)]

(* Rows of adapters: no delta event has the key of one. *)
Own(events) == \A i \in DOMAIN events : events[i].event.key \notin AccKey \X Instant

(* Snapshot n of c can be applied and the counter read again. *)
Affordable(c, n, tally, agg, cnt, use) ==
    tally[c] + fieldDelta(BaseOf(agg, c), n) + fieldDelta(n, cnt[c]) <= use[c]

(* What a pass carries adds up. *)
Harmless(local, tally, agg, cnt, use) ==
    local.at \in {"store", "state", "cell"} =>
        /\ local.at = "store" => Own(local.obs.events)
        /\ \A i \in Pending(local) :
              Affordable(local.obs.snaps[i].cell, local.obs.snaps[i].counter, tally, agg, cnt, use)

UsedPart ==
    /\ used \in [AccKey -> Nat]
    /\ \A c \in AccKey :
          Tally[c] + fieldDelta(BaseOf(aggregate_state, c), counter[c]) <= used[c]

CountInv ==
    /\ RowPart /\ UsedPart
    /\ \A p \in Process : Harmless(pass[p], Tally, aggregate_state, counter, used)

(* The rows of a cell and what they add up to. *)
DeltaRows(rows, c) == {id \in DOMAIN rows : rows[id].key \in {c} \X Instant}
TokensFor(rows, c) == SumFunctionOnSet([id \in DOMAIN rows |-> rows[id].tokens], DeltaRows(rows, c))

LEMMA TallyIsSum ==
    /\ \A c \in AccKey : Tally[c] = TokensFor(usage_events, c)
    /\ \A c \in AccKey : Tally'[c] = TokensFor(usage_events', c)
    /\ Tally = [c \in AccKey |-> Tally[c]] /\ Tally' = [c \in AccKey |-> Tally'[c]]
BY DEF Tally, Recorded, TokensFor, DeltaRows

LEMMA RowsAreFinite ==
    ASSUME NEW rows, IdsBounded(rows)
    PROVE  IsFiniteSet(DOMAIN rows)
<1>1. IsFiniteSet(1 .. MaxId(rows))
  BY FS_Interval DEF IdsBounded
<1>. QED BY <1>1, FS_Subset DEF IdsBounded

(* Rows under other keys, and changes of other columns, leave the sum.        *)
LEMMA OtherRowsDoNotCount ==
    ASSUME NEW rows, NEW more, IsFiniteSet(DOMAIN rows), DOMAIN rows \subseteq DOMAIN more, NEW c,
           \A id \in DOMAIN rows : more[id].key = rows[id].key /\ more[id].tokens = rows[id].tokens,
           \A id \in DOMAIN more \ DOMAIN rows : more[id].key \notin {c} \X Instant
    PROVE  TokensFor(more, c) = TokensFor(rows, c)
<1> DEFINE S == DeltaRows(rows, c)
           f == [id \in DOMAIN more |-> more[id].tokens]
           g == [id \in DOMAIN rows |-> rows[id].tokens]
<1>1. DeltaRows(more, c) = S /\ S \subseteq DOMAIN rows
  BY DEF DeltaRows
<1>2. IsFiniteSet(S)
  BY <1>1, FS_Subset
<1>3. \A id \in S : f[id] = g[id]
  BY <1>1
<1>4. TokensFor(more, c) = SumFunctionOnSet(f, S) /\ TokensFor(rows, c) = SumFunctionOnSet(g, S)
  BY <1>1 DEF TokensFor
<1> HIDE DEF S, f, g
<1>. QED BY <1>2, <1>3, <1>4, SumAgrees

(* One more row adds its tokens at most.                                      *)
LEMMA OneRowCounts ==
    ASSUME NEW rows, NEW more, NEW x, IsFiniteSet(DOMAIN rows), x \notin DOMAIN rows,
           DOMAIN more = DOMAIN rows \cup {x}, NEW c,
           \A id \in DOMAIN rows : more[id].key = rows[id].key /\ more[id].tokens = rows[id].tokens,
           \A id \in DOMAIN more : more[id].tokens \in Nat
    PROVE  TokensFor(more, c) <= TokensFor(rows, c) + more[x].tokens
<1> DEFINE S == DeltaRows(rows, c)
           T == DeltaRows(more, c)
           f == [id \in DOMAIN more |-> more[id].tokens]
           g == [id \in DOMAIN rows |-> rows[id].tokens]
<1>1. S \subseteq DOMAIN rows /\ T \subseteq DOMAIN more /\ S = T \ {x}
  BY DEF DeltaRows
<1>2. IsFiniteSet(S) /\ IsFiniteSet(T)
  BY <1>1, FS_Subset, FS_AddElement
<1>3. /\ \A id \in S : f[id] = g[id]
      /\ \A id \in T : f[id] \in Nat
      /\ f[x] = more[x].tokens /\ f[x] \in Nat
  BY <1>1
<1>4. TokensFor(more, c) = SumFunctionOnSet(f, T) /\ TokensFor(rows, c) = SumFunctionOnSet(g, S)
  BY DEF TokensFor
<1> HIDE DEF S, T, f, g
<1>5. SumFunctionOnSet(f, S) = SumFunctionOnSet(g, S)
  BY <1>2, <1>3, SumAgrees
<1>6. SumFunctionOnSet(f, T) \in Nat /\ SumFunctionOnSet(f, S) \in Nat
  <2>1. \A id \in S : f[id] \in Nat
    BY <1>1, <1>3
  <2>. QED BY <1>2, <1>3, <2>1, SumIsNat
<1>7. CASE x \in T
  <2>1. SumFunctionOnSet(f, T) = f[x] + SumFunctionOnSet(f, T \ {x})
    <3>1. \A id \in T : f[id] \in Int
      BY <1>3
    <3>. QED BY <1>2, <1>7, <3>1, SumRemove
  <2>. QED BY <1>1, <1>3, <1>4, <1>5, <1>6, <2>1
<1>8. CASE x \notin T
  <2>1. S = T
    BY <1>1, <1>8
  <2>. QED BY <1>3, <1>4, <1>5, <1>6, <2>1
<1>. QED BY <1>7, <1>8

LEMMA TallyIsNat ==
    ASSUME LedgerPart, RowPart, NEW c \in AccKey
    PROVE  Tally[c] \in Nat
<1> DEFINE f == [id \in DOMAIN usage_events |-> usage_events[id].tokens]
           S == DeltaRows(usage_events, c)
<1>1. IsFiniteSet(S)
  BY RowsAreFinite, FS_Subset DEF LedgerPart, DeltaRows
<1>2. \A id \in S : f[id] \in Nat
  BY DEF DeltaRows, RowPart, Tallied
<1>3. Tally[c] = SumFunctionOnSet(f, S)
  BY TallyIsSum DEF TokensFor
<1> HIDE DEF f, S
<1>. QED BY <1>1, <1>2, <1>3, SumIsNat

(* The growth between two readings is what the second one adds.               *)
LEMMA DeltasAreGrowth ==
    ASSUME NEW b \in Nat, NEW n \in Nat
    PROVE  /\ fieldDelta(b, n) \in Nat /\ fieldDelta(n, n) = 0 /\ fieldDelta(b, 0) = 0
           /\ fieldDelta(b, n + 1) <= fieldDelta(b, n) + 1
           /\ fieldDelta(0, n) = n
BY DEF fieldDelta
-----------------------------------------------------------------------------
(* Writes that leave the tally *)

LEMMA TallyStays ==
    ASSUME CoverInv, CountInv, DOMAIN usage_events \subseteq DOMAIN usage_events',
           \A id \in DOMAIN usage_events :
              /\ usage_events'[id].key = usage_events[id].key
              /\ usage_events'[id].tokens = usage_events[id].tokens,
           \A id \in DOMAIN usage_events' \ DOMAIN usage_events :
              usage_events'[id].key \notin AccKey \X Instant
    PROVE  Tally' = Tally
<1>1. IsFiniteSet(DOMAIN usage_events)
  BY RowsAreFinite DEF CoverInv, LedgerPart
<1>2. ASSUME NEW c \in AccKey PROVE TokensFor(usage_events', c) = TokensFor(usage_events, c)
  <2>1. \A id \in DOMAIN usage_events' \ DOMAIN usage_events :
            usage_events'[id].key \notin {c} \X Instant
    OBVIOUS
  <2>. QED BY <1>1, <2>1, OtherRowsDoNotCount
<1>. QED BY <1>2, TallyIsSum

LEMMA SameRowsSameTally ==
    ASSUME CountInv, UNCHANGED usage_events
    PROVE  RowPart' /\ Tally' = Tally
BY DEF CountInv, RowPart, Tally, Recorded

(* Pricing changes neither key nor tokens. *)
LEMMA SyncKeepsTally ==
    ASSUME CoverInv, CountInv, NEW rev, SyncUnpriced(rev)
    PROVE  RowPart' /\ Tally' = Tally
<1>1. DOMAIN usage_events' = DOMAIN usage_events
  BY DEF SyncUnpriced
<1>2. ASSUME NEW id \in DOMAIN usage_events
      PROVE  /\ Tallied(usage_events'[id]) /\ usage_events'[id].key = usage_events[id].key
             /\ usage_events'[id].tokens = usage_events[id].tokens
  BY DEF SyncUnpriced, CountInv, RowPart, Tallied
<1>3. Tally' = Tally
  BY <1>1, <1>2, TallyStays
<1>. QED BY <1>1, <1>2, <1>3 DEF RowPart

LEMMA InsertKeepsTallied ==
    ASSUME CoverInv, CountInv, NEW events, NEW n \in Nat, DOMAIN events = 1 .. n,
           \A i \in DOMAIN events : Tallied(events[i].event), InsertEvents(events)
    PROVE  /\ RowPart' /\ DOMAIN usage_events \subseteq DOMAIN usage_events'
           /\ \A id \in DOMAIN usage_events : usage_events'[id] = usage_events[id]
           /\ \A id \in DOMAIN usage_events' \ DOMAIN usage_events :
                 \E i \in Fresh(events) :
                     id = MaxId(usage_events) + i /\ usage_events'[id] = events[i].event
<1>1. /\ DOMAIN usage_events \subseteq DOMAIN usage_events'
      /\ \A id \in DOMAIN usage_events : usage_events'[id] = usage_events[id]
      /\ \A id \in DOMAIN usage_events' \ DOMAIN usage_events :
            \E i \in Fresh(events) :
                id = MaxId(usage_events) + i /\ usage_events'[id] = events[i].event
  BY InsertedRows DEF CoverInv, LedgerPart
<1>2. \A id \in DOMAIN usage_events' : Tallied(usage_events'[id])
  BY <1>1 DEF CountInv, RowPart, Fresh
<1>. QED BY <1>1, <1>2 DEF RowPart

LEMMA StampedTallied ==
    ASSUME NEW event, Tallied(event)
    PROVE  /\ Tallied(Stamped(event)) /\ Stamped(event).key = event.key
           /\ Stamped(event).tokens = event.tokens
BY DEF Stamped, Tallied

(* The rows of adapters. *)
LEMMA BatchKeepsTally ==
    ASSUME CoverInv, CountInv, NEW events \in Seq([event : Event, ok : BOOLEAN]), Own(events),
           NEW cp, ApplyBatch(EventBatch(events, cp))
    PROVE  RowPart' /\ Tally' = Tally
<1> DEFINE rows == EventBatch(events, cp).events
<1>1. InsertEvents(rows)
  BY DEF ApplyBatch, EventBatch
<1>2. rows = [i \in DOMAIN events |-> [events[i] EXCEPT !.event = Stamped(@)]]
  BY DEF EventBatch
<1>3. DOMAIN rows = 1 .. Len(events) /\ Len(events) \in Nat /\ DOMAIN rows = DOMAIN events
  BY <1>2
<1>4. ASSUME NEW i \in DOMAIN events
      PROVE  Tallied(rows[i].event) /\ rows[i].event.key \notin AccKey \X Instant
  <2>1. events[i] \in [event : Event, ok : BOOLEAN]
    BY <1>3, ElementOfSeq
  <2>2. rows[i] = [events[i] EXCEPT !.event = Stamped(events[i].event)]
    BY <1>2
  <2>3. rows[i].event = Stamped(events[i].event)
    BY <2>1, <2>2
  <2>4. Tallied(events[i].event)
    BY <2>1 DEF Event, Tallied
  <2>. QED BY <2>3, <2>4, StampedTallied DEF Own
<1> HIDE DEF rows
<1>5. /\ RowPart' /\ DOMAIN usage_events \subseteq DOMAIN usage_events'
      /\ \A id \in DOMAIN usage_events : usage_events'[id] = usage_events[id]
      /\ \A id \in DOMAIN usage_events' \ DOMAIN usage_events :
            \E i \in Fresh(rows) : usage_events'[id] = rows[i].event
  BY <1>1, <1>3, <1>4, InsertKeepsTallied
<1>6. \A id \in DOMAIN usage_events' \ DOMAIN usage_events :
          usage_events'[id].key \notin AccKey \X Instant
  BY <1>3, <1>4, <1>5 DEF Fresh
<1>. QED BY <1>5, <1>6, TallyStays
-----------------------------------------------------------------------------
(* The steps *)

(* A step of p's pass. *)
LEMMA CountedStep ==
    ASSUME CoverInv, CountInv, NEW p \in Process, NEW new, Go(p, new),
           \A q \in Process \ {p} : Running(q, "idle"),
           RowPart', UNCHANGED world,
           \A c \in AccKey :
              Tally'[c] + fieldDelta(BaseOf(aggregate_state', c), counter[c]) <= used[c],
           Harmless(new, Tally', aggregate_state', counter, used)
    PROVE  CountInv'
<1>1. UNCHANGED <<counter, used>>
  BY DEF world
<1>2. UsedPart'
  BY <1>1 DEF CountInv, UsedPart
<1>3. DOMAIN pass = Process /\ pass' = [pass EXCEPT ![p] = new]
  BY DEF CoverInv, LockInv, Go
<1>4. ASSUME NEW q \in Process
      PROVE  Harmless(pass'[q], Tally', aggregate_state', counter, used)
  <2>1. CASE q = p
    BY <1>3, <2>1
  <2>2. CASE q # p
    <3>1. pass'[q].at = "idle"
      BY <1>3, <2>2 DEF Running
    <3>. QED BY <3>1 DEF Harmless
  <2>. QED BY <2>1, <2>2
<1>. QED BY <1>1, <1>2, <1>4 DEF CountInv

(* A step that changes neither the tally nor a baseline. *)
LEMMA QuietCount ==
    ASSUME CoverInv, CountInv, NEW p \in Process, NEW new, Go(p, new),
           \A q \in Process \ {p} : Running(q, "idle"),
           RowPart', Tally' = Tally, UNCHANGED <<world, aggregate_state>>,
           Harmless(new, Tally, aggregate_state, counter, used)
    PROVE  CountInv'
<1>1. aggregate_state' = aggregate_state /\ UNCHANGED world
  OBVIOUS
<1>2. \A c \in AccKey :
          Tally'[c] + fieldDelta(BaseOf(aggregate_state', c), counter[c]) <= used[c]
  BY <1>1 DEF CountInv, UsedPart
<1>3. Harmless(new, Tally', aggregate_state', counter, used)
  BY <1>1
<1>. QED BY <1>1, <1>2, <1>3, CountedStep

(* What a pass holds of a cell is typed. *)
LEMMA InHandTyped ==
    ASSUME CoverInv, NEW p \in Process, pass[p].at \in {"store", "state", "cell"},
           NEW i \in Pending(pass[p])
    PROVE  pass[p].obs.snaps[i].cell \in AccKey /\ pass[p].obs.snaps[i].counter \in Nat
<1> DEFINE local == pass[p]
           s == SourceOrder[local.source]
<1>1. Sound(local, RecordedKeys, aggregate_state, counter, wasReset)
  BY DEF CoverInv, PassPart
<1>2. i \in DOMAIN local.obs.snaps
  BY DEF Pending
<1>3. s \in Logs \cup Databases /\ InHand(local, RecordedKeys, aggregate_state, counter, wasReset)
  BY <1>1, Sources DEF Sound
<1>4. s \in Databases
  BY <1>2, <1>3 DEF InHand, LogRead
<1>5. /\ SnapOf(s, local.obs, i, Pending(local), aggregate_state, counter, wasReset)
      /\ i \in DOMAIN CellsOf[s]
  BY <1>2, <1>3, <1>4 DEF InHand, CellsRead
<1>. QED BY <1>4, <1>5, Sources DEF SnapOf

(* Agents count what they use, and a counter that starts again owes nothing. *)
LEMMA AgentsKeepCount ==
    ASSUME CoverInv, CountInv,
           \/ \E s \in Logs : AppendRecord(s)
           \/ \E s \in Databases, c \in AccKey : Count(s, c) \/ Reset(s, c)
           \/ UNCHANGED allVars
    PROVE  CountInv'
<1>1. /\ counter \in [AccKey -> Nat] /\ aggregate_state \in [AccKey -> Nat \cup {None}]
      /\ used \in [AccKey -> Nat]
  BY DEF CoverInv, CellPart, CountInv, UsedPart
<1>2. UNCHANGED <<vars, pass>>
  BY DEF AppendRecord, Count, Reset, collecting, allVars
<1>3. RowPart' /\ Tally' = Tally /\ aggregate_state' = aggregate_state /\ pass' = pass
  BY <1>2, SameRowsSameTally DEF vars
<1>4. \A c \in AccKey : Tally[c] \in Nat /\ BaseOf(aggregate_state, c) \in Nat
  BY <1>1, TallyIsNat DEF CoverInv, CountInv, BaseOf
<1>5. /\ counter' \in [AccKey -> Nat] /\ used' \in [AccKey -> Nat]
      /\ \A d \in AccKey : \/ counter'[d] = counter[d] /\ used'[d] = used[d]
                           \/ counter'[d] = counter[d] + 1 /\ used'[d] = used[d] + 1
                           \/ counter'[d] = 0 /\ used'[d] = used[d]
  <2>1. ASSUME NEW c \in AccKey, NEW s \in Databases, Count(s, c)
        PROVE  /\ counter' = [counter EXCEPT ![c] = counter[c] + 1]
               /\ used' = [used EXCEPT ![c] = used[c] + 1]
    BY <2>1 DEF Count
  <2>2. ASSUME NEW c \in AccKey, NEW s \in Databases, Reset(s, c)
        PROVE  counter' = [counter EXCEPT ![c] = 0] /\ used' = used
    BY <2>2 DEF Reset
  <2>3. ASSUME NEW s \in Logs, AppendRecord(s) PROVE UNCHANGED <<counter, used>>
    BY <2>3 DEF AppendRecord
  <2>4. UNCHANGED allVars => UNCHANGED <<counter, used>>
    BY DEF allVars, world
  <2>. QED BY <1>1, <2>1, <2>2, <2>3, <2>4
<1>6. ASSUME NEW d \in AccKey, NEW b \in Nat
      PROVE  /\ fieldDelta(b, counter[d]) \in Nat /\ fieldDelta(b, counter'[d]) \in Nat
             /\ used[d] \in Nat /\ used'[d] \in Nat
             /\ fieldDelta(b, counter'[d]) - used'[d] <= fieldDelta(b, counter[d]) - used[d]
  <2>1. counter[d] \in Nat /\ counter'[d] \in Nat /\ used[d] \in Nat /\ used'[d] \in Nat
    BY <1>1, <1>5
  <2>. QED BY <1>5, <2>1 DEF fieldDelta
<1>7. ASSUME NEW c \in AccKey
      PROVE  Tally[c] + fieldDelta(BaseOf(aggregate_state, c), counter'[c]) <= used'[c]
  <2>1. Tally[c] + fieldDelta(BaseOf(aggregate_state, c), counter[c]) <= used[c]
    BY DEF CountInv, UsedPart
  <2> DEFINE t == Tally[c]
             b == BaseOf(aggregate_state, c)
  <2>2. t \in Nat /\ b \in Nat
    BY <1>4
  <2> HIDE DEF t, b
  <2>. QED BY <1>6, <2>1, <2>2 DEF t, b
<1>8. ASSUME NEW p \in Process
      PROVE  Harmless(pass[p], Tally, aggregate_state, counter', used')
  <2> DEFINE local == pass[p]
  <2>1. SUFFICES ASSUME local.at \in {"store", "state", "cell"}, NEW i \in Pending(local)
                 PROVE  Affordable(local.obs.snaps[i].cell, local.obs.snaps[i].counter,
                                   Tally, aggregate_state, counter', used')
    BY DEF CountInv, Harmless
  <2> DEFINE c == local.obs.snaps[i].cell
             n == local.obs.snaps[i].counter
  <2>2. c \in AccKey /\ n \in Nat
    BY <2>1, InHandTyped
  <2>3. Tally[c] + fieldDelta(BaseOf(aggregate_state, c), n) + fieldDelta(n, counter[c]) <= used[c]
    BY <2>1 DEF CountInv, Harmless, Affordable
  <2>4. Tally[c] \in Nat /\ fieldDelta(BaseOf(aggregate_state, c), n) \in Nat
    BY <1>4, <2>2, DeltasAreGrowth
  <2> DEFINE t == Tally[c]
             d == fieldDelta(BaseOf(aggregate_state, c), n)
  <2> HIDE DEF c, n, t, d
  <2>5. t + d + fieldDelta(n, counter'[c]) <= used'[c]
    <3>1. t \in Nat /\ d \in Nat /\ t + d + fieldDelta(n, counter[c]) <= used[c]
      BY <2>3, <2>4 DEF t, d
    <3>. QED BY <1>6, <2>2, <3>1
  <2>. QED BY <2>5 DEF Affordable, c, n, t, d
<1>. QED BY <1>3, <1>5, <1>7, <1>8 DEF CountInv, UsedPart
-----------------------------------------------------------------------------
(* A pass outside its sources *)

LEMMA BeginAndCrashCount ==
    ASSUME CoverInv, CountInv, NEW p \in Process, BeginPass(p) \/ Crash(p)
    PROVE  CountInv'
<1>1. PICK new : Go(p, new) /\ new.at \in {"idle", "rollup"}
  <2>1. /\ Idle.at = "idle" /\ \A t : [Idle EXCEPT !.at = "rollup", !.observedAt = t].at = "rollup"
    BY DEF Idle
  <2>. QED BY <2>1 DEF BeginPass, Crash
<1>2. \A q \in Process \ {p} : Running(q, "idle")
  <2>1. CASE BeginPass(p)
    BY <2>1, StoreAssumption, CollectorAssumption DEF BeginPass, MayCollect, CoverInv, LockInv
  <2>2. CASE Crash(p)
    <3>1. CASE ~Running(p, "idle")
      BY <3>1, OthersIdle
    <3>2. CASE holder = p
      BY <3>2 DEF CoverInv, LockInv
    <3>. QED BY <2>2, <3>1, <3>2 DEF Crash
  <2>. QED BY <2>1, <2>2
<1>3. UNCHANGED <<vars, world>>
  BY DEF BeginPass, Crash
<1>4. RowPart' /\ Tally' = Tally /\ UNCHANGED <<world, aggregate_state>>
  BY <1>3, SameRowsSameTally DEF vars
<1>5. Harmless(new, Tally, aggregate_state, counter, used)
  BY <1>1 DEF Harmless
<1>. QED BY <1>1, <1>2, <1>4, <1>5, QuietCount

LEMMA QuietStepsCount ==
    ASSUME CoverInv, CountInv, NEW p \in Process,
           CheckRollup(p) \/ CheckCounts(p) \/ SyncPrices(p) \/ NextSource(p) \/ StatDatabase(p)
    PROVE  CountInv'
<1> DEFINE Plain(new) == Go(p, new) /\ new.at \notin {"store", "state", "cell"}
<1>1. ~Running(p, "idle")
  BY DEF CheckRollup, CheckCounts, SyncPrices, NextSource, StatDatabase, Running
<1>2. DOMAIN pass[p] = DOMAIN Idle /\ DOMAIN Idle = Fields
  BY DEF CoverInv, PassPart, Sound, Idle, Fields
<1>3. UNCHANGED world /\ (UNCHANGED vars \/ EnsureRollup \/ \E rev : SyncUnpriced(rev))
  BY DEF CheckRollup, CheckCounts, SyncPrices, NextSource, StatDatabase, EnsureRollup
<1>4. \E new : Plain(new)
  <2>1. Go(p, Idle) => Plain(Idle)
    BY DEF Idle
  <2>2. CASE CheckRollup(p) \/ CheckCounts(p)
    <3>1. PICK stage \in {"counts", "prices"} : Go(p, [pass[p] EXCEPT !.at = stage])
      BY <2>2 DEF CheckRollup, CheckCounts, GoTo
    <3>2. Plain([pass[p] EXCEPT !.at = stage])
      BY <1>2, <3>1 DEF Fields
    <3>. QED BY <3>2
  <2>3. CASE SyncPrices(p)
    <3>1. Go(p, [pass[p] EXCEPT !.at = "sources"]) \/ Go(p, Idle)
      BY <2>3 DEF SyncPrices, GoTo, EndPass
    <3>2. Go(p, [pass[p] EXCEPT !.at = "sources"]) => Plain([pass[p] EXCEPT !.at = "sources"])
      BY <1>2 DEF Fields
    <3>. QED BY <2>1, <3>1, <3>2
  <2>4. CASE NextSource(p)
    <3> DEFINE at == pass[p].source + 1
               on == [pass[p] EXCEPT !.source = at, !.at =
                        IF SourceOrder[at] \in Logs THEN "read" ELSE "stamp"]
               by == [pass[p] EXCEPT !.source = at]
    <3>1. pass[p].at = "sources" /\ (Go(p, on) \/ Go(p, by) \/ Go(p, Idle))
      BY <2>4 DEF NextSource, EndPass, Running
    <3>2. on.at \in {"read", "stamp"} /\ by.at = "sources"
      BY <1>2, <3>1 DEF Fields
    <3> HIDE DEF on, by
    <3>. QED BY <2>1, <3>1, <3>2
  <2>5. CASE StatDatabase(p)
    <3>1. Plain([pass[p] EXCEPT !.gate = stamp[Source(p)], !.at = "read"])
      BY <1>2, <2>5 DEF StatDatabase, Fields
    <3>. QED BY <3>1
  <2>. QED BY <2>2, <2>3, <2>4, <2>5
<1>5. PICK new : Plain(new)
  BY <1>4
<1>6. RowPart' /\ Tally' = Tally /\ UNCHANGED aggregate_state
  <2>1. CASE UNCHANGED vars
    BY <2>1, SameRowsSameTally DEF vars
  <2>2. CASE EnsureRollup
    BY <2>2, SameRowsSameTally DEF EnsureRollup, EnsureUsageRollup, EnsureActivityCounts
  <2>3. CASE \E rev : SyncUnpriced(rev)
    BY <2>3, SyncKeepsTally DEF SyncUnpriced
  <2>. QED BY <1>3, <2>1, <2>2, <2>3
<1>7. Harmless(new, Tally, aggregate_state, counter, used)
  BY <1>5 DEF Harmless
<1>8. \A q \in Process \ {p} : Running(q, "idle")
  BY <1>1, OthersIdle
<1>. QED BY <1>3, <1>5, <1>6, <1>7, <1>8, QuietCount
-----------------------------------------------------------------------------
(* A pass at a source *)

(* What has just been read of a cell can be applied.                          *)
LEMMA CurrentIsAffordable ==
    ASSUME CoverInv, CountInv, NEW c \in AccKey
    PROVE  Affordable(c, counter[c], Tally, aggregate_state, counter, used)
<1> DEFINE b == BaseOf(aggregate_state, c)
           t == Tally[c]
<1>1. /\ t \in Nat /\ b \in Nat /\ counter[c] \in Nat /\ used[c] \in Nat
      /\ t + fieldDelta(b, counter[c]) <= used[c]
  BY TallyIsNat DEF CoverInv, CellPart, CountInv, UsedPart, BaseOf
<1> HIDE DEF b, t
<1>2. fieldDelta(b, counter[c]) \in Nat /\ fieldDelta(counter[c], counter[c]) = 0
  BY <1>1, DeltasAreGrowth
<1>3. t + fieldDelta(b, counter[c]) + fieldDelta(counter[c], counter[c]) <= used[c]
  BY <1>1, <1>2
<1>. QED BY <1>3 DEF Affordable, b, t

(* What a read returns: rows of adapters, and snapshots of the counters.      *)
Faithful(o) ==
    /\ Own(o.events)
    /\ \A i \in DOMAIN o.snaps : /\ o.snaps[i].cell \in AccKey
                                 /\ o.snaps[i].counter = counter[o.snaps[i].cell]

LEMMA LogIsFaithful ==
    ASSUME CoverInv, NEW s \in Logs
    PROVE  Faithful(ReadLog(s))
<1> DEFINE cp   == source_checkpoints[s]
           from == IF cp = None THEN 0 ELSE cp.offset
           tail == SubSeq(LogOf[s], from + 1, written[s])
<1>1. Faithful(NoObservation)
  BY DEF Faithful, Own, NoObservation
<1>2. /\ written[s] \in Nat /\ written[s] <= Len(LogOf[s])
      /\ LogOf[s] \in Seq([event : Event, ok : BOOLEAN]) /\ Len(LogOf[s]) \in Nat
      /\ DOMAIN LogOf[s] = 1 .. Len(LogOf[s])
  BY Sources, LenProperties DEF CoverInv, MarkPart
<1>3. from \in Nat
  BY DEF CoverInv, MarkPart, Marked, LogCovered
<1> HIDE DEF from
<1>4. /\ DOMAIN tail = 1 .. Len(tail)
      /\ Len(tail) = IF from + 1 <= written[s] THEN written[s] - from ELSE 0
      /\ \A k \in 1 .. written[s] - from : tail[k] = LogOf[s][from + k]
  <2>1. from + 1 \in Int /\ written[s] \in Int
    BY <1>2, <1>3
  <2>2. \A i \in from + 1 .. written[s] : LogOf[s][i] \in [event : Event, ok : BOOLEAN]
    <3>1. \A i \in from + 1 .. written[s] : i \in 1 .. Len(LogOf[s])
      BY <1>2, <1>3
    <3>. QED BY <1>2, <3>1, ElementOfSeq
  <2>3. /\ tail \in Seq([event : Event, ok : BOOLEAN])
        /\ Len(tail) = IF from + 1 <= written[s] THEN written[s] - (from + 1) + 1 ELSE 0
        /\ \A k \in 1 .. written[s] - (from + 1) + 1 : tail[k] = LogOf[s][(from + 1) + k - 1]
    BY <2>1, <2>2, SubSeqProperties
  <2> HIDE DEF tail
  <2>4. DOMAIN tail = 1 .. Len(tail)
    BY <2>3, LenProperties
  <2>. QED BY <1>2, <1>3, <2>3, <2>4
<1> HIDE DEF tail
<1>5. \A i \in DOMAIN LogOf[s] : LogOf[s][i].event.key \notin AccKey \X Instant
  BY CollectorAssumption
<1>6. Own(tail)
  <2>1. ASSUME NEW k \in DOMAIN tail PROVE tail[k].event.key \notin AccKey \X Instant
    <3>1. tail[k] = LogOf[s][from + k] /\ from + k \in DOMAIN LogOf[s]
      BY <1>2, <1>3, <1>4
    <3>. QED BY <1>5, <3>1
  <2>. QED BY <2>1 DEF Own
<1>7. Faithful([events |-> tail, snaps |-> <<>>, cp |-> [source |-> s, offset |-> written[s]]])
  BY <1>6 DEF Faithful
<1>8. ReadLog(s) \in {NoObservation, [events |-> tail, snaps |-> <<>>,
                                     cp |-> [source |-> s, offset |-> written[s]]]}
  BY DEF ReadLog, tail, from
<1>. QED BY <1>1, <1>7, <1>8

LEMMA DatabaseIsFaithful ==
    ASSUME NEW s \in Databases, NEW gate
    PROVE  Faithful(ReadDatabase(s, gate))
<1> DEFINE cp == source_checkpoints[s]
           Changed(c) == cp = None \/ cp.sessions[c] # counter[c]
           changed == {i \in DOMAIN CellsOf[s] : Changed(CellsOf[s][i])}
           obs == [events |-> <<>>, snaps |-> [i \in changed |-> Snapshot(CellsOf[s][i])],
                   cp     |-> [source |-> s, stamp |-> gate,
                               sessions |-> [c \in ToSet(CellsOf[s]) |-> counter[c]]]]
<1>1. ReadDatabase(s, gate) \in {NoObservation, obs}
  BY DEF ReadDatabase
<1>2. Faithful(NoObservation)
  BY DEF Faithful, Own, NoObservation
<1>3. /\ obs.events = <<>> /\ DOMAIN obs.snaps = changed
      /\ \A i \in changed : /\ obs.snaps[i].cell = CellsOf[s][i]
                            /\ obs.snaps[i].counter = counter[CellsOf[s][i]]
  BY DEF Snapshot
<1>4. \A i \in changed : CellsOf[s][i] \in AccKey
  BY Sources
<1> HIDE DEF changed, obs
<1>5. Faithful(obs)
  BY <1>3, <1>4 DEF Faithful, Own
<1>. QED BY <1>1, <1>2, <1>5

LEMMA PartIsFaithful ==
    ASSUME NEW obs, NEW n, n \in 0 .. Len(obs.events), NEW kept \in SUBSET DOMAIN obs.snaps,
           Faithful(obs), NEW E,
           obs.events \in Seq(E)
    PROVE  Faithful(Partial(obs, n, kept))
<1>1. /\ Partial(obs, n, kept).events = SubSeq(obs.events, 1, n)
      /\ DOMAIN Partial(obs, n, kept).snaps \subseteq DOMAIN obs.snaps
      /\ \A i \in DOMAIN Partial(obs, n, kept).snaps : Partial(obs, n, kept).snaps[i] = obs.snaps[i]
  BY DEF Partial
<1>2. Len(obs.events) \in Nat /\ DOMAIN obs.events = 1 .. Len(obs.events)
  BY LenProperties
<1>3. \A i \in 1 .. n : i \in DOMAIN obs.events /\ obs.events[i] \in E
  BY <1>2, ElementOfSeq
<1> DEFINE part == SubSeq(obs.events, 1, n)
<1>4. /\ part \in Seq(E) /\ Len(part) = IF 1 <= n THEN n - 1 + 1 ELSE 0
      /\ \A i \in 1 .. n - 1 + 1 : part[i] = obs.events[1 + i - 1]
  BY <1>2, <1>3, SubSeqProperties
<1> HIDE DEF part
<1>5. DOMAIN part = 1 .. Len(part)
  BY <1>4, LenProperties
<1>6. \A i \in DOMAIN part : i \in DOMAIN obs.events /\ part[i] = obs.events[i]
  BY <1>2, <1>3, <1>4, <1>5
<1>7. Own(Partial(obs, n, kept).events)
  BY <1>1, <1>6 DEF Faithful, Own, part
<1>. QED BY <1>1, <1>7 DEF Faithful

LEMMA ReadSourceCounts ==
    ASSUME CoverInv, CountInv, NEW p \in Process, ReadSource(p)
    PROVE  CountInv'
<1> DEFINE s   == Source(p)
           obs == IF s \in Logs THEN ReadLog(s) ELSE ReadDatabase(s, pass[p].gate)
           Saw(o) == [pass[p] EXCEPT !.obs = o, !.at = "store"]
<1>1. Sound(pass[p], RecordedKeys, aggregate_state, counter, wasReset) /\ pass[p].at = "read"
  BY DEF CoverInv, PassPart, ReadSource, Running
<1>2. DOMAIN pass[p] = Fields /\ pass[p].source \in 1 .. Len(SourceOrder)
  BY <1>1, Sources DEF Sound, Idle, Fields
<1>3. s \in Logs \cup Databases /\ Logs \cap Databases = {}
  BY <1>2, Sources DEF Source
<1> HIDE DEF s
<1>4. Faithful(obs) /\ obs.events \in Seq([event : Event, ok : BOOLEAN])
  <2>1. CASE s \in Logs
    BY <2>1, LogIsFaithful, LogIsRead DEF LogRead
  <2>2. CASE s \notin Logs
    <3>1. s \in Databases /\ obs = ReadDatabase(s, pass[p].gate)
      BY <1>3, <2>2
    <3>2. obs.events = <<>>
      BY <3>1, DatabaseIsRead DEF CellsRead
    <3>. QED BY <3>1, <3>2, DatabaseIsFaithful, EmptySeq
  <2>. QED BY <2>1, <2>2
<1>5. \E o : Go(p, Saw(o)) /\ Faithful(o)
  <2>1. \/ Go(p, Saw(obs))
        \/ \E n \in 0 .. Len(obs.events), kept \in SUBSET DOMAIN obs.snaps : Go(p, Saw(Partial(obs, n, kept)))
    BY DEF ReadSource, s
  <2> HIDE DEF obs, Saw
  <2>2. \A n \in 0 .. Len(obs.events) : \A kept \in SUBSET DOMAIN obs.snaps : Faithful(Partial(obs, n, kept))
    BY <1>4, PartIsFaithful
  <2>. QED BY <1>4, <2>1, <2>2
<1> HIDE DEF obs
<1>6. PICK o : Go(p, Saw(o)) /\ Faithful(o)
  BY <1>5
<1>7. Harmless(Saw(o), Tally, aggregate_state, counter, used)
  <2>1. Saw(o).obs = o
    BY <1>2 DEF Fields
  <2> HIDE DEF Saw
  <2>2. \A i \in Pending(Saw(o)) :
            Affordable(o.snaps[i].cell, o.snaps[i].counter, Tally, aggregate_state, counter, used)
    BY <1>6, <2>1, CurrentIsAffordable DEF Faithful, Pending
  <2>. QED BY <1>6, <2>1, <2>2 DEF Harmless, Faithful
<1>8. UNCHANGED <<vars, world>>
  BY DEF ReadSource
<1>9. RowPart' /\ Tally' = Tally /\ UNCHANGED <<world, aggregate_state>>
  BY <1>8, SameRowsSameTally DEF vars
<1>10. \A q \in Process \ {p} : Running(q, "idle")
  BY <1>1, OthersIdle DEF Running
<1> HIDE DEF Saw
<1>. QED BY <1>6, <1>7, <1>9, <1>10, QuietCount

(* What is still pending of an observation remains affordable. *)
LEMMA LessInHand ==
    ASSUME NEW local, local.at \in {"store", "state", "cell"}, NEW tally, NEW agg, NEW cnt, NEW use,
           Harmless(local, tally, agg, cnt, use),
           NEW new, new.at \in {"state", "cell"}, new.obs = local.obs,
           Pending(new) \subseteq Pending(local)
    PROVE  Harmless(new, tally, agg, cnt, use)
BY DEF Harmless

LEMMA StoreObservationCounts ==
    ASSUME CoverInv, CountInv, NEW p \in Process, StoreObservation(p)
    PROVE  CountInv'
<1> DEFINE local == pass[p]
           obs   == local.obs
           s     == SourceOrder[local.source]
           cp    == EventCheckpoint(obs)
           More(clean) == [local EXCEPT !.at = "state", !.next = Min(DOMAIN obs.snaps), !.clean = clean]
           Done(clean) == IF DOMAIN obs.snaps = {} THEN AfterSource(local) ELSE More(clean)
<1>1. Sound(local, RecordedKeys, aggregate_state, counter, wasReset) /\ local.at = "store"
  BY DEF CoverInv, PassPart, StoreObservation, Running
<1>2. DOMAIN local = Fields /\ local.source \in 1 .. Len(SourceOrder) /\ local.next = 0
  BY <1>1, Sources DEF Sound, Idle, Fields
<1>3. s \in Logs \cup Databases /\ Logs \cap Databases = {}
  BY <1>2, Sources
<1>4. /\ s \in Logs => LogRead(s, obs, RecordedKeys)
      /\ s \in Databases => CellsRead(s, obs, TRUE, Pending(local), aggregate_state, counter, wasReset)
  BY <1>1 DEF Sound, InHand
<1>5. DOMAIN obs.snaps \subseteq Nat
  BY <1>3, <1>4, Sources DEF CellsRead, LogRead
<1>6. obs.events \in Seq([event : Event, ok : BOOLEAN]) /\ Own(obs.events)
  <2>1. obs.events \in Seq([event : Event, ok : BOOLEAN])
    BY <1>3, <1>4, EmptySeq DEF LogRead, CellsRead
  <2>. QED BY <1>1, <2>1 DEF CountInv, Harmless
<1>7. ASSUME NEW clean PROVE Harmless(Done(clean), Tally, aggregate_state, counter, used)
  <2>1. CASE DOMAIN obs.snaps = {}
    <3>1. Done(clean).at = "sources"
      BY <1>2, <2>1 DEF AfterSource, Fields
    <3>. QED BY <3>1 DEF Harmless
  <2>2. CASE DOMAIN obs.snaps # {}
    <3>1. Done(clean).at = "state" /\ Done(clean).obs = obs
      BY <1>2, <2>2 DEF Fields
    <3> HIDE DEF Done
    <3>2. Pending(Done(clean)) \subseteq Pending(local)
      BY <1>2, <1>5, <3>1 DEF Pending
    <3>3. Harmless(local, Tally, aggregate_state, counter, used)
      BY DEF CountInv
    <3>. QED BY <1>1, <3>1, <3>2, <3>3, LessInHand
  <2>. QED BY <2>1, <2>2
<1>8. PICK clean : Go(p, Done(clean))
  BY DEF StoreObservation
<1>9. UNCHANGED vars \/ ApplyBatch(EventBatch(obs.events, cp))
  BY DEF StoreObservation
<1> HIDE DEF Done
<1>10. UNCHANGED world /\ \A q \in Process \ {p} : Running(q, "idle")
  BY <1>1, OthersIdle DEF StoreObservation, Running
<1>11. RowPart' /\ Tally' = Tally /\ aggregate_state' = aggregate_state
  <2>1. CASE UNCHANGED vars
    BY <2>1, SameRowsSameTally DEF vars
  <2>2. CASE ApplyBatch(EventBatch(obs.events, cp))
    <3>1. aggregate_state' = aggregate_state
      BY <1>6, <2>2, BatchRecords DEF CoverInv
    <3>. QED BY <1>6, <2>2, <3>1, BatchKeepsTally
  <2>. QED BY <1>9, <2>1, <2>2
<1>. QED BY <1>7, <1>8, <1>10, <1>11, QuietCount

LEMMA NextCellIsHarmless ==
    ASSUME NEW local, DOMAIN local = Fields, DOMAIN local.obs.snaps \subseteq Nat,
           local.next \in Nat, NEW clean, NEW tally, NEW agg, NEW cnt, NEW use,
           \A i \in Later(local) :
              Affordable(local.obs.snaps[i].cell, local.obs.snaps[i].counter, tally, agg, cnt, use)
    PROVE  Harmless(NextCell(local, clean), tally, agg, cnt, use)
<1> DEFINE new == NextCell(local, clean)
<1>1. CASE Later(local) = {}
  <2>1. new.at = "sources"
    BY <1>1 DEF NextCell, AfterSource, Fields
  <2>. QED BY <2>1 DEF Harmless
<1>2. CASE Later(local) # {}
  <2>1. new.obs = local.obs /\ new.at = "state" /\ new.next = Min(Later(local))
    BY <1>2 DEF NextCell, Fields
  <2>2. Later(local) \subseteq Nat
    BY DEF Later
  <2>3. \E m \in Later(local) : \A i \in Later(local) : m <= i
    BY <1>2, <2>2, LeastElement
  <2>4. Min(Later(local)) \in Later(local)
    BY <2>3 DEF Min
  <2> HIDE DEF new
  <2>5. Pending(new) \subseteq Later(local)
    <3> DEFINE m == Min(Later(local))
    <3>1. m \in Nat /\ m > local.next
      BY <2>2, <2>4 DEF Later
    <3>2. new.next = m /\ new.obs = local.obs
      BY <2>1
    <3> HIDE DEF m
    <3>3. ASSUME NEW i \in DOMAIN local.obs.snaps, m <= i PROVE i > local.next
      BY <3>1, <3>3
    <3>. QED BY <3>2, <3>3 DEF Pending, Later
  <2>6. \A i \in Pending(new) : Affordable(new.obs.snaps[i].cell, new.obs.snaps[i].counter,
                                          tally, agg, cnt, use)
    BY <2>1, <2>5
  <2>7. new.at # "store"
    BY <2>1
  <2> HIDE DEF new
  <2>8. Harmless(new, tally, agg, cnt, use)
    BY <2>6, <2>7 DEF Harmless
  <2>. QED BY <2>8 DEF new
<1>. QED BY <1>1, <1>2

(* Where a pass is between two snapshots, and what it still owes. *)
LEMMA AtCellCounts ==
    ASSUME CoverInv, CountInv, NEW p \in Process, pass[p].at \in {"state", "cell"}
    PROVE  LET local == pass[p]
           IN  /\ DOMAIN local = Fields /\ DOMAIN local.obs.snaps \subseteq Nat
               /\ local.next \in Nat /\ local.next \in Pending(local)
               /\ Later(local) = Pending(local) \ {local.next}
               /\ local.at = "cell" => local.last = aggregate_state[local.obs.snaps[local.next].cell]
               /\ \A i \in Pending(local) :
                     /\ local.obs.snaps[i].cell \in AccKey /\ local.obs.snaps[i].counter \in Nat
                     /\ Affordable(local.obs.snaps[i].cell, local.obs.snaps[i].counter,
                                   Tally, aggregate_state, counter, used)
               /\ \A i, j \in Pending(local) :
                     local.obs.snaps[i].cell = local.obs.snaps[j].cell => i = j
<1> DEFINE local == pass[p]
           s     == SourceOrder[local.source]
<1>1. /\ DOMAIN local = Fields /\ s \in Databases /\ local.next \in Nat /\ local.next \in Pending(local)
      /\ CellsRead(s, local.obs, local.clean, Pending(local), aggregate_state, counter, wasReset)
      /\ Later(local) = Pending(local) \ {local.next}
      /\ local.at = "cell" => local.last = aggregate_state[local.obs.snaps[local.next].cell]
  BY AtCell
<1>2. /\ DOMAIN local.obs.snaps \subseteq DOMAIN CellsOf[s]
      /\ \A i \in DOMAIN local.obs.snaps : local.obs.snaps[i].cell = CellsOf[s][i]
  BY <1>1 DEF CellsRead, SnapOf
<1>3. DOMAIN local.obs.snaps \subseteq Nat
  BY <1>1, <1>2, Sources
<1>4. ASSUME NEW i \in Pending(local)
      PROVE  /\ local.obs.snaps[i].cell \in AccKey /\ local.obs.snaps[i].counter \in Nat
             /\ Affordable(local.obs.snaps[i].cell, local.obs.snaps[i].counter,
                           Tally, aggregate_state, counter, used)
  BY InHandTyped DEF CountInv, Harmless
<1>5. ASSUME NEW i \in Pending(local), NEW j \in Pending(local),
             local.obs.snaps[i].cell = local.obs.snaps[j].cell
      PROVE  i = j
  <2>1. i \in DOMAIN CellsOf[s] /\ j \in DOMAIN CellsOf[s] /\ CellsOf[s][i] = CellsOf[s][j]
    BY <1>2, <1>5 DEF Pending
  <2>. QED BY <1>1, <2>1, Sources
<1>. QED BY <1>1, <1>3, <1>4, <1>5

LEMMA LoadStateCounts ==
    ASSUME CoverInv, CountInv, NEW p \in Process, LoadState(p)
    PROVE  CountInv'
<1> DEFINE local  == pass[p]
           loaded == [local EXCEPT !.last = aggregate_state[local.obs.snaps[local.next].cell],
                                   !.at = "cell"]
<1>1. local.at = "state" /\ (Go(p, loaded) \/ Go(p, NextCell(local, FALSE)))
  BY DEF LoadState, LastState, Running
<1>2. /\ DOMAIN local = Fields /\ DOMAIN local.obs.snaps \subseteq Nat /\ local.next \in Nat
      /\ Later(local) \subseteq Pending(local)
      /\ \A i \in Pending(local) :
            Affordable(local.obs.snaps[i].cell, local.obs.snaps[i].counter,
                       Tally, aggregate_state, counter, used)
  BY <1>1, AtCellCounts
<1>3. Harmless(loaded, Tally, aggregate_state, counter, used)
  <2>1. loaded.at = "cell" /\ loaded.obs = local.obs /\ loaded.next = local.next
    BY <1>2 DEF Fields
  <2> HIDE DEF loaded
  <2>2. Pending(loaded) = Pending(local)
    BY <2>1 DEF Pending
  <2>. QED BY <1>2, <2>1, <2>2 DEF Harmless
<1>4. Harmless(NextCell(local, FALSE), Tally, aggregate_state, counter, used)
  BY <1>2, NextCellIsHarmless
<1>5. UNCHANGED <<vars, world>>
  BY DEF LoadState
<1>6. RowPart' /\ Tally' = Tally /\ UNCHANGED <<world, aggregate_state>>
  BY <1>5, SameRowsSameTally DEF vars
<1>7. \A q \in Process \ {p} : Running(q, "idle")
  BY <1>1, OthersIdle DEF Running
<1> HIDE DEF loaded
<1>. QED BY <1>1, <1>3, <1>4, <1>6, <1>7, QuietCount

(* A batch of which no row is new. *)
LEMMA NothingNewCounts ==
    ASSUME CoverInv, CountInv, NEW events, NEW n \in Nat, DOMAIN events = 1 .. n,
           \A i \in DOMAIN events : Tallied(events[i].event), InsertEvents(events),
           Fresh(events) = {}
    PROVE  RowPart' /\ Tally' = Tally
<1>1. /\ RowPart' /\ DOMAIN usage_events \subseteq DOMAIN usage_events'
      /\ \A id \in DOMAIN usage_events : usage_events'[id] = usage_events[id]
      /\ DOMAIN usage_events' \ DOMAIN usage_events = {}
  BY InsertKeepsTallied
<1>. QED BY <1>1, TallyStays

(* The delta event of a cell counts for that cell, and once. *)
LEMMA DeltaCounts ==
    ASSUME CoverInv, CountInv, NEW cell \in AccKey, NEW t, NEW e, Tallied(e), e.key = <<cell, t>>,
           InsertEvents(<<[event |-> e, ok |-> TRUE]>>)
    PROVE  /\ RowPart' /\ Tally'[cell] <= Tally[cell] + e.tokens /\ Tally'[cell] \in Nat
           /\ \A d \in AccKey \ {cell} : Tally'[d] = Tally[d]
<1> DEFINE events == <<[event |-> e, ok |-> TRUE]>>
           x == MaxId(usage_events) + 1
<1>1. /\ DOMAIN events = 1 .. 1 /\ events[1].event = e /\ Fresh(events) \subseteq {1}
      /\ \A i \in DOMAIN events : Tallied(events[i].event)
  BY DEF Fresh
<1>2. InsertEvents(events)
  OBVIOUS
<1> HIDE DEF events
<1>3. /\ RowPart' /\ DOMAIN usage_events \subseteq DOMAIN usage_events'
      /\ \A id \in DOMAIN usage_events : usage_events'[id] = usage_events[id]
      /\ \A id \in DOMAIN usage_events' \ DOMAIN usage_events :
            id = x /\ usage_events'[id] = e
  <2>1. 1 \in Nat
    OBVIOUS
  <2>2. /\ RowPart' /\ DOMAIN usage_events \subseteq DOMAIN usage_events'
        /\ \A id \in DOMAIN usage_events : usage_events'[id] = usage_events[id]
        /\ \A id \in DOMAIN usage_events' \ DOMAIN usage_events :
              \E i \in Fresh(events) :
                  id = MaxId(usage_events) + i /\ usage_events'[id] = events[i].event
    BY <1>1, <1>2, <2>1, InsertKeepsTallied
  <2>. QED BY <1>1, <2>2
<1> HIDE DEF x
<1>4. IsFiniteSet(DOMAIN usage_events)
  BY RowsAreFinite DEF CoverInv, LedgerPart
<1>5. e.tokens \in Nat /\ \A id \in DOMAIN usage_events' : usage_events'[id].tokens \in Nat
  BY <1>3 DEF RowPart, Tallied
<1>6. ASSUME NEW d \in AccKey \ {cell} PROVE Tally'[d] = Tally[d]
  <2>1. e.key \notin {d} \X Instant
    OBVIOUS
  <2>2. TokensFor(usage_events', d) = TokensFor(usage_events, d)
    BY <1>3, <1>4, <2>1, OtherRowsDoNotCount
  <2>. QED BY <2>2, TallyIsSum
<1>7. Tally[cell] \in Nat
  BY TallyIsNat DEF CoverInv, CountInv
<1>8. Tally'[cell] <= Tally[cell] + e.tokens /\ Tally'[cell] \in Nat
  <2>1. CASE DOMAIN usage_events' = DOMAIN usage_events
    <3>1. DOMAIN usage_events' \ DOMAIN usage_events = {}
      BY <2>1
    <3>2. TokensFor(usage_events', cell) = TokensFor(usage_events, cell)
      BY <1>3, <1>4, <3>1, OtherRowsDoNotCount
    <3>. QED BY <1>5, <1>7, <3>2, TallyIsSum
  <2>2. CASE DOMAIN usage_events' # DOMAIN usage_events
    <3>1. /\ x \notin DOMAIN usage_events /\ DOMAIN usage_events' = DOMAIN usage_events \cup {x}
          /\ usage_events'[x] = e
      BY <1>3, <2>2
    <3>2. TokensFor(usage_events', cell) <= TokensFor(usage_events, cell) + e.tokens
      BY <1>3, <1>4, <1>5, <3>1, OneRowCounts
    <3>3. TokensFor(usage_events', cell) \in Nat
      <4> DEFINE f == [id \in DOMAIN usage_events' |-> usage_events'[id].tokens]
                 S == DeltaRows(usage_events', cell)
      <4>1. IsFiniteSet(S) /\ \A id \in S : f[id] \in Nat
        BY <1>4, <1>5, <3>1, FS_AddElement, FS_Subset DEF DeltaRows
      <4>2. TokensFor(usage_events', cell) = SumFunctionOnSet(f, S)
        BY DEF TokensFor
      <4> HIDE DEF f, S
      <4>. QED BY <4>1, <4>2, SumIsNat
    <3>. QED BY <3>2, <3>3, TallyIsSum
  <2>. QED BY <2>1, <2>2
<1>. QED BY <1>3, <1>6, <1>8

(* The baseline moves to the snapshot, and the tally by no more than that.    *)
LEMMA MovedIsAffordable ==
    ASSUME CoverInv, CountInv, NEW cell \in AccKey, NEW n \in Nat,
           NEW moved, moved = [aggregate_state EXCEPT ![cell] = n],
           Affordable(cell, n, Tally, aggregate_state, counter, used),
           Tally'[cell] <= Tally[cell] + fieldDelta(BaseOf(aggregate_state, cell), n),
           Tally'[cell] \in Nat,
           \A d \in AccKey \ {cell} : Tally'[d] = Tally[d]
    PROVE  /\ \A c \in AccKey : Tally'[c] + fieldDelta(BaseOf(moved, c), counter[c]) <= used[c]
           /\ \A c \in AccKey \ {cell} : \A m \in Nat :
                 Affordable(c, m, Tally, aggregate_state, counter, used) =>
                    Affordable(c, m, Tally', moved, counter, used)
<1>1. /\ aggregate_state \in [AccKey -> Nat \cup {None}] /\ counter \in [AccKey -> Nat]
      /\ used \in [AccKey -> Nat]
  BY DEF CoverInv, CellPart, CountInv, UsedPart
<1>2. BaseOf(moved, cell) = n /\ \A c \in AccKey \ {cell} : BaseOf(moved, c) = BaseOf(aggregate_state, c)
  BY <1>1, Sources DEF BaseOf
<1>3. Tally'[cell] + fieldDelta(BaseOf(moved, cell), counter[cell]) <= used[cell]
  <2> DEFINE a == fieldDelta(BaseOf(aggregate_state, cell), n)
             g == fieldDelta(n, counter[cell])
             t == Tally[cell]
             u == Tally'[cell]
  <2>1. a \in Nat /\ g \in Nat /\ t \in Nat /\ u \in Nat /\ used[cell] \in Nat
    <3>1. BaseOf(aggregate_state, cell) \in Nat /\ counter[cell] \in Nat
      BY <1>1 DEF BaseOf
    <3>. QED BY <1>1, <3>1, DeltasAreGrowth, TallyIsNat DEF CoverInv, CountInv
  <2>2. t + a + g <= used[cell] /\ u <= t + a
    BY DEF Affordable
  <2> HIDE DEF a, t, u
  <2>3. u + g <= used[cell]
    BY <2>1, <2>2
  <2>. QED BY <1>2, <2>3 DEF u
<1>4. ASSUME NEW c \in AccKey \ {cell}
      PROVE  Tally'[c] + fieldDelta(BaseOf(moved, c), counter[c]) <= used[c]
  BY <1>2 DEF CountInv, UsedPart
<1>5. ASSUME NEW c \in AccKey \ {cell}, NEW m \in Nat,
             Affordable(c, m, Tally, aggregate_state, counter, used)
      PROVE  Affordable(c, m, Tally', moved, counter, used)
  BY <1>2, <1>5 DEF Affordable
<1>. QED BY <1>3, <1>4, <1>5

LEMMA StoreSnapshotCounts ==
    ASSUME CoverInv, CountInv, NEW p \in Process, StoreSnapshot(p)
    PROVE  CountInv'
<1> DEFINE local  == pass[p]
           snap   == local.obs.snaps[local.next]
           delta  == snapshotDelta(local.last, snap.counter)
           events == IF delta > 0 THEN <<syntheticEvent(snap, delta, local.observedAt)>> ELSE <<>>
           cp     == CheckpointFor(local)
           moved  == Applied(aggregate_state, snap)
<1>1. local.at = "cell" /\ UNCHANGED world
  BY DEF StoreSnapshot, Running
<1>2. /\ DOMAIN local = Fields /\ DOMAIN local.obs.snaps \subseteq Nat /\ local.next \in Nat
      /\ local.next \in Pending(local) /\ Later(local) = Pending(local) \ {local.next}
      /\ local.last = aggregate_state[snap.cell]
      /\ \A i \in Pending(local) :
            /\ local.obs.snaps[i].cell \in AccKey /\ local.obs.snaps[i].counter \in Nat
            /\ Affordable(local.obs.snaps[i].cell, local.obs.snaps[i].counter,
                          Tally, aggregate_state, counter, used)
      /\ \A i, j \in Pending(local) : local.obs.snaps[i].cell = local.obs.snaps[j].cell => i = j
  BY <1>1, AtCellCounts
<1>3. /\ snap.cell \in AccKey /\ snap.counter \in Nat
      /\ Affordable(snap.cell, snap.counter, Tally, aggregate_state, counter, used)
      /\ \A i \in Later(local) : local.obs.snaps[i].cell # snap.cell
  BY <1>2
<1>4. \A q \in Process \ {p} : Running(q, "idle")
  BY <1>1, OthersIdle DEF Running
<1>5. delta = fieldDelta(BaseOf(aggregate_state, snap.cell), snap.counter) /\ delta \in Nat
  <2>1. BaseOf(aggregate_state, snap.cell) \in Nat
    BY <1>3 DEF CoverInv, CellPart, BaseOf
  <2>2. delta = fieldDelta(BaseOf(aggregate_state, snap.cell), snap.counter)
    BY <1>2, <1>3, DeltasAreGrowth DEF snapshotDelta, BaseOf
  <2>. QED BY <1>3, <2>1, <2>2, DeltasAreGrowth
<1>6. \/ /\ local.last = snap.counter
         /\ IF cp = None THEN UNCHANGED vars ELSE ApplyBatch(EventBatch(<<>>, cp))
         /\ Go(p, NextCell(local, local.clean))
      \/ /\ local.last # snap.counter
         /\ ApplySnapshot(events, snap.cell, snap.counter, cp)
         /\ Go(p, NextCell(local, local.clean /\ Advanced(events)))
      \/ Go(p, NextCell(local, FALSE)) /\ UNCHANGED vars
  BY DEF StoreSnapshot
<1>7. \/ events = <<>> /\ delta = 0
      \/ \E e, t : /\ Tallied(e) /\ e.key = <<snap.cell, t>> /\ e.tokens = delta
                   /\ events = <<[event |-> e, ok |-> TRUE]>>
  <2>1. CASE ~(delta > 0)
    <3>1. events = <<>>
      BY <2>1
    <3>2. delta = 0
      <4> HIDE DEF delta, snap, local
      <4>. QED BY <1>5, <2>1
    <3> HIDE DEF events, delta
    <3>. QED BY <3>1, <3>2
  <2>2. CASE delta > 0
    <3> DEFINE e == [key |-> <<snap.cell, local.observedAt>>, group |-> GroupOf[snap.cell],
                     tokens |-> delta, price |-> NoPrice]
    <3>1. Tallied(e) /\ e.key = <<snap.cell, local.observedAt>> /\ e.tokens = delta
      BY <1>5 DEF Tallied
    <3>2. events = <<[event |-> Stamped(e), ok |-> TRUE]>>
      BY <2>2 DEF syntheticEvent
    <3> HIDE DEF e
    <3>. QED BY <3>1, <3>2, StampedTallied
  <2>. QED BY <2>1, <2>2
<1> HIDE DEF local, snap, delta, events, cp, moved
(* Neither the tally nor a baseline changes. *)
<1>8. ASSUME RowPart', Tally' = Tally, aggregate_state' = aggregate_state,
             NEW clean, Go(p, NextCell(local, clean))
      PROVE  CountInv'
  <2>1. Harmless(NextCell(local, clean), Tally, aggregate_state, counter, used)
    BY <1>2, NextCellIsHarmless
  <2>. QED BY <1>1, <1>4, <1>8, <2>1, QuietCount
<1>9. ASSUME UNCHANGED vars PROVE RowPart' /\ Tally' = Tally /\ aggregate_state' = aggregate_state
  BY <1>9, SameRowsSameTally DEF vars
(* The delta is appended and the baseline moves. *)
<1>10. ASSUME RowPart', aggregate_state' = moved, Tally'[snap.cell] <= Tally[snap.cell] + delta,
              Tally'[snap.cell] \in Nat,
              \A d \in AccKey \ {snap.cell} : Tally'[d] = Tally[d],
              NEW clean, Go(p, NextCell(local, clean))
       PROVE  CountInv'
  <2>1. moved = [aggregate_state EXCEPT ![snap.cell] = snap.counter]
    BY DEF moved, Applied
  <2>2. /\ \A c \in AccKey : Tally'[c] + fieldDelta(BaseOf(moved, c), counter[c]) <= used[c]
        /\ \A c \in AccKey \ {snap.cell} : \A m \in Nat :
              Affordable(c, m, Tally, aggregate_state, counter, used) =>
                 Affordable(c, m, Tally', moved, counter, used)
    BY <1>3, <1>5, <1>10, <2>1, MovedIsAffordable
  <2>3. \A i \in Later(local) :
            Affordable(local.obs.snaps[i].cell, local.obs.snaps[i].counter, Tally', moved, counter, used)
    BY <1>2, <1>3, <2>2
  <2>4. Harmless(NextCell(local, clean), Tally', moved, counter, used)
    BY <1>2, <2>3, NextCellIsHarmless
  <2>. QED BY <1>1, <1>4, <1>10, <2>2, <2>4, CountedStep
<1>11. CASE /\ local.last = snap.counter
            /\ IF cp = None THEN UNCHANGED vars ELSE ApplyBatch(EventBatch(<<>>, cp))
            /\ Go(p, NextCell(local, local.clean))
  <2>1. CASE cp = None
    BY <1>8, <1>9, <1>11, <2>1
  <2>2. CASE cp # None
    <3>1. ApplyBatch(EventBatch(<<>>, cp)) /\ <<>> \in Seq([event : Event, ok : BOOLEAN]) /\ Own(<<>>)
      BY <1>11, <2>2, EmptySeq DEF Own
    <3>2. RowPart' /\ Tally' = Tally /\ aggregate_state' = aggregate_state
      BY <3>1, BatchKeepsTally, BatchRecords DEF CoverInv
    <3>. QED BY <1>8, <1>11, <3>2
  <2>. QED BY <2>1, <2>2
<1>12. CASE /\ local.last # snap.counter
            /\ ApplySnapshot(events, snap.cell, snap.counter, cp)
            /\ Go(p, NextCell(local, local.clean /\ Advanced(events)))
  <2>1. InsertEvents(events)
    BY <1>12 DEF ApplySnapshot
  <2>2. \E k \in Nat : DOMAIN events = 1 .. k /\ \A i \in DOMAIN events : Tallied(events[i].event)
    <3>1. CASE events = <<>>
      BY <3>1
    <3>2. ASSUME NEW e, Tallied(e), events = <<[event |-> e, ok |-> TRUE]>>
          PROVE  DOMAIN events = 1 .. 1 /\ \A i \in DOMAIN events : Tallied(events[i].event)
      BY <3>2
    <3>. QED BY <1>7, <3>1, <3>2
  <2>3. IF Advanced(events) THEN upsertState(snap.cell, snap.counter)
        ELSE aggregate_state' = aggregate_state
    BY <1>12 DEF ApplySnapshot, Advanced
  <2>4. CASE ~Advanced(events)
    <3>1. Fresh(events) = {}
      BY <2>4 DEF Advanced
    <3>2. RowPart' /\ Tally' = Tally
      BY <2>1, <2>2, <3>1, NothingNewCounts
    <3>. QED BY <1>8, <1>12, <2>3, <2>4, <3>2
  <2>5. CASE Advanced(events)
    <3>1. aggregate_state' = moved
      BY <2>3, <2>5 DEF upsertState, moved, Applied
    <3>2. CASE events = <<>> /\ delta = 0
      <4>1. Fresh(events) = {}
        BY <3>2 DEF Fresh
      <4>2. RowPart' /\ Tally' = Tally
        BY <2>1, <2>2, <4>1, NothingNewCounts
      <4>3. Tally[snap.cell] \in Nat
        BY <1>3, TallyIsNat DEF CoverInv, CountInv
      <4>. QED BY <1>10, <1>12, <3>1, <3>2, <4>2, <4>3
    <3>3. ASSUME NEW e, NEW t, Tallied(e), e.key = <<snap.cell, t>>, e.tokens = delta,
                 events = <<[event |-> e, ok |-> TRUE]>>
          PROVE  CountInv'
      <4>1. /\ RowPart' /\ Tally'[snap.cell] <= Tally[snap.cell] + e.tokens /\ Tally'[snap.cell] \in Nat
            /\ \A d \in AccKey \ {snap.cell} : Tally'[d] = Tally[d]
        BY <1>3, <2>1, <3>3, DeltaCounts
      <4>. QED BY <1>10, <1>12, <3>1, <3>3, <4>1
    <3>. QED BY <1>7, <3>2, <3>3
  <2>. QED BY <2>4, <2>5
<1>13. CASE Go(p, NextCell(local, FALSE)) /\ UNCHANGED vars
  BY <1>8, <1>9, <1>13
<1>. QED BY <1>6, <1>11, <1>12, <1>13
-----------------------------------------------------------------------------
(* CountInv holds of every state of the collector, for any agents, databases, *)
(* processes, clocks, failures and crashes.                                   *)
LEMMA CountInvariant == Spec => []CountInv
<1>1. Init => CountInv
  <2> SUFFICES ASSUME Init PROVE CountInv
    OBVIOUS
  <2>1. RowPart
    BY DEF Init, RowPart
  <2>2. ASSUME NEW c \in AccKey PROVE Tally[c] = 0
    <3>1. DeltaRows(usage_events, c) = {}
      BY DEF Init, DeltaRows
    <3>. QED BY <3>1, TallyIsSum, SumOfNone DEF TokensFor
  <2>3. ASSUME NEW c \in AccKey
        PROVE  fieldDelta(BaseOf(aggregate_state, c), counter[c]) = 0
    <3>1. BaseOf(aggregate_state, c) = 0 /\ counter[c] = 0
      BY DEF Init, BaseOf
    <3>. QED BY <3>1, DeltasAreGrowth
  <2>4. UsedPart
    <3>1. used \in [AccKey -> Nat] /\ \A c \in AccKey : used[c] = 0
      BY DEF Init
    <3>. QED BY <2>2, <2>3, <3>1 DEF UsedPart
  <2>5. ASSUME NEW p \in Process PROVE Harmless(pass[p], Tally, aggregate_state, counter, used)
    BY DEF Init, Idle, Harmless
  <2>. QED BY <2>1, <2>4, <2>5 DEF CountInv
<1>2. ASSUME CoverInv, CountInv, [Next]_allVars PROVE CountInv'
  <2>1. ASSUME NEW p \in Process, BeginPass(p) \/ Crash(p) PROVE CountInv'
    BY <1>2, <2>1, BeginAndCrashCount
  <2>2. ASSUME NEW p \in Process, Step(p) PROVE CountInv'
    <3>1. CASE CheckRollup(p) \/ CheckCounts(p) \/ SyncPrices(p) \/ NextSource(p) \/ StatDatabase(p)
      BY <1>2, <3>1, QuietStepsCount
    <3>2. CASE ReadSource(p)
      BY <1>2, <3>2, ReadSourceCounts
    <3>3. CASE StoreObservation(p)
      BY <1>2, <3>3, StoreObservationCounts
    <3>4. CASE LoadState(p)
      BY <1>2, <3>4, LoadStateCounts
    <3>5. CASE StoreSnapshot(p)
      BY <1>2, <3>5, StoreSnapshotCounts
    <3>. QED BY <2>2, <3>1, <3>2, <3>3, <3>4, <3>5 DEF Step
  <2>3. CASE \/ \E s \in Logs : AppendRecord(s)
             \/ \E s \in Databases, c \in AccKey : Count(s, c) \/ Reset(s, c)
             \/ UNCHANGED allVars
    BY <1>2, <2>3, AgentsKeepCount
  <2>. QED BY <1>2, <2>1, <2>2, <2>3 DEF Next
<1>. QED BY <1>1, <1>2, CollectorInvariant, PTL DEF Spec

(* Usage is never counted twice, whatever resets, crashes, retries, clock     *)
(* collisions and failing calls happen, for any cells, databases and          *)
(* processes.                                                                 *)
THEOREM NeverOvercountedHolds == Spec => []NeverOvercounted
<1>1. ASSUME CoverInv, CountInv PROVE NeverOvercounted
  <2> SUFFICES ASSUME NEW c \in AccKey PROVE Recorded(c) <= used[c]
    BY DEF NeverOvercounted
  <2> DEFINE t == Tally[c]
             d == fieldDelta(BaseOf(aggregate_state, c), counter[c])
  <2>1. t \in Nat /\ Recorded(c) = t
    BY <1>1, TallyIsNat DEF CoverInv, CountInv, Tally
  <2>2. d \in Nat /\ used[c] \in Nat /\ t + d <= used[c]
    <3>1. BaseOf(aggregate_state, c) \in Nat /\ counter[c] \in Nat
      BY <1>1 DEF CoverInv, CellPart, BaseOf
    <3>. QED BY <1>1, <3>1, DeltasAreGrowth DEF CountInv, UsedPart
  <2> HIDE DEF t, d
  <2>. QED BY <2>1, <2>2
<1>. QED BY <1>1, CollectorInvariant, CountInvariant, PTL
=============================================================================
