---------------------------- MODULE LedgerProofs ----------------------------
(***************************************************************************)
(* What holds of Ledger for every value of its constants.  Three           *)
(* invariants carry most of it: usage_events is a history (IsHistory: rows *)
(* under positive ids, no key twice), the price cursor never points past   *)
(* the last row (CursorInv), and a rollup that counts as many events as    *)
(* there are rows is the rollup of those rows (RollupInv).                 *)
(***************************************************************************)
EXTENDS Ledger, DataProofs

(* MAX(id) bounds the ids of a ledger whose ids are bounded at all.           *)
LEMMA MaxIdIsGreatest ==
    ASSUME NEW rows, NEW n \in Nat, DOMAIN rows \subseteq 1 .. n
    PROVE  /\ MaxId(rows) \in Nat
           /\ DOMAIN rows \subseteq 1 .. MaxId(rows)
<1>1. CASE DOMAIN rows = {}
  BY <1>1 DEF MaxId
<1>2. CASE DOMAIN rows # {}
  <2>1. Max(DOMAIN rows) \in DOMAIN rows /\ \A k \in DOMAIN rows : k <= Max(DOMAIN rows)
    BY <1>2, GreatestElement
  <2>. QED BY <1>2, <2>1 DEF MaxId
<1>. QED BY <1>1, <1>2

(* The ids of a ledger are positive and bounded by MAX(id).                   *)
IdsBounded(rows) == MaxId(rows) \in Nat /\ DOMAIN rows \subseteq 1 .. MaxId(rows)

(* insertEventsTx: old rows stay, new rows get larger ids and come from fresh *)
(* positions of the batch, every acceptable row is recorded.                  *)
LEMMA InsertedRows ==
    ASSUME NEW events, NEW n \in Nat, DOMAIN events = 1 .. n,
           IdsBounded(usage_events), InsertEvents(events)
    PROVE  /\ IdsBounded(usage_events')
           /\ DOMAIN usage_events \subseteq DOMAIN usage_events'
           /\ \A id \in DOMAIN usage_events : usage_events'[id] = usage_events[id]
           /\ \A id \in DOMAIN usage_events' \ DOMAIN usage_events :
                 /\ id > MaxId(usage_events)
                 /\ \E i \in Fresh(events) :
                       id = MaxId(usage_events) + i /\ usage_events'[id] = events[i].event
           /\ \A i \in DOMAIN events : events[i].ok => events[i].event.key \in RecordedKeys'
<1> DEFINE base == MaxId(usage_events)
           new  == {base + i : i \in Fresh(events)}
<1>1. base \in Nat /\ DOMAIN usage_events \subseteq 1 .. base
  BY DEF IdsBounded
<1>2. usage_events' = [id \in DOMAIN usage_events \cup new |->
                          IF id \in new THEN events[id - base].event ELSE usage_events[id]]
  BY DEF InsertEvents
<1> HIDE DEF base
<1>3. Appends(usage_events, base, events, n, Fresh(events), usage_events')
  BY <1>1, <1>2 DEF Appends, Fresh, RecordedKeys
<1> HIDE DEF new
<1>5. /\ DOMAIN usage_events' \subseteq 1 .. (base + n)
      /\ DOMAIN usage_events \subseteq DOMAIN usage_events'
      /\ \A id \in DOMAIN usage_events : usage_events'[id] = usage_events[id]
      /\ \A id \in DOMAIN usage_events' \ DOMAIN usage_events :
            /\ id > base
            /\ \E i \in Fresh(events) : id = base + i /\ usage_events'[id] = events[i].event
      /\ \A i \in DOMAIN events :
            events[i].ok =>
                events[i].event.key \in {usage_events'[id].key : id \in DOMAIN usage_events'}
  BY <1>3, AppendedRows
<1>6. base + n \in Nat
  BY <1>1
<1>7. IdsBounded(usage_events')
  BY <1>5, <1>6, MaxIdIsGreatest DEF IdsBounded
<1>. QED BY <1>5, <1>7 DEF RecordedKeys, base

(* insertEventsTx extends a history to a history: old rows stay, new rows get *)
(* larger ids and come from the batch, every acceptable row is recorded.      *)
LEMMA InsertEventsExtends ==
    ASSUME NEW events \in Seq(EventRow), IsHistory(usage_events), InsertEvents(events)
    PROVE  /\ IsHistory(usage_events)'
           /\ DOMAIN usage_events \subseteq DOMAIN usage_events'
           /\ \A id \in DOMAIN usage_events : usage_events'[id] = usage_events[id]
           /\ \A id \in DOMAIN usage_events' \ DOMAIN usage_events :
                 /\ id > MaxId(usage_events)
                 /\ \E i \in DOMAIN events : usage_events'[id] = events[i].event
           /\ \A i \in DOMAIN events : events[i].ok => events[i].event.key \in RecordedKeys'
<1> DEFINE base == MaxId(usage_events)
           new  == DOMAIN usage_events' \ DOMAIN usage_events
<1>1. /\ IdsBounded(usage_events)
      /\ usage_events \in [DOMAIN usage_events -> Event]
      /\ \A id, other \in DOMAIN usage_events :
            id # other => usage_events[id].key # usage_events[other].key
  BY DEF IsHistory, IdsBounded
<1>2. /\ Len(events) \in Nat /\ DOMAIN events = 1 .. Len(events)
      /\ \A i \in DOMAIN events : events[i] \in EventRow
  OBVIOUS
<1>3. /\ IdsBounded(usage_events')
      /\ DOMAIN usage_events \subseteq DOMAIN usage_events'
      /\ \A id \in DOMAIN usage_events : usage_events'[id] = usage_events[id]
      /\ \A id \in new : /\ id > base
                          /\ \E i \in Fresh(events) : id = base + i /\ usage_events'[id] = events[i].event
      /\ \A i \in DOMAIN events : events[i].ok => events[i].event.key \in RecordedKeys'
  BY <1>1, <1>2, InsertedRows
<1>4. Fresh(events) \subseteq DOMAIN events
  BY DEF Fresh
<1> HIDE DEF base, new
<1>5. DOMAIN usage_events' = DOMAIN usage_events \cup new
  BY <1>3 DEF new
<1>6. usage_events' \in [DOMAIN usage_events' -> Event]
  <2>1. \A id \in DOMAIN usage_events' : usage_events'[id] \in Event
    BY <1>1, <1>2, <1>3, <1>4, <1>5 DEF EventRow
  <2>2. usage_events' = [id \in DOMAIN usage_events' |-> usage_events'[id]]
    BY DEF InsertEvents
  <2>. QED BY <2>1, <2>2
<1>7. ASSUME NEW id \in DOMAIN usage_events', NEW other \in DOMAIN usage_events', id # other
      PROVE  usage_events'[id].key # usage_events'[other].key
  <2>1. \A i, j \in Fresh(events) : i # j => events[i].event.key # events[j].event.key
    <3>1. \A i, j \in Fresh(events) : i < j => events[i].event.key # events[j].event.key
      BY <1>2 DEF Fresh
    <3>. QED BY <1>2, <1>4, <3>1
  <2>2. \A i \in Fresh(events), o \in DOMAIN usage_events :
            events[i].event.key # usage_events[o].key
    BY DEF Fresh, RecordedKeys
  <2>3. CASE id \in DOMAIN usage_events /\ other \in DOMAIN usage_events
    BY <1>1, <1>3, <1>7, <2>3
  <2>4. CASE id \in new /\ other \in new
    BY <1>3, <1>7, <2>1, <2>4
  <2>5. CASE id \in new /\ other \in DOMAIN usage_events
    BY <1>3, <2>2, <2>5
  <2>6. CASE id \in DOMAIN usage_events /\ other \in new
    BY <1>3, <2>2, <2>6
  <2>. QED BY <1>5, <2>3, <2>4, <2>5, <2>6
<1>8. IsHistory(usage_events)'
  BY <1>3, <1>6, <1>7 DEF IsHistory, IdsBounded
<1>. QED BY <1>3, <1>4, <1>8 DEF base, new

(* SyncUnpriced keeps the history and changes a row only by pricing it.       *)
LEMMA SyncUnpricedFills ==
    ASSUME NEW rev \in Revision, IsHistory(usage_events), SyncUnpriced(rev)
    PROVE  /\ IsHistory(usage_events)'
           /\ DOMAIN usage_events' = DOMAIN usage_events
           /\ \A id \in DOMAIN usage_events :
                 \/ usage_events'[id] = usage_events[id]
                 \/ /\ usage_events[id].price = NoPrice
                    /\ usage_events'[id].price \in Price
                    /\ usage_events'[id] =
                          [usage_events[id] EXCEPT !.price = usage_events'[id].price]
<1> DEFINE priced == Priced(rev)
           bought(id) == [micro |-> Quote(rev, id).micro, class |-> "computed"]
<1>1. usage_events' = [id \in DOMAIN usage_events |->
          IF id \in priced THEN [usage_events[id] EXCEPT !.price = bought(id)]
                           ELSE usage_events[id]]
  BY DEF SyncUnpriced
<1>2. /\ MaxId(usage_events) \in Nat /\ DOMAIN usage_events \subseteq 1 .. MaxId(usage_events)
      /\ usage_events \in [DOMAIN usage_events -> Event]
      /\ \A id, other \in DOMAIN usage_events :
            id # other => usage_events[id].key # usage_events[other].key
  BY DEF IsHistory
<1>3. priced \subseteq Unpriced /\ Unpriced \subseteq DOMAIN usage_events
  BY DEF Priced, Candidates, Unpriced
<1>4. ASSUME NEW id \in priced PROVE bought(id) \in Price
  <2>1. PriceEvent[rev][usage_events[id].group] \in PriceQuote \cup {NoPrice}
    BY <1>2, <1>3, StoreAssumption DEF Event
  <2>. QED BY <2>1 DEF Priced, Acceptable, Quote, PriceQuote, Price
<1>5. \A id \in priced : usage_events[id].price = NoPrice
  BY <1>3 DEF Unpriced
<1> HIDE DEF priced, bought
<1>6. ASSUME NEW id \in DOMAIN usage_events
      PROVE  /\ usage_events'[id] \in Event
             /\ usage_events'[id].key = usage_events[id].key
             /\ \/ usage_events'[id] = usage_events[id]
                \/ /\ usage_events[id].price = NoPrice
                   /\ usage_events'[id].price \in Price
                   /\ usage_events'[id] =
                          [usage_events[id] EXCEPT !.price = usage_events'[id].price]
  <2>1. CASE id \in priced
    BY <1>1, <1>2, <1>4, <1>5, <2>1 DEF Event
  <2>2. CASE id \notin priced
    BY <1>1, <1>2, <2>2
  <2>. QED BY <2>1, <2>2
<1>7. DOMAIN usage_events' = DOMAIN usage_events /\ MaxId(usage_events') = MaxId(usage_events)
  BY <1>1 DEF MaxId
<1>8. IsHistory(usage_events)'
  <2>1. usage_events' \in [DOMAIN usage_events' -> Event]
    BY <1>1, <1>6
  <2>2. \A id, other \in DOMAIN usage_events' :
            id # other => usage_events'[id].key # usage_events'[other].key
    BY <1>2, <1>6, <1>7
  <2>3. MaxId(usage_events') \in Nat /\ DOMAIN usage_events' \subseteq 1 .. MaxId(usage_events')
    BY <1>2, <1>7
  <2>. QED BY <2>1, <2>2, <2>3 DEF IsHistory
<1>. QED BY <1>6, <1>7, <1>8

(* usage_events is a history in every reachable state.                        *)
LEMMA HistoryInvariant == Spec => []IsHistory(usage_events)
<1>1. Init => IsHistory(usage_events)
  BY LedgerAssumption DEF Init
<1>2. IsHistory(usage_events) /\ [Next]_vars => IsHistory(usage_events)'
  <2> SUFFICES ASSUME IsHistory(usage_events), [Next]_vars
               PROVE  IsHistory(usage_events)'
    OBVIOUS
  <2>1. ASSUME NEW b \in Batches, ApplyBatch(b) PROVE IsHistory(usage_events)'
    BY <2>1, InsertEventsExtends, LedgerAssumption DEF ApplyBatch, Batch
  <2>2. ASSUME NEW w \in SnapshotWrites, ApplySnapshot(w.events, w.cell, w.counter, w.cp)
        PROVE  IsHistory(usage_events)'
    BY <2>2, InsertEventsExtends, LedgerAssumption DEF ApplySnapshot, upsertState, SnapshotWrite
  <2>3. CASE EnsureRollup
    BY <2>3 DEF EnsureRollup, EnsureUsageRollup, EnsureActivityCounts
  <2>4. ASSUME NEW rev \in Revision, SyncUnpriced(rev) PROVE IsHistory(usage_events)'
    BY <2>4, SyncUnpricedFills
  <2>5. CASE UNCHANGED vars
    BY <2>5 DEF vars
  <2>. QED BY <2>1, <2>2, <2>3, <2>4, <2>5 DEF Next
<1>. QED BY <1>1, <1>2, PTL DEF Spec

(* An insert is an Append of the promise.                                     *)
LEMMA AppendRefines ==
    ASSUME NEW events \in Seq(EventRow), IsHistory(usage_events), InsertEvents(events)
    PROVE  Promise!Append
<1>1. /\ IsHistory(usage_events)'
      /\ DOMAIN usage_events \subseteq DOMAIN usage_events'
      /\ \A id \in DOMAIN usage_events : usage_events'[id] = usage_events[id]
  BY InsertEventsExtends
<1>2. /\ DOMAIN History = DOMAIN usage_events /\ DOMAIN History' = DOMAIN usage_events'
      /\ \A id \in DOMAIN usage_events :
            History[id] = [key |-> usage_events[id].key,
                           content |-> <<usage_events[id].group, usage_events[id].tokens>>,
                           price |-> usage_events[id].price]
      /\ \A id \in DOMAIN usage_events' :
            History'[id] = [key |-> usage_events'[id].key,
                            content |-> <<usage_events'[id].group, usage_events'[id].tokens>>,
                            price |-> usage_events'[id].price]
  BY DEF History
<1>3. \A id \in DOMAIN usage_events' : History'[id] \in Promise!Row
  BY <1>1, <1>2 DEF IsHistory, Event, Promise!Row
<1>4. \A id, other \in DOMAIN usage_events' : id # other => History'[id].key # History'[other].key
  <2>1. \A id, other \in DOMAIN usage_events' :
            id # other => usage_events'[id].key # usage_events'[other].key
    BY <1>1 DEF IsHistory
  <2>2. \A id \in DOMAIN usage_events' : History'[id].key = usage_events'[id].key
    BY <1>2
  <2>. QED BY <2>1, <2>2
<1>. QED BY <1>1, <1>2, <1>3, <1>4 DEF Promise!Append

(* The store implements its promise: through any calls of the write handle    *)
(* the history only grows, keys stay unique, and a row changes only by        *)
(* gaining its price.                                                         *)
THEOREM HistoryIsKept == Spec => HistoryKept
<1>1. Init => Promise!Init
  <2> SUFFICES ASSUME Init PROVE Promise!Init
    OBVIOUS
  <2>1. IsHistory(usage_events)
    BY LedgerAssumption DEF Init
  <2>. QED BY <2>1 DEF IsHistory, Event, History, Promise!Init, Promise!Row
<1>2. IsHistory(usage_events) /\ [Next]_vars => [Promise!Next]_History
  <2> SUFFICES ASSUME IsHistory(usage_events), [Next]_vars PROVE [Promise!Next]_History
    OBVIOUS
  <2>1. ASSUME NEW b \in Batches, ApplyBatch(b) PROVE Promise!Append
    BY <2>1, AppendRefines, LedgerAssumption DEF ApplyBatch, Batch
  <2>2. ASSUME NEW w \in SnapshotWrites, ApplySnapshot(w.events, w.cell, w.counter, w.cp)
        PROVE  Promise!Append
    BY <2>2, AppendRefines, LedgerAssumption DEF ApplySnapshot, upsertState, SnapshotWrite
  <2>3. CASE EnsureRollup
    BY <2>3 DEF EnsureRollup, EnsureUsageRollup, EnsureActivityCounts, History
  <2>4. ASSUME NEW rev \in Revision, SyncUnpriced(rev) PROVE Promise!FillPrices
    <3>1. /\ DOMAIN usage_events' = DOMAIN usage_events
          /\ \A id \in DOMAIN usage_events :
                \/ usage_events'[id] = usage_events[id]
                \/ /\ usage_events[id].price = NoPrice
                   /\ usage_events'[id].price \in Price
                   /\ usage_events'[id] =
                          [usage_events[id] EXCEPT !.price = usage_events'[id].price]
      BY <2>4, SyncUnpricedFills
    <3>2. \A id \in DOMAIN usage_events :
             usage_events[id] \in [key : Key, group : Group, tokens : Nat,
                                   price : Price \cup {NoPrice}]
      BY DEF IsHistory, Event
    <3>3. DOMAIN History = DOMAIN usage_events /\ DOMAIN History' = DOMAIN usage_events
      BY <3>1 DEF History
    <3>4. ASSUME NEW id \in DOMAIN usage_events
          PROVE  \/ History'[id] = History[id]
                 \/ /\ History[id].price = NoPrice
                    /\ History'[id].price \in Price
                    /\ History'[id] = [History[id] EXCEPT !.price = History'[id].price]
      BY <3>1, <3>2 DEF History
    <3>. QED BY <3>3, <3>4 DEF Promise!FillPrices
  <2>5. CASE UNCHANGED vars
    BY <2>5 DEF vars, History
  <2>. QED BY <2>1, <2>2, <2>3, <2>4, <2>5 DEF Next, Promise!Next
<1>. QED BY <1>1, <1>2, HistoryInvariant, PTL DEF Spec, HistoryKept, Promise!Spec

(* No step forgets a usage key or an activity key.                            *)
LEMMA KeysOnlyGrow ==
    ASSUME IsHistory(usage_events), [Next]_vars
    PROVE  RecordedKeys \subseteq RecordedKeys' /\ DOMAIN activity_events \subseteq DOMAIN activity_events'
<1>1. ASSUME NEW b \in Batches, ApplyBatch(b)
      PROVE  RecordedKeys \subseteq RecordedKeys' /\ DOMAIN activity_events \subseteq DOMAIN activity_events'
  <2>1. /\ DOMAIN usage_events \subseteq DOMAIN usage_events'
        /\ \A id \in DOMAIN usage_events : usage_events'[id] = usage_events[id]
    BY <1>1, InsertEventsExtends, LedgerAssumption DEF ApplyBatch, Batch
  <2>2. DOMAIN activity_events \subseteq DOMAIN activity_events'
    BY <1>1 DEF ApplyBatch, InsertActivity
  <2>. QED BY <2>1, <2>2 DEF RecordedKeys
<1>2. ASSUME NEW w \in SnapshotWrites, ApplySnapshot(w.events, w.cell, w.counter, w.cp)
      PROVE  RecordedKeys \subseteq RecordedKeys' /\ DOMAIN activity_events \subseteq DOMAIN activity_events'
  <2>1. /\ DOMAIN usage_events \subseteq DOMAIN usage_events'
        /\ \A id \in DOMAIN usage_events : usage_events'[id] = usage_events[id]
    BY <1>2, InsertEventsExtends, LedgerAssumption DEF ApplySnapshot, upsertState, SnapshotWrite
  <2>2. activity_events' = activity_events
    BY <1>2 DEF ApplySnapshot, upsertState, activityVars
  <2>. QED BY <2>1, <2>2 DEF RecordedKeys
<1>3. CASE EnsureRollup
  BY <1>3 DEF EnsureRollup, EnsureUsageRollup, EnsureActivityCounts, activityVars, RecordedKeys
<1>4. ASSUME NEW rev \in Revision, SyncUnpriced(rev)
      PROVE  RecordedKeys \subseteq RecordedKeys' /\ DOMAIN activity_events \subseteq DOMAIN activity_events'
  <2>1. /\ DOMAIN usage_events' = DOMAIN usage_events
        /\ \A id \in DOMAIN usage_events : usage_events'[id].key = usage_events[id].key
    <3>1. usage_events \in [DOMAIN usage_events -> Event]
      BY DEF IsHistory
    <3>. QED BY <1>4, <3>1, SyncUnpricedFills DEF Event
  <2>2. activity_events' = activity_events
    BY <1>4 DEF SyncUnpriced, activityVars
  <2>. QED BY <2>1, <2>2 DEF RecordedKeys
<1>5. CASE UNCHANGED vars
  BY <1>5 DEF vars, activityVars, RecordedKeys
<1>. QED BY <1>1, <1>2, <1>3, <1>4, <1>5 DEF Next

(* insertActivityTx records every acceptable row offered.                     *)
LEMMA ActivityLands ==
    ASSUME NEW acts \in Seq(ActivityRow), InsertActivity(acts)
    PROVE  \A i \in DOMAIN acts : acts[i].ok => acts[i].key \in DOMAIN activity_events'
<1> DEFINE new == {i \in DOMAIN acts :
                     /\ acts[i].ok
                     /\ acts[i].key \notin DOMAIN activity_events
                     /\ \A j \in 1 .. i - 1 : acts[j].ok => acts[j].key # acts[i].key}
<1>1. DOMAIN activity_events' = DOMAIN activity_events \cup {acts[i].key : i \in new}
  BY DEF InsertActivity
<1>2. ASSUME NEW i \in DOMAIN acts, acts[i].ok, acts[i].key \notin DOMAIN activity_events
      PROVE  acts[i].key \in {acts[j].key : j \in new}
  <2> DEFINE same == {j \in DOMAIN acts : acts[j].ok /\ acts[j].key = acts[i].key}
  <2>1. PICK j \in same : \A k \in same : j <= k
    <3>1. same \subseteq Nat /\ same # {}
      BY <1>2
    <3> HIDE DEF same
    <3>. QED BY <3>1, LeastElement
  <2>2. \A k \in 1 .. j - 1 : acts[k].ok => acts[k].key # acts[j].key
    BY <2>1
  <2>3. j \in new
    BY <1>2, <2>1, <2>2
  <2>. QED BY <2>1, <2>3
<1>. QED BY <1>1, <1>2

(* upsertCheckpoint leaves a source at its old checkpoint or at the new one.  *)
LEMMA CheckpointMoves ==
    ASSUME NEW cp, UpsertCheckpoint(cp), NEW s \in SourceId,
           source_checkpoints \in [SourceId -> Checkpoint \cup {None}]
    PROVE  source_checkpoints'[s] \in {source_checkpoints[s], cp}
BY DEF UpsertCheckpoint

(* A stored checkpoint never outruns its data, for all batches and sources:   *)
(* rows and checkpoint commit in one transaction (ApplyBatch, ApplySnapshot). *)
THEOREM CheckpointsAreCovered == Spec => []CheckpointCovered
<1> DEFINE Shape == source_checkpoints \in [SourceId -> Checkpoint \cup {None}]
<1>1. Init => Shape /\ CheckpointCovered
  BY DEF Init, CheckpointCovered
<1>2. ASSUME Shape, CheckpointCovered, IsHistory(usage_events), [Next]_vars
      PROVE  Shape' /\ CheckpointCovered'
  <2>1. \A events, acts : Landed(events, acts) => Landed(events, acts)'
    BY <1>2, KeysOnlyGrow DEF Landed
  <2>2. \A s \in SourceId : source_checkpoints'[s] = source_checkpoints[s]
             /\ source_checkpoints'[s] # None =>
           \/ \E b \in Batches : b.cp = source_checkpoints'[s] /\ Landed(b.events, b.activity)'
           \/ \E w \in SnapshotWrites : w.cp = source_checkpoints'[s] /\ Landed(w.events, <<>>)'
    BY <1>2, <2>1 DEF CheckpointCovered
  <2>3. ASSUME NEW b \in Batches, ApplyBatch(b) PROVE Shape' /\ CheckpointCovered'
    <3>1. UpsertCheckpoint(b.cp) /\ InsertEvents(b.events) /\ InsertActivity(b.activity)
      BY <2>3 DEF ApplyBatch
    <3>2. /\ b.events \in Seq(EventRow) /\ b.activity \in Seq(ActivityRow)
          /\ b.cp \in Checkpoint \cup {None}
      BY LedgerAssumption DEF Batch
    <3>3. Landed(b.events, b.activity)'
      BY <1>2, <3>1, <3>2, InsertEventsExtends, ActivityLands DEF Landed
    <3>4. Shape'
      BY <1>2, <3>1, <3>2 DEF UpsertCheckpoint, Checkpoint
    <3>. QED BY <1>2, <2>2, <3>1, <3>3, <3>4, CheckpointMoves DEF CheckpointCovered
  <2>4. ASSUME NEW w \in SnapshotWrites, ApplySnapshot(w.events, w.cell, w.counter, w.cp)
        PROVE  Shape' /\ CheckpointCovered'
    <3>1. w.events \in Seq(EventRow) /\ w.cp \in Checkpoint \cup {None}
      BY LedgerAssumption DEF SnapshotWrite
    <3>2. Landed(w.events, <<>>)'
      BY <1>2, <2>4, <3>1, InsertEventsExtends DEF ApplySnapshot, upsertState, Landed
    <3>3. CASE UpsertCheckpoint(w.cp)
      <4>1. Shape'
        BY <1>2, <3>1, <3>3 DEF UpsertCheckpoint, Checkpoint
      <4>. QED BY <1>2, <2>2, <3>2, <3>3, <4>1, CheckpointMoves DEF CheckpointCovered
    <3>4. CASE source_checkpoints' = source_checkpoints
      BY <1>2, <2>2, <3>4 DEF CheckpointCovered
    <3>. QED BY <2>4, <3>3, <3>4 DEF ApplySnapshot, upsertState
  <2>5. CASE source_checkpoints' = source_checkpoints
    BY <1>2, <2>2, <2>5 DEF CheckpointCovered
  <2>6. EnsureRollup \/ (\E rev \in Revision : SyncUnpriced(rev)) \/ UNCHANGED vars
           => source_checkpoints' = source_checkpoints
    BY DEF EnsureRollup, EnsureUsageRollup, EnsureActivityCounts, SyncUnpriced, vars
  <2>. QED BY <1>2, <2>3, <2>4, <2>5, <2>6 DEF Next
<1>. QED BY <1>1, <1>2, HistoryInvariant, PTL DEF Spec

(* A candidate SyncUnpriced does not look at lies above a full batch of those *)
(* it does: it takes the first BatchSize rows.                                *)
LEMMA CandidatesAreFirst ==
    ASSUME NEW rev, IsHistory(usage_events), price_sync.cursor \in Nat,
           NEW id \in Unpriced, id > StartCursor(rev), id \notin Candidates(rev)
    PROVE  /\ Cardinality(Candidates(rev)) = BatchSize
           /\ \A c \in Candidates(rev) : c < id
<1> DEFINE after == {o \in Unpriced : o > StartCursor(rev)}
           below(o) == {p \in after : p < o}
<1>1. Candidates(rev) = {o \in after : Cardinality(below(o)) < BatchSize}
  BY DEF Candidates
<1>2. BatchSize \in Nat \ {0}
  BY StoreAssumption
<1>3. MaxId(usage_events) \in Nat /\ after \subseteq 1 .. MaxId(usage_events)
  BY DEF IsHistory, Unpriced
<1>4. after \subseteq Nat /\ IsFiniteSet(after)
  <2>1. IsFiniteSet(1 .. MaxId(usage_events))
    BY <1>3, FS_Interval
  <2>2. 1 .. MaxId(usage_events) \subseteq Nat
    BY <1>3
  <2> HIDE DEF after
  <2>. QED BY <1>3, <2>1, <2>2, FS_Subset
<1>5. id \in after
  OBVIOUS
<1> HIDE DEF after
<1>6. ASSUME NEW o \in after
      PROVE  IsFiniteSet(below(o)) /\ Cardinality(below(o)) \in Nat
  <2>1. below(o) \subseteq after
    OBVIOUS
  <2> HIDE DEF below
  <2>. QED BY <1>4, <2>1, FS_Subset, FS_CardinalityType
<1>7. ASSUME NEW o \in after, NEW p \in after, o <= p
      PROVE  Cardinality(below(o)) <= Cardinality(below(p))
  <2>1. o \in Nat /\ p \in Nat
    BY <1>4
  <2>2. ASSUME NEW q \in after, q < o PROVE q < p
    <3>1. q \in Nat
      BY <1>4
    <3>. QED BY <1>7, <2>1, <2>2, <3>1
  <2>3. below(o) \subseteq below(p)
    BY <2>2
  <2>4. IsFiniteSet(below(p))
    BY <1>6
  <2> HIDE DEF below
  <2>. QED BY <2>3, <2>4, FS_Subset
<1> DEFINE count(o) == Cardinality(below(o))
           left == {o \in after : count(o) >= BatchSize}
<1>8. \A o \in after : count(o) \in Nat
  BY <1>6
<1>9. \A o, p \in after : o <= p => count(o) <= count(p)
  BY <1>7
<1>10. Candidates(rev) = {o \in after : count(o) < BatchSize}
  BY <1>1
<1>11. \A o : below(o) = {p \in after : p < o}
  OBVIOUS
<1>12. \A o \in after : IsFiniteSet(below(o))
  BY <1>6
<1>13. \A o : count(o) = Cardinality(below(o))
  OBVIOUS
<1> HIDE DEF below, count
<1>14. PICK low \in left : \A o \in left : low <= o
  <2>1. id \in left
    BY <1>2, <1>5, <1>8, <1>10
  <2>2. left \subseteq Nat /\ left # {}
    BY <1>4, <2>1
  <2> HIDE DEF left
  <2>. QED BY <2>2, LeastElement
<1>15. low \in after /\ count(low) >= BatchSize /\ low \in Nat
  BY <1>4, <1>14
<1>16. ASSUME NEW o \in after PROVE o \in Candidates(rev) <=> o < low
  <2>1. o \in Nat /\ count(o) \in Nat
    BY <1>4, <1>8
  <2>2. CASE o < low
    <3>1. o \notin left
      BY <1>14, <1>15, <2>1, <2>2
    <3>. QED BY <1>2, <1>10, <2>1, <2>2, <3>1
  <2>3. CASE ~(o < low)
    <3>1. count(low) <= count(o) /\ count(low) \in Nat
      BY <1>8, <1>9, <1>15, <2>1, <2>3
    <3>. QED BY <1>2, <1>10, <1>15, <2>1, <2>3, <3>1
  <2>. QED BY <2>2, <2>3
<1>17. Candidates(rev) = below(low)
  BY <1>10, <1>11, <1>16
<1>18. low <= id /\ id \in Nat
  BY <1>2, <1>4, <1>5, <1>8, <1>10, <1>14
<1>19. /\ Cardinality(Candidates(rev)) >= BatchSize
       /\ IsFiniteSet(Candidates(rev))
       /\ Cardinality(Candidates(rev)) \in Nat
  BY <1>8, <1>12, <1>13, <1>15, <1>17
<1>20. Cardinality(Candidates(rev)) <= BatchSize
  <2>1. Candidates(rev) # {} /\ Candidates(rev) \subseteq 0 .. MaxId(usage_events)
    <3>1. Cardinality({}) = 0
      BY FS_EmptySet
    <3>2. Candidates(rev) # {}
      BY <1>2, <1>19, <3>1
    <3>3. after \subseteq 0 .. MaxId(usage_events)
      BY <1>3
    <3>. QED BY <1>10, <3>2, <3>3
  <2>2. PICK g \in Candidates(rev) : \A c \in Candidates(rev) : c <= g
    BY <1>3, <2>1, GreatestElement
  <2>3. g \in after /\ g \in Nat /\ count(g) \in Nat /\ count(g) < BatchSize
    BY <1>4, <1>8, <1>10
  <2>4. ASSUME NEW o \in after PROVE o < g <=> o \in Candidates(rev) \ {g}
    <3>1. o \in Nat
      BY <1>4
    <3>2. g < low
      BY <1>16, <2>3
    <3>3. CASE o < g
      BY <1>15, <1>16, <2>3, <3>1, <3>2, <3>3
    <3>4. CASE o \in Candidates(rev) \ {g}
      BY <2>2, <2>3, <3>1, <3>4
    <3>. QED BY <3>3, <3>4
  <2>5. below(g) = Candidates(rev) \ {g}
    BY <1>10, <1>11, <2>4
  <2>6. count(g) = Cardinality(Candidates(rev)) - 1
    BY <1>13, <1>19, <2>5, FS_RemoveElement
  <2>. QED BY <1>2, <1>19, <2>3, <2>6
<1>21. \A c \in Candidates(rev) : c < id
  <2>1. ASSUME NEW c \in Candidates(rev) PROVE c < id
    <3>1. c \in after /\ c \in Nat
      BY <1>4, <1>10
    <3>2. c < low
      BY <1>16, <3>1
    <3>. QED BY <1>15, <1>18, <3>1, <3>2
  <2>. QED BY <2>1
<1>. QED BY <1>2, <1>19, <1>20, <1>21

(* What the induction for CursorSound carries: the cursor never points past   *)
(* the last row, so that rows inserted later always lie above it.             *)
CursorInv ==
    /\ price_sync \in [revision : Revision \cup {None}, cursor : Nat]
    /\ price_sync.cursor <= MaxId(usage_events)
    /\ CursorSound

(* Inserting rows keeps CursorInv: the rows at or below the cursor are the    *)
(* ones that were there.                                                      *)
LEMMA InsertKeepsCursor ==
    ASSUME NEW events \in Seq(EventRow), IsHistory(usage_events), CursorInv,
           InsertEvents(events), UNCHANGED price_sync
    PROVE  CursorInv'
<1>1. /\ IsHistory(usage_events)'
      /\ DOMAIN usage_events \subseteq DOMAIN usage_events'
      /\ \A id \in DOMAIN usage_events : usage_events'[id] = usage_events[id]
      /\ \A id \in DOMAIN usage_events' \ DOMAIN usage_events : id > MaxId(usage_events)
  BY InsertEventsExtends
<1>2. MaxId(usage_events) \in Nat /\ MaxId(usage_events)' \in Nat
  BY <1>1 DEF IsHistory
<1>3. DOMAIN usage_events \subseteq Nat /\ DOMAIN usage_events' \subseteq Nat
  BY <1>1 DEF IsHistory
<1>4. MaxId(usage_events) <= MaxId(usage_events)'
  <2>1. CASE DOMAIN usage_events = {}
    BY <1>2, <2>1 DEF MaxId
  <2>2. CASE DOMAIN usage_events # {}
    <3>1. MaxId(usage_events) \in DOMAIN usage_events
      <4>1. DOMAIN usage_events \subseteq 0 .. MaxId(usage_events)
        BY <1>2 DEF IsHistory
      <4> DEFINE n == MaxId(usage_events)
      <4>2. n \in Nat /\ DOMAIN usage_events \subseteq 0 .. n
        BY <1>2, <4>1
      <4> HIDE DEF n
      <4>3. Max(DOMAIN usage_events) \in DOMAIN usage_events
        BY <2>2, <4>2, GreatestElement
      <4>. QED BY <2>2, <4>3 DEF MaxId
    <3>2. DOMAIN usage_events' \subseteq 1 .. MaxId(usage_events)'
      BY <1>1 DEF IsHistory
    <3>. QED BY <1>1, <1>2, <3>1, <3>2
  <2>. QED BY <2>1, <2>2
<1>5. price_sync'.cursor \in Nat /\ price_sync'.cursor <= MaxId(usage_events)
  BY DEF CursorInv
<1>6. ASSUME price_sync.revision # None, NEW id \in Unpriced', id <= price_sync.cursor
      PROVE  ~Acceptable(PriceEvent[price_sync.revision][usage_events'[id].group])
  <2>1. id \in DOMAIN usage_events' /\ usage_events'[id].price = NoPrice
    BY DEF Unpriced
  <2>2. id \in DOMAIN usage_events
    BY <1>1, <1>2, <1>3, <1>5, <1>6, <2>1
  <2>3. id \in Unpriced
    BY <1>1, <2>1, <2>2 DEF Unpriced
  <2>4. ~Acceptable(Quote(price_sync.revision, id))
    BY <1>6, <2>3 DEF CursorInv, CursorSound
  <2>. QED BY <1>1, <2>2, <2>4 DEF Quote
<1>7. CursorSound'
  BY <1>6 DEF CursorSound, Quote
<1>. QED BY <1>2, <1>4, <1>5, <1>7 DEF CursorInv

(* A price sync re-establishes CursorInv: a row it leaves unpriced at or      *)
(* below the new cursor was passed before under the same revision, or was     *)
(* looked at now and refused.                                                 *)
LEMMA SyncMovesCursor ==
    ASSUME NEW rev \in Revision, IsHistory(usage_events), CursorInv, SyncUnpriced(rev)
    PROVE  CursorInv'
<1> DEFINE found == Candidates(rev)
           top   == MaxId(usage_events)
<1>1. /\ DOMAIN usage_events' = DOMAIN usage_events
      /\ MaxId(usage_events)' = top
      /\ top \in Nat /\ DOMAIN usage_events \subseteq 1 .. top
  <2>1. DOMAIN usage_events' = DOMAIN usage_events
    BY SyncUnpricedFills
  <2>. QED BY <2>1 DEF MaxId, IsHistory
<1>2. price_sync' = [revision |-> rev,
                     cursor |-> IF Cardinality(found) = BatchSize THEN Max(found) ELSE top]
  BY DEF SyncUnpriced
<1>3. found \subseteq Unpriced /\ Unpriced \subseteq DOMAIN usage_events
  BY DEF Candidates, Unpriced
<1>4. Cardinality(found) = BatchSize =>
          /\ Max(found) \in found /\ Max(found) \in Nat /\ Max(found) <= top
  <2>1. SUFFICES ASSUME Cardinality(found) = BatchSize
                 PROVE  Max(found) \in found /\ Max(found) \in Nat /\ Max(found) <= top
    OBVIOUS
  <2>2. found # {}
    <3>1. Cardinality({}) = 0
      BY FS_EmptySet
    <3>. QED BY <2>1, <3>1, StoreAssumption
  <2>3. found \subseteq 0 .. top
    BY <1>1, <1>3
  <2> HIDE DEF found, top
  <2>4. Max(found) \in found
    BY <1>1, <2>2, <2>3, GreatestElement
  <2>5. \A k \in 0 .. top : k \in Nat /\ k <= top
    BY <1>1
  <2>. QED BY <2>3, <2>4, <2>5
<1>5. /\ price_sync'.revision = rev
      /\ price_sync'.cursor \in Nat /\ price_sync'.cursor <= top
  BY <1>1, <1>2, <1>4
<1>6. ASSUME NEW id \in Unpriced', id <= price_sync'.cursor
      PROVE  ~Acceptable(PriceEvent[rev][usage_events'[id].group])
  <2>1. id \in DOMAIN usage_events /\ usage_events'[id].price = NoPrice
    BY <1>1 DEF Unpriced
  <2>2. /\ usage_events'[id] = usage_events[id]
    BY <2>1, SyncUnpricedFills, StoreAssumption
  <2>3. id \in Unpriced
    BY <2>1, <2>2 DEF Unpriced
  <2>4. id \in Nat /\ id >= 1
    BY <1>1, <2>1
  <2>5. CASE id \in found
    <3>1. SUFFICES ASSUME Acceptable(Quote(rev, id)) PROVE FALSE
      BY <2>2 DEF Quote
    <3>2. usage_events'[id] = [usage_events[id] EXCEPT !.price =
                                 [micro |-> Quote(rev, id).micro, class |-> "computed"]]
      BY <2>1, <2>5, <3>1 DEF SyncUnpriced, Priced
    <3>3. usage_events[id] \in [key : Key, group : Group, tokens : Nat,
                                price : Price \cup {NoPrice}]
      BY <2>1 DEF IsHistory, Event
    <3>4. usage_events'[id].price = [micro |-> Quote(rev, id).micro, class |-> "computed"]
      BY <3>2, <3>3
    <3>5. PriceEvent[rev][usage_events[id].group] \in PriceQuote \cup {NoPrice}
      BY <3>3, StoreAssumption
    <3>6. usage_events'[id].price \in Price
      BY <3>1, <3>4, <3>5 DEF Acceptable, Quote, PriceQuote, Price
    <3>. QED BY <2>1, <3>6, StoreAssumption
  <2>6. CASE id \notin found /\ id > StartCursor(rev)
    <3>1. price_sync.cursor \in Nat
      BY DEF CursorInv
    <3>2. Cardinality(found) = BatchSize /\ \A c \in found : c < id
      BY <2>3, <2>6, <3>1, CandidatesAreFirst
    <3>3. price_sync'.cursor = Max(found) /\ Max(found) \in found /\ Max(found) \in Nat
      BY <1>2, <1>4, <3>2
    <3>. QED BY <1>6, <2>4, <3>2, <3>3
  <2>7. CASE ~(id > StartCursor(rev))
    <3>1. StartCursor(rev) \in Nat
      BY DEF StartCursor, CursorInv
    <3>2. price_sync.revision = rev /\ StartCursor(rev) = price_sync.cursor
      BY <2>4, <2>7, <3>1 DEF StartCursor
    <3>3. ~Acceptable(Quote(rev, id))
      <4>1. id <= price_sync.cursor
        BY <2>4, <2>7, <3>1, <3>2
      <4>2. rev # None
        BY StoreAssumption
      <4>. QED BY <2>3, <3>2, <4>1, <4>2 DEF CursorInv, CursorSound
    <3>. QED BY <2>2, <3>3 DEF Quote
  <2>. QED BY <2>5, <2>6, <2>7
<1>7. CursorSound'
  BY <1>5, <1>6 DEF CursorSound, Quote
<1>8. price_sync' \in [revision : Revision \cup {None}, cursor : Nat]
  BY <1>2, <1>5
<1>. QED BY <1>1, <1>5, <1>7, <1>8 DEF CursorInv

(* CursorInv is an invariant of the specification.                            *)
LEMMA CursorInvariant == Spec => []CursorInv
<1>1. Init => CursorInv
  <2> SUFFICES ASSUME Init PROVE CursorInv
    OBVIOUS
  <2>1. MaxId(usage_events) \in Nat
    BY LedgerAssumption DEF Init, IsHistory
  <2>. QED BY <2>1 DEF Init, CursorInv, CursorSound
<1>2. ASSUME IsHistory(usage_events), CursorInv, [Next]_vars PROVE CursorInv'
  <2>1. ASSUME NEW b \in Batches, ApplyBatch(b) PROVE CursorInv'
    BY <1>2, <2>1, InsertKeepsCursor, LedgerAssumption DEF ApplyBatch, Batch
  <2>2. ASSUME NEW w \in SnapshotWrites, ApplySnapshot(w.events, w.cell, w.counter, w.cp)
        PROVE  CursorInv'
    BY <1>2, <2>2, InsertKeepsCursor, LedgerAssumption DEF ApplySnapshot, upsertState, SnapshotWrite
  <2>3. CASE EnsureRollup
    BY <1>2, <2>3 DEF EnsureRollup, EnsureUsageRollup, EnsureActivityCounts, CursorInv, CursorSound, Unpriced, Quote
  <2>4. ASSUME NEW rev \in Revision, SyncUnpriced(rev) PROVE CursorInv'
    BY <1>2, <2>4, SyncMovesCursor
  <2>5. CASE UNCHANGED vars
    BY <1>2, <2>5 DEF vars, CursorInv, CursorSound, Unpriced, Quote
  <2>. QED BY <1>2, <2>1, <2>2, <2>3, <2>4, <2>5 DEF Next
<1>. QED BY <1>1, <1>2, HistoryInvariant, PTL DEF Spec

(* The persisted price cursor never hides a row the recorded revision could   *)
(* price, for every batch size, table and sequence of writes (SyncUnpriced).  *)
THEOREM CursorIsSound == Spec => []CursorSound
<1>1. CursorInv => CursorSound
  BY DEF CursorInv
<1>. QED BY <1>1, CursorInvariant, PTL

(* A batch holds finitely many rows of each kind.                             *)
LEMMA PositionsAreFinite ==
    ASSUME NEW Row, NEW rows \in Seq(Row), NEW S, S \subseteq DOMAIN rows
    PROVE  IsFiniteSet(S)
<1>1. Len(rows) \in Nat /\ DOMAIN rows = 1 .. Len(rows)
  OBVIOUS
<1>2. IsFiniteSet(1 .. Len(rows))
  BY <1>1, FS_Interval
<1>. QED BY <1>1, <1>2, FS_Subset

(* Of the snapshots offered for one code change there is a newest, and among  *)
(* the newest a last: upsertCodeChangesTx has a well-defined winner.          *)
LEMMA NewestLastExists ==
    ASSUME NEW changes \in Seq(ChangeRow), NEW S, S \subseteq DOMAIN changes, S # {}
    PROVE  \E i \in S : \A j \in S :
              \/ changes[j].at < changes[i].at
              \/ changes[j].at = changes[i].at /\ j <= i
<1> DEFINE beats(j, i) == \/ changes[j].at > changes[i].at
                          \/ changes[j].at = changes[i].at /\ j > i
           better(i) == {j \in S : beats(j, i)}
           count(i) == Cardinality(better(i))
<1>1. \A i \in S : i \in Nat /\ changes[i].at \in Nat
  <2>1. \A i \in DOMAIN changes : i \in Nat /\ changes[i] \in ChangeRow
    OBVIOUS
  <2>. QED BY <2>1 DEF ChangeRow
<1>2. IsFiniteSet(S)
  BY PositionsAreFinite
<1>3. \A i \in S : better(i) \subseteq S
  OBVIOUS
<1>4. \A i \in S : IsFiniteSet(better(i)) /\ count(i) \in Nat
  <2> HIDE DEF better
  <2>. QED BY <1>2, <1>3, FS_Subset, FS_CardinalityType
<1>5. \A i, j \in S : beats(j, i) => better(j) \subseteq better(i) /\ better(j) # better(i)
  <2> SUFFICES ASSUME NEW i \in S, NEW j \in S, beats(j, i)
               PROVE  better(j) \subseteq better(i) /\ better(j) # better(i)
    OBVIOUS
  <2>1. ASSUME NEW k \in S, beats(k, j) PROVE beats(k, i)
    BY <1>1, <2>1
  <2>2. ~beats(j, j)
    BY <1>1
  <2>3. j \in better(i) /\ j \notin better(j)
    BY <2>2
  <2>. QED BY <2>1, <2>3
<1>6. \A i, j \in S : beats(j, i) => count(j) < count(i)
  <2> SUFFICES ASSUME NEW i \in S, NEW j \in S, beats(j, i) PROVE count(j) < count(i)
    OBVIOUS
  <2>1. better(j) \subseteq better(i) /\ better(j) # better(i)
    BY <1>5
  <2>2. IsFiniteSet(better(i)) /\ count(i) \in Nat /\ count(j) \in Nat
    BY <1>4
  <2> HIDE DEF better
  <2>3. Cardinality(better(j)) <= Cardinality(better(i))
        /\ Cardinality(better(j)) # Cardinality(better(i))
    BY <2>1, <2>2, FS_Subset
  <2>. QED BY <2>2, <2>3
<1> HIDE DEF count
<1>7. PICK i \in S : \A j \in S : count(i) <= count(j)
  <2> DEFINE counts == {count(i) : i \in S}
  <2>1. counts \subseteq Nat /\ counts # {}
    BY <1>4
  <2>2. \E n \in counts : \A k \in counts : n <= k
    <3> HIDE DEF counts
    <3>. QED BY <2>1, LeastElement
  <2>. QED BY <2>2
<1>8. ASSUME NEW j \in S PROVE ~beats(j, i)
  <2>1. count(i) \in Nat /\ count(j) \in Nat /\ count(i) <= count(j)
    BY <1>4, <1>7
  <2>2. beats(j, i) => count(j) < count(i)
    BY <1>6
  <2> HIDE DEF beats
  <2>. QED BY <2>1, <2>2
<1>. QED BY <1>1, <1>8

(* What upsertCodeChangesTx leaves in a row: what was there, or an offered    *)
(* snapshot that is no older.                                                 *)
LEMMA CodeChangeMoves ==
    ASSUME NEW changes \in Seq(ChangeRow), UpsertCodeChanges(changes), NEW c \in ChangeId
    PROVE  \/ code_changes'[c] = code_changes[c]
           \/ \E i \in DOMAIN changes :
                 /\ code_changes'[c] = [at |-> changes[i].at, lines |-> changes[i].lines]
                 /\ code_changes[c] = None \/ changes[i].at >= code_changes[c].at
<1> DEFINE offered == {i \in DOMAIN changes :
                         /\ changes[i].id = c
                         /\ code_changes[c] = None \/ changes[i].at >= code_changes[c].at}
           winner == CHOOSE i \in offered : \A j \in offered :
                         \/ changes[j].at < changes[i].at
                         \/ changes[j].at = changes[i].at /\ j <= i
<1>1. code_changes'[c] = IF offered = {} THEN code_changes[c]
                         ELSE [at |-> changes[winner].at, lines |-> changes[winner].lines]
  BY DEF UpsertCodeChanges
<1>2. ASSUME offered # {} PROVE winner \in offered
  <2>1. offered \subseteq DOMAIN changes
    OBVIOUS
  <2> HIDE DEF offered
  <2>. QED BY <1>2, <2>1, NewestLastExists
<1>. QED BY <1>1, <1>2

(* A code-change snapshot never goes back to an older one, whatever batches   *)
(* arrive and in whatever order (upsertCodeChangesTx).                        *)
THEOREM CodeChangesOnlyAdvance == Spec => CodeChangesNeverRegress
<1> DEFINE Typed == code_changes \in [ChangeId -> [at : Nat, lines : Nat] \cup {None}]
           Forward == \A c \in ChangeId : code_changes[c] # None =>
                         code_changes'[c] # None /\ code_changes'[c].at >= code_changes[c].at
<1>1. Init => Typed
  BY DEF Init
<1>2. ASSUME Typed, [Next]_vars PROVE Typed' /\ [Forward]_code_changes
  <2>1. ASSUME NEW b \in Batches, ApplyBatch(b) PROVE Typed' /\ Forward
    <3>1. b.changes \in Seq(ChangeRow) /\ UpsertCodeChanges(b.changes)
      BY <2>1, LedgerAssumption DEF Batch, ApplyBatch
    <3>2. \A i \in DOMAIN b.changes : b.changes[i].at \in Nat /\ b.changes[i].lines \in Nat
      <4>1. \A i \in DOMAIN b.changes : b.changes[i] \in ChangeRow
        BY <3>1
      <4>. QED BY <4>1 DEF ChangeRow
    <3>3. ASSUME NEW c \in ChangeId
          PROVE  /\ code_changes'[c] \in [at : Nat, lines : Nat] \cup {None}
                 /\ code_changes[c] # None =>
                      code_changes'[c] # None /\ code_changes'[c].at >= code_changes[c].at
      <4>1. CASE code_changes'[c] = code_changes[c]
        BY <1>2, <4>1
      <4>2. ASSUME NEW i \in DOMAIN b.changes,
                   code_changes'[c] = [at |-> b.changes[i].at, lines |-> b.changes[i].lines],
                   code_changes[c] = None \/ b.changes[i].at >= code_changes[c].at
            PROVE  /\ code_changes'[c] \in [at : Nat, lines : Nat] \cup {None}
                   /\ code_changes[c] # None =>
                        code_changes'[c] # None /\ code_changes'[c].at >= code_changes[c].at
        BY <3>2, <4>2, StoreAssumption
      <4>. QED BY <3>1, <4>1, <4>2, CodeChangeMoves
    <3>4. code_changes' = [c \in ChangeId |-> code_changes'[c]]
      BY <3>1 DEF UpsertCodeChanges
    <3>. QED BY <3>3, <3>4
  <2>2. ASSUME NEW w \in SnapshotWrites, ApplySnapshot(w.events, w.cell, w.counter, w.cp)
        PROVE  UNCHANGED code_changes
    BY <2>2 DEF ApplySnapshot, upsertState, sideVars
  <2>3. CASE EnsureRollup
    BY <1>2, <2>3 DEF EnsureRollup, EnsureUsageRollup, EnsureActivityCounts, activityVars, sideVars
  <2>4. ASSUME NEW rev \in Revision, SyncUnpriced(rev) PROVE UNCHANGED code_changes
    BY <2>4 DEF SyncUnpriced, sideVars
  <2>5. CASE UNCHANGED vars
    BY <1>2, <2>5 DEF vars, sideVars
  <2>. QED BY <1>2, <2>1, <2>2, <2>3, <2>4, <2>5 DEF Next
<1>. QED BY <1>1, <1>2, PTL DEF Spec, CodeChangesNeverRegress

(* The activity and turn-context ledgers are append-only for every sequence   *)
(* of batches (insertActivityTx, insertTurnContextsTx).                       *)
THEOREM SideLedgersOnlyGrow == Spec => SideLedgersAppendOnly
<1> DEFINE Kept ==
      /\ \A a \in DOMAIN activity_events :
            a \in DOMAIN activity_events' /\ activity_events'[a] = activity_events[a]
      /\ \A k \in DOMAIN usage_turn_context :
            k \in DOMAIN usage_turn_context' /\ usage_turn_context'[k] = usage_turn_context[k]
<1>1. ASSUME [Next]_vars PROVE [Kept]_<<activity_events, usage_turn_context>>
  <2>1. ASSUME NEW b \in Batches, ApplyBatch(b) PROVE Kept
    <3>1. \A a \in DOMAIN activity_events :
             a \in DOMAIN activity_events' /\ activity_events'[a] = activity_events[a]
      BY <2>1 DEF ApplyBatch, InsertActivity
    <3>2. \A k \in DOMAIN usage_turn_context :
             k \in DOMAIN usage_turn_context' /\ usage_turn_context'[k] = usage_turn_context[k]
      BY <2>1 DEF ApplyBatch, InsertTurnContexts
    <3>. QED BY <3>1, <3>2
  <2>2. ASSUME NEW w \in SnapshotWrites, ApplySnapshot(w.events, w.cell, w.counter, w.cp)
        PROVE  UNCHANGED <<activity_events, usage_turn_context>>
    BY <2>2 DEF ApplySnapshot, upsertState, activityVars, sideVars
  <2>3. CASE EnsureRollup
    BY <2>3 DEF EnsureRollup, EnsureUsageRollup, EnsureActivityCounts, activityVars, sideVars
  <2>4. ASSUME NEW rev \in Revision, SyncUnpriced(rev)
        PROVE  UNCHANGED <<activity_events, usage_turn_context>>
    BY <2>4 DEF SyncUnpriced, activityVars, sideVars
  <2>5. CASE UNCHANGED vars
    BY <2>5 DEF vars, activityVars, sideVars
  <2>. QED BY <1>1, <2>1, <2>2, <2>3, <2>4, <2>5 DEF Next
<1>. QED BY <1>1, PTL DEF Spec, SideLedgersAppendOnly

(* Of the activity rows offered, the new ones are finitely many, and so are   *)
(* the keys they add.                                                         *)
LEMMA ActivityTyped ==
    ASSUME NEW acts \in Seq(ActivityRow), InsertActivity(acts),
           DOMAIN activity_events \subseteq ActivityKey,
           IsFiniteSet(DOMAIN activity_events),
           activity_events \in [DOMAIN activity_events -> Key \cup {None}],
           activity_usage_counts \in [Key -> Nat]
    PROVE  /\ DOMAIN activity_events' \subseteq ActivityKey
           /\ IsFiniteSet(DOMAIN activity_events')
           /\ activity_events' \in [DOMAIN activity_events' -> Key \cup {None}]
           /\ activity_usage_counts' \in [Key -> Nat]
<1> DEFINE new == {i \in DOMAIN acts :
                     /\ acts[i].ok
                     /\ acts[i].key \notin DOMAIN activity_events
                     /\ \A j \in 1 .. i - 1 : acts[j].ok => acts[j].key # acts[i].key}
           keys == {acts[i].key : i \in new}
<1>1. \A i \in DOMAIN acts : acts[i].key \in ActivityKey /\ acts[i].usage \in Key \cup {None}
  <2>1. \A i \in DOMAIN acts : acts[i] \in ActivityRow
    OBVIOUS
  <2>. QED BY <2>1 DEF ActivityRow
<1>2. /\ activity_events' = [a \in DOMAIN activity_events \cup keys |->
             IF a \in keys THEN acts[CHOOSE i \in new : acts[i].key = a].usage
                           ELSE activity_events[a]]
      /\ activity_usage_counts' = [k \in Key |->
             activity_usage_counts[k] + Cardinality({i \in new : acts[i].usage = k})]
  BY DEF InsertActivity
<1>3. new \subseteq DOMAIN acts /\ IsFiniteSet(new)
  <2>1. new \subseteq DOMAIN acts
    OBVIOUS
  <2> HIDE DEF new
  <2>. QED BY <2>1, PositionsAreFinite
<1>4. keys \subseteq ActivityKey
  BY <1>1, <1>3
<1>5. \A a \in keys : acts[CHOOSE i \in new : acts[i].key = a].usage \in Key \cup {None}
  <2>1. ASSUME NEW a \in keys PROVE (CHOOSE i \in new : acts[i].key = a) \in new
    <3>1. \E i \in new : acts[i].key = a
      OBVIOUS
    <3> HIDE DEF new
    <3>. QED BY <3>1
  <2>. QED BY <1>1, <1>3, <2>1
<1>6. IsFiniteSet(keys)
  <2> DEFINE f == [i \in new |-> acts[i].key]
  <2>1. f \in Surjection(new, keys)
    BY DEF Surjection
  <2> HIDE DEF f, keys, new
  <2>. QED BY <1>3, <2>1, FS_Surjection
<1>7. ASSUME NEW k \in Key PROVE activity_usage_counts'[k] \in Nat
  <2> DEFINE naming == {i \in new : acts[i].usage = k}
  <2>1. naming \subseteq new
    OBVIOUS
  <2>2. activity_usage_counts'[k] = activity_usage_counts[k] + Cardinality(naming)
    BY <1>2
  <2> HIDE DEF naming, new
  <2>3. Cardinality(naming) \in Nat
    BY <1>3, <2>1, FS_Subset, FS_CardinalityType
  <2>. QED BY <2>2, <2>3
<1>8. activity_usage_counts' = [k \in Key |-> activity_usage_counts'[k]]
  BY <1>2
<1>9. DOMAIN activity_events' = DOMAIN activity_events \cup keys
  BY <1>2
<1> HIDE DEF keys, new
<1>10. IsFiniteSet(DOMAIN activity_events')
  BY <1>6, <1>9, FS_Union
<1>11. activity_events' \in [DOMAIN activity_events' -> Key \cup {None}]
  BY <1>2, <1>5, <1>9
<1>. QED BY <1>4, <1>7, <1>8, <1>9, <1>10, <1>11

(* The watermark stays an id, or absent, when rows are inserted.              *)
LEMMA WatermarkTyped ==
    ASSUME NEW events \in Seq(EventRow), IsHistory(usage_events), InsertEvents(events),
           DOMAIN usage_rollup = Cell, rollup_watermark \in Nat \cup {None}
    PROVE  DOMAIN usage_rollup' = Cell /\ rollup_watermark' \in Nat \cup {None}
<1> DEFINE base == MaxId(usage_events)
           new == {base + i : i \in Fresh(events)}
           marks == new \cup {Watermark}
<1>1. base \in Nat /\ Len(events) \in Nat /\ Watermark \in Nat
  BY DEF IsHistory, Watermark
<1>2. Fresh(events) \subseteq 1 .. Len(events)
  BY DEF Fresh
<1>3. \/ UNCHANGED rollupVars
      \/ DOMAIN usage_rollup' = Cell /\ rollup_watermark' = Max(marks)
  BY DEF InsertEvents
<1>4. Max(marks) \in Nat
  <2> DEFINE n == base + Len(events) + Watermark
  <2>1. n \in Nat
    BY <1>1
  <2> HIDE DEF base
  <2>2. \A i \in 1 .. Len(events) : base + i \in 0 .. n
    BY <1>1
  <2>3. Watermark \in 0 .. n
    BY <1>1
  <2>4. marks \subseteq 0 .. n /\ marks # {}
    BY <1>2, <2>2, <2>3
  <2> HIDE DEF n, marks
  <2>5. Max(marks) \in marks
    BY <2>1, <2>4, GreatestElement
  <2>6. 0 .. n \subseteq Nat
    BY <2>1
  <2>. QED BY <2>4, <2>5, <2>6
<1>. QED BY <1>3, <1>4 DEF rollupVars

(* What the induction for TypeOK carries besides the history and the cursor.  *)
TypeInv ==
    /\ DOMAIN usage_rollup = Cell
    /\ rollup_watermark \in Nat \cup {None}
    /\ DOMAIN activity_events \subseteq ActivityKey
    /\ IsFiniteSet(DOMAIN activity_events)
    /\ activity_events \in [DOMAIN activity_events -> Key \cup {None}]
    /\ activity_usage_counts \in [Key -> Nat]
    /\ DOMAIN usage_turn_context \subseteq Key \X Dimension
    /\ code_changes \in [ChangeId -> [at : Nat, lines : Nat] \cup {None}]
    /\ source_checkpoints \in [SourceId -> Checkpoint \cup {None}]
    /\ aggregate_state \in [AccKey -> Nat \cup {None}]

(* ApplyBatch keeps every table in shape.                                     *)
LEMMA BatchKeepsTypes ==
    ASSUME NEW b \in Batches, ApplyBatch(b), IsHistory(usage_events), TypeInv
    PROVE  TypeInv'
<1>1. /\ b.events \in Seq(EventRow) /\ b.activity \in Seq(ActivityRow)
      /\ b.contexts \in Seq(ContextRow) /\ b.changes \in Seq(ChangeRow)
      /\ b.cp \in Checkpoint \cup {None}
  BY LedgerAssumption DEF Batch
<1>2. /\ InsertEvents(b.events) /\ InsertActivity(b.activity)
      /\ InsertTurnContexts(b.contexts) /\ UpsertCodeChanges(b.changes)
      /\ UpsertCheckpoint(b.cp) /\ UNCHANGED aggregate_state
  BY DEF ApplyBatch
<1>3. DOMAIN usage_rollup' = Cell /\ rollup_watermark' \in Nat \cup {None}
  BY <1>1, <1>2, WatermarkTyped DEF TypeInv
<1>4. /\ DOMAIN activity_events' \subseteq ActivityKey
      /\ IsFiniteSet(DOMAIN activity_events')
      /\ activity_events' \in [DOMAIN activity_events' -> Key \cup {None}]
      /\ activity_usage_counts' \in [Key -> Nat]
  BY <1>1, <1>2, ActivityTyped DEF TypeInv
<1>5. DOMAIN usage_turn_context' \subseteq Key \X Dimension
  <2>1. \A i \in DOMAIN b.contexts : <<b.contexts[i].usage, b.contexts[i].dimension>> \in Key \X Dimension
    <3>1. \A i \in DOMAIN b.contexts : b.contexts[i] \in ContextRow
      BY <1>1
    <3>. QED BY <3>1 DEF ContextRow
  <2>2. DOMAIN usage_turn_context \subseteq Key \X Dimension
    BY DEF TypeInv
  <2>3. ASSUME NEW k \in DOMAIN usage_turn_context'
        PROVE  \/ k \in DOMAIN usage_turn_context
               \/ \E i \in DOMAIN b.contexts :
                     k = <<b.contexts[i].usage, b.contexts[i].dimension>>
    BY <1>2, <2>3 DEF InsertTurnContexts
  <2>. QED BY <2>1, <2>2, <2>3
<1>6. code_changes' \in [ChangeId -> [at : Nat, lines : Nat] \cup {None}]
  <2>1. \A i \in DOMAIN b.changes : b.changes[i].at \in Nat /\ b.changes[i].lines \in Nat
    <3>1. \A i \in DOMAIN b.changes : b.changes[i] \in ChangeRow
      BY <1>1
    <3>. QED BY <3>1 DEF ChangeRow
  <2>2. ASSUME NEW c \in ChangeId
        PROVE  code_changes'[c] \in [at : Nat, lines : Nat] \cup {None}
    <3>1. code_changes[c] \in [at : Nat, lines : Nat] \cup {None}
      BY DEF TypeInv
    <3>2. ASSUME NEW i \in DOMAIN b.changes,
                 code_changes'[c] = [at |-> b.changes[i].at, lines |-> b.changes[i].lines]
          PROVE  code_changes'[c] \in [at : Nat, lines : Nat]
      BY <2>1, <3>2
    <3>. QED BY <1>1, <1>2, <3>1, <3>2, CodeChangeMoves
  <2>3. code_changes' = [c \in ChangeId |-> code_changes'[c]]
    BY <1>2 DEF UpsertCodeChanges
  <2>. QED BY <2>2, <2>3
<1>7. source_checkpoints' \in [SourceId -> Checkpoint \cup {None}]
  BY <1>1, <1>2 DEF TypeInv, UpsertCheckpoint, Checkpoint
<1>. QED BY <1>2, <1>3, <1>4, <1>5, <1>6, <1>7 DEF TypeInv

(* ApplySnapshot keeps every table in shape.                                  *)
LEMMA SnapshotKeepsTypes ==
    ASSUME NEW w \in SnapshotWrites, ApplySnapshot(w.events, w.cell, w.counter, w.cp),
           IsHistory(usage_events), TypeInv
    PROVE  TypeInv'
<1>1. /\ w.events \in Seq(EventRow) /\ w.cell \in AccKey /\ w.counter \in Nat
      /\ w.cp \in Checkpoint \cup {None}
  BY LedgerAssumption DEF SnapshotWrite
<1>2. /\ InsertEvents(w.events)
      /\ UNCHANGED <<activity_events, activity_usage_counts, usage_turn_context, code_changes>>
      /\ \/ /\ aggregate_state' = [aggregate_state EXCEPT ![w.cell] = w.counter]
            /\ UpsertCheckpoint(w.cp)
         \/ UNCHANGED <<aggregate_state, source_checkpoints>>
  BY DEF ApplySnapshot, upsertState, activityVars, sideVars
<1>3. DOMAIN usage_rollup' = Cell /\ rollup_watermark' \in Nat \cup {None}
  BY <1>1, <1>2, WatermarkTyped DEF TypeInv
<1>4. source_checkpoints' \in [SourceId -> Checkpoint \cup {None}]
  BY <1>1, <1>2 DEF TypeInv, UpsertCheckpoint, Checkpoint
<1>5. aggregate_state' \in [AccKey -> Nat \cup {None}]
  BY <1>1, <1>2 DEF TypeInv
<1>. QED BY <1>2, <1>3, <1>4, <1>5 DEF TypeInv

(* EnsureRollup keeps every table in shape.                                   *)
LEMMA EnsureKeepsTypes ==
    ASSUME EnsureRollup, IsHistory(usage_events), TypeInv
    PROVE  TypeInv'
<1>1. DOMAIN usage_rollup' = Cell /\ rollup_watermark' \in Nat \cup {None}
  <2>1. CASE EnsureUsageRollup /\ RollupStale
    BY <2>1 DEF EnsureUsageRollup, RebuildRollup, LedgerRollup, IsHistory
  <2>2. CASE UNCHANGED rollupVars
    BY <2>2 DEF rollupVars, TypeInv
  <2>. QED BY <2>1, <2>2 DEF EnsureRollup, EnsureUsageRollup, EnsureActivityCounts
<1>2. activity_usage_counts' \in [Key -> Nat]
  <2>1. ASSUME NEW k \in Key PROVE ActivityCounts[k] \in Nat
    <3> DEFINE naming == {a \in DOMAIN activity_events : activity_events[a] = k}
    <3>1. naming \subseteq DOMAIN activity_events
      OBVIOUS
    <3>2. ActivityCounts[k] = Cardinality(naming)
      BY DEF ActivityCounts
    <3> HIDE DEF naming
    <3>. QED BY <3>1, <3>2, FS_Subset, FS_CardinalityType DEF TypeInv
  <2>2. ActivityCounts \in [Key -> Nat]
    BY <2>1 DEF ActivityCounts
  <2>. QED BY <2>2 DEF EnsureRollup, EnsureUsageRollup, EnsureActivityCounts, activityVars, TypeInv
<1>. QED BY <1>1, <1>2 DEF EnsureRollup, EnsureUsageRollup, EnsureActivityCounts, activityVars, TypeInv, sideVars

LEMMA TablesKeepShape == Spec => []TypeInv
<1>1. Init => TypeInv
  <2>1. IsFiniteSet({})
    BY FS_EmptySet
  <2>. QED BY <2>1 DEF Init, TypeInv, Zero
<1>2. ASSUME IsHistory(usage_events), TypeInv, [Next]_vars PROVE TypeInv'
  <2>1. ASSUME NEW rev \in Revision, SyncUnpriced(rev) PROVE TypeInv'
    BY <1>2, <2>1 DEF SyncUnpriced, TypeInv, activityVars, sideVars
  <2>2. CASE UNCHANGED vars
    BY <1>2, <2>2 DEF vars, rollupVars, activityVars, sideVars, TypeInv
  <2>. QED BY <1>2, <2>1, <2>2, BatchKeepsTypes, SnapshotKeepsTypes, EnsureKeepsTypes DEF Next
<1>. QED BY <1>1, <1>2, HistoryInvariant, PTL DEF Spec

(* Every table keeps its shape, for every value of the constants.             *)
THEOREM TypesAreOK == Spec => []TypeOK
<1>1. IsHistory(usage_events) /\ CursorInv /\ TypeInv => TypeOK
  BY DEF IsHistory, CursorInv, TypeInv, TypeOK
<1>. QED BY <1>1, TablesKeepShape, HistoryInvariant, CursorInvariant, PTL

(* The divisors grow by the rows inserted: each offered row that is new adds  *)
(* one key, and the rows that name a turn are the old ones and those.         *)
LEMMA ActivityCounted ==
    ASSUME NEW acts \in Seq(ActivityRow), InsertActivity(acts),
           IsFiniteSet(DOMAIN activity_events), ActivityCountsExact
    PROVE  ActivityCountsExact'
<1> DEFINE new == {i \in DOMAIN acts :
                     /\ acts[i].ok
                     /\ acts[i].key \notin DOMAIN activity_events
                     /\ \A j \in 1 .. i - 1 : acts[j].ok => acts[j].key # acts[i].key}
           keys == {acts[i].key : i \in new}
<1>1. /\ activity_events' = [a \in DOMAIN activity_events \cup keys |->
             IF a \in keys THEN acts[CHOOSE i \in new : acts[i].key = a].usage
                           ELSE activity_events[a]]
      /\ activity_usage_counts' = [k \in Key |->
             activity_usage_counts[k] + Cardinality({i \in new : acts[i].usage = k})]
  BY DEF InsertActivity
<1>2. new \subseteq DOMAIN acts /\ IsFiniteSet(new)
  <2>1. new \subseteq DOMAIN acts
    OBVIOUS
  <2> HIDE DEF new
  <2>. QED BY <2>1, PositionsAreFinite
<1>3. \A i, j \in new : acts[i].key = acts[j].key => i = j
  <2>1. DOMAIN acts = 1 .. Len(acts) /\ Len(acts) \in Nat
    OBVIOUS
  <2>2. ASSUME NEW i \in new, NEW j \in new, i < j PROVE acts[i].key # acts[j].key
    <3>1. i \in 1 .. j - 1 /\ acts[i].ok
      BY <2>1, <2>2
    <3>. QED BY <3>1
  <2>. QED BY <2>1, <2>2
<1>4. keys \cap DOMAIN activity_events = {}
  OBVIOUS
<1> HIDE DEF new
<1>5. ASSUME NEW i \in new
      PROVE  acts[i].key \in DOMAIN activity_events' /\ activity_events'[acts[i].key] = acts[i].usage
  <2>1. (CHOOSE j \in new : acts[j].key = acts[i].key) = i
    BY <1>3
  <2>. QED BY <1>1, <2>1
<1>6. ASSUME NEW k \in Key
      PROVE  activity_usage_counts'[k] = Cardinality({a \in DOMAIN activity_events' : activity_events'[a] = k})
  <2> DEFINE naming == {a \in DOMAIN activity_events : activity_events[a] = k}
             offered == {i \in new : acts[i].usage = k}
             added == {acts[i].key : i \in offered}
             now == {a \in DOMAIN activity_events' : activity_events'[a] = k}
  <2>1. now = naming \cup added
    <3>1. \A a \in DOMAIN activity_events : a \in DOMAIN activity_events' /\ activity_events'[a] = activity_events[a]
      BY <1>1, <1>4
    <3>2. \A a \in DOMAIN activity_events' \ DOMAIN activity_events : \E i \in new : a = acts[i].key
      BY <1>1
    <3>3. ASSUME NEW a \in now PROVE a \in naming \cup added
      BY <1>5, <3>1, <3>2
    <3>4. ASSUME NEW a \in naming \cup added PROVE a \in now
      BY <1>5, <3>1
    <3>. QED BY <3>3, <3>4
  <2>2. naming \cap added = {}
    BY <1>4
  <2>3. IsFiniteSet(naming) /\ IsFiniteSet(offered)
    BY <1>2, FS_Subset
  <2>4. IsFiniteSet(added) /\ Cardinality(added) = Cardinality(offered)
    <3> DEFINE f == [i \in offered |-> acts[i].key]
    <3>1. f \in Bijection(offered, added)
      BY <1>3 DEF Bijection, Injection, Surjection, IsInjective
    <3> HIDE DEF f, offered, added
    <3>2. ExistsBijection(offered, added)
      BY <3>1 DEF ExistsBijection
    <3>. QED BY <2>3, <3>2, FS_Bijection
  <2>5. activity_usage_counts'[k] = Cardinality(naming) + Cardinality(offered)
    BY <1>1 DEF ActivityCountsExact, ActivityCounts
  <2> HIDE DEF naming, offered, added, now
  <2>6. Cardinality(naming) \in Nat /\ Cardinality(added) \in Nat
    BY <2>3, <2>4, FS_CardinalityType
  <2>7. Cardinality(now) = Cardinality(naming) + Cardinality(added) - Cardinality(naming \cap added)
    BY <2>1, <2>3, <2>4, FS_Union
  <2>8. Cardinality(naming \cap added) = 0
    BY <2>2, FS_EmptySet
  <2>9. activity_usage_counts'[k] = Cardinality(now)
    BY <2>4, <2>5, <2>6, <2>7, <2>8
  <2>. QED BY <2>9 DEF now
<1>7. activity_usage_counts' = [k \in Key |-> activity_usage_counts'[k]]
  BY <1>1
<1>. QED BY <1>6, <1>7 DEF ActivityCountsExact, ActivityCounts

(* The divisor that shares a turn's cost among its activity rows equals the   *)
(* rows that name the turn, whatever the batches carried and in whatever      *)
(* order they were applied.                                                   *)
THEOREM ActivityCountsAreExact == Spec => []ActivityCountsExact
<1>1. Init => ActivityCountsExact
  <2>1. SUFFICES ASSUME Init, NEW k \in Key
                 PROVE  Cardinality({a \in DOMAIN activity_events : activity_events[a] = k}) = 0
    BY DEF Init, ActivityCountsExact, ActivityCounts
  <2>2. {a \in DOMAIN activity_events : activity_events[a] = k} = {}
    BY <2>1 DEF Init
  <2>. QED BY <2>2, FS_EmptySet
<1>2. ASSUME TypeInv, ActivityCountsExact, [Next]_vars PROVE ActivityCountsExact'
  <2>1. ASSUME NEW b \in Batches, ApplyBatch(b) PROVE ActivityCountsExact'
    <3>1. b.activity \in Seq(ActivityRow) /\ InsertActivity(b.activity)
      BY <2>1, LedgerAssumption DEF Batch, ApplyBatch
    <3>. QED BY <1>2, <3>1, ActivityCounted DEF TypeInv
  <2>2. ASSUME UNCHANGED activityVars PROVE ActivityCountsExact'
    BY <1>2, <2>2 DEF ActivityCountsExact, ActivityCounts, activityVars
  <2>3. ASSUME NEW w \in SnapshotWrites, ApplySnapshot(w.events, w.cell, w.counter, w.cp)
        PROVE  ActivityCountsExact'
    BY <2>2, <2>3 DEF ApplySnapshot
  <2>4. ASSUME EnsureRollup PROVE ActivityCountsExact'
    BY <2>2, <2>4 DEF EnsureRollup, EnsureUsageRollup, EnsureActivityCounts, ActivityCountsExact, ActivityCounts
  <2>5. ASSUME NEW rev \in Revision, SyncUnpriced(rev) PROVE ActivityCountsExact'
    BY <2>2, <2>5 DEF SyncUnpriced
  <2>6. CASE UNCHANGED vars
    BY <2>2, <2>6 DEF vars
  <2>. QED BY <1>2, <2>1, <2>3, <2>4, <2>5, <2>6 DEF Next
<1>. QED BY <1>1, <1>2, TablesKeepShape, PTL DEF Spec
-----------------------------------------------------------------------------
(* What a batch adds to the cells of the rollup *)

(* What makes a row's measures add up: they are integers.                     *)
Measured(rows, ids) ==
    \A id \in ids : rows[id].tokens \in Int /\ CostOf(rows[id]) \in Int

Measures == [events : Int, tokens : Int, cost : Int]

LEMMA MeasuresAdd ==
    ASSUME NEW a \in Measures, NEW b \in Measures
    PROVE  /\ Add(a, b) \in Measures /\ Sub(a, b) \in Measures
           /\ Add(a, b).events = a.events + b.events /\ Sub(a, b).events = a.events - b.events
           /\ Add(a, b) = [events |-> a.events + b.events, tokens |-> a.tokens + b.tokens,
                           cost |-> a.cost + b.cost]
           /\ Sub(a, b) = [events |-> a.events - b.events, tokens |-> a.tokens - b.tokens,
                           cost |-> a.cost - b.cost]
<1>1. Add(a, b) = [events |-> a.events + b.events, tokens |-> a.tokens + b.tokens,
                   cost |-> a.cost + b.cost]
  BY DEF Add
<1>2. Sub(a, b) = [events |-> a.events - b.events, tokens |-> a.tokens - b.tokens,
                   cost |-> a.cost - b.cost]
  BY DEF Sub
<1>. QED BY <1>1, <1>2 DEF Measures

(* A delta is made of integers, and only the rows in hand count.              *)
LEMMA DeltaMeasured ==
    ASSUME NEW rows, NEW ids, IsFiniteSet(ids), Measured(rows, ids), NEW c
    PROVE  RollupDelta(rows, ids, c) \in Measures
<1> DEFINE in == {id \in ids : CellOf(rows[id]) = c}
<1>1. IsFiniteSet(in) /\ in \subseteq ids
  BY FS_Subset
<1>2. \A id \in in : rows[id].tokens \in Int /\ CostOf(rows[id]) \in Int
  BY DEF Measured
<1>3. RollupDelta(rows, ids, c) =
          [events |-> Cardinality(in),
           tokens |-> SumFunctionOnSet([id \in in |-> rows[id].tokens], in),
           cost   |-> SumFunctionOnSet([id \in in |-> CostOf(rows[id])], in)]
  BY DEF RollupDelta, SumFunction
<1> HIDE DEF in
<1>4. Cardinality(in) \in Int
  BY <1>1, FS_CardinalityType
<1>5. SumFunctionOnSet([id \in in |-> rows[id].tokens], in) \in Int
  BY <1>1, <1>2, SumIsInt
<1>6. SumFunctionOnSet([id \in in |-> CostOf(rows[id])], in) \in Int
  BY <1>1, <1>2, SumIsInt
<1>. QED BY <1>3, <1>4, <1>5, <1>6 DEF Measures

LEMMA DeltaAgrees ==
    ASSUME NEW rows, NEW other, NEW ids, IsFiniteSet(ids),
           \A id \in ids : rows[id] = other[id], NEW c
    PROVE  RollupDelta(rows, ids, c) = RollupDelta(other, ids, c)
<1> DEFINE in == {id \in ids : CellOf(rows[id]) = c}
<1>1. IsFiniteSet(in) /\ in \subseteq ids /\ in = {id \in ids : CellOf(other[id]) = c}
  BY FS_Subset
<1>2. /\ [id \in in |-> rows[id].tokens] = [id \in in |-> other[id].tokens]
      /\ [id \in in |-> CostOf(rows[id])] = [id \in in |-> CostOf(other[id])]
  BY <1>1
<1>3. RollupDelta(rows, ids, c) =
          [events |-> Cardinality(in),
           tokens |-> SumFunction([id \in in |-> rows[id].tokens]),
           cost   |-> SumFunction([id \in in |-> CostOf(rows[id])])]
  BY DEF RollupDelta
<1>4. RollupDelta(other, ids, c) =
          [events |-> Cardinality(in),
           tokens |-> SumFunction([id \in in |-> other[id].tokens]),
           cost   |-> SumFunction([id \in in |-> CostOf(other[id])])]
  BY <1>1 DEF RollupDelta
<1> HIDE DEF in
<1>. QED BY <1>2, <1>3, <1>4

(* The delta of two sets of rows that share none is the sum of their deltas.  *)
LEMMA DeltaSplits ==
    ASSUME NEW rows, NEW A, NEW B, IsFiniteSet(A), IsFiniteSet(B), A \cap B = {},
           Measured(rows, A \cup B), NEW c
    PROVE  RollupDelta(rows, A \cup B, c) = Add(RollupDelta(rows, A, c), RollupDelta(rows, B, c))
<1> DEFINE ina == {id \in A : CellOf(rows[id]) = c}
           inb == {id \in B : CellOf(rows[id]) = c}
           in  == ina \cup inb
           tokens == [id \in in |-> rows[id].tokens]
           cost   == [id \in in |-> CostOf(rows[id])]
<1>1. /\ IsFiniteSet(ina) /\ IsFiniteSet(inb) /\ ina \cap inb = {}
      /\ in = {id \in A \cup B : CellOf(rows[id]) = c}
  BY FS_Subset
<1>2. \A id \in in : rows[id].tokens \in Int /\ CostOf(rows[id]) \in Int
  BY DEF Measured
<1>3. RollupDelta(rows, A \cup B, c) =
          [events |-> Cardinality(in), tokens |-> SumFunctionOnSet(tokens, in),
           cost |-> SumFunctionOnSet(cost, in)]
  BY <1>1 DEF RollupDelta, SumFunction
<1>4. RollupDelta(rows, A, c) =
          [events |-> Cardinality(ina),
           tokens |-> SumFunctionOnSet([id \in ina |-> rows[id].tokens], ina),
           cost   |-> SumFunctionOnSet([id \in ina |-> CostOf(rows[id])], ina)]
  BY DEF RollupDelta, SumFunction
<1>5. RollupDelta(rows, B, c) =
          [events |-> Cardinality(inb),
           tokens |-> SumFunctionOnSet([id \in inb |-> rows[id].tokens], inb),
           cost   |-> SumFunctionOnSet([id \in inb |-> CostOf(rows[id])], inb)]
  BY DEF RollupDelta, SumFunction
<1>6. RollupDelta(rows, A, c) \in Measures /\ RollupDelta(rows, B, c) \in Measures
  <2>1. Measured(rows, A) /\ Measured(rows, B)
    BY DEF Measured
  <2>. QED BY <2>1, DeltaMeasured
<1> HIDE DEF ina, inb
<1>7. Cardinality(in) = Cardinality(ina) + Cardinality(inb)
  <2>1. Cardinality(in) = Cardinality(ina) + Cardinality(inb) - Cardinality(ina \cap inb)
    BY <1>1, FS_Union
  <2>2. Cardinality(ina \cap inb) = 0
    BY <1>1, FS_EmptySet
  <2>3. Cardinality(ina) \in Nat /\ Cardinality(inb) \in Nat
    BY <1>1, FS_CardinalityType
  <2>. QED BY <2>1, <2>2, <2>3
<1>8. SumFunctionOnSet(tokens, in) = SumFunctionOnSet([id \in ina |-> rows[id].tokens], ina)
                                    + SumFunctionOnSet([id \in inb |-> rows[id].tokens], inb)
  <2>1. SumFunctionOnSet(tokens, ina \cup inb)
            = SumFunctionOnSet(tokens, ina) + SumFunctionOnSet(tokens, inb)
    <3>1. \A id \in ina \cup inb : tokens[id] \in Int
      BY <1>2
    <3> HIDE DEF tokens
    <3>. QED BY <1>1, <3>1, SumOfBoth
  <2>2. SumFunctionOnSet(tokens, ina) = SumFunctionOnSet([id \in ina |-> rows[id].tokens], ina)
    BY <1>1, SumAgrees
  <2>3. SumFunctionOnSet(tokens, inb) = SumFunctionOnSet([id \in inb |-> rows[id].tokens], inb)
    BY <1>1, SumAgrees
  <2>. QED BY <2>1, <2>2, <2>3
<1>9. SumFunctionOnSet(cost, in) = SumFunctionOnSet([id \in ina |-> CostOf(rows[id])], ina)
                                    + SumFunctionOnSet([id \in inb |-> CostOf(rows[id])], inb)
  <2>1. SumFunctionOnSet(cost, ina \cup inb)
            = SumFunctionOnSet(cost, ina) + SumFunctionOnSet(cost, inb)
    <3>1. \A id \in ina \cup inb : cost[id] \in Int
      BY <1>2
    <3> HIDE DEF cost
    <3>. QED BY <1>1, <3>1, SumOfBoth
  <2>2. SumFunctionOnSet(cost, ina) = SumFunctionOnSet([id \in ina |-> CostOf(rows[id])], ina)
    BY <1>1, SumAgrees
  <2>3. SumFunctionOnSet(cost, inb) = SumFunctionOnSet([id \in inb |-> CostOf(rows[id])], inb)
    BY <1>1, SumAgrees
  <2>. QED BY <2>1, <2>2, <2>3
<1>10. Add(RollupDelta(rows, A, c), RollupDelta(rows, B, c)) =
          [events |-> RollupDelta(rows, A, c).events + RollupDelta(rows, B, c).events,
           tokens |-> RollupDelta(rows, A, c).tokens + RollupDelta(rows, B, c).tokens,
           cost   |-> RollupDelta(rows, A, c).cost + RollupDelta(rows, B, c).cost]
  BY <1>6, MeasuresAdd
<1> HIDE DEF in, tokens, cost
<1>. QED BY <1>3, <1>4, <1>5, <1>7, <1>8, <1>9, <1>10

(* Over all the cells a set of rows contributes one event per row.            *)
LEMMA DeltaCountsRows ==
    ASSUME NEW rows, NEW ids, IsFiniteSet(ids), IsFiniteSet(Cell),
           \A id \in ids : CellOf(rows[id]) \in Cell
    PROVE  SumFunctionOnSet([c \in Cell |-> RollupDelta(rows, ids, c).events], Cell) = Cardinality(ids)
<1> DEFINE in(s, c) == {id \in s : CellOf(rows[id]) = c}
           counts(s) == [c \in Cell |-> Cardinality(in(s, c))]
           Bad == {s \in SUBSET ids : SumFunctionOnSet(counts(s), Cell) # Cardinality(s)}
<1>1. [c \in Cell |-> RollupDelta(rows, ids, c).events] = counts(ids)
  BY DEF RollupDelta
<1>2. SUFFICES ASSUME Bad # {} PROVE FALSE
  BY <1>1
<1>3. PICK s \in Bad : \A t \in Bad : t \subseteq s => t = s
  <2>1. \A s \in Bad : IsFiniteSet(s)
    BY FS_Subset
  <2> HIDE DEF Bad
  <2>. QED BY <1>2, <2>1, SmallestSet
<1>4. s \subseteq ids /\ IsFiniteSet(s) /\ SumFunctionOnSet(counts(s), Cell) # Cardinality(s)
  BY FS_Subset
<1>5. s # {}
  <2>1. SUFFICES ASSUME s = {} PROVE FALSE
    OBVIOUS
  <2>2. \A c \in Cell : counts(s)[c] = 0
    <3>1. \A c \in Cell : in(s, c) = {}
      BY <2>1
    <3>. QED BY <3>1, FS_EmptySet
  <2>3. Cardinality(s) = 0
    BY <2>1, FS_EmptySet
  <2>. QED BY <1>4, <2>2, <2>3, SumOfZeros
<1>6. PICK x \in s : TRUE
  BY <1>5
<1> DEFINE r == s \ {x}
           home == CellOf(rows[x])
           one == [c \in Cell |-> IF c = home THEN 1 ELSE 0]
<1>7. SumFunctionOnSet(counts(r), Cell) = Cardinality(r)
  <2>1. r # s /\ r \subseteq s
    OBVIOUS
  <2>2. r \notin Bad
    <3> HIDE DEF Bad, r
    <3>. QED BY <1>3, <2>1
  <2>. QED BY <1>4, <2>2
<1>8. Cardinality(s) = Cardinality(r) + 1
  <2>1. Cardinality(r) = Cardinality(s) - 1 /\ Cardinality(s) \in Nat
    BY <1>4, FS_RemoveElement, FS_CardinalityType
  <2>. QED BY <2>1
<1>9. SumFunctionOnSet(one, Cell) = 1
  <2>1. home \in Cell
    BY <1>4
  <2>2. one[home] = 1 /\ \A c \in Cell \ {home} : one[c] = 0
    BY <2>1
  <2> HIDE DEF one, home
  <2>. QED BY <2>1, <2>2, SumOfOne
<1>10. ASSUME NEW c \in Cell
       PROVE  /\ Cardinality(in(r, c)) \in Int
              /\ Cardinality(in(s, c)) = Cardinality(in(r, c)) + one[c]
  <2>1. IsFiniteSet(in(s, c)) /\ IsFiniteSet(in(r, c))
    BY <1>4, FS_Subset
  <2>2. Cardinality(in(s, c)) \in Nat /\ Cardinality(in(r, c)) \in Nat
    BY <2>1, FS_CardinalityType
  <2>3. CASE c = home
    <3>1. x \in in(s, c) /\ in(r, c) = in(s, c) \ {x}
      BY <2>3
    <3>2. Cardinality(in(r, c)) = Cardinality(in(s, c)) - 1
      <4> DEFINE whole == in(s, c)
      <4>1. IsFiniteSet(whole) /\ x \in whole /\ in(r, c) = whole \ {x}
        BY <2>1, <3>1
      <4> HIDE DEF whole
      <4>2. Cardinality(whole \ {x}) = Cardinality(whole) - 1
        BY <4>1, FS_RemoveElement
      <4>. QED BY <4>1, <4>2 DEF whole
    <3>3. one[c] = 1
      BY <2>3
    <3>. QED BY <2>2, <3>2, <3>3
  <2>4. CASE c # home
    <3>1. in(r, c) = in(s, c)
      BY <2>4
    <3>2. one[c] = 0
      BY <2>4
    <3>. QED BY <2>2, <3>1, <3>2
  <2>. QED BY <2>2, <2>3, <2>4
<1>11. SumFunctionOnSet(counts(s), Cell) = SumFunctionOnSet(counts(r), Cell) + 1
  <2> DEFINE cs == counts(s)
             cr == counts(r)
  <2>1. \A c \in Cell : cr[c] \in Int /\ one[c] \in Int /\ cs[c] = cr[c] + one[c]
    BY <1>10
  <2> HIDE DEF cs, cr, one
  <2>2. SumFunctionOnSet(cs, Cell) = SumFunctionOnSet(cr, Cell) + SumFunctionOnSet(one, Cell)
    BY <2>1, SumAdds
  <2>. QED BY <1>9, <2>2 DEF cs, cr
<1>. QED BY <1>4, <1>7, <1>8, <1>11
-----------------------------------------------------------------------------
(* The rollup.  Its cells hold integers, and when it counts as many events as *)
(* the ledger has rows, it is the ledger's rollup.  RollupExact says this of  *)
(* the states EnsureRollup would let pass only; but a watermark that lags     *)
(* (InsertEvents moves it from wherever it was) catches up with the next      *)
(* insert, so the counts alone have to vouch for the cells.                   *)
RollupInv ==
    /\ usage_rollup \in [Cell -> Measures]
    /\ RollupEvents = Cardinality(DOMAIN usage_events) => usage_rollup = LedgerRollup

LEMMA CellsAreFinite == IsFiniteSet(Cell)
<1>1. IsFiniteSet({"unpriced", "computed", "vendor"})
  <2>1. IsFiniteSet({})
    BY FS_EmptySet
  <2>2. IsFiniteSet({} \cup {"unpriced"})
    BY <2>1, FS_AddElement
  <2>3. IsFiniteSet(({} \cup {"unpriced"}) \cup {"computed"})
    BY <2>2, FS_AddElement
  <2>4. IsFiniteSet((({} \cup {"unpriced"}) \cup {"computed"}) \cup {"vendor"})
    BY <2>3, FS_AddElement
  <2>5. {"unpriced", "computed", "vendor"} = (({} \cup {"unpriced"}) \cup {"computed"}) \cup {"vendor"}
    OBVIOUS
  <2>. QED BY <2>4, <2>5
<1>. QED BY <1>1, StoreAssumption, FS_Product DEF Cell, PriceClass

(* The rows of a history are finitely many, measured by integers, and each is *)
(* counted in a cell of the rollup.                                           *)
LEMMA HistoryMeasured ==
    ASSUME NEW rows, IsHistory(rows)
    PROVE  /\ IsFiniteSet(DOMAIN rows) /\ Measured(rows, DOMAIN rows)
           /\ \A id \in DOMAIN rows : CellOf(rows[id]) \in Cell
<1>1. IsFiniteSet(DOMAIN rows)
  <2>1. IsFiniteSet(1 .. MaxId(rows))
    BY FS_Interval DEF IsHistory
  <2>. QED BY <2>1, FS_Subset DEF IsHistory
<1>2. ASSUME NEW id \in DOMAIN rows
      PROVE  /\ rows[id].tokens \in Int /\ CostOf(rows[id]) \in Int
             /\ CellOf(rows[id]) \in Cell
  <2>1. rows[id] \in Event
    BY DEF IsHistory
  <2>. QED BY <2>1 DEF Event, Price, CostOf, CellOf, eventPriceClass, Cell, PriceClass
<1>. QED BY <1>1, <1>2 DEF Measured

(* What was added can be taken away again.                                    *)
LEMMA MeasuresCancel ==
    ASSUME NEW a \in Measures, NEW b \in Measures
    PROVE  Sub(Add(a, b), b) = a
<1>1. /\ Add(a, b) \in Measures
      /\ Add(a, b) = [events |-> a.events + b.events, tokens |-> a.tokens + b.tokens,
                      cost |-> a.cost + b.cost]
  BY MeasuresAdd
<1>2. Sub(Add(a, b), b) = [events |-> Add(a, b).events - b.events,
                           tokens |-> Add(a, b).tokens - b.tokens,
                           cost |-> Add(a, b).cost - b.cost]
  BY <1>1, MeasuresAdd
<1>3. a = [events |-> a.events, tokens |-> a.tokens, cost |-> a.cost]
  BY DEF Measures
<1>. QED BY <1>1, <1>2, <1>3 DEF Measures

(* InsertEvents adds to every cell what the new rows contribute, and to the   *)
(* total as many events as rows: the counts agree afterwards exactly when     *)
(* they agreed before.                                                        *)
LEMMA InsertKeepsRollup ==
    ASSUME NEW events \in Seq(EventRow), IsHistory(usage_events), InsertEvents(events), RollupInv
    PROVE  RollupInv'
<1> DEFINE old   == DOMAIN usage_events
           new   == {MaxId(usage_events) + i : i \in Fresh(events)}
           delta == [c \in Cell |-> RollupDelta(usage_events', new, c)]
<1>1. /\ IsHistory(usage_events)' /\ old \subseteq DOMAIN usage_events'
      /\ \A id \in old : usage_events'[id] = usage_events[id]
  BY InsertEventsExtends
<1>2. /\ DOMAIN usage_events' = old \cup new
      /\ IF new = {} THEN UNCHANGED rollupVars
         ELSE usage_rollup' = [c \in Cell |-> Add(usage_rollup[c], delta[c])]
  BY DEF InsertEvents
<1>3. CASE new = {}
  <2>1. usage_events' = usage_events
    <3>1. usage_events' = [id \in old |-> usage_events[id]]
      BY <1>3 DEF InsertEvents
    <3>. QED BY <3>1 DEF IsHistory
  <2>. QED BY <1>2, <1>3, <2>1 DEF RollupInv, RollupEvents, LedgerRollup, rollupVars
<1>4. CASE new # {}
  <2>1. old \cap new = {}
    BY DEF IsHistory, Fresh
  <2>2. IsHistory(usage_events')
    BY <1>1 DEF IsHistory
  <2>3. /\ IsFiniteSet(old) /\ IsFiniteSet(old \cup new) /\ Measured(usage_events', old \cup new)
        /\ \A id \in old \cup new : CellOf(usage_events'[id]) \in Cell
    BY <1>2, <2>2, HistoryMeasured
  <2>4. usage_rollup' = [c \in Cell |-> Add(usage_rollup[c], delta[c])]
    BY <1>2, <1>4
  <2> HIDE DEF old, new
  <2>5. IsFiniteSet(new) /\ Measured(usage_events', new) /\ \A id \in new : CellOf(usage_events'[id]) \in Cell
    BY <2>3, FS_Subset DEF Measured
  <2>6. \A c \in Cell : delta[c] \in Measures /\ usage_rollup[c] \in Measures
    BY <2>5, DeltaMeasured DEF RollupInv
  <2>7. SumFunctionOnSet([c \in Cell |-> delta[c].events], Cell) = Cardinality(new)
    <3>1. SumFunctionOnSet([c \in Cell |-> RollupDelta(usage_events', new, c).events], Cell) = Cardinality(new)
      BY <2>5, CellsAreFinite, DeltaCountsRows
    <3>2. [c \in Cell |-> delta[c].events] = [c \in Cell |-> RollupDelta(usage_events', new, c).events]
      OBVIOUS
    <3>. QED BY <3>1, <3>2
  <2> HIDE DEF delta
  <2>8. usage_rollup' \in [Cell -> Measures]
    BY <2>4, <2>6, MeasuresAdd
  <2>9. RollupEvents' = RollupEvents + Cardinality(new)
    <3> DEFINE f == [c \in Cell |-> usage_rollup[c].events]
               g == [c \in Cell |-> delta[c].events]
               h == [c \in Cell |-> usage_rollup'[c].events]
    <3>1. \A c \in Cell : f[c] \in Int /\ g[c] \in Int /\ h[c] = f[c] + g[c]
      BY <2>4, <2>6, MeasuresAdd DEF Measures
    <3>2. RollupEvents = SumFunctionOnSet(f, Cell) /\ RollupEvents' = SumFunctionOnSet(h, Cell)
      BY DEF RollupEvents, SumFunction
    <3>3. SumFunctionOnSet(g, Cell) = Cardinality(new)
      BY <2>7
    <3> HIDE DEF f, g, h
    <3>4. SumFunctionOnSet(h, Cell) = SumFunctionOnSet(f, Cell) + SumFunctionOnSet(g, Cell)
      BY <3>1, CellsAreFinite, SumAdds
    <3>. QED BY <3>2, <3>3, <3>4
  <2>10. Cardinality(old \cup new) = Cardinality(old) + Cardinality(new)
    <3>1. Cardinality(old \cup new) = Cardinality(old) + Cardinality(new) - Cardinality(old \cap new)
      BY <2>3, <2>5, FS_Union
    <3>2. Cardinality(old \cap new) = 0
      BY <2>1, FS_EmptySet
    <3>. QED BY <2>3, <2>5, <3>1, <3>2, FS_CardinalityType
  <2>11. RollupEvents \in Int /\ Cardinality(old) \in Int /\ Cardinality(new) \in Int
    <3>1. \A c \in Cell : [d \in Cell |-> usage_rollup[d].events][c] \in Int
      BY <2>6 DEF Measures
    <3>2. SumFunctionOnSet([c \in Cell |-> usage_rollup[c].events], Cell) \in Int
      BY <3>1, CellsAreFinite, SumIsInt
    <3>. QED BY <2>3, <2>5, <3>2, FS_CardinalityType DEF RollupEvents, SumFunction
  <2>12. ASSUME RollupEvents' = Cardinality(DOMAIN usage_events')
         PROVE  usage_rollup' = LedgerRollup'
    <3>1. RollupEvents = Cardinality(old)
      BY <1>2, <2>9, <2>10, <2>11, <2>12
    <3>2. usage_rollup = LedgerRollup
      BY <3>1 DEF RollupInv, old
    <3>3. ASSUME NEW c \in Cell PROVE usage_rollup'[c] = LedgerRollup'[c]
      <4>1. LedgerRollup'[c] = RollupDelta(usage_events', old \cup new, c)
        BY <1>2 DEF LedgerRollup
      <4>2. RollupDelta(usage_events', old \cup new, c)
                = Add(RollupDelta(usage_events', old, c), RollupDelta(usage_events', new, c))
        BY <2>1, <2>3, <2>5, DeltaSplits
      <4>3. RollupDelta(usage_events', old, c) = RollupDelta(usage_events, old, c)
        BY <1>1, <2>3, DeltaAgrees
      <4>4. usage_rollup[c] = RollupDelta(usage_events, old, c)
        BY <3>2 DEF LedgerRollup, old
      <4>5. usage_rollup'[c] = Add(usage_rollup[c], RollupDelta(usage_events', new, c))
        BY <2>4 DEF delta
      <4>. QED BY <4>1, <4>2, <4>3, <4>4, <4>5
    <3>4. LedgerRollup' = [c \in Cell |-> LedgerRollup'[c]] /\ usage_rollup' = [c \in Cell |-> usage_rollup'[c]]
      BY <2>8 DEF LedgerRollup
    <3>. QED BY <3>3, <3>4
  <2>. QED BY <2>8, <2>12 DEF RollupInv
<1>. QED BY <1>3, <1>4

(* SyncUnpriced moves what the priced rows contribute from one cell to        *)
(* another: as many events leave as arrive.                                   *)
LEMMA SyncKeepsRollup ==
    ASSUME NEW rev \in Revision, IsHistory(usage_events), SyncUnpriced(rev), RollupInv
    PROVE  RollupInv'
<1> DEFINE priced == Priced(rev)
           rest   == DOMAIN usage_events \ priced
           gone   == [c \in Cell |-> RollupDelta(usage_events, priced, c)]
           come   == [c \in Cell |-> RollupDelta(usage_events', priced, c)]
<1>1. /\ IsHistory(usage_events') /\ DOMAIN usage_events' = DOMAIN usage_events
      /\ \A id \in rest : usage_events'[id] = usage_events[id]
  <2>1. IsHistory(usage_events)' /\ DOMAIN usage_events' = DOMAIN usage_events
    BY SyncUnpricedFills
  <2>2. \A id \in rest : usage_events'[id] = usage_events[id]
    BY DEF SyncUnpriced
  <2>. QED BY <2>1, <2>2 DEF IsHistory
<1>2. priced \subseteq DOMAIN usage_events
  BY DEF Priced, Candidates, Unpriced
<1>3. usage_rollup' = IF priced = {} THEN usage_rollup
                      ELSE [c \in Cell |-> Add(Sub(usage_rollup[c], gone[c]), come[c])]
  BY DEF SyncUnpriced
<1>4. CASE priced = {}
  <2>1. usage_events' = usage_events
    <3>1. usage_events' = [id \in DOMAIN usage_events |-> usage_events[id]]
      BY <1>4 DEF SyncUnpriced
    <3>. QED BY <3>1 DEF IsHistory
  <2>. QED BY <1>3, <1>4, <2>1 DEF RollupInv, RollupEvents, LedgerRollup
<1>5. CASE priced # {}
  <2>1. /\ IsFiniteSet(DOMAIN usage_events) /\ Measured(usage_events, DOMAIN usage_events)
        /\ Measured(usage_events', DOMAIN usage_events)
        /\ \A id \in DOMAIN usage_events :
              CellOf(usage_events[id]) \in Cell /\ CellOf(usage_events'[id]) \in Cell
    BY <1>1, HistoryMeasured
  <2> HIDE DEF priced
  <2>2. /\ IsFiniteSet(priced) /\ IsFiniteSet(rest) /\ rest \cap priced = {}
        /\ DOMAIN usage_events = rest \cup priced
    BY <1>2, <2>1, FS_Subset
  <2> HIDE DEF rest
  <2>3. /\ Measured(usage_events, priced) /\ Measured(usage_events, rest)
        /\ Measured(usage_events', priced)
    BY <2>1, <2>2 DEF Measured
  <2>4. \A c \in Cell : gone[c] \in Measures /\ come[c] \in Measures /\ usage_rollup[c] \in Measures
    BY <2>2, <2>3, DeltaMeasured DEF RollupInv
  <2>5. /\ SumFunctionOnSet([c \in Cell |-> gone[c].events], Cell) = Cardinality(priced)
        /\ SumFunctionOnSet([c \in Cell |-> come[c].events], Cell) = Cardinality(priced)
    <3>1. /\ [c \in Cell |-> gone[c].events] = [c \in Cell |-> RollupDelta(usage_events, priced, c).events]
          /\ [c \in Cell |-> come[c].events] = [c \in Cell |-> RollupDelta(usage_events', priced, c).events]
      OBVIOUS
    <3>2. SumFunctionOnSet([c \in Cell |-> RollupDelta(usage_events, priced, c).events], Cell) = Cardinality(priced)
      BY <1>2, <2>1, <2>2, CellsAreFinite, DeltaCountsRows
    <3>3. SumFunctionOnSet([c \in Cell |-> RollupDelta(usage_events', priced, c).events], Cell) = Cardinality(priced)
      BY <1>2, <2>1, <2>2, CellsAreFinite, DeltaCountsRows
    <3>. QED BY <3>1, <3>2, <3>3
  <2>6. usage_rollup' = [c \in Cell |-> Add(Sub(usage_rollup[c], gone[c]), come[c])]
    BY <1>3, <1>5
  <2>7. \A c \in Cell : gone[c] = RollupDelta(usage_events, priced, c) /\ come[c] = RollupDelta(usage_events', priced, c)
    OBVIOUS
  <2> HIDE DEF gone, come
  <2>8. usage_rollup' \in [Cell -> Measures]
    BY <2>4, <2>6, MeasuresAdd
  <2>9. RollupEvents' = RollupEvents
    <3> DEFINE f == [c \in Cell |-> usage_rollup[c].events]
               g == [c \in Cell |-> gone[c].events]
               k == [c \in Cell |-> come[c].events]
               h == [c \in Cell |-> usage_rollup'[c].events]
               m == [c \in Cell |-> f[c] + k[c]]
    <3>1. \A c \in Cell : /\ f[c] \in Int /\ g[c] \in Int /\ k[c] \in Int /\ h[c] \in Int
                          /\ h[c] = f[c] - g[c] + k[c]
      <4> SUFFICES ASSUME NEW c \in Cell
                   PROVE  /\ f[c] \in Int /\ g[c] \in Int /\ k[c] \in Int /\ h[c] \in Int
                          /\ h[c] = f[c] - g[c] + k[c]
        OBVIOUS
      <4> DEFINE less == Sub(usage_rollup[c], gone[c])
      <4>1. /\ usage_rollup[c] \in Measures /\ gone[c] \in Measures /\ come[c] \in Measures
            /\ usage_rollup'[c] = Add(less, come[c])
        BY <2>4, <2>6
      <4>2. less \in Measures /\ less.events = usage_rollup[c].events - gone[c].events
        BY <4>1, MeasuresAdd
      <4> HIDE DEF less
      <4>3. Add(less, come[c]).events = less.events + come[c].events
        BY <4>1, <4>2, MeasuresAdd
      <4>4. usage_rollup[c].events \in Int /\ gone[c].events \in Int /\ come[c].events \in Int
        BY <4>1 DEF Measures
      <4>. QED BY <4>1, <4>2, <4>3, <4>4
    <3>2. RollupEvents = SumFunctionOnSet(f, Cell) /\ RollupEvents' = SumFunctionOnSet(h, Cell)
      BY DEF RollupEvents, SumFunction
    <3>3. SumFunctionOnSet(g, Cell) = Cardinality(priced) /\ SumFunctionOnSet(k, Cell) = Cardinality(priced)
      BY <2>5
    <3>4. \A c \in Cell : m[c] = f[c] + k[c] /\ m[c] = h[c] + g[c]
      BY <3>1
    <3> HIDE DEF f, g, h, k, m
    <3>5. SumFunctionOnSet(m, Cell) = SumFunctionOnSet(f, Cell) + SumFunctionOnSet(k, Cell)
      BY <3>1, <3>4, CellsAreFinite, SumAdds
    <3>6. SumFunctionOnSet(m, Cell) = SumFunctionOnSet(h, Cell) + SumFunctionOnSet(g, Cell)
      BY <3>1, <3>4, CellsAreFinite, SumAdds
    <3>7. SumFunctionOnSet(f, Cell) \in Int /\ SumFunctionOnSet(h, Cell) \in Int
      BY <3>1, CellsAreFinite, SumIsInt
    <3>8. Cardinality(priced) \in Int
      BY <2>2, FS_CardinalityType
    <3>9. \A i, j, n \in Int : i + n = j + n => i = j
      OBVIOUS
    <3>. QED BY <3>2, <3>3, <3>5, <3>6, <3>7, <3>8, <3>9
  <2>10. ASSUME RollupEvents' = Cardinality(DOMAIN usage_events')
         PROVE  usage_rollup' = LedgerRollup'
    <3>1. usage_rollup = LedgerRollup
      BY <1>1, <2>9, <2>10 DEF RollupInv
    <3>2. ASSUME NEW c \in Cell PROVE usage_rollup'[c] = LedgerRollup'[c]
      <4> DEFINE kept == RollupDelta(usage_events, rest, c)
      <4>1. LedgerRollup[c] = Add(kept, gone[c])
        <5>1. LedgerRollup[c] = RollupDelta(usage_events, rest \cup priced, c)
          BY <2>2 DEF LedgerRollup
        <5>2. Measured(usage_events, rest \cup priced)
          BY <2>1, <2>2
        <5>. QED BY <2>2, <2>7, <5>1, <5>2, DeltaSplits
      <4>2. LedgerRollup'[c] = Add(kept, come[c])
        <5>1. LedgerRollup'[c] = RollupDelta(usage_events', rest \cup priced, c)
          BY <1>1, <2>2 DEF LedgerRollup
        <5>2. Measured(usage_events', rest \cup priced)
          BY <2>1, <2>2
        <5>3. RollupDelta(usage_events', rest, c) = kept
          BY <1>1, <2>2, DeltaAgrees
        <5>4. RollupDelta(usage_events', rest \cup priced, c)
                  = Add(RollupDelta(usage_events', rest, c), RollupDelta(usage_events', priced, c))
          BY <2>2, <5>2, DeltaSplits
        <5>. QED BY <2>7, <5>1, <5>3, <5>4
      <4>3. kept \in Measures /\ gone[c] \in Measures
        BY <2>2, <2>3, <2>4, DeltaMeasured
      <4> HIDE DEF kept
      <4>4. Sub(Add(kept, gone[c]), gone[c]) = kept
        BY <4>3, MeasuresCancel
      <4>5. usage_rollup'[c] = Add(Sub(usage_rollup[c], gone[c]), come[c])
        BY <2>6
      <4>. QED BY <3>1, <4>1, <4>2, <4>4, <4>5
    <3>3. LedgerRollup' = [c \in Cell |-> LedgerRollup'[c]] /\ usage_rollup' = [c \in Cell |-> usage_rollup'[c]]
      BY <2>8 DEF LedgerRollup
    <3>. QED BY <3>2, <3>3
  <2>. QED BY <2>8, <2>10 DEF RollupInv
<1>. QED BY <1>4, <1>5

(* EnsureRollup rebuilds what fails its checks and leaves the rest.           *)
LEMMA EnsureKeepsRollup ==
    ASSUME IsHistory(usage_events), EnsureRollup, RollupInv
    PROVE  RollupInv'
<1>1. CASE EnsureUsageRollup /\ RollupStale
  <2>1. usage_rollup' = LedgerRollup /\ LedgerRollup' = LedgerRollup
    BY <1>1 DEF EnsureUsageRollup, RebuildRollup, LedgerRollup
  <2>2. \A c \in Cell : LedgerRollup[c] \in Measures
    BY HistoryMeasured, DeltaMeasured DEF LedgerRollup
  <2>3. usage_rollup' \in [Cell -> Measures]
    BY <2>1, <2>2 DEF LedgerRollup
  <2>. QED BY <2>1, <2>3 DEF RollupInv
<1>2. CASE UNCHANGED <<rollupVars, usage_events>>
  BY <1>2 DEF rollupVars, RollupInv, RollupEvents, LedgerRollup
<1>. QED BY <1>1, <1>2 DEF EnsureRollup, EnsureUsageRollup, EnsureActivityCounts

LEMMA RollupInvariant == Spec => []RollupInv
<1>1. Init => RollupInv
  <2> SUFFICES ASSUME Init PROVE RollupInv
    OBVIOUS
  <2>1. usage_rollup = [c \in Cell |-> Zero] /\ Zero \in Measures
    BY DEF Init, Zero, Measures
  <2>2. IsHistory(usage_events)
    BY LedgerAssumption DEF Init
  <2>3. ASSUME RollupEvents = Cardinality(DOMAIN usage_events)
        PROVE  usage_rollup = LedgerRollup
    <3>1. RollupEvents = 0
      <4>1. \A c \in Cell : [d \in Cell |-> usage_rollup[d].events][c] = 0
        BY <2>1 DEF Zero
      <4>2. SumFunctionOnSet([c \in Cell |-> usage_rollup[c].events], Cell) = 0
        BY <4>1, CellsAreFinite, SumOfZeros
      <4>. QED BY <4>2 DEF RollupEvents, SumFunction
    <3>2. DOMAIN usage_events = {}
      BY <2>2, <2>3, <3>1, HistoryMeasured, FS_EmptySet
    <3>3. ASSUME NEW c \in Cell PROVE RollupDelta(usage_events, {}, c) = Zero
      <4>1. {id \in {} : CellOf(usage_events[id]) = c} = {}
        OBVIOUS
      <4>2. Cardinality({}) = 0
        BY FS_EmptySet
      <4>3. /\ SumFunctionOnSet([id \in {} |-> usage_events[id].tokens], {}) = 0
            /\ SumFunctionOnSet([id \in {} |-> CostOf(usage_events[id])], {}) = 0
        BY SumOfNone
      <4>. QED BY <4>1, <4>2, <4>3 DEF RollupDelta, SumFunction, Zero
    <3>4. LedgerRollup = [c \in Cell |-> Zero]
      BY <3>2, <3>3 DEF LedgerRollup
    <3>. QED BY <2>1, <3>4
  <2>. QED BY <2>1, <2>3 DEF RollupInv
<1>2. ASSUME IsHistory(usage_events), RollupInv, [Next]_vars PROVE RollupInv'
  <2>1. ASSUME NEW b \in Batches, ApplyBatch(b) PROVE RollupInv'
    BY <1>2, <2>1, InsertKeepsRollup, LedgerAssumption DEF ApplyBatch, Batch
  <2>2. ASSUME NEW w \in SnapshotWrites, ApplySnapshot(w.events, w.cell, w.counter, w.cp)
        PROVE  RollupInv'
    BY <1>2, <2>2, InsertKeepsRollup, LedgerAssumption DEF ApplySnapshot, upsertState, SnapshotWrite
  <2>3. CASE EnsureRollup
    BY <1>2, <2>3, EnsureKeepsRollup
  <2>4. ASSUME NEW rev \in Revision, SyncUnpriced(rev) PROVE RollupInv'
    BY <1>2, <2>4, SyncKeepsRollup
  <2>5. CASE UNCHANGED vars
    BY <1>2, <2>5 DEF vars, rollupVars, RollupInv, RollupEvents, LedgerRollup
  <2>. QED BY <1>2, <2>1, <2>2, <2>3, <2>4, <2>5 DEF Next
<1>. QED BY <1>1, <1>2, HistoryInvariant, PTL DEF Spec

(* A rollup that passes both of RollupStale's checks agrees with the ledger   *)
(* in every cell and measure, whatever inserts, price syncs, repairs and      *)
(* unrepaired restarts led to it.                                             *)
THEOREM RollupIsExact == Spec => []RollupExact
<1>1. RollupInv => RollupExact
  BY DEF RollupInv, RollupExact, RollupStale
<1>. QED BY <1>1, RollupInvariant, PTL
=============================================================================
