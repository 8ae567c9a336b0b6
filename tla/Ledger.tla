------------------------------- MODULE Ledger -------------------------------
(***************************************************************************)
(* The write handle store.Open returns, under any use its public API       *)
(* allows: the transactions of Store in any order, on a database that is   *)
(* new or was just migrated.  A migration to v8 leaves the rollup empty    *)
(* without a watermark (store/migrate.go), so a history may already be     *)
(* there that the rollup does not cover.                                   *)
(***************************************************************************)
EXTENDS Store

CONSTANTS
    Histories,      \* the ledgers Open may find, the empty one among them
    Batches,        \* the observation batches offered to ApplyBatch
    SnapshotWrites  \* the writes offered to ApplySnapshot

Checkpoint == [source : SourceId, at : Nat]

EventRow    == [event : Event, ok : BOOLEAN]
ActivityRow == [key : ActivityKey, usage : Key \cup {None}, ok : BOOLEAN]
ContextRow  == [usage : Key, dimension : Dimension, value : Nat, ok : BOOLEAN]
ChangeRow   == [id : ChangeId, at : Nat, lines : Nat, ok : BOOLEAN]

Batch == [events   : Seq(EventRow), activity : Seq(ActivityRow),
          contexts : Seq(ContextRow), changes : Seq(ChangeRow),
          cp       : Checkpoint \cup {None}]

SnapshotWrite == [events : Seq(EventRow), cell : AccKey, counter : Nat,
                  cp : Checkpoint \cup {None}]

(* A ledger on disk: rows under positive ids, no key twice. *)
IsHistory(rows) ==
    /\ MaxId(rows) \in Nat /\ DOMAIN rows \subseteq 1 .. MaxId(rows)
    /\ rows \in [DOMAIN rows -> Event]
    /\ \A id, other \in DOMAIN rows : id # other => rows[id].key # rows[other].key

ASSUME LedgerAssumption ==
    /\ Batches \subseteq Batch
    /\ SnapshotWrites \subseteq SnapshotWrite
    /\ \A rows \in Histories : IsHistory(rows)

Init ==
    /\ usage_events \in Histories
    /\ usage_rollup = [c \in Cell |-> Zero]
    /\ rollup_watermark = None
    /\ price_sync = [revision |-> None, cursor |-> 0]
    /\ activity_events = [a \in {} |-> None]
    /\ activity_usage_counts = [k \in Key |-> 0]
    /\ usage_turn_context = [k \in {} |-> 0]
    /\ code_changes = [c \in ChangeId |-> None]
    /\ source_checkpoints = [s \in SourceId |-> None]
    /\ aggregate_state = [c \in AccKey |-> None]

Next ==
    \/ \E b \in Batches : ApplyBatch(b)
    \/ \E w \in SnapshotWrites : ApplySnapshot(w.events, w.cell, w.counter, w.cp)
    \/ EnsureRollup
    \/ \E rev \in Revision : SyncUnpriced(rev)

Spec == Init /\ [][Next]_vars
-----------------------------------------------------------------------------
(* Properties *)

TypeOK ==
    /\ DOMAIN usage_events \subseteq Nat \ {0}
    /\ usage_events \in [DOMAIN usage_events -> Event]
    /\ DOMAIN usage_rollup = Cell
    /\ rollup_watermark \in Nat \cup {None}
    /\ price_sync \in [revision : Revision \cup {None}, cursor : Nat]
    /\ DOMAIN activity_events \subseteq ActivityKey
    /\ activity_events \in [DOMAIN activity_events -> Key \cup {None}]
    /\ activity_usage_counts \in [Key -> Nat]
    /\ DOMAIN usage_turn_context \subseteq Key \X Dimension
    /\ code_changes \in [ChangeId -> [at : Nat, lines : Nat] \cup {None}]
    /\ source_checkpoints \in [SourceId -> Checkpoint \cup {None}]
    /\ aggregate_state \in [AccKey -> Nat \cup {None}]

(* A rollup that passes both of RollupStale's checks - the watermark and the  *)
(* total row count - agrees with the ledger cell by cell, in every measure    *)
(* (EnsureRollup repairs nothing else, so anything it lets pass stays wrong). *)
RollupExact == ~RollupStale => usage_rollup = LedgerRollup

(* The persisted cursor never hides a row that could be priced: at the        *)
(* recorded revision no unpriced row at or below it has an acceptable quote.  *)
CursorSound ==
    price_sync.revision # None =>
        \A id \in Unpriced :
            id <= price_sync.cursor => ~Acceptable(Quote(price_sync.revision, id))

(* Every acceptable row of a write is in the ledgers. *)
Landed(events, acts) ==
    /\ \A i \in DOMAIN events : events[i].ok => events[i].event.key \in RecordedKeys
    /\ \A i \in DOMAIN acts : acts[i].ok => acts[i].key \in DOMAIN activity_events

(* A stored checkpoint never outruns its data: it came with a write whose     *)
(* every acceptable usage and activity row is in the ledgers (ApplyBatch and  *)
(* ApplySnapshot; a later read starts from it and never re-reads them).       *)
CheckpointCovered ==
    \A s \in SourceId : source_checkpoints[s] # None =>
        \/ \E b \in Batches : b.cp = source_checkpoints[s] /\ Landed(b.events, b.activity)
        \/ \E w \in SnapshotWrites : w.cp = source_checkpoints[s] /\ Landed(w.events, <<>>)

(* The divisor that shares a turn's cost among its activity rows equals the   *)
(* rows that name the turn, whatever mix of new, repeated and rejected rows   *)
(* the batches carried, so the shares always add up to the cost.              *)
ActivityCountsExact == activity_usage_counts = ActivityCounts

(* The activity and turn-context ledgers are append-only too: the first value *)
(* recorded under a key is the one every later report sees.                   *)
SideLedgersAppendOnly ==
    [][/\ \A a \in DOMAIN activity_events :
              a \in DOMAIN activity_events' /\ activity_events'[a] = activity_events[a]
       /\ \A k \in DOMAIN usage_turn_context :
              k \in DOMAIN usage_turn_context' /\ usage_turn_context'[k] = usage_turn_context[k]
      ]_<<activity_events, usage_turn_context>>

(* A code-change snapshot never goes back to an older one, in whatever order  *)
(* the sources deliver them (upsertCodeChangesTx).                            *)
CodeChangesNeverRegress ==
    [][\A c \in ChangeId : code_changes[c] # None =>
          code_changes'[c] # None /\ code_changes'[c].at >= code_changes[c].at]_code_changes

(* The refinement: what the store promises (UsageLedger). *)
History ==
    [id \in DOMAIN usage_events |->
        [key     |-> usage_events[id].key,
         content |-> <<usage_events[id].group, usage_events[id].tokens>>,
         price   |-> usage_events[id].price]]

Promise == INSTANCE UsageLedger
    WITH history <- History, Content <- Group \X Nat

(* Whatever is done through the handle, the history only grows, no dedup key  *)
(* is ever stored twice and a stored row changes only by gaining its price.   *)
HistoryKept == Promise!Spec

=============================================================================
