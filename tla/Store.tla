------------------------------- MODULE Store -------------------------------
(***************************************************************************)
(* The collector's SQLite database (store/), one variable per table and    *)
(* one action per write of the Ledger handle.  Every write is one SQLite   *)
(* transaction, so an action is atomic; a transaction that fails - a       *)
(* crash, a full disk, a cancelled context - is rolled back and changes    *)
(* nothing, which is the stuttering step.                                  *)
(*                                                                         *)
(* A usage row keeps its dedup key, its tokens, its price, and the `group' *)
(* that stands for its bucket, tool, model, project, session, provider and *)
(* service tier: everything a rollup cell is keyed by except the price     *)
(* class, which changes when the row is priced.  The six token columns are *)
(* added and subtracted together and are modelled by one.                  *)
(***************************************************************************)
EXTENDS Integers, Sequences, FiniteSets, FiniteSetsExt

CONSTANTS
    Key,          \* dedup keys of usage rows
    Group,        \* rollup dimensions other than the price class
    Revision,     \* revisions of the pricing tables
    PriceEvent,   \* [Revision -> [Group -> a quote or NoPrice]]
    BatchSize,    \* priceSyncBatchSize: candidates per price sync
    ActivityKey,  \* dedup keys of activity rows
    Dimension,    \* turn-context dimensions
    ChangeId,     \* code-change ids
    SourceId,     \* (tool, source path) of a checkpoint
    AccKey,       \* (tool, acc_key) of an aggregate cell
    None,         \* an absent row, an absent checkpoint
    NoPrice       \* SQL NULL cost

VARIABLES
    usage_events,          \* id -> [key, group, tokens, price]
    usage_rollup,          \* cell -> [events, tokens, cost]; absent = zero
    rollup_watermark,      \* schema_meta.rollup_watermark, None when absent
    price_sync,            \* schema_meta.price_sync_{revision,cursor}
    activity_events,       \* activity dedup key -> usage key it names, or None
    activity_usage_counts, \* usage key -> activity rows naming it
    usage_turn_context,    \* <<usage key, dimension>> -> value
    code_changes,          \* change id -> [at, lines] or None
    source_checkpoints,    \* source -> checkpoint or None
    aggregate_state        \* aggregate cell -> last observed counter or None

rollupVars   == <<usage_rollup, rollup_watermark>>
activityVars == <<activity_events, activity_usage_counts>>
sideVars     == <<usage_turn_context, code_changes>>
vars == <<usage_events, rollupVars, price_sync, activityVars, sideVars,
          source_checkpoints, aggregate_state>>
-----------------------------------------------------------------------------
(* Data *)

PriceClass == {"unpriced", "computed", "vendor"}
Price == [micro : Nat, class : {"computed", "vendor"}]

(* What PriceEvent may answer.  `free' is the "+free" suffix of the source. *)
PriceQuote == [micro : Int, class : {"computed", "vendor"}, free : BOOLEAN]

Event == [key : Key, group : Group, tokens : Nat, price : Price \cup {NoPrice}]

Cell == Group \X PriceClass
Zero == [events |-> 0, tokens |-> 0, cost |-> 0]

ASSUME StoreAssumption ==
    /\ BatchSize \in Nat \ {0}
    (* A ledger names finitely many buckets, tools, models and sessions.      *)
    /\ IsFiniteSet(Group)
    /\ PriceEvent \in [Revision -> [Group -> PriceQuote \cup {NoPrice}]]
    /\ NoPrice \notin Price /\ NoPrice \notin PriceQuote
    /\ None \notin Revision /\ None \notin Nat /\ None \notin [at : Nat, lines : Nat]
-----------------------------------------------------------------------------
(* The rollup as a function of the ledger *)

(* MAX(id): the high-water mark of the ledger, 0 when it is empty. *)
MaxId(rows) == IF DOMAIN rows = {} THEN 0 ELSE Max(DOMAIN rows)

eventPriceClass(row) == IF row.price = NoPrice THEN "unpriced" ELSE row.price.class

(* The rollup cell a row is counted in. *)
CellOf(row) == <<row.group, eventPriceClass(row)>>

CostOf(row) == IF row.price = NoPrice THEN 0 ELSE row.price.micro

(* rollupDelta.add over a set of rows: what they contribute to cell c. *)
RollupDelta(rows, ids, c) ==
    LET in == {id \in ids : CellOf(rows[id]) = c}
    IN  [events |-> Cardinality(in),
         tokens |-> SumFunction([id \in in |-> rows[id].tokens]),
         cost   |-> SumFunction([id \in in |-> CostOf(rows[id])])]

(* rollupDelta.apply: the upsert adds the delta onto the stored cell. *)
Add(a, b) == [m \in {"events", "tokens", "cost"} |-> a[m] + b[m]]
Sub(a, b) == [m \in {"events", "tokens", "cost"} |-> a[m] - b[m]]

(* The contents RebuildRollup defines the table to have. *)
LedgerRollup == [c \in Cell |-> RollupDelta(usage_events, DOMAIN usage_events, c)]

RollupEvents == SumFunction([c \in Cell |-> usage_rollup[c].events])

Watermark == IF rollup_watermark = None THEN 0 ELSE rollup_watermark

(* rollupCurrentSQL: the check the accelerated reads make, on ids alone. *)
RollupCurrent == Watermark = MaxId(usage_events)

(* Mutant of RollupStale: the row count is not compared. *)
RollupStaleWatermarkOnly == ~RollupCurrent

(* RollupStale: the two checks EnsureRollup makes, on ids and on row counts. *)
RollupStale ==
    \/ ~RollupCurrent
    \/ Cardinality(DOMAIN usage_events) # RollupEvents

(* The divisor activity queries share a turn's cost by. *)
ActivityCounts ==
    [k \in Key |-> Cardinality({a \in DOMAIN activity_events : activity_events[a] = k})]
-----------------------------------------------------------------------------
(* The tables a batch writes, one operator each *)

RecordedKeys == {usage_events[id].key : id \in DOMAIN usage_events}

(* The positions of `events' that reach the ledger: the row passes its own   *)
(* CHECKs (`ok'; a poison row is skipped, not fatal) and its dedup key is    *)
(* new to the ledger and to the batch.                                       *)
Fresh(events) ==
    {i \in DOMAIN events :
        /\ events[i].ok
        /\ events[i].event.key \notin RecordedKeys
        /\ \A j \in 1 .. i - 1 : events[j].ok => events[j].event.key # events[i].event.key}

(* insertEventsTx.  Ids only ever order rows: AUTOINCREMENT never reuses one, *)
(* and a skipped position may leave a gap.  The rollup delta is folded from   *)
(* the rows actually inserted, and lands with them.                           *)
InsertEvents(events) ==
    LET base == MaxId(usage_events)
        new  == {base + i : i \in Fresh(events)}
    IN  /\ usage_events' = [id \in DOMAIN usage_events \cup new |->
                              IF id \in new THEN events[id - base].event
                                            ELSE usage_events[id]]
        /\ IF new = {}
           THEN UNCHANGED rollupVars
           ELSE /\ usage_rollup' = [c \in Cell |->
                      Add(usage_rollup[c], RollupDelta(usage_events', new, c))]
                /\ rollup_watermark' = Max(new \cup {Watermark})

(* Mutant of InsertActivity: the divisor counts the rows offered, not inserted. *)
InsertActivityCountingOffered(acts) ==
    LET keys == {acts[i].key : i \in {j \in DOMAIN acts : acts[j].ok}}
    IN  /\ activity_events' = [a \in DOMAIN activity_events \cup keys |->
              IF a \in DOMAIN activity_events THEN activity_events[a]
              ELSE acts[CHOOSE i \in DOMAIN acts : acts[i].key = a].usage]
        /\ activity_usage_counts' = [k \in Key |->
              activity_usage_counts[k] + Cardinality({i \in DOMAIN acts : acts[i].usage = k})]

(* insertActivityTx, with applyActivityUsageCountDelta: same idempotence, and *)
(* the divisor grows by exactly the rows inserted that name a usage row.      *)
InsertActivity(acts) ==
    LET new == {i \in DOMAIN acts :
                  /\ acts[i].ok
                  /\ acts[i].key \notin DOMAIN activity_events
                  /\ \A j \in 1 .. i - 1 : acts[j].ok => acts[j].key # acts[i].key}
        keys == {acts[i].key : i \in new}
    IN  /\ activity_events' = [a \in DOMAIN activity_events \cup keys |->
              IF a \in keys THEN acts[CHOOSE i \in new : acts[i].key = a].usage
                            ELSE activity_events[a]]
        /\ activity_usage_counts' = [k \in Key |->
              activity_usage_counts[k] + Cardinality({i \in new : acts[i].usage = k})]

(* insertTurnContextsTx: one value per (usage row, dimension), the first seen. *)
InsertTurnContexts(ctxs) ==
    LET at(i) == <<ctxs[i].usage, ctxs[i].dimension>>
        new == {i \in DOMAIN ctxs :
                  /\ ctxs[i].ok
                  /\ at(i) \notin DOMAIN usage_turn_context
                  /\ \A j \in 1 .. i - 1 : ctxs[j].ok => at(j) # at(i)}
    IN  usage_turn_context' =
          [k \in DOMAIN usage_turn_context \cup {at(i) : i \in new} |->
              IF k \in DOMAIN usage_turn_context THEN usage_turn_context[k]
              ELSE ctxs[CHOOSE i \in new : at(i) = k].value]

(* Mutant of UpsertCodeChanges: the last snapshot offered always replaces. *)
UpsertCodeChangesUnguarded(changes) ==
    /\ \A i \in DOMAIN changes : changes[i].ok
    /\ code_changes' = [c \in ChangeId |->
          LET offered == {i \in DOMAIN changes : changes[i].id = c}
          IN  IF offered = {} THEN code_changes[c]
              ELSE [at |-> changes[Max(offered)].at, lines |-> changes[Max(offered)].lines]]

(* upsertCodeChangesTx: a snapshot no older than the stored one replaces it;  *)
(* among equals the last offered wins.  An invalid one (`ok' false) is a hard *)
(* error that rolls the whole batch back.                                     *)
UpsertCodeChanges(changes) ==
    LET offered(c) == {i \in DOMAIN changes :
                         /\ changes[i].id = c
                         /\ code_changes[c] = None \/ changes[i].at >= code_changes[c].at}
        winner(c) == CHOOSE i \in offered(c) : \A j \in offered(c) :
                         \/ changes[j].at < changes[i].at
                         \/ changes[j].at = changes[i].at /\ j <= i
    IN  /\ \A i \in DOMAIN changes : changes[i].ok
        /\ code_changes' = [c \in ChangeId |->
              IF offered(c) = {} THEN code_changes[c]
              ELSE [at |-> changes[winner(c)].at, lines |-> changes[winner(c)].lines]]

(* upsertCheckpoint; a nil checkpoint writes nothing. *)
UpsertCheckpoint(cp) ==
    source_checkpoints' = IF cp = None THEN source_checkpoints
                          ELSE [source_checkpoints EXCEPT ![cp.source] = cp]
-----------------------------------------------------------------------------
(* The writes of the Ledger handle *)

(* Mutant of ApplyBatch: rows and checkpoint commit in two transactions. *)
ApplyBatchCheckpointApart(b) ==
    \/ /\ UpsertCheckpoint(b.cp)
       /\ UNCHANGED <<usage_events, rollupVars, price_sync, activityVars, sideVars,
                      aggregate_state>>
    \/ /\ InsertEvents(b.events)
       /\ InsertActivity(b.activity)
       /\ InsertTurnContexts(b.contexts)
       /\ UpsertCodeChanges(b.changes)
       /\ UNCHANGED <<price_sync, source_checkpoints, aggregate_state>>

(* ApplyBatch (and InsertEvents, ApplyEvents, ApplyObservation, its special  *)
(* cases): one read of one source, with its checkpoint, in one transaction.  *)
ApplyBatch(b) ==
    /\ InsertEvents(b.events)
    /\ InsertActivity(b.activity)
    /\ InsertTurnContexts(b.contexts)
    /\ UpsertCodeChanges(b.changes)
    /\ UpsertCheckpoint(b.cp)
    /\ UNCHANGED <<price_sync, aggregate_state>>

(* The baseline the next delta of an aggregate cell starts from, None before  *)
(* its first, and its replacement.                                            *)
LastState(cell) == aggregate_state[cell]
upsertState(cell, counter) == aggregate_state' = [aggregate_state EXCEPT ![cell] = counter]

(* ApplySnapshot: an aggregate cell's delta event, if any, with its new       *)
(* baseline.  A rejected row rolls the transaction back (no step); an event   *)
(* whose key exists commits nothing, so that the delta stays re-derivable.    *)
ApplySnapshot(events, cell, counter, cp) ==
    /\ \A i \in DOMAIN events : events[i].ok
    /\ InsertEvents(events)
    /\ IF events = <<>> \/ Fresh(events) # {}
       THEN /\ upsertState(cell, counter)
            /\ UpsertCheckpoint(cp)
       ELSE UNCHANGED <<aggregate_state, source_checkpoints>>
    /\ UNCHANGED <<price_sync, activityVars, sideVars>>

(* RebuildRollup: refilled from the ledger, the watermark moved even down. *)
RebuildRollup ==
    /\ usage_rollup' = LedgerRollup
    /\ rollup_watermark' = MaxId(usage_events)

(* EnsureRollup: each derived table is rebuilt when it disagrees with its     *)
(* ledger, in a transaction of its own: first the rollup, then the counts.  A *)
(* rebuild that fails is reported and collection goes on, so nothing forces   *)
(* either half between two other actions.                                     *)
EnsureUsageRollup ==
    /\ IF RollupStale THEN RebuildRollup ELSE UNCHANGED rollupVars
    /\ UNCHANGED <<usage_events, price_sync, activityVars, sideVars,
                   source_checkpoints, aggregate_state>>

EnsureActivityCounts ==
    /\ activity_usage_counts' = ActivityCounts
    /\ UNCHANGED <<usage_events, rollupVars, price_sync, activity_events, sideVars,
                   source_checkpoints, aggregate_state>>

EnsureRollup == EnsureUsageRollup \/ EnsureActivityCounts
-----------------------------------------------------------------------------
(* SyncUnpriced *)

(* Mutant of Unpriced: candidates are not restricted to NULL costs. *)
UnpricedAnyRow == DOMAIN usage_events

(* The rows whose cost is NULL. *)
Unpriced == {id \in DOMAIN usage_events : usage_events[id].price = NoPrice}

(* The quote a price sync accepts: computed, and free only when it says so. *)
Acceptable(q) ==
    /\ q # NoPrice
    /\ q.micro >= 0 /\ (q.micro = 0 => q.free)
    /\ q.class = "computed"

Quote(rev, id) == PriceEvent[rev][usage_events[id].group]

(* Mutant of StartCursor: the cursor survives a change of revision. *)
StartCursorAcrossRevisions(rev) ==
    IF price_sync.cursor <= MaxId(usage_events) THEN price_sync.cursor ELSE 0

(* The cursor this pass starts from: kept within one revision only. *)
StartCursor(rev) ==
    IF price_sync.revision = rev /\ price_sync.cursor <= MaxId(usage_events)
    THEN price_sync.cursor ELSE 0

(* Mutant of Candidates: every pass looks at the first rows again. *)
CandidatesFromTheStart(rev) ==
    {id \in Unpriced : Cardinality({o \in Unpriced : o < id}) < BatchSize}

(* The first BatchSize unpriced rows after the cursor. *)
Candidates(rev) ==
    LET after == {id \in Unpriced : id > StartCursor(rev)}
    IN  {id \in after : Cardinality({o \in after : o < id}) < BatchSize}

(* checkPriceSyncRollup: no cell is asked for more than it holds, and one     *)
(* left without rows is left empty.                                           *)
RollupCovers(ids) ==
    \A g \in Group :
        LET moved == RollupDelta(usage_events, ids, <<g, "unpriced">>)
            old   == usage_rollup[<<g, "unpriced">>]
        IN  moved.events > 0 =>
              /\ old.cost = 0
              /\ moved.events <= old.events /\ moved.tokens <= old.tokens
              /\ old.events = moved.events => old.tokens = moved.tokens

(* The candidates the tables of `rev' can price. *)
Priced(rev) == {id \in Candidates(rev) : Acceptable(Quote(rev, id))}

(* Everything up to the last row was looked at under this revision already. *)
PriceSyncCurrent(rev) ==
    price_sync.revision = rev /\ price_sync.cursor = MaxId(usage_events)

(* The rollup does not hold what would have to be moved: the transaction fails. *)
PriceSyncRefused(rev) ==
    /\ Priced(rev) # {}
    /\ ~(rollup_watermark = MaxId(usage_events) /\ RollupCovers(Priced(rev)))

(* One pass over at most BatchSize candidates: the rows the tables of `rev'   *)
(* can price move to the computed cells, and the cursor moves past all the    *)
(* candidates.                                                                *)
SyncUnpriced(rev) ==
    LET found  == Candidates(rev)
        priced == Priced(rev)
        last   == IF Cardinality(found) = BatchSize THEN Max(found) ELSE MaxId(usage_events)
    IN  /\ ~PriceSyncCurrent(rev) /\ ~PriceSyncRefused(rev)
        /\ usage_events' = [id \in DOMAIN usage_events |->
              IF id \in priced
              THEN [usage_events[id] EXCEPT !.price =
                      [micro |-> Quote(rev, id).micro, class |-> "computed"]]
              ELSE usage_events[id]]
        /\ usage_rollup' =
              IF priced = {} THEN usage_rollup
              ELSE [c \in Cell |->
                      Add(Sub(usage_rollup[c], RollupDelta(usage_events, priced, c)),
                          RollupDelta(usage_events', priced, c))]
        /\ price_sync' = [revision |-> rev, cursor |-> last]
        /\ UNCHANGED <<rollup_watermark, activityVars, sideVars,
                       source_checkpoints, aggregate_state>>
=============================================================================
