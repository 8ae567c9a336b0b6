------------------------------ MODULE Queries ------------------------------
(***************************************************************************)
(* What one statement of a reader finds in the ledger (store: query.go,    *)
(* rollup.go, sqlite.go, activity.go, turncontext.go).                     *)
(*                                                                         *)
(* A ledger is [rows, rolled, mark, calls, contexts]: the usage rows in    *)
(* the order of their ids, the ids the rollup has counted, its watermark,  *)
(* the activity rows [of, name, kind, at, model, session] and the turn     *)
(* contexts [of, dimension, value, at, model, session], where `of' is the  *)
(* id of the usage row they join, None without one.  A row is [at, model,  *)
(* session, tokens, cost, computed]; the model stands for every column a   *)
(* report groups or filters by, and a cost of None for a NULL.  That a     *)
(* cell of the rollup holds the sums of the rows it has counted is what    *)
(* Ledger shows (RollupExact).                                             *)
(*                                                                         *)
(* Times are small numbers.  A local hour and a local day begin on a       *)
(* quarter in every zone; Offset is the zone's.                            *)
(***************************************************************************)
EXTENDS Integers, SequencesExt

CONSTANTS Quarter,   \* rollupBucketSeconds
          Hour, Day, \* in the same unit
          Offset,    \* of local time
          None

ASSUME ClockAssumption ==
    /\ {Quarter, Hour, Day} \subseteq Nat \ {0} /\ Offset \in Nat
    /\ Hour % Quarter = 0 /\ Day % Hour = 0 /\ Offset % Quarter = 0

(* Floor, strftime('%Y-%m-%d %H') and strftime('%Y-%m-%d') in local time. *)
Floor(t) == t - (t % Quarter)
Ceiling(t) == IF t % Quarter = 0 THEN t ELSE Floor(t) + Quarter
HourOf(t) == (t + Offset) \div Hour
DayOf(t) == (t + Offset) \div Day
Midnight(t) == DayOf(t) * Day - Offset

(* A filter: [since, until, by, models]; a bound of None is open, and no    *)
(* models are all of them.                                                  *)
Within(t, since, until) == (since # None => t >= since) /\ (until # None => t < until)
Chosen(f, x) == f.models = {} \/ x.model \in f.models
buildWhere(f, x) == Within(x.at, f.since, f.until) /\ Chosen(f, x)
Filter(since, until, by) == [since |-> since, until |-> until, by |-> by, models |-> {}]
Everything == Filter(None, None, {})
Aligned(t) == (IF t = None THEN 0 ELSE t % Quarter) = 0
----------------------------------------------------------------------------
(* What is summed: a usage row, or a cell of the rollup. *)

Class(row) == IF row.cost = None THEN "unpriced" ELSE IF row.computed THEN "computed" ELSE "vendor"
Ids(l) == DOMAIN l.rows

EventItem(l, id) ==
    LET r == l.rows[id]
    IN [id |-> id, at |-> r.at, model |-> r.model, session |-> r.session, class |-> Class(r), events |-> 1,
        tokens |-> r.tokens, cost |-> IF r.cost = None THEN 0 ELSE r.cost]

EventItems(l, f) == {EventItem(l, id) : id \in {i \in Ids(l) : buildWhere(f, l.rows[i])}}

CellOf(r) == <<Floor(r.at), r.model, r.session, Class(r)>>

EventsOf(items) == SumFunction([i \in items |-> i.events])
TokensOf(items) == SumFunction([i \in items |-> i.tokens])
CostOf(items) == SumFunction([i \in items |-> i.cost])

RollupItem(l, cell) ==
    LET in == {EventItem(l, id) : id \in {i \in l.rolled : CellOf(l.rows[i]) = cell}}
    IN [id |-> None, at |-> cell[1], model |-> cell[2], session |-> cell[3], class |-> cell[4],
        events |-> EventsOf(in), tokens |-> TokensOf(in), cost |-> CostOf(in)]

(* buildRollupWhere: a cell is in the window when its start is. *)
RollupItems(l, f, since, until) ==
    {i \in {RollupItem(l, CellOf(l.rows[id])) : id \in l.rolled} : Within(i.at, since, until) /\ Chosen(f, i)}

(* groupExpr, rollupGroupExpr: the same layouts over either time. *)
KeyOf(by, i) ==
    [d \in by |-> CASE d = "day" -> DayOf(i.at) [] d = "hour" -> HourOf(i.at)
                    [] d = "model" -> i.model [] d = "session" -> i.session]

Sessions(items) == Cardinality({i.session : i \in items} \ {None})

Sum(items) ==
    LET of(class) == {i \in items : i.class = class}
    IN [events |-> EventsOf(items), sessions |-> Sessions(items),
        tokens |-> TokensOf(items), cost |-> CostOf(items),
        unpriced |-> EventsOf(of("unpriced")), computed |-> EventsOf(of("computed"))]

(* One bucket per key; a query that groups by nothing always has its one. *)
Buckets(items, by) ==
    [k \in {KeyOf(by, i) : i \in items} \cup (IF by = {} THEN {<<>>} ELSE {}) |->
        Sum({i \in items : KeyOf(by, i) = k})]

Keys(buckets) == DOMAIN buckets

(* The grand total: the one row, or the sum of all; sessions of several     *)
(* buckets do not add and are counted by a statement of their own.          *)
Totals(buckets, by, sessions) ==
    LET total(field) == SumFunction([k \in Keys(buckets) |-> buckets[k][field]])
    IN IF by = {} THEN buckets[<<>>]
       ELSE [events |-> total("events"), sessions |-> sessions, tokens |-> total("tokens"),
             cost |-> total("cost"), unpriced |-> total("unpriced"), computed |-> total("computed")]
----------------------------------------------------------------------------
(* Summarize *)

MaxId(l) == Len(l.rows)
RollupCurrent(l) == l.mark = MaxId(l)
RollupStale(l) == ~RollupCurrent(l) \/ Cardinality(l.rolled) # Len(l.rows)

(* exactEndingRollupSource: whole cells, and from the last quarter on the   *)
(* rows themselves.                                                         *)
exactEndingRollupSource(l, f) ==
    LET boundary == Floor(f.until)
        since == IF f.since = None \/ f.since < boundary THEN boundary ELSE f.since
    IN RollupItems(l, f, f.since, boundary) \cup EventItems(l, [f EXCEPT !.since = since])

(* A fault: the end is taken to the end of its quarter. *)
RollupSourceWhole(l, f) == RollupItems(l, f, f.since, IF f.until = None THEN None ELSE Ceiling(f.until))
RollupSource(l, f) == IF Aligned(f.until) THEN RollupItems(l, f, f.since, f.until)
                      ELSE exactEndingRollupSource(l, f)

(* summarizeCurrentRollup: rows come with the check, so that an answer      *)
(* without rows does not say whether the rollup was current.                *)
summarizeCurrentRollup(l, f) ==
    LET items == IF RollupCurrent(l) THEN RollupSource(l, f) ELSE {}
    IN [current |-> RollupCurrent(l) /\ (f.by = {} \/ items # {}), buckets |-> Buckets(items, f.by)]

distinctRollupSessions(l, f) == IF RollupCurrent(l) THEN Sessions(RollupSource(l, f)) ELSE 0

summarizeLedger(l, f) == Buckets(EventItems(l, f), f.by)
distinctSessions(l, f) == Sessions(EventItems(l, f))

(* SummarizeRollup: whole quarters, outward, and no check. *)
Snapped(f) == [f EXCEPT !.since = IF @ = None THEN None ELSE Floor(@),
                        !.until = IF @ = None THEN None ELSE Ceiling(@)]
SummarizeRollup(l, f) ==
    LET w == Snapped(f) IN Buckets(RollupItems(l, f, w.since, w.until), f.by)
----------------------------------------------------------------------------
(* UnpricedGroups: what the ladder has to price, by bucket and model. *)

Groups(items, by) ==
    LET unpriced == {i \in items : i.class = "unpriced"}
        sum(k) == Sum({i \in unpriced : <<KeyOf(by, i), i.model>> = k})
    IN {[key |-> k[1], model |-> k[2], events |-> sum(k).events, tokens |-> sum(k).tokens] :
            k \in {<<KeyOf(by, i), i.model>> : i \in unpriced}}

unpricedGroupsCurrentRollup(l, f) ==
    IF RollupCurrent(l) THEN Groups(RollupItems(l, f, f.since, f.until), f.by) ELSE {}

unpricedGroupsLedger(l, f) == Groups(EventItems(l, f), f.by)
----------------------------------------------------------------------------
(* Activity and turn contexts.  Their filter has lists of its own: [since,  *)
(* until, by, models, kinds, names, values, skills], an empty one for all.  *)

ActivityFilter(since, until, by) ==
    [since |-> since, until |-> until, by |-> by, models |-> {}, kinds |-> {}, names |-> {}, values |-> {}, skills |-> {}]

In(list, x) == list = {} \/ x \in list

(* orderExpr, turnContextOrderExpr: calls are turns where there are none. *)
Metric(order, b) == CASE order = "calls" -> b.events [] order = "cost" -> b.cost [] order = "tokens" -> b.tokens

(* Top: buckets by one metric, the largest first, equal ones in a fixed     *)
(* order, and no more than a limit of them (0 for all).                     *)
Top(buckets, order, limit) ==
    LET ranked == SetToSortSeq(Keys(buckets), LAMBDA k, o : Metric(order, buckets[k]) > Metric(order, buckets[o]))
        n == IF limit = 0 \/ Len(ranked) < limit THEN Len(ranked) ELSE limit
    IN [i \in 1..n |-> [key |-> ranked[i], bucket |-> buckets[ranked[i]]]]

(* activityGroupExpr *)
activityGroupExpr(by, c) ==
    [d \in by |-> CASE d = "day" -> DayOf(c.at) [] d = "hour" -> HourOf(c.at) [] d = "name" -> c.name
                     [] d = "kind" -> c.kind [] d = "model" -> c.model [] d = "session" -> c.session]

buildActivityWhere(f, c) ==
    /\ Within(c.at, f.since, f.until)
    /\ In(f.kinds, c.kind) /\ In(f.names, c.name) /\ In(f.models, c.model)

(* A fault: the divisor counts the calls that are selected. *)
SelectedCount(l, selected, c) == Cardinality({k \in selected : k.of = c.of})

(* expected_activity_counts: every call of the turn, selected or not. *)
activityCount(l, selected, c) == Cardinality({k \in l.calls : k.of = c.of})

(* activityBucketQuery: the calls selected, each with its share of the turn *)
(* it joins; the sums over some of them.                                    *)
Share(l, selected, c, whole) == whole \div activityCount(l, selected, c)
AttributedTokens(l, selected, some) ==
    SumFunction([c \in {c \in some : c.of # None} |-> Share(l, selected, c, l.rows[c.of].tokens)])
Attributed(l, selected, some) ==
    LET joined == {c \in some : c.of # None}
        priced == {c \in joined : l.rows[c.of].cost # None}
    IN [events |-> Cardinality(some), sessions |-> Sessions(some),
        tokens |-> AttributedTokens(l, selected, some),
        cost |-> SumFunction([c \in priced |-> Share(l, selected, c, l.rows[c.of].cost)]),
        unattributed |-> Cardinality(some \ joined), unpriced |-> Cardinality(joined \ priced),
        computed |-> Cardinality({c \in priced : l.rows[c.of].computed})]

SelectedCalls(l, f) == {c \in l.calls : buildActivityWhere(f, c)}
SummarizeActivity(l, f) ==
    LET selected == SelectedCalls(l, f)
    IN [k \in {activityGroupExpr(f.by, c) : c \in selected} \cup (IF f.by = {} THEN {<<>>} ELSE {}) |->
          Attributed(l, selected, {c \in selected : activityGroupExpr(f.by, c) = k})]

TopActivity(l, f, order, limit) == Top(SummarizeActivity(l, f), order, limit)

(* A turn's contexts: each dimension divides the same turns in its own way, *)
(* and a query is of one of them.                                           *)
Dimensions == {"agent", "skill"}

(* turnGroupExpr: the dimension's own name is its value; `dimension', the   *)
(* name of another, and what only calls have are refused.                   *)
TurnGroups(dim) == {"day", "hour", "value", "model", "session", dim}
turnGroupExpr(dim, by, c) ==
    [d \in by |-> CASE d = "day" -> DayOf(c.at) [] d = "hour" -> HourOf(c.at) [] d \in {"value", dim} -> c.value
                     [] d = "model" -> c.model [] d = "session" -> c.session]

(* Kinds and names are of calls, and skills of the skill dimension. *)
checkTurnContextFilter(dim, f) ==
    dim \in Dimensions /\ f.kinds = {} /\ f.names = {} /\ (f.skills # {} => dim = "skill")

buildTurnContextWhere(dim, f, c) ==
    /\ c.dimension = dim /\ Within(c.at, f.since, f.until)
    /\ In(f.values, c.value) /\ In(f.skills, c.value) /\ In(f.models, c.model)

Answerable(dim, f) == checkTurnContextFilter(dim, f) /\ f.by \subseteq TurnGroups(dim)

(* SummarizeTurnContext: one row per turn, whole.  A query that is refused  *)
(* has no buckets.                                                          *)
TurnSums(l, some) ==
    LET joined == {c \in some : c.of # None}
        priced == {c \in joined : l.rows[c.of].cost # None}
    IN [events |-> Cardinality(some), sessions |-> Sessions(some),
        tokens |-> SumFunction([c \in joined |-> l.rows[c.of].tokens]),
        cost |-> SumFunction([c \in priced |-> l.rows[c.of].cost]),
        unattributed |-> Cardinality(some \ joined), unpriced |-> Cardinality(joined \ priced),
        computed |-> Cardinality({c \in priced : l.rows[c.of].computed})]

SummarizeTurnContext(l, dim, f) ==
    LET in == {c \in l.contexts : buildTurnContextWhere(dim, f, c)}
    IN IF ~Answerable(dim, f) THEN <<>>
       ELSE [k \in {turnGroupExpr(dim, f.by, c) : c \in in} \cup (IF f.by = {} THEN {<<>>} ELSE {}) |->
               TurnSums(l, {c \in in : turnGroupExpr(dim, f.by, c) = k})]

TopTurnContext(l, dim, f, order, limit) ==
    Top(SummarizeTurnContext(l, dim, f), order, limit)

(* LastEventTimes: of each harness the latest event. *)
LastEventTimes(l) ==
    [m \in {l.rows[id].model : id \in Ids(l)} |-> Max({l.rows[id].at : id \in {i \in Ids(l) : l.rows[i].model = m}})]

(* ListEvents with WithEventTimeKeyset: the first `limit' ids of the window *)
(* after the cursor <<time, id>>; id 0 starts the walk.                     *)
Before(l, i, j) == l.rows[i].at < l.rows[j].at \/ (l.rows[i].at = l.rows[j].at /\ i < j)
(* A fault: the cursor is the time alone. *)
AfterTime(l, cursor, id) == cursor.id = 0 \/ l.rows[id].at > cursor.at
AfterCursor(l, cursor, id) ==
    cursor.id = 0 \/ l.rows[id].at > cursor.at \/ (l.rows[id].at = cursor.at /\ id > cursor.id)

ListEvents(l, f, cursor, limit) ==
    LET in == {id \in Ids(l) : buildWhere(f, l.rows[id]) /\ AfterCursor(l, cursor, id)}
        rank(id) == Cardinality({o \in in : Before(l, o, id)}) + 1
        page == {id \in in : rank(id) <= limit}
    IN [n \in 1..Cardinality(page) |-> CHOOSE id \in page : rank(id) = n]
=============================================================================
