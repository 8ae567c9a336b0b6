------------------------------ MODULE Readers ------------------------------
(***************************************************************************)
(* Readers of the ledger while the collector writes it: `aiusage summary'  *)
(* and `today' (internal/cmd, internal/report), `aiusage export', the      *)
(* pages of `aiusage serve' (internal/web: now.go, history.go) and the     *)
(* screens of the terminal interface (internal/tui: data.go, load.go,      *)
(* fold.go, pivot.go).  When a screen's load is sent, cancelled and        *)
(* applied is the subject of Interface.                                    *)
(*                                                                         *)
(* A reader holds no transaction: every statement of it sees the ledger as *)
(* it is then, and the collector commits between any two.  Its answer is   *)
(* put together from all of them.  A statement that fails ends the reader  *)
(* with an error, except where a reader goes on without (GoesWithout).     *)
(***************************************************************************)
EXTENDS Queries

CONSTANTS
    Histories,   \* the ledgers readers may begin with
    Batches,     \* what the collector may record: [row, calls, contexts, joined]
    LateCalls,   \* calls recorded after their turn
    Questions,   \* the readers: [kind, f, now], or a screen's
    Rate,        \* the price tables: [model -> per token or None]
    PageSize,    \* exportPageSize
    IdleAfter,
    SpanDays,    \* the days of a history before today
    MaxSeries,
    WeekDays,    \* the days of the range "week" (7d)
    RankLimit,   \* activityRankLimit
    FoldPercent, \* foldThresholdPercent
    Session,     \* sessions, and None where a row names none
    MaxRows      \* bound on the ledger

ASSUME ScreenAssumption == WeekDays \in Nat \ {0} /\ RankLimit \in Nat /\ FoldPercent \in 0..100

Model == DOMAIN Rate
EventRow == [at : Int, model : Model, session : Session, tokens : Nat, cost : Nat \cup {None}, computed : BOOLEAN]
CallRow == [of : Nat \cup {None}, name : STRING, kind : STRING, at : Int, model : Model, session : Session]
ContextRow == [of : Nat, dimension : Dimensions, value : STRING, at : Int, model : Model, session : Session]

(* A ledger, of whose rows the rollup has counted all when its watermark is *)
(* at the last; a turn has one context per dimension.                       *)
IsLedger(l) ==
    /\ l \in [rows : Seq(EventRow), rolled : SUBSET Nat, mark : Nat, calls : SUBSET CallRow, contexts : SUBSET ContextRow]
    /\ l.rolled \subseteq Ids(l) /\ l.mark <= MaxId(l) /\ (RollupCurrent(l) => l.rolled = Ids(l))
    /\ IsFiniteSet(l.calls) /\ \A c \in l.calls : c.of \in Ids(l) \cup {None}
    /\ IsFiniteSet(l.contexts) /\ \A c \in l.contexts : c.of \in Ids(l)
    /\ \A c, d \in l.contexts : c.of = d.of /\ c.dimension = d.dimension => c = d

IsBatch(b) ==
    /\ b.row \in EventRow /\ b.joined \in BOOLEAN
    /\ IsFiniteSet(b.calls) /\ b.calls \subseteq STRING \X STRING
    /\ IsFiniteSet(b.contexts) /\ b.contexts \subseteq Dimensions \X STRING
    /\ \A c, d \in b.contexts : c[1] = d[1] => c = d

UsageGroups == {"day", "hour", "model", "session"}
IsFilter(f) ==
    /\ f = [since |-> f.since, until |-> f.until, by |-> f.by, models |-> f.models]
    /\ {f.since, f.until} \subseteq Int \cup {None} /\ f.by \subseteq UsageGroups

IsQuestion(q) ==
    /\ q.now \in Int
    /\ \/ q.kind \in {"summary", "export"} /\ IsFilter(q.f)
       \/ q.kind \in {"usage", "now", "nothing"}
       \/ q.kind = "turns"
       \/ q.kind \in {"overview", "list", "activity"} /\ q.range \in {"today", "week", "all"} /\ q.step \in Nat
          /\ (q.kind = "list" => q.dim \in UsageGroups)

ASSUME ReaderAssumption ==
    /\ None \notin Int /\ \A m \in Model : Rate[m] \in Nat \cup {None}
    /\ \A l \in Histories : IsLedger(l)
    /\ (\A b \in Batches : IsBatch(b)) /\ LateCalls \subseteq CallRow
    /\ \A q \in Questions : IsQuestion(q)
    /\ PageSize \in Nat \ {0} /\ {IdleAfter, SpanDays} \subseteq Nat

VARIABLES ledger, reader

readerVars == <<ledger, reader>>
----------------------------------------------------------------------------
(* A question: what is asked, and of which dimension or in which order,     *)
(* where that matters.                                                      *)
Asking(what, f) == [what |-> what, f |-> f, dim |-> None, order |-> None]
Ranking(what, f, dim, order) == [what |-> what, f |-> f, dim |-> dim, order |-> order]
----------------------------------------------------------------------------
(* The windows of a screen *)

spanDays(range) == CASE range = "today" -> 1 [] range = "week" -> WeekDays [] range = "all" -> 0

(* Range.Window, Span.Window: the live window begins at a midnight and has  *)
(* no end; one `step' behind it is the whole span that ends where the next  *)
(* one begins.                                                              *)
LiveSince(range, now) == IF range = "all" THEN None ELSE Midnight(now) - (spanDays(range) - 1) * Day
Window(range, step, now) ==
    LET base == LiveSince(range, now)
        days == spanDays(range) * Day
    IN IF step = 0 \/ days = 0 THEN [since |-> base, until |-> None]
       ELSE [since |-> base - days * step, until |-> base - days * (step - 1)]

(* filterFor: of a live window the usage is asked for until the load's own  *)
(* instant; activityFilterFor leaves it open.                               *)
filterFor(range, step, now, by) ==
    LET w == Window(range, step, now)
    IN Filter(w.since, IF step = 0 /\ range # "all" THEN now ELSE w.until, by)
activityFilterFor(range, step, now, by) ==
    LET w == Window(range, step, now) IN ActivityFilter(w.since, w.until, by)

(* applyCrumb, of the one column there is. *)
applyCrumb(f, value) == [f EXCEPT !.models = @ \cup {value}]

timelineDim(range) == IF range = "today" THEN "hour" ELSE "day"

(* prevWindow: what a window is compared with, the same part of the span    *)
(* before it; None for all of the ledger.                                   *)
prevWindow(range, step, now) ==
    LET before == Window(range, step + 1, now)
        days == spanDays(range) * Day
    IN IF range = "all" THEN None
       ELSE IF step > 0 THEN Filter(before.since, before.until, {})
       ELSE Filter(LiveSince(range, now) - days, now - days, {})
----------------------------------------------------------------------------
(* The questions of a screen *)

(* loadOverviewWith: the timeline, the bars, the bars of every bucket of    *)
(* the timeline, and the period before (prevTotals).                        *)
OverviewAsks(range, step, now) ==
    LET dim == timelineDim(range)
        prev == prevWindow(range, step, now)
        sum(by) == Asking("sum", filterFor(range, step, now, by))
    IN <<sum({dim}), sum({"model"}), sum({dim, "model"})>>
         \o (IF prev = None THEN <<>> ELSE <<Asking("sum", prev)>>)

(* loadBrowseBase: the rows and their denominator; loadByModelBase: and     *)
(* then, for the row selected, its timeline.                                *)
BrowseAsks(range, step, now, dim) ==
    <<Asking("sum", filterFor(range, step, now, {dim})), Asking("sum", filterFor(range, step, now, {}))>>
ListAsks(range, step, now, dim) ==
    BrowseAsks(range, step, now, dim)
      \o (IF dim = "model" THEN <<Asking("selected", filterFor(range, step, now, {timelineDim(range)}))>> ELSE <<>>)
Trend(f, value) == Asking("sum", applyCrumb(f, value))

(* loadActivity: the ranking, the kinds with the totals, the calls of each  *)
(* bucket.                                                                  *)
CallAsks(range, step, now, order) ==
    LET f(by) == activityFilterFor(range, step, now, by)
    IN <<Ranking("topcalls", f({"name", "kind", "model"}), None, order), Asking("calls", f({"kind"})),
         Asking("calls", f({timelineDim(range)}))>>

(* loadTurnContext: the same three of one dimension. *)
ContextAsks(range, step, now, dim, order) ==
    LET f(by) == activityFilterFor(range, step, now, by)
    IN <<Ranking("topturns", f({"value", "model"}), dim, order), Ranking("turns", f({"model"}), dim, None),
         Ranking("turns", f({timelineDim(range)}), dim, None)>>

(* activityOrder: by name is by calls, and the page is sorted after. *)
activityOrder(sort) == CASE sort = "cost" -> "cost" [] sort = "total" -> "tokens" [] OTHER -> "calls"

(* Dimension: no pivot but the calls is of another ledger. *)
PivotAsks(pivot, range, step, now, sort) ==
    IF pivot = "calls" THEN CallAsks(range, step, now, activityOrder(sort))
    ELSE ContextAsks(range, step, now, pivot, activityOrder(sort))
----------------------------------------------------------------------------
(* What a screen shows *)

Tokens(buckets, some) == SumFunction([k \in some |-> buckets[k].tokens])
Events(buckets, some) == SumFunction([k \in some |-> buckets[k].events])

(* filterBuckets: what the user filters by leaves any part of the rows. *)
filterBuckets(rows) == SUBSET Keys(rows)

(* grandOf: the share of a row is of the larger of the total and of what    *)
(* the rows add up to; of the latter where the total cannot be read.        *)
grandOf(rows, shown, total) ==
    LET sum == Tokens(rows, shown) IN IF total # None /\ total > sum THEN total ELSE sum

(* foldMinorTools: the rows too small to tell apart become one, if there    *)
(* are two of them.                                                         *)
isMinorShare(value, grand) == value * 100 < grand * FoldPercent
Minor(rows, shown, grand) == {k \in shown : isMinorShare(rows[k].tokens, grand)}
foldMinorTools(rows, shown, grand) ==
    LET minor == Minor(rows, shown, grand)
    IN IF grand <= 0 \/ Cardinality(minor) < 2 THEN [rows |-> shown, folded |-> {}, tokens |-> 0]
       ELSE [rows |-> shown \ minor, folded |-> minor, tokens |-> Tokens(rows, minor)]

(* buildScrubComp: the bars of a bucket are the rows that have its time.    *)
buildScrubComp(comp, dim, bucket) == {k \in Keys(comp) : k[dim] = bucket[dim]}

(* syncScrub: a pinned bucket's numbers are those of the timeline, its bars *)
(* those that were loaded with it; nothing is asked.                        *)
syncScrub(timeline, comp, dim, bucket) ==
    [totals |-> timeline[bucket],
     bars |-> foldMinorTools(comp, buildScrubComp(comp, dim, bucket), timeline[bucket].tokens)]
----------------------------------------------------------------------------
(* The readers, each a list of questions asked one after the other. *)

(* A fault: what is unpriced is asked for first. *)
SummaryAsksSwapped(f) == <<Asking("groups", f), Asking("sum", f)>>
(* runSummary and renderSummary with resolveCosts. *)
SummaryAsks(f) == <<Asking("sum", f), Asking("groups", f)>>

(* buildHistory: usageHistory and turnHistory. *)
RangeStart(now) == Midnight(now) - SpanDays * Day
UsageAsks(now) ==
    <<Asking("stale", Everything), Asking("snapped", Filter(RangeStart(now), now, {"model"})),
      Asking("snapped", Filter(RangeStart(now), now, {"model", "day"}))>>
TurnsBy(now, dim, by) == Ranking("turns", ActivityFilter(RangeStart(now), now, by), dim, None)
TurnsInAll(now) == Asking("sum", Filter(RangeStart(now), now, {}))
TurnAsks(now, dim) == <<TurnsBy(now, dim, {"value"}), TurnsInAll(now), TurnsBy(now, dim, {"value", "day"})>>

(* buildNow; the last hours begin on an hour of UTC. *)
Bars == Day \div Hour
DayStart(now) == (now - (now % Hour)) - (Bars - 1) * Hour
NowSums(now) ==
    <<Asking("stale", Everything),
      Asking("sum", Filter(now - Hour, now, {"model"})), Asking("sum", Filter(Midnight(now), now, {"model"})),
      Asking("sum", Filter(DayStart(now), now, {"model", "hour"})), Asking("sum", Filter(now - Day, now, {"model"})),
      Asking("sum", Filter(now - IdleAfter, now, {})), Asking("groups", Filter(now - IdleAfter, now, {}))>>
NowAsks(now) == <<Asking("watermark", Everything)>> \o NowSums(now) \o <<Asking("last", Everything)>>

AsksOf(q) == CASE q.kind = "summary" -> SummaryAsks(q.f)
               [] q.kind = "export" -> <<Asking("pages", q.f)>>
               [] q.kind = "usage" -> UsageAsks(q.now)
               [] q.kind = "turns" -> TurnAsks(q.now, q.dim)
               [] q.kind = "now" -> NowAsks(q.now)
               [] q.kind = "overview" -> OverviewAsks(q.range, q.step, q.now)
               [] q.kind = "list" -> ListAsks(q.range, q.step, q.now, q.dim)
               [] q.kind = "activity" -> PivotAsks(q.dim, q.range, q.step, q.now, q.sort)
               [] q.kind = "nothing" -> <<>>

Start(q) == [kind |-> q.kind, now |-> q.now, asks |-> AsksOf(q), answers |-> <<>>, began |-> None,
             then |-> None, part |-> "first", got |-> None]
(* The question of a screen *)
Screen(kind, dim, range, step, now, sort) ==
    [kind |-> kind, f |-> Everything, dim |-> dim, range |-> range, step |-> step, now |-> now, sort |-> sort]

Done == Len(reader.answers) = Len(reader.asks)
Asked == reader.asks[Len(reader.answers) + 1]

(* usageHistory asks the rollup unless it was found to be behind. *)
What == IF Asked.what = "snapped" /\ reader.answers[1] THEN "sum" ELSE Asked.what

At(what, parts) == ~Done /\ What = what /\ reader.part \in parts
Answered(answer, at) ==
    reader' = [reader EXCEPT !.answers = Append(@, answer), !.began = IF @ = None THEN at ELSE @, !.then = at,
                             !.part = "first", !.got = None]
Goes(part) == reader' = [reader EXCEPT !.part = part]
----------------------------------------------------------------------------
(* Summarize: the rollup where the window begins on a quarter, the events   *)
(* where it does not or the rollup has not answered; then the sessions.     *)
Counted(buckets, from) ==
    IF Asked.f.by = {} \/ Keys(buckets) = {}
    THEN Answered([buckets |-> buckets, sessions |-> 0], ledger)
    ELSE reader' = [reader EXCEPT !.part = from, !.got = [buckets |-> buckets, at |-> ledger]]

AskRollup ==
    /\ At("sum", {"first"}) /\ Aligned(Asked.f.since)
    /\ LET a == summarizeCurrentRollup(ledger, Asked.f)
       IN IF a.current THEN Counted(a.buckets, "rollup") ELSE Goes("events")
    /\ UNCHANGED ledger

AskEvents ==
    /\ At("sum", IF Aligned(Asked.f.since) THEN {"events"} ELSE {"first"})
    /\ Counted(summarizeLedger(ledger, Asked.f), "scan")
    /\ UNCHANGED ledger

CountSessions ==
    /\ At("sum", {"rollup", "scan"})
    /\ LET n == IF reader.part = "rollup" THEN distinctRollupSessions(ledger, Asked.f)
                ELSE distinctSessions(ledger, Asked.f)
       IN Answered([buckets |-> reader.got.buckets, sessions |-> n], reader.got.at)
    /\ UNCHANGED ledger

(* UnpricedGroups; buildNow asks for them only where something is unpriced. *)
Priced == reader.kind = "now" /\ reader.answers[7].buckets[<<>>].unpriced = 0
SkipGroups == At("groups", {"first"}) /\ Priced /\ Answered({}, ledger) /\ UNCHANGED ledger

GroupsFromRollup == Aligned(Asked.f.since) /\ Aligned(Asked.f.until)
AskRollupGroups ==
    /\ At("groups", {"first"}) /\ ~Priced /\ GroupsFromRollup
    /\ LET groups == unpricedGroupsCurrentRollup(ledger, Asked.f)
       IN IF groups # {} THEN Answered(groups, ledger) ELSE Goes("status")
    /\ UNCHANGED ledger

GroupsStatus ==
    /\ At("groups", {"status"})
    /\ IF RollupCurrent(ledger) THEN Answered({}, ledger) ELSE Goes("events")
    /\ UNCHANGED ledger

AskEventGroups ==
    /\ At("groups", {"first", "events"}) /\ (reader.part = "first" => ~Priced /\ ~GroupsFromRollup)
    /\ Answered(unpricedGroupsLedger(ledger, Asked.f), ledger)
    /\ UNCHANGED ledger

(* What a reader goes on without when it cannot be read: the groups of a    *)
(* report (resolveCosts renders what is stamped), the denominator of a list *)
(* (grandOf), the period before (prevTotals).                               *)
Spared == \/ reader.kind = "summary" /\ Asked.what = "groups"
          \/ reader.kind = "list" /\ Len(reader.answers) = 1
          \/ reader.kind = "overview" /\ Len(reader.answers) = 3
GoesWithout ==
    /\ ~Done /\ reader.part = "first" /\ Spared
    /\ Answered(IF Asked.what = "groups" THEN {} ELSE None, ledger)
    /\ UNCHANGED ledger

(* RollupStale is four reads: a write between them makes it say stale. *)
AskStale ==
    /\ At("stale", {"first"})
    /\ \E stale \in {RollupStale(ledger), TRUE} : Answered(stale, ledger)
    /\ UNCHANGED ledger

AskSnapped ==
    /\ At("snapped", {"first"})
    /\ Answered([buckets |-> SummarizeRollup(ledger, Asked.f), sessions |-> 0], ledger)
    /\ UNCHANGED ledger

AskTurns ==
    /\ At("turns", {"first"})
    /\ Answered([buckets |-> SummarizeTurnContext(ledger, Asked.dim, Asked.f), sessions |-> 0], ledger)
    /\ UNCHANGED ledger

AskTopTurns ==
    /\ At("topturns", {"first"})
    /\ Answered(TopTurnContext(ledger, Asked.dim, Asked.f, Asked.order, RankLimit), ledger)
    /\ UNCHANGED ledger

AskCalls ==
    /\ At("calls", {"first"})
    /\ Answered([buckets |-> SummarizeActivity(ledger, Asked.f), sessions |-> 0], ledger)
    /\ UNCHANGED ledger

AskTopCalls ==
    /\ At("topcalls", {"first"})
    /\ Answered(TopActivity(ledger, Asked.f, Asked.order, RankLimit), ledger)
    /\ UNCHANGED ledger

(* The row under the cursor is the one whose timeline is asked for. *)
Select ==
    /\ At("selected", {"first"})
    /\ LET rows == Keys(reader.answers[1].buckets)
       IN \/ rows = {} /\ Answered(None, ledger)
          \/ \E k \in rows : reader' = [reader EXCEPT !.asks[3] = Trend(@.f, k.model)]
    /\ UNCHANGED ledger

AskWatermark == At("watermark", {"first"}) /\ Answered(MaxId(ledger), ledger) /\ UNCHANGED ledger
AskLast == At("last", {"first"}) /\ Answered(LastEventTimes(ledger), ledger) /\ UNCHANGED ledger

(* streamEventExport: a page after the last row of the page before, until a *)
(* page is not full.                                                        *)
ListPage ==
    /\ At("pages", {"first", "more"})
    /\ LET out == IF reader.part = "first" THEN [ids |-> <<>>, at |-> ledger] ELSE reader.got
           last == IF out.ids = <<>> THEN 0 ELSE out.ids[Len(out.ids)]
           cursor == [id |-> last, at |-> IF last = 0 THEN 0 ELSE ledger.rows[last].at]
           page == ListEvents(ledger, Asked.f, cursor, PageSize)
       IN IF Len(page) < PageSize
          THEN Answered(out.ids \o page, out.at)
          ELSE reader' = [reader EXCEPT !.part = "more", !.got = [out EXCEPT !.ids = @ \o page]]
    /\ UNCHANGED ledger
----------------------------------------------------------------------------
(* The collector.  It begins with EnsureRollup, so that what it records is  *)
(* counted on top of a whole rollup.  A turn has one context per dimension. *)
Call(of, name, kind, row) ==
    [of |-> of, name |-> name, kind |-> kind, at |-> row.at, model |-> row.model, session |-> row.session]
Context(of, dim, value, row) ==
    [of |-> of, dimension |-> dim, value |-> value, at |-> row.at, model |-> row.model, session |-> row.session]
Collect(b) ==
    /\ Len(ledger.rows) < MaxRows /\ ~RollupStale(ledger)
    /\ LET id == Len(ledger.rows) + 1
       IN ledger' = [rows |-> Append(ledger.rows, b.row), rolled |-> ledger.rolled \cup {id}, mark |-> id,
                     calls |-> ledger.calls \cup {Call(IF b.joined THEN id ELSE None, c[1], c[2], b.row) : c \in b.calls},
                     contexts |-> ledger.contexts \cup {Context(id, c[1], c[2], b.row) : c \in b.contexts}]
    /\ UNCHANGED reader

CollectCall(c) ==
    /\ c.of \in Ids(ledger) /\ ~RollupStale(ledger)
    /\ ledger' = [ledger EXCEPT !.calls = @ \cup {c}]
    /\ UNCHANGED reader

EnsureRollup ==
    /\ RollupStale(ledger)
    /\ ledger' = [ledger EXCEPT !.rolled = Ids(ledger), !.mark = MaxId(ledger)]
    /\ UNCHANGED reader

(* SyncUnpriced: a row of a model the tables know is priced. *)
SyncPrices ==
    /\ ~RollupStale(ledger)
    /\ \E id \in Ids(ledger) :
          LET row == ledger.rows[id]
          IN /\ row.cost = None /\ Rate[row.model] # None
             /\ ledger' = [ledger EXCEPT !.rows[id].cost = row.tokens * Rate[row.model], !.rows[id].computed = TRUE]
    /\ UNCHANGED reader

ReaderInit == ledger \in Histories /\ reader \in {Start(q) : q \in Questions}

ReaderNext ==
    \/ AskRollup \/ AskEvents \/ CountSessions
    \/ SkipGroups \/ AskRollupGroups \/ GroupsStatus \/ AskEventGroups \/ GoesWithout
    \/ AskStale \/ AskSnapped \/ AskTurns \/ AskTopTurns \/ AskCalls \/ AskTopCalls \/ Select
    \/ AskWatermark \/ AskLast \/ ListPage
    \/ \E b \in Batches : Collect(b)
    \/ \E c \in LateCalls : CollectCall(c)
    \/ EnsureRollup \/ SyncPrices

ReaderSpec == ReaderInit /\ [][ReaderNext]_readerVars
----------------------------------------------------------------------------
(* ResolveCosts: what a report shows of a bucket and the groups it has. *)

priceGroup(g) == g.tokens * Rate[g.model]

Cost(b, groups) ==
    LET priced == {g \in groups : Rate[g.model] # None}
        known == b.events > b.unpriced \/ priced # {}
    IN [micro |-> b.cost + SumFunction([g \in priced |-> priceGroup(g)]), known |-> known,
        approximate |-> b.computed > 0 \/ priced # {},
        lowerBound |-> known /\ SumFunction([g \in priced |-> g.events]) < b.unpriced]

SummaryOf(what) == CHOOSE i \in DOMAIN reader.asks : reader.asks[i].what = what
ShownTotal == LET i == SummaryOf("sum") a == reader.answers[i]
              IN Cost(Totals(a.buckets, reader.asks[i].f.by, a.sessions), reader.answers[SummaryOf("groups")])
ShownBucket(k) == Cost(reader.answers[SummaryOf("sum")].buckets[k],
                       {g \in reader.answers[SummaryOf("groups")] : g.key = k})
----------------------------------------------------------------------------
(* Properties *)

(* A ledger and a reader of it. *)
TypeOK ==
    /\ ledger.rolled \subseteq Ids(ledger) /\ ledger.mark \in 0..MaxId(ledger)
    /\ \A c \in ledger.calls \cup ledger.contexts : c.of \in Ids(ledger) \cup {None}
    /\ reader.part \in {"first", "rollup", "scan", "events", "status", "more"}
    /\ Len(reader.answers) <= Len(reader.asks)

(* Whatever a summary is answered from - the rollup, the rollup and the     *)
(* rows of the last quarter, the rows - it says what the rows of its        *)
(* window said when it was asked, and no bucket has more sessions than all  *)
(* of them (Summarize, summarizeCurrentRollup, exactEndingRollupSource).    *)
SummaryExact ==
    LET i == Len(reader.answers) f == reader.asks[i].f a == reader.answers[i]
    IN i > 0 /\ reader.asks[i].what = "sum" /\ a # None =>
            /\ a.buckets = summarizeLedger(reader.then, f)
            /\ f.by # {} => \A k \in Keys(a.buckets) : a.buckets[k].sessions <= a.sessions

(* No row is in a report's cost twice, once by the price stamped on it and  *)
(* once by what the tables say now, although a price sync may stamp it      *)
(* between the two statements the report is made of; and a sum that is not  *)
(* marked as a lower bound has the price of every row it counts, unless     *)
(* rows came in meanwhile (ResolveCosts).                                   *)
Value(l, ids) ==
    SumFunction([id \in ids |-> LET r == l.rows[id]
                                IN IF r.cost # None THEN r.cost
                                   ELSE IF Rate[r.model] # None THEN r.tokens * Rate[r.model] ELSE 0])
CostsAddUp ==
    reader.kind = "summary" /\ Done =>
        LET f == reader.asks[1].f
            l == reader.then
            in == {id \in Ids(l) : buildWhere(f, l.rows[id])}
            of(k) == {id \in in : KeyOf(f.by, EventItem(l, id)) = k}
            whole(shown, ids) ==
                /\ shown.micro <= Value(l, ids)
                /\ shown.known /\ ~shown.lowerBound /\ Len(reader.began.rows) = Len(l.rows) =>
                      /\ shown.micro = Value(l, ids)
                      /\ \A id \in ids : l.rows[id].cost # None \/ Rate[l.rows[id].model] # None
        IN /\ whole(ShownTotal, in)
           /\ \A k \in Keys(reader.answers[SummaryOf("sum")].buckets) : whole(ShownBucket(k), of(k))

(* An export has every row of its window that was there when it began, each *)
(* once, in the order of time and id, whatever comes in between two pages   *)
(* (streamEventExport, WithEventTimeKeyset).                                *)
ExportExact ==
    LET out == IF Done THEN reader.answers[1] ELSE IF reader.part = "more" THEN reader.got.ids ELSE <<>>
        f == reader.asks[1].f
    IN reader.kind = "export" =>
        /\ \A i, j \in DOMAIN out : i < j => Before(ledger, out[i], out[j])
        /\ \A i \in DOMAIN out : buildWhere(f, ledger.rows[out[i]])
        /\ Done => {id \in Ids(reader.began) : buildWhere(f, reader.began.rows[id])} \subseteq {out[i] : i \in DOMAIN out}

(* The history of a day never falls short of the ledger when it was asked   *)
(* for, also right after a migration that leaves the rollup empty, and the  *)
(* days of a series add up to at least the row it belongs to                *)
(* (usageHistory, fillSeries).                                              *)
HistoryNotBehind ==
    reader.kind = "usage" /\ Done =>
        LET rows == reader.answers[2].buckets
            daily == reader.answers[3].buckets
            least == summarizeLedger(reader.began, reader.asks[2].f)
            days == {DayOf(RangeStart(reader.now) + n * Day) : n \in 0..SpanDays}
            series(v) == SumFunction([d \in days |-> LET k == [model |-> v, day |-> d]
                                                     IN IF k \in Keys(daily) THEN daily[k].cost ELSE 0])
            rank(k) == Cardinality({o \in Keys(rows) : rows[o].cost > rows[k].cost})
        IN /\ \A k \in Keys(least) : k \in Keys(rows) /\ rows[k].tokens >= least[k].tokens /\ rows[k].cost >= least[k].cost
           /\ \A k \in Keys(rows) : rank(k) < MaxSeries => series(k.model) >= rows[k].cost

(* The turns that ran under something are never more than the turns there   *)
(* were, although the two are counted one after the other (turnHistory).    *)
CoverageWithin ==
    reader.kind = "turns" /\ Done =>
        LET turns == CHOOSE i \in 1..2 : reader.asks[i].what = "turns"
            all == CHOOSE i \in 1..2 : reader.asks[i].what = "sum"
            counted == reader.answers[turns].buckets
        IN Events(counted, Keys(counted)) <= reader.answers[all].buckets[<<>>].events

(* What an overview shows of a bucket that is pinned is at least what the   *)
(* timeline says of it, and so are its bars of the window, folded or not;   *)
(* and the two periods it compares have no row in common (loadOverviewWith, *)
(* syncScrub, prevWindow).                                                  *)
OverviewHolds ==
    reader.kind = "overview" /\ Done =>
        LET f == reader.asks[1].f
            dim == CHOOSE d \in f.by : TRUE
            timeline == reader.answers[1].buckets
            bars == reader.answers[2].buckets
            comp == reader.answers[3].buckets
            shown(fold) == Tokens(comp, fold.rows) + fold.tokens
            total == Tokens(timeline, Keys(timeline))
        IN /\ \A k \in Keys(timeline) : shown(syncScrub(timeline, comp, dim, k).bars) >= timeline[k].tokens
           /\ Tokens(bars, Keys(bars)) >= total
           /\ LET fold == foldMinorTools(bars, Keys(bars), total)
              IN Tokens(bars, fold.rows) + fold.tokens = Tokens(bars, Keys(bars))
           /\ Len(reader.asks) = 4 =>
                 \A id \in Ids(ledger) : ~(buildWhere(f, ledger.rows[id]) /\ buildWhere(reader.asks[4].f, ledger.rows[id]))

(* No row of a list, whatever of it is filtered away and although rows come *)
(* in between the rows and their total, has more than the whole; and the    *)
(* timeline of the row selected is not behind it (grandOf).                 *)
ListHolds ==
    reader.kind = "list" /\ Done =>
        LET rows == reader.answers[1].buckets
            total == IF reader.answers[2] = None THEN None ELSE reader.answers[2].buckets[<<>>].tokens
        IN /\ \A shown \in filterBuckets(rows) : \A k \in shown : rows[k].tokens <= grandOf(rows, shown, total)
           /\ total # None => grandOf(rows, Keys(rows), total) = total
           /\ Len(reader.answers) = 3 /\ reader.answers[3] # None =>
                 LET k == CHOOSE r \in Keys(rows) : r.model \in reader.asks[3].f.models
                     trend == reader.answers[3].buckets
                 IN Tokens(trend, Keys(trend)) >= rows[k].tokens

(* The page of a ranking is never more than the total under it, and that    *)
(* never more than the strip above it, in calls or turns; of turns, which   *)
(* are not divided, also in tokens (loadActivity, loadTurnContext).         *)
ActivityHolds ==
    reader.kind = "activity" /\ Done =>
        LET page == reader.answers[1]
            whole == reader.answers[2].buckets
            strip == reader.answers[3].buckets
            ranked(field) == SumFunction([i \in DOMAIN page |-> page[i].bucket[field]])
        IN /\ ranked("events") <= Events(whole, Keys(whole))
           /\ Events(whole, Keys(whole)) <= Events(strip, Keys(strip))
           /\ reader.asks[1].what = "topturns" =>
                 /\ ranked("tokens") <= Tokens(whole, Keys(whole))
                 /\ Tokens(whole, Keys(whole)) <= Tokens(strip, Keys(strip))

(* The page shows every harness that was at work within the hour, and not   *)
(* among the idle; and its bars hold all that was used in the hours they    *)
(* stand for (buildNow).                                                    *)
Barred(now) == {HourOf(DayStart(now) + n * Hour) : n \in 0..Bars - 1}
NowComplete ==
    reader.kind = "now" /\ Done =>
        LET last == reader.answers[CHOOSE i \in DOMAIN reader.asks : reader.asks[i].what = "last"]
            hour == reader.answers[3].buckets
            day == reader.answers[5].buckets
        IN /\ \A k \in Keys(hour) : k.model \in DOMAIN last /\ reader.now - last[k.model] <= IdleAfter
           /\ \A k \in Keys(day) : k.hour \in Barred(reader.now)

(* What is put together from several statements holds together, wherever    *)
(* the collector commits between them: costs, histories, coverage, the page *)
(* of the present moment and the screens of the terminal.                   *)
ReportsHoldTogether ==
    /\ CostsAddUp /\ HistoryNotBehind /\ CoverageWithin /\ NowComplete
    /\ OverviewHolds /\ ListHolds /\ ActivityHolds

(* However the calls of the ledger are divided between two queries, by name *)
(* or by time, what they are given of a turn's tokens is never more than    *)
(* the turn used, also when calls of it are recorded later; and no query of *)
(* turns, whatever it groups by, counts a turn twice, although a turn has a *)
(* context in each dimension (activityDivisorSQL, buildTurnContextWhere).   *)
Given(f) == AttributedTokens(ledger, SelectedCalls(ledger, f), SelectedCalls(ledger, f))
Everytime == ActivityFilter(None, None, {})
SharesNeverInflate ==
    LET names == {c.name : c \in ledger.calls}
        used(ids) == SumFunction([id \in ids |-> ledger.rows[id].tokens])
        turns == used({c.of : c \in ledger.calls} \ {None})
        named(ns) == IF ns = {} THEN 0 ELSE Given([Everytime EXCEPT !.names = ns])
    IN /\ \A n \in names : named({n}) + named(names \ {n}) <= turns
       /\ \A t \in {c.at : c \in ledger.calls} :
             Given([Everytime EXCEPT !.until = t]) + Given([Everytime EXCEPT !.since = t]) <= turns
       /\ \A dim \in Dimensions, by \in {{"day", "model"}, {"agent"}} :
             LET b == SummarizeTurnContext(ledger, dim, ActivityFilter(None, None, by))
             IN Tokens(b, Keys(b)) <= used(Ids(ledger)) /\ Events(b, Keys(b)) <= Len(ledger.rows)
=============================================================================
