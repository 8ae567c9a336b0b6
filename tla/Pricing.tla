------------------------------ MODULE Pricing ------------------------------
(* The pricing engine, pricing/engine.go: two price feeds, the files they are   *)
(* cached in, and the ladder of tables that each process prices with.           *)
(*                                                                              *)
(* A collector refreshes before each pass: LiteLLM first, then Models.dev.      *)
(* Every other command loads an engine, prices, and ends: Reader below is the   *)
(* engine such a command would load now.                                        *)
EXTENDS Rates

CONSTANTS
    Collector,       \* the processes that refresh
    Published,       \* the editions that each feed may serve
    Shipped,         \* the documents that the build embeds
    Configs,         \* the rates that a user may name in the configuration
    Sheets,          \* price lists to be worked through by themselves
    Charges,         \* charges to quote
    Day              \* ticks of the clock until a cache is no longer fresh

Feed == {"litellm", "modelsdev"}
Edition == 1 .. 2

VARIABLES
    named,           \* the rates of the configuration, one of Configs
    upstream,        \* what each feed serves: an edition, or nothing
    file,            \* the cache of each feed: its edition and its age, or None
    engine,          \* each collector's tables, revision and place in a refresh, or None
    sheet            \* the price list a behaviour of no process is about, or None

vars == <<named, upstream, file, engine, sheet>>

-----------------------------------------------------------------------------
(* Tables.  A table without a priceable model is an error to whoever decodes it. *)

Decoded(f, document) ==
    LET models == IF f = "litellm" THEN DecodeModels(document) ELSE DecodeModelsDev(document)
    IN  IF DOMAIN models = {} THEN None
        ELSE [source |-> <<f>>, models |-> models, scoped |-> f = "modelsdev"]

(* What each edition of a feed decodes to, and each embedded document. *)
TableOf == [f \in Feed |-> [e \in Edition |-> Decoded(f, Published[f][e])]]

Embedded ==
    [f \in Feed |-> LET t == Decoded(f, Shipped[f])
                    IN  IF t = None THEN None ELSE [t EXCEPT !.source = <<"embedded", f>>]]

Overrides ==
    LET priced == {k \in DOMAIN named : Priceable(named[k])}
    IN  IF priced = {} THEN None
        ELSE [source |-> <<"override">>, models |-> Restrict(named, priced), scoped |-> FALSE]

Rungs(loaded) ==
    SelectSeq(<<Overrides, loaded["litellm"], loaded["modelsdev"],
                Embedded["litellm"], Embedded["modelsdev"]>>, LAMBDA t : t # None)

(* The rates of each rung, without the dates and names of their sources. *)
PriceRevision(loaded) ==
    [f \in Feed |-> IF loaded[f] = None THEN None ELSE loaded[f].models]

-----------------------------------------------------------------------------
(* An engine. *)

Fresh(f) == file[f] # None /\ file[f].age < Day

(* A LiteLLM cache serves whatever its age; a Models.dev cache only while fresh. *)
Load(f) ==
    IF file[f] = None \/ (f = "modelsdev" /\ ~Fresh(f)) THEN None
    ELSE TableOf[f][file[f].edition]

New ==
    LET loaded == [f \in Feed |-> Load(f)]
    IN  [table |-> loaded, revision |-> PriceRevision(loaded),
         attempt |-> None, stage |-> "idle", fetched |-> None]

Reader == New

Start(p) ==
    /\ engine[p] = None /\ sheet = None
    /\ engine' = [engine EXCEPT ![p] = New]
    /\ UNCHANGED <<named, upstream, file, sheet>>

(* A process ends between any two steps of a refresh. *)
End(p) ==
    /\ engine[p] # None
    /\ engine' = [engine EXCEPT ![p] = None]
    /\ UNCHANGED <<named, upstream, file, sheet>>

At(p, stage) == engine[p] # None /\ engine[p].stage = stage

Refresh(p) ==
    /\ At(p, "idle")
    /\ engine' = [engine EXCEPT ![p].stage = "litellm"]
    /\ UNCHANGED <<named, upstream, file, sheet>>

(* A fetch: the table, or None for a feed that is down or serves no table. *)
Fetch(f) ==
    IF upstream[f] = None THEN None ELSE TableOf[f][upstream[f]]

(* A fault: the revision is taken before the table is replaced. *)
SwappedLate(e, f, table) ==
    [e EXCEPT !.table = [e.table EXCEPT ![f] = table], !.revision = PriceRevision(e.table)]

Swapped(e, f, table) ==
    LET loaded == [e.table EXCEPT ![f] = table]
    IN  [e EXCEPT !.table = loaded, !.revision = PriceRevision(loaded)]

(* A fault: what was fetched is kept beside a table that was loaded before. *)
RefreshLiteLLMOnce(p) ==
    /\ At(p, "litellm")
    /\ engine' = [engine EXCEPT ![p] =
          LET table == Fetch("litellm")
          IN  IF engine[p].table["litellm"] # None \/ table = None THEN [@ EXCEPT !.stage = "modelsdev"]
              ELSE [Swapped(@, "litellm", table) EXCEPT
                        !.stage = "write", !.fetched = upstream["litellm"]]]
    /\ UNCHANGED <<named, upstream, file, sheet>>

(* The last loaded table stays when the fetch fails. *)
RefreshLiteLLM(p) ==
    /\ At(p, "litellm")
    /\ engine' = [engine EXCEPT ![p] =
          LET table == Fetch("litellm")
          IN  IF Fresh("litellm") \/ table = None THEN [@ EXCEPT !.stage = "modelsdev"]
              ELSE [Swapped(@, "litellm", table) EXCEPT
                        !.stage = "write", !.fetched = upstream["litellm"]]]
    /\ UNCHANGED <<named, upstream, file, sheet>>

Tried(e) == e.attempt # None /\ e.attempt < Day

(* The attempt is stamped first; a failure leaves the embedded table to serve,  *)
(* and the cache as it was.                                                     *)
RefreshModelsDev(p) ==
    /\ At(p, "modelsdev")
    /\ engine' = [engine EXCEPT ![p] =
          LET table == Fetch("modelsdev")
          IN  IF Tried(@) \/ (@.table["modelsdev"] # None /\ Fresh("modelsdev"))
              THEN [@ EXCEPT !.stage = "idle"]
              ELSE [Swapped(@, "modelsdev", table) EXCEPT
                        !.attempt = 0,
                        !.stage = IF table = None THEN "idle" ELSE "store",
                        !.fetched = IF table = None THEN None ELSE upstream["modelsdev"]]]
    /\ UNCHANGED <<named, upstream, file, sheet>>

(* The caches are replaced by a rename; a write that fails leaves them. *)
Write(p, f, stage, next) ==
    /\ At(p, stage)
    /\ \/ file' = [file EXCEPT ![f] = [edition |-> engine[p].fetched, age |-> 0]]
       \/ UNCHANGED file
    /\ engine' = [engine EXCEPT ![p].stage = next, ![p].fetched = None]
    /\ UNCHANGED <<named, upstream, sheet>>

WriteCache(p) == Write(p, "litellm", "write", "modelsdev")
WriteModelsDev(p) == Write(p, "modelsdev", "store", "idle")

-----------------------------------------------------------------------------
(* Time and the feeds. *)

Older(age) == IF age < Day THEN age + 1 ELSE age

Tick ==
    /\ file' = [f \in Feed |-> IF file[f] = None THEN None ELSE [file[f] EXCEPT !.age = Older(@)]]
    /\ engine' = [p \in Collector |->
          IF engine[p] = None \/ engine[p].attempt = None THEN engine[p]
          ELSE [engine[p] EXCEPT !.attempt = Older(@)]]
    /\ UNCHANGED <<named, upstream, sheet>>

Publish ==
    /\ sheet = None
    /\ \E f \in Feed, e \in Edition \cup {None} : upstream' = [upstream EXCEPT ![f] = e]
    /\ UNCHANGED <<named, file, engine, sheet>>

(* A first install, or caches of some age that an earlier process left; or only *)
(* a price list, whose charges are worked out and nothing else happens.          *)
Init ==
    /\ engine = [p \in Collector |-> None]
    /\ \/ /\ sheet = None
          /\ named \in Configs
          /\ upstream \in [Feed -> Edition \cup {None}]
          /\ file \in [Feed -> {None, [edition |-> 1, age |-> 0], [edition |-> 1, age |-> Day]}]
       \/ /\ sheet \in Sheets
          /\ named = <<>>
          /\ upstream = [f \in Feed |-> None]
          /\ file = [f \in Feed |-> None]

Step(p) == Refresh(p) \/ RefreshLiteLLM(p) \/ WriteCache(p) \/ RefreshModelsDev(p) \/ WriteModelsDev(p)

Next ==
    \/ Tick
    \/ Publish
    \/ \E p \in Collector :
          \/ Start(p)
          \/ End(p)
          \/ Refresh(p)
          \/ RefreshLiteLLM(p)
          \/ WriteCache(p)
          \/ RefreshModelsDev(p)
          \/ WriteModelsDev(p)

(* A collector goes on with its passes, and the clock goes on. *)
Spec == /\ Init /\ [][Next]_vars
        /\ WF_vars(Tick)
        /\ \A p \in Collector : WF_vars(Step(p)) /\ WF_vars(Start(p))

-----------------------------------------------------------------------------
(* What the ladder promises. *)

(* The processes that price now, each by its ladder and its revision. *)
Ladders ==
    {[rungs |-> Rungs(e.table), revision |-> e.revision, loaded |-> PriceRevision(e.table)] :
        e \in {Reader} \cup {engine[p] : p \in {q \in Collector : engine[q] # None}}}

Floor ==
    LET rungs == SelectSeq(<<Embedded["litellm"], Embedded["modelsdev"]>>, LAMBDA t : t # None)
    IN  [c \in Charges |-> Price(rungs, c)]

(* Whatever a feed publishes or the user overrides, no charge that the embedded  *)
(* tables can value goes without a price, and none is recorded as costing        *)
(* nothing but by a rung that knows its model as free: a table that knows the    *)
(* model and not the tokens is passed over.                                      *)
FloorHolds ==
    \A l \in Ladders, c \in Charges :
        \E quote \in {Price(l.rungs, c)} :
            IF quote.ok
            THEN \/ quote.micro > 0
                 \/ Tokens(c) = 0
                 \/ \E i \in DOMAIN l.rungs : Lookup(l.rungs[i], c.provider, c.model).free
            ELSE ~Floor[c].ok

(* Two processes whose revisions are equal quote equal amounts, and two that     *)
(* have loaded equal rates have equal revisions: a sweep over old rows that one  *)
(* of them left off goes on in the other exactly if it would find nothing else.  *)
RevisionNamesRates ==
    \A k, l \in Ladders :
        /\ k # l /\ k.revision = l.revision =>
              \A c \in Charges :
                  \E q \in {Price(k.rungs, c)}, r \in {Price(l.rungs, c)} :
                      q.ok = r.ok /\ q.micro = r.micro
        /\ k.loaded = l.loaded => k.revision = l.revision

First(rates) == LET known == SelectSeq(rates, LAMBDA r : r > 0)
                IN  IF known = <<>> THEN 0 ELSE Head(known)

(* What a charge costs if each bucket takes the first rate that is named for it: *)
(* by the user, then by the card that the prompt of the one request selects,     *)
(* then by the table's own.                                                      *)
NamedRate(o, d, c) ==
    LET long == d.long.threshold > 0 /\ ~c.aggregate /\ ContextTokens(c) > d.long.threshold
        card(b) == IF long THEN d.long.rate[b] ELSE 0
        side(b) == IF c.batch THEN <<o.batch[b], d.batch[b]>> ELSE <<>>
        main(b) == First(side(b) \o <<o.rate[b], card(b), d.rate[b]>>)
        cache(b) == First(<<o.rate[b], card(b), d.rate[b], main("Input")>>)
        hour == First(<<o.rate["CacheWrite1h"],
                        IF long THEN card("CacheWrite1h") ELSE d.rate["CacheWrite1h"],
                        cache("CacheWrite5m")>>)
    IN  [Input |-> main("Input"), Output |-> main("Output"), CacheRead |-> cache("CacheRead"),
         CacheWrite5m |-> cache("CacheWrite5m"), CacheWrite1h |-> hour]

TwoRungs(o, d, c) ==
    (IF o = NoRates THEN <<>>
     ELSE <<[source |-> <<"override">>, models |-> (c.model :> o), scoped |-> FALSE]>>)
    \o <<[source |-> <<"litellm">>, models |-> (c.model :> d), scoped |-> FALSE]>>

BilledAs(o, d, c) ==
    LET quote == Price(TwoRungs(o, d, c), c)
        rate == NamedRate(o, d, c)
    IN  quote.ok =>
           quote.micro = MicroUSD(Total([b \in Bucket |-> c.tokens[b] * rate[b]])
                                  + (IF c.additive THEN c.reasoning * rate["Output"] ELSE 0))

(* Where the code does otherwise: an override of neither input nor output is     *)
(* dropped, and the hour's write of a long request is not billed at a named rate. *)
NotBilledAsNamed(o, d, c) ==
    \/ o # NoRates /\ ~Priceable(o)
    \/ o.rate["CacheWrite1h"] > 0 /\ c.tokens["CacheWrite1h"] > 0 /\ LongApplies(d, c)

(* A partial override replaces the rates it names, on both cards of the model it *)
(* displaces, and no other; a card is chosen for a whole request and never for a *)
(* sum of several.  Two cases are excepted, where the code does otherwise.       *)
NamedRatesBill ==
    \/ sheet = None
    \/ sheet.kind # "rates"
    \/ \A c \in Charges :
          \/ NotBilledAsNamed(sheet.named, sheet.table, c)
          \/ BilledAs(sheet.named, sheet.table, c)

PriceOf == [Input |-> "input", Output |-> "output", CacheRead |-> "cache_read",
            CacheWrite5m |-> "cache_write", CacheWrite1h |-> "cache_write"]

(* The price a document states for a bucket; a cache price nobody states is the  *)
(* input's.                                                                      *)
Stated(raw, b, long) ==
    LET of(k) == IF long /\ k \in DOMAIN TierOf(raw).prices THEN <<TierOf(raw).prices[k]>>
                 ELSE IF k \in DOMAIN raw.prices THEN <<raw.prices[k]>> ELSE <<>>
    IN  Head(of(PriceOf[b]) \o of("input"))

(* A cache stated free in a model with a free input, whose tier has a paid one   *)
(* and says nothing of the cache.                                                *)
FreeCacheInherited(raw, b) ==
    /\ PriceOf[b] \in {"cache_read", "cache_write"} \cap DOMAIN raw.prices
    /\ raw.prices[PriceOf[b]] = 0
    /\ PriceOf[b] \notin DOMAIN TierOf(raw).prices

Offers(costs) == "p" :> [id |-> "p", models |-> [n \in DOMAIN costs |-> [id |-> n, cost |-> costs[n]]]]
Broken == [prices |-> ("input" :> -1), tiers |-> None, legacy |-> None]
Prompt(tokens) == [tokens |-> [Unpublished EXCEPT !["Input"] = tokens], batch |-> FALSE, aggregate |-> FALSE]

(* A cost that Models.dev publishes is either refused or charged, through the    *)
(* cache file and back, bucket by bucket at the price that is stated, on both    *)
(* sides of its own boundary: nothing that is paid for becomes free on the way,  *)
(* and a bad neighbour costs a good model nothing.                               *)
StatedPricesCharged ==
    \/ sheet = None
    \/ sheet.kind # "cost"
    \/ \E alone \in {DecodeModelsDev(Offers(<<"m">> :> sheet.cost))},
          beside \in {DecodeModelsDev(Offers(<<"m">> :> sheet.cost @@ <<"b">> :> Broken))} :
          /\ beside = alone
          /\ \A r \in Range(alone), b \in Bucket :
                LET at == r.long.threshold
                IN  /\ Billed(r, Prompt(at))[b] = Stated(sheet.cost, b, FALSE)
                    /\ \/ TierOf(sheet.cost) = None
                       \/ FreeCacheInherited(sheet.cost, b)
                       \/ Billed(r, Prompt(at + 1))[b] = Stated(sheet.cost, b, TRUE)

(* What the embedded tables, an override or a feed state is what a request is    *)
(* charged, bucket by bucket and on both sides of a long context's boundary.     *)
StatedIsBilled == FloorHolds /\ NamedRatesBill /\ StatedPricesCharged

Follows(p, f, e) ==
    engine[p] # None /\ engine[p].table[f] = TableOf[f][e]

Serves(p, f, e) ==
    engine[p] # None /\ upstream[f] = e /\ TableOf[f][e] # None

(* A collector that goes on comes to price by what a feed goes on to serve,      *)
(* whatever its caches held, whichever write of them failed, and whatever        *)
(* becomes of the other feed.                                                    *)
FollowsFeed ==
    \A p \in Collector, f \in Feed, e \in Edition :
        <>[]Serves(p, f, e) => <>[]Follows(p, f, e)
=============================================================================
