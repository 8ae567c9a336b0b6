------------------------------- MODULE Rates -------------------------------
(* What a charge costs: pricing/pricing.go, and the two decoders that turn     *)
(* published price documents into rates, litellm.go and modelsdev.go.          *)
(*                                                                             *)
(* A rate is a number of units per token, Unit of them to a micro-USD; 0 is    *)
(* "not published".  A model's name and a table's key are sequences of the     *)
(* segments between slashes.                                                   *)
EXTENDS Integers, Sequences, FiniteSetsExt, SequencesExt, Functions

CONSTANTS
    Unit,            \* units of a rate to a micro-USD
    MaxMicro,        \* the largest amount a row can hold
    None,
    Lower(_),        \* a name in lower case
    ConfirmedFree    \* the models of the one provider whose zero prices are meant

Bucket == {"Input", "Output", "CacheRead", "CacheWrite5m", "CacheWrite1h"}
Batched == {"Input", "Output"}

Unpublished == [b \in Bucket |-> 0]
NoBatch == [b \in Batched |-> 0]
NoCard == [threshold |-> 0, rate |-> Unpublished]
NoRates == [free |-> FALSE, rate |-> Unpublished, batch |-> NoBatch, long |-> NoCard]

(* An ordinary entry without an input or an output price stays unknown. *)
Priceable(r) == r.free \/ r.rate["Input"] > 0 \/ r.rate["Output"] > 0

Over(mine, base) == [b \in DOMAIN mine |-> IF mine[b] = 0 THEN base[b] ELSE mine[b]]

(* A fault: the inherited long card keeps the rates the override named. *)
FillWholeCard(r, base) ==
    [r EXCEPT !.rate = Over(@, base.rate),
              !.batch = Over(@, base.batch),
              !.long = IF @.threshold # 0 THEN @ ELSE base.long]

(* A partial override completed from the rung it displaces.  The long card is   *)
(* inherited whole, without the rates the override named.                       *)
Fill(r, base) ==
    [r EXCEPT !.rate = Over(@, base.rate),
              !.batch = Over(@, base.batch),
              !.long = IF @.threshold # 0 THEN @
                       ELSE [base.long EXCEPT !.rate =
                                [b \in Bucket |-> IF r.rate[b] # 0 THEN 0 ELSE @[b]]]]

Total(of) == of["Input"] + of["Output"] + of["CacheRead"] + of["CacheWrite5m"] + of["CacheWrite1h"]

Tokens(c) == Total(c.tokens) + c.reasoning

(* The prompt: every bucket of the input, cached or not. *)
ContextTokens(c) == Total(c.tokens) - c.tokens["Output"]

LongApplies(r, c) ==
    /\ r.long.threshold > 0
    /\ ~c.aggregate
    /\ ContextTokens(c) > r.long.threshold

(* Rounded half up, and never more than a row can hold. *)
MicroUSD(units) == Min({(2 * units + Unit) \div (2 * Unit), MaxMicro})

Or(rate, fallback) == IF rate = 0 THEN fallback ELSE rate

(* The card is chosen for the whole request; a batch rate then replaces its     *)
(* input and output, and a cache bucket without a rate takes the input's.  An   *)
(* hour's write takes the five minutes' of the same card.                       *)
Billed(r, c) ==
    LET long == LongApplies(r, c)
        card == IF long THEN Over(r.long.rate, r.rate) ELSE r.rate
        hour == IF long THEN r.long.rate["CacheWrite1h"] ELSE r.rate["CacheWrite1h"]
        of(b) == IF c.batch THEN Or(r.batch[b], card[b]) ELSE card[b]
        write == Or(card["CacheWrite5m"], of("Input"))
    IN  [Input |-> of("Input"), Output |-> of("Output"),
         CacheRead |-> Or(card["CacheRead"], of("Input")),
         CacheWrite5m |-> write, CacheWrite1h |-> Or(hour, write)]

Cost(r, c) ==
    IF r.free THEN 0
    ELSE LET rate == Billed(r, c)
         IN  MicroUSD(Total([b \in Bucket |-> c.tokens[b] * rate[b]])
                      + (IF c.additive THEN c.reasoning * rate["Output"] ELSE 0))

(* The charge of a stored event; a split of the cache writes that does not add   *)
(* up is discarded for the cheaper of the two.                                   *)
ChargeFor(e) ==
    LET split == e.ttl5m >= 0 /\ e.ttl1h >= 0 /\ e.ttl5m + e.ttl1h = e.cacheCreation
    IN  [model |-> e.model, provider |-> e.provider, batch |-> e.batch,
         tokens |-> [Input |-> e.input, Output |-> e.output, CacheRead |-> e.cacheRead,
                     CacheWrite5m |-> IF split THEN e.ttl5m ELSE e.cacheCreation,
                     CacheWrite1h |-> IF split THEN e.ttl1h ELSE 0],
         reasoning |-> e.reasoning, additive |-> e.additive, aggregate |-> FALSE]

-----------------------------------------------------------------------------
(* Looking a model up in a table, and pricing down the ladder. *)

ProviderPrefixes(provider) ==
    CASE provider = "google" -> <<"gemini", "vertex_ai">>
      [] provider = "github" -> <<"github_copilot">>
      [] provider = "" -> <<>>
      [] OTHER -> <<provider>>

(* The keys to try, the most specific first. *)
LookupKeys(provider, name) ==
    IF name = <<>> THEN <<>>
    ELSE [i \in DOMAIN ProviderPrefixes(provider) |-> <<ProviderPrefixes(provider)[i]>> \o name]
         \o <<name, Lower(name)>>
         \o (IF Len(name) > 1 THEN <<Tail(name)>> ELSE <<>>)

(* A table of providers knows a model under its own provider and no other. *)
ScopedKeys(provider, name) ==
    LET scope == IF provider = "github" THEN "github-copilot" ELSE provider
        bare == IF Len(name) > 1 /\ Head(name) = scope THEN Tail(name) ELSE name
    IN  IF provider = "" THEN <<>> ELSE << <<scope>> \o bare >>

Lookup(t, provider, name) ==
    LET keys == IF t.scoped THEN ScopedKeys(provider, name) ELSE LookupKeys(provider, name)
        known == SelectSeq(keys, LAMBDA k : k \in DOMAIN t.models /\ Priceable(t.models[k]))
    IN  IF known = <<>> THEN NoRates ELSE t.models[Head(known)]

NoTable == [source |-> <<>>, models |-> <<>>, scoped |-> FALSE]
Knows(t, c) == Lookup(t, c.provider, c.model) # NoRates

(* The override's rates with those of the rung it displaced, and the source     *)
(* that names both if the lower one moved this price.                           *)
MergeOverride(r, source, lower, c) ==
    LET below == Head(Append(SelectSeq(lower, LAMBDA t : Knows(t, c)), NoTable))
        merged == Fill(r, Lookup(below, c.provider, c.model))
    IN  IF Cost(merged, c) = Cost(r, c)
        THEN [rates |-> r, source |-> source]
        ELSE [rates |-> merged, source |-> source \o below.source]

NoQuote == [ok |-> FALSE, micro |-> 0, source |-> <<>>]

(* The answer of the i-th rung: none if it does not know the model, and none if  *)
(* it publishes nothing of what the charge is made of.                           *)
Answer(rungs, i, c) ==
    LET t == rungs[i]
        r == Lookup(t, c.provider, c.model)
        of == IF t.source = <<"override">>
              THEN MergeOverride(r, t.source, SubSeq(rungs, i + 1, Len(rungs)), c)
              ELSE [rates |-> r, source |-> t.source]
        micro == Cost(of.rates, c)
    IN  IF ~Knows(t, c) THEN NoQuote
        ELSE IF of.rates.free
        THEN [ok |-> TRUE, micro |-> 0, source |-> Append(of.source, "free")]
        ELSE IF micro = 0 /\ Tokens(c) > 0 THEN NoQuote
        ELSE [ok |-> TRUE, micro |-> micro,
              source |-> of.source \o
                         (IF LongApplies(of.rates, c) THEN <<"long-context">> ELSE <<>>)]

(* The first rung with an answer. *)
Price(rungs, c) ==
    Head(Append(SelectSeq([i \in DOMAIN rungs |-> Answer(rungs, i, c)], LAMBDA q : q.ok), NoQuote))

-----------------------------------------------------------------------------
(* LiteLLM's document: a model's entry is [ok, rate, batch, tiers], where a     *)
(* tier names in its own key a bucket, a boundary and perhaps a service.        *)

(* One card per model: what is published at the lowest boundary. *)
LongContextCard(tiers) ==
    LET read == {t \in tiers : t.service = "" /\ t.at > 0 /\ t.rate > 0}
        lowest == Min({t.at : t \in read})
        at(b) == {t \in read : t.at = lowest /\ t.bucket = b}
    IN  IF read = {} THEN NoCard
        ELSE [threshold |-> lowest,
              rate |-> [b \in Bucket |-> IF at(b) = {} THEN 0 ELSE (CHOOSE t \in at(b) : TRUE).rate]]

(* Entries that do not decode, or have no price, are skipped one by one. *)
DecodeModels(raw) ==
    LET rates(name) == [free |-> FALSE, rate |-> raw[name].rate, batch |-> raw[name].batch,
                        long |-> LongContextCard(raw[name].tiers)]
        kept == {name \in DOMAIN raw : raw[name].ok /\ Priceable(rates(name))}
    IN  [name \in kept |-> rates(name)]

-----------------------------------------------------------------------------
(* Models.dev's document: [id, models] for each provider, and for each model an  *)
(* id and its cost: prices by key, where a negative one stands for anything that *)
(* is not a price, perhaps a list of tiers, and perhaps the older single tier.   *)
(* The conversion from dollars per million tokens is left out.                   *)

PriceKey == {"input", "output", "cache_read", "cache_write", "reasoning", "input_audio", "output_audio"}
Of(p, k) == IF k \in DOMAIN p THEN p[k] ELSE 0

(* What cannot be said with Rates is not taken: a reasoning price of its own, a  *)
(* cache that is free beside a paid input, a free offer that charges for audio.  *)
CardFrom(p) ==
    /\ DOMAIN p \subseteq PriceKey
    /\ \A k \in DOMAIN p : p[k] >= 0
    /\ {"input", "output"} \subseteq DOMAIN p
    /\ "reasoning" \in DOMAIN p => p["reasoning"] = p["output"]
    /\ \A k \in {"cache_read", "cache_write"} \cap DOMAIN p : p[k] = 0 => p["input"] = 0
    /\ p["input"] = 0 /\ p["output"] = 0 => \A k \in DOMAIN p : p[k] = 0

LegacyThreshold == 200

(* The tier of a cost, if it has one.  The explicit list outranks the older key. *)
TierOf(raw) ==
    IF raw.tiers # None
    THEN IF raw.tiers = <<>> THEN None ELSE Head(raw.tiers)
    ELSE IF raw.legacy # None
         THEN [type |-> "context", size |-> LegacyThreshold, prices |-> raw.legacy]
         ELSE None

(* A tier may not take a price back to zero: zero there stands for the base's. *)
TierFits(base, tier) ==
    /\ tier.type = "context" /\ tier.size > 0
    /\ CardFrom(tier.prices)
    /\ \A k \in {"input", "output"} : tier.prices[k] = 0 => base[k] = 0
    /\ \A k \in {"cache_read", "cache_write"} \cap DOMAIN tier.prices :
          tier.prices[k] = 0 => Of(base, k) = 0 /\ base["input"] = 0

CostFrom(raw) ==
    /\ CardFrom(raw.prices)
    /\ raw.tiers # None => Len(raw.tiers) <= 1 /\ (raw.tiers = <<>> => raw.legacy = None)
    /\ TierOf(raw) # None => TierFits(raw.prices, TierOf(raw))

(* A cost as the cache file keeps it: the four prices, no cache price that is    *)
(* zero, and the tier under its explicit name.                                   *)
Kept(p) ==
    LET keys == {"input", "output"} \cup {k \in {"cache_read", "cache_write"} : Of(p, k) > 0}
    IN  [k \in keys |-> p[k]]

Normalised(raw) ==
    [prices |-> Kept(raw.prices),
     tiers |-> IF TierOf(raw) = None THEN None
               ELSE << [TierOf(raw) EXCEPT !.prices = Kept(@)] >>,
     legacy |-> None]

CardRate(p) ==
    [Input |-> p["input"], Output |-> p["output"], CacheRead |-> Of(p, "cache_read"),
     CacheWrite5m |-> Of(p, "cache_write"), CacheWrite1h |-> 0]

(* Zero is often a placeholder: only confirmed offers of one provider are free. *)
CostRates(provider, name, raw) ==
    LET tier == TierOf(raw)
    IN  [free |-> /\ provider = "opencode" /\ name \in ConfirmedFree
                  /\ tier = None /\ CardRate(raw.prices) = Unpublished,
         rate |-> CardRate(raw.prices), batch |-> NoBatch,
         long |-> IF tier = None THEN NoCard
                  ELSE [threshold |-> tier.size, rate |-> CardRate(tier.prices)]]

Readable(providers, p, n) ==
    LET model == providers[p].models[n]
    IN  /\ p # "" /\ providers[p].id \in {"", p}
        /\ model.id \in {<<>>, n}
        /\ CostFrom(model.cost)
        /\ Priceable(CostRates(p, n, model.cost))

(* A bad model costs its neighbours nothing. *)
FilterModelsDev(providers) ==
    LET kept(p) == {n \in DOMAIN providers[p].models : Readable(providers, p, n)}
    IN  [p \in {q \in DOMAIN providers : kept(q) # {}} |->
            [id |-> "",
             models |-> [n \in kept(p) |->
                            [id |-> <<>>, cost |-> Normalised(providers[p].models[n].cost)]]]]

(* A document is read a second time, from the form that the cache keeps. *)
DecodeModelsDev(providers) ==
    LET cached == FilterModelsDev(providers)
        keys == UNION {{<<p>> \o n : n \in {m \in DOMAIN cached[p].models : Readable(cached, p, m)}} :
                       p \in DOMAIN cached}
    IN  [k \in keys |-> CostRates(k[1], Tail(k), cached[k[1]].models[Tail(k)].cost)]
=============================================================================
