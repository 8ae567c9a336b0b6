----------------------------- MODULE MCPricing -----------------------------
(* A small instance of Pricing for TLC. *)
EXTENDS Pricing

CONSTANTS p1

MCLower(name) == IF name = <<"M">> THEN <<"m">> ELSE name
MCFree == {<<"gift">>}

Rate(in, out, read) == [Unpublished EXCEPT !["Input"] = in, !["Output"] = out, !["CacheRead"] = read]
Entry(rate, tiers) == [ok |-> TRUE, rate |-> rate, batch |-> NoBatch, tiers |-> tiers]
Tier(b, at, rate) == [bucket |-> b, at |-> at, rate |-> rate, service |-> ""]
Cost3(in, out, read) == [prices |-> [input |-> in, output |-> out, cache_read |-> read],
                         tiers |-> None, legacy |-> None]
Offer(cost) == [id |-> <<>>, cost |-> cost]

(* Two editions of each feed: of LiteLLM's the second publishes an output only   *)
(* and a card at two boundaries, of Models.dev's the second is not a table.      *)
MCPublished ==
    [litellm |->
        << (<<"m">> :> Entry(Rate(6, 12, 3), {})) @@ (<<"google", "v">> :> Entry(Rate(9, 9, 0), {})),
           (<<"m">> :> Entry(Rate(0, 15, 0), {Tier("Output", 4, 30), Tier("Input", 2, 24)}))
           @@ (<<"new">> :> Entry(Rate(6, 6, 0), {}))
           @@ (<<"odd">> :> Entry(Unpublished, {})) >>,
     modelsdev |->
        << ("opencode" :> [id |-> "", models |-> (<<"gift">> :> Offer(Cost3(0, 0, 0)))
                                               @@ (<<"m">> :> Offer(Cost3(18, 6, 0)))])
           @@ ("vendor" :> [id |-> "vendor", models |-> (<<"m">> :> Offer(Cost3(18, 18, 6)))]),
           ("vendor" :> [id |-> "other", models |-> (<<"m">> :> Offer(Cost3(6, 6, 6)))]) >>]

MCShipped ==
    [litellm |-> (<<"m">> :> Entry(Rate(3, 6, 0), {Tier("Input", 2, 6)})),
     modelsdev |-> ("vendor" :> [id |-> "", models |-> (<<"e">> :> Offer(Cost3(6, 6, 3)))])]

OutputOnly == [NoRates EXCEPT !.rate = Rate(0, 9, 0)]

MCConfigs == {<<>>, (<<"m">> :> OutputOnly)}

Ask(model, provider, in, out, read) ==
    [model |-> model, provider |-> provider, batch |-> FALSE,
     tokens |-> Rate(in, out, read), reasoning |-> 0, additive |-> FALSE, aggregate |-> FALSE]

(* A stored event, with a split of its cache writes or with none that adds up. *)
Writes(written, five, hour) ==
    ChargeFor([model |-> <<"m">>, provider |-> "", batch |-> FALSE, input |-> 1, output |-> 0,
               cacheRead |-> 0, cacheCreation |-> written, ttl5m |-> five, ttl1h |-> hour,
               reasoning |-> 0, additive |-> FALSE])

(* Requests on both sides of a boundary of 2, a sum of several, a batch, one that *)
(* reasons beside its output, and models only one rung knows.                     *)
MCCharges ==
    {Ask(<<"M">>, "", 1, 0, 1), Ask(<<"m">>, "vendor", 1, 1, 0), Ask(<<"m">>, "", 3, 1, 0),
     [Ask(<<"m">>, "", 3, 0, 1) EXCEPT !.aggregate = TRUE],
     [Ask(<<"m">>, "vendor", 2, 1, 1) EXCEPT !.batch = TRUE],
     [Ask(<<"m">>, "openai", 0, 0, 3) EXCEPT !.reasoning = 2, !.additive = TRUE],
     Ask(<<"vendor", "m">>, "", 0, 0, 1), Ask(<<"gift">>, "opencode", 1, 1, 0),
     Ask(<<"vendor", "e">>, "vendor", 1, 0, 0), Ask(<<"new">>, "", 1, 0, 0),
     Writes(1, 0, 0), Writes(2, 1, 1), Writes(3, 2, 1)}

CardsOf(a, b, c, d, e) ==
    {[Input |-> in, Output |-> out, CacheRead |-> read, CacheWrite5m |-> five, CacheWrite1h |-> hour] :
        in \in {0, a}, out \in {0, b}, read \in {0, c}, five \in {0, d}, hour \in {0, e}}

SomeNamed ==
    {[NoRates EXCEPT !.rate = r, !.batch["Input"] = side] :
        r \in {q \in CardsOf(3, 6, 9, 12, 15) : q["Output"] = 0}, side \in {0, 18}}

SomeTables ==
    {[NoRates EXCEPT !.rate = [r EXCEPT !["Output"] = 21], !.batch["Input"] = 24,
                     !.long = [threshold |-> 2, rate |-> l]] :
        r \in {q \in CardsOf(27, 0, 30, 33, 36) : q["Input"] > 0},
        l \in {q \in CardsOf(39, 42, 45, 48, 51) : q["Output"] = 42}}

Prices(keys, some) == UNION {[k -> some] : k \in SUBSET keys}
Four == {"input", "output", "cache_read", "cache_write"}

SomeCosts ==
    {[prices |-> p, tiers |-> None, legacy |-> None] : p \in Prices(PriceKey \ {"output_audio"}, {0, 1})}
    \cup {[prices |-> p, tiers |-> <<[type |-> "context", size |-> 3, prices |-> q]>>, legacy |-> None] :
             p \in {q \in Prices(Four, {0, 1}) : CardFrom(q)}, q \in Prices(Four, {0, 2})}
    \cup {[prices |-> [input |-> 1, output |-> 1], tiers |-> t, legacy |-> [input |-> 2, output |-> 2]] :
             t \in {None, <<>>, <<[type |-> "context", size |-> 3, prices |-> [input |-> 3, output |-> 3]]>>}}

MCSheets ==
    {[kind |-> "rates", named |-> o, table |-> d] : o \in SomeNamed, d \in SomeTables}
    \cup {[kind |-> "cost", cost |-> raw] : raw \in SomeCosts}
=============================================================================
