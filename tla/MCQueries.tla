----------------------------- MODULE MCQueries -----------------------------
(***************************************************************************)
(* One reader of the ledger, or one page of the dashboard, while the       *)
(* collector writes.  An hour is four units and a day two hours; it is 13, *)
(* an unaligned time of the second day.  Two rows are of one second, one   *)
(* model has no price, and a ledger may come out of a migration with an    *)
(* empty rollup.  Nothing more is written once the reader is done.         *)
(***************************************************************************)
EXTENDS Web

CONSTANT Unlucky   \* an instance in which a property fails, or "none"

Now == IF Unlucky = "halfhour" THEN 15 ELSE 13

MCOffset == IF Unlucky = "halfhour" THEN 2 ELSE 0
MCGaps == IF Unlucky = "samesecond" THEN {0, 1} ELSE {1}
MCPrompt == Unlucky # "slow"

Row(at, model, session, tokens, cost, computed) ==
    [at |-> at, model |-> model, session |-> session, tokens |-> tokens, cost |-> cost, computed |-> computed]
Batch(row, calls, contexts, joined) == [row |-> row, calls |-> calls, contexts |-> contexts, joined |-> joined]

Unknown == Row(9, "unknown", "s1", 3, None, FALSE)
Priceable == Row(Now - 1, "known", "s1", 5, None, FALSE)
Vendor == Row(Now - 1, "known", "s2", 2, 7, FALSE)
Early == Row(6, "unknown", None, 1, 4, TRUE)

Read == <<"read", "tool">>
Plan == <<"plan", "skill">>
MCBatches == {Batch(Unknown, {Read, Plan}, {<<"skill", "v">>, <<"agent", "a">>}, TRUE),
              Batch(Priceable, {Read}, {<<"skill", "v">>}, TRUE),
              Batch(Vendor, {Plan}, {}, FALSE), Batch(Early, {}, {<<"skill", "w">>}, TRUE)}
MCLateCalls == {Call(1, "bash", "tool", Priceable)}
MCLanded == {Batch(Vendor, {}, {}, TRUE)}
MCRate == [known |-> 2, unknown |-> None]
MCSession == {"s1", "s2", None}

Ledger(rows, rolled) ==
    [rows |-> rows, rolled |-> rolled, mark |-> Cardinality(rolled), calls |-> {}, contexts |-> {}]
Migrated == {Ledger(rows, {}) : rows \in {<<Unknown, Vendor>>, <<Priceable>>, <<Early, Priceable>>}}
MCHistories == {Ledger(<<>>, {})} \cup Migrated

F(since, until, by, models) == [since |-> since, until |-> until, by |-> by, models |-> models]
MCQuestions ==
    {[kind |-> "summary", f |-> f, now |-> Now] :
        f \in {F(None, None, {"model"}, {}), F(8, 13, {"model", "day"}, {}), F(8, 12, {}, {}),
               F(9, None, {"session"}, {"known"}), F(6, 9, {"model"}, {"unknown"})}}
    \cup {[kind |-> "export", f |-> f, now |-> Now] : f \in {F(None, None, {}, {}), F(7, 13, {}, {})}}
    \cup {[kind |-> k, f |-> Everything, now |-> Now, dim |-> "skill"] : k \in {"usage", "turns", "now"}}
    \cup {Screen("overview", None, r[1], r[2], Now, None) : r \in {<<"today", 0>>, <<"today", 1>>}}
    \cup {Screen("list", d, "week", 0, Now, None) : d \in {"model", "session"}}
    \cup {Screen("activity", r[1], r[2], 0, Now, r[3]) :
            r \in {<<"calls", "today", "name">>, <<"calls", "week", "total">>, <<"skill", "week", "cost">>}}

Nobody == Start([kind |-> "nothing", f |-> Everything, now |-> Now])

vars == <<readerVars, webVars>>

(* The page of now, the overview and a list ask the most, and find one row  *)
(* less.                                                                    *)
RowsOfNow == reader.kind \in {"now", "overview", "list"} => Len(ledger'.rows) < MaxRows

Init ==
    \/ ReaderInit /\ WebInit(FALSE)
    \/ ledger \in {Ledger(<<>>, {}), Ledger(<<Vendor>>, {1})} /\ reader = Nobody /\ WebInit(TRUE)

Next ==
    \/ ~page.open /\ ~Done /\ ReaderNext /\ RowsOfNow /\ UNCHANGED webVars
    \/ WebNext

Spec == Init /\ [][Next]_vars /\ WebFairness
=============================================================================
