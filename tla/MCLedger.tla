------------------------------ MODULE MCLedger ------------------------------
(* Small instances of Ledger for TLC. *)
EXTENDS Ledger, TLC

CONSTANTS k1, k2, k3, k4, g1, g2, r1, r2, a1, a2, a3, skill, c1, s1, cell

Unknown(k, g, n) == [key |-> k, group |-> g, tokens |-> n, price |-> NoPrice]
Vendor(k, g, n)  == [Unknown(k, g, n) EXCEPT !.price = [micro |-> 5, class |-> "vendor"]]

Good(e) == [event |-> e, ok |-> TRUE]
Poison(e) == [event |-> e, ok |-> FALSE]

(* r1 prices g1; for g2 it only has a zero that is not marked free.  r2 knows *)
(* g2 to be free, and for g1 a figure that is not computed.                   *)
Tables == (r1 :> (g1 :> [micro |-> 3, class |-> "computed", free |-> FALSE]
               @@ g2 :> [micro |-> 0, class |-> "computed", free |-> FALSE]))
       @@ (r2 :> (g1 :> [micro |-> 3, class |-> "vendor", free |-> FALSE]
               @@ g2 :> [micro |-> 0, class |-> "computed", free |-> TRUE]))

MCPriceEvent == [rev \in Revision |-> Tables[rev]]

MCHistories == {<<>>, <<Unknown(k1, g1, 2)>>, <<Vendor(k1, g1, 2), Unknown(k3, g2, 1)>>}

Nothing == [events |-> <<>>, activity |-> <<>>, contexts |-> <<>>, changes |-> <<>>,
            cp |-> None]

Call(a, k) == [key |-> a, usage |-> k, ok |-> TRUE]
Under(k, v) == [usage |-> k, dimension |-> skill, value |-> v, ok |-> TRUE]
Change(at, n, ok) == [id |-> c1, at |-> at, lines |-> n, ok |-> ok]
At(n) == [source |-> s1, at |-> n]

(* A first read; a re-read that overlaps it, with a poison row, a repeated    *)
(* key and a newer change; a batch an invalid change rolls back; one of       *)
(* changes that arrive late.                                                  *)
MCBatches == {
    [Nothing EXCEPT !.events = <<Good(Unknown(k1, g1, 2)), Good(Unknown(k2, g2, 1))>>,
                    !.activity = <<Call(a1, k1), Call(a2, k1)>>,
                    !.contexts = <<Under(k1, 1)>>, !.cp = At(1)],
    [Nothing EXCEPT !.events = <<Good(Unknown(k2, g2, 1)), Poison(Unknown(k4, g1, 1)),
                                 Good(Vendor(k3, g1, 1)), Good(Unknown(k3, g1, 1))>>,
                    !.activity = <<Call(a2, k1), Call(a3, k2), Call(a3, k1)>>,
                    !.contexts = <<Under(k1, 2), Under(k2, 1)>>,
                    !.changes = <<Change(2, 1, TRUE)>>, !.cp = At(2)],
    [Nothing EXCEPT !.events = <<Good(Unknown(k4, g1, 1))>>,
                    !.changes = <<Change(3, 1, TRUE), Change(3, 0, FALSE)>>, !.cp = At(3)],
    [Nothing EXCEPT !.changes = <<Change(2, 2, TRUE), Change(1, 1, TRUE)>>]}

MCSnapshotWrites ==
    {[events |-> <<Good(Unknown(k4, g1, 1))>>, cell |-> cell, counter |-> 1, cp |-> None],
     [events |-> <<Good(Unknown(k4, g1, 2))>>, cell |-> cell, counter |-> 2, cp |-> At(4)],
     [events |-> <<>>, cell |-> cell, counter |-> 0, cp |-> At(5)]}
=============================================================================
