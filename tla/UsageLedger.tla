---------------------------- MODULE UsageLedger ----------------------------
(***************************************************************************)
(* What the store promises its readers, with every mechanism left out      *)
(* (store/store.go, "HISTORY IS APPENDED, NEVER EDITED"): a history of     *)
(* usage rows that only ever grows, in which no dedup key appears twice,   *)
(* and in which the one thing that may change about a stored row is its    *)
(* price, once, from unknown to known.  Store.tla implements this module.  *)
(***************************************************************************)
EXTENDS Naturals

CONSTANTS Key,      \* dedup keys
          Content,  \* what a row says of the usage: everything but its price
          Price,    \* known prices
          NoPrice   \* SQL NULL: not priced yet

VARIABLE history    \* the rows so far: row id -> [key, content, price]

Row == [key : Key, content : Content, price : Price \cup {NoPrice}]

(* The database that is opened may already hold a history. *)
Init ==
    /\ \A id \in DOMAIN history : history[id] \in Row
    /\ \A id, other \in DOMAIN history :
          id # other => history[id].key # history[other].key

(* New rows arrive under new ids and new keys; the old ones stay as they are. *)
Append ==
    /\ DOMAIN history \subseteq DOMAIN history'
    /\ \A id \in DOMAIN history : history'[id] = history[id]
    /\ \A new \in DOMAIN history' \ DOMAIN history :
          /\ history'[new] \in Row
          /\ \A id \in DOMAIN history' \ {new} : history'[id].key # history'[new].key

(* A price is filled in where there was none, and nothing else changes. *)
FillPrices ==
    /\ DOMAIN history' = DOMAIN history
    /\ \A id \in DOMAIN history :
          \/ history'[id] = history[id]
          \/ /\ history[id].price = NoPrice
             /\ history'[id].price \in Price
             /\ history'[id] = [history[id] EXCEPT !.price = history'[id].price]

Next == Append \/ FillPrices

Spec == Init /\ [][Next]_history
=============================================================================
