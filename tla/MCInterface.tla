---------------------------- MODULE MCInterface ----------------------------
(* The terminal interface with two rows, two spans and two groupings: three  *)
(* loads of which one may overtake another, or two loads with a write of the *)
(* ledger between any of their steps and two inspectors.                     *)
EXTENDS Interface

Hold(start, writings, loads, inspects) ==
  [start |-> start, writes |-> writings, loads |-> loads, details |-> 1, inspects |-> inspects, history |-> 1]

MCBounds == {Hold("workspace", 1, 2, 0), Hold("workspace", 2, 1, 2), Hold("pane", 2, 1, 2)}
============================================================================
