------------------------------- MODULE Tokens -------------------------------
(* Token counters as the adapters normalise them (adapter/helpers.go,        *)
(* adapter/internal/tokenutil).                                              *)
EXTENDS Integers

Fewest(a, b) == IF a < b THEN a ELSE b
Most(a, b) == IF a > b THEN a ELSE b
NonNeg(n) == Most(n, 0)

(* What a reported total holds beyond its known parts fills an output that   *)
(* is empty, and goes to the extra counter otherwise.                        *)
ApplyTotalFallback(input, output, cache, extra, total) ==
    LET missing == NonNeg(total - (input + output + cache + extra))
    IN IF output = 0 THEN [output |-> missing, extra |-> extra]
       ELSE [output |-> output, extra |-> extra + missing]
=============================================================================
