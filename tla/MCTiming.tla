------------------------------- MODULE MCTiming -------------------------------
(* Timing for TLC: one host's clock as far behind as may be, the other's   *)
(* as far ahead.                                                           *)
EXTENDS Timing, TLC

CONSTANTS w1, w2

Offsets == w1 :> - Skew @@ w2 :> Skew
===============================================================================
