----------------------------- MODULE TrendDecay -----------------------------
(***************************************************************************)
(* Time decay of a trend's log-odds toward its baseline.  The code         *)
(* multiplies the deviation by 0.5^(days / half_life); here the factor     *)
(* after n units of time is the fraction Left[n] / Scale, and the division *)
(* rounds, as the fixed-point column the result is stored in does.         *)
(***************************************************************************)
EXTENDS Integers

CONSTANTS
    Baseline,   \* trends.baseline_log_odds, in integer units
    MaxTime,    \* bound: the last instant of the clock
    Scale,      \* the denominator of the decay factors
    Left        \* Left[n]: the numerator of the factor after n units of time

Times == 0..MaxTime

ASSUME DecayType ==
    /\ Baseline \in Int
    /\ MaxTime \in Nat
    /\ Scale \in Nat \ {0}
    /\ Left \in [Times -> 0..Scale]

(* No decay when no time has passed, or when the clock reads backwards. *)
Decayed(lo, from, to) ==
    IF to <= from
    THEN lo
    ELSE Baseline + ((lo - Baseline) * Left[to - from]) \div Scale
=============================================================================
