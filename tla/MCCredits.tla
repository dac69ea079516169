----------------------------- MODULE MCCredits ------------------------------
(* Instances of Credits for TLC: the first message used two models and was    *)
(* estimated too high, the second was estimated too low.                      *)
EXTENDS Credits

CONSTANTS First, Quota, Permanent, FirstEstimate, SecondEstimate

MCCharges == [m \in Messages |-> IF m = First THEN <<1, 2>> ELSE <<3>>]
MCEstimate == [m \in Messages |-> IF m = First THEN FirstEstimate ELSE SecondEstimate]
MCOpening == [p \in Pools |-> IF p = "quota" THEN Quota ELSE Permanent]
=============================================================================
