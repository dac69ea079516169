---------------------------- MODULE MCWithdrawals ----------------------------
(* Two requests of one account whose balance covers both, but not a third. *)
EXTENDS Withdrawals, TLC
CONSTANTS alice, r1, r2, r3, w1, w2, w3

MCOwner   == [r \in Requests |-> alice]
MCAmount  == [r \in Requests |-> IF r = r1 THEN 2 ELSE 1]
MCOpening == [a \in Accounts |-> 2]

Symmetry == Permutations(Workers)
=============================================================================
