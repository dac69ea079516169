------------------------------ MODULE MCOrders ------------------------------
(* Instances of Orders: who buys what is a function of the order's name,   *)
(* so that one module serves all runs.  ann is invited by bob.             *)
EXTENDS Orders, TLC

MCType == [p \in Plans |->
  CASE p = "card" -> "membership" [] p = "topup" -> "balance" [] OTHER -> "credits"]
MCPrice      == [p \in Plans |-> IF p = "card" THEN 2 ELSE 1]
MCGrant      == [p \in Plans |-> IF p = "topup" THEN 0 ELSE 1]
MCDays       == [p \in Plans |-> IF p = "card" THEN 1 ELSE 0]
MCCommission == [p \in Plans |-> IF p = "topup" THEN 0 ELSE 1]
MCLimit      == [p \in Plans |-> IF p = "mini" THEN 1 ELSE 0]

MCBuyer  == [o \in OrderIds |->
  CASE o = "packBob" -> "bob" [] o = "packCat" -> "cat"
    [] o = "packDan" -> "dan" [] o = "packEve" -> "eve" [] OTHER -> "ann"]
MCPlanOf == [o \in OrderIds |->
  CASE o \in {"card1", "card2", "card3"} -> "card"
    [] o = "topup1" -> "topup"
    [] o \in {"mini1", "mini2"} -> "mini"
    [] OTHER -> "pack"]
MCMethod == [o \in OrderIds |->
  IF o \in {"card1", "mini1", "packAnn", "packBob", "packCat", "packDan", "packEve"}
  THEN "balance" ELSE "online"]

MCInviter  == [a \in Accounts |-> IF a = "ann" THEN "bob" ELSE NoAccount]
NoInviter  == [a \in Accounts |-> NoAccount]
(* Three invite one another; eve is invited by dan, who has nothing.       *)
Invited    == [a \in Accounts |->
  CASE a = "ann" -> "bob" [] a = "bob" -> "cat" [] a = "cat" -> "ann"
    [] a = "eve" -> "dan" [] OTHER -> NoAccount]
(* Alone it does not pay for the card, with the recharge it does.          *)
MCOpening  == [a \in Accounts |-> IF a = "ann" THEN 1 ELSE 0]
RichOpening == [a \in Accounts |-> IF a = "ann" THEN 2 ELSE 0]
OneOpening == [a \in Accounts |-> IF a = "dan" THEN 0 ELSE 1]

Symmetry == Permutations(Workers)
=============================================================================
