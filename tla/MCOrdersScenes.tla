---------------------------- MODULE MCOrdersScenes --------------------------
(* Scenes of Orders in one instance, each with the orders that exist in it:*)
(* ann's recharge makes her card affordable, or comes with a pack bought   *)
(* online; ann buys a pack from her balance and a card online; dan spends  *)
(* what he earned on the pack of eve, which is then refunded; and three    *)
(* buyers who invited one another in a circle pay from their balances,     *)
(* while the order of ann may be cancelled or refunded.                    *)
EXTENDS MCOrders

CONSTANTS w1, w2, w3

VARIABLE scene

Circle == {"packAnn", "packBob", "packCat"}

Shops == {{"card1", "topup1"}, {"pack1", "topup1"}, {"packAnn", "card2"},
          {"packDan", "packEve"}}

(* Everything two workers may do with the orders of the scene.             *)
InAShop ==
  \/ \E w \in {w1, w2}, o \in scene : Arrival(w, o)
  \/ \E o \in scene : RefundCreate(o)
  \/ (\E o \in scene : Buyer[o] = "ann") /\ Consume("ann")
  \/ \E w \in {w1, w2} : Step(w) \/ DeadlockVictim(w)

(* Each pays by a worker of their own; w2 and w3 serve what comes after.   *)
InACircle ==
  \/ \E w \in Workers : Step(w) \/ DeadlockVictim(w)
  \/ Create(w1, "packAnn") \/ Create(w2, "packBob") \/ Create(w3, "packCat")
  \/ RefundCreate("packAnn")
  \/ \E w \in {w2, w3} : Arrival(w, "packAnn")

SceneInit == Init /\ scene \in Shops \cup {Circle}

SceneNext ==
  /\ UNCHANGED scene
  /\ IF scene = Circle THEN InACircle ELSE InAShop

Scenes == SceneInit /\ [][SceneNext]_<<vars, scene>> /\ Fairness
=============================================================================
