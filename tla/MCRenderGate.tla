---------------------------- MODULE MCRenderGate -----------------------------
(* Instances of RenderGate for TLC: r2 and r3 are the same script of one       *)
(* account, r1 is another script of it, r4 is of another account.              *)
EXTENDS RenderGate

CONSTANTS r1, r2, r3, r4

MCAccountOf == [r \in Requests |-> IF r = r4 THEN "bob" ELSE "ann"]
MCScriptOf == [r \in Requests |-> IF r = r1 THEN "long" ELSE "short"]

(* The first request is already in the queue.                                  *)
Queued ==
  /\ slot = [a \in Users |-> IF a = OwnerOf(r1) THEN 1 ELSE 0]
  /\ fading = {OwnerOf(r1)} /\ script = {Key(r1)} /\ queue = 1
  /\ at = [r \in Requests |-> IF r = r1 THEN "sent" ELSE "new"]
  /\ render = [r \in Requests |-> IF r = r1 THEN "waiting" ELSE "none"]
  /\ ending = [r \in Requests |-> "none"]
  /\ retries = [r \in Requests |-> 0] /\ told = [r \in Requests |-> 0] /\ unheard = {}
  /\ failures = 0 /\ losses = 0 /\ deaths = 0 /\ expiries = 0
QueuedSpec == Queued /\ [][GateNext]_gateVars /\ GateFairness
=============================================================================
