------------------------------- MODULE Rights -------------------------------
(***************************************************************************)
(* What an account may use: its membership rows (membership_resolver.py)   *)
(* and its credit account (order_service._grant_credits, credit_service,   *)
(* refund_service._adjust_credit).  A rights value is a record             *)
(*   rows       the membership rows in the order of their creation         *)
(*   quota      credits that belong to the membership                      *)
(*   permanent  credits that do not expire                                 *)
(*   granted, consumed  the running totals                                 *)
(* Time does not pass here: a row's expires_at is the number of days it    *)
(* was given, and an active row is in force.                               *)
(***************************************************************************)
EXTENDS Naturals, Sequences

NoRow == 0

Row(p, d, o) == [plan |-> p, status |-> "active", days |-> d, source |-> o]

NoRights ==
  [rows |-> <<>>, quota |-> 0, permanent |-> 0, granted |-> 0, consumed |-> 0]

(* resolve_effective_membership finds one: some row is active.             *)
Effective(rt) == \E i \in DOMAIN rt.rows : rt.rows[i].status = "active"

RowsOf(rt, p) == {i \in DOMAIN rt.rows : rt.rows[i].plan = p}

(* order_by(expires_at.desc(), created_at.desc()).first()                  *)
IsLatest(rt, p, i) ==
  /\ i \in RowsOf(rt, p)
  /\ \A j \in RowsOf(rt, p) :
       \/ rt.rows[j].days < rt.rows[i].days
       \/ rt.rows[j].days = rt.rows[i].days /\ j <= i

(* The row activate_or_extend_membership decides to extend, NoRow when it  *)
(* will add a new one.                                                     *)
RowToExtend(rt, p) ==
  IF \E i \in RowsOf(rt, p) : IsLatest(rt, p, i) /\ rt.rows[i].status = "active"
  THEN CHOOSE i \in RowsOf(rt, p) : IsLatest(rt, p, i)
  ELSE NoRow

(* Its effect: the row read as i with base days is pushed out by d days    *)
(* and now belongs to o, or a new row is added.  The UPDATE writes the     *)
(* expiry it computed, whatever the row holds by then.                     *)
Activated(rt, i, base, p, d, o) ==
  IF i = NoRow THEN [rt EXCEPT !.rows = Append(@, Row(p, d, o))]
  ELSE [rt EXCEPT !.rows[i].days = base + d, !.rows[i].source = o]

(* _grant_credits(pool="quota"): a plan that refreshes every cycle sets    *)
(* the quota, any other plan adds to it.                                   *)
GrantedQuota(rt, g, cycle) ==
  [rt EXCEPT !.quota = IF cycle THEN g ELSE @ + g, !.granted = @ + g]

(* _grant_credits(pool="permanent")                                        *)
GrantedPermanent(rt, g) ==
  [rt EXCEPT !.permanent = @ + g, !.granted = @ + g]

Least(m, n) == IF m <= n THEN m ELSE n

(* _apply_consume: the quota first, if a membership is in force, then the  *)
(* permanent credits; what neither covers is not charged.                  *)
Consumed(rt, n) ==
  LET q == IF Effective(rt) THEN Least(rt.quota, n) ELSE 0
      c == Least(rt.permanent, n - q)
  IN  [rt EXCEPT !.quota = @ - q, !.permanent = @ - c, !.consumed = @ + q + c]

(* find_membership_by_source: the newest row the order is the source of,   *)
(* if it is active.                                                        *)
OwnRow(rt, o) ==
  LET own == {i \in DOMAIN rt.rows : rt.rows[i].source = o}
  IN  IF \E i \in own : (\A j \in own : j <= i) /\ rt.rows[i].status = "active"
      THEN CHOOSE i \in own : \A j \in own : j <= i
      ELSE NoRow

(* _reclaim_rights for a membership order: expire the row i that was read, *)
(* if any, whatever it is by then, and clear the quota.                    *)
MembershipReclaimed(rt, i) ==
  IF i = NoRow THEN [rt EXCEPT !.quota = 0]
  ELSE [rt EXCEPT !.rows[i].status = "expired", !.quota = 0]

(* _reclaim_rights for a credits order: take the grant back, at most to 0. *)
PermanentReclaimed(rt, g) ==
  [rt EXCEPT !.permanent = IF @ >= g THEN @ - g ELSE 0]

RightsType(Ps, Os) ==
  [rows      : Seq([plan : Ps, status : {"active", "expired"}, days : Nat, source : Os]),
   quota     : Nat,
   permanent : Nat,
   granted   : Nat,
   consumed  : Nat]
=============================================================================
