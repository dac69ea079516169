------------------------------- MODULE Orders -------------------------------
(***************************************************************************)
(* Purchase orders and their refunds (order_service.py, refund_service.py, *)
(* admin_order_service.py, distribution_service._settle) as concurrent     *)
(* database transactions under READ COMMITTED.                             *)
(*                                                                         *)
(* A handler is cut before every statement that may wait for a row lock    *)
(* and, where it reads without one, after the read; its locks are kept to  *)
(* the end of its transaction.                                             *)
(*   pay      created -> wallet of the buyer -> checked, then as notify    *)
(*   notify   checked -> order row -> granting -> credit account           *)
(*            (recharge: wallet) -> granted -> wallet of the inviter       *)
(*   approve  checked -> [looked ->] wallet of the buyer -> funded ->      *)
(*            credit account -> reclaimed -> wallet of the inviter ->      *)
(*            clawed -> order row                                          *)
(* So approvals take the order row last and confirmations take it first.   *)
(* The row of a membership is locked just before the credit account of the *)
(* same account, by everyone: creditLock stands for both.  What a handler  *)
(* writes becomes visible with its commit, the step after its last lock;   *)
(* it is computed there, from values the locks held have kept as they were.*)
(***************************************************************************)
EXTENDS Wallet, Rights, FiniteSets, FiniteSetsExt

CONSTANTS
  Accounts, NoAccount,
  OrderIds, NoOrder,     \* identities of orders, a bound on their number
  Workers, NoWorker,     \* threads that serve HTTP requests
  Plans,
  Type, Price, Grant, Days, Commission, Limit,  \* attributes of a plan
  CyclePlans,            \* quota_refresh_period = "cycle"
  AutoRenewPlans,        \* auto_renew_default
  Buyer, PlanOf, Method, \* attributes of an order
  Inviter,               \* distribution_relation
  Opening,               \* the balances at the start
  MaxConsume             \* bound: messages billed per account

PlanTypes == {"balance", "membership", "credits", "storage_addon"}

ASSUME ConstantsAssumption ==
  /\ NoAccount \notin Accounts /\ NoOrder \notin OrderIds /\ NoWorker \notin Workers
  /\ Type \in [Plans -> PlanTypes]
  /\ Price \in [Plans -> Nat] /\ Grant \in [Plans -> Nat] /\ Days \in [Plans -> Nat]
  /\ Commission \in [Plans -> Nat] /\ Limit \in [Plans -> Nat]
  /\ CyclePlans \subseteq Plans /\ AutoRenewPlans \subseteq Plans
  /\ Buyer \in [OrderIds -> Accounts] /\ PlanOf \in [OrderIds -> Plans]
  /\ Method \in [OrderIds -> {"balance", "online"}]
  /\ \A o \in OrderIds : Type[PlanOf[o]] = "balance" =>
       Method[o] = "online" /\ Price[PlanOf[o]] > 0
  /\ Inviter \in [Accounts -> Accounts \cup {NoAccount}]
  /\ \A a \in Accounts : Inviter[a] # a
  /\ Opening \in [Accounts -> Nat]
  /\ MaxConsume \in Nat

VARIABLES
  wallet,      \* balances, ledger and totals
  rights,      \* memberships and credits of each account
  grants,      \* orders with an order_grant row in credit_transaction
  status,      \* purchase_order.status; "none" is a row not yet there
  refund,      \* return_request.status; order_id is unique
  used,        \* paid orders whose account has consumed since paid_at
  renewal,     \* <<account, plan>> with an active auto_renewal row
  billed,      \* number of messages billed, only to bound the model
  rowLock,     \* who holds the lock of an order row across steps
  walletLock,  \* who holds the lock of a wallet across steps
  creditLock,  \* who holds the lock of a credit account across steps
  job          \* what each worker is doing

vars == <<wallet, rights, grants, status, refund, used, renewal, billed,
          rowLock, walletLock, creditLock, job>>

data  == <<wallet, rights, grants, status, refund, used, renewal, billed>>
locks == <<rowLock, walletLock, creditLock>>

OrderStatuses == {"none", "pending", "paid", "closed", "refunded", "refund_hold"}
RefundStatuses == {"none", "pending", "approved", "rejected"}

Idle == [op |-> "none", order |-> NoOrder, pc |-> "idle", row |-> NoRow, base |-> 0]

Begin(op, o, pc) == [op |-> op, order |-> o, pc |-> pc, row |-> NoRow, base |-> 0]

Job == {Idle} \cup
       [op    : {"pay", "notify", "cancel", "approve", "reject"},
        order : OrderIds,
        pc    : {"created", "checked", "granting", "granted",
                 "looked", "funded", "reclaimed", "clawed"},
        row   : Nat,
        base  : Nat]

PlanType(o)  == Type[PlanOf[o]]
Amount(o)    == Price[PlanOf[o]]
Giver(o)     == Inviter[Buyer[o]]
BuyerKey(o, t) == Key(Buyer[o], o, t)
GiverKey(o, t) == Key(Giver(o), o, t)

Init ==
  /\ wallet = OpenWallet(Opening)
  /\ rights = [a \in Accounts |-> NoRights]
  /\ grants = {}
  /\ status = [o \in OrderIds |-> "none"]
  /\ refund = [o \in OrderIds |-> "none"]
  /\ used = {}
  /\ renewal = {}
  /\ billed = [a \in Accounts |-> 0]
  /\ rowLock = [o \in OrderIds |-> NoWorker]
  /\ walletLock = [a \in Accounts |-> NoWorker]
  /\ creditLock = [a \in Accounts |-> NoWorker]
  /\ job = [w \in Workers |-> Idle]

Doing(w, ops, pc) == job[w].op \in ops /\ job[w].pc = pc

Bought == {o \in OrderIds : PlanType(o) \in {"membership", "credits"}}

(* _settle_commission: membership and credits orders of an invited buyer.  *)
EarnsCommission(o) ==
  PlanType(o) \in {"membership", "credits"} /\ Giver(o) # NoAccount

(* _clawback_commission finds a commission of the order.                   *)
HasCommission(wl, o) == Giver(o) # NoAccount /\ Recorded(wl, GiverKey(o, "commission"))

-----------------------------------------------------------------------------
(* The row locks: which ones the next statement of w takes.                *)
WantsWallet(w, a) ==
  LET o == job[w].order IN
  \/ a = Buyer[o] /\ \/ Doing(w, {"pay"}, "created")
                     \/ Doing(w, {"pay", "notify"}, "granted") /\ PlanType(o) = "balance"
                     \/ Doing(w, {"approve"}, "checked") /\ PlanType(o) = "balance"
                     \/ Doing(w, {"approve"}, "looked")
  \/ a = Giver(o) /\ \/ Doing(w, {"pay", "notify"}, "granted") /\ EarnsCommission(o)
                     \/ Doing(w, {"approve"}, "reclaimed") /\ HasCommission(wallet, o)

WantsCredits(w, a) ==
  /\ job[w].order \in Bought /\ a = Buyer[job[w].order]
  /\ Doing(w, {"pay", "notify"}, "granting") \/ Doing(w, {"approve"}, "funded")

(* The commit of an approval: a recharge has no rights and no commission.  *)
AtCommit(w) ==
  \/ Doing(w, {"approve"}, "clawed")
  \/ Doing(w, {"approve"}, "funded") /\ PlanType(job[w].order) = "balance"

WantsRow(w, o) ==
  /\ o = job[w].order
  /\ Doing(w, {"pay", "notify", "cancel"}, "checked") \/ AtCommit(w)

WaitsFor(w, u) ==
  /\ job[w] # Idle
  /\ \/ \E a \in Accounts : \/ WantsWallet(w, a) /\ walletLock[a] = u
                            \/ WantsCredits(w, a) /\ creditLock[a] = u
     \/ \E o \in OrderIds : WantsRow(w, o) /\ rowLock[o] = u

Blocked(w) == \E u \in Workers \ {w} : WaitsFor(w, u)

(* The statement is granted its locks.                                     *)
Lock(w) ==
  /\ ~Blocked(w)
  /\ walletLock' = [a \in Accounts |-> IF WantsWallet(w, a) THEN w ELSE walletLock[a]]
  /\ creditLock' = [a \in Accounts |-> IF WantsCredits(w, a) THEN w ELSE creditLock[a]]
  /\ rowLock' = [o \in OrderIds |-> IF WantsRow(w, o) THEN w ELSE rowLock[o]]

Released(lock, w) ==
  [x \in DOMAIN lock |-> IF lock[x] = w THEN NoWorker ELSE lock[x]]

(* Commit or rollback frees the locks of w.                                *)
End(w) ==
  /\ rowLock' = Released(rowLock, w)
  /\ walletLock' = Released(walletLock, w)
  /\ creditLock' = Released(creditLock, w)
  /\ job' = [job EXCEPT ![w] = Idle]

Rollback(w) == End(w) /\ UNCHANGED data

-----------------------------------------------------------------------------
(* _enforce_purchase_limit counts the paid orders of the plan.             *)
PaidOrders(a, p) ==
  {o \in OrderIds : Buyer[o] = a /\ PlanOf[o] = p /\ status[o] = "paid"}

WithinLimit(a, p) == Limit[p] = 0 \/ Cardinality(PaidOrders(a, p)) < Limit[p]

(* create_and_handle up to the commit of create_order.  A balance order is *)
(* paid at once by the same handler, an online one waits for the gateway.  *)
Create(w, o) ==
  /\ job[w] = Idle
  /\ status[o] = "none"
  /\ WithinLimit(Buyer[o], PlanOf[o])
  /\ status' = [status EXCEPT ![o] = "pending"]
  /\ job' = IF Method[o] = "balance"
            THEN [job EXCEPT ![w] = Begin("pay", o, "created")] ELSE job
  /\ UNCHANGED <<wallet, rights, grants, refund, used, renewal, billed, locks>>

(* Mutant of PayLock: the balance is read without FOR UPDATE.              *)
PayReads(w) ==
  /\ Doing(w, {"pay"}, "created")
  /\ Covers(wallet, Buyer[job[w].order], Amount(job[w].order))
  /\ job' = [job EXCEPT ![w].pc = "checked"]
  /\ UNCHANGED <<data, locks>>

(* pay_with_balance locks the buyer's wallet; the order object it holds    *)
(* still says pending, whatever happened to the row.                       *)
PayLock(w) ==
  LET o == job[w].order IN
  /\ Doing(w, {"pay"}, "created")
  /\ Covers(wallet, Buyer[o], Amount(o))
  /\ Lock(w)
  /\ job' = [job EXCEPT ![w].pc = "checked"]
  /\ UNCHANGED data

(* Mutant of PayRefused: the failed handler leaves its transaction open.   *)
PayRefusedOpen(w) ==
  LET o == job[w].order IN
  /\ Doing(w, {"pay"}, "created")
  /\ ~Covers(wallet, Buyer[o], Amount(o))
  /\ Lock(w)
  /\ job' = [job EXCEPT ![w] = Idle]
  /\ UNCHANGED data

(* The balance, read under the lock, does not cover the order: it stays    *)
(* pending, and the lock goes with the session of the handler.             *)
PayRefused(w) ==
  LET o == job[w].order IN
  /\ Doing(w, {"pay"}, "created")
  /\ ~Blocked(w)
  /\ ~Covers(wallet, Buyer[o], Amount(o))
  /\ Rollback(w)

(* A callback of the gateway, which may call again and again: read the     *)
(* order; confirm_paid goes on only with a pending one.                    *)
Notify(w, o) ==
  /\ job[w] = Idle
  /\ Method[o] = "online"
  /\ status[o] = "pending"
  /\ job' = [job EXCEPT ![w] = Begin("notify", o, "checked")]
  /\ UNCHANGED <<data, locks>>

(* Mutant of ConfirmFlush: the status is committed before the rights.      *)
ConfirmFirst(w) ==
  /\ Doing(w, {"pay", "notify"}, "checked")
  /\ status' = [status EXCEPT ![job[w].order] = "paid"]
  /\ job' = [job EXCEPT ![w].pc = "granting"]
  /\ UNCHANGED <<wallet, rights, grants, refund, used, renewal, billed, locks>>

(* confirm_paid: the next query flushes status = "paid", which locks the   *)
(* order row; a membership order reads the row it will extend.             *)
ConfirmFlush(w) ==
  LET o == job[w].order
      rt == rights[Buyer[o]]
      i == RowToExtend(rt, PlanOf[o])
      reads == PlanType(o) = "membership" /\ i # NoRow
  IN
  /\ Doing(w, {"pay", "notify"}, "checked")
  /\ Lock(w)
  /\ job' = [job EXCEPT ![w].pc = "granting",
                        ![w].row = IF reads THEN i ELSE NoRow,
                        ![w].base = IF reads THEN rt.rows[i].days ELSE 0]
  /\ UNCHANGED data

(* Mutant of GrantConflict: order_grant without the unique index.          *)
NoGrantConflict(o) == FALSE

(* The INSERT of the order_grant row meets the unique index on             *)
(* (source, source_id, transaction_type).                                  *)
GrantConflict(o) == PlanType(o) \in {"membership", "credits"} /\ o \in grants

(* _grant_credits locks the credit account; the next query flushes the     *)
(* order_grant row.                                                        *)
ConfirmGrant(w) ==
  /\ Doing(w, {"pay", "notify"}, "granting")
  /\ ~GrantConflict(job[w].order)
  /\ Lock(w)
  /\ job' = [job EXCEPT ![w].pc = "granted"]
  /\ UNCHANGED data

(* A second confirmation of the same order loses on the unique index.      *)
ConfirmRollback(w) ==
  /\ Doing(w, {"pay", "notify"}, "granting")
  /\ ~Blocked(w)
  /\ GrantConflict(job[w].order)
  /\ Rollback(w)

(* _fulfill_rights                                                         *)
Fulfilled(w, o) ==
  LET p == PlanOf[o]
      rt == rights[Buyer[o]]
  IN  CASE PlanType(o) = "membership" ->
             GrantedQuota(Activated(rt, job[w].row, job[w].base, p, Days[p], o),
                          Grant[p], p \in CyclePlans)
        [] PlanType(o) = "credits" -> GrantedPermanent(rt, Grant[p])
        [] OTHER -> rt

(* Mutant of Purchased: a purchase from the balance is not booked.         *)
NotPurchased(wl, o) == wl

(* _debit_purchase, before confirm_paid; a free order is not debited.      *)
Purchased(wl, o) ==
  IF Method[o] = "balance" /\ Amount(o) > 0
  THEN Debited(wl, BuyerKey(o, "purchase"), Amount(o)) ELSE wl

(* A recharge order credits the wallet, once per order.                    *)
Recharged(wl, o) ==
  IF PlanType(o) = "balance" /\ ~Recorded(wl, BuyerKey(o, "recharge"))
  THEN Credited(wl, BuyerKey(o, "recharge"), Amount(o)) ELSE wl

(* _settle, once per order.                                                *)
Commissioned(wl, o) ==
  IF EarnsCommission(o) /\ Commission[PlanOf[o]] > 0
     /\ ~Recorded(wl, GiverKey(o, "commission"))
  THEN Credited(wl, GiverKey(o, "commission"), Commission[PlanOf[o]]) ELSE wl

(* The rest of confirm_paid, from the lock of the wallet to the commit.    *)
ConfirmCommit(w) ==
  LET o == job[w].order IN
  /\ Doing(w, {"pay", "notify"}, "granted")
  /\ ~Blocked(w)
  /\ wallet' = Commissioned(Recharged(Purchased(wallet, o), o), o)
  /\ rights' = [rights EXCEPT ![Buyer[o]] = Fulfilled(w, o)]
  /\ grants' = IF o \in Bought THEN grants \cup {o} ELSE grants
  /\ status' = [status EXCEPT ![o] = "paid"]
  /\ used' = used \ {o}
  /\ renewal' = IF PlanType(o) # "balance" /\ PlanOf[o] \in AutoRenewPlans
                THEN renewal \cup {<<Buyer[o], PlanOf[o]>>} ELSE renewal
  /\ End(w)
  /\ UNCHANGED <<refund, billed>>

(* PostgreSQL aborts a transaction in a circle of transactions each of     *)
(* which waits for a lock the next one holds.                              *)
Deadlocked(S) == S # {} /\ \A u \in S : \E v \in S \ {u} : WaitsFor(u, v)

DeadlockVictim(w) ==
  /\ \E S \in SUBSET Workers : w \in S /\ Deadlocked(S)
  /\ Rollback(w)

-----------------------------------------------------------------------------
(* cancel by the user or close by an administrator.                        *)
CancelCheck(w, o) ==
  /\ job[w] = Idle
  /\ status[o] = "pending"
  /\ job' = [job EXCEPT ![w] = Begin("cancel", o, "checked")]
  /\ UNCHANGED <<data, locks>>

CancelCommit(w) ==
  LET o == job[w].order IN
  /\ Doing(w, {"cancel"}, "checked")
  /\ ~Blocked(w)
  /\ status' = [status EXCEPT ![o] = "closed"]
  /\ End(w)
  /\ UNCHANGED <<wallet, rights, grants, refund, used, renewal, billed>>

-----------------------------------------------------------------------------
(* RefundService.create: checks and INSERT.  The code looks only for a     *)
(* pending request; the unique order_id refuses a second one of any status.*)
RefundCreate(o) ==
  /\ status[o] = "paid"
  /\ refund[o] = "none"
  /\ PlanType(o) = "balance" \/ o \notin used
  /\ refund' = [refund EXCEPT ![o] = "pending"]
  /\ UNCHANGED <<wallet, rights, grants, status, used, renewal, billed, locks, job>>

(* approve and reject read the request (approve the order too), unlocked.  *)
ReviewCheck(w, op, o) ==
  /\ job[w] = Idle
  /\ refund[o] = "pending"
  /\ op = "approve" => status[o] = "paid"
  /\ job' = [job EXCEPT ![w] = Begin(op, o, "checked")]
  /\ UNCHANGED <<data, locks>>

RejectCommit(w) ==
  /\ Doing(w, {"reject"}, "checked")
  /\ refund' = [refund EXCEPT ![job[w].order] = "rejected"]
  /\ End(w)
  /\ UNCHANGED <<wallet, rights, grants, status, used, renewal, billed>>

(* _refund_funds: a recharge is taken back (debit has no lookup), a        *)
(* purchase from the balance is given back (credit has one), an online     *)
(* purchase is settled outside.                                            *)
FundsRefunded(wl, o) ==
  IF PlanType(o) = "balance" THEN Debited(wl, BuyerKey(o, "refund"), Amount(o))
  ELSE IF Method[o] = "balance" /\ ~Recorded(wl, BuyerKey(o, "refund"))
  THEN Credited(wl, BuyerKey(o, "refund"), Amount(o)) ELSE wl

(* i is the membership row the order was seen to be the source of.         *)
RightsReclaimed(rt, i, o) ==
  CASE PlanType(o) = "membership" -> MembershipReclaimed(rt, i)
    [] PlanType(o) = "credits" -> PermanentReclaimed(rt, Grant[PlanOf[o]])
    [] OTHER -> rt

(* Can the inviter pay the commission back?                                *)
CanClawback(wl, o) == Covers(wl, Giver(o), Commission[PlanOf[o]])

(* Mutant of OnHold: the failure to take the commission back is ignored.   *)
NeverOnHold(wl, o) == FALSE

(* If not, the order goes to manual handling.                              *)
OnHold(wl, o) ==
  PlanType(o) # "balance" /\ HasCommission(wl, o) /\ ~CanClawback(wl, o)

ClawedBack(wl, o) ==
  IF HasCommission(wl, o) /\ CanClawback(wl, o)
  THEN Debited(wl, GiverKey(o, "refund"), Commission[PlanOf[o]]) ELSE wl

FromBalance(o) == PlanType(o) # "balance" /\ Method[o] = "balance"
GivenBack(o) == Recorded(wallet, BuyerKey(o, "refund"))

(* credit looks the refund up before it locks the wallet.                  *)
ApproveLook(w) ==
  LET o == job[w].order IN
  /\ Doing(w, {"approve"}, "checked")
  /\ FromBalance(o) /\ Amount(o) > 0 /\ ~GivenBack(o)
  /\ job' = [job EXCEPT ![w].pc = "looked"]
  /\ UNCHANGED <<data, locks>>

(* _refund_funds: debit, credit, nothing for an order paid online, nothing *)
(* if the lookup found the refund; a membership order then reads its row.  *)
ApproveFunds(w) ==
  LET o == job[w].order IN
  /\ \/ Doing(w, {"approve"}, "looked") /\ ~GivenBack(o)
     \/ Doing(w, {"approve"}, "checked") /\
          IF FromBalance(o) THEN Amount(o) > 0 /\ GivenBack(o)
          ELSE PlanType(o) = "balance" => Covers(wallet, Buyer[o], Amount(o))
  /\ Lock(w)
  /\ job' = [job EXCEPT ![w].pc = "funded",
                        ![w].row = IF PlanType(o) = "membership"
                                   THEN OwnRow(rights[Buyer[o]], o) ELSE NoRow]
  /\ UNCHANGED data

(* _reclaim_rights locks the credit account.                               *)
ApproveReclaim(w) ==
  /\ Doing(w, {"approve"}, "funded")
  /\ PlanType(job[w].order) # "balance"
  /\ Lock(w)
  /\ job' = [job EXCEPT ![w].pc = "reclaimed"]
  /\ UNCHANGED data

(* _clawback_commission locks the wallet of the inviter, if there is a     *)
(* commission.                                                             *)
ApproveClawback(w) ==
  /\ Doing(w, {"approve"}, "reclaimed")
  /\ Lock(w)
  /\ job' = [job EXCEPT ![w].pc = "clawed"]
  /\ UNCHANGED data

(* The last flush locks the order row.  An INSERT of a second approval     *)
(* meets the unique constraint: debit has no lookup.                       *)
CommitConflict(o) ==
  IF PlanType(o) = "balance" THEN GivenBack(o)
  ELSE LET wl == FundsRefunded(wallet, o) IN
       HasCommission(wl, o) /\ CanClawback(wl, o) /\ Recorded(wl, GiverKey(o, "refund"))

ApproveCommit(w) ==
  LET o == job[w].order
      wl == FundsRefunded(wallet, o)
  IN
  /\ AtCommit(w)
  /\ ~Blocked(w)
  /\ ~CommitConflict(o)
  /\ wallet' = IF PlanType(o) = "balance" THEN wl ELSE ClawedBack(wl, o)
  /\ rights' = [rights EXCEPT ![Buyer[o]] = RightsReclaimed(@, job[w].row, o)]
  /\ status' = [status EXCEPT ![o] = IF OnHold(wl, o) THEN "refund_hold" ELSE "refunded"]
  /\ refund' = [refund EXCEPT ![o] = "approved"]
  /\ End(w)
  /\ UNCHANGED <<grants, used, renewal, billed>>

(* debit refuses a spent recharge, credit refuses the zero of a free order,*)
(* and another approval may have been first, also after the lookup.        *)
ApproveRollback(w) ==
  LET o == job[w].order IN
  /\ \/ /\ Doing(w, {"approve"}, "checked") /\ ~Blocked(w)
        /\ PlanType(o) = "balance" /\ ~Covers(wallet, Buyer[o], Amount(o))
     \/ Doing(w, {"approve"}, "checked") /\ FromBalance(o) /\ Amount(o) = 0
     \/ Doing(w, {"approve"}, "looked") /\ ~Blocked(w) /\ GivenBack(o)
     \/ AtCommit(w) /\ CommitConflict(o)
  /\ Rollback(w)

-----------------------------------------------------------------------------
(* consume_for_message bills one message of one credit, under the lock of  *)
(* the credit account.                                                     *)
Consume(a) ==
  /\ billed[a] < MaxConsume
  /\ creditLock[a] = NoWorker
  /\ billed' = [billed EXCEPT ![a] = @ + 1]
  /\ rights' = [rights EXCEPT ![a] = Consumed(@, 1)]
  /\ used' = used \cup {o \in OrderIds : Buyer[o] = a /\ status[o] = "paid"}
  /\ UNCHANGED <<wallet, grants, status, refund, renewal, locks, job>>

-----------------------------------------------------------------------------
Step(w) ==
  \/ PayLock(w)
  \/ PayRefused(w)
  \/ ConfirmFlush(w)
  \/ ConfirmGrant(w)
  \/ ConfirmRollback(w)
  \/ ConfirmCommit(w)
  \/ CancelCommit(w)
  \/ RejectCommit(w)
  \/ ApproveLook(w)
  \/ ApproveFunds(w)
  \/ ApproveReclaim(w)
  \/ ApproveClawback(w)
  \/ ApproveCommit(w)
  \/ ApproveRollback(w)

Arrival(w, o) ==
  \/ Create(w, o)
  \/ Notify(w, o)
  \/ CancelCheck(w, o)
  \/ \E op \in {"approve", "reject"} : ReviewCheck(w, op, o)

Next ==
  \/ \E w \in Workers, o \in OrderIds : Arrival(w, o)
  \/ \E o \in OrderIds : RefundCreate(o)
  \/ \E a \in Accounts : Consume(a)
  \/ \E w \in Workers : Step(w) \/ DeadlockVictim(w)

Fairness == \A w \in Workers : SF_vars(Step(w)) /\ WF_vars(DeadlockVictim(w))

Spec == Init /\ [][Next]_vars

FairSpec == Spec /\ Fairness
-----------------------------------------------------------------------------
TypeOK ==
  /\ wallet \in WalletType(Accounts, OrderIds)
  /\ rights \in [Accounts -> RightsType(Plans, OrderIds)]
  /\ grants \subseteq OrderIds
  /\ status \in [OrderIds -> OrderStatuses]
  /\ refund \in [OrderIds -> RefundStatuses]
  /\ used \subseteq OrderIds
  /\ renewal \subseteq Accounts \X Plans
  /\ billed \in [Accounts -> 0..MaxConsume]
  /\ rowLock \in [OrderIds -> Workers \cup {NoWorker}]
  /\ walletLock \in [Accounts -> Workers \cup {NoWorker}]
  /\ creditLock \in [Accounts -> Workers \cup {NoWorker}]
  /\ job \in [Workers -> Job]

(* The wallet keeps the promises of Ledger: no interleaving of payments,   *)
(* commissions and refunds overdraws it, because the balance that          *)
(* pay_with_balance read stays locked up to the commit                     *)
(* (order_service.py:130-134), and none books an entry twice.              *)
Promised == INSTANCE Ledger WITH balance <- wallet.balance, entries <- wallet.ledger

ImplementsLedger == Promised!Spec

(* Nobody is charged without getting the rights or gets the rights of a    *)
(* balance order without being charged, whatever overwrites its status.    *)
ChargedIffGranted ==
  \A o \in Bought : Method[o] = "balance" /\ Amount(o) > 0 =>
    (Recorded(wallet, BuyerKey(o, "purchase")) <=> o \in grants)

(* An order is granted once however often the gateway calls back, and no   *)
(* account has or has consumed more than it was granted.  This bounds the  *)
(* credits from above: refunds may take back too much, see CreditsKept.    *)
CreditsExplained ==
  \A a \in Accounts :
    /\ rights[a].granted =
         MapThenSumSet(LAMBDA o : Grant[PlanOf[o]], {o \in grants : Buyer[o] = a})
    /\ rights[a].quota + rights[a].permanent + rights[a].consumed <= rights[a].granted

(* A paid order carries its rights.                                        *)
PaidIsGranted == \A o \in Bought : status[o] = "paid" => o \in grants

(* An order ends as refunded only when all its money has come back: the    *)
(* price paid from the balance, and the commission of the inviter, who may *)
(* have spent it meanwhile; then the order is held for manual handling.    *)
RefundSettles ==
  \A o \in Bought : status[o] = "refunded" =>
    /\ Method[o] = "balance" => Recorded(wallet, BuyerKey(o, "refund"))
    /\ Recorded(wallet, GiverKey(o, "commission")) => Recorded(wallet, GiverKey(o, "refund"))

(* Every handler that begins ends: when buyers invite one another in a     *)
(* circle and each pays while crediting the next one's wallet, and when an *)
(* approval, which takes the order row last, meets a confirmation of the   *)
(* same order, which takes it first.                                       *)
HandlersEnd == \A w \in Workers : job[w] # Idle ~> job[w] = Idle

-----------------------------------------------------------------------------
(* What the documents and messages say and the code does not do.           *)

(* commerce-distribution-api.md:82: cancel takes only pending to closed.   *)
OnlyPendingCloses ==
  [][\A o \in OrderIds : status'[o] = "closed" => status[o] \in {"pending", "closed"}]_vars

(* commerce-distribution-api.md:103: a directly bought order is refunded   *)
(* only if nothing was consumed since it was paid.                         *)
RefundedUnused == \A o \in Bought : status[o] = "refunded" => o \notin used

(* order_service.py:38: the days of paid memberships add up.               *)
PaidDays(a, p) ==
  MapThenSumSet(LAMBDA o : Days[p], {o \in grants : Buyer[o] = a /\ PlanOf[o] = p})

RowDays(a, p) ==
  MapThenSumSet(LAMBDA i : rights[a].rows[i].days, RowsOf(rights[a], p))

MembershipStacks ==
  \A a \in Accounts, p \in Plans :
    Type[p] = "membership" => RowDays(a, p) = PaidDays(a, p)

(* refund_service.py:155: a refund ends the membership its own order       *)
(* opened, so a paid membership order still has a membership in force.     *)
PaidMembershipInForce ==
  \A o \in OrderIds :
    PlanType(o) = "membership" /\ status[o] = "paid" => Effective(rights[Buyer[o]])

(* refund_service.py:88: a request is handled once, so refunds take back   *)
(* no more credits than they refund.                                       *)
CreditsKept ==
  \A a \in Accounts :
    rights[a].permanent + rights[a].consumed >=
      MapThenSumSet(LAMBDA o : Grant[PlanOf[o]],
        {o \in grants : Buyer[o] = a /\ PlanType(o) = "credits" /\ status[o] = "paid"})

(* order_service.py:398: a plan is bought at most purchase_limit times.    *)
LimitHolds ==
  \A a \in Accounts, p \in Plans :
    Limit[p] > 0 => Cardinality(PaidOrders(a, p)) <= Limit[p]
=============================================================================
