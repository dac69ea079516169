----------------------------- MODULE Withdrawals -----------------------------
(***************************************************************************)
(* Withdrawal requests (withdrawal_service.py) as concurrent database      *)
(* transactions under READ COMMITTED.  A handler reads the request row     *)
(* without a lock, decides on the status it saw, and writes later; the row *)
(* is locked only by its own UPDATE, which the session flushes before the  *)
(* next query (autoflush) or at commit.  The wallet row is locked by       *)
(* SELECT ... FOR UPDATE inside BalanceService.                            *)
(*                                                                         *)
(* One step is one statement that blocks or that reads what another        *)
(* transaction may write.  A handler that raises leaves no trace, since    *)
(* the session is rolled back, and is a step that releases its locks.      *)
(***************************************************************************)
EXTENDS Wallet, FiniteSetsExt

CONSTANTS
  Accounts,   \* accounts with a wallet
  Requests,   \* identities of withdrawal requests, a bound on their number
  Workers,    \* threads that serve HTTP requests
  Owner,      \* the account of each request
  Amount,     \* the money of each request
  Opening,    \* the balance of each account at the start
  NoWorker,   \* the holder of a free lock
  NoRequest   \* the request of an idle worker

ASSUME ConstantsAssumption ==
  /\ Owner \in [Requests -> Accounts]
  /\ Amount \in [Requests -> Nat \ {0}]
  /\ Opening \in [Accounts -> Nat]
  /\ NoWorker \notin Workers
  /\ NoRequest \notin Requests

VARIABLES
  wallet,      \* balance_account and balance_transaction
  status,      \* withdrawal_request.status; "none" is a row not yet there
  rowLock,     \* who holds the row lock of a request
  walletLock,  \* who holds the row lock of a balance account across steps
  job          \* what each worker is doing

vars == <<wallet, status, rowLock, walletLock, job>>

Statuses == {"none", "pending", "approved", "rejected", "cancelled"}

Idle == [op |-> "none", req |-> NoRequest, pc |-> "idle", found |-> FALSE]

Job == {Idle} \cup
       [op    : {"cancel", "approve", "reject"},
        req   : Requests,
        pc    : {"checked", "looked", "locked"},
        found : BOOLEAN]

WithdrawKey(r) == Key(Owner[r], r, "withdraw")
RefundKey(r)   == Key(Owner[r], r, "refund")

Refunded(r) == Recorded(wallet, RefundKey(r))

TypeOK ==
  /\ wallet \in WalletType(Accounts, Requests)
  /\ status \in [Requests -> Statuses]
  /\ rowLock \in [Requests -> Workers \cup {NoWorker}]
  /\ walletLock \in [Accounts -> Workers \cup {NoWorker}]
  /\ job \in [Workers -> Job]

Init ==
  /\ wallet = OpenWallet(Opening)
  /\ status = [r \in Requests |-> "none"]
  /\ rowLock = [r \in Requests |-> NoWorker]
  /\ walletLock = [a \in Accounts |-> NoWorker]
  /\ job = [w \in Workers |-> Idle]

Free(lock, x) == lock[x] = NoWorker

Released(lock, w) ==
  [x \in DOMAIN lock |-> IF lock[x] = w THEN NoWorker ELSE lock[x]]

(* The transaction of w ends: commit or rollback frees all its locks.      *)
End(w) ==
  /\ rowLock' = Released(rowLock, w)
  /\ walletLock' = Released(walletLock, w)
  /\ job' = [job EXCEPT ![w] = Idle]

Doing(w, op, pc) == job[w].op = op /\ job[w].pc = pc

-----------------------------------------------------------------------------

(* create: insert the request and debit the wallet in one transaction.  No *)
(* other transaction sees the row before the commit, so it is one step; a  *)
(* request the balance does not cover is rolled back and changes nothing.  *)
Create(r) ==
  /\ status[r] = "none"
  /\ Free(walletLock, Owner[r])
  /\ Covers(wallet, Owner[r], Amount[r])
  /\ wallet' = Debited(wallet, WithdrawKey(r), Amount[r])
  /\ status' = [status EXCEPT ![r] = "pending"]
  /\ UNCHANGED <<rowLock, walletLock, job>>

(* The first query of cancel, approve and reject, and its status check.    *)
Check(w, op, r) ==
  /\ job[w] = Idle
  /\ status[r] = "pending"
  /\ job' = [job EXCEPT ![w] = [op |-> op, req |-> r, pc |-> "checked", found |-> FALSE]]
  /\ UNCHANGED <<wallet, status, rowLock, walletLock>>

(* approve: nothing but the status and the commit.                         *)
ApproveCommit(w) ==
  LET r == job[w].req IN
  /\ Doing(w, "approve", "checked")
  /\ Free(rowLock, r)
  /\ status' = [status EXCEPT ![r] = "approved"]
  /\ End(w)
  /\ UNCHANGED wallet

(* cancel sets the status first, so the lookup inside credit flushes the   *)
(* UPDATE and takes the row lock.                                          *)
CancelLookup(w) ==
  LET r == job[w].req IN
  /\ Doing(w, "cancel", "checked")
  /\ Free(rowLock, r)
  /\ rowLock' = [rowLock EXCEPT ![r] = w]
  /\ job' = [job EXCEPT ![w].pc = "looked", ![w].found = Refunded(r)]
  /\ UNCHANGED <<wallet, status, walletLock>>

(* Mutant of Refunding: credit without its idempotency lookup.             *)
RefundingAgain(w, r) == Credited(wallet, RefundKey(r), Amount[r])

(* Mutant of Refunding: the refund is left out.                            *)
RefundingNothing(w, r) == wallet

(* What a commit that books the refund of r leaves in the wallet: the      *)
(* lookup found the entry and credit returned early, or it is booked now.  *)
Refunding(w, r) ==
  IF job[w].found THEN wallet ELSE Credited(wallet, RefundKey(r), Amount[r])

(* Mutant of Conflict: a table without the unique constraint.              *)
NoConflict(w) == FALSE

(* The INSERT of an entry the lookup missed fails on the unique constraint *)
(* when another transaction has booked it since.                           *)
Conflict(w) == ~job[w].found /\ Refunded(job[w].req)

CancelCommit(w) ==
  LET r == job[w].req IN
  /\ Doing(w, "cancel", "looked")
  /\ job[w].found \/ Free(walletLock, Owner[r])
  /\ ~Conflict(w)
  /\ wallet' = Refunding(w, r)
  /\ status' = [status EXCEPT ![r] = "cancelled"]
  /\ End(w)

(* reject looks the refund up with nothing to flush ...                    *)
RejectLookup(w) ==
  /\ Doing(w, "reject", "checked")
  /\ job' = [job EXCEPT ![w].pc = "looked", ![w].found = Refunded(job[w].req)]
  /\ UNCHANGED <<wallet, status, rowLock, walletLock>>

(* ... locks the wallet when there is a refund to book ...                 *)
RejectLock(w) ==
  LET a == Owner[job[w].req] IN
  /\ Doing(w, "reject", "looked")
  /\ ~job[w].found
  /\ Free(walletLock, a)
  /\ walletLock' = [walletLock EXCEPT ![a] = w]
  /\ job' = [job EXCEPT ![w].pc = "locked"]
  /\ UNCHANGED <<wallet, status, rowLock>>

(* ... and needs the row lock only when it commits.                        *)
RejectCommit(w) ==
  LET r == job[w].req IN
  /\ \/ Doing(w, "reject", "locked")
     \/ Doing(w, "reject", "looked") /\ job[w].found
  /\ Free(rowLock, r)
  /\ ~Conflict(w)
  /\ wallet' = Refunding(w, r)
  /\ status' = [status EXCEPT ![r] = "rejected"]
  /\ End(w)

(* IntegrityError at the flush: the whole transaction is rolled back.      *)
CanFlush(w) ==
  LET r == job[w].req IN
  IF job[w].op = "cancel"
  THEN job[w].pc = "looked" /\ Free(walletLock, Owner[r])
  ELSE job[w].pc = "locked" /\ Free(rowLock, r)

UniqueViolation(w) ==
  /\ job[w].op \in {"cancel", "reject"}
  /\ CanFlush(w)
  /\ Conflict(w)
  /\ End(w)
  /\ UNCHANGED <<wallet, status>>

(* Mutant of DeadlockVictim: nobody breaks a deadlock.                     *)
NoVictim(w) == FALSE

(* cancel holds the row and waits for the wallet, reject holds the wallet  *)
(* and waits for the row: PostgreSQL aborts one of the two.                *)
DeadlockVictim(w) ==
  /\ \E u \in Workers :
       \E c, j \in {w, u} :
         /\ c # j
         /\ Doing(c, "cancel", "looked") /\ ~job[c].found
         /\ Doing(j, "reject", "locked")
         /\ walletLock[Owner[job[c].req]] = j
         /\ rowLock[job[j].req] = c
  /\ End(w)
  /\ UNCHANGED <<wallet, status>>

-----------------------------------------------------------------------------
(* The steps of a transaction that has begun.                              *)
Step(w) ==
  \/ ApproveCommit(w)
  \/ CancelLookup(w)
  \/ CancelCommit(w)
  \/ RejectLookup(w)
  \/ RejectLock(w)
  \/ RejectCommit(w)
  \/ UniqueViolation(w)

Next ==
  \/ \E r \in Requests : Create(r)
  \/ \E w \in Workers, op \in {"cancel", "approve", "reject"}, r \in Requests : Check(w, op, r)
  \/ \E w \in Workers : Step(w) \/ DeadlockVictim(w)

(* A thread goes on with what it began and PostgreSQL grants a lock to the *)
(* transaction that has waited longest, hence strong fairness of the steps *)
(* that wait; the deadlock detector runs whenever a wait lasts.            *)
Fairness ==
  \A w \in Workers : SF_vars(Step(w)) /\ WF_vars(DeadlockVictim(w))

Spec == Init /\ [][Next]_vars

FairSpec == Spec /\ Fairness
-----------------------------------------------------------------------------
(* No interleaving of requests overdraws a wallet (debit reads the balance *)
(* under the row lock, balance_service.py:119-122).                        *)
NeverOverdrawn == \A a \in Accounts : wallet.balance[a] >= 0

(* A withdrawal that ended as cancelled or rejected has given the money    *)
(* back, whichever of the two handlers committed last and even when one    *)
(* of them lost the race on the unique constraint.                         *)
ClosedIsRefunded ==
  \A r \in Requests : status[r] \in {"cancelled", "rejected"} => Refunded(r)

(* Every amount leaves the wallet once when the request is created and     *)
(* comes back at most once, however many handlers race on the request.     *)
HeldOf(a) ==
  MapThenSumSet(LAMBDA r : Amount[r],
                {r \in Requests : Owner[r] = a /\ status[r] # "none" /\ ~Refunded(r)})

Conservation ==
  \A a \in Accounts : wallet.balance[a] + HeldOf(a) = Opening[a]

(* The wallet keeps the promises of Ledger: a cancel and a reject that    *)
(* both book the refund of one request never both commit it.               *)
Promised == INSTANCE Ledger WITH balance <- wallet.balance, entries <- wallet.ledger

ImplementsLedger == Promised!Spec

(* What the class promises (withdrawal_service.py:13): approved means paid *)
(* out, cancelled and rejected mean given back, never both.                *)
PaidOutOrRefunded ==
  \A r \in Requests : status[r] = "approved" => ~Refunded(r)

(* Every handler that begins ends, the deadlock of cancel and reject       *)
(* included.                                                               *)
HandlersEnd == \A w \in Workers : job[w] # Idle ~> job[w] = Idle
=============================================================================
