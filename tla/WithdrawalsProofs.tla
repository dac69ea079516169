--------------------------- MODULE WithdrawalsProofs ---------------------------
(***************************************************************************)
(* Withdrawals for any accounts, requests, workers, amounts and opening    *)
(* balances: the types, that no wallet is overdrawn, that a cancelled or   *)
(* rejected request has been refunded, and that the wallet implements the  *)
(* Ledger.  FoundStays and UnbornUnbooked make the invariant inductive: a  *)
(* handler's claim on money is decided by the ledger, which only grows,    *)
(* and never by the status, which a race may overwrite.                    *)
(***************************************************************************)
EXTENDS Withdrawals, Lemmas

(* An entry that a lookup found is still there when the handler commits.   *)
FoundStays == \A w \in Workers : job[w].found => Refunded(job[w].req)

(* A request that is not there yet has not taken its money.                *)
UnbornUnbooked ==
  \A r \in Requests : status[r] = "none" => ~Recorded(wallet, WithdrawKey(r))

IInv ==
  TypeOK /\ NeverOverdrawn /\ ClosedIsRefunded /\ FoundStays /\ UnbornUnbooked

(* Both keys of a request are keys of the wallet.                          *)
LEMMA KeysType ==
  ASSUME NEW r \in Requests
  PROVE  /\ WithdrawKey(r) \in Keys(Accounts, Requests)
         /\ RefundKey(r) \in Keys(Accounts, Requests)
         /\ WithdrawKey(r).account = Owner[r]
         /\ RefundKey(r).account = Owner[r]
         /\ Owner[r] \in Accounts
         /\ Amount[r] \in Int /\ Amount[r] > 0
         /\ \A q \in Requests : WithdrawKey(r) = WithdrawKey(q) => r = q
         /\ \A q \in Requests : WithdrawKey(r) # RefundKey(q)
  BY ConstantsAssumption DEF WithdrawKey, RefundKey, Key, Keys, AmountTypes

(* The end of a transaction keeps locks and jobs well typed.               *)
LEMMA EndType ==
  ASSUME TypeOK, NEW w \in Workers, End(w)
  PROVE  /\ rowLock' \in [Requests -> Workers \cup {NoWorker}]
         /\ walletLock' \in [Accounts -> Workers \cup {NoWorker}]
         /\ job' \in [Workers -> Job]
<1>1. Idle \in Job
  BY DEF Idle, Job
<1> QED BY <1>1 DEF TypeOK, End, Released

(* The initial states satisfy the invariant.                               *)
LEMMA InitIInv == Init => IInv
<1> SUFFICES ASSUME Init PROVE IInv
  OBVIOUS
<1>1. Opening \in [Accounts -> Int] /\ \A a \in Accounts : Opening[a] >= 0
  BY ConstantsAssumption
<1>2. wallet \in WalletType(Accounts, Requests) /\ wallet.balance = Opening
  BY <1>1, OpenWalletType DEF Init
<1>3. Idle \in Job /\ Idle.op = "none"
  BY DEF Idle, Job
<1>4. TypeOK
  BY <1>2, <1>3 DEF Init, TypeOK, Statuses
<1>5. NeverOverdrawn
  BY <1>1, <1>2 DEF NeverOverdrawn
<1>6. ClosedIsRefunded
  BY DEF Init, ClosedIsRefunded
<1>7. FoundStays
  BY DEF Init, Idle, FoundStays
<1>8. UnbornUnbooked
  BY <1>1, OpenWalletType DEF Init, UnbornUnbooked
<1> QED BY <1>4, <1>5, <1>6, <1>7, <1>8 DEF IInv

(* What the two commits that refund do to the wallet.                      *)
LEMMA RefundingFacts ==
  ASSUME IInv, NEW w \in Workers, NEW r \in Requests, job[w].req = r, ~Conflict(w),
         wallet' = Refunding(w, r)
  PROVE  /\ wallet' \in WalletType(Accounts, Requests)
         /\ \A a \in Accounts : wallet'.balance[a] >= 0
         /\ \A k : Recorded(wallet, k) => Recorded(wallet', k)
         /\ Recorded(wallet', RefundKey(r))
         /\ \A q \in Requests :
              Recorded(wallet', WithdrawKey(q)) => Recorded(wallet, WithdrawKey(q))
<1>1. wallet \in WalletType(Accounts, Requests) /\ wallet.balance \in [Accounts -> Int]
  BY DEF IInv, TypeOK, WalletType
<1>2. \A a \in Accounts : wallet.balance[a] >= 0
  BY DEF IInv, NeverOverdrawn
<1>3. RefundKey(r) \in Keys(Accounts, Requests) /\ RefundKey(r).account = Owner[r]
      /\ Owner[r] \in Accounts /\ Amount[r] \in Int /\ Amount[r] > 0
  BY KeysType
<1>4. CASE job[w].found
  <2>1. wallet' = wallet
    BY <1>4 DEF Refunding
  <2>2. Recorded(wallet, RefundKey(r))
    BY <1>4 DEF IInv, FoundStays, Refunded
  <2> QED BY <1>1, <1>2, <2>1, <2>2
<1>5. CASE ~job[w].found
  <2>1. wallet' = Credited(wallet, RefundKey(r), Amount[r])
    BY <1>5 DEF Refunding
  <2>2. /\ Credited(wallet, RefundKey(r), Amount[r]) \in WalletType(Accounts, Requests)
        /\ Credited(wallet, RefundKey(r), Amount[r]).balance
             = [wallet.balance EXCEPT ![RefundKey(r).account] = @ + Amount[r]]
        /\ \A j : Recorded(Credited(wallet, RefundKey(r), Amount[r]), j)
                  <=> Recorded(wallet, j) \/ j = RefundKey(r)
    BY <1>1, <1>3, CreditedFacts
  <2>3. \A a \in Accounts : wallet'.balance[a] >= 0
    BY <1>1, <1>2, <1>3, <2>1, <2>2
  <2> QED BY <2>1, <2>2, <2>3, KeysType
<1> QED BY <1>4, <1>5

(* A step that books nothing new and closes nothing keeps the invariant.   *)
LEMMA QuietStep ==
  ASSUME IInv, TypeOK', wallet' = wallet,
         \A r \in Requests : status'[r] = status[r] \/ status'[r] = "approved",
         \A w \in Workers : job'[w].found =>
           (job'[w].req = job[w].req /\ job[w].found) \/ Refunded(job'[w].req)
  PROVE  IInv'
<1>1. NeverOverdrawn'
  BY DEF IInv, NeverOverdrawn
<1>2. \A r : Refunded(r)' <=> Refunded(r)
  BY DEF Refunded
<1>3. ClosedIsRefunded'
  BY <1>2 DEF IInv, ClosedIsRefunded
<1>4. FoundStays'
  BY <1>2 DEF IInv, FoundStays
<1>5. UnbornUnbooked'
  BY DEF IInv, UnbornUnbooked
<1> QED BY <1>1, <1>3, <1>4, <1>5 DEF IInv

(* The last step of a job leaves it idle and touches no other job.         *)
LEMMA EndFound ==
  ASSUME TypeOK, NEW w \in Workers, End(w)
  PROVE  \A u \in Workers : job'[u].found => job'[u] = job[u] /\ u # w
  BY DEF TypeOK, End, Idle

(* A commit that refunds keeps the invariant.                              *)
LEMMA RefundingStep ==
  ASSUME IInv, NEW w \in Workers, NEW s \in {"cancelled", "rejected"},
         NEW r \in Requests, job[w].req = r, ~Conflict(w),
         wallet' = Refunding(w, r),
         status' = [status EXCEPT ![r] = s],
         End(w)
  PROVE  IInv'
<1>1. /\ wallet' \in WalletType(Accounts, Requests)
      /\ \A a \in Accounts : wallet'.balance[a] >= 0
      /\ \A k : Recorded(wallet, k) => Recorded(wallet', k)
      /\ Recorded(wallet', RefundKey(r))
      /\ \A q \in Requests :
           Recorded(wallet', WithdrawKey(q)) => Recorded(wallet, WithdrawKey(q))
  BY RefundingFacts
<1>2. TypeOK'
  BY <1>1, EndType DEF IInv, TypeOK, Statuses
<1>3. NeverOverdrawn'
  BY <1>1 DEF NeverOverdrawn
<1>4. \A q : Refunded(q) => Refunded(q)'
  BY <1>1 DEF Refunded
<1>5. Refunded(r)'
  BY <1>1 DEF Refunded
<1>6. ClosedIsRefunded'
  BY <1>4, <1>5 DEF IInv, TypeOK, ClosedIsRefunded
<1>7. FoundStays'
  BY <1>4, EndFound DEF IInv, FoundStays
<1>8. UnbornUnbooked'
  BY <1>1 DEF IInv, TypeOK, UnbornUnbooked
<1> QED BY <1>2, <1>3, <1>6, <1>7, <1>8 DEF IInv

(* Every step keeps the invariant, one case per action.                    *)
LEMMA NextIInv == IInv /\ [Next]_vars => IInv'
<1> SUFFICES ASSUME IInv, [Next]_vars PROVE IInv'
  OBVIOUS
<1> USE DEF IInv
<1>a. ASSUME NEW w \in Workers, job[w].op # "none" PROVE job[w].req \in Requests
  BY <1>a DEF TypeOK, Job, Idle
<1>1. ASSUME NEW r \in Requests, Create(r) PROVE IInv'
  <2>1. wallet \in WalletType(Accounts, Requests) /\ wallet.balance \in [Accounts -> Int]
    BY DEF TypeOK, WalletType
  <2>2. /\ WithdrawKey(r) \in Keys(Accounts, Requests)
        /\ WithdrawKey(r).account = Owner[r]
        /\ Owner[r] \in Accounts /\ Amount[r] \in Int
    BY KeysType
  <2>3. wallet' = Debited(wallet, WithdrawKey(r), Amount[r])
    BY <1>1 DEF Create
  <2>4. /\ Debited(wallet, WithdrawKey(r), Amount[r]) \in WalletType(Accounts, Requests)
        /\ Debited(wallet, WithdrawKey(r), Amount[r]).balance
             = [wallet.balance EXCEPT ![WithdrawKey(r).account] = @ - Amount[r]]
        /\ \A j : Recorded(Debited(wallet, WithdrawKey(r), Amount[r]), j)
                  <=> Recorded(wallet, j) \/ j = WithdrawKey(r)
    BY <2>1, <2>2, DebitedFacts
  <2>5. TypeOK'
    BY <1>1, <2>3, <2>4 DEF Create, TypeOK, Statuses
  <2>6. NeverOverdrawn'
    BY <1>1, <2>1, <2>2, <2>3, <2>4 DEF Create, Covers, NeverOverdrawn
  <2>7. \A q : Refunded(q) => Refunded(q)'
    BY <2>3, <2>4 DEF Refunded
  <2>8. ClosedIsRefunded'
    BY <1>1, <2>7 DEF Create, TypeOK, ClosedIsRefunded
  <2>9. FoundStays'
    BY <1>1, <2>7 DEF Create, FoundStays
  <2>10. UnbornUnbooked'
    <3>1. ASSUME NEW q \in Requests, status'[q] = "none" PROVE q # r /\ status[q] = "none"
      BY <1>1, <3>1 DEF Create, TypeOK
    <3> QED BY <2>3, <2>4, <3>1, KeysType DEF UnbornUnbooked
  <2> QED BY <2>5, <2>6, <2>8, <2>9, <2>10
<1>2. ASSUME NEW w \in Workers, NEW op \in {"cancel", "approve", "reject"},
             NEW r \in Requests, Check(w, op, r)
      PROVE  IInv'
  <2>1. TypeOK'
    BY <1>2 DEF Check, TypeOK, Job
  <2> QED BY <1>2, <2>1, QuietStep DEF Check, TypeOK
<1>3. ASSUME NEW w \in Workers, ApproveCommit(w) PROVE IInv'
  <2>1. job[w].req \in Requests
    BY <1>3, <1>a DEF ApproveCommit, Doing
  <2>2. TypeOK'
    BY <1>3, <2>1, EndType DEF ApproveCommit, TypeOK, Statuses
  <2>3. \A u \in Workers : job'[u].found => job'[u] = job[u]
    BY <1>3, EndFound DEF ApproveCommit
  <2> QED BY <1>3, <2>1, <2>2, <2>3, QuietStep DEF ApproveCommit, TypeOK
<1>4. ASSUME NEW w \in Workers, CancelLookup(w) PROVE IInv'
  <2>1. job[w].req \in Requests /\ job[w] \in Job /\ job[w].op = "cancel"
    BY <1>4, <1>a DEF CancelLookup, Doing, TypeOK
  <2>2. job' = [job EXCEPT ![w] = [@ EXCEPT !.pc = "looked", !.found = Refunded(job[w].req)]]
    BY <1>4 DEF CancelLookup
  <2>3. [job[w] EXCEPT !.pc = "looked", !.found = Refunded(job[w].req)] \in Job
    BY <2>1 DEF Job, Idle, Refunded, Recorded
  <2>4. TypeOK'
    BY <1>4, <2>1, <2>2, <2>3 DEF CancelLookup, TypeOK
  <2> QED BY <1>4, <2>1, <2>2, <2>4, QuietStep DEF CancelLookup, TypeOK
<1>5. ASSUME NEW w \in Workers, CancelCommit(w) PROVE IInv'
  <2>1. job[w].req \in Requests
    BY <1>5, <1>a DEF CancelCommit, Doing
  <2> QED BY <1>5, <2>1, RefundingStep DEF CancelCommit
<1>6. ASSUME NEW w \in Workers, RejectLookup(w) PROVE IInv'
  <2>1. job[w].req \in Requests /\ job[w] \in Job /\ job[w].op = "reject"
    BY <1>6, <1>a DEF RejectLookup, Doing, TypeOK
  <2>2. job' = [job EXCEPT ![w] = [@ EXCEPT !.pc = "looked", !.found = Refunded(job[w].req)]]
    BY <1>6 DEF RejectLookup
  <2>3. [job[w] EXCEPT !.pc = "looked", !.found = Refunded(job[w].req)] \in Job
    BY <2>1 DEF Job, Idle, Refunded, Recorded
  <2>4. TypeOK'
    BY <1>6, <2>1, <2>2, <2>3 DEF RejectLookup, TypeOK
  <2> QED BY <1>6, <2>1, <2>2, <2>4, QuietStep DEF RejectLookup, TypeOK
<1>7. ASSUME NEW w \in Workers, RejectLock(w) PROVE IInv'
  <2>1. job[w].req \in Requests /\ job[w] \in Job /\ job[w].op = "reject"
    BY <1>7, <1>a DEF RejectLock, Doing, TypeOK
  <2>2. [job[w] EXCEPT !.pc = "locked"] \in Job
    BY <2>1 DEF Job, Idle
  <2>3. TypeOK'
    BY <1>7, <2>1, <2>2, KeysType DEF RejectLock, TypeOK
  <2> QED BY <1>7, <2>1, <2>3, QuietStep DEF RejectLock, TypeOK
<1>8. ASSUME NEW w \in Workers, RejectCommit(w) PROVE IInv'
  <2>1. job[w].req \in Requests
    BY <1>8, <1>a DEF RejectCommit, Doing
  <2> QED BY <1>8, <2>1, RefundingStep DEF RejectCommit
<1>9. ASSUME NEW w \in Workers, End(w), UNCHANGED <<wallet, status>> PROVE IInv'
  <2>1. TypeOK'
    BY <1>9, EndType DEF TypeOK
  <2>2. \A u \in Workers : job'[u].found => job'[u] = job[u]
    BY <1>9, EndFound
  <2> QED BY <1>9, <2>1, <2>2, QuietStep
<1>10. ASSUME UNCHANGED vars PROVE IInv'
  <2>1. TypeOK'
    BY <1>10 DEF vars, TypeOK
  <2> QED BY <1>10, <2>1, QuietStep DEF vars
<1> QED
  BY <1>1, <1>2, <1>3, <1>4, <1>5, <1>6, <1>7, <1>8, <1>9, <1>10
     DEF Next, Step, UniqueViolation, DeadlockVictim

-----------------------------------------------------------------------------
(* An entry with a new key that the balance covers is a step of Ledger.    *)
LEMMA PostStep ==
  ASSUME NEW e, wallet'.ledger = wallet.ledger \cup {e},
         ~Recorded(wallet, e.key),
         wallet'.balance = [wallet.balance EXCEPT ![e.key.account] = @ + e.amount],
         wallet.balance[e.key.account] + e.amount >= 0
  PROVE  Promised!Next
<1>1. e \in wallet'.ledger \ wallet.ledger
  BY DEF Recorded
<1>2. Promised!Post(e)
  BY DEF Promised!Post, Promised!Postable, Promised!Posted, Recorded
<1> QED BY <1>1, <1>2 DEF Promised!Next

(* A commit that refunds is a step of Ledger, or books nothing.            *)
LEMMA RefundingPosts ==
  ASSUME IInv, NEW w \in Workers, NEW r \in Requests, job[w].req = r, ~Conflict(w),
         wallet' = Refunding(w, r)
  PROVE  Promised!Next \/ wallet' = wallet
<1>1. CASE job[w].found
  BY <1>1 DEF Refunding
<1>2. CASE ~job[w].found
  <2> DEFINE e == Entry(RefundKey(r), Amount[r])
  <2>1. wallet \in WalletType(Accounts, Requests)
    BY DEF IInv, TypeOK
  <2>2. RefundKey(r) \in Keys(Accounts, Requests) /\ RefundKey(r).account \in Accounts
        /\ Amount[r] \in Int /\ Amount[r] > 0
    BY KeysType
  <2>3. wallet' = Credited(wallet, RefundKey(r), Amount[r])
    BY <1>2 DEF Refunding
  <2>4. /\ wallet'.ledger = wallet.ledger \cup {e}
        /\ wallet'.balance = [wallet.balance EXCEPT ![RefundKey(r).account] = @ + Amount[r]]
    BY <2>1, <2>2, <2>3, CreditedFacts
  <2>5. e.key = RefundKey(r) /\ e.amount = Amount[r]
    BY DEF Entry
  <2>6. ~Recorded(wallet, e.key)
    BY <1>2, <2>5 DEF Conflict, Refunded
  <2>7. wallet.balance[e.key.account] \in Int /\ wallet.balance[e.key.account] >= 0
    BY <2>1, <2>2, <2>5 DEF WalletType, IInv, NeverOverdrawn
  <2>8. wallet.balance[e.key.account] + e.amount >= 0
    BY <2>2, <2>5, <2>7
  <2> HIDE DEF e
  <2> QED BY <2>4, <2>5, <2>6, <2>8, PostStep
<1> QED BY <1>1, <1>2

(* Every step books at most one new entry the balance covers.              *)
LEMMA NextLedger == IInv /\ [Next]_vars => [Promised!Next]_<<wallet.balance, wallet.ledger>>
<1> SUFFICES ASSUME IInv, [Next]_vars PROVE Promised!Next \/ wallet' = wallet
  OBVIOUS
<1>a. ASSUME NEW w \in Workers, job[w].op # "none" PROVE job[w].req \in Requests
  BY <1>a DEF IInv, TypeOK, Job, Idle
<1>1. ASSUME NEW r \in Requests, Create(r) PROVE Promised!Next
  <2> DEFINE e == Entry(WithdrawKey(r), -Amount[r])
  <2>1. wallet \in WalletType(Accounts, Requests)
    BY DEF IInv, TypeOK
  <2>2. WithdrawKey(r) \in Keys(Accounts, Requests) /\ WithdrawKey(r).account = Owner[r]
        /\ Owner[r] \in Accounts /\ Amount[r] \in Int /\ Amount[r] > 0
    BY KeysType
  <2>3. wallet' = Debited(wallet, WithdrawKey(r), Amount[r])
    BY <1>1 DEF Create
  <2>4. /\ wallet'.ledger = wallet.ledger \cup {e}
        /\ wallet'.balance = [wallet.balance EXCEPT ![WithdrawKey(r).account] = @ - Amount[r]]
    BY <2>1, <2>2, <2>3, DebitedFacts
  <2>5. e.key = WithdrawKey(r) /\ e.amount = -Amount[r]
    BY DEF Entry
  <2>6. ~Recorded(wallet, e.key)
    BY <1>1, <2>5 DEF Create, IInv, UnbornUnbooked
  <2>7. wallet.balance \in [Accounts -> Int] /\ wallet.balance[Owner[r]] >= Amount[r]
    BY <1>1, <2>1 DEF WalletType, Create, Covers
  <2>8. wallet'.balance = [wallet.balance EXCEPT ![e.key.account] = @ + e.amount]
    BY <2>2, <2>4, <2>5, <2>7
  <2>9. wallet.balance[e.key.account] + e.amount >= 0
    BY <2>2, <2>5, <2>7
  <2> HIDE DEF e
  <2> QED BY <2>4, <2>6, <2>8, <2>9, PostStep
<1>2. ASSUME NEW w \in Workers, CancelCommit(w) \/ RejectCommit(w)
      PROVE  Promised!Next \/ wallet' = wallet
  <2>1. job[w].req \in Requests
    BY <1>2, <1>a DEF CancelCommit, RejectCommit, Doing
  <2> QED BY <1>2, <2>1, RefundingPosts DEF CancelCommit, RejectCommit
<1> QED
  BY <1>1, <1>2 DEF Next, Step, vars, Check, ApproveCommit, CancelLookup, RejectLookup,
                    RejectLock, UniqueViolation, DeadlockVictim

-----------------------------------------------------------------------------
(* The requests that have been made, and those whose money is not back.    *)
Born == {r \in Requests : status[r] # "none"}

Held(a) == {r \in Requests : Owner[r] = a /\ status[r] # "none" /\ ~Refunded(r)}

(* However many identities there are, a state has made finitely many.      *)
FewBorn == IsFiniteSet(Born)

(* A handler works on a request that has been made.                        *)
JobsBorn ==
  \A w \in Workers : job[w].op # "none" => status[job[w].req] # "none"

(* A request that is not there yet has nothing to give back.               *)
UnbornUnrefunded ==
  \A r \in Requests : status[r] = "none" => ~Refunded(r)

MInv == FewBorn /\ JobsBorn /\ UnbornUnrefunded /\ Conservation

(* HeldOf is the sum of the amounts held.                                  *)
LEMMA HeldOfSum ==
  ASSUME NEW a
  PROVE  HeldOf(a) = SumOf(Amount, Held(a)) /\ HeldOf(a)' = SumOf(Amount, Held(a)')
<1>1. HeldOf(a) = SumOf(Amount, Held(a))
  BY DEF HeldOf, Held, SumOf, MapThenSumSet, MapThenFoldSet
<1>2. HeldOf(a)' = SumOf(Amount, Held(a)')
  BY DEF HeldOf, Held, SumOf, MapThenSumSet, MapThenFoldSet
<1> QED BY <1>1, <1>2

LEMMA HeldFinite ==
  ASSUME FewBorn, NEW a
  PROVE  IsFiniteSet(Held(a)) /\ Numbers(Amount, Held(a)) /\ HeldOf(a) \in Int
<1>1. Held(a) \subseteq Born
  BY DEF Held, Born
<1>2. IsFiniteSet(Held(a))
  BY <1>1, FS_Subset DEF FewBorn
<1>3. Numbers(Amount, Held(a))
  BY KeysType DEF Held, Numbers
<1> QED BY <1>2, <1>3, SumInt, HeldOfSum

(* Money that stays where it is.                                           *)
LEMMA MoneyStays ==
  ASSUME MInv, NEW a, Held(a)' = Held(a), wallet'.balance[a] = wallet.balance[a]
  PROVE  wallet'.balance[a] + HeldOf(a)' = wallet.balance[a] + HeldOf(a)
  BY HeldOfSum

(* A request takes its money out of the wallet ...                         *)
LEMMA MoneyLeaves ==
  ASSUME MInv, NEW r \in Requests, NEW a, wallet.balance[a] \in Int,
         r \notin Held(a), Held(a)' = Held(a) \cup {r},
         wallet'.balance[a] = wallet.balance[a] - Amount[r]
  PROVE  wallet'.balance[a] + HeldOf(a)' = wallet.balance[a] + HeldOf(a)
<1>1. Amount[r] \in Int
  BY KeysType
<1>2. IsFiniteSet(Held(a)) /\ Numbers(Amount, Held(a)) /\ HeldOf(a) \in Int
  BY HeldFinite DEF MInv
<1>3. HeldOf(a)' = Amount[r] + HeldOf(a)
  BY <1>1, <1>2, SumAdd, HeldOfSum
<1> QED BY <1>1, <1>2, <1>3

(* ... and a refund puts it back.                                          *)
LEMMA MoneyReturns ==
  ASSUME MInv, NEW r \in Requests, NEW a, wallet.balance[a] \in Int,
         r \in Held(a), Held(a)' = Held(a) \ {r},
         wallet'.balance[a] = wallet.balance[a] + Amount[r]
  PROVE  wallet'.balance[a] + HeldOf(a)' = wallet.balance[a] + HeldOf(a)
<1>1. Amount[r] \in Int
  BY KeysType
<1>2. IsFiniteSet(Held(a)) /\ Numbers(Amount, Held(a)) /\ HeldOf(a) \in Int
  BY HeldFinite DEF MInv
<1>3. IsFiniteSet(Held(a) \ {r}) /\ Numbers(Amount, Held(a) \ {r})
  BY <1>2, FS_Subset DEF Numbers
<1>4. HeldOf(a) = Amount[r] + HeldOf(a)'
  BY <1>2, SumRemove, HeldOfSum
<1>5. HeldOf(a)' \in Int
  BY <1>3, SumInt, HeldOfSum
<1> QED BY <1>1, <1>4, <1>5

LEMMA InitMInv == Init => MInv
<1> SUFFICES ASSUME Init PROVE MInv
  OBVIOUS
<1>1. Opening \in [Accounts -> Int] /\ \A a \in Accounts : Opening[a] \in Int
  BY ConstantsAssumption
<1>2. wallet.balance = Opening /\ \A k : ~Recorded(wallet, k)
  BY <1>1, OpenWalletType DEF Init
<1>3. Born = {} /\ \A a : Held(a) = {}
  BY DEF Init, Born, Held
<1>4. FewBorn
  BY <1>3, FS_EmptySet DEF FewBorn
<1>5. JobsBorn
  BY DEF Init, Idle, JobsBorn
<1>6. UnbornUnrefunded
  BY <1>2 DEF Refunded, UnbornUnrefunded
<1>7. \A a : HeldOf(a) = 0
  BY <1>3, SumEmpty, HeldOfSum
<1>8. Conservation
  BY <1>1, <1>2, <1>7 DEF Conservation
<1> QED BY <1>4, <1>5, <1>6, <1>8 DEF MInv

(* A step that makes no request and books nothing.                         *)
LEMMA QuietMoney ==
  ASSUME IInv, MInv, wallet' = wallet,
         \A r \in Requests : status'[r] = "none" <=> status[r] = "none",
         \A w \in Workers : job'[w].op # "none" => status[job'[w].req] # "none",
         \A w \in Workers : job'[w].op # "none" => job'[w].req \in Requests
  PROVE  MInv'
<1>1. Born' = Born /\ \A a : Held(a)' = Held(a)
  BY DEF Born, Held, Refunded
<1>2. FewBorn'
  BY <1>1 DEF MInv, FewBorn
<1>3. JobsBorn'
  BY DEF JobsBorn
<1>4. UnbornUnrefunded'
  BY DEF MInv, UnbornUnrefunded, Refunded
<1>5. Conservation'
  BY <1>1, MoneyStays DEF MInv, Conservation
<1> QED BY <1>2, <1>3, <1>4, <1>5 DEF MInv

(* A commit that refunds, the first time or again.                         *)
LEMMA RefundingMoney ==
  ASSUME IInv, MInv, NEW w \in Workers, NEW s \in {"cancelled", "rejected"},
         NEW r \in Requests, job[w].req = r, status[r] # "none", ~Conflict(w),
         wallet' = Refunding(w, r), status' = [status EXCEPT ![r] = s],
         \A u \in Workers : job'[u].op # "none" => job'[u] = job[u] /\ job[u].req \in Requests
  PROVE  MInv'
<1>1. \A q \in Requests : status'[q] = "none" <=> status[q] = "none"
  BY DEF IInv, TypeOK
<1>2. \A u \in Workers : job'[u].op # "none" =>
        job'[u].req \in Requests /\ status[job'[u].req] # "none"
  BY DEF MInv, JobsBorn
<1>3. CASE job[w].found
  BY <1>1, <1>2, <1>3, QuietMoney DEF Refunding
<1>4. CASE ~job[w].found
  <2>1. ~Refunded(r)
    BY <1>4 DEF Conflict
  <2>2. wallet.balance \in [Accounts -> Int] /\ wallet \in WalletType(Accounts, Requests)
    BY DEF IInv, TypeOK, WalletType
  <2>3. RefundKey(r) \in Keys(Accounts, Requests) /\ RefundKey(r).account = Owner[r]
        /\ Owner[r] \in Accounts /\ Amount[r] \in Int
    BY KeysType
  <2>4. /\ wallet'.balance = [wallet.balance EXCEPT ![Owner[r]] = @ + Amount[r]]
        /\ \A k : Recorded(wallet', k) <=> Recorded(wallet, k) \/ k = RefundKey(r)
    BY <1>4, <2>2, <2>3, CreditedFacts DEF Refunding
  <2>5. \A q \in Requests : Refunded(q)' <=> Refunded(q) \/ q = r
    BY <2>4 DEF Refunded, RefundKey, Key
  <2>6. Born' = Born
    BY <1>1 DEF Born
  <2>7. Held(Owner[r])' = Held(Owner[r]) \ {r} /\ r \in Held(Owner[r])
    BY <1>1, <2>1, <2>5 DEF Held
  <2>8. \A a : a # Owner[r] => Held(a)' = Held(a)
    BY <1>1, <2>5 DEF Held
  <2>9. FewBorn'
    BY <2>6 DEF MInv, FewBorn
  <2>10. JobsBorn'
    BY <1>1, <1>2 DEF JobsBorn
  <2>11. UnbornUnrefunded'
    BY <1>1, <2>5 DEF MInv, UnbornUnrefunded
  <2>12. Conservation'
    <3>1. ASSUME NEW a \in Accounts
          PROVE  wallet'.balance[a] + HeldOf(a)' = wallet.balance[a] + HeldOf(a)
      <4>1. CASE a = Owner[r]
        BY <2>2, <2>3, <2>4, <2>7, <4>1, MoneyReturns
      <4>2. CASE a # Owner[r]
        BY <2>2, <2>4, <2>8, <4>2, MoneyStays
      <4> QED BY <4>1, <4>2
    <3> QED BY <3>1 DEF MInv, Conservation
  <2> QED BY <2>9, <2>10, <2>11, <2>12 DEF MInv
<1> QED BY <1>3, <1>4

LEMMA NextMInv == IInv /\ MInv /\ [Next]_vars => MInv'
<1> SUFFICES ASSUME IInv, MInv, [Next]_vars PROVE MInv'
  OBVIOUS
<1>a. \A w \in Workers : job[w].op # "none" =>
        job[w].req \in Requests /\ status[job[w].req] # "none"
  BY DEF IInv, TypeOK, Job, Idle, MInv, JobsBorn
<1>b. ASSUME NEW w \in Workers, End(w)
      PROVE  \A u \in Workers : job'[u].op # "none" => job'[u] = job[u]
  BY <1>b DEF IInv, TypeOK, End, Idle
<1>1. ASSUME NEW r \in Requests, Create(r) PROVE MInv'
  <2>1. wallet.balance \in [Accounts -> Int] /\ wallet \in WalletType(Accounts, Requests)
        /\ status \in [Requests -> Statuses]
    BY DEF IInv, TypeOK, WalletType
  <2>2. /\ WithdrawKey(r) \in Keys(Accounts, Requests) /\ WithdrawKey(r).account = Owner[r]
        /\ Owner[r] \in Accounts /\ Amount[r] \in Int
        /\ \A q \in Requests : WithdrawKey(r) # RefundKey(q)
    BY KeysType
  <2>3. /\ wallet'.balance = [wallet.balance EXCEPT ![Owner[r]] = @ - Amount[r]]
        /\ \A k : Recorded(wallet', k) <=> Recorded(wallet, k) \/ k = WithdrawKey(r)
    BY <1>1, <2>1, <2>2, DebitedFacts DEF Create
  <2>4. \A q \in Requests : Refunded(q)' <=> Refunded(q)
    BY <2>2, <2>3 DEF Refunded
  <2>5. status[r] = "none" /\ ~Refunded(r)
    BY <1>1 DEF Create, MInv, UnbornUnrefunded
  <2>6. status'[r] # "none" /\ \A q \in Requests : q # r => status'[q] = status[q]
    BY <1>1, <2>1 DEF Create
  <2>7. Born' = Born \cup {r}
    BY <2>6 DEF Born
  <2>8. FewBorn'
    BY <2>7, FS_AddElement DEF MInv, FewBorn
  <2>9. JobsBorn'
    BY <1>1, <1>a, <2>6 DEF Create, JobsBorn
  <2>10. UnbornUnrefunded'
    BY <2>4, <2>6 DEF MInv, UnbornUnrefunded
  <2>11. r \notin Held(Owner[r]) /\ Held(Owner[r])' = Held(Owner[r]) \cup {r}
    BY <2>4, <2>5, <2>6 DEF Held
  <2>12. \A a : a # Owner[r] => Held(a)' = Held(a)
    BY <2>4, <2>6 DEF Held
  <2>13. Conservation'
    <3>1. ASSUME NEW a \in Accounts
          PROVE  wallet'.balance[a] + HeldOf(a)' = wallet.balance[a] + HeldOf(a)
      <4>1. CASE a = Owner[r]
        BY <2>1, <2>2, <2>3, <2>11, <4>1, MoneyLeaves
      <4>2. CASE a # Owner[r]
        BY <2>1, <2>3, <2>12, <4>2, MoneyStays
      <4> QED BY <4>1, <4>2
    <3> QED BY <3>1 DEF MInv, Conservation
  <2> QED BY <2>8, <2>9, <2>10, <2>13 DEF MInv
<1>2. ASSUME NEW w \in Workers, NEW op \in {"cancel", "approve", "reject"},
             NEW r \in Requests, Check(w, op, r)
      PROVE  MInv'
  <2>1. \A u \in Workers : job'[u].op # "none" =>
          job'[u].req \in Requests /\ status[job'[u].req] # "none"
    BY <1>2, <1>a DEF Check, IInv, TypeOK
  <2> QED BY <1>2, <2>1, QuietMoney DEF Check
<1>3. ASSUME NEW w \in Workers, ApproveCommit(w) PROVE MInv'
  <2>1. job[w].req \in Requests /\ status[job[w].req] # "none"
    BY <1>3, <1>a DEF ApproveCommit, Doing
  <2>2. \A q \in Requests : status'[q] = "none" <=> status[q] = "none"
    BY <1>3, <2>1 DEF ApproveCommit, IInv, TypeOK
  <2>3. \A u \in Workers : job'[u].op # "none" => job'[u] = job[u]
    BY <1>3, <1>b DEF ApproveCommit
  <2> QED BY <1>3, <1>a, <2>2, <2>3, QuietMoney DEF ApproveCommit
<1>4. ASSUME NEW w \in Workers, CancelLookup(w) \/ RejectLookup(w) \/ RejectLock(w)
      PROVE  MInv'
  <2>1. wallet' = wallet /\ status' = status
    BY <1>4 DEF CancelLookup, RejectLookup, RejectLock
  <2>2. \A u \in Workers : job'[u].op = job[u].op /\ job'[u].req = job[u].req
    <3>1. job \in [Workers -> Job] /\ job[w] \in Job /\ job[w].op # "none"
      BY <1>4 DEF IInv, TypeOK, CancelLookup, RejectLookup, RejectLock, Doing
    <3>2. job[w] \in [op : {"cancel", "approve", "reject"}, req : Requests,
                      pc : {"checked", "looked", "locked"}, found : BOOLEAN]
      BY <3>1 DEF Job, Idle
    <3> QED BY <1>4, <3>1, <3>2 DEF CancelLookup, RejectLookup, RejectLock
  <2> QED BY <1>a, <2>1, <2>2, QuietMoney
<1>5. ASSUME NEW w \in Workers, CancelCommit(w) \/ RejectCommit(w) PROVE MInv'
  <2>1. job[w].req \in Requests /\ status[job[w].req] # "none"
    BY <1>5, <1>a DEF CancelCommit, RejectCommit, Doing
  <2>2. \A u \in Workers : job'[u].op # "none" => job'[u] = job[u] /\ job[u].req \in Requests
    BY <1>5, <1>a, <1>b DEF CancelCommit, RejectCommit
  <2> QED BY <1>5, <2>1, <2>2, RefundingMoney DEF CancelCommit, RejectCommit
<1>6. ASSUME NEW w \in Workers, End(w), UNCHANGED <<wallet, status>> PROVE MInv'
  <2>1. \A u \in Workers : job'[u].op # "none" => job'[u] = job[u]
    BY <1>6, <1>b
  <2> QED BY <1>6, <1>a, <2>1, QuietMoney
<1>7. ASSUME UNCHANGED vars PROVE MInv'
  BY <1>7, <1>a, QuietMoney DEF vars
<1> QED
  BY <1>1, <1>2, <1>3, <1>4, <1>5, <1>6, <1>7
     DEF Next, Step, UniqueViolation, DeadlockVictim

-----------------------------------------------------------------------------
(* The types are right in every reachable state, for any constants.        *)
THEOREM TypeCorrect == Spec => []TypeOK
<1>1. IInv => TypeOK
  BY DEF IInv
<1> QED BY InitIInv, NextIInv, <1>1, PTL DEF Spec

(* No interleaving of withdrawal handlers overdraws a wallet: debit checks *)
(* the balance it changes under the row lock.                              *)
THEOREM WalletNeverOverdrawn == Spec => []NeverOverdrawn
<1>1. IInv => NeverOverdrawn
  BY DEF IInv
<1> QED BY InitIInv, NextIInv, <1>1, PTL DEF Spec

(* A request that ends as cancelled or rejected has its money back, even   *)
(* when both handlers ran on it at once.                                   *)
THEOREM ClosedRequestRefunded == Spec => []ClosedIsRefunded
<1>1. IInv => ClosedIsRefunded
  BY DEF IInv
<1> QED BY InitIInv, NextIInv, <1>1, PTL DEF Spec

(* Withdrawals implement the Ledger: whatever races, the ledger of each    *)
(* account is append-only, books a key once and accounts for the balance.  *)
THEOREM LedgerImplemented == Spec => ImplementsLedger
<1>1. Init => Promised!Init
  BY DEF Init, OpenWallet, Promised!Init
<1> QED BY InitIInv, NextIInv, NextLedger, <1>1, PTL DEF Spec, ImplementsLedger, Promised!Spec
(* No money is lost or made: for any finite or infinite supply of requests *)
(* and however their handlers race, a wallet and what is held out of it    *)
(* add up to what it opened with.                                          *)
THEOREM MoneyConserved == Spec => []Conservation
<1>1. MInv => Conservation
  BY DEF MInv
<1> QED BY InitIInv, NextIInv, InitMInv, NextMInv, <1>1, PTL DEF Spec
=============================================================================
