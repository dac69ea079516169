----------------------------- MODULE OrdersProofs -----------------------------
(***************************************************************************)
(* Orders and refunds for any accounts, plans, orders, workers and         *)
(* balances.  The argument has three parts.  A payment from the balance    *)
(* keeps the buyer's wallet locked from its check to its commit, so the    *)
(* balance it saw is still there (PayJobs).  Whether an order was charged, *)
(* granted or settled is decided by the ledger and by the order_grant row, *)
(* which only grow; the status is decided by whoever commits last and      *)
(* proves nothing (ApproveJobs, RefundedGranted).  And a grant happens     *)
(* once, under the lock of the order row (ConfirmJobs), so no commission   *)
(* appears after a refund has looked for it.                               *)
(***************************************************************************)
EXTENDS Orders, Lemmas

NeverOverdrawn == Solvent(wallet, Accounts)

PurchaseKey(o) == BuyerKey(o, "purchase")

(* An order is paid from the balance by one worker, which has not booked   *)
(* the purchase yet and holds the wallet once it has checked the balance.  *)
PayJobs ==
  \A w \in Workers : job[w].op = "pay" =>
    LET o == job[w].order IN
    /\ Method[o] = "balance"
    /\ status[o] # "none"
    /\ ~Recorded(wallet, PurchaseKey(o))
    /\ \A u \in Workers : job[u].op = "pay" /\ job[u].order = o => u = w
    /\ job[w].pc # "created" =>
         walletLock[Buyer[o]] = w /\ Covers(wallet, Buyer[o], Amount(o))

NotifyJobs ==
  \A w \in Workers : job[w].op = "notify" => Method[job[w].order] = "online"

(* What is being refunded has been granted; the recharge that is taken     *)
(* back is covered, and the wallet that pays a commission back is locked.  *)
Approving(w) ==
  LET o == job[w].order IN
  /\ o \in Bought => o \in grants
  /\ PlanType(o) = "balance" /\ job[w].pc # "checked" =>
       walletLock[Buyer[o]] = w /\ Covers(wallet, Buyer[o], Amount(o))
  /\ job[w].pc = "clawed" /\ HasCommission(wallet, o) => walletLock[Giver(o)] = w

ApproveJobs == \A w \in Workers : job[w].op = "approve" => Approving(w)

(* A confirmation keeps the order row, and grants what nobody has granted. *)
Confirming(w) ==
  LET o == job[w].order IN
  /\ job[w].pc \in {"granting", "granted"} => rowLock[o] = w
  /\ job[w].pc = "granted" /\ o \in Bought => o \notin grants

ConfirmJobs == \A w \in Workers : job[w].op \in {"pay", "notify"} => Confirming(w)

Jobs == PayJobs /\ NotifyJobs /\ ApproveJobs /\ ConfirmJobs

RefundedGranted == \A o \in Bought : status[o] = "refunded" => o \in grants

UnbornUnbooked ==
  \A o \in OrderIds : status[o] = "none" => ~Recorded(wallet, PurchaseKey(o))

IInv ==
  /\ TypeOK
  /\ NeverOverdrawn
  /\ Jobs
  /\ RefundedGranted
  /\ UnbornUnbooked
  /\ ChargedIffGranted
  /\ PaidIsGranted
  /\ RefundSettles

-----------------------------------------------------------------------------
(* The constants of an order are well typed.                               *)
LEMMA OrderType ==
  ASSUME NEW o \in OrderIds
  PROVE  /\ PlanOf[o] \in Plans
         /\ Buyer[o] \in Accounts
         /\ Amount(o) \in Nat
         /\ Grant[PlanOf[o]] \in Nat
         /\ Days[PlanOf[o]] \in Nat
         /\ Commission[PlanOf[o]] \in Nat
         /\ PlanType(o) \in PlanTypes
         /\ Method[o] \in {"balance", "online"}
         /\ PlanType(o) = "balance" => Method[o] = "online"
         /\ Giver(o) \in Accounts \cup {NoAccount}
         /\ Giver(o) # Buyer[o]
         /\ NoAccount \notin Accounts
  BY ConstantsAssumption DEF PlanType, Amount, Giver

(* Keys of different orders or of different types differ.                  *)
LEMMA OrderKeys ==
  ASSUME NEW o \in OrderIds, NEW t \in AmountTypes
  PROVE  /\ BuyerKey(o, t) \in Keys(Accounts, OrderIds)
         /\ Giver(o) # NoAccount => GiverKey(o, t) \in Keys(Accounts, OrderIds)
         /\ BuyerKey(o, t).account = Buyer[o] /\ GiverKey(o, t).account = Giver(o)
         /\ \A q, s : BuyerKey(o, t) = BuyerKey(q, s) => o = q /\ t = s
         /\ \A q, s : BuyerKey(o, t) = GiverKey(q, s) => o = q /\ t = s
         /\ \A q, s : GiverKey(o, t) = GiverKey(q, s) => o = q /\ t = s
  BY OrderType DEF BuyerKey, GiverKey, Key, Keys

(* One or two entries posted one after the other are a step of Ledger.     *)
LEMMA TwoPosts ==
  ASSUME NEW v, Posts(wallet, v), Posts(v, wallet')
  PROVE  [Promised!Next]_<<wallet.balance, wallet.ledger>>
<1>1. CASE v = wallet /\ wallet' = v
  BY <1>1
<1>2. ASSUME NEW e, NEW u, NEW x,
             x.ledger = u.ledger \cup {e}, ~Recorded(u, e.key),
             x.balance = [u.balance EXCEPT ![e.key.account] = @ + e.amount],
             u.balance[e.key.account] + e.amount >= 0,
             u = wallet, x = wallet'
      PROVE  Promised!Next
  <2>1. e \in wallet'.ledger \ wallet.ledger
    BY <1>2 DEF Recorded
  <2>2. Promised!Post(e)
    BY <1>2 DEF Promised!Post, Promised!Postable, Promised!Posted, Recorded
  <2> QED BY <2>1, <2>2 DEF Promised!Next
<1>3. ASSUME NEW e, NEW f,
             v.ledger = wallet.ledger \cup {e}, ~Recorded(wallet, e.key),
             v.balance = [wallet.balance EXCEPT ![e.key.account] = @ + e.amount],
             wallet.balance[e.key.account] + e.amount >= 0,
             wallet'.ledger = v.ledger \cup {f}, ~Recorded(v, f.key),
             wallet'.balance = [v.balance EXCEPT ![f.key.account] = @ + f.amount],
             v.balance[f.key.account] + f.amount >= 0
      PROVE  Promised!Next
  <2>1. e \in wallet'.ledger \ wallet.ledger /\ f \in wallet'.ledger \ wallet.ledger
    BY <1>3 DEF Recorded
  <2>2. Promised!PostTwo(e, f)
    BY <1>3 DEF Promised!PostTwo, Promised!Postable, Promised!Posted, Recorded
  <2> QED BY <2>1, <2>2 DEF Promised!Next
<1>4. CASE v = wallet /\ wallet' # v
  BY <1>2, <1>4 DEF Posts
<1>5. CASE v # wallet /\ wallet' = v
  BY <1>2, <1>5 DEF Posts
<1>6. CASE v # wallet /\ wallet' # v
  BY <1>3, <1>6 DEF Posts
<1> QED BY <1>1, <1>4, <1>5, <1>6

-----------------------------------------------------------------------------
(* The entries the commit of a confirmation may add.                       *)
ConfirmEntry(o, k) ==
  \/ k = PurchaseKey(o) /\ Method[o] = "balance" /\ Amount(o) > 0
  \/ k = BuyerKey(o, "recharge") /\ PlanType(o) = "balance"
  \/ k = GiverKey(o, "commission") /\ EarnsCommission(o)

(* A purchase from the balance: one debit that was covered, or nothing.    *)
LEMMA PurchasedFacts ==
  ASSUME NEW o \in OrderIds, NEW v \in WalletType(Accounts, OrderIds), Solvent(v, Accounts),
         Method[o] = "balance" /\ Amount(o) > 0 =>
           ~Recorded(v, PurchaseKey(o)) /\ Covers(v, Buyer[o], Amount(o))
  PROVE  /\ Purchased(v, o) \in WalletType(Accounts, OrderIds)
         /\ Solvent(Purchased(v, o), Accounts)
         /\ Posts(v, Purchased(v, o))
         /\ \A k : Recorded(Purchased(v, o), k) <=>
              Recorded(v, k) \/ (k = PurchaseKey(o) /\ Method[o] = "balance" /\ Amount(o) > 0)
         /\ \A a \in Accounts :
              a # Buyer[o] \/ Method[o] # "balance" => Purchased(v, o).balance[a] >= v.balance[a]
<1>1. v.balance \in [Accounts -> Int]
  BY DEF WalletType
<1>2. CASE ~(Method[o] = "balance" /\ Amount(o) > 0)
  <2>1. Purchased(v, o) = v
    BY <1>2 DEF Purchased
  <2>2. Posts(v, v) /\ \A a \in Accounts : v.balance[a] >= v.balance[a]
    BY <1>1, PostsNothing
  <2> QED BY <1>2, <2>1, <2>2
<1>3. CASE Method[o] = "balance" /\ Amount(o) > 0
  <2>1. Purchased(v, o) = Debited(v, PurchaseKey(o), Amount(o))
    BY <1>3 DEF Purchased, PurchaseKey
  <2>2. PurchaseKey(o) \in Keys(Accounts, OrderIds) /\ PurchaseKey(o).account = Buyer[o]
        /\ Amount(o) \in Nat /\ Amount(o) \in Int
    BY OrderKeys, OrderType DEF PurchaseKey, AmountTypes
  <2>3. /\ Posts(v, Debited(v, PurchaseKey(o), Amount(o)))
        /\ Solvent(Debited(v, PurchaseKey(o), Amount(o)), Accounts)
        /\ \A a \in Accounts : a # PurchaseKey(o).account =>
             Debited(v, PurchaseKey(o), Amount(o)).balance[a] = v.balance[a]
    BY <1>3, <2>2, DebitPosts
  <2>4. /\ Debited(v, PurchaseKey(o), Amount(o)) \in WalletType(Accounts, OrderIds)
        /\ \A j : Recorded(Debited(v, PurchaseKey(o), Amount(o)), j)
                  <=> Recorded(v, j) \/ j = PurchaseKey(o)
    BY <2>2, DebitedFacts
  <2>5. PurchaseKey(o).account = Buyer[o]
    BY <2>2
  <2> HIDE DEF PurchaseKey
  <2>6. \A a \in Accounts : a # Buyer[o] => Purchased(v, o).balance[a] >= v.balance[a]
    BY <1>1, <2>1, <2>3, <2>5
  <2> QED BY <1>3, <2>1, <2>3, <2>4, <2>6
<1> QED BY <1>2, <1>3

(* A recharge: one credit, unless it is booked already.                    *)
LEMMA RechargedFacts ==
  ASSUME NEW o \in OrderIds, NEW v \in WalletType(Accounts, OrderIds), Solvent(v, Accounts)
  PROVE  /\ Recharged(v, o) \in WalletType(Accounts, OrderIds)
         /\ Solvent(Recharged(v, o), Accounts)
         /\ Posts(v, Recharged(v, o))
         /\ \A k : Recorded(Recharged(v, o), k) <=>
              Recorded(v, k) \/ (k = BuyerKey(o, "recharge") /\ PlanType(o) = "balance")
         /\ \A a \in Accounts : Recharged(v, o).balance[a] >= v.balance[a]
<1> DEFINE k == BuyerKey(o, "recharge")
<1>1. v.balance \in [Accounts -> Int]
  BY DEF WalletType
<1>2. CASE ~(PlanType(o) = "balance" /\ ~Recorded(v, k))
  <2>1. Recharged(v, o) = v
    BY <1>2 DEF Recharged
  <2>2. Posts(v, v) /\ \A a \in Accounts : v.balance[a] >= v.balance[a]
    BY <1>1, PostsNothing
  <2> QED BY <1>2, <2>1, <2>2
<1>3. CASE PlanType(o) = "balance" /\ ~Recorded(v, k)
  <2>1. Recharged(v, o) = Credited(v, k, Amount(o))
    BY <1>3 DEF Recharged
  <2>2. k \in Keys(Accounts, OrderIds) /\ Amount(o) \in Nat /\ Amount(o) \in Int
    BY OrderKeys, OrderType DEF AmountTypes
  <2> HIDE DEF k
  <2>3. /\ Posts(v, Credited(v, k, Amount(o)))
        /\ Solvent(Credited(v, k, Amount(o)), Accounts)
        /\ \A a \in Accounts : Credited(v, k, Amount(o)).balance[a] >= v.balance[a]
    BY <1>3, <2>2, CreditPosts
  <2>4. /\ Credited(v, k, Amount(o)) \in WalletType(Accounts, OrderIds)
        /\ \A j : Recorded(Credited(v, k, Amount(o)), j) <=> Recorded(v, j) \/ j = k
    BY <2>2, CreditedFacts
  <2> QED BY <1>3, <2>1, <2>3, <2>4 DEF k
<1> QED BY <1>2, <1>3

(* A commission: one credit of the inviter, unless it is booked already.   *)
LEMMA CommissionedFacts ==
  ASSUME NEW o \in OrderIds, NEW v \in WalletType(Accounts, OrderIds), Solvent(v, Accounts)
  PROVE  /\ Commissioned(v, o) \in WalletType(Accounts, OrderIds)
         /\ Solvent(Commissioned(v, o), Accounts)
         /\ Posts(v, Commissioned(v, o))
         /\ \A k : Recorded(v, k) => Recorded(Commissioned(v, o), k)
         /\ \A k : Recorded(Commissioned(v, o), k) =>
              Recorded(v, k) \/ (k = GiverKey(o, "commission") /\ EarnsCommission(o))
         /\ \A a \in Accounts : Commissioned(v, o).balance[a] >= v.balance[a]
         /\ ~EarnsCommission(o) => Commissioned(v, o) = v
<1> DEFINE k == GiverKey(o, "commission")
           m == Commission[PlanOf[o]]
<1>1. v.balance \in [Accounts -> Int]
  BY DEF WalletType
<1>2. CASE ~(EarnsCommission(o) /\ m > 0 /\ ~Recorded(v, k))
  <2>1. Commissioned(v, o) = v
    BY <1>2 DEF Commissioned
  <2>2. Posts(v, v) /\ \A a \in Accounts : v.balance[a] >= v.balance[a]
    BY <1>1, PostsNothing
  <2> QED BY <1>2, <2>1, <2>2
<1>3. CASE EarnsCommission(o) /\ m > 0 /\ ~Recorded(v, k)
  <2>1. Commissioned(v, o) = Credited(v, k, m)
    BY <1>3 DEF Commissioned
  <2>2. k \in Keys(Accounts, OrderIds) /\ m \in Nat /\ m \in Int
    BY <1>3, OrderKeys, OrderType DEF AmountTypes, EarnsCommission
  <2> HIDE DEF k, m
  <2>3. /\ Posts(v, Credited(v, k, m))
        /\ Solvent(Credited(v, k, m), Accounts)
        /\ \A a \in Accounts : Credited(v, k, m).balance[a] >= v.balance[a]
    BY <1>3, <2>2, CreditPosts
  <2>4. /\ Credited(v, k, m) \in WalletType(Accounts, OrderIds)
        /\ \A j : Recorded(Credited(v, k, m), j) <=> Recorded(v, j) \/ j = k
    BY <2>2, CreditedFacts
  <2> QED BY <1>3, <2>1, <2>3, <2>4 DEF k
<1> QED BY <1>2, <1>3

(* What the commit of a confirmation does to the wallet.                   *)
LEMMA ConfirmWallet ==
  ASSUME IInv, NEW w \in Workers, ConfirmCommit(w),
         NEW o \in OrderIds, o = job[w].order
  PROVE  /\ wallet' \in WalletType(Accounts, OrderIds)
         /\ NeverOverdrawn'
         /\ [Promised!Next]_<<wallet.balance, wallet.ledger>>
         /\ \A k : Recorded(wallet, k) => Recorded(wallet', k)
         /\ \A k : Recorded(wallet', k) => Recorded(wallet, k) \/ ConfirmEntry(o, k)
         /\ Method[o] = "balance" /\ Amount(o) > 0 => Recorded(wallet', PurchaseKey(o))
         /\ \A a \in Accounts :
              a # Buyer[o] \/ Method[o] # "balance" => wallet'.balance[a] >= wallet.balance[a]
<1> DEFINE v1 == Purchased(wallet, o)
           v2 == Recharged(v1, o)
           v3 == Commissioned(v2, o)
<1>1. wallet' = v3
  BY DEF ConfirmCommit
<1>2. wallet \in WalletType(Accounts, OrderIds) /\ Solvent(wallet, Accounts)
  BY DEF IInv, TypeOK, NeverOverdrawn
<1>3. \/ job[w].op = "pay" /\ job[w].pc = "granted"
      \/ job[w].op = "notify"
  BY DEF ConfirmCommit, Doing
<1>4. Method[o] = "balance" => ~Recorded(wallet, PurchaseKey(o)) /\ Covers(wallet, Buyer[o], Amount(o))
  BY <1>3 DEF IInv, Jobs, PayJobs, NotifyJobs
<1>5. /\ v1 \in WalletType(Accounts, OrderIds)
      /\ Solvent(v1, Accounts)
      /\ Posts(wallet, v1)
      /\ \A k : Recorded(v1, k) <=>
           Recorded(wallet, k) \/ (k = PurchaseKey(o) /\ Method[o] = "balance" /\ Amount(o) > 0)
      /\ \A a \in Accounts :
           a # Buyer[o] \/ Method[o] # "balance" => v1.balance[a] >= wallet.balance[a]
  BY <1>2, <1>4, PurchasedFacts
<1>6. PlanType(o) = "balance" => v1 = wallet
  BY OrderType DEF Purchased
<1>7. PlanType(o) # "balance" => v2 = v1
  BY DEF Recharged
<1> HIDE DEF v1
<1>8. /\ v2 \in WalletType(Accounts, OrderIds)
      /\ Solvent(v2, Accounts)
      /\ Posts(v1, v2)
      /\ \A k : Recorded(v2, k) <=>
           Recorded(v1, k) \/ (k = BuyerKey(o, "recharge") /\ PlanType(o) = "balance")
      /\ \A a \in Accounts : v2.balance[a] >= v1.balance[a]
  BY <1>5, RechargedFacts
<1> HIDE DEF v2
<1>9. /\ v3 \in WalletType(Accounts, OrderIds)
      /\ Solvent(v3, Accounts)
      /\ Posts(v2, v3)
      /\ \A k : Recorded(v2, k) => Recorded(v3, k)
      /\ \A k : Recorded(v3, k) =>
           Recorded(v2, k) \/ (k = GiverKey(o, "commission") /\ EarnsCommission(o))
      /\ \A a \in Accounts : v3.balance[a] >= v2.balance[a]
  BY <1>8, CommissionedFacts
<1> HIDE DEF v3
<1>10. Posts(wallet, v2)
  BY <1>5, <1>6, <1>7, <1>8
<1>11. [Promised!Next]_<<wallet.balance, wallet.ledger>>
  BY <1>1, <1>9, <1>10, TwoPosts
<1>12. \A k : Recorded(wallet, k) => Recorded(wallet', k)
  BY <1>1, <1>5, <1>8, <1>9
<1>13. \A k : Recorded(wallet', k) => Recorded(wallet, k) \/ ConfirmEntry(o, k)
  BY <1>1, <1>5, <1>8, <1>9 DEF ConfirmEntry
<1>14. Method[o] = "balance" /\ Amount(o) > 0 => Recorded(wallet', PurchaseKey(o))
  BY <1>1, <1>5, <1>8, <1>9
<1>15. ASSUME NEW a \in Accounts, a # Buyer[o] \/ Method[o] # "balance"
       PROVE  wallet'.balance[a] >= wallet.balance[a]
  <2>1. wallet.balance[a] \in Int /\ v1.balance[a] \in Int /\ v2.balance[a] \in Int
        /\ v3.balance[a] \in Int
    BY <1>2, <1>5, <1>8, <1>9 DEF WalletType
  <2>2. v1.balance[a] >= wallet.balance[a] /\ v2.balance[a] >= v1.balance[a]
        /\ v3.balance[a] >= v2.balance[a]
    BY <1>5, <1>8, <1>9, <1>15
  <2> QED BY <1>1, <2>1, <2>2
<1> QED BY <1>1, <1>9, <1>11, <1>12, <1>13, <1>14, <1>15 DEF NeverOverdrawn

-----------------------------------------------------------------------------
(* The funds of a refund: one covered debit, one credit, or nothing.       *)
LEMMA FundsFacts ==
  ASSUME NEW o \in OrderIds, NEW v \in WalletType(Accounts, OrderIds), Solvent(v, Accounts),
         PlanType(o) = "balance" =>
           Covers(v, Buyer[o], Amount(o)) /\ ~Recorded(v, BuyerKey(o, "refund"))
  PROVE  /\ FundsRefunded(v, o) \in WalletType(Accounts, OrderIds)
         /\ Solvent(FundsRefunded(v, o), Accounts)
         /\ Posts(v, FundsRefunded(v, o))
         /\ \A k : Recorded(v, k) => Recorded(FundsRefunded(v, o), k)
         /\ \A k : Recorded(FundsRefunded(v, o), k) =>
              Recorded(v, k) \/ k = BuyerKey(o, "refund")
         /\ Method[o] = "balance" => Recorded(FundsRefunded(v, o), BuyerKey(o, "refund"))
         /\ \A a \in Accounts :
              a # Buyer[o] \/ PlanType(o) # "balance" =>
                FundsRefunded(v, o).balance[a] >= v.balance[a]
<1> DEFINE k == BuyerKey(o, "refund")
           w == FundsRefunded(v, o)
<1>1. v.balance \in [Accounts -> Int] /\ \A a \in Accounts : v.balance[a] >= v.balance[a]
  BY DEF WalletType
<1>2. k \in Keys(Accounts, OrderIds) /\ k.account = Buyer[o] /\ Buyer[o] \in Accounts
      /\ Amount(o) \in Nat /\ Amount(o) \in Int
  BY OrderKeys, OrderType DEF AmountTypes
<1>3. CASE PlanType(o) = "balance"
  <2>1. w = Debited(v, k, Amount(o)) /\ Method[o] # "balance"
    BY <1>3, OrderType DEF FundsRefunded
  <2>2. ~Recorded(v, k) /\ Covers(v, k.account, Amount(o))
    BY <1>2, <1>3
  <2> HIDE DEF k, w
  <2>3. /\ Posts(v, w)
        /\ Solvent(w, Accounts)
        /\ \A a \in Accounts : a # k.account => w.balance[a] = v.balance[a]
    BY <1>2, <2>1, <2>2, DebitPosts
  <2>4. /\ w \in WalletType(Accounts, OrderIds)
        /\ \A j : Recorded(w, j) <=> Recorded(v, j) \/ j = k
    <3>1. /\ Debited(v, k, Amount(o)) \in WalletType(Accounts, OrderIds)
          /\ \A j : Recorded(Debited(v, k, Amount(o)), j) <=> Recorded(v, j) \/ j = k
      BY <1>2, DebitedFacts
    <3> QED BY <2>1, <3>1
  <2> QED BY <1>1, <1>2, <1>3, <2>1, <2>3, <2>4 DEF k, w
<1>4. CASE PlanType(o) # "balance" /\ Method[o] = "balance" /\ ~Recorded(v, k)
  <2>1. w = Credited(v, k, Amount(o))
    BY <1>4 DEF FundsRefunded
  <2>2. ~Recorded(v, k)
    BY <1>4
  <2> HIDE DEF k, w
  <2>3. /\ Posts(v, w)
        /\ Solvent(w, Accounts)
        /\ \A a \in Accounts : w.balance[a] >= v.balance[a]
    BY <1>2, <2>1, <2>2, CreditPosts
  <2>4. /\ w \in WalletType(Accounts, OrderIds)
        /\ \A j : Recorded(w, j) <=> Recorded(v, j) \/ j = k
    BY <1>2, <2>1, CreditedFacts
  <2> QED BY <2>3, <2>4 DEF k, w
<1>5. CASE PlanType(o) # "balance" /\ (Method[o] # "balance" \/ Recorded(v, k))
  <2>1. w = v
    BY <1>5 DEF FundsRefunded
  <2>2. Posts(v, v)
    BY PostsNothing
  <2> QED BY <1>1, <1>5, <2>1, <2>2
<1> QED BY <1>3, <1>4, <1>5

(* The commission taken back: one covered debit, or nothing.               *)
LEMMA ClawbackFacts ==
  ASSUME NEW o \in OrderIds, NEW v \in WalletType(Accounts, OrderIds), Solvent(v, Accounts),
         HasCommission(v, o) /\ CanClawback(v, o) => ~Recorded(v, GiverKey(o, "refund"))
  PROVE  /\ ClawedBack(v, o) \in WalletType(Accounts, OrderIds)
         /\ Solvent(ClawedBack(v, o), Accounts)
         /\ Posts(v, ClawedBack(v, o))
         /\ \A k : Recorded(v, k) => Recorded(ClawedBack(v, o), k)
         /\ \A k : Recorded(ClawedBack(v, o), k) =>
              Recorded(v, k) \/ (k = GiverKey(o, "refund") /\ HasCommission(v, o))
         /\ HasCommission(v, o) /\ CanClawback(v, o) =>
              Recorded(ClawedBack(v, o), GiverKey(o, "refund"))
         /\ \A a \in Accounts :
              a # Giver(o) \/ ~HasCommission(v, o) => ClawedBack(v, o).balance[a] >= v.balance[a]
<1> DEFINE k == GiverKey(o, "refund")
           m == Commission[PlanOf[o]]
           w == ClawedBack(v, o)
<1>1. v.balance \in [Accounts -> Int] /\ \A a \in Accounts : v.balance[a] >= v.balance[a]
  BY DEF WalletType
<1>2. CASE HasCommission(v, o) /\ CanClawback(v, o)
  <2>1. w = Debited(v, k, m)
    BY <1>2 DEF ClawedBack
  <2>2. k \in Keys(Accounts, OrderIds) /\ k.account = Giver(o) /\ m \in Nat /\ m \in Int
    BY <1>2, OrderKeys, OrderType DEF AmountTypes, HasCommission
  <2>3. ~Recorded(v, k) /\ Covers(v, k.account, m)
    BY <1>2, <2>2 DEF CanClawback
  <2> HIDE DEF k, w, m
  <2>4. /\ Posts(v, w)
        /\ Solvent(w, Accounts)
        /\ \A a \in Accounts : a # k.account => w.balance[a] = v.balance[a]
    BY <2>1, <2>2, <2>3, DebitPosts
  <2>5. /\ w \in WalletType(Accounts, OrderIds)
        /\ \A j : Recorded(w, j) <=> Recorded(v, j) \/ j = k
    BY <2>1, <2>2, DebitedFacts
  <2> QED BY <1>1, <1>2, <2>2, <2>4, <2>5 DEF k, w
<1>3. CASE ~(HasCommission(v, o) /\ CanClawback(v, o))
  <2>1. w = v
    BY <1>3 DEF ClawedBack
  <2>2. Posts(v, v)
    BY PostsNothing
  <2> QED BY <1>1, <1>3, <2>1, <2>2
<1> QED BY <1>2, <1>3

(* What the commit of an approval does to the wallet.                      *)
LEMMA ApproveWallet ==
  ASSUME IInv, NEW w \in Workers, ApproveCommit(w),
         NEW o \in OrderIds, o = job[w].order
  PROVE  /\ wallet' \in WalletType(Accounts, OrderIds)
         /\ NeverOverdrawn'
         /\ [Promised!Next]_<<wallet.balance, wallet.ledger>>
         /\ \A k : Recorded(wallet, k) => Recorded(wallet', k)
         /\ \A k : Recorded(wallet', k) =>
              Recorded(wallet, k) \/ k = BuyerKey(o, "refund") \/ k = GiverKey(o, "refund")
         /\ Method[o] = "balance" => Recorded(wallet', BuyerKey(o, "refund"))
         /\ status'[o] = "refunded" /\ o \in Bought /\ Recorded(wallet', GiverKey(o, "commission"))
              /\ Giver(o) # NoAccount => Recorded(wallet', GiverKey(o, "refund"))
         /\ \A a \in Accounts :
              wallet'.balance[a] >= wallet.balance[a] \/ walletLock[a] = w
<1> DEFINE v == FundsRefunded(wallet, o)
           x == ClawedBack(v, o)
<1>1. wallet \in WalletType(Accounts, OrderIds) /\ Solvent(wallet, Accounts)
  BY DEF IInv, TypeOK, NeverOverdrawn
<1>2. PlanType(o) = "balance" =>
        Covers(wallet, Buyer[o], Amount(o)) /\ ~Recorded(wallet, BuyerKey(o, "refund"))
  <2>1. job[w].op = "approve" /\ (job[w].pc = "clawed" \/ job[w].pc = "funded")
    BY DEF ApproveCommit, AtCommit, Doing
  <2>2. PlanType(o) = "balance" => Covers(wallet, Buyer[o], Amount(o))
    BY <2>1 DEF IInv, Jobs, ApproveJobs, Approving
  <2>3. PlanType(o) = "balance" => ~Recorded(wallet, BuyerKey(o, "refund"))
    BY DEF ApproveCommit, CommitConflict, GivenBack
  <2> QED BY <2>2, <2>3
<1>3. /\ v \in WalletType(Accounts, OrderIds)
      /\ Solvent(v, Accounts)
      /\ Posts(wallet, v)
      /\ \A k : Recorded(wallet, k) => Recorded(v, k)
      /\ \A k : Recorded(v, k) => Recorded(wallet, k) \/ k = BuyerKey(o, "refund")
      /\ Method[o] = "balance" => Recorded(v, BuyerKey(o, "refund"))
      /\ \A a \in Accounts :
           a # Buyer[o] \/ PlanType(o) # "balance" => v.balance[a] >= wallet.balance[a]
  BY <1>1, <1>2, FundsFacts
<1>4. HasCommission(v, o) <=> HasCommission(wallet, o)
  BY <1>3, OrderKeys DEF HasCommission, AmountTypes
<1>5. CASE PlanType(o) = "balance"
  <2>1. wallet' = v
    BY <1>5 DEF ApproveCommit
  <2>2. [Promised!Next]_<<wallet.balance, wallet.ledger>>
    <3>1. Posts(v, wallet')
      BY <2>1, PostsNothing
    <3> QED BY <1>3, <3>1, TwoPosts
  <2>3. o \notin Bought
    BY <1>5 DEF Bought
  <2>4. walletLock[Buyer[o]] = w
    BY <1>5 DEF ApproveCommit, AtCommit, Doing, IInv, Jobs, ApproveJobs, Approving
  <2> HIDE DEF v
  <2> QED BY <1>3, <2>1, <2>2, <2>3, <2>4 DEF NeverOverdrawn
<1>6. CASE PlanType(o) # "balance"
  <2>1. wallet' = x
    BY <1>6 DEF ApproveCommit
  <2>2. HasCommission(v, o) /\ CanClawback(v, o) => ~Recorded(v, GiverKey(o, "refund"))
    BY <1>6 DEF ApproveCommit, CommitConflict
  <2>3. status'[o] = "refunded" => ~(HasCommission(v, o) /\ ~CanClawback(v, o))
    BY <1>6 DEF ApproveCommit, OnHold, IInv, TypeOK
  <2>4. HasCommission(wallet, o) => walletLock[Giver(o)] = w
    BY <1>6 DEF ApproveCommit, AtCommit, Doing, IInv, Jobs, ApproveJobs, Approving
  <2> HIDE DEF v
  <2>5. /\ x \in WalletType(Accounts, OrderIds)
        /\ Solvent(x, Accounts)
        /\ Posts(v, x)
        /\ \A k : Recorded(v, k) => Recorded(x, k)
        /\ \A k : Recorded(x, k) =>
             Recorded(v, k) \/ (k = GiverKey(o, "refund") /\ HasCommission(v, o))
        /\ HasCommission(v, o) /\ CanClawback(v, o) => Recorded(x, GiverKey(o, "refund"))
        /\ \A a \in Accounts :
             a # Giver(o) \/ ~HasCommission(v, o) => x.balance[a] >= v.balance[a]
    BY <1>3, <2>2, ClawbackFacts
  <2> HIDE DEF x
  <2>6. [Promised!Next]_<<wallet.balance, wallet.ledger>>
    BY <1>3, <2>1, <2>5, TwoPosts
  <2>7. Recorded(x, GiverKey(o, "commission")) => Recorded(v, GiverKey(o, "commission"))
    BY <2>5, OrderKeys DEF AmountTypes
  <2>8. status'[o] = "refunded" /\ o \in Bought /\ Recorded(wallet', GiverKey(o, "commission"))
          /\ Giver(o) # NoAccount => Recorded(wallet', GiverKey(o, "refund"))
    BY <2>1, <2>3, <2>5, <2>7 DEF HasCommission
  <2>9. ASSUME NEW a \in Accounts
        PROVE  wallet'.balance[a] >= wallet.balance[a] \/ walletLock[a] = w
    <3>1. wallet.balance[a] \in Int /\ v.balance[a] \in Int /\ x.balance[a] \in Int
      BY <1>1, <1>3, <2>5 DEF WalletType
    <3>2. v.balance[a] >= wallet.balance[a]
      BY <1>3, <1>6
    <3>3. CASE a # Giver(o) \/ ~HasCommission(v, o)
      BY <2>1, <2>5, <3>1, <3>2, <3>3
    <3>4. CASE a = Giver(o) /\ HasCommission(v, o)
      BY <1>4, <2>4, <3>4
    <3> QED BY <3>3, <3>4
  <2> QED BY <1>3, <2>1, <2>5, <2>6, <2>8, <2>9 DEF NeverOverdrawn
<1> QED BY <1>5, <1>6

-----------------------------------------------------------------------------
(* The end of a transaction keeps locks and jobs well typed, leaves the    *)
(* other workers alone and frees only the locks of w.                      *)
LEMMA EndFacts ==
  ASSUME TypeOK, NEW w \in Workers, End(w)
  PROVE  /\ rowLock' \in [OrderIds -> Workers \cup {NoWorker}]
         /\ walletLock' \in [Accounts -> Workers \cup {NoWorker}]
         /\ creditLock' \in [Accounts -> Workers \cup {NoWorker}]
         /\ job' \in [Workers -> Job]
         /\ job'[w] = Idle
         /\ \A u \in Workers \ {w} : job'[u] = job[u]
         /\ \A a \in Accounts : walletLock[a] # w => walletLock'[a] = walletLock[a]
         /\ \A o \in OrderIds : rowLock[o] # w => rowLock'[o] = rowLock[o]
<1>1. Idle \in Job
  BY DEF Job
<1> QED BY <1>1 DEF TypeOK, End, Released

(* A statement that is granted its locks takes no lock of anybody else.    *)
LEMMA LockFacts ==
  ASSUME TypeOK, NEW w \in Workers, Lock(w), job[w] # Idle
  PROVE  /\ rowLock' \in [OrderIds -> Workers \cup {NoWorker}]
         /\ walletLock' \in [Accounts -> Workers \cup {NoWorker}]
         /\ creditLock' \in [Accounts -> Workers \cup {NoWorker}]
         /\ \A a \in Accounts : walletLock[a] \notin {NoWorker, w} => walletLock'[a] = walletLock[a]
         /\ \A o \in OrderIds : rowLock[o] \notin {NoWorker, w} => rowLock'[o] = rowLock[o]
         /\ \A a \in Accounts : WantsWallet(w, a) \/ walletLock[a] = w => walletLock'[a] = w
         /\ \A o \in OrderIds : WantsRow(w, o) \/ rowLock[o] = w => rowLock'[o] = w
<1>1. /\ walletLock' = [a \in Accounts |-> IF WantsWallet(w, a) THEN w ELSE walletLock[a]]
      /\ creditLock' = [a \in Accounts |-> IF WantsCredits(w, a) THEN w ELSE creditLock[a]]
      /\ rowLock' = [o \in OrderIds |-> IF WantsRow(w, o) THEN w ELSE rowLock[o]]
      /\ ~Blocked(w)
  BY DEF Lock
<1>2. /\ rowLock \in [OrderIds -> Workers \cup {NoWorker}]
      /\ walletLock \in [Accounts -> Workers \cup {NoWorker}]
      /\ creditLock \in [Accounts -> Workers \cup {NoWorker}]
  BY DEF TypeOK
<1>3. ASSUME NEW a \in Accounts, WantsWallet(w, a) PROVE walletLock[a] \in {NoWorker, w}
  BY <1>1, <1>2, <1>3 DEF Blocked, WaitsFor
<1>4. ASSUME NEW o \in OrderIds, WantsRow(w, o) PROVE rowLock[o] \in {NoWorker, w}
  BY <1>1, <1>2, <1>4 DEF Blocked, WaitsFor
<1> QED BY <1>1, <1>2, <1>3, <1>4

(* A handler that begins is a job.                                         *)
LEMMA BeginType ==
  ASSUME NEW op \in {"pay", "notify", "cancel", "approve", "reject"},
         NEW o \in OrderIds, NEW pc \in {"created", "checked"}
  PROVE  Begin(op, o, pc) \in Job /\ Begin(op, o, pc).op = op
         /\ Begin(op, o, pc).order = o /\ Begin(op, o, pc).pc = pc
  BY DEF Begin, Job, NoRow

(* A handler under way.                                                    *)
Handlers ==
  [op    : {"pay", "notify", "cancel", "approve", "reject"},
   order : OrderIds,
   pc    : {"created", "checked", "granting", "granted",
            "looked", "funded", "reclaimed", "clawed"},
   row   : Nat,
   base  : Nat]

(* The order of a worker that does something is an order.                  *)
LEMMA JobFacts ==
  ASSUME TypeOK, NEW w \in Workers
  PROVE  /\ job[w] \in Job
         /\ job[w].op # "none" =>
              /\ job[w].order \in OrderIds /\ job[w].row \in Nat /\ job[w].base \in Nat
              /\ job[w] \in Handlers
              /\ job[w] # Idle
         /\ Idle.op = "none"
<1>1. job[w] \in Job
  BY DEF TypeOK
<1>2. Idle.op = "none"
  BY DEF Idle
<1> QED BY <1>1, <1>2 DEF Job, Handlers

(* What w may do without disturbing what the jobs of the others rely on.   *)
LEMMA JobsKept ==
  ASSUME IInv, NEW w,
         \A u \in Workers \ {w} : job'[u] = job[u],
         \A a \in Accounts : walletLock[a] \notin {NoWorker, w} =>
           walletLock'[a] = walletLock[a] /\ \A n \in Nat : Covers(wallet, a, n) => Covers(wallet', a, n),
         \A o \in OrderIds : rowLock[o] \notin {NoWorker, w} => rowLock'[o] = rowLock[o],
         \A o \in OrderIds : status[o] # "none" => status'[o] # "none",
         grants \subseteq grants',
         \A o \in OrderIds : o \in grants' => o \in grants \/ rowLock[o] = w,
         \A u \in Workers \ {w} : job[u].op = "pay" => ~Recorded(wallet', PurchaseKey(job[u].order)),
         \A u \in Workers \ {w} : job[u].op = "approve" /\ HasCommission(wallet', job[u].order) =>
           HasCommission(wallet, job[u].order),
         w \in Workers =>
           \/ job'[w].op \in {"none", "cancel", "reject"}
           \/ job'[w].op = "notify" /\ Method[job'[w].order] = "online" /\ Confirming(w)'
           \/ job'[w].op = "approve" /\ Approving(w)'
           \/ /\ job'[w].op = "pay" /\ job[w].op = "pay" /\ job'[w].order = job[w].order
              /\ wallet' = wallet
              /\ Confirming(w)'
              /\ job'[w].pc # "created" =>
                   /\ walletLock'[Buyer[job[w].order]] = w
                   /\ Covers(wallet, Buyer[job[w].order], Amount(job[w].order))
  PROVE  Jobs'
<1>1. NotifyJobs'
  BY DEF IInv, Jobs, NotifyJobs
<1>2. ASSUME NEW u \in Workers \ {w}, job[u].op = "approve" PROVE Approving(u)'
  <2> DEFINE o == job[u].order
  <2>1. /\ o \in Bought => o \in grants
        /\ PlanType(o) = "balance" /\ job[u].pc # "checked" =>
             walletLock[Buyer[o]] = u /\ Covers(wallet, Buyer[o], Amount(o))
        /\ job[u].pc = "clawed" /\ HasCommission(wallet, o) => walletLock[Giver(o)] = u
    BY <1>2 DEF IInv, Jobs, ApproveJobs, Approving
  <2>2. o \in OrderIds /\ job'[u] = job[u] /\ u \notin {NoWorker, w}
    BY <1>2, JobFacts, ConstantsAssumption DEF IInv
  <2>3. Buyer[o] \in Accounts /\ Amount(o) \in Nat /\ (Giver(o) # NoAccount => Giver(o) \in Accounts)
    BY <2>2, OrderType
  <2>4. HasCommission(wallet, o) => Giver(o) # NoAccount
    BY DEF HasCommission
  <2>5. HasCommission(wallet', o) => HasCommission(wallet, o)
    BY <1>2
  <2> QED BY <2>1, <2>2, <2>3, <2>4, <2>5 DEF Approving, Bought
<1>3. ASSUME NEW u \in Workers \ {w}, job[u].op \in {"pay", "notify"} PROVE Confirming(u)'
  <2> DEFINE o == job[u].order
  <2>1. /\ job[u].pc \in {"granting", "granted"} => rowLock[o] = u
        /\ job[u].pc = "granted" /\ o \in Bought => o \notin grants
    BY <1>3 DEF IInv, Jobs, ConfirmJobs, Confirming
  <2>2. o \in OrderIds /\ job'[u] = job[u] /\ u \notin {NoWorker, w}
    BY <1>3, JobFacts, ConstantsAssumption DEF IInv
  <2> QED BY <2>1, <2>2 DEF Confirming, Bought
<1>4. ApproveJobs'
  BY <1>2 DEF ApproveJobs
<1>5. ConfirmJobs'
  BY <1>3 DEF ConfirmJobs
<1>6. ASSUME NEW v \in Workers, job'[v].op = "pay"
      PROVE  job[v].op = "pay" /\ job'[v].order = job[v].order
  BY <1>6
<1>7. ASSUME NEW v \in Workers, job'[v].op = "pay"
      PROVE  LET o == job'[v].order IN
             /\ Method[o] = "balance"
             /\ status'[o] # "none"
             /\ ~Recorded(wallet', PurchaseKey(o))
             /\ \A u \in Workers : job'[u].op = "pay" /\ job'[u].order = o => u = v
             /\ job'[v].pc # "created" =>
                  walletLock'[Buyer[o]] = v /\ Covers(wallet', Buyer[o], Amount(o))
  <2> DEFINE o == job[v].order
  <2>1. job[v].op = "pay" /\ job'[v].order = o
    BY <1>6, <1>7
  <2>2. /\ Method[o] = "balance"
        /\ status[o] # "none"
        /\ ~Recorded(wallet, PurchaseKey(o))
        /\ \A u \in Workers : job[u].op = "pay" /\ job[u].order = o => u = v
        /\ job[v].pc # "created" =>
             walletLock[Buyer[o]] = v /\ Covers(wallet, Buyer[o], Amount(o))
    BY <2>1 DEF IInv, Jobs, PayJobs
  <2>3. o \in OrderIds
    BY <2>1, JobFacts DEF IInv
  <2>4. Buyer[o] \in Accounts /\ Amount(o) \in Nat /\ v # NoWorker
    BY <2>3, OrderType, ConstantsAssumption
  <2>5. status'[o] # "none"
    BY <2>2, <2>3
  <2>6. \A u \in Workers : job'[u].op = "pay" /\ job'[u].order = o => u = v
    BY <1>6, <2>2
  <2>7. CASE v = w
    <3>1. wallet' = wallet
      BY <1>7, <2>7
    <3> QED BY <1>7, <2>1, <2>2, <2>5, <2>6, <2>7, <3>1
  <2>8. CASE v # w
    <3>1. job'[v] = job[v] /\ ~Recorded(wallet', PurchaseKey(o))
      BY <2>1, <2>8
    <3>2. job[v].pc # "created" =>
            walletLock'[Buyer[o]] = v /\ Covers(wallet', Buyer[o], Amount(o))
      BY <2>2, <2>4, <2>8
    <3> QED BY <2>1, <2>2, <2>5, <2>6, <2>8, <3>1, <3>2
  <2> QED BY <2>7, <2>8
<1>8. PayJobs'
  BY <1>7 DEF PayJobs
<1> QED BY <1>1, <1>4, <1>5, <1>8 DEF Jobs

(* A step that books and grants nothing keeps the invariant.               *)
LEMMA QuietStep ==
  ASSUME IInv, TypeOK', wallet' = wallet, grants' = grants,
         \A o \in OrderIds : status'[o] = status[o] \/ status'[o] \in {"pending", "closed"},
         Jobs'
  PROVE  IInv'
<1>1. NeverOverdrawn'
  BY DEF IInv, NeverOverdrawn
<1>2. RefundedGranted'
  BY DEF IInv, RefundedGranted, Bought
<1>3. UnbornUnbooked'
  BY DEF IInv, UnbornUnbooked
<1>4. ChargedIffGranted'
  BY DEF IInv, ChargedIffGranted
<1>5. PaidIsGranted'
  BY DEF IInv, PaidIsGranted, Bought
<1>6. RefundSettles'
  BY DEF IInv, RefundSettles, Bought
<1> QED BY <1>1, <1>2, <1>3, <1>4, <1>5, <1>6 DEF IInv

(* As long as the wallet stays, so does what the others saw in it.         *)
LEMMA OthersUndisturbed ==
  ASSUME IInv, wallet' = wallet, grants' = grants, NEW w
  PROVE  /\ \A u \in Workers \ {w} : job[u].op = "pay" => ~Recorded(wallet', PurchaseKey(job[u].order))
         /\ \A u \in Workers \ {w} : job[u].op = "approve" /\ HasCommission(wallet', job[u].order) =>
              HasCommission(wallet, job[u].order)
         /\ \A a \in Accounts, n \in Nat : Covers(wallet, a, n) => Covers(wallet', a, n)
         /\ grants \subseteq grants' /\ \A o \in OrderIds : o \in grants' => o \in grants
  BY DEF IInv, Jobs, PayJobs

(* A transaction that ends and has booked and granted nothing.             *)
LEMMA QuietEnd ==
  ASSUME IInv, NEW w \in Workers, End(w), wallet' = wallet, grants' = grants,
         \A o \in OrderIds : status[o] # "none" => status'[o] # "none"
  PROVE  Jobs'
<1>1. TypeOK
  BY DEF IInv
<1>2. job'[w].op = "none" /\ \A u \in Workers \ {w} : job'[u] = job[u]
  BY <1>1, EndFacts DEF Idle
<1>3. /\ \A a \in Accounts : walletLock[a] # w => walletLock'[a] = walletLock[a]
      /\ \A o \in OrderIds : rowLock[o] # w => rowLock'[o] = rowLock[o]
  BY <1>1, EndFacts
<1>4. /\ \A u \in Workers \ {w} : job[u].op = "pay" => ~Recorded(wallet', PurchaseKey(job[u].order))
      /\ \A u \in Workers \ {w} : job[u].op = "approve" /\ HasCommission(wallet', job[u].order) =>
           HasCommission(wallet, job[u].order)
      /\ \A a \in Accounts, n \in Nat : Covers(wallet, a, n) => Covers(wallet', a, n)
      /\ grants \subseteq grants' /\ \A o \in OrderIds : o \in grants' => o \in grants
  BY OthersUndisturbed
<1> QED BY <1>2, <1>3, <1>4, JobsKept

(* A rollback, of whatever handler.                                        *)
LEMMA RollbackInv ==
  ASSUME IInv, NEW w \in Workers, Rollback(w) PROVE IInv'
<1>1. TypeOK /\ End(w) /\ wallet' = wallet /\ grants' = grants /\ status' = status
  BY DEF IInv, Rollback, data
<1>2. TypeOK'
  BY <1>1, EndFacts DEF TypeOK, Rollback, data
<1>3. Jobs'
  BY <1>1, QuietEnd
<1> QED BY <1>1, <1>2, <1>3, QuietStep

(* A handler that goes on within its transaction.                          *)
LEMMA StatementInv ==
  ASSUME IInv, NEW w \in Workers, job[w].op # "none", UNCHANGED data,
         Lock(w) \/ UNCHANGED locks,
         NEW j \in Handlers, job' = [job EXCEPT ![w] = j],
         j.op = job[w].op, j.order = job[w].order,
         j.op = "pay" /\ j.pc # "created" =>
           /\ walletLock'[Buyer[j.order]] = w
           /\ Covers(wallet, Buyer[j.order], Amount(j.order)),
         j.op \in {"pay", "notify"} => Confirming(w)',
         j.op = "approve" => Approving(w)'
  PROVE  IInv'
<1>1. TypeOK /\ wallet' = wallet /\ grants' = grants /\ status' = status
      /\ job \in [Workers -> Job]
  BY DEF IInv, TypeOK, data
<1>2. job'[w] = j /\ \A u \in Workers \ {w} : job'[u] = job[u]
  BY <1>1
<1>3. job[w] # Idle /\ j.op \in {"pay", "notify", "cancel", "approve", "reject"}
  BY <1>1, JobFacts DEF Handlers
<1>4. /\ rowLock' \in [OrderIds -> Workers \cup {NoWorker}]
      /\ walletLock' \in [Accounts -> Workers \cup {NoWorker}]
      /\ creditLock' \in [Accounts -> Workers \cup {NoWorker}]
      /\ \A a \in Accounts : walletLock[a] \notin {NoWorker, w} => walletLock'[a] = walletLock[a]
      /\ \A o \in OrderIds : rowLock[o] \notin {NoWorker, w} => rowLock'[o] = rowLock[o]
  <2>1. CASE Lock(w)
    BY <1>1, <1>3, <2>1, LockFacts
  <2>2. CASE UNCHANGED locks
    BY <1>1, <2>2 DEF TypeOK, locks
  <2> QED BY <2>1, <2>2
<1>5. TypeOK'
  <2>1. job' \in [Workers -> Job]
    BY <1>1 DEF Job, Handlers
  <2> QED BY <1>1, <1>4, <2>1 DEF TypeOK, data
<1>6. j.op = "notify" => Method[j.order] = "online"
  BY DEF IInv, Jobs, NotifyJobs
<1>7. Jobs'
  BY <1>1, <1>2, <1>3, <1>4, <1>6, OthersUndisturbed, JobsKept
<1> QED BY <1>1, <1>5, <1>7, QuietStep

(* create_order.                                                           *)
LEMMA CreateInv ==
  ASSUME IInv, NEW w \in Workers, NEW o \in OrderIds, Create(w, o) PROVE IInv'
<1>1. TypeOK /\ wallet' = wallet /\ grants' = grants /\ walletLock' = walletLock
      /\ rowLock' = rowLock /\ creditLock' = creditLock
      /\ status \in [OrderIds -> OrderStatuses] /\ job \in [Workers -> Job]
      /\ status[o] = "none" /\ status' = [status EXCEPT ![o] = "pending"] /\ job[w] = Idle
      /\ ~Recorded(wallet, PurchaseKey(o))
  BY DEF IInv, TypeOK, UnbornUnbooked, Create, locks
<1>2. Begin("pay", o, "created") \in Job /\ Begin("pay", o, "created").op = "pay"
      /\ Begin("pay", o, "created").order = o /\ Begin("pay", o, "created").pc = "created"
  BY BeginType
<1>3. TypeOK'
  BY <1>1, <1>2 DEF TypeOK, Create, OrderStatuses
<1>4. CASE Method[o] # "balance"
  <2>1. job' = job
    BY <1>4 DEF Create
  <2>2. Jobs'
    BY <1>1, <2>1, JobFacts, OthersUndisturbed, JobsKept
  <2> QED BY <1>1, <1>3, <2>2, QuietStep
<1>5. CASE Method[o] = "balance"
  <2>1. job' = [job EXCEPT ![w] = Begin("pay", o, "created")]
    BY <1>5 DEF Create
  <2>2. Idle.op = "none" /\ job[w].op = "none"
    BY <1>1, JobFacts
  <2>3. \A u \in Workers : job[u].op = "pay" => u # w /\ job[u].order # o
    BY <1>1, <2>2 DEF IInv, Jobs, PayJobs
  <2>4. job'[w] = Begin("pay", o, "created") /\ \A u \in Workers \ {w} : job'[u] = job[u]
    BY <1>1, <2>1
  <2>5. NotifyJobs' /\ ApproveJobs' /\ ConfirmJobs'
    BY <1>1, <1>2, <2>4 DEF IInv, Jobs, NotifyJobs, ApproveJobs, Approving, ConfirmJobs, Confirming
  <2>6. PayJobs'
    <3> SUFFICES ASSUME NEW v \in Workers, job'[v].op = "pay"
                 PROVE  /\ Method[job'[v].order] = "balance"
                        /\ status'[job'[v].order] # "none"
                        /\ ~Recorded(wallet', PurchaseKey(job'[v].order))
                        /\ \A u \in Workers :
                             job'[u].op = "pay" /\ job'[u].order = job'[v].order => u = v
                        /\ job'[v].pc # "created" =>
                             /\ walletLock'[Buyer[job'[v].order]] = v
                             /\ Covers(wallet', Buyer[job'[v].order], Amount(job'[v].order))
      BY DEF PayJobs
    <3>1. CASE v = w
      BY <1>1, <1>2, <1>5, <2>3, <2>4, <3>1
    <3>2. CASE v # w
      <4>1. job'[v] = job[v] /\ job[v].order # o /\ job[v].order \in OrderIds
        BY <1>1, <2>3, <2>4, <3>2, JobFacts
      <4>2. \A u \in Workers : job'[u].op = "pay" /\ job'[u].order = job'[v].order => u = v
        BY <1>2, <2>4, <4>1 DEF IInv, Jobs, PayJobs
      <4> QED BY <1>1, <3>2, <4>1, <4>2 DEF IInv, Jobs, PayJobs
    <3> QED BY <3>1, <3>2
  <2> QED BY <1>1, <1>3, <2>5, <2>6, QuietStep DEF Jobs
<1> QED BY <1>4, <1>5

(* pay_with_balance takes the lock of the wallet.                          *)
LEMMA PayLockInv ==
  ASSUME IInv, NEW w \in Workers, PayLock(w) PROVE IInv'
<1> DEFINE o == job[w].order
           j == [job[w] EXCEPT !.pc = "checked"]
<1>1. TypeOK /\ job[w].op = "pay" /\ job[w].pc = "created" /\ Lock(w) /\ UNCHANGED data
      /\ job \in [Workers -> Job]
      /\ job' = [job EXCEPT ![w].pc = "checked"] /\ Covers(wallet, Buyer[o], Amount(o))
  BY DEF IInv, TypeOK, PayLock, Doing
<1>2. job[w] \in Handlers /\ job[w] # Idle
  BY <1>1, JobFacts
<1>3. j \in Handlers /\ j.op = "pay" /\ j.order = o /\ j.pc = "checked"
      /\ job' = [job EXCEPT ![w] = j] /\ job'[w] = j
  BY <1>1, <1>2 DEF Handlers
<1>4. o \in OrderIds /\ Buyer[o] \in Accounts
  BY <1>1, JobFacts, OrderType
<1>5. WantsWallet(w, Buyer[o])
  BY <1>1 DEF WantsWallet, Doing
<1>6. walletLock'[Buyer[o]] = w
  BY <1>1, <1>2, <1>4, <1>5, LockFacts
<1>7. Confirming(w)'
  BY <1>3 DEF Confirming
<1>8. Lock(w) /\ UNCHANGED data /\ job[w].op # "none"
  BY <1>1
<1>9. j.op = job[w].op /\ j.order = job[w].order /\ job' = [job EXCEPT ![w] = j]
  BY <1>1, <1>3
<1>10. Covers(wallet, Buyer[j.order], Amount(j.order)) /\ walletLock'[Buyer[j.order]] = w
  BY <1>1, <1>3, <1>6
<1> HIDE DEF j
<1> QED BY <1>3, <1>7, <1>8, <1>9, <1>10, StatementInv

(* notify, cancel, approve and reject begin with a check.                  *)
LEMMA CheckInv ==
  ASSUME IInv, NEW w \in Workers, NEW o \in OrderIds,
         NEW op \in {"notify", "cancel", "approve", "reject"},
         job' = [job EXCEPT ![w] = Begin(op, o, "checked")],
         op = "notify" => Method[o] = "online",
         op = "approve" => status[o] = "paid",
         UNCHANGED <<data, locks>>
  PROVE  IInv'
<1>1. Begin(op, o, "checked") \in Job /\ Begin(op, o, "checked").op = op
      /\ Begin(op, o, "checked").order = o /\ Begin(op, o, "checked").pc = "checked"
  BY BeginType
<1>2. TypeOK /\ job \in [Workers -> Job]
      /\ UNCHANGED <<wallet, rights, grants, status, refund, used, renewal, billed,
                     rowLock, walletLock, creditLock>>
  BY DEF IInv, TypeOK, data, locks
<1>3. TypeOK'
  BY <1>1, <1>2 DEF TypeOK
<1>4. job'[w] = Begin(op, o, "checked") /\ \A u \in Workers \ {w} : job'[u] = job[u]
  BY <1>2
<1>5. op = "approve" => Approving(w)'
  <2>1. op = "approve" /\ o \in Bought => o \in grants
    BY DEF IInv, PaidIsGranted
  <2> QED BY <1>1, <1>2, <1>4, <2>1 DEF Approving, Bought
<1>6. op = "notify" => Confirming(w)'
  BY <1>1, <1>4 DEF Confirming
<1>7. Jobs'
  BY <1>1, <1>2, <1>4, <1>5, <1>6, OthersUndisturbed, JobsKept
<1> QED BY <1>2, <1>3, <1>7, QuietStep

(* confirm_paid flushes the status and reads the membership.               *)
LEMMA ConfirmFlushInv ==
  ASSUME IInv, NEW w \in Workers, ConfirmFlush(w) PROVE IInv'
<1> DEFINE o == job[w].order
           rt == rights[Buyer[o]]
           i == RowToExtend(rt, PlanOf[o])
           reads == PlanType(o) = "membership" /\ i # NoRow
           row == IF reads THEN i ELSE NoRow
           base == IF reads THEN rt.rows[i].days ELSE 0
           j == [job[w] EXCEPT !.pc = "granting", !.row = row, !.base = base]
<1>1. TypeOK /\ Lock(w) /\ UNCHANGED data
      /\ job[w].op \in {"pay", "notify"} /\ job[w].pc = "checked"
      /\ job \in [Workers -> Job]
      /\ rights \in [Accounts -> RightsType(Plans, OrderIds)]
  BY DEF IInv, TypeOK, ConfirmFlush, Doing
<1>2. job' = [job EXCEPT ![w].pc = "granting", ![w].row = row, ![w].base = base]
  BY DEF ConfirmFlush
<1>3. job[w] \in Handlers /\ job[w] # Idle
  BY <1>1, JobFacts
<1>4. o \in OrderIds /\ Buyer[o] \in Accounts
  BY <1>1, JobFacts, OrderType
<1>5. row \in Nat /\ base \in Nat
  <2>1. rt.rows \in Seq(RowType(Plans, OrderIds))
    BY <1>1, <1>4 DEF RightsType, RowType
  <2>2. \A k \in DOMAIN rt.rows : k \in Nat /\ rt.rows[k] \in RowType(Plans, OrderIds)
    BY <2>1, LenProperties
  <2>3. reads => i \in DOMAIN rt.rows
    BY DEF RowToExtend, RowsOf
  <2>4. reads => rt.rows[i].days \in Nat
    BY <2>2, <2>3 DEF RowType
  <2> HIDE DEF rt, i, reads
  <2>5. reads => i \in Nat
    BY <2>2, <2>3
  <2> QED BY <2>4, <2>5 DEF NoRow
<1> HIDE DEF row, base
<1>6. j \in Handlers /\ j.op = job[w].op /\ j.order = o /\ j.pc = "granting"
  BY <1>3, <1>5 DEF Handlers
<1>7. job' = [job EXCEPT ![w] = j] /\ job'[w] = j
  BY <1>1, <1>2
<1>8. job[w].op = "pay" =>
        walletLock[Buyer[o]] = w /\ Covers(wallet, Buyer[o], Amount(o))
  BY <1>1 DEF IInv, Jobs, PayJobs
<1>9. /\ walletLock[Buyer[o]] = w => walletLock'[Buyer[o]] = w
      /\ WantsRow(w, o) => rowLock'[o] = w
  BY <1>1, <1>3, <1>4, LockFacts
<1>10. WantsRow(w, o)
  BY <1>1 DEF WantsRow, Doing
<1> HIDE DEF j
<1>11. Confirming(w)'
  BY <1>6, <1>7, <1>9, <1>10 DEF Confirming
<1> QED BY <1>1, <1>6, <1>7, <1>8, <1>9, <1>11, StatementInv

(* The credits are granted, by whoever holds the order row.                *)
LEMMA ConfirmGrantInv ==
  ASSUME IInv, NEW w \in Workers, ConfirmGrant(w) PROVE IInv'
<1> DEFINE o == job[w].order
           j == [job[w] EXCEPT !.pc = "granted"]
<1>1. TypeOK /\ Lock(w) /\ UNCHANGED data /\ ~GrantConflict(o)
      /\ job[w].op \in {"pay", "notify"} /\ job[w].pc = "granting"
      /\ job \in [Workers -> Job]
      /\ job' = [job EXCEPT ![w].pc = "granted"]
  BY DEF IInv, TypeOK, ConfirmGrant, Doing
<1>2. job[w] \in Handlers /\ job[w] # Idle
  BY <1>1, JobFacts
<1>3. o \in OrderIds /\ Buyer[o] \in Accounts
  BY <1>1, JobFacts, OrderType
<1>4. j \in Handlers /\ j.op = job[w].op /\ j.order = o /\ j.pc = "granted"
  BY <1>2 DEF Handlers
<1>5. job' = [job EXCEPT ![w] = j] /\ job'[w] = j
  BY <1>1
<1>6. job[w].op = "pay" =>
        walletLock[Buyer[o]] = w /\ Covers(wallet, Buyer[o], Amount(o))
  BY <1>1 DEF IInv, Jobs, PayJobs
<1>7. rowLock[o] = w
  BY <1>1 DEF IInv, Jobs, ConfirmJobs, Confirming
<1>8. /\ walletLock[Buyer[o]] = w => walletLock'[Buyer[o]] = w
      /\ rowLock'[o] = w
  BY <1>1, <1>2, <1>3, <1>7, LockFacts
<1> HIDE DEF j
<1>9. Confirming(w)'
  BY <1>1, <1>4, <1>5, <1>8 DEF Confirming, GrantConflict, Bought, data
<1>10. Lock(w) /\ UNCHANGED data /\ job[w].op \in {"pay", "notify"}
  BY <1>1
<1>11. job[w].op = "pay" => Covers(wallet, Buyer[j.order], Amount(j.order)) /\ walletLock'[Buyer[j.order]] = w
  BY <1>4, <1>6, <1>8
<1> QED BY <1>4, <1>5, <1>9, <1>10, <1>11, StatementInv

(* An approval goes on: looks the refund up, locks the wallet of the buyer,*)
(* the credit account and the wallet of the inviter.                       *)
LEMMA ApproveStepInv ==
  ASSUME IInv, NEW w \in Workers,
         ApproveLook(w) \/ ApproveFunds(w) \/ ApproveReclaim(w) \/ ApproveClawback(w)
  PROVE  IInv'
<1> DEFINE o == job[w].order
<1>1. TypeOK /\ (Lock(w) \/ UNCHANGED locks) /\ UNCHANGED data /\ job[w].op = "approve"
      /\ job \in [Workers -> Job]
  BY DEF IInv, TypeOK, ApproveLook, ApproveFunds, ApproveReclaim, ApproveClawback, Doing
<1>2. job[w] \in Handlers /\ job[w] # Idle
  BY <1>1, JobFacts
<1>3. o \in OrderIds /\ Buyer[o] \in Accounts /\ (Giver(o) # NoAccount => Giver(o) \in Accounts)
  BY <1>1, JobFacts, OrderType
<1>4. PICK pc \in {"looked", "funded", "reclaimed", "clawed"}, row \in Nat :
        job' = [job EXCEPT ![w] = [job[w] EXCEPT !.pc = pc, !.row = row]]
  <2>1. \A pc : [job EXCEPT ![w].pc = pc] = [job EXCEPT ![w] = [job[w] EXCEPT !.pc = pc, !.row = job[w].row]]
    BY <1>1, <1>2 DEF Handlers
  <2>2. job[w].row \in Nat
    BY <1>1, JobFacts
  <2>3. CASE ApproveLook(w) \/ ApproveReclaim(w) \/ ApproveClawback(w)
    BY <2>1, <2>2, <2>3 DEF ApproveLook, ApproveReclaim, ApproveClawback
  <2>4. CASE ApproveFunds(w)
    <3> DEFINE row == IF PlanType(o) = "membership" THEN OwnRow(rights[Buyer[o]], o) ELSE NoRow
    <3>1. rights[Buyer[o]] \in RightsType(Plans, OrderIds)
      BY <1>1, <1>3 DEF TypeOK
    <3>2. row \in Nat
      BY <3>1, OwnRowType DEF NoRow
    <3>3. job' = [job EXCEPT ![w].pc = "funded", ![w].row = row]
      BY <2>4 DEF ApproveFunds
    <3> HIDE DEF row
    <3>4. job' = [job EXCEPT ![w] = [job[w] EXCEPT !.pc = "funded", !.row = row]]
      BY <1>1, <3>3
    <3> QED BY <3>2, <3>4
  <2> QED BY <2>3, <2>4
<1> DEFINE j == [job[w] EXCEPT !.pc = pc, !.row = row]
<1>5. j \in Handlers /\ j.op = "approve" /\ j.order = o /\ j.pc = pc
  BY <1>1, <1>2 DEF Handlers
<1>6. job'[w] = j /\ job' = [job EXCEPT ![w] = j]
  BY <1>1, <1>4
<1>7. /\ \A a \in Accounts : walletLock[a] = w => walletLock'[a] = w
      /\ Lock(w) => \A a \in Accounts : WantsWallet(w, a) => walletLock'[a] = w
  BY <1>1, <1>2, LockFacts DEF locks
<1> HIDE DEF j
<1>8. Approving(w)'
  <2>1. /\ o \in Bought => o \in grants
        /\ PlanType(o) = "balance" /\ job[w].pc # "checked" =>
             walletLock[Buyer[o]] = w /\ Covers(wallet, Buyer[o], Amount(o))
    BY <1>1 DEF IInv, Jobs, ApproveJobs, Approving
  <2>2. PlanType(o) = "balance" => walletLock'[Buyer[o]] = w /\ Covers(wallet, Buyer[o], Amount(o))
    <3>1. CASE job[w].pc # "checked"
      BY <1>3, <1>7, <2>1, <3>1
    <3>2. CASE PlanType(o) = "balance" /\ job[w].pc = "checked"
      <4>1. ApproveFunds(w) /\ Covers(wallet, Buyer[o], Amount(o)) /\ Lock(w)
        BY <3>2 DEF ApproveLook, ApproveFunds, ApproveReclaim, ApproveClawback, Doing, FromBalance
      <4>2. WantsWallet(w, Buyer[o])
        BY <1>1, <3>2 DEF WantsWallet, Doing
      <4> QED BY <1>3, <1>7, <4>1, <4>2
    <3> QED BY <3>1, <3>2
  <2>3. pc = "clawed" /\ HasCommission(wallet, o) => walletLock'[Giver(o)] = w
    <3> SUFFICES ASSUME pc = "clawed", HasCommission(wallet, o)
                 PROVE  walletLock'[Giver(o)] = w
      OBVIOUS
    <3>1. ApproveClawback(w)
      <4>1. job'[w].pc = "clawed"
        BY <1>5, <1>6
      <4> QED BY <1>1, <1>2, <4>1 DEF ApproveLook, ApproveFunds, ApproveReclaim, Handlers
    <3>2. Lock(w) /\ job[w].pc = "reclaimed"
      BY <3>1 DEF ApproveClawback, Doing
    <3>3. WantsWallet(w, Giver(o))
      BY <1>1, <3>2 DEF WantsWallet, Doing
    <3>4. Giver(o) \in Accounts
      BY <1>3 DEF HasCommission
    <3> QED BY <1>7, <3>2, <3>3, <3>4
  <2>4. wallet' = wallet /\ grants' = grants
    BY <1>1 DEF data
  <2> QED BY <1>5, <1>6, <2>1, <2>2, <2>3, <2>4 DEF Approving, Bought
<1> QED BY <1>1, <1>5, <1>6, <1>8, StatementInv

(* What an order fulfils and what its refund takes back are rights.        *)
LEMMA RightsFacts ==
  ASSUME TypeOK, NEW w \in Workers, job[w].op # "none", NEW i
  PROVE  LET o == job[w].order IN
         /\ o \in OrderIds
         /\ Fulfilled(w, o) \in RightsType(Plans, OrderIds)
         /\ RightsReclaimed(rights[Buyer[o]], i, o) \in RightsType(Plans, OrderIds)
<1> DEFINE o == job[w].order
           rt == rights[Buyer[o]]
           T == RightsType(Plans, OrderIds)
           act == Activated(rt, job[w].row, job[w].base, PlanOf[o], Days[PlanOf[o]], o)
<1>1. o \in OrderIds /\ job[w].row \in Nat /\ job[w].base \in Nat
  BY JobFacts
<1>2. /\ PlanOf[o] \in Plans /\ Buyer[o] \in Accounts
      /\ Days[PlanOf[o]] \in Nat /\ Grant[PlanOf[o]] \in Nat
  BY <1>1, OrderType
<1>3. rt \in T
  BY <1>2 DEF TypeOK
<1>4. act \in T
  BY <1>1, <1>2, <1>3, ActivatedType
<1>5. (PlanOf[o] \in CyclePlans) \in BOOLEAN
  OBVIOUS
<1>6. GrantedQuota(act, Grant[PlanOf[o]], PlanOf[o] \in CyclePlans) \in T
  BY <1>2, <1>4, <1>5, CreditsType
<1>7. GrantedPermanent(rt, Grant[PlanOf[o]]) \in T /\ PermanentReclaimed(rt, Grant[PlanOf[o]]) \in T
  <2>1. TRUE \in BOOLEAN
    OBVIOUS
  <2> QED BY <1>2, <1>3, <2>1, CreditsType
<1>8. MembershipReclaimed(rt, i) \in T
  BY <1>3, MembershipReclaimedType
<1>9. Fulfilled(w, o) \in T
  <2> HIDE DEF T
  <2>1. CASE PlanType(o) = "membership"
    BY <1>6, <2>1 DEF Fulfilled
  <2>2. CASE PlanType(o) = "credits"
    BY <1>7, <2>2 DEF Fulfilled
  <2>3. CASE PlanType(o) \notin {"membership", "credits"}
    BY <1>3, <2>3 DEF Fulfilled
  <2> QED BY <2>1, <2>2, <2>3
<1>10. RightsReclaimed(rt, i, o) \in T
  <2> HIDE DEF T
  <2>1. CASE PlanType(o) = "membership"
    BY <1>8, <2>1 DEF RightsReclaimed
  <2>2. CASE PlanType(o) = "credits"
    BY <1>7, <2>2 DEF RightsReclaimed
  <2>3. CASE PlanType(o) \notin {"membership", "credits"}
    BY <1>3, <2>3 DEF RightsReclaimed
  <2> QED BY <2>1, <2>2, <2>3
<1> QED BY <1>1, <1>9, <1>10

(* The commit of a confirmation.                                           *)
LEMMA ConfirmCommitInv ==
  ASSUME IInv, NEW w \in Workers, ConfirmCommit(w) PROVE IInv'
<1> DEFINE o == job[w].order
<1>1. TypeOK /\ End(w) /\ job[w].op \in {"pay", "notify"} /\ job[w].pc = "granted"
  BY DEF IInv, ConfirmCommit, Doing
<1>2. /\ o \in OrderIds /\ Buyer[o] \in Accounts /\ PlanOf[o] \in Plans
      /\ Fulfilled(w, o) \in RightsType(Plans, OrderIds)
  BY <1>1, RightsFacts, OrderType
<1>3. /\ wallet' \in WalletType(Accounts, OrderIds)
      /\ NeverOverdrawn'
      /\ \A k : Recorded(wallet, k) => Recorded(wallet', k)
      /\ \A k : Recorded(wallet', k) => Recorded(wallet, k) \/ ConfirmEntry(o, k)
      /\ Method[o] = "balance" /\ Amount(o) > 0 => Recorded(wallet', PurchaseKey(o))
      /\ \A a \in Accounts :
           a # Buyer[o] \/ Method[o] # "balance" => wallet'.balance[a] >= wallet.balance[a]
  BY <1>2, ConfirmWallet
<1>4. /\ status' = [status EXCEPT ![o] = "paid"] /\ status \in [OrderIds -> OrderStatuses]
      /\ grants' = IF o \in Bought THEN grants \cup {o} ELSE grants
      /\ grants \subseteq OrderIds
  BY <1>2 DEF IInv, TypeOK, ConfirmCommit, Bought
<1>5. /\ rowLock' \in [OrderIds -> Workers \cup {NoWorker}]
      /\ walletLock' \in [Accounts -> Workers \cup {NoWorker}]
      /\ job' \in [Workers -> Job]
      /\ job'[w] = Idle
      /\ \A u \in Workers \ {w} : job'[u] = job[u]
      /\ creditLock' \in [Accounts -> Workers \cup {NoWorker}]
      /\ \A a \in Accounts : walletLock[a] # w => walletLock'[a] = walletLock[a]
      /\ \A q \in OrderIds : rowLock[q] # w => rowLock'[q] = rowLock[q]
  BY <1>1, EndFacts
<1>6. TypeOK'
  <2>1. rights' \in [Accounts -> RightsType(Plans, OrderIds)]
    BY <1>2 DEF IInv, TypeOK, ConfirmCommit
  <2>2. renewal' \subseteq Accounts \X Plans
    BY <1>2 DEF IInv, TypeOK, ConfirmCommit
  <2>3. status' \in [OrderIds -> OrderStatuses] /\ grants' \subseteq OrderIds
    BY <1>2, <1>4 DEF OrderStatuses
  <2>4. used' \subseteq OrderIds /\ billed' = billed /\ refund' = refund
    BY DEF IInv, TypeOK, ConfirmCommit
  <2> QED BY <1>3, <1>5, <2>1, <2>2, <2>3, <2>4 DEF IInv, TypeOK
<1>7. \A q \in OrderIds : q # o =>
        /\ Recorded(wallet', PurchaseKey(q)) <=> Recorded(wallet, PurchaseKey(q))
        /\ Recorded(wallet', GiverKey(q, "commission")) <=> Recorded(wallet, GiverKey(q, "commission"))
  BY <1>2, <1>3, OrderKeys DEF ConfirmEntry, PurchaseKey, AmountTypes
<1>8. ASSUME NEW u \in Workers \ {w}, job[u].op = "pay"
      PROVE  ~Recorded(wallet', PurchaseKey(job[u].order))
  <2> DEFINE q == job[u].order
  <2>1. q \in OrderIds
    BY <1>1, <1>8, JobFacts
  <2>2. /\ ~Recorded(wallet, PurchaseKey(q))
        /\ Method[q] = "balance"
        /\ \A v \in Workers : job[v].op = "pay" /\ job[v].order = q => v = u
    BY <1>8 DEF IInv, Jobs, PayJobs
  <2>3. Method[o] = "balance" => job[w].op = "pay"
    BY <1>1 DEF IInv, Jobs, NotifyJobs
  <2>4. q # o
    BY <1>8, <2>2, <2>3
  <2> QED BY <1>7, <2>1, <2>2, <2>4
<1>9. Jobs'
  <2>1. \A q \in OrderIds : status[q] # "none" => status'[q] # "none"
    BY <1>4
  <2>2. grants \subseteq grants' /\ job'[w].op = "none"
    BY <1>4, <1>5 DEF Idle
  <2>3. ASSUME NEW a \in Accounts, walletLock[a] \notin {NoWorker, w}, NEW n \in Nat,
               Covers(wallet, a, n)
        PROVE  Covers(wallet', a, n)
    <3>1. wallet.balance[a] \in Int /\ wallet'.balance[a] \in Int
      BY <1>1, <1>3 DEF TypeOK, WalletType
    <3>2. a # Buyer[o] \/ Method[o] # "balance"
      BY <1>1, <2>3 DEF IInv, Jobs, PayJobs, NotifyJobs
    <3> QED BY <1>3, <2>3, <3>1, <3>2 DEF Covers
  <2>4. rowLock[o] = w /\ (o \in Bought => o \notin grants)
    BY <1>1 DEF IInv, Jobs, ConfirmJobs, Confirming
  <2>5. \A q \in OrderIds : q \in grants' => q \in grants \/ rowLock[q] = w
    BY <1>4, <2>4
  <2>6. ASSUME NEW u \in Workers \ {w}, job[u].op = "approve",
               HasCommission(wallet', job[u].order)
        PROVE  HasCommission(wallet, job[u].order)
    <3> DEFINE q == job[u].order
    <3>1. q \in OrderIds
      BY <1>1, <2>6, JobFacts
    <3>2. Recorded(wallet', GiverKey(q, "commission")) /\ Giver(q) # NoAccount
      BY <2>6 DEF HasCommission
    <3>3. CASE q # o
      BY <1>7, <3>1, <3>2, <3>3 DEF HasCommission
    <3>4. CASE q = o
      <4>1. ~EarnsCommission(o)
        BY <1>2, <2>4, <2>6, <3>4
           DEF IInv, Jobs, ApproveJobs, Approving, EarnsCommission, Bought
      <4>2. Recorded(wallet, GiverKey(q, "commission"))
        BY <1>2, <1>3, <3>2, <3>4, <4>1, OrderKeys DEF ConfirmEntry, PurchaseKey, AmountTypes
      <4> QED BY <3>2, <4>2 DEF HasCommission
    <3> QED BY <3>3, <3>4
  <2> QED BY <1>5, <1>8, <2>1, <2>2, <2>3, <2>5, <2>6, JobsKept
<1>10. RefundedGranted' /\ PaidIsGranted'
  BY <1>4 DEF IInv, RefundedGranted, PaidIsGranted, Bought
<1>11. UnbornUnbooked'
  <2>1. \A q \in OrderIds : status'[q] = "none" => q # o /\ status[q] = "none"
    BY <1>4
  <2> QED BY <1>7, <2>1 DEF IInv, UnbornUnbooked, PurchaseKey
<1>12. ChargedIffGranted'
  <2>1. \A q \in Bought : q # o => (q \in grants' <=> q \in grants)
    BY <1>4
  <2>2. \A q \in Bought : q \in OrderIds
    BY DEF Bought
  <2>3. o \in Bought => o \in grants'
    BY <1>4
  <2> QED BY <1>3, <1>7, <2>1, <2>2, <2>3 DEF IInv, ChargedIffGranted, PurchaseKey, Bought
<1>13. RefundSettles'
  <2>1. \A q \in Bought : status'[q] = "refunded" => q # o /\ status[q] = "refunded" /\ q \in OrderIds
    BY <1>4 DEF Bought
  <2> QED BY <1>3, <1>7, <2>1 DEF IInv, RefundSettles, Bought
<1> QED BY <1>3, <1>6, <1>9, <1>10, <1>11, <1>12, <1>13 DEF IInv

(* The commit of an approval.                                              *)
LEMMA ApproveCommitInv ==
  ASSUME IInv, NEW w \in Workers, ApproveCommit(w) PROVE IInv'
<1> DEFINE o == job[w].order
<1>1. TypeOK /\ End(w) /\ job[w].op = "approve" /\ grants' = grants
  BY DEF IInv, ApproveCommit, AtCommit, Doing
<1>2. /\ o \in OrderIds /\ Buyer[o] \in Accounts
      /\ RightsReclaimed(rights[Buyer[o]], job[w].row, o) \in RightsType(Plans, OrderIds)
  BY <1>1, RightsFacts, OrderType
<1>3. /\ wallet' \in WalletType(Accounts, OrderIds)
      /\ NeverOverdrawn'
      /\ \A k : Recorded(wallet, k) => Recorded(wallet', k)
      /\ \A k : Recorded(wallet', k) =>
           Recorded(wallet, k) \/ k = BuyerKey(o, "refund") \/ k = GiverKey(o, "refund")
      /\ Method[o] = "balance" => Recorded(wallet', BuyerKey(o, "refund"))
      /\ status'[o] = "refunded" /\ o \in Bought /\ Recorded(wallet', GiverKey(o, "commission"))
           /\ Giver(o) # NoAccount => Recorded(wallet', GiverKey(o, "refund"))
      /\ \A a \in Accounts :
           wallet'.balance[a] >= wallet.balance[a] \/ walletLock[a] = w
  BY <1>2, ApproveWallet
<1>4. \E st \in {"refund_hold", "refunded"} : status' = [status EXCEPT ![o] = st]
  BY DEF ApproveCommit
<1>5. PICK st \in {"refund_hold", "refunded"} : status' = [status EXCEPT ![o] = st]
  BY <1>4
<1>6. /\ rowLock' \in [OrderIds -> Workers \cup {NoWorker}]
      /\ walletLock' \in [Accounts -> Workers \cup {NoWorker}]
      /\ job' \in [Workers -> Job]
      /\ job'[w] = Idle
      /\ \A u \in Workers \ {w} : job'[u] = job[u]
      /\ creditLock' \in [Accounts -> Workers \cup {NoWorker}]
      /\ \A a \in Accounts : walletLock[a] # w => walletLock'[a] = walletLock[a]
      /\ \A q \in OrderIds : rowLock[q] # w => rowLock'[q] = rowLock[q]
  BY <1>1, EndFacts
<1>7. o \in Bought => o \in grants
  BY <1>1 DEF IInv, Jobs, ApproveJobs, Approving
<1>8. status \in [OrderIds -> OrderStatuses]
  BY <1>1 DEF TypeOK
<1>9. TypeOK'
  <2>1. rights' \in [Accounts -> RightsType(Plans, OrderIds)]
    BY <1>2 DEF IInv, TypeOK, ApproveCommit
  <2>2. status' \in [OrderIds -> OrderStatuses]
    BY <1>5, <1>8 DEF OrderStatuses
  <2>3. refund' \in [OrderIds -> RefundStatuses]
    BY <1>2 DEF IInv, TypeOK, ApproveCommit, RefundStatuses
  <2> QED BY <1>3, <1>6, <2>1, <2>2, <2>3 DEF IInv, TypeOK, ApproveCommit
<1>10. \A q \in OrderIds :
         /\ Recorded(wallet', PurchaseKey(q)) <=> Recorded(wallet, PurchaseKey(q))
         /\ Recorded(wallet', GiverKey(q, "commission")) <=> Recorded(wallet, GiverKey(q, "commission"))
  BY <1>2, <1>3, OrderKeys DEF PurchaseKey, AmountTypes
<1>11. ASSUME NEW u \in Workers \ {w}
       PROVE  /\ job[u].op = "pay" => ~Recorded(wallet', PurchaseKey(job[u].order))
              /\ job[u].op = "approve" /\ HasCommission(wallet', job[u].order) =>
                   HasCommission(wallet, job[u].order)
  <2>1. job[u].op # "none" => job[u].order \in OrderIds
    BY <1>1, JobFacts
  <2> QED BY <1>10, <2>1 DEF IInv, Jobs, PayJobs, HasCommission
<1>12. Jobs'
  <2>1. \A q \in OrderIds : status[q] # "none" => status'[q] # "none"
    BY <1>5, <1>8
  <2>2. job'[w].op = "none"
    BY <1>6 DEF Idle
  <2>3. ASSUME NEW a \in Accounts, walletLock[a] \notin {NoWorker, w}, NEW n \in Nat,
               Covers(wallet, a, n)
        PROVE  Covers(wallet', a, n)
    <3>1. wallet.balance[a] \in Int /\ wallet'.balance[a] \in Int
      BY <1>1, <1>3 DEF TypeOK, WalletType
    <3> QED BY <1>3, <2>3, <3>1 DEF Covers
  <2> QED BY <1>1, <1>6, <1>11, <2>1, <2>2, <2>3, JobsKept
<1>13. RefundedGranted' /\ PaidIsGranted'
  BY <1>1, <1>5, <1>7, <1>8 DEF IInv, RefundedGranted, PaidIsGranted, Bought
<1>14. UnbornUnbooked'
  <2>1. \A q \in OrderIds : status'[q] = "none" => status[q] = "none"
    BY <1>5, <1>8
  <2> QED BY <1>10, <2>1 DEF IInv, UnbornUnbooked, PurchaseKey
<1>15. ChargedIffGranted'
  BY <1>1, <1>10 DEF IInv, ChargedIffGranted, PurchaseKey, Bought
<1>16. RefundSettles'
  <2> SUFFICES ASSUME NEW q \in Bought, status'[q] = "refunded"
               PROVE  /\ Method[q] = "balance" => Recorded(wallet', BuyerKey(q, "refund"))
                      /\ Recorded(wallet', GiverKey(q, "commission")) =>
                           Recorded(wallet', GiverKey(q, "refund"))
    BY DEF RefundSettles, Bought
  <2>1. q \in OrderIds
    BY DEF Bought
  <2>2. CASE q = o
    <3>1. Recorded(wallet', GiverKey(q, "commission")) => Giver(q) # NoAccount
      BY <1>3, <2>1, OrderType DEF Recorded, WalletType, Keys, GiverKey, Key
    <3> QED BY <1>3, <2>2, <3>1
  <2>3. CASE q # o
    <3>1. status[q] = "refunded"
      BY <1>5, <1>8, <2>1, <2>3
    <3> QED BY <1>3, <1>10, <2>1, <3>1 DEF IInv, RefundSettles
  <2> QED BY <2>2, <2>3
<1> QED BY <1>3, <1>9, <1>12, <1>13, <1>14, <1>15, <1>16 DEF IInv

(* The commit of a cancellation closes an order, whatever it is by then.   *)
LEMMA CancelCommitInv ==
  ASSUME IInv, NEW w \in Workers, CancelCommit(w) PROVE IInv'
<1> DEFINE o == job[w].order
<1>1. TypeOK /\ End(w) /\ job[w].op = "cancel" /\ wallet' = wallet /\ grants' = grants
      /\ status' = [status EXCEPT ![o] = "closed"] /\ status \in [OrderIds -> OrderStatuses]
  BY DEF IInv, TypeOK, CancelCommit, Doing
<1>2. o \in OrderIds
  BY <1>1, JobFacts
<1>3. TypeOK'
  BY <1>1, <1>2, EndFacts DEF TypeOK, CancelCommit, OrderStatuses
<1>4. \A q \in OrderIds : status'[q] = status[q] \/ status'[q] = "closed"
  BY <1>1
<1>5. Jobs'
  <2>1. \A q \in OrderIds : status[q] # "none" => status'[q] # "none"
    BY <1>4
  <2> QED BY <1>1, <2>1, QuietEnd
<1> QED BY <1>1, <1>3, <1>4, <1>5, QuietStep

(* The commit of a rejection.                                              *)
LEMMA RejectCommitInv ==
  ASSUME IInv, NEW w \in Workers, RejectCommit(w) PROVE IInv'
<1>1. TypeOK /\ End(w) /\ job[w].op = "reject" /\ wallet' = wallet /\ grants' = grants
      /\ status' = status
  BY DEF IInv, RejectCommit, Doing
<1>2. job[w].order \in OrderIds
  BY <1>1, JobFacts
<1>3. TypeOK'
  BY <1>1, <1>2, EndFacts DEF TypeOK, RejectCommit, RefundStatuses
<1>4. Jobs'
  BY <1>1, QuietEnd
<1> QED BY <1>1, <1>3, <1>4, QuietStep

(* Asking for a refund.                                                    *)
LEMMA RefundCreateInv ==
  ASSUME IInv, NEW o \in OrderIds, RefundCreate(o) PROVE IInv'
<1>1. UNCHANGED <<wallet, grants, status, rowLock, walletLock, creditLock, job>>
  BY DEF RefundCreate, locks
<1>2. TypeOK'
  BY <1>1 DEF IInv, TypeOK, RefundCreate, RefundStatuses
<1>3. Jobs'
  BY <1>1 DEF IInv, Jobs, PayJobs, NotifyJobs, ApproveJobs, Approving, ConfirmJobs, Confirming
<1> QED BY <1>1, <1>2, <1>3, QuietStep

(* Billing a message.                                                      *)
LEMMA ConsumeInv ==
  ASSUME IInv, NEW a \in Accounts, Consume(a) PROVE IInv'
<1>1. UNCHANGED <<wallet, grants, status, rowLock, walletLock, creditLock, job>>
  BY DEF Consume, locks
<1>2. rights' \in [Accounts -> RightsType(Plans, OrderIds)]
  <2>1. rights[a] \in RightsType(Plans, OrderIds) /\ 1 \in Nat /\ TRUE \in BOOLEAN
    BY DEF IInv, TypeOK
  <2>2. Consumed(rights[a], 1) \in RightsType(Plans, OrderIds)
    BY <2>1, CreditsType
  <2> QED BY <2>2 DEF IInv, TypeOK, Consume
<1>3. billed' \in [Accounts -> 0..MaxConsume] /\ used' \subseteq OrderIds
  <2>1. billed[a] \in 0..MaxConsume /\ billed[a] < MaxConsume /\ MaxConsume \in Nat
    BY ConstantsAssumption DEF IInv, TypeOK, Consume
  <2>2. billed[a] + 1 \in 0..MaxConsume
    BY <2>1
  <2> QED BY <2>2 DEF IInv, TypeOK, Consume
<1>4. TypeOK'
  BY <1>1, <1>2, <1>3 DEF IInv, TypeOK, Consume
<1>5. Jobs'
  BY <1>1 DEF IInv, Jobs, PayJobs, NotifyJobs, ApproveJobs, Approving, ConfirmJobs, Confirming
<1> QED BY <1>1, <1>4, <1>5, QuietStep

-----------------------------------------------------------------------------
(* The initial states satisfy the invariant.                               *)
LEMMA InitIInv == Init => IInv
<1> SUFFICES ASSUME Init PROVE IInv
  OBVIOUS
<1>1. Opening \in [Accounts -> Int] /\ \A a \in Accounts : Opening[a] >= 0
  BY ConstantsAssumption
<1>2. wallet \in WalletType(Accounts, OrderIds) /\ wallet.balance = Opening
      /\ \A k : ~Recorded(wallet, k)
  BY <1>1, OpenWalletType DEF Init
<1>3. Idle \in Job /\ Idle.op = "none"
  BY DEF Idle, Job
<1>4. NoRights \in RightsType(Plans, OrderIds)
  BY NoRightsType
<1>5. TypeOK
  BY <1>2, <1>3, <1>4, ConstantsAssumption DEF Init, TypeOK, OrderStatuses, RefundStatuses
<1>6. NeverOverdrawn
  BY <1>1, <1>2 DEF NeverOverdrawn, Solvent
<1>7. Jobs
  BY <1>3 DEF Init, Jobs, PayJobs, NotifyJobs, ApproveJobs, ConfirmJobs
<1>8. RefundedGranted /\ PaidIsGranted /\ RefundSettles
  BY DEF Init, RefundedGranted, PaidIsGranted, RefundSettles, Bought
<1>9. UnbornUnbooked /\ ChargedIffGranted
  BY <1>2 DEF Init, UnbornUnbooked, ChargedIffGranted
<1> QED BY <1>5, <1>6, <1>7, <1>8, <1>9 DEF IInv

(* Every step keeps the invariant.                                         *)
LEMMA NextIInv == IInv /\ [Next]_vars => IInv'
<1> SUFFICES ASSUME IInv, [Next]_vars PROVE IInv'
  OBVIOUS
<1>1. CASE UNCHANGED vars
  <2>1. TypeOK' /\ Jobs'
    BY <1>1 DEF vars, IInv, TypeOK, Jobs, PayJobs, NotifyJobs, ApproveJobs, Approving,
                ConfirmJobs, Confirming
  <2> QED BY <1>1, <2>1, QuietStep DEF vars
<1>2. ASSUME NEW w \in Workers, NEW o \in OrderIds, Arrival(w, o) PROVE IInv'
  <2>1. CASE Create(w, o)
    BY <2>1, CreateInv
  <2>2. CASE Notify(w, o)
    BY <2>2, CheckInv DEF Notify
  <2>3. CASE CancelCheck(w, o)
    BY <2>3, CheckInv DEF CancelCheck
  <2>4. ASSUME NEW op \in {"approve", "reject"}, ReviewCheck(w, op, o) PROVE IInv'
    BY <2>4, CheckInv DEF ReviewCheck
  <2> QED BY <1>2, <2>1, <2>2, <2>3, <2>4 DEF Arrival
<1>3. ASSUME NEW w \in Workers, Step(w) PROVE IInv'
  <2>1. CASE PayLock(w)
    BY <2>1, PayLockInv
  <2>2. CASE PayRefused(w) \/ ConfirmRollback(w) \/ ApproveRollback(w)
    BY <2>2, RollbackInv DEF PayRefused, ConfirmRollback, ApproveRollback
  <2>3. CASE ConfirmFlush(w)
    BY <2>3, ConfirmFlushInv
  <2>4. CASE ConfirmCommit(w)
    BY <2>4, ConfirmCommitInv
  <2>5. CASE CancelCommit(w)
    BY <2>5, CancelCommitInv
  <2>6. CASE RejectCommit(w)
    BY <2>6, RejectCommitInv
  <2>7. CASE ApproveCommit(w)
    BY <2>7, ApproveCommitInv
  <2>8. CASE ConfirmGrant(w)
    BY <2>8, ConfirmGrantInv
  <2>9. CASE ApproveLook(w) \/ ApproveFunds(w) \/ ApproveReclaim(w) \/ ApproveClawback(w)
    BY <2>9, ApproveStepInv
  <2> QED BY <1>3, <2>1, <2>2, <2>3, <2>4, <2>5, <2>6, <2>7, <2>8, <2>9 DEF Step
<1>4. ASSUME NEW w \in Workers, DeadlockVictim(w) PROVE IInv'
  BY <1>4, RollbackInv DEF DeadlockVictim
<1> QED BY <1>1, <1>2, <1>3, <1>4, RefundCreateInv, ConsumeInv DEF Next

(* A step changes the wallet only as Ledger allows: the two commits that   *)
(* book money post, the other steps leave the wallet alone.                *)
LEMMA NextLedger ==
  ASSUME IInv, [Next]_vars PROVE [Promised!Next]_<<wallet.balance, wallet.ledger>>
<1>1. CASE wallet' = wallet
  BY <1>1
<1>2. ASSUME NEW w \in Workers, job[w].op # "none"
      PROVE  job[w].order \in OrderIds
  BY <1>2, JobFacts DEF IInv
<1>3. ASSUME NEW w \in Workers, ConfirmCommit(w)
      PROVE  [Promised!Next]_<<wallet.balance, wallet.ledger>>
  <2>1. job[w].order \in OrderIds
    BY <1>2, <1>3 DEF ConfirmCommit, Doing
  <2> QED BY <1>3, <2>1, ConfirmWallet
<1>4. ASSUME NEW w \in Workers, ApproveCommit(w)
      PROVE  [Promised!Next]_<<wallet.balance, wallet.ledger>>
  <2>1. job[w].order \in OrderIds
    BY <1>2, <1>4 DEF ApproveCommit, AtCommit, Doing
  <2> QED BY <1>4, <2>1, ApproveWallet
<1>5. ASSUME NEW w \in Workers, Step(w) \/ DeadlockVictim(w),
             ~ConfirmCommit(w), ~ApproveCommit(w)
      PROVE  wallet' = wallet
  BY <1>5 DEF Step, PayLock, PayRefused, ConfirmFlush, ConfirmGrant, ConfirmRollback,
              CancelCommit, RejectCommit, ApproveLook, ApproveFunds, ApproveReclaim,
              ApproveClawback, ApproveRollback, DeadlockVictim, Rollback, data
<1>6. ASSUME NEW w \in Workers, NEW o \in OrderIds, Arrival(w, o) PROVE wallet' = wallet
  BY <1>6 DEF Arrival, Create, Notify, CancelCheck, ReviewCheck, data
<1>7. CASE UNCHANGED vars
  BY <1>1, <1>7 DEF vars
<1>8. CASE (\E o \in OrderIds : RefundCreate(o)) \/ \E a \in Accounts : Consume(a)
  BY <1>1, <1>8 DEF RefundCreate, Consume
<1> QED BY <1>1, <1>3, <1>4, <1>5, <1>6, <1>7, <1>8 DEF Next

-----------------------------------------------------------------------------
(* The credits of an order, and the orders an account was granted.         *)
Granting == [o \in OrderIds |-> Grant[PlanOf[o]]]

GrantedTo(a) == {o \in grants : Buyer[o] = a}

(* However many identities there are, a state has granted finitely many.   *)
FewGrants == IsFiniteSet(grants)

(* CreditsExplained in these terms.                                        *)
Counted ==
  \A a \in Accounts : /\ rights[a].granted = SumOf(Granting, GrantedTo(a))
                      /\ Spent(rights[a]) <= rights[a].granted

CInv == FewGrants /\ Counted

(* The sum CreditsExplained speaks of is a sum of Granting.                *)
LEMMA GrantSum ==
  ASSUME NEW S \in SUBSET OrderIds, IsFiniteSet(S)
  PROVE  MapThenSumSet(LAMBDA o : Grant[PlanOf[o]], S) = SumOf(Granting, S)
<1> DEFINE Sums(g) ==
             g = [s \in SUBSET S |->
                    IF s = {} THEN 0 ELSE Grant[PlanOf[First(s)]] + g[s \ {First(s)}]]
<1>1. ASSUME NEW s \in SUBSET S, s # {} PROVE Granting[First(s)] = Grant[PlanOf[First(s)]]
  BY <1>1 DEF First, Granting
<1>2. \A g : Adds(g, Granting, S) <=> Sums(g)
  BY <1>1 DEF Adds
<1>3. PICK g : g = CHOOSE h : Sums(h)
  OBVIOUS
<1>4. MapThenSumSet(LAMBDA o : Grant[PlanOf[o]], S) = g[S]
  BY <1>3 DEF First, MapThenSumSet, MapThenFoldSet
<1>5. \E h : Adds(h, Granting, S)
  BY AddsExists
<1>6. Adds(g, Granting, S)
  <2> HIDE DEF Sums
  <2> QED BY <1>2, <1>3, <1>5
<1> QED BY <1>4, <1>6, SumOfAdds

LEMMA CountedExplains == TypeOK /\ CInv => CreditsExplained
<1> SUFFICES ASSUME TypeOK, CInv, NEW a \in Accounts
             PROVE  /\ rights[a].granted =
                         MapThenSumSet(LAMBDA o : Grant[PlanOf[o]], {o \in grants : Buyer[o] = a})
                    /\ Spent(rights[a]) <= rights[a].granted
  BY DEF CreditsExplained, Spent
<1> DEFINE S == {o \in grants : Buyer[o] = a}
<1>1. S = GrantedTo(a)
  BY DEF GrantedTo
<1>2. S \in SUBSET OrderIds /\ IsFiniteSet(S)
  BY FS_Subset DEF TypeOK, CInv, FewGrants
<1> HIDE DEF S
<1>3. MapThenSumSet(LAMBDA o : Grant[PlanOf[o]], S) = SumOf(Granting, S)
  BY <1>2, GrantSum
<1>4. rights[a].granted = MapThenSumSet(LAMBDA o : Grant[PlanOf[o]], S)
  BY <1>1, <1>3 DEF CInv, Counted
<1> QED BY <1>4 DEF S, CInv, Counted

(* An account whose grants and total stay, and which has no more.          *)
LEMMA CreditsStay ==
  ASSUME IInv, IInv', CInv, NEW a \in Accounts,
         GrantedTo(a)' = GrantedTo(a),
         rights'[a].granted = rights[a].granted,
         Spent(rights'[a]) <= Spent(rights[a])
  PROVE  /\ rights'[a].granted = SumOf(Granting, GrantedTo(a)')
         /\ Spent(rights'[a]) <= rights'[a].granted
<1>1. rights[a] \in RightsType(Plans, OrderIds) /\ rights'[a] \in RightsType(Plans, OrderIds)
  BY DEF IInv, TypeOK
<1>2. Spent(rights[a]) \in Int /\ Spent(rights'[a]) \in Int /\ rights[a].granted \in Int
  BY <1>1, SpentType
<1>3. Spent(rights[a]) <= rights[a].granted /\ rights[a].granted = SumOf(Granting, GrantedTo(a))
  BY DEF CInv, Counted
<1> QED BY <1>2, <1>3

(* An account that is granted one more order.                              *)
LEMMA CreditsGrow ==
  ASSUME IInv, IInv', CInv, NEW o \in OrderIds, o \notin grants, NEW a \in Accounts, a = Buyer[o],
         grants' = grants \cup {o},
         rights'[a].granted = rights[a].granted + Grant[PlanOf[o]],
         Spent(rights'[a]) <= Spent(rights[a]) + Grant[PlanOf[o]]
  PROVE  /\ rights'[a].granted = SumOf(Granting, GrantedTo(a)')
         /\ Spent(rights'[a]) <= rights'[a].granted
<1> DEFINE S == GrantedTo(a)
<1>1. GrantedTo(a)' = S \cup {o} /\ o \notin S
  BY DEF GrantedTo
<1>2. S \in SUBSET OrderIds /\ IsFiniteSet(S)
  BY FS_Subset DEF IInv, TypeOK, CInv, FewGrants, GrantedTo
<1>3. Numbers(Granting, S) /\ Granting[o] = Grant[PlanOf[o]] /\ Granting[o] \in Int
  BY <1>2, OrderType DEF Numbers, Granting
<1>4. rights[a].granted = SumOf(Granting, S) /\ Spent(rights[a]) <= rights[a].granted
  BY DEF CInv, Counted
<1> HIDE DEF S
<1>5. SumOf(Granting, S \cup {o}) = Grant[PlanOf[o]] + SumOf(Granting, S)
  BY <1>1, <1>2, <1>3, SumAdd
<1>6. rights[a] \in RightsType(Plans, OrderIds) /\ rights'[a] \in RightsType(Plans, OrderIds)
  BY DEF IInv, TypeOK
<1>7. Spent(rights[a]) \in Int /\ Spent(rights'[a]) \in Int /\ rights[a].granted \in Int
      /\ Grant[PlanOf[o]] \in Int
  BY <1>3, <1>6, SpentType
<1>8. rights'[a].granted = SumOf(Granting, GrantedTo(a)')
  BY <1>1, <1>4, <1>5, <1>7
<1>9. Spent(rights'[a]) <= rights'[a].granted
  BY <1>4, <1>7
<1> QED BY <1>8, <1>9

(* The grant of a confirmation, for the account that bought.               *)
LEMMA FulfilledCounted ==
  ASSUME IInv, NEW w \in Workers, NEW o \in OrderIds, o = job[w].order
  PROVE  LET rt == rights[Buyer[o]]
             g  == IF o \in Bought THEN Grant[PlanOf[o]] ELSE 0
         IN  /\ Fulfilled(w, o).granted = rt.granted + g
             /\ Spent(Fulfilled(w, o)) <= Spent(rt) + g
<1> DEFINE rt == rights[Buyer[o]]
           p == PlanOf[o]
           x == Activated(rt, job[w].row, job[w].base, p, Days[p], o)
<1>1. rt \in RightsType(Plans, OrderIds) /\ p \in Plans /\ Grant[p] \in Nat /\ Days[p] \in Nat
      /\ job[w] \in Job
  BY OrderType DEF IInv, TypeOK
<1>2. job[w].row \in Nat /\ job[w].base \in Nat
  BY <1>1 DEF Job, Idle, NoRow
<1>3. rt.granted \in Int /\ Spent(rt) \in Int /\ Spent(rt) <= Spent(rt)
  BY <1>1, SpentType
<1>4. o \in Bought <=> PlanType(o) \in {"membership", "credits"}
  BY DEF Bought
<1>5. x \in RightsType(Plans, OrderIds)
  BY <1>1, <1>2, ActivatedType
<1>6. x.granted = rt.granted /\ Spent(x) = Spent(rt)
  BY <1>1, RowsCounted
<1>7. CASE PlanType(o) = "membership"
  <2>1. Fulfilled(w, o) = GrantedQuota(x, Grant[p], p \in CyclePlans)
    BY <1>7 DEF Fulfilled
  <2> HIDE DEF x
  <2>2. /\ GrantedQuota(x, Grant[p], p \in CyclePlans).granted = x.granted + Grant[p]
        /\ Spent(GrantedQuota(x, Grant[p], p \in CyclePlans)) <= Spent(x) + Grant[p]
    BY <1>1, <1>5, QuotaCounted
  <2> QED BY <1>4, <1>6, <1>7, <2>1, <2>2
<1>8. CASE PlanType(o) = "credits"
  <2>1. Fulfilled(w, o) = GrantedPermanent(rt, Grant[p])
    BY <1>8 DEF Fulfilled
  <2> HIDE DEF x, rt
  <2>2. /\ GrantedPermanent(rt, Grant[p]).granted = rt.granted + Grant[p]
        /\ Spent(GrantedPermanent(rt, Grant[p])) <= Spent(rt) + Grant[p]
    BY <1>1, CreditsCounted
  <2> QED BY <1>4, <1>8, <2>1, <2>2 DEF rt
<1>9. CASE PlanType(o) \notin {"membership", "credits"}
  <2>1. Fulfilled(w, o) = rt
    BY <1>9 DEF Fulfilled
  <2> QED BY <1>3, <1>4, <1>9, <2>1
<1> QED BY <1>7, <1>8, <1>9

LEMMA ReclaimedCounted ==
  ASSUME IInv, NEW o \in OrderIds, NEW i
  PROVE  /\ RightsReclaimed(rights[Buyer[o]], i, o).granted = rights[Buyer[o]].granted
         /\ Spent(RightsReclaimed(rights[Buyer[o]], i, o)) <= Spent(rights[Buyer[o]])
<1> DEFINE rt == rights[Buyer[o]]
<1>1. rt \in RightsType(Plans, OrderIds) /\ Grant[PlanOf[o]] \in Nat
  BY OrderType DEF IInv, TypeOK
<1>2. Spent(rt) <= Spent(rt)
  BY <1>1, SpentType
<1> HIDE DEF rt
<1>3. CASE PlanType(o) = "membership"
  BY <1>1, <1>3, RowsCounted DEF RightsReclaimed, rt
<1>4. CASE PlanType(o) = "credits"
  BY <1>1, <1>4, CreditsCounted DEF RightsReclaimed, rt
<1>5. CASE PlanType(o) \notin {"membership", "credits"}
  BY <1>2, <1>5 DEF RightsReclaimed, rt
<1> QED BY <1>3, <1>4, <1>5

(* A step that grants nothing and gives no account more.                   *)
LEMMA CreditsQuiet ==
  ASSUME IInv, IInv', CInv, grants' = grants,
         \A a \in Accounts : /\ rights'[a].granted = rights[a].granted
                             /\ Spent(rights'[a]) <= Spent(rights[a])
  PROVE  CInv'
<1>1. FewGrants'
  BY DEF CInv, FewGrants
<1>2. ASSUME NEW a \in Accounts
      PROVE  /\ rights'[a].granted = SumOf(Granting, GrantedTo(a)')
             /\ Spent(rights'[a]) <= rights'[a].granted
  <2>1. GrantedTo(a)' = GrantedTo(a)
    BY DEF GrantedTo
  <2> QED BY <2>1, CreditsStay
<1>3. Counted'
  BY <1>2 DEF Counted
<1> QED BY <1>1, <1>3 DEF CInv

LEMMA ConfirmCredits ==
  ASSUME IInv, IInv', CInv, NEW w \in Workers, ConfirmCommit(w) PROVE CInv'
<1> DEFINE o == job[w].order
           b == Buyer[o]
<1>1. o \in OrderIds /\ b \in Accounts
  BY OrderType DEF ConfirmCommit, Doing, IInv, TypeOK, Job, Idle
<1>2. rights \in [Accounts -> RightsType(Plans, OrderIds)]
      /\ rights' \in [Accounts -> RightsType(Plans, OrderIds)]
  BY DEF IInv, TypeOK
<1>3. rights' = [rights EXCEPT ![b] = Fulfilled(w, o)]
  BY DEF ConfirmCommit
<1>4. rights'[b] = Fulfilled(w, o) /\ \A a \in Accounts : a # b => rights'[a] = rights[a]
  BY <1>1, <1>2, <1>3
<1>5. \A a \in Accounts : Spent(rights[a]) <= Spent(rights[a])
  BY <1>2, SpentType
<1>6. CASE o \in Bought
  <2>1. o \notin grants /\ grants' = grants \cup {o}
    BY <1>6 DEF ConfirmCommit, Doing, IInv, Jobs, ConfirmJobs, Confirming
  <2>2. rights'[b].granted = rights[b].granted + Grant[PlanOf[o]]
        /\ Spent(rights'[b]) <= Spent(rights[b]) + Grant[PlanOf[o]]
    BY <1>1, <1>4, <1>6, FulfilledCounted
  <2>3. FewGrants'
    BY <2>1, FS_AddElement DEF CInv, FewGrants
  <2> HIDE DEF o
  <2>4. ASSUME NEW a \in Accounts
        PROVE  /\ rights'[a].granted = SumOf(Granting, GrantedTo(a)')
               /\ Spent(rights'[a]) <= rights'[a].granted
    <3>1. CASE a = b
      BY <1>1, <1>2, <2>1, <2>2, <3>1, CreditsGrow
    <3>2. CASE a # b
      <4>1. GrantedTo(a)' = GrantedTo(a)
        BY <2>1, <3>2 DEF GrantedTo
      <4> QED BY <1>2, <1>4, <1>5, <3>2, <4>1, CreditsStay
    <3> QED BY <3>1, <3>2
  <2>5. Counted'
    BY <2>4 DEF Counted
  <2> QED BY <2>3, <2>5 DEF CInv
<1>7. CASE o \notin Bought
  <2>1. grants' = grants
    BY <1>1, <1>7 DEF Bought, ConfirmCommit
  <2>2. rights'[b].granted = rights[b].granted + 0 /\ Spent(rights'[b]) <= Spent(rights[b]) + 0
    BY <1>1, <1>4, <1>7, FulfilledCounted
  <2>3. rights[b].granted \in Int /\ Spent(rights[b]) \in Int
    BY <1>1, <1>2, SpentType
  <2>4. rights'[b].granted = rights[b].granted /\ Spent(rights'[b]) <= Spent(rights[b])
    BY <2>2, <2>3
  <2> QED BY <1>4, <1>5, <2>1, <2>4, CreditsQuiet
<1> QED BY <1>6, <1>7

LEMMA InitCInv == Init => CInv
<1> SUFFICES ASSUME Init PROVE CInv
  OBVIOUS
<1>1. FewGrants
  BY FS_EmptySet DEF Init, FewGrants
<1>2. \A a : GrantedTo(a) = {} /\ SumOf(Granting, {}) = 0
  BY SumEmpty DEF Init, GrantedTo
<1>3. NoRights.granted = 0 /\ Spent(NoRights) = 0
  BY DEF NoRights, Spent
<1>4. \A a \in Accounts : rights[a] = NoRights
  BY DEF Init
<1>5. Counted
  BY <1>2, <1>3, <1>4 DEF Counted
<1> QED BY <1>1, <1>5 DEF CInv

LEMMA NextCInv == IInv /\ IInv' /\ CInv /\ [Next]_vars => CInv'
<1> SUFFICES ASSUME IInv, IInv', CInv, [Next]_vars PROVE CInv'
  OBVIOUS
<1>1. rights \in [Accounts -> RightsType(Plans, OrderIds)]
  BY DEF IInv, TypeOK
<1>2. \A a \in Accounts : Spent(rights[a]) <= Spent(rights[a])
  BY <1>1, SpentType
<1>3. CASE rights' = rights /\ grants' = grants
  BY <1>2, <1>3, CreditsQuiet
<1>4. ASSUME NEW w \in Workers, ApproveCommit(w) PROVE CInv'
  <2> DEFINE o == job[w].order
  <2>1. o \in OrderIds /\ Buyer[o] \in Accounts
    BY <1>4, OrderType DEF ApproveCommit, AtCommit, Doing, IInv, TypeOK, Job, Idle
  <2>2. rights' = [rights EXCEPT ![Buyer[o]] = RightsReclaimed(rights[Buyer[o]], job[w].row, o)]
        /\ grants' = grants
    BY <1>4 DEF ApproveCommit
  <2> HIDE DEF o
  <2>3. rights'[Buyer[o]] = RightsReclaimed(rights[Buyer[o]], job[w].row, o)
        /\ \A a \in Accounts : a # Buyer[o] => rights'[a] = rights[a]
    BY <1>1, <2>1, <2>2
  <2> QED BY <1>2, <2>1, <2>2, <2>3, ReclaimedCounted, CreditsQuiet
<1>5. ASSUME NEW b \in Accounts, Consume(b) PROVE CInv'
  <2>1. rights' = [rights EXCEPT ![b] = Consumed(rights[b], 1)] /\ grants' = grants
    BY <1>5 DEF Consume
  <2>2. Consumed(rights[b], 1).granted = rights[b].granted
        /\ Spent(Consumed(rights[b], 1)) = Spent(rights[b])
    <3>1. rights[b] \in RightsType(Plans, OrderIds) /\ 1 \in Nat
      BY <1>1
    <3> QED BY <3>1, CreditsCounted
  <2>3. rights'[b] = Consumed(rights[b], 1)
        /\ \A a \in Accounts : a # b => rights'[a] = rights[a]
    BY <1>1, <2>1
  <2> QED BY <1>2, <2>1, <2>2, <2>3, CreditsQuiet
<1> QED
  BY <1>3, <1>4, <1>5, ConfirmCredits
     DEF Next, Arrival, Step, vars, Create, Notify, CancelCheck, ReviewCheck, RefundCreate,
         PayLock, PayRefused, ConfirmFlush, ConfirmGrant, ConfirmRollback, CancelCommit,
         RejectCommit, ApproveLook, ApproveFunds, ApproveReclaim, ApproveClawback,
         ApproveRollback, DeadlockVictim, Rollback, data

-----------------------------------------------------------------------------
(* Every reachable state is well typed: balances and credits stay numbers, *)
(* every membership row names a plan and an order, every lock a worker.    *)
THEOREM TypeCorrect == Spec => []TypeOK
<1>1. IInv => TypeOK
  BY DEF IInv
<1> QED BY <1>1, InitIInv, NextIInv, PTL DEF Spec

(* No interleaving of payments, callbacks, cancellations and refunds       *)
(* overdraws a wallet, books an entry twice or changes a balance without   *)
(* its entry (balance_service.py credit and debit, order_service.py:130).  *)
THEOREM LedgerImplemented == Spec => ImplementsLedger
<1>1. Init => Promised!Init
  BY DEF Init, OpenWallet, Promised!Init
<1>2. IInv /\ [Next]_vars => [Promised!Next]_<<wallet.balance, wallet.ledger>>
  BY NextLedger
<1> QED BY <1>1, <1>2, InitIInv, NextIInv, PTL DEF Spec, ImplementsLedger, Promised!Spec

(* An order paid from the balance is charged exactly when its rights were  *)
(* granted (pay_with_balance and confirm_paid in one transaction).         *)
THEOREM PurchaseCharged == Spec => []ChargedIffGranted
<1>1. IInv => ChargedIffGranted
  BY DEF IInv
<1> QED BY <1>1, InitIInv, NextIInv, PTL DEF Spec

(* What says paid has its rights (confirm_paid).                           *)
THEOREM PaidOrderGranted == Spec => []PaidIsGranted
<1>1. IInv => PaidIsGranted
  BY DEF IInv
<1> QED BY <1>1, InitIInv, NextIInv, PTL DEF Spec

(* What says refunded has given its price back and has the commission back *)
(* (RefundService.approve, which otherwise leaves refund_hold).            *)
THEOREM RefundSettled == Spec => []RefundSettles
<1>1. IInv => RefundSettles
  BY DEF IInv
<1> QED BY <1>1, InitIInv, NextIInv, PTL DEF Spec

(* An order is granted once, however often the gateway calls back, so the  *)
(* total an account was granted is the sum of its orders; what it has and  *)
(* has consumed is never more (_grant_credits, _apply_consume).  It may be *)
(* less: two approvals take the credits of one order back twice.           *)
THEOREM CreditsAccounted == Spec => []CreditsExplained
<1>1. IInv /\ CInv => CreditsExplained
  BY CountedExplains DEF IInv
<1> QED BY <1>1, InitIInv, NextIInv, InitCInv, NextCInv, PTL DEF Spec
=============================================================================
