------------------------------- MODULE Wallet -------------------------------
(***************************************************************************)
(* The shared balance wallet (src/api/internal/service/balance_service.py  *)
(* over the tables balance_account and balance_transaction).  A wallet is  *)
(* a value: the balance of every account, the ledger of transactions and   *)
(* the running totals per amount type.  BalanceService.credit and debit    *)
(* are operators from a wallet to a wallet, so that a handler that books   *)
(* several entries in one database transaction composes them.              *)
(*                                                                         *)
(* Both methods change the account row under SELECT ... FOR UPDATE; who    *)
(* waits for that lock is the business of the modules that use this one.   *)
(***************************************************************************)
EXTENDS Integers

AmountTypes == {"recharge", "commission", "purchase", "withdraw", "refund"}

(* The columns of uq_balance_transaction_account_source_type.  The column  *)
(* source is left out: inside one module all entries have the same source. *)
Key(a, id, t) == [account |-> a, sid |-> id, type |-> t]

Entry(k, m) == [key |-> k, amount |-> m]

OpenWallet(opening) ==
  [balance |-> opening,
   ledger  |-> {},
   total   |-> [a \in DOMAIN opening |-> [t \in AmountTypes |-> 0]]]

(* find_transaction: is there an entry with this key?                      *)
Recorded(w, k) == \E e \in w.ledger : e.key = k

(* The totals of balance_account: total_recharged, total_commission on     *)
(* credit, total_purchased, total_withdrawn on debit; refunds have none.   *)
Totalled(w, k, m) ==
  IF k.type = "refund" THEN w.total
  ELSE [w.total EXCEPT ![k.account][k.type] = @ + m]

(* credit, after its idempotency lookup.                                   *)
Credited(w, k, m) ==
  [balance |-> [w.balance EXCEPT ![k.account] = @ + m],
   ledger  |-> w.ledger \cup {Entry(k, m)},
   total   |-> Totalled(w, k, m)]

(* debit raises ValueError when the locked balance does not cover m.       *)
Covers(w, a, m) == w.balance[a] >= m

Debited(w, k, m) ==
  [balance |-> [w.balance EXCEPT ![k.account] = @ - m],
   ledger  |-> w.ledger \cup {Entry(k, -m)},
   total   |-> Totalled(w, k, m)]

Keys(Acc, Ids) == [account : Acc, sid : Ids, type : AmountTypes]

WalletType(Acc, Ids) ==
  [balance : [Acc -> Int],
   ledger  : SUBSET [key : Keys(Acc, Ids), amount : Int],
   total   : [Acc -> [AmountTypes -> Int]]]
=============================================================================
