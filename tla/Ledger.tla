-------------------------------- MODULE Ledger --------------------------------
(***************************************************************************)
(* What the balance wallet promises its users, whatever service books on   *)
(* it: entries are only ever added, one per key (the unique constraint of  *)
(* balance_transaction), a balance changes only by the entries added with  *)
(* it, and no balance becomes negative.  Withdrawals and Orders implement  *)
(* this specification.                                                     *)
(***************************************************************************)
EXTENDS Integers

CONSTANTS Opening     \* the balance of each account at the start

VARIABLES balance, entries

Init ==
  /\ balance = Opening
  /\ entries = {}

(* e can be added: its key is new and the balance covers it.               *)
Postable(b, E, e) ==
  /\ \A f \in E : f.key # e.key
  /\ b[e.key.account] + e.amount >= 0

Posted(b, e) == [b EXCEPT ![e.key.account] = @ + e.amount]

Post(e) ==
  /\ Postable(balance, entries, e)
  /\ balance' = Posted(balance, e)
  /\ entries' = entries \cup {e}

(* Two entries of one transaction, the second on top of the first.         *)
PostTwo(e, f) ==
  /\ Postable(balance, entries, e)
  /\ Postable(Posted(balance, e), entries \cup {e}, f)
  /\ balance' = Posted(Posted(balance, e), f)
  /\ entries' = entries \cup {e, f}

Next == \E e, f \in entries' \ entries : Post(e) \/ PostTwo(e, f)

Spec == Init /\ [][Next]_<<balance, entries>>
=============================================================================
