-------------------------------- MODULE Lemmas --------------------------------
(***************************************************************************)
(* What the operators of Wallet and Rights and the sums over finite sets   *)
(* do, for the proofs about the modules that use them.                     *)
(***************************************************************************)
EXTENDS Wallet, Rights, FiniteSets, FiniteSetsExt, FiniteSetTheorems, SequenceTheorems,
        WellFoundedInduction, TLAPS

-----------------------------------------------------------------------------
(* Booking an entry on a wallet.                                           *)

(* The opening wallet has an empty ledger and the given balances.          *)
LEMMA OpenWalletType ==
  ASSUME NEW Acc, NEW Ids, NEW opening \in [Acc -> Int]
  PROVE  /\ OpenWallet(opening) \in WalletType(Acc, Ids)
         /\ OpenWallet(opening).balance = opening
         /\ \A k : ~Recorded(OpenWallet(opening), k)
  BY DEF OpenWallet, WalletType, Recorded, AmountTypes

(* Totals stay one number per account and type.                            *)
LEMMA TotalledType ==
  ASSUME NEW Acc, NEW Ids,
         NEW w \in WalletType(Acc, Ids), NEW k \in Keys(Acc, Ids), NEW m \in Int
  PROVE  Totalled(w, k, m) \in [Acc -> [AmountTypes -> Int]]
<1>1. w.total \in [Acc -> [AmountTypes -> Int]] /\ k.account \in Acc /\ k.type \in AmountTypes
  BY DEF WalletType, Keys
<1>2. CASE k.type = "refund"
  BY <1>1, <1>2 DEF Totalled
<1>3. CASE k.type # "refund"
  <2>1. w.total[k.account][k.type] + m \in Int
    BY <1>1
  <2>2. [w.total[k.account] EXCEPT ![k.type] = @ + m] \in [AmountTypes -> Int]
    BY <1>1, <2>1
  <2> QED BY <1>1, <1>3, <2>2 DEF Totalled
<1> QED BY <1>2, <1>3

(* credit adds the money, books exactly its key and keeps the type.        *)
LEMMA CreditedFacts ==
  ASSUME NEW Acc, NEW Ids,
         NEW w \in WalletType(Acc, Ids), NEW k \in Keys(Acc, Ids), NEW m \in Int
  PROVE  /\ Credited(w, k, m) \in WalletType(Acc, Ids)
         /\ Credited(w, k, m).ledger = w.ledger \cup {Entry(k, m)}
         /\ Credited(w, k, m).balance = [w.balance EXCEPT ![k.account] = @ + m]
         /\ \A j : Recorded(Credited(w, k, m), j) <=> Recorded(w, j) \/ j = k
<1>1. w.balance \in [Acc -> Int] /\ k.account \in Acc
  BY DEF WalletType, Keys
<1>2. [w.balance EXCEPT ![k.account] = @ + m] \in [Acc -> Int]
  BY <1>1
<1>3. w.ledger \cup {Entry(k, m)} \subseteq [key : Keys(Acc, Ids), amount : Int]
  BY DEF WalletType, Entry
<1>4. Credited(w, k, m) \in WalletType(Acc, Ids)
  BY <1>2, <1>3, TotalledType DEF Credited, WalletType
<1>5. ASSUME NEW j PROVE Recorded(Credited(w, k, m), j) <=> Recorded(w, j) \/ j = k
  <2>1. Credited(w, k, m).ledger = w.ledger \cup {Entry(k, m)}
    BY DEF Credited
  <2>2. Entry(k, m).key = k
    BY DEF Entry
  <2> QED BY <2>1, <2>2 DEF Recorded
<1> QED BY <1>4, <1>5 DEF Credited

(* debit takes the money, books exactly its key and keeps the type.        *)
LEMMA DebitedFacts ==
  ASSUME NEW Acc, NEW Ids,
         NEW w \in WalletType(Acc, Ids), NEW k \in Keys(Acc, Ids), NEW m \in Int
  PROVE  /\ Debited(w, k, m) \in WalletType(Acc, Ids)
         /\ Debited(w, k, m).ledger = w.ledger \cup {Entry(k, -m)}
         /\ Debited(w, k, m).balance = [w.balance EXCEPT ![k.account] = @ - m]
         /\ \A j : Recorded(Debited(w, k, m), j) <=> Recorded(w, j) \/ j = k
<1>1. w.balance \in [Acc -> Int] /\ k.account \in Acc
  BY DEF WalletType, Keys
<1>2. [w.balance EXCEPT ![k.account] = @ - m] \in [Acc -> Int]
  BY <1>1
<1>3. w.ledger \cup {Entry(k, -m)} \subseteq [key : Keys(Acc, Ids), amount : Int]
  BY DEF WalletType, Entry
<1>4. Debited(w, k, m) \in WalletType(Acc, Ids)
  BY <1>2, <1>3, TotalledType DEF Debited, WalletType
<1>5. ASSUME NEW j PROVE Recorded(Debited(w, k, m), j) <=> Recorded(w, j) \/ j = k
  <2>1. Debited(w, k, m).ledger = w.ledger \cup {Entry(k, -m)}
    BY DEF Debited
  <2>2. Entry(k, -m).key = k
    BY DEF Entry
  <2> QED BY <2>1, <2>2 DEF Recorded
<1> QED BY <1>4, <1>5 DEF Debited

-----------------------------------------------------------------------------
Solvent(w, Acc) == \A a \in Acc : w.balance[a] >= 0

(* w is v, or v with one new entry that v covers.                          *)
Posts(v, w) ==
  \/ w = v
  \/ \E e : /\ w.ledger = v.ledger \cup {e}
            /\ ~Recorded(v, e.key)
            /\ w.balance = [v.balance EXCEPT ![e.key.account] = @ + e.amount]
            /\ v.balance[e.key.account] + e.amount >= 0

(* Booking nothing posts nothing.                                          *)
LEMMA PostsNothing == ASSUME NEW v PROVE Posts(v, v)
  BY DEF Posts

(* credit of a new key posts one entry and lowers no balance.              *)
LEMMA CreditPosts ==
  ASSUME NEW Acc, NEW Ids, NEW v \in WalletType(Acc, Ids), Solvent(v, Acc),
         NEW k \in Keys(Acc, Ids), NEW m \in Nat, ~Recorded(v, k)
  PROVE  /\ Posts(v, Credited(v, k, m))
         /\ Solvent(Credited(v, k, m), Acc)
         /\ \A a \in Acc : Credited(v, k, m).balance[a] >= v.balance[a]
<1> DEFINE w == Credited(v, k, m)
           e == Entry(k, m)
<1>1. v.balance \in [Acc -> Int] /\ k.account \in Acc /\ m \in Int
  BY DEF WalletType, Keys
<1>2. w.ledger = v.ledger \cup {e} /\ w.balance = [v.balance EXCEPT ![k.account] = @ + m]
  BY <1>1, CreditedFacts
<1>3. e.key = k /\ e.amount = m
  BY DEF Entry
<1>4. v.balance[k.account] >= 0 /\ v.balance[k.account] \in Int
  BY <1>1 DEF Solvent
<1> HIDE DEF w, e
<1>5. Posts(v, w)
  <2>1. /\ ~Recorded(v, e.key)
        /\ w.balance = [v.balance EXCEPT ![e.key.account] = @ + e.amount]
        /\ v.balance[e.key.account] + e.amount >= 0
    BY <1>1, <1>2, <1>3, <1>4
  <2> QED BY <1>2, <2>1, Zenon DEF Posts
<1>6. Solvent(w, Acc) /\ \A a \in Acc : w.balance[a] >= v.balance[a]
  BY <1>1, <1>2 DEF Solvent
<1> QED BY <1>5, <1>6 DEF w

(* debit of a new key that is covered posts one entry and lowers only the  *)
(* balance of the account it books on.                                     *)
LEMMA DebitPosts ==
  ASSUME NEW Acc, NEW Ids, NEW v \in WalletType(Acc, Ids), Solvent(v, Acc),
         NEW k \in Keys(Acc, Ids), NEW m \in Nat, ~Recorded(v, k), Covers(v, k.account, m)
  PROVE  /\ Posts(v, Debited(v, k, m))
         /\ Solvent(Debited(v, k, m), Acc)
         /\ \A a \in Acc : a # k.account => Debited(v, k, m).balance[a] = v.balance[a]
<1> DEFINE w == Debited(v, k, m)
           e == Entry(k, -m)
<1>1. v.balance \in [Acc -> Int] /\ k.account \in Acc /\ m \in Int
  BY DEF WalletType, Keys
<1>2. w.ledger = v.ledger \cup {e} /\ w.balance = [v.balance EXCEPT ![k.account] = @ - m]
  BY <1>1, DebitedFacts
<1>3. e.key = k /\ e.amount = -m
  BY DEF Entry
<1>4. v.balance[k.account] >= m /\ v.balance[k.account] \in Int
  BY <1>1 DEF Covers
<1> HIDE DEF w, e
<1>6. Posts(v, w)
  <2>1. /\ ~Recorded(v, e.key)
        /\ w.balance = [v.balance EXCEPT ![e.key.account] = @ + e.amount]
        /\ v.balance[e.key.account] + e.amount >= 0
    BY <1>1, <1>2, <1>3, <1>4
  <2> QED BY <1>2, <2>1, Zenon DEF Posts
<1>7. Solvent(w, Acc) /\ \A a \in Acc : a # k.account => w.balance[a] = v.balance[a]
  BY <1>1, <1>2, <1>4 DEF Solvent
<1> QED BY <1>6, <1>7 DEF w

-----------------------------------------------------------------------------
(* The operators of Rights keep the type of a rights value.                *)

RowType(Ps, Os) ==
  [plan : Ps, status : {"active", "expired"}, days : Nat, source : Os]

(* A sequence with the shape of s over S is a sequence over S.             *)
LEMMA SameShape ==
  ASSUME NEW S, NEW s \in Seq(S), NEW t, t = [i \in DOMAIN s |-> t[i]],
         \A i \in DOMAIN s : t[i] \in S
  PROVE  t \in Seq(S)
<1>1. Len(s) \in Nat /\ DOMAIN s = 1..Len(s)
  BY LenProperties
<1>2. t \in [1..Len(s) -> S]
  BY <1>1
<1> QED BY <1>1, <1>2, SeqDef

(* Nothing is granted at the start.                                        *)
LEMMA NoRightsType ==
  ASSUME NEW Ps, NEW Os PROVE NoRights \in RightsType(Ps, Os)
<1>1. <<>> \in Seq(RowType(Ps, Os))
  BY EmptySeq
<1> QED BY <1>1 DEF NoRights, RightsType, RowType

(* Opening or extending a membership.                                      *)
LEMMA ActivatedType ==
  ASSUME NEW Ps, NEW Os, NEW rt \in RightsType(Ps, Os), NEW i,
         NEW base \in Nat, NEW p \in Ps, NEW d \in Nat, NEW o \in Os
  PROVE  Activated(rt, i, base, p, d, o) \in RightsType(Ps, Os)
<1> DEFINE R == RowType(Ps, Os)
           s == rt.rows
<1>1. s \in Seq(R)
  BY DEF RightsType, RowType
<1>2. \A j \in DOMAIN s : s[j] \in R
  BY <1>1, LenProperties
<1>3. CASE i = NoRow
  <2>1. Row(p, d, o) \in R
    BY DEF Row, RowType
  <2>2. Append(s, Row(p, d, o)) \in Seq(R)
    BY <1>1, <2>1, AppendProperties
  <2>3. Activated(rt, i, base, p, d, o) = [rt EXCEPT !.rows = Append(s, Row(p, d, o))]
    BY <1>3 DEF Activated
  <2> QED BY <2>2, <2>3 DEF RightsType, RowType
<1>4. CASE i # NoRow
  <2> DEFINE t == [s EXCEPT ![i].days = base + d, ![i].source = o]
  <2>1. t = [j \in DOMAIN s |-> t[j]]
    OBVIOUS
  <2>2. \A j \in DOMAIN s : t[j] = IF j = i THEN [s[j] EXCEPT !.days = base + d, !.source = o]
                                  ELSE s[j]
    OBVIOUS
  <2>3. ASSUME NEW r \in R PROVE [r EXCEPT !.days = base + d, !.source = o] \in R
    <3>1. base + d \in Nat
      OBVIOUS
    <3>2. \A n \in Nat : [r EXCEPT !.days = n, !.source = o] \in R
      BY DEF RowType
    <3> QED BY <3>1, <3>2
  <2>4. \A j \in DOMAIN s : t[j] \in R
    BY <1>2, <2>2, <2>3
  <2>5. t \in Seq(R)
    <3> HIDE DEF t, s, R
    <3> QED BY <1>1, <2>1, <2>4, SameShape
  <2>6. Activated(rt, i, base, p, d, o) = [rt EXCEPT !.rows = t]
    BY <1>4 DEF Activated, RightsType
  <2> QED BY <2>5, <2>6 DEF RightsType, RowType
<1> QED BY <1>3, <1>4

(* Granting and consuming credits.                                         *)
LEMMA CreditsType ==
  ASSUME NEW Ps, NEW Os, NEW rt \in RightsType(Ps, Os), NEW g \in Nat, NEW cycle \in BOOLEAN
  PROVE  /\ GrantedQuota(rt, g, cycle) \in RightsType(Ps, Os)
         /\ GrantedPermanent(rt, g) \in RightsType(Ps, Os)
         /\ PermanentReclaimed(rt, g) \in RightsType(Ps, Os)
         /\ Consumed(rt, g) \in RightsType(Ps, Os)
<1> DEFINE T == RightsType(Ps, Os)
<1>1. /\ rt.quota \in Nat /\ rt.permanent \in Nat /\ rt.granted \in Nat
      /\ \A m \in Nat, n \in Nat : [rt EXCEPT !.quota = m, !.granted = n] \in T
      /\ \A m \in Nat, n \in Nat : [rt EXCEPT !.permanent = m, !.granted = n] \in T
      /\ \A m \in Nat : [rt EXCEPT !.permanent = m] \in T
  BY DEF RightsType
<1>2. rt.quota + g \in Nat /\ rt.permanent + g \in Nat /\ rt.granted + g \in Nat
      /\ (rt.permanent >= g => rt.permanent - g \in Nat)
  <2>1. \A m \in Nat : m + g \in Nat /\ (m >= g => m - g \in Nat)
    OBVIOUS
  <2> QED BY <1>1, <2>1
<1>3. (IF cycle THEN g ELSE rt.quota + g) \in Nat
  BY <1>2
<1>4. (IF rt.permanent >= g THEN rt.permanent - g ELSE 0) \in Nat
  BY <1>2
<1> HIDE DEF T
<1>5. GrantedQuota(rt, g, cycle) \in T
  BY <1>1, <1>2, <1>3 DEF GrantedQuota
<1>6. GrantedPermanent(rt, g) \in T
  BY <1>1, <1>2 DEF GrantedPermanent
<1>7. PermanentReclaimed(rt, g) \in T
  BY <1>1, <1>4 DEF PermanentReclaimed
<1>8. Consumed(rt, g) \in T
  <2> DEFINE q == IF Effective(rt) THEN Least(rt.quota, g) ELSE 0
             c == Least(rt.permanent, g - q)
  <2>1. q \in Nat /\ q <= rt.quota /\ q <= g /\ rt.quota \in Nat
    BY DEF Least, RightsType
  <2>2. c \in Nat /\ c <= rt.permanent /\ rt.permanent \in Nat /\ rt.consumed \in Nat
    BY <2>1 DEF Least, RightsType
  <2>3. Consumed(rt, g) = [rt EXCEPT !.quota = @ - q, !.permanent = @ - c, !.consumed = @ + q + c]
    BY DEF Consumed
  <2> HIDE DEF q, c
  <2>4. rt.quota - q \in Nat /\ rt.permanent - c \in Nat /\ rt.consumed + q + c \in Nat
    BY <2>1, <2>2
  <2> QED BY <2>3, <2>4 DEF RightsType, T
<1> QED BY <1>5, <1>6, <1>7, <1>8 DEF T

(* Ending a membership.                                                    *)
LEMMA MembershipReclaimedType ==
  ASSUME NEW Ps, NEW Os, NEW rt \in RightsType(Ps, Os), NEW i
  PROVE  MembershipReclaimed(rt, i) \in RightsType(Ps, Os)
<1> DEFINE R == RowType(Ps, Os)
           s == rt.rows
           t == [s EXCEPT ![i].status = "expired"]
<1>1. s \in Seq(R)
  BY DEF RightsType, RowType
<1>2. \A j \in DOMAIN s : s[j] \in R
  BY <1>1, LenProperties
<1>3. \A r \in R : [r EXCEPT !.status = "expired"] \in R
  BY DEF RowType
<1>4. \A j \in DOMAIN s : t[j] = IF j = i THEN [s[j] EXCEPT !.status = "expired"] ELSE s[j]
  OBVIOUS
<1>5. \A j \in DOMAIN s : t[j] \in R
  BY <1>2, <1>3, <1>4
<1>6. t = [j \in DOMAIN s |-> t[j]]
  OBVIOUS
<1>7. t \in Seq(R)
  <2> HIDE DEF t, s, R
  <2> QED BY <1>1, <1>5, <1>6, SameShape
<1>8. \A x \in Seq(R) : [rt EXCEPT !.rows = x, !.quota = 0] \in RightsType(Ps, Os)
  BY DEF RightsType, RowType
<1>9. CASE i = NoRow
  BY <1>9 DEF MembershipReclaimed, RightsType
<1>10. CASE i # NoRow
  <2>1. MembershipReclaimed(rt, i) = [rt EXCEPT !.rows = t, !.quota = 0]
    BY <1>10 DEF MembershipReclaimed, RightsType
  <2> HIDE DEF t
  <2> QED BY <1>7, <1>8, <2>1
<1> QED BY <1>9, <1>10

(* The row an order is the source of is the number of a row, or none.      *)
LEMMA OwnRowType ==
  ASSUME NEW Ps, NEW Os, NEW rt \in RightsType(Ps, Os), NEW o
  PROVE  OwnRow(rt, o) \in Nat
<1> DEFINE own == {i \in DOMAIN rt.rows : rt.rows[i].source = o}
<1>1. rt.rows \in Seq(RowType(Ps, Os))
  BY DEF RightsType, RowType
<1>2. own \subseteq Nat
  BY <1>1, LenProperties
<1> DEFINE newest(i) == i \in own /\ \A j \in own : j <= i
<1>3. CASE \E i \in own : newest(i) /\ rt.rows[i].status = "active"
  <2>1. OwnRow(rt, o) = CHOOSE i : newest(i)
    BY <1>3 DEF OwnRow
  <2>2. \E i : newest(i)
    BY <1>3
  <2> HIDE DEF newest
  <2>3. newest(OwnRow(rt, o))
    BY <2>1, <2>2
  <2> QED BY <1>2, <2>3 DEF newest
<1>4. CASE ~\E i \in own : newest(i) /\ rt.rows[i].status = "active"
  BY <1>4 DEF OwnRow, NoRow
<1> QED BY <1>3, <1>4

(* What an account has and has consumed.                                   *)
Spent(rt) == rt.quota + rt.permanent + rt.consumed

LEMMA SpentType ==
  ASSUME NEW Ps, NEW Os, NEW rt \in RightsType(Ps, Os)
  PROVE  Spent(rt) \in Int /\ rt.granted \in Int /\ Spent(rt) <= Spent(rt)
  BY DEF RightsType, Spent

(* A grant adds to it at most what it adds to the total; the other         *)
(* operators leave the total alone and add nothing.                        *)
LEMMA QuotaCounted ==
  ASSUME NEW Ps, NEW Os, NEW rt \in RightsType(Ps, Os), NEW g \in Nat, NEW cycle
  PROVE  /\ GrantedQuota(rt, g, cycle).granted = rt.granted + g
         /\ Spent(GrantedQuota(rt, g, cycle)) <= Spent(rt) + g
<1>1. rt.quota \in Nat /\ rt.permanent \in Nat /\ rt.consumed \in Nat /\ rt.granted \in Nat
      /\ rt = [rows |-> rt.rows, quota |-> rt.quota, permanent |-> rt.permanent,
               granted |-> rt.granted, consumed |-> rt.consumed]
  BY DEF RightsType
<1> DEFINE x == GrantedQuota(rt, g, cycle)
<1>2. /\ x.quota = g \/ x.quota = rt.quota + g
      /\ x.permanent = rt.permanent /\ x.consumed = rt.consumed
      /\ x.granted = rt.granted + g
  BY <1>1 DEF GrantedQuota
<1> HIDE DEF x
<1>3. x.quota + x.permanent + x.consumed <= rt.quota + rt.permanent + rt.consumed + g
  BY <1>1, <1>2
<1> QED BY <1>2, <1>3 DEF x, Spent

LEMMA CreditsCounted ==
  ASSUME NEW Ps, NEW Os, NEW rt \in RightsType(Ps, Os), NEW g \in Nat
  PROVE  /\ GrantedPermanent(rt, g).granted = rt.granted + g
         /\ Spent(GrantedPermanent(rt, g)) <= Spent(rt) + g
         /\ PermanentReclaimed(rt, g).granted = rt.granted
         /\ Spent(PermanentReclaimed(rt, g)) <= Spent(rt)
         /\ Consumed(rt, g).granted = rt.granted
         /\ Spent(Consumed(rt, g)) = Spent(rt)
<1>1. rt.quota \in Nat /\ rt.permanent \in Nat /\ rt.consumed \in Nat /\ rt.granted \in Nat
      /\ rt = [rows |-> rt.rows, quota |-> rt.quota, permanent |-> rt.permanent,
               granted |-> rt.granted, consumed |-> rt.consumed]
  BY DEF RightsType
<1>2. /\ GrantedPermanent(rt, g).granted = rt.granted + g
      /\ Spent(GrantedPermanent(rt, g)) <= Spent(rt) + g
  <2> DEFINE x == GrantedPermanent(rt, g)
  <2>1. x.quota = rt.quota /\ x.permanent = rt.permanent + g /\ x.consumed = rt.consumed
        /\ x.granted = rt.granted + g
    BY <1>1 DEF GrantedPermanent
  <2> HIDE DEF x
  <2>2. x.quota + x.permanent + x.consumed <= rt.quota + rt.permanent + rt.consumed + g
    BY <1>1, <2>1
  <2> QED BY <2>1, <2>2 DEF x, Spent
<1>3. /\ PermanentReclaimed(rt, g).granted = rt.granted
      /\ Spent(PermanentReclaimed(rt, g)) <= Spent(rt)
  <2> DEFINE x == PermanentReclaimed(rt, g)
             p == IF rt.permanent >= g THEN rt.permanent - g ELSE 0
  <2>1. x.quota = rt.quota /\ x.permanent = p /\ x.consumed = rt.consumed
        /\ x.granted = rt.granted
    BY <1>1 DEF PermanentReclaimed
  <2>2. p \in Nat /\ p <= rt.permanent
    BY <1>1
  <2> HIDE DEF x, p
  <2>3. x.quota + x.permanent + x.consumed <= rt.quota + rt.permanent + rt.consumed
    BY <1>1, <2>1, <2>2
  <2> QED BY <2>1, <2>3 DEF x, Spent
<1>4. Consumed(rt, g).granted = rt.granted /\ Spent(Consumed(rt, g)) = Spent(rt)
  <2> DEFINE x == Consumed(rt, g)
             q == IF Effective(rt) THEN Least(rt.quota, g) ELSE 0
             c == Least(rt.permanent, g - q)
  <2>1. x.quota = rt.quota - q /\ x.permanent = rt.permanent - c
        /\ x.consumed = rt.consumed + q + c /\ x.granted = rt.granted
    BY <1>1 DEF Consumed
  <2>2. q \in Int /\ q <= g
    BY <1>1 DEF Least
  <2>3. c \in Int
    BY <1>1, <2>2 DEF Least
  <2> HIDE DEF x, q, c
  <2>4. x.quota + x.permanent + x.consumed = rt.quota + rt.permanent + rt.consumed
    BY <1>1, <2>1, <2>2, <2>3
  <2> QED BY <2>1, <2>4 DEF x, Spent
<1> QED BY <1>2, <1>3, <1>4

(* Memberships count no credits; ending one takes the quota.               *)
LEMMA RowsCounted ==
  ASSUME NEW Ps, NEW Os, NEW rt \in RightsType(Ps, Os), NEW i, NEW base, NEW p, NEW d, NEW o
  PROVE  /\ Activated(rt, i, base, p, d, o).granted = rt.granted
         /\ Spent(Activated(rt, i, base, p, d, o)) = Spent(rt)
         /\ MembershipReclaimed(rt, i).granted = rt.granted
         /\ Spent(MembershipReclaimed(rt, i)) <= Spent(rt)
<1>1. rt.quota \in Nat /\ rt.permanent \in Nat /\ rt.consumed \in Nat
      /\ rt = [rows |-> rt.rows, quota |-> rt.quota, permanent |-> rt.permanent,
               granted |-> rt.granted, consumed |-> rt.consumed]
  BY DEF RightsType
<1>2. /\ Activated(rt, i, base, p, d, o).granted = rt.granted
      /\ Spent(Activated(rt, i, base, p, d, o)) = Spent(rt)
  BY <1>1 DEF Activated, Spent
<1>3. MembershipReclaimed(rt, i).granted = rt.granted /\ Spent(MembershipReclaimed(rt, i)) <= Spent(rt)
  <2> DEFINE x == MembershipReclaimed(rt, i)
  <2>1. x.quota = 0 /\ x.permanent = rt.permanent /\ x.consumed = rt.consumed
        /\ x.granted = rt.granted
    BY <1>1 DEF MembershipReclaimed
  <2> HIDE DEF x
  <2>2. x.quota + x.permanent + x.consumed <= rt.quota + rt.permanent + rt.consumed
    BY <1>1, <2>1
  <2> QED BY <2>1, <2>2 DEF x, Spent
<1> QED BY <1>2, <1>3

-----------------------------------------------------------------------------
(***************************************************************************)
(* Sums over finite sets.  MapThenSumSet picks the elements one by one, so *)
(* that its value has to be shown not to depend on the order.  SumOf is    *)
(* the sum of a function's values, which the provers can be told about;    *)
(* Adds(g, f, S) says that g maps every part of S to such a sum.           *)
(***************************************************************************)
SumOf(f, S) == MapThenSumSet(LAMBDA x : f[x], S)

First(s) == CHOOSE x \in s : TRUE

Adds(g, f, S) ==
  g = [s \in SUBSET S |-> IF s = {} THEN 0 ELSE f[First(s)] + g[s \ {First(s)}]]

Numbers(f, S) == \A x \in S : f[x] \in Int

(* Induction over the natural numbers, in terms of a set.                  *)
LEMMA NatsFrom ==
  ASSUME NEW T, 0 \in T, \A n \in Nat : n \in T => n + 1 \in T
  PROVE  Nat \subseteq T
<1> DEFINE R == OpToRel(<, Nat)
           U == {n \in Nat : n \notin T}
<1>1. IsWellFoundedOn(R, Nat)
  BY NatLessThanWellFounded
<1>2. \A m, n \in Nat : m < n => <<m, n>> \in R
  BY DEF OpToRel
<1> SUFFICES ASSUME U # {} PROVE FALSE
  OBVIOUS
<1> HIDE DEF R
<1>3. PICK n \in U : \A m \in U : ~ (<<m, n>> \in R)
  BY <1>1, WFMin
<1>4. n # 0 /\ n - 1 \in Nat /\ n - 1 < n
  BY <1>3
<1>5. n - 1 \in T
  BY <1>2, <1>3, <1>4
<1> QED BY <1>3, <1>4, <1>5

(* First is an element of a set that has one, and leaves a smaller set.    *)
LEMMA FirstFacts ==
  ASSUME NEW S, IsFiniteSet(S), NEW s \in SUBSET S, NEW x \in s
  PROVE  /\ First(s) \in s
         /\ s \ {x} \in SUBSET S
         /\ IsFiniteSet(s) /\ Cardinality(s) \in Nat /\ Cardinality(s) # 0
         /\ Cardinality(s \ {x}) = Cardinality(s) - 1
<1>1. IsFiniteSet(s)
  BY FS_Subset
<1>2. Cardinality(s) \in Nat /\ Cardinality(s) # 0
  BY <1>1, FS_CardinalityType, FS_EmptySet
<1>3. Cardinality(s \ {x}) = Cardinality(s) - 1
  BY <1>1, FS_RemoveElement
<1> QED BY <1>1, <1>2, <1>3 DEF First

(* A function that adds exists: it is built size by size.                  *)
LEMMA AddsExists ==
  ASSUME NEW f, NEW S, IsFiniteSet(S)
  PROVE  \E g : Adds(g, f, S)
<1> DEFINE Small(n) == {s \in SUBSET S : Cardinality(s) <= n}
           Step(g, s) == IF s = {} THEN 0 ELSE f[First(s)] + g[s \ {First(s)}]
           Good(n) == \E g : g = [s \in Small(n) |-> Step(g, s)]
           T == {n \in Nat : Good(n)}
<1>1. \A s \in SUBSET S : IsFiniteSet(s) /\ Cardinality(s) \in Nat
                          /\ (Cardinality(s) = 0 => s = {})
  BY FS_Subset, FS_CardinalityType, FS_EmptySet
<1>2. \A s \in SUBSET S : s # {} =>
        /\ s \ {First(s)} \in SUBSET S
        /\ Cardinality(s \ {First(s)}) = Cardinality(s) - 1
  BY FirstFacts
<1>3. 0 \in T
  <2>1. \A s \in Small(0) : s = {}
    BY <1>1
  <2>2. [s \in Small(0) |-> 0] = [s \in Small(0) |-> Step([t \in Small(0) |-> 0], s)]
    BY <2>1
  <2> QED BY <2>2
<1>4. ASSUME NEW n \in Nat, n \in T PROVE n + 1 \in T
  <2>1. PICK g : g = [s \in Small(n) |-> Step(g, s)]
    BY <1>4
  <2> DEFINE h == [s \in Small(n + 1) |-> Step(g, s)]
  <2>2. \A s \in Small(n) : h[s] = g[s]
    <3>1. \A s \in Small(n) : s \in Small(n + 1)
      BY <1>1
    <3> QED BY <2>1, <3>1
  <2>3. \A s \in Small(n + 1) : s # {} => s \ {First(s)} \in Small(n)
    BY <1>1, <1>2
  <2>4. \A s \in Small(n + 1) : Step(g, s) = Step(h, s)
    <3> HIDE DEF h, Small
    <3> QED BY <2>2, <2>3
  <2>5. h = [s \in Small(n + 1) |-> Step(h, s)]
    <3>1. h = [s \in Small(n + 1) |-> Step(g, s)]
      OBVIOUS
    <3> HIDE DEF h, Small, Step
    <3> QED BY <2>4, <3>1
  <2> HIDE DEF h
  <2>6. Good(n + 1)
    <3> HIDE DEF Step, Small
    <3> QED BY <2>5
  <2> HIDE DEF Good
  <2> QED BY <2>6
<1>5. Cardinality(S) \in T
  <2> HIDE DEF T
  <2>1. Cardinality(S) \in Nat
    BY <1>1
  <2> QED BY <1>3, <1>4, <2>1, NatsFrom
<1>6. Small(Cardinality(S)) = SUBSET S
  BY FS_Subset
<1>7. PICK g : g = [s \in Small(Cardinality(S)) |-> Step(g, s)]
  BY <1>5
<1>8. g = [s \in SUBSET S |-> Step(g, s)]
  <2> HIDE DEF Small
  <2> QED BY <1>6, <1>7
<1> QED BY <1>8 DEF Adds

(* The value does not depend on the element that is taken first.           *)
LEMMA AddsAnyOrder ==
  ASSUME NEW f, NEW S, IsFiniteSet(S), Numbers(f, S), NEW g, Adds(g, f, S)
  PROVE  \A s \in SUBSET S : /\ g[s] \in Int
                             /\ s = {} => g[s] = 0
                             /\ \A x \in s : g[s] = f[x] + g[s \ {x}]
<1> DEFINE Good(s) == g[s] \in Int /\ \A x \in s : g[s] = f[x] + g[s \ {x}]
           T == {n \in Nat : \A s \in SUBSET S : Cardinality(s) <= n => Good(s)}
<1>1. \A s \in SUBSET S : /\ s = {} => g[s] = 0
                          /\ s # {} => g[s] = f[First(s)] + g[s \ {First(s)}]
  BY DEF Adds
<1>2. \A s \in SUBSET S : Cardinality(s) \in Nat /\ (Cardinality(s) = 0 => s = {})
  BY FS_Subset, FS_CardinalityType, FS_EmptySet
<1>3. ASSUME NEW s \in SUBSET S, s = {} PROVE Good(s)
  <2>1. g[s] = 0
    BY <1>1, <1>3
  <2>2. \A x \in s : g[s] = f[x] + g[s \ {x}]
    BY <1>3
  <2> QED BY <2>1, <2>2
<1>4. 0 \in T
  <2> SUFFICES ASSUME NEW s \in SUBSET S, Cardinality(s) <= 0 PROVE Good(s)
    OBVIOUS
  <2>1. s = {}
    BY <1>2
  <2> HIDE DEF Good
  <2> QED BY <1>3, <2>1
<1>5. ASSUME NEW n \in Nat, \A t \in SUBSET S : Cardinality(t) <= n => Good(t),
             NEW s \in SUBSET S, Cardinality(s) <= n + 1, s # {}
      PROVE  Good(s)
  <2> DEFINE y == First(s)
  <2>1. y \in s
    BY <1>5 DEF First
  <2>2. \A x \in s : s \ {x} \in SUBSET S /\ Cardinality(s \ {x}) <= n
    <3>1. \A x \in s : s \ {x} \in SUBSET S /\ Cardinality(s \ {x}) = Cardinality(s) - 1
      BY FirstFacts
    <3>2. Cardinality(s) \in Nat
      BY <1>2
    <3> QED BY <1>5, <3>1, <3>2
  <2>3. \A x \in s : Good(s \ {x}) /\ f[x] \in Int
    <3> HIDE DEF Good
    <3> QED BY <1>5, <2>2 DEF Numbers
  <2>4. g[s] = f[y] + g[s \ {y}]
    BY <1>1, <1>5
  <2> HIDE DEF y
  <2>5. ASSUME NEW x \in s, x # y PROVE g[s] = f[x] + g[s \ {x}]
    <3> DEFINE t == s \ {y}
               r == t \ {x}
    <3>1. x \in t /\ y \in s \ {x} /\ (s \ {x}) \ {y} = r
      BY <2>1, <2>5
    <3>2. t \in SUBSET S /\ Cardinality(t) <= n /\ Good(t) /\ Good(s \ {x})
      BY <2>1, <2>2, <2>3
    <3>3. g[t] = f[x] + g[r] /\ g[s \ {x}] = f[y] + g[r]
      BY <3>1, <3>2
    <3>4. g[s] = f[y] + g[t]
      BY <2>4
    <3> HIDE DEF t
    <3>5. r \in SUBSET S /\ Cardinality(r) = Cardinality(t) - 1 /\ Cardinality(t) \in Nat
      BY <3>1, <3>2, FirstFacts
    <3>6. Cardinality(r) <= n
      BY <3>2, <3>5
    <3>7. g[r] \in Int
      BY <1>5, <3>5, <3>6
    <3>8. f[x] \in Int /\ f[y] \in Int
      BY <2>1, <2>3
    <3> HIDE DEF r
    <3> QED BY <3>3, <3>4, <3>7, <3>8
  <2>6. g[s \ {y}] \in Int /\ f[y] \in Int
    BY <2>1, <2>3
  <2>7. g[s] \in Int
    BY <2>4, <2>6
  <2>8. \A x \in s : g[s] = f[x] + g[s \ {x}]
    BY <2>4, <2>5
  <2> QED BY <2>7, <2>8
<1>6. ASSUME NEW n \in Nat, n \in T PROVE n + 1 \in T
  <2> HIDE DEF Good
  <2>1. \A t \in SUBSET S : Cardinality(t) <= n => Good(t)
    BY <1>6
  <2>2. ASSUME NEW s \in SUBSET S, Cardinality(s) <= n + 1 PROVE Good(s)
    BY <1>3, <1>5, <2>1, <2>2
  <2> QED BY <2>2
<1>7. \A s \in SUBSET S : Good(s)
  <2>1. Nat \subseteq T
    <3> HIDE DEF T
    <3> QED BY <1>4, <1>6, NatsFrom
  <2> HIDE DEF Good
  <2>2. ASSUME NEW s \in SUBSET S PROVE Good(s)
    <3>1. Cardinality(s) \in T /\ Cardinality(s) <= Cardinality(s)
      BY <1>2, <2>1
    <3> QED BY <3>1
  <2> QED BY <2>2
<1> QED BY <1>1, <1>7

(* Functions that agree on a set have the same sum over it, whatever larger *)
(* set the sums of one of them were built on.                              *)
LEMMA AddsAgree ==
  ASSUME NEW f, NEW S, IsFiniteSet(S), NEW g, Adds(g, f, S),
         NEW e, NEW U \in SUBSET S, NEW h, Adds(h, e, U), \A x \in U : e[x] = f[x]
  PROVE  \A s \in SUBSET U : h[s] = g[s]
<1> DEFINE T == {n \in Nat : \A s \in SUBSET U : Cardinality(s) = n => h[s] = g[s]}
<1>1. \A s \in SUBSET U : /\ s = {} => h[s] = 0
                          /\ s # {} => h[s] = e[First(s)] + h[s \ {First(s)}]
  BY DEF Adds
<1>2. \A s \in SUBSET U : /\ s = {} => g[s] = 0
                          /\ s # {} => g[s] = f[First(s)] + g[s \ {First(s)}]
  BY DEF Adds
<1>3. \A s \in SUBSET U : Cardinality(s) \in Nat /\ (Cardinality(s) = 0 => s = {})
  BY FS_Subset, FS_CardinalityType, FS_EmptySet
<1>4. 0 \in T
  BY <1>1, <1>2, <1>3
<1>5. ASSUME NEW n \in Nat, n \in T PROVE n + 1 \in T
  <2> SUFFICES ASSUME NEW s \in SUBSET U, Cardinality(s) = n + 1 PROVE h[s] = g[s]
    OBVIOUS
  <2>1. s # {}
    BY FS_EmptySet
  <2>2. First(s) \in s /\ s \ {First(s)} \in SUBSET U /\ Cardinality(s \ {First(s)}) = n
    <3>1. First(s) \in s /\ Cardinality(s \ {First(s)}) = Cardinality(s) - 1
      BY <2>1, FirstFacts
    <3> QED BY <3>1
  <2>3. h[s \ {First(s)}] = g[s \ {First(s)}] /\ e[First(s)] = f[First(s)]
    BY <1>5, <2>2
  <2> QED BY <1>1, <1>2, <2>1, <2>3
<1> QED
  <2>1. Nat \subseteq T
    <3> HIDE DEF T
    <3> QED BY <1>4, <1>5, NatsFrom
  <2> QED BY <1>3, <2>1

(* SumOf is the value of any function that adds.                           *)
LEMMA SumOfAdds ==
  ASSUME NEW f, NEW S, IsFiniteSet(S), NEW g, Adds(g, f, S)
  PROVE  SumOf(f, S) = g[S]
<1>1. PICK h : Adds(h, f, S) /\ SumOf(f, S) = h[S]
  BY DEF Adds, First, SumOf, MapThenSumSet, MapThenFoldSet
<1> QED BY <1>1, AddsAgree

LEMMA SumEmpty == ASSUME NEW f PROVE SumOf(f, {}) = 0
<1>1. IsFiniteSet({})
  BY FS_EmptySet
<1>2. PICK g : Adds(g, f, {})
  BY <1>1, AddsExists
<1>3. g[{}] = 0
  BY <1>2 DEF Adds
<1> QED BY <1>1, <1>2, <1>3, SumOfAdds

(* The sum with and without an element.                                    *)
LEMMA SumRemove ==
  ASSUME NEW f, NEW S, IsFiniteSet(S), Numbers(f, S), NEW x \in S
  PROVE  SumOf(f, S) = f[x] + SumOf(f, S \ {x})
<1>1. PICK g : Adds(g, f, S)
  BY AddsExists
<1>2. IsFiniteSet(S \ {x})
  BY FS_Subset
<1>3. PICK h : Adds(h, f, S \ {x})
  BY <1>2, AddsExists
<1>4. h[S \ {x}] = g[S \ {x}]
  BY <1>1, <1>3, AddsAgree
<1>5. g[S] = f[x] + g[S \ {x}]
  BY <1>1, AddsAnyOrder
<1> QED BY <1>1, <1>2, <1>3, <1>4, <1>5, SumOfAdds

LEMMA SumAdd ==
  ASSUME NEW f, NEW S, IsFiniteSet(S), Numbers(f, S), NEW x, x \notin S, f[x] \in Int
  PROVE  SumOf(f, S \cup {x}) = f[x] + SumOf(f, S)
<1>1. IsFiniteSet(S \cup {x}) /\ Numbers(f, S \cup {x})
  BY FS_AddElement DEF Numbers
<1>2. (S \cup {x}) \ {x} = S
  OBVIOUS
<1> QED BY <1>1, <1>2, SumRemove

LEMMA SumInt ==
  ASSUME NEW f, NEW S, IsFiniteSet(S), Numbers(f, S)
  PROVE  SumOf(f, S) \in Int
<1>1. PICK g : Adds(g, f, S)
  BY AddsExists
<1>2. g[S] \in Int
  BY <1>1, AddsAnyOrder
<1> QED BY <1>1, <1>2, SumOfAdds

(* Functions that agree on a set have the same sum.                        *)
LEMMA SumSame ==
  ASSUME NEW f, NEW e, NEW S, IsFiniteSet(S), \A x \in S : e[x] = f[x]
  PROVE  SumOf(e, S) = SumOf(f, S)
<1>1. PICK g : Adds(g, f, S)
  BY AddsExists
<1>2. PICK h : Adds(h, e, S)
  BY AddsExists
<1>3. h[S] = g[S]
  BY <1>1, <1>2, AddsAgree
<1> QED BY <1>1, <1>2, <1>3, SumOfAdds

(* Functions that differ in one place.                                     *)
LEMMA SumChange ==
  ASSUME NEW f, NEW e, NEW S, IsFiniteSet(S), Numbers(f, S), NEW x \in S, e[x] \in Int,
         \A y \in S \ {x} : e[y] = f[y]
  PROVE  SumOf(e, S) = SumOf(f, S) + e[x] - f[x]
<1>1. IsFiniteSet(S \ {x}) /\ Numbers(f, S \ {x}) /\ Numbers(e, S)
  BY FS_Subset DEF Numbers
<1>2. SumOf(f, S) = f[x] + SumOf(f, S \ {x}) /\ SumOf(e, S) = e[x] + SumOf(e, S \ {x})
  BY <1>1, SumRemove
<1>3. SumOf(e, S \ {x}) = SumOf(f, S \ {x}) /\ SumOf(f, S \ {x}) \in Int
  BY <1>1, SumSame, SumInt
<1>4. f[x] \in Int
  BY DEF Numbers
<1> QED BY <1>2, <1>3, <1>4

(* A sum of naturals is a natural, and grows with the set.                 *)
LEMMA SumNat ==
  ASSUME NEW f, NEW S, IsFiniteSet(S), \A x \in S : f[x] \in Nat
  PROVE  SumOf(f, S) \in Nat
<1> DEFINE T == {n \in Nat : \A s \in SUBSET S : Cardinality(s) = n => SumOf(f, s) \in Nat}
<1>1. \A s \in SUBSET S : IsFiniteSet(s) /\ Cardinality(s) \in Nat
                          /\ (Cardinality(s) = 0 => s = {}) /\ Numbers(f, s)
  BY FS_Subset, FS_CardinalityType, FS_EmptySet DEF Numbers
<1>2. 0 \in T
  BY <1>1, SumEmpty
<1>3. ASSUME NEW n \in Nat, n \in T PROVE n + 1 \in T
  <2> SUFFICES ASSUME NEW s \in SUBSET S, Cardinality(s) = n + 1 PROVE SumOf(f, s) \in Nat
    OBVIOUS
  <2>1. PICK x : x \in s
    BY FS_EmptySet
  <2>2. s \ {x} \in SUBSET S /\ Cardinality(s \ {x}) = n
    <3>1. Cardinality(s \ {x}) = Cardinality(s) - 1
      BY <2>1, FirstFacts
    <3> QED BY <3>1
  <2>3. SumOf(f, s \ {x}) \in Nat /\ f[x] \in Nat
    BY <1>3, <2>1, <2>2
  <2>4. SumOf(f, s) = f[x] + SumOf(f, s \ {x})
    BY <1>1, <2>1, SumRemove
  <2> QED BY <2>3, <2>4
<1> QED
  <2>1. Nat \subseteq T
    <3> HIDE DEF T
    <3> QED BY <1>2, <1>3, NatsFrom
  <2> QED BY <1>1, <2>1

LEMMA SumZero ==
  ASSUME NEW f, NEW S, IsFiniteSet(S), \A x \in S : f[x] = 0
  PROVE  SumOf(f, S) = 0
<1> DEFINE T == {n \in Nat : \A s \in SUBSET S : Cardinality(s) = n => SumOf(f, s) = 0}
<1>1. \A s \in SUBSET S : IsFiniteSet(s) /\ Cardinality(s) \in Nat
                          /\ (Cardinality(s) = 0 => s = {}) /\ Numbers(f, s)
  BY FS_Subset, FS_CardinalityType, FS_EmptySet DEF Numbers
<1>2. 0 \in T
  BY <1>1, SumEmpty
<1>3. ASSUME NEW n \in Nat, n \in T PROVE n + 1 \in T
  <2> SUFFICES ASSUME NEW s \in SUBSET S, Cardinality(s) = n + 1 PROVE SumOf(f, s) = 0
    OBVIOUS
  <2>1. PICK x : x \in s
    BY FS_EmptySet
  <2>2. s \ {x} \in SUBSET S /\ Cardinality(s \ {x}) = n
    <3>1. Cardinality(s \ {x}) = Cardinality(s) - 1
      BY <2>1, FirstFacts
    <3> QED BY <3>1
  <2>3. SumOf(f, s \ {x}) = 0 /\ f[x] = 0
    BY <1>3, <2>1, <2>2
  <2>4. SumOf(f, s) = f[x] + SumOf(f, s \ {x})
    BY <1>1, <2>1, SumRemove
  <2> QED BY <2>3, <2>4
<1> QED
  <2>1. Nat \subseteq T
    <3> HIDE DEF T
    <3> QED BY <1>2, <1>3, NatsFrom
  <2> QED BY <1>1, <2>1

LEMMA SumCovers ==
  ASSUME NEW f, NEW R, NEW S, IsFiniteSet(R), IsFiniteSet(S), \A x \in R \cup S : f[x] \in Nat,
         \A x \in R \ S : f[x] = 0
  PROVE  SumOf(f, R) <= SumOf(f, S)
<1> DEFINE T == {n \in Nat : \A r \in SUBSET R, s \in SUBSET S :
                    Cardinality(r) = n /\ r \cap S \subseteq s => SumOf(f, r) <= SumOf(f, s)}
<1>1. \A r \in SUBSET R : IsFiniteSet(r) /\ Cardinality(r) \in Nat
                          /\ (Cardinality(r) = 0 => r = {}) /\ Numbers(f, r) /\ SumOf(f, r) \in Nat
  BY FS_Subset, FS_CardinalityType, FS_EmptySet, SumNat DEF Numbers
<1>2. \A s \in SUBSET S : IsFiniteSet(s) /\ Numbers(f, s) /\ SumOf(f, s) \in Nat
  BY FS_Subset, SumNat DEF Numbers
<1>3. 0 \in T
  <2>1. SumOf(f, {}) = 0
    BY SumEmpty
  <2> QED BY <1>1, <1>2, <2>1
<1>4. ASSUME NEW n \in Nat, n \in T PROVE n + 1 \in T
  <2> SUFFICES ASSUME NEW r \in SUBSET R, NEW s \in SUBSET S, Cardinality(r) = n + 1, r \cap S \subseteq s
               PROVE  SumOf(f, r) <= SumOf(f, s)
    OBVIOUS
  <2>1. PICK x : x \in r
    <3>1. Cardinality({}) = 0 /\ n + 1 # 0
      BY FS_EmptySet
    <3>2. r # {}
      BY <3>1
    <3> QED BY <3>2
  <2>2. r \ {x} \in SUBSET R /\ Cardinality(r \ {x}) = n
    <3>1. Cardinality(r \ {x}) = Cardinality(r) - 1
      BY <2>1, FirstFacts
    <3> QED BY <3>1
  <2>3. SumOf(f, r) = f[x] + SumOf(f, r \ {x}) /\ f[x] \in Nat
    BY <1>1, <2>1, SumRemove
  <2>4. CASE x \in s
    <3>1. s \ {x} \in SUBSET S /\ (r \ {x}) \cap S \subseteq s \ {x}
      OBVIOUS
    <3>2. SumOf(f, r \ {x}) <= SumOf(f, s \ {x})
      BY <1>4, <2>2, <3>1
    <3>3. SumOf(f, s) = f[x] + SumOf(f, s \ {x})
      BY <1>2, <2>4, SumRemove
    <3>4. SumOf(f, r \ {x}) \in Nat /\ SumOf(f, s \ {x}) \in Nat
      BY <1>1, <1>2, <2>2, <3>1
    <3> QED BY <2>3, <3>2, <3>3, <3>4
  <2>5. CASE x \notin s
    <3>1. f[x] = 0
      BY <2>1, <2>5
    <3>2. SumOf(f, r \ {x}) <= SumOf(f, s)
      BY <1>4, <2>2
    <3>3. SumOf(f, r \ {x}) \in Nat
      BY <1>1, <2>2
    <3> QED BY <2>3, <3>1, <3>2, <3>3
  <2> QED BY <2>4, <2>5
<1> QED
  <2>1. Nat \subseteq T
    <3> HIDE DEF T
    <3> QED BY <1>3, <1>4, NatsFrom
  <2> QED BY <1>1, <2>1

LEMMA SumWithout ==
  ASSUME NEW f, NEW S, IsFiniteSet(S), \A x \in S : f[x] \in Nat, NEW x \in S
  PROVE  SumOf(f, S) >= f[x]
<1>1. IsFiniteSet(S \ {x}) /\ Numbers(f, S)
  BY FS_Subset DEF Numbers
<1>2. SumOf(f, S \ {x}) \in Nat /\ f[x] \in Nat
  BY <1>1, SumNat
<1>3. SumOf(f, S) = f[x] + SumOf(f, S \ {x})
  BY <1>1, SumRemove
<1> QED BY <1>2, <1>3
=============================================================================
