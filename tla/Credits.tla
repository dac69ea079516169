------------------------------ MODULE Credits -------------------------------
(* What one account may compute: its credit account and the ledger of it     *)
(* (credit_service.py), the charge and settlement of a message at its end    *)
(* (billing_metering_service.final, billing_reconciliation_service.settle),  *)
(* the renewal of a credits package that a charge or the hourly scan sets    *)
(* off (auto_renewal_service.py), and the codes that grant credits           *)
(* (redeem_code_service.py).                                                 *)
(*                                                                           *)
(* Each worker has a database session.  An object the session has read stays *)
(* as it was read until the session ends or rolls back: sessions are made    *)
(* with expire_on_commit=False, and SELECT ... FOR UPDATE does not read an   *)
(* object again.  An UPDATE writes the columns the session has changed.      *)
(* A membership is in force throughout, so that the quota may be used.       *)
EXTENDS Integers, Sequences, FiniteSets, FiniteSetsExt

CONSTANTS
  Messages,      \* messages charged at their end
  Codes,         \* redeem codes of a credits package
  Workers, NoWorker, Nothing,
  Charges,       \* credits of a message, one entry for each model it used
  Estimate,      \* the sum of what its model calls were estimated at
  Opening,       \* the credit account at the start
  CodeGrant,     \* credits of a code
  PackageGrant, Price, Threshold,  \* the package that is renewed
  Money,         \* the balance at the start
  MaxClicks, MaxCrashes, ClosesPlan   \* bounds of the model

MaxFails == 3    \* MAX_FAIL_COUNT
Pools == {"quota", "permanent"}
Credit == [Pools -> Nat]

ASSUME CreditsAssumption ==
  /\ NoWorker \notin Workers
  /\ Nothing \notin Messages \cup Codes
  /\ Charges \in [Messages -> Seq(Nat \ {0})] /\ Estimate \in [Messages -> Nat]
  /\ Opening \in Credit
  /\ CodeGrant \in Nat \ {0} /\ PackageGrant \in Nat \ {0} /\ Price \in Nat \ {0}
  /\ Threshold \in Nat \ {0} /\ Money \in Nat
  /\ MaxClicks \in Nat /\ MaxCrashes \in Nat /\ ClosesPlan \in BOOLEAN

VARIABLES
  credit,    \* the credit account
  ledger,    \* credit_transaction
  settled,   \* billing_reconciliation: the messages settled
  code,      \* the status of each code
  renewal,   \* the row of auto_renewal
  money,     \* the balance
  bought,    \* number of paid renewal orders
  open,      \* is the package on sale?
  lock,      \* who holds the row of the credit account
  job,       \* what each worker does
  turn,      \* how the charge of each message ended
  clicks, crashes

vars == <<credit, ledger, settled, code, renewal, money, bought, open, lock, job,
          turn, clicks, crashes>>

Transaction(type, id, amount) == [type |-> type, id |-> id, amount |-> amount]
Rows == [type : {"consume", "adjust"}, id : Messages, amount : Int]
          \cup [type : {"redeem_grant"}, id : Codes, amount : Int]
          \cup [type : {"order_grant"}, id : Nat, amount : Int]

Booked(rows, type, id) == \E r \in rows : r.type = type /\ r.id = id
Available(c) == c["quota"] + c["permanent"]

\* seen is what the session has read of the account, mine what it made of it,
\* rows what it has added and not committed.
Idle == [op |-> "none", arg |-> Nothing, pc |-> "idle", group |-> 1, fails |-> 0,
         loaded |-> FALSE, seen |-> Opening, mine |-> Opening, rows |-> {}]

At(w, op, pc) == job[w].op = op /\ job[w].pc = pc
In(w, pc) == job[w].pc = pc

Init ==
  /\ credit = Opening
  /\ ledger = {}
  /\ settled = {}
  /\ code = [c \in Codes |-> "unused"]
  /\ renewal = [status |-> "none", fails |-> 0, recent |-> FALSE]
  /\ money = Money
  /\ bought = 0
  /\ open = TRUE
  /\ lock = NoWorker
  /\ job = [w \in Workers |-> Idle]
  /\ turn = [m \in Messages |-> "none"]
  /\ clicks = 0 /\ crashes = 0

-----------------------------------------------------------------------------
(* The session                                                               *)

CanLock(w) == lock \in {NoWorker, w}
Released(w) == IF lock = w THEN NoWorker ELSE lock

\* The account as the session has it, read now if it was not before.
Loaded(w) == IF job[w].loaded THEN job[w] ELSE [job[w] EXCEPT !.loaded = TRUE, !.seen = credit, !.mine = credit]

\* What the UPDATE of the session leaves in the row.
Written(j) == [p \in Pools |-> IF j.mine[p] = j.seen[p] THEN credit[p] ELSE j.mine[p]]

\* A commit keeps the objects of the session.
Committed(j) == [j EXCEPT !.seen = j.mine, !.rows = {}]

\* A rollback expires them.
Expired(j) == [j EXCEPT !.loaded = FALSE, !.seen = Opening, !.mine = Opening, !.rows = {}]

Smaller(m, n) == IF m <= n THEN m ELSE n

\* _apply_consume: the quota, then the permanent credits, as far as they go.
Taken(c, n) ==
  LET q == Smaller(c["quota"], n) IN
  [c EXCEPT !["quota"] = c["quota"] - q,
            !["permanent"] = c["permanent"] - Smaller(c["permanent"], n - q)]

Given(c, n) == [c EXCEPT !["permanent"] = c["permanent"] + n]

-----------------------------------------------------------------------------
(* The charge of a message: final, consume_for_feature, consume_for_message  *)

Models(m) == 1 .. Len(Charges[m])

Charge(w, m) ==
  /\ job[w] = Idle /\ turn[m] = "none"
  /\ turn' = [turn EXCEPT ![m] = "running"]
  /\ job' = [job EXCEPT ![w] = [Idle EXCEPT !.op = "charge", !.arg = m, !.pc = "group"]]
  /\ UNCHANGED <<credit, ledger, settled, code, renewal, money, bought, open, lock, clicks, crashes>>

\* Whether the message was charged is looked up for each model.
ChargeSkip(w) ==
  /\ At(w, "charge", "group")
  /\ LET j == job[w] IN
     IF j.group > Len(Charges[j.arg])
     THEN job' = [job EXCEPT ![w].pc = "settle"]
     ELSE /\ Booked(ledger \cup j.rows, "consume", j.arg)
          /\ job' = [job EXCEPT ![w].group = j.group + 1]
  /\ UNCHANGED <<credit, ledger, settled, code, renewal, money, bought, open, lock, turn, clicks, crashes>>

\* Mutant of ChargeTake: the account is not locked.
ChargeTakeUnlocked(w) ==
  LET j == Loaded(w)  mine == Taken(j.mine, Charges[j.arg][j.group]) IN
  /\ At(w, "charge", "group")
  /\ j.group \in Models(j.arg) /\ ~Booked(ledger \cup j.rows, "consume", j.arg)
  /\ job' = [job EXCEPT ![w] = [j EXCEPT !.mine = mine, !.pc = "hook",
               !.rows = {Transaction("consume", j.arg, Available(mine) - Available(j.mine))}]]
  /\ UNCHANGED <<credit, ledger, settled, code, renewal, money, bought, open, lock, turn, clicks, crashes>>

ChargeTake(w) ==
  LET j == Loaded(w)  mine == Taken(j.mine, Charges[j.arg][j.group]) IN
  /\ At(w, "charge", "group")
  /\ j.group \in Models(j.arg) /\ ~Booked(ledger \cup j.rows, "consume", j.arg)
  /\ CanLock(w)
  /\ lock' = w
  /\ job' = [job EXCEPT ![w] = [j EXCEPT !.mine = mine, !.pc = "hook",
               !.rows = {Transaction("consume", j.arg, Available(mine) - Available(j.mine))}]]
  /\ UNCHANGED <<credit, ledger, settled, code, renewal, money, bought, open, turn, clicks, crashes>>

-----------------------------------------------------------------------------
(* The renewal: check_credits_threshold and _run_renew, in the session of a  *)
(* charge or of the scan                                                     *)

After(j) == IF j.op = "charge" THEN [j EXCEPT !.pc = "group", !.group = j.group + 1, !.fails = 0] ELSE Idle

\* Who looks at the threshold: a charge, or the scan, which reads the account.
Looks(w) == At(w, "charge", "hook") \/ job[w] = Idle
Looking(w) == IF job[w] = Idle THEN [Loaded(w) EXCEPT !.op = "scan"] ELSE job[w]

\* The credits looked at are the session's; a recent renewal is not repeated.
Due(w) == renewal.status = "active" /\ Looking(w).mine["permanent"] <= Threshold /\ ~renewal.recent

RenewSkip(w) ==
  /\ At(w, "charge", "hook") /\ ~Due(w)
  /\ job' = [job EXCEPT ![w] = After(job[w])]
  /\ UNCHANGED <<credit, ledger, settled, code, renewal, money, bought, open, lock, turn, clicks, crashes>>

\* create_order refuses a package that is not on sale: all is rolled back.
RenewRefused(w) ==
  /\ Looks(w) /\ Due(w) /\ ~open
  /\ job' = [job EXCEPT ![w] = [Expired(Looking(w)) EXCEPT !.pc = "failing"]]
  /\ lock' = Released(w)
  /\ UNCHANGED <<credit, ledger, settled, code, renewal, money, bought, open, turn, clicks, crashes>>

\* Mutant of RenewOrder: the order is only flushed.
RenewOrderFlushed(w) ==
  /\ Looks(w) /\ Due(w) /\ open
  /\ job' = [job EXCEPT ![w] = [Looking(w) EXCEPT !.pc = "paying", !.fails = renewal.fails]]
  /\ UNCHANGED <<credit, ledger, settled, code, renewal, money, bought, open, lock, turn, clicks, crashes>>

\* create_order commits the order, and with it the charge.
RenewOrder(w) ==
  LET j == Looking(w) IN
  /\ Looks(w) /\ Due(w) /\ open
  /\ credit' = Written(j)
  /\ ledger' = ledger \cup j.rows
  /\ job' = [job EXCEPT ![w] = [Committed(j) EXCEPT !.pc = "paying", !.fails = renewal.fails]]
  /\ lock' = Released(w)
  /\ UNCHANGED <<settled, code, renewal, money, bought, open, turn, clicks, crashes>>

RenewShort(w) ==
  /\ In(w, "paying") /\ money < Price
  /\ job' = [job EXCEPT ![w] = [Expired(job[w]) EXCEPT !.pc = "failing"]]
  /\ lock' = Released(w)
  /\ UNCHANGED <<credit, ledger, settled, code, renewal, money, bought, open, turn, clicks, crashes>>

\* pay_with_balance and confirm_paid, up to their commit.
RenewPay(w) ==
  LET j == [Loaded(w) EXCEPT !.mine = Given(Loaded(w).mine, PackageGrant)] IN
  /\ In(w, "paying") /\ money >= Price
  /\ CanLock(w)
  /\ money' = money - Price
  /\ bought' = bought + 1
  /\ credit' = Written(j)
  /\ ledger' = ledger \cup j.rows \cup {Transaction("order_grant", bought + 1, PackageGrant)}
  /\ job' = [job EXCEPT ![w] = [Committed(j) EXCEPT !.pc = "paid"]]
  /\ lock' = Released(w)
  /\ UNCHANGED <<settled, code, renewal, open, turn, clicks, crashes>>

\* The second commit of _run_renew.  fail_count is written if it was not 0.
RenewRecord(w) ==
  /\ In(w, "paid")
  /\ renewal' = [renewal EXCEPT !.recent = TRUE,
                   !.fails = IF job[w].fails = 0 THEN renewal.fails ELSE 0]
  /\ job' = [job EXCEPT ![w] = After(job[w])]
  /\ UNCHANGED <<credit, ledger, settled, code, money, bought, open, lock, turn, clicks, crashes>>

\* Mutant of RenewFail: the third failure does not stop the renewal.
RenewFailOn(w) ==
  /\ In(w, "failing")
  /\ renewal' = [renewal EXCEPT !.fails = Smaller(renewal.fails + 1, MaxFails)]
  /\ job' = [job EXCEPT ![w] = After(job[w])]
  /\ UNCHANGED <<credit, ledger, settled, code, money, bought, open, lock, turn, clicks, crashes>>

\* The row is read again after the rollback.
RenewFail(w) ==
  /\ In(w, "failing")
  /\ renewal' = [renewal EXCEPT !.fails = renewal.fails + 1,
                   !.status = IF renewal.fails + 1 >= MaxFails THEN "failed" ELSE renewal.status]
  /\ job' = [job EXCEPT ![w] = After(job[w])]
  /\ UNCHANGED <<credit, ledger, settled, code, money, bought, open, lock, turn, clicks, crashes>>

-----------------------------------------------------------------------------
(* settle and the commit at the end of final                                 *)

Actual(m) == MapThenSumSet(LAMBDA i : Charges[m][i], Models(m))
Diff(m) == Actual(m) - Estimate[m]

\* adjust_credits: a difference is given back, or taken as long as there is enough.
Adjusted(j) ==
  LET d == Diff(j.arg) IN
  IF d = 0 THEN j
  ELSE [j EXCEPT !.mine = IF d < 0 THEN Given(j.mine, -d) ELSE Taken(j.mine, d),
                 !.rows = j.rows \cup {Transaction("adjust", j.arg, -d)}]

Short(j) == Diff(j.arg) > Available(j.mine)

Settle(w) ==
  LET j == Adjusted(Loaded(w)) IN
  /\ At(w, "charge", "settle")
  /\ CanLock(w)
  /\ ~Short(Loaded(w))
  /\ credit' = Written(j)
  /\ ledger' = ledger \cup j.rows
  /\ settled' = settled \cup {j.arg}
  /\ turn' = [turn EXCEPT ![j.arg] = "reported"]
  /\ job' = [job EXCEPT ![w] = Idle]
  /\ lock' = Released(w)
  /\ UNCHANGED <<code, renewal, money, bought, open, clicks, crashes>>

\* The settlement raises after it has taken what there was, and final with it:
\* the answer is saved, which commits what the session holds, or all is lost.
SettleShort(w) ==
  LET j == [Loaded(w) EXCEPT !.mine = Taken(Loaded(w).mine, Diff(Loaded(w).arg))] IN
  /\ At(w, "charge", "settle")
  /\ CanLock(w)
  /\ Short(Loaded(w))
  /\ \/ credit' = Written(j) /\ ledger' = ledger \cup j.rows
     \/ UNCHANGED <<credit, ledger>>
  /\ turn' = [turn EXCEPT ![j.arg] = "raised"]
  /\ job' = [job EXCEPT ![w] = Idle]
  /\ lock' = Released(w)
  /\ UNCHANGED <<settled, code, renewal, money, bought, open, clicks, crashes>>

-----------------------------------------------------------------------------
(* Codes                                                                     *)

\* Mutant of Redeeming: a code is looked up without FOR UPDATE.
RedeemingUnlocked(c) == FALSE

Redeeming(c) == \E w \in Workers : job[w].op = "redeem" /\ job[w].arg = c

\* The code is locked and checked; the account is read, and not locked.
RedeemCheck(w, c) ==
  /\ job[w] = Idle /\ ~Redeeming(c)
  /\ code[c] = "unused"
  /\ ~Booked(ledger, "redeem_grant", c)
  /\ job' = [job EXCEPT ![w] = [Loaded(w) EXCEPT !.op = "redeem", !.arg = c, !.pc = "granting"]]
  /\ UNCHANGED <<credit, ledger, settled, code, renewal, money, bought, open, lock, turn, clicks, crashes>>

RedeemCommit(w) ==
  LET j == [job[w] EXCEPT !.mine = Given(job[w].mine, CodeGrant)] IN
  /\ At(w, "redeem", "granting")
  /\ CanLock(w)
  /\ credit' = Written(j)
  /\ ledger' = ledger \cup {Transaction("redeem_grant", j.arg, CodeGrant)}
  /\ code' = [code EXCEPT ![j.arg] = "used"]
  /\ job' = [job EXCEPT ![w] = Idle]
  /\ UNCHANGED <<settled, renewal, money, bought, open, lock, turn, clicks, crashes>>

\* disable_code does not look at the status.
Disable(c) ==
  /\ code[c] # "disabled" /\ ~Redeeming(c)
  /\ code' = [code EXCEPT ![c] = "disabled"]
  /\ UNCHANGED <<credit, ledger, settled, renewal, money, bought, open, lock, job, turn, clicks, crashes>>

-----------------------------------------------------------------------------
(* The user, the administrator, time and failures                            *)

\* create; opening it again has no effect, since nothing commits it.
Open ==
  /\ renewal.status = "none" /\ open
  /\ renewal' = [renewal EXCEPT !.status = "active"]
  /\ UNCHANGED <<credit, ledger, settled, code, money, bought, open, lock, job, turn, clicks, crashes>>

SetStatus(s) ==
  /\ renewal.status \notin {"none", "cancelled"} /\ clicks < MaxClicks
  /\ s # renewal.status
  /\ renewal' = [renewal EXCEPT !.status = s]
  /\ clicks' = clicks + 1
  /\ UNCHANGED <<credit, ledger, settled, code, money, bought, open, lock, job, turn, crashes>>

CooldownEnds ==
  /\ renewal.recent
  /\ renewal' = [renewal EXCEPT !.recent = FALSE]
  /\ UNCHANGED <<credit, ledger, settled, code, money, bought, open, lock, job, turn, clicks, crashes>>

ClosePlan ==
  /\ ClosesPlan /\ open
  /\ open' = FALSE
  /\ UNCHANGED <<credit, ledger, settled, code, renewal, money, bought, lock, job, turn, clicks, crashes>>

\* A worker dies and the database rolls back; nobody charges the message again.
Crash(w) ==
  /\ job[w] # Idle /\ crashes < MaxCrashes
  /\ crashes' = crashes + 1
  /\ turn' = IF job[w].op = "charge" THEN [turn EXCEPT ![job[w].arg] = "died"] ELSE turn
  /\ job' = [job EXCEPT ![w] = Idle]
  /\ lock' = Released(w)
  /\ UNCHANGED <<credit, ledger, settled, code, renewal, money, bought, open, clicks>>

-----------------------------------------------------------------------------
Step(w) ==
  \/ ChargeSkip(w) \/ ChargeTake(w)
  \/ RenewSkip(w) \/ RenewShort(w) \/ RenewPay(w) \/ RenewRecord(w) \/ RenewFail(w)
  \/ Settle(w) \/ SettleShort(w)
  \/ RedeemCommit(w)

Look(w) == RenewRefused(w) \/ RenewOrder(w)

Request(w) ==
  \/ \E m \in Messages : Charge(w, m)
  \/ \E c \in Codes : RedeemCheck(w, c)

Environment ==
  \/ \E c \in Codes : Disable(c)
  \/ Open \/ (\E s \in {"paused", "active", "cancelled"} : SetStatus(s))
  \/ ClosePlan
  \/ \E w \in Workers : Crash(w)

Next ==
  \/ \E w \in Workers : Step(w) \/ Look(w) \/ Request(w)
  \/ CooldownEnds
  \/ Environment

Spec == Init /\ [][Next]_vars

\* Workers go on until they die, time passes, and the scan comes round every hour.
FairSpec ==
  /\ Spec
  /\ \A w \in Workers : WF_vars(Step(w) \/ (At(w, "charge", "hook") /\ Look(w)))
  /\ WF_vars(CooldownEnds)
  /\ WF_vars(\E w \in Workers : job[w] = Idle /\ Look(w))

-----------------------------------------------------------------------------
Renewals == [status : {"none", "active", "paused", "failed", "cancelled"}, fails : Nat, recent : BOOLEAN]

TypeOK ==
  /\ credit \in Credit
  /\ ledger \subseteq Rows
  /\ settled \subseteq Messages
  /\ code \in [Codes -> {"unused", "used", "disabled"}]
  /\ renewal \in Renewals
  /\ money \in Nat /\ bought \in Nat /\ open \in BOOLEAN
  /\ lock \in Workers \cup {NoWorker}
  /\ \A w \in Workers :
       /\ job[w].seen \in Credit /\ job[w].mine \in Credit
       /\ job[w].rows \subseteq Rows /\ job[w].group \in Nat /\ job[w].fails \in Nat
       /\ job[w].loaded \in BOOLEAN
       /\ \/ job[w].op = "none" /\ job[w].arg = Nothing /\ job[w].pc = "idle"
          \/ job[w].op = "charge" /\ job[w].arg \in Messages
             /\ job[w].pc \in {"group", "hook", "paying", "paid", "failing", "settle"}
          \/ job[w].op = "scan" /\ job[w].arg = Nothing
             /\ job[w].pc \in {"paying", "paid", "failing"}
          \/ job[w].op = "redeem" /\ job[w].arg \in Codes /\ job[w].pc = "granting"
  /\ turn \in [Messages -> {"none", "running", "reported", "raised", "died"}]
  /\ clicks \in 0 .. MaxClicks /\ crashes \in 0 .. MaxCrashes

\* The ledger has one entry for each event, however many models a message used and
\* however often its charge was interrupted by a renewal; and as long as nobody buys,
\* redeems or is settled short, the credits are what the account opened with and the
\* ledger says, whatever charges, settlements and failed renewals do at the same time.
Total(rows) == MapThenSumSet(LAMBDA r : r.amount, rows)
Granted == \E r \in ledger : r.type \in {"order_grant", "redeem_grant"}
OneEntry == \A r, q \in ledger : r.type = q.type /\ r.id = q.id => r = q
LedgerExplained ==
  /\ OneEntry
  /\ ~Granted /\ (\A m \in Messages : turn[m] # "raised") =>
       Available(credit) = Available(Opening) + Total(ledger)

\* The same without the condition.
LedgerAlways == Available(credit) = Available(Opening) + Total(ledger)

\* What the user was told was charged is in the ledger, also when a renewal failed
\* in the middle of the charge, unless the package it would have bought was closed
\* (a message that used no model has no entry); and the settlement is there as a
\* whole or not at all.
ChargeBooked ==
  \A m \in Messages :
    /\ turn[m] = "reported" =>
         m \in settled /\ (open /\ Models(m) # {} => Booked(ledger, "consume", m))
    /\ m \in settled => (Booked(ledger, "adjust", m) <=> Diff(m) # 0)
    /\ Booked(ledger, "adjust", m) => m \in settled

\* The same although the package was closed.
ToldIsBooked == \A m \in Messages : turn[m] = "reported" => Booked(ledger, "consume", m)

\* A code is spent exactly when its credits were granted, and what is disabled
\* stays disabled and grants nothing any more.
Redeemed(rows, c) == Booked(rows, "redeem_grant", c)
CodesFinal ==
  [][\A c \in Codes :
       /\ code'[c] = "used" => Redeemed(ledger', c)
       /\ code'[c] = "unused" => ~Redeemed(ledger', c)
       /\ code[c] = "disabled" => code'[c] = "disabled" /\ (Redeemed(ledger', c) => Redeemed(ledger, c))]_vars

\* Whoever runs out of credits is renewed, or the renewal gives up.
Low == renewal.status = "active" /\ credit["permanent"] <= Threshold
Served == Low ~> ~Low

\* A settled message has cost what its use costs.
Cost(m) == -Total({r \in ledger : r.type \in {"consume", "adjust"} /\ r.id = m})
CostIsActual == \A m \in settled : Cost(m) = Actual(m)

\* A renewal is not repeated within the cooldown.
OncePerCooldown == [][bought' > bought => ~renewal.recent]_vars

\* What is cancelled stays cancelled.
CancelFinal == [][renewal.status = "cancelled" => renewal'.status = "cancelled"]_vars

=============================================================================
