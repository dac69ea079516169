----------------------------- MODULE CreditsProofs -----------------------------
(***************************************************************************)
(* Credits for any messages, codes, workers, charges and grants: the types, *)
(* that the ledger explains the account, that what was told is booked, and *)
(* that codes are spent once.                                              *)
(***************************************************************************)
EXTENDS Credits, Lemmas

USE CreditsAssumption

-----------------------------------------------------------------------------
(* Types.                                                                  *)
Phase(j) ==
  \/ j.op = "none" /\ j.arg = Nothing /\ j.pc = "idle"
  \/ j.op = "charge" /\ j.arg \in Messages
     /\ j.pc \in {"group", "hook", "paying", "paid", "failing", "settle"}
  \/ j.op = "scan" /\ j.arg = Nothing /\ j.pc \in {"paying", "paid", "failing"}
  \/ j.op = "redeem" /\ j.arg \in Codes /\ j.pc = "granting"

Records ==
  [op : {"none", "charge", "scan", "redeem"}, arg : Messages \cup Codes \cup {Nothing},
   pc : {"idle", "group", "hook", "paying", "paid", "failing", "settle", "granting"},
   group : Nat, fails : Nat, loaded : BOOLEAN, seen : Credit, mine : Credit, rows : SUBSET Rows]

Jobs == {j \in Records : Phase(j)}

Typed ==
  /\ credit \in Credit
  /\ ledger \subseteq Rows
  /\ settled \subseteq Messages
  /\ code \in [Codes -> {"unused", "used", "disabled"}]
  /\ renewal \in Renewals
  /\ money \in Nat /\ bought \in Nat /\ open \in BOOLEAN
  /\ lock \in Workers \cup {NoWorker}
  /\ job \in [Workers -> Jobs]
  /\ turn \in [Messages -> {"none", "running", "reported", "raised", "died"}]
  /\ clicks \in 0 .. MaxClicks /\ crashes \in 0 .. MaxCrashes

-----------------------------------------------------------------------------
(* What a charge has taken and not committed is one entry of its message,  *)
(* which the ledger does not have yet.                                     *)
Charging == {"group", "hook", "settle"}

Unsaved(w) ==
  job[w].rows # {} =>
    /\ job[w].op = "charge" /\ job[w].pc \in Charging /\ job[w].loaded
    /\ \A r \in job[w].rows : r.type = "consume" /\ r.id = job[w].arg
    /\ \A r, q \in job[w].rows : r = q
    /\ ~Booked(ledger, "consume", job[w].arg)

(* While a package is on sale, a charge that has passed its first model is *)
(* booked, committed or not.                                               *)
Passed(w) == job[w].group > 1 \/ job[w].pc # "group"

Promised(w) ==
  job[w].op = "charge" /\ open /\ Models(job[w].arg) # {} /\ Passed(w) =>
    Booked(ledger \cup job[w].rows, "consume", job[w].arg)

(* As long as nobody has bought or redeemed, who charges holds the row of  *)
(* the account and has seen it as it is.                                   *)
Holding(w) ==
  job[w].op = "charge" =>
    /\ job[w].pc = "hook" => job[w].loaded
    /\ job[w].pc = "failing" => ~job[w].loaded
    /\ job[w].pc = "paid" => Granted
    /\ job[w].pc \in Charging /\ job[w].loaded /\ ~Granted =>
         /\ lock = w /\ job[w].seen = credit
         /\ Available(job[w].mine) = Available(credit) + Total(job[w].rows)

Sound(w) ==
  /\ job[w].op = "charge" => turn[job[w].arg] = "running"
  /\ job[w].op = "redeem" => code[job[w].arg] = "unused"
  /\ Unsaved(w) /\ Promised(w) /\ Holding(w)

(* A message is charged, and a code redeemed, by one worker at a time.     *)
Alone ==
  \A v, w \in Workers :
    job[v].op \in {"charge", "redeem"} /\ job[w].op = job[v].op /\ job[w].arg = job[v].arg => v = w

(* The ledger.                                                             *)
Orderly ==
  /\ IsFiniteSet(ledger) /\ OneEntry
  /\ \A r \in ledger : r.type = "order_grant" => r.id <= bought
  /\ \A m \in settled : turn[m] = "reported"
  /\ \A c \in Codes : /\ code[c] = "used" => Redeemed(ledger, c)
                      /\ code[c] = "unused" => ~Redeemed(ledger, c)

Explained ==
  ~Granted /\ (\A m \in Messages : turn[m] # "raised") =>
    Available(credit) = Available(Opening) + Total(ledger)

IInv == Typed /\ (\A w \in Workers : Sound(w)) /\ Alone /\ Orderly /\ ChargeBooked /\ Explained

(* A step keeps all that, and neither changes nor redeems a code that is   *)
(* disabled.                                                               *)
DisabledStays ==
  \A c \in Codes :
    code[c] = "disabled" => code'[c] = "disabled" /\ (Redeemed(ledger', c) => Redeemed(ledger, c))

Keeps == IInv' /\ DisabledStays

-----------------------------------------------------------------------------
(* The types are those of the runs.                                        *)
LEMMA TypedIsType == Typed => TypeOK
<1> SUFFICES ASSUME Typed PROVE TypeOK
  OBVIOUS
<1>1. ASSUME NEW w \in Workers
      PROVE  /\ job[w].seen \in Credit /\ job[w].mine \in Credit
             /\ job[w].rows \subseteq Rows /\ job[w].group \in Nat /\ job[w].fails \in Nat
             /\ job[w].loaded \in BOOLEAN
             /\ Phase(job[w])
  BY DEF Typed, Jobs, Records
<1> QED BY <1>1 DEF Typed, TypeOK, Phase

LEMMA JobFacts ==
  ASSUME Typed, NEW w \in Workers
  PROVE  /\ job[w] \in Records /\ Phase(job[w])
         /\ job[w].seen \in Credit /\ job[w].mine \in Credit
         /\ job[w].rows \subseteq Rows /\ job[w].group \in Nat /\ job[w].fails \in Nat
         /\ job[w].op = "charge" => job[w].arg \in Messages
         /\ job[w].op = "redeem" => job[w].arg \in Codes
  BY DEF Typed, Jobs, Records, Phase

LEMMA IdleIsJob == Idle \in Jobs
  BY DEF Idle, Jobs, Records, Phase

(* One worker goes on.                                                     *)
Moves(w, j) == job' = [job EXCEPT ![w] = j]

LEMMA MoveTyped ==
  ASSUME Typed, NEW w \in Workers, NEW j \in Jobs, Moves(w, j)
  PROVE  job' \in [Workers -> Jobs] /\ job'[w] = j /\ \A v \in Workers \ {w} : job'[v] = job[v]
  BY DEF Typed, Moves

-----------------------------------------------------------------------------
(* Credits.                                                                *)
LEMMA CreditFacts ==
  ASSUME NEW c \in Credit
  PROVE  c["quota"] \in Nat /\ c["permanent"] \in Nat /\ Available(c) \in Nat
  BY DEF Credit, Pools, Available

LEMMA TakenFacts ==
  ASSUME NEW c \in Credit, NEW n \in Nat
  PROVE  /\ Taken(c, n) \in Credit
         /\ n <= Available(c) => Available(Taken(c, n)) = Available(c) - n
<1> DEFINE q == Smaller(c["quota"], n)
           a == c["quota"] - q
           p == c["permanent"] - Smaller(c["permanent"], n - q)
<1>1. c["quota"] \in Nat /\ c["permanent"] \in Nat
  BY CreditFacts
<1>2. q \in Nat /\ q <= n /\ q <= c["quota"]
  BY <1>1 DEF Smaller
<1>3. Smaller(c["permanent"], n - q) \in Nat /\ Smaller(c["permanent"], n - q) <= c["permanent"]
  BY <1>1, <1>2 DEF Smaller
<1>4. a \in Nat /\ p \in Nat
  BY <1>1, <1>2, <1>3
<1>5. n <= c["quota"] + c["permanent"] => a + p = c["quota"] + c["permanent"] - n
  BY <1>1 DEF Smaller
<1>6. Taken(c, n) = [c EXCEPT !["quota"] = a, !["permanent"] = p]
  BY DEF Taken
<1> HIDE DEF a, p
<1>7. Taken(c, n) \in Credit /\ Taken(c, n)["quota"] = a /\ Taken(c, n)["permanent"] = p
  BY <1>4, <1>6 DEF Credit, Pools
<1>8. Available(Taken(c, n)) = a + p /\ Available(c) = c["quota"] + c["permanent"]
  BY <1>7 DEF Available
<1> QED BY <1>1, <1>4, <1>5, <1>7, <1>8

LEMMA GivenFacts ==
  ASSUME NEW c \in Credit, NEW n \in Nat
  PROVE  Given(c, n) \in Credit /\ Available(Given(c, n)) = Available(c) + n
<1>1. c["quota"] \in Nat /\ c["permanent"] \in Nat
  BY CreditFacts
<1>2. /\ Given(c, n) \in Credit /\ Given(c, n)["quota"] = c["quota"]
      /\ Given(c, n)["permanent"] = c["permanent"] + n
  BY <1>1 DEF Given, Credit, Pools
<1> QED BY <1>1, <1>2 DEF Available

(* A session that has seen the account as it is writes what it made of it. *)
LEMMA WrittenFacts ==
  ASSUME Typed, NEW j, j.seen \in Credit, j.mine \in Credit
  PROVE  /\ Written(j) \in Credit
         /\ j.seen = credit => Written(j) = j.mine
         /\ j.seen = j.mine => Written(j) = credit
  BY DEF Typed, Written, Credit

LEMMA LoadedFacts ==
  ASSUME Typed, NEW w \in Workers
  PROVE  /\ Loaded(w) \in Records /\ Loaded(w).loaded
         /\ Loaded(w).op = job[w].op /\ Loaded(w).arg = job[w].arg /\ Loaded(w).pc = job[w].pc
         /\ Loaded(w).group = job[w].group /\ Loaded(w).fails = job[w].fails
         /\ Loaded(w).rows = job[w].rows
         /\ job[w].loaded => Loaded(w) = job[w]
         /\ ~job[w].loaded => Loaded(w).seen = credit /\ Loaded(w).mine = credit
<1>1. job[w] \in Records /\ credit \in Credit
  BY JobFacts DEF Typed
<1>2. CASE job[w].loaded
  BY <1>1, <1>2 DEF Loaded
<1>3. CASE ~job[w].loaded
  <2>1. Loaded(w) = [job[w] EXCEPT !.loaded = TRUE, !.seen = credit, !.mine = credit]
    BY <1>3 DEF Loaded
  <2> QED BY <1>1, <1>3, <2>1 DEF Records
<1> QED BY <1>2, <1>3

-----------------------------------------------------------------------------
(* Totals.                                                                 *)
Amount == [r \in Rows |-> r.amount]

LEMMA TotalSum ==
  ASSUME NEW S \in SUBSET Rows, IsFiniteSet(S)
  PROVE  Total(S) = SumOf(Amount, S)
<1> DEFINE Sums(g) ==
             g = [s \in SUBSET S |->
                    IF s = {} THEN 0 ELSE First(s).amount + g[s \ {First(s)}]]
<1>1. ASSUME NEW s \in SUBSET S, s # {} PROVE Amount[First(s)] = First(s).amount
  BY <1>1 DEF First, Amount
<1>2. \A g : Adds(g, Amount, S) <=> Sums(g)
  BY <1>1 DEF Adds
<1>3. PICK g : g = CHOOSE h : Sums(h)
  OBVIOUS
<1>4. Total(S) = g[S]
  BY <1>3 DEF First, Total, MapThenSumSet, MapThenFoldSet
<1>5. \E h : Adds(h, Amount, S)
  BY AddsExists
<1>6. Adds(g, Amount, S)
  <2> HIDE DEF Sums
  <2> QED BY <1>2, <1>3, <1>5
<1> QED BY <1>4, <1>6, SumOfAdds

LEMMA AmountInt == \A r \in Rows : Amount[r] = r.amount /\ r.amount \in Int
  BY DEF Amount, Rows

LEMMA TotalFacts ==
  ASSUME NEW S \in SUBSET Rows, IsFiniteSet(S)
  PROVE  /\ Total(S) \in Int
         /\ S = {} => Total(S) = 0
         /\ \A r \in Rows \ S : IsFiniteSet(S \cup {r}) /\ Total(S \cup {r}) = Total(S) + r.amount
<1>1. Numbers(Amount, S)
  BY AmountInt DEF Numbers
<1>2. Total(S) = SumOf(Amount, S) /\ SumOf(Amount, S) \in Int
  BY <1>1, TotalSum, SumInt
<1>3. S = {} => Total(S) = 0
  BY <1>2, SumEmpty
<1>4. ASSUME NEW r \in Rows \ S
      PROVE  IsFiniteSet(S \cup {r}) /\ Total(S \cup {r}) = Total(S) + r.amount
  <2>1. IsFiniteSet(S \cup {r}) /\ S \cup {r} \in SUBSET Rows
    BY FS_AddElement
  <2>2. Total(S \cup {r}) = SumOf(Amount, S \cup {r})
    BY <2>1, TotalSum
  <2>3. SumOf(Amount, S \cup {r}) = Amount[r] + SumOf(Amount, S)
    BY <1>1, AmountInt, SumAdd
  <2> QED BY <1>2, <2>1, <2>2, <2>3, AmountInt
<1> QED BY <1>2, <1>3, <1>4

LEMMA DiffInt ==
  ASSUME NEW m \in Messages PROVE Diff(m) \in Int
<1> DEFINE f == Charges[m]
<1>1. f \in Seq(Nat \ {0}) /\ Models(m) = 1 .. Len(f) /\ Len(f) \in Nat
  BY LenProperties DEF Models
<1>2. IsFiniteSet(Models(m)) /\ Numbers(f, Models(m))
  <2>1. \A i \in 1 .. Len(f) : f[i] \in Nat \ {0}
    <3> HIDE DEF f
    <3> QED BY <1>1, ElementOfSeq
  <2>2. IsFiniteSet(1 .. Len(f))
    BY <1>1, FS_Interval
  <2> HIDE DEF f
  <2> QED BY <1>1, <2>1, <2>2 DEF Numbers
<1>3. SumOf(f, Models(m)) \in Int
  <2> HIDE DEF f
  <2> QED BY <1>2, SumInt
<1>4. Actual(m) = SumOf(f, Models(m))
  BY DEF Actual, SumOf
<1>5. Estimate[m] \in Nat
  OBVIOUS
<1> QED BY <1>3, <1>4, <1>5 DEF Diff

-----------------------------------------------------------------------------
LEMMA InitIInv == Init => IInv
<1> SUFFICES ASSUME Init PROVE IInv
  OBVIOUS
<1>1. \A w \in Workers : job[w] = Idle
  BY DEF Init
<1>2. Typed
  BY IdleIsJob DEF Init, Typed, Renewals
<1>3. Alone /\ \A w \in Workers : Sound(w)
  BY <1>1 DEF Alone, Sound, Unsaved, Promised, Holding, Idle
<1>4. Orderly
  BY FS_EmptySet DEF Init, Orderly, OneEntry, Redeemed, Booked
<1>5. ChargeBooked
  BY DEF Init, ChargeBooked, Booked
<1>6. Explained
  <2>1. Total({}) = 0
    BY TotalFacts, FS_EmptySet
  <2>2. Available(Opening) \in Nat
    BY CreditFacts
  <2> QED BY <2>1, <2>2 DEF Init, Explained
<1> QED BY <1>2, <1>3, <1>4, <1>5, <1>6 DEF IInv

-----------------------------------------------------------------------------
(* What one worker does leaves the others sound: only who holds the row of *)
(* the account changes it, and the entries are those of its own message.   *)
LEMMA OthersSound ==
  ASSUME Typed, Alone, \A v \in Workers : Sound(v), NEW w \in Workers,
         \A v \in Workers \ {w} : job'[v] = job[v],
         ledger \subseteq ledger', open' => open,
         \A r \in ledger' \ ledger : r.type = "consume" => job[w].op = "charge" /\ r.id = job[w].arg,
         \A m \in Messages : turn'[m] = turn[m] \/ turn[m] = "none" \/ (job[w].op = "charge" /\ m = job[w].arg),
         \A c \in Codes : code'[c] = code[c] \/ (job[w].op = "redeem" /\ c = job[w].arg),
         lock \in Workers \ {w} /\ ~Granted' => lock' = lock /\ credit' = credit
  PROVE  \A v \in Workers \ {w} : Sound(v)'
<1> SUFFICES ASSUME NEW v \in Workers \ {w} PROVE Sound(v)'
  OBVIOUS
<1>1. Sound(v) /\ job'[v] = job[v]
  OBVIOUS
<1>2. /\ job[v].op = "charge" => job[v].arg \in Messages
      /\ job[v].op = "redeem" => job[v].arg \in Codes
      /\ job[v].op \in {"charge", "redeem"} => ~(job[w].op = job[v].op /\ job[w].arg = job[v].arg)
  BY JobFacts DEF Alone
<1>3. job[v].op = "charge" => turn'[job[v].arg] = "running"
  BY <1>1, <1>2 DEF Sound
<1>4. job[v].op = "redeem" => code'[job[v].arg] = "unused"
  BY <1>1, <1>2 DEF Sound
<1>5. Unsaved(v)'
  BY <1>1, <1>2 DEF Sound, Unsaved, Booked
<1>6. Promised(v)'
  BY <1>1 DEF Sound, Promised, Passed, Booked
<1>7. Holding(v)'
  <2>1. Granted => Granted'
    BY DEF Granted
  <2>2. CASE job[v].op = "charge" /\ job[v].pc \in Charging /\ job[v].loaded /\ ~Granted'
    <3>1. lock = v /\ Holding(v)
      BY <1>1, <2>1, <2>2 DEF Sound, Holding
    <3>2. lock' = lock /\ credit' = credit
      BY <2>2, <3>1
    <3> QED BY <1>1, <2>1, <2>2, <3>1, <3>2 DEF Holding
  <2>3. CASE ~(job[v].op = "charge" /\ job[v].pc \in Charging /\ job[v].loaded /\ ~Granted')
    <3>1. Holding(v)
      BY <1>1 DEF Sound
    <3> QED BY <1>1, <2>1, <2>3, <3>1 DEF Holding
  <2> QED BY <2>2, <2>3
<1> QED BY <1>1, <1>3, <1>4, <1>5, <1>6, <1>7 DEF Sound

LEMMA AloneKept ==
  ASSUME Alone, NEW w \in Workers, \A v \in Workers \ {w} : job'[v] = job[v],
         job'[w].op \in {"charge", "redeem"} =>
           \/ job'[w].op = job[w].op /\ job'[w].arg = job[w].arg
           \/ \A v \in Workers : ~(job[v].op = job'[w].op /\ job[v].arg = job'[w].arg)
  PROVE  Alone'
<1> SUFFICES ASSUME NEW u \in Workers, NEW v \in Workers, job'[u].op \in {"charge", "redeem"},
                    job'[v].op = job'[u].op, job'[v].arg = job'[u].arg
             PROVE  u = v
  BY DEF Alone
<1>1. CASE u # w /\ v # w
  BY <1>1 DEF Alone
<1>2. CASE u = w /\ v # w
  BY <1>2 DEF Alone
<1>3. CASE u # w /\ v = w
  BY <1>3 DEF Alone
<1> QED BY <1>1, <1>2, <1>3

(* A step that writes nothing.                                             *)
LEMMA QuietStep ==
  ASSUME IInv, NEW w \in Workers, \A v \in Workers \ {w} : job'[v] = job[v],
         Typed', Sound(w)',
         UNCHANGED <<credit, ledger, settled, code, bought, open>>,
         \A m \in Messages :
           \/ turn'[m] = turn[m]
           \/ turn[m] = "none" /\ turn'[m] = "running"
           \/ turn'[m] = "died" /\ job[w].op = "charge" /\ m = job[w].arg,
         lock \in Workers \ {w} => lock' = lock,
         job'[w].op \in {"charge", "redeem"} =>
           \/ job'[w].op = job[w].op /\ job'[w].arg = job[w].arg
           \/ \A v \in Workers : ~(job[v].op = job'[w].op /\ job[v].arg = job'[w].arg)
  PROVE  Keeps
<1>0. Typed /\ (\A v \in Workers : Sound(v)) /\ Alone /\ Orderly /\ ChargeBooked /\ Explained
  BY DEF IInv
<1>1. \A v \in Workers : Sound(v)'
  BY <1>0, OthersSound
<1>2. Alone'
  BY <1>0, AloneKept
<1>3. \A m \in Messages : /\ turn'[m] = "reported" <=> turn[m] = "reported"
                          /\ turn'[m] = "raised" <=> turn[m] = "raised"
  BY <1>0 DEF Sound
<1>4. Orderly'
  BY <1>0, <1>3 DEF Orderly, OneEntry, Typed
<1>5. ChargeBooked'
  BY <1>0, <1>3 DEF ChargeBooked
<1>6. Explained'
  BY <1>0, <1>3 DEF Explained, Granted
<1>7. DisabledStays
  BY DEF DisabledStays
<1> QED BY <1>1, <1>2, <1>4, <1>5, <1>6, <1>7 DEF IInv, Keeps

(* A step of the environment: nothing is written, and no package comes     *)
(* back on sale.                                                           *)
LEMMA OutsideStep ==
  ASSUME IInv, Typed', open' => open,
         UNCHANGED <<credit, ledger, settled, code, bought, lock, job, turn>>
  PROVE  Keeps
<1>0. Typed /\ (\A v \in Workers : Sound(v)) /\ Alone /\ Orderly /\ ChargeBooked /\ Explained
  BY DEF IInv
<1>1. ASSUME NEW v \in Workers PROVE Sound(v)'
  <2>1. Unsaved(v)' /\ Holding(v)'
    BY <1>0 DEF Sound, Unsaved, Holding, Granted
  <2>2. Promised(v)'
    BY <1>0 DEF Sound, Promised, Passed
  <2> QED BY <1>0, <2>1, <2>2 DEF Sound
<1>2. Alone' /\ Orderly' /\ Explained'
  BY <1>0 DEF Alone, Orderly, OneEntry, Explained, Granted
<1>3. ChargeBooked'
  BY <1>0 DEF ChargeBooked
<1>4. DisabledStays
  BY DEF DisabledStays
<1> QED BY <1>1, <1>2, <1>3, <1>4 DEF IInv, Keeps

-----------------------------------------------------------------------------
(* The environment.                                                        *)
LEMMA OutsideKeeps ==
  ASSUME IInv, Open \/ (\E st \in {"paused", "active", "cancelled"} : SetStatus(st))
               \/ CooldownEnds \/ ClosePlan
  PROVE  Keeps
<1>0. Typed
  BY DEF IInv
<1>1. UNCHANGED <<credit, ledger, settled, code, bought, lock, job, turn, money, crashes>>
  BY DEF Open, SetStatus, CooldownEnds, ClosePlan
<1>2. open' => open
  BY DEF Open, SetStatus, CooldownEnds, ClosePlan
<1>3. Typed'
  <2>1. renewal' \in Renewals /\ open' \in BOOLEAN /\ clicks' \in 0 .. MaxClicks
    <3>1. renewal \in Renewals /\ open \in BOOLEAN /\ clicks \in 0 .. MaxClicks
      BY <1>0 DEF Typed
    <3>2. CASE Open
      BY <3>1, <3>2 DEF Open, Renewals
    <3>3. ASSUME NEW st \in {"paused", "active", "cancelled"}, SetStatus(st)
          PROVE  renewal' \in Renewals /\ open' \in BOOLEAN /\ clicks' \in 0 .. MaxClicks
      BY <3>1, <3>3 DEF SetStatus, Renewals
    <3>4. CASE CooldownEnds
      BY <3>1, <3>4 DEF CooldownEnds, Renewals
    <3>5. CASE ClosePlan
      BY <3>1, <3>5 DEF ClosePlan
    <3> QED BY <3>2, <3>3, <3>4, <3>5
  <2> QED BY <1>0, <1>1, <2>1 DEF Typed
<1> QED BY <1>1, <1>2, <1>3, OutsideStep

(* What is being redeemed is not disabled meanwhile.                       *)
LEMMA DisableKeeps ==
  ASSUME IInv, NEW c \in Codes, Disable(c) PROVE Keeps
<1>0. Typed /\ (\A v \in Workers : Sound(v)) /\ Alone /\ Orderly /\ ChargeBooked /\ Explained
  BY DEF IInv
<1>1. /\ code' = [code EXCEPT ![c] = "disabled"] /\ ~Redeeming(c)
      /\ UNCHANGED <<credit, ledger, settled, renewal, money, bought, open, lock, job, turn, clicks, crashes>>
  BY DEF Disable
<1>2. Typed'
  BY <1>0, <1>1 DEF Typed
<1>3. ASSUME NEW v \in Workers PROVE Sound(v)'
  <2>1. Unsaved(v)' /\ Holding(v)'
    BY <1>0, <1>1 DEF Sound, Unsaved, Holding, Granted
  <2>2. Promised(v)'
    BY <1>0, <1>1 DEF Sound, Promised, Passed
  <2>3. job[v].op = "redeem" => code'[job[v].arg] = "unused"
    <3>1. job[v].op = "redeem" => job[v].arg # c
      BY <1>1 DEF Redeeming
    <3> QED BY <1>0, <1>1, <3>1, JobFacts DEF Sound, Typed
  <2> QED BY <1>0, <1>1, <2>1, <2>2, <2>3 DEF Sound
<1>4. Alone' /\ Explained'
  BY <1>0, <1>1 DEF Alone, Explained, Granted
<1>5. Orderly'
  <2>1. \A d \in Codes : code'[d] = code[d] \/ code'[d] = "disabled"
    BY <1>0, <1>1 DEF Typed
  <2> QED BY <1>0, <1>1, <2>1 DEF Orderly, OneEntry
<1>6. ChargeBooked'
  BY <1>0, <1>1 DEF ChargeBooked
<1>7. DisabledStays
  BY <1>0, <1>1 DEF DisabledStays, Typed
<1> QED BY <1>2, <1>3, <1>4, <1>5, <1>6, <1>7 DEF IInv, Keeps

-----------------------------------------------------------------------------
(* Steps of a charge that write nothing.                                   *)
LEMMA ChargeKeeps ==
  ASSUME IInv, NEW w \in Workers, NEW m \in Messages, Charge(w, m) PROVE Keeps
<1>0. Typed /\ \A v \in Workers : Sound(v)
  BY DEF IInv
<1> DEFINE j == [Idle EXCEPT !.op = "charge", !.arg = m, !.pc = "group"]
<1>1. /\ turn[m] = "none" /\ turn' = [turn EXCEPT ![m] = "running"] /\ Moves(w, j)
      /\ UNCHANGED <<credit, ledger, settled, code, renewal, money, bought, open, lock, clicks, crashes>>
  BY DEF Charge, Moves
<1>2. /\ j \in Jobs /\ j.op = "charge" /\ j.arg = m /\ j.pc = "group" /\ j.group = 1
      /\ j.rows = {} /\ ~j.loaded
  BY DEF Idle, Jobs, Records, Phase
<1> HIDE DEF j
<1>3. job'[w] = j /\ \A v \in Workers \ {w} : job'[v] = job[v]
  BY <1>0, <1>1, <1>2, MoveTyped
<1>4. Typed'
  BY <1>0, <1>1, <1>2, MoveTyped DEF Typed
<1>5. Sound(w)'
  <2>1. turn'[m] = "running"
    BY <1>0, <1>1 DEF Typed
  <2> QED BY <1>2, <1>3, <2>1 DEF Sound, Unsaved, Promised, Passed, Holding
<1>6. \A v \in Workers : ~(job[v].op = job'[w].op /\ job[v].arg = job'[w].arg)
  BY <1>0, <1>1, <1>2, <1>3 DEF Sound
<1>7. \A n \in Messages : turn'[n] = turn[n] \/ (turn[n] = "none" /\ turn'[n] = "running")
  BY <1>0, <1>1 DEF Typed
<1> QED BY <1>1, <1>2, <1>3, <1>4, <1>5, <1>6, <1>7, QuietStep

LEMMA ChargeSkipKeeps ==
  ASSUME IInv, NEW w \in Workers, ChargeSkip(w) PROVE Keeps
<1>0. Typed /\ Sound(w)
  BY DEF IInv
<1>1. /\ job[w].op = "charge" /\ job[w].pc = "group"
      /\ UNCHANGED <<credit, ledger, settled, code, renewal, money, bought, open, lock, turn, clicks, crashes>>
  BY DEF ChargeSkip, At
<1>2. job[w] \in Records /\ job[w].group \in Nat /\ job[w].arg \in Messages
  BY <1>0, <1>1, JobFacts
<1>3. Len(Charges[job[w].arg]) \in Nat
  BY <1>2, LenProperties
<1>4. CASE job[w].group > Len(Charges[job[w].arg])
  <2> DEFINE j == [job[w] EXCEPT !.pc = "settle"]
  <2>1. Moves(w, j)
    BY <1>4 DEF ChargeSkip, Moves
  <2>2. /\ j \in Jobs /\ j.op = "charge" /\ j.arg = job[w].arg /\ j.pc = "settle"
        /\ j.group = job[w].group /\ j.rows = job[w].rows /\ j.loaded = job[w].loaded
        /\ j.seen = job[w].seen /\ j.mine = job[w].mine
    BY <1>1, <1>2 DEF Jobs, Records, Phase
  <2> HIDE DEF j
  <2>3. job'[w] = j /\ \A v \in Workers \ {w} : job'[v] = job[v]
    BY <1>0, <2>1, <2>2, MoveTyped
  <2>4. Typed'
    BY <1>0, <1>1, <2>1, <2>2, MoveTyped DEF Typed
  <2>5. Models(job[w].arg) # {} => Passed(w)
    BY <1>2, <1>3, <1>4 DEF Models, Passed
  <2>6. Promised(w)'
    BY <1>0, <1>1, <2>2, <2>3, <2>5 DEF Sound, Promised
  <2>7. Unsaved(w)' /\ Holding(w)'
    BY <1>0, <1>1, <2>2, <2>3 DEF Sound, Unsaved, Holding, Charging, Granted
  <2>8. Sound(w)'
    BY <1>0, <1>1, <2>2, <2>3, <2>6, <2>7 DEF Sound
  <2> QED BY <1>1, <2>2, <2>3, <2>4, <2>8, QuietStep
<1>5. CASE ~(job[w].group > Len(Charges[job[w].arg]))
  <2> DEFINE j == [job[w] EXCEPT !.group = job[w].group + 1]
  <2>1. Moves(w, j) /\ Booked(ledger \cup job[w].rows, "consume", job[w].arg)
    BY <1>5 DEF ChargeSkip, Moves
  <2>2. /\ j \in Jobs /\ j.op = "charge" /\ j.arg = job[w].arg /\ j.pc = "group"
        /\ j.rows = job[w].rows /\ j.loaded = job[w].loaded
        /\ j.seen = job[w].seen /\ j.mine = job[w].mine
    <3>1. job[w].group + 1 \in Nat
      BY <1>2
    <3>2. /\ j \in Records /\ j.op = "charge" /\ j.arg = job[w].arg /\ j.pc = "group"
          /\ j.rows = job[w].rows /\ j.loaded = job[w].loaded
          /\ j.seen = job[w].seen /\ j.mine = job[w].mine
      BY <1>1, <1>2, <3>1 DEF Records
    <3> QED BY <1>2, <3>2 DEF Jobs, Phase
  <2> HIDE DEF j
  <2>3. job'[w] = j /\ \A v \in Workers \ {w} : job'[v] = job[v]
    BY <1>0, <2>1, <2>2, MoveTyped
  <2>4. Typed'
    BY <1>0, <1>1, <2>1, <2>2, MoveTyped DEF Typed
  <2>6. Promised(w)'
    BY <1>1, <2>1, <2>2, <2>3 DEF Promised
  <2>7. Unsaved(w)' /\ Holding(w)'
    BY <1>0, <1>1, <2>2, <2>3 DEF Sound, Unsaved, Holding, Charging, Granted
  <2>8. Sound(w)'
    BY <1>0, <1>1, <2>2, <2>3, <2>6, <2>7 DEF Sound
  <2> QED BY <1>1, <2>2, <2>3, <2>4, <2>8, QuietStep
<1> QED BY <1>4, <1>5

(* The row of the account is locked, and then read if it was not before.   *)
LEMMA ChargeTakeKeeps ==
  ASSUME IInv, NEW w \in Workers, ChargeTake(w) PROVE Keeps
<1>0. Typed /\ Sound(w)
  BY DEF IInv
<1> DEFINE L == Loaded(w)
           n == Charges[L.arg][L.group]
           mine == Taken(L.mine, n)
           r == Transaction("consume", L.arg, Available(mine) - Available(L.mine))
           j == [L EXCEPT !.mine = mine, !.pc = "hook", !.rows = {r}]
<1>1. /\ job[w].op = "charge" /\ job[w].pc = "group" /\ lock \in {NoWorker, w} /\ lock' = w
      /\ L.group \in Models(L.arg) /\ ~Booked(ledger \cup L.rows, "consume", L.arg)
      /\ UNCHANGED <<credit, ledger, settled, code, renewal, money, bought, open, turn, clicks, crashes>>
  BY DEF ChargeTake, At, CanLock
<1>2. Moves(w, j)
  BY DEF ChargeTake, Moves
<1>3. /\ L \in Records /\ L.op = "charge" /\ L.arg = job[w].arg /\ L.arg \in Messages
      /\ L.seen \in Credit /\ L.mine \in Credit /\ L.loaded /\ L.rows = job[w].rows
  BY <1>0, <1>1, LoadedFacts, JobFacts DEF Records
<1>4. n \in Nat
  <2>1. Charges[L.arg] \in Seq(Nat \ {0})
    BY <1>3
  <2> QED BY <1>1, <2>1, ElementOfSeq DEF Models
<1>5. L.rows = {}
  BY <1>0, <1>1, <1>3 DEF Sound, Unsaved, Booked
<1>6. mine \in Credit /\ Available(mine) \in Nat /\ Available(L.mine) \in Nat
  BY <1>3, <1>4, TakenFacts, CreditFacts
<1>7. r \in Rows /\ r.type = "consume" /\ r.id = L.arg /\ r.amount = Available(mine) - Available(L.mine)
  BY <1>3, <1>6 DEF Rows, Transaction
<1> HIDE DEF L, n, mine, r
<1>8. /\ j \in Jobs /\ j.op = "charge" /\ j.arg = L.arg /\ j.pc = "hook" /\ j.loaded
      /\ j.rows = {r} /\ j.seen = L.seen /\ j.mine = mine
  BY <1>3, <1>6, <1>7 DEF Jobs, Records, Phase
<1> HIDE DEF j
<1>9. job'[w] = j /\ \A v \in Workers \ {w} : job'[v] = job[v]
  BY <1>0, <1>2, <1>8, MoveTyped
<1>10. Typed'
  BY <1>0, <1>1, <1>2, <1>8, MoveTyped DEF Typed
<1>11. ~Granted => L.seen = credit /\ Available(L.mine) = Available(credit)
  <2>1. CASE job[w].loaded
    <3>1. L = job[w]
      BY <1>0, <2>1, LoadedFacts DEF L
    <3>2. Total({}) = 0
      BY TotalFacts, FS_EmptySet
    <3>3. Available(credit) \in Nat
      BY <1>0, CreditFacts DEF Typed
    <3>4. Holding(w) /\ Total(job[w].rows) = 0
      BY <1>0, <1>5, <3>1, <3>2 DEF Sound
    <3>5. ~Granted => job[w].seen = credit /\ Available(job[w].mine) = Available(credit) + Total(job[w].rows)
      BY <1>1, <2>1, <3>4 DEF Holding, Charging
    <3> QED BY <3>1, <3>3, <3>4, <3>5
  <2>2. CASE ~job[w].loaded
    BY <1>0, <2>2, LoadedFacts DEF L
  <2> QED BY <2>1, <2>2
<1>12. Holding(w)'
  <2>1. Total({r}) = r.amount
    <3>1. Total({} \cup {r}) = Total({}) + r.amount /\ Total({}) = 0
      BY <1>7, TotalFacts, FS_EmptySet
    <3>2. r.amount \in Int
      BY <1>6, <1>7
    <3> QED BY <3>1, <3>2
  <2>2. ~Granted' => Available(mine) = Available(credit) + Total({r}) /\ L.seen = credit
    BY <1>1, <1>6, <1>7, <1>11, <2>1 DEF Granted
  <2> QED BY <1>1, <1>8, <1>9, <2>2 DEF Holding
<1>13. Unsaved(w)' /\ Promised(w)'
  BY <1>1, <1>7, <1>8, <1>9 DEF Unsaved, Promised, Charging, Booked
<1>14. Sound(w)'
  BY <1>0, <1>1, <1>3, <1>8, <1>9, <1>12, <1>13 DEF Sound
<1> QED BY <1>1, <1>3, <1>8, <1>9, <1>10, <1>14, QuietStep

-----------------------------------------------------------------------------
(* Steps of a renewal that write nothing to the account.                   *)

(* Who looks at the threshold: a charge with its session, or the scan.     *)
LEMMA LookFacts ==
  ASSUME Typed, NEW w \in Workers, Sound(w), Looks(w)
  PROVE  /\ Looking(w) \in Records
         /\ \/ Looking(w) = job[w] /\ job[w].op = "charge" /\ job[w].pc = "hook"
            \/ /\ job[w] = Idle /\ Looking(w).op = "scan" /\ Looking(w).arg = Nothing
               /\ Looking(w).rows = {} /\ Looking(w).seen = credit /\ Looking(w).mine = credit
<1>1. CASE job[w] = Idle
  <2>1. job[w].rows = {} /\ ~job[w].loaded /\ job[w].arg = Nothing
    BY <1>1 DEF Idle
  <2>2. Looking(w) = [Loaded(w) EXCEPT !.op = "scan"]
    BY <1>1 DEF Looking
  <2>3. /\ Loaded(w) \in Records /\ Loaded(w).rows = {} /\ Loaded(w).arg = Nothing
        /\ Loaded(w).seen = credit /\ Loaded(w).mine = credit
    BY <2>1, LoadedFacts
  <2> QED BY <1>1, <2>2, <2>3 DEF Records
<1>2. CASE job[w] # Idle
  BY <1>2, JobFacts DEF Looks, Looking, At
<1> QED BY <1>1, <1>2

(* The charge goes on with its next model, or the scan is over.            *)
LEMMA AfterKeeps ==
  ASSUME IInv, NEW w \in Workers, Moves(w, After(job[w])), renewal' \in Renewals,
         job[w].op \in {"charge", "scan"}, job[w].pc \in {"hook", "paid", "failing"},
         UNCHANGED <<credit, ledger, settled, code, money, bought, open, lock, turn, clicks, crashes>>
  PROVE  Keeps
<1>0. Typed /\ Sound(w)
  BY DEF IInv
<1>1. CASE job[w].op = "charge"
  <2> DEFINE j == [job[w] EXCEPT !.pc = "group", !.group = job[w].group + 1, !.fails = 0]
  <2>1. Moves(w, j)
    BY <1>1 DEF After
  <2>2. job[w] \in Records /\ job[w].group \in Nat /\ job[w].arg \in Messages
    BY <1>0, <1>1, JobFacts
  <2>3. /\ j \in Jobs /\ j.op = "charge" /\ j.arg = job[w].arg /\ j.pc = "group"
        /\ j.rows = job[w].rows /\ j.loaded = job[w].loaded
        /\ j.seen = job[w].seen /\ j.mine = job[w].mine
    <3>1. job[w].group + 1 \in Nat
      BY <2>2
    <3>2. /\ j \in Records /\ j.op = "charge" /\ j.arg = job[w].arg /\ j.pc = "group"
          /\ j.rows = job[w].rows /\ j.loaded = job[w].loaded
          /\ j.seen = job[w].seen /\ j.mine = job[w].mine
      BY <1>1, <2>2, <3>1 DEF Records
    <3> QED BY <2>2, <3>2 DEF Jobs, Phase
  <2> HIDE DEF j
  <2>4. job'[w] = j /\ \A v \in Workers \ {w} : job'[v] = job[v]
    BY <1>0, <2>1, <2>3, MoveTyped
  <2>5. Typed'
    BY <1>0, <2>1, <2>3, MoveTyped DEF Typed
  <2>6. Unsaved(w)' /\ Promised(w)'
    <3>1. Unsaved(w) /\ Promised(w)
      BY <1>0 DEF Sound
    <3>2. Passed(w)
      BY DEF Passed
    <3>3. Unsaved(w)'
      <4>1. job[w].rows # {} => job[w].loaded
        BY <3>1 DEF Unsaved
      <4> QED BY <2>3, <2>4, <3>1, <4>1 DEF Unsaved, Charging
    <3>4. Promised(w)'
      BY <1>1, <2>3, <2>4, <3>1, <3>2 DEF Promised
    <3> QED BY <3>3, <3>4
  <2>7. Holding(w)'
    <3>1. Holding(w)
      BY <1>0 DEF Sound
    <3>2. job[w].loaded /\ ~Granted => job[w].pc = "hook"
      BY <1>1, <3>1 DEF Holding
    <3> QED BY <1>1, <2>3, <2>4, <3>1, <3>2 DEF Holding, Charging, Granted
  <2>8. Sound(w)'
    BY <1>0, <1>1, <2>3, <2>4, <2>6, <2>7 DEF Sound
  <2> QED BY <1>1, <2>3, <2>4, <2>5, <2>8, QuietStep
<1>2. CASE job[w].op # "charge"
  <2>1. Moves(w, Idle)
    BY <1>2 DEF After
  <2>2. job'[w] = Idle /\ \A v \in Workers \ {w} : job'[v] = job[v]
    BY <1>0, <2>1, IdleIsJob, MoveTyped
  <2>3. Typed'
    BY <1>0, <2>1, IdleIsJob, MoveTyped DEF Typed
  <2>4. Sound(w)' /\ job'[w].op = "none"
    BY <2>2 DEF Sound, Unsaved, Promised, Holding, Idle
  <2> QED BY <2>2, <2>3, <2>4, QuietStep
<1> QED BY <1>1, <1>2

LEMMA RenewEndKeeps ==
  ASSUME IInv, NEW w \in Workers, RenewSkip(w) \/ RenewRecord(w) \/ RenewFail(w) PROVE Keeps
<1>0. Typed
  BY DEF IInv
<1>1. /\ Moves(w, After(job[w]))
      /\ UNCHANGED <<credit, ledger, settled, code, money, bought, open, lock, turn, clicks, crashes>>
  BY DEF RenewSkip, RenewRecord, RenewFail, Moves
<1>2. job[w].op \in {"charge", "scan"} /\ job[w].pc \in {"hook", "paid", "failing"}
  <2>1. job[w].pc \in {"hook", "paid", "failing"}
    BY DEF RenewSkip, RenewRecord, RenewFail, At, In
  <2> QED BY <1>0, <2>1, JobFacts DEF Phase
<1>3. renewal' \in Renewals
  <2>1. renewal \in Renewals
    BY <1>0 DEF Typed
  <2>2. CASE RenewSkip(w)
    BY <2>1, <2>2 DEF RenewSkip
  <2>3. CASE RenewRecord(w)
    BY <2>1, <2>3 DEF RenewRecord, Renewals
  <2>4. CASE RenewFail(w)
    <3> DEFINE n == renewal.fails + 1
               s == IF n >= MaxFails THEN "failed" ELSE renewal.status
    <3>1. renewal' = [renewal EXCEPT !.fails = n, !.status = s]
      BY <2>4 DEF RenewFail
    <3>2. n \in Nat /\ s \in {"none", "active", "paused", "failed", "cancelled"}
      BY <2>1 DEF Renewals
    <3> HIDE DEF n, s
    <3> QED BY <2>1, <3>1, <3>2 DEF Renewals
  <2> QED BY <2>2, <2>3, <2>4
<1> QED BY <1>1, <1>2, <1>3, AfterKeeps

(* A renewal that is refused or finds no money loses what its session      *)
(* held; that is a charge only if the package is no longer on sale.        *)
LEMMA RenewLostKeeps ==
  ASSUME IInv, NEW w \in Workers, RenewRefused(w) \/ RenewShort(w) PROVE Keeps
<1>0. Typed /\ Sound(w)
  BY DEF IInv
<1>1. /\ lock' = Released(w)
      /\ UNCHANGED <<credit, ledger, settled, code, renewal, money, bought, open, turn, clicks, crashes>>
  BY DEF RenewRefused, RenewShort
<1>2. PICK L \in Records :
        /\ Moves(w, [Expired(L) EXCEPT !.pc = "failing"])
        /\ \/ L.op = "charge" /\ L.arg = job[w].arg /\ job[w].op = "charge" /\ L.arg \in Messages
           \/ L.op = "scan" /\ L.arg = Nothing
        /\ L.op = "charge" /\ open => job[w].pc = "paying" /\ L.rows = job[w].rows
  <2>1. CASE RenewRefused(w)
    <3>1. Looks(w) /\ ~open /\ Moves(w, [Expired(Looking(w)) EXCEPT !.pc = "failing"])
      BY <2>1 DEF RenewRefused, Moves
    <3> QED BY <1>0, <3>1, LookFacts, JobFacts DEF Idle
  <2>2. CASE RenewShort(w)
    <3>1. job[w].pc = "paying" /\ Moves(w, [Expired(job[w]) EXCEPT !.pc = "failing"])
      BY <2>2 DEF RenewShort, Moves, In
    <3>2. job[w] \in Records /\ Phase(job[w])
      BY <1>0, JobFacts
    <3> QED BY <3>1, <3>2 DEF Phase
  <2> QED BY <2>1, <2>2
<1> DEFINE j == [Expired(L) EXCEPT !.pc = "failing"]
<1>3. /\ j \in Records /\ j.op = L.op /\ j.arg = L.arg /\ j.pc = "failing" /\ j.rows = {} /\ ~j.loaded
  BY DEF Expired, Records
<1>4. j \in Jobs
  BY <1>2, <1>3 DEF Jobs, Phase
<1> HIDE DEF j
<1>5. job'[w] = j /\ \A v \in Workers \ {w} : job'[v] = job[v]
  BY <1>0, <1>2, <1>4, MoveTyped DEF j
<1>6. Typed'
  <2>1. job' \in [Workers -> Jobs]
    BY <1>0, <1>2, <1>4, MoveTyped DEF j
  <2>2. lock' \in Workers \cup {NoWorker}
    BY <1>0, <1>1 DEF Released, Typed
  <2> QED BY <1>0, <1>1, <2>1, <2>2 DEF Typed
<1>7. Promised(w)'
  <2> SUFFICES ASSUME j.op = "charge", open, Models(j.arg) # {}
               PROVE  Booked(ledger, "consume", j.arg)
    BY <1>1, <1>3, <1>5 DEF Promised, Booked
  <2>1. job[w].op = "charge" /\ job[w].pc = "paying" /\ j.arg = job[w].arg
    BY <1>2, <1>3
  <2>2. job[w].rows = {}
    BY <1>0, <2>1 DEF Sound, Unsaved, Charging
  <2>3. Booked(ledger \cup job[w].rows, "consume", job[w].arg)
    BY <1>0, <2>1 DEF Sound, Promised, Passed
  <2> QED BY <2>1, <2>2, <2>3 DEF Booked
<1>8. Unsaved(w)' /\ Holding(w)'
  BY <1>3, <1>5 DEF Unsaved, Holding, Charging
<1>9. Sound(w)'
  BY <1>0, <1>1, <1>2, <1>3, <1>5, <1>7, <1>8 DEF Sound
<1>10. lock \in Workers \ {w} => lock' = lock
  BY <1>1 DEF Released
<1>11. job'[w].op \in {"charge", "redeem"} => job'[w].op = job[w].op /\ job'[w].arg = job[w].arg
  BY <1>2, <1>3, <1>5
<1> QED BY <1>1, <1>5, <1>6, <1>9, <1>10, <1>11, QuietStep

(* A code is locked while it is redeemed.                                  *)
LEMMA RedeemCheckKeeps ==
  ASSUME IInv, NEW w \in Workers, NEW c \in Codes, RedeemCheck(w, c) PROVE Keeps
<1>0. Typed
  BY DEF IInv
<1> DEFINE j == [Loaded(w) EXCEPT !.op = "redeem", !.arg = c, !.pc = "granting"]
<1>1. /\ job[w] = Idle /\ ~Redeeming(c) /\ code[c] = "unused" /\ Moves(w, j)
      /\ UNCHANGED <<credit, ledger, settled, code, renewal, money, bought, open, lock, turn, clicks, crashes>>
  BY DEF RedeemCheck, Moves
<1>2. Loaded(w) \in Records /\ Loaded(w).rows = {}
  <2>1. job[w].rows = {}
    BY <1>1 DEF Idle
  <2> QED BY <1>0, <2>1, LoadedFacts
<1>3. j \in Records /\ j.op = "redeem" /\ j.arg = c /\ j.pc = "granting" /\ j.rows = {}
  BY <1>2 DEF Records
<1>4. j \in Jobs
  BY <1>3 DEF Jobs, Phase
<1> HIDE DEF j
<1>5. job'[w] = j /\ \A v \in Workers \ {w} : job'[v] = job[v]
  BY <1>0, <1>1, <1>4, MoveTyped
<1>6. Typed'
  BY <1>0, <1>1, <1>4, MoveTyped DEF Typed
<1>7. Sound(w)'
  BY <1>1, <1>3, <1>5 DEF Sound, Unsaved, Promised, Holding
<1>8. \A v \in Workers : ~(job[v].op = job'[w].op /\ job[v].arg = job'[w].arg)
  BY <1>1, <1>3, <1>5 DEF Redeeming
<1> QED BY <1>1, <1>5, <1>6, <1>7, <1>8, QuietStep

(* The database rolls back what a worker that dies had not committed.      *)
LEMMA CrashKeeps ==
  ASSUME IInv, NEW w \in Workers, Crash(w) PROVE Keeps
<1>0. Typed
  BY DEF IInv
<1>1. /\ Moves(w, Idle) /\ lock' = Released(w) /\ crashes' = crashes + 1 /\ crashes < MaxCrashes
      /\ turn' = (IF job[w].op = "charge" THEN [turn EXCEPT ![job[w].arg] = "died"] ELSE turn)
      /\ UNCHANGED <<credit, ledger, settled, code, renewal, money, bought, open, clicks>>
  BY DEF Crash, Moves
<1>2. job'[w] = Idle /\ \A v \in Workers \ {w} : job'[v] = job[v]
  BY <1>0, <1>1, IdleIsJob, MoveTyped
<1>3. Typed'
  <2>1. job' \in [Workers -> Jobs]
    BY <1>0, <1>1, IdleIsJob, MoveTyped
  <2>2. lock' \in Workers \cup {NoWorker} /\ crashes' \in 0 .. MaxCrashes
    BY <1>0, <1>1 DEF Released, Typed
  <2>3. turn' \in [Messages -> {"none", "running", "reported", "raised", "died"}]
    BY <1>0, <1>1 DEF Typed
  <2> QED BY <1>0, <1>1, <2>1, <2>2, <2>3 DEF Typed
<1>4. Sound(w)' /\ job'[w].op = "none"
  BY <1>2 DEF Sound, Unsaved, Promised, Holding, Idle
<1>5. \A m \in Messages : turn'[m] = turn[m] \/ (turn'[m] = "died" /\ job[w].op = "charge" /\ m = job[w].arg)
  BY <1>0, <1>1 DEF Typed
<1>6. lock \in Workers \ {w} => lock' = lock
  BY <1>1 DEF Released
<1> QED BY <1>1, <1>2, <1>3, <1>4, <1>5, <1>6, QuietStep

-----------------------------------------------------------------------------
(* Commits.                                                                *)

(* The entries of a session come to the ledger once.                       *)
Fresh(rows) == \A r \in rows : \A q \in ledger \cup rows : r.type = q.type /\ r.id = q.id => r = q

LEMMA SessionRows ==
  ASSUME Typed, Orderly, NEW w \in Workers, Sound(w)
  PROVE  LET N == job[w].rows IN
         /\ N \in SUBSET Rows /\ IsFiniteSet(N) /\ Fresh(N)
         /\ \A r \in N : r.type = "consume" /\ r.id = job[w].arg /\ job[w].op = "charge"
         /\ IsFiniteSet(ledger \cup N) /\ Total(N) \in Int /\ Total(ledger) \in Int
         /\ Total(ledger \cup N) = Total(ledger) + Total(N)
<1> DEFINE N == job[w].rows
<1>1. N \in SUBSET Rows /\ ledger \in SUBSET Rows /\ IsFiniteSet(ledger)
  BY JobFacts DEF Typed, Orderly
<1>2. Unsaved(w)
  BY DEF Sound
<1>3. \A r \in N : r.type = "consume" /\ r.id = job[w].arg /\ job[w].op = "charge"
  BY <1>2 DEF Unsaved
<1>4. Fresh(N)
  BY <1>2, <1>3 DEF Unsaved, Fresh, Booked
<1>5. Total(ledger) \in Int /\ Total({}) = 0 /\ IsFiniteSet({})
  BY <1>1, TotalFacts, FS_EmptySet
<1>6. CASE N = {}
  <2>1. ledger \cup N = ledger
    BY <1>6
  <2> QED BY <1>1, <1>3, <1>4, <1>5, <1>6, <2>1
<1>7. CASE N # {}
  <2>1. PICK r \in N : TRUE
    BY <1>7
  <2>2. N = {r}
    BY <1>2, <2>1 DEF Unsaved
  <2>3. r \in Rows /\ r \notin ledger
    BY <1>1, <1>2, <2>1 DEF Unsaved, Booked
  <2>4. IsFiniteSet(ledger \cup {r}) /\ Total(ledger \cup {r}) = Total(ledger) + r.amount
    BY <1>1, <2>3, TotalFacts
  <2>5. IsFiniteSet({} \cup {r}) /\ Total({} \cup {r}) = Total({}) + r.amount
    BY <1>5, <2>3, TotalFacts
  <2>6. r.amount \in Int /\ {} \cup {r} = N
    BY <2>2, <2>3, AmountInt
  <2> QED BY <1>1, <1>3, <1>4, <1>5, <2>2, <2>4, <2>5, <2>6
<1> QED BY <1>6, <1>7

(* A code is redeemed by who has it locked, and then it is used.           *)
CodesSpent(w, rows) ==
  \A c \in Codes :
    \/ code'[c] = code[c] /\ ~Redeemed(rows, c)
    \/ job[w].op = "redeem" /\ c = job[w].arg /\ code'[c] = "used" /\ Redeemed(rows, c)

(* What a commit has to keep.                                              *)
LEMMA CommitStep ==
  ASSUME IInv, NEW w \in Workers, \A v \in Workers \ {w} : job'[v] = job[v],
         Typed', Sound(w)', ChargeBooked', Explained',
         NEW N \in SUBSET Rows, IsFiniteSet(N), Fresh(N), ledger' = ledger \cup N,
         \A r \in N : /\ r.type = "consume" => job[w].op = "charge" /\ r.id = job[w].arg
                      /\ r.type = "order_grant" => r.id <= bought',
         bought <= bought', open' = open,
         \A m \in Messages : turn'[m] = turn[m] \/ (job[w].op = "charge" /\ m = job[w].arg),
         \A m \in settled' : turn'[m] = "reported",
         CodesSpent(w, N),
         lock \in Workers \ {w} /\ ~Granted' => lock' = lock /\ credit' = credit,
         job'[w].op \in {"charge", "redeem"} => job'[w].op = job[w].op /\ job'[w].arg = job[w].arg
  PROVE  Keeps
<1>0. Typed /\ (\A v \in Workers : Sound(v)) /\ Alone /\ Orderly
  BY DEF IInv
<1>1. \A v \in Workers \ {w} : Sound(v)'
  BY <1>0, OthersSound DEF CodesSpent
<1>2. Alone'
  BY <1>0, AloneKept
<1>3. Orderly'
  <2>1. IsFiniteSet(ledger') /\ OneEntry'
    <3>1. IsFiniteSet(ledger') BY <1>0, FS_Union DEF Orderly
    <3>2. OneEntry
      BY <1>0 DEF Orderly
    <3> QED BY <3>1, <3>2 DEF OneEntry, Fresh
  <2>2. \A r \in ledger' : r.type = "order_grant" => r.id <= bought'
    <3> SUFFICES ASSUME NEW r \in ledger, r.type = "order_grant" PROVE r.id <= bought'
      OBVIOUS
    <3>1. r.id \in Nat
      BY <1>0 DEF Typed, Rows
    <3>2. r.id <= bought /\ bought \in Nat /\ bought' \in Nat
      BY <1>0 DEF Orderly, Typed
    <3> QED BY <3>1, <3>2
  <2>3. ASSUME NEW c \in Codes
        PROVE  /\ code'[c] = "used" => Redeemed(ledger', c)
               /\ code'[c] = "unused" => ~Redeemed(ledger', c)
    <3>1. /\ code[c] = "used" => Redeemed(ledger, c)
          /\ code[c] = "unused" => ~Redeemed(ledger, c)
      BY <1>0 DEF Orderly
    <3>2. Redeemed(ledger', c) <=> Redeemed(ledger, c) \/ Redeemed(N, c)
      BY DEF Redeemed, Booked
    <3> QED BY <3>1, <3>2 DEF CodesSpent
  <2> QED BY <2>1, <2>2, <2>3 DEF Orderly
<1>4. DisabledStays
  <2> SUFFICES ASSUME NEW c \in Codes, code[c] = "disabled"
               PROVE  code'[c] = "disabled" /\ (Redeemed(ledger', c) => Redeemed(ledger, c))
    BY DEF DisabledStays
  <2>1. ~(job[w].op = "redeem" /\ c = job[w].arg)
    BY <1>0 DEF Sound
  <2> QED BY <2>1 DEF CodesSpent, Redeemed, Booked
<1> QED BY <1>1, <1>2, <1>3, <1>4 DEF IInv, Keeps

(* A commit of charges settles nothing.                                    *)
LEMMA BookedKept ==
  ASSUME ChargeBooked, NEW N, \A r \in N : r.type # "adjust", ledger' = ledger \cup N,
         UNCHANGED <<settled, open>>,
         \A m \in Messages : turn'[m] = "reported" => turn[m] = "reported"
  PROVE  ChargeBooked'
  BY DEF ChargeBooked, Booked

(* create_order commits a charge, or nothing.                              *)
LEMMA RenewOrderKeeps ==
  ASSUME IInv, NEW w \in Workers, RenewOrder(w) PROVE Keeps
<1>0. Typed /\ Sound(w) /\ Orderly /\ ChargeBooked /\ Explained
  BY DEF IInv
<1> DEFINE L == Looking(w)
           N == L.rows
           j == [Committed(L) EXCEPT !.pc = "paying", !.fails = renewal.fails]
<1>1. /\ Looks(w) /\ Moves(w, j) /\ credit' = Written(L) /\ ledger' = ledger \cup N /\ lock' = Released(w)
      /\ UNCHANGED <<settled, code, renewal, money, bought, open, turn, clicks, crashes>>
  BY DEF RenewOrder, Moves
<1>2. /\ L \in Records
      /\ \/ L = job[w] /\ job[w].op = "charge" /\ job[w].pc = "hook"
         \/ /\ job[w] = Idle /\ L.op = "scan" /\ L.arg = Nothing
            /\ N = {} /\ L.seen = credit /\ L.mine = credit
  BY <1>0, <1>1, LookFacts
<1> HIDE DEF L
<1>3. L.seen \in Credit /\ L.mine \in Credit /\ L.rows \subseteq Rows
  BY <1>2 DEF Records
<1>4. renewal.fails \in Nat
  BY <1>0 DEF Typed, Renewals
<1>5. /\ j \in Records /\ j.op = L.op /\ j.arg = L.arg /\ j.pc = "paying" /\ j.rows = {}
  BY <1>2, <1>3, <1>4 DEF Committed, Records
<1>6. j \in Jobs
  <2>1. job[w].op = "charge" => job[w].arg \in Messages
    BY <1>0, JobFacts
  <2> QED BY <1>2, <1>5, <2>1 DEF Jobs, Phase
<1> HIDE DEF j
<1>7. job' \in [Workers -> Jobs] /\ job'[w] = j /\ \A v \in Workers \ {w} : job'[v] = job[v]
  BY <1>0, <1>1, <1>6, MoveTyped
<1>8. /\ N = job[w].rows
      /\ N \in SUBSET Rows /\ IsFiniteSet(N) /\ Fresh(N)
      /\ \A r \in N : r.type = "consume" /\ r.id = job[w].arg /\ job[w].op = "charge"
      /\ Total(ledger \cup N) = Total(ledger) + Total(N) /\ Total(N) \in Int /\ Total(ledger) \in Int
  <2>1. N = job[w].rows
    <3>1. Idle.rows = {}
      BY DEF Idle
    <3> QED BY <1>2, <3>1
  <2> QED BY <1>0, <2>1, SessionRows
<1>9. Granted' <=> Granted
  BY <1>1, <1>8 DEF Granted
<1>10. /\ Written(L) \in Credit
       /\ L.seen = credit => Written(L) = L.mine
       /\ L.seen = L.mine => Written(L) = credit
  BY <1>0, <1>3, WrittenFacts
<1>11. Typed'
  <2>1. credit' \in Credit /\ ledger' \subseteq Rows
    BY <1>0, <1>1, <1>8, <1>10 DEF Typed
  <2>2. lock' \in Workers \cup {NoWorker}
    BY <1>0, <1>1 DEF Released, Typed
  <2> QED BY <1>0, <1>1, <1>7, <2>1, <2>2 DEF Typed
<1>12. Sound(w)'
  <2>1. CASE L.op = "charge"
    <3>1. L = job[w] /\ job[w].op = "charge" /\ job[w].pc = "hook"
      BY <1>2, <2>1
    <3>2. Promised(w)'
      <4>1. Promised(w) /\ Passed(w)
        BY <1>0, <3>1 DEF Sound, Passed
      <4> QED BY <1>1, <1>5, <1>7, <1>8, <3>1, <4>1 DEF Promised, Booked
    <3>3. Unsaved(w)' /\ Holding(w)'
      BY <1>5, <1>7 DEF Unsaved, Holding, Charging
    <3> QED BY <1>0, <1>1, <1>5, <1>7, <3>1, <3>2, <3>3 DEF Sound
  <2>2. CASE L.op # "charge"
    BY <1>2, <1>5, <1>7, <2>2 DEF Sound, Unsaved, Promised, Holding
  <2> QED BY <2>1, <2>2
<1>13. ~Granted => /\ Available(Written(L)) = Available(credit) + Total(N)
                   /\ job[w].op = "charge" => lock = w
                   /\ job[w].op # "charge" => Written(L) = credit
  <2>1. CASE L = job[w] /\ job[w].op = "charge" /\ job[w].pc = "hook"
    <3>1. Holding(w)
      BY <1>0 DEF Sound
    <3> QED BY <1>8, <1>10, <2>1, <3>1 DEF Holding, Charging
  <2>2. CASE job[w] = Idle /\ N = {} /\ L.seen = credit /\ L.mine = credit
    <3>1. Available(credit) \in Nat /\ Total({}) = 0
      BY <1>0, CreditFacts, TotalFacts, FS_EmptySet DEF Typed
    <3>2. job[w].op # "charge"
      BY <2>2 DEF Idle
    <3> QED BY <1>10, <2>2, <3>1, <3>2
  <2> QED BY <1>2, <2>1, <2>2
<1>14. lock \in Workers \ {w} /\ ~Granted' => lock' = lock /\ credit' = credit
  BY <1>1, <1>9, <1>13 DEF Released
<1>15. ChargeBooked'
  BY <1>0, <1>1, <1>8, BookedKept
<1>16. Explained'
  <2>1. Available(Opening) \in Nat /\ Available(credit) \in Nat
    BY <1>0, CreditFacts DEF Typed
  <2> QED BY <1>0, <1>1, <1>8, <1>9, <1>13, <2>1 DEF Explained
<1>17. bought <= bought'
  BY <1>0, <1>1 DEF Typed
<1>18. CodesSpent(w, N)
  BY <1>1, <1>8 DEF CodesSpent, Redeemed, Booked
<1>19. \A m \in settled' : turn'[m] = "reported"
  BY <1>0, <1>1 DEF Orderly
<1>20. job'[w].op \in {"charge", "redeem"} => job'[w].op = job[w].op /\ job'[w].arg = job[w].arg
  BY <1>2, <1>5, <1>7
<1> QED
  BY <1>1, <1>7, <1>8, <1>11, <1>12, <1>14, <1>15, <1>16, <1>17, <1>18, <1>19, <1>20, CommitStep

(* Money buys the credits of one more order.                               *)
LEMMA RenewPayKeeps ==
  ASSUME IInv, NEW w \in Workers, RenewPay(w) PROVE Keeps
<1>0. Typed /\ Sound(w) /\ Orderly /\ ChargeBooked
  BY DEF IInv
<1> DEFINE L == Loaded(w)
           g == Given(L.mine, PackageGrant)
           i == [L EXCEPT !.mine = g]
           j == [Committed(i) EXCEPT !.pc = "paid"]
           r == Transaction("order_grant", bought + 1, PackageGrant)
<1>1. /\ job[w].pc = "paying" /\ lock \in {NoWorker, w} /\ money >= Price
      /\ Moves(w, j) /\ credit' = Written(i) /\ ledger' = ledger \cup i.rows \cup {r}
      /\ lock' = Released(w) /\ money' = money - Price /\ bought' = bought + 1
      /\ UNCHANGED <<settled, code, renewal, open, turn, clicks, crashes>>
  BY DEF RenewPay, In, CanLock, Moves
<1>2. job[w] \in Records /\ Phase(job[w])
  BY <1>0, JobFacts
<1>3. /\ L \in Records /\ L.op = job[w].op /\ L.arg = job[w].arg /\ L.rows = job[w].rows
  BY <1>0, LoadedFacts
<1>4. L.rows = {}
  BY <1>0, <1>1, <1>3 DEF Sound, Unsaved, Charging
<1>5. L.seen \in Credit /\ L.mine \in Credit
  BY <1>3 DEF Records
<1> HIDE DEF L
<1>6. g \in Credit
  BY <1>5, GivenFacts
<1> HIDE DEF g
<1>7. /\ i \in Records /\ i.op = job[w].op /\ i.arg = job[w].arg /\ i.rows = {}
      /\ i.seen \in Credit /\ i.mine \in Credit
  BY <1>3, <1>4, <1>5, <1>6 DEF Records
<1> HIDE DEF i
<1>8. j \in Records /\ j.op = job[w].op /\ j.arg = job[w].arg /\ j.pc = "paid" /\ j.rows = {}
  BY <1>7 DEF Committed, Records
<1>9. j \in Jobs
  BY <1>1, <1>2, <1>8 DEF Jobs, Phase
<1> HIDE DEF j
<1>10. job' \in [Workers -> Jobs] /\ job'[w] = j /\ \A v \in Workers \ {w} : job'[v] = job[v]
  BY <1>0, <1>1, <1>9, MoveTyped
<1>11. /\ r \in Rows /\ r.type = "order_grant" /\ r.id = bought + 1
       /\ bought \in Nat
  BY <1>0 DEF Typed, Rows, Transaction
<1> DEFINE N == {r}
<1>12. ledger' = ledger \cup N /\ Granted'
  BY <1>1, <1>7, <1>11 DEF Granted
<1>13. /\ N \in SUBSET Rows /\ IsFiniteSet(N)
       /\ \A q \in N : q.type = "order_grant" /\ q.id = bought + 1
       /\ \A p, q \in N : p = q
  BY <1>11, FS_Singleton
<1> HIDE DEF r, N
<1>14. Typed'
  <2>1. credit' \in Credit
    BY <1>0, <1>1, <1>7, WrittenFacts
  <2>2. lock' \in Workers \cup {NoWorker}
    BY <1>0, <1>1 DEF Released, Typed
  <2>3. money' \in Nat /\ bought' \in Nat
    <3>1. money \in Nat /\ Price \in Nat
      BY <1>0 DEF Typed
    <3> QED BY <1>1, <1>11, <3>1
  <2> QED BY <1>0, <1>1, <1>10, <1>12, <1>13, <2>1, <2>2, <2>3 DEF Typed
<1>15. Fresh(N)
  BY <1>0, <1>11, <1>13 DEF Fresh, Orderly
<1>16. Sound(w)'
  <2>1. Promised(w)'
    <3>1. Promised(w) /\ Passed(w)
      BY <1>0, <1>1 DEF Sound, Passed
    <3> QED BY <1>1, <1>3, <1>4, <1>8, <1>10, <1>12, <3>1 DEF Promised, Booked
  <2>2. Unsaved(w)' /\ Holding(w)'
    BY <1>8, <1>10, <1>12 DEF Unsaved, Holding, Charging
  <2>3. job[w].op # "redeem"
    BY <1>1, <1>2 DEF Phase
  <2> QED BY <1>0, <1>1, <1>8, <1>10, <2>1, <2>2, <2>3 DEF Sound
<1>17. ChargeBooked'
  BY <1>0, <1>1, <1>12, <1>13, BookedKept
<1>18. Explained'
  BY <1>12 DEF Explained
<1>19. CodesSpent(w, N)
  BY <1>1, <1>13 DEF CodesSpent, Redeemed, Booked
<1>20. \A m \in settled' : turn'[m] = "reported"
  BY <1>0, <1>1 DEF Orderly
<1>21. bought <= bought' /\ \A q \in N : q.id <= bought'
  BY <1>1, <1>11, <1>13
<1> QED
  BY <1>1, <1>8, <1>10, <1>12, <1>14, <1>15, <1>16, <1>17, <1>18, <1>19, <1>20, <1>21, <1>13, CommitStep

(* A code that is unused, and locked, is redeemed for the first time.      *)
LEMMA RedeemCommitKeeps ==
  ASSUME IInv, NEW w \in Workers, RedeemCommit(w) PROVE Keeps
<1>0. Typed /\ Sound(w) /\ Orderly /\ ChargeBooked
  BY DEF IInv
<1> DEFINE g == Given(job[w].mine, CodeGrant)
           i == [job[w] EXCEPT !.mine = g]
           c == job[w].arg
           r == Transaction("redeem_grant", c, CodeGrant)
<1>1. /\ job[w].op = "redeem" /\ lock \in {NoWorker, w} /\ Moves(w, Idle)
      /\ credit' = Written(i) /\ ledger' = ledger \cup {Transaction("redeem_grant", i.arg, CodeGrant)}
      /\ code' = [code EXCEPT ![i.arg] = "used"]
      /\ UNCHANGED <<settled, renewal, money, bought, open, lock, turn, clicks, crashes>>
  BY DEF RedeemCommit, At, CanLock, Moves
<1>2. job[w] \in Records /\ c \in Codes /\ job[w].seen \in Credit /\ job[w].mine \in Credit
  BY <1>0, <1>1, JobFacts
<1>3. i.arg = c /\ i.seen \in Credit /\ i.mine \in Credit
  BY <1>2, GivenFacts DEF Records
<1> HIDE DEF i
<1>4. ledger' = ledger \cup {r} /\ code' = [code EXCEPT ![c] = "used"]
  BY <1>1, <1>3
<1>5. job' \in [Workers -> Jobs] /\ job'[w] = Idle /\ \A v \in Workers \ {w} : job'[v] = job[v]
  BY <1>0, <1>1, IdleIsJob, MoveTyped
<1>6. r \in Rows /\ r.type = "redeem_grant" /\ r.id = c
  BY <1>2 DEF Rows, Transaction
<1> DEFINE N == {r}
<1>7. /\ N \in SUBSET Rows /\ IsFiniteSet(N) /\ ledger' = ledger \cup N
      /\ \A q \in N : q.type = "redeem_grant" /\ q.id = c
      /\ \A p, q \in N : p = q
      /\ \E q \in N : q.type = "redeem_grant" /\ q.id = c
  BY <1>4, <1>6, FS_Singleton
<1> HIDE DEF r, N
<1>8. Granted'
  BY <1>7 DEF Granted
<1>9. Typed'
  <2>1. credit' \in Credit
    BY <1>0, <1>1, <1>3, WrittenFacts
  <2>2. code' \in [Codes -> {"unused", "used", "disabled"}]
    BY <1>0, <1>4 DEF Typed
  <2> QED BY <1>0, <1>1, <1>5, <1>7, <2>1, <2>2 DEF Typed
<1>10. Fresh(N)
  <2>1. ~Redeemed(ledger, c)
    BY <1>0, <1>1, <1>2 DEF Sound, Orderly
  <2> QED BY <1>7, <2>1 DEF Fresh, Redeemed, Booked
<1>11. Sound(w)'
  BY <1>5 DEF Sound, Unsaved, Promised, Holding, Idle
<1>12. ChargeBooked'
  BY <1>0, <1>1, <1>7, BookedKept
<1>13. Explained'
  BY <1>8 DEF Explained
<1>14. CodesSpent(w, N)
  BY <1>0, <1>1, <1>2, <1>4, <1>7 DEF Typed, CodesSpent, Redeemed, Booked
<1>15. \A m \in settled' : turn'[m] = "reported"
  BY <1>0, <1>1 DEF Orderly
<1>16. bought <= bought' /\ open' = open
  BY <1>0, <1>1 DEF Typed
<1>17. \A q \in N : /\ q.type = "consume" => job[w].op = "charge" /\ q.id = job[w].arg
                    /\ q.type = "order_grant" => q.id <= bought'
  BY <1>7
<1>18. \A m \in Messages : turn'[m] = turn[m] \/ (job[w].op = "charge" /\ m = job[w].arg)
  BY <1>1
<1>19. lock \in Workers \ {w} /\ ~Granted' => lock' = lock /\ credit' = credit
  BY <1>1
<1>20. job'[w].op \in {"charge", "redeem"} => job'[w].op = job[w].op /\ job'[w].arg = job[w].arg
  BY <1>5 DEF Idle
<1> HIDE DEF c, g
<1> QED
  BY <1>5, <1>7, <1>9, <1>10, <1>11, <1>12, <1>13, <1>14, <1>15, <1>16, <1>17, <1>18, <1>19, <1>20, CommitStep

-----------------------------------------------------------------------------
(* The settlement.                                                         *)

(* Who settles holds the row and has seen the account as it is.            *)
LEMMA SettleFacts ==
  ASSUME IInv, NEW w \in Workers, At(w, "charge", "settle")
  PROVE  /\ Loaded(w).rows = job[w].rows /\ Loaded(w).arg = job[w].arg /\ job[w].arg \in Messages
         /\ Loaded(w) \in Records /\ Loaded(w).seen \in Credit /\ Loaded(w).mine \in Credit
         /\ ~Granted =>
              /\ Loaded(w).seen = credit
              /\ Available(Loaded(w).mine) = Available(credit) + Total(Loaded(w).rows)
         /\ turn[job[w].arg] = "running" /\ job[w].arg \notin settled
         /\ ~Booked(ledger, "adjust", job[w].arg)
         /\ open /\ Models(job[w].arg) # {} => Booked(ledger \cup job[w].rows, "consume", job[w].arg)
<1>0. Typed /\ Sound(w) /\ Orderly /\ ChargeBooked
  BY DEF IInv
<1>1. job[w].op = "charge" /\ job[w].pc = "settle"
  BY DEF At
<1>2. /\ Loaded(w).rows = job[w].rows /\ Loaded(w).arg = job[w].arg /\ job[w].arg \in Messages
      /\ Loaded(w) \in Records /\ Loaded(w).seen \in Credit /\ Loaded(w).mine \in Credit
  BY <1>0, <1>1, LoadedFacts, JobFacts DEF Records
<1>3. turn[job[w].arg] = "running" /\ job[w].arg \notin settled
  BY <1>0, <1>1 DEF Sound, Orderly
<1>4. ~Booked(ledger, "adjust", job[w].arg)
  BY <1>0, <1>2, <1>3 DEF ChargeBooked
<1>5. open /\ Models(job[w].arg) # {} => Booked(ledger \cup job[w].rows, "consume", job[w].arg)
  BY <1>0, <1>1 DEF Sound, Promised, Passed
<1>6. ~Granted =>
        /\ Loaded(w).seen = credit
        /\ Available(Loaded(w).mine) = Available(credit) + Total(Loaded(w).rows)
  <2>1. CASE job[w].loaded
    <3>1. Holding(w) /\ Loaded(w) = job[w]
      BY <1>0, <2>1, LoadedFacts DEF Sound
    <3> QED BY <1>1, <2>1, <3>1 DEF Holding, Charging
  <2>2. CASE ~job[w].loaded
    <3>1. Loaded(w).seen = credit /\ Loaded(w).mine = credit
      BY <1>0, <2>2, LoadedFacts
    <3>2. job[w].rows = {}
      BY <1>0, <2>2 DEF Sound, Unsaved
    <3>3. Total({}) = 0 /\ Available(credit) \in Nat
      BY <1>0, TotalFacts, FS_EmptySet, CreditFacts DEF Typed
    <3> QED BY <1>2, <3>1, <3>2, <3>3
  <2> QED BY <2>1, <2>2
<1> QED BY <1>2, <1>3, <1>4, <1>5, <1>6

(* What adjust_credits does to the account, and what it enters.            *)
LEMMA AdjustedFacts ==
  ASSUME NEW j \in Records, j.arg \in Messages, ~Short(j)
  PROVE  /\ Adjusted(j) \in Records /\ Adjusted(j).arg = j.arg /\ Adjusted(j).seen = j.seen
         /\ Adjusted(j).seen \in Credit /\ Adjusted(j).mine \in Credit
         /\ Available(Adjusted(j).mine) = Available(j.mine) - Diff(j.arg)
         /\ Diff(j.arg) \in Int
         /\ Diff(j.arg) = 0 => Adjusted(j).rows = j.rows
         /\ Diff(j.arg) # 0 =>
              /\ Adjusted(j).rows = j.rows \cup {Transaction("adjust", j.arg, -Diff(j.arg))}
              /\ Transaction("adjust", j.arg, -Diff(j.arg)) \in Rows
<1> DEFINE d == Diff(j.arg)
           r == Transaction("adjust", j.arg, -d)
           mine == IF d < 0 THEN Given(j.mine, -d) ELSE Taken(j.mine, d)
           rows == j.rows \cup {r}
<1>1. d \in Int
  BY DiffInt
<1>2. j.mine \in Credit /\ j.seen \in Credit /\ j.rows \subseteq Rows /\ Available(j.mine) \in Nat
  BY CreditFacts DEF Records
<1>3. CASE d = 0
  BY <1>1, <1>2, <1>3 DEF Adjusted
<1>4. CASE d # 0
  <2>1. Adjusted(j) = [j EXCEPT !.mine = mine, !.rows = rows]
    BY <1>4 DEF Adjusted
  <2>2. r \in Rows
    BY <1>1 DEF Rows, Transaction
  <2>3. mine \in Credit /\ Available(mine) = Available(j.mine) - d
    <3>1. CASE d < 0
      <4>1. -d \in Nat
        BY <1>1, <3>1
      <4>2. Given(j.mine, -d) \in Credit /\ Available(Given(j.mine, -d)) = Available(j.mine) + (-d)
        BY <1>2, <4>1, GivenFacts
      <4> QED BY <1>1, <1>2, <3>1, <4>2
    <3>2. CASE ~(d < 0)
      <4>1. d \in Nat
        BY <1>1, <3>2
      <4>2. d <= Available(j.mine)
        BY <1>1, <1>2 DEF Short
      <4> QED BY <1>2, <3>2, <4>1, <4>2, TakenFacts
    <3> QED BY <3>1, <3>2
  <2>5. rows \in SUBSET Rows
    BY <1>2, <2>2
  <2> HIDE DEF d, r, mine, rows
  <2>4. /\ Adjusted(j) \in Records /\ Adjusted(j).arg = j.arg /\ Adjusted(j).seen = j.seen
        /\ Adjusted(j).mine = mine /\ Adjusted(j).rows = rows
    BY <2>1, <2>3, <2>5 DEF Records
  <2> QED BY <1>1, <1>2, <1>4, <2>2, <2>3, <2>4 DEF d, r, rows
<1> QED BY <1>3, <1>4

LEMMA SettleShortKeeps ==
  ASSUME IInv, NEW w \in Workers, SettleShort(w) PROVE Keeps
<1>0. Typed /\ Sound(w) /\ Orderly /\ ChargeBooked
  BY DEF IInv
<1> DEFINE L == Loaded(w)
           m == job[w].arg
           t == Taken(L.mine, Diff(L.arg))
           i == [L EXCEPT !.mine = t]
<1>1. /\ At(w, "charge", "settle") /\ lock \in {NoWorker, w} /\ Short(L) /\ Moves(w, Idle)
      /\ \/ credit' = Written(i) /\ ledger' = ledger \cup i.rows
         \/ UNCHANGED <<credit, ledger>>
      /\ turn' = [turn EXCEPT ![i.arg] = "raised"] /\ lock' = Released(w)
      /\ UNCHANGED <<settled, code, renewal, money, bought, open, clicks, crashes>>
  BY DEF SettleShort, CanLock, Moves
<1>2. /\ L.rows = job[w].rows /\ L.arg = m /\ m \in Messages
      /\ L \in Records /\ L.seen \in Credit /\ L.mine \in Credit
      /\ turn[m] = "running" /\ m \notin settled
  BY <1>1, SettleFacts
<1> HIDE DEF L
<1>3. t \in Credit
  <2>1. Diff(L.arg) \in Int /\ Available(L.mine) \in Nat
    BY <1>2, DiffInt, CreditFacts
  <2>2. Diff(L.arg) \in Nat
    BY <1>1, <2>1 DEF Short
  <2> QED BY <1>2, <2>2, TakenFacts
<1> HIDE DEF t
<1>4. i.rows = job[w].rows /\ i.arg = m /\ i.seen \in Credit /\ i.mine \in Credit
  BY <1>2, <1>3 DEF Records
<1> HIDE DEF i
<1>5. job' \in [Workers -> Jobs] /\ job'[w] = Idle /\ \A v \in Workers \ {w} : job'[v] = job[v]
  BY <1>0, <1>1, IdleIsJob, MoveTyped
<1>6. Sound(w)'
  BY <1>5 DEF Sound, Unsaved, Promised, Holding, Idle
<1>7. PICK N \in {job[w].rows, {}} : ledger' = ledger \cup N
  BY <1>1, <1>4
<1>8. /\ N \in SUBSET Rows /\ IsFiniteSet(N) /\ Fresh(N)
      /\ \A r \in N : r.type = "consume" /\ r.id = job[w].arg /\ job[w].op = "charge"
  <2>1. CASE N = job[w].rows
    BY <1>0, <2>1, SessionRows
  <2>2. CASE N = {}
    BY <2>2, FS_EmptySet DEF Fresh
  <2> QED BY <1>7, <2>1, <2>2
<1>9. Typed'
  <2>1. credit' \in Credit
    <3>1. credit \in Credit
      BY <1>0 DEF Typed
    <3> QED BY <1>0, <1>1, <1>4, <3>1, WrittenFacts
  <2>2. lock' \in Workers \cup {NoWorker}
    BY <1>0, <1>1 DEF Released, Typed
  <2>3. turn' \in [Messages -> {"none", "running", "reported", "raised", "died"}]
    BY <1>0, <1>1, <1>4 DEF Typed
  <2> QED BY <1>0, <1>1, <1>5, <1>7, <1>8, <2>1, <2>2, <2>3 DEF Typed
<1>10. turn'[m] = "raised" /\ \A n \in Messages : n # m => turn'[n] = turn[n]
  BY <1>0, <1>1, <1>2, <1>4 DEF Typed
<1>11. ChargeBooked'
  BY <1>0, <1>1, <1>7, <1>8, <1>10, BookedKept
<1>12. Explained'
  BY <1>2, <1>10 DEF Explained
<1>13. CodesSpent(w, N)
  BY <1>1, <1>8 DEF CodesSpent, Redeemed, Booked
<1>14. \A n \in settled' : turn'[n] = "reported"
  BY <1>0, <1>1, <1>2, <1>10 DEF Orderly, Typed
<1>15. bought <= bought' /\ open' = open
  BY <1>0, <1>1 DEF Typed
<1>16. \A n \in Messages : turn'[n] = turn[n] \/ (job[w].op = "charge" /\ n = job[w].arg)
  BY <1>1, <1>10 DEF At
<1>17. lock \in Workers \ {w} /\ ~Granted' => lock' = lock /\ credit' = credit
  BY <1>1
<1>18. job'[w].op \in {"charge", "redeem"} => job'[w].op = job[w].op /\ job'[w].arg = job[w].arg
  BY <1>5 DEF Idle
<1>19. \A r \in N : /\ r.type = "consume" => job[w].op = "charge" /\ r.id = job[w].arg
                    /\ r.type = "order_grant" => r.id <= bought'
  BY <1>8
<1> HIDE DEF m
<1> QED
  BY <1>5, <1>6, <1>7, <1>8, <1>9, <1>11, <1>12, <1>13, <1>14, <1>15, <1>16, <1>17, <1>18, <1>19, CommitStep

(* The entries of a settlement: the charge, if it is not saved yet, and    *)
(* the difference.                                                         *)
Settlement(rows, w, d) ==
  IF d = 0 THEN rows = job[w].rows
  ELSE LET r == Transaction("adjust", job[w].arg, -d) IN rows = job[w].rows \cup {r} /\ r \in Rows

LEMMA SettledRows ==
  ASSUME Typed, Orderly, NEW w \in Workers, Sound(w), ~Booked(ledger, "adjust", job[w].arg),
         NEW d \in Int, NEW N, Settlement(N, w, d)
  PROVE  /\ N \in SUBSET Rows /\ IsFiniteSet(N) /\ Fresh(N)
         /\ \A r \in N : r.type \in {"consume", "adjust"} /\ r.id = job[w].arg
         /\ job[w].rows \subseteq N
         /\ Booked(N, "adjust", job[w].arg) <=> d # 0
         /\ Total(ledger \cup N) = Total(ledger) + Total(job[w].rows) - d
<1> DEFINE S == job[w].rows
           m == job[w].arg
           a == Transaction("adjust", m, -d)
<1>1. /\ S \in SUBSET Rows /\ IsFiniteSet(S) /\ Fresh(S)
      /\ \A r \in S : r.type = "consume" /\ r.id = m
      /\ IsFiniteSet(ledger \cup S) /\ Total(S) \in Int /\ Total(ledger) \in Int
      /\ Total(ledger \cup S) = Total(ledger) + Total(S)
  BY SessionRows
<1>2. a.type = "adjust" /\ a.id = m /\ a.amount = -d
  BY DEF Transaction
<1>3. ledger \subseteq Rows
  BY DEF Typed
<1> HIDE DEF S, a
<1>4. CASE d = 0
  <2>1. N = S
    BY <1>4 DEF S, Settlement
  <2>2. ~Booked(N, "adjust", m)
    BY <1>1, <2>1 DEF Booked
  <2> QED BY <1>1, <1>4, <2>1, <2>2 DEF S
<1>5. CASE d # 0
  <2>1. N = S \cup {a} /\ a \in Rows
    BY <1>5 DEF S, a, Settlement
  <2>2. a \notin ledger \cup S /\ Booked(N, "adjust", m)
    BY <1>1, <1>2, <2>1 DEF Booked
  <2>3. N \in SUBSET Rows /\ IsFiniteSet(N)
    <3>1. IsFiniteSet(S \cup {a})
      BY <1>1, FS_AddElement
    <3> QED BY <1>1, <2>1, <3>1
  <2>4. Fresh(N)
    <3>1. \A q \in ledger : ~(q.type = "adjust" /\ q.id = m)
      BY DEF Booked
    <3> QED BY <1>1, <1>2, <2>1, <3>1 DEF Fresh
  <2>5. Total(ledger \cup N) = Total(ledger \cup S) + a.amount
    <3>1. ledger \cup N = (ledger \cup S) \cup {a} /\ ledger \cup S \in SUBSET Rows /\ a \in Rows \ (ledger \cup S)
      BY <1>1, <1>3, <2>1, <2>2
    <3> HIDE DEF S, a
    <3> QED BY <1>1, <3>1, TotalFacts
  <2>6. \A r \in N : r.type \in {"consume", "adjust"} /\ r.id = m
    BY <1>1, <1>2, <2>1
  <2>7. S \subseteq N
    BY <2>1
  <2> QED BY <1>1, <1>2, <1>5, <2>2, <2>3, <2>4, <2>5, <2>6, <2>7 DEF S
<1> QED BY <1>4, <1>5

LEMMA SettleKeeps ==
  ASSUME IInv, NEW w \in Workers, Settle(w) PROVE Keeps
<1>0. Typed /\ Sound(w) /\ Orderly /\ ChargeBooked /\ Explained
  BY DEF IInv
<1> DEFINE L == Loaded(w)
           m == job[w].arg
           j == Adjusted(L)
           N == j.rows
<1>1. /\ At(w, "charge", "settle") /\ lock \in {NoWorker, w} /\ ~Short(L) /\ Moves(w, Idle)
      /\ credit' = Written(j) /\ ledger' = ledger \cup N
      /\ settled' = settled \cup {j.arg} /\ turn' = [turn EXCEPT ![j.arg] = "reported"]
      /\ lock' = Released(w)
      /\ UNCHANGED <<code, renewal, money, bought, open, clicks, crashes>>
  BY DEF Settle, CanLock, Moves
<1>2. job[w].op = "charge" /\ job[w].pc = "settle"
  BY <1>1 DEF At
<1>3. /\ L.rows = job[w].rows /\ L.arg = m /\ m \in Messages
      /\ L \in Records /\ L.seen \in Credit /\ L.mine \in Credit
      /\ ~Granted => L.seen = credit /\ Available(L.mine) = Available(credit) + Total(L.rows)
      /\ turn[m] = "running" /\ m \notin settled /\ ~Booked(ledger, "adjust", m)
      /\ open /\ Models(m) # {} => Booked(ledger \cup job[w].rows, "consume", m)
  BY <1>1, SettleFacts
<1> HIDE DEF L
<1>4. /\ j \in Records /\ j.arg = m /\ j.seen = L.seen
      /\ j.seen \in Credit /\ j.mine \in Credit
      /\ Available(j.mine) = Available(L.mine) - Diff(m) /\ Diff(m) \in Int
      /\ Diff(m) = 0 => N = job[w].rows
      /\ Diff(m) # 0 => /\ N = job[w].rows \cup {Transaction("adjust", m, -Diff(m))}
                        /\ Transaction("adjust", m, -Diff(m)) \in Rows
  BY <1>1, <1>3, AdjustedFacts
<1> HIDE DEF j
<1>5. /\ N \in SUBSET Rows /\ IsFiniteSet(N) /\ Fresh(N)
      /\ \A r \in N : r.type \in {"consume", "adjust"} /\ r.id = m
      /\ job[w].rows \subseteq N
      /\ Booked(N, "adjust", m) <=> Diff(m) # 0
      /\ Total(ledger \cup N) = Total(ledger) + Total(job[w].rows) - Diff(m)
  <2> DEFINE d == Diff(m)
  <2>1. Settlement(N, w, d)
    BY <1>4 DEF Settlement
  <2>2. ~Booked(ledger, "adjust", job[w].arg) /\ d \in Int
    BY <1>3, <1>4
  <2> HIDE DEF N, d
  <2>3. /\ N \in SUBSET Rows /\ IsFiniteSet(N) /\ Fresh(N)
        /\ \A r \in N : r.type \in {"consume", "adjust"} /\ r.id = job[w].arg
        /\ job[w].rows \subseteq N
        /\ Booked(N, "adjust", job[w].arg) <=> d # 0
        /\ Total(ledger \cup N) = Total(ledger) + Total(job[w].rows) - d
    <3>1. Typed /\ Orderly /\ Sound(w)
      BY <1>0
    <3>2. N \in SUBSET Rows /\ IsFiniteSet(N)
      BY <2>1, <2>2, <3>1, SettledRows
    <3>3. Fresh(N)
      BY <2>1, <2>2, <3>1, SettledRows
    <3>4. Booked(N, "adjust", job[w].arg) <=> d # 0
      BY <2>1, <2>2, <3>1, SettledRows
    <3>5. Total(ledger \cup N) = Total(ledger) + Total(job[w].rows) - d
      BY <2>1, <2>2, <3>1, SettledRows
    <3>6. \A r \in N : r.type \in {"consume", "adjust"} /\ r.id = job[w].arg
      BY <2>1, <2>2, <3>1, SettledRows
    <3>7. job[w].rows \subseteq N
      BY <2>1, <2>2, <3>1, SettledRows
    <3> QED BY <3>2, <3>3, <3>4, <3>5, <3>6, <3>7
  <2> QED BY <2>3 DEF d
<1> HIDE DEF N
<1>6. job' \in [Workers -> Jobs] /\ job'[w] = Idle /\ \A v \in Workers \ {w} : job'[v] = job[v]
  BY <1>0, <1>1, IdleIsJob, MoveTyped
<1>7. Sound(w)'
  BY <1>6 DEF Sound, Unsaved, Promised, Holding, Idle
<1>8. /\ turn' \in [Messages -> {"none", "running", "reported", "raised", "died"}]
      /\ turn'[m] = "reported" /\ \A n \in Messages : n # m => turn'[n] = turn[n]
  BY <1>0, <1>1, <1>3, <1>4 DEF Typed
<1>9. settled' = settled \cup {m}
  BY <1>1, <1>4
<1>10. Typed'
  <2>1. credit' \in Credit
    BY <1>0, <1>1, <1>4, WrittenFacts
  <2>2. lock' \in Workers \cup {NoWorker}
    BY <1>0, <1>1 DEF Released, Typed
  <2> QED BY <1>0, <1>1, <1>3, <1>5, <1>6, <1>8, <1>9, <2>1, <2>2 DEF Typed
<1>11. ChargeBooked'
  <2> SUFFICES ASSUME NEW n \in Messages
               PROVE  /\ turn'[n] = "reported" =>
                           n \in settled' /\ (open' /\ Models(n) # {} => Booked(ledger', "consume", n))
                      /\ n \in settled' => (Booked(ledger', "adjust", n) <=> Diff(n) # 0)
                      /\ Booked(ledger', "adjust", n) => n \in settled'
    BY DEF ChargeBooked
  <2>1. CASE n = m
    <3>1. Booked(ledger \cup job[w].rows, "consume", m) => Booked(ledger', "consume", m)
      BY <1>1, <1>5 DEF Booked
    <3>2. Booked(ledger', "adjust", m) <=> Diff(m) # 0
      BY <1>1, <1>3, <1>5 DEF Booked
    <3>3. open' = open
      BY <1>1
    <3> QED BY <1>3, <1>9, <2>1, <3>1, <3>2, <3>3
  <2>2. CASE n # m
    <3>1. Booked(ledger', "adjust", n) <=> Booked(ledger, "adjust", n)
      BY <1>1, <1>5, <2>2 DEF Booked
    <3>2. Booked(ledger, "consume", n) => Booked(ledger', "consume", n)
      BY <1>1 DEF Booked
    <3>3. /\ turn[n] = "reported" =>
               n \in settled /\ (open /\ Models(n) # {} => Booked(ledger, "consume", n))
          /\ n \in settled => (Booked(ledger, "adjust", n) <=> Diff(n) # 0)
          /\ Booked(ledger, "adjust", n) => n \in settled
      BY <1>0 DEF ChargeBooked
    <3>4. open' = open /\ turn'[n] = turn[n] /\ (n \in settled' <=> n \in settled)
      BY <1>1, <1>8, <1>9, <2>2
    <3> QED BY <3>1, <3>2, <3>3, <3>4
  <2> QED BY <2>1, <2>2
<1>12. Explained'
  <2> SUFFICES ASSUME ~Granted', \A n \in Messages : turn'[n] # "raised"
               PROVE  Available(credit') = Available(Opening) + Total(ledger')
    BY DEF Explained
  <2>1. ~Granted /\ \A n \in Messages : turn[n] # "raised"
    BY <1>1, <1>3, <1>8 DEF Granted
  <2>2. Available(credit) = Available(Opening) + Total(ledger)
    BY <1>0, <2>1 DEF Explained
  <2>3. credit' = j.mine
    BY <1>0, <1>1, <1>3, <1>4, <2>1, WrittenFacts
  <2>4. Total(ledger) \in Int /\ Total(job[w].rows) \in Int /\ Available(Opening) \in Nat
    BY <1>0, SessionRows, CreditFacts
  <2> QED BY <1>1, <1>3, <1>4, <1>5, <2>1, <2>2, <2>3, <2>4
<1>13. CodesSpent(w, N)
  BY <1>1, <1>5 DEF CodesSpent, Redeemed, Booked
<1>14. \A n \in settled' : turn'[n] = "reported"
  BY <1>0, <1>8, <1>9 DEF Orderly, Typed
<1>15. bought <= bought' /\ open' = open
  BY <1>0, <1>1 DEF Typed
<1>16. \A n \in Messages : turn'[n] = turn[n] \/ (job[w].op = "charge" /\ n = job[w].arg)
  BY <1>2, <1>8
<1>17. lock \in Workers \ {w} /\ ~Granted' => lock' = lock /\ credit' = credit
  BY <1>1
<1>18. job'[w].op \in {"charge", "redeem"} => job'[w].op = job[w].op /\ job'[w].arg = job[w].arg
  BY <1>6 DEF Idle
<1>19. \A r \in N : /\ r.type = "consume" => job[w].op = "charge" /\ r.id = job[w].arg
                    /\ r.type = "order_grant" => r.id <= bought'
  BY <1>2, <1>5
<1>20. ledger' = ledger \cup N
  BY <1>1
<1> HIDE DEF m
<1> QED
  BY <1>5, <1>6, <1>7, <1>10, <1>11, <1>12, <1>13, <1>14, <1>15, <1>16, <1>17, <1>18, <1>19, <1>20, CommitStep

-----------------------------------------------------------------------------
(* The theorems.                                                           *)
LEMMA NextKeeps == IInv /\ [Next]_vars => Keeps
<1> SUFFICES ASSUME IInv, [Next]_vars PROVE Keeps
  OBVIOUS
<1>1. ASSUME NEW w \in Workers, Step(w) PROVE Keeps
  BY <1>1, ChargeSkipKeeps, ChargeTakeKeeps, RenewEndKeeps, RenewLostKeeps, RenewPayKeeps,
     SettleKeeps, SettleShortKeeps, RedeemCommitKeeps DEF Step
<1>2. ASSUME NEW w \in Workers, Look(w) PROVE Keeps
  BY <1>2, RenewLostKeeps, RenewOrderKeeps DEF Look
<1>3. ASSUME NEW w \in Workers, Request(w) PROVE Keeps
  BY <1>3, ChargeKeeps, RedeemCheckKeeps DEF Request
<1>4. CASE CooldownEnds
  BY <1>4, OutsideKeeps
<1>5. CASE Environment
  BY <1>5, DisableKeeps, OutsideKeeps, CrashKeeps DEF Environment
<1>6. CASE UNCHANGED vars
  <2>1. Typed'
    BY <1>6 DEF vars, IInv, Typed
  <2> QED BY <1>6, <2>1, OutsideStep DEF vars
<1> QED BY <1>1, <1>2, <1>3, <1>4, <1>5, <1>6 DEF Next

LEMMA SpecIInv == Spec => []IInv
<1>1. IInv /\ [Next]_vars => IInv'
  BY NextKeeps DEF Keeps
<1> QED BY <1>1, InitIInv, PTL DEF Spec

(* The types of the account, its ledger, the codes, the renewal and the    *)
(* sessions of the workers.                                                *)
THEOREM TypeCorrect == Spec => []TypeOK
<1>1. IInv => TypeOK
  BY TypedIsType DEF IInv
<1> QED BY <1>1, SpecIInv, PTL

(* The ledger has one entry for each event; and as long as nobody buys,    *)
(* redeems or is settled short, credit_account is what it opened with and  *)
(* what credit_transaction says, whichever charges, settlements and failed *)
(* renewals run at the same time.                                          *)
THEOREM LedgerExplains == Spec => []LedgerExplained
<1>1. IInv => LedgerExplained
  BY DEF IInv, Orderly, Explained, LedgerExplained
<1> QED BY <1>1, SpecIInv, PTL

(* What final reports as charged is in the ledger and settled, although    *)
(* create_order, pay_with_balance and the rollbacks of a failed renewal    *)
(* end the transaction in the middle of it; a settlement is whole.         *)
THEOREM ToldIsCharged == Spec => []ChargeBooked
<1>1. IInv => ChargeBooked
  BY DEF IInv
<1> QED BY <1>1, SpecIInv, PTL

(* A code is spent exactly when its credits were granted, and one that is  *)
(* disabled stays disabled and grants nothing any more, however redeeming, *)
(* disabling and crashes follow each other.                                *)
THEOREM CodesSpentOnce == Spec => CodesFinal
<1> DEFINE Final ==
             \A c \in Codes :
               /\ code'[c] = "used" => Redeemed(ledger', c)
               /\ code'[c] = "unused" => ~Redeemed(ledger', c)
               /\ code[c] = "disabled" => code'[c] = "disabled" /\ (Redeemed(ledger', c) => Redeemed(ledger, c))
<1>1. IInv /\ [Next]_vars => Final
  BY NextKeeps DEF Keeps, DisabledStays, IInv, Orderly
<1> HIDE DEF Final
<1>2. Spec => [][Final]_vars
  BY <1>1, SpecIInv, PTL DEF Spec
<1> QED BY <1>2 DEF CodesFinal, Final
=============================================================================
