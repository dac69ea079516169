------------------------------ MODULE TasksProofs ------------------------------
(***************************************************************************)
(* The tasks of the Celery workers: Schedules, and after it RenderGate.     *)
(*                                                                          *)
(* Schedules for any tasks, workers, scanners, lifetimes and bounds: the    *)
(* types, and that two live workers never execute one task.  The invariant  *)
(* behind it is that the task of a live execution is locked: the watchdog   *)
(* renews the lock while the worker lives, nothing else takes it away, and  *)
(* no one enters while it is there.  That a one-time task runs once is a    *)
(* second invariant, OInv, on top of it: a task that has run is archived,   *)
(* or still being worked on.                                                *)
(*                                                                          *)
(* RenderGate for any requests, accounts, scripts and bounds: the types,    *)
(* that nothing is counted or locked which nobody will give back, that a    *)
(* script is rendered once at a time, and that the end of a render is told  *)
(* once.  The invariant adds where a task can be while its dispatch runs    *)
(* (Placed), what each attempt has told (Telling), and that whoever holds   *)
(* the lock of a script holds it alone (Alone).                             *)
(***************************************************************************)
EXTENDS Schedules, RenderGate, FiniteSetTheorems, TLAPS

(* The task of a live execution is locked.                                 *)
LockHeld == \A w \in Workers : \A t \in Tasks : Holds(w, t) => lock[t] > 0

IInv == TypeOK /\ LockHeld /\ NoOverlap

USE SchedulesAssumption

(* The initial states satisfy the invariant.                               *)
LEMMA InitIInv == Init => IInv
<1> SUFFICES ASSUME Init PROVE IInv
  OBVIOUS
<1>1. Idle \in Jobs
  BY DEF Idle, Jobs
<1>2. TypeOK
  BY <1>1 DEF Init, TypeOK, TaskRows, Bases, RunRows, RunIds, Busy, Idle
<1>3. LockHeld /\ NoOverlap
  BY DEF Init, LockHeld, NoOverlap, Holds, Holding, Idle
<1> QED BY <1>2, <1>3 DEF IInv

(* A step after which no new worker holds a task, and which takes no lock  *)
(* from a holder, keeps tasks locked and apart.                            *)
LEMMA FewerHolders ==
  ASSUME LockHeld, NoOverlap,
         \A w \in Workers : \A t \in Tasks : Holds(w, t)' => Holds(w, t),
         \A w \in Workers : \A t \in Tasks :
           Holds(w, t) /\ lock[t] > 0 => lock'[t] > 0
  PROVE  LockHeld' /\ NoOverlap'
<1>1. LockHeld'
  BY DEF LockHeld
<1>2. NoOverlap'
  <2> SUFFICES ASSUME NEW v \in Workers, NEW w \in Workers, NEW t \in Tasks,
                      Holds(v, t)', Holds(w, t)'
               PROVE  v = w
    BY DEF NoOverlap
  <2> QED BY DEF NoOverlap
<1> QED BY <1>1, <1>2

(* The same for a step that leaves jobs and locks alone.                   *)
LEMMA SameHolders ==
  ASSUME LockHeld, NoOverlap, UNCHANGED <<job, lock>>
  PROVE  LockHeld' /\ NoOverlap'
<1> QED BY FewerHolders DEF Holds

(* A worker that ends its job holds nothing any more.                      *)
LEMMA EndKeeps ==
  ASSUME IInv, NEW w \in Workers, End(w)
  PROVE  /\ job' \in [Workers -> Jobs]
         /\ \A v \in Workers : Busy(v)' => job'[v].task \in Tasks
         /\ lock' \in [Tasks -> 0..LockTTL]
         /\ LockHeld' /\ NoOverlap'
<1>1. Idle \in Jobs /\ Idle.pc = "idle"
  BY DEF Idle, Jobs
<1>2. job' = [job EXCEPT ![w] = Idle] /\ lock' = lock
  BY DEF End
<1>3. TypeOK
  BY DEF IInv
<1>4. \A v \in Workers : job'[v] = job[v] \/ (v = w /\ job'[v] = Idle)
  BY <1>2, <1>3 DEF TypeOK
<1>5. job' \in [Workers -> Jobs] /\ lock' \in [Tasks -> 0..LockTTL]
  BY <1>1, <1>2, <1>3 DEF TypeOK
<1>6. \A v \in Workers : Busy(v)' => job'[v].task \in Tasks
  BY <1>1, <1>3, <1>4 DEF TypeOK, Busy
<1>7. \A v \in Workers : \A t \in Tasks : Holds(v, t)' => Holds(v, t)
  BY <1>1, <1>4 DEF Holds, Holding
<1>8. LockHeld' /\ NoOverlap'
  BY <1>2, <1>7, FewerHolders DEF IInv
<1> QED BY <1>5, <1>6, <1>8

(* A worker that goes on with its task keeps what it holds, and no more.   *)
LEMMA MoveKeeps ==
  ASSUME IInv, NEW w \in Workers, NEW j \in Jobs, j.task = job[w].task,
         j.pc \notin {"idle", "dead"} => Busy(w),
         j.pc \in Holding => job[w].pc \in Holding,
         job' = [job EXCEPT ![w] = j], UNCHANGED lock
  PROVE  /\ job' \in [Workers -> Jobs]
         /\ \A v \in Workers : Busy(v)' => job'[v].task \in Tasks
         /\ lock' \in [Tasks -> 0..LockTTL]
         /\ LockHeld' /\ NoOverlap'
<1>1. TypeOK /\ LockHeld /\ NoOverlap
  BY DEF IInv
<1>2. \A v \in Workers : job'[v] = IF v = w THEN j ELSE job[v]
  BY <1>1 DEF TypeOK
<1>3. job' \in [Workers -> Jobs] /\ lock' \in [Tasks -> 0..LockTTL]
  BY <1>1 DEF TypeOK
<1>4. \A v \in Workers : Busy(v)' => job'[v].task \in Tasks
  BY <1>1, <1>2 DEF TypeOK, Busy
<1>5. \A v \in Workers : \A t \in Tasks : Holds(v, t)' => Holds(v, t)
  BY <1>2 DEF Holds
<1>6. LockHeld' /\ NoOverlap'
  BY <1>1, <1>5, FewerHolders
<1> QED BY <1>3, <1>4, <1>6

(* A task's row may take any value of its fields.                          *)
LEMMA TaskRowType ==
  ASSUME NEW row \in TaskRows
  PROVE  /\ \A p \in {"new", "list", "bin"} : [row EXCEPT !.place = p] \in TaskRows
         /\ \A b \in BOOLEAN : [row EXCEPT !.enabled = b] \in TaskRows
         /\ \A n \in {"none", "future", "due"} : [row EXCEPT !.next = n] \in TaskRows
         /\ \A b \in Bases : [row EXCEPT !.base = b] \in TaskRows
BY DEF TaskRows

(* A job may take any value of its fields.                                 *)
LEMMA JobType ==
  ASSUME NEW j \in Jobs
  PROVE  /\ \A p \in {"idle", "checked", "dead"} \cup Holding : [j EXCEPT !.pc = p] \in Jobs
         /\ \A n \in 0..MaxRuns : [j EXCEPT !.run = n] \in Jobs
         /\ \A n \in 0..Visibility : [j EXCEPT !.age = n] \in Jobs
         /\ \A b \in BOOLEAN : [j EXCEPT !.unacked = b] \in Jobs
BY DEF Jobs

(* Time: only the locks of dead workers run out.                           *)
LEMMA TickKeeps == IInv /\ Tick => IInv'
<1> SUFFICES ASSUME IInv, Tick PROVE IInv'
  OBVIOUS
<1>1. TypeOK /\ LockHeld /\ NoOverlap
  BY DEF IInv
<1>2. lock' \in [Tasks -> 0..LockTTL]
  <2>1. \A t \in Tasks : lock[t] \in 0..LockTTL
    BY <1>1 DEF TypeOK
  <2>2. \A n \in 0..LockTTL : n # 0 => n - 1 \in 0..LockTTL
    OBVIOUS
  <2>3. LockTTL \in 0..LockTTL /\ 0 \in 0..LockTTL
    OBVIOUS
  <2>4. \A t \in Tasks : lock'[t] \in {0, LockTTL, lock[t] - 1}
    BY Zenon DEF Tick
  <2>5. \A t \in Tasks : lock'[t] \in 0..LockTTL
    <3> SUFFICES ASSUME NEW t \in Tasks PROVE lock'[t] \in 0..LockTTL
      OBVIOUS
    <3>1. CASE lock[t] = 0
      BY <2>3, <3>1 DEF Tick
    <3>2. CASE lock[t] # 0
      BY <2>1, <2>2, <2>3, <2>4, <3>2
    <3> QED BY <3>1, <3>2
  <2> QED BY <2>5 DEF Tick
<1>3. \A w \in Workers : /\ job'[w] \in Jobs
                         /\ job'[w].pc = job[w].pc /\ job'[w].task = job[w].task
  <2> SUFFICES ASSUME NEW w \in Workers
               PROVE  /\ job'[w] \in Jobs
                      /\ job'[w].pc = job[w].pc /\ job'[w].task = job[w].task
    OBVIOUS
  <2>1. job[w] \in Jobs /\ job[w].age \in 0..Visibility
    BY <1>1 DEF TypeOK, Jobs
  <2>2. CASE job[w].unacked /\ job[w].age < Visibility
    <3>1. job'[w] = [job[w] EXCEPT !.age = job[w].age + 1]
      BY <2>2 DEF Tick
    <3>2. job[w].age + 1 \in 0..Visibility
      BY <2>1, <2>2
    <3>3. job'[w] \in Jobs
      BY <2>1, <3>1, <3>2, JobType
    <3> QED BY <2>1, <3>1, <3>3 DEF Jobs
  <2>3. CASE ~(job[w].unacked /\ job[w].age < Visibility)
    <3>1. job'[w] = job[w]
      BY <2>3 DEF Tick
    <3> QED BY <2>1, <3>1
  <2> QED BY <2>2, <2>3
<1>4. runs' \in [RunIds -> RunRows]
  <2>1. \A r \in RunIds : runs'[r] \in RunRows
    <3> SUFFICES ASSUME NEW r \in RunIds PROVE runs'[r] \in RunRows
      OBVIOUS
    <3>1. runs[r] \in RunRows
      BY <1>1 DEF TypeOK
    <3>2. CASE runs[r].status = "running" /\ runs[r].age <= StaleAfter
      <4>1. runs'[r] = [runs[r] EXCEPT !.age = runs[r].age + 1]
        BY <3>2 DEF Tick
      <4>2. runs[r].age + 1 \in 0..(StaleAfter + 1)
        BY <3>1, <3>2 DEF RunRows
      <4> QED BY <3>1, <4>1, <4>2 DEF RunRows
    <3>3. CASE ~(runs[r].status = "running" /\ runs[r].age <= StaleAfter)
      BY <3>1, <3>3 DEF Tick
    <3> QED BY <3>2, <3>3
  <2> QED BY <2>1 DEF Tick
<1>5. TypeOK'
  <2>1. job' \in [Workers -> Jobs]
    BY <1>3 DEF Tick
  <2>2. \A w \in Workers : Busy(w)' => job'[w].task \in Tasks
    BY <1>1, <1>3 DEF TypeOK, Busy
  <2> QED BY <1>1, <1>2, <1>4, <2>1, <2>2 DEF TypeOK, Tick
<1>6. \A w \in Workers : \A t \in Tasks : Holds(w, t)' => Holds(w, t)
  BY <1>3 DEF Holds
<1>7. \A w \in Workers : \A t \in Tasks : Holds(w, t) /\ lock[t] > 0 => lock'[t] > 0
  BY <1>1 DEF TypeOK, Tick
<1>8. LockHeld' /\ NoOverlap'
  BY <1>1, <1>6, <1>7, FewerHolders
<1> QED BY <1>5, <1>8 DEF IInv

(* A slot comes: next_run_at and the values a scan has read grow old.       *)
LEMMA SlotKeeps == ASSUME IInv, NEW t \in Tasks, Slot(t) PROVE IInv'
<1>1. TypeOK /\ LockHeld /\ NoOverlap
  BY DEF IInv
<1>2. task' \in [Tasks -> TaskRows]
  <2> DEFINE n == IF task[t].next = "future" THEN "due" ELSE task[t].next
             b == IF task[t].base = "current" THEN "passed" ELSE task[t].base
  <2>1. task[t] \in TaskRows /\ n \in {"none", "future", "due"} /\ b \in Bases
    BY <1>1 DEF TypeOK, TaskRows, Bases
  <2>2. task' = [task EXCEPT ![t] = [[task[t] EXCEPT !.next = n] EXCEPT !.base = b]]
    BY DEF Slot
  <2> HIDE DEF n, b
  <2>3. [[task[t] EXCEPT !.next = n] EXCEPT !.base = b] \in TaskRows
    BY <2>1, TaskRowType
  <2> QED BY <1>1, <2>2, <2>3 DEF TypeOK
<1>3. todo' \in [Scanners -> [Tasks -> {"no"} \cup Bases]]
  <2>1. \A s \in Scanners : todo'[s] \in [Tasks -> {"no"} \cup Bases]
    BY <1>1 DEF TypeOK, Slot, Bases
  <2> QED BY <2>1 DEF Slot
<1>4. TypeOK'
  BY <1>1, <1>2, <1>3 DEF TypeOK, Slot, Busy
<1>5. LockHeld' /\ NoOverlap'
  BY <1>1, SameHolders DEF Slot
<1> QED BY <1>4, <1>5 DEF IInv

(* The scan writes next_run_at and the queue, never a job or a lock.       *)
LEMMA ScanKeeps ==
  ASSUME IInv, NEW s \in Scanners,
         ScanStep(s) \/ DispatchFails(s) \/ ScanLost(s)
  PROVE  IInv'
<1>1. TypeOK /\ LockHeld /\ NoOverlap
  BY DEF IInv
<1>2. UNCHANGED <<job, lock, runs, begun, stale, recycled>>
  BY DEF ScanStep, ScanRead, Advance, Dispatch, DispatchFails, ScanLost
<1>3. LockHeld' /\ NoOverlap'
  BY <1>1, <1>2, SameHolders
<1>4. CASE ScanRead(s)
  <2>1. todo' \in [Scanners -> [Tasks -> {"no"} \cup Bases]]
    BY <1>1, <1>4 DEF TypeOK, ScanRead, TaskRows
  <2>2. TypeOK'
    BY <1>1, <1>4, <2>1 DEF TypeOK, ScanRead, Busy
  <2> QED BY <1>3, <2>2 DEF IInv
<1>5. ASSUME NEW t \in Tasks, Advance(s, t) PROVE IInv'
  <2>1. todo' \in [Scanners -> [Tasks -> {"no"} \cup Bases]]
    BY <1>1, <1>5 DEF TypeOK, Advance
  <2>2. task[t] \in TaskRows /\ task[t].next \in {"none", "future", "due"}
    BY <1>1 DEF TypeOK, TaskRows
  <2>3. task' \in [Tasks -> TaskRows]
    <3>1. CASE ~Listed(t)
      BY <1>1, <1>5, <3>1 DEF TypeOK, Advance
    <3>2. CASE Listed(t)
      <4>1. PICK n \in Computed(t, todo[s][t]) : task' = [task EXCEPT ![t].next = n]
        BY <1>5, <3>2 DEF Advance
      <4>2. task' = [task EXCEPT ![t] = [task[t] EXCEPT !.next = n]]
        BY <4>1
      <4>3. n \in {"none", "future", "due"}
        BY <2>2, <4>1 DEF Computed
      <4>4. [task[t] EXCEPT !.next = n] \in TaskRows
        BY <2>2, <4>3, TaskRowType
      <4> QED BY <1>1, <4>2, <4>4 DEF TypeOK
    <3> QED BY <3>1, <3>2
  <2>4. handing' \in [Scanners -> Tasks \cup {None}]
    BY <1>1, <1>5 DEF TypeOK, Advance
  <2>5. TypeOK'
    BY <1>1, <1>2, <1>5, <2>1, <2>3, <2>4 DEF TypeOK, Advance, Busy
  <2> QED BY <1>3, <2>5 DEF IInv
<1>6. CASE Dispatch(s)
  <2>1. handing[s] \in Tasks /\ queued[handing[s]] + 1 \in 0..MaxQueued
    BY <1>1, <1>6 DEF TypeOK, Dispatch
  <2>2. queued' \in [Tasks -> 0..MaxQueued] /\ handing' \in [Scanners -> Tasks \cup {None}]
    BY <1>1, <1>6, <2>1 DEF TypeOK, Dispatch
  <2>3. TypeOK'
    BY <1>1, <1>6, <2>2 DEF TypeOK, Dispatch, Busy
  <2> QED BY <1>3, <2>3 DEF IInv
<1>7. CASE DispatchFails(s)
  <2>1. TypeOK'
    BY <1>1, <1>7 DEF TypeOK, DispatchFails, Busy
  <2> QED BY <1>3, <2>1 DEF IInv
<1>8. CASE ScanLost(s)
  <2>1. TypeOK'
    BY <1>1, <1>8 DEF TypeOK, ScanLost, Busy
  <2> QED BY <1>3, <2>1 DEF IInv
<1> QED BY <1>4, <1>5, <1>6, <1>7, <1>8 DEF ScanStep

(* A message is taken: the worker holds nothing yet.                       *)
LEMMA TakeKeeps ==
  ASSUME IInv, NEW w \in Workers, NEW t \in Tasks, Take(w, t)
  PROVE  IInv'
<1> DEFINE j == Taken(t)
<1>1. TypeOK /\ LockHeld /\ NoOverlap
  BY DEF IInv
<1>2. j \in Jobs /\ j.pc = "checked" /\ j.task = t
  BY DEF Taken, Jobs
<1>3. job' = [job EXCEPT ![w] = j] \/ job' = job
  BY DEF Take
<1> HIDE DEF j
<1>4. \A v \in Workers : job'[v] = job[v] \/ (v = w /\ job'[v] = j)
  BY <1>1, <1>3 DEF TypeOK
<1>5. job' \in [Workers -> Jobs] /\ \A v \in Workers : Busy(v)' => job'[v].task \in Tasks
  <2>1. job' \in [Workers -> Jobs]
    BY <1>1, <1>2, <1>3 DEF TypeOK
  <2> QED BY <1>1, <1>2, <1>4, <2>1 DEF TypeOK, Busy
<1>6. queued' \in [Tasks -> 0..MaxQueued]
  BY <1>1 DEF TypeOK, Take
<1>7. TypeOK'
  BY <1>1, <1>5, <1>6 DEF TypeOK, Take
<1>8. \A v \in Workers : \A u \in Tasks : Holds(v, u)' => Holds(v, u)
  BY <1>2, <1>4 DEF Holds, Holding
<1>9. LockHeld' /\ NoOverlap'
  BY <1>1, <1>8, FewerHolders DEF Take
<1> QED BY <1>7, <1>9 DEF IInv

(* The lock is taken only where nobody holds the task.                     *)
LEMMA LockKeeps ==
  ASSUME IInv, NEW w \in Workers, Lock(w)
  PROVE  IInv'
<1> DEFINE t == job[w].task
<1>1. TypeOK /\ LockHeld /\ NoOverlap
  BY DEF IInv
<1>2. t \in Tasks /\ job[w].pc = "checked"
  BY <1>1 DEF TypeOK, Busy, Lock
<1>3. CASE lock[t] # 0
  <2>1. End(w)
    BY <1>3 DEF Lock
  <2>2. TypeOK'
    BY <1>1, <2>1, EndKeeps DEF TypeOK, Lock
  <2> QED BY <2>1, <2>2, EndKeeps DEF IInv
<1>4. CASE lock[t] = 0
  <2>1. /\ lock' = [lock EXCEPT ![t] = LockTTL]
        /\ job' = [job EXCEPT ![w] = [job[w] EXCEPT !.pc = "locked"]]
    BY <1>4 DEF Lock
  <2>2. [job[w] EXCEPT !.pc = "locked"] \in Jobs
    BY <1>1, JobType DEF TypeOK, Holding
  <2>3. TypeOK'
    <3>1. job' \in [Workers -> Jobs]
      BY <1>1, <2>1, <2>2 DEF TypeOK
    <3>2. lock' \in [Tasks -> 0..LockTTL]
      <4>1. LockTTL \in 0..LockTTL
        OBVIOUS
      <4> QED BY <1>1, <2>1, <4>1 DEF TypeOK
    <3>3. \A v \in Workers : Busy(v)' => job'[v].task \in Tasks
      BY <1>1, <1>2, <2>1 DEF TypeOK, Busy, Jobs
    <3> QED BY <1>1, <3>1, <3>2, <3>3 DEF TypeOK, Lock
  <2>4. \A v \in Workers : ~Holds(v, t)
    BY <1>1, <1>2, <1>4 DEF LockHeld
  <2>5. \A v \in Workers : \A u \in Tasks :
          Holds(v, u)' <=> Holds(v, u) \/ (v = w /\ u = t)
    BY <1>1, <1>2, <2>1 DEF TypeOK, Jobs, Holds, Holding
  <2>6. \A u \in Tasks : lock'[u] = IF u = t THEN LockTTL ELSE lock[u]
    BY <1>1, <2>1 DEF TypeOK
  <2> HIDE DEF t
  <2>7. LockHeld'
    BY <1>1, <2>5, <2>6 DEF LockHeld
  <2>8. NoOverlap'
    BY <1>1, <2>4, <2>5 DEF NoOverlap
  <2> QED BY <2>3, <2>7, <2>8 DEF IInv
<1> QED BY <1>3, <1>4

(* The steps of an execution: each ends the job or moves it on.            *)
LEMMA BeginKeeps ==
  ASSUME IInv, NEW w \in Workers, Begin(w)
  PROVE  IInv'
<1> DEFINE t == job[w].task
<1>1. TypeOK /\ job[w] \in Jobs /\ t \in Tasks /\ Busy(w)
  BY DEF IInv, TypeOK, Begin, Busy
<1>2. CASE ~Listed(t)
  <2>1. End(w)
    BY <1>2 DEF Begin
  <2>2. TypeOK'
    BY <1>1, <1>2, <2>1, EndKeeps DEF TypeOK, Begin
  <2> QED BY <2>1, <2>2, EndKeeps DEF IInv
<1>3. CASE Listed(t)
  <2> DEFINE j == [[job[w] EXCEPT !.pc = "running"] EXCEPT !.run = begun + 1]
             r == [task |-> t, status |-> "running", age |-> 0]
  <2>1. /\ begun + 1 \in 1..MaxRuns /\ begun + 1 \in 0..MaxRuns
        /\ begun' = begun + 1 /\ lock' = lock
        /\ runs' = [runs EXCEPT ![begun + 1] = r]
        /\ job' = [job EXCEPT ![w] = j]
    <3>1. begun < MaxRuns /\ begun \in 0..MaxRuns
      BY <1>1, <1>3 DEF TypeOK, Begin
    <3>2. begun + 1 \in 1..MaxRuns /\ begun + 1 \in 0..MaxRuns
      BY <3>1
    <3>3. begun' = begun + 1 /\ lock' = lock /\ runs' = [runs EXCEPT ![begun + 1] = r]
      BY <1>3 DEF Begin
    <3>4. job' = [job EXCEPT ![w].pc = "running", ![w].run = begun + 1]
      BY <1>3 DEF Begin
    <3>5. job \in [Workers -> Jobs]
      BY <1>1 DEF TypeOK
    <3>6. job' = [job EXCEPT ![w] = j]
      BY <3>4, <3>5
    <3> QED BY <3>2, <3>3, <3>6
  <2>2. r \in RunRows
    BY <1>1 DEF RunRows
  <2>3. j \in Jobs
    <3>1. [job[w] EXCEPT !.pc = "running"] \in Jobs
      BY <1>1, JobType DEF Holding
    <3> QED BY <2>1, <3>1, JobType
  <2>4. j.task = t /\ j.pc = "running"
    BY <1>1 DEF Jobs
  <2> HIDE DEF j, r
  <2>5. runs' \in [RunIds -> RunRows]
    BY <1>1, <2>1, <2>2 DEF TypeOK, RunIds
  <2>6. job[w].pc \in Holding
    BY DEF Begin, Holding
  <2>7. /\ job' \in [Workers -> Jobs]
        /\ \A v \in Workers : Busy(v)' => job'[v].task \in Tasks
        /\ lock' \in [Tasks -> 0..LockTTL]
        /\ LockHeld' /\ NoOverlap'
    <3>1. job' = [job EXCEPT ![w] = j] /\ UNCHANGED lock /\ j.task = job[w].task
      BY <2>1, <2>4
    <3> HIDE DEF t
    <3> QED BY <1>1, <2>3, <2>6, <3>1, MoveKeeps
  <2>8. TypeOK'
    BY <1>1, <2>1, <2>5, <2>7 DEF TypeOK, Begin
  <2> QED BY <2>7, <2>8 DEF IInv
<1> QED BY <1>2, <1>3

(* The run's row takes its result.                                         *)
LEMMA ClosedType ==
  ASSUME NEW row \in RunRows, NEW st \in {"success", "failed"}
  PROVE  Closed(row, st) \in RunRows
<1>1. StaleAfter + 1 \in Nat /\ 0 \in 0..StaleAfter + 1
  BY SchedulesAssumption
<1> QED BY <1>1 DEF Closed, RunRows

LEMMA RunClosedType ==
  ASSUME TypeOK, NEW r, NEW st \in {"success", "failed"},
         runs' = [runs EXCEPT ![r] = Closed(@, st)]
  PROVE  runs' \in [RunIds -> RunRows]
<1>1. \A q \in RunIds : Closed(runs[q], st) \in RunRows
  BY ClosedType DEF TypeOK
<1> QED BY <1>1 DEF TypeOK

(* A worker that goes to another step of its execution.                    *)
LEMMA PcMoves ==
  ASSUME IInv, NEW w \in Workers, Busy(w), job[w].pc \in Holding,
         NEW p \in Holding,
         job' = [job EXCEPT ![w].pc = p], lock' = lock
  PROVE  /\ job' \in [Workers -> Jobs]
         /\ \A v \in Workers : Busy(v)' => job'[v].task \in Tasks
         /\ lock' \in [Tasks -> 0..LockTTL]
         /\ LockHeld' /\ NoOverlap'
<1>1. job[w] \in Jobs
  BY DEF IInv, TypeOK
<1> DEFINE j == [job[w] EXCEPT !.pc = p]
<1>2. j \in Jobs
  BY <1>1, JobType
<1>3. j.task = job[w].task /\ job' = [job EXCEPT ![w] = j]
  BY <1>1 DEF Jobs
<1> HIDE DEF j
<1> QED BY <1>2, <1>3, MoveKeeps

LEMMA SucceedKeeps ==
  ASSUME IInv, NEW w \in Workers, Succeed(w)
  PROVE  IInv'
<1>1. TypeOK /\ Busy(w) /\ job[w].pc \in Holding
  BY DEF IInv, Succeed, Busy, Holding
<1>2. runs' \in [RunIds -> RunRows]
  <2>1. CASE Listed(job[w].task)
    BY <1>1, <2>1, RunClosedType DEF Succeed
  <2>2. CASE ~Listed(job[w].task)
    BY <1>1, <2>2 DEF Succeed, TypeOK
  <2> QED BY <2>1, <2>2
<1>3. PICK p \in Holding : job' = [job EXCEPT ![w].pc = p]
  BY DEF Succeed, Holding
<1>4. lock' = lock
  BY DEF Succeed
<1>5. /\ job' \in [Workers -> Jobs]
      /\ \A v \in Workers : Busy(v)' => job'[v].task \in Tasks
      /\ lock' \in [Tasks -> 0..LockTTL]
      /\ LockHeld' /\ NoOverlap'
  BY <1>1, <1>3, <1>4, PcMoves
<1>6. TypeOK'
  BY <1>1, <1>2, <1>5 DEF TypeOK, Succeed
<1> QED BY <1>5, <1>6 DEF IInv

LEMMA FailKeeps ==
  ASSUME IInv, NEW w \in Workers, Fail(w)
  PROVE  IInv'
<1>1. TypeOK /\ Busy(w) /\ job[w].pc \in Holding
  BY DEF IInv, Fail, Busy, Holding
<1>2. CASE ~Listed(job[w].task)
  <2>1. End(w) /\ UNCHANGED runs
    BY <1>2 DEF Fail
  <2>2. TypeOK'
    BY <1>1, <2>1, EndKeeps DEF TypeOK, Fail
  <2> QED BY <2>1, <2>2, EndKeeps DEF IInv
<1>3. CASE Listed(job[w].task)
  <2>1. /\ runs' = [runs EXCEPT ![job[w].run] = Closed(@, "failed")]
        /\ job' = [job EXCEPT ![w].pc = "failed"] /\ lock' = lock
    BY <1>3 DEF Fail
  <2>2. runs' \in [RunIds -> RunRows]
    BY <1>1, <2>1, RunClosedType
  <2>3. "failed" \in Holding
    BY DEF Holding
  <2>4. /\ job' \in [Workers -> Jobs]
        /\ \A v \in Workers : Busy(v)' => job'[v].task \in Tasks
        /\ lock' \in [Tasks -> 0..LockTTL]
        /\ LockHeld' /\ NoOverlap'
    BY <1>1, <2>1, <2>3, PcMoves
  <2>5. TypeOK'
    BY <1>1, <2>2, <2>4 DEF TypeOK, Fail
  <2> QED BY <2>4, <2>5 DEF IInv
<1> QED BY <1>2, <1>3

LEMMA FinishTaskKeeps ==
  ASSUME IInv, NEW w \in Workers, FinishTask(w)
  PROVE  IInv'
<1> DEFINE t == job[w].task
<1>1. TypeOK /\ Busy(w) /\ job[w].pc \in Holding /\ t \in Tasks
  BY DEF IInv, TypeOK, FinishTask, Busy, Holding
<1>2. task' \in [Tasks -> TaskRows]
  <2>1. CASE ~Listed(t)
    BY <1>1, <2>1 DEF FinishTask, TypeOK
  <2>2. CASE Listed(t)
    <3>1. task' = [task EXCEPT ![t] = [task[t] EXCEPT !.base = "current"]]
      BY <2>2 DEF FinishTask
    <3>2. [task[t] EXCEPT !.base = "current"] \in TaskRows
      BY <1>1, TaskRowType DEF TypeOK, Bases
    <3> QED BY <1>1, <3>1, <3>2 DEF TypeOK
  <2> QED BY <2>1, <2>2
<1>3. End(w) \/ \E p \in Holding : job' = [job EXCEPT ![w].pc = p] /\ lock' = lock
  BY DEF FinishTask, Holding
<1>4. /\ job' \in [Workers -> Jobs]
      /\ \A v \in Workers : Busy(v)' => job'[v].task \in Tasks
      /\ lock' \in [Tasks -> 0..LockTTL]
      /\ LockHeld' /\ NoOverlap'
  <2>1. CASE End(w)
    BY <2>1, EndKeeps
  <2>2. ASSUME NEW p \in Holding, job' = [job EXCEPT ![w].pc = p], lock' = lock
        PROVE  /\ job' \in [Workers -> Jobs]
               /\ \A v \in Workers : Busy(v)' => job'[v].task \in Tasks
               /\ lock' \in [Tasks -> 0..LockTTL]
               /\ LockHeld' /\ NoOverlap'
    BY <1>1, <2>2, PcMoves
  <2> QED BY <1>3, <2>1, <2>2
<1>5. TypeOK'
  BY <1>1, <1>2, <1>4 DEF TypeOK, FinishTask
<1> QED BY <1>4, <1>5 DEF IInv

LEMMA JudgeKeeps ==
  ASSUME IInv, NEW w \in Workers, Judge(w)
  PROVE  IInv'
<1> DEFINE t == job[w].task
<1>1. TypeOK /\ Busy(w) /\ job[w].pc \in Holding /\ t \in Tasks
  BY DEF IInv, TypeOK, Judge, Busy, Holding
<1>2. task' \in [Tasks -> TaskRows]
  <2>1. task' = task \/ task' = [task EXCEPT ![t] = [task[t] EXCEPT !.enabled = FALSE]]
    BY DEF Judge
  <2>2. [task[t] EXCEPT !.enabled = FALSE] \in TaskRows
    BY <1>1, TaskRowType DEF TypeOK
  <2> QED BY <1>1, <2>1, <2>2 DEF TypeOK
<1>3. "archiving" \in Holding /\ job' = [job EXCEPT ![w].pc = "archiving"] /\ lock' = lock
  BY DEF Judge, Holding
<1>4. /\ job' \in [Workers -> Jobs]
      /\ \A v \in Workers : Busy(v)' => job'[v].task \in Tasks
      /\ lock' \in [Tasks -> 0..LockTTL]
      /\ LockHeld' /\ NoOverlap'
  BY <1>1, <1>3, PcMoves
<1>5. TypeOK'
  BY <1>1, <1>2, <1>4 DEF TypeOK, Judge
<1> QED BY <1>4, <1>5 DEF IInv

LEMMA ArchiveKeeps ==
  ASSUME IInv, NEW w \in Workers, Archive(w) \/ ArchiveFails(w)
  PROVE  IInv'
<1> DEFINE t == job[w].task
<1>1. TypeOK /\ t \in Tasks /\ End(w)
  BY DEF IInv, TypeOK, Archive, ArchiveFails, Busy
<1>2. task' \in [Tasks -> TaskRows]
  <2>1. task' = task \/ task' = [task EXCEPT ![t] = [task[t] EXCEPT !.place = "bin"]]
    BY DEF Archive, ArchiveFails
  <2>2. [task[t] EXCEPT !.place = "bin"] \in TaskRows
    BY <1>1, TaskRowType DEF TypeOK
  <2> QED BY <1>1, <2>1, <2>2 DEF TypeOK
<1>3. crashes' \in 0..MaxCrashes
  BY <1>1 DEF TypeOK, Archive, ArchiveFails
<1>4. TypeOK'
  BY <1>1, <1>2, <1>3, EndKeeps DEF TypeOK, Archive, ArchiveFails
<1> QED BY <1>1, <1>4, EndKeeps DEF IInv

(* A lost process gives its message back and leaves its lock behind.       *)
LEMMA ProcessLostKeeps ==
  ASSUME IInv, NEW w \in Workers, ProcessLost(w)
  PROVE  IInv'
<1>1. TypeOK /\ job[w].task \in Tasks
  BY DEF IInv, TypeOK, ProcessLost
<1>2. End(w)
  BY DEF ProcessLost, End
<1>3. queued' \in [Tasks -> 0..MaxQueued]
  <2>1. queued[job[w].task] + 1 \in 0..MaxQueued
    BY <1>1 DEF TypeOK, ProcessLost
  <2>2. queued[job[w].task] \in 0..MaxQueued
    BY <1>1 DEF TypeOK
  <2> QED BY <1>1, <2>1, <2>2 DEF TypeOK, ProcessLost
<1>4. crashes' \in 0..MaxCrashes
  BY <1>1 DEF TypeOK, ProcessLost
<1>5. TypeOK'
  BY <1>1, <1>2, <1>3, <1>4, EndKeeps DEF TypeOK, ProcessLost
<1> QED BY <1>2, <1>5, EndKeeps DEF IInv

(* A lost host keeps its message until the visibility timeout.             *)
LEMMA HostLostKeeps ==
  ASSUME IInv, NEW w \in Workers, HostLost(w)
  PROVE  IInv'
<1>1. TypeOK /\ job[w] \in Jobs /\ crashes' \in 0..MaxCrashes
  BY DEF IInv, TypeOK, HostLost
<1>2. CASE ~job[w].unacked
  <2>1. End(w)
    BY <1>2 DEF HostLost, End
  <2>2. TypeOK'
    BY <1>1, <2>1, EndKeeps DEF TypeOK, HostLost
  <2> QED BY <2>1, <2>2, EndKeeps DEF IInv
<1>3. CASE job[w].unacked
  <2> DEFINE j == [job[w] EXCEPT !.pc = "dead"]
  <2>1. j \in Jobs
    BY <1>1, JobType
  <2>2. j.task = job[w].task /\ j.pc = "dead" /\ j.pc \notin Holding
    BY <1>1 DEF Jobs, Holding
  <2>3. job' = [job EXCEPT ![w] = j] /\ UNCHANGED lock
    BY <1>3 DEF HostLost
  <2> HIDE DEF j
  <2>4. /\ job' \in [Workers -> Jobs]
        /\ \A v \in Workers : Busy(v)' => job'[v].task \in Tasks
        /\ lock' \in [Tasks -> 0..LockTTL]
        /\ LockHeld' /\ NoOverlap'
    BY <2>1, <2>2, <2>3, MoveKeeps
  <2>5. TypeOK'
    BY <1>1, <2>4 DEF TypeOK, HostLost
  <2> QED BY <2>4, <2>5 DEF IInv
<1> QED BY <1>2, <1>3

(* A redelivery disturbs no execution: a live worker goes on.              *)
LEMMA RedeliverKeeps ==
  ASSUME IInv, NEW w \in Workers, Redeliver(w)
  PROVE  IInv'
<1>1. TypeOK /\ job[w] \in Jobs
  BY DEF IInv, TypeOK
<1>2. queued' \in [Tasks -> 0..MaxQueued]
  <2>1. CASE job[w].task \in Tasks
    <3>1. queued[job[w].task] + 1 \in 0..MaxQueued
      BY <1>1, <2>1 DEF TypeOK, Redeliver
    <3> QED BY <1>1, <2>1, <3>1 DEF TypeOK, Redeliver
  <2>2. CASE job[w].task \notin Tasks
    BY <1>1, <2>2 DEF TypeOK, Redeliver
  <2> QED BY <2>1, <2>2
<1>3. CASE job[w].pc = "dead"
  <2>1. End(w)
    BY <1>3 DEF Redeliver, End
  <2>2. TypeOK'
    BY <1>1, <1>2, <2>1, EndKeeps DEF TypeOK, Redeliver
  <2> QED BY <2>1, <2>2, EndKeeps DEF IInv
<1>4. CASE job[w].pc # "dead"
  <2> DEFINE j == [[job[w] EXCEPT !.unacked = FALSE] EXCEPT !.age = 0]
  <2>1. j \in Jobs
    <3>1. 0 \in 0..Visibility
      BY SchedulesAssumption
    <3> QED BY <1>1, <3>1, JobType
  <2>2. j.task = job[w].task /\ j.pc = job[w].pc
    BY <1>1 DEF Jobs
  <2>3. job' = [job EXCEPT ![w] = j] /\ UNCHANGED lock
    BY <1>1, <1>4 DEF Redeliver
  <2> HIDE DEF j
  <2>4. j.pc \notin {"idle", "dead"} => Busy(w)
    BY <2>2 DEF Busy
  <2>5. /\ job' \in [Workers -> Jobs]
        /\ \A v \in Workers : Busy(v)' => job'[v].task \in Tasks
        /\ lock' \in [Tasks -> 0..LockTTL]
        /\ LockHeld' /\ NoOverlap'
    BY <2>1, <2>2, <2>3, <2>4, MoveKeeps
  <2>6. TypeOK'
    BY <1>1, <1>2, <2>5 DEF TypeOK, Redeliver
  <2> QED BY <2>5, <2>6 DEF IInv
<1> QED BY <1>3, <1>4

(* The cleanup and the users' operations touch no job and no lock.         *)
LEMMA CleanupKeeps == ASSUME IInv, CleanupRead \/ CleanupWrite PROVE IInv'
<1>1. TypeOK /\ LockHeld /\ NoOverlap
  BY DEF IInv
<1>2. runs' \in [RunIds -> RunRows]
  <2>1. CASE CleanupRead
    BY <1>1, <2>1 DEF TypeOK, CleanupRead
  <2>2. CASE CleanupWrite
    <3>1. \A r \in RunIds : runs[r] \in RunRows
      BY <1>1 DEF TypeOK
    <3>2. \A row \in RunRows : Closed(row, "failed") \in RunRows
      BY ClosedType
    <3> QED BY <2>2, <3>1, <3>2 DEF CleanupWrite
  <2> QED BY <2>1, <2>2
<1>3. stale' \in SUBSET RunIds
  BY DEF CleanupRead, CleanupWrite
<1>4. TypeOK'
  BY <1>1, <1>2, <1>3 DEF TypeOK, CleanupRead, CleanupWrite, Busy
<1>5. LockHeld' /\ NoOverlap'
  BY <1>1, SameHolders DEF CleanupRead, CleanupWrite
<1> QED BY <1>4, <1>5 DEF IInv

LEMMA UserKeeps == ASSUME IInv, NEW t \in Tasks, UserStep(t) PROVE IInv'
<1>1. TypeOK /\ LockHeld /\ NoOverlap /\ task[t] \in TaskRows
  BY DEF IInv, TypeOK
<1>2. PICK row \in TaskRows : task' = [task EXCEPT ![t] = row]
  <2>1. CASE Create(t)
    <3>1. PICK n \in {"future", "due"} : task' = [task EXCEPT ![t].place = "list", ![t].next = n]
      BY <2>1 DEF Create
    <3>2. task' = [task EXCEPT ![t] = [[task[t] EXCEPT !.place = "list"] EXCEPT !.next = n]]
      BY <1>1, <3>1 DEF TypeOK
    <3>3. [[task[t] EXCEPT !.place = "list"] EXCEPT !.next = n] \in TaskRows
      BY <1>1, TaskRowType
    <3> QED BY <3>2, <3>3
  <2>2. ASSUME NEW on \in BOOLEAN, Enable(t, on)
        PROVE  \E row \in TaskRows : task' = [task EXCEPT ![t] = row]
    <3>1. task' = [task EXCEPT ![t] = [task[t] EXCEPT !.enabled = on]]
      BY <2>2 DEF Enable
    <3>2. [task[t] EXCEPT !.enabled = on] \in TaskRows
      BY <1>1, TaskRowType
    <3> QED BY <3>1, <3>2
  <2>3. CASE Reschedule(t)
    <3>1. task' = [task EXCEPT ![t] = [task[t] EXCEPT !.next = "future"]]
      BY <2>3 DEF Reschedule
    <3>2. [task[t] EXCEPT !.next = "future"] \in TaskRows
      BY <1>1, TaskRowType
    <3> QED BY <3>1, <3>2
  <2>4. ASSUME Delete(t) \/ Restore(t)
        PROVE  \E row \in TaskRows : task' = [task EXCEPT ![t] = row]
    <3>1. PICK p \in {"new", "list", "bin"} :
            task' = [task EXCEPT ![t] = [task[t] EXCEPT !.place = p]]
      BY <2>4 DEF Delete, Restore
    <3>2. [task[t] EXCEPT !.place = p] \in TaskRows
      BY <1>1, TaskRowType
    <3> QED BY <3>1, <3>2
  <2> QED BY <2>1, <2>2, <2>3, <2>4 DEF UserStep
<1>3. TypeOK'
  BY <1>1, <1>2 DEF TypeOK, UserStep, Busy
<1>4. LockHeld' /\ NoOverlap'
  BY <1>1, SameHolders DEF UserStep
<1> QED BY <1>3, <1>4 DEF IInv

LEMMA RecycleKeeps == ASSUME IInv, NEW a \in Accounts, Recycle(a) PROVE IInv'
<1>1. TypeOK /\ LockHeld /\ NoOverlap
  BY DEF IInv
<1>2. TypeOK'
  <2>1. recycled' \in SUBSET Accounts
    BY <1>1 DEF TypeOK, Recycle
  <2> QED BY <1>1, <2>1 DEF TypeOK, Recycle, Busy
<1>3. LockHeld' /\ NoOverlap'
  BY <1>1, SameHolders DEF Recycle
<1> QED BY <1>2, <1>3 DEF IInv

(* Every step preserves the invariant.                                     *)
LEMMA NextIInv == IInv /\ [Next]_vars => IInv'
<1> SUFFICES ASSUME IInv, [Next]_vars PROVE IInv'
  OBVIOUS
<1>1. CASE UNCHANGED vars
  <2>1. LockHeld' /\ NoOverlap'
    BY <1>1, SameHolders DEF IInv, vars
  <2>2. TypeOK'
    BY <1>1 DEF IInv, TypeOK, vars, Busy
  <2> QED BY <2>1, <2>2 DEF IInv
<1>2. CASE Tick
  BY <1>2, TickKeeps
<1>3. CASE CleanupRead \/ CleanupWrite
  BY <1>3, CleanupKeeps
<1>4. ASSUME NEW s \in Scanners, ScanStep(s) \/ DispatchFails(s) \/ ScanLost(s) PROVE IInv'
  BY <1>4, ScanKeeps
<1>5. ASSUME NEW t \in Tasks, Slot(t) PROVE IInv'
  BY <1>5, SlotKeeps
<1>6. ASSUME NEW t \in Tasks, UserStep(t) PROVE IInv'
  BY <1>6, UserKeeps
<1>7. ASSUME NEW w \in Workers, WorkStep(w) PROVE IInv'
  <2>1. CASE \E t \in Tasks : Take(w, t)
    BY <2>1, TakeKeeps
  <2>2. CASE Lock(w)
    BY <2>2, LockKeeps
  <2>3. CASE Begin(w)
    BY <2>3, BeginKeeps
  <2>4. CASE Succeed(w)
    BY <2>4, SucceedKeeps
  <2>5. CASE Fail(w)
    BY <2>5, FailKeeps
  <2>6. CASE FinishTask(w)
    BY <2>6, FinishTaskKeeps
  <2>7. CASE Judge(w)
    BY <2>7, JudgeKeeps
  <2>8. CASE Archive(w)
    BY <2>8, ArchiveKeeps
  <2> QED BY <1>7, <2>1, <2>2, <2>3, <2>4, <2>5, <2>6, <2>7, <2>8 DEF WorkStep
<1>8. ASSUME NEW w \in Workers, ArchiveFails(w) \/ ProcessLost(w) \/ HostLost(w) \/ Redeliver(w)
      PROVE  IInv'
  BY <1>8, ArchiveKeeps, ProcessLostKeeps, HostLostKeeps, RedeliverKeeps
<1>9. ASSUME NEW a \in Accounts, Recycle(a) PROVE IInv'
  BY <1>9, RecycleKeeps
<1> QED BY <1>1, <1>2, <1>3, <1>4, <1>5, <1>6, <1>7, <1>8, <1>9 DEF Next, Failure

-----------------------------------------------------------------------------
(* A worker is past the insertion of a run of t.                           *)
Working(w, t) == Holds(w, t) /\ job[w].pc # "locked"

(* Nobody brings a one-time task back from the recycle bin.                *)
OneTime == Once \ Restorable

(* A one-time task with a run is being worked on or archived, so that no   *)
(* second run begins: the lock keeps other workers out of the one, the     *)
(* missing row out of the other.                                           *)
RunOrArchived(t) ==
  RunsOf(t) # {} =>
    \/ task[t].place = "bin"
    \/ task[t].place = "list" /\ \E w \in Workers : Working(w, t)

AtMostOne(S) == \A x, y \in S : x = y

OInv == crashes = 0 => \A t \in OneTime : RunOrArchived(t) /\ AtMostOne(RunsOf(t))

LEMMA OInvOnce == OInv => OnceNeverRepeats
<1> SUFFICES ASSUME OInv, crashes = 0, NEW t \in OneTime
             PROVE  Cardinality(RunsOf(t)) <= 1
  BY DEF OnceNeverRepeats, OneTime
<1>1. AtMostOne(RunsOf(t))
  BY DEF OInv
<1> HIDE DEF RunsOf
<1>2. CASE RunsOf(t) = {}
  BY <1>2, FS_EmptySet
<1>3. ASSUME NEW r \in RunsOf(t) PROVE Cardinality(RunsOf(t)) <= 1
  <2>1. RunsOf(t) = {r}
    BY <1>1, <1>3 DEF AtMostOne
  <2>2. Cardinality({r}) = 1
    BY FS_Singleton
  <2> QED BY <2>1, <2>2
<1> QED BY <1>2, <1>3

(* A step that begins no run, leaves what is archived there, and ends no   *)
(* execution of a one-time task without archiving it.                      *)
LEMMA OnceKept ==
  ASSUME IInv, OInv,
         crashes' = 0 => crashes = 0,
         \A r \in RunIds : runs'[r].task = runs[r].task,
         crashes' = 0 => \A t \in OneTime :
           /\ task[t].place = "bin" => task'[t].place = "bin"
           /\ task[t].place = "list" => task'[t].place \in {"list", "bin"}
           /\ \A w \in Workers : Working(w, t) =>
                task'[t].place # "list" \/ Working(w, t)'
  PROVE  OInv'
<1> SUFFICES ASSUME crashes' = 0, NEW t \in OneTime
             PROVE  RunOrArchived(t)' /\ AtMostOne(RunsOf(t)')
  BY DEF OInv
<1>1. RunsOf(t)' = RunsOf(t)
  BY DEF RunsOf
<1>2. RunOrArchived(t) /\ AtMostOne(RunsOf(t))
  BY DEF OInv
<1>3. RunOrArchived(t)'
  BY <1>1, <1>2 DEF RunOrArchived
<1> QED BY <1>1, <1>2, <1>3

(* A step that leaves the rows, the runs and the jobs alone.               *)
LEMMA OnceAlone ==
  ASSUME IInv, OInv, crashes' = 0 => crashes = 0 /\ UNCHANGED <<runs, task, job>>,
         \A r \in RunIds : runs'[r].task = runs[r].task
  PROVE  OInv'
<1>1. crashes' = 0 => \A t \in OneTime, w \in Workers : Working(w, t) => Working(w, t)'
  BY DEF Working, Holds
<1> QED BY <1>1, OnceKept

(* A worker that goes on with its execution goes on working.               *)
LEMMA WorkGoesOn ==
  ASSUME IInv, NEW w \in Workers, NEW p \in Holding \ {"locked"},
         job' = [job EXCEPT ![w].pc = p]
  PROVE  \A t \in Tasks, v \in Workers : Working(v, t) => Working(v, t)'
<1>1. job \in [Workers -> Jobs]
  BY DEF IInv, TypeOK
<1>2. \A v \in Workers : job'[v].task = job[v].task /\ (v = w \/ job'[v].pc = job[v].pc)
  BY <1>1 DEF Jobs
<1>3. job'[w].pc = p
  BY <1>1 DEF Jobs
<1> QED BY <1>2, <1>3 DEF Working, Holds

(* A worker that ends or has no run yet leaves the others working.         *)
LEMMA OthersGoOn ==
  ASSUME IInv, NEW w \in Workers, \A v \in Workers : v # w => job'[v] = job[v],
         NEW t, ~Working(w, t) \/ task'[t].place # "list"
  PROVE  \A v \in Workers : Working(v, t) => task'[t].place # "list" \/ Working(v, t)'
  BY DEF Working, Holds

(* Begin: a one-time task that already has a run is in the bin, or held by *)
(* a worker that is past this step.                                        *)
LEMMA OnceBegins ==
  ASSUME IInv, OInv, NEW w \in Workers, Begin(w) PROVE OInv'
<1>0. PICK u \in Tasks : u = job[w].task /\ job[w].pc = "locked"
  BY DEF IInv, TypeOK, Begin, Busy, Holding
<1>1. job \in [Workers -> Jobs] /\ u \in Tasks /\ job[w].pc = "locked" /\ Holds(w, u)
      /\ runs \in [RunIds -> RunRows] /\ task' = task /\ crashes' = crashes
      /\ begun \in Nat
  BY <1>0 DEF IInv, TypeOK, Begin, Busy, Holds, Holding
<1>2. ASSUME NEW t \in Tasks, NEW v \in Workers, Working(v, t)
      PROVE  v # w /\ t # u
  BY <1>1, <1>2 DEF Working, Holds, IInv, NoOverlap
<1>3. CASE ~Listed(u)
  <2>1. runs' = runs /\ job' = [job EXCEPT ![w] = Idle]
    BY <1>0, <1>3 DEF Begin, End
  <2>2. \A t \in OneTime, v \in Workers : Working(v, t) => Working(v, t)'
    BY <1>1, <1>2, <2>1, SchedulesAssumption DEF Working, Holds, OneTime
  <2> QED BY <1>1, <2>1, <2>2, OnceKept
<1>4. CASE Listed(u)
  <2> DEFINE n == begun + 1
             j == [job[w] EXCEPT !.pc = "running", !.run = n]
  <2>1. /\ runs' = [runs EXCEPT ![n] = [task |-> u, status |-> "running", age |-> 0]]
        /\ job' = [job EXCEPT ![w].pc = "running", ![w].run = n]
        /\ n \in RunIds
    <3>1. begun < MaxRuns
      BY <1>0, <1>4 DEF Begin
    <3>2. begun + 1 \in RunIds
      BY <1>1, <3>1, SchedulesAssumption DEF RunIds
    <3>3. /\ runs' = [runs EXCEPT ![n] = [task |-> u, status |-> "running", age |-> 0]]
          /\ job' = [job EXCEPT ![w].pc = "running", ![w].run = n]
      <4> HIDE DEF Listed
      <4> QED BY <1>0, <1>4 DEF Begin
    <3> QED BY <3>2, <3>3
  <2>2. job'[w].pc = "running" /\ job'[w].task = u
        /\ \A v \in Workers : v # w => job'[v] = job[v]
    BY <1>0, <1>1, <2>1 DEF Jobs
  <2> HIDE DEF n
  <2>3. \A t \in Tasks, v \in Workers : Working(v, t) => Working(v, t)'
    BY <1>2, <2>2 DEF Working, Holds
  <2>4. Working(w, u)'
    BY <2>2 DEF Working, Holds, Holding
  <2>5. \A t \in Tasks : t # u => RunsOf(t)' \subseteq RunsOf(t)
    BY <1>1, <2>1 DEF RunsOf
  <2>6. ASSUME crashes = 0, u \in OneTime PROVE RunsOf(u)' = {n}
    <3>1. ~ \E v \in Workers : Working(v, u)
      BY <1>1, <1>2
    <3>2. RunOrArchived(u)
      BY <2>6 DEF OInv
    <3>3. task[u].place = "list"
      BY <1>4 DEF Listed
    <3>4. RunsOf(u) = {}
      <4> HIDE DEF RunsOf
      <4> QED BY <3>1, <3>2, <3>3 DEF RunOrArchived
    <3>5. \A r \in RunIds : runs[r].task # u
      BY <3>4 DEF RunsOf
    <3>6. runs'[n].task = u /\ \A r \in RunIds : r # n => runs'[r] = runs[r]
      BY <1>1, <2>1
    <3>7. \A r \in RunIds : runs'[r].task = u <=> r = n
      BY <3>5, <3>6
    <3>8. n \in RunIds
      BY <2>1
    <3> QED BY <3>7, <3>8 DEF RunsOf
  <2>7. ASSUME crashes' = 0, NEW t \in OneTime
        PROVE  RunOrArchived(t)' /\ AtMostOne(RunsOf(t)')
    <3>1. t \in Tasks /\ crashes = 0
      BY <1>1, <2>7, SchedulesAssumption DEF OneTime
    <3>2. CASE t = u
      BY <1>1, <1>4, <2>4, <2>6, <3>1, <3>2 DEF RunOrArchived, AtMostOne, Listed
    <3>3. CASE t # u
      <4>1. RunOrArchived(t) /\ AtMostOne(RunsOf(t)) /\ RunsOf(t)' \subseteq RunsOf(t)
        BY <2>5, <3>1, <3>3 DEF OInv
      <4> QED BY <1>1, <2>3, <3>1, <4>1 DEF RunOrArchived, AtMostOne
    <3> QED BY <3>2, <3>3
  <2> QED BY <2>7 DEF OInv
<1> QED BY <1>3, <1>4

(* The steps of an execution after its run has begun.                      *)
LEMMA OnceWorks ==
  ASSUME IInv, OInv, NEW w \in Workers,
         Succeed(w) \/ Fail(w) \/ FinishTask(w) \/ Judge(w) \/ Archive(w)
  PROVE  OInv'
<1> DEFINE u == job[w].task
<1>1. job \in [Workers -> Jobs] /\ job[w] \in Jobs /\ u \in Tasks /\ Working(w, u)
      /\ runs \in [RunIds -> RunRows] /\ task \in [Tasks -> TaskRows] /\ crashes' = crashes
  BY DEF IInv, TypeOK, Succeed, Fail, FinishTask, Judge, Archive, Busy, Working, Holds, Holding
<1>2. \A r \in RunIds : runs'[r].task = runs[r].task
  <2>1. \A r \in RunIds : \A st : Closed(runs[r], st).task = runs[r].task
    BY <1>1 DEF Closed, RunRows
  <2>2. runs' = runs \/ \E st : runs' = [runs EXCEPT ![job[w].run] = Closed(@, st)]
    BY DEF Succeed, Fail, FinishTask, Judge, Archive
  <2> QED BY <1>1, <2>1, <2>2
<1>3. \A t \in Tasks :
        task'[t].place = task[t].place \/ (Archive(w) /\ t = u /\ task'[t].place = "bin")
  BY <1>1 DEF Succeed, Fail, FinishTask, Judge, Archive, TaskRows
<1>4. \A t \in OneTime : t \in Tasks
  BY SchedulesAssumption DEF OneTime
<1>5. ASSUME NEW p \in Holding \ {"locked"}, job' = [job EXCEPT ![w].pc = p] PROVE OInv'
  <2>1. \A t \in Tasks, v \in Workers : Working(v, t) => Working(v, t)'
    BY <1>5, WorkGoesOn
  <2> QED BY <1>1, <1>2, <1>3, <1>4, <2>1, OnceKept
<1>6. ASSUME End(w), u \in OneTime => task'[u].place # "list" PROVE OInv'
  <2>1. \A v \in Workers : v # w => job'[v] = job[v]
    BY <1>1, <1>6 DEF End
  <2>2. ASSUME NEW t \in OneTime PROVE ~Working(w, t) \/ task'[t].place # "list"
    BY <1>6 DEF Working, Holds
  <2>3. \A t \in OneTime, v \in Workers : Working(v, t) =>
          task'[t].place # "list" \/ Working(v, t)'
    BY <2>1, <2>2, OthersGoOn
  <2> QED BY <1>1, <1>2, <1>3, <1>4, <2>3, OnceKept
<1>7. CASE Succeed(w) \/ Judge(w)
  <2>1. \E p \in {"succeeded", "failing", "archiving"} : job' = [job EXCEPT ![w].pc = p]
    BY <1>7 DEF Succeed, Judge
  <2> QED BY <1>5, <2>1 DEF Holding
<1>8. CASE Fail(w)
  <2>1. job' = [job EXCEPT ![w].pc = "failed"] \/ (End(w) /\ ~Listed(u) /\ task' = task)
    BY <1>8 DEF Fail
  <2> QED BY <1>5, <1>6, <2>1 DEF Holding, Listed
<1>9. CASE FinishTask(w)
  <2>1. \/ \E p \in {"judging", "archiving", "failing"} : job' = [job EXCEPT ![w].pc = p]
        \/ End(w) /\ ~Listed(u) /\ task' = task
    BY <1>9 DEF FinishTask
  <2> QED BY <1>5, <1>6, <2>1 DEF Holding, Listed
<1>10. CASE Archive(w)
  <2>1. End(w)
    BY <1>10 DEF Archive
  <2>2. u \in OneTime => task'[u].place # "list"
    BY <1>1, <1>10 DEF Archive, Listed, OneTime, TaskRows
  <2> QED BY <1>6, <2>1, <2>2
<1> QED BY <1>7, <1>8, <1>9, <1>10

(* The user neither brings a one-time task back nor takes its run away.    *)
LEMMA OnceUsed ==
  ASSUME IInv, OInv, NEW u \in Tasks, UserStep(u) PROVE OInv'
<1>1. task \in [Tasks -> TaskRows]
  BY DEF IInv, TypeOK
<1>2. \A t \in OneTime : t \in Tasks /\ t \notin Restorable
  BY SchedulesAssumption DEF OneTime
<1>3. \A t \in OneTime : /\ task[t].place = "bin" => task'[t].place = "bin"
                         /\ task[t].place = "list" => task'[t].place \in {"list", "bin"}
  BY <1>1, <1>2 DEF UserStep, Create, Enable, Reschedule, Delete, Restore, Listed, TaskRows
<1>4. \A t \in OneTime, w \in Workers : Working(w, t) => Working(w, t)'
  BY DEF UserStep, Working, Holds
<1> QED BY <1>3, <1>4, OnceKept DEF UserStep

LEMMA InitOInv == Init => OInv
  BY DEF Init, OInv, RunOrArchived, AtMostOne, RunsOf, OneTime

LEMMA NextOInv == IInv /\ OInv /\ [Next]_vars => OInv'
<1> SUFFICES ASSUME IInv, OInv, [Next]_vars PROVE OInv'
  OBVIOUS
<1>1. /\ job \in [Workers -> Jobs] /\ runs \in [RunIds -> RunRows]
      /\ task \in [Tasks -> TaskRows] /\ crashes \in Nat
      /\ \A t \in OneTime : t \in Tasks
  BY SchedulesAssumption DEF IInv, TypeOK, OneTime
<1>2. CASE UNCHANGED vars
  BY <1>2, OnceAlone DEF vars
<1>3. CASE Tick
  <2>1. \A r \in RunIds : runs'[r].task = runs[r].task
    BY <1>1, <1>3 DEF Tick, RunRows
  <2>2. \A w \in Workers : job'[w].pc = job[w].pc /\ job'[w].task = job[w].task
    BY <1>1, <1>3 DEF Tick, Jobs
  <2>3. \A t \in OneTime, w \in Workers : Working(w, t) => Working(w, t)'
    BY <2>2 DEF Working, Holds
  <2> QED BY <1>3, <2>1, <2>3, OnceKept DEF Tick
<1>4. CASE CleanupRead
  BY <1>4, OnceAlone DEF CleanupRead
<1>5. CASE CleanupWrite
  <2>1. \A r \in RunIds : runs'[r].task = runs[r].task
    BY <1>1, <1>5 DEF CleanupWrite, Closed, RunRows
  <2>2. \A t \in OneTime, w \in Workers : Working(w, t) => Working(w, t)'
    BY <1>5 DEF CleanupWrite, Working, Holds
  <2> QED BY <1>5, <2>1, <2>2, OnceKept DEF CleanupWrite
<1>6. CASE Failure
  <2>1. crashes' = crashes + 1 /\ runs' = runs
    BY <1>6 DEF Failure, DispatchFails, ScanLost, ArchiveFails, ProcessLost, HostLost
  <2>2. crashes' # 0
    BY <1>1, <2>1
  <2> QED BY <2>1, <2>2, OnceAlone
<1>7. ASSUME NEW t \in Tasks, Slot(t) PROVE OInv'
  <2>1. \A u \in Tasks : task'[u].place = task[u].place
    BY <1>1, <1>7 DEF Slot, TaskRows
  <2>2. \A u \in OneTime, w \in Workers : Working(w, u) => Working(w, u)'
    BY <1>7 DEF Slot, Working, Holds
  <2> QED BY <1>1, <1>7, <2>1, <2>2, OnceKept DEF Slot
<1>8. ASSUME NEW s \in Scanners, ScanStep(s) PROVE OInv'
  <2>1. /\ UNCHANGED <<runs, job, crashes>>
        /\ \A u \in Tasks : task'[u].place = task[u].place
    BY <1>1, <1>8 DEF ScanStep, ScanRead, Advance, Dispatch, TaskRows
  <2>2. \A u \in OneTime, w \in Workers : Working(w, u) => Working(w, u)'
    BY <2>1 DEF Working, Holds
  <2> QED BY <1>1, <2>1, <2>2, OnceKept
<1>9. ASSUME NEW w \in Workers, (\E t \in Tasks : Take(w, t)) \/ Lock(w) PROVE OInv'
  <2>1. UNCHANGED <<runs, task, crashes>> /\ job[w].pc \in {"idle", "checked"}
    BY <1>9 DEF Take, Lock
  <2>2. \A v \in Workers : v # w => job'[v] = job[v]
    BY <1>1, <1>9 DEF Take, Lock, End
  <2>3. \A t \in OneTime, v \in Workers : Working(v, t) => Working(v, t)'
    BY <2>1, <2>2 DEF Working, Holds, Holding
  <2> QED BY <2>1, <2>3, OnceKept
<1>10. ASSUME NEW w \in Workers, Redeliver(w) PROVE OInv'
  <2>1. /\ UNCHANGED <<runs, task, crashes>>
        /\ \A v \in Workers :
             \/ job'[v].pc = job[v].pc /\ job'[v].task = job[v].task
             \/ job[v].pc = "dead"
    BY <1>1, <1>10 DEF Redeliver, Jobs
  <2>2. \A t \in OneTime, v \in Workers : Working(v, t) => Working(v, t)'
    BY <2>1 DEF Working, Holds, Holding
  <2> QED BY <2>1, <2>2, OnceKept
<1>11. ASSUME NEW a \in Accounts, Recycle(a) PROVE OInv'
  BY <1>11, OnceAlone DEF Recycle
<1> QED
  BY <1>2, <1>3, <1>4, <1>5, <1>6, <1>7, <1>8, <1>9, <1>10, <1>11,
     OnceBegins, OnceWorks, OnceUsed DEF Next, WorkStep

-----------------------------------------------------------------------------
(* Every variable keeps its type, for any number of tasks and workers.     *)
THEOREM TypeCorrect == Spec => []TypeOK
<1>1. IInv => TypeOK
  BY DEF IInv
<1> QED BY InitIInv, NextIInv, <1>1, PTL DEF Spec

(* 不重入: two live workers never execute one task at once, whatever is     *)
(* dispatched, redelivered, crashed, deleted and restored around them.     *)
THEOREM NeverTwoWorkers == Spec => []NoOverlap
<1>1. IInv => NoOverlap
  BY DEF IInv
<1> QED BY InitIInv, NextIInv, <1>1, PTL DEF Spec

(* A one-time task is executed once: its message may be dispatched by two  *)
(* scans and delivered twice, and the lock may run out, but the first      *)
(* execution archives the task before it ends (_archive_once_task).        *)
THEOREM OnceOnly == Spec => []OnceNeverRepeats
<1> QED BY InitIInv, NextIInv, InitOInv, NextOInv, OInvOnce, PTL DEF Spec

-----------------------------------------------------------------------------
(***************************************************************************)
(* The gate in front of the renderer.                                       *)
(***************************************************************************)
HIDE SchedulesAssumption
USE RenderAssumption

(* A message is sent at the end of a dispatch, and a dispatch gives back     *)
(* only after the broker has failed.                                         *)
Placed ==
  \A r \in Requests :
    /\ render[r] # "none" => at[r] \in {"mark", "sent", "died"}
    /\ failures = 0 => at[r] \notin {"release", "delete", "unlock"}

(* What a task has told by the way its attempt ended.                        *)
Heard(r) == told[r] = 1 \/ r \in unheard
Tells(r) ==
  /\ ending[r] = "again" => retries[r] < MaxRetries
  /\ losses = 0 =>
       /\ told[r] <= 1
       /\ render[r] \in {"none", "waiting", "dequeue", "rendering"} => told[r] = 0
       /\ render[r] \in {"release", "delete", "unlock", "after"} =>
            /\ ending[r] \in {"ok", "again", "over", "other"}
            /\ ending[r] \in {"ok", "again", "other"} => told[r] = 0
            /\ ending[r] = "over" => Heard(r)
       /\ render[r] = "done" => Heard(r)
       /\ render[r] = "failed" /\ ending[r] # "other" => Heard(r)
Telling == \A r \in Requests : Tells(r)

(* While nothing fails, those who hold the lock of a script hold it alone.   *)
Holder(r) ==
  at[r] = "send" \/ render[r] \in {"waiting", "dequeue", "rendering", "release", "delete", "unlock"}
Undisturbed == failures = 0 /\ losses = 0 /\ expiries = 0 /\ \A r \in Requests : retries[r] = 0
Alone == Undisturbed =>
  \A r \in Requests : Holder(r) =>
    /\ Key(r) \in script
    /\ \A q \in Requests : Holder(q) /\ Key(q) = Key(r) => q = r

GateInv == GateTypeOK /\ Placed /\ Telling /\ Backed /\ Alone

-----------------------------------------------------------------------------
(* The initial states satisfy the invariant.                                 *)
LEMMA InitGateInv == GateInit => GateInv
<1> SUFFICES ASSUME GateInit PROVE GateInv
  OBVIOUS
<1> USE DEF GateInit
<1>1. GateTypeOK
  <2>1. {r \in Requests : Rendering(r)} = {}
    BY DEF Rendering, Active
  <2>2. Cardinality({r \in Requests : Rendering(r)}) <= Capacity
    BY <2>1, FS_EmptySet
  <2> QED BY <2>2 DEF GateTypeOK, Answered, Ended, Active
<1>2. Placed /\ Telling /\ Alone
  BY DEF Placed, Telling, Tells, Alone, Holder
<1>3. Backed
  <2>1. \A a \in Users : Owing(a) = {}
    BY DEF Owing
  <2> QED BY <2>1, FS_EmptySet DEF Backed, SlotBacked, LockBacked
<1> QED BY <1>1, <1>2, <1>3 DEF GateInv

(* Giving back, step by step.                                                *)
LEMMA ReleaseSteps ==
  ASSUME GateTypeOK, NEW r \in Requests, Release(r)
  PROVE  /\ UNCHANGED <<at, ending, retries, told, unheard, losses, deaths, expiries, queue>>
         /\ \/ /\ render[r] = "release" /\ failures' = failures /\ UNCHANGED <<fading, script>>
               /\ slot' = [slot EXCEPT ![OwnerOf(r)] = slot[OwnerOf(r)] - 1]
               /\ \E pc \in {"delete", "unlock"} : render' = [render EXCEPT ![r] = pc]
            \/ /\ render[r] = "delete" /\ failures' = failures /\ UNCHANGED script
               /\ slot' = [slot EXCEPT ![OwnerOf(r)] = 0] /\ fading' = fading \ {OwnerOf(r)}
               /\ render' = [render EXCEPT ![r] = "unlock"]
            \/ /\ render[r] \in {"release", "delete"} /\ Another /\ failures' = failures + 1
               /\ UNCHANGED <<slot, fading, script>> /\ render' = [render EXCEPT ![r] = "unlock"]
            \/ /\ render[r] = "unlock" /\ render' = [render EXCEPT ![r] = "after"] /\ UNCHANGED <<slot, fading>>
               /\ \/ failures' = failures /\ script' = script \ {Key(r)}
                  \/ Another /\ failures' = failures + 1 /\ UNCHANGED script
BY DEF Release, GiveBack, Turn, Following, DecrSlot, DeleteSlot, Works, Fails, Alive, gate

(* The same for a request that the broker did not take.                      *)
LEMMA ReleaseUnsentSteps ==
  ASSUME GateTypeOK, NEW r \in Requests, ReleaseUnsent(r)
  PROVE  /\ UNCHANGED <<work, losses, deaths, expiries, queue>>
         /\ at[r] \in {"release", "delete", "unlock"}
         /\ \E pc \in {"delete", "unlock", "refused"} : at' = [at EXCEPT ![r] = pc]
         /\ slot' \in [Users -> Int] /\ fading' \subseteq fading /\ script' \subseteq script
         /\ failures' = failures \/ (Another /\ failures' = failures + 1)
<1>1. OwnerOf(r) \in Users
  BY DEF OwnerOf
<1> QED BY <1>1 DEF ReleaseUnsent, GiveBack, Goto, Following, DecrSlot, DeleteSlot, Works, Fails, Alive, gate, GateTypeOK

-----------------------------------------------------------------------------
(* Three changes of a set of requests.                                       *)
LEMMA MoreRequests ==
  ASSUME NEW S \in SUBSET Requests, NEW T \in SUBSET Requests, S \subseteq T
  PROVE  Cardinality(S) \in Nat /\ Cardinality(T) \in Nat /\ Cardinality(S) <= Cardinality(T)
BY FS_Subset, FS_CardinalityType

(* ... it may lose one request ...                                           *)
LEMMA OneRequestLess ==
  ASSUME NEW S \in SUBSET Requests, NEW T \in SUBSET Requests, NEW r, S \ {r} \subseteq T
  PROVE  Cardinality(S) - 1 <= Cardinality(T)
<1>1. IsFiniteSet(S) /\ S \ {r} \in SUBSET Requests
  BY FS_Subset
<1>2. Cardinality(S \ {r}) <= Cardinality(T) /\ Cardinality(T) \in Nat
  BY <1>1, MoreRequests
<1>3. Cardinality(S \ {r}) = IF r \in S THEN Cardinality(S) - 1 ELSE Cardinality(S)
  BY <1>1, FS_RemoveElement
<1>4. Cardinality(S) \in Nat
  BY <1>1, FS_CardinalityType
<1> QED BY <1>2, <1>3, <1>4

(* ... or gain one.                                                          *)
LEMMA OneRequestMore ==
  ASSUME NEW S \in SUBSET Requests, NEW r \in Requests, r \notin S
  PROVE  Cardinality(S \cup {r}) = Cardinality(S) + 1
BY FS_Subset, FS_AddElement

-----------------------------------------------------------------------------
(* If no task begins to run, the capacity still suffices.                    *)
LEMMA RenderingKeeps ==
  ASSUME GateTypeOK, \A r \in Requests : Rendering(r)' => Rendering(r)
  PROVE  Cardinality({r \in Requests : Rendering(r)'}) <= Capacity
<1>1. Cardinality({r \in Requests : Rendering(r)'}) <= Cardinality({r \in Requests : Rendering(r)})
      /\ Cardinality({r \in Requests : Rendering(r)}) \in Nat
      /\ Cardinality({r \in Requests : Rendering(r)'}) \in Nat
  BY MoreRequests
<1>2. Cardinality({r \in Requests : Rendering(r)}) <= Capacity
  BY DEF GateTypeOK
<1> QED BY <1>1, <1>2

(* Faults are only counted up.                                               *)
LEMMA FaultsCounted ==
  ASSUME GateTypeOK, [GateNext]_gateVars
  PROVE  /\ failures' \in Nat /\ losses' \in Nat /\ deaths' \in Nat /\ expiries' \in Nat
         /\ failures' + losses' + deaths' + expiries' <= MaxFaults
         /\ failures <= failures' /\ losses <= losses' /\ deaths <= deaths' /\ expiries <= expiries'
<1>1. /\ failures \in Nat /\ losses \in Nat /\ deaths \in Nat /\ expiries \in Nat
      /\ failures + losses + deaths + expiries <= MaxFaults
  BY DEF GateTypeOK
<1>2. \/ UNCHANGED faults
      \/ failures' = failures + 1 /\ UNCHANGED <<losses, deaths, expiries>> /\ Another
      \/ losses' = losses + 1 /\ UNCHANGED <<failures, deaths, expiries>> /\ Another
      \/ deaths' = deaths + 1 /\ UNCHANGED <<failures, losses, expiries>> /\ Another
      \/ expiries' = expiries + 1 /\ UNCHANGED <<failures, losses, deaths>> /\ Another
  <2> DEFINE G == \/ UNCHANGED faults
                  \/ failures' = failures + 1 /\ UNCHANGED <<losses, deaths, expiries>> /\ Another
                  \/ losses' = losses + 1 /\ UNCHANGED <<failures, deaths, expiries>> /\ Another
                  \/ deaths' = deaths + 1 /\ UNCHANGED <<failures, losses, expiries>> /\ Another
                  \/ expiries' = expiries + 1 /\ UNCHANGED <<failures, losses, deaths>> /\ Another
  <2>1. ASSUME NEW r \in Requests, Dispatching(r) PROVE G
    <3>1. CASE ReleaseUnsent(r)
      BY <3>1, ReleaseUnsentSteps DEF faults
    <3>2. CASE ~ReleaseUnsent(r)
      BY <2>1, <3>2 DEF Dispatching, ReadQueue, IncrSlot, ExpireSlot, LockScript, Undo, Send, Mark,
                        Works, Fails, Alive, faults
    <3> QED BY <3>1, <3>2
  <2>2. ASSUME NEW r \in Requests, Render(r) PROVE G
    <3>1. CASE Release(r)
      BY <3>1, ReleaseSteps DEF faults
    <3>2. CASE ~Release(r)
      BY <2>2, <3>2 DEF Render, Start, Dequeue, Finish, After, Works, Fails, Alive, faults
    <3> QED BY <3>1, <3>2
  <2>3. ASSUME NEW r \in Requests, Lose(r) \/ DispatchDies(r) PROVE G
    BY <2>3 DEF Lose, DispatchDies
  <2>4. ASSUME NEW a \in Users, SlotExpires(a) PROVE G
    BY <2>4 DEF SlotExpires
  <2>5. ASSUME NEW k \in Keys, LockExpires(k) PROVE G
    BY <2>5 DEF LockExpires
  <2>6. ASSUME UNCHANGED gateVars PROVE G
    BY <2>6 DEF gateVars, faults
  <2> QED BY <2>1, <2>2, <2>3, <2>4, <2>5, <2>6 DEF GateNext
<1>3. Cardinality(unheard) \in Nat
  BY RenderAssumption, FS_Subset, FS_CardinalityType DEF GateTypeOK
<1>4. Another => failures + losses + deaths + expiries < MaxFaults
  BY <1>1, <1>3, RenderAssumption DEF Another
<1> QED BY <1>1, <1>2, <1>4 DEF faults

(* The types: every command of the gate, and the capacity when a task starts. *)
LEMMA NextTypes == ASSUME GateTypeOK, Placed, Telling, [GateNext]_gateVars PROVE GateTypeOK'
<1>1. \A r \in Requests : OwnerOf(r) \in Users /\ Key(r) \in Keys
  BY DEF OwnerOf, Key, Keys
<1> DEFINE Fair == /\ failures' \in Nat /\ losses' \in Nat /\ deaths' \in Nat /\ expiries' \in Nat
                   /\ failures' + losses' + deaths' + expiries' <= MaxFaults
<1>2. Fair
  BY FaultsCounted
<1> HIDE DEF Fair
<1> DEFINE Rest ==
      /\ slot' \in [Users -> Int] /\ fading' \subseteq Users /\ script' \subseteq Keys /\ queue' \in Int
      /\ at' \in [Requests -> Answered \cup {"new", "slot", "expire", "expireOver", "lock", "undo", "undoDelete",
                                            "send", "release", "delete", "unlock", "mark"}]
      /\ render' \in [Requests -> Ended \cup Active \cup {"none", "waiting"}]
      /\ ending' \in [Requests -> {"none", "ok", "again", "over", "other"}]
      /\ retries' \in [Requests -> 0 .. MaxRetries] /\ told' \in [Requests -> Nat]
      /\ unheard' \subseteq Requests
<1>3. ASSUME Rest, Cardinality({r \in Requests : Rendering(r)'}) <= Capacity PROVE GateTypeOK'
  BY <1>2, <1>3 DEF GateTypeOK, Fair, Rendering
<1>4. ASSUME Rest, \A r \in Requests : Rendering(r)' => Rendering(r) PROVE GateTypeOK'
  <2>1. Cardinality({r \in Requests : Rendering(r)'}) <= Capacity
    BY <1>4, RenderingKeeps
  <2> HIDE DEF Rest
  <2> QED BY <1>3, <1>4, <2>1
<1>5. ASSUME NEW r \in Requests, ReadQueue(r) \/ IncrSlot(r) \/ ExpireSlot(r) \/ LockScript(r) \/ Mark(r)
      PROVE  GateTypeOK'
  <2>1. render' = render
    BY <1>5 DEF ReadQueue, IncrSlot, ExpireSlot, LockScript, Mark, Goto, work
  <2>2. Rest
    BY <1>1, <1>5 DEF ReadQueue, IncrSlot, ExpireSlot, LockScript, Mark, Goto, work, gate, GateTypeOK, Answered
  <2> HIDE DEF Rest
  <2> QED BY <1>4, <2>1, <2>2 DEF Rendering
<1>6. ASSUME NEW r \in Requests, Undo(r) PROVE GateTypeOK'
  <2>1. render' = render
    BY <1>6 DEF Undo, Goto, work
  <2>2. Rest
    BY <1>1, <1>6 DEF Undo, Goto, Following, DecrSlot, DeleteSlot, work, gate, GateTypeOK, Answered
  <2> HIDE DEF Rest
  <2> QED BY <1>4, <2>1, <2>2 DEF Rendering
<1>7. ASSUME NEW r \in Requests, ReleaseUnsent(r) PROVE GateTypeOK'
  <2>1. render' = render
    BY <1>7, ReleaseUnsentSteps DEF work
  <2>2. Rest
    BY <1>7, ReleaseUnsentSteps DEF work, GateTypeOK, Answered
  <2> HIDE DEF Rest
  <2> QED BY <1>4, <2>1, <2>2 DEF Rendering
<1>8. ASSUME NEW r \in Requests, Send(r) PROVE GateTypeOK'
  <2>1. \A q \in Requests : Rendering(q)' => Rendering(q)
    BY <1>8 DEF Send, Goto, work, Rendering, Active, GateTypeOK
  <2>2. Rest
    BY <1>8 DEF Send, Goto, work, gate, GateTypeOK, Answered
  <2> HIDE DEF Rest
  <2> QED BY <1>4, <2>1, <2>2
<1>9. ASSUME NEW r \in Requests, Start(r) PROVE GateTypeOK'
  <2>1. Rest
    BY <1>9 DEF Start, Turn, Following, GateTypeOK, Active
  <2>2. {q \in Requests : Rendering(q)'} = {q \in Requests : Rendering(q)} \cup {r} /\ ~Rendering(r)
    BY <1>9 DEF Start, Turn, Following, GateTypeOK, Active, Rendering
  <2>3. Cardinality({q \in Requests : Rendering(q)'}) <= Capacity
    <3>1. Cardinality({q \in Requests : Rendering(q)'}) = Cardinality({q \in Requests : Rendering(q)}) + 1
      BY <2>2, OneRequestMore
    <3>2. Cardinality({q \in Requests : Rendering(q)}) < Capacity /\ Cardinality({q \in Requests : Rendering(q)}) \in Nat
      BY <1>9, MoreRequests DEF Start
    <3> QED BY <3>1, <3>2
  <2> HIDE DEF Rest
  <2> QED BY <1>3, <2>1, <2>3
<1>10. ASSUME NEW r \in Requests, Dequeue(r) \/ Finish(r) PROVE GateTypeOK'
  <2>1. \A q \in Requests : Rendering(q)' => Rendering(q)
    BY <1>10 DEF Dequeue, Finish, Turn, Rendering, Active, GateTypeOK
  <2>2. Rest
    BY <1>10 DEF Dequeue, Finish, Notify, Silent, Turn, gate, GateTypeOK, Active
  <2> HIDE DEF Rest
  <2> QED BY <1>4, <2>1, <2>2
<1>11. ASSUME NEW r \in Requests, Release(r) PROVE GateTypeOK'
  <2>1. \A q \in Requests : Rendering(q)' => Rendering(q)
    BY <1>11, ReleaseSteps DEF Rendering, Active, GateTypeOK
  <2>2. Rest
    BY <1>1, <1>11, ReleaseSteps DEF GateTypeOK, Active
  <2> HIDE DEF Rest
  <2> QED BY <1>4, <2>1, <2>2
<1>12. ASSUME NEW r \in Requests, After(r) PROVE GateTypeOK'
  <2>1. \A q \in Requests : Rendering(q)' => Rendering(q)
    BY <1>12 DEF After, Rendering, Active, GateTypeOK
  <2>2. ending[r] = "again" => retries[r] + 1 \in 0..MaxRetries
    BY DEF Telling, Tells, GateTypeOK
  <2>3. Rest
    BY <1>12, <2>2 DEF After, Notify, Silent, gate, GateTypeOK, Ended
  <2> HIDE DEF Rest
  <2> QED BY <1>4, <2>1, <2>3
<1>13. ASSUME NEW r \in Requests, Lose(r) \/ DispatchDies(r) PROVE GateTypeOK'
  <2>1. \A q \in Requests : Rendering(q)' => Rendering(q)
    BY <1>13 DEF Lose, DispatchDies, work, Rendering, Active, GateTypeOK
  <2>2. Rest
    BY <1>13 DEF Lose, DispatchDies, work, gate, GateTypeOK, Answered
  <2> HIDE DEF Rest
  <2> QED BY <1>4, <2>1, <2>2
<1>14. ASSUME (\E a \in Users : SlotExpires(a)) \/ (\E k \in Keys : LockExpires(k)) \/ UNCHANGED gateVars
       PROVE  GateTypeOK'
  <2>1. render' = render
    BY <1>14 DEF SlotExpires, LockExpires, gateVars, work
  <2>2. Rest
    BY <1>14 DEF SlotExpires, LockExpires, gateVars, work, gate, GateTypeOK
  <2> HIDE DEF Rest
  <2> QED BY <1>4, <2>1, <2>2 DEF Rendering
<1> QED BY <1>5, <1>6, <1>7, <1>8, <1>9, <1>10, <1>11, <1>12, <1>13, <1>14 DEF GateNext, Dispatching, Render

-----------------------------------------------------------------------------
(* A task begins only with the message that its dispatch sends.              *)
LEMMA NextPlaced == ASSUME GateTypeOK, Placed, [GateNext]_gateVars PROVE Placed'
<1>1. failures' = 0 => failures = 0
  BY FaultsCounted DEF GateTypeOK
<1>2. /\ \A r \in Requests : render[r] # "none" => at[r] \in {"mark", "sent", "died"}
      /\ failures = 0 => \A r \in Requests : at[r] \notin {"release", "delete", "unlock"}
  BY DEF Placed
<1>3. ASSUME NEW r \in Requests, ReadQueue(r) \/ IncrSlot(r) \/ ExpireSlot(r) \/ LockScript(r) \/ Undo(r) \/ Mark(r)
      PROVE  Placed'
  <2>1. /\ render' = render
        /\ \E pc \in {"refused", "slot", "lock", "expire", "expireOver", "undo", "undoDelete", "send", "sent"} :
             at' = [at EXCEPT ![r] = pc] /\ (pc # "sent" => at[r] \notin {"mark", "sent", "died"})
    BY <1>3 DEF ReadQueue, IncrSlot, ExpireSlot, LockScript, Undo, Mark, Goto, Following, work
  <2> QED BY <1>1, <1>2, <2>1 DEF Placed, GateTypeOK
<1>4. ASSUME NEW r \in Requests, Send(r) PROVE Placed'
  <2>1. \/ failures' = failures /\ render' = [render EXCEPT ![r] = "waiting"] /\ at' = [at EXCEPT ![r] = "mark"]
        \/ failures' = failures + 1 /\ render' = render /\ at' = [at EXCEPT ![r] = "release"] /\ at[r] = "send"
    BY <1>4 DEF Send, Goto, Works, Fails, work
  <2>2. failures' = failures + 1 => failures' # 0
    BY DEF GateTypeOK
  <2> QED BY <1>1, <1>2, <2>1, <2>2 DEF Placed, GateTypeOK
<1>5. ASSUME NEW r \in Requests, ReleaseUnsent(r) PROVE Placed'
  <2>1. failures # 0 /\ render[r] = "none"
    BY <1>2, <1>5, ReleaseUnsentSteps DEF GateTypeOK
  <2> QED BY <1>1, <1>2, <1>5, <2>1, ReleaseUnsentSteps DEF Placed, GateTypeOK, work
<1>6. ASSUME NEW r \in Requests, Render(r) PROVE Placed'
  <2>1. at' = at /\ render[r] # "none" /\ \A q \in Requests : q # r => render'[q] = render[q]
    <3>1. CASE Release(r)
      BY <3>1, ReleaseSteps DEF GateTypeOK
    <3>2. CASE ~Release(r)
      BY <1>6, <3>2 DEF Render, Start, Dequeue, Finish, After, Turn, GateTypeOK
    <3> QED BY <3>1, <3>2
  <2> QED BY <1>1, <1>2, <2>1 DEF Placed
<1>7. ASSUME NEW r \in Requests, Lose(r) \/ DispatchDies(r) PROVE Placed'
  BY <1>1, <1>2, <1>7 DEF Lose, DispatchDies, Placed, Rendering, Active, GateTypeOK, work, Answered
<1>8. ASSUME (\E a \in Users : SlotExpires(a)) \/ (\E k \in Keys : LockExpires(k)) \/ UNCHANGED gateVars PROVE Placed'
  BY <1>2, <1>8 DEF SlotExpires, LockExpires, gateVars, work, faults, Placed
<1> QED BY <1>3, <1>4, <1>5, <1>6, <1>7, <1>8 DEF GateNext, Dispatching

(* What is told in an attempt depends on how the attempt ended.              *)
LEMMA NextTelling == ASSUME GateTypeOK, Placed, Telling, [GateNext]_gateVars PROVE Telling'
<1>1. losses' = 0 => losses = 0
  BY FaultsCounted DEF GateTypeOK
<1>2. ASSUME UNCHANGED work PROVE Telling'
  BY <1>1, <1>2 DEF Telling, Tells, Heard, work
<1>3. ASSUME NEW r \in Requests, ReadQueue(r) \/ IncrSlot(r) \/ ExpireSlot(r) \/ LockScript(r) \/ Undo(r) \/ Mark(r)
                                 \/ ReleaseUnsent(r) \/ DispatchDies(r)
      PROVE  Telling'
  <2>1. UNCHANGED work
    <3>1. CASE ReleaseUnsent(r)
      BY <3>1, ReleaseUnsentSteps
    <3>2. CASE ~ReleaseUnsent(r)
      BY <1>3, <3>2 DEF ReadQueue, IncrSlot, ExpireSlot, LockScript, Undo, Mark, DispatchDies, Goto
    <3> QED BY <3>1, <3>2
  <2> QED BY <1>2, <2>1
<1>4. ASSUME NEW r \in Requests, Send(r) PROVE Telling'
  <2>1. CASE render' = render
    BY <1>2, <1>4, <2>1 DEF Send, Goto, work
  <2>2. CASE render' # render
    <3>1. render' = [render EXCEPT ![r] = "waiting"] /\ UNCHANGED <<ending, retries, told, unheard>> /\ at[r] = "send"
      BY <1>4, <2>2 DEF Send, Goto, work
    <3>2. render[r] = "none"
      BY <3>1 DEF Placed
    <3> QED BY <1>1, <3>1, <3>2 DEF Telling, Tells, Heard, GateTypeOK
  <2> QED BY <2>1, <2>2
<1>5. ASSUME NEW r \in Requests, Start(r) \/ Dequeue(r) PROVE Telling'
  BY <1>1, <1>5 DEF Start, Dequeue, Turn, Following, Telling, Tells, Heard, GateTypeOK
<1>6. ASSUME NEW r \in Requests, Finish(r) PROVE Telling'
  <2>1. PICK e \in {"ok", "again", "over", "other"} :
          /\ e = "again" => retries[r] < MaxRetries
          /\ ending' = [ending EXCEPT ![r] = e]
          /\ IF e = "over" THEN Notify(r) ELSE Silent
    BY <1>6 DEF Finish
  <2>2. render[r] = "rendering" /\ render' = [render EXCEPT ![r] = "release"] /\ retries' = retries
    BY <1>6 DEF Finish
  <2>3. losses' = 0 => told[r] = 0
    BY <1>1, <2>2 DEF Telling, Tells
  <2>4. Tells(r)'
    BY <2>1, <2>2, <2>3 DEF Tells, Heard, Notify, Silent, GateTypeOK
  <2>5. ASSUME NEW q \in Requests, q # r PROVE Tells(q)'
    BY <1>1, <2>1, <2>2, <2>5 DEF Telling, Tells, Heard, Notify, Silent, GateTypeOK
  <2> QED BY <2>4, <2>5 DEF Telling
<1>7. ASSUME NEW r \in Requests, Release(r) PROVE Telling'
  BY <1>1, <1>7, ReleaseSteps DEF Telling, Tells, Heard, GateTypeOK
<1>8. ASSUME NEW r \in Requests, After(r) PROVE Telling'
  <2>1. /\ render[r] = "after" /\ losses' = losses
        /\ \/ /\ ending[r] = "again" /\ render' = [render EXCEPT ![r] = "waiting"]
              /\ ending' = [ending EXCEPT ![r] = "none"]
              /\ retries' = [retries EXCEPT ![r] = retries[r] + 1] /\ Silent
           \/ /\ ending[r] = "ok" /\ render' = [render EXCEPT ![r] = "done"]
              /\ UNCHANGED <<ending, retries>> /\ Notify(r)
           \/ /\ ending[r] \notin {"ok", "again"} /\ render' = [render EXCEPT ![r] = "failed"]
              /\ UNCHANGED <<ending, retries>> /\ Silent
    BY <1>8 DEF After, Alive
  <2>2. Tells(r)'
    BY <2>1 DEF Telling, Tells, Heard, Notify, Silent, GateTypeOK
  <2>3. ASSUME NEW q \in Requests, q # r PROVE Tells(q)'
    BY <2>1, <2>3 DEF Telling, Tells, Heard, Notify, Silent, GateTypeOK
  <2> QED BY <2>2, <2>3 DEF Telling
<1>9. ASSUME NEW r \in Requests, Lose(r) PROVE Telling'
  <2>1. losses' # 0
    BY <1>9 DEF Lose, GateTypeOK
  <2> QED BY <1>9, <2>1 DEF Lose, Telling, Tells, GateTypeOK
<1>10. ASSUME (\E a \in Users : SlotExpires(a)) \/ (\E k \in Keys : LockExpires(k)) \/ UNCHANGED gateVars PROVE Telling'
  BY <1>2, <1>10 DEF SlotExpires, LockExpires, gateVars
<1> QED BY <1>3, <1>4, <1>5, <1>6, <1>7, <1>8, <1>9, <1>10 DEF GateNext, Dispatching, Render

-----------------------------------------------------------------------------
(* How a step moves the count of an account and those who owe a slot.        *)
Counts(a) ==
  \/ slot'[a] <= 0
  \/ slot'[a] = slot[a] /\ Owing(a) \subseteq Owing(a)'
  \/ slot'[a] = slot[a] - 1 /\ \E r \in Requests : Owing(a) \ {r} \subseteq Owing(a)'
  \/ slot'[a] = slot[a] + 1 /\ Owing(a) \subseteq Owing(a)' /\ \E r \in Requests : r \in Owing(a)' /\ r \notin Owing(a)

Owes(r) ==
  \/ at[r] \in {"expire", "expireOver", "lock", "undo", "send", "release"}
  \/ render[r] \in {"waiting", "dequeue", "rendering", "release"}

(* Owing, before a step and after it.                                        *)
LEMMA OwingOwes ==
  ASSUME NEW a
  PROVE  /\ \A r : r \in Owing(a) <=> r \in Requests /\ OwnerOf(r) = a /\ Owes(r)
         /\ \A r : r \in Owing(a)' <=> r \in Requests /\ OwnerOf(r) = a /\ Owes(r)'
BY DEF Owing, Owes, OwnerOf

(* Every step moves a count in one of these ways.                            *)
LEMMA NextCounts ==
  ASSUME GateTypeOK, Placed, [GateNext]_gateVars, failures' = 0, deaths' = 0, NEW a \in Users
  PROVE  Counts(a)
<1>1. failures = 0 /\ deaths = 0 /\ failures' = failures /\ deaths' = deaths /\ failures + 1 # 0
      /\ deaths + 1 # 0
  BY FaultsCounted DEF GateTypeOK
<1>2. ASSUME slot' = slot, \A r \in Requests : Owes(r) => Owes(r)' PROVE Counts(a)
  BY <1>2, OwingOwes DEF Counts
<1>3. ASSUME NEW r \in Requests, \A q \in Requests : q # r /\ Owes(q) => Owes(q)',
             slot' = [slot EXCEPT ![OwnerOf(r)] = slot[OwnerOf(r)] - 1]
      PROVE  Counts(a)
  <2>1. CASE OwnerOf(r) = a
    <3>1. slot'[a] = slot[a] - 1
      BY <1>3, <2>1 DEF GateTypeOK
    <3>2. Owing(a) \ {r} \subseteq Owing(a)'
      BY <1>3, OwingOwes
    <3> QED BY <3>1, <3>2 DEF Counts
  <2>2. CASE OwnerOf(r) # a
    <3>1. slot'[a] = slot[a]
      BY <1>3, <2>2 DEF GateTypeOK
    <3>2. Owing(a) \subseteq Owing(a)'
      BY <1>3, <2>2, OwingOwes
    <3> QED BY <3>1, <3>2 DEF Counts
  <2> QED BY <2>1, <2>2
<1>4. ASSUME NEW b \in Users, \A r \in Requests : OwnerOf(r) # b /\ Owes(r) => Owes(r)',
             slot' = [slot EXCEPT ![b] = 0]
      PROVE  Counts(a)
  <2>1. CASE b = a
    BY <1>4, <2>1 DEF Counts, GateTypeOK
  <2>2. CASE b # a
    <3>1. slot'[a] = slot[a] /\ Owing(a) \subseteq Owing(a)'
      BY <1>4, <2>2, OwingOwes DEF GateTypeOK
    <3> QED BY <3>1 DEF Counts
  <2> QED BY <2>1, <2>2
<1>5. \A r \in Requests : OwnerOf(r) \in Users
  BY DEF OwnerOf
<1>6. ASSUME NEW r \in Requests, IncrSlot(r) PROVE Counts(a)
  <2>1. /\ at[r] = "slot" /\ render' = render /\ slot' = [slot EXCEPT ![OwnerOf(r)] = slot[OwnerOf(r)] + 1]
        /\ \E pc \in {"expire", "expireOver"} : at' = [at EXCEPT ![r] = pc]
    BY <1>1, <1>6 DEF IncrSlot, Goto, Works, Fails, work
  <2>2. render[r] = "none"
    BY <2>1 DEF Placed
  <2>3. Owes(r)' /\ ~Owes(r) /\ \A q \in Requests : Owes(q) => Owes(q)'
    BY <2>1, <2>2 DEF Owes, GateTypeOK
  <2>4. CASE OwnerOf(r) = a
    <3>1. slot'[a] = slot[a] + 1
      BY <2>1, <2>4 DEF GateTypeOK
    <3>2. r \in Owing(a)' /\ r \notin Owing(a) /\ Owing(a) \subseteq Owing(a)'
      BY <2>3, <2>4, OwingOwes
    <3> QED BY <3>1, <3>2 DEF Counts
  <2>5. CASE OwnerOf(r) # a
    <3>1. slot'[a] = slot[a] /\ Owing(a) \subseteq Owing(a)'
      BY <2>1, <2>3, <2>5, OwingOwes DEF GateTypeOK
    <3> QED BY <3>1 DEF Counts
  <2> QED BY <2>4, <2>5
<1>7. ASSUME NEW r \in Requests, ReadQueue(r) \/ ExpireSlot(r) \/ LockScript(r) \/ Mark(r) PROVE Counts(a)
  <2>1. /\ render' = render /\ slot' = slot
        /\ \E pc \in {"refused", "slot", "lock", "undo", "send", "sent"} :
             at' = [at EXCEPT ![r] = pc] /\ (pc \in {"refused", "slot", "sent"} => at[r] \in {"new", "mark"})
    BY <1>7 DEF ReadQueue, ExpireSlot, LockScript, Mark, Goto, work, gate
  <2>2. \A q \in Requests : Owes(q) => Owes(q)'
    BY <2>1 DEF Owes, GateTypeOK
  <2> QED BY <1>2, <2>1, <2>2
<1>8. ASSUME NEW r \in Requests, Undo(r) PROVE Counts(a)
  <2>1. render' = render /\ \A q \in Requests : q # r => at'[q] = at[q]
    BY <1>8 DEF Undo, Goto, work, GateTypeOK
  <2>2. \A q \in Requests : q # r /\ Owes(q) => Owes(q)'
    BY <2>1 DEF Owes
  <2>3. CASE at[r] = "undo"
    <3>1. slot' = [slot EXCEPT ![OwnerOf(r)] = slot[OwnerOf(r)] - 1]
      BY <1>1, <1>8, <2>3 DEF Undo, DecrSlot, Fails
    <3> QED BY <1>3, <2>2, <3>1
  <2>4. CASE at[r] = "undoDelete"
    <3>1. slot' = [slot EXCEPT ![OwnerOf(r)] = 0]
      BY <1>1, <1>8, <2>4 DEF Undo, DeleteSlot, Fails
    <3> QED BY <1>4, <1>5, <2>2, <3>1
  <2> QED BY <1>8, <2>3, <2>4 DEF Undo
<1>9. ASSUME NEW r \in Requests, Send(r) PROVE Counts(a)
  <2>1. slot' = slot /\ at' = [at EXCEPT ![r] = "mark"] /\ render' = [render EXCEPT ![r] = "waiting"]
    BY <1>1, <1>9 DEF Send, gate, Fails
  <2>2. \A q \in Requests : Owes(q) => Owes(q)'
    BY <2>1 DEF Owes, GateTypeOK
  <2> QED BY <1>2, <2>1, <2>2
<1>10. ~\E r \in Requests : ReleaseUnsent(r)
  BY <1>1, ReleaseUnsentSteps DEF Placed
<1>11. ASSUME NEW r \in Requests, Start(r) \/ Dequeue(r) \/ Finish(r) PROVE Counts(a)
  <2>1. /\ slot' = slot /\ at' = at
        /\ \E pc \in {"dequeue", "rendering", "release"} : render' = [render EXCEPT ![r] = pc]
    BY <1>11 DEF Start, Dequeue, Finish, Turn, Following, gate
  <2>2. \A q \in Requests : Owes(q) => Owes(q)'
    BY <2>1 DEF Owes, GateTypeOK
  <2> QED BY <1>2, <2>1, <2>2
<1>12. ASSUME NEW r \in Requests, Release(r) PROVE Counts(a)
  <2>1. at' = at /\ \A q \in Requests : q # r => render'[q] = render[q]
    BY <1>12, ReleaseSteps DEF GateTypeOK
  <2>2. \A q \in Requests : q # r /\ Owes(q) => Owes(q)'
    BY <2>1 DEF Owes
  <2>3. CASE render[r] = "release"
    <3>1. slot' = [slot EXCEPT ![OwnerOf(r)] = slot[OwnerOf(r)] - 1]
      BY <1>1, <1>12, <2>3, ReleaseSteps
    <3> QED BY <1>3, <2>2, <3>1
  <2>4. CASE render[r] = "delete"
    <3>1. slot' = [slot EXCEPT ![OwnerOf(r)] = 0]
      BY <1>1, <1>12, <2>4, ReleaseSteps
    <3> QED BY <1>4, <1>5, <2>2, <3>1
  <2>5. CASE render[r] \notin {"release", "delete"}
    <3>1. slot' = slot /\ render[r] = "unlock" /\ render' = [render EXCEPT ![r] = "after"]
      BY <1>12, <2>5, ReleaseSteps
    <3>2. at[r] \in {"mark", "sent", "died"}
      BY <3>1 DEF Placed
    <3>3. ~Owes(r)
      BY <3>1, <3>2 DEF Owes
    <3> QED BY <1>2, <2>2, <3>1, <3>3
  <2> QED BY <2>3, <2>4, <2>5
<1>13. ASSUME NEW r \in Requests, After(r) \/ Lose(r) PROVE Counts(a)
  <2>1. /\ slot' = slot /\ at' = at /\ render[r] \in Active
        /\ \A q \in Requests : q # r => render'[q] = render[q]
        /\ render'[r] = "waiting" \/ render[r] = "after"
    BY <1>13 DEF After, Lose, gate, GateTypeOK, Rendering, Active
  <2>2. \A q \in Requests : Owes(q) => Owes(q)'
    BY <2>1 DEF Owes
  <2> QED BY <1>2, <2>1, <2>2
<1>14. ~\E r \in Requests : DispatchDies(r)
  BY <1>1 DEF DispatchDies
<1>15. ASSUME NEW b \in Users, SlotExpires(b) PROVE Counts(a)
  <2>1. slot' = [slot EXCEPT ![b] = 0] /\ UNCHANGED <<at, render>>
    BY <1>15 DEF SlotExpires, work
  <2> QED BY <1>4, <2>1 DEF Owes
<1>16. ASSUME (\E k \in Keys : LockExpires(k)) \/ UNCHANGED gateVars PROVE Counts(a)
  <2>1. UNCHANGED <<slot, at, render>>
    BY <1>16 DEF LockExpires, gateVars, gate, work
  <2> QED BY <1>2, <2>1 DEF Owes
<1> QED BY <1>6, <1>7, <1>8, <1>9, <1>10, <1>11, <1>12, <1>13, <1>14, <1>15, <1>16 DEF GateNext, Dispatching, Render

(* Hence a count never exceeds those who owe.                                *)
LEMMA NextSlotBacked == ASSUME GateTypeOK, GateTypeOK', Placed, SlotBacked, [GateNext]_gateVars PROVE SlotBacked'
<1> SUFFICES ASSUME failures' = 0, deaths' = 0, NEW a \in Users
             PROVE  slot'[a] <= Cardinality(Owing(a)')
  BY DEF SlotBacked
<1>1. failures = 0 /\ deaths = 0
  <2>1. failures \in Nat /\ deaths \in Nat
    BY DEF GateTypeOK
  <2>2. failures <= failures' /\ deaths <= deaths'
    BY FaultsCounted
  <2> QED BY <2>1, <2>2
<1>2. slot[a] <= Cardinality(Owing(a)) /\ slot[a] \in Int /\ slot'[a] \in Int
  BY <1>1 DEF SlotBacked, GateTypeOK
<1>3. Owing(a) \in SUBSET Requests /\ Owing(a)' \in SUBSET Requests
  BY OwingOwes
<1>4. Cardinality(Owing(a)) \in Nat /\ Cardinality(Owing(a)') \in Nat
  BY <1>3, MoreRequests
<1>5. Counts(a)
  BY NextCounts
<1>6. CASE slot'[a] <= 0
  BY <1>2, <1>4, <1>6
<1>7. CASE slot'[a] = slot[a] /\ Owing(a) \subseteq Owing(a)'
  BY <1>2, <1>3, <1>4, <1>7, MoreRequests
<1>8. CASE slot'[a] = slot[a] - 1 /\ \E r \in Requests : Owing(a) \ {r} \subseteq Owing(a)'
  <2>1. Cardinality(Owing(a)) - 1 <= Cardinality(Owing(a)')
    BY <1>3, <1>8, OneRequestLess
  <2> QED BY <1>2, <1>4, <1>8, <2>1
<1>9. CASE /\ slot'[a] = slot[a] + 1 /\ Owing(a) \subseteq Owing(a)'
           /\ \E r \in Requests : r \in Owing(a)' /\ r \notin Owing(a)
  <2>1. PICK r \in Requests : r \in Owing(a)' /\ r \notin Owing(a)
    BY <1>9
  <2>2. Owing(a) \cup {r} \in SUBSET Requests /\ Owing(a) \cup {r} \subseteq Owing(a)'
    BY <1>3, <1>9, <2>1
  <2>3. Cardinality(Owing(a) \cup {r}) <= Cardinality(Owing(a)')
    BY <1>3, <2>2, MoreRequests
  <2>4. Cardinality(Owing(a) \cup {r}) = Cardinality(Owing(a)) + 1
    BY <1>3, <2>1, OneRequestMore
  <2> QED BY <1>2, <1>4, <1>9, <2>3, <2>4
<1> QED BY <1>5, <1>6, <1>7, <1>8, <1>9 DEF Counts

-----------------------------------------------------------------------------
(* Retries are only counted up.                                              *)
LEMMA RetriesGrow ==
  ASSUME GateTypeOK, [GateNext]_gateVars, NEW q \in Requests, retries'[q] = 0
  PROVE  retries[q] = 0
<1> SUFFICES ASSUME retries' # retries PROVE retries[q] = 0
  OBVIOUS
<1>1. PICK r \in Requests : After(r)
  <2>1. ASSUME NEW r \in Requests, Dispatching(r) PROVE FALSE
    <3>1. CASE ReleaseUnsent(r)
      BY <3>1, ReleaseUnsentSteps DEF work
    <3>2. CASE ~ReleaseUnsent(r)
      BY <2>1, <3>2 DEF Dispatching, ReadQueue, IncrSlot, ExpireSlot, LockScript, Undo, Send, Mark, Goto, work
    <3> QED BY <3>1, <3>2
  <2>2. ASSUME NEW r \in Requests, Render(r), ~After(r) PROVE FALSE
    <3>1. CASE Release(r)
      BY <3>1, ReleaseSteps
    <3>2. CASE ~Release(r)
      BY <2>2, <3>2 DEF Render, Start, Dequeue, Finish, Turn
    <3> QED BY <3>1, <3>2
  <2>3. ASSUME NEW r \in Requests, Lose(r) \/ DispatchDies(r) PROVE FALSE
    BY <2>3 DEF Lose, DispatchDies, work
  <2>4. ASSUME (\E a \in Users : SlotExpires(a)) \/ (\E k \in Keys : LockExpires(k)) \/ UNCHANGED gateVars PROVE FALSE
    BY <2>4 DEF SlotExpires, LockExpires, gateVars, work
  <2> QED BY <2>1, <2>2, <2>3, <2>4 DEF GateNext
<1>2. retries' = [retries EXCEPT ![r] = retries[r] + 1] /\ retries[r] \in Nat
  BY <1>1 DEF After, GateTypeOK
<1> QED BY <1>2 DEF GateTypeOK

(* How a step moves the locks and those who hold them.                       *)
Same(r) == \A q \in Requests : q # r => (Holder(q)' <=> Holder(q))
Locks(r) == /\ script' = script \cup {Key(r)} /\ Key(r) \notin script
            /\ ~Holder(r) /\ Holder(r)' /\ Same(r)
Unlocks(r) == script' = script \ {Key(r)} /\ Holder(r) /\ ~Holder(r)' /\ Same(r)
HoldersKept == \A q \in Requests : Holder(q) => Holder(q)'
NoNewHolder == \A q \in Requests : Holder(q)' => Holder(q)
Changes ==
  \/ \E r \in Requests : Locks(r) \/ Unlocks(r)
  \/ script' = script /\ (deaths' = 0 => HoldersKept)
       /\ (losses' = 0 /\ (\A q \in Requests : retries'[q] = 0) => NoNewHolder)
  \/ script' \subseteq script /\ HoldersKept /\ expiries' # 0

(* Every step changes the locks in one of these ways.                        *)
LEMMA NextChanges ==
  ASSUME GateTypeOK, GateTypeOK', Placed, [GateNext]_gateVars, failures' = 0
  PROVE  Changes
<1>1. failures = 0 /\ failures' = failures /\ failures + 1 # 0
  <2>1. failures \in Nat /\ failures <= failures'
    BY FaultsCounted DEF GateTypeOK
  <2> QED BY <2>1
<1>2. ASSUME script' = script, \A q \in Requests : Holder(q)' <=> Holder(q) PROVE Changes
  BY <1>2 DEF Changes, HoldersKept, NoNewHolder
<1>3. ASSUME NEW r \in Requests, ReadQueue(r) \/ IncrSlot(r) \/ ExpireSlot(r) \/ Undo(r) \/ Mark(r) PROVE Changes
  <2>1. /\ render' = render /\ script' = script /\ at[r] # "send"
        /\ \E pc \in {"refused", "slot", "lock", "expire", "expireOver", "undo", "undoDelete", "sent"} :
             at' = [at EXCEPT ![r] = pc]
    BY <1>3 DEF ReadQueue, IncrSlot, ExpireSlot, Undo, Mark, Goto, Following, DecrSlot, DeleteSlot, work, gate
  <2>2. \A q \in Requests : Holder(q)' <=> Holder(q)
    BY <2>1 DEF Holder, GateTypeOK
  <2> QED BY <1>2, <2>1, <2>2
<1>4. ASSUME NEW r \in Requests, LockScript(r) PROVE Changes
  <2>1. /\ render' = render /\ at[r] = "lock" /\ script' = script \cup {Key(r)}
        /\ at' = [at EXCEPT ![r] = IF Key(r) \in script THEN "undo" ELSE "send"]
    BY <1>1, <1>4 DEF LockScript, Goto, work, Fails
  <2>2. render[r] = "none"
    BY <2>1 DEF Placed
  <2>3. CASE Key(r) \in script
    <3>1. script' = script /\ \A q \in Requests : Holder(q)' <=> Holder(q)
      BY <2>1, <2>3 DEF Holder, GateTypeOK
    <3> QED BY <1>2, <3>1
  <2>4. CASE Key(r) \notin script
    <3>1. ~Holder(r) /\ Holder(r)' /\ Same(r)
      BY <2>1, <2>2, <2>4 DEF Holder, Same, GateTypeOK
    <3> QED BY <2>1, <2>4, <3>1 DEF Changes, Locks
  <2> QED BY <2>3, <2>4
<1>5. ASSUME NEW r \in Requests, Send(r) PROVE Changes
  <2>1. script' = script /\ at[r] = "send" /\ at' = [at EXCEPT ![r] = "mark"] /\ render' = [render EXCEPT ![r] = "waiting"]
    BY <1>1, <1>5 DEF Send, gate, Fails
  <2>2. \A q \in Requests : Holder(q)' <=> Holder(q)
    BY <2>1 DEF Holder, GateTypeOK
  <2> QED BY <1>2, <2>1, <2>2
<1>6. ~\E r \in Requests : ReleaseUnsent(r)
  BY <1>1, ReleaseUnsentSteps DEF Placed
<1>7. ASSUME NEW r \in Requests, Start(r) \/ Dequeue(r) \/ Finish(r) PROVE Changes
  <2>1. /\ script' = script /\ at' = at /\ render[r] \in {"waiting", "dequeue", "rendering"}
        /\ \E pc \in {"dequeue", "rendering", "release"} : render' = [render EXCEPT ![r] = pc]
    BY <1>7 DEF Start, Dequeue, Finish, Turn, Following, gate
  <2>2. \A q \in Requests : Holder(q)' <=> Holder(q)
    BY <2>1 DEF Holder, GateTypeOK
  <2> QED BY <1>2, <2>1, <2>2
<1>8. ASSUME NEW r \in Requests, Release(r) PROVE Changes
  <2>1. CASE render[r] # "unlock"
    <3>1. /\ script' = script /\ at' = at /\ render[r] \in {"release", "delete"}
          /\ \E pc \in {"delete", "unlock"} : render' = [render EXCEPT ![r] = pc]
      BY <1>8, <2>1, ReleaseSteps
    <3>2. \A q \in Requests : Holder(q)' <=> Holder(q)
      BY <3>1 DEF Holder, GateTypeOK
    <3> QED BY <1>2, <3>1, <3>2
  <2>2. CASE render[r] = "unlock"
    <3>1. at' = at /\ script' = script \ {Key(r)} /\ render' = [render EXCEPT ![r] = "after"]
      BY <1>1, <1>8, <2>2, ReleaseSteps
    <3>2. at[r] # "send"
      BY <2>2 DEF Placed
    <3>3. Holder(r) /\ ~Holder(r)' /\ Same(r)
      BY <2>2, <3>1, <3>2 DEF Holder, Same, GateTypeOK
    <3> QED BY <3>1, <3>3 DEF Changes, Unlocks
  <2> QED BY <2>1, <2>2
<1>9. ASSUME NEW r \in Requests, After(r) PROVE Changes
  <2>1. /\ script' = script /\ at' = at /\ render[r] = "after"
        /\ \A q \in Requests : q # r => render'[q] = render[q]
        /\ ending[r] = "again" => retries'[r] = retries[r] + 1 /\ retries[r] \in Nat
        /\ ending[r] # "again" => render'[r] \in {"done", "failed"}
    BY <1>9 DEF After, gate, GateTypeOK
  <2>2. HoldersKept
    BY <2>1 DEF HoldersKept, Holder
  <2>3. ASSUME \A q \in Requests : retries'[q] = 0 PROVE NoNewHolder
    <3>1. render'[r] \in {"done", "failed"}
      BY <2>1, <2>3
    <3> QED BY <2>1, <3>1 DEF NoNewHolder, Holder
  <2> QED BY <2>1, <2>2, <2>3 DEF Changes
<1>10. ASSUME NEW r \in Requests, Lose(r) PROVE Changes
  <2>1. script' = script /\ at' = at /\ render' = [render EXCEPT ![r] = "waiting"] /\ losses' = losses + 1 /\ losses \in Nat
    BY <1>10 DEF Lose, gate, GateTypeOK
  <2>2. HoldersKept
    BY <2>1 DEF HoldersKept, Holder, GateTypeOK
  <2> QED BY <2>1, <2>2 DEF Changes
<1>11. ASSUME NEW r \in Requests, DispatchDies(r) PROVE Changes
  <2>1. script' = script /\ at' = [at EXCEPT ![r] = "died"] /\ render' = render /\ deaths' = deaths + 1 /\ deaths \in Nat
    BY <1>11 DEF DispatchDies, gate, work, GateTypeOK
  <2>2. NoNewHolder
    BY <2>1 DEF NoNewHolder, Holder, GateTypeOK
  <2> QED BY <2>1, <2>2 DEF Changes
<1>12. ASSUME NEW k \in Keys, LockExpires(k) PROVE Changes
  <2>1. script' \subseteq script /\ UNCHANGED <<at, render>> /\ expiries' = expiries + 1 /\ expiries \in Nat
    BY <1>12 DEF LockExpires, work, GateTypeOK
  <2> QED BY <2>1 DEF Changes, HoldersKept, Holder
<1>13. ASSUME (\E a \in Users : SlotExpires(a)) \/ UNCHANGED gateVars PROVE Changes
  <2>1. UNCHANGED <<script, at, render>>
    BY <1>13 DEF SlotExpires, gateVars, gate, work
  <2> QED BY <1>2, <2>1 DEF Holder
<1> QED BY <1>3, <1>4, <1>5, <1>6, <1>7, <1>8, <1>9, <1>10, <1>11, <1>12, <1>13 DEF GateNext, Dispatching, Render

(* Without failures, whoever has still to remove a lock holds it.            *)
LEMMA HolderBacks ==
  ASSUME Placed, failures = 0
  PROVE  \A r \in Requests : Holder(r) <=>
           \/ at[r] \in {"send", "release", "delete", "unlock"}
           \/ render[r] \in {"waiting"} \cup (Active \ {"after"})
BY DEF Placed, Holder, Active

(* Hence every lock has a holder ...                                         *)
LEMMA NextLockBacked ==
  ASSUME GateTypeOK, GateTypeOK', Placed, Placed', LockBacked, [GateNext]_gateVars
  PROVE  LockBacked'
<1> SUFFICES ASSUME failures' = 0, deaths' = 0, NEW k \in script'
             PROVE  \E r \in Requests : Key(r) = k /\ Holder(r)'
  <2>1. failures' = 0 => \A r \in Requests : Holder(r)' <=>
           \/ at'[r] \in {"send", "release", "delete", "unlock"}
           \/ render'[r] \in {"waiting"} \cup (Active \ {"after"})
    BY DEF Placed, Holder, Active
  <2> QED BY <2>1 DEF LockBacked, Key
<1>1. failures = 0 /\ deaths = 0
  <2>1. failures \in Nat /\ deaths \in Nat /\ failures <= failures' /\ deaths <= deaths'
    BY FaultsCounted DEF GateTypeOK
  <2> QED BY <2>1
<1>2. \A j \in script : \E r \in Requests : Key(r) = j /\ Holder(r)
  BY <1>1, HolderBacks DEF LockBacked
<1>3. Changes
  BY NextChanges
<1>4. ASSUME NEW r \in Requests, Locks(r) PROVE \E q \in Requests : Key(q) = k /\ Holder(q)'
  BY <1>2, <1>4 DEF Locks, Same
<1>5. ASSUME NEW r \in Requests, Unlocks(r) PROVE \E q \in Requests : Key(q) = k /\ Holder(q)'
  <2>1. k \in script /\ k # Key(r)
    BY <1>5 DEF Unlocks
  <2>2. PICK q \in Requests : Key(q) = k /\ Holder(q)
    BY <1>2, <2>1
  <2>3. q # r
    BY <2>1, <2>2
  <2> QED BY <1>5, <2>2, <2>3 DEF Unlocks, Same
<1>6. ASSUME k \in script, HoldersKept PROVE \E q \in Requests : Key(q) = k /\ Holder(q)'
  BY <1>2, <1>6 DEF HoldersKept
<1> QED BY <1>3, <1>4, <1>5, <1>6 DEF Changes

(* ... and, while nothing is disturbed, a single one.                        *)
LEMMA NextAlone ==
  ASSUME GateTypeOK, GateTypeOK', Placed, Alone, [GateNext]_gateVars
  PROVE  Alone'
<1> SUFFICES ASSUME Undisturbed'
             PROVE  \A r \in Requests : Holder(r)' =>
                      /\ Key(r) \in script'
                      /\ \A q \in Requests : Holder(q)' /\ Key(q) = Key(r) => q = r
  BY DEF Alone, Key
<1>1. Undisturbed
  <2>1. /\ failures \in Nat /\ losses \in Nat /\ expiries \in Nat
        /\ failures <= failures' /\ losses <= losses' /\ expiries <= expiries'
    BY FaultsCounted DEF GateTypeOK
  <2>2. \A r \in Requests : retries[r] = 0
    BY RetriesGrow DEF Undisturbed
  <2> QED BY <2>1, <2>2 DEF Undisturbed
<1>2. \A r \in Requests : Holder(r) =>
        /\ Key(r) \in script
        /\ \A q \in Requests : Holder(q) /\ Key(q) = Key(r) => q = r
  BY <1>1 DEF Alone
<1>3. failures' = 0 /\ losses' = 0 /\ expiries' = 0 /\ \A q \in Requests : retries'[q] = 0
  BY DEF Undisturbed
<1>4. Changes
  BY <1>3, NextChanges
<1>5. CASE \E r \in Requests : Locks(r)
  BY <1>2, <1>5 DEF Locks, Same
<1>6. CASE \E r \in Requests : Unlocks(r)
  BY <1>2, <1>6 DEF Unlocks, Same
<1>7. CASE script' = script /\ NoNewHolder
  BY <1>2, <1>7 DEF NoNewHolder
<1> QED BY <1>3, <1>4, <1>5, <1>6, <1>7 DEF Changes

-----------------------------------------------------------------------------
(* The invariant of the gate holds, in every state.                          *)
THEOREM GateInvariance == GateSpec => []GateInv
<1>1. GateInit => GateInv
  BY InitGateInv
<1>2. GateInv /\ [GateNext]_gateVars => GateInv'
  <2> SUFFICES ASSUME GateInv, [GateNext]_gateVars PROVE GateInv'
    OBVIOUS
  <2>1. GateTypeOK' /\ Placed' /\ Telling'
    BY NextTypes, NextPlaced, NextTelling DEF GateInv
  <2>2. SlotBacked' /\ LockBacked' /\ Alone'
    BY <2>1, NextSlotBacked, NextLockBacked, NextAlone DEF GateInv, Backed
  <2> QED BY <2>1, <2>2 DEF GateInv, Backed
<1> QED BY <1>1, <1>2, PTL DEF GateSpec

(* For any requests, accounts and scripts, however many render workers die   *)
(* and keys expire: the types, and that no more renders run than the worker  *)
(* has processes; ...                                                        *)
THEOREM GateTypes == GateSpec => []GateTypeOK
<1>1. GateInv => GateTypeOK
  BY DEF GateInv
<1> QED BY <1>1, GateInvariance, PTL

(* ... while no call fails and no dispatch dies, nothing is counted or       *)
(* locked that nobody will give back; ...                                    *)
THEOREM NothingLeaks == GateSpec => []Backed
<1>1. GateInv => Backed
  BY DEF GateInv
<1> QED BY <1>1, GateInvariance, PTL

(* ... as long as nothing fails, expires or is repeated, a script is not     *)
(* rendered twice at once, although the counters of the gate go wrong; ...   *)
THEOREM OneRenderEach == GateSpec => []SameScriptOnce
<1>1. GateInv => SameScriptOnce
  BY DEF GateInv, Alone, SameScriptOnce, Unfinished, Undisturbed, Holder
<1> QED BY <1>1, GateInvariance, PTL

(* ... and as long as no worker is killed, the end of a render is told at    *)
(* most once and only after its last attempt, and one that is done, or has   *)
(* failed in a way the task tells, has been told unless the notification     *)
(* failed.                                                                   *)
THEOREM EndToldOnce == GateSpec => []ToldOnce
<1>1. GateInv => ToldOnce
  <2> SUFFICES ASSUME GateInv, losses = 0, NEW r \in Requests
               PROVE  /\ told[r] <= 1
                      /\ render[r] \in {"waiting", "dequeue", "rendering"} => told[r] = 0
                      /\ render[r] \in Ended /\ ending[r] # "other" => told[r] = 1 \/ r \in unheard
    BY DEF ToldOnce
  <2> QED BY DEF GateInv, Telling, Tells, Heard, Ended
<1> QED BY <1>1, GateInvariance, PTL
================================================================================
