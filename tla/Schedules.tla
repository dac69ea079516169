------------------------------ MODULE Schedules ------------------------------
(* Scheduled tasks: the scan that celery beat starts every minute, the queue *)
(* it dispatches to, the workers that execute one task each, the Redis       *)
(* execution lock with its watchdog, the periodic cleanup of stale runs, and *)
(* the user's operations on a task.                                          *)
(*                                                                           *)
(* Time is a number of units: Tick lets one pass.  A lifetime of n units set *)
(* between two ticks ends at the n-th tick.  A slot is a moment at which a   *)
(* task's trigger falls; what matters of next_run_at is whether that moment  *)
(* has come, and of last_run_at whether a slot has passed since.             *)
EXTENDS Naturals, FiniteSets

CONSTANTS
  Tasks, Once,        \* the tasks; those with trigger_type = once
  Accounts, Owner,    \* account_id of each task
  Workers, Scanners,  \* executors of schedule_task_execute and of the scan
  None,
  LockTTL,            \* _EXECUTION_LOCK_TTL_SECONDS (8 h)
  Window,             \* runs older than this leave the quota (6 h)
  StaleAfter,         \* SCHEDULE_STALE_RUN_HOURS (8 h)
  Visibility,         \* CELERY_BROKER_VISIBILITY_TIMEOUT (24 h)
  Limit,              \* _MAX_CONCURRENT_RUNS_PER_ACCOUNT
  MaxFailures,        \* _MAX_CONSECUTIVE_FAILURES
  MaxRuns, MaxQueued, MaxCrashes,  \* bounds of the model
  Restorable, Recyclable           \* what users restore and administrators recycle

ASSUME SchedulesAssumption ==
  /\ Once \subseteq Tasks
  /\ Owner \in [Tasks -> Accounts]
  /\ None \notin Tasks
  /\ LockTTL \in Nat \ {0} /\ StaleAfter \in Nat \ {0} /\ Visibility \in Nat \ {0}
  /\ Limit \in Nat \ {0} /\ MaxFailures \in Nat \ {0}
  /\ Window \in Nat /\ MaxRuns \in Nat /\ MaxQueued \in Nat /\ MaxCrashes \in Nat
  /\ Restorable \subseteq Tasks /\ Recyclable \subseteq Accounts

VARIABLES
  task,     \* schedule_task row: where it is, enabled, next_run_at, last_run_at
  queued,   \* copies of the task's message in the broker
  lock,     \* remaining lifetime of schedule_task_lock:<task>; 0 when absent
  runs,     \* schedule_task_run rows in the order of started_at
  begun,    \* how many of them were created
  todo,     \* what a scan read and has not advanced: last_run_at, or "no"
  handing,  \* the task a scan has advanced and not yet dispatched
  job,      \* what each worker is doing, and for how long
  stale,    \* runs the cleanup has read as stale and not yet marked
  recycled, \* accounts in the recycle bin
  crashes   \* failures so far

vars == <<task, queued, lock, runs, begun, todo, handing, job, stale, recycled, crashes>>

RunIds == 1..MaxRuns
Bases == {"never", "current", "passed"}
TaskRows == [place : {"new", "list", "bin"}, enabled : BOOLEAN,
             next : {"none", "future", "due"}, base : Bases]
RunRows == [task : Tasks \cup {None}, status : {"none", "running", "success", "failed"},
            age : 0..StaleAfter + 1]
Holding == {"locked", "running", "failing", "succeeded", "failed", "judging", "archiving"}
Jobs == [pc : {"idle", "checked", "dead"} \cup Holding, task : Tasks \cup {None},
         run : 0..MaxRuns, age : 0..Visibility, unacked : BOOLEAN]
Idle == [pc |-> "idle", task |-> None, run |-> 0, age |-> 0, unacked |-> FALSE]
Taken(t) == [pc |-> "checked", task |-> t, run |-> 0, age |-> 0, unacked |-> TRUE]

Init ==
  /\ task = [t \in Tasks |-> [place |-> "new", enabled |-> TRUE, next |-> "future", base |-> "never"]]
  /\ queued = [t \in Tasks |-> 0]
  /\ lock = [t \in Tasks |-> 0]
  /\ runs = [r \in RunIds |-> [task |-> None, status |-> "none", age |-> 0]]
  /\ begun = 0
  /\ todo = [s \in Scanners |-> [t \in Tasks |-> "no"]]
  /\ handing = [s \in Scanners |-> None]
  /\ job = [w \in Workers |-> Idle]
  /\ stale = {}
  /\ recycled = {}
  /\ crashes = 0

Listed(t) == task[t].place = "list"
Kept(r) == runs[r].task # None /\ Listed(runs[r].task)
Holds(w, t) == job[w].pc \in Holding /\ job[w].task = t
\* The runs of t, the latest n of them.
RunsOf(t) == {r \in RunIds : runs[r].task = t}
\* A run that is over; its age no longer matters.
Closed(row, status) == [row EXCEPT !.status = status, !.age = 0]

Latest(t, n) == {r \in RunsOf(t) : Cardinality({q \in RunsOf(t) : q > r}) < n}

-----------------------------------------------------------------------------
(* Time. *)

\* A moment of the task's trigger comes.
Slot(t) ==
  /\ Listed(t)
  /\ task[t].next = "future" \/ (t \notin Once /\ task[t].base = "current")
  /\ task' = [task EXCEPT ![t].next = IF @ = "future" THEN "due" ELSE @,
                          ![t].base = IF @ = "current" THEN "passed" ELSE @]
  /\ todo' = [s \in Scanners |->
                [todo[s] EXCEPT ![t] = IF @ = "current" THEN "passed" ELSE @]]
  /\ UNCHANGED <<queued, lock, runs, begun, handing, job, stale, recycled, crashes>>

\* One unit passes: locks run out unless the watchdog of a live worker renews them.
Tick ==
  /\ lock' = [t \in Tasks |->
                IF lock[t] = 0 THEN 0
                ELSE IF \E w \in Workers : Holds(w, t) THEN LockTTL ELSE lock[t] - 1]
  /\ runs' = [r \in RunIds |->
                IF runs[r].status = "running" /\ runs[r].age <= StaleAfter
                THEN [runs[r] EXCEPT !.age = @ + 1] ELSE runs[r]]
  /\ job' = [w \in Workers |->
               IF job[w].unacked /\ job[w].age < Visibility
               THEN [job[w] EXCEPT !.age = @ + 1] ELSE job[w]]
  /\ UNCHANGED <<task, queued, begun, todo, handing, stale, recycled, crashes>>

-----------------------------------------------------------------------------
(* The scan. *)

Due(t) == Listed(t) /\ task[t].enabled /\ task[t].next = "due" /\ Owner[t] \notin recycled

Scanned(s) == handing[s] = None /\ \A t \in Tasks : todo[s][t] = "no"

\* Read the due tasks, with last_run_at as it is now.
ScanRead(s) ==
  /\ Scanned(s)
  /\ \E t \in Tasks : Due(t)
  /\ todo' = [todo EXCEPT ![s] = [t \in Tasks |-> IF Due(t) THEN task[t].base ELSE "no"]]
  /\ UNCHANGED <<task, queued, lock, runs, begun, handing, job, stale, recycled, crashes>>

\* The first slot after last_run_at, or after now for a task that never ran.
\* A value equal to the one that was read is not written.
Computed(t, base) ==
  IF t \in Once THEN {"none"}
  ELSE IF base = "passed" THEN {"due", task[t].next} ELSE {"future"}

\* Move next_run_at; the update of a task deleted meanwhile raises and is logged.
Advance(s, t) ==
  /\ handing[s] = None /\ todo[s][t] # "no"
  /\ todo' = [todo EXCEPT ![s][t] = "no"]
  /\ IF Listed(t)
     THEN /\ \E n \in Computed(t, todo[s][t]) : task' = [task EXCEPT ![t].next = n]
          /\ handing' = [handing EXCEPT ![s] = t]
     ELSE UNCHANGED <<task, handing>>
  /\ UNCHANGED <<queued, lock, runs, begun, job, stale, recycled, crashes>>

Dispatch(s) ==
  /\ handing[s] # None /\ queued[handing[s]] < MaxQueued
  /\ queued' = [queued EXCEPT ![handing[s]] = @ + 1]
  /\ handing' = [handing EXCEPT ![s] = None]
  /\ UNCHANGED <<task, lock, runs, begun, todo, job, stale, recycled, crashes>>

\* The broker refuses the message: logged, the scan goes on.
DispatchFails(s) ==
  /\ handing[s] # None /\ crashes < MaxCrashes
  /\ handing' = [handing EXCEPT ![s] = None]
  /\ crashes' = crashes + 1
  /\ UNCHANGED <<task, queued, lock, runs, begun, todo, job, stale, recycled>>

\* The scan dies; its message was acknowledged when it was taken.
ScanLost(s) ==
  /\ ~Scanned(s) /\ crashes < MaxCrashes
  /\ todo' = [todo EXCEPT ![s] = [t \in Tasks |-> "no"]]
  /\ handing' = [handing EXCEPT ![s] = None]
  /\ crashes' = crashes + 1
  /\ UNCHANGED <<task, queued, lock, runs, begun, job, stale, recycled>>

-----------------------------------------------------------------------------
(* A worker. *)

\* Return, and acknowledge the message.  _release_lock is called without the
\* redis_client it expects: the TypeError is logged and the lock stays.
End(w) ==
  /\ job' = [job EXCEPT ![w] = Idle]
  /\ lock' = lock

Counted(a) ==
  {r \in RunIds : Kept(r) /\ Owner[runs[r].task] = a /\ runs[r].status = "running" /\ runs[r].age <= Window}

\* Mutant of Take: also skip a task whose next_run_at has been moved.
TakeDueOnly(w, t) ==
  /\ job[w].pc = "idle" /\ queued[t] > 0
  /\ queued' = [queued EXCEPT ![t] = @ - 1]
  /\ IF Listed(t) /\ task[t].enabled /\ task[t].next = "due"
     THEN job' = [job EXCEPT ![w] = Taken(t)]
     ELSE UNCHANGED job
  /\ UNCHANGED <<task, lock, runs, begun, todo, handing, stale, recycled, crashes>>

\* Take a message; a task that is gone, disabled or over the quota is skipped.
Take(w, t) ==
  /\ job[w].pc = "idle" /\ queued[t] > 0
  /\ queued' = [queued EXCEPT ![t] = @ - 1]
  /\ IF Listed(t) /\ task[t].enabled /\ Cardinality(Counted(Owner[t])) < Limit
     THEN job' = [job EXCEPT ![w] = Taken(t)]
     ELSE UNCHANGED job
  /\ UNCHANGED <<task, lock, runs, begun, todo, handing, stale, recycled, crashes>>

\* Mutant of Lock: SET without NX.
LockAnyway(w) ==
  /\ job[w].pc = "checked"
  /\ lock' = [lock EXCEPT ![job[w].task] = LockTTL]
  /\ job' = [job EXCEPT ![w].pc = "locked"]
  /\ UNCHANGED <<task, queued, runs, begun, todo, handing, stale, recycled, crashes>>

\* SET NX EX; a lock that exists means the task is being executed: skip it.
Lock(w) ==
  /\ job[w].pc = "checked"
  /\ IF lock[job[w].task] = 0
     THEN /\ lock' = [lock EXCEPT ![job[w].task] = LockTTL]
          /\ job' = [job EXCEPT ![w].pc = "locked"]
     ELSE End(w)
  /\ UNCHANGED <<task, queued, runs, begun, todo, handing, stale, recycled, crashes>>

\* Insert the run; for a task deleted meanwhile the foreign key fails.
Begin(w) ==
  /\ job[w].pc = "locked"
  /\ IF Listed(job[w].task)
     THEN /\ begun < MaxRuns
          /\ begun' = begun + 1
          /\ runs' = [runs EXCEPT ![begun + 1] =
                        [task |-> job[w].task, status |-> "running", age |-> 0]]
          /\ job' = [job EXCEPT ![w].pc = "running", ![w].run = begun + 1]
          /\ lock' = lock
     ELSE End(w) /\ UNCHANGED <<runs, begun>>
  /\ UNCHANGED <<task, queued, todo, handing, stale, recycled, crashes>>

\* The agent answered: mark the run.  A run that is gone raises into the except clause.
Succeed(w) ==
  /\ job[w].pc = "running"
  /\ IF Listed(job[w].task)
     THEN /\ runs' = [runs EXCEPT ![job[w].run] = Closed(@, "success")]
          /\ job' = [job EXCEPT ![w].pc = "succeeded"]
     ELSE job' = [job EXCEPT ![w].pc = "failing"] /\ UNCHANGED runs
  /\ UNCHANGED <<task, queued, lock, begun, todo, handing, stale, recycled, crashes>>

\* The agent, or the bookkeeping of its success, raised.
Fail(w) ==
  /\ job[w].pc \in {"running", "failing"}
  /\ IF Listed(job[w].task)
     THEN /\ runs' = [runs EXCEPT ![job[w].run] = Closed(@, "failed")]
          /\ job' = [job EXCEPT ![w].pc = "failed"]
          /\ lock' = lock
     ELSE End(w) /\ UNCHANGED runs
  /\ UNCHANGED <<task, queued, begun, todo, handing, stale, recycled, crashes>>

\* Set last_run_at to now.
FinishTask(w) ==
  /\ job[w].pc \in {"succeeded", "failed"}
  /\ LET t == job[w].task IN
     IF Listed(t)
     THEN /\ task' = [task EXCEPT ![t].base = "current"]
          /\ job' = [job EXCEPT ![w].pc = IF @ = "failed" THEN "judging" ELSE "archiving"]
          /\ lock' = lock
     ELSE /\ IF job[w].pc = "succeeded"
             THEN job' = [job EXCEPT ![w].pc = "failing"] /\ lock' = lock
             ELSE End(w)
          /\ UNCHANGED task
  /\ UNCHANGED <<queued, runs, begun, todo, handing, stale, recycled, crashes>>

\* Pause a task whose latest runs all failed.
Judge(w) ==
  /\ job[w].pc = "judging"
  /\ LET t == job[w].task IN
     task' = IF /\ Listed(t)
                /\ Cardinality(Latest(t, MaxFailures)) = MaxFailures
                /\ \A r \in Latest(t, MaxFailures) : runs[r].status = "failed"
             THEN [task EXCEPT ![t].enabled = FALSE] ELSE task
  /\ job' = [job EXCEPT ![w].pc = "archiving"]
  /\ UNCHANGED <<queued, lock, runs, begun, todo, handing, stale, recycled, crashes>>

\* Mutant of Archive: the task stays in the list.
ArchiveNever(w) ==
  /\ job[w].pc = "archiving"
  /\ End(w)
  /\ UNCHANGED <<task, queued, runs, begun, todo, handing, stale, recycled, crashes>>

\* A task that runs once goes to the recycle bin with its runs.
Archive(w) ==
  /\ job[w].pc = "archiving"
  /\ LET t == job[w].task IN
     task' = IF t \in Once /\ Listed(t) THEN [task EXCEPT ![t].place = "bin"] ELSE task
  /\ End(w)
  /\ UNCHANGED <<queued, runs, begun, todo, handing, stale, recycled, crashes>>

-----------------------------------------------------------------------------
(* Failures of a worker, and the broker's redelivery. *)

Busy(w) == job[w].pc \notin {"idle", "dead"}

\* Any other exception of the archiving is logged: the task stays in the list.
ArchiveFails(w) ==
  /\ job[w].pc = "archiving" /\ job[w].task \in Once /\ crashes < MaxCrashes
  /\ End(w)
  /\ crashes' = crashes + 1
  /\ UNCHANGED <<task, queued, runs, begun, todo, handing, stale, recycled>>

\* The process dies: reject_on_worker_lost requeues the message at once.
ProcessLost(w) ==
  /\ Busy(w) /\ crashes < MaxCrashes
  /\ queued[job[w].task] < MaxQueued
  /\ queued' = [queued EXCEPT ![job[w].task] = IF job[w].unacked THEN @ + 1 ELSE @]
  /\ job' = [job EXCEPT ![w] = Idle]
  /\ crashes' = crashes + 1
  /\ UNCHANGED <<task, lock, runs, begun, todo, handing, stale, recycled>>

\* The host dies: the message stays unacknowledged until the visibility timeout.
HostLost(w) ==
  /\ Busy(w) /\ crashes < MaxCrashes
  /\ job' = [job EXCEPT ![w] = IF @.unacked THEN [@ EXCEPT !.pc = "dead"] ELSE Idle]
  /\ crashes' = crashes + 1
  /\ UNCHANGED <<task, queued, lock, runs, begun, todo, handing, stale, recycled>>

\* The visibility timeout: the message is delivered again, also when the worker still runs.
Redeliver(w) ==
  /\ job[w].unacked /\ job[w].age = Visibility
  /\ queued[job[w].task] < MaxQueued
  /\ queued' = [queued EXCEPT ![job[w].task] = @ + 1]
  /\ job' = [job EXCEPT ![w] = IF @.pc = "dead" THEN Idle ELSE [@ EXCEPT !.unacked = FALSE, !.age = 0]]
  /\ UNCHANGED <<task, lock, runs, begun, todo, handing, stale, recycled, crashes>>

-----------------------------------------------------------------------------
(* The cleanup of stale runs: read them, then mark each one by its id. *)

IsStale(r) == Kept(r) /\ runs[r].status = "running" /\ runs[r].age > StaleAfter

CleanupRead ==
  /\ stale = {}
  /\ \E r \in RunIds : IsStale(r)
  /\ stale' = {r \in RunIds : IsStale(r)}
  /\ UNCHANGED <<task, queued, lock, runs, begun, todo, handing, job, recycled, crashes>>

\* Mutant of CleanupWrite: the marks are rolled back.
CleanupForgets ==
  /\ stale # {}
  /\ stale' = {}
  /\ UNCHANGED <<task, queued, lock, runs, begun, todo, handing, job, recycled, crashes>>

CleanupWrite ==
  /\ stale # {}
  /\ runs' = [r \in RunIds |->
                IF r \in stale /\ Kept(r) THEN Closed(runs[r], "failed") ELSE runs[r]]
  /\ stale' = {}
  /\ UNCHANGED <<task, queued, lock, begun, todo, handing, job, recycled, crashes>>

-----------------------------------------------------------------------------
(* The user and the administrator. *)

Create(t) ==
  /\ task[t].place = "new"
  /\ \E n \in IF t \in Once THEN {"future", "due"} ELSE {"future"} :
       task' = [task EXCEPT ![t].place = "list", ![t].next = n]

Enable(t, on) ==
  /\ Listed(t) /\ task[t].enabled # on
  /\ task' = [task EXCEPT ![t].enabled = on]

\* A new trigger starts from now.
Reschedule(t) ==
  /\ Listed(t) /\ t \notin Once
  /\ task' = [task EXCEPT ![t].next = "future"]

Delete(t) == Listed(t) /\ task' = [task EXCEPT ![t].place = "bin"]

Restore(t) ==
  /\ t \in Restorable /\ task[t].place = "bin"
  /\ task' = [task EXCEPT ![t].place = "list"]

UserStep(t) ==
  /\ Create(t) \/ (\E on \in BOOLEAN : Enable(t, on)) \/ Reschedule(t) \/ Delete(t) \/ Restore(t)
  /\ UNCHANGED <<queued, lock, runs, begun, todo, handing, job, stale, recycled, crashes>>

Recycle(a) ==
  /\ a \in Recyclable
  /\ recycled' = IF a \in recycled THEN recycled \ {a} ELSE recycled \cup {a}
  /\ UNCHANGED <<task, queued, lock, runs, begun, todo, handing, job, stale, crashes>>

-----------------------------------------------------------------------------
ScanStep(s) == ScanRead(s) \/ (\E t \in Tasks : Advance(s, t)) \/ Dispatch(s)

WorkStep(w) ==
  \/ \E t \in Tasks : Take(w, t)
  \/ Lock(w) \/ Begin(w) \/ Succeed(w) \/ Fail(w) \/ FinishTask(w) \/ Judge(w) \/ Archive(w)

Failure ==
  \/ \E s \in Scanners : DispatchFails(s) \/ ScanLost(s)
  \/ \E w \in Workers : ArchiveFails(w) \/ ProcessLost(w) \/ HostLost(w)

Next ==
  \/ Tick \/ CleanupRead \/ CleanupWrite \/ Failure
  \/ \E t \in Tasks : Slot(t) \/ UserStep(t)
  \/ \E s \in Scanners : ScanStep(s)
  \/ \E w \in Workers : WorkStep(w) \/ Redeliver(w)
  \/ \E a \in Accounts : Recycle(a)

Spec == Init /\ [][Next]_vars

\* Time passes, beat starts the scan and the cleanup again and again, and a
\* worker that is not lost takes its next step.
LiveSpec ==
  /\ Spec
  /\ WF_vars(Tick) /\ WF_vars(CleanupRead) /\ WF_vars(CleanupWrite)
  /\ \A s \in Scanners : WF_vars(ScanStep(s))
  /\ \A w \in Workers : WF_vars(WorkStep(w)) /\ WF_vars(Redeliver(w))

-----------------------------------------------------------------------------
(* Properties. *)

\* Every variable has its type; at most one run per started execution.
TypeOK ==
  /\ task \in [Tasks -> TaskRows]
  /\ queued \in [Tasks -> 0..MaxQueued]
  /\ lock \in [Tasks -> 0..LockTTL]
  /\ runs \in [RunIds -> RunRows]
  /\ begun \in 0..MaxRuns
  /\ todo \in [Scanners -> [Tasks -> {"no"} \cup Bases]]
  /\ handing \in [Scanners -> Tasks \cup {None}]
  /\ job \in [Workers -> Jobs]
  /\ \A w \in Workers : Busy(w) => job[w].task \in Tasks
  /\ stale \in SUBSET RunIds
  /\ recycled \in SUBSET Accounts
  /\ crashes \in 0..MaxCrashes

\* 不重入: two live workers never execute one task at the same time, although
\* its message is dispatched again while it runs and redelivered by the broker.
NoOverlap ==
  \A v, w \in Workers : \A t \in Tasks : Holds(v, t) /\ Holds(w, t) => v = w

\* As long as nothing failed, a task that runs once is executed at most once,
\* even when overlapping scans or the visibility timeout put its message in the
\* queue twice, unless its user brings it back from the recycle bin.
OnceNeverRepeats ==
  crashes = 0 => \A t \in Once \ Restorable : Cardinality(RunsOf(t)) <= 1

\* A run that a worker left running is closed in the end, by that worker or by
\* the cleanup, unless its task is in the recycle bin.
RunsClosed == \A r \in RunIds : runs[r].status = "running" ~> (runs[r].status # "running" \/ ~Kept(r))

\* As long as nothing failed, a task that runs once and is due is executed and
\* archived, unless the user pauses or deletes it first.
OnceDelivered ==
  \A t \in Once : (crashes = 0 /\ Listed(t) /\ task[t].enabled /\ task[t].next = "due")
                    ~> (crashes > 0 \/ ~Listed(t) \/ ~task[t].enabled \/ Owner[t] \in recycled)

\* A message in the queue of a task that runs once, which no worker executes, is
\* executed to its end (last_run_at is set), also after a worker was lost with it.
MessageServed ==
  \A t \in Once :
    (Listed(t) /\ task[t].enabled /\ queued[t] > 0 /\ \A w \in Workers : ~Holds(w, t))
      ~> (task[t].base # "never" \/ ~Listed(t) \/ ~task[t].enabled)

\* The lock of a task exists only while a worker executes the task.
LockReleased == \A t \in Tasks : lock[t] > 0 => \E w \in Workers : Holds(w, t)

\* Advancing a task moves it out of the next scan.
AdvanceMoves ==
  [][\A s \in Scanners, t \in Tasks : Advance(s, t) => ~Listed(t) \/ task'[t].next # "due"]_vars

\* The cleanup marks the runs of lost workers, not of workers that still run.
ZombiesOnly ==
  [][CleanupWrite => \A r \in stale, w \in Workers : job[w].run = r => job[w].pc # "running"]_vars

\* A run that succeeded stays a success.
SuccessKept ==
  [][\A r \in RunIds : runs[r].status = "success" => runs'[r].status = "success"]_vars

\* An account never has more counted runs than its quota.
WithinLimit == \A a \in Accounts : Cardinality(Counted(a)) <= Limit

\* No run begins for an account in the recycle bin.
NoRunWhileRecycled ==
  [][\A w \in Workers : Begin(w) => Owner[job[w].task] \notin recycled]_vars
=============================================================================
