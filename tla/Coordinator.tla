----------------------------- MODULE Coordinator -----------------------------
(***************************************************************************)
(* The execution of a plan of subtasks (ExecutionCoordinatorService) and   *)
(* the registry its progress is read from (SubtaskRegistryService): waves  *)
(* of worker threads, retries, soft timeouts that leave their thread       *)
(* running, dependencies that fail, the user's cancellation, the repaired  *)
(* plan, and a process that dies and is resumed from the registry.         *)
(*                                                                         *)
(* A subtask is its execution order, a number; what an agent does in an    *)
(* attempt is its outcome.                                                 *)
(***************************************************************************)
EXTENDS Naturals, FiniteSets

CONSTANTS
    Items,        \* the subtasks, numbered in execution order
    Unknown,      \* a task_id that a plan names as a dependency but does not hold
    Plans,        \* the dependencies plans may have
    Place,        \* where a dependency stands in the depends_on of a subtask
    Modes,        \* the execution modes: "single", "parallel", "sequential"
    Retries,      \* retry_count of every subtask
    Timed,        \* the subtasks with timeout_seconds > 0
    MaxLost,      \* bound: registry writes that Redis refuses
    MaxCrashes    \* bound: deaths of the process

ASSUME CoordinatorAssumption ==
    /\ Items \subseteq Nat /\ Items # {} /\ IsFiniteSet(Items)
    /\ Unknown \notin Items
    /\ Plans \subseteq [Items -> SUBSET (Items \cup {Unknown})]
    /\ Place \in [Items -> [Items -> Nat]]
    /\ Modes \subseteq {"single", "parallel", "sequential"}
    /\ Retries \in Nat /\ MaxLost \in Nat /\ MaxCrashes \in Nat
    /\ Timed \subseteq Items

VARIABLES
    plan,       \* the dependencies of the plan that is being executed
    mode,       \* its execution mode
    repaired,   \* has the plan been replaced by the repairer's?
    pc,         \* where execute() is
    result,     \* results_by_id
    fallback,   \* are the results replaced by the one fallback result?
    wave,       \* the subtasks handed to worker threads
    worker,     \* the attempt each of them is in
    abandoned,  \* the threads left behind by timeouts: the row each has read
    store,      \* where register_plan put the rows: "redis", or the process's "memory"
    registry,   \* the status of each subtask's row
    cancelled,  \* the cancel token
    lost, crashes,
    finished    \* the subtasks whose success the registry holds (history)

vars == <<plan, mode, repaired, pc, result, fallback, wave, worker, abandoned, store, registry,
          cancelled, lost, crashes, finished>>
run == <<plan, mode, repaired>>

Outcomes == {"ok", "blocked", "failed"}
\* OrchestratedAgentResult.failed: errors, or the agent's own "blocked".
FailedResult == {"blocked", "failed", "skipped"}
\* The rows of "blocked" say completed, without errors, like those of "completed":
\* the two are told apart here only.
Statuses == {"absent", "pending", "running", "completed", "blocked", "failed"}
\* "taken": the result a resumed execution makes of a "blocked" row.
Results == Outcomes \cup {"skipped", "taken", "none"}
Attempts == 1 .. (Retries + 1)
Threads == {"none", "idle"} \cup Statuses

NoResults == [i \in Items |-> "none"]
NoWorkers == [i \in Items |-> [at |-> "queued", n |-> 0, out |-> "none"]]
NoThreads == [i \in Items |-> [k \in Attempts |-> "none"]]

Init == /\ plan \in Plans /\ mode \in Modes /\ repaired = FALSE
        /\ pc = "new"
        /\ result = NoResults /\ fallback = FALSE /\ wave = {} /\ worker = NoWorkers
        /\ abandoned = NoThreads
        /\ store = "redis" /\ registry = [i \in Items |-> "absent"]
        /\ cancelled = FALSE
        /\ lost = 0 /\ crashes = 0 /\ finished = {}

Smallest(S) == CHOOSE x \in S : \A y \in S : x <= y
Listed(i, S) == CHOOSE x \in S : \A y \in S : Place[i][x] <= Place[i][y]
Left == {i \in Items : result[i] = "none"}
Done == {i \in Items : result[i] # "none"}
FailedIds == {i \in Items : result[i] \in FailedResult}

------------------------------------------------------------------------------
(* Starting, and resuming after the process has died *)

\* register_plan: in Redis, or in memory when Redis refuses.
Register ==
    /\ registry' = [i \in Items |-> "pending"]
    /\ \/ store' = "redis" /\ UNCHANGED lost
       \/ store' = "memory" /\ lost < MaxLost /\ lost' = lost + 1

\* execute(): the plan is registered before anything runs.
Begin ==
    /\ pc = "new" /\ pc' = "loop"
    /\ Register
    /\ UNCHANGED <<run, fallback, result, wave, worker, abandoned, cancelled, crashes, finished>>

\* Mutant of Resumed: only failures are taken from the snapshot.
ResumedFailures(status) ==
    CASE status = "failed" -> "failed" [] status = "blocked" -> "taken" [] OTHER -> "none"

\* The result a resumed execution starts from: what has not ended is run anew,
\* and what is recorded without errors is no failure to it, blocked or not.
Resumed(status) == CASE status = "failed" -> "failed"
                     [] status = "completed" -> "ok"
                     [] status = "blocked" -> "taken"
                     [] OTHER -> "none"

\* execute(resume=True): the results are read back from the snapshot; when the
\* rows have expired, or were in the memory of the process that died, the plan
\* is registered again.
Resume ==
    /\ pc = "lost" /\ pc' = "loop"
    /\ \/ /\ store = "redis"
          /\ result' = [i \in Items |-> Resumed(registry[i])]
          /\ UNCHANGED <<store, registry, lost, finished>>
       \/ Register /\ finished' = {} /\ UNCHANGED result
    /\ UNCHANGED <<run, fallback, wave, worker, abandoned, cancelled, crashes>>

------------------------------------------------------------------------------
(* Choosing what runs next *)

\* Mutant of SplitReady: dependents of what failed are not set apart.
SplitUnskipped ==
    LET ready == {i \in Left : plan[i] \subseteq Done}
    IN  /\ mode = "parallel" /\ UNCHANGED result
        /\ wave' = IF ready # {} THEN ready ELSE Left

\* Mutant of SplitReady: no fallback, so a cycle waits for itself.
SplitNoFallback ==
    LET skipped == {i \in Left : plan[i] \cap FailedIds # {}}
    IN  /\ mode = "parallel"
        /\ result' = [i \in Items |-> IF i \in skipped THEN "skipped" ELSE result[i]]
        /\ wave' = {i \in Left \ skipped : plan[i] \subseteq Done}

\* _split_ready, then the fallback of _run_parallel: when nothing is ready,
\* whatever is left after the skipped ones runs at once.
SplitReady ==
    LET skipped == {i \in Left : plan[i] \cap FailedIds # {}}
        ready   == {i \in Left \ skipped : plan[i] \subseteq Done}
        rest    == Left \ (skipped \cup ready)
    IN  /\ mode = "parallel"
        /\ result' = [i \in Items |-> IF i \in skipped THEN "skipped" ELSE result[i]]
        /\ wave' = IF ready # {} THEN ready ELSE rest

\* _topological_sort: depth first from the smallest number, dependencies first, in
\* the order in which they are listed; a dependency that is being visited or is not
\* in the plan is passed over.
\* at[1] is visited next, below the subtasks at[2].
Deepest(resolved) ==
    LET down[at \in Items \X SUBSET Items] ==
            LET visiting == at[2] \cup {at[1]}
                next     == (plan[at[1]] \cap Items) \ (resolved \cup visiting)
            IN  IF next = {} THEN at[1] ELSE down[<<Listed(at[1], next), visiting>>]
    IN  down[<<Smallest(Items \ resolved), {}>>]

InOrder ==
    LET first[resolved \in {r \in SUBSET Items : ~(Left \subseteq r)}] ==
            LET i == Deepest(resolved)
            IN  IF i \in Left THEN i ELSE first[resolved \cup {i}]
    IN  first[{}]

\* Mutant of NextInLine: by execution_order alone.
NextByOrder ==
    /\ mode = "sequential"
    /\ \E i \in Left :
          /\ i = Smallest(Left)
          /\ IF plan[i] \cap FailedIds # {}
             THEN result' = [result EXCEPT ![i] = "skipped"] /\ UNCHANGED wave
             ELSE wave' = {i} /\ UNCHANGED result

NextInLine ==
    /\ mode = "sequential"
    /\ \E i \in Left :
          /\ i = InOrder
          /\ IF plan[i] \cap FailedIds # {}
             THEN result' = [result EXCEPT ![i] = "skipped"] /\ UNCHANGED wave
             ELSE wave' = {i} /\ UNCHANGED result

\* The head of the loop of _run_parallel and _run_sequential: the only place
\* where the token is read.
Choose ==
    /\ pc = "loop" /\ Left # {} /\ ~cancelled
    /\ SplitReady \/ NextInLine
    /\ pc' = IF wave' = {} THEN "loop" ELSE "wave"
    /\ UNCHANGED <<store, run, fallback, worker, abandoned, registry, cancelled, lost, crashes, finished>>

\* A single-shot mode runs the first subtask, whatever it depends on and
\* whatever the token says.
ChooseOnly ==
    /\ pc = "loop" /\ mode = "single" /\ pc' = "wave"
    /\ \E i \in Left : i = Smallest(Items) /\ wave' = {i}
    /\ UNCHANGED <<store, run, fallback, result, worker, abandoned, registry, cancelled, lost, crashes, finished>>

\* _apply_global_fallback: when every result is a failure, one result stands for
\* all; the single subtask's own result is returned as it is.
GlobalFallback == fallback' = (mode # "single" /\ Done # {} /\ Done = FailedIds)

\* Mutant of Gather: the loop ends when nothing is ready.
GatherReady ==
    /\ pc = "loop" /\ pc' = "gathered"
    /\ cancelled \/ \A i \in Left : plan[i] \cap FailedIds = {} /\ ~(plan[i] \subseteq Done)
    /\ GlobalFallback
    /\ UNCHANGED <<store, run, result, wave, worker, abandoned, registry, cancelled, lost, crashes, finished>>

Gather ==
    /\ pc = "loop" /\ pc' = "gathered"
    /\ IF mode = "single" THEN result[Smallest(Items)] # "none" ELSE Left = {} \/ cancelled
    /\ GlobalFallback
    /\ UNCHANGED <<store, run, result, wave, worker, abandoned, registry, cancelled, lost, crashes, finished>>

\* Any failed result sends the plan to the repairer, whose plan, when it has
\* one, is executed from nothing and not registered.
Repair ==
    /\ pc = "gathered" /\ ~repaired /\ FailedIds # {}
    /\ plan' \in Plans /\ mode' \in Modes /\ repaired' = TRUE
    /\ result' = NoResults /\ fallback' = FALSE /\ finished' = {} /\ pc' = "loop"
    /\ UNCHANGED <<store, wave, worker, abandoned, registry, cancelled, lost, crashes>>

Return ==
    /\ pc = "gathered" /\ pc' = "done"
    /\ UNCHANGED <<store, run, fallback, result, wave, worker, abandoned, registry, cancelled, lost, crashes, finished>>

------------------------------------------------------------------------------
(* A worker thread: _safe_execute_item *)

\* When Redis refuses the write it is made in memory, where the row is not.
Mark(i, status) ==
    \/ registry' = [registry EXCEPT ![i] = status] /\ UNCHANGED lost
    \/ /\ store = "redis" /\ lost < MaxLost
       /\ lost' = lost + 1 /\ UNCHANGED registry

Attempt(i) ==
    /\ i \in wave /\ worker[i].at \in {"queued", "retry"}
    /\ worker' = [worker EXCEPT ![i] = [at |-> "run", n |-> @.n + 1, out |-> "none"]]
    /\ Mark(i, "running")
    /\ UNCHANGED <<store, run, fallback, pc, result, wave, abandoned, cancelled, crashes, finished>>

\* The attempt's outcome is recorded (a blocked one without errors), and a failed
\* one is tried again while attempts are left.
Settle(i, out) ==
    /\ worker' = [worker EXCEPT ![i] =
                    IF out = "ok" \/ @.n > Retries
                    THEN [@ EXCEPT !.at = "end", !.out = out]
                    ELSE [@ EXCEPT !.at = "retry"]]
    /\ Mark(i, IF out = "ok" THEN "completed" ELSE out)
    /\ finished' = IF out = "ok" /\ registry'[i] = "completed" THEN finished \cup {i}
                   ELSE finished

Complete(i) ==
    /\ i \in wave /\ worker[i].at = "run"
    /\ \E out \in Outcomes : Settle(i, out)
    /\ UNCHANGED <<store, run, fallback, pc, result, wave, abandoned, cancelled, crashes>>

\* The soft timeout: the caller goes on, the thread does too. It may be in the
\* middle of mark_activity, with the row already read.
Timeout(i) ==
    /\ i \in wave \cap Timed /\ worker[i].at = "run"
    /\ Settle(i, "failed")
    /\ \E held \in {"idle"} \cup (IF store = "redis" THEN {registry[i]} ELSE {}) :
           abandoned' = [abandoned EXCEPT ![i][worker[i].n] = held]
    /\ UNCHANGED <<store, run, fallback, pc, result, wave, cancelled, crashes>>

\* as_completed: the wave is over when every thread has returned.
Merge ==
    /\ pc = "wave" /\ \A i \in wave : worker[i].at = "end"
    /\ result' = [i \in Items |-> IF i \in wave THEN worker[i].out ELSE result[i]]
    /\ worker' = NoWorkers /\ wave' = {} /\ pc' = "loop"
    /\ UNCHANGED <<store, run, fallback, abandoned, registry, cancelled, lost, crashes, finished>>

------------------------------------------------------------------------------
(* The threads left behind: mark_activity reads the row from Redis, and writes *)
(* all of it back (in memory it touches the time alone).                      *)

ActivityRead(i, k) ==
    /\ abandoned[i][k] = "idle" /\ store = "redis"
    /\ abandoned' = [abandoned EXCEPT ![i][k] = registry[i]]
    /\ UNCHANGED <<store, run, fallback, pc, result, wave, worker, registry, cancelled, lost, crashes, finished>>

ActivityWrite(i, k) ==
    /\ abandoned[i][k] \in Statuses
    /\ registry' = [registry EXCEPT ![i] = abandoned[i][k]]
    /\ abandoned' = [abandoned EXCEPT ![i][k] = "idle"]
    /\ finished' = IF registry'[i] = "completed" THEN finished ELSE finished \ {i}
    /\ UNCHANGED <<store, run, fallback, pc, result, wave, worker, cancelled, lost, crashes>>

ThreadEnds(i, k) ==
    /\ abandoned[i][k] # "none"
    /\ abandoned' = [abandoned EXCEPT ![i][k] = "none"]
    /\ UNCHANGED <<store, run, fallback, pc, result, wave, worker, registry, cancelled, lost, crashes, finished>>

------------------------------------------------------------------------------
(* The user, and the process *)

Cancel ==
    /\ pc \notin {"lost", "done"} /\ ~cancelled /\ cancelled' = TRUE
    /\ UNCHANGED <<store, run, fallback, pc, result, wave, worker, abandoned, registry, lost, crashes, finished>>

\* Threads, results and token are the process's own; the rows are not.
Crash ==
    /\ pc \in {"loop", "wave", "gathered"} /\ ~repaired /\ crashes < MaxCrashes
    /\ crashes' = crashes + 1 /\ pc' = "lost"
    /\ result' = NoResults /\ fallback' = FALSE /\ wave' = {} /\ worker' = NoWorkers
    /\ abandoned' = NoThreads /\ cancelled' = FALSE
    /\ UNCHANGED <<store, run, registry, lost, finished>>

Coordinate == Begin \/ Choose \/ ChooseOnly \/ Gather \/ Repair \/ Return \/ Merge

Finished == pc = "done" /\ UNCHANGED vars

Next == \/ Coordinate \/ Resume \/ Cancel \/ Crash \/ Finished
        \/ \E i \in Items :
              \/ Attempt(i) \/ Complete(i) \/ Timeout(i)
              \/ \E k \in Attempts : ActivityRead(i, k) \/ ActivityWrite(i, k) \/ ThreadEnds(i, k)

Spec == Init /\ [][Next]_vars

\* The coordinating thread runs on, a thread of the pool starts, a timer fires;
\* an agent's own limits (AgentQueue) end an attempt that has no timeout, and an
\* attempt that has one need never end by itself.
Fairness ==
    /\ WF_vars(Coordinate)
    /\ \A i \in Items : /\ WF_vars(Attempt(i))
                        /\ IF i \in Timed THEN WF_vars(Timeout(i)) ELSE WF_vars(Complete(i))

FairSpec == Spec /\ Fairness

------------------------------------------------------------------------------
(* Properties *)

TypeOK ==
    /\ plan \in [Items -> SUBSET (Items \cup {Unknown})] /\ mode \in Modes
    /\ repaired \in BOOLEAN /\ cancelled \in BOOLEAN
    /\ pc \in {"new", "loop", "wave", "gathered", "done", "lost"}
    /\ result \in [Items -> Results] /\ fallback \in BOOLEAN
    /\ wave \subseteq Items
    /\ worker \in [Items -> [at : {"queued", "run", "retry", "end"},
                             n : 0 .. (Retries + 1), out : Outcomes \cup {"none"}]]
    /\ abandoned \in [Items -> [Attempts -> Threads]]
    /\ store \in {"redis", "memory"} /\ registry \in [Items -> Statuses]
    /\ lost \in 0 .. MaxLost /\ crashes \in 0 .. MaxCrashes
    /\ finished \subseteq Items

Starts(i) == worker[i].at # "run" /\ worker'[i].at = "run"

Acyclic == \E depth \in [Items -> 1 .. Cardinality(Items)] :
              \A i \in Items : \A d \in plan[i] \cap Items : depth[d] < depth[i]

\* What is returned: the fallback result tells of no subtask.
Returned == IF fallback THEN {} ELSE Done

\* No subtask is lost: whatever the plan's dependencies (a cycle, a task_id that
\* is not in it, a chain of failures) and wherever it was resumed, an execution
\* nobody cancelled returns a result for every subtask, unless every one of them
\* was tried or skipped and failed: then it returns the fallback result, which
\* never replaces a success.
AllAccounted ==
    /\ pc = "done" /\ mode # "single" /\ ~cancelled =>
          IF FailedIds = Items THEN fallback ELSE Returned = Items
    /\ fallback => \A i \in Items : result[i] \in FailedResult \cup {"none"}

\* A subtask is never started on a dependency's failed result: not by a later
\* wave, by a retry, by the fallback, or by a resumed execution that read from the
\* registry that it had failed.  A blocked one's row says completed, and its
\* result ("taken") is no failure to a resumed execution: see BlockedInputsNeverUsed.
FailedInputsNeverUsed ==
    [][\A i \in Items : mode # "single" /\ Starts(i)
          => \A d \in plan[i] : d \in Items => result[d] \notin {"failed", "blocked"}]_vars

\* The same with what was blocked before the process died. It fails: a resumed
\* execution starts what depends on it.
BlockedInputsNeverUsed ==
    [][\A i \in Items : mode # "single" /\ Starts(i)
          => \A d \in plan[i] : d \in Items => result[d] \notin {"failed", "blocked", "taken"}]_vars

\* One after the other: a subtask of a plan without cycles starts only when every
\* dependency it has in the plan has been run, and has succeeded, unless it was
\* blocked in an execution that died and has been taken for a success.
SequentialInputs ==
    [][\A i \in Items : mode = "sequential" /\ Acyclic /\ Starts(i)
          => \A d \in plan[i] \cap Items : result[d] \in {"ok", "taken"}]_vars

\* The same of parallel execution, as its tests say. It fails.
ParallelInputs ==
    [][\A i \in Items : mode = "parallel" /\ Acyclic /\ Starts(i)
          => \A d \in plan[i] \cap Items : result[d] = "ok"]_vars

\* A resumed execution, like the one that died, does not run again a subtask whose
\* success the registry holds.
CompletedNotRepeated == [][\A i \in Items : Starts(i) => i \notin finished]_vars

\* When the execution is over the registry tells of every subtask it tried what
\* its result is. It fails: an abandoned thread writes back the row it had read.
RegistryTells ==
    pc = "done" /\ ~repaired /\ crashes = 0 /\ lost = 0
       => \A i \in Items : result[i] \in {"ok", "failed"}
             => registry[i] = IF result[i] = "ok" THEN "completed" ELSE "failed"

\* What a cancelled execution had completed is in what it returns. It fails: the
\* repaired plan starts from nothing, and is cancelled at once.
CancelKeepsResults == [][cancelled /\ pc # "lost" /\ pc' # "lost"
                           => \A i \in Items : result[i] = "ok" => result'[i] = "ok"]_vars

\* Every execution ends although an agent with a timeout may hang for ever (or its
\* process dies, and nobody resumes it).
Ends == <>(pc \in {"done", "lost"})
==============================================================================
