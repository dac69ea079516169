-------------------------- MODULE ExecutionProofs --------------------------
(***************************************************************************)
(* The execution of a plan and the event channel of an agent, for any sizes *)
(* and bounds.                                                              *)
(*                                                                          *)
(* First Coordinator: the types, that no subtask is lost, that none starts  *)
(* on a failed result, that one after the other they keep to their          *)
(* dependencies, and that what the registry holds as completed is not run   *)
(* again.  Then AgentQueue: the response gets the events in order, is told  *)
(* why it ends, and gets little after that.  The two share no state.        *)
(***************************************************************************)
EXTENDS Coordinator, AgentQueue, Lemmas

(* Where the worker threads are: an attempt is left to whoever waits for    *)
(* one, an ended thread has an outcome, and a wave has no results yet.      *)
Waves ==
    /\ wave # {} => pc = "wave"
    /\ \A i \in wave : result[i] = "none"
    /\ \A i \in Items : /\ worker[i].at \in {"queued", "retry"} => worker[i].n <= Retries
                        /\ worker[i].at = "run" => worker[i].n \in Attempts
                        /\ worker[i].at = "end" => worker[i].out \in Outcomes

(* A wave's dependencies have not been tried and failed.                    *)
Inputs == mode # "single" =>
    \A i \in wave : \A d \in plan[i] \cap Items : result[d] \notin {"failed", "blocked"}

(* What has been gathered is complete, unless it was cancelled.             *)
Gathered == (pc \in {"gathered", "done"} /\ mode # "single" /\ ~cancelled) => Left = {}

(* The fallback result stands for results that are all failures.            *)
Fell == fallback <=>
    pc \in {"gathered", "done"} /\ mode # "single" /\ Done # {} /\ Done = FailedIds

(* A success the registry holds is in the results, or about to be.          *)
Held ==
    /\ pc = "new" => finished = {}
    /\ \A i \in finished :
          /\ registry[i] = "completed"
          /\ \/ pc = "lost"
             \/ result[i] = "ok"
             \/ i \in wave /\ worker[i].at = "end" /\ worker[i].out = "ok"

IInv == TypeOK /\ Waves /\ Inputs /\ Gathered /\ Fell /\ Held

USE CoordinatorAssumption

(* Before the results are gathered there is no fallback, and none of them   *)
(* changes afterwards.                                                      *)
LEMMA FellKept ==
  ASSUME Fell,
         \/ fallback' = FALSE /\ pc' \notin {"gathered", "done"}
         \/ UNCHANGED fallback /\ pc \notin {"gathered", "done"} /\ pc' \notin {"gathered", "done"}
         \/ UNCHANGED <<fallback, mode, result>> /\ (pc' \in {"gathered", "done"} <=> pc \in {"gathered", "done"})
  PROVE  Fell'
  BY DEF Fell, Done, FailedIds

(* The initial states satisfy the invariant.                                *)
LEMMA InitIInv == Init => IInv
<1> SUFFICES ASSUME Init PROVE IInv
  OBVIOUS
<1>1. NoWorkers \in [Items -> [at : {"queued", "run", "retry", "end"},
                               n : 0 .. (Retries + 1), out : Outcomes \cup {"none"}]]
  BY DEF NoWorkers
<1>2. NoThreads \in [Items -> [Attempts -> Threads]]
  BY DEF NoThreads, Threads
<1>3. TypeOK
  <2>1. result \in [Items -> Results] /\ registry \in [Items -> Statuses]
    BY DEF Init, NoResults, Results, Statuses
  <2>2. plan \in [Items -> SUBSET (Items \cup {Unknown})] /\ mode \in Modes
    BY DEF Init
  <2>3. lost \in 0 .. MaxLost /\ crashes \in 0 .. MaxCrashes
    <3>1. lost = 0 /\ crashes = 0
      BY DEF Init
    <3> QED BY <3>1
  <2>4. repaired \in BOOLEAN /\ cancelled \in BOOLEAN
    BY DEF Init
  <2>5. wave \subseteq Items /\ finished \subseteq Items
    BY DEF Init
  <2> QED BY <1>1, <1>2, <2>1, <2>2, <2>3, <2>4, <2>5 DEF Init, TypeOK
<1>4. Waves /\ Inputs /\ Gathered /\ Fell /\ Held
  BY DEF Init, Waves, Inputs, Gathered, Fell, Held, NoWorkers, NoResults, Outcomes
<1> QED BY <1>3, <1>4 DEF IInv

(* A subtask starts only by Attempt, and Attempt changes no other thread.   *)
LEMMA StartsByAttempt ==
  ASSUME IInv, [Next]_vars, NEW i \in Items, Starts(i)
  PROVE  Attempt(i)
<1> USE DEF IInv, TypeOK, Starts
<1>1. worker' # worker
  OBVIOUS
<1>2. ASSUME NEW j \in Items, Attempt(j) PROVE Attempt(i)
  BY <1>2 DEF Attempt
<1>3. ASSUME NEW j \in Items, Complete(j) PROVE FALSE
  <2>1. PICK out \in Outcomes : Settle(j, out)
    BY <1>3 DEF Complete
  <2> QED BY <1>3, <2>1 DEF Settle, Complete
<1>4. ASSUME NEW j \in Items, Timeout(j) PROVE FALSE
  BY <1>4 DEF Timeout, Settle
<1>5. CASE Merge \/ Crash
  BY <1>5 DEF Merge, Crash, NoWorkers
<1>6. CASE Begin \/ Resume \/ Choose \/ ChooseOnly \/ Gather \/ Repair \/ Return \/ Cancel \/ Finished
  BY <1>1, <1>6 DEF Begin, Resume, Choose, ChooseOnly, Gather, Repair, Return, Cancel, Finished, vars
<1>7. ASSUME NEW j \in Items, NEW k \in Attempts,
             ActivityRead(j, k) \/ ActivityWrite(j, k) \/ ThreadEnds(j, k)
      PROVE  FALSE
  BY <1>1, <1>7 DEF ActivityRead, ActivityWrite, ThreadEnds
<1>8. CASE UNCHANGED vars
  BY <1>1, <1>8 DEF vars
<1> QED BY <1>2, <1>3, <1>4, <1>5, <1>6, <1>7, <1>8 DEF Next, Coordinate

(* Marking a row touches that row alone, and counts what Redis refuses.     *)
LEMMA MarkType ==
  ASSUME TypeOK, NEW i \in Items, NEW status \in Statuses, Mark(i, status)
  PROVE  /\ registry' \in [Items -> Statuses] /\ lost' \in 0 .. MaxLost
         /\ registry'[i] \in {registry[i], status}
         /\ \A j \in Items : j # i => registry'[j] = registry[j]
<1> QED BY DEF Mark, TypeOK

(* The plan is registered, in Redis or in memory.                           *)
LEMMA RegisterType ==
  ASSUME TypeOK, Register
  PROVE  /\ registry' \in [Items -> Statuses] /\ store' \in {"redis", "memory"}
         /\ lost' \in 0 .. MaxLost
<1>1. registry' \in [Items -> Statuses]
  BY DEF Register, Statuses
<1> QED BY <1>1 DEF Register, TypeOK

(* Begin keeps the invariant: nothing has run.                              *)
LEMMA BeginKeeps == ASSUME IInv, Begin PROVE IInv'
<1> USE DEF IInv, Begin, run
<1>1. TypeOK'
  BY RegisterType DEF TypeOK
<1>2. Waves' /\ Inputs' /\ Gathered' /\ Held'
  BY DEF Waves, Inputs, Gathered, Held, Left
<1> QED BY <1>1, <1>2, FellKept

(* Resume takes what the registry holds as completed for a success.         *)
LEMMA ResumeKeeps == ASSUME IInv, Resume PROVE IInv'
<1> USE DEF IInv, Resume, run
<1>1. \A status : Resumed(status) \in {"failed", "ok", "taken", "none"}
  BY DEF Resumed
<1>2. TypeOK'
  <2>1. result' \in [Items -> Results]
    BY <1>1 DEF TypeOK, Outcomes, Results
  <2> QED BY <2>1, RegisterType DEF TypeOK
<1>3. wave = {}
  BY DEF Waves
<1>4. Waves' /\ Inputs' /\ Gathered'
  BY <1>3 DEF Waves, Inputs, Gathered
<1>5. Resumed("completed") = "ok"
  BY DEF Resumed
<1>6. Held'
  BY <1>5 DEF Held, TypeOK
<1> QED BY <1>2, <1>4, <1>6, FellKept

(* _split_ready hands out no dependent of what has been tried and failed.   *)
LEMMA SplitKeeps ==
  ASSUME IInv, pc = "loop", SplitReady, UNCHANGED plan
  PROVE  /\ wave' \subseteq Left /\ result' \in [Items -> Results]
         /\ \A i \in Items : result'[i] # result[i] => result[i] = "none" /\ result'[i] = "skipped"
         /\ \A i \in wave' : result'[i] = "none"
         /\ \A i \in wave' : \A d \in plan[i] \cap Items : result'[d] \notin {"failed", "blocked"}
<1> DEFINE skipped == {i \in Left : plan[i] \cap FailedIds # {}}
           ready   == {i \in Left \ skipped : plan[i] \subseteq Done}
           rest    == Left \ (skipped \cup ready)
<1>1. /\ result' = [i \in Items |-> IF i \in skipped THEN "skipped" ELSE result[i]]
      /\ wave' = IF ready # {} THEN ready ELSE rest
  BY DEF SplitReady
<1> HIDE DEF ready, rest
<1>2. ready \subseteq Left \ skipped /\ rest \subseteq Left \ skipped
  BY DEF ready, rest
<1>3. wave' \subseteq Left \ skipped
  BY <1>1, <1>2
<1>4. \A i \in Items : result'[i] = IF i \in skipped THEN "skipped" ELSE result[i]
  BY <1>1
<1>5. result' \in [Items -> Results]
  BY <1>1 DEF IInv, TypeOK, Results
<1>6. \A i \in skipped : i \in Items /\ result[i] = "none"
  BY DEF Left
<1>7. \A i \in wave' : i \in Items /\ result'[i] = "none"
  BY <1>3, <1>4 DEF Left
<1>8. ASSUME NEW i \in wave', NEW d \in plan[i] \cap Items
      PROVE  result'[d] \notin {"failed", "blocked"}
  <2>1. i \in Left /\ plan[i] \cap FailedIds = {}
    BY <1>3
  <2>2. d \notin FailedIds
    BY <2>1
  <2> QED BY <2>2, <1>4 DEF FailedIds, FailedResult
<1> QED BY <1>3, <1>4, <1>5, <1>6, <1>7, <1>8

(* Neither does the sequential order.                                       *)
LEMMA LineKeeps ==
  ASSUME IInv, pc = "loop", NextInLine
  PROVE  /\ wave' \subseteq Left /\ result' \in [Items -> Results]
         /\ \A i \in Items : result'[i] # result[i] => result[i] = "none" /\ result'[i] = "skipped"
         /\ \A i \in wave' : result'[i] = "none"
         /\ \A i \in wave' : \A d \in plan[i] \cap Items : result'[d] \notin {"failed", "blocked"}
<1>1. PICK i \in Left :
         \/ plan[i] \cap FailedIds # {} /\ result' = [result EXCEPT ![i] = "skipped"] /\ wave' = wave
         \/ plan[i] \cap FailedIds = {} /\ wave' = {i} /\ result' = result
  BY DEF NextInLine
<1>2. wave = {} /\ i \in Items /\ result[i] = "none"
  BY DEF IInv, Waves, Left
<1>3. CASE plan[i] \cap FailedIds # {}
  BY <1>1, <1>2, <1>3 DEF IInv, TypeOK, Results
<1>4. CASE plan[i] \cap FailedIds = {}
  BY <1>1, <1>2, <1>4 DEF IInv, TypeOK, FailedIds, FailedResult, Left
<1> QED BY <1>3, <1>4

(* The next wave keeps the invariant.                                       *)
LEMMA ChooseKeeps == ASSUME IInv, Choose PROVE IInv'
<1> USE DEF IInv, Choose, run
<1>1. /\ wave' \subseteq Left /\ result' \in [Items -> Results]
      /\ \A i \in Items : result'[i] # result[i] => result[i] = "none" /\ result'[i] = "skipped"
      /\ \A i \in wave' : result'[i] = "none"
      /\ \A i \in wave' : \A d \in plan[i] \cap Items : result'[d] \notin {"failed", "blocked"}
  BY SplitKeeps, LineKeeps
<1>2. wave = {}
  BY DEF Waves
<1>3. TypeOK'
  BY <1>1 DEF TypeOK, Left
<1>4. Waves' /\ Inputs' /\ Gathered'
  BY <1>1 DEF Waves, Inputs, Gathered
<1>5. Held'
  BY <1>1, <1>2 DEF Held, TypeOK
<1> QED BY <1>3, <1>4, <1>5, FellKept

(* The single subtask, and the steps that only move on.                     *)
LEMMA MovesKeep ==
  ASSUME IInv, ChooseOnly \/ Gather \/ Return \/ Cancel \/ Finished
  PROVE  IInv'
<1> USE DEF IInv, run
<1>1. CASE ChooseOnly
  <2>1. wave = {} /\ wave' \subseteq Left
    BY <1>1 DEF ChooseOnly, Waves
  <2>2. TypeOK' /\ Waves' /\ Inputs' /\ Gathered'
    BY <1>1, <2>1 DEF ChooseOnly, TypeOK, Waves, Inputs, Gathered, Left
  <2>3. Held'
    BY <1>1, <2>1 DEF ChooseOnly, Held
  <2>4. Fell'
    BY <1>1, FellKept DEF ChooseOnly
  <2> QED BY <2>2, <2>3, <2>4
<1>2. CASE Gather
  <2>1. wave = {}
    BY <1>2 DEF Gather, Waves
  <2>2. Gathered'
    BY <1>2 DEF Gather, Gathered, Left
  <2>3. Fell' /\ fallback' \in BOOLEAN
    BY <1>2 DEF Gather, GlobalFallback, Fell, Done, FailedIds
  <2>4. TypeOK'
    BY <1>2, <2>3 DEF Gather, TypeOK
  <2> QED BY <1>2, <2>1, <2>2, <2>3, <2>4 DEF Gather, Waves, Inputs, Held
<1>3. CASE Return
  <2>1. Gathered'
    BY <1>3 DEF Return, Gathered, Left
  <2>2. Fell'
    BY <1>3, FellKept DEF Return
  <2> QED BY <1>3, <2>1, <2>2 DEF Return, TypeOK, Waves, Inputs, Held
<1>4. CASE Cancel
  BY <1>4, FellKept DEF Cancel, TypeOK, Waves, Inputs, Gathered, Held
<1>5. CASE Finished
  BY <1>5, FellKept DEF Finished, vars, TypeOK, Waves, Inputs, Gathered, Held, Left
<1> QED BY <1>1, <1>2, <1>3, <1>4, <1>5

(* The repaired plan starts from nothing.                                   *)
LEMMA RepairKeeps == ASSUME IInv, Repair PROVE IInv'
<1> USE DEF IInv, Repair
<1>1. TypeOK'
  <2>1. result' \in [Items -> Results]
    BY DEF NoResults, Results
  <2> QED BY <2>1 DEF TypeOK
<1>2. wave = {}
  BY DEF Waves
<1> QED BY <1>1, <1>2, FellKept DEF Waves, Inputs, Gathered, Held

(* A thread that starts an attempt has none behind it that succeeded.       *)
LEMMA AttemptKeeps == ASSUME IInv, NEW i \in Items, Attempt(i) PROVE IInv'
<1> USE DEF IInv, run
<1>1. /\ worker[i].at \in {"queued", "retry"} /\ worker[i].n \in Nat /\ worker[i].n <= Retries
      /\ i \in wave /\ pc = "wave" /\ result[i] = "none"
  BY DEF Attempt, Waves, TypeOK
<1>2. worker' = [worker EXCEPT ![i] = [at |-> "run", n |-> worker[i].n + 1, out |-> "none"]]
  BY DEF Attempt
<1>3. worker[i].n + 1 \in Attempts /\ worker[i].n + 1 \in 0 .. (Retries + 1)
  BY <1>1 DEF Attempts
<1>4. /\ worker'[i] = [at |-> "run", n |-> worker[i].n + 1, out |-> "none"]
      /\ \A j \in Items : j # i => worker'[j] = worker[j]
  BY <1>2 DEF TypeOK
<1>5. worker' \in [Items -> [at : {"queued", "run", "retry", "end"},
                            n : 0 .. (Retries + 1), out : Outcomes \cup {"none"}]]
  BY <1>2, <1>3 DEF TypeOK
<1>6. /\ registry' \in [Items -> Statuses] /\ lost' \in 0 .. MaxLost
      /\ \A j \in Items : j # i => registry'[j] = registry[j]
  BY MarkType DEF Attempt, Statuses
<1>7. TypeOK'
  BY <1>5, <1>6 DEF Attempt, TypeOK
<1>8. Waves'
  BY <1>3, <1>4 DEF Attempt, Waves
<1>9. Inputs' /\ Gathered'
  BY DEF Attempt, Inputs, Gathered, Left
<1>10. i \notin finished
  BY <1>1 DEF Held
<1>11. Held'
  BY <1>1, <1>4, <1>6, <1>10 DEF Attempt, Held, TypeOK
<1>12. Fell'
  BY <1>1, FellKept DEF Attempt
<1> QED BY <1>7, <1>8, <1>9, <1>11, <1>12

(* What holds when an attempt is settled, by its end or by the timer.       *)
LEMMA SettleKeeps ==
  ASSUME IInv, NEW i \in Items, NEW out \in Outcomes,
         i \in wave, worker[i].at = "run", Settle(i, out),
         abandoned' \in [Items -> [Attempts -> Threads]],
         UNCHANGED <<store, run, fallback, pc, result, wave, cancelled, crashes>>
  PROVE  IInv'
<1> USE DEF IInv, run
<1> DEFINE last == out = "ok" \/ worker[i].n > Retries
           w == IF last THEN [worker[i] EXCEPT !.at = "end", !.out = out]
                        ELSE [worker[i] EXCEPT !.at = "retry"]
<1>1. pc = "wave" /\ result[i] = "none" /\ worker[i].n \in Attempts
  BY DEF Waves
<1>2. worker' = [worker EXCEPT ![i] = w]
  BY DEF Settle
<1>3. /\ w \in [at : {"queued", "run", "retry", "end"}, n : 0 .. (Retries + 1),
                out : Outcomes \cup {"none"}]
      /\ w.n = worker[i].n /\ (last => w.at = "end" /\ w.out = out)
      /\ (~last => w.at = "retry")
  <2>1. worker[i] \in [at : {"queued", "run", "retry", "end"}, n : 0 .. (Retries + 1),
                       out : Outcomes \cup {"none"}]
    BY DEF TypeOK
  <2>2. CASE last
    BY <2>1, <2>2
  <2>3. CASE ~last
    BY <2>1, <2>3
  <2> QED BY <2>2, <2>3
<1>4. ~last => worker[i].n <= Retries
  BY <1>1 DEF Attempts
<1> HIDE DEF w
<1>5. worker'[i] = w /\ \A j \in Items : j # i => worker'[j] = worker[j]
  BY <1>2 DEF TypeOK
<1>6. worker' \in [Items -> [at : {"queued", "run", "retry", "end"},
                            n : 0 .. (Retries + 1), out : Outcomes \cup {"none"}]]
  BY <1>2, <1>3 DEF TypeOK
<1>7. /\ registry' \in [Items -> Statuses] /\ lost' \in 0 .. MaxLost
      /\ \A j \in Items : j # i => registry'[j] = registry[j]
  <2>1. (IF out = "ok" THEN "completed" ELSE out) \in Statuses
    BY DEF Outcomes, Statuses
  <2> QED BY <2>1, MarkType DEF Settle
<1>8. finished' \subseteq finished \cup {i}
      /\ (i \in finished' => i \in finished \/ (out = "ok" /\ registry'[i] = "completed"))
  BY DEF Settle
<1>9. TypeOK'
  BY <1>6, <1>7, <1>8 DEF TypeOK
<1>10. Waves'
  BY <1>1, <1>3, <1>4, <1>5 DEF Waves
<1>11. Inputs' /\ Gathered'
  BY DEF Inputs, Gathered, Left
<1>12. i \notin finished
  BY <1>1 DEF Held
<1>13. ASSUME NEW j \in finished'
       PROVE  /\ registry'[j] = "completed"
              /\ result'[j] = "ok" \/ (j \in wave' /\ worker'[j].at = "end" /\ worker'[j].out = "ok")
  <2>1. CASE j = i
    BY <1>3, <1>5, <1>8, <1>12, <2>1
  <2>2. CASE j # i
    <3>1. j \in finished /\ j \in Items
      BY <1>8, <2>2 DEF TypeOK
    <3> QED BY <1>1, <1>5, <1>7, <2>2, <3>1 DEF Held
  <2> QED BY <2>1, <2>2
<1>14. Held'
  BY <1>1, <1>13 DEF Held
<1> QED BY <1>9, <1>10, <1>11, <1>14, FellKept

(* An attempt that ends, and one whose time is over.                        *)
LEMMA CompleteKeeps == ASSUME IInv, NEW i \in Items, Complete(i) PROVE IInv'
<1> USE DEF Complete
<1>1. PICK out \in Outcomes : Settle(i, out)
  OBVIOUS
<1>2. abandoned' \in [Items -> [Attempts -> Threads]]
  BY DEF IInv, TypeOK
<1> QED BY <1>1, <1>2, SettleKeeps

LEMMA TimeoutKeeps == ASSUME IInv, NEW i \in Items, Timeout(i) PROVE IInv'
<1> USE DEF Timeout
<1>1. Settle(i, "failed") /\ "failed" \in Outcomes
  BY DEF Outcomes
<1>2. PICK held \in {"idle", registry[i]} :
          abandoned' = [abandoned EXCEPT ![i][worker[i].n] = held]
  OBVIOUS
<1>3. held \in Threads
  BY <1>2 DEF IInv, TypeOK, Threads
<1>4. worker[i].n \in Attempts
  BY DEF IInv, Waves
<1>5. abandoned' \in [Items -> [Attempts -> Threads]]
  BY <1>2, <1>3, <1>4 DEF IInv, TypeOK
<1> QED BY <1>1, <1>5, SettleKeeps

(* The results of a wave that is over.                                      *)
LEMMA MergeKeeps == ASSUME IInv, Merge PROVE IInv'
<1> USE DEF IInv, Merge, run
<1>1. \A i \in Items : result'[i] = IF i \in wave THEN worker[i].out ELSE result[i]
  OBVIOUS
<1>2. \A i \in wave : i \in Items /\ worker[i].out \in Outcomes
  BY DEF Waves, TypeOK
<1>3. result' \in [Items -> Results]
  BY <1>2 DEF TypeOK, Results
<1>4. NoWorkers \in [Items -> [at : {"queued", "run", "retry", "end"},
                              n : 0 .. (Retries + 1), out : Outcomes \cup {"none"}]]
  BY DEF NoWorkers
<1>5. TypeOK'
  BY <1>3, <1>4 DEF TypeOK
<1>6. \A i \in Items : NoWorkers[i].at = "queued" /\ NoWorkers[i].n = 0
  BY DEF NoWorkers
<1>7. Waves' /\ Inputs' /\ Gathered'
  BY <1>6 DEF Waves, Inputs, Gathered
<1>8. ASSUME NEW i \in finished'
      PROVE  registry'[i] = "completed" /\ result'[i] = "ok"
  <2>1. i \in finished /\ i \in Items /\ registry[i] = "completed"
        /\ (result[i] = "ok" \/ (i \in wave /\ worker[i].out = "ok"))
    BY DEF Held, TypeOK
  <2>2. i \in wave => result[i] = "none"
    BY DEF Waves
  <2> QED BY <1>1, <2>1, <2>2
<1>9. Held'
  BY <1>8 DEF Held
<1> QED BY <1>5, <1>7, <1>9, FellKept

(* The threads left behind write rows, and no success they overwrite counts *)
(* as held.                                                                 *)
LEMMA ThreadsKeep ==
  ASSUME IInv, NEW i \in Items, NEW k \in Attempts,
         ActivityRead(i, k) \/ ActivityWrite(i, k) \/ ThreadEnds(i, k)
  PROVE  IInv'
<1> USE DEF IInv, run
<1>1. CASE ActivityRead(i, k) \/ ThreadEnds(i, k)
  <2>1. abandoned' \in [Items -> [Attempts -> Threads]]
    BY <1>1 DEF ActivityRead, ThreadEnds, TypeOK, Threads
  <2>2. UNCHANGED <<store, run, fallback, pc, result, wave, worker, registry, cancelled, lost, crashes, finished>>
    BY <1>1 DEF ActivityRead, ThreadEnds
  <2>3. TypeOK'
    BY <2>1, <2>2 DEF TypeOK
  <2> QED BY <2>2, <2>3, FellKept DEF Waves, Inputs, Gathered, Left, Held
<1>2. CASE ActivityWrite(i, k)
  <2>1. abandoned' \in [Items -> [Attempts -> Threads]] /\ registry' \in [Items -> Statuses]
    BY <1>2 DEF ActivityWrite, TypeOK, Threads
  <2>2. \A j \in finished' : j \in finished /\ registry'[j] = "completed"
    BY <1>2 DEF ActivityWrite, Held, TypeOK
  <2>3. UNCHANGED <<store, run, fallback, pc, result, wave, worker, cancelled, lost, crashes>>
    BY <1>2 DEF ActivityWrite
  <2>4. TypeOK'
    BY <2>1, <2>2, <2>3 DEF TypeOK
  <2> QED BY <2>2, <2>3, <2>4, FellKept DEF Waves, Inputs, Gathered, Left, Held
<1> QED BY <1>1, <1>2

(* A crash leaves the rows.                                                 *)
LEMMA CrashKeeps == ASSUME IInv, Crash PROVE IInv'
<1> USE DEF IInv, Crash, run
<1>1. /\ NoWorkers \in [Items -> [at : {"queued", "run", "retry", "end"},
                                 n : 0 .. (Retries + 1), out : Outcomes \cup {"none"}]]
      /\ NoThreads \in [Items -> [Attempts -> Threads]]
      /\ NoResults \in [Items -> Results]
  BY DEF NoWorkers, NoThreads, NoResults, Results, Threads
<1>2. TypeOK'
  <2>1. crashes' \in 0 .. MaxCrashes /\ lost' \in 0 .. MaxLost
    BY DEF TypeOK
  <2> QED BY <1>1, <2>1 DEF TypeOK
<1>3. \A i \in Items : NoWorkers[i].at = "queued" /\ NoWorkers[i].n = 0
  BY DEF NoWorkers
<1>4. Waves' /\ Inputs' /\ Gathered' /\ Held'
  BY <1>3 DEF Waves, Inputs, Gathered, Held
<1> QED BY <1>2, <1>4, FellKept

(* Every step keeps the invariant.                                          *)
LEMMA NextIInv == IInv /\ [Next]_vars => IInv'
<1> SUFFICES ASSUME IInv, [Next]_vars PROVE IInv'
  OBVIOUS
<1>1. CASE UNCHANGED vars
  BY <1>1, FellKept DEF vars, IInv, TypeOK, Waves, Inputs, Gathered, Left, Held
<1>2. CASE Next
  BY <1>2, BeginKeeps, ResumeKeeps, ChooseKeeps, MovesKeep, RepairKeeps, AttemptKeeps,
     CompleteKeeps, TimeoutKeeps, MergeKeeps, ThreadsKeep, CrashKeeps DEF Next, Coordinate
<1> QED BY <1>1, <1>2

LEMMA Invariance == Spec => []IInv
<1> QED BY InitIInv, NextIInv, PTL DEF Spec

-----------------------------------------------------------------------------
(* The sequential order.                                                    *)

(* f hands each argument in D on to the next, until one is in stop.         *)
HandsOn(f, D, stop, val, next) ==
    f = [x \in D |-> IF x \in stop THEN val[x] ELSE f[next[x]]]

(* m, at most B, becomes smaller each time.                                 *)
Shrinks(m, B, D, stop, next) ==
    /\ m \in [D -> Nat] /\ B \in Nat /\ \A x \in D : m[x] <= B
    /\ \A x \in D : x \notin stop => next[x] \in D /\ m[next[x]] < m[x]

(* What is in I is handed on to what is in I, and its value is in Q.        *)
Leads(I, Q, D, stop, val, next) ==
    \A x \in D \cap I : IF x \in stop THEN val[x] \in Q ELSE next[x] \in I

(* A function that hands on to a smaller argument until it stops exists.    *)
LEMMA TailRecursion ==
  ASSUME NEW D, NEW stop, NEW val, NEW next, NEW m, NEW B, Shrinks(m, B, D, stop, next)
  PROVE  \E f : HandsOn(f, D, stop, val, next)
<1> USE DEF HandsOn, Shrinks
<1> DEFINE Below(n) == {x \in D : m[x] < n}
           Good(n) == \E f : f = [x \in Below(n) |-> IF x \in stop THEN val[x] ELSE f[next[x]]]
           T == {n \in Nat : Good(n)}
<1>1. 0 \in T
  <2> DEFINE f == [x \in {} |-> x]
  <2>1. Below(0) = {}
    OBVIOUS
  <2>2. f = [x \in Below(0) |-> IF x \in stop THEN val[x] ELSE f[next[x]]]
    BY <2>1
  <2> QED BY <2>2
<1>2. ASSUME NEW n \in Nat, n \in T PROVE n + 1 \in T
  <2>1. PICK g : g = [x \in Below(n) |-> IF x \in stop THEN val[x] ELSE g[next[x]]]
    BY <1>2
  <2> DEFINE h == [x \in Below(n + 1) |-> IF x \in stop THEN val[x] ELSE g[next[x]]]
  <2>2. \A x \in Below(n + 1) : x \notin stop => next[x] \in Below(n)
    OBVIOUS
  <2>3. \A x \in Below(n) : x \in Below(n + 1)
    OBVIOUS
  <2> HIDE DEF Below
  <2>4. \A x \in Below(n) : g[x] = h[x]
    <3>1. \A x \in Below(n) : g[x] = IF x \in stop THEN val[x] ELSE g[next[x]]
      BY <2>1
    <3> QED BY <2>3, <3>1
  <2>5. h = [x \in Below(n + 1) |-> IF x \in stop THEN val[x] ELSE h[next[x]]]
    <3> HIDE DEF h
    <3>1. h = [x \in Below(n + 1) |-> IF x \in stop THEN val[x] ELSE g[next[x]]]
      BY DEF h
    <3>2. \A x \in Below(n + 1) : (IF x \in stop THEN val[x] ELSE g[next[x]])
                                   = (IF x \in stop THEN val[x] ELSE h[next[x]])
      BY <2>2, <2>4
    <3> QED BY <3>1, <3>2
  <2> HIDE DEF h
  <2>6. Good(n + 1)
    BY <2>5
  <2> HIDE DEF Good
  <2> QED BY <2>6
<1> HIDE DEF T
<1>3. B + 1 \in T
  BY <1>1, <1>2, NatsFrom
<1>4. Below(B + 1) = D
  OBVIOUS
<1> QED BY <1>3, <1>4 DEF T

(* What it stops with has what every argument on the way hands on.          *)
LEMMA TailInvariant ==
  ASSUME NEW D, NEW stop, NEW val, NEW next, NEW m, NEW B, Shrinks(m, B, D, stop, next),
         NEW f, HandsOn(f, D, stop, val, next), NEW I, NEW Q, Leads(I, Q, D, stop, val, next)
  PROVE  \A x \in D \cap I : f[x] \in Q
<1> USE DEF HandsOn, Shrinks, Leads
<1> DEFINE T == {n \in Nat : \A x \in D \cap I : m[x] < n => f[x] \in Q}
<1>1. 0 \in T
  OBVIOUS
<1>2. ASSUME NEW n \in Nat, n \in T PROVE n + 1 \in T
  <2> SUFFICES ASSUME NEW x \in D \cap I, m[x] < n + 1 PROVE f[x] \in Q
    OBVIOUS
  <2>1. f[x] = IF x \in stop THEN val[x] ELSE f[next[x]]
    OBVIOUS
  <2>2. CASE x \notin stop
    <3>1. next[x] \in D \cap I /\ m[next[x]] < m[x] /\ m[next[x]] \in Nat /\ m[x] \in Nat
      BY <2>2
    <3>2. m[next[x]] < n
      BY <3>1
    <3> QED BY <1>2, <2>1, <2>2, <3>1, <3>2
  <2> QED BY <2>1, <2>2
<1> HIDE DEF T
<1>3. \A x \in D \cap I : m[x] + 1 \in T
  BY <1>1, <1>2, NatsFrom
<1> QED BY <1>3 DEF T

(* The smallest of a set of subtasks is one of them, and so is the first in *)
(* a list of dependencies.                                                  *)
LEMMA LeastExists ==
  ASSUME NEW S, S # {}, NEW key, \A x \in S : key[x] \in Nat
  PROVE  \E x \in S : \A y \in S : key[x] <= key[y]
<1> DEFINE T == {n \in Nat : \A x \in S : n <= key[x]}
<1> SUFFICES ASSUME \A x \in S : \E y \in S : ~(key[x] <= key[y]) PROVE FALSE
  OBVIOUS
<1>1. 0 \in T
  OBVIOUS
<1>2. ASSUME NEW n \in Nat, n \in T PROVE n + 1 \in T
  <2>1. \A x \in S : n # key[x]
    BY <1>2
  <2> QED BY <1>2, <2>1
<1>3. Nat \subseteq T
  <2> HIDE DEF T
  <2> QED BY <1>1, <1>2, NatsFrom
<1>4. PICK x \in S : TRUE
  OBVIOUS
<1>5. key[x] + 1 \in T
  BY <1>3, <1>4
<1> QED BY <1>4, <1>5

LEMMA SmallestIn ==
  ASSUME NEW S \in SUBSET Items, S # {}
  PROVE  Smallest(S) \in S
<1> DEFINE key == [x \in S |-> x]
<1>1. \A x \in S : key[x] \in Nat
  OBVIOUS
<1>2. \E x \in S : \A y \in S : key[x] <= key[y]
  <2> HIDE DEF key
  <2> QED BY <1>1, LeastExists
<1> QED BY <1>2 DEF Smallest

LEMMA ListedIn ==
  ASSUME NEW i \in Items, NEW S \in SUBSET Items, S # {}
  PROVE  Listed(i, S) \in S
<1>1. \A x \in S : Place[i][x] \in Nat
  OBVIOUS
<1>2. \E x \in S : \A y \in S : Place[i][x] <= Place[i][y]
  BY <1>1, LeastExists
<1> QED BY <1>2 DEF Listed

(* In a plan without cycles the visit ends at a subtask that is not resolved *)
(* while all it depends on is.                                              *)
LEMMA DeepestIsReady ==
  ASSUME TypeOK, Acyclic, NEW resolved \in SUBSET Items, Items \ resolved # {}
  PROVE  /\ Deepest(resolved) \in Items \ resolved
         /\ plan[Deepest(resolved)] \cap Items \subseteq resolved
<1> DEFINE D == Items \X SUBSET Items
           Visiting(at) == at[2] \cup {at[1]}
           Below(at) == (plan[at[1]] \cap Items) \ (resolved \cup Visiting(at))
           stop == {at \in D : Below(at) = {}}
           val == [at \in D |-> at[1]]
           next == [at \in D |-> <<Listed(at[1], Below(at)), Visiting(at)>>]
           Down(f) == [at \in D |-> IF Below(at) = {} THEN at[1]
                                     ELSE f[<<Listed(at[1], Below(at)), Visiting(at)>>]]
           down == CHOOSE f : f = Down(f)
<1>1. PICK depth \in [Items -> 1 .. Cardinality(Items)] :
         \A i \in Items : \A d \in plan[i] \cap Items : depth[d] < depth[i]
  BY DEF Acyclic
<1>2. /\ Cardinality(Items) \in Nat
      /\ \A i \in Items : depth[i] \in Nat /\ depth[i] <= Cardinality(Items)
  <2>1. Cardinality(Items) \in Nat
    BY FS_CardinalityType
  <2>2. \A i \in Items : depth[i] \in 1 .. Cardinality(Items)
    BY <1>1
  <2> QED BY <2>1, <2>2
<1> DEFINE m == [at \in D |-> depth[at[1]]]
           I == {at \in D : /\ at[1] \notin resolved
                            /\ \A p \in at[2] : depth[at[1]] < depth[p]}
           Q == {i \in Items \ resolved : plan[i] \cap Items \subseteq resolved}
<1>3. m \in [D -> Nat] /\ \A at \in D : m[at] <= Cardinality(Items)
  BY <1>2
<1>4. ASSUME NEW at \in D, Below(at) # {}
      PROVE  /\ Listed(at[1], Below(at)) \in Below(at) /\ next[at] \in D
             /\ next[at] = <<Listed(at[1], Below(at)), Visiting(at)>>
             /\ depth[Listed(at[1], Below(at))] < depth[at[1]]
  <2>1. Below(at) \subseteq Items /\ Visiting(at) \subseteq Items /\ at[1] \in Items
    OBVIOUS
  <2>2. Listed(at[1], Below(at)) \in Below(at)
    <3> HIDE DEF Below
    <3> QED BY <1>4, <2>1, ListedIn
  <2> QED BY <1>1, <2>1, <2>2
<1>5. \A at \in D : at \notin stop => next[at] \in D /\ m[next[at]] < m[at]
  BY <1>4
<1>6. Shrinks(m, Cardinality(Items), D, stop, next)
  BY <1>2, <1>3, <1>5 DEF Shrinks
<1>7. HandsOn(down, D, stop, val, next)
  <2>1. \A f : Down(f) = [at \in D |-> IF at \in stop THEN val[at] ELSE f[next[at]]]
    OBVIOUS
  <2> HIDE DEF D, stop, val, next, m, Down
  <2>2. \E f : HandsOn(f, D, stop, val, next)
    BY <1>6, TailRecursion
  <2>3. down = Down(down)
    BY <2>1, <2>2 DEF HandsOn
  <2> QED BY <2>1, <2>3 DEF HandsOn
<1>8. \A at \in D \cap I : at \notin stop => next[at] \in I
  <2> SUFFICES ASSUME NEW at \in D \cap I, at \notin stop PROVE next[at] \in I
    OBVIOUS
  <2>1. Listed(at[1], Below(at)) \notin resolved
    BY <1>4
  <2>2. ASSUME NEW p \in Visiting(at) PROVE depth[Listed(at[1], Below(at))] < depth[p]
    <3>1. p \in Items /\ at[1] \in Items /\ Listed(at[1], Below(at)) \in Items
      BY <1>4
    <3>2. depth[p] \in Nat /\ depth[at[1]] \in Nat /\ depth[Listed(at[1], Below(at))] \in Nat
      BY <1>2, <3>1
    <3>3. p = at[1] \/ depth[at[1]] < depth[p]
      OBVIOUS
    <3>4. Below(at) # {}
      OBVIOUS
    <3>5. depth[Listed(at[1], Below(at))] < depth[at[1]]
      BY <1>4, <3>4
    <3> HIDE DEF Below
    <3> QED BY <3>2, <3>3, <3>5
  <2>3. next[at] \in D /\ next[at][1] = Listed(at[1], Below(at)) /\ next[at][2] = Visiting(at)
    BY <1>4
  <2> QED BY <2>1, <2>2, <2>3
<1>9. \A at \in D \cap I : at \in stop => val[at] \in Q
  <2> SUFFICES ASSUME NEW at \in D \cap I, at \in stop PROVE at[1] \in Q
    OBVIOUS
  <2>1. at[1] \in Items \ resolved /\ Below(at) = {} /\ at[2] \subseteq Items
    OBVIOUS
  <2>2. ASSUME NEW d \in plan[at[1]] \cap Items, d \notin resolved PROVE FALSE
    <3>1. d \in Visiting(at)
      BY <2>1, <2>2
    <3>2. depth[d] < depth[at[1]] /\ depth[d] \in Nat /\ depth[at[1]] \in Nat
      BY <1>1, <1>2, <2>1, <2>2
    <3>3. d = at[1] \/ depth[at[1]] < depth[d]
      BY <3>1
    <3> QED BY <3>2, <3>3
  <2> QED BY <2>1, <2>2
<1> DEFINE start == <<Smallest(Items \ resolved), {}>>
<1>10. start \in D \cap I
  <2>1. Items \ resolved \in SUBSET Items
    OBVIOUS
  <2>2. Smallest(Items \ resolved) \in Items \ resolved
    BY <2>1, SmallestIn
  <2>3. start[1] \in Items \ resolved /\ start[2] = {} /\ start \in D
    BY <2>2
  <2> HIDE DEF start
  <2> QED BY <2>3
<1>11. down[start] \in Q
  <2> HIDE DEF D, stop, val, next, m, down, I, Q, start
  <2>1. Leads(I, Q, D, stop, val, next)
    BY <1>8, <1>9 DEF Leads
  <2> QED BY <1>6, <1>7, <1>10, <2>1, TailInvariant
<1>12. Deepest(resolved) = down[start]
  BY DEF Deepest
<1> QED BY <1>11, <1>12

(* The next in the order has no result, and all it depends on has one.      *)
LEMMA InOrderIsReady ==
  ASSUME TypeOK, Acyclic, Left # {}
  PROVE  InOrder \in Left /\ plan[InOrder] \cap Items \subseteq Done
<1> DEFINE D == {r \in SUBSET Items : ~(Left \subseteq r)}
           stop == {r \in D : Deepest(r) \in Left}
           val == [r \in D |-> Deepest(r)]
           next == [r \in D |-> r \cup {Deepest(r)}]
           m == [r \in D |-> Cardinality(Items \ r)]
           Order(f) == [r \in D |-> IF Deepest(r) \in Left THEN Deepest(r)
                                     ELSE f[r \cup {Deepest(r)}]]
           first == CHOOSE f : f = Order(f)
           I == {r \in D : r \cap Left = {}}
           Q == {i \in Left : plan[i] \cap Items \subseteq Done}
<1>1. Left \subseteq Items /\ Done = Items \ Left
  BY DEF Left, Done
<1>2. \A r \in D : /\ Deepest(r) \in Items \ r
                    /\ plan[Deepest(r)] \cap Items \subseteq r
  BY <1>1, DeepestIsReady
<1>3. \A r \in D : IsFiniteSet(Items \ r) /\ Cardinality(Items \ r) \in Nat
  BY FS_Subset, FS_CardinalityType
<1>4. m \in [D -> Nat] /\ \A r \in D : m[r] <= Cardinality(Items)
  BY <1>3, FS_Subset
<1>5. Cardinality(Items) \in Nat
  BY FS_CardinalityType
<1>6. ASSUME NEW r \in D, r \notin stop PROVE next[r] \in D /\ m[next[r]] < m[r]
  <2>1. Deepest(r) \notin Left /\ next[r] = r \cup {Deepest(r)} /\ m[r] = Cardinality(Items \ r)
    BY <1>6
  <2>2. next[r] \in D
    <3>1. Deepest(r) \in Items
      BY <1>2
    <3> HIDE DEF next
    <3> QED BY <2>1, <3>1
  <2>3. m[next[r]] = Cardinality(Items \ next[r])
    <3> HIDE DEF next
    <3> QED BY <2>2
  <2> HIDE DEF next, D, stop, m
  <2>4. Items \ next[r] = (Items \ r) \ {Deepest(r)} /\ Deepest(r) \in Items \ r
    BY <1>2, <2>1
  <2>5. /\ Cardinality(Items \ next[r]) = Cardinality(Items \ r) - 1
        /\ Cardinality(Items \ r) \in Nat
    <3>1. IsFiniteSet(Items \ r) /\ Cardinality(Items \ r) \in Nat
      BY <1>3
    <3> HIDE DEF Left
    <3>2. Cardinality((Items \ r) \ {Deepest(r)}) = Cardinality(Items \ r) - 1
      BY <2>4, <3>1, FS_RemoveElement
    <3> QED BY <2>4, <3>1, <3>2
  <2>6. Cardinality(Items \ next[r]) < Cardinality(Items \ r)
    BY <2>5
  <2> QED BY <2>1, <2>2, <2>3, <2>6
<1>7. Shrinks(m, Cardinality(Items), D, stop, next)
  BY <1>4, <1>5, <1>6 DEF Shrinks
<1>8. HandsOn(first, D, stop, val, next)
  <2>1. \A f : Order(f) = [r \in D |-> IF r \in stop THEN val[r] ELSE f[next[r]]]
    OBVIOUS
  <2> HIDE DEF D, stop, val, next, m, Order
  <2>2. \E f : HandsOn(f, D, stop, val, next)
    BY <1>7, TailRecursion
  <2>3. first = Order(first)
    BY <2>1, <2>2 DEF HandsOn
  <2> QED BY <2>1, <2>3 DEF HandsOn
<1>9. \A r \in D \cap I : r \notin stop => next[r] \in I
  <2> SUFFICES ASSUME NEW r \in D \cap I, r \notin stop PROVE next[r] \in I
    OBVIOUS
  <2>1. Deepest(r) \notin Left /\ next[r] = r \cup {Deepest(r)}
    OBVIOUS
  <2>2. next[r] \in D /\ r \cap Left = {}
    BY <1>6
  <2> HIDE DEF next, D
  <2> QED BY <2>1, <2>2
<1>10. \A r \in D \cap I : r \in stop => val[r] \in Q
  BY <1>1, <1>2
<1>11. {} \in D \cap I
  OBVIOUS
<1>12. first[{}] \in Q
  <2> HIDE DEF D, stop, val, next, m, first, I, Q
  <2>1. Leads(I, Q, D, stop, val, next)
    BY <1>9, <1>10 DEF Leads
  <2> QED BY <1>7, <1>8, <1>11, <2>1, TailInvariant
<1>13. InOrder = first[{}]
  BY DEF InOrder
<1> QED BY <1>12, <1>13

(* What runs in a sequential plan without cycles has all it depends on.     *)
Sequenced == mode = "sequential" /\ Acyclic =>
    \A i \in wave : \A d \in plan[i] \cap Items : result[d] \in {"ok", "taken"}

(* Only the choice of the next wave puts it at stake.                       *)
LEMMA NextSequenced == IInv /\ Sequenced /\ [Next]_vars => Sequenced'
<1> SUFFICES ASSUME IInv, Sequenced, [Next]_vars PROVE Sequenced'
  OBVIOUS
<1>1. ASSUME UNCHANGED <<plan, mode, result, wave>> PROVE Sequenced'
  BY <1>1 DEF Sequenced, Acyclic
<1>2. ASSUME wave' = {} PROVE Sequenced'
  BY <1>2 DEF Sequenced
<1>3. CASE Choose
  <2> SUFFICES ASSUME mode' = "sequential", Acyclic',
                      NEW i \in wave', NEW d \in plan'[i] \cap Items
               PROVE  result'[d] \in {"ok", "taken"}
    BY DEF Sequenced
  <2>1. mode = "sequential" /\ plan' = plan /\ Left # {} /\ wave = {}
    BY <1>3 DEF Choose, run, IInv, Waves
  <2>2. Acyclic
    BY <2>1 DEF Acyclic
  <2>3. /\ NextInLine /\ i = InOrder /\ result' = result
        /\ plan[i] \cap FailedIds = {}
    BY <1>3, <2>1 DEF Choose, SplitReady, NextInLine
  <2>4. d \in Done /\ d \notin FailedIds
    BY <2>1, <2>2, <2>3, InOrderIsReady DEF IInv
  <2>5. result[d] \in Results
    BY DEF IInv, TypeOK
  <2> QED BY <2>3, <2>4, <2>5 DEF Done, FailedIds, FailedResult, Outcomes, Results
<1>4. CASE ChooseOnly
  BY <1>4 DEF ChooseOnly, run, Sequenced
<1>5. CASE Repair \/ Resume
  BY <1>2, <1>5 DEF Repair, Resume, IInv, Waves
<1>6. CASE Merge \/ Crash
  BY <1>2, <1>6 DEF Merge, Crash
<1>7. CASE Begin \/ Gather \/ Return \/ Cancel \/ Finished \/ UNCHANGED vars
  BY <1>1, <1>7 DEF Begin, Gather, Return, Cancel, Finished, vars, run
<1>8. ASSUME NEW i \in Items, Attempt(i) \/ Complete(i) \/ Timeout(i) PROVE Sequenced'
  BY <1>1, <1>8 DEF Attempt, Complete, Timeout, run
<1>9. ASSUME NEW i \in Items, NEW k \in Attempts,
             ActivityRead(i, k) \/ ActivityWrite(i, k) \/ ThreadEnds(i, k)
      PROVE  Sequenced'
  BY <1>1, <1>9 DEF ActivityRead, ActivityWrite, ThreadEnds, run
<1> QED BY <1>3, <1>4, <1>5, <1>6, <1>7, <1>8, <1>9 DEF Next, Coordinate

-----------------------------------------------------------------------------
(* Every variable of the coordinator keeps its type.                        *)
THEOREM CoordinatorTypes == Spec => []TypeOK
<1>1. IInv => TypeOK
  BY DEF IInv
<1> QED BY <1>1, Invariance, PTL

(* An execution nobody cancelled returns a result for every subtask, or the *)
(* fallback result if all of them failed; the fallback hides no success.    *)
THEOREM NoSubtaskLost == Spec => []AllAccounted
<1>1. IInv => AllAccounted
  <2> SUFFICES ASSUME IInv PROVE AllAccounted
    OBVIOUS
  <2>1. ASSUME pc = "done", mode # "single", ~cancelled
        PROVE  IF FailedIds = Items THEN fallback ELSE Returned = Items
    <3>1. Done = Items
      BY <2>1 DEF IInv, Gathered, Left, Done
    <3>2. fallback <=> Done # {} /\ Done = FailedIds
      BY <2>1 DEF IInv, Fell
    <3> QED BY <3>1, <3>2 DEF Returned
  <2>2. ASSUME fallback, NEW i \in Items PROVE result[i] \in FailedResult \cup {"none"}
    <3>1. Done = FailedIds
      BY <2>2 DEF IInv, Fell
    <3> QED BY <3>1 DEF Done, FailedIds
  <2> QED BY <2>1, <2>2 DEF AllAccounted
<1> QED BY <1>1, Invariance, PTL

(* No subtask is started on a result that failed; one that was blocked      *)
(* before a resume is no failure to it.                                     *)
THEOREM FailedInputs == Spec => FailedInputsNeverUsed
<1>1. ASSUME IInv, [Next]_vars
      PROVE  [\A i \in Items : mode # "single" /\ Starts(i)
                => \A d \in plan[i] : d \in Items => result[d] \notin {"failed", "blocked"}]_vars
  BY <1>1, StartsByAttempt DEF IInv, Inputs, Attempt
<1> QED BY <1>1, Invariance, PTL DEF Spec, FailedInputsNeverUsed

(* What the registry holds as a success is not run again.                   *)
THEOREM NoRepetition == Spec => CompletedNotRepeated
<1>1. ASSUME IInv, [Next]_vars
      PROVE  [\A i \in Items : Starts(i) => i \notin finished]_vars
  <2>1. \A i \in Items : Attempt(i) => i \notin finished
    BY <1>1 DEF IInv, Held, Waves, Attempt
  <2> QED BY <1>1, <2>1, StartsByAttempt
<1> QED BY <1>1, Invariance, PTL DEF Spec, CompletedNotRepeated

(* One after the other: a subtask of a plan without cycles starts only when *)
(* all it depends on has been run, and has succeeded unless it was blocked  *)
(* before a resume.                                                         *)
THEOREM SequentialOrder == Spec => SequentialInputs
<1>1. Init => Sequenced
  BY DEF Init, Sequenced
<1>2. Spec => []Sequenced
  BY <1>1, NextSequenced, Invariance, PTL DEF Spec
<1>3. ASSUME IInv, Sequenced, [Next]_vars
      PROVE  [\A i \in Items : mode = "sequential" /\ Acyclic /\ Starts(i)
                => \A d \in plan[i] \cap Items : result[d] \in {"ok", "taken"}]_vars
  BY <1>3, StartsByAttempt DEF Sequenced, Attempt
<1> QED BY <1>2, <1>3, Invariance, PTL DEF Spec, SequentialInputs

-----------------------------------------------------------------------------
(***************************************************************************)
(* The event channel of an agent run.                                       *)
(***************************************************************************)
(* The listener goes on; what it reads, an item it holds, and all together   *)
(* what has reached the response or is on its way there.                     *)
Running == listen.pc \notin {"ended", "raised"}
Channel == IF FromRedis THEN log ELSE IF ReadFrom(box) = "none" THEN <<>> ELSE queue[ReadFrom(box)]
Hand == IF listen.item = Wait THEN 0 ELSE 1
Size == Len(delivered) + Hand + Len(Channel)
Chain == [k \in 1..Size |->
            IF k <= Len(delivered) THEN delivered[k]
            ELSE IF k <= Len(delivered) + Hand THEN listen.item
            ELSE Channel[k - Len(delivered) - Hand]]

IsEvent(item) == item.kind \notin {"none", "wait"}
NumbersTo(f, n) == {f[k].no : k \in {j \in 1..n : f[j].kind = "message"}}

Publishing ==
  /\ \A t \in Publishers :
       /\ ~At(t, "idle") => IsEvent(pub[t].item)
       /\ At(t, "mark") \/ At(t, "close") \/ At(t, "seal") => IsTerminal(pub[t].item)
       /\ At(t, "persist") \/ At(t, "seal") => FromRedis
       /\ ~At(t, "idle") /\ ~At(t, "mark") /\ IsTerminal(pub[t].item) => terminal # {}
  /\ ~At("listener", "idle") => pub["listener"].item.kind # "message"
  /\ ~At("agent", "idle") => pub["agent"].item.kind = "message" \/ IsTerminal(pub["agent"].item)
  /\ ~At("agent", "idle") /\ pub["agent"].item.kind = "message" => pub["agent"].item.no = agent.sent
  /\ listen.pc \in {"poll", "create", "ended", "raised"} => listen.item = Wait

Boxed == FromRedis /\ faults = 0 =>
  /\ listen.pc # "create"
  /\ \A b \in Boxes : queue[b] # <<>> => queue[b][1] # None
  /\ box # "none" => queue[ReadFrom(box)] # <<>>
  /\ \A t \in Publishers : At(t, "close") => box # "none"

(* A queue that a thread is about to make has never been used.               *)
Unused ==
  /\ listen.pc = "create" => At("listener", "idle")
  /\ \A t \in Publishers : At(t, "close") => box # "none"
  /\ Mode = "stream" =>
       /\ box = "none" => \A b \in Publishers : queue[b] = <<>>
       /\ \A t \in Publishers : At(t, "create") \/ (t = "listener" /\ listen.pc = "create") =>
            box # t /\ queue[t] = <<>>

Sealing(t) == At(t, "seal") \/ (At(t, "close") /\ ~FromRedis)
Explained == faults <= 1 /\ ~replaced =>
  /\ \A k \in 1..Size : Chain[k] = None => \E j \in 1..(k - 1) : IsTerminal(Chain[j])
  /\ \A t \in Publishers : Sealing(t) => \E j \in 1..Size : IsTerminal(Chain[j])

Busy(t) == At(t, "mark") \/ At(t, "put") \/ At(t, "create") \/ At(t, "persist") \/ (At(t, "close") /\ FromRedis)
Limited == ~FromRedis \/ faults = 0 =>
  \A i \in 1..Size : IsTerminal(Chain[i]) =>
    /\ terminal # {}
    /\ ~(Busy("agent") /\ Busy("listener"))
    /\ \A j \in 1..Size : i < j /\ IsEvent(Chain[j]) =>
         /\ \A t \in Publishers : ~Busy(t)
         /\ \A k \in 1..Size : i < k /\ IsEvent(Chain[k]) => k = j

Ordered == faults = 0 /\ ~replaced =>
  /\ \A k \in 1..Size : Chain[k].kind = "message" => NumbersTo(Chain, k - 1) = 1..(Chain[k].no - 1)
  /\ Busy("agent") /\ pub["agent"].item.kind = "message" => NumbersTo(Chain, Size) = 1..(agent.sent - 1)
  /\ At("agent", "idle") /\ terminal = {} => NumbersTo(Chain, Size) = 1..agent.sent

OnTheWay == Running => Explained /\ Limited /\ Ordered
QInv == QueueTypeOK /\ Publishing /\ Boxed /\ Unused /\ OnTheWay /\ EventsInOrder /\ ToldWhy /\ LittleAfterTheEnd

HIDE CoordinatorAssumption
USE AgentQueueAssumption

LEMMA ItemTypes ==
  /\ None \in QueueItems \ {Wait} /\ Wait \in QueueItems /\ None # Wait
  /\ \A k \in TerminalEvents \cup {"ping"} : Event(k) \in QueueItems \ {None, Wait}
  /\ \A n \in 1..MaxMessages : Message(n) \in QueueItems \ {None, Wait}
  /\ \A x \in QueueItems : IsEvent(x) <=> x \notin {None, Wait}
  /\ \A x \in QueueItems : IsTerminal(x) => IsEvent(x)
  /\ \A x \in QueueItems : x.kind = "message" => x.no \in 1..MaxMessages
<1>1. \A x \in QueueItems : \/ \E k \in TerminalEvents \cup {"ping", "none", "wait"} : x = Event(k)
                              \/ \E n \in 1..MaxMessages : x = Message(n)
  BY DEF QueueItems
<1>2. /\ \A k : Event(k).kind = k
      /\ \A n : Message(n).kind = "message" /\ Message(n).no = n
      /\ \A k \in TerminalEvents \cup {"ping", "none", "wait"} : Event(k) \in QueueItems
      /\ \A n \in 1..MaxMessages : Message(n) \in QueueItems
  BY DEF Event, Message, QueueItems
<1>3. None = Event("none") /\ Wait = Event("wait")
  BY DEF None, Wait
<1> QED BY <1>1, <1>2, <1>3 DEF TerminalEvents, IsEvent, IsTerminal

LEMMA Parts ==
  ASSUME QueueTypeOK
  PROVE  /\ Channel \in Seq(QueueItems \ {Wait}) /\ delivered \in Seq(QueueItems \ {None, Wait})
         /\ Hand \in {0, 1} /\ (Hand = 0 <=> listen.item = Wait)
         /\ Size \in Nat /\ Size = Len(delivered) + Hand + Len(Channel)
         /\ \A k \in 1..Len(delivered) : k \in 1..Size /\ Chain[k] = delivered[k]
         /\ Hand = 1 => Len(delivered) + 1 \in 1..Size /\ Chain[Len(delivered) + 1] = listen.item
         /\ \A k \in 1..Len(Channel) : /\ Len(delivered) + Hand + k \in 1..Size
                                       /\ Chain[Len(delivered) + Hand + k] = Channel[k]
         /\ \A k \in 1..Size : Chain[k] \in QueueItems
<1>1. Channel \in Seq(QueueItems \ {Wait}) /\ delivered \in Seq(QueueItems \ {None, Wait})
  <2>1. ReadFrom(box) # "none" => ReadFrom(box) \in Boxes
    BY DEF QueueTypeOK, ReadFrom, Boxes
  <2> QED BY <2>1 DEF QueueTypeOK, Channel
<1>2. Hand \in {0, 1} /\ (Hand = 0 <=> listen.item = Wait)
  BY DEF Hand
<1>3. Size \in Nat /\ Size = Len(delivered) + Hand + Len(Channel)
  BY <1>1, <1>2 DEF Size
<1>4. \A k \in 1..Size : Chain[k] = IF k <= Len(delivered) THEN delivered[k]
                                    ELSE IF k <= Len(delivered) + Hand THEN listen.item
                                    ELSE Channel[k - Len(delivered) - Hand]
  BY DEF Chain
<1>5. Len(delivered) \in Nat /\ Len(Channel) \in Nat
  BY <1>1
<1>6. \A k \in 1..Len(delivered) : k \in 1..Size /\ Chain[k] = delivered[k]
  BY <1>2, <1>3, <1>4, <1>5
<1>7. Hand = 1 => Len(delivered) + 1 \in 1..Size /\ Chain[Len(delivered) + 1] = listen.item
  BY <1>2, <1>3, <1>4, <1>5
<1>8. \A k \in 1..Len(Channel) : /\ Len(delivered) + Hand + k \in 1..Size
                                 /\ Chain[Len(delivered) + Hand + k] = Channel[k]
  BY <1>2, <1>3, <1>4, <1>5
<1>9. \A k \in 1..Size : Chain[k] \in QueueItems
  <2> SUFFICES ASSUME NEW k \in 1..Size PROVE Chain[k] \in QueueItems
    OBVIOUS
  <2>1. listen.item \in QueueItems
    BY DEF QueueTypeOK
  <2>2. CASE k <= Len(delivered)
    <3>1. k \in 1..Len(delivered)
      BY <1>3, <1>5, <2>2
    <3> QED BY <1>1, <1>6, <3>1
  <2>3. CASE k > Len(delivered) /\ k <= Len(delivered) + Hand
    BY <1>4, <1>5, <2>1, <2>3
  <2>4. CASE k > Len(delivered) + Hand
    <3>1. k - Len(delivered) - Hand \in 1..Len(Channel)
      BY <1>2, <1>3, <1>5, <2>4
    <3> QED BY <1>1, <1>2, <1>4, <1>5, <2>4, <3>1
  <2> QED BY <1>2, <1>3, <1>5, <2>2, <2>3, <2>4
<1> QED BY <1>1, <1>2, <1>3, <1>6, <1>7, <1>8, <1>9

(* The item that is taken is the first of what is read.                      *)
LEMMA TakenKeeps ==
  ASSUME QueueTypeOK, QueueTypeOK', listen.item = Wait, Channel # <<>>, delivered' = delivered,
         listen'.item = Head(Channel), Channel' = Tail(Channel)
  PROVE  Chain' = Chain /\ Size' = Size
<1>1. /\ Channel \in Seq(QueueItems \ {Wait}) /\ delivered \in Seq(QueueItems \ {None, Wait})
      /\ Hand = 0 /\ Head(Channel) = Channel[1] /\ Head(Channel) # Wait
  BY Parts
<1>2. Hand' = 1
  BY <1>1 DEF Hand
<1>3. Len(Channel') = Len(Channel) - 1 /\ Len(Channel) \in Nat /\ Len(delivered) \in Nat
      /\ \A k \in 1..Len(Channel) - 1 : Channel'[k] = Channel[k + 1]
  BY <1>1
<1>4. Size' = Size /\ Size = Len(delivered) + Len(Channel)
  BY <1>1, <1>2, <1>3 DEF Size
<1>5. ASSUME NEW k \in 1..Size
      PROVE  (IF k <= Len(delivered) THEN delivered[k]
              ELSE IF k <= Len(delivered) + Hand THEN listen.item
              ELSE Channel[k - Len(delivered) - Hand])
           = (IF k <= Len(delivered') THEN delivered'[k]
              ELSE IF k <= Len(delivered') + Hand' THEN listen'.item
              ELSE Channel'[k - Len(delivered') - Hand'])
  <2>1. CASE k <= Len(delivered)
    BY <2>1
  <2>2. CASE k = Len(delivered) + 1
    BY <1>1, <1>2, <1>3, <2>2
  <2>3. CASE k > Len(delivered) + 1
    <3>1. k - Len(delivered) - 1 \in 1..Len(Channel) - 1
          /\ (k - Len(delivered) - 1) + 1 = k - Len(delivered) - Hand
      BY <1>1, <1>3, <1>4, <2>3
    <3>2. Channel'[k - Len(delivered) - 1] = Channel[k - Len(delivered) - Hand]
      BY <1>3, <3>1
    <3> QED BY <1>1, <1>2, <1>3, <1>4, <2>3, <3>2
  <2>4. k <= Len(delivered) \/ k = Len(delivered) + 1 \/ k > Len(delivered) + 1
    BY <1>3, <1>4
  <2> QED BY <2>1, <2>2, <2>3, <2>4
<1> QED BY <1>4, <1>5 DEF Chain

(* An event is handed over.                                                  *)
LEMMA YieldedKeeps ==
  ASSUME QueueTypeOK, QueueTypeOK', listen.item # Wait, listen'.item = Wait,
         delivered' = Append(delivered, listen.item), Channel' = Channel
  PROVE  Chain' = Chain /\ Size' = Size
<1>1. /\ Channel \in Seq(QueueItems \ {Wait}) /\ delivered \in Seq(QueueItems \ {None, Wait})
      /\ Hand = 1
  BY Parts
<1>2. Hand' = 0
  BY DEF Hand
<1>3. /\ Len(delivered') = Len(delivered) + 1 /\ Len(Channel) \in Nat /\ Len(delivered) \in Nat
      /\ \A k \in 1..Len(delivered) : delivered'[k] = delivered[k]
      /\ delivered'[Len(delivered) + 1] = listen.item
  BY <1>1
<1>4. Size' = Size /\ Size = Len(delivered) + 1 + Len(Channel)
  BY <1>1, <1>2, <1>3 DEF Size
<1>5. ASSUME NEW k \in 1..Size
      PROVE  (IF k <= Len(delivered) THEN delivered[k]
              ELSE IF k <= Len(delivered) + Hand THEN listen.item
              ELSE Channel[k - Len(delivered) - Hand])
           = (IF k <= Len(delivered') THEN delivered'[k]
              ELSE IF k <= Len(delivered') + Hand' THEN listen'.item
              ELSE Channel'[k - Len(delivered') - Hand'])
  <2>1. CASE k <= Len(delivered)
    BY <1>3, <1>4, <2>1
  <2>2. CASE k = Len(delivered) + 1
    BY <1>1, <1>2, <1>3, <2>2
  <2>3. CASE k > Len(delivered) + 1
    BY <1>1, <1>2, <1>3, <1>4, <2>3
  <2> QED BY <1>3, <1>4, <2>1, <2>2, <2>3
<1> QED BY <1>4, <1>5 DEF Chain

(* A put adds to the end, or to a new queue, and what was in the channel goes. *)
LEMMA PutGrows ==
  ASSUME QueueTypeOK, QueueTypeOK', UNCHANGED <<delivered, listen>>, NEW x,
         Channel' = Append(Channel, x) \/ Channel' = <<x>>
  PROVE  \E n \in 0..Size :
            /\ Size' = n + 1 /\ Size \in Nat
            /\ Channel' = Append(Channel, x) => n = Size
            /\ \A k \in 1..n : Chain'[k] = Chain[k]
            /\ Chain'[n + 1] = x
<1>1. /\ Channel \in Seq(QueueItems \ {Wait}) /\ delivered \in Seq(QueueItems \ {None, Wait})
      /\ Hand \in {0, 1} /\ Size \in Nat /\ Size = Len(delivered) + Hand + Len(Channel)
  BY Parts
<1>2. Hand' = Hand
  BY DEF Hand
<1>3. Len(Channel) \in Nat /\ Len(delivered) \in Nat
  BY <1>1
<1>4. PICK m \in Nat :
         /\ m <= Len(Channel) /\ (Channel' = Append(Channel, x) => m = Len(Channel))
         /\ Len(Channel') = m + 1
         /\ \A k \in 1..m : Channel'[k] = Channel[k]
         /\ Channel'[m + 1] = x
  <2>1. CASE Channel' = Append(Channel, x)
    <3>1. /\ Len(Channel') = Len(Channel) + 1
          /\ \A k \in 1..Len(Channel) : Channel'[k] = Channel[k]
          /\ Channel'[Len(Channel) + 1] = x
      BY <1>1, <1>3, <2>1
    <3> QED BY <1>3, <3>1
  <2>2. CASE Channel' = <<x>> /\ Channel' # Append(Channel, x)
    <3>1. Len(Channel') = 1 /\ Channel'[1] = x
      BY <2>2
    <3>2. 0 \in Nat /\ 0 <= Len(Channel) /\ 0 + 1 = 1 /\ 1..0 = {}
      BY <1>3
    <3> QED BY <2>2, <3>1, <3>2
  <2> QED BY <2>1, <2>2
<1> DEFINE n == Len(delivered) + Hand + m
<1>5. n \in 0..Size /\ n \in Nat /\ (Channel' = Append(Channel, x) => n = Size)
  <2>1. Hand \in Nat /\ m \in Nat /\ Len(delivered) \in Nat /\ m <= Len(Channel)
    BY <1>1, <1>3, <1>4
  <2>2. n \in 0..Size /\ n \in Nat
    BY <1>1, <1>3, <2>1
  <2>3. m = Len(Channel) => n = Size
    BY <1>1
  <2> QED BY <1>4, <2>2, <2>3
<1>6. Size' = n + 1
  <2>1. Size' = Len(delivered) + Hand + (m + 1)
    BY <1>2, <1>4 DEF Size
  <2>2. Hand \in Nat /\ m \in Nat /\ Len(delivered) \in Nat
    BY <1>1, <1>3, <1>4
  <2> QED BY <2>1, <2>2
<1>7. \A k \in 1..Size' : Chain'[k] = IF k <= Len(delivered) THEN delivered[k]
                                     ELSE IF k <= Len(delivered) + Hand THEN listen.item
                                     ELSE Channel'[k - Len(delivered) - Hand]
  BY <1>2 DEF Chain
<1>8. \A k \in 1..Size : Chain[k] = IF k <= Len(delivered) THEN delivered[k]
                                    ELSE IF k <= Len(delivered) + Hand THEN listen.item
                                    ELSE Channel[k - Len(delivered) - Hand]
  BY DEF Chain
<1>9. ASSUME NEW k \in 1..n PROVE Chain'[k] = Chain[k]
  <2>1. k \in 1..Size' /\ k \in 1..Size
    BY <1>1, <1>5, <1>6
  <2>2. CASE k <= Len(delivered) + Hand
    BY <1>7, <1>8, <2>1, <2>2
  <2>3. CASE k > Len(delivered) + Hand
    <3>1. k - Len(delivered) - Hand \in 1..m
      <4>1. Hand \in Nat /\ k \in Nat
        BY <1>1, <1>5
      <4> QED BY <1>3, <1>4, <2>3, <4>1
    <3> QED BY <1>1, <1>3, <1>4, <1>7, <1>8, <2>1, <2>3, <3>1
  <2> QED BY <1>1, <1>3, <2>2, <2>3
<1>10. Chain'[n + 1] = x
  <2>1. n + 1 \in 1..Size' /\ (n + 1) - Len(delivered) - Hand = m + 1
        /\ ~(n + 1 <= Len(delivered)) /\ ~(n + 1 <= Len(delivered) + Hand)
    <3>1. Hand \in Nat
      BY <1>1
    <3>2. Len(delivered) \in Nat /\ m \in Nat
      BY <1>3, <1>4
    <3>3. n + 1 \in 1..Size'
      BY <1>5, <1>6
    <3> QED BY <3>1, <3>2, <3>3
  <2> QED BY <1>4, <1>7, <2>1
<1> HIDE DEF n
<1> QED BY <1>1, <1>5, <1>6, <1>9, <1>10

-----------------------------------------------------------------------------
LEMMA InitQInv == QueueInit => QInv
<1> SUFFICES ASSUME QueueInit PROVE QInv
  OBVIOUS
<1> USE DEF QueueInit
<1>1. QueueTypeOK
  <2>1. /\ None \in QueueItems /\ Wait \in QueueItems /\ <<>> \in Seq(QueueItems \ {Wait})
        /\ <<>> \in Seq(QueueItems \ {None, Wait})
    BY ItemTypes
  <2>2. pub \in [Publishers -> [pc : {"idle", "mark", "put", "create", "close", "persist", "seal"}, item : QueueItems]]
    BY <2>1
  <2>3. queue \in [Boxes -> Seq(QueueItems \ {Wait})]
    BY <2>1
  <2>4. agent \in [sent : 0..MaxMessages, endings : 0..MaxEndings]
        /\ pings \in 0..MaxPings /\ faults \in 0..MaxFaults
    OBVIOUS
  <2>5. listen \in [pc : {"poll", "create", "ping", "timeout", "stop", "yield", "ended", "raised"},
                    item : QueueItems]
    BY <2>1
  <2>6. setup \in Setups /\ box \in Boxes \cup {"none"} /\ terminal \subseteq TerminalEvents
        /\ late \in BOOLEAN /\ replaced \in BOOLEAN /\ log \in Seq(QueueItems \ {Wait}) /\ delivered \in Seq(QueueItems \ {None, Wait})
    BY <2>1
  <2> QED BY <2>2, <2>3, <2>4, <2>5, <2>6 DEF QueueTypeOK
<1>2. \A t \in Publishers : At(t, "idle")
  BY DEF At
<1>3. Size = 0
  <2>1. Channel = <<>>
    BY DEF Channel, ReadFrom, Boxes
  <2>2. Hand = 0 /\ Len(delivered) = 0
    BY DEF Hand
  <2> QED BY <2>1, <2>2 DEF Size
<1>4. Publishing
  BY <1>2 DEF Publishing, At, Publishers
<1>5. Boxed /\ Unused
  BY <1>2 DEF Boxed, Unused, At, Boxes, Publishers
<1>6. OnTheWay
  <2>1. Explained /\ Limited
    BY <1>2, <1>3 DEF Explained, Limited, Sealing, At
  <2>2. NumbersTo(Chain, Size) = {}
    BY <1>3 DEF NumbersTo
  <2>3. ~Busy("agent") /\ agent.sent = 0
    BY <1>2 DEF Busy, At, Publishers
  <2> QED BY <1>3, <2>1, <2>2, <2>3 DEF OnTheWay, Ordered
<1>7. EventsInOrder /\ ToldWhy /\ LittleAfterTheEnd
  BY DEF EventsInOrder, ToldWhy, LittleAfterTheEnd
<1> QED BY <1>1, <1>4, <1>5, <1>6, <1>7 DEF QInv

(* Taking up an event, or dropping it.                                       *)
LEMMA PublishFacts ==
  ASSUME QueueTypeOK, NEW t \in Publishers, NEW x \in QueueItems, Publish(t, x)
  PROVE  /\ pub' \in [Publishers -> [pc : {"idle", "mark", "put", "create", "close", "persist", "seal"}, item : QueueItems]]
         /\ At(t, "idle")
         /\ \A u \in Publishers : u # t => pub'[u] = pub[u]
         /\ terminal # {} => pub' = pub
         /\ terminal = {} => /\ pub'[t].item = x
                             /\ pub'[t].pc = IF IsTerminal(x) THEN "mark" ELSE "put"
<1>1. pub \in [Publishers -> [pc : {"idle", "mark", "put", "create", "close", "persist", "seal"}, item : QueueItems]]
  BY DEF QueueTypeOK
<1>2. CASE terminal = {}
  BY <1>1, <1>2 DEF Publish
<1>3. CASE terminal # {}
  <2>1. pub' = pub
    BY <1>1, <1>3 DEF Publish
  <2> QED BY <1>1, <1>3, <2>1 DEF Publish
<1> QED BY <1>2, <1>3

(* Going on inside publish.                                                  *)
LEMMA GoesFacts ==
  ASSUME QueueTypeOK, NEW t \in Publishers,
         NEW next \in {"idle", "mark", "put", "create", "close", "persist", "seal"}, Goes(t, next)
  PROVE  /\ pub' \in [Publishers -> [pc : {"idle", "mark", "put", "create", "close", "persist", "seal"}, item : QueueItems]]
         /\ \A u \in Publishers : u # t => pub'[u] = pub[u]
         /\ pub'[t].pc = next /\ pub'[t].item = pub[t].item
  BY DEF Goes, QueueTypeOK

(* The actions of one thread in publish.                                     *)
LEMMA PublishTypes ==
  ASSUME QueueTypeOK, Publishing, NEW t \in Publishers,
         PublishStep(t) \/ PersistFails(t) \/ QueueRaises(t)
  PROVE  QueueTypeOK'
<1> USE DEF QueueTypeOK
<1>1. /\ AfterPut(t) \in {"idle", "close", "persist"}
      /\ (IF FromRedis THEN "persist" ELSE "idle") \in {"idle", "persist"}
      /\ \A b \in Boxes : ReadFrom(b) \in Boxes
  BY DEF AfterPut, ReadFrom, Boxes
<1>2. pub[t].item \in QueueItems /\ None \in QueueItems \ {Wait} /\ Wait \in QueueItems
  BY ItemTypes
<1>3. ~At(t, "idle") => pub[t].item \in QueueItems \ {Wait}
  BY <1>2, ItemTypes DEF Publishing
<1>4. CASE MarkTerminal(t)
  <2>1. pub[t].item.kind \in TerminalEvents
    BY <1>4 DEF MarkTerminal, Publishing, IsTerminal
  <2> QED BY <1>4, <2>1, GoesFacts DEF MarkTerminal
<1>5. CASE Missing(t)
  BY <1>5, GoesFacts DEF Missing
<1>6. CASE Put(t)
  <2>1. box' \in Boxes /\ ReadFrom(box') \in Boxes
    BY <1>1, <1>6 DEF Put, Install, Boxes
  <2>2. pub[t].item \in QueueItems \ {Wait}
    BY <1>3, <1>6 DEF Put, At
  <2>3. queue' \in [Boxes -> Seq(QueueItems \ {Wait})]
    <3> HIDE DEF Boxes
    <3>1. Append(queue[ReadFrom(box')], pub[t].item) \in Seq(QueueItems \ {Wait})
      BY <2>1, <2>2
    <3> QED BY <1>6, <2>1, <3>1 DEF Put
  <2>4. pub' \in [Publishers -> [pc : {"idle", "mark", "put", "create", "close", "persist", "seal"}, item : QueueItems]]
    BY <1>1, <1>6, GoesFacts DEF Put
  <2>5. replaced' \in BOOLEAN
    BY <1>6 DEF Put, Install
  <2> QED BY <1>6, <2>1, <2>3, <2>4, <2>5 DEF Put
<1>7. CASE StopListen(t)
  <2>1. queue' \in [Boxes -> Seq(QueueItems \ {Wait})]
    <3>1. \A b \in Boxes : Append(queue[b], None) \in Seq(QueueItems \ {Wait})
      BY <1>2
    <3> QED BY <1>7, <3>1 DEF StopListen
  <2>2. pub' \in [Publishers -> [pc : {"idle", "mark", "put", "create", "close", "persist", "seal"}, item : QueueItems]]
    BY <1>1, <1>7, GoesFacts DEF StopListen
  <2> QED BY <1>7, <2>1, <2>2 DEF StopListen
<1>8. CASE Persist(t)
  <2>1. pub[t].item \in QueueItems \ {Wait}
    BY <1>3, <1>8 DEF Persist, At
  <2>2. log' \in Seq(QueueItems \ {Wait})
    BY <1>8, <2>1 DEF Persist
  <2>3. pub' \in [Publishers -> [pc : {"idle", "mark", "put", "create", "close", "persist", "seal"}, item : QueueItems]]
    BY <1>8, GoesFacts DEF Persist
  <2> QED BY <1>8, <2>2, <2>3 DEF Persist
<1>9. CASE Seal(t)
  <2>1. log' \in Seq(QueueItems \ {Wait})
    BY <1>2, <1>9 DEF Seal
  <2> QED BY <1>9, <2>1, GoesFacts DEF Seal
<1>10. CASE PersistFails(t)
  BY <1>10, GoesFacts DEF PersistFails
<1>11. CASE QueueRaises(t)
  <2>1. listen' \in [pc : {"poll", "create", "ping", "timeout", "stop", "yield", "ended", "raised"}, item : QueueItems]
    BY <1>2, <1>11 DEF QueueRaises
  <2> QED BY <1>11, <2>1, GoesFacts DEF QueueRaises
<1> QED BY <1>4, <1>5, <1>6, <1>7, <1>8, <1>9, <1>10, <1>11 DEF PublishStep

(* What the listener takes from a queue.                                     *)
LEMMA PollTypes ==
  ASSUME QueueTypeOK, listen.pc = "poll", Poll
  PROVE  /\ listen' \in [pc : {"create", "ping"}, item : QueueItems]
         /\ queue' \in [Boxes -> Seq(QueueItems \ {Wait})]
<1>1. Wait \in QueueItems
  BY ItemTypes
<1>2. CASE ReadFrom(box) = "none"
  BY <1>2 DEF Poll, QueueTypeOK
<1>3. CASE ReadFrom(box) # "none"
  <2>1. ReadFrom(box) \in Boxes
    BY <1>3 DEF ReadFrom, QueueTypeOK, Boxes
  <2>2. queue[ReadFrom(box)] \in Seq(QueueItems \ {Wait})
    BY <2>1 DEF QueueTypeOK
  <2>3. CASE queue[ReadFrom(box)] = <<>>
    BY <1>1, <1>3, <2>3 DEF Poll, Took, QueueTypeOK
  <2>4. CASE queue[ReadFrom(box)] # <<>>
    <3>1. /\ Head(queue[ReadFrom(box)]) \in QueueItems
          /\ Tail(queue[ReadFrom(box)]) \in Seq(QueueItems \ {Wait})
      BY <2>2, <2>4
    <3>2. listen' = [pc |-> "ping", item |-> Head(queue[ReadFrom(box)])]
          /\ queue' = [queue EXCEPT ![ReadFrom(box)] = Tail(@)]
      BY <1>3, <2>4 DEF Poll, Took
    <3> QED BY <2>1, <3>1, <3>2 DEF QueueTypeOK
  <2> QED BY <2>3, <2>4
<1> QED BY <1>2, <1>3

(* The listener and the agent.                                               *)
LEMMA ListenTypes ==
  ASSUME QueueTypeOK, ListenStep \/ PopFails \/ ListenRaises
  PROVE  QueueTypeOK'
<1> USE DEF QueueTypeOK, Listening
<1>1. /\ Wait \in QueueItems /\ Event("ping") \in QueueItems /\ Event("timeout") \in QueueItems
      /\ Event("stop") \in QueueItems
  BY ItemTypes DEF TerminalEvents
<1>2. CASE Pop
  <2>1. CASE log = <<>>
    BY <1>1, <1>2, <2>1 DEF Pop, Took
  <2>2. CASE log # <<>>
    <3>1. Head(log) \in QueueItems /\ Tail(log) \in Seq(QueueItems \ {Wait})
      BY <2>2
    <3>2. /\ log' = Tail(log) /\ listen' = [pc |-> "ping", item |-> Head(log)]
          /\ UNCHANGED <<setup, box, queue, replaced, terminal, pub, delivered, agent, late, pings, faults>>
      BY <1>2, <2>2 DEF Pop, Took
    <3>3. listen' \in [pc : {"poll", "create", "ping", "timeout", "stop", "yield", "ended", "raised"},
                       item : QueueItems] /\ log' \in Seq(QueueItems \ {Wait})
      BY <3>1, <3>2
    <3> QED BY <3>2, <3>3
  <2> QED BY <2>1, <2>2
<1>3. CASE Get \/ PopFails
  <2>1. listen' \in [pc : {"poll", "create", "ping", "timeout", "stop", "yield", "ended", "raised"}, item : QueueItems]
        /\ queue' \in [Boxes -> Seq(QueueItems \ {Wait})]
    BY <1>3, PollTypes DEF Get, PopFails
  <2> QED BY <1>3, <2>1 DEF Get, PopFails
<1>4. CASE MakeQueue
  BY <1>1, <1>4 DEF MakeQueue, Install, Took, Boxes, Publishers
<1>5. CASE Ping
  <2>1. pub' \in [Publishers -> [pc : {"idle", "mark", "put", "create", "close", "persist", "seal"}, item : QueueItems]]
    BY <1>1, <1>5, PublishFacts DEF Ping, Publishers
  <2>2. pings' \in 0..MaxPings
    BY <1>5 DEF Ping
  <2> QED BY <1>5, <2>1, <2>2 DEF Ping
<1>6. CASE ListenTimeout
  BY <1>1, <1>6, PublishFacts DEF ListenTimeout, Publishers
<1>7. CASE Stop
  BY <1>1, <1>7, PublishFacts DEF Stop, Publishers
<1>8. CASE Yield
  <2>1. listen.item \notin {Wait, None} => Append(delivered, listen.item) \in Seq(QueueItems \ {None, Wait})
    OBVIOUS
  <2> QED BY <1>1, <1>8, <2>1 DEF Yield
<1>9. CASE ListenRaises
  BY <1>1, <1>9 DEF ListenRaises
<1> QED BY <1>2, <1>3, <1>4, <1>5, <1>6, <1>7, <1>8, <1>9 DEF ListenStep

LEMMA AgentTypes ==
  ASSUME QueueTypeOK, Say \/ Conclude \/ TimePasses
  PROVE  QueueTypeOK'
<1>1. agent \in [sent : 0..MaxMessages, endings : 0..MaxEndings]
  BY DEF QueueTypeOK
<1>2. CASE Say
  <2>1. agent.sent + 1 \in 1..MaxMessages /\ agent' \in [sent : 0..MaxMessages, endings : 0..MaxEndings]
    BY <1>1, <1>2 DEF Say
  <2>2. Message(agent.sent + 1) \in QueueItems /\ Publish("agent", Message(agent.sent + 1))
    BY <1>2, <2>1, ItemTypes DEF Say
  <2>3. pub' \in [Publishers -> [pc : {"idle", "mark", "put", "create", "close", "persist", "seal"}, item : QueueItems]]
    BY <2>2, PublishFacts DEF Publishers
  <2> QED BY <1>2, <2>1, <2>3 DEF Say, QueueTypeOK
<1>3. CASE Conclude
  <2>1. agent' \in [sent : 0..MaxMessages, endings : 0..MaxEndings]
    BY <1>1, <1>3 DEF Conclude
  <2>2. PICK k \in {"end", "error", "timeout"} : Publish("agent", Event(k))
    BY <1>3 DEF Conclude
  <2>3. Event(k) \in QueueItems
    BY ItemTypes DEF TerminalEvents
  <2>4. pub' \in [Publishers -> [pc : {"idle", "mark", "put", "create", "close", "persist", "seal"}, item : QueueItems]]
    BY <2>2, <2>3, PublishFacts DEF Publishers
  <2> QED BY <1>3, <2>1, <2>4 DEF Conclude, QueueTypeOK
<1>4. CASE TimePasses
  BY <1>4 DEF TimePasses, QueueTypeOK
<1> QED BY <1>2, <1>3, <1>4

LEMMA NextTypes == ASSUME QueueTypeOK, Publishing, [QueueNext]_queueVars PROVE QueueTypeOK'
<1>1. CASE UNCHANGED queueVars
  BY <1>1 DEF queueVars, QueueTypeOK
<1> QED BY <1>1, PublishTypes, ListenTypes, AgentTypes DEF QueueNext

-----------------------------------------------------------------------------
(* Who may be where in publish stays as it is.                               *)
LEMMA PublishingStep ==
  ASSUME QueueTypeOK, Publishing, NEW t \in Publishers,
         PublishStep(t) \/ PersistFails(t) \/ QueueRaises(t)
  PROVE  Publishing'
<1> USE DEF At
<1>1. PICK next \in {"idle", "mark", "put", "create", "close", "persist", "seal"} : Goes(t, next)
  BY DEF PublishStep, MarkTerminal, Missing, Put, StopListen, Persist, Seal, PersistFails, QueueRaises, AfterPut
<1>2. /\ \A u \in Publishers : u # t => pub'[u] = pub[u]
      /\ pub'[t].pc = next /\ pub'[t].item = pub[t].item
  BY <1>1, GoesFacts
<1>3. /\ agent' = agent /\ setup' = setup /\ terminal \subseteq terminal'
      /\ pub[t].pc # "idle"
  BY DEF PublishStep, MarkTerminal, Missing, Put, StopListen, Persist, Seal, PersistFails, QueueRaises
<1>4. \/ listen' = listen
      \/ listen' = [pc |-> "raised", item |-> Wait]
  BY DEF PublishStep, MarkTerminal, Missing, Put, StopListen, Persist, Seal, PersistFails, QueueRaises
<1>5. /\ next \in {"close", "seal"} => IsTerminal(pub[t].item)
      /\ next # "mark"
      /\ next \in {"persist", "seal"} => FromRedis
      /\ next # "idle" /\ IsTerminal(pub[t].item) => terminal' # {}
  <2>1. CASE MarkTerminal(t)
    BY <1>2, <2>1 DEF MarkTerminal, Goes, QueueTypeOK
  <2>2. CASE ~MarkTerminal(t)
    <3>1. next \in {"close", "seal"} => IsTerminal(pub[t].item)
      BY <1>2, <2>2, GoesFacts DEF PublishStep, Missing, Put, StopListen, Persist, Seal, PersistFails, QueueRaises,
         AfterPut, Publishing, Goes, QueueTypeOK
    <3>2. next # "mark" /\ (next \in {"persist", "seal"} => FromRedis) /\ pub[t].pc # "mark"
      BY <1>2, <2>2, GoesFacts DEF PublishStep, Missing, Put, StopListen, Persist, Seal, PersistFails, QueueRaises,
         AfterPut, Publishing, Goes, QueueTypeOK
    <3> QED BY <1>3, <3>1, <3>2 DEF Publishing
  <2> QED BY <2>1, <2>2
<1>6. FromRedis' <=> FromRedis
  BY <1>3 DEF FromRedis
<1>7. ASSUME NEW u \in Publishers
      PROVE  /\ pub'[u].pc # "idle" => IsEvent(pub'[u].item)
             /\ pub'[u].pc \in {"mark", "close", "seal"} => IsTerminal(pub'[u].item)
             /\ pub'[u].pc \in {"persist", "seal"} => FromRedis'
             /\ pub'[u].pc \notin {"idle", "mark"} /\ IsTerminal(pub'[u].item) => terminal' # {}
  <2>1. CASE u = t
    BY <1>2, <1>3, <1>5, <1>6, <2>1 DEF Publishing
  <2>2. CASE u # t
    BY <1>2, <1>3, <1>6, <2>2 DEF Publishing
  <2> QED BY <2>1, <2>2
<1>8. \A u \in Publishers : pub'[u].item = pub[u].item /\ (pub'[u].pc # "idle" => pub[u].pc # "idle")
  BY <1>2, <1>3
<1>9. /\ pub'["listener"].pc # "idle" => pub'["listener"].item.kind # "message"
      /\ pub'["agent"].pc # "idle" => pub'["agent"].item.kind = "message" \/ IsTerminal(pub'["agent"].item)
      /\ pub'["agent"].pc # "idle" /\ pub'["agent"].item.kind = "message" => pub'["agent"].item.no = agent'.sent
  BY <1>3, <1>8 DEF Publishing, Publishers
<1>10. listen'.pc \in {"poll", "create", "ended", "raised"} => listen'.item = Wait
  BY <1>4 DEF Publishing
<1> QED BY <1>7, <1>9, <1>10 DEF Publishing, IsEvent, IsTerminal

(* A thread that takes up an event of its own kind.                          *)
LEMMA PublishingOpen ==
  ASSUME QueueTypeOK, Publishing, NEW t \in Publishers, NEW x \in QueueItems, Publish(t, x),
         UNCHANGED <<setup, terminal>>, IsEvent(x),
         t = "listener" => x.kind # "message",
         t = "agent" => IsTerminal(x) \/ (x.kind = "message" /\ x.no = agent'.sent),
         t = "listener" => agent' = agent,
         listen'.pc \in {"poll", "create", "ended", "raised"} => listen'.item = Wait
  PROVE  Publishing'
<1> USE DEF At
<1>1. /\ pub[t].pc = "idle" /\ \A u \in Publishers : u # t => pub'[u] = pub[u]
      /\ terminal # {} => pub' = pub
      /\ terminal = {} => pub'[t].item = x /\ pub'[t].pc = IF IsTerminal(x) THEN "mark" ELSE "put"
  BY PublishFacts
<1>2. \A u \in Publishers : u = t \/ pub'[u] = pub[u]
  BY <1>1
<1>3. pub'[t].pc = "idle" \/ (pub'[t].item = x /\ pub'[t].pc = IF IsTerminal(x) THEN "mark" ELSE "put")
  BY <1>1
<1>4. (FromRedis' <=> FromRedis) /\ terminal' = terminal
  BY DEF FromRedis
<1>5. ASSUME NEW u \in Publishers
      PROVE  /\ pub'[u].pc # "idle" => IsEvent(pub'[u].item)
             /\ pub'[u].pc \in {"mark", "close", "seal"} => IsTerminal(pub'[u].item)
             /\ pub'[u].pc \in {"persist", "seal"} => FromRedis'
             /\ pub'[u].pc \notin {"idle", "mark"} /\ IsTerminal(pub'[u].item) => terminal' # {}
  <2>1. CASE u = t
    BY <1>3, <2>1
  <2>2. CASE u # t
    BY <1>2, <1>4, <2>2 DEF Publishing
  <2> QED BY <2>1, <2>2
<1>6. /\ pub'["listener"].pc # "idle" => pub'["listener"].item.kind # "message"
      /\ pub'["agent"].pc # "idle" => pub'["agent"].item.kind = "message" \/ IsTerminal(pub'["agent"].item)
      /\ pub'["agent"].pc # "idle" /\ pub'["agent"].item.kind = "message" => pub'["agent"].item.no = agent'.sent
  <2>1. CASE t = "listener"
    BY <1>2, <1>3, <2>1 DEF Publishing, Publishers
  <2>2. CASE t = "agent"
    <3>1. IsTerminal(x) => x.kind # "message"
      BY DEF IsTerminal, TerminalEvents
    <3> QED BY <1>2, <1>3, <2>2, <3>1 DEF Publishing, Publishers
  <2> QED BY <2>1, <2>2 DEF Publishers
<1> QED BY <1>5, <1>6 DEF Publishing, IsEvent, IsTerminal

(* The other steps leave the threads where they are.                         *)
LEMMA PublishingIdle ==
  ASSUME QueueTypeOK, Publishing, UNCHANGED <<pub, setup, terminal, agent>>,
         listen'.pc \in {"poll", "create", "ended", "raised"} => listen'.item = Wait
  PROVE  Publishing'
  BY DEF Publishing, At, FromRedis

LEMMA NextPublishing == ASSUME QueueTypeOK, Publishing, [QueueNext]_queueVars PROVE Publishing'
<1>1. /\ \A k \in {"ping", "timeout", "stop", "end", "error"} : Event(k) \in QueueItems /\ IsEvent(Event(k))
      /\ \A k \in {"ping", "timeout", "stop", "end", "error"} : Event(k).kind = k
      /\ \A k \in {"timeout", "end", "error"} : IsTerminal(Event(k))
      /\ \A n \in 1..MaxMessages : /\ Message(n) \in QueueItems /\ IsEvent(Message(n))
                                   /\ Message(n).kind = "message" /\ Message(n).no = n
  BY ItemTypes DEF TerminalEvents, IsTerminal, Event, Message, IsEvent
<1>2. listen.pc \in {"poll", "create", "ended", "raised"} => listen.item = Wait
  BY DEF Publishing
<1>3. listen \in [pc : {"poll", "create", "ping", "timeout", "stop", "yield", "ended", "raised"}, item : QueueItems]
  BY DEF QueueTypeOK
<1>4. CASE UNCHANGED queueVars
  BY <1>2, <1>4, PublishingIdle DEF queueVars
<1>5. CASE Say
  <2>1. agent.sent + 1 \in 1..MaxMessages /\ agent'.sent = agent.sent + 1 /\ agent' # agent
    BY <1>5 DEF Say, QueueTypeOK
  <2>2. Publish("agent", Message(agent.sent + 1)) /\ UNCHANGED <<setup, terminal, listen>>
    BY <1>5 DEF Say
  <2> QED BY <1>1, <1>2, <2>1, <2>2, PublishingOpen DEF Publishers
<1>6. CASE Conclude
  <2>1. PICK k \in {"end", "error", "timeout"} : Publish("agent", Event(k))
    BY <1>6 DEF Conclude
  <2>2. UNCHANGED <<setup, terminal, listen>>
    BY <1>6 DEF Conclude
  <2> QED BY <1>1, <1>2, <2>1, <2>2, PublishingOpen DEF Publishers
<1>7. CASE Ping
  <2>1. listen'.pc = "timeout" /\ UNCHANGED <<setup, terminal, agent>>
    BY <1>3, <1>7 DEF Ping
  <2>2. CASE UNCHANGED pub
    BY <2>1, <2>2, PublishingIdle
  <2>3. CASE Publish("listener", Event("ping"))
    BY <1>1, <2>1, <2>3, PublishingOpen DEF Publishers
  <2> QED BY <1>7, <2>2, <2>3 DEF Ping
<1>8. CASE ListenTimeout
  <2>1. listen'.pc = "stop" /\ UNCHANGED <<setup, terminal, agent>>
    BY <1>3, <1>8 DEF ListenTimeout
  <2>2. CASE UNCHANGED pub
    BY <2>1, <2>2, PublishingIdle
  <2>3. CASE Publish("listener", Event("timeout"))
    BY <1>1, <2>1, <2>3, PublishingOpen DEF Publishers
  <2> QED BY <1>8, <2>2, <2>3 DEF ListenTimeout
<1>9. CASE Stop
  <2>1. listen'.pc = "yield" /\ UNCHANGED <<setup, terminal, agent>>
    BY <1>3, <1>9 DEF Stop
  <2>2. CASE UNCHANGED pub
    BY <2>1, <2>2, PublishingIdle
  <2>3. CASE Publish("listener", Event("stop"))
    BY <1>1, <2>1, <2>3, PublishingOpen DEF Publishers
  <2> QED BY <1>9, <2>2, <2>3 DEF Stop
<1>10. CASE Pop
  BY <1>10, PublishingIdle DEF Pop, Took
<1>11. CASE Get \/ PopFails
  <2>1. listen.pc = "poll" /\ listen.item = Wait
    BY <1>2, <1>11 DEF Get, PopFails, Listening
  <2>2. listen'.pc \in {"poll", "create", "ended", "raised"} => listen'.item = Wait
    BY <1>3, <1>11, <2>1 DEF Get, PopFails, Poll, Took
  <2> QED BY <1>11, <2>2, PublishingIdle DEF Get, PopFails
<1>12. CASE MakeQueue \/ Yield \/ ListenRaises
  BY <1>12, PublishingIdle DEF MakeQueue, Yield, ListenRaises, Took
<1>13. CASE TimePasses
  BY <1>2, <1>13, PublishingIdle DEF TimePasses
<1> QED BY <1>4, <1>5, <1>6, <1>7, <1>8, <1>9, <1>10, <1>11, <1>12, <1>13, PublishingStep
     DEF QueueNext, ListenStep

-----------------------------------------------------------------------------
(* While Redis answers, no memory queue begins with the marker.              *)
LEMMA BoxedQuiet ==
  ASSUME QueueTypeOK, Boxed, UNCHANGED <<setup, box, queue>>, faults' = 0 => faults = 0,
         FromRedis => (listen'.pc = "create" => listen.pc = "create"),
         \A u \in Publishers : pub'[u].pc = "close" => pub[u].pc = "close"
  PROVE  Boxed'
<1>1. (FromRedis' <=> FromRedis) /\ \A b : ReadFrom(b)' = ReadFrom(b)
  BY DEF FromRedis, ReadFrom, Mode
<1> QED BY <1>1 DEF Boxed, At

LEMMA NextBoxed == ASSUME QueueTypeOK, Publishing, Boxed, [QueueNext]_queueVars PROVE Boxed'
<1>1. CASE UNCHANGED queueVars
  BY <1>1, BoxedQuiet DEF queueVars
<1>2. faults \in Nat
  BY DEF QueueTypeOK
<1>3. ASSUME NEW t \in Publishers, MarkTerminal(t) \/ Missing(t) \/ Persist(t) \/ Seal(t) PROVE Boxed'
  <2>1. \A u \in Publishers : pub'[u].pc = "close" => pub[u].pc = "close"
    <3>1. PICK next \in {"idle", "put", "create", "seal"} : Goes(t, next)
      BY <1>3 DEF MarkTerminal, Missing, Persist, Seal
    <3> QED BY <3>1, GoesFacts
  <2> QED BY <1>3, <2>1, BoxedQuiet DEF MarkTerminal, Missing, Persist, Seal
<1>4. ASSUME NEW t \in Publishers, Put(t) \/ StopListen(t) PROVE Boxed'
  <2> SUFFICES ASSUME FromRedis, faults = 0 PROVE Boxed'
    BY <1>4 DEF Boxed, Put, StopListen, FromRedis
  <2> DEFINE b == ReadFrom(box')
             x == IF Put(t) THEN pub[t].item ELSE None
  <2>1. /\ box' \in Boxes /\ b \in Boxes /\ queue' = [queue EXCEPT ![b] = Append(@, x)]
        /\ UNCHANGED <<setup, listen, faults>>
    <3>1. CASE Put(t)
      <4>1. box' \in Boxes
        BY <3>1 DEF Put, Install, Boxes, QueueTypeOK
      <4> QED BY <3>1, <4>1 DEF Put, ReadFrom, Boxes, Mode
    <3>2. CASE ~Put(t)
      <4>1. StopListen(t) /\ box # "none" /\ box' = box
        BY <1>4, <3>2 DEF StopListen, Boxed
      <4> QED BY <3>2, <4>1 DEF StopListen, ReadFrom, Boxes, Mode, QueueTypeOK
    <3> QED BY <3>1, <3>2
  <2>2. x \in QueueItems /\ (queue[b] = <<>> => x # None)
    <3>1. CASE Put(t)
      BY <3>1, ItemTypes DEF Put, At, Publishing, QueueTypeOK
    <3>2. CASE ~Put(t)
      BY <1>4, <3>2, ItemTypes DEF StopListen, Boxed
    <3> QED BY <3>1, <3>2
  <2> HIDE DEF x, b
  <2>3. /\ queue'[b] = Append(queue[b], x) /\ queue[b] \in Seq(QueueItems \ {Wait})
        /\ \A c \in Boxes : c # b => queue'[c] = queue[c]
    BY <2>1 DEF QueueTypeOK
  <2>4. queue'[b] # <<>> /\ queue'[b][1] # None
    <3>1. CASE queue[b] = <<>>
      BY <2>2, <2>3, <3>1
    <3>2. CASE queue[b] # <<>>
      <4>1. queue[b][1] # None
        BY <2>1, <3>2 DEF Boxed
      <4>2. Len(queue[b]) \in Nat /\ Len(queue[b]) >= 1
        BY <2>3, <3>2
      <4> QED BY <2>2, <2>3, <4>1, <4>2
    <3> QED BY <3>1, <3>2
  <2>5. \A c \in Boxes : queue'[c] # <<>> => queue'[c][1] # None
    BY <2>3, <2>4 DEF Boxed
  <2>6. listen'.pc # "create" /\ box' # "none"
    BY <2>1 DEF Boxed, Boxes, Publishers
  <2>7. ReadFrom(box)' = b
    BY <2>1 DEF b, ReadFrom, Mode
  <2>8. \A u \in Publishers : At(u, "close")' => box' # "none"
    BY <2>6
  <2> QED BY <2>4, <2>5, <2>6, <2>7, <2>8 DEF Boxed
<1>5. CASE Say \/ Conclude \/ Ping \/ ListenTimeout \/ Stop
  <2>1. \A t \in Publishers, x \in QueueItems : Publish(t, x) =>
           \A u \in Publishers : pub'[u].pc = "close" => pub[u].pc = "close"
    <3> SUFFICES ASSUME NEW t \in Publishers, NEW x \in QueueItems, Publish(t, x), NEW u \in Publishers, pub'[u].pc = "close"
                 PROVE  pub[u].pc = "close"
      OBVIOUS
    <3> QED BY PublishFacts
  <2>2. /\ \A k \in {"ping", "timeout", "stop", "end", "error"} : Event(k) \in QueueItems
        /\ agent.sent < MaxMessages => Message(agent.sent + 1) \in QueueItems
    <3>1. agent.sent \in Nat
      BY DEF QueueTypeOK
    <3>2. agent.sent < MaxMessages => agent.sent + 1 \in 1..MaxMessages
      BY <3>1
    <3> QED BY <3>2, ItemTypes DEF TerminalEvents
  <2>3. \A u \in Publishers : pub'[u].pc = "close" => pub[u].pc = "close"
    <3>1. (\E t \in Publishers, x \in QueueItems : Publish(t, x)) \/ pub' = pub
      BY <1>5, <2>2 DEF Say, Conclude, Ping, ListenTimeout, Stop, Publishers
    <3> QED BY <2>1, <3>1
  <2>4. /\ UNCHANGED <<setup, box, queue, faults>> /\ (listen'.pc = "create" => listen.pc = "create")
    BY <1>5 DEF Say, Conclude, Ping, ListenTimeout, Stop, QueueTypeOK
  <2> QED BY <2>3, <2>4, BoxedQuiet
<1>6. CASE PopFails \/ ListenRaises \/ \E t \in Publishers : PersistFails(t) \/ QueueRaises(t)
  <2>1. faults' = faults + 1
    BY <1>6 DEF PopFails, ListenRaises, PersistFails, QueueRaises
  <2>2. faults' # 0
    BY <1>2, <2>1
  <2> QED BY <2>2 DEF Boxed
<1>7. CASE Pop \/ Yield \/ TimePasses
  BY <1>7, BoxedQuiet DEF Pop, Yield, TimePasses, Took, QueueTypeOK
<1>8. CASE Get \/ MakeQueue
  BY <1>8 DEF Get, MakeQueue, Boxed, FromRedis, Listening
<1> QED BY <1>1, <1>3, <1>4, <1>5, <1>6, <1>7, <1>8 DEF QueueNext, ListenStep, PublishStep

-----------------------------------------------------------------------------
(* Nobody puts into a queue that is yet to be made.                          *)
LEMMA UnusedQuiet ==
  ASSUME QueueTypeOK, Unused, UNCHANGED <<setup, box, queue>>,
         \A u \in Publishers : pub'[u].pc = "close" => pub[u].pc = "close",
         \A u \in Publishers : pub'[u].pc = "create" => pub[u].pc = "create" \/ box = "none",
         listen'.pc = "create" => At("listener", "idle")' /\ (listen.pc = "create" \/ ReadFrom(box) = "none")
  PROVE  Unused'
<1>1. Mode' = Mode /\ (Mode = "stream" => ReadFrom(box) = box)
  BY DEF Mode, ReadFrom
<1>2. box' = box /\ queue' = queue /\ "listener" \in Publishers /\ "none" \notin Publishers
  BY DEF Publishers
<1> QED BY <1>1, <1>2 DEF Unused, At

(* The queue that is read changes, or its owner puts a new one in its place. *)
LEMMA UnusedUsed ==
  ASSUME QueueTypeOK, Unused, setup' = setup, ReadFrom(box') # "none" \/ queue' = queue,
         \A c \in Boxes : c # ReadFrom(box') => queue'[c] = queue[c],
         box' = box \/ box' \in Publishers,
         \A u \in Publishers : pub'[u].pc = "close" => box' # "none",
         \A u \in Publishers : pub'[u].pc = "create" => pub[u].pc = "create" /\ u # box',
         listen'.pc = "create" => At("listener", "idle")' /\ listen.pc = "create" /\ box' # "listener"
  PROVE  Unused'
<1>1. Mode' = Mode /\ (Mode = "stream" => ReadFrom(box') = box')
  BY DEF Mode, ReadFrom
<1>2. Publishers \subseteq Boxes /\ "listener" \in Publishers /\ "none" \notin Publishers
  BY DEF Boxes, Publishers
<1>3. Mode = "stream" /\ box' = "none" => box = "none" /\ queue' = queue
  BY <1>1, <1>2
<1>4. ASSUME Mode = "stream", NEW u \in Publishers, At(u, "create")' \/ (u = "listener" /\ listen'.pc = "create")
      PROVE  box' # u /\ queue'[u] = <<>>
  <2>1. At(u, "create") \/ (u = "listener" /\ listen.pc = "create")
    BY <1>4 DEF At
  <2>2. box' # u /\ queue[u] = <<>>
    BY <1>4, <2>1 DEF Unused, At
  <2> QED BY <1>1, <1>2, <1>4, <2>2
<1> QED BY <1>1, <1>2, <1>3, <1>4 DEF Unused, At

LEMMA NextUnused == ASSUME QueueTypeOK, Unused, [QueueNext]_queueVars PROVE Unused'
<1> USE DEF At
<1>1. listen.pc = "create" => pub["listener"].pc = "idle"
  BY DEF Unused
<1>2. ASSUME NEW t \in Publishers, MarkTerminal(t) \/ Missing(t) \/ Persist(t) \/ Seal(t) \/ PersistFails(t) \/ QueueRaises(t)
      PROVE  Unused'
  <2>1. PICK next \in {"idle", "put", "create", "seal"} : Goes(t, next) /\ (next = "create" => box = "none") /\ pub[t].pc # "idle"
    BY <1>2 DEF MarkTerminal, Missing, Persist, Seal, PersistFails, QueueRaises
  <2>2. /\ \A u \in Publishers : u # t => pub'[u] = pub[u]
        /\ pub'[t].pc = next
    BY <2>1, GoesFacts
  <2>3. listen'.pc = "create" => listen.pc = "create" /\ t # "listener"
    BY <1>1, <1>2, <2>1 DEF MarkTerminal, Missing, Persist, Seal, PersistFails, QueueRaises
  <2>4. UNCHANGED <<setup, box, queue>>
    BY <1>2 DEF MarkTerminal, Missing, Persist, Seal, PersistFails, QueueRaises
  <2> QED BY <1>1, <2>1, <2>2, <2>3, <2>4, UnusedQuiet DEF Publishers
<1>3. ASSUME NEW t \in Publishers, Put(t) \/ StopListen(t) PROVE Unused'
  <2>1. PICK next \in {"idle", "close", "persist"} : Goes(t, next)
    BY <1>3 DEF Put, StopListen, AfterPut
  <2>2. /\ \A u \in Publishers : u # t => pub'[u] = pub[u]
        /\ pub'[t].pc = next
    BY <2>1, GoesFacts
  <2>3. setup' = setup /\ listen' = listen /\ Publishers \subseteq Boxes /\ pub[t].pc # "idle" /\ "none" \notin Boxes
    BY <1>3 DEF Put, StopListen, Boxes, Publishers
  <2>4. box' \in Boxes /\ (box' = box \/ (box' = t /\ pub[t].pc = "create"))
    BY <1>3, <2>3 DEF Put, StopListen, Install, Unused, QueueTypeOK
  <2>5. ReadFrom(box') # "none" /\ \A c \in Boxes : c # ReadFrom(box') => queue'[c] = queue[c]
    <3>1. ReadFrom(box') \in Boxes
      BY <2>4 DEF ReadFrom, Boxes
    <3> QED BY <1>3, <2>3, <3>1 DEF Put, StopListen, QueueTypeOK
  <2>6. CASE Mode = "stream"
    <3>1. \A u \in Publishers : pub'[u].pc = "create" => pub[u].pc = "create" /\ u # box'
      BY <2>2, <2>4, <2>6 DEF Unused
    <3>2. listen'.pc = "create" => pub'["listener"].pc = "idle" /\ listen.pc = "create" /\ box' # "listener"
      <4>1. listen.pc = "create" => t # "listener" /\ box # "listener"
        BY <1>1, <2>3, <2>6 DEF Unused, Publishers
      <4> QED BY <1>1, <2>2, <2>3, <2>4, <4>1 DEF Publishers
    <3> QED BY <2>3, <2>4, <2>5, <3>1, <3>2, UnusedUsed
  <2>7. CASE Mode # "stream"
    <3>1. Mode' = Mode
      BY <2>3 DEF Mode
    <3>2. listen'.pc = "create" => pub'["listener"].pc = "idle"
      BY <1>1, <2>2, <2>3 DEF Publishers
    <3> QED BY <2>3, <2>4, <2>7, <3>1, <3>2 DEF Unused
  <2> QED BY <2>6, <2>7
<1>4. CASE Say \/ Conclude \/ Ping \/ ListenTimeout \/ Stop
  <2>1. /\ \A k \in {"ping", "timeout", "stop", "end", "error"} : Event(k) \in QueueItems
        /\ agent.sent < MaxMessages => Message(agent.sent + 1) \in QueueItems
    <3>1. agent.sent \in Nat
      BY DEF QueueTypeOK
    <3>2. agent.sent < MaxMessages => agent.sent + 1 \in 1..MaxMessages
      BY <3>1
    <3> QED BY <3>2, ItemTypes DEF TerminalEvents
  <2>2. (\E t \in Publishers, x \in QueueItems : Publish(t, x)) \/ pub' = pub
    BY <1>4, <2>1 DEF Say, Conclude, Ping, ListenTimeout, Stop, Publishers
  <2>3. ASSUME NEW u \in Publishers
        PROVE  /\ pub'[u].pc = "close" => pub[u].pc = "close"
               /\ pub'[u].pc = "create" => pub[u].pc = "create"
    <3>1. CASE pub' = pub
      BY <3>1
    <3>2. ASSUME NEW t \in Publishers, NEW x \in QueueItems, Publish(t, x)
          PROVE  /\ pub'[u].pc = "close" => pub[u].pc = "close"
                 /\ pub'[u].pc = "create" => pub[u].pc = "create"
      BY <3>2, PublishFacts
    <3> QED BY <2>2, <3>1, <3>2
  <2>4. UNCHANGED <<setup, box, queue>>
    BY <1>4 DEF Say, Conclude, Ping, ListenTimeout, Stop
  <2>5. listen'.pc = "create" => listen.pc = "create" /\ pub'["listener"].pc = "idle"
    <3>1. CASE Ping \/ ListenTimeout \/ Stop
      BY <3>1 DEF Ping, ListenTimeout, Stop, QueueTypeOK
    <3>2. CASE Say \/ Conclude
      <4>1. listen' = listen
        BY <3>2 DEF Say, Conclude
      <4>2. \E x \in QueueItems : Publish("agent", x)
        BY <2>1, <3>2 DEF Say, Conclude
      <4>3. pub'["listener"] = pub["listener"]
        BY <4>2, PublishFacts DEF Publishers
      <4> QED BY <1>1, <4>1, <4>3
    <3> QED BY <1>4, <3>1, <3>2
  <2> QED BY <2>3, <2>4, <2>5, UnusedQuiet
<1>5. CASE Get \/ PopFails
  <2>1. UNCHANGED <<setup, box, pub>> /\ Poll /\ pub["listener"].pc = "idle" /\ listen.pc = "poll"
    BY <1>5 DEF Get, PopFails, Listening
  <2>2. CASE ReadFrom(box) = "none"
    BY <2>1, <2>2, UnusedQuiet DEF Poll
  <2>3. CASE ReadFrom(box) # "none"
    <3>1. listen'.pc = "ping" /\ \A c \in Boxes : c # ReadFrom(box) => queue'[c] = queue[c]
      BY <2>1, <2>3 DEF Poll, Took, QueueTypeOK
    <3>2. ReadFrom(box') = ReadFrom(box)
      BY <2>1
    <3>3. CASE Mode = "stream"
      <4>1. \A u \in Publishers : pub'[u].pc = "create" => pub[u].pc = "create" /\ u # box'
        BY <2>1, <3>3 DEF Unused
      <4> QED BY <2>1, <2>3, <3>1, <3>2, <4>1, UnusedUsed DEF Unused
    <3>4. CASE Mode # "stream"
      <4>1. Mode' = Mode
        BY <2>1 DEF Mode
      <4> QED BY <2>1, <3>1, <3>4, <4>1 DEF Unused
    <3> QED BY <3>3, <3>4
  <2> QED BY <2>2, <2>3
<1>6. CASE MakeQueue
  <2>1. /\ UNCHANGED <<setup, pub, queue>> /\ box' = "listener" /\ listen.pc = "create"
        /\ pub["listener"].pc = "idle" /\ listen'.pc = "ping"
    BY <1>6 DEF MakeQueue, Listening, Install, Took
  <2>2. /\ "listener" \in Publishers
        /\ \A u \in Publishers : pub'[u].pc = "create" => pub[u].pc = "create" /\ u # box'
    BY <2>1 DEF Publishers
  <2>3. \A u \in Publishers : pub'[u].pc = "close" => box' # "none"
    BY <2>1
  <2> QED BY <2>1, <2>2, <2>3, UnusedUsed
<1>7. CASE Pop \/ Yield \/ ListenRaises \/ TimePasses \/ UNCHANGED queueVars
  <2>1. UNCHANGED <<setup, box, queue, pub>> /\ (listen'.pc = "create" => listen.pc = "create")
    BY <1>7 DEF Pop, Yield, ListenRaises, TimePasses, queueVars, Took
  <2> QED BY <1>1, <2>1, UnusedQuiet
<1> QED BY <1>2, <1>3, <1>4, <1>5, <1>6, <1>7 DEF QueueNext, ListenStep, PublishStep

(* A new queue begins empty, and nothing was lost unless the old one was not. *)
LEMMA Installed ==
  ASSUME QueueTypeOK, Unused, NEW t \in Publishers, Install(t),
         At(t, "create") \/ (t = "listener" /\ listen.pc = "create"), ~FromRedis, Mode = "stream"
  PROVE  box' = t /\ ReadFrom(box') = t /\ queue[t] = <<>> /\ (Channel = <<>> \/ replaced')
<1>1. setup = <<"stream", "memory">>
  BY AgentQueueAssumption DEF QueueTypeOK, Mode, FromRedis
<1> QED BY <1>1 DEF Unused, Install, ReadFrom, Channel

(* Nothing is lost where another queue or the log is read.                   *)
LEMMA InstallLog ==
  ASSUME QueueTypeOK, NEW t, Install(t), FromRedis \/ Mode # "stream"
  PROVE  replaced' = replaced
<1>1. setup # <<"stream", "memory">>
  BY DEF FromRedis, Mode
<1> QED BY <1>1 DEF Install, QueueTypeOK

(* A replacement is not undone.                                                 *)
LEMMA ReplacedStays == ASSUME [QueueNext]_queueVars PROVE replaced => replaced'
<1>1. ASSUME NEW t \in Publishers, PublishStep(t) \/ PersistFails(t) \/ QueueRaises(t) PROVE replaced => replaced'
  BY <1>1 DEF PublishStep, PersistFails, QueueRaises, MarkTerminal, Missing, Put, Install, StopListen, Persist, Seal
<1>2. CASE ListenStep \/ PopFails \/ ListenRaises
  BY <1>2 DEF ListenStep, PopFails, ListenRaises, Pop, Get, MakeQueue, Install, Ping, ListenTimeout, Stop, Yield
<1>3. CASE Say \/ Conclude \/ TimePasses \/ UNCHANGED queueVars
  BY <1>3 DEF Say, Conclude, TimePasses, queueVars
<1> QED BY <1>1, <1>2, <1>3 DEF QueueNext

-----------------------------------------------------------------------------
(* The numbers of the messages in the first n places.                        *)
LEMMA NumbersAgree ==
  ASSUME NEW f, NEW g, NEW n \in Nat, \A k \in 1..n : g[k] = f[k]
  PROVE  NumbersTo(g, n) = NumbersTo(f, n)
BY DEF NumbersTo

LEMMA NumbersGrow ==
  ASSUME NEW f, NEW n \in Nat
  PROVE  NumbersTo(f, n + 1) = NumbersTo(f, n) \cup (IF f[n + 1].kind = "message" THEN {f[n + 1].no} ELSE {})
<1>1. 1..(n + 1) = (1..n) \cup {n + 1}
  OBVIOUS
<1> QED BY <1>1 DEF NumbersTo

(* A step that leaves what is on the way as it is.                           *)
LEMMA QuietKeeps ==
  ASSUME QueueTypeOK, QueueTypeOK', Explained /\ Limited /\ Ordered, Chain' = Chain, Size' = Size,
         UNCHANGED <<setup, replaced>>, faults' \in {faults, faults + 1}, terminal \subseteq terminal',
         \A t \in Publishers : Sealing(t)' => Sealing(t),
         \A t \in Publishers : Busy(t)' => Busy(t) \/ terminal = {},
         faults' = 0 /\ Busy("agent")' /\ pub'["agent"].item.kind = "message" =>
            \/ Busy("agent") /\ pub["agent"].item.kind = "message" /\ agent'.sent = agent.sent
            \/ At("agent", "idle") /\ terminal = {} /\ agent'.sent = agent.sent + 1,
         faults' = 0 /\ At("agent", "idle")' /\ terminal' = {} =>
            At("agent", "idle") /\ agent'.sent = agent.sent
  PROVE  Explained' /\ Limited' /\ Ordered'
<1>1. (FromRedis' <=> FromRedis) /\ faults \in Nat /\ agent.sent \in Nat /\ agent'.sent \in Nat
  BY DEF FromRedis, QueueTypeOK
<1>2. \A x : IsTerminal(x)' = IsTerminal(x)
  BY DEF IsTerminal
<1>3. Explained'
  <2>1. faults' <= 1 => faults <= 1
    BY <1>1
  <2> QED BY <2>1 DEF Explained, IsTerminal
<1>4. Limited'
  <2>1. faults' = 0 => faults = 0
    BY <1>1
  <2> QED BY <1>1, <2>1 DEF Limited, IsTerminal, IsEvent, Publishers
<1>5. Ordered'
  <2>1. faults' = 0 => faults = 0
    BY <1>1
  <2> QED BY <1>1, <2>1 DEF Ordered, NumbersTo
<1> QED BY <1>3, <1>4, <1>5

LEMMA ChainSame ==
  ASSUME delivered' = delivered, listen'.item = listen.item, Channel' = Channel
  PROVE  Chain' = Chain /\ Size' = Size
BY DEF Chain, Size, Hand

(* The steps of a thread in publish that put nothing on the way.             *)
LEMMA MarksKeep ==
  ASSUME QueueTypeOK, QueueTypeOK', Publishing, Explained /\ Limited /\ Ordered, NEW t \in Publishers,
         MarkTerminal(t) \/ Missing(t) \/ PersistFails(t) \/ QueueRaises(t) \/ (FromRedis /\ (Put(t) \/ StopListen(t))),
         listen' = listen
  PROVE  Explained' /\ Limited' /\ Ordered'
<1>1. /\ UNCHANGED <<setup, delivered, agent, log>> /\ terminal \subseteq terminal'
      /\ faults' \in {faults, faults + 1} /\ pub[t].pc # "idle"
      /\ (~FromRedis => UNCHANGED <<queue, box>>) /\ (FromRedis' <=> FromRedis) /\ Mode' = Mode /\ replaced' = replaced
  <2>1. replaced' = replaced
    <3>1. FromRedis /\ Put(t) => replaced' = replaced
      BY InstallLog DEF Put
    <3> QED BY <3>1 DEF MarkTerminal, Missing, PersistFails, QueueRaises, StopListen
  <2> QED BY <2>1 DEF MarkTerminal, Missing, PersistFails, QueueRaises, Put, StopListen, At, FromRedis, Mode
<1>2. Chain' = Chain /\ Size' = Size
  <2>1. Channel' = Channel
    BY <1>1 DEF Channel, ReadFrom
  <2> QED BY <1>1, <2>1, ChainSame
<1>3. PICK next \in {"idle", "put", "create", "close", "persist"} :
         /\ Goes(t, next)
         /\ next = "close" => FromRedis /\ pub[t].pc \in {"put", "create"}
         /\ next # "idle" => pub[t].pc \in {"mark", "put", "create", "persist"} \/ (FromRedis /\ pub[t].pc = "close")
         /\ next = "idle" => faults' # 0 \/ terminal' # {}
  <2>1. faults + 1 # 0
    BY DEF QueueTypeOK
  <2>2. CASE MarkTerminal(t)
    BY <2>2 DEF MarkTerminal, At, Goes
  <2>3. CASE Missing(t)
    BY <2>3 DEF Missing, At, Goes
  <2>4. CASE PersistFails(t) \/ QueueRaises(t)
    BY <2>1, <2>4 DEF PersistFails, QueueRaises, At, Goes
  <2>5. CASE FromRedis /\ Put(t)
    BY <2>5 DEF Put, At, AfterPut
  <2>6. CASE FromRedis /\ StopListen(t)
    BY <2>6 DEF StopListen, At
  <2> QED BY <2>2, <2>3, <2>4, <2>5, <2>6
<1>4. /\ \A u \in Publishers : u # t => pub'[u] = pub[u]
      /\ pub'[t].pc = next /\ pub'[t].item = pub[t].item
  BY <1>3, GoesFacts
<1>5. \A u \in Publishers : u = t \/ pub'[u] = pub[u]
  BY <1>4
<1>6. ASSUME NEW u \in Publishers PROVE (Sealing(u)' => Sealing(u)) /\ (Busy(u)' => Busy(u))
  <2>1. CASE u = t
    BY <1>1, <1>3, <1>4, <2>1 DEF Sealing, Busy, At
  <2>2. CASE u # t
    BY <1>1, <1>4, <2>2 DEF Sealing, Busy, At
  <2> QED BY <2>1, <2>2
<1>7. pub'["agent"].item = pub["agent"].item
  BY <1>4, <1>5 DEF Publishers
<1>8. faults' = 0 /\ At("agent", "idle")' /\ terminal' = {} => At("agent", "idle")
  BY <1>3, <1>4, <1>5 DEF At, Publishers
<1> QED BY <1>1, <1>2, <1>6, <1>7, <1>8, QuietKeeps DEF Publishers

(* An event is taken up, or dropped.                                         *)
LEMMA OpensKeep ==
  ASSUME QueueTypeOK, QueueTypeOK', Publishing, Explained /\ Limited /\ Ordered,
         NEW t \in Publishers, NEW x \in QueueItems, Publish(t, x),
         UNCHANGED <<setup, box, queue, replaced, log, terminal, delivered, faults>>, listen'.item = listen.item,
         t = "agent" => \/ agent'.sent = agent.sent /\ IsTerminal(x)
                        \/ agent'.sent = agent.sent + 1 /\ x.kind = "message",
         t = "listener" => agent' = agent
  PROVE  Explained' /\ Limited' /\ Ordered'
<1>1. /\ pub[t].pc = "idle" /\ \A u \in Publishers : u # t => pub'[u] = pub[u]
      /\ terminal # {} => pub' = pub
      /\ terminal = {} => pub'[t].item = x /\ pub'[t].pc = IF IsTerminal(x) THEN "mark" ELSE "put"
  BY PublishFacts DEF At
<1>2. (FromRedis' <=> FromRedis) /\ Chain' = Chain /\ Size' = Size
  BY ChainSame DEF FromRedis, Channel, ReadFrom, Mode
<1>3. ASSUME NEW u \in Publishers
      PROVE  (Sealing(u)' => Sealing(u)) /\ (Busy(u)' => Busy(u) \/ terminal = {})
  <2>1. CASE terminal # {}
    BY <1>1, <1>2, <2>1 DEF Sealing, Busy, At
  <2>2. CASE terminal = {} /\ u # t
    BY <1>1, <1>2, <2>2 DEF Sealing, Busy, At
  <2>3. CASE terminal = {} /\ u = t
    BY <1>1, <1>2, <2>3 DEF Sealing, At
  <2> QED BY <2>1, <2>2, <2>3
<1>4. IsTerminal(x) => x.kind # "message"
  BY DEF IsTerminal, TerminalEvents
<1>5. CASE t = "listener"
  <2>1. pub'["agent"] = pub["agent"] /\ agent' = agent
    BY <1>1, <1>5 DEF Publishers
  <2>2. (Busy("agent")' <=> Busy("agent")) /\ (At("agent", "idle")' <=> At("agent", "idle"))
    BY <1>2, <2>1 DEF Busy, At
  <2> QED BY <1>2, <1>3, <2>1, <2>2, QuietKeeps
<1>6. CASE t = "agent"
  <2>1. Busy("agent")' /\ pub'["agent"].item.kind = "message" => 
           At("agent", "idle") /\ terminal = {} /\ agent'.sent = agent.sent + 1
    BY <1>1, <1>4, <1>6 DEF Busy, At
  <2>2. At("agent", "idle")' => terminal # {}
    BY <1>1, <1>6 DEF At
  <2> QED BY <1>2, <1>3, <2>1, <2>2, QuietKeeps
<1> QED BY <1>5, <1>6 DEF Publishers

(* A step of the listener that leaves the threads alone.                     *)
LEMMA ReadsKeep ==
  ASSUME QueueTypeOK, QueueTypeOK', Explained /\ Limited /\ Ordered, Chain' = Chain, Size' = Size,
         UNCHANGED <<setup, replaced, terminal, pub, agent, faults>>
  PROVE  Explained' /\ Limited' /\ Ordered'
<1>1. FromRedis' <=> FromRedis
  BY DEF FromRedis
<1>2. \A t : /\ (Sealing(t)' <=> Sealing(t)) /\ (Busy(t)' <=> Busy(t))
             /\ (At(t, "idle")' <=> At(t, "idle"))
  BY <1>1 DEF Sealing, Busy, At
<1> QED BY <1>2, QuietKeeps

(* An event is put on the way.                                               *)
LEMMA EventKeeps ==
  ASSUME QueueTypeOK, QueueTypeOK', Publishing, Explained /\ Limited /\ Ordered, NEW t \in Publishers,
         Channel' = Append(Channel, pub[t].item) \/ (Channel' = <<pub[t].item>> /\ replaced'), replaced => replaced', Busy(t), ~At(t, "mark"), 
         NEW next \in {"idle", "close", "seal"}, Goes(t, next), next = "close" => ~FromRedis,
         next # "idle" => IsTerminal(pub[t].item),
         UNCHANGED <<setup, terminal, delivered, listen, agent, faults>>
  PROVE  Explained' /\ Limited' /\ Ordered'
<1> DEFINE x == pub[t].item
<1>1. /\ \A u \in Publishers : u # t => pub'[u] = pub[u]
      /\ pub'[t].pc = next /\ pub'[t].item = pub[t].item
  BY GoesFacts
<1>2. PICK n \in 0..Size :
         /\ Size' = n + 1 /\ Size \in Nat /\ (~replaced' => n = Size)
         /\ \A k \in 1..n : Chain'[k] = Chain[k]
         /\ Chain'[n + 1] = x
  BY PutGrows
<1>3. (FromRedis' <=> FromRedis) /\ faults \in Nat /\ agent.sent \in Nat
  BY DEF FromRedis, QueueTypeOK
<1>4. ~Busy(t)' /\ (Sealing(t)' => IsTerminal(x))
  BY <1>1, <1>3 DEF Busy, Sealing, At
<1>5. \A u \in Publishers : u # t => /\ Busy(u)' <=> Busy(u)
                                     /\ Sealing(u)' <=> Sealing(u)
                                     /\ At(u, "idle")' <=> At(u, "idle")
  BY <1>1, <1>3 DEF Busy, Sealing, At
<1>6. /\ IsEvent(x) /\ x # None /\ (IsTerminal(x) => terminal # {})
  <2>1. pub[t].pc \notin {"idle", "mark"}
    BY DEF Busy, At
  <2> QED BY <2>1, ItemTypes DEF Publishing, At, QueueTypeOK
<1> HIDE DEF x
<1>7. 1..Size' = (1..n) \cup {n + 1} /\ n \in Nat /\ 1..n \subseteq 1..Size /\ \A k \in 1..n : k < n + 1
  BY <1>2
<1>8. Explained'
  <2> SUFFICES ASSUME faults <= 1, ~replaced, ~replaced' PROVE Explained'
    BY DEF Explained
  <2> n = Size
    BY <1>2
  <2>1. \A u \in Publishers : Sealing(u)' => \E j \in 1..Size' : IsTerminal(Chain'[j])
    BY <1>2, <1>4, <1>5, <1>7 DEF Explained
  <2>2. ASSUME NEW k \in 1..Size', Chain'[k] = None PROVE \E j \in 1..(k - 1) : IsTerminal(Chain'[j])
    <3>1. k \in 1..Size /\ Chain[k] = None
      BY <1>2, <1>6, <1>7, <2>2
    <3>2. PICK j \in 1..(k - 1) : IsTerminal(Chain[j])
      BY <3>1 DEF Explained
    <3>3. j \in 1..Size
      BY <1>2, <3>1
    <3> QED BY <1>2, <3>2, <3>3
  <2> QED BY <2>1, <2>2 DEF Explained, IsTerminal
<1>9. Limited'
  <2> SUFFICES ASSUME ~FromRedis \/ faults = 0, NEW i \in 1..Size', IsTerminal(Chain'[i])
               PROVE  /\ terminal' # {} /\ ~(Busy("agent")' /\ Busy("listener")')
                      /\ \A j \in 1..Size' : i < j /\ IsEvent(Chain'[j]) =>
                            /\ \A u \in Publishers : ~Busy(u)'
                            /\ \A k \in 1..Size' : i < k /\ IsEvent(Chain'[k]) => k = j
    BY <1>3 DEF Limited, IsTerminal, IsEvent
  <2>1. CASE i = n + 1
    <3>1. \A j \in 1..Size' : ~(i < j)
      BY <1>2, <1>7, <2>1
    <3> QED BY <1>2, <1>4, <1>6, <2>1, <3>1 DEF Publishers
  <2>2. CASE i \in 1..n
    <3>1. /\ terminal # {} /\ ~(Busy("agent") /\ Busy("listener"))
          /\ \A j \in 1..Size : i < j /\ IsEvent(Chain[j]) => \A u \in Publishers : ~Busy(u)
      <4>1. i \in 1..Size /\ IsTerminal(Chain[i])
        BY <1>2, <1>7, <2>2
      <4> QED BY <4>1 DEF Limited
    <3>2. \A j \in 1..Size : ~(i < j /\ IsEvent(Chain[j]))
      BY <3>1
    <3>3. \A j \in 1..Size' : i < j /\ IsEvent(Chain'[j]) => j = n + 1
      BY <1>2, <1>7, <3>2
    <3>4. \A u \in Publishers : ~Busy(u)'
      BY <1>4, <1>5, <3>1 DEF Publishers
    <3> QED BY <3>1, <3>3, <3>4 DEF Publishers
  <2> QED BY <1>7, <2>1, <2>2
<1>10. Ordered'
  <2> SUFFICES ASSUME faults = 0, ~replaced, ~replaced' PROVE Ordered'
    BY DEF Ordered
  <2> n = Size
    BY <1>2
  <2>1. /\ \A m \in 0..Size : NumbersTo(Chain', m) = NumbersTo(Chain, m)
        /\ NumbersTo(Chain', Size + 1) = NumbersTo(Chain, Size) \cup (IF x.kind = "message" THEN {x.no} ELSE {})
    <3>1. ASSUME NEW m \in 0..Size PROVE NumbersTo(Chain', m) = NumbersTo(Chain, m)
      <4>1. m \in Nat /\ \A k \in 1..m : Chain'[k] = Chain[k]
        BY <1>2
      <4> QED BY <4>1, NumbersAgree
    <3>2. NumbersTo(Chain', Size + 1) = NumbersTo(Chain', Size) \cup
            (IF Chain'[Size + 1].kind = "message" THEN {Chain'[Size + 1].no} ELSE {})
      BY <1>2, NumbersGrow
    <3> QED BY <1>2, <3>1, <3>2
  <2>2. x.kind = "message" => /\ t = "agent" /\ x.no = agent.sent /\ x.no \in Nat
                              /\ NumbersTo(Chain, Size) = 1..(agent.sent - 1)
    <3>1. pub[t].pc \notin {"idle", "mark"}
      BY DEF Busy, At
    <3> QED BY <1>3, <3>1 DEF x, Publishing, Ordered, At, Publishers
  <2>3. ASSUME NEW k \in 1..Size', Chain'[k].kind = "message"
        PROVE  NumbersTo(Chain', k - 1) = 1..(Chain'[k].no - 1)
    <3>1. CASE k = Size + 1
      BY <1>2, <2>1, <2>2, <2>3, <3>1
    <3>2. CASE k \in 1..Size
      <4>1. k - 1 \in 0..Size
        BY <1>2, <3>2
      <4> QED BY <1>2, <2>1, <2>3, <3>2, <4>1 DEF Ordered
    <3> QED BY <1>7, <3>1, <3>2
  <2>4. ASSUME Busy("agent")', pub'["agent"].item.kind = "message"
        PROVE  NumbersTo(Chain', Size') = 1..(agent.sent - 1)
    <3>1. t # "agent" /\ x.kind # "message" /\ pub'["agent"] = pub["agent"] /\ Busy("agent")
      BY <1>1, <1>4, <1>5, <2>2, <2>4 DEF Publishers
    <3> QED BY <1>2, <2>1, <2>4, <3>1 DEF Ordered
  <2>5. ASSUME At("agent", "idle")', terminal' = {}
        PROVE  NumbersTo(Chain', Size') = 1..agent.sent
    <3>1. CASE x.kind = "message"
      <4>1. (1..(agent.sent - 1)) \cup {agent.sent} = 1..agent.sent
        <5>1. x.no >= 1
          <6>1. x \in QueueItems
            BY DEF x, QueueTypeOK
          <6> QED BY <3>1, <6>1, ItemTypes
        <5> QED BY <1>3, <2>2, <3>1, <5>1
      <4> QED BY <1>2, <2>1, <2>2, <3>1, <4>1
    <3>2. CASE x.kind # "message"
      <4>1. t # "agent"
        BY <1>6, <2>5, <3>2 DEF x, Publishing, Busy, At
      <4>2. At("agent", "idle")
        BY <1>5, <2>5, <4>1 DEF Publishers
      <4> QED BY <1>2, <2>1, <2>5, <3>2, <4>2 DEF Ordered
    <3> QED BY <3>1, <3>2
  <2> QED BY <2>3, <2>4, <2>5 DEF Ordered, NumbersTo
<1> QED BY <1>8, <1>9, <1>10

(* The marker is put on the way, behind the event that says why.             *)
LEMMA MarkerKeeps ==
  ASSUME QueueTypeOK, QueueTypeOK', Publishing, Explained /\ Limited /\ Ordered, NEW t \in Publishers,
         Channel' = Append(Channel, None), Sealing(t), Goes(t, "idle"),
         UNCHANGED <<setup, replaced, terminal, delivered, listen, agent, faults>>
  PROVE  Explained' /\ Limited' /\ Ordered'
<1>1. /\ \A u \in Publishers : u # t => pub'[u] = pub[u]
      /\ pub'[t].pc = "idle" /\ pub'[t].item = pub[t].item
  BY GoesFacts
<1>2. /\ Size' = Size + 1 /\ Size \in Nat
      /\ \A k \in 1..Size : Chain'[k] = Chain[k]
      /\ Chain'[Size + 1] = None
  BY PutGrows
<1>3. (FromRedis' <=> FromRedis) /\ faults \in Nat /\ agent.sent \in Nat
  BY DEF FromRedis, QueueTypeOK
<1>4. ~Busy(t)' /\ ~Sealing(t)'
  BY <1>1 DEF Busy, Sealing, At
<1>5. \A u \in Publishers : u # t => /\ (Busy(u)' <=> Busy(u)) /\ (Sealing(u)' <=> Sealing(u))
                                     /\ (At(u, "idle")' <=> At(u, "idle"))
  BY <1>1, <1>3 DEF Busy, Sealing, At
<1>6. terminal # {} /\ ~IsEvent(None) /\ ~IsTerminal(None) /\ None.kind # "message"
  <2>1. pub[t].pc \in {"close", "seal"}
    BY DEF Sealing, At
  <2>2. IsTerminal(pub[t].item) /\ terminal # {}
    BY <2>1 DEF Publishing, At
  <2> QED BY <2>2 DEF IsEvent, IsTerminal, None, Event, TerminalEvents
<1>7. 1..Size' = (1..Size) \cup {Size + 1} /\ \A k \in 1..Size : k < Size + 1
  BY <1>2
<1>8. Explained'
  <2> SUFFICES ASSUME faults <= 1, ~replaced PROVE Explained'
    BY DEF Explained
  <2>1. PICK w \in 1..Size : IsTerminal(Chain[w])
    BY DEF Explained
  <2>2. w \in 1..Size' /\ IsTerminal(Chain'[w]) /\ w \in 1..((Size + 1) - 1)
    BY <1>2, <1>7, <2>1
  <2>3. ASSUME NEW k \in 1..Size', Chain'[k] = None PROVE \E j \in 1..(k - 1) : IsTerminal(Chain'[j])
    <3>1. CASE k = Size + 1
      BY <2>2, <3>1
    <3>2. CASE k \in 1..Size
      <4>1. PICK j \in 1..(k - 1) : IsTerminal(Chain[j])
        BY <1>2, <2>3, <3>2 DEF Explained
      <4>2. j \in 1..Size
        BY <1>2, <3>2
      <4> QED BY <1>2, <4>1, <4>2
    <3> QED BY <1>7, <3>1, <3>2
  <2> QED BY <2>2, <2>3 DEF Explained, IsTerminal
<1>9. Limited'
  <2> SUFFICES ASSUME ~FromRedis \/ faults = 0, NEW i \in 1..Size', IsTerminal(Chain'[i])
               PROVE  /\ terminal' # {} /\ ~(Busy("agent")' /\ Busy("listener")')
                      /\ \A j \in 1..Size' : i < j /\ IsEvent(Chain'[j]) =>
                            /\ \A u \in Publishers : ~Busy(u)'
                            /\ \A k \in 1..Size' : i < k /\ IsEvent(Chain'[k]) => k = j
    BY <1>3 DEF Limited, IsTerminal, IsEvent
  <2>1. i \in 1..Size /\ IsTerminal(Chain[i])
    BY <1>2, <1>6, <1>7
  <2>2. /\ terminal # {} /\ ~(Busy("agent") /\ Busy("listener"))
        /\ \A j \in 1..Size : i < j /\ IsEvent(Chain[j]) =>
              /\ \A u \in Publishers : ~Busy(u)
              /\ \A k \in 1..Size : i < k /\ IsEvent(Chain[k]) => k = j
    BY <2>1 DEF Limited
  <2>3. \A j \in 1..Size' : IsEvent(Chain'[j]) => j \in 1..Size /\ IsEvent(Chain[j])
    BY <1>2, <1>6, <1>7
  <2>4. \A u \in Publishers : Busy(u)' => Busy(u)
    BY <1>4, <1>5
  <2> QED BY <2>2, <2>3, <2>4 DEF Publishers
<1>10. Ordered'
  <2> SUFFICES ASSUME faults = 0, ~replaced PROVE Ordered'
    BY DEF Ordered
  <2>1. /\ \A m \in 0..Size : NumbersTo(Chain', m) = NumbersTo(Chain, m)
        /\ NumbersTo(Chain', Size') = NumbersTo(Chain, Size)
    <3>1. ASSUME NEW m \in 0..Size PROVE NumbersTo(Chain', m) = NumbersTo(Chain, m)
      <4>1. m \in Nat /\ \A k \in 1..m : Chain'[k] = Chain[k]
        BY <1>2
      <4> QED BY <4>1, NumbersAgree
    <3>2. NumbersTo(Chain', Size + 1) = NumbersTo(Chain', Size)
      <4>1. NumbersTo(Chain', Size + 1) = NumbersTo(Chain', Size) \cup
              (IF Chain'[Size + 1].kind = "message" THEN {Chain'[Size + 1].no} ELSE {})
        BY <1>2, NumbersGrow
      <4> QED BY <1>2, <1>6, <4>1
    <3> QED BY <1>2, <3>1, <3>2
  <2>2. ASSUME NEW k \in 1..Size', Chain'[k].kind = "message"
        PROVE  NumbersTo(Chain', k - 1) = 1..(Chain'[k].no - 1)
    <3>1. k \in 1..Size /\ k - 1 \in 0..Size
      BY <1>2, <1>6, <1>7, <2>2
    <3> QED BY <1>2, <2>1, <2>2, <3>1 DEF Ordered
  <2>3. ASSUME Busy("agent")', pub'["agent"].item.kind = "message"
        PROVE  NumbersTo(Chain', Size') = 1..(agent.sent - 1)
    <3>1. pub'["agent"] = pub["agent"] /\ Busy("agent")
      BY <1>1, <1>4, <1>5, <2>3 DEF Publishers
    <3> QED BY <2>1, <2>3, <3>1 DEF Ordered
  <2> QED BY <1>6, <2>1, <2>2, <2>3 DEF Ordered, NumbersTo
<1> QED BY <1>8, <1>9, <1>10

(* LPOP fails: the item comes from elsewhere, ahead of the log.  It is not   *)
(* the marker, because an event is always left in front of that.             *)
LEMMA PopFailsKeeps ==
  ASSUME QueueTypeOK, QueueTypeOK', Publishing, Boxed, Explained /\ Limited /\ Ordered, PopFails
  PROVE  Explained' /\ Limited' /\ Ordered'
<1>1. /\ FromRedis /\ (FromRedis' <=> FromRedis) /\ faults \in Nat /\ faults' = faults + 1
      /\ UNCHANGED <<setup, replaced, log, delivered, pub>> /\ listen.pc = "poll" /\ listen.item = Wait /\ Poll
  BY DEF PopFails, Listening, FromRedis, Publishing, QueueTypeOK
<1>2. Limited' /\ Ordered'
  BY <1>1 DEF Limited, Ordered
<1>3. Channel' = Channel
  BY <1>1 DEF Channel
<1>4. \A t : Sealing(t)' <=> Sealing(t)
  BY <1>1 DEF Sealing, At
<1>5. CASE listen'.item = listen.item
  <2>1. Chain' = Chain /\ Size' = Size
    BY <1>1, <1>3, <1>5, ChainSame
  <2> QED BY <1>1, <1>2, <1>4, <2>1 DEF Explained, IsTerminal, Publishers
<1>6. CASE listen'.item # listen.item
  <2> SUFFICES ASSUME faults = 0, ~replaced PROVE Explained'
    BY <1>1, <1>2 DEF Explained
  <2>1. listen'.item # Wait /\ listen'.item # None
    <3>1. ReadFrom(box) # "none" /\ queue[ReadFrom(box)] # <<>>
          /\ listen'.item = Head(queue[ReadFrom(box)])
      BY <1>1, <1>6 DEF Poll, Took, QueueTypeOK
    <3>2. ReadFrom(box) \in Boxes /\ queue[ReadFrom(box)] \in Seq(QueueItems \ {Wait})
      BY <3>1 DEF ReadFrom, Boxes, QueueTypeOK
    <3>3. Head(queue[ReadFrom(box)]) = queue[ReadFrom(box)][1]
      BY <3>1, <3>2
    <3>4. queue[ReadFrom(box)][1] # None
      BY <1>1, <3>1, <3>2 DEF Boxed
    <3> QED BY <1>1, <1>6, <3>1, <3>3, <3>4
  <2>2. Hand = 0 /\ Hand' = 1
    BY <1>1, <2>1 DEF Hand
  <2> DEFINE d == Len(delivered)
  <2>3. d \in Nat /\ Len(Channel) \in Nat /\ Size \in Nat /\ Size = d + Len(Channel) /\ Size' = Size + 1
    BY <1>1, <1>3, <2>2, Parts DEF Size
  <2>4. \A k \in 1..Size : Chain[k] = IF k <= d THEN delivered[k] ELSE Channel[k - d]
    BY <2>2, <2>3 DEF Chain
  <2>5. \A k \in 1..Size' : Chain'[k] = IF k <= d THEN delivered[k]
                                       ELSE IF k <= d + 1 THEN listen'.item ELSE Channel[(k - 1) - d]
    <3>1. \A k \in 1..Size' : Chain'[k] = IF k <= d THEN delivered[k]
                                         ELSE IF k <= d + 1 THEN listen'.item ELSE Channel[k - d - 1]
      BY <1>1, <1>3, <2>2 DEF Chain
    <3>2. \A k \in 1..Size' : k - d - 1 = (k - 1) - d
      BY <2>3
    <3> QED BY <3>1, <3>2
  <2> HIDE DEF d
  <2>6. /\ \A k \in 1..Size : k <= d => k \in 1..Size' /\ Chain'[k] = Chain[k]
        /\ \A k \in 1..Size : k > d => k + 1 \in 1..Size' /\ Chain'[k + 1] = Chain[k]
    <3>1. ASSUME NEW k \in 1..Size, k <= d PROVE k \in 1..Size' /\ Chain'[k] = Chain[k]
      <4>1. k \in 1..Size'
        BY <2>3
      <4> QED BY <2>4, <2>5, <3>1, <4>1
    <3>2. ASSUME NEW k \in 1..Size, k > d PROVE k + 1 \in 1..Size' /\ Chain'[k + 1] = Chain[k]
      <4>1. k + 1 \in 1..Size' /\ (k + 1) - 1 = k /\ ~(k + 1 <= d) /\ ~(k + 1 <= d + 1) /\ ~(k <= d)
        BY <2>3, <3>2
      <4> QED BY <2>4, <2>5, <4>1
    <3> QED BY <3>1, <3>2
  <2>7. ASSUME NEW n \in 0..Size, \E j \in 1..n : IsTerminal(Chain[j])
        PROVE  \E j \in 1..(n + 1) : IsTerminal(Chain'[j]) /\ (n <= d => j <= n)
    <3>1. PICK j \in 1..n : IsTerminal(Chain[j])
      BY <2>7
    <3>2. CASE j <= d
      BY <2>3, <2>6, <3>1, <3>2
    <3>3. CASE j > d
      <4>1. j \in 1..Size /\ j + 1 \in 1..(n + 1) /\ ~(n <= d)
        BY <2>3, <3>1, <3>3
      <4>2. Chain'[j + 1] = Chain[j]
        BY <2>6, <3>3, <4>1
      <4> QED BY <3>1, <4>1, <4>2
    <3> QED BY <2>3, <3>2, <3>3
  <2>8. ASSUME NEW k \in 1..Size', Chain'[k] = None PROVE \E j \in 1..(k - 1) : IsTerminal(Chain'[j])
    <3>1. CASE k <= d
      <4>1. k \in 1..Size /\ k - 1 \in 0..Size /\ Chain[k] = None /\ k - 1 <= d
        BY <2>3, <2>6, <2>8, <3>1
      <4>2. \E j \in 1..(k - 1) : IsTerminal(Chain[j])
        BY <4>1 DEF Explained
      <4> QED BY <2>7, <4>1, <4>2
    <3>2. CASE k = d + 1
      BY <2>1, <2>3, <2>5, <2>8, <3>2
    <3>3. CASE k > d + 1
      <4>1. k - 1 \in 1..Size /\ (k - 1) - 1 \in 0..Size /\ ((k - 1) - 1) + 1 = k - 1 /\ Chain[k - 1] = None
        <5>1. k - 1 \in 1..Size /\ k - 1 > d /\ (k - 1) + 1 = k
          BY <2>3, <3>3
        <5> QED BY <2>3, <2>6, <2>8, <5>1
      <4>2. \E j \in 1..((k - 1) - 1) : IsTerminal(Chain[j])
        BY <4>1 DEF Explained
      <4> QED BY <2>7, <4>1, <4>2
    <3> QED BY <2>3, <3>1, <3>2, <3>3
  <2>9. ASSUME NEW t \in Publishers, Sealing(t)' PROVE \E j \in 1..Size' : IsTerminal(Chain'[j])
    <3>1. \E j \in 1..Size : IsTerminal(Chain[j])
      BY <1>4, <2>9 DEF Explained
    <3> QED BY <2>3, <2>7, <3>1
  <2> QED BY <2>8, <2>9 DEF Explained, IsTerminal
<1> QED BY <1>5, <1>6

(* A thread in publish.                                                      *)
LEMMA PublishKeeps ==
  ASSUME QueueTypeOK, QueueTypeOK', Publishing, Unused, Explained /\ Limited /\ Ordered, NEW t \in Publishers,
         PublishStep(t) \/ PersistFails(t) \/ (QueueRaises(t) /\ listen' = listen)
  PROVE  Explained' /\ Limited' /\ Ordered'
<1>1. (FromRedis' <=> FromRedis) /\ Mode' = Mode
  BY DEF PublishStep, PersistFails, QueueRaises, MarkTerminal, Missing, Put, StopListen, Persist, Seal, FromRedis, Mode
<1>2. CASE MarkTerminal(t) \/ Missing(t) \/ PersistFails(t) \/ (QueueRaises(t) /\ listen' = listen)
             \/ (FromRedis /\ (Put(t) \/ StopListen(t)))
  <2>1. listen' = listen
    BY <1>2 DEF MarkTerminal, Missing, PersistFails, Put, StopListen
  <2> QED BY <1>2, <2>1, MarksKeep
<1>3. CASE ~FromRedis /\ Put(t)
  <2>1. /\ queue' = [queue EXCEPT ![ReadFrom(box')] = Append(@, pub[t].item)]
        /\ Channel' = queue'[ReadFrom(box')] /\ ReadFrom(box') \in DOMAIN queue
    <3>1. box' \in Boxes /\ "none" \notin Boxes
      BY <1>3 DEF Put, Install, At, Boxes, Publishers, QueueTypeOK
    <3>2. ReadFrom(box') \in Boxes /\ ReadFrom(box)' = ReadFrom(box')
      BY <1>1, <3>1 DEF ReadFrom, Boxes
    <3> QED BY <1>1, <1>3, <3>1, <3>2 DEF Put, Channel, QueueTypeOK
  <2>2. Channel' = Append(Channel, pub[t].item) \/ (Channel' = <<pub[t].item>> /\ replaced')
    <3>1. CASE Mode = "stream" /\ At(t, "create")
      <4>1. Install(t)
        BY <1>3, <3>1 DEF Put
      <4>2. ReadFrom(box') = t /\ queue[t] = <<>> /\ (Channel = <<>> \/ replaced')
        BY <1>3, <3>1, <4>1, Installed
      <4> QED BY <2>1, <4>2
    <3>2. CASE ~(Mode = "stream" /\ At(t, "create"))
      <4>1. ReadFrom(box') = ReadFrom(box) /\ ReadFrom(box) # "none"
        <5>1. Mode \in {"stream", "astream"}
          BY AgentQueueAssumption DEF Mode, QueueTypeOK
        <5>2. CASE Mode = "astream"
          BY <5>2 DEF ReadFrom
        <5>3. CASE ~At(t, "create")
          BY <1>3, <5>1, <5>3 DEF Put, ReadFrom
        <5> QED BY <3>2, <5>1, <5>2, <5>3
      <4> QED BY <1>3, <2>1, <4>1 DEF Channel
    <3> QED BY <3>1, <3>2
  <2>3. AfterPut(t) \in {"idle", "close"} /\ (AfterPut(t) # "idle" => IsTerminal(pub[t].item))
    BY <1>3 DEF AfterPut
  <2>4. Busy(t) /\ ~At(t, "mark") /\ (replaced => replaced')
    BY <1>3 DEF Put, Install, Busy, At
  <2> QED BY <1>3, <2>2, <2>3, <2>4, EventKeeps DEF Put
<1>4. CASE ~FromRedis /\ StopListen(t)
  <2>1. /\ queue' = [queue EXCEPT ![ReadFrom(box)] = Append(@, None)] /\ UNCHANGED <<box, replaced>>
        /\ ReadFrom(box) \in DOMAIN queue /\ ReadFrom(box) # "none"
    BY <1>1, <1>4 DEF StopListen, Unused, ReadFrom, QueueTypeOK, Boxes
  <2>2. Channel' = Append(Channel, None)
    BY <1>1, <1>4, <2>1 DEF Channel, ReadFrom
  <2>3. Sealing(t)
    BY <1>4 DEF StopListen, Sealing
  <2> QED BY <1>4, <2>2, <2>3, MarkerKeeps DEF StopListen
<1>5. CASE Persist(t)
  <2>1. FromRedis
    BY <1>5 DEF Persist, Publishing
  <2>2. Channel' = Append(Channel, pub[t].item)
    BY <1>1, <1>5, <2>1 DEF Channel, Persist
  <2>3. Busy(t) /\ ~At(t, "mark")
    BY <1>5 DEF Persist, Busy, At
  <2> QED BY <1>5, <2>2, <2>3, EventKeeps DEF Persist
<1>6. CASE Seal(t)
  <2>1. FromRedis
    BY <1>6 DEF Seal, Publishing
  <2>2. Channel' = Append(Channel, None)
    BY <1>1, <1>6, <2>1 DEF Channel, Seal
  <2>3. Sealing(t)
    BY <1>6 DEF Seal, Sealing
  <2> QED BY <1>6, <2>2, <2>3, MarkerKeeps DEF Seal
<1> QED BY <1>2, <1>3, <1>4, <1>5, <1>6 DEF PublishStep

(* A queue of the listener takes the place of another, and what was in that goes. *)
LEMMA MakeKeeps ==
  ASSUME QueueTypeOK, QueueTypeOK', Publishing, Unused, Explained /\ Limited /\ Ordered, MakeQueue
  PROVE  Explained' /\ Limited' /\ Ordered'
<1>1. /\ UNCHANGED <<setup, queue, log, terminal, pub, delivered, agent, faults>> /\ listen.pc = "create"
      /\ listen.item = Wait /\ listen'.item = Wait /\ Install("listener") /\ "listener" \in Publishers
  BY DEF MakeQueue, Listening, Took, Publishing, Publishers
<1>2. (FromRedis' <=> FromRedis) /\ Mode' = Mode
  BY <1>1 DEF FromRedis, Mode
<1>3. CASE Channel' = Channel /\ replaced' = replaced
  <2>1. Chain' = Chain /\ Size' = Size
    BY <1>1, <1>3, ChainSame
  <2> QED BY <1>1, <1>3, <2>1, ReadsKeep
<1>4. CASE replaced' /\ Channel' = <<>>
  <2>1. Explained' /\ Ordered'
    BY <1>4 DEF Explained, Ordered
  <2>2. Size' = Len(delivered) /\ 1..Size' \subseteq 1..Size /\ \A k \in 1..Size' : Chain'[k] = Chain[k]
    <3>1. Hand = 0 /\ Hand' = 0 /\ Len(Channel') = 0 /\ Len(delivered) \in Nat
      BY <1>1, <1>4, Parts DEF Hand
    <3>2. Size' = Len(delivered)
      BY <1>1, <3>1 DEF Size
    <3>3. \A k \in 1..Size' : Chain'[k] = delivered[k]
      BY <1>1, <3>1, <3>2 DEF Chain
    <3>4. \A k \in 1..Len(delivered) : k \in 1..Size /\ Chain[k] = delivered[k]
      BY Parts
    <3> QED BY <3>2, <3>3, <3>4
  <2>3. \A t : Busy(t)' <=> Busy(t)
    BY <1>1, <1>2 DEF Busy, At
  <2>4. Limited'
    BY <1>1, <1>2, <2>2, <2>3 DEF Limited, IsTerminal, IsEvent
  <2> QED BY <2>1, <2>4
<1>5. (Channel' = Channel /\ replaced' = replaced) \/ (replaced' /\ Channel' = <<>>)
  <2>1. CASE FromRedis
    BY <1>1, <1>2, <2>1, InstallLog DEF Channel
  <2>2. CASE ~FromRedis /\ Mode # "stream"
    <3>1. Mode = "astream"
      BY <2>2, AgentQueueAssumption DEF Mode, QueueTypeOK
    <3> QED BY <1>1, <1>2, <2>2, <3>1, InstallLog DEF Channel, ReadFrom
  <2>3. CASE ~FromRedis /\ Mode = "stream"
    <3>1. box' = "listener" /\ queue["listener"] = <<>> /\ (Channel = <<>> \/ replaced')
      BY <1>1, <2>3, Installed
    <3>2. Channel' = <<>>
      BY <1>1, <1>2, <2>3, <3>1 DEF Channel, ReadFrom
    <3>3. replaced' = replaced \/ replaced'
      BY <1>1 DEF Install, QueueTypeOK
    <3> QED BY <3>1, <3>2, <3>3
  <2> QED BY <2>1, <2>2, <2>3
<1> QED BY <1>3, <1>4, <1>5

(* The listener takes what comes, or nothing.                                *)
LEMMA TakesKeep ==
  ASSUME QueueTypeOK, QueueTypeOK', Publishing, Explained /\ Limited /\ Ordered, Pop \/ Get
  PROVE  Explained' /\ Limited' /\ Ordered'
<1>1. /\ UNCHANGED <<setup, box, replaced, terminal, pub, delivered, agent, faults>> /\ (FromRedis' <=> FromRedis)
      /\ listen.item = Wait /\ Mode' = Mode
  BY DEF Pop, Get, FromRedis, Listening, Publishing, Mode
<1>2. Chain' = Chain /\ Size' = Size
  <2>1. CASE Pop /\ log = <<>>
    <3>1. listen'.item = listen.item /\ Channel' = Channel
      BY <1>1, <2>1 DEF Pop, Took, Channel
    <3> QED BY <1>1, <3>1, ChainSame
  <2>2. CASE Pop /\ log # <<>>
    <3>1. listen'.item = Head(Channel) /\ Channel' = Tail(Channel) /\ Channel # <<>>
      BY <1>1, <2>2 DEF Pop, Took, Channel
    <3> QED BY <1>1, <3>1, TakenKeeps
  <2>3. CASE Get /\ ReadFrom(box) = "none"
    <3>1. listen'.item = listen.item /\ Channel' = Channel
      BY <1>1, <2>3 DEF Get, Poll, Channel, ReadFrom, QueueTypeOK
    <3> QED BY <1>1, <3>1, ChainSame
  <2>4. CASE Get /\ ReadFrom(box) # "none"
    <3>1. /\ Channel = queue[ReadFrom(box)] /\ Channel' = queue'[ReadFrom(box)] /\ Poll
          /\ ReadFrom(box) \in DOMAIN queue
      BY <1>1, <2>4 DEF Get, Channel, ReadFrom, QueueTypeOK, Boxes
    <3>2. CASE Channel = <<>>
      <4>1. Took(Wait) /\ queue' = queue
        BY <2>4, <3>1, <3>2 DEF Poll
      <4>2. listen'.item = listen.item /\ Channel' = Channel
        BY <1>1, <3>1, <4>1 DEF Took
      <4> QED BY <1>1, <4>2, ChainSame
    <3>3. CASE Channel # <<>>
      <4>1. listen'.item = Head(Channel) /\ Channel' = Tail(Channel)
        BY <2>4, <3>1, <3>3 DEF Poll, Took
      <4> QED BY <1>1, <3>3, <4>1, TakenKeeps
    <3> QED BY <3>2, <3>3
  <2> QED BY <2>1, <2>2, <2>3, <2>4
<1> QED BY <1>1, <1>2, ReadsKeep

(* The heartbeats, and what the agent has to say.                            *)
LEMMA SaysKeep ==
  ASSUME QueueTypeOK, QueueTypeOK', Publishing, Explained /\ Limited /\ Ordered,
         Say \/ Conclude \/ Ping \/ ListenTimeout \/ Stop
  PROVE  Explained' /\ Limited' /\ Ordered'
<1>1. /\ UNCHANGED <<setup, box, queue, replaced, log, terminal, delivered, faults>>
      /\ listen'.item = listen.item
  BY DEF Say, Conclude, Ping, ListenTimeout, Stop, QueueTypeOK
<1>2. CASE Say
  <2>1. agent.sent \in 0..MaxMessages /\ agent.sent < MaxMessages /\ agent'.sent = agent.sent + 1
    BY <1>2 DEF Say, QueueTypeOK
  <2>2. Message(agent.sent + 1) \in QueueItems /\ Message(agent.sent + 1).kind = "message"
    BY <2>1, ItemTypes DEF Message
  <2> QED BY <1>1, <1>2, <2>1, <2>2, OpensKeep DEF Say, Publishers
<1>3. CASE Conclude
  <2>1. PICK k \in {"end", "error", "timeout"} : Publish("agent", Event(k))
    BY <1>3 DEF Conclude
  <2>2. Event(k) \in QueueItems /\ IsTerminal(Event(k)) /\ agent'.sent = agent.sent
    BY <1>3, ItemTypes DEF Conclude, IsTerminal, Event, TerminalEvents, QueueTypeOK
  <2> QED BY <1>1, <2>1, <2>2, OpensKeep DEF Publishers
<1>4. CASE Ping \/ ListenTimeout \/ Stop
  <2>1. agent' = agent
    BY <1>4 DEF Ping, ListenTimeout, Stop
  <2>2. CASE pub' = pub
    <3>1. Chain' = Chain /\ Size' = Size
      BY <1>1, ChainSame DEF Channel, ReadFrom, Mode, FromRedis
    <3> QED BY <1>1, <2>1, <2>2, <3>1, ReadsKeep
  <2>3. CASE pub' # pub
    <3>1. PICK k \in {"ping", "timeout", "stop"} : Publish("listener", Event(k))
      BY <1>4, <2>3 DEF Ping, ListenTimeout, Stop
    <3>2. Event(k) \in QueueItems
      BY ItemTypes DEF TerminalEvents
    <3> QED BY <1>1, <2>1, <3>1, <3>2, OpensKeep DEF Publishers
  <2> QED BY <2>2, <2>3
<1> QED BY <1>2, <1>3, <1>4

LEMMA YieldKeeps ==
  ASSUME QueueTypeOK, QueueTypeOK', Publishing, Explained /\ Limited /\ Ordered, Yield, listen.item # None
  PROVE  Explained' /\ Limited' /\ Ordered'
<1>1. UNCHANGED <<setup, replaced, log, terminal, pub, agent, faults>> /\ listen'.item = Wait
      /\ Channel' = Channel
  BY DEF Yield, Channel, ReadFrom, Mode, FromRedis
<1>2. Chain' = Chain /\ Size' = Size
  <2>1. CASE listen.item = Wait
    BY <1>1, <2>1, ChainSame DEF Yield
  <2>2. CASE listen.item # Wait
    BY <1>1, <2>2, YieldedKeeps DEF Yield
  <2> QED BY <2>1, <2>2
<1> QED BY <1>1, <1>2, ReadsKeep

LEMMA NextOnTheWay ==
  ASSUME QueueTypeOK, QueueTypeOK', Publishing, Boxed, Unused, OnTheWay, [QueueNext]_queueVars
  PROVE  OnTheWay'
<1> SUFFICES ASSUME Running' PROVE Explained' /\ Limited' /\ Ordered'
  BY DEF OnTheWay
<1>1. Running /\ Explained /\ Limited /\ Ordered
  <2>1. ASSUME NEW t \in Publishers, PublishStep(t) \/ PersistFails(t) \/ QueueRaises(t) PROVE Running
    BY <2>1 DEF PublishStep, MarkTerminal, Missing, Put, StopListen, Persist, Seal, PersistFails, QueueRaises, Running
  <2>2. ASSUME ListenStep \/ PopFails \/ ListenRaises PROVE Running
    BY <2>2 DEF ListenStep, Pop, Get, MakeQueue, Ping, ListenTimeout, Stop, Yield, PopFails, ListenRaises,
                Listening, Running
  <2>3. ASSUME Say \/ Conclude \/ TimePasses \/ UNCHANGED queueVars PROVE Running
    BY <2>3 DEF Say, Conclude, TimePasses, queueVars, Running
  <2>4. Running
    BY <2>1, <2>2, <2>3 DEF QueueNext
  <2> QED BY <2>4 DEF OnTheWay
<1>2. CASE UNCHANGED queueVars \/ TimePasses
  <2>1. UNCHANGED <<setup, box, queue, replaced, log, terminal, pub, listen, delivered, agent, faults>>
    BY <1>2 DEF queueVars, TimePasses
  <2>2. Chain' = Chain /\ Size' = Size
    BY <2>1, ChainSame DEF Channel, ReadFrom, Mode, FromRedis
  <2> QED BY <1>1, <2>1, <2>2, ReadsKeep
<1>3. ASSUME NEW t \in Publishers, PublishStep(t) \/ PersistFails(t) \/ QueueRaises(t)
      PROVE  Explained' /\ Limited' /\ Ordered'
  <2>1. QueueRaises(t) => listen' = listen
    BY DEF QueueRaises, Running
  <2> QED BY <1>1, <1>3, <2>1, PublishKeeps
<1>4. CASE Yield
  <2>1. listen.item # None
    BY <1>4 DEF Yield, Running
  <2> QED BY <1>1, <1>4, <2>1, YieldKeeps
<1>5. CASE ListenRaises
  BY <1>5 DEF ListenRaises, Running
<1> QED BY <1>1, <1>2, <1>3, <1>4, <1>5, TakesKeep, MakeKeeps, SaysKeep, PopFailsKeeps DEF QueueNext, ListenStep

(* What has reached the response is the beginning of what is on the way.     *)
LEMMA DeliveredInOrder ==
  ASSUME QueueTypeOK, Ordered, Limited
  PROVE  EventsInOrder /\ LittleAfterTheEnd
<1>1. /\ delivered \in Seq(QueueItems \ {None, Wait}) /\ Size \in Nat
      /\ \A k \in 1..Len(delivered) : k \in 1..Size /\ Chain[k] = delivered[k]
  BY Parts
<1>2. Len(delivered) \in Nat /\ DOMAIN delivered = 1..Len(delivered)
      /\ \A k \in 1..Len(delivered) : IsEvent(delivered[k])
  BY <1>1, ItemTypes
<1>3. EventsInOrder
  <2> SUFFICES ASSUME faults = 0, ~replaced, NEW i \in 1..Len(delivered), delivered[i].kind = "message"
               PROVE  NumbersTo(delivered, i - 1) = 1..(delivered[i].no - 1)
    BY <1>2 DEF EventsInOrder, NumbersTo
  <2>1. i - 1 \in 0..Len(delivered)
    BY <1>2
  <2>2. NumbersTo(delivered, i - 1) = NumbersTo(Chain, i - 1)
    <3>1. i - 1 \in Nat /\ \A k \in 1..(i - 1) : Chain[k] = delivered[k]
      BY <1>1, <1>2
    <3> QED BY <3>1, NumbersAgree
  <2> QED BY <1>1, <2>2 DEF Ordered
<1>4. LittleAfterTheEnd
  <2> SUFFICES ASSUME ~FromRedis \/ faults = 0, NEW i \in 1..Len(delivered), NEW j \in 1..Len(delivered),
                      IsTerminal(delivered[i]), i < j
               PROVE  j = i + 1 /\ j = Len(delivered)
    BY <1>2 DEF LittleAfterTheEnd
  <2>1. \A k \in 1..Len(delivered) : i < k => k = j
    BY <1>1, <1>2 DEF Limited
  <2>2. i + 1 \in 1..Len(delivered) /\ Len(delivered) \in 1..Len(delivered) /\ i < i + 1 /\ i < Len(delivered)
    BY <1>2
  <2> QED BY <2>1, <2>2
<1> QED BY <1>3, <1>4

LEMMA NextDelivered ==
  ASSUME QueueTypeOK, QueueTypeOK', Publishing, OnTheWay, OnTheWay', EventsInOrder /\ ToldWhy /\ LittleAfterTheEnd,
         [QueueNext]_queueVars
  PROVE  EventsInOrder' /\ ToldWhy' /\ LittleAfterTheEnd'
<1>1. (FromRedis' <=> FromRedis) /\ (faults' = faults \/ faults' = faults + 1) /\ faults \in Nat
  <2>1. ASSUME NEW t \in Publishers, PublishStep(t) \/ PersistFails(t) \/ QueueRaises(t)
        PROVE  setup' = setup /\ (faults' = faults \/ faults' = faults + 1)
    BY <2>1 DEF PublishStep, MarkTerminal, Missing, Put, StopListen, Persist, Seal, PersistFails, QueueRaises
  <2>2. ASSUME ListenStep PROVE setup' = setup /\ (faults' = faults \/ faults' = faults + 1)
    BY <2>2 DEF ListenStep, Pop, Get, MakeQueue, Ping, ListenTimeout, Stop, Yield
  <2>3. ASSUME Say \/ Conclude \/ PopFails \/ ListenRaises \/ TimePasses \/ UNCHANGED queueVars
        PROVE  setup' = setup /\ (faults' = faults \/ faults' = faults + 1)
    BY <2>3 DEF Say, Conclude, PopFails, ListenRaises, TimePasses, queueVars
  <2>4. setup' = setup /\ (faults' = faults \/ faults' = faults + 1)
    BY <2>1, <2>2, <2>3 DEF QueueNext
  <2> QED BY <2>4 DEF FromRedis, QueueTypeOK
<1>2. (delivered' = delivered /\ (listen'.pc = "ended" => listen.pc = "ended")) \/ Yield
  <2>1. ASSUME NEW t \in Publishers, PublishStep(t) \/ PersistFails(t) \/ QueueRaises(t)
        PROVE  delivered' = delivered /\ (listen'.pc = "ended" => listen.pc = "ended")
    BY <2>1 DEF PublishStep, MarkTerminal, Missing, Put, StopListen, Persist, Seal, PersistFails, QueueRaises
  <2>2. ASSUME Pop \/ Get \/ MakeQueue \/ PopFails
        PROVE  delivered' = delivered /\ (listen'.pc = "ended" => listen.pc = "ended")
    <3>1. CASE Pop \/ MakeQueue
      BY <3>1 DEF Pop, MakeQueue, Took
    <3>2. CASE Get \/ PopFails
      <4>1. listen'.pc \in {"create", "ping"}
        BY <3>2, PollTypes DEF Get, PopFails, Listening
      <4> QED BY <3>2, <4>1 DEF Get, PopFails
    <3> QED BY <2>2, <3>1, <3>2
  <2>3. ASSUME Ping \/ ListenTimeout \/ Stop
        PROVE  delivered' = delivered /\ (listen'.pc = "ended" => listen.pc = "ended")
    BY <2>3 DEF Ping, ListenTimeout, Stop, QueueTypeOK
  <2>4. ASSUME Say \/ Conclude \/ ListenRaises \/ TimePasses \/ UNCHANGED queueVars
        PROVE  delivered' = delivered /\ (listen'.pc = "ended" => listen.pc = "ended")
    BY <2>4 DEF Say, Conclude, ListenRaises, TimePasses, queueVars
  <2> QED BY <2>1, <2>2, <2>3, <2>4 DEF QueueNext, ListenStep
<1>3. CASE delivered' = delivered /\ (listen'.pc = "ended" => listen.pc = "ended")
  <2>1. (faults' = 0 => faults = 0) /\ (faults' <= 1 => faults <= 1) /\ (~replaced' => ~replaced)
    BY <1>1, ReplacedStays
  <2>2. EventsInOrder'
    BY <1>3, <2>1 DEF EventsInOrder
  <2>3. ToldWhy'
    BY <1>3, <2>1 DEF ToldWhy, IsTerminal
  <2>4. LittleAfterTheEnd'
    BY <1>1, <1>3, <2>1 DEF LittleAfterTheEnd, IsTerminal
  <2> QED BY <2>2, <2>3, <2>4
<1>4. CASE Yield /\ listen.item # None
  <2>1. Running' /\ listen'.pc # "ended"
    BY <1>4 DEF Yield, Running
  <2>2. Ordered' /\ Limited'
    BY <2>1 DEF OnTheWay
  <2>3. EventsInOrder' /\ LittleAfterTheEnd'
    BY <2>2, DeliveredInOrder, PTL
  <2> QED BY <2>1, <2>3 DEF ToldWhy
<1>5. CASE Yield /\ listen.item = None
  <2>1. delivered' = delivered /\ faults' = faults /\ replaced' = replaced /\ Running
    BY <1>5 DEF Yield, Running, Listening
  <2>2. EventsInOrder' /\ LittleAfterTheEnd'
    BY <1>1, <2>1 DEF EventsInOrder, LittleAfterTheEnd, IsTerminal
  <2>3. ASSUME faults <= 1, ~replaced PROVE \E i \in DOMAIN delivered : IsTerminal(delivered[i])
    <3>1. /\ delivered \in Seq(QueueItems \ {None, Wait}) /\ Hand = 1 
          /\ \A k \in 1..Len(delivered) : k \in 1..Size /\ Chain[k] = delivered[k]
          /\ Len(delivered) + 1 \in 1..Size /\ Chain[Len(delivered) + 1] = None
      BY <1>5, Parts, ItemTypes
    <3>2. PICK j \in 1..((Len(delivered) + 1) - 1) : IsTerminal(Chain[j])
      BY <2>1, <2>3, <3>1 DEF OnTheWay, Explained
    <3>3. j \in 1..Len(delivered) /\ DOMAIN delivered = 1..Len(delivered)
      BY <3>1
    <3> QED BY <3>1, <3>2, <3>3
  <2>4. ToldWhy'
    BY <2>1, <2>3 DEF ToldWhy, IsTerminal
  <2> QED BY <2>2, <2>4
<1> QED BY <1>2, <1>3, <1>4, <1>5

-----------------------------------------------------------------------------
(* Together they are an inductive invariant, whatever the setup.             *)
THEOREM QInvariance == QueueSpec => []QInv
<1>1. QueueInit => QInv
  BY InitQInv
<1>2. QInv /\ [QueueNext]_queueVars => QInv'
  <2> SUFFICES ASSUME QInv, [QueueNext]_queueVars PROVE QInv'
    OBVIOUS
  <2>1. QueueTypeOK'
    BY NextTypes DEF QInv
  <2>2. Publishing' /\ Boxed' /\ Unused' /\ OnTheWay'
    BY <2>1, NextPublishing, NextBoxed, NextUnused, NextOnTheWay DEF QInv
  <2>3. EventsInOrder' /\ ToldWhy' /\ LittleAfterTheEnd'
    BY <2>1, <2>2, NextDelivered DEF QInv
  <2> QED BY <2>1, <2>2, <2>3 DEF QInv
<1> QED BY <1>1, <1>2, PTL DEF QueueSpec

(* Any number of events, heartbeats and failures: the channel keeps its      *)
(* types; ...                                                                *)
THEOREM ChannelTypes == QueueSpec => []QueueTypeOK
<1>1. QInv => QueueTypeOK
  BY DEF QInv
<1> QED BY <1>1, QInvariance, PTL

(* ... while Redis answers, and no queue was replaced with events in it, the *)
(* response gets the agent's events in the order of their publication, each *)
(* once and none left out: the heartbeats,                                   *)
(* the timeout and the stop that the listener publishes into the same        *)
(* channel, and the listener taking up an item between any two accesses of   *)
(* the agent's thread, neither reorder nor drop one; ...                     *)
THEOREM AllInOrder == QueueSpec => []EventsInOrder
<1>1. QInv => EventsInOrder
  BY DEF QInv
<1> QED BY <1>1, QInvariance, PTL

(* ... the listening ends only after the response was told why, even if a    *)
(* command of Redis failed at the worst moment, unless a queue was replaced  *)
(* with events in it; ...                                                    *)
THEOREM EndExplained == QueueSpec => []ToldWhy
<1>1. QInv => ToldWhy
  BY DEF QInv
<1> QED BY <1>1, QInvariance, PTL

(* ... and after the event that says why it gets at most the one event the   *)
(* other thread had already taken up, even if a queue was replaced, unless   *)
(* the response is read from a log that failed.                              *)
THEOREM LittleAfter == QueueSpec => []LittleAfterTheEnd
<1>1. QInv => LittleAfterTheEnd
  BY DEF QInv
<1> QED BY <1>1, QInvariance, PTL
=============================================================================
