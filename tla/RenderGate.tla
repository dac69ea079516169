----------------------------- MODULE RenderGate ------------------------------
(* The gate in front of the cloud renderer: a counter of running renders for  *)
(* each account, a lock for each script, and a counter of waiting renders, in *)
(* Redis (render_guard_service.py); the dispatch that asks for admission      *)
(* (render_video.py) and the Celery task that gives it back                   *)
(* (render_tasks.py).  A request is one call of the tool, and its task the    *)
(* message it sends.  Every command to Redis is a step of its own.            *)
EXTENDS Integers, FiniteSets, FiniteSetsExt

CONSTANTS
  Requests,      \* calls of the tool
  Users, Scripts,
  AccountOf, ScriptOf,   \* of a request
  MaxWaiting,    \* MAX_QUEUED_RENDERS
  MaxRetries,    \* max_retries of the task
  Capacity,      \* processes of the render worker
  MaxFaults      \* bound of the model: calls, notifications, workers and dispatches
                 \* that fail and keys that expire

MaxRenders == 1   \* MAX_CONCURRENT_RENDERS_PER_ACCOUNT
Keys == Users \X Scripts

ASSUME RenderAssumption ==
  /\ IsFiniteSet(Requests)
  /\ AccountOf \in [Requests -> Users] /\ ScriptOf \in [Requests -> Scripts]
  /\ MaxWaiting \in Nat /\ MaxRetries \in Nat /\ Capacity \in Nat \ {0}
  /\ MaxFaults \in Nat

VARIABLES
  slot,      \* render:slot, 0 when there is no key
  fading,    \* accounts whose key has an expiry
  script,    \* render:dedupe, the keys that exist
  queue,     \* render:queue:count
  at,        \* where each dispatch is
  render,    \* where each task is
  ending,    \* how the attempt of a task ended: "over" and "other" are the ends of a failed one
  retries,   \* request.retries of a task
  told,      \* notifications that the render of a task has ended
  unheard,   \* tasks of which a notification has failed
  failures,  \* calls of Redis or of the broker that failed
  losses,    \* render workers that were killed
  deaths,    \* dispatches that died
  expiries   \* keys that expired

gate == <<slot, fading, script, queue>>
work == <<render, ending, retries, told, unheard>>
faults == <<failures, losses, deaths, expiries>>
gateVars == <<gate, at, work, faults>>

OwnerOf(r) == AccountOf[r]
Key(r) == <<AccountOf[r], ScriptOf[r]>>

GateInit ==
  /\ slot = [a \in Users |-> 0] /\ fading = {} /\ script = {} /\ queue = 0
  /\ at = [r \in Requests |-> "new"]
  /\ render = [r \in Requests |-> "none"]
  /\ ending = [r \in Requests |-> "none"]
  /\ retries = [r \in Requests |-> 0]
  /\ told = [r \in Requests |-> 0] /\ unheard = {}
  /\ failures = 0 /\ losses = 0 /\ deaths = 0 /\ expiries = 0

Another == failures + losses + deaths + expiries + Cardinality(unheard) < MaxFaults

Fails == Another /\ failures' = failures + 1
Works == UNCHANGED failures
Alive == UNCHANGED <<losses, deaths, expiries>>

-----------------------------------------------------------------------------
(* Commands                                                                  *)

\* DECR, and DELETE if it left nothing: two commands.
DecrSlot(a) ==
  /\ slot' = [slot EXCEPT ![a] = slot[a] - 1]
  /\ UNCHANGED <<fading, script, queue>>
DeleteSlot(a) ==
  /\ slot' = [slot EXCEPT ![a] = 0] /\ fading' = fading \ {a}
  /\ UNCHANGED <<script, queue>>

\* What follows a DECR.
Following(n, delete, done) == IF n <= 0 THEN delete ELSE done

\* release: the slot, then the lock; a call that fails is only logged.
GiveBack(r, pc, done, Go(_)) ==
  /\ \/ /\ pc = "release" /\ Works
        /\ DecrSlot(OwnerOf(r)) /\ Go(Following(slot[OwnerOf(r)] - 1, "delete", "unlock"))
     \/ pc = "delete" /\ Works /\ DeleteSlot(OwnerOf(r)) /\ Go("unlock")
     \/ pc \in {"release", "delete"} /\ Fails /\ UNCHANGED gate /\ Go("unlock")
     \/ /\ pc = "unlock"
        /\ \/ Works /\ script' = script \ {Key(r)}
           \/ Fails /\ UNCHANGED script
        /\ UNCHANGED <<slot, fading, queue>> /\ Go(done)
  /\ Alive

-----------------------------------------------------------------------------
(* A dispatch: admit, delay and mark_enqueued                                *)

Goto(r, pc) == at' = [at EXCEPT ![r] = pc] /\ UNCHANGED work

\* When the length cannot be read, the request goes on.
ReadQueue(r) ==
  /\ at[r] = "new"
  /\ \/ Works /\ Goto(r, IF queue >= MaxWaiting THEN "refused" ELSE "slot")
     \/ Fails /\ Goto(r, "slot")
  /\ UNCHANGED gate /\ Alive

IncrSlot(r) ==
  /\ at[r] = "slot"
  /\ \/ /\ Works
        /\ slot' = [slot EXCEPT ![OwnerOf(r)] = slot[OwnerOf(r)] + 1]
        /\ Goto(r, IF slot[OwnerOf(r)] + 1 > MaxRenders THEN "expireOver" ELSE "expire")
     \/ Fails /\ UNCHANGED slot /\ Goto(r, "lock")
  /\ UNCHANGED <<fading, script, queue>> /\ Alive

\* When EXPIRE fails, the count is taken for 1.
ExpireSlot(r) ==
  /\ at[r] \in {"expire", "expireOver"}
  /\ \/ /\ Works
        /\ fading' = IF slot[OwnerOf(r)] # 0 THEN fading \cup {OwnerOf(r)} ELSE fading
        /\ Goto(r, IF at[r] = "expireOver" THEN "undo" ELSE "lock")
     \/ Fails /\ UNCHANGED fading /\ Goto(r, "lock")
  /\ UNCHANGED <<slot, script, queue>> /\ Alive

\* Mutant of LockScript: the lock is set whether or not it is there.
LockScriptAnyway(r) ==
  /\ at[r] = "lock"
  /\ \/ Works /\ script' = script \cup {Key(r)}
     \/ Fails /\ UNCHANGED script
  /\ Goto(r, "send")
  /\ UNCHANGED <<slot, fading, queue>> /\ Alive

LockScript(r) ==
  /\ at[r] = "lock"
  /\ \/ Works /\ script' = script \cup {Key(r)} /\ Goto(r, IF Key(r) \in script THEN "undo" ELSE "send")
     \/ Fails /\ UNCHANGED script /\ Goto(r, "send")
  /\ UNCHANGED <<slot, fading, queue>> /\ Alive

\* _safe_decr of a request that is refused.
Undo(r) ==
  /\ at[r] \in {"undo", "undoDelete"}
  /\ \/ /\ Works
        /\ IF at[r] = "undo"
           THEN DecrSlot(OwnerOf(r)) /\ Goto(r, Following(slot[OwnerOf(r)] - 1, "undoDelete", "refused"))
           ELSE DeleteSlot(OwnerOf(r)) /\ Goto(r, "refused")
     \/ Fails /\ UNCHANGED gate /\ Goto(r, "refused")
  /\ Alive

\* delay: when the broker does not take the message, everything is given back.
Send(r) ==
  /\ at[r] = "send"
  /\ \/ Works /\ render' = [render EXCEPT ![r] = "waiting"] /\ at' = [at EXCEPT ![r] = "mark"]
        /\ UNCHANGED <<ending, retries, told, unheard>>
     \/ Fails /\ Goto(r, "release")
  /\ UNCHANGED gate /\ Alive

ReleaseUnsent(r) == GiveBack(r, at[r], "refused", LAMBDA pc : Goto(r, pc))

Mark(r) ==
  /\ at[r] = "mark"
  /\ \/ Works /\ queue' = queue + 1
     \/ Fails /\ UNCHANGED queue
  /\ Goto(r, "sent")
  /\ UNCHANGED <<slot, fading, script>> /\ Alive

Dispatching(r) ==
  \/ ReadQueue(r) \/ IncrSlot(r) \/ ExpireSlot(r) \/ LockScript(r) \/ Undo(r)
  \/ Send(r) \/ ReleaseUnsent(r) \/ Mark(r)

-----------------------------------------------------------------------------
(* The task                                                                  *)

Active == {"dequeue", "rendering", "release", "delete", "unlock", "after"}
Rendering(r) == render[r] \in Active
Ended == {"done", "failed"}

Turn(r, pc) == render' = [render EXCEPT ![r] = pc] /\ UNCHANGED <<at, ending, retries, told, unheard>>

\* Mutant of Start: nothing is taken while nothing is counted as waiting.
StartCounted(r) ==
  /\ render[r] = "waiting" /\ Cardinality({q \in Requests : Rendering(q)}) < Capacity
  /\ \/ Works /\ queue > 0 /\ queue' = queue - 1
        /\ Turn(r, Following(queue - 1, "dequeue", "rendering"))
     \/ Fails /\ UNCHANGED queue /\ Turn(r, "rendering")
  /\ UNCHANGED <<slot, fading, script>> /\ Alive

\* The worker takes the message and counts it as no longer waiting, in every attempt.
Start(r) ==
  /\ render[r] = "waiting" /\ Cardinality({q \in Requests : Rendering(q)}) < Capacity
  /\ \/ Works /\ queue' = queue - 1
        /\ Turn(r, Following(queue - 1, "dequeue", "rendering"))
     \/ Fails /\ UNCHANGED queue /\ Turn(r, "rendering")
  /\ UNCHANGED <<slot, fading, script>> /\ Alive

\* The DELETE of mark_dequeued.
Dequeue(r) ==
  /\ render[r] = "dequeue"
  /\ \/ Works /\ queue' = 0
     \/ Fails /\ UNCHANGED queue
  /\ Turn(r, "rendering")
  /\ UNCHANGED <<slot, fading, script>> /\ Alive

\* _notify_render_finished: one that fails is logged, and the task goes on.
Notify(r) ==
  \/ told' = [told EXCEPT ![r] = told[r] + 1] /\ UNCHANGED unheard
  \/ Another /\ unheard' = unheard \cup {r} /\ UNCHANGED told
Silent == UNCHANGED <<told, unheard>>

\* Mutant of Finish: the failure is told one attempt too early.
FinishEarly(r) ==
  /\ render[r] = "rendering"
  /\ \E e \in {"ok", "again", "over", "other"} :
       /\ e = "again" => retries[r] < MaxRetries
       /\ ending' = [ending EXCEPT ![r] = e]
       /\ IF e = "over" \/ (e = "again" /\ retries[r] + 1 = MaxRetries) THEN Notify(r) ELSE Silent
  /\ render' = [render EXCEPT ![r] = "release"]
  /\ UNCHANGED <<gate, at, retries>> /\ Works /\ Alive

\* A failed attempt is repeated while retries are left.  The last failure is told at
\* once, and so is one of the environment, whatever is left; any other error is neither
\* repeated nor told.
Finish(r) ==
  /\ render[r] = "rendering"
  /\ \E e \in {"ok", "again", "over", "other"} :
       /\ e = "again" => retries[r] < MaxRetries
       /\ ending' = [ending EXCEPT ![r] = e]
       /\ IF e = "over" THEN Notify(r) ELSE Silent
  /\ render' = [render EXCEPT ![r] = "release"]
  /\ UNCHANGED <<gate, at, retries>> /\ Works /\ Alive

\* Mutant of Release: the lock of the script is left.
ReleaseSlotOnly(r) ==
  /\ \/ render[r] = "release" /\ Works
        /\ DecrSlot(OwnerOf(r)) /\ Turn(r, Following(slot[OwnerOf(r)] - 1, "delete", "after"))
     \/ render[r] = "delete" /\ Works /\ DeleteSlot(OwnerOf(r)) /\ Turn(r, "after")
     \/ render[r] \in {"release", "delete"} /\ Fails /\ UNCHANGED gate /\ Turn(r, "after")
  /\ Alive

\* release, in the finally of every attempt.
Release(r) == GiveBack(r, render[r], "after", LAMBDA pc : Turn(r, pc))

\* A success is told; a failed attempt that is repeated is queued again.
After(r) ==
  /\ render[r] = "after"
  /\ IF ending[r] = "ok" THEN Notify(r) ELSE Silent
  /\ IF ending[r] = "again"
     THEN /\ retries' = [retries EXCEPT ![r] = retries[r] + 1]
          /\ render' = [render EXCEPT ![r] = "waiting"]
          /\ ending' = [ending EXCEPT ![r] = "none"]
     ELSE /\ render' = [render EXCEPT ![r] = IF ending[r] = "ok" THEN "done" ELSE "failed"]
          /\ UNCHANGED <<retries, ending>>
  /\ UNCHANGED <<gate, at>> /\ Works /\ Alive

\* A killed worker runs no finally; its message is delivered again.
Lose(r) ==
  /\ Rendering(r) /\ Another /\ losses' = losses + 1
  /\ render' = [render EXCEPT ![r] = "waiting"] /\ ending' = [ending EXCEPT ![r] = "none"]
  /\ UNCHANGED <<gate, at, retries, told, unheard, failures, deaths, expiries>>

Render(r) == Start(r) \/ Dequeue(r) \/ Finish(r) \/ Release(r) \/ After(r)

-----------------------------------------------------------------------------
(* Time and crashes                                                          *)

SlotExpires(a) ==
  /\ a \in fading /\ Another /\ expiries' = expiries + 1
  /\ slot' = [slot EXCEPT ![a] = 0] /\ fading' = fading \ {a}
  /\ UNCHANGED <<script, queue, at, work, failures, losses, deaths>>

LockExpires(k) ==
  /\ k \in script /\ Another /\ expiries' = expiries + 1
  /\ script' = script \ {k}
  /\ UNCHANGED <<slot, fading, queue, at, work, failures, losses, deaths>>

Answered == {"refused", "sent", "died"}

DispatchDies(r) ==
  /\ at[r] \notin {"new"} \cup Answered /\ Another /\ deaths' = deaths + 1
  /\ at' = [at EXCEPT ![r] = "died"]
  /\ UNCHANGED <<gate, work, failures, losses, expiries>>

GateNext ==
  \/ \E r \in Requests : Dispatching(r) \/ Render(r) \/ Lose(r) \/ DispatchDies(r)
  \/ \E a \in Users : SlotExpires(a)
  \/ \E k \in Keys : LockExpires(k)

GateSpec == GateInit /\ [][GateNext]_gateVars

\* A dispatch goes on until it is answered or dies, and the render worker works.
GateFairness ==
  \A r \in Requests : WF_gateVars(Dispatching(r)) /\ WF_gateVars(Render(r))

FairGateSpec == GateSpec /\ GateFairness

-----------------------------------------------------------------------------
GateTypeOK ==
  /\ slot \in [Users -> Int] /\ fading \subseteq Users /\ script \subseteq Keys /\ queue \in Int
  /\ at \in [Requests -> Answered \cup {"new", "slot", "expire", "expireOver", "lock", "undo", "undoDelete",
                                        "send", "release", "delete", "unlock", "mark"}]
  /\ render \in [Requests -> Ended \cup Active \cup {"none", "waiting"}]
  /\ ending \in [Requests -> {"none", "ok", "again", "over", "other"}]
  /\ retries \in [Requests -> 0 .. MaxRetries] /\ told \in [Requests -> Nat] /\ unheard \subseteq Requests
  /\ failures \in Nat /\ losses \in Nat /\ deaths \in Nat /\ expiries \in Nat
  /\ failures + losses + deaths + expiries <= MaxFaults
  /\ Cardinality({r \in Requests : Rendering(r)}) <= Capacity

\* Those who have still to give the slot of an account back.
Owing(a) ==
  {r \in Requests : OwnerOf(r) = a /\
     \/ at[r] \in {"expire", "expireOver", "lock", "undo", "send", "release"}
     \/ render[r] \in {"waiting", "dequeue", "rendering", "release"}}

\* An account is never counted for more renders than will give their slot back, so
\* that no slot leaks: whoever is refused was refused for a render that will end.
SlotBacked ==
  failures = 0 /\ deaths = 0 => \A a \in Users : slot[a] <= Cardinality(Owing(a))

\* The lock of a script is there only as long as someone who will remove it.
LockBacked ==
  failures = 0 /\ deaths = 0 =>
    \A k \in script : \E r \in Requests : Key(r) = k /\
      \/ at[r] \in {"send", "release", "delete", "unlock"}
      \/ render[r] \in {"waiting"} \cup (Active \ {"after"})

\* Whatever the gate counts or locks, someone will give back.
Backed == SlotBacked /\ LockBacked

\* As long as no call fails, no worker is lost, nothing expires and no attempt is repeated, a script is
\* not rendered while it is rendered, although slots are counted wrongly.
Unfinished(r) == render[r] \in {"waiting", "dequeue", "rendering"}
SameScriptOnce ==
  failures = 0 /\ losses = 0 /\ expiries = 0 /\ (\A r \in Requests : retries[r] = 0) =>
    \A r, q \in Requests : Unfinished(r) /\ Unfinished(q) /\ Key(r) = Key(q) => r = q

\* As long as no worker is lost, the end of a render is told at most once and only
\* after its last attempt, never when an attempt fails that is repeated; and a render
\* that is done, or has failed in a way the task tells, has been told, unless the
\* notification itself failed.
ToldOnce ==
  losses = 0 => \A r \in Requests :
    /\ told[r] <= 1
    /\ render[r] \in {"waiting", "dequeue", "rendering"} => told[r] = 0
    /\ render[r] \in Ended /\ ending[r] # "other" => told[r] = 1 \/ r \in unheard

\* Every call is answered and everything sent is rendered or given up in the end,
\* although attempts fail and workers are killed.
Settled == \A r \in Requests : at[r] \in Answered /\ render[r] \in Ended \cup {"none"}
Settles == <>[]Settled

\* Waiting renders are counted while they wait: what is counted is there.
QueueBacked ==
  failures = 0 /\ losses = 0 =>
    queue <= Cardinality({r \in Requests : at[r] = "mark" \/ render[r] = "waiting"})

\* An account has one render at a time.
OneAtATime == \A r, q \in Requests : Rendering(r) /\ Rendering(q) /\ OwnerOf(r) = OwnerOf(q) => r = q

\* An account is admitted for one render at a time.
OneAdmitted ==
  \A r, q \in Requests : Unfinished(r) /\ Unfinished(q) /\ OwnerOf(r) = OwnerOf(q) => r = q

\* The end of a render is told, however it ended.
EndTold == \A r \in Requests : render[r] \in Ended => told[r] >= 1

\* A slot that nobody will give back has an expiry.
LeaksFade == \A a \in Users : slot[a] > Cardinality(Owing(a)) => a \in fading
=============================================================================
