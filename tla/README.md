# Verification of the yuxin-ai backend

This directory models the core of the backend in `src/api` (Quart for HTTP,
Celery for background work, SQLAlchemy over PostgreSQL, Redis) in TLA+. The
modules are checked with TLC on small instances, and the results that matter
most are proved with TLAPS for all values of the constants.

## The system

The program is a multi-tenant platform for AI agents. The browser, desktop and
mobile front ends (`src/ui`, `src/desktop`, `src/mobile`) hold no authoritative
state. What must be right lives in `src/api/internal/service`:

| component | state it keeps | operations | why it is hard |
|---|---|---|---|
| Balance wallet (`balance_service.py`) | `balance_account`, `balance_transaction` | `credit`, `debit`, `find_transaction` | shared by withdrawals, orders, commissions, refunds; idempotent by a unique key, locked by row |
| Withdrawals (`withdrawal_service.py`) | `withdrawal_request` | create, cancel, approve, reject | a status read without a lock; row and wallet locked in opposite orders |
| Orders (`order_service.py`, `admin_order_service.py`) | `purchase_order`, `auto_renewal` | create, pay, gateway callback, cancel, close | repeated callbacks, payment racing cancellation, several wallets in one transaction |
| Refunds (`refund_service.py`) | `return_request` | create, approve, reject | money, rights and commission taken back together or held |
| Memberships (`membership_resolver.py`) | `membership` | activate or extend, find by source, resolve, expire | several rows per account; unlocked read, computed write |
| Credits (`credit_service.py`) | `credit_account`, `credit_transaction` | consume, grant, adjust | quota and permanent credits, billed from concurrent chats |
| Distribution (`distribution_service.py`) | `distribution_relation`, `referral_code` | bind, unbind, settle commission | commission inside the buyer's transaction |
| Auto renewal (`auto_renewal_service.py`) | `auto_renewal` | hourly scan, threshold check, pause, resume | a purchase inside another transaction, which it may roll back; a cooldown read without a lock |
| Redeem codes (`redeem_code_service.py`) | `redeem_code`, batches | generate, redeem, disable | redeemed once, grants like an order |
| Scheduled tasks (`schedule_task_service.py`, `schedule_execution_service.py`, `task/schedule_tasks.py`) | `schedule_task`, `schedule_task_run`, Redis locks | beat scan, worker execution, renewal of the lock, stale-run cleanup | redelivery after a crash, lock expiry, lost dispatch |
| Agent event queue (`core/agent/agents/agent_queue_manager.py`, `base_agent.py`) | in-process queues, event log and stop flags in Redis | publish, listen, stop | two threads publish into one channel; terminal events, heartbeats, timeout |
| Execution coordinator (`execution_coordinator_service.py`, `subtask_registry_service.py`) | waves of subtasks, results, rows of the registry in Redis or in memory | run, retry, time out, cancel, repair, resume | dependencies, soft timeouts with a thread left behind, a resume from rows that several threads write |
| Render gate (`render_guard_service.py`, `render_tasks.py`) | slot, lock and queue counters in Redis | admit, dispatch, start, release | counters of several commands each; attempts that are repeated; keys that expire |
| Tool confirmation (`tool_confirmation_service.py`) | Redis records | request, confirm, cancel, expire | answer racing expiry |
| Chunked upload and storage quota (`chunked_upload_service.py`, `storage_quota_service.py`) | Redis sessions and claims, chunk files, `account_storage_usage`, `upload_file` | init, save chunk, complete, abort, hourly cleaning | four stores and no transaction over them; claims that expire, chunks that arrive late |
| Recycle bin (`recycle_bin_service.py`, `recycle_bin_handlers.py`) | `recycle_bin`, files, used bytes | delete, restore, destroy when due, delete rows | files outside the transaction; a helper that commits in the middle; status and deadline read without a lock |
| Knowledge indexing, device gateway | rows, vectors, sessions | index; call a device | partial failure, late answers |
| Workflow engine (`core/workflow`) | variable pool, node states | run of a graph | fan-out, retries |
| Billing metering and reconciliation (`billing_metering_service.py`, `billing_reconciliation_service.py`) | usage events, `credit_account`, `billing_reconciliation` | charge and settle a message at its end | several models in one message, a renewal in the middle, a settlement that falls short |
| Accounts, permissions, audit, notification, admin screens | rows | CRUD | little of their own |

A request runs in a worker thread with its own database session
(`lib/runtime_context.py`, `run_in_app_context`); whatever is not committed
when it returns is rolled back. PostgreSQL runs at READ COMMITTED: a plain
SELECT sees what is committed at that moment, `FOR UPDATE` and UPDATE lock the
row to the end of the transaction, and the session flushes pending changes
before the next query. These four facts decide every interleaving below.

What makes each of them correct: money and credits are neither created nor lost
and nobody gets rights without paying (wallet, withdrawals, orders, refunds);
a status that says something is matched by what it claims (paid carries its
rights, refunded gave everything back, closed was pending); a scheduled task is
executed in time, by one worker, and once if it is to run once; the response to
a user gets every event in order and ends with a reason; the storage quota is
never exceeded and equals what the files take; each message, order and code
is in the credit ledger once; a plan of subtasks ends with a result for each, or one
fallback result when all failed, none run on a failed one or again after it succeeded;
what the render gate counts, someone will give back; what was deleted can be restored until its
deadline and is destroyed after it.

## The modules

| module | models | state | checked by |
|---|---|---|---|
| `Wallet` | `BalanceService` as operators on a wallet value | none | the modules that use it |
| `Ledger` | what the wallet promises: an append-only ledger with unique keys, balances that follow it and are never negative | `balance`, `entries` | refined by `Withdrawals` and `Orders` |
| `Withdrawals` | `withdrawal_service.py`, one action per statement that blocks or reads what others write | wallet, request statuses, row locks, wallet locks, jobs | `MCWithdrawals`, `WithdrawalsProofs` |
| `Rights` | memberships and credits of an account as operators on a value | none | `Orders` |
| `Orders` | `order_service.py`, `refund_service.py`, `admin_order_service.py`, the commission of `distribution_service.py`, `consume_for_message` | wallet, rights, orders, refund requests, locks, jobs | `MCOrders`, `MCOrdersScenes`, `OrdersProofs` |
| `Schedules` | beat scan, broker queue, workers, execution lock and watchdog, cleanup of stale runs, the user's and the recycle bin's operations | task rows, queued messages, lock lifetimes, runs, scans, jobs | `MCSchedules`, `TasksProofs` |
| `AgentQueue` | publish, listen, alisten and the threads of one agent run | queue objects, Redis log, terminal marks, program counters, what was delivered | `MCAgentQueue`, `ExecutionProofs` |
| `Uploads` | chunked uploads of one account and its storage quota | sessions, chunk files, claims, used bytes, files, jobs | `MCUploads`, `UploadsProofs` |
| `Credits` | the credit account and its ledger: the charge and settlement of messages, the renewal they or the scan set off, redeem codes, one database session per worker | account, ledger, settlements, codes, renewal, balance, row lock, jobs | `MCCredits`, `CreditsProofs` |
| `Coordinator` | the execution of a plan and its registry: waves, retries, soft timeouts and the threads they leave, cancellation, repair, death and resume | plan, results, wave, threads, registry rows | `MCCoordinator`, `ExecutionProofs` |
| `RenderGate` | admission, dispatch and task of a cloud render, one step for each Redis command | slot counters and their expiry, locks, queue count, dispatches, tasks | `MCRenderGate`, `TasksProofs` |
| `RecycleBin` | deletion, restoring, destruction at the deadline, the quota | resources, files, used bytes, rows of the bin, jobs, runs of the task | `MCRecycleBin`, `RecycleBinProofs` |
| `Lemmas` | what each operator of `Wallet` and `Rights` preserves, and sums over finite sets | | TLAPS |
| `WithdrawalsProofs`, `OrdersProofs`, `UploadsProofs`, `RecycleBinProofs`, `CreditsProofs` | inductive invariants and theorems of one module each | | TLAPS |
| `TasksProofs` | the same for the tasks of the Celery workers: `Schedules` and `RenderGate` | | TLAPS |
| `ExecutionProofs` | the same for a run of agents: `Coordinator` and `AgentQueue` | | TLAPS |

`Withdrawals` and `Orders` both extend `Wallet` and both instantiate `Ledger`
with the balances and the ledger of their wallet. They run as two
specifications: the source column of the unique key keeps their entries apart,
and the row lock of an account serialises what either books.

`TasksProofs` and `ExecutionProofs` extend two modules each, which share no
state; hence the names of `RenderGate` and `AgentQueue` that begin with `Gate`
and `Queue` (`GateNext`, `QueueSpec`).

### How actions correspond to the code

**Withdrawals and Orders.** `job[w]` is what the request thread `w` is
executing and at which statement. A handler is cut where it may wait for a lock
or reads what another transaction may write, nowhere else: what it does under
locks up to its commit is one step. So the unlocked read of a status
(`Check` and `Arrival`, the pc `checked`) is apart from the write that relies on
it. A confirmation takes the order row, the credit account and the wallets in turn
(`ConfirmFlush`, `ConfirmGrant`, `ConfirmCommit`); an approval takes them the other way
round: `ApproveLook` the lookup of the refund in the ledger, `ApproveFunds` the buyer's
wallet and the membership row, `ApproveReclaim` the credit account, `ApproveClawback`
the inviter's wallet and `ApproveCommit` the order row and the commit. `rowLock`,
`walletLock` and `creditLock` hold the locks that are kept from one step to the
next, `WaitsFor` says who waits for whom, `Lock` takes what is free. `DeadlockVictim` is
PostgreSQL's deadlock detector: a handler in a circle of waits is rolled back.
A handler that raises leaves its database as it was, and is a step to `Idle`.

**Schedules.** `ScanRead`, `Advance` and `Dispatch` are the scan: the read of the due
rows, then one advance and one dispatch per row. The worker actions follow
`schedule_task_execute` and `execute_task`: the quota, the lock, the run, the agent, the
record, the judgement of failures, the archiving. `Tick` ages the lock, the runs and the
unacknowledged messages; `Redeliver` is the broker's visibility timeout, `ProcessLost` and
`HostLost` are the two ways to lose a worker. A worker that lives keeps its lock: the
watchdog renews it every two hours (`Tick` leaves the lock of a live holder alone).

**AgentQueue.** `pub[t]` is where thread `t` is inside `publish`, `listen` is
where the listener is. Both interleave at each access to the queues, the terminal
marks and Redis. Under stream either may make the queue of the run; when the second one
takes the place of the first with events in it, `replaced` is set. It is a history
variable that the properties read.

**Uploads.** A worker gives way at each access to Redis, the disk or the database.
`ReserveQuota` and `Refund` are one step each, because the service checks and writes under
the row lock. Both take `Size`, what the client declared of the upload; `Merge` makes a
file of `Content`, the bytes that were sent, and `Record` records those (`bytes`), as the
code does, which compares the two nowhere. `torn`, `resent` and `vanished` are history
variables that the properties read and no guard but a bound does.

**Credits.** A worker has a session. `seen` is what it has read of the credit account,
`mine` what it has made of it, `rows` what it has added: an object once read stays as it
was (sessions do not expire on commit, and `SELECT ... FOR UPDATE` does not refresh an
object the session holds), and a commit writes the columns that changed (`Written`).
`ChargeTake` is one model of a message, `Look` the threshold check after it, `RenewOrder`,
`RenewPay`, `RenewRecord` and `RenewFail` the purchase in the same session, `Settle` and
`SettleShort` the settlement and the commit or rollback of `final`.

**Coordinator.** `pc` is where `execute` is; `Attempt`, `Complete`, `Timeout` and
`ThreadEnds` are the worker threads, those abandoned by a timeout included, which still
write their row. `Mark` and `ActivityWrite` are the writes to the registry; a refused
Redis write leaves the row as it was. `Crash` loses everything but the rows in Redis,
`Resumed` is what a new execution takes from them: a subtask that ended blocked is
recorded as completed, because it has no errors, and a resumed execution takes it for a
success (`taken`, a result of its own in the model to tell the two apart).
`GlobalFallback` is what `_apply_global_fallback` does at the end of a run: one result in
place of all, if all failed. `Place` is the order in which a subtask lists its
dependencies.

**RenderGate.** `at[r]` is the dispatch of a request, `render[r]` its Celery
task. A `DECR` and the `DELETE` that follows it are two steps, and so are an
`INCR` and its `EXPIRE`. `Notify` is `_notify_render_finished`, which swallows every failure:
the end of the render is then in `unheard`. An attempt that ends in an error the task
does not handle (`other`) tells nobody. A call of Redis that fails is taken to have had no effect;
production runs one render process (`docs/deployment-single-node.md`, 3.1.1).

**RecycleBin.** A request is cut between what it reads and its commit.
`PurgeObject` and `PurgeRelease` are the two effects of the task outside its
transaction. The fields `session` and `marked` of `scan[s]` are its database session: `release_usage` commits
and removes it, so that rows read before are written no more. `ReleaseMissed` is a release
that fails and is only logged, or finds no usage row: the row is marked and its bytes
stay counted; `ReleaseAborted` is one whose failure leaves the session unusable.
`doubled`, `straddled` and `unreleased` are history variables.

## The runs

| run | question | result |
|---|---|---|
| `withdrawals` | Do wallet and requests stay consistent when create, cancel, approve and reject of two requests race on three threads, and does every handler end? | holds |
| `orders` | Are charging, granting, refunding and the ledger consistent when payments, callbacks, cancellations, refunds and consumption race, also when the inviter has spent the commission, and does every handler end, also when three buyers who invited one another in a circle pay at once, or an approval meets a confirmation? | holds |
| `schedules` | Does the mutual exclusion of executions survive crashes, redelivery, recycling and restoring? | holds |
| `schedules_once` | Is a task that runs once executed, only once while nothing fails, and are abandoned runs closed? | holds |
| `agent_queue` | Does the response get the events in order, learn why the run ended, and end? | holds |
| `uploads` | Do quota, files and chunks stay consistent when requests, expiry, cleaning, failures and crashes interleave? | holds |
| `coordinator` | Does every execution end with a result for every subtask, or the fallback when all failed, none started on one recorded failed and none repeated after a resume? | holds |
| `credits` | Is everything that happens to an account in its ledger once, when charges, settlements, renewals, codes, failures and crashes meet, and is a renewal served or given up? | holds |
| `credits_cost` | Does a settled message cost what its use costs? | violated: finding 1 |
| `render` | Has every slot and lock someone who gives it back, is a script rendered once, its end told at most once and after the last attempt, does all end? | holds |
| `recycle` | Is nothing lost before its deadline, nobody charged for what is gone unless its release was missed, and all that is due destroyed? | holds |
| `recycle_counted` | Are the bytes of what is stored counted? | violated: finding 2 |

The type invariants and every safety property of these runs are also proved
for all values of the constants (next but one section). What the proofs leave to
the runs is liveness.

A property that holds under a condition says so in its comment, and where the code
promises more, the unconditional property is among the claims below: it is the one that
covers the excluded case. So `Backed` bounds the counters of the gate from above only (a
slot that is lost is `OneAdmitted`), `Kept` leaves out what was deleted or restored twice
at once or across its deadline (`WholeOnce`, `WholeInTime`), `Charged` leaves out a
release that was missed (`GivenBack`), `WholeFile` a session that ended between two reads
of one completion (`Whole`), `CreditsExplained` bounds what refunds take back
(`CreditsKept`), `LedgerExplained` leaves out redemption and purchase (`LedgerAlways`),
`OnceDelivered` a scan that dies or a broker that refuses.

### Bounds, and why they are enough

* `withdrawals`: one account, opening balance 2, requests of 2 and 1, so that
  the second creation may or may not be covered; three threads, which allows a
  cancel, a reject and an approval of one request at once.
* `orders`: five scenes (`MCOrdersScenes`), one of which the initial state chooses. In
  three shops ann has two orders, since every property is about a pair of handlers, and
  two threads and one billed message: a card (membership, from the balance) and the
  top-up that makes it affordable; a pack (credits, online) with the top-up; a
  pack from the balance with a card online, each with a commission for her inviter. In
  the fourth dan spends the commission he earned on eve's pack, whose refund is then put on
  hold. In the circle three buyers have one order each and three threads, the smallest
  circle that exceeds two, and the first order may be cancelled or refunded while they
  wait. 62 535 states in 100 seconds, most of them spent on liveness.
* `schedules*`: a time unit stands for the lifetimes of the code in their order,
  `Window` (6 h) < `LockTTL` = `StaleAfter` (8 h) < `Visibility` (24 h). Two
  workers, one or two scans, two runs, at most two copies of a message, one
  crash: a third worker or run repeats a conflict of two.
* `agent_queue`: two ordinary events (order), one ending of the agent, one
  heartbeat, one failed Redis command; timeout and stop may come at any time.
  The setups are astream with the memory queue, stream with the memory queue, which is
  the default, and stream with the Redis log. 4 million states. `AgentQueueFirst.cfg` is
  the default alone, and asks what the properties excuse (finding 7).
* `uploads`: two uploads of 1 and 2 bytes under a quota of 3 with a reserve of
  1, so that either fits and both do not; two threads; `MaxTroubles` = 1 chunk sent again, failed
  call, lost process or expired claim. The larger upload is declared as two bytes and
  has one.
* `coordinator`: three subtasks, a chain against the execution order and a plan with a
  cycle and a dependency that is not in it, the dependencies listed against their order;
  one retry, one timed subtask, one
  refused Redis write and one death. Every path of the split (ready,
  skipped, fallback) occurs. 2.2 million states.
* `credits`: two messages, one with two models and an estimate too high, one
  estimated too low; one code, two workers, a package that the balance pays once and
  that may be closed; one click on the switch, one crash. The account opens so that
  it can run short in either message.
* `render`: three requests of one account, two of them the same script, the first already
  in the queue; one repeated attempt, one render process, one fault of any kind (a call, a
  notification, a lost worker or dispatch, an expired key). 1.8 million states.
* `recycle`: two resources with a file that fill the quota and one without,
  two rows, two request threads, one run of the task at a time, one fault. 0.7 million states.

### Fairness

* A request thread goes on, and PostgreSQL grants a row lock to those who wait
  in turn: strong fairness of a handler's step, weak fairness of the deadlock
  detector. Nothing obliges a request to arrive.
* `schedules_once`: time passes, beat starts the scan and the cleanup again and
  again, a worker that was not lost takes its next step, the broker redelivers.
  Whether the agent succeeds or fails is open.
* `agent_queue`: the threads finish a publish they have begun, the listener
  loops, the listening's timeout comes. The agent may hang for ever.
* `uploads`: a worker takes its next step, the cleaning comes round every hour.
* `coordinator`: the coordinator and the attempts go on; an agent may hang only in a
  subtask that has a timeout.
* `credits`: a worker goes on with what it has begun, the cooldown ends, and the scan comes
  round every hour. No message need arrive.
* `render`: a dispatch and a task go on; Celery takes up the task of a killed worker again.
* `recycle`: the task comes round every hour and goes on as long as its process lives.

### Findings

1. A message is charged at what its use costs and then settled against an estimate
   that was never charged: it pays its difference twice, or is given back what it never
   paid (`credits_cost`; `billing_reconciliation_service.py:148` against lines 92, 113 and
   `billing_metering_service.py:271`).
2. `release_usage` commits and removes the session in the middle of the purge: the
   row of a destroyed file stays pending, and every hour its bytes are given back once more
   (`recycle_counted`; `recycle_bin_service.py:734` against line 718 and
   `recycle_bin_handlers.py:603`).

The configurations `WithdrawalsRace`, `AgentQueueFirst` and `<module>Claims` reproduce
further disagreements between the code and what it or its documents say. Each
`Claims` configuration names the properties that TLC finds violated, and the
constants to change for each. Findings 3 to 8 are of the weight of the two above.

| | configuration | property | what happens |
|---|---|---|---|
| 3 | `WithdrawalsRace` | `PaidOutOrRefunded` | `cancel` and `approve` read the status without `FOR UPDATE` (`withdrawal_service.py:60`, against line 13): a withdrawal is approved for payout and given back |
| 4 | `OrdersClaims` | `OnlyPendingCloses` | a payment that commits while a cancellation waits is overwritten: a paid and granted order becomes closed and cannot be refunded (`order_service.py:183` against `docs/api/commerce-distribution-api.md:82`) |
| 5 | `SchedulesClaims` | `LockReleased` | `_release_lock` is called with two of its three arguments (`schedule_execution_service.py:178` against line 124): the lock stays for eight hours after the execution |
| 6 | `SchedulesClaims` | `AdvanceMoves` | `advance_next_run` computes the next slot from `last_run_at`, which only the end of an execution sets: from the second slot on the task stays due (`schedule_task_service.py:643` against `schedule_tasks.py:53`) |
| 7 | `AgentQueueFirst` | `ListenAlwaysEnds` | listener and agent both create the queue of a run; what one has put is lost with its queue, and when it was the end the listening never ends (`agent_queue_manager.py:333` against line 131) |
| 8 | `CoordinatorClaims` | `ParallelInputs` | skipped subtasks enter `failed_ids` a round late, and the fallback for cycles runs what depends on them (`execution_coordinator_service.py:197` against `docs/prd/architecture-design.md:957` and `test_execution_coordinator_service.py:284`) |
| 9 | `RenderGateClaims` | `QueueBacked` | a free worker takes a render before the dispatch has counted it, and the count stays for ever; after five of them all is refused (`render_video.py:143` against `render_guard_service.py:14`) |
| | `CoordinatorClaims` | `RegistryTells` | an abandoned thread writes back the row it had read and makes a finished subtask a running one (`subtask_registry_service.py:252`) |
| | `CoordinatorClaims` | `BlockedInputsNeverUsed` | a subtask that ended blocked, a failure to `execution_orchestration_entity.py:97-100` and `test_execution_coordinator_service.py:580-581`, is recorded completed (`subtask_registry_service.py:215`); a resumed execution takes it for a success and starts what depends on it |
| | `CoordinatorClaims` | `CancelKeepsResults` | a cancelled execution with a failed subtask is repaired, and what was completed is not returned |
| | `CreditsClaims` | `ToldIsBooked` | a renewal of a closed package rolls back the charge that set it off; the user is told it was charged |
| | `CreditsClaims` | `LedgerAlways` | a redemption writes back an account it read before a charge or a purchase (`redeem_code_service.py:280`) |
| | `CreditsClaims` | `CostIsActual` | of a message of two models only the first is booked |
| | `CreditsClaims` | `OncePerCooldown` | the scan and a charge both find the cooldown over and both buy |
| | `CreditsClaims` | `CancelFinal` | a renewal that fails for the third time writes failed over what the user has cancelled meanwhile |
| | `RenderGateClaims` | `OneAdmitted` | a render admitted between `DECR` and `DELETE` loses its slot |
| | `RenderGateClaims` | `OneAtATime` | a repeated attempt runs beside a newly admitted render |
| | `RenderGateClaims` | `LeaksFade` | a dispatch dies between `INCR` and `EXPIRE`: the slot never expires |
| | `RenderGateClaims` | `EndTold` | an attempt ends in an error the task does not handle, or the notification fails and is only logged (`render_tasks.py:154`): nobody is told that the render is over |
| | `RecycleBinClaims` | `WholeOnce` | two deletions make two rows, and the second destroys the file of what was restored |
| | `RecycleBinClaims` | `WholeInTime` | the deadline passes between the check of a restore and its commit |
| | `RecycleBinClaims` | `GivenBack` | a release that fails is only logged and the row is marked as destroyed: its bytes are charged for ever (`recycle_bin_handlers.py:592`, against `storage_quota_service.py:269`) |
| | `RecycleBinClaims` | `WithinQuota` | what is given back every hour is filled again: more is stored than the quota allows |
| | `SchedulesClaims` | `MessageServed` | a message redelivered after a lost worker meets the lock that worker left and is dropped |
| | `SchedulesClaims` | `OnceDelivered` | with the quota of the account used up, a task that runs once is disabled by the scan and refused by the worker |
| | `SchedulesClaims` | `ZombiesOnly` | the cleanup marks the run of a worker that has been at work for more than eight hours |
| | `SchedulesClaims` | `SuccessKept` | the cleanup read a run as stale, the worker finishes it, the cleanup marks it failed |
| | `SchedulesClaims` | `WithinLimit` | two workers count the runs of an account before either adds its own |
| | `SchedulesClaims` | `NoRunWhileRecycled` | an account is recycled between the check of the worker and the run |
| | `OrdersClaims` | `LimitHolds` | two orders of a plan with a purchase limit are both paid |
| | `OrdersClaims` | `MembershipStacks` | two payments extend the same membership row from the same end |
| | `OrdersClaims` | `PaidMembershipInForce` | a refund ends the row its order opened, with the days another order added |
| | `OrdersClaims` | `RefundedUnused` | credits are consumed between the request of a refund and its approval |
| | `OrdersClaims` | `CreditsKept` | two approvals of one request each take the credits back (`refund_service.py:87`) |
| | `UploadsClaims` | `FilesPaid` | Redis fails after the file is recorded, and the handler gives its quota back (`chunked_upload_service.py:280` and 191) |
| | `UploadsClaims` | `UsedIsStored` | the quota is taken at the size declared, the file recorded at the size merged (`chunked_upload_service.py:191` and 238): what is counted is not what is stored |
| | `UploadsClaims` | `Whole` | a session ends between the two reads of a completion: nothing is missing, and a chunk still being written is merged as it is (line 156) |

## The proofs

All theorems hold for every value of the constants under the assumption each
module names (`ConstantsAssumption`, `SchedulesAssumption`, `UploadsAssumption` ...),
which TLC evaluates in the runs. They speak of any number of accounts, workers
and requests; what the assumptions ask for beyond types is that the sets over
which something is counted or summed are finite. The bounds on faults and repetitions are
constants too: a theorem holds for any of them.

Every safety invariant and every action property that a passing run checks is a theorem
(`PROJECT.json` pairs them). Each rests on an inductive
invariant; this is what it adds to the property, and why.

* `WithdrawalsProofs`: `TypeCorrect`, `WalletNeverOverdrawn`,
  `ClosedRequestRefunded`, `LedgerImplemented`, `MoneyConserved`.
  `ClosedIsRefunded` is not inductive: a handler that found the refund booked closes the
  request without booking one, so `IInv` adds that what a lookup found is still
  there (`FoundStays`), and that a request that does not exist yet has taken no
  money (`UnbornUnbooked`). The argument rests on the ledger, which only grows, never on
  the status, which a race may overwrite. `Conservation` (`MInv`) is a sum over requests: a
  step moves one amount between the wallet and what is held, and a
  request that is not there yet has nothing to give back (`UnbornUnrefunded`).
* `OrdersProofs`: `TypeCorrect`, `LedgerImplemented`, `PurchaseCharged`,
  `PaidOrderGranted`, `RefundSettled`, `CreditsAccounted`. `IInv` adds that one worker
  pays an order, holds the wallet once it has checked the balance and has booked nothing
  yet (`PayJobs`), that a confirmation keeps the order row and grants what nobody has
  granted (`ConfirmJobs`), that callbacks concern online orders (`NotifyJobs`), that what
  is being refunded was granted, with the wallet locked and covered that pays it back
  (`ApproveJobs`), that refunded orders were granted (`RefundedGranted`) and that an order
  not yet created has no entry (`UnbornUnbooked`). `CInv` is the sum of what was granted,
  and that no account holds and has consumed more than that. It is an upper bound: a
  refund takes back what it finds, and two approvals of one request take it twice
  (`CreditsKept` in `OrdersClaims`).
* `TasksProofs`, `Schedules`: `TypeCorrect`, `NeverTwoWorkers`, `OnceOnly`. Mutual
  exclusion follows from `LockHeld`, that the lock of a task in execution by a live worker
  is there; it rests on the watchdog renewing in time. That a one-time task runs once is
  `OInv` on top of it: while nothing crashes, a task with a run is archived, or its worker
  is still at work and holds the lock; so no second message gets past the check of the
  lock and the status both. A task that the user restores may run again.
* `TasksProofs`, `RenderGate`: `GateTypes`, `NothingLeaks`, `OneRenderEach`,
  `EndToldOnce`. `GateInv` adds that a task exists only once its dispatch has
  sent it and a dispatch gives back only after a call has failed (`Placed`), what
  an attempt has told by the way it ended, where a notification that failed counts as
  `unheard` and not as told (`Telling`), and that whoever holds the lock of a
  script holds it alone (`Alone`). Every step moves a counter and the set of
  those who owe it by at most one (`NextCounts`). The counters may be too low,
  which is the finding `OneAdmitted`; they are never too high.
* `ExecutionProofs`, `Coordinator`: `CoordinatorTypes`, `NoSubtaskLost`,
  `FailedInputs`, `NoRepetition`, `SequentialOrder`. `IInv` adds where the threads of a wave are
  and that it has no results yet (`Waves`), that nothing in a wave depends on
  what failed (`Inputs`), that what was gathered is complete (`Gathered`), that the fallback
  result stands for failures alone (`Fell`), and
  that a success in the registry is among the results or about to be (`Held`). What was blocked
  before a resume is no failure to the code, and the theorems say so.
  Nothing is assumed of the plan: it may be cyclic, or name what is not there.
  `SequentialOrder` needs that `InOrder`, the sort of `_topological_sort`, puts
  every subtask after those it depends on. It is a recursive function of the set of
  subtasks not yet placed, with an order as accumulator: `TailRecursion` unrolls it once and
  `TailInvariant` carries a fact along it by induction on the number of
  subtasks left.
* `ExecutionProofs`, `AgentQueue`: `ChannelTypes`, `AllInOrder`, `EndExplained`,
  `LittleAfter`. The invariant speaks of `Chain`: what was delivered, the item in the
  listener's hand and what is in the channel, as one sequence. What holds of the response
  in the end holds of the chain all along (`Explained`, `Limited`, `Ordered`), and reading
  moves an item along the chain without changing it. `Publishing` says where a thread can
  be in `publish`, `Boxed` which queue object it puts into. The theorems hold in every
  setup, the default included. There a queue may be replaced with events in it; `Unused`,
  that the queue a thread is about to make was never used, is why everything else is in
  order until then, and `LittleAfter` holds even afterwards.
* `UploadsProofs`: `TypeCorrect`, `RoomLeft`, `OneFileEach`, `TornExplained`,
  `QuotaAccounted`. Four invariants: the types; that whoever passed the claim of a session
  is alone in it and has not recorded it twice (`OneInv`); that a chunk which is marked as
  received is whole and nobody writes it, so that a merge which asked what is missing
  finds all (`PartsInv`); that the used bytes are the sum of the sizes declared of the
  files and of those reserved by workers under way (`QuotaInv`); of the sizes the files
  have nothing follows. `RoomLeft` needs only that the check and the write are one step
  under the row lock.
* `RecycleBinProofs`: `TypeCorrect`, `NothingLost`, `InOnePlace`, `ChargedForWhatIsThere`.
  `IInv` adds what a request (`Reading`) and the task (`Scanned`) may rely on of the rows
  they have read, that a resource with a due row is over (`Over`), that a resource has one
  row unless two requests met (`Single`), and that a due row with a file stays pending,
  unless its release was missed (`Waiting`): the commit that would mark it never comes,
  because `release_usage` has removed the session (finding 2).
* `CreditsProofs`: `TypeCorrect`, `LedgerExplains`, `ToldIsCharged`, `CodesSpentOnce`. A
  session writes back an account it read earlier, so `IInv` says of every session what it
  may hold: entries not saved are of its own message and not yet in the ledger
  (`Unsaved`), a charge that is past its first model is booked or among them (`Promised`),
  and until somebody buys or redeems, who charges holds the row and has seen it as it is
  (`Holding`). `Alone` and `Orderly` keep messages, codes and entries unique.
  `ChargeBooked` and the sum of `LedgerExplained` are true under their conditions only
  (the package on sale; nobody has bought, redeemed or been settled short), and the
  counterexamples without them are the findings `ToldIsBooked` and `LedgerAlways`.
* `Lemmas` holds the facts about the operators of `Wallet` and `Rights` and about sums,
  cited by name. The community modules' fold over a set chooses an element at a time;
  `SumOf` with `AddsExists` and `AddsAnyOrder` shows that the order does not matter, hence
  that a sum changes by what is added or removed (`SumAdd`, `SumRemove`, `SumChange`). The
  induction is on the set of cardinalities for which the statement holds (`NatsFrom`),
  since the library's induction theorems take an operator and no prover here can
  instantiate one.

Model-checked only: liveness under fairness (`HandlersEnd`, `OnceDelivered`,
`RunsClosed`, `ListenEnds`, `Swept`, `Ends`, `Served`, `Settles`, `Destroyed`),
which is out of reach of the prover, and the counterexamples.

## What is not modelled

* Within the modules: the test payment `mock_paid`; the passing of days for
  memberships and orders (an active row is in force); the money of the gateway;
  the insertion of the first wallet, credit or usage row of an account; changing
  the trigger of a task and the date arithmetic of triggers; what an agent does;
  alisten with the Redis log (it does not yield to its loop while the log is
  empty); billing events after the end of a run; the instant upload by
  fingerprint and the frames of parsed videos.
* `Credits`: renewals of memberships, the first purchase that opens a
  cancelled renewal again, the refresh of the quota and the lazy expiry, codes of
  memberships and balances, the commission of a redemption, disabling a batch,
  generating and showing codes. Prices are constants.
* `Coordinator`: the events sent to the client, what an agent answers, the activity
  reports of a thread that was not abandoned, a death after a repair. `resume` has no
  caller in production yet; tests call it.
* `RenderGate`: the local renderer tried first, the storing of the film. A repeated attempt is
  published by `retry` before its `finally` has released; the model has it after.
* `RecycleBin`: files of the user's own machine, memories and conversations
  (which are only hidden), and vectors.
* Whole components: see `PROJECT.json`. Model calls, retrieval, media and text
  are not determined by state of the program; the front ends hold none.

## Hazards of the parts that are not modelled yet

Besides those in `PROJECT.json` and in the table of findings: two accounts bind
each other at once (`distribution_service.py:206`); a confirmation answered twice
(`tool_confirmation_service.py:66`); a device that answers after the timeout
(`device_gateway_service.py:141`); the last period of a day is shorter than the
others (`schedule_task_service.py:208`); the key that allows a stop expires
before the run (`agent_queue_manager.py:335`); the first grants of an account race
to insert its credit row (`order_service.py:341`); a claim of an upload expires
while its holder merges (`chunked_upload_service.py:160`); a file center request to delete
an upload names a type the bin refuses for users (`recycle_bin_service.py:132`).

## Plan

1. Proofs: that `Credits` books like `Ledger`, once the two ledgers have one
   form; that the restoring of a one-time task is the only way to a second run.
2. `Confirmations`: tool confirmations and change drafts, one module for both, since
   both check a status without a lock and write it later.
3. `Intervals`: the slots of `schedule_task_service.py:166-222` as a function,
   against a reference definition.
4. `Uploads` with the instant upload; `Credits` with renewals of memberships.

A run whose question a theorem has settled makes way when a new module needs one.
