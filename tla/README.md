# Strada.Brain in TLA+

Strada.Brain is a TypeScript agent that takes work from chats, runs it in the
background on a game project, keeps it going over failures and restarts, and
works by itself when its daemon finds something to do. This directory holds a
TLA+ model of its core, the TLC runs that check it and the TLAPS proofs about
it. Paths below are relative to the repository; line numbers of every modelled
definition are in `PROJECT.json` under `map`.

| file | content |
| --- | --- |
| `TaskQueue.tla` | task rows, queue, locks, runs, watchdog and reapers, shutdown, crash, boot |
| `TaskService.tla` | the promise to whoever submits a task; `TaskQueue` implements it |
| `MCTaskQueue.tla`, `MCTask*.cfg` | instances of `TaskQueue`; the queue scan as the code's loop |
| `TaskRows_proofs.tla` | proofs about `TaskQueue`: its locks and slots; its rows, and that it implements `TaskService` |
| `MissionKeepAlive.tla`, `MCKeepAlive*.cfg` | the keep-alive of one mission: retries, timers, the sweep after a boot |
| `ProjectWriteLock.tla` | the lock of a project's bulk writers, in several processes |
| `WorkspaceLease.tla` | the copy an agent works in: seeding, commit, quarantine, release, salvage |
| `MCProjectWriteLock.tla`, `MCPublication.tla` and their `.cfg`s, `MCLeaseUnsynced.cfg` | instances of the two modules above |
| `Publication_proofs.tla` | proofs about the two |
| `UnifiedBudget.tla`, `BudgetPromise.tla` | the wallet several processes share, and what it promises |
| `CircuitBreaker.tla`, `Heartbeat.tla` | the daemon's triggers, their breakers and their tasks |
| `Deployment.tla` | proposal, approval, deployment, verification, rollback |
| `SupervisorDispatch.tla` | the waves of a supervised plan |
| `LearningQueue.tla` | the bounded queue of the learning pipeline and its drain |
| `RuntimeLock.tla` | one runtime per installation |
| `FallbackChain.tla` | a chain of model providers and the registry of their health |
| `Campaign.tla` | a campaign's ladder of sprints: submission, judgement, stop, revival, boot |
| `MCServices.tla`, `MCServices.cfg` | instances of these services, the keep-alive and a campaign, side by side |
| `Services_proofs.tla` | proofs about the wallet, its promise and the provider chain |
| `Daemon_proofs.tla` | proofs about the runtime lock, deployment and heartbeat |
| `Work_proofs.tla` | proofs about the supervisor's dispatch and the keep-alive of a mission |
| `CampaignWorlds_proofs.tla` | lemmas about the states a campaign goes through |
| `Campaign_proofs.tla` | proofs about a campaign, from those lemmas |
| `LearningQueue_proofs.tla` | proofs about the learning queue |

Run a configuration with `tlc -config X.cfg M`, where `M` is `MCTaskQueue` for
`MCTask*.cfg`, `MissionKeepAlive` for `MCKeepAlive*.cfg`, `MCServices`,
`MCPublication` (for `MCLeaseUnsynced.cfg` too) and `MCProjectWriteLock` (for
`MCProjectWriteLockRace.cfg`); check the proofs of a module with `tlapm M.tla`
(`Campaign_proofs`, the longest, takes some six minutes). Section 9 says what is
proved.

## 1. Inventory

The process is one Node.js event loop. What runs between two `await`s is
atomic; everything that spans an `await`, a timer or a restart is not, and this
is where the hard behaviour lives. Durable state is in SQLite files; several
processes share only the wallet, the project's write lock and the runtime lock.

**Modelled now**

| component | state | operations | hard behaviour | what makes it correct |
| --- | --- | --- | --- | --- |
| task rows (`src/tasks/task-manager.ts`, `task-storage.ts`) | table `tasks`; in memory the abort controllers and `submittedHere` | submit, cancel, pause, resume, retry, complete, fail, block, recoverOnStartup, failActiveTasksOnShutdown | every party writes rows: persons, the run, reapers, timers, boot | terminal states are final, nobody's task is forgotten, a continued row is retired |
| executor (`background-executor.ts`) | queue, `running`, `activeConversations`, `pausedConversations`, `inFlight`, reaped and settling tasks, leases | enqueue, processQueue, executeTask, watchdog, two reapers, publication, settlement, shutdown | a run may be stopped at any of its awaits by five parties; its `.finally` moves the queue | one run per conversation, the slots are counted, order and priority hold, a completed task's files are in the project |
| mission keep-alive (`background-executor.ts`, `auto-resume.ts`) | `missionRetries`, timers, `keepAliveArmedHere`; the block text of rows | scheduleMissionKeepAlive, retry, budget, re-arm and resume timers, sweep after boot | timers set before a person acted; a count rebuilt from texts; several unfinished rows of one lineage | bounded retries, always an appointment, a stop or a delivery is respected |
| project write lock (`src/common/project-write-lock.ts`) | lock directory, owner file, reclaim marker; per process the tokens held | acquire, breakIfStale, reclaim, release, heartbeat | processes race to reclaim; a death between two file-system calls; a release that cannot act | a holder keeps its lock, one decision at a time, a free lock can be taken |
| workspace leases (`src/agents/multi/workspace-lease-manager.ts`) | directories, two seeds per lease, quarantine | acquire, commit, release, dispose, salvage | the project changes under the agent; commits overlap at shutdown; death in the middle of any of it | no edit of a person is overwritten unseen, no work of an agent exists nowhere |
| wallet (`src/budget/unified-budget-manager.ts`) | reservations, costs, owners | reserve, charge, release, reconcile orphans | processes share it; an owner dies holding a reservation; a judgement is older than its act | the limit, no cost lost or booked twice |
| deployment (`src/daemon/deployment/`, `security/approval-queue.ts`, trigger and bridge) | approvals, log rows, the running script | check, propose, decide, execute, verify, roll back | late and repeated decisions, a crash at any step, a stale readiness | an approval is executed at most once, in time; the log tells the run |
| daemon heartbeat (`src/daemon/heartbeat-loop.ts`, triggers, deduplication, breakers) | per trigger: fired, active task, breaker | tick, fireNow, outcomes, stop, restart | a fire is consumed before it is submitted; asking a breaker half-opens it | an occurrence becomes exactly one task; a breaker counts what happened |
| supervisor (`src/supervisor/supervisor-dispatcher.ts`) | waves of nodes, semaphore, failure budget | dispatch | abort, abandoned nodes, a budget spent while waiting for a slot | every node gets a result; nothing runs on work that failed |
| learning queue (`src/learning/pipeline/learning-queue.ts`) | bounded queue with durable items | enqueue, drain | a drain under two budgets while items enqueue more | every durable item is run, handed over or counted, once |
| runtime lock (`src/core/runtime-lock.ts`) | lock, mirror and recovery files | acquire, take over, release | starters race over a stale lock; two locks per start | one runtime; nothing left behind |
| provider chain (`src/agents/providers/fallback-chain.ts`, `provider-health.ts`) | health per provider, in memory and on disk | a call, its attempts and waits; probes | calls share the registry; cancels and stalls race the attempts | a bench that was earned stays, spent tokens are accounted |
| campaigns (`src/campaign/campaign-manager.ts`) | the stored campaign (sprint, attempts, appointment, stop, generation), the settle chain, timers | submit, hear, reconcile, judge, advance, retry, revive, stop, cancel, resume | a judgement holds a copy over its awaits while persons stop and revive; the executor continues old attempts by itself; a boot judges too | one attempt at a time, a stop holds, no campaign waits for nobody |

**Not modelled** (all of it listed in `PROJECT.json`, with reasons)

| component | state and operations | hard behaviour | properties wanted |
| --- | --- | --- | --- |
| message router (`src/tasks/message-router.ts`) | batches per conversation; buffer, flush, dispose | a command overtakes or flushes what was buffered | messages of a person keep their order; none is dropped |
| goal trees (`src/goals/`, the goal-root operations) | tree and node statuses | torn updates of tree and row; replays and replans | replay limits, completed nodes are not repeated |
| tool chains (`src/learning/chains/`) | compensations | a compensation that timed out goes on | compensations in reverse order |
| gateway supervisor, agents and delegation, agent-core event sink and cancel trees | | | see the plan |

Memory, retrieval and vault, channels, dashboard and portal, skills, policies,
configuration and formatting are data and I/O; they stay out.

The queue calls the row operations (`markExecuting`, `complete`, `fail`,
`block`) and they call back into it (`enqueue`, `resumeConversation`,
`releaseConversation`, which end in `processQueue`). The keep-alive is called
where a run fails or is reaped, and calls `retryTask`/`resumeTask`, which submit
a new row.

The services share little. A fire of the heartbeat and a message are tasks of
the executor, which calls the keep-alive where a run fails; a run reserves from
the wallet, works in a lease, asks the provider chain, and its commit takes the
project's write lock; a supervised run dispatches waves inside one task; a
finished run offers items to the learning queue; the deployment trigger is one
of the heartbeat's and shares the breaker with it. A campaign submits its sprints
as tasks and hears of their ends through the task manager's events.

## 2. TaskQueue

### State and actions

| model | code |
| --- | --- |
| `status`, `chat`, `parent` | row columns; ids are allocated in order, so an id is also the `created_at` order |
| `queue` | `BackgroundExecutor.queue`; only new tasks are appended, so the set of ids is the array |
| `running`, `active`, `paused` | the slot counter, `activeConversations`, `pausedConversations` |
| `aborted` | the task's `AbortController` fired (a cancel or pause by a person) |
| `hung` | the executor's own controller fired (watchdog, reaper, shutdown) |
| `reaped`, `settling`, `tries` | `reapedInflight`, the timers of `settleTerminal`, their attempts |
| `pc`, `result` | at which await `executeTask` is, and the outcome it carries |
| `lease`, `landed` | the run's workspace, and whether its files are in the project |
| `mine` | `submittedHere`: submitted while the boot had not recovered yet |

A handler writes a *view* (a record of what processQueue reads and writes) and
hands it to `ProcessQueue`, just as every handler of the code ends in a call of
it. `Starts` and `Skips` say in set terms which queued tasks one scan starts and
which cancelled entries it drops; the run `TaskQueue` compares them with a
recursive transcription of the loop (`StartsMatchLoop`).

| action | handler |
| --- | --- |
| `Submit`, `Cancel`, `PauseTask`, `ResumeTask`, `RetryTask` | the `TaskManager` methods with the callbacks they make |
| `StartWork`, `WorkEnds`, `EnvelopeCommit`, `CommitLands`, `CommitLost`, `Settle` | `executeTask` from await to await |
| `SettleRetry` | the timer of a completion that could not be written |
| `Watchdog`, `ReapStuckTask`, `ReapLostWorkspace` | the inactivity watchdog, `reapStuckTasks`, `reapLostWorkspaces` |
| `BeginShutdown`, `Exit` | `shutdown()` before and after its drain, then `failActiveTasksOnShutdown` and the end of the process |
| `Crash`, `ResumeTorn`, `Boot`, `Recover` | death of the process at any await, death between the two writes of `resumeTask`, start, `recoverOnStartup` |

### Abstractions

- `FailRows`: what `fail()` leaves depends on the keep-alive, which may take a
  user's mission over and leave it blocked. `MissionKeepAlive` has the details.
- A retry timer of the keep-alive is `RetryTask` here; it may come at any time,
  which includes every moment a person may choose.
- The refusal of a run by the wallet is left out (it moves the row as a failed
  run does), and so are goal-root variants of the operations.
- `Exit` joins the disposal of leases, the last writes and the end of the
  process; nothing runs between them but what `draining` already allows. A lease
  kept after a failed commit is tried again there. `left` is a directory a dead
  process leaves to the salvage of the next boot.
- `LateReap`: reapers run on long timers (minutes to an hour), a stopped run
  unwinds in moments. FALSE lets a stopped run unwind before a reaper meets it;
  TRUE drops that assumption. The run `TaskLateReap` shows what the code does
  then; the invariants of the other runs are stated for FALSE.
- A failed write of a completion is a choice in `Settle` and `SettleRetry`;
  failed writes elsewhere are not modelled.

### Runs

| run | instance | checks | distinct states |
| --- | --- | --- | --- |
| `TaskQueue` | 3 tasks, a user's and the daemon's conversation, 2 slots, queue of 2, no restart | types, locks, order and priority; the scan against the loop | 1.25 million |
| `TaskRestart` | 3 tasks, 2 conversations, 1 slot, queue of 1, one settle retry, task and own workspaces, one shutdown or crash | rows, runs, locks and workspaces agree; refinement of `TaskService` | 4.2 million |
| `TaskLive` | 3 tasks, 1 conversation, 1 slot, no restart, fair | waiting tasks are served, executing rows end | 56 thousand |
| `TaskLateReap` | 2 tasks, reapers unrestricted | finding 1 | stops at the violation |
| `TaskDrain` | 2 tasks in 2 conversations, 1 slot, one shutdown | finding 2 | stops at the violation |

Why these bounds are enough for the hazards: a conflict over a conversation or a
slot needs two tasks, and a third to wait behind them or to be the daemon's; a
continuation needs a parent and a child, and a third row to fill the queue of
one so that the child is refused. Two conversations are the least that tell a
conversation's lock from the global limit. One stop is enough for everything a
restart finds, since it forgets all volatile state; the second restart of
finding 5 concerns lineages and is in `MissionKeepAlive`. One settle retry gives
both an attempt that is repeated and one that is the last. No run uses symmetry:
the two conversations differ in origin and tasks are ordered.

`CHECK_DEADLOCK FALSE`: when all tasks of the bound are finished, nothing
remains to be done.

**What holds** (all of it also proved). `ConversationExclusive`, `ConversationFIFO`,
`DaemonYields`, `RunsMatchRows` (a completion about to be reported always meets
a row that takes it), `NoLostTask`, `CompletedWorkLanded`, `NoOrphanPauseLock`,
`ParkedHasNoContinuation` (even when the process dies inside `resumeTask`).
`DaemonYields` names one exception the code has: `resumeTask` moves the queue
once before it submits the continuation, so a daemon task may start in the very
step that creates it.

**Refinement.** `TaskService` knows rows, the set of busy tasks and landed
files; it has no queue, locks, workspaces or processes. It promises: a task is
run at most once, a conversation runs one task at a time, a row completes only
with its files in the project, and completed, failed and cancelled are final.
`ImplementsService` maps `busy` to the runs in flight, the other variables to
themselves.

**Fairness.** `WF(Run(t))`: a run gets on, for every await of it ends by itself
or through the inactivity watchdog. `WF(SettleRetry(t))`: its timer fires.
`WF(Recover)`, `WF(Exit)`: a boot reaches recovery, the drain has a deadline of
ten seconds. Nothing is assumed of persons, reapers, shutdowns or crashes, and
nothing of `Boot`. `ForegroundServed` and `ExecutingEnds` therefore hold however
persons act; they are checked without the daemon, whose tasks may wait for as
long as a user's row is pending or executing (listed as a hazard).

## 3. MissionKeepAlive

One mission is a lineage of rows, each continuing an earlier one. `status`,
`parent`, `reason` (`cancel_reason`), `text` (the kind of the block message and
the count read back from it) and `recent` (the `updated_at` order of the blocked
rows, as the pairs of which the first was updated later) are durable; `retries`,
`timer`, `armed` and `swept` belong to the process. A row is `live` from submission
to the end of its run, the steps in between being `TaskQueue`'s.

`KeepAlive` is `scheduleMissionKeepAlive` with `decideMissionKeepAlive`; it is
reached from `Fails`, from each timer that cannot resubmit, and from the sweep.
`RetryDue`, `BudgetDue`, `RearmDue` and `ResumeDue` are the timers' callbacks,
`Sweep` the two passes of `scheduleKeepAliveRearm` ninety seconds after boot,
`Exit`/`Crash`/`Boot` the process. Whether the wallet is closed, whether all
providers cool longer than the re-poll waits, whether storage or the queue
refuses, and whether the sweep staggers a re-arm (because it re-arms other
missions too) are nondeterministic. The mission has no goal tree and no second
lineage shares its prompt.

`charged` is a ghost: the automatic retries spent since the last report to the
person or delivery, reset by whatever a person does.

| run | instance | checks | distinct states |
| --- | --- | --- | --- |
| `Services` | 3 rows, 1 retry, one act of a person, one stop | types, `RetriesLimited` (`RetryBudget` and `CountIsDurable`), `Appointed` | its part of 0.56 million |
| `KeepAliveStop` | 3 rows, one act of a person | finding 3 | stops at the violation |
| `KeepAliveEscalated` | 4 rows, one stop | finding 4 | stops at the violation |
| `KeepAliveDelivered` | 4 rows, two stops | finding 5 | stops at the violation |

Three rows hold the first attempt, the retry of the limit and one more
continuation (by a person, by a resume or a sweep). A limit of 1 instead of 10
already separates "below" from "at the limit", and makes a refilled or lost
count show in few rows. The bounds 4/1/1/1 (0.14 million states), 5/1/1/1 (0.94
million), 5/1/1/2, 5/2/0/3 and 4/2/2/1 (rows, limit, acts, stops) were also
tried alone, with the same result.

`RetryBudget` excuses lineages that went back (`WentBack`): after finding 5 two
branches spend from one count and the older text may be the lower one.
`Appointed` names the cases in which the code drops an appointment on purpose: a
person's stop, a branch retried beside the row, a later request for a person.
Two facts found by enlarging the bounds are not promised by the code and not
stated: a re-poll of an outage restores the count captured when its timer was
set, over what a person's `/retry` spent meanwhile (needs six rows), and a
`/resume` in the first ninety seconds after a boot starts the count at zero
because the sweep has not restored it yet.

## 4. ProjectWriteLock

Bulk writers of one project (the commit of a workspace, a campaign's milestone)
serialize through a directory `project-write.lock`. A writer of the model is one
call of `acquireProjectWriteLock`, and at once the token that call draws; a
process is one lifetime (`incarnation`). Each action is one call of the file
system, and `Turn` keeps the writers of one process from interleaving inside a
section without an `await`.

| model | code |
| --- | --- |
| `lock`, `owner` | the lock directory (by whose `mkdir`), the token in its owner file |
| `old` | the owner file, or without one the directory, is older than `staleMs` |
| `marker`, `spent` | `project-write.lock.reclaiming`, and that it is older than its stale window |
| `held` | `ProcessLockState.held` |
| `seen` | the `expected` owner of a reclaim |
| `Try`, `WriteOwner` | `tryTakeLock`: `mkdir`, then the owner file |
| `Look` | `breakIfStale` with `holderIsAlive` (`Verdict`) |
| `Mark`, `Unmark`, `Remark` | `takeReclaimMarker`: `mkdir` and `stat`, `rm`, `mkdir` |
| `Decide`, `Moved`, `Busy`, `Drop` | `reclaim`: the owner read again, the rename and its failure, `dropReclaimMarker` |
| `Release`, `Settled`, `Contended` | the handle's `release` and its retries |
| `TimeOut` | proceeding without the lock, from any poll on |
| `AgeLock`, `AgeMarker`, `Crash` | time, and the death of a process |

`Look` and `Mark` take two calls of the code in one step. What `Look` saw may be
old when the marker is made, and that covers what could happen between its two
readings; the other pair ends as contended whichever of its calls fails.
Abstractions: a lock grows old only while no handle renews it, and a marker only
when its maker is dead, so a process that stands still for longer than the stale
windows is out; so is a process id given to another process on a system that
does not tell start times, and an owner file that cannot be written although its
directory is there. The grave a reclaim renames the lock to holds nothing and is
left out; what it can do, make a rename fail, is `Busy`. A release's retries last
twice as long as a marker, so one whose maker died does not use them up.

`Survivors` bounds how many other processes may live when one dies *inside* a
section that makes or removes a directory; elsewhere any number may die.

| run | instance | checks | distinct states |
| --- | --- | --- | --- |
| `Publication`, scene "lock" | 4 writers, two of them in one of 3 processes, on 2 machines, 2 retries, `Survivors = 1` | types, `HolderKeepsLock`, `OneDecision`, `FreeLockCanBeTaken` | 0.63 million |
| `ProjectLockRace` | 3 writers in 3 processes on one machine, `Survivors = 2` | finding 6 | stops at the violation |

Three processes are what a race of two reclaimers over a dead holder needs; two
writers in one process need its own verdict on a token; the second machine needs
the age. With `Survivors = 2` two things go wrong. The run shows the first:
without an expected owner, `reclaim` does not read the age again. The other
appears when a process dies while it holds the marker: two others find it stale,
the second removes the marker the first has just made, and both decide at once
(lines 187-191).

Whether a polling writer is ever served was left to its timeout, which always
comes; `FreeLockCanBeTaken` says instead that no state is reached in which it
would have to.

## 5. WorkspaceLease

An agent works in a copy of the project. `tree` is the project, `copy` a lease's
files; a version is named by who wrote it (0 as found, n by a person's n-th act,
a lease by its agent, `Head` by the last git commit), for its bytes and stamps
alike. `given` is `leaseSeed`, `base` is `sourceSeed`, `shelf` the quarantine,
`job` the two commits a lease can have under way, the run's and the one of
`dispose()` or of the next start's salvage.

| action | code |
| --- | --- |
| `TakesSnapshot`, `Seeds`, `Opens` | `acquireLease`: the look before the copy, the copy (a worktree may lack files), `reconcileSeedBaseline` and the persisted seeds |
| `AgentWrites`, `AgentDeletes`, `PersonActs` | what happens to the two trees meanwhile |
| `RunSettles`, `LockTimesOut`, `Decides`, `WritesFile`, `WriteFails`, `Finishes` | `commitLease` up to the write lock, its decisions, the writes, deletions and quarantine |
| `RunJudges`, `StopJudges` | `judgePublication`: release, keep or throw |
| `FileGoes`, `DirectoryGone` | the removal of a directory, file by file |
| `Disposes`, `ProcessEnds`, `ProcessStarts`, `SalvageBegins`, `SalvageEnds` | shutdown, death at any point, and the boot that commits what it finds |

`EditsRespected`: what a commit changes in the project was what the agent had been
handed or had published, or what the last git commit holds, or was missing when
the lease was taken. `WorkKept`: what an agent wrote and did not retract is in its
copy, on the shelf, or has reached the project.

Left out: a Unity asset and its `.meta` travelling together, system-owned paths,
the replay of an agent's own git commits, leases seeded from leases, racily clean
stamps, the review records. A person who acts between a commit's decision and its
write (`hasty`) is left out of `EditsRespected`, work written after `dispose()`
began out of `WorkKept`. A revert to the last commit counts as no change, as
`seedHeadVerdict` means it to. A file with no recorded stamp is never deleted.

| run | instance | checks | distinct states |
| --- | --- | --- | --- |
| `Publication` | two leases and one file; one lease and one file with two acts and two mishaps; one lease and two files, one act, one mishap; the lock alone (section 4) | types, `EditsRespected`, `WorkKept` | 2.3 million |
| `LeaseUnsynced` | the same, and the sync of a worktree may fail | finding 7 | stops at the violation |

The lock's writers and the leases share no variable (a commit holds the lock
through one handle, `writing`), so the variable `scene` lets one of them move. Two
leases are each other's concurrent commit; two files let one land and the other
not; one lease with two acts and two mishaps has an edit before and after the
seeding, and a death on top of a failed write. Larger instances were run alone
and hold: two leases with one act (3.8 million), with one mishap (2.8 million).

## 6. The services

`MCServices` puts nine modules side by side, one of them twice. They share nothing modelled but
the breaker's operators, so the variable `part` picks the one that moves and the
states are the sum of theirs, not the product: 0.56 million, in a minute and a
half. Its other invariants and action properties are proved for every value of
the constants (section 9), so the instance is kept small: each action still
happens and each mutant still shows. A larger one was run before it and holds: two
occurrences of a trigger, a ninth node, three proposals, five offers, four rows,
three failures of a member, a campaign disturbed three times (1.2 million states).
`ServicesTyped` is the type invariant of the one that moves.
`CHECK_DEADLOCK FALSE`, since a dispatch returns, a queue is drained and bounds
are used up.

### Wallet

`UnifiedBudget`: liabilities (reservations and their costs), the registry of
owning processes, and the pass of `reconcileOrphanedReservations`. Actions:
`Start`, `Die`, `BeginPass`, `Judge`, `Resolve`, `EndPass`, `Reserve`, `Charge`,
`ChargeUnreserved`, `Release`, `WindowPasses`. A pass judges an owner in one step
and settles its reservation in another. `LiveOwnerKeepsLiability`: nobody resolves what a
live process reserved.

`BudgetPromise` is the wallet without processes by number, heartbeats, registry
or passes; death is known there. It promises that a
reservation is admitted only when it fits beside all that is spent and owed, that
only the admitted owner closes it, and that what a dead owner leaves is owed until
its window has passed. `ImplementsPromise` is the refinement.

Abstractions: one daily window that slides as a whole (the monthly one has the
same form); no storage failure inside a transaction; the heartbeat's age and a
recycled process number are a nondeterministic verdict. `chargeReservation()` has
no caller outside the tests. Instance: three incarnations, two of which get the
same process number, two liabilities, costs of 2 and a limit of 3.

### Deployment

`CheckStarts`, `CheckEnds`, `CheckThrows` are the readiness check, whose result
is cached; `TickQuiet`, `TickSettles`, `TickProposes` the trigger; `DecideLate`,
`Deny`, `ApproveFails`, `Approve` the decision and what the bridge does with it;
`ScriptSucceeds`, `ScriptFails`, `VerifyEnds`, `RollbackEnds` the executor;
`DeployCrash`, `DecideCut`, `DeployBoot` death at any step and the start after
it. `CooldownEnds` and `DeadlinePasses` are time. `DeployedOnceApproved`: a
proposal's script starts once at most, restarts included, and only when a person
approved it in time. `LogTellsTheRun`:
the log row says what the run is doing or did. `DeploymentOnRecord` joins the two. `FreshBasis`: no readiness check
carries two requests.

Left out: storage failures inside `execute`; `cancel()` has no caller outside the
tests. Two proposals, one settled or late before the other, and three checks; three
proposals were run too and hold.

### Heartbeat

A trigger's fire is consumed before its task is submitted. `Occurs` is the
world; a look at a trigger ends in `EvaluationThrows`, `Suppresses`, `Refuses`,
`SubmitThrows`, `Submits` or `SubmitsFailed`; `Settles` is the task's outcome;
`Stops`, `Starts`, `HeartCrash`, `HeartBoot` the loop and the process. Operators
of `CircuitBreaker` are the breaker, whose `isOpen` also half-opens it.
`ExactlyOneTask` joins `NothingLost` (what became neither a task nor a duplicate
is still due), `NoDoubleFire` and `NoOverlap`; `StreakIsReal`: each outcome of a
process's own tasks reached the breaker once, in memory and in the database.

Abstractions: a deduplicator is "something fired in this process"; the guard
against a second fire within a minute likewise; the deployment trigger is not
here. Webhook and file-watch triggers do not take a refused fire back
(section 8). Left out: a cron fired by hand in the minute of its own fire whose
submission throws (section 8). The run has a cron and a checklist trigger with one occurrence each,
which a fire that fails, a crash and a boot already repeat; two occurrences each
(0.26 million states) and a webhook too (one each, 2.0 million) hold.

### Supervisor dispatch

`SupervisorDispatch` is `dispatch()` of one plan: `StartWave`, `ComeTo`,
`SlotTaken`, `AllHome`, `GraceOver`, `DrainWave`, `Returns` are the loop,
`WorkerEnds`, `WorkerThrows`, `BackoffEnds`, `TimesOut`, `LateAnswer`,
`StraySettles` its nodes, `Abort` the caller. `DispatchInOrder`: a node starts on the finished
work of all its dependencies, and no wave starts while a run of an earlier one
goes on unwaited for. `FailuresBounded`: the overshoot of the failure budget is
less than the width. `EveryNodeAccounted`: unless it was aborted a dispatch that
returned has a result for each node, and none was skipped without cause;
`PlanAccounted` joins the last two. The plan of the run has eight nodes: two
chains that meet, a loose one, a cycle and a node behind it. Dependencies outside
the plan, which the code takes for resolved, are left out.

### Learning queue

`Enqueue`, `EnqueueEvicting`, `RefuseDurable`, `RefuseObservation` are the four
outcomes of `enqueue`; `ItemEnds` is `processNext`; `ShutdownBegins`,
`DeadlineStrikes`, `ShutdownEnds` the drain. `SettledOnce`: a durable item is waiting,
run, handed to its fallback or counted as lost, exactly one of them.
`EvidenceFirst`: items run in the order they were taken, and a drain drops an
observation only when no durable item waits behind it. Bounds of 2 and 2
with four offers fill the queue either way and refuse; six offers (0.24 million)
hold too. The 32-pass limit of the
drain is never reached, in the model as in the code.

### Runtime lock

Each action is a file-system call of `acquireRuntimeLock`, of the take-over of a
stale lock under a recovery file, or of the release; `ElderStarts` and
`ElderStops` are a runtime of a version that knows only the old path, `LockAges`
is time. `OneRuntime`: at most one runtime runs, and it holds the lock
at every path others look at. `NothingLeftBehind`: a start that was refused and a
runtime that stopped leave neither a lock nor a recovery file.
A read and its `stat` are one step; owners that live keep their locks fresh, so a
process suspended for over a minute is out, as are recycled process numbers,
file systems without hard links and damaged lock files. Two starters on two
machines, an elder, a dead predecessor that may have left any of the locks; three
starters were run alone (1.0 million) and hold.

### Provider chain

`CallStarts`, `RecoveryWaitEnds`, `AttemptAnswers`, `AttemptEmpty`,
`AttemptSilent`, `AttemptFails`, `PauseEnds`, `CallCancelled`, `CallerGivesUp` are
one call over the members; `ProbeEnds`, `CoolsDown`, `ChainRestart` the registry
of their health, which calls share and which is persisted. `CallAccounted`: the caller hears the text of one
attempt at most, and the tokens of answers thrown away ride on the answer or the
error, save in the ends the code throws bare: a broken stream, a quota with nobody
left, a reasoning model without a sibling whose request was aborted, a wait cut off.
`HealthEarned`: a bench is shortened by
time, an answer or a probe only (`BenchHolds`), a member is charged for a probe or
an attempt of its own only (`ChargeEarned`), and a call whose caller gave up is
not handed on (`NotHandedOn`).

Lengths of benches are four classes; escalation within a class, thinking
suppression, re-pointed seats, nested chains and what a provider streams after
an abort are left out. Two members and two calls, one of which has a signal that
can die; the first member has no record yet, the second is benched for hours, so the
first failures decide whether a call waits, moves on or ends. One failure degrades a
member and two bench it; thresholds of two and three with a first member benched for
a moment, and with three other loads (0.16 to 0.21 million states), were run alone
and hold. The first member is also run as a chain of its own (`single`),
where an overload and a bill bench it for less and the bare end of a reasoning model
occurs; the registry is the process's, so the second member stays in it.

### Campaign

The campaign is a row of its own table (`camp`), its sprints are tasks (`work`,
where `line` is a row with its ancestors). `settleChain` is the promise chain on
which the settle handlers of one campaign run one by one; `busy` says what the
chain, and the resumption at boot, which is not on it, are waiting for and which
copy of the campaign they hold; `alarms` are the timers. A handler of the code
calls others, and most of them have several ends; it is written as the set of
*worlds* it may leave, and an action picks one.

| model | code |
| --- | --- |
| `RowEnds`, `RowContinues` | a run ends; the executor carries a blocked or paused row on under a new id |
| `Hears`, `HandlesSettle`, `HandlesStop`, `HandlesReconcile`, `GraceEnds` | `handleTaskSettled` and the handlers it puts on the chain, `reconcileMilestoneAfterSettle` after its grace |
| `Bounces`, `TurnsOutFailed`, `Advances`, `LacksProofs`, `StopsShort`, `Delivers` | the ends of `onMilestoneOutcome` for a completed attempt |
| `SprintFails`, `Overruns`, `Narrowed`, `GivesUp` | the same for one that failed, the time box, `selfReviveImplementation` |
| `Told` | what an end does after its message was sent |
| `SubmitsSprint`, `NextSprint` | `submitCurrentMilestone`, `resubmitSoon` |
| `StopsRow`, `CancelsCampaign`, `RevivesCampaign` | a person's `/cancel` of a task, and the campaign commands |
| `AppointmentDue` | `scheduleAutoRevive` |
| `Saves`, `Older` | `persist`: generations, and a stop carried over a copy without it |
| `CampRestarts`, `BootSweeps` | death of the process, recovery, `resumeActive` and `resumeOne` |

`OneSprint`: whatever retries, revives and resumes, one attempt of the campaign
runs at most. `Attended`: a campaign that executes has an attempt whose end will
be heard, a handler or a timer; a recorded stop has somebody to carry it out; an
appointment has its timer. `StopHolds`: after a person's stop the campaign
submits nothing until it is revived.

`raced` is set when one of two things happens that the code does not exclude and
that section 8 describes: the chain handles something while the resumption at
boot holds a copy, or the submission an advance armed (`resubmitSoon`) finds a
later generation of the campaign executing, because its owner cancelled and
revived it in between. A behaviour is followed until then, so the three properties
speak of what happens up to there; without `raced`, `OneSprint` and `StopHolds`
fail. The alarm carries the generation it was armed in only to tell this case: the
submission itself does not know it, as in the code.

Bounds: two sprints (one to advance from, one to deliver), one attempt each, one
narrowing, one self-revival, three rows; two appointments, two acts of a person
and one restart, two of these together (`MaxTurns`): a cancellation and a revival,
two appointments, or a restart and one of the others. Three together (0.24 million
states), which is what a judgement cut by a cancellation and a revival needs to
park, were run alone and hold; for all bounds the three properties are proved
(section 9).

What a judgement measures is a choice among its ends. Left out: the draft, its
approval and the plan; the scope gate with its parking; sprints for coverage and
a final proof; amendments and waivers; a death between submission and save; a
person's pause; other campaigns of the chat. A failed row is a blocked one here,
two timers of the same kind and aim are one.

## 7. Findings

Each violation run checks one sentence of the code against what the code does.

1. `TaskLateReap` / `StopIsFinal`: a reaper fails a task because it is in
   flight, without looking at its row; a row a person cancelled and whose run is
   still unwinding becomes failed or blocked.
2. `TaskDrain` / `DrainingRunsAreStopped`: shutdown aborts runs once; a run that
   ends during the drain starts the next queued task, which nobody stops.
3. `KeepAliveStop` / `StopRespected`: the hourly budget timer resubmits a mission
   a person cancelled; the retry timer asks `isLineageCancelled`, this one not.
4. `KeepAliveEscalated` / `EscalationStands`: the sweep passes over a row that
   waits for a person before it notes the lineage, and re-arms an older row.
5. `KeepAliveDelivered` / `DeliveredStaysDone`: a sweep continues a blocked row
   and leaves the paused row beside it; the mission completes, and after the
   next boot the paused row is resumed and the delivered mission runs again.
6. `ProjectLockRace` / `HolderKeepsLock`: a reclaim of a directory without an
   owner file does not read the directory's age again under the marker; acting
   on what it saw before, it moves away the lock of a writer that is about to
   write its owner file.
7. `LeaseUnsynced` / `EditsRespected`: a worktree whose sync failed holds the last
   commit; the agent's edit of that version is written over the person's
   uncommitted one, and no conflict is reported.

## 8. Observations

Read from the code while modelling, without a run of their own.

- `workspace-lease-manager.ts:1980` asks whether the workspace exists before the
  wait for the lock (2035). At shutdown the commit of `dispose()` waits while the
  run's `release()` empties the directory; missing files then count as the
  agent's deletions. Only files the system had published are removed, with a copy
  under `quarantine/deleted`. A death in the middle of a removal and the salvage
  after it do the same.
- `workspace-lease-manager.ts:889` names a salvage folder by the first eight
  characters of the worker's name; two orphans that begin alike overwrite each
  other's conflicting copies. `WorkKept` fails when `FolderOf <- OneFolder`, and its
  proof assumes that leases have folders of their own.
- A kept lease that `dispose()` commits again restores a file the agent created
  and published and a person deleted since.
- A deployment decided for an older proposal clears `proposalPending` while a
  newer one is open; a readiness check begun before a settlement may set its
  result after it; cooldown and breaker are lost on restart; an approval whose
  process dies before execution is never executed (`DecideCut`).
- `shouldFire` of a cron returns before it moves the look-back in the minute of a fire
  (`cron-trigger.ts:65`); a fire by hand in that minute whose submission throws gives
  back (86) the look-back of the fire before, and its occurrence is due again. The
  deduplication window hides it unless it is switched off.
- Webhook and file-watch triggers have no `onSubmitFailed`, contrary to
  `heartbeat-loop.ts:920` "A FIRE THAT NEVER BECAME WORK GIVES BACK WHAT IT
  CONSUMED".
- `learning-queue.ts:137` says the queue holds no more than its bound whatever
  the mix; it holds up to `maxQueue` plus `maxDurable`. A durable item that hangs
  at the deadline is neither counted nor given its fallback.
- `fallback-chain.ts:827` says no member is charged a failure it never made; a
  caller's signal that dies during a recovery probe is not looked at again (911),
  and the member is attempted and charged. 783 says tokens ride on the answer or
  on the error; a broken stream (1130), a quota with nobody left (1171), a
  single provider's reasoning timeout (1199) and an abort during a probe or a
  pause lose them.
- `chain-rollback.ts:118`: a compensation that timed out keeps running beside the
  next one.
- `task-manager.ts:690`: the daemon's work waits while any user's row is pending
  or executing. `task-manager.ts:952`: recovery writes failed, then paused, in two
  statements. `background-executor.ts:3348`: replay counters of goals start again
  after a restart.
- Campaigns (`campaign-manager.ts`): `resumeOne`'s judgement at boot (2499) is not
  on the chain that serializes the settle handlers (3379), so a continuation that
  completes meanwhile is judged beside it, over another copy of the same
  generation: two sprints may run, and a stop may be written over. A kill between
  the submission of a sprint and the campaign's save orphans a task that the boot
  submits again. A revive while every provider cools leaves `milestone.taskId` on
  the stopped lineage, and the appointment is given up for it (2339).
- The delivery looks whether its save was accepted before it goes on (5387-5394).
  Other ends do not: one that stops short of delivery retires live lineages after
  a refused save too (5258, 5334, 5351), which may be the sprint of the generation
  a person has revived meanwhile; an advance (5435) announces the next sprint and
  arms a submission (5444). That one asks only whether the campaign executes
  (`resubmitSoon`, 2310): if it was cancelled and revived since, before or after the
  advance was saved, the revived generation's sprint is submitted again and an
  attempt is charged.
- Message router (`message-router.ts`): the notice of a start makes only a chat's
  first message wait, later ones overtake it; a route under way at `dispose()`
  sets a timer that submits during shutdown.

## 9. Proofs

Each theorem holds for every value of the constants that satisfies the
assumption of its module (`QueueAssumption`, `LockAssumption`, ...; they say that
bounds are numbers, that names do not collide, and which sets are finite) and the
hypotheses of the last column.

| theorem | states | hypothesis |
| --- | --- | --- |
| **`TaskRows_proofs`** | | |
| `TypeCorrect`, `Exclusive` | `TypeOK`, `ConversationExclusive` | |
| `NothingForgotten`, `CompletionsLanded`, `ParkedStandsAlone` | `NoLostTask`, `CompletedWorkLanded`, `ParkedHasNoContinuation` | |
| `RunsHaveRows`, `LocksCanOpen` | `RunsMatchRows`, `NoOrphanPauseLock` | `LateReap = FALSE` |
| `DaemonGivesWay`, `OldestFirst` | the action properties `DaemonYields`, `ConversationFIFO` | |
| `ServiceImplemented` | the refinement `ImplementsService` | `LateReap = FALSE` |
| **`Publication_proofs`** | | |
| `LockTyped`, `HolderSafe`, `DecisionSerialized`, `FreeLockBreakable` | `TypeOK`, `HolderKeepsLock`, `OneDecision`, `FreeLockCanBeTaken` | `Survivors <= 1` |
| `LeaseTyped` | `LeaseTypeOK` | |
| `NoWorkIsLost` | `WorkKept` | `OwnFolders` |
| `EditsAreRespected` | the action property `EditsRespected` | `SyncMayFail = FALSE` |
| **`LearningQueue_proofs`** | | |
| `LearningTyped`, `Settled` | types, `SettledOnce` | |
| `EvidenceComesFirst` | the action property `EvidenceFirst` | |
| **`Daemon_proofs`** | | |
| `RuntimeTyped`, `OneRuntimeEver`, `NothingIsLeftBehind` | types, `OneRuntime`, `NothingLeftBehind` | |
| `DeployTyped`, `DeployedAndRecorded`, `CheckedAfresh` | types, `DeploymentOnRecord`, `FreshBasis` | |
| `HeartTyped`, `OneTaskEach`, `StreaksAreReal` | types, `ExactlyOneTask`, `StreakIsReal` | |
| **`Services_proofs`** | | |
| `WalletTyped`, `LiveOwnersKeep` | types, `LiveOwnerKeepsLiability` | |
| `PromiseKept` | the refinement `ImplementsPromise` | |
| `ChainTyped`, `CallsAccounted` | types, `CallAccounted` | |
| `HealthIsEarned` | the action property `HealthEarned` | |
| **`Work_proofs`** | | |
| `DispatchTyped`, `DispatchedInOrder`, `PlansAccounted` | types, `DispatchInOrder`, `PlanAccounted` | |
| `MissionTyped`, `NothingIsForgotten`, `RetriesAreLimited` | types, `Appointed`, `RetriesLimited` | |
| **`Campaign_proofs`** | | |
| `CampaignTyped`, `OneSprintAtATime`, `CampaignAttended` | types, `OneSprint`, `Attended` | |
| `StopOutlasts` | the action property `StopHolds` | |

None of the hypotheses is there for the prover. Each excludes a behaviour the code
has and a run or section 8 shows: `LateReap` finding 1, `Survivors` finding 6,
`SyncMayFail` finding 7, and `OwnFolders` (no two leases share a folder of the
quarantine) the salvage folders that begin alike.

### Task queue

Neither `TypeOK` nor `ConversationExclusive` is inductive alone. That a started
task's conversation is free follows from the lock set only if the lock set is that
of the runs; that starting adds exactly one run per task needs that no queued task
has a run; and that a handler can free a conversation needs the run's conversation
to be a real one. The invariant `IInv == RestTyped /\ Good(Now)` has these parts:
`Good(w)` says of a view that it is typed, that the locks and the counter are those
of its runs (`Locks`), and that queued tasks are saved and not running (`Queued`);
`RestTyped` types the variables no view holds.

The argument follows the shape of the model. `AfterGood` shows that a scan keeps
`Good`, from `StartsSound` (a scan starts queued tasks in free conversations,
one each, as slots are free) and the cardinality lemmas. Each handler then has
only to show that the view it hands over is good, in one step per action.

### Task rows

`RowsInv` adds to `IInv` a statement about each row. `Row(w, t)` joins the
row's status, in a view, to everything else that is known of the task: its place in
the queue (`Waits`), the stops it was given (`Stopped`), its run, workspace and
files (`Works`), the outcome the run carries (`Reports`), the timer of a completion
that could not be written (`Settles`), what a boot will find (`Kept`), and, where no
reaper decides late, that nobody takes a row from under a run unnoticed (`Seen`).
The four invariants each need most of the others: that a completion has landed when
it is told needs the workspace followed through every stop, and that an executing
row has a run needs that no stop leaves it executing. `PumpRows` shows that a scan
keeps the rows of a good view, so that a handler has only its own row to look at.
`InOrder` and `PauseLocks` concern several rows.

`Change(t)` says what one step may do to one row. From it follow the refinement,
action by action, and `Continues`: a direct continuation comes to life only by a
step that ends what it continues. `ParkedHasNoContinuation` speaks of ancestors,
and the model takes them as a closure over `parent`. No induction over rows is
available, so `AboveExists` gives that function by finite ways from a row to its
ancestors: a way has a length and a map of it, and a least length takes the place of
the induction.

### Write lock

`HolderKeepsLock` alone is far from inductive: that no reclaim moves a live
holder's lock depends on the second reading of the owner, that one on the marker
keeping other reclaims out, and that one on no dead process having left a marker.
The invariant `IInv` has a part for each: `Threads` (one section per process),
`Handles` (where a holder may be), `Directory` (owner file, directory and holders
agree), `Reclaims` (what justified a reclaim is past for good) and `Markers`.
Parts that fail after a death inside a section are weakened by `Alone`: at most
one process is left, and its sections interleave with nothing. There is one
lemma per action; `CrashKeeps` is the one that needs the bound on survivors.

### Leases

`LeaseBase` types the state, says of which leases there are commits under way, and
that only the commit that holds the lock has decided writes it has not made.
`WorkInv` follows an agent's version from its copy outwards. Whatever shows it
elsewhere (the project, another lease's seed or copy) is evidence that it was
published (`Published`), so a copy may go when its files are saved (`Authored`),
and a commit that ends without a loss has saved them (`Earned`). The step that
carries the weight is `SetAside`: a version put on the shelf pushes out only a
version of the same lease, which is where `OwnFolders` is used.

`EditsInv` follows a person's version. No tree holds an act of the person that is
not made yet (`Timely`); so if the project looks as it did before the seeding, it
holds what the copy was given (`Handed`), even though the look, the copy and the
agent's work are separate steps; and a write once decided stays justified until it
is made, unless the person acts on that very file in between (`Warranted`, and
`hasty`). Which writes are decided is `DecidesEdits`; what a step may then do to the
project is `StepRespects`.

### Runtime lock

`Has(p, f)` says from where a starter stands whether lock `f` is its own, and
`Others` and `Placed` that these are exactly the locks that name it while it lives.
A lock whose owner is not up is therefore a dead one's, and only those are renamed
away, by the starter the recovery file names (`Named`). `OneRuntime` follows since
the two paths every version looks at cannot both be had by two.

### Learning queue

`LInv`: the queue is a strictly increasing sequence behind everything started
(`Line`), each durable item has one place (`Places`), and the classes keep to their
bounds (`Room`). A turn of the drain loop is treated once (`TurnTakes`,
`TurnKeeps`); handlers only have to hand over a queue that is `Ready`.

### Daemon

`DRuns` ties the log to the script that runs, `DBasis` each request to the check it
was made on. For the heartbeat, `HHeard` and `HLinks` say that a trigger's active
task is its latest own one, `HFires` counts tasks against occurrences. The breaker
is only ever changed by its operators, whose effect on the count is `BreakerMoves`.

### Wallet and provider chain

`WVerdicts` says why a verdict that an owner is dead stays true until it is acted
on: numbers of processes are ordered by birth (`WOrder`), a registration tells of
one process (`Telling`). The refinement `PromiseKept` maps the registry and the
passes away. Both levels take their totals from one function of what each liability
owes, so the proof follows that function through each step and no sum is unfolded.

A call's record is `Underway` or `Over`; `Ready` is what an attempt may begin from.
Every step of a call and of the registry keeps `CInv` and one of the three action
properties each (`Kept`), from which `HealthIsEarned` follows at once.

### Supervisor

`SInv` says where a node may be in the loop (`SLoop`), that a run holds a slot and is
counted (`SRuns`), why a node was skipped (`SCauses`), who still goes on after its
wave (`SStrays`), and what the failure budget has counted (`SCounts`). Waves are
computed by a recursive function over numbers; that no dependency of a wave's node
lies in a later wave is proved from its first wave (`LeastNat`), without induction.

### Keep-alive

`RetriesLimited` is far from inductive: the count a process keeps is lost when it
ends, and what the next sweep restores is the highest count of one row's ancestors.
`KAlone` is about a mission no person has touched and whose lineage has not gone
back (`WentBack`, the property's own exception). It says that the mission moves at
one place at a time (`KOne`); that of the rows that wait, the last updated one
(`Foremost`) is the one a timer is set on (`KTimers`), a running row continues
(`KLive`) and the sweep would choose; and that this row or one it continues carries
a text with at least the retries charged, or the row was passed over (`Backed`, in
`KCount`). A crash, which may come at any step, leaves that text. The hard cases are
the ends of a process: `Exit` writes one notice without a count over every row that
ran or was parked, so the row that comes first afterwards is backed only by what it
continues (`LeftIsBacked`), and `Boot` parks a row that ran, which must not be
resumed beside the row it continued (`KPaused`, `RanIsParked`). `KSweep` says what
the ninety seconds before the sweep may hold: rows that this process armed, or
nothing that moves.

`KAppointed` is `Appointed`, with timers that resume a parked row not counted, and
also for a row this process armed before its sweep ran; the only steps that take a
timer away and set nothing in its place are `Drops`, and each has its reason. Both
rest on `KBase`: the rows are a tree that grows at its end, texts and timers fit the
status, memory is empty while the process is down. Actions are first reduced to what
they do to one row (`Ends`, `Sets`, `Begins`, `Retires`, `Handed`), so that each part
is shown for these moves and not for every handler. `Ancestors` is a recursive
function of `parent`; that it exists is shown from closures (`ClosureStep`,
`AboveStep`) and what is said of every ancestor from a least row (`LeastNat`),
without induction.

### Campaign

None of the three properties is inductive. `OneSprint` needs to know which row a
handler is about to submit beside, and which blocked or paused row the executor may
still carry on; `Attended` needs to know that what is under way is about the current
sprint; `StopHolds` needs to know that a stop is still on record when the copy that
was read before it is saved. The invariant is said of a world (the stored campaign,
the rows, what is pending):

- `Typed`: types; rows are numbered as they came, and the line of an ancestor is a
  part of its descendant's (`Lineages`); a copy knows rows that are there (`Known`);
- `Core`: the only row that is live, or that the executor may carry on, is the tip of
  the current sprint's line, and no row of the line comes after a completed one
  (`OneTip`); only one worker decides about an attempt (`Orderly`); a look after a
  grace is never at a sprint to come (`Looked`);
- `Agreed`: a decision is held over what is stored (`Matches`), a judgement over a
  completed tip; after an advance there is one submission to come, from a worker or a
  timer, and until then no row of the next sprint;
- `Kept`: an executing campaign is pursued by a decision, a timer, a relevant item of
  the chain or a live row of its line; a recorded stop has an item in the chain that
  will be found to be about it; an appointment has its timer, or a worker that sets it;
- `Silent`: from a person's stop on, the campaign is marked to stop, cancelled, or
  failed on a lineage a person stopped. That is what `barred` becomes, and in a silent
  world nothing is submitted (`Submitless`).

`IInv` is `Typed`, and, until `raced`, the other four. The argument follows the model:
handlers are written as the worlds they may leave, so each building block (`Saves`,
`RetiresTip`, `Parks`, `Launches`, `SubmitsSprint`, `GivesUp`, `Overruns`, ...) has
lemmas that say which parts it keeps: those about one block are in
`CampaignWorlds_proofs`, the handlers and the theorems in `Campaign_proofs`. Two
observations carry most of it. A copy of the
present generation finds the campaign `Free`, once its worker rests: nobody else
decides or is about to submit, so what it saves and submits is the next attempt
(`SubmitSound`, `SprintFailsSane`). A copy of an older generation saves nothing, so the
world only `Drifts`: rows are retired, revivals appointed, and both keep every part
(`StepDrifts`). A retired row can be the one that pursued the campaign: then its end was
heard as it was retired, and the chain has an item instead (`DriftSane`). A death of
the process takes the chain and the timers away and leaves nobody deciding
(`DiedSane`), so the resumption is a worker alone. Each action then has one lemma,
`...Holds`, and the four theorems follow from `CampSteps`.

The proof changed the model in two places. `CASE` arms that overlap are an unspecified
choice, where TLC takes the first: those of `Overruns`, `Reconciles`, `AppointmentDue`
and `Resumes` are in the order of the code's returns. And the submission after an
advance can come in a later generation although the advance was saved, when the campaign
is cancelled and revived before its timer rings; the invariant does not survive that, so
`raced` covers it and not only the advance whose save was refused.

### Only model-checked

- Liveness (`ForegroundServed`, `ExecutingEnds`), as the provers have no ENABLED.
- `StartsMatchLoop`: the code's loop is recursive over the queue.
- `ServicesTyped` as a whole, which chooses among the type invariants of nine modules
  in one behaviour; each of them is proved for its own specification.
- Three properties of `MissionKeepAlive` the code breaks (`StopRespected`,
  `EscalationStands`, `DeliveredStaysDone`): they are findings, not theorems.

## 10. Plan

Every invariant and action property of the passing runs is proved but the two of
"Only model-checked". Proofs that would add to them: that `Campaign`, once `raced`, still
keeps what its generations protect.

Modules that remain: a campaign's draft, plan and scope gate; the message router's bursts;
goal roots (`autoResumeBlockedGoal`, `decideAutoResume`) on top of
`MissionKeepAlive`; the rollback of tool chains; assets and their `.meta` in a
lease, change review; cancel-token trees and the bounded event sink; the gateway
supervisor; delegated budgets on top of `UnifiedBudget`.
