# TaskLattice Relay: a verification development

TLA+ models of the parts of TaskLattice Relay in which several processes share
rows of one PostgreSQL database, the TLC runs that check them on small
instances, and TLAPS proofs of what matters most for every instance.

Paths below are relative to the repository root; `server/` stands for
`apps/control/server/`.

## 1. The system

TaskLattice Relay is a control plane for AI agents. Everything belongs to a
*Project*; a Project has a namespace in a Kubernetes cluster, a team and a budget
at the LiteLLM model gateway, Agents, Instances, Memories, documents and Works.

Processes and what they share:

```
 browser ──HTTP/WS──> Control API (n replicas) ──┐
                                                 ├── PostgreSQL (rows, pg-boss jobs)
 Work worker (poll loop, n replicas) ────────────┤
 Control Worker (pg-boss consumers, n replicas) ─┘
        │                    │
        │ one request        │ HTTP
        v                    v
   LiteLLM gateway      OpenShell Runner, Kubernetes, Hindsight, MCP servers
```

There is no message passing between the processes of the control plane: they
interact through rows, row locks (`SELECT ... FOR UPDATE`), conditional updates
(`updateMany ... WHERE status = ...`), leases (an owner and an expiry in a row)
and jobs. What is hard is therefore what happens between two transactions.

### Components

| component | state it keeps | operations | correct when |
|---|---|---|---|
| **Work** `server/works/work-service.ts`, `work-domain.ts` | `works` (state JSON, revision), `work_messages`, `work_events` | create; message, members, bind, plan, execute, cancel, resolve_unknown, verify, deliver, view | the board says what the runs do; only authorized calls are made; done is final; a command is applied once |
| **Work worker** `work-worker.ts`, `work-runtime.ts` | `work_runs` (status, fence, lease), process locals | claim, guard, reserve and send, finish, fail, expire | a run ends once; what is recorded about sending is true; plans take effect in turn |
| **Runtime target** `server/projects/project-runtime-target-service.ts`, `project-runtime-status.ts` | `project_runtime_targets` (status, generation, lease) | reconcile, retry, reinitialize, delete | one holder works on a namespace; ready means this generation; deletion wins |
| **Resource operations** `projects/resource-operation-service.ts`, `workers/resource-operation-task.ts` | `resource_operations`, the target's lease, A2A tombstones | enqueue, run, cancel by deletion | what was deleted is not recreated; a completed operation held the lease |
| **Project deletion** `project-deletion-service.ts` | `projects.deletedAt`, deletion task | request, purge | every external resource is removed, the namespace last |
| **Control jobs** `server/jobs`, `server/workers` | pg-boss queues, dead letters | enqueue with singleton keys, retry, maintenance | no lifecycle change is left without a job |
| **Instances** `server/instances` | `agents` (payload with status and key), lifecycle operations | create, provision, destroy, refresh, policies | one usable key at a time; a deleted Instance has no Sandbox; none is left in provisioning |
| **Agent Garden** `server/agent-garden` | catalog Agents, managed A2A instances, their workloads | onboard, discover, instantiate, remove | what was deleted stays away, what was asked for later survives |
| **Memories** `server/memories` | memories, bindings, an encrypted outbox | bind, append, curate, delete; outbox claim, deliver, retry, replay | an accepted conversation is delivered or dead-lettered; status tells whether the provider works |
| **Quotas, departments** `server/quotas`, `server/departments` | budgets, limits, gateway team | update, count, sync | children fit in the department; the gateway has the latest budget |
| **Catalog, providers, routings** `server/catalog`, `providers`, `model-routings` | documents, provider credentials, routes | CRUD, ingestion, compensated registration | external and stored state agree after a failure |
| **Expert Agents** `server/expert-agents` | drafts, immutable versions | edit, validate, publish | a published version is valid and never changes |
| **Personal onboarding** `personal-onboarding-service.ts` | one lease row per Project | step through setup | each step once |
| **Auth, authorization, policies, audit** | sessions, grants, log | stateless checks | out of scope here |
| **Kubernetes, bridge, terminal, proxies** | none of their own | I/O | out of scope here |
| **Runner** `apps/runner` | what it last knew of each Sandbox, in memory | GET, POST, DELETE a Sandbox; provision in the background | what it reports is what there is |
| **Expert runtime** `apps/expert-agent-runtime` | its Sandbox | serve the control plane | out of scope here |
| **Console** `apps/control/src` | pending keys, the snapshot shown | polls, sends, sends again | what a person asks for once happens once, in the order asked |

`PROJECT.json` lists all of them with their status, and under `hazards` each
place where something can go wrong that a test would hardly reach.


## 2. Plan

The order follows what would hurt most: money and published work first, then
the runtime every Agent depends on, then what people lose without noticing.

| # | modules | subject | state |
|---|---|---|---|
| 1 | `WorkRuns`, `WorkAuthorization`, `MCWorkRuns`, `WorkRunsProofs`, `WorkResultsProofs` | Work commands, board and runs; the abstract promise they implement | done |
| 2 | `RuntimeTarget`, `MCRuntimeTarget`, `RuntimeTargetProofs` | lease of the Project runtime, shared by reconciliation, resource operations and purge, over pg-boss | done |
| 3 | `MemoryLifecycle`, `MCMemoryLifecycle`, `MemoryLifecycleProofs` | status changes without a lock, bindings and deletions under one, the bank at the provider, Project cleanup | done |
| 4 | `InstanceLifecycle`, `SandboxRunner`, `MCInstanceLifecycle`, `InstanceLifecycleProofs` | whole-row writes around calls of LiteLLM and the Runner, jobs attached by maintenance | done |
| 5 | `A2aTombstones`, `MCA2aTombstones`, `A2aTombstonesProofs` | which creations a removal cancels, the fence, saves under the Project lock; gives `CancelSome` of `RuntimeTarget` its content | done |
| 6 | `WorkLog`, `MCWorkLog`, `WorkLogProofs` | revision and key of commands, with pages that resend | done |
| 7 | `MemoryOutbox`, `MCMemoryOutbox`, `MemoryOutboxProofs` | outbox claims without a token, retries, replays and dead letters, beside redaction and deletion of what they deliver | done |
| 8 | proofs of every safety property the runs check | in the modules named `...Proofs` | done |
| 9 | `Quotas`, `Ingestion`, `Compensation` | check-then-create, document retries, failed registrations | if a run can be spared |

Composition: `RuntimeTarget` composes the three handlers of one Project with
the queue; `A2aTombstones` says what it leaves open, over the same lease.
`InstanceLifecycle` extends `SandboxRunner` and composes requests, worker, maintenance,
LiteLLM and the Runner around one row. `WorkRuns` composes commands, workers and
time; `WorkLog` is the layer in front of every command and shares no state with it but
the revision. `MemoryLifecycle` composes Instance creation, the Memory
service, the drain and the Project's cleanup over one Memory; `MemoryOutbox` has the rows the
drain delivers, and shares with it only that a drain may run at any time.

Abstract specification: `WorkAuthorization` (a grant is one request at most,
and its end says truly whether it left).

Runs are kept to a dozen, and their properties to forty, so that each is one
question. What follows from another property is not checked again: an ended run stays
ended (from `KeepsPromise`), a running card is released (from `RunsSettle` and
`BoardMatchesRuns`). Statements of the documents that the code does not keep are
stated in the modules and told below under "Properties that fail", each with the
instance on which TLC refutes it.

Every invariant and every action property a run checks is a theorem as well, and so is the type
invariant of each component's module. What stays with TLC is liveness: `RunsSettle`, `InitializationAttended`,
`CleanupCompletes`, `DeletionHappens` (of `InstanceLifecycle` and of `A2aTombstones`), `ProvisioningAttended`
and `EventsEnd`. The type invariants are in no run, since the theorems have them; the inductive invariants
of `InstanceLifecycle`, `A2aTombstones` and `MemoryOutbox` held in TLC on the instances below before they were
proved. Where a proof and a run say the same, the run is kept for its mutants: they show that the
property can fail when the code is wrong.

## 3. WorkRuns: commands, board and runs

A Work is a chat group. People authorize single model calls: a *plan* run lets
the coordinator Agent rewrite the task board, an *execute* run lets an expert
Agent draft one task. The Control API executes commands, any number of workers
execute runs, and both meet in `works` and `work_runs`.

**State.** `taskStatus`, `scope`, `reason`, `agents`, `members`, `callsUsed` and
`artifact` are the JSON state of the Work row; `latest` is the newest message.
`scope` is what `taskScopeHash` hashes (dependencies, owner, source message), kept
as a record instead of its SHA-256; `context` is what `contextHash` covers. `input`
(with `given`, the drafts of `dependencyArtifacts` that the expert is to read, by the run that wrote them),
`runStatus`, `fence`, `lease` are the columns of a run row; `reserved` says which
runs have a `tool:<run>:<fence>` event. `pc`, `heldFence`, `invoked` are the locals of
the worker in `process()`. `called` counts requests that reached the gateway: it is
what nobody in the system can see, and what the properties are about.
`cancelling` is an open cancel transaction.

**Actions.** One per database transaction, or per step of a worker between two:

| code | action |
|---|---|
| `command()`: message, members, bind, plan, execute, resolve_unknown, verify, deliver | `Message` `Members` `Bind` `Plan` `Execute` `ResolveUnknown` `Verify` `Deliver` |
| cancel: read the run, later write it | `CancelRead`, `CancelWrite` |
| `process()`: claim, read back, `guard(run, false)` | `Claim`, `Load`, `Enter` |
| `beforeTool` = `guard(run, true)`, then the request and its answer | `BeforeTool`, `Fetch`, `ModelAnswers` |
| `finish()` with `applyWorkPlan` or a draft | `FinishPlan`, `FinishExecute` |
| `fail()`, with and without the run | `Fail`, `DiscardLateResult` |
| `tick()`, `expire()` | `Expire`; time is `LeaseRunsOut` |
| process death, or `fail()` without a database | `WorkerCrash` |

Almost every transaction locks the Work row first, so it is one atomic action.
Two are not: `claim` is one `UPDATE ... WHERE status = 'queued'` without that lock,
and `cancel` reads the run row and writes it later in its transaction, so a claim
fits between the two (PostgreSQL at READ COMMITTED). Commits whose
acknowledgement is lost are separate outcomes in `BeforeTool` and `Succeed`.

**Abstractions.** Texts, titles, acceptance criteria and `replaces` are left out;
of the explanation of a status only its kind is kept (`reason`), since it is part
of the context hash. Caps of 200 tasks and artifacts, the stored view
preference, the revision and idempotency check (in `WorkLog`) and the issuing of
gateway keys are left out. The approval of fifteen minutes is one of the reasons
for `Throws`. A plan may give a card any status in `PlanStatuses`, any owner and any
dependencies; `Applicable` is `applyWorkPlan`'s checks.

**Runs.**

| run | instance | shows |
|---|---|---|
| `board` | planned board, 2 tasks, 2 Agents, 2 runs, 2 calls | all safety properties of board, runs and drafts, `UpstreamHolds` (what an expert was given to read of the tasks upstream stays what they have delivered) and the refinement `KeepsPromise` |
| `create` | a Work just created, 1 task, 2 people, 2 messages, 2 runs | `PlansInTurn`: once a later plan is authorized, the answer of an earlier one (cancelled, expired or reviewed while its worker waited) is not applied, and no card goes back to an earlier message |
| `settle` | 1 task, 2 Agents, 2 runs, 1 call left, fair poll loop | `CallsWithinBudget` while two authorized runs race for the last call; `RunsSettle` |

**Bounds.** Two tasks are enough for a dependency, a cycle and an upstream
change; two runs for one that is cancelled and one authorized in its place,
which is what every race here is about (three would add a second
replacement of the same kind). `board` and `settle` start
from a board on which an earlier plan already put the cards
(`PlannedBoard` ranges over all scopes that plan can have given), so that both runs
may be spent on them; `create` starts from `create()` itself. Symmetry is over task ids
and instances, which are only compared; `settle` uses none.

**Fairness.** `Claim` and `Expire` are fair because every worker's poll loop fires each
second, `process()` awaits nothing for longer than its fetch timeout, and a dead
worker is restarted or another replica polls. `LeaseRunsOut` is time.
`CancelWrite` is the transaction timeout of the client. *No* fairness is assumed of the
worker that holds a run: it may die or hang at any step, and the run settles all
the same. What this leaves out is the flag `busy` (`work-worker.ts:347`): one process skips its
ticks while its runs last, so that in an installation with a single worker a claim or an expiry waits for
them; the fairness takes for granted that they end.

**Properties that fail.** (1) `fail()` sets the task of its run to `todo` unless it is
`done`: the worker of a run that was cancelled reopens a card that a plan
cancelled meanwhile, although `applyWorkPlan` refuses exactly that
(`work-domain.ts:49`: "已完成或已取消任务不可覆盖"). `CancelledIsFinal` states it and fails on the instance of
`board`: execute, claim, cancel (the card is to do again), a plan cancels the card, the worker of
the cancelled run fails and the card is to do.
(2) "A cancelled lease never starts inference" (`work-runtime.ts:94`): the request
leaves after the transaction that reserved it, so a cancel may commit between
(`CancelledNeverStartsInference`, stated in the module, fails on the instance of
`board`; it is not a run of its own). What does hold, and is proved, is `ClosedMeansNotSent`: such a run is
recorded as unknown, never as stopped.

**Proofs** (`WorkRunsProofs`, from `WorkAssumption` alone, for any number of tasks,
instances, users, runs and messages).

- `TypeCorrect`. Plans needs `TaskOfRun` (a run of a task names a task), because
  `GiveBack` and `FinishExecute` index the board with `input[r].task`.
- `NeverTwoUnresolved`. `RunsAdvance` summarises what a step may do to the runs: at
  most one row changes, a row leaves "none" only through `MayDispatch`, and no
  row goes from resolved back to unresolved. From that the invariant follows without
  looking at the actions again.
- `BoardIsRight`. Not inductive alone: a cancel writes what follows from the
  status it *read*. `CancelSound` says that the run being cancelled is still
  queued or running when it is written, because everybody who ends a run
  needs the lock the cancel holds. `SingleUnresolved` is needed to know that giving a
  card back leaves no other run of it behind.
- `DoneStays`, from `BoardIsRight`: an expiry or a result touches only running cards,
  a cancel only the card of a run that is queued or running.
- `ClosedRunsWereNotSent` and `BudgetHolds`, from `SendTracked`: where a worker may
  be depending on `reserved`, `invoked` and `called`.
- `AuthorizedScopeIsExecuted`, from `BoardIsRight` and `DraftsSucceeded` (only a
  run that succeeded has a draft).

`WorkResultsProofs` goes on from that invariant:

- `PlansTakeTurns`, from `InTurn`: runs are numbered as they are authorized, of two plans the earlier one is
  decided (`TurnStep`: `MayDispatch` looks at every run that may still answer), and no card is newer than the
  newest message (`SourceStep`). A run succeeds by `FinishPlan` or `FinishExecute` alone (`SuccessStep`), which
  want it running, so the earlier of two plans does not.
- `DoneRestsOnDone`. Not inductive alone, because a delivery makes a card done whatever
  happened to its dependencies since the draft was written: `DraftsRestOnDone` says that the dependencies a draft
  was written for are done, and `DoneStays` that they remain so.
- `DeliveredIsDone`, with `VersionsApart`: no two drafts of a task have one version, and none is above their
  number, so that the next version is the highest. An execution adds a draft only to a running card, which has
  none delivered; a delivery takes the newest, for the scope the task has, of a task that is not done.
- `UpstreamIsDelivered`. `ReadsDone`: what a run under way or a draft rests on is done, for its task is running
  with the scope that was authorized (`BoardIsRight`, `AuthorizedScopeIsExecuted`, `DoneRestsOnDone`) or the draft
  rests on done tasks. `DoneKeepsDrafts`: a done task gets no draft and no delivery, so what was read of it at the
  authorization (`GivenAtFirst`: its delivered, newest draft) stays so (`GivenStays`).
- `RefinesPromise`: `WorkRuns` implements `WorkAuthorization` under the mapping of `KeepsPromise` (the answer to a
  grant is read off its run's status, and whether its credit is held or spent off the worker's place and `called`). One lemma per kind of step says which step of the promise it is: `GrantStep` (a subject is granted only
  while no earlier grant of it is open or unknown, by `SingleUnresolved`), `EndStep` (void only where nothing was
  sent, by `ClosedMeansNotSent` and `SendTracked`); `AnswerWasSent` (a worker that waits for the model has
  sent) is the part no earlier theorem needed. All other steps stutter.

Only model-checked: `RunsSettle`.

## 4. RuntimeTarget: one lease, three kinds of job

Every Project has one row that describes its namespace: a desired generation, an
observed one, a status and a lease. Reconciliation and Agent Garden resource
operations take the lease; the purge of a deleted Project waits until nobody
has it. All three are pg-boss jobs, exclusive by key and retried 25 times.

**State.** `deleted` is the Project's tombstone, `task` its deletion task; `status`,
`generation`, `observed`, `owner`, `lease` the target row; `opStatus` the resource
operations; `jobState`, `tries` the newest job per key; `namespace` what is in the cluster.
A *handler* is one delivery of one job, with its program counter and locals
(`job`, `gen`, `step`, `last`, `ok`). `projectLock` is the Project row lock across the
statements of `runResourceOperation`'s first transaction; other transactions that
take it are one action. `listed` is the list maintenance made and has not yet sent.

**Actions.** `Begin` to `Record` are `projectRuntimeReconcile` around
`ensureProjectNamespace`, statement by statement: the Project is read, the row
created, the lease claimed by a conditional update, the row checked before and
after each external step, observed, and on failure three separate statements
(status to retry, lease released, worker's own record). `OpBegin` to `OpFinally` are
`runResourceOperation`; `PurgeBegin` to `PurgeCatch` are `projectDeletion`, `purge` and
`deleteProjectNamespace`. `Schedule` is retry and reinitialize, `SyncTeam`, `Request`,
`Delete`, `List` and `Send` are the rest of the services and of maintenance. `Deliver`,
`CloseJob`, `ExpireJob` are pg-boss, external, as its options in
`control-job-queue.ts` ask for it. `Crash` ends a handler anywhere; its lease then
belongs to `Gone` and runs out.

**Abstractions.** Namespaces are taken as enabled; a mismatch of cluster or
namespace is a reason to throw. The handler's local `leaseLost` flag only makes it
give up earlier than the check of the row does, which `Throw` covers. Quota and
namespace are the two external steps; the steps after them repeat the same check
around other calls, and `Steps` is a constant of the proofs. Database statements may fail
(`Throw`, and the alternatives that change nothing in `Catch`, `Finally`,
`Record`, `OpMark`). The external deletions of the purge are one step. Which creations a
removal cancels is left open. `attachHistoricalDeletionJobs` is not modelled.

**Runs.**

| run | instance | shows |
|---|---|---|
| `lapse` | 2 handlers, no retries, 2 generations, jobs expire and leases lapse under live handlers; fair handlers, queue and maintenance | `ReadyIsCurrent`, `DeletingIsFinal` and `InitializationAttended` hold even then |
| `operations` | one creation with one retry, one removal, 2 handlers, one generation, from the creation of the Project on | one worker at a time, and a purged Project stays empty, while no live handler loses its lease; cancelled and ended operations stay so |

**Bounds.** Two handlers are enough for two deliveries of one job, a reconcile
and a purge, or an operation beside either; an interleaving of three would
need a third kind of holder. A retry limit of one separates a first, a later and a
last attempt; `lapse` makes the first attempt the last, as the 26th is in
production. `OneWorker` and `PurgedStaysGone` were also
checked with jobs that expire under live handlers, a retry of every job and two generations (without
operations), and are proved for all of them. `LeasesLapse` and `JobsExpire` are kept apart because they
are different accidents: the first is a process that could not write a heartbeat for ten
minutes, the second pg-boss redelivering a job whose handler lives.
`EndedOperationsStayEnded` is stated only for `~JobsExpire`: with
redelivery a second handler that read the operation as running can revive it
after the first has ended it, since `resource-operation-task.ts:33` checks under a lock
that completions do not take. `OneWorker` and `PurgedStaysGone` need `~LeasesLapse`: a
lease that lapses under a live worker lets the next one in, and only the worker's own checks
stop the first, between steps and not during them.

**Fairness** (`lapse`). Handlers run or die, pg-boss delivers and gives up on
jobs of the dead, leases of the dead run out, and maintenance lists and
sends every minute. Nothing is assumed of the external services: `Throw` is always
possible.

**Properties that fail.** (1) `OperationsAttended` (one handler, no retry): only its handler ends a
resource operation, so the crash of the last attempt leaves it pending or running
forever; maintenance does not look at operations and nothing consumes the dead letters, while
`docs/project-resource-lifecycle.md:66` says that the frontend follows it "to obtain completion or failure". (2) `GivenUpWasTried`, stated in the module and not a run of its own (it fails
with one handler, no retry and two generations): `ensureProjectNamespace` sets the row
to "retry" and gives up its lease before the worker's catch block runs; an administrator's
retry in between is accepted, its upsert adds no job beside the one still active, and
the catch block then marks the pending target failed without looking at the generation
(`control-worker-tasks.ts:187`), so the new request is never tried.

**Proofs** (`RuntimeTargetProofs`, from `TargetAssumption`, for any number of handlers,
operations, steps, retries and generations).

`IInv` is the conjunction of the type invariant and of what each holder of
a right knows: `LiveLease` (a live handler that owns the lease has it, unless
leases lapse), `WorkersHold` (who changes the runtime owns the lease),
`PurgeWanted` (no purge before the deletion), `PurgeAlone` (from the purge's first
look at the lease on, nobody works: a lease released after the deletion is not
taken again, because claims look at the generation or status that `Delete` changed),
`Erased`, `RowSeen` and `AbsentEmpty` (only a reconciliation that has seen a row creates a
namespace), `NamespaceMade` and `Observing` (what a reconciliation that got that far
has made), `LockHeld` (what an operation read stays true until its transaction ends)
and `ReadyIsCurrent`. TLC checked `IInv` on the instances of the runs before it was
proved.

The proof of the step has one lemma per conjunct. Effect lemmas (`OwnerEffect`,
`NamespaceEffect`, `TaskEffect`, ...) say which actions can change one variable and
how, and `Entered` says from which action a handler gets to a place, so that a
conjunct is proved from these and not from forty actions each time. From `IInv`:
`AtMostOneWorker`, `PurgedIsEmpty`, `ReadyMeansCurrent`; `CancelledIsFinal` needs `LockHeld`;
`DeletingStaysFinal` needs no invariant, because every statement that writes the
status has a condition that excludes "deleting". `EndedIsFinal` (an operation that ended stays ended) adds
two facts to `IInv`: unless jobs expire, a job has one live handler (`OneHandler`), so a handler that has locked the Project and is about to
claim still finds its operation wanted (`ClaimWanted`): nobody else writes it, and a cancel needs the lock. All
other statements ask for a status that has not ended. Only model-checked: `InitializationAttended`.

## 5. MemoryLifecycle: transitions without a lock, decisions under one

A Durable Memory is a row with a status and the provider's reference, the bank
that reference names, and at most one active binding to an Agent Instance. Its
status is moved by people (attach, detach, retry, delete), by the creation of an
Instance and by what it undoes when it fails, by reads that find the provider
dead or alive again, by the drain of the outbox and by the cleanup of a deleted
Project.

**State.** `status`, `ref` are columns of the row ("absent" before it exists); `bank`
says whether the bank is at the provider; `bound` is the Instance of the active
primary binding (a unique index allows one), `binder` the request whose own row it
is, since only that row is deleted by `rollbackBinding`; `agents` are the Instances
with a row, `created` the one the creation key names; `lock` is the Memory's advisory
lock; `deleted` the Project's tombstone. A *process* is one run of one service
method: `pc` its next statement or call, `op` the method, `inst` the Instance
it is about, `seen` the status it read and still uses, `move` the transition it is making and
where it goes on when that succeeds or throws.

**Actions.** One per statement, or transaction that locks, or call of the provider:

| code | actions |
|---|---|
| `transitionMemory()` | `MoveRead`, `MoveWrite`; a caller gets there by `Transition` |
| `provision()` | `Upsert`, `Provision`, `Degrade` |
| `resolveForAgent()`, `bindToAgent()`, `attachExisting()` | `Adopt`, `Resolve`; `Check`; `Attach` |
| `bindPrimary()` | `BindRead`, `BindWrite`, under the lock |
| `InstanceService.create()` around them | `Save`, `Queue`, `Undo`, `Forget` |
| `rollbackBinding()`, `rollbackAgentPreparation()` | `Unprepare`, `Undo` |
| `detachFromAgent()`, `detachBinding()` | `Detach`, `Unbind`, then the reads |
| `retryProvisioning()` | `Retry`, `CheckHealth`, `CountBound`, `CreateBank`, then the reads |
| `delete()`, `startDeletion()` | `DeleteRead`, `DeletionRead`, `DeletionWrite`, `Erase`, `FailDeletion` |
| `deleteForProjectCleanup()` | `Clean`, `CleanRow`, `CleanRetried` around detach, retry and delete |
| `recall()`, `contentCountsOrNull()`, `processDueOutbox()` | `Ask`, `Observe`, `Touch`, `Recover`, `Recheck`, `Degrade` |

`transitionMemory` is a transaction, but at READ COMMITTED and without a lock its read
and its update by id are two steps, and that is what the module is about. `Fails` is an error
thrown anywhere, after which `Handler` says which `catch` gets it; the provider may
have done what it did not confirm. `Crash` ends a process anywhere. Two CHECKs
of the table are in `Writable`: a deleted row accepts no other status. The foreign key
of bindings is why a failed `rollbackBinding` leaves the Agent row alone (`Handler`).

**Abstractions.** One Memory and one creation key; a drain delivers one event, whose
row is left to `MemoryOutbox`; names, policies, curation events and errors' texts are
left out. A binding request repeated with its key, and `POST /memories` (provisioning
without an Agent), are not modelled.

**Runs.**

| run | instance | shows |
|---|---|---|
| `mem_creation` | 2 processes, 2 Instances, every method but cleanup | `DecisionsSerialized`, `UsableHasRef`, `BoundAgentExists` |
| `mem_cleanup` | 2 processes, fair, one late drain or failure | `CleanupCompletes` |

**Bounds.** Two processes at a time are enough for one that read and one that decides in
between; each ends and another begins, so histories of any length are explored. Nobody
attaches an Instance whose creation is under way (the console offers it
only when it is accepted), and one cleanup runs at a time (an exclusive queue). `Late` bounds
the drains and failures after the Project was deleted: the job is tried 26 times, so it
outlasts that many and no more.

**Fairness** (`mem_cleanup`). A call that runs goes on to its next statement (or fails, or
its process dies), and the job of the deletion is started again until its Memories are
gone. Nothing is assumed of requests: after the deletion none starts.

**Properties that fail.** All three come from the same shape: a decision is read, a slow or
unlocked step follows, and the write does not look again. (1) `BoundBankExists` (two processes): the lock
protects the two decisions from each other, not the status they read; a
transition to "ready" that began before the deletion brings the Memory back, and it is bound while
its bank is erased. (2) `CleanupLeavesNoBank` (two processes, one late failure): a retry's call of the
provider creates the bank after the cleanup verified its absence, and nothing names it any more;
`docs/durable-memory-implementation.md:289` says otherwise. (3) `BoundIsNotUnbound`,
stated in the module and not a run of its own (it fails with two processes, three Instances of
which two exist, and the methods create, attach and detach): `detachFromAgent` writes
"unbound" in a transaction of its own, after the next Agent was attached.

**Proofs** (`MemoryLifecycleProofs`, from `MemoryAssumption`, for any number of processes,
Instances and late failures).

- `TypeCorrect`, with `PlaceInv`: a process is only at places of the method it runs,
  and one that names an Instance has one. It is needed for the type itself, since
  `Save` and `Detach` use `inst`.
- `DecisionsAreSerialized`, from `LockInv` (`LockHeld`): who is between the read and the write of
  a decision has the lock, what it read still holds, and no transition or error leads
  there or to "deleting". That no transition targets "deleting" is what makes
  it true in spite of (1).
- `UsableMemoriesHaveRefs`, from `RefInv`: from the provider's answer on, a process either
  carries the reference in its transition or acts on a row that has it (or is deleted),
  also where its errors are handled.
- `BoundAgentsExist`, from `AgentInv`: while a request creates an Instance no other process binds it,
  its own binding is the only one that can name it, and it is gone
  before the row is.

Only model-checked: `CleanupCompletes`.

## 6. InstanceLifecycle and SandboxRunner: old rows written back

An Instance is a row whose JSON payload holds its status and the id of its virtual key
at LiteLLM. Everybody who changes it reads the whole payload, talks to LiteLLM, the
Runner or pg-boss, and writes the whole payload back. `SandboxRunner` is the
other side: POST starts a background task that outlives its request, and GET and DELETE
write what the Runner remembers after awaiting OpenShell.

**State.** `exists`, `removed`, `row` are the row; `keys` the keys at LiteLLM (absent,
live or deleted: a key that was made and whose answer was lost is live and
recorded nowhere); `job`, `tries` the two singleton jobs; `pc`, `seen` the step and the
payload of each *caller*: the creating request, the worker, and the requests. In
`SandboxRunner`: `sandbox`, `provider` in OpenShell, `local`, `active`, `task` in the
Runner's memory, `removal` a DELETE under way. `accepted`, `undone` and `untracked` are
history.

**Actions.**

| code | actions |
|---|---|
| `create()` | `CreateSave`, `CreateEnqueue`, `CreateAttach`, `CreateForget` |
| `provision()` in the worker | `Read` to `Note`, and `UndoKey`, `UndoRow`, `FailRead`, `FailSave` on failure |
| `deleteRuntime()` in the worker | `DeleteRead`, `DeleteSandbox`, `SandboxDeleted`, `Block`, `Complete`; `RetryRead`, `RetrySave` on failure |
| `destroy()` | `Destroying`, `Mark`, `SoftDelete`, `DestroyEnqueue`, `DestroyReread`, `DestroyRecord`; `Restore`, `Unmark` |
| `refresh()` | `Look`, `LookAtSandbox`, `RememberLook`, `SaveLook` |
| `updateAccessPolicies()` | `Permit`, `PermitKey`, `SavePolicies` |
| `attachInstanceLifecycleJobs` | `Attach` |
| Runner: POST and its task, GET, DELETE, restart | `Post`, `Task...`, `Get`, `Remember`, `Delete`, `Deleted`, `DeleteFails`, `Restart` |

`Fails` is a statement or call that throws, `AnswerLost` one that was carried out all the same, `Crash`
the end of a process; OpenShell's own failures are `Breaks` and `TimesOut`.

**Runs.** `instance_races` (two requests of any kind beside creation, worker and maintenance,
two events): `OneLiveKey`, `NoKeyBesideRuntime`, `DeletionIsComplete`. `instance_live` (one
deletion request, two events, fair): `DeletionHappens`, `ProvisioningAttended`. Two requests
are one that read early and one that decides in between. An event is a request or a
fault, so two of them are a request with a fault, two requests or two faults.
A provisioning job is retried once (or never, in
`instance_live`, so that the first attempt is the last); the deletion's retries outlast the events, as
26 attempts outlast most outages. Three keys are one more than two attempts can have at a time.

**Fairness** (`instance_live`). Calls under way go on or fail, the worker takes jobs, maintenance
scans every minute, OpenShell starts what it was asked to start. Faults are bounded: for ever failing
calls nothing of this holds, and the code promises nothing.

**What does not hold**, and why the properties have their exceptions. (1) The payload of a policy
update or of `create()`'s last save may be older than the worker's: it then wipes the recorded key
(which stays usable after the deletion, although `docs/control-worker.md:28` says that "Normal Instance
deletion blocks its LiteLLM Virtual Key"), takes READY back to PROVISIONING, or wipes
`deletionCompletedAt`; hence "recorded key" in `DeletionIsComplete`. (2) A deletion whose enqueue is refused
puts the row back with the payload it read: `undone`. (3) A GET that began before a POST and ends after it, and a
DELETE beside a running task, make the Runner forget the task (`apps/runner/src/index.ts:545`,
`:626`): `untracked`. (4) A process that dies between marking the row and its soft deletion leaves a live
row in DESTROYING; maintenance attaches no job to it.

**Proofs** (`InstanceLifecycleProofs`, from `RunnerAssumption` and `LifecycleAssumption`, for any number of
requests, keys, retries and faults): `TypeCorrect`, `AtMostOneKey`, `CompletionLeavesNothing`, and the action property
`KeysFollowRemoval`. None of the three statements is inductive; `IInv` adds to the types and to where each
caller can be (`PlaceInv`):

- `TrackInv`: unless the Runner lost track, it has one task at most, `active` says whether there is one, no task runs
  beside a DELETE, and where the worker counts on it (`Calm`: from the first revocation to the start of
  a Sandbox, and from the block to the end of a deletion) there is neither Sandbox nor task. This is why a DELETE whose answer
  Control waits for is enough, and what `untracked` must except.
- `KeyInv`: one key is live at most, and none is when the worker is about to make one: `Recover` refuses to
  go on with two keys of the alias and takes away the only one, also one whose answer was lost.
- `NewInv` (nothing happens before the row is there) and `RemovedInv` (a deletion is under way only of a row that
  is removed, unless one was undone), so that nobody records the completion of a row that is still live.
- `DoneInv`: the row *and every copy of it a call holds* is right where it says the deletion is complete: the row
  is removed, nothing runs, its key is not usable and the worker starts nothing (`Away`). The copies are what
  makes it inductive, since all writes are of whole payloads; `DoneKept` says once that a step which
  only copies payloads keeps it, and that a copy may lose its key but not get another.

The steps are grouped by what they leave alone: `MildStep` for those of the worker that neither call the Runner nor make
a key, `CallStep` for those that do, `FramedCall` for those of requests and creation, `RunnerMoves` for the Runner's
own. For `KeysFollowRemoval`, `OnlyKeying` adds that no step away from "keying" makes a key usable.
Only model-checked: `DeletionHappens`, `ProvisioningAttended`.

**Not modelled**: the lifecycle operation rows, the legacy routing binding, attributions, the content of
policies, an expired job whose handler is still alive, the atomic cleanup of a provisioning task
inside OpenShell.

## 7. A2aTombstones: what was deleted stays away

A registered container Agent has a catalog row and Instances, each with a Service and a
Deployment. Creations (onboard, discover, instantiate) and removals (of the Agent, of an Instance) are
resource operations: accepted in one transaction, run by the worker under the Project's lease,
retried. Accepting a removal marks rows deleted, cancels the creations it overtakes and queues the cleanup.

**State.** `agent`, `callable`, `configured` are the catalog row; `row`, `ready`, `completed` the Instances, each
named after the operation that first made it; `workload` what the cluster has; `status`, `action`,
`target`, `job`, `tries` the operations; `owner` the lease; `pc`, `inst`, `todo`, `found` the handler's locals.
`legacy` are operations queued before deletions left tombstones (they carry no fence version), `known` the
deletions an operation was accepted after.

**Actions.** `Create` and `Remove` are `enqueue()` with `prepareA2aDeletion`; `Deliver` is the handler up to its
claim, one transaction under the Project lock; `InstantiateStep`, `DiscoverStep`, `OnboardStep`
(Service, Deployment, pinning by digest, each after a look whether the operation is still wanted), `RemovalStep` and
`EndStep` are the handlers, one step per statement or call of the cluster; `Fails`, `Crash` and
`Lapse` the faults. The lease is that of `RuntimeTarget` without renewal: it lapses only when its
holder is dead; leases that lapse under live handlers are the subject of `lapse`.

**Run.** `tombstones`: three operations, one of them the onboarding, two retries, one fault, with
fair handlers, worker and lease. Three operations are a creation, the removal that overtakes it
and the replacement requested afterwards, in every order and of every kind. The safety properties were also
checked with four operations and with two faults. `DeletionIsComplete`, `WorkloadIsOwned`,
`DeletedAgentIsEmpty`, `OneInstance`, `ReplacementSurvives`, `DeletionHappens`.

**Exceptions.** A removal that has to wait for the lease spends a retry, so a cleanup can be given up
without ever having run; it then says "failed" (`WorkloadIsOwned`, `GivenUp`), as
`docs/project-resource-lifecycle.md` has it: "Cleanup failures remain queryable".

**Proofs** (`A2aTombstonesProofs`, from the assumptions of the module, for any number of operations, retries and
faults): `TypeCorrect`, `CompletionIsFinal`, `NothingOrphaned`, `DeletedStaysEmpty`, `AtMostOne`, and the action property
`ReplacementStays`. `IInv` has, besides the types and the statements themselves (`InstanceInv`), what each
handler knows at its place (`HandlerOK`):

- `Placed`: a handler holds the lease, so there is one at a time, and it is where its action is. All that follows is about one
  handler and the requests that come beside it.
- `Stale`: after the Agent is deleted no creation under way is wanted: the request that deletes it
  cancels those that run or wait, and one that is accepted afterwards is skipped when it is delivered.
- `Working`: a handler that is about to make an Instance live knows of no other; one that is about to apply a workload
  has an Instance that is owned and whose deletion is not complete; and a removal empties its Instance part by
  part, which is why a deletion is complete only when nothing is left.
- `Cleaning`: a removal leaves out no Instance it has to remove: each is complete, still to do, or in work. Without it a
  removal could end with a workload that nobody owns.

`ReplacementStays` needs only `RequestInv` beside that: whatever cancels an operation either deletes in the same step, or
has found a deletion the operation did not know of (`DeletionCameAfter`). Only model-checked: `DeletionHappens`.

**Not modelled**: deletion of the Project (in `RuntimeTarget`), a target that is not ready, built-in
presets and existing external Agents, job priorities, image digests beyond the pinning step.

## 8. WorkLog: commands sent again

Every command of a Work carries the revision its author saw and a key. `WorkLog` has the page's side
(`work-page.tsx`: `pendingCommand`, `pendingCreate`, the poll of three seconds) and the server's
(`command()`, `create()`, `snapshot()`).

**State.** `exists`, `log` are the Work (the revision is the number of its events); `request` the request
each page waits for, `strays` those it gave up and that may still arrive; `pending`, `drawn`,
`view`, `poll`, `created` the page. `given` is history: for each command a person gave, the keys it was sent
under.

**Actions.** `SubmitCreation`, `GiveCommand` (another action than the pending one), `Resend`, `TakeSuccess`,
`TakeError`, `LoseAnswer`, `Poll`, `Show`; `Upsert`, `Command` (one transaction under the row lock), `Snapshot`. A
creation with a plan is three transactions: upsert, the intent, the plan, the last two as
commands under keys derived from its own. What a command does to the board, and refuses, is `WorkRuns`; here
it may be refused for any reason.

**Run.** `worklog`: an owner who gives two commands and another person who gives one, any number of
resends, one lost request or answer. Two commands of one person are what an order needs, another
person is what a conflict needs. The events of workers are left out: appended under the same lock, they are to a
command what another person's are. `OncePerWish`, `GivenOrder`, `ToldIsDone`.

What makes `GivenOrder` hold is less the key than the revision: a command given up can only
come through while the revision is still what its page saw, so not behind a later one. The keys make a repeated
command a success and not a conflict. A page that is reloaded, or another action in between, loses the
pending key: the command given again is then a new wish.

**Proofs** (`WorkLogProofs`, from `WorkLogAssumption`, for any number of people, of keys a page draws and of
requests lost): all three properties and the types. The inductive invariant `IInv` adds to the types
that the keys of the log are distinct and those of one person in the order they were drawn (`LogInv`); that a
page shows no revision the log does not have, and that each command was sent under the one key drawn for it
(`PageInv`); and of every request under way (`Good`) that it expects no revision to come and, where a later
command of its author is in the log already, one from before that (`OutOfDate`). The last is what keeps a late
request from being appended behind its successor, and it is why the order needs the revision. `GoodStays` shows once
that a good request stays good while the log grows, so each action only shows the request it makes.

## 9. MemoryOutbox: what was removed does not come back

A conversation is queued in the outbox under a key, and drains append it to the bank at
Hindsight, where it becomes a document. People then redact, delete or re-extract the document. A redaction
erases it and appends the new text, directly or, when the provider does not answer, through the outbox too. So
an old text may be on its way in many places while people were told that it is gone.

**State.** `row` are the outbox rows, by key: key 0 of a conversation is the original, the others are those its edits
append under. `taken` are the keys the provider has accepted, `queued` those of them that its worker has not
written yet, `shown` the key of the document's text, `flying` the appends whose caller gave up and that may
still arrive, `late` the deletions of that kind. `text` says which redactions a key's text contains:
what a redaction appends is what it read, with its own. `drain` and `editor` are the locals of
`processDueOutbox` and of the governance methods, `replay` those of an administrator's replay. The rest
is history: redactions answered with success, conversations deleted, those a redaction erased and then
gave up or whose deletion was not answered, and those edited while another edit of them was under way.

**Actions.**

| code | actions |
|---|---|
| `enqueueConversation()` from the runtime | `Retain` |
| `claimDueOutbox()`: the search, the conditional update per row | `Find`, `Claim` |
| `processDueOutbox()`: append, mark | `Deliver`, `MarkDelivered`, `MarkFailed`; `Crash` |
| `next_retry_at` passes, a claim gets older than five minutes | `ComesDue` |
| `replayOutbox()`: the search, the update by id | `FindReplay`, `Replay` |
| `redactConversation()`, `deleteConversation()`, `reextractConversation()` | `Begin`, `Erase`, `NothingErased`, `AppendEdit`, `QueueEdit` |
| Hindsight's `retain` with `async: true` (`hindsight-memory-provider.ts:313`) | `Append`: accepted, in the queue; unanswered, `Unanswered` and later `Arrive` |
| Hindsight's worker, for which the live test waits (`hindsight-memory-provider.live.test.ts:93-99`) | `Apply` |
| a deletion that timed out | `NothingErased`, later `EraseLate` |

Nothing in a row says who claimed it: both marks are conditional on "processing" alone, and the
retry count written is the one the drain found. A drain that outlives its claim therefore ends the work of the one that
took over, and the model lets it.

**Abstractions.** The provider accepts an operation id once; its worker writes what was accepted in any order and
at any time, replacing the document, also after a deletion that came between. One Memory that has its bank; its status is in `MemoryLifecycle`. A batch of 25, derived items and
curation events are left out. Each governance request has a key of its own, as the console makes them
(`apps/control/src/lib/api.ts:744`).

**Run.** `outbox`: one conversation, two drains, two edits in turn, two attempts, and one event: a crash,
a lost or late append, a late deletion, a claim taken over, or a replay. Two drains are what a claim that is taken over needs, two
edits one that follows on another. `RemovedStaysRemoved`, `ConversationsAreKept`, `EventsEnd`. The two
safety properties and `IInv` were also checked with one drain, two requests at a time, three edits and two events
(`Interchangeable` as symmetry, 4.5 million states).

**Fairness.** Maintenance drains every minute and a drain goes on or dies; retries come due and claims grow old. Of
the provider and of people nothing is assumed.

What keeps removed text away is the key, not the row: an append of the old text that is repeated, late or replayed is one the
provider has accepted before. That the event is delivered twice does not show. And a document can only be edited once
its first append is written, so the queue of the provider then holds nothing but what edits put there.

**What does not hold**, and why the properties have their exceptions. (1) Two edits of a document at a time undo each
other: both read the old text, and the last append wins; so may a re-extraction whose request timed out. An edit lasts
until the provider has *written* its append, not until it has answered (`overlap`). `DeletedStaysAbsent` says of
deletions what `RemovedStaysRemoved` says, without that exception, and TLC refutes it on the instance of `outbox`: a
conversation is retained and shown; a re-extraction of it is answered with `acceptedAt` (`memory-service.ts:1103`) and waits in
the provider's queue; a deletion is verified absent and answered with success (`memory-service.ts:1057-1068`); then the provider
writes what it has accepted, and the deleted conversation is back. `reextractConversation()` keeps the operation id
and nothing waits for it. (2) A network error is "internal" and not retryable (`hindsight-memory-provider.ts:648`), so a redaction that has erased
the document gives up instead of queueing the new text, and the conversation is lost (`broken`); a process that dies
between the two does the same. (3) A dead letter may have been taken by the provider all the same. (4) A replay is decided on a row
read before and resets it by id, also when a drain has claimed or delivered it meanwhile, although
`memory-service.ts:1261` says "Only failed Memory outbox events can be replayed".

**Proofs** (`MemoryOutboxProofs`, from `OutboxAssumption`, for any number of conversations, drains, edits, attempts
and events): `TypeCorrect`, `Removal`, `Keeping`. (`OutboxAssumption` says of the model value `None` only that it is no
key.) The inductive invariant `IInv`:

- `DrainInv`, `EditorInv`: what a drain holds was queued and has tries left, and what it is about to mark delivered
  was taken; a request for an edit holds a key nobody else uses until it sends or queues it.
- `KeyInv`: a key in use was given out, what is shown was taken and is out of the queue, and nothing was edited before its
  first append was written; a deletion that may come late is accounted for in `broken`.
- `RemovalInv`: for every conversation of which no two edits overlapped, `OneEdit` (one request edits it, with the newest
  key), `Newest` (only the newest key is *live*: in the provider's queue, or not taken and in a row, in flight or in a
  request's hands),
  `Redacted` (what is shown *or live* contains every redaction that was answered) and `Deleted` (after a deletion
  nothing is shown or live). That a late append of an older key changes nothing is the heart of it: an
  edit that begins while something of another is under way counts as an overlap, so without one every older key is
  written or was never sent.
- `KeptInv`: a conversation is shown, queued at the provider, erased, or somebody still brings it, with a key that was
  not taken.

Only model-checked: `EventsEnd`.

## 10. What is out of the provers' reach

Liveness under fairness and ENABLED are checked by TLC only: the seven properties named in 2. What the
runs show holds for their instances; what the theorems show holds for every
value of the constants, and rests on the modules being faithful to the code, on
PostgreSQL's row and advisory locks and READ COMMITTED statements, and on pg-boss doing what its
options say.

## 11. What is not modelled

- Pure I/O and transport: HTTP routes, WebSockets, Helm, Kubernetes clients, the
  LiteLLM and Hindsight clients; they appear as steps that may fail.
- Stateless checks: authorization rules, validation of documents and plans.
- Reads that only feed the console; edits and curation of single Memory items.
- The Expert runtime, another program in another cluster, and the Runner's terminals and files.
- The components planned in 2 and not yet done; their hazards are listed in
  `PROJECT.json` with a note.

## 12. Running

```
tlc -workers 2 -config WorkRuns_board.cfg MCWorkRuns
tlapm WorkRunsProofs.tla
```

`PROJECT.json` has the list of runs with what each expects, the mutants (for each
property a plausible bug that the run then finds), the source lines each
definition translates, the hazards and the theorems.
