------------------------------ MODULE WorkRuns ------------------------------
(***************************************************************************)
(* A Work is a chat group in which people authorize single model calls:    *)
(* a coordinator run plans the task board, an expert run drafts one task.  *)
(* The Control API executes the commands (work-service.ts) and any number  *)
(* of Work workers execute the runs (work-worker.ts).  They share only the *)
(* database: the work row, which almost every transaction locks, and the   *)
(* run rows, which a worker claims WITHOUT that lock and then holds by a   *)
(* lease and a fence number.                                               *)
(*                                                                         *)
(* Every action is one database transaction, or one step a worker takes    *)
(* between two transactions.  Commands are modelled once they passed the   *)
(* revision and idempotency checks; those are the subject of WorkLog.      *)
(***************************************************************************)
EXTENDS Naturals, FiniteSets

CONSTANTS
    Tasks,         \* task ids a plan may use
    Instances,     \* Agent instances of the Project
    Users,         \* Project members
    Owner,         \* the user who created the Work
    PlanStatuses,  \* statuses the planning model may give to a card
    CallLimit,     \* modelCallLimit
    MaxRuns,       \* bound: runs ever authorized
    MaxMessages,   \* bound: human messages ever posted
    NoTask, NoInstance, NoRun, NoContext

Runs == 1 .. MaxRuns

ASSUME WorkAssumption ==
    /\ Owner \in Users
    /\ IsFiniteSet(Tasks)
    /\ PlanStatuses \subseteq {"todo", "decision", "deferred", "cancelled"}
    /\ CallLimit \in Nat /\ MaxRuns \in Nat /\ MaxMessages \in Nat
    /\ NoTask \notin Tasks /\ NoInstance \notin Instances /\ NoRun \notin Runs

VARIABLES
    taskStatus,  \* [Tasks -> status]: WorkState.tasks, "absent" when not there
    scope,       \* [Tasks -> what taskScopeHash hashes]
    reason,      \* [Tasks -> which kind of text explains the status]
    agents,      \* [Instances -> role in the Work]: WorkState.agents
    members,     \* WorkState.memberUserIds
    callsUsed,   \* WorkState.modelCallsUsed
    artifact,    \* [Runs -> the draft that run published]: WorkState.artifacts
    latest,      \* id of the newest human message, 0 before the first
    input,       \* [Runs -> the immutable part of the run row]
    context,     \* [Runs -> input.contextHash], kept while the run can finish
    runStatus, fence, lease, \* the mutable columns of the run row
    reserved,    \* runs with a "tool:<run>:<fence>" event
    called,      \* [Runs -> requests that reached the model gateway]
    pc,          \* [Runs -> where the worker that claimed the run is]
    heldFence,   \* [Runs -> run.fence as that worker read it]
    invoked,     \* [Runs -> its local flag of the same name]
    cancelling   \* the cancel transaction that holds the work lock, or NoRun

board == <<taskStatus, scope, reason, agents, members, callsUsed, artifact>>
rows  == <<input, context, runStatus, fence, lease, reserved>>
proc  == <<pc, heldFence, invoked>>
vars  == <<board, latest, rows, called, proc, cancelling>>

-----------------------------------------------------------------------------
(* Types *)

TaskStatus == {"absent", "todo", "running", "decision", "done", "deferred",
               "cancelled"}
RunStatus == {"none", "queued", "running", "cancel_requested", "succeeded",
              "stopped", "blocked", "outcome_unknown", "reviewed_unknown"}
Active == {"queued", "running", "cancel_requested"}
Unresolved == Active \cup {"outcome_unknown"}
Roles == {"none", "coordinator", "expert"}
Scope == [deps : SUBSET Tasks, owner : Instances \cup {NoInstance},
          src : 0 .. MaxMessages]
NoScope == [deps |-> {}, owner |-> NoInstance, src |-> 0]
Reasons == {"none", "planned", "queued", "draft", "delivered", "stopping",
            "failed", "expired"}
Context == [status : [Tasks -> TaskStatus], scope : [Tasks -> Scope],
            reason : [Tasks -> Reasons], agents : [Instances -> Roles]]
Input == [kind : {"none", "plan", "execute"}, task : Tasks \cup {NoTask},
          instance : Instances \cup {NoInstance}, by : Users,
          src : 0 .. MaxMessages, scope : Scope, given : SUBSET Runs]
NoInput == [kind |-> "none", task |-> NoTask, instance |-> NoInstance,
            by |-> Owner, src |-> 0, scope |-> NoScope, given |-> {}]
Artifact == [status : {"none", "draft", "verified", "delivered"},
             version : Nat, scope : Scope]
NoArtifact == [status |-> "none", version |-> 0, scope |-> NoScope]
Busy == {"claimed", "entering", "executing", "reserved", "calling",
         "returned", "failing"}
Cancel == [run : Runs, read : {"queued", "running"}]

TypeOK ==
    /\ taskStatus \in [Tasks -> TaskStatus]
    /\ scope \in [Tasks -> Scope]
    /\ reason \in [Tasks -> Reasons]
    /\ agents \in [Instances -> Roles]
    /\ members \in SUBSET Users
    /\ callsUsed \in Nat
    /\ artifact \in [Runs -> Artifact]
    /\ latest \in 0 .. MaxMessages
    /\ input \in [Runs -> Input]
    /\ context \in [Runs -> Context \cup {NoContext}]
    /\ runStatus \in [Runs -> RunStatus]
    /\ fence \in [Runs -> Nat]
    /\ lease \in [Runs -> {"none", "live", "expired"}]
    /\ reserved \in SUBSET Runs
    /\ called \in [Runs -> Nat]
    /\ pc \in [Runs -> {"idle", "ended"} \cup Busy]
    /\ heldFence \in [Runs -> Nat]
    /\ invoked \in [Runs -> BOOLEAN]
    /\ cancelling \in Cancel \cup {NoRun}

-----------------------------------------------------------------------------
(* create() stores a Work with its owner as the only member and no task; in *)
(* a personal Project the default coordinator and expert are bound already. *)
EmptyBoard ==
    /\ taskStatus = [t \in Tasks |-> "absent"]
    /\ scope = [t \in Tasks |-> NoScope]
    /\ reason = [t \in Tasks |-> "none"]
    /\ agents \in {a \in [Instances -> Roles] :
                     \A i, j \in Instances :
                        a[i] = a[j] /\ a[i] # "none" => i = j}
    /\ members = {Owner}
    /\ latest = 0

NothingRan ==
    /\ callsUsed = 0
    /\ artifact = [r \in Runs |-> NoArtifact]
    /\ input = [r \in Runs |-> NoInput]
    /\ context = [r \in Runs |-> NoContext]
    /\ runStatus = [r \in Runs |-> "none"]
    /\ fence = [r \in Runs |-> 0]
    /\ lease = [r \in Runs |-> "none"]
    /\ reserved = {}
    /\ called = [r \in Runs |-> 0]
    /\ pc = [r \in Runs |-> "idle"]
    /\ heldFence = [r \in Runs |-> 0]
    /\ invoked = [r \in Runs |-> FALSE]
    /\ cancelling = NoRun

Init == EmptyBoard /\ NothingRan

(* Every transaction below starts with lockWork; only a claim, the reads a *)
(* worker makes and the clock go on while a cancel holds the lock.         *)
Unlocked == cancelling = NoRun

CurrentContext == [status |-> taskStatus, scope |-> scope, reason |-> reason,
                   agents |-> agents]

(* The row of a run reaches a status in which it can no longer finish: its *)
(* context hash is read no more.                                           *)
Settle(r, status) ==
    /\ runStatus' = [runStatus EXCEPT ![r] = status]
    /\ context' = [context EXCEPT ![r] = NoContext]

Move(t, status, why) ==
    /\ taskStatus' = [taskStatus EXCEPT ![t] = status]
    /\ reason' = [reason EXCEPT ![t] = why]

(* Mutants: the status is not looked at; the task is forgotten. *)
GiveBackAlways(r, overwritable, why) ==
    IF input[r].task \in Tasks THEN Move(input[r].task, "todo", why)
    ELSE UNCHANGED <<taskStatus, reason>>
GiveBackNever(r, overwritable, why) == UNCHANGED <<taskStatus, reason>>

(* A run gives its task back to the board, if the task is in a status the  *)
(* caller may overwrite.                                                   *)
GiveBack(r, overwritable, why) ==
    IF input[r].task \in Tasks /\ taskStatus[input[r].task] \in overwritable
    THEN Move(input[r].task, "todo", why)
    ELSE UNCHANGED <<taskStatus, reason>>

(* The worker's call of process() returns: its locals are gone. *)
Return(r) ==
    /\ pc' = [pc EXCEPT ![r] = "ended"]
    /\ heldFence' = [heldFence EXCEPT ![r] = 0]
    /\ invoked' = [invoked EXCEPT ![r] = FALSE]

-----------------------------------------------------------------------------
(* Commands: WorkService.command, one transaction each *)

Message ==
    /\ Unlocked
    /\ latest < MaxMessages
    /\ latest' = latest + 1
    /\ UNCHANGED <<board, rows, called, proc, cancelling>>

Members(team) ==
    /\ Unlocked
    /\ Owner \in team
    /\ members' = team
    /\ UNCHANGED <<taskStatus, scope, reason, agents, callsUsed, artifact,
                   latest, rows, called, proc, cancelling>>

NoActiveRun == \A r \in Runs : runStatus[r] \notin Active

Bind(i, role) ==
    /\ Unlocked
    /\ NoActiveRun
    /\ agents' = [j \in Instances |->
                    IF j = i THEN role
                    ELSE IF role = "coordinator" /\ agents[j] = "coordinator"
                    THEN "none" ELSE agents[j]]
    /\ UNCHANGED <<taskStatus, scope, reason, members, callsUsed, artifact,
                   latest, rows, called, proc, cancelling>>

(* Mutants: an unknown outcome, a run that was claimed, does not block. *)
MayDispatchAgain(kind, t) ==
    \A r \in Runs :
       input[r].kind = kind /\ input[r].task = t => runStatus[r] \notin Active

MayDispatchBeside(kind, t) ==
    \A r \in Runs :
       input[r].kind = kind /\ input[r].task = t
         => runStatus[r] \notin Unresolved \ {"running"}

(* No run of the same task (or no other plan) may still cost or publish. *)
MayDispatch(kind, t) ==
    \A r \in Runs :
       input[r].kind = kind /\ input[r].task = t
         => runStatus[r] \notin Unresolved

(* runs are numbered in the order of their creation *)
Fresh(r) == /\ runStatus[r] = "none"
            /\ \A s \in Runs : s < r => runStatus[s] # "none"

Authorize(r, in) ==
    /\ Unlocked
    /\ in.by \in members
    /\ in.src \in 1 .. latest
    /\ callsUsed < CallLimit
    /\ MayDispatch(in.kind, in.task)
    /\ input' = [input EXCEPT ![r] = in]
    /\ context' = [context EXCEPT ![r] = CurrentContext]
    /\ runStatus' = [runStatus EXCEPT ![r] = "queued"]

Plan(u, r) ==
    /\ Fresh(r)
    /\ \E i \in Instances, m \in 1 .. MaxMessages :
         /\ agents[i] = "coordinator"
         /\ Authorize(r, [kind |-> "plan", task |-> NoTask, instance |-> i,
                          by |-> u, src |-> m, scope |-> NoScope,
                          given |-> {}])
    /\ UNCHANGED <<board, latest, fence, lease, reserved, called, proc,
                   cancelling>>

(* Mutant: a draft of the dependency is enough. *)
DependenciesDrafted(t) ==
    \A d \in scope[t].deps : taskStatus[d] \in {"decision", "done"}

DependenciesDone(t) == \A d \in scope[t].deps : taskStatus[d] = "done"

(* dependencyArtifacts: what the expert is given to read of the tasks      *)
(* upstream is copied into the run when it is authorized.                  *)
DependencyArtifacts(t) ==
    {r \in Runs : /\ artifact[r].status = "delivered"
                  /\ input[r].task \in scope[t].deps}

Execute(u, t, r) ==
    /\ Fresh(r)
    /\ taskStatus[t] \in {"todo", "decision"}
    /\ DependenciesDone(t)
    /\ scope[t].owner \in Instances
    /\ agents[scope[t].owner] = "expert"
    /\ Authorize(r, [kind |-> "execute", task |-> t,
                     instance |-> scope[t].owner, by |-> u,
                     src |-> scope[t].src, scope |-> scope[t],
                     given |-> DependencyArtifacts(t)])
    /\ Move(t, "running", "queued")
    /\ UNCHANGED <<scope, agents, members, callsUsed, artifact, latest,
                   fence, lease, reserved, called, proc, cancelling>>

(* cancel reads the run under the work lock, which a claim does not take: *)
(* the status it writes follows from the status it read.                  *)
CancelRead(r) ==
    /\ Unlocked
    /\ runStatus[r] \in {"queued", "running"}
    /\ cancelling' = [run |-> r, read |-> runStatus[r]]
    /\ UNCHANGED <<board, latest, rows, called, proc>>

CancelWrite ==
    /\ ~Unlocked
    /\ LET r == cancelling.run
       IN /\ Settle(r, IF cancelling.read = "queued" THEN "stopped"
                                                     ELSE "cancel_requested")
          /\ fence' = [fence EXCEPT ![r] = @ + 1]
          /\ GiveBack(r, TaskStatus, "stopping")
    /\ cancelling' = NoRun
    /\ UNCHANGED <<scope, agents, members, callsUsed, artifact, latest,
                   input, lease, reserved, called, proc>>

ResolveUnknown(u, r) ==
    /\ Unlocked
    /\ u \in members
    /\ runStatus[r] = "outcome_unknown"
    /\ u \in {input[r].by, Owner}
    /\ Settle(r, "reviewed_unknown")
    /\ UNCHANGED <<board, latest, input, fence, lease, reserved,
                   called, proc, cancelling>>

(* Mutants: a draft of another scope, or an older one, can be confirmed. *)
ConfirmableAnyScope(r) ==
    LET t == input[r].task IN
    /\ artifact[r].status \in {"draft", "verified"}
    /\ taskStatus[t] \notin {"running", "done", "cancelled"}
    /\ \A s \in Runs : input[s].task = t
                         => artifact[s].version <= artifact[r].version
ConfirmableAnyVersion(r) ==
    LET t == input[r].task IN
    /\ artifact[r].status \in {"draft", "verified"}
    /\ taskStatus[t] \notin {"running", "done", "cancelled"}
    /\ scope[t] = artifact[r].scope

(* A draft may be confirmed while its task is open, has the scope the draft *)
(* was written for, and has no newer draft.                                 *)
Confirmable(r) ==
    LET t == input[r].task IN
    /\ artifact[r].status \in {"draft", "verified"}
    /\ taskStatus[t] \notin {"running", "done", "cancelled"}
    /\ scope[t] = artifact[r].scope
    /\ \A s \in Runs : input[s].task = t
                         => artifact[s].version <= artifact[r].version

Verify(r) ==
    /\ Unlocked
    /\ Confirmable(r)
    /\ artifact' = [artifact EXCEPT ![r].status = "verified"]
    /\ UNCHANGED <<taskStatus, scope, reason, agents, members, callsUsed,
                   latest, rows, called, proc, cancelling>>

Deliver(r) ==
    /\ Unlocked
    /\ Confirmable(r)
    /\ artifact[r].status = "verified"
    /\ artifact' = [artifact EXCEPT ![r].status = "delivered"]
    /\ Move(input[r].task, "done", "delivered")
    /\ UNCHANGED <<scope, agents, members, callsUsed, latest, rows, called,
                   proc, cancelling>>

-----------------------------------------------------------------------------
(* The worker: WorkWorker.process *)

(* One UPDATE ... WHERE status = 'queued', without the work lock. *)
Claimable(r) == runStatus[r] = "queued"

Claim(r) ==
    /\ Claimable(r)
    /\ runStatus' = [runStatus EXCEPT ![r] = "running"]
    /\ fence' = [fence EXCEPT ![r] = @ + 1]
    /\ lease' = [lease EXCEPT ![r] = "live"]
    /\ pc' = [pc EXCEPT ![r] = "claimed"]
    /\ UNCHANGED <<board, latest, input, context, reserved, called,
                   heldFence, invoked, cancelling>>

(* The row is read back in a second statement, after any cancel or expiry *)
(* that came between.                                                     *)
Load(r) ==
    /\ pc[r] = "claimed"
    /\ heldFence' = [heldFence EXCEPT ![r] = fence[r]]
    /\ pc' = [pc EXCEPT ![r] = "entering"]
    /\ UNCHANGED <<board, latest, rows, called, invoked, cancelling>>

(* Mutant: the fence is thought to be enough. *)
ExecutionGateByFence(r) ==
    /\ fence[r] = heldFence[r]
    /\ lease[r] = "live"

(* An approval that ran out (15 minutes) is one of the reasons to throw,   *)
(* below: the gate it closes is the last the run comes to.                 *)
ExecutionGate(r) ==
    /\ runStatus[r] = "running"
    /\ fence[r] = heldFence[r]
    /\ lease[r] = "live"

(* Mutant: the limit is off by one. *)
GuardPassesAtLimit(r) ==
    /\ Unlocked
    /\ input[r].by \in members
    /\ ExecutionGate(r)
    /\ agents[input[r].instance] # "none"
    /\ callsUsed <= CallLimit

GuardPasses(r) ==
    /\ Unlocked
    /\ input[r].by \in members
    /\ ExecutionGate(r)
    /\ agents[input[r].instance] # "none"
    /\ callsUsed < CallLimit

(* guard(run, false), before anything is prepared *)
Enter(r) ==
    /\ pc[r] = "entering"
    /\ GuardPasses(r)
    /\ pc' = [pc EXCEPT ![r] = "executing"]
    /\ UNCHANGED <<board, latest, rows, called, heldFence, invoked,
                   cancelling>>

(* beforeTool: guard(run, true) reserves the call, then the local flag is  *)
(* set.  The commit may succeed and its acknowledgement be lost: then the  *)
(* reservation stands and the worker sees an error.                        *)
BeforeTool(r) ==
    /\ pc[r] = "executing"
    /\ ~invoked[r]
    /\ GuardPasses(r)
    /\ callsUsed' = callsUsed + 1
    /\ reserved' = reserved \cup {r}
    /\ \/ /\ pc' = [pc EXCEPT ![r] = "reserved"]
          /\ invoked' = [invoked EXCEPT ![r] = TRUE]
       \/ /\ pc' = [pc EXCEPT ![r] = "failing"]
          /\ UNCHANGED invoked
    /\ UNCHANGED <<taskStatus, scope, reason, agents, members, artifact, latest,
                   input, context, runStatus, fence, lease, called,
                   heldFence, cancelling>>

(* The request leaves for the model gateway. *)
Fetch(r) ==
    /\ pc[r] = "reserved"
    /\ called' = [called EXCEPT ![r] = @ + 1]
    /\ pc' = [pc EXCEPT ![r] = "calling"]
    /\ UNCHANGED <<board, latest, rows, heldFence, invoked, cancelling>>

ModelAnswers(r) ==
    /\ pc[r] = "calling"
    /\ pc' = [pc EXCEPT ![r] = "returned"]
    /\ UNCHANGED <<board, latest, rows, called, heldFence, invoked,
                   cancelling>>

(* guard, execute or finish throws: a check fails, the abort poll fires,   *)
(* the provider fails, the answer is invalid, the database is unavailable. *)
Throws(r) ==
    /\ pc[r] \in {"entering", "executing", "reserved", "calling", "returned"}
    /\ pc' = [pc EXCEPT ![r] = "failing"]
    /\ UNCHANGED <<board, latest, rows, called, heldFence, invoked,
                   cancelling>>

(* The plans a coordinator may return: changed cards by task id. *)
Card == [status : PlanStatuses, deps : SUBSET Tasks,
         owner : Instances \cup {NoInstance}]
Plans == UNION {[changed -> Card] : changed \in SUBSET Tasks}

NextStatus(plan) ==
    [t \in Tasks |-> IF t \in DOMAIN plan THEN plan[t].status
                                          ELSE taskStatus[t]]
NextScope(plan, m) ==
    [t \in Tasks |-> IF t \in DOMAIN plan
                     THEN [deps |-> plan[t].deps, owner |-> plan[t].owner,
                           src |-> m]
                     ELSE scope[t]]

(* Mutant: a plan may change the scope of a running task. *)
UntouchableEnded == {"done", "cancelled"}

Untouchable == {"running", "done", "cancelled"}

(* every dependency exists and no set of tasks waits on itself *)
WellFounded(status, sc) ==
    LET present == {t \in Tasks : status[t] # "absent"} IN
    /\ \A t \in present : sc[t].deps \subseteq present
    /\ \A S \in SUBSET present :
          S # {} => \E t \in S : sc[t].deps \cap S = {}

(* no changed card is upstream, directly or not, of a running task *)
SparesRunning(plan, sc) ==
    \E upstream \in SUBSET (Tasks \ DOMAIN plan) :
       \A t \in Tasks : taskStatus[t] = "running" \/ t \in upstream
                          => sc[t].deps \subseteq upstream

Applicable(plan, m) ==
    /\ \A t \in DOMAIN plan :
         /\ taskStatus[t] \notin Untouchable
         /\ plan[t].owner # NoInstance => agents[plan[t].owner] = "expert"
    /\ WellFounded(NextStatus(plan), NextScope(plan, m))
    /\ SparesRunning(plan, NextScope(plan, m))

Succeed(r) ==
    /\ Settle(r, "succeeded")
    /\ lease' = [lease EXCEPT ![r] = "none"]
    /\ \/ Return(r)
       \/ /\ pc' = [pc EXCEPT ![r] = "failing"]  \* the acknowledgement is lost
          /\ UNCHANGED <<heldFence, invoked>>

MayFinish(r) ==
    /\ pc[r] = "returned"
    /\ Unlocked
    /\ ExecutionGate(r)
    /\ input[r].by \in members

FinishPlan(r) ==
    /\ MayFinish(r)
    /\ input[r].kind = "plan"
    /\ input[r].src = latest
    /\ context[r] = CurrentContext
    /\ \E plan \in Plans :
         /\ Applicable(plan, input[r].src)
         /\ taskStatus' = NextStatus(plan)
         /\ scope' = NextScope(plan, input[r].src)
         /\ reason' = [t \in Tasks |-> IF t \in DOMAIN plan THEN "planned"
                                                          ELSE reason[t]]
    /\ Succeed(r)
    /\ UNCHANGED <<agents, members, callsUsed, artifact, latest, input, fence,
                   reserved, called, cancelling>>

DraftsOf(t) == {r \in Runs : input[r].task = t /\ artifact[r].status # "none"}

FinishExecute(r) ==
    LET t == input[r].task IN
    /\ MayFinish(r)
    /\ input[r].kind = "execute"
    /\ taskStatus[t] = "running"
    /\ scope[t].owner = input[r].instance
    /\ artifact' = [artifact EXCEPT ![r] =
                      [status |-> "draft", scope |-> scope[t],
                       version |-> Cardinality(DraftsOf(t)) + 1]]
    /\ Move(t, "decision", "draft")
    /\ Succeed(r)
    /\ UNCHANGED <<scope, agents, members, callsUsed, latest, input, fence,
                   reserved, called, cancelling>>

(* What a run that ends without a result is recorded as, by the events. *)
RecordedOutcome(r) == IF r \in reserved THEN "outcome_unknown" ELSE "stopped"

(* Mutant: a cancelled run is always thought not to have been sent.       *)
FailStatusStopped(r) ==
    IF runStatus[r] = "cancel_requested" THEN "stopped"
    ELSE IF invoked[r] THEN "outcome_unknown" ELSE "blocked"

FailStatus(r) ==
    IF runStatus[r] = "cancel_requested" THEN RecordedOutcome(r)
    ELSE IF invoked[r] THEN "outcome_unknown" ELSE "blocked"

(* A worker that no longer holds the run only appends an event. *)
StillOurs(r) == \/ runStatus[r] = "cancel_requested"
                \/ runStatus[r] = "running" /\ fence[r] = heldFence[r]

Fail(r) ==
    /\ pc[r] = "failing"
    /\ Unlocked
    /\ StillOurs(r)
    /\ Settle(r, FailStatus(r))
    /\ lease' = [lease EXCEPT ![r] = "none"]
    /\ GiveBack(r, TaskStatus \ {"done"}, "failed")
    /\ Return(r)
    /\ UNCHANGED <<scope, agents, members, callsUsed, artifact, latest,
                   input, fence, reserved, called, cancelling>>

DiscardLateResult(r) ==
    /\ pc[r] = "failing"
    /\ Unlocked
    /\ ~StillOurs(r)
    /\ Return(r)
    /\ UNCHANGED <<board, latest, rows, called, cancelling>>

(* The process dies, or fail() itself cannot reach the database. *)
WorkerCrash(r) ==
    /\ pc[r] \in Busy
    /\ Return(r)
    /\ UNCHANGED <<board, latest, rows, called, cancelling>>

(* Mutant: tick() forgets one of the two statuses. *)
LeasedRunning == {"running"}

Leased == {"running", "cancel_requested"}

(* tick() of any worker; the lease is read again under the lock. *)
Expire(r) ==
    /\ Unlocked
    /\ runStatus[r] \in Leased
    /\ lease[r] = "expired"
    /\ Settle(r, RecordedOutcome(r))
    /\ fence' = [fence EXCEPT ![r] = @ + 1]
    /\ lease' = [lease EXCEPT ![r] = "none"]
    /\ GiveBack(r, {"running"}, "expired")
    /\ UNCHANGED <<scope, agents, members, callsUsed, artifact, latest,
                   input, reserved, called, proc, cancelling>>

(* Time: a lease lasts 90 seconds and is never renewed.  It is read only   *)
(* while the run is running or asked to stop.                              *)
LeaseRunsOut(r) ==
    /\ runStatus[r] \in {"running", "cancel_requested"}
    /\ lease[r] = "live"
    /\ lease' = [lease EXCEPT ![r] = "expired"]
    /\ UNCHANGED <<board, latest, input, context, runStatus, fence, reserved, called, proc, cancelling>>

-----------------------------------------------------------------------------
Command ==
    \/ Message
    \/ \E team \in SUBSET Users : Members(team)
    \/ \E i \in Instances, role \in {"coordinator", "expert"} : Bind(i, role)
    \/ \E u \in Users, r \in Runs : Plan(u, r)
    \/ \E u \in Users, t \in Tasks, r \in Runs : Execute(u, t, r)
    \/ \E r \in Runs : CancelRead(r)
    \/ CancelWrite
    \/ \E u \in Users, r \in Runs : ResolveUnknown(u, r)
    \/ \E r \in Runs : Verify(r) \/ Deliver(r)

Process(r) ==
    \/ Claim(r) \/ Load(r) \/ Enter(r) \/ BeforeTool(r) \/ Fetch(r)
    \/ ModelAnswers(r) \/ Throws(r) \/ FinishPlan(r) \/ FinishExecute(r)
    \/ Fail(r) \/ DiscardLateResult(r) \/ WorkerCrash(r) \/ Expire(r)

Next == Command \/ \E r \in Runs : Process(r) \/ LeaseRunsOut(r)

Spec == Init /\ [][Next]_vars

-----------------------------------------------------------------------------
(* Properties *)

(* At most one unresolved run per task, and at most one unresolved plan:    *)
(* work that may still be billed or published is never dispatched again     *)
(* (the check of command() against a claim that takes no lock, expiry,      *)
(* late failures).                                                          *)
SingleUnresolved ==
    \A r, s \in Runs :
       /\ runStatus[r] \in Unresolved /\ runStatus[s] \in Unresolved
       /\ input[r].kind = input[s].kind /\ input[r].task = input[s].task
       => r = s

(* The board says "running" exactly for the tasks with a queued or running  *)
(* run: no card is stuck by a cancel, an expiry or a late failure, and none *)
(* is offered for execution while a worker may still draft it.              *)
BoardMatchesRuns ==
    \A t \in Tasks :
       taskStatus[t] = "running" <=>
          \E r \in Runs : input[r].task = t
                             /\ runStatus[r] \in {"queued", "running"}

(* A run closed as "never sent" (stopped, blocked) did not and will not     *)
(* reach the model gateway, however its worker is interleaved with cancel,  *)
(* expiry and lost acknowledgements: only such a run may be repeated        *)
(* without a review.                                                        *)
ClosedMeansNotSent ==
    \A r \in Runs :
       runStatus[r] \in {"stopped", "blocked"}
         => called[r] = 0 /\ pc[r] \notin {"reserved", "calling", "returned"}

(* Every request was paid from the budget of the Work: one reservation per  *)
(* request, never more reservations than the limit.                         *)
CallsWithinBudget ==
    /\ callsUsed = Cardinality(reserved)
    /\ callsUsed <= CallLimit
    /\ \A r \in Runs : called[r] <= IF r \in reserved THEN 1 ELSE 0

(* A done task, and a running one, has only done dependencies, although     *)
(* plans rewrite dependencies at any time.                                  *)
DoneIsClosed ==
    \A t \in Tasks : taskStatus[t] \in {"running", "done"} => DependenciesDone(t)

(* A task is done exactly when one of its drafts is delivered; that draft   *)
(* is the newest and was written for the scope the task has.                *)
DeliveredMatchesTask ==
    \A t \in Tasks :
       LET delivered == {r \in DraftsOf(t) : artifact[r].status = "delivered"}
       IN /\ taskStatus[t] = "done" <=> delivered # {}
          /\ \A r \in delivered :
                /\ artifact[r].scope = scope[t]
                /\ \A s \in DraftsOf(t) \ {r} :
                      artifact[s].version < artifact[r].version

(* What was authorized is what is executed: while a run of a task is queued *)
(* or running neither the task's scope nor its instance's role changes, and *)
(* its draft is stored for the scope that was approved.                     *)
AuthorizedScopeHolds ==
    \A r \in Runs :
       /\ input[r].kind = "execute" /\ runStatus[r] \in {"queued", "running"}
            => /\ scope[input[r].task] = input[r].scope
               /\ agents[input[r].instance] = "expert"
       /\ artifact[r].status # "none" => artifact[r].scope = input[r].scope

(* What an expert was given to read of the tasks upstream, when its run was *)
(* authorized, is what they have delivered ever since: of each dependency   *)
(* the one delivered draft, which is also its newest, and nothing else; for *)
(* as long as the run is under way and the draft it wrote is kept.  Plans,  *)
(* deliveries and late failures come in between (work-service.ts:535-551).  *)
UpstreamHolds ==
    \A r \in Runs :
       \/ runStatus[r] \in {"queued", "running"} /\ input[r].kind = "execute"
       \/ artifact[r].status # "none"
       => /\ input[r].given = {s \in Runs : /\ artifact[s].status = "delivered"
                                           /\ input[s].task \in input[r].scope.deps}
          /\ \A d \in input[r].scope.deps :
                \E s \in input[r].given :
                   /\ input[s].task = d
                   /\ \A q \in DraftsOf(d) :
                         artifact[q].version <= artifact[s].version

(* Plans take effect in the order of their authorization and a card never   *)
(* goes back to an earlier message: once a later plan is authorized, the    *)
(* answer of an earlier one, cancelled, expired or reviewed while its       *)
(* worker was still waiting for the model, is not applied                   *)
(* (work-worker.ts:191-224).                                                *)
PlansInTurn ==
    [][/\ \A t \in Tasks : scope[t].src <= scope'[t].src
       /\ \A r, s \in Runs :
             /\ r < s /\ input[r].kind = "plan" /\ input[s].kind = "plan"
             /\ runStatus[r] # "succeeded"
             => runStatus'[r] # "succeeded"]_vars

(* A task that is done stays done and keeps its scope: a late cancel,       *)
(* failure, expiry or plan does not reopen it.                              *)
DoneIsFinal ==
    [][\A t \in Tasks : taskStatus[t] = "done"
         => taskStatus'[t] = "done" /\ scope'[t] = scope[t]]_vars

(* The same of a cancelled task, as applyWorkPlan's message claims.  The    *)
(* code does not keep it: fail() reopens a cancelled task.                  *)
CancelledIsFinal ==
    [][\A t \in Tasks : taskStatus[t] = "cancelled"
         => taskStatus'[t] = "cancelled"]_vars

(* "A cancelled lease never starts inference."  The code does not keep it:  *)
(* the request leaves after the transaction that reserved it.               *)
CancelledNeverStartsInference ==
    [][\A r \in Runs : called'[r] > called[r] => runStatus[r] = "running"]_vars

(* The runs implement the promise of WorkAuthorization: a run is a grant,  *)
(* its worker holds the credit between the reservation and the request.     *)
Subjects == [kind : {"plan"}, task : {NoTask}]
              \cup [kind : {"execute"}, task : Tasks]

AnswerOf(status) ==
    CASE status = "none" -> "absent"
      [] status \in Active -> "open"
      [] status = "succeeded" -> "published"
      [] status \in {"stopped", "blocked"} -> "void"
      [] status = "outcome_unknown" -> "unknown"
      [] status = "reviewed_unknown" -> "reviewed"

Promise == INSTANCE WorkAuthorization WITH
    Grants <- Runs,
    Limit <- CallLimit,
    NoSubject <- [kind |-> "none", task |-> NoTask],
    subject <- [r \in Runs |-> [kind |-> input[r].kind, task |-> input[r].task]],
    answer <- [r \in Runs |-> AnswerOf(runStatus[r])],
    credit <- [r \in Runs |-> IF called[r] > 0 THEN "spent"
                               ELSE IF pc[r] = "reserved" THEN "held"
                               ELSE "none"]

KeepsPromise == Promise!AuthorizationSpec

(* The worker polls every second; a lease ends by itself.  No fairness is   *)
(* asked of the worker that holds the run.                                  *)
Fairness ==
    /\ WF_vars(CancelWrite)
    /\ \A r \in Runs : WF_vars(Claim(r)) /\ WF_vars(LeaseRunsOut(r))
                          /\ WF_vars(Expire(r))

FairSpec == Spec /\ Fairness

(* Whatever happens to its worker, a run is decided; its card is released   *)
(* then, since the board matches the runs.                                  *)
RunsSettle ==
    \A r \in Runs : runStatus[r] \in Active ~> runStatus[r] \notin Active

=============================================================================
