--------------------------- MODULE WorkRunsProofs ---------------------------
(* Proofs about WorkRuns, for any number of tasks, instances, users, runs   *)
(* and messages.                                                            *)
EXTENDS WorkRuns, TLAPS, FiniteSetTheorems

-----------------------------------------------------------------------------
(* The initial states have the types. *)
LEMMA InitType == Init => TypeOK
  <1> SUFFICES ASSUME Init PROVE TypeOK
    OBVIOUS
  <1> USE WorkAssumption DEF Init, EmptyBoard, NothingRan
  <1>1. NoScope \in Scope
    BY DEF NoScope, Scope
  <1>2. NoInput \in Input
    BY <1>1 DEF NoInput, Input
  <1>3. NoArtifact \in Artifact
    BY <1>1 DEF NoArtifact, Artifact
  <1>4. QED
    BY <1>1, <1>2, <1>3 DEF TypeOK, TaskStatus, Reasons, Roles, RunStatus

(* A run of a task names a task, a planning run none; a row that was never  *)
(* created has no input.                                                    *)
TaskOfRun ==
    \A r \in Runs :
       /\ input[r].kind = "execute" <=> input[r].task \in Tasks
       /\ input[r].kind = "none" <=> runStatus[r] = "none"
       /\ input[r].kind # "execute" => input[r].task = NoTask

(* The runs of one task are finitely many, so their number is a version.    *)
LEMMA DraftsFinite ==
  ASSUME NEW t PROVE IsFiniteSet(DraftsOf(t))
  <1>1. IsFiniteSet(Runs)
    BY WorkAssumption, FS_Interval DEF Runs
  <1>2. DraftsOf(t) \subseteq Runs
    BY DEF DraftsOf
  <1>3. QED
    BY <1>1, <1>2, FS_Subset

(* What the end of a successful run does to the rows and to its worker.     *)
LEMMA SucceedType ==
  ASSUME TypeOK, NEW r \in Runs, Succeed(r)
  PROVE  /\ runStatus' \in [Runs -> RunStatus]
         /\ context' \in [Runs -> Context \cup {NoContext}]
         /\ lease' \in [Runs -> {"none", "live", "expired"}]
         /\ pc' \in [Runs -> {"idle", "ended"} \cup Busy]
         /\ heldFence' \in [Runs -> Nat]
         /\ invoked' \in [Runs -> BOOLEAN]
  <1>1. invoked' \in [Runs -> BOOLEAN]
    BY DEF TypeOK, Succeed, Return
  <1>2. pc' \in [Runs -> {"idle", "ended"} \cup Busy]
    BY DEF TypeOK, Succeed, Return, Busy
  <1>3. QED
    BY <1>1, <1>2 DEF TypeOK, Succeed, Settle, Return, RunStatus

(* Every step of the Work keeps the types. *)
LEMMA NextType == TypeOK /\ TaskOfRun /\ [Next]_vars => TypeOK'
  <1> SUFFICES ASSUME TypeOK, TaskOfRun, [Next]_vars PROVE TypeOK'
    OBVIOUS
  <1> USE WorkAssumption DEF TypeOK, board, rows, proc
  <1>ctx. CurrentContext \in Context
    BY DEF CurrentContext, Context
  <1>1. CASE Message
    BY <1>1 DEF Message
  <1>2. ASSUME NEW team \in SUBSET Users, Members(team) PROVE TypeOK'
    BY <1>2 DEF Members
  <1>3. ASSUME NEW i \in Instances, NEW role \in {"coordinator", "expert"},
               Bind(i, role)
        PROVE TypeOK'
    BY <1>3 DEF Bind, Roles
  <1>4. ASSUME NEW u \in Users, NEW r \in Runs, Plan(u, r) PROVE TypeOK'
    <2>1. NoScope \in Scope
      BY DEF NoScope, Scope
    <2>2. PICK i \in Instances, m \in 1 .. MaxMessages :
            Authorize(r, [kind |-> "plan", task |-> NoTask, instance |-> i,
                          by |-> u, src |-> m, scope |-> NoScope, given |-> {}])
      BY <1>4 DEF Plan
    <2>3. [kind |-> "plan", task |-> NoTask, instance |-> i,
           by |-> u, src |-> m, scope |-> NoScope, given |-> {}] \in Input
      BY <2>1 DEF Input
    <2>4. QED
      BY <1>4, <1>ctx, <2>2, <2>3 DEF Plan, Authorize, RunStatus
  <1>5. ASSUME NEW u \in Users, NEW t \in Tasks, NEW r \in Runs,
               Execute(u, t, r)
        PROVE TypeOK'
    <2>1. [kind |-> "execute", task |-> t, instance |-> scope[t].owner,
           by |-> u, src |-> scope[t].src, scope |-> scope[t],
           given |-> DependencyArtifacts(t)] \in Input
      BY DEF Input, Scope, DependencyArtifacts
    <2>2. QED
      BY <1>5, <1>ctx, <2>1
         DEF Execute, Authorize, RunStatus, Move, TaskStatus, Reasons
  <1>6. ASSUME NEW r \in Runs, CancelRead(r) PROVE TypeOK'
    BY <1>6 DEF CancelRead, Cancel
  <1>7. CASE CancelWrite
    BY <1>7 DEF CancelWrite, Unlocked, Cancel, Settle, GiveBack, Move,
                RunStatus, TaskStatus, Reasons
  <1>8. ASSUME NEW u \in Users, NEW r \in Runs, ResolveUnknown(u, r)
        PROVE TypeOK'
    BY <1>8 DEF ResolveUnknown, Settle, RunStatus
  <1>9. ASSUME NEW r \in Runs, Verify(r) PROVE TypeOK'
    <2>1. [artifact[r] EXCEPT !.status = "verified"] \in Artifact
      BY DEF Artifact
    <2>2. artifact' \in [Runs -> Artifact]
      BY <1>9, <2>1 DEF Verify
    <2>3. QED
      BY <1>9, <2>2 DEF Verify
  <1>10. ASSUME NEW r \in Runs, Deliver(r) PROVE TypeOK'
    <2>1. [artifact[r] EXCEPT !.status = "delivered"] \in Artifact
      BY DEF Artifact
    <2>2. artifact' \in [Runs -> Artifact]
      BY <1>10, <2>1 DEF Deliver
    <2>3. QED
      BY <1>10, <2>2 DEF Deliver, Move, TaskStatus, Reasons
  <1>11. ASSUME NEW r \in Runs, Process(r) \/ LeaseRunsOut(r) PROVE TypeOK'
    <2>1. CASE Claim(r)
      BY <2>1 DEF Claim, RunStatus, Busy
    <2>2. CASE Load(r)
      BY <2>2 DEF Load, Busy
    <2>3. CASE Enter(r)
      BY <2>3 DEF Enter, Busy
    <2>4. CASE BeforeTool(r)
      <3>1. invoked' \in [Runs -> BOOLEAN]
        BY <2>4 DEF BeforeTool
      <3>2. callsUsed' \in Nat
        BY <2>4 DEF BeforeTool
      <3>3. pc' \in [Runs -> {"idle", "ended"} \cup Busy]
        BY <2>4 DEF BeforeTool, Busy
      <3>4. QED
        BY <2>4, <3>1, <3>2, <3>3 DEF BeforeTool
    <2>5. CASE Fetch(r)
      BY <2>5 DEF Fetch, Busy
    <2>6. CASE ModelAnswers(r)
      BY <2>6 DEF ModelAnswers, Busy
    <2>7. CASE Throws(r)
      BY <2>7 DEF Throws, Busy
    <2>8. CASE FinishPlan(r)
      <3>1. PICK plan \in Plans :
              /\ taskStatus' = NextStatus(plan)
              /\ scope' = NextScope(plan, input[r].src)
              /\ reason' = [t \in Tasks |-> IF t \in DOMAIN plan
                                            THEN "planned" ELSE reason[t]]
        BY <2>8 DEF FinishPlan
      <3>2. \A t \in DOMAIN plan : plan[t] \in Card
        BY DEF Plans
      <3>3. taskStatus' \in [Tasks -> TaskStatus]
        BY <3>1, <3>2 DEF NextStatus, Card, TaskStatus
      <3>4. input[r].src \in 0 .. MaxMessages
        BY DEF Input
      <3>5. scope' \in [Tasks -> Scope]
        BY <3>1, <3>2, <3>4 DEF NextScope, Card, Scope
      <3>6. reason' \in [Tasks -> Reasons]
        BY <3>1 DEF Reasons
      <3>7. QED
        BY <2>8, <3>3, <3>5, <3>6, SucceedType DEF FinishPlan
    <2>9. CASE FinishExecute(r)
      <3> DEFINE t == input[r].task
      <3>1. t \in Tasks
        BY <2>9 DEF FinishExecute, TaskOfRun
      <3>2. Cardinality(DraftsOf(t)) \in Nat
        BY DraftsFinite, FS_CardinalityType
      <3> DEFINE draft == [status |-> "draft", scope |-> scope[t],
                           version |-> Cardinality(DraftsOf(t)) + 1]
      <3>d. draft \in Artifact
        BY <3>1, <3>2 DEF Artifact
      <3> HIDE DEF draft
      <3>e. artifact' = [artifact EXCEPT ![r] = draft]
        BY <2>9 DEF FinishExecute, draft
      <3>3. artifact' \in [Runs -> Artifact]
        BY <3>d, <3>e
      <3>4. QED
        BY <2>9, <3>1, <3>3, SucceedType
           DEF FinishExecute, Move, TaskStatus, Reasons
    <2>10. CASE Fail(r)
      BY <2>10 DEF Fail, Settle, FailStatus, RecordedOutcome, GiveBack, Move,
                   Return, RunStatus, TaskStatus, Reasons
    <2>11. CASE DiscardLateResult(r) \/ WorkerCrash(r)
      <3>1. invoked' \in [Runs -> BOOLEAN]
        BY <2>11 DEF DiscardLateResult, WorkerCrash, Return
      <3>2. /\ heldFence' \in [Runs -> Nat]
            /\ pc' \in [Runs -> {"idle", "ended"} \cup Busy]
        BY <2>11 DEF DiscardLateResult, WorkerCrash, Return
      <3>3. QED
        BY <2>11, <3>1, <3>2 DEF DiscardLateResult, WorkerCrash
    <2>12. CASE Expire(r)
      BY <2>12 DEF Expire, Settle, RecordedOutcome, GiveBack, Move,
                   RunStatus, TaskStatus, Reasons
    <2>13. CASE LeaseRunsOut(r)
      BY <2>13 DEF LeaseRunsOut
    <2>14. QED
      BY <1>11, <2>1, <2>2, <2>3, <2>4, <2>5, <2>6, <2>7, <2>8, <2>9, <2>10,
         <2>11, <2>12, <2>13 DEF Process
  <1>12. CASE UNCHANGED vars
    BY <1>12 DEF vars
  <1>13. QED
    BY <1>1, <1>2, <1>3, <1>4, <1>5, <1>6, <1>7, <1>8, <1>9, <1>10, <1>11,
       <1>12 DEF Next, Command

-----------------------------------------------------------------------------
(* The inductive invariant.  SingleUnresolved and BoardMatchesRuns need each *)
(* other: that a cancelled, failed or expired run may give its task back     *)
(* rests on no other run being at work on it, and that no second run starts  *)
(* rests on the status the first one gave the task.  Both need that the run  *)
(* a cancel has read under the lock can meanwhile only be claimed.           *)
CancelSound ==
    cancelling # NoRun => runStatus[cancelling.run] \in {"queued", "running"}

IInv == TypeOK /\ TaskOfRun /\ CancelSound /\ SingleUnresolved
          /\ BoardMatchesRuns

(* A step that creates no run keeps every input, and brings no run back to   *)
(* an unresolved status.                                                     *)
RunsAdvance ==
    /\ input' = input
    /\ \A r \in Runs :
         /\ runStatus'[r] = "none" <=> runStatus[r] = "none"
         /\ runStatus'[r] \in Unresolved => runStatus[r] \in Unresolved

(* A step that creates run r, the next one, does so for a task, or for a     *)
(* plan, of which no run is unresolved.                                      *)
RunCreated(r) ==
    /\ runStatus[r] = "none"
    /\ \A s \in Runs : s < r => runStatus[s] # "none"
    /\ \E in \in Input :
         /\ \/ in.kind = "execute" /\ in.task \in Tasks
            \/ in.kind = "plan" /\ in.task = NoTask
         /\ MayDispatch(in.kind, in.task)
         /\ input' = [input EXCEPT ![r] = in]
    /\ runStatus' = [runStatus EXCEPT ![r] = "queued"]

(* Every step is of one of these two kinds.                                  *)
LEMMA RunStep ==
  ASSUME TypeOK, CancelSound, [Next]_vars
  PROVE  RunsAdvance \/ \E r \in Runs : RunCreated(r)
  <1> USE DEF rows
  <1>1. ASSUME runStatus' = runStatus, input' = input PROVE RunsAdvance
    BY <1>1 DEF RunsAdvance
  <1>2. ASSUME NEW u \in Users, NEW r \in Runs, Plan(u, r)
        PROVE RunCreated(r)
    <2>1. NoScope \in Scope
      BY WorkAssumption DEF NoScope, Scope
    <2>2. PICK i \in Instances, m \in 1 .. MaxMessages :
            Authorize(r, [kind |-> "plan", task |-> NoTask, instance |-> i,
                          by |-> u, src |-> m, scope |-> NoScope, given |-> {}])
      BY <1>2 DEF Plan
    <2> DEFINE in == [kind |-> "plan", task |-> NoTask, instance |-> i,
                      by |-> u, src |-> m, scope |-> NoScope, given |-> {}]
    <2>3. in \in Input
      BY <2>1, WorkAssumption DEF Input
    <2>4. QED
      BY <1>2, <2>2, <2>3 DEF Plan, Fresh, Authorize, RunCreated
  <1>3. ASSUME NEW u \in Users, NEW t \in Tasks, NEW r \in Runs,
               Execute(u, t, r)
        PROVE RunCreated(r)
    <2> DEFINE in == [kind |-> "execute", task |-> t,
                      instance |-> scope[t].owner, by |-> u,
                      src |-> scope[t].src, scope |-> scope[t],
                      given |-> DependencyArtifacts(t)]
    <2>1. in \in Input
      BY DEF TypeOK, Input, Scope, DependencyArtifacts
    <2>2. Authorize(r, in)
      BY <1>3 DEF Execute
    <2>3. in.kind = "execute" /\ in.task = t
      OBVIOUS
    <2> HIDE DEF in
    <2>4. Fresh(r)
      BY <1>3 DEF Execute
    <2>5. QED
      BY <2>1, <2>2, <2>3, <2>4 DEF Authorize, Fresh, RunCreated
  <1>4. CASE CancelWrite
    BY <1>4 DEF CancelWrite, CancelSound, Unlocked, Settle, RunsAdvance,
                Unresolved, Active, TypeOK, Cancel
  <1>5. ASSUME NEW u \in Users, NEW r \in Runs, ResolveUnknown(u, r)
        PROVE RunsAdvance
    BY <1>5 DEF ResolveUnknown, Settle, RunsAdvance, Unresolved, Active, TypeOK
  <1>6. ASSUME NEW r \in Runs, Claim(r) PROVE RunsAdvance
    BY <1>6 DEF Claim, Claimable, RunsAdvance, Unresolved, Active, TypeOK
  <1>7. ASSUME NEW r \in Runs, FinishPlan(r) \/ FinishExecute(r)
        PROVE RunsAdvance
    BY <1>7 DEF FinishPlan, FinishExecute, MayFinish, ExecutionGate, Succeed,
                Settle, RunsAdvance, Unresolved, Active, TypeOK
  <1>8. ASSUME NEW r \in Runs, Fail(r) PROVE RunsAdvance
    BY <1>8 DEF Fail, StillOurs, FailStatus, RecordedOutcome, Settle,
                RunsAdvance, Unresolved, Active, TypeOK
  <1>9. ASSUME NEW r \in Runs, Expire(r) PROVE RunsAdvance
    BY <1>9 DEF Expire, Leased, RecordedOutcome, Settle,
                RunsAdvance, Unresolved, Active, TypeOK
  <1>10. QED
    BY <1>1, <1>2, <1>3, <1>4, <1>5, <1>6, <1>7, <1>8, <1>9
       DEF Next, Command, Process, vars, Message, Members, Bind, CancelRead,
           Verify, Deliver, Load, Enter, BeforeTool, Fetch, ModelAnswers,
           Throws, DiscardLateResult, WorkerCrash, LeaseRunsOut

(* Therefore no step creates a second unresolved run, and every run keeps    *)
(* its kind and its task.                                                    *)
LEMMA SingleStep ==
  ASSUME TypeOK, TaskOfRun, SingleUnresolved,
         RunsAdvance \/ \E r \in Runs : RunCreated(r)
  PROVE  TaskOfRun' /\ SingleUnresolved'
  <1>1. CASE RunsAdvance
    BY <1>1 DEF RunsAdvance, TaskOfRun, SingleUnresolved
  <1>2. ASSUME NEW r \in Runs, RunCreated(r)
        PROVE  TaskOfRun' /\ SingleUnresolved'
    <2>1. PICK in \in Input :
            /\ \/ in.kind = "execute" /\ in.task \in Tasks
               \/ in.kind = "plan" /\ in.task = NoTask
            /\ MayDispatch(in.kind, in.task)
            /\ input' = [input EXCEPT ![r] = in]
      BY <1>2 DEF RunCreated
    <2>2. runStatus' = [runStatus EXCEPT ![r] = "queued"]
      BY <1>2 DEF RunCreated
    <2>3. TaskOfRun'
      BY <2>1, <2>2, WorkAssumption DEF TaskOfRun, TypeOK
    <2>4. SingleUnresolved'
      BY <2>1, <2>2 DEF SingleUnresolved, MayDispatch, TypeOK
    <2>5. QED
      BY <2>3, <2>4
  <1>3. QED
    BY <1>1, <1>2

(* What a cancel has read stays queued or running until it writes: the lock  *)
(* it holds is taken by every transaction that ends a run.                   *)
LEMMA CancelStep ==
  ASSUME TypeOK, CancelSound, [Next]_vars PROVE CancelSound'
  <1> USE WorkAssumption DEF CancelSound, TypeOK, rows, Cancel
  <1>1. ASSUME NEW r \in Runs, CancelRead(r) PROVE CancelSound'
    BY <1>1 DEF CancelRead
  <1>2. ASSUME NEW r \in Runs, Claim(r) PROVE CancelSound'
    BY <1>2 DEF Claim, Claimable
  <1>3. CASE CancelWrite
    BY <1>3 DEF CancelWrite
  <1>4. ASSUME Unlocked, cancelling' = cancelling PROVE CancelSound'
    BY <1>4 DEF Unlocked
  <1>5. ASSUME runStatus' = runStatus, cancelling' = cancelling
        PROVE CancelSound'
    BY <1>5
  <1>6. QED
    BY <1>1, <1>2, <1>3, <1>4, <1>5
       DEF Next, Command, Process, vars, Message, Members, Bind, Plan,
           Execute, Authorize, ResolveUnknown, Verify, Deliver, Load, Enter,
           BeforeTool, GuardPasses, Fetch, ModelAnswers, Throws, FinishPlan,
           FinishExecute, MayFinish, Fail, DiscardLateResult, WorkerCrash,
           Expire, LeaseRunsOut

(* When an unresolved run ends and gives back a task that the board shows as *)
(* running, no other run is at work on that task, so the board is right: the *)
(* common part of cancel, failure and expiry.                                *)
LEMMA GiveBackStep ==
  ASSUME TypeOK, TaskOfRun, SingleUnresolved, BoardMatchesRuns,
         NEW r \in Runs, runStatus[r] \in Unresolved,
         NEW status, status \notin {"queued", "running"},
         runStatus' = [runStatus EXCEPT ![r] = status],
         input' = input,
         NEW overwritable, "running" \in overwritable,
         NEW why, GiveBack(r, overwritable, why)
  PROVE  BoardMatchesRuns'
  <1> SUFFICES ASSUME NEW t \in Tasks
               PROVE  (taskStatus[t] = "running")'
                        <=> \E s \in Runs :
                               /\ input[s].task = t
                               /\ runStatus'[s] \in {"queued", "running"}
    BY DEF BoardMatchesRuns
  <1>1. taskStatus[t] = "running"
          <=> \E s \in Runs : /\ input[s].task = t
                              /\ runStatus[s] \in {"queued", "running"}
    BY DEF BoardMatchesRuns
  <1>2. \A s \in Runs : runStatus'[s] \in {"queued", "running"}
                          => s # r /\ runStatus'[s] = runStatus[s]
    BY DEF TypeOK
  <1>3. CASE input[r].task # t
    <2>1. taskStatus'[t] = taskStatus[t]
      BY <1>3 DEF GiveBack, Move, TypeOK
    <2>2. \A s \in Runs : input[s].task = t => runStatus'[s] = runStatus[s]
      BY <1>3 DEF TypeOK
    <2>3. QED
      BY <1>1, <2>1, <2>2
  <1>4. CASE input[r].task = t /\ taskStatus[t] \in overwritable
    <2>1. taskStatus'[t] # "running"
      BY <1>4 DEF GiveBack, Move, TypeOK
    <2>2. ASSUME NEW s \in Runs, input[s].task = t,
                 runStatus'[s] \in {"queued", "running"}
          PROVE  FALSE
      <3>1. s # r /\ runStatus[s] \in Unresolved
        BY <1>2, <2>2 DEF Unresolved, Active
      <3>2. input[s].kind = input[r].kind
        BY <1>4, <2>2 DEF TaskOfRun
      <3>3. QED
        BY <1>4, <2>2, <3>1, <3>2 DEF SingleUnresolved
    <2>3. QED
      BY <2>1, <2>2
  <1>5. CASE input[r].task = t /\ taskStatus[t] \notin overwritable
    <2>1. taskStatus'[t] = taskStatus[t]
      BY <1>5 DEF GiveBack
    <2>2. QED
      BY <1>1, <1>2, <1>5, <2>1
  <1>6. QED
    BY <1>3, <1>4, <1>5

(* No step puts the board and the runs at odds. *)
LEMMA BoardStep ==
  ASSUME IInv, [Next]_vars PROVE BoardMatchesRuns'
  <1> USE DEF IInv, board, rows
  <1>1. ASSUME taskStatus' = taskStatus, runStatus' = runStatus,
               input' = input
        PROVE  BoardMatchesRuns'
    BY <1>1 DEF BoardMatchesRuns
  <1>2. ASSUME NEW u \in Users, NEW r \in Runs, Plan(u, r)
        PROVE BoardMatchesRuns'
    <2>1. /\ taskStatus' = taskStatus
          /\ runStatus[r] = "none"
          /\ runStatus' = [runStatus EXCEPT ![r] = "queued"]
      BY <1>2 DEF Plan, Fresh, Authorize
    <2>2. input'[r].task = NoTask
          /\ \A s \in Runs \ {r} : input'[s] = input[s]
      BY <1>2 DEF Plan, Authorize, TypeOK
    <2>3. QED
      BY <2>1, <2>2, WorkAssumption DEF BoardMatchesRuns, TypeOK
  <1>3. ASSUME NEW u \in Users, NEW t \in Tasks, NEW r \in Runs,
               Execute(u, t, r)
        PROVE BoardMatchesRuns'
    <2>1. /\ taskStatus' = [taskStatus EXCEPT ![t] = "running"]
          /\ runStatus[r] = "none"
          /\ runStatus' = [runStatus EXCEPT ![r] = "queued"]
      BY <1>3 DEF Execute, Fresh, Authorize, Move
    <2>2. input'[r].task = t /\ \A s \in Runs \ {r} : input'[s] = input[s]
      BY <1>3 DEF Execute, Authorize, TypeOK
    <2>3. QED
      BY <2>1, <2>2 DEF BoardMatchesRuns, TypeOK
  <1>4. CASE CancelWrite
    <2> DEFINE r == cancelling.run
    <2>1. r \in Runs /\ runStatus[r] \in {"queued", "running"}
      BY <1>4 DEF CancelWrite, Unlocked, CancelSound, TypeOK, Cancel
    <2> DEFINE status == IF cancelling.read = "queued" THEN "stopped"
                         ELSE "cancel_requested"
    <2>2. /\ runStatus' = [runStatus EXCEPT ![r] = status]
          /\ input' = input
          /\ GiveBack(r, TaskStatus, "stopping")
      BY <1>4 DEF CancelWrite, Settle
    <2>3. status \notin {"queued", "running"} /\ "running" \in TaskStatus
      BY DEF TaskStatus
    <2>4. runStatus[r] \in Unresolved
      BY <2>1 DEF Unresolved, Active
    <2> HIDE DEF r, status
    <2>5. QED
      BY <2>1, <2>2, <2>3, <2>4, GiveBackStep
  <1>5. ASSUME NEW u \in Users, NEW r \in Runs, ResolveUnknown(u, r)
        PROVE BoardMatchesRuns'
    BY <1>5 DEF ResolveUnknown, Settle, BoardMatchesRuns, TypeOK
  <1>6. ASSUME NEW r \in Runs, Deliver(r) PROVE BoardMatchesRuns'
    BY <1>6 DEF Deliver, Confirmable, Move, BoardMatchesRuns, TypeOK
  <1>7. ASSUME NEW r \in Runs, Claim(r) PROVE BoardMatchesRuns'
    BY <1>7 DEF Claim, Claimable, BoardMatchesRuns, TypeOK
  <1>8. ASSUME NEW r \in Runs, FinishPlan(r) PROVE BoardMatchesRuns'
    <2>1. \A t \in Tasks : taskStatus'[t] = "running"
                             <=> taskStatus[t] = "running"
      <3>1. PICK plan \in Plans : /\ Applicable(plan, input[r].src)
                                  /\ taskStatus' = NextStatus(plan)
        BY <1>8 DEF FinishPlan
      <3>2. \A t \in DOMAIN plan : /\ taskStatus[t] # "running"
                                   /\ plan[t].status # "running"
        BY <3>1, WorkAssumption DEF Plans, Card, Applicable, Untouchable
      <3>3. QED
        BY <3>1, <3>2 DEF NextStatus
    <2>2. /\ input' = input
          /\ runStatus' = [runStatus EXCEPT ![r] = "succeeded"]
      BY <1>8 DEF FinishPlan, Succeed, Settle
    <2>3. input[r].task \notin Tasks
      BY <1>8 DEF FinishPlan, TaskOfRun
    <2>4. QED
      BY <2>1, <2>2, <2>3 DEF BoardMatchesRuns, TypeOK
  <1>9. ASSUME NEW r \in Runs, FinishExecute(r) PROVE BoardMatchesRuns'
    <2>1. /\ runStatus[r] = "running"
          /\ runStatus' = [runStatus EXCEPT ![r] = "succeeded"]
          /\ input' = input
          /\ input[r].task \in Tasks
          /\ taskStatus[input[r].task] = "running"
          /\ taskStatus' = [taskStatus EXCEPT ![input[r].task] = "decision"]
      BY <1>9 DEF FinishExecute, MayFinish, ExecutionGate, Succeed, Settle,
                  Move, TaskOfRun
    <2>2. \A s \in Runs : /\ runStatus[s] \in {"queued", "running"}
                          /\ input[s].task = input[r].task
                          => s = r
      BY <2>1 DEF SingleUnresolved, TaskOfRun, Unresolved, Active
    <2>3. QED
      BY <2>1, <2>2 DEF BoardMatchesRuns, TypeOK
  <1>10. ASSUME NEW r \in Runs, Fail(r) PROVE BoardMatchesRuns'
    <2>1. /\ runStatus[r] \in Unresolved
          /\ FailStatus(r) \notin {"queued", "running"}
          /\ runStatus' = [runStatus EXCEPT ![r] = FailStatus(r)]
          /\ input' = input
          /\ GiveBack(r, TaskStatus \ {"done"}, "failed")
      BY <1>10 DEF Fail, StillOurs, FailStatus, RecordedOutcome, Settle,
                   Unresolved, Active
    <2>2. "running" \in TaskStatus \ {"done"}
      BY DEF TaskStatus
    <2>3. QED
      BY <2>1, <2>2, GiveBackStep
  <1>11. ASSUME NEW r \in Runs, Expire(r) PROVE BoardMatchesRuns'
    <2>1. /\ runStatus[r] \in Unresolved
          /\ RecordedOutcome(r) \notin {"queued", "running"}
          /\ runStatus' = [runStatus EXCEPT ![r] = RecordedOutcome(r)]
          /\ input' = input
          /\ GiveBack(r, {"running"}, "expired")
      BY <1>11 DEF Expire, Leased, RecordedOutcome, Settle, Unresolved, Active
    <2>2. QED
      BY <2>1, GiveBackStep
  <1>12. QED
    BY <1>1, <1>2, <1>3, <1>4, <1>5, <1>6, <1>7, <1>8, <1>9, <1>10, <1>11
       DEF Next, Command, Process, vars, Message, Members, Bind, CancelRead,
           Verify, Load, Enter, BeforeTool, Fetch, ModelAnswers,
           Throws, DiscardLateResult, WorkerCrash, LeaseRunsOut

(* The invariant holds at first and every step keeps it. *)
LEMMA InitInvariant == Init => IInv
  <1> SUFFICES ASSUME Init PROVE IInv
    OBVIOUS
  <1>1. TypeOK
    BY InitType
  <1>2. TaskOfRun /\ CancelSound /\ SingleUnresolved
    BY WorkAssumption DEF Init, NothingRan, TaskOfRun, CancelSound,
       SingleUnresolved, Unresolved, Active, NoInput
  <1>3. BoardMatchesRuns
    BY DEF Init, EmptyBoard, NothingRan, BoardMatchesRuns
  <1>4. QED
    BY <1>1, <1>2, <1>3 DEF IInv

LEMMA NextInvariant == IInv /\ [Next]_vars => IInv'
  BY NextType, RunStep, SingleStep, CancelStep, BoardStep DEF IInv

LEMMA Invariant == Spec => []IInv
  BY InitInvariant, NextInvariant, PTL DEF Spec

-----------------------------------------------------------------------------
(* In every behaviour of the Work every variable has its type. *)
THEOREM TypeCorrect == Spec => []TypeOK
  <1>1. IInv => TypeOK
    BY DEF IInv
  <1>2. QED
    BY <1>1, Invariant, PTL

(* However claims, cancels, expiries, late failures and reviews interleave,  *)
(* a task (and the planning of a Work) never has two runs that may still be  *)
(* billed or publish.                                                        *)
THEOREM NeverTwoUnresolved == Spec => []SingleUnresolved
  <1>1. IInv => SingleUnresolved
    BY DEF IInv
  <1>2. QED
    BY <1>1, Invariant, PTL

(* The board calls a task running exactly while a run is queued or at work   *)
(* on it.                                                                    *)
THEOREM BoardIsRight == Spec => []BoardMatchesRuns
  <1>1. IInv => BoardMatchesRuns
    BY DEF IInv
  <1>2. QED
    BY <1>1, Invariant, PTL

(* A done task has no queued or running run, and nothing but such a run (or  *)
(* an execution, which the status forbids) may touch it.                     *)
LEMMA DoneStep ==
  ASSUME IInv, [Next]_vars
  PROVE  \A t \in Tasks : taskStatus[t] = "done"
                             => taskStatus'[t] = "done" /\ scope'[t] = scope[t]
  <1> DEFINE Stay == \A t \in Tasks : taskStatus[t] = "done"
                        => taskStatus'[t] = "done" /\ scope'[t] = scope[t]
  <1> USE DEF IInv, board
  <1>1. ASSUME taskStatus' = taskStatus, scope' = scope PROVE Stay
    BY <1>1
  <1>2. ASSUME NEW r \in Runs, NEW overwritable, NEW why,
               GiveBack(r, overwritable, why), scope' = scope,
               input[r].task \in Tasks
                 => \/ taskStatus[input[r].task] # "done"
                    \/ "done" \notin overwritable
        PROVE  Stay
    BY <1>2 DEF GiveBack, Move, TypeOK
  <1>3. ASSUME NEW r \in Runs, runStatus[r] \in {"queued", "running"},
               input[r].task \in Tasks
        PROVE  taskStatus[input[r].task] = "running"
    BY <1>3 DEF BoardMatchesRuns
  <1>4. ASSUME NEW u \in Users, NEW t \in Tasks, NEW r \in Runs,
               Execute(u, t, r)
        PROVE  Stay
    BY <1>4 DEF Execute, Move, TypeOK
  <1>5. CASE CancelWrite
    <2> DEFINE r == cancelling.run
    <2>1. r \in Runs /\ runStatus[r] \in {"queued", "running"}
      BY <1>5 DEF CancelWrite, Unlocked, CancelSound, TypeOK, Cancel
    <2>2. GiveBack(r, TaskStatus, "stopping") /\ scope' = scope
      BY <1>5 DEF CancelWrite
    <2> HIDE DEF r
    <2>3. QED
      BY <1>2, <1>3, <2>1, <2>2
  <1>6. ASSUME NEW r \in Runs, Deliver(r) PROVE Stay
    BY <1>6 DEF Deliver, Confirmable, Move, TypeOK
  <1>7. ASSUME NEW r \in Runs, FinishPlan(r) PROVE Stay
    <2>1. PICK plan \in Plans : /\ Applicable(plan, input[r].src)
                                /\ taskStatus' = NextStatus(plan)
                                /\ scope' = NextScope(plan, input[r].src)
      BY <1>7 DEF FinishPlan
    <2>2. \A t \in DOMAIN plan : taskStatus[t] # "done"
      BY <2>1 DEF Applicable, Untouchable
    <2>3. QED
      BY <2>1, <2>2 DEF NextStatus, NextScope
  <1>8. ASSUME NEW r \in Runs, FinishExecute(r) PROVE Stay
    BY <1>8 DEF FinishExecute, Move, TypeOK
  <1>9. ASSUME NEW r \in Runs, Fail(r) PROVE Stay
    BY <1>2, <1>9 DEF Fail
  <1>10. ASSUME NEW r \in Runs, Expire(r) PROVE Stay
    BY <1>2, <1>10 DEF Expire
  <1>11. QED
    BY <1>1, <1>4, <1>5, <1>6, <1>7, <1>8, <1>9, <1>10
       DEF Next, Command, Process, vars, Message, Members, Bind, Plan,
           CancelRead, ResolveUnknown, Verify, Claim, Load, Enter,
           BeforeTool, Fetch, ModelAnswers, Throws, DiscardLateResult,
           WorkerCrash, LeaseRunsOut

(* Whatever cancels, failures, expiries and plans come after it is done, a   *)
(* task stays done, for the scope it had.                                    *)
THEOREM DoneStays == Spec => DoneIsFinal
  <1> DEFINE Stay == \A t \in Tasks : taskStatus[t] = "done"
                        => taskStatus'[t] = "done" /\ scope'[t] = scope[t]
  <1>1. IInv /\ [Next]_vars => [Stay]_vars
    BY DoneStep
  <1>2. QED
    BY <1>1, Invariant, PTL DEF Spec, DoneIsFinal

-----------------------------------------------------------------------------
(* What the events and the local flag of a worker know of a request: no run  *)
(* sends without a reservation, a worker that has sent knows it when it      *)
(* fails, and a run that a cancel read as queued has reserved nothing.       *)
SendTracked ==
    /\ \A r \in Runs :
         /\ called[r] > 0 => r \in reserved
         /\ pc[r] \in {"claimed", "entering", "executing"} => r \notin reserved
         /\ pc[r] = "reserved" => called[r] = 0
         /\ pc[r] \in {"reserved", "calling", "returned"}
              => invoked[r] = TRUE /\ r \in reserved
         /\ pc[r] = "failing" /\ called[r] > 0 => invoked[r] = TRUE
         /\ runStatus[r] \in {"none", "queued"} => r \notin reserved
    /\ cancelling # NoRun /\ cancelling.read = "queued"
         => cancelling.run \notin reserved

(* Nothing was sent, reserved or cancelled at first. *)
LEMMA InitSend == Init => SendTracked /\ ClosedMeansNotSent /\ CallsWithinBudget
  <1> SUFFICES ASSUME Init
               PROVE  SendTracked /\ ClosedMeansNotSent /\ CallsWithinBudget
    OBVIOUS
  <1>1. SendTracked /\ ClosedMeansNotSent
    BY WorkAssumption DEF Init, NothingRan, SendTracked, ClosedMeansNotSent
  <1>2. CallsWithinBudget
    BY FS_EmptySet, WorkAssumption DEF Init, NothingRan, CallsWithinBudget
  <1>3. QED
    BY <1>1, <1>2

(* Every step keeps that knowledge. *)
LEMMA SendStep ==
  ASSUME TypeOK, CancelSound, SendTracked, [Next]_vars PROVE SendTracked'
  <1> USE WorkAssumption DEF TypeOK, SendTracked, rows, proc
  <1>1. ASSUME UNCHANGED <<called, pc, invoked, reserved, runStatus,
                           cancelling>>
        PROVE  SendTracked'
    BY <1>1
  <1>2. ASSUME NEW u \in Users, NEW r \in Runs,
               Plan(u, r) \/ \E t \in Tasks : Execute(u, t, r)
        PROVE  SendTracked'
    BY <1>2 DEF Plan, Execute, Authorize, Fresh
  <1>3. ASSUME NEW r \in Runs, CancelRead(r) PROVE SendTracked'
    BY <1>3 DEF CancelRead
  <1>4. CASE CancelWrite
    BY <1>4 DEF CancelWrite, CancelSound, Unlocked, Settle, Cancel
  <1>5. ASSUME NEW u \in Users, NEW r \in Runs, ResolveUnknown(u, r)
        PROVE  SendTracked'
    BY <1>5 DEF ResolveUnknown, Settle
  <1>6. ASSUME NEW r \in Runs, Claim(r) PROVE SendTracked'
    BY <1>6 DEF Claim, Claimable
  <1>7. ASSUME NEW r \in Runs, Load(r) \/ Enter(r) PROVE SendTracked'
    BY <1>7 DEF Load, Enter
  <1>8. ASSUME NEW r \in Runs, BeforeTool(r) PROVE SendTracked'
    <2>1. /\ pc[r] = "executing" /\ runStatus[r] = "running"
          /\ cancelling = NoRun /\ cancelling' = cancelling
          /\ reserved' = reserved \cup {r}
          /\ UNCHANGED <<runStatus, called>>
      BY <1>8 DEF BeforeTool, GuardPasses, ExecutionGate, Unlocked
    <2>2. \A s \in Runs \ {r} : pc'[s] = pc[s] /\ invoked'[s] = invoked[s]
      BY <1>8 DEF BeforeTool
    <2>3. \/ pc'[r] = "reserved" /\ invoked'[r] = TRUE
          \/ pc'[r] = "failing"
      BY <1>8 DEF BeforeTool
    <2>4. called[r] = 0
      BY <2>1
    <2>5. QED
      BY <2>1, <2>2, <2>3, <2>4
  <1>9. ASSUME NEW r \in Runs, Fetch(r) PROVE SendTracked'
    BY <1>9 DEF Fetch
  <1>10. ASSUME NEW r \in Runs, ModelAnswers(r) \/ Throws(r)
         PROVE  SendTracked'
    BY <1>10 DEF ModelAnswers, Throws
  <1>11. ASSUME NEW r \in Runs, FinishPlan(r) \/ FinishExecute(r)
         PROVE  SendTracked'
    <2>1. /\ pc[r] = "returned" /\ cancelling = NoRun
          /\ runStatus' = [runStatus EXCEPT ![r] = "succeeded"]
          /\ UNCHANGED <<called, reserved, cancelling>>
      BY <1>11 DEF FinishPlan, FinishExecute, MayFinish, Unlocked, Succeed,
                   Settle
    <2>2. \A s \in Runs \ {r} : pc'[s] = pc[s] /\ invoked'[s] = invoked[s]
      BY <1>11 DEF FinishPlan, FinishExecute, Succeed, Return
    <2>3. \/ pc'[r] = "ended"
          \/ pc'[r] = "failing" /\ invoked'[r] = invoked[r]
      BY <1>11 DEF FinishPlan, FinishExecute, Succeed, Return
    <2>4. QED
      BY <2>1, <2>2, <2>3
  <1>12. ASSUME NEW r \in Runs,
                Fail(r) \/ DiscardLateResult(r) \/ WorkerCrash(r)
         PROVE  SendTracked'
    <2>1. /\ pc'[r] = "ended"
          /\ \A s \in Runs \ {r} : pc'[s] = pc[s] /\ invoked'[s] = invoked[s]
          /\ UNCHANGED <<called, reserved, cancelling>>
      BY <1>12 DEF Fail, DiscardLateResult, WorkerCrash, Return
    <2>2. \A s \in Runs : runStatus'[s] \in {"none", "queued"}
                            => runStatus'[s] = runStatus[s]
      BY <1>12 DEF Fail, DiscardLateResult, WorkerCrash, Settle, FailStatus,
                   RecordedOutcome
    <2>3. QED
      BY <2>1, <2>2
  <1>13. ASSUME NEW r \in Runs, Expire(r) PROVE SendTracked'
    BY <1>13 DEF Expire, Settle, RecordedOutcome
  <1>14. QED
    BY <1>1, <1>2, <1>3, <1>4, <1>5, <1>6, <1>7, <1>8, <1>9, <1>10, <1>11,
       <1>12, <1>13
       DEF Next, Command, Process, vars, Message, Members, Bind, Verify,
           Deliver, LeaseRunsOut

(* No step closes a run as never sent that was sent, and none sends for a    *)
(* run that is closed.                                                       *)
LEMMA ClosedStep ==
  ASSUME TypeOK, CancelSound, SendTracked, ClosedMeansNotSent, [Next]_vars
  PROVE  ClosedMeansNotSent'
  <1> USE WorkAssumption DEF TypeOK, SendTracked, ClosedMeansNotSent, rows, proc
  <1>1. ASSUME UNCHANGED <<called, pc, runStatus>> PROVE ClosedMeansNotSent'
    BY <1>1
  <1>2. ASSUME NEW u \in Users, NEW r \in Runs,
               Plan(u, r) \/ \E t \in Tasks : Execute(u, t, r)
        PROVE  ClosedMeansNotSent'
    BY <1>2 DEF Plan, Execute, Authorize
  <1>3. CASE CancelWrite
    BY <1>3 DEF CancelWrite, CancelSound, Unlocked, Settle, Cancel
  <1>4. ASSUME NEW u \in Users, NEW r \in Runs, ResolveUnknown(u, r)
        PROVE  ClosedMeansNotSent'
    BY <1>4 DEF ResolveUnknown, Settle
  <1>5. ASSUME NEW r \in Runs, Claim(r) PROVE ClosedMeansNotSent'
    BY <1>5 DEF Claim, Claimable
  <1>6. ASSUME NEW r \in Runs, Load(r) \/ Enter(r) PROVE ClosedMeansNotSent'
    BY <1>6 DEF Load, Enter
  <1>7. ASSUME NEW r \in Runs, BeforeTool(r) PROVE ClosedMeansNotSent'
    <2>1. runStatus[r] = "running" /\ UNCHANGED <<runStatus, called>>
      BY <1>7 DEF BeforeTool, GuardPasses, ExecutionGate
    <2>2. \A s \in Runs \ {r} : pc'[s] = pc[s]
      BY <1>7 DEF BeforeTool
    <2>3. QED
      BY <2>1, <2>2
  <1>8. ASSUME NEW r \in Runs, Fetch(r) \/ ModelAnswers(r) \/ Throws(r)
        PROVE  ClosedMeansNotSent'
    BY <1>8 DEF Fetch, ModelAnswers, Throws
  <1>9. ASSUME NEW r \in Runs, FinishPlan(r) \/ FinishExecute(r)
        PROVE  ClosedMeansNotSent'
    <2>1. /\ runStatus' = [runStatus EXCEPT ![r] = "succeeded"]
          /\ called' = called
          /\ \A s \in Runs \ {r} : pc'[s] = pc[s]
      BY <1>9 DEF FinishPlan, FinishExecute, Succeed, Settle, Return
    <2>2. QED
      BY <2>1
  <1>10. ASSUME NEW r \in Runs, Fail(r) PROVE ClosedMeansNotSent'
    <2>1. /\ runStatus' = [runStatus EXCEPT ![r] = FailStatus(r)]
          /\ pc' = [pc EXCEPT ![r] = "ended"]
          /\ called' = called
          /\ pc[r] = "failing"
      BY <1>10 DEF Fail, Settle, Return
    <2>2. FailStatus(r) \in {"stopped", "blocked"} => called[r] = 0
      BY <2>1 DEF FailStatus, RecordedOutcome
    <2>3. QED
      BY <2>1, <2>2
  <1>11. ASSUME NEW r \in Runs, DiscardLateResult(r) \/ WorkerCrash(r)
         PROVE  ClosedMeansNotSent'
    BY <1>11 DEF DiscardLateResult, WorkerCrash, Return
  <1>12. ASSUME NEW r \in Runs, Expire(r) PROVE ClosedMeansNotSent'
    BY <1>12 DEF Expire, Settle, RecordedOutcome
  <1>13. QED
    BY <1>1, <1>2, <1>3, <1>4, <1>5, <1>6, <1>7, <1>8, <1>9, <1>10, <1>11,
       <1>12
       DEF Next, Command, Process, vars, Message, Members, Bind, CancelRead,
           Verify, Deliver, LeaseRunsOut

(* A reservation is made once per run, below the limit, and pays for the one *)
(* request of that run.                                                      *)
LEMMA BudgetStep ==
  ASSUME TypeOK, SendTracked, CallsWithinBudget, [Next]_vars
  PROVE  CallsWithinBudget'
  <1> USE WorkAssumption DEF TypeOK, SendTracked, CallsWithinBudget, board, rows
  <1>1. ASSUME UNCHANGED <<callsUsed, reserved, called>>
        PROVE  CallsWithinBudget'
    BY <1>1
  <1>2. ASSUME NEW r \in Runs, BeforeTool(r) PROVE CallsWithinBudget'
    <2>1. /\ r \notin reserved
          /\ callsUsed < CallLimit
          /\ callsUsed' = callsUsed + 1
          /\ reserved' = reserved \cup {r}
          /\ called' = called
      BY <1>2 DEF BeforeTool, GuardPasses
    <2>2. IsFiniteSet(reserved)
      <3>1. IsFiniteSet(Runs)
        BY FS_Interval DEF Runs
      <3>2. QED
        BY <3>1, FS_Subset
    <2>3. Cardinality(reserved') = Cardinality(reserved) + 1
      BY <2>1, <2>2, FS_AddElement
    <2>4. callsUsed' = Cardinality(reserved') /\ callsUsed' <= CallLimit
      BY <2>1, <2>3
    <2>5. \A s \in Runs : called'[s] <= IF s \in reserved' THEN 1 ELSE 0
      BY <2>1
    <2>6. QED
      BY <2>4, <2>5
  <1>3. ASSUME NEW r \in Runs, Fetch(r) PROVE CallsWithinBudget'
    BY <1>3 DEF Fetch
  <1>4. QED
    BY <1>1, <1>2, <1>3
       DEF Next, Command, Process, vars, Message, Members, Bind, Plan,
           Execute, CancelRead, CancelWrite, ResolveUnknown, Verify, Deliver,
           Claim, Load, Enter, ModelAnswers, Throws, FinishPlan,
           FinishExecute, Fail, DiscardLateResult, WorkerCrash, Expire,
           LeaseRunsOut

(* A run that is stopped or blocked never reached the model gateway and      *)
(* never will, so a person may safely repeat it without a review.            *)
THEOREM ClosedRunsWereNotSent == Spec => []ClosedMeansNotSent
  <1> DEFINE J == SendTracked /\ ClosedMeansNotSent
  <1>1. Init => J
    BY InitSend
  <1>2. IInv /\ J /\ [Next]_vars => J'
    BY SendStep, ClosedStep DEF IInv
  <1>3. QED
    BY <1>1, <1>2, Invariant, PTL DEF Spec

(* The Work never sends more requests than its limit, each of them reserved  *)
(* before, at most one per authorization.                                    *)
THEOREM BudgetHolds == Spec => []CallsWithinBudget
  <1> DEFINE J == SendTracked /\ CallsWithinBudget
  <1>1. Init => J
    BY InitSend
  <1>2. IInv /\ J /\ [Next]_vars => J'
    BY SendStep, BudgetStep DEF IInv
  <1>3. QED
    BY <1>1, <1>2, Invariant, PTL DEF Spec

-----------------------------------------------------------------------------
(* Only a run that succeeded has a draft.                                    *)
DraftsSucceeded ==
    \A r \in Runs : artifact[r].status # "none" => runStatus[r] = "succeeded"

(* No step gives a draft to a run that did not succeed, or takes back the    *)
(* success of one.                                                           *)
LEMMA DraftStep ==
  ASSUME TypeOK, CancelSound, DraftsSucceeded, [Next]_vars
  PROVE  DraftsSucceeded'
  <1> USE DEF TypeOK, DraftsSucceeded, board, rows
  <1>1. ASSUME artifact' = artifact,
               \A r \in Runs : runStatus[r] = "succeeded"
                                 => runStatus'[r] = "succeeded"
        PROVE  DraftsSucceeded'
    BY <1>1
  <1>2. ASSUME NEW r \in Runs, Verify(r) \/ Deliver(r) PROVE DraftsSucceeded'
    <2>1. artifact[r].status # "none"
      BY <1>2 DEF Verify, Deliver, Confirmable
    <2>2. /\ runStatus' = runStatus
          /\ \A s \in Runs \ {r} : artifact'[s] = artifact[s]
      BY <1>2 DEF Verify, Deliver
    <2>3. QED
      BY <2>1, <2>2
  <1>3. ASSUME NEW r \in Runs, FinishExecute(r) PROVE DraftsSucceeded'
    <2>1. runStatus' = [runStatus EXCEPT ![r] = "succeeded"]
      BY <1>3 DEF FinishExecute, Succeed, Settle
    <2>2. \A s \in Runs \ {r} : artifact'[s] = artifact[s]
      BY <1>3 DEF FinishExecute
    <2>3. QED
      BY <2>1, <2>2
  <1>4. ASSUME NEW u \in Users, NEW r \in Runs,
               Plan(u, r) \/ \E t \in Tasks : Execute(u, t, r)
        PROVE  DraftsSucceeded'
    BY <1>1, <1>4 DEF Plan, Execute, Fresh, Authorize
  <1>5. CASE CancelWrite
    BY <1>1, <1>5 DEF CancelWrite, CancelSound, Unlocked, Settle, Cancel
  <1>6. ASSUME NEW u \in Users, NEW r \in Runs, ResolveUnknown(u, r)
        PROVE  DraftsSucceeded'
    BY <1>1, <1>6 DEF ResolveUnknown, Settle
  <1>7. ASSUME NEW r \in Runs, Claim(r) PROVE DraftsSucceeded'
    BY <1>1, <1>7 DEF Claim, Claimable
  <1>8. ASSUME NEW r \in Runs, FinishPlan(r) PROVE DraftsSucceeded'
    BY <1>1, <1>8 DEF FinishPlan, Succeed, Settle
  <1>9. ASSUME NEW r \in Runs, Fail(r) PROVE DraftsSucceeded'
    BY <1>1, <1>9 DEF Fail, StillOurs, Settle
  <1>10. ASSUME NEW r \in Runs, Expire(r) PROVE DraftsSucceeded'
    BY <1>1, <1>10 DEF Expire, Leased, Settle
  <1>11. QED
    BY <1>1, <1>2, <1>3, <1>4, <1>5, <1>6, <1>7, <1>8, <1>9, <1>10
       DEF Next, Command, Process, vars, Message, Members, Bind, CancelRead,
           Load, Enter, BeforeTool, Fetch, ModelAnswers, Throws,
           DiscardLateResult, WorkerCrash, LeaseRunsOut

(* While a run of a task is queued or running the task is "running", which   *)
(* no plan may touch, and no role may be bound anew.                         *)
LEMMA ScopeStep ==
  ASSUME IInv, DraftsSucceeded, AuthorizedScopeHolds, [Next]_vars
  PROVE  AuthorizedScopeHolds'
  <1> USE DEF IInv, board, rows
  <1>1. ASSUME UNCHANGED <<scope, agents, input>>,
               \A r \in Runs : runStatus'[r] \in {"queued", "running"}
                                 => runStatus[r] \in {"queued", "running"},
               \A r \in Runs : /\ artifact'[r].scope = artifact[r].scope
                               /\ artifact'[r].status # "none"
                                    => artifact[r].status # "none"
        PROVE  AuthorizedScopeHolds'
    BY <1>1 DEF AuthorizedScopeHolds
  <1>2. ASSUME NEW i \in Instances, NEW role \in {"coordinator", "expert"},
               Bind(i, role)
        PROVE  AuthorizedScopeHolds'
    BY <1>2 DEF Bind, NoActiveRun, Active, AuthorizedScopeHolds
  <1>3. ASSUME NEW u \in Users, NEW r \in Runs, Plan(u, r)
        PROVE  AuthorizedScopeHolds'
    <2>1. /\ runStatus[r] = "none"
          /\ runStatus' = [runStatus EXCEPT ![r] = "queued"]
          /\ UNCHANGED <<scope, agents, artifact>>
      BY <1>3 DEF Plan, Fresh, Authorize
    <2>2. /\ input'[r].kind = "plan"
          /\ \A s \in Runs \ {r} : input'[s] = input[s]
      BY <1>3 DEF Plan, Authorize, TypeOK
    <2>3. artifact[r].status = "none"
      BY <2>1 DEF DraftsSucceeded
    <2>4. QED
      BY <2>1, <2>2, <2>3 DEF AuthorizedScopeHolds, TypeOK
  <1>4. ASSUME NEW u \in Users, NEW t \in Tasks, NEW r \in Runs,
               Execute(u, t, r)
        PROVE  AuthorizedScopeHolds'
    <2>1. /\ runStatus[r] = "none"
          /\ runStatus' = [runStatus EXCEPT ![r] = "queued"]
          /\ agents[scope[t].owner] = "expert"
          /\ UNCHANGED <<scope, agents, artifact>>
      BY <1>4 DEF Execute, Fresh, Authorize
    <2>2. /\ input'[r].task = t
          /\ input'[r].scope = scope[t]
          /\ input'[r].instance = scope[t].owner
          /\ \A s \in Runs \ {r} : input'[s] = input[s]
      BY <1>4 DEF Execute, Authorize, TypeOK
    <2>3. artifact[r].status = "none"
      BY <2>1 DEF DraftsSucceeded
    <2>4. QED
      BY <2>1, <2>2, <2>3 DEF AuthorizedScopeHolds, TypeOK
  <1>5. CASE CancelWrite
    BY <1>1, <1>5 DEF CancelWrite, CancelSound, Unlocked, Settle, Cancel, TypeOK
  <1>6. ASSUME NEW u \in Users, NEW r \in Runs, ResolveUnknown(u, r)
        PROVE  AuthorizedScopeHolds'
    BY <1>1, <1>6 DEF ResolveUnknown, Settle, TypeOK
  <1>7. ASSUME NEW r \in Runs, Verify(r) \/ Deliver(r)
        PROVE  AuthorizedScopeHolds'
    <2>1. \A s \in Runs : artifact'[s].scope = artifact[s].scope
      BY <1>7 DEF Verify, Deliver, TypeOK, Artifact
    <2>2. /\ artifact[r].status # "none"
          /\ \A s \in Runs \ {r} : artifact'[s] = artifact[s]
          /\ UNCHANGED <<scope, agents, input, runStatus>>
      BY <1>7 DEF Verify, Deliver, Confirmable, TypeOK
    <2>3. QED
      BY <1>1, <2>1, <2>2
  <1>8. ASSUME NEW r \in Runs, Claim(r) PROVE AuthorizedScopeHolds'
    BY <1>1, <1>8 DEF Claim, Claimable, TypeOK
  <1>9. ASSUME NEW r \in Runs, FinishPlan(r) PROVE AuthorizedScopeHolds'
    <2>1. PICK plan \in Plans : /\ Applicable(plan, input[r].src)
                                /\ scope' = NextScope(plan, input[r].src)
      BY <1>9 DEF FinishPlan
    <2>2. \A t \in Tasks : taskStatus[t] = "running" => scope'[t] = scope[t]
      BY <2>1 DEF NextScope, Applicable, Untouchable
    <2>3. /\ UNCHANGED <<agents, artifact, input>>
          /\ runStatus' = [runStatus EXCEPT ![r] = "succeeded"]
      BY <1>9 DEF FinishPlan, Succeed, Settle
    <2>4. \A s \in Runs : /\ input[s].kind = "execute"
                          /\ runStatus'[s] \in {"queued", "running"}
             => /\ runStatus[s] \in {"queued", "running"}
                /\ scope'[input[s].task] = scope[input[s].task]
      BY <2>2, <2>3 DEF TaskOfRun, BoardMatchesRuns, TypeOK
    <2>5. QED
      BY <2>3, <2>4 DEF AuthorizedScopeHolds
  <1>10. ASSUME NEW r \in Runs, FinishExecute(r) PROVE AuthorizedScopeHolds'
    <2>1. /\ input[r].kind = "execute" /\ runStatus[r] = "running"
          /\ runStatus' = [runStatus EXCEPT ![r] = "succeeded"]
          /\ UNCHANGED <<scope, agents, input>>
      BY <1>10 DEF FinishExecute, MayFinish, ExecutionGate, Succeed, Settle
    <2>2. /\ artifact'[r].scope = scope[input[r].task]
          /\ \A s \in Runs \ {r} : artifact'[s] = artifact[s]
      BY <1>10 DEF FinishExecute, TypeOK
    <2>3. QED
      BY <2>1, <2>2 DEF AuthorizedScopeHolds, TypeOK
  <1>11. ASSUME NEW r \in Runs, Fail(r) PROVE AuthorizedScopeHolds'
    BY <1>1, <1>11 DEF Fail, FailStatus, RecordedOutcome, Settle, TypeOK
  <1>12. ASSUME NEW r \in Runs, Expire(r) PROVE AuthorizedScopeHolds'
    BY <1>1, <1>12 DEF Expire, RecordedOutcome, Settle, TypeOK
  <1>13. QED
    BY <1>1, <1>2, <1>3, <1>4, <1>5, <1>6, <1>7, <1>8, <1>9, <1>10, <1>11,
       <1>12
       DEF Next, Command, Process, vars, Message, Members, CancelRead,
           Load, Enter, BeforeTool, Fetch, ModelAnswers, Throws,
           DiscardLateResult, WorkerCrash, LeaseRunsOut

(* What a person authorized is what is executed and what the draft is stored *)
(* for, whatever plans and bindings come between.                            *)
THEOREM AuthorizedScopeIsExecuted == Spec => []AuthorizedScopeHolds
  <1> DEFINE J == DraftsSucceeded /\ AuthorizedScopeHolds
  <1>1. Init => J
    BY DEF Init, NothingRan, DraftsSucceeded, AuthorizedScopeHolds,
           NoInput, NoArtifact
  <1>2. IInv /\ J /\ [Next]_vars => J'
    BY DraftStep, ScopeStep DEF IInv
  <1>3. QED
    BY <1>1, <1>2, Invariant, PTL DEF Spec

=============================================================================
