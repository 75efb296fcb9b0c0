------------------------- MODULE WorkResultsProofs -------------------------
(* Proofs about what the runs of a Work produce: which results are applied,  *)
(* which drafts are delivered, what done says, and that the runs keep the    *)
(* promise of WorkAuthorization.  They rest on the inductive invariant of    *)
(* WorkRunsProofs.                                                           *)
EXTENDS WorkRunsProofs

-----------------------------------------------------------------------------
(* A run succeeds by a finish() that passed its checks and by nothing else.  *)
LEMMA SuccessStep ==
  ASSUME TypeOK, [Next]_vars,
         NEW r \in Runs, runStatus[r] # "succeeded",
         runStatus'[r] = "succeeded"
  PROVE  FinishPlan(r) \/ FinishExecute(r)
  <1> USE DEF TypeOK, board, rows
  <1>1. runStatus' # runStatus
    OBVIOUS
  <1>2. ASSUME NEW s \in Runs, NEW status, status # "succeeded",
               runStatus' = [runStatus EXCEPT ![s] = status]
        PROVE  FALSE
    BY <1>2
  <1>3. ASSUME NEW u \in Users, NEW s \in Runs,
               Plan(u, s) \/ \E t \in Tasks : Execute(u, t, s)
        PROVE  FALSE
    BY <1>2, <1>3 DEF Plan, Execute, Authorize
  <1>4. CASE CancelWrite
    BY <1>2, <1>4 DEF CancelWrite, Unlocked, Cancel, Settle
  <1>5. ASSUME NEW u \in Users, NEW s \in Runs, ResolveUnknown(u, s)
        PROVE  FALSE
    BY <1>2, <1>5 DEF ResolveUnknown, Settle
  <1>6. ASSUME NEW s \in Runs, Claim(s) PROVE FALSE
    BY <1>2, <1>6 DEF Claim
  <1>7. ASSUME NEW s \in Runs, Fail(s) PROVE FALSE
    BY <1>2, <1>7 DEF Fail, FailStatus, RecordedOutcome, Settle
  <1>8. ASSUME NEW s \in Runs, Expire(s) PROVE FALSE
    BY <1>2, <1>8 DEF Expire, RecordedOutcome, Settle
  <1>9. ASSUME NEW s \in Runs, FinishPlan(s) \/ FinishExecute(s)
        PROVE  s = r
    BY <1>9 DEF FinishPlan, FinishExecute, Succeed, Settle
  <1>10. QED
    BY <1>1, <1>3, <1>4, <1>5, <1>6, <1>7, <1>8, <1>9
       DEF Next, Command, Process, vars, Message, Members, Bind, CancelRead,
           Verify, Deliver, Load, Enter, BeforeTool, Fetch, ModelAnswers,
           Throws, DiscardLateResult, WorkerCrash, LeaseRunsOut

(* Runs are numbered in the order of their authorization; of two plans the   *)
(* earlier one is decided; no card is newer than the newest message.         *)
InTurn ==
    /\ \A r, s \in Runs : r < s /\ runStatus[r] = "none"
                            => runStatus[s] = "none"
    /\ \A r, s \in Runs :
          r < s /\ input[r].kind = "plan" /\ input[s].kind = "plan"
            => runStatus[r] \notin Unresolved
    /\ \A t \in Tasks : scope[t].src <= latest

(* A run is authorized after all the others, and a plan only when the plans  *)
(* before it are decided.                                                    *)
LEMMA TurnStep ==
  ASSUME IInv, InTurn, [Next]_vars
  PROVE  /\ \A r, s \in Runs : r < s /\ runStatus'[r] = "none"
                                => runStatus'[s] = "none"
         /\ \A r, s \in Runs :
               r < s /\ input'[r].kind = "plan" /\ input'[s].kind = "plan"
                 => runStatus'[r] \notin Unresolved
  <1> USE DEF IInv, InTurn
  <1>1. CASE RunsAdvance
    BY <1>1 DEF RunsAdvance
  <1>2. ASSUME NEW q \in Runs, RunCreated(q)
        PROVE  /\ \A r, s \in Runs : r < s /\ runStatus'[r] = "none"
                                      => runStatus'[s] = "none"
               /\ \A r, s \in Runs :
                     r < s /\ input'[r].kind = "plan" /\ input'[s].kind = "plan"
                       => runStatus'[r] \notin Unresolved
    <2>1. PICK in \in Input :
            /\ \/ in.kind = "execute" /\ in.task \in Tasks
               \/ in.kind = "plan" /\ in.task = NoTask
            /\ MayDispatch(in.kind, in.task)
            /\ input' = [input EXCEPT ![q] = in]
      BY <1>2 DEF RunCreated
    <2>2. /\ runStatus[q] = "none"
          /\ \A s \in Runs : s < q => runStatus[s] # "none"
          /\ runStatus' = [runStatus EXCEPT ![q] = "queued"]
      BY <1>2 DEF RunCreated
    <2>3. /\ input'[q] = in /\ runStatus'[q] = "queued"
          /\ \A s \in Runs \ {q} : /\ input'[s] = input[s]
                                    /\ runStatus'[s] = runStatus[s]
      BY <2>1, <2>2 DEF TypeOK
    <2>4. \A s \in Runs : q < s => /\ runStatus[s] = "none"
                                  /\ input'[s].kind # "plan"
      BY <2>2, <2>3 DEF TaskOfRun, Runs
    <2>5. \A r \in Runs : r < q /\ input[r].kind = "plan" /\ in.kind = "plan"
                            => runStatus[r] \notin Unresolved
      BY <2>1 DEF MayDispatch, TaskOfRun
    <2>6. ASSUME NEW r \in Runs, NEW s \in Runs, r < s
          PROVE  /\ runStatus'[r] = "none" => runStatus'[s] = "none"
                 /\ input'[r].kind = "plan" /\ input'[s].kind = "plan"
                      => runStatus'[r] \notin Unresolved
      <3>1. CASE r = q
        BY <2>3, <2>4, <2>6, <3>1
      <3>2. CASE s = q
        BY <2>2, <2>3, <2>5, <2>6, <3>2 DEF Runs
      <3>3. CASE r # q /\ s # q
        BY <2>3, <2>6, <3>3
      <3>4. QED
        BY <3>1, <3>2, <3>3
    <2>7. QED
      BY <2>6
  <1>3. QED
    BY <1>1, <1>2, RunStep

(* Cards change by plans only, and a plan answers the newest message.        *)
LEMMA SourceStep ==
  ASSUME IInv, InTurn, [Next]_vars, NEW t \in Tasks
  PROVE  scope[t].src <= scope'[t].src /\ scope'[t].src <= latest'
  <1> USE DEF IInv, board
  <1>0. scope[t].src \in Nat /\ latest \in Nat /\ scope[t].src <= latest
    BY WorkAssumption DEF TypeOK, Scope, InTurn
  <1>1. ASSUME scope' = scope, latest' = latest \/ latest' = latest + 1
        PROVE  scope[t].src <= scope'[t].src /\ scope'[t].src <= latest'
    BY <1>0, <1>1
  <1>2. ASSUME NEW r \in Runs, FinishPlan(r)
        PROVE  scope[t].src <= scope'[t].src /\ scope'[t].src <= latest'
    <2>1. /\ latest' = latest
          /\ \E plan \in Plans : scope' = NextScope(plan, latest)
      BY <1>2 DEF FinishPlan
    <2>2. scope'[t].src \in {scope[t].src, latest}
      BY <2>1 DEF NextScope
    <2>3. QED
      BY <1>0, <2>1, <2>2
  <1>3. QED
    BY <1>1, <1>2
       DEF Next, Command, Process, vars, Message, Members, Bind, Plan, Execute,
           CancelRead, CancelWrite, ResolveUnknown, Verify, Deliver, Claim,
           Load, Enter, BeforeTool, Fetch, ModelAnswers, Throws, FinishExecute,
           Fail, DiscardLateResult, WorkerCrash, Expire, LeaseRunsOut

(* However plans are cancelled, expire, fail late and are reviewed, their    *)
(* answers are applied in the order of their authorization, and no card goes *)
(* back to an earlier message.                                               *)
THEOREM PlansTakeTurns == Spec => PlansInTurn
  <1> DEFINE Ordered ==
               /\ \A t \in Tasks : scope[t].src <= scope'[t].src
               /\ \A r, s \in Runs :
                     /\ r < s /\ input[r].kind = "plan" /\ input[s].kind = "plan"
                     /\ runStatus[r] # "succeeded"
                     => runStatus'[r] # "succeeded"
  <1>1. Init => InTurn
    BY WorkAssumption
       DEF Init, EmptyBoard, NothingRan, InTurn, NoInput, NoScope
  <1>2. IInv /\ InTurn /\ [Next]_vars => InTurn'
    BY TurnStep, SourceStep DEF InTurn
  <1>3. ASSUME IInv, InTurn, [Next]_vars PROVE Ordered
    <2>1. \A t \in Tasks : scope[t].src <= scope'[t].src
      BY <1>3, SourceStep
    <2>2. ASSUME NEW r \in Runs, NEW s \in Runs, r < s,
                 input[r].kind = "plan", input[s].kind = "plan",
                 runStatus[r] # "succeeded", runStatus'[r] = "succeeded"
          PROVE  FALSE
      <3>1. FinishPlan(r) \/ FinishExecute(r)
        BY <1>3, <2>2, SuccessStep DEF IInv
      <3>2. runStatus[r] \in Unresolved
        BY <3>1 DEF FinishPlan, FinishExecute, MayFinish, ExecutionGate,
                    Unresolved, Active
      <3>3. QED
        BY <1>3, <2>2, <3>2 DEF InTurn
    <2>3. QED
      BY <2>1, <2>2
  <1>4. IInv /\ InTurn /\ [Next]_vars => [Ordered]_vars
    BY <1>3
  <1>5. QED
    BY <1>1, <1>2, <1>4, Invariant, PTL DEF Spec, PlansInTurn

-----------------------------------------------------------------------------
(* A card leaves "running" or "done", or keeps status and scope, unless it   *)
(* is just executed or delivered: no plan and no end of a run makes a card   *)
(* running or done, and none rewrites one that is.                           *)
LEMMA SettledStep ==
  ASSUME IInv, [Next]_vars, NEW t \in Tasks,
         taskStatus'[t] \in {"running", "done"}
  PROVE  \/ taskStatus[t] = taskStatus'[t] /\ scope'[t] = scope[t]
         \/ /\ \E u \in Users, r \in Runs : Execute(u, t, r)
            /\ taskStatus'[t] = "running"
         \/ /\ \E r \in Runs : input[r].task = t /\ Deliver(r)
            /\ taskStatus'[t] = "done"
  <1> DEFINE Kept == taskStatus[t] = taskStatus'[t] /\ scope'[t] = scope[t]
  <1> USE DEF IInv, TypeOK, board
  <1>1. ASSUME UNCHANGED <<taskStatus, scope>> PROVE Kept
    BY <1>1
  <1>2. ASSUME NEW r, NEW overwritable, NEW why,
               GiveBack(r, overwritable, why), scope' = scope
        PROVE  Kept
    BY <1>2 DEF GiveBack, Move
  <1>3. CASE CancelWrite
    <2>1. GiveBack(cancelling.run, TaskStatus, "stopping") /\ scope' = scope
      BY <1>3 DEF CancelWrite
    <2>2. QED
      BY <1>2, <2>1
  <1>4. ASSUME NEW r \in Runs, Fail(r) PROVE Kept
    BY <1>2, <1>4 DEF Fail
  <1>5. ASSUME NEW r \in Runs, Expire(r) PROVE Kept
    BY <1>2, <1>5 DEF Expire
  <1>6. ASSUME NEW r \in Runs, FinishPlan(r) PROVE Kept
    <2>1. PICK plan \in Plans : /\ Applicable(plan, input[r].src)
                                /\ taskStatus' = NextStatus(plan)
                                /\ scope' = NextScope(plan, input[r].src)
      BY <1>6 DEF FinishPlan
    <2>2. t \notin DOMAIN plan
      <3>1. t \in DOMAIN plan => plan[t].status \notin {"running", "done"}
        BY WorkAssumption DEF Plans, Card
      <3>2. QED
        BY <2>1, <3>1 DEF NextStatus
    <2>3. QED
      BY <2>1, <2>2 DEF NextStatus, NextScope
  <1>7. ASSUME NEW r \in Runs, FinishExecute(r) PROVE Kept
    BY <1>7 DEF FinishExecute, Move
  <1>8. ASSUME NEW u \in Users, NEW s \in Tasks, NEW r \in Runs,
               Execute(u, s, r)
        PROVE  \/ Kept
               \/ s = t /\ taskStatus'[t] = "running"
    BY <1>8 DEF Execute, Move
  <1>9. ASSUME NEW r \in Runs, Deliver(r)
        PROVE  \/ Kept
               \/ input[r].task = t /\ taskStatus'[t] = "done"
    BY <1>9 DEF Deliver, Move
  <1>10. QED
    BY <1>1, <1>3, <1>4, <1>5, <1>6, <1>7, <1>8, <1>9
       DEF Next, Command, Process, vars, Message, Members, Bind, Plan,
           CancelRead, ResolveUnknown, Verify, Claim, Load, Enter,
           BeforeTool, Fetch, ModelAnswers, Throws, DiscardLateResult,
           WorkerCrash, LeaseRunsOut

(* Drafts change by verification, delivery and the end of an execution only, *)
(* and the run that has a draft keeps its input.                             *)
LEMMA ArtifactStep ==
  ASSUME IInv, DraftsSucceeded, [Next]_vars
  PROVE  \/ /\ artifact' = artifact
            /\ \A r \in Runs : artifact[r].status # "none"
                                 => input'[r] = input[r]
         \/ \E r \in Runs : Verify(r) \/ Deliver(r) \/ FinishExecute(r)
  <1> USE DEF board, rows
  <1>1. ASSUME NEW u \in Users, NEW r \in Runs,
               Plan(u, r) \/ \E t \in Tasks : Execute(u, t, r)
        PROVE  /\ artifact' = artifact
               /\ \A s \in Runs : artifact[s].status # "none"
                                    => input'[s] = input[s]
    BY <1>1 DEF Plan, Execute, Authorize, Fresh, DraftsSucceeded, IInv, TypeOK
  <1>2. QED
    BY <1>1
       DEF Next, Command, Process, vars, Message, Members, Bind, CancelRead,
           CancelWrite, ResolveUnknown, Claim, Load, Enter, BeforeTool, Fetch,
           ModelAnswers, Throws, FinishPlan, Fail, DiscardLateResult,
           WorkerCrash, Expire, LeaseRunsOut

(* What a draft was written for rests on done tasks only: it was written     *)
(* while its task was running, and done tasks stay done.                     *)
DraftsRestOnDone ==
    \A r \in Runs : artifact[r].status # "none"
       => \A d \in artifact[r].scope.deps : taskStatus[d] = "done"

(* What verification, delivery and the end of an execution do to the drafts. *)
LEMMA DraftWritten ==
  ASSUME TypeOK, NEW r \in Runs, Verify(r) \/ Deliver(r) \/ FinishExecute(r)
  PROVE  /\ input' = input
         /\ \A s \in Runs \ {r} : artifact'[s] = artifact[s]
         /\ FinishExecute(r)
              => artifact'[r] = [status |-> "draft", scope |-> scope[input[r].task],
                                 version |-> Cardinality(DraftsOf(input[r].task)) + 1]
         /\ ~FinishExecute(r)
              => /\ artifact[r].status \in {"draft", "verified"}
                 /\ artifact'[r].status
                      = IF Deliver(r) THEN "delivered" ELSE "verified"
                 /\ artifact'[r].scope = artifact[r].scope
                 /\ artifact'[r].version = artifact[r].version
  <1> USE DEF TypeOK, rows
  <1>1. CASE Verify(r)
    <2>1. Deliver(r) => FALSE
      BY <1>1 DEF Verify, Deliver, Artifact
    <2>2. QED
      BY <1>1, <2>1 DEF Verify, Confirmable, FinishExecute, Artifact
  <1>2. CASE Deliver(r)
    BY <1>2 DEF Deliver, Confirmable, FinishExecute, Artifact
  <1>3. CASE FinishExecute(r)
    BY <1>3 DEF FinishExecute
  <1>4. QED
    BY <1>1, <1>2, <1>3

(* A draft keeps resting on done tasks. *)
LEMMA RestStep ==
  ASSUME IInv, DraftsSucceeded, DoneIsClosed, DraftsRestOnDone, [Next]_vars
  PROVE  DraftsRestOnDone'
  <1> SUFFICES ASSUME NEW r \in Runs, artifact'[r].status # "none",
                      NEW d \in artifact'[r].scope.deps
               PROVE  taskStatus'[d] = "done"
    BY DEF DraftsRestOnDone
  <1> USE DEF IInv
  <1>1. artifact'[r].scope.deps \in SUBSET Tasks
    BY NextType DEF TypeOK, Artifact, Scope
  <1>2. taskStatus[d] = "done"
    <2>1. CASE artifact'[r] = artifact[r]
      BY <2>1 DEF DraftsRestOnDone
    <2>2. CASE FinishExecute(r)
      <3>1. /\ input[r].task \in Tasks
            /\ taskStatus[input[r].task] = "running"
        BY <2>2 DEF FinishExecute, TaskOfRun
      <3>2. artifact'[r].scope = scope[input[r].task]
        BY <2>2 DEF FinishExecute, TypeOK
      <3>3. QED
        BY <3>1, <3>2 DEF DoneIsClosed, DependenciesDone
    <2>3. CASE ~FinishExecute(r) /\ (Verify(r) \/ Deliver(r))
      <3>1. /\ artifact[r].status # "none"
            /\ artifact'[r].scope = artifact[r].scope
        BY <2>3, DraftWritten
      <3>2. QED
        BY <3>1 DEF DraftsRestOnDone
    <2>4. QED
      BY <2>1, <2>2, <2>3, ArtifactStep, DraftWritten
  <1>3. QED
    BY <1>1, <1>2, DoneStep

(* No step makes a task running or done on a dependency that is not, or      *)
(* takes a dependency of such a task back.                                   *)
LEMMA DependenciesStep ==
  ASSUME IInv, DraftsSucceeded, DoneIsClosed, DraftsRestOnDone, [Next]_vars
  PROVE  DoneIsClosed'
  <1> SUFFICES ASSUME NEW t \in Tasks, taskStatus'[t] \in {"running", "done"},
                      NEW d \in scope'[t].deps
               PROVE  taskStatus'[d] = "done"
    BY DEF DoneIsClosed, DependenciesDone
  <1> USE DEF IInv
  <1>1. scope'[t].deps \in SUBSET Tasks
    BY NextType DEF TypeOK, Scope
  <1>2. taskStatus[d] = "done"
    <2>1. CASE taskStatus[t] = taskStatus'[t] /\ scope'[t] = scope[t]
      BY <2>1 DEF DoneIsClosed, DependenciesDone
    <2>2. ASSUME NEW u \in Users, NEW r \in Runs, Execute(u, t, r)
          PROVE  taskStatus[d] = "done"
      BY <2>2 DEF Execute, DependenciesDone
    <2>3. ASSUME NEW r \in Runs, input[r].task = t, Deliver(r)
          PROVE  taskStatus[d] = "done"
      <3>1. /\ artifact[r].status # "none"
            /\ scope'[t] = artifact[r].scope
        BY <2>3 DEF Deliver, Confirmable
      <3>2. QED
        BY <3>1 DEF DraftsRestOnDone
    <2>4. QED
      BY <2>1, <2>2, <2>3, SettledStep
  <1>3. QED
    BY <1>1, <1>2, DoneStep

(* At first no task is there and no run has a draft.                         *)
LEMMA InitDrafts == Init => DraftsSucceeded /\ DoneIsClosed /\ DraftsRestOnDone
  BY DEF Init, EmptyBoard, NothingRan, DraftsSucceeded, DoneIsClosed,
         DraftsRestOnDone, NoArtifact

(* Plans rewrite dependencies at any time and cards are given back at any    *)
(* time, and still a task that runs or is done depends on done tasks only.   *)
THEOREM DoneRestsOnDone == Spec => []DoneIsClosed
  <1> DEFINE J == DraftsSucceeded /\ DoneIsClosed /\ DraftsRestOnDone
  <1>1. Init => J
    BY InitDrafts
  <1>2. IInv /\ J /\ [Next]_vars => J'
    BY DraftStep, RestStep, DependenciesStep DEF IInv
  <1>3. QED
    BY <1>1, <1>2, Invariant, PTL DEF Spec

-----------------------------------------------------------------------------
(* A draft is a draft of a task; the drafts of one task have the versions 1  *)
(* to their number, each once.                                               *)
VersionsApart ==
    /\ \A r \in Runs : artifact[r].status # "none" => input[r].task \in Tasks
    /\ \A t \in Tasks : \A r \in DraftsOf(t) :
          artifact[r].version <= Cardinality(DraftsOf(t))
    /\ \A t \in Tasks : \A r, s \in DraftsOf(t) :
          artifact[r].version = artifact[s].version => r = s

(* Only the end of an execution adds a draft, to the drafts of its task.     *)
LEMMA DraftsOfStep ==
  ASSUME IInv, DraftsSucceeded, [Next]_vars
  PROVE  \/ /\ ~ \E r \in Runs : FinishExecute(r)
            /\ \A t \in Tasks : DraftsOf(t)' = DraftsOf(t)
         \/ \E r \in Runs :
               /\ FinishExecute(r)
               /\ input[r].task \in Tasks
               /\ r \notin DraftsOf(input[r].task)
               /\ \A t \in Tasks :
                    DraftsOf(t)' = IF t = input[r].task
                                   THEN DraftsOf(t) \cup {r} ELSE DraftsOf(t)
  <1> USE DEF IInv
  <1>1. ASSUME artifact' = artifact,
               \A r \in Runs : artifact[r].status # "none"
                                 => input'[r] = input[r]
        PROVE  \A t \in Tasks : DraftsOf(t)' = DraftsOf(t)
    BY <1>1 DEF DraftsOf
  <1>2. ASSUME NEW r \in Runs, Verify(r) \/ Deliver(r), ~FinishExecute(r)
        PROVE  \A t \in Tasks : DraftsOf(t)' = DraftsOf(t)
    <2>1. /\ input' = input
          /\ artifact[r].status # "none" /\ artifact'[r].status # "none"
          /\ \A s \in Runs \ {r} : artifact'[s] = artifact[s]
      BY <1>2, DraftWritten
    <2>2. QED
      BY <2>1 DEF DraftsOf
  <1>3. ASSUME NEW r \in Runs, FinishExecute(r)
        PROVE  /\ input[r].task \in Tasks
               /\ r \notin DraftsOf(input[r].task)
               /\ \A t \in Tasks :
                    DraftsOf(t)' = IF t = input[r].task
                                   THEN DraftsOf(t) \cup {r} ELSE DraftsOf(t)
    <2>1. /\ input[r].task \in Tasks
          /\ runStatus[r] = "running"
      BY <1>3 DEF FinishExecute, MayFinish, ExecutionGate, TaskOfRun
    <2>2. artifact[r].status = "none"
      BY <2>1 DEF DraftsSucceeded
    <2>3. /\ input' = input
          /\ artifact'[r].status = "draft"
          /\ \A s \in Runs \ {r} : artifact'[s] = artifact[s]
      BY <1>3 DEF FinishExecute, TypeOK
    <2>4. QED
      BY <2>1, <2>2, <2>3 DEF DraftsOf
  <1>4. CASE \E r \in Runs : FinishExecute(r)
    BY <1>3, <1>4
  <1>5. CASE ~ \E r \in Runs : FinishExecute(r)
    BY <1>1, <1>2, <1>5, ArtifactStep
  <1>6. QED
    BY <1>4, <1>5

(* A new draft gets the next version; the others keep theirs.                *)
LEMMA VersionStep ==
  ASSUME IInv, DraftsSucceeded, VersionsApart, [Next]_vars
  PROVE  VersionsApart'
  <1> USE DEF IInv
  <1>n. \A t : Cardinality(DraftsOf(t)) \in Nat
    BY DraftsFinite, FS_CardinalityType
  <1>v. \A r \in Runs : artifact[r].version \in Nat
    BY DEF TypeOK, Artifact
  <1>1. ASSUME NEW r \in Runs, FinishExecute(r),
               input[r].task \in Tasks, r \notin DraftsOf(input[r].task),
               \A t \in Tasks :
                 DraftsOf(t)' = IF t = input[r].task
                                THEN DraftsOf(t) \cup {r} ELSE DraftsOf(t)
        PROVE  VersionsApart'
    <2> PICK t \in Tasks : t = input[r].task
      BY <1>1
    <2>1. /\ input' = input
          /\ artifact'[r].version = Cardinality(DraftsOf(t)) + 1
          /\ \A s \in Runs \ {r} : artifact'[s] = artifact[s]
      BY <1>1 DEF FinishExecute, TypeOK
    <2>2. Cardinality(DraftsOf(t) \cup {r}) = Cardinality(DraftsOf(t)) + 1
      BY <1>1, DraftsFinite, FS_AddElement
    <2>3. \A u \in Tasks : \A s \in DraftsOf(u) : s # r
      BY <1>1 DEF DraftsOf
    <2>4. \A s \in Runs : artifact'[s].status # "none" => input'[s].task \in Tasks
      BY <1>1, <2>1 DEF VersionsApart
    <2>5. \A u \in Tasks \ {t} :
            /\ DraftsOf(u)' = DraftsOf(u)
            /\ \A s \in DraftsOf(u) : artifact'[s] = artifact[s]
      BY <1>1, <2>1, <2>3 DEF DraftsOf
    <2>6. /\ DraftsOf(t)' = DraftsOf(t) \cup {r}
          /\ Cardinality(DraftsOf(t)') = Cardinality(DraftsOf(t)) + 1
          /\ \A s \in DraftsOf(t) : /\ artifact'[s] = artifact[s]
                                    /\ artifact[s].version \in Nat
      BY <1>1, <1>v, <2>1, <2>2, <2>3 DEF DraftsOf
    <2>7. \A s \in DraftsOf(t)' :
            artifact'[s].version <= Cardinality(DraftsOf(t)')
      BY <1>1, <1>n, <2>1, <2>6 DEF VersionsApart
    <2>8. \A s, q \in DraftsOf(t)' :
            artifact'[s].version = artifact'[q].version => s = q
      <3>1. \A s \in DraftsOf(t) :
              artifact[s].version # Cardinality(DraftsOf(t)) + 1
        BY <1>1, <1>n, <2>6 DEF VersionsApart
      <3>2. QED
        BY <2>1, <2>6, <3>1 DEF VersionsApart
    <2>9. ASSUME NEW u \in Tasks
          PROVE  /\ \A s \in DraftsOf(u)' :
                      artifact'[s].version <= Cardinality(DraftsOf(u)')
                 /\ \A s, q \in DraftsOf(u)' :
                      artifact'[s].version = artifact'[q].version => s = q
      <3>1. CASE u = t
        BY <2>7, <2>8, <3>1
      <3>2. CASE u # t
        BY <2>5, <3>2 DEF VersionsApart
      <3>3. QED
        BY <3>1, <3>2
    <2>10. QED
      BY <2>4, <2>9 DEF VersionsApart
  <1>2. ASSUME \A t \in Tasks : DraftsOf(t)' = DraftsOf(t),
               ~ \E r \in Runs : FinishExecute(r)
        PROVE  VersionsApart'
    <2>1. \A s \in Runs : artifact[s].status # "none"
            => input'[s] = input[s] /\ artifact'[s].version = artifact[s].version
      BY <1>2, ArtifactStep, DraftWritten
    <2>2. \A s \in Runs : artifact'[s].status # "none"
            => artifact[s].status # "none"
      BY <1>2, ArtifactStep, DraftWritten
    <2>3. \A t \in Tasks : \A s \in DraftsOf(t) :
            artifact'[s].version = artifact[s].version
      BY <2>1 DEF DraftsOf
    <2>4. \A s \in Runs : artifact'[s].status # "none" => input'[s].task \in Tasks
      BY <2>1, <2>2 DEF VersionsApart
    <2>5. QED
      BY <1>2, <2>3, <2>4 DEF VersionsApart
  <1>3. QED
    BY <1>1, <1>2, DraftsOfStep

(* Each step keeps what a delivered draft says of its task.  An execution    *)
(* adds a draft to a task that is running, hence has none delivered; a       *)
(* delivery finds a task that is not done, the scope of the draft and the    *)
(* highest version; every other step leaves both the drafts and the done     *)
(* tasks alone.                                                              *)
LEMMA DeliveryStep ==
  ASSUME IInv, DraftsSucceeded, VersionsApart, DeliveredMatchesTask, [Next]_vars
  PROVE  DeliveredMatchesTask'
  <1> DEFINE Delivered(t) == {r \in DraftsOf(t) : artifact[r].status = "delivered"}
             Newest(r, t) == \A s \in DraftsOf(t) \ {r} :
                               artifact[s].version < artifact[r].version
  <1>m. ASSUME NEW t \in Tasks
        PROVE  /\ taskStatus[t] = "done" <=> Delivered(t) # {}
               /\ \A r \in Delivered(t) : artifact[r].scope = scope[t]
                                            /\ Newest(r, t)
    BY DEF DeliveredMatchesTask
  <1> SUFFICES ASSUME NEW t \in Tasks
               PROVE  /\ taskStatus'[t] = "done" <=> Delivered(t)' # {}
                      /\ \A r \in Delivered(t)' :
                            artifact'[r].scope = scope'[t] /\ Newest(r, t)'
    BY DEF DeliveredMatchesTask
  <1> USE DEF IInv
  <1>v. \A r \in Runs : artifact[r].version \in Nat
    BY DEF TypeOK, Artifact
  <1>1. ASSUME NEW r \in Runs, FinishExecute(r), input[r].task \in Tasks,
               DraftsOf(t)' = IF t = input[r].task
                              THEN DraftsOf(t) \cup {r} ELSE DraftsOf(t),
               r \notin DraftsOf(input[r].task)
        PROVE  /\ taskStatus'[t] = "done" <=> Delivered(t)' # {}
               /\ \A q \in Delivered(t)' :
                     artifact'[q].scope = scope'[t] /\ Newest(q, t)'
    <2>1. /\ scope' = scope
          /\ taskStatus[input[r].task] = "running"
          /\ taskStatus' = [taskStatus EXCEPT ![input[r].task] = "decision"]
          /\ artifact'[r].status = "draft"
          /\ \A s \in Runs \ {r} : artifact'[s] = artifact[s]
      BY <1>1 DEF FinishExecute, Move, TypeOK
    <2>2. r \notin DraftsOf(t)
      BY <1>1 DEF DraftsOf
    <2>3. \A s \in DraftsOf(t) : artifact'[s] = artifact[s]
      BY <2>1, <2>2 DEF DraftsOf
    <2>4. Delivered(t)' = Delivered(t)
      BY <1>1, <2>1, <2>3
    <2>5. CASE t = input[r].task
      <3>1. taskStatus[t] # "done" /\ taskStatus'[t] # "done"
        BY <2>1, <2>5 DEF TypeOK
      <3>2. Delivered(t)' = {}
        BY <1>m, <2>4, <3>1
      <3>3. QED
        BY <3>1, <3>2
    <2>6. CASE t # input[r].task
      <3>1. taskStatus'[t] = taskStatus[t] /\ DraftsOf(t)' = DraftsOf(t)
        BY <1>1, <2>1, <2>6 DEF TypeOK
      <3>2. QED
        BY <1>m, <2>1, <2>3, <2>4, <3>1
    <2>7. QED
      BY <2>5, <2>6
  <1>2. ASSUME NEW r \in Runs, Deliver(r), ~FinishExecute(r),
               DraftsOf(t)' = DraftsOf(t)
        PROVE  /\ taskStatus'[t] = "done" <=> Delivered(t)' # {}
               /\ \A q \in Delivered(t)' :
                     artifact'[q].scope = scope'[t] /\ Newest(q, t)'
    <2>1. /\ input[r].task \in Tasks
          /\ scope' = scope
          /\ taskStatus[input[r].task] # "done"
          /\ taskStatus' = [taskStatus EXCEPT ![input[r].task] = "done"]
          /\ scope[input[r].task] = artifact[r].scope
          /\ \A s \in Runs : input[s].task = input[r].task
                               => artifact[s].version <= artifact[r].version
      BY <1>2 DEF Deliver, Confirmable, Move, VersionsApart
    <2>2. /\ artifact'[r].status = "delivered"
          /\ artifact[r].status \in {"draft", "verified"}
          /\ artifact'[r].scope = artifact[r].scope
          /\ artifact'[r].version = artifact[r].version
          /\ \A s \in Runs \ {r} : artifact'[s] = artifact[s]
      BY <1>2, DraftWritten
    <2>3. CASE t = input[r].task
      <3>1. r \in DraftsOf(t)
        BY <2>2, <2>3 DEF DraftsOf
      <3>2. Delivered(t) = {}
        BY <1>m, <2>1, <2>3
      <3>3. Delivered(t)' = {r}
        BY <1>2, <2>2, <3>1, <3>2 DEF DraftsOf
      <3>4. \A s \in DraftsOf(t) \ {r} :
              artifact[s].version < artifact[r].version
        BY <1>v, <2>1, <2>3, <3>1 DEF VersionsApart, DraftsOf
      <3>5. Newest(r, t)'
        BY <1>2, <2>2, <3>4 DEF DraftsOf
      <3>6. QED
        BY <2>1, <2>2, <2>3, <3>3, <3>5 DEF TypeOK
    <2>4. CASE t # input[r].task
      <3>1. \A s \in DraftsOf(t) : artifact'[s] = artifact[s]
        BY <2>2, <2>4 DEF DraftsOf
      <3>2. taskStatus'[t] = taskStatus[t]
        BY <2>1, <2>4 DEF TypeOK
      <3>3. QED
        BY <1>2, <1>m, <2>1, <3>1, <3>2
    <2>5. QED
      BY <2>3, <2>4
  <1>3. ASSUME ~ \E r \in Runs : FinishExecute(r) \/ Deliver(r),
               DraftsOf(t)' = DraftsOf(t)
        PROVE  /\ taskStatus'[t] = "done" <=> Delivered(t)' # {}
               /\ \A q \in Delivered(t)' :
                     artifact'[q].scope = scope'[t] /\ Newest(q, t)'
    <2>1. \A s \in DraftsOf(t) :
            /\ artifact'[s].scope = artifact[s].scope
            /\ artifact'[s].version = artifact[s].version
            /\ artifact'[s].status = "delivered"
                 <=> artifact[s].status = "delivered"
      BY <1>3, ArtifactStep, DraftWritten DEF DraftsOf
    <2>2. Delivered(t)' = Delivered(t)
      BY <1>3, <2>1
    <2>3. taskStatus'[t] = "done" <=> taskStatus[t] = "done"
      BY <1>3, SettledStep, DoneStep
    <2>4. taskStatus[t] = "done" => scope'[t] = scope[t]
      BY DoneStep
    <2>5. QED
      BY <1>3, <1>m, <2>1, <2>2, <2>3, <2>4
  <1>4. QED
    BY <1>1, <1>2, <1>3, DraftsOfStep

(* Whatever is executed, cancelled and planned again, a task is done exactly *)
(* when a draft of it is delivered: its newest, written for its scope.       *)
THEOREM DeliveredIsDone == Spec => []DeliveredMatchesTask
  <1> DEFINE J == DraftsSucceeded /\ VersionsApart /\ DeliveredMatchesTask
  <1>1. Init => J
    <2> SUFFICES ASSUME Init PROVE J
      OBVIOUS
    <2>1. \A r \in Runs : artifact[r].status = "none"
      BY DEF Init, NothingRan, NoArtifact
    <2>2. \A t : DraftsOf(t) = {}
      BY <2>1 DEF DraftsOf
    <2>3. \A t \in Tasks : taskStatus[t] = "absent"
      BY DEF Init, EmptyBoard
    <2>4. QED
      BY <2>1, <2>2, <2>3
         DEF DraftsSucceeded, VersionsApart, DeliveredMatchesTask
  <1>2. IInv /\ J /\ [Next]_vars => J'
    BY DraftStep, VersionStep, DeliveryStep DEF IInv
  <1>3. QED
    BY <1>1, <1>2, Invariant, PTL DEF Spec

-----------------------------------------------------------------------------
(* An execution is under way after a step only if it was before, with the    *)
(* same input, or is authorized by that step.                                *)
LEMMA UnderWayStep ==
  ASSUME IInv, [Next]_vars, NEW r \in Runs,
         runStatus'[r] \in {"queued", "running"}, input'[r].kind = "execute"
  PROVE  \/ runStatus[r] \in {"queued", "running"} /\ input'[r] = input[r]
         \/ \E u \in Users, t \in Tasks : Execute(u, t, r)
  <1> DEFINE Before == /\ runStatus[r] \in {"queued", "running"}
                       /\ input'[r] = input[r]
  <1> USE DEF IInv, TypeOK, rows
  <1>1. ASSUME runStatus' = runStatus, input' = input PROVE Before
    BY <1>1
  <1>2. ASSUME NEW s \in Runs, NEW status, status \notin {"queued", "running"},
               runStatus' = [runStatus EXCEPT ![s] = status], input' = input
        PROVE  Before
    BY <1>2
  <1>3. ASSUME NEW u \in Users, NEW s \in Runs, Plan(u, s) PROVE Before
    <2>1. /\ input'[s].kind = "plan"
          /\ \A q \in Runs \ {s} : /\ input'[q] = input[q]
                                    /\ runStatus'[q] = runStatus[q]
      BY <1>3 DEF Plan, Authorize
    <2>2. QED
      BY <2>1
  <1>4. ASSUME NEW u \in Users, NEW t \in Tasks, NEW s \in Runs,
               Execute(u, t, s), s # r
        PROVE  Before
    BY <1>4 DEF Execute, Authorize
  <1>5. CASE CancelWrite
    <2>1. cancelling.run \in Runs
      BY <1>5 DEF CancelWrite, Unlocked, Cancel
    <2>2. QED
      BY <1>2, <1>5, <2>1 DEF CancelWrite, Settle
  <1>6. ASSUME NEW u \in Users, NEW s \in Runs, ResolveUnknown(u, s)
        PROVE  Before
    BY <1>2, <1>6 DEF ResolveUnknown, Settle
  <1>7. ASSUME NEW s \in Runs, Claim(s) PROVE Before
    BY <1>7 DEF Claim, Claimable
  <1>8. ASSUME NEW s \in Runs, FinishPlan(s) \/ FinishExecute(s) PROVE Before
    BY <1>2, <1>8 DEF FinishPlan, FinishExecute, Succeed, Settle
  <1>9. ASSUME NEW s \in Runs, Fail(s) PROVE Before
    BY <1>2, <1>9 DEF Fail, FailStatus, RecordedOutcome, Settle
  <1>10. ASSUME NEW s \in Runs, Expire(s) PROVE Before
    BY <1>2, <1>10 DEF Expire, RecordedOutcome, Settle
  <1>11. QED
    BY <1>1, <1>3, <1>4, <1>5, <1>6, <1>7, <1>8, <1>9, <1>10
       DEF Next, Command, Process, vars, Message, Members, Bind, CancelRead,
           Verify, Deliver, Load, Enter, BeforeTool, Fetch, ModelAnswers,
           Throws, DiscardLateResult, WorkerCrash, LeaseRunsOut

(* What an expert was given is needed while its run is under way and while   *)
(* its draft is kept.                                                        *)
Reading(r) == \/ runStatus[r] \in {"queued", "running"} /\ input[r].kind = "execute"
              \/ artifact[r].status # "none"

(* What it rests on is done: its task is running with the scope that was     *)
(* authorized, or its draft rests on done tasks.                             *)
LEMMA ReadsDone ==
  ASSUME IInv, AuthorizedScopeHolds, DoneIsClosed, DraftsRestOnDone,
         NEW r \in Runs, Reading(r), NEW d \in input[r].scope.deps
  PROVE  d \in Tasks /\ taskStatus[d] = "done"
  <1> USE DEF IInv
  <1>1. d \in Tasks
    BY DEF TypeOK, Input, Scope
  <1>2. CASE runStatus[r] \in {"queued", "running"} /\ input[r].kind = "execute"
    <2>1. input[r].task \in Tasks /\ scope[input[r].task] = input[r].scope
      BY <1>2 DEF TaskOfRun, AuthorizedScopeHolds
    <2>2. taskStatus[input[r].task] = "running"
      BY <1>2, <2>1 DEF BoardMatchesRuns
    <2>3. QED
      BY <1>1, <2>1, <2>2 DEF DoneIsClosed, DependenciesDone
  <1>3. CASE artifact[r].status # "none"
    BY <1>1, <1>3 DEF AuthorizedScopeHolds, DraftsRestOnDone
  <1>4. QED
    BY <1>2, <1>3 DEF Reading

(* A done task gets no further draft, and those it has are confirmed no more. *)
LEMMA DoneKeepsDrafts ==
  ASSUME IInv, DraftsSucceeded, [Next]_vars,
         NEW d \in Tasks, taskStatus[d] = "done"
  PROVE  /\ DraftsOf(d)' = DraftsOf(d)
         /\ \A s \in DraftsOf(d) : /\ input'[s] = input[s]
                                   /\ artifact'[s] = artifact[s]
  <1> USE DEF IInv
  <1>1. CASE /\ artifact' = artifact
             /\ \A r \in Runs : artifact[r].status # "none"
                                  => input'[r] = input[r]
    BY <1>1 DEF DraftsOf
  <1>2. ASSUME NEW r \in Runs, Verify(r) \/ Deliver(r) \/ FinishExecute(r)
        PROVE  /\ DraftsOf(d)' = DraftsOf(d)
               /\ \A s \in DraftsOf(d) : /\ input'[s] = input[s]
                                         /\ artifact'[s] = artifact[s]
    <2>1. input[r].task # d
      BY <1>2 DEF Verify, Deliver, Confirmable, FinishExecute
    <2>2. input' = input /\ \A s \in Runs \ {r} : artifact'[s] = artifact[s]
      BY <1>2, DraftWritten
    <2>3. QED
      BY <2>1, <2>2 DEF DraftsOf
  <1>3. QED
    BY <1>1, <1>2, ArtifactStep

(* What run r was given is the delivered drafts of the tasks it rests on,    *)
(* of each its newest.                                                       *)
Given(r) ==
    /\ input[r].given = {s \in Runs : /\ artifact[s].status = "delivered"
                                      /\ input[s].task \in input[r].scope.deps}
    /\ \A d \in input[r].scope.deps :
          \E s \in input[r].given :
             /\ input[s].task = d
             /\ \A q \in DraftsOf(d) : artifact[q].version <= artifact[s].version

(* It stays so as long as the run keeps its input.                           *)
LEMMA GivenStays ==
  ASSUME IInv, DraftsSucceeded, AuthorizedScopeHolds, DoneIsClosed,
         DraftsRestOnDone, [Next]_vars,
         NEW r \in Runs, Reading(r), Given(r), input'[r] = input[r]
  PROVE  Given(r)'
  <1> PICK D \in SUBSET Tasks : D = input[r].scope.deps
    BY DEF IInv, TypeOK, Input, Scope
  <1> PICK G \in SUBSET Runs : G = input[r].given
    BY DEF IInv, TypeOK, Input
  <1>1. \A d \in D : /\ DraftsOf(d)' = DraftsOf(d)
                     /\ \A s \in DraftsOf(d) : /\ input'[s] = input[s]
                                               /\ artifact'[s] = artifact[s]
    BY ReadsDone, DoneKeepsDrafts
  <1>2. ASSUME NEW s \in Runs
        PROVE  /\ artifact'[s].status = "delivered" /\ input'[s].task \in D
                 <=> artifact[s].status = "delivered" /\ input[s].task \in D
    <2>1. ASSUME artifact'[s].status = "delivered", input'[s].task \in D
          PROVE  artifact[s].status = "delivered" /\ input[s].task \in D
      <3> PICK d \in D : d = input'[s].task
        BY <2>1
      <3>1. s \in DraftsOf(d)'
        BY <2>1 DEF DraftsOf
      <3>2. QED
        BY <1>1, <2>1, <3>1
    <2>2. ASSUME artifact[s].status = "delivered", input[s].task \in D
          PROVE  artifact'[s].status = "delivered" /\ input'[s].task \in D
      <3>1. s \in DraftsOf(input[s].task)
        BY <2>2 DEF DraftsOf
      <3>2. QED
        BY <1>1, <2>2, <3>1
    <2>3. QED
      BY <2>1, <2>2
  <1>3. G = {s \in Runs : /\ artifact'[s].status = "delivered"
                          /\ input'[s].task \in D}
    <2>1. G = {s \in Runs : artifact[s].status = "delivered" /\ input[s].task \in D}
      BY DEF Given
    <2>2. QED
      BY <1>2, <2>1
  <1>4. ASSUME NEW d \in D
        PROVE  \E s \in G :
                  /\ input'[s].task = d
                  /\ \A q \in DraftsOf(d)' :
                        artifact'[q].version <= artifact'[s].version
    <2>1. PICK s \in G : /\ input[s].task = d
                         /\ \A q \in DraftsOf(d) :
                               artifact[q].version <= artifact[s].version
      BY DEF Given
    <2>2. s \in DraftsOf(d)
      BY <2>1 DEF Given, DraftsOf
    <2>3. QED
      BY <1>1, <2>1, <2>2
  <1>5. QED
    BY <1>3, <1>4 DEF Given

(* At the authorization it is so: what is upstream is done, that is, has a   *)
(* delivered draft, its newest.                                              *)
LEMMA GivenAtFirst ==
  ASSUME IInv, DraftsSucceeded, VersionsApart, DeliveredMatchesTask,
         NEW u \in Users, NEW t \in Tasks, NEW r \in Runs, Execute(u, t, r)
  PROVE  Given(r)'
  <1> USE DEF IInv
  <1> PICK D \in SUBSET Tasks : D = scope[t].deps
    BY DEF TypeOK, Scope
  <1>1. /\ input'[r].scope.deps = D
        /\ input'[r].given = {s \in Runs : /\ artifact[s].status = "delivered"
                                           /\ input[s].task \in D}
        /\ \A s \in Runs \ {r} : input'[s] = input[s]
        /\ artifact' = artifact
        /\ runStatus[r] = "none"
        /\ \A d \in D : taskStatus[d] = "done"
    BY DEF Execute, Authorize, Fresh, DependencyArtifacts, DependenciesDone, TypeOK
  <1> PICK G \in SUBSET Runs : G = input'[r].given
    BY <1>1
  <1>2. artifact[r].status = "none"
    BY <1>1 DEF DraftsSucceeded
  <1>3. \A d : DraftsOf(d)' = DraftsOf(d)
    BY <1>1, <1>2 DEF DraftsOf
  <1>4. G = {s \in Runs : /\ artifact'[s].status = "delivered"
                          /\ input'[s].task \in D}
    BY <1>1, <1>2
  <1>5. ASSUME NEW d \in D
        PROVE  \E s \in G :
                  /\ input'[s].task = d
                  /\ \A q \in DraftsOf(d)' :
                        artifact'[q].version <= artifact'[s].version
    <2>1. PICK s \in DraftsOf(d) :
            /\ artifact[s].status = "delivered"
            /\ \A q \in DraftsOf(d) \ {s} :
                  artifact[q].version < artifact[s].version
      BY <1>1 DEF DeliveredMatchesTask
    <2>2. \A q \in Runs : artifact[q].version \in Nat
      BY DEF TypeOK, Artifact
    <2>3. s \in Runs /\ input[s].task = d
      BY DEF DraftsOf
    <2>4. s \in G
      BY <1>1, <2>1, <2>3
    <2>5. \A q \in DraftsOf(d) : artifact[q].version <= artifact[s].version
      BY <2>1, <2>2, <2>3 DEF DraftsOf
    <2>6. input'[s].task = d
      BY <1>1, <1>2, <2>1, <2>3
    <2>7. QED
      BY <1>1, <1>3, <2>4, <2>5, <2>6
  <1>6. QED
    BY <1>1, <1>4, <1>5 DEF Given

(* Plans rewrite cards, failures come late and drafts are delivered while an *)
(* expert is at work, and still what it was given to read is what the tasks  *)
(* upstream have delivered, until its own draft is delivered and after.      *)
THEOREM UpstreamIsDelivered == Spec => []UpstreamHolds
  <1> DEFINE J == /\ DraftsSucceeded /\ AuthorizedScopeHolds
                  /\ DoneIsClosed /\ DraftsRestOnDone
                  /\ VersionsApart /\ DeliveredMatchesTask
             Holds == \A r \in Runs : Reading(r) => Given(r)
  <1>1. Init => J /\ Holds
    <2> SUFFICES ASSUME Init PROVE J /\ Holds
      OBVIOUS
    <2>1. DraftsSucceeded /\ DoneIsClosed /\ DraftsRestOnDone
      BY InitDrafts
    <2>2. \A r \in Runs : /\ artifact[r].status = "none"
                          /\ runStatus[r] = "none" /\ input[r].kind = "none"
      BY DEF Init, NothingRan, NoArtifact, NoInput
    <2>3. \A t : DraftsOf(t) = {}
      BY <2>2 DEF DraftsOf
    <2>4. \A t \in Tasks : taskStatus[t] = "absent"
      BY DEF Init, EmptyBoard
    <2>5. AuthorizedScopeHolds /\ Holds
      BY <2>2 DEF AuthorizedScopeHolds, Reading
    <2>6. VersionsApart /\ DeliveredMatchesTask
      BY <2>2, <2>3, <2>4 DEF VersionsApart, DeliveredMatchesTask
    <2>7. QED
      BY <2>1, <2>5, <2>6
  <1>2. IInv /\ J /\ [Next]_vars => J'
    BY DraftStep, ScopeStep, RestStep, DependenciesStep, VersionStep,
       DeliveryStep DEF IInv
  <1>3. ASSUME IInv, J, Holds, [Next]_vars PROVE Holds'
    <2> SUFFICES ASSUME NEW r \in Runs, Reading(r)' PROVE Given(r)'
      OBVIOUS
    <2>1. CASE Reading(r) /\ input'[r] = input[r]
      BY <1>3, <2>1, GivenStays
    <2>2. CASE \E u \in Users, t \in Tasks : Execute(u, t, r)
      BY <1>3, <2>2, GivenAtFirst
    <2>3. CASE FinishExecute(r)
      <3>1. Reading(r) /\ input'[r] = input[r]
        BY <2>3 DEF FinishExecute, MayFinish, ExecutionGate, Reading
      <3>2. QED
        BY <2>1, <3>1
    <2>4. CASE artifact'[r].status # "none" /\ ~FinishExecute(r)
      <3>1. artifact[r].status # "none" /\ input'[r] = input[r]
        BY <1>3, <2>4, ArtifactStep, DraftWritten DEF IInv
      <3>2. QED
        BY <2>1, <3>1 DEF Reading
    <2>5. QED
      BY <1>3, <2>1, <2>2, <2>3, <2>4, UnderWayStep DEF Reading
  <1>4. Holds => UpstreamHolds
    BY DEF Reading, Given, UpstreamHolds
  <1>5. QED
    BY <1>1, <1>2, <1>3, <1>4, Invariant, PTL DEF Spec

-----------------------------------------------------------------------------
(* The refinement of WorkAuthorization.  The mapping, as KeepsPromise has it *)
SubjectBar ==
    [r \in Runs |-> [kind |-> input[r].kind, task |-> input[r].task]]
AnswerBar == [r \in Runs |-> AnswerOf(runStatus[r])]
Credit(r) == IF called[r] > 0 THEN "spent"
             ELSE IF pc[r] = "reserved" THEN "held" ELSE "none"
CreditBar == [r \in Runs |-> Credit(r)]

(* A worker that waits for the model, or has its answer, has sent.           *)
AnswerWasSent ==
    \A r \in Runs : pc[r] \in {"calling", "returned"} => called[r] > 0

(* What the worker sent is never forgotten. *)
LEMMA AnswerStep ==
  ASSUME TypeOK, AnswerWasSent, [Next]_vars PROVE AnswerWasSent'
  <1> USE DEF TypeOK, AnswerWasSent, rows, proc
  <1>1. ASSUME UNCHANGED <<called, pc>> PROVE AnswerWasSent'
    BY <1>1
  <1>2. ASSUME NEW r \in Runs, NEW next, next \notin {"calling", "returned"},
               pc' = [pc EXCEPT ![r] = next], called' = called
        PROVE  AnswerWasSent'
    BY <1>2
  <1>3. ASSUME NEW r \in Runs, Fetch(r) \/ ModelAnswers(r) PROVE AnswerWasSent'
    BY <1>3 DEF Fetch, ModelAnswers
  <1>4. ASSUME NEW r \in Runs, FinishPlan(r) \/ FinishExecute(r)
        PROVE  AnswerWasSent'
    BY <1>2, <1>4 DEF FinishPlan, FinishExecute, Succeed, Return
  <1>5. ASSUME NEW r \in Runs, BeforeTool(r) PROVE AnswerWasSent'
    BY <1>2, <1>5 DEF BeforeTool
  <1>6. ASSUME NEW r \in Runs,
               Claim(r) \/ Load(r) \/ Enter(r) \/ Throws(r) \/ Fail(r)
                 \/ DiscardLateResult(r) \/ WorkerCrash(r)
        PROVE  AnswerWasSent'
    BY <1>2, <1>6 DEF Claim, Load, Enter, Throws, Fail, DiscardLateResult,
                      WorkerCrash, Return
  <1>7. QED
    BY <1>1, <1>3, <1>4, <1>5, <1>6
       DEF Next, Command, Process, vars, Message, Members, Bind, Plan,
           Execute, CancelRead, CancelWrite, ResolveUnknown, Verify, Deliver,
           Expire, LeaseRunsOut

(* What the promise says of a run in each status. *)
LEMMA Answers ==
  /\ AnswerOf("none") = "absent"
  /\ \A st \in Active : AnswerOf(st) = "open"
  /\ AnswerOf("succeeded") = "published"
  /\ AnswerOf("stopped") = "void" /\ AnswerOf("blocked") = "void"
  /\ AnswerOf("outcome_unknown") = "unknown"
  /\ AnswerOf("reviewed_unknown") = "reviewed"
  BY DEF AnswerOf, Active

(* Only the runs that may still cost or publish are open or unknown. *)
LEMMA OpenIsUnresolved ==
  ASSUME NEW st \in RunStatus
  PROVE  AnswerOf(st) \in {"open", "unknown"} <=> st \in Unresolved
  BY DEF AnswerOf, RunStatus, Unresolved, Active

(* The requests that are held or sent were all reserved, so there are fewer  *)
(* of them than the limit when one more is reserved.                         *)
LEMMA ChargedBelowLimit ==
  ASSUME TypeOK, SendTracked, CallsWithinBudget, callsUsed < CallLimit
  PROVE  Cardinality({r \in Runs : CreditBar[r] # "none"}) < CallLimit
  <1> DEFINE Ch == {r \in Runs : CreditBar[r] # "none"}
  <1>1. Ch \subseteq reserved
    BY DEF CreditBar, Credit, SendTracked, TypeOK
  <1>2. IsFiniteSet(reserved)
    <2>1. IsFiniteSet(Runs)
      BY WorkAssumption, FS_Interval DEF Runs
    <2>2. QED
      BY <2>1, FS_Subset DEF TypeOK
  <1>3. /\ IsFiniteSet(Ch)
        /\ Cardinality(Ch) <= Cardinality(reserved)
    BY <1>1, <1>2, FS_Subset
  <1>4. Cardinality(Ch) \in Nat
    BY <1>3, FS_CardinalityType
  <1>5. QED
    BY <1>3, <1>4, WorkAssumption DEF CallsWithinBudget, TypeOK

(* A step that ends run r with a status changes the answer of r alone.       *)
LEMMA AnswerMoves ==
  ASSUME TypeOK, NEW r \in Runs, NEW st,
         runStatus' = [runStatus EXCEPT ![r] = st]
  PROVE  AnswerBar' = [AnswerBar EXCEPT ![r] = AnswerOf(st)]
  BY DEF AnswerBar, TypeOK

(* A worker's step changes the credit of its run alone. *)
LEMMA CreditMoves ==
  ASSUME NEW r \in Runs,
         \A s \in Runs \ {r} : called'[s] = called[s] /\ pc'[s] = pc[s]
  PROVE  CreditBar' = [CreditBar EXCEPT ![r] = Credit(r)']
  BY DEF CreditBar, Credit

(* The steps of the promise, in terms of the mapping. *)
Granted(r, s) ==
    /\ AnswerBar[r] = "absent"
    /\ \A h \in Runs : SubjectBar[h] = s => AnswerBar[h] \notin {"open", "unknown"}
    /\ SubjectBar' = [SubjectBar EXCEPT ![r] = s]
    /\ AnswerBar' = [AnswerBar EXCEPT ![r] = "open"]
    /\ CreditBar' = CreditBar

CreditMoved(r) ==
    /\ \/ /\ AnswerBar[r] = "open" /\ CreditBar[r] = "none"
          /\ Cardinality({h \in Runs : CreditBar[h] # "none"}) < CallLimit
          /\ CreditBar' = [CreditBar EXCEPT ![r] = "held"]
       \/ /\ CreditBar[r] = "held"
          /\ \E c \in {"none", "spent"} :
               CreditBar' = [CreditBar EXCEPT ![r] = c]
    /\ UNCHANGED <<SubjectBar, AnswerBar>>

AnswerMoved(r) ==
    /\ \/ /\ AnswerBar[r] = "open" /\ CreditBar[r] = "spent"
          /\ AnswerBar' = [AnswerBar EXCEPT ![r] = "published"]
       \/ /\ AnswerBar[r] = "open" /\ CreditBar[r] = "none"
          /\ AnswerBar' = [AnswerBar EXCEPT ![r] = "void"]
       \/ /\ AnswerBar[r] = "open"
          /\ AnswerBar' = [AnswerBar EXCEPT ![r] = "unknown"]
       \/ /\ AnswerBar[r] = "unknown"
          /\ AnswerBar' = [AnswerBar EXCEPT ![r] = "reviewed"]
    /\ UNCHANGED <<SubjectBar, CreditBar>>

(* The promise counts as this module does. *)
LEMMA PromiseCounts ==
  ASSUME NEW S PROVE Promise!Cardinality(S) = Cardinality(S)
  BY DEF Promise!Cardinality, Cardinality

(* They are the steps of the promise. *)
LEMMA PromiseStep ==
  ASSUME NEW r \in Runs,
         \/ \E s \in Subjects : Granted(r, s)
         \/ CreditMoved(r)
         \/ AnswerMoved(r)
  PROVE  Promise!AuthorizationNext
  <1>1. CASE \E s \in Subjects : Granted(r, s)
    BY <1>1 DEF Granted, SubjectBar, AnswerBar, CreditBar, Credit,
                Promise!AuthorizationNext, Promise!Grant
  <1>2. CASE CreditMoved(r)
    <2>1. CASE /\ AnswerBar[r] = "open" /\ CreditBar[r] = "none"
               /\ Cardinality({h \in Runs : CreditBar[h] # "none"}) < CallLimit
               /\ CreditBar' = [CreditBar EXCEPT ![r] = "held"]
      <3>1. Promise!Charged = {h \in Runs : CreditBar[h] # "none"}
        BY DEF Promise!Charged, CreditBar, Credit
      <3>2. Promise!Cardinality(Promise!Charged) < CallLimit
        BY <2>1, <3>1, PromiseCounts
      <3>3. Promise!Hold(r)
        BY <1>2, <2>1, <3>2 DEF CreditMoved, SubjectBar, AnswerBar, CreditBar,
                                Credit, Promise!Hold
      <3>4. QED
        BY <3>3 DEF Promise!AuthorizationNext
    <2>2. CASE /\ CreditBar[r] = "held"
               /\ \E c \in {"none", "spent"} :
                    CreditBar' = [CreditBar EXCEPT ![r] = c]
      BY <1>2, <2>2 DEF CreditMoved, SubjectBar, AnswerBar, CreditBar, Credit,
                        Promise!AuthorizationNext, Promise!Lapse, Promise!Spend
    <2>3. QED
      BY <1>2, <2>1, <2>2 DEF CreditMoved
  <1>3. CASE AnswerMoved(r)
    BY <1>3 DEF AnswerMoved, SubjectBar, AnswerBar, CreditBar, Credit,
                Promise!AuthorizationNext, Promise!Publish, Promise!End,
                Promise!Review
  <1>4. QED
    BY <1>1, <1>2, <1>3

(* A step that leaves the mapping alone is a stutter of the promise. *)
LEMMA PromiseStutter ==
  ASSUME UNCHANGED <<SubjectBar, AnswerBar, CreditBar>>
  PROVE  UNCHANGED Promise!avars
  BY DEF SubjectBar, AnswerBar, CreditBar, Credit, Promise!avars

(* A run is created for a subject of which no run is open or unknown. *)
LEMMA GrantStep ==
  ASSUME IInv, [Next]_vars, NEW r \in Runs, RunCreated(r),
         UNCHANGED <<called, pc>>
  PROVE  Promise!AuthorizationNext
  <1> USE DEF IInv
  <1>1. PICK in \in Input :
          /\ \/ in.kind = "execute" /\ in.task \in Tasks
             \/ in.kind = "plan" /\ in.task = NoTask
          /\ MayDispatch(in.kind, in.task)
          /\ input' = [input EXCEPT ![r] = in]
    BY DEF RunCreated
  <1> DEFINE s == [kind |-> in.kind, task |-> in.task]
  <1>2. s \in Subjects
    BY <1>1 DEF Subjects
  <1>3. runStatus[r] = "none" /\ runStatus' = [runStatus EXCEPT ![r] = "queued"]
    BY DEF RunCreated
  <1>4. ASSUME NEW h \in Runs, SubjectBar[h] = s
        PROVE  AnswerBar[h] \notin {"open", "unknown"}
    <2>1. input[h].kind = in.kind /\ input[h].task = in.task
      BY <1>4 DEF SubjectBar
    <2>2. runStatus[h] \notin Unresolved /\ runStatus[h] \in RunStatus
      BY <1>1, <2>1 DEF MayDispatch, TypeOK
    <2>3. QED
      BY <2>2, OpenIsUnresolved DEF AnswerBar
  <1>5. SubjectBar' = [SubjectBar EXCEPT ![r] = s]
    BY <1>1 DEF SubjectBar, TypeOK
  <1>6. AnswerBar[r] = "absent" /\ AnswerBar' = [AnswerBar EXCEPT ![r] = "open"]
    <2>1. AnswerOf("queued") = "open"
      BY Answers DEF Active
    <2>2. AnswerBar' = [AnswerBar EXCEPT ![r] = AnswerOf("queued")]
      BY <1>3, AnswerMoves
    <2>3. AnswerBar[r] = AnswerOf("none")
      BY <1>3 DEF AnswerBar
    <2>4. QED
      BY <2>1, <2>2, <2>3, Answers
  <1>7. CreditBar' = CreditBar
    BY DEF CreditBar, Credit
  <1>8. Granted(r, s)
    BY <1>4, <1>5, <1>6, <1>7 DEF Granted
  <1>9. QED
    BY <1>2, <1>8, PromiseStep

(* A run that ends without a result is ended as void or unknown; as void     *)
(* only when nothing of it was sent or is about to be.                       *)
LEMMA EndStep ==
  ASSUME TypeOK, NEW r \in Runs, runStatus[r] \in Active,
         NEW st \in {"stopped", "blocked", "outcome_unknown"},
         runStatus' = [runStatus EXCEPT ![r] = st],
         input' = input,
         st # "outcome_unknown" => called[r] = 0 /\ pc[r] # "reserved",
         CreditBar' = CreditBar
  PROVE  Promise!AuthorizationNext
  <1>1. AnswerBar[r] = "open"
    BY Answers DEF AnswerBar
  <1>2. AnswerBar' = [AnswerBar EXCEPT ![r] = AnswerOf(st)]
    BY AnswerMoves
  <1>3. UNCHANGED <<SubjectBar, CreditBar>>
    BY DEF SubjectBar
  <1>4. st # "outcome_unknown" => CreditBar[r] = "none"
    BY DEF CreditBar, Credit, TypeOK
  <1>5. AnswerMoved(r)
    BY <1>1, <1>2, <1>3, <1>4, Answers DEF AnswerMoved
  <1>6. QED
    BY <1>5, PromiseStep

(* Every step of the Work is a step of the promise, or a stutter. *)
LEMMA PromiseKept ==
  ASSUME IInv, SendTracked, ClosedMeansNotSent, CallsWithinBudget,
         AnswerWasSent, [Next]_vars
  PROVE  [Promise!AuthorizationNext]_(Promise!avars)
  <1> USE DEF IInv, rows, proc
  <1>1. ASSUME UNCHANGED <<input, runStatus, called, pc>>
        PROVE  UNCHANGED Promise!avars
    BY <1>1, PromiseStutter DEF SubjectBar, AnswerBar, CreditBar, Credit
  <1>2. ASSUME NEW u \in Users, NEW r \in Runs,
               Plan(u, r) \/ \E t \in Tasks : Execute(u, t, r)
        PROVE  Promise!AuthorizationNext
    <2>1. UNCHANGED <<called, pc>> /\ runStatus[r] = "none"
          /\ runStatus'[r] = "queued"
          /\ \A s \in Runs \ {r} : runStatus'[s] = runStatus[s]
      BY <1>2 DEF Plan, Execute, Authorize, Fresh, TypeOK
    <2>2. ~RunsAdvance
      BY <2>1 DEF RunsAdvance, TypeOK
    <2>3. QED
      BY <2>1, <2>2, RunStep, GrantStep
  <1>3. CASE CancelWrite
    <2> PICK r \in Runs : r = cancelling.run
      BY <1>3 DEF CancelWrite, Unlocked, TypeOK, Cancel
    <2>1. /\ runStatus[r] \in {"queued", "running"}
          /\ UNCHANGED <<input, called, pc>>
      BY <1>3 DEF CancelWrite, Unlocked, CancelSound
    <2>2. CreditBar' = CreditBar
      BY <2>1 DEF CreditBar, Credit
    <2>3. CASE cancelling.read = "queued"
      <3>1. r \notin reserved
        BY <1>3, <2>3 DEF CancelWrite, Unlocked, SendTracked
      <3>2. called[r] = 0 /\ pc[r] # "reserved"
        BY <3>1 DEF SendTracked, TypeOK
      <3>3. runStatus' = [runStatus EXCEPT ![r] = "stopped"]
        BY <1>3, <2>3 DEF CancelWrite, Settle
      <3>4. QED
        BY <2>1, <2>2, <3>2, <3>3, EndStep DEF Active
    <2>4. CASE cancelling.read # "queued"
      <3>1. runStatus' = [runStatus EXCEPT ![r] = "cancel_requested"]
        BY <1>3, <2>4 DEF CancelWrite, Settle
      <3>2. AnswerBar' = AnswerBar
        BY <2>1, <3>1, Answers DEF AnswerBar, Active, TypeOK
      <3>3. QED
        BY <2>1, <2>2, <3>2, PromiseStutter DEF SubjectBar
    <2>5. QED
      BY <2>3, <2>4
  <1>4. ASSUME NEW u \in Users, NEW r \in Runs, ResolveUnknown(u, r)
        PROVE  Promise!AuthorizationNext
    <2>1. /\ runStatus[r] = "outcome_unknown"
          /\ runStatus' = [runStatus EXCEPT ![r] = "reviewed_unknown"]
          /\ UNCHANGED <<input, called, pc>>
      BY <1>4 DEF ResolveUnknown, Settle
    <2>2. AnswerBar[r] = "unknown"
      BY <2>1, Answers DEF AnswerBar
    <2>3. AnswerBar' = [AnswerBar EXCEPT ![r] = "reviewed"]
      <3>1. AnswerBar' = [AnswerBar EXCEPT ![r] = AnswerOf("reviewed_unknown")]
        BY <2>1, AnswerMoves
      <3>2. QED
        BY <3>1, Answers
    <2>4. UNCHANGED <<SubjectBar, CreditBar>>
      BY <2>1 DEF SubjectBar, CreditBar, Credit
    <2>5. AnswerMoved(r)
      BY <2>2, <2>3, <2>4 DEF AnswerMoved
    <2>6. QED
      BY <2>5, PromiseStep
  <1>5. ASSUME NEW r \in Runs, Claim(r) PROVE UNCHANGED Promise!avars
    <2>1. /\ runStatus[r] = "queued"
          /\ runStatus' = [runStatus EXCEPT ![r] = "running"]
          /\ pc' = [pc EXCEPT ![r] = "claimed"]
          /\ UNCHANGED <<input, called>>
      BY <1>5 DEF Claim, Claimable
    <2>2. pc[r] # "reserved"
      BY <2>1 DEF SendTracked
    <2>3. AnswerBar' = AnswerBar
      BY <2>1, Answers DEF AnswerBar, Active, TypeOK
    <2>4. CreditBar' = CreditBar
      BY <2>1, <2>2 DEF CreditBar, Credit, TypeOK
    <2>5. QED
      BY <2>1, <2>3, <2>4, PromiseStutter DEF SubjectBar
  <1>6. ASSUME NEW r \in Runs, UNCHANGED <<input, runStatus, called>>,
               NEW next, next # "reserved", pc' = [pc EXCEPT ![r] = next]
        PROVE  [Promise!AuthorizationNext]_(Promise!avars)
    <2>1. UNCHANGED <<SubjectBar, AnswerBar>>
      BY <1>6 DEF SubjectBar, AnswerBar
    <2>2. CASE called[r] = 0 /\ pc[r] = "reserved"
      <3>1. CreditBar[r] = "held" /\ Credit(r)' = "none"
        BY <1>6, <2>2 DEF CreditBar, Credit, TypeOK
      <3>2. CreditBar' = [CreditBar EXCEPT ![r] = "none"]
        BY <1>6, <3>1, CreditMoves DEF TypeOK
      <3>3. CreditMoved(r)
        BY <2>1, <3>1, <3>2 DEF CreditMoved
      <3>4. QED
        BY <3>3, PromiseStep
    <2>3. CASE ~(called[r] = 0 /\ pc[r] = "reserved")
      <3>1. CreditBar' = CreditBar
        BY <1>6, <2>3 DEF CreditBar, Credit, TypeOK
      <3>2. QED
        BY <2>1, <3>1, PromiseStutter
    <2>4. QED
      BY <2>2, <2>3
  <1>7. ASSUME NEW r \in Runs,
               \/ Load(r) \/ Enter(r) \/ ModelAnswers(r) \/ Throws(r)
               \/ DiscardLateResult(r) \/ WorkerCrash(r)
        PROVE  [Promise!AuthorizationNext]_(Promise!avars)
    <2>1. UNCHANGED <<input, runStatus, called>>
      BY <1>7 DEF Load, Enter, ModelAnswers, Throws, DiscardLateResult,
                  WorkerCrash
    <2>2. \E next \in {"entering", "executing", "returned", "failing", "ended"} :
            pc' = [pc EXCEPT ![r] = next]
      BY <1>7 DEF Load, Enter, ModelAnswers, Throws, DiscardLateResult,
                  WorkerCrash, Return
    <2>3. QED
      BY <1>6, <2>1, <2>2
  <1>8. ASSUME NEW r \in Runs, BeforeTool(r)
        PROVE  [Promise!AuthorizationNext]_(Promise!avars)
    <2>1. /\ UNCHANGED <<input, runStatus, called>>
          /\ pc[r] = "executing" /\ runStatus[r] = "running"
          /\ callsUsed < CallLimit
      BY <1>8 DEF BeforeTool, GuardPasses, ExecutionGate
    <2>2. CASE pc' = [pc EXCEPT ![r] = "failing"]
      BY <1>6, <2>1, <2>2
    <2>3. CASE pc' = [pc EXCEPT ![r] = "reserved"]
      <3>1. called[r] = 0
        BY <2>1 DEF SendTracked, TypeOK
      <3>2. CreditBar[r] = "none" /\ Credit(r)' = "held"
        BY <2>1, <2>3, <3>1 DEF CreditBar, Credit, TypeOK
      <3>3. CreditBar' = [CreditBar EXCEPT ![r] = "held"]
        BY <2>1, <2>3, <3>2, CreditMoves DEF TypeOK
      <3>4. Cardinality({h \in Runs : CreditBar[h] # "none"}) < CallLimit
        BY <2>1, ChargedBelowLimit
      <3>5. AnswerBar[r] = "open"
        BY <2>1, Answers DEF AnswerBar, Active
      <3>6. UNCHANGED <<SubjectBar, AnswerBar>>
        BY <2>1 DEF SubjectBar, AnswerBar
      <3>7. CreditMoved(r)
        BY <3>2, <3>3, <3>4, <3>5, <3>6 DEF CreditMoved
      <3>8. QED
        BY <3>7, PromiseStep
    <2>4. QED
      BY <1>8, <2>2, <2>3 DEF BeforeTool
  <1>9. ASSUME NEW r \in Runs, Fetch(r) PROVE Promise!AuthorizationNext
    <2>1. /\ UNCHANGED <<input, runStatus>>
          /\ pc[r] = "reserved" /\ called[r] = 0
          /\ called' = [called EXCEPT ![r] = @ + 1]
          /\ pc' = [pc EXCEPT ![r] = "calling"]
      BY <1>9 DEF Fetch, SendTracked
    <2>2. CreditBar[r] = "held" /\ Credit(r)' = "spent"
      BY <2>1 DEF CreditBar, Credit, TypeOK
    <2>3. CreditBar' = [CreditBar EXCEPT ![r] = "spent"]
      BY <2>1, <2>2, CreditMoves DEF TypeOK
    <2>4. UNCHANGED <<SubjectBar, AnswerBar>>
      BY <2>1 DEF SubjectBar, AnswerBar
    <2>5. CreditMoved(r)
      BY <2>2, <2>3, <2>4 DEF CreditMoved
    <2>6. QED
      BY <2>5, PromiseStep
  <1>10. ASSUME NEW r \in Runs, FinishPlan(r) \/ FinishExecute(r)
         PROVE  Promise!AuthorizationNext
    <2>1. /\ UNCHANGED <<input, called>>
          /\ pc[r] = "returned" /\ runStatus[r] = "running"
          /\ runStatus' = [runStatus EXCEPT ![r] = "succeeded"]
          /\ \A s \in Runs \ {r} : pc'[s] = pc[s]
          /\ pc'[r] # "reserved"
      BY <1>10 DEF FinishPlan, FinishExecute, MayFinish, ExecutionGate,
                   Succeed, Settle, Return, TypeOK
    <2>2. called[r] > 0
      BY <2>1 DEF AnswerWasSent
    <2>3. CreditBar' = CreditBar
      BY <2>1, <2>2 DEF CreditBar, Credit
    <2>4. CreditBar[r] = "spent"
      BY <2>2 DEF CreditBar, Credit
    <2>5. AnswerBar[r] = "open"
      BY <2>1, Answers DEF AnswerBar, Active
    <2>6. AnswerBar' = [AnswerBar EXCEPT ![r] = "published"]
      <3>1. AnswerBar' = [AnswerBar EXCEPT ![r] = AnswerOf("succeeded")]
        BY <2>1, AnswerMoves
      <3>2. QED
        BY <3>1, Answers
    <2>7. SubjectBar' = SubjectBar
      BY <2>1 DEF SubjectBar
    <2>8. AnswerMoved(r)
      BY <2>3, <2>4, <2>5, <2>6, <2>7 DEF AnswerMoved
    <2>9. QED
      BY <2>8, PromiseStep
  <1>c. ClosedMeansNotSent'
    BY ClosedStep
  <1>11. ASSUME NEW r \in Runs, Fail(r) PROVE Promise!AuthorizationNext
    <2>1. /\ UNCHANGED <<input, called>>
          /\ pc[r] = "failing"
          /\ pc' = [pc EXCEPT ![r] = "ended"]
          /\ runStatus[r] \in Active
          /\ FailStatus(r) \in {"stopped", "blocked", "outcome_unknown"}
          /\ runStatus' = [runStatus EXCEPT ![r] = FailStatus(r)]
      BY <1>11 DEF Fail, StillOurs, FailStatus, RecordedOutcome, Settle,
                   Return, Active
    <2>2. CreditBar' = CreditBar
      BY <2>1 DEF CreditBar, Credit, TypeOK
    <2>3. FailStatus(r) # "outcome_unknown" => called[r] = 0 /\ pc[r] # "reserved"
      BY <1>c, <2>1 DEF ClosedMeansNotSent, TypeOK
    <2>4. QED
      BY <2>1, <2>2, <2>3, EndStep
  <1>12. ASSUME NEW r \in Runs, Expire(r) PROVE Promise!AuthorizationNext
    <2>1. /\ UNCHANGED <<input, called, pc>>
          /\ runStatus[r] \in Active
          /\ RecordedOutcome(r) \in {"stopped", "outcome_unknown"}
          /\ runStatus' = [runStatus EXCEPT ![r] = RecordedOutcome(r)]
      BY <1>12 DEF Expire, Leased, RecordedOutcome, Settle, Active
    <2>2. CreditBar' = CreditBar
      BY <2>1 DEF CreditBar, Credit
    <2>3. RecordedOutcome(r) # "outcome_unknown"
            => called[r] = 0 /\ pc[r] # "reserved"
      BY <1>c, <2>1 DEF ClosedMeansNotSent, TypeOK
    <2>4. QED
      BY <2>1, <2>2, <2>3, EndStep
  <1>13. QED
    BY <1>1, <1>2, <1>3, <1>4, <1>5, <1>7, <1>8, <1>9, <1>10, <1>11, <1>12
       DEF Next, Command, Process, vars, Message, Members, Bind, CancelRead,
           Verify, Deliver, LeaseRunsOut

(* A Work keeps its promise about model calls, whatever happens to leases,   *)
(* fences, acknowledgements and workers: a subject is granted again only     *)
(* when no earlier grant of it may still be billed, a grant ends as void     *)
(* only if nothing was or will be sent for it, it is published only after    *)
(* its one request, and all requests stay within the limit.                  *)
THEOREM RefinesPromise == Spec => KeepsPromise
  <1> DEFINE J == /\ SendTracked /\ ClosedMeansNotSent /\ CallsWithinBudget
                  /\ AnswerWasSent
  <1>1. Init => J
    <2>1. Init => AnswerWasSent
      BY DEF Init, NothingRan, AnswerWasSent
    <2>2. QED
      BY <2>1, InitSend
  <1>2. IInv /\ J /\ [Next]_vars => J'
    BY SendStep, ClosedStep, BudgetStep, AnswerStep DEF IInv
  <1>3. ASSUME Init PROVE Promise!AuthorizationInit
    <2>1. \A r \in Runs : /\ runStatus[r] = "none"
                          /\ called[r] = 0 /\ pc[r] = "idle"
                          /\ input[r].kind = "none" /\ input[r].task = NoTask
      BY <1>3 DEF Init, NothingRan, NoInput
    <2>2. \A r \in Runs : AnswerOf(runStatus[r]) = "absent"
      BY <2>1, Answers
    <2>3. QED
      BY <2>1, <2>2 DEF Promise!AuthorizationInit
  <1>4. IInv /\ J /\ [Next]_vars
          => [Promise!AuthorizationNext]_(Promise!avars)
    BY PromiseKept
  <1>5. QED
    BY <1>1, <1>2, <1>3, <1>4, Invariant, PTL
       DEF Spec, KeepsPromise, Promise!AuthorizationSpec

=============================================================================
