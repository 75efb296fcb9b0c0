------------------------- MODULE RuntimeTargetProofs -------------------------
(* Proofs about RuntimeTarget, for any number of handlers, operations,      *)
(* steps, retries and generations.                                          *)
EXTENDS RuntimeTarget, TLAPS

-----------------------------------------------------------------------------
(* The initial states have the types. *)
LEMMA InitType == Init => TypeOK
  <1> SUFFICES ASSUME Init PROVE TypeOK
    OBVIOUS
  <1> USE TargetAssumption DEF Init, TypeOK
  <1>1. job \in [Handlers -> Jobs] /\ jobState \in [Jobs -> {"none", "queued", "active"}]
    BY DEF Jobs
  <1>2. last \in [Handlers -> BOOLEAN] /\ ok \in [Handlers -> BOOLEAN]
    OBVIOUS
  <1>3. opStatus \in [Ops -> {"none"} \cup OpActive \cup OpEnded]
    OBVIOUS
  <1>4. QED
    BY <1>1, <1>2, <1>3 DEF Statuses

(* What ends an invocation, or sends it on, keeps the types of its locals.  *)
LocalsOK ==
    /\ pc \in [Handlers -> {"idle", "closing"} \cup Reconciling \cup Operating
                             \cup Purging]
    /\ job \in [Handlers -> Jobs]
    /\ gen \in [Handlers -> Nat] /\ step \in [Handlers -> Nat]
    /\ last \in [Handlers -> BOOLEAN] /\ ok \in [Handlers -> BOOLEAN]

LEMMA GoType ==
  ASSUME LocalsOK, NEW h \in Handlers,
         NEW place \in {"idle", "closing"} \cup Reconciling \cup Operating
                         \cup Purging,
         Go(h, place)
  PROVE LocalsOK'
  BY DEF LocalsOK, Go, local

LEMMA CloseType ==
  ASSUME LocalsOK, NEW h \in Handlers, NEW result \in BOOLEAN, Close(h, result)
  PROVE LocalsOK'
  <1>1. ok' \in [Handlers -> BOOLEAN]
    BY DEF LocalsOK, Close
  <1>2. QED
    BY <1>1 DEF LocalsOK, Close

LEMMA LeaveType ==
  ASSUME LocalsOK, NEW h \in Handlers, NEW result \in BOOLEAN, Leave(h, result)
  PROVE LocalsOK'
  <1>1. ok' \in [Handlers -> BOOLEAN]
    BY DEF LocalsOK, Leave
  <1>2. QED
    BY <1>1 DEF LocalsOK, Leave, Operating

LEMMA RetireType ==
  ASSUME LocalsOK, NEW h \in Handlers, Retire(h) PROVE LocalsOK'
  <1>1. ok' \in [Handlers -> BOOLEAN] /\ last' \in [Handlers -> BOOLEAN]
    BY DEF LocalsOK, Retire
  <1>2. "reconcile" \in Jobs
    BY DEF Jobs
  <1>3. QED
    BY <1>1, <1>2 DEF LocalsOK, Retire

(* The queue keeps its types. *)
QueueOK == /\ jobState \in [Jobs -> {"none", "queued", "active"}]
           /\ tries \in [Jobs -> Nat]

LEMMA EnqueueType ==
  ASSUME QueueOK, NEW j \in Jobs, Enqueue(j) PROVE QueueOK'
  BY DEF QueueOK, Enqueue

LEMMA FailJobType ==
  ASSUME QueueOK, NEW j \in Jobs, FailJob(j) PROVE QueueOK'
  BY DEF QueueOK, FailJob

(* The rest of the type invariant: the rows. *)
RowsOK ==
    /\ deleted \in BOOLEAN /\ namespace \in BOOLEAN /\ listed \in BOOLEAN
    /\ task \in {"none", "scheduled", "running", "retry", "failed",
                 "completed"}
    /\ projectLock \in Handlers \cup {Nobody}
    /\ status \in Statuses
    /\ generation \in Nat /\ observed \in Nat
    /\ owner \in Handlers \cup {Nobody, Gone}
    /\ lease \in {"none", "live", "expired"}
    /\ opStatus \in [Ops -> {"none"} \cup OpActive \cup OpEnded]

LEMMA TypeParts ==
  /\ TypeOK <=> LocalsOK /\ QueueOK /\ RowsOK
  /\ TypeOK' <=> LocalsOK' /\ QueueOK' /\ RowsOK'
  BY DEF TypeOK, LocalsOK, QueueOK, RowsOK

(* Every step keeps the types. *)
LEMMA ReconcileType ==
  ASSUME TypeOK, NEW h \in Handlers, Reconcile(h) PROVE TypeOK'
  <1> USE TypeParts, GoType, CloseType
  <1> USE TargetAssumption DEF row, queue, local, other, At, Untouched, Keep
  <1>1. CASE Begin(h)
    BY <1>1 DEF Begin, LocalsOK, QueueOK, RowsOK, Reconciling
  <1>2. CASE Load(h)
    BY <1>2 DEF Load, LocalsOK, QueueOK, RowsOK, Reconciling
  <1>3. CASE CreateRow(h)
    BY <1>3 DEF CreateRow, LocalsOK, QueueOK, RowsOK, Reconciling, Statuses
  <1>4. CASE Claim(h)
    BY <1>4 DEF Claim, Take, LocalsOK, QueueOK, RowsOK, Reconciling, Statuses
  <1>5. CASE Check(h)
    BY <1>5 DEF Check, LocalsOK, QueueOK, RowsOK, Reconciling
  <1>6. CASE Act(h)
    <2>1. namespace' \in BOOLEAN
      BY <1>6 DEF Act
    <2>2. step' \in [Handlers -> Nat]
      BY <1>6 DEF Act, LocalsOK
    <2>3. QED
      BY <1>6, <2>1, <2>2 DEF Act, LocalsOK, QueueOK, RowsOK, Reconciling
  <1>7. CASE Throw(h)
    BY <1>7 DEF Throw, LocalsOK, QueueOK, RowsOK, Reconciling
  <1>8. CASE Observe(h)
    <2>1. LocalsOK'
      BY <1>8 DEF Observe, Reconciling
    <2>2. observed' \in Nat /\ status' \in Statuses
      <3>1. gen[h] \in Nat /\ observed \in Nat /\ status \in Statuses
        BY DEF LocalsOK, RowsOK
      <3>2. \/ status' = "ready" /\ observed' = gen[h]
            \/ status' = status /\ observed' = observed
        BY <1>8 DEF Observe
      <3>3. QED
        BY <3>1, <3>2 DEF Statuses
    <2>3. owner' \in Handlers \cup {Nobody, Gone}
      BY <1>8 DEF Observe, Release, RowsOK
    <2>4. lease' \in {"none", "live", "expired"}
      BY <1>8 DEF Observe, Release, RowsOK
    <2>5. RowsOK'
      BY <1>8, <2>2, <2>3, <2>4 DEF Observe, RowsOK
    <2>6. QED
      BY <1>8, <2>1, <2>5 DEF Observe, QueueOK
  <1>9. CASE Catch(h)
    BY <1>9 DEF Catch, Release, LocalsOK, QueueOK, RowsOK, Reconciling,
                Statuses
  <1>10. CASE Finally(h)
    BY <1>10 DEF Finally, ReleaseMine, Release, LocalsOK, QueueOK, RowsOK,
                 Reconciling
  <1>11. CASE Record(h)
    <2>1. LocalsOK'
      BY <1>11 DEF Record
    <2>2. RowsOK'
      BY <1>11 DEF Record, AfterFailure, RowsOK, Statuses
    <2>3. QED
      BY <1>11, <2>1, <2>2 DEF Record, QueueOK
  <1>12. QED
    BY <1>1, <1>2, <1>3, <1>4, <1>5, <1>6, <1>7, <1>8, <1>9, <1>10, <1>11
       DEF Reconcile

LEMMA CancelSomeType ==
  ASSUME NEW o \in Jobs,
         NEW ops \in [Ops -> {"none"} \cup OpActive \cup OpEnded],
         CancelSome(o, ops)
  PROVE opStatus' \in [Ops -> {"none"} \cup OpActive \cup OpEnded]
  BY DEF CancelSome, OpEnded

LEMMA OperateType ==
  ASSUME TypeOK, NEW h \in Handlers, Operate(h) PROVE TypeOK'
  <1> USE TypeParts, GoType, CloseType, LeaveType
  <1> USE TargetAssumption DEF row, queue, local, other, At, Untouched, Keep
  <1>1. CASE OpBegin(h)
    BY <1>1 DEF OpBegin, LocalsOK, QueueOK, RowsOK, Operating
  <1>2. CASE OpLock(h)
    BY <1>2 DEF OpLock, LocalsOK, QueueOK, RowsOK, Operating, OpEnded
  <1>3. CASE OpClaim(h)
    <2>1. opStatus' \in [Ops -> {"none"} \cup OpActive \cup OpEnded]
      BY <1>3, CancelSomeType DEF OpClaim, LocalsOK, RowsOK, OpActive
    <2>2. QED
      BY <1>3, <2>1 DEF OpClaim, Take, LocalsOK, QueueOK, RowsOK, Operating
  <1>4. CASE OpUnclaimed(h)
    BY <1>4 DEF OpUnclaimed, AfterFailure, LocalsOK, QueueOK, RowsOK, OpActive,
                OpEnded
  <1>5. CASE OpAct(h)
    BY <1>5 DEF OpAct, LocalsOK, QueueOK, RowsOK, Operating
  <1>6. CASE OpThrow(h)
    BY <1>6 DEF OpThrow, LocalsOK, QueueOK, RowsOK, Operating
  <1>7. CASE OpCheck(h)
    BY <1>7 DEF OpCheck, LocalsOK, QueueOK, RowsOK, Operating
  <1>8. CASE OpComplete(h)
    BY <1>8 DEF OpComplete, LocalsOK, QueueOK, RowsOK, OpEnded
  <1>9. CASE OpCatch(h)
    BY <1>9 DEF OpCatch, LocalsOK, QueueOK, RowsOK, Operating
  <1>10. CASE OpMark(h)
    BY <1>10 DEF OpMark, AfterFailure, LocalsOK, QueueOK, RowsOK, OpActive,
                 OpEnded
  <1>11. CASE OpFinally(h)
    <2>1. ok[h] \in BOOLEAN
      BY DEF LocalsOK
    <2>2. LocalsOK'
      BY <1>11, <2>1 DEF OpFinally
    <2>3. QED
      BY <1>11, <2>2 DEF OpFinally, ReleaseMine, Release, QueueOK, RowsOK
  <1>12. QED
    BY <1>1, <1>2, <1>3, <1>4, <1>5, <1>6, <1>7, <1>8, <1>9, <1>10, <1>11
       DEF Operate

LEMMA PurgeType ==
  ASSUME TypeOK, NEW h \in Handlers, Purge(h) PROVE TypeOK'
  <1> USE TypeParts, GoType, CloseType
  <1> USE TargetAssumption DEF row, queue, local, other, At, Untouched, SetTask
  <1>1. CASE PurgeBegin(h)
    BY <1>1 DEF PurgeBegin, LocalsOK, QueueOK, RowsOK, Purging
  <1>2. CASE PurgeMark(h)
    BY <1>2 DEF PurgeMark, LocalsOK, QueueOK, RowsOK, Purging
  <1>3. CASE PurgeRead(h)
    BY <1>3 DEF PurgeRead, LocalsOK, QueueOK, RowsOK, Purging
  <1>4. CASE PurgeExternal(h)
    BY <1>4 DEF PurgeExternal, LocalsOK, QueueOK, RowsOK, Purging
  <1>5. CASE PurgeTarget(h)
    BY <1>5 DEF PurgeTarget, LocalsOK, QueueOK, RowsOK, Purging
  <1>6. CASE PurgeDeleting(h)
    BY <1>6 DEF PurgeDeleting, LocalsOK, QueueOK, RowsOK, Purging, Statuses
  <1>7. CASE PurgeNamespace(h)
    BY <1>7 DEF PurgeNamespace, LocalsOK, QueueOK, RowsOK, Purging
  <1>8. CASE PurgeFinal(h)
    BY <1>8 DEF PurgeFinal, LocalsOK, QueueOK, RowsOK
  <1>9. CASE PurgeThrow(h)
    <2>1. LocalsOK'
      BY <1>9 DEF PurgeThrow, Purging
    <2>2. QED
      BY <1>9, <2>1 DEF PurgeThrow, QueueOK, RowsOK
  <1>10. CASE PurgeCatch(h)
    BY <1>10 DEF PurgeCatch, AfterFailure, LocalsOK, QueueOK, RowsOK
  <1>11. QED
    BY <1>1, <1>2, <1>3, <1>4, <1>5, <1>6, <1>7, <1>8, <1>9, <1>10 DEF Purge

LEMMA NextType == TypeOK /\ [Next]_vars => TypeOK'
  <1> SUFFICES ASSUME TypeOK, [Next]_vars PROVE TypeOK'
    OBVIOUS
  <1> USE TypeParts, EnqueueType, FailJobType, RetireType
  <1> USE TargetAssumption DEF row, queue, local, other
  <1>jobs. {"reconcile", "purge"} \subseteq Jobs /\ Ops \subseteq Jobs
    BY DEF Jobs
  <1>1. ASSUME NEW h \in Handlers, NEW j \in Jobs, Deliver(h, j) PROVE TypeOK'
    <2>1. last' \in [Handlers -> BOOLEAN]
      BY <1>1 DEF Deliver, LocalsOK
    <2>2. FirstPlace(j) \in Reconciling \cup Operating \cup Purging
      BY DEF FirstPlace, Reconciling, Operating, Purging
    <2>3. QED
      BY <1>1, <2>1, <2>2 DEF Deliver, LocalsOK, QueueOK, RowsOK
  <1>2. ASSUME NEW h \in Handlers, Reconcile(h) PROVE TypeOK'
    BY <1>2, ReconcileType
  <1>3. ASSUME NEW h \in Handlers, Operate(h) PROVE TypeOK'
    BY <1>3, OperateType
  <1>4. ASSUME NEW h \in Handlers, Purge(h) PROVE TypeOK'
    BY <1>4, PurgeType
  <1>5. ASSUME NEW h \in Handlers, CloseJob(h) PROVE TypeOK'
    <2>1. job[h] \in Jobs
      BY DEF LocalsOK
    <2>2. QueueOK'
      BY <1>5, <2>1 DEF CloseJob, QueueOK
    <2>3. QED
      BY <1>5, <2>2 DEF CloseJob, Retire, RowsOK
  <1>6. ASSUME NEW h \in Handlers, Crash(h) PROVE TypeOK'
    BY <1>6 DEF Crash, Retire, RowsOK, QueueOK
  <1>7. ASSUME NEW h \in Handlers, Heartbeat(h) PROVE TypeOK'
    BY <1>7 DEF Heartbeat, RowsOK, QueueOK, LocalsOK
  <1>8. ASSUME NEW j \in Jobs, ExpireJob(j) PROVE TypeOK'
    BY <1>8 DEF ExpireJob, RowsOK, LocalsOK
  <1>9. CASE LeaseRunsOut
    BY <1>9 DEF LeaseRunsOut, RowsOK, QueueOK, LocalsOK
  <1>10. ASSUME NEW reinitialize \in BOOLEAN, Schedule(reinitialize)
         PROVE TypeOK'
    BY <1>10, <1>jobs DEF Schedule, Release, RowsOK, LocalsOK, Statuses
  <1>11. CASE SyncTeam
    BY <1>11, <1>jobs DEF SyncTeam, RowsOK, LocalsOK
  <1>12. CASE Delete
    BY <1>12, <1>jobs DEF Delete, RowsOK, LocalsOK, Statuses
  <1>13. CASE List
    BY <1>13 DEF List, RowsOK, QueueOK, LocalsOK
  <1>14. CASE Send
    BY <1>14, <1>jobs DEF Send, RowsOK, LocalsOK
  <1>15. ASSUME NEW o \in Ops, Request(o) PROVE TypeOK'
    <2>1. opStatus' \in [Ops -> {"none"} \cup OpActive \cup OpEnded]
      BY <1>15, <1>jobs, CancelSomeType DEF Request, RowsOK, OpActive
    <2>2. QED
      BY <1>15, <1>jobs, <2>1 DEF Request, RowsOK, LocalsOK
  <1>16. CASE UNCHANGED vars
    BY <1>16 DEF vars, RowsOK, QueueOK, LocalsOK
  <1>17. QED
    BY <1>1, <1>2, <1>3, <1>4, <1>5, <1>6, <1>7, <1>8, <1>9, <1>10, <1>11,
       <1>12, <1>13, <1>14, <1>15, <1>16 DEF Next

(* Every variable keeps its type. *)
THEOREM TypeCorrect == Spec => []TypeOK
  <1>1. QED
    BY InitType, NextType, PTL DEF Spec

-----------------------------------------------------------------------------
(* The inductive invariant.  Its parts say what the place of a handler      *)
(* tells about the shared state; those under ~LeasesLapse need the lease.   *)

(* an operation's handler works on an operation *)
JobOfPlace ==
    \A h \in Handlers : /\ pc[h] \in Operating => job[h] \in Ops
                        /\ pc[h] \in Purging => job[h] = "purge"

(* what OpLock read stays true until the transaction ends *)
LockHeld ==
    \A h \in Handlers :
       pc[h] = "op_claim" => /\ projectLock = h
                             /\ ~deleted
                             /\ opStatus[job[h]] # "cancelled"

(* nothing is purged before its Project is deleted *)
PurgeWanted ==
    \/ deleted
    \/ /\ jobState["purge"] = "none" /\ task = "none"
       /\ \A h \in Handlers : pc[h] \notin Purging /\ job[h] # "purge"

(* a handler that is alive and owns the lease has it *)
LiveLease == ~LeasesLapse => (owner \in Handlers => lease = "live")

(* who changes the runtime owns the lease *)
WorkersHold == ~LeasesLapse => \A h \in Working : owner = h

(* from the purge's first look at the lease on, nobody works *)
Purged == \/ task = "completed"
          \/ \E h \in Handlers : pc[h] = "purge_final"
PurgeAlone == ~LeasesLapse => (Destroying # {} \/ Purged => Working = {})

(* at its end the namespace is gone *)
Erased == ~LeasesLapse => (Purged => ~namespace)

(* a reconciliation that got past its first reads has seen a row, and only  *)
(* such a one creates the namespace                                          *)
RowSeen == \A h \in Handlers : pc[h] \in {"claim", "checking", "acting"}
                                => status # "absent"
AbsentEmpty == status = "absent" => ~namespace

(* what the steps of a reconciliation have made *)
NamespaceMade == \A h \in Handlers :
                    step[h] >= NamespaceStep /\ ~deleted => namespace
Observing == \A h \in Handlers :
                pc[h] = "observing" => /\ step[h] = Steps
                                       /\ Mine(h) => ~deleted

IInv ==
    /\ TypeOK
    /\ JobOfPlace /\ LockHeld /\ PurgeWanted
    /\ LiveLease /\ WorkersHold /\ PurgeAlone /\ Erased
    /\ RowSeen /\ AbsentEmpty /\ NamespaceMade /\ Observing /\ ReadyIsCurrent

-----------------------------------------------------------------------------
(* Who can change what.  A handler's locals are its own. *)
Moves(h) ==
    \/ Reconcile(h) \/ Operate(h) \/ Purge(h) \/ CloseJob(h) \/ Crash(h)
    \/ \E j \in Jobs : Deliver(h, j)
Stays(g) == /\ pc'[g] = pc[g] /\ job'[g] = job[g]
            /\ gen'[g] = gen[g] /\ step'[g] = step[g]

(* what is nobody's step: the queue, the clock, people and maintenance *)
Outside ==
    \/ \E h \in Handlers : Heartbeat(h)
    \/ \E j \in Jobs : ExpireJob(j)
    \/ LeaseRunsOut
    \/ \E reinitialize \in BOOLEAN : Schedule(reinitialize)
    \/ SyncTeam \/ Delete \/ List \/ Send
    \/ \E o \in Ops : Request(o)

LEMMA StepIsSomebodys ==
  [Next]_vars => \/ \E h \in Handlers : Moves(h)
                 \/ Outside
                 \/ UNCHANGED vars
  BY DEF Next, Moves, Outside

LEMMA OthersStay ==
  ASSUME TypeOK, NEW h \in Handlers, Moves(h), NEW g \in Handlers, g # h
  PROVE Stays(g)
  <1> USE DEF TypeOK, Stays, Go, Close, Leave, Retire, local
  <1>1. CASE Reconcile(h)
    BY <1>1 DEF Reconcile, Begin, Load, CreateRow, Claim, Check, Act, Throw,
                Observe, Catch, Finally, Record
  <1>2. CASE Operate(h)
    BY <1>2 DEF Operate, OpBegin, OpLock, OpClaim, OpUnclaimed, OpAct, OpThrow,
                OpCheck, OpComplete, OpCatch, OpMark, OpFinally
  <1>3. CASE Purge(h)
    BY <1>3 DEF Purge, PurgeBegin, PurgeMark, PurgeRead, PurgeExternal,
                PurgeTarget, PurgeDeleting, PurgeNamespace, PurgeFinal,
                PurgeThrow, PurgeCatch
  <1>4. CASE CloseJob(h)
    BY <1>4 DEF CloseJob
  <1>5. CASE Crash(h)
    BY <1>5 DEF Crash
  <1>6. CASE \E j \in Jobs : Deliver(h, j)
    BY <1>6 DEF Deliver
  <1>7. QED
    BY <1>1, <1>2, <1>3, <1>4, <1>5, <1>6 DEF Moves

LEMMA OutsideStays ==
  Outside \/ UNCHANGED vars => UNCHANGED <<pc, local>>
  BY DEF Outside, Heartbeat, ExpireJob, LeaseRunsOut, Schedule, SyncTeam, Delete,
                List, Send, Request, vars

LEMMA MovesOrStays ==
  ASSUME TypeOK, [Next]_vars, NEW g \in Handlers PROVE Moves(g) \/ Stays(g)
  <1>1. CASE \E h \in Handlers : Moves(h)
    BY <1>1, OthersStay
  <1>2. CASE UNCHANGED <<pc, local>>
    BY <1>2 DEF Stays, local
  <1>3. QED
    BY <1>1, <1>2, StepIsSomebodys, OutsideStays

(* Only Delete deletes a Project, and nothing brings it back. *)
LEMMA DeletedEffect ==
  ASSUME TypeOK, [Next]_vars
  PROVE deleted' = deleted \/ Delete
  <1> USE DEF row, queue, local, other, At, Untouched, Keep, SetTask, TypeOK
  <1>1. ASSUME NEW h \in Handlers, Reconcile(h) PROVE deleted' = deleted \/ Delete
    BY <1>1 DEF Reconcile, Begin, Load, CreateRow, Claim, Check, Act, Throw,
                Observe, Catch, Finally, Record
  <1>2. ASSUME NEW h \in Handlers, Operate(h) PROVE deleted' = deleted \/ Delete
    BY <1>2 DEF Operate, OpBegin, OpLock, OpClaim, OpUnclaimed, OpAct, OpThrow,
                OpCheck, OpComplete, OpCatch, OpMark, OpFinally
  <1>3. ASSUME NEW h \in Handlers, Purge(h) PROVE deleted' = deleted \/ Delete
    BY <1>3 DEF Purge, PurgeBegin, PurgeMark, PurgeRead, PurgeExternal,
                PurgeTarget, PurgeDeleting, PurgeNamespace, PurgeFinal,
                PurgeThrow, PurgeCatch
  <1>4. ASSUME NEW h \in Handlers, CloseJob(h) PROVE deleted' = deleted \/ Delete
    BY <1>4 DEF CloseJob, Retire
  <1>5. ASSUME NEW h \in Handlers, Crash(h) PROVE deleted' = deleted \/ Delete
    BY <1>5 DEF Crash, Retire
  <1>6. ASSUME NEW h \in Handlers, NEW j \in Jobs, Deliver(h, j) PROVE deleted' = deleted \/ Delete
    BY <1>6 DEF Deliver
  <1>7. CASE Outside
    BY <1>7 DEF Outside, Heartbeat, ExpireJob, LeaseRunsOut, Schedule, SyncTeam, Delete,
                List, Send, Request
  <1>8. CASE UNCHANGED vars
    BY <1>8 DEF vars
  <1>9. QED
    BY <1>1, <1>2, <1>3, <1>4, <1>5, <1>6, <1>7, <1>8, StepIsSomebodys
       DEF Moves

(* A row that exists keeps existing. *)
LEMMA RowStays ==
  ASSUME TypeOK, [Next]_vars, status # "absent"
  PROVE status' # "absent"
  <1> USE DEF row, queue, local, other, At, Untouched, Keep, SetTask, AfterFailure
  <1>1. ASSUME NEW h \in Handlers, Reconcile(h) PROVE status' # "absent"
    BY <1>1 DEF Reconcile, Begin, Load, CreateRow, Claim, Check, Act, Throw,
                Observe, Catch, Finally, Record
  <1>2. ASSUME NEW h \in Handlers, Operate(h) PROVE status' # "absent"
    BY <1>2 DEF Operate, OpBegin, OpLock, OpClaim, OpUnclaimed, OpAct, OpThrow,
                OpCheck, OpComplete, OpCatch, OpMark, OpFinally
  <1>3. ASSUME NEW h \in Handlers, Purge(h) PROVE status' # "absent"
    BY <1>3 DEF Purge, PurgeBegin, PurgeMark, PurgeRead, PurgeExternal,
                PurgeTarget, PurgeDeleting, PurgeNamespace, PurgeFinal,
                PurgeThrow, PurgeCatch
  <1>4. ASSUME NEW h \in Handlers, CloseJob(h) PROVE status' # "absent"
    BY <1>4 DEF CloseJob, Retire
  <1>5. ASSUME NEW h \in Handlers, Crash(h) PROVE status' # "absent"
    BY <1>5 DEF Crash, Retire
  <1>6. ASSUME NEW h \in Handlers, NEW j \in Jobs, Deliver(h, j) PROVE status' # "absent"
    BY <1>6 DEF Deliver
  <1>7. CASE Outside
    BY <1>7 DEF Outside, Heartbeat, ExpireJob, LeaseRunsOut, Schedule, SyncTeam, Delete,
                List, Send, Request
  <1>8. CASE UNCHANGED vars
    BY <1>8 DEF vars
  <1>9. QED
    BY <1>1, <1>2, <1>3, <1>4, <1>5, <1>6, <1>7, <1>8, StepIsSomebodys
       DEF Moves

(* A runtime that is being deleted keeps that status. *)
LEMMA DeletingStays ==
  ASSUME [Next]_vars, status = "deleting"
  PROVE status' = "deleting"
  <1> USE DEF row, queue, local, other, At, Untouched, Keep, SetTask, Recordable, Mine, Claimable
  <1>1. ASSUME NEW h \in Handlers, Reconcile(h) PROVE status' = "deleting"
    BY <1>1 DEF Reconcile, Begin, Load, CreateRow, Claim, Check, Act, Throw,
                Observe, Catch, Finally, Record
  <1>2. ASSUME NEW h \in Handlers, Operate(h) PROVE status' = "deleting"
    BY <1>2 DEF Operate, OpBegin, OpLock, OpClaim, OpUnclaimed, OpAct, OpThrow,
                OpCheck, OpComplete, OpCatch, OpMark, OpFinally
  <1>3. ASSUME NEW h \in Handlers, Purge(h) PROVE status' = "deleting"
    BY <1>3 DEF Purge, PurgeBegin, PurgeMark, PurgeRead, PurgeExternal,
                PurgeTarget, PurgeDeleting, PurgeNamespace, PurgeFinal,
                PurgeThrow, PurgeCatch
  <1>4. ASSUME NEW h \in Handlers, CloseJob(h) PROVE status' = "deleting"
    BY <1>4 DEF CloseJob, Retire
  <1>5. ASSUME NEW h \in Handlers, Crash(h) PROVE status' = "deleting"
    BY <1>5 DEF Crash, Retire
  <1>6. ASSUME NEW h \in Handlers, NEW j \in Jobs, Deliver(h, j) PROVE status' = "deleting"
    BY <1>6 DEF Deliver
  <1>7. CASE Outside
    BY <1>7 DEF Outside, Heartbeat, ExpireJob, LeaseRunsOut, Schedule, SyncTeam, Delete,
                List, Send, Request
  <1>8. CASE UNCHANGED vars
    BY <1>8 DEF vars
  <1>9. QED
    BY <1>1, <1>2, <1>3, <1>4, <1>5, <1>6, <1>7, <1>8, StepIsSomebodys
       DEF Moves

(* Once a runtime is being deleted its status is final: every statement     *)
(* that writes a status asks for another one first.                         *)
THEOREM DeletingStaysFinal == Spec => DeletingIsFinal
  <1>1. [Next]_vars => (status = "deleting" => status' = "deleting")
    BY DeletingStays
  <1>2. QED
    BY <1>1, PTL DEF Spec, DeletingIsFinal

(* Who takes the Project row lock finds it free, and only its holder gives
   it up. *)
LEMMA LockEffect ==
  ASSUME TypeOK, LockHeld, [Next]_vars,
         projectLock' # projectLock, projectLock # Nobody
  PROVE \E g \in Handlers : projectLock = g /\ Moves(g)
  <1> USE DEF row, queue, local, other, At, Untouched, Keep, SetTask, LockHeld, CancelSome, Moves
  <1>1. ASSUME NEW h \in Handlers, Reconcile(h) PROVE \E g \in Handlers : projectLock = g /\ Moves(g)
    BY <1>1 DEF Reconcile, Begin, Load, CreateRow, Claim, Check, Act, Throw,
                Observe, Catch, Finally, Record
  <1>2. ASSUME NEW h \in Handlers, Operate(h) PROVE \E g \in Handlers : projectLock = g /\ Moves(g)
    BY <1>2 DEF Operate, OpBegin, OpLock, OpClaim, OpUnclaimed, OpAct, OpThrow,
                OpCheck, OpComplete, OpCatch, OpMark, OpFinally
  <1>3. ASSUME NEW h \in Handlers, Purge(h) PROVE \E g \in Handlers : projectLock = g /\ Moves(g)
    BY <1>3 DEF Purge, PurgeBegin, PurgeMark, PurgeRead, PurgeExternal,
                PurgeTarget, PurgeDeleting, PurgeNamespace, PurgeFinal,
                PurgeThrow, PurgeCatch
  <1>4. ASSUME NEW h \in Handlers, CloseJob(h) PROVE \E g \in Handlers : projectLock = g /\ Moves(g)
    BY <1>4 DEF CloseJob, Retire
  <1>5. ASSUME NEW h \in Handlers, Crash(h) PROVE \E g \in Handlers : projectLock = g /\ Moves(g)
    BY <1>5 DEF Crash, Retire
  <1>6. ASSUME NEW h \in Handlers, NEW j \in Jobs, Deliver(h, j) PROVE \E g \in Handlers : projectLock = g /\ Moves(g)
    BY <1>6 DEF Deliver
  <1>7. CASE Outside
    BY <1>7 DEF Outside, Heartbeat, ExpireJob, LeaseRunsOut, Schedule, SyncTeam, Delete,
                List, Send, Request
  <1>8. CASE UNCHANGED vars
    BY <1>8 DEF vars
  <1>9. QED
    BY <1>1, <1>2, <1>3, <1>4, <1>5, <1>6, <1>7, <1>8, StepIsSomebodys
       DEF Moves

(* An operation is cancelled under the lock, or after the deletion of its
   Project. *)
LEMMA CancelEffect ==
  ASSUME TypeOK, [Next]_vars, NEW o \in Ops,
         opStatus[o] # "cancelled", opStatus'[o] = "cancelled"
  PROVE \/ projectLock = Nobody
        \/ deleted
        \/ \E g \in Handlers : pc[g] = "op_claim" /\ Moves(g)
  <1> USE DEF row, queue, local, other, At, Untouched, Keep, SetTask, TypeOK, CancelSome, AfterFailure, Moves
  <1>1. ASSUME NEW h \in Handlers, Reconcile(h) PROVE \/ projectLock = Nobody
        \/ deleted
        \/ \E g \in Handlers : pc[g] = "op_claim" /\ Moves(g)
    BY <1>1 DEF Reconcile, Begin, Load, CreateRow, Claim, Check, Act, Throw,
                Observe, Catch, Finally, Record
  <1>2. ASSUME NEW h \in Handlers, Operate(h) PROVE \/ projectLock = Nobody
        \/ deleted
        \/ \E g \in Handlers : pc[g] = "op_claim" /\ Moves(g)
    BY <1>2 DEF Operate, OpBegin, OpLock, OpClaim, OpUnclaimed, OpAct, OpThrow,
                OpCheck, OpComplete, OpCatch, OpMark, OpFinally
  <1>3. ASSUME NEW h \in Handlers, Purge(h) PROVE \/ projectLock = Nobody
        \/ deleted
        \/ \E g \in Handlers : pc[g] = "op_claim" /\ Moves(g)
    BY <1>3 DEF Purge, PurgeBegin, PurgeMark, PurgeRead, PurgeExternal,
                PurgeTarget, PurgeDeleting, PurgeNamespace, PurgeFinal,
                PurgeThrow, PurgeCatch
  <1>4. ASSUME NEW h \in Handlers, CloseJob(h) PROVE \/ projectLock = Nobody
        \/ deleted
        \/ \E g \in Handlers : pc[g] = "op_claim" /\ Moves(g)
    BY <1>4 DEF CloseJob, Retire
  <1>5. ASSUME NEW h \in Handlers, Crash(h) PROVE \/ projectLock = Nobody
        \/ deleted
        \/ \E g \in Handlers : pc[g] = "op_claim" /\ Moves(g)
    BY <1>5 DEF Crash, Retire
  <1>6. ASSUME NEW h \in Handlers, NEW j \in Jobs, Deliver(h, j) PROVE \/ projectLock = Nobody
        \/ deleted
        \/ \E g \in Handlers : pc[g] = "op_claim" /\ Moves(g)
    BY <1>6 DEF Deliver
  <1>7. CASE Outside
    BY <1>7 DEF Outside, Heartbeat, ExpireJob, LeaseRunsOut, Schedule, SyncTeam, Delete,
                List, Send, Request
  <1>8. CASE UNCHANGED vars
    BY <1>8 DEF vars
  <1>9. QED
    BY <1>1, <1>2, <1>3, <1>4, <1>5, <1>6, <1>7, <1>8, StepIsSomebodys
       DEF Moves

(* The lease changes hands when it is free, or its owner gives it up. *)
LEMMA OwnerEffect ==
  ASSUME TypeOK, [Next]_vars, owner' # owner
  PROVE \/ LeaseFree
        \/ \E g \in Handlers : owner = g /\ Moves(g)
  <1> USE DEF row, queue, local, other, At, Untouched, Keep, SetTask, TypeOK, Take, Release, ReleaseMine,
             Claimable, OpMayClaim, Mine, Moves
  <1>1. ASSUME NEW h \in Handlers, Reconcile(h) PROVE \/ LeaseFree
        \/ \E g \in Handlers : owner = g /\ Moves(g)
    BY <1>1 DEF Reconcile, Begin, Load, CreateRow, Claim, Check, Act, Throw,
                Observe, Catch, Finally, Record
  <1>2. ASSUME NEW h \in Handlers, Operate(h) PROVE \/ LeaseFree
        \/ \E g \in Handlers : owner = g /\ Moves(g)
    BY <1>2 DEF Operate, OpBegin, OpLock, OpClaim, OpUnclaimed, OpAct, OpThrow,
                OpCheck, OpComplete, OpCatch, OpMark, OpFinally
  <1>3. ASSUME NEW h \in Handlers, Purge(h) PROVE \/ LeaseFree
        \/ \E g \in Handlers : owner = g /\ Moves(g)
    BY <1>3 DEF Purge, PurgeBegin, PurgeMark, PurgeRead, PurgeExternal,
                PurgeTarget, PurgeDeleting, PurgeNamespace, PurgeFinal,
                PurgeThrow, PurgeCatch
  <1>4. ASSUME NEW h \in Handlers, CloseJob(h) PROVE \/ LeaseFree
        \/ \E g \in Handlers : owner = g /\ Moves(g)
    BY <1>4 DEF CloseJob, Retire
  <1>5. ASSUME NEW h \in Handlers, Crash(h) PROVE \/ LeaseFree
        \/ \E g \in Handlers : owner = g /\ Moves(g)
    BY <1>5 DEF Crash, Retire
  <1>6. ASSUME NEW h \in Handlers, NEW j \in Jobs, Deliver(h, j) PROVE \/ LeaseFree
        \/ \E g \in Handlers : owner = g /\ Moves(g)
    BY <1>6 DEF Deliver
  <1>7. CASE Outside
    BY <1>7 DEF Outside, Heartbeat, ExpireJob, LeaseRunsOut, Schedule, SyncTeam, Delete,
                List, Send, Request
  <1>8. CASE UNCHANGED vars
    BY <1>8 DEF vars
  <1>9. QED
    BY <1>1, <1>2, <1>3, <1>4, <1>5, <1>6, <1>7, <1>8, StepIsSomebodys
       DEF Moves

(* Only a step of a reconciliation creates the namespace, and only the purge
   deletes it. *)
LEMMA NamespaceEffect ==
  ASSUME [Next]_vars, namespace' # namespace
  PROVE \E g \in Handlers : Act(g) \/ PurgeNamespace(g)
  <1> USE DEF row, queue, local, other, At, Untouched, Keep, SetTask
  <1>1. ASSUME NEW h \in Handlers, Reconcile(h) PROVE \E g \in Handlers : Act(g) \/ PurgeNamespace(g)
    BY <1>1 DEF Reconcile, Begin, Load, CreateRow, Claim, Check, Act, Throw,
                Observe, Catch, Finally, Record
  <1>2. ASSUME NEW h \in Handlers, Operate(h) PROVE \E g \in Handlers : Act(g) \/ PurgeNamespace(g)
    BY <1>2 DEF Operate, OpBegin, OpLock, OpClaim, OpUnclaimed, OpAct, OpThrow,
                OpCheck, OpComplete, OpCatch, OpMark, OpFinally
  <1>3. ASSUME NEW h \in Handlers, Purge(h) PROVE \E g \in Handlers : Act(g) \/ PurgeNamespace(g)
    BY <1>3 DEF Purge, PurgeBegin, PurgeMark, PurgeRead, PurgeExternal,
                PurgeTarget, PurgeDeleting, PurgeNamespace, PurgeFinal,
                PurgeThrow, PurgeCatch
  <1>4. ASSUME NEW h \in Handlers, CloseJob(h) PROVE \E g \in Handlers : Act(g) \/ PurgeNamespace(g)
    BY <1>4 DEF CloseJob, Retire
  <1>5. ASSUME NEW h \in Handlers, Crash(h) PROVE \E g \in Handlers : Act(g) \/ PurgeNamespace(g)
    BY <1>5 DEF Crash, Retire
  <1>6. ASSUME NEW h \in Handlers, NEW j \in Jobs, Deliver(h, j) PROVE \E g \in Handlers : Act(g) \/ PurgeNamespace(g)
    BY <1>6 DEF Deliver
  <1>7. CASE Outside
    BY <1>7 DEF Outside, Heartbeat, ExpireJob, LeaseRunsOut, Schedule, SyncTeam, Delete,
                List, Send, Request
  <1>8. CASE UNCHANGED vars
    BY <1>8 DEF vars
  <1>9. QED
    BY <1>1, <1>2, <1>3, <1>4, <1>5, <1>6, <1>7, <1>8, StepIsSomebodys
       DEF Moves

(* The deletion task completes in one place only. *)
LEMMA TaskEffect ==
  ASSUME TypeOK, [Next]_vars, task' = "completed", task # "completed"
  PROVE \E g \in Handlers : PurgeFinal(g)
  <1> USE DEF row, queue, local, other, At, Untouched, Keep, SetTask, AfterFailure
  <1>1. ASSUME NEW h \in Handlers, Reconcile(h) PROVE \E g \in Handlers : PurgeFinal(g)
    BY <1>1 DEF Reconcile, Begin, Load, CreateRow, Claim, Check, Act, Throw,
                Observe, Catch, Finally, Record
  <1>2. ASSUME NEW h \in Handlers, Operate(h) PROVE \E g \in Handlers : PurgeFinal(g)
    BY <1>2 DEF Operate, OpBegin, OpLock, OpClaim, OpUnclaimed, OpAct, OpThrow,
                OpCheck, OpComplete, OpCatch, OpMark, OpFinally
  <1>3. ASSUME NEW h \in Handlers, Purge(h) PROVE \E g \in Handlers : PurgeFinal(g)
    BY <1>3 DEF Purge, PurgeBegin, PurgeMark, PurgeRead, PurgeExternal,
                PurgeTarget, PurgeDeleting, PurgeNamespace, PurgeFinal,
                PurgeThrow, PurgeCatch
  <1>4. ASSUME NEW h \in Handlers, CloseJob(h) PROVE \E g \in Handlers : PurgeFinal(g)
    BY <1>4 DEF CloseJob, Retire
  <1>5. ASSUME NEW h \in Handlers, Crash(h) PROVE \E g \in Handlers : PurgeFinal(g)
    BY <1>5 DEF Crash, Retire
  <1>6. ASSUME NEW h \in Handlers, NEW j \in Jobs, Deliver(h, j) PROVE \E g \in Handlers : PurgeFinal(g)
    BY <1>6 DEF Deliver
  <1>7. CASE Outside
    BY <1>7 DEF Outside, Heartbeat, ExpireJob, LeaseRunsOut, Schedule, SyncTeam, Delete,
                List, Send, Request
  <1>8. CASE UNCHANGED vars
    BY <1>8 DEF vars
  <1>9. QED
    BY <1>1, <1>2, <1>3, <1>4, <1>5, <1>6, <1>7, <1>8, StepIsSomebodys
       DEF Moves

-----------------------------------------------------------------------------
(* Each part of the invariant, step by step. *)
LEMMA JobOfPlaceStep ==
  ASSUME TypeOK, JobOfPlace, [Next]_vars PROVE JobOfPlace'
  <1> SUFFICES ASSUME NEW g \in Handlers
               PROVE /\ pc'[g] \in Operating => job'[g] \in Ops
                     /\ pc'[g] \in Purging => job'[g] = "purge"
    BY DEF JobOfPlace
  <1>0. /\ pc[g] \in Operating => job[g] \in Ops
        /\ pc[g] \in Purging => job[g] = "purge"
    BY DEF JobOfPlace
  <1>1. CASE Stays(g)
    BY <1>0, <1>1 DEF Stays
  <1> USE <1>0, TargetAssumption
          DEF TypeOK, Operating, Purging, Go, Close, Leave, Retire,
              local, At, Untouched
  <1>2. CASE Reconcile(g)
    BY <1>2 DEF Reconcile, Begin, Load, CreateRow, Claim, Check, Act, Throw,
                Observe, Catch, Finally, Record
  <1>3. CASE Operate(g)
    BY <1>3 DEF Operate, OpBegin, OpLock, OpClaim, OpUnclaimed, OpAct, OpThrow,
                OpCheck, OpComplete, OpCatch, OpMark, OpFinally
  <1>4. CASE Purge(g)
    BY <1>4 DEF Purge, PurgeBegin, PurgeMark, PurgeRead, PurgeExternal,
                PurgeTarget, PurgeDeleting, PurgeNamespace, PurgeFinal,
                PurgeThrow, PurgeCatch
  <1>5. CASE CloseJob(g) \/ Crash(g)
    BY <1>5 DEF CloseJob, Crash
  <1>6. ASSUME NEW j \in Jobs, Deliver(g, j)
        PROVE /\ pc'[g] \in Operating => job'[g] \in Ops
              /\ pc'[g] \in Purging => job'[g] = "purge"
    <2>1. pc'[g] = FirstPlace(j) /\ job'[g] = j
      BY <1>6 DEF Deliver
    <2>2. CASE j = "reconcile"
      BY <2>1, <2>2 DEF FirstPlace
    <2>3. CASE j = "purge"
      BY <2>1, <2>3 DEF FirstPlace
    <2>4. CASE j \in Ops
      BY <2>1, <2>4 DEF FirstPlace
    <2>5. QED
      BY <2>2, <2>3, <2>4 DEF Jobs
  <1>7. QED
    BY <1>1, <1>2, <1>3, <1>4, <1>5, <1>6, MovesOrStays DEF Moves

(* A place is entered from its action: the ones the invariant is about. *)
LEMMA Entered ==
  ASSUME TypeOK, NEW g \in Handlers, Moves(g)
  PROVE /\ pc'[g] = "op_claim" => OpLock(g)
        /\ pc'[g] = "op_acting" => OpClaim(g)
        /\ pc'[g] \in {"acting", "observing"} => Check(g)
        /\ pc'[g] = "checking" => Claim(g) \/ Act(g)
        /\ pc'[g] = "claim" => Load(g) \/ CreateRow(g)
        /\ pc'[g] = "purge_external" => PurgeRead(g)
        /\ pc'[g] = "purge_target" => PurgeExternal(g)
        /\ pc'[g] = "purge_deleting" => PurgeTarget(g)
        /\ pc'[g] = "purge_namespace" => PurgeDeleting(g)
        /\ pc'[g] = "purge_final" => PurgeTarget(g) \/ PurgeNamespace(g)
  <1> USE DEF TypeOK, Go, Close, Leave, Retire, local, At, Untouched
  <1>1. CASE Reconcile(g)
    BY <1>1 DEF Reconcile, Begin, Load, CreateRow, Claim, Check, Act, Throw,
                Observe, Catch, Finally, Record
  <1>2. CASE Operate(g)
    BY <1>2 DEF Operate, OpBegin, OpLock, OpClaim, OpUnclaimed, OpAct, OpThrow,
                OpCheck, OpComplete, OpCatch, OpMark, OpFinally
  <1>3. CASE Purge(g)
    BY <1>3 DEF Purge, PurgeBegin, PurgeMark, PurgeRead, PurgeExternal,
                PurgeTarget, PurgeDeleting, PurgeNamespace, PurgeFinal,
                PurgeThrow, PurgeCatch
  <1>4. CASE CloseJob(g) \/ Crash(g)
    BY <1>4 DEF CloseJob, Crash
  <1>5. ASSUME NEW j \in Jobs, Deliver(g, j)
        PROVE pc'[g] \in {"begin", "purge_begin", "op_begin"}
    BY <1>5 DEF Deliver, FirstPlace
  <1>6. QED
    BY <1>1, <1>2, <1>3, <1>4, <1>5 DEF Moves

LEMMA LockHeldStep ==
  ASSUME TypeOK, JobOfPlace, LockHeld, [Next]_vars PROVE LockHeld'
  <1> SUFFICES ASSUME NEW g \in Handlers, pc'[g] = "op_claim"
               PROVE /\ projectLock' = g
                     /\ ~deleted'
                     /\ opStatus'[job'[g]] # "cancelled"
    BY DEF LockHeld
  <1>1. CASE Moves(g)
    <2>1. OpLock(g)
      BY <1>1, Entered
    <2>2. /\ projectLock' = g /\ ~deleted /\ deleted' = deleted
          /\ opStatus' = opStatus /\ job' = job
          /\ Running(job[g])
      BY <2>1 DEF OpLock, Close, Go, local, other, TypeOK, StillWanted
    <2>3. QED
      BY <2>2 DEF Running, OpActive
  <1>2. CASE ~Moves(g)
    <2>1. /\ pc[g] = "op_claim" /\ job'[g] = job[g]
      BY <1>2, MovesOrStays DEF Stays
    <2>2. /\ projectLock = g /\ ~deleted /\ opStatus[job[g]] # "cancelled"
          /\ job[g] \in Ops
      BY <2>1 DEF LockHeld, JobOfPlace, Operating
    <2>3. projectLock' = g
      BY <1>2, <2>2, LockEffect, TargetAssumption
    <2>4. ~deleted'
      BY <2>2, DeletedEffect, TargetAssumption DEF Delete
    <2>5. ASSUME NEW h \in Handlers, pc[h] = "op_claim", Moves(h) PROVE FALSE
      BY <1>2, <2>2, <2>5 DEF LockHeld
    <2>6. opStatus'[job[g]] # "cancelled"
      BY <2>2, <2>5, CancelEffect, TargetAssumption
    <2>7. QED
      BY <2>1, <2>3, <2>4, <2>6
  <1>3. QED
    BY <1>1, <1>2

(* Before its deletion nobody asks for the purge of a Project: neither a    *)
(* task, nor a job, nor a handler of one.                                    *)
LEMMA PurgeAtPlace ==
  ASSUME NEW h \in Handlers, Purge(h) PROVE pc[h] \in Purging
  BY DEF Purging, At, Purge, PurgeBegin, PurgeMark, PurgeRead, PurgeExternal,
                PurgeTarget, PurgeDeleting, PurgeNamespace, PurgeFinal,
                PurgeThrow, PurgeCatch

LEMMA UnwantedStays ==
  ASSUME TypeOK, PurgeWanted, ~deleted, ~Delete, [Next]_vars
  PROVE jobState'["purge"] = "none" /\ task' = "none"
  <1>0. /\ jobState["purge"] = "none" /\ task = "none"
        /\ \A h \in Handlers : pc[h] \notin Purging /\ job[h] # "purge"
    BY DEF PurgeWanted
  <1>1. jobState \in [Jobs -> {"none", "queued", "active"}] /\ "purge" \in Jobs
    BY DEF TypeOK, Jobs
  <1>2. "reconcile" # "purge" /\ \A o \in Ops : o # "purge"
    BY TargetAssumption
  <1> USE <1>0, <1>1, <1>2 DEF row, queue, local, other, At, Untouched, Enqueue
  <1>3. ASSUME NEW h \in Handlers, Reconcile(h)
        PROVE jobState'["purge"] = "none" /\ task' = "none"
    BY <1>3 DEF Reconcile, Begin, Load, CreateRow, Claim, Check, Act, Throw,
                Observe, Catch, Finally, Record
  <1>4. ASSUME NEW h \in Handlers, Operate(h)
        PROVE jobState'["purge"] = "none" /\ task' = "none"
    BY <1>4 DEF Operate, OpBegin, OpLock, OpClaim, OpUnclaimed, OpAct, OpThrow,
                OpCheck, OpComplete, OpCatch, OpMark, OpFinally
  <1>5. ASSUME NEW h \in Handlers, Purge(h) PROVE FALSE
    BY <1>5, PurgeAtPlace
  <1>6. ASSUME NEW h \in Handlers, CloseJob(h)
        PROVE jobState'["purge"] = "none" /\ task' = "none"
    BY <1>6 DEF CloseJob, FailJob, TypeOK
  <1>7. ASSUME NEW h \in Handlers, Crash(h)
        PROVE jobState'["purge"] = "none" /\ task' = "none"
    BY <1>7 DEF Crash
  <1>8. ASSUME NEW h \in Handlers, NEW j \in Jobs, Deliver(h, j)
        PROVE jobState'["purge"] = "none" /\ task' = "none"
    BY <1>8 DEF Deliver
  <1>9. ASSUME Outside PROVE jobState'["purge"] = "none" /\ task' = "none"
    <2>1. CASE \E j \in Jobs : ExpireJob(j)
      BY <2>1 DEF ExpireJob, FailJob
    <2>2. CASE \E o \in Ops : Request(o)
      BY <2>2 DEF Request
    <2>3. QED
      BY <1>9, <2>1, <2>2 DEF Outside, Heartbeat, LeaseRunsOut, Schedule,
         SyncTeam, List, Send
  <1>10. QED
    BY <1>3, <1>4, <1>5, <1>6, <1>7, <1>8, <1>9, StepIsSomebodys
       DEF Moves, vars

LEMMA UnwantedHandlers ==
  ASSUME TypeOK, PurgeWanted, ~deleted, [Next]_vars, NEW g \in Handlers
  PROVE pc'[g] \notin Purging /\ job'[g] # "purge"
  <1>0. /\ jobState["purge"] = "none"
        /\ pc[g] \notin Purging /\ job[g] # "purge"
    BY DEF PurgeWanted
  <1>1. CASE Stays(g)
    BY <1>0, <1>1 DEF Stays
  <1> USE <1>0 DEF TypeOK, Purging, Go, Close, Leave, Retire, local, At, Untouched
  <1>2. CASE Reconcile(g)
    BY <1>2 DEF Reconcile, Begin, Load, CreateRow, Claim, Check, Act, Throw,
                Observe, Catch, Finally, Record
  <1>3. CASE Operate(g)
    BY <1>3 DEF Operate, OpBegin, OpLock, OpClaim, OpUnclaimed, OpAct, OpThrow,
                OpCheck, OpComplete, OpCatch, OpMark, OpFinally
  <1>4. CASE Purge(g)
    BY <1>4, PurgeAtPlace
  <1>5. CASE CloseJob(g) \/ Crash(g)
    BY <1>5 DEF CloseJob, Crash
  <1>6. ASSUME NEW j \in Jobs, Deliver(g, j)
        PROVE pc'[g] \notin Purging /\ job'[g] # "purge"
    BY <1>6 DEF Deliver, FirstPlace
  <1>7. QED
    BY <1>1, <1>2, <1>3, <1>4, <1>5, <1>6, MovesOrStays DEF Moves

LEMMA PurgeWantedStep ==
  ASSUME TypeOK, PurgeWanted, [Next]_vars PROVE PurgeWanted'
  <1>1. CASE deleted \/ Delete
    BY <1>1, DeletedEffect DEF PurgeWanted, Delete
  <1>2. CASE ~deleted /\ ~Delete
    BY <1>2, UnwantedStays, UnwantedHandlers DEF PurgeWanted
  <1>3. QED
    BY <1>1, <1>2

(* The lease of a live handler stays live when nothing makes it lapse. *)
LEMMA LiveLeaseStep ==
  ASSUME LiveLease, [Next]_vars
  PROVE LiveLease'
  <1> USE TargetAssumption DEF row, queue, local, other, At, Untouched, Keep, SetTask, LiveLease, Take, Release, ReleaseMine, Mine
  <1>1. ASSUME NEW h \in Handlers, Reconcile(h) PROVE LiveLease'
    BY <1>1 DEF Reconcile, Begin, Load, CreateRow, Claim, Check, Act, Throw,
                Observe, Catch, Finally, Record
  <1>2. ASSUME NEW h \in Handlers, Operate(h) PROVE LiveLease'
    BY <1>2 DEF Operate, OpBegin, OpLock, OpClaim, OpUnclaimed, OpAct, OpThrow,
                OpCheck, OpComplete, OpCatch, OpMark, OpFinally
  <1>3. ASSUME NEW h \in Handlers, Purge(h) PROVE LiveLease'
    BY <1>3 DEF Purge, PurgeBegin, PurgeMark, PurgeRead, PurgeExternal,
                PurgeTarget, PurgeDeleting, PurgeNamespace, PurgeFinal,
                PurgeThrow, PurgeCatch
  <1>4. ASSUME NEW h \in Handlers, CloseJob(h) PROVE LiveLease'
    BY <1>4 DEF CloseJob, Retire
  <1>5. ASSUME NEW h \in Handlers, Crash(h) PROVE LiveLease'
    BY <1>5 DEF Crash, Retire
  <1>6. ASSUME NEW h \in Handlers, NEW j \in Jobs, Deliver(h, j) PROVE LiveLease'
    BY <1>6 DEF Deliver
  <1>7. CASE Outside
    BY <1>7 DEF Outside, Heartbeat, ExpireJob, LeaseRunsOut, Schedule, SyncTeam, Delete,
                List, Send, Request
  <1>8. CASE UNCHANGED vars
    BY <1>8 DEF vars
  <1>9. QED
    BY <1>1, <1>2, <1>3, <1>4, <1>5, <1>6, <1>7, <1>8, StepIsSomebodys
       DEF Moves

LEMMA WorkersHoldStep ==
  ASSUME TypeOK, LiveLease, WorkersHold, [Next]_vars PROVE WorkersHold'
  <1> SUFFICES ASSUME ~LeasesLapse,
                      NEW g \in Handlers, pc'[g] \in {"acting", "op_acting"}
               PROVE owner' = g
    BY DEF WorkersHold, Working
  <1>1. CASE Moves(g)
    <2>1. Check(g) \/ OpClaim(g)
      BY <1>1, Entered
    <2>2. CASE Check(g)
      BY <2>2 DEF Check, Go, StillCurrent, Mine, Untouched, row, TypeOK
    <2>3. CASE OpClaim(g)
      BY <2>3 DEF OpClaim, Go, Take, TypeOK
    <2>4. QED
      BY <2>1, <2>2, <2>3
  <1>2. CASE ~Moves(g)
    <2>1. pc[g] \in {"acting", "op_acting"}
      BY <1>2, MovesOrStays DEF Stays
    <2>2. owner = g /\ lease = "live"
      BY <2>1 DEF WorkersHold, Working, LiveLease
    <2>3. QED
      BY <1>2, <2>2, OwnerEffect, TargetAssumption DEF LeaseFree
  <1>3. QED
    BY <1>1, <1>2

(* Nobody works on a runtime whose purge has looked at the lease: a handler *)
(* that began before had the lease, and none begins after.                  *)
LEMMA NoNewWorker ==
  ASSUME TypeOK, LockHeld, [Next]_vars, deleted,
         NEW g \in Handlers, pc'[g] \in {"acting", "op_acting"}
  PROVE ~Moves(g) /\ pc[g] = pc'[g]
  <1>1. ASSUME Moves(g) PROVE FALSE
    <2>1. Check(g) \/ OpClaim(g)
      BY <1>1, Entered
    <2>2. CASE Check(g)
      BY <2>2 DEF Check, Go, StillCurrent, TypeOK
    <2>3. CASE OpClaim(g)
      BY <2>3 DEF OpClaim, At, LockHeld
    <2>4. QED
      BY <2>1, <2>2, <2>3
  <1>2. QED
    BY <1>1, MovesOrStays DEF Stays

LEMMA PurgeWaits ==
  ASSUME TypeOK, LiveLease, WorkersHold, ~LeasesLapse, NEW g \in Working
  PROVE ~LeaseFree
  BY TargetAssumption DEF LiveLease, WorkersHold, Working, LeaseFree

PurgePast(h) == pc[h] \in {"purge_external", "purge_target", "purge_deleting",
                           "purge_namespace", "purge_final"}

LEMMA PurgeAloneStep ==
  ASSUME TypeOK, LockHeld, PurgeWanted, LiveLease, WorkersHold, PurgeAlone,
         [Next]_vars
  PROVE PurgeAlone'
  <1> SUFFICES ASSUME ~LeasesLapse, NEW g \in Handlers,
                      pc'[g] \in {"acting", "op_acting"}
               PROVE /\ \A h \in Handlers : ~PurgePast(h)'
                     /\ task' # "completed"
    BY DEF PurgeAlone, Purged, Destroying, Working, PurgePast
  <1>1. CASE ~deleted
    <2>1. CASE Moves(g)
      <3>1. Check(g) \/ OpClaim(g)
        BY <2>1, Entered
      <3>2. deleted' = deleted
        BY <3>1 DEF Check, OpClaim, Untouched, other
      <3>3. ~deleted'
        BY <1>1, <3>2
      <3>4. PurgeWanted'
        BY PurgeWantedStep
      <3>5. QED
        BY <3>3, <3>4 DEF PurgeWanted, PurgePast, Purging
    <2>2. CASE ~Moves(g)
      <3>1. g \in Working
        BY <2>2, MovesOrStays DEF Working, Stays
      <3>2. task' # "completed"
        <4>1. ASSUME NEW h \in Handlers, PurgeFinal(h) PROVE FALSE
          BY <1>1, <4>1 DEF PurgeFinal, At, PurgeWanted, Purging
        <4>2. task # "completed"
          BY <1>1 DEF PurgeWanted
        <4>3. QED
          BY <4>1, <4>2, TaskEffect
      <3>3. ASSUME NEW h \in Handlers PROVE ~PurgePast(h)'
        BY <1>1, UnwantedHandlers DEF PurgePast, Purging
      <3>4. QED
        BY <3>2, <3>3
    <2>3. QED
      BY <2>1, <2>2
  <1>2. CASE deleted
    <2>1. g \in Working
      BY <1>2, NoNewWorker DEF Working
    <2>2. ~LeaseFree
      BY <2>1, PurgeWaits
    <2>3. /\ \A h \in Handlers : ~PurgePast(h)
          /\ task # "completed"
      BY <2>1 DEF PurgeAlone, Purged, Destroying, PurgePast
    <2>4. ASSUME NEW h \in Handlers, PurgePast(h)' PROVE FALSE
      <3>1. Moves(h)
        BY <2>3, <2>4, MovesOrStays DEF PurgePast, Stays
      <3>2. \/ PurgeRead(h) \/ PurgeExternal(h) \/ PurgeTarget(h)
            \/ PurgeDeleting(h) \/ PurgeNamespace(h)
        BY <2>4, <3>1, Entered DEF PurgePast
      <3>3. PurgeRead(h)
        BY <2>3, <3>2 DEF PurgePast, PurgeExternal, PurgeTarget, PurgeDeleting,
                          PurgeNamespace, At
      <3>4. QED
        BY <2>2, <2>4, <3>3 DEF PurgeRead, MayPurge, Go, PurgePast, TypeOK
    <2>5. task' # "completed"
      BY <2>3, TaskEffect DEF PurgeFinal, At, PurgePast
    <2>6. QED
      BY <2>4, <2>5
  <1>3. QED
    BY <1>1, <1>2

(* A purge ends only after the namespace is deleted, or without a row, and  *)
(* then nothing creates it again.                                            *)
LEMMA ErasedStep ==
  ASSUME TypeOK, LockHeld, PurgeWanted, LiveLease, WorkersHold, PurgeAlone,
         Erased, AbsentEmpty, [Next]_vars
  PROVE Erased'
  <1> SUFFICES ASSUME ~LeasesLapse, Purged', namespace' PROVE FALSE
    BY DEF Erased
  <1>1. ASSUME NEW h \in Handlers, Act(h), namespace' # namespace PROVE FALSE
    <2>1. h \in Working /\ pc'[h] = "checking" /\ task' = task
      BY <1>1 DEF Act, At, Working, TypeOK
    <2>2. ~Purged
      BY <2>1 DEF PurgeAlone
    <2>3. PICK g \in Handlers : pc'[g] = "purge_final"
      BY <2>1, <2>2 DEF Purged
    <2>4. g # h
      BY <2>1, <2>3
    <2>5. pc'[g] = pc[g]
      BY <1>1, <2>4 DEF Act, TypeOK
    <2>6. QED
      BY <2>2, <2>3, <2>5 DEF Purged
  <1>2. namespace
    <2>1. ASSUME NEW h \in Handlers, PurgeNamespace(h) PROVE FALSE
      BY <2>1 DEF PurgeNamespace
    <2>2. QED
      BY <1>1, <2>1, NamespaceEffect
  <1>3. ~Purged
    BY <1>2 DEF Erased
  <1>4. task' # "completed"
    BY <1>3, TaskEffect DEF PurgeFinal, At, Purged
  <1>5. PICK g \in Handlers : pc'[g] = "purge_final"
    BY <1>4 DEF Purged
  <1>6. Moves(g)
    BY <1>3, <1>5, MovesOrStays DEF Purged, Stays
  <1>7. PurgeTarget(g)
    BY <1>5, <1>6, Entered DEF PurgeNamespace
  <1>8. status = "absent"
    BY <1>5, <1>7 DEF PurgeTarget, Go, TypeOK
  <1>9. QED
    BY <1>2, <1>8 DEF AbsentEmpty

LEMMA RowSeenStep ==
  ASSUME TypeOK, RowSeen, [Next]_vars PROVE RowSeen'
  <1> SUFFICES ASSUME NEW g \in Handlers,
                      pc'[g] \in {"claim", "checking", "acting"}
               PROVE status' # "absent"
    BY DEF RowSeen
  <1>1. CASE pc[g] \in {"claim", "checking", "acting"}
    BY <1>1, RowStays DEF RowSeen
  <1>2. CASE pc[g] \notin {"claim", "checking", "acting"}
    <2>1. Moves(g)
      BY <1>2, MovesOrStays DEF Stays
    <2>2. Load(g) \/ CreateRow(g)
      BY <1>2, <2>1, Entered DEF Check, Claim, Act, At
    <2>3. CASE Load(g)
      <3>1. pc'[g] = CASE deleted            -> "recording"
                       [] status = "absent"  -> "create"
                       [] OTHER              -> "claim"
        BY <2>3 DEF Load, TypeOK
      <3>2. status # "absent"
        BY <3>1
      <3>3. QED
        BY <3>2, RowStays
    <2>4. CASE CreateRow(g)
      BY <2>4 DEF CreateRow, Go, TypeOK
    <2>5. QED
      BY <2>2, <2>3, <2>4
  <1>3. QED
    BY <1>1, <1>2

LEMMA AbsentEmptyStep ==
  ASSUME TypeOK, RowSeen, AbsentEmpty, [Next]_vars PROVE AbsentEmpty'
  <1> SUFFICES ASSUME status' = "absent", namespace' PROVE FALSE
    BY DEF AbsentEmpty
  <1>1. status = "absent"
    BY RowStays
  <1>2. ~namespace
    BY <1>1 DEF AbsentEmpty
  <1>3. PICK g \in Handlers : Act(g) \/ PurgeNamespace(g)
    BY <1>2, NamespaceEffect
  <1>4. QED
    BY <1>1, <1>3 DEF Act, At, RowSeen, PurgeNamespace

LEMMA OnlyActSteps ==
  ASSUME TypeOK, NEW g \in Handlers, Moves(g), step'[g] # step[g]
  PROVE Act(g) \/ step'[g] = 0
  <1> USE DEF TypeOK, Go, Close, Leave, Retire, local, At, Untouched
  <1>1. CASE Reconcile(g)
    BY <1>1 DEF Reconcile, Begin, Load, CreateRow, Claim, Check, Act, Throw,
                Observe, Catch, Finally, Record
  <1>2. CASE Operate(g)
    BY <1>2 DEF Operate, OpBegin, OpLock, OpClaim, OpUnclaimed, OpAct, OpThrow,
                OpCheck, OpComplete, OpCatch, OpMark, OpFinally
  <1>3. CASE Purge(g)
    BY <1>3 DEF Purge, PurgeBegin, PurgeMark, PurgeRead, PurgeExternal,
                PurgeTarget, PurgeDeleting, PurgeNamespace, PurgeFinal,
                PurgeThrow, PurgeCatch
  <1>4. CASE CloseJob(g) \/ Crash(g)
    BY <1>4 DEF CloseJob, Crash
  <1>5. ASSUME NEW j \in Jobs, Deliver(g, j) PROVE FALSE
    BY <1>5 DEF Deliver
  <1>6. QED
    BY <1>1, <1>2, <1>3, <1>4, <1>5 DEF Moves

LEMMA NamespaceMadeStep ==
  ASSUME TypeOK, PurgeWanted, NamespaceMade, [Next]_vars
  PROVE NamespaceMade'
  <1> SUFFICES ASSUME NEW g \in Handlers, step'[g] >= NamespaceStep, ~deleted'
               PROVE namespace'
    BY DEF NamespaceMade
  <1>1. ~deleted
    BY DeletedEffect DEF Delete
  <1>2. ASSUME namespace PROVE namespace'
    <2>1. ASSUME NEW h \in Handlers, PurgeNamespace(h) PROVE FALSE
      BY <1>1, <2>1 DEF PurgeNamespace, At, PurgeWanted, Purging
    <2>2. ASSUME NEW h \in Handlers, Act(h) PROVE namespace'
      BY <1>2, <2>2 DEF Act
    <2>3. QED
      BY <1>2, <2>1, <2>2, NamespaceEffect
  <1>3. CASE step'[g] = step[g]
    BY <1>1, <1>2, <1>3 DEF NamespaceMade
  <1>4. CASE step'[g] # step[g]
    <2>1. Moves(g)
      BY <1>4, MovesOrStays DEF Stays
    <2>2. Act(g)
      BY <1>4, <2>1, OnlyActSteps DEF NamespaceStep
    <2>3. step'[g] = step[g] + 1 /\ step[g] \in Nat
      BY <2>2 DEF Act, TypeOK
    <2>4. CASE step[g] >= NamespaceStep
      BY <1>1, <1>2, <2>4 DEF NamespaceMade
    <2>5. CASE step[g] + 1 = NamespaceStep
      BY <2>2, <2>5 DEF Act
    <2>6. QED
      BY <2>3, <2>4, <2>5 DEF NamespaceStep
  <1>5. QED
    BY <1>3, <1>4

(* Whatever others do, a row that is mine was mine before, and its Project is
   not deleted meanwhile. *)
LEMMA MineIsOwn ==
  ASSUME TypeOK, [Next]_vars, NEW g \in Handlers, ~Moves(g),
         Mine(g)'
  PROVE Mine(g) /\ deleted' = deleted
  <1>0. gen'[g] = gen[g]
    BY MovesOrStays DEF Stays
  <1> USE <1>0, TargetAssumption DEF row, queue, local, other, At, Untouched, Keep, SetTask, TypeOK, Mine, Take, Release, ReleaseMine,
             Moves, Recordable, AfterFailure
  <1>1. ASSUME NEW h \in Handlers, Reconcile(h) PROVE Mine(g) /\ deleted' = deleted
    BY <1>1 DEF Reconcile, Begin, Load, CreateRow, Claim, Check, Act, Throw,
                Observe, Catch, Finally, Record
  <1>2. ASSUME NEW h \in Handlers, Operate(h) PROVE Mine(g) /\ deleted' = deleted
    BY <1>2 DEF Operate, OpBegin, OpLock, OpClaim, OpUnclaimed, OpAct, OpThrow,
                OpCheck, OpComplete, OpCatch, OpMark, OpFinally
  <1>3. ASSUME NEW h \in Handlers, Purge(h) PROVE Mine(g) /\ deleted' = deleted
    BY <1>3 DEF Purge, PurgeBegin, PurgeMark, PurgeRead, PurgeExternal,
                PurgeTarget, PurgeDeleting, PurgeNamespace, PurgeFinal,
                PurgeThrow, PurgeCatch
  <1>4. ASSUME NEW h \in Handlers, CloseJob(h) PROVE Mine(g) /\ deleted' = deleted
    BY <1>4 DEF CloseJob, Retire
  <1>5. ASSUME NEW h \in Handlers, Crash(h) PROVE Mine(g) /\ deleted' = deleted
    BY <1>5 DEF Crash, Retire
  <1>6. ASSUME NEW h \in Handlers, NEW j \in Jobs, Deliver(h, j) PROVE Mine(g) /\ deleted' = deleted
    BY <1>6 DEF Deliver
  <1>7. CASE Outside
    BY <1>7 DEF Outside, Heartbeat, ExpireJob, LeaseRunsOut, Schedule, SyncTeam, Delete,
                List, Send, Request
  <1>8. CASE UNCHANGED vars
    BY <1>8 DEF vars
  <1>9. QED
    BY <1>1, <1>2, <1>3, <1>4, <1>5, <1>6, <1>7, <1>8, StepIsSomebodys
       DEF Moves

LEMMA ObservingStep ==
  ASSUME TypeOK, Observing, [Next]_vars PROVE Observing'
  <1> SUFFICES ASSUME NEW g \in Handlers, pc'[g] = "observing"
               PROVE step'[g] = Steps /\ (Mine(g)' => ~deleted')
    BY DEF Observing
  <1>1. CASE Moves(g)
    <2>1. Check(g)
      BY <1>1, Entered
    <2>2. step[g] = Steps /\ ~deleted /\ step' = step /\ deleted' = deleted
      BY <2>1 DEF Check, Go, StillCurrent, Untouched, other, local, TypeOK
    <2>3. QED
      BY <2>2
  <1>2. CASE ~Moves(g)
    <2>1. pc[g] = "observing" /\ step'[g] = step[g]
      BY <1>2, MovesOrStays DEF Stays
    <2>2. step[g] = Steps /\ (Mine(g) => ~deleted)
      BY <2>1 DEF Observing
    <2>3. ASSUME Mine(g)' PROVE ~deleted'
      BY <1>2, <2>2, <2>3, MineIsOwn
    <2>4. QED
      BY <2>1, <2>2, <2>3
  <1>3. QED
    BY <1>1, <1>2

(* A target becomes ready in one place, and what its readiness is about does
   not change while it is. *)
LEMMA ReadyEffect ==
  ASSUME TypeOK, [Next]_vars, status' = "ready"
  PROVE \/ \E g \in Handlers : Observe(g) /\ Mine(g)
        \/ /\ status = "ready"
           /\ UNCHANGED <<observed, generation, deleted>>
  <1> USE DEF row, queue, local, other, At, Untouched, Keep, SetTask, Recordable, AfterFailure, Release,
             Mine
  <1>1. ASSUME NEW h \in Handlers, Reconcile(h) PROVE \/ \E g \in Handlers : Observe(g) /\ Mine(g)
        \/ /\ status = "ready"
           /\ UNCHANGED <<observed, generation, deleted>>
    BY <1>1 DEF Reconcile, Begin, Load, CreateRow, Claim, Check, Act, Throw,
                Observe, Catch, Finally, Record
  <1>2. ASSUME NEW h \in Handlers, Operate(h) PROVE \/ \E g \in Handlers : Observe(g) /\ Mine(g)
        \/ /\ status = "ready"
           /\ UNCHANGED <<observed, generation, deleted>>
    BY <1>2 DEF Operate, OpBegin, OpLock, OpClaim, OpUnclaimed, OpAct, OpThrow,
                OpCheck, OpComplete, OpCatch, OpMark, OpFinally
  <1>3. ASSUME NEW h \in Handlers, Purge(h) PROVE \/ \E g \in Handlers : Observe(g) /\ Mine(g)
        \/ /\ status = "ready"
           /\ UNCHANGED <<observed, generation, deleted>>
    BY <1>3 DEF Purge, PurgeBegin, PurgeMark, PurgeRead, PurgeExternal,
                PurgeTarget, PurgeDeleting, PurgeNamespace, PurgeFinal,
                PurgeThrow, PurgeCatch
  <1>4. ASSUME NEW h \in Handlers, CloseJob(h) PROVE \/ \E g \in Handlers : Observe(g) /\ Mine(g)
        \/ /\ status = "ready"
           /\ UNCHANGED <<observed, generation, deleted>>
    BY <1>4 DEF CloseJob, Retire
  <1>5. ASSUME NEW h \in Handlers, Crash(h) PROVE \/ \E g \in Handlers : Observe(g) /\ Mine(g)
        \/ /\ status = "ready"
           /\ UNCHANGED <<observed, generation, deleted>>
    BY <1>5 DEF Crash, Retire
  <1>6. ASSUME NEW h \in Handlers, NEW j \in Jobs, Deliver(h, j) PROVE \/ \E g \in Handlers : Observe(g) /\ Mine(g)
        \/ /\ status = "ready"
           /\ UNCHANGED <<observed, generation, deleted>>
    BY <1>6 DEF Deliver
  <1>7. CASE Outside
    BY <1>7 DEF Outside, Heartbeat, ExpireJob, LeaseRunsOut, Schedule, SyncTeam, Delete,
                List, Send, Request
  <1>8. CASE UNCHANGED vars
    BY <1>8 DEF vars
  <1>9. QED
    BY <1>1, <1>2, <1>3, <1>4, <1>5, <1>6, <1>7, <1>8, StepIsSomebodys
       DEF Moves

LEMMA ReadyStep ==
  ASSUME TypeOK, PurgeWanted, NamespaceMade, Observing, ReadyIsCurrent,
         [Next]_vars
  PROVE ReadyIsCurrent'
  <1> SUFFICES ASSUME status' = "ready"
               PROVE observed' = generation' /\ namespace' /\ ~deleted'
    BY DEF ReadyIsCurrent
  <1>1. ASSUME NEW g \in Handlers, Observe(g), Mine(g)
        PROVE observed' = generation' /\ namespace' /\ ~deleted'
    <2>1. /\ pc[g] = "observing" /\ gen[g] = generation
          /\ observed' = gen[g]
          /\ UNCHANGED <<generation, namespace, deleted>>
      BY <1>1 DEF Observe, At, Mine, other
    <2>2. step[g] >= NamespaceStep /\ ~deleted
      BY <1>1, <2>1, TargetAssumption DEF Observing
    <2>3. QED
      BY <2>1, <2>2 DEF NamespaceMade
  <1>2. ASSUME status = "ready", UNCHANGED <<observed, generation, deleted>>
        PROVE observed' = generation' /\ namespace' /\ ~deleted'
    <2>1. observed = generation /\ namespace /\ ~deleted
      BY <1>2 DEF ReadyIsCurrent
    <2>2. ASSUME NEW g \in Handlers, PurgeNamespace(g) PROVE FALSE
      BY <2>1, <2>2 DEF PurgeNamespace, At, PurgeWanted, Purging
    <2>3. ASSUME NEW g \in Handlers, Act(g) PROVE namespace'
      BY <2>1, <2>3 DEF Act
    <2>4. namespace'
      BY <2>1, <2>2, <2>3, NamespaceEffect
    <2>5. QED
      BY <1>2, <2>1, <2>4
  <1>3. QED
    BY <1>1, <1>2, ReadyEffect

-----------------------------------------------------------------------------
(* The invariant. *)
LEMMA InitInv == Init => IInv
  <1> SUFFICES ASSUME Init PROVE IInv
    OBVIOUS
  <1>1. TypeOK
    BY InitType
  <1>2. \A h \in Handlers : pc[h] = "idle" /\ step[h] = 0 /\ job[h] = "reconcile"
    BY DEF Init
  <1>3. JobOfPlace /\ LockHeld
    BY <1>2 DEF JobOfPlace, LockHeld, Operating, Purging
  <1>4. PurgeWanted
    BY <1>2 DEF PurgeWanted, Init, Purging, Jobs
  <1>5. LiveLease
    BY TargetAssumption DEF LiveLease, Init
  <1>6. WorkersHold /\ PurgeAlone /\ Erased
    BY <1>2 DEF WorkersHold, PurgeAlone, Erased, Working, Destroying, Purged,
                Init
  <1>7. RowSeen /\ AbsentEmpty /\ NamespaceMade
    BY <1>2 DEF RowSeen, AbsentEmpty, NamespaceMade, NamespaceStep, Init
  <1>8. Observing /\ ReadyIsCurrent
    BY <1>2 DEF Observing, ReadyIsCurrent, Init
  <1>9. QED
    BY <1>1, <1>3, <1>4, <1>5, <1>6, <1>7, <1>8 DEF IInv

LEMMA NextInv == IInv /\ [Next]_vars => IInv'
  <1> SUFFICES ASSUME IInv, [Next]_vars PROVE IInv'
    OBVIOUS
  <1> USE DEF IInv
  <1>1. TypeOK'
    BY NextType
  <1>2. JobOfPlace' /\ LockHeld' /\ PurgeWanted'
    BY JobOfPlaceStep, LockHeldStep, PurgeWantedStep
  <1>3. LiveLease' /\ WorkersHold' /\ PurgeAlone' /\ Erased'
    BY LiveLeaseStep, WorkersHoldStep, PurgeAloneStep, ErasedStep
  <1>4. RowSeen' /\ AbsentEmpty' /\ NamespaceMade'
    BY RowSeenStep, AbsentEmptyStep, NamespaceMadeStep
  <1>5. Observing' /\ ReadyIsCurrent'
    BY ObservingStep, ReadyStep
  <1>6. QED
    BY <1>1, <1>2, <1>3, <1>4, <1>5

LEMMA Invariant == Spec => []IInv
  <1>1. QED
    BY InitInv, NextInv, PTL DEF Spec

(* While live handlers keep their leases, one handler at most changes the   *)
(* runtime, and none while a purge destroys it.                             *)
THEOREM AtMostOneWorker == Spec => []OneWorker
  <1>1. IInv => OneWorker
    BY DEF IInv, WorkersHold, PurgeAlone, OneWorker
  <1>2. QED
    BY <1>1, Invariant, PTL

(* A purged Project never gets its namespace back. *)
THEOREM PurgedIsEmpty == Spec => []PurgedStaysGone
  <1>1. IInv => PurgedStaysGone
    BY DEF IInv, Erased, Purged, PurgedStaysGone
  <1>2. QED
    BY <1>1, Invariant, PTL

(* A ready runtime is ready for the generation asked for last, even when    *)
(* leases lapse under live handlers.                                        *)
THEOREM ReadyMeansCurrent == Spec => []ReadyIsCurrent
  <1>1. IInv => ReadyIsCurrent
    BY DEF IInv
  <1>2. QED
    BY <1>1, Invariant, PTL

(* No statement gives a cancelled operation another status. *)
LEMMA CancelledStep ==
  ASSUME IInv, [Next]_vars, NEW o \in Ops, opStatus[o] = "cancelled"
  PROVE opStatus'[o] = "cancelled"
  <1>0. /\ opStatus \in [Ops -> {"none"} \cup OpActive \cup OpEnded]
        /\ \A h \in Handlers : pc[h] = "op_claim" => job[h] # o
    BY DEF IInv, TypeOK, LockHeld
  <1> USE <1>0 DEF row, queue, local, other, At, Untouched, Keep, SetTask,
             CancelSome, OpEnds, StillWanted, Running, OpActive
  <1>1. ASSUME NEW h \in Handlers, Reconcile(h) PROVE opStatus'[o] = "cancelled"
    BY <1>1 DEF Reconcile, Begin, Load, CreateRow, Claim, Check, Act, Throw,
                Observe, Catch, Finally, Record
  <1>2. ASSUME NEW h \in Handlers, Operate(h) PROVE opStatus'[o] = "cancelled"
    BY <1>2 DEF Operate, OpBegin, OpLock, OpClaim, OpUnclaimed, OpAct, OpThrow,
                OpCheck, OpComplete, OpCatch, OpMark, OpFinally
  <1>3. ASSUME NEW h \in Handlers, Purge(h) PROVE opStatus'[o] = "cancelled"
    BY <1>3 DEF Purge, PurgeBegin, PurgeMark, PurgeRead, PurgeExternal,
                PurgeTarget, PurgeDeleting, PurgeNamespace, PurgeFinal,
                PurgeThrow, PurgeCatch
  <1>4. ASSUME NEW h \in Handlers, CloseJob(h) PROVE opStatus'[o] = "cancelled"
    BY <1>4 DEF CloseJob, Retire
  <1>5. ASSUME NEW h \in Handlers, Crash(h) PROVE opStatus'[o] = "cancelled"
    BY <1>5 DEF Crash, Retire
  <1>6. ASSUME NEW h \in Handlers, NEW j \in Jobs, Deliver(h, j) PROVE opStatus'[o] = "cancelled"
    BY <1>6 DEF Deliver
  <1>7. CASE Outside
    BY <1>7 DEF Outside, Heartbeat, ExpireJob, LeaseRunsOut, Schedule, SyncTeam, Delete,
                List, Send, Request
  <1>8. CASE UNCHANGED vars
    BY <1>8 DEF vars
  <1>9. QED
    BY <1>1, <1>2, <1>3, <1>4, <1>5, <1>6, <1>7, <1>8, StepIsSomebodys
       DEF Moves

(* A cancelled operation stays cancelled: what its handler read before it   *)
(* took the lease is true until then, because of the Project row lock.      *)
THEOREM CancelledIsFinal == Spec => CancelledStaysCancelled
  <1>1. IInv /\ [Next]_vars
          => \A o \in Ops : opStatus[o] = "cancelled"
                => opStatus'[o] = "cancelled"
    BY CancelledStep
  <1>2. QED
    BY <1>1, Invariant, PTL DEF Spec, CancelledStaysCancelled

-----------------------------------------------------------------------------
(* While pg-boss does not hand out the job of a handler that is alive, no    *)
(* two handlers work on one job: a job of a live handler is active, and only *)
(* a queued job is delivered.                                                *)
OneHandler ==
    ~JobsExpire =>
       /\ \A h \in Handlers : Alive(h) => jobState[job[h]] = "active"
       /\ \A g, h \in Handlers : Alive(g) /\ Alive(h) /\ job[g] = job[h]
                                   => g = h

(* Therefore what OpLock read of its operation is true when the lease is     *)
(* taken, a completed or failed operation included.                          *)
ClaimWanted ==
    ~JobsExpire =>
       \A h \in Handlers : pc[h] = "op_claim" => Running(job[h])

(* A handler that is under way keeps its job until it closes it or dies, and *)
(* its steps before that leave the queue alone.                              *)
LEMMA HandlerSteps ==
  ASSUME TypeOK, NEW h \in Handlers, Reconcile(h) \/ Operate(h) \/ Purge(h)
  PROVE  /\ pc[h] # "idle"
         /\ job' = job
         /\ UNCHANGED queue
         /\ pc'[h] # "idle"
  <1> USE DEF TypeOK, Go, Close, Leave, local, At, Untouched, SetTask
  <1>1. CASE Reconcile(h)
    BY <1>1 DEF Reconcile, Begin, Load, CreateRow, Claim, Check, Act, Throw,
                Observe, Catch, Finally, Record
  <1>2. CASE Operate(h)
    BY <1>2 DEF Operate, OpBegin, OpLock, OpClaim, OpUnclaimed, OpAct, OpThrow,
                OpCheck, OpComplete, OpCatch, OpMark, OpFinally
  <1>3. CASE Purge(h)
    BY <1>3 DEF Purge, PurgeBegin, PurgeMark, PurgeRead, PurgeExternal,
                PurgeTarget, PurgeDeleting, PurgeNamespace, PurgeFinal,
                PurgeThrow, PurgeCatch, Purging
  <1>4. QED
    BY <1>1, <1>2, <1>3

(* No step brings a second handler to a job. *)
LEMMA OneHandlerStep ==
  ASSUME TypeOK, OneHandler, [Next]_vars, ~JobsExpire PROVE OneHandler'
  <1> USE DEF TypeOK
  <1>o. /\ \A h \in Handlers : Alive(h) => jobState[job[h]] = "active"
        /\ \A g, h \in Handlers : Alive(g) /\ Alive(h) /\ job[g] = job[h]
                                    => g = h
    BY DEF OneHandler
  <1>1. ASSUME NEW h \in Handlers, Reconcile(h) \/ Operate(h) \/ Purge(h)
        PROVE  OneHandler'
    <2>1. /\ job' = job /\ jobState' = jobState
          /\ pc[h] # "idle"
      BY <1>1, HandlerSteps DEF queue
    <2>2. \A g \in Handlers \ {h} : pc'[g] = pc[g]
      BY <1>1, OthersStay DEF Moves, Stays
    <2>3. QED
      BY <1>o, <2>1, <2>2 DEF OneHandler, Alive
  <1>2. ASSUME NEW h \in Handlers, CloseJob(h) PROVE OneHandler'
    <2>1. /\ pc[h] # "idle"
          /\ pc' = [pc EXCEPT ![h] = "idle"]
          /\ job' = [job EXCEPT ![h] = "reconcile"]
      BY <1>2 DEF CloseJob, Retire
    <2>2. \A j \in Jobs \ {job[h]} : jobState'[j] = jobState[j]
      BY <1>2 DEF CloseJob, FailJob, queue
    <2>3. QED
      BY <1>o, <2>1, <2>2 DEF OneHandler, Alive
  <1>3. ASSUME NEW h \in Handlers, Crash(h) PROVE OneHandler'
    <2>1. /\ jobState' = jobState
          /\ pc' = [pc EXCEPT ![h] = "idle"]
          /\ job' = [job EXCEPT ![h] = "reconcile"]
      BY <1>3 DEF Crash, Retire, queue
    <2>2. QED
      BY <1>o, <2>1 DEF OneHandler, Alive
  <1>4. ASSUME NEW h \in Handlers, NEW j \in Jobs, Deliver(h, j)
        PROVE  OneHandler'
    <2>1. /\ jobState[j] = "queued" /\ pc[h] = "idle"
          /\ jobState' = [jobState EXCEPT ![j] = "active"]
          /\ job' = [job EXCEPT ![h] = j]
          /\ \A g \in Handlers \ {h} : pc'[g] = pc[g]
      BY <1>4 DEF Deliver
    <2>2. \A g \in Handlers : Alive(g) => job[g] # j
      BY <1>o, <2>1
    <2>3. QED
      BY <1>o, <2>1, <2>2 DEF OneHandler, Alive
  <1>5. ASSUME NEW j \in Jobs, ExpireJob(j) PROVE OneHandler'
    <2>1. \A h \in Handlers : Alive(h) => job[h] # j
      BY <1>5 DEF ExpireJob
    <2>2. /\ \A i \in Jobs \ {j} : jobState'[i] = jobState[i]
          /\ UNCHANGED <<pc, job>>
      BY <1>5 DEF ExpireJob, FailJob, local
    <2>3. QED
      BY <1>o, <2>1, <2>2 DEF OneHandler, Alive
  <1>6. ASSUME UNCHANGED <<pc, job>>,
               \A j \in Jobs : jobState[j] = "active" => jobState'[j] = "active"
        PROVE  OneHandler'
    BY <1>o, <1>6 DEF OneHandler, Alive
  <1>7. ASSUME NEW j \in Jobs, Enqueue(j)
        PROVE  \A i \in Jobs : jobState[i] = "active" => jobState'[i] = "active"
    BY <1>7 DEF Enqueue
  <1>8. CASE Outside
    <2>1. UNCHANGED <<pc, job>>
      BY <1>8, OutsideStays DEF local
    <2>2. CASE \E j \in Jobs : ExpireJob(j)
      BY <1>5, <2>2
    <2>3. CASE \/ \E h \in Handlers : Heartbeat(h)
               \/ LeaseRunsOut \/ List
      BY <1>6, <2>1, <2>3 DEF Heartbeat, LeaseRunsOut, List, queue
    <2>4. CASE \/ \E reinitialize \in BOOLEAN : Schedule(reinitialize)
               \/ SyncTeam \/ Delete \/ Send
               \/ \E o \in Ops : Request(o)
      BY <1>6, <1>7, <2>1, <2>4 DEF Schedule, SyncTeam, Delete, Send, Request,
                                    Jobs
    <2>5. QED
      BY <1>8, <2>2, <2>3, <2>4 DEF Outside
  <1>9. CASE UNCHANGED vars
    BY <1>6, <1>9 DEF vars, local, queue
  <1>10. QED
    BY <1>1, <1>2, <1>3, <1>4, <1>8, <1>9, StepIsSomebodys DEF Moves

(* The status of an operation is changed by its own handler, or when it is   *)
(* requested, or it is cancelled under the Project row lock.                 *)
LEMMA OpStatusEffect ==
  ASSUME TypeOK, [Next]_vars, NEW o \in Ops, opStatus'[o] # opStatus[o]
  PROVE  \/ projectLock = Nobody
         \/ \E g \in Handlers : Moves(g) /\ (pc[g] = "op_claim" \/ job[g] = o)
  <1> DEFINE Known == \/ projectLock = Nobody
                      \/ \E g \in Handlers :
                           Moves(g) /\ (pc[g] = "op_claim" \/ job[g] = o)
  <1> USE DEF row, queue, local, other, At, Untouched, Keep, SetTask, TypeOK,
              Moves
  <1>1. ASSUME NEW h \in Handlers, Reconcile(h) PROVE Known
    BY <1>1 DEF Reconcile, Begin, Load, CreateRow, Claim, Check, Act, Throw,
                Observe, Catch, Finally, Record
  <1>2. ASSUME NEW h \in Handlers, Operate(h) PROVE Known
    BY <1>2 DEF Operate, OpBegin, OpLock, OpClaim, OpUnclaimed, OpAct, OpThrow,
                OpCheck, OpComplete, OpCatch, OpMark, OpFinally
  <1>3. ASSUME NEW h \in Handlers, Purge(h) PROVE Known
    BY <1>3 DEF Purge, PurgeBegin, PurgeMark, PurgeRead, PurgeExternal,
                PurgeTarget, PurgeDeleting, PurgeNamespace, PurgeFinal,
                PurgeThrow, PurgeCatch
  <1>4. ASSUME NEW h \in Handlers, CloseJob(h) \/ Crash(h) PROVE Known
    BY <1>4 DEF CloseJob, Crash, Retire
  <1>5. ASSUME NEW h \in Handlers, NEW j \in Jobs, Deliver(h, j) PROVE Known
    BY <1>5 DEF Deliver
  <1>6. CASE Outside
    BY <1>6 DEF Outside, Heartbeat, ExpireJob, LeaseRunsOut, Schedule, SyncTeam,
                Delete, List, Send, Request
  <1>7. CASE UNCHANGED vars
    BY <1>7 DEF vars
  <1>8. QED
    BY <1>1, <1>2, <1>3, <1>4, <1>5, <1>6, <1>7, StepIsSomebodys DEF Moves

LEMMA ClaimWantedStep ==
  ASSUME IInv, OneHandler, ClaimWanted, [Next]_vars, ~JobsExpire
  PROVE  ClaimWanted'
  <1> SUFFICES ASSUME NEW g \in Handlers, pc'[g] = "op_claim"
               PROVE  Running(job[g])'
    BY DEF ClaimWanted
  <1> USE DEF IInv
  <1>1. CASE Moves(g)
    <2>1. OpLock(g)
      BY <1>1, Entered
    <2>2. opStatus' = opStatus /\ job' = job /\ Running(job[g])
      BY <2>1 DEF OpLock, Close, Go, local, TypeOK, StillWanted
    <2>3. QED
      BY <2>2 DEF Running
  <1>2. CASE ~Moves(g)
    <2>1. pc[g] = "op_claim" /\ job'[g] = job[g]
      BY <1>2, MovesOrStays DEF Stays
    <2>2. projectLock = g /\ job[g] \in Ops
      BY <2>1 DEF LockHeld, JobOfPlace, Operating
    <2>3. ASSUME NEW h \in Handlers, Moves(h), pc[h] = "op_claim" PROVE FALSE
      BY <1>2, <2>2, <2>3 DEF LockHeld
    <2>4. ASSUME NEW h \in Handlers, Moves(h), opStatus'[job[g]] # opStatus[job[g]]
          PROVE  job[h] # job[g]
      <3>1. CASE Alive(h)
        BY <1>2, <2>1, <2>4, <3>1 DEF OneHandler, Alive
      <3>2. CASE ~Alive(h)
        <4>1. pc[h] = "idle"
          BY <3>2 DEF Alive
        <4>2. \E j \in Jobs : Deliver(h, j)
          BY <2>4, <4>1, HandlerSteps DEF Moves, CloseJob, Crash, Alive
        <4>3. QED
          BY <2>4, <4>2 DEF Deliver
      <3>3. QED
        BY <3>1, <3>2
    <2>5. opStatus'[job[g]] = opStatus[job[g]]
      BY <2>2, <2>3, <2>4, OpStatusEffect, TargetAssumption
    <2>6. Running(job[g])
      BY <2>1 DEF ClaimWanted
    <2>7. QED
      BY <2>1, <2>5, <2>6 DEF Running
  <1>3. QED
    BY <1>1, <1>2

(* No statement gives an operation that has ended another status: they all   *)
(* ask for a status that has not ended, save the claim, which rests on what  *)
(* was read under the lock.                                                  *)
LEMMA EndedStep ==
  ASSUME IInv, ClaimWanted, [Next]_vars, ~JobsExpire,
         NEW o \in Ops, opStatus[o] \in OpEnded
  PROVE  opStatus'[o] = opStatus[o]
  <1> DEFINE Same == opStatus'[o] = opStatus[o]
  <1>0. /\ opStatus \in [Ops -> {"none"} \cup OpActive \cup OpEnded]
        /\ \A h \in Handlers : pc[h] = "op_claim" => job[h] # o
    BY DEF IInv, TypeOK, ClaimWanted, Running, OpActive, OpEnded
  <1> USE <1>0 DEF row, queue, local, other, At, Untouched, Keep, SetTask,
             CancelSome, OpEnds, StillWanted, Running, OpActive, OpEnded
  <1>1. ASSUME NEW h \in Handlers, Reconcile(h) PROVE Same
    BY <1>1 DEF Reconcile, Begin, Load, CreateRow, Claim, Check, Act, Throw,
                Observe, Catch, Finally, Record
  <1>2. ASSUME NEW h \in Handlers, Operate(h) PROVE Same
    BY <1>2 DEF Operate, OpBegin, OpLock, OpClaim, OpUnclaimed, OpAct, OpThrow,
                OpCheck, OpComplete, OpCatch, OpMark, OpFinally
  <1>3. ASSUME NEW h \in Handlers, Purge(h) PROVE Same
    BY <1>3 DEF Purge, PurgeBegin, PurgeMark, PurgeRead, PurgeExternal,
                PurgeTarget, PurgeDeleting, PurgeNamespace, PurgeFinal,
                PurgeThrow, PurgeCatch
  <1>4. ASSUME NEW h \in Handlers, CloseJob(h) \/ Crash(h) PROVE Same
    BY <1>4 DEF CloseJob, Crash, Retire
  <1>5. ASSUME NEW h \in Handlers, NEW j \in Jobs, Deliver(h, j) PROVE Same
    BY <1>5 DEF Deliver
  <1>6. CASE Outside
    BY <1>6 DEF Outside, Heartbeat, ExpireJob, LeaseRunsOut, Schedule, SyncTeam,
                Delete, List, Send, Request
  <1>7. CASE UNCHANGED vars
    BY <1>7 DEF vars
  <1>8. QED
    BY <1>1, <1>2, <1>3, <1>4, <1>5, <1>6, <1>7, StepIsSomebodys DEF Moves

(* As long as pg-boss does not give the job of a live handler to another, an *)
(* operation that completed, failed or was cancelled keeps that status,      *)
(* however handlers crash, retry and are delivered again.                    *)
THEOREM EndedIsFinal == Spec => EndedOperationsStayEnded
  <1> DEFINE J == OneHandler /\ ClaimWanted
             Kept == ~JobsExpire => \A o \in Ops : opStatus[o] \in OpEnded
                                      => opStatus'[o] = opStatus[o]
  <1>1. Init => J
    BY DEF Init, OneHandler, ClaimWanted, Alive
  <1>2. IInv /\ J /\ [Next]_vars => J'
    <2>1. JobsExpire => J'
      BY DEF OneHandler, ClaimWanted
    <2>2. QED
      BY <2>1, OneHandlerStep, ClaimWantedStep DEF IInv
  <1>3. IInv /\ J /\ [Next]_vars => [Kept]_vars
    BY EndedStep
  <1>4. QED
    BY <1>1, <1>2, <1>3, Invariant, PTL DEF Spec, EndedOperationsStayEnded

=============================================================================
