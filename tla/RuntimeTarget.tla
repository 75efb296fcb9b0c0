---------------------------- MODULE RuntimeTarget ----------------------------
(***************************************************************************)
(* The runtime of one Project: a namespace of the cluster, described by a  *)
(* row with a desired generation, an observed one, a status and a lease.   *)
(* Three kinds of job work on it: reconciliation, Agent Garden resource    *)
(* operations, and the purge of a deleted Project.  The first two take the *)
(* lease of the row; the purge waits until nobody holds it.                *)
(*                                                                         *)
(* The jobs come from pg-boss queues (external): exclusive by key, retried *)
(* RetryLimit times.  A handler is one delivery of a job to a worker; each *)
(* of its steps is one database statement or one external call, and the    *)
(* process that runs it may die after any of them.                         *)
(***************************************************************************)
EXTENDS Naturals

CONSTANTS
    Handlers,        \* handler invocations that may be under way at once
    Creations,       \* resource operations: onboard, discover, instantiate
    Removals,        \* resource operations: remove, removeInstance
    Steps,           \* external steps of a reconciliation
    RetryLimit,      \* [Jobs -> retryLimit]: 25 for every queue in the code
    MaxGeneration,   \* bound: generations people ask for
    LeasesLapse,     \* may the lease of a live handler run out?
    JobsExpire,      \* may pg-boss give up on a job whose handler is alive?
    Nobody,          \* no lease owner
    Gone             \* the lease owner is an invocation that is over

Ops == Creations \cup Removals
Jobs == {"reconcile", "purge"} \cup Ops

(* the step that creates the namespace; a quota step comes before it *)
NamespaceStep == 2

ASSUME TargetAssumption ==
    /\ Nobody \notin Handlers /\ Gone \notin Handlers /\ Nobody # Gone
    /\ Creations \cap Removals = {} /\ {"reconcile", "purge"} \cap Ops = {}
    /\ Steps \in Nat /\ Steps >= NamespaceStep
    /\ RetryLimit \in [Jobs -> Nat] /\ MaxGeneration \in Nat
    /\ LeasesLapse \in BOOLEAN /\ JobsExpire \in BOOLEAN

VARIABLES
    deleted,     \* project.deletedAt is set
    task,        \* status of the Project's deletion task
    projectLock, \* the handler whose transaction holds the Project row
    status, generation, observed, owner, lease, \* the runtime target row
    namespace,   \* the namespace exists in the cluster
    opStatus,    \* [Ops -> status of the operation row]
    jobState, tries, \* [Jobs -> state, retryCount] of the newest job per key
    listed,      \* a maintenance run has this Project on its list
    pc, job, gen, step, last, ok \* [Handlers -> where it is, and its locals]

row   == <<status, generation, observed, owner, lease>>
queue == <<jobState, tries>>
local == <<job, gen, step, last, ok>>
other == <<deleted, task, namespace, listed>>
vars  == <<other, projectLock, row, opStatus, queue, pc, local>>

-----------------------------------------------------------------------------
Statuses == {"absent", "pending", "reconciling", "retry", "ready", "failed",
             "deleting"}
OpActive == {"pending", "running", "retry"}
OpEnded == {"completed", "failed", "cancelled"}
Reconciling == {"begin", "load", "create", "claim", "checking", "acting",
                "observing", "catching", "releasing", "recording"}
Operating == {"op_begin", "op_lock", "op_claim", "op_unclaimed", "op_acting",
              "op_checking", "op_completing", "op_catching", "op_marking",
              "op_releasing"}
Purging == {"purge_begin", "purge_mark", "purge_read", "purge_external",
            "purge_target", "purge_deleting", "purge_namespace", "purge_final",
            "purge_catching"}

TypeOK ==
    /\ deleted \in BOOLEAN /\ namespace \in BOOLEAN /\ listed \in BOOLEAN
    /\ task \in {"none", "scheduled", "running", "retry", "failed",
                 "completed"}
    /\ projectLock \in Handlers \cup {Nobody}
    /\ status \in Statuses
    /\ generation \in Nat /\ observed \in Nat
    /\ owner \in Handlers \cup {Nobody, Gone}
    /\ lease \in {"none", "live", "expired"}
    /\ opStatus \in [Ops -> {"none"} \cup OpActive \cup OpEnded]
    /\ jobState \in [Jobs -> {"none", "queued", "active"}]
    /\ tries \in [Jobs -> Nat]
    /\ pc \in [Handlers -> {"idle", "closing"} \cup Reconciling \cup Operating
                              \cup Purging]
    /\ job \in [Handlers -> Jobs]
    /\ gen \in [Handlers -> Nat]
    /\ step \in [Handlers -> Nat]
    /\ last \in [Handlers -> BOOLEAN]
    /\ ok \in [Handlers -> BOOLEAN]

(* A Project is created with its row and its job; a Project older than the *)
(* runtime targets has no row, and its reconciliation creates it.          *)
Init ==
    /\ deleted = FALSE /\ namespace = FALSE /\ listed = FALSE
    /\ task = "none"
    /\ projectLock = Nobody
    /\ status \in {"pending", "absent"}
    /\ generation = 1 /\ observed = 0
    /\ owner = Nobody /\ lease = "none"
    /\ opStatus = [o \in Ops |-> "none"]
    /\ jobState = [j \in Jobs |-> IF j = "reconcile" THEN "queued" ELSE "none"]
    /\ tries = [j \in Jobs |-> 0]
    /\ pc = [h \in Handlers |-> "idle"]
    /\ job = [h \in Handlers |-> "reconcile"]
    /\ gen = [h \in Handlers |-> 0]
    /\ step = [h \in Handlers |-> 0]
    /\ last = [h \in Handlers |-> FALSE]
    /\ ok = [h \in Handlers |-> FALSE]

-----------------------------------------------------------------------------
(* The lease *)

LeaseFree == owner = Nobody \/ lease = "expired"

Take(h) == owner' = h /\ lease' = "live"
Release == owner' = Nobody /\ lease' = "none"
Keep == UNCHANGED <<owner, lease>>

(* updateMany where leaseOwner is mine: nothing happens when it is not *)
ReleaseMine(h) == IF owner = h THEN Release ELSE Keep

(* A heartbeat every 30 seconds while the handler is alive keeps the lease *)
(* of ten minutes; it does not look whether the lease has run out.         *)
Alive(h) == pc[h] # "idle"

LeaseRunsOut ==
    /\ owner # Nobody /\ lease = "live"
    /\ LeasesLapse \/ owner = Gone
    /\ lease' = "expired"
    /\ UNCHANGED <<other, projectLock, status, generation, observed, owner,
                   opStatus, queue, pc, local>>

Heartbeat(h) ==
    /\ Alive(h) /\ owner = h /\ lease = "expired"
    /\ lease' = "live"
    /\ UNCHANGED <<other, projectLock, status, generation, observed, owner,
                   opStatus, queue, pc, local>>

-----------------------------------------------------------------------------
(* The queue: pg-boss with the exclusive policy *)

Go(h, place) == pc' = [pc EXCEPT ![h] = place] /\ UNCHANGED local

(* The invocation is over: its locals are gone, and nobody carries the id   *)
(* that it may have left in the row.                                        *)
Retire(h) ==
    /\ owner' = IF owner = h THEN Gone ELSE owner
    /\ pc' = [pc EXCEPT ![h] = "idle"]
    /\ job' = [job EXCEPT ![h] = "reconcile"]
    /\ gen' = [gen EXCEPT ![h] = 0]
    /\ step' = [step EXCEPT ![h] = 0]
    /\ last' = [last EXCEPT ![h] = FALSE]
    /\ ok' = [ok EXCEPT ![h] = FALSE]

(* the handler is done with the job, which is then completed or failed *)
Close(h, result) ==
    /\ pc' = [pc EXCEPT ![h] = "closing"]
    /\ ok' = [ok EXCEPT ![h] = result]
    /\ UNCHANGED <<job, gen, step, last>>

(* send() or upsert(): no second job beside a queued or active one *)
Enqueue(j) ==
    /\ jobState' = [jobState EXCEPT ![j] = IF @ = "none" THEN "queued" ELSE @]
    /\ tries' = [tries EXCEPT ![j] = IF jobState[j] = "none" THEN 0 ELSE @]

FirstPlace(j) == CASE j = "reconcile" -> "begin"
                   [] j = "purge"     -> "purge_begin"
                   [] OTHER           -> "op_begin"

(* A delivery runs under an id of its own. *)
Deliver(h, j) ==
    /\ jobState[j] = "queued"
    /\ pc[h] = "idle"
    /\ jobState' = [jobState EXCEPT ![j] = "active"]
    /\ pc' = [pc EXCEPT ![h] = FirstPlace(j)]
    /\ job' = [job EXCEPT ![h] = j]
    /\ last' = [last EXCEPT ![h] = tries[j] >= RetryLimit[j]]
    /\ UNCHANGED <<other, projectLock, row, opStatus, tries, gen, step, ok>>

(* a failed job is retried, or ends in the dead letter queue *)
FailJob(j) ==
    /\ jobState' = [jobState EXCEPT ![j] = IF tries[j] < RetryLimit[j]
                                           THEN "queued" ELSE "none"]
    /\ tries' = [tries EXCEPT ![j] = IF tries[j] < RetryLimit[j]
                                     THEN @ + 1 ELSE 0]

CloseJob(h) ==
    /\ pc[h] = "closing"
    /\ LET j == job[h] IN
       CASE jobState[j] # "active" -> UNCHANGED queue
         [] jobState[j] = "active" /\ ok[h] ->
              /\ jobState' = [jobState EXCEPT ![j] = "none"]
              /\ tries' = [tries EXCEPT ![j] = 0]
         [] OTHER -> FailJob(j)
    /\ Retire(h)
    /\ UNCHANGED <<other, projectLock, status, generation, observed, lease,
                   opStatus>>

(* what a handler records of its failure *)
AfterFailure(h) == IF last[h] THEN "failed" ELSE "retry"

(* Its worker stopped sending heartbeats for the job, or the job ran for   *)
(* an hour.                                                                *)
ExpireJob(j) ==
    /\ jobState[j] = "active"
    /\ JobsExpire \/ \A h \in Handlers : job[h] = j => ~Alive(h)
    /\ FailJob(j)
    /\ UNCHANGED <<other, projectLock, row, opStatus, pc, local>>

(* The process dies; a transaction it has open is rolled back. *)
Crash(h) ==
    /\ Alive(h)
    /\ projectLock' = IF projectLock = h THEN Nobody ELSE projectLock
    /\ Retire(h)
    /\ UNCHANGED <<other, status, generation, observed, lease, opStatus,
                   queue>>

-----------------------------------------------------------------------------
(* Reconciliation: ControlWorkerTasks.projectRuntimeReconcile around       *)
(* ProjectRuntimeTargetService.ensureProjectNamespace                      *)

At(h, place) == pc[h] = place
Untouched == UNCHANGED <<other, projectLock, row, opStatus, queue>>

Begin(h) ==
    /\ At(h, "begin")
    /\ IF deleted THEN Close(h, TRUE) ELSE Go(h, "load")
    /\ Untouched

(* One read of the Project and its target; the generation is fixed here. *)
Load(h) ==
    /\ At(h, "load")
    /\ pc' = [pc EXCEPT ![h] = CASE deleted            -> "recording"
                                 [] status = "absent"  -> "create"
                                 [] OTHER              -> "claim"]
    /\ gen' = [gen EXCEPT ![h] = generation]
    /\ UNCHANGED <<job, step, last, ok>>
    /\ Untouched

CreateRow(h) ==
    /\ At(h, "create")
    /\ IF status = "absent"
       THEN status' = "pending" /\ Go(h, "claim")
       ELSE UNCHANGED status /\ Go(h, "recording")
    /\ UNCHANGED <<other, projectLock, generation, observed, owner, lease,
                   opStatus, queue>>

(* Mutant: whoever comes may claim. *)
ClaimableAlways(h) == status \notin {"deleting", "failed"}

Claimable(h) ==
    /\ generation = gen[h]
    /\ status \notin {"deleting", "failed"}
    /\ LeaseFree

Claim(h) ==
    /\ At(h, "claim")
    /\ IF Claimable(h)
       THEN Take(h) /\ status' = "reconciling" /\ Go(h, "checking")
       ELSE Keep /\ UNCHANGED status /\ Go(h, "catching")
    /\ UNCHANGED <<other, projectLock, generation, observed, opStatus, queue>>

(* Mutant: only the owner is compared. *)
MineByOwner(h) == owner = h

(* the row is still this handler's, for the generation it started with *)
Mine(h) == owner = h /\ generation = gen[h] /\ status = "reconciling"

(* Mutant: the tombstone is not looked at. *)
StillCurrentByRow(h) == Mine(h)

StillCurrent(h) == Mine(h) /\ ~deleted

Check(h) ==
    /\ At(h, "checking")
    /\ Go(h, IF ~StillCurrent(h) THEN "catching"
             ELSE IF step[h] = Steps THEN "observing" ELSE "acting")
    /\ Untouched

(* One external step ends; what it changed in the cluster stays. *)
Act(h) ==
    /\ At(h, "acting")
    /\ step' = [step EXCEPT ![h] = @ + 1]
    /\ namespace' = (namespace \/ step[h] + 1 = NamespaceStep)
    /\ pc' = [pc EXCEPT ![h] = "checking"]
    /\ UNCHANGED <<job, gen, last, ok, deleted, task, listed, projectLock, row,
                   opStatus, queue>>

(* A step fails, or the database does not answer. *)
Throw(h) ==
    /\ pc[h] \in {"load", "create", "claim", "checking", "acting", "observing"}
    /\ Go(h, IF pc[h] \in {"load", "create"} THEN "recording" ELSE "catching")
    /\ Untouched

Observe(h) ==
    /\ At(h, "observing")
    /\ IF Mine(h)
       THEN /\ status' = "ready" /\ observed' = gen[h]
            /\ Release
            /\ Close(h, TRUE)
       ELSE Keep /\ UNCHANGED <<status, observed>> /\ Go(h, "catching")
    /\ UNCHANGED <<other, projectLock, generation, opStatus, queue>>

(* catch, then finally, then the catch of the worker: three statements,    *)
(* each of which may fail and leave the row as it is.                      *)
Catch(h) ==
    /\ At(h, "catching")
    /\ \/ Mine(h) /\ status' = "retry" /\ Release
       \/ Keep /\ UNCHANGED status
    /\ Go(h, "releasing")
    /\ UNCHANGED <<other, projectLock, generation, observed, opStatus, queue>>

Finally(h) ==
    /\ At(h, "releasing")
    /\ ReleaseMine(h) \/ Keep
    /\ Go(h, "recording")
    /\ UNCHANGED <<other, projectLock, status, generation, observed, opStatus,
                   queue>>

(* Mutant: the status of a Project being deleted is overwritten too. *)
RecordableAlways == status # "absent" /\ owner = Nobody

Recordable == status \in {"pending", "retry"} /\ owner = Nobody

Record(h) ==
    /\ At(h, "recording")
    /\ \/ Recordable /\ status' = AfterFailure(h)
       \/ UNCHANGED status
    /\ Close(h, FALSE)
    /\ UNCHANGED <<other, projectLock, generation, observed, owner, lease,
                   opStatus, queue>>

Reconcile(h) ==
    \/ Begin(h) \/ Load(h) \/ CreateRow(h) \/ Claim(h) \/ Check(h) \/ Act(h)
    \/ Throw(h) \/ Observe(h) \/ Catch(h) \/ Finally(h) \/ Record(h)

-----------------------------------------------------------------------------
(* Resource operations: runResourceOperation.  Which creations belong to   *)
(* the Agent a removal names is left open here; module A2aTombstones is     *)
(* about that.                                                              *)

Running(o) == opStatus[o] \in OpActive

(* What a removal leaves of the operations: it cancels some creations. *)
CancelSome(o, ops) ==
    \E gone \in SUBSET {c \in Creations : Running(c)} :
       /\ o \notin Removals => gone = {}
       /\ opStatus' = [c \in Ops |-> IF c \in gone THEN "cancelled" ELSE ops[c]]

OpBegin(h) ==
    /\ At(h, "op_begin")
    /\ IF Running(job[h]) THEN Go(h, "op_lock") ELSE Close(h, TRUE)
    /\ Untouched

(* Mutant: the status is not read again under the lock. *)
StillWantedOnce(o) == TRUE

StillWanted(o) == Running(o)

(* The transaction locks the Project row and reads; an operation of a      *)
(* deleted Project, or a creation whose Agent was removed, is cancelled.   *)
OpLock(h) ==
    LET o == job[h]
        removed == o \in Creations /\ \E r \in Removals : opStatus[r] # "none"
    IN
    /\ At(h, "op_lock")
    /\ projectLock = Nobody
    /\ \/ /\ ~StillWanted(o)
          /\ Close(h, TRUE)
          /\ UNCHANGED <<opStatus, projectLock>>
       \/ /\ StillWanted(o) /\ (deleted \/ removed)
          /\ opStatus' = [opStatus EXCEPT ![o] = "cancelled"]
          /\ Close(h, TRUE)
          /\ UNCHANGED projectLock
       \/ /\ StillWanted(o) /\ ~deleted
          /\ projectLock' = h
          /\ Go(h, "op_claim")
          /\ UNCHANGED opStatus
    /\ UNCHANGED <<other, row, queue>>

OpMayClaim(o) ==
    /\ status # "absent"
    /\ o \in Removals \/ status = "ready"
    /\ LeaseFree

OpClaim(h) ==
    LET o == job[h] IN
    /\ At(h, "op_claim")
    /\ IF OpMayClaim(o)
       THEN /\ Take(h)
            /\ CancelSome(o, [opStatus EXCEPT ![o] = "running"])
            /\ Go(h, "op_acting")
       ELSE Keep /\ UNCHANGED opStatus /\ Go(h, "op_unclaimed")
    /\ projectLock' = Nobody
    /\ UNCHANGED <<other, status, generation, observed, queue>>

OpUnclaimed(h) ==
    LET o == job[h] IN
    /\ At(h, "op_unclaimed")
    /\ \/ /\ opStatus[o] \in {"pending", "retry"}
          /\ opStatus' = [opStatus EXCEPT ![o] = AfterFailure(h)]
       \/ UNCHANGED opStatus
    /\ Close(h, FALSE)
    /\ UNCHANGED <<other, projectLock, row, queue>>

(* the work itself, a sequence of external calls *)
OpAct(h) ==
    /\ At(h, "op_acting")
    /\ Go(h, "op_checking")
    /\ Untouched

OpThrow(h) ==
    /\ pc[h] \in {"op_begin", "op_lock", "op_claim", "op_acting",
                  "op_checking", "op_completing"}
    /\ projectLock' = IF projectLock = h THEN Nobody ELSE projectLock
    /\ CASE pc[h] = "op_begin" -> Close(h, FALSE)
         [] pc[h] \in {"op_lock", "op_claim"} -> Go(h, "op_unclaimed")
         [] OTHER -> Go(h, "op_catching")
    /\ UNCHANGED <<other, row, opStatus, queue>>

OpCheck(h) ==
    /\ At(h, "op_checking")
    /\ Go(h, IF owner = h THEN "op_completing" ELSE "op_catching")
    /\ Untouched

(* to the finally block, with what the job will be told *)
Leave(h, result) ==
    /\ pc' = [pc EXCEPT ![h] = "op_releasing"]
    /\ ok' = [ok EXCEPT ![h] = result]
    /\ UNCHANGED <<job, gen, step, last>>

(* Mutant: a cancelled operation completes. *)
OpEndsAlways(o) == opStatus[o] # "pending"

OpEnds(o) == opStatus[o] = "running"

OpComplete(h) ==
    LET o == job[h] IN
    /\ At(h, "op_completing")
    /\ opStatus' = [opStatus EXCEPT ![o] =
                      IF ~OpEnds(o) THEN @
                      ELSE IF deleted THEN "cancelled" ELSE "completed"]
    /\ Leave(h, TRUE)
    /\ UNCHANGED <<other, projectLock, row, queue>>

OpCatch(h) ==
    LET o == job[h] IN
    /\ At(h, "op_catching")
    /\ \/ opStatus[o] = "cancelled" /\ Leave(h, TRUE)
       \/ opStatus[o] # "cancelled" /\ owner = h /\ Go(h, "op_marking")
       \/ Leave(h, FALSE)
    /\ Untouched

OpMark(h) ==
    LET o == job[h] IN
    /\ At(h, "op_marking")
    /\ \/ /\ OpEnds(o)
          /\ opStatus' = [opStatus EXCEPT ![o] = AfterFailure(h)]
       \/ UNCHANGED opStatus
    /\ Leave(h, FALSE)
    /\ UNCHANGED <<other, projectLock, row, queue>>

OpFinally(h) ==
    /\ At(h, "op_releasing")
    /\ \/ ReleaseMine(h) /\ Close(h, ok[h])
       \/ Keep /\ Close(h, FALSE)
    /\ UNCHANGED <<other, projectLock, status, generation, observed, opStatus,
                   queue>>

Operate(h) ==
    \/ OpBegin(h) \/ OpLock(h) \/ OpClaim(h) \/ OpUnclaimed(h) \/ OpAct(h)
    \/ OpThrow(h) \/ OpCheck(h) \/ OpComplete(h) \/ OpCatch(h) \/ OpMark(h)
    \/ OpFinally(h)

-----------------------------------------------------------------------------
(* The purge: ControlWorkerTasks.projectDeletion, ProjectDeletionService,  *)
(* deleteProjectNamespace                                                   *)

PurgeBegin(h) ==
    /\ At(h, "purge_begin")
    /\ IF task \in {"none", "completed"} THEN Close(h, TRUE)
                                         ELSE Go(h, "purge_mark")
    /\ Untouched

SetTask(value) == task' = value
                    /\ UNCHANGED <<deleted, namespace, listed, projectLock, row,
                                   opStatus, queue>>

PurgeMark(h) ==
    /\ At(h, "purge_mark")
    /\ SetTask("running")
    /\ Go(h, "purge_read")

MayPurge == LeaseFree

PurgeRead(h) ==
    /\ At(h, "purge_read")
    /\ Go(h, IF MayPurge THEN "purge_external" ELSE "purge_catching")
    /\ Untouched

(* Sandboxes, memories, keys, routes, models, servers and stores are       *)
(* deleted at their services.                                               *)
PurgeExternal(h) ==
    /\ At(h, "purge_external")
    /\ Go(h, "purge_target")
    /\ Untouched

PurgeTarget(h) ==
    /\ At(h, "purge_target")
    /\ Go(h, IF status = "absent" THEN "purge_final"
             ELSE IF LeaseFree THEN "purge_deleting" ELSE "purge_catching")
    /\ Untouched

PurgeDeleting(h) ==
    /\ At(h, "purge_deleting")
    /\ status' = "deleting"
    /\ Go(h, "purge_namespace")
    /\ UNCHANGED <<other, projectLock, generation, observed, owner, lease,
                   opStatus, queue>>

PurgeNamespace(h) ==
    /\ At(h, "purge_namespace")
    /\ namespace' = FALSE
    /\ Go(h, "purge_final")
    /\ UNCHANGED <<deleted, task, listed, projectLock, row, opStatus, queue>>

PurgeFinal(h) ==
    /\ At(h, "purge_final")
    /\ SetTask(IF task = "running" THEN "completed" ELSE task)
    /\ Close(h, TRUE)

PurgeThrow(h) ==
    /\ pc[h] \in Purging \ {"purge_catching"}
    /\ IF pc[h] \in {"purge_begin", "purge_mark"}
       THEN Close(h, FALSE) ELSE Go(h, "purge_catching")
    /\ Untouched

PurgeCatch(h) ==
    /\ At(h, "purge_catching")
    /\ \/ task = "running" /\ SetTask(AfterFailure(h))
       \/ Untouched
    /\ Close(h, FALSE)

Purge(h) ==
    \/ PurgeBegin(h) \/ PurgeMark(h) \/ PurgeRead(h) \/ PurgeExternal(h)
    \/ PurgeTarget(h) \/ PurgeDeleting(h) \/ PurgeNamespace(h) \/ PurgeFinal(h)
    \/ PurgeThrow(h) \/ PurgeCatch(h)

-----------------------------------------------------------------------------
(* What people and the maintenance schedule ask for *)

Schedule(reinitialize) ==
    /\ projectLock = Nobody
    /\ ~deleted
    /\ status # "deleting"
    /\ LeaseFree
    /\ reinitialize \/ status \notin {"ready", "pending"}
    /\ generation < MaxGeneration
    /\ status' = "pending"
    /\ generation' = IF status \in {"absent", "pending"} THEN generation
                                                         ELSE generation + 1
    /\ Release
    /\ Enqueue("reconcile")
    /\ UNCHANGED <<other, projectLock, observed, opStatus, pc, local>>

(* a change of the Project's team or budget asks for a reconciliation *)
SyncTeam ==
    /\ ~deleted
    /\ Enqueue("reconcile")
    /\ UNCHANGED <<other, projectLock, row, opStatus, pc, local>>

Request(o) ==
    /\ projectLock = Nobody
    /\ ~deleted
    /\ opStatus[o] = "none"
    /\ CancelSome(o, [opStatus EXCEPT ![o] = "pending"])
    /\ Enqueue(o)
    /\ UNCHANGED <<other, projectLock, row, pc, local>>

Delete ==
    /\ projectLock = Nobody
    /\ ~deleted
    /\ deleted' = TRUE
    /\ task' = "scheduled"
    /\ IF status = "absent" THEN UNCHANGED <<status, generation>>
       ELSE status' = "deleting" /\ generation' = generation + 1
    /\ Enqueue("purge")
    /\ UNCHANGED <<namespace, listed, projectLock, observed, owner, lease,
                   opStatus, pc, local>>

(* Mutant of Candidate: a target whose worker died is not listed. *)
CandidateUnclaimed ==
    /\ ~deleted
    /\ status \notin {"failed", "deleting", "reconciling"}

(* maintenance: reconciliationCandidateIds, and later the sends; a ready   *)
(* target is listed once it was not reconciled for a while                  *)
Candidate ==
    /\ ~deleted
    /\ status \notin {"failed", "deleting"}
    /\ status = "reconciling" => lease # "live"

List ==
    /\ Candidate
    /\ listed' = TRUE
    /\ UNCHANGED <<deleted, task, namespace, projectLock, row, opStatus, queue,
                   pc, local>>

Send ==
    /\ listed
    /\ listed' = FALSE
    /\ Enqueue("reconcile")
    /\ UNCHANGED <<deleted, task, namespace, projectLock, row, opStatus, pc,
                   local>>

-----------------------------------------------------------------------------
Next ==
    \/ \E h \in Handlers, j \in Jobs : Deliver(h, j)
    \/ \E h \in Handlers :
          \/ Reconcile(h) \/ Operate(h) \/ Purge(h) \/ CloseJob(h) \/ Crash(h)
          \/ Heartbeat(h)
    \/ \E j \in Jobs : ExpireJob(j)
    \/ LeaseRunsOut
    \/ \E reinitialize \in BOOLEAN : Schedule(reinitialize)
    \/ SyncTeam \/ Delete \/ List \/ Send
    \/ \E o \in Ops : Request(o)

Spec == Init /\ [][Next]_vars

-----------------------------------------------------------------------------
(* Properties *)

Working == {h \in Handlers : pc[h] \in {"acting", "op_acting"}}
Destroying == {h \in Handlers : pc[h] \in {"purge_external", "purge_target",
                                           "purge_deleting", "purge_namespace"}}

(* While live handlers keep their leases, at most one of them changes the  *)
(* runtime, and none while a purge destroys it: whatever crashes, is        *)
(* delivered twice, scheduled again or deleted in between.                  *)
OneWorker ==
    ~LeasesLapse =>
       /\ \A g, h \in Working : g = h
       /\ Destroying = {} \/ Working = {}

(* A purged Project never gets its namespace back. *)
PurgedStaysGone == ~LeasesLapse => (task = "completed" => ~namespace)

(* "Ready" is a statement about the generation people asked for last, and   *)
(* about a namespace that exists; nothing makes a deleted Project ready.    *)
ReadyIsCurrent ==
    status = "ready" => observed = generation /\ namespace /\ ~deleted

(* Once a runtime is being deleted no late result, failure, release or      *)
(* retry gives it another status.                                           *)
DeletingIsFinal == [][status = "deleting" => status' = "deleting"]_vars

(* A cancelled operation never runs, completes or is retried again,         *)
(* although its handler and the one that cancels it share only the Project  *)
(* row lock.                                                                *)
CancelledStaysCancelled ==
    [][\A o \in Ops : opStatus[o] = "cancelled"
         => opStatus'[o] = "cancelled"]_vars

(* Unless pg-boss hands out the job of a handler that is alive, a completed *)
(* or failed operation stays so as well.                                    *)
EndedOperationsStayEnded ==
    [][~JobsExpire => \A o \in Ops : opStatus[o] \in OpEnded
                         => opStatus'[o] = opStatus[o]]_vars

(* A job that tried one generation does not give up a later one, which      *)
(* somebody asked for meanwhile.  The code does not keep it: the worker's   *)
(* catch does not look at the generation.                                   *)
GivenUpWasTried ==
    [][status # "failed" /\ status' = "failed"
         => \E h \in Handlers : /\ At(h, "recording")
                                /\ gen[h] \in {0, generation}]_vars

(* An operation that has not ended has a job or a handler that will end it. *)
(* The code does not keep it: when the last attempt dies, nothing records   *)
(* the failure.                                                             *)
OperationsAttended ==
    \A o \in Ops : Running(o) => \/ jobState[o] # "none"
                                 \/ \E h \in Handlers : Alive(h) /\ job[h] = o

(* Handlers run, leases of the dead run out, pg-boss delivers and gives up, *)
(* and the maintenance schedule fires every minute.                         *)
Fairness ==
    /\ \A h \in Handlers :
          WF_vars(Reconcile(h)) /\ WF_vars(Purge(h)) /\ WF_vars(CloseJob(h))
    /\ WF_vars(\E h \in Handlers : Deliver(h, "reconcile"))
    /\ WF_vars(ExpireJob("reconcile"))
    /\ WF_vars(LeaseRunsOut)
    /\ WF_vars(List) /\ WF_vars(Send)

FairSpec == Spec /\ Fairness

(* An unfinished initialization without a job does not stay so, wherever    *)
(* its last worker died.                                                    *)
Unattended == /\ ~deleted
              /\ status \in {"pending", "retry", "reconciling"}
              /\ jobState["reconcile"] = "none"
InitializationAttended == Unattended ~> ~Unattended

=============================================================================
