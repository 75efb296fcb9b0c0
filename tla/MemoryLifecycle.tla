--------------------------- MODULE MemoryLifecycle ---------------------------
(***************************************************************************)
(* One Durable Memory: a row with a status and a provider reference, the   *)
(* bank it refers to at the Memory provider, and at most one active        *)
(* binding to an Agent Instance.  Instance creation, attach and detach,    *)
(* deletion, provisioning retries, reads and the outbox drain all move the *)
(* status, each through transitionMemory: one transaction that reads the   *)
(* row, looks the move up in a table and then updates the row by its id,   *)
(* without a lock.  Only bindPrimary and startDeletion take the advisory   *)
(* lock of the Memory.                                                     *)
(*                                                                         *)
(* A process is one run of one service method.  Each of its steps is one   *)
(* database statement or one call of the provider.                         *)
(***************************************************************************)
EXTENDS Naturals

CONSTANTS
    Processes,   \* service calls that may be under way at once
    Instances,   \* Agent Instances, the ones requests create included
    Existing,    \* the Instances that are there before
    Operations,  \* bound: the service methods of this instance of the model
    Late,        \* bound: drains and failures after the Project was deleted
    Nobody

Methods == {"create", "adopt", "attach", "detach", "unbind", "retry", "delete",
            "recall", "count", "drain", "cleanup"}

(* They show the resource, so they count what the bank holds. *)
Counting == {"count", "unbind", "retry", "cleanup"}

ASSUME MemoryAssumption ==
    /\ Nobody \notin Processes /\ Nobody \notin Instances
    /\ Existing \subseteq Instances
    /\ Operations \subseteq Methods
    /\ Late \in Nat

VARIABLES
    status,   \* memories.status; "absent" before the row exists
    ref,      \* provider_ref is set
    bank,     \* the bank exists at the provider
    bound,    \* instance of the active primary binding
    binder,   \* the request that made that binding and still runs
    agents,   \* the Instances with a row
    created,  \* the Instance the creation request's key names
    lock,     \* holder of the Memory's advisory lock
    deleted,  \* the Project is deleted
    late,     \* drains and failures since
    pc, op, inst, seen, move \* [Processes -> where it is, and its locals]

Row     == <<status, ref, bank>>
Binding == <<bound, binder>>
Request == <<agents, created>>
Env     == <<deleted, late>>
Local   == <<pc, op, inst, seen, move>>
vars    == <<Row, Binding, Request, lock, Env, Local>>

-----------------------------------------------------------------------------
Statuses == {"provisioning", "ready", "degraded", "unbound", "deleting",
             "deletion_failed", "deleted"}

(* memoryTransitions *)
Transitions ==
    [provisioning    |-> {"ready", "degraded", "deleting"},
     ready           |-> {"degraded", "unbound", "deleting"},
     degraded        |-> {"ready", "unbound", "deleting"},
     unbound         |-> {"ready", "degraded", "deleting"},
     deleting        |-> {"deletion_failed", "deleted"},
     deletion_failed |-> {"deleting"},
     deleted         |-> {}]

Allowed(from, to) == from = to \/ to \in Transitions[from]

Places == {"idle", "upserting", "provisioning", "degrading", "adopting",
           "resolving", "saving", "attaching", "checking", "binding",
           "binding_locked", "queueing", "unpreparing", "undoing", "forgetting",
           "detaching", "detached", "retrying", "checking_health",
           "counting_bound", "creating_bank", "delete_reading", "deleting",
           "deleting_locked", "erasing", "failing_deletion", "cleaning",
           "cleaning_row", "cleaned_row", "asking", "observing", "touching",
           "recovering", "rechecking", "moving", "writing"}

(* What a transition carries: the status it sets, what becomes of the       *)
(* provider reference, and where the caller goes on.                        *)
Move == [to : Statuses, ref : {"keep", "set", "clear"}, yes : Places,
         no : Places]
NoMove == [to |-> "ready", ref |-> "keep", yes |-> "idle", no |-> "idle"]

TypeOK ==
    /\ status \in Statuses \cup {"absent"}
    /\ ref \in BOOLEAN /\ bank \in BOOLEAN
    /\ bound \in Instances \cup {Nobody}
    /\ binder \in Processes \cup {Nobody}
    /\ agents \subseteq Instances
    /\ created \in Instances \cup {Nobody}
    /\ lock \in Processes \cup {Nobody}
    /\ deleted \in BOOLEAN
    /\ late \in 0 .. Late
    /\ pc \in [Processes -> Places]
    /\ op \in [Processes -> Methods]
    /\ inst \in [Processes -> Instances \cup {Nobody}]
    /\ seen \in [Processes -> Statuses]
    /\ move \in [Processes -> Move]

(* The Memory is created by the first request for an Instance that asks for *)
(* a new one.                                                               *)
Init ==
    /\ status = "absent" /\ ref = FALSE /\ bank = FALSE
    /\ bound = Nobody /\ binder = Nobody
    /\ agents = Existing /\ created = Nobody
    /\ lock = Nobody
    /\ deleted = FALSE /\ late = 0
    /\ pc = [p \in Processes |-> "idle"]
    /\ op = [p \in Processes |-> "create"]
    /\ inst = [p \in Processes |-> Nobody]
    /\ seen = [p \in Processes |-> "ready"]
    /\ move = [p \in Processes |-> NoMove]

-----------------------------------------------------------------------------
(* Control of a process *)

At(p, place) == pc[p] = place

(* The next place of a process and its locals; an ended call leaves none.   *)
Become(p, place, o, i, s, m) ==
    LET ended == place = "idle"
    IN  /\ pc'   = [pc EXCEPT ![p] = place]
        /\ op'   = [op EXCEPT ![p] = IF ended THEN "create" ELSE o]
        /\ inst' = [inst EXCEPT ![p] = IF ended THEN Nobody ELSE i]
        /\ seen' = [seen EXCEPT ![p] = IF ended THEN "ready" ELSE s]
        /\ move' = [move EXCEPT ![p] = IF ended THEN NoMove ELSE m]

Go(p, place) == Become(p, place, op[p], inst[p], seen[p], NoMove)

(* The service keeps the status it read. *)
Remember(p, place) == Become(p, place, op[p], inst[p], status, NoMove)

(* The service calls transitionMemory. *)
Transition(p, to, newRef, yes, no) ==
    Become(p, "moving", op[p], inst[p], seen[p],
           [to |-> to, ref |-> newRef, yes |-> yes, no |-> no])

(* Its caller in create() swallows what delete() throws. *)
AfterDelete(p) == IF op[p] = "create" THEN "forgetting" ELSE "idle"
AfterDetach(p) == IF op[p] = "cleanup" THEN "cleaning_row"
                  ELSE IF op[p] = "unbind" THEN "asking" ELSE "idle"
AfterCount(p)  == IF op[p] = "cleanup" THEN "cleaned_row" ELSE "idle"

(* What an answer of the provider that does not come makes of a read.       *)
ReadHandler(p) ==
    CASE op[p] = "drain" -> "rechecking"
      [] op[p] = "recall" /\ pc[p] # "asking" /\ seen[p] = "ready" -> "degrading"
      [] op[p] \in Counting /\ pc[p] = "observing"
           -> IF seen[p] = "degraded" THEN AfterCount(p) ELSE "degrading"
      [] OTHER -> "idle"

(* Where an error that is thrown at the process's place is caught.  When     *)
(* rollbackBinding fails the Agent row stays: the binding refers to it.      *)
Handler(p) ==
    CASE pc[p] = "provisioning" -> "degrading"
      [] pc[p] \in {"moving", "writing"} -> move[p].no
      [] pc[p] \in {"saving", "checking", "binding", "binding_locked"}
           /\ op[p] \in {"create", "adopt"} -> "undoing"
      [] pc[p] = "queueing" -> "unpreparing"
      [] pc[p] = "undoing" -> "forgetting"
      [] pc[p] \in {"delete_reading", "deleting", "deleting_locked",
                    "failing_deletion"} -> AfterDelete(p)
      [] pc[p] = "erasing" -> "failing_deletion"
      [] pc[p] = "degrading" -> AfterCount(p)
      [] pc[p] \in {"asking", "observing", "touching", "recovering"}
           -> ReadHandler(p)
      [] OTHER -> "idle"

Throw(p) == Go(p, Handler(p))

Unlock(p) == lock' = IF lock = p THEN Nobody ELSE lock

(* The request that made the binding ended. *)
Release(p) == binder' = IF binder = p THEN Nobody ELSE binder

(* Mutant: startDeletion and bindPrimary do not lock. *)
LockIgnored == TRUE

(* A transaction that takes the advisory lock waits for it. *)
LockFree == lock = Nobody

(* A failure, counted once the Project is deleted. *)
Disturb == /\ deleted => late < Late
           /\ late' = IF deleted THEN late + 1 ELSE late
           /\ UNCHANGED deleted

(* A statement or a call fails.  A provider may have done what it did not   *)
(* confirm.                                                                 *)
Fails(p) ==
    /\ ~At(p, "idle")
    /\ Throw(p)
    /\ Unlock(p)
    /\ bank' \in CASE pc[p] \in {"provisioning", "creating_bank"} -> {bank, TRUE}
                   [] pc[p] = "erasing" -> {bank, FALSE}
                   [] OTHER -> {bank}
    /\ IF Handler(p) = "idle" THEN Release(p) ELSE UNCHANGED binder
    /\ Disturb
    /\ UNCHANGED <<status, ref, bound, Request>>

(* The process dies; its open transaction is rolled back. *)
Crash(p) ==
    /\ ~At(p, "idle")
    /\ Go(p, "idle")
    /\ Unlock(p)
    /\ Release(p)
    /\ Disturb
    /\ UNCHANGED <<Row, bound, Request>>

-----------------------------------------------------------------------------
(* transitionMemory *)

MoveRead(p) ==
    /\ At(p, "moving")
    /\ IF Allowed(status, move[p].to)
       THEN Become(p, "writing", op[p], inst[p], seen[p], move[p])
       ELSE Throw(p)
    /\ UNCHANGED <<Row, Binding, Request, lock, Env>>

(* The row keeps its deleted_at, so the CHECK of the table rejects every    *)
(* other status once it is deleted.                                         *)
Writable(to) == status = "deleted" => to = "deleted"

(* An UPDATE by id: whatever the row says now. *)
MoveWrite(p) ==
    /\ At(p, "writing")
    /\ \/ /\ Writable(move[p].to)
          /\ status' = move[p].to
          /\ ref' = (move[p].ref = "set" \/ (move[p].ref = "keep" /\ ref))
          /\ Become(p, move[p].yes, op[p], inst[p], move[p].to, NoMove)
       \/ /\ ~Writable(move[p].to)
          /\ Throw(p)
          /\ UNCHANGED <<status, ref>>
    /\ UNCHANGED <<bank, Binding, Request, lock, Env>>

-----------------------------------------------------------------------------
(* A request calls a method. *)

FirstPlace ==
    [create |-> "upserting", adopt |-> "adopting", attach |-> "attaching",
     detach |-> "detaching", unbind |-> "detaching", retry |-> "retrying", delete |-> "delete_reading",
     recall |-> "asking", count |-> "asking", drain |-> "asking",
     cleanup |-> "cleaning"]

Creating == {inst[q] : q \in {r \in Processes : op[r] \in {"create", "adopt"}}}

(* create() picks a new id; attach and detach name an Instance with a row,  *)
(* and detachBinding the one that is bound.                                 *)
(* Bound: nobody attaches an Instance whose creation is still under way.    *)
(* The job of a Project's deletion is exclusive: one cleanup at a time.     *)
Subjects(o) ==
    CASE o \in {"create", "adopt"} -> Instances \ (agents \cup Creating)
      [] o = "attach" -> agents \ Creating
      [] o = "detach" -> agents
      [] o = "unbind" -> {bound} \ {Nobody}
      [] OTHER -> {Nobody}

Start(p) ==
    /\ At(p, "idle")
    /\ \E o \in Operations : \E i \in Subjects(o) :
        /\ IF o = "create" THEN created = Nobody ELSE status # "absent"
        /\ IF o = "cleanup"
           THEN deleted /\ \A q \in Processes : op[q] # "cleanup"
           ELSE deleted => o = "drain"
        /\ Become(p, FirstPlace[o], o, i, "ready", NoMove)
        /\ IF o = "drain" THEN Disturb ELSE UNCHANGED Env
    /\ UNCHANGED <<Row, Binding, Request, lock>>

(* The Project is deleted: no request reaches the service any more. *)
DeleteProject ==
    /\ "cleanup" \in Operations
    /\ ~deleted /\ status # "absent"
    /\ deleted' = TRUE
    /\ UNCHANGED <<Row, Binding, Request, lock, late, Local>>

-----------------------------------------------------------------------------
(* provision(): the Memory of a new Instance *)

Keeps(p) == UNCHANGED <<Row, Binding, Request, lock, Env>>

(* createMemory upserts by the request's key. *)
Upsert(p) ==
    /\ At(p, "upserting")
    /\ status' = IF status = "absent" THEN "provisioning" ELSE status
    /\ \E place \in {"resolving", "idle", "provisioning"} :
        /\ place = "resolving" <=> ref /\ status \in {"ready", "unbound"}
        /\ place = "idle"
             <=> status \in {"deleting", "deletion_failed", "deleted"}
        /\ Become(p, place, op[p], inst[p], status', NoMove)
    /\ UNCHANGED <<ref, bank, Binding, Request, lock, Env>>

(* Mutant: the provider's reference is not stored. *)
ProvisionUnnamed(p) ==
    /\ At(p, "provisioning")
    /\ bank' = TRUE
    /\ Transition(p, "ready", "keep", "resolving", "degrading")
    /\ UNCHANGED <<status, ref, Binding, Request, lock, Env>>

Provision(p) ==
    /\ At(p, "provisioning")
    /\ bank' = TRUE
    /\ Transition(p, "ready", "set", "resolving", "degrading")
    /\ UNCHANGED <<status, ref, Binding, Request, lock, Env>>

(* What a failed provider call makes of the Memory, errors ignored. *)
Degrade(p) ==
    /\ At(p, "degrading")
    /\ Transition(p, "degraded", "keep", AfterCount(p), AfterCount(p))
    /\ Keeps(p)

-----------------------------------------------------------------------------
(* resolveForAgent and bindToAgent: create(), with a new Memory or with one *)
(* that is there, and attachExisting                                        *)

Adopt(p) ==
    /\ At(p, "adopting")
    /\ IF ref /\ status \in {"ready", "unbound"}
       THEN Remember(p, "resolving")
       ELSE Throw(p)
    /\ Keeps(p)

Free(p) == bound \in {Nobody, inst[p]}

Resolve(p) ==
    /\ At(p, "resolving")
    /\ \/ ~Free(p) /\ Throw(p)
       \/ /\ Free(p) /\ seen[p] = "unbound"
          /\ Transition(p, "ready", "keep", "saving", "idle")
       \/ Free(p) /\ seen[p] # "unbound" /\ Go(p, "saving")
    /\ Keeps(p)

(* The Agent row; another request with the same key may have made its own.  *)
Save(p) ==
    /\ At(p, "saving")
    /\ IF op[p] = "create" /\ created # Nobody
       THEN Go(p, "idle") /\ UNCHANGED Request
       ELSE /\ Go(p, "checking")
            /\ agents' = agents \cup {inst[p]}
            /\ created' = IF op[p] = "create" THEN inst[p] ELSE created
    /\ UNCHANGED <<Row, Binding, lock, Env>>

Attach(p) ==
    /\ At(p, "attaching")
    /\ \/ status = "deleted" /\ Throw(p)
       \/ /\ status = "unbound"
          /\ Transition(p, "ready", "keep", "checking", "idle")
       \/ status \notin {"deleted", "unbound"} /\ Go(p, "checking")
    /\ Keeps(p)

Check(p) ==
    /\ At(p, "checking")
    /\ IF ref /\ status = "ready" /\ Free(p) THEN Go(p, "binding") ELSE Throw(p)
    /\ Keeps(p)

(* bindPrimary takes the lock and reads the status ... *)
BindRead(p) ==
    /\ At(p, "binding") /\ LockFree
    /\ \/ /\ status = "ready"
          /\ lock' = p
          /\ Go(p, "binding_locked")
       \/ /\ status # "ready"
          /\ Throw(p)
          /\ UNCHANGED lock
    /\ UNCHANGED <<Row, Binding, Request, Env>>

(* ... and inserts; a unique index allows one active primary binding. *)
BindWrite(p) ==
    /\ At(p, "binding_locked")
    /\ Unlock(p)
    /\ \/ /\ bound = Nobody
          /\ bound' = inst[p]
          /\ \/ /\ op[p] = "attach"
                /\ binder' = Nobody
                /\ Go(p, "idle")
             \/ /\ op[p] # "attach"
                /\ binder' = p
                /\ Go(p, "queueing")
       \/ /\ bound # Nobody
          /\ Throw(p)
          /\ UNCHANGED Binding
    /\ UNCHANGED <<Row, Request, Env>>

(* The access policies, the lifecycle operation and its job: the request is *)
(* accepted, or one of them fails.                                          *)
Queue(p) ==
    /\ At(p, "queueing")
    /\ Go(p, "idle")
    /\ Release(p)
    /\ UNCHANGED <<Row, bound, Request, lock, Env>>

-----------------------------------------------------------------------------
(* create() undoes what it did. *)

(* Mutant: only the Memory and the Agent row are taken back. *)
UnprepareMemory(p) ==
    /\ At(p, "unpreparing")
    /\ Go(p, "undoing")
    /\ UNCHANGED <<Row, Binding, Request, lock, Env>>

(* rollbackBinding deletes the request's own binding row. *)
Unprepare(p) ==
    /\ At(p, "unpreparing")
    /\ IF binder = p THEN bound' = Nobody /\ binder' = Nobody
       ELSE UNCHANGED Binding
    /\ Go(p, "undoing")
    /\ UNCHANGED <<Row, Request, lock, Env>>

(* A new Memory is deleted; one that was there is unbound again. *)
Undo(p) ==
    /\ At(p, "undoing")
    /\ \/ op[p] = "create" /\ Go(p, "delete_reading")
       \/ /\ op[p] # "create" /\ status = "ready"
          /\ Transition(p, "unbound", "keep", "forgetting", "forgetting")
       \/ op[p] # "create" /\ status # "ready" /\ Go(p, "forgetting")
    /\ Keeps(p)

(* hardDelete of the request's Agent row *)
Forget(p) ==
    /\ At(p, "forgetting")
    /\ agents' = agents \ {inst[p]}
    /\ created' = IF created = inst[p] THEN Nobody ELSE created
    /\ Go(p, "idle")
    /\ UNCHANGED <<Row, Binding, lock, Env>>

-----------------------------------------------------------------------------
(* detachFromAgent, detachBinding *)

Detach(p) ==
    /\ At(p, "detaching")
    /\ \/ /\ bound = inst[p]
          /\ bound' = Nobody /\ binder' = Nobody
          /\ Go(p, "detached")
       \/ /\ bound # inst[p]
          /\ Go(p, AfterDetach(p))
          /\ UNCHANGED Binding
    /\ UNCHANGED <<Row, Request, lock, Env>>

Unbind(p) ==
    /\ At(p, "detached")
    /\ IF status \in {"ready", "degraded"}
       THEN Transition(p, "unbound", "keep", AfterDetach(p), "idle")
       ELSE Go(p, AfterDetach(p))
    /\ Keeps(p)

-----------------------------------------------------------------------------
(* retryProvisioning *)

BoundStatus == IF bound = Nobody THEN "unbound" ELSE "ready"

Retry(p) ==
    /\ At(p, "retrying")
    /\ \/ status \notin {"provisioning", "degraded"} /\ Throw(p)
       \/ /\ status \in {"provisioning", "degraded"}
          /\ Go(p, IF ref THEN "checking_health" ELSE "creating_bank")
    /\ Keeps(p)

CheckHealth(p) ==
    /\ At(p, "checking_health")
    /\ Go(p, "counting_bound")
    /\ Keeps(p)

CountBound(p) ==
    /\ At(p, "counting_bound")
    /\ Transition(p, BoundStatus, "keep", "asking", "idle")
    /\ Keeps(p)

CreateBank(p) ==
    /\ At(p, "creating_bank")
    /\ bank' = TRUE
    /\ Transition(p, "ready", "set", "asking", "idle")
    /\ UNCHANGED <<status, ref, Binding, Request, lock, Env>>

-----------------------------------------------------------------------------
(* delete *)

DeleteRead(p) ==
    /\ At(p, "delete_reading")
    /\ Go(p, IF status = "deleted" \/ ~ref THEN AfterDelete(p) ELSE "deleting")
    /\ Keeps(p)

(* startDeletion takes the lock and reads the status and the binding ... *)
DeletionRead(p) ==
    /\ At(p, "deleting") /\ LockFree
    /\ \/ /\ status = "deleting"
          /\ Go(p, "erasing")
          /\ UNCHANGED lock
       \/ /\ status # "deleting"
          /\ Allowed(status, "deleting") /\ bound = Nobody
          /\ lock' = p
          /\ Go(p, "deleting_locked")
       \/ /\ ~Allowed(status, "deleting") \/ (bound # Nobody /\ status # "deleting")
          /\ Throw(p)
          /\ UNCHANGED lock
    /\ UNCHANGED <<Row, Binding, Request, Env>>

(* ... and writes. *)
DeletionWrite(p) ==
    /\ At(p, "deleting_locked")
    /\ Unlock(p)
    /\ \/ /\ Writable("deleting")
          /\ status' = "deleting"
          /\ Go(p, "erasing")
       \/ /\ ~Writable("deleting")
          /\ Throw(p)
          /\ UNCHANGED status
    /\ UNCHANGED <<ref, bank, Binding, Request, Env>>

(* The provider verifies that the bank is gone. *)
Erase(p) ==
    /\ At(p, "erasing")
    /\ bank' = FALSE
    /\ Transition(p, "deleted", "clear", AfterDelete(p), "failing_deletion")
    /\ UNCHANGED <<status, ref, Binding, Request, lock, Env>>

FailDeletion(p) ==
    /\ At(p, "failing_deletion")
    /\ Transition(p, "deletion_failed", "keep", AfterDelete(p), AfterDelete(p))
    /\ Keeps(p)

-----------------------------------------------------------------------------
(* deleteForProjectCleanup *)

Clean(p) ==
    /\ At(p, "cleaning")
    /\ IF bound = Nobody THEN Go(p, "cleaning_row")
       ELSE Become(p, "detaching", op[p], bound, seen[p], NoMove)
    /\ Keeps(p)

(* Mutant: a Memory whose bank is not known is left to an operator. *)
CleanRowStrictly(p) ==
    /\ At(p, "cleaning_row")
    /\ IF status # "deleted" /\ ref THEN Go(p, "delete_reading") ELSE Go(p, "idle")
    /\ Keeps(p)

CleanRow(p) ==
    /\ At(p, "cleaning_row")
    /\ \/ status # "deleted" /\ ref /\ Go(p, "delete_reading")
       \/ ~ref /\ status \in {"provisioning", "degraded"} /\ Go(p, "retrying")
       \/ /\ IF ref THEN status = "deleted"
             ELSE status \notin {"provisioning", "degraded"}
          /\ Go(p, "idle")
    /\ Keeps(p)

CleanRetried(p) ==
    /\ At(p, "cleaned_row")
    /\ Go(p, IF ref THEN "delete_reading" ELSE "idle")
    /\ Keeps(p)

-----------------------------------------------------------------------------
(* recall, contentCountsOrNull and processDueOutbox *)

Readable(o) ==
    /\ ref /\ status # "deleted"
    /\ o = "recall" => status \in {"ready", "degraded"}
    /\ o \in Counting => status \notin {"provisioning", "deleting"}

Ask(p) ==
    /\ At(p, "asking")
    /\ \/ Readable(op[p]) /\ Remember(p, "observing")
       \/ /\ ~Readable(op[p])
          /\ op[p] \in Counting /\ status # "deleted"
          /\ Go(p, AfterCount(p))
       \/ /\ ~Readable(op[p])
          /\ op[p] \notin Counting \/ status = "deleted"
          /\ Throw(p)
    /\ Keeps(p)

(* The provider answers, or does not find the bank. *)
Observe(p) ==
    /\ At(p, "observing")
    /\ \/ ~bank /\ Throw(p)
       \/ /\ bank /\ op[p] = "recall" /\ seen[p] = "degraded"
          /\ Transition(p, "ready", "keep", "touching", "idle")
       \/ bank /\ op[p] = "recall" /\ seen[p] # "degraded" /\ Go(p, "touching")
       \/ bank /\ op[p] = "drain" /\ seen[p] = "degraded" /\ Go(p, "recovering")
       \/ /\ bank /\ op[p] # "recall"
          /\ op[p] = "drain" => seen[p] # "degraded"
          /\ Go(p, AfterCount(p))
    /\ Keeps(p)

(* recall stores when the Memory was last used. *)
Touch(p) ==
    /\ At(p, "touching")
    /\ Go(p, "idle")
    /\ Keeps(p)

Recover(p) ==
    /\ At(p, "recovering")
    /\ Transition(p, BoundStatus, "keep", "idle", "rechecking")
    /\ Keeps(p)

(* A drain that failed reads the Memory again. *)
Recheck(p) ==
    /\ At(p, "rechecking")
    /\ Go(p, IF status \in {"ready", "unbound"} THEN "degrading" ELSE "idle")
    /\ Keeps(p)

-----------------------------------------------------------------------------
Creation(p) == \/ Upsert(p) \/ Provision(p) \/ Degrade(p) \/ Adopt(p)
               \/ Resolve(p) \/ Save(p) \/ Attach(p) \/ Check(p) \/ BindRead(p)
               \/ BindWrite(p) \/ Queue(p)
Undoing(p)  == Unprepare(p) \/ Undo(p) \/ Forget(p) \/ Detach(p) \/ Unbind(p)
Retrying(p) == Retry(p) \/ CheckHealth(p) \/ CountBound(p) \/ CreateBank(p)
Deleting(p) == \/ DeleteRead(p) \/ DeletionRead(p) \/ DeletionWrite(p) \/ Erase(p)
               \/ FailDeletion(p) \/ Clean(p) \/ CleanRow(p) \/ CleanRetried(p)
Reading(p)  == Ask(p) \/ Observe(p) \/ Touch(p) \/ Recover(p) \/ Recheck(p)

Continue(p) == \/ MoveRead(p) \/ MoveWrite(p) \/ Creation(p) \/ Undoing(p)
               \/ Retrying(p) \/ Deleting(p) \/ Reading(p)

Next == \/ \E p \in Processes : Start(p) \/ Continue(p) \/ Fails(p) \/ Crash(p)
        \/ DeleteProject

Spec == Init /\ [][Next]_vars

(* A call that runs goes on, and the deletion job of a Project is repeated  *)
(* until its tombstone is gone.                                             *)
FairSpec == /\ Spec
            /\ \A p \in Processes : WF_vars(Continue(p)) /\ WF_vars(deleted /\ Start(p))

-----------------------------------------------------------------------------
(* A Memory that can be bound or has to be erased is one whose bank the     *)
(* Control plane can name (bindToAgent, delete).                            *)
UsableHasRef ==
    /\ status \in {"ready", "unbound", "deleting", "deletion_failed"} => ref
    /\ bound # Nobody => ref \/ status = "deleted"

(* bindPrimary and startDeletion decide one after the other: no binding     *)
(* becomes active on a Memory that is being deleted, and no deletion starts *)
(* under a binding.                                                         *)
DecisionsSerialized ==
    [][ /\ bound' \notin {bound, Nobody} => status # "deleting"
        /\ status # "deleting" /\ status' = "deleting" => bound' = Nobody ]_vars

(* The Agent an active binding names has a row: create() takes its binding  *)
(* back before its row.                                                     *)
BoundAgentExists == bound # Nobody => bound \in agents

(* Every Memory of a deleted Project is deleted in the end                  *)
(* (deleteForProjectCleanup).                                               *)
CleanupCompletes == deleted ~> status = "deleted"

(* An active binding is to a Memory that still has its bank: a deletion is  *)
(* refused under a binding (startDeletion,                                  *)
(* docs/durable-memory-implementation.md:145).  The code does not keep it:  *)
(* the status they decide on is written without their lock.                 *)
BoundBankExists == bound # Nobody => bank

(* A Memory is bound or it is unbound, as the metric counts them            *)
(* (memory-metrics.ts:225, detachFromAgent).  The code does not keep it.    *)
BoundIsNotUnbound == bound # Nobody => status # "unbound"

(* The deletion of a Project leaves no bank of its Memories behind          *)
(* (docs/durable-memory-implementation.md:289, deleteForProjectCleanup).    *)
(* The code does not keep it: a retry creates the bank afterwards.          *)
CleanupLeavesNoBank == deleted /\ status = "deleted" => ~bank
=============================================================================
