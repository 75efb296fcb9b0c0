--------------------------- MODULE InstanceLifecycle ---------------------------
(***************************************************************************)
(* One Agent Instance from its creation to its deletion: the row with its  *)
(* status and the virtual key it records, the key at LiteLLM, the Sandbox  *)
(* behind the Runner, the two lifecycle jobs, and the calls that read the  *)
(* row, talk to somebody else and then write the whole row back:           *)
(*                                                                         *)
(*   - the request that creates it,                                        *)
(*   - requests that delete it, look at it (refresh) or change its access  *)
(*     policies,                                                           *)
(*   - the worker, which runs one job of the Instance at a time,           *)
(*   - maintenance, which attaches a job to a row that has lost its own.   *)
(*                                                                         *)
(* One step is one database statement or one call of LiteLLM, of the       *)
(* Runner or of the queue.                                                 *)
(***************************************************************************)
EXTENDS SandboxRunner, FiniteSets

CONSTANTS
    Requests,    \* delete, refresh and policy requests
    Methods,     \* bound: which of those this instance of the model has
    RetryLimit,  \* [Actions -> retryLimit]: 25 in the code
    Events       \* bound: requests, calls that fail and processes that die

Actions == {"provision", "delete"}

Creator == "creator"
Worker  == "worker"
Callers == Requests \cup {Creator, Worker}

ASSUME LifecycleAssumption ==
    /\ Requests \cap {Creator, Worker} = {}
    /\ Methods \subseteq {"destroy", "refresh", "policies"}
    /\ RetryLimit \in [Actions -> Nat] /\ Events \in Nat

VARIABLES
    exists,    \* there is a row
    removed,   \* its deletedAt is set
    row,       \* its payload
    keys,      \* [Keys -> state of the virtual key at LiteLLM]
    job,       \* [Actions -> the job of that singleton key]
    tries,     \* [Actions -> retryCount of that job]
    pc,        \* [Callers -> the next step of the call]
    seen,      \* [Callers -> the payload the call holds]
    key,       \* the key this attempt of the worker made
    events,    \* requests and faults so far
    accepted,  \* history: a deletion was answered with 202
    undone,    \* history: a deletion that failed put the row back
    untracked  \* history: the Runner lost track of a provision task

record  == <<exists, removed, row>>
queue   == <<job, tries>>
control == <<pc, seen>>
history == <<accepted, undone, untracked>>
vars == <<runner, record, keys, queue, control, key, events, history>>

-----------------------------------------------------------------------------
Payload == [status : {"PROVISIONING", "READY", "FAILED", "DESTROYING"},
            token  : Keys \cup {Nobody},  \* liteLLMTokenId
            lost   : BOOLEAN,             \* runtimePhase is NOT_FOUND
            done   : BOOLEAN]             \* deletionCompletedAt is set

Fresh == [status |-> "PROVISIONING", token |-> Nobody, lost |-> FALSE,
          done |-> FALSE]

Provision == {"reading", "accepting", "observing", "waiting", "settling",
              "clearing", "cleared", "revoking", "unkeying", "recovering", "keying",
              "recording", "posting", "noting", "undoing_key", "undoing_row",
              "failing", "failing_row"}
Deletion  == {"deleting", "destroying", "destroyed", "blocking", "completing",
              "retrying", "retrying_row"}
Creation  == {"saving", "enqueueing", "attaching", "forgetting"}
Destroy   == {"d_marking", "d_removing", "d_enqueueing",
              "d_rereading", "d_recording", "d_restoring", "d_unmarking"}
Refresh   == {"f_looking", "f_remembering", "f_saving"}
Policies  == {"p_permitting", "p_saving"}

TypeOK ==
    /\ RunnerTypeOK
    /\ exists \in BOOLEAN /\ removed \in BOOLEAN
    /\ row \in Payload
    /\ keys \in [Keys -> {"none", "live", "blocked"}]
    /\ job \in [Actions -> {"none", "waiting", "active"}]
    /\ tries \in [Actions -> Nat]
    /\ pc \in [Callers -> {"new", "idle"} \cup Provision \cup Deletion
                 \cup Creation \cup Destroy \cup Refresh \cup Policies]
    /\ seen \in [Callers -> Payload]
    /\ key \in Keys \cup {Nobody}
    /\ events \in 0 .. Events
    /\ accepted \in BOOLEAN /\ undone \in BOOLEAN /\ untracked \in BOOLEAN

Init ==
    /\ RunnerInit
    /\ exists = FALSE /\ removed = FALSE /\ row = Fresh
    /\ keys = [k \in Keys |-> "none"]
    /\ job = [a \in Actions |-> "none"] /\ tries = [a \in Actions |-> 0]
    /\ pc = [c \in Callers |-> IF c = Worker THEN "idle" ELSE "new"]
    /\ seen = [c \in Callers |-> Fresh]
    /\ key = Nobody
    /\ events = 0
    /\ accepted = FALSE /\ undone = FALSE /\ untracked = FALSE

-----------------------------------------------------------------------------
(* Steps of a call *)

At(c, place) == pc[c] = place

Spend == events < Events /\ events' = events + 1

(* The payload a call holds is dropped with the call. *)
Become(c, place, payload) ==
    /\ pc' = [pc EXCEPT ![c] = place]
    /\ seen' = [seen EXCEPT ![c] = IF place = "idle" THEN Fresh ELSE payload]

Go(c, place) == Become(c, place, seen[c])

Live == exists /\ ~removed

(* ProjectStore.save: the whole payload, by id alone. *)
Save(payload) ==
    /\ exists
    /\ row' = payload
    /\ UNCHANGED <<exists, removed>>

(* An exclusive queue takes no second job of a singleton key, whether the   *)
(* first one waits or runs.                                                 *)
Send(a) ==
    /\ job[a] = "none"
    /\ job' = [job EXCEPT ![a] = "waiting"]
    /\ UNCHANGED tries

Refused(a) == job[a] # "none"

(* The worker's job ends, or goes back to the queue for another attempt.    *)
Finished(a) ==
    /\ job' = [job EXCEPT ![a] = "none"]
    /\ tries' = [tries EXCEPT ![a] = 0]

Last(a) == tries[a] >= RetryLimit[a]

Failed(a) ==
    IF Last(a) THEN Finished(a)
    ELSE /\ job' = [job EXCEPT ![a] = "waiting"]
         /\ tries' = [tries EXCEPT ![a] = @ + 1]

Running(a) == job[a] = "active"

Succeed(a) ==
    /\ Become(Worker, "idle", Fresh) /\ key' = Nobody
    /\ Finished(a)

GiveUp(a) ==
    /\ Become(Worker, "idle", Fresh) /\ key' = Nobody
    /\ Failed(a)

(* applyObservedState *)
Apply(payload, phase) ==
    [payload EXCEPT
        !.status = IF phase = "NOT_FOUND"
                     THEN IF @ = "PROVISIONING" THEN @ ELSE "FAILED"
                     ELSE phase,
        !.lost = phase = "NOT_FOUND"]

WithoutKey(payload) == [payload EXCEPT !.token = Nobody]
WithStatus(payload, status) == [payload EXCEPT !.status = status]

(* Where a call goes on when one of its steps throws. *)
Undo == IF key = Nobody THEN "undoing_row" ELSE "undoing_key"

Handler(place) ==
    CASE place \in {"reading", "accepting", "observing", "clearing",
                    "cleared", "revoking", "unkeying"} -> "failing"
      [] place \in {"waiting", "settling"}         -> IF key = Nobody
                                                      THEN "failing" ELSE Undo
      [] place \in {"recovering", "keying", "recording", "posting",
                    "noting"}                      -> Undo
      [] place = "undoing_key"                     -> "undoing_row"
      [] place = "undoing_row"                     -> "failing"
      [] place \in {"deleting", "destroying", "destroyed", "blocking",
                    "completing"}                  -> "retrying"
      [] place \in {"enqueueing", "attaching"}     -> "forgetting"
      [] place \in {"d_removing", "d_enqueueing", "d_rereading"}
                                                   -> "d_restoring"
      [] place = "d_restoring"                     -> "d_unmarking"
      [] OTHER                                     -> "idle"

(* The handler of a failed attempt fails as well: the job fails with it.    *)
Throw(c) ==
    IF At(c, "failing") \/ At(c, "failing_row") THEN GiveUp("provision")
    ELSE IF At(c, "retrying") \/ At(c, "retrying_row") THEN GiveUp("delete")
    ELSE /\ Go(c, Handler(pc[c]))
         /\ UNCHANGED <<queue, key>>

(* A write to a row that is gone throws. *)
SaveThrows(c) ==
    /\ ~exists
    /\ Throw(c)
    /\ UNCHANGED record

-----------------------------------------------------------------------------
(* InstanceService.create *)

CreateSave ==
    /\ At(Creator, "new")
    /\ exists' = TRUE /\ removed' = FALSE /\ row' = Fresh
    /\ Go(Creator, "enqueueing")
    /\ UNCHANGED <<runner, keys, queue, key, events, history>>

CreateEnqueue ==
    /\ At(Creator, "enqueueing")
    /\ \/ Send("provision") /\ Go(Creator, "attaching")
       \/ Refused("provision") /\ Go(Creator, "forgetting") /\ UNCHANGED queue
    /\ UNCHANGED <<runner, record, keys, key, events, history>>

(* The payload of the request is written once more, with the operation. *)
CreateAttach ==
    /\ At(Creator, "attaching")
    /\ Save(Fresh)
    /\ Go(Creator, "idle")
    /\ UNCHANGED <<runner, keys, queue, key, events, history>>

CreateForget ==
    /\ At(Creator, "forgetting")
    /\ exists' = FALSE /\ removed' = FALSE /\ row' = Fresh
    /\ Go(Creator, "idle")
    /\ UNCHANGED <<runner, keys, queue, key, events, history>>

Create == CreateSave \/ CreateEnqueue \/ CreateAttach \/ CreateForget

-----------------------------------------------------------------------------
(* The worker: InstanceService.provision *)

Take(a) ==
    /\ At(Worker, "idle")
    /\ job[a] = "waiting"
    /\ job' = [job EXCEPT ![a] = "active"]
    /\ Go(Worker, IF a = "provision" THEN "reading" ELSE "deleting")
    /\ UNCHANGED <<runner, record, keys, tries, key, events, history>>

(* Mutant: a job finds its Instance whether it is deleted or not. *)
ReadDeleted ==
    /\ At(Worker, "reading")
    /\ IF ~exists \/ (row.status = "READY" /\ row.token # Nobody)
       THEN Succeed("provision")
       ELSE Become(Worker, "accepting", row) /\ UNCHANGED <<queue, key>>
    /\ UNCHANGED <<runner, record, keys, events, history>>

Read ==
    /\ At(Worker, "reading")
    /\ IF \/ ~Live
          \/ row.status = "DESTROYING"
          \/ row.status = "READY" /\ row.token # Nobody
       THEN Succeed("provision")
       ELSE Become(Worker, "accepting", row) /\ UNCHANGED <<queue, key>>
    /\ UNCHANGED <<runner, record, keys, events, history>>

Accept ==
    /\ At(Worker, "accepting")
    /\ \/ LET agent == WithStatus(seen[Worker], "PROVISIONING")
          IN  Save(agent) /\ Become(Worker, "observing", agent)
              /\ UNCHANGED <<queue, key>>
       \/ SaveThrows(Worker)
    /\ UNCHANGED <<runner, keys, events, history>>

(* Mutant: without a key on record there is nothing to clear. *)
ObserveKeyed ==
    /\ At(Worker, "observing")
    /\ Get
    /\ LET keyed == seen[Worker].token # Nobody
       IN  \/ keyed /\ Phase = "READY"
              /\ Become(Worker, "settling", Apply(seen[Worker], Phase))
           \/ keyed /\ Phase = "PROVISIONING" /\ Go(Worker, "waiting")
           \/ keyed /\ Phase \in {"NOT_FOUND", "FAILED"}
              /\ Go(Worker, "clearing")
           \/ ~keyed /\ Go(Worker, "recovering")
    /\ UNCHANGED <<record, keys, queue, key, events, history>>

(* An Instance that has its key keeps its Sandbox if it runs or is about to; *)
(* otherwise both are replaced.                                              *)
Observe ==
    /\ At(Worker, "observing")
    /\ Get
    /\ LET keyed == seen[Worker].token # Nobody
       IN  \/ keyed /\ Phase = "READY"
              /\ Become(Worker, "settling", Apply(seen[Worker], Phase))
           \/ keyed /\ Phase = "PROVISIONING" /\ Go(Worker, "waiting")
           \/ Phase = "NOT_FOUND"
              /\ Go(Worker, IF keyed THEN "revoking" ELSE "recovering")
           \/ /\ Phase # "NOT_FOUND"
              /\ ~(keyed /\ Phase \in {"READY", "PROVISIONING"})
              /\ Go(Worker, "clearing")
    /\ UNCHANGED <<record, keys, queue, key, events, history>>

Wait ==
    /\ At(Worker, "waiting")
    /\ Phase \in {"READY", "FAILED"}
    /\ Get
    /\ Become(Worker, "settling", Apply(seen[Worker], Phase))
    /\ UNCHANGED <<record, keys, queue, key, events, history>>

(* Nothing is under way any more: the deadline of the poll ends it. *)
WaitTimesOut ==
    /\ At(Worker, "waiting")
    /\ Phase \notin {"READY", "FAILED"}
    /\ ~Provisioning /\ sandbox \notin {"provisioning", "deleting"}
    /\ Throw(Worker)
    /\ UNCHANGED <<runner, record, keys, events, history>>

Settle ==
    /\ At(Worker, "settling")
    /\ \/ /\ Save(seen[Worker])
          /\ \/ seen[Worker].status = "READY" /\ Succeed("provision")
             \/ /\ seen[Worker].status # "READY"
                /\ Go(Worker, IF key = Nobody THEN "clearing" ELSE Undo)
                /\ UNCHANGED <<queue, key>>
       \/ SaveThrows(Worker)
    /\ UNCHANGED <<runner, keys, events, history>>

(* DELETE at the Runner.  Control waits for the answer; the history notes a *)
(* provision task beside it, which is not stopped.                          *)
DestroySandbox(waiting) ==
    /\ Delete
    /\ untracked' = (untracked \/ Provisioning)
    /\ Go(Worker, waiting)
    /\ UNCHANGED <<record, keys, queue, key, events, accepted, undone>>

Destroyed(next) ==
    /\ \/ removal = "done" /\ Go(Worker, next) /\ UNCHANGED <<queue, key>>
       \/ removal = "failed" /\ Throw(Worker)
    /\ UNCHANGED <<runner, record, keys, events, history>>

Clear == At(Worker, "clearing") /\ DestroySandbox("cleared")

Cleared ==
    /\ At(Worker, "cleared")
    /\ Destroyed(IF seen[Worker].token # Nobody THEN "revoking"
                 ELSE "recovering")

(* A key that is gone already counts as deleted. *)
Revoke ==
    /\ At(Worker, "revoking")
    /\ keys' = [keys EXCEPT ![seen[Worker].token] = "none"]
    /\ Go(Worker, "unkeying")
    /\ UNCHANGED <<runner, record, queue, key, events, history>>

Unkey ==
    /\ At(Worker, "unkeying")
    /\ \/ LET agent == WithoutKey(seen[Worker])
          IN  Save(agent) /\ Become(Worker, "recovering", agent)
              /\ UNCHANGED <<queue, key>>
       \/ SaveThrows(Worker)
    /\ UNCHANGED <<runner, keys, events, history>>

(* revokeUnboundInstanceKey: the keys that carry the alias of the Instance. *)
Listed == {k \in Keys : keys[k] \in {"live", "blocked"}}

(* Mutant: only the recorded key is revoked before another is made. *)
RecoverRecorded ==
    /\ At(Worker, "recovering")
    /\ Go(Worker, "keying")
    /\ UNCHANGED <<runner, record, keys, queue, key, events, history>>

Recover ==
    /\ At(Worker, "recovering")
    /\ \/ /\ Cardinality(Listed) <= 1
          /\ keys' = [k \in Keys |-> IF k \in Listed THEN "none" ELSE keys[k]]
          /\ Go(Worker, "keying") /\ UNCHANGED <<queue, key>>
       \/ /\ Cardinality(Listed) > 1
          /\ Throw(Worker) /\ UNCHANGED keys
    /\ UNCHANGED <<runner, record, events, history>>

(* Every key is a new one; the model names it after one that is gone and     *)
(* that nobody holds any more.                                               *)
Spare ==
    {k \in Keys : keys[k] = "none"}
        \ ({row.token, key, provider} \cup {seen[c].token : c \in Callers}
             \cup {k \in Keys : task[k] # "none"})

Generate(k) ==
    /\ k \in Spare /\ \A other \in Spare : k <= other
    /\ keys' = [keys EXCEPT ![k] = "live"]

MakeKey(k) ==
    /\ At(Worker, "keying")
    /\ Generate(k)
    /\ key' = k
    /\ Go(Worker, "recording")
    /\ UNCHANGED <<runner, record, queue, events, history>>

Record ==
    /\ At(Worker, "recording")
    /\ \/ LET agent == [seen[Worker] EXCEPT !.token = key]
          IN  Save(agent) /\ Become(Worker, "posting", agent)
              /\ UNCHANGED <<queue, key>>
       \/ SaveThrows(Worker)
    /\ UNCHANGED <<runner, keys, events, history>>

StartSandbox ==
    /\ Post(key)
    /\ untracked' = (untracked \/ removal = "running")
    /\ UNCHANGED <<accepted, undone>>

PostSandbox ==
    /\ At(Worker, "posting")
    /\ \/ /\ StartSandbox
          /\ Become(Worker, "noting", Apply(seen[Worker], "PROVISIONING"))
          /\ UNCHANGED <<queue, key>>
       \/ /\ local # "NOT_FOUND"
          /\ Throw(Worker) /\ UNCHANGED <<runner, history>>
    /\ UNCHANGED <<record, keys, events>>

Note ==
    /\ At(Worker, "noting")
    /\ \/ Save(seen[Worker]) /\ Go(Worker, "waiting") /\ UNCHANGED <<queue, key>>
       \/ SaveThrows(Worker)
    /\ UNCHANGED <<runner, keys, events, history>>

(* A failed attempt deletes the key it made. *)
UndoKey ==
    /\ At(Worker, "undoing_key")
    /\ keys' = [keys EXCEPT ![key] = "none"]
    /\ Go(Worker, "undoing_row")
    /\ UNCHANGED <<runner, record, queue, key, events, history>>

UndoRow ==
    /\ At(Worker, "undoing_row")
    /\ \/ Save(WithoutKey(seen[Worker]))
       \/ ~exists /\ UNCHANGED record
    /\ Go(Worker, "failing")
    /\ UNCHANGED <<runner, keys, queue, key, events, history>>

(* recordProvisioningFailure *)
FailRead ==
    /\ At(Worker, "failing")
    /\ IF ~Live \/ row.status = "DESTROYING"
       THEN GiveUp("provision")
       ELSE Become(Worker, "failing_row", row) /\ UNCHANGED <<queue, key>>
    /\ UNCHANGED <<runner, record, keys, events, history>>

FailSave ==
    /\ At(Worker, "failing_row")
    /\ \/ /\ Save(WithStatus(seen[Worker], IF Last("provision") THEN "FAILED"
                                           ELSE "PROVISIONING"))
          /\ GiveUp("provision")
       \/ SaveThrows(Worker)
    /\ UNCHANGED <<runner, keys, events, history>>

ProvisionStep ==
    \/ Read \/ Accept \/ Observe \/ Wait \/ WaitTimesOut \/ Settle \/ Clear
    \/ Cleared \/ Revoke \/ Unkey \/ Recover \/ (\E k \in Keys : MakeKey(k)) \/ Record
    \/ PostSandbox \/ Note \/ UndoKey \/ UndoRow \/ FailRead \/ FailSave

-----------------------------------------------------------------------------
(* The worker: InstanceService.deleteRuntime *)

(* Mutant: only a row that says so is deleted. *)
DeleteReadMarked ==
    /\ At(Worker, "deleting")
    /\ IF ~exists \/ row.done \/ row.status # "DESTROYING"
       THEN Succeed("delete")
       ELSE Become(Worker, "destroying", row) /\ UNCHANGED <<queue, key>>
    /\ UNCHANGED <<runner, record, keys, events, history>>

DeleteRead ==
    /\ At(Worker, "deleting")
    /\ IF ~exists \/ row.done
       THEN Succeed("delete")
       ELSE Become(Worker, "destroying", row) /\ UNCHANGED <<queue, key>>
    /\ UNCHANGED <<runner, record, keys, events, history>>

DeleteSandbox == At(Worker, "destroying") /\ DestroySandbox("destroyed")

SandboxDeleted == At(Worker, "destroyed") /\ Destroyed("blocking")

(* The key is blocked, not deleted: its record is kept for billing.         *)
Block ==
    /\ At(Worker, "blocking")
    /\ keys' = [k \in Keys |->
                  IF k = seen[Worker].token /\ keys[k] = "live" THEN "blocked"
                  ELSE keys[k]]
    /\ Go(Worker, "completing")
    /\ UNCHANGED <<runner, record, queue, key, events, history>>

Complete ==
    /\ At(Worker, "completing")
    /\ \/ Save([seen[Worker] EXCEPT !.done = TRUE]) /\ Succeed("delete")
       \/ SaveThrows(Worker)
    /\ UNCHANGED <<runner, keys, events, history>>

(* recordDeletionFailure *)
RetryRead ==
    /\ At(Worker, "retrying")
    /\ IF ~exists THEN GiveUp("delete")
       ELSE Become(Worker, "retrying_row", row) /\ UNCHANGED <<queue, key>>
    /\ UNCHANGED <<runner, record, keys, events, history>>

RetrySave ==
    /\ At(Worker, "retrying_row")
    /\ \/ Save(WithStatus(seen[Worker], "DESTROYING")) /\ GiveUp("delete")
       \/ SaveThrows(Worker)
    /\ UNCHANGED <<runner, keys, events, history>>

DeletionStep == DeleteRead \/ DeleteSandbox \/ SandboxDeleted \/ Block
                  \/ Complete \/ RetryRead \/ RetrySave

-----------------------------------------------------------------------------
(* Requests: InstanceService.destroy *)

Destroying(c) ==
    /\ "destroy" \in Methods /\ Spend
    /\ At(c, "new")
    /\ Live
    /\ Become(c, IF row.status = "DESTROYING" THEN "d_removing" ELSE "d_marking",
              row)
    /\ UNCHANGED <<runner, record, keys, queue, key, history>>

Mark(c) ==
    /\ At(c, "d_marking")
    /\ \/ Save(WithStatus(seen[c], "DESTROYING")) /\ Go(c, "d_removing")
          /\ UNCHANGED <<queue, key>>
       \/ SaveThrows(c)
    /\ UNCHANGED <<runner, keys, events, history>>

SoftDelete(c) ==
    /\ At(c, "d_removing")
    /\ removed' = exists
    /\ Go(c, "d_enqueueing")
    /\ UNCHANGED <<runner, exists, row, keys, queue, key, events, history>>

DestroyEnqueue(c) ==
    /\ At(c, "d_enqueueing")
    /\ \/ Send("delete") /\ Go(c, "d_rereading")
       \/ Refused("delete") /\ Go(c, "d_restoring") /\ UNCHANGED queue
    /\ UNCHANGED <<runner, record, keys, key, events, history>>

(* The service remembers the operation in the row it now finds.  That the   *)
(* read, or the statement before it, fails stands for the write as well.    *)
Answer(c) == accepted' = TRUE /\ UNCHANGED <<undone, untracked>>

DestroyReread(c) ==
    /\ At(c, "d_rereading")
    /\ IF exists THEN Become(c, "d_recording", row) /\ UNCHANGED history
       ELSE Go(c, "idle") /\ Answer(c)
    /\ UNCHANGED <<runner, record, keys, queue, key, events>>

DestroyRecord(c) ==
    /\ At(c, "d_recording")
    /\ \/ Save(seen[c]) /\ Go(c, "idle") /\ Answer(c) /\ UNCHANGED <<queue, key>>
       \/ SaveThrows(c) /\ UNCHANGED history
    /\ UNCHANGED <<runner, keys, events>>

Restore(c) ==
    /\ At(c, "d_restoring")
    /\ removed' = FALSE
    /\ undone' = (undone \/ exists)
    /\ Go(c, "d_unmarking")
    /\ UNCHANGED <<runner, exists, row, keys, queue, key, events, accepted,
                   untracked>>

Unmark(c) ==
    /\ At(c, "d_unmarking")
    /\ \/ Save(seen[c]) \/ (~exists /\ UNCHANGED record)
    /\ Go(c, "idle")
    /\ UNCHANGED <<runner, keys, queue, key, events, history>>

DestroyStep(c) == Mark(c) \/ SoftDelete(c) \/ DestroyEnqueue(c)
                    \/ DestroyReread(c) \/ DestroyRecord(c) \/ Restore(c)
                    \/ Unmark(c)

-----------------------------------------------------------------------------
(* Requests: InstanceService.refresh, updateAccessPolicies *)

(* Without a key the Runner is not asked: readiness alone must not finish an *)
(* attempt whose key was taken back.                                         *)
Look(c) ==
    /\ "refresh" \in Methods /\ Spend
    /\ At(c, "new")
    /\ Live
    /\ \/ row.status # "DESTROYING" /\ row.token # Nobody
          /\ Become(c, "f_looking", row)
       \/ row.status = "READY" /\ row.token = Nobody
          /\ Become(c, "f_saving", WithStatus(row, "PROVISIONING"))
    /\ UNCHANGED <<runner, record, keys, queue, key, history>>

(* While a task runs the Runner answers from memory; otherwise it asks       *)
(* OpenShell first and remembers the answer later.                           *)
LookAtSandbox(c) ==
    /\ At(c, "f_looking")
    /\ Become(c, IF active THEN "f_saving" ELSE "f_remembering",
              Apply(seen[c], Phase))
    /\ UNCHANGED <<runner, record, keys, queue, key, events, history>>

RememberLook(c) ==
    /\ At(c, "f_remembering")
    /\ Remember(IF seen[c].lost THEN "NOT_FOUND" ELSE seen[c].status)
    /\ untracked' = (untracked \/ active)
    /\ Go(c, "f_saving")
    /\ UNCHANGED <<record, keys, queue, key, events, accepted, undone>>

SaveLook(c) ==
    /\ At(c, "f_saving")
    /\ \/ Save(seen[c]) /\ Go(c, "idle") /\ UNCHANGED <<queue, key>>
       \/ SaveThrows(c)
    /\ UNCHANGED <<runner, keys, events, history>>

(* The policies themselves are left out; the row goes through the call.     *)
Permit(c) ==
    /\ "policies" \in Methods /\ Spend
    /\ At(c, "new")
    /\ Live
    /\ Become(c, IF row.token # Nobody THEN "p_permitting" ELSE "p_saving", row)
    /\ UNCHANGED <<runner, record, keys, queue, key, history>>

PermitKey(c) ==
    /\ At(c, "p_permitting")
    /\ \/ keys[seen[c].token] # "none" /\ Go(c, "p_saving")
          /\ UNCHANGED <<queue, key>>
       \/ keys[seen[c].token] = "none" /\ Throw(c)
    /\ UNCHANGED <<runner, record, keys, events, history>>

SavePolicies(c) ==
    /\ At(c, "p_saving")
    /\ \/ Save(seen[c]) /\ Go(c, "idle") /\ UNCHANGED <<queue, key>>
       \/ SaveThrows(c)
    /\ UNCHANGED <<runner, keys, events, history>>

RequestStep(c) == DestroyStep(c) \/ LookAtSandbox(c) \/ RememberLook(c)
                    \/ SaveLook(c) \/ PermitKey(c) \/ SavePolicies(c)

Request(c) == Destroying(c) \/ Look(c) \/ Permit(c)

-----------------------------------------------------------------------------
(* Maintenance: attachInstanceLifecycleJobs *)

(* Mutant: a row in provisioning has its job. *)
WantedFailed ==
    CASE Live /\ row.status = "FAILED" /\ row.lost -> "provision"
      [] exists /\ removed /\ row.status = "DESTROYING" /\ ~row.done -> "delete"
      [] OTHER -> "none"

Wanted ==
    CASE Live /\ \/ row.status = "PROVISIONING"
                 \/ row.status = "FAILED" /\ row.lost -> "provision"
      [] exists /\ removed /\ row.status = "DESTROYING" /\ ~row.done -> "delete"
      [] OTHER -> "none"

(* Reading the row and sending the job are one step: a job sent late reads   *)
(* the row again.                                                            *)
Attach ==
    /\ Wanted \in Actions
    /\ Send(Wanted)
    /\ UNCHANGED <<runner, record, keys, control, key, events, history>>

-----------------------------------------------------------------------------
(* Faults *)

Busy(c) == pc[c] \notin {"new", "idle"}

(* A call throws, without having done anything, or Control stops waiting.   *)
Fails(c) ==
    /\ Spend
    /\ Busy(c) /\ pc[c] # "d_recording"
    /\ Throw(c)
    /\ UNCHANGED <<runner, record, keys, history>>

(* The call was carried out, its answer is lost. *)
AnswerLost ==
    /\ Spend
    /\ \/ At(Worker, "keying") /\ (\E k \in Keys : Generate(k))
          /\ UNCHANGED <<runner, history>>
       \/ At(Worker, "posting") /\ StartSandbox /\ UNCHANGED keys
    /\ Throw(Worker)
    /\ UNCHANGED record

(* The process dies; pg-boss hands the worker's job out again. *)
Crash(c) ==
    /\ Spend
    /\ Busy(c)
    /\ IF c = Worker
       THEN \E a \in Actions : Running(a) /\ GiveUp(a)
       ELSE Go(c, "idle") /\ UNCHANGED <<queue, key>>
    /\ UNCHANGED <<runner, record, keys, history>>

Control == <<record, keys, queue, control, key, history>>

RuntimeFault ==
    /\ Spend
    /\ Breaks \/ Restart \/ DeleteFails \/ (\E k \in Keys : TimesOut(k))
    /\ UNCHANGED Control

-----------------------------------------------------------------------------
RuntimeStep == Boots \/ Vanishes \/ Deleted \/ DeleteGivesUp

Runtime ==
    /\ RuntimeStep \/ (\E k \in Keys : TaskStep(k))
    /\ UNCHANGED <<Control, events>>

Next ==
    \/ Create
    \/ \E a \in Actions : Take(a)
    \/ ProvisionStep
    \/ DeletionStep
    \/ \E c \in Requests : Request(c) \/ RequestStep(c)
    \/ Attach
    \/ \E c \in Callers : Fails(c) \/ Crash(c)
    \/ AnswerLost
    \/ Runtime
    \/ RuntimeFault

Spec == Init /\ [][Next]_vars

(* A call that is under way goes on, the worker takes jobs, maintenance      *)
(* scans every minute and OpenShell starts what it was asked to start.       *)
Fairness ==
    /\ WF_vars(Create)
    /\ \A a \in Actions : WF_vars(Take(a))
    /\ WF_vars(ProvisionStep \/ DeletionStep)
    /\ \A c \in Requests : WF_vars(RequestStep(c))
    /\ WF_vars(Attach)
    /\ WF_vars(Runtime)

FairSpec == Spec /\ Fairness

-----------------------------------------------------------------------------
(* Properties *)

(* An Instance never has two usable keys, whatever fails and whoever writes *)
(* an old row back: before a key is made, the recorded one is deleted and   *)
(* so is one that was made and never recorded.                              *)
OneLiveKey == Cardinality({k \in Keys : keys[k] = "live"}) <= 1

(* A key is only made when the previous Sandbox is gone: a test asks that    *)
(* keys are not recovered "until the previous runtime has been removed".     *)
(* The exception is a task that the Runner lost track of, because DELETE     *)
(* came beside it or a GET that began before it was remembered after it.     *)
NoKeyBesideRuntime ==
    [][ \A k \in Keys : keys[k] # "live" /\ keys'[k] = "live"
          => sandbox = "none" \/ untracked ]_vars

(* A deletion that completed left no Sandbox and no usable recorded key,     *)
(* whatever late writes came since, unless a deletion that failed half-way   *)
(* had put the row back or the Runner had lost track of a task.              *)
DeletionIsComplete ==
    exists /\ removed /\ row.done /\ ~undone /\ ~untracked =>
        /\ sandbox = "none" /\ ~Provisioning
        /\ row.token # Nobody => keys[row.token] # "live"

(* In the end an Instance whose deletion was accepted has no Sandbox, and    *)
(* none is on its way: the worker's retries outlast the faults, and          *)
(* maintenance finds a row whose job was lost.  A deletion that another one  *)
(* put back is excepted, as is a task that the Runner lost track of.         *)
DeletionHappens ==
    <>[](accepted /\ exists /\ ~undone /\ ~untracked
           => sandbox = "none" /\ ~Provisioning)

(* No Instance stays in provisioning: whatever wrote that status, and        *)
(* whether a job is left for it or not.                                      *)
ProvisioningAttended ==
    (Live /\ row.status = "PROVISIONING")
        ~> ~(Live /\ row.status = "PROVISIONING")
=============================================================================
