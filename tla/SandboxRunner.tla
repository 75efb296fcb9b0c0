----------------------------- MODULE SandboxRunner -----------------------------
(***************************************************************************)
(* The Runner in front of OpenShell, for the Sandbox of one Instance.  The *)
(* Runner keeps in memory what it last knew of the Sandbox and which       *)
(* Sandboxes it is provisioning.  POST starts a task that outlives the     *)
(* request: it creates the OpenShell Provider, which holds the virtual key *)
(* of the request, then the Sandbox, and waits until its services answer.  *)
(* GET and DELETE may come while the task runs, and DELETE does not stop   *)
(* it.  A DELETE goes on when the caller that waits for it dies.           *)
(*                                                                         *)
(* Sandbox and Provider are named after the Instance, so a task of a later *)
(* request finds what an earlier one made.  A task is identified by the    *)
(* key its request carried: every POST carries a new one.                  *)
(***************************************************************************)
EXTENDS Naturals

CONSTANTS
    MaxKeys,  \* bound: virtual keys of the Instance at a time
    Nobody    \* no key

ASSUME RunnerAssumption == MaxKeys \in Nat /\ Nobody \notin 1 .. MaxKeys

Keys == 1 .. MaxKeys

VARIABLES
    sandbox,   \* phase of the Sandbox in OpenShell, "none" when there is none
    provider,  \* the key the OpenShell Provider of the Instance holds
    local,     \* states.get(key): the phase the Runner remembers
    active,    \* activeProvisions.has(key)
    task,      \* [Keys -> where the provision task of that key is]
    removal    \* the DELETE that came last, and its answer

runner == <<sandbox, provider, local, active, task, removal>>

Phases == {"PROVISIONING", "READY", "FAILED", "DESTROYING", "NOT_FOUND"}

RunnerTypeOK ==
    /\ sandbox \in {"none", "provisioning", "ready", "failed", "deleting"}
    /\ provider \in Keys \cup {Nobody}
    /\ local \in Phases
    /\ active \in BOOLEAN
    /\ task \in [Keys -> {"none", "starting", "creating", "probing"}]
    /\ removal \in {"none", "running", "done", "failed"}

RunnerInit ==
    /\ sandbox = "none" /\ provider = Nobody
    /\ local = "NOT_FOUND" /\ active = FALSE
    /\ task = [k \in Keys |-> "none"] /\ removal = "none"

Provisioning == \E k \in Keys : task[k] # "none"

-----------------------------------------------------------------------------
(* Requests of Control.  "NOT_FOUND" in local is an entry that is missing.  *)

(* observedOpenShellPhase: a failed creation is remembered until there is a *)
(* Sandbox again, and one that is being deleted is taken for a new one.     *)
Observed ==
    CASE sandbox = "none"   -> IF local = "FAILED" THEN "FAILED" ELSE "NOT_FOUND"
      [] sandbox = "ready"  -> "READY"
      [] sandbox = "failed" -> "FAILED"
      [] sandbox \in {"provisioning", "deleting"} -> "PROVISIONING"

(* What GET answers *)
Phase == IF active THEN local ELSE Observed

(* It remembers what it saw in OpenShell, *)
Get ==
    /\ local' = Phase
    /\ UNCHANGED <<sandbox, provider, active, task, removal>>

(* which may have changed since. *)
Remember(phase) ==
    /\ local' = phase
    /\ UNCHANGED <<sandbox, provider, active, task, removal>>

(* POST is refused when the Runner remembers a Sandbox of this name.        *)
Post(k) ==
    /\ local = "NOT_FOUND"
    /\ local' = "PROVISIONING" /\ active' = TRUE
    /\ task' = [task EXCEPT ![k] = "starting"]
    /\ UNCHANGED <<sandbox, provider, removal>>

Delete ==
    /\ local' = "DESTROYING" /\ removal' = "running"
    /\ sandbox' = IF sandbox = "none" THEN "none" ELSE "deleting"
    /\ UNCHANGED <<provider, active, task>>

(* The Sandbox is gone: so is the Provider, and the Runner forgets them.    *)
Deleted ==
    /\ removal = "running" /\ sandbox = "none"
    /\ provider' = Nobody /\ local' = "NOT_FOUND" /\ removal' = "done"
    /\ UNCHANGED <<sandbox, active, task>>

DeleteFails ==
    /\ removal = "running" /\ removal' = "failed"
    /\ UNCHANGED <<sandbox, provider, local, active, task>>

(* It waits in vain when a task makes the Sandbox again. *)
DeleteGivesUp == sandbox \notin {"none", "deleting"} /\ DeleteFails

-----------------------------------------------------------------------------
(* The provision task *)

(* ensureInstanceProvider: a Provider that is there is taken as it is.      *)
TaskProvider(k) ==
    /\ task[k] = "starting"
    /\ task' = [task EXCEPT ![k] = "creating"]
    /\ provider' = IF provider = Nobody THEN k ELSE provider
    /\ UNCHANGED <<sandbox, local, active, removal>>

TaskCreate(k) ==
    /\ task[k] = "creating"
    /\ sandbox = "none" /\ provider # Nobody
    /\ task' = [task EXCEPT ![k] = "probing"]
    /\ sandbox' = "provisioning"
    /\ UNCHANGED <<provider, local, active, removal>>

(* The health gate answered. *)
TaskReady(k) ==
    /\ task[k] = "probing" /\ sandbox = "ready"
    /\ task' = [task EXCEPT ![k] = "none"]
    /\ local' = "READY" /\ active' = FALSE
    /\ UNCHANGED <<sandbox, provider, removal>>

(* A task that fails removes Sandbox and Provider, whoever made them.       *)
TaskEndsFailed(k) ==
    /\ task' = [task EXCEPT ![k] = "none"]
    /\ sandbox' = "none" /\ provider' = Nobody
    /\ local' = "FAILED" /\ active' = FALSE
    /\ UNCHANGED removal

(* The name is taken, the Provider is gone, the Sandbox failed or is gone.  *)
TaskFails(k) ==
    /\ \/ task[k] = "creating" /\ (sandbox # "none" \/ provider = Nobody)
       \/ task[k] = "probing" /\ sandbox \in {"failed", "none"}
    /\ TaskEndsFailed(k)

TaskStep(k) == \/ TaskProvider(k) \/ TaskCreate(k) \/ TaskReady(k)
               \/ TaskFails(k)

-----------------------------------------------------------------------------
(* OpenShell and the Runner's process *)

(* It is too slow for the task. *)
TimesOut(k) ==
    /\ task[k] = "probing" /\ sandbox \in {"provisioning", "deleting"}
    /\ TaskEndsFailed(k)

Boots ==
    /\ sandbox = "provisioning"
    /\ sandbox' = "ready"
    /\ UNCHANGED <<provider, local, active, task, removal>>

Vanishes ==
    /\ sandbox = "deleting"
    /\ sandbox' = "none"
    /\ UNCHANGED <<provider, local, active, task, removal>>

Breaks ==
    /\ sandbox \in {"provisioning", "ready"}
    /\ sandbox' = "failed"
    /\ UNCHANGED <<provider, local, active, task, removal>>

(* The Runner is killed: its memory, its tasks and its answers are lost.    *)
Restart ==
    /\ local' = "NOT_FOUND" /\ active' = FALSE
    /\ task' = [k \in Keys |-> "none"]
    /\ removal' = IF removal = "running" THEN "failed" ELSE removal
    /\ UNCHANGED <<sandbox, provider>>
=============================================================================
