----------------------------- MODULE A2aTombstones -----------------------------
(***************************************************************************)
(* One registered container Agent of the Agent Garden, its Instances and   *)
(* the resource operations that create and delete them.                    *)
(*                                                                         *)
(* A deletion is accepted in one transaction: it marks the rows deleted    *)
(* (tombstones), cancels the creations that are queued or running and      *)
(* queues its own cleanup.  The cleanup runs later, in the worker, under   *)
(* the lease of the Project that a creation holds as well; a creation that *)
(* was cancelled while it runs finds out at its next database write or at  *)
(* its next look before it touches the cluster.                            *)
(*                                                                         *)
(* The lease is the one of RuntimeTarget, here without its renewal: it     *)
(* lapses only when the handler that took it is dead.  An Instance is      *)
(* named after the operation that first made it.                           *)
(***************************************************************************)
EXTENDS Naturals, FiniteSets

CONSTANTS
    Operations,  \* resource operations
    Founder,     \* the one that onboards the Agent; it names the Agent
    RetryLimit,  \* 25 in the code
    Faults,      \* bound: steps that fail and processes that die
    Nobody

ASSUME TombstonesAssumption ==
    /\ Founder \in Operations /\ Nobody \notin Operations
    /\ RetryLimit \in Nat /\ Faults \in Nat

Creations == {"onboard", "discover", "instantiate"}
Removals  == {"remove", "removeInstance"}
Parts     == {"service", "deployment"}

VARIABLES
    agent,       \* the catalog row: none, live or deleted (deletedAt)
    callable,    \* its status is READY
    configured,  \* its managedInstanceId
    row,         \* [Operations -> the Instance row of that name]
    ready,       \* [Operations -> that row is READY]
    completed,   \* [Operations -> its deletionCompletedAt is set]
    workload,    \* [Operations -> what the cluster has of that Instance]
    status, action, target,  \* [Operations -> ...] the operation rows
    legacy,      \* operations queued before deletions left tombstones
    known,       \* [Operations -> Instances deleted before it was created]
    job, tries,  \* [Operations -> state and retryCount of its job]
    owner,       \* the operation whose handler took the lease
    pc, inst, todo, found,   \* [Operations -> ...] the handler's locals
    faults       \* faults so far

catalog   == <<agent, callable, configured>>
instances == <<row, ready, completed>>
requests  == <<action, target, legacy>>
queue     == <<job, tries>>
locals    == <<inst, todo, found>>
vars == <<catalog, instances, workload, status, requests, known, queue, owner,
          pc, locals, faults>>

-----------------------------------------------------------------------------
Instantiating == {"i_reading", "i_saving", "i_agent", "i_ready", "i_failing"}
Discovering   == {"o_saving", "d_reading", "d_unchecking", "d_choosing",
                  "d_configuring", "d_saving", "d_agent", "d_ready",
                  "d_instance", "d_failing", "d_unavailable"}
Asserting     == {"a_service", "a_deployment", "waiting", "a_pinned",
                  "waiting_pinned", "discovering"}
Applying      == {"service", "deployment", "pinned"}
Removing      == {"r_listing", "r_next", "r_looking", "r_deployment",
                  "r_service", "r_completing"}
Ending        == {"completing", "catching", "marking", "releasing",
                  "releasing_failed"}

TypeOK ==
    /\ agent \in {"none", "live", "deleted"} /\ callable \in BOOLEAN
    /\ configured \in Operations \cup {Nobody}
    /\ row \in [Operations -> {"none", "live", "deleted"}]
    /\ ready \in [Operations -> BOOLEAN] /\ completed \in [Operations -> BOOLEAN]
    /\ workload \in [Operations -> SUBSET Parts]
    /\ status \in [Operations -> {"none", "pending", "running", "retry",
                                  "completed", "failed", "cancelled"}]
    /\ action \in [Operations -> Creations \cup Removals]
    /\ target \in [Operations -> Operations]
    /\ legacy \subseteq Operations
    /\ known \in [Operations -> SUBSET Operations]
    /\ job \in [Operations -> {"none", "waiting", "active"}]
    /\ tries \in [Operations -> 0 .. RetryLimit]
    /\ owner \in Operations \cup {Nobody}
    /\ pc \in [Operations -> {"idle", "noting"} \cup Instantiating
                 \cup Discovering \cup Asserting \cup Applying
                 \cup Removing \cup Ending]
    /\ inst \in [Operations -> Operations \cup {Nobody}]
    /\ todo \in [Operations -> SUBSET Operations]
    /\ found \in [Operations -> SUBSET Parts]
    /\ faults \in 0 .. Faults

(* The Agent is not there yet, or it was onboarded before the deployment    *)
(* that brought tombstones; its Instance may have been deleted then, and     *)
(* operations of that time may be queued.                                    *)
Init ==
    /\ \/ /\ agent = "none" /\ legacy = {} /\ configured = Nobody
          /\ row = [i \in Operations |-> "none"]
       \/ /\ agent = "live" /\ legacy \in SUBSET (Operations \ {Founder})
          /\ configured = Founder
          /\ \E r \in {"live", "deleted"} :
                row = [i \in Operations |-> IF i = Founder THEN r ELSE "none"]
    /\ callable = (agent = "live")
    /\ ready = [i \in Operations |-> row[i] = "live"]
    /\ completed = [i \in Operations |-> FALSE]
    /\ workload = [i \in Operations |-> IF row[i] = "live" THEN Parts ELSE {}]
    /\ status = [o \in Operations |->
                   IF o \in legacy THEN "pending"
                   ELSE IF o = Founder /\ agent = "live" THEN "completed"
                   ELSE "none"]
    /\ \E a \in [legacy -> {"discover", "instantiate"} \cup Removals] :
          action = [o \in Operations |->
                      IF o \in legacy THEN a[o] ELSE "onboard"]
    /\ target = [o \in Operations |-> Founder]
    /\ \E k \in [legacy -> SUBSET {i \in Operations : row[i] = "deleted"}] :
          known = [o \in Operations |-> IF o \in legacy THEN k[o] ELSE {}]
    /\ job = [o \in Operations |-> IF o \in legacy THEN "waiting" ELSE "none"]
    /\ tries = [o \in Operations |-> 0]
    /\ owner = Nobody
    /\ pc = [o \in Operations |-> "idle"]
    /\ inst = [o \in Operations |-> Nobody]
    /\ todo = [o \in Operations |-> {}] /\ found = [o \in Operations |-> {}]
    /\ faults = 0

-----------------------------------------------------------------------------
(* Steps of a handler *)

At(o, place) == pc[o] = place
Go(o, place) == pc' = [pc EXCEPT ![o] = place]

Running(o) == status[o] \in {"pending", "running", "retry"}

(* Mutant: nobody asks whether the operation was cancelled. *)
ActiveAlways(o) == TRUE

(* assertOperationActive *)
Active(o) == Running(o)

(* assertManagedInstanceActive, for the Instance the handler works on *)
InstanceActive(o) == Active(o) /\ row[inst[o]] # "deleted"

(* Where a handler goes on when a step throws.  discover records a failure   *)
(* on the Agent, and on the Instance once it has settled on one.             *)
Handler(o, place) ==
    CASE place \in {"i_agent", "i_ready"} -> "i_failing"
      [] place \in {"d_choosing", "d_configuring", "d_failing"} -> "d_unavailable"
      [] place \in {"d_saving", "d_agent", "d_ready", "d_instance"} -> "d_failing"
      [] place \in Asserting \cup Applying \cup {"noting"} ->
            IF action[o] = "instantiate" THEN "i_failing" ELSE "d_failing"
      [] place \in {"catching", "marking"} -> "releasing_failed"
      [] OTHER -> "catching"

Throw(o) ==
    /\ Go(o, Handler(o, pc[o]))
    /\ UNCHANGED <<catalog, instances, workload>>

Elsewhere == UNCHANGED <<status, requests, known, queue, owner, faults>>

(* Saving is a transaction under the Project's row lock.  A row that is      *)
(* deleted is never written, and only a save with an owner creates one; a    *)
(* save that finds no row, or whose operation was cancelled, throws.         *)
SaveInstance(o, place, isReady, creates, next) ==
    /\ At(o, place)
    /\ IF InstanceActive(o) /\ (creates \/ row[inst[o]] = "live")
       THEN /\ row' = [row EXCEPT ![inst[o]] = "live"]
            /\ ready' = [ready EXCEPT ![inst[o]] = isReady]
            /\ Go(o, next)
            /\ UNCHANGED <<catalog, completed, workload>>
       ELSE Throw(o)
    /\ UNCHANGED locals /\ Elsewhere

SaveAgent(o, place, isReady, instance, creates, next) ==
    /\ At(o, place)
    /\ IF Active(o) /\ (agent = "live" \/ (creates /\ agent = "none"))
       THEN /\ agent' = "live" /\ callable' = isReady
            /\ configured' = instance
            /\ Go(o, next)
            /\ UNCHANGED <<instances, workload>>
       ELSE Throw(o)
    /\ UNCHANGED locals /\ Elsewhere

-----------------------------------------------------------------------------
(* Deletion: a2aCreationWasDeleted, prepareA2aDeletion *)

(* Creations requested today are cancelled by the deletion itself; only of  *)
(* the others is it asked whether a deletion came after them.               *)
Fenced(o) == o \notin legacy /\ action[o] # "onboard"

WasDeleted(o) ==
    /\ action[o] \in Creations
    /\ \/ agent = "deleted"
       \/ ~Fenced(o) /\ \E i \in Operations \ known[o] : row[i] = "deleted"

(* A deletion that is repeated, or that comes late, must not cancel what    *)
(* was requested since.                                                     *)
AlreadyDeleted(a, i) ==
    IF a = "remove" THEN agent = "deleted" ELSE row[i] = "deleted"

Dying(a, i) ==
    IF AlreadyDeleted(a, i) THEN {}
    ELSE {k \in Operations : row[k] = "live" /\ (a = "remove" \/ k = i)}

(* Mutant: every creation of the Agent is cancelled every time. *)
CancelledAlways(a, i) ==
    {c \in Operations : action[c] \in Creations /\ Running(c)}

Cancelled(a, i) ==
    {c \in Operations : /\ action[c] \in Creations /\ Running(c)
                        /\ AlreadyDeleted(a, i) => WasDeleted(c)}

(* What the deletion does to the rows; status' is left to the caller.       *)
Bury(a, i) ==
    /\ agent' = IF a = "remove" THEN "deleted" ELSE agent
    /\ row' = [k \in Operations |-> IF k \in Dying(a, i) THEN "deleted" ELSE row[k]]
    /\ ready' = [k \in Operations |-> ready[k] /\ k \notin Dying(a, i)]
    /\ UNCHANGED <<callable, configured, completed, workload>>

Without(cancelled) ==
    [c \in Operations |-> IF c \in cancelled THEN "cancelled" ELSE status[c]]

-----------------------------------------------------------------------------
(* Requests: ResourceOperationService.enqueue *)

Enqueue(o, a, i) ==
    /\ status[o] = "none"
    /\ action' = [action EXCEPT ![o] = a]
    /\ target' = [target EXCEPT ![o] = i]
    /\ job' = [job EXCEPT ![o] = "waiting"]
    /\ UNCHANGED <<legacy, known, tries, owner, pc, locals, faults>>

Create(o, a) ==
    /\ IF o = Founder THEN a = "onboard" /\ agent = "none"
       ELSE a \in {"discover", "instantiate"} /\ agent # "none"
    /\ Enqueue(o, a, Founder)
    /\ status' = [status EXCEPT ![o] = "pending"]
    /\ UNCHANGED <<catalog, instances, workload>>

Remove(o, a, i) ==
    /\ \/ a = "remove" /\ agent # "none" /\ i = Founder
       \/ a = "removeInstance" /\ row[i] # "none"
    /\ o # Founder
    /\ Enqueue(o, a, i)
    /\ status' = [Without(Cancelled(a, i)) EXCEPT ![o] = "pending"]
    /\ Bury(a, i)

-----------------------------------------------------------------------------
(* The worker: runResourceOperation up to the claim, one transaction *)

Acknowledge(o) ==
    /\ job' = [job EXCEPT ![o] = "none"]
    /\ tries' = [tries EXCEPT ![o] = 0]

Last(o) == tries[o] >= RetryLimit

(* An attempt failed: pg-boss retries the job or gives it up. *)
Failed(o) ==
    /\ job' = [job EXCEPT ![o] = IF Last(o) THEN "none" ELSE "waiting"]
    /\ tries' = [tries EXCEPT ![o] = IF Last(o) THEN @ ELSE @ + 1]

Waiting(o) == job[o] = "waiting"

(* Mutant: an attempt that died is not taken up again. *)
WantedUnlessRunning(o) == status[o] \in {"pending", "retry"}

Wanted(o) == Running(o)

(* It is over, or a deletion came after it. *)
Skip(o) ==
    /\ Waiting(o)
    /\ ~Wanted(o) \/ WasDeleted(o)
    /\ status' = [status EXCEPT ![o] = IF Wanted(o) THEN "cancelled" ELSE @]
    /\ Acknowledge(o)
    /\ UNCHANGED <<catalog, instances, workload, requests, known, owner, pc,
                   locals, faults>>

(* Mutant: who was cancelled does not need its lease any more. *)
LeaseFreeOfCancelled(o) ==
    owner \in {Nobody} \cup {c \in Operations : status[c] = "cancelled"}

LeaseFree(o) == owner = Nobody

FirstPlace(o) ==
    CASE action[o] = "onboard"        -> "o_saving"
      [] action[o] = "discover"       -> "d_reading"
      [] action[o] = "instantiate"    -> "i_reading"
      [] action[o] = "remove"         -> "r_listing"
      [] action[o] = "removeInstance" -> "r_next"

(* A deletion buries once more: one that was queued by an older deployment  *)
(* has not done so.                                                         *)
Claim(o) ==
    /\ Waiting(o) /\ Wanted(o) /\ ~WasDeleted(o)
    /\ LeaseFree(o)
    /\ owner' = o
    /\ job' = [job EXCEPT ![o] = "active"]
    /\ Go(o, FirstPlace(o))
    /\ IF action[o] \in Removals
       THEN /\ Bury(action[o], target[o])
            /\ status' = [Without(Cancelled(action[o], target[o]))
                            EXCEPT ![o] = "running"]
            /\ todo' = [todo EXCEPT ![o] =
                          IF action[o] = "remove" THEN {} ELSE {target[o]}]
       ELSE /\ status' = [status EXCEPT ![o] = "running"]
            /\ UNCHANGED <<catalog, instances, workload, todo>>
    /\ UNCHANGED <<requests, known, tries, inst, found, faults>>

(* Somebody else holds the lease: an attempt is spent on waiting. *)
Wait(o) ==
    /\ Waiting(o) /\ Wanted(o) /\ ~WasDeleted(o)
    /\ ~LeaseFree(o)
    /\ status' = [status EXCEPT ![o] =
                    IF @ = "running" THEN @
                    ELSE IF Last(o) THEN "failed" ELSE "retry"]
    /\ Failed(o)
    /\ UNCHANGED <<catalog, instances, workload, requests, known, owner, pc,
                   locals, faults>>

Deliver(o) == Skip(o) \/ Claim(o) \/ Wait(o)

-----------------------------------------------------------------------------
(* AgentGardenService.instantiate *)

LiveInstances == {i \in Operations : row[i] = "live"}

(* Mutant: an Instance that failed is not tried again. *)
ReusableReady == {i \in LiveInstances : ready[i]}

(* getManagedInstanceForAgent *)
Reusable == LiveInstances

(* An Instance that is live is taken again; a READY one is the answer.      *)
Instantiate(o) ==
    /\ At(o, "i_reading")
    /\ IF agent # "live" \/ ~callable THEN Throw(o) /\ UNCHANGED inst
       ELSE /\ \/ Reusable = {} /\ inst' = [inst EXCEPT ![o] = o]
                  /\ Go(o, "i_saving")
               \/ \E i \in Reusable :
                     /\ inst' = [inst EXCEPT ![o] = i]
                     /\ Go(o, IF ready[i] THEN "completing" ELSE "i_saving")
            /\ UNCHANGED <<catalog, instances, workload>>
    /\ UNCHANGED <<todo, found>> /\ Elsewhere

InstantiateStep(o) ==
    \/ Instantiate(o)
    \/ SaveInstance(o, "i_saving", FALSE, TRUE, "a_service")
    \/ SaveAgent(o, "i_agent", TRUE, inst[o], FALSE, "i_ready")
    \/ SaveInstance(o, "i_ready", TRUE, FALSE, "completing")
    \/ SaveInstance(o, "i_failing", FALSE, FALSE, "catching")

-----------------------------------------------------------------------------
(* AgentGardenService.onboard, discover *)

DiscoverRead(o) ==
    /\ At(o, "d_reading")
    /\ IF agent = "live" THEN Go(o, "d_unchecking")
                              /\ UNCHANGED <<catalog, instances, workload>>
       ELSE Throw(o)
    /\ UNCHANGED locals /\ Elsewhere

(* The name of a deleted Instance is not used again. *)
Chosen(o) ==
    IF configured # Nobody /\ row[configured] # "deleted" THEN configured ELSE o

Choose(o) ==
    /\ At(o, "d_choosing")
    /\ \E i \in Operations :
          /\ IF Reusable = {} THEN i = Chosen(o) ELSE i \in Reusable
          /\ inst' = [inst EXCEPT ![o] = i]
          /\ Go(o, IF i = configured THEN "d_saving" ELSE "d_configuring")
    /\ UNCHANGED <<catalog, instances, workload, todo, found>> /\ Elsewhere

DiscoverStep(o) ==
    \/ SaveAgent(o, "o_saving", FALSE, o, TRUE, "d_reading")
    \/ DiscoverRead(o)
    \/ SaveAgent(o, "d_unchecking", FALSE, configured, FALSE, "d_choosing")
    \/ Choose(o)
    \/ SaveAgent(o, "d_configuring", FALSE, inst[o], FALSE, "d_saving")
    \/ SaveInstance(o, "d_saving", FALSE, TRUE, "a_service")
    \/ SaveAgent(o, "d_agent", FALSE, inst[o], FALSE, "discovering")
    \/ SaveAgent(o, "d_ready", TRUE, inst[o], FALSE, "d_instance")
    \/ SaveInstance(o, "d_instance", TRUE, FALSE, "completing")
    \/ SaveInstance(o, "d_failing", FALSE, FALSE, "d_unavailable")
    \/ SaveAgent(o, "d_unavailable", FALSE, configured, FALSE, "completing")

-----------------------------------------------------------------------------
(* KubernetesManagedAgentRuntimeClient.onboard: it asks whether it is still  *)
(* wanted, and then applies.  The image is pinned when it first ran under    *)
(* another name.                                                             *)

NextPlaces(o) ==
    CASE pc[o] = "a_service"      -> {"service"}
      [] pc[o] = "service"        -> {"a_deployment"}
      [] pc[o] = "a_deployment"   -> {"deployment"}
      [] pc[o] = "deployment"     -> {"waiting"}
      [] pc[o] = "waiting"        -> {"a_pinned", "noting"}
      [] pc[o] = "a_pinned"       -> {"pinned"}
      [] pc[o] = "pinned"         -> {"waiting_pinned"}
      [] pc[o] = "waiting_pinned" -> {"noting"}
      [] pc[o] = "discovering"    -> IF action[o] = "instantiate"
                                     THEN {"i_agent"} ELSE {"d_ready"}

(* The last check asks for the operation alone. *)
AssertActive(o) ==
    /\ pc[o] \in Asserting
    /\ IF (IF At(o, "discovering") THEN Active(o) ELSE InstanceActive(o))
       THEN (\E next \in NextPlaces(o) : Go(o, next))
            /\ UNCHANGED <<catalog, instances, workload>>
       ELSE Throw(o)
    /\ UNCHANGED locals /\ Elsewhere

Applied(o) ==
    workload' = [workload EXCEPT ![inst[o]] =
                   @ \cup {IF At(o, "service") THEN "service" ELSE "deployment"}]

Apply(o) ==
    /\ pc[o] \in Applying
    /\ Applied(o)
    /\ \E next \in NextPlaces(o) : Go(o, next)
    /\ UNCHANGED <<catalog, instances, locals>> /\ Elsewhere

OnboardStep(o) ==
    \/ AssertActive(o)
    \/ Apply(o)
    \/ SaveInstance(o, "noting", FALSE, FALSE,
                    IF action[o] = "instantiate" THEN "discovering"
                    ELSE "d_agent")

-----------------------------------------------------------------------------
(* AgentGardenService.remove, removeInstance *)

(* Mutant: Instances that are deleted need no cleanup. *)
ForCleanupLive == LiveInstances

(* managedInstancesForCleanup *)
ForCleanup == {i \in Operations : row[i] # "none"}

(* An Agent without Instances may have a workload under the name that is     *)
(* configured.                                                               *)
ListInstances(o) ==
    /\ At(o, "r_listing")
    /\ todo' = [todo EXCEPT ![o] =
                  IF ForCleanup # {} THEN ForCleanup
                  ELSE {configured} \ {Nobody}]
    /\ Go(o, "r_next")
    /\ UNCHANGED <<catalog, instances, workload, inst, found>> /\ Elsewhere

RemoveNext(o) ==
    /\ At(o, "r_next") /\ todo[o] # {}
    /\ \E i \in todo[o] :
          /\ todo' = [todo EXCEPT ![o] = @ \ {i}]
          /\ IF completed[i] THEN UNCHANGED <<pc, inst>>
             ELSE inst' = [inst EXCEPT ![o] = i] /\ Go(o, "r_looking")
    /\ UNCHANGED <<catalog, instances, workload, found>> /\ Elsewhere

RemoveAgent(o) ==
    /\ At(o, "r_next") /\ todo[o] = {}
    /\ agent' = IF action[o] = "remove" THEN "deleted" ELSE agent
    /\ Go(o, "completing")
    /\ UNCHANGED <<callable, configured, instances, workload, locals>>
    /\ Elsewhere

(* It deletes what it found. *)
FindWorkload(o) ==
    /\ At(o, "r_looking")
    /\ found' = [found EXCEPT ![o] = workload[inst[o]]]
    /\ Go(o, "r_deployment")
    /\ UNCHANGED <<catalog, instances, workload, inst, todo>> /\ Elsewhere

DeleteWorkload(o, place, part, next) ==
    /\ At(o, place)
    /\ workload' = [workload EXCEPT ![inst[o]] = @ \ (found[o] \cap {part})]
    /\ Go(o, next)
    /\ UNCHANGED <<catalog, instances, locals>> /\ Elsewhere

(* The time of the deletion is kept. *)
TombstoneTime(i) ==
    IF row[i] = "live" THEN known' = [o \in Operations |-> known[o] \ {i}]
    ELSE UNCHANGED known

Complete(o) ==
    /\ At(o, "r_completing")
    /\ IF row[inst[o]] = "none" THEN UNCHANGED <<row, completed, known>>
       ELSE /\ row' = [row EXCEPT ![inst[o]] = "deleted"]
            /\ completed' = [completed EXCEPT ![inst[o]] = TRUE]
            /\ TombstoneTime(inst[o])
    /\ inst' = [inst EXCEPT ![o] = Nobody] /\ found' = [found EXCEPT ![o] = {}]
    /\ Go(o, "r_next")
    /\ UNCHANGED <<catalog, ready, workload, status, requests, queue, owner,
                   todo, faults>>

RemovalStep(o) ==
    \/ ListInstances(o) \/ RemoveNext(o) \/ RemoveAgent(o) \/ FindWorkload(o)
    \/ DeleteWorkload(o, "r_deployment", "deployment", "r_service")
    \/ DeleteWorkload(o, "r_service", "service", "r_completing")
    \/ Complete(o)

-----------------------------------------------------------------------------
(* runResourceOperation: the end of an attempt *)

Settled == UNCHANGED <<catalog, instances, workload, requests, known, locals,
                       faults>>

Finish(o) ==
    /\ At(o, "completing")
    /\ status' = [status EXCEPT ![o] = IF @ = "running" THEN "completed" ELSE @]
    /\ Go(o, "releasing")
    /\ UNCHANGED <<queue, owner>> /\ Settled

(* An operation that was cancelled meanwhile is not tried again. *)
Catch(o) ==
    /\ At(o, "catching")
    /\ Go(o, IF status[o] = "cancelled" THEN "releasing" ELSE "marking")
    /\ UNCHANGED <<status, queue, owner>> /\ Settled

MarkFailed(o) ==
    /\ At(o, "marking")
    /\ status' = [status EXCEPT ![o] =
                    IF @ # "running" THEN @
                    ELSE IF Last(o) THEN "failed" ELSE "retry"]
    /\ Go(o, "releasing_failed")
    /\ UNCHANGED <<queue, owner>> /\ Settled

(* The handler is gone, and its locals with it. *)
Gone(o) ==
    /\ Go(o, "idle")
    /\ inst' = [inst EXCEPT ![o] = Nobody]
    /\ todo' = [todo EXCEPT ![o] = {}] /\ found' = [found EXCEPT ![o] = {}]

Release(o) ==
    /\ pc[o] \in {"releasing", "releasing_failed"}
    /\ owner' = IF owner = o THEN Nobody ELSE owner
    /\ IF At(o, "releasing") THEN Acknowledge(o) ELSE Failed(o)
    /\ Gone(o)
    /\ UNCHANGED <<catalog, instances, workload, status, requests, known, faults>>

EndStep(o) == Finish(o) \/ Catch(o) \/ MarkFailed(o) \/ Release(o)

-----------------------------------------------------------------------------
(* Faults *)

Spend == faults < Faults /\ faults' = faults + 1

Busy(o) == pc[o] # "idle"

(* A call throws; a request to the cluster may have been carried out.       *)
Fails(o) ==
    /\ Spend
    /\ Busy(o) /\ pc[o] \notin {"releasing", "releasing_failed"}
    /\ Go(o, Handler(o, pc[o]))
    /\ \/ UNCHANGED workload
       \/ pc[o] \in Applying /\ Applied(o)
    /\ UNCHANGED <<catalog, instances, status, requests, known, queue, owner,
                   locals>>

(* The process dies; its lease stays. *)
Crash(o) ==
    /\ Spend
    /\ Busy(o)
    /\ Gone(o) /\ Failed(o)
    /\ UNCHANGED <<catalog, instances, workload, status, requests, known, owner>>

(* The lease of a dead handler runs out. *)
Lapse ==
    /\ owner # Nobody /\ ~Busy(owner)
    /\ owner' = Nobody
    /\ UNCHANGED <<catalog, instances, workload, status, requests, known, queue,
                   pc, locals, faults>>

-----------------------------------------------------------------------------
Step(o) == \/ InstantiateStep(o) \/ DiscoverStep(o) \/ OnboardStep(o)
           \/ RemovalStep(o) \/ EndStep(o)

Next ==
    \/ \E o \in Operations :
          \/ \E a \in Creations : Create(o, a)
          \/ \E a \in Removals, i \in Operations : Remove(o, a, i)
          \/ Deliver(o)
          \/ Step(o)
          \/ Fails(o)
          \/ Crash(o)
    \/ Lapse

Spec == Init /\ [][Next]_vars

(* A handler goes on, the worker takes jobs, and a lease nobody renews runs  *)
(* out.                                                                      *)
Fairness ==
    /\ \A o \in Operations : WF_vars(Step(o)) /\ WF_vars(Deliver(o))
    /\ WF_vars(Lapse)

FairSpec == Spec /\ Fairness

-----------------------------------------------------------------------------
(* Properties *)

(* Once the deletion of an Instance is recorded as complete the cluster has  *)
(* nothing of it, and nothing comes back: a creation that was running when   *)
(* the deletion was accepted has let go of the lease by then.                *)
DeletionIsComplete ==
    \A i \in Operations : completed[i] => workload[i] = {}

Removes(o, i) ==
    \/ action[o] = "remove"
    \/ action[o] = "removeInstance" /\ target[o] = i

(* What runs in the cluster belongs to an Instance, or there is a deletion   *)
(* that still has to remove it or that has failed and says so: "Cleanup       *)
(* failures remain queryable".                                               *)
WorkloadIsOwned ==
    \A i \in Operations : workload[i] # {} =>
        \/ row[i] = "live"
        \/ /\ row[i] = "deleted"
           /\ \E o \in Operations : /\ Removes(o, i)
                                    /\ Running(o) \/ status[o] = "failed"

(* "Deleting a Project-registered definition also deletes its Instances",    *)
(* and no creation that was queued, running or just about to save makes a    *)
(* new one.                                                                  *)
DeletedAgentIsEmpty == agent = "deleted" => LiveInstances = {}

(* An Agent has one Instance at a time, whatever is retried. *)
OneInstance == Cardinality(LiveInstances) <= 1

(* "A later explicit replacement survives": a creation is cancelled only     *)
(* together with, or because of, a deletion that came after it.              *)
ReplacementSurvives ==
    [][ \A o \in Operations :
          status[o] # "cancelled" /\ status'[o] = "cancelled" =>
            \/ agent' = "deleted"
            \/ \E i \in Operations : row[i] = "live" /\ row'[i] = "deleted"
            \/ \E i \in Operations :
                  o \in legacy \cup {Founder}
                    /\ row[i] = "deleted" /\ i \notin known[o] ]_vars

(* The retries of this deletion are used up. *)
GivenUp(o) == job[o] = "none" /\ tries[o] = RetryLimit

(* An Instance whose deletion was accepted is removed in the end, unless     *)
(* every retry of the cleanup failed or was spent on waiting.                *)
DeletionHappens ==
    <>[](\A o, i \in Operations :
           status[o] # "none" /\ Removes(o, i) /\ row[i] = "deleted"
             => completed[i] \/ GivenUp(o))
=============================================================================
