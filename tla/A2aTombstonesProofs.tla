-------------------------- MODULE A2aTombstonesProofs --------------------------
(***************************************************************************)
(* What TLAPS proves of A2aTombstones, for any number of operations,       *)
(* retries and faults.                                                     *)
(***************************************************************************)
EXTENDS A2aTombstones, FiniteSetTheorems, TLAPS

Places == {"idle", "noting"} \cup Instantiating \cup Discovering
             \cup Asserting \cup Applying \cup Removing \cup Ending

CreatingPlaces == Instantiating \cup Discovering \cup Asserting \cup Applying
                     \cup {"noting"}

(* Where the handler has settled on an Instance.                           *)
Settling == {"i_saving", "d_configuring", "d_saving"}
Saved    == {"i_agent", "i_ready", "i_failing", "d_agent", "d_ready",
             "d_instance", "d_failing", "noting"} \cup Asserting \cup Applying
Emptying == {"r_looking", "r_deployment", "r_service", "r_completing"}
Named    == Settling \cup Saved \cup Emptying

(* A handler holds the lease, so there is one; it is where its action is.   *)
Placed(o) ==
    /\ Busy(o) => owner = o /\ status[o] # "none"
    /\ pc[o] \in CreatingPlaces => action[o] \in Creations
    /\ pc[o] \in Removing => action[o] \in Removals
    /\ pc[o] \in Named => inst[o] \in Operations

(* After the Agent is deleted no creation under way is wanted.             *)
Stale(o) ==
    /\ agent = "deleted" /\ Busy(o) /\ action[o] \in Creations => ~Running(o)
    /\ pc[o] \in Removing /\ action[o] = "remove" => agent = "deleted"

(* What runs, or may run after the next call, is owned.                     *)
Attended(i) ==
    \E o \in Operations : Removes(o, i) /\ (Running(o) \/ status[o] = "failed")

Owned(i) == row[i] = "live" \/ (row[i] = "deleted" /\ Attended(i))

(* A handler that is about to make an Instance live knows of no other; it   *)
(* applies nothing to an Instance whose deletion is complete; and a removal *)
(* empties the Instance it works on part by part.                          *)
Working(o) ==
    /\ pc[o] \in Settling => LiveInstances \subseteq {inst[o]}
    /\ pc[o] \in Asserting \ {"discovering"} => row[inst[o]] # "none"
    /\ pc[o] \in Applying => ~completed[inst[o]] /\ Owned(inst[o])
    /\ pc[o] = "r_deployment" => workload[inst[o]] \subseteq found[o]
    /\ pc[o] = "r_service" =>
          workload[inst[o]] \subseteq found[o] \ {"deployment"}
    /\ pc[o] = "r_completing" => workload[inst[o]] = {}

(* A removal leaves out no Instance.                                       *)
Cleaned(o, i) ==
    \/ completed[i]
    \/ i \in todo[o] /\ pc[o] # "completing"
    \/ i = inst[o] /\ pc[o] \in Emptying

Cleaning(o) ==
    action[o] \in Removals /\ pc[o] \in {"r_next", "completing"} \cup Emptying =>
       \A i \in Operations : Removes(o, i) /\ row[i] # "none" => Cleaned(o, i)

HandlerOK(o) == Placed(o) /\ Stale(o) /\ Working(o) /\ Cleaning(o)

RequestInv ==
    \A o \in Operations : status[o] # "none" =>
       /\ action[o] = "onboard" => o = Founder
       /\ action[o] = "removeInstance" => row[target[o]] # "none"

InstanceInv ==
    /\ agent = "deleted" => LiveInstances = {}
    /\ \A i, j \in LiveInstances : i = j
    /\ \A i \in Operations :
          /\ completed[i] => row[i] = "deleted" /\ workload[i] = {}
          /\ workload[i] # {} => Owned(i)

IInv == /\ TypeOK /\ RequestInv /\ InstanceInv
        /\ \A o \in Operations : HandlerOK(o)

-----------------------------------------------------------------------------
(* Types. *)

LEMMA HandlerPlaces ==
    ASSUME NEW o, NEW place \in Places
    PROVE  Handler(o, place) \in {"i_failing", "d_failing", "d_unavailable",
                                  "releasing_failed", "catching"}
BY DEF Handler

LEMMA FailurePlaces ==
    {"i_failing", "d_failing", "d_unavailable", "releasing_failed", "catching"}
       \subseteq Places
BY DEF Places, Instantiating, Discovering, Ending

LEMMA PcMoves ==
    ASSUME TypeOK, NEW o \in Operations, NEW place \in Places, Go(o, place)
    PROVE  /\ pc' \in [Operations -> Places]
           /\ pc'[o] = place
           /\ \A p \in Operations : p # o => pc'[p] = pc[p]
BY DEF TypeOK, Go, Places

LEMMA Thrown ==
    ASSUME TypeOK, NEW o \in Operations, Go(o, Handler(o, pc[o]))
    PROVE  /\ pc' \in [Operations -> Places]
           /\ pc'[o] = Handler(o, pc[o])
           /\ \A p \in Operations : p # o => pc'[p] = pc[p]
<1>1. pc[o] \in Places
  BY DEF TypeOK, Places
<1>2. Handler(o, pc[o]) \in Places
  BY <1>1, HandlerPlaces, FailurePlaces
<1> QED
  BY <1>2, PcMoves

LEMMA SaveInstanceTypes ==
    ASSUME TypeOK, NEW o \in Operations, NEW place, NEW isReady \in BOOLEAN,
           NEW creates, NEW next \in Places,
           SaveInstance(o, place, isReady, creates, next)
    PROVE  TypeOK'
<1>1. pc' \in [Operations -> Places]
  BY Thrown, PcMoves DEF SaveInstance, Throw
<1>2. ready' \in [Operations -> BOOLEAN]
  <2>1. ready' = ready \/ ready' = [ready EXCEPT ![inst[o]] = isReady]
    BY DEF SaveInstance, Throw, instances
  <2> QED
    BY <2>1 DEF TypeOK
<1>3. row' \in [Operations -> {"none", "live", "deleted"}]
  BY DEF SaveInstance, Throw, instances, TypeOK
<1>4. UNCHANGED <<agent, callable, configured, completed, workload, inst, todo, found>>
  BY DEF SaveInstance, Throw, catalog, instances, locals
<1>5. UNCHANGED <<status, action, target, legacy, known, job, tries, owner, faults>>
  BY DEF SaveInstance, Elsewhere, requests, queue
<1> QED
  BY <1>1, <1>2, <1>3, <1>4, <1>5 DEF TypeOK, Places

LEMMA SaveAgentTypes ==
    ASSUME TypeOK, NEW o \in Operations, NEW place, NEW isReady \in BOOLEAN,
           NEW instance \in Operations \cup {Nobody}, NEW creates,
           NEW next \in Places,
           SaveAgent(o, place, isReady, instance, creates, next)
    PROVE  TypeOK'
<1>1. pc' \in [Operations -> Places]
  BY Thrown, PcMoves DEF SaveAgent, Throw
<1>2. callable' \in BOOLEAN
  BY DEF SaveAgent, Throw, catalog, TypeOK
<1>3. agent' \in {"none", "live", "deleted"} /\ configured' \in Operations \cup {Nobody}
  BY DEF SaveAgent, Throw, catalog, TypeOK
<1>4. UNCHANGED <<row, ready, completed, workload, inst, todo, found>>
  BY DEF SaveAgent, Throw, instances, locals
<1>5. UNCHANGED <<status, action, target, legacy, known, job, tries, owner, faults>>
  BY DEF SaveAgent, Elsewhere, requests, queue
<1> QED
  BY <1>1, <1>2, <1>3, <1>4, <1>5 DEF TypeOK, Places

LEMMA PlaceNames ==
    /\ Instantiating \subseteq Places /\ Discovering \subseteq Places
    /\ Asserting \subseteq Places /\ Applying \subseteq Places
    /\ Removing \subseteq Places /\ Ending \subseteq Places
    /\ "idle" \in Places /\ "noting" \in Places
BY DEF Places

LEMMA NextPlacesTypes ==
    ASSUME NEW o, pc[o] \in Asserting \cup Applying
    PROVE  NextPlaces(o) \subseteq Places
BY DEF NextPlaces, Asserting, Applying, Places, Instantiating, Discovering

LEMMA CreationTypes ==
    ASSUME TypeOK, NEW o \in Operations,
           InstantiateStep(o) \/ DiscoverStep(o) \/ OnboardStep(o)
    PROVE  TypeOK'
<1>1. inst[o] \in Operations \cup {Nobody} /\ configured \in Operations \cup {Nobody}
  BY DEF TypeOK
<1>2. /\ Instantiating \cup Discovering \cup {"completing", "catching", "discovering",
                                           "a_service"} \subseteq Places
  BY DEF Places, Asserting, Ending
<1>3. ASSUME pc' \in [Operations -> Places], inst' \in [Operations -> Operations \cup {Nobody}],
             UNCHANGED <<catalog, instances, workload, todo, found>>, Elsewhere
      PROVE  TypeOK'
  BY <1>3 DEF TypeOK, Places, catalog, instances, Elsewhere, requests, queue
<1>4. ASSUME Instantiate(o) PROVE TypeOK'
  <2>1. pc' \in [Operations -> Places]
    <3>1. "i_saving" \in Places /\ "completing" \in Places
      BY DEF Places, Instantiating, Ending
    <3> QED
      BY <1>4, <3>1, Thrown, PcMoves DEF Instantiate, Throw
  <2>2. inst' \in [Operations -> Operations \cup {Nobody}]
    BY <1>4 DEF Instantiate, TypeOK, Reusable, LiveInstances
  <2> QED
    BY <1>3, <1>4, <2>1, <2>2 DEF Instantiate, Throw
<1>5. ASSUME DiscoverRead(o) PROVE TypeOK'
  <2>1. pc' \in [Operations -> Places]
    BY <1>2, <1>5, Thrown, PcMoves DEF DiscoverRead, Throw, Discovering
  <2> QED
    BY <1>3, <1>5, <2>1 DEF DiscoverRead, Throw, locals, TypeOK
<1>6. ASSUME Choose(o) PROVE TypeOK'
  <2>1. pc' \in [Operations -> Places]
    BY <1>2, <1>6, PcMoves DEF Choose, Discovering
  <2>2. inst' \in [Operations -> Operations \cup {Nobody}]
    BY <1>6 DEF Choose, TypeOK
  <2> QED
    BY <1>3, <1>6, <2>1, <2>2 DEF Choose
<1>7. ASSUME AssertActive(o) PROVE TypeOK'
  <2>1. pc' \in [Operations -> Places]
    BY <1>7, Thrown, PcMoves, NextPlacesTypes DEF AssertActive, Throw
  <2> QED
    BY <1>3, <1>7, <2>1 DEF AssertActive, Throw, locals, TypeOK
<1>8. ASSUME Apply(o) PROVE TypeOK'
  <2>1. pc' \in [Operations -> Places]
    BY <1>8, PcMoves, NextPlacesTypes DEF Apply
  <2>2. workload' \in [Operations -> SUBSET Parts]
    BY <1>8 DEF Apply, Applied, TypeOK, Parts
  <2> QED
    BY <1>8, <2>1, <2>2
       DEF Apply, TypeOK, Places, catalog, instances, Elsewhere, requests, queue, locals
<1>9. InstantiateStep(o) => TypeOK'
  BY <1>1, <1>2, <1>4, SaveInstanceTypes, SaveAgentTypes DEF InstantiateStep, Instantiating
<1>10. DiscoverStep(o) => TypeOK'
  BY <1>1, <1>2, <1>5, <1>6, SaveInstanceTypes, SaveAgentTypes DEF DiscoverStep, Discovering
<1>11. OnboardStep(o) => TypeOK'
  BY <1>2, <1>7, <1>8, SaveInstanceTypes DEF OnboardStep, Discovering
<1> QED
  BY <1>9, <1>10, <1>11

LEMMA RemovalTypes ==
    ASSUME TypeOK, NEW o \in Operations, Placed(o), RemovalStep(o)
    PROVE  TypeOK'
<1>1. Removing \cup {"completing"} \subseteq Places
  BY DEF Places, Ending
<1>2. ASSUME ListInstances(o) PROVE TypeOK'
  <2>1. pc' \in [Operations -> Places]
    BY <1>1, <1>2, PcMoves DEF ListInstances, Removing
  <2>2. todo' \in [Operations -> SUBSET Operations]
    BY <1>2 DEF ListInstances, ForCleanup, TypeOK
  <2> QED
    BY <1>2, <2>1, <2>2
       DEF ListInstances, TypeOK, Places, catalog, instances, Elsewhere, requests, queue
<1>3. ASSUME RemoveNext(o) PROVE TypeOK'
  <2>1. PICK i \in todo[o] : RemoveNext(o)!2!(i)
    BY <1>3 DEF RemoveNext
  <2>2. pc' \in [Operations -> Places]
    BY <1>1, <2>1, PcMoves DEF Removing, TypeOK, Places
  <2>3. todo' \in [Operations -> SUBSET Operations]
    BY <2>1 DEF TypeOK
  <2>4. inst' \in [Operations -> Operations \cup {Nobody}]
    BY <2>1 DEF TypeOK
  <2> QED
    BY <1>3, <2>2, <2>3, <2>4
       DEF RemoveNext, TypeOK, Places, catalog, instances, Elsewhere, requests, queue
<1>4. ASSUME RemoveAgent(o) PROVE TypeOK'
  <2>1. pc' \in [Operations -> Places]
    BY <1>1, <1>4, PcMoves DEF RemoveAgent
  <2> QED
    BY <1>4, <2>1
       DEF RemoveAgent, TypeOK, Places, instances, Elsewhere, requests, queue, locals
<1>5. ASSUME FindWorkload(o) PROVE TypeOK'
  <2>1. pc' \in [Operations -> Places]
    BY <1>1, <1>5, PcMoves DEF FindWorkload, Removing
  <2>2. workload[inst[o]] \subseteq Parts
    <3>1. pc[o] = "r_looking"
      BY <1>5 DEF FindWorkload, At
    <3> QED
      BY <3>1 DEF Placed, Named, Emptying, TypeOK
  <2> QED
    BY <1>5, <2>1, <2>2
       DEF FindWorkload, TypeOK, Places, catalog, instances, Elsewhere, requests, queue
<1>6. ASSUME NEW place, NEW part, NEW next \in Removing, DeleteWorkload(o, place, part, next)
      PROVE  TypeOK'
  <2>1. pc' \in [Operations -> Places]
    BY <1>1, <1>6, PcMoves DEF DeleteWorkload
  <2>2. workload' \in [Operations -> SUBSET Parts]
    BY <1>6 DEF DeleteWorkload, TypeOK
  <2> QED
    BY <1>6, <2>1, <2>2
       DEF DeleteWorkload, TypeOK, Places, catalog, instances, Elsewhere, requests,
           queue, locals
<1>7. ASSUME Complete(o) PROVE TypeOK'
  <2>1. pc' \in [Operations -> Places]
    BY <1>1, <1>7, PcMoves DEF Complete, Removing
  <2>2. row' \in [Operations -> {"none", "live", "deleted"}]
    BY <1>7 DEF Complete, TypeOK
  <2>3. completed' \in [Operations -> BOOLEAN]
    <3>1. completed' = completed \/ completed' = [completed EXCEPT ![inst[o]] = TRUE]
      BY <1>7 DEF Complete
    <3> QED
      BY <3>1 DEF TypeOK
  <2>4. known' \in [Operations -> SUBSET Operations]
    BY <1>7 DEF Complete, TombstoneTime, TypeOK
  <2>5. /\ inst' \in [Operations -> Operations \cup {Nobody}]
        /\ found' \in [Operations -> SUBSET Parts]
    BY <1>7 DEF Complete, TypeOK
  <2> QED
    BY <1>7, <2>1, <2>2, <2>3, <2>4, <2>5
       DEF Complete, TypeOK, Places, catalog, requests, queue
<1> QED
  BY <1>2, <1>3, <1>4, <1>5, <1>6, <1>7 DEF RemovalStep, Removing

(* The end of an attempt, however it ends.                                 *)
LEMMA GoneTypes ==
    ASSUME TypeOK, NEW o \in Operations, Gone(o)
    PROVE  /\ pc' \in [Operations -> Places]
           /\ inst' \in [Operations -> Operations \cup {Nobody}]
           /\ todo' \in [Operations -> SUBSET Operations]
           /\ found' \in [Operations -> SUBSET Parts]
           /\ pc'[o] = "idle"
           /\ \A p \in Operations : p # o =>
                 /\ pc'[p] = pc[p] /\ inst'[p] = inst[p]
                 /\ todo'[p] = todo[p] /\ found'[p] = found[p]
<1>1. "idle" \in Places
  BY DEF Places
<1> QED
  BY <1>1, PcMoves DEF Gone, TypeOK

LEMMA QueueTypes ==
    ASSUME TypeOK, NEW o \in Operations, Acknowledge(o) \/ Failed(o)
    PROVE  /\ job' \in [Operations -> {"none", "waiting", "active"}]
           /\ tries' \in [Operations -> 0 .. RetryLimit]
BY TombstonesAssumption DEF Acknowledge, Failed, Last, TypeOK

LEMMA EndTypes ==
    ASSUME TypeOK, NEW o \in Operations, EndStep(o) \/ Fails(o) \/ Crash(o)
    PROVE  TypeOK'
<1>1. Ending \subseteq Places
  BY DEF Places
<1>2. ASSUME Finish(o) \/ Catch(o) \/ MarkFailed(o) PROVE TypeOK'
  <2>1. pc' \in [Operations -> Places]
    BY <1>1, <1>2, PcMoves DEF Finish, Catch, MarkFailed, Ending
  <2>2. status' \in [Operations -> {"none", "pending", "running", "retry",
                                    "completed", "failed", "cancelled"}]
    BY <1>2 DEF Finish, Catch, MarkFailed, TypeOK
  <2>3. UNCHANGED <<queue, owner>> /\ Settled
    BY <1>2 DEF Finish, Catch, MarkFailed
  <2> QED
    BY <2>1, <2>2, <2>3
       DEF Settled, TypeOK, Places, catalog, instances, requests, queue, locals
<1>3. ASSUME Release(o) PROVE TypeOK'
  <2>1. owner' \in Operations \cup {Nobody}
    BY <1>3 DEF Release, TypeOK
  <2>2. Gone(o) /\ (Acknowledge(o) \/ Failed(o))
    BY <1>3 DEF Release
  <2>3. UNCHANGED <<catalog, instances, workload, status, requests, known, faults>>
    BY <1>3 DEF Release
  <2> QED
    BY <2>1, <2>2, <2>3, GoneTypes, QueueTypes
       DEF TypeOK, Places, catalog, instances, requests
<1>4. ASSUME Spend PROVE faults' \in 0 .. Faults
  BY <1>4, TombstonesAssumption DEF Spend, TypeOK
<1>5. ASSUME Fails(o) PROVE TypeOK'
  <2>1. pc' \in [Operations -> Places] /\ faults' \in 0 .. Faults
    BY <1>4, <1>5, Thrown DEF Fails
  <2>2. workload' \in [Operations -> SUBSET Parts]
    BY <1>5 DEF Fails, Applied, TypeOK, Parts
  <2> QED
    BY <1>5, <2>1, <2>2
       DEF Fails, TypeOK, Places, catalog, instances, requests, queue, locals
<1>6. ASSUME Crash(o) PROVE TypeOK'
  <2>1. Gone(o) /\ Failed(o) /\ faults' \in 0 .. Faults
    BY <1>4, <1>6 DEF Crash
  <2>2. UNCHANGED <<catalog, instances, workload, status, requests, known, owner>>
    BY <1>6 DEF Crash
  <2> QED
    BY <2>1, <2>2, GoneTypes, QueueTypes
       DEF TypeOK, Places, catalog, instances, requests
<1> QED
  BY <1>2, <1>3, <1>5, <1>6 DEF EndStep

(* What a burial does: rows die, and none comes to life.                   *)
LEMMA BuryEffect ==
    ASSUME TypeOK, NEW a, NEW i, Bury(a, i)
    PROVE  /\ agent' = IF a = "remove" THEN "deleted" ELSE agent
           /\ row' \in [Operations -> {"none", "live", "deleted"}]
           /\ ready' \in [Operations -> BOOLEAN]
           /\ \A k \in Operations :
                 row'[k] = IF k \in Dying(a, i) THEN "deleted" ELSE row[k]
           /\ Dying(a, i) \subseteq LiveInstances
           /\ UNCHANGED <<callable, configured, completed, workload>>
<1>1. ready' \in [Operations -> BOOLEAN]
  BY DEF Bury
<1> QED
  BY <1>1 DEF Bury, Dying, LiveInstances, TypeOK

LEMMA WithoutTypes ==
    ASSUME TypeOK, NEW cancelled, NEW o \in Operations, NEW s \in {"pending", "running"},
           status' = [Without(cancelled) EXCEPT ![o] = s]
    PROVE  /\ status' \in [Operations -> {"none", "pending", "running", "retry",
                                          "completed", "failed", "cancelled"}]
           /\ status'[o] = s
           /\ \A p \in Operations : p # o =>
                 status'[p] = IF p \in cancelled THEN "cancelled" ELSE status[p]
BY DEF Without, TypeOK

LEMMA RequestTypes ==
    ASSUME TypeOK, NEW o \in Operations,
           \/ \E a \in Creations : Create(o, a)
           \/ \E a \in Removals, i \in Operations : Remove(o, a, i)
    PROVE  TypeOK'
<1>1. ASSUME NEW a \in Creations \cup Removals, NEW i \in Operations, Enqueue(o, a, i)
      PROVE  /\ action' \in [Operations -> Creations \cup Removals]
             /\ target' \in [Operations -> Operations]
             /\ job' \in [Operations -> {"none", "waiting", "active"}]
  BY <1>1 DEF Enqueue, TypeOK
<1>2. ASSUME NEW a \in Creations, Create(o, a) PROVE TypeOK'
  <2>1. Enqueue(o, a, Founder) /\ Founder \in Operations
    BY <1>2, TombstonesAssumption DEF Create
  <2>2. status' \in [Operations -> {"none", "pending", "running", "retry",
                                    "completed", "failed", "cancelled"}]
    BY <1>2 DEF Create, TypeOK
  <2> QED
    BY <1>1, <1>2, <2>1, <2>2
       DEF Create, Enqueue, TypeOK, catalog, instances, locals
<1>3. ASSUME NEW a \in Removals, NEW i \in Operations, Remove(o, a, i) PROVE TypeOK'
  <2>1. Enqueue(o, a, i) /\ Bury(a, i)
    BY <1>3 DEF Remove
  <2>2. status' \in [Operations -> {"none", "pending", "running", "retry",
                                    "completed", "failed", "cancelled"}]
    BY <1>3, WithoutTypes DEF Remove
  <2>3. agent' \in {"none", "live", "deleted"}
    BY <2>1, BuryEffect DEF TypeOK
  <2> QED
    BY <1>1, <2>1, <2>2, <2>3, BuryEffect DEF Enqueue, TypeOK, locals
<1> QED
  BY <1>2, <1>3

LEMMA DeliverTypes ==
    ASSUME TypeOK, NEW o \in Operations, Deliver(o)
    PROVE  TypeOK'
<1>1. ASSUME Skip(o) PROVE TypeOK'
  <2>1. status' \in [Operations -> {"none", "pending", "running", "retry",
                                    "completed", "failed", "cancelled"}]
    BY <1>1 DEF Skip, TypeOK
  <2> QED
    BY <1>1, <2>1, QueueTypes
       DEF Skip, TypeOK, catalog, instances, requests, locals
<1>2. ASSUME Wait(o) PROVE TypeOK'
  <2>1. status' \in [Operations -> {"none", "pending", "running", "retry",
                                    "completed", "failed", "cancelled"}]
    BY <1>2 DEF Wait, TypeOK
  <2> QED
    BY <1>2, <2>1, QueueTypes
       DEF Wait, TypeOK, catalog, instances, requests, locals
<1>3. ASSUME Claim(o) PROVE TypeOK'
  <2>1. FirstPlace(o) \in Places
    BY DEF FirstPlace, TypeOK, Creations, Removals, Places, Instantiating,
           Discovering, Removing
  <2>2. pc' \in [Operations -> Places]
    BY <1>3, <2>1, PcMoves DEF Claim
  <2>3. job' \in [Operations -> {"none", "waiting", "active"}]
    BY <1>3 DEF Claim, TypeOK
  <2>4. UNCHANGED <<requests, known, tries, inst, found, faults>> /\ owner' = o
    BY <1>3 DEF Claim
  <2>5. CASE action[o] \in Removals
    <3>1. Bury(action[o], target[o])
      BY <1>3, <2>5 DEF Claim
    <3>2. status' \in [Operations -> {"none", "pending", "running", "retry",
                                      "completed", "failed", "cancelled"}]
      BY <1>3, <2>5, WithoutTypes DEF Claim
    <3>3. todo' \in [Operations -> SUBSET Operations]
      BY <1>3, <2>5 DEF Claim, TypeOK
    <3>4. agent' \in {"none", "live", "deleted"}
      BY <3>1, BuryEffect DEF TypeOK
    <3> QED
      BY <2>2, <2>3, <2>4, <3>1, <3>2, <3>3, <3>4, BuryEffect
         DEF TypeOK, Places, requests
  <2>6. CASE action[o] \notin Removals
    <3>1. /\ status' \in [Operations -> {"none", "pending", "running", "retry",
                                         "completed", "failed", "cancelled"}]
          /\ UNCHANGED <<catalog, instances, workload, todo>>
      BY <1>3, <2>6 DEF Claim, TypeOK
    <3> QED
      BY <2>2, <2>3, <2>4, <3>1 DEF TypeOK, Places, requests, catalog, instances
  <2> QED
    BY <2>5, <2>6
<1> QED
  BY <1>1, <1>2, <1>3 DEF Deliver

LEMMA TypeStep ==
    ASSUME TypeOK, \A o \in Operations : Placed(o), [Next]_vars
    PROVE  TypeOK'
<1>1. CASE Lapse
  BY <1>1 DEF Lapse, TypeOK, catalog, instances, requests, queue, locals
<1>2. CASE UNCHANGED vars
  BY <1>2 DEF vars, TypeOK, catalog, instances, requests, queue, locals
<1>3. ASSUME NEW o \in Operations, Step(o) \/ Fails(o) \/ Crash(o) PROVE TypeOK'
  BY <1>3, CreationTypes, RemovalTypes, EndTypes DEF Step
<1>4. ASSUME NEW o \in Operations,
             \/ \E a \in Creations : Create(o, a)
             \/ \E a \in Removals, i \in Operations : Remove(o, a, i)
             \/ Deliver(o)
      PROVE  TypeOK'
  BY <1>4, RequestTypes, DeliverTypes
<1> QED
  BY <1>1, <1>2, <1>3, <1>4 DEF Next

-----------------------------------------------------------------------------
(* Handlers. *)

LEMMA IdleOK ==
    ASSUME NEW o \in Operations, pc[o] = "idle"
    PROVE  HandlerOK(o)
BY DEF HandlerOK, Placed, Stale, Working, Cleaning, Busy, CreatingPlaces, Removing,
       Named, Settling, Saved, Emptying, Instantiating, Discovering, Asserting, Applying

LEMMA IdleNext ==
    ASSUME NEW o \in Operations, pc'[o] = "idle"
    PROVE  HandlerOK(o)'
BY DEF HandlerOK, Placed, Stale, Working, Cleaning, Busy, CreatingPlaces, Removing,
       Named, Settling, Saved, Emptying, Instantiating, Discovering, Asserting, Applying

(* While one handler works the others are idle, and stay so.               *)
LEMMA Alone ==
    ASSUME \A p \in Operations : HandlerOK(p),
           NEW o \in Operations, Busy(o),
           \A p \in Operations : p # o => pc'[p] = pc[p],
           HandlerOK(o)'
    PROVE  \A p \in Operations : HandlerOK(p)'
<1> SUFFICES ASSUME NEW p \in Operations, p # o PROVE HandlerOK(p)'
  OBVIOUS
<1>1. owner = o
  BY DEF HandlerOK, Placed
<1>2. pc[p] = "idle"
  BY <1>1 DEF HandlerOK, Placed, Busy
<1> QED
  BY <1>2, IdleNext

(* Nothing but handlers moved. *)
LEMMA NothingMoved ==
    ASSUME TypeOK, RequestInv, InstanceInv,
           UNCHANGED <<agent, row, completed, workload, status, action, target>>
    PROVE  /\ RequestInv' /\ InstanceInv'
           /\ LiveInstances' = LiveInstances
           /\ \A i \in Operations : Owned(i)' = Owned(i)
<1>1. \A i \in Operations : Attended(i)' = Attended(i)
  BY DEF Attended, Removes, Running
<1>2. \A i \in Operations : Owned(i)' = Owned(i)
  BY <1>1 DEF Owned
<1>3. LiveInstances' = LiveInstances
  BY DEF LiveInstances
<1>4. RequestInv'
  BY DEF RequestInv
<1>5. InstanceInv'
  BY <1>2, <1>3 DEF InstanceInv
<1> QED
  BY <1>2, <1>3, <1>4, <1>5

(* Where nothing is asked of a handler but its place.                      *)
LEMMA Resting ==
    ASSUME NEW o \in Operations, Placed(o)', Stale(o)',
           pc'[o] \notin Settling \cup (Asserting \ {"discovering"}) \cup Applying
                            \cup Emptying \cup {"r_next"},
           pc'[o] = "completing" => action'[o] \in Creations
    PROVE  HandlerOK(o)'
BY DEF HandlerOK, Working, Cleaning, Emptying, Creations, Removals

LEMMA HandlerFrom ==
    ASSUME NEW o, NEW place \in Places
    PROVE  /\ Handler(o, place) \in CreatingPlaces => place \in CreatingPlaces
           /\ Handler(o, place) \in Named => place \in Named
BY DEF Handler, Places, CreatingPlaces, Named, Settling, Saved, Emptying,
       Instantiating, Discovering, Asserting, Applying, Removing, Ending

LEMMA ThrowOK ==
    ASSUME TypeOK, NEW o \in Operations, HandlerOK(o), Busy(o),
           pc'[o] = Handler(o, pc[o]),
           UNCHANGED <<agent, status, action, owner>>, inst'[o] = inst[o]
    PROVE  HandlerOK(o)'
<1>1. pc[o] \in Places
  BY DEF TypeOK, Places
<1>2. /\ pc'[o] \in {"i_failing", "d_failing", "d_unavailable",
                    "releasing_failed", "catching"}
      /\ pc'[o] \in CreatingPlaces => pc[o] \in CreatingPlaces
      /\ pc'[o] \in Named => pc[o] \in Named
  BY <1>1, HandlerPlaces, HandlerFrom
<1>3. Placed(o)' /\ Stale(o)'
  BY <1>2 DEF HandlerOK, Placed, Stale, Busy, Running, Removing
<1> QED
  BY <1>2, <1>3, Resting DEF Settling, Asserting, Applying, Emptying

(* A step of one handler alone. *)
LEMMA QuietStep ==
    ASSUME IInv, NEW o \in Operations, Busy(o),
           UNCHANGED <<agent, row, completed, workload, status, action, target>>,
           \A p \in Operations : p # o => pc'[p] = pc[p],
           HandlerOK(o)'
    PROVE  RequestInv' /\ InstanceInv' /\ \A p \in Operations : HandlerOK(p)'
BY NothingMoved, Alone DEF IInv

LEMMA ThrowStep ==
    ASSUME IInv, NEW o \in Operations, Busy(o), Throw(o), Elsewhere, UNCHANGED locals
    PROVE  RequestInv' /\ InstanceInv' /\ \A p \in Operations : HandlerOK(p)'
<1>1. UNCHANGED <<agent, row, completed, workload, status, action, target, owner, inst>>
  BY DEF Throw, Elsewhere, catalog, instances, requests, locals
<1>2. pc'[o] = Handler(o, pc[o]) /\ \A p \in Operations : p # o => pc'[p] = pc[p]
  BY Thrown DEF Throw, IInv
<1>3. HandlerOK(o)'
  BY <1>1, <1>2, ThrowOK DEF IInv
<1> QED
  BY <1>1, <1>2, <1>3, QuietStep

(* A save makes at most the Instance live that the handler has settled on.  *)
LEMMA SaveInstanceStep ==
    ASSUME IInv, TypeOK', NEW o \in Operations, NEW from, NEW isReady, NEW creates,
           NEW next,
           \/ from \in {"i_saving", "d_saving"} /\ next = "a_service"
           \/ /\ from \in {"i_ready", "i_failing", "d_instance", "d_failing", "noting"}
              /\ next \in {"completing", "catching", "d_unavailable", "discovering",
                           "d_agent"}
              /\ ~creates,
           SaveInstance(o, from, isReady, creates, next)
    PROVE  RequestInv' /\ InstanceInv' /\ \A p \in Operations : HandlerOK(p)'
<1>1. pc[o] = from /\ Busy(o) /\ from \in CreatingPlaces /\ from \in Named
  BY DEF SaveInstance, At, Busy, CreatingPlaces, Named, Saved, Settling,
         Instantiating, Discovering
<1>2. /\ HandlerOK(o) /\ TypeOK /\ inst[o] \in Operations
      /\ action[o] \in Creations /\ owner = o /\ status[o] # "none"
  BY <1>1 DEF IInv, HandlerOK, Placed
<1>3. CASE Throw(o)
  BY <1>1, <1>3, ThrowStep DEF SaveInstance
<1>4. CASE ~Throw(o)
  <2>1. /\ Running(o) /\ row[inst[o]] # "deleted"
        /\ creates \/ row[inst[o]] = "live"
        /\ row' = [row EXCEPT ![inst[o]] = "live"]
        /\ Go(o, next)
        /\ UNCHANGED <<catalog, completed, workload>>
    BY <1>4 DEF SaveInstance, InstanceActive, Active
  <2>2. /\ UNCHANGED <<agent, completed, workload, status, action, target, owner, inst>>
    BY <2>1 DEF SaveInstance, Elsewhere, catalog, requests, locals
  <2>3. /\ pc'[o] = next
        /\ \A p \in Operations : p # o => pc'[p] = pc[p]
    BY <1>2, <2>1 DEF Go, TypeOK
  <2>4. /\ row'[inst[o]] = "live"
        /\ \A i \in Operations : i # inst[o] => row'[i] = row[i]
    BY <1>2, <2>1 DEF TypeOK
  <2>5. agent # "deleted"
    BY <1>1, <1>2, <2>1 DEF HandlerOK, Stale
  <2>6. LiveInstances' = {inst[o]}
    <3>1. LiveInstances' = LiveInstances \cup {inst[o]}
      BY <1>2, <2>4 DEF LiveInstances
    <3>2. LiveInstances \subseteq {inst[o]}
      <4>1. CASE row[inst[o]] = "live"
        BY <1>2, <4>1 DEF IInv, InstanceInv, LiveInstances
      <4>2. CASE row[inst[o]] # "live"
        <5>1. from \in Settling
          BY <2>1, <4>2 DEF Settling
        <5> QED
          BY <1>1, <1>2, <5>1 DEF HandlerOK, Working
      <4> QED
        BY <4>1, <4>2
    <3> QED
      BY <3>1, <3>2
  <2>7. \A i \in Operations : Owned(i) => Owned(i)'
    <3>1. \A i \in Operations : Attended(i)' = Attended(i)
      BY <2>2 DEF Attended, Removes, Running
    <3> QED
      BY <2>4, <3>1 DEF Owned
  <2>8. InstanceInv'
    <3>1. \A i \in Operations : completed'[i] => row'[i] = "deleted" /\ workload'[i] = {}
      BY <2>1, <2>2, <2>4 DEF IInv, InstanceInv
    <3>2. \A i \in Operations : workload'[i] # {} => Owned(i)'
      BY <2>2, <2>7 DEF IInv, InstanceInv
    <3> QED
      BY <2>2, <2>5, <2>6, <3>1, <3>2 DEF InstanceInv
  <2>9. RequestInv'
    BY <1>2, <2>2, <2>4 DEF IInv, RequestInv, TypeOK
  <2>10. HandlerOK(o)'
    <3>1. Placed(o)'
      BY <1>2, <2>2, <2>3 DEF Placed, Removing, CreatingPlaces, Instantiating, Discovering,
                             Asserting, Applying
    <3>2. Stale(o)'
      BY <2>2, <2>3, <2>5 DEF Stale, Removing
    <3>3. CASE next = "a_service"
      BY <1>2, <2>2, <2>3, <2>4, <3>1, <3>2, <3>3
         DEF HandlerOK, Working, Cleaning, Settling, Applying, Emptying
    <3>4. CASE next # "a_service"
      BY <1>2, <2>2, <2>3, <3>1, <3>2, <3>4, Resting
         DEF Settling, Asserting, Applying, Emptying
    <3> QED
      BY <3>3, <3>4
  <2> QED
    BY <1>1, <2>3, <2>8, <2>9, <2>10, Alone DEF IInv
<1> QED
  BY <1>3, <1>4

LEMMA SaveAgentStep ==
    ASSUME IInv, TypeOK', NEW o \in Operations, NEW from, NEW isReady, NEW instance,
           NEW creates, NEW next,
           \/ from = "i_agent" /\ next = "i_ready"
           \/ from = "o_saving" /\ next = "d_reading"
           \/ from = "d_unchecking" /\ next = "d_choosing"
           \/ from = "d_configuring" /\ next = "d_saving"
           \/ from = "d_agent" /\ next = "discovering"
           \/ from = "d_ready" /\ next = "d_instance"
           \/ from = "d_unavailable" /\ next = "completing",
           SaveAgent(o, from, isReady, instance, creates, next)
    PROVE  RequestInv' /\ InstanceInv' /\ \A p \in Operations : HandlerOK(p)'
<1>1. pc[o] = from /\ Busy(o) /\ from \in CreatingPlaces
  BY DEF SaveAgent, At, Busy, CreatingPlaces, Instantiating, Discovering
<1>2. /\ HandlerOK(o) /\ TypeOK
      /\ action[o] \in Creations /\ owner = o /\ status[o] # "none"
  BY <1>1 DEF IInv, HandlerOK, Placed
<1>3. CASE Throw(o)
  BY <1>1, <1>3, ThrowStep DEF SaveAgent
<1>4. CASE ~Throw(o)
  <2>1. /\ agent \in {"live", "none"} /\ agent' = "live"
        /\ Go(o, next)
        /\ UNCHANGED <<instances, workload>>
    BY <1>4 DEF SaveAgent
  <2>2. UNCHANGED <<row, completed, workload, status, action, target, owner, inst>>
    BY <2>1 DEF SaveAgent, Elsewhere, instances, requests, locals
  <2>3. /\ pc'[o] = next
        /\ \A p \in Operations : p # o => pc'[p] = pc[p]
    BY <1>2, <2>1 DEF Go, TypeOK
  <2>4. \A i \in Operations : Owned(i)' = Owned(i)
    BY <2>2 DEF Owned, Attended, Removes, Running
  <2>5. LiveInstances' = LiveInstances
    BY <2>2 DEF LiveInstances
  <2>6. InstanceInv'
    BY <2>1, <2>2, <2>4, <2>5 DEF IInv, InstanceInv
  <2>7. RequestInv'
    BY <2>2 DEF IInv, RequestInv
  <2>8. HandlerOK(o)'
    <3>1. pc'[o] \in Named => pc[o] \in Named
      BY <1>1, <2>3 DEF Named, Settling, Saved, Emptying, Asserting, Applying
    <3>2. Placed(o)'
      BY <1>2, <2>2, <2>3, <3>1 DEF HandlerOK, Placed, Removing
    <3>3. Stale(o)'
      BY <2>1, <2>3 DEF Stale, Removing
    <3>4. CASE next = "d_saving"
      BY <1>1, <1>2, <2>2, <2>3, <2>5, <3>2, <3>3, <3>4
         DEF HandlerOK, Working, Cleaning, Settling, Asserting, Applying, Emptying
    <3>5. CASE next # "d_saving"
      BY <1>2, <2>2, <2>3, <3>2, <3>3, <3>5, Resting
         DEF Settling, Asserting, Applying, Emptying
    <3> QED
      BY <3>4, <3>5
  <2> QED
    BY <1>1, <2>3, <2>6, <2>7, <2>8, Alone DEF IInv
<1> QED
  BY <1>3, <1>4

LEMMA InstantiateMoves ==
    ASSUME IInv, TypeOK', NEW o \in Operations, Instantiate(o)
    PROVE  RequestInv' /\ InstanceInv' /\ \A p \in Operations : HandlerOK(p)'
<1>1. pc[o] = "i_reading" /\ Busy(o) /\ HandlerOK(o) /\ TypeOK
  BY DEF Instantiate, At, Busy, IInv
<1>2. CASE Throw(o) /\ UNCHANGED inst
  BY <1>1, <1>2, ThrowStep DEF Instantiate, locals
<1>3. CASE ~(Throw(o) /\ UNCHANGED inst)
  <2>1. /\ \/ Reusable = {} /\ inst' = [inst EXCEPT ![o] = o] /\ Go(o, "i_saving")
           \/ \E i \in Reusable :
                 /\ inst' = [inst EXCEPT ![o] = i]
                 /\ Go(o, IF ready[i] THEN "completing" ELSE "i_saving")
        /\ UNCHANGED <<catalog, instances, workload>>
    BY <1>3 DEF Instantiate
  <2>2. UNCHANGED <<agent, row, completed, workload, status, action, target, owner>>
    BY <2>1 DEF Instantiate, Elsewhere, catalog, instances, requests
  <2>3. /\ pc'[o] \in {"i_saving", "completing"}
        /\ \A p \in Operations : p # o => pc'[p] = pc[p]
    BY <1>1, <2>1 DEF Go, TypeOK
  <2>4. inst'[o] \in Operations /\ LiveInstances' \subseteq {inst'[o]}
    <3>1. LiveInstances' = LiveInstances
      BY <2>2 DEF LiveInstances
    <3>2. CASE Reusable = {} /\ inst' = [inst EXCEPT ![o] = o]
      BY <1>1, <3>1, <3>2 DEF Reusable, TypeOK
    <3>3. ASSUME NEW i \in Reusable, inst' = [inst EXCEPT ![o] = i]
          PROVE  inst'[o] \in Operations /\ LiveInstances' \subseteq {inst'[o]}
      <4>1. inst'[o] = i /\ i \in LiveInstances /\ i \in Operations
        BY <1>1, <3>3 DEF Reusable, LiveInstances, TypeOK
      <4> QED
        BY <3>1, <4>1 DEF IInv, InstanceInv
    <3> QED
      BY <2>1, <3>2, <3>3
  <2>5. action[o] \in Creations /\ owner = o /\ status[o] # "none"
    BY <1>1 DEF HandlerOK, Placed, CreatingPlaces, Instantiating
  <2>6. Placed(o)'
    BY <2>2, <2>3, <2>4, <2>5 DEF Placed, Removing
  <2>7. Stale(o)'
    BY <1>1, <2>2, <2>3, <2>5 DEF HandlerOK, Stale, Running, Removing
  <2>8. HandlerOK(o)'
    BY <2>2, <2>3, <2>4, <2>5, <2>6, <2>7
       DEF HandlerOK, Working, Cleaning, Asserting, Applying, Emptying, Creations, Removals
  <2> QED
    BY <1>1, <2>2, <2>3, <2>8, QuietStep
<1> QED
  BY <1>2, <1>3

LEMMA DiscoverReads ==
    ASSUME IInv, TypeOK', NEW o \in Operations, DiscoverRead(o)
    PROVE  RequestInv' /\ InstanceInv' /\ \A p \in Operations : HandlerOK(p)'
<1>1. pc[o] = "d_reading" /\ Busy(o) /\ HandlerOK(o) /\ TypeOK
  BY DEF DiscoverRead, At, Busy, IInv
<1>2. CASE Throw(o)
  BY <1>1, <1>2, ThrowStep DEF DiscoverRead
<1>3. CASE ~Throw(o)
  <2>1. Go(o, "d_unchecking") /\ UNCHANGED <<catalog, instances, workload>>
    BY <1>3 DEF DiscoverRead
  <2>2. UNCHANGED <<agent, row, completed, workload, status, action, target, owner>>
    BY <2>1 DEF DiscoverRead, Elsewhere, catalog, instances, requests
  <2>3. /\ pc'[o] = "d_unchecking"
        /\ \A p \in Operations : p # o => pc'[p] = pc[p]
    BY <1>1, <2>1 DEF Go, TypeOK
  <2>4. action[o] \in Creations /\ owner = o /\ status[o] # "none"
    BY <1>1 DEF HandlerOK, Placed, CreatingPlaces, Discovering
  <2>5. Placed(o)'
    BY <2>2, <2>3, <2>4
       DEF Placed, Removing, Named, Settling, Saved, Emptying, Asserting, Applying
  <2>6. Stale(o)'
    BY <1>1, <2>2, <2>3, <2>4 DEF HandlerOK, Stale, Running, Removing
  <2>7. HandlerOK(o)'
    BY <2>3, <2>5, <2>6, Resting DEF Settling, Asserting, Applying, Emptying
  <2> QED
    BY <1>1, <2>2, <2>3, <2>7, QuietStep
<1> QED
  BY <1>2, <1>3

LEMMA Chooses ==
    ASSUME IInv, TypeOK', NEW o \in Operations, Choose(o)
    PROVE  RequestInv' /\ InstanceInv' /\ \A p \in Operations : HandlerOK(p)'
<1>1. pc[o] = "d_choosing" /\ Busy(o) /\ HandlerOK(o) /\ TypeOK
  BY DEF Choose, At, Busy, IInv
<1>2. PICK i \in Operations :
         /\ Reusable # {} => i \in Reusable
         /\ inst' = [inst EXCEPT ![o] = i]
         /\ Go(o, IF i = configured THEN "d_saving" ELSE "d_configuring")
  BY DEF Choose
<1>3. UNCHANGED <<agent, row, completed, workload, status, action, target, owner>>
  BY DEF Choose, Elsewhere, catalog, instances, requests
<1>4. /\ pc'[o] \in {"d_saving", "d_configuring"} /\ inst'[o] = i
      /\ \A p \in Operations : p # o => pc'[p] = pc[p]
  BY <1>1, <1>2 DEF Go, TypeOK
<1>5. LiveInstances' \subseteq {i}
  <2>1. LiveInstances' = LiveInstances
    BY <1>3 DEF LiveInstances
  <2> QED
    BY <1>2, <2>1 DEF Reusable, IInv, InstanceInv
<1>6. action[o] \in Creations /\ owner = o /\ status[o] # "none"
  BY <1>1 DEF HandlerOK, Placed, CreatingPlaces, Discovering
<1>7. Placed(o)'
  BY <1>3, <1>4, <1>6 DEF Placed, Removing
<1>8. Stale(o)'
  BY <1>1, <1>3, <1>4, <1>6 DEF HandlerOK, Stale, Running, Removing
<1>9. HandlerOK(o)'
  BY <1>4, <1>5, <1>7, <1>8 DEF HandlerOK, Working, Cleaning, Asserting, Applying, Emptying
<1> QED
  BY <1>1, <1>3, <1>4, <1>9, QuietStep

LEMMA ApplyPlaces ==
    ASSUME NEW o
    PROVE  /\ pc[o] \in Asserting => NextPlaces(o) \subseteq
                 Applying \cup {"a_pinned", "noting", "i_agent", "d_ready"}
           /\ pc[o] = "discovering" => NextPlaces(o) \subseteq {"i_agent", "d_ready"}
           /\ pc[o] \in Applying => NextPlaces(o) \subseteq Asserting \ {"discovering"}
<1>1. pc[o] = "a_service" => NextPlaces(o) = {"service"}
  BY DEF NextPlaces
<1>2. pc[o] = "a_deployment" => NextPlaces(o) = {"deployment"}
  BY DEF NextPlaces
<1>3. pc[o] = "waiting" => NextPlaces(o) = {"a_pinned", "noting"}
  BY DEF NextPlaces
<1>4. pc[o] = "a_pinned" => NextPlaces(o) = {"pinned"}
  BY DEF NextPlaces
<1>5. pc[o] = "waiting_pinned" => NextPlaces(o) = {"noting"}
  BY DEF NextPlaces
<1>6. pc[o] = "discovering" => NextPlaces(o) \subseteq {"i_agent", "d_ready"}
  BY DEF NextPlaces
<1>7. pc[o] = "service" => NextPlaces(o) = {"a_deployment"}
  BY DEF NextPlaces
<1>8. pc[o] = "deployment" => NextPlaces(o) = {"waiting"}
  BY DEF NextPlaces
<1>9. pc[o] = "pinned" => NextPlaces(o) = {"waiting_pinned"}
  BY DEF NextPlaces
<1>10. pc[o] \in Asserting => NextPlaces(o) \subseteq
          Applying \cup {"a_pinned", "noting", "i_agent", "d_ready"}
  BY <1>1, <1>2, <1>3, <1>4, <1>5, <1>6 DEF Asserting, Applying
<1>11. pc[o] \in Applying => NextPlaces(o) \subseteq Asserting \ {"discovering"}
  BY <1>7, <1>8, <1>9 DEF Asserting, Applying
<1> QED
  BY <1>6, <1>10, <1>11

(* Who asks and is still wanted works on an Instance that is live.         *)
LEMMA Asserts ==
    ASSUME IInv, TypeOK', NEW o \in Operations, AssertActive(o)
    PROVE  RequestInv' /\ InstanceInv' /\ \A p \in Operations : HandlerOK(p)'
<1>1. /\ pc[o] \in Asserting /\ Busy(o) /\ HandlerOK(o) /\ TypeOK
      /\ pc[o] \in CreatingPlaces /\ pc[o] \in Named
  BY DEF AssertActive, Asserting, Busy, IInv, CreatingPlaces, Named, Saved
<1>2. CASE Throw(o)
  BY <1>1, <1>2, ThrowStep DEF AssertActive
<1>3. CASE ~Throw(o)
  <2>1. PICK next \in NextPlaces(o) : Go(o, next)
    BY <1>3 DEF AssertActive
  <2>2. /\ UNCHANGED <<catalog, instances, workload>>
        /\ pc[o] # "discovering" => row[inst[o]] # "deleted"
    BY <1>3 DEF AssertActive, At, InstanceActive
  <2>3. UNCHANGED <<agent, row, completed, workload, status, action, target, owner, inst>>
    BY <2>2 DEF AssertActive, Elsewhere, catalog, instances, requests, locals
  <2>4. next \in Applying \cup {"a_pinned", "noting", "i_agent", "d_ready"}
        /\ pc'[o] = next /\ \A p \in Operations : p # o => pc'[p] = pc[p]
    BY <1>1, <2>1, ApplyPlaces DEF Go, TypeOK
  <2>5. /\ inst[o] \in Operations
        /\ action[o] \in Creations /\ owner = o /\ status[o] # "none"
    BY <1>1 DEF HandlerOK, Placed
  <2>6. next \notin Removing \cup Settling \cup Emptying
                  \cup {"r_next", "completing"}
    BY <2>4 DEF Applying, Removing, Settling, Emptying
  <2>7. Placed(o)'
    BY <2>3, <2>4, <2>5, <2>6 DEF Placed
  <2>8. Stale(o)'
    BY <1>1, <2>3, <2>4, <2>5, <2>6 DEF HandlerOK, Stale, Running
  <2>9. ASSUME next \in Applying \cup {"a_pinned"} PROVE HandlerOK(o)'
    <3>1. row[inst[o]] = "live"
      <4>1. pc[o] # "discovering"
        BY <2>1, <2>9, ApplyPlaces DEF Applying
      <4>2. row[inst[o]] \notin {"deleted", "none"}
        BY <1>1, <2>2, <4>1 DEF HandlerOK, Working
      <4> QED
        BY <1>1, <2>5, <4>2 DEF TypeOK
    <3>2. ~completed[inst[o]]
      BY <2>5, <3>1 DEF IInv, InstanceInv
    <3>3. row'[inst'[o]] = "live" /\ ~completed'[inst'[o]]
      BY <2>3, <3>1, <3>2
    <3>4. Working(o)'
      BY <2>4, <2>6, <3>3 DEF Working, Emptying, Owned
    <3>5. Cleaning(o)'
      BY <2>4, <2>6 DEF Cleaning
    <3> QED
      BY <2>7, <2>8, <3>4, <3>5 DEF HandlerOK
  <2>10. ASSUME next \notin Applying \cup {"a_pinned"} PROVE HandlerOK(o)'
    <3>1. pc'[o] \in {"noting", "i_agent", "d_ready"}
      BY <2>4, <2>10
    <3>2. pc'[o] \notin Settling \cup (Asserting \ {"discovering"}) \cup Applying
                             \cup Emptying \cup {"r_next"}
      BY <3>1 DEF Settling, Asserting, Applying, Emptying
    <3>3. pc'[o] # "completing"
      BY <3>1
    <3> QED
      BY <2>7, <2>8, <3>2, <3>3, Resting
  <2>11. HandlerOK(o)'
    BY <2>9, <2>10
  <2> QED
    BY <1>1, <2>3, <2>4, <2>11, QuietStep
<1> QED
  BY <1>2, <1>3

(* A part is applied to an Instance that is owned and not complete.        *)
LEMMA AppliedEffect ==
    ASSUME IInv, NEW o \in Operations, pc[o] \in Applying, Applied(o),
           UNCHANGED <<agent, row, completed, status, action, target>>
    PROVE  RequestInv' /\ InstanceInv' /\ \A i \in Operations : Owned(i)' = Owned(i)
<1>1. HandlerOK(o) /\ inst[o] \in Operations /\ TypeOK
  BY DEF IInv, HandlerOK, Placed, Named, Saved
<1>2. ~completed[inst[o]] /\ Owned(inst[o])
  BY <1>1 DEF HandlerOK, Working
<1>3. \A i \in Operations : i # inst[o] => workload'[i] = workload[i]
  BY <1>1 DEF Applied, TypeOK
<1>4. \A i \in Operations : Owned(i)' = Owned(i)
  BY DEF Owned, Attended, Removes, Running
<1>5. LiveInstances' = LiveInstances
  BY DEF LiveInstances
<1>6. InstanceInv'
  BY <1>2, <1>3, <1>4, <1>5 DEF IInv, InstanceInv
<1> QED
  BY <1>4, <1>6 DEF IInv, RequestInv

LEMMA Applies ==
    ASSUME IInv, TypeOK', NEW o \in Operations, Apply(o)
    PROVE  RequestInv' /\ InstanceInv' /\ \A p \in Operations : HandlerOK(p)'
<1>1. /\ pc[o] \in Applying /\ Busy(o) /\ HandlerOK(o) /\ TypeOK
      /\ pc[o] \in CreatingPlaces /\ pc[o] \in Named
  BY DEF Apply, Applying, Busy, IInv, CreatingPlaces, Named, Saved
<1>2. PICK next \in NextPlaces(o) : Go(o, next)
  BY DEF Apply
<1>3. UNCHANGED <<agent, row, completed, status, action, target, owner, inst>>
  BY DEF Apply, Elsewhere, catalog, instances, requests, locals
<1>4. next \in Asserting \ {"discovering"}
      /\ pc'[o] = next /\ \A p \in Operations : p # o => pc'[p] = pc[p]
  BY <1>1, <1>2, ApplyPlaces DEF Go, TypeOK
<1>5. /\ inst[o] \in Operations
      /\ action[o] \in Creations /\ owner = o /\ status[o] # "none"
  BY <1>1 DEF HandlerOK, Placed
<1>6. next \notin Removing \cup Settling \cup Applying \cup Emptying
                \cup {"r_next", "completing"}
  BY <1>4 DEF Applying, Removing, Settling, Asserting, Emptying
<1>7. Placed(o)'
  BY <1>3, <1>4, <1>5, <1>6 DEF Placed
<1>8. Stale(o)'
  BY <1>1, <1>3, <1>4, <1>5, <1>6 DEF HandlerOK, Stale, Running
<1>9. row'[inst'[o]] # "none"
  BY <1>1, <1>3 DEF HandlerOK, Working, Owned
<1>10. HandlerOK(o)'
  BY <1>4, <1>6, <1>7, <1>8, <1>9 DEF HandlerOK, Working, Cleaning, Emptying
<1> QED
  BY <1>1, <1>3, <1>4, <1>10, AppliedEffect, Alone DEF Apply, IInv

LEMMA CreationStep ==
    ASSUME IInv, TypeOK', NEW o \in Operations,
           InstantiateStep(o) \/ DiscoverStep(o) \/ OnboardStep(o)
    PROVE  RequestInv' /\ InstanceInv' /\ \A p \in Operations : HandlerOK(p)'
<1>1. InstantiateStep(o) =>
         RequestInv' /\ InstanceInv' /\ \A p \in Operations : HandlerOK(p)'
  BY InstantiateMoves, SaveInstanceStep, SaveAgentStep DEF InstantiateStep
<1>2. DiscoverStep(o) =>
         RequestInv' /\ InstanceInv' /\ \A p \in Operations : HandlerOK(p)'
  BY DiscoverReads, Chooses, SaveInstanceStep, SaveAgentStep DEF DiscoverStep
<1>3. OnboardStep(o) =>
         RequestInv' /\ InstanceInv' /\ \A p \in Operations : HandlerOK(p)'
  BY Asserts, Applies, SaveInstanceStep DEF OnboardStep
<1> QED
  BY <1>1, <1>2, <1>3

-----------------------------------------------------------------------------
(* The cleanup. *)

LEMMA ListsInstances ==
    ASSUME IInv, TypeOK', NEW o \in Operations, ListInstances(o)
    PROVE  RequestInv' /\ InstanceInv' /\ \A p \in Operations : HandlerOK(p)'
<1>1. pc[o] = "r_listing" /\ Busy(o) /\ HandlerOK(o) /\ TypeOK
  BY DEF ListInstances, At, Busy, IInv
<1>2. UNCHANGED <<agent, row, completed, workload, status, action, target, owner, inst>>
  BY DEF ListInstances, Elsewhere, catalog, instances, requests
<1>3. /\ pc'[o] = "r_next"
      /\ \A p \in Operations : p # o => pc'[p] = pc[p]
  BY <1>1 DEF ListInstances, Go, TypeOK
<1>4. ForCleanup # {} => todo'[o] = ForCleanup
  BY <1>1 DEF ListInstances, TypeOK
<1>5. action[o] \in Removals /\ owner = o /\ status[o] # "none"
  BY <1>1 DEF HandlerOK, Placed, Removing
<1>6. Placed(o)'
  BY <1>2, <1>3, <1>5 DEF Placed, CreatingPlaces, Named, Settling, Saved, Emptying,
                         Instantiating, Discovering, Asserting, Applying
<1>7. Stale(o)'
  BY <1>1, <1>2, <1>3, <1>5 DEF HandlerOK, Stale, Creations, Removals, Removing
<1>8. Working(o)'
  BY <1>3 DEF Working, Settling, Asserting, Applying
<1>9. Cleaning(o)'
  BY <1>2, <1>3, <1>4 DEF Cleaning, Cleaned, Removes, ForCleanup
<1>10. HandlerOK(o)'
  BY <1>6, <1>7, <1>8, <1>9 DEF HandlerOK
<1> QED
  BY <1>1, <1>2, <1>3, <1>10, QuietStep

LEMMA RemovesNext ==
    ASSUME IInv, TypeOK', NEW o \in Operations, RemoveNext(o)
    PROVE  RequestInv' /\ InstanceInv' /\ \A p \in Operations : HandlerOK(p)'
<1>1. pc[o] = "r_next" /\ Busy(o) /\ HandlerOK(o) /\ TypeOK
  BY DEF RemoveNext, At, Busy, IInv
<1>2. UNCHANGED <<agent, row, completed, workload, status, action, target, owner>>
  BY DEF RemoveNext, Elsewhere, catalog, instances, requests
<1>3. PICK i \in todo[o] :
         /\ todo' = [todo EXCEPT ![o] = @ \ {i}]
         /\ IF completed[i] THEN UNCHANGED <<pc, inst>>
            ELSE inst' = [inst EXCEPT ![o] = i] /\ Go(o, "r_looking")
  BY DEF RemoveNext
<1>4. i \in Operations /\ todo'[o] = todo[o] \ {i}
  BY <1>1, <1>3 DEF TypeOK
<1>5. /\ \A p \in Operations : p # o => pc'[p] = pc[p]
      /\ \/ completed[i] /\ pc'[o] = "r_next"
         \/ pc'[o] = "r_looking" /\ inst'[o] = i
  BY <1>1, <1>3 DEF Go, TypeOK
<1>6. action[o] \in Removals /\ owner = o /\ status[o] # "none"
  BY <1>1 DEF HandlerOK, Placed, Removing
<1>7. Placed(o)'
  BY <1>2, <1>4, <1>5, <1>6
     DEF Placed, CreatingPlaces, Named, Settling, Saved, Emptying, Instantiating,
         Discovering, Asserting, Applying
<1>8. Stale(o)'
  BY <1>1, <1>2, <1>5, <1>6 DEF HandlerOK, Stale, Creations, Removals, Removing
<1>9. Working(o)'
  BY <1>5 DEF Working, Settling, Asserting, Applying
<1>10. ASSUME NEW j \in Operations, Removes(o, j)', row'[j] # "none"
       PROVE  Cleaned(o, j)'
  <2>1. Cleaned(o, j)
    BY <1>1, <1>2, <1>6, <1>10 DEF HandlerOK, Cleaning, Removes
  <2>2. completed[j] \/ j \in todo[o]
    BY <1>1, <2>1 DEF Cleaned, Emptying
  <2> QED
    BY <1>2, <1>4, <1>5, <2>2 DEF Cleaned, Emptying
<1>11. Cleaning(o)'
  BY <1>10 DEF Cleaning
<1>12. HandlerOK(o)'
  BY <1>7, <1>8, <1>9, <1>11 DEF HandlerOK
<1> QED
  BY <1>1, <1>2, <1>5, <1>12, QuietStep

(* The Agent has been deleted since its deletion was accepted.             *)
LEMMA RemovesAgent ==
    ASSUME IInv, TypeOK', NEW o \in Operations, RemoveAgent(o)
    PROVE  RequestInv' /\ InstanceInv' /\ \A p \in Operations : HandlerOK(p)'
<1>1. pc[o] = "r_next" /\ todo[o] = {} /\ Busy(o) /\ HandlerOK(o) /\ TypeOK
  BY DEF RemoveAgent, At, Busy, IInv
<1>2. action[o] \in Removals /\ owner = o /\ status[o] # "none"
  BY <1>1 DEF HandlerOK, Placed, Removing
<1>3. agent' = agent
  BY <1>1 DEF RemoveAgent, HandlerOK, Stale, Removing
<1>4. UNCHANGED <<agent, row, completed, workload, status, action, target, owner, inst, todo>>
  BY <1>3 DEF RemoveAgent, Elsewhere, instances, requests, locals
<1>5. /\ pc'[o] = "completing"
      /\ \A p \in Operations : p # o => pc'[p] = pc[p]
  BY <1>1 DEF RemoveAgent, Go, TypeOK
<1>6. Placed(o)'
  BY <1>2, <1>4, <1>5 DEF Placed, CreatingPlaces, Named, Settling, Saved, Emptying,
                         Instantiating, Discovering, Asserting, Applying, Removing
<1>7. Stale(o)'
  BY <1>1, <1>2, <1>4, <1>5 DEF HandlerOK, Stale, Creations, Removals, Removing
<1>8. Working(o)'
  BY <1>5 DEF Working, Settling, Asserting, Applying
<1>9. ASSUME NEW j \in Operations, Removes(o, j)', row'[j] # "none"
      PROVE  Cleaned(o, j)'
  <2>1. Cleaned(o, j)
    BY <1>1, <1>2, <1>4, <1>9 DEF HandlerOK, Cleaning, Removes
  <2> QED
    BY <1>1, <1>4, <2>1 DEF Cleaned, Emptying
<1>10. Cleaning(o)'
  BY <1>9 DEF Cleaning
<1>11. HandlerOK(o)'
  BY <1>6, <1>7, <1>8, <1>10 DEF HandlerOK
<1> QED
  BY <1>1, <1>4, <1>5, <1>11, QuietStep

(* What stays true of a handler that empties an Instance.                  *)
LEMMA Empties ==
    ASSUME IInv, NEW o \in Operations, pc[o] \in Emptying, pc'[o] \in Emptying,
           UNCHANGED <<agent, row, completed, status, action, target, owner, inst, todo>>,
           Working(o)'
    PROVE  HandlerOK(o)'
<1>1. HandlerOK(o) /\ pc[o] \in Removing /\ pc'[o] \in Removing /\ inst[o] \in Operations
  BY DEF IInv, HandlerOK, Placed, Emptying, Removing, Named
<1>2. action[o] \in Removals /\ owner = o /\ status[o] # "none"
  BY <1>1 DEF HandlerOK, Placed, Removing, Busy
<1>3. Placed(o)'
  BY <1>1, <1>2 DEF Placed, CreatingPlaces, Instantiating, Discovering, Asserting,
                    Applying, Emptying
<1>4. Stale(o)'
  BY <1>1, <1>2 DEF HandlerOK, Stale, Creations, Removals
<1>5. ASSUME NEW j \in Operations, Removes(o, j)', row'[j] # "none"
      PROVE  Cleaned(o, j)'
  <2>1. Cleaned(o, j)
    BY <1>1, <1>2, <1>5 DEF HandlerOK, Cleaning, Removes
  <2> QED
    BY <2>1 DEF Cleaned, Emptying
<1>6. Cleaning(o)'
  BY <1>5 DEF Cleaning
<1> QED
  BY <1>3, <1>4, <1>6 DEF HandlerOK

LEMMA FindsWorkload ==
    ASSUME IInv, TypeOK', NEW o \in Operations, FindWorkload(o)
    PROVE  RequestInv' /\ InstanceInv' /\ \A p \in Operations : HandlerOK(p)'
<1>1. pc[o] = "r_looking" /\ Busy(o) /\ TypeOK
  BY DEF FindWorkload, At, Busy, IInv
<1>2. UNCHANGED <<agent, row, completed, workload, status, action, target, owner, inst, todo>>
  BY DEF FindWorkload, Elsewhere, catalog, instances, requests
<1>3. /\ pc'[o] = "r_deployment" /\ found'[o] = workload[inst[o]]
      /\ \A p \in Operations : p # o => pc'[p] = pc[p]
  BY <1>1 DEF FindWorkload, Go, TypeOK
<1>4. Working(o)'
  BY <1>2, <1>3 DEF Working, Settling, Asserting, Applying
<1>5. pc[o] \in Emptying /\ pc'[o] \in Emptying
  BY <1>1, <1>3 DEF Emptying
<1>6. HandlerOK(o)'
  BY <1>2, <1>4, <1>5, Empties
<1> QED
  BY <1>1, <1>2, <1>3, <1>6, QuietStep

LEMMA DeletesWorkload ==
    ASSUME IInv, TypeOK', NEW o \in Operations, NEW place, NEW part, NEW next,
           \/ place = "r_deployment" /\ part = "deployment" /\ next = "r_service"
           \/ place = "r_service" /\ part = "service" /\ next = "r_completing",
           DeleteWorkload(o, place, part, next)
    PROVE  RequestInv' /\ InstanceInv' /\ \A p \in Operations : HandlerOK(p)'
<1>1. pc[o] = place /\ Busy(o) /\ TypeOK /\ HandlerOK(o) /\ pc[o] \in Emptying
  BY DEF DeleteWorkload, At, Busy, IInv, Emptying
<1>2. UNCHANGED <<agent, row, completed, status, action, target, owner, inst, todo, found>>
  BY DEF DeleteWorkload, Elsewhere, catalog, instances, requests, locals
<1>3. /\ pc'[o] = next /\ next \in Emptying
      /\ \A p \in Operations : p # o => pc'[p] = pc[p]
  BY <1>1 DEF DeleteWorkload, Go, TypeOK, Emptying
<1>4. inst[o] \in Operations
  BY <1>1 DEF HandlerOK, Placed, Named
<1>5. /\ workload'[inst[o]] = workload[inst[o]] \ (found[o] \cap {part})
      /\ \A i \in Operations : workload'[i] \subseteq workload[i]
  BY <1>1, <1>4 DEF DeleteWorkload, TypeOK
<1>6. \A i \in Operations : Owned(i)' = Owned(i)
  BY <1>2 DEF Owned, Attended, Removes, Running
<1>7. InstanceInv'
  <2>1. LiveInstances' = LiveInstances
    BY <1>2 DEF LiveInstances
  <2>2. \A i \in Operations : workload[i] = {} => workload'[i] = {}
    BY <1>5
  <2> QED
    BY <1>2, <1>6, <2>1, <2>2 DEF IInv, InstanceInv
<1>8. RequestInv'
  BY <1>2 DEF IInv, RequestInv
<1>9. Working(o)'
  <2>1. CASE place = "r_deployment"
    <3>1. workload'[inst[o]] \subseteq found[o] \ {"deployment"}
      BY <1>1, <1>5, <2>1 DEF HandlerOK, Working
    <3> QED
      BY <1>2, <1>3, <2>1, <3>1 DEF Working, Settling, Asserting, Applying
  <2>2. CASE place = "r_service"
    <3>1. workload[inst[o]] \subseteq Parts /\ workload[inst[o]] \subseteq found[o] \ {"deployment"}
      BY <1>1, <1>4, <2>2 DEF HandlerOK, Working, TypeOK
    <3>2. workload'[inst[o]] = {}
      BY <1>5, <2>2, <3>1 DEF Parts
    <3> QED
      BY <1>2, <1>3, <2>2, <3>2 DEF Working, Settling, Asserting, Applying
  <2> QED
    BY <2>1, <2>2
<1>10. HandlerOK(o)'
  BY <1>1, <1>2, <1>3, <1>9, Empties
<1> QED
  BY <1>1, <1>3, <1>7, <1>8, <1>10, Alone DEF IInv

(* The record that the deletion is complete is made of an Instance that is  *)
(* empty, and of one that is there at all.                                  *)
LEMMA Completes ==
    ASSUME IInv, TypeOK', NEW o \in Operations, Complete(o)
    PROVE  RequestInv' /\ InstanceInv' /\ \A p \in Operations : HandlerOK(p)'
<1>1. pc[o] = "r_completing" /\ Busy(o) /\ TypeOK /\ HandlerOK(o)
  BY DEF Complete, At, Busy, IInv
<1>2. UNCHANGED <<agent, workload, status, action, target, owner, todo>>
  BY DEF Complete, catalog, requests
<1>3. /\ pc'[o] = "r_next"
      /\ \A p \in Operations : p # o => pc'[p] = pc[p]
  BY <1>1 DEF Complete, Go, TypeOK
<1>4. PICK i \in Operations : i = inst[o]
  BY <1>1 DEF HandlerOK, Placed, Named, Emptying
<1>5. workload[i] = {}
  BY <1>1, <1>4 DEF HandlerOK, Working
<1>6. /\ row[i] = "none" => row' = row /\ completed' = completed
      /\ row[i] # "none" => row'[i] = "deleted" /\ completed'[i]
      /\ \A j \in Operations : j # i => row'[j] = row[j] /\ (completed'[j] = completed[j])
  BY <1>1, <1>4 DEF Complete, TypeOK
<1>7. \A j \in Operations : j # i /\ Owned(j) => Owned(j)'
  <2>1. \A j \in Operations : Attended(j)' = Attended(j)
    BY <1>2 DEF Attended, Removes, Running
  <2> QED
    BY <1>6, <2>1 DEF Owned
<1>8. LiveInstances' \subseteq LiveInstances
  BY <1>4, <1>6 DEF LiveInstances
<1>9. InstanceInv'
  <2>1. ASSUME NEW j \in Operations
        PROVE  /\ completed'[j] => row'[j] = "deleted" /\ workload'[j] = {}
               /\ workload'[j] # {} => Owned(j)'
    <3>1. CASE j = i
      BY <1>2, <1>5, <1>6, <3>1 DEF IInv, InstanceInv
    <3>2. CASE j # i
      BY <1>2, <1>6, <1>7, <3>2 DEF IInv, InstanceInv
    <3> QED
      BY <3>1, <3>2
  <2> QED
    BY <1>2, <1>8, <2>1 DEF IInv, InstanceInv
<1>10. RequestInv'
  <2>1. \A j \in Operations : row[j] # "none" => row'[j] # "none"
    BY <1>6
  <2> QED
    BY <1>1, <1>2, <2>1 DEF IInv, RequestInv, TypeOK
<1>11. action[o] \in Removals /\ owner = o /\ status[o] # "none"
  BY <1>1 DEF HandlerOK, Placed, Removing
<1>12. Placed(o)'
  BY <1>2, <1>3, <1>11 DEF Placed, CreatingPlaces, Named, Settling, Saved, Emptying,
                          Instantiating, Discovering, Asserting, Applying
<1>13. Stale(o)'
  BY <1>1, <1>2, <1>3, <1>11 DEF HandlerOK, Stale, Creations, Removals, Removing
<1>14. Working(o)'
  BY <1>3 DEF Working, Settling, Asserting, Applying
<1>15. ASSUME NEW j \in Operations, Removes(o, j)', row'[j] # "none"
       PROVE  Cleaned(o, j)'
  <2>1. row[j] # "none"
    BY <1>6, <1>15
  <2>2. Cleaned(o, j)
    BY <1>1, <1>2, <1>11, <1>15, <2>1 DEF HandlerOK, Cleaning, Removes, Emptying
  <2>3. CASE j = i
    BY <1>6, <2>1, <2>3 DEF Cleaned
  <2>4. CASE j # i
    BY <1>2, <1>3, <1>4, <1>6, <2>2, <2>4 DEF Cleaned
  <2> QED
    BY <2>3, <2>4
<1>16. Cleaning(o)'
  BY <1>15 DEF Cleaning
<1>17. HandlerOK(o)'
  BY <1>12, <1>13, <1>14, <1>16 DEF HandlerOK
<1> QED
  BY <1>1, <1>3, <1>9, <1>10, <1>17, Alone DEF IInv

LEMMA CleanupStep ==
    ASSUME IInv, TypeOK', NEW o \in Operations, RemovalStep(o)
    PROVE  RequestInv' /\ InstanceInv' /\ \A p \in Operations : HandlerOK(p)'
BY ListsInstances, RemovesNext, RemovesAgent, FindsWorkload, DeletesWorkload, Completes
   DEF RemovalStep

-----------------------------------------------------------------------------
(* The end of an attempt. *)

(* A removal that completes has emptied every Instance it is to remove, so  *)
(* nothing is left without somebody to remove it.                           *)
LEMMA Finishes ==
    ASSUME IInv, TypeOK', NEW o \in Operations, Finish(o)
    PROVE  RequestInv' /\ InstanceInv' /\ \A p \in Operations : HandlerOK(p)'
<1>1. pc[o] = "completing" /\ Busy(o) /\ TypeOK /\ HandlerOK(o)
  BY DEF Finish, At, Busy, IInv
<1>2. UNCHANGED <<agent, row, completed, workload, action, target, owner>>
  BY DEF Finish, Settled, catalog, instances, requests
<1>3. /\ pc'[o] = "releasing"
      /\ \A p \in Operations : p # o => pc'[p] = pc[p]
  BY <1>1 DEF Finish, Go, TypeOK
<1>4. /\ status'[o] = IF status[o] = "running" THEN "completed" ELSE status[o]
      /\ \A p \in Operations : p # o => status'[p] = status[p]
  BY <1>1 DEF Finish, TypeOK
<1>5. ASSUME NEW i \in Operations, workload[i] # {} PROVE Owned(i)'
  <2>1. Owned(i)
    BY <1>5 DEF IInv, InstanceInv
  <2>2. CASE row[i] = "live"
    BY <1>2, <2>2 DEF Owned
  <2>3. CASE row[i] # "live"
    <3>1. row[i] = "deleted"
      BY <2>1, <2>3 DEF Owned
    <3>2. PICK p \in Operations : Removes(p, i) /\ (Running(p) \/ status[p] = "failed")
      BY <2>1, <2>3 DEF Owned, Attended
    <3>3. p # o
      <4>1. SUFFICES ASSUME p = o PROVE FALSE
        OBVIOUS
      <4>2. Removes(o, i) /\ action[o] \in Removals
        BY <3>2, <4>1 DEF Removes, Removals
      <4>3. Cleaned(o, i)
        BY <1>1, <3>1, <4>2 DEF HandlerOK, Cleaning
      <4>4. completed[i]
        BY <1>1, <4>3 DEF Cleaned, Emptying
      <4> QED
        BY <1>5, <4>4 DEF IInv, InstanceInv
    <3>4. Attended(i)'
      BY <1>2, <1>4, <3>2, <3>3 DEF Attended, Removes, Running
    <3> QED
      BY <1>2, <3>1, <3>4 DEF Owned
  <2> QED
    BY <2>2, <2>3
<1>6. LiveInstances' = LiveInstances
  BY <1>2 DEF LiveInstances
<1>7. InstanceInv'
  <2>1. \A i \in Operations : completed'[i] => row'[i] = "deleted" /\ workload'[i] = {}
    BY <1>2 DEF IInv, InstanceInv
  <2>2. \A i \in Operations : workload'[i] # {} => Owned(i)'
    BY <1>2, <1>5
  <2> QED
    BY <1>2, <1>6, <2>1, <2>2 DEF IInv, InstanceInv
<1>8. RequestInv'
  BY <1>1, <1>2, <1>4 DEF IInv, RequestInv
<1>9. Placed(o)'
  BY <1>1, <1>2, <1>3, <1>4
     DEF HandlerOK, Placed, CreatingPlaces, Named, Settling, Saved, Emptying, Busy,
         Instantiating, Discovering, Asserting, Applying, Removing
<1>10. Stale(o)'
  BY <1>1, <1>2, <1>3, <1>4 DEF HandlerOK, Stale, Running, Removing
<1>11. HandlerOK(o)'
  BY <1>3, <1>9, <1>10, Resting DEF Settling, Asserting, Applying, Emptying
<1> QED
  BY <1>1, <1>3, <1>7, <1>8, <1>11, Alone DEF IInv

LEMMA Catches ==
    ASSUME IInv, TypeOK', NEW o \in Operations, Catch(o)
    PROVE  RequestInv' /\ InstanceInv' /\ \A p \in Operations : HandlerOK(p)'
<1>1. pc[o] = "catching" /\ Busy(o) /\ TypeOK /\ HandlerOK(o)
  BY DEF Catch, At, Busy, IInv
<1>2. UNCHANGED <<agent, row, completed, workload, status, action, target, owner>>
  BY DEF Catch, Settled, catalog, instances, requests
<1>3. /\ pc'[o] \in {"releasing", "marking"}
      /\ \A p \in Operations : p # o => pc'[p] = pc[p]
  BY <1>1 DEF Catch, Go, TypeOK
<1>4. Placed(o)'
  BY <1>1, <1>2, <1>3
     DEF HandlerOK, Placed, CreatingPlaces, Named, Settling, Saved, Emptying, Busy,
         Instantiating, Discovering, Asserting, Applying, Removing
<1>5. Stale(o)'
  BY <1>1, <1>2, <1>3 DEF HandlerOK, Stale, Running, Removing
<1>6. HandlerOK(o)'
  BY <1>3, <1>4, <1>5, Resting DEF Settling, Asserting, Applying, Emptying
<1> QED
  BY <1>1, <1>2, <1>3, <1>6, QuietStep

(* Only statuses changed, and who attends to a deletion still does: it runs,*)
(* will run again, or has failed.                                           *)
LEMMA StatusMoved ==
    ASSUME TypeOK, RequestInv, InstanceInv,
           UNCHANGED <<agent, row, completed, workload, action, target>>,
           \A p \in Operations :
              /\ status'[p] # "none" => status[p] # "none"
              /\ action[p] \in Removals /\ (Running(p) \/ status[p] = "failed")
                    => Running(p)' \/ status'[p] = "failed"
    PROVE  /\ RequestInv' /\ InstanceInv'
           /\ LiveInstances' = LiveInstances
           /\ \A i \in Operations : Owned(i) => Owned(i)'
<1>1. ASSUME NEW i \in Operations, Attended(i) PROVE Attended(i)'
  <2>1. PICK p \in Operations : Removes(p, i) /\ (Running(p) \/ status[p] = "failed")
    BY <1>1 DEF Attended
  <2>2. action[p] \in Removals
    BY <2>1 DEF Removes, Removals
  <2>3. Removes(p, i)'
    BY <2>1 DEF Removes
  <2> QED
    BY <2>1, <2>2, <2>3 DEF Attended
<1>2. \A i \in Operations : Owned(i) => Owned(i)'
  BY <1>1 DEF Owned
<1>3. LiveInstances' = LiveInstances
  BY DEF LiveInstances
<1>4. RequestInv'
  BY DEF RequestInv
<1>5. InstanceInv'
  BY <1>2, <1>3 DEF InstanceInv
<1> QED
  BY <1>2, <1>3, <1>4, <1>5

LEMMA MarksFailed ==
    ASSUME IInv, TypeOK', NEW o \in Operations, MarkFailed(o)
    PROVE  RequestInv' /\ InstanceInv' /\ \A p \in Operations : HandlerOK(p)'
<1>1. pc[o] = "marking" /\ Busy(o) /\ TypeOK /\ HandlerOK(o)
  BY DEF MarkFailed, At, Busy, IInv
<1>2. UNCHANGED <<agent, row, completed, workload, action, target, owner>>
  BY DEF MarkFailed, Settled, catalog, instances, requests
<1>3. /\ pc'[o] = "releasing_failed"
      /\ \A p \in Operations : p # o => pc'[p] = pc[p]
  BY <1>1 DEF MarkFailed, Go, TypeOK
<1>4. /\ status[o] # "running" => status'[o] = status[o]
      /\ status[o] = "running" => status'[o] \in {"failed", "retry"}
      /\ \A p \in Operations : p # o => status'[p] = status[p]
  BY <1>1 DEF MarkFailed, TypeOK
<1>5. RequestInv' /\ InstanceInv'
  BY <1>1, <1>2, <1>4, StatusMoved DEF IInv, Running
<1>6. Placed(o)'
  BY <1>1, <1>2, <1>3, <1>4
     DEF HandlerOK, Placed, CreatingPlaces, Named, Settling, Saved, Emptying, Busy,
         Instantiating, Discovering, Asserting, Applying, Removing
<1>7. Stale(o)'
  BY <1>1, <1>2, <1>3, <1>4 DEF HandlerOK, Stale, Running, Removing
<1>8. HandlerOK(o)'
  BY <1>3, <1>6, <1>7, Resting DEF Settling, Asserting, Applying, Emptying
<1> QED
  BY <1>1, <1>3, <1>5, <1>8, Alone DEF IInv

LEMMA Releases ==
    ASSUME IInv, TypeOK', NEW o \in Operations, Release(o) \/ Crash(o)
    PROVE  RequestInv' /\ InstanceInv' /\ \A p \in Operations : HandlerOK(p)'
<1>1. Busy(o) /\ Gone(o)
  BY DEF Release, Crash, Busy
<1>2. UNCHANGED <<agent, row, completed, workload, status, action, target>>
  BY DEF Release, Crash, catalog, instances, requests
<1>3. HandlerOK(o)'
  BY <1>1, GoneTypes, IdleNext DEF IInv
<1> QED
  BY <1>1, <1>2, <1>3, GoneTypes, QuietStep DEF IInv

LEMMA Throws ==
    ASSUME IInv, TypeOK', NEW o \in Operations, Fails(o)
    PROVE  RequestInv' /\ InstanceInv' /\ \A p \in Operations : HandlerOK(p)'
<1>1. /\ Busy(o) /\ TypeOK
      /\ UNCHANGED <<agent, row, completed, status, action, target, owner, inst>>
  BY DEF Fails, IInv, catalog, instances, requests, locals
<1>2. pc'[o] = Handler(o, pc[o]) /\ \A p \in Operations : p # o => pc'[p] = pc[p]
  BY <1>1, Thrown DEF Fails
<1>3. HandlerOK(o)'
  BY <1>1, <1>2, ThrowOK DEF IInv
<1>4. RequestInv' /\ InstanceInv'
  <2>1. CASE UNCHANGED workload
    BY <1>1, <2>1, NothingMoved DEF IInv
  <2>2. CASE pc[o] \in Applying /\ Applied(o)
    BY <1>1, <2>2, AppliedEffect
  <2> QED
    BY <2>1, <2>2 DEF Fails
<1> QED
  BY <1>1, <1>2, <1>3, <1>4, Alone DEF IInv

(* A lease that lapses was that of no handler. *)
LEMMA Lapses ==
    ASSUME IInv, TypeOK', Lapse
    PROVE  RequestInv' /\ InstanceInv' /\ \A p \in Operations : HandlerOK(p)'
<1>1. UNCHANGED <<agent, row, completed, workload, status, action, target, pc>>
  BY DEF Lapse, catalog, instances, requests
<1>2. ASSUME NEW p \in Operations PROVE HandlerOK(p)'
  <2>1. pc[p] = "idle"
    BY DEF Lapse, Busy, IInv, HandlerOK, Placed
  <2> QED
    BY <1>1, <2>1, IdleNext
<1> QED
  BY <1>1, <1>2, NothingMoved DEF IInv

-----------------------------------------------------------------------------
(* Requests, and jobs that are delivered. *)

(* What a handler relies on while requests and other jobs come in.         *)
LEMMA HandlerKept ==
    ASSUME NEW p \in Operations, Busy(p) => HandlerOK(p), pc'[p] = pc[p],
           Busy(p) =>
             /\ owner' = owner
             /\ inst'[p] = inst[p] /\ todo'[p] = todo[p] /\ found'[p] = found[p]
             /\ action'[p] = action[p] /\ target'[p] = target[p]
             /\ status[p] # "none" => status'[p] # "none"
             /\ agent' = "deleted" /\ action[p] \in Creations => ~Running(p)'
             /\ agent = "deleted" => agent' = "deleted",
           LiveInstances' \subseteq LiveInstances,
           UNCHANGED <<completed, workload>>,
           \A k \in Operations : (row'[k] = "none") <=> (row[k] = "none"),
           \A k \in Operations : Owned(k) => Owned(k)'
    PROVE  HandlerOK(p)'
<1>1. CASE pc[p] = "idle"
  BY <1>1, IdleNext
<1>2. CASE pc[p] # "idle"
  <2>1. HandlerOK(p) /\ Busy(p)
    BY <1>2 DEF Busy
  <2>2. /\ owner' = owner
        /\ inst'[p] = inst[p] /\ todo'[p] = todo[p] /\ found'[p] = found[p]
        /\ action'[p] = action[p] /\ target'[p] = target[p]
        /\ status[p] # "none" => status'[p] # "none"
        /\ agent' = "deleted" /\ action[p] \in Creations => ~Running(p)'
        /\ agent = "deleted" => agent' = "deleted"
    BY <2>1
  <2>3. Placed(p)'
    BY <2>1, <2>2 DEF HandlerOK, Placed, Busy
  <2>4. Stale(p)'
    BY <2>1, <2>2 DEF HandlerOK, Stale
  <2>5. pc[p] \in Named => \E i \in Operations : i = inst[p]
    BY <2>1 DEF HandlerOK, Placed
  <2>6. pc[p] \in Asserting \ {"discovering"} => row'[inst'[p]] # "none"
    BY <2>1, <2>2, <2>5 DEF HandlerOK, Working, Named, Saved
  <2>7. pc[p] \in Applying => ~completed'[inst'[p]] /\ Owned(inst[p])'
    <3>1. SUFFICES ASSUME pc[p] \in Applying
          PROVE  ~completed'[inst'[p]] /\ Owned(inst[p])'
      OBVIOUS
    <3>2. PICK i \in Operations : i = inst[p]
      BY <2>5, <3>1 DEF Named, Saved
    <3>3. ~completed[i] /\ Owned(i)
      BY <2>1, <3>1, <3>2 DEF HandlerOK, Working
    <3>4. Owned(i)' /\ i = inst'[p]
      BY <2>2, <3>2, <3>3
    <3> QED
      BY <3>3, <3>4
  <2>8. Working(p)'
    BY <2>1, <2>2, <2>6, <2>7 DEF HandlerOK, Working
  <2>9. ASSUME NEW j \in Operations, Removes(p, j)', row'[j] # "none",
               action'[p] \in Removals, pc'[p] \in {"r_next", "completing"} \cup Emptying
        PROVE  Cleaned(p, j)'
    <3>1. Cleaned(p, j)
      BY <2>1, <2>2, <2>9 DEF HandlerOK, Cleaning, Removes
    <3> QED
      BY <2>2, <3>1 DEF Cleaned
  <2>10. Cleaning(p)'
    BY <2>9 DEF Cleaning
  <2> QED
    BY <2>3, <2>4, <2>8, <2>10 DEF HandlerOK
<1> QED
  BY <1>1, <1>2

(* A deletion that is accepted: the rows that die are attended to by it,    *)
(* and no attendant of an earlier deletion is cancelled.                   *)
LEMMA Buries ==
    ASSUME TypeOK, InstanceInv, NEW o \in Operations, NEW a \in Removals,
           NEW i \in Operations, NEW s \in {"pending", "running"},
           Bury(a, i),
           status' = [Without(Cancelled(a, i)) EXCEPT ![o] = s],
           action'[o] = a, target'[o] = i,
           status[o] # "none" => action[o] = a /\ target[o] = i,
           \A p \in Operations : p # o => action'[p] = action[p] /\ target'[p] = target[p]
    PROVE  /\ InstanceInv'
           /\ LiveInstances' \subseteq LiveInstances
           /\ \A k \in Operations : (row'[k] = "none") <=> (row[k] = "none")
           /\ \A k \in Operations : Owned(k) => Owned(k)'
           /\ UNCHANGED <<completed, workload>>
           /\ agent' = IF a = "remove" THEN "deleted" ELSE agent
<1>1. /\ agent' = IF a = "remove" THEN "deleted" ELSE agent
      /\ \A k \in Operations :
            row'[k] = IF k \in Dying(a, i) THEN "deleted" ELSE row[k]
      /\ Dying(a, i) \subseteq LiveInstances
      /\ UNCHANGED <<completed, workload>>
  BY BuryEffect
<1>2. /\ status'[o] = s
      /\ \A p \in Operations : p # o =>
            status'[p] = IF p \in Cancelled(a, i) THEN "cancelled" ELSE status[p]
  BY DEF Without, TypeOK
<1>3. \A k \in Operations : (row'[k] = "none") <=> (row[k] = "none")
  BY <1>1 DEF LiveInstances
<1>4. LiveInstances' \subseteq LiveInstances
  BY <1>1 DEF LiveInstances
<1>5. ASSUME NEW k \in Operations, Removes(o, k)' PROVE Attended(k)'
  BY <1>2, <1>5 DEF Attended, Running
<1>6. ASSUME NEW k \in Operations, Attended(k) PROVE Attended(k)'
  <2>1. PICK p \in Operations : Removes(p, k) /\ (Running(p) \/ status[p] = "failed")
    BY <1>6 DEF Attended
  <2>2. CASE p = o
    <3>1. Removes(o, k)'
      BY <2>1, <2>2 DEF Removes, Running
    <3> QED
      BY <1>5, <3>1
  <2>3. CASE p # o
    <3>1. p \notin Cancelled(a, i)
      BY <2>1 DEF Removes, Cancelled, Creations
    <3>2. status'[p] = status[p]
      BY <1>2, <2>3, <3>1
    <3>3. Removes(p, k)'
      BY <2>1, <2>3 DEF Removes
    <3> QED
      BY <2>1, <3>2, <3>3 DEF Attended, Running
  <2> QED
    BY <2>2, <2>3
<1>7. ASSUME NEW k \in Operations, Owned(k) PROVE Owned(k)'
  <2>1. CASE k \in Dying(a, i)
    <3>1. Removes(o, k)'
      BY <2>1 DEF Dying, Removes, Removals
    <3> QED
      BY <1>1, <1>5, <2>1, <3>1 DEF Owned
  <2>2. CASE k \notin Dying(a, i)
    BY <1>1, <1>6, <1>7, <2>2 DEF Owned
  <2> QED
    BY <2>1, <2>2
<1>8. agent' = "deleted" => LiveInstances' = {}
  <2>1. CASE agent = "deleted"
    BY <1>4, <2>1 DEF InstanceInv
  <2>2. CASE agent # "deleted"
    <3>1. SUFFICES ASSUME agent' = "deleted" PROVE LiveInstances' = {}
      OBVIOUS
    <3>2. a = "remove"
      BY <1>1, <2>2, <3>1
    <3>3. Dying(a, i) = LiveInstances
      BY <2>2, <3>2 DEF Dying, AlreadyDeleted, LiveInstances
    <3> QED
      BY <1>1, <3>3 DEF LiveInstances
  <2> QED
    BY <2>1, <2>2
<1>9. \A k \in Operations : completed'[k] => row'[k] = "deleted" /\ workload'[k] = {}
  BY <1>1 DEF InstanceInv
<1>10. \A k \in Operations : workload'[k] # {} => Owned(k)'
  BY <1>1, <1>7 DEF InstanceInv
<1>11. \A j, k \in LiveInstances' : j = k
  BY <1>4 DEF InstanceInv
<1>12. InstanceInv'
  BY <1>8, <1>9, <1>10, <1>11 DEF InstanceInv
<1> QED
  BY <1>1, <1>3, <1>4, <1>7, <1>12

LEMMA Creates ==
    ASSUME IInv, TypeOK', NEW o \in Operations, NEW a \in Creations, Create(o, a)
    PROVE  RequestInv' /\ InstanceInv' /\ \A p \in Operations : HandlerOK(p)'
<1>1. TypeOK /\ Founder \in Operations
  BY TombstonesAssumption DEF IInv
<1>2. UNCHANGED <<agent, row, completed, workload, owner, pc, inst, todo, found>>
  BY DEF Create, Enqueue, catalog, instances, locals
<1>3. /\ status[o] = "none" /\ status'[o] = "pending"
      /\ action'[o] = a /\ target'[o] = Founder
      /\ \A p \in Operations : p # o =>
            status'[p] = status[p] /\ action'[p] = action[p] /\ target'[p] = target[p]
  BY <1>1 DEF Create, Enqueue, TypeOK
<1>4. LiveInstances' = LiveInstances
  BY <1>2 DEF LiveInstances
<1>5. ASSUME NEW k \in Operations, Owned(k) PROVE Owned(k)'
  <2>1. ASSUME Attended(k) PROVE Attended(k)'
    <3>1. PICK p \in Operations : Removes(p, k) /\ (Running(p) \/ status[p] = "failed")
      BY <2>1 DEF Attended
    <3>2. p # o
      BY <1>3, <3>1 DEF Running
    <3> QED
      BY <1>3, <3>1, <3>2 DEF Attended, Removes, Running
  <2> QED
    BY <1>2, <1>5, <2>1 DEF Owned
<1>6. InstanceInv'
  BY <1>2, <1>4, <1>5 DEF IInv, InstanceInv
<1>7. a = "onboard" => o = Founder
  BY DEF Create
<1>8. RequestInv'
  BY <1>2, <1>3, <1>7 DEF IInv, RequestInv, Creations
<1>9. ASSUME NEW p \in Operations PROVE HandlerOK(p)'
  <2>1. HandlerOK(p)
    BY DEF IInv
  <2>2. Busy(p) => p # o
    BY <1>3, <2>1 DEF HandlerOK, Placed
  <2>3. Busy(p) =>
           /\ status[p] # "none" => status'[p] # "none"
           /\ agent' = "deleted" /\ action[p] \in Creations => ~Running(p)'
           /\ action'[p] = action[p] /\ target'[p] = target[p]
    BY <1>2, <1>3, <2>1, <2>2 DEF HandlerOK, Stale, Running
  <2> QED
    BY <1>2, <1>4, <1>5, <2>1, <2>3, HandlerKept
<1> QED
  BY <1>6, <1>8, <1>9

LEMMA RemovalRequested ==
    ASSUME IInv, TypeOK', NEW o \in Operations, NEW a \in Removals, NEW i \in Operations,
           Remove(o, a, i)
    PROVE  RequestInv' /\ InstanceInv' /\ \A p \in Operations : HandlerOK(p)'
<1>1. TypeOK /\ InstanceInv /\ RequestInv
  BY DEF IInv
<1>2. UNCHANGED <<owner, pc, inst, todo, found>>
  BY DEF Remove, Enqueue, locals
<1>3. /\ status[o] = "none" /\ action'[o] = a /\ target'[o] = i
      /\ \A p \in Operations : p # o => action'[p] = action[p] /\ target'[p] = target[p]
  BY <1>1 DEF Remove, Enqueue, TypeOK
<1>4. /\ Bury(a, i)
      /\ status' = [Without(Cancelled(a, i)) EXCEPT ![o] = "pending"]
  BY DEF Remove
<1>5. /\ InstanceInv'
      /\ LiveInstances' \subseteq LiveInstances
      /\ \A k \in Operations : (row'[k] = "none") <=> (row[k] = "none")
      /\ \A k \in Operations : Owned(k) => Owned(k)'
      /\ UNCHANGED <<completed, workload>>
      /\ agent' = IF a = "remove" THEN "deleted" ELSE agent
  BY <1>1, <1>3, <1>4, Buries
<1>6. \A p \in Operations : p # o =>
         status'[p] = IF p \in Cancelled(a, i) THEN "cancelled" ELSE status[p]
  BY <1>1, <1>4, WithoutTypes
<1>7. \A p \in Operations : p # o /\ status'[p] # "none" => status[p] # "none"
  BY <1>6 DEF Cancelled, Running
<1>8. RequestInv'
  <2>1. a = "removeInstance" => row'[i] # "none"
    BY <1>5 DEF Remove
  <2>2. ASSUME NEW p \in Operations, p # o, status'[p] # "none"
        PROVE  /\ action'[p] = "onboard" => p = Founder
               /\ action'[p] = "removeInstance" => row'[target'[p]] # "none"
    <3>1. /\ action[p] = "onboard" => p = Founder
          /\ action[p] = "removeInstance" => row[target[p]] # "none"
      BY <1>1, <1>7, <2>2 DEF RequestInv
    <3>2. target[p] \in Operations
      BY <1>1 DEF TypeOK
    <3> QED
      BY <1>3, <1>5, <2>2, <3>1, <3>2
  <2>3. a # "onboard"
    BY DEF Removals
  <2> QED
    BY <1>3, <2>1, <2>2, <2>3 DEF RequestInv
<1>9. ASSUME NEW p \in Operations PROVE HandlerOK(p)'
  <2>1. HandlerOK(p)
    BY DEF IInv
  <2>2. Busy(p) => p # o
    BY <1>3, <2>1 DEF HandlerOK, Placed
  <2>3. ASSUME Busy(p), agent' = "deleted", action[p] \in Creations
        PROVE  ~Running(p)'
    <3>1. status'[p] = IF p \in Cancelled(a, i) THEN "cancelled" ELSE status[p]
      BY <1>6, <2>2, <2>3
    <3>2. CASE p \in Cancelled(a, i)
      BY <3>1, <3>2 DEF Running
    <3>3. CASE p \notin Cancelled(a, i)
      <4>1. CASE agent = "deleted"
        BY <2>1, <2>3, <3>1, <3>3, <4>1 DEF HandlerOK, Stale, Running
      <4>2. CASE agent # "deleted"
        <5>1. a = "remove"
          BY <1>5, <2>3, <4>2
        <5>2. ~Running(p)
          BY <2>3, <3>3, <4>2, <5>1 DEF Cancelled, AlreadyDeleted
        <5> QED
          BY <3>1, <3>3, <5>2 DEF Running
      <4> QED
        BY <4>1, <4>2
    <3> QED
      BY <3>2, <3>3
  <2>4. Busy(p) => (status[p] # "none" => status'[p] # "none")
    BY <1>6, <2>2
  <2>5. Busy(p) => (action'[p] = action[p] /\ target'[p] = target[p])
    BY <1>3, <2>2
  <2>6. agent = "deleted" => agent' = "deleted"
    BY <1>5
  <2> QED
    BY <1>2, <1>5, <2>1, <2>3, <2>4, <2>5, <2>6, HandlerKept
<1> QED
  BY <1>5, <1>8, <1>9

LEMMA SkipsOrWaits ==
    ASSUME IInv, TypeOK', NEW o \in Operations, Skip(o) \/ Wait(o)
    PROVE  RequestInv' /\ InstanceInv' /\ \A p \in Operations : HandlerOK(p)'
<1>1. TypeOK
  BY DEF IInv
<1>2. UNCHANGED <<agent, row, completed, workload, action, target, owner, pc, inst, todo, found>>
  BY DEF Skip, Wait, catalog, instances, requests, locals
<1>3. \A p \in Operations : p # o => status'[p] = status[p]
  BY <1>1 DEF Skip, Wait, TypeOK
<1>4. /\ (status'[o] = "none") <=> (status[o] = "none")
      /\ Running(o)' => Running(o)
      /\ action[o] \in Removals /\ (Running(o) \/ status[o] = "failed")
            => Running(o)' \/ status'[o] = "failed"
  <2>1. CASE Skip(o)
    <3>1. status'[o] = IF Running(o) THEN "cancelled" ELSE status[o]
      BY <1>1, <2>1 DEF Skip, Wanted, TypeOK
    <3>2. Running(o) => action[o] \in Creations
      BY <2>1 DEF Skip, Wanted, WasDeleted
    <3> QED
      BY <3>1, <3>2 DEF Running, Creations, Removals
  <2>2. CASE Wait(o)
    <3>1. Running(o) /\ status'[o] \in {status[o], "failed", "retry"}
      BY <1>1, <2>2 DEF Wait, Wanted, TypeOK
    <3> QED
      BY <3>1 DEF Running
  <2> QED
    BY <2>1, <2>2
<1>5. \A p \in Operations :
         /\ (status'[p] = "none") <=> (status[p] = "none")
         /\ Running(p)' => Running(p)
         /\ action[p] \in Removals /\ (Running(p) \/ status[p] = "failed")
               => Running(p)' \/ status'[p] = "failed"
  BY <1>3, <1>4 DEF Running
<1>6. /\ RequestInv' /\ InstanceInv'
      /\ LiveInstances' = LiveInstances
      /\ \A i \in Operations : Owned(i) => Owned(i)'
  BY <1>1, <1>2, <1>5, StatusMoved DEF IInv
<1>7. ASSUME NEW p \in Operations PROVE HandlerOK(p)'
  <2>1. HandlerOK(p)
    BY DEF IInv
  <2>2. Busy(p) /\ agent' = "deleted" /\ action[p] \in Creations => ~Running(p)'
    BY <1>2, <1>5, <2>1 DEF HandlerOK, Stale
  <2> QED
    BY <1>2, <1>5, <1>6, <2>1, <2>2, HandlerKept
<1> QED
  BY <1>6, <1>7

(* The lease is free, so every handler is idle. *)
LEMMA Claims ==
    ASSUME IInv, TypeOK', NEW o \in Operations, Claim(o)
    PROVE  RequestInv' /\ InstanceInv' /\ \A p \in Operations : HandlerOK(p)'
<1>1. TypeOK /\ InstanceInv /\ RequestInv
  BY DEF IInv
<1>2. /\ Running(o) /\ ~WasDeleted(o) /\ owner = Nobody /\ owner' = o
      /\ Go(o, FirstPlace(o))
      /\ UNCHANGED <<action, target, inst>>
  BY DEF Claim, Wanted, LeaseFree, requests
<1>3. /\ pc'[o] = FirstPlace(o)
      /\ \A p \in Operations : p # o => pc'[p] = pc[p]
  BY <1>1, <1>2 DEF Go, TypeOK
<1>4. ASSUME NEW p \in Operations, p # o PROVE HandlerOK(p)'
  <2>1. pc[p] = "idle"
    BY <1>2, TombstonesAssumption DEF IInv, HandlerOK, Placed, Busy
  <2> QED
    BY <1>3, <1>4, <2>1, IdleNext
<1>5. CASE action[o] \in Removals
  <2>1. /\ Bury(action[o], target[o])
        /\ status' = [Without(Cancelled(action[o], target[o])) EXCEPT ![o] = "running"]
        /\ action[o] = "removeInstance" => todo'[o] = {target[o]}
    BY <1>1, <1>5 DEF Claim, TypeOK
  <2>2. target[o] \in Operations /\ status[o] # "none"
    BY <1>1, <1>2 DEF TypeOK, Running
  <2>3. PICK a \in Removals, i \in Operations : a = action[o] /\ i = target[o]
    BY <1>5, <2>2
  <2>4. /\ Bury(a, i)
        /\ status' = [Without(Cancelled(a, i)) EXCEPT ![o] = "running"]
        /\ action'[o] = a /\ target'[o] = i
    BY <1>2, <2>1, <2>3
  <2>5. /\ InstanceInv'
        /\ \A k \in Operations : (row'[k] = "none") <=> (row[k] = "none")
        /\ agent' = IF a = "remove" THEN "deleted" ELSE agent
    BY <1>1, <1>2, <2>3, <2>4, Buries
  <2>6. /\ status'[o] = "running"
        /\ \A p \in Operations : status'[p] # "none" => status[p] # "none"
    BY <1>1, <2>2, <2>4, WithoutTypes DEF Cancelled, Running
  <2>7. RequestInv'
    BY <1>1, <1>2, <2>5, <2>6 DEF RequestInv, TypeOK
  <2>8. pc'[o] = IF action[o] = "remove" THEN "r_listing" ELSE "r_next"
    <3>1. CASE action[o] = "remove"
      BY <1>3, <3>1 DEF FirstPlace
    <3>2. CASE action[o] = "removeInstance"
      BY <1>3, <3>2 DEF FirstPlace
    <3> QED
      BY <1>5, <3>1, <3>2 DEF Removals
  <2>9. Placed(o)'
    BY <1>2, <1>5, <2>6, <2>8
       DEF Placed, CreatingPlaces, Named, Settling, Saved, Emptying, Instantiating,
           Discovering, Asserting, Applying
  <2>10. Stale(o)'
    BY <1>2, <1>5, <2>3, <2>5 DEF Stale, Creations, Removals
  <2>11. Working(o)'
    BY <2>8 DEF Working, Settling, Asserting, Applying
  <2>12. Cleaning(o)'
    <3>1. CASE action[o] = "remove"
      BY <2>8, <3>1 DEF Cleaning, Emptying
    <3>2. CASE action[o] = "removeInstance"
      BY <1>2, <2>1, <2>8, <3>2 DEF Cleaning, Cleaned, Removes
    <3> QED
      BY <1>5, <3>1, <3>2 DEF Removals
  <2>13. HandlerOK(o)'
    BY <2>9, <2>10, <2>11, <2>12 DEF HandlerOK
  <2> QED
    BY <1>4, <2>5, <2>7, <2>13
<1>6. CASE action[o] \notin Removals
  <2>1. /\ UNCHANGED <<agent, row, completed, workload>>
        /\ status' = [status EXCEPT ![o] = "running"]
    BY <1>6 DEF Claim, catalog, instances
  <2>2. /\ status'[o] = "running"
        /\ \A p \in Operations : p # o => status'[p] = status[p]
    BY <1>1, <2>1 DEF TypeOK
  <2>3. action[o] \in Creations /\ status[o] # "none"
    BY <1>1, <1>2, <1>6 DEF TypeOK, Running
  <2>4. RequestInv' /\ InstanceInv'
    BY <1>1, <1>2, <1>6, <2>1, <2>2, <2>3, StatusMoved DEF Running
  <2>5. agent # "deleted"
    BY <1>2, <2>3 DEF WasDeleted
  <2>6. pc'[o] \in {"o_saving", "d_reading", "i_reading"}
    <3>1. CASE action[o] = "onboard"
      BY <1>3, <3>1 DEF FirstPlace
    <3>2. CASE action[o] = "discover"
      BY <1>3, <3>2 DEF FirstPlace
    <3>3. CASE action[o] = "instantiate"
      BY <1>3, <3>3 DEF FirstPlace
    <3> QED
      BY <2>3, <3>1, <3>2, <3>3 DEF Creations
  <2>7. Placed(o)'
    BY <1>2, <2>2, <2>3, <2>6
       DEF Placed, Removing, Named, Settling, Saved, Emptying, Asserting, Applying
  <2>8. Stale(o)'
    BY <2>1, <2>5, <2>6 DEF Stale, Removing
  <2>9. pc'[o] \notin Settling \cup (Asserting \ {"discovering"}) \cup Applying
                         \cup Emptying \cup {"r_next"}
    BY <2>6 DEF Settling, Asserting, Applying, Emptying
  <2>10. HandlerOK(o)'
    BY <2>6, <2>7, <2>8, <2>9, Resting
  <2> QED
    BY <1>4, <2>4, <2>10
<1> QED
  BY <1>5, <1>6

-----------------------------------------------------------------------------
(* The invariant. *)

LEMMA InitIInv == Init => IInv
<1> SUFFICES ASSUME Init PROVE IInv
  OBVIOUS
<1>1. TypeOK
  <2>1. row \in [Operations -> {"none", "live", "deleted"}] /\ configured \in Operations \cup {Nobody}
    BY TombstonesAssumption DEF Init
  <2>2. agent \in {"none", "live", "deleted"} /\ callable \in BOOLEAN /\ legacy \subseteq Operations
    BY DEF Init
  <2>3. ready \in [Operations -> BOOLEAN] /\ completed \in [Operations -> BOOLEAN]
    BY DEF Init
  <2>4. /\ workload \in [Operations -> SUBSET Parts]
        /\ status \in [Operations -> {"none", "pending", "running", "retry",
                                      "completed", "failed", "cancelled"}]
        /\ target \in [Operations -> Operations]
    BY TombstonesAssumption DEF Init
  <2>5. action \in [Operations -> Creations \cup Removals]
    BY DEF Init, Creations
  <2>6. known \in [Operations -> SUBSET Operations]
    BY DEF Init
  <2>7. /\ job \in [Operations -> {"none", "waiting", "active"}]
        /\ tries \in [Operations -> 0 .. RetryLimit]
        /\ owner \in Operations \cup {Nobody}
        /\ inst \in [Operations -> Operations \cup {Nobody}]
        /\ todo \in [Operations -> SUBSET Operations]
        /\ found \in [Operations -> SUBSET Parts]
        /\ faults \in 0 .. Faults
    BY TombstonesAssumption DEF Init
  <2>8. pc \in [Operations -> Places]
    BY DEF Init, Places
  <2> QED
    BY <2>1, <2>2, <2>3, <2>4, <2>5, <2>6, <2>7, <2>8 DEF TypeOK, Places
<1>2. \A i \in Operations : row[i] # "none" => i = Founder
  BY DEF Init
<1>3. RequestInv
  <2>1. CASE agent = "none"
    BY <2>1 DEF Init, RequestInv
  <2>2. CASE agent # "none"
    <3>1. /\ agent = "live" /\ legacy \subseteq Operations /\ Founder \in Operations
          /\ row[Founder] \in {"live", "deleted"}
          /\ \A o \in Operations : target[o] = Founder
      BY <2>2, TombstonesAssumption DEF Init
    <3>2. PICK a \in [legacy -> {"discover", "instantiate"} \cup Removals] :
             action = [o \in Operations |-> IF o \in legacy THEN a[o] ELSE "onboard"]
      BY DEF Init
    <3>3. ASSUME NEW o \in Operations, status[o] # "none" PROVE o \in legacy \/ o = Founder
      BY <3>3 DEF Init
    <3>4. ASSUME NEW o \in Operations, o \in legacy PROVE action[o] # "onboard"
      BY <3>2, <3>4 DEF Removals
    <3> QED
      BY <3>1, <3>3, <3>4 DEF RequestInv
  <2> QED
    BY <2>1, <2>2
<1>4. InstanceInv
  BY <1>2 DEF Init, InstanceInv, LiveInstances, Owned
<1>5. \A o \in Operations : HandlerOK(o)
  BY IdleOK DEF Init
<1> QED
  BY <1>1, <1>3, <1>4, <1>5 DEF IInv

LEMMA NextIInv == IInv /\ [Next]_vars => IInv'
<1> SUFFICES ASSUME IInv, [Next]_vars PROVE IInv'
  OBVIOUS
<1>1. TypeOK'
  BY TypeStep DEF IInv, HandlerOK
<1>2. CASE UNCHANGED vars
  <2>1. UNCHANGED <<agent, row, completed, workload, status, action, target, pc, owner,
                    inst, todo, found>>
    BY <1>2 DEF vars, catalog, instances, requests, locals
  <2>2. /\ RequestInv' /\ InstanceInv'
        /\ LiveInstances' = LiveInstances
        /\ \A i \in Operations : Owned(i)' = Owned(i)
    BY <2>1, NothingMoved DEF IInv
  <2>3. ASSUME NEW p \in Operations PROVE HandlerOK(p)'
    <3>1. HandlerOK(p)
      BY DEF IInv
    <3>2. Busy(p) /\ agent' = "deleted" /\ action[p] \in Creations => ~Running(p)'
      BY <2>1, <3>1 DEF HandlerOK, Stale, Running
    <3> QED
      BY <2>1, <2>2, <3>1, <3>2, HandlerKept
  <2> QED
    BY <1>1, <2>2, <2>3 DEF IInv
<1>3. CASE Lapse
  BY <1>1, <1>3, Lapses DEF IInv
<1>4. ASSUME NEW o \in Operations, Step(o) PROVE IInv'
  <2>1. CASE EndStep(o)
    BY <1>1, <2>1, Finishes, Catches, MarksFailed, Releases DEF EndStep, IInv
  <2>2. CASE RemovalStep(o)
    BY <1>1, <2>2, CleanupStep DEF IInv
  <2>3. CASE InstantiateStep(o) \/ DiscoverStep(o) \/ OnboardStep(o)
    BY <1>1, <2>3, CreationStep DEF IInv
  <2> QED
    BY <1>4, <2>1, <2>2, <2>3 DEF Step
<1>5. ASSUME NEW o \in Operations, Fails(o) \/ Crash(o) PROVE IInv'
  BY <1>1, <1>5, Throws, Releases DEF IInv
<1>6. ASSUME NEW o \in Operations, Deliver(o) PROVE IInv'
  BY <1>1, <1>6, SkipsOrWaits, Claims DEF Deliver, IInv
<1>7. ASSUME NEW o \in Operations, NEW a \in Creations, Create(o, a) PROVE IInv'
  BY <1>1, <1>7, Creates DEF IInv
<1>8. ASSUME NEW o \in Operations, NEW a \in Removals, NEW i \in Operations, Remove(o, a, i)
      PROVE  IInv'
  BY <1>1, <1>8, RemovalRequested DEF IInv
<1> QED
  BY <1>2, <1>3, <1>4, <1>5, <1>6, <1>7, <1>8 DEF Next

LEMMA Invariant == Spec => []IInv
BY InitIInv, NextIInv, PTL DEF Spec

-----------------------------------------------------------------------------
(* Every variable keeps its type.                                          *)
THEOREM TypeCorrect == Spec => []TypeOK
<1>1. IInv => TypeOK
  BY DEF IInv
<1> QED
  BY <1>1, Invariant, PTL

(* Once the deletion of an Instance is recorded as complete nothing of it   *)
(* is in the cluster, nor does anything come back.                         *)
THEOREM CompletionIsFinal == Spec => []DeletionIsComplete
<1>1. IInv => DeletionIsComplete
  BY DEF IInv, InstanceInv, DeletionIsComplete
<1> QED
  BY <1>1, Invariant, PTL

(* What runs in the cluster belongs to a live Instance, or a deletion still *)
(* has to remove it or has failed and says so.                             *)
THEOREM NothingOrphaned == Spec => []WorkloadIsOwned
<1>1. IInv => WorkloadIsOwned
  BY DEF IInv, InstanceInv, WorkloadIsOwned, Owned, Attended
<1> QED
  BY <1>1, Invariant, PTL

(* A deleted Agent has no live Instance, and no creation makes another.     *)
THEOREM DeletedStaysEmpty == Spec => []DeletedAgentIsEmpty
<1>1. IInv => DeletedAgentIsEmpty
  BY DEF IInv, InstanceInv, DeletedAgentIsEmpty
<1> QED
  BY <1>1, Invariant, PTL

(* An Agent has at most one live Instance.                                 *)
THEOREM AtMostOne == Spec => []OneInstance
<1>1. IInv => OneInstance
  <2> SUFFICES ASSUME IInv PROVE Cardinality(LiveInstances) <= 1
    BY DEF OneInstance
  <2>1. CASE LiveInstances = {}
    BY <2>1, FS_EmptySet
  <2>2. CASE LiveInstances # {}
    <3>1. PICK i \in LiveInstances : LiveInstances = {i}
      BY <2>2 DEF IInv, InstanceInv
    <3>2. Cardinality({i}) = 1
      BY FS_Singleton
    <3> QED
      BY <3>1, <3>2
  <2> QED
    BY <2>1, <2>2
<1> QED
  BY <1>1, Invariant, PTL

-----------------------------------------------------------------------------
(* What is cancelled, and why. *)

(* What is said of an operation that a step cancels.                       *)
Justified(o) ==
    \/ agent' = "deleted"
    \/ \E i \in Operations : row[i] = "live" /\ row'[i] = "deleted"
    \/ \E i \in Operations :
          o \in legacy \cup {Founder} /\ row[i] = "deleted" /\ i \notin known[o]

LEMMA DeletionCameAfter ==
    ASSUME RequestInv, NEW o \in Operations, Running(o), WasDeleted(o),
           agent = "deleted" => agent' = "deleted"
    PROVE  Justified(o)
<1>1. CASE agent = "deleted"
  BY <1>1 DEF Justified
<1>2. CASE agent # "deleted"
  <2>1. ~Fenced(o) /\ \E i \in Operations \ known[o] : row[i] = "deleted"
    BY <1>2 DEF WasDeleted
  <2>2. o \in legacy \cup {Founder}
    BY <2>1 DEF Fenced, RequestInv, Running
  <2> QED
    BY <2>1, <2>2 DEF Justified
<1> QED
  BY <1>1, <1>2

LEMMA BurialCancels ==
    ASSUME TypeOK, RequestInv, NEW p \in Operations, NEW a \in Removals,
           NEW i \in Operations, NEW s \in {"pending", "running"},
           Bury(a, i), a = "removeInstance" => row[i] # "none",
           status' = [Without(Cancelled(a, i)) EXCEPT ![p] = s],
           NEW o \in Operations, status[o] # "cancelled", status'[o] = "cancelled"
    PROVE  Justified(o)
<1>1. /\ agent' = IF a = "remove" THEN "deleted" ELSE agent
      /\ \A k \in Operations :
            row'[k] = IF k \in Dying(a, i) THEN "deleted" ELSE row[k]
  BY BuryEffect
<1>2. o \in Cancelled(a, i)
  BY DEF Without, TypeOK
<1>3. CASE AlreadyDeleted(a, i)
  BY <1>1, <1>2, <1>3, DeletionCameAfter DEF Cancelled
<1>4. CASE ~AlreadyDeleted(a, i) /\ a = "remove"
  BY <1>1, <1>4 DEF Justified
<1>5. CASE ~AlreadyDeleted(a, i) /\ a = "removeInstance"
  <2>1. row[i] = "live"
    BY <1>5 DEF AlreadyDeleted, TypeOK
  <2>2. i \in Dying(a, i)
    BY <1>5, <2>1 DEF Dying
  <2> QED
    BY <1>1, <2>1, <2>2 DEF Justified
<1> QED
  BY <1>3, <1>4, <1>5 DEF Removals

LEMMA CancelStep ==
    ASSUME IInv, [Next]_vars, NEW o \in Operations,
           status[o] # "cancelled", status'[o] = "cancelled"
    PROVE  Justified(o)
<1>1. TypeOK /\ RequestInv
  BY DEF IInv
<1>2. ASSUME NEW p \in Operations, NEW a \in Removals, NEW i \in Operations, Remove(p, a, i)
      PROVE  Justified(o)
  <2>1. /\ Bury(a, i) /\ (a = "removeInstance" => row[i] # "none")
        /\ status' = [Without(Cancelled(a, i)) EXCEPT ![p] = "pending"]
    BY <1>2 DEF Remove
  <2> QED
    BY <1>1, <2>1, BurialCancels
<1>3. ASSUME NEW p \in Operations, Claim(p) PROVE Justified(o)
  <2>1. action[p] \in Removals
    BY <1>1, <1>3 DEF Claim, TypeOK
  <2>2. PICK a \in Removals, i \in Operations : a = action[p] /\ i = target[p]
    BY <1>1, <2>1 DEF TypeOK
  <2>3. /\ Bury(a, i)
        /\ status' = [Without(Cancelled(a, i)) EXCEPT ![p] = "running"]
    BY <1>3, <2>1, <2>2 DEF Claim
  <2>4. a = "removeInstance" => row[i] # "none"
    BY <1>1, <1>3, <2>2 DEF Claim, Wanted, Running, RequestInv
  <2> QED
    BY <1>1, <2>3, <2>4, BurialCancels
<1>4. ASSUME NEW p \in Operations, Skip(p) PROVE Justified(o)
  <2>1. p = o /\ Running(o) /\ WasDeleted(o)
    BY <1>1, <1>4 DEF Skip, Wanted, TypeOK
  <2>2. agent' = agent
    BY <1>4 DEF Skip, catalog
  <2> QED
    BY <1>1, <2>1, <2>2, DeletionCameAfter
<1>5. ASSUME NEW p \in Operations, Wait(p) PROVE FALSE
  BY <1>1, <1>5 DEF Wait, TypeOK
<1>6. ASSUME NEW p \in Operations, NEW a \in Creations, Create(p, a) PROVE FALSE
  BY <1>1, <1>6 DEF Create, TypeOK
<1>7. ASSUME NEW p \in Operations, Step(p) PROVE FALSE
  <2>1. CASE EndStep(p)
    BY <1>1, <2>1 DEF EndStep, Finish, Catch, MarkFailed, Release, TypeOK
  <2>2. CASE RemovalStep(p)
    BY <2>2 DEF RemovalStep, ListInstances, RemoveNext, RemoveAgent, FindWorkload,
                DeleteWorkload, Complete, Elsewhere
  <2>3. CASE InstantiateStep(p)
    BY <2>3 DEF InstantiateStep, Instantiate, SaveInstance, SaveAgent, Elsewhere
  <2>4. CASE DiscoverStep(p)
    BY <2>4 DEF DiscoverStep, DiscoverRead, Choose, SaveInstance, SaveAgent, Elsewhere
  <2>5. CASE OnboardStep(p)
    BY <2>5 DEF OnboardStep, AssertActive, Apply, SaveInstance, Elsewhere
  <2> QED
    BY <1>7, <2>1, <2>2, <2>3, <2>4, <2>5 DEF Step
<1>8. ASSUME NEW p \in Operations, Fails(p) \/ Crash(p) PROVE FALSE
  BY <1>8 DEF Fails, Crash
<1>9. CASE Lapse \/ UNCHANGED vars
  BY <1>9 DEF Lapse, vars
<1> QED
  BY <1>2, <1>3, <1>4, <1>5, <1>6, <1>7, <1>8, <1>9 DEF Next, Deliver

(* "A later explicit replacement survives": whoever is cancelled is         *)
(* cancelled together with, or because of, a deletion that came after it.   *)
THEOREM ReplacementStays == Spec => ReplacementSurvives
<1>1. ASSUME IInv, [Next]_vars, NEW o \in Operations,
             status[o] # "cancelled", status'[o] = "cancelled"
      PROVE  \/ agent' = "deleted"
             \/ \E i \in Operations : row[i] = "live" /\ row'[i] = "deleted"
             \/ \E i \in Operations :
                   o \in legacy \cup {Founder}
                     /\ row[i] = "deleted" /\ i \notin known[o]
  BY <1>1, CancelStep DEF Justified
<1>2. IInv /\ [Next]_vars =>
         [ \A o \in Operations :
             status[o] # "cancelled" /\ status'[o] = "cancelled" =>
               \/ agent' = "deleted"
               \/ \E i \in Operations : row[i] = "live" /\ row'[i] = "deleted"
               \/ \E i \in Operations :
                     o \in legacy \cup {Founder}
                       /\ row[i] = "deleted" /\ i \notin known[o] ]_vars
  BY <1>1
<1> QED
  BY <1>2, Invariant, PTL DEF Spec, ReplacementSurvives
=============================================================================
