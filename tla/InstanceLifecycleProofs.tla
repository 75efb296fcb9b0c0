------------------------ MODULE InstanceLifecycleProofs ------------------------
(***************************************************************************)
(* What TLAPS proves of InstanceLifecycle, for any number of requests,     *)
(* keys, retries and faults.                                               *)
(***************************************************************************)
EXTENDS InstanceLifecycle, FiniteSetTheorems, TLAPS

Places == {"new", "idle"} \cup Provision \cup Deletion \cup Creation \cup Destroy
             \cup Refresh \cup Policies

(* Every caller is somewhere in its own call.                              *)
PlaceInv ==
    /\ pc[Worker] \in {"idle"} \cup Provision \cup Deletion
    /\ pc[Creator] \in {"new", "idle"} \cup Creation
    /\ \A c \in Requests :
          pc[c] \in {"new", "idle"} \cup Destroy \cup Refresh \cup Policies

-----------------------------------------------------------------------------
(* Nothing runs and nothing is on its way.                                 *)
Quiet == sandbox = "none" /\ ~Provisioning

(* Where the worker counts on that: it is about to make a key and start a   *)
(* Sandbox, or to record that the deletion is complete.                    *)
Calm     == {"revoking", "unkeying", "recovering", "keying", "recording", "posting",
             "blocking", "completing"}
Emptying == {"cleared", "destroyed"}

(* The Runner knows of its one task, unless it lost track of one.          *)
TrackInv ==
    ~untracked =>
       /\ active <=> Provisioning
       /\ \A j, k \in Keys : task[j] # "none" /\ task[k] # "none" => j = k
       /\ active => local # "NOT_FOUND"
       /\ removal = "running" => ~Provisioning
       /\ pc[Worker] \in Calm => Quiet
       /\ pc[Worker] \in Emptying =>
             ~Provisioning /\ (removal = "done" => sandbox = "none")

-----------------------------------------------------------------------------
(* One key is live at most: none is when the worker makes another.         *)
KeyInv ==
    /\ \A j, k \in Keys : keys[j] = "live" /\ keys[k] = "live" => j = k
    /\ pc[Worker] = "keying" => \A k \in Keys : keys[k] = "none"
    /\ pc[Worker] \in {"recording", "posting"} => key \in Keys
    /\ pc[Worker] = "completing" =>
          \A k \in Keys : seen[Worker].token = k => keys[k] # "live"

-----------------------------------------------------------------------------
(* Nothing happens before the Instance is there; and a deletion is under    *)
(* way only of a row that is removed.                                      *)
NewInv ==
    pc[Creator] = "new" =>
       /\ ~exists
       /\ \A c \in Callers : pc[c] \in {"new", "idle"} /\ ~seen[c].done
       /\ \A a \in Actions : job[a] = "none"

RemovedInv ==
    exists /\ ~removed /\ ~undone =>
       /\ job["delete"] = "none" /\ pc[Worker] \notin Deletion
       /\ \A c \in Requests : pc[c] # "d_enqueueing"

-----------------------------------------------------------------------------
(* A row that says its deletion is complete, and every copy of it that a    *)
(* call holds, is right: no key of it is usable, nothing runs and the       *)
(* worker starts nothing.                                                  *)
Counts == exists /\ ~undone /\ ~untracked

Away == pc[Worker] \notin Provision \ {"reading", "failing"}

Unusable(payload) ==
    \A k \in Keys : payload.token = k => keys[k] # "live"

DoneOK(payload) ==
    payload.done => removed /\ Quiet /\ Away /\ Unusable(payload)

DoneInv == Counts => DoneOK(row) /\ \A c \in Callers : DoneOK(seen[c])

IInv == /\ TypeOK /\ PlaceInv /\ TrackInv /\ KeyInv /\ NewInv /\ RemovedInv
        /\ DoneInv

-----------------------------------------------------------------------------
(* Types. *)

LEMMA Names ==
    /\ Worker \in Callers /\ Creator \in Callers /\ Worker # Creator
    /\ Requests \subseteq Callers /\ Worker \notin Requests /\ Creator \notin Requests
    /\ \A c \in Callers : c = Worker \/ c = Creator \/ c \in Requests
BY LifecycleAssumption DEF Callers, Worker, Creator

LEMMA PlaceNames ==
    /\ Provision \subseteq Places /\ Deletion \subseteq Places
    /\ Creation \subseteq Places /\ Destroy \subseteq Places
    /\ Refresh \subseteq Places /\ Policies \subseteq Places
    /\ "idle" \in Places /\ "new" \in Places
BY DEF Places

LEMMA FreshPayload ==
    Fresh \in Payload /\ ~Fresh.done /\ Fresh.token = Nobody
BY DEF Fresh, Payload

(* What the changes of a payload keep. *)
LEMMA WithoutKeyPayload ==
    ASSUME NEW p \in Payload
    PROVE  /\ WithoutKey(p) \in Payload
           /\ WithoutKey(p).done = p.done /\ WithoutKey(p).token = Nobody
BY DEF WithoutKey, Payload

LEMMA WithStatusPayload ==
    ASSUME NEW p \in Payload, NEW s \in {"PROVISIONING", "READY", "FAILED", "DESTROYING"}
    PROVE  /\ WithStatus(p, s) \in Payload
           /\ WithStatus(p, s).done = p.done /\ WithStatus(p, s).token = p.token
BY DEF WithStatus, Payload

LEMMA ApplyPayload ==
    ASSUME NEW p \in Payload, NEW phase \in Phases
    PROVE  /\ Apply(p, phase) \in Payload
           /\ Apply(p, phase).done = p.done /\ Apply(p, phase).token = p.token
<1>1. PICK s \in {"PROVISIONING", "READY", "FAILED", "DESTROYING"}, l \in BOOLEAN :
         Apply(p, phase) = [p EXCEPT !.status = s, !.lost = l]
  <2>1. CASE phase = "NOT_FOUND"
    <3>1. CASE p.status = "PROVISIONING"
      BY <2>1, <3>1 DEF Apply
    <3>2. CASE p.status # "PROVISIONING"
      BY <2>1, <3>2 DEF Apply
    <3> QED
      BY <3>1, <3>2
  <2>2. CASE phase # "NOT_FOUND"
    BY <2>2 DEF Apply, Phases
  <2> QED
    BY <2>1, <2>2
<1> QED
  BY <1>1 DEF Payload

LEMMA DonePayload ==
    ASSUME NEW p \in Payload
    PROVE  /\ [p EXCEPT !.done = TRUE] \in Payload
           /\ [p EXCEPT !.done = TRUE].token = p.token
BY DEF Payload

LEMMA KeyedPayload ==
    ASSUME NEW p \in Payload, NEW k \in Keys \cup {Nobody}
    PROVE  /\ [p EXCEPT !.token = k] \in Payload
           /\ [p EXCEPT !.token = k].done = p.done
BY DEF Payload

LEMMA PhaseType == RunnerTypeOK => Phase \in Phases
<1> SUFFICES ASSUME RunnerTypeOK PROVE Phase \in Phases
  OBVIOUS
<1>1. Observed \in Phases
  BY DEF RunnerTypeOK, Observed, Phases
<1> QED
  BY <1>1 DEF RunnerTypeOK, Phase

LEMMA BecomeMoves ==
    ASSUME TypeOK, NEW c \in Callers, NEW place \in Places, NEW p \in Payload,
           Become(c, place, p)
    PROVE  /\ pc' \in [Callers -> Places] /\ seen' \in [Callers -> Payload]
           /\ pc'[c] = place /\ seen'[c] = IF place = "idle" THEN Fresh ELSE p
           /\ \A d \in Callers : d # c => pc'[d] = pc[d] /\ seen'[d] = seen[d]
BY FreshPayload DEF TypeOK, Become, Places

LEMMA GoMoves ==
    ASSUME TypeOK, NEW c \in Callers, NEW place \in Places, Go(c, place)
    PROVE  /\ pc' \in [Callers -> Places] /\ seen' \in [Callers -> Payload]
           /\ pc'[c] = place /\ seen'[c] = IF place = "idle" THEN Fresh ELSE seen[c]
           /\ \A d \in Callers : d # c => pc'[d] = pc[d] /\ seen'[d] = seen[d]
<1>1. seen[c] \in Payload
  BY DEF TypeOK
<1> QED
  BY <1>1, BecomeMoves DEF Go

LEMMA QueueMoves ==
    ASSUME TypeOK, NEW a \in Actions, Send(a) \/ Finished(a) \/ Failed(a)
    PROVE  /\ job' \in [Actions -> {"none", "waiting", "active"}]
           /\ tries' \in [Actions -> Nat]
           /\ \A b \in Actions : b # a => job'[b] = job[b]
           /\ Finished(a) => job'[a] = "none"
<1>1. CASE Send(a)
  BY <1>1 DEF Send, Finished, TypeOK
<1>2. CASE Finished(a)
  BY <1>2 DEF Finished, TypeOK
<1>3. CASE Failed(a)
  BY <1>2, <1>3 DEF Failed, Finished, TypeOK
<1> QED
  BY <1>1, <1>2, <1>3

(* The end of the worker's job, well or badly.                             *)
LEMMA Ends ==
    ASSUME TypeOK, NEW a \in Actions, Succeed(a) \/ GiveUp(a)
    PROVE  /\ pc' \in [Callers -> Places] /\ seen' \in [Callers -> Payload]
           /\ pc'[Worker] = "idle" /\ seen'[Worker] = Fresh /\ key' = Nobody
           /\ \A d \in Callers : d # Worker => pc'[d] = pc[d] /\ seen'[d] = seen[d]
           /\ job' \in [Actions -> {"none", "waiting", "active"}]
           /\ tries' \in [Actions -> Nat]
           /\ \A b \in Actions : b # a => job'[b] = job[b]
           /\ Succeed(a) => job'[a] = "none"
<1>1. Become(Worker, "idle", Fresh) /\ key' = Nobody /\ (Finished(a) \/ Failed(a))
  BY DEF Succeed, GiveUp
<1>2. Worker \in Callers /\ "idle" \in Places /\ Fresh \in Payload
  BY Names, PlaceNames, FreshPayload
<1>3. Succeed(a) => Finished(a)
  BY DEF Succeed
<1> QED
  BY <1>1, <1>2, <1>3, BecomeMoves, QueueMoves

Handlers == {"failing", "undoing_key", "undoing_row", "retrying"}

LEMMA WorkerHandler ==
    ASSUME NEW place \in {"idle"} \cup Provision \cup Deletion,
           place \notin {"failing", "failing_row", "retrying", "retrying_row"}
    PROVE  /\ Handler(place) \in Handlers \cup {"idle"}
           /\ place \in Deletion => Handler(place) = "retrying"
           /\ place \notin Deletion => Handler(place) # "retrying"
           /\ place \in Provision => Handler(place) # "idle"
           /\ place = "reading" => Handler(place) = "failing"
BY DEF Handler, Undo, Handlers, Provision, Deletion

LEMMA CallHandler ==
    /\ \A place \in {"new", "idle"} \cup Creation : Handler(place) \in {"forgetting", "idle"}
    /\ \A place \in {"new", "idle"} \cup Destroy \cup Refresh \cup Policies :
          Handler(place) \in {"d_restoring", "d_unmarking", "idle"}
BY DEF Handler, Creation, Destroy, Refresh, Policies

(* A step of the worker throws. *)
LEMMA WorkerThrows ==
    ASSUME TypeOK, PlaceInv, Throw(Worker)
    PROVE  /\ pc' \in [Callers -> Places] /\ seen' \in [Callers -> Payload]
           /\ key' \in Keys \cup {Nobody}
           /\ pc'[Worker] \in Handlers \cup {"idle"}
           /\ seen'[Worker] \in {Fresh, seen[Worker]}
           /\ \A d \in Callers : d # Worker => pc'[d] = pc[d] /\ seen'[d] = seen[d]
           /\ job' \in [Actions -> {"none", "waiting", "active"}]
           /\ tries' \in [Actions -> Nat]
           /\ job'["delete"] = job["delete"] \/ pc[Worker] \in Deletion
           /\ pc'[Worker] \in Deletion => pc[Worker] \in Deletion
           /\ pc[Worker] \in {"reading", "failing"} => pc'[Worker] \in {"failing", "idle"}
           /\ pc[Worker] \in Deletion => pc'[Worker] \in {"retrying", "idle"}
<1>1. CASE pc[Worker] \in {"failing", "failing_row"}
  <2>1. GiveUp("provision")
    BY <1>1 DEF Throw, At
  <2> QED
    BY <1>1, <2>1, Ends DEF Actions, Deletion
<1>2. CASE pc[Worker] \in {"retrying", "retrying_row"}
  <2>1. GiveUp("delete")
    BY <1>2 DEF Throw, At
  <2> QED
    BY <1>2, <2>1, Ends DEF Actions, Deletion
<1>3. CASE pc[Worker] \notin {"failing", "failing_row", "retrying", "retrying_row"}
  <2>1. Go(Worker, Handler(pc[Worker])) /\ UNCHANGED <<job, tries, key>>
    BY <1>3 DEF Throw, At, queue
  <2>2. PICK place \in {"idle"} \cup Provision \cup Deletion : place = pc[Worker]
    BY DEF PlaceInv
  <2>3. /\ Handler(place) \in Handlers \cup {"idle"}
        /\ place \in Deletion => Handler(place) = "retrying"
        /\ place \notin Deletion => Handler(place) # "retrying"
        /\ place = "reading" => Handler(place) = "failing"
    BY <1>3, <2>2, WorkerHandler
  <2>4. Handlers \cup {"idle"} \subseteq Places
    BY DEF Handlers, Places, Provision, Deletion
  <2>5. /\ pc' \in [Callers -> Places] /\ seen' \in [Callers -> Payload]
        /\ pc'[Worker] = Handler(place) /\ seen'[Worker] \in {Fresh, seen[Worker]}
        /\ \A d \in Callers : d # Worker => pc'[d] = pc[d] /\ seen'[d] = seen[d]
    BY <2>1, <2>2, <2>3, <2>4, GoMoves, Names
  <2>6. pc'[Worker] \in Deletion => pc[Worker] \in Deletion
    BY <2>2, <2>3, <2>5 DEF Handlers, Deletion
  <2> QED
    BY <1>3, <2>1, <2>2, <2>3, <2>5, <2>6 DEF TypeOK, Deletion
<1> QED
  BY <1>1, <1>2, <1>3

(* A step of a request or of the creation throws. *)
LEMMA CallThrows ==
    ASSUME TypeOK, PlaceInv, NEW c \in Callers, c # Worker, Throw(c)
    PROVE  /\ pc' \in [Callers -> Places] /\ seen' \in [Callers -> Payload]
           /\ c = Creator => pc'[c] \in {"forgetting", "idle"}
           /\ c \in Requests => pc'[c] \in {"d_restoring", "d_unmarking", "idle"}
           /\ seen'[c] \in {Fresh, seen[c]}
           /\ \A d \in Callers : d # c => pc'[d] = pc[d] /\ seen'[d] = seen[d]
           /\ UNCHANGED <<job, tries, key>>
<1>1. pc[c] \notin {"failing", "failing_row", "retrying", "retrying_row"}
  BY Names DEF PlaceInv, Creation, Destroy, Refresh, Policies
<1>2. Go(c, Handler(pc[c])) /\ UNCHANGED <<job, tries, key>>
  BY <1>1 DEF Throw, At, queue
<1>3. /\ c = Creator => Handler(pc[c]) \in {"forgetting", "idle"}
      /\ c \in Requests => Handler(pc[c]) \in {"d_restoring", "d_unmarking", "idle"}
  BY CallHandler DEF PlaceInv
<1>4. Handler(pc[c]) \in Places
  BY <1>3, Names DEF Places, Creation, Destroy
<1> QED
  BY <1>2, <1>3, <1>4, GoMoves

-----------------------------------------------------------------------------
(* How the parts of the invariant survive a step that hardly concerns them. *)

LEMMA TrackKept ==
    ASSUME TrackInv, UNCHANGED runner, untracked => untracked',
           pc'[Worker] \in Calm => pc[Worker] \in Calm \/ Quiet \/ untracked,
           pc'[Worker] \in Emptying => pc[Worker] \in Emptying
    PROVE  TrackInv'
<1> SUFFICES ASSUME ~untracked' PROVE TrackInv'
  BY DEF TrackInv
<1>1. Provisioning' <=> Provisioning
  BY DEF Provisioning, runner
<1>2. Quiet' <=> Quiet
  BY <1>1 DEF Quiet, runner
<1>3. UNCHANGED <<sandbox, local, active, task, removal>>
  BY DEF runner
<1> QED
  BY <1>1, <1>2, <1>3 DEF TrackInv

LEMMA KeyKept ==
    ASSUME KeyInv,
           \A k \in Keys : /\ keys'[k] = "live" => keys[k] = "live"
                           /\ keys[k] = "none" => keys'[k] = "none",
           pc'[Worker] = "keying" => pc[Worker] = "keying",
           pc'[Worker] \in {"recording", "posting"} =>
              pc[Worker] \in {"recording", "posting"} /\ key' = key,
           pc'[Worker] = "completing" =>
              pc[Worker] = "completing" /\ seen'[Worker] = seen[Worker]
    PROVE  KeyInv'
BY DEF KeyInv

Held == {row} \cup {seen[c] : c \in Callers}

(* A payload that was read or held, but for its key and its status.        *)
Derived(q) == q.done => \E p \in Held : p.done /\ q.token \in {p.token, Nobody}

LEMMA HeldPayloads ==
    /\ row \in Held
    /\ \A c \in Callers : seen[c] \in Held
    /\ TypeOK => Held \subseteq Payload
    /\ DoneInv /\ Counts => \A p \in Held : DoneOK(p)
BY DEF Held, TypeOK, DoneInv

LEMMA Copied ==
    ASSUME NEW p \in Held, NEW q, q.done = p.done, q.token \in {p.token, Nobody}
    PROVE  Derived(q)
BY DEF Derived

LEMMA FreshDerived == Derived(Fresh)
BY FreshPayload DEF Derived

LEMMA DoneKept ==
    ASSUME TypeOK, DoneInv, Counts' => Counts,
           Counts => Derived(row') /\ \A c \in Callers : Derived(seen'[c]),
           Counts /\ Counts' /\ removed /\ Quiet /\ Away =>
              /\ removed' /\ Quiet' /\ Away'
              /\ \A k \in Keys : keys[k] # "live" => keys'[k] # "live"
    PROVE  DoneInv'
<1> SUFFICES ASSUME Counts' PROVE DoneOK(row)' /\ \A c \in Callers : DoneOK(seen[c])'
  BY DEF DoneInv
<1>1. ASSUME NEW q, Derived(q), q.done
      PROVE  /\ removed' /\ Quiet' /\ Away'
             /\ \A k \in Keys : q.token = k => keys'[k] # "live"
  <2>1. PICK p \in Held : p.done /\ q.token \in {p.token, Nobody}
    BY <1>1 DEF Derived
  <2>2. removed /\ Quiet /\ Away /\ Unusable(p)
    BY <2>1, HeldPayloads DEF DoneOK
  <2>3. \A k \in Keys : q.token = k => keys[k] # "live"
    BY <2>1, <2>2, RunnerAssumption DEF Unusable, Keys
  <2> QED
    BY <2>2, <2>3
<1>2. DoneOK(row)'
  BY <1>1 DEF DoneOK, Unusable
<1>3. ASSUME NEW c \in Callers PROVE DoneOK(seen[c])'
  BY <1>1 DEF DoneOK, Unusable
<1> QED
  BY <1>2, <1>3

-----------------------------------------------------------------------------
(* Steps of the worker. *)

WorkerFrame ==
    /\ pc' \in [Callers -> Places] /\ seen' \in [Callers -> Payload]
    /\ \A d \in Callers : d # Worker => pc'[d] = pc[d] /\ seen'[d] = seen[d]
    /\ pc'[Worker] \in {"idle"} \cup Provision \cup Deletion
    /\ job' \in [Actions -> {"none", "waiting", "active"}]
    /\ tries' \in [Actions -> Nat]
    /\ job'["delete"] # "none" \/ pc'[Worker] \in Deletion =>
          job["delete"] # "none" \/ pc[Worker] \in Deletion
    /\ pc[Worker] # "idle" \/ \E a \in Actions : job[a] # "none"
    /\ row' \in Payload /\ key' \in Keys \cup {Nobody}
    /\ UNCHANGED <<exists, removed, accepted, undone>>
    /\ events' \in 0 .. Events
    /\ untracked' \in BOOLEAN /\ (untracked => untracked')

LEMMA Started ==
    ASSUME NewInv, pc[Worker] \notin {"idle", "new"} \/ \E a \in Actions : job[a] # "none"
    PROVE  pc[Creator] # "new"
BY Names DEF NewInv

LEMMA FramedStep ==
    ASSUME IInv, WorkerFrame, RunnerTypeOK', keys' \in [Keys -> {"none", "live", "blocked"}],
           TrackInv', KeyInv', DoneInv'
    PROVE  IInv'
<1>1. TypeOK'
  BY DEF WorkerFrame, TypeOK, Places, IInv
<1>2. PlaceInv'
  BY Names DEF WorkerFrame, PlaceInv, IInv
<1>3. NewInv'
  <2>1. pc[Worker] # "new"
    BY DEF IInv, PlaceInv, Provision, Deletion
  <2>2. pc[Creator] # "new"
    BY <2>1, Started DEF WorkerFrame, IInv
  <2> QED
    BY <2>2, Names DEF WorkerFrame, NewInv
<1>4. RemovedInv'
  BY Names DEF WorkerFrame, RemovedInv, IInv
<1> QED
  BY <1>1, <1>2, <1>3, <1>4 DEF IInv

(* A step of the worker that calls neither the Runner nor makes a key.     *)
Mild ==
    /\ WorkerFrame
    /\ UNCHANGED <<runner, untracked>>
    /\ keys' \in [Keys -> {"none", "live", "blocked"}]
    /\ \A k \in Keys : /\ keys'[k] = "live" => keys[k] = "live"
                       /\ keys[k] = "none" => keys'[k] = "none"
    /\ Counts => Derived(row') /\ Derived(seen'[Worker])
    /\ Counts /\ removed /\ Away => Away'
    /\ pc'[Worker] \in Calm => pc[Worker] \in Calm \/ Quiet \/ untracked
    /\ pc'[Worker] \notin Emptying \cup {"keying", "completing"}
    /\ pc'[Worker] \in {"recording", "posting"} =>
          pc[Worker] \in {"recording", "posting"} /\ key' = key

LEMMA OthersDerived ==
    ASSUME \A d \in Callers : d # Worker => seen'[d] = seen[d], Derived(seen'[Worker])
    PROVE  \A c \in Callers : Derived(seen'[c])
BY HeldPayloads, Copied

LEMMA MildStep ==
    ASSUME IInv, Mild
    PROVE  IInv'
<1>1. WorkerFrame /\ RunnerTypeOK'
  BY DEF Mild, runner, RunnerTypeOK, IInv, TypeOK
<1>2. TrackInv'
  BY TrackKept DEF Mild, IInv
<1>3. KeyInv'
  BY KeyKept DEF Mild, IInv
<1>4. DoneInv'
  <2>1. Counts' => Counts
    BY <1>1 DEF Counts, WorkerFrame
  <2>2. Counts => \A c \in Callers : Derived(seen'[c])
    BY <1>1, OthersDerived DEF Mild, WorkerFrame
  <2>3. Quiet' <=> Quiet
    BY DEF Mild, Quiet, Provisioning, runner
  <2> QED
    BY <1>1, <2>1, <2>2, <2>3, DoneKept DEF Mild, WorkerFrame, IInv
<1> QED
  BY <1>1, <1>2, <1>3, <1>4, FramedStep DEF Mild

(* It throws, and nothing else happens. *)
LEMMA ThrowMild ==
    ASSUME IInv, Throw(Worker), pc[Worker] # "idle",
           UNCHANGED <<runner, record, keys, history>>, events' \in 0 .. Events
    PROVE  Mild
<1>1. TypeOK /\ PlaceInv
  BY DEF IInv
<1>2. /\ pc' \in [Callers -> Places] /\ seen' \in [Callers -> Payload]
      /\ key' \in Keys \cup {Nobody}
      /\ pc'[Worker] \in Handlers \cup {"idle"}
      /\ seen'[Worker] \in {Fresh, seen[Worker]}
      /\ \A d \in Callers : d # Worker => pc'[d] = pc[d] /\ seen'[d] = seen[d]
      /\ job' \in [Actions -> {"none", "waiting", "active"}]
      /\ tries' \in [Actions -> Nat]
      /\ job'["delete"] = job["delete"] \/ pc[Worker] \in Deletion
      /\ pc'[Worker] \in Deletion => pc[Worker] \in Deletion
      /\ pc[Worker] \in {"reading", "failing"} => pc'[Worker] \in {"failing", "idle"}
      /\ pc[Worker] \in Deletion => pc'[Worker] \in {"retrying", "idle"}
  BY <1>1, WorkerThrows
<1>3. UNCHANGED <<exists, removed, row, keys, accepted, undone, untracked>>
  BY DEF record, history
<1>4. WorkerFrame
  <2>1. pc'[Worker] \in {"idle"} \cup Provision \cup Deletion
    BY <1>2 DEF Handlers, Provision, Deletion
  <2> QED
    BY <1>1, <1>2, <1>3, <2>1 DEF WorkerFrame, TypeOK
<1>5. Derived(row') /\ Derived(seen'[Worker])
  BY <1>2, <1>3, HeldPayloads, Copied, FreshDerived, Names
<1>6. Away => Away'
  <2>1. CASE pc[Worker] \in {"reading", "failing", "idle"}
    BY <1>2, <2>1 DEF Away, Provision
  <2>2. CASE pc[Worker] \in Deletion
    BY <1>2, <2>2 DEF Away, Provision
  <2>3. CASE pc[Worker] \in Provision \ {"reading", "failing"}
    BY <2>3 DEF Away
  <2> QED
    BY <1>1, <2>1, <2>2, <2>3 DEF PlaceInv
<1>7. pc'[Worker] \notin Calm \cup Emptying
  BY <1>2 DEF Handlers, Calm, Emptying
<1> QED
  BY <1>1, <1>3, <1>4, <1>5, <1>6, <1>7 DEF Mild, TypeOK, Calm

(* Its job ends, after at most one last save. *)
LEMMA EndMild ==
    ASSUME IInv, NEW a \in Actions, Succeed(a) \/ GiveUp(a),
           a = "delete" => pc[Worker] \in Deletion \/ job["delete"] # "none",
           pc[Worker] # "idle",
           UNCHANGED <<runner, exists, removed, keys, history>>,
           events' \in 0 .. Events, row' \in Payload, Counts => Derived(row')
    PROVE  Mild
<1>1. TypeOK
  BY DEF IInv
<1>2. /\ pc' \in [Callers -> Places] /\ seen' \in [Callers -> Payload]
      /\ pc'[Worker] = "idle" /\ seen'[Worker] = Fresh /\ key' = Nobody
      /\ \A d \in Callers : d # Worker => pc'[d] = pc[d] /\ seen'[d] = seen[d]
      /\ job' \in [Actions -> {"none", "waiting", "active"}]
      /\ tries' \in [Actions -> Nat]
      /\ \A b \in Actions : b # a => job'[b] = job[b]
  BY <1>1, Ends
<1>3. UNCHANGED <<accepted, undone, untracked>>
  BY DEF history
<1>4. WorkerFrame
  BY <1>1, <1>2, <1>3 DEF WorkerFrame, TypeOK, Actions, Deletion
<1> QED
  BY <1>1, <1>2, <1>3, <1>4, FreshDerived
     DEF Mild, TypeOK, Calm, Emptying, Away, Provision

(* It goes on to another place. *)
LEMMA GoMild ==
    ASSUME IInv, NEW place \in (Provision \cup Deletion) \ Emptying, NEW p \in Payload,
           Become(Worker, place, p), pc[Worker] # "idle",
           place \in Deletion => pc[Worker] \in Deletion,
           Counts => Derived(p) /\ Derived(row'),
           row' \in Payload, UNCHANGED <<runner, exists, removed, queue, key, events, history>>,
           keys' \in [Keys -> {"none", "live", "blocked"}],
           \A k \in Keys : /\ keys'[k] = "live" => keys[k] = "live"
                           /\ keys[k] = "none" => keys'[k] = "none",
           Counts /\ removed => place \in Deletion \/ ~Away,
           place \in Calm => pc[Worker] \in Calm \/ Quiet \/ untracked,
           place \notin {"keying", "completing"},
           place \in {"recording", "posting"} => pc[Worker] \in {"recording", "posting"}
    PROVE  Mild
<1>1. TypeOK
  BY DEF IInv
<1>2. place \in Places /\ place # "idle"
  BY PlaceNames DEF Provision, Deletion
<1>3. /\ pc' \in [Callers -> Places] /\ seen' \in [Callers -> Payload]
      /\ pc'[Worker] = place /\ seen'[Worker] = p
      /\ \A d \in Callers : d # Worker => pc'[d] = pc[d] /\ seen'[d] = seen[d]
  BY <1>1, <1>2, BecomeMoves, Names
<1>4. UNCHANGED <<job, tries, accepted, undone, untracked>>
  BY DEF queue, history
<1>5. WorkerFrame
  BY <1>1, <1>3, <1>4 DEF WorkerFrame, TypeOK
<1>6. Counts /\ removed /\ Away => Away'
  <2>1. place \in Deletion => place \notin Provision
    BY DEF Provision, Deletion
  <2> QED
    BY <1>3, <2>1 DEF Away
<1> QED
  BY <1>3, <1>4, <1>5, <1>6 DEF Mild

LEMMA SeenPayload ==
    TypeOK => seen[Worker] \in Payload /\ row \in Payload /\ seen[Worker] \in Held /\ row \in Held
BY Names DEF TypeOK, Held

LEMMA ActionNames == "provision" \in Actions /\ "delete" \in Actions
BY DEF Actions

LEMMA NoKeyChange ==
    ASSUME TypeOK, UNCHANGED keys
    PROVE  /\ keys' \in [Keys -> {"none", "live", "blocked"}]
           /\ \A k \in Keys : /\ keys'[k] = "live" => keys[k] = "live"
                              /\ keys[k] = "none" => keys'[k] = "none"
BY DEF TypeOK

(* The job is put aside, or the Instance is to be provisioned.             *)
LEMMA Reads ==
    ASSUME IInv, Read
    PROVE  IInv'
<1>1. TypeOK /\ pc[Worker] = "reading"
  BY DEF IInv, Read, At
<1>2. UNCHANGED <<runner, exists, removed, row, keys, events, history>>
  BY DEF Read, record
<1>3. /\ row' \in Payload /\ Derived(row') /\ row \in Payload /\ Derived(row)
      /\ events' \in 0 .. Events
  BY <1>1, <1>2, SeenPayload, Copied DEF TypeOK
<1>4. CASE Succeed("provision")
  BY <1>1, <1>2, <1>3, <1>4, EndMild, MildStep, ActionNames
<1>5. CASE Live /\ Become(Worker, "accepting", row) /\ UNCHANGED <<queue, key>>
  <2>1. "accepting" \in (Provision \cup Deletion) \ Emptying
        /\ "accepting" \notin Calm \cup Deletion
    BY DEF Provision, Emptying, Calm, Deletion
  <2> QED
    BY <1>1, <1>2, <1>3, <1>5, <2>1, GoMild, MildStep, NoKeyChange DEF Live
<1> QED
  BY <1>4, <1>5 DEF Read

(* A save of the worker, and where it goes on. *)
LEMMA SavesAndGoes ==
    ASSUME IInv, NEW place \in (Provision \cup Deletion) \ Emptying,
           NEW p \in Payload, NEW q \in Payload,
           Save(p), Become(Worker, place, q), pc[Worker] # "idle",
           pc[Worker] \in Provision \ {"reading", "failing"}, place \notin Deletion,
           Counts => Derived(p) /\ Derived(q),
           UNCHANGED <<runner, queue, key, events, history, keys>>,
           place \in Calm => pc[Worker] \in Calm,
           place \notin {"keying", "completing"},
           place \in {"recording", "posting"} => pc[Worker] \in {"recording", "posting"}
    PROVE  IInv'
<1>1. TypeOK
  BY DEF IInv
<1>2. row' = p /\ UNCHANGED <<exists, removed>>
  BY DEF Save
<1>3. Mild
  BY <1>1, <1>2, GoMild, NoKeyChange DEF Away
<1> QED
  BY <1>3, MildStep

LEMMA Accepts ==
    ASSUME IInv, Accept
    PROVE  IInv'
<1>1. TypeOK /\ pc[Worker] = "accepting" /\ UNCHANGED <<runner, keys, events, history>>
  BY DEF IInv, Accept, At
<1>2. CASE SaveThrows(Worker)
  BY <1>1, <1>2, ThrowMild, MildStep DEF SaveThrows, TypeOK
<1>3. CASE ~SaveThrows(Worker)
  <2>1. PICK p : p = WithStatus(seen[Worker], "PROVISIONING")
    OBVIOUS
  <2>2. p \in Payload /\ Derived(p)
    BY <1>1, <2>1, SeenPayload, WithStatusPayload, Copied
  <2>3. Save(p) /\ Become(Worker, "observing", p) /\ UNCHANGED <<queue, key>>
    BY <1>3, <2>1 DEF Accept
  <2>4. /\ "observing" \in (Provision \cup Deletion) \ Emptying
        /\ "observing" \notin Calm \cup Deletion
        /\ "accepting" \in Provision \ {"reading", "failing"}
    BY DEF Provision, Emptying, Calm, Deletion
  <2> QED
    BY <1>1, <2>2, <2>3, <2>4, SavesAndGoes
<1> QED
  BY <1>2, <1>3

LEMMA WaitsInVain ==
    ASSUME IInv, WaitTimesOut
    PROVE  IInv'
BY ThrowMild, MildStep DEF WaitTimesOut, At, IInv, TypeOK

LEMMA UndoPlace == Undo \in {"undoing_key", "undoing_row"}
BY DEF Undo

LEMMA Settles ==
    ASSUME IInv, Settle
    PROVE  IInv'
<1>1. TypeOK /\ pc[Worker] = "settling" /\ UNCHANGED <<runner, keys, events, history>>
  BY DEF IInv, Settle, At
<1>2. CASE SaveThrows(Worker)
  BY <1>1, <1>2, ThrowMild, MildStep DEF SaveThrows, TypeOK
<1>3. seen[Worker] \in Payload /\ Derived(seen[Worker])
  BY <1>1, SeenPayload, Copied
<1>4. CASE Save(seen[Worker]) /\ Succeed("provision")
  <2>1. row' = seen[Worker] /\ UNCHANGED <<exists, removed>>
    BY <1>4 DEF Save
  <2> QED
    BY <1>1, <1>3, <1>4, <2>1, EndMild, MildStep, ActionNames DEF TypeOK
<1>5. ASSUME NEW place \in {"clearing", "undoing_key", "undoing_row"},
             Save(seen[Worker]), Go(Worker, place), UNCHANGED <<queue, key>>
      PROVE  IInv'
  <2>1. /\ place \in (Provision \cup Deletion) \ Emptying
        /\ place \notin Calm \cup Deletion
        /\ "settling" \in Provision \ {"reading", "failing"}
    BY DEF Provision, Emptying, Calm, Deletion
  <2>2. place \notin {"keying", "completing", "recording", "posting"}
    OBVIOUS
  <2> QED
    BY <1>1, <1>3, <1>5, <2>1, <2>2, SavesAndGoes DEF Go
<1> QED
  BY <1>2, <1>4, <1>5, UndoPlace DEF Settle

(* The key that is revoked was recorded. *)
LEMMA Revokes ==
    ASSUME IInv, Revoke
    PROVE  IInv'
<1>1. /\ TypeOK /\ pc[Worker] = "revoking"
      /\ UNCHANGED <<runner, exists, removed, row, queue, key, events, history>>
  BY DEF IInv, Revoke, At, record
<1>2. /\ keys' \in [Keys -> {"none", "live", "blocked"}]
      /\ \A k \in Keys : /\ keys'[k] = "live" => keys[k] = "live"
                         /\ keys[k] = "none" => keys'[k] = "none"
  BY <1>1 DEF Revoke, TypeOK
<1>3. /\ Become(Worker, "unkeying", seen[Worker])
      /\ seen[Worker] \in Payload /\ Derived(seen[Worker])
      /\ row' \in Payload /\ Derived(row')
  BY <1>1, SeenPayload, Copied DEF Revoke, Go
<1>4. /\ "unkeying" \in (Provision \cup Deletion) \ Emptying
      /\ "revoking" \in Calm /\ "unkeying" \notin Deletion
      /\ "revoking" \in Provision \ {"reading", "failing"}
  BY DEF Provision, Emptying, Calm, Deletion
<1> QED
  BY <1>1, <1>2, <1>3, <1>4, GoMild, MildStep DEF Away

LEMMA Unkeys ==
    ASSUME IInv, Unkey
    PROVE  IInv'
<1>1. TypeOK /\ pc[Worker] = "unkeying" /\ UNCHANGED <<runner, keys, events, history>>
  BY DEF IInv, Unkey, At
<1>2. CASE SaveThrows(Worker)
  BY <1>1, <1>2, ThrowMild, MildStep DEF SaveThrows, TypeOK
<1>3. CASE ~SaveThrows(Worker)
  <2>1. PICK p : p = WithoutKey(seen[Worker])
    OBVIOUS
  <2>2. p \in Payload /\ Derived(p)
    BY <1>1, <2>1, SeenPayload, WithoutKeyPayload, Copied
  <2>3. Save(p) /\ Become(Worker, "recovering", p) /\ UNCHANGED <<queue, key>>
    BY <1>3, <2>1 DEF Unkey
  <2>4. /\ "recovering" \in (Provision \cup Deletion) \ Emptying
        /\ "unkeying" \in Calm /\ "recovering" \notin Deletion
        /\ "unkeying" \in Provision \ {"reading", "failing"}
    BY DEF Provision, Emptying, Calm, Deletion
  <2> QED
    BY <1>1, <2>2, <2>3, <2>4, SavesAndGoes
<1> QED
  BY <1>2, <1>3

(* No copy of a row whose deletion is complete is around then.             *)
LEMMA Records ==
    ASSUME IInv, Record
    PROVE  IInv'
<1>1. TypeOK /\ pc[Worker] = "recording" /\ UNCHANGED <<runner, keys, events, history>>
  BY DEF IInv, Record, At
<1>2. CASE SaveThrows(Worker)
  BY <1>1, <1>2, ThrowMild, MildStep DEF SaveThrows, TypeOK
<1>3. CASE ~SaveThrows(Worker)
  <2>1. PICK p : p = [seen[Worker] EXCEPT !.token = key]
    OBVIOUS
  <2>2. p \in Payload /\ p.done = seen[Worker].done
    BY <1>1, <2>1, SeenPayload, KeyedPayload DEF TypeOK
  <2>3. Counts => Derived(p)
    <3>1. ~Away
      BY <1>1 DEF Away, Provision
    <3>2. Counts => ~seen[Worker].done
      BY <1>1, <3>1, HeldPayloads, SeenPayload DEF IInv, DoneOK
    <3> QED
      BY <2>2, <3>2 DEF Derived
  <2>4. Save(p) /\ Become(Worker, "posting", p) /\ UNCHANGED <<queue, key>>
    BY <1>3, <2>1 DEF Record
  <2>5. /\ "posting" \in (Provision \cup Deletion) \ Emptying
        /\ "recording" \in Calm /\ "posting" \notin Deletion
        /\ "recording" \in Provision \ {"reading", "failing"}
    BY DEF Provision, Emptying, Calm, Deletion
  <2> QED
    BY <1>1, <2>2, <2>3, <2>4, <2>5, SavesAndGoes
<1> QED
  BY <1>2, <1>3

LEMMA Notes ==
    ASSUME IInv, Note
    PROVE  IInv'
<1>1. TypeOK /\ pc[Worker] = "noting" /\ UNCHANGED <<runner, keys, events, history>>
  BY DEF IInv, Note, At
<1>2. CASE SaveThrows(Worker)
  BY <1>1, <1>2, ThrowMild, MildStep DEF SaveThrows, TypeOK
<1>3. CASE ~SaveThrows(Worker)
  <2>1. seen[Worker] \in Payload /\ Derived(seen[Worker])
    BY <1>1, SeenPayload, Copied
  <2>2. Save(seen[Worker]) /\ Become(Worker, "waiting", seen[Worker]) /\ UNCHANGED <<queue, key>>
    BY <1>3 DEF Note, Go
  <2>3. /\ "waiting" \in (Provision \cup Deletion) \ Emptying
        /\ "waiting" \notin Calm \cup Deletion
        /\ "noting" \in Provision \ {"reading", "failing"}
    BY DEF Provision, Emptying, Calm, Deletion
  <2> QED
    BY <1>1, <2>1, <2>2, <2>3, SavesAndGoes
<1> QED
  BY <1>2, <1>3

LEMMA UndoesKey ==
    ASSUME IInv, UndoKey
    PROVE  IInv'
<1>1. /\ TypeOK /\ pc[Worker] = "undoing_key"
      /\ UNCHANGED <<runner, exists, removed, row, queue, key, events, history>>
  BY DEF IInv, UndoKey, At, record
<1>2. /\ keys' \in [Keys -> {"none", "live", "blocked"}]
      /\ \A k \in Keys : /\ keys'[k] = "live" => keys[k] = "live"
                         /\ keys[k] = "none" => keys'[k] = "none"
  BY <1>1 DEF UndoKey, TypeOK
<1>3. /\ Become(Worker, "undoing_row", seen[Worker])
      /\ seen[Worker] \in Payload /\ Derived(seen[Worker])
      /\ row' \in Payload /\ Derived(row')
  BY <1>1, SeenPayload, Copied DEF UndoKey, Go
<1>4. /\ "undoing_row" \in (Provision \cup Deletion) \ Emptying
      /\ "undoing_row" \notin Deletion \cup Calm
      /\ "undoing_key" \in Provision \ {"reading", "failing"}
  BY DEF Provision, Emptying, Calm, Deletion
<1> QED
  BY <1>1, <1>2, <1>3, <1>4, GoMild, MildStep DEF Away

LEMMA UndoesRow ==
    ASSUME IInv, UndoRow
    PROVE  IInv'
<1>1. /\ TypeOK /\ pc[Worker] = "undoing_row"
      /\ UNCHANGED <<runner, queue, key, events, history, keys>>
  BY DEF IInv, UndoRow, At
<1>2. PICK p : p = WithoutKey(seen[Worker])
  OBVIOUS
<1>3. /\ p \in Payload /\ Derived(p) /\ Derived(seen[Worker]) /\ seen[Worker] \in Payload
      /\ row \in Payload /\ Derived(row)
  BY <1>1, <1>2, SeenPayload, WithoutKeyPayload, Copied
<1>4. /\ row' \in {p, row} /\ UNCHANGED <<exists, removed>>
  BY <1>2 DEF UndoRow, Save, record
<1>5. Become(Worker, "failing", seen[Worker])
  BY DEF UndoRow, Go
<1>6. /\ "failing" \in (Provision \cup Deletion) \ Emptying
      /\ "failing" \notin Deletion \cup Calm
      /\ "undoing_row" \in Provision \ {"reading", "failing"}
  BY DEF Provision, Emptying, Calm, Deletion
<1>7. row' \in Payload /\ Derived(row')
  BY <1>3, <1>4
<1> QED
  BY <1>1, <1>3, <1>4, <1>5, <1>6, <1>7, GoMild, MildStep, NoKeyChange DEF Away

LEMMA FailReads ==
    ASSUME IInv, FailRead
    PROVE  IInv'
<1>1. TypeOK /\ pc[Worker] = "failing"
  BY DEF IInv, FailRead, At
<1>2. UNCHANGED <<runner, exists, removed, row, keys, events, history>>
  BY DEF FailRead, record
<1>3. /\ row' \in Payload /\ Derived(row') /\ row \in Payload /\ Derived(row)
      /\ events' \in 0 .. Events
  BY <1>1, <1>2, SeenPayload, Copied DEF TypeOK
<1>4. CASE GiveUp("provision")
  BY <1>1, <1>2, <1>3, <1>4, EndMild, MildStep, ActionNames
<1>5. CASE Live /\ Become(Worker, "failing_row", row) /\ UNCHANGED <<queue, key>>
  <2>1. "failing_row" \in (Provision \cup Deletion) \ Emptying
        /\ "failing_row" \notin Calm \cup Deletion
    BY DEF Provision, Emptying, Calm, Deletion
  <2> QED
    BY <1>1, <1>2, <1>3, <1>5, <2>1, GoMild, MildStep, NoKeyChange DEF Live
<1> QED
  BY <1>4, <1>5 DEF FailRead

LEMMA FailSaves ==
    ASSUME IInv, FailSave
    PROVE  IInv'
<1>1. TypeOK /\ pc[Worker] = "failing_row" /\ UNCHANGED <<runner, keys, events, history>>
  BY DEF IInv, FailSave, At
<1>2. CASE SaveThrows(Worker)
  BY <1>1, <1>2, ThrowMild, MildStep DEF SaveThrows, TypeOK
<1>3. CASE ~SaveThrows(Worker)
  <2>1. PICK s \in {"PROVISIONING", "READY", "FAILED", "DESTROYING"} :
           Save(WithStatus(seen[Worker], s)) /\ GiveUp("provision")
    BY <1>3 DEF FailSave
  <2>2. PICK p : p = WithStatus(seen[Worker], s)
    OBVIOUS
  <2>3. p \in Payload /\ Derived(p)
    BY <1>1, <2>2, SeenPayload, WithStatusPayload, Copied
  <2>4. row' = p /\ UNCHANGED <<exists, removed>>
    BY <2>1, <2>2 DEF Save
  <2> QED
    BY <1>1, <2>1, <2>3, <2>4, EndMild, MildStep, ActionNames DEF TypeOK
<1> QED
  BY <1>2, <1>3

-----------------------------------------------------------------------------
(* The worker and the Runner. *)

LEMMA GoFrame ==
    ASSUME TypeOK, NEW place \in Provision \cup Deletion, NEW p \in Payload,
           Become(Worker, place, p), pc[Worker] # "idle",
           place \in Deletion => pc[Worker] \in Deletion,
           row' \in Payload, key' \in Keys \cup {Nobody},
           UNCHANGED <<exists, removed, queue, events, accepted, undone>>,
           untracked' \in BOOLEAN, untracked => untracked'
    PROVE  /\ WorkerFrame
           /\ pc'[Worker] = place /\ seen'[Worker] = p
<1>1. place \in Places /\ place # "idle"
  BY PlaceNames DEF Provision, Deletion
<1>2. /\ pc' \in [Callers -> Places] /\ seen' \in [Callers -> Payload]
      /\ pc'[Worker] = place /\ seen'[Worker] = p
      /\ \A d \in Callers : d # Worker => pc'[d] = pc[d] /\ seen'[d] = seen[d]
  BY <1>1, BecomeMoves, Names
<1>3. UNCHANGED <<job, tries>>
  BY DEF queue
<1> QED
  BY <1>2, <1>3 DEF WorkerFrame, TypeOK

LEMMA CallStep ==
    ASSUME IInv, NEW place \in Provision \cup Deletion, NEW p \in Payload,
           Become(Worker, place, p),
           pc[Worker] \in (Provision \ {"reading", "failing"}) \cup Deletion,
           place \in Deletion <=> pc[Worker] \in Deletion,
           Derived(p),
           UNCHANGED <<record, keys, queue, key, events, accepted, undone>>,
           untracked' \in BOOLEAN, untracked => untracked',
           RunnerTypeOK', TrackInv',
           pc[Worker] \in Deletion /\ Quiet => Quiet',
           place \notin {"keying", "recording", "posting", "completing"}
    PROVE  IInv'
<1>1. TypeOK /\ pc[Worker] # "idle"
  BY DEF IInv, Provision, Deletion
<1>2. /\ row' = row /\ row \in Payload /\ key' \in Keys \cup {Nobody}
      /\ UNCHANGED <<exists, removed>>
  BY <1>1 DEF record, TypeOK
<1>3. /\ WorkerFrame
      /\ pc'[Worker] = place /\ seen'[Worker] = p
  BY <1>1, <1>2, GoFrame
<1>4. KeyInv'
  BY <1>1, <1>3, KeyKept, NoKeyChange DEF IInv
<1>5. Derived(row')
  BY <1>1, <1>2, SeenPayload, Copied
<1>6. DoneInv'
  <2>1. Counts' => Counts
    BY <1>2 DEF Counts
  <2>2. \A c \in Callers : Derived(seen'[c])
    BY <1>3, OthersDerived DEF WorkerFrame
  <2>3. Away => Away'
    BY <1>3 DEF Away, Provision, Deletion
  <2>4. Away => pc[Worker] \in Deletion
    BY DEF Away
  <2> QED
    BY <1>1, <1>2, <1>5, <2>1, <2>2, <2>3, <2>4, DoneKept DEF IInv
<1> QED
  BY <1>1, <1>3, <1>4, <1>6, NoKeyChange, FramedStep

(* A Runner that knows what runs says NOT_FOUND only when nothing does.     *)
LEMMA NothingFound ==
    ASSUME TypeOK, TrackInv, ~untracked, Phase = "NOT_FOUND"
    PROVE  Quiet
<1>1. ~active
  BY DEF TrackInv, Phase
<1>2. Observed = "NOT_FOUND"
  BY <1>1 DEF Phase
<1>3. sandbox = "none"
  BY <1>2 DEF Observed, TypeOK, RunnerTypeOK
<1> QED
  BY <1>1, <1>3 DEF Quiet, TrackInv

LEMMA GetTracks ==
    ASSUME TypeOK, TrackInv, Get, untracked' = untracked,
           pc'[Worker] \in Calm => Quiet \/ untracked,
           pc'[Worker] \notin Emptying
    PROVE  TrackInv' /\ RunnerTypeOK'
<1>1. UNCHANGED <<sandbox, provider, active, task, removal>> /\ local' = Phase
  BY DEF Get
<1>2. RunnerTypeOK'
  BY <1>1, PhaseType DEF TypeOK, RunnerTypeOK
<1>3. (Provisioning' <=> Provisioning) /\ (Quiet' <=> Quiet)
  BY <1>1 DEF Provisioning, Quiet
<1>4. active => local' = local
  BY <1>1 DEF Phase
<1> QED
  BY <1>1, <1>2, <1>3, <1>4 DEF TrackInv

(* An answer of GET, and what the worker makes of it. *)
LEMMA Gets ==
    ASSUME IInv, NEW place \in Provision \ (Emptying \cup {"keying", "recording", "posting"}),
           NEW p \in Payload, Derived(p), Get, Become(Worker, place, p),
           pc[Worker] \in Provision \ {"reading", "failing"},
           place \in Calm => Phase = "NOT_FOUND",
           UNCHANGED <<record, keys, queue, key, events, history>>
    PROVE  IInv'
<1>1. TypeOK /\ UNCHANGED <<accepted, undone, untracked>>
  BY DEF IInv, history
<1>2. place \notin Deletion /\ pc[Worker] \notin Deletion /\ place # "completing"
  BY DEF Provision, Deletion
<1>3. pc'[Worker] = place
  BY <1>1, BecomeMoves, PlaceNames, Names
<1>4. TrackInv' /\ RunnerTypeOK'
  BY <1>1, <1>3, GetTracks, NothingFound DEF IInv
<1> QED
  BY <1>1, <1>2, <1>4, CallStep DEF TypeOK

LEMMA Observes ==
    ASSUME IInv, Observe
    PROVE  IInv'
<1>1. /\ TypeOK /\ pc[Worker] = "observing" /\ Get
      /\ UNCHANGED <<record, keys, queue, key, events, history>>
  BY DEF IInv, Observe, At
<1>2. PICK p : p = Apply(seen[Worker], Phase)
  OBVIOUS
<1>3. /\ p \in Payload /\ Derived(p)
      /\ seen[Worker] \in Payload /\ Derived(seen[Worker])
  BY <1>1, <1>2, SeenPayload, PhaseType, ApplyPayload, Copied DEF TypeOK
<1>4. "observing" \in Provision \ {"reading", "failing"}
  BY DEF Provision
<1>5. \/ Become(Worker, "settling", p)
      \/ \E place \in {"waiting", "clearing"} : Become(Worker, place, seen[Worker])
      \/ /\ Phase = "NOT_FOUND"
         /\ \E place \in {"revoking", "recovering"} : Become(Worker, place, seen[Worker])
  BY <1>2 DEF Observe, Go
<1>6. /\ {"settling", "waiting", "clearing", "revoking", "recovering"} \subseteq
            Provision \ (Emptying \cup {"keying", "recording", "posting"})
      /\ \A place \in {"settling", "waiting", "clearing"} : place \notin Calm
  BY DEF Provision, Emptying, Calm
<1> QED
  BY <1>1, <1>3, <1>4, <1>5, <1>6, Gets

LEMMA Waits ==
    ASSUME IInv, Wait
    PROVE  IInv'
<1>1. /\ TypeOK /\ pc[Worker] = "waiting" /\ Get
      /\ UNCHANGED <<record, keys, queue, key, events, history>>
  BY DEF IInv, Wait, At
<1>2. PICK p : p = Apply(seen[Worker], Phase)
  OBVIOUS
<1>3. p \in Payload /\ Derived(p)
  BY <1>1, <1>2, SeenPayload, PhaseType, ApplyPayload, Copied DEF TypeOK
<1>4. "waiting" \in Provision \ {"reading", "failing"}
  BY DEF Provision
<1>5. Become(Worker, "settling", p)
  BY <1>2 DEF Wait
<1>6. /\ "settling" \in Provision \ (Emptying \cup {"keying", "recording", "posting"})
      /\ "settling" \notin Calm
  BY DEF Provision, Emptying, Calm
<1> QED
  BY <1>1, <1>3, <1>4, <1>5, <1>6, Gets

(* A DELETE: a task beside it is one the Runner has lost track of.          *)
LEMMA DeletesSandbox ==
    ASSUME IInv,
           \/ pc[Worker] = "clearing" /\ DestroySandbox("cleared")
           \/ pc[Worker] = "destroying" /\ DestroySandbox("destroyed")
    PROVE  IInv'
<1>1. TypeOK
  BY DEF IInv
<1>2. PICK place \in Emptying :
         /\ Become(Worker, place, seen[Worker])
         /\ place \in Deletion <=> pc[Worker] \in Deletion
         /\ place \in Provision \cup Deletion
         /\ place \notin Calm
         /\ pc[Worker] \in (Provision \ {"reading", "failing"}) \cup Deletion
  BY DEF DestroySandbox, Go, Emptying, Provision, Deletion, Calm
<1>3. /\ Delete /\ untracked' = (untracked \/ Provisioning)
      /\ UNCHANGED <<record, keys, queue, key, events, accepted, undone>>
  BY DEF DestroySandbox
<1>4. /\ local' = "DESTROYING" /\ removal' = "running"
      /\ sandbox = "none" => sandbox' = "none"
      /\ sandbox' \in {"none", "deleting"}
      /\ UNCHANGED <<provider, active, task>>
  BY <1>3 DEF Delete
<1>5. untracked' \in BOOLEAN /\ (untracked => untracked')
  BY <1>3 DEF Provisioning
<1>6. RunnerTypeOK'
  BY <1>1, <1>4 DEF TypeOK, RunnerTypeOK, Phases
<1>7. Provisioning' <=> Provisioning
  BY <1>4 DEF Provisioning
<1>8. seen[Worker] \in Payload /\ Derived(seen[Worker])
  BY <1>1, SeenPayload, Copied
<1>9. pc'[Worker] = place
  BY <1>1, <1>2, <1>8, BecomeMoves, PlaceNames, Names
<1>10. TrackInv'
  <2> SUFFICES ASSUME ~untracked' PROVE TrackInv'
    BY DEF TrackInv
  <2>1. ~untracked /\ ~Provisioning
    BY <1>3
  <2> QED
    BY <1>2, <1>4, <1>7, <1>9, <2>1 DEF TrackInv, IInv
<1>11. Quiet => Quiet'
  BY <1>4, <1>7 DEF Quiet
<1>12. place \notin {"keying", "recording", "posting", "completing"}
  BY <1>2 DEF Calm
<1> QED
  BY <1>2, <1>3, <1>5, <1>6, <1>8, <1>10, <1>11, <1>12, CallStep

(* After a DELETE that is done nothing runs.                               *)
LEMMA ClearsOrEnds ==
    ASSUME IInv, Cleared \/ SandboxDeleted
    PROVE  IInv'
<1>1. TypeOK /\ pc[Worker] \in Emptying
  BY DEF IInv, Cleared, SandboxDeleted, At, Emptying
<1>2. PICK place \in {"revoking", "recovering", "blocking"} :
         /\ Destroyed(place)
         /\ place \in Deletion <=> pc[Worker] \in Deletion
         /\ pc[Worker] \in (Provision \ {"reading", "failing"}) \cup Deletion
  <2>1. CASE Cleared
    BY <2>1 DEF Cleared, At, Provision, Deletion
  <2>2. CASE SandboxDeleted
    BY <2>2 DEF SandboxDeleted, At, Provision, Deletion
  <2> QED
    BY <2>1, <2>2
<1>3. UNCHANGED <<runner, exists, removed, row, keys, events, history>>
  BY <1>2 DEF Destroyed, record
<1>4. pc[Worker] # "idle"
  BY <1>1 DEF Emptying
<1>5. CASE Throw(Worker)
  BY <1>1, <1>3, <1>4, <1>5, ThrowMild, MildStep DEF record, TypeOK
<1>6. CASE removal = "done" /\ Go(Worker, place) /\ UNCHANGED <<queue, key>>
  <2>1. Quiet \/ untracked
    BY <1>1, <1>6 DEF IInv, TrackInv, Quiet
  <2>2. /\ Become(Worker, place, seen[Worker])
        /\ seen[Worker] \in Payload /\ Derived(seen[Worker])
        /\ row' \in Payload /\ Derived(row')
    BY <1>1, <1>3, <1>6, SeenPayload, Copied DEF Go
  <2>3. place \in (Provision \cup Deletion) \ Emptying
        /\ place \notin {"keying", "completing", "recording", "posting"}
    BY DEF Provision, Deletion, Emptying
  <2>4. place \in Deletion \/ ~Away
    BY <1>2 DEF Away
  <2> QED
    BY <1>1, <1>2, <1>3, <1>4, <1>6, <2>1, <2>2, <2>3, <2>4, GoMild, MildStep, NoKeyChange
<1> QED
  BY <1>2, <1>5, <1>6 DEF Destroyed

(* POST: the only task there is is the one it starts.                      *)
LEMMA PostTracks ==
    ASSUME IInv, pc[Worker] = "posting", StartSandbox,
           pc'[Worker] \notin Calm \cup Emptying
    PROVE  /\ TrackInv' /\ RunnerTypeOK'
           /\ untracked' \in BOOLEAN /\ (untracked => untracked')
           /\ UNCHANGED <<accepted, undone>>
<1>1. TypeOK /\ key \in Keys
  BY DEF IInv, KeyInv
<1>2. /\ local' = "PROVISIONING" /\ active' = TRUE
      /\ task' = [task EXCEPT ![key] = "starting"]
      /\ UNCHANGED <<sandbox, provider, removal>>
      /\ untracked' = (untracked \/ removal = "running")
      /\ UNCHANGED <<accepted, undone>>
  BY DEF StartSandbox, Post
<1>3. RunnerTypeOK'
  BY <1>1, <1>2 DEF TypeOK, RunnerTypeOK, Phases
<1>4. untracked' \in BOOLEAN
  BY <1>2
<1>5. TrackInv'
  <2> SUFFICES ASSUME ~untracked' PROVE TrackInv'
    BY DEF TrackInv
  <2>1. ~untracked /\ removal # "running"
    BY <1>2
  <2>2. \A k \in Keys : task[k] = "none"
    BY <2>1 DEF IInv, TrackInv, Calm, Quiet, Provisioning
  <2>3. task'[key] = "starting" /\ \A k \in Keys : k # key => task'[k] = "none"
    BY <1>1, <1>2, <2>2 DEF TypeOK, RunnerTypeOK
  <2>4. Provisioning'
    BY <1>1, <2>3 DEF Provisioning
  <2> QED
    BY <1>2, <2>1, <2>3, <2>4 DEF TrackInv
<1> QED
  BY <1>2, <1>3, <1>4, <1>5

LEMMA PostsSandbox ==
    ASSUME IInv, PostSandbox
    PROVE  IInv'
<1>1. TypeOK /\ pc[Worker] = "posting" /\ UNCHANGED <<record, keys, events>>
  BY DEF IInv, PostSandbox, At
<1>2. CASE Throw(Worker) /\ UNCHANGED <<runner, history>>
  BY <1>1, <1>2, ThrowMild, MildStep DEF TypeOK
<1>3. CASE ~(Throw(Worker) /\ UNCHANGED <<runner, history>>)
  <2>1. PICK p : p = Apply(seen[Worker], "PROVISIONING")
    OBVIOUS
  <2>2. p \in Payload /\ Derived(p)
    BY <1>1, <2>1, SeenPayload, ApplyPayload, Copied DEF Phases
  <2>3. StartSandbox /\ Become(Worker, "noting", p) /\ UNCHANGED <<queue, key>>
    BY <1>3, <2>1 DEF PostSandbox
  <2>4. /\ "noting" \in Provision \cup Deletion /\ "noting" \notin Deletion
        /\ "noting" \notin Calm \cup Emptying
        /\ "posting" \in Provision \ {"reading", "failing"} /\ "posting" \notin Deletion
    BY DEF Provision, Deletion, Calm, Emptying
  <2>5. pc'[Worker] = "noting"
    BY <1>1, <2>2, <2>3, <2>4, BecomeMoves, PlaceNames, Names
  <2>6. /\ TrackInv' /\ RunnerTypeOK'
        /\ untracked' \in BOOLEAN /\ (untracked => untracked')
        /\ UNCHANGED <<accepted, undone>>
    BY <1>1, <2>3, <2>4, <2>5, PostTracks
  <2> QED
    BY <1>1, <2>2, <2>3, <2>4, <2>6, CallStep
<1> QED
  BY <1>2, <1>3

-----------------------------------------------------------------------------
(* The worker and its keys. *)

(* All keys of the alias are gone before another is made. *)
LEMMA Recovers ==
    ASSUME IInv, Recover
    PROVE  IInv'
<1>1. /\ TypeOK /\ pc[Worker] = "recovering"
      /\ UNCHANGED <<runner, record, events, history>>
  BY DEF IInv, Recover, At
<1>2. CASE Throw(Worker) /\ UNCHANGED keys
  BY <1>1, <1>2, ThrowMild, MildStep DEF TypeOK
<1>3. CASE ~(Throw(Worker) /\ UNCHANGED keys)
  <2>1. /\ keys' = [k \in Keys |-> IF k \in Listed THEN "none" ELSE keys[k]]
        /\ Become(Worker, "keying", seen[Worker]) /\ UNCHANGED <<queue, key>>
    BY <1>3 DEF Recover, Go
  <2>2. \A k \in Keys : keys'[k] = "none"
    BY <1>1, <2>1 DEF Listed, TypeOK
  <2>3. keys' \in [Keys -> {"none", "live", "blocked"}]
    BY <1>1, <2>1 DEF TypeOK
  <2>4. "keying" \in Provision /\ "keying" \notin Deletion
        /\ "recovering" \in Provision \ {"reading", "failing"}
    BY DEF Provision, Deletion
  <2>5. /\ UNCHANGED <<exists, removed, row, key, untracked, accepted, undone>>
        /\ seen[Worker] \in Payload /\ Derived(seen[Worker])
        /\ row' \in Payload /\ Derived(row')
    BY <1>1, <2>1, SeenPayload, Copied DEF record, history
  <2>6. WorkerFrame /\ pc'[Worker] = "keying" /\ seen'[Worker] = seen[Worker]
    BY <1>1, <2>1, <2>4, <2>5, GoFrame DEF TypeOK
  <2>7. TrackInv'
    BY <1>1, <2>5, <2>6, TrackKept DEF IInv, Calm, Emptying
  <2>8. KeyInv'
    BY <2>2, <2>6 DEF KeyInv
  <2>9. DoneInv'
    <3>1. ~Away
      BY <1>1, <2>4 DEF Away
    <3>2. Counts' => Counts
      BY <2>5 DEF Counts
    <3>3. \A c \in Callers : Derived(seen'[c])
      BY <2>5, <2>6, OthersDerived DEF WorkerFrame
    <3> QED
      BY <1>1, <2>5, <3>1, <3>2, <3>3, DoneKept DEF IInv
  <2>10. RunnerTypeOK'
    BY <1>1 DEF TypeOK, RunnerTypeOK, runner
  <2> QED
    BY <2>3, <2>6, <2>7, <2>8, <2>9, <2>10, FramedStep
<1> QED
  BY <1>2, <1>3

LEMMA Generates ==
    ASSUME TypeOK, KeyInv, pc[Worker] = "keying", NEW k \in Keys, Generate(k)
    PROVE  /\ keys' \in [Keys -> {"none", "live", "blocked"}]
           /\ \A i, j \in Keys : keys'[i] = "live" /\ keys'[j] = "live" => i = j
BY DEF TypeOK, KeyInv, Generate

LEMMA MakesKey ==
    ASSUME IInv, NEW k \in Keys, MakeKey(k)
    PROVE  IInv'
<1>1. /\ TypeOK /\ pc[Worker] = "keying" /\ Generate(k) /\ key' = k
      /\ UNCHANGED <<runner, exists, removed, row, queue, events, history>>
      /\ Become(Worker, "recording", seen[Worker])
  BY DEF IInv, MakeKey, At, Go, record
<1>2. /\ keys' \in [Keys -> {"none", "live", "blocked"}]
      /\ \A i, j \in Keys : keys'[i] = "live" /\ keys'[j] = "live" => i = j
  BY <1>1, Generates DEF IInv
<1>3. "recording" \in Provision /\ "recording" \notin Deletion
      /\ "keying" \in Provision \ {"reading", "failing"}
  BY DEF Provision, Deletion
<1>4. /\ UNCHANGED <<untracked, accepted, undone>>
      /\ seen[Worker] \in Payload /\ Derived(seen[Worker])
      /\ row' \in Payload /\ Derived(row')
  BY <1>1, SeenPayload, Copied DEF history
<1>5. WorkerFrame /\ pc'[Worker] = "recording" /\ seen'[Worker] = seen[Worker]
  BY <1>1, <1>3, <1>4, GoFrame DEF TypeOK
<1>6. TrackInv'
  BY <1>1, <1>4, <1>5, TrackKept DEF IInv, Calm, Emptying
<1>7. KeyInv'
  BY <1>1, <1>2, <1>5 DEF KeyInv
<1>8. DoneInv'
  <2>1. ~Away
    BY <1>1, <1>3 DEF Away
  <2>2. Counts' => Counts
    BY <1>1, <1>4 DEF Counts
  <2>3. \A c \in Callers : Derived(seen'[c])
    BY <1>4, <1>5, OthersDerived DEF WorkerFrame
  <2> QED
    BY <1>1, <1>4, <2>1, <2>2, <2>3, DoneKept DEF IInv
<1>9. RunnerTypeOK'
  BY <1>1 DEF TypeOK, RunnerTypeOK, runner
<1> QED
  BY <1>2, <1>5, <1>6, <1>7, <1>8, <1>9, FramedStep

(* What was asked for happened, and the worker does not know.              *)
LEMMA LosesAnswer ==
    ASSUME IInv, AnswerLost
    PROVE  IInv'
<1>1. /\ TypeOK /\ PlaceInv /\ Throw(Worker) /\ events' \in 0 .. Events
      /\ UNCHANGED <<exists, removed, row>>
      /\ pc[Worker] \in {"keying", "posting"}
  BY LifecycleAssumption DEF IInv, AnswerLost, Spend, TypeOK, record, At
<1>2. /\ pc' \in [Callers -> Places] /\ seen' \in [Callers -> Payload]
      /\ key' \in Keys \cup {Nobody}
      /\ pc'[Worker] \in Handlers \cup {"idle"}
      /\ seen'[Worker] \in {Fresh, seen[Worker]}
      /\ \A d \in Callers : d # Worker => pc'[d] = pc[d] /\ seen'[d] = seen[d]
      /\ job' \in [Actions -> {"none", "waiting", "active"}]
      /\ tries' \in [Actions -> Nat]
      /\ job'["delete"] = job["delete"] \/ pc[Worker] \in Deletion
      /\ pc'[Worker] \in Deletion => pc[Worker] \in Deletion
  BY <1>1, WorkerThrows
<1>3. pc'[Worker] \notin Calm \cup Emptying
      /\ pc'[Worker] \in {"idle"} \cup Provision \cup Deletion
  BY <1>2 DEF Handlers, Calm, Emptying, Provision, Deletion
<1>4. /\ keys' \in [Keys -> {"none", "live", "blocked"}]
      /\ \A i, j \in Keys : keys'[i] = "live" /\ keys'[j] = "live" => i = j
      /\ TrackInv' /\ RunnerTypeOK'
      /\ untracked' \in BOOLEAN /\ (untracked => untracked')
      /\ UNCHANGED <<accepted, undone>>
  <2>1. CASE pc[Worker] = "keying" /\ (\E k \in Keys : Generate(k)) /\ UNCHANGED <<runner, history>>
    <3>1. TrackInv' /\ RunnerTypeOK'
      BY <1>1, <1>3, <2>1, TrackKept DEF IInv, history, TypeOK, RunnerTypeOK, runner
    <3> QED
      BY <1>1, <2>1, <3>1, Generates DEF IInv, history, TypeOK
  <2>2. CASE pc[Worker] = "posting" /\ StartSandbox /\ UNCHANGED keys
    BY <1>1, <1>3, <2>2, PostTracks DEF IInv, KeyInv, TypeOK
  <2> QED
    BY <2>1, <2>2 DEF AnswerLost, At
<1>5. WorkerFrame
  BY <1>1, <1>2, <1>3, <1>4 DEF WorkerFrame, TypeOK
<1>6. KeyInv'
  BY <1>3, <1>4 DEF KeyInv, Calm
<1>7. DoneInv'
  <2>1. ~Away
    BY <1>1 DEF Away, Provision
  <2>2. Counts' => Counts
    BY <1>1, <1>4 DEF Counts
  <2>3. Derived(row') /\ Derived(seen'[Worker])
    BY <1>1, <1>2, SeenPayload, Copied, FreshDerived
  <2>4. \A c \in Callers : Derived(seen'[c])
    BY <1>2, <2>3, OthersDerived
  <2> QED
    BY <1>1, <2>1, <2>2, <2>3, <2>4, DoneKept DEF IInv
<1> QED
  BY <1>4, <1>5, <1>6, <1>7, FramedStep

-----------------------------------------------------------------------------
(* The worker's deletion. *)

LEMMA DeleteReads ==
    ASSUME IInv, DeleteRead
    PROVE  IInv'
<1>1. TypeOK /\ pc[Worker] = "deleting"
  BY DEF IInv, DeleteRead, At
<1>2. UNCHANGED <<runner, exists, removed, row, keys, events, history>>
  BY DEF DeleteRead, record
<1>3. /\ row' \in Payload /\ Derived(row') /\ row \in Payload /\ Derived(row)
      /\ events' \in 0 .. Events
  BY <1>1, <1>2, SeenPayload, Copied DEF TypeOK
<1>4. "deleting" \in Deletion /\ "destroying" \in Deletion \ Emptying
      /\ "destroying" \notin Calm
  BY DEF Deletion, Emptying, Calm
<1>5. CASE Succeed("delete")
  BY <1>1, <1>2, <1>3, <1>4, <1>5, EndMild, MildStep, ActionNames
<1>6. CASE Become(Worker, "destroying", row) /\ UNCHANGED <<queue, key>>
  BY <1>1, <1>2, <1>3, <1>4, <1>6, GoMild, MildStep, NoKeyChange
<1> QED
  BY <1>5, <1>6 DEF DeleteRead

(* Its key is blocked, so it is not usable when the row says done.         *)
LEMMA Blocks ==
    ASSUME IInv, Block
    PROVE  IInv'
<1>1. /\ TypeOK /\ pc[Worker] = "blocking"
      /\ UNCHANGED <<runner, exists, removed, row, queue, key, events, history>>
      /\ Become(Worker, "completing", seen[Worker])
  BY DEF IInv, Block, At, Go, record
<1>2. /\ keys' \in [Keys -> {"none", "live", "blocked"}]
      /\ \A k \in Keys : /\ keys'[k] = "live" => keys[k] = "live"
                         /\ seen[Worker].token = k => keys'[k] # "live"
  BY <1>1 DEF Block, TypeOK
<1>3. "completing" \in Deletion /\ "blocking" \in Deletion /\ "blocking" \in Calm
      /\ "completing" \notin Emptying
  BY DEF Deletion, Calm, Emptying
<1>4. /\ UNCHANGED <<untracked, accepted, undone>>
      /\ seen[Worker] \in Payload /\ Derived(seen[Worker])
      /\ row' \in Payload /\ Derived(row')
  BY <1>1, SeenPayload, Copied DEF history
<1>5. WorkerFrame /\ pc'[Worker] = "completing" /\ seen'[Worker] = seen[Worker]
  BY <1>1, <1>3, <1>4, GoFrame DEF TypeOK
<1>6. TrackInv'
  BY <1>1, <1>3, <1>4, <1>5, TrackKept DEF IInv
<1>7. KeyInv'
  BY <1>1, <1>2, <1>5 DEF KeyInv, IInv
<1>8. DoneInv'
  <2>1. Away'
    BY <1>5 DEF Away, Provision
  <2>2. Counts' => Counts
    BY <1>1, <1>4 DEF Counts
  <2>3. \A c \in Callers : Derived(seen'[c])
    BY <1>4, <1>5, OthersDerived DEF WorkerFrame
  <2>4. Quiet' <=> Quiet
    BY <1>1 DEF Quiet, Provisioning, runner
  <2> QED
    BY <1>1, <1>2, <1>4, <2>1, <2>2, <2>3, <2>4, DoneKept DEF IInv
<1>9. RunnerTypeOK'
  BY <1>1 DEF TypeOK, RunnerTypeOK, runner
<1> QED
  BY <1>2, <1>5, <1>6, <1>7, <1>8, <1>9, FramedStep

(* The row that says the deletion is complete is made of one that is right. *)
LEMMA Completes ==
    ASSUME IInv, Complete
    PROVE  IInv'
<1>1. TypeOK /\ pc[Worker] = "completing" /\ UNCHANGED <<runner, keys, events, history>>
  BY DEF IInv, Complete, At
<1>2. CASE SaveThrows(Worker)
  BY <1>1, <1>2, ThrowMild, MildStep DEF SaveThrows, TypeOK
<1>3. CASE ~SaveThrows(Worker)
  <2>1. PICK p : p = [seen[Worker] EXCEPT !.done = TRUE]
    OBVIOUS
  <2>2. p \in Payload /\ p.token = seen[Worker].token
    BY <1>1, <2>1, SeenPayload, DonePayload
  <2>3. /\ row' = p /\ exists /\ UNCHANGED <<exists, removed>> /\ Succeed("delete")
    BY <1>3, <2>1 DEF Complete, Save
  <2>4. /\ pc' \in [Callers -> Places] /\ seen' \in [Callers -> Payload]
        /\ pc'[Worker] = "idle" /\ seen'[Worker] = Fresh /\ key' = Nobody
        /\ \A d \in Callers : d # Worker => pc'[d] = pc[d] /\ seen'[d] = seen[d]
        /\ job' \in [Actions -> {"none", "waiting", "active"}]
        /\ tries' \in [Actions -> Nat]
        /\ job'["delete"] = "none"
    BY <1>1, <2>3, Ends, ActionNames
  <2>5. UNCHANGED <<untracked, accepted, undone>>
    BY <1>1 DEF history
  <2>6. WorkerFrame
    BY <1>1, <2>2, <2>3, <2>4, <2>5 DEF WorkerFrame, TypeOK, Deletion
  <2>7. pc'[Worker] \notin Calm \cup Emptying
    BY <2>4 DEF Calm, Emptying
  <2>8. TrackInv'
    BY <1>1, <2>5, <2>7, TrackKept DEF IInv
  <2>9. KeyInv'
    BY <1>1, <2>4, KeyKept, NoKeyChange DEF IInv
  <2>10. DoneInv'
    <3> SUFFICES ASSUME Counts'
                 PROVE  DoneOK(row)' /\ \A c \in Callers : DoneOK(seen[c])'
      BY DEF DoneInv
    <3>1. Counts
      BY <2>3, <2>5 DEF Counts
    <3>2. removed'
      BY <1>1, <2>3, <3>1 DEF IInv, RemovedInv, Counts, Deletion
    <3>3. Quiet'
      <4>1. Quiet
        BY <1>1, <3>1 DEF IInv, TrackInv, Counts, Calm
      <4> QED
        BY <1>1, <4>1 DEF Quiet, Provisioning, runner
    <3>4. Away'
      BY <2>4 DEF Away, Provision
    <3>5. Unusable(row)'
      BY <1>1, <2>2, <2>3 DEF IInv, KeyInv, Unusable
    <3>6. ASSUME NEW c \in Callers PROVE DoneOK(seen[c])'
      <4>1. CASE c = Worker
        BY <2>4, <4>1, FreshPayload DEF DoneOK
      <4>2. CASE c # Worker
        <5>1. DoneOK(seen[c]) /\ seen'[c] = seen[c] /\ keys' = keys
          BY <1>1, <2>4, <3>1, <4>2 DEF IInv, DoneInv
        <5> QED
          BY <3>2, <3>3, <3>4, <5>1 DEF DoneOK, Unusable
      <4> QED
        BY <4>1, <4>2
    <3> QED
      BY <3>2, <3>3, <3>4, <3>5, <3>6 DEF DoneOK
  <2>11. RunnerTypeOK' /\ keys' \in [Keys -> {"none", "live", "blocked"}]
    BY <1>1 DEF TypeOK, RunnerTypeOK, runner
  <2> QED
    BY <2>6, <2>8, <2>9, <2>10, <2>11, FramedStep
<1> QED
  BY <1>2, <1>3

LEMMA RetryReads ==
    ASSUME IInv, RetryRead
    PROVE  IInv'
<1>1. TypeOK /\ pc[Worker] = "retrying"
  BY DEF IInv, RetryRead, At
<1>2. UNCHANGED <<runner, exists, removed, row, keys, events, history>>
  BY DEF RetryRead, record
<1>3. /\ row' \in Payload /\ Derived(row') /\ row \in Payload /\ Derived(row)
      /\ events' \in 0 .. Events
  BY <1>1, <1>2, SeenPayload, Copied DEF TypeOK
<1>4. "retrying" \in Deletion /\ "retrying_row" \in Deletion \ Emptying
      /\ "retrying_row" \notin Calm
  BY DEF Deletion, Emptying, Calm
<1>5. CASE GiveUp("delete")
  BY <1>1, <1>2, <1>3, <1>4, <1>5, EndMild, MildStep, ActionNames
<1>6. CASE Become(Worker, "retrying_row", row) /\ UNCHANGED <<queue, key>>
  BY <1>1, <1>2, <1>3, <1>4, <1>6, GoMild, MildStep, NoKeyChange
<1> QED
  BY <1>5, <1>6 DEF RetryRead

LEMMA RetrySaves ==
    ASSUME IInv, RetrySave
    PROVE  IInv'
<1>1. TypeOK /\ pc[Worker] = "retrying_row" /\ UNCHANGED <<runner, keys, events, history>>
  BY DEF IInv, RetrySave, At
<1>2. CASE SaveThrows(Worker)
  BY <1>1, <1>2, ThrowMild, MildStep DEF SaveThrows, TypeOK
<1>3. CASE ~SaveThrows(Worker)
  <2>1. Save(WithStatus(seen[Worker], "DESTROYING")) /\ GiveUp("delete")
    BY <1>3 DEF RetrySave
  <2>2. PICK p : p = WithStatus(seen[Worker], "DESTROYING")
    OBVIOUS
  <2>3. p \in Payload /\ Derived(p)
    BY <1>1, <2>2, SeenPayload, WithStatusPayload, Copied
  <2>4. row' = p /\ UNCHANGED <<exists, removed>>
    BY <2>1, <2>2 DEF Save
  <2> QED
    BY <1>1, <2>1, <2>3, <2>4, EndMild, MildStep, ActionNames DEF TypeOK, Deletion
<1> QED
  BY <1>2, <1>3

-----------------------------------------------------------------------------
(* The worker takes a job, and loses it. *)

LEMMA Takes ==
    ASSUME IInv, NEW a \in Actions, Take(a)
    PROVE  IInv'
<1>1. /\ TypeOK /\ pc[Worker] = "idle" /\ job[a] = "waiting"
      /\ job' = [job EXCEPT ![a] = "active"]
      /\ UNCHANGED <<runner, exists, removed, row, keys, tries, key, events, history>>
  BY DEF IInv, Take, At, record
<1>2. PICK place \in {"reading", "deleting"} :
         Become(Worker, place, seen[Worker]) /\ (place = "deleting" => a = "delete")
  BY DEF Take, Go, Actions
<1>3. /\ place \in Places /\ place # "idle"
      /\ place \in {"idle"} \cup Provision \cup Deletion
      /\ place \in Deletion => place = "deleting"
      /\ place \notin Calm \cup Emptying
  BY DEF Places, Provision, Deletion, Calm, Emptying
<1>4. /\ seen[Worker] \in Payload /\ Derived(seen[Worker])
      /\ row \in Payload /\ Derived(row)
  BY <1>1, SeenPayload, Copied
<1>5. /\ pc' \in [Callers -> Places] /\ seen' \in [Callers -> Payload]
      /\ pc'[Worker] = place /\ seen'[Worker] = seen[Worker]
      /\ \A d \in Callers : d # Worker => pc'[d] = pc[d] /\ seen'[d] = seen[d]
  BY <1>1, <1>2, <1>3, <1>4, BecomeMoves, Names
<1>6. UNCHANGED <<accepted, undone, untracked>>
  BY <1>1 DEF history
<1>7. job' \in [Actions -> {"none", "waiting", "active"}]
      /\ (job'["delete"] # "none" => job["delete"] # "none")
      /\ (place = "deleting" => job["delete"] # "none")
      /\ job[a] # "none"
  BY <1>1, <1>2, ActionNames DEF TypeOK
<1>8. WorkerFrame
  BY <1>1, <1>3, <1>4, <1>5, <1>6, <1>7 DEF WorkerFrame, TypeOK
<1>9. Away'
  BY <1>5 DEF Away, Provision
<1>10. Mild
  BY <1>1, <1>3, <1>4, <1>5, <1>6, <1>8, <1>9, NoKeyChange DEF Mild, Calm
<1> QED
  BY <1>10, MildStep

LEMMA WorkerFaults ==
    ASSUME IInv, Fails(Worker) \/ Crash(Worker)
    PROVE  IInv'
<1>1. /\ TypeOK /\ pc[Worker] # "idle" /\ events' \in 0 .. Events
      /\ UNCHANGED <<runner, record, keys, history>>
  BY LifecycleAssumption DEF IInv, Fails, Crash, Spend, TypeOK, Busy
<1>2. CASE Throw(Worker)
  BY <1>1, <1>2, ThrowMild, MildStep
<1>3. ASSUME NEW a \in Actions, Running(a), GiveUp(a) PROVE IInv'
  <2>1. a = "delete" => job["delete"] # "none"
    BY <1>3 DEF Running
  <2>2. row' \in Payload /\ Derived(row') /\ UNCHANGED <<exists, removed>>
    BY <1>1, SeenPayload, Copied DEF record
  <2> QED
    BY <1>1, <1>3, <2>1, <2>2, EndMild, MildStep
<1> QED
  BY <1>2, <1>3 DEF Fails, Crash

LEMMA WorkerStep ==
    ASSUME IInv, \/ ProvisionStep \/ DeletionStep \/ AnswerLost
                 \/ (\E a \in Actions : Take(a))
                 \/ Fails(Worker) \/ Crash(Worker)
    PROVE  IInv'
<1>1. ASSUME ProvisionStep PROVE IInv'
  BY <1>1, Reads, Accepts, Observes, Waits, WaitsInVain, Settles, DeletesSandbox,
     ClearsOrEnds, Revokes, Unkeys, Recovers, MakesKey, Records, PostsSandbox, Notes,
     UndoesKey, UndoesRow, FailReads, FailSaves
     DEF ProvisionStep, Clear, At
<1>2. ASSUME DeletionStep PROVE IInv'
  BY <1>2, DeleteReads, DeletesSandbox, ClearsOrEnds, Blocks, Completes, RetryReads,
     RetrySaves DEF DeletionStep, DeleteSandbox, At
<1> QED
  BY <1>1, <1>2, LosesAnswer, Takes, WorkerFaults

-----------------------------------------------------------------------------
(* Steps of the other calls: none of them moves the worker or touches a key. *)

CallPlaces(c) == IF c = Creator THEN {"idle"} \cup Creation
                 ELSE {"new", "idle"} \cup Destroy \cup Refresh \cup Policies

CallFrame(c) ==
    /\ pc' \in [Callers -> Places] /\ seen' \in [Callers -> Payload]
    /\ \A d \in Callers : d # c => pc'[d] = pc[d] /\ seen'[d] = seen[d]
    /\ pc'[c] \in CallPlaces(c)
    /\ pc[Creator] # "new"
    /\ job' \in [Actions -> {"none", "waiting", "active"}]
    /\ tries' \in [Actions -> Nat]
    /\ row' \in Payload /\ removed' \in BOOLEAN
    /\ UNCHANGED <<exists, keys, key, sandbox, task>>
    /\ events' \in 0 .. Events
    /\ accepted' \in BOOLEAN
    /\ undone' \in BOOLEAN /\ (undone => undone')
    /\ untracked' \in BOOLEAN /\ (untracked => untracked')
    /\ removed => removed' \/ ~Counts'
    /\ exists /\ ~removed' /\ ~undone' =>
          /\ ~removed
          /\ job'["delete"] = job["delete"]
          /\ pc'[c] = "d_enqueueing" => pc[c] = "d_enqueueing"
    /\ Counts => Derived(row') /\ Derived(seen'[c])

LEMMA CallDone ==
    ASSUME IInv, NEW c \in Callers, c # Worker, CallFrame(c)
    PROVE  DoneInv'
<1>1. Counts' => Counts
  BY DEF Counts, CallFrame
<1>2. Counts => \A d \in Callers : Derived(seen'[d])
  BY HeldPayloads, Copied DEF CallFrame
<1>3. (Quiet' <=> Quiet) /\ (Away' <=> Away) /\ keys' = keys
  BY Names DEF CallFrame, Quiet, Provisioning, Away
<1> QED
  BY <1>1, <1>2, <1>3, DoneKept DEF CallFrame, IInv

LEMMA FramedCall ==
    ASSUME IInv, NEW c \in Callers, c # Worker, CallFrame(c), RunnerTypeOK', TrackInv'
    PROVE  IInv'
<1>1. TypeOK'
  BY DEF CallFrame, TypeOK, Places, IInv
<1>2. PlaceInv'
  <2>1. pc'[Worker] = pc[Worker]
    BY Names DEF CallFrame
  <2>2. c = Creator => pc'[c] \in {"new", "idle"} \cup Creation
    BY DEF CallFrame, CallPlaces
  <2>3. c # Creator => pc'[c] \in {"new", "idle"} \cup Destroy \cup Refresh \cup Policies
    BY DEF CallFrame, CallPlaces
  <2> QED
    BY <2>1, <2>2, <2>3, Names DEF CallFrame, PlaceInv, IInv
<1>3. NewInv'
  <2>1. pc'[Creator] # "new"
    <3>1. CASE c = Creator
      BY <3>1 DEF CallFrame, CallPlaces, Creation
    <3>2. CASE c # Creator
      BY <3>2, Names DEF CallFrame
    <3> QED
      BY <3>1, <3>2
  <2> QED
    BY <2>1 DEF NewInv
<1>4. RemovedInv'
  BY Names DEF CallFrame, RemovedInv, IInv
<1>5. KeyInv'
  BY Names DEF CallFrame, KeyInv, IInv
<1>6. DoneInv'
  BY CallDone
<1> QED
  BY <1>1, <1>2, <1>3, <1>4, <1>5, <1>6 DEF IInv

LEMMA QuietCall ==
    ASSUME IInv, NEW c \in Callers, c # Worker, CallFrame(c), UNCHANGED runner
    PROVE  IInv'
<1>1. RunnerTypeOK'
  BY DEF IInv, TypeOK, RunnerTypeOK, runner
<1>2. pc'[Worker] = pc[Worker]
  BY Names DEF CallFrame
<1>3. TrackInv'
  BY <1>2, TrackKept DEF CallFrame, IInv
<1> QED
  BY <1>1, <1>3, FramedCall

(* It goes on to another place, after at most a save of what it holds.     *)
CallRest(c) ==
    /\ UNCHANGED <<exists, removed, keys, queue, key, undone, untracked, runner>>
    /\ row' \in Payload /\ events' \in 0 .. Events /\ accepted' \in BOOLEAN
    /\ Counts => Derived(row')
    /\ pc[Creator] # "new"

LEMMA CallGoes ==
    ASSUME IInv, NEW c \in Callers, c # Worker, CallRest(c), NEW place \in CallPlaces(c),
           NEW p \in Payload, Become(c, place, p), Counts => Derived(p),
           place = "d_enqueueing" => pc[c] = "d_enqueueing"
    PROVE  IInv'
<1>1. TypeOK
  BY DEF IInv
<1>2. place \in Places
  BY PlaceNames DEF CallPlaces
<1>3. /\ pc' \in [Callers -> Places] /\ seen' \in [Callers -> Payload]
      /\ pc'[c] = place /\ seen'[c] \in {Fresh, p}
      /\ \A d \in Callers : d # c => pc'[d] = pc[d] /\ seen'[d] = seen[d]
  BY <1>1, <1>2, BecomeMoves
<1>4. UNCHANGED <<job, tries, sandbox, task>>
  BY DEF CallRest, queue, runner
<1>5. Counts => Derived(seen'[c])
  BY <1>3, FreshDerived
<1>6. CallFrame(c)
  BY <1>1, <1>3, <1>4, <1>5 DEF CallFrame, CallRest, TypeOK
<1> QED
  BY <1>6, QuietCall DEF CallRest

LEMMA CallFails ==
    ASSUME IInv, NEW c \in Callers, c # Worker, pc[Creator] # "new", Throw(c),
           UNCHANGED <<runner, record, keys>>, events' \in 0 .. Events,
           UNCHANGED <<accepted, undone, untracked>>
    PROVE  IInv'
<1>1. TypeOK /\ PlaceInv
  BY DEF IInv
<1>2. /\ pc' \in [Callers -> Places] /\ seen' \in [Callers -> Payload]
      /\ c = Creator => pc'[c] \in {"forgetting", "idle"}
      /\ c \in Requests => pc'[c] \in {"d_restoring", "d_unmarking", "idle"}
      /\ seen'[c] \in {Fresh, seen[c]}
      /\ \A d \in Callers : d # c => pc'[d] = pc[d] /\ seen'[d] = seen[d]
      /\ UNCHANGED <<job, tries, key>>
  BY <1>1, CallThrows
<1>3. pc'[c] \in CallPlaces(c) /\ pc'[c] # "d_enqueueing"
  BY <1>2, Names DEF CallPlaces, Creation, Destroy
<1>4. Derived(row') /\ Derived(seen'[c])
  BY <1>2, HeldPayloads, Copied, FreshDerived DEF record
<1>5. UNCHANGED <<exists, removed, row, sandbox, task>>
  BY DEF record, runner
<1>6. CallFrame(c)
  BY <1>1, <1>2, <1>3, <1>4, <1>5 DEF CallFrame, TypeOK
<1> QED
  BY <1>6, QuietCall

-----------------------------------------------------------------------------
(* The creation. *)

LEMMA CreationPlaces ==
    /\ \A place \in {"enqueueing", "attaching", "forgetting"} :
          place \in CallPlaces(Creator) /\ place # "d_enqueueing" /\ place \in Places
    /\ "idle" \in CallPlaces(Creator)
BY DEF CallPlaces, Creation, Places

(* The row appears when nothing else has begun.                            *)
LEMMA Creates ==
    ASSUME IInv, CreateSave
    PROVE  IInv'
<1>1. /\ TypeOK /\ pc[Creator] = "new"
      /\ exists' = TRUE /\ removed' = FALSE /\ row' = Fresh
      /\ Go(Creator, "enqueueing")
      /\ UNCHANGED <<runner, keys, queue, key, events, history>>
  BY DEF IInv, CreateSave, At
<1>2. /\ ~exists
      /\ \A c \in Callers : pc[c] \in {"new", "idle"} /\ ~seen[c].done
      /\ \A a \in Actions : job[a] = "none"
  BY <1>1 DEF IInv, NewInv
<1>3. /\ pc' \in [Callers -> Places] /\ seen' \in [Callers -> Payload]
      /\ pc'[Creator] = "enqueueing" /\ seen'[Creator] = seen[Creator]
      /\ \A d \in Callers : d # Creator => pc'[d] = pc[d] /\ seen'[d] = seen[d]
  BY <1>1, GoMoves, Names, CreationPlaces
<1>4. UNCHANGED <<job, tries, accepted, undone, untracked>>
  BY <1>1 DEF queue, history
<1>5. pc'[Worker] = pc[Worker]
  BY <1>3, Names
<1>6. TypeOK'
  BY <1>1, <1>3, <1>4, FreshPayload DEF TypeOK, RunnerTypeOK, runner, Places
<1>7. PlaceInv'
  BY <1>3, Names DEF PlaceInv, IInv, Creation
<1>8. TrackInv'
  BY <1>1, <1>4, <1>5, TrackKept DEF IInv
<1>9. KeyInv'
  BY <1>1, <1>2, <1>5, Names DEF KeyInv, IInv
<1>10. NewInv'
  BY <1>3 DEF NewInv
<1>11. RemovedInv'
  <2>1. pc[Worker] \in {"new", "idle"} /\ job["delete"] = "none"
    BY <1>2, Names, ActionNames
  <2>2. pc'[Worker] \notin Deletion
    BY <1>5, <2>1 DEF Deletion
  <2>3. \A c \in Requests : pc'[c] # "d_enqueueing"
    BY <1>2, <1>3, Names
  <2> QED
    BY <1>4, <2>1, <2>2, <2>3 DEF RemovedInv
<1>12. DoneInv'
  <2>1. \A c \in Callers : ~seen'[c].done
    BY <1>2, <1>3
  <2> QED
    BY <1>1, <2>1, FreshPayload DEF DoneInv, DoneOK
<1> QED
  BY <1>6, <1>7, <1>8, <1>9, <1>10, <1>11, <1>12 DEF IInv

LEMMA CreateEnqueues ==
    ASSUME IInv, CreateEnqueue
    PROVE  IInv'
<1>1. /\ TypeOK /\ pc[Creator] = "enqueueing"
      /\ UNCHANGED <<runner, exists, removed, row, keys, key, events, history>>
  BY DEF IInv, CreateEnqueue, At, record
<1>2. PICK place \in {"attaching", "forgetting"} : Go(Creator, place)
  BY DEF CreateEnqueue
<1>3. /\ job' \in [Actions -> {"none", "waiting", "active"}]
      /\ tries' \in [Actions -> Nat] /\ job'["delete"] = job["delete"]
  BY <1>1, QueueMoves, ActionNames DEF CreateEnqueue, queue, TypeOK
<1>4. place \in CallPlaces(Creator) /\ place # "d_enqueueing" /\ place \in Places
  BY CreationPlaces
<1>5. /\ pc' \in [Callers -> Places] /\ seen' \in [Callers -> Payload]
      /\ pc'[Creator] = place /\ seen'[Creator] \in {Fresh, seen[Creator]}
      /\ \A d \in Callers : d # Creator => pc'[d] = pc[d] /\ seen'[d] = seen[d]
  BY <1>1, <1>2, <1>4, GoMoves, Names
<1>6. UNCHANGED <<sandbox, task, accepted, undone, untracked>>
  BY <1>1 DEF runner, history
<1>7. Derived(row') /\ Derived(seen'[Creator])
  BY <1>1, <1>5, HeldPayloads, Copied, FreshDerived, Names
<1>8. CallFrame(Creator)
  BY <1>1, <1>3, <1>4, <1>5, <1>6, <1>7 DEF CallFrame, TypeOK
<1> QED
  BY <1>1, <1>8, QuietCall, Names

LEMMA CreateAttaches ==
    ASSUME IInv, CreateAttach
    PROVE  IInv'
<1>1. /\ TypeOK /\ pc[Creator] = "attaching" /\ Become(Creator, "idle", seen[Creator])
      /\ row' = Fresh
      /\ UNCHANGED <<runner, exists, removed, keys, queue, key, events, history>>
  BY DEF IInv, CreateAttach, At, Go, Save
<1>2. seen[Creator] \in Payload /\ Derived(seen[Creator])
  BY <1>1, HeldPayloads, Copied, Names DEF TypeOK
<1>3. CallRest(Creator)
  BY <1>1, FreshPayload, FreshDerived DEF CallRest, TypeOK, history
<1> QED
  BY <1>1, <1>2, <1>3, CallGoes, CreationPlaces, Names

LEMMA CreateForgets ==
    ASSUME IInv, CreateForget
    PROVE  IInv'
<1>1. /\ TypeOK /\ pc[Creator] = "forgetting"
      /\ exists' = FALSE /\ removed' = FALSE /\ row' = Fresh
      /\ Go(Creator, "idle")
      /\ UNCHANGED <<runner, keys, queue, key, events, history>>
  BY DEF IInv, CreateForget, At
<1>2. /\ pc' \in [Callers -> Places] /\ seen' \in [Callers -> Payload]
      /\ pc'[Creator] = "idle"
      /\ \A d \in Callers : d # Creator => pc'[d] = pc[d] /\ seen'[d] = seen[d]
  BY <1>1, GoMoves, Names, PlaceNames
<1>3. UNCHANGED <<job, tries, accepted, undone, untracked>>
  BY <1>1 DEF queue, history
<1>4. pc'[Worker] = pc[Worker] /\ seen'[Worker] = seen[Worker]
  BY <1>2, Names
<1>5. TypeOK'
  BY <1>1, <1>2, <1>3, FreshPayload DEF TypeOK, RunnerTypeOK, runner, Places
<1>6. PlaceInv'
  BY <1>2, Names DEF PlaceInv, IInv
<1>7. TrackInv'
  BY <1>1, <1>3, <1>4, TrackKept DEF IInv
<1>8. KeyInv'
  BY <1>1, <1>4 DEF KeyInv, IInv
<1>9. NewInv' /\ RemovedInv' /\ DoneInv'
  BY <1>1, <1>2 DEF NewInv, RemovedInv, DoneInv, Counts
<1> QED
  BY <1>5, <1>6, <1>7, <1>8, <1>9 DEF IInv

(* A call that fails or dies. *)
LEMMA CallFaults ==
    ASSUME IInv, NEW c \in Callers, c # Worker, Fails(c) \/ Crash(c)
    PROVE  IInv'
<1>1. /\ TypeOK /\ pc[c] \notin {"new", "idle"} /\ events' \in 0 .. Events
      /\ UNCHANGED <<runner, exists, removed, row, keys, history>>
  BY LifecycleAssumption DEF IInv, Fails, Crash, Spend, TypeOK, Busy, record
<1>2. pc[Creator] # "new"
  BY <1>1 DEF IInv, NewInv
<1>3. UNCHANGED <<accepted, undone, untracked>>
  BY <1>1 DEF history
<1>4. CASE Throw(c)
  BY <1>1, <1>2, <1>3, <1>4, CallFails DEF record
<1>5. CASE Become(c, "idle", seen[c]) /\ UNCHANGED <<queue, key>>
  <2>1. /\ row \in Payload /\ Derived(row)
        /\ seen[c] \in Payload /\ Derived(seen[c])
    BY <1>1, HeldPayloads, Copied DEF TypeOK
  <2>2. CallRest(c)
    BY <1>1, <1>2, <1>3, <1>5, <2>1 DEF CallRest, TypeOK
  <2>3. "idle" \in CallPlaces(c)
    BY DEF CallPlaces
  <2> QED
    BY <1>5, <2>1, <2>2, <2>3, CallGoes
<1> QED
  BY <1>4, <1>5 DEF Fails, Crash, Go

-----------------------------------------------------------------------------
(* The requests. *)

LEMMA RequestPlaces ==
    \A c \in Requests :
       /\ c \in Callers /\ c # Worker
       /\ {"idle"} \cup Destroy \cup Refresh \cup Policies \subseteq CallPlaces(c)
       /\ CallPlaces(c) \subseteq Places
BY Names DEF CallPlaces, Places

LEMMA Present ==
    ASSUME IInv, NEW c \in Callers, exists \/ pc[c] \notin {"new", "idle"}
    PROVE  pc[Creator] # "new"
BY DEF IInv, NewInv

(* A request is accepted: it reads the row. *)
LEMMA Asks ==
    ASSUME IInv, NEW c \in Requests, Request(c)
    PROVE  IInv'
<1>1. /\ TypeOK /\ exists /\ pc[c] = "new" /\ events' \in 0 .. Events
      /\ UNCHANGED <<runner, exists, removed, row, keys, queue, key, history>>
  BY LifecycleAssumption DEF IInv, TypeOK, Request, Destroying, Look, Permit, Live, Spend,
       At, record
<1>2. PICK place \in (Destroy \cup Refresh \cup Policies) \ {"d_enqueueing"},
           p \in {row, WithStatus(row, "PROVISIONING")} : Become(c, place, p)
  <2>1. CASE Destroying(c)
    <3>1. Become(c, "d_removing", row) \/ Become(c, "d_marking", row)
      BY <2>1 DEF Destroying
    <3> QED
      BY <3>1 DEF Destroy
  <2>2. CASE Look(c)
    <3>1. \/ Become(c, "f_looking", row)
          \/ Become(c, "f_saving", WithStatus(row, "PROVISIONING"))
      BY <2>2 DEF Look
    <3> QED
      BY <3>1 DEF Refresh
  <2>3. CASE Permit(c)
    <3>1. Become(c, "p_permitting", row) \/ Become(c, "p_saving", row)
      BY <2>3 DEF Permit
    <3> QED
      BY <3>1 DEF Policies
  <2> QED
    BY <2>1, <2>2, <2>3 DEF Request
<1>3. /\ row \in Payload /\ Derived(row)
      /\ p \in Payload /\ Derived(p)
  BY <1>1, <1>2, SeenPayload, WithStatusPayload, Copied
<1>4. CallRest(c)
  BY <1>1, <1>3, Present, RequestPlaces DEF CallRest, history, TypeOK
<1>5. place \in CallPlaces(c) /\ place # "d_enqueueing"
  BY <1>2, RequestPlaces
<1> QED
  BY <1>2, <1>3, <1>4, <1>5, CallGoes, RequestPlaces

(* It saves what it holds and goes on, or finds that the row is gone. *)
LEMMA CallSaves ==
    ASSUME IInv, NEW c \in Requests, NEW p \in Payload, NEW place \in {"idle"} \cup Destroy,
           place # "d_enqueueing", pc[c] \notin {"new", "idle"},
           p.done = seen[c].done, p.token = seen[c].token,
           \/ (Save(p) /\ Become(c, place, seen[c]) /\ UNCHANGED <<queue, key>>)
           \/ (SaveThrows(c) /\ UNCHANGED accepted),
           UNCHANGED <<runner, keys, events, undone, untracked>>, accepted' \in BOOLEAN
    PROVE  IInv'
<1>1. TypeOK /\ pc[Creator] # "new" /\ c \in Callers /\ c # Worker
  BY Present, RequestPlaces DEF IInv
<1>2. CASE SaveThrows(c) /\ UNCHANGED accepted
  BY <1>1, <1>2, CallFails DEF SaveThrows, TypeOK
<1>3. CASE Save(p) /\ Become(c, place, seen[c]) /\ UNCHANGED <<queue, key>>
  <2>1. row' = p /\ UNCHANGED <<exists, removed>>
    BY <1>3 DEF Save
  <2>2. seen[c] \in Payload /\ Derived(seen[c]) /\ Derived(p)
    BY <1>1, HeldPayloads, Copied DEF TypeOK
  <2>3. CallRest(c)
    BY <1>1, <1>3, <2>1, <2>2 DEF CallRest, TypeOK
  <2>4. place \in CallPlaces(c)
    BY RequestPlaces
  <2> QED
    BY <1>1, <1>3, <2>2, <2>3, <2>4, CallGoes
<1> QED
  BY <1>2, <1>3

LEMMA Marks ==
    ASSUME IInv, NEW c \in Requests, Mark(c)
    PROVE  IInv'
<1>1. TypeOK /\ pc[c] = "d_marking" /\ c \in Callers
  BY RequestPlaces DEF IInv, Mark, At
<1>2. PICK p : p = WithStatus(seen[c], "DESTROYING")
  OBVIOUS
<1>3. p \in Payload /\ p.done = seen[c].done /\ p.token = seen[c].token
  <2>1. seen[c] \in Payload
    BY <1>1 DEF TypeOK
  <2> QED
    BY <1>2, <2>1, WithStatusPayload
<1>4. /\ \/ Save(p) /\ Become(c, "d_removing", seen[c]) /\ UNCHANGED <<queue, key>>
         \/ SaveThrows(c)
      /\ UNCHANGED <<runner, keys, events, accepted, undone, untracked>>
  BY <1>2 DEF Mark, Go, history
<1>5. "d_removing" \in {"idle"} \cup Destroy
  BY DEF Destroy
<1> QED
  BY <1>1, <1>3, <1>4, <1>5, CallSaves DEF TypeOK

LEMMA SavesSeen ==
    ASSUME IInv, NEW c \in Requests, SaveLook(c) \/ SavePolicies(c) \/ DestroyRecord(c)
    PROVE  IInv'
<1>1. TypeOK /\ pc[c] \notin {"new", "idle"} /\ seen[c] \in Payload
  BY RequestPlaces DEF IInv, TypeOK, SaveLook, SavePolicies, DestroyRecord, At
<1>2. /\ \/ Save(seen[c]) /\ Become(c, "idle", seen[c]) /\ UNCHANGED <<queue, key>>
         \/ SaveThrows(c) /\ UNCHANGED accepted
      /\ UNCHANGED <<runner, keys, events, undone, untracked>>
      /\ accepted' \in BOOLEAN
  BY <1>1 DEF SaveLook, SavePolicies, DestroyRecord, Go, Answer, history, TypeOK
<1> QED
  BY <1>1, <1>2, CallSaves

(* It goes on without a save. *)
LEMMA CallReads ==
    ASSUME IInv, NEW c \in Requests, NEW p \in Payload,
           NEW place \in {"idle"} \cup Destroy \cup Refresh \cup Policies,
           Become(c, place, p), pc[c] \notin {"new", "idle"}, place # "d_enqueueing",
           Derived(p), accepted' \in BOOLEAN,
           UNCHANGED <<runner, record, keys, queue, key, events, undone, untracked>>
    PROVE  IInv'
<1>1. TypeOK /\ pc[Creator] # "new" /\ c \in Callers /\ c # Worker
      /\ row \in Payload /\ Derived(row) /\ UNCHANGED <<exists, removed, row>>
  BY Present, RequestPlaces, SeenPayload, Copied DEF IInv, record
<1>2. CallRest(c)
  BY <1>1 DEF CallRest, TypeOK
<1>3. place \in CallPlaces(c)
  BY RequestPlaces
<1> QED
  BY <1>1, <1>2, <1>3, CallGoes

LEMMA DestroyRereads ==
    ASSUME IInv, NEW c \in Requests, DestroyReread(c)
    PROVE  IInv'
<1>1. TypeOK /\ c \in Callers /\ pc[c] = "d_rereading"
      /\ UNCHANGED <<runner, record, keys, queue, key, events, undone, untracked>>
      /\ accepted' \in BOOLEAN
  BY RequestPlaces DEF IInv, TypeOK, DestroyReread, At, Answer, history
<1>2. /\ seen[c] \in Payload /\ Derived(seen[c])
      /\ row \in Payload /\ Derived(row)
  BY <1>1, HeldPayloads, Copied DEF TypeOK
<1>3. Become(c, "d_recording", row) \/ Become(c, "idle", seen[c])
  BY DEF DestroyReread, Go
<1>4. "d_recording" \in Destroy
  BY DEF Destroy
<1> QED
  BY <1>1, <1>2, <1>3, <1>4, CallReads

LEMMA LooksAtSandbox ==
    ASSUME IInv, NEW c \in Requests, LookAtSandbox(c)
    PROVE  IInv'
<1>1. TypeOK /\ c \in Callers /\ pc[c] = "f_looking"
      /\ UNCHANGED <<runner, record, keys, queue, key, events, accepted, undone, untracked>>
  BY RequestPlaces DEF IInv, LookAtSandbox, At, history
<1>2. PICK p : p = Apply(seen[c], Phase)
  OBVIOUS
<1>3. p \in Payload /\ Derived(p)
  <2>1. Phase \in Phases /\ seen[c] \in Payload /\ seen[c] \in Held
    BY <1>1, PhaseType, HeldPayloads DEF TypeOK
  <2> QED
    BY <1>2, <2>1, ApplyPayload, Copied
<1>4. Become(c, "f_saving", p) \/ Become(c, "f_remembering", p)
  BY <1>2 DEF LookAtSandbox
<1>5. "f_saving" \in Refresh /\ "f_remembering" \in Refresh
  BY DEF Refresh
<1> QED
  BY <1>1, <1>3, <1>4, <1>5, CallReads DEF TypeOK

LEMMA PermitsKey ==
    ASSUME IInv, NEW c \in Requests, PermitKey(c)
    PROVE  IInv'
<1>1. TypeOK /\ c \in Callers /\ pc[c] = "p_permitting" /\ c # Worker
      /\ UNCHANGED <<runner, record, keys, events, accepted, undone, untracked>>
  BY RequestPlaces DEF IInv, PermitKey, At, history
<1>2. seen[c] \in Payload /\ Derived(seen[c])
  BY <1>1, HeldPayloads, Copied DEF TypeOK
<1>3. CASE Become(c, "p_saving", seen[c]) /\ UNCHANGED <<queue, key>>
  <2>1. "p_saving" \in Policies
    BY DEF Policies
  <2> QED
    BY <1>1, <1>2, <1>3, <2>1, CallReads DEF TypeOK
<1>4. CASE Throw(c)
  BY <1>1, <1>4, CallFails, Present DEF TypeOK
<1> QED
  BY <1>3, <1>4 DEF PermitKey, Go

LEMMA SoftDeletes ==
    ASSUME IInv, NEW c \in Requests, SoftDelete(c)
    PROVE  IInv'
<1>1. /\ TypeOK /\ pc[c] = "d_removing" /\ c \in Callers /\ c # Worker
      /\ removed' = exists /\ Go(c, "d_enqueueing")
      /\ UNCHANGED <<runner, exists, row, keys, queue, key, events, history>>
  BY RequestPlaces DEF IInv, SoftDelete, At
<1>2. "d_enqueueing" \in CallPlaces(c) /\ "d_enqueueing" \in Places
  BY RequestPlaces DEF Destroy
<1>3. /\ pc' \in [Callers -> Places] /\ seen' \in [Callers -> Payload]
      /\ pc'[c] = "d_enqueueing" /\ seen'[c] = seen[c]
      /\ \A d \in Callers : d # c => pc'[d] = pc[d] /\ seen'[d] = seen[d]
  BY <1>1, <1>2, GoMoves
<1>4. UNCHANGED <<job, tries, sandbox, task, accepted, undone, untracked>>
  BY <1>1 DEF queue, runner, history
<1>5. Derived(row') /\ Derived(seen'[c])
  BY <1>1, <1>3, HeldPayloads, Copied
<1>6. pc[Creator] # "new"
  BY <1>1, Present
<1>7. CallFrame(c)
  BY <1>1, <1>2, <1>3, <1>4, <1>5, <1>6 DEF CallFrame, TypeOK, Counts
<1> QED
  BY <1>1, <1>7, QuietCall

LEMMA DestroyEnqueues ==
    ASSUME IInv, NEW c \in Requests, DestroyEnqueue(c)
    PROVE  IInv'
<1>1. /\ TypeOK /\ pc[c] = "d_enqueueing" /\ c \in Callers /\ c # Worker
      /\ UNCHANGED <<runner, exists, removed, row, keys, key, events, history>>
  BY RequestPlaces DEF IInv, DestroyEnqueue, At, record
<1>2. PICK place \in {"d_rereading", "d_restoring"} : Go(c, place)
  BY DEF DestroyEnqueue
<1>3. /\ job' \in [Actions -> {"none", "waiting", "active"}] /\ tries' \in [Actions -> Nat]
  BY <1>1, QueueMoves, ActionNames DEF DestroyEnqueue, queue, TypeOK
<1>4. place \in CallPlaces(c) /\ place \in Places /\ place # "idle"
  BY RequestPlaces DEF Destroy
<1>5. /\ pc' \in [Callers -> Places] /\ seen' \in [Callers -> Payload]
      /\ pc'[c] = place /\ seen'[c] = seen[c]
      /\ \A d \in Callers : d # c => pc'[d] = pc[d] /\ seen'[d] = seen[d]
  BY <1>1, <1>2, <1>4, GoMoves
<1>6. UNCHANGED <<sandbox, task, accepted, undone, untracked>>
  BY <1>1 DEF runner, history
<1>7. Derived(row') /\ Derived(seen'[c])
  BY <1>1, <1>5, HeldPayloads, Copied
<1>8. pc[Creator] # "new"
  BY <1>1, Present
<1>9. exists => removed \/ undone
  BY <1>1 DEF IInv, RemovedInv
<1>10. CallFrame(c)
  BY <1>1, <1>3, <1>4, <1>5, <1>6, <1>7, <1>8, <1>9 DEF CallFrame, TypeOK
<1> QED
  BY <1>1, <1>10, QuietCall

LEMMA Restores ==
    ASSUME IInv, NEW c \in Requests, Restore(c)
    PROVE  IInv'
<1>1. /\ TypeOK /\ pc[c] = "d_restoring" /\ c \in Callers /\ c # Worker
      /\ removed' = FALSE /\ undone' = (undone \/ exists) /\ Go(c, "d_unmarking")
      /\ UNCHANGED <<runner, exists, row, keys, queue, key, events, accepted, untracked>>
  BY RequestPlaces DEF IInv, Restore, At
<1>2. "d_unmarking" \in CallPlaces(c) /\ "d_unmarking" \in Places
  BY RequestPlaces DEF Destroy
<1>3. /\ pc' \in [Callers -> Places] /\ seen' \in [Callers -> Payload]
      /\ pc'[c] = "d_unmarking" /\ seen'[c] = seen[c]
      /\ \A d \in Callers : d # c => pc'[d] = pc[d] /\ seen'[d] = seen[d]
  BY <1>1, <1>2, GoMoves
<1>4. UNCHANGED <<job, tries, sandbox, task>>
  BY <1>1 DEF queue, runner
<1>5. Derived(row') /\ Derived(seen'[c])
  BY <1>1, <1>3, HeldPayloads, Copied
<1>6. pc[Creator] # "new"
  BY <1>1, Present
<1>7. undone' \in BOOLEAN /\ (undone => undone') /\ (exists => undone')
  BY <1>1 DEF TypeOK
<1>8. CallFrame(c)
  BY <1>1, <1>2, <1>3, <1>4, <1>5, <1>6, <1>7 DEF CallFrame, TypeOK, Counts
<1> QED
  BY <1>1, <1>8, QuietCall

LEMMA Unmarks ==
    ASSUME IInv, NEW c \in Requests, Unmark(c)
    PROVE  IInv'
<1>1. TypeOK /\ pc[c] = "d_unmarking" /\ c \in Callers /\ c # Worker
      /\ UNCHANGED <<runner, keys, queue, key, events, accepted, undone, untracked>>
      /\ Become(c, "idle", seen[c])
  BY RequestPlaces DEF IInv, Unmark, At, Go, history
<1>2. /\ seen[c] \in Payload /\ Derived(seen[c])
      /\ row \in Payload /\ Derived(row)
  BY <1>1, HeldPayloads, Copied DEF TypeOK
<1>3. UNCHANGED <<exists, removed>> /\ row' \in {row, seen[c]}
  BY DEF Unmark, Save, record
<1>4. CallRest(c)
  BY <1>1, <1>2, <1>3, Present DEF CallRest, TypeOK
<1>5. "idle" \in CallPlaces(c)
  BY DEF CallPlaces
<1> QED
  BY <1>1, <1>2, <1>4, <1>5, CallGoes

(* What the Runner remembers too late is what loses it a task.             *)
LEMMA RemembersLook ==
    ASSUME IInv, NEW c \in Requests, RememberLook(c)
    PROVE  IInv'
<1>1. /\ TypeOK /\ pc[c] = "f_remembering" /\ c \in Callers /\ c # Worker
      /\ Go(c, "f_saving") /\ untracked' = (untracked \/ active)
      /\ UNCHANGED <<exists, removed, row, keys, queue, key, events, accepted, undone>>
      /\ UNCHANGED <<sandbox, provider, active, task, removal>>
  BY RequestPlaces DEF IInv, RememberLook, At, Remember, record
<1>2. "f_saving" \in CallPlaces(c) /\ "f_saving" \in Places
  BY RequestPlaces DEF Refresh
<1>3. /\ pc' \in [Callers -> Places] /\ seen' \in [Callers -> Payload]
      /\ pc'[c] = "f_saving" /\ seen'[c] = seen[c]
      /\ \A d \in Callers : d # c => pc'[d] = pc[d] /\ seen'[d] = seen[d]
  BY <1>1, <1>2, GoMoves
<1>4. UNCHANGED <<job, tries>>
  BY <1>1 DEF queue
<1>5. Derived(row') /\ Derived(seen'[c])
  BY <1>1, <1>3, HeldPayloads, Copied
<1>6. pc[Creator] # "new"
  BY <1>1, Present
<1>7. untracked' \in BOOLEAN /\ (untracked => untracked') /\ (active => untracked')
  BY <1>1 DEF TypeOK, RunnerTypeOK
<1>8. CallFrame(c)
  BY <1>1, <1>2, <1>3, <1>4, <1>5, <1>6, <1>7 DEF CallFrame, TypeOK
<1>9. RunnerTypeOK'
  <2>1. local' \in Phases
    <3>1. seen[c] \in Payload
      BY <1>1 DEF TypeOK
    <3> QED
      BY <3>1 DEF RememberLook, Remember, Payload, Phases
  <2> QED
    BY <1>1, <2>1 DEF TypeOK, RunnerTypeOK
<1>10. TrackInv'
  <2>1. (Provisioning' <=> Provisioning) /\ (Quiet' <=> Quiet) /\ pc'[Worker] = pc[Worker]
    BY <1>1, <1>3, Names DEF Provisioning, Quiet
  <2> QED
    BY <1>1, <1>7, <2>1 DEF IInv, TrackInv
<1> QED
  BY <1>1, <1>8, <1>9, <1>10, FramedCall

LEMMA RequestSteps ==
    ASSUME IInv, NEW c \in Requests, RequestStep(c)
    PROVE  IInv'
BY Marks, SoftDeletes, DestroyEnqueues, DestroyRereads, SavesSeen, Restores, Unmarks,
   LooksAtSandbox, RemembersLook, PermitsKey DEF RequestStep, DestroyStep

-----------------------------------------------------------------------------
(* Maintenance, and the Runner on its own. *)

(* A job of the other kind is not touched; one that deletes is only sent for *)
(* a row that is removed.                                                   *)
LEMMA Attaches ==
    ASSUME IInv, Attach
    PROVE  IInv'
<1>1. /\ TypeOK /\ Wanted \in Actions /\ Send(Wanted)
      /\ UNCHANGED <<runner, exists, removed, row, keys, pc, seen, key, events, history>>
  BY DEF IInv, Attach, record, control
<1>2. exists /\ (Wanted = "delete" => removed)
  BY <1>1 DEF Wanted, Live, Actions
<1>3. PICK a \in Actions : a = Wanted
  BY <1>1
<1>4. /\ job' \in [Actions -> {"none", "waiting", "active"}] /\ tries' \in [Actions -> Nat]
      /\ \A b \in Actions : b # a => job'[b] = job[b]
  BY <1>1, <1>3, QueueMoves
<1>5. job'["delete"] = job["delete"] \/ removed
  BY <1>2, <1>3, <1>4, ActionNames
<1>6. UNCHANGED <<accepted, undone, untracked>>
  BY <1>1 DEF history
<1>7. TypeOK'
  BY <1>1, <1>4, <1>6 DEF TypeOK, RunnerTypeOK, runner
<1>8. PlaceInv' /\ KeyInv'
  BY <1>1 DEF IInv, PlaceInv, KeyInv
<1>9. TrackInv'
  BY <1>1, <1>6, TrackKept DEF IInv
<1>10. NewInv' /\ RemovedInv'
  BY <1>1, <1>2, <1>5, <1>6 DEF IInv, NewInv, RemovedInv
<1>11. DoneInv'
  <2>1. (Quiet' <=> Quiet) /\ (Counts' <=> Counts) /\ (Away' <=> Away)
    BY <1>1, <1>6 DEF Quiet, Provisioning, runner, Counts, Away
  <2> QED
    BY <1>1, <2>1 DEF IInv, DoneInv, DoneOK, Unusable
<1> QED
  BY <1>7, <1>8, <1>9, <1>10, <1>11 DEF IInv

(* A step of the Runner or of OpenShell: where nothing runs and nothing is   *)
(* on its way, nothing comes of itself.                                     *)
LEMMA RunnerMoves ==
    ASSUME IInv, UNCHANGED Control, events' \in 0 .. Events,
           RunnerTypeOK', TrackInv', Quiet /\ ~untracked => Quiet'
    PROVE  IInv'
<1>1. UNCHANGED <<exists, removed, row, keys, job, tries, pc, seen, key, accepted, undone,
                  untracked>>
  BY DEF Control, record, queue, control, history
<1>2. TypeOK'
  BY <1>1 DEF IInv, TypeOK
<1>3. PlaceInv' /\ KeyInv' /\ NewInv' /\ RemovedInv'
  BY <1>1 DEF IInv, PlaceInv, KeyInv, NewInv, RemovedInv
<1>4. DoneInv'
  <2>1. (Counts' <=> Counts) /\ (Away' <=> Away)
    BY <1>1 DEF Counts, Away
  <2> QED
    BY <1>1, <2>1 DEF IInv, DoneInv, DoneOK, Unusable, Counts
<1> QED
  BY <1>2, <1>3, <1>4 DEF IInv

RunnerAlone ==
    \/ Boots \/ Vanishes \/ Breaks \/ Deleted \/ DeleteFails \/ Restart
    \/ \E k \in Keys : TaskStep(k) \/ TimesOut(k)

(* A task that ends was the only one. *)
LEMMA TaskEnds ==
    ASSUME TypeOK, TrackInv, ~untracked, NEW k \in Keys, task[k] # "none",
           task' = [task EXCEPT ![k] = "none"]
    PROVE  ~Provisioning' /\ \A j \in Keys : task'[j] = "none"
<1>1. \A j \in Keys : task'[j] = "none"
  BY DEF TypeOK, RunnerTypeOK, TrackInv
<1> QED
  BY <1>1 DEF Provisioning

LEMMA RunnerAlones ==
    ASSUME IInv, RunnerAlone, UNCHANGED <<pc, untracked>>
    PROVE  RunnerTypeOK' /\ TrackInv' /\ (Quiet /\ ~untracked => Quiet')
<1>1. TypeOK /\ RunnerTypeOK /\ TrackInv
  BY DEF IInv, TypeOK
<1>2. RunnerTypeOK'
  <2>1. CASE Boots \/ Vanishes \/ Breaks
    BY <1>1, <2>1 DEF RunnerTypeOK, Boots, Vanishes, Breaks
  <2>2. CASE Deleted \/ DeleteFails \/ Restart
    BY <1>1, <2>2 DEF RunnerTypeOK, Deleted, DeleteFails, Restart, Phases
  <2>3. ASSUME NEW k \in Keys, TaskStep(k) \/ TimesOut(k) PROVE RunnerTypeOK'
    BY <1>1, <2>3 DEF RunnerTypeOK, TaskStep, TimesOut, TaskProvider, TaskCreate, TaskReady,
       TaskFails, TaskEndsFailed, Phases
  <2> QED
    BY <2>1, <2>2, <2>3 DEF RunnerAlone
<1>3. TrackInv' /\ (Quiet /\ ~untracked => Quiet')
  <2> SUFFICES ASSUME ~untracked PROVE TrackInv' /\ (Quiet => Quiet')
    BY DEF TrackInv
  <2>1. CASE Boots \/ Vanishes \/ Breaks
    <3>1. UNCHANGED <<local, active, task, removal>> /\ sandbox # "none"
          /\ (sandbox' = "none" \/ sandbox \in {"provisioning", "ready"})
      BY <2>1 DEF Boots, Vanishes, Breaks
    <3>2. Provisioning' <=> Provisioning
      BY <3>1 DEF Provisioning
    <3> QED
      BY <1>1, <3>1, <3>2 DEF TrackInv, Quiet
  <2>2. CASE Deleted
    <3>1. UNCHANGED <<sandbox, active, task>> /\ ~Provisioning /\ removal' = "done"
          /\ sandbox = "none"
      BY <1>1, <2>2 DEF Deleted, TrackInv
    <3>2. ~Provisioning'
      BY <3>1 DEF Provisioning
    <3> QED
      BY <1>1, <3>1, <3>2 DEF TrackInv, Quiet
  <2>3. CASE DeleteFails
    <3>1. UNCHANGED <<sandbox, local, active, task>> /\ removal' = "failed"
      BY <2>3 DEF DeleteFails
    <3>2. Provisioning' <=> Provisioning
      BY <3>1 DEF Provisioning
    <3> QED
      BY <1>1, <3>1, <3>2 DEF TrackInv, Quiet
  <2>4. CASE Restart
    <3>1. /\ UNCHANGED sandbox /\ active' = FALSE /\ removal' # "running"
          /\ (removal' = "done" => removal = "done")
          /\ \A k \in Keys : task'[k] = "none"
      BY <2>4 DEF Restart
    <3>2. ~Provisioning'
      BY <3>1 DEF Provisioning
    <3> QED
      BY <1>1, <3>1, <3>2 DEF TrackInv, Quiet
  <2>5. ASSUME NEW k \in Keys, TaskProvider(k) \/ TaskCreate(k)
        PROVE  TrackInv' /\ (Quiet => Quiet')
    <3>1. /\ UNCHANGED <<local, active, removal>> /\ task[k] # "none"
          /\ \A j \in Keys : task'[j] # "none" <=> task[j] # "none"
      BY <1>1, <2>5 DEF TaskProvider, TaskCreate, RunnerTypeOK
    <3>2. Provisioning' /\ Provisioning
      BY <3>1 DEF Provisioning
    <3> QED
      BY <1>1, <3>1, <3>2 DEF TrackInv, Quiet
  <2>6. ASSUME NEW k \in Keys, TaskReady(k) \/ TaskFails(k) \/ TimesOut(k)
        PROVE  TrackInv' /\ (Quiet => Quiet')
    <3>1. /\ task[k] # "none" /\ task' = [task EXCEPT ![k] = "none"]
          /\ active' = FALSE /\ UNCHANGED removal
      BY <2>6 DEF TaskReady, TaskFails, TimesOut, TaskEndsFailed
    <3>2. ~Provisioning' /\ Provisioning /\ \A j \in Keys : task'[j] = "none"
      BY <1>1, <3>1, TaskEnds DEF Provisioning
    <3> QED
      BY <1>1, <3>1, <3>2 DEF TrackInv, Quiet
  <2> QED
    BY <2>1, <2>2, <2>3, <2>4, <2>5, <2>6 DEF RunnerAlone, TaskStep
<1> QED
  BY <1>2, <1>3

LEMMA RunnerSteps ==
    ASSUME IInv, Runtime \/ RuntimeFault
    PROVE  IInv'
<1>1. RunnerAlone /\ UNCHANGED Control /\ events' \in 0 .. Events
  <2>1. CASE Runtime
    BY <2>1 DEF Runtime, RuntimeStep, RunnerAlone, DeleteGivesUp, IInv, TypeOK
  <2>2. CASE RuntimeFault
    BY <2>2, LifecycleAssumption DEF RuntimeFault, RunnerAlone, Spend, IInv, TypeOK
  <2> QED
    BY <2>1, <2>2
<1>2. UNCHANGED <<pc, untracked>>
  BY <1>1 DEF Control, control, history
<1> QED
  BY <1>1, <1>2, RunnerAlones, RunnerMoves

-----------------------------------------------------------------------------
(* The invariant. *)

LEMMA InitIInv == Init => IInv
<1> SUFFICES ASSUME Init PROVE IInv
  OBVIOUS
<1>1. /\ \A c \in Callers : pc[c] = IF c = Worker THEN "idle" ELSE "new"
      /\ \A c \in Callers : seen[c] = Fresh
      /\ ~Provisioning
  BY DEF Init, RunnerInit, Provisioning
<1>2. TypeOK
  <2>1. RunnerTypeOK
    BY DEF Init, RunnerInit, RunnerTypeOK, Phases
  <2>2. pc \in [Callers -> Places] /\ seen \in [Callers -> Payload]
    BY FreshPayload DEF Init, Places
  <2>3. /\ keys \in [Keys -> {"none", "live", "blocked"}]
        /\ job \in [Actions -> {"none", "waiting", "active"}]
        /\ tries \in [Actions -> Nat]
    BY DEF Init
  <2>4. row \in Payload /\ events \in 0 .. Events
    BY FreshPayload, LifecycleAssumption DEF Init
  <2> QED
    BY <2>1, <2>2, <2>3, <2>4 DEF Init, TypeOK, Places
<1>3. PlaceInv
  BY <1>1, Names DEF PlaceInv
<1>4. TrackInv
  BY <1>1, Names DEF Init, RunnerInit, TrackInv, Calm, Emptying
<1>5. KeyInv
  BY <1>1, Names DEF Init, KeyInv
<1>6. NewInv
  BY <1>1, FreshPayload DEF Init, NewInv
<1>7. RemovedInv /\ DoneInv
  BY DEF Init, RemovedInv, DoneInv, Counts
<1> QED
  BY <1>2, <1>3, <1>4, <1>5, <1>6, <1>7 DEF IInv

LEMMA NextIInv == IInv /\ [Next]_vars => IInv'
<1> SUFFICES ASSUME IInv, [Next]_vars PROVE IInv'
  OBVIOUS
<1>1. CASE Create
  BY <1>1, Creates, CreateEnqueues, CreateAttaches, CreateForgets DEF Create
<1>2. CASE (\E a \in Actions : Take(a)) \/ ProvisionStep \/ DeletionStep \/ AnswerLost
  BY <1>2, WorkerStep
<1>3. ASSUME NEW c \in Requests, Request(c) \/ RequestStep(c) PROVE IInv'
  BY <1>3, Asks, RequestSteps
<1>4. CASE Attach
  BY <1>4, Attaches
<1>5. ASSUME NEW c \in Callers, Fails(c) \/ Crash(c) PROVE IInv'
  BY <1>5, WorkerStep, CallFaults
<1>6. CASE Runtime \/ RuntimeFault
  BY <1>6, RunnerSteps
<1>7. CASE UNCHANGED vars
  <2>1. UNCHANGED <<exists, removed, row, keys, job, tries, pc, seen, key, events, accepted,
                    undone, untracked, sandbox, provider, local, active, task, removal>>
    BY <1>7 DEF vars, runner, record, queue, control, history
  <2>2. TypeOK'
    BY <2>1 DEF IInv, TypeOK, RunnerTypeOK
  <2>3. PlaceInv' /\ KeyInv' /\ NewInv' /\ RemovedInv'
    BY <2>1 DEF IInv, PlaceInv, KeyInv, NewInv, RemovedInv
  <2>4. Quiet' <=> Quiet
    BY <2>1 DEF Quiet, Provisioning
  <2>5. TrackInv'
    BY <2>1, TrackKept DEF IInv, runner
  <2>6. DoneInv'
    BY <2>1, <2>4 DEF IInv, DoneInv, Counts, DoneOK, Away, Unusable
  <2> QED
    BY <2>2, <2>3, <2>5, <2>6 DEF IInv
<1> QED
  BY <1>1, <1>2, <1>3, <1>4, <1>5, <1>6, <1>7 DEF Next

(* What the theorems below rest on: the invariant is inductive.            *)
LEMMA Invariant == Spec => []IInv
<1>1. Init => IInv
  BY InitIInv
<1>2. IInv /\ [Next]_vars => IInv'
  BY NextIInv
<1> QED
  BY <1>1, <1>2, PTL DEF Spec

(* Every variable keeps to its type, whatever the interleaving.            *)
THEOREM TypeCorrect == Spec => []TypeOK
<1>1. IInv => TypeOK
  BY DEF IInv
<1> QED
  BY <1>1, Invariant, PTL

(* An Instance never has two usable keys: the worker makes one only in an   *)
(* attempt that found none left, and nobody else makes any.                *)
THEOREM AtMostOneKey == Spec => []OneLiveKey
<1>1. IInv => OneLiveKey
  <2> SUFFICES ASSUME IInv PROVE OneLiveKey
    OBVIOUS
  <2> DEFINE S == {k \in Keys : keys[k] = "live"}
  <2>1. \A j, k \in S : j = k
    BY DEF IInv, KeyInv
  <2>2. CASE S = {}
    BY <2>2, FS_EmptySet DEF OneLiveKey
  <2>3. CASE S # {}
    <3>1. PICK k \in S : TRUE
      BY <2>3
    <3>2. S = {k}
      BY <2>1, <3>1
    <3>3. Cardinality(S) = 1
      BY <3>2, FS_Singleton
    <3> QED
      BY <3>3 DEF OneLiveKey
  <2> QED
    BY <2>2, <2>3
<1> QED
  BY <1>1, Invariant, PTL

(* A deletion that completed left nothing: no Sandbox, no task, and no      *)
(* usable key on record.                                                   *)
THEOREM CompletionLeavesNothing == Spec => []DeletionIsComplete
<1>1. IInv => DeletionIsComplete
  <2> SUFFICES ASSUME IInv, exists, removed, row.done, ~undone, ~untracked
               PROVE  /\ sandbox = "none" /\ ~Provisioning
                      /\ row.token # Nobody => keys[row.token] # "live"
    BY DEF DeletionIsComplete
  <2>1. Quiet /\ Unusable(row)
    BY DEF IInv, DoneInv, Counts, DoneOK
  <2>2. row.token \in Keys \cup {Nobody}
    BY DEF IInv, TypeOK, Payload
  <2> QED
    BY <2>1, <2>2 DEF Quiet, Unusable
<1> QED
  BY <1>1, Invariant, PTL

-----------------------------------------------------------------------------
(* Keys become usable in one place. *)

NoneBecomesLive == \A k \in Keys : keys'[k] = "live" => keys[k] = "live"

LEMMA WorkerMakesNone ==
    ASSUME TypeOK, ProvisionStep \/ DeletionStep, pc[Worker] # "keying"
    PROVE  NoneBecomesLive
<1>1. CASE Read \/ Accept \/ Observe \/ Wait \/ WaitTimesOut \/ Settle
  BY <1>1 DEF NoneBecomesLive, Read, Accept, Observe, Wait, WaitTimesOut, Settle
<1>2. CASE Clear \/ Cleared \/ Unkey \/ Record \/ PostSandbox \/ Note
  BY <1>2 DEF NoneBecomesLive, Clear, DestroySandbox, Cleared, Destroyed, Unkey, Record,
     PostSandbox, Note
<1>3. CASE UndoRow \/ FailRead \/ FailSave
  BY <1>3 DEF NoneBecomesLive, UndoRow, FailRead, FailSave
<1>4. CASE DeleteRead \/ DeleteSandbox \/ SandboxDeleted \/ Complete \/ RetryRead \/ RetrySave
  BY <1>4 DEF NoneBecomesLive, DeleteRead, DeleteSandbox, DestroySandbox, SandboxDeleted,
     Destroyed, Complete, RetryRead, RetrySave
<1>5. CASE Revoke \/ UndoKey
  BY <1>5 DEF NoneBecomesLive, Revoke, UndoKey, TypeOK
<1>6. CASE Recover
  BY <1>6 DEF NoneBecomesLive, Recover, TypeOK
<1>7. CASE Block
  BY <1>7 DEF NoneBecomesLive, Block, TypeOK
<1>8. ASSUME NEW k \in Keys, MakeKey(k) PROVE NoneBecomesLive
  BY <1>8 DEF MakeKey, At
<1> QED
  BY <1>1, <1>2, <1>3, <1>4, <1>5, <1>6, <1>7, <1>8 DEF ProvisionStep, DeletionStep

LEMMA OthersMakeNone ==
    ASSUME NEW c \in Requests, Request(c) \/ RequestStep(c)
    PROVE  UNCHANGED keys
<1>1. CASE Request(c)
  BY <1>1 DEF Request, Destroying, Look, Permit
<1>2. CASE DestroyStep(c)
  BY <1>2 DEF DestroyStep, Mark, SoftDelete, DestroyEnqueue, DestroyReread, DestroyRecord,
     Restore, Unmark
<1>3. CASE ~DestroyStep(c) /\ RequestStep(c)
  BY <1>3 DEF RequestStep, LookAtSandbox, RememberLook, SaveLook, PermitKey, SavePolicies
<1> QED
  BY <1>1, <1>2, <1>3

LEMMA OnlyKeying ==
    ASSUME IInv, [Next]_vars, pc[Worker] # "keying"
    PROVE  NoneBecomesLive
<1>1. CASE ProvisionStep \/ DeletionStep
  BY <1>1, WorkerMakesNone DEF IInv
<1>2. CASE Create
  BY <1>2 DEF NoneBecomesLive, Create, CreateSave, CreateEnqueue, CreateAttach, CreateForget
<1>3. ASSUME NEW c \in Requests, Request(c) \/ RequestStep(c) PROVE NoneBecomesLive
  BY <1>3, OthersMakeNone DEF NoneBecomesLive
<1>4. CASE AnswerLost
  BY <1>4 DEF NoneBecomesLive, AnswerLost, At
<1>5. CASE (\E a \in Actions : Take(a)) \/ Attach
  BY <1>5 DEF NoneBecomesLive, Take, Attach
<1>6. ASSUME NEW c \in Callers, Fails(c) \/ Crash(c) PROVE NoneBecomesLive
  BY <1>6 DEF NoneBecomesLive, Fails, Crash
<1>7. CASE Runtime \/ RuntimeFault
  BY <1>7 DEF NoneBecomesLive, Runtime, RuntimeFault, Control
<1>8. CASE UNCHANGED vars
  BY <1>8 DEF NoneBecomesLive, vars
<1> QED
  BY <1>1, <1>2, <1>3, <1>4, <1>5, <1>6, <1>7, <1>8 DEF Next

(* A key is made when nothing runs, as far as the Runner can tell: the      *)
(* attempt that makes it waited for the removal of what ran before.        *)
THEOREM KeysFollowRemoval == Spec => NoKeyBesideRuntime
<1>1. ASSUME IInv, [Next]_vars
      PROVE  \A k \in Keys : keys[k] # "live" /\ keys'[k] = "live"
                => sandbox = "none" \/ untracked
  <2>1. CASE pc[Worker] = "keying"
    BY <1>1, <2>1 DEF IInv, TrackInv, Calm, Quiet
  <2>2. CASE pc[Worker] # "keying"
    BY <1>1, <2>2, OnlyKeying DEF NoneBecomesLive
  <2> QED
    BY <2>1, <2>2
<1> QED
  BY <1>1, Invariant, PTL DEF Spec, NoKeyBesideRuntime
=============================================================================
