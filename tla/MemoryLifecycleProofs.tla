----------------------- MODULE MemoryLifecycleProofs -----------------------
(***************************************************************************)
(* What TLAPS proves of MemoryLifecycle, for any number of processes,      *)
(* Instances and late failures.                                            *)
(***************************************************************************)
EXTENDS MemoryLifecycle, TLAPS

LocalOK == /\ pc \in [Processes -> Places]
           /\ op \in [Processes -> Methods]
           /\ inst \in [Processes -> Instances \cup {Nobody}]
           /\ seen \in [Processes -> Statuses]
           /\ move \in [Processes -> Move]

Moving(p) == pc[p] \in {"moving", "writing"}

(* The two decisions exclude each other by the lock, and a transition never *)
(* starts a deletion.                                                       *)
LockedPlaces == {"binding_locked", "deleting_locked"}

LockInv ==
    /\ \A p \in Processes : pc[p] \in LockedPlaces => lock = p
    /\ \A p \in Processes : pc[p] = "deleting_locked" => bound = Nobody
    /\ \A p \in Processes : pc[p] = "binding_locked" => status # "deleting"
    /\ \A p \in Processes : /\ move[p].to # "deleting"
                            /\ {move[p].yes, move[p].no} \cap LockedPlaces = {}

(* The Control plane can name the bank, or does not need to any more. *)
Named == ref \/ status = "deleted"

RefPlaces == {"resolving", "binding", "binding_locked", "detached",
              "checking_health", "counting_bound", "deleting",
              "deleting_locked", "erasing", "failing_deletion", "observing",
              "recovering"}

RefInv ==
    /\ UsableHasRef
    /\ \A p \in Processes : pc[p] \in RefPlaces => Named
    /\ \A p \in Processes :
        /\ move[p].ref = "set" => move[p].to = "ready"
        /\ (move[p].ref = "clear") <=> (move[p].to = "deleted")
        /\ Moving(p) /\ move[p].ref # "set" /\ move[p].to # "degraded" => Named
        /\ move[p].yes \in RefPlaces => move[p].ref = "set"
        /\ Moving(p) /\ move[p].no \in RefPlaces => Named

Creator(p) == pc[p] # "idle" /\ op[p] \in {"create", "adopt"}

(* The methods a place belongs to. *)
Owners(place) ==
    IF place \in {"upserting", "provisioning", "adopting", "resolving", "saving",
                  "queueing", "unpreparing", "undoing", "forgetting"}
    THEN {"create", "adopt"}
    ELSE IF place = "attaching" THEN {"attach"}
    ELSE IF place = "cleaning" THEN {"cleanup"}
    ELSE IF place \in {"checking", "binding", "binding_locked"}
    THEN {"create", "adopt", "attach"}
    ELSE Methods

(* No error and no transition leads to these places. *)
InnerPlaces == {"moving", "writing", "detaching"}

(* The methods that name an Instance *)
Naming == {"create", "adopt", "attach", "detach", "unbind"}

PlaceInv ==
    /\ ref => status # "absent"
    /\ \A p \in Processes : pc[p] # "idle" =>
        /\ op[p] \in Owners(pc[p])
        /\ op[p] \in Naming \/ pc[p] = "detaching" => inst[p] \in Instances
        /\ Moving(p) => /\ op[p] \in Owners(move[p].yes) \cap Owners(move[p].no)
                        /\ move[p].yes = "checking" => op[p] = "attach"
                        /\ {move[p].yes, move[p].no} \cap InnerPlaces = {}

(* The methods that bind the Instance they name *)
Binders == {"create", "adopt", "attach"}
Holds(p) == pc[p] # "idle" /\ op[p] \in Binders

(* Before these the Agent row was written. *)
RowPlaces == {"checking", "binding", "binding_locked"}

(* While a request runs that creates an Instance, nobody else binds it, and *)
(* its own binding is gone before it takes the row back.                    *)
AgentInv ==
    /\ BoundAgentExists
    /\ \A p \in Processes : binder = p => pc[p] \in {"queueing", "unpreparing"}
    /\ \A p \in Processes : Holds(p) /\ op[p] = "attach" => inst[p] \in agents
    /\ \A p \in Processes : Creator(p) =>
        /\ bound = inst[p] => binder = p
        /\ pc[p] \in RowPlaces => inst[p] \in agents
        /\ Moving(p) => {move[p].yes, move[p].no} \cap RowPlaces = {}
        /\ \A q \in Processes \ {p} : Holds(q) => inst[q] # inst[p]

-----------------------------------------------------------------------------
(* Types *)

(* The locals of a process keep their types when it moves (Become).         *)
LEMMA BecomeType ==
    ASSUME LocalOK, NEW p \in Processes, NEW place \in Places,
           NEW o \in Methods, NEW i \in Instances \cup {Nobody},
           NEW s \in Statuses, NEW m \in Move,
           Become(p, place, o, i, s, m)
    PROVE  LocalOK'
<1>1. "create" \in Methods /\ "ready" \in Statuses /\ NoMove \in Move
  BY DEF Methods, Statuses, NoMove, Move, Places
<1>2. pc' \in [Processes -> Places]
  BY DEF Become, LocalOK
<1>3. op' \in [Processes -> Methods]
  BY <1>1 DEF Become, LocalOK
<1>4. inst' \in [Processes -> Instances \cup {Nobody}]
  BY DEF Become, LocalOK
<1>5. seen' \in [Processes -> Statuses]
  BY <1>1 DEF Become, LocalOK
<1>6. move' \in [Processes -> Move]
  BY <1>1 DEF Become, LocalOK
<1> QED
  BY <1>2, <1>3, <1>4, <1>5, <1>6 DEF LocalOK

(* So they do when it keeps what it has. *)
LEMMA GoType ==
    ASSUME LocalOK, NEW p \in Processes, NEW place \in Places, Go(p, place)
    PROVE  LocalOK'
<1>1. NoMove \in Move
  BY DEF Statuses, NoMove, Move, Places
<1>2. /\ op[p] \in Methods /\ inst[p] \in Instances \cup {Nobody}
      /\ seen[p] \in Statuses
  BY DEF LocalOK
<1> QED
  BY <1>1, <1>2, BecomeType DEF Go

(* ... and when it calls transitionMemory. *)
LEMMA TransitionType ==
    ASSUME LocalOK, NEW p \in Processes, NEW to \in Statuses,
           NEW r \in {"keep", "set", "clear"}, NEW yes \in Places,
           NEW no \in Places, Transition(p, to, r, yes, no)
    PROVE  LocalOK'
<1>1. [to |-> to, ref |-> r, yes |-> yes, no |-> no] \in Move
  BY DEF Move
<1>2. "moving" \in Places
  BY DEF Places
<1>3. /\ op[p] \in Methods /\ inst[p] \in Instances \cup {Nobody}
      /\ seen[p] \in Statuses
  BY DEF LocalOK
<1> QED
  BY <1>1, <1>2, <1>3, BecomeType DEF Transition

(* Every error has a handler. *)
LEMMA HandlerType ==
    ASSUME LocalOK, NEW p \in Processes
    PROVE  /\ Handler(p) \in Places
           /\ AfterDelete(p) \in Places /\ AfterDetach(p) \in Places
           /\ AfterCount(p) \in Places
<1>1. move[p].no \in Places
  BY DEF LocalOK, Move
<1>2. AfterDelete(p) \in Places /\ AfterDetach(p) \in Places /\ AfterCount(p) \in Places
  BY DEF AfterDelete, AfterDetach, AfterCount, Places
<1>3. /\ "idle" \in Places /\ "degrading" \in Places /\ "undoing" \in Places
      /\ "unpreparing" \in Places /\ "forgetting" \in Places
      /\ "failing_deletion" \in Places /\ "rechecking" \in Places
  BY DEF Places
<1>4. Handler(p) \in {move[p].no, AfterDelete(p), AfterCount(p), "idle", "degrading", "undoing",
                      "unpreparing", "forgetting", "failing_deletion",
                      "rechecking"}
  <2>1. ReadHandler(p) \in {"idle", "degrading", "rechecking", AfterCount(p)}
    BY Zenon DEF ReadHandler
  <2> QED
    BY <2>1, Zenon DEF Handler
<1> QED
  BY <1>1, <1>2, <1>3, <1>4

SharedOK == /\ status \in Statuses \cup {"absent"}
            /\ ref \in BOOLEAN /\ bank \in BOOLEAN
            /\ bound \in Instances \cup {Nobody}
            /\ binder \in Processes \cup {Nobody}
            /\ agents \subseteq Instances
            /\ created \in Instances \cup {Nobody}
            /\ lock \in Processes \cup {Nobody}
            /\ deleted \in BOOLEAN
            /\ late \in 0 .. Late

(* The rows, the lock and the counters keep their types on every step.      *)
LEMMA SharedType ==
    ASSUME TypeOK, PlaceInv, NEW p \in Processes,
           Start(p) \/ Continue(p) \/ Fails(p) \/ Crash(p) \/ DeleteProject
    PROVE  SharedOK'
<1> USE MemoryAssumption
<1>1. SharedOK /\ inst[p] \in Instances \cup {Nobody} /\ move[p].to \in Statuses
  BY DEF TypeOK, SharedOK, Move
<1>2. CASE Start(p) \/ Crash(p) \/ DeleteProject
  <2>1. CASE Start(p)
    <3>1. Disturb \/ UNCHANGED Env
      BY <2>1 DEF Start
    <3>2. deleted' \in BOOLEAN /\ late' \in 0 .. Late
      BY <1>1, <3>1 DEF SharedOK, Disturb, Env
    <3> QED
      BY <1>1, <2>1, <3>2 DEF SharedOK, Start, Row, Binding, Request
  <2>2. CASE Crash(p)
    BY <1>1, <2>2 DEF SharedOK, Crash, Row, Request, Disturb, Unlock, Release
  <2>3. CASE DeleteProject
    BY <1>1, <2>3 DEF SharedOK, DeleteProject, Row, Binding, Request
  <2> QED
    BY <1>2, <2>1, <2>2, <2>3
<1>3. CASE Fails(p)
  <2>1. bank' \in BOOLEAN
    BY <1>1, <1>3 DEF SharedOK, Fails
  <2> QED
    BY <1>1, <1>3, <2>1 DEF SharedOK, Fails, Binding, Request, Disturb, Unlock,
       Release
<1>4. CASE MoveRead(p) \/ Undoing(p) \/ Retrying(p) \/ Reading(p)
  BY <1>1, <1>4
     DEF SharedOK, MoveRead, Undoing, Unprepare, Undo, Forget, Detach,
     Unbind, Retrying, Retry, CheckHealth, CountBound, CreateBank, Reading, Ask,
     Observe, Touch, Recover, Recheck, Keeps, Row, Binding, Request, Env
<1>5. CASE MoveWrite(p)
  <2>1. ref' \in BOOLEAN
    BY <1>1, <1>5 DEF SharedOK, MoveWrite
  <2> QED
    BY <1>1, <1>5, <2>1 DEF SharedOK, MoveWrite, Binding, Request, Env
<1>6. CASE Creation(p)
  <2>1. CASE Save(p) \/ BindRead(p) \/ BindWrite(p) \/ Queue(p)
    <3>1. CASE Save(p)
      <4>1. inst[p] \in Instances
        BY <3>1 DEF PlaceInv, Owners, Save, At, Naming
      <4> QED
        BY <1>1, <3>1, <4>1 DEF SharedOK, Save, Row, Binding, Request, Env
    <3> QED
      BY <1>1, <2>1, <3>1 DEF SharedOK, BindRead, BindWrite, Queue, Unlock,
         Release, Row, Binding, Request, Env
  <2> QED
    BY <1>1, <1>6, <2>1
       DEF SharedOK, Creation, Upsert, Provision, Degrade, Adopt,
       Resolve, Attach, Check, Keeps, Row, Binding, Request, Env, Statuses
<1>7. CASE Deleting(p)
  BY <1>1, <1>7 DEF SharedOK, Deleting, DeleteRead, DeletionRead, DeletionWrite,
     Erase, FailDeletion, Clean, CleanRow, CleanRetried, Keeps, Unlock, Row,
     Binding, Request, Env, Statuses
<1> QED
  BY <1>2, <1>3, <1>4, <1>5, <1>6, <1>7 DEF Continue

(* The locals of the processes keep their types on every step.              *)
LEMMA LocalType ==
    ASSUME TypeOK, PlaceInv, NEW p \in Processes,
           Start(p) \/ Continue(p) \/ Fails(p) \/ Crash(p) \/ DeleteProject
    PROVE  LocalOK'
<1> USE MemoryAssumption
<1>1. LocalOK /\ status \in Statuses \cup {"absent"}
  BY DEF TypeOK, LocalOK
<1>2. /\ op[p] \in Methods /\ inst[p] \in Instances \cup {Nobody}
      /\ seen[p] \in Statuses /\ move[p] \in Move
      /\ move[p].to \in Statuses /\ move[p].yes \in Places /\ NoMove \in Move
  BY <1>1 DEF LocalOK, Move, NoMove, Statuses, Places
<1>3. bound \in Instances \cup {Nobody}
  BY DEF TypeOK
<1>4. /\ Handler(p) \in Places
      /\ AfterDelete(p) \in Places /\ AfterDetach(p) \in Places
      /\ AfterCount(p) \in Places
  BY <1>1, HandlerType
<1>5. BoundStatus \in Statuses
  BY DEF BoundStatus, Statuses
<1>6. Throw(p) => LocalOK'
  BY <1>1, <1>4, GoType DEF Throw
<1>7. ASSUME NEW place \in Places, status # "absent", Remember(p, place)
      PROVE  LocalOK'
  BY <1>1, <1>2, <1>7, BecomeType DEF Remember
<1>8. CASE Start(p)
  <2>1. PICK o \in Operations : \E i \in Subjects(o) :
          Become(p, FirstPlace[o], o, i, "ready", NoMove)
    BY <1>8 DEF Start
  <2>2. PICK i \in Subjects(o) : Become(p, FirstPlace[o], o, i, "ready", NoMove)
    BY <2>1
  <2>3. o \in Methods
    OBVIOUS
  <2>4. FirstPlace[o] \in Places
    BY <2>3 DEF FirstPlace, Methods, Places
  <2>5. i \in Instances \cup {Nobody}
    BY DEF Subjects, TypeOK
  <2>6. "ready" \in Statuses
    BY DEF Statuses
  <2> QED
    BY <1>1, <1>2, <2>2, <2>3, <2>4, <2>5, <2>6, BecomeType
<1>9. CASE Fails(p) \/ Crash(p) \/ DeleteProject
  <2>1. "idle" \in Places
    BY DEF Places
  <2> QED
    BY <1>1, <1>6, <1>9, <2>1, GoType
       DEF Fails, Crash, DeleteProject, Local, LocalOK
<1>10. CASE MoveRead(p) \/ MoveWrite(p)
  <2>1. "writing" \in Places
    BY DEF Places
  <2> QED
    BY <1>1, <1>2, <1>6, <1>10, <2>1, BecomeType DEF MoveRead, MoveWrite
<1>11. CASE Creation(p)
  <2>1. CASE Upsert(p)
    <3>1. PICK place \in {"resolving", "idle", "provisioning"} :
            Become(p, place, op[p], inst[p], status', NoMove)
      BY <2>1 DEF Upsert
    <3>2. place \in Places /\ status' \in Statuses
      BY <1>1, <2>1 DEF Upsert, Places, Statuses
    <3> QED
      BY <1>1, <1>2, <3>1, <3>2, BecomeType
  <2>2. CASE Adopt(p)
    <3>1. "resolving" \in Places
      BY DEF Places
    <3> QED
      BY <1>6, <1>7, <2>2, <3>1 DEF Adopt
  <2>3. CASE Provision(p) \/ Degrade(p) \/ Resolve(p) \/ Attach(p)
    <3>1. /\ "resolving" \in Places /\ "degrading" \in Places /\ "saving" \in Places
          /\ "checking" \in Places /\ "idle" \in Places
          /\ "ready" \in Statuses /\ "degraded" \in Statuses
      BY DEF Places, Statuses
    <3> QED
      BY <1>1, <1>4, <1>6, <2>3, <3>1, GoType, TransitionType
         DEF Provision, Degrade, Resolve, Attach
  <2>4. CASE Save(p) \/ Check(p) \/ BindRead(p) \/ BindWrite(p) \/ Queue(p)
    <3>1. /\ "idle" \in Places /\ "checking" \in Places /\ "binding" \in Places
          /\ "binding_locked" \in Places /\ "queueing" \in Places
      BY DEF Places
    <3> QED
      BY <1>1, <1>6, <2>4, <3>1, GoType
         DEF Save, Check, BindRead, BindWrite, Queue
  <2> QED
    BY <1>11, <2>1, <2>2, <2>3, <2>4 DEF Creation
<1>12. CASE Undoing(p)
  <2>1. /\ "undoing" \in Places /\ "delete_reading" \in Places
        /\ "forgetting" \in Places /\ "idle" \in Places /\ "detached" \in Places
        /\ "unbound" \in Statuses
    BY DEF Places, Statuses
  <2> QED
    BY <1>1, <1>4, <1>12, <2>1, GoType, TransitionType
       DEF Undoing, Unprepare, Undo, Forget, Detach, Unbind
<1>13. CASE Retrying(p)
  <2>1. /\ "checking_health" \in Places /\ "creating_bank" \in Places
        /\ "counting_bound" \in Places /\ "asking" \in Places
        /\ "idle" \in Places /\ "ready" \in Statuses
    BY DEF Places, Statuses
  <2> QED
    BY <1>1, <1>4, <1>5, <1>6, <1>13, <2>1, GoType, TransitionType
       DEF Retrying, Retry, CheckHealth, CountBound, CreateBank
<1>14. CASE Deleting(p)
  <2>1. /\ "deleting" \in Places /\ "erasing" \in Places /\ "idle" \in Places
        /\ "deleting_locked" \in Places /\ "failing_deletion" \in Places
        /\ "cleaning_row" \in Places /\ "detaching" \in Places
        /\ "delete_reading" \in Places /\ "retrying" \in Places
        /\ "deleted" \in Statuses /\ "deletion_failed" \in Statuses
    BY DEF Places, Statuses
  <2>2. CASE Clean(p)
    BY <1>1, <1>2, <1>3, <2>1, <2>2, GoType, BecomeType DEF Clean
  <2>3. CASE DeleteRead(p) \/ DeletionRead(p) \/ DeletionWrite(p)
    BY <1>1, <1>4, <1>6, <2>1, <2>3, GoType
       DEF DeleteRead, DeletionRead, DeletionWrite
  <2>4. CASE Erase(p) \/ FailDeletion(p)
    BY <1>1, <1>4, <2>1, <2>4, TransitionType DEF Erase, FailDeletion
  <2>5. CASE CleanRow(p) \/ CleanRetried(p)
    BY <1>1, <2>1, <2>5, GoType DEF CleanRow, CleanRetried
  <2> QED
    BY <1>14, <2>2, <2>3, <2>4, <2>5 DEF Deleting
<1>15. CASE Reading(p)
  <2>1. /\ "observing" \in Places /\ "touching" \in Places /\ "idle" \in Places
        /\ "recovering" \in Places /\ "rechecking" \in Places
        /\ "degrading" \in Places /\ "ready" \in Statuses
    BY DEF Places, Statuses
  <2>2. CASE Ask(p)
    <3>1. Readable(op[p]) => status # "absent"
      BY DEF Readable, PlaceInv
    <3> QED
      BY <1>1, <1>4, <1>6, <1>7, <2>1, <2>2, <3>1, GoType DEF Ask
  <2> QED
    BY <1>1, <1>4, <1>5, <1>6, <1>15, <2>1, <2>2, GoType, TransitionType
       DEF Reading, Observe, Touch, Recover, Recheck
<1> QED
  BY <1>8, <1>9, <1>10, <1>11, <1>12, <1>13, <1>14, <1>15 DEF Continue

-----------------------------------------------------------------------------
(* Places *)

(* A step of one process leaves the locals of the others alone.             *)
LEMMA OthersKeep ==
    ASSUME LocalOK, NEW p \in Processes, NEW place, NEW o, NEW i, NEW s, NEW m,
           Become(p, place, o, i, s, m)
    PROVE  \A q \in Processes \ {p} :
             /\ pc'[q] = pc[q] /\ op'[q] = op[q] /\ inst'[q] = inst[q]
             /\ seen'[q] = seen[q] /\ move'[q] = move[q]
  BY DEF Become, LocalOK

(* ... and gives its own the values Become names. *)
LEMMA OwnLocals ==
    ASSUME LocalOK, NEW p \in Processes, NEW place, NEW o, NEW i, NEW s, NEW m,
           Become(p, place, o, i, s, m)
    PROVE  /\ pc'[p] = place
           /\ place # "idle" => /\ op'[p] = o /\ inst'[p] = i
                                /\ seen'[p] = s /\ move'[p] = m
           /\ place = "idle" => /\ op'[p] = "create" /\ inst'[p] = Nobody
                                /\ move'[p] = NoMove
  BY DEF Become, LocalOK

(* Where an error leads, by the place it is thrown at.                      *)
LEMMA HandlerCases ==
    ASSUME NEW p \in Processes
    PROVE  \/ pc[p] \in {"moving", "writing"} /\ Handler(p) = move[p].no
           \/ /\ pc[p] \in {"saving", "checking", "binding", "binding_locked"}
              /\ op[p] \in {"create", "adopt"}
              /\ Handler(p) = "undoing"
           \/ pc[p] = "queueing" /\ Handler(p) = "unpreparing"
           \/ pc[p] = "undoing" /\ Handler(p) = "forgetting"
           \/ Handler(p) = AfterDelete(p) \/ Handler(p) = AfterCount(p)
           \/ pc[p] = "erasing" /\ Handler(p) = "failing_deletion"
           \/ Handler(p) \in {"idle", "degrading", "rechecking"}
<1>1. ReadHandler(p) \in {"idle", "degrading", "rechecking", AfterCount(p)}
  BY Zenon DEF ReadHandler
<1> QED
  BY <1>1, Zenon DEF Handler

(* It is a place of the method that runs. *)
LEMMA HandlerPlace ==
    ASSUME LocalOK, PlaceInv, NEW p \in Processes, pc[p] # "idle"
    PROVE  /\ op[p] \in Owners(Handler(p))
           /\ Handler(p) \notin InnerPlaces
<1>1. op[p] \in Methods /\ op[p] \in Owners(pc[p])
  BY DEF LocalOK, PlaceInv
<1>2. CASE pc[p] \in {"moving", "writing"} /\ Handler(p) = move[p].no
  BY <1>2 DEF PlaceInv, Moving, InnerPlaces
<1>3. CASE pc[p] \notin {"moving", "writing"} \/ Handler(p) # move[p].no
  BY <1>1, <1>3, HandlerCases DEF Owners, AfterDelete, AfterCount, Methods, InnerPlaces
<1> QED
  BY <1>2, <1>3

(* PlaceInv asks something of the process that moves only.                  *)
LEMMA PlaceBecome ==
    ASSUME LocalOK, PlaceInv, NEW p \in Processes, NEW place, NEW o, NEW i,
           NEW s, NEW m, Become(p, place, o, i, s, m),
           ref' => status' # "absent",
           place # "idle" =>
             /\ o \in Owners(place)
             /\ o \in Naming \/ place = "detaching" => i \in Instances
             /\ place \in {"moving", "writing"} =>
                  /\ o \in Owners(m.yes) \cap Owners(m.no)
                  /\ m.yes = "checking" => o = "attach"
                  /\ {m.yes, m.no} \cap InnerPlaces = {}
    PROVE  PlaceInv'
<1>1. ASSUME NEW q \in Processes \ {p}, pc'[q] # "idle"
      PROVE  /\ op'[q] \in Owners(pc'[q])
             /\ op'[q] \in Naming \/ pc'[q] = "detaching" => inst'[q] \in Instances
             /\ Moving(q)' =>
                  /\ op'[q] \in Owners(move'[q].yes) \cap Owners(move'[q].no)
                  /\ move'[q].yes = "checking" => op'[q] = "attach"
                  /\ {move'[q].yes, move'[q].no} \cap InnerPlaces = {}
  BY <1>1, OthersKeep DEF PlaceInv, Moving
<1>2. ASSUME pc'[p] # "idle"
      PROVE  /\ op'[p] \in Owners(pc'[p])
             /\ op'[p] \in Naming \/ pc'[p] = "detaching" => inst'[p] \in Instances
             /\ Moving(p)' =>
                  /\ op'[p] \in Owners(move'[p].yes) \cap Owners(move'[p].no)
                  /\ move'[p].yes = "checking" => op'[p] = "attach"
                  /\ {move'[p].yes, move'[p].no} \cap InnerPlaces = {}
  BY <1>2, OwnLocals DEF Moving
<1> QED
  BY <1>1, <1>2 DEF PlaceInv

(* A method goes on to one of its own places. *)
LEMMA PlaceGo ==
    ASSUME LocalOK, PlaceInv, NEW p \in Processes, pc[p] # "idle", NEW place,
           Go(p, place), ref' => status' # "absent",
           place = "idle" \/ op[p] \in Owners(place),
           place \notin InnerPlaces
    PROVE  PlaceInv'
<1>1. op[p] \in Naming => inst[p] \in Instances
  BY DEF PlaceInv
<1> QED
  BY <1>1, PlaceBecome DEF Go, InnerPlaces

(* ... and calls transitionMemory with two of its own places. *)
LEMMA PlaceTransition ==
    ASSUME LocalOK, PlaceInv, NEW p \in Processes, pc[p] # "idle",
           NEW to, NEW r, NEW yes, NEW no, Transition(p, to, r, yes, no),
           ref' => status' # "absent",
           op[p] \in Owners(yes) \cap Owners(no),
           yes = "checking" => op[p] = "attach",
           {yes, no} \cap InnerPlaces = {}
    PROVE  PlaceInv'
<1>1. op[p] \in Naming => inst[p] \in Instances
  BY DEF PlaceInv
<1>2. op[p] \in Owners("moving")
  BY DEF LocalOK, Owners
<1> DEFINE m == [to |-> to, ref |-> r, yes |-> yes, no |-> no]
<1>3. m.yes = yes /\ m.no = no
  OBVIOUS
<1>4. Become(p, "moving", op[p], inst[p], seen[p], m)
  BY DEF Transition
<1> HIDE DEF m
<1> QED
  BY <1>1, <1>2, <1>3, <1>4, PlaceBecome

(* The steps that write the row of the Memory ... *)
LEMMA RowWriters ==
    ASSUME NEW p \in Processes,
           Start(p) \/ Continue(p) \/ Fails(p) \/ Crash(p) \/ DeleteProject
    PROVE  \/ MoveWrite(p) \/ Upsert(p) \/ DeletionWrite(p)
           \/ UNCHANGED <<status, ref>>
  BY DEF Start, Fails, Crash, DeleteProject, Continue, MoveRead, Creation,
     Provision, Degrade, Adopt, Resolve, Save, Attach, Check, BindRead,
     BindWrite, Queue, Undoing, Unprepare, Undo, Forget, Detach, Unbind,
     Retrying, Retry, CheckHealth, CountBound, CreateBank, Deleting, DeleteRead,
     DeletionRead, Erase, FailDeletion, Clean, CleanRow, CleanRetried, Reading,
     Ask, Observe, Touch, Recover, Recheck, Keeps, Row

(* ... and the one that binds. *)
LEMMA BoundWriters ==
    ASSUME NEW p \in Processes,
           Start(p) \/ Continue(p) \/ Fails(p) \/ Crash(p) \/ DeleteProject
    PROVE  BindWrite(p) \/ bound' \in {bound, Nobody}
  BY DEF Start, Fails, Crash, DeleteProject, Continue, MoveRead, MoveWrite,
     Creation, Upsert, Provision, Degrade, Adopt, Resolve, Save, Attach, Check,
     BindRead, Queue, Undoing, Unprepare, Undo, Forget, Detach, Unbind,
     Retrying, Retry, CheckHealth, CountBound, CreateBank, Deleting, DeleteRead,
     DeletionRead, DeletionWrite, Erase, FailDeletion, Clean, CleanRow,
     CleanRetried, Reading, Ask, Observe, Touch, Recover, Recheck, Keeps, Binding

(* Every step keeps the processes at places of their methods.               *)
LEMMA PlaceStep ==
    ASSUME TypeOK, PlaceInv, NEW p \in Processes,
           Start(p) \/ Continue(p) \/ Fails(p) \/ Crash(p) \/ DeleteProject
    PROVE  PlaceInv'
<1> USE MemoryAssumption
<1>1. LocalOK
  BY DEF TypeOK, LocalOK
<1>2. op[p] \in Methods /\ (pc[p] # "idle" => op[p] \in Owners(pc[p]))
  BY <1>1 DEF LocalOK, PlaceInv
<1>3. ref' => status' # "absent"
  <2>1. move[p].to \in Statuses
    BY <1>1 DEF LocalOK, Move
  <2>2. CASE MoveWrite(p)
    BY <2>1, <2>2 DEF MoveWrite, PlaceInv, Statuses
  <2>3. CASE Upsert(p) \/ DeletionWrite(p)
    BY <2>3 DEF Upsert, DeletionWrite, PlaceInv
  <2> QED
    BY <2>2, <2>3, RowWriters DEF PlaceInv
<1>4. ASSUME pc[p] # "idle", Throw(p)
      PROVE  PlaceInv'
  BY <1>1, <1>3, <1>4, HandlerPlace, PlaceGo DEF Throw
<1>5. CASE Start(p)
  <2>1. PICK o \in Operations : \E i \in Subjects(o) :
          Become(p, FirstPlace[o], o, i, "ready", NoMove)
    BY <1>5 DEF Start
  <2>2. PICK i \in Subjects(o) : Become(p, FirstPlace[o], o, i, "ready", NoMove)
    BY <2>1
  <2>3. o \in Methods
    OBVIOUS
  <2>4. /\ o \in Owners(FirstPlace[o])
        /\ FirstPlace[o] \notin {"moving", "writing"}
    BY <2>3 DEF FirstPlace, Methods, Owners
  <2>5. o \in Naming \/ FirstPlace[o] = "detaching" => i \in Instances
    <3>1. FirstPlace[o] = "detaching" => o \in Naming
      BY <2>3 DEF FirstPlace, Methods, Naming
    <3>2. agents \subseteq Instances /\ {bound} \ {Nobody} \subseteq Instances
      BY DEF TypeOK
    <3>3. o \in Naming => i \in agents \cup Instances \cup ({bound} \ {Nobody})
      BY DEF Subjects, Naming
    <3> QED
      BY <3>1, <3>2, <3>3
  <2> QED
    BY <1>1, <1>3, <2>2, <2>4, <2>5, PlaceBecome
<1>6. CASE Fails(p) \/ Crash(p)
  BY <1>1, <1>3, <1>4, <1>6, PlaceGo DEF Fails, Crash, At, InnerPlaces
<1>7. CASE DeleteProject
  BY <1>7 DEF DeleteProject, Row, Local, PlaceInv, Moving
<1>8. CASE MoveRead(p)
  <2>1. CASE Throw(p)
    BY <1>4, <1>8, <2>1 DEF MoveRead, At
  <2>2. CASE Become(p, "writing", op[p], inst[p], seen[p], move[p])
    BY <1>1, <1>2, <1>3, <1>8, <2>2, PlaceBecome
       DEF MoveRead, At, PlaceInv, Moving, Owners, InnerPlaces, Naming
  <2> QED
    BY <1>8, <2>1, <2>2 DEF MoveRead
<1>9. CASE MoveWrite(p)
  <2>1. CASE Throw(p)
    BY <1>4, <1>9, <2>1 DEF MoveWrite, At
  <2>2. CASE Become(p, move[p].yes, op[p], inst[p], move[p].to, NoMove)
    BY <1>1, <1>2, <1>3, <1>9, <2>2, PlaceBecome
       DEF MoveWrite, At, PlaceInv, Moving, Owners, InnerPlaces, Naming
  <2> QED
    BY <1>9, <2>1, <2>2 DEF MoveWrite
<1>10. CASE Creation(p)
  <2>1. CASE Upsert(p)
    <3>1. PICK place \in {"resolving", "idle", "provisioning"} :
            Become(p, place, op[p], inst[p], status', NoMove)
      BY <2>1 DEF Upsert
    <3> QED
      BY <1>1, <1>2, <1>3, <2>1, <3>1, PlaceBecome
         DEF Upsert, At, PlaceInv, Owners, Naming
  <2>2. CASE Adopt(p)
    <3>1. CASE Remember(p, "resolving")
      BY <1>1, <1>2, <1>3, <2>2, <3>1, PlaceBecome
         DEF Adopt, Remember, At, PlaceInv, Owners, Naming
    <3> QED
      BY <1>4, <2>2, <3>1 DEF Adopt, At
  <2>3. CASE Provision(p) \/ Degrade(p) \/ Resolve(p) \/ Attach(p)
    BY <1>1, <1>2, <1>3, <1>4, <2>3, PlaceGo, PlaceTransition
       DEF Provision, Degrade, Resolve, Attach, At, Owners, Methods, InnerPlaces,
           AfterCount
  <2>4. CASE Save(p) \/ Check(p) \/ BindRead(p) \/ BindWrite(p) \/ Queue(p)
    BY <1>1, <1>2, <1>3, <1>4, <2>4, PlaceGo
       DEF Save, Check, BindRead, BindWrite, Queue, At, Owners, Methods, InnerPlaces
  <2> QED
    BY <1>10, <2>1, <2>2, <2>3, <2>4 DEF Creation
<1>11. CASE Undoing(p)
  BY <1>1, <1>2, <1>3, <1>11, PlaceGo, PlaceTransition
     DEF Undoing, Unprepare, Undo, Forget, Detach, Unbind, At, Owners, Methods, InnerPlaces,
         AfterDetach
<1>12. CASE Retrying(p)
  BY <1>1, <1>2, <1>3, <1>4, <1>12, PlaceGo, PlaceTransition
     DEF Retrying, Retry, CheckHealth, CountBound, CreateBank, At, Owners, Methods, InnerPlaces
<1>13. CASE Deleting(p)
  <2>1. CASE Clean(p)
    <3>1. CASE Go(p, "cleaning_row")
      BY <1>1, <1>2, <1>3, <2>1, <3>1, PlaceGo
         DEF Clean, At, Owners, Methods, InnerPlaces
    <3>2. CASE bound # Nobody /\ Become(p, "detaching", op[p], bound, seen[p], NoMove)
      <4>1. bound \in Instances /\ op[p] \in Owners("detaching")
        BY <1>2, <3>2 DEF TypeOK, Owners
      <4> QED
        BY <1>1, <1>3, <3>2, <4>1, PlaceBecome
    <3> QED
      BY <2>1, <3>1, <3>2 DEF Clean
  <2>2. CASE DeleteRead(p) \/ DeletionRead(p) \/ DeletionWrite(p)
    BY <1>1, <1>2, <1>3, <1>4, <2>2, PlaceGo
       DEF DeleteRead, DeletionRead, DeletionWrite, At, Owners, Methods, InnerPlaces, AfterDelete
  <2>3. CASE Erase(p) \/ FailDeletion(p)
    BY <1>1, <1>2, <1>3, <2>3, PlaceTransition
       DEF Erase, FailDeletion, At, Owners, Methods, InnerPlaces, AfterDelete
  <2>4. CASE CleanRow(p) \/ CleanRetried(p)
    BY <1>1, <1>2, <1>3, <2>4, PlaceGo
       DEF CleanRow, CleanRetried, At, Owners, Methods, InnerPlaces
  <2> QED
    BY <1>13, <2>1, <2>2, <2>3, <2>4 DEF Deleting
<1>14. CASE Reading(p)
  <2>1. CASE Ask(p)
    <3>1. CASE Remember(p, "observing")
      BY <1>1, <1>2, <1>3, <2>1, <3>1, PlaceBecome
         DEF Ask, Remember, At, PlaceInv, Owners, Naming
    <3> QED
      BY <1>1, <1>2, <1>3, <1>4, <2>1, <3>1, PlaceGo
         DEF Ask, At, Owners, Methods, InnerPlaces, AfterCount
  <2> QED
    BY <1>1, <1>2, <1>3, <1>4, <1>14, <2>1, PlaceGo, PlaceTransition
       DEF Reading, Observe, Touch, Recover, Recheck, At, Owners, Methods, InnerPlaces,
           AfterCount
<1> QED
  BY <1>5, <1>6, <1>7, <1>8, <1>9, <1>10, <1>11, <1>12, <1>13, <1>14
     DEF Continue

(* Every variable has its type at every point: Init and each step.          *)
THEOREM TypeCorrect == Spec => [](TypeOK /\ PlaceInv)
<1> USE MemoryAssumption
<1>1. Init => TypeOK /\ PlaceInv
  <2> SUFFICES ASSUME Init
               PROVE  TypeOK /\ PlaceInv
    OBVIOUS
  <2>1. /\ NoMove \in Move /\ "idle" \in Places /\ "create" \in Methods
        /\ "ready" \in Statuses
    BY DEF NoMove, Move, Places, Methods, Statuses
  <2>2. TypeOK
    <3>1. LocalOK
      BY <2>1 DEF Init, LocalOK
    <3>2. late \in 0 .. Late
      BY DEF Init
    <3>3. SharedOK
      BY <3>2 DEF Init, SharedOK
    <3> QED
      BY <3>1, <3>3 DEF LocalOK, SharedOK, TypeOK
  <2>3. PlaceInv
    BY DEF Init, PlaceInv
  <2> QED
    BY <2>2, <2>3
<1>2. TypeOK /\ PlaceInv /\ [Next]_vars => TypeOK' /\ PlaceInv'
  <2> SUFFICES ASSUME TypeOK, PlaceInv, [Next]_vars
               PROVE  TypeOK' /\ PlaceInv'
    OBVIOUS
  <2>1. CASE UNCHANGED vars
    <3>1. PlaceInv'
      BY <2>1 DEF vars, Row, Local, PlaceInv, Moving
    <3> QED
      BY <2>1, <3>1 DEF vars, Row, Binding, Request, Env, Local, TypeOK
  <2>2. CASE DeleteProject
    <3>1. PlaceInv'
      BY <2>2 DEF DeleteProject, Row, Local, PlaceInv, Moving
    <3> QED
      BY <2>2, <3>1 DEF DeleteProject, Row, Binding, Request, Local, TypeOK
  <2>3. ASSUME NEW p \in Processes, Start(p) \/ Continue(p) \/ Fails(p) \/ Crash(p)
        PROVE  TypeOK' /\ PlaceInv'
    <3>1. SharedOK' /\ LocalOK' /\ PlaceInv'
      BY <2>3, SharedType, LocalType, PlaceStep
    <3> QED
      BY <3>1 DEF SharedOK, LocalOK, TypeOK
  <2> QED
    BY <2>1, <2>2, <2>3 DEF Next
<1> QED
  BY <1>1, <1>2, PTL DEF Spec

-----------------------------------------------------------------------------
(* The lock *)

(* No error is handled where the lock is held. *)
LEMMA HandlerUnlocked ==
    ASSUME LockInv, NEW p \in Processes
    PROVE  Handler(p) \notin LockedPlaces
<1>1. move[p].no \notin LockedPlaces
  BY DEF LockInv
<1> QED
  BY <1>1, HandlerCases DEF LockedPlaces, AfterDelete, AfterCount

(* A step to a place without the lock, which leaves the lock of the others, *)
(* binds nobody and starts no deletion, keeps LockInv.                      *)
LEMMA LockBecome ==
    ASSUME LocalOK, LockInv, NEW p \in Processes, NEW place, NEW o, NEW i,
           NEW s, NEW m, Become(p, place, o, i, s, m),
           place \notin LockedPlaces, m.to # "deleting",
           {m.yes, m.no} \cap LockedPlaces = {},
           lock' = lock \/ lock = p,
           bound' \in {bound, Nobody},
           status' = "deleting" => status = "deleting"
    PROVE  LockInv'
<1>1. ASSUME NEW q \in Processes \ {p}
      PROVE  /\ pc'[q] \in LockedPlaces => lock' = q
             /\ pc'[q] = "deleting_locked" => bound' = Nobody
             /\ pc'[q] = "binding_locked" => status' # "deleting"
             /\ move'[q].to # "deleting"
             /\ {move'[q].yes, move'[q].no} \cap LockedPlaces = {}
  BY OthersKeep DEF LockInv
<1>2. /\ pc'[p] \notin LockedPlaces
      /\ move'[p].to # "deleting"
      /\ {move'[p].yes, move'[p].no} \cap LockedPlaces = {}
  BY OwnLocals DEF NoMove, LockedPlaces
<1>3. pc'[p] # "deleting_locked" /\ pc'[p] # "binding_locked"
  BY <1>2 DEF LockedPlaces
<1> QED
  BY <1>1, <1>2, <1>3 DEF LockInv

(* Every step keeps LockInv. *)
LEMMA LockStep ==
    ASSUME TypeOK, PlaceInv, LockInv, NEW p \in Processes,
           Start(p) \/ Continue(p) \/ Fails(p) \/ Crash(p) \/ DeleteProject
    PROVE  LockInv'
<1> USE MemoryAssumption
<1>1. LocalOK
  BY DEF TypeOK, LocalOK
<1>2. NoMove.to # "deleting" /\ {NoMove.yes, NoMove.no} \cap LockedPlaces = {}
  BY DEF NoMove, LockedPlaces
<1>3. ASSUME NEW place, Go(p, place), place \notin LockedPlaces,
             lock' = lock \/ lock = p, bound' \in {bound, Nobody},
             status' = "deleting" => status = "deleting"
      PROVE  LockInv'
  BY <1>1, <1>2, <1>3, LockBecome DEF Go
<1>4. ASSUME Throw(p), lock' = lock \/ lock = p, bound' = bound, status' = status
      PROVE  LockInv'
  BY <1>3, <1>4, HandlerUnlocked DEF Throw
<1>5. ASSUME NEW to \in Statuses \ {"deleting"}, NEW r, NEW yes, NEW no,
             Transition(p, to, r, yes, no), {yes, no} \cap LockedPlaces = {},
             lock' = lock, bound' = bound, status' = status
      PROVE  LockInv'
  <2> DEFINE m == [to |-> to, ref |-> r, yes |-> yes, no |-> no]
  <2>1. m.to = to /\ m.yes = yes /\ m.no = no
    OBVIOUS
  <2>2. Become(p, "moving", op[p], inst[p], seen[p], m)
    BY <1>5 DEF Transition
  <2> HIDE DEF m
  <2> QED
    BY <1>1, <1>5, <2>1, <2>2, LockBecome DEF LockedPlaces
<1>6. ASSUME NEW place, Remember(p, place), place \notin LockedPlaces,
             lock' = lock, bound' = bound, status' = status
      PROVE  LockInv'
  BY <1>1, <1>2, <1>6, LockBecome DEF Remember
<1>7. CASE Start(p)
  <2>1. PICK o \in Operations : \E i \in Subjects(o) :
          Become(p, FirstPlace[o], o, i, "ready", NoMove)
    BY <1>7 DEF Start
  <2>2. PICK i \in Subjects(o) : Become(p, FirstPlace[o], o, i, "ready", NoMove)
    BY <2>1
  <2>3. FirstPlace[o] \notin LockedPlaces
    BY DEF FirstPlace, Methods, LockedPlaces
  <2> QED
    BY <1>1, <1>2, <1>7, <2>2, <2>3, LockBecome DEF Start, Row, Binding
<1>8. CASE Fails(p) \/ Crash(p) \/ DeleteProject
  <2>1. CASE Fails(p)
    <3>1. lock' = lock \/ lock = p
      BY <2>1 DEF Fails, Unlock
    <3> QED
      BY <1>4, <2>1, <3>1 DEF Fails
  <2>2. CASE Crash(p)
    <3>1. lock' = lock \/ lock = p
      BY <2>2 DEF Crash, Unlock
    <3> QED
      BY <1>3, <2>2, <3>1 DEF Crash, Row, LockedPlaces
  <2>3. CASE DeleteProject
    BY <2>3 DEF DeleteProject, Row, Binding, Local, LockInv
  <2> QED
    BY <1>8, <2>1, <2>2, <2>3
<1>9. CASE MoveRead(p)
  <2>1. CASE Throw(p)
    BY <1>4, <1>9, <2>1 DEF MoveRead, Row, Binding
  <2>2. CASE Become(p, "writing", op[p], inst[p], seen[p], move[p])
    BY <1>1, <1>9, <2>2, LockBecome
       DEF MoveRead, Row, Binding, LockInv, LockedPlaces
  <2> QED
    BY <1>9, <2>1, <2>2 DEF MoveRead
<1>10. CASE MoveWrite(p)
  <2>1. CASE Throw(p) /\ UNCHANGED <<status, ref>>
    BY <1>4, <1>10, <2>1 DEF MoveWrite, Binding
  <2>2. CASE /\ status' = move[p].to
             /\ Become(p, move[p].yes, op[p], inst[p], move[p].to, NoMove)
    <3>1. move[p].yes \notin LockedPlaces /\ move[p].to # "deleting"
      BY DEF LockInv
    <3> QED
      BY <1>1, <1>2, <1>10, <2>2, <3>1, LockBecome DEF MoveWrite, Binding
  <2> QED
    BY <1>10, <2>1, <2>2 DEF MoveWrite
<1>11. CASE Creation(p)
  <2>1. CASE Upsert(p)
    <3>1. PICK place \in {"resolving", "idle", "provisioning"} :
            Become(p, place, op[p], inst[p], status', NoMove)
      BY <2>1 DEF Upsert
    <3> QED
      BY <1>1, <1>2, <2>1, <3>1, LockBecome DEF Upsert, Binding, LockedPlaces
  <2>2. CASE Provision(p) \/ Degrade(p) \/ Adopt(p) \/ Resolve(p) \/ Attach(p)
    BY <1>3, <1>4, <1>5, <1>6, <2>2
       DEF Provision, Degrade, Adopt, Resolve, Attach, Keeps, Row, Binding,
           LockedPlaces, Statuses
  <2>3. CASE Save(p) \/ Check(p) \/ Queue(p)
    BY <1>3, <1>4, <2>3
       DEF Save, Check, Queue, Keeps, Row, Binding, LockedPlaces
  <2>4. CASE BindRead(p)
    <3>1. CASE Throw(p) /\ UNCHANGED lock
      BY <1>4, <2>4, <3>1 DEF BindRead, Row, Binding
    <3>2. CASE status = "ready" /\ lock' = p /\ Go(p, "binding_locked")
      <4>1. lock = Nobody /\ status' = "ready" /\ bound' = bound
        BY <2>4, <3>2 DEF BindRead, LockFree, Row, Binding
      <4>2. ASSUME NEW q \in Processes \ {p}
            PROVE  /\ pc'[q] \notin LockedPlaces
                   /\ move'[q].to # "deleting"
                   /\ {move'[q].yes, move'[q].no} \cap LockedPlaces = {}
        BY <1>1, <3>2, <4>1, OthersKeep DEF LockInv, Go
      <4>3. pc'[p] = "binding_locked" /\ move'[p] = NoMove
        BY <1>1, <3>2, OwnLocals DEF Go
      <4> QED
        BY <1>2, <3>2, <4>1, <4>2, <4>3 DEF LockInv, LockedPlaces
    <3> QED
      BY <2>4, <3>1, <3>2 DEF BindRead
  <2>5. CASE BindWrite(p)
    <3>1. lock = p
      BY <2>5 DEF BindWrite, At, LockInv, LockedPlaces
    <3>2. CASE Throw(p) /\ UNCHANGED Binding
      BY <1>4, <2>5, <3>1, <3>2 DEF BindWrite, Row, Binding
    <3>3. ASSUME NEW place \in {"idle", "queueing"}, Go(p, place)
          PROVE  LockInv'
      <4>1. ASSUME NEW q \in Processes \ {p}
            PROVE  /\ pc'[q] \notin LockedPlaces
                   /\ move'[q].to # "deleting"
                   /\ {move'[q].yes, move'[q].no} \cap LockedPlaces = {}
        BY <1>1, <3>1, <3>3, OthersKeep DEF LockInv, Go
      <4>2. pc'[p] \notin LockedPlaces /\ move'[p] = NoMove
        BY <1>1, <3>3, OwnLocals DEF Go, LockedPlaces
      <4> QED
        BY <1>2, <4>1, <4>2 DEF LockInv, LockedPlaces
    <3> QED
      BY <2>5, <3>2, <3>3 DEF BindWrite
  <2> QED
    BY <1>11, <2>1, <2>2, <2>3, <2>4, <2>5 DEF Creation
<1>12. CASE Undoing(p)
  <2>1. CASE Unprepare(p) \/ Detach(p)
    BY <1>3, <2>1 DEF Unprepare, Detach, Row, Binding, LockedPlaces, AfterDetach
  <2>2. CASE Undo(p) \/ Forget(p) \/ Unbind(p)
    BY <1>3, <1>5, <2>2
       DEF Undo, Forget, Unbind, Keeps, Row, Binding, LockedPlaces, AfterDetach,
           Statuses
  <2> QED
    BY <1>12, <2>1, <2>2 DEF Undoing
<1>13. CASE Retrying(p)
  BY <1>3, <1>4, <1>5, <1>13
     DEF Retrying, Retry, CheckHealth, CountBound, CreateBank, Keeps, Row, Binding,
         LockedPlaces, Statuses, BoundStatus
<1>14. CASE Deleting(p)
  <2>1. CASE DeletionRead(p)
    <3>1. CASE Throw(p) /\ UNCHANGED lock
      BY <1>4, <2>1, <3>1 DEF DeletionRead, Row, Binding
    <3>2. CASE Go(p, "erasing") /\ UNCHANGED lock
      BY <1>3, <2>1, <3>2 DEF DeletionRead, Row, Binding, LockedPlaces
    <3>3. CASE bound = Nobody /\ lock' = p /\ Go(p, "deleting_locked")
      <4>1. lock = Nobody /\ bound' = Nobody
        BY <2>1, <3>3 DEF DeletionRead, LockFree, Row, Binding
      <4>2. ASSUME NEW q \in Processes \ {p}
            PROVE  /\ pc'[q] \notin LockedPlaces
                   /\ move'[q].to # "deleting"
                   /\ {move'[q].yes, move'[q].no} \cap LockedPlaces = {}
        BY <1>1, <3>3, <4>1, OthersKeep DEF LockInv, Go
      <4>3. pc'[p] = "deleting_locked" /\ move'[p] = NoMove
        BY <1>1, <3>3, OwnLocals DEF Go
      <4> QED
        BY <1>2, <3>3, <4>1, <4>2, <4>3 DEF LockInv, LockedPlaces
    <3> QED
      BY <2>1, <3>1, <3>2, <3>3 DEF DeletionRead
  <2>2. CASE DeletionWrite(p)
    <3>1. lock = p
      BY <2>2 DEF DeletionWrite, At, LockInv, LockedPlaces
    <3>2. CASE Throw(p) /\ UNCHANGED status
      BY <1>4, <2>2, <3>1, <3>2 DEF DeletionWrite, Binding
    <3>3. CASE Go(p, "erasing")
      <4>1. ASSUME NEW q \in Processes \ {p}
            PROVE  /\ pc'[q] \notin LockedPlaces
                   /\ move'[q].to # "deleting"
                   /\ {move'[q].yes, move'[q].no} \cap LockedPlaces = {}
        BY <1>1, <3>1, <3>3, OthersKeep DEF LockInv, Go
      <4>2. pc'[p] \notin LockedPlaces /\ move'[p] = NoMove
        BY <1>1, <3>3, OwnLocals DEF Go, LockedPlaces
      <4> QED
        BY <1>2, <4>1, <4>2 DEF LockInv, LockedPlaces
    <3> QED
      BY <2>2, <3>2, <3>3 DEF DeletionWrite
  <2>3. CASE Clean(p)
    <3>1. CASE Become(p, "detaching", op[p], bound, seen[p], NoMove)
      BY <1>1, <1>2, <2>3, <3>1, LockBecome
         DEF Clean, Keeps, Row, Binding, LockedPlaces
    <3> QED
      BY <1>3, <2>3, <3>1 DEF Clean, Keeps, Row, Binding, LockedPlaces
  <2>4. CASE DeleteRead(p) \/ Erase(p) \/ FailDeletion(p) \/ CleanRow(p) \/ CleanRetried(p)
    BY <1>3, <1>5, <2>4
       DEF DeleteRead, Erase, FailDeletion, CleanRow, CleanRetried, Keeps, Row,
           Binding, LockedPlaces, Statuses, AfterDelete
  <2> QED
    BY <1>14, <2>1, <2>2, <2>3, <2>4 DEF Deleting
<1>15. CASE Reading(p)
  BY <1>3, <1>4, <1>5, <1>6, <1>15
     DEF Reading, Ask, Observe, Touch, Recover, Recheck, AfterCount, Keeps, Row, Binding,
         LockedPlaces, Statuses, BoundStatus
<1> QED
  BY <1>7, <1>8, <1>9, <1>10, <1>11, <1>12, <1>13, <1>14, <1>15 DEF Continue

(* The lock is held where it has to be (bindPrimary, startDeletion).        *)
THEOREM LockHeld == Spec => []LockInv
<1>1. Init => LockInv
  BY DEF Init, LockInv, LockedPlaces, NoMove
<1>2. LockInv /\ TypeOK /\ PlaceInv /\ [Next]_vars => LockInv'
  <2> SUFFICES ASSUME LockInv, TypeOK, PlaceInv, [Next]_vars
               PROVE  LockInv'
    OBVIOUS
  <2>1. CASE UNCHANGED vars
    BY <2>1 DEF vars, Row, Binding, Local, LockInv
  <2>2. CASE DeleteProject
    BY <2>2 DEF DeleteProject, Row, Binding, Local, LockInv
  <2> QED
    BY <2>1, <2>2, LockStep DEF Next
<1> QED
  BY <1>1, <1>2, TypeCorrect, PTL DEF Spec

(* Binding and deletion decide one after the other: no binding is made on a *)
(* Memory that is being deleted, and no deletion starts under a binding     *)
(* (bindPrimary, startDeletion).                                            *)
THEOREM DecisionsAreSerialized == Spec => DecisionsSerialized
<1> DEFINE Serial ==
      /\ bound' \notin {bound, Nobody} => status # "deleting"
      /\ status # "deleting" /\ status' = "deleting" => bound' = Nobody
<1>1. LockInv /\ [Next]_vars => [Serial]_vars
  <2> SUFFICES ASSUME LockInv, Next
               PROVE  Serial
    BY DEF vars
  <2>1. CASE DeleteProject
    BY <2>1 DEF DeleteProject, Row, Binding
  <2>2. ASSUME NEW p \in Processes, BindWrite(p)
        PROVE  Serial
    BY <2>2 DEF BindWrite, At, LockInv, Row
  <2>3. ASSUME NEW p \in Processes, DeletionWrite(p)
        PROVE  Serial
    BY <2>3 DEF DeletionWrite, At, LockInv, Binding
  <2>4. ASSUME NEW p \in Processes, MoveWrite(p)
        PROVE  Serial
    BY <2>4 DEF MoveWrite, LockInv, Binding
  <2>5. ASSUME NEW p \in Processes, Start(p) \/ Continue(p) \/ Fails(p) \/ Crash(p),
               ~BindWrite(p), ~DeletionWrite(p), ~MoveWrite(p)
        PROVE  Serial
    <3>1. Upsert(p) => (status' = "deleting" => status = "deleting")
      BY DEF Upsert
    <3> QED
      BY <2>5, <3>1, RowWriters, BoundWriters
  <2> QED
    BY <2>1, <2>2, <2>3, <2>4, <2>5 DEF Next
<1> QED
  BY <1>1, LockHeld, PTL DEF Spec, DecisionsSerialized

-----------------------------------------------------------------------------
(* The provider reference *)

(* A bank that can be named can be named until the Memory is deleted, and a *)
(* Memory that can be bound has one.                                        *)
LEMMA NamedStays ==
    ASSUME TypeOK, RefInv, NEW p \in Processes,
           Start(p) \/ Continue(p) \/ Fails(p) \/ Crash(p) \/ DeleteProject
    PROVE  /\ Named => Named'
           /\ UsableHasRef'
<1>1. /\ move[p].ref \in {"keep", "set", "clear"}
      /\ ref \in BOOLEAN
  BY DEF TypeOK, Move
<1>2. (bound # Nobody => Named) /\ (bound' # Nobody => bound # Nobody \/ Named)
  BY BoundWriters DEF RefInv, UsableHasRef, Named, BindWrite, At, RefPlaces
<1>3. CASE UNCHANGED <<status, ref>>
  BY <1>2, <1>3 DEF RefInv, UsableHasRef, Named
<1>4. CASE Upsert(p)
  BY <1>2, <1>4 DEF Upsert, RefInv, UsableHasRef, Named
<1>5. CASE DeletionWrite(p)
  BY <1>2, <1>5 DEF DeletionWrite, At, Writable, RefInv, UsableHasRef, Named, RefPlaces
<1>6. CASE MoveWrite(p)
  <2>1. CASE UNCHANGED <<status, ref>>
    BY <1>3, <2>1
  <2>2. CASE /\ Writable(move[p].to)
             /\ status' = move[p].to
             /\ ref' = (move[p].ref = "set" \/ (move[p].ref = "keep" /\ ref))
    <3>1. Moving(p)
      BY <1>6 DEF MoveWrite, At, Moving
    <3>2. /\ move[p].ref = "set" => move[p].to = "ready"
          /\ (move[p].ref = "clear") <=> (move[p].to = "deleted")
          /\ move[p].ref # "set" /\ move[p].to # "degraded" => Named
      BY <3>1 DEF RefInv
    <3>3. Named => Named'
      BY <1>1, <2>2, <3>2 DEF Named, Writable
    <3>4. status' \in {"ready", "unbound", "deleting", "deletion_failed"} => ref'
      BY <1>1, <2>2, <3>2 DEF Named, Writable
    <3> QED
      BY <1>2, <3>3, <3>4 DEF UsableHasRef, Named
  <2> QED
    BY <1>6, <2>1, <2>2 DEF MoveWrite
<1> QED
  BY <1>3, <1>4, <1>5, <1>6, RowWriters

(* RefInv asks something of the process that moves only.                    *)
LEMMA RefBecome ==
    ASSUME LocalOK, RefInv, NEW p \in Processes, NEW place, NEW o, NEW i,
           NEW s, NEW m, Become(p, place, o, i, s, m),
           Named => Named', UsableHasRef',
           place \in RefPlaces => Named',
           m.ref = "set" => m.to = "ready",
           (m.ref = "clear") <=> (m.to = "deleted"),
           m.yes \in RefPlaces => m.ref = "set",
           place \in {"moving", "writing"} =>
             /\ m.ref # "set" /\ m.to # "degraded" => Named'
             /\ m.no \in RefPlaces => Named'
    PROVE  RefInv'
<1>1. ASSUME NEW q \in Processes \ {p}
      PROVE  /\ pc'[q] \in RefPlaces => Named'
             /\ move'[q].ref = "set" => move'[q].to = "ready"
             /\ (move'[q].ref = "clear") <=> (move'[q].to = "deleted")
             /\ Moving(q)' /\ move'[q].ref # "set" /\ move'[q].to # "degraded"
                  => Named'
             /\ move'[q].yes \in RefPlaces => move'[q].ref = "set"
             /\ Moving(q)' /\ move'[q].no \in RefPlaces => Named'
  BY OthersKeep DEF RefInv, Moving
<1>2. /\ pc'[p] \in RefPlaces => Named'
      /\ move'[p].ref = "set" => move'[p].to = "ready"
      /\ (move'[p].ref = "clear") <=> (move'[p].to = "deleted")
      /\ Moving(p)' /\ move'[p].ref # "set" /\ move'[p].to # "degraded" => Named'
      /\ move'[p].yes \in RefPlaces => move'[p].ref = "set"
      /\ Moving(p)' /\ move'[p].no \in RefPlaces => Named'
  BY OwnLocals DEF Moving, NoMove, RefPlaces
<1> QED
  BY <1>1, <1>2 DEF RefInv

(* An error is handled where the bank can be named, if it has to be.        *)
LEMMA HandlerNamed ==
    ASSUME RefInv, NEW p \in Processes, Handler(p) \in RefPlaces
    PROVE  Named
<1>1. CASE pc[p] \in {"moving", "writing"} /\ Handler(p) = move[p].no
  BY <1>1 DEF RefInv, Moving
<1>2. CASE pc[p] = "erasing"
  BY <1>2 DEF RefInv, RefPlaces
<1> QED
  BY <1>1, <1>2, HandlerCases DEF RefPlaces, AfterDelete, AfterCount

(* Every step keeps RefInv. *)
LEMMA RefStep ==
    ASSUME TypeOK, PlaceInv, RefInv, NEW p \in Processes,
           Start(p) \/ Continue(p) \/ Fails(p) \/ Crash(p) \/ DeleteProject
    PROVE  RefInv'
<1> USE MemoryAssumption
<1>1. LocalOK
  BY DEF TypeOK, LocalOK
<1>2. (Named => Named') /\ UsableHasRef'
  BY NamedStays
<1>3. /\ NoMove.ref # "set" /\ NoMove.ref # "clear" /\ NoMove.to # "deleted"
      /\ NoMove.yes \notin RefPlaces
  BY DEF NoMove, RefPlaces
<1>4. ASSUME NEW place, Go(p, place), place \in RefPlaces => Named,
             place \notin {"moving", "writing"}
      PROVE  RefInv'
  BY <1>1, <1>2, <1>3, <1>4, RefBecome DEF Go
<1>5. ASSUME Throw(p), pc[p] # "idle"
      PROVE  RefInv'
  BY <1>1, <1>4, <1>5, HandlerNamed, HandlerPlace DEF Throw, InnerPlaces
<1>6. ASSUME NEW to, NEW r, NEW yes, NEW no, Transition(p, to, r, yes, no),
             r = "set" => to = "ready",
             (r = "clear") <=> (to = "deleted"),
             yes \in RefPlaces => r = "set",
             r # "set" /\ to # "degraded" => Named,
             no \in RefPlaces => Named
      PROVE  RefInv'
  <2> DEFINE m == [to |-> to, ref |-> r, yes |-> yes, no |-> no]
  <2>1. m.to = to /\ m.ref = r /\ m.yes = yes /\ m.no = no
    OBVIOUS
  <2>2. Become(p, "moving", op[p], inst[p], seen[p], m)
    BY <1>6 DEF Transition
  <2>3. "moving" \notin RefPlaces
    BY DEF RefPlaces
  <2> HIDE DEF m
  <2> QED
    BY <1>1, <1>2, <1>6, <2>1, <2>2, <2>3, RefBecome
<1>7. ASSUME NEW place, Remember(p, place), place \in RefPlaces => Named,
             place \notin {"moving", "writing"}
      PROVE  RefInv'
  BY <1>1, <1>2, <1>3, <1>7, RefBecome DEF Remember
<1>8. CASE Start(p)
  <2>1. PICK o \in Operations : \E i \in Subjects(o) :
          Become(p, FirstPlace[o], o, i, "ready", NoMove)
    BY <1>8 DEF Start
  <2>2. PICK i \in Subjects(o) : Become(p, FirstPlace[o], o, i, "ready", NoMove)
    BY <2>1
  <2>3. /\ FirstPlace[o] \notin RefPlaces
        /\ FirstPlace[o] \notin {"moving", "writing"}
    BY DEF FirstPlace, Methods, RefPlaces
  <2> QED
    BY <1>1, <1>2, <1>3, <2>2, <2>3, RefBecome
<1>9. CASE Fails(p) \/ Crash(p)
  BY <1>4, <1>5, <1>9 DEF Fails, Crash, At, RefPlaces
<1>10. CASE DeleteProject
  BY <1>10 DEF DeleteProject, Row, Binding, Local, RefInv, UsableHasRef, Moving, Named
<1>11. CASE MoveRead(p)
  <2>1. CASE Throw(p)
    BY <1>5, <1>11, <2>1 DEF MoveRead, At
  <2>2. CASE Become(p, "writing", op[p], inst[p], seen[p], move[p])
    <3>1. /\ move[p].ref = "set" => move[p].to = "ready"
          /\ (move[p].ref = "clear") <=> (move[p].to = "deleted")
          /\ move[p].yes \in RefPlaces => move[p].ref = "set"
          /\ move[p].ref # "set" /\ move[p].to # "degraded" => Named
          /\ move[p].no \in RefPlaces => Named
      BY <1>11 DEF MoveRead, At, RefInv, Moving
    <3>2. "writing" \notin RefPlaces
      BY DEF RefPlaces
    <3> QED
      BY <1>1, <1>2, <2>2, <3>1, <3>2, RefBecome
  <2> QED
    BY <1>11, <2>1, <2>2 DEF MoveRead
<1>12. CASE MoveWrite(p)
  <2>1. CASE Throw(p)
    BY <1>5, <1>12, <2>1 DEF MoveWrite, At
  <2>2. CASE /\ ref' = (move[p].ref = "set" \/ (move[p].ref = "keep" /\ ref))
             /\ Become(p, move[p].yes, op[p], inst[p], move[p].to, NoMove)
    <3>1. move[p].yes \in RefPlaces => Named'
      BY <2>2 DEF RefInv, Named
    <3>2. move[p].yes \notin {"moving", "writing"}
      BY <1>12 DEF MoveWrite, At, PlaceInv, Moving, InnerPlaces
    <3> QED
      BY <1>1, <1>2, <1>3, <2>2, <3>1, <3>2, RefBecome
  <2> QED
    BY <1>12, <2>1, <2>2 DEF MoveWrite
<1>13. CASE Creation(p)
  <2>1. CASE Upsert(p)
    <3>1. PICK place \in {"resolving", "idle", "provisioning"} :
            /\ place = "resolving" => ref
            /\ Become(p, place, op[p], inst[p], status', NoMove)
      BY <2>1 DEF Upsert
    <3>2. place \in RefPlaces => Named
      BY <3>1 DEF RefPlaces, Named
    <3> QED
      BY <1>1, <1>2, <1>3, <3>1, <3>2, RefBecome
  <2>2. CASE Adopt(p)
    BY <1>5, <1>7, <2>2 DEF Adopt, At, Named
  <2>3. CASE Provision(p) \/ Degrade(p)
    BY <1>6, <2>3 DEF Provision, Degrade, RefPlaces, AfterCount
  <2>4. CASE Resolve(p) \/ Attach(p)
    <3>1. status = "unbound" => Named
      BY DEF RefInv, UsableHasRef, Named
    <3>2. Resolve(p) => Named
      BY DEF Resolve, At, RefInv, RefPlaces
    <3> QED
      BY <1>4, <1>5, <1>6, <2>4, <3>1, <3>2 DEF Resolve, Attach, At, RefPlaces
  <2>5. CASE Save(p) \/ Check(p) \/ BindRead(p) \/ BindWrite(p) \/ Queue(p)
    <3>1. Check(p) /\ ~Throw(p) => Named
      BY DEF Check, Named
    <3>2. BindRead(p) => Named
      BY DEF BindRead, At, RefInv, RefPlaces
    <3> QED
      BY <1>4, <1>5, <2>5, <3>1, <3>2
         DEF Save, Check, BindRead, BindWrite, Queue, At, RefPlaces
  <2> QED
    BY <1>13, <2>1, <2>2, <2>3, <2>4, <2>5 DEF Creation
<1>14. CASE Undoing(p)
  <2>1. status = "ready" => Named
    BY DEF RefInv, UsableHasRef, Named
  <2>2. Unbind(p) => Named
    BY DEF Unbind, At, RefInv, RefPlaces
  <2>3. CASE Detach(p)
    <3>1. inst[p] \in Instances
      BY <2>3 DEF Detach, At, PlaceInv
    <3>2. bound = inst[p] => Named
      BY <3>1 DEF RefInv, UsableHasRef, Named
    <3> QED
      BY <1>4, <2>3, <3>2 DEF Detach, RefPlaces, AfterDetach
  <2> QED
    BY <1>4, <1>6, <1>14, <2>1, <2>2, <2>3
       DEF Undoing, Unprepare, Undo, Forget, Unbind, RefPlaces, AfterDetach
<1>15. CASE Retrying(p)
  <2>1. CheckHealth(p) \/ CountBound(p) => Named
    BY DEF CheckHealth, CountBound, At, RefInv, RefPlaces
  <2>2. CASE Retry(p)
    BY <1>4, <1>5, <2>2 DEF Retry, At, RefPlaces, Named
  <2> QED
    BY <1>4, <1>6, <1>15, <2>1, <2>2
       DEF Retrying, CheckHealth, CountBound, CreateBank, RefPlaces,
           BoundStatus
<1>16. CASE Deleting(p)
  <2>1. CASE DeleteRead(p)
    BY <1>4, <2>1 DEF DeleteRead, RefPlaces, AfterDelete, Named
  <2>2. DeletionRead(p) \/ DeletionWrite(p) \/ Erase(p) \/ FailDeletion(p) => Named
    BY DEF DeletionRead, DeletionWrite, Erase, FailDeletion, At, RefInv, RefPlaces
  <2>3. CASE DeletionRead(p) \/ DeletionWrite(p)
    BY <1>4, <1>5, <2>2, <2>3 DEF DeletionRead, DeletionWrite, At
  <2>4. CASE Erase(p) \/ FailDeletion(p)
    BY <1>6, <2>2, <2>4 DEF Erase, FailDeletion, RefPlaces, AfterDelete
  <2>5. CASE Clean(p)
    <3>1. CASE Become(p, "detaching", op[p], bound, seen[p], NoMove)
      BY <1>1, <1>2, <1>3, <3>1, RefBecome DEF RefPlaces
    <3> QED
      BY <1>4, <2>5, <3>1 DEF Clean, RefPlaces
  <2>6. CASE CleanRow(p) \/ CleanRetried(p)
    BY <1>4, <2>6 DEF CleanRow, CleanRetried, RefPlaces
  <2> QED
    BY <1>16, <2>1, <2>3, <2>4, <2>5, <2>6 DEF Deleting
<1>17. CASE Reading(p)
  <2>1. CASE Ask(p)
    BY <1>4, <1>5, <1>7, <2>1 DEF Ask, At, Readable, Named, RefPlaces, AfterCount
  <2>2. CASE Observe(p) \/ Recover(p)
    <3>1. Named
      BY <2>2 DEF Observe, Recover, At, RefInv, RefPlaces
    <3> QED
      BY <1>4, <1>5, <1>6, <2>2, <3>1 DEF Observe, Recover, At, BoundStatus, RefPlaces,
         AfterCount
  <2> QED
    BY <1>4, <1>17, <2>1, <2>2 DEF Reading, Touch, Recheck, RefPlaces
<1> QED
  BY <1>8, <1>9, <1>10, <1>11, <1>12, <1>13, <1>14, <1>15, <1>16, <1>17 DEF Continue

(* A Memory that is ready, unbound or being deleted has a provider          *)
(* reference, so no bank in use is one the Control plane cannot name.       *)
THEOREM UsableMemoriesHaveRefs == Spec => []UsableHasRef
<1>1. Init => RefInv
  BY DEF Init, RefInv, UsableHasRef, RefPlaces, NoMove, Moving, Named
<1>2. RefInv /\ TypeOK /\ PlaceInv /\ [Next]_vars => RefInv'
  <2> SUFFICES ASSUME RefInv, TypeOK, PlaceInv, [Next]_vars
               PROVE  RefInv'
    OBVIOUS
  <2>1. CASE UNCHANGED vars
    BY <2>1 DEF vars, Row, Binding, Local, RefInv, UsableHasRef, Moving, Named
  <2>2. CASE DeleteProject
    BY <2>2 DEF DeleteProject, Row, Binding, Local, RefInv, UsableHasRef, Moving, Named
  <2> QED
    BY <2>1, <2>2, RefStep DEF Next
<1>3. RefInv => UsableHasRef
  BY DEF RefInv
<1> QED
  BY <1>1, <1>2, <1>3, TypeCorrect, PTL DEF Spec

-----------------------------------------------------------------------------
(* Bindings and Agent rows *)

(* A step that binds nobody, takes no Agent row away and starts no binder   *)
(* keeps AgentInv.                                                          *)
LEMMA AgentBecome ==
    ASSUME LocalOK, PlaceInv, AgentInv, NEW p \in Processes, NEW place, NEW o,
           NEW i, NEW s, NEW m, Become(p, place, o, i, s, m),
           agents \subseteq agents',
           bound' \in {bound, Nobody},
           binder' \in {binder, Nobody},
           binder' = p => place \in {"queueing", "unpreparing"},
           binder' # binder => bound' = Nobody \/ (binder = p /\ place = "idle"),
           place # "idle" /\ o \in Binders =>
             /\ pc[p] # "idle" /\ o = op[p] /\ i = inst[p]
             /\ place \in RowPlaces => i \in agents'
             /\ place \in {"moving", "writing"} /\ o # "attach"
                  => {m.yes, m.no} \cap RowPlaces = {}
    PROVE  AgentInv'
<1> USE MemoryAssumption
<1>1. \A q \in Processes : Creator(q) => inst[q] \in Instances
  BY DEF PlaceInv, Creator, Naming
<1>2. BoundAgentExists'
  BY DEF AgentInv, BoundAgentExists
<1>3. \A q \in Processes \ {p} :
        /\ pc'[q] = pc[q] /\ op'[q] = op[q] /\ inst'[q] = inst[q]
        /\ move'[q] = move[q]
  BY OthersKeep
<1>4. /\ pc'[p] = place
      /\ place # "idle" => op'[p] = o /\ inst'[p] = i /\ move'[p] = m
  BY OwnLocals
<1>5. \A q \in Processes : binder' = q => pc'[q] \in {"queueing", "unpreparing"}
  BY <1>3, <1>4 DEF AgentInv
<1>6. \A q \in Processes : Holds(q)' => Holds(q) /\ inst'[q] = inst[q] /\ op'[q] = op[q]
  BY <1>3, <1>4 DEF Holds
<1>7. \A q \in Processes : Creator(q)' => Creator(q) /\ Holds(q)'
  BY <1>6 DEF Creator, Holds, Binders
<1>8. \A q \in Processes : Holds(q)' /\ op'[q] = "attach" => inst'[q] \in agents'
  BY <1>6 DEF AgentInv
<1>9. ASSUME NEW q \in Processes, Creator(q)'
      PROVE  /\ bound' = inst'[q] => binder' = q
             /\ pc'[q] \in RowPlaces => inst'[q] \in agents'
             /\ Moving(q)' => {move'[q].yes, move'[q].no} \cap RowPlaces = {}
             /\ \A r \in Processes \ {q} : Holds(r)' => inst'[r] # inst'[q]
  <2>1. Creator(q) /\ inst'[q] = inst[q] /\ op'[q] = op[q] /\ inst[q] \in Instances
    BY <1>1, <1>6, <1>7, <1>9
  <2>2. bound' = inst'[q] => binder' = q
    BY <1>4, <1>9, <2>1 DEF AgentInv, Creator
  <2>3. pc'[q] \in RowPlaces => inst'[q] \in agents'
    BY <1>3, <1>4, <1>9, <2>1 DEF AgentInv, Creator, Binders
  <2>4. Moving(q)' => {move'[q].yes, move'[q].no} \cap RowPlaces = {}
    BY <1>3, <1>4, <1>9, <2>1 DEF AgentInv, Creator, Binders, Moving
  <2> QED
    BY <1>6, <2>1, <2>2, <2>3, <2>4 DEF AgentInv
<1> QED
  BY <1>2, <1>5, <1>8, <1>9 DEF AgentInv

(* An error leads to no place past the Agent row. *)
LEMMA HandlerRow ==
    ASSUME LocalOK, PlaceInv, AgentInv, NEW p \in Processes, Creator(p)
    PROVE  Handler(p) \notin RowPlaces
<1>1. CASE pc[p] \in {"moving", "writing"} /\ Handler(p) = move[p].no
  BY <1>1 DEF AgentInv, Moving
<1> QED
  BY <1>1, HandlerCases DEF RowPlaces, AfterDelete, AfterCount

(* Only these steps write binder, bound or the Agent rows. *)
LEMMA AgentWriters ==
    ASSUME NEW p \in Processes,
           Start(p) \/ Continue(p) \/ Fails(p) \/ Crash(p)
    PROVE  \/ Save(p) \/ BindWrite(p) \/ Queue(p) \/ Unprepare(p) \/ Forget(p)
           \/ Detach(p) \/ Fails(p) \/ Crash(p)
           \/ UNCHANGED <<bound, binder, agents>>
  BY DEF Start, Continue, MoveRead, MoveWrite, Creation, Upsert, Provision,
     Degrade, Adopt, Resolve, Attach, Check, BindRead, Undoing, Undo, Unbind,
     Retrying, Retry, CheckHealth, CountBound, CreateBank, Deleting, DeleteRead,
     DeletionRead, DeletionWrite, Erase, FailDeletion, Clean, CleanRow,
     CleanRetried, Reading, Ask, Observe, Touch, Recover, Recheck, Keeps,
     Binding, Request

(* A new binding is of an Instance that nobody else binds. *)
LEMMA AgentBind ==
    ASSUME LocalOK, PlaceInv, AgentInv, NEW p \in Processes, BindWrite(p),
           bound = Nobody, bound' = inst[p],
           pc[p] = "binding_locked", op[p] \in Owners(pc[p]), agents' = agents
    PROVE  AgentInv'
<1> USE MemoryAssumption
<1>1. op[p] \in Binders /\ inst[p] \in Instances
  BY DEF Owners, Binders, PlaceInv, Naming
<1>2. inst[p] \in agents /\ Holds(p)
  BY <1>1 DEF AgentInv, Holds, Creator, Binders, RowPlaces
<1>3. \/ Go(p, "idle") /\ binder' = Nobody
      \/ Go(p, "queueing") /\ binder' = p
  BY DEF BindWrite
<1>4. /\ \A q \in Processes \ {p} :
           pc'[q] = pc[q] /\ op'[q] = op[q] /\ inst'[q] = inst[q] /\ move'[q] = move[q]
      /\ \/ pc'[p] = "idle" /\ binder' = Nobody
         \/ /\ pc'[p] = "queueing" /\ binder' = p
            /\ op'[p] = op[p] /\ inst'[p] = inst[p]
  <2>1. CASE Go(p, "idle") /\ binder' = Nobody
    BY <2>1, OthersKeep, OwnLocals DEF Go
  <2>2. CASE Go(p, "queueing") /\ binder' = p
    BY <2>2, OthersKeep, OwnLocals DEF Go
  <2> QED
    BY <1>3, <2>1, <2>2
<1>5. \A q \in Processes : Holds(q)' => Holds(q) /\ inst'[q] = inst[q] /\ op'[q] = op[q]
  BY <1>3, <1>4 DEF Holds
<1>6. \A q \in Processes : Creator(q)' => Creator(q)
  BY <1>5 DEF Creator, Holds, Binders
<1>7. \A q \in Processes \ {p} : Creator(q) => inst[q] # inst[p]
  BY <1>2 DEF AgentInv
<1>8. BoundAgentExists'
  BY <1>2 DEF BoundAgentExists
<1>9. \A q \in Processes : binder' = q => pc'[q] \in {"queueing", "unpreparing"}
  BY <1>3, <1>4
<1>10. \A q \in Processes : Holds(q)' /\ op'[q] = "attach" => inst'[q] \in agents'
  BY <1>5 DEF AgentInv
<1>11. ASSUME NEW q \in Processes, Creator(q)'
       PROVE  /\ bound' = inst'[q] => binder' = q
              /\ pc'[q] \in RowPlaces => inst'[q] \in agents'
              /\ Moving(q)' => {move'[q].yes, move'[q].no} \cap RowPlaces = {}
              /\ \A r \in Processes \ {q} : Holds(r)' => inst'[r] # inst'[q]
  <2>1. Creator(q) /\ Holds(q)' /\ inst'[q] = inst[q]
    BY <1>5, <1>6, <1>11 DEF Creator, Holds, Binders
  <2>2. \A r \in Processes \ {q} : Holds(r)' => inst'[r] # inst'[q]
    BY <1>5, <2>1 DEF AgentInv
  <2> QED
    BY <1>3, <1>4, <1>7, <1>11, <2>1, <2>2 DEF AgentInv, Creator, Moving, RowPlaces
<1> QED
  BY <1>8, <1>9, <1>10, <1>11 DEF AgentInv

(* The Agent row of a failed creation goes when nobody is bound to it.      *)
LEMMA AgentForget ==
    ASSUME LocalOK, PlaceInv, AgentInv, NEW p \in Processes, Forget(p),
           op[p] \in Owners(pc[p])
    PROVE  AgentInv'
<1> USE MemoryAssumption
<1>1. /\ pc[p] = "forgetting" /\ agents' = agents \ {inst[p]} /\ Go(p, "idle")
      /\ bound' = bound /\ binder' = binder
  BY DEF Forget, At, Binding
<1>2. Creator(p) /\ bound # inst[p]
  BY <1>1 DEF Owners, Creator, AgentInv
<1>3. /\ \A q \in Processes \ {p} :
           pc'[q] = pc[q] /\ op'[q] = op[q] /\ inst'[q] = inst[q] /\ move'[q] = move[q]
      /\ pc'[p] = "idle"
  BY <1>1, OthersKeep, OwnLocals DEF Go
<1>4. BoundAgentExists'
  BY <1>1, <1>2 DEF AgentInv, BoundAgentExists
<1>5. \A q \in Processes \ {p} : Holds(q) => inst[q] # inst[p]
  BY <1>2 DEF AgentInv
<1>6. \A q \in Processes : /\ Holds(q)' => q # p /\ Holds(q)
                           /\ Creator(q)' => q # p /\ Creator(q) /\ Holds(q)
  BY <1>3 DEF Holds, Creator, Binders
<1>7. \A q \in Processes : binder' = q => pc'[q] \in {"queueing", "unpreparing"}
  BY <1>1, <1>3 DEF AgentInv
<1>8. \A q \in Processes : Holds(q)' /\ op'[q] = "attach" => inst'[q] \in agents'
  BY <1>1, <1>3, <1>5, <1>6 DEF AgentInv
<1>9. \A q \in Processes : Creator(q)' =>
        /\ bound' = inst'[q] => binder' = q
        /\ pc'[q] \in RowPlaces => inst'[q] \in agents'
        /\ Moving(q)' => {move'[q].yes, move'[q].no} \cap RowPlaces = {}
        /\ \A r \in Processes \ {q} : Holds(r)' => inst'[r] # inst'[q]
  BY <1>1, <1>3, <1>5, <1>6 DEF AgentInv, Moving
<1> QED
  BY <1>4, <1>7, <1>8, <1>9 DEF AgentInv

(* A call that starts names a new Instance, or one that nobody creates. *)
LEMMA AgentStart ==
    ASSUME TypeOK, LocalOK, PlaceInv, AgentInv, NEW p \in Processes, Start(p)
    PROVE  AgentInv'
<1> USE MemoryAssumption
<1>1. PICK o \in Operations : \E i \in Subjects(o) :
        Become(p, FirstPlace[o], o, i, "ready", NoMove)
  BY DEF Start
<1>2. PICK i \in Subjects(o) : Become(p, FirstPlace[o], o, i, "ready", NoMove)
  BY <1>1
<1>3. o \in Methods /\ pc[p] = "idle" /\ UNCHANGED <<bound, binder, agents>>
  BY DEF Start, At, Binding, Request
<1>4. /\ FirstPlace[o] \notin RowPlaces
      /\ FirstPlace[o] \notin {"moving", "writing", "idle"}
  BY <1>3 DEF FirstPlace, Methods, RowPlaces
<1>5. binder # p
  BY <1>3 DEF AgentInv
<1>6. CASE o \notin Binders
  BY <1>2, <1>3, <1>5, <1>6, AgentBecome
<1>7. CASE o \in Binders
  <2>1. /\ i \in Instances
        /\ o = "attach" => i \in agents \ Creating
        /\ o # "attach" => i \notin agents \cup Creating
    <3>1. Subjects(o) = IF o = "attach" THEN agents \ Creating
                        ELSE Instances \ (agents \cup Creating)
      BY <1>7, Zenon DEF Subjects, Binders
    <3> QED
      BY <1>2, <1>7, <3>1 DEF TypeOK, Binders
  <2>2. \A q \in Processes : Creator(q) => inst[q] # i
    BY <2>1 DEF Creating, Creator
  <2>3. o # "attach" => \A q \in Processes : Holds(q) => inst[q] # i
    BY <2>1, <2>2 DEF AgentInv, Holds, Creator, Binders
  <2>4. o # "attach" => bound # i
    BY <2>1 DEF AgentInv, BoundAgentExists
  <2>5. /\ \A q \in Processes \ {p} :
             pc'[q] = pc[q] /\ op'[q] = op[q] /\ inst'[q] = inst[q] /\ move'[q] = move[q]
        /\ pc'[p] = FirstPlace[o] /\ op'[p] = o /\ inst'[p] = i
    BY <1>2, <1>4, OthersKeep, OwnLocals
  <2>6. /\ \A q \in Processes \ {p} : (Holds(q)' <=> Holds(q)) /\ (Creator(q)' <=> Creator(q))
        /\ Creator(p)' => o # "attach"
    BY <2>5 DEF Holds, Creator
  <2>7. BoundAgentExists'
    BY <1>3 DEF AgentInv, BoundAgentExists
  <2>8. \A q \in Processes : binder' = q => pc'[q] \in {"queueing", "unpreparing"}
    BY <1>3, <1>5, <2>5 DEF AgentInv
  <2>9. \A q \in Processes : Holds(q)' /\ op'[q] = "attach" => inst'[q] \in agents'
    BY <1>3, <2>1, <2>5, <2>6 DEF AgentInv
  <2>10. \A q \in Processes : Creator(q)' =>
          /\ bound' = inst'[q] => binder' = q
          /\ pc'[q] \in RowPlaces => inst'[q] \in agents'
          /\ Moving(q)' => {move'[q].yes, move'[q].no} \cap RowPlaces = {}
          /\ \A r \in Processes \ {q} : Holds(r)' => inst'[r] # inst'[q]
    <3>1. ASSUME Creator(p)'
          PROVE  /\ bound' = inst'[p] => binder' = p
                 /\ pc'[p] \in RowPlaces => inst'[p] \in agents'
                 /\ Moving(p)' => {move'[p].yes, move'[p].no} \cap RowPlaces = {}
                 /\ \A r \in Processes \ {p} : Holds(r)' => inst'[r] # inst'[p]
      BY <1>3, <1>4, <2>3, <2>4, <2>5, <2>6, <3>1 DEF Moving
    <3>2. ASSUME NEW q \in Processes \ {p}, Creator(q)'
          PROVE  /\ bound' = inst'[q] => binder' = q
                 /\ pc'[q] \in RowPlaces => inst'[q] \in agents'
                 /\ Moving(q)' => {move'[q].yes, move'[q].no} \cap RowPlaces = {}
                 /\ \A r \in Processes \ {q} : Holds(r)' => inst'[r] # inst'[q]
      BY <1>3, <2>2, <2>5, <2>6, <3>2 DEF AgentInv, Moving
    <3> QED
      BY <3>1, <3>2
  <2> QED
    BY <2>7, <2>8, <2>9, <2>10 DEF AgentInv
<1> QED
  BY <1>6, <1>7

(* Every step keeps AgentInv. *)
LEMMA AgentStep ==
    ASSUME TypeOK, PlaceInv, AgentInv, NEW p \in Processes,
           Start(p) \/ Continue(p) \/ Fails(p) \/ Crash(p)
    PROVE  AgentInv'
<1> USE MemoryAssumption
<1> DEFINE Same == UNCHANGED <<bound, binder, agents>>
<1>1. LocalOK
  BY DEF TypeOK, LocalOK
<1>2. pc[p] # "idle" => op[p] \in Owners(pc[p])
  BY DEF PlaceInv
<1>3. binder = p => pc[p] \in {"queueing", "unpreparing"}
  BY DEF AgentInv
<1>4. NoMove.yes \notin RowPlaces /\ NoMove.no \notin RowPlaces
  BY DEF NoMove, RowPlaces
<1>5. ASSUME NEW place, Go(p, place), pc[p] # "idle",
             place \in RowPlaces /\ op[p] \in Binders => inst[p] \in agents',
             place \notin {"moving", "writing"},
             agents \subseteq agents',
             bound' \in {bound, Nobody},
             binder' \in {binder, Nobody},
             binder' = p => place \in {"queueing", "unpreparing"},
             binder' # binder => bound' = Nobody \/ (binder = p /\ place = "idle")
      PROVE  AgentInv'
  BY <1>1, <1>5, AgentBecome DEF Go
<1>6. ASSUME NEW place, Go(p, place), Same,
             pc[p] \notin {"idle", "queueing", "unpreparing"},
             place \in RowPlaces /\ op[p] \in Binders => inst[p] \in agents,
             place \notin {"moving", "writing"}
      PROVE  AgentInv'
  BY <1>3, <1>5, <1>6
<1>7. pc[p] # "idle" => Handler(p) \notin {"moving", "writing"}
  BY <1>1, HandlerPlace DEF InnerPlaces
<1>8. pc[p] # "idle" /\ op[p] \in Binders /\ Handler(p) \in RowPlaces
        => inst[p] \in agents
  BY <1>1, HandlerRow DEF AgentInv, Creator, Binders, Holds
<1>9. ASSUME Throw(p), Same, pc[p] \notin {"idle", "queueing", "unpreparing"}
      PROVE  AgentInv'
  BY <1>6, <1>7, <1>8, <1>9 DEF Throw
<1>10. ASSUME NEW to, NEW r, NEW yes, NEW no, Transition(p, to, r, yes, no), Same,
              pc[p] \notin {"idle", "queueing", "unpreparing"},
              op[p] \in {"create", "adopt"} => {yes, no} \cap RowPlaces = {}
       PROVE  AgentInv'
  <2> DEFINE m == [to |-> to, ref |-> r, yes |-> yes, no |-> no]
  <2>1. m.yes = yes /\ m.no = no
    OBVIOUS
  <2>2. Become(p, "moving", op[p], inst[p], seen[p], m)
    BY <1>10 DEF Transition
  <2>3. "moving" \notin RowPlaces
    BY DEF RowPlaces
  <2> HIDE DEF m
  <2> QED
    BY <1>1, <1>3, <1>10, <2>1, <2>2, <2>3, AgentBecome DEF Binders
<1>11. ASSUME NEW place, Remember(p, place), Same,
              pc[p] \notin {"idle", "queueing", "unpreparing"},
              place \notin RowPlaces, place \notin {"moving", "writing"}
       PROVE  AgentInv'
  BY <1>1, <1>3, <1>11, AgentBecome DEF Remember
<1> HIDE DEF Same
<1>12. CASE Fails(p)
  <2>1. /\ pc[p] # "idle" /\ Go(p, Handler(p)) /\ bound' = bound /\ agents' = agents
        /\ IF Handler(p) = "idle" THEN Release(p) ELSE binder' = binder
    BY <1>12 DEF Fails, At, Throw, Request
  <2>2. pc[p] = "queueing" => Handler(p) = "unpreparing"
    BY Zenon DEF Handler
  <2>3. pc[p] = "unpreparing" => Handler(p) = "idle"
    BY Zenon DEF Handler
  <2> QED
    BY <1>3, <1>5, <1>7, <1>8, <2>1, <2>2, <2>3 DEF Release
<1>13. CASE Crash(p)
  BY <1>3, <1>5, <1>13 DEF Crash, At, Release, Request, RowPlaces
<1>14. CASE Queue(p)
  BY <1>3, <1>5, <1>14 DEF Queue, At, Release, Request, RowPlaces
<1>15. CASE Unprepare(p)
  BY <1>3, <1>5, <1>15 DEF Unprepare, At, Request, Binding, RowPlaces
<1>16. CASE Detach(p)
  BY <1>3, <1>5, <1>16 DEF Detach, At, AfterDetach, Request, Binding, RowPlaces
<1>17. CASE Save(p)
  BY <1>3, <1>5, <1>17 DEF Save, At, Request, Binding, RowPlaces
<1>18. CASE BindWrite(p)
  <2>1. pc[p] = "binding_locked" /\ agents' = agents
    BY <1>18 DEF BindWrite, At, Request
  <2>2. CASE Throw(p) /\ UNCHANGED <<bound, binder>>
    BY <1>9, <2>1, <2>2 DEF Same
  <2>3. CASE bound = Nobody /\ bound' = inst[p]
    BY <1>1, <1>2, <1>18, <2>1, <2>3, AgentBind
  <2> QED
    BY <1>18, <2>2, <2>3 DEF BindWrite, Binding
<1>19. CASE Forget(p)
  BY <1>1, <1>2, <1>19, AgentForget DEF Forget, At
<1>20. CASE Start(p)
  BY <1>1, <1>20, AgentStart
<1>21. CASE Same /\ (MoveRead(p) \/ MoveWrite(p))
  <2>1. pc[p] \notin {"idle", "queueing", "unpreparing"}
    BY <1>21 DEF MoveRead, MoveWrite, At
  <2>2. CASE Throw(p)
    BY <1>9, <1>21, <2>1, <2>2
  <2>3. op[p] \in {"create", "adopt"} => {move[p].yes, move[p].no} \cap RowPlaces = {}
    BY <1>21, <2>1 DEF AgentInv, Creator, Moving, MoveRead, MoveWrite, At
  <2>4. op[p] = "attach" => inst[p] \in agents
    BY <2>1 DEF AgentInv, Holds, Binders
  <2>5. CASE Become(p, "writing", op[p], inst[p], seen[p], move[p])
    BY <1>1, <1>3, <1>21, <2>1, <2>3, <2>5, AgentBecome
       DEF Same, Binders, RowPlaces
  <2>6. CASE Become(p, move[p].yes, op[p], inst[p], move[p].to, NoMove) /\ MoveWrite(p)
    <3>1. move[p].yes \notin {"moving", "writing"}
      BY <2>6 DEF MoveWrite, At, PlaceInv, Moving, InnerPlaces
    <3> QED
      BY <1>1, <1>3, <1>21, <2>1, <2>3, <2>4, <2>6, <3>1, AgentBecome
         DEF Same, Binders
  <2> QED
    BY <1>21, <2>2, <2>5, <2>6 DEF MoveRead, MoveWrite
<1>22. CASE Same /\ Creation(p)
  <2>1. CASE Upsert(p)
    <3>1. PICK place \in {"resolving", "idle", "provisioning"} :
            Become(p, place, op[p], inst[p], status', NoMove)
      BY <2>1 DEF Upsert
    <3> QED
      BY <1>1, <1>3, <1>22, <2>1, <3>1, AgentBecome DEF Same, Upsert, At, RowPlaces
  <2>2. CASE Adopt(p)
    BY <1>9, <1>11, <1>22, <2>2 DEF Adopt, At, RowPlaces
  <2>3. CASE Provision(p) \/ Degrade(p)
    BY <1>10, <1>22, <2>3 DEF Provision, Degrade, At, RowPlaces
  <2>4. CASE Resolve(p)
    BY <1>6, <1>9, <1>10, <1>22, <2>4 DEF Resolve, At, RowPlaces
  <2>5. CASE Attach(p)
    <3>1. op[p] = "attach" /\ inst[p] \in agents
      BY <1>2, <2>5 DEF Attach, At, Owners, AgentInv, Holds, Binders
    <3> QED
      BY <1>6, <1>9, <1>10, <1>22, <2>5, <3>1 DEF Attach, At
  <2>6. CASE Check(p) \/ BindRead(p)
    <3>1. op[p] \in Binders => inst[p] \in agents
      BY <2>6 DEF Check, BindRead, At, AgentInv, Creator, Holds, Binders, RowPlaces
    <3> QED
      BY <1>6, <1>9, <1>22, <2>6, <3>1 DEF Check, BindRead, At
  <2> QED
    BY <1>14, <1>17, <1>18, <1>22, <2>1, <2>2, <2>3, <2>4, <2>5, <2>6 DEF Creation
<1>23. CASE Same /\ Undoing(p)
  BY <1>6, <1>10, <1>15, <1>16, <1>19, <1>23
     DEF Undoing, Undo, Unbind, At, RowPlaces, AfterDetach
<1>24. CASE Same /\ Retrying(p)
  BY <1>6, <1>9, <1>10, <1>24
     DEF Retrying, Retry, CheckHealth, CountBound, CreateBank, At, RowPlaces
<1>25. CASE Same /\ Deleting(p)
  <2>1. CASE Clean(p)
    <3>1. CASE Go(p, "cleaning_row")
      BY <1>6, <1>25, <2>1, <3>1 DEF Clean, At, RowPlaces
    <3>2. CASE Become(p, "detaching", op[p], bound, seen[p], NoMove)
      <4>1. op[p] \notin Binders /\ binder # p
        BY <1>2, <1>3, <2>1 DEF Clean, At, Owners, Binders
      <4> QED
        BY <1>1, <1>25, <3>2, <4>1, AgentBecome DEF Same
    <3> QED
      BY <2>1, <3>1, <3>2 DEF Clean
  <2>2. CASE DeleteRead(p) \/ DeletionRead(p) \/ DeletionWrite(p)
    BY <1>6, <1>9, <1>25, <2>2
       DEF DeleteRead, DeletionRead, DeletionWrite, At, RowPlaces, AfterDelete
  <2>3. CASE Erase(p) \/ FailDeletion(p)
    BY <1>10, <1>25, <2>3 DEF Erase, FailDeletion, At, RowPlaces, AfterDelete
  <2>4. CASE CleanRow(p) \/ CleanRetried(p)
    BY <1>6, <1>25, <2>4 DEF CleanRow, CleanRetried, At, RowPlaces
  <2> QED
    BY <1>25, <2>1, <2>2, <2>3, <2>4 DEF Deleting
<1>26. CASE Same /\ Reading(p)
  BY <1>6, <1>9, <1>10, <1>11, <1>26
     DEF Reading, Ask, Observe, Touch, Recover, Recheck, At, RowPlaces, AfterCount
<1> QED
  BY <1>12, <1>13, <1>14, <1>15, <1>16, <1>17, <1>18, <1>19, <1>20, <1>21, <1>22,
     <1>23, <1>24, <1>25, <1>26, AgentWriters DEF Continue, Same

(* The Agent an active binding names has a row: a request that fails takes  *)
(* its binding back before its row, and nobody else can have bound the      *)
(* Instance it was about to create.                                         *)
THEOREM BoundAgentsExist == Spec => []BoundAgentExists
<1>1. Init => AgentInv
  BY MemoryAssumption DEF Init, AgentInv, BoundAgentExists, Creator, Holds
<1>2. AgentInv /\ TypeOK /\ PlaceInv /\ [Next]_vars => AgentInv'
  <2> SUFFICES ASSUME AgentInv, TypeOK, PlaceInv, [Next]_vars
               PROVE  AgentInv'
    OBVIOUS
  <2>1. CASE UNCHANGED <<bound, binder, agents, pc, op, inst, move>>
    BY <2>1 DEF AgentInv, BoundAgentExists, Creator, Holds, Moving
  <2> QED
    BY <2>1, AgentStep DEF Next, DeleteProject, vars, Binding, Request, Local
<1>3. AgentInv => BoundAgentExists
  BY DEF AgentInv
<1> QED
  BY <1>1, <1>2, <1>3, TypeCorrect, PTL DEF Spec
=============================================================================
