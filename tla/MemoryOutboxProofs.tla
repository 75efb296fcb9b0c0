-------------------------- MODULE MemoryOutboxProofs --------------------------
(***************************************************************************)
(* What TLAPS proves of MemoryOutbox, for any number of conversations,     *)
(* drains, governance requests and events.                                 *)
(***************************************************************************)
EXTENDS MemoryOutbox, TLAPS

Places == {"erasing", "appending", "queueing"}
Ops == {"redact", "reextract", "delete"}
Requests == [at : Places, op : Ops, key : Keys]
Finds == [key : Keys, row : Rows]
Claims == [key : Keys, tries : 0 .. MaxAttempts]
Batches == [at : {"idle", "claiming", "sent", "failing"}, found : SUBSET Finds,
            claimed : SUBSET Claims, now : Claims \cup {None}, dead : BOOLEAN]

TypeInv ==
    /\ TypeOK
    /\ editor \in [Editors -> Requests \cup {AtRest}]
    /\ drain \in [Drains -> Batches]

(* What a drain holds is an event that was queued, tries are left for it,  *)
(* and what it is about to mark delivered was taken.                       *)
Knows(b) ==
    /\ \A x \in b.found : x.row.tries < MaxAttempts /\ row[x.key] # Absent
    /\ \A x \in b.claimed : x.tries < MaxAttempts /\ row[x.key] # Absent
    /\ b.at \in {"sent", "failing"} => b.now \in b.claimed
    /\ b.at = "sent" => b.now.key \in taken

Open(r) == Waiting(r) \/ Claimed(r)

DrainInv ==
    /\ \A k \in Keys : Open(row[k]) => row[k].tries < MaxAttempts
    /\ \A d \in Drains : Knows(drain[d])
    /\ replay # None => row[replay] # Absent

(* A request holds a key nobody else uses, until it sends or queues it.    *)
Active(e) == editor[e].at # "idle"

Holds(e) ==
    LET k == editor[e].key
    IN  /\ k[2] \in 1 .. edits[k[1]]
        /\ row[k] = Absent
        /\ editor[e].at # "queueing" => k \notin taken \cup flying
        /\ editor[e].at = "erasing" => editor[e].op # "reextract"
        /\ editor[e].at = "appending" => editor[e].op # "delete"
        /\ editor[e].at = "queueing" => editor[e].op = "redact"
        /\ editor[e].op = "redact" => k \in text[k]

EditorInv ==
    /\ \A e \in Editors : Active(e) => Holds(e)
    /\ \A e, f \in Editors :
          Active(e) /\ Active(f) /\ editor[e].key = editor[f].key => e = f

(* A key in use was given out; a document is edited only after its first   *)
(* append was written.                                                     *)
Used(k) == k \in taken \/ k \in flying \/ row[k] # Absent

Counted(c) ==
    /\ Original(c) \in taken \cup flying => row[Original(c)] # Absent
    /\ edits[c] > 0 => Original(c) \in taken \ queued
    /\ shown[c] # None =>
          shown[c] \in taken \ queued /\ shown[c][1] = c
          /\ Original(c) \in taken \ queued
    /\ c \in erased => edits[c] > 0

KeyInv ==
    /\ queued \subseteq taken /\ late \subseteq broken
    /\ \A k \in Keys : Used(k) => k[2] <= edits[k[1]]
    /\ \A k \in answered : k[2] <= edits[k[1]]
    /\ \A c \in Conversations : Counted(c)

(* An append of the key may still change the document: it may yet be       *)
(* accepted, or is accepted and not written.                               *)
Coming(k) ==
    \/ Used(k)
    \/ \E e \in Editors : Active(e) /\ editor[e].op # "delete" /\ editor[e].key = k

Live(k) == k \in queued \/ (k \notin taken /\ Coming(k))

(* Without overlap one request edits the conversation, only the newest key *)
(* is live, and what is shown or live contains every answered redaction:   *)
(* after a deletion nothing is.                                            *)
OneEdit(c) ==
    /\ \A e, f \in Editors :
          Active(e) /\ EditedBy(e) = c /\ Active(f) /\ EditedBy(f) = c => e = f
    /\ \A e \in Editors : Active(e) /\ EditedBy(e) = c =>
          /\ editor[e].key[2] = edits[c]
          /\ editor[e].op = "redact" /\ editor[e].at # "erasing" =>
                shown[c] \in {None, editor[e].key}

Newest(c) ==
    \A k \in Keys : k[1] = c /\ Live(k) =>
       /\ k[2] = edits[c]
       /\ row[k] # Absent => shown[c] = None

Redacted(c) ==
    /\ shown[c] # None => answered \cap Edits(c) \subseteq text[shown[c]]
    /\ \A k \in Keys :
          k[1] = c /\ Live(k) => answered \cap Edits(c) \subseteq text[k]

Deleted(c) ==
    c \in erased =>
       /\ shown[c] = None
       /\ \A k \in Keys : k[1] = c => ~Live(k)

Sound(c) == OneEdit(c) /\ Newest(c) /\ Redacted(c) /\ Deleted(c)

RemovalInv == \A c \in Conversations \ overlap : Sound(c)

(* A redaction that will still append or queue its text has not been taken. *)
Brings(r) == r.status \notin {"absent", "delivered"}

Appending(e, c) ==
    /\ editor[e].at \in {"appending", "queueing"}
    /\ EditedBy(e) = c /\ editor[e].op = "redact"
    /\ editor[e].key \notin taken

Kept(c) ==
    \/ row[Original(c)] = Absent
    \/ shown[c] # None
    \/ \E k \in queued : k[1] = c
    \/ c \in erased \cup broken
    \/ \E e \in Editors : Appending(e, c)
    \/ \E k \in Keys \ taken : k[1] = c /\ Brings(row[k])

KeptInv == \A c \in Conversations : Kept(c)

IInv == TypeInv /\ DrainInv /\ EditorInv /\ KeyInv /\ RemovalInv /\ KeptInv

-----------------------------------------------------------------------------
(* Facts about keys and places. *)

LEMMA KeyParts ==
    ASSUME NEW k \in Keys
    PROVE  /\ k[1] \in Conversations /\ k[2] \in 0 .. MaxEdits
           /\ k = <<k[1], k[2]>> /\ k # None
BY OutboxAssumption DEF Keys

LEMMA KeyMade ==
    ASSUME NEW c \in Conversations, NEW n \in 0 .. MaxEdits
    PROVE  <<c, n>> \in Keys
BY DEF Keys

LEMMA OriginalKey ==
    ASSUME NEW c \in Conversations
    PROVE  /\ Original(c) \in Keys /\ Original(c)[1] = c /\ Original(c)[2] = 0
           /\ \A k \in Keys : k[1] = c /\ k[2] = 0 => k = Original(c)
<1>1. 0 \in 0 .. MaxEdits
  BY OutboxAssumption
<1> QED
  BY <1>1, KeyMade, KeyParts DEF Original

LEMMA EditKeys ==
    ASSUME NEW c \in Conversations, NEW k
    PROVE  k \in Edits(c) <=> k \in Keys /\ k[1] = c /\ k[2] >= 1
BY OutboxAssumption DEF Edits, Keys

LEMMA SameKey ==
    ASSUME NEW k \in Keys, NEW l \in Keys, k[1] = l[1], k[2] = l[2]
    PROVE  k = l
BY KeyParts

LEMMA ActiveRequest ==
    ASSUME TypeInv, NEW e \in Editors, Active(e)
    PROVE  /\ editor[e] \in Requests /\ editor[e].key \in Keys
           /\ EditedBy(e) \in Conversations /\ EditedBy(e) = editor[e].key[1]
           /\ editor[e].at \in Places /\ editor[e].op \in Ops
<1>1. editor[e] \in Requests
  BY DEF TypeInv, Active, AtRest
<1> QED
  BY <1>1, KeyParts DEF Requests, EditedBy

LEMMA AbsentRow ==
    Absent \in Rows /\ Queued \in Rows /\ Queued # Absent
BY OutboxAssumption DEF Rows, Absent, Queued, Statuses

-----------------------------------------------------------------------------
(* What the pieces of the actions do. *)

Sent(k) ==
    \/ Append(k)
    \/ flying' = flying \cup {k} /\ UNCHANGED <<taken, queued, late, shown>>
    \/ UNCHANGED provider

LEMMA SentIs ==
    ASSUME NEW k
    PROVE  /\ Append(k) => Sent(k)
           /\ Unanswered(k) => Sent(k)
           /\ Refused(k) => Sent(k)
BY DEF Sent, Unanswered, Refused

(* The provider takes a key once, and its worker has it to write.          *)
LEMMA SentEffect ==
    ASSUME TypeInv, NEW k \in Keys, Sent(k)
    PROVE  /\ taken' \subseteq Keys /\ queued' \subseteq Keys
           /\ flying' \subseteq Keys
           /\ \/ taken' = taken /\ queued' = queued
              \/ /\ k \notin taken /\ taken' = taken \cup {k}
                 /\ queued' = queued \cup {k}
           /\ flying' \subseteq flying \cup {k}
           /\ UNCHANGED <<late, shown>>
<1>1. \/ taken' = taken /\ queued' = queued
      \/ /\ k \notin taken /\ taken' = taken \cup {k}
         /\ queued' = queued \cup {k}
  <2>1. k \in taken => taken \cup {k} = taken
    OBVIOUS
  <2> QED
    BY <2>1 DEF Sent, Append, Take, provider
<1>2. flying' \subseteq flying \cup {k} /\ UNCHANGED <<late, shown>>
  BY DEF Sent, Append, Take, provider
<1> QED
  BY <1>1, <1>2 DEF TypeInv, TypeOK

LEMMA SentEvents ==
    ASSUME TypeInv, NEW k, Unanswered(k) \/ Refused(k)
    PROVE  events' \in 0 .. Events
BY OutboxAssumption DEF Unanswered, Refused, TypeInv, TypeOK

LEMMA EndEditEffect ==
    ASSUME TypeInv, NEW e \in Editors, Active(e), NEW success, EndEdit(e, success)
    PROVE  /\ editor' = [editor EXCEPT ![e] = AtRest]
           /\ editor' \in [Editors -> Requests \cup {AtRest}]
           /\ answered' = answered \/ /\ answered' = answered \cup {editor[e].key}
                                      /\ success /\ editor[e].op = "redact"
           /\ answered' \subseteq Keys
           /\ broken \subseteq broken' /\ broken' \subseteq Conversations
           /\ (/\ ~success /\ editor[e].op = "redact"
               /\ shown'[EditedBy(e)] = None /\ row'[editor[e].key] = Absent
               /\ editor[e].key \notin queued')
                 => EditedBy(e) \in broken'
BY ActiveRequest DEF EndEdit, TypeInv, TypeOK, EditedBy

(* What is left of a batch: nothing is in it that was not.                 *)
Smaller(b, a) ==
    /\ b.found \subseteq a.found /\ b.claimed \subseteq a.claimed
    /\ b.at \in {"idle", "claiming"}

LEMMA RestOf ==
    ASSUME NEW b \in Batches, NEW a \in Batches, Smaller(b, a)
    PROVE  Rest(b) \in Batches /\ Smaller(Rest(b), a)
<1>1. Idle \in Batches
  BY DEF Idle, Batches
<1> QED
  BY <1>1 DEF Rest, Smaller, Idle

LEMMA DoneIs ==
    ASSUME TypeInv, NEW d \in Drains
    PROVE  Done(d) \in Batches /\ Smaller(Done(d), drain[d])
<1> DEFINE b == [drain[d] EXCEPT !.at = "claiming", !.now = None, !.dead = FALSE,
                                 !.claimed = @ \ {drain[d].now}]
<1>1. drain[d] \in Batches
  BY DEF TypeInv
<1>2. b \in Batches /\ b.at = "claiming" /\ b.found = drain[d].found
      /\ b.claimed = drain[d].claimed \ {drain[d].now}
  BY <1>1 DEF Batches
<1>3. Smaller(b, drain[d])
  BY <1>2 DEF Smaller
<1> HIDE DEF b
<1>4. Done(d) = Rest(b)
  BY DEF Done, b
<1> QED
  BY <1>1, <1>2, <1>3, <1>4, RestOf

LEMMA NowKey ==
    ASSUME TypeInv, DrainInv, NEW d \in Drains, drain[d].at \in {"sent", "failing"}
    PROVE  /\ drain[d].now \in Claims /\ drain[d].now.key \in Keys
           /\ drain[d].now.tries < MaxAttempts /\ drain[d].now.tries \in Nat
           /\ row[drain[d].now.key] # Absent
<1>1. drain[d] \in Batches /\ Knows(drain[d])
  BY DEF TypeInv, DrainInv
<1> QED
  BY <1>1, OutboxAssumption DEF Knows, Batches, Claims

-----------------------------------------------------------------------------
(* Types. *)

LEMMA RowsMove ==
    ASSUME TypeInv, NEW k \in Keys, NEW r \in Rows, row' = [row EXCEPT ![k] = r]
    PROVE  row' \in [Keys -> Rows]
BY DEF TypeInv, TypeOK

LEMMA BatchMoves ==
    ASSUME TypeInv, NEW d \in Drains, NEW b \in Batches, drain' = [drain EXCEPT ![d] = b]
    PROVE  drain' \in [Drains -> Batches]
BY DEF TypeInv

LEMMA InitTypes == Init => TypeInv
<1>1. Idle \in Batches
  BY DEF Idle, Batches
<1> QED
  BY <1>1, OutboxAssumption, AbsentRow DEF Init, TypeInv, TypeOK, Keys

LEMMA OutboxTypes ==
    ASSUME TypeInv, DrainInv, NEW d \in Drains,
           \/ Find(d) \/ Claim(d) \/ Deliver(d) \/ MarkDelivered(d)
           \/ MarkFailed(d) \/ Crash(d)
    PROVE  TypeInv'
<1>1. drain[d] \in Batches
  BY DEF TypeInv
<1>2. CASE Find(d)
  <2> DEFINE due == {[key |-> k, row |-> row[k]] : k \in {k \in Keys : Due(row[k])}}
  <2>1. due \subseteq Finds
    BY DEF TypeInv, TypeOK, Finds
  <2>2. [Idle EXCEPT !.at = "claiming", !.found = due] \in Batches
    BY <2>1 DEF Idle, Batches
  <2>3. drain' \in [Drains -> Batches]
    BY <1>2, <2>2, BatchMoves DEF Find
  <2> QED
    BY <1>2, <2>3 DEF Find, TypeInv, TypeOK, provider, history
<1>3. CASE Claim(d)
  <2>1. PICK x \in drain[d].found : Claim(d)!(x)
    BY <1>3 DEF Claim
  <2> DEFINE batch == [drain[d] EXCEPT !.found = @ \ {x}]
             taking == [batch EXCEPT !.claimed =
                           @ \cup {[key |-> x.key, tries |-> x.row.tries]}]
  <2>2. x \in Finds /\ x.key \in Keys /\ x.row \in Rows
    BY <1>1, <2>1 DEF Batches, Finds
  <2>3. [key |-> x.key, tries |-> x.row.tries] \in Claims
    BY <2>2 DEF Rows, Claims
  <2>4. batch \in Batches /\ batch.found = drain[d].found \ {x}
        /\ batch.claimed = drain[d].claimed /\ batch.at = drain[d].at
    BY <1>1 DEF Batches
  <2>5. taking \in Batches
    BY <2>3, <2>4 DEF Batches
  <2>6. Smaller(batch, drain[d]) /\ Rest(batch) \in Batches
    BY <1>1, <2>1, <2>4, RestOf DEF Smaller
  <2>7. drain' \in [Drains -> Batches]
    BY <2>1, <2>5, <2>6, BatchMoves
  <2>8. [row[x.key] EXCEPT !.status = "processing", !.due = FALSE] \in Rows
    BY <2>2 DEF TypeInv, TypeOK, Rows, Statuses
  <2>9. row' \in [Keys -> Rows]
    BY <2>1, <2>2, <2>8 DEF TypeInv, TypeOK
  <2> QED
    BY <2>1, <2>7, <2>9 DEF TypeInv, TypeOK, provider, history
<1>4. CASE Deliver(d)
  <2>1. PICK x \in drain[d].claimed : Deliver(d)!(x)
    BY <1>4 DEF Deliver
  <2>2. x \in Claims /\ x.key \in Keys
    BY <1>1, <2>1 DEF Batches, Claims
  <2>3. Sent(x.key) /\ events' \in 0 .. Events
    <3>1. (Append(x.key) /\ events' = events) \/ Unanswered(x.key) \/ Refused(x.key)
      BY <2>1
    <3> QED
      BY <3>1, SentIs, SentEvents DEF TypeInv, TypeOK
  <2>4. drain' \in [Drains -> Batches]
    <3>1. [drain[d] EXCEPT !.at = "sent", !.now = x] \in Batches
      BY <1>1, <2>2 DEF Batches
    <3>2. \A dead \in BOOLEAN :
             [drain[d] EXCEPT !.at = "failing", !.now = x, !.dead = dead] \in Batches
      BY <1>1, <2>2 DEF Batches
    <3> QED
      BY <2>1, <3>1, <3>2 DEF TypeInv
  <2> QED
    BY <2>1, <2>2, <2>3, <2>4, SentEffect DEF TypeInv, TypeOK, history
<1>5. CASE MarkDelivered(d)
  <2>1. drain[d].now.key \in Keys
    BY <1>5, NowKey DEF MarkDelivered
  <2>2. [row[drain[d].now.key] EXCEPT !.status = "delivered", !.due = FALSE] \in Rows
    <3>1. row[drain[d].now.key] \in Rows
      BY <2>1 DEF TypeInv, TypeOK
    <3> QED
      BY <3>1 DEF Rows, Statuses
  <2>3. row' \in [Keys -> Rows]
    BY <1>5, <2>1, <2>2 DEF MarkDelivered, TypeInv, TypeOK
  <2>4. [drain[d] EXCEPT !.at = "failing"] \in Batches
    BY <1>1 DEF Batches
  <2>5. drain' \in [Drains -> Batches]
    BY <1>5, <2>4, DoneIs DEF MarkDelivered, TypeInv
  <2> QED
    BY <1>5, <2>3, <2>5 DEF MarkDelivered, TypeInv, TypeOK, provider, history
<1>6. CASE MarkFailed(d)
  <2> DEFINE x == drain[d].now
             given == drain[d].dead \/ x.tries + 1 >= MaxAttempts
             failed == [status |-> IF given THEN "dead_letter" ELSE "retry",
                        tries |-> x.tries + 1, due |-> FALSE]
  <2>1. x.key \in Keys /\ x.tries \in Nat /\ x.tries < MaxAttempts
    BY <1>6, NowKey DEF MarkFailed
  <2>2. failed \in Rows
    BY <2>1, OutboxAssumption DEF Rows, Statuses
  <2>3. row' \in [Keys -> Rows]
    BY <1>6, <2>1, <2>2 DEF MarkFailed, TypeInv, TypeOK
  <2>4. drain' \in [Drains -> Batches]
    BY <1>6, DoneIs DEF MarkFailed, TypeInv
  <2> QED
    BY <1>6, <2>3, <2>4 DEF MarkFailed, TypeInv, TypeOK, provider, history
<1>7. CASE Crash(d)
  <2>1. Idle \in Batches
    BY DEF Idle, Batches
  <2> QED
    BY <1>7, <2>1, OutboxAssumption DEF Crash, TypeInv, TypeOK, provider, history
<1> QED
  BY <1>2, <1>3, <1>4, <1>5, <1>6, <1>7

LEMMA OtherTypes ==
    ASSUME TypeInv,
           \/ \E c \in Conversations : Retain(c) \/ EraseLate(c)
           \/ \E k \in Keys : Arrive(k) \/ Apply(k) \/ ComesDue(k) \/ FindReplay(k)
           \/ Replay
    PROVE  TypeInv'
<1>1. ASSUME NEW c \in Conversations, Retain(c) PROVE TypeInv'
  BY <1>1, AbsentRow, OriginalKey, RowsMove
     DEF Retain, TypeInv, TypeOK, provider, history
<1>2. ASSUME NEW k \in Keys, Arrive(k) PROVE TypeInv'
  BY <1>2, SentIs, SentEffect DEF Arrive, TypeInv, TypeOK, history
<1>6. ASSUME NEW k \in Keys, Apply(k) PROVE TypeInv'
  <2>1. shown' \in [Conversations -> Keys \cup {None}]
    BY <1>6 DEF Apply, TypeInv, TypeOK
  <2> QED
    BY <1>6, <2>1 DEF Apply, TypeInv, TypeOK, history
<1>7. ASSUME NEW c \in Conversations, EraseLate(c) PROVE TypeInv'
  <2>1. shown' \in [Conversations -> Keys \cup {None}]
    BY <1>7 DEF EraseLate, TypeInv, TypeOK
  <2> QED
    BY <1>7, <2>1 DEF EraseLate, TypeInv, TypeOK, history
<1>3. ASSUME NEW k \in Keys, ComesDue(k) PROVE TypeInv'
  <2>1. [row[k] EXCEPT !.due = TRUE] \in Rows
    BY DEF TypeInv, TypeOK, Rows
  <2>2. events' \in 0 .. Events
    BY <1>3, OutboxAssumption DEF ComesDue, TypeInv, TypeOK
  <2> QED
    BY <1>3, <2>1, <2>2 DEF ComesDue, TypeInv, TypeOK, provider, history
<1>4. ASSUME NEW k \in Keys, FindReplay(k) PROVE TypeInv'
  BY <1>4, OutboxAssumption DEF FindReplay, TypeInv, TypeOK, provider, history
<1>5. ASSUME Replay PROVE TypeInv'
  <2>1. replay \in Keys
    BY <1>5 DEF Replay, TypeInv, TypeOK
  <2>2. row' \in [Keys -> Rows]
    BY <1>5, <2>1, AbsentRow DEF Replay, TypeInv, TypeOK
  <2> QED
    BY <1>5, <2>2 DEF Replay, TypeInv, TypeOK, provider, history
<1> QED
  BY <1>1, <1>2, <1>3, <1>4, <1>5, <1>6, <1>7

LEMMA BeginTypes ==
    ASSUME TypeInv, NEW e \in Editors, NEW c \in Conversations, NEW op \in Ops,
           Begin(e, c, op)
    PROVE  TypeInv' /\ <<c, edits[c] + 1>> \in Keys /\ shown[c] \in Keys
<1> DEFINE k == <<c, edits[c] + 1>>
<1>1. k \in Keys /\ edits[c] + 1 \in 0 .. MaxEdits /\ shown[c] \in Keys
  BY KeyMade, OutboxAssumption DEF Begin, TypeInv, TypeOK
<1>2. text'[k] \subseteq Keys /\ text' \in [Keys -> SUBSET Keys]
  BY <1>1 DEF Begin, TypeInv, TypeOK, Ops
<1>3. [at |-> IF op = "reextract" THEN "appending" ELSE "erasing",
       op |-> op, key |-> k] \in Requests
  BY <1>1 DEF Requests, Places
<1>4. editor' \in [Editors -> Requests \cup {AtRest}]
  BY <1>3 DEF Begin, TypeInv
<1> QED
  BY <1>1, <1>2, <1>4 DEF Begin, TypeInv, TypeOK, provider

LEMMA EditTypes ==
    ASSUME TypeInv, NEW e \in Editors,
           Erase(e) \/ NothingErased(e) \/ AppendEdit(e) \/ QueueEdit(e)
    PROVE  TypeInv' /\ Active(e)
<1>1. Active(e)
  BY DEF Active, Erase, NothingErased, AppendEdit, QueueEdit
<1>2. editor[e] \in Requests /\ editor[e].key \in Keys /\ EditedBy(e) \in Conversations
  BY <1>1, ActiveRequest
<1>3. \A at \in Places : [editor[e] EXCEPT !.at = at] \in Requests
  BY <1>2 DEF Requests
<1>4. \A at \in Places : [editor EXCEPT ![e].at = at] \in [Editors -> Requests \cup {AtRest}]
  BY <1>3 DEF TypeInv
<1>5. ASSUME NEW success, EndEdit(e, success)
      PROVE  /\ editor' \in [Editors -> Requests \cup {AtRest}]
             /\ answered' \subseteq Keys /\ broken' \subseteq Conversations
  BY <1>1, <1>5, EndEditEffect
<1>6. CASE Erase(e)
  <2>1. /\ editor' \in [Editors -> Requests \cup {AtRest}]
        /\ answered' \subseteq Keys /\ broken' \subseteq Conversations
    BY <1>4, <1>5, <1>6 DEF Erase, Places, TypeInv, TypeOK
  <2> QED
    BY <1>1, <1>2, <1>6, <2>1 DEF Erase, TypeInv, TypeOK
<1>7. CASE NothingErased(e)
  BY <1>1, <1>2, <1>7, OutboxAssumption DEF NothingErased, TypeInv, TypeOK
<1>8. CASE AppendEdit(e)
  <2>1. /\ editor' \in [Editors -> Requests \cup {AtRest}]
        /\ answered' \subseteq Keys /\ broken' \subseteq Conversations
    BY <1>4, <1>5, <1>8 DEF AppendEdit, Places, TypeInv, TypeOK
  <2>2. Sent(editor[e].key) /\ events' \in 0 .. Events
    BY <1>8, SentIs, SentEvents DEF AppendEdit, TypeInv, TypeOK
  <2> QED
    BY <1>1, <1>2, <1>8, <2>1, <2>2, SentEffect DEF AppendEdit, TypeInv, TypeOK
<1>9. CASE QueueEdit(e)
  <2>1. /\ editor' \in [Editors -> Requests \cup {AtRest}]
        /\ answered' \subseteq Keys /\ broken' \subseteq Conversations
    BY <1>5, <1>9 DEF QueueEdit, TypeInv, TypeOK
  <2>2. row' \in [Keys -> Rows]
    BY <1>2, <1>9, AbsentRow DEF QueueEdit, Enqueued, TypeInv, TypeOK
  <2> QED
    BY <1>1, <1>9, <2>1, <2>2 DEF QueueEdit, TypeInv, TypeOK, provider
<1> QED
  BY <1>1, <1>6, <1>7, <1>8, <1>9

LEMMA TypeStep ==
    ASSUME TypeInv, DrainInv, [Next]_vars
    PROVE  TypeInv'
<1>1. CASE UNCHANGED vars
  BY <1>1 DEF vars, provider, history, TypeInv, TypeOK
<1>2. ASSUME NEW e \in Editors, EditStep(e) PROVE TypeInv'
  BY <1>2, BeginTypes, EditTypes DEF EditStep, Ops
<1>3. ASSUME NEW d \in Drains, DrainStep(d) \/ Crash(d) PROVE TypeInv'
  BY <1>3, OutboxTypes DEF DrainStep
<1> QED
  BY <1>1, <1>2, <1>3, OtherTypes DEF Next

-----------------------------------------------------------------------------
(* What drains, replays and late appends do to everyone else: either no key *)
(* is queued or sent and nothing that would bring a conversation is lost,   *)
(* or one key in use is sent.                                               *)

Quiet ==
    /\ UNCHANGED <<provider, text, editor, edits, history>>
    /\ \A k \in Keys : row'[k] = Absent <=> row[k] = Absent
    /\ \A k \in Keys \ taken : Brings(row[k]) => Brings(row'[k])

Sends(k) ==
    /\ row[k] # Absent \/ k \in flying
    /\ Sent(k)
    /\ UNCHANGED <<row, text, editor, edits, history>>

(* A row that moves is a row that was queued, and stays one.               *)
LEMMA QuietRow ==
    ASSUME TypeInv, NEW k \in Keys, NEW r \in Rows, row[k] # Absent,
           r.status # "absent", r.status = "delivered" => k \in taken,
           row' = [row EXCEPT ![k] = r],
           UNCHANGED <<provider, text, editor, edits, history>>
    PROVE  Quiet
<1>1. r # Absent
  BY DEF Absent
<1>2. \A l \in Keys : row'[l] = IF l = k THEN r ELSE row[l]
  BY DEF TypeInv, TypeOK
<1>3. \A l \in Keys : row'[l] = Absent <=> row[l] = Absent
  BY <1>1, <1>2
<1>4. \A l \in Keys \ taken : Brings(row[l]) => Brings(row'[l])
  BY <1>2 DEF Brings
<1> QED
  BY <1>3, <1>4 DEF Quiet

LEMMA OutboxEffect ==
    ASSUME TypeInv, DrainInv, NEW d \in Drains,
           \/ Find(d) \/ Claim(d) \/ Deliver(d) \/ MarkDelivered(d)
           \/ MarkFailed(d) \/ Crash(d)
    PROVE  /\ Quiet \/ \E k \in Keys : Sends(k)
           /\ replay' = replay
           /\ \A k \in Keys : Open(row'[k]) => row'[k].tries < MaxAttempts
<1>1. drain[d] \in Batches /\ Knows(drain[d])
  BY DEF TypeInv, DrainInv
<1>2. CASE Find(d) \/ Crash(d)
  BY <1>2 DEF Find, Crash, Quiet, DrainInv, provider, history
<1>3. CASE Claim(d)
  <2>1. PICK x \in drain[d].found : Claim(d)!(x)
    BY <1>3 DEF Claim
  <2>2. x.key \in Keys /\ row[x.key] # Absent /\ row[x.key] \in Rows
    BY <1>1, <2>1 DEF Knows, Batches, Finds, TypeInv, TypeOK
  <2>3. CASE row' = row
    BY <2>1, <2>3 DEF Quiet, DrainInv
  <2>4. CASE row' # row
    <3> DEFINE r == [row[x.key] EXCEPT !.status = "processing", !.due = FALSE]
    <3>1. Due(row[x.key]) /\ row' = [row EXCEPT ![x.key] = r]
      BY <2>1, <2>2, <2>4 DEF TypeInv, TypeOK
    <3>2. r \in Rows /\ r.status = "processing" /\ r.tries = row[x.key].tries
      BY <2>2 DEF Rows, Statuses
    <3>3. Quiet
      BY <2>1, <2>2, <3>1, <3>2, QuietRow
    <3>4. row[x.key].tries < MaxAttempts
      BY <2>2, <3>1 DEF DrainInv, Due, Open
    <3> QED
      BY <2>1, <2>2, <3>1, <3>2, <3>3, <3>4 DEF DrainInv, TypeInv, TypeOK
  <2> QED
    BY <2>3, <2>4
<1>4. CASE Deliver(d)
  <2>1. PICK x \in drain[d].claimed : Deliver(d)!(x)
    BY <1>4 DEF Deliver
  <2>2. x.key \in Keys /\ row[x.key] # Absent
    BY <1>1, <2>1 DEF Knows, Batches, Claims
  <2>3. Sends(x.key)
    BY <2>1, <2>2, SentIs DEF Sends
  <2> QED
    BY <2>1, <2>2, <2>3 DEF DrainInv
<1>5. CASE MarkDelivered(d)
  <2> DEFINE k == drain[d].now.key
             r == [row[k] EXCEPT !.status = "delivered", !.due = FALSE]
  <2>1. k \in Keys /\ row[k] # Absent /\ k \in taken
    BY <1>1, <1>5, NowKey DEF MarkDelivered, Knows
  <2>2. r \in Rows /\ r.status = "delivered"
    <3>1. row[k] \in Rows
      BY <2>1 DEF TypeInv, TypeOK
    <3> QED
      BY <3>1 DEF Rows, Statuses
  <2>3. row' = row \/ row' = [row EXCEPT ![k] = r]
    BY <1>5, <2>1 DEF MarkDelivered, TypeInv, TypeOK
  <2>4. Quiet
    BY <1>5, <2>1, <2>2, <2>3, QuietRow DEF MarkDelivered, Quiet
  <2>5. replay' = replay
    BY <1>5 DEF MarkDelivered
  <2>6. \A l \in Keys : Open(row'[l]) => row'[l].tries < MaxAttempts
    BY <2>1, <2>2, <2>3 DEF DrainInv, Open, Waiting, Claimed, TypeInv, TypeOK
  <2> QED
    BY <2>4, <2>5, <2>6
<1>6. CASE MarkFailed(d)
  <2> DEFINE x == drain[d].now
             given == drain[d].dead \/ x.tries + 1 >= MaxAttempts
             r == [status |-> IF given THEN "dead_letter" ELSE "retry",
                   tries |-> x.tries + 1, due |-> FALSE]
  <2>1. /\ x.key \in Keys /\ row[x.key] # Absent
        /\ x.tries \in Nat /\ x.tries < MaxAttempts
    BY <1>6, NowKey DEF MarkFailed
  <2>2. /\ r \in Rows /\ r.status \in {"dead_letter", "retry"}
        /\ r.status = "retry" => r.tries < MaxAttempts
    BY <2>1, OutboxAssumption DEF Rows, Statuses
  <2>3. row' = row \/ row' = [row EXCEPT ![x.key] = r]
    BY <1>6 DEF MarkFailed
  <2>4. Quiet
    BY <1>6, <2>1, <2>2, <2>3, QuietRow DEF MarkFailed, Quiet
  <2>5. replay' = replay
    BY <1>6 DEF MarkFailed
  <2>6. \A l \in Keys : Open(row'[l]) => row'[l].tries < MaxAttempts
    BY <2>1, <2>2, <2>3 DEF DrainInv, Open, Waiting, Claimed, TypeInv, TypeOK
  <2> QED
    BY <2>4, <2>5, <2>6
<1> QED
  BY <1>2, <1>3, <1>4, <1>5, <1>6

LEMMA OtherEffect ==
    ASSUME TypeInv, DrainInv,
           \/ \E k \in Keys : Arrive(k) \/ ComesDue(k) \/ FindReplay(k)
           \/ Replay
    PROVE  /\ Quiet \/ \E k \in Keys : Sends(k)
           /\ replay' # None => row'[replay'] # Absent
           /\ drain' = drain
           /\ \A k \in Keys : Open(row'[k]) => row'[k].tries < MaxAttempts
<1>1. ASSUME NEW k \in Keys, Arrive(k)
      PROVE  Sends(k) /\ replay' = replay /\ drain' = drain /\ row' = row
  BY <1>1, SentIs DEF Arrive, Sends
<1>2. ASSUME NEW k \in Keys, ComesDue(k)
      PROVE  /\ Quiet /\ replay' = replay /\ drain' = drain
             /\ replay # None => row'[replay] # Absent
             /\ \A l \in Keys : Open(row'[l]) => row'[l].tries < MaxAttempts
  <2> DEFINE r == [row[k] EXCEPT !.due = TRUE]
  <2>1. row[k] \in Rows
    BY DEF TypeInv, TypeOK
  <2>2. r \in Rows /\ r.status = row[k].status /\ r.tries = row[k].tries
    BY <2>1 DEF Rows
  <2>3. row[k] # Absent /\ r.status \notin {"absent", "delivered"} /\ Open(row[k])
    BY <1>2, <2>2 DEF ComesDue, Waiting, Claimed, Absent, Open
  <2>4. row' = [row EXCEPT ![k] = r]
    BY <1>2 DEF ComesDue
  <2>5. Quiet
    BY <1>2, <2>2, <2>3, <2>4, QuietRow DEF ComesDue
  <2>6. row[k].tries < MaxAttempts
    BY <2>3 DEF DrainInv
  <2>7. \A l \in Keys : Open(row'[l]) => row'[l].tries < MaxAttempts
    BY <2>2, <2>4, <2>6 DEF DrainInv, TypeInv, TypeOK
  <2>8. replay # None => row'[replay] # Absent
    BY <2>5 DEF Quiet, DrainInv, TypeInv, TypeOK
  <2> QED
    BY <1>2, <2>5, <2>7, <2>8 DEF ComesDue
<1>3. ASSUME NEW k \in Keys, FindReplay(k)
      PROVE  Quiet /\ replay' = k /\ row[k] # Absent /\ drain' = drain /\ row' = row
  BY <1>3 DEF FindReplay, Quiet, Absent
<1>4. ASSUME Replay
      PROVE  /\ Quiet /\ replay' = None /\ drain' = drain
             /\ \A l \in Keys : Open(row'[l]) => row'[l].tries < MaxAttempts
  <2>1. replay \in Keys /\ row[replay] # Absent
    BY <1>4 DEF Replay, DrainInv, TypeInv, TypeOK
  <2>2. Queued.status = "pending" /\ Queued.tries = 0
    BY DEF Queued
  <2>3. Quiet
    BY <1>4, <2>1, <2>2, AbsentRow, QuietRow DEF Replay
  <2>4. \A l \in Keys : Open(row'[l]) => row'[l].tries < MaxAttempts
    BY <1>4, <2>1, <2>2, OutboxAssumption DEF Replay, DrainInv, TypeInv, TypeOK
  <2> QED
    BY <1>4, <2>3, <2>4 DEF Replay
<1> QED
  BY <1>1, <1>2, <1>3, <1>4 DEF DrainInv

(* What people do queues keys of their own.                                *)
LEMMA PeopleEffect ==
    ASSUME TypeInv, DrainInv,
           (\E c \in Conversations : Retain(c)) \/ \E e \in Editors : EditStep(e)
    PROVE  /\ \/ row' = row
              \/ \E k \in Keys : row' = [row EXCEPT ![k] = Queued]
           /\ taken \subseteq taken'
           /\ UNCHANGED <<drain, replay>>
<1>1. ASSUME NEW c \in Conversations, Retain(c)
      PROVE  /\ \E k \in Keys : row' = [row EXCEPT ![k] = Queued]
             /\ UNCHANGED <<drain, replay, taken>>
  BY <1>1, OriginalKey DEF Retain, provider
<1>2. ASSUME NEW e \in Editors, EditStep(e), row' # row
      PROVE  QueueEdit(e)
  BY <1>2 DEF EditStep, Begin, Erase, NothingErased, AppendEdit
<1>3. ASSUME NEW e \in Editors, EditStep(e)
      PROVE  /\ row' = row \/ \E k \in Keys : row' = [row EXCEPT ![k] = Queued]
  BY <1>2, <1>3, EditTypes, ActiveRequest DEF QueueEdit, Enqueued
<1>4. ASSUME NEW e \in Editors, EditStep(e)
      PROVE  taken \subseteq taken'
  <2>1. CASE AppendEdit(e)
    BY <2>1 DEF AppendEdit, Append, Take, Unanswered, Refused, provider
  <2>2. CASE ~AppendEdit(e)
    BY <1>4, <2>2 DEF EditStep, Begin, Erase, NothingErased, QueueEdit, provider
  <2> QED
    BY <2>1, <2>2
<1>5. ASSUME NEW e \in Editors, EditStep(e)
      PROVE  UNCHANGED <<drain, replay>>
  BY <1>5 DEF EditStep, Begin, Erase, NothingErased, AppendEdit, QueueEdit
<1> QED
  BY <1>1, <1>3, <1>4, <1>5

-----------------------------------------------------------------------------
(* Drains. *)

LEMMA RowsStay ==
    ASSUME TypeInv, DrainInv, [Next]_vars
    PROVE  /\ \A k \in Keys : row[k] # Absent => row'[k] # Absent
           /\ taken \subseteq taken'
<1>1. CASE Quiet
  BY <1>1 DEF Quiet, provider
<1>2. ASSUME NEW k \in Keys, Sends(k)
      PROVE  row' = row /\ taken \subseteq taken'
  BY <1>2, SentEffect DEF Sends
<1>3. CASE UNCHANGED vars
  BY <1>3 DEF vars, provider
<1>4. ASSUME NEW k \in Keys, row' = [row EXCEPT ![k] = Queued]
      PROVE  \A l \in Keys : row[l] # Absent => row'[l] # Absent
  BY <1>4, AbsentRow DEF TypeInv, TypeOK
<1>8. CASE (\E k \in Keys : Apply(k)) \/ \E c \in Conversations : EraseLate(c)
  BY <1>8 DEF Apply, EraseLate
<1>5. CASE (\E c \in Conversations : Retain(c)) \/ \E e \in Editors : EditStep(e)
  BY <1>4, <1>5, PeopleEffect
<1>6. CASE (\E k \in Keys : Arrive(k) \/ ComesDue(k) \/ FindReplay(k)) \/ Replay
  BY <1>1, <1>2, <1>6, OtherEffect
<1>7. CASE \E d \in Drains : DrainStep(d) \/ Crash(d)
  BY <1>1, <1>2, <1>7, OutboxEffect DEF DrainStep
<1> QED
  BY <1>3, <1>5, <1>6, <1>7, <1>8 DEF Next

LEMMA KnowsStays ==
    ASSUME NEW b \in Batches, Knows(b),
           \A k \in Keys : row[k] # Absent => row'[k] # Absent,
           taken \subseteq taken'
    PROVE  Knows(b)'
BY DEF Knows, Batches, Finds, Claims

LEMMA SmallerKnows ==
    ASSUME NEW b \in Batches, NEW a \in Batches, Smaller(b, a), Knows(a)
    PROVE  Knows(b)
BY DEF Smaller, Knows

(* The batch a step leaves: part of the old one, or what was found due, or *)
(* the claim added, or the answer noted.                                   *)
LEMMA BatchKnows ==
    ASSUME TypeInv, DrainInv, NEW d \in Drains,
           \/ Find(d) \/ Claim(d) \/ Deliver(d) \/ MarkDelivered(d)
           \/ MarkFailed(d) \/ Crash(d),
           \A k \in Keys : row[k] # Absent => row'[k] # Absent,
           taken \subseteq taken'
    PROVE  /\ \A f \in Drains : f # d => drain'[f] = drain[f]
           /\ Knows(drain[d])'
<1>1. PICK a \in Batches : a = drain[d]
  BY DEF TypeInv
<1>2. Knows(a) /\ Knows(a)'
  BY <1>1, KnowsStays DEF DrainInv
<1>3. ASSUME NEW b \in Batches, Smaller(b, a), drain' = [drain EXCEPT ![d] = b]
      PROVE  Knows(drain[d])'
  <2>1. Knows(b)'
    BY <1>2, <1>3, SmallerKnows, KnowsStays
  <2> QED
    BY <1>3, <2>1 DEF TypeInv
<1>4. CASE Find(d)
  <2> DEFINE due == {[key |-> k, row |-> row[k]] : k \in {k \in Keys : Due(row[k])}}
  <2>1. PICK b : b = [Idle EXCEPT !.at = "claiming", !.found = due]
    OBVIOUS
  <2>2. b.at = "claiming" /\ b.claimed = {} /\ b.found = due
    BY <2>1 DEF Idle
  <2>3. drain'[d] = b /\ row' = row
    BY <1>4, <2>1 DEF Find, TypeInv
  <2>4. \A x \in due : x.row.tries < MaxAttempts /\ row[x.key] # Absent
    BY DEF Due, DrainInv, Open, Waiting, Claimed, Absent
  <2> QED
    BY <1>4, <2>2, <2>3, <2>4 DEF Find, Knows, TypeInv
<1>5. CASE Claim(d)
  <2>1. PICK x \in a.found : Claim(d)!(x)
    BY <1>1, <1>5 DEF Claim
  <2> DEFINE batch == [a EXCEPT !.found = @ \ {x}]
             taking == [batch EXCEPT !.claimed =
                           @ \cup {[key |-> x.key, tries |-> x.row.tries]}]
  <2>2. batch \in Batches /\ Smaller(batch, a) /\ batch.at = "claiming"
        /\ batch.found = a.found \ {x} /\ batch.claimed = a.claimed
    BY <1>1, <2>1 DEF Batches, Smaller
  <2>3. Rest(batch) \in Batches /\ Smaller(Rest(batch), a)
    BY <2>2, RestOf
  <2>4. drain' = [drain EXCEPT ![d] = taking] \/ drain' = [drain EXCEPT ![d] = Rest(batch)]
    BY <1>1, <2>1
  <2>5. ASSUME drain' = [drain EXCEPT ![d] = taking] PROVE Knows(drain[d])'
    <3>1. PICK b : b = taking
      OBVIOUS
    <3>2. /\ b.found \subseteq a.found /\ b.at = "claiming"
          /\ b.claimed = a.claimed \cup {[key |-> x.key, tries |-> x.row.tries]}
      BY <2>2, <3>1 DEF Batches
    <3>3. x.row.tries < MaxAttempts /\ row'[x.key] # Absent
      BY <1>2, <2>1 DEF Knows
    <3>4. Knows(b)'
      BY <1>2, <3>2, <3>3 DEF Knows
    <3> QED
      BY <2>5, <3>1, <3>4 DEF TypeInv
  <2> QED
    BY <1>3, <2>1, <2>3, <2>4, <2>5 DEF TypeInv
<1>6. CASE Deliver(d)
  <2>1. PICK x \in a.claimed : Deliver(d)!(x)
    BY <1>1, <1>6 DEF Deliver
  <2>2. PICK b : b = drain'[d]
    OBVIOUS
  <2>3. /\ b.found = a.found /\ b.claimed = a.claimed /\ b.now = x
        /\ b.at = "failing" \/ (b.at = "sent" /\ x.key \in taken')
        /\ \A f \in Drains : f # d => drain'[f] = drain[f]
    <3>1. \A f \in Drains : f # d => drain'[f] = drain[f]
      BY <2>1 DEF TypeInv
    <3>2. CASE Append(x.key) /\ drain' = [drain EXCEPT ![d].at = "sent", ![d].now = x]
      <4>1. b = [a EXCEPT !.at = "sent", !.now = x]
        BY <1>1, <2>2, <3>2 DEF TypeInv
      <4>2. x.key \in taken'
        BY <3>2 DEF Append, Take
      <4> QED
        BY <3>1, <4>1, <4>2 DEF Batches
    <3>3. CASE \E dead \in BOOLEAN :
                  drain' = [drain EXCEPT ![d].at = "failing", ![d].now = x,
                                         ![d].dead = dead]
      <4>1. PICK dead \in BOOLEAN :
               drain' = [drain EXCEPT ![d].at = "failing", ![d].now = x,
                                      ![d].dead = dead]
        BY <3>3
      <4>2. b = [a EXCEPT !.at = "failing", !.now = x, !.dead = dead]
        BY <1>1, <2>2, <4>1 DEF TypeInv
      <4>3. b.found = a.found /\ b.claimed = a.claimed
        BY <4>2 DEF Batches
      <4>4. b.now = x /\ b.at = "failing"
        BY <4>2 DEF Batches
      <4> QED
        BY <3>1, <4>3, <4>4
    <3>4. \/ Append(x.key) /\ drain' = [drain EXCEPT ![d].at = "sent", ![d].now = x]
          \/ \E dead \in BOOLEAN :
                drain' = [drain EXCEPT ![d].at = "failing", ![d].now = x,
                                       ![d].dead = dead]
      BY <2>1, Zenon
    <3> QED
      BY <3>2, <3>3, <3>4
  <2>4. Knows(b)'
    BY <1>2, <2>1, <2>3 DEF Knows
  <2> QED
    BY <2>2, <2>3, <2>4
<1>7. CASE MarkDelivered(d)
  <2>1. CASE drain' = [drain EXCEPT ![d] = Done(d)]
    BY <1>1, <1>3, <2>1, DoneIs DEF TypeInv
  <2>2. CASE drain' = [drain EXCEPT ![d].at = "failing"]
    <3>1. PICK b : b = drain'[d]
      OBVIOUS
    <3>2. b.found = a.found /\ b.claimed = a.claimed /\ b.now = a.now /\ b.at = "failing"
      BY <1>1, <2>2, <3>1 DEF TypeInv, Batches
    <3>3. a.now \in a.claimed
      BY <1>1, <1>2, <1>7 DEF Knows, MarkDelivered
    <3>4. Knows(b)'
      BY <1>2, <3>2, <3>3 DEF Knows
    <3> QED
      BY <2>2, <3>1, <3>4 DEF TypeInv
  <2> QED
    BY <1>7, <2>1, <2>2 DEF MarkDelivered
<1>8. CASE MarkFailed(d)
  BY <1>1, <1>3, <1>8, DoneIs DEF MarkFailed, TypeInv
<1>9. CASE Crash(d)
  <2>1. Idle \in Batches /\ Smaller(Idle, a)
    BY DEF Idle, Batches, Smaller
  <2> QED
    BY <1>3, <1>9, <2>1 DEF Crash, TypeInv
<1> QED
  BY <1>4, <1>5, <1>6, <1>7, <1>8, <1>9

LEMMA DrainInvStep ==
    ASSUME TypeInv, DrainInv, [Next]_vars
    PROVE  DrainInv'
<1>1. /\ \A k \in Keys : row[k] # Absent => row'[k] # Absent
      /\ taken \subseteq taken'
  BY RowsStay
<1>2. ASSUME NEW d \in Drains, drain'[d] = drain[d] PROVE Knows(drain[d])'
  <2>1. PICK a \in Batches : a = drain[d]
    BY DEF TypeInv
  <2>2. Knows(a)'
    BY <1>1, <2>1, KnowsStays DEF DrainInv
  <2> QED
    BY <1>2, <2>1, <2>2
<1>3. ASSUME replay' = replay, replay # None PROVE row'[replay'] # Absent
  BY <1>1, <1>3 DEF DrainInv, TypeInv, TypeOK
<1>4. CASE UNCHANGED vars
  BY <1>2, <1>3, <1>4 DEF vars, DrainInv
<1>8. CASE (\E k \in Keys : Apply(k)) \/ \E c \in Conversations : EraseLate(c)
  BY <1>2, <1>3, <1>8 DEF Apply, EraseLate, DrainInv
<1>5. CASE (\E c \in Conversations : Retain(c)) \/ \E e \in Editors : EditStep(e)
  <2>1. /\ row' = row \/ \E k \in Keys : row' = [row EXCEPT ![k] = Queued]
        /\ UNCHANGED <<drain, replay>>
    BY <1>5, PeopleEffect
  <2>2. \A l \in Keys : Open(row'[l]) => row'[l].tries < MaxAttempts
    <3>1. Queued.tries = 0
      BY DEF Queued
    <3> QED
      BY <2>1, <3>1, OutboxAssumption DEF DrainInv, TypeInv, TypeOK
  <2> QED
    BY <1>2, <1>3, <2>1, <2>2 DEF DrainInv
<1>6. CASE (\E k \in Keys : Arrive(k) \/ ComesDue(k) \/ FindReplay(k)) \/ Replay
  BY <1>2, <1>6, OtherEffect DEF DrainInv
<1>7. CASE \E d \in Drains : DrainStep(d) \/ Crash(d)
  <2>1. PICK d \in Drains : \/ Find(d) \/ Claim(d) \/ Deliver(d) \/ MarkDelivered(d)
                            \/ MarkFailed(d) \/ Crash(d)
    BY <1>7 DEF DrainStep
  <2>2. \A f \in Drains : Knows(drain[f])'
    BY <1>1, <1>2, <2>1, BatchKnows
  <2> QED
    BY <1>3, <2>1, <2>2, OutboxEffect DEF DrainInv
<1> QED
  BY <1>4, <1>5, <1>6, <1>7, <1>8 DEF Next

-----------------------------------------------------------------------------
(* Requests and the keys they hold. *)

LEMMA StepKinds ==
    ASSUME TypeInv, DrainInv, [Next]_vars
    PROVE  \/ Quiet
           \/ \E k \in Keys : Sends(k)
           \/ \E k \in Keys : Apply(k)
           \/ \E c \in Conversations : Retain(c) \/ EraseLate(c)
           \/ \E e \in Editors : EditStep(e)
<1>1. CASE UNCHANGED vars
  BY <1>1 DEF vars, Quiet
<1>2. CASE \E d \in Drains : DrainStep(d) \/ Crash(d)
  BY <1>2, OutboxEffect DEF DrainStep
<1>3. CASE (\E k \in Keys : Arrive(k) \/ ComesDue(k) \/ FindReplay(k)) \/ Replay
  BY <1>3, OtherEffect
<1> QED
  BY <1>1, <1>2, <1>3 DEF Next

LEMMA EditKinds ==
    ASSUME NEW e \in Editors, EditStep(e)
    PROVE  \/ \E c \in Conversations, op \in Ops : Begin(e, c, op)
           \/ Erase(e) \/ NothingErased(e) \/ AppendEdit(e) \/ QueueEdit(e)
BY DEF EditStep, Ops

LEMMA HoldsStays ==
    ASSUME TypeInv, TypeInv', NEW e \in Editors, Active(e), Holds(e),
           editor'[e] = editor[e],
           row'[editor[e].key] = Absent,
           text'[editor[e].key] = text[editor[e].key],
           edits'[EditedBy(e)] >= edits[EditedBy(e)],
           editor[e].at # "queueing" => editor[e].key \notin taken' \cup flying'
    PROVE  Active(e)' /\ Holds(e)'
<1>1. EditedBy(e) \in Conversations
  BY ActiveRequest
<1>2. edits[EditedBy(e)] \in Nat /\ edits'[EditedBy(e)] \in Nat
  BY <1>1 DEF TypeInv, TypeOK
<1>3. editor[e].key[2] \in 1 .. edits'[EditedBy(e)]
  BY <1>2 DEF Holds, EditedBy
<1> QED
  BY <1>3 DEF Active, Holds, EditedBy

LEMMA HoldsSending ==
    ASSUME TypeInv, EditorInv, NEW e \in Editors, Active(e),
           NEW k \in Keys, Sent(k), k # editor[e].key
    PROVE  editor[e].at # "queueing" => editor[e].key \notin taken' \cup flying'
BY SentEffect DEF EditorInv, Holds

(* The key that a new edit gets is in nobody's use.                        *)
LEMMA NewKey ==
    ASSUME TypeInv, EditorInv, KeyInv, NEW e \in Editors,
           NEW c \in Conversations, NEW op \in Ops, Begin(e, c, op)
    PROVE  /\ <<c, edits[c] + 1>> \in Keys /\ ~Used(<<c, edits[c] + 1>>)
           /\ \A f \in Editors : Active(f) => editor[f].key # <<c, edits[c] + 1>>
<1> DEFINE k == <<c, edits[c] + 1>>
<1>1. k \in Keys /\ edits[c] \in Nat /\ k[1] = c /\ k[2] = edits[c] + 1
  BY BeginTypes DEF TypeInv, TypeOK
<1>2. ~Used(k)
  BY <1>1 DEF KeyInv
<1>3. ASSUME NEW f \in Editors, Active(f), editor[f].key = k PROVE FALSE
  BY <1>1, <1>3 DEF EditorInv, Holds
<1> QED
  BY <1>1, <1>2, <1>3

LEMMA EditorStep ==
    ASSUME TypeInv, TypeInv', DrainInv, EditorInv, KeyInv, [Next]_vars
    PROVE  EditorInv'
<1>1. ASSUME UNCHANGED <<editor, edits, text>>,
             \A e \in Editors : Active(e) =>
                /\ row'[editor[e].key] = Absent
                /\ editor[e].at # "queueing" => editor[e].key \notin taken' \cup flying'
      PROVE  EditorInv'
  <2>1. ASSUME NEW e \in Editors, Active(e) PROVE Holds(e)'
    <3>1. EditedBy(e) \in Conversations /\ Holds(e)
      BY <2>1, ActiveRequest DEF EditorInv
    <3>2. edits'[EditedBy(e)] >= edits[EditedBy(e)]
      BY <1>1, <3>1 DEF TypeInv, TypeOK
    <3> QED
      BY <1>1, <2>1, <3>1, <3>2, HoldsStays
  <2> QED
    BY <1>1, <2>1 DEF EditorInv, Active
<1>2. CASE Quiet
  <2>1. ASSUME NEW e \in Editors, Active(e)
        PROVE  /\ row'[editor[e].key] = Absent
               /\ editor[e].at # "queueing" => editor[e].key \notin taken' \cup flying'
    BY <1>2, <2>1, ActiveRequest DEF Quiet, EditorInv, Holds, provider
  <2> QED
    BY <1>1, <1>2, <2>1 DEF Quiet
<1>11. CASE (\E k \in Keys : Apply(k)) \/ \E c \in Conversations : EraseLate(c)
  BY <1>1, <1>11 DEF Apply, EraseLate, EditorInv, Holds
<1>3. ASSUME NEW k \in Keys, Sends(k) PROVE EditorInv'
  <2>1. ASSUME NEW e \in Editors, Active(e)
        PROVE  /\ row'[editor[e].key] = Absent
               /\ editor[e].at # "queueing" => editor[e].key \notin taken' \cup flying'
    <3>1. Holds(e) /\ editor[e].key \in Keys
      BY <2>1, ActiveRequest DEF EditorInv
    <3>2. CASE k # editor[e].key
      BY <1>3, <2>1, <3>1, <3>2, HoldsSending DEF Sends, Holds
    <3>3. CASE k = editor[e].key
      BY <1>3, <3>1, <3>3 DEF Sends, Holds
    <3> QED
      BY <3>2, <3>3
  <2> QED
    BY <1>1, <1>3, <2>1 DEF Sends
<1>4. ASSUME NEW c \in Conversations, Retain(c) PROVE EditorInv'
  <2>1. ASSUME NEW e \in Editors, Active(e)
        PROVE  /\ row'[editor[e].key] = Absent
               /\ editor[e].at # "queueing" => editor[e].key \notin taken' \cup flying'
    <3>1. Holds(e) /\ editor[e].key \in Keys
      BY <2>1, ActiveRequest DEF EditorInv
    <3>2. editor[e].key # Original(c)
      BY <3>1, OriginalKey DEF Holds
    <3> QED
      BY <1>4, <3>1, <3>2 DEF Retain, Holds, provider, TypeInv, TypeOK
  <2> QED
    BY <1>1, <1>4, <2>1 DEF Retain
<1>5. ASSUME NEW e \in Editors, NEW c \in Conversations, NEW op \in Ops,
             Begin(e, c, op)
      PROVE  EditorInv'
  <2> DEFINE k == <<c, edits[c] + 1>>
  <2>1. /\ k \in Keys /\ ~Used(k) /\ k[1] = c /\ k[2] = edits[c] + 1
        /\ \A f \in Editors : Active(f) => editor[f].key # k
    BY <1>5, NewKey
  <2>2. /\ editor'[e].at = IF op = "reextract" THEN "appending" ELSE "erasing"
        /\ editor'[e].op = op /\ editor'[e].key = k
        /\ \A f \in Editors : f # e => editor'[f] = editor[f]
        /\ ~Active(e) /\ Active(e)'
    BY <1>5 DEF Begin, TypeInv, Active, AtRest
  <2>3. /\ edits'[c] = edits[c] + 1 /\ edits[c] \in Nat
        /\ \A b \in Conversations : b # c => edits'[b] = edits[b]
    BY <1>5 DEF Begin, TypeInv, TypeOK
  <2>4. /\ op = "redact" => k \in text'[k]
        /\ \A l \in Keys : l # k => text'[l] = text[l]
    BY <1>5, <2>1 DEF Begin, TypeInv, TypeOK
  <2>5. UNCHANGED <<row, taken, flying>>
    BY <1>5 DEF Begin, provider
  <2>6. Holds(e)'
    BY <2>1, <2>2, <2>3, <2>4, <2>5 DEF Holds, Used, Ops
  <2>7. ASSUME NEW f \in Editors, f # e, Active(f) PROVE Active(f)' /\ Holds(f)'
    <3>1. EditedBy(f) \in Conversations /\ Holds(f) /\ editor[f].key \in Keys
      BY <2>7, ActiveRequest DEF EditorInv
    <3>2. edits'[EditedBy(f)] >= edits[EditedBy(f)]
      BY <2>3, <3>1 DEF TypeInv, TypeOK
    <3>3. text'[editor[f].key] = text[editor[f].key] /\ editor'[f] = editor[f]
      BY <2>1, <2>2, <2>4, <2>7, <3>1
    <3>4. row'[editor[f].key] = Absent
      BY <2>5, <3>1 DEF Holds
    <3>5. editor[f].at # "queueing" => editor[f].key \notin taken' \cup flying'
      BY <2>5, <3>1 DEF Holds
    <3> QED
      BY <2>7, <3>1, <3>2, <3>3, <3>4, <3>5, HoldsStays
  <2>8. \A f \in Editors : f # e => Active(f)' = Active(f)
    BY <2>2 DEF Active
  <2>9. \A f \in Editors : Active(f)' => Holds(f)'
    BY <2>6, <2>7, <2>8
  <2>10. ASSUME NEW f \in Editors, NEW g \in Editors, Active(f)', Active(g)',
                editor'[f].key = editor'[g].key
         PROVE  f = g
    BY <2>1, <2>2, <2>8, <2>10 DEF EditorInv
  <2> QED
    BY <2>9, <2>10 DEF EditorInv
<1>6. ASSUME NEW e \in Editors, Active(e), UNCHANGED <<text, edits>>,
             \A f \in Editors : f # e => editor'[f] = editor[f],
             Active(e)' => Holds(e)' /\ editor'[e].key = editor[e].key,
             \A k \in Keys : k # editor[e].key =>
                /\ row'[k] = row[k]
                /\ k \in taken' \cup flying' => k \in taken \cup flying
      PROVE  EditorInv'
  <2>1. ASSUME NEW f \in Editors, f # e, Active(f) PROVE Active(f)' /\ Holds(f)'
    <3>1. EditedBy(f) \in Conversations /\ Holds(f) /\ editor[f].key \in Keys
      BY <2>1, ActiveRequest DEF EditorInv
    <3>2. edits'[EditedBy(f)] >= edits[EditedBy(f)]
      BY <1>6, <3>1 DEF TypeInv, TypeOK
    <3>3. editor[f].key # editor[e].key
      BY <1>6, <2>1 DEF EditorInv
    <3>4. row'[editor[f].key] = Absent
      BY <1>6, <3>1, <3>3 DEF Holds
    <3>5. editor[f].at # "queueing" => editor[f].key \notin taken' \cup flying'
      BY <1>6, <3>1, <3>3 DEF Holds
    <3> QED
      BY <1>6, <2>1, <3>1, <3>2, <3>4, <3>5, HoldsStays
  <2>2. \A f \in Editors : f # e => Active(f)' = Active(f)
    BY <1>6 DEF Active
  <2>3. \A f \in Editors : Active(f)' => Holds(f)'
    BY <1>6, <2>1, <2>2
  <2>4. ASSUME NEW f \in Editors, NEW g \in Editors, Active(f)', Active(g)',
               editor'[f].key = editor'[g].key
        PROVE  f = g
    BY <1>6, <2>2, <2>4 DEF EditorInv
  <2> QED
    BY <2>3, <2>4 DEF EditorInv
<1>7. ASSUME NEW e \in Editors, NEW success, Active(e), EndEdit(e, success),
             UNCHANGED <<text, edits>>,
             \A k \in Keys : k # editor[e].key =>
                /\ row'[k] = row[k]
                /\ k \in taken' \cup flying' => k \in taken \cup flying
      PROVE  EditorInv'
  <2>1. editor' = [editor EXCEPT ![e] = AtRest]
    BY <1>7 DEF EndEdit
  <2>2. ~Active(e)' /\ \A f \in Editors : f # e => editor'[f] = editor[f]
    BY <2>1 DEF Active, AtRest, TypeInv
  <2> QED
    BY <1>6, <1>7, <2>2
<1>8. ASSUME NEW e \in Editors, Erase(e) \/ NothingErased(e) PROVE EditorInv'
  <2>1. /\ Active(e) /\ Holds(e) /\ editor[e] \in Requests
        /\ editor[e].at = "erasing"
    BY <1>8, ActiveRequest DEF Active, Erase, NothingErased, EditorInv
  <2>2. UNCHANGED <<row, taken, flying, text, edits>>
    BY <1>8 DEF Erase, NothingErased, provider
  <2>3. CASE editor' = [editor EXCEPT ![e] = AtRest]
    <3>1. ~Active(e)' /\ \A f \in Editors : f # e => editor'[f] = editor[f]
      BY <2>3 DEF Active, AtRest, TypeInv
    <3> QED
      BY <1>6, <2>1, <2>2, <3>1
  <2>4. CASE editor[e].op = "redact" /\ editor' = [editor EXCEPT ![e].at = "appending"]
    <3>1. editor'[e] = [editor[e] EXCEPT !.at = "appending"]
          /\ \A f \in Editors : f # e => editor'[f] = editor[f]
      BY <2>4 DEF TypeInv
    <3>2. editor'[e].at = "appending" /\ editor'[e].key = editor[e].key
          /\ editor'[e].op = editor[e].op
      BY <2>1, <3>1 DEF Requests
    <3>3. Holds(e)'
      BY <2>1, <2>2, <2>4, <3>2 DEF Holds
    <3> QED
      BY <1>6, <2>1, <2>2, <3>1, <3>2, <3>3
  <2> QED
    BY <1>8, <2>3, <2>4 DEF Erase, NothingErased, EndEdit
<1>9. ASSUME NEW e \in Editors, AppendEdit(e) PROVE EditorInv'
  <2>1. /\ Active(e) /\ Holds(e) /\ editor[e] \in Requests /\ editor[e].key \in Keys
        /\ editor[e].at = "appending"
    BY <1>9, ActiveRequest DEF Active, AppendEdit, EditorInv
  <2>2. Sent(editor[e].key) /\ UNCHANGED <<row, text, edits>>
    BY <1>9, SentIs DEF AppendEdit
  <2>3. \A k \in Keys : k # editor[e].key =>
           /\ row'[k] = row[k]
           /\ k \in taken' \cup flying' => k \in taken \cup flying
    BY <2>1, <2>2, SentEffect
  <2>4. CASE \E success : EndEdit(e, success)
    BY <1>7, <2>1, <2>2, <2>3, <2>4
  <2>5. CASE editor[e].op = "redact" /\ editor' = [editor EXCEPT ![e].at = "queueing"]
    <3>1. editor'[e] = [editor[e] EXCEPT !.at = "queueing"]
          /\ \A f \in Editors : f # e => editor'[f] = editor[f]
      BY <2>5 DEF TypeInv
    <3>2. editor'[e].at = "queueing" /\ editor'[e].key = editor[e].key
          /\ editor'[e].op = editor[e].op
      BY <2>1, <3>1 DEF Requests
    <3>3. Holds(e)'
      BY <2>1, <2>2, <2>5, <3>2 DEF Holds
    <3> QED
      BY <1>6, <2>1, <2>2, <2>3, <3>1, <3>2, <3>3
  <2> QED
    BY <1>9, <2>4, <2>5 DEF AppendEdit
<1>10. ASSUME NEW e \in Editors, QueueEdit(e) PROVE EditorInv'
  <2>1. Active(e) /\ editor[e].key \in Keys
    BY <1>10, ActiveRequest DEF Active, QueueEdit
  <2>2. \A k \in Keys : k # editor[e].key =>
           /\ row'[k] = row[k]
           /\ k \in taken' \cup flying' => k \in taken \cup flying
    BY <1>10, <2>1 DEF QueueEdit, Enqueued, provider, TypeInv, TypeOK
  <2> QED
    BY <1>7, <1>10, <2>1, <2>2 DEF QueueEdit
<1> QED
  BY <1>2, <1>3, <1>4, <1>5, <1>8, <1>9, <1>10, <1>11, StepKinds, EditKinds

-----------------------------------------------------------------------------
(* Keys. *)

(* A step that uses one more key at most, one that was given out.          *)
LEMMA KeysStay ==
    ASSUME TypeInv, TypeInv', KeyInv, NEW k \in Keys, k[2] <= edits[k[1]],
           \A c \in Conversations : edits'[c] >= edits[c],
           \A l \in Keys : Used(l)' => Used(l) \/ l = k,
           answered' \subseteq answered \cup {k}
    PROVE  /\ \A l \in Keys : Used(l)' => l[2] <= edits'[l[1]]
           /\ \A l \in answered' : l[2] <= edits'[l[1]]
<1>1. \A l \in Keys : l[2] <= edits[l[1]] => l[2] <= edits'[l[1]]
  BY KeyParts DEF TypeInv, TypeOK
<1> QED
  BY <1>1 DEF KeyInv, TypeInv, TypeOK

LEMMA CountedStays ==
    ASSUME TypeInv, TypeInv', NEW c \in Conversations, Counted(c),
           edits'[c] = edits[c],
           row[Original(c)] # Absent => row'[Original(c)] # Absent,
           Original(c) \in taken' \cup flying' =>
              Original(c) \in taken \cup flying \/ row'[Original(c)] # Absent,
           taken \subseteq taken', queued' \cap taken \subseteq queued,
           shown'[c] \in {shown[c], None},
           c \in erased' => c \in erased \/ edits[c] > 0
    PROVE  Counted(c)'
BY DEF Counted, TypeInv, TypeOK, Original

LEMMA KeyStep ==
    ASSUME TypeInv, TypeInv', DrainInv, EditorInv, KeyInv, [Next]_vars
    PROVE  KeyInv'
<1>1. /\ \A k \in Keys : row[k] # Absent => row'[k] # Absent
      /\ taken \subseteq taken'
  BY RowsStay
<1>2. \A c \in Conversations : Original(c) \in Keys
  BY OriginalKey
<1>13. /\ queued \subseteq taken /\ late \subseteq broken
       /\ \A c \in Conversations : Counted(c)
  BY DEF KeyInv
<1>14. ASSUME queued' \subseteq taken', late' \subseteq broken',
              \A k \in Keys : Used(k)' => k[2] <= edits'[k[1]],
              \A k \in answered' : k[2] <= edits'[k[1]],
              \A c \in Conversations : Counted(c)'
       PROVE  KeyInv'
  BY <1>14 DEF KeyInv
<1>3. CASE Quiet
  <2>1. \A k \in Keys : Used(k)' = Used(k)
    BY <1>3 DEF Quiet, Used, provider
  <2>2. \A c \in Conversations : Counted(c)' = Counted(c)
    BY <1>2, <1>3 DEF Quiet, Counted, provider, history, Original
  <2>3. UNCHANGED <<taken, queued, late, broken, edits, answered>>
    BY <1>3 DEF Quiet, provider, history
  <2> QED
    BY <2>1, <2>2, <2>3 DEF KeyInv
<1>15. ASSUME NEW k \in Keys, Apply(k) PROVE KeyInv'
  <2>1. /\ k \in queued /\ queued' = queued \ {k} /\ k[1] \in Conversations
        /\ shown'[k[1]] = k
        /\ \A c \in Conversations : c # k[1] => shown'[c] = shown[c]
    BY <1>15, KeyParts DEF Apply, TypeInv, TypeOK
  <2>2. UNCHANGED <<row, taken, flying, late, broken, edits, answered, erased>>
    BY <1>15 DEF Apply, history
  <2>3. Original(k[1]) \in taken \ queued'
    <3>1. k[2] = 0 => k = Original(k[1])
      BY <2>1, OriginalKey
    <3>2. edits[k[1]] = 0 => k[2] = 0
      BY <1>13, <2>1, KeyParts DEF KeyInv, Used
    <3>3. edits[k[1]] > 0 => Original(k[1]) \in taken \ queued
      BY <1>13, <2>1 DEF Counted
    <3>4. edits[k[1]] \in Nat
      BY <2>1 DEF TypeInv, TypeOK
    <3> QED
      BY <1>13, <2>1, <3>1, <3>2, <3>3, <3>4
  <2>4. ASSUME NEW c \in Conversations PROVE Counted(c)'
    <3>1. CASE c = k[1]
      BY <1>13, <2>1, <2>2, <2>3, <3>1 DEF Counted, Original
    <3>2. CASE c # k[1]
      BY <1>1, <1>2, <1>13, <2>1, <2>2, <3>2, CountedStays
    <3> QED
      BY <3>1, <3>2
  <2> QED
    BY <1>13, <1>14, <2>1, <2>2, <2>4 DEF KeyInv, Used
<1>16. ASSUME NEW c \in Conversations, EraseLate(c) PROVE KeyInv'
  <2>1. UNCHANGED <<row, taken, queued, flying, broken, edits, answered, erased>>
    BY <1>16 DEF EraseLate, history
  <2>2. \A b \in Conversations : shown'[b] \in {shown[b], None}
    BY <1>16 DEF EraseLate, TypeInv, TypeOK
  <2>3. ASSUME NEW b \in Conversations PROVE Counted(b)'
    BY <1>2, <1>13, <2>1, <2>2, CountedStays
  <2>4. late' \subseteq broken'
    BY <1>13, <1>16, <2>1 DEF EraseLate
  <2> QED
    BY <1>13, <1>14, <2>1, <2>3, <2>4 DEF KeyInv, Used
<1>4. ASSUME NEW k \in Keys, Used(k), Sent(k),
             UNCHANGED <<row, edits>>,
             Original(k[1]) = k => row[k] # Absent,
             answered' \subseteq answered \cup {k}, UNCHANGED <<broken, erased>>
      PROVE  KeyInv'
  <2>1. k[2] <= edits[k[1]]
    BY <1>4 DEF KeyInv
  <2>2. \A l \in Keys : Used(l)' => Used(l) \/ l = k
    BY <1>4, SentEffect DEF Used
  <2>3. \A c \in Conversations : edits'[c] >= edits[c]
    BY <1>4 DEF TypeInv, TypeOK
  <2>4. ASSUME NEW c \in Conversations PROVE Counted(c)'
    <3>1. Original(c) \in taken' \cup flying' =>
             Original(c) \in taken \cup flying \/ row'[Original(c)] # Absent
      BY <1>4, SentEffect, OriginalKey
    <3>2. shown'[c] = shown[c] /\ queued' \cap taken \subseteq queued
      BY <1>4, SentEffect
    <3> QED
      BY <1>1, <1>2, <1>4, <1>13, <3>1, <3>2, CountedStays
  <2>5. queued' \subseteq taken' /\ late' = late
    BY <1>4, <1>13, SentEffect
  <2> QED
    BY <1>4, <1>13, <1>14, <2>1, <2>2, <2>3, <2>4, <2>5, KeysStay
<1>5. ASSUME NEW k \in Keys, Sends(k) PROVE KeyInv'
  <2>1. Original(k[1]) = k => row[k] # Absent
    BY <1>5, KeyParts DEF Sends, KeyInv, Counted
  <2> QED
    BY <1>4, <1>5, <2>1 DEF Sends, Used, history
<1>6. ASSUME NEW c \in Conversations, Retain(c) PROVE KeyInv'
  <2> DEFINE k == Original(c)
  <2>1. k \in Keys /\ k[2] <= edits[k[1]]
    BY OriginalKey DEF TypeInv, TypeOK
  <2>2. \A l \in Keys : Used(l)' => Used(l) \/ l = k
    BY <1>6 DEF Retain, Used, provider, TypeInv, TypeOK
  <2>3. \A b \in Conversations : edits'[b] >= edits[b]
    BY <1>6 DEF Retain, TypeInv, TypeOK
  <2>4. \A b \in Conversations : Counted(b)'
    BY <1>1, <1>2, <1>6, CountedStays DEF Retain, KeyInv, provider, history
  <2>5. UNCHANGED <<taken, queued, late, broken, answered>>
    BY <1>6 DEF Retain, provider, history
  <2> QED
    BY <1>13, <1>14, <2>1, <2>2, <2>3, <2>4, <2>5, KeysStay
<1>7. ASSUME NEW e \in Editors, NEW c \in Conversations, NEW op \in Ops,
             Begin(e, c, op)
      PROVE  KeyInv'
  <2>1. /\ edits[c] \in Nat /\ edits'[c] = edits[c] + 1
        /\ \A b \in Conversations : b # c => edits'[b] = edits[b]
    BY <1>7 DEF Begin, TypeInv, TypeOK
  <2>2. UNCHANGED <<row, taken, queued, flying, late, shown, answered, erased, broken>>
    BY <1>7 DEF Begin, provider
  <2>3. Original(c) \in taken \ queued
    BY <1>7, <1>13 DEF Begin, Counted
  <2>4. ASSUME NEW b \in Conversations PROVE Counted(b)'
    <3>1. Counted(b)
      BY DEF KeyInv
    <3> QED
      BY <2>1, <2>2, <2>3, <3>1 DEF Counted, Original
  <2>5. PICK k \in Keys : k = Original(c) /\ k[2] <= edits[k[1]]
    BY OriginalKey DEF TypeInv, TypeOK
  <2>6. \A b \in Conversations : edits'[b] >= edits[b]
    BY <2>1 DEF TypeInv, TypeOK
  <2>7. \A l \in Keys : Used(l)' => Used(l) \/ l = k
    BY <2>2 DEF Used
  <2> QED
    BY <1>13, <1>14, <2>2, <2>4, <2>5, <2>6, <2>7, KeysStay
<1>8. ASSUME NEW e \in Editors, Active(e)
      PROVE  /\ editor[e].key \in Keys /\ EditedBy(e) \in Conversations
             /\ editor[e].key[2] <= edits[EditedBy(e)] /\ edits[EditedBy(e)] > 0
             /\ editor[e].key[1] = EditedBy(e)
             /\ \A c \in Conversations : editor[e].key # Original(c)
  <2>1. editor[e].key \in Keys /\ EditedBy(e) \in Conversations
        /\ editor[e].key[1] = EditedBy(e)
        /\ editor[e].key[2] \in 1 .. edits[EditedBy(e)]
    BY <1>8, ActiveRequest DEF EditorInv, Holds, EditedBy
  <2>2. edits[EditedBy(e)] \in Nat
    BY <2>1 DEF TypeInv, TypeOK
  <2> QED
    BY <2>1, <2>2, OriginalKey
<1>9. ASSUME NEW e \in Editors, Active(e), UNCHANGED <<taken, queued, flying, edits>>,
             late' \subseteq broken',
             \A k \in Keys : k # editor[e].key => row'[k] = row[k],
             answered' \subseteq answered \cup {editor[e].key},
             \A c \in Conversations : shown'[c] \in {shown[c], None},
             erased' \subseteq erased \cup {EditedBy(e)}
      PROVE  KeyInv'
  <2>1. \A l \in Keys : Used(l)' => Used(l) \/ l = editor[e].key
    BY <1>9 DEF Used
  <2>2. \A c \in Conversations : edits'[c] >= edits[c]
    BY <1>9 DEF TypeInv, TypeOK
  <2>3. PICK k \in Keys : k = editor[e].key /\ k[2] <= edits[k[1]]
    BY <1>8, <1>9
  <2>4. ASSUME NEW c \in Conversations PROVE Counted(c)'
    <3>1. c \in erased' => c \in erased \/ edits[c] > 0
      BY <1>8, <1>9
    <3> QED
      BY <1>1, <1>2, <1>9, <1>13, <3>1, CountedStays
  <2> QED
    BY <1>9, <1>13, <1>14, <2>1, <2>2, <2>3, <2>4, KeysStay
<1>10. ASSUME NEW e \in Editors, Erase(e) \/ NothingErased(e) PROVE KeyInv'
  <2>1. Active(e)
    BY <1>10 DEF Active, Erase, NothingErased
  <2>2. \A c \in Conversations : shown'[c] \in {shown[c], None}
    BY <1>10 DEF Erase, NothingErased, provider, TypeInv, TypeOK
  <2>3. answered' \subseteq answered \cup {editor[e].key}
    BY <1>10 DEF Erase, NothingErased, EndEdit, history
  <2>4. UNCHANGED <<row, taken, queued, flying, edits>>
    BY <1>10 DEF Erase, NothingErased
  <2>5. erased' \subseteq erased \cup {EditedBy(e)}
    BY <1>10 DEF Erase, NothingErased
  <2>6. late' \subseteq broken'
    BY <1>10, <1>13 DEF Erase, EndEdit, NothingErased
  <2> QED
    BY <1>9, <2>1, <2>2, <2>3, <2>4, <2>5, <2>6
<1>11. ASSUME NEW e \in Editors, AppendEdit(e) PROVE KeyInv'
  <2>1. Active(e)
    BY <1>11 DEF Active, AppendEdit
  <2>2. PICK k \in Keys : k = editor[e].key
    BY <1>8, <2>1
  <2>3. Sent(k) /\ UNCHANGED <<row, edits, erased>>
    BY <1>11, <2>2, SentIs DEF AppendEdit
  <2>4. answered' \subseteq answered \cup {k}
    BY <1>11, <2>2 DEF AppendEdit, EndEdit
  <2>5. k[2] <= edits[k[1]] /\ \A c \in Conversations : k # Original(c)
    BY <1>8, <2>1, <2>2
  <2>6. \A l \in Keys : Used(l)' => Used(l) \/ l = k
    BY <2>3, SentEffect DEF Used
  <2>7. \A c \in Conversations : edits'[c] >= edits[c]
    BY <2>3 DEF TypeInv, TypeOK
  <2>8. ASSUME NEW c \in Conversations PROVE Counted(c)'
    <3>1. Original(c) \in taken' \cup flying' => Original(c) \in taken \cup flying
      BY <2>3, <2>5, SentEffect
    <3>2. shown'[c] = shown[c] /\ queued' \cap taken \subseteq queued
      BY <2>3, SentEffect
    <3> QED
      BY <1>1, <1>2, <1>13, <2>3, <3>1, <3>2, CountedStays
  <2>9. queued' \subseteq taken' /\ late' \subseteq broken'
    BY <1>11, <1>13, <2>3, SentEffect DEF AppendEdit, EndEdit
  <2> QED
    BY <1>14, <2>4, <2>5, <2>6, <2>7, <2>8, <2>9, KeysStay
<1>12. ASSUME NEW e \in Editors, QueueEdit(e) PROVE KeyInv'
  <2>1. Active(e) /\ editor[e].key \in Keys
    BY <1>8, <1>12 DEF Active, QueueEdit
  <2>2. \A k \in Keys : k # editor[e].key => row'[k] = row[k]
    BY <1>12, <2>1 DEF QueueEdit, Enqueued, TypeInv, TypeOK
  <2>3. answered' \subseteq answered \cup {editor[e].key}
    BY <1>12 DEF QueueEdit, EndEdit
  <2>4. UNCHANGED <<taken, queued, flying, late, shown, edits, erased>>
    BY <1>12 DEF QueueEdit, provider
  <2>5. late' \subseteq broken'
    BY <1>12, <1>13, <2>4 DEF QueueEdit, EndEdit
  <2> QED
    BY <1>9, <2>1, <2>2, <2>3, <2>4, <2>5
<1> QED
  BY <1>3, <1>5, <1>6, <1>7, <1>10, <1>11, <1>12, <1>15, <1>16, StepKinds, EditKinds

-----------------------------------------------------------------------------
(* What was removed stays removed. *)

(* The requests that edit c after a step edited it before, under their key. *)
Continue(c) ==
    \A e \in Editors : Active(e)' /\ editor'[e].key[1] = c =>
       /\ Active(e)
       /\ editor'[e].key = editor[e].key /\ editor'[e].op = editor[e].op

(* Nothing new is live, and what is now answered is in every text that may  *)
(* be shown.                                                               *)
LEMMA SoundStays ==
    ASSUME TypeInv, TypeInv', NEW c \in Conversations, Sound(c), Continue(c),
           edits'[c] = edits[c],
           \/ shown'[c] = None
           \/ /\ shown'[c] = shown[c]
              /\ \A e \in Editors : Active(e) /\ Active(e)' =>
                    editor'[e].at = "erasing" \/ editor[e].at # "erasing",
           \A k \in Keys : k[1] = c =>
              /\ text'[k] = text[k]
              /\ Live(k)' => Live(k)
              /\ row'[k] # Absent /\ Live(k)' => row[k] # Absent \/ shown'[c] = None,
           shown'[c] # None => shown'[c] \in Keys /\ shown'[c][1] = c,
           c \in erased' =>
              \/ c \in erased
              \/ shown'[c] = None /\ \A k \in Keys : k[1] = c => ~Live(k)',
           \A l \in (answered' \ answered) \cap Edits(c) :
              /\ shown'[c] # None => l \in text[shown'[c]]
              /\ \A k \in Keys : k[1] = c /\ Live(k)' => l \in text[k]
    PROVE  Sound(c)'
<1>1. OneEdit(c)'
  <2>1. ASSUME NEW e \in Editors, Active(e)', EditedBy(e)' = c
        PROVE  /\ Active(e) /\ EditedBy(e) = c
               /\ editor'[e].key = editor[e].key /\ editor'[e].op = editor[e].op
    BY <2>1 DEF Continue, EditedBy
  <2>2. \A e, f \in Editors :
           Active(e)' /\ EditedBy(e)' = c /\ Active(f)' /\ EditedBy(f)' = c => e = f
    BY <2>1 DEF Sound, OneEdit
  <2>3. ASSUME NEW e \in Editors, Active(e)', EditedBy(e)' = c
        PROVE  /\ editor'[e].key[2] = edits'[c]
               /\ editor'[e].op = "redact" /\ editor'[e].at # "erasing" =>
                     shown'[c] \in {None, editor'[e].key}
    BY <2>1, <2>3 DEF Sound, OneEdit
  <2> QED
    BY <2>2, <2>3 DEF OneEdit
<1>2. Newest(c)'
  BY DEF Newest, Sound
<1>3. Redacted(c)'
  <2>1. ASSUME shown'[c] # None
        PROVE  answered' \cap Edits(c) \subseteq text'[shown'[c]]
    BY <2>1 DEF Redacted, Sound
  <2>2. ASSUME NEW k \in Keys, k[1] = c, Live(k)'
        PROVE  answered' \cap Edits(c) \subseteq text'[k]
    BY <2>2 DEF Redacted, Sound
  <2> QED
    BY <2>1, <2>2 DEF Redacted, Edits
<1>4. Deleted(c)'
  <2>1. CASE c \in erased
    BY <2>1 DEF Deleted, Sound
  <2>2. CASE c \notin erased
    BY <2>2 DEF Deleted
  <2> QED
    BY <2>1, <2>2
<1> QED
  BY <1>1, <1>2, <1>3, <1>4 DEF Sound

(* The one live key is written: nothing is live any more.                   *)
LEMMA SoundApply ==
    ASSUME TypeInv, TypeInv', NEW k \in Keys, Apply(k), k \in taken,
           NEW c \in Conversations, Sound(c), k[1] = c
    PROVE  Sound(c)'
<1>1. Live(k) /\ k[2] = edits[c] /\ c \notin erased
  BY DEF Apply, Live, Sound, Newest, Deleted
<1>2. /\ UNCHANGED <<row, taken, flying, text, editor, edits, answered, erased>>
      /\ queued' = queued \ {k} /\ shown'[c] = k
  BY DEF Apply, history, TypeInv, TypeOK
<1>3. OneEdit(c)'
  <2>1. ASSUME NEW e \in Editors, Active(e), EditedBy(e) = c
        PROVE  editor[e].key[2] = edits[c] /\ editor[e].key = k
    <3>1. editor[e].key[2] = edits[c] /\ editor[e].key[1] = c
          /\ editor[e].key \in Keys
      BY <2>1, ActiveRequest DEF Sound, OneEdit
    <3> QED
      BY <1>1, <3>1, SameKey
  <2> QED
    BY <1>2, <2>1 DEF Sound, OneEdit, Active, EditedBy
<1>4. ASSUME NEW l \in Keys, l[1] = c PROVE ~Live(l)'
  <2> SUFFICES ASSUME Live(l)' PROVE FALSE
    OBVIOUS
  <2>1. Live(l) /\ l # k
    BY <1>2 DEF Live, Coming, Used, Active
  <2>2. l[2] = k[2]
    BY <1>1, <1>4, <2>1 DEF Sound, Newest
  <2> QED
    BY <1>4, <2>1, <2>2, SameKey
<1>5. answered' \cap Edits(c) \subseteq text'[k]
  BY <1>1, <1>2 DEF Sound, Redacted
<1> QED
  BY <1>1, <1>2, <1>3, <1>4, <1>5 DEF Sound, Newest, Redacted, Deleted, Edits

(* An append of a key in use, or by the request that holds it, which goes   *)
(* on or ends: what was live is live, accepted or not.                     *)
LEMMA SoundSent ==
    ASSUME TypeInv, TypeInv', KeyInv, NEW k \in Keys, Sent(k),
           k \in taken \/ Live(k),
           UNCHANGED <<row, edits, text, erased>>,
           NEW c \in Conversations, Sound(c), Continue(c),
           \A e \in Editors : Active(e) /\ Active(e)' =>
              editor'[e].at = "erasing" \/ editor[e].at # "erasing",
           answered' \subseteq answered \cup {k},
           answered' # answered =>
              /\ k \in text[k] /\ k \notin taken
              /\ k[1] = c => shown[c] \in {None, k}
    PROVE  Sound(c)'
<1>1. shown'[c] = shown[c]
  BY SentEffect
<1>2. ASSUME NEW l \in Keys, l[1] = c, Live(l)' PROVE Live(l)
  <2>1. l # k => (l \in taken' <=> l \in taken) /\ (l \in queued' <=> l \in queued)
                 /\ (l \in flying' => l \in flying)
    BY SentEffect
  <2>2. k \in taken => taken' = taken /\ queued' = queued
    BY SentEffect
  <2>3. CASE l = k
    BY <1>2, <2>2, <2>3 DEF Live
  <2>4. CASE l # k
    BY <1>2, <2>1, <2>4 DEF Live, Coming, Used, Continue
  <2> QED
    BY <2>3, <2>4
<1>3. shown'[c] # None => shown'[c] \in Keys /\ shown'[c][1] = c
  BY <1>1 DEF KeyInv, Counted, TypeInv, TypeOK
<1>4. ASSUME NEW l \in (answered' \ answered) \cap Edits(c)
      PROVE  /\ shown'[c] # None => l \in text[shown'[c]]
             /\ \A m \in Keys : m[1] = c /\ Live(m)' => l \in text[m]
  <2>1. l = k /\ k[1] = c /\ k \in text[k] /\ Live(k) /\ shown[c] \in {None, k}
    BY <1>4, EditKeys
  <2>2. ASSUME NEW m \in Keys, m[1] = c, Live(m)' PROVE m = k
    BY <1>2, <2>1, <2>2, SameKey DEF Sound, Newest
  <2> QED
    BY <1>1, <2>1, <2>2
<1> QED
  BY <1>1, <1>2, <1>3, <1>4, SoundStays

LEMMA Unedited ==
    ASSUME TypeInv, UNCHANGED editor, NEW c
    PROVE  /\ Continue(c)
           /\ \A e \in Editors : Active(e) /\ Active(e)' =>
                 editor'[e].at = "erasing" \/ editor[e].at # "erasing"
BY DEF Continue, Active

LEMMA SoundRetain ==
    ASSUME TypeInv, TypeInv', EditorInv, KeyInv, NEW c \in Conversations, Retain(c)
    PROVE  Sound(c)'
<1>1. /\ Original(c) \in Keys /\ Original(c)[1] = c /\ Original(c)[2] = 0
      /\ \A k \in Keys : k[1] = c /\ k[2] = 0 => k = Original(c)
  BY OriginalKey
<1>2. edits[c] = 0 /\ Original(c) \notin taken \cup flying
  BY DEF Retain, KeyInv, Counted, TypeInv, TypeOK
<1>3. ASSUME NEW k \in Keys, k[1] = c PROVE ~Used(k)
  <2>1. Used(k) => k[2] = 0
    BY <1>2, <1>3, KeyParts DEF KeyInv
  <2> QED
    BY <1>1, <1>2, <1>3, <2>1 DEF Used, Retain
<1>4. shown[c] = None /\ c \notin erased
  BY <1>2, <1>3 DEF KeyInv, Counted, Used, TypeInv, TypeOK
<1>5. ASSUME NEW e \in Editors, Active(e) PROVE EditedBy(e) # c
  BY <1>2, <1>5 DEF EditorInv, Holds, EditedBy
<1>6. UNCHANGED <<taken, queued, flying, shown, text, editor, edits, answered, erased>>
  BY DEF Retain, provider, history
<1>7. ASSUME NEW k \in Keys, k[1] = c, Live(k)' PROVE k = Original(c)
  <2>1. \A l \in Keys : l # Original(c) => row'[l] = row[l]
    BY DEF Retain, TypeInv, TypeOK
  <2>2. k \notin queued
    BY <1>3, <1>7 DEF KeyInv, Used
  <2> QED
    BY <1>3, <1>5, <1>6, <1>7, <2>1, <2>2 DEF Live, Coming, Used, Active, EditedBy
<1>8. answered \cap Edits(c) = {}
  BY <1>2, EditKeys, KeyParts DEF KeyInv
<1>9. OneEdit(c)'
  BY <1>5, <1>6 DEF OneEdit, Active, EditedBy
<1>10. Newest(c)'
  BY <1>1, <1>2, <1>4, <1>6, <1>7 DEF Newest
<1>11. Redacted(c)'
  BY <1>6, <1>8 DEF Redacted, Edits
<1> QED
  BY <1>4, <1>6, <1>9, <1>10, <1>11 DEF Sound, Deleted

(* A request that begins alone finds nothing live.                         *)
LEMMA SoundBegin ==
    ASSUME TypeInv, TypeInv', EditorInv, KeyInv, NEW e \in Editors,
           NEW c \in Conversations, NEW op \in Ops, Begin(e, c, op),
           Sound(c), ~UnderEdit(c)
    PROVE  Sound(c)'
<1> DEFINE k == <<c, edits[c] + 1>>
<1>1. /\ k \in Keys /\ ~Used(k) /\ k[1] = c /\ k[2] = edits[c] + 1
      /\ edits[c] \in Nat /\ shown[c] \in Keys
  BY NewKey, BeginTypes DEF TypeInv, TypeOK
<1>2. shown[c] # None /\ shown[c] \in taken /\ shown[c][1] = c /\ shown[c] # k
      /\ c \notin erased
  BY <1>1 DEF Begin, KeyInv, Counted, Used, Sound, Deleted
<1>3. ASSUME NEW l \in Keys, l[1] = c PROVE ~Live(l)
  <2> SUFFICES ASSUME Live(l) PROVE FALSE
    OBVIOUS
  <2>1. row[l] = Absent
    BY <1>2, <1>3 DEF Sound, Newest
  <2>2. \A f \in Editors : Active(f) => EditedBy(f) # c
    BY DEF UnderEdit, Active
  <2>3. l \in (flying \ taken) \cup queued
    BY <1>3, <2>1, <2>2 DEF Live, Coming, Used, EditedBy
  <2>4. l \notin Edits(c)
    BY <2>3 DEF UnderEdit
  <2>5. l = Original(c)
    BY <1>3, <2>4, EditKeys, KeyParts, OriginalKey
  <2>6. Original(c) \in taken \ queued
    BY <1>2 DEF KeyInv, Counted
  <2> QED
    BY <2>3, <2>5, <2>6
<1>4. /\ editor'[e].at = IF op = "reextract" THEN "appending" ELSE "erasing"
      /\ editor'[e].op = op /\ editor'[e].key = k
      /\ \A f \in Editors : f # e => editor'[f] = editor[f]
  BY DEF Begin, TypeInv
<1>5. UNCHANGED <<row, taken, queued, flying, shown, answered, erased>>
  BY DEF Begin, provider
<1>6. edits'[c] = edits[c] + 1
  BY DEF Begin, TypeInv, TypeOK
<1>7. ASSUME NEW f \in Editors, Active(f)', EditedBy(f)' = c PROVE f = e
  BY <1>4, <1>7 DEF UnderEdit, Active, EditedBy
<1>8. ASSUME NEW l \in Keys, l[1] = c, Live(l)' PROVE l = k /\ op # "delete"
  <2>1. l \notin queued' /\ (l \notin taken' => ~Used(l)')
    BY <1>3, <1>5, <1>8 DEF Live, Coming, Used
  <2>2. PICK f \in Editors : /\ Active(f)' /\ editor'[f].op # "delete"
                             /\ editor'[f].key = l
    BY <1>8, <2>1 DEF Live, Coming
  <2>3. f = e
    BY <1>7, <1>8, <2>2 DEF EditedBy
  <2> QED
    BY <1>4, <2>2, <2>3
<1>9. /\ text'[shown[c]] = text[shown[c]]
      /\ op # "delete" => text[shown[c]] \subseteq text'[k]
  BY <1>1, <1>2 DEF Begin, TypeInv, TypeOK, Ops
<1>10. OneEdit(c)'
  <2>1. editor'[e].key[2] = edits'[c]
    BY <1>1, <1>4, <1>6
  <2>2. editor'[e].op = "redact" => editor'[e].at = "erasing"
    BY <1>4
  <2> QED
    BY <1>7, <2>1, <2>2 DEF OneEdit
<1>11. Newest(c)'
  BY <1>1, <1>5, <1>6, <1>8 DEF Newest, Used
<1>12. Redacted(c)'
  <2>1. answered \cap Edits(c) \subseteq text[shown[c]]
    BY <1>2 DEF Sound, Redacted
  <2> QED
    BY <1>5, <1>8, <1>9, <2>1 DEF Redacted, Edits
<1> QED
  BY <1>2, <1>5, <1>10, <1>11, <1>12 DEF Sound, Deleted

(* A step of another conversation. *)
LEMMA SoundElsewhere ==
    ASSUME TypeInv, TypeInv', KeyInv, NEW c \in Conversations, Sound(c),
           edits'[c] = edits[c], shown'[c] = shown[c],
           UNCHANGED <<taken, queued, flying, answered, erased>>,
           \A k \in Keys : k[1] = c => row'[k] = row[k] /\ text'[k] = text[k],
           \A e \in Editors :
              \/ editor'[e] = editor[e]
              \/ Active(e)' => editor'[e].key[1] # c
    PROVE  Sound(c)'
<1>1. Continue(c)
  BY DEF Continue, Active
<1>2. ASSUME NEW k \in Keys, k[1] = c, Live(k)' PROVE Live(k)
  BY <1>1, <1>2 DEF Live, Coming, Used, Continue
<1>3. shown'[c] # None => shown'[c] \in Keys /\ shown'[c][1] = c
  BY DEF KeyInv, Counted, TypeInv, TypeOK
<1>4. OneEdit(c)'
  BY DEF OneEdit, Sound, Active, EditedBy
<1>5. Newest(c)' /\ Redacted(c)' /\ Deleted(c)'
  BY <1>2, <1>3 DEF Newest, Redacted, Deleted, Sound, Edits
<1> QED
  BY <1>4, <1>5 DEF Sound

(* A request that edits c goes on or ends. *)
LEMMA EditContinues ==
    ASSUME TypeInv, NEW e \in Editors,
           Erase(e) \/ NothingErased(e) \/ AppendEdit(e) \/ QueueEdit(e), NEW c
    PROVE  /\ Continue(c)
           /\ \A f \in Editors : f # e => editor'[f] = editor[f]
           /\ ~Erase(e) =>
                 \A f \in Editors : Active(f) /\ Active(f)' =>
                    editor'[f].at = "erasing" \/ editor[f].at # "erasing"
<1>1. Active(e) /\ editor[e] \in Requests
  BY EditTypes, ActiveRequest
<1>2. \/ editor' = [editor EXCEPT ![e] = AtRest]
      \/ \E at \in Places : editor' = [editor EXCEPT ![e].at = at]
  BY DEF Erase, NothingErased, AppendEdit, QueueEdit, EndEdit, Places
<1>3. \/ editor'[e] = AtRest
      \/ editor'[e].key = editor[e].key /\ editor'[e].op = editor[e].op
  <2>1. ASSUME NEW at \in Places, editor' = [editor EXCEPT ![e].at = at]
        PROVE  editor'[e].key = editor[e].key /\ editor'[e].op = editor[e].op
    <3>1. editor'[e] = [editor[e] EXCEPT !.at = at]
      BY <2>1 DEF TypeInv
    <3> QED
      BY <1>1, <3>1 DEF Requests
  <2>2. CASE editor' = [editor EXCEPT ![e] = AtRest]
    BY <2>2 DEF TypeInv
  <2> QED
    BY <1>2, <2>1, <2>2
<1>4. \A f \in Editors : f # e => editor'[f] = editor[f]
  BY <1>2 DEF TypeInv
<1>5. Continue(c)
  BY <1>1, <1>3, <1>4 DEF Continue, Active, AtRest
<1>6. ASSUME ~Erase(e), Active(e)' PROVE editor[e].at # "erasing"
  <2>1. NothingErased(e) => editor' = [editor EXCEPT ![e] = AtRest]
    BY DEF NothingErased
  <2>2. ~NothingErased(e)
    BY <1>6, <2>1 DEF Active, AtRest, TypeInv
  <2> QED
    BY <1>6, <2>2 DEF AppendEdit, QueueEdit
<1> QED
  BY <1>4, <1>5, <1>6 DEF Active

LEMMA SoundErase ==
    ASSUME TypeInv, TypeInv', EditorInv, KeyInv, NEW e \in Editors, Erase(e),
           NEW c \in Conversations, Sound(c)
    PROVE  Sound(c)'
<1>1. /\ Active(e) /\ editor[e] \in Requests /\ editor[e].key \in Keys /\ Holds(e)
      /\ EditedBy(e) \in Conversations /\ editor[e].key[1] = EditedBy(e)
  BY EditTypes, ActiveRequest DEF EditorInv
<1>2. UNCHANGED <<row, taken, queued, flying, text, edits>> /\ answered' = answered
  BY DEF Erase, EndEdit
<1>3. /\ shown'[EditedBy(e)] = None
      /\ \A b \in Conversations : b # EditedBy(e) => shown'[b] = shown[b]
      /\ erased' = IF editor[e].op = "delete" THEN erased \cup {EditedBy(e)}
                   ELSE erased
  BY <1>1 DEF Erase, TypeInv, TypeOK
<1>4. Continue(c) /\ \A f \in Editors : f # e => editor'[f] = editor[f]
  BY EditContinues
<1>5. ASSUME NEW k \in Keys, Live(k)', k[1] = c PROVE Live(k)
  BY <1>2, <1>4, <1>5 DEF Live, Coming, Used, Continue
<1>6. CASE c = EditedBy(e)
  <2>1. ASSUME editor[e].op = "delete", NEW k \in Keys, k[1] = c, Live(k)'
        PROVE  FALSE
    <3>1. k[2] = edits[c] /\ editor[e].key[2] = edits[c]
      BY <1>1, <1>5, <1>6, <2>1 DEF Sound, Newest, OneEdit
    <3>2. k = editor[e].key
      BY <1>1, <1>6, <2>1, <3>1, SameKey
    <3>3. ~Used(k)
      BY <1>1, <3>2, <2>1 DEF Holds, Used, Erase
    <3>4. PICK f \in Editors : Active(f) /\ editor[f].op # "delete" /\ editor[f].key = k
      BY <1>5, <2>1, <3>3 DEF Live, Coming, KeyInv, Used
    <3> QED
      BY <1>1, <2>1, <3>2, <3>4 DEF EditorInv
  <2>2. c \in erased' => \/ c \in erased
                         \/ shown'[c] = None /\ \A k \in Keys : k[1] = c => ~Live(k)'
    BY <1>3, <1>6, <2>1
  <2> QED
    BY <1>2, <1>3, <1>4, <1>5, <1>6, <2>2, SoundStays
<1>7. CASE c # EditedBy(e)
  <2>1. shown'[c] = shown[c] /\ (c \in erased' => c \in erased)
    BY <1>3, <1>7
  <2>2. \A f \in Editors : \/ editor'[f] = editor[f]
                           \/ Active(f)' => editor'[f].key[1] # c
    BY <1>4, <1>7 DEF Continue, EditedBy
  <2>3. shown'[c] # None => shown'[c] \in Keys /\ shown'[c][1] = c
    BY <2>1 DEF KeyInv, Counted, TypeInv, TypeOK
  <2>4. OneEdit(c)'
    BY <1>2, <2>1, <2>2 DEF OneEdit, Sound, Active, EditedBy
  <2>5. Newest(c)' /\ Redacted(c)' /\ Deleted(c)'
    BY <1>2, <1>5, <2>1, <2>3 DEF Newest, Redacted, Deleted, Sound, Edits
  <2> QED
    BY <2>4, <2>5 DEF Sound
<1> QED
  BY <1>6, <1>7

(* An append that is accepted is the one that is live: nothing else will    *)
(* show what it redacts.                                                   *)
LEMMA SoundAppend ==
    ASSUME TypeInv, TypeInv', EditorInv, KeyInv, NEW e \in Editors, AppendEdit(e),
           NEW c \in Conversations, Sound(c)
    PROVE  Sound(c)'
<1>1. /\ Active(e) /\ editor[e] \in Requests /\ Holds(e)
      /\ editor[e].at = "appending"
  BY EditTypes, ActiveRequest DEF EditorInv, AppendEdit
<1>2. PICK k \in Keys : k = editor[e].key
  BY <1>1, ActiveRequest
<1>3. k \notin taken /\ Live(k) /\ (editor[e].op = "redact" => k \in text[k])
  BY <1>1, <1>2 DEF Holds, Live, Coming
<1>7. editor[e].op = "redact" /\ k[1] = c => shown[c] \in {None, k}
  BY <1>1, <1>2 DEF Sound, OneEdit, EditedBy
<1>4. Sent(k) /\ UNCHANGED <<row, edits, text, erased>>
  BY <1>2, SentIs DEF AppendEdit
<1>5. /\ answered' \subseteq answered \cup {k}
      /\ answered' # answered => editor[e].op = "redact"
  BY <1>2 DEF AppendEdit, EndEdit
<1>6. /\ Continue(c)
      /\ \A f \in Editors : Active(f) /\ Active(f)' =>
            editor'[f].at = "erasing" \/ editor[f].at # "erasing"
  BY <1>1, EditContinues DEF Erase
<1> QED
  BY <1>3, <1>4, <1>5, <1>6, <1>7, SoundSent

(* A redaction is left to the outbox: nothing else is live, and nothing but *)
(* its own text is shown.                                                  *)
LEMMA SoundQueue ==
    ASSUME TypeInv, TypeInv', EditorInv, KeyInv, NEW e \in Editors, QueueEdit(e),
           NEW c \in Conversations, Sound(c)
    PROVE  Sound(c)'
<1>1. /\ Active(e) /\ editor[e] \in Requests /\ Holds(e)
      /\ editor[e].at = "queueing"
      /\ EditedBy(e) \in Conversations /\ editor[e].key[1] = EditedBy(e)
  BY EditTypes, ActiveRequest DEF EditorInv, QueueEdit
<1>2. PICK k \in Keys : k = editor[e].key
  BY <1>1, ActiveRequest
<1>3. UNCHANGED <<taken, queued, flying, shown, text, edits, erased>>
  BY DEF QueueEdit, provider
<1>4. \A l \in Keys : l # k => row'[l] = row[l]
  BY <1>2 DEF QueueEdit, Enqueued, TypeInv, TypeOK
<1>5. answered' \subseteq answered \cup {k} /\ editor[e].op = "redact" /\ k \in text[k]
  BY <1>1, <1>2 DEF QueueEdit, EndEdit, Holds
<1>6. /\ Continue(c)
      /\ \A f \in Editors : Active(f) /\ Active(f)' =>
            editor'[f].at = "erasing" \/ editor[f].at # "erasing"
  BY <1>1, EditContinues DEF Erase
<1>7. ASSUME NEW l \in Keys, l[1] = c, Live(l)' PROVE Live(l)
  <2>1. k \notin taken => Live(k)
    BY <1>1, <1>2, <1>5 DEF Live, Coming
  <2> QED
    BY <1>3, <1>4, <1>6, <1>7, <2>1 DEF Live, Coming, Used, Continue
<1>8. shown'[c] # None => /\ shown'[c] \in Keys /\ shown'[c][1] = c
                          /\ shown[c] \in taken \ queued
  BY <1>3 DEF KeyInv, Counted, TypeInv, TypeOK
<1>9. CASE c # EditedBy(e)
  <2>1. k[1] # c
    BY <1>1, <1>2, <1>9
  <2>2. (answered' \ answered) \cap Edits(c) = {}
    BY <1>5, <2>1, EditKeys
  <2>3. \A l \in Keys : l[1] = c => row'[l] = row[l]
    BY <1>4, <2>1
  <2> QED
    BY <1>3, <1>6, <1>7, <1>8, <2>2, <2>3, SoundStays
<1>10. CASE c = EditedBy(e)
  <2>1. k[1] = c /\ k[2] = edits[c] /\ shown[c] \in {None, k}
    BY <1>1, <1>2, <1>5, <1>10 DEF Sound, OneEdit
  <2>2. k \in taken \ queued \/ shown[c] = None
    BY <1>3, <1>8, <2>1
  <2>3. ASSUME NEW l \in Keys, l[1] = c, Live(l)' PROVE l = k
    BY <1>7, <2>1, <2>3, SameKey DEF Sound, Newest
  <2>4. \A l \in Keys : l[1] = c /\ row'[l] # Absent /\ Live(l)' =>
           row[l] # Absent \/ shown'[c] = None
    <3>1. \A l \in Keys : l[1] = c /\ Live(l)' => l = k /\ k \notin taken \ queued
      BY <1>3, <2>3 DEF Live
    <3> QED
      BY <1>3, <2>2, <3>1
  <2>5. \A l \in (answered' \ answered) \cap Edits(c) :
           /\ shown'[c] # None => l \in text[shown'[c]]
           /\ \A m \in Keys : m[1] = c /\ Live(m)' => l \in text[m]
    BY <1>3, <1>5, <2>1, <2>3
  <2> QED
    BY <1>3, <1>6, <1>7, <1>8, <2>4, <2>5, SoundStays
<1> QED
  BY <1>9, <1>10

LEMMA RemovalStep ==
    ASSUME TypeInv, TypeInv', DrainInv, EditorInv, KeyInv, RemovalInv, [Next]_vars
    PROVE  RemovalInv'
<1>1. CASE Quiet
  <2>1. UNCHANGED <<taken, queued, flying, shown, text, editor, edits, answered,
                    erased, overlap>>
    BY <1>1 DEF Quiet, provider, history
  <2>2. ASSUME NEW c \in Conversations \ overlap PROVE Sound(c)'
    <3>1. Sound(c) /\ Continue(c)
      BY <2>1, Unedited DEF RemovalInv
    <3>2. \A k \in Keys : Live(k)' => Live(k)
      BY <1>1, <2>1 DEF Quiet, Live, Coming, Used, Active
    <3>3. shown'[c] # None => shown'[c] \in Keys /\ shown'[c][1] = c
      BY <2>1 DEF KeyInv, Counted, TypeInv, TypeOK
    <3> QED
      BY <1>1, <2>1, <3>1, <3>2, <3>3, Unedited, SoundStays DEF Quiet
  <2> QED
    BY <2>1, <2>2 DEF RemovalInv
<1>2. ASSUME NEW k \in Keys, Sends(k) PROVE RemovalInv'
  <2>1. k \in taken \/ Live(k)
    BY <1>2 DEF Sends, Live, Coming, Used
  <2>2. ASSUME NEW c \in Conversations \ overlap PROVE Sound(c)'
    BY <1>2, <2>1, SoundSent, Unedited DEF Sends, history, RemovalInv
  <2> QED
    BY <1>2, <2>2 DEF RemovalInv, Sends, history
<1>3. ASSUME NEW c \in Conversations, Retain(c) PROVE RemovalInv'
  <2>1. UNCHANGED <<taken, queued, flying, shown, text, editor, edits, answered,
                    erased, overlap>>
    BY <1>3 DEF Retain, provider, history
  <2>2. \A k \in Keys : k[1] # c => row'[k] = row[k]
    BY <1>3, OriginalKey DEF Retain, TypeInv, TypeOK
  <2>3. ASSUME NEW b \in Conversations \ overlap, b # c PROVE Sound(b)'
    BY <2>1, <2>2, <2>3, SoundElsewhere DEF RemovalInv
  <2> QED
    BY <1>3, <2>1, <2>3, SoundRetain DEF RemovalInv
<1>4. ASSUME NEW e \in Editors, NEW c \in Conversations, NEW op \in Ops,
             Begin(e, c, op)
      PROVE  RemovalInv'
  <2>1. UNCHANGED <<row, taken, queued, flying, shown, answered, erased>>
        /\ overlap' = IF UnderEdit(c) THEN overlap \cup {c} ELSE overlap
    BY <1>4 DEF Begin, provider
  <2>2. /\ \A b \in Conversations : b # c => edits'[b] = edits[b]
        /\ \A k \in Keys : k[1] # c => text'[k] = text[k]
        /\ editor'[e].key[1] = c
        /\ \A f \in Editors : f # e => editor'[f] = editor[f]
    BY <1>4 DEF Begin, TypeInv, TypeOK
  <2>3. ASSUME NEW b \in Conversations \ overlap, b # c PROVE Sound(b)'
    BY <2>1, <2>2, <2>3, SoundElsewhere DEF RemovalInv
  <2>4. c \notin overlap' => Sound(c)'
    BY <1>4, <2>1, SoundBegin DEF RemovalInv
  <2> QED
    BY <2>1, <2>3, <2>4 DEF RemovalInv
<1>5. ASSUME NEW e \in Editors, Erase(e) PROVE RemovalInv'
  BY <1>5, SoundErase DEF RemovalInv, Erase
<1>6. ASSUME NEW e \in Editors, NothingErased(e) PROVE RemovalInv'
  <2>1. UNCHANGED <<row, taken, queued, flying, shown, text, edits, answered,
                    erased, overlap>>
    BY <1>6 DEF NothingErased
  <2>2. \A f \in Editors : editor'[f] = editor[f] \/ ~Active(f)'
    BY <1>6 DEF NothingErased, TypeInv, Active, AtRest
  <2> QED
    BY <2>1, <2>2, SoundElsewhere DEF RemovalInv
<1>7. ASSUME NEW e \in Editors, AppendEdit(e) PROVE RemovalInv'
  BY <1>7, SoundAppend DEF RemovalInv, AppendEdit
<1>8. ASSUME NEW e \in Editors, QueueEdit(e) PROVE RemovalInv'
  BY <1>8, SoundQueue DEF RemovalInv, QueueEdit
<1>9. ASSUME NEW k \in Keys, Apply(k) PROVE RemovalInv'
  <2>1. /\ UNCHANGED <<row, taken, flying, text, editor, edits, answered, erased, overlap>>
        /\ queued' \subseteq queued
        /\ \A b \in Conversations : b # k[1] => shown'[b] = shown[b]
    BY <1>9 DEF Apply, history, TypeInv, TypeOK
  <2>2. k \in taken
    BY <1>9 DEF Apply, KeyInv
  <2>3. ASSUME NEW c \in Conversations \ overlap, k[1] # c PROVE Sound(c)'
    <3>1. Sound(c) /\ shown'[c] = shown[c]
      BY <2>1, <2>3 DEF RemovalInv
    <3>2. \A l \in Keys : Live(l)' => Live(l)
      BY <2>1 DEF Live, Coming, Used, Active
    <3>3. shown'[c] # None => shown'[c] \in Keys /\ shown'[c][1] = c
      BY <3>1 DEF KeyInv, Counted, TypeInv, TypeOK
    <3> QED
      BY <2>1, <3>1, <3>2, <3>3, Unedited, SoundStays
  <2> QED
    BY <1>9, <2>1, <2>2, <2>3, SoundApply DEF RemovalInv
<1>10. ASSUME NEW b \in Conversations, EraseLate(b) PROVE RemovalInv'
  <2>1. UNCHANGED <<row, taken, queued, flying, text, editor, edits, answered,
                    erased, overlap>>
    BY <1>10 DEF EraseLate, history
  <2>2. ASSUME NEW c \in Conversations \ overlap PROVE Sound(c)'
    <3>1. Sound(c) /\ shown'[c] \in {shown[c], None}
      BY <1>10, <2>2 DEF RemovalInv, EraseLate, TypeInv, TypeOK
    <3>2. \A l \in Keys : Live(l)' => Live(l)
      BY <2>1 DEF Live, Coming, Used, Active
    <3>3. shown'[c] # None => shown'[c] \in Keys /\ shown'[c][1] = c
      BY <3>1 DEF KeyInv, Counted, TypeInv, TypeOK
    <3> QED
      BY <2>1, <3>1, <3>2, <3>3, Unedited, SoundStays
  <2> QED
    BY <2>1, <2>2 DEF RemovalInv
<1> QED
  BY <1>1, <1>2, <1>3, <1>4, <1>5, <1>6, <1>7, <1>8, <1>9, <1>10, StepKinds, EditKinds

-----------------------------------------------------------------------------
(* Nothing that was accepted is lost. *)

(* Rows and the provider as they were, or sent one key more.               *)
LEMMA KeptStays ==
    ASSUME TypeInv, TypeInv', KeyInv, NEW c \in Conversations, Kept(c),
           NEW k \in Keys, Sent(k) \/ UNCHANGED provider,
           row'[Original(c)] = Absent <=> row[Original(c)] = Absent,
           \A l \in Keys \ taken : l[1] = c /\ Brings(row[l]) => Brings(row'[l]),
           erased \subseteq erased', broken \subseteq broken',
           \A e \in Editors : Appending(e, c) =>
              \/ editor'[e] = editor[e] \/ editor[e].key \in queued'
              \/ shown'[c] # None \/ c \in broken'
              \/ Appending(e, c)'
              \/ Brings(row'[editor[e].key]) /\ editor[e].key \notin taken'
    PROVE  Kept(c)'
<1>1. Sent(k)
  BY DEF Sent
<1>2. shown'[c] = shown[c] /\ queued \subseteq queued'
  BY <1>1, SentEffect
<1>3. ASSUME NEW l \in Keys, l \notin taken, l \in taken'
      PROVE  l \in queued'
  BY <1>1, <1>3, SentEffect
<1>9. ASSUME NEW l \in queued', l[1] = c PROVE Kept(c)'
  BY <1>9 DEF Kept
<1>4. CASE row[Original(c)] = Absent
  BY <1>4 DEF Kept, Original
<1>5. CASE shown[c] # None
  BY <1>2, <1>5 DEF Kept
<1>6. CASE c \in erased \cup broken
  BY <1>6 DEF Kept
<1>7. ASSUME NEW e \in Editors, Appending(e, c) PROVE Kept(c)'
  <2>1. editor[e].key \in Keys /\ editor[e].key[1] = c /\ editor[e].key \notin taken
    BY <1>7, ActiveRequest DEF Appending, Active, EditedBy
  <2>2. CASE editor[e].key \in taken'
    BY <1>3, <1>9, <2>1, <2>2
  <2>3. CASE editor[e].key \notin taken'
    <3>1. CASE editor'[e] = editor[e]
      BY <1>7, <2>3, <3>1 DEF Kept, Appending, EditedBy
    <3>2. CASE Brings(row'[editor[e].key])
      <4>1. PICK l \in Keys : l = editor[e].key
        BY <2>1
      <4> QED
        BY <2>1, <2>3, <3>2, <4>1 DEF Kept, Brings
    <3> QED
      BY <1>7, <1>9, <2>1, <3>1, <3>2 DEF Kept
  <2> QED
    BY <2>2, <2>3
<1>8. ASSUME NEW l \in Keys \ taken, l[1] = c, Brings(row[l]) PROVE Kept(c)'
  BY <1>3, <1>8, <1>9 DEF Kept, Brings
<1> QED
  BY <1>2, <1>4, <1>5, <1>6, <1>7, <1>8, <1>9 DEF Kept

LEMMA KeptStep ==
    ASSUME TypeInv, TypeInv', DrainInv, EditorInv, KeyInv, KeptInv, [Next]_vars
    PROVE  KeptInv'
<1>1. CASE Quiet
  <2> SUFFICES ASSUME NEW c \in Conversations PROVE Kept(c)'
    BY DEF KeptInv
  <2>1. Original(c) \in Keys
    BY OriginalKey
  <2> QED
    BY <1>1, <2>1, KeptStays DEF KeptInv, Quiet, history
<1>2. ASSUME NEW k \in Keys, Sends(k) PROVE KeptInv'
  BY <1>2, KeptStays DEF KeptInv, Sends, history
<1>3. ASSUME NEW b \in Conversations, Retain(b) PROVE KeptInv'
  <2> SUFFICES ASSUME NEW c \in Conversations PROVE Kept(c)'
    BY DEF KeptInv
  <2>1. /\ Original(b) \in Keys /\ Original(b)[1] = b
        /\ Original(c) \in Keys /\ Original(c)[1] = c
    BY OriginalKey
  <2>2. CASE c = b
    <3>1. Original(b) \notin taken
      BY <1>3 DEF Retain, KeyInv, Counted
    <3>2. taken' = taken /\ Brings(row'[Original(b)])
      BY <1>3, <2>1 DEF Retain, provider, TypeInv, TypeOK, Queued, Brings
    <3>3. PICK k \in Keys : k = Original(b)
      BY <2>1
    <3>4. k \in Keys \ taken' /\ k[1] = c /\ Brings(row'[k])
      BY <2>1, <2>2, <3>1, <3>2, <3>3
    <3> QED
      BY <3>4 DEF Kept, Brings
  <2>3. CASE c # b
    <3>1. \A l \in Keys : l[1] = c => row'[l] = row[l]
      BY <1>3, <2>1, <2>3 DEF Retain, TypeInv, TypeOK
    <3>2. UNCHANGED <<provider, erased, broken, editor>>
      BY <1>3 DEF Retain, history
    <3> QED
      BY <2>1, <3>1, <3>2, KeptStays DEF KeptInv
  <2> QED
    BY <2>2, <2>3
<1>4. ASSUME NEW e \in Editors, NEW b \in Conversations, NEW op \in Ops,
             Begin(e, b, op)
      PROVE  KeptInv'
  <2>1. UNCHANGED <<row, provider, erased, broken>>
    BY <1>4 DEF Begin
  <2>2. \A f \in Editors : editor'[f] = editor[f] \/ ~Active(f)
    BY <1>4 DEF Begin, TypeInv, Active, AtRest
  <2>3. <<b, edits[b] + 1>> \in Keys
    BY <1>4, BeginTypes
  <2> QED
    BY <2>1, <2>2, <2>3, KeptStays DEF KeptInv, Appending, Active
<1>5. ASSUME NEW e \in Editors, Erase(e) PROVE KeptInv'
  <2> SUFFICES ASSUME NEW c \in Conversations PROVE Kept(c)'
    BY DEF KeptInv
  <2>1. /\ Active(e) /\ editor[e] \in Requests /\ editor[e].key \in Keys /\ Holds(e)
        /\ EditedBy(e) \in Conversations /\ editor[e].at = "erasing"
    BY <1>5, EditTypes, ActiveRequest DEF EditorInv, Erase
  <2>2. /\ shown'[EditedBy(e)] = None
        /\ \A b \in Conversations : b # EditedBy(e) => shown'[b] = shown[b]
        /\ UNCHANGED <<row, taken, queued, flying>>
        /\ erased \subseteq erased' /\ broken \subseteq broken'
        /\ editor[e].op = "delete" => EditedBy(e) \in erased'
    BY <1>5, <2>1 DEF Erase, TypeInv, TypeOK, EndEdit
  <2>3. CASE c # EditedBy(e)
    <3>1. \A f \in Editors : f # e => editor'[f] = editor[f]
      BY <1>5, EditContinues
    <3>2. \A f \in Editors : Appending(f, c) => Appending(f, c)'
      BY <2>1, <2>2, <3>1 DEF Appending, EditedBy
    <3> QED
      BY <2>2, <2>3, <3>2 DEF KeptInv, Kept, Original
  <2>4. CASE c = EditedBy(e)
    <3>1. CASE editor[e].op = "delete"
      BY <2>2, <2>4, <3>1 DEF Kept
    <3>2. CASE editor[e].op = "redact"
      <4>1. CASE editor' = [editor EXCEPT ![e].at = "appending"]
        <5>1. editor'[e] = [editor[e] EXCEPT !.at = "appending"]
          BY <4>1 DEF TypeInv
        <5>2. /\ editor'[e].at = "appending" /\ editor'[e].op = "redact"
              /\ editor'[e].key = editor[e].key
          BY <2>1, <3>2, <5>1 DEF Requests
        <5>3. editor[e].key \notin taken
          BY <2>1 DEF Holds
        <5>4. Appending(e, c)'
          BY <2>2, <2>4, <5>2, <5>3 DEF Appending, EditedBy
        <5> QED
          BY <5>4 DEF Kept
      <4>2. CASE EndEdit(e, FALSE)
        <5>1. row'[editor[e].key] = Absent /\ editor[e].key \notin queued'
          BY <2>1, <2>2 DEF Holds, KeyInv
        <5>2. EditedBy(e) \in broken'
          BY <2>1, <2>2, <3>2, <4>2, <5>1, EndEditEffect
        <5> QED
          BY <2>4, <5>2 DEF Kept
      <4> QED
        BY <1>5, <3>2, <4>1, <4>2 DEF Erase
    <3> QED
      BY <2>1, <3>1, <3>2 DEF Holds, Requests, Ops
  <2> QED
    BY <2>3, <2>4
<1>6. ASSUME NEW e \in Editors, NothingErased(e) PROVE KeptInv'
  <2>1. UNCHANGED <<row, taken, queued, shown, erased>> /\ broken \subseteq broken'
    BY <1>6 DEF NothingErased
  <2>2. \A f \in Editors : editor'[f] = editor[f] \/ editor[f].at = "erasing"
    BY <1>6 DEF NothingErased, TypeInv
  <2>3. ASSUME NEW c \in Conversations, NEW f \in Editors, Appending(f, c)
        PROVE  Appending(f, c)'
    BY <2>1, <2>2, <2>3 DEF Appending, EditedBy
  <2>4. ASSUME NEW c \in Conversations PROVE Kept(c)'
    BY <2>1, <2>3 DEF KeptInv, Kept, Original
  <2> QED
    BY <2>4 DEF KeptInv
<1>9. ASSUME NEW k \in Keys, Apply(k) PROVE KeptInv'
  <2>1. /\ UNCHANGED <<row, taken, editor, erased, broken>>
        /\ queued' = queued \ {k} /\ k # None
        /\ \A c \in Conversations :
              shown'[c] = IF c = k[1] THEN k ELSE shown[c]
    BY <1>9, KeyParts DEF Apply, history, TypeInv, TypeOK
  <2>2. ASSUME NEW c \in Conversations PROVE Kept(c)'
    <3>1. CASE c = k[1]
      BY <2>1, <3>1 DEF Kept
    <3>2. CASE c # k[1]
      BY <2>1, <3>2 DEF KeptInv, Kept, Original, Appending, EditedBy
    <3> QED
      BY <3>1, <3>2
  <2> QED
    BY <2>2 DEF KeptInv
<1>10. ASSUME NEW b \in Conversations, EraseLate(b) PROVE KeptInv'
  <2>1. /\ UNCHANGED <<row, taken, queued, editor, erased, broken>>
        /\ b \in broken
        /\ \A c \in Conversations : c # b => shown'[c] = shown[c]
    BY <1>10 DEF EraseLate, history, KeyInv, TypeInv, TypeOK
  <2>2. ASSUME NEW c \in Conversations PROVE Kept(c)'
    <3>1. CASE c = b
      BY <2>1, <3>1 DEF Kept
    <3>2. CASE c # b
      BY <2>1, <3>2 DEF KeptInv, Kept, Original, Appending, EditedBy
    <3> QED
      BY <3>1, <3>2
  <2> QED
    BY <2>2 DEF KeptInv
<1>7. ASSUME NEW e \in Editors, AppendEdit(e) PROVE KeptInv'
  <2>1. /\ Active(e) /\ editor[e] \in Requests /\ editor[e].key \in Keys /\ Holds(e)
        /\ EditedBy(e) \in Conversations /\ editor[e].at = "appending"
    BY <1>7, EditTypes, ActiveRequest DEF EditorInv, AppendEdit
  <2>2. PICK k \in Keys : k = editor[e].key
    BY <2>1
  <2>3. Sent(k) /\ UNCHANGED <<row, erased>>
    BY <1>7, <2>2, SentIs DEF AppendEdit
  <2>4. broken \subseteq broken'
    BY <1>7 DEF AppendEdit, EndEdit
  <2>5. \A f \in Editors : f # e => editor'[f] = editor[f]
    BY <1>7, EditContinues
  <2>6. ASSUME NEW c \in Conversations, Appending(e, c)
        PROVE  \/ shown'[c] # None \/ c \in broken' \/ Appending(e, c)'
               \/ editor[e].key \in queued'
    <3>1. c = EditedBy(e) /\ editor[e].op = "redact" /\ k \notin taken /\ k[1] = c
      BY <2>2, <2>6 DEF Appending, EditedBy
    <3>2. k \in taken' => k \in queued'
      BY <2>3, <3>1, SentEffect
    <3>3. CASE \E success \in BOOLEAN : EndEdit(e, success) /\ (success => Append(k))
      <4>1. PICK success \in BOOLEAN : EndEdit(e, success) /\ (success => Append(k))
        BY <3>3
      <4>2. CASE success
        BY <2>2, <3>2, <4>1, <4>2 DEF Append, Take
      <4>3. CASE ~success
        <5>1. row'[editor[e].key] = Absent
          BY <2>1, <2>3 DEF Holds
        <5> QED
          BY <2>1, <3>1, <4>1, <4>3, <5>1, EndEditEffect
      <4> QED
        BY <4>2, <4>3
    <3>4. CASE editor' = [editor EXCEPT ![e].at = "queueing"]
      <4>1. editor'[e] = [editor[e] EXCEPT !.at = "queueing"]
        BY <3>4 DEF TypeInv
      <4>2. /\ editor'[e].at = "queueing" /\ editor'[e].op = "redact"
            /\ editor'[e].key = editor[e].key
        BY <2>1, <3>1, <4>1 DEF Requests
      <4> QED
        BY <2>2, <3>1, <3>2, <4>2 DEF Appending, EditedBy
    <3>5. \/ \E success \in BOOLEAN : EndEdit(e, success) /\ (success => Append(k))
          \/ editor' = [editor EXCEPT ![e].at = "queueing"]
      BY <1>7, <2>2 DEF AppendEdit
    <3> QED
      BY <3>3, <3>4, <3>5
  <2> QED
    BY <2>3, <2>4, <2>5, <2>6, KeptStays DEF KeptInv
<1>8. ASSUME NEW e \in Editors, QueueEdit(e) PROVE KeptInv'
  <2>1. /\ Active(e) /\ editor[e] \in Requests /\ editor[e].key \in Keys /\ Holds(e)
        /\ EditedBy(e) \in Conversations /\ editor[e].at = "queueing"
    BY <1>8, EditTypes, ActiveRequest DEF EditorInv, QueueEdit
  <2>2. UNCHANGED <<taken, queued, flying, late, shown, erased>> /\ broken \subseteq broken'
    BY <1>8 DEF QueueEdit, EndEdit, provider
  <2>3. \/ row' = row /\ EndEdit(e, FALSE)
        \/ row' = [row EXCEPT ![editor[e].key] = Queued]
    BY <1>8 DEF QueueEdit, Enqueued
  <2>4. row[editor[e].key] = Absent
    BY <2>1 DEF Holds
  <2>5. \A l \in Keys : Brings(row[l]) => Brings(row'[l])
    <3>1. Brings(Queued)
      BY DEF Brings, Queued
    <3>2. ASSUME NEW l \in Keys PROVE row'[l] = row[l] \/ row'[l] = Queued
      BY <2>3 DEF TypeInv, TypeOK
    <3> QED
      BY <3>1, <3>2
  <2>6. \A f \in Editors : f # e => editor'[f] = editor[f]
    BY <1>8, EditContinues
  <2>7. ASSUME NEW c \in Conversations
        PROVE  row'[Original(c)] = Absent <=> row[Original(c)] = Absent
    <3>1. editor[e].key # Original(c) /\ Original(c) \in Keys
      BY <2>1, OriginalKey DEF Holds
    <3> QED
      BY <2>1, <2>3, <3>1 DEF TypeInv, TypeOK
  <2>8. ASSUME NEW c \in Conversations, Appending(e, c)
        PROVE  \/ shown'[c] # None \/ c \in broken' \/ editor[e].key \in queued'
               \/ Brings(row'[editor[e].key]) /\ editor[e].key \notin taken'
    <3>1. c = EditedBy(e) /\ editor[e].op = "redact" /\ editor[e].key \notin taken
      BY <2>8 DEF Appending
    <3>2. CASE row' = [row EXCEPT ![editor[e].key] = Queued]
      BY <2>1, <2>2, <3>1, <3>2 DEF TypeInv, TypeOK, Brings, Queued
    <3>3. CASE row' = row /\ EndEdit(e, FALSE)
      BY <2>1, <2>4, <3>1, <3>3, EndEditEffect
    <3> QED
      BY <2>3, <3>2, <3>3
  <2>9. UNCHANGED provider
    BY <2>2 DEF provider
  <2> QED
    BY <2>1, <2>2, <2>5, <2>6, <2>7, <2>8, <2>9, KeptStays DEF KeptInv
<1> QED
  BY <1>1, <1>2, <1>3, <1>4, <1>5, <1>6, <1>7, <1>8, <1>9, <1>10, StepKinds, EditKinds

-----------------------------------------------------------------------------
(* The inductive invariant, and what follows from it. *)

LEMMA InitInv == Init => IInv
<1> SUFFICES ASSUME Init PROVE IInv
  OBVIOUS
<1>1. TypeInv
  BY InitTypes
<1>2. \A c \in Conversations : Original(c) \in Keys
  BY OriginalKey
<1>3. \A k \in Keys : ~Used(k) /\ row[k] = Absent
  BY DEF Init, Used
<1>4. \A e \in Editors : ~Active(e)
  BY DEF Init, Active, AtRest
<1>5. \A d \in Drains : Knows(drain[d])
  BY DEF Init, Knows, Idle
<1>6. DrainInv
  BY <1>3, <1>5 DEF Init, DrainInv, Open, Waiting, Claimed, Absent
<1>7. EditorInv
  BY <1>4 DEF EditorInv
<1>8. KeyInv
  BY <1>2, <1>3 DEF Init, KeyInv, Counted
<1>9. \A k \in Keys : ~Live(k)
  BY <1>3, <1>4 DEF Init, Live, Coming
<1>10. RemovalInv
  BY <1>4, <1>9 DEF Init, RemovalInv, Sound, OneEdit, Newest, Redacted, Deleted
<1>11. KeptInv
  BY <1>2, <1>3 DEF KeptInv, Kept
<1> QED
  BY <1>1, <1>6, <1>7, <1>8, <1>10, <1>11 DEF IInv

LEMMA InvStep == IInv /\ [Next]_vars => IInv'
<1> SUFFICES ASSUME IInv, [Next]_vars PROVE IInv'
  OBVIOUS
<1>1. TypeInv /\ DrainInv /\ EditorInv /\ KeyInv /\ RemovalInv /\ KeptInv
  BY DEF IInv
<1>2. TypeInv'
  BY <1>1, TypeStep
<1>3. DrainInv' /\ EditorInv' /\ KeyInv' /\ RemovalInv' /\ KeptInv'
  BY <1>1, <1>2, DrainInvStep, EditorStep, KeyStep, RemovalStep, KeptStep
<1> QED
  BY <1>2, <1>3 DEF IInv

LEMMA OutboxInvariant == Spec => []IInv
BY InitInv, InvStep, PTL DEF Spec

(* Every variable keeps its type: the rows and their counts of tries, the   *)
(* keys the provider took, the documents shown.                            *)
THEOREM TypeCorrect == Spec => []TypeOK
<1>1. IInv => TypeOK
  BY DEF IInv, TypeInv
<1> QED
  BY <1>1, OutboxInvariant, PTL

(* What a person was told is redacted is not shown again, and what was      *)
(* deleted does not come back, however often the appends of the old text    *)
(* are repeated, replayed or late, and whenever the provider writes them:   *)
(* only the newest key is live, and its text has the answered redactions.   *)
(* Except of a conversation that was edited while another edit of it was    *)
(* under way, in a request or at the provider (memory-service.ts:992-1020). *)
THEOREM Removal == Spec => []RemovedStaysRemoved
<1>1. IInv => RemovedStaysRemoved
  BY DEF IInv, RemovalInv, Sound, Redacted, Deleted, RemovedStaysRemoved
<1> QED
  BY <1>1, OutboxInvariant, PTL

(* A conversation that was accepted is shown, or an event, a request or the *)
(* provider will still bring it, or an event was given up that people can   *)
(* replay; it is lost only by a deletion, or by an edit that stopped after  *)
(* it erased or whose deletion came late (memory-service.ts:1354-1414).     *)
THEOREM Keeping == Spec => []ConversationsAreKept
<1>1. ASSUME IInv PROVE ConversationsAreKept
  <2> SUFFICES ASSUME NEW c \in Conversations, row[Original(c)] # Absent,
                      shown[c] = None, c \notin erased \cup broken,
                      ~\E k \in queued : k[1] = c,
                      ~\E e \in Editors : Appending(e, c)
               PROVE  \E k \in ({Original(c)} \cup Edits(c)) \ taken :
                         row[k].status \notin {"absent", "delivered"}
    BY DEF ConversationsAreKept, Appending
  <2>1. PICK k \in Keys \ taken : k[1] = c /\ Brings(row[k])
    BY <1>1 DEF IInv, KeptInv, Kept
  <2>2. k \in {Original(c)} \cup Edits(c)
    BY <2>1, KeyParts, EditKeys, OriginalKey
  <2> QED
    BY <2>1, <2>2 DEF Brings
<1> QED
  BY <1>1, OutboxInvariant, PTL
=============================================================================
