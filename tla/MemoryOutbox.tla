----------------------------- MODULE MemoryOutbox -----------------------------
(***************************************************************************)
(* Conversations on their way into a Memory.  The runtime of an Agent      *)
(* queues a conversation in the outbox; maintenance drains the outbox into *)
(* the provider, where it becomes a document.  People redact, delete and   *)
(* re-extract the document; a redaction erases it and appends the new      *)
(* text, through the outbox when the provider is not there.                *)
(*                                                                         *)
(* A drain claims the events that are due and takes over those claimed     *)
(* more than five minutes ago; nothing in the row says who claimed it.     *)
(* What orders the writers at the provider is the key an append carries:   *)
(* the provider takes a key once.  It answers when it has accepted an      *)
(* append; its own worker writes the document later, when another append   *)
(* or a deletion may have come between.  A request that timed out may      *)
(* still arrive.                                                           *)
(*                                                                         *)
(* One Memory that is neither being deleted nor without a bank: what the   *)
(* drain does to its status is MemoryLifecycle.  A redaction, a            *)
(* re-extraction has a key of its own, as the console gives it.            *)
(***************************************************************************)
EXTENDS Naturals, FiniteSets

CONSTANTS
    Conversations,
    Drains,        \* runs of processDueOutbox that may be under way at once
    Editors,       \* governance requests that may be under way at once
    MaxEdits,      \* bound: redactions, re-extractions, deletions of each one
    MaxAttempts,   \* MAX_OUTBOX_ATTEMPTS
    Events,        \* bound: crashes, lost answers, drains that outlive their
                   \* claim, replays an administrator asks for
    None

ASSUME OutboxAssumption ==
    /\ MaxEdits \in Nat /\ MaxAttempts \in Nat \ {0} /\ Events \in Nat
    /\ None \notin Conversations \X (0 .. MaxEdits)

VARIABLES
    row,       \* [Keys -> outbox row]
    taken,     \* the keys the provider accepted
    queued,    \* those of them its worker has not written yet
    flying,    \* appends nobody waits for that may still arrive
    late,      \* conversations of which a deletion nobody waits for may arrive
    shown,     \* [Conversations -> the key of the document's text, or None]
    text,      \* [Keys -> the redactions its text contains]
    drain,     \* [Drains -> where it is, and its batch]
    editor,    \* [Editors -> where it is, and its locals]
    edits,     \* [Conversations -> edits begun]
    replay,    \* the row an administrator found to replay
    answered,  \* history: redactions that were answered with success
    erased,    \* history: conversations that a deletion removed
    broken,    \* history: those whose redaction stopped after it erased, or
               \* whose deletion was not answered
    overlap,   \* history: those edited while an edit was under way
    events     \* history: how many of Events there were

provider == <<taken, queued, flying, late, shown>>
history == <<answered, erased, broken, overlap>>
vars == <<row, provider, text, drain, editor, edits, replay, history, events>>

-----------------------------------------------------------------------------
Keys == Conversations \X (0 .. MaxEdits)

Original(c) == <<c, 0>>
Edits(c) == {c} \X (1 .. MaxEdits)

Statuses == {"absent", "pending", "retry", "processing", "delivered",
             "dead_letter"}

\* due: next_retry_at has come, or the claim is five minutes old.
Rows == [status : Statuses, tries : 0 .. MaxAttempts, due : BOOLEAN]
Absent == [status |-> "absent", tries |-> 0, due |-> FALSE]
Queued == [status |-> "pending", tries |-> 0, due |-> TRUE]

Idle == [at |-> "idle", found |-> {}, claimed |-> {}, now |-> None,
         dead |-> FALSE]
AtRest == [at |-> "idle", op |-> None, key |-> None]

Init ==
    /\ row = [k \in Keys |-> Absent]
    /\ taken = {} /\ queued = {} /\ flying = {} /\ late = {}
    /\ shown = [c \in Conversations |-> None]
    /\ text = [k \in Keys |-> {}]
    /\ drain = [d \in Drains |-> Idle] /\ editor = [e \in Editors |-> AtRest]
    /\ edits = [c \in Conversations |-> 0] /\ replay = None
    /\ answered = {} /\ erased = {} /\ broken = {} /\ overlap = {}
    /\ events = 0

-----------------------------------------------------------------------------
(* The provider.                                                           *)

\* The answer to an append says that it is accepted, once for each key.
Take(k) ==
    /\ taken' = taken \cup {k}
    /\ queued' = IF k \in taken THEN queued ELSE queued \cup {k}
    /\ UNCHANGED <<late, shown>>

\* Mutant: every append is an operation of its own.
AppendAnew(k) ==
    /\ taken' = taken \cup {k} /\ queued' = queued \cup {k}
    /\ flying' = flying \ {k}
    /\ UNCHANGED <<late, shown>>

Append(k) == Take(k) /\ flying' = flying \ {k}

\* The answer does not come: the request was lost, or it was taken, or it
\* will arrive later.
Unanswered(k) ==
    /\ events < Events /\ events' = events + 1
    /\ \/ Append(k)
       \/ flying' = flying \cup {k} /\ UNCHANGED <<taken, queued, late, shown>>

Refused(k) == UNCHANGED <<provider, events>>

Arrive(k) ==
    /\ k \in flying
    /\ Append(k)
    /\ UNCHANGED <<row, text, drain, editor, edits, replay, history, events>>

\* The provider's worker writes the document, whatever came since it was
\* accepted; in which order it takes what is queued is not known.
Apply(k) ==
    /\ k \in queued
    /\ queued' = queued \ {k}
    /\ shown' = [shown EXCEPT ![k[1]] = k]
    /\ UNCHANGED <<taken, flying, late, row, text, drain, editor, edits, replay,
                   history, events>>

\* A deletion whose request was given up arrives.
EraseLate(c) ==
    /\ c \in late
    /\ late' = late \ {c}
    /\ shown' = [shown EXCEPT ![c] = None]
    /\ UNCHANGED <<taken, queued, flying, row, text, drain, editor, edits,
                   replay, history, events>>

-----------------------------------------------------------------------------
(* The outbox.                                                             *)

\* A conversation queued again under its key finds its row.
Retain(c) ==
    /\ row[Original(c)] = Absent
    /\ row' = [row EXCEPT ![Original(c)] = Queued]
    /\ UNCHANGED <<provider, text, drain, editor, edits, replay, history,
                   events>>

Waiting(r) == r.status \in {"pending", "retry"}
Claimed(r) == r.status = "processing"

Held(k) == \E d \in Drains : \E x \in drain[d].claimed : x.key = k

\* The clock: a retry comes due; a claim grows old, of a drain that died or
\* of one that takes longer than five minutes.
ComesDue(k) ==
    /\ ~row[k].due
    /\ Waiting(row[k]) \/ Claimed(row[k])
    /\ IF Claimed(row[k]) /\ Held(k)
       THEN events < Events /\ events' = events + 1
       ELSE events' = events
    /\ row' = [row EXCEPT ![k].due = TRUE]
    /\ UNCHANGED <<provider, text, drain, editor, edits, replay, history>>

\* Mutant: only what waits is looked for, never a claim that grew old.
DueWaiting(r) == r.due /\ Waiting(r)

Due(r) == r.due /\ (Waiting(r) \/ Claimed(r))

Find(d) ==
    LET due == {[key |-> k, row |-> row[k]] : k \in {k \in Keys : Due(row[k])}}
    IN  /\ drain[d].at = "idle" /\ due # {}
        /\ drain' = [drain EXCEPT ![d] = [Idle EXCEPT !.at = "claiming",
                                                      !.found = due]]
        /\ UNCHANGED <<row, provider, text, editor, edits, replay, history,
                       events>>

\* What is left of the batch when it may be all done.
Rest(batch) == IF batch.found \cup batch.claimed = {} THEN Idle ELSE batch

\* The row is claimed if it is due still; a claim made since it was found is
\* not old for this drain.  The count of tries is the one that was found.
Claim(d) ==
    \E x \in drain[d].found :
       LET free == Due(row[x.key]) /\ (Waiting(row[x.key]) \/ row[x.key] = x.row)
           batch == [drain[d] EXCEPT !.found = @ \ {x}]
       IN  /\ drain[d].at = "claiming"
           /\ IF free
              THEN /\ row' = [row EXCEPT ![x.key].status = "processing",
                                         ![x.key].due = FALSE]
                   /\ drain' = [drain EXCEPT ![d] =
                         [batch EXCEPT !.claimed =
                             @ \cup {[key |-> x.key, tries |-> x.row.tries]}]]
              ELSE row' = row /\ drain' = [drain EXCEPT ![d] = Rest(batch)]
           /\ UNCHANGED <<provider, text, editor, edits, replay, history,
                          events>>

\* The events of the batch are appended one after the other.  An error of the
\* provider that is not retryable gives the event up at once.
Deliver(d) ==
    \E x \in drain[d].claimed :
       /\ drain[d].at = "claiming" /\ drain[d].found = {}
       /\ \/ /\ Append(x.key) /\ events' = events
             /\ drain' = [drain EXCEPT ![d].at = "sent", ![d].now = x]
          \/ /\ Unanswered(x.key) \/ Refused(x.key)
             /\ \E dead \in BOOLEAN :
                   drain' = [drain EXCEPT ![d].at = "failing", ![d].now = x,
                                          ![d].dead = dead]
       /\ UNCHANGED <<row, text, editor, edits, replay, history>>

Done(d) ==
    Rest([drain[d] EXCEPT !.at = "claiming", !.now = None, !.dead = FALSE,
                          !.claimed = @ \ {drain[d].now}])

\* Both marks change the row only while it is claimed, by whomever.  What
\* follows the mark may throw, and the event is then marked failed too.
MarkDelivered(d) ==
    LET k == drain[d].now.key
    IN  /\ drain[d].at = "sent"
        /\ row' = IF Claimed(row[k])
                  THEN [row EXCEPT ![k].status = "delivered", ![k].due = FALSE]
                  ELSE row
        /\ drain' \in {[drain EXCEPT ![d] = Done(d)],
                       [drain EXCEPT ![d].at = "failing"]}
        /\ UNCHANGED <<provider, text, editor, edits, replay, history, events>>

MarkFailed(d) ==
    LET x == drain[d].now
        given == drain[d].dead \/ x.tries + 1 >= MaxAttempts
        failed == [status |-> IF given THEN "dead_letter" ELSE "retry",
                   tries |-> x.tries + 1, due |-> FALSE]
    IN  /\ drain[d].at = "failing"
        /\ row' = IF Claimed(row[x.key]) THEN [row EXCEPT ![x.key] = failed]
                  ELSE row
        /\ drain' = [drain EXCEPT ![d] = Done(d)]
        /\ UNCHANGED <<provider, text, editor, edits, replay, history, events>>

Crash(d) ==
    /\ drain[d].at # "idle"
    /\ events < Events /\ events' = events + 1
    /\ drain' = [drain EXCEPT ![d] = Idle]
    /\ UNCHANGED <<row, provider, text, editor, edits, replay, history>>

\* An administrator replays what failed: found in one statement and reset by
\* its id in the next.
FindReplay(k) ==
    /\ row[k].status \in {"retry", "dead_letter"} /\ replay = None
    /\ events < Events /\ events' = events + 1
    /\ replay' = k
    /\ UNCHANGED <<row, provider, text, drain, editor, edits, history>>

Replay ==
    /\ replay # None
    /\ row' = [row EXCEPT ![replay] = Queued]
    /\ replay' = None
    /\ UNCHANGED <<provider, text, drain, editor, edits, history, events>>

-----------------------------------------------------------------------------
(* Governance: redactConversation, reextractConversation,                  *)
(* deleteConversation.                                                     *)

EditedBy(e) == editor[e].key[1]

\* An edit of the document runs, or its append may still change it: one that
\* was given up and is not accepted, or one that is accepted and not written.
UnderEdit(c) ==
    \/ \E e \in Editors : editor[e].at # "idle" /\ EditedBy(e) = c
    \/ ((flying \ taken) \cup queued) \cap Edits(c) # {}

\* The document is read; its text with the redaction is what will be appended.
Begin(e, c, op) ==
    LET k == <<c, edits[c] + 1>>
        read == text[shown[c]]
    IN  /\ editor[e] = AtRest /\ edits[c] < MaxEdits
        /\ shown[c] # None
        /\ edits' = [edits EXCEPT ![c] = @ + 1]
        /\ text' = [text EXCEPT ![k] =
                       CASE op = "redact" -> read \cup {k}
                         [] op = "reextract" -> read
                         [] op = "delete" -> {}]
        /\ editor' = [editor EXCEPT ![e] =
                        [at |-> IF op = "reextract" THEN "appending" ELSE "erasing",
                         op |-> op, key |-> k]]
        /\ overlap' = IF UnderEdit(c) THEN overlap \cup {c} ELSE overlap
        /\ UNCHANGED <<row, provider, drain, replay, answered, erased, broken,
                       events>>

\* The request ends, with an error unless its redaction is answered.  It is
\* broken if the text is erased and the new one neither taken nor queued.
EndEdit(e, success) ==
    LET k == editor[e].key
    IN  /\ editor' = [editor EXCEPT ![e] = AtRest]
        /\ answered' = IF success /\ editor[e].op = "redact"
                       THEN answered \cup {k} ELSE answered
        /\ broken' = IF /\ ~success /\ editor[e].op = "redact"
                        /\ shown'[k[1]] = None /\ row'[k] = Absent
                        /\ k \notin queued'
                     THEN broken \cup {k[1]} ELSE broken

\* The document is erased.  For a deletion that is all; an error, before or
\* after the provider erased it, ends the request.
Erase(e) ==
    LET c == EditedBy(e)
    IN  /\ editor[e].at = "erasing"
        /\ shown' = [shown EXCEPT ![c] = None]
        /\ UNCHANGED <<row, taken, queued, flying, late>>
        /\ erased' = IF editor[e].op = "delete" THEN erased \cup {c} ELSE erased
        /\ \/ /\ editor[e].op = "redact"
              /\ editor' = [editor EXCEPT ![e].at = "appending"]
              /\ UNCHANGED <<answered, broken>>
           \/ editor[e].op = "delete" /\ EndEdit(e, TRUE)
           \/ EndEdit(e, FALSE)
        /\ UNCHANGED <<text, drain, edits, replay, overlap, events>>

\* The deletion was refused, or is not answered and arrives later, if ever.
NothingErased(e) ==
    /\ editor[e].at = "erasing"
    /\ editor' = [editor EXCEPT ![e] = AtRest]
    /\ \/ UNCHANGED <<late, broken, events>>
       \/ /\ events < Events /\ events' = events + 1
          /\ late' = late \cup {EditedBy(e)}
          /\ broken' = broken \cup {EditedBy(e)}
    /\ UNCHANGED <<row, taken, queued, flying, shown, text, drain, edits,
                   replay, answered, erased, overlap>>

\* What follows the append, or the enqueue, may still throw.
AppendEdit(e) ==
    /\ editor[e].at = "appending"
    /\ row' = row
    /\ \/ /\ Append(editor[e].key) /\ events' = events
          /\ \E success \in BOOLEAN : EndEdit(e, success)
       \/ /\ Unanswered(editor[e].key) \/ Refused(editor[e].key)
          /\ \/ EndEdit(e, FALSE)
             \/ /\ editor[e].op = "redact"
                /\ editor' = [editor EXCEPT ![e].at = "queueing"]
                /\ UNCHANGED <<answered, broken>>
    /\ UNCHANGED <<text, drain, edits, replay, erased, overlap>>

\* Mutant: a redaction the provider did not take is not queued.
NotQueued(k) == row

Enqueued(k) == [row EXCEPT ![k] = Queued]

\* After a retryable error the redaction is left to the outbox.
QueueEdit(e) ==
    /\ editor[e].at = "queueing"
    /\ UNCHANGED provider
    /\ \/ /\ row' = Enqueued(editor[e].key)
          /\ \E success \in BOOLEAN : EndEdit(e, success)
       \/ row' = row /\ EndEdit(e, FALSE)
    /\ UNCHANGED <<text, drain, edits, replay, erased, overlap, events>>

-----------------------------------------------------------------------------
DrainStep(d) ==
    Find(d) \/ Claim(d) \/ Deliver(d) \/ MarkDelivered(d) \/ MarkFailed(d)

EditStep(e) ==
    \/ \E c \in Conversations, op \in {"redact", "reextract", "delete"} :
          Begin(e, c, op)
    \/ Erase(e) \/ NothingErased(e) \/ AppendEdit(e) \/ QueueEdit(e)

Next ==
    \/ \E c \in Conversations : Retain(c)
    \/ \E c \in Conversations : EraseLate(c)
    \/ \E k \in Keys : Arrive(k) \/ Apply(k) \/ ComesDue(k) \/ FindReplay(k)
    \/ Replay
    \/ \E d \in Drains : DrainStep(d) \/ Crash(d)
    \/ \E e \in Editors : EditStep(e)

Spec == Init /\ [][Next]_vars

\* Maintenance runs every minute, and time passes.
Fairness ==
    /\ \A d \in Drains : WF_vars(DrainStep(d))
    /\ \A k \in Keys : WF_vars(ComesDue(k))

FairSpec == Spec /\ Fairness

-----------------------------------------------------------------------------
TypeOK ==
    /\ row \in [Keys -> Rows]
    /\ taken \subseteq Keys /\ queued \subseteq Keys /\ flying \subseteq Keys
    /\ late \subseteq Conversations
    /\ shown \in [Conversations -> Keys \cup {None}]
    /\ text \in [Keys -> SUBSET Keys]
    /\ edits \in [Conversations -> 0 .. MaxEdits]
    /\ replay \in Keys \cup {None}
    /\ answered \subseteq Keys
    /\ erased \subseteq Conversations /\ broken \subseteq Conversations
    /\ overlap \subseteq Conversations
    /\ events \in 0 .. Events

\* What a person was told is redacted is not shown again, and what was
\* deleted does not come back, though appends of the old text are repeated,
\* late or replayed: unless a conversation was edited while another edit of
\* it was under way, in a request or at the provider, which may have accepted
\* its append and not written it (memory-service.ts:992-1020).
RemovedStaysRemoved ==
    \A c \in Conversations \ overlap : shown[c] # None =>
        /\ answered \cap Edits(c) \subseteq text[shown[c]]
        /\ c \notin erased

\* The same of a deletion alone, without the exception.  The code does not
\* keep it: a re-extraction is accepted, a deletion is answered and then the
\* provider writes what it has accepted (memory-service.ts:1057-1068).
DeletedStaysAbsent == \A c \in erased : shown[c] = None

\* A conversation that was accepted is shown, or an event or a request will
\* still bring it, or an event was given up that people can replay; it is
\* lost only by a deletion, or by an edit that stopped after it erased or
\* whose deletion came late (memory-service.ts:1354-1414).
ConversationsAreKept ==
    \A c \in Conversations :
        \/ row[Original(c)] = Absent
        \/ shown[c] # None
        \/ \E k \in queued : k[1] = c
        \/ c \in erased \cup broken
        \/ \E e \in Editors :
              /\ editor[e].at \in {"appending", "queueing"}
              /\ EditedBy(e) = c /\ editor[e].op = "redact"
        \/ \E k \in ({Original(c)} \cup Edits(c)) \ taken :
              row[k].status \notin {"absent", "delivered"}

\* Every conversation that was queued is delivered in the end or given up,
\* though the drain that claimed it died (memory-repository.ts:606-646).
Ended(r) == r.status \in {"delivered", "dead_letter"}

EventsEnd ==
    \A c \in Conversations :
       row[Original(c)].status = "pending" ~> Ended(row[Original(c)])
=============================================================================
