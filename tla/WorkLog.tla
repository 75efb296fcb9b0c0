-------------------------------- MODULE WorkLog --------------------------------
(***************************************************************************)
(* How people's commands reach the event log of a Work.  A command names   *)
(* the revision its author saw and carries a key.  The server takes it in  *)
(* one transaction under the row lock of the Work: a key it knows was      *)
(* carried out before, another revision is a conflict.  The page of each   *)
(* person polls snapshots, waits for one request at a time, and keeps the  *)
(* key of a command that failed for the same command sent again.  A        *)
(* request the page gave up may still arrive, beside a second one of the   *)
(* same key, and a snapshot asked for earlier may replace a later one.     *)
(*                                                                         *)
(* Creating a Work with a plan is one request made of three transactions;  *)
(* the last two are commands whose keys derive from the creation's key.    *)
(*                                                                         *)
(* What a command does to the board, and who is a member, is WorkRuns; the *)
(* events of the workers, appended under the same lock, are to a command   *)
(* what another person's are.                                              *)
(***************************************************************************)
EXTENDS Naturals, Sequences

CONSTANTS
    People,        \* members who may have the Work open
    Owner,         \* the one who creates it
    MaxKeys,       \* bound: [People -> keys a page draws]
    Faults,        \* bound: requests and answers that are lost
    Nobody

ASSUME WorkLogAssumption ==
    /\ Owner \in People /\ Nobody \notin People
    /\ MaxKeys \in [People -> Nat] /\ Faults \in Nat

VARIABLES
    exists,   \* the row of the Work
    log,      \* the keys of its events in order; the revision is their number
    request,  \* [People -> the request the page waits for]
    strays,   \* requests under way that nobody waits for
    pending,  \* [People -> pendingCommand: the key of what is not confirmed]
    drawn,    \* [People -> keys drawn so far]
    given,    \* history: the keys drawn for each command a person gave
    view,     \* [People -> the revision of the snapshot that is shown]
    poll,     \* [People -> the snapshot a refetch is bringing]
    created,  \* the creation was answered with success
    faults    \* faults so far

page == <<pending, drawn, given>>
vars == <<exists, log, request, strays, page, view, poll, created, faults>>

-----------------------------------------------------------------------------
Creation == <<"creation", 0>>
Intent == <<"intent", 0>>
Plan == <<"plan", 0>>
PageKeys == UNION {{p} \X (1 .. MaxKeys[p]) : p \in People}
Keys == PageKeys \cup {Creation, Intent, Plan}

Places == {"free", "creating", "command", "committed", "answered"}

Revision == Len(log)
Logged == {log[i] : i \in DOMAIN log}

Requests == [place : Places, key : Keys, expected : Nat,
             creation : BOOLEAN, ok : BOOLEAN]
Free == [place |-> "free", key |-> Creation, expected |-> 0,
         creation |-> FALSE, ok |-> FALSE]

TypeOK ==
    /\ exists \in BOOLEAN
    /\ log \in Seq(Keys)
    /\ request \in [People -> Requests] /\ strays \subseteq Requests
    /\ pending \in [People -> PageKeys \cup {Nobody}]
    /\ drawn \in [People -> Nat] /\ \A p \in People : drawn[p] <= MaxKeys[p]
    /\ given \in [People -> Seq(SUBSET PageKeys)]
    /\ view \in [People -> Nat \cup {Nobody}]
    /\ poll \in [People -> Nat \cup {Nobody}]
    /\ created \in BOOLEAN
    /\ faults \in 0 .. Faults

Init ==
    /\ exists = FALSE /\ log = <<>>
    /\ request = [p \in People |-> Free] /\ strays = {}
    /\ pending = [p \in People |-> Nobody]
    /\ drawn = [p \in People |-> 0] /\ given = [p \in People |-> <<>>]
    /\ view = [p \in People |-> Nobody] /\ poll = [p \in People |-> Nobody]
    /\ created = FALSE /\ faults = 0

-----------------------------------------------------------------------------
(* The page.                                                               *)

Sent(key, place, expected) ==
    [place |-> place, key |-> key, expected |-> expected,
     creation |-> place = "creating", ok |-> FALSE]

Submit(p, key, place, expected) ==
    /\ request[p] = Free
    /\ request' = [request EXCEPT ![p] = Sent(key, place, expected)]

\* "Create" keeps the key of a creation that failed, so there is one key.
SubmitCreation ==
    /\ ~created
    /\ Submit(Owner, Creation, "creating", 0)
    /\ UNCHANGED <<exists, log, strays, page, view, poll, created, faults>>

\* A command other than the pending one has a key of its own.
Give(p, key) ==
    /\ view[p] # Nobody
    /\ key \in PageKeys
    /\ Submit(p, key, "command", view[p])
    /\ pending' = [pending EXCEPT ![p] = key]
    /\ drawn' = [drawn EXCEPT ![p] = key[2]]

GiveCommand(p) ==
    /\ Give(p, <<p, drawn[p] + 1>>)
    /\ given' = [given EXCEPT ![p] = Append(@, {<<p, drawn[p] + 1>>})]
    /\ UNCHANGED <<exists, log, strays, view, poll, created, faults>>

\* Mutant: every request draws a key.
FreshKey(p) == <<p, drawn[p] + 1>>

KeptKey(p) == pending[p]

\* The pending command is sent again with the revision shown now.
Resend(p) ==
    /\ pending[p] # Nobody
    /\ Give(p, KeptKey(p))
    /\ given' = [given EXCEPT ![p][Len(given[p])] = @ \cup {KeptKey(p)}]
    /\ UNCHANGED <<exists, log, strays, view, poll, created, faults>>

\* Success forgets the pending command and shows the snapshot that came with
\* it; an error keeps the command and asks for the snapshot afresh.
TakeSuccess(p) ==
    LET r == request[p]
    IN  /\ r.place = "answered" /\ r.ok
        /\ created' = (created \/ r.creation)
        /\ IF r.creation THEN UNCHANGED <<pending, view>>
           ELSE /\ pending' = [pending EXCEPT ![p] = Nobody]
                /\ view' = [view EXCEPT ![p] = r.expected]
        /\ request' = [request EXCEPT ![p] = Free]
        /\ UNCHANGED <<exists, log, strays, drawn, given, poll, faults>>

Refetch(p) == IF request[p].creation THEN poll ELSE [poll EXCEPT ![p] = Nobody]

TakeError(p) ==
    /\ request[p].place = "answered" /\ ~request[p].ok
    /\ poll' = Refetch(p)
    /\ request' = [request EXCEPT ![p] = Free]
    /\ UNCHANGED <<exists, log, strays, page, view, created, faults>>

\* The connection fails: for the page that is an error, and the request may
\* have been lost, or be under way still, or have been carried out.
LoseAnswer(p) ==
    /\ request[p] # Free /\ faults < Faults
    /\ faults' = faults + 1
    /\ \/ strays' = strays
       \/ /\ request[p].place # "answered"
          /\ strays' = strays \cup {request[p]}
    /\ poll' = Refetch(p)
    /\ request' = [request EXCEPT ![p] = Free]
    /\ UNCHANGED <<exists, log, page, view, created>>

\* The owner lets others in by a command.
Admitted(p) == p = Owner \/ \E n \in 1 .. MaxKeys[Owner] : <<Owner, n>> \in Logged

\* The snapshot is fetched when the page opens and every three seconds; one
\* fetch is under way at a time.  A fetch that is lost is as one not begun.
Poll(p) ==
    /\ exists /\ Admitted(p) /\ poll[p] = Nobody
    /\ view[p] # Revision
    /\ poll' = [poll EXCEPT ![p] = Revision]
    /\ UNCHANGED <<exists, log, request, strays, page, view, created, faults>>

Show(p) ==
    /\ poll[p] # Nobody
    /\ view' = [view EXCEPT ![p] = poll[p]]
    /\ poll' = [poll EXCEPT ![p] = Nobody]
    /\ UNCHANGED <<exists, log, request, strays, page, created, faults>>

-----------------------------------------------------------------------------
(* The server.                                                             *)

UnderWay == {request[p] : p \in People} \cup strays

Goes(r, next) ==
    \/ /\ strays' = strays
       /\ \E p \in People :
             request[p] = r /\ request' = [request EXCEPT ![p] = next]
    \/ /\ r \in strays
       /\ strays' = (strays \ {r}) \cup
                    (IF next.place = "answered" THEN {} ELSE {next})
       /\ request' = request

\* The row is made or found; the first command expects the revision it had.
Upsert(r) ==
    /\ r.place = "creating"
    /\ exists' = TRUE
    /\ Goes(r, [r EXCEPT !.place = "command", !.key = Intent,
                         !.expected = Revision])
    /\ UNCHANGED <<log, page, view, poll, created, faults>>

\* The transaction of a command: a known key is a success, another revision
\* a conflict, and the action may be refused for reasons of its own.

Known(key) == key \in Logged

\* Mutant: the revision is not compared.
AnyRevision(r) == TRUE

Current(r) == r.expected = Revision

\* Mutant: a conflict is answered as a success.
FailedOk(r) == [r EXCEPT !.place = "answered", !.ok = TRUE]

Failed(r) == [r EXCEPT !.place = "answered", !.expected = 0]
Committed(r) == [r EXCEPT !.place = "committed", !.expected = 0]

Command(r) ==
    /\ r.place = "command"
    /\ \/ Known(r.key) /\ Goes(r, Committed(r)) /\ log' = log
       \/ /\ ~Known(r.key) /\ Current(r)
          /\ Goes(r, Committed(r))
          /\ log' = Append(log, r.key)
       \/ ~Known(r.key) /\ Goes(r, Failed(r)) /\ log' = log
    /\ UNCHANGED <<exists, page, view, poll, created, faults>>

\* The answer is a snapshot read after the transaction; the creation goes on
\* from its revision to the plan.
Snapshot(r) ==
    /\ r.place = "committed"
    /\ Goes(r, IF r.key = Intent
               THEN [r EXCEPT !.place = "command", !.key = Plan,
                              !.expected = Revision]
               ELSE [r EXCEPT !.place = "answered", !.ok = TRUE,
                              !.expected = Revision])
    /\ UNCHANGED <<exists, log, page, view, poll, created, faults>>

-----------------------------------------------------------------------------
Next ==
    \/ SubmitCreation
    \/ \E p \in People :
          \/ GiveCommand(p) \/ Resend(p)
          \/ TakeSuccess(p) \/ TakeError(p) \/ LoseAnswer(p)
          \/ Poll(p) \/ Show(p)
    \/ \E r \in UnderWay : Upsert(r) \/ Command(r) \/ Snapshot(r)

Spec == Init /\ [][Next]_vars

-----------------------------------------------------------------------------
\* What a person asked for once happens at most once, however often it was
\* sent (work-service.ts:361-373, work-page.tsx:185-186).
OncePerWish ==
    \A p \in People : \A n \in DOMAIN given[p] :
        \A i, j \in DOMAIN log :
            log[i] \in given[p][n] /\ log[j] \in given[p][n] => i = j

\* The commands of one person take effect in the order they were given: one
\* that was given up cannot come through behind a later one, though it may
\* still be under way and the page may have gone back to an older snapshot
\* (work-service.ts:377-382).
GivenOrder ==
    \A p \in People : \A m, n \in DOMAIN given[p] : m < n =>
        \A i, j \in DOMAIN log :
            log[i] \in given[p][m] /\ log[j] \in given[p][n] => i < j

\* What a person is told to be done is in the log: for a creation, the
\* intent and, after it, the plan (work-service.ts:263-280).
ToldIsDone ==
    \A r \in UnderWay : r.place = "answered" /\ r.ok =>
        /\ r.key \in Logged
        /\ r.creation =>
               \E i, j \in DOMAIN log : i < j /\ log[i] = Intent /\ log[j] = Plan
=============================================================================
