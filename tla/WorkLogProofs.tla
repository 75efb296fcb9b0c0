----------------------------- MODULE WorkLogProofs -----------------------------
(***************************************************************************)
(* What TLAPS proves of WorkLog, for any number of people, keys and lost   *)
(* requests.                                                               *)
(***************************************************************************)
EXTENDS WorkLog, TLAPS

(* The keys of the log are distinct, those of one person are in the order    *)
(* they were drawn, and the plan comes after the intent.                     *)
LogInv ==
    /\ \A i, j \in DOMAIN log : log[i] = log[j] => i = j
    /\ \A p \in People : \A n \in 1 .. MaxKeys[p], i \in DOMAIN log :
          log[i] = <<p, n>> => n <= drawn[p]
    /\ \A p \in People : \A m, n \in 1 .. MaxKeys[p], i, j \in DOMAIN log :
          log[i] = <<p, m>> /\ log[j] = <<p, n>> /\ m < n => i < j
    /\ \A j \in DOMAIN log : log[j] = Plan =>
          \E i \in DOMAIN log : i < j /\ log[i] = Intent

(* A page shows nothing the log does not have, and only its last command is *)
(* pending; every command was sent under the one key drawn for it.          *)
PageInv ==
    \A p \in People :
       /\ view[p] # Nobody => view[p] <= Revision
       /\ poll[p] # Nobody => poll[p] <= Revision
       /\ pending[p] # Nobody => pending[p] = <<p, drawn[p]>> /\ drawn[p] > 0
       /\ Len(given[p]) = drawn[p]
       /\ \A n \in 1 .. drawn[p] : given[p][n] = {<<p, n>>}

(* A request expects no revision to come, and none that a later command of  *)
(* the same person has left behind: that is why it cannot come through.     *)
OutOfDate(r) ==
    \A p \in People : \A m, n \in 1 .. MaxKeys[p], i \in DOMAIN log :
       r.key = <<p, m>> /\ log[i] = <<p, n>> /\ m < n => r.expected < i

DoneWhenTold(r) ==
    /\ r.place = "committed" => r.key \in Logged
    /\ r.place = "answered" /\ r.ok => r.key \in Logged /\ r.key # Intent
    /\ r.key = Plan => Intent \in Logged

Good(r) ==
    /\ r.place = "command" => OutOfDate(r) /\ r.expected <= Revision
    /\ r.place = "answered" => r.expected <= Revision
    /\ DoneWhenTold(r)
    /\ \A p \in People : \A n \in 1 .. MaxKeys[p] : r.key = <<p, n>> => n <= drawn[p]
    /\ r.creation => r.key \in {Creation, Intent, Plan}
    /\ r.key = Creation => r.place \in {"free", "creating"}
    /\ r.ok => r.place = "answered"

RequestInv == \A r \in UnderWay : Good(r)

IInv == TypeOK /\ LogInv /\ PageInv /\ RequestInv

-----------------------------------------------------------------------------
(* Facts about keys and sequences. *)

LEMMA PageKey ==
    ASSUME NEW k
    PROVE  k \in PageKeys <=>
              \E p \in People : \E n \in 1 .. MaxKeys[p] : k = <<p, n>>
BY DEF PageKeys

(* A key of a page is none of the keys the server derives. *)
LEMMA KeysDiffer ==
    /\ Creation \notin PageKeys /\ Intent \notin PageKeys /\ Plan \notin PageKeys
    /\ Creation # Intent /\ Creation # Plan /\ Intent # Plan
BY WorkLogAssumption DEF PageKeys, Creation, Intent, Plan

LEMMA LoggedAt ==
    ASSUME TypeOK, NEW k
    PROVE  k \in Logged <=> \E i \in 1 .. Len(log) : log[i] = k
BY DEF Logged, TypeOK

(* What an append does to the log. *)
LEMMA Appended ==
    ASSUME TypeOK, NEW k \in Keys, log' = Append(log, k)
    PROVE  /\ log' \in Seq(Keys)
           /\ Len(log') = Len(log) + 1
           /\ DOMAIN log' = 1 .. Len(log) + 1
           /\ \A i \in 1 .. Len(log) : log'[i] = log[i]
           /\ log'[Len(log) + 1] = k
BY DEF TypeOK

-----------------------------------------------------------------------------
(* The log and the drawn keys only grow, and what is good stays good. *)
Grows ==
    /\ \/ log' = log
       \/ \E k \in Keys : log' = Append(log, k)
    /\ drawn' \in [People -> Nat]
    /\ \A p \in People : drawn'[p] >= drawn[p]

LEMMA LoggedGrows ==
    ASSUME TypeOK, Grows
    PROVE  Logged \subseteq Logged' /\ Revision <= Revision' /\ Revision' \in Nat
<1>1. CASE log' = log
  BY <1>1 DEF Logged, Revision, TypeOK
<1>2. CASE \E k \in Keys : log' = Append(log, k)
  <2>1. PICK k \in Keys : log' = Append(log, k)
    BY <1>2
  <2>2. Logged \subseteq Logged'
    <3> SUFFICES ASSUME NEW i \in DOMAIN log PROVE log[i] \in Logged'
      BY DEF Logged
    <3>1. i \in DOMAIN log' /\ log'[i] = log[i]
      BY <2>1, Appended DEF TypeOK
    <3> QED
      BY <3>1 DEF Logged
  <2> QED
    BY <2>1, <2>2, Appended DEF Revision, TypeOK
<1> QED
  BY <1>1, <1>2 DEF Grows

LEMMA GoodStays ==
    ASSUME TypeOK, Grows, NEW r \in Requests, Good(r)
    PROVE  Good(r)'
<1>1. /\ Logged \subseteq Logged' /\ Revision <= Revision' /\ Revision' \in Nat
      /\ Revision \in Nat /\ r.expected \in Nat
  BY LoggedGrows DEF TypeOK, Revision, Requests
<1>2. ASSUME OutOfDate(r), r.expected <= Revision
      PROVE  OutOfDate(r)'
  <2>1. CASE log' = log
    BY <1>2, <2>1 DEF OutOfDate
  <2>2. CASE \E k \in Keys : log' = Append(log, k)
    <3>1. PICK k \in Keys : log' = Append(log, k)
      BY <2>2
    <3> SUFFICES ASSUME NEW p \in People, NEW m \in 1 .. MaxKeys[p],
                        NEW n \in 1 .. MaxKeys[p], NEW i \in DOMAIN log',
                        r.key = <<p, m>>, log'[i] = <<p, n>>, m < n
                 PROVE  r.expected < i
      BY DEF OutOfDate
    <3>2. CASE i = Len(log) + 1
      BY <1>1, <1>2, <3>2 DEF Revision
    <3>3. CASE i \in 1 .. Len(log)
      <4>1. log[i] = <<p, n>> /\ i \in DOMAIN log
        BY <3>1, <3>3, Appended DEF TypeOK
      <4> QED
        BY <4>1, <1>2 DEF OutOfDate
    <3> QED
      BY <3>1, <3>2, <3>3, Appended DEF TypeOK
  <2> QED
    BY <2>1, <2>2 DEF Grows
<1>3. \A p \in People : \A n \in 1 .. MaxKeys[p] : r.key = <<p, n>> => n <= drawn'[p]
  BY WorkLogAssumption DEF Good, Grows, TypeOK
<1>4. DoneWhenTold(r)'
  BY <1>1 DEF Good, DoneWhenTold
<1> QED
  BY <1>1, <1>2, <1>3, <1>4 DEF Good

(* So an action only has to show the request it makes. *)
LEMMA RequestsGood ==
    ASSUME IInv, Grows, NEW next, UnderWay' \subseteq UnderWay \cup {next}, Good(next)'
    PROVE  RequestInv'
<1>1. \A r \in UnderWay : r \in Requests
  BY DEF IInv, TypeOK, UnderWay
<1>2. \A r \in UnderWay : Good(r)'
  BY <1>1, GoodStays DEF IInv, RequestInv
<1> QED
  BY <1>2 DEF RequestInv

LEMMA Gone ==
    ASSUME NEW r, NEW next, TypeOK, Goes(r, next), next \in Requests
    PROVE  /\ UnderWay' \subseteq UnderWay \cup {next}
           /\ request' \in [People -> Requests] /\ strays' \subseteq Requests
<1>1. CASE /\ strays' = strays
           /\ \E p \in People : request[p] = r /\ request' = [request EXCEPT ![p] = next]
  BY <1>1 DEF TypeOK, UnderWay
<1>2. CASE /\ strays' = (strays \ {r}) \cup (IF next.place = "answered" THEN {} ELSE {next})
           /\ request' = request
  BY <1>2 DEF TypeOK, UnderWay
<1> QED
  BY <1>1, <1>2 DEF Goes

LEMMA FreeIsGood ==
    Free \in Requests /\ Good(Free)'
BY KeysDiffer DEF Free, Requests, Places, Keys, Good, DoneWhenTold, Creation, Intent, Plan


-----------------------------------------------------------------------------
(* The parts of the invariant that most steps leave alone. *)

LEMMA LogStays ==
    ASSUME IInv, Grows, log' = log
    PROVE  LogInv'
<1>1. \A p \in People : \A n \in 1 .. MaxKeys[p] : n <= drawn[p] => n <= drawn'[p]
  BY WorkLogAssumption DEF Grows, IInv, TypeOK
<1> QED
  BY <1>1 DEF IInv, LogInv

LEMMA PageStays ==
    ASSUME IInv, Grows, UNCHANGED page,
           \A p \in People : view'[p] \in {view[p], poll[p]},
           \A p \in People : poll'[p] \in {poll[p], Nobody, Revision}
    PROVE  PageInv'
<1>1. Revision \in Nat /\ Revision' \in Nat /\ Revision <= Revision'
  BY LoggedGrows DEF IInv, TypeOK, Revision
<1>2. ASSUME NEW p \in People
      PROVE  /\ view'[p] # Nobody => view'[p] <= Revision'
             /\ poll'[p] # Nobody => poll'[p] <= Revision'
  <2>1. /\ view[p] \in Nat \cup {Nobody} /\ poll[p] \in Nat \cup {Nobody}
        /\ view[p] # Nobody => view[p] <= Revision
        /\ poll[p] # Nobody => poll[p] <= Revision
    BY DEF IInv, TypeOK, PageInv
  <2> QED
    BY <1>1, <2>1
<1> QED
  BY <1>2 DEF page, IInv, PageInv

-----------------------------------------------------------------------------
(* The page. *)

LEMMA SentGood ==
    ASSUME IInv, Grows, NEW p \in People, NEW k \in Keys, NEW place \in Places,
           NEW e \in Nat, Submit(p, k, place, e), strays' = strays,
           Good(Sent(k, place, e))'
    PROVE  RequestInv' /\ request' \in [People -> Requests]
<1>1. Sent(k, place, e) \in Requests
  BY DEF Sent, Requests
<1>2. UnderWay' \subseteq UnderWay \cup {Sent(k, place, e)}
  BY DEF UnderWay, Submit, IInv, TypeOK
<1> QED
  BY <1>1, <1>2, RequestsGood DEF Submit, IInv, TypeOK

LEMMA FreeGood ==
    ASSUME IInv, Grows, NEW p \in People, request' = [request EXCEPT ![p] = Free],
           strays' \subseteq strays \cup {request[p]}
    PROVE  /\ RequestInv' /\ request' \in [People -> Requests]
           /\ strays' \subseteq Requests
<1>1. UnderWay' \subseteq UnderWay \cup {Free}
  BY DEF UnderWay, IInv, TypeOK
<1> QED
  BY <1>1, FreeIsGood, RequestsGood DEF IInv, TypeOK

LEMMA CreationSubmitted ==
    ASSUME IInv, SubmitCreation
    PROVE  IInv'
<1>1. Grows
  BY DEF Grows, SubmitCreation, page, IInv, TypeOK
<1>2. Creation \in Keys /\ "creating" \in Places
  BY DEF Keys, Places
<1>3. Good(Sent(Creation, "creating", 0))'
  BY KeysDiffer, PageKey DEF Good, DoneWhenTold, Sent
<1>4. RequestInv' /\ request' \in [People -> Requests]
  BY <1>1, <1>2, <1>3, SentGood, WorkLogAssumption DEF SubmitCreation
<1>5. TypeOK'
  BY <1>4 DEF SubmitCreation, page, IInv, TypeOK
<1>6. PageInv'
  BY DEF SubmitCreation, page, IInv, PageInv, Revision
<1>7. LogInv'
  BY <1>1, LogStays DEF SubmitCreation
<1> QED
  BY <1>4, <1>5, <1>6, <1>7 DEF IInv

(* A new command of a page, and the one sent again, carry the last key.     *)
LEMMA Given ==
    ASSUME IInv, NEW p \in People, NEW k, Give(p, k),
           UNCHANGED <<exists, log, strays, view, poll, created, faults>>,
           k = <<p, k[2]>>, k[2] \in Nat, k[2] >= drawn[p], k[2] > 0,
           given' \in [People -> Seq(SUBSET PageKeys)],
           Len(given'[p]) = k[2],
           \A n \in 1 .. k[2] : given'[p][n] = {<<p, n>>},
           \A q \in People \ {p} : given'[q] = given[q]
    PROVE  IInv'
<1> DEFINE r == Sent(k, "command", view[p])
<1>1. k \in PageKeys /\ k \in Keys /\ k[2] \in 1 .. MaxKeys[p]
  <2>1. PICK q \in People : \E n \in 1 .. MaxKeys[q] : k = <<q, n>>
    BY PageKey DEF Give
  <2> QED
    BY <2>1 DEF Give, Keys
<1>2. drawn' = [drawn EXCEPT ![p] = k[2]]
  BY DEF Give
<1>3. Grows
  BY <1>2 DEF Grows, IInv, TypeOK
<1>4. view[p] \in Nat /\ view[p] <= Revision
  BY DEF Give, IInv, TypeOK, PageInv
<1>5. \A n \in 1 .. MaxKeys[p], i \in DOMAIN log : log[i] = <<p, n>> => n <= k[2]
  BY <1>1, WorkLogAssumption DEF IInv, LogInv, TypeOK
<1>6. Good(r)'
  <2>1. OutOfDate(r)'
    <3> SUFFICES ASSUME NEW q \in People, NEW m \in 1 .. MaxKeys[q],
                        NEW n \in 1 .. MaxKeys[q], NEW i \in DOMAIN log,
                        k = <<q, m>>, log[i] = <<q, n>>, m < n
                 PROVE  FALSE
      BY DEF OutOfDate, Sent
    <3>1. q = p /\ m = k[2]
      OBVIOUS
    <3> QED
      BY <1>1, <1>5, <3>1, WorkLogAssumption
  <2>2. \A q \in People : \A n \in 1 .. MaxKeys[q] : k = <<q, n>> => n <= drawn'[q]
    BY <1>2 DEF IInv, TypeOK
  <2> QED
    BY <2>1, <2>2, <1>1, <1>4, KeysDiffer
    DEF Good, DoneWhenTold, Sent, Revision
<1>7. RequestInv' /\ request' \in [People -> Requests]
  BY <1>1, <1>3, <1>4, <1>6, SentGood DEF Give, Places
<1>8. TypeOK'
  <2>1. pending' \in [People -> PageKeys \cup {Nobody}]
    BY <1>1 DEF Give, IInv, TypeOK
  <2>2. drawn' \in [People -> Nat] /\ \A q \in People : drawn'[q] <= MaxKeys[q]
    BY <1>1, <1>2, WorkLogAssumption DEF IInv, TypeOK
  <2> QED
    BY <1>7, <2>1, <2>2 DEF IInv, TypeOK
<1>9. PageInv'
  <2> SUFFICES ASSUME NEW q \in People
               PROVE  /\ view[q] # Nobody => view[q] <= Revision
                      /\ poll[q] # Nobody => poll[q] <= Revision
                      /\ pending'[q] # Nobody =>
                            pending'[q] = <<q, drawn'[q]>> /\ drawn'[q] > 0
                      /\ Len(given'[q]) = drawn'[q]
                      /\ \A n \in 1 .. drawn'[q] : given'[q][n] = {<<q, n>>}
    BY DEF PageInv, Revision
  <2>1. CASE q = p
    BY <1>2, <2>1 DEF Give, IInv, TypeOK, PageInv
  <2>2. CASE q # p
    BY <1>2, <2>2 DEF Give, IInv, TypeOK, PageInv
  <2> QED
    BY <2>1, <2>2
<1>10. LogInv'
  BY <1>3, LogStays
<1> QED
  BY <1>7, <1>8, <1>9, <1>10 DEF IInv

LEMMA CommandGiven ==
    ASSUME IInv, NEW p \in People, GiveCommand(p)
    PROVE  IInv'
<1> DEFINE k == <<p, drawn[p] + 1>>
<1>1. /\ given[p] \in Seq(SUBSET PageKeys) /\ Len(given[p]) = drawn[p]
      /\ drawn[p] \in Nat /\ k \in PageKeys
      /\ \A n \in 1 .. drawn[p] : given[p][n] = {<<p, n>>}
  BY DEF IInv, TypeOK, PageInv, GiveCommand, Give
<1>2. given' = [given EXCEPT ![p] = Append(given[p], {k})]
  BY DEF GiveCommand
<1>3. given' \in [People -> Seq(SUBSET PageKeys)]
  BY <1>1, <1>2 DEF IInv, TypeOK
<1>4. given'[p] = Append(given[p], {k})
  BY <1>2 DEF IInv, TypeOK
<1>5. /\ Len(given'[p]) = drawn[p] + 1
      /\ \A n \in 1 .. drawn[p] + 1 : given'[p][n] = {<<p, n>>}
  BY <1>1, <1>4
<1>6. \A q \in People \ {p} : given'[q] = given[q]
  BY <1>2 DEF IInv, TypeOK
<1>7. k[2] = drawn[p] + 1 /\ k = <<p, k[2]>>
  OBVIOUS
<1>8. /\ Give(p, k)
      /\ UNCHANGED <<exists, log, strays, view, poll, created, faults>>
  BY DEF GiveCommand
<1> HIDE DEF k
<1>9. /\ k[2] \in Nat /\ k[2] >= drawn[p] /\ k[2] > 0
      /\ Len(given'[p]) = k[2]
      /\ \A n \in 1 .. k[2] : given'[p][n] = {<<p, n>>}
  BY <1>1, <1>5, <1>7
<1> QED
  BY <1>3, <1>6, <1>7, <1>8, <1>9, Given

LEMMA CommandResent ==
    ASSUME IInv, NEW p \in People, Resend(p)
    PROVE  IInv'
<1> DEFINE k == pending[p]
<1>1. /\ given[p] \in Seq(SUBSET PageKeys) /\ Len(given[p]) = drawn[p]
      /\ drawn[p] \in Nat /\ drawn[p] > 0 /\ k = <<p, drawn[p]>>
      /\ k \in PageKeys
      /\ \A n \in 1 .. drawn[p] : given[p][n] = {<<p, n>>}
  BY DEF IInv, TypeOK, PageInv, Resend, Give, KeptKey
<1>2. given' = given
  <2>1. given[p][Len(given[p])] \cup {k} = given[p][Len(given[p])]
    BY <1>1
  <2>2. given' = [given EXCEPT ![p] =
                    [given[p] EXCEPT ![Len(given[p])] = given[p][Len(given[p])]]]
    BY <2>1 DEF Resend, KeptKey
  <2>3. [given[p] EXCEPT ![Len(given[p])] = given[p][Len(given[p])]] = given[p]
    BY <1>1
  <2> QED
    BY <2>2, <2>3 DEF IInv, TypeOK
<1>3. k[2] = drawn[p] /\ k = <<p, k[2]>>
  BY <1>1
<1>4. /\ Give(p, k)
      /\ UNCHANGED <<exists, log, strays, view, poll, created, faults>>
  BY DEF Resend, KeptKey
<1> HIDE DEF k
<1>5. /\ k[2] \in Nat /\ k[2] >= drawn[p] /\ k[2] > 0
      /\ Len(given'[p]) = k[2]
      /\ \A n \in 1 .. k[2] : given'[p][n] = {<<p, n>>}
  BY <1>1, <1>2, <1>3
<1>6. /\ given' \in [People -> Seq(SUBSET PageKeys)]
      /\ \A q \in People \ {p} : given'[q] = given[q]
  BY <1>2 DEF IInv, TypeOK
<1> QED
  BY <1>3, <1>4, <1>5, <1>6, Given

LEMMA SuccessTaken ==
    ASSUME IInv, NEW p \in People, TakeSuccess(p)
    PROVE  IInv'
<1> DEFINE r == request[p]
<1>1. Grows
  BY DEF Grows, TakeSuccess, IInv, TypeOK
<1>2. r \in UnderWay /\ r \in Requests /\ Good(r) /\ r.place = "answered"
  BY DEF TakeSuccess, UnderWay, IInv, TypeOK, RequestInv
<1>3. r.expected \in Nat /\ r.expected <= Revision
  BY <1>2 DEF Good, Requests
<1>4. RequestInv' /\ request' \in [People -> Requests]
  BY <1>1, FreeGood DEF TakeSuccess
<1>5. /\ view' = view \/ view' = [view EXCEPT ![p] = r.expected]
      /\ pending' = pending \/ pending' = [pending EXCEPT ![p] = Nobody]
  BY DEF TakeSuccess
<1>6. TypeOK'
  <2>1. view' \in [People -> Nat \cup {Nobody}]
    BY <1>3, <1>5 DEF IInv, TypeOK
  <2>2. pending' \in [People -> PageKeys \cup {Nobody}]
    BY <1>5 DEF IInv, TypeOK
  <2>3. created' \in BOOLEAN
    BY <1>2 DEF TakeSuccess, IInv, TypeOK, Requests
  <2> QED
    BY <1>4, <2>1, <2>2, <2>3 DEF TakeSuccess, IInv, TypeOK
<1>7. PageInv'
  <2>1. ASSUME NEW q \in People
        PROVE  /\ view'[q] # Nobody => view'[q] <= Revision
               /\ pending'[q] # Nobody =>
                     pending'[q] = <<q, drawn[q]>> /\ drawn[q] > 0
    BY <1>3, <1>5 DEF IInv, TypeOK, PageInv
  <2> QED
    BY <2>1 DEF TakeSuccess, IInv, PageInv, Revision
<1>8. LogInv'
  BY <1>1, LogStays DEF TakeSuccess
<1> QED
  BY <1>4, <1>6, <1>7, <1>8 DEF IInv

LEMMA AnswerGone ==
    ASSUME IInv, NEW p \in People, TakeError(p) \/ LoseAnswer(p)
    PROVE  IInv'
<1>1. /\ UNCHANGED <<exists, log, page, view, created>>
      /\ request' = [request EXCEPT ![p] = Free] /\ poll' = Refetch(p)
      /\ strays' \subseteq strays \cup {request[p]}
  BY DEF TakeError, LoseAnswer
<1>2. faults' \in 0 .. Faults
  BY WorkLogAssumption DEF TakeError, LoseAnswer, IInv, TypeOK
<1>3. Grows
  BY <1>1 DEF Grows, page, IInv, TypeOK
<1>4. /\ RequestInv' /\ request' \in [People -> Requests]
      /\ strays' \subseteq Requests
  BY <1>1, <1>3, FreeGood
<1>5. poll' = poll \/ poll' = [poll EXCEPT ![p] = Nobody]
  BY <1>1 DEF Refetch
<1>6. TypeOK'
  <2>1. poll' \in [People -> Nat \cup {Nobody}]
    BY <1>5 DEF IInv, TypeOK
  <2> QED
    BY <1>1, <1>2, <1>4, <2>1 DEF page, IInv, TypeOK
<1>7. PageInv'
  <2>1. \A q \in People : poll'[q] \in {poll[q], Nobody, Revision}
    BY <1>5 DEF IInv, TypeOK
  <2> QED
    BY <1>1, <1>3, <2>1, PageStays
<1>8. LogInv'
  BY <1>1, <1>3, LogStays
<1> QED
  BY <1>4, <1>6, <1>7, <1>8 DEF IInv

LEMMA SnapshotShown ==
    ASSUME IInv, NEW p \in People, Poll(p) \/ Show(p)
    PROVE  IInv'
<1>1. UNCHANGED <<exists, log, request, strays, page, created, faults>>
  BY DEF Poll, Show
<1>2. Grows
  BY <1>1 DEF Grows, page, IInv, TypeOK
<1>3. /\ view' \in [People -> Nat \cup {Nobody}]
      /\ poll' \in [People -> Nat \cup {Nobody}]
      /\ \A q \in People : /\ view'[q] \in {view[q], poll[q]}
                           /\ poll'[q] \in {poll[q], Nobody, Revision}
  <2>1. CASE Poll(p)
    BY <2>1 DEF Poll, Revision, IInv, TypeOK
  <2>2. CASE Show(p)
    BY <2>2 DEF Show, IInv, TypeOK
  <2> QED
    BY <2>1, <2>2
<1>4. TypeOK'
  BY <1>1, <1>3 DEF page, IInv, TypeOK
<1>5. PageInv'
  BY <1>1, <1>2, <1>3, PageStays
<1>6. RequestInv'
  BY <1>1, FreeIsGood DEF RequestInv, UnderWay, Good, OutOfDate, DoneWhenTold,
                          Logged, Revision, IInv, page
<1>7. LogInv'
  BY <1>1, <1>2, LogStays
<1> QED
  BY <1>4, <1>5, <1>6, <1>7 DEF IInv

-----------------------------------------------------------------------------
(* The server. *)

LEMMA WorkUpserted ==
    ASSUME IInv, NEW r \in UnderWay, Upsert(r)
    PROVE  IInv'
<1>1. Grows
  BY DEF Grows, Upsert, page, IInv, TypeOK
<1>2. r \in Requests /\ Good(r) /\ r.place = "creating" /\ Revision \in Nat
  BY DEF Upsert, UnderWay, IInv, TypeOK, RequestInv, Revision
<1>3. PICK next : /\ next = [r EXCEPT !.place = "command", !.key = Intent,
                                      !.expected = Revision]
                  /\ Goes(r, next)
  BY DEF Upsert
<1>4. /\ next.place = "command" /\ next.key = Intent /\ next.ok = r.ok
      /\ next.creation = r.creation /\ next.expected = Revision
      /\ next \in Requests
  BY <1>2, <1>3 DEF Requests, Places, Keys
<1>5. Good(next)'
  <2>1. \A p \in People : \A n \in 1 .. MaxKeys[p] : next.key # <<p, n>>
    BY <1>4, KeysDiffer, PageKey
  <2>2. OutOfDate(next)'
    BY <2>1 DEF OutOfDate
  <2>3. next.expected <= Revision'
    BY <1>2, <1>4 DEF Upsert, Revision
  <2> QED
    BY <1>2, <1>4, <2>1, <2>2, <2>3, KeysDiffer DEF Good, DoneWhenTold
<1>6. /\ UnderWay' \subseteq UnderWay \cup {next}
      /\ request' \in [People -> Requests] /\ strays' \subseteq Requests
  BY <1>3, <1>4, Gone DEF IInv
<1>7. RequestInv'
  BY <1>1, <1>5, <1>6, RequestsGood
<1>8. TypeOK'
  BY <1>6 DEF Upsert, page, IInv, TypeOK
<1>9. PageInv'
  BY DEF Upsert, page, IInv, PageInv, Revision
<1>10. LogInv'
  BY <1>1, LogStays DEF Upsert
<1> QED
  BY <1>7, <1>8, <1>9, <1>10 DEF IInv

(* A request that goes on to a place where its revision no longer matters. *)
LEMMA Settled ==
    ASSUME IInv, Grows, NEW r \in UnderWay, r.place = "command",
           NEW place \in {"committed", "answered"},
           place = "committed" => r.key \in Logged'
    PROVE  LET next == [r EXCEPT !.place = place, !.expected = 0]
           IN  next \in Requests /\ Good(next)'
<1> DEFINE next == [r EXCEPT !.place = place, !.expected = 0]
<1>1. r \in Requests /\ Good(r) /\ Good(r)' /\ Revision' \in Nat
  BY GoodStays, LoggedGrows DEF UnderWay, IInv, TypeOK, RequestInv
<1>2. next \in Requests
  BY <1>1 DEF Requests, Places
<1>3. /\ next.place = place /\ next.key = r.key /\ next.ok = r.ok
      /\ next.creation = r.creation /\ next.expected = 0
  BY <1>1 DEF Requests
<1> HIDE DEF next
<1>4. Good(next)'
  BY <1>1, <1>3 DEF Good, DoneWhenTold
<1> QED
  BY <1>2, <1>4 DEF next

(* The append keeps the order: a key of an earlier command of the same       *)
(* person cannot expect the revision the later one made.                     *)
LEMMA Logs ==
    ASSUME IInv, Grows, NEW r \in UnderWay, r.place = "command",
           ~Known(r.key), Current(r), log' = Append(log, r.key)
    PROVE  LogInv'
<1> DEFINE k == r.key
           new == Len(log) + 1
<1>1. /\ r \in Requests /\ k \in Keys /\ TypeOK /\ LogInv /\ Good(r)
      /\ OutOfDate(r) /\ r.expected = Len(log) /\ Len(log) \in Nat
  <2>1. r \in Requests /\ TypeOK /\ LogInv /\ Good(r)
    BY DEF UnderWay, IInv, TypeOK, RequestInv
  <2> QED
    BY <2>1 DEF TypeOK, Requests, Good, Current, Revision
<1>2. /\ DOMAIN log' = 1 .. new /\ DOMAIN log = 1 .. Len(log)
      /\ \A i \in 1 .. Len(log) : log'[i] = log[i] /\ log[i] # k
      /\ log'[new] = k
  BY <1>1, Appended DEF TypeOK, Known, Logged
<1> HIDE DEF k, new
<1>3. \A i \in 1 .. new : i = new \/ i \in 1 .. Len(log)
  BY <1>1 DEF new
<1>4. \A i, j \in DOMAIN log' : log'[i] = log'[j] => i = j
  BY <1>1, <1>2, <1>3 DEF LogInv
<1>5. ASSUME NEW p \in People, NEW n \in 1 .. MaxKeys[p], NEW i \in DOMAIN log',
             log'[i] = <<p, n>>
      PROVE  n <= drawn'[p]
  <2>1. CASE i = new
    BY <1>1, <1>2, <1>5, <2>1, GoodStays DEF Good, k
  <2>2. CASE i \in 1 .. Len(log)
    <3>1. n <= drawn[p]
      BY <1>1, <1>2, <1>5, <2>2 DEF LogInv
    <3> QED
      BY <1>1, <3>1, WorkLogAssumption DEF Grows, TypeOK
  <2> QED
    BY <1>2, <1>3, <2>1, <2>2
<1>6. ASSUME NEW p \in People, NEW m \in 1 .. MaxKeys[p], NEW n \in 1 .. MaxKeys[p],
             NEW i \in DOMAIN log', NEW j \in DOMAIN log',
             log'[i] = <<p, m>>, log'[j] = <<p, n>>, m < n
      PROVE  i < j
  <2>1. CASE i \in 1 .. Len(log) /\ j \in 1 .. Len(log)
    <3>1. /\ i \in DOMAIN log /\ log[i] = <<p, m>>
          /\ j \in DOMAIN log /\ log[j] = <<p, n>>
      BY <1>2, <1>6, <2>1
    <3> QED
      BY <1>1, <1>6, <3>1 DEF LogInv
  <2>2. CASE i \in 1 .. Len(log) /\ j = new
    BY <1>1, <2>2 DEF new
  <2>3. CASE i = new /\ j \in 1 .. Len(log)
    <3>1. k = <<p, m>> /\ log[j] = <<p, n>> /\ j \in DOMAIN log
      BY <1>2, <1>6, <2>3
    <3>2. r.expected < j
      BY <1>1, <1>6, <3>1 DEF OutOfDate, k
    <3> QED
      BY <1>1, <2>3, <3>2
  <2>4. CASE i = new /\ j = new
    BY <1>6, <2>4
  <2> QED
    BY <1>2, <1>3, <2>1, <2>2, <2>3, <2>4
<1>7. ASSUME NEW j \in DOMAIN log', log'[j] = Plan
      PROVE  \E i \in DOMAIN log' : i < j /\ log'[i] = Intent
  <2>1. CASE j = new
    <3>1. Intent \in Logged
      BY <1>1, <1>2, <1>7, <2>1 DEF Good, DoneWhenTold, k
    <3>2. PICK i \in 1 .. Len(log) : log[i] = Intent
      BY <1>1, <3>1, LoggedAt
    <3>3. i < j /\ log'[i] = Intent /\ i \in DOMAIN log'
      BY <1>1, <1>2, <2>1, <3>2 DEF new
    <3> QED
      BY <3>3
  <2>2. CASE j \in 1 .. Len(log)
    <3>1. PICK i \in DOMAIN log : i < j /\ log[i] = Intent
      BY <1>1, <1>2, <1>7, <2>2 DEF LogInv
    <3>2. i \in DOMAIN log' /\ log'[i] = Intent
      BY <1>1, <1>2, <3>1 DEF new
    <3> QED
      BY <3>1, <3>2
  <2> QED
    BY <1>2, <1>3, <2>1, <2>2
<1> QED
  BY <1>4, <1>5, <1>6, <1>7 DEF LogInv

LEMMA CommandTaken ==
    ASSUME IInv, NEW r \in UnderWay, Command(r)
    PROVE  IInv'
<1> DEFINE Next1(place) == [r EXCEPT !.place = place, !.expected = 0]
<1>1. /\ r \in Requests /\ r.key \in Keys /\ r.place = "command" /\ TypeOK
  BY DEF Command, UnderWay, IInv, TypeOK, Requests
<1>2. Grows
  BY <1>1 DEF Grows, Command, page, IInv, TypeOK
<1>3. PICK place \in {"committed", "answered"} :
         /\ Goes(r, Next1(place))
         /\ place = "committed" => r.key \in Logged'
  <2>1. CASE Known(r.key) /\ Goes(r, Committed(r)) /\ log' = log
    BY <2>1 DEF Committed, Known, Logged
  <2>2. CASE Goes(r, Committed(r)) /\ log' = Append(log, r.key)
    <3>1. r.key \in Logged'
      <4>1. Len(log) + 1 \in DOMAIN log' /\ log'[Len(log) + 1] = r.key
        BY <1>1, <2>2, Appended DEF TypeOK
      <4> QED
        BY <4>1 DEF Logged
    <3> QED
      BY <2>2, <3>1 DEF Committed
  <2>3. CASE Goes(r, Failed(r))
    BY <2>3 DEF Failed
  <2> QED
    BY <2>1, <2>2, <2>3 DEF Command
<1>4. Next1(place) \in Requests /\ Good(Next1(place))'
  BY <1>1, <1>2, <1>3, Settled
<1>5. /\ UnderWay' \subseteq UnderWay \cup {Next1(place)}
      /\ request' \in [People -> Requests] /\ strays' \subseteq Requests
  BY <1>1, <1>3, <1>4, Gone
<1>6. RequestInv'
  BY <1>2, <1>4, <1>5, RequestsGood
<1>7. TypeOK'
  <2>1. log' \in Seq(Keys)
    BY <1>1, Appended DEF Command, TypeOK
  <2> QED
    BY <1>5, <2>1 DEF Command, page, IInv, TypeOK
<1>8. PageInv'
  BY <1>2, PageStays DEF Command
<1>9. LogInv'
  <2>1. CASE log' = log
    BY <1>2, <2>1, LogStays
  <2>2. CASE ~Known(r.key) /\ Current(r) /\ log' = Append(log, r.key)
    BY <1>1, <1>2, <2>2, Logs
  <2> QED
    BY <2>1, <2>2 DEF Command
<1> QED
  BY <1>6, <1>7, <1>8, <1>9 DEF IInv

LEMMA SnapshotTaken ==
    ASSUME IInv, NEW r \in UnderWay, Snapshot(r)
    PROVE  IInv'
<1> DEFINE planned == [r EXCEPT !.place = "command", !.key = Plan,
                                !.expected = Revision]
           done == [r EXCEPT !.place = "answered", !.ok = TRUE,
                             !.expected = Revision]
<1>1. Grows
  BY DEF Grows, Snapshot, page, IInv, TypeOK
<1>2. /\ r \in Requests /\ Good(r) /\ Good(r)' /\ r.place = "committed"
      /\ Revision \in Nat /\ Revision' = Revision /\ Logged' = Logged
      /\ r.key \in Logged
  <2>1. r \in Requests /\ TypeOK /\ Good(r) /\ r.place = "committed" /\ log' = log
    BY DEF Snapshot, UnderWay, IInv, TypeOK, RequestInv
  <2>2. Good(r)'
    BY <1>1, <2>1, GoodStays
  <2> QED
    BY <2>1, <2>2 DEF TypeOK, Revision, Logged, Good, DoneWhenTold
<1>3. PICK next \in {planned, done} :
         /\ Goes(r, next)
         /\ next = planned => r.key = Intent
         /\ next = done => r.key # Intent
  <2>1. planned # done
    BY <1>2 DEF Requests
  <2> QED
    BY <2>1 DEF Snapshot
<1>4. next \in Requests /\ Good(next)'
  <2>1. CASE next = planned
    <3>1. /\ next.place = "command" /\ next.key = Plan /\ next.ok = r.ok
          /\ next.creation = r.creation /\ next.expected = Revision
      BY <1>2, <2>1 DEF Requests
    <3>2. OutOfDate(next)'
      BY <3>1, KeysDiffer, PageKey DEF OutOfDate
    <3>3. \A p \in People : \A n \in 1 .. MaxKeys[p] : next.key # <<p, n>>
      BY <3>1, KeysDiffer, PageKey
    <3>4. Good(next)'
      BY <1>2, <1>3, <2>1, <3>1, <3>2, <3>3, KeysDiffer DEF Good, DoneWhenTold
    <3> QED
      BY <1>2, <2>1, <3>4 DEF Requests, Places, Keys
  <2>2. CASE next = done
    <3>1. /\ next.place = "answered" /\ next.key = r.key /\ next.ok
          /\ next.creation = r.creation /\ next.expected = Revision
      BY <1>2, <2>2 DEF Requests
    <3>2. Good(next)'
      BY <1>2, <1>3, <2>2, <3>1 DEF Good, DoneWhenTold
    <3> QED
      BY <1>2, <2>2, <3>2 DEF Requests, Places
  <2> QED
    BY <2>1, <2>2
<1>5. /\ UnderWay' \subseteq UnderWay \cup {next}
      /\ request' \in [People -> Requests] /\ strays' \subseteq Requests
  BY <1>3, <1>4, Gone DEF IInv
<1>6. RequestInv'
  BY <1>1, <1>4, <1>5, RequestsGood
<1>7. TypeOK'
  BY <1>5 DEF Snapshot, page, IInv, TypeOK
<1>8. PageInv'
  BY <1>1, PageStays DEF Snapshot
<1>9. LogInv'
  BY <1>1, LogStays DEF Snapshot
<1> QED
  BY <1>6, <1>7, <1>8, <1>9 DEF IInv

-----------------------------------------------------------------------------
(* The invariant, and what follows from it. *)

LEMMA Initially ==
    Init => IInv
<1> SUFFICES ASSUME Init PROVE IInv
  OBVIOUS
<1>1. log = <<>> /\ DOMAIN log = {} /\ UnderWay \subseteq {Free}
  BY DEF Init, UnderWay
<1>2. TypeOK
  <2>1. log \in Seq(Keys)
    BY DEF Init
  <2>2. request \in [People -> Requests] /\ strays \subseteq Requests
    BY FreeIsGood DEF Init
  <2>3. given \in [People -> Seq(SUBSET PageKeys)]
    BY DEF Init
  <2>4. drawn \in [People -> Nat] /\ \A p \in People : drawn[p] <= MaxKeys[p]
    BY WorkLogAssumption DEF Init
  <2>5. faults \in 0 .. Faults
    BY WorkLogAssumption DEF Init
  <2> QED
    BY <2>1, <2>2, <2>3, <2>4, <2>5 DEF Init, TypeOK
<1>3. LogInv
  BY <1>1 DEF LogInv
<1>4. PageInv
  <2>1. ASSUME NEW p \in People
        PROVE  /\ view[p] = Nobody /\ poll[p] = Nobody /\ pending[p] = Nobody
               /\ drawn[p] = 0 /\ Len(given[p]) = 0
    BY DEF Init
  <2>2. ASSUME NEW p \in People, NEW n \in 1 .. drawn[p]
        PROVE  given[p][n] = {<<p, n>>}
    BY <2>1, <2>2
  <2>3. \A p \in People : Len(given[p]) = drawn[p]
    BY <2>1
  <2> QED
    BY <2>1, <2>2, <2>3 DEF PageInv
<1>5. RequestInv
  <2>1. Good(Free)
    BY KeysDiffer
    DEF Free, Requests, Places, Keys, Good, DoneWhenTold, Creation, Intent, Plan
  <2> QED
    BY <1>1, <2>1 DEF RequestInv
<1> QED
  BY <1>2, <1>3, <1>4, <1>5 DEF IInv

LEMMA Unchanged ==
    ASSUME IInv, UNCHANGED vars
    PROVE  IInv'
<1>1. /\ TypeOK' /\ LogInv' /\ PageInv'
  BY DEF IInv, TypeOK, LogInv, PageInv, Revision, vars, page
<1>2. Grows /\ UnderWay' = UnderWay
  BY DEF IInv, TypeOK, Grows, UnderWay, vars, page
<1>3. RequestInv'
  BY <1>2, GoodStays DEF RequestInv, UnderWay, IInv, TypeOK
<1> QED
  BY <1>1, <1>3 DEF IInv

LEMMA Inductive ==
    IInv /\ [Next]_vars => IInv'
<1> SUFFICES ASSUME IInv, [Next]_vars PROVE IInv'
  OBVIOUS
<1>1. CASE UNCHANGED vars
  BY <1>1, Unchanged
<1>2. CASE SubmitCreation
  BY <1>2, CreationSubmitted
<1>3. ASSUME NEW p \in People,
             \/ GiveCommand(p) \/ Resend(p)
             \/ TakeSuccess(p) \/ TakeError(p) \/ LoseAnswer(p)
             \/ Poll(p) \/ Show(p)
      PROVE  IInv'
  BY <1>3, CommandGiven, CommandResent, SuccessTaken, AnswerGone, SnapshotShown
<1>4. ASSUME NEW r \in UnderWay, Upsert(r) \/ Command(r) \/ Snapshot(r)
      PROVE  IInv'
  BY <1>4, WorkUpserted, CommandTaken, SnapshotTaken
<1> QED
  BY <1>1, <1>2, <1>3, <1>4 DEF Next

LEMMA Invariance ==
    Spec => []IInv
<1>1. Init => IInv
  BY Initially
<1>2. IInv /\ [Next]_vars => IInv'
  BY Inductive
<1> QED
  BY <1>1, <1>2, PTL DEF Spec

\* Every request, key, snapshot and counter of the page and the server keeps
\* its type, and no page draws more keys than it may.
THEOREM TypeCorrect ==
    Spec => []TypeOK
<1>1. IInv => TypeOK
  BY DEF IInv
<1> QED
  BY <1>1, Invariance, PTL

\* However many requests of one command are lost, late or sent again, its
\* effect is in the log at most once (commandWork's check of the key).
THEOREM CommandsTakeEffectOnce ==
    Spec => []OncePerWish
<1>1. IInv => OncePerWish
  <2> SUFFICES ASSUME IInv, NEW p \in People, NEW n \in DOMAIN given[p],
                      NEW i \in DOMAIN log, NEW j \in DOMAIN log,
                      log[i] \in given[p][n], log[j] \in given[p][n]
               PROVE  i = j
    BY DEF OncePerWish
  <2>1. n \in 1 .. drawn[p]
    BY DEF IInv, TypeOK, PageInv
  <2>2. given[p][n] = {<<p, n>>}
    BY <2>1 DEF IInv, PageInv
  <2> QED
    BY <2>2 DEF IInv, LogInv
<1> QED
  BY <1>1, Invariance, PTL

\* The commands of one person are in the log in the order they were given,
\* whatever was given up on the way (commandWork's check of the revision).
THEOREM CommandsKeepTheirOrder ==
    Spec => []GivenOrder
<1>1. IInv => GivenOrder
  <2> SUFFICES ASSUME IInv, NEW p \in People,
                      NEW m \in DOMAIN given[p], NEW n \in DOMAIN given[p], m < n,
                      NEW i \in DOMAIN log, NEW j \in DOMAIN log,
                      log[i] \in given[p][m], log[j] \in given[p][n]
               PROVE  i < j
    BY DEF GivenOrder
  <2>1. /\ given[p][m] = {<<p, m>>} /\ given[p][n] = {<<p, n>>}
        /\ m \in 1 .. drawn[p] /\ n \in 1 .. drawn[p]
    BY DEF IInv, TypeOK, PageInv
  <2>2. m \in 1 .. MaxKeys[p] /\ n \in 1 .. MaxKeys[p]
    BY <2>1, WorkLogAssumption DEF IInv, TypeOK
  <2> QED
    BY <2>1, <2>2 DEF IInv, LogInv
<1> QED
  BY <1>1, Invariance, PTL

\* A success that is told is in the log; of a creation both its events are,
\* the intent before the plan (createWork after the transactions it chains).
THEOREM SuccessIsDone ==
    Spec => []ToldIsDone
<1>1. IInv => ToldIsDone
  <2> SUFFICES ASSUME IInv, NEW r \in UnderWay, r.place = "answered", r.ok
               PROVE  /\ r.key \in Logged
                      /\ r.creation => \E i, j \in DOMAIN log :
                            i < j /\ log[i] = Intent /\ log[j] = Plan
    BY DEF ToldIsDone
  <2>1. Good(r) /\ r.key \in Logged
    BY DEF IInv, RequestInv, Good, DoneWhenTold
  <2>2. r.creation => r.key = Plan
    BY <2>1 DEF Good, DoneWhenTold
  <2>3. ASSUME r.creation
        PROVE  \E i, j \in DOMAIN log : i < j /\ log[i] = Intent /\ log[j] = Plan
    <3>1. PICK j \in DOMAIN log : log[j] = Plan
      BY <2>1, <2>2, <2>3 DEF Logged
    <3> QED
      BY <3>1 DEF IInv, LogInv
  <2> QED
    BY <2>1, <2>3
<1> QED
  BY <1>1, Invariance, PTL
=============================================================================
