------------------------- MODULE WorkAuthorization -------------------------
(***************************************************************************)
(* What a Work promises about the model calls people authorize, without    *)
(* workers, leases or fences.  A grant permits one request for a subject   *)
(* (the plan, or one task).  It ends published, void (nothing was sent and *)
(* nothing will be) or unknown, and an unknown grant can be reviewed.  A   *)
(* subject is granted again only when no earlier grant of it is open or    *)
(* unknown.  All requests together stay within a limit.                    *)
(***************************************************************************)
EXTENDS Naturals, FiniteSets

CONSTANTS Grants, Subjects, Limit, NoSubject

VARIABLES
    subject,  \* [Grants -> what the grant is for]
    answer,   \* [Grants -> what the Work says became of it]
    credit    \* [Grants -> the one request: "none", "held" or "spent"]

avars == <<subject, answer, credit>>

Answers == {"absent", "open", "published", "void", "unknown", "reviewed"}

AuthorizationInit ==
    /\ subject = [g \in Grants |-> NoSubject]
    /\ answer = [g \in Grants |-> "absent"]
    /\ credit = [g \in Grants |-> "none"]

Charged == {g \in Grants : credit[g] # "none"}

Grant(g, s) ==
    /\ answer[g] = "absent"
    /\ \A h \in Grants : subject[h] = s => answer[h] \notin {"open", "unknown"}
    /\ subject' = [subject EXCEPT ![g] = s]
    /\ answer' = [answer EXCEPT ![g] = "open"]
    /\ UNCHANGED credit

Hold(g) ==
    /\ answer[g] = "open"
    /\ credit[g] = "none"
    /\ Cardinality(Charged) < Limit
    /\ credit' = [credit EXCEPT ![g] = "held"]
    /\ UNCHANGED <<subject, answer>>

Lapse(g) ==
    /\ credit[g] = "held"
    /\ credit' = [credit EXCEPT ![g] = "none"]
    /\ UNCHANGED <<subject, answer>>

(* A request may leave after its grant was ended as unknown, never after   *)
(* it was ended as void.                                                   *)
Spend(g) ==
    /\ credit[g] = "held"
    /\ credit' = [credit EXCEPT ![g] = "spent"]
    /\ UNCHANGED <<subject, answer>>

Publish(g) ==
    /\ answer[g] = "open"
    /\ credit[g] = "spent"
    /\ answer' = [answer EXCEPT ![g] = "published"]
    /\ UNCHANGED <<subject, credit>>

End(g) ==
    /\ answer[g] = "open"
    /\ \/ credit[g] = "none" /\ answer' = [answer EXCEPT ![g] = "void"]
       \/ answer' = [answer EXCEPT ![g] = "unknown"]
    /\ UNCHANGED <<subject, credit>>

Review(g) ==
    /\ answer[g] = "unknown"
    /\ answer' = [answer EXCEPT ![g] = "reviewed"]
    /\ UNCHANGED <<subject, credit>>

AuthorizationNext ==
    \E g \in Grants :
       \/ \E s \in Subjects : Grant(g, s)
       \/ Hold(g) \/ Lapse(g) \/ Spend(g)
       \/ Publish(g) \/ End(g) \/ Review(g)

AuthorizationSpec == AuthorizationInit /\ [][AuthorizationNext]_avars

=============================================================================
