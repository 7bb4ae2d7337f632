------------------------------ MODULE Reputation ------------------------------
(***************************************************************************)
(* Review requests, reviews and responses of product/reputation for one    *)
(* contact.  A request's row is written before its e-mail is sent and      *)
(* updated after it; a cancellation and the recording of a review read the *)
(* row, check its status and write it, none of them with a row lock.       *)
(***************************************************************************)
EXTENDS Naturals, FiniteSets

CONSTANTS
    Asks,        \* review requests that may be created
    Reviewers,   \* requests of record_review(), each for one review
    NoAsk

ASSUME ReputationAssumption == NoAsk \notin Asks

VARIABLES
    contactThere,  \* the contact exists
    ask,           \* status of the rows of review_requests, "none" without one
    asking,        \* the calls of create_review_request()
    mailed,        \* requests whose e-mail the provider took
    canceller,     \* request that cancel_review_request() is about to cancel, or NoAsk
    review,        \* per reviewer: the call and the row it inserts
    answering,     \* reviews that create_response() has read
    responses      \* rows of review_responses per review

reputationVars == <<contactThere, ask, asking, mailed, canceller, review, answering, responses>>

ReputationInit ==
    /\ contactThere = TRUE
    /\ ask = [r \in Asks |-> "none"]
    /\ asking = [r \in Asks |-> "idle"]
    /\ mailed = {}
    /\ canceller = NoAsk
    /\ review = [k \in Reviewers |-> [status |-> "none", ask |-> NoAsk]]
    /\ answering = {}
    /\ responses = [k \in Reviewers |-> 0]

Written == {"new", "responded"}
Linked(r) == {k \in Reviewers : review[k].status \in Written /\ review[k].ask = r}

(***************************************************************************)
(* create_review_request(), called by staff or by the subscriber of the    *)
(* appointment's completion.                                               *)
(***************************************************************************)
InsertAsk(r) ==
    /\ asking[r] = "idle" /\ contactThere
    /\ ask' = [ask EXCEPT ![r] = "pending"]
    /\ asking' = [asking EXCEPT ![r] = "inserted"]
    /\ UNCHANGED <<contactThere, mailed, canceller, review, answering, responses>>

\* The provider takes the mail; or it raises, which it may also do after it took it.
MailAsk(r) ==
    /\ asking[r] = "inserted"
    /\ \E outcome \in {"mailed", "refused"} : asking' = [asking EXCEPT ![r] = outcome]
    /\ mailed' \in {mailed, mailed \union {r}}
    /\ asking'[r] = "mailed" => r \in mailed'
    /\ UNCHANGED <<contactThere, ask, canceller, review, answering, responses>>

\* Mutant: the outcome is written from a flag that no refusal sets.
RecordOutcomeSent(r) ==
    /\ asking[r] \in {"mailed", "refused"} /\ ask[r] # "none"
    /\ ask' = [ask EXCEPT ![r] = "sent"]
    /\ asking' = [asking EXCEPT ![r] = "done"]
    /\ UNCHANGED <<contactThere, mailed, canceller, review, answering, responses>>

\* The outcome overwrites whatever the row says by now.
RecordOutcome(r) ==
    /\ asking[r] \in {"mailed", "refused"} /\ ask[r] # "none"
    /\ ask' = [ask EXCEPT ![r] = IF asking[r] = "mailed" THEN "sent" ELSE "failed"]
    /\ asking' = [asking EXCEPT ![r] = "done"]
    /\ UNCHANGED <<contactThere, mailed, canceller, review, answering, responses>>

\* The process dies, or the row went with its contact.
AskDies(r) ==
    /\ asking[r] \in {"inserted", "mailed", "refused"}
    /\ asking' = [asking EXCEPT ![r] = "done"]
    /\ UNCHANGED <<contactThere, ask, mailed, canceller, review, answering, responses>>

(***************************************************************************)
(* cancel_review_request().                                                *)
(***************************************************************************)
CancelReads(r) ==
    /\ canceller = NoAsk /\ ask[r] \in {"pending", "sent"}
    /\ canceller' = r
    /\ UNCHANGED <<contactThere, ask, asking, mailed, review, answering, responses>>

CancelWritesAsk ==
    /\ canceller # NoAsk
    /\ ask' = [ask EXCEPT ![canceller] = IF @ = "none" THEN @ ELSE "cancelled"]
    /\ canceller' = NoAsk
    /\ UNCHANGED <<contactThere, asking, mailed, review, answering, responses>>

(***************************************************************************)
(* record_review().                                                        *)
(***************************************************************************)

\* A review of no request, or of one that reads as sent.
ReviewReads(k, r) ==
    /\ review[k].status = "none"
    /\ r # NoAsk => ask[r] = "sent"
    /\ review' = [review EXCEPT ![k] = [status |-> "read", ask |-> r]]
    /\ UNCHANGED <<contactThere, ask, asking, mailed, canceller, answering, responses>>

\* The request's status and the review in one transaction; no constraint says
\* that a request has one review.
ReviewWrites(k) ==
    LET r == review[k].ask
    IN /\ review[k].status = "read"
       /\ r # NoAsk => ask[r] # "none"
       /\ ask' = IF r = NoAsk THEN ask ELSE [ask EXCEPT ![r] = "fulfilled"]
       /\ review' = [review EXCEPT ![k].status = "new"]
       /\ UNCHANGED <<contactThere, asking, mailed, canceller, answering, responses>>

ReviewFails(k) ==
    /\ review[k].status = "read" /\ review[k].ask # NoAsk /\ ask[review[k].ask] = "none"
    /\ review' = [review EXCEPT ![k] = [status |-> "none", ask |-> NoAsk]]
    /\ UNCHANGED <<contactThere, ask, asking, mailed, canceller, answering, responses>>

(***************************************************************************)
(* create_response(), and the deletion of the contact.                     *)
(***************************************************************************)
ResponseReads(k) ==
    /\ review[k].status \in Written /\ k \notin answering /\ responses[k] < 2
    /\ answering' = answering \union {k}
    /\ UNCHANGED <<contactThere, ask, asking, mailed, canceller, review, responses>>

ResponseWrites(k) ==
    /\ k \in answering
    /\ answering' = answering \ {k}
    /\ responses' = [responses EXCEPT ![k] = @ + 1]
    /\ review' = [review EXCEPT ![k].status = "responded"]
    /\ UNCHANGED <<contactThere, ask, asking, mailed, canceller>>

\* Mutant: the requests go, and leave the reviews that name them.
DropContactAlone ==
    /\ contactThere
    /\ contactThere' = FALSE
    /\ ask' = [r \in Asks |-> "none"]
    /\ UNCHANGED <<asking, mailed, canceller, review, answering, responses>>

\* The requests go with the contact.  A review's link would be set to NULL
\* together with its tenant_id, which may not be NULL: as long as a review
\* names a request, the deletion fails.
DropContact ==
    /\ contactThere
    /\ \A r \in Asks : Linked(r) = {}
    /\ contactThere' = FALSE
    /\ ask' = [r \in Asks |-> "none"]
    /\ UNCHANGED <<asking, mailed, canceller, review, answering, responses>>

ReputationNext ==
    \/ \E r \in Asks : InsertAsk(r) \/ MailAsk(r) \/ RecordOutcome(r) \/ AskDies(r) \/ CancelReads(r)
    \/ CancelWritesAsk \/ DropContact
    \/ \E k \in Reviewers :
          \/ \E r \in Asks \union {NoAsk} : ReviewReads(k, r)
          \/ ReviewWrites(k) \/ ReviewFails(k) \/ ResponseReads(k) \/ ResponseWrites(k)

-------------------------------------------------------------------------------
ReputationTypeOK ==
    /\ contactThere \in BOOLEAN
    /\ ask \in [Asks -> {"none", "pending", "sent", "failed", "cancelled", "fulfilled"}]
    /\ asking \in [Asks -> {"idle", "inserted", "mailed", "refused", "done"}]
    /\ mailed \subseteq Asks /\ canceller \in Asks \union {NoAsk} /\ answering \subseteq Reviewers
    /\ review \in [Reviewers -> [status : {"none", "read", "new", "responded"}, ask : Asks \union {NoAsk}]]
    /\ responses \in [Reviewers -> 0..2]

\* However cancellations, outcomes and reviews overtake one another, a request
\* that reads as sent or fulfilled was mailed.  One that reads as failed may have
\* been: the provider raised after it took the mail.
StatusTellsTheMail == \A r \in Asks : ask[r] \in {"sent", "fulfilled"} => r \in mailed

\* A fulfilled request has its review, and no review names a request that is gone.
ReviewsAndRequestsAgree ==
    /\ \A r \in Asks : ask[r] = "fulfilled" => Linked(r) # {}
    /\ \A k \in Reviewers : review[k].status \in Written /\ review[k].ask # NoAsk => ask[review[k].ask] # "none"

\* reviews.py: a request that is already fulfilled cannot be linked again.
OneReviewPerRequest == \A r \in Asks : Cardinality(Linked(r)) <= 1

\* A review request says that it was sent, or is fulfilled by a review, only if it
\* was mailed, and it and its review name each other, whatever was cancelled or
\* deleted while the mail was on its way (review_requests.py, reviews.py).
RequestsTellTheMail ==
    /\ ReputationTypeOK
    /\ StatusTellsTheMail
    /\ ReviewsAndRequestsAgree
===============================================================================
