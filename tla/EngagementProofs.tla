--------------------------- MODULE EngagementProofs ---------------------------
(***************************************************************************)
(* Proofs about what a tenant does for its customers' attention: review    *)
(* requests (Reputation), the e-mail campaign (Campaign) and the calendar  *)
(* (Appointments), for every set of requests, contacts, workers and        *)
(* appointments.                                                           *)
(***************************************************************************)
EXTENDS Campaign, Appointments, Reputation, FiniteSetTheorems, SequenceTheorems, TLAPS

CampaignSpec     == CampaignInit /\ [][CampaignNext]_campaignVars
AppointmentsNext == CalendarNext \/ BookingNext \/ RemindersNext
AppointmentsSpec == AppointmentsInit /\ [][AppointmentsNext]_appointmentVars
ReputationSpec == ReputationInit /\ [][ReputationNext]_reputationVars

\* How far the mail of a request has come bounds what its row may say, and what
\* a review that names it may have read.
MailInv ==
    \A r \in Asks :
        /\ asking[r] \in {"idle", "inserted"} =>
               r \notin mailed /\ ask[r] \notin {"sent", "failed", "fulfilled"}
        /\ asking[r] = "mailed" => r \in mailed

\* Only of a request that was mailed is a review recorded.
ReviewInv ==
    \A k \in Reviewers :
        review[k].status # "none" /\ review[k].ask # NoAsk => review[k].ask \in mailed

\* A review that a response is being written to has been written itself.
AnswerInv == \A k \in answering : review[k].status \in Written /\ responses[k] < 2

RInv == RequestsTellTheMail /\ MailInv /\ ReviewInv /\ AnswerInv

USE DEF ReputationTypeOK
-------------------------------------------------------------------------------
LEMMA ReputationStart == ReputationInit => RInv
BY ReputationAssumption
   DEF ReputationInit, RInv, RequestsTellTheMail, StatusTellsTheMail, ReviewsAndRequestsAgree,
       MailInv, ReviewInv, AnswerInv, Linked, Written

\* The steps of a request and its mail, which touch no review.
LEMMA AskSteps ==
    ASSUME RInv, NEW r \in Asks,
           InsertAsk(r) \/ MailAsk(r) \/ RecordOutcome(r) \/ AskDies(r)
    PROVE  RInv'
<1>1. Linked(r)' = Linked(r) /\ \A q \in Asks : Linked(q)' = Linked(q)
  BY DEF Linked, InsertAsk, MailAsk, RecordOutcome, AskDies
<1>2. CASE InsertAsk(r)
  BY <1>1, <1>2 DEF InsertAsk, RInv, RequestsTellTheMail, StatusTellsTheMail,
       ReviewsAndRequestsAgree, MailInv, ReviewInv, AnswerInv, Written
<1>3. CASE MailAsk(r)
  BY <1>1, <1>3 DEF MailAsk, RInv, RequestsTellTheMail, StatusTellsTheMail,
       ReviewsAndRequestsAgree, MailInv, ReviewInv, AnswerInv, Written
<1>4. CASE RecordOutcome(r)
  BY <1>1, <1>4 DEF RecordOutcome, RInv, RequestsTellTheMail, StatusTellsTheMail,
       ReviewsAndRequestsAgree, MailInv, ReviewInv, AnswerInv, Written
<1>5. CASE AskDies(r)
  BY <1>1, <1>5 DEF AskDies, RInv, RequestsTellTheMail, StatusTellsTheMail,
       ReviewsAndRequestsAgree, MailInv, ReviewInv, AnswerInv, Written
<1>. QED  BY <1>2, <1>3, <1>4, <1>5

\* A cancellation, between its read and its write, and the deletion of the
\* contact, which a review that names a request forbids.
LEMMA CancelAndDropSteps ==
    ASSUME RInv, (\E r \in Asks : CancelReads(r)) \/ CancelWritesAsk \/ DropContact
    PROVE  RInv'
<1>1. \A q \in Asks : Linked(q)' = Linked(q)
  BY DEF Linked, CancelReads, CancelWritesAsk, DropContact
<1>2. CASE \E r \in Asks : CancelReads(r)
  BY <1>1, <1>2 DEF CancelReads, RInv, RequestsTellTheMail, StatusTellsTheMail,
       ReviewsAndRequestsAgree, MailInv, ReviewInv, AnswerInv, Written
<1>3. CASE CancelWritesAsk
  BY <1>1, <1>3 DEF CancelWritesAsk, RInv, RequestsTellTheMail, StatusTellsTheMail,
       ReviewsAndRequestsAgree, MailInv, ReviewInv, AnswerInv, Written
<1>4. CASE DropContact
  <2>1. \A k \in Reviewers : review[k].status \in Written => review[k].ask = NoAsk
    BY <1>4 DEF DropContact, Linked, RInv, RequestsTellTheMail
  <2>. QED
    BY <1>1, <1>4, <2>1 DEF DropContact, RInv, RequestsTellTheMail, StatusTellsTheMail,
         ReviewsAndRequestsAgree, MailInv, ReviewInv, AnswerInv, Written
<1>. QED  BY <1>2, <1>3, <1>4

\* The steps of a review and its responses.
LEMMA ReviewSteps ==
    ASSUME RInv, NEW k \in Reviewers,
           \/ \E r \in Asks \union {NoAsk} : ReviewReads(k, r)
           \/ ReviewWrites(k) \/ ReviewFails(k) \/ ResponseReads(k) \/ ResponseWrites(k)
    PROVE  RInv'
<1>1. ASSUME NEW r \in Asks \union {NoAsk}, ReviewReads(k, r) PROVE RInv'
  <2>1. \A q \in Asks : Linked(q)' = Linked(q)
    BY <1>1 DEF ReviewReads, Linked, Written, RInv, RequestsTellTheMail
  <2>. QED
    BY <1>1, <2>1 DEF ReviewReads, RInv, RequestsTellTheMail, StatusTellsTheMail,
         ReviewsAndRequestsAgree, MailInv, ReviewInv, AnswerInv, Written
<1>2. CASE ReviewWrites(k)
  <2>1. \A q \in Asks : Linked(q)' = IF q = review[k].ask THEN Linked(q) \union {k} ELSE Linked(q)
    BY <1>2 DEF ReviewWrites, Linked, Written, RInv, RequestsTellTheMail
  <2>2. review[k].status = "read" /\ review' = [review EXCEPT ![k].status = "new"]
    BY <1>2 DEF ReviewWrites
  <2>3. review' \in [Reviewers -> [status : {"none", "read", "new", "responded"}, ask : Asks \union {NoAsk}]]
    BY <2>2 DEF RInv, RequestsTellTheMail
  <2>4. /\ review'[k] = [status |-> "new", ask |-> review[k].ask]
        /\ \A j \in Reviewers \ {k} : review'[j] = review[j]
    BY <2>2 DEF RInv, RequestsTellTheMail
  <2>5. \A q \in Asks : ask'[q] = IF q = review[k].ask THEN "fulfilled" ELSE ask[q]
    BY <1>2, ReputationAssumption DEF ReviewWrites, RInv, RequestsTellTheMail
  <2>6. ReputationTypeOK'
    BY <1>2, <2>3 DEF ReviewWrites, RInv, RequestsTellTheMail
  <2>7. review[k].ask # NoAsk => review[k].ask \in mailed
    BY <2>2 DEF RInv, ReviewInv
  <2>8. StatusTellsTheMail' /\ MailInv'
    BY <1>2, <2>5, <2>7 DEF ReviewWrites, RInv, RequestsTellTheMail, StatusTellsTheMail, MailInv
  <2>9. ReviewInv' /\ AnswerInv'
    BY <1>2, <2>4, <2>7 DEF ReviewWrites, RInv, RequestsTellTheMail, ReviewInv, AnswerInv, Written
  <2>10. ReviewsAndRequestsAgree'
    <3>1. ASSUME NEW q \in Asks, ask'[q] = "fulfilled" PROVE Linked(q)' # {}
      BY <2>1, <2>5, <3>1 DEF RInv, RequestsTellTheMail, ReviewsAndRequestsAgree
    <3>2. ASSUME NEW j \in Reviewers, review'[j].status \in Written, review'[j].ask # NoAsk
          PROVE  ask'[review'[j].ask] # "none"
      <4>1. review'[j].ask = review[j].ask /\ review[j].ask \in Asks
        BY <2>4, <3>2 DEF RInv, RequestsTellTheMail
      <4>2. j = k \/ ask[review[j].ask] # "none"
        BY <2>4, <3>2, <4>1 DEF RInv, RequestsTellTheMail, ReviewsAndRequestsAgree
      <4>. QED
        BY <2>5, <4>1, <4>2
    <3>. QED
      BY <3>1, <3>2 DEF ReviewsAndRequestsAgree, Written
  <2>. QED
    BY <2>6, <2>8, <2>9, <2>10 DEF RInv, RequestsTellTheMail
<1>3. CASE ReviewFails(k)
  <2>1. \A q \in Asks : Linked(q)' = Linked(q)
    BY <1>3 DEF ReviewFails, Linked, Written, RInv, RequestsTellTheMail
  <2>. QED
    BY <1>3, <2>1 DEF ReviewFails, RInv, RequestsTellTheMail, StatusTellsTheMail,
         ReviewsAndRequestsAgree, MailInv, ReviewInv, AnswerInv, Written
<1>4. CASE ResponseReads(k)
  BY <1>4 DEF ResponseReads, Linked, RInv, RequestsTellTheMail, StatusTellsTheMail,
       ReviewsAndRequestsAgree, MailInv, ReviewInv, AnswerInv, Written
<1>5. CASE ResponseWrites(k)
  <2>1. \A q \in Asks : Linked(q) \subseteq Linked(q)'
    BY <1>5 DEF ResponseWrites, Linked, Written, RInv, RequestsTellTheMail
  <2>. QED
    BY <1>5, <2>1 DEF ResponseWrites, RInv, RequestsTellTheMail, StatusTellsTheMail,
         ReviewsAndRequestsAgree, MailInv, ReviewInv, AnswerInv, Written
<1>. QED  BY <1>1, <1>2, <1>3, <1>4, <1>5

LEMMA ReputationIdle == RInv /\ UNCHANGED reputationVars => RInv'
BY DEF reputationVars, RInv, RequestsTellTheMail, StatusTellsTheMail, ReviewsAndRequestsAgree,
       MailInv, ReviewInv, AnswerInv, Written, Linked

\* Whatever became of its mail is what a request's row says, and no deletion or
\* cancellation parts a review from its request (RequestsTellTheMail), for any
\* number of requests and reviewers (review_requests.py, reviews.py).
THEOREM RequestsTellTheMailHolds == ReputationSpec => []RequestsTellTheMail
<1>1. RInv /\ [ReputationNext]_reputationVars => RInv'
  BY AskSteps, CancelAndDropSteps, ReviewSteps, ReputationIdle DEF ReputationNext
<1>2. RInv => RequestsTellTheMail
  BY DEF RInv
<1>. QED  BY ReputationStart, <1>1, <1>2, PTL DEF ReputationSpec
-------------------------------------------------------------------------------
(***************************************************************************)
(* The campaign.  Started once, it is the work of one process at a time:   *)
(* the request that committed, the job in the queue or the worker that     *)
(* took it.  The worker is at a pending recipient, who was not sent to     *)
(* since the last run that died at it.                                     *)
(***************************************************************************)
SenderRow == [pc : {"idle", "paging", "enrolling", "committed", "failed", "done"},
              offset : Nat, found : Seq(Contacts), barred : SUBSET Contacts, seen : Nat]
WorkerRow == [pc : {"idle", "loop", "pick", "gate", "send", "mark"},
              contact : Contacts \cup {NoContact}, barred : SUBSET Contacts, unlinked : BOOLEAN]

AtWork(w)    == worker[w].pc # "idle"
Committed(s) == sender[s].pc = "committed"

OneRun ==
    starts <= 1 =>
        /\ jobs <= 1
        /\ \A w, v \in Workers : AtWork(w) /\ AtWork(v) => w = v
        /\ \A s, u \in Senders : Committed(s) /\ Committed(u) => s = u
        /\ \A w \in Workers : AtWork(w) => jobs = 0 /\ \A s \in Senders : ~ Committed(s)
        /\ \A s \in Senders : Committed(s) => jobs = 0
        /\ starts = 0 => /\ jobs = 0 /\ late = 0 /\ campaign \in {"draft", "deleted"}
                         /\ \A w \in Workers : ~ AtWork(w)
                         /\ \A s \in Senders : ~ Committed(s)

\* A contact that the run may still get to.
Ahead(c) ==
    \/ starts = 0
    \/ recipient[c] = "pending" /\ \A w \in Workers : ~ (worker[w].pc = "mark" /\ worker[w].contact = c)
    \/ \E w \in Workers : worker[w].pc \in {"gate", "send"} /\ worker[w].contact = c

SentAhead == starts <= 1 => \A c \in Contacts : Ahead(c) => sentTo[c] <= died[c]

LateLast ==
    starts <= 1 /\ late = 1 =>
        campaign \in {"cancelled", "deleted"} /\ \A w \in Workers : worker[w].pc \notin {"pick", "gate", "send"}

AtContact == \A w \in Workers : worker[w].pc \in {"gate", "send", "mark"} => worker[w].contact \in Contacts

BarredStay == \A w \in Workers : worker[w].barred \subseteq suppressed

Paged ==
    \A s \in Senders :
        /\ sender[s].pc = "idle" => sender[s].found = <<>> /\ sender[s].offset = 0
        /\ moves = 0 /\ sender[s].pc = "paging" =>
              sender[s].offset <= Len(listing) /\ sender[s].found = SubSeq(listing, 1, sender[s].offset)

CampInv ==
    /\ CampaignTypeOK /\ AtContact
    /\ OneRun /\ SentAhead /\ RepeatedOnlyByDeath /\ LateLast /\ CancelStopsSending
    /\ BarredStay /\ SuppressedNeverSent
    /\ SendingIsOwned /\ SentIsComplete
    /\ Paged /\ SegmentIsWhole

LEMMA CampaignTyped ==
    ASSUME CampInv
    PROVE  /\ starts \in Nat /\ jobs \in Nat /\ late \in Nat /\ moves \in Nat
           /\ sentTo \in [Contacts -> Nat] /\ died \in [Contacts -> Nat]
           /\ sender \in [Senders -> SenderRow] /\ worker \in [Workers -> WorkerRow]
           /\ listing \in Seq(Contacts) /\ suppressed \subseteq Contacts
BY CampaignAssumption DEF CampInv, CampaignTypeOK, SenderRow, WorkerRow

LEMMA Alone ==
    ASSUME CampInv, starts <= 1, NEW w \in Workers, AtWork(w)
    PROVE  /\ starts = 1 /\ jobs = 0 /\ \A v \in Workers \ {w} : worker[v].pc = "idle"
           /\ \A s \in Senders : ~ Committed(s)
BY CampaignTyped DEF CampInv, OneRun, AtWork

\* Nobody is mailed, and no recipient is ahead again.
LEMMA SentKept ==
    ASSUME CampInv, starts' \in Nat, starts <= starts', UNCHANGED <<sentTo, died>>,
           starts' <= 1 => \A c \in Contacts : Ahead(c)' => Ahead(c)
    PROVE  SentAhead' /\ RepeatedOnlyByDeath'
<1>1. starts \in Nat
  BY CampaignTyped
<1>. QED  BY <1>1 DEF CampInv, SentAhead, RepeatedOnlyByDeath

-------------------------------------------------------------------------------
\* What a worker's step leaves alone.
LEMMA WorkerParts ==
    ASSUME CampInv, NEW w \in Workers, NEW r \in WorkerRow, worker' = [worker EXCEPT ![w] = r],
           UNCHANGED <<listing, suppressed, sender, editor, starts, stranded, moves>>,
           r.pc \in {"gate", "send", "mark"} => r.contact \in Contacts,
           r.barred \subseteq suppressed, r.pc = "send" => r.contact \notin r.barred
    PROVE  /\ worker' \in [Workers -> WorkerRow] /\ worker'[w] = r
           /\ \A v \in Workers \ {w} : worker'[v] = worker[v]
           /\ AtContact' /\ BarredStay' /\ SuppressedNeverSent' /\ Paged' /\ SegmentIsWhole'
<1>1. /\ worker' \in [Workers -> WorkerRow] /\ worker'[w] = r
      /\ \A v \in Workers \ {w} : worker'[v] = worker[v]
  BY CampaignTyped
<1>2. AtContact' /\ BarredStay' /\ SuppressedNeverSent'
  BY <1>1 DEF CampInv, AtContact, BarredStay, SuppressedNeverSent
<1>3. Paged' /\ SegmentIsWhole'
  BY DEF CampInv, Paged, SegmentIsWhole
<1>. QED  BY <1>1, <1>2, <1>3

LEMMA RunKept ==
    ASSUME CampInv, NEW w \in Workers, AtWork(w), \A v \in Workers \ {w} : worker'[v] = worker[v],
           UNCHANGED <<sender, jobs, starts>>
    PROVE  OneRun'
<1>. SUFFICES ASSUME starts <= 1 PROVE OneRun'
  BY DEF OneRun
<1>1. starts = 1 /\ jobs = 0 /\ (\A v \in Workers \ {w} : ~ AtWork(v)') /\ \A s \in Senders : ~ Committed(s)'
  BY Alone DEF AtWork, Committed
<1>. QED  BY <1>1 DEF OneRun

LEMMA TakeJobStep == ASSUME CampInv, NEW w \in Workers, TakeJob(w) PROVE CampInv'
<1>1. PICK r : r = IF campaign = "deleted" THEN IdleWorker ELSE [IdleWorker EXCEPT !.pc = "loop"]
  OBVIOUS
<1>2. /\ r \in WorkerRow /\ r.pc \in {"idle", "loop"} /\ r.barred = {} /\ (r.pc = "idle" => campaign = "deleted")
  BY <1>1 DEF IdleWorker, WorkerRow
<1>3. /\ jobs > 0 /\ worker[w].pc = "idle" /\ jobs' = jobs - 1 /\ worker' = [worker EXCEPT ![w] = r]
      /\ UNCHANGED <<campaign, recipient, unlinked, listing, suppressed, sender, editor, starts, stranded, moves,
                     sentTo, died, late, crashes>>
  BY <1>1 DEF TakeJob, WorkerSet, Rows, Outside
<1>4. /\ worker' \in [Workers -> WorkerRow] /\ worker'[w] = r /\ \A v \in Workers \ {w} : worker'[v] = worker[v]
      /\ AtContact' /\ BarredStay' /\ SuppressedNeverSent' /\ Paged' /\ SegmentIsWhole'
  BY <1>2, <1>3, WorkerParts
<1>5. jobs \in Nat /\ jobs' \in Nat /\ starts \in Nat
  BY <1>3, CampaignTyped
<1>6. CampaignTypeOK'
  BY <1>3, <1>4, <1>5 DEF CampInv, CampaignTypeOK, WorkerRow
<1>7. OneRun'
  <2>. SUFFICES ASSUME starts <= 1 PROVE OneRun'
    BY <1>3 DEF OneRun
  <2>1. jobs = 1 /\ starts # 0 /\ (\A v \in Workers : ~ AtWork(v)) /\ \A s \in Senders : ~ Committed(s)
    BY <1>3, <1>5 DEF CampInv, OneRun
  <2>2. jobs' = 0 /\ (\A v \in Workers \ {w} : ~ AtWork(v)') /\ \A s \in Senders : ~ Committed(s)'
    BY <1>3, <1>4, <2>1 DEF AtWork, Committed
  <2>. QED  BY <1>3, <2>1, <2>2 DEF OneRun
<1>8. SentAhead' /\ RepeatedOnlyByDeath'
  <2>1. \A c \in Contacts : Ahead(c)' => Ahead(c)
    BY <1>2, <1>3, <1>4 DEF Ahead
  <2>. QED  BY <1>3, <1>5, <2>1, SentKept
<1>9. LateLast' /\ CancelStopsSending'
  BY <1>2, <1>3, <1>4 DEF CampInv, LateLast, CancelStopsSending
<1>10. SendingIsOwned' /\ SentIsComplete'
  BY <1>2, <1>3, <1>4 DEF CampInv, SendingIsOwned, SentIsComplete, Pending
<1>. QED  BY <1>4, <1>6, <1>7, <1>8, <1>9, <1>10 DEF CampInv

\* A worker goes on, and nothing else changes.
LEMMA WorkerGoesOn ==
    ASSUME CampInv, NEW w \in Workers, NEW r \in WorkerRow, worker' = [worker EXCEPT ![w] = r], AtWork(w),
           UNCHANGED <<campaign, recipient, unlinked, listing, suppressed, sender, editor, starts, stranded, moves,
                       jobs, sentTo, died, late, crashes>>,
           r.pc \in {"gate", "send", "mark"} => r.contact \in Contacts,
           r.barred \subseteq suppressed, r.pc = "send" => r.contact \notin r.barred,
           worker[w].pc # "mark",
           r.pc \in {"gate", "send"} => Ahead(r.contact),
           r.pc = "idle" => campaign # "sending",
           r.pc \in {"pick", "gate", "send"} =>
              worker[w].pc \in {"pick", "gate", "send"} \/ campaign \notin {"deleted", "cancelled"}
    PROVE  CampInv'
<1>1. /\ worker' \in [Workers -> WorkerRow] /\ worker'[w] = r /\ \A v \in Workers \ {w} : worker'[v] = worker[v]
      /\ AtContact' /\ BarredStay' /\ SuppressedNeverSent' /\ Paged' /\ SegmentIsWhole'
  BY WorkerParts
<1>2. CampaignTypeOK'
  BY <1>1 DEF CampInv, CampaignTypeOK, WorkerRow
<1>3. OneRun'
  BY <1>1, RunKept
<1>4. SentAhead' /\ RepeatedOnlyByDeath'
  <2>1. ASSUME NEW c \in Contacts, Ahead(c)' PROVE Ahead(c)
    BY <1>1, <2>1 DEF Ahead
  <2>. QED  BY <2>1, SentKept, CampaignTyped
<1>5. LateLast' /\ CancelStopsSending'
  BY <1>1 DEF CampInv, LateLast, CancelStopsSending
<1>6. SendingIsOwned' /\ SentIsComplete'
  <2>1. campaign = "sending" => worker'[w].pc # "idle"
    BY <1>1
  <2>. QED  BY <2>1 DEF CampInv, SendingIsOwned, SentIsComplete, Pending
<1>. QED  BY <1>1, <1>2, <1>3, <1>4, <1>5, <1>6 DEF CampInv

LEMMA CheckStatusStep == ASSUME CampInv, NEW w \in Workers, CheckStatus(w) PROVE CampInv'
<1>1. PICK was \in WorkerRow : was = worker[w] /\ was.pc = "loop" /\ was.barred \subseteq suppressed
  BY CampaignTyped DEF CheckStatus, CampInv, BarredStay
<1>2. PICK r : r = IF campaign \in {"deleted", "cancelled"} THEN IdleWorker ELSE [was EXCEPT !.pc = "pick"]
  OBVIOUS
<1>3. /\ r \in WorkerRow /\ r.pc \in {"idle", "pick"} /\ r.barred \subseteq suppressed
      /\ r.pc = "idle" => campaign # "sending"
      /\ r.pc = "pick" => campaign \notin {"deleted", "cancelled"}
  BY <1>1, <1>2 DEF IdleWorker, WorkerRow
<1>4. /\ worker' = [worker EXCEPT ![w] = r] /\ AtWork(w)
      /\ UNCHANGED <<campaign, recipient, unlinked, listing, suppressed, sender, editor, starts, stranded, moves,
                     jobs, sentTo, died, late, crashes>>
  BY <1>1, <1>2 DEF CheckStatus, WorkerSet, Rows, Outside, AtWork
<1>. QED  BY <1>1, <1>3, <1>4, WorkerGoesOn

LEMMA PickRecipientStep == ASSUME CampInv, NEW w \in Workers, PickRecipient(w) PROVE CampInv'
<1>1. PICK c \in Pending :
        /\ WorkerSet(w, [pc |-> "gate", contact |-> c, barred |-> suppressed, unlinked |-> c \in unlinked])
        /\ worker[w].pc = "pick" /\ UNCHANGED <<Rows, jobs, Outside, crashes>>
  BY DEF PickRecipient
<1>2. PICK r : r = [pc |-> "gate", contact |-> c, barred |-> suppressed, unlinked |-> c \in unlinked]
  OBVIOUS
<1>3. c \in Contacts /\ recipient[c] = "pending"
  BY DEF Pending
<1>4. r \in WorkerRow /\ r.pc = "gate" /\ r.contact = c /\ r.barred = suppressed
  BY <1>2, <1>3, CampaignTyped DEF WorkerRow
<1>5. /\ worker' = [worker EXCEPT ![w] = r] /\ AtWork(w)
      /\ UNCHANGED <<campaign, recipient, unlinked, listing, suppressed, sender, editor, starts, stranded, moves,
                     jobs, sentTo, died, late, crashes>>
  BY <1>1, <1>2 DEF WorkerSet, Rows, Outside, AtWork
<1>6. CASE starts <= 1
  <2>1. \A v \in Workers : worker[v].pc # "mark"
    BY <1>1, <1>5, <1>6, Alone
  <2>2. Ahead(r.contact)
    BY <1>3, <1>4, <2>1 DEF Ahead
  <2>. QED  BY <1>1, <1>3, <1>4, <1>5, <2>2, WorkerGoesOn
<1>7. CASE ~ (starts <= 1)
  <2>1. /\ worker' \in [Workers -> WorkerRow] /\ worker'[w] = r /\ \A v \in Workers \ {w} : worker'[v] = worker[v]
        /\ AtContact' /\ BarredStay' /\ SuppressedNeverSent' /\ Paged' /\ SegmentIsWhole'
    BY <1>3, <1>4, <1>5, WorkerParts
  <2>2. CampaignTypeOK'
    BY <1>5, <2>1 DEF CampInv, CampaignTypeOK, WorkerRow
  <2>3. OneRun' /\ SentAhead' /\ RepeatedOnlyByDeath' /\ LateLast' /\ CancelStopsSending' /\ SentIsComplete'
    BY <1>5, <1>7 DEF OneRun, SentAhead, RepeatedOnlyByDeath, LateLast, CancelStopsSending, SentIsComplete
  <2>4. SendingIsOwned'
    BY <1>4, <2>1 DEF SendingIsOwned
  <2>. QED  BY <2>1, <2>2, <2>3, <2>4 DEF CampInv
<1>. QED  BY <1>6, <1>7

LEMMA PassGateStep == ASSUME CampInv, NEW w \in Workers, PassGate(w) PROVE CampInv'
<1>1. PICK was \in WorkerRow : /\ was = worker[w] /\ was.pc = "gate" /\ was.barred \subseteq suppressed
                               /\ was.contact \notin suppressed /\ was.contact \in Contacts
  BY CampaignTyped DEF PassGate, CampInv, BarredStay, AtContact
<1>2. PICK r : r = [was EXCEPT !.pc = "send"]
  OBVIOUS
<1>3. r \in WorkerRow /\ r.pc = "send" /\ r.contact = was.contact /\ r.barred = was.barred
  BY <1>1, <1>2 DEF WorkerRow
<1>4. /\ worker' = [worker EXCEPT ![w] = r] /\ AtWork(w)
      /\ UNCHANGED <<campaign, recipient, unlinked, listing, suppressed, sender, editor, starts, stranded, moves,
                     jobs, sentTo, died, late, crashes>>
  BY <1>1, <1>2 DEF PassGate, WorkerSet, Rows, Outside, AtWork
<1>5. Ahead(r.contact)
  BY <1>1, <1>3 DEF Ahead
<1>6. r.contact \in Contacts /\ r.contact \notin r.barred /\ r.barred \subseteq suppressed
  BY <1>1, <1>3
<1>. QED  BY <1>1, <1>3, <1>4, <1>5, <1>6, WorkerGoesOn

LEMMA MarkCampaignSentStep == ASSUME CampInv, NEW w \in Workers, MarkCampaignSent(w) PROVE CampInv'
<1>1. IdleWorker \in WorkerRow /\ IdleWorker.pc = "idle" /\ IdleWorker.barred = {}
  BY DEF IdleWorker, WorkerRow
<1>2. PICK r : r = IdleWorker
  OBVIOUS
<1>3. /\ worker[w].pc = "pick" /\ AtWork(w) /\ Pending = {} /\ worker' = [worker EXCEPT ![w] = r]
      /\ campaign' = IF campaign = "deleted" THEN "deleted" ELSE "sent"
      /\ UNCHANGED <<recipient, unlinked, listing, suppressed, sender, editor, starts, stranded, moves,
                     jobs, sentTo, died, late, crashes>>
  BY <1>2 DEF MarkCampaignSent, WorkerSet, Outside, AtWork
<1>4. /\ worker' \in [Workers -> WorkerRow] /\ worker'[w] = r /\ \A v \in Workers \ {w} : worker'[v] = worker[v]
      /\ AtContact' /\ BarredStay' /\ SuppressedNeverSent' /\ Paged' /\ SegmentIsWhole'
  BY <1>1, <1>2, <1>3, WorkerParts
<1>5. CampaignTypeOK'
  BY <1>3, <1>4 DEF CampInv, CampaignTypeOK, WorkerRow
<1>6. OneRun'
  BY <1>3, <1>4, RunKept
<1>7. SentAhead' /\ RepeatedOnlyByDeath'
  <2>1. \A c \in Contacts : Ahead(c)' => Ahead(c)
    BY <1>1, <1>2, <1>3, <1>4 DEF Ahead
  <2>. QED  BY <1>3, <2>1, SentKept, CampaignTyped
<1>8. LateLast' /\ CancelStopsSending'
  BY <1>3 DEF CampInv, LateLast, CancelStopsSending
<1>9. SendingIsOwned' /\ SentIsComplete'
  BY <1>3 DEF SendingIsOwned, SentIsComplete, Pending
<1>. QED  BY <1>4, <1>5, <1>6, <1>7, <1>8, <1>9 DEF CampInv

LEMMA MarkStep ==
    ASSUME CampInv, NEW w \in Workers, NEW outcome \in {"failed", "suppressed", "sent"},
           worker[w].pc \in {"gate", "send", "mark"}, Mark(w, outcome)
    PROVE  CampInv'
<1>1. PICK was \in WorkerRow, a \in Contacts : was = worker[w] /\ was.barred \subseteq suppressed /\ a = was.contact
  BY CampaignTyped DEF CampInv, BarredStay, AtContact
<1>2. PICK r : r = [was EXCEPT !.pc = "loop"]
  OBVIOUS
<1>3. r \in WorkerRow /\ r.pc = "loop" /\ r.barred = was.barred /\ r.contact = a
  BY <1>1, <1>2 DEF WorkerRow
<1>4. recipient \in [Contacts -> {"none", "pending", "suppressed", "sent", "failed"}]
  BY DEF CampInv, CampaignTypeOK
<1>5. /\ worker' = [worker EXCEPT ![w] = r] /\ AtWork(w)
      /\ recipient' = [recipient EXCEPT ![a] = IF recipient[a] = "none" THEN "none" ELSE outcome]
      /\ UNCHANGED <<campaign, unlinked, listing, suppressed, sender, editor, starts, stranded, moves,
                     jobs, sentTo, died, late, crashes>>
  BY <1>1, <1>2, <1>4 DEF Mark, WorkerSet, Outside, AtWork
<1>6. /\ worker' \in [Workers -> WorkerRow] /\ worker'[w] = r /\ \A v \in Workers \ {w} : worker'[v] = worker[v]
      /\ AtContact' /\ BarredStay' /\ SuppressedNeverSent' /\ Paged' /\ SegmentIsWhole'
  BY <1>1, <1>3, <1>5, WorkerParts
<1>7. /\ recipient' \in [Contacts -> {"none", "pending", "suppressed", "sent", "failed"}]
      /\ recipient'[a] # "pending" /\ \A c \in Contacts \ {a} : recipient'[c] = recipient[c]
  BY <1>4, <1>5
<1>8. CampaignTypeOK'
  BY <1>5, <1>6, <1>7 DEF CampInv, CampaignTypeOK, WorkerRow
<1>9. OneRun'
  BY <1>5, <1>6, RunKept
<1>10. SentAhead' /\ RepeatedOnlyByDeath'
  <2>1. ASSUME NEW c \in Contacts, Ahead(c)' PROVE Ahead(c)
    BY <1>1, <1>3, <1>5, <1>6, <1>7, <2>1 DEF Ahead
  <2>. QED  BY <1>5, <2>1, SentKept, CampaignTyped
<1>11. LateLast' /\ CancelStopsSending'
  BY <1>3, <1>5, <1>6 DEF CampInv, LateLast, CancelStopsSending
<1>12. SendingIsOwned' /\ SentIsComplete'
  <2>1. worker'[w].pc # "idle"
    BY <1>3, <1>6
  <2>2. Pending' \subseteq Pending
    BY <1>7 DEF Pending
  <2>. QED  BY <1>5, <2>1, <2>2 DEF CampInv, SendingIsOwned, SentIsComplete
<1>. QED  BY <1>6, <1>8, <1>9, <1>10, <1>11, <1>12 DEF CampInv

LEMMA SendStep == ASSUME CampInv, NEW w \in Workers, Send(w) PROVE CampInv'
<1>0. sentTo \in [Contacts -> Nat] /\ died \in [Contacts -> Nat] /\ late \in Nat /\ starts \in Nat
  BY CampaignTyped
<1>1. PICK was \in WorkerRow, a \in Contacts :
        was = worker[w] /\ was.pc = "send" /\ was.barred \subseteq suppressed /\ a = was.contact
  BY CampaignTyped DEF CampInv, BarredStay, AtContact, Send
<1>2. PICK r : r = [was EXCEPT !.pc = "mark"]
  OBVIOUS
<1>3. r \in WorkerRow /\ r.pc = "mark" /\ r.barred = was.barred /\ r.contact = a
  BY <1>1, <1>2 DEF WorkerRow
<1>4. /\ worker' = [worker EXCEPT ![w] = r] /\ AtWork(w) /\ worker[w].pc = "send" /\ worker[w].contact = a
      /\ sentTo' = [sentTo EXCEPT ![a] = sentTo[a] + 1] /\ late' = IF campaign = "cancelled" THEN late + 1 ELSE late
      /\ UNCHANGED <<campaign, recipient, unlinked, listing, suppressed, sender, editor, starts, stranded, moves,
                     jobs, died, crashes>>
  BY <1>0, <1>1, <1>2 DEF Send, WorkerSet, Rows, AtWork
<1>5. /\ worker' \in [Workers -> WorkerRow] /\ worker'[w] = r /\ \A v \in Workers \ {w} : worker'[v] = worker[v]
      /\ AtContact' /\ BarredStay' /\ SuppressedNeverSent' /\ Paged' /\ SegmentIsWhole'
  BY <1>1, <1>3, <1>4, WorkerParts
<1>6. /\ sentTo' \in [Contacts -> Nat] /\ late' \in Nat /\ sentTo'[a] = sentTo[a] + 1
      /\ \A c \in Contacts \ {a} : sentTo'[c] = sentTo[c]
  BY <1>0, <1>4
<1>7. CampaignTypeOK'
  BY <1>4, <1>5, <1>6 DEF CampInv, CampaignTypeOK, WorkerRow
<1>8. OneRun'
  BY <1>4, <1>5, RunKept
<1>9. ASSUME starts <= 1
      PROVE  /\ \A c \in Contacts : sentTo'[c] <= 1 + died[c]
             /\ \A c \in Contacts : Ahead(c)' => sentTo'[c] <= died[c]
             /\ late' <= 1 /\ LateLast'
  <2>1. starts = 1 /\ \A v \in Workers \ {w} : worker[v].pc = "idle"
    BY <1>4, <1>9, Alone
  <2>2. sentTo[a] <= died[a] /\ \A c \in Contacts : sentTo[c] <= 1 + died[c]
    <3>1. Ahead(a)
      BY <1>4 DEF Ahead
    <3>. QED  BY <1>9, <3>1 DEF CampInv, SentAhead, RepeatedOnlyByDeath
  <2>3. \A c \in Contacts : sentTo'[c] <= 1 + died[c]
    BY <1>0, <1>6, <2>2
  <2>4. ASSUME NEW c \in Contacts, Ahead(c)' PROVE sentTo'[c] <= died[c]
    <3>1. c # a
      BY <1>3, <1>4, <1>5, <2>1, <2>4 DEF Ahead
    <3>2. Ahead(c)
      BY <1>3, <1>4, <1>5, <2>1, <2>4, <3>1 DEF Ahead
    <3>3. sentTo[c] <= died[c]
      BY <1>9, <3>2 DEF CampInv, SentAhead
    <3>. QED  BY <1>6, <3>1, <3>3
  <2>5. late = 0
    BY <1>0, <1>4, <1>9 DEF CampInv, LateLast, CancelStopsSending
  <2>6. late' <= 1 /\ (late' = 1 => campaign' \in {"cancelled", "deleted"})
    BY <1>4, <2>5
  <2>7. \A v \in Workers : worker'[v].pc \notin {"pick", "gate", "send"}
    BY <1>3, <1>5, <2>1
  <2>. QED  BY <2>3, <2>4, <2>6, <2>7 DEF LateLast
<1>10. SentAhead' /\ RepeatedOnlyByDeath' /\ LateLast' /\ CancelStopsSending'
  BY <1>4, <1>9 DEF SentAhead, RepeatedOnlyByDeath, LateLast, CancelStopsSending
<1>11. SendingIsOwned' /\ SentIsComplete'
  BY <1>3, <1>4, <1>5 DEF CampInv, SendingIsOwned, SentIsComplete, Pending
<1>. QED  BY <1>5, <1>7, <1>8, <1>10, <1>11 DEF CampInv

LEMMA WorkerDiesStep == ASSUME CampInv, NEW w \in Workers, WorkerDies(w) PROVE CampInv'
<1>0. /\ sentTo \in [Contacts -> Nat] /\ died \in [Contacts -> Nat] /\ late \in Nat /\ starts \in Nat /\ jobs \in Nat
      /\ crashes \in 0..MaxCrashes /\ MaxCrashes \in Nat
  BY CampaignTyped, CampaignAssumption DEF CampInv, CampaignTypeOK
<1>1. IdleWorker \in WorkerRow /\ IdleWorker.pc = "idle" /\ IdleWorker.barred = {}
  BY DEF IdleWorker, WorkerRow
<1>2. PICK r : r = IdleWorker
  OBVIOUS
<1>3. /\ AtWork(w) /\ worker' = [worker EXCEPT ![w] = r] /\ jobs' = jobs + 1 /\ crashes < MaxCrashes /\ crashes' = crashes + 1
      /\ died' = IF worker[w].pc = "mark"
                 THEN [died EXCEPT ![worker[w].contact] = died[worker[w].contact] + 1] ELSE died
      /\ UNCHANGED <<campaign, recipient, unlinked, listing, suppressed, sender, editor, starts, stranded, moves,
                     sentTo, late>>
  BY <1>0, <1>2 DEF WorkerDies, WorkerSet, Rows, AtWork, CampInv, AtContact
<1>4. /\ worker' \in [Workers -> WorkerRow] /\ worker'[w] = r /\ \A v \in Workers \ {w} : worker'[v] = worker[v]
      /\ AtContact' /\ BarredStay' /\ SuppressedNeverSent' /\ Paged' /\ SegmentIsWhole'
  BY <1>1, <1>2, <1>3, WorkerParts
<1>5. worker[w].pc = "mark" => worker[w].contact \in Contacts
  BY DEF CampInv, AtContact
<1>6. /\ died' \in [Contacts -> Nat] /\ \A c \in Contacts : died[c] <= died'[c]
      /\ worker[w].pc = "mark" => died'[worker[w].contact] = died[worker[w].contact] + 1
  BY <1>0, <1>3, <1>5
<1>7. CampaignTypeOK'
  BY <1>0, <1>3, <1>4, <1>6 DEF CampInv, CampaignTypeOK, WorkerRow
<1>8. ASSUME starts <= 1
      PROVE  /\ OneRun' /\ LateLast'
             /\ \A c \in Contacts : sentTo[c] <= 1 + died'[c] /\ (Ahead(c)' => sentTo[c] <= died'[c])
  <2>1. starts = 1 /\ jobs' = 1 /\ (\A v \in Workers : ~ AtWork(v)') /\ \A s \in Senders : ~ Committed(s)'
    <3>1. starts = 1 /\ jobs = 0 /\ (\A v \in Workers \ {w} : worker[v].pc = "idle") /\ \A s \in Senders : ~ Committed(s)
      BY <1>3, <1>8, Alone
    <3>. QED  BY <1>1, <1>2, <1>3, <1>4, <3>1 DEF AtWork, Committed
  <2>2. OneRun'
    BY <1>3, <2>1 DEF OneRun
  <2>3. LateLast'
    <3>1. \A v \in Workers : worker'[v].pc = "idle"
      BY <2>1 DEF AtWork
    <3>. QED  BY <1>3, <3>1 DEF CampInv, LateLast
  <2>4. ASSUME NEW c \in Contacts PROVE sentTo[c] <= 1 + died'[c] /\ (Ahead(c)' => sentTo[c] <= died'[c])
    <3>1. sentTo[c] <= 1 + died[c] /\ (Ahead(c) => sentTo[c] <= died[c]) /\ died[c] <= died'[c]
      BY <1>6, <1>8 DEF CampInv, SentAhead, RepeatedOnlyByDeath
    <3>2. CASE worker[w].pc = "mark" /\ worker[w].contact = c
      BY <1>0, <1>6, <3>1, <3>2
    <3>3. CASE ~ (worker[w].pc = "mark" /\ worker[w].contact = c)
      <4>1. Ahead(c)' => Ahead(c)
        BY <1>1, <1>2, <1>3, <1>4, <3>3 DEF Ahead
      <4>. QED  BY <1>0, <1>6, <3>1, <4>1
    <3>. QED  BY <3>2, <3>3
  <2>. QED  BY <2>2, <2>3, <2>4
<1>9. OneRun' /\ SentAhead' /\ RepeatedOnlyByDeath' /\ LateLast' /\ CancelStopsSending'
  BY <1>3, <1>8 DEF CampInv, OneRun, SentAhead, RepeatedOnlyByDeath, LateLast, CancelStopsSending
<1>10. SendingIsOwned' /\ SentIsComplete'
  BY <1>0, <1>3 DEF CampInv, SendingIsOwned, SentIsComplete, Pending
<1>. QED  BY <1>4, <1>7, <1>9, <1>10 DEF CampInv

LEMMA WorkerStep ==
    ASSUME CampInv, NEW w \in Workers,
           \/ TakeJob(w) \/ CheckStatus(w) \/ PickRecipient(w) \/ MarkCampaignSent(w)
           \/ Refuse(w) \/ PassGate(w) \/ SendFails(w) \/ Send(w) \/ MarkSent(w) \/ WorkerDies(w)
    PROVE  CampInv'
<1>1. CASE Refuse(w) \/ SendFails(w) \/ MarkSent(w)
  BY <1>1, MarkStep DEF Refuse, SendFails, MarkSent
<1>. QED  BY <1>1, TakeJobStep, CheckStatusStep, PickRecipientStep, MarkCampaignSentStep, PassGateStep, SendStep,
             WorkerDiesStep

-------------------------------------------------------------------------------
\* What the step of a request to send leaves alone.
LEMMA SenderParts ==
    ASSUME CampInv, NEW s \in Senders, NEW r \in SenderRow, sender' = [sender EXCEPT ![s] = r],
           UNCHANGED <<listing, suppressed, worker, moves>>,
           r.pc = "idle" => r.found = <<>> /\ r.offset = 0,
           moves = 0 /\ r.pc = "paging" => r.offset <= Len(listing) /\ r.found = SubSeq(listing, 1, r.offset),
           moves = 0 /\ r.pc = "enrolling" => r.found = listing
    PROVE  /\ sender' \in [Senders -> SenderRow] /\ sender'[s] = r
           /\ \A u \in Senders \ {s} : sender'[u] = sender[u]
           /\ AtContact' /\ BarredStay' /\ SuppressedNeverSent' /\ Paged' /\ SegmentIsWhole'
<1>1. /\ sender' \in [Senders -> SenderRow] /\ sender'[s] = r
      /\ \A u \in Senders \ {s} : sender'[u] = sender[u]
  BY CampaignTyped
<1>2. AtContact' /\ BarredStay' /\ SuppressedNeverSent'
  BY DEF CampInv, AtContact, BarredStay, SuppressedNeverSent
<1>3. Paged' /\ SegmentIsWhole'
  BY <1>1 DEF CampInv, Paged, SegmentIsWhole
<1>. QED  BY <1>1, <1>2, <1>3

\* A request that has not committed goes on.
LEMMA SenderGoesOn ==
    ASSUME CampInv, NEW s \in Senders, NEW r \in SenderRow, sender' = [sender EXCEPT ![s] = r],
           UNCHANGED <<campaign, recipient, unlinked, listing, suppressed, editor, worker, starts, stranded, moves,
                       jobs, sentTo, died, late, crashes>>,
           ~ Committed(s), r.pc \notin {"idle", "committed"},
           moves = 0 /\ r.pc = "paging" => r.offset <= Len(listing) /\ r.found = SubSeq(listing, 1, r.offset),
           moves = 0 /\ r.pc = "enrolling" => r.found = listing
    PROVE  CampInv'
<1>1. /\ sender' \in [Senders -> SenderRow] /\ sender'[s] = r
      /\ \A u \in Senders \ {s} : sender'[u] = sender[u]
      /\ AtContact' /\ BarredStay' /\ SuppressedNeverSent' /\ Paged' /\ SegmentIsWhole'
  BY SenderParts
<1>2. CampaignTypeOK'
  BY <1>1 DEF CampInv, CampaignTypeOK, SenderRow
<1>3. \A u \in Senders : Committed(u)' <=> Committed(u)
  BY <1>1 DEF Committed
<1>4. OneRun'
  BY <1>3 DEF CampInv, OneRun, AtWork
<1>5. SentAhead' /\ RepeatedOnlyByDeath' /\ LateLast' /\ CancelStopsSending' /\ SentIsComplete'
  BY DEF CampInv, SentAhead, Ahead, RepeatedOnlyByDeath, LateLast, CancelStopsSending, SentIsComplete, Pending
<1>6. SendingIsOwned'
  BY <1>3 DEF CampInv, SendingIsOwned, Committed
<1>. QED  BY <1>1, <1>2, <1>4, <1>5, <1>6 DEF CampInv

LEMMA StartChecksStep == ASSUME CampInv, NEW s \in Senders, StartChecks(s) PROVE CampInv'
<1>1. PICK was \in SenderRow : was = sender[s] /\ was.pc = "idle" /\ was.found = <<>> /\ was.offset = 0
  BY CampaignTyped DEF StartChecks, CampInv, Paged
<1>2. PICK r : r = [was EXCEPT !.pc = "paging"]
  OBVIOUS
<1>3. r \in SenderRow /\ r.pc = "paging" /\ r.found = <<>> /\ r.offset = 0
  BY <1>1, <1>2 DEF SenderRow
<1>4. /\ sender' = [sender EXCEPT ![s] = r] /\ ~ Committed(s)
      /\ UNCHANGED <<campaign, recipient, unlinked, listing, suppressed, editor, worker, starts, stranded, moves,
                     jobs, sentTo, died, late, crashes>>
  BY <1>1, <1>2 DEF StartChecks, SenderSet, Rows, Outside, Committed
<1>5. r.offset <= Len(listing) /\ r.found = SubSeq(listing, 1, r.offset)
  <2>1. Len(listing) \in Nat /\ SubSeq(listing, 1, 0) = <<>>
    BY CampaignTyped, SubSeqEmpty
  <2>. QED  BY <1>3, <2>1
<1>. QED  BY <1>3, <1>4, <1>5, SenderGoesOn

LEMMA LesserOf ==
    ASSUME NEW a \in Int, NEW b \in Int
    PROVE  Min({a, b}) \in {a, b} /\ Min({a, b}) <= a /\ Min({a, b}) <= b
<1>1. \E x \in {a, b} : \A y \in {a, b} : x <= y
  OBVIOUS
<1>. QED  BY <1>1 DEF Min

\* A page is the next part of the segment; one that is not full is its last.
LEMMA PageIsNext ==
    ASSUME NEW offset \in Nat, listing \in Seq(Contacts)
    PROVE  /\ Page(offset) \in Seq(Contacts)
           /\ offset <= Len(listing) =>
                 /\ Len(Page(offset)) >= PageSize =>
                       /\ offset + PageSize <= Len(listing)
                       /\ SubSeq(listing, 1, offset) \o Page(offset) = SubSeq(listing, 1, offset + PageSize)
                 /\ Len(Page(offset)) < PageSize => SubSeq(listing, 1, offset) \o Page(offset) = listing
<1>1. Len(listing) \in Nat /\ PageSize \in Nat /\ PageSize > 0 /\ \A i \in 1..Len(listing) : listing[i] \in Contacts
  BY CampaignAssumption
<1>2. PICK m \in Int : /\ m = Min({offset + PageSize, Len(listing)}) /\ m \in {offset + PageSize, Len(listing)}
                       /\ m <= offset + PageSize /\ m <= Len(listing)
  <2>1. PICK a \in Int, b \in Int : a = offset + PageSize /\ b = Len(listing)
    BY <1>1
  <2>2. Min({a, b}) \in {a, b} /\ Min({a, b}) <= a /\ Min({a, b}) <= b
    BY LesserOf
  <2>. QED  BY <2>1, <2>2
<1>3. Page(offset) = SubSeq(listing, offset + 1, m)
  BY <1>2 DEF Page
<1>4. \A i \in (offset + 1) .. m : listing[i] \in Contacts
  BY <1>1, <1>2
<1>5. /\ Page(offset) \in Seq(Contacts)
      /\ Len(Page(offset)) = IF offset + 1 <= m THEN m - (offset + 1) + 1 ELSE 0
  BY <1>3, <1>4, SubSeqProperties
<1>6. ASSUME offset <= Len(listing)
      PROVE  /\ offset <= m /\ Len(Page(offset)) = m - offset
             /\ SubSeq(listing, 1, offset) \o Page(offset) = SubSeq(listing, 1, m)
  <2>1. offset <= m /\ Len(Page(offset)) = m - offset
    BY <1>1, <1>2, <1>5, <1>6
  <2>2. 1 \in 1 .. Len(listing) + 1 /\ offset \in (1 - 1) .. Len(listing) /\ m \in offset .. Len(listing)
    BY <1>1, <1>2, <1>6, <2>1
  <2>3. SubSeq(listing, 1, offset) \o SubSeq(listing, offset + 1, m) = SubSeq(listing, 1, m)
    BY <2>2, ConcatAdjacentSubSeq
  <2>. QED  BY <1>3, <2>1, <2>3
<1>7. SubSeq(listing, 1, Len(listing)) = listing
  BY SubSeqFull
<1>8. ASSUME offset <= Len(listing), Len(Page(offset)) >= PageSize PROVE m = offset + PageSize
  <2>1. PICK k : k = Len(Page(offset))
    OBVIOUS
  <2>2. k = m - offset /\ k >= PageSize
    BY <1>6, <1>8, <2>1
  <2>. QED  BY <1>1, <1>2, <2>2
<1>9. ASSUME offset <= Len(listing), Len(Page(offset)) < PageSize PROVE m = Len(listing)
  BY <1>1, <1>2, <1>6, <1>9
<1>10. ASSUME offset <= Len(listing), Len(Page(offset)) >= PageSize
       PROVE  /\ offset + PageSize <= Len(listing)
              /\ SubSeq(listing, 1, offset) \o Page(offset) = SubSeq(listing, 1, offset + PageSize)
  BY <1>2, <1>6, <1>8, <1>10
<1>11. ASSUME offset <= Len(listing), Len(Page(offset)) < PageSize
       PROVE  SubSeq(listing, 1, offset) \o Page(offset) = listing
  BY <1>6, <1>7, <1>9, <1>11
<1>. QED  BY <1>5, <1>10, <1>11

LEMMA ReadPageStep == ASSUME CampInv, NEW s \in Senders, ReadPage(s) PROVE CampInv'
<1>1. listing \in Seq(Contacts) /\ Len(listing) \in Nat /\ PageSize \in Nat
  BY CampaignTyped, CampaignAssumption
<1>2. PICK was \in SenderRow : was = sender[s] /\ was.pc = "paging"
  BY CampaignTyped DEF ReadPage
<1>3. PICK n \in Nat, had \in Seq(Contacts) : n = was.offset /\ had = was.found
  BY DEF SenderRow
<1>4. moves = 0 => n <= Len(listing) /\ had = SubSeq(listing, 1, n)
  BY <1>2, <1>3 DEF CampInv, Paged
<1>5. PICK page : page = Page(n)
  OBVIOUS
<1>6. PICK found, next, pc : /\ found = had \o page /\ next = n + PageSize
                             /\ pc = IF Len(page) < PageSize THEN "enrolling" ELSE "paging"
  OBVIOUS
<1>7. PICK k : k = Len(page)
  OBVIOUS
<1>8. /\ page \in Seq(Contacts)
      /\ n <= Len(listing) =>
            /\ k >= PageSize =>
                  /\ next <= Len(listing)
                  /\ SubSeq(listing, 1, n) \o page = SubSeq(listing, 1, next)
            /\ k < PageSize => SubSeq(listing, 1, n) \o page = listing
  <2>1. /\ Page(n) \in Seq(Contacts)
        /\ n <= Len(listing) =>
              /\ Len(Page(n)) >= PageSize =>
                    /\ n + PageSize <= Len(listing)
                    /\ SubSeq(listing, 1, n) \o Page(n) = SubSeq(listing, 1, n + PageSize)
              /\ Len(Page(n)) < PageSize => SubSeq(listing, 1, n) \o Page(n) = listing
    BY <1>1, PageIsNext
  <2>. QED  BY <1>5, <1>6, <1>7, <2>1
<1>9. found \in Seq(Contacts) /\ next \in Nat /\ k \in Nat /\ pc \in {"enrolling", "paging"}
  BY <1>1, <1>6, <1>7, <1>8
<1>10. PICK r : r = [was EXCEPT !.found = found, !.offset = next, !.pc = pc]
  OBVIOUS
<1>11. r \in SenderRow /\ r.found = found /\ r.offset = next /\ r.pc = pc
  BY <1>9, <1>10 DEF SenderRow
<1>12. /\ sender' = [sender EXCEPT ![s] = r] /\ ~ Committed(s)
       /\ UNCHANGED <<campaign, recipient, unlinked, listing, suppressed, editor, worker, starts, stranded, moves,
                      jobs, sentTo, died, late, crashes>>
  <2>1. /\ sender' = [sender EXCEPT ![s] =
               [sender[s] EXCEPT !.found = sender[s].found \o Page(sender[s].offset),
                                 !.offset = sender[s].offset + PageSize,
                                 !.pc = IF Len(Page(sender[s].offset)) < PageSize THEN "enrolling" ELSE "paging"]]
        /\ UNCHANGED <<campaign, recipient, unlinked, listing, suppressed, editor, worker, starts, stranded, moves,
                       jobs, sentTo, died, late, crashes>>
    BY DEF ReadPage, SenderSet, Rows, Outside
  <2>2. /\ found = sender[s].found \o Page(sender[s].offset) /\ next = sender[s].offset + PageSize
        /\ pc = IF Len(Page(sender[s].offset)) < PageSize THEN "enrolling" ELSE "paging"
    BY <1>2, <1>3, <1>5, <1>6
  <2>3. r = [sender[s] EXCEPT !.found = found, !.offset = next, !.pc = pc]
    BY <1>2, <1>10
  <2>4. ~ Committed(s)
    BY <1>2 DEF Committed
  <2>. QED  BY <2>1, <2>2, <2>3, <2>4
<1>13. ASSUME moves = 0, r.pc = "paging" PROVE r.offset <= Len(listing) /\ r.found = SubSeq(listing, 1, r.offset)
  <2>1. k >= PageSize
    BY <1>1, <1>6, <1>7, <1>9, <1>11, <1>13
  <2>. QED  BY <1>4, <1>6, <1>8, <1>11, <1>13, <2>1
<1>14. ASSUME moves = 0, r.pc = "enrolling" PROVE r.found = listing
  <2>1. k < PageSize
    BY <1>6, <1>7, <1>11, <1>14
  <2>. QED  BY <1>4, <1>6, <1>8, <1>11, <1>14, <2>1
<1>. QED  BY <1>11, <1>12, <1>13, <1>14, <1>9, SenderGoesOn

LEMMA LookUpStep == ASSUME CampInv, NEW s \in Senders, LookUp(s) PROVE CampInv'
<1>1. PICK was \in SenderRow : was = sender[s] /\ was.pc = "enrolling"
  BY CampaignTyped DEF LookUp
<1>2. PICK found \in Seq(Contacts), seen \in Nat, turned \in SUBSET Contacts :
         found = was.found /\ seen = was.seen /\ turned = was.barred
  BY DEF SenderRow
<1>3. seen < Len(found)
  BY <1>1, <1>2 DEF LookUp
<1>4. PICK c \in Contacts : c = found[seen + 1]
  <2>1. seen + 1 \in 1..Len(found) /\ \A k \in 1..Len(found) : found[k] \in Contacts
    BY <1>3
  <2>. QED  BY <2>1
<1>5. PICK next, barred :
        next = seen + 1 /\ barred = IF c \in suppressed THEN turned \union {c} ELSE turned
  OBVIOUS
<1>6. PICK r : r = [was EXCEPT !.seen = next, !.barred = barred]
  OBVIOUS
<1>7. r \in SenderRow /\ r.pc = "enrolling" /\ r.found = found
  <2>1. next \in Nat /\ barred \in SUBSET Contacts
    BY <1>5
  <2>. QED  BY <1>1, <1>2, <1>6, <2>1 DEF SenderRow
<1>8. /\ sender' = [sender EXCEPT ![s] = r] /\ ~ Committed(s)
      /\ UNCHANGED <<campaign, recipient, unlinked, listing, suppressed, editor, worker, starts, stranded, moves,
                     jobs, sentTo, died, late, crashes>>
  <2>1. /\ sender' = [sender EXCEPT ![s] =
               [sender[s] EXCEPT !.seen = sender[s].seen + 1,
                                 !.barred = IF sender[s].found[sender[s].seen + 1] \in suppressed
                                            THEN sender[s].barred \union {sender[s].found[sender[s].seen + 1]}
                                            ELSE sender[s].barred]]
        /\ UNCHANGED <<campaign, recipient, unlinked, listing, suppressed, editor, worker, starts, stranded, moves,
                       jobs, sentTo, died, late, crashes>>
    BY DEF LookUp, SenderSet, Rows, Outside
  <2>2. /\ next = sender[s].seen + 1
        /\ barred = IF sender[s].found[sender[s].seen + 1] \in suppressed
                    THEN sender[s].barred \union {sender[s].found[sender[s].seen + 1]} ELSE sender[s].barred
    BY <1>1, <1>2, <1>4, <1>5
  <2>3. r = [sender[s] EXCEPT !.seen = next, !.barred = barred]
    BY <1>1, <1>6
  <2>4. ~ Committed(s)
    BY <1>1 DEF Committed
  <2>. QED  BY <2>1, <2>2, <2>3, <2>4
<1>9. moves = 0 => found = listing
  BY <1>1, <1>2 DEF CampInv, SegmentIsWhole
<1>. QED  BY <1>7, <1>8, <1>9, SenderGoesOn

LEMMA EnrollFailsStep == ASSUME CampInv, NEW s \in Senders, EnrollFails(s) PROVE CampInv'
<1>1. PICK was \in SenderRow : was = sender[s] /\ was.pc = "enrolling"
  BY CampaignTyped DEF EnrollFails, Looked
<1>2. PICK r : r = [was EXCEPT !.pc = "failed"]
  OBVIOUS
<1>3. r \in SenderRow /\ r.pc = "failed"
  BY <1>1, <1>2 DEF SenderRow
<1>4. /\ sender' = [sender EXCEPT ![s] = r] /\ ~ Committed(s)
      /\ UNCHANGED <<campaign, recipient, unlinked, listing, suppressed, editor, worker, starts, stranded, moves,
                     jobs, sentTo, died, late, crashes>>
  BY <1>1, <1>2 DEF EnrollFails, SenderSet, Rows, Outside, Committed
<1>. QED  BY <1>3, <1>4, SenderGoesOn

LEMMA EnrollStep == ASSUME CampInv, NEW s \in Senders, Enroll(s) PROVE CampInv'
<1>0. /\ starts \in Nat /\ recipient \in [Contacts -> {"none", "pending", "suppressed", "sent", "failed"}]
      /\ unlinked \subseteq Contacts
  BY CampaignTyped DEF CampInv, CampaignTypeOK
<1>1. PICK was \in SenderRow : was = sender[s] /\ was.pc = "enrolling"
  BY CampaignTyped DEF Enroll, Looked
<1>2. PICK r : r = [was EXCEPT !.pc = "committed"]
  OBVIOUS
<1>3. r \in SenderRow /\ r.pc = "committed"
  BY <1>1, <1>2 DEF SenderRow
<1>4. /\ sender' = [sender EXCEPT ![s] = r] /\ campaign' = "sending" /\ starts' = starts + 1
      /\ unlinked' = unlinked \ ToSet(sender[s].found)
      /\ recipient' = [c \in Contacts |->
           IF c \notin ToSet(sender[s].found) THEN recipient[c]
           ELSE IF c \in sender[s].barred THEN "suppressed" ELSE "pending"]
      /\ UNCHANGED <<listing, suppressed, editor, worker, stranded, moves, jobs, sentTo, died, late, crashes>>
  BY <1>1, <1>2 DEF Enroll, SenderSet, Outside
<1>5. /\ sender' \in [Senders -> SenderRow] /\ sender'[s] = r
      /\ \A u \in Senders \ {s} : sender'[u] = sender[u]
      /\ AtContact' /\ BarredStay' /\ SuppressedNeverSent' /\ Paged' /\ SegmentIsWhole'
  BY <1>3, <1>4, SenderParts
<1>6. CampaignTypeOK'
  <2>1. recipient' \in [Contacts -> {"none", "pending", "suppressed", "sent", "failed"}]
    BY <1>0, <1>4
  <2>2. unlinked' \subseteq Contacts /\ starts' \in Nat
    BY <1>0, <1>4
  <2>. QED  BY <1>4, <1>5, <2>1, <2>2 DEF CampInv, CampaignTypeOK, SenderRow
<1>7. ASSUME starts' <= 1
      PROVE  /\ starts = 0 /\ jobs = 0 /\ late = 0 /\ (\A w \in Workers : ~ AtWork(w))
             /\ \A u \in Senders \ {s} : ~ Committed(u)
  BY <1>0, <1>4, <1>7 DEF CampInv, OneRun
<1>8. OneRun'
  <2>. SUFFICES ASSUME starts' <= 1 PROVE OneRun'
    BY DEF OneRun
  <2>1. jobs' = 0 /\ starts' # 0 /\ (\A w \in Workers : ~ AtWork(w)') /\ \A u \in Senders \ {s} : ~ Committed(u)'
    BY <1>0, <1>4, <1>5, <1>7 DEF AtWork, Committed
  <2>. QED  BY <2>1 DEF OneRun
<1>9. SentAhead' /\ RepeatedOnlyByDeath'
  <2>1. starts' \in Nat /\ starts <= starts' /\ UNCHANGED <<sentTo, died>>
    BY <1>0, <1>4
  <2>2. starts' <= 1 => \A c \in Contacts : Ahead(c)' => Ahead(c)
    BY <1>7 DEF Ahead
  <2>. QED  BY <2>1, <2>2, SentKept
<1>10. LateLast' /\ CancelStopsSending' /\ SentIsComplete'
  BY <1>4, <1>7 DEF LateLast, CancelStopsSending, SentIsComplete
<1>11. SendingIsOwned'
  BY <1>3, <1>5 DEF SendingIsOwned
<1>. QED  BY <1>5, <1>6, <1>8, <1>9, <1>10, <1>11 DEF CampInv

\* A request that committed leaves its job in the queue, or dies.
LEMMA SenderEnds ==
    ASSUME CampInv, NEW s \in Senders, Committed(s), NEW pc \in {"done", "failed"},
           sender' = [sender EXCEPT ![s].pc = pc], jobs' \in {jobs, jobs + 1}, stranded' \in BOOLEAN,
           crashes' \in 0..MaxCrashes, stranded' \/ jobs' = jobs + 1,
           UNCHANGED <<campaign, recipient, unlinked, listing, suppressed, editor, worker, starts, moves,
                       sentTo, died, late>>
    PROVE  CampInv'
<1>0. starts \in Nat /\ jobs \in Nat
  BY CampaignTyped
<1>1. PICK was \in SenderRow : was = sender[s] /\ was.pc = "committed"
  BY CampaignTyped DEF Committed
<1>2. PICK r : r = [was EXCEPT !.pc = pc]
  OBVIOUS
<1>3. r \in SenderRow /\ r.pc = pc
  BY <1>1, <1>2 DEF SenderRow
<1>4. sender' = [sender EXCEPT ![s] = r]
  BY <1>1, <1>2, CampaignTyped
<1>5. /\ sender' \in [Senders -> SenderRow] /\ sender'[s] = r
      /\ \A u \in Senders \ {s} : sender'[u] = sender[u]
      /\ AtContact' /\ BarredStay' /\ SuppressedNeverSent' /\ Paged' /\ SegmentIsWhole'
  BY <1>3, <1>4, SenderParts
<1>6. CampaignTypeOK'
  <2>1. jobs' \in Nat
    BY <1>0
  <2>. QED  BY <1>5, <2>1 DEF CampInv, CampaignTypeOK, SenderRow
<1>7. OneRun'
  <2>. SUFFICES ASSUME starts <= 1 PROVE OneRun'
    BY DEF OneRun
  <2>1. /\ jobs = 0 /\ starts # 0 /\ (\A w \in Workers : ~ AtWork(w)) /\ \A u \in Senders \ {s} : ~ Committed(u)
    BY <1>0 DEF CampInv, OneRun
  <2>2. jobs' <= 1 /\ (\A w \in Workers : ~ AtWork(w)') /\ \A u \in Senders : ~ Committed(u)'
    BY <1>0, <1>3, <1>5, <2>1 DEF AtWork, Committed
  <2>. QED  BY <2>1, <2>2 DEF OneRun
<1>8. SentAhead' /\ RepeatedOnlyByDeath' /\ LateLast' /\ CancelStopsSending' /\ SentIsComplete'
  BY DEF CampInv, SentAhead, Ahead, RepeatedOnlyByDeath, LateLast, CancelStopsSending, SentIsComplete, Pending
<1>9. SendingIsOwned'
  BY <1>0 DEF SendingIsOwned
<1>. QED  BY <1>5, <1>6, <1>7, <1>8, <1>9 DEF CampInv

LEMMA SenderStep ==
    ASSUME CampInv, NEW s \in Senders,
           \/ StartChecks(s) \/ ReadPage(s) \/ LookUp(s)
           \/ Enroll(s) \/ EnrollFails(s) \/ Enqueue(s) \/ SenderDies(s)
    PROVE  CampInv'
<1>0. starts \in Nat /\ jobs \in Nat /\ crashes \in 0..MaxCrashes /\ MaxCrashes \in Nat /\ stranded \in BOOLEAN
  BY CampaignTyped, CampaignAssumption DEF CampInv, CampaignTypeOK
<1>1. CASE Enqueue(s)
  <2>1. /\ Committed(s) /\ sender' = [sender EXCEPT ![s].pc = "done"] /\ jobs' = jobs + 1
        /\ UNCHANGED <<campaign, recipient, unlinked, listing, suppressed, editor, worker, starts, moves,
                       sentTo, died, late, stranded, crashes>>
    BY <1>1 DEF Enqueue, SenderSet, Rows, Outside, Committed
  <2>. QED  BY <1>0, <2>1, SenderEnds
<1>2. CASE SenderDies(s)
  <2>1. /\ Committed(s) /\ sender' = [sender EXCEPT ![s].pc = "failed"] /\ stranded' = TRUE /\ crashes' = crashes + 1
        /\ crashes < MaxCrashes
        /\ UNCHANGED <<campaign, recipient, unlinked, listing, suppressed, editor, worker, starts, moves, jobs,
                       sentTo, died, late>>
    BY <1>2 DEF SenderDies, Rows, Outside, Committed
  <2>2. crashes' \in 0..MaxCrashes
    BY <1>0, <2>1
  <2>. QED  BY <1>0, <2>1, <2>2, SenderEnds
<1>. QED  BY <1>1, <1>2, StartChecksStep, ReadPageStep, LookUpStep, EnrollStep, EnrollFailsStep
-------------------------------------------------------------------------------
\* Contacts and suppressions, and requests on the campaign, touch no run.
LEMMA RunsUntouched ==
    ASSUME CampInv, UNCHANGED <<sender, jobs, sentTo, died, late, starts, stranded>>,
           worker' \in [Workers -> WorkerRow],
           \A w \in Workers : worker'[w].pc = worker[w].pc /\ worker'[w].contact = worker[w].contact,
           recipient' = recipient \/ \A c \in Contacts : recipient'[c] = "none",
           campaign' = campaign \/ campaign' = "deleted" \/ (campaign = "sending" /\ campaign' = "cancelled")
    PROVE  /\ AtContact' /\ OneRun' /\ SentAhead' /\ RepeatedOnlyByDeath' /\ LateLast' /\ CancelStopsSending'
           /\ SendingIsOwned' /\ SentIsComplete'
<1>1. AtContact' /\ CancelStopsSending'
  BY DEF CampInv, AtContact, CancelStopsSending
<1>2. OneRun'
  <2>1. \A w \in Workers : AtWork(w)' <=> AtWork(w)
    BY DEF AtWork
  <2>2. \A s \in Senders : Committed(s)' <=> Committed(s)
    BY DEF Committed
  <2>3. starts = 0 /\ starts <= 1 => campaign' \in {"draft", "deleted"}
    BY DEF CampInv, OneRun
  <2>. QED  BY <2>1, <2>2, <2>3 DEF CampInv, OneRun
<1>3. SentAhead' /\ RepeatedOnlyByDeath'
  <2>1. \A c \in Contacts : Ahead(c)' => Ahead(c)
    BY DEF Ahead
  <2>. QED  BY <2>1, SentKept, CampaignTyped
<1>4. LateLast'
  BY DEF CampInv, LateLast
<1>5. SendingIsOwned'
  BY DEF CampInv, SendingIsOwned
<1>6. SentIsComplete'
  BY DEF CampInv, SentIsComplete, Pending
<1>. QED  BY <1>1, <1>2, <1>3, <1>4, <1>5, <1>6

LEMMA CampaignEdits ==
    ASSUME CampInv, EditChecks \/ UpdateCampaign \/ DeleteCampaign \/ CancelCampaign
    PROVE  CampInv'
<1>1. /\ UNCHANGED <<listing, suppressed, sender, jobs, worker, sentTo, died, late, starts, stranded, crashes, moves>>
      /\ editor' \in {"idle", "updating", "deleting", "done"}
      /\ \/ UNCHANGED <<campaign, recipient, unlinked>>
         \/ campaign' = "deleted" /\ recipient' = [c \in Contacts |-> "none"] /\ unlinked' = {}
         \/ campaign = "sending" /\ campaign' = "cancelled" /\ UNCHANGED <<recipient, unlinked>>
  <2>1. editor \in {"idle", "updating", "deleting", "done"}
    BY DEF CampInv, CampaignTypeOK
  <2>2. CASE EditChecks \/ UpdateCampaign
    BY <2>2 DEF EditChecks, UpdateCampaign, Rows, Outside
  <2>3. CASE DeleteCampaign
    BY <2>3 DEF DeleteCampaign, Outside
  <2>4. CASE CancelCampaign
    BY <2>1, <2>4 DEF CancelCampaign, Outside
  <2>. QED  BY <2>2, <2>3, <2>4
<1>2. CampaignTypeOK'
  BY <1>1 DEF CampInv, CampaignTypeOK
<1>3. BarredStay' /\ SuppressedNeverSent' /\ Paged' /\ SegmentIsWhole'
  BY <1>1 DEF CampInv, BarredStay, SuppressedNeverSent, Paged, SegmentIsWhole
<1>4. \/ recipient' = recipient
      \/ \A c \in Contacts : recipient'[c] = "none"
  BY <1>1
<1>5. campaign' = campaign \/ campaign' = "deleted" \/ (campaign = "sending" /\ campaign' = "cancelled")
  BY <1>1
<1>6. worker' \in [Workers -> WorkerRow] /\ \A w \in Workers : worker'[w].pc = worker[w].pc /\ worker'[w].contact = worker[w].contact
  BY CampaignTyped, <1>1
<1>7. /\ AtContact' /\ OneRun' /\ SentAhead' /\ RepeatedOnlyByDeath' /\ LateLast' /\ CancelStopsSending'
      /\ SendingIsOwned' /\ SentIsComplete'
  BY <1>1, <1>4, <1>5, <1>6, RunsUntouched
<1>. QED  BY <1>2, <1>3, <1>7 DEF CampInv

\* The list of contacts changes, or who is suppressed.
LEMMA ListingChanges ==
    ASSUME CampInv, Move, UNCHANGED <<campaign, recipient, sender, editor, jobs, sentTo, died, late, starts, stranded, crashes>>,
           unlinked' \subseteq Contacts, suppressed' \subseteq Contacts, listing' \in Seq(Contacts), IsInjective(listing)',
           worker' \in [Workers -> WorkerRow],
           \A w \in Workers : /\ worker'[w].pc = worker[w].pc /\ worker'[w].contact = worker[w].contact
                              /\ worker'[w].barred \subseteq worker[w].barred /\ worker'[w].barred \subseteq suppressed'
    PROVE  CampInv'
<1>1. moves' \in 1..MaxListing /\ moves' # 0
  BY CampaignAssumption DEF Move, CampInv, CampaignTypeOK
<1>2. CampaignTypeOK'
  BY <1>1 DEF CampInv, CampaignTypeOK, WorkerRow
<1>3. BarredStay' /\ SuppressedNeverSent'
  BY DEF CampInv, BarredStay, SuppressedNeverSent
<1>4. Paged' /\ SegmentIsWhole'
  BY <1>1 DEF CampInv, Paged, SegmentIsWhole
<1>5. /\ AtContact' /\ OneRun' /\ SentAhead' /\ RepeatedOnlyByDeath' /\ LateLast' /\ CancelStopsSending'
      /\ SendingIsOwned' /\ SentIsComplete'
  BY RunsUntouched
<1>. QED  BY <1>2, <1>3, <1>4, <1>5 DEF CampInv

LEMMA NoLongerBarred ==
    ASSUME CampInv, NEW c \in Contacts, worker' = [w \in Workers |-> [worker[w] EXCEPT !.barred = @ \ {c}]]
    PROVE  /\ worker' \in [Workers -> WorkerRow]
           /\ \A w \in Workers : /\ worker'[w].pc = worker[w].pc /\ worker'[w].contact = worker[w].contact
                                 /\ worker'[w].barred = worker[w].barred \ {c}
<1>1. ASSUME NEW w \in Workers
      PROVE  /\ worker'[w] \in WorkerRow /\ worker'[w].pc = worker[w].pc /\ worker'[w].contact = worker[w].contact
             /\ worker'[w].barred = worker[w].barred \ {c}
  <2>1. PICK was \in WorkerRow : was = worker[w]
    BY CampaignTyped
  <2>2. worker'[w] = [was EXCEPT !.barred = was.barred \ {c}]
    BY <2>1
  <2>. QED  BY <2>1, <2>2 DEF WorkerRow
<1>. QED  BY <1>1

\* The rest of an injective sequence is one.
LEMMA RestOf ==
    ASSUME NEW q \in Seq(Contacts), IsInjective(q), NEW i \in DOMAIN q
    PROVE  RemoveAt(q, i) \in Seq(Contacts) /\ IsInjective(RemoveAt(q, i))
<1>1. i \in 1..Len(q) /\ Len(q) \in Nat /\ \A j \in 1..Len(q) : q[j] \in Contacts
  OBVIOUS
<1>2. PICK a : a = SubSeq(q, 1, i - 1)
  OBVIOUS
<1>3. PICK b : b = SubSeq(q, i + 1, Len(q))
  OBVIOUS
<1>4. a \in Seq(Contacts) /\ Len(a) = i - 1 /\ \A j \in 1..(i - 1) : a[j] = q[j]
  <2>1. \A j \in 1 .. (i - 1) : q[j] \in Contacts
    BY <1>1
  <2>2. /\ SubSeq(q, 1, i - 1) \in Seq(Contacts)
        /\ Len(SubSeq(q, 1, i - 1)) = IF 1 <= i - 1 THEN (i - 1) - 1 + 1 ELSE 0
        /\ \A j \in 1 .. (i - 1) - 1 + 1 : SubSeq(q, 1, i - 1)[j] = q[1 + j - 1]
    BY <1>1, <2>1, SubSeqProperties
  <2>. QED  BY <1>1, <1>2, <2>2
<1>5. b \in Seq(Contacts) /\ Len(b) = Len(q) - i /\ \A j \in 1..(Len(q) - i) : b[j] = q[i + j]
  <2>1. \A j \in (i + 1) .. Len(q) : q[j] \in Contacts
    BY <1>1
  <2>2. /\ SubSeq(q, i + 1, Len(q)) \in Seq(Contacts)
        /\ Len(SubSeq(q, i + 1, Len(q))) = IF i + 1 <= Len(q) THEN Len(q) - (i + 1) + 1 ELSE 0
        /\ \A j \in 1 .. Len(q) - (i + 1) + 1 : SubSeq(q, i + 1, Len(q))[j] = q[i + 1 + j - 1]
    BY <1>1, <2>1, SubSeqProperties
  <2>. QED  BY <1>1, <1>3, <2>2
<1>6. /\ a \o b \in Seq(Contacts) /\ Len(a \o b) = Len(q) - 1
      /\ \A j \in 1..(Len(q) - 1) : (a \o b)[j] = IF j < i THEN q[j] ELSE q[j + 1]
  <2>1. /\ a \o b \in Seq(Contacts) /\ Len(a \o b) = Len(a) + Len(b)
        /\ \A j \in 1 .. Len(a) + Len(b) : (a \o b)[j] = IF j <= Len(a) THEN a[j] ELSE b[j - Len(a)]
    BY <1>4, <1>5, ConcatProperties
  <2>2. Len(a) + Len(b) = Len(q) - 1 /\ Len(a) = i - 1
    BY <1>1, <1>4, <1>5
  <2>3. ASSUME NEW j \in 1..(Len(q) - 1) PROVE (a \o b)[j] = IF j < i THEN q[j] ELSE q[j + 1]
    <3>1. (a \o b)[j] = IF j <= i - 1 THEN a[j] ELSE b[j - (i - 1)]
      BY <2>1, <2>2
    <3>2. CASE j < i
      BY <1>1, <1>4, <3>1, <3>2
    <3>3. CASE ~ (j < i)
      <4>1. j - (i - 1) \in 1..(Len(q) - i) /\ i + (j - (i - 1)) = j + 1
        BY <1>1, <3>3
      <4>2. b[j - (i - 1)] = q[j + 1]
        BY <1>5, <4>1
      <4>. QED  BY <1>1, <3>1, <3>3, <4>2
    <3>. QED  BY <3>2, <3>3
  <2>. QED  BY <2>1, <2>2, <2>3
<1>7. PICK v : v = a \o b
  OBVIOUS
<1>8. DOMAIN v = 1..(Len(q) - 1) /\ v \in Seq(Contacts)
  BY <1>6, <1>7
<1>9. ASSUME NEW j \in 1..(Len(q) - 1), NEW k \in 1..(Len(q) - 1), v[j] = v[k] PROVE j = k
  <2>1. /\ v[j] = q[IF j < i THEN j ELSE j + 1] /\ v[k] = q[IF k < i THEN k ELSE k + 1]
        /\ (IF j < i THEN j ELSE j + 1) \in DOMAIN q /\ (IF k < i THEN k ELSE k + 1) \in DOMAIN q
    BY <1>1, <1>6, <1>7
  <2>2. (IF j < i THEN j ELSE j + 1) = (IF k < i THEN k ELSE k + 1)
    BY <1>9, <2>1 DEF IsInjective
  <2>. QED  BY <1>1, <2>2
<1>10. IsInjective(v)
  BY <1>8, <1>9 DEF IsInjective
<1>. QED  BY <1>2, <1>3, <1>7, <1>8, <1>10 DEF RemoveAt

LEMMA ContactsStep ==
    ASSUME CampInv, NEW c \in Contacts, AddContact(c) \/ DeleteContact(c) \/ CreateSuppression(c) \/ DeleteSuppression(c)
    PROVE  CampInv'
<1>0. /\ listing \in Seq(Contacts) /\ IsInjective(listing) /\ suppressed \subseteq Contacts /\ unlinked \subseteq Contacts
      /\ worker \in [Workers -> WorkerRow] /\ \A w \in Workers : worker[w].barred \subseteq suppressed
  BY CampaignTyped DEF CampInv, CampaignTypeOK, BarredStay
<1>1. CASE AddContact(c)
  <2>1. /\ Move /\ listing' = <<c>> \o listing /\ ~ Contains(listing, c)
        /\ UNCHANGED <<campaign, recipient, unlinked, suppressed, sender, editor, jobs, worker, sentTo, died, late,
                       starts, stranded, crashes>>
    BY <1>1 DEF AddContact, Rows, Outside
  <2>2. listing' \in Seq(Contacts) /\ IsInjective(listing)'
    <3>1. Len(listing) \in Nat /\ \A j \in 1..Len(listing) : listing[j] # c
      BY <1>0, <2>1 DEF Contains
    <3>2. <<c>> \in Seq(Contacts) /\ Len(<<c>>) = 1 /\ <<c>>[1] = c
      OBVIOUS
    <3>3. PICK v : v = <<c>> \o listing
      OBVIOUS
    <3>4. /\ v \in Seq(Contacts) /\ Len(v) = 1 + Len(listing)
          /\ \A j \in 1 .. 1 + Len(listing) : v[j] = IF j <= 1 THEN <<c>>[j] ELSE listing[j - 1]
      BY <1>0, <3>2, <3>3, ConcatProperties
    <3>5. DOMAIN v = 1..(1 + Len(listing)) /\ v[1] = c
      BY <3>1, <3>2, <3>4
    <3>6. \A j \in 2..(1 + Len(listing)) : j - 1 \in 1..Len(listing) /\ v[j] = listing[j - 1] /\ v[j] # c
      BY <3>1, <3>4
    <3>7. ASSUME NEW j \in 1..(1 + Len(listing)), NEW k \in 1..(1 + Len(listing)), v[j] = v[k] PROVE j = k
      <4>1. CASE j = 1 \/ k = 1
        BY <3>1, <3>5, <3>6, <3>7, <4>1
      <4>2. CASE j # 1 /\ k # 1
        <5>1. /\ j - 1 \in DOMAIN listing /\ k - 1 \in DOMAIN listing /\ listing[j - 1] = listing[k - 1]
          BY <1>0, <3>1, <3>6, <3>7, <4>2
        <5>2. j - 1 = k - 1
          BY <1>0, <5>1 DEF IsInjective
        <5>. QED  BY <5>2
      <4>. QED  BY <4>1, <4>2
    <3>. QED  BY <2>1, <3>3, <3>4, <3>5, <3>7 DEF IsInjective
  <2>3. \A w \in Workers : /\ worker'[w].pc = worker[w].pc /\ worker'[w].contact = worker[w].contact
                           /\ worker'[w].barred \subseteq worker[w].barred /\ worker'[w].barred \subseteq suppressed'
    BY <1>0, <2>1
  <2>. QED  BY <1>0, <2>1, <2>2, <2>3, ListingChanges
<1>2. CASE DeleteContact(c)
  <2>1. PICK i \in DOMAIN listing : listing' = RemoveAt(listing, i)
    BY <1>2 DEF DeleteContact
  <2>2. /\ Move /\ suppressed' = suppressed \ {c} /\ unlinked' \in {unlinked, unlinked \union {c}}
        /\ worker' = [w \in Workers |-> [worker[w] EXCEPT !.barred = @ \ {c}]]
        /\ UNCHANGED <<campaign, recipient, sender, editor, jobs, sentTo, died, late, starts, stranded, crashes>>
    BY <1>2 DEF DeleteContact, Outside
  <2>3. listing' \in Seq(Contacts) /\ IsInjective(listing)'
    BY <1>0, <2>1, RestOf
  <2>4. /\ worker' \in [Workers -> WorkerRow]
        /\ \A w \in Workers : /\ worker'[w].pc = worker[w].pc /\ worker'[w].contact = worker[w].contact
                              /\ worker'[w].barred \subseteq worker[w].barred /\ worker'[w].barred \subseteq suppressed'
    <3>1. /\ worker' \in [Workers -> WorkerRow]
          /\ \A w \in Workers : /\ worker'[w].pc = worker[w].pc /\ worker'[w].contact = worker[w].contact
                                /\ worker'[w].barred = worker[w].barred \ {c}
      BY <2>2, NoLongerBarred
    <3>. QED  BY <1>0, <2>2, <3>1
  <2>5. unlinked' \subseteq Contacts /\ suppressed' \subseteq Contacts
    BY <1>0, <2>2
  <2>. QED  BY <2>2, <2>3, <2>4, <2>5, ListingChanges
<1>3. CASE CreateSuppression(c)
  <2>1. /\ Move /\ suppressed' = suppressed \union {c}
        /\ UNCHANGED <<campaign, recipient, unlinked, listing, sender, editor, jobs, worker, sentTo, died, late,
                       starts, stranded, crashes>>
    BY <1>3 DEF CreateSuppression, Rows, Outside
  <2>2. \A w \in Workers : /\ worker'[w].pc = worker[w].pc /\ worker'[w].contact = worker[w].contact
                           /\ worker'[w].barred \subseteq worker[w].barred /\ worker'[w].barred \subseteq suppressed'
    BY <1>0, <2>1
  <2>3. unlinked' \subseteq Contacts /\ suppressed' \subseteq Contacts /\ listing' \in Seq(Contacts) /\ IsInjective(listing)'
    BY <1>0, <2>1
  <2>. QED  BY <1>0, <2>1, <2>2, <2>3, ListingChanges
<1>4. CASE DeleteSuppression(c)
  <2>1. /\ Move /\ suppressed' = suppressed \ {c}
        /\ worker' = [w \in Workers |-> [worker[w] EXCEPT !.barred = @ \ {c}]]
        /\ UNCHANGED <<campaign, recipient, unlinked, listing, sender, editor, jobs, sentTo, died, late,
                       starts, stranded, crashes>>
    BY <1>4 DEF DeleteSuppression, Rows, Outside
  <2>2. /\ worker' \in [Workers -> WorkerRow]
        /\ \A w \in Workers : /\ worker'[w].pc = worker[w].pc /\ worker'[w].contact = worker[w].contact
                              /\ worker'[w].barred \subseteq worker[w].barred /\ worker'[w].barred \subseteq suppressed'
    <3>1. /\ worker' \in [Workers -> WorkerRow]
          /\ \A w \in Workers : /\ worker'[w].pc = worker[w].pc /\ worker'[w].contact = worker[w].contact
                                /\ worker'[w].barred = worker[w].barred \ {c}
      BY <2>1, NoLongerBarred
    <3>. QED  BY <1>0, <2>1, <3>1
  <2>3. unlinked' \subseteq Contacts /\ suppressed' \subseteq Contacts /\ listing' \in Seq(Contacts) /\ IsInjective(listing)'
    BY <1>0, <2>1
  <2>. QED  BY <2>1, <2>2, <2>3, ListingChanges
<1>. QED  BY <1>1, <1>2, <1>3, <1>4
-------------------------------------------------------------------------------
LEMMA CampaignStart ==
    ASSUME CampaignInit PROVE CampInv
<1>1. /\ IdleSender.pc = "idle" /\ IdleSender.found = <<>> /\ IdleSender.offset = 0 /\ IdleSender \in SenderRow
      /\ IdleWorker.pc = "idle" /\ IdleWorker.barred = {} /\ IdleWorker \in WorkerRow
  BY DEF IdleSender, IdleWorker, SenderRow, WorkerRow
<1>2. CampaignTypeOK
  <2>1. sender \in [Senders -> SenderRow] /\ worker \in [Workers -> WorkerRow]
    BY <1>1 DEF CampaignInit
  <2>2. /\ recipient \in [Contacts -> {"none", "pending", "suppressed", "sent", "failed"}]
        /\ sentTo \in [Contacts -> Nat] /\ died \in [Contacts -> Nat]
    BY DEF CampaignInit
  <2>3. listing \in Seq(Contacts) /\ IsInjective(listing)
    BY CampaignAssumption DEF CampaignInit
  <2>4. moves \in 0..MaxListing /\ crashes \in 0..MaxCrashes
    BY CampaignAssumption DEF CampaignInit
  <2>. QED  BY <2>1, <2>2, <2>3, <2>4 DEF CampaignInit, CampaignTypeOK, SenderRow, WorkerRow
<1>3. AtContact /\ OneRun /\ BarredStay /\ SuppressedNeverSent /\ Paged /\ SegmentIsWhole
  BY <1>1 DEF CampaignInit, AtContact, OneRun, AtWork, Committed, BarredStay, SuppressedNeverSent, Paged, SegmentIsWhole
<1>4. SentAhead /\ RepeatedOnlyByDeath /\ LateLast /\ CancelStopsSending /\ SendingIsOwned /\ SentIsComplete
  BY DEF CampaignInit, SentAhead, RepeatedOnlyByDeath, LateLast, CancelStopsSending, SendingIsOwned, SentIsComplete
<1>. QED  BY <1>2, <1>3, <1>4 DEF CampInv

LEMMA CampaignStep == ASSUME CampInv, [CampaignNext]_campaignVars PROVE CampInv'
<1>1. CASE UNCHANGED campaignVars
  BY <1>1 DEF campaignVars, CampInv, CampaignTypeOK, AtContact, OneRun, AtWork, Committed, SentAhead, Ahead,
              RepeatedOnlyByDeath, LateLast, CancelStopsSending, BarredStay, SuppressedNeverSent, SendingIsOwned,
              SentIsComplete, Pending, Paged, SegmentIsWhole
<1>. QED  BY <1>1, ContactsStep, CampaignEdits, SenderStep, WorkerStep DEF CampaignNext

\* Of a campaign started once, a message is repeated only for a run that died
\* between the mail and its mark, at most one follows the cancellation, and it
\* is sent when nobody is pending; none goes to a suppressed contact, and one in
\* sending is somebody's work, for any number of contacts, requests and workers
\* (sending.py, segmentation.py).
THEOREM EachRecipientOnceHolds == CampaignSpec => []EachRecipientOnce
<1>1. CampInv => EachRecipientOnce
  BY DEF CampInv, EachRecipientOnce
<1>. QED  BY CampaignStart, CampaignStep, <1>1, PTL DEF CampaignSpec
-------------------------------------------------------------------------------
(***************************************************************************)
(* The calendar.                                                           *)
(***************************************************************************)
ApptRow == [status : {"none", "confirmed", "cancelled", "completed", "no_show"},
            range : Ranges, linked : BOOLEAN, marked : BOOLEAN]
RequestRow == [pc : {"idle", "read", "locked", "publish"}, op : {"none", "link", "start", "end"} \union Ops,
               appt : Appts \union {None}, range : Ranges]
SweepRow == [pc : {"idle", "next", "mark"}, due : SUBSET Appts, appt : Appts \union {None}]

CalendarTyped ==
    /\ calendar \in {"present", "deleted"}
    /\ rules \subseteq Ranges /\ offer \subseteq Ranges
    /\ link \in Tokens \union {None} /\ handed \subseteq Tokens
    /\ event \in Ranges \union {None}
    /\ appt \in [Appts -> ApptRow]
    /\ lock \in [Appts -> Requests \union {None}]
    /\ request \in [Requests -> RequestRow]
    /\ published \in [Appts -> {0, 1}]
    /\ sweep \in [Sweeps -> SweepRow]
    /\ reminded \in [Appts -> Nat] /\ unmarked \in [Appts -> Nat]

\* A request past its lock holds the row, which is confirmed until it commits.
LockHolds ==
    \A q \in Requests : request[q].pc = "locked" =>
        /\ request[q].appt \in Appts
        /\ lock[request[q].appt] = q
        /\ appt[request[q].appt].status = "confirmed"

\* A completion that is still to be reported is reported by one request only.
ReportDue ==
    /\ \A q \in Requests : request[q].pc = "publish" =>
          /\ request[q].appt \in Appts
          /\ appt[request[q].appt].status = "completed"
          /\ published[request[q].appt] = 0
    /\ \A q, u \in Requests :
          request[q].pc = "publish" /\ request[u].pc = "publish" /\ request[q].appt = request[u].appt => q = u

\* The sweeps that are between a message to a and its mark, and those that
\* still have a before them.
Marking(a) == {w \in Sweeps : sweep[w].pc = "mark" /\ sweep[w].appt = a}
Facing(a) == {w \in Sweeps : a \in sweep[w].due}

\* What a sweep has read are rows; a row is marked only after it was booked.
SweepsReadRows ==
    /\ \A w \in Sweeps : /\ \A a \in sweep[w].due : appt[a].status # "none"
                         /\ sweep[w].pc = "idle" => sweep[w].due = {}
                         /\ sweep[w].pc = "mark" => /\ sweep[w].appt \in Appts
                                                    /\ sweep[w].appt \notin sweep[w].due
                                                    /\ appt[sweep[w].appt].status # "none"
    /\ \A a \in Appts : appt[a].status = "none" => ~ appt[a].marked

\* Before the row is marked a message was sent by each sweep about to mark it, by
\* those that died there and with each error raised after the provider took it;
\* afterwards only by sweeps that still face it.
RemindersCounted ==
    \A a \in Appts :
        IF appt[a].marked
        THEN reminded[a] + Cardinality(Facing(a)) <= Cardinality(Sweeps) + unmarked[a]
        ELSE reminded[a] <= Cardinality(Marking(a)) + unmarked[a]

AppInv ==
    /\ CalendarTyped
    /\ LockHolds /\ ReportDue
    /\ NoDoubleBooking /\ OfferIsBookable /\ NoOrphans /\ OneLink /\ CompletedOnce
    /\ SweepsReadRows /\ RemindersCounted
-------------------------------------------------------------------------------
\* The constraint refuses exactly the ranges the availability query calls overlapping.
LEMMA ConflictIsOverlap ==
    ASSUME NEW r \in Ranges, NEW b \in Ranges
    PROVE  (b[1]..(b[2] - 1)) \intersect (r[1]..(r[2] - 1)) # {} <=> Overlaps(r, b)
<1>1. PICK r1 \in Nat, r2 \in Nat, b1 \in Nat, b2 \in Nat :
         r1 = r[1] /\ r2 = r[2] /\ b1 = b[1] /\ b2 = b[2] /\ r1 < r2 /\ b1 < b2
  BY AppointmentsAssumption DEF Ranges, Instants0
<1>2. (b1..(b2 - 1)) \intersect (r1..(r2 - 1)) # {} <=> r1 < b2 /\ r2 > b1
  <2>1. CASE r1 < b2 /\ r2 > b1
    <3>1. CASE r1 <= b1
      <4>1. b1 \in (b1..(b2 - 1)) \intersect (r1..(r2 - 1))
        BY <1>1, <2>1, <3>1
      <4>. QED  BY <2>1, <4>1
    <3>2. CASE b1 < r1
      <4>1. r1 \in (b1..(b2 - 1)) \intersect (r1..(r2 - 1))
        BY <1>1, <2>1, <3>2
      <4>. QED  BY <2>1, <4>1
    <3>. QED  BY <3>1, <3>2
  <2>2. ASSUME NEW x \in (b1..(b2 - 1)) \intersect (r1..(r2 - 1)) PROVE r1 < b2 /\ r2 > b1
    OBVIOUS
  <2>. QED  BY <2>1, <2>2
<1>. QED  BY <1>1, <1>2 DEF Overlaps

LEMMA ConflictsAre ==
    ASSUME appt \in [Appts -> ApptRow], NEW r \in Ranges, NEW a
    PROVE  Conflicts(r, a) <=> \E b \in Confirmed \ {a} : Overlaps(r, appt[b].range)
<1>1. \A b \in Confirmed \ {a} : appt[b].range \in Ranges
  BY DEF Confirmed, ApptRow
<1>. QED  BY <1>1, ConflictIsOverlap DEF Conflicts

LEMMA OverlapsBothWays ==
    ASSUME NEW r \in Ranges, NEW b \in Ranges PROVE Overlaps(r, b) <=> Overlaps(b, r)
<1>1. PICK r1 \in Nat, r2 \in Nat, b1 \in Nat, b2 \in Nat : r1 = r[1] /\ r2 = r[2] /\ b1 = b[1] /\ b2 = b[2]
  BY AppointmentsAssumption DEF Ranges, Instants0
<1>. QED  BY <1>1 DEF Overlaps

\* Every slot is a range.
LEMMA SlotsAreRanges == rules \subseteq Ranges => AvailableSlots \subseteq Ranges
<1>. SUFFICES ASSUME rules \subseteq Ranges, NEW r \in rules, NEW s \in SlotsOf(r) PROVE s \in Ranges
  BY DEF AvailableSlots
<1>1. PICK k \in 0..LastInstant : /\ s = <<r[1] + k * SlotLength, r[1] + (k + 1) * SlotLength>>
                                  /\ r[1] + (k + 1) * SlotLength <= r[2]
  BY DEF SlotsOf
<1>2. PICK from \in Nat, to \in Nat : from = r[1] /\ to = r[2] /\ to <= LastInstant
  BY AppointmentsAssumption DEF Ranges, Instants0
<1>3. LastInstant \in Nat /\ SlotLength \in Nat /\ SlotLength > 0 /\ k \in Nat
  BY AppointmentsAssumption
<1>4. PICK x \in Nat : x = k * SlotLength
  BY <1>3
<1>5. (k + 1) * SlotLength = x + SlotLength
  BY <1>3, <1>4
<1>6. s = <<from + x, from + (x + SlotLength)>> /\ from + (x + SlotLength) <= to
  BY <1>1, <1>2, <1>4, <1>5
<1>. QED  BY <1>2, <1>3, <1>6 DEF Ranges, Instants0

\* No request but one with a lock, or one about to report, is bound to a row.
LEMMA RequestMoves ==
    ASSUME AppInv, NEW q \in Requests, NEW row \in RequestRow, request' = [request EXCEPT ![q] = row],
           row.pc \in {"idle", "read"}, UNCHANGED <<lock, appt, published>>
    PROVE  request' \in [Requests -> RequestRow] /\ LockHolds' /\ ReportDue'
<1>1. request' \in [Requests -> RequestRow] /\ request'[q] = row /\ \A u \in Requests \ {q} : request'[u] = request[u]
  BY DEF AppInv, CalendarTyped
<1>2. LockHolds'
  BY <1>1 DEF AppInv, LockHolds
<1>3. ReportDue'
  BY <1>1 DEF AppInv, ReportDue
<1>. QED  BY <1>1, <1>2, <1>3

\* A step that leaves the appointments and the sweeps alone.
LEMMA CalendarGoesOn ==
    ASSUME AppInv, UNCHANGED <<appt, lock, published, sweep, reminded, unmarked>>,
           calendar' \in {"present", "deleted"}, rules' \subseteq Ranges, offer' \subseteq Ranges,
           link' \in Tokens \union {None}, handed' \subseteq Tokens, event' \in Ranges \union {None},
           request' \in [Requests -> RequestRow],
           LockHolds', ReportDue', OfferIsBookable', NoOrphans', OneLink'
    PROVE  AppInv'
<1>1. CalendarTyped'
  BY DEF AppInv, CalendarTyped
<1>2. NoDoubleBooking' /\ CompletedOnce'
  BY DEF AppInv, NoDoubleBooking, CompletedOnce, Confirmed
<1>3. SweepsReadRows' /\ RemindersCounted'
  BY DEF AppInv, SweepsReadRows, RemindersCounted, Facing, Marking
<1>. QED  BY <1>1, <1>2, <1>3 DEF AppInv

LEMMA OfferStays ==
    ASSUME AppInv, UNCHANGED appt, offer' \in {offer, {}}, calendar' \in {calendar, "deleted"}
    PROVE  OfferIsBookable'
<1>1. \A s, a : Conflicts(s, a)' <=> Conflicts(s, a)
  BY DEF Conflicts, Confirmed
<1>. QED  BY <1>1 DEF AppInv, OfferIsBookable

LEMMA RulesStep ==
    ASSUME AppInv, NEW r \in Ranges, CreateRule(r) \/ DeleteRule(r) PROVE AppInv'
<1>1. /\ rules' \subseteq Ranges
      /\ UNCHANGED <<calendar, link, handed, event, appt, lock, request, offer, published, sweep, reminded, unmarked>>
  BY DEF AppInv, CalendarTyped, CreateRule, DeleteRule, bookingVars, sweepVars
<1>2. OfferIsBookable'
  BY <1>1, OfferStays
<1>3. LockHolds' /\ ReportDue' /\ NoOrphans' /\ OneLink'
  BY <1>1 DEF AppInv, LockHolds, ReportDue, NoOrphans, OneLink
<1>. QED  BY <1>1, <1>2, <1>3, CalendarGoesOn DEF AppInv, CalendarTyped

LEMMA EventsStep ==
    ASSUME AppInv, DeleteEvent \/ \E r \in Ranges : CreateEvent(r) PROVE AppInv'
<1>1. /\ event' \in Ranges \union {None} /\ (calendar = "deleted" => event' = None)
      /\ UNCHANGED <<calendar, rules, link, handed, appt, lock, request, offer, published, sweep, reminded, unmarked>>
  BY DEF CreateEvent, DeleteEvent, bookingVars, sweepVars
<1>2. OfferIsBookable'
  BY <1>1, OfferStays
<1>3. LockHolds' /\ ReportDue' /\ NoOrphans' /\ OneLink'
  BY <1>1 DEF AppInv, LockHolds, ReportDue, NoOrphans, OneLink
<1>. QED  BY <1>1, <1>2, <1>3, CalendarGoesOn DEF AppInv, CalendarTyped

LEMMA DeleteCalendarStep ==
    ASSUME AppInv, DeleteCalendar PROVE AppInv'
<1>1. /\ calendar' = "deleted" /\ rules' = {} /\ link' = None /\ offer' = {} /\ event = None
      /\ \A a \in Appts : appt[a].status = "none"
      /\ UNCHANGED <<handed, event, appt, lock, request, published, sweep, reminded, unmarked>>
  BY DEF DeleteCalendar, sweepVars
<1>2. OfferIsBookable'
  BY <1>1, OfferStays
<1>3. LockHolds' /\ ReportDue' /\ NoOrphans' /\ OneLink'
  BY <1>1 DEF AppInv, LockHolds, ReportDue, NoOrphans, OneLink
<1>. QED  BY <1>1, <1>2, <1>3, CalendarGoesOn DEF AppInv, CalendarTyped

\* A request that only reads, or that is over.
LEMMA AsksStep ==
    ASSUME AppInv, NEW q \in Requests, NEW row \in RequestRow, row.pc \in {"idle", "read"},
           request' = [request EXCEPT ![q] = row],
           UNCHANGED <<rules, calendar, offer, appt, lock, published, sweep, reminded, unmarked>>,
           link' \in Tokens \union {None}, handed' \subseteq Tokens, event' \in Ranges \union {None},
           NoOrphans', OneLink'
    PROVE  AppInv'
<1>1. request' \in [Requests -> RequestRow] /\ LockHolds' /\ ReportDue'
  BY RequestMoves
<1>2. OfferIsBookable'
  BY OfferStays
<1>. QED  BY <1>1, <1>2, CalendarGoesOn DEF AppInv, CalendarTyped

LEMMA IdleIsARow == IdleRequest \in RequestRow /\ IdleRequest.pc = "idle"
<1>1. <<0, 1>> \in Ranges
  BY AppointmentsAssumption DEF Ranges, Instants0
<1>. QED  BY <1>1 DEF IdleRequest, RequestRow

\* No link was handed out as long as there is none, since one handed out is the stored one.
LEMMA LinkStep ==
    ASSUME AppInv, NEW q \in Requests, AskLink(q) \/ InsertLinkFails(q) \/ \E t \in Tokens : InsertLink(q, t)
    PROVE  AppInv'
<1>1. CASE AskLink(q) /\ link # None
  <2>1. /\ calendar = "present" /\ handed' = handed \union {link}
        /\ UNCHANGED <<calendar, rules, link, event, appt, lock, offer, published, request, sweep, reminded, unmarked>>
    BY <1>1 DEF AskLink, sweepVars
  <2>2. OfferIsBookable'
    BY <2>1, OfferStays
  <2>3. LockHolds' /\ ReportDue' /\ NoOrphans' /\ OneLink'
    BY <2>1 DEF AppInv, LockHolds, ReportDue, NoOrphans, OneLink
  <2>4. link \in Tokens /\ handed' \subseteq Tokens
    BY <1>1, <2>1 DEF AppInv, CalendarTyped
  <2>. QED  BY <2>1, <2>2, <2>3, <2>4, CalendarGoesOn DEF AppInv, CalendarTyped
<1>2. CASE AskLink(q) /\ link = None
  <2>1. PICK was \in RequestRow : was = request[q]
    BY DEF AppInv, CalendarTyped
  <2>2. PICK row : row = [was EXCEPT !.pc = "read", !.op = "link"]
    OBVIOUS
  <2>3. row \in RequestRow /\ row.pc = "read"
    BY <2>2 DEF RequestRow
  <2>4. /\ request' = [request EXCEPT ![q].pc = "read", ![q].op = "link"]
        /\ UNCHANGED <<calendar, rules, link, handed, event, appt, lock, offer, published, sweep, reminded, unmarked>>
    BY <1>2 DEF AskLink, Ask, sweepVars
  <2>5. request' = [request EXCEPT ![q] = row]
    BY <2>1, <2>2, <2>4 DEF AppInv, CalendarTyped
  <2>6. NoOrphans' /\ OneLink'
    BY <2>4 DEF AppInv, NoOrphans, OneLink
  <2>. QED  BY <2>3, <2>4, <2>5, <2>6, AsksStep DEF AppInv, CalendarTyped
<1>3. CASE InsertLinkFails(q)
  <2>1. /\ request' = [request EXCEPT ![q] = IdleRequest]
        /\ UNCHANGED <<calendar, rules, link, handed, event, appt, lock, offer, published, sweep, reminded, unmarked>>
    BY <1>3 DEF InsertLinkFails, Answer, calendarVars, sweepVars
  <2>2. NoOrphans' /\ OneLink'
    BY <2>1 DEF AppInv, NoOrphans, OneLink
  <2>. QED  BY <2>1, <2>2, IdleIsARow, AsksStep DEF AppInv, CalendarTyped
<1>4. ASSUME NEW t \in Tokens, InsertLink(q, t) PROVE AppInv'
  <2>1. /\ request' = [request EXCEPT ![q] = IdleRequest] /\ calendar = "present"
        /\ link' = (IF link = None THEN t ELSE link) /\ handed' = handed \union {link'}
        /\ UNCHANGED <<calendar, rules, event, appt, lock, offer, published, sweep, reminded, unmarked>>
    BY <1>4 DEF InsertLink, Answer, sweepVars
  <2>2. link' \in Tokens /\ handed' \subseteq Tokens /\ handed \subseteq Tokens /\ None \notin Tokens
    BY <2>1, AppointmentsAssumption DEF AppInv, CalendarTyped
  <2>3. handed = {} \/ handed = {link}
    BY <2>1 DEF AppInv, OneLink
  <2>4. handed' = {link'}
    BY <2>1, <2>2, <2>3
  <2>5. NoOrphans' /\ OneLink'
    BY <2>1, <2>4 DEF AppInv, NoOrphans, OneLink
  <2>. QED  BY <2>1, <2>2, <2>5, IdleIsARow, AsksStep DEF AppInv, CalendarTyped
<1>. QED  BY <1>1, <1>2, <1>3, <1>4

LEMMA MoveStep ==
    ASSUME AppInv, NEW q \in Requests,
           MoveEvent(q) \/ \E side \in {"start", "end"}, i \in Instants0 : AskMove(q, side, i)
    PROVE  AppInv'
<1>1. CASE MoveEvent(q)
  <2>1. /\ request' = [request EXCEPT ![q] = IdleRequest]
        /\ event' = IF event # None /\ Moved(q)[1] < Moved(q)[2] THEN Moved(q) ELSE event
        /\ UNCHANGED <<calendar, rules, link, handed, appt, lock, offer, published, sweep, reminded, unmarked>>
    BY <1>1 DEF MoveEvent, Answer, sweepVars
  <2>2. ASSUME event # None PROVE Moved(q) \in Instants0 \X Instants0
    <3>1. event \in Instants0 \X Instants0 /\ request[q].range \in Instants0 \X Instants0
      BY <2>2 DEF AppInv, CalendarTyped, RequestRow, Ranges
    <3>. QED  BY <3>1 DEF Moved
  <2>3. event' \in Ranges \union {None} /\ (event = None => event' = None)
    BY <2>1, <2>2 DEF Ranges, AppInv, CalendarTyped
  <2>4. NoOrphans' /\ OneLink'
    BY <2>1, <2>3 DEF AppInv, NoOrphans, OneLink
  <2>. QED  BY <2>1, <2>3, <2>4, IdleIsARow, AsksStep DEF AppInv, CalendarTyped
<1>2. ASSUME NEW side \in {"start", "end"}, NEW i \in Instants0, AskMove(q, side, i) PROVE AppInv'
  <2>1. PICK r : r = IF side = "start" THEN <<i, event[2]>> ELSE <<event[1], i>>
    OBVIOUS
  <2>2. /\ event # None /\ r[1] < r[2]
        /\ request' = [request EXCEPT ![q] = [pc |-> "read", op |-> side, appt |-> None, range |-> r]]
        /\ UNCHANGED <<calendar, rules, link, handed, event, appt, lock, offer, published, sweep, reminded, unmarked>>
    BY <1>2, <2>1 DEF AskMove, calendarVars, sweepVars
  <2>3. event \in Instants0 \X Instants0
    BY <2>2 DEF AppInv, CalendarTyped, Ranges
  <2>4. r \in Ranges
    BY <2>1, <2>2, <2>3 DEF Ranges
  <2>5. [pc |-> "read", op |-> side, appt |-> None, range |-> r] \in RequestRow
    BY <2>4 DEF RequestRow
  <2>6. NoOrphans' /\ OneLink'
    BY <2>2 DEF AppInv, NoOrphans, OneLink
  <2>. QED  BY <2>2, <2>5, <2>6, AsksStep DEF AppInv, CalendarTyped
<1>. QED  BY <1>1, <1>2

LEMMA CalendarStep == ASSUME AppInv, CalendarNext PROVE AppInv'
BY RulesStep, EventsStep, DeleteCalendarStep, LinkStep, MoveStep DEF CalendarNext
-------------------------------------------------------------------------------
\* A row that was booked stays one, and its mark stays: the reminders sent so
\* far are accounted for as before.
LEMMA RemindersGoOn ==
    ASSUME AppInv, UNCHANGED <<sweep, reminded, unmarked>>,
           \A a \in Appts : /\ appt'[a].marked <=> appt[a].marked
                            /\ appt[a].status # "none" => appt'[a].status # "none"
    PROVE  SweepsReadRows' /\ RemindersCounted'
<1>1. \A w \in Sweeps : sweep[w].due \subseteq Appts
  BY DEF AppInv, CalendarTyped, SweepRow
<1>2. SweepsReadRows'
  <2>1. \A w \in Sweeps : /\ \A a \in sweep[w].due : appt'[a].status # "none"
                          /\ sweep[w].pc = "idle" => sweep[w].due = {}
                          /\ sweep[w].pc = "mark" => /\ sweep[w].appt \in Appts
                                                     /\ sweep[w].appt \notin sweep[w].due
                                                     /\ appt'[sweep[w].appt].status # "none"
    BY <1>1 DEF AppInv, SweepsReadRows
  <2>2. \A a \in Appts : appt'[a].status = "none" => ~ appt'[a].marked
    BY DEF AppInv, SweepsReadRows
  <2>. QED  BY <2>1, <2>2 DEF SweepsReadRows
<1>3. ASSUME NEW a \in Appts
      PROVE  IF appt'[a].marked THEN reminded'[a] + Cardinality(Facing(a)') <= Cardinality(Sweeps) + unmarked'[a]
                                ELSE reminded'[a] <= Cardinality(Marking(a)') + unmarked'[a]
  <2>1. PICK facing, marking : /\ facing = Facing(a) /\ facing = Facing(a)'
                               /\ marking = Marking(a) /\ marking = Marking(a)'
    BY DEF Facing, Marking
  <2>2. IF appt[a].marked THEN reminded[a] + Cardinality(facing) <= Cardinality(Sweeps) + unmarked[a]
                          ELSE reminded[a] <= Cardinality(marking) + unmarked[a]
    BY <2>1 DEF AppInv, RemindersCounted
  <2>3. (appt'[a].marked <=> appt[a].marked) /\ reminded'[a] = reminded[a] /\ unmarked' = unmarked
    OBVIOUS
  <2>. QED  BY <2>1, <2>2, <2>3
<1>4. RemindersCounted'
  BY <1>3 DEF RemindersCounted
<1>. QED  BY <1>2, <1>4

\* Only bookings that agree with the constraint leave nothing booked twice.
LEMMA NothingBookedTwice ==
    ASSUME AppInv, NEW a \in Appts, NEW row \in ApptRow, appt' = [appt EXCEPT ![a] = row],
           row.status = "confirmed" => ~ Conflicts(row.range, a)
    PROVE  NoDoubleBooking'
<1>1. /\ appt \in [Appts -> ApptRow] /\ appt'[a] = row /\ \A b \in Appts \ {a} : appt'[b] = appt[b]
      /\ row.range \in Ranges /\ \A b \in Appts : appt[b].range \in Ranges
  BY DEF AppInv, CalendarTyped, ApptRow
<1>2. ASSUME row.status = "confirmed", NEW b \in Confirmed \ {a}
      PROVE  ~ Overlaps(row.range, appt[b].range) /\ ~ Overlaps(appt[b].range, row.range)
  <2>1. ~ Overlaps(row.range, appt[b].range)
    BY <1>1, <1>2, ConflictsAre
  <2>2. appt[b].range \in Ranges
    BY <1>1 DEF Confirmed
  <2>. QED  BY <1>1, <2>1, <2>2, OverlapsBothWays
<1>3. \A b \in Appts \ {a} : b \in Confirmed' <=> b \in Confirmed
  BY <1>1 DEF Confirmed
<1>4. a \in Confirmed' <=> row.status = "confirmed"
  BY <1>1 DEF Confirmed
<1>. SUFFICES ASSUME NEW b \in Confirmed', NEW c \in Confirmed', b # c PROVE ~ Overlaps(appt'[b].range, appt'[c].range)
  BY DEF NoDoubleBooking
<1>5. b \in Appts /\ c \in Appts
  BY DEF Confirmed
<1>6. CASE b # a /\ c # a
  BY <1>1, <1>3, <1>5, <1>6 DEF AppInv, NoDoubleBooking
<1>7. CASE b = a
  BY <1>1, <1>2, <1>3, <1>4, <1>5, <1>7
<1>8. CASE c = a
  BY <1>1, <1>2, <1>3, <1>4, <1>5, <1>8
<1>. QED  BY <1>6, <1>7, <1>8

LEMMA ComputeStep == ASSUME AppInv, ComputeAvailableSlots PROVE AppInv'
<1>1. /\ calendar = "present" /\ offer' = AvailableSlots
      /\ UNCHANGED <<calendar, rules, link, handed, event, appt, lock, request, published, sweep, reminded, unmarked>>
  BY DEF ComputeAvailableSlots, calendarVars, sweepVars
<1>2. offer' \subseteq Ranges
  BY <1>1, SlotsAreRanges DEF AppInv, CalendarTyped
<1>3. ASSUME NEW s \in offer', NEW a \in Appts PROVE ~ Conflicts(s, a)
  <2>1. s \in Ranges /\ \A b \in Confirmed : ~ Overlaps(s, appt[b].range)
    BY <1>1, <1>2 DEF AvailableSlots
  <2>. QED  BY <2>1, ConflictsAre DEF AppInv, CalendarTyped
<1>4. \A s, a : Conflicts(s, a)' <=> Conflicts(s, a)
  BY <1>1 DEF Conflicts, Confirmed
<1>5. OfferIsBookable'
  BY <1>3, <1>4 DEF OfferIsBookable
<1>6. LockHolds' /\ ReportDue' /\ NoOrphans' /\ OneLink'
  BY <1>1 DEF AppInv, LockHolds, ReportDue, NoOrphans, OneLink
<1>. QED  BY <1>1, <1>2, <1>5, <1>6, CalendarGoesOn DEF AppInv, CalendarTyped

LEMMA BookStep == ASSUME AppInv, NEW a \in Appts, NEW r \in Ranges, Book(a, r) PROVE AppInv'
<1>1. PICK row : row = [status |-> "confirmed", range |-> r, linked |-> TRUE, marked |-> FALSE]
  OBVIOUS
<1>2. row \in ApptRow /\ row.status = "confirmed" /\ row.range = r /\ row.marked = FALSE
  BY <1>1 DEF ApptRow
<1>3. /\ calendar = "present" /\ appt[a].status = "none" /\ ~ Conflicts(r, a)
      /\ appt' = [appt EXCEPT ![a] = row] /\ offer' = {}
      /\ UNCHANGED <<calendar, rules, link, handed, event, lock, request, published, sweep, reminded, unmarked>>
  BY <1>1 DEF Book, calendarVars, sweepVars
<1>4. appt' \in [Appts -> ApptRow] /\ appt'[a] = row /\ \A b \in Appts \ {a} : appt'[b] = appt[b]
  BY <1>2, <1>3 DEF AppInv, CalendarTyped
<1>5. CalendarTyped'
  BY <1>3, <1>4 DEF AppInv, CalendarTyped
<1>6. LockHolds'
  BY <1>3, <1>4 DEF AppInv, LockHolds
<1>7. ReportDue' /\ CompletedOnce'
  BY <1>3, <1>4 DEF AppInv, ReportDue, CompletedOnce
<1>8. NoDoubleBooking'
  BY <1>2, <1>3, NothingBookedTwice
<1>9. OfferIsBookable' /\ NoOrphans' /\ OneLink'
  BY <1>3 DEF AppInv, OfferIsBookable, NoOrphans, OneLink
<1>10. \A b \in Appts : /\ appt'[b].marked <=> appt[b].marked
                        /\ appt[b].status # "none" => appt'[b].status # "none"
  <2>1. appt[a].marked = FALSE
    BY <1>3 DEF AppInv, SweepsReadRows, CalendarTyped, ApptRow
  <2>. QED  BY <1>2, <1>3, <1>4, <2>1
<1>11. SweepsReadRows' /\ RemindersCounted'
  BY <1>3, <1>10, RemindersGoOn
<1>. QED  BY <1>5, <1>6, <1>7, <1>8, <1>9, <1>11 DEF AppInv

LEMMA LockRowStep ==
    ASSUME AppInv, NEW q \in Requests, NEW a \in Appts, NEW op \in Ops, NEW r \in Ranges, LockRow(q, a, op, r)
    PROVE  AppInv'
<1>1. PICK row : row = [pc |-> "locked", op |-> op, appt |-> a, range |-> r]
  OBVIOUS
<1>2. row \in RequestRow /\ row.pc = "locked" /\ row.appt = a
  BY <1>1 DEF RequestRow
<1>3. /\ lock[a] = None /\ appt[a].status = "confirmed"
      /\ lock' = [lock EXCEPT ![a] = q] /\ request' = [request EXCEPT ![q] = row]
      /\ UNCHANGED <<calendar, rules, link, handed, event, appt, offer, published, sweep, reminded, unmarked>>
  BY <1>1 DEF LockRow, calendarVars, sweepVars
<1>4. /\ request' \in [Requests -> RequestRow] /\ request'[q] = row
      /\ \A u \in Requests \ {q} : request'[u] = request[u]
      /\ lock' \in [Appts -> Requests \union {None}] /\ lock'[a] = q /\ \A b \in Appts \ {a} : lock'[b] = lock[b]
  BY <1>2, <1>3 DEF AppInv, CalendarTyped
<1>5. CalendarTyped'
  BY <1>3, <1>4 DEF AppInv, CalendarTyped
<1>6. LockHolds'
  <2>. SUFFICES ASSUME NEW u \in Requests, request'[u].pc = "locked"
                PROVE  /\ request'[u].appt \in Appts /\ lock'[request'[u].appt] = u
                       /\ appt'[request'[u].appt].status = "confirmed"
    BY DEF LockHolds
  <2>1. CASE u = q
    BY <1>2, <1>3, <1>4, <2>1
  <2>2. CASE u # q
    <3>1. /\ request[u].appt \in Appts /\ lock[request[u].appt] = u
          /\ appt[request[u].appt].status = "confirmed" /\ request'[u] = request[u]
      BY <1>4, <2>2 DEF AppInv, LockHolds
    <3>2. request[u].appt # a
      BY <1>3, <3>1, AppointmentsAssumption
    <3>. QED  BY <1>3, <1>4, <3>1, <3>2
  <2>. QED  BY <2>1, <2>2
<1>7. ReportDue'
  BY <1>2, <1>3, <1>4 DEF AppInv, ReportDue
<1>8. OfferIsBookable'
  BY <1>3, OfferStays
<1>9. NoDoubleBooking' /\ CompletedOnce' /\ NoOrphans' /\ OneLink'
  BY <1>3 DEF AppInv, NoDoubleBooking, Confirmed, CompletedOnce, NoOrphans, OneLink
<1>10. SweepsReadRows' /\ RemindersCounted'
  BY <1>3, RemindersGoOn
<1>. QED  BY <1>5, <1>6, <1>7, <1>8, <1>9, <1>10 DEF AppInv

\* A request with the lock writes its row and lets go.
LEMMA CommitStep ==
    ASSUME AppInv, NEW q \in Requests, NEW row \in ApptRow, NEW after \in RequestRow,
           Commit(q, row), request' = [request EXCEPT ![q] = after],
           after.pc = "idle" \/ (after.pc = "publish" /\ after.appt = request[q].appt /\ row.status = "completed"),
           row.status # "none", row.marked <=> appt[request[q].appt].marked,
           row.status = "confirmed" => ~ Conflicts(row.range, request[q].appt)
    PROVE  AppInv'
<1>1. PICK a \in Appts : /\ a = request[q].appt /\ request[q].pc = "locked" /\ lock[a] = q
                        /\ appt[a].status = "confirmed"
  BY DEF AppInv, LockHolds, Commit
<1>2. /\ appt' = [appt EXCEPT ![a] = row] /\ lock' = [lock EXCEPT ![a] = None] /\ offer' = {}
      /\ UNCHANGED <<calendar, rules, link, handed, event, published, sweep, reminded, unmarked>>
  BY <1>1 DEF Commit, calendarVars, sweepVars
<1>3. /\ appt' \in [Appts -> ApptRow] /\ appt'[a] = row /\ \A b \in Appts \ {a} : appt'[b] = appt[b]
      /\ lock' \in [Appts -> Requests \union {None}] /\ \A b \in Appts \ {a} : lock'[b] = lock[b]
      /\ request' \in [Requests -> RequestRow] /\ request'[q] = after
      /\ \A u \in Requests \ {q} : request'[u] = request[u]
  BY <1>2 DEF AppInv, CalendarTyped
<1>4. CalendarTyped'
  BY <1>2, <1>3 DEF AppInv, CalendarTyped
<1>5. LockHolds'
  <2>. SUFFICES ASSUME NEW u \in Requests, request'[u].pc = "locked"
                PROVE  /\ request'[u].appt \in Appts /\ lock'[request'[u].appt] = u
                       /\ appt'[request'[u].appt].status = "confirmed"
    BY DEF LockHolds
  <2>1. u # q /\ request'[u] = request[u]
    BY <1>3
  <2>2. /\ request[u].appt \in Appts /\ lock[request[u].appt] = u
        /\ appt[request[u].appt].status = "confirmed"
    BY <2>1 DEF AppInv, LockHolds
  <2>3. request[u].appt # a
    BY <1>1, <2>1, <2>2
  <2>. QED  BY <1>3, <2>1, <2>2, <2>3
<1>6. published[a] = 0
  BY <1>1 DEF AppInv, CalendarTyped, CompletedOnce
<1>7. ASSUME NEW u \in Requests \ {q}, request[u].pc = "publish"
      PROVE  request[u].appt \in Appts \ {a} /\ appt[request[u].appt].status = "completed" /\ published[request[u].appt] = 0
  BY <1>1, <1>7 DEF AppInv, ReportDue
<1>8. ReportDue'
  <2>1. \A u \in Requests : request'[u].pc = "publish" =>
           /\ request'[u].appt \in Appts
           /\ appt'[request'[u].appt].status = "completed"
           /\ published[request'[u].appt] = 0
    BY <1>1, <1>3, <1>6, <1>7
  <2>2. \A u, v \in Requests :
           request'[u].pc = "publish" /\ request'[v].pc = "publish" /\ request'[u].appt = request'[v].appt => u = v
    BY <1>1, <1>3, <1>7 DEF AppInv, ReportDue
  <2>. QED  BY <1>2, <2>1, <2>2 DEF ReportDue
<1>9. CompletedOnce'
  BY <1>2, <1>3, <1>6 DEF AppInv, CompletedOnce
<1>10. NoDoubleBooking'
  BY <1>1, <1>2, NothingBookedTwice
<1>11. OfferIsBookable' /\ OneLink'
  BY <1>2 DEF AppInv, OfferIsBookable, OneLink
<1>12. NoOrphans'
  BY <1>1, <1>2 DEF AppInv, CalendarTyped, NoOrphans
<1>13. \A b \in Appts : /\ appt'[b].marked <=> appt[b].marked
                        /\ appt[b].status # "none" => appt'[b].status # "none"
  BY <1>1, <1>3
<1>14. SweepsReadRows' /\ RemindersCounted'
  BY <1>2, <1>13, RemindersGoOn
<1>. QED  BY <1>4, <1>5, <1>8, <1>9, <1>10, <1>11, <1>12, <1>14 DEF AppInv

LEMMA EndsStep ==
    ASSUME AppInv, NEW q \in Requests,
           Cancel(q) \/ NoShow(q) \/ Reschedule(q) \/ RescheduleRefused(q) \/ Complete(q)
    PROVE  AppInv'
<1>1. /\ request[q].pc = "locked" /\ request[q].appt \in Appts /\ appt[request[q].appt].status = "confirmed"
  BY DEF AppInv, LockHolds, Cancel, NoShow, Reschedule, RescheduleRefused, Complete, Commit
<1>2. PICK a \in Appts, was \in ApptRow, now0 \in RequestRow :
         a = request[q].appt /\ was = appt[a] /\ now0 = request[q] /\ was.status = "confirmed"
  BY <1>1 DEF AppInv, CalendarTyped
<1>3. CASE Cancel(q)
  <2>1. PICK row : row = [was EXCEPT !.status = "cancelled"]
    OBVIOUS
  <2>2. row \in ApptRow /\ row.status = "cancelled" /\ row.marked = was.marked
    BY <2>1 DEF ApptRow
  <2>3. Commit(q, row) /\ request' = [request EXCEPT ![q] = IdleRequest]
    BY <1>2, <1>3, <2>1 DEF Cancel, Answer
  <2>4. row.marked <=> appt[request[q].appt].marked
    BY <1>2, <2>2
  <2>. QED  BY <2>2, <2>3, <2>4, IdleIsARow, CommitStep
<1>4. CASE NoShow(q)
  <2>1. PICK row : row = [was EXCEPT !.status = "no_show"]
    OBVIOUS
  <2>2. row \in ApptRow /\ row.status = "no_show" /\ row.marked = was.marked
    BY <2>1 DEF ApptRow
  <2>3. Commit(q, row) /\ request' = [request EXCEPT ![q] = IdleRequest]
    BY <1>2, <1>4, <2>1 DEF NoShow, Answer
  <2>4. row.marked <=> appt[request[q].appt].marked
    BY <1>2, <2>2
  <2>. QED  BY <2>2, <2>3, <2>4, IdleIsARow, CommitStep
<1>5. CASE Reschedule(q)
  <2>1. PICK row : row = [was EXCEPT !.range = now0.range]
    OBVIOUS
  <2>2. row \in ApptRow /\ row.status = "confirmed" /\ row.marked = was.marked /\ row.range = now0.range
    BY <1>2, <2>1 DEF ApptRow, RequestRow
  <2>3. /\ Commit(q, row) /\ request' = [request EXCEPT ![q] = IdleRequest]
        /\ ~ Conflicts(row.range, request[q].appt)
    BY <1>2, <1>5, <2>1, <2>2 DEF Reschedule, Answer
  <2>4. row.marked <=> appt[request[q].appt].marked
    BY <1>2, <2>2
  <2>. QED  BY <2>2, <2>3, <2>4, IdleIsARow, CommitStep
<1>6. CASE RescheduleRefused(q)
  <2>1. Commit(q, was) /\ request' = [request EXCEPT ![q] = IdleRequest]
    BY <1>2, <1>6 DEF RescheduleRefused, Answer
  <2>2. ASSUME NEW b \in Confirmed \ {a} PROVE ~ Overlaps(was.range, appt[b].range)
    BY <1>2, <2>2 DEF AppInv, NoDoubleBooking, Confirmed
  <2>3. was.range \in Ranges
    BY <1>2 DEF ApptRow
  <2>4. ~ Conflicts(was.range, a)
    BY <2>2, <2>3, ConflictsAre DEF AppInv, CalendarTyped
  <2>5. was.marked <=> appt[request[q].appt].marked
    BY <1>2
  <2>. QED  BY <1>2, <2>1, <2>4, <2>5, IdleIsARow, CommitStep
<1>7. CASE Complete(q)
  <2>1. PICK row, after : row = [was EXCEPT !.status = "completed"] /\ after = [now0 EXCEPT !.pc = "publish"]
    OBVIOUS
  <2>2. /\ row \in ApptRow /\ row.status = "completed" /\ row.marked = was.marked
        /\ after \in RequestRow /\ after.pc = "publish" /\ after.appt = now0.appt
    BY <2>1 DEF ApptRow, RequestRow
  <2>3. Commit(q, row) /\ request' = [request EXCEPT ![q].pc = "publish"]
    BY <1>2, <1>7, <2>1 DEF Complete
  <2>4. request' = [request EXCEPT ![q] = after]
    BY <1>2, <2>1, <2>3 DEF AppInv, CalendarTyped
  <2>5. row.marked <=> appt[request[q].appt].marked
    BY <1>2, <2>2
  <2>. QED  BY <1>2, <2>2, <2>3, <2>4, <2>5, CommitStep
<1>. QED  BY <1>3, <1>4, <1>5, <1>6, <1>7

\* The event of a completion is published, or lost with its process.
LEMMA PublishStep ==
    ASSUME AppInv, NEW q \in Requests, PublishCompleted(q) \/ RequestDies(q) PROVE AppInv'
<1>1. PICK a \in Appts : /\ a = request[q].appt /\ request[q].pc = "publish" /\ published[a] = 0
                        /\ appt[a].status = "completed"
  BY DEF AppInv, ReportDue, PublishCompleted, RequestDies
<1>2. /\ request' = [request EXCEPT ![q] = IdleRequest] /\ published' \in {published, [published EXCEPT ![a] = 1]}
      /\ UNCHANGED <<calendar, rules, link, handed, event, appt, lock, offer, sweep, reminded, unmarked>>
  BY <1>1 DEF PublishCompleted, RequestDies, Answer, calendarVars, sweepVars
<1>3. /\ request' \in [Requests -> RequestRow] /\ request'[q] = IdleRequest
      /\ \A u \in Requests \ {q} : request'[u] = request[u]
      /\ published' \in [Appts -> {0, 1}] /\ \A b \in Appts \ {a} : published'[b] = published[b]
  BY <1>1, <1>2, IdleIsARow DEF AppInv, CalendarTyped
<1>4. CalendarTyped'
  BY <1>2, <1>3 DEF AppInv, CalendarTyped
<1>5. LockHolds'
  BY <1>2, <1>3, IdleIsARow DEF AppInv, LockHolds
<1>6. ReportDue'
  <2>1. \A u \in Requests : request'[u].pc = "publish" =>
           u # q /\ request'[u] = request[u] /\ request[u].appt \in Appts \ {a}
    BY <1>1, <1>3, IdleIsARow DEF AppInv, ReportDue
  <2>. QED  BY <1>2, <1>3, <2>1 DEF AppInv, ReportDue
<1>7. CompletedOnce'
  BY <1>1, <1>2, <1>3 DEF AppInv, CompletedOnce
<1>8. OfferIsBookable'
  BY <1>2, OfferStays
<1>9. NoDoubleBooking' /\ NoOrphans' /\ OneLink'
  BY <1>2 DEF AppInv, NoDoubleBooking, Confirmed, NoOrphans, OneLink
<1>10. SweepsReadRows' /\ RemindersCounted'
  BY <1>2, RemindersGoOn
<1>. QED  BY <1>4, <1>5, <1>6, <1>7, <1>8, <1>9, <1>10 DEF AppInv

LEMMA BookingStep == ASSUME AppInv, BookingNext PROVE AppInv'
<1>1. <<0, 1>> \in Ranges
  BY AppointmentsAssumption DEF Ranges, Instants0
<1>. QED  BY <1>1, ComputeStep, BookStep, LockRowStep, EndsStep, PublishStep DEF BookingNext
-------------------------------------------------------------------------------
\* A sweep that marks a row has no longer got it before it: the two sets are
\* disjoint, so that together they are no more than the sweeps.
LEMMA SweepsCounted ==
    ASSUME AppInv, NEW a \in Appts
    PROVE  /\ IsFiniteSet(Marking(a)) /\ IsFiniteSet(Facing(a))
           /\ Cardinality(Marking(a)) \in Nat /\ Cardinality(Facing(a)) \in Nat /\ Cardinality(Sweeps) \in Nat
           /\ Cardinality(Marking(a)) + Cardinality(Facing(a)) <= Cardinality(Sweeps)
<1>1. PICK marking, facing : marking = Marking(a) /\ facing = Facing(a)
  OBVIOUS
<1>2. marking \subseteq Sweeps /\ facing \subseteq Sweeps /\ marking \intersect facing = {}
  BY <1>1 DEF Marking, Facing, AppInv, SweepsReadRows
<1>3. IsFiniteSet(Sweeps)
  BY AppointmentsAssumption
<1>4. IsFiniteSet(marking) /\ IsFiniteSet(facing)
  BY <1>2, <1>3, FS_Subset
<1>5. IsFiniteSet(marking \union facing) /\ Cardinality(marking \union facing) = Cardinality(marking) + Cardinality(facing)
  <2>1. /\ IsFiniteSet(marking \union facing)
        /\ Cardinality(marking \union facing) =
              Cardinality(marking) + Cardinality(facing) - Cardinality(marking \intersect facing)
    BY <1>4, FS_Union
  <2>2. Cardinality(marking \intersect facing) = 0
    BY <1>2, FS_EmptySet
  <2>3. Cardinality(marking) \in Nat /\ Cardinality(facing) \in Nat
    BY <1>4, FS_CardinalityType
  <2>. QED  BY <2>1, <2>2, <2>3
<1>6. Cardinality(marking \union facing) <= Cardinality(Sweeps)
  <2>1. marking \union facing \subseteq Sweeps
    BY <1>2
  <2>. QED  BY <1>3, <2>1, FS_Subset
<1>7. Cardinality(marking) \in Nat /\ Cardinality(facing) \in Nat /\ Cardinality(Sweeps) \in Nat
  BY <1>3, <1>4, FS_CardinalityType
<1>. QED  BY <1>1, <1>4, <1>5, <1>6, <1>7

\* A sweep's step changes the two sets by that sweep only.
LEMMA OneSweepMoves ==
    ASSUME AppInv, NEW w \in Sweeps, NEW row \in SweepRow, sweep' = [sweep EXCEPT ![w] = row]
    PROVE  /\ sweep' \in [Sweeps -> SweepRow] /\ sweep'[w] = row /\ \A v \in Sweeps \ {w} : sweep'[v] = sweep[v]
           /\ \A a \in Appts :
                 /\ Marking(a)' = (Marking(a) \ {w}) \union (IF row.pc = "mark" /\ row.appt = a THEN {w} ELSE {})
                 /\ Facing(a)' = (Facing(a) \ {w}) \union (IF a \in row.due THEN {w} ELSE {})
<1>1. sweep' \in [Sweeps -> SweepRow] /\ sweep'[w] = row /\ \A v \in Sweeps \ {w} : sweep'[v] = sweep[v]
  BY DEF AppInv, CalendarTyped
<1>. QED  BY <1>1 DEF Marking, Facing

\* A step of the sweeps leaves the calendar, and the status and the range of the rows.
LEMMA SweepGoesOn ==
    ASSUME AppInv, UNCHANGED <<calendar, rules, link, handed, event, lock, request, offer, published>>,
           appt' \in [Appts -> ApptRow], sweep' \in [Sweeps -> SweepRow], reminded' \in [Appts -> Nat],
           unmarked' \in [Appts -> Nat],
           \A a \in Appts : appt'[a].status = appt[a].status /\ appt'[a].range = appt[a].range,
           SweepsReadRows', RemindersCounted'
    PROVE  AppInv'
<1>1. CalendarTyped'
  BY DEF AppInv, CalendarTyped
<1>2. LockHolds' /\ ReportDue' /\ CompletedOnce' /\ NoOrphans' /\ OneLink'
  BY DEF AppInv, LockHolds, ReportDue, CompletedOnce, NoOrphans, OneLink
<1>3. Confirmed' = Confirmed
  BY DEF Confirmed
<1>4. NoDoubleBooking'
  BY <1>3 DEF AppInv, NoDoubleBooking, Confirmed
<1>5. \A b \in Confirmed : appt'[b].range = appt[b].range
  BY DEF Confirmed
<1>6. ASSUME NEW s, NEW a PROVE Conflicts(s, a)' <=> Conflicts(s, a)
  BY <1>3, <1>5 DEF Conflicts
<1>7. OfferIsBookable'
  BY <1>6 DEF AppInv, OfferIsBookable
<1>. QED  BY <1>1, <1>2, <1>4, <1>7 DEF AppInv

LEMMA UnlinkContactStep == ASSUME AppInv, NEW a \in Appts, UnlinkContact(a) PROVE AppInv'
<1>1. PICK was \in ApptRow : was = appt[a]
  BY DEF AppInv, CalendarTyped
<1>2. PICK row : row = [was EXCEPT !.linked = FALSE]
  OBVIOUS
<1>3. row \in ApptRow /\ row.status = was.status /\ row.range = was.range /\ row.marked = was.marked
  BY <1>2 DEF ApptRow
<1>4. /\ appt' = [appt EXCEPT ![a].linked = FALSE]
      /\ UNCHANGED <<calendar, rules, link, handed, event, lock, request, offer, published, sweep, reminded, unmarked>>
  BY DEF UnlinkContact, calendarVars, sweepVars
<1>5. appt' = [appt EXCEPT ![a] = row]
  BY <1>1, <1>2, <1>4 DEF AppInv, CalendarTyped
<1>6. appt' \in [Appts -> ApptRow] /\ appt'[a] = row /\ \A b \in Appts \ {a} : appt'[b] = appt[b]
  BY <1>3, <1>5 DEF AppInv, CalendarTyped
<1>7. \A b \in Appts : appt'[b].status = appt[b].status /\ appt'[b].range = appt[b].range
  BY <1>1, <1>3, <1>6
<1>8. \A b \in Appts : appt'[b].marked <=> appt[b].marked
  BY <1>1, <1>3, <1>6
<1>9. \A b \in Appts : /\ appt'[b].marked <=> appt[b].marked
                       /\ appt[b].status # "none" => appt'[b].status # "none"
  BY <1>7, <1>8
<1>10. SweepsReadRows' /\ RemindersCounted'
  BY <1>4, <1>9, RemindersGoOn
<1>. QED  BY <1>4, <1>6, <1>7, <1>10, SweepGoesOn DEF AppInv, CalendarTyped

\* A sweep that starts reads rows that are not marked.
LEMMA StartSweepStep == ASSUME AppInv, NEW w \in Sweeps, StartSweep(w) PROVE AppInv'
<1>1. PICK row : row = [pc |-> "next", due |-> Due, appt |-> None]
  OBVIOUS
<1>2. Due \subseteq Appts /\ \A a \in Due : ~ appt[a].marked /\ appt[a].status = "confirmed"
  BY DEF Due, Confirmed
<1>3. row \in SweepRow /\ row.pc = "next" /\ row.due = Due
  BY <1>1, <1>2 DEF SweepRow
<1>4. /\ sweep[w].pc = "idle" /\ sweep' = [sweep EXCEPT ![w] = row]
      /\ UNCHANGED <<calendar, rules, link, handed, event, appt, lock, request, offer, published, reminded, unmarked>>
  BY <1>1 DEF StartSweep, calendarVars, bookingVars
<1>5. /\ sweep' \in [Sweeps -> SweepRow] /\ sweep'[w] = row /\ \A v \in Sweeps \ {w} : sweep'[v] = sweep[v]
      /\ \A a \in Appts :
            /\ Marking(a)' = (Marking(a) \ {w}) \union (IF row.pc = "mark" /\ row.appt = a THEN {w} ELSE {})
            /\ Facing(a)' = (Facing(a) \ {w}) \union (IF a \in row.due THEN {w} ELSE {})
  BY <1>3, <1>4, OneSweepMoves
<1>6. SweepsReadRows'
  BY <1>2, <1>3, <1>4, <1>5 DEF AppInv, SweepsReadRows
<1>7. ASSUME NEW a \in Appts
      PROVE  IF appt[a].marked THEN reminded[a] + Cardinality(Facing(a)') <= Cardinality(Sweeps) + unmarked[a]
                               ELSE reminded[a] <= Cardinality(Marking(a)') + unmarked[a]
  <2>1. PICK facing, marking, rest, left : /\ facing = Facing(a) /\ marking = Marking(a)
                                           /\ rest = Facing(a)' /\ left = Marking(a)'
    OBVIOUS
  <2>2. w \notin marking /\ w \notin facing
    BY <1>4, <2>1 DEF AppInv, SweepsReadRows, Marking, Facing
  <2>3. left = marking \ {w}
    BY <1>3, <1>5, <2>1
  <2>4. left = marking
    BY <2>2, <2>3
  <2>5. rest = (facing \ {w}) \union (IF a \in Due THEN {w} ELSE {})
    BY <1>3, <1>5, <2>1
  <2>6. appt[a].marked => rest = facing
    BY <1>2, <2>2, <2>5
  <2>7. IF appt[a].marked THEN reminded[a] + Cardinality(facing) <= Cardinality(Sweeps) + unmarked[a]
                          ELSE reminded[a] <= Cardinality(marking) + unmarked[a]
    BY <2>1 DEF AppInv, RemindersCounted
  <2>8. CASE appt[a].marked
    BY <2>1, <2>6, <2>7, <2>8
  <2>9. CASE ~ appt[a].marked
    BY <2>1, <2>4, <2>7, <2>9
  <2>. QED  BY <2>8, <2>9
<1>8. RemindersCounted'
  BY <1>4, <1>7 DEF RemindersCounted
<1>. QED  BY <1>4, <1>5, <1>6, <1>8, SweepGoesOn DEF AppInv, CalendarTyped

\* What the sweep has before it only gets less, and every message of the step, and
\* the one it was about to mark, goes unmarked.
LEMMA SweepLeaves ==
    ASSUME AppInv, NEW w \in Sweeps, NEW row \in SweepRow, sweep' = [sweep EXCEPT ![w] = row],
           row.due \subseteq sweep[w].due, row.pc # "mark", row.pc = "idle" => row.due = {},
           UNCHANGED <<calendar, rules, link, handed, event, appt, lock, request, offer, published>>,
           reminded' \in [Appts -> Nat], unmarked' \in [Appts -> Nat],
           \A a \in Appts :
              /\ reminded'[a] + unmarked[a] <= reminded[a] + unmarked'[a]
              /\ sweep[w].pc = "mark" /\ sweep[w].appt = a =>
                     reminded'[a] + unmarked[a] + 1 <= reminded[a] + unmarked'[a]
    PROVE  AppInv'
<1>1. /\ sweep' \in [Sweeps -> SweepRow] /\ sweep'[w] = row /\ \A v \in Sweeps \ {w} : sweep'[v] = sweep[v]
      /\ \A a \in Appts :
            /\ Marking(a)' = (Marking(a) \ {w}) \union (IF row.pc = "mark" /\ row.appt = a THEN {w} ELSE {})
            /\ Facing(a)' = (Facing(a) \ {w}) \union (IF a \in row.due THEN {w} ELSE {})
  BY OneSweepMoves
<1>2. SweepsReadRows'
  BY <1>1 DEF AppInv, SweepsReadRows
<1>3. \A a \in Appts : /\ unmarked[a] \in Nat /\ unmarked'[a] \in Nat
                        /\ reminded[a] \in Nat /\ reminded'[a] \in Nat
  BY DEF AppInv, CalendarTyped
<1>4. ASSUME NEW a \in Appts
      PROVE  IF appt[a].marked THEN reminded'[a] + Cardinality(Facing(a)') <= Cardinality(Sweeps) + unmarked'[a]
                               ELSE reminded'[a] <= Cardinality(Marking(a)') + unmarked'[a]
  <2>1. PICK facing, marking, rest, left : /\ facing = Facing(a) /\ marking = Marking(a)
                                           /\ rest = Facing(a)' /\ left = Marking(a)'
    OBVIOUS
  <2>2. /\ IsFiniteSet(facing) /\ IsFiniteSet(marking) /\ Cardinality(facing) \in Nat /\ Cardinality(marking) \in Nat
        /\ Cardinality(Sweeps) \in Nat
    BY <2>1, SweepsCounted
  <2>3. rest \subseteq facing
    BY <1>1, <2>1 DEF Facing
  <2>4. left = marking \ {w}
    BY <1>1, <2>1
  <2>5. IF appt[a].marked THEN reminded[a] + Cardinality(facing) <= Cardinality(Sweeps) + unmarked[a]
                          ELSE reminded[a] <= Cardinality(marking) + unmarked[a]
    BY <2>1 DEF AppInv, RemindersCounted
  <2>6. CASE appt[a].marked
    <3>1. Cardinality(rest) <= Cardinality(facing) /\ Cardinality(rest) \in Nat
      BY <2>2, <2>3, FS_Subset, FS_CardinalityType
    <3>2. reminded'[a] + Cardinality(rest) <= Cardinality(Sweeps) + unmarked'[a]
      BY <1>3, <2>2, <2>5, <2>6, <3>1
    <3>. QED  BY <2>1, <2>6, <3>2
  <2>7. CASE ~ appt[a].marked
    <3>1. CASE w \notin marking
      <4>1. left = marking
        BY <2>4, <3>1
      <4>2. reminded'[a] <= Cardinality(left) + unmarked'[a]
        BY <1>3, <2>2, <2>5, <2>7, <4>1
      <4>. QED  BY <2>1, <2>7, <4>2
    <3>2. CASE w \in marking
      <4>1. reminded'[a] + unmarked[a] + 1 <= reminded[a] + unmarked'[a]
        BY <2>1, <3>2 DEF Marking
      <4>2. Cardinality(left) = Cardinality(marking) - 1
        BY <2>2, <2>4, <3>2, FS_RemoveElement
      <4>3. reminded'[a] <= Cardinality(left) + unmarked'[a]
        BY <1>3, <2>2, <2>5, <2>7, <4>1, <4>2
      <4>. QED  BY <2>1, <2>7, <4>3
    <3>. QED  BY <3>1, <3>2
  <2>. QED  BY <2>6, <2>7
<1>5. RemindersCounted'
  BY <1>4 DEF RemindersCounted
<1>. QED  BY <1>1, <1>2, <1>3, <1>5, SweepGoesOn DEF AppInv, CalendarTyped

LEMMA SkipReminderStep == ASSUME AppInv, NEW w \in Sweeps, NEW a \in Appts, SkipReminder(w, a) PROVE AppInv'
<1>1. PICK was \in SweepRow : was = sweep[w] /\ was.pc = "next"
  BY DEF AppInv, CalendarTyped, SkipReminder
<1>2. PICK row : row = [was EXCEPT !.due = was.due \ {a}]
  OBVIOUS
<1>3. row \in SweepRow /\ row.pc = "next" /\ row.due \subseteq was.due
  BY <1>1, <1>2 DEF SweepRow
<1>4. /\ sweep' = [sweep EXCEPT ![w].due = @ \ {a}]
      /\ UNCHANGED <<calendar, rules, link, handed, event, appt, lock, request, offer, published, reminded, unmarked>>
  BY DEF SkipReminder, calendarVars, bookingVars
<1>5. sweep' = [sweep EXCEPT ![w] = row]
  BY <1>1, <1>2, <1>4 DEF AppInv, CalendarTyped
<1>6. /\ reminded' \in [Appts -> Nat] /\ unmarked' \in [Appts -> Nat]
      /\ \A b \in Appts : reminded'[b] + unmarked[b] <= reminded[b] + unmarked'[b]
  BY <1>4 DEF AppInv, CalendarTyped
<1>7. UNCHANGED <<calendar, rules, link, handed, event, appt, lock, request, offer, published>>
  BY <1>4
<1>. QED  BY <1>1, <1>3, <1>5, <1>6, <1>7, SweepLeaves

LEMMA SendReminderFailsStep ==
    ASSUME AppInv, NEW w \in Sweeps, NEW a \in Appts, SendReminderFails(w, a) PROVE AppInv'
<1>1. PICK was \in SweepRow : was = sweep[w] /\ was.pc = "next"
  BY DEF AppInv, CalendarTyped, SendReminderFails
<1>2. PICK row : row = [was EXCEPT !.due = was.due \ {a}]
  OBVIOUS
<1>3. row \in SweepRow /\ row.pc = "next" /\ row.due \subseteq was.due
  BY <1>1, <1>2 DEF SweepRow
<1>4. /\ sweep' = [sweep EXCEPT ![w].due = @ \ {a}]
      /\ reminded' = [reminded EXCEPT ![a] = @ + 1] /\ unmarked' = [unmarked EXCEPT ![a] = @ + 1]
      /\ UNCHANGED <<calendar, rules, link, handed, event, appt, lock, request, offer, published>>
  BY DEF SendReminderFails, calendarVars, bookingVars
<1>5. sweep' = [sweep EXCEPT ![w] = row]
  BY <1>1, <1>2, <1>4 DEF AppInv, CalendarTyped
<1>6. /\ reminded' \in [Appts -> Nat] /\ unmarked' \in [Appts -> Nat]
      /\ \A b \in Appts : reminded'[b] + unmarked[b] <= reminded[b] + unmarked'[b]
  BY <1>4 DEF AppInv, CalendarTyped
<1>. QED  BY <1>1, <1>3, <1>4, <1>5, <1>6, SweepLeaves

LEMMA SweepEndsStep == ASSUME AppInv, NEW w \in Sweeps, SweepDies(w) \/ EndSweep(w) PROVE AppInv'
<1>1. IdleSweep \in SweepRow /\ IdleSweep.due = {} /\ IdleSweep.pc = "idle"
  BY DEF IdleSweep, SweepRow
<1>2. /\ sweep' = [sweep EXCEPT ![w] = IdleSweep]
      /\ UNCHANGED <<calendar, rules, link, handed, event, appt, lock, request, offer, published, reminded>>
      /\ \/ unmarked' = unmarked /\ sweep[w].pc # "mark"
         \/ unmarked' = [unmarked EXCEPT ![sweep[w].appt] = @ + 1] /\ sweep[w].pc = "mark"
  BY DEF SweepDies, EndSweep, calendarVars, bookingVars
<1>3. sweep[w].pc = "mark" => sweep[w].appt \in Appts
  BY DEF AppInv, SweepsReadRows
<1>4. /\ reminded' \in [Appts -> Nat] /\ unmarked' \in [Appts -> Nat]
      /\ \A a \in Appts :
            /\ reminded'[a] + unmarked[a] <= reminded[a] + unmarked'[a]
            /\ sweep[w].pc = "mark" /\ sweep[w].appt = a =>
                   reminded'[a] + unmarked[a] + 1 <= reminded[a] + unmarked'[a]
  BY <1>2, <1>3 DEF AppInv, CalendarTyped
<1>. QED  BY <1>1, <1>2, <1>4, SweepLeaves

LEMMA SendReminderStep == ASSUME AppInv, NEW w \in Sweeps, NEW a \in Appts, SendReminder(w, a) PROVE AppInv'
<1>1. PICK was \in SweepRow : was = sweep[w] /\ was.pc = "next" /\ a \in was.due
  BY DEF AppInv, CalendarTyped, SendReminder
<1>2. PICK row : row = [was EXCEPT !.due = was.due \ {a}, !.pc = "mark", !.appt = a]
  OBVIOUS
<1>3. row \in SweepRow /\ row.pc = "mark" /\ row.due = was.due \ {a} /\ row.appt = a
  BY <1>1, <1>2 DEF SweepRow
<1>4. /\ sweep' = [sweep EXCEPT ![w].due = @ \ {a}, ![w].pc = "mark", ![w].appt = a]
      /\ reminded' = [reminded EXCEPT ![a] = @ + 1]
      /\ UNCHANGED <<calendar, rules, link, handed, event, appt, lock, request, offer, published, unmarked>>
  BY DEF SendReminder, calendarVars, bookingVars
<1>5. sweep' = [sweep EXCEPT ![w] = row]
  BY <1>1, <1>2, <1>4 DEF AppInv, CalendarTyped
<1>6. /\ sweep' \in [Sweeps -> SweepRow] /\ sweep'[w] = row /\ \A v \in Sweeps \ {w} : sweep'[v] = sweep[v]
      /\ \A b \in Appts :
            /\ Marking(b)' = (Marking(b) \ {w}) \union (IF row.pc = "mark" /\ row.appt = b THEN {w} ELSE {})
            /\ Facing(b)' = (Facing(b) \ {w}) \union (IF b \in row.due THEN {w} ELSE {})
  BY <1>3, <1>5, OneSweepMoves
<1>7. SweepsReadRows'
  BY <1>1, <1>3, <1>4, <1>6 DEF AppInv, SweepsReadRows
<1>8. unmarked \in [Appts -> Nat] /\ reminded \in [Appts -> Nat] /\ reminded' \in [Appts -> Nat]
  BY <1>4 DEF AppInv, CalendarTyped
<1>9. ASSUME NEW b \in Appts
      PROVE  IF appt[b].marked THEN reminded'[b] + Cardinality(Facing(b)') <= Cardinality(Sweeps) + unmarked[b]
                               ELSE reminded'[b] <= Cardinality(Marking(b)') + unmarked[b]
  <2>1. PICK facing, marking, rest, more : /\ facing = Facing(b) /\ marking = Marking(b)
                                           /\ rest = Facing(b)' /\ more = Marking(b)'
    OBVIOUS
  <2>2. /\ IsFiniteSet(facing) /\ IsFiniteSet(marking) /\ Cardinality(facing) \in Nat /\ Cardinality(marking) \in Nat
        /\ Cardinality(Sweeps) \in Nat
    BY <2>1, SweepsCounted
  <2>3. IF appt[b].marked THEN reminded[b] + Cardinality(facing) <= Cardinality(Sweeps) + unmarked[b]
                          ELSE reminded[b] <= Cardinality(marking) + unmarked[b]
    BY <2>1 DEF AppInv, RemindersCounted
  <2>4. w \notin marking
    BY <1>1, <2>1 DEF Marking
  <2>5. CASE b # a
    <3>1. rest = (facing \ {w}) \union (IF b \in was.due THEN {w} ELSE {}) /\ more = marking \ {w}
      BY <1>3, <1>6, <2>1, <2>5
    <3>2. w \in facing <=> b \in was.due
      BY <1>1, <2>1 DEF Facing
    <3>3. rest = facing /\ more = marking
      BY <2>4, <3>1, <3>2
    <3>4. reminded'[b] = reminded[b]
      BY <1>4, <1>8, <2>5
    <3>. QED  BY <2>1, <2>3, <3>3, <3>4
  <2>6. CASE b = a
    <3>1. reminded'[b] = reminded[b] + 1 /\ reminded[b] \in Nat
      BY <1>4, <1>8, <2>6
    <3>2. rest = facing \ {w} /\ w \in facing /\ more = marking \union {w}
      BY <1>1, <1>3, <1>6, <2>1, <2>6 DEF Facing
    <3>3. Cardinality(rest) = Cardinality(facing) - 1
      BY <2>2, <3>2, FS_RemoveElement
    <3>4. Cardinality(more) = Cardinality(marking) + 1
      BY <2>2, <2>4, <3>2, FS_AddElement
    <3>5. CASE appt[b].marked
      <4>1. reminded'[b] + Cardinality(rest) <= Cardinality(Sweeps) + unmarked[b]
        BY <1>8, <2>2, <2>3, <3>1, <3>3, <3>5
      <4>. QED  BY <2>1, <3>5, <4>1
    <3>6. CASE ~ appt[b].marked
      <4>1. reminded'[b] <= Cardinality(more) + unmarked[b]
        BY <1>8, <2>2, <2>3, <3>1, <3>4, <3>6
      <4>. QED  BY <2>1, <3>6, <4>1
    <3>. QED  BY <3>5, <3>6
  <2>. QED  BY <2>5, <2>6
<1>10. RemindersCounted'
  BY <1>4, <1>9 DEF RemindersCounted
<1>. QED  BY <1>4, <1>6, <1>7, <1>8, <1>10, SweepGoesOn DEF AppInv, CalendarTyped

\* With the mark the count changes over: who faces the row has not sent to it yet.
LEMMA MarkRemindedStep == ASSUME AppInv, NEW w \in Sweeps, MarkReminded(w) PROVE AppInv'
<1>1. PICK was \in SweepRow, a \in Appts : /\ was = sweep[w] /\ was.pc = "mark" /\ was.appt = a
                                           /\ appt[a].status # "none"
  BY DEF AppInv, CalendarTyped, SweepsReadRows, MarkReminded
<1>2. PICK had \in ApptRow : had = appt[a]
  BY DEF AppInv, CalendarTyped
<1>3. PICK row, marked : row = [was EXCEPT !.pc = "next", !.appt = None] /\ marked = [had EXCEPT !.marked = TRUE]
  OBVIOUS
<1>4. /\ row \in SweepRow /\ row.pc = "next" /\ row.due = was.due
      /\ marked \in ApptRow /\ marked.marked = TRUE /\ marked.status = had.status /\ marked.range = had.range
  BY <1>3 DEF SweepRow, ApptRow
<1>5. /\ sweep' = [sweep EXCEPT ![w].pc = "next", ![w].appt = None] /\ appt' = [appt EXCEPT ![a].marked = TRUE]
      /\ UNCHANGED <<calendar, rules, link, handed, event, lock, request, offer, published, reminded, unmarked>>
  BY <1>1 DEF MarkReminded, calendarVars
<1>6. sweep' = [sweep EXCEPT ![w] = row] /\ appt' = [appt EXCEPT ![a] = marked]
  BY <1>1, <1>2, <1>3, <1>5 DEF AppInv, CalendarTyped
<1>7. appt' \in [Appts -> ApptRow] /\ appt'[a] = marked /\ \A b \in Appts \ {a} : appt'[b] = appt[b]
  BY <1>4, <1>6 DEF AppInv, CalendarTyped
<1>8. \A b \in Appts : appt'[b].status = appt[b].status /\ appt'[b].range = appt[b].range
  BY <1>2, <1>4, <1>7
<1>9. /\ sweep' \in [Sweeps -> SweepRow] /\ sweep'[w] = row /\ \A v \in Sweeps \ {w} : sweep'[v] = sweep[v]
      /\ \A b \in Appts :
            /\ Marking(b)' = (Marking(b) \ {w}) \union (IF row.pc = "mark" /\ row.appt = b THEN {w} ELSE {})
            /\ Facing(b)' = (Facing(b) \ {w}) \union (IF b \in row.due THEN {w} ELSE {})
  BY <1>4, <1>6, OneSweepMoves
<1>10. SweepsReadRows'
  <2>1. \A v \in Sweeps : sweep'[v].due \subseteq Appts
    BY <1>9 DEF SweepRow
  <2>2. \A v \in Sweeps : /\ \A b \in sweep'[v].due : appt'[b].status # "none"
                          /\ sweep'[v].pc = "idle" => sweep'[v].due = {}
                          /\ sweep'[v].pc = "mark" => /\ sweep'[v].appt \in Appts
                                                      /\ sweep'[v].appt \notin sweep'[v].due
                                                      /\ appt'[sweep'[v].appt].status # "none"
    BY <1>1, <1>4, <1>8, <1>9, <2>1 DEF AppInv, SweepsReadRows
  <2>3. \A b \in Appts : appt'[b].status = "none" => ~ appt'[b].marked
    BY <1>1, <1>2, <1>4, <1>7 DEF AppInv, SweepsReadRows
  <2>. QED  BY <2>2, <2>3 DEF SweepsReadRows
<1>11. unmarked \in [Appts -> Nat] /\ reminded \in [Appts -> Nat]
  BY DEF AppInv, CalendarTyped
<1>12. ASSUME NEW b \in Appts
       PROVE  IF appt'[b].marked THEN reminded[b] + Cardinality(Facing(b)') <= Cardinality(Sweeps) + unmarked[b]
                                 ELSE reminded[b] <= Cardinality(Marking(b)') + unmarked[b]
  <2>1. PICK facing, marking, rest, left : /\ facing = Facing(b) /\ marking = Marking(b)
                                           /\ rest = Facing(b)' /\ left = Marking(b)'
    OBVIOUS
  <2>2. /\ Cardinality(facing) \in Nat /\ Cardinality(marking) \in Nat /\ Cardinality(Sweeps) \in Nat
        /\ Cardinality(marking) + Cardinality(facing) <= Cardinality(Sweeps)
    BY <2>1, SweepsCounted
  <2>3. IF appt[b].marked THEN reminded[b] + Cardinality(facing) <= Cardinality(Sweeps) + unmarked[b]
                          ELSE reminded[b] <= Cardinality(marking) + unmarked[b]
    BY <2>1 DEF AppInv, RemindersCounted
  <2>4. rest = facing
    BY <1>1, <1>4, <1>9, <2>1 DEF Facing
  <2>5. CASE b # a
    <3>1. left = marking /\ appt'[b] = appt[b]
      BY <1>1, <1>4, <1>7, <1>9, <2>1, <2>5 DEF Marking
    <3>. QED  BY <2>1, <2>3, <2>4, <3>1
  <2>6. CASE b = a
    <3>1. reminded[b] + Cardinality(facing) <= Cardinality(Sweeps) + unmarked[b]
      <4>1. reminded[b] \in Nat
        BY <1>11
      <4>2. CASE appt[b].marked
        BY <2>3, <4>2
      <4>3. CASE ~ appt[b].marked
        BY <1>11, <2>2, <2>3, <4>1, <4>3
      <4>. QED  BY <4>2, <4>3
    <3>2. appt'[b].marked
      BY <1>4, <1>7, <2>6
    <3>. QED  BY <2>1, <2>4, <3>1, <3>2
  <2>. QED  BY <2>5, <2>6
<1>13. RemindersCounted'
  BY <1>5, <1>12 DEF RemindersCounted
<1>. QED  BY <1>5, <1>7, <1>8, <1>9, <1>10, <1>13, SweepGoesOn DEF AppInv, CalendarTyped

LEMMA TickStep == ASSUME AppInv, Tick PROVE AppInv'
<1>1. UNCHANGED <<calendar, rules, link, handed, event, appt, lock, request, offer, published, sweep, reminded, unmarked>>
  BY DEF Tick, calendarVars, bookingVars
<1>2. \A a \in Appts : /\ appt'[a].marked <=> appt[a].marked
                       /\ appt[a].status # "none" => appt'[a].status # "none"
  BY <1>1
<1>3. SweepsReadRows' /\ RemindersCounted'
  BY <1>1, <1>2, RemindersGoOn
<1>. QED  BY <1>1, <1>3, SweepGoesOn DEF AppInv, CalendarTyped

LEMMA RemindersStep == ASSUME AppInv, RemindersNext PROVE AppInv'
BY TickStep, UnlinkContactStep, StartSweepStep, MarkRemindedStep, SweepEndsStep, SkipReminderStep, SendReminderStep,
   SendReminderFailsStep
   DEF RemindersNext
-------------------------------------------------------------------------------
LEMMA AppointmentsStart == ASSUME AppointmentsInit PROVE AppInv
<1>1. NoRow \in ApptRow /\ NoRow.status = "none" /\ NoRow.marked = FALSE
  <2>1. <<0, 1>> \in Ranges
    BY AppointmentsAssumption DEF Ranges, Instants0
  <2>. QED  BY <2>1 DEF NoRow, ApptRow
<1>2. IdleSweep \in SweepRow /\ IdleSweep.pc = "idle" /\ IdleSweep.due = {}
  BY DEF IdleSweep, SweepRow
<1>3. CalendarTyped
  <2>1. appt \in [Appts -> ApptRow] /\ request \in [Requests -> RequestRow] /\ sweep \in [Sweeps -> SweepRow]
    BY <1>1, <1>2, IdleIsARow DEF AppointmentsInit
  <2>2. lock \in [Appts -> Requests \union {None}] /\ published \in [Appts -> {0, 1}] /\ reminded \in [Appts -> Nat]
    BY DEF AppointmentsInit
  <2>. QED  BY <2>1, <2>2 DEF AppointmentsInit, CalendarTyped
<1>4. LockHolds /\ ReportDue
  BY IdleIsARow DEF AppointmentsInit, LockHolds, ReportDue
<1>5. NoDoubleBooking /\ OfferIsBookable /\ NoOrphans /\ OneLink /\ CompletedOnce
  BY <1>1 DEF AppointmentsInit, NoDoubleBooking, Confirmed, OfferIsBookable, NoOrphans, OneLink, CompletedOnce
<1>6. SweepsReadRows
  BY <1>1, <1>2 DEF AppointmentsInit, SweepsReadRows
<1>7. RemindersCounted
  <2>. SUFFICES ASSUME NEW a \in Appts PROVE ~ appt[a].marked /\ reminded[a] <= Cardinality(Marking(a)) + unmarked[a]
    BY DEF RemindersCounted
  <2>1. Marking(a) = {}
    BY <1>2 DEF AppointmentsInit, Marking
  <2>2. Cardinality(Marking(a)) = 0
    BY <2>1, FS_EmptySet
  <2>. QED  BY <1>1, <2>2 DEF AppointmentsInit
<1>. QED  BY <1>3, <1>4, <1>5, <1>6, <1>7 DEF AppInv

LEMMA AppointmentsKept == ASSUME AppInv, [AppointmentsNext]_appointmentVars PROVE AppInv'
<1>1. ASSUME UNCHANGED appointmentVars PROVE AppInv'
  <2>1. UNCHANGED <<calendar, rules, link, handed, event, appt, lock, request, offer, published, sweep, reminded, unmarked>>
    BY <1>1 DEF appointmentVars, calendarVars, bookingVars, sweepVars
  <2>2. \A a \in Appts : /\ appt'[a].marked <=> appt[a].marked
                         /\ appt[a].status # "none" => appt'[a].status # "none"
    BY <2>1
  <2>3. SweepsReadRows' /\ RemindersCounted'
    BY <2>1, <2>2, RemindersGoOn
  <2>. QED  BY <2>1, <2>3, SweepGoesOn DEF AppInv, CalendarTyped
<1>. QED  BY <1>1, CalendarStep, BookingStep, RemindersStep DEF AppointmentsNext

LEMMA RemindersAreBounded == ASSUME AppInv PROVE RemindersBounded
<1>. SUFFICES ASSUME NEW a \in Appts PROVE reminded[a] <= Cardinality(Sweeps) + unmarked[a]
  BY DEF RemindersBounded
<1>1. PICK n \in Nat, m \in Nat, k \in Nat :
         n = Cardinality(Facing(a)) /\ m = Cardinality(Marking(a)) /\ k = Cardinality(Sweeps) /\ m + n <= k
  BY SweepsCounted
<1>2. reminded[a] \in Nat /\ unmarked[a] \in Nat
  BY DEF AppInv, CalendarTyped
<1>3. IF appt[a].marked THEN reminded[a] + n <= k + unmarked[a] ELSE reminded[a] <= m + unmarked[a]
  BY <1>1 DEF AppInv, RemindersCounted
<1>4. CASE appt[a].marked
  BY <1>1, <1>2, <1>3, <1>4
<1>5. CASE ~ appt[a].marked
  BY <1>1, <1>2, <1>3, <1>5
<1>. QED  BY <1>4, <1>5

\* No slot is booked twice and none offered that cannot be booked; nothing
\* refers to a deleted calendar; every caller gets the one link; an appointment
\* is reported completed once; and a reminder is repeated no more often than
\* sweeps overlap, die or are told of an error after the provider took the
\* message, for any number of appointments, requests and sweeps
\* (booking.py, calendars.py, links.py, reminders.py).
THEOREM CalendarHoldsAlways == AppointmentsSpec => []CalendarHolds
<1>1. AppInv => CalendarHolds
  <2>. SUFFICES ASSUME AppInv PROVE CalendarHolds
    OBVIOUS
  <2>1. AppointmentsTypeOK
    <3>1. event \in (Instants0 \X Instants0) \union {None}
      BY DEF AppInv, CalendarTyped, Ranges
    <3>. QED  BY <3>1 DEF AppInv, CalendarTyped, LockHolds, AppointmentsTypeOK, ApptRow, RequestRow, SweepRow
  <2>2. EventWellFormed
    BY DEF AppInv, CalendarTyped, EventWellFormed, Ranges
  <2>3. RemindersBounded
    BY RemindersAreBounded
  <2>. QED  BY <2>1, <2>2, <2>3 DEF AppInv, CalendarHolds
<1>. QED  BY AppointmentsStart, AppointmentsKept, <1>1, PTL DEF AppointmentsSpec
===============================================================================
