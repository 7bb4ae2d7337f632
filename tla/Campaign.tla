------------------------------- MODULE Campaign -------------------------------
(***************************************************************************)
(* One e-mail campaign of product/marketing: its edits, the request that   *)
(* resolves its segment page by page, enrolls the contacts and enqueues    *)
(* the send job, the job that sends to one pending recipient after the     *)
(* other, cancellation, suppressions, and contacts that come and go.       *)
(*                                                                         *)
(* Every function reads rows in one transaction and may write them in a    *)
(* later step: nothing here takes a row lock.  The queue delivers a job    *)
(* again when the worker that ran it dies.                                 *)
(***************************************************************************)
EXTENDS Naturals, Sequences, FiniteSets, SequencesExt

CONSTANTS
    Contacts,       \* contacts the tenant has at some time
    FirstContacts,  \* the contacts at the beginning, newest first
    PageSize,       \* _SEGMENT_PAGE_SIZE
    Senders,        \* requests that start the send
    Workers,        \* worker processes of the job queue
    NoContact,
    MaxCrashes,     \* bound: deaths of processes
    MaxListing      \* bound: contacts created or deleted, suppressions set or lifted

ASSUME CampaignAssumption ==
    /\ PageSize \in Nat \ {0} /\ MaxCrashes \in Nat /\ MaxListing \in Nat
    /\ FirstContacts \in Seq(Contacts) /\ IsInjective(FirstContacts) /\ NoContact \notin Contacts

VARIABLES
    campaign,    \* status of the campaign's row, or "deleted"
    recipient,   \* campaign_recipients: contact -> status, "none" without a row
    unlinked,    \* rows whose contact was deleted: contact_id is NULL
    listing,     \* the contacts, newest first, as list_contacts() returns them
    suppressed,  \* contacts with a row in suppressions
    sender,      \* the requests of start_campaign_send()
    editor,      \* the request of update_campaign() or delete_campaign()
    jobs,        \* jobs of the campaign in the queue
    worker,      \* the runs of the job
    sentTo,      \* messages the provider took, per contact
    died,        \* runs that died between a message and its mark, per contact
    starts,      \* starts that committed
    late,        \* messages sent after the cancellation
    stranded,    \* a start died between its commit and its enqueue
    crashes, moves

campaignVars == <<campaign, recipient, unlinked, listing, suppressed, sender, editor,
                  jobs, worker, sentTo, died, starts, late, stranded, crashes, moves>>

Rows == <<campaign, recipient, unlinked>>
Outside == <<sentTo, died, late>>

IdleSender == [pc |-> "idle", offset |-> 0, found |-> <<>>, barred |-> {}, seen |-> 0]
IdleWorker == [pc |-> "idle", contact |-> NoContact, barred |-> {}, unlinked |-> FALSE]

CampaignInit ==
    /\ campaign = "draft"
    /\ recipient = [c \in Contacts |-> "none"]
    /\ unlinked = {}
    /\ listing = FirstContacts
    /\ suppressed = {}
    /\ sender = [s \in Senders |-> IdleSender]
    /\ editor = "idle"
    /\ jobs = 0
    /\ worker = [w \in Workers |-> IdleWorker]
    /\ sentTo = [c \in Contacts |-> 0]
    /\ died = [c \in Contacts |-> 0]
    /\ starts = 0 /\ late = 0 /\ stranded = FALSE /\ crashes = 0 /\ moves = 0

Pending == {c \in Contacts : recipient[c] = "pending"}

(***************************************************************************)
(* Contacts and suppressions.                                              *)
(***************************************************************************)
Move == moves < MaxListing /\ moves' = moves + 1

AddContact(c) ==
    /\ Move
    /\ ~ Contains(listing, c) /\ recipient[c] = "none" /\ c \notin ToSet(FirstContacts)
    /\ listing' = <<c>> \o listing
    /\ UNCHANGED <<Rows, suppressed, sender, editor, jobs, worker, Outside, starts, stranded, crashes>>

\* The recipients' rows lose their contact, the suppression goes with it.
DeleteContact(c) ==
    /\ Move
    /\ \E i \in DOMAIN listing : listing[i] = c /\ listing' = RemoveAt(listing, i)
    /\ suppressed' = suppressed \ {c}
    /\ unlinked' = IF recipient[c] = "none" THEN unlinked ELSE unlinked \union {c}
    /\ worker' = [w \in Workers |-> [worker[w] EXCEPT !.barred = @ \ {c}]]
    /\ UNCHANGED <<campaign, recipient, sender, editor, jobs, Outside, starts, stranded, crashes>>

CreateSuppression(c) ==
    /\ Move
    /\ Contains(listing, c) /\ c \notin suppressed
    /\ suppressed' = suppressed \union {c}
    /\ UNCHANGED <<Rows, listing, sender, editor, jobs, worker, Outside, starts, stranded, crashes>>

DeleteSuppression(c) ==
    /\ Move
    /\ c \in suppressed
    /\ suppressed' = suppressed \ {c}
    /\ worker' = [w \in Workers |-> [worker[w] EXCEPT !.barred = @ \ {c}]]
    /\ UNCHANGED <<Rows, listing, sender, editor, jobs, Outside, starts, stranded, crashes>>

(***************************************************************************)
(* Edit, deletion and cancellation of the campaign.                        *)
(***************************************************************************)
\* The request finds the campaign in draft; its write comes later.
EditChecks ==
    /\ editor = "idle" /\ campaign = "draft"
    /\ editor' \in {"updating", "deleting"}
    /\ UNCHANGED <<Rows, listing, suppressed, sender, jobs, worker, Outside, starts, stranded, crashes, moves>>

\* The row may have left draft: the columns of the edit change all the same.
UpdateCampaign ==
    /\ editor = "updating"
    /\ editor' = "done"
    /\ UNCHANGED <<Rows, listing, suppressed, sender, jobs, worker, Outside, starts, stranded, crashes, moves>>

\* The recipients go with the campaign.
DeleteCampaign ==
    /\ editor = "deleting"
    /\ editor' = "done"
    /\ campaign' = "deleted"
    /\ recipient' = [c \in Contacts |-> "none"]
    /\ unlinked' = {}
    /\ UNCHANGED <<listing, suppressed, sender, jobs, worker, Outside, starts, stranded, crashes, moves>>

CancelCampaign ==
    /\ campaign = "sending"
    /\ campaign' = "cancelled"
    /\ UNCHANGED <<recipient, unlinked, listing, suppressed, sender, editor, jobs, worker, Outside, starts, stranded, crashes, moves>>

(***************************************************************************)
(* start_campaign_send().                                                  *)
(***************************************************************************)
SenderSet(s, r) ==
    /\ sender' = [sender EXCEPT ![s] = r]
    /\ UNCHANGED <<listing, suppressed, editor, worker, Outside, crashes, moves>>

StartChecks(s) ==
    /\ sender[s].pc = "idle" /\ campaign = "draft"
    /\ SenderSet(s, [sender[s] EXCEPT !.pc = "paging"])
    /\ UNCHANGED <<Rows, jobs, starts, stranded>>

Page(offset) == SubSeq(listing, offset + 1, Min({offset + PageSize, Len(listing)}))

\* One page of resolve_segment(): the last is the one that is not full.
ReadPage(s) ==
    /\ sender[s].pc = "paging"
    /\ LET page == Page(sender[s].offset)
       IN SenderSet(s, [sender[s] EXCEPT !.found = @ \o page,
                                         !.offset = @ + PageSize,
                                         !.pc = IF Len(page) < PageSize THEN "enrolling" ELSE "paging"])
    /\ UNCHANGED <<Rows, jobs, starts, stranded>>

\* is_suppressed() of the next contact, in a transaction of its own.
LookUp(s) ==
    /\ sender[s].pc = "enrolling" /\ sender[s].seen < Len(sender[s].found)
    /\ LET c == sender[s].found[sender[s].seen + 1]
       IN SenderSet(s, [sender[s] EXCEPT !.seen = @ + 1,
                                         !.barred = IF c \in suppressed THEN @ \union {c} ELSE @])
    /\ UNCHANGED <<Rows, jobs, starts, stranded>>

\* The constraints of campaign_recipients: a contact once, and it exists.
Enrollable(found) ==
    /\ campaign # "deleted"
    /\ IsInjective(found)
    /\ \A c \in ToSet(found) : Contains(listing, c) /\ (recipient[c] # "none" => c \in unlinked)

Looked(s) == sender[s].pc = "enrolling" /\ sender[s].seen = Len(sender[s].found)

\* Rows, tracking tokens and the status in one transaction, whatever the
\* status has become since it was read.
Enroll(s) ==
    /\ Looked(s) /\ Enrollable(sender[s].found)
    /\ recipient' = [c \in Contacts |->
           IF c \notin ToSet(sender[s].found) THEN recipient[c]
           ELSE IF c \in sender[s].barred THEN "suppressed" ELSE "pending"]
    /\ unlinked' = unlinked \ ToSet(sender[s].found)
    /\ campaign' = "sending"
    /\ starts' = starts + 1
    /\ SenderSet(s, [sender[s] EXCEPT !.pc = "committed"])
    /\ UNCHANGED <<jobs, stranded>>

EnrollFails(s) ==
    /\ Looked(s) /\ ~ Enrollable(sender[s].found)
    /\ SenderSet(s, [sender[s] EXCEPT !.pc = "failed"])
    /\ UNCHANGED <<Rows, jobs, starts, stranded>>

Enqueue(s) ==
    /\ sender[s].pc = "committed"
    /\ jobs' = jobs + 1
    /\ SenderSet(s, [sender[s] EXCEPT !.pc = "done"])
    /\ UNCHANGED <<Rows, starts, stranded>>

SenderDies(s) ==
    /\ sender[s].pc = "committed" /\ crashes < MaxCrashes
    /\ crashes' = crashes + 1
    /\ stranded' = TRUE
    /\ sender' = [sender EXCEPT ![s].pc = "failed"]
    /\ UNCHANGED <<Rows, listing, suppressed, editor, jobs, worker, Outside, starts, moves>>

(***************************************************************************)
(* _run_campaign_send_job().                                               *)
(***************************************************************************)
WorkerSet(w, r) ==
    /\ worker' = [worker EXCEPT ![w] = r]
    /\ UNCHANGED <<listing, suppressed, sender, editor, starts, stranded, moves>>

TakeJob(w) ==
    /\ jobs > 0 /\ worker[w].pc = "idle"
    /\ jobs' = jobs - 1
    /\ WorkerSet(w, IF campaign = "deleted" THEN IdleWorker ELSE [IdleWorker EXCEPT !.pc = "loop"])
    /\ UNCHANGED <<Rows, Outside, crashes>>

\* The status is read anew before every recipient.
CheckStatus(w) ==
    /\ worker[w].pc = "loop"
    /\ WorkerSet(w, IF campaign \in {"deleted", "cancelled"} THEN IdleWorker
                    ELSE [worker[w] EXCEPT !.pc = "pick"])
    /\ UNCHANGED <<Rows, jobs, Outside, crashes>>

PickRecipient(w) ==
    /\ worker[w].pc = "pick"
    /\ \E c \in Pending :
          WorkerSet(w, [pc |-> "gate", contact |-> c, barred |-> suppressed, unlinked |-> c \in unlinked])
    /\ UNCHANGED <<Rows, jobs, Outside, crashes>>

\* Mutant: a failed recipient ends the loop.
MarkCampaignSentEarly(w) ==
    /\ worker[w].pc = "pick" /\ (Pending = {} \/ \E c \in Contacts : recipient[c] = "failed")
    /\ campaign' = IF campaign = "deleted" THEN "deleted" ELSE "sent"
    /\ WorkerSet(w, IdleWorker)
    /\ UNCHANGED <<recipient, unlinked, jobs, Outside, crashes>>

\* Nobody is pending: the campaign is sent, even one cancelled since the status was read.
MarkCampaignSent(w) ==
    /\ worker[w].pc = "pick" /\ Pending = {}
    /\ campaign' = IF campaign = "deleted" THEN "deleted" ELSE "sent"
    /\ WorkerSet(w, IdleWorker)
    /\ UNCHANGED <<recipient, unlinked, jobs, Outside, crashes>>

\* _mark_recipient(): nothing to do when the row is gone.
Mark(w, outcome) ==
    /\ recipient' = [recipient EXCEPT ![worker[w].contact] = IF @ = "none" THEN @ ELSE outcome]
    /\ WorkerSet(w, [worker[w] EXCEPT !.pc = "loop"])
    /\ UNCHANGED <<campaign, unlinked, jobs, Outside, crashes>>

\* _process_one_recipient(): the contact is gone, or suppressed by now.
Refuse(w) ==
    /\ worker[w].pc = "gate"
    /\ \/ worker[w].unlinked /\ Mark(w, "failed")
       \/ ~ worker[w].unlinked /\ worker[w].contact \in suppressed /\ Mark(w, "suppressed")

PassGate(w) ==
    /\ worker[w].pc = "gate"
    /\ ~ worker[w].unlinked /\ worker[w].contact \notin suppressed
    /\ WorkerSet(w, [worker[w] EXCEPT !.pc = "send"])
    /\ UNCHANGED <<Rows, jobs, Outside, crashes>>

\* get_contact() does not find the contact, or the provider raises: it refused the
\* message, or had taken it by then.
SendFails(w) ==
    /\ worker[w].pc \in {"send", "mark"}
    /\ Mark(w, "failed")

Send(w) ==
    /\ worker[w].pc = "send" /\ Contains(listing, worker[w].contact)
    /\ sentTo' = [sentTo EXCEPT ![worker[w].contact] = @ + 1]
    /\ late' = IF campaign = "cancelled" THEN late + 1 ELSE late
    /\ WorkerSet(w, [worker[w] EXCEPT !.pc = "mark"])
    /\ UNCHANGED <<Rows, jobs, died, crashes>>

\* Mutant: the mark is forgotten and the row stays pending.
MarkSentNot(w) ==
    /\ worker[w].pc = "mark"
    /\ Mark(w, "pending")

MarkSent(w) ==
    /\ worker[w].pc = "mark"
    /\ Mark(w, "sent")

\* The queue delivers the job again.
WorkerDies(w) ==
    /\ worker[w].pc # "idle" /\ crashes < MaxCrashes
    /\ crashes' = crashes + 1
    /\ died' = IF worker[w].pc = "mark" THEN [died EXCEPT ![worker[w].contact] = @ + 1] ELSE died
    /\ jobs' = jobs + 1
    /\ WorkerSet(w, IdleWorker)
    /\ UNCHANGED <<Rows, sentTo, late>>

CampaignNext ==
    \/ \E c \in Contacts : AddContact(c) \/ DeleteContact(c) \/ CreateSuppression(c) \/ DeleteSuppression(c)
    \/ EditChecks \/ UpdateCampaign \/ DeleteCampaign \/ CancelCampaign
    \/ \E s \in Senders :
          \/ StartChecks(s) \/ ReadPage(s) \/ LookUp(s)
          \/ Enroll(s) \/ EnrollFails(s) \/ Enqueue(s) \/ SenderDies(s)
    \/ \E w \in Workers :
          \/ TakeJob(w) \/ CheckStatus(w) \/ PickRecipient(w) \/ MarkCampaignSent(w)
          \/ Refuse(w) \/ PassGate(w) \/ SendFails(w) \/ Send(w) \/ MarkSent(w) \/ WorkerDies(w)

-------------------------------------------------------------------------------
CampaignTypeOK ==
    /\ campaign \in {"draft", "sending", "sent", "cancelled", "deleted"}
    /\ recipient \in [Contacts -> {"none", "pending", "suppressed", "sent", "failed"}]
    /\ unlinked \subseteq Contacts /\ suppressed \subseteq Contacts
    /\ listing \in Seq(Contacts) /\ IsInjective(listing)
    /\ editor \in {"idle", "updating", "deleting", "done"}
    /\ sender \in [Senders -> [pc : {"idle", "paging", "enrolling", "committed", "failed", "done"},
                               offset : Nat, found : Seq(Contacts), barred : SUBSET Contacts, seen : Nat]]
    /\ worker \in [Workers -> [pc : {"idle", "loop", "pick", "gate", "send", "mark"},
                               contact : Contacts \union {NoContact}, barred : SUBSET Contacts,
                               unlinked : BOOLEAN]]
    /\ sentTo \in [Contacts -> Nat] /\ died \in [Contacts -> Nat]
    /\ jobs \in Nat /\ starts \in Nat /\ late \in Nat /\ moves \in 0..MaxListing
    /\ stranded \in BOOLEAN /\ crashes \in 0..MaxCrashes

\* sending.py says the recipients' status prevents a second message on a
\* retry.  It does, but for a run that dies between the message and the mark:
\* of a campaign started once, only such deaths repeat a message, even where the
\* provider raised after it took the message.
RepeatedOnlyByDeath ==
    starts <= 1 => \A c \in Contacts : sentTo[c] <= 1 + died[c]

\* The second gate: whoever is suppressed when the job picks the recipient, and
\* stays so, is not sent to, however long ago the enrollment looked.
SuppressedNeverSent ==
    \A w \in Workers : worker[w].pc = "send" => worker[w].contact \notin worker[w].barred

\* Cancellation takes effect at the next recipient: a campaign started once
\* sends at most the one message its job was at.
CancelStopsSending == starts <= 1 => late <= 1

\* A campaign in sending is somebody's work: a request about to enqueue, a job
\* in the queue, or a worker; but for a request that died before it enqueued.
SendingIsOwned ==
    campaign = "sending" =>
        stranded \/ jobs > 0 \/ (\E s \in Senders : sender[s].pc = "committed")
                 \/ (\E w \in Workers : worker[w].pc # "idle")

\* Pages found by offset shift under inserts and deletions: what a request
\* without any such change found is the whole segment, every contact once.
SegmentIsWhole ==
    \A s \in Senders :
        (moves = 0 /\ sender[s].pc = "enrolling") => sender[s].found = listing

\* A campaign started once is marked sent only when every recipient has an outcome.
SentIsComplete == campaign = "sent" /\ starts <= 1 => Pending = {}

\* A campaign's message is repeated only where the job died between the mail and
\* its mark, never goes to a suppressed address, goes to nobody once the
\* cancellation is seen, and the campaign is called sent only when nobody is
\* left; one in sending has a job (sending.py, segmentation.py).
EachRecipientOnce ==
    /\ CampaignTypeOK
    /\ RepeatedOnlyByDeath
    /\ SuppressedNeverSent
    /\ CancelStopsSending
    /\ SendingIsOwned
    /\ SegmentIsWhole
    /\ SentIsComplete
===============================================================================
