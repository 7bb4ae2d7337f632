----------------------------- MODULE Conversations -----------------------------
(***************************************************************************)
(* The inbox of product/conversations: threads of a contact on a channel,  *)
(* found or created for inbound deliveries under an advisory lock; their   *)
(* messages, ordered by a number the database draws before the insert      *)
(* commits; replies sent to the provider first and recorded afterwards.    *)
(***************************************************************************)
EXTENDS Naturals, Sequences, SequencesExt, FiniteSets

CONSTANTS
    Clients,      \* contacts of the CRM
    Talks,        \* ids of threads that may be created
    TalkChannels,
    Deliveries,   \* inbound deliveries of a phone channel
    Repliers,     \* requests that send and record a reply
    Notices, TemplateNames,   \* message templates and their names
    Nil,
    MaxMessages   \* bound: messages ever inserted

ASSUME TalkAssumption ==
    /\ MaxMessages \in Nat
    /\ Nil \notin Clients \union Talks \union TalkChannels \union TemplateNames

VARIABLES
    clients,      \* contacts that exist
    talks,        \* threads in order of creation, deleted ones included
    talk,         \* the row of each: [there, contact, channel, by], by = "inbound" until staff edit it
    messages,     \* by sequence number: [talk, inbound, note, row]
    delivery,     \* inbound deliveries: [pc, contact, channel, talk]
    talkLock,     \* advisory locks held: <<contact, channel>>
    reply,        \* [pc, talk, number]
    accepted,     \* replies the provider took, per thread
    notices       \* templates: their names, or Nil

talkVars == <<clients, talks, talk, messages, delivery, talkLock, reply, accepted, notices>>

NoTalk == [there |-> FALSE, contact |-> Nil, channel |-> Nil, by |-> "nobody"]

ConversationsInit ==
    /\ clients = Clients
    /\ talks = <<>>
    /\ talk = [t \in Talks |-> NoTalk]
    /\ messages = <<>>
    /\ delivery = [d \in Deliveries |-> [pc |-> "idle", contact |-> Nil, channel |-> Nil, talk |-> Nil]]
    /\ talkLock = {}
    /\ reply = [r \in Repliers |-> [pc |-> "idle", talk |-> Nil, number |-> 0]]
    /\ accepted = [t \in Talks |-> 0]
    /\ notices = [n \in Notices |-> Nil]

NewTalk(t, a, ch, by) ==
    /\ a \in clients
    /\ ~ Contains(talks, t)
    /\ talks' = Append(talks, t)
    /\ talk' = [talk EXCEPT ![t] = [there |-> TRUE, contact |-> a, channel |-> ch, by |-> by]]

\* A foreign key refuses a contact that is gone.
CreateThread(t, a, ch) ==
    /\ NewTalk(t, a, ch, "staff")
    /\ UNCHANGED <<clients, messages, delivery, talkLock, reply, accepted, notices>>

UpdateThread(t, ch) ==
    /\ talk[t].there /\ talk[t].channel # ch
    /\ talk' = [talk EXCEPT ![t].channel = ch, ![t].by = "staff"]
    /\ UNCHANGED <<clients, talks, messages, delivery, talkLock, reply, accepted, notices>>

\* ON DELETE CASCADE; an insert that has not committed holds the thread's row.
DeleteThread(t) ==
    /\ talk[t].there
    /\ ~ \E i \in DOMAIN messages : messages[i].talk = t /\ messages[i].row = "open"
    /\ talk' = [talk EXCEPT ![t].there = FALSE]
    /\ messages' = [i \in DOMAIN messages |->
                      IF messages[i].talk = t THEN [messages[i] EXCEPT !.row = "gone"] ELSE messages[i]]
    /\ UNCHANGED <<clients, talks, delivery, talkLock, reply, accepted, notices>>

\* The contact is deleted: its threads stay, unlinked.
ForgetClient(a) ==
    /\ a \in clients
    /\ clients' = clients \ {a}
    /\ talk' = [t \in Talks |-> IF talk[t].contact = a THEN [talk[t] EXCEPT !.contact = Nil] ELSE talk[t]]
    /\ UNCHANGED <<talks, messages, delivery, talkLock, reply, accepted, notices>>

(***************************************************************************)
(* create_thread_from_trusted_inbound().                                   *)
(***************************************************************************)
\* The contact, in a transaction of its own.
ResolveContact(d, a, ch) ==
    /\ delivery[d].pc = "idle" /\ a \in clients
    /\ delivery' = [delivery EXCEPT ![d] = [pc |-> "resolved", contact |-> a, channel |-> ch, talk |-> Nil]]
    /\ UNCHANGED <<clients, talks, talk, messages, talkLock, reply, accepted, notices>>

Found(a, ch) ==
    {i \in DOMAIN talks :
        LET row == talk[talks[i]] IN row.there /\ row.contact = a /\ row.channel = ch}

Newest(a, ch) == IF Found(a, ch) = {} THEN Nil ELSE talks[Max(Found(a, ch))]

LockOf(d) == <<delivery[d].contact, delivery[d].channel>>

\* Mutant: found without the lock.
LockThreadUnlocked(d) ==
    /\ delivery[d].pc = "resolved"
    /\ delivery' = [delivery EXCEPT ![d].pc = "found", ![d].talk = Newest(delivery[d].contact, delivery[d].channel)]
    /\ UNCHANGED <<clients, talks, talk, messages, talkLock, reply, accepted, notices>>

LockThread(d) ==
    /\ delivery[d].pc = "resolved" /\ LockOf(d) \notin talkLock
    /\ talkLock' = talkLock \union {LockOf(d)}
    /\ delivery' = [delivery EXCEPT ![d].pc = "found", ![d].talk = Newest(delivery[d].contact, delivery[d].channel)]
    /\ UNCHANGED <<clients, talks, talk, messages, reply, accepted, notices>>

EndDelivery(d, pc, t) ==
    /\ delivery' = [delivery EXCEPT ![d].pc = pc, ![d].talk = t]
    /\ talkLock' = talkLock \ {LockOf(d)}

ReuseThread(d) ==
    /\ delivery[d].pc = "found" /\ delivery[d].talk # Nil
    /\ EndDelivery(d, "done", delivery[d].talk)
    /\ UNCHANGED <<clients, talks, talk, messages, reply, accepted, notices>>

InsertThread(d, t) ==
    /\ delivery[d].pc = "found" /\ delivery[d].talk = Nil
    /\ NewTalk(t, delivery[d].contact, delivery[d].channel, "inbound")
    /\ EndDelivery(d, "done", t)
    /\ UNCHANGED <<clients, messages, reply, accepted, notices>>

\* The contact was deleted between the two transactions.
InsertThreadFails(d) ==
    /\ delivery[d].pc = "found" /\ delivery[d].talk = Nil /\ delivery[d].contact \notin clients
    /\ EndDelivery(d, "failed", Nil)
    /\ UNCHANGED <<clients, talks, talk, messages, reply, accepted, notices>>

(***************************************************************************)
(* Messages.                                                               *)
(***************************************************************************)
\* create_message(): the flush draws the number; the foreign key needs the thread.
Flush(t, inbound, note) ==
    /\ Len(messages) < MaxMessages
    /\ talk[t].there
    /\ messages' = Append(messages, [talk |-> t, inbound |-> inbound, note |-> note, row |-> "open"])

CreateMessage(t, inbound, note) ==
    /\ Flush(t, inbound, note)
    /\ UNCHANGED <<clients, talks, talk, delivery, talkLock, reply, accepted, notices>>

\* Commits come in any order.
CommitMessage(i) ==
    /\ i \in DOMAIN messages /\ messages[i].row = "open"
    /\ messages' = [messages EXCEPT ![i].row = "there"]
    /\ reply' = [r \in Repliers |-> IF reply[r].number = i THEN [reply[r] EXCEPT !.pc = "done"] ELSE reply[r]]
    /\ UNCHANGED <<clients, talks, talk, delivery, talkLock, accepted, notices>>

\* send_email_message(): a thread with a contact; the SMS and WhatsApp forms read nothing.
BeginReply(r, t) ==
    /\ reply[r].pc = "idle" /\ talk[t].there /\ talk[t].contact # Nil
    /\ reply' = [reply EXCEPT ![r] = [pc |-> "send", talk |-> t, number |-> 0]]
    /\ UNCHANGED <<clients, talks, talk, messages, delivery, talkLock, accepted, notices>>

\* Mutant: a refusal of the provider is taken for a success.
SendReplyAnyway(r) ==
    /\ reply[r].pc = "send"
    /\ reply' = [reply EXCEPT ![r].pc = "record"]
    /\ \E taken \in {0, 1} : accepted' = [accepted EXCEPT ![reply[r].talk] = @ + taken]
    /\ UNCHANGED <<clients, talks, talk, messages, delivery, talkLock, notices>>

SendReply(r) ==
    /\ reply[r].pc = "send"
    /\ reply' = [reply EXCEPT ![r].pc = "record"]
    /\ accepted' = [accepted EXCEPT ![reply[r].talk] = @ + 1]
    /\ UNCHANGED <<clients, talks, talk, messages, delivery, talkLock, notices>>

\* The provider raises: it refused the reply, or had taken it by then.
SendReplyFails(r) ==
    /\ reply[r].pc = "send"
    /\ reply' = [reply EXCEPT ![r].pc = "failed"]
    /\ \E taken \in {0, 1} : accepted' = [accepted EXCEPT ![reply[r].talk] = @ + taken]
    /\ UNCHANGED <<clients, talks, talk, messages, delivery, talkLock, notices>>

RecordReply(r) ==
    /\ reply[r].pc = "record"
    /\ Flush(reply[r].talk, FALSE, FALSE)
    /\ reply' = [reply EXCEPT ![r].pc = "recording", ![r].number = Len(messages) + 1]
    /\ UNCHANGED <<clients, talks, talk, delivery, talkLock, accepted, notices>>

\* The thread was deleted meanwhile: sent, and nowhere on record.
RecordReplyFails(r) ==
    /\ reply[r].pc = "record" /\ ~ talk[reply[r].talk].there
    /\ reply' = [reply EXCEPT ![r].pc = "failed"]
    /\ UNCHANGED <<clients, talks, talk, messages, delivery, talkLock, accepted, notices>>

(***************************************************************************)
(* Templates: a unique name per tenant.                                    *)
(***************************************************************************)

CreateTemplate(n, x) ==
    /\ notices[n] = Nil /\ \A m \in Notices : notices[m] # x
    /\ notices' = [notices EXCEPT ![n] = x]
    /\ UNCHANGED <<clients, talks, talk, messages, delivery, talkLock, reply, accepted>>

DeleteTemplate(n) ==
    /\ notices[n] # Nil
    /\ notices' = [notices EXCEPT ![n] = Nil]
    /\ UNCHANGED <<clients, talks, talk, messages, delivery, talkLock, reply, accepted>>

TemplatesNext ==
    \E n \in Notices : DeleteTemplate(n) \/ \E x \in TemplateNames : CreateTemplate(n, x)

ThreadsNext ==
    \/ \E a \in Clients : ForgetClient(a)
    \/ \E t \in Talks :
          \/ DeleteThread(t)
          \/ \E ch \in TalkChannels : UpdateThread(t, ch) \/ \E a \in Clients : CreateThread(t, a, ch)

InboundNext ==
    \E d \in Deliveries :
        \/ LockThread(d) \/ ReuseThread(d) \/ InsertThreadFails(d)
        \/ \E t \in Talks : InsertThread(d, t)
        \/ \E a \in Clients, ch \in TalkChannels : ResolveContact(d, a, ch)

MessagesNext ==
    \/ \E i \in 1..MaxMessages : CommitMessage(i)
    \/ \E t \in Talks, inbound, note \in BOOLEAN : CreateMessage(t, inbound, note)
    \/ \E r \in Repliers :
          \/ \E t \in Talks : BeginReply(r, t)
          \/ SendReply(r) \/ SendReplyFails(r) \/ RecordReply(r) \/ RecordReplyFails(r)

-------------------------------------------------------------------------------
TalksTypeOK ==
    /\ clients \subseteq Clients
    /\ talks \in Seq(Talks) /\ IsInjective(talks)
    /\ \A t \in Talks : talk[t].contact \in clients \union {Nil}
    /\ \A i \in DOMAIN messages : messages[i].row \in {"open", "there", "gone"}
    /\ \A d \in Deliveries : delivery[d].pc = "found" => LockOf(d) \in talkLock
    /\ notices \in [Notices -> TemplateNames \union {Nil}]
    /\ \A m, n \in Notices : m # n /\ notices[m] = notices[n] => notices[m] = Nil

\* Deliveries of one number and channel at the same time share one thread; only the
\* deletion of a thread or of its contact, or an edit by staff, makes room for another.
OneThreadPerInbound ==
    \A t, u \in Talks :
        /\ talk[t].there /\ talk[u].there
        /\ talk[t].by = "inbound" /\ talk[u].by = "inbound"
        /\ talk[t].contact = talk[u].contact /\ talk[t].contact # Nil /\ talk[t].channel = talk[u].channel
        => t = u

\* A message on record is in a thread that exists, whatever was deleted while it was inserted.
MessagesInThreads ==
    \A i \in DOMAIN messages : messages[i].row # "gone" => talk[messages[i].talk].there

\* A reply on record was taken by the provider: the inbox never claims more than was sent.
RecordedRepliesWereSent ==
    \A t \in Talks :
        Cardinality({r \in Repliers : reply[r].talk = t /\ reply[r].number # 0}) <= accepted[t]

(***************************************************************************)
(* The inbox: needs_reply, derived from the latest message of a thread.    *)
(***************************************************************************)
LatestOf(t, those) ==
    LET mine == {i \in those : messages[i].talk = t /\ messages[i].row = "there"}
    IN IF mine = {} THEN 0 ELSE Max(mine)

NeedsReply(t) ==
    LET i == LatestOf(t, DOMAIN messages)
    IN i # 0 /\ messages[i].inbound

\* inbox.py: needs_reply is the direction of the latest message that is not an internal note.
NotesDoNotAnswer ==
    \A t \in Talks : LET i == LatestOf(t, {k \in DOMAIN messages : ~ messages[k].note})
                     IN talk[t].there /\ i # 0 /\ messages[i].inbound => NeedsReply(t)

\* Two messages that arrive at once share the thread they open, no message
\* outlives its thread, and no reply is recorded that was not sent
\* (threads.py, replies.py).
ThreadsHold ==
    /\ TalksTypeOK
    /\ OneThreadPerInbound
    /\ MessagesInThreads
    /\ RecordedRepliesWereSent
===============================================================================
