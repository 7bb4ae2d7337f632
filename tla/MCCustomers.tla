------------------------------ MODULE MCCustomers ------------------------------
(***************************************************************************)
(* The CRM's records, the ways into it, and the inbox, for TLC.  A         *)
(* behaviour moves one of them, and the run checks the sum of their states.*)
(***************************************************************************)
EXTENDS CrmRecords, ContactCapture, Conversations, TLC

CONSTANTS a1, a2, b1, b2, e1, e2, person, field, stage3, request

MCPipelineOf == b1 :> "sales" @@ b2 :> "sales" @@ stage3 :> "service"
MCAppliesTo  == field :> {person}
MCChannel    == b1 :> "lead" @@ b2 :> "lead" @@ e1 :> "phone" @@ e2 :> "phone" @@ request :> "form"
MCKey        == b1 :> "retried" @@ b2 :> "retried" @@ e1 :> "none" @@ e2 :> "none" @@ request :> "form"

\* The components have no identifiers in common, so the same three pairs of values
\* serve all of them, and permute in each.
Symmetry == Permutations({a1, a2}) \union Permutations({b1, b2}) \union Permutations({e1, e2})

VARIABLE focus

mcVars == <<focus, crmVars, contactVars, talkVars>>

\* With the stages of one pipeline there from the start.
TwoStages == stages = {b1, b2} /\ CrmRest

\* Requests of the form beside those of one other channel: the rest never come.
Only(channel) ==
    capture = [k \in Captures |-> IF Channel[k] \in {channel, "form"} THEN NewCapture
                                  ELSE [NewCapture EXCEPT !.pc = "done"]]

MCInit ==
    /\ ConversationsInit
    /\ \/ focus = "stages" /\ CrmInit /\ CaptureInit
       \/ focus = "records" /\ TwoStages /\ CaptureInit
       \/ focus \in {"lead", "phone"} /\ TwoStages /\ Only(focus) /\ CaptureRest
       \/ focus \in {"page", "import", "inbound", "messages", "templates"} /\ TwoStages /\ CaptureInit

CrmSteps ==
    \/ focus = "stages" /\ \E s \in Stages : CreateStage(s)
    \/ focus = "records" /\ CrmNext

\* The page is published once, so that leads have somewhere to come from.
ContactSteps ==
    \/ focus \in {"lead", "phone"} /\ (CaptureNext \/ (page.draft = 0 /\ (PublishReads \/ PublishWrites)))
    \/ focus = "page" /\ PageNext
    \/ focus = "import" /\ ImportNext

TalkSteps ==
    \/ focus = "inbound" /\ (ThreadsNext \/ InboundNext)
    \/ focus = "messages" /\ MessagesNext
    \/ focus = "messages" /\ \E t \in Talks, a \in Clients : DeleteThread(t) \/ ForgetClient(a) \/ CreateThread(t, a, "sms")
    \/ focus = "templates" /\ TemplatesNext

MCNext ==
    /\ UNCHANGED focus
    /\ \/ CrmSteps /\ UNCHANGED <<contactVars, talkVars>>
       \/ ContactSteps /\ UNCHANGED <<crmVars, talkVars>>
       \/ TalkSteps /\ UNCHANGED <<crmVars, contactVars>>

MCSpec == MCInit /\ [][MCNext]_mcVars
===============================================================================
