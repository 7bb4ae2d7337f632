----------------------------- MODULE CallTransfer -----------------------------
(***************************************************************************)
(* One inbound call and its attended transfers: product/telephony/calls.py *)
(* (the row, its event ledger and the three transfer gates), transfer.py   *)
(* (the orchestration threads) and adapters/twilio_webhooks.py (the        *)
(* callbacks that drive them).                                             *)
(*                                                                         *)
(* A transaction that moves the call finds its row with a plain SELECT and *)
(* then locks it with session.get(..., with_for_update=True).  The object  *)
(* is in the session by then, so the lock waits for the transactions ahead *)
(* but does not load what they wrote: every test is made on the copy that  *)
(* the SELECT returned (calls.py names neither populate_existing nor a     *)
(* refresh before the tests).  Such a transaction is two actions, Load and *)
(* the one named after it; any other thread may run between them, between  *)
(* two transactions and around a provider call.  Each webhook may be       *)
(* delivered never, once, or many times, in any order.                     *)
(***************************************************************************)
EXTENDS Naturals, FiniteSets

CONSTANTS
    Attempts,      \* invocations of initiate_transfer(); each draws a fresh attempt id
    NoAttempt,     \* NULL in calls.active_transfer_attempt_id
    Requests,      \* the request_id values callers pass (a turn of the AI)
    RequestOf,     \* RequestOf[a]: the request_id of invocation a
    Deliveries,    \* copies of one "in-progress" callback that may be handled
    MayCrash       \* whether a process may die between two transactions

ASSUME NoAttemptAssumption == NoAttempt \notin Attempts
ASSUME RequestAssumption   == RequestOf \in [Attempts -> Requests]
ASSUME CrashAssumption     == MayCrash \in BOOLEAN

VARIABLES
    status,        \* calls.status; "none" while there is no row
    active,        \* calls.active_transfer_attempt_id
    events,        \* the call_events rows, by provider_event_id
    copy,          \* copy[t]: the row as transaction t loaded it
    overtaken,     \* whether a transaction ever did what the row it locked forbade
    destination,   \* whether the tenant has a human_transfer_destinations row
    sent,          \* CallStatus values the provider has reported for the call
    leg,           \* leg[a]: the consultation leg at the provider
    initiator,     \* initiator[a]: where invocation a of initiate_transfer() is
    callback,      \* callback[a][d]: where delivery d of a's answer callback is
    bridgeCalls    \* bridgeCalls[a]: how often provider.bridge_call() ran for a

row     == <<status, active, events>>
session == <<copy, overtaken>>
world   == <<sent, leg, destination>>
threads == <<initiator, callback, bridgeCalls>>
vars    == <<row, session, world, threads>>

Reports  == {"ringing", "in-progress", "completed", "no-answer", "failed"}
Terminal == {"completed", "no_answer", "failed"}
Statuses == {"none", "ringing", "in_progress", "transferring"} \cup Terminal

LegStates       == {"none", "dialing", "answered", "failed"}
InitiatorStates == {"idle", "creating", "refused", "created", "done", "crashed"}
CallbackStates  == {"idle", "consuming", "bridging", "bridged", "exiting",
                    "failing", "done", "crashed"}

\* provider_event_id: an f-string of the call, a fixed prefix and one varying part.
EventIds == ({"call"} \X Reports)
       \cup ({"transfer-requested", "provider-unavailable"} \X Requests)
       \cup ({"transfer-consultation", "transfer-answered", "transfer-bridged",
              "transfer-ai-exit", "leg-failed", "bridge-failure"} \X Attempts)

\* The transactions that test the row before they write it.
Transactions == ({"report"} \X Reports)
           \cup ({"initiator", "leg"} \X Attempts)
           \cup ({"callback"} \X Attempts \X Deliveries)

Copies == [status : Statuses, active : Attempts \cup {NoAttempt}]

\* Nothing is loaded: the transaction has not begun, or is over.
NoCopy == [status |-> "none", active |-> NoAttempt]

TypeOK ==
    /\ status \in Statuses
    /\ active \in Attempts \cup {NoAttempt}
    /\ events \subseteq EventIds
    /\ copy \in [Transactions -> Copies]
    /\ overtaken \in BOOLEAN
    /\ destination \in BOOLEAN
    /\ sent \subseteq Reports
    /\ leg \in [Attempts -> LegStates]
    /\ initiator \in [Attempts -> InitiatorStates]
    /\ callback \in [Attempts -> [Deliveries -> CallbackStates]]
    /\ bridgeCalls \in [Attempts -> Nat]

Init ==
    /\ status = "none"
    /\ active = NoAttempt
    /\ events = {}
    /\ copy = [t \in Transactions |-> NoCopy]
    /\ overtaken = FALSE
    /\ destination = FALSE
    /\ sent = {}
    /\ leg = [a \in Attempts |-> "none"]
    /\ initiator = [a \in Attempts |-> "idle"]
    /\ callback = [a \in Attempts |-> [d \in Deliveries |-> "idle"]]
    /\ bridgeCalls = [a \in Attempts |-> 0]

------------------------------------------------------------------------------
\* The row.

AllowedTransitions == [s \in Statuses |->
    CASE s = "ringing"      -> {"in_progress", "no_answer", "failed"}
      [] s = "in_progress"  -> {"completed", "failed", "transferring"}
      [] s = "transferring" -> {"in_progress", "completed", "failed"}
      [] OTHER              -> {}]

ReportedStatus == [r \in Reports |->
    CASE r = "ringing"     -> "ringing"
      [] r = "in-progress" -> "in_progress"
      [] r = "no-answer"   -> "no_answer"
      [] OTHER             -> r]

\* The row as it is now.
Row == [status |-> status, active |-> active]

(***************************************************************************)
(* What each transaction makes of a row c, as a set: {} when it refuses.   *)
(***************************************************************************)
\* _apply_transition(), which raises on an illegal transition.
StatusOf(c, r) ==
    {[c EXCEPT !.status = s] : s \in {ReportedStatus[r]} \cap (AllowedTransitions[c.status] \cup {c.status})}

\* Mutant: the claim looks at the owner only, so it is won during a bridge.
ClaimOfOwnerOnly(c, a) ==
    {[status |-> "transferring", active |-> a] :
        x \in {y \in {c} : y.status \in {"in_progress", "transferring"} /\ y.active = NoAttempt}}

\* try_start_transfer_attempt()
ClaimOf(c, a) ==
    {[status |-> "transferring", active |-> a] :
        x \in {c} \cap {[status |-> "in_progress", active |-> NoAttempt]}}

\* Mutant: the gate is checked but the attempt is not consumed.
ConsumeOfKept(c, a) ==
    {c} \cap {[status |-> "transferring", active |-> a]}

\* try_consume_transfer_attempt_for_bridge()
ConsumeOf(c, a) ==
    {[status |-> "transferring", active |-> NoAttempt] :
        x \in {c} \cap {[status |-> "transferring", active |-> a]}}

\* Mutant: expected_attempt_id is never compared with the row.
ReturnOfUngated(c, gate) ==
    {IF "in_progress" \in AllowedTransitions[c.status]
     THEN [status |-> "in_progress",
           active |-> IF c.status = "transferring" THEN NoAttempt ELSE c.active]
     ELSE c}

\* Mutant: the call is returned whatever its status.
ReturnOfForced(c, gate) ==
    {IF gate = {} \/ c.active \in gate
     THEN [status |-> "in_progress", active |-> NoAttempt]
     ELSE c}

\* apply_call_transfer_event() with a failed or bridged transfer: gate is {} when
\* expected_attempt_id is None and {a} when it is a.  A stale attempt and an
\* illegal transition leave the row alone.
ReturnOf(c, gate) ==
    {IF (gate = {} \/ c.active \in gate) /\ "in_progress" \in AllowedTransitions[c.status]
     THEN [status |-> "in_progress",
           active |-> IF c.status = "transferring" THEN NoAttempt ELSE c.active]
     ELSE c}

(***************************************************************************)
(* Loading the row, and the commit: the UPDATE names the columns whose     *)
(* value differs from the copy.  "made" is what the transaction makes of   *)
(* its copy, "due" what it would have made of the row under the lock.      *)
(***************************************************************************)
Load(t) ==
    /\ copy[t] = NoCopy
    /\ status # "none"
    /\ copy' = [copy EXCEPT ![t] = Row]
    /\ UNCHANGED <<row, overtaken, world, threads>>

Done(t) == copy' = [copy EXCEPT ![t] = NoCopy]

Commit(t, made, due) ==
    /\ copy[t] # NoCopy
    /\ \E new \in made :
          /\ status' = IF new.status = copy[t].status THEN status ELSE new.status
          /\ active' = IF new.active = copy[t].active THEN active ELSE new.active
          /\ overtaken' = (overtaken \/ due # {[status |-> status', active |-> active']})
    /\ Done(t)

\* The two transfer events that move the call; a duplicate changes nothing.
ReturnCall(t, id, gate) ==
    /\ events' = events \cup {id}
    /\ \/ id \notin events /\ Commit(t, ReturnOf(copy[t], gate), ReturnOf(Row, gate))
       \/ id \in events /\ copy[t] # NoCopy /\ Done(t) /\ UNCHANGED <<status, active, overtaken>>

\* An informational transfer event: whatever the gate says it is recorded, once.
RecordEvent(id) ==
    /\ events' = events \cup {id}
    /\ UNCHANGED <<status, active, session>>

------------------------------------------------------------------------------
\* The caller's own call: what the provider reports, and inbound_call_webhook().

ProviderReports(r) ==
    /\ r \notin sent
    /\ sent \cap {"completed", "no-answer", "failed"} = {}
    /\ r = "ringing" \/ "ringing" \in sent
    /\ r = "completed" => "in-progress" \in sent
    /\ r = "no-answer" => "in-progress" \notin sent
    /\ sent' = sent \cup {r}
    /\ UNCHANGED <<row, session, leg, destination, threads>>

\* Mutant: the provider's own word for the status is stored.
ReceiveInitiatedRaw ==
    /\ "ringing" \in sent
    /\ events' = events \cup {<<"call", "ringing">>}
    /\ status' = IF status = "none" THEN "queued" ELSE status
    /\ UNCHANGED <<active, session, world, threads>>

\* call.initiated: the row is created once, the partial unique index decides.
ReceiveInitiated ==
    /\ "ringing" \in sent
    /\ events' = events \cup {<<"call", "ringing">>}
    /\ status' = IF status = "none" THEN "ringing" ELSE status
    /\ UNCHANGED <<active, session, world, threads>>

LoadForStatus(r) ==
    /\ r \in sent \ {"ringing"}
    /\ Load(<<"report", r>>)

\* Every later status: recorded, then applied.
ReceiveStatus(r) ==
    /\ <<"call", r>> \notin events
    /\ events' = events \cup {<<"call", r>>}
    /\ Commit(<<"report", r>>, StatusOf(copy[<<"report", r>>], r), StatusOf(Row, r))
    /\ UNCHANGED <<world, threads>>

\* A duplicate delivery, or an illegal transition, which raises and takes the
\* ledger row back with it: nothing is left behind.
RejectStatus(r) ==
    /\ copy[<<"report", r>>] # NoCopy
    /\ <<"call", r>> \in events \/ StatusOf(copy[<<"report", r>>], r) = {}
    /\ Done(<<"report", r>>)
    /\ UNCHANGED <<row, overtaken, world, threads>>

------------------------------------------------------------------------------
\* initiate_transfer()

SetDestination ==
    /\ ~destination
    /\ destination' = TRUE
    /\ UNCHANGED <<row, session, sent, leg, threads>>

InitiatorTo(a, s) ==
    /\ initiator' = [initiator EXCEPT ![a] = s]
    /\ UNCHANGED <<callback, bridgeCalls>>

\* No destination or no such call.
TransferUnavailable(a) ==
    /\ initiator[a] = "idle"
    /\ copy[<<"initiator", a>>] = NoCopy
    /\ ~destination \/ status = "none"
    /\ InitiatorTo(a, "done")
    /\ UNCHANGED <<row, session, world>>

LoadForClaim(a) ==
    /\ initiator[a] = "idle" /\ destination
    /\ Load(<<"initiator", a>>)

\* try_start_transfer_attempt() returned False.
LoseClaim(a) ==
    /\ initiator[a] = "idle"
    /\ copy[<<"initiator", a>>] # NoCopy
    /\ ClaimOf(copy[<<"initiator", a>>], a) = {}
    /\ Done(<<"initiator", a>>)
    /\ InitiatorTo(a, "done")
    /\ UNCHANGED <<row, overtaken, world>>

\* It returned True; its event is recorded whether or not it is a duplicate.
WinClaim(a) ==
    /\ initiator[a] = "idle"
    /\ Commit(<<"initiator", a>>, ClaimOf(copy[<<"initiator", a>>], a), ClaimOf(Row, a))
    /\ events' = events \cup {<<"transfer-requested", RequestOf[a]>>}
    /\ InitiatorTo(a, "creating")
    /\ UNCHANGED world

\* create_consultation_leg() answered: the provider is dialling the human.
CreateLeg(a) ==
    /\ initiator[a] = "creating"
    /\ leg' = [leg EXCEPT ![a] = "dialing"]
    /\ InitiatorTo(a, "created")
    /\ UNCHANGED <<row, session, sent, destination>>

\* It raised: an error response, or a timeout that may have left a leg behind.
CreateLegFails(a) ==
    /\ initiator[a] = "creating"
    /\ leg' \in {leg, [leg EXCEPT ![a] = "dialing"]}
    /\ InitiatorTo(a, "refused")
    /\ UNCHANGED <<row, session, sent, destination>>

LoadForUnavailable(a) ==
    /\ initiator[a] = "refused"
    /\ Load(<<"initiator", a>>)

RecordProviderUnavailable(a) ==
    /\ initiator[a] = "refused"
    /\ ReturnCall(<<"initiator", a>>, <<"provider-unavailable", RequestOf[a]>>, {a})
    /\ InitiatorTo(a, "done")
    /\ UNCHANGED world

RecordConsultationStarted(a) ==
    /\ initiator[a] = "created"
    /\ RecordEvent(<<"transfer-consultation", a>>)
    /\ InitiatorTo(a, "done")
    /\ UNCHANGED world

------------------------------------------------------------------------------
\* The consultation leg, and transfer_events_webhook().

\* The human answers, or the leg ends busy/no-answer/failed/canceled (at the
\* latest when the provider's own ring Timeout expires).
LegResolves(a) ==
    /\ leg[a] = "dialing"
    /\ leg' \in {[leg EXCEPT ![a] = s] : s \in {"answered", "failed"}}
    /\ UNCHANGED <<row, session, sent, destination, threads>>

LoadForLegFailed(a) ==
    /\ leg[a] = "failed"
    /\ Load(<<"leg", a>>)

ReceiveLegFailed(a) ==
    /\ ReturnCall(<<"leg", a>>, <<"leg-failed", a>>, {a})
    /\ UNCHANGED <<world, threads>>

CallbackTo(a, d, from, to) ==
    /\ callback[a][d] = from
    /\ callback' = [callback EXCEPT ![a][d] = to]
    /\ UNCHANGED initiator

\* record_human_answered(), the first transaction of an "in-progress" callback.
ReceiveAnswered(a, d) ==
    /\ leg[a] = "answered"
    /\ CallbackTo(a, d, "idle", "consuming")
    /\ RecordEvent(<<"transfer-answered", a>>)
    /\ UNCHANGED <<world, bridgeCalls>>

\* The consume gate and the closing record each load the row anew.
LoadForCallback(a, d) ==
    /\ callback[a][d] \in {"consuming", "failing", "bridged"}
    /\ Load(<<"callback", a, d>>)

\* try_consume_transfer_attempt_for_bridge() returned True.
WinConsume(a, d) ==
    /\ CallbackTo(a, d, "consuming", "bridging")
    /\ Commit(<<"callback", a, d>>, ConsumeOf(copy[<<"callback", a, d>>], a), ConsumeOf(Row, a))
    /\ UNCHANGED <<events, world, bridgeCalls>>

\* It returned False: the callback is stale, late or a duplicate.
LoseConsume(a, d) ==
    /\ CallbackTo(a, d, "consuming", "done")
    /\ copy[<<"callback", a, d>>] # NoCopy
    /\ ConsumeOf(copy[<<"callback", a, d>>], a) = {}
    /\ Done(<<"callback", a, d>>)
    /\ UNCHANGED <<row, overtaken, world, bridgeCalls>>

\* provider.bridge_call(), which answers or raises TelephonyProviderError.
BridgeCall(a, d) ==
    /\ \E outcome \in {"bridged", "failing"} : CallbackTo(a, d, "bridging", outcome)
    /\ bridgeCalls' = [bridgeCalls EXCEPT ![a] = @ + 1]
    /\ UNCHANGED <<row, session, world>>

\* Mutant: the failure of a consumed attempt is still gated by its id.
RecordBridgeFailureGated(a, d) ==
    /\ CallbackTo(a, d, "failing", "done")
    /\ ReturnCall(<<"callback", a, d>>, <<"bridge-failure", a>>, {a})
    /\ UNCHANGED <<world, bridgeCalls>>

\* The attempt is consumed, so these two are not gated by expected_attempt_id.
RecordBridgeFailure(a, d) ==
    /\ CallbackTo(a, d, "failing", "done")
    /\ ReturnCall(<<"callback", a, d>>, <<"bridge-failure", a>>, {})
    /\ UNCHANGED <<world, bridgeCalls>>

RecordBridged(a, d) ==
    /\ CallbackTo(a, d, "bridged", "exiting")
    /\ ReturnCall(<<"callback", a, d>>, <<"transfer-bridged", a>>, {})
    /\ UNCHANGED <<world, bridgeCalls>>

RecordAiLegRemoved(a, d) ==
    /\ CallbackTo(a, d, "exiting", "done")
    /\ RecordEvent(<<"transfer-ai-exit", a>>)
    /\ UNCHANGED <<world, bridgeCalls>>

------------------------------------------------------------------------------
\* A process dies between two transactions or in one; nothing restarts it.
CrashInitiator(a) ==
    /\ MayCrash
    /\ initiator[a] \in {"creating", "refused", "created"}
    /\ Done(<<"initiator", a>>)
    /\ InitiatorTo(a, "crashed")
    /\ UNCHANGED <<row, overtaken, world>>

CrashCallback(a, d) ==
    /\ MayCrash
    /\ callback[a][d] \notin {"idle", "done", "crashed"}
    /\ CallbackTo(a, d, callback[a][d], "crashed")
    /\ Done(<<"callback", a, d>>)
    /\ UNCHANGED <<row, overtaken, world, bridgeCalls>>

CallStep ==
    \/ ReceiveInitiated
    \/ SetDestination
    \/ \E r \in Reports :
          ProviderReports(r) \/ LoadForStatus(r) \/ ReceiveStatus(r) \/ RejectStatus(r)

InitiatorStep(a) ==
    \/ CreateLeg(a) \/ CreateLegFails(a)
    \/ LoadForUnavailable(a) \/ RecordProviderUnavailable(a)
    \/ RecordConsultationStarted(a)

LegStep(a) == LoadForLegFailed(a) \/ ReceiveLegFailed(a)

CallbackStep(a, d) ==
    \/ LoadForCallback(a, d)
    \/ WinConsume(a, d) \/ LoseConsume(a, d)
    \/ BridgeCall(a, d)
    \/ RecordBridgeFailure(a, d) \/ RecordBridged(a, d) \/ RecordAiLegRemoved(a, d)

AttemptStep(a) ==
    \/ TransferUnavailable(a) \/ LoadForClaim(a) \/ LoseClaim(a) \/ WinClaim(a)
    \/ InitiatorStep(a) \/ CrashInitiator(a)
    \/ LegResolves(a) \/ LegStep(a)
    \/ \E d \in Deliveries :
          ReceiveAnswered(a, d) \/ CallbackStep(a, d) \/ CrashCallback(a, d)

Next == CallStep \/ \E a \in Attempts : AttemptStep(a)

Spec == Init /\ [][Next]_vars

(***************************************************************************)
(* Fairness: a running thread takes its next step (the provider client has *)
(* a request timeout), the provider resolves a dialling leg (its ring      *)
(* timeout), and each leg callback is delivered at least once.             *)
(***************************************************************************)
Fairness ==
    \A a \in Attempts :
        /\ WF_vars(InitiatorStep(a))
        /\ WF_vars(LegResolves(a))
        /\ WF_vars(LegStep(a))
        /\ \A d \in Deliveries : /\ WF_vars(ReceiveAnswered(a, d))
                                 /\ WF_vars(CallbackStep(a, d))

FairSpec == Spec /\ Fairness

------------------------------------------------------------------------------
Consumed(a) == {d \in Deliveries : callback[a][d] \in {"bridging", "bridged", "failing"}}

\* The attempts that may still act on the caller at the provider: those whose
\* claim was granted and not yet closed, and those between the consume gate and
\* their closing record.
Holders == {a \in Attempts : (status = "transferring" /\ active = a) \/ Consumed(a) # {}}

------------------------------------------------------------------------------
\* What the code's own comments promise, and two transactions that load the row
\* before either commits break: the first as it stands, the other three with it.

\* calls.py:32 "Two concurrent provider events for the same call are serialized by
\* Postgres's own row lock": no transaction does other than the row it locked, as
\* it is by then, would have had it do.
RowLockSerializes == ~overtaken

\* calls.py:707 "Returns True only if, atomically under the row lock, this call
\* was found in STATUS_IN_PROGRESS with no already-active transfer attempt": an
\* attempt never takes the row from another that was granted it.
ClaimsExclude ==
    [][\A a, b \in Attempts : (active = a /\ active' = b) => a = b]_vars

\* calls.py:762 "so no concurrent or later callback for this same attempt can
\* also pass this check": the real bridge_call() runs at most once per attempt.
BridgedAtMostOnce == \A a \in Attempts : bridgeCalls[a] <= 1

\* calls.py:608 "so a late callback can never resurrect a terminal call".
TerminalForever ==
    [][(status \in Terminal) => UNCHANGED status]_vars

------------------------------------------------------------------------------
\* What holds whatever overtakes what.

\* The deliveries that will bridge, or have loaded a row that lets them.
MayBridge(a) == {d \in Deliveries :
    \/ callback[a][d] = "bridging"
    \/ callback[a][d] = "consuming" /\ ConsumeOf(copy[<<"callback", a, d>>], a) # {}}

\* An attempt that bridged has lost the row for good: once the deliveries that
\* loaded it before the consume are through, no duplicate, however late, bridges
\* again (transfer.py bridge_transfer).
BridgeSettles ==
    [][\A a \in Attempts :
          bridgeCalls[a] > 0 /\ MayBridge(a) = {} =>
             bridgeCalls'[a] = bridgeCalls[a] /\ MayBridge(a)' = {}]_vars

\* The call has ended, and no transaction is open that loaded it before.
Ended == /\ status \in Terminal
         /\ \A t \in Transactions : copy[t] = NoCopy \/ copy[t].status \in Terminal

\* Once the transactions that were open when the call ended are through, no
\* callback of the call or of a leg resurrects it (calls.py _ALLOWED_TRANSITIONS).
EndedForGood == [][Ended => Ended' /\ UNCHANGED status]_vars

------------------------------------------------------------------------------
\* What holds until a transaction is overtaken: as long as none has decided on
\* its copy what the row it locked would have forbidden.

\* At most one attempt, and one delivery of its callback, is ever between a won
\* gate and its closing record, whatever retries, duplicates and crashes there
\* are, and it bridges once (calls.py try_start_transfer_attempt,
\* try_consume_transfer_attempt_for_bridge).
OneHolder ==
    overtaken \/ /\ \A a, b \in Holders : a = b
                 /\ \A a \in Attempts : \A d, e \in Consumed(a) : d = e
                 /\ BridgedAtMostOnce

\* While a bridge is in flight the row waits for it: still transferring and owned
\* by nobody, or the call has ended.  No new transfer can start meanwhile.
BridgeHoldsTheCall ==
    (\E a \in Attempts : Consumed(a) # {}) =>
        \/ overtaken
        \/ status = "transferring" /\ active = NoAttempt
        \/ status \in Terminal

\* An attempt loses the row only by its own doing -- its leg failed, its provider
\* call failed, or its own callback consumed it; a callback of another attempt
\* never closes it (apply_call_transfer_event's stale-attempt gate).
OnlyOwnActorsRelease ==
    [][\A a \in Attempts : active = a /\ active' # a =>
          \/ overtaken'
          \/ leg[a] = "failed"
          \/ initiator[a] = "refused"
          \/ \E d \in Deliveries : callback[a][d] = "consuming"]_vars

\* Every transfer ends: the call is back with the AI, bridged or over.
TransferResolves == (status = "transferring") ~> (status # "transferring" \/ overtaken)

------------------------------------------------------------------------------
\* The refinement: the right of each attempt, read off the row and the threads.

Line == CASE status \in {"none", "ringing"} -> "setup"
          [] status \in Terminal -> "ended"
          [] OTHER -> "up"

Right == [a \in Attempts |->
    IF initiator[a] = "idle" THEN "fresh"
    ELSE IF status = "transferring" /\ active = a THEN "claimed"
    ELSE IF Consumed(a) # {} THEN "bridging"
    ELSE "spent"]

Ownership == INSTANCE TransferOwnership WITH line <- Line, right <- Right, broken <- overtaken
OwnershipSpec == Ownership!ASpec
=============================================================================
