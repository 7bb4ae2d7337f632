---------------------------- MODULE PhoneSession ----------------------------
(***************************************************************************)
(* One phone call with the receptionist: product/telephony/call_session.py *)
(* (a session's turns, in memory) and product/call_action_safety.py (the   *)
(* safe execution of an action for the active turn, whose idempotency      *)
(* records are in the database).                                           *)
(*                                                                         *)
(* The session lives in one event loop: execute_phone_action() runs        *)
(* without interruption up to its await of the tool, and again after it.   *)
(* What drives a session is not in the repository, so its methods and the  *)
(* deliveries of a request come in any order.  The process may die at      *)
(* every await and before each of the last two writes.                     *)
(*                                                                         *)
(* The registry holds one tool, of tier 0: the decision of an execution is *)
(* "attempt" or "decline", and no proposal waits for an approval.          *)
(***************************************************************************)
EXTENDS Integers, Sequences, FiniteSets

CONSTANTS
  Turns,        \* the turns a session may start
  MaxTurns,     \* MAX_TURNS_PER_SESSION
  Deliveries    \* calls of execute_phone_action(), retries included

VARIABLES
  session,      \* the turns and which one is active: CallSession
  sessionLost,  \* the process that held the session died
  granted,      \* the receptionist's role may read calendars
  reservation,  \* the idempotency record of each turn's request
  invoked,      \* how often the tool ran for a turn
  turnAudit,    \* the audit records of a turn, in order
  delivery      \* each execution: where it is and what it answered

phoneVars ==
  <<session, sessionLost, granted, reservation, invoked, turnAudit, delivery>>

None == "none"
Decisions == {"attempt", "clarify", "escalate", "decline"}

PendingState ==
  [attempt  |-> "action_pending", clarify |-> "clarification_pending",
   escalate |-> "escalation_pending", decline |-> "declined"]
PendingStates == {PendingState[d] : d \in Decisions}

AllowedMoves ==
  [s \in {"received", "interpreted", "decided", "completed"} \cup PendingStates |->
     CASE s = "received"         -> {"interpreted"}
       [] s = "interpreted"      -> {"decided"}
       [] s = "decided"          -> PendingStates
       [] s \in PendingStates    -> {"completed"}
       [] s = "completed"        -> {}]

ASSUME PhoneAssumption == MaxTurns \in Nat /\ None \notin Turns

-----------------------------------------------------------------------------
(* What a model's completion may be: a decision, in or out of the          *)
(* vocabulary, and the text that goes with it.                             *)

Completions ==
  [says : Decisions \cup {"unparsable"}, text : {"absent", "bounded", "too long"}]

WellFormed(c) ==
  /\ c.says \in Decisions
  /\ c.says \in {"clarify", "decline"} => c.text = "bounded"

Kept(c) == IF c.says \in {"clarify", "decline"} THEN c.text ELSE "absent"

-----------------------------------------------------------------------------
(* CallSession.                                                            *)

Started == {t \in Turns : session.turns[t].state # "unborn"}

\* Mutant: a turn that is already past the state it is asked for is taken up again.
RefusesOnlyOthers(s, t, target) ==
  LET now == s.turns[t].state IN
  /\ now # target
  /\ t # s.active

Refuses(s, t, target) ==
  LET now == s.turns[t].state IN
  /\ now # target
  /\ t = s.active => target \notin AllowedMoves[now]

Transition(s, t, target) ==
  [s EXCEPT !.turns[t].state = target,
            !.active = IF t = @ /\ target = "completed" THEN None ELSE @]

StartTurn(t) ==
  /\ ~sessionLost
  /\ session.active = None
  /\ Cardinality(Started) < MaxTurns
  /\ t \notin Started
  /\ session' = [session EXCEPT !.turns[t].state = "received", !.active = t]
  /\ UNCHANGED <<sessionLost, granted, reservation, invoked, turnAudit, delivery>>

Mark(t, target) ==
  /\ ~sessionLost /\ t \in Started
  /\ ~Refuses(session, t, target)
  /\ session' = Transition(session, t, target)
  /\ UNCHANGED <<sessionLost, granted, reservation, invoked, turnAudit, delivery>>

\* The session after apply_decision() of a well-formed completion.
Applied(s, t, c) ==
  [Transition(s, t, PendingState[c.says]) EXCEPT
     !.turns[t].decision = c.says, !.turns[t].text = Kept(c)]

ApplyDecision(t, c) ==
  /\ ~sessionLost /\ t \in Started
  /\ WellFormed(c)
  /\ ~Refuses(session, t, PendingState[c.says])
  /\ session' = Applied(session, t, c)
  /\ UNCHANGED <<sessionLost, granted, reservation, invoked, turnAudit, delivery>>

MayCorrelate(s, t) == t = s.active

-----------------------------------------------------------------------------
(* The permission ensure_phone_safe_permissions() grants the receptionist, *)
(* and its removal by an administrator.                                    *)

EnsurePhoneSafePermissions ==
  /\ ~granted /\ granted' = TRUE
  /\ UNCHANGED <<session, sessionLost, reservation, invoked, turnAudit, delivery>>

PermissionTakenAway ==
  /\ granted /\ granted' = FALSE
  /\ UNCHANGED <<session, sessionLost, reservation, invoked, turnAudit, delivery>>

-----------------------------------------------------------------------------
(* core.idempotency: a record that is pending refuses, one that succeeded  *)
(* answers, one that failed or has been pending for too long is taken      *)
(* again.                                                                  *)

CanReserve(t) == reservation[t].status \in {None, "failed", "stale"}

PendingExpires(t) ==
  /\ reservation[t].status = "pending"
  /\ reservation' = [reservation EXCEPT ![t].status = "stale"]
  /\ UNCHANGED <<session, sessionLost, granted, invoked, turnAudit, delivery>>

-----------------------------------------------------------------------------
(* execute_phone_action().                                                 *)

AuditOf(s, t, word) ==
  [action |-> word, decision |-> s.turns[t].decision, correlated |-> s.turns[t].correlated]

Answered(e, t, word) == delivery' = [delivery EXCEPT ![e] = [at |-> "done", turn |-> t, answer |-> word]]

Prepared(t) == Transition(Transition(session, t, "interpreted"), t, "decided")
Declined(t) == Applied(Prepared(t), t, [says |-> "decline", text |-> "bounded"])
Attempted(t) == Applied(Prepared(t), t, [says |-> "attempt", text |-> "absent"])

CanBegin(e, t) == ~sessionLost /\ delivery[e].at = "idle" /\ t \in Started

\* The turn has passed the point where it can be prepared: the call raises,
\* after the record was reserved when the tool is an allowed one.
PrepareRefused(e, t) ==
  /\ CanBegin(e, t) /\ Refuses(session, t, "interpreted")
  /\ \/ UNCHANGED reservation
     \/ CanReserve(t) /\ reservation' = [reservation EXCEPT ![t].status = "pending"]
  /\ Answered(e, t, "refused")
  /\ UNCHANGED <<session, sessionLost, granted, invoked, turnAudit>>

NotAllowlisted(e, t) ==
  /\ CanBegin(e, t) /\ ~Refuses(session, t, "interpreted")
  /\ session' = Transition(Declined(t), t, "completed")
  /\ turnAudit' = [turnAudit EXCEPT ![t] = Append(@, AuditOf(Declined(t), t, "declined"))]
  /\ Answered(e, t, "declined")
  /\ UNCHANGED <<sessionLost, granted, reservation, invoked>>

StillInProgress(e, t) ==
  /\ CanBegin(e, t) /\ reservation[t].status = "pending"
  /\ Answered(e, t, "in progress")
  /\ UNCHANGED <<session, sessionLost, granted, reservation, invoked, turnAudit>>

Replay(e, t) ==
  /\ CanBegin(e, t) /\ reservation[t].status = "succeeded"
  /\ Answered(e, t, "success")
  /\ UNCHANGED <<session, sessionLost, granted, reservation, invoked, turnAudit>>

\* Not authorised: the turn is declined, the record and the audit are written.
DeclineUnauthorized(e, t) ==
  /\ CanBegin(e, t) /\ CanReserve(t) /\ ~Refuses(session, t, "interpreted") /\ ~granted
  /\ session' = Transition(Declined(t), t, "completed")
  /\ reservation' = [reservation EXCEPT ![t].status = "failed"]
  /\ turnAudit' = [turnAudit EXCEPT ![t] = Append(@, AuditOf(Declined(t), t, "denied"))]
  /\ Answered(e, t, "denied")
  /\ UNCHANGED <<sessionLost, granted, invoked>>

\* Everything up to the await of invoke_product_ai_tool().
Attempt(e, t) ==
  /\ CanBegin(e, t) /\ CanReserve(t) /\ ~Refuses(session, t, "interpreted") /\ granted
  /\ session' = Attempted(t)
  /\ reservation' = [reservation EXCEPT ![t].status = "pending"]
  /\ delivery' = [delivery EXCEPT ![e] = [at |-> "awaiting", turn |-> t, answer |-> None]]
  /\ UNCHANGED <<sessionLost, granted, invoked, turnAudit>>

\* The tool's own check of the permission, and its run.
ToolAnswers(e) ==
  LET t == delivery[e].turn IN
  /\ ~sessionLost /\ delivery[e].at = "awaiting"
  /\ \E word \in {"denied", "error", "success"} :
       /\ (word = "denied") = ~granted
       /\ delivery' = [delivery EXCEPT ![e].at = "returned", ![e].answer = word]
       /\ invoked' = [invoked EXCEPT ![t] = @ + (IF word = "denied" THEN 0 ELSE 1)]
  /\ UNCHANGED <<session, sessionLost, granted, reservation, turnAudit>>

\* The last writes of a run, of which the process may live to do the first
\* `written`: the record, then the audit.
Finish(t, s, status, word) ==
  \E written \in 0..2 :
    /\ reservation' = IF written < 1 THEN reservation
                      ELSE [reservation EXCEPT ![t] = [status |-> status,
                                                        decision |-> s.turns[t].decision]]
    /\ turnAudit' = IF written < 2 THEN turnAudit
                    ELSE [turnAudit EXCEPT ![t] = Append(@, AuditOf(s, t, word))]
    /\ sessionLost' = (written < 2)

ResumeFailed(e) ==
  LET t == delivery[e].turn
      s == Transition(session, t, "completed") IN
  /\ ~sessionLost /\ delivery[e].at = "returned" /\ delivery[e].answer \in {"denied", "error"}
  /\ ~Refuses(session, t, "completed")
  /\ session' = s
  /\ Finish(t, s, "failed", IF delivery[e].answer = "denied" THEN "denied" ELSE "failed")
  /\ Answered(e, t, delivery[e].answer)
  /\ UNCHANGED <<granted, invoked>>

\* Mutant: the record is finalized although the turn was completed meanwhile.
ResumeSucceededAnyway(e) ==
  LET t == delivery[e].turn IN
  /\ ~sessionLost /\ delivery[e].at = "returned" /\ delivery[e].answer = "success"
  /\ session' = session
  /\ Finish(t, session, "succeeded", "succeeded")
  /\ Answered(e, t, "success")
  /\ UNCHANGED <<granted, invoked>>

ResumeSucceeded(e) ==
  LET t == delivery[e].turn
      s == [Transition(session, t, "completed") EXCEPT !.turns[t].correlated = TRUE] IN
  /\ ~sessionLost /\ delivery[e].at = "returned" /\ delivery[e].answer = "success"
  /\ MayCorrelate(session, t)
  /\ ~Refuses(session, t, "completed")
  /\ session' = s
  /\ Finish(t, s, "succeeded", "succeeded")
  /\ Answered(e, t, "success")
  /\ UNCHANGED <<granted, invoked>>

\* The turn was completed while the tool ran: the correlation is refused and
\* the call raises with its record pending.
ResumeRefused(e) ==
  LET t == delivery[e].turn IN
  /\ ~sessionLost /\ delivery[e].at = "returned" /\ delivery[e].answer = "success"
  /\ ~MayCorrelate(session, t)
  /\ Answered(e, t, "refused")
  /\ UNCHANGED <<session, sessionLost, granted, reservation, invoked, turnAudit>>

ProcessDies ==
  /\ ~sessionLost /\ \E e \in Deliveries : delivery[e].at \in {"awaiting", "returned"}
  /\ sessionLost' = TRUE
  /\ UNCHANGED <<session, granted, reservation, invoked, turnAudit, delivery>>

-----------------------------------------------------------------------------
PhoneInit ==
  /\ session = [turns |-> [t \in Turns |-> [state |-> "unborn", decision |-> None,
                                            text |-> "absent", correlated |-> FALSE]],
                active |-> None]
  /\ sessionLost = FALSE /\ granted \in BOOLEAN
  /\ reservation = [t \in Turns |-> [status |-> None, decision |-> None]]
  /\ invoked = [t \in Turns |-> 0]
  /\ turnAudit = [t \in Turns |-> <<>>]
  /\ delivery = [e \in Deliveries |-> [at |-> "idle", turn |-> None, answer |-> None]]

PhoneNext ==
  \/ \E t \in Turns :
       \/ StartTurn(t)
       \/ \E target \in {"interpreted", "decided", "completed"} : Mark(t, target)
       \/ \E c \in Completions : ApplyDecision(t, c)
       \/ PendingExpires(t)
       \/ \E e \in Deliveries :
            \/ PrepareRefused(e, t) \/ NotAllowlisted(e, t) \/ StillInProgress(e, t)
            \/ Replay(e, t) \/ DeclineUnauthorized(e, t) \/ Attempt(e, t)
  \/ \E e \in Deliveries :
       ToolAnswers(e) \/ ResumeFailed(e) \/ ResumeSucceeded(e) \/ ResumeRefused(e)
  \/ EnsurePhoneSafePermissions
  \/ PermissionTakenAway
  \/ ProcessDies

-----------------------------------------------------------------------------
(* The session's shape: the active turn is the one that is not over, and a *)
(* turn that waits does so with the decision, and the bounded text, it was *)
(* given: call_session.py.                                                 *)
PhoneTypeOK ==
  /\ session.active \in Turns \cup {None}
  /\ Cardinality(Started) <= MaxTurns
  /\ \A t \in Turns :
       LET now == session.turns[t] IN
       /\ now.state \in {"unborn", "completed", "received", "interpreted", "decided"} \cup PendingStates
       /\ now.state \in PendingStates =>
            now.decision \in Decisions /\ now.state = PendingState[now.decision]
       /\ now.decision \in {"clarify", "decline"} <=> now.text = "bounded"
       /\ now.text \in {"absent", "bounded"}
       /\ reservation[t].status \in {None, "pending", "stale", "failed", "succeeded"}

(* At any time one turn of a session is under way, whatever is delivered   *)
(* late, twice or out of order.                                            *)
OneTurnUnderWay ==
  \A t \in Started : (session.turns[t].state # "completed") = (session.active = t)

(* The tool runs at most once for a turn, through retries, an expired      *)
(* reservation and failures: the session refuses what the idempotency      *)
(* record would let through.                                               *)
InvokedOncePerTurn == \A t \in Turns : invoked[t] <= 1

(* An answer that is stored for replay is the answer of the turn: the tool *)
(* ran, the turn ended by attempting, and it names the invocation.         *)
StoredAnswerIsTheTurns ==
  \A t \in Turns :
    reservation[t].status = "succeeded" =>
      /\ session.turns[t] = [state |-> "completed", decision |-> "attempt",
                             text |-> "absent", correlated |-> TRUE]
      /\ reservation[t].decision = "attempt"
      /\ invoked[t] = 1

(* A turn leaves at most one record in the audit trail, and a record of    *)
(* success names its invocation.                                           *)
AuditedOnce ==
  \A t \in Turns :
    /\ Len(turnAudit[t]) <= 1
    /\ \A i \in 1..Len(turnAudit[t]) :
         (turnAudit[t][i].action = "succeeded") = turnAudit[t][i].correlated

(* A turn that is over stays as it ended: no late result, retry or         *)
(* duplicate changes its decision or attaches an invocation to it.         *)
OverIsOver ==
  \A t \in Turns :
    session.turns[t].state = "completed" => session'.turns[t] = session.turns[t]

\* Requests of the receptionist delivered twice, late or concurrently run the
\* tool once for a turn and store that turn's answer alone; one turn is under way
\* at a time and one that is over never changes
\* (call_session.py, call_action_safety.py).
TurnsAnsweredOnce ==
    /\ [](/\ PhoneTypeOK
          /\ OneTurnUnderWay
          /\ InvokedOncePerTurn
          /\ StoredAnswerIsTheTurns
          /\ AuditedOnce)
    /\ [][OverIsOver]_phoneVars
=============================================================================
