----------------------------- MODULE PhoneDesk -----------------------------
(***************************************************************************)
(* What surrounds a tenant's calls in product/telephony: the numbers it    *)
(* buys and the users they ring (numbers.py), the choice of the user an    *)
(* inbound call goes to (routing.py), the calls it places (calls.py) and   *)
(* the recordings it keeps for a time (recordings.py).                     *)
(*                                                                         *)
(* A service function is one or more transactions with calls of the        *)
(* provider or of the object storage between them; the process may die at  *)
(* each of these.                                                          *)
(***************************************************************************)
EXTENDS Integers, FiniteSets

CONSTANTS
  Numbers, Users,
  MaxTargets,    \* MAX_ROUTING_TARGETS
  Adders,        \* calls of add_routing_target()
  Arrivals,      \* call.initiated events, each of a call of its own
  Dials,         \* calls of initiate_outbound_call()
  Tapes,         \* recordings
  LastDay        \* the end of the days a run looks at

ASSUME DeskAssumption == MaxTargets \in Nat /\ LastDay \in Nat

VARIABLES
  number,        \* "free", "bought" at the provider, or the row's status
  target,        \* the rows of phone_number_routing_targets
  adder,         \* the requests to add one
  arrival,       \* the inbound calls: the start of their transaction, the rows it holds
  locked,        \* the numbers whose target rows a router holds
  dial,          \* the outbound calls and the requests that place them
  tape,          \* the recordings: audio in storage, row, and the request
  day            \* the clock of the retention

deskVars == <<number, target, adder, arrival, locked, dial, tape, day>>
linesVars == <<number, target, adder, arrival, locked>>

NoUser == "none"
Max0(S) == IF S = {} THEN 0 ELSE CHOOSE x \in S : \A y \in S : y <= x

HasRow(n) == number[n] \in {"active", "released"}

-----------------------------------------------------------------------------
(* numbers.py.                                                             *)

ProviderSells(n) ==
  /\ number[n] = "free"
  /\ number' = [number EXCEPT ![n] = "bought"]
  /\ UNCHANGED <<target, adder, arrival, locked, dial, tape, day>>

ProvisionPhoneNumber(n) ==
  /\ number[n] = "bought"
  /\ number' = [number EXCEPT ![n] = "active"]
  /\ UNCHANGED <<target, adder, arrival, locked, dial, tape, day>>

\* The row stays, and so do its targets; the provider is not told.
ReleasePhoneNumber(n) ==
  /\ HasRow(n)
  /\ number' = [number EXCEPT ![n] = "released"]
  /\ UNCHANGED <<target, adder, arrival, locked, dial, tape, day>>

TargetsOf(n) == {t \in target : t.number = n}

\* The transaction of add_routing_target() reads how many targets there are.
CountTargets(a, n, u) ==
  /\ adder[a].at = "idle" /\ HasRow(n)
  /\ Cardinality(TargetsOf(n)) < MaxTargets
  /\ adder' = [adder EXCEPT ![a] = [at |-> "counted", number |-> n, user |-> u,
                                    count |-> Cardinality(TargetsOf(n))]]
  /\ UNCHANGED <<number, target, arrival, locked, dial, tape, day>>

\* uq_telephony_routing_targets_tenant_number_position and ..._number_user.
TargetAdmitted(n, u, position) ==
  \A t \in TargetsOf(n) : t.user # u /\ t.position # position

InsertTarget(a) ==
  LET r == adder[a] IN
  /\ r.at = "counted"
  /\ adder' = [adder EXCEPT ![a].at = "done"]
  /\ target' = IF TargetAdmitted(r.number, r.user, r.count)
               THEN target \cup {[number |-> r.number, user |-> r.user, position |-> r.count]}
               ELSE target
  /\ UNCHANGED <<number, arrival, locked, dial, tape, day>>

-----------------------------------------------------------------------------
(* routing.py, within the transaction that inserts the call.               *)

Routed(n) == {c \in Arrivals : arrival[c].at = "done" /\ arrival[c].number = n}

CallArrives(c, n) ==
  /\ arrival[c].at = "idle" /\ HasRow(n)
  /\ arrival' = [arrival EXCEPT ![c] =
       [at |-> "begun", number |-> n, user |-> NoUser, holds |-> 0,
        since |-> 1 + Max0({arrival[x].since : x \in Arrivals})]]
  /\ UNCHANGED <<number, target, adder, locked, dial, tape, day>>

LastAssigned(n, u) == Max0({arrival[c].since : c \in {x \in Routed(n) : arrival[x].user = u}})

\* The least recently assigned target, a user without a call before the others.
ChosenTarget(n) ==
  CHOOSE t \in TargetsOf(n) : \A o \in TargetsOf(n) :
    \/ LastAssigned(n, t.user) < LastAssigned(n, o.user)
    \/ LastAssigned(n, t.user) = LastAssigned(n, o.user) /\ t.position <= o.position

\* Mutant: the rows of the targets are read without FOR UPDATE.
MayLockAlways(n) == TRUE

MayLock(n) == n \notin locked

RouteInboundCall(c) ==
  LET n == arrival[c].number IN
  /\ arrival[c].at = "begun"
  /\ TargetsOf(n) # {} => MayLock(n)
  /\ IF TargetsOf(n) = {}
     THEN arrival' = [arrival EXCEPT ![c].at = "done"] /\ UNCHANGED locked
     ELSE /\ arrival' = [arrival EXCEPT ![c].at = "locking", ![c].user = ChosenTarget(n).user,
                                        ![c].holds = Cardinality(TargetsOf(n))]
          /\ locked' = locked \cup {n}
  /\ UNCHANGED <<number, target, adder, dial, tape, day>>

CommitInboundCall(c) ==
  /\ arrival[c].at = "locking"
  /\ arrival' = [arrival EXCEPT ![c].at = "done"]
  /\ locked' = locked \ {arrival[c].number}
  /\ UNCHANGED <<number, target, adder, dial, tape, day>>

LinesNext ==
  \/ \E n \in Numbers : ProviderSells(n) \/ ProvisionPhoneNumber(n) \/ ReleasePhoneNumber(n)
  \/ \E a \in Adders :
       InsertTarget(a) \/ \E n \in Numbers, u \in Users : CountTargets(a, n, u)
  \/ \E c \in Arrivals :
       \/ \E n \in Numbers : CallArrives(c, n)
       \/ RouteInboundCall(c)
       \/ CommitInboundCall(c)

-----------------------------------------------------------------------------
(* initiate_outbound_call(): a row, the provider, the row again.  A call   *)
(* to one of the tenant's own numbers comes back as an inbound event with  *)
(* the same provider_call_id.                                              *)

InsertOutboundCall(d) ==
  /\ dial[d].at = "idle"
  /\ dial' = [dial EXCEPT ![d].at = "placing", ![d].status = "ringing"]
  /\ UNCHANGED <<linesVars, tape, day>>

\* "lost": the provider took the call and its answer timed out.
PlaceCall(d) ==
  /\ dial[d].at = "placing"
  /\ \E answer \in {"accepted", "refused", "lost"} :
       dial' = [dial EXCEPT ![d].at = "answered", ![d].provider = answer]
  /\ UNCHANGED <<linesVars, tape, day>>

OwnNumberRings(d) ==
  /\ dial[d].provider \in {"accepted", "lost"}
  /\ ~dial[d].named /\ ~dial[d].inbound
  /\ dial' = [dial EXCEPT ![d].inbound = TRUE]
  /\ UNCHANGED <<linesVars, tape, day>>

RecordFailure(d) ==
  /\ dial[d].at = "answered" /\ dial[d].provider \in {"refused", "lost"}
  /\ dial' = [dial EXCEPT ![d].at = "done", ![d].status = "failed"]
  /\ UNCHANGED <<linesVars, tape, day>>

\* Mutant: whatever goes wrong after the provider was asked counts as its failure.
RecordPlacedOrFailed(d) ==
  /\ dial[d].at = "answered" /\ dial[d].provider = "accepted"
  /\ dial' = [dial EXCEPT ![d].at = "done",
                          ![d].named = ~dial[d].inbound,
                          ![d].status = IF dial[d].inbound THEN "failed" ELSE @]
  /\ UNCHANGED <<linesVars, tape, day>>

\* The unique index on provider_call_id refuses it when the inbound row came first.
RecordPlaced(d) ==
  /\ dial[d].at = "answered" /\ dial[d].provider = "accepted"
  /\ dial' = [dial EXCEPT ![d].at = "done", ![d].named = ~dial[d].inbound]
  /\ UNCHANGED <<linesVars, tape, day>>

DialerDies(d) ==
  /\ dial[d].at \in {"placing", "answered"}
  /\ dial' = [dial EXCEPT ![d].at = "dead"]
  /\ UNCHANGED <<linesVars, tape, day>>

DialsNext ==
  \E d \in Dials :
    \/ InsertOutboundCall(d) \/ PlaceCall(d) \/ OwnNumberRings(d)
    \/ RecordFailure(d) \/ RecordPlaced(d) \/ DialerDies(d)

-----------------------------------------------------------------------------
(* recordings.py: store_call_recording() puts the audio and then inserts   *)
(* the row, purge_expired_recordings() deletes the audio of every expired  *)
(* row and then the rows.                                                  *)

PutObject(r) ==
  /\ tape[r].at = "idle"
  /\ \E until \in 1..LastDay :
       tape' = [tape EXCEPT ![r] = [at |-> "put", audio |-> TRUE, row |-> FALSE,
                                    until |-> until, sweep |-> FALSE]]
  /\ UNCHANGED <<linesVars, dial, day>>

InsertRecording(r) ==
  /\ tape[r].at = "put"
  /\ tape' = [tape EXCEPT ![r].at = "stored", ![r].row = TRUE]
  /\ UNCHANGED <<linesVars, dial, day>>

StorerDies(r) ==
  /\ tape[r].at = "put"
  /\ tape' = [tape EXCEPT ![r].at = "orphaned"]
  /\ UNCHANGED <<linesVars, dial, day>>

Expired(r) == tape[r].row /\ tape[r].until <= day

\* The sweep reads the expired rows.
BeginSweep ==
  /\ \A r \in Tapes : ~tape[r].sweep
  /\ \E r \in Tapes : Expired(r)
  /\ tape' = [r \in Tapes |-> [tape[r] EXCEPT !.sweep = Expired(r)]]
  /\ UNCHANGED <<linesVars, dial, day>>

DeleteObject(r) ==
  /\ tape[r].sweep /\ tape[r].audio
  /\ tape' = [tape EXCEPT ![r].audio = FALSE]
  /\ UNCHANGED <<linesVars, dial, day>>

DeleteRecordings ==
  /\ \E r \in Tapes : tape[r].sweep
  /\ \A r \in Tapes : tape[r].sweep => ~tape[r].audio
  /\ tape' = [r \in Tapes |-> IF tape[r].sweep
                              THEN [tape[r] EXCEPT !.row = FALSE, !.sweep = FALSE] ELSE tape[r]]
  /\ UNCHANGED <<linesVars, dial, day>>

\* The storage refuses a deletion, or the process dies: the rows are rolled back.
SweepFails ==
  /\ \E r \in Tapes : tape[r].sweep
  /\ tape' = [r \in Tapes |-> [tape[r] EXCEPT !.sweep = FALSE]]
  /\ UNCHANGED <<linesVars, dial, day>>

DayPasses == day < LastDay /\ day' = day + 1 /\ UNCHANGED <<linesVars, dial, tape>>

TapesNext ==
  \/ \E r \in Tapes : PutObject(r) \/ InsertRecording(r) \/ StorerDies(r) \/ DeleteObject(r)
  \/ BeginSweep \/ DeleteRecordings \/ SweepFails \/ DayPasses

-----------------------------------------------------------------------------
DeskInit ==
  /\ number = [n \in Numbers |-> "free"] /\ target = {}
  /\ adder = [a \in Adders |-> [at |-> "idle", number |-> NoUser, user |-> NoUser, count |-> 0]]
  /\ arrival = [c \in Arrivals |-> [at |-> "idle", number |-> NoUser, user |-> NoUser,
                                    holds |-> 0, since |-> 0]]
  /\ locked = {}
  /\ dial = [d \in Dials |-> [at |-> "idle", status |-> NoUser, provider |-> NoUser,
                              named |-> FALSE, inbound |-> FALSE]]
  /\ tape = [r \in Tapes |-> [at |-> "idle", audio |-> FALSE, row |-> FALSE,
                              until |-> 1, sweep |-> FALSE]]
  /\ day = 0

-----------------------------------------------------------------------------
(* The positions of a number's targets are 0, 1, 2, ... without a gap and  *)
(* within the bound, although the count they come from is read without a   *)
(* lock: a loser of the race is refused by the unique index.               *)
PositionsDense ==
  \A n \in Numbers :
    /\ {t.position : t \in TargetsOf(n)} = 0 .. Cardinality(TargetsOf(n)) - 1
    /\ Cardinality(TargetsOf(n)) <= MaxTargets

(* Two calls that arrive together do not go to one user while another has  *)
(* had none: when a user is given a second call, every target whose row    *)
(* the router locked has had a first.                                      *)
NobodyPassedOver ==
  \A c \in Arrivals :
    LET n == arrival[c].number IN
    (/\ arrival[c].at = "locking" /\ arrival'[c].at = "done"
     /\ \E x \in Routed(n) : arrival[x].user = arrival[c].user) =>
       \A t \in TargetsOf(n) : t.position < arrival[c].holds => LastAssigned(n, t.user) > 0

(* The call history does not contradict the provider: a call is marked     *)
(* failed only when the provider refused it or its answer was lost, and a  *)
(* call it accepted is named by a row unless the process died.             *)
CallsAccountedFor ==
  \A d \in Dials :
    /\ dial[d].status = "failed" => dial[d].provider \in {"refused", "lost"}
    /\ (dial[d].at = "done" /\ dial[d].provider = "accepted") => (dial[d].named \/ dial[d].inbound)
    /\ ~(dial[d].named /\ dial[d].inbound)

(* A recording whose retention has not run out can be played.              *)
UnexpiredIsPlayable ==
  \A r \in Tapes : (tape[r].row /\ tape[r].until > day) => tape[r].audio

(* Audio that outlives its row is never left behind by a sweep: only a     *)
(* process that died while storing leaves audio no row names.              *)
NoAudioWithoutRow ==
  \A r \in Tapes : (tape[r].audio /\ ~tape[r].row) => tape[r].at \in {"put", "orphaned"}

\* However calls to one number, changes of its targets, outbound calls and
\* sweeps of the recordings overlap: positions stay dense, nobody who may be
\* called is passed over, no call is lost between the provider and its row, and
\* audio and row of a recording live and die together
\* (routing.py, calls.py, recordings.py).
DeskAccounts ==
    /\ [](/\ PositionsDense
          /\ CallsAccountedFor
          /\ UnexpiredIsPlayable
          /\ NoAudioWithoutRow)
    /\ [][NobodyPassedOver]_deskVars
=============================================================================
