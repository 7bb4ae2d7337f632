-------------------------- MODULE CallTransferProofs --------------------------
(***************************************************************************)
(* Proofs about CallTransfer for every set of attempts, request ids and    *)
(* callback deliveries, with or without crashes, and about PhoneDesk for   *)
(* every set of numbers, users, calls, recordings and requests.            *)
(***************************************************************************)
EXTENDS CallTransfer, PhoneDesk, FiniteSetTheorems, WellFoundedInduction, TLAPS

\* A thread can only be past a point of the protocol its predecessors reached.
ThreadFit(a) ==
    /\ initiator[a] \in {"idle", "creating"} => leg[a] = "none"
    /\ initiator[a] = "idle" => active # a /\ bridgeCalls[a] = 0
    /\ \A d \in Deliveries : callback[a][d] # "idle" => leg[a] = "answered"
    /\ (Consumed(a) # {} \/ bridgeCalls[a] > 0) => active # a

\* A row is loaded only where a thread tests one.
CopyFit(a) ==
    /\ copy[<<"leg", a>>] # NoCopy => leg[a] = "failed"
    /\ \A d \in Deliveries : callback[a][d] = "idle" => copy[<<"callback", a, d>>] = NoCopy

Causality == /\ copy[<<"report", "ringing">>] = NoCopy
             /\ \A a \in Attempts : ThreadFit(a) /\ CopyFit(a)

\* The row has an owner only from a claim to a terminal status, and by then the
\* one answered event of the call is already in the ledger.
RowInv ==
    /\ active # NoAttempt => status \in {"transferring"} \cup Terminal
    /\ status \in {"in_progress", "transferring"} => <<"call", "in-progress">> \in events

\* A consumed attempt is alone, unowned, and has not bridged before.
ConsumeInv ==
    \A a \in Attempts : \A d \in Consumed(a) :
        /\ active = NoAttempt
        /\ status \in {"transferring"} \cup Terminal
        /\ callback[a][d] = "bridging" => bridgeCalls[a] = 0
        /\ \A b \in Attempts : \A e \in Consumed(b) : a = b /\ d = e

BridgeInv == \A a \in Attempts : bridgeCalls[a] <= 1

\* What is lost once a transaction was overtaken, and only then.
ProtocolInv == RowInv /\ ConsumeInv /\ BridgeInv

IInv == TypeOK /\ Causality /\ (overtaken \/ ProtocolInv)

------------------------------------------------------------------------------
\* What the transition table allows, in the form the proofs use it: nothing
\* leaves a terminal status and only two statuses lead to in_progress.
LEMMA AllowedFacts ==
    /\ \A s \in Statuses : AllowedTransitions[s] \subseteq Statuses
    /\ \A s \in Terminal \cup {"none"} : AllowedTransitions[s] = {}
    /\ \A s \in Statuses : "in_progress" \in AllowedTransitions[s]
                              => s \in {"ringing", "transferring"}
    /\ \A s \in Statuses : "ringing" \notin AllowedTransitions[s]
    /\ \A r \in Reports : ReportedStatus[r] \in Statuses \ {"none", "transferring"}
BY DEF AllowedTransitions, ReportedStatus, Statuses, Terminal, Reports

\* The transactions are told apart by who runs them.
LEMMA TransactionFacts ==
    /\ \A r \in Reports : <<"report", r>> \in Transactions
    /\ \A a \in Attempts : <<"initiator", a>> \in Transactions /\ <<"leg", a>> \in Transactions
    /\ \A a \in Attempts : \A d \in Deliveries : <<"callback", a, d>> \in Transactions
    /\ "ringing" \in Reports
BY DEF Transactions, Reports

\* What each transaction may make of a row.
LEMMA MadeOf ==
    ASSUME NEW c \in Copies, NEW m
    PROVE  /\ \A r \in Reports : m \in StatusOf(c, r) =>
                 /\ m \in Copies /\ m.active = c.active /\ m.status = ReportedStatus[r]
                 /\ ReportedStatus[r] \in AllowedTransitions[c.status] \cup {c.status}
           /\ \A a \in Attempts : m \in ClaimOf(c, a) =>
                 /\ m \in Copies /\ m.active = a /\ m.status = "transferring"
                 /\ c.status = "in_progress" /\ c.active = NoAttempt
           /\ \A a \in Attempts : m \in ConsumeOf(c, a) =>
                 /\ m \in Copies /\ m.active = NoAttempt /\ m.status = "transferring"
                 /\ c.status = "transferring" /\ c.active = a
           /\ \A gate : m \in ReturnOf(c, gate) =>
                 /\ m \in Copies
                 /\ \/ m = c
                    \/ /\ c.status \in {"ringing", "transferring"}
                       /\ gate = {} \/ c.active \in gate
                       /\ m.status = "in_progress"
                       /\ m.active = IF c.status = "transferring" THEN NoAttempt ELSE c.active
<1>1. c.status \in Statuses /\ c.active \in Attempts \cup {NoAttempt}
  BY DEF Copies
<1>2. ASSUME NEW r \in Reports, m \in StatusOf(c, r)
      PROVE  /\ m \in Copies /\ m.active = c.active /\ m.status = ReportedStatus[r]
             /\ ReportedStatus[r] \in AllowedTransitions[c.status] \cup {c.status}
  <2>1. m = [c EXCEPT !.status = ReportedStatus[r]]
        /\ ReportedStatus[r] \in AllowedTransitions[c.status] \cup {c.status}
    BY <1>2 DEF StatusOf
  <2>. QED  BY <2>1, AllowedFacts DEF Copies
<1>3. ASSUME NEW a \in Attempts, m \in ClaimOf(c, a)
      PROVE  /\ m \in Copies /\ m.active = a /\ m.status = "transferring"
             /\ c.status = "in_progress" /\ c.active = NoAttempt
  <2>1. m = [status |-> "transferring", active |-> a]
        /\ c = [status |-> "in_progress", active |-> NoAttempt]
    BY <1>3 DEF ClaimOf
  <2>. QED  BY <2>1 DEF Copies, Statuses
<1>4. ASSUME NEW a \in Attempts, m \in ConsumeOf(c, a)
      PROVE  /\ m \in Copies /\ m.active = NoAttempt /\ m.status = "transferring"
             /\ c.status = "transferring" /\ c.active = a
  <2>1. m = [status |-> "transferring", active |-> NoAttempt]
        /\ c = [status |-> "transferring", active |-> a]
    BY <1>4 DEF ConsumeOf
  <2>. QED  BY <2>1 DEF Copies, Statuses
<1>5. ASSUME NEW gate, m \in ReturnOf(c, gate)
      PROVE  /\ m \in Copies
             /\ \/ m = c
                \/ /\ c.status \in {"ringing", "transferring"}
                   /\ gate = {} \/ c.active \in gate
                   /\ m.status = "in_progress"
                   /\ m.active = IF c.status = "transferring" THEN NoAttempt ELSE c.active
  <2>1. CASE m = c
    BY <2>1
  <2>2. CASE m # c
    <3>1. /\ gate = {} \/ c.active \in gate
          /\ "in_progress" \in AllowedTransitions[c.status]
          /\ m = [status |-> "in_progress",
                  active |-> IF c.status = "transferring" THEN NoAttempt ELSE c.active]
      BY <1>5, <2>2 DEF ReturnOf
    <3>2. c.status \in {"ringing", "transferring"}
      BY <1>1, <3>1, AllowedFacts
    <3>. QED  BY <1>1, <3>1, <3>2 DEF Copies, Statuses
  <2>. QED  BY <2>1, <2>2
<1>. QED  BY <1>2, <1>3, <1>4, <1>5

\* The refusals, as far as the proofs need them: a call that is over is neither
\* claimed nor consumed nor returned, and only its owner is consumed.
LEMMA RefusedOf ==
    ASSUME NEW c \in Copies, NEW a \in Attempts
    PROVE  /\ c.active # a => ConsumeOf(c, a) = {}
           /\ c.status \in Terminal \cup {"none"} =>
                 ClaimOf(c, a) = {} /\ ConsumeOf(c, a) = {}
BY DEF ConsumeOf, ClaimOf, Terminal

\* A commit writes the columns its transaction changed in the copy; as long as
\* nobody was overtaken the row is what the lock would have made it.
LEMMA CommitEffect ==
    ASSUME TypeOK, NEW t \in Transactions, NEW made \in SUBSET Copies, NEW due, Commit(t, made, due)
    PROVE  /\ copy[t] # NoCopy /\ copy[t] \in Copies
           /\ copy' = [copy EXCEPT ![t] = NoCopy] /\ copy' \in [Transactions -> Copies]
           /\ status' \in Statuses /\ active' \in Attempts \cup {NoAttempt}
           /\ overtaken' \in BOOLEAN /\ (overtaken => overtaken')
           /\ ~overtaken' => [status |-> status', active |-> active'] \in due
           /\ \E new \in made :
                 /\ status' = IF new.status = copy[t].status THEN status ELSE new.status
                 /\ active' = IF new.active = copy[t].active THEN active ELSE new.active
<1>1. PICK new \in made :
         /\ status' = IF new.status = copy[t].status THEN status ELSE new.status
         /\ active' = IF new.active = copy[t].active THEN active ELSE new.active
         /\ overtaken' = (overtaken \/ due # {[status |-> status', active |-> active']})
  BY DEF Commit
<1>2. new.status \in Statuses /\ new.active \in Attempts \cup {NoAttempt}
  BY DEF Copies
<1>3. status \in Statuses /\ active \in Attempts \cup {NoAttempt} /\ overtaken \in BOOLEAN
      /\ copy \in [Transactions -> Copies]
  BY DEF TypeOK
<1>4. NoCopy \in Copies
  BY DEF NoCopy, Copies, Statuses
<1>5. copy[t] # NoCopy /\ copy' = [copy EXCEPT ![t] = NoCopy]
  BY DEF Commit, Done
<1>6. overtaken' \in BOOLEAN /\ (overtaken => overtaken')
  BY <1>1, <1>3
<1>7. ASSUME ~overtaken' PROVE [status |-> status', active |-> active'] \in due
  BY <1>1, <1>7
<1>8. status' \in Statuses /\ active' \in Attempts \cup {NoAttempt}
  BY <1>1, <1>2, <1>3
<1>. QED  BY <1>1, <1>3, <1>4, <1>5, <1>6, <1>7, <1>8

\* The row is a row.
LEMMA RowIsRow == TypeOK => Row \in Copies /\ Row.status = status /\ Row.active = active
BY DEF TypeOK, Row, Copies

------------------------------------------------------------------------------
\* What one transaction leaves of its copy, the row and the ghost, whichever it is.
Closes(t) ==
    /\ t \in Transactions /\ copy[t] # NoCopy
    /\ copy' = [copy EXCEPT ![t] = NoCopy] /\ copy' \in [Transactions -> Copies]
    /\ status' \in Statuses /\ active' \in Attempts \cup {NoAttempt}
    /\ overtaken' \in BOOLEAN /\ (overtaken => overtaken')
    /\ copy[t].status \in Terminal => status' = status

\* A status report (calls.py receive_inbound_call_event) never touches the owner.
LEMMA StatusEffect ==
    ASSUME TypeOK, NEW r \in Reports, ReceiveStatus(r)
    PROVE  /\ Closes(<<"report", r>>)
           /\ active' = active
           /\ <<"call", r>> \notin events /\ events' = events \cup {<<"call", r>>}
           /\ events' \subseteq EventIds
           /\ UNCHANGED <<world, threads>>
           /\ ~overtaken' => /\ status' = ReportedStatus[r]
                             /\ ReportedStatus[r] \in AllowedTransitions[status] \cup {status}
<1>. DEFINE t == <<"report", r>>
<1>1. t \in Transactions /\ copy[t] \in Copies
  BY TransactionFacts DEF TypeOK
<1>2. Commit(t, StatusOf(copy[t], r), StatusOf(Row, r))
  BY DEF ReceiveStatus
<1>3. StatusOf(copy[t], r) \in SUBSET Copies
  BY <1>1, MadeOf
<1>. HIDE DEF t
<1>4. /\ copy[t] # NoCopy
      /\ copy' = [copy EXCEPT ![t] = NoCopy] /\ copy' \in [Transactions -> Copies]
      /\ status' \in Statuses /\ active' \in Attempts \cup {NoAttempt}
      /\ overtaken' \in BOOLEAN /\ (overtaken => overtaken')
      /\ ~overtaken' => [status |-> status', active |-> active'] \in StatusOf(Row, r)
  BY <1>1, <1>2, <1>3, CommitEffect
<1>5. PICK new \in StatusOf(copy[t], r) :
         /\ status' = IF new.status = copy[t].status THEN status ELSE new.status
         /\ active' = IF new.active = copy[t].active THEN active ELSE new.active
  BY <1>1, <1>2, <1>3, CommitEffect
<1>6. /\ new.active = copy[t].active
      /\ new.status \in AllowedTransitions[copy[t].status] \cup {copy[t].status}
  BY <1>1, <1>5, MadeOf
<1>7. active' = active /\ (copy[t].status \in Terminal => status' = status)
  BY <1>5, <1>6, AllowedFacts
<1>8. ASSUME ~overtaken'
      PROVE  /\ status' = ReportedStatus[r]
             /\ ReportedStatus[r] \in AllowedTransitions[status] \cup {status}
  BY <1>4, <1>8, RowIsRow, MadeOf
<1>9. /\ <<"call", r>> \notin events /\ events' = events \cup {<<"call", r>>}
      /\ events' \subseteq EventIds /\ UNCHANGED <<world, threads>>
  BY DEF ReceiveStatus, TypeOK, EventIds
<1>10. Closes(t)
  BY <1>1, <1>4, <1>7 DEF Closes
<1>. QED  BY <1>7, <1>8, <1>9, <1>10 DEF t

\* Everything a transfer event can do to the row (calls.py
\* apply_call_transfer_event): leave status and owner alone, or send the call
\* back to in_progress, which needs the gate to match and frees the owner.
LEMMA ReturnEffect ==
    ASSUME TypeOK, NEW t \in Transactions, NEW id \in EventIds, NEW gate, ReturnCall(t, id, gate)
    PROVE  /\ Closes(t)
           /\ events \subseteq events' /\ events' \subseteq EventIds
           /\ active' \in {active, NoAttempt}
           /\ ~overtaken' =>
                 \/ UNCHANGED <<status, active>>
                 \/ /\ status \in {"ringing", "transferring"}
                    /\ gate = {} \/ active \in gate
                    /\ status' = "in_progress"
                    /\ active' = IF status = "transferring" THEN NoAttempt ELSE active
<1>1. copy[t] \in Copies
  BY DEF TypeOK
<1>2. events \subseteq events' /\ events' \subseteq EventIds
  BY DEF TypeOK, ReturnCall
<1>3. CASE id \in events
  <2>1. copy[t] # NoCopy /\ Done(t) /\ UNCHANGED <<status, active, overtaken>>
    BY <1>3 DEF ReturnCall
  <2>2. NoCopy \in Copies
    BY DEF NoCopy, Copies, Statuses
  <2>3. /\ copy' = [copy EXCEPT ![t] = NoCopy] /\ copy' \in [Transactions -> Copies]
        /\ status' \in Statuses /\ active' \in Attempts \cup {NoAttempt} /\ overtaken' \in BOOLEAN
    BY <2>1, <2>2 DEF TypeOK, Done
  <2>. QED  BY <1>2, <2>1, <2>3 DEF Closes
<1>4. CASE id \notin events
  <2>1. Commit(t, ReturnOf(copy[t], gate), ReturnOf(Row, gate))
    BY <1>4 DEF ReturnCall
  <2>2. ReturnOf(copy[t], gate) \in SUBSET Copies
    BY <1>1, MadeOf
  <2>3. /\ copy[t] # NoCopy
        /\ copy' = [copy EXCEPT ![t] = NoCopy] /\ copy' \in [Transactions -> Copies]
        /\ status' \in Statuses /\ active' \in Attempts \cup {NoAttempt}
        /\ overtaken' \in BOOLEAN /\ (overtaken => overtaken')
        /\ ~overtaken' => [status |-> status', active |-> active'] \in ReturnOf(Row, gate)
    BY <2>1, <2>2, CommitEffect
  <2>4. PICK new \in ReturnOf(copy[t], gate) :
           /\ status' = IF new.status = copy[t].status THEN status ELSE new.status
           /\ active' = IF new.active = copy[t].active THEN active ELSE new.active
    BY <2>1, <2>2, CommitEffect
  <2>5. \/ new = copy[t]
        \/ /\ copy[t].status \in {"ringing", "transferring"}
           /\ new.active = IF copy[t].status = "transferring" THEN NoAttempt ELSE copy[t].active
    BY <1>1, <2>4, MadeOf
  <2>6. active' \in {active, NoAttempt} /\ (copy[t].status \in Terminal => status' = status)
    BY <2>4, <2>5 DEF Terminal
  <2>7. ASSUME ~overtaken'
        PROVE  \/ UNCHANGED <<status, active>>
               \/ /\ status \in {"ringing", "transferring"}
                  /\ gate = {} \/ active \in gate
                  /\ status' = "in_progress"
                  /\ active' = IF status = "transferring" THEN NoAttempt ELSE active
    <3>. DEFINE m == [status |-> status', active |-> active']
    <3>1. m \in ReturnOf(Row, gate) /\ m.status = status' /\ m.active = active'
      BY <2>3, <2>7
    <3>. HIDE DEF m
    <3>. QED  BY <3>1, RowIsRow, MadeOf
  <2>. QED  BY <1>2, <2>3, <2>6, <2>7 DEF Closes
<1>. QED  BY <1>3, <1>4

\* A granted claim (calls.py try_start_transfer_attempt) makes its attempt the owner.
LEMMA ClaimEffect ==
    ASSUME TypeOK, NEW a \in Attempts, WinClaim(a)
    PROVE  /\ Closes(<<"initiator", a>>)
           /\ copy[<<"initiator", a>>].status \notin Terminal
           /\ active' = a
           /\ ~overtaken' => /\ status = "in_progress" /\ active = NoAttempt
                             /\ status' = "transferring"
<1>. DEFINE t == <<"initiator", a>>
<1>1. t \in Transactions /\ copy[t] \in Copies
  BY TransactionFacts DEF TypeOK
<1>2. Commit(t, ClaimOf(copy[t], a), ClaimOf(Row, a))
  BY DEF WinClaim
<1>3. ClaimOf(copy[t], a) \in SUBSET Copies
  BY <1>1, MadeOf
<1>. HIDE DEF t
<1>4. /\ copy[t] # NoCopy
      /\ copy' = [copy EXCEPT ![t] = NoCopy] /\ copy' \in [Transactions -> Copies]
      /\ status' \in Statuses /\ active' \in Attempts \cup {NoAttempt}
      /\ overtaken' \in BOOLEAN /\ (overtaken => overtaken')
      /\ ~overtaken' => [status |-> status', active |-> active'] \in ClaimOf(Row, a)
  BY <1>1, <1>2, <1>3, CommitEffect
<1>5. PICK new \in ClaimOf(copy[t], a) :
         /\ status' = IF new.status = copy[t].status THEN status ELSE new.status
         /\ active' = IF new.active = copy[t].active THEN active ELSE new.active
  BY <1>1, <1>2, <1>3, CommitEffect
<1>6. /\ new.active = a /\ copy[t].status = "in_progress" /\ copy[t].active = NoAttempt
  BY <1>1, <1>5, MadeOf
<1>7. active' = a /\ copy[t].status \notin Terminal
  BY <1>5, <1>6, NoAttemptAssumption DEF Terminal
<1>8. ASSUME ~overtaken'
      PROVE  status = "in_progress" /\ active = NoAttempt /\ status' = "transferring"
  BY <1>4, <1>8, RowIsRow, MadeOf
<1>9. Closes(t)
  BY <1>1, <1>4, <1>7 DEF Closes
<1>. QED  BY <1>7, <1>8, <1>9 DEF t

\* A granted consume (calls.py try_consume_transfer_attempt_for_bridge) clears the
\* owner and leaves the status alone.
LEMMA ConsumeEffect ==
    ASSUME TypeOK, NEW a \in Attempts, NEW d \in Deliveries, WinConsume(a, d)
    PROVE  /\ Closes(<<"callback", a, d>>)
           /\ ConsumeOf(copy[<<"callback", a, d>>], a) # {}
           /\ copy[<<"callback", a, d>>].status \notin Terminal
           /\ active' = NoAttempt /\ status' = status
           /\ ~overtaken' => status = "transferring" /\ active = a
<1>. DEFINE t == <<"callback", a, d>>
<1>1. t \in Transactions /\ copy[t] \in Copies
  BY TransactionFacts DEF TypeOK
<1>2. Commit(t, ConsumeOf(copy[t], a), ConsumeOf(Row, a))
  BY DEF WinConsume
<1>3. ConsumeOf(copy[t], a) \in SUBSET Copies
  BY <1>1, MadeOf
<1>. HIDE DEF t
<1>4. /\ copy[t] # NoCopy
      /\ copy' = [copy EXCEPT ![t] = NoCopy] /\ copy' \in [Transactions -> Copies]
      /\ status' \in Statuses /\ active' \in Attempts \cup {NoAttempt}
      /\ overtaken' \in BOOLEAN /\ (overtaken => overtaken')
      /\ ~overtaken' => [status |-> status', active |-> active'] \in ConsumeOf(Row, a)
  BY <1>1, <1>2, <1>3, CommitEffect
<1>5. PICK new \in ConsumeOf(copy[t], a) :
         /\ status' = IF new.status = copy[t].status THEN status ELSE new.status
         /\ active' = IF new.active = copy[t].active THEN active ELSE new.active
  BY <1>1, <1>2, <1>3, CommitEffect
<1>6. /\ new.active = NoAttempt /\ new.status = "transferring"
      /\ copy[t].status = "transferring" /\ copy[t].active = a
  BY <1>1, <1>5, MadeOf
<1>7. active' = NoAttempt /\ status' = status /\ copy[t].status \notin Terminal
      /\ ConsumeOf(copy[t], a) # {}
  BY <1>5, <1>6, NoAttemptAssumption DEF Terminal
<1>8. ASSUME ~overtaken' PROVE status = "transferring" /\ active = a
  BY <1>4, <1>8, RowIsRow, MadeOf
<1>9. Closes(t)
  BY <1>1, <1>4, <1>7 DEF Closes
<1>. QED  BY <1>7, <1>8, <1>9 DEF t

\* Loading the row moves nothing but the copy.
LEMMA LoadEffect ==
    ASSUME TypeOK, NEW t \in Transactions, Load(t)
    PROVE  /\ copy[t] = NoCopy /\ status # "none"
           /\ copy' = [copy EXCEPT ![t] = Row] /\ copy' \in [Transactions -> Copies]
           /\ UNCHANGED <<row, overtaken, world, threads>>
BY RowIsRow DEF Load, TypeOK

\* A transaction that is refused leaves nothing but the end of its copy.
LEMMA DoneEffect ==
    ASSUME TypeOK, NEW t \in Transactions, Done(t)
    PROVE  copy' = [copy EXCEPT ![t] = NoCopy] /\ copy' \in [Transactions -> Copies]
<1>1. NoCopy \in Copies
  BY DEF NoCopy, Copies, Statuses
<1>. QED  BY <1>1 DEF Done, TypeOK

------------------------------------------------------------------------------
\* The initial row, ledger and threads are well formed.
LEMMA TypeInit == Init => TypeOK
<1>. SUFFICES ASSUME Init PROVE TypeOK
  OBVIOUS
<1>1. callback \in [Attempts -> [Deliveries -> CallbackStates]]
  BY DEF Init, CallbackStates
<1>2. leg \in [Attempts -> LegStates] /\ initiator \in [Attempts -> InitiatorStates]
  BY DEF Init, LegStates, InitiatorStates
<1>3. copy \in [Transactions -> Copies]
  BY DEF Init, NoCopy, Copies, Statuses
<1>. QED  BY <1>1, <1>2, <1>3 DEF Init, TypeOK, Statuses

\* Every step keeps the shape of every variable.
LEMMA TypePreserved == TypeOK /\ [Next]_vars => TypeOK'
<1>. SUFFICES ASSUME TypeOK, [Next]_vars PROVE TypeOK'
  OBVIOUS
<1>. USE DEF row, session, world, threads
<1>0. ASSUME NEW t \in Transactions, Load(t) PROVE TypeOK'
  BY <1>0, LoadEffect DEF TypeOK
<1>1. CASE CallStep
  <2>1. CASE ReceiveInitiated
    BY <2>1 DEF TypeOK, ReceiveInitiated, EventIds, Statuses, Reports
  <2>2. CASE SetDestination
    BY <2>2 DEF TypeOK, SetDestination
  <2>3. ASSUME NEW r \in Reports, ProviderReports(r) PROVE TypeOK'
    BY <2>3 DEF TypeOK, ProviderReports
  <2>4. ASSUME NEW r \in Reports, LoadForStatus(r) PROVE TypeOK'
    BY <1>0, <2>4, TransactionFacts DEF LoadForStatus
  <2>5. ASSUME NEW r \in Reports, ReceiveStatus(r) PROVE TypeOK'
    BY <2>5, StatusEffect DEF TypeOK, Closes
  <2>6. ASSUME NEW r \in Reports, RejectStatus(r) PROVE TypeOK'
    BY <2>6, TransactionFacts, DoneEffect DEF TypeOK, RejectStatus
  <2>. QED  BY <1>1, <2>1, <2>2, <2>3, <2>4, <2>5, <2>6 DEF CallStep
<1>2. ASSUME NEW a \in Attempts, AttemptStep(a) PROVE TypeOK'
  <2>0. /\ <<"initiator", a>> \in Transactions /\ <<"leg", a>> \in Transactions
        /\ <<"transfer-requested", RequestOf[a]>> \in EventIds
        /\ <<"provider-unavailable", RequestOf[a]>> \in EventIds
        /\ \A k \in {"transfer-consultation", "transfer-answered", "transfer-bridged",
                      "transfer-ai-exit", "leg-failed", "bridge-failure"} : <<k, a>> \in EventIds
    BY TransactionFacts, RequestAssumption DEF EventIds
  <2>1. CASE LoadForClaim(a) \/ LoadForUnavailable(a) \/ LoadForLegFailed(a)
    BY <1>0, <2>0, <2>1 DEF LoadForClaim, LoadForUnavailable, LoadForLegFailed
  <2>2. CASE LoseClaim(a)
    BY <2>0, <2>2, DoneEffect DEF TypeOK, LoseClaim, InitiatorTo, InitiatorStates
  <2>3. CASE WinClaim(a)
    BY <2>0, <2>3, ClaimEffect DEF TypeOK, Closes, WinClaim, InitiatorTo, InitiatorStates
  <2>4. CASE CreateLeg(a) \/ CreateLegFails(a) \/ TransferUnavailable(a)
    BY <2>4 DEF TypeOK, CreateLeg, CreateLegFails, TransferUnavailable, InitiatorTo,
                InitiatorStates, LegStates
  <2>5. CASE RecordProviderUnavailable(a)
    BY <2>0, <2>5, ReturnEffect
    DEF TypeOK, Closes, RecordProviderUnavailable, InitiatorTo, InitiatorStates
  <2>6. CASE RecordConsultationStarted(a)
    BY <2>0, <2>6 DEF TypeOK, RecordConsultationStarted, RecordEvent, InitiatorTo, InitiatorStates
  <2>7. CASE CrashInitiator(a)
    BY <2>0, <2>7, DoneEffect DEF TypeOK, CrashInitiator, InitiatorTo, InitiatorStates
  <2>8. CASE LegResolves(a)
    BY <2>8 DEF TypeOK, LegResolves, LegStates
  <2>9. CASE ReceiveLegFailed(a)
    BY <2>0, <2>9, ReturnEffect DEF TypeOK, Closes, ReceiveLegFailed
  <2>10. ASSUME NEW d \in Deliveries,
                ReceiveAnswered(a, d) \/ CallbackStep(a, d) \/ CrashCallback(a, d)
         PROVE  TypeOK'
    <3>0. <<"callback", a, d>> \in Transactions
      BY TransactionFacts
    <3>1. CASE ReceiveAnswered(a, d)
      BY <2>0, <3>1 DEF TypeOK, ReceiveAnswered, RecordEvent, CallbackTo, CallbackStates
    <3>8. CASE RecordAiLegRemoved(a, d)
      BY <2>0, <3>8 DEF TypeOK, RecordAiLegRemoved, RecordEvent, CallbackTo, CallbackStates
    <3>2. CASE LoadForCallback(a, d)
      BY <1>0, <3>0, <3>2 DEF LoadForCallback
    <3>3. CASE WinConsume(a, d)
      BY <3>3, ConsumeEffect DEF TypeOK, Closes, WinConsume, CallbackTo, CallbackStates
    <3>4. CASE LoseConsume(a, d)
      BY <3>0, <3>4, DoneEffect DEF TypeOK, LoseConsume, CallbackTo, CallbackStates
    <3>9. CASE CrashCallback(a, d)
      BY <3>0, <3>9, DoneEffect DEF TypeOK, CrashCallback, CallbackTo, CallbackStates
    <3>5. CASE BridgeCall(a, d)
      BY <3>5 DEF TypeOK, BridgeCall, CallbackTo, CallbackStates
    <3>6. CASE RecordBridgeFailure(a, d)
      BY <2>0, <3>0, <3>6, ReturnEffect
      DEF TypeOK, Closes, RecordBridgeFailure, CallbackTo, CallbackStates
    <3>7. CASE RecordBridged(a, d)
      BY <2>0, <3>0, <3>7, ReturnEffect
      DEF TypeOK, Closes, RecordBridged, CallbackTo, CallbackStates
    <3>. QED  BY <2>10, <3>1, <3>2, <3>3, <3>4, <3>5, <3>6, <3>7, <3>8, <3>9 DEF CallbackStep
  <2>. QED  BY <1>2, <2>1, <2>2, <2>3, <2>4, <2>5, <2>6, <2>7, <2>8, <2>9, <2>10
            DEF AttemptStep, InitiatorStep, LegStep
<1>3. CASE UNCHANGED vars
  BY <1>3 DEF TypeOK, vars
<1>. QED  BY <1>1, <1>2, <1>3 DEF Next

\* Type correctness: every variable keeps its shape whatever runs.
THEOREM TypeCorrect == Spec => []TypeOK
BY TypeInit, TypePreserved, PTL DEF Spec

------------------------------------------------------------------------------
\* Causality, step by step.

LEMMA CausalityInit == Init => Causality
<1>. SUFFICES ASSUME Init PROVE Causality
  OBVIOUS
<1>1. ASSUME NEW a \in Attempts PROVE ThreadFit(a) /\ CopyFit(a)
  BY TransactionFacts, NoAttemptAssumption DEF Init, Consumed, ThreadFit, CopyFit
<1>. QED  BY <1>1, TransactionFacts DEF Init, Causality

\* A transaction that ends, or a step with none: the copies that stay are the old ones.
Ends == \A x \in Transactions : copy'[x] \in {copy[x], NoCopy}

LEMMA ClosesEnds ==
    ASSUME TypeOK, NEW t \in Transactions,
           copy' = copy \/ copy' = [copy EXCEPT ![t] = NoCopy]
    PROVE  Ends
BY DEF TypeOK, Ends

\* No leg that failed and no callback that came is undone.
Onward == \A a \in Attempts :
             /\ leg[a] = "failed" => leg'[a] = "failed"
             /\ \A d \in Deliveries : callback'[a][d] = "idle" => callback[a][d] = "idle"

LEMMA EndsCausality ==
    ASSUME TypeOK, Causality, Ends, Onward, \A a \in Attempts : ThreadFit(a)'
    PROVE  Causality'
<1>1. copy'[<<"report", "ringing">>] = NoCopy
  BY TransactionFacts DEF Causality, Ends
<1>2. ASSUME NEW a \in Attempts PROVE CopyFit(a)'
  <2>0. CopyFit(a)
    BY DEF Causality
  <2>1. copy'[<<"leg", a>>] # NoCopy => leg'[a] = "failed"
    <3>1. copy'[<<"leg", a>>] \in {copy[<<"leg", a>>], NoCopy}
      BY TransactionFacts DEF Ends
    <3>. QED  BY <2>0, <3>1 DEF CopyFit, Onward
  <2>2. ASSUME NEW d \in Deliveries, callback'[a][d] = "idle"
        PROVE  copy'[<<"callback", a, d>>] = NoCopy
    <3>1. copy'[<<"callback", a, d>>] \in {copy[<<"callback", a, d>>], NoCopy}
      BY TransactionFacts DEF Ends
    <3>2. callback[a][d] = "idle"
      BY <2>2 DEF Onward
    <3>. QED  BY <2>0, <3>1, <3>2 DEF CopyFit
  <2>. QED  BY <2>1, <2>2 DEF CopyFit
<1>. QED  BY <1>1, <1>2 DEF Causality

\* A row may be loaded by the transactions of a leg that failed and of a callback
\* that has come, and never by the report that created it.
LEMMA LoadCausality ==
    ASSUME TypeOK, Causality, NEW t \in Transactions, Load(t),
           t # <<"report", "ringing">>,
           \A a \in Attempts : t = <<"leg", a>> => leg[a] = "failed",
           \A a \in Attempts : \A d \in Deliveries :
               t = <<"callback", a, d>> => callback[a][d] # "idle"
    PROVE  Causality'
<1>1. /\ \A x \in Transactions : x # t => copy'[x] = copy[x]
      /\ UNCHANGED <<row, overtaken, world, threads>>
  BY LoadEffect DEF TypeOK
<1>2. copy'[<<"report", "ringing">>] = NoCopy
  BY <1>1, TransactionFacts DEF Causality
<1>3. ASSUME NEW a \in Attempts PROVE ThreadFit(a)' /\ CopyFit(a)'
  <2>0. ThreadFit(a) /\ CopyFit(a)
    BY DEF Causality
  <2>1. ThreadFit(a)'
    BY <1>1, <2>0 DEF ThreadFit, Consumed, row, world, threads
  <2>2. copy'[<<"leg", a>>] # NoCopy => leg'[a] = "failed"
    <3>1. CASE t = <<"leg", a>>
      BY <1>1, <3>1 DEF world
    <3>2. CASE t # <<"leg", a>>
      <4>1. copy'[<<"leg", a>>] = copy[<<"leg", a>>]
        BY <1>1, <3>2, TransactionFacts
      <4>. QED  BY <1>1, <2>0, <4>1 DEF CopyFit, world
    <3>. QED  BY <3>1, <3>2
  <2>3. ASSUME NEW d \in Deliveries, callback'[a][d] = "idle"
        PROVE  copy'[<<"callback", a, d>>] = NoCopy
    <3>1. callback[a][d] = "idle"
      BY <1>1, <2>3 DEF threads
    <3>2. t # <<"callback", a, d>>
      BY <3>1
    <3>3. copy'[<<"callback", a, d>>] = copy[<<"callback", a, d>>]
      BY <1>1, <3>2, TransactionFacts
    <3>. QED  BY <2>0, <3>1, <3>3 DEF CopyFit
  <2>. QED  BY <2>1, <2>2, <2>3 DEF CopyFit
<1>. QED  BY <1>2, <1>3 DEF Causality

\* A step that gives the row no new owner, consumes nothing and moves no thread
\* backwards.
LEMMA QuietCausality ==
    ASSUME TypeOK, Causality, Ends, active' \in {active, NoAttempt}, UNCHANGED <<leg, bridgeCalls>>,
           \A a \in Attempts :
              /\ initiator'[a] # initiator[a] => initiator'[a] \notin {"idle", "creating"}
              /\ Consumed(a)' \subseteq Consumed(a)
              /\ \A d \in Deliveries : callback'[a][d] # callback[a][d] =>
                     callback'[a][d] # "idle" /\ leg[a] = "answered"
    PROVE  Causality'
<1>1. \A a \in Attempts : active # a => active' # a
  BY NoAttemptAssumption
<1>2. ASSUME NEW a \in Attempts PROVE ThreadFit(a)'
  <2>1. ThreadFit(a)
    BY DEF Causality
  <2>2. \A d \in Deliveries : callback'[a][d] # "idle" => leg'[a] = "answered"
    BY <2>1 DEF ThreadFit
  <2>3. Consumed(a)' # {} => Consumed(a) # {}
    OBVIOUS
  <2>4. (Consumed(a)' # {} \/ bridgeCalls'[a] > 0) => active' # a
    BY <1>1, <2>1, <2>3 DEF ThreadFit
  <2>5. /\ initiator'[a] \in {"idle", "creating"} => leg'[a] = "none"
        /\ initiator'[a] = "idle" => active' # a /\ bridgeCalls'[a] = 0
    BY <1>1, <2>1 DEF ThreadFit
  <2>. QED  BY <2>2, <2>4, <2>5 DEF ThreadFit
<1>. QED  BY <1>2, EndsCausality DEF Onward

Consuming == {"bridging", "bridged", "failing"}

\* What moving one thread leaves of the others.
LEMMA InitiatorMoves ==
    ASSUME TypeOK, NEW a \in Attempts, NEW s, InitiatorTo(a, s)
    PROVE  /\ \A b \in Attempts : initiator'[b] = IF b = a THEN s ELSE initiator[b]
           /\ UNCHANGED <<callback, bridgeCalls>>
           /\ \A b \in Attempts : Consumed(b)' = Consumed(b)
<1>1. initiator \in [Attempts -> InitiatorStates]
  BY DEF TypeOK
<1>. QED  BY <1>1 DEF InitiatorTo, Consumed

LEMMA CallbackMoves ==
    ASSUME TypeOK, NEW a \in Attempts, NEW d \in Deliveries, NEW from, NEW to,
           CallbackTo(a, d, from, to)
    PROVE  /\ \A b \in Attempts : \A e \in Deliveries :
                 callback'[b][e] = IF b = a /\ e = d THEN to ELSE callback[b][e]
           /\ callback[a][d] = from
           /\ initiator' = initiator
           /\ \A b \in Attempts : b # a => Consumed(b)' = Consumed(b)
           /\ from \in Consuming \/ to \notin Consuming => Consumed(a)' \subseteq Consumed(a)
           /\ Causality /\ to # "idle" /\ (from = "idle" => leg[a] = "answered") =>
                 \A b \in Attempts : \A e \in Deliveries : callback'[b][e] # callback[b][e] =>
                     callback'[b][e] # "idle" /\ leg[b] = "answered"
<1>1. callback \in [Attempts -> [Deliveries -> CallbackStates]]
  BY DEF TypeOK
<1>2. /\ \A b \in Attempts : \A e \in Deliveries :
            callback'[b][e] = IF b = a /\ e = d THEN to ELSE callback[b][e]
      /\ callback[a][d] = from /\ initiator' = initiator
  BY <1>1 DEF CallbackTo
<1>3. \A b \in Attempts : b # a => Consumed(b)' = Consumed(b)
  BY <1>2 DEF Consumed
<1>4. from \in Consuming \/ to \notin Consuming => Consumed(a)' \subseteq Consumed(a)
  BY <1>2 DEF Consumed, Consuming
<1>5. ASSUME Causality PROVE callback[a][d] # "idle" => leg[a] = "answered"
  BY <1>5 DEF Causality, ThreadFit
<1>. QED  BY <1>2, <1>3, <1>4, <1>5

\* A callback that goes on, with or without the end of a transaction.
LEMMA CallbackCausality ==
    ASSUME TypeOK, Causality, NEW a \in Attempts, NEW d \in Deliveries, NEW from, NEW to,
           CallbackTo(a, d, from, to), to # "idle", from = "idle" => leg[a] = "answered",
           from \in Consuming \/ to \notin Consuming,
           Ends, active' \in {active, NoAttempt}, UNCHANGED <<leg, bridgeCalls>>
    PROVE  Causality'
BY CallbackMoves, QuietCausality

LEMMA CausalityPreserved == TypeOK /\ Causality /\ [Next]_vars => Causality'
<1>. SUFFICES ASSUME TypeOK, Causality, [Next]_vars PROVE Causality'
  OBVIOUS
<1>. USE DEF row, session, world, threads
<1>0. ASSUME copy' = copy PROVE Ends
  BY <1>0 DEF Ends
<1>1. ASSUME Ends, active' \in {active, NoAttempt}, UNCHANGED <<leg, callback, bridgeCalls>>,
             \A b \in Attempts : initiator'[b] # initiator[b] => initiator'[b] \notin {"idle", "creating"}
      PROVE  Causality'
  <2>1. \A b \in Attempts : Consumed(b)' = Consumed(b)
    BY <1>1 DEF Consumed
  <2>. QED  BY <1>1, <2>1, QuietCausality
<1>2. CASE CallStep
  <2>1. CASE ReceiveInitiated \/ SetDestination \/ \E r \in Reports : ProviderReports(r)
    BY <1>0, <1>1, <2>1 DEF ReceiveInitiated, SetDestination, ProviderReports
  <2>2. ASSUME NEW r \in Reports, LoadForStatus(r) PROVE Causality'
    <3>1. Load(<<"report", r>>) /\ r # "ringing" /\ <<"report", r>> \in Transactions
      BY <2>2, TransactionFacts DEF LoadForStatus
    <3>. QED  BY <3>1, LoadCausality
  <2>3. ASSUME NEW r \in Reports, ReceiveStatus(r) PROVE Causality'
    <3>1. Ends /\ active' = active /\ UNCHANGED <<world, threads>>
      BY <2>3, StatusEffect, ClosesEnds, TransactionFacts DEF Closes
    <3>. QED  BY <1>1, <3>1
  <2>4. ASSUME NEW r \in Reports, RejectStatus(r) PROVE Causality'
    <3>1. Ends /\ UNCHANGED <<row, world, threads>>
      BY <2>4, DoneEffect, ClosesEnds, TransactionFacts DEF RejectStatus
    <3>. QED  BY <1>1, <3>1
  <2>. QED  BY <1>2, <2>1, <2>2, <2>3, <2>4 DEF CallStep
<1>3. ASSUME NEW a \in Attempts, AttemptStep(a) PROVE Causality'
  <2>0. /\ <<"initiator", a>> \in Transactions /\ <<"leg", a>> \in Transactions
        /\ <<"provider-unavailable", RequestOf[a]>> \in EventIds
        /\ \A k \in {"transfer-bridged", "leg-failed", "bridge-failure"} : <<k, a>> \in EventIds
    BY TransactionFacts, RequestAssumption DEF EventIds
  <2>00. \A b \in Attempts : ThreadFit(b)
    BY DEF Causality
  <2>1. CASE LoadForClaim(a) \/ LoadForUnavailable(a) \/ LoadForLegFailed(a)
    <3>1. CASE LoadForClaim(a) \/ LoadForUnavailable(a)
      BY <2>0, <3>1, LoadCausality DEF LoadForClaim, LoadForUnavailable
    <3>2. CASE LoadForLegFailed(a)
      BY <2>0, <3>2, LoadCausality DEF LoadForLegFailed
    <3>. QED  BY <2>1, <3>1, <3>2
  <2>2. CASE LoseClaim(a)
    BY <1>1, <2>0, <2>2, DoneEffect, ClosesEnds, InitiatorMoves DEF LoseClaim
  <2>3. CASE CrashInitiator(a)
    BY <1>1, <2>0, <2>3, DoneEffect, ClosesEnds, InitiatorMoves DEF CrashInitiator
  <2>4. CASE WinClaim(a)
    <3>1. Ends /\ active' = a
      BY <2>0, <2>4, ClaimEffect, ClosesEnds DEF Closes
    <3>2. /\ initiator[a] = "idle" /\ UNCHANGED <<leg, callback, bridgeCalls>>
          /\ \A b \in Attempts : initiator'[b] = IF b = a THEN "creating" ELSE initiator[b]
          /\ \A b \in Attempts : Consumed(b)' = Consumed(b)
      BY <2>4, InitiatorMoves DEF WinClaim
    <3>3. Consumed(a) = {} /\ bridgeCalls[a] = 0 /\ leg[a] = "none"
      BY <2>00, <3>2 DEF ThreadFit, Consumed
    <3>4. ASSUME NEW b \in Attempts PROVE ThreadFit(b)'
      BY <2>00, <3>1, <3>2, <3>3 DEF ThreadFit
    <3>. QED  BY <3>1, <3>2, <3>4, EndsCausality DEF Onward
  <2>5. CASE CreateLeg(a) \/ CreateLegFails(a) \/ LegResolves(a)
    <3>1. leg \in [Attempts -> LegStates] /\ initiator \in [Attempts -> InitiatorStates]
      BY DEF TypeOK
    <3>2. /\ UNCHANGED <<row, session, callback, bridgeCalls>>
          /\ \A b \in Attempts : /\ initiator'[b] \in {"idle", "creating"} => initiator'[b] = initiator[b]
                                 /\ b # a => leg'[b] = leg[b]
      BY <2>5, <3>1 DEF CreateLeg, CreateLegFails, LegResolves, InitiatorTo
    <3>3. leg'[a] = leg[a] \/ (leg[a] \in {"none", "dialing"} /\ initiator'[a] \notin {"idle", "creating"})
      BY <2>00, <2>5, <3>1 DEF CreateLeg, CreateLegFails, LegResolves, InitiatorTo, ThreadFit
    <3>4. ASSUME NEW b \in Attempts PROVE ThreadFit(b)'
      <4>1. Consumed(b)' = Consumed(b)
        BY <3>2 DEF Consumed
      <4>. QED  BY <2>00, <3>2, <3>3, <4>1 DEF ThreadFit
    <3>. QED  BY <1>0, <3>2, <3>3, <3>4, EndsCausality DEF Onward
  <2>6. CASE RecordProviderUnavailable(a)
    <3>1. Ends /\ active' \in {active, NoAttempt}
      BY <2>0, <2>6, ReturnEffect, ClosesEnds DEF Closes, RecordProviderUnavailable
    <3>. QED  BY <1>1, <2>6, <3>1, InitiatorMoves DEF RecordProviderUnavailable
  <2>7. CASE RecordConsultationStarted(a)
    BY <1>0, <1>1, <2>7, InitiatorMoves DEF RecordConsultationStarted, RecordEvent
  <2>8. CASE TransferUnavailable(a)
    BY <1>0, <1>1, <2>8, InitiatorMoves DEF TransferUnavailable
  <2>9. CASE ReceiveLegFailed(a)
    <3>1. Ends /\ active' \in {active, NoAttempt} /\ UNCHANGED <<leg, threads>>
      BY <2>0, <2>9, ReturnEffect, ClosesEnds DEF Closes, ReceiveLegFailed
    <3>. QED  BY <1>1, <3>1
  <2>10. ASSUME NEW d \in Deliveries,
                ReceiveAnswered(a, d) \/ CallbackStep(a, d) \/ CrashCallback(a, d)
         PROVE  Causality'
    <3>0. <<"callback", a, d>> \in Transactions
      BY TransactionFacts
    <3>1. CASE ReceiveAnswered(a, d)
      BY <1>0, <3>1, CallbackCausality DEF ReceiveAnswered, RecordEvent, Consuming
    <3>2. CASE RecordAiLegRemoved(a, d)
      BY <1>0, <3>2, CallbackCausality DEF RecordAiLegRemoved, RecordEvent, Consuming
    <3>3. CASE LoadForCallback(a, d)
      BY <3>0, <3>3, LoadCausality DEF LoadForCallback
    <3>4. CASE WinConsume(a, d)
      <4>1. Ends /\ active' = NoAttempt
        BY <3>0, <3>4, ConsumeEffect, ClosesEnds DEF Closes
      <4>2. CallbackTo(a, d, "consuming", "bridging") /\ UNCHANGED <<leg, bridgeCalls>>
        BY <3>4 DEF WinConsume
      <4>3. ASSUME NEW b \in Attempts PROVE ThreadFit(b)'
        BY <2>00, <4>1, <4>2, CallbackMoves, NoAttemptAssumption DEF ThreadFit
      <4>. QED  BY <4>1, <4>2, <4>3, CallbackMoves, EndsCausality DEF Onward
    <3>5. CASE LoseConsume(a, d)
      BY <3>0, <3>5, DoneEffect, ClosesEnds, CallbackCausality DEF LoseConsume, Consuming
    <3>6. CASE CrashCallback(a, d)
      BY <3>0, <3>6, DoneEffect, ClosesEnds, CallbackCausality DEF CrashCallback, Consuming
    <3>7. CASE BridgeCall(a, d)
      <4>1. /\ UNCHANGED <<row, session, leg>>
            /\ \A b \in Attempts : bridgeCalls'[b] = IF b = a THEN bridgeCalls[b] + 1 ELSE bridgeCalls[b]
        BY <3>7 DEF BridgeCall, TypeOK
      <4>2. PICK outcome \in {"bridged", "failing"} : CallbackTo(a, d, "bridging", outcome)
        BY <3>7 DEF BridgeCall
      <4>3. Consumed(a) # {} /\ leg[a] = "answered" /\ initiator[a] # "idle" /\ active # a
        BY <2>00, <4>2, CallbackMoves DEF ThreadFit, Consumed
      <4>4. ASSUME NEW b \in Attempts PROVE ThreadFit(b)'
        <5>1. CASE b = a
          BY <2>00, <4>1, <4>2, <4>3, <5>1, CallbackMoves DEF ThreadFit
        <5>2. CASE b # a
          BY <2>00, <4>1, <4>2, <5>2, CallbackMoves DEF ThreadFit
        <5>. QED  BY <5>1, <5>2
      <4>. QED  BY <1>0, <4>1, <4>2, <4>4, CallbackMoves, EndsCausality DEF Onward
    <3>8. CASE RecordBridgeFailure(a, d)
      <4>1. Ends /\ active' \in {active, NoAttempt}
        BY <2>0, <3>0, <3>8, ReturnEffect, ClosesEnds DEF Closes, RecordBridgeFailure
      <4>. QED  BY <3>8, <4>1, CallbackCausality DEF RecordBridgeFailure, Consuming
    <3>9. CASE RecordBridged(a, d)
      <4>1. Ends /\ active' \in {active, NoAttempt}
        BY <2>0, <3>0, <3>9, ReturnEffect, ClosesEnds DEF Closes, RecordBridged
      <4>. QED  BY <3>9, <4>1, CallbackCausality DEF RecordBridged, Consuming
    <3>. QED  BY <2>10, <3>1, <3>2, <3>3, <3>4, <3>5, <3>6, <3>7, <3>8, <3>9 DEF CallbackStep
  <2>. QED  BY <1>3, <2>1, <2>2, <2>3, <2>4, <2>5, <2>6, <2>7, <2>8, <2>9, <2>10
            DEF AttemptStep, InitiatorStep, LegStep
<1>4. CASE UNCHANGED vars
  BY <1>0, <1>1, <1>4 DEF vars
<1>. QED  BY <1>2, <1>3, <1>4 DEF Next

------------------------------------------------------------------------------
\* The protocol, for as long as no transaction is overtaken.

\* Every step loads a row, ends a transaction that wrote one, or leaves the copies
\* that stay and a row that exists as they are.
LEMMA CopyStep ==
    ASSUME TypeOK, [Next]_vars
    PROVE  \/ \E t \in Transactions : Load(t)
           \/ \E t \in Transactions : Closes(t)
           \/ Ends /\ overtaken' = overtaken /\ (status = "none" \/ status' = status)
<1>. DEFINE Loads == \E t \in Transactions : Load(t)
            Writes == \E t \in Transactions : Closes(t)
            Rests == Ends /\ overtaken' = overtaken /\ (status = "none" \/ status' = status)
<1>. SUFFICES Loads \/ Writes \/ Rests
  OBVIOUS
<1>. USE DEF row, session, world, threads
<1>0. ASSUME copy' = copy PROVE Ends
  BY <1>0 DEF Ends
<1>00. ASSUME NEW t \in Transactions, Closes(t) PROVE Writes
  BY <1>00
<1>1. CASE CallStep
  <2>1. ASSUME NEW r \in Reports, ReceiveStatus(r) PROVE Writes
    BY <2>1, StatusEffect DEF Closes
  <2>2. ASSUME NEW r \in Reports, LoadForStatus(r) PROVE Loads
    BY <2>2, TransactionFacts DEF LoadForStatus
  <2>3. ASSUME NEW r \in Reports, RejectStatus(r) PROVE Rests
    BY <2>3, TransactionFacts, DoneEffect, ClosesEnds DEF RejectStatus
  <2>4. CASE ReceiveInitiated \/ SetDestination \/ \E r \in Reports : ProviderReports(r)
    BY <1>0, <2>4 DEF ReceiveInitiated, SetDestination, ProviderReports
  <2>. QED  BY <1>1, <2>1, <2>2, <2>3, <2>4 DEF CallStep
<1>2. ASSUME NEW a \in Attempts, AttemptStep(a) PROVE Loads \/ Writes \/ Rests
  <2>0. /\ <<"initiator", a>> \in Transactions /\ <<"leg", a>> \in Transactions
        /\ <<"provider-unavailable", RequestOf[a]>> \in EventIds
        /\ \A k \in {"transfer-bridged", "leg-failed", "bridge-failure"} : <<k, a>> \in EventIds
    BY TransactionFacts, RequestAssumption DEF EventIds
  <2>1. CASE WinClaim(a)
    BY <2>0, <2>1, ClaimEffect
  <2>2. CASE RecordProviderUnavailable(a)
    BY <2>0, <2>2, ReturnEffect DEF RecordProviderUnavailable
  <2>3. CASE ReceiveLegFailed(a)
    BY <2>0, <2>3, ReturnEffect DEF ReceiveLegFailed
  <2>4. CASE LoadForClaim(a) \/ LoadForUnavailable(a) \/ LoadForLegFailed(a)
    BY <2>0, <2>4 DEF LoadForClaim, LoadForUnavailable, LoadForLegFailed
  <2>5. CASE LoseClaim(a) \/ CrashInitiator(a)
    BY <2>0, <2>5, DoneEffect, ClosesEnds DEF LoseClaim, CrashInitiator
  <2>6. CASE TransferUnavailable(a) \/ CreateLeg(a) \/ CreateLegFails(a)
             \/ RecordConsultationStarted(a) \/ LegResolves(a)
    BY <1>0, <2>6 DEF TransferUnavailable, CreateLeg, CreateLegFails, RecordConsultationStarted,
                      RecordEvent, LegResolves
  <2>7. ASSUME NEW d \in Deliveries,
               ReceiveAnswered(a, d) \/ CallbackStep(a, d) \/ CrashCallback(a, d)
        PROVE  Loads \/ Writes \/ Rests
    <3>0. <<"callback", a, d>> \in Transactions
      BY TransactionFacts
    <3>1. CASE WinConsume(a, d)
      BY <3>0, <3>1, ConsumeEffect
    <3>2. CASE RecordBridgeFailure(a, d)
      BY <2>0, <3>0, <3>2, ReturnEffect DEF RecordBridgeFailure
    <3>3. CASE RecordBridged(a, d)
      BY <2>0, <3>0, <3>3, ReturnEffect DEF RecordBridged
    <3>4. CASE LoadForCallback(a, d)
      BY <3>0, <3>4 DEF LoadForCallback
    <3>5. CASE LoseConsume(a, d) \/ CrashCallback(a, d)
      BY <3>0, <3>5, DoneEffect, ClosesEnds DEF LoseConsume, CrashCallback
    <3>6. CASE ReceiveAnswered(a, d) \/ BridgeCall(a, d) \/ RecordAiLegRemoved(a, d)
      BY <1>0, <3>6 DEF ReceiveAnswered, BridgeCall, RecordAiLegRemoved, RecordEvent
    <3>. QED  BY <2>7, <3>1, <3>2, <3>3, <3>4, <3>5, <3>6 DEF CallbackStep
  <2>. QED  BY <1>2, <2>1, <2>2, <2>3, <2>4, <2>5, <2>6, <2>7 DEF AttemptStep, InitiatorStep, LegStep
<1>3. CASE UNCHANGED vars
  BY <1>0, <1>3 DEF vars
<1>. QED  BY <1>1, <1>2, <1>3 DEF Next

LEMMA OvertakenStays == TypeOK /\ [Next]_vars => (overtaken => overtaken')
BY CopyStep DEF Closes, Load

\* A step that leaves the row alone and starts no bridge.
LEMMA QuietProtocol ==
    ASSUME ProtocolInv, UNCHANGED <<status, active, bridgeCalls>>, events \subseteq events',
           \A b \in Attempts :
              /\ Consumed(b)' \subseteq Consumed(b)
              /\ \A e \in Deliveries : callback'[b][e] = "bridging" => callback[b][e] = "bridging"
    PROVE  ProtocolInv'
<1>1. RowInv' /\ BridgeInv'
  BY DEF ProtocolInv, RowInv, BridgeInv
<1>2. \A b \in Attempts : Consumed(b) \subseteq Deliveries
  BY DEF Consumed
<1>3. ConsumeInv'
  BY <1>2 DEF ProtocolInv, ConsumeInv
<1>. QED  BY <1>1, <1>3 DEF ProtocolInv

\* A transfer event that returns the call does so while nothing is consumed that
\* still waits for the row.
LEMMA ReturnProtocol ==
    ASSUME ProtocolInv, events \subseteq events', bridgeCalls' = bridgeCalls,
           status = "transferring", status' = "in_progress", active' = NoAttempt,
           \A b \in Attempts : Consumed(b)' = {}
    PROVE  ProtocolInv'
<1>1. RowInv' /\ BridgeInv'
  BY DEF ProtocolInv, RowInv, BridgeInv
<1>2. ConsumeInv'
  BY DEF ConsumeInv
<1>. QED  BY <1>1, <1>2 DEF ProtocolInv

\* A gated transfer event moves the row only while its attempt owns it, so no
\* consumed attempt is waiting for the row.
LEMMA GatedProtocol ==
    ASSUME ProtocolInv, NEW a \in Attempts, events \subseteq events', UNCHANGED <<callback, bridgeCalls>>,
           \/ UNCHANGED <<status, active>>
           \/ /\ status \in {"ringing", "transferring"}
              /\ active = a
              /\ status' = "in_progress"
              /\ active' = IF status = "transferring" THEN NoAttempt ELSE active
    PROVE  /\ ProtocolInv'
           /\ \/ UNCHANGED <<status, active>>
              \/ /\ status = "transferring" /\ active = a
                 /\ status' = "in_progress" /\ active' = NoAttempt
                 /\ \A b \in Attempts : Consumed(b) = {} /\ Consumed(b)' = {}
<1>1. CASE UNCHANGED <<status, active>>
  <2>1. \A b \in Attempts : Consumed(b)' = Consumed(b)
    BY DEF Consumed
  <2>. QED  BY <1>1, <2>1, QuietProtocol
<1>2. CASE ~UNCHANGED <<status, active>>
  <2>1. active = a /\ status = "transferring" /\ status' = "in_progress" /\ active' = NoAttempt
    BY <1>2, NoAttemptAssumption DEF ProtocolInv, RowInv, Terminal
  <2>2. ASSUME NEW b \in Attempts PROVE Consumed(b) = {} /\ Consumed(b)' = {}
    <3>1. Consumed(b)' = Consumed(b)
      BY DEF Consumed
    <3>2. \A d \in Consumed(b) : active = NoAttempt
      BY DEF ProtocolInv, ConsumeInv
    <3>. QED  BY <2>1, <3>1, <3>2, NoAttemptAssumption
  <2>. QED  BY <2>1, <2>2, ReturnProtocol
<1>. QED  BY <1>1, <1>2

LEMMA StatusProtocol ==
    ASSUME TypeOK, Causality, ProtocolInv, NEW r \in Reports, ReceiveStatus(r), ~overtaken'
    PROVE  /\ ProtocolInv'
           /\ UNCHANGED <<active, threads>>
           /\ \/ status' = status
              \/ status = "ringing" /\ status' = "in_progress"
              \/ status \notin Terminal \cup {"none"} /\ status' \in Terminal
<1>. USE DEF world, threads
<1>1. /\ UNCHANGED <<active, leg, initiator, callback, bridgeCalls>>
      /\ events' = events \cup {<<"call", r>>} /\ <<"call", r>> \notin events
      /\ status' = ReportedStatus[r]
      /\ ReportedStatus[r] \in AllowedTransitions[status] \cup {status}
  BY StatusEffect
<1>2. r # "ringing"
  BY StatusEffect DEF Closes, Causality
<1>3. status \in Statuses
  BY DEF TypeOK
<1>4. status \in Terminal \cup {"none"} => status' = status
  BY <1>1, AllowedFacts
<1>5. r = "in-progress" \/ status' \in Terminal
  BY <1>1, <1>2 DEF Reports, ReportedStatus, Terminal
<1>6. r = "in-progress" => status \notin {"in_progress", "transferring"} /\ status' = "in_progress"
  BY <1>1 DEF ProtocolInv, RowInv, ReportedStatus
<1>7. RowInv'
  BY <1>1, <1>4, <1>5, <1>6 DEF ProtocolInv, RowInv, Terminal
<1>8. \A b \in Attempts : Consumed(b)' = Consumed(b)
  BY <1>1 DEF Consumed
<1>9. \A s \in Statuses : s \in {"transferring"} \cup Terminal => s # "ringing" /\ s # "in_progress"
  BY DEF Terminal
<1>10. ConsumeInv'
  <2>1. status \in {"transferring"} \cup Terminal => status' \in {"transferring"} \cup Terminal
    BY <1>4, <1>5, <1>6 DEF Terminal
  <2>. QED  BY <1>1, <1>8, <2>1 DEF ProtocolInv, ConsumeInv
<1>11. \/ status' = status
       \/ status = "ringing" /\ status' = "in_progress"
       \/ status \notin Terminal \cup {"none"} /\ status' \in Terminal
  BY <1>3, <1>4, <1>5, <1>6 DEF Statuses, Terminal
<1>. QED  BY <1>1, <1>7, <1>10, <1>11 DEF ProtocolInv, BridgeInv

LEMMA ClaimProtocol ==
    ASSUME TypeOK, ProtocolInv, NEW a \in Attempts, WinClaim(a), ~overtaken'
    PROVE  /\ ProtocolInv'
           /\ status = "in_progress" /\ active = NoAttempt /\ status' = "transferring" /\ active' = a
           /\ \A b \in Attempts : Consumed(b) = {} /\ Consumed(b)' = {}
<1>1. status = "in_progress" /\ active = NoAttempt /\ status' = "transferring" /\ active' = a
  BY ClaimEffect
<1>2. events \subseteq events' /\ bridgeCalls' = bridgeCalls /\ \A b \in Attempts : Consumed(b)' = Consumed(b)
  BY InitiatorMoves DEF WinClaim
<1>3. \A b \in Attempts : Consumed(b) = {}
  BY <1>1 DEF ProtocolInv, ConsumeInv, Terminal
<1>4. RowInv' /\ BridgeInv'
  BY <1>1, <1>2 DEF ProtocolInv, RowInv, BridgeInv
<1>5. ConsumeInv'
  BY <1>2, <1>3 DEF ConsumeInv
<1>. QED  BY <1>1, <1>2, <1>3, <1>4, <1>5 DEF ProtocolInv

LEMMA ConsumeProtocol ==
    ASSUME TypeOK, Causality, ProtocolInv, NEW a \in Attempts, NEW d \in Deliveries,
           WinConsume(a, d), ~overtaken'
    PROVE  /\ ProtocolInv'
           /\ status = "transferring" /\ active = a /\ status' = "transferring" /\ active' = NoAttempt
           /\ \A b \in Attempts : Consumed(b) = {} /\ Consumed(b)' = IF b = a THEN {d} ELSE {}
<1>1. status = "transferring" /\ active = a /\ status' = "transferring" /\ active' = NoAttempt
  BY ConsumeEffect
<1>2. /\ CallbackTo(a, d, "consuming", "bridging") /\ UNCHANGED <<events, bridgeCalls>>
  BY DEF WinConsume
<1>3. \A b \in Attempts : Consumed(b) = {}
  BY <1>1, NoAttemptAssumption DEF ProtocolInv, ConsumeInv
<1>4. ASSUME NEW b \in Attempts PROVE Consumed(b)' = IF b = a THEN {d} ELSE {}
  <2>1. CASE b # a
    BY <1>2, <1>3, <2>1, CallbackMoves
  <2>2. CASE b = a
    <3>1. \A e \in Deliveries : callback'[a][e] = IF e = d THEN "bridging" ELSE callback[a][e]
      BY <1>2, CallbackMoves
    <3>2. \A e \in Deliveries : callback[a][e] \notin {"bridging", "bridged", "failing"}
      BY <1>3 DEF Consumed
    <3>. QED  BY <2>2, <3>1, <3>2 DEF Consumed
  <2>. QED  BY <2>1, <2>2
<1>5. bridgeCalls[a] = 0
  <2>1. bridgeCalls[a] \in Nat /\ ~(bridgeCalls[a] > 0)
    BY <1>1 DEF Causality, ThreadFit, TypeOK
  <2>. QED  BY <2>1
<1>6. RowInv' /\ BridgeInv'
  BY <1>1, <1>2, NoAttemptAssumption DEF ProtocolInv, RowInv, BridgeInv
<1>7. ConsumeInv'
  BY <1>1, <1>2, <1>4, <1>5 DEF ConsumeInv
<1>. QED  BY <1>1, <1>3, <1>4, <1>6, <1>7 DEF ProtocolInv

LEMMA BridgeProtocol ==
    ASSUME TypeOK, ProtocolInv, NEW a \in Attempts, NEW d \in Deliveries, BridgeCall(a, d)
    PROVE  ProtocolInv' /\ \A b \in Attempts : Consumed(b)' = Consumed(b)
<1>1. PICK outcome \in {"bridged", "failing"} : CallbackTo(a, d, "bridging", outcome)
  BY DEF BridgeCall
<1>2. /\ \A b \in Attempts : \A e \in Deliveries :
            callback'[b][e] = IF b = a /\ e = d THEN outcome ELSE callback[b][e]
      /\ callback[a][d] = "bridging"
  BY <1>1, CallbackMoves
<1>3. \A b \in Attempts : Consumed(b)' = Consumed(b)
  BY <1>2 DEF Consumed
<1>4. /\ \A b \in Attempts : bridgeCalls'[b] = IF b = a THEN bridgeCalls[b] + 1 ELSE bridgeCalls[b]
      /\ UNCHANGED <<status, active, events>>
  BY DEF BridgeCall, TypeOK, row
<1>5. d \in Consumed(a) /\ bridgeCalls[a] = 0
  BY <1>2 DEF Consumed, ProtocolInv, ConsumeInv
<1>6. RowInv' /\ BridgeInv'
  BY <1>4, <1>5 DEF ProtocolInv, RowInv, BridgeInv
<1>7. ConsumeInv'
  <2>1. ASSUME NEW b \in Attempts, NEW e \in Consumed(b)
        PROVE  /\ active = NoAttempt
               /\ status \in {"transferring"} \cup Terminal
               /\ callback[b][e] = "bridging" => bridgeCalls[b] = 0
               /\ \A c \in Attempts : \A f \in Consumed(c) : b = c /\ e = f
    BY DEF ProtocolInv, ConsumeInv
  <2>2. ASSUME NEW b \in Attempts, NEW e \in Consumed(b)
        PROVE  b = a /\ e = d /\ callback'[b][e] # "bridging"
    BY <1>2, <1>5, <2>1, <2>2
  <2>. QED  BY <1>3, <1>4, <2>1, <2>2 DEF ConsumeInv
<1>. QED  BY <1>3, <1>6, <1>7 DEF ProtocolInv

\* The closing record of a consumed attempt finds nothing else consumed.
LEMMA CloseProtocol ==
    ASSUME TypeOK, ProtocolInv, NEW a \in Attempts, NEW d \in Deliveries,
           NEW from \in {"failing", "bridged"}, NEW to, to \notin Consuming,
           CallbackTo(a, d, from, to), bridgeCalls' = bridgeCalls, events \subseteq events',
           \/ UNCHANGED <<status, active>>
           \/ /\ status \in {"ringing", "transferring"}
              /\ status' = "in_progress"
              /\ active' = IF status = "transferring" THEN NoAttempt ELSE active
    PROVE  /\ ProtocolInv'
           /\ active = NoAttempt /\ active' = NoAttempt
           /\ Consumed(a) = {d} /\ \A b \in Attempts : b # a => Consumed(b) = {}
           /\ \A b \in Attempts : Consumed(b)' = {}
           /\ status' = status \/ (status = "transferring" /\ status' = "in_progress")
<1>1. /\ \A b \in Attempts : \A e \in Deliveries :
            callback'[b][e] = IF b = a /\ e = d THEN to ELSE callback[b][e]
      /\ callback[a][d] = from
  BY CallbackMoves
<1>2. d \in Consumed(a)
  BY <1>1 DEF Consumed
<1>3. /\ active = NoAttempt
      /\ status \in {"transferring"} \cup Terminal
      /\ Consumed(a) = {d} /\ \A b \in Attempts : b # a => Consumed(b) = {}
  BY <1>2 DEF ProtocolInv, ConsumeInv
<1>4. ASSUME NEW b \in Attempts PROVE Consumed(b)' = {}
  <2>1. CASE b # a
    BY <1>3, <2>1, CallbackMoves
  <2>2. CASE b = a
    <3>1. Consumed(a)' \subseteq Consumed(a)
      BY CallbackMoves
    <3>2. d \notin Consumed(a)'
      BY <1>1 DEF Consumed, Consuming
    <3>. QED  BY <1>3, <2>2, <3>1, <3>2
  <2>. QED  BY <2>1, <2>2
<1>5. active' = NoAttempt /\ (status' = status \/ (status = "transferring" /\ status' = "in_progress"))
  BY <1>3 DEF Terminal
<1>6. RowInv' /\ BridgeInv'
  BY <1>5 DEF ProtocolInv, RowInv, BridgeInv
<1>7. ConsumeInv'
  BY <1>4 DEF ConsumeInv
<1>. QED  BY <1>3, <1>4, <1>5, <1>6, <1>7 DEF ProtocolInv

------------------------------------------------------------------------------
\* What a step does to the right of each attempt (TransferOwnership).  Right[a] is
\* decided by three facts:
Idle(a)  == initiator[a] = "idle"
Holds(a) == status = "transferring" /\ active = a
InBridge(a) == Consumed(a) # {}

SameFor(a) == /\ Idle(a)' <=> Idle(a)
              /\ Holds(a)' <=> Holds(a)
              /\ InBridge(a)' <=> InBridge(a)

Follows == Ownership!Keeps \/ (Line' = Line /\ Right' = Right)

LEMMA RightValue ==
    ASSUME NEW a \in Attempts
    PROVE  /\ Idle(a) => Right[a] = "fresh"
           /\ ~Idle(a) /\ Holds(a) => Right[a] = "claimed"
           /\ ~Idle(a) /\ ~Holds(a) /\ InBridge(a) => Right[a] = "bridging"
           /\ ~Idle(a) /\ ~Holds(a) /\ ~InBridge(a) => Right[a] = "spent"
BY DEF Right, Idle, Holds, InBridge

LEMMA RightValueNext ==
    ASSUME NEW a \in Attempts
    PROVE  /\ Idle(a)' => Right'[a] = "fresh"
           /\ ~Idle(a)' /\ Holds(a)' => Right'[a] = "claimed"
           /\ ~Idle(a)' /\ ~Holds(a)' /\ InBridge(a)' => Right'[a] = "bridging"
           /\ ~Idle(a)' /\ ~Holds(a)' /\ ~InBridge(a)' => Right'[a] = "spent"
BY DEF Right, Idle, Holds, InBridge

\* A step that changes none of the three facts is a stutter of the abstraction.
LEMMA RightSame ==
    ASSUME \A a \in Attempts : SameFor(a)
    PROVE  Right' = Right
<1>1. \A a \in Attempts : Right'[a] = Right[a]
  BY RightValue, RightValueNext DEF SameFor
<1>. QED  BY <1>1 DEF Right

\* A step that changes them for one attempt only updates Right there.
LEMMA RightUpdate ==
    ASSUME NEW a \in Attempts, \A b \in Attempts \ {a} : SameFor(b), NEW v, Right'[a] = v
    PROVE  Right' = [Right EXCEPT ![a] = v]
<1>1. \A b \in Attempts : Right'[b] = IF b = a THEN v ELSE Right[b]
  BY RightValue, RightValueNext DEF SameFor
<1>2. /\ Right = [b \in Attempts |-> Right[b]]
      /\ Right' = [b \in Attempts |-> Right'[b]]
  BY DEF Right
<1>. QED  BY <1>1, <1>2

\* An attempt that stops being live, or never wins, surrenders its right.
LEMMA RightSpent ==
    ASSUME NEW a \in Attempts, \A b \in Attempts \ {a} : SameFor(b), Line' = Line,
           Idle(a) \/ Holds(a) \/ InBridge(a),
           ~Idle(a)', ~Holds(a)', ~InBridge(a)'
    PROVE  Follows
<1>1. Right[a] # "spent"
  BY RightValue
<1>2. Right' = [Right EXCEPT ![a] = "spent"]
  BY RightUpdate, RightValueNext
<1>. QED  BY <1>1, <1>2 DEF Follows, Ownership!Keeps, Ownership!Surrender

\* A step that leaves the row and the threads as they are, as far as this matters.
LEMMA SameFollows ==
    ASSUME UNCHANGED <<status, active>>,
           \A b \in Attempts : (Idle(b)' <=> Idle(b)) /\ (InBridge(b)' <=> InBridge(b))
    PROVE  Follows
<1>1. Line' = Line
  BY DEF Line
<1>2. \A b \in Attempts : SameFor(b)
  BY DEF SameFor, Holds
<1>. QED  BY <1>1, <1>2, RightSame DEF Follows

\* The actors an attempt may lose the row to.
Free(b) == \/ leg[b] = "failed"
           \/ initiator[b] = "refused"
           \/ \E d \in Deliveries : callback[b][d] = "consuming"

OwnRelease == \A b \in Attempts : active = b /\ active' # b => Free(b)

\* What every step does while nothing is overtaken.
Kept == ProtocolInv' /\ Follows /\ OwnRelease

LEMMA CallStepKept ==
    ASSUME TypeOK, Causality, ProtocolInv, CallStep, ~overtaken'
    PROVE  Kept
<1>. USE DEF row, world, threads
<1>0. ASSUME UNCHANGED <<status, active, initiator, callback, bridgeCalls>>, events \subseteq events'
      PROVE  Kept
  <2>1. \A b \in Attempts : Consumed(b)' = Consumed(b)
    BY <1>0 DEF Consumed
  <2>2. ProtocolInv'
    BY <1>0, <2>1, QuietProtocol
  <2>3. Follows
    BY <1>0, <2>1, SameFollows DEF Idle, InBridge
  <2>. QED  BY <1>0, <2>2, <2>3 DEF Kept, OwnRelease
<1>1. CASE ReceiveInitiated
  <2>1. /\ status' = status \/ (status = "none" /\ status' = "ringing")
        /\ UNCHANGED <<active, leg, initiator, callback, bridgeCalls>> /\ events \subseteq events'
    BY <1>1 DEF ReceiveInitiated
  <2>2. CASE status = "none" /\ status' = "ringing"
    <3>1. active = NoAttempt /\ \A b \in Attempts : Consumed(b) = {}
      BY <2>2 DEF ProtocolInv, RowInv, ConsumeInv, Terminal
    <3>2. \A b \in Attempts : Consumed(b)' = {}
      BY <2>1, <3>1 DEF Consumed
    <3>3. RowInv' /\ ConsumeInv' /\ BridgeInv'
      BY <2>1, <2>2, <3>1, <3>2 DEF ProtocolInv, RowInv, ConsumeInv, BridgeInv
    <3>4. Line' = Line
      BY <2>2 DEF Line, Terminal
    <3>5. \A b \in Attempts : SameFor(b)
      BY <2>1, <2>2, <3>1, <3>2, NoAttemptAssumption DEF SameFor, Idle, Holds, InBridge
    <3>. QED  BY <2>1, <3>3, <3>4, <3>5, RightSame DEF Kept, ProtocolInv, Follows, OwnRelease
  <2>. QED  BY <1>0, <2>1, <2>2
<1>2. ASSUME NEW r \in Reports, ReceiveStatus(r) PROVE Kept
  <2>1. /\ ProtocolInv'
        /\ UNCHANGED <<active, threads>>
        /\ \/ status' = status
           \/ status = "ringing" /\ status' = "in_progress"
           \/ status \notin Terminal \cup {"none"} /\ status' \in Terminal
    BY <1>2, StatusProtocol
  <2>2. \A b \in Attempts : Consumed(b)' = Consumed(b) /\ (Idle(b)' <=> Idle(b))
    BY <2>1 DEF Consumed, Idle
  <2>3. OwnRelease
    BY <2>1 DEF OwnRelease
  <2>4. CASE status' = status
    BY <2>1, <2>2, <2>3, <2>4, SameFollows DEF Kept, InBridge
  <2>5. CASE status = "ringing" /\ status' = "in_progress"
    <3>1. \A b \in Attempts : SameFor(b)
      BY <2>2, <2>5 DEF SameFor, Holds, InBridge
    <3>2. Line = "setup" /\ Line' = "up"
      BY <2>5 DEF Line, Terminal
    <3>. QED  BY <2>1, <2>3, <3>1, <3>2, RightSame DEF Kept, Follows, Ownership!Keeps, Ownership!Connect
  <2>6. CASE status \notin Terminal \cup {"none"} /\ status' \in Terminal
    <3>1. Line # "ended" /\ Line' = "ended"
      BY <2>6 DEF Line, Terminal
    <3>2. ASSUME NEW b \in Attempts
          PROVE  Right'[b] = IF Right[b] = "claimed" THEN "spent" ELSE Right[b]
      <4>1. ~Holds(b)' /\ (InBridge(b)' <=> InBridge(b))
        BY <2>2, <2>6 DEF Holds, InBridge, Terminal
      <4>2. Holds(b) => ~InBridge(b)
        BY NoAttemptAssumption DEF Holds, InBridge, ProtocolInv, ConsumeInv
      <4>. QED  BY <2>2, <4>1, <4>2, RightValue, RightValueNext
    <3>3. Right' = [b \in Attempts |-> IF Right[b] = "claimed" THEN "spent" ELSE Right[b]]
      BY <3>2 DEF Right
    <3>. QED  BY <2>1, <2>3, <3>1, <3>3 DEF Kept, Follows, Ownership!Keeps, Ownership!HangUp
  <2>. QED  BY <2>1, <2>4, <2>5, <2>6
<1>. QED  BY <1>0, <1>1, <1>2
          DEF CallStep, SetDestination, ProviderReports, LoadForStatus, Load, RejectStatus

\* A gated transfer event leaves the row alone or gives up the claim it is gated by.
LEMMA GatedKept ==
    ASSUME TypeOK, Causality, ProtocolInv, NEW a \in Attempts, NEW t \in Transactions,
           NEW id \in EventIds, ReturnCall(t, id, {a}), ~overtaken', Free(a),
           UNCHANGED <<callback, bridgeCalls>>, \A b \in Attempts : Idle(b)' <=> Idle(b)
    PROVE  Kept
<1>1. /\ events \subseteq events'
      /\ \/ UNCHANGED <<status, active>>
         \/ /\ status \in {"ringing", "transferring"}
            /\ active = a
            /\ status' = "in_progress"
            /\ active' = IF status = "transferring" THEN NoAttempt ELSE active
  BY ReturnEffect
<1>2. /\ ProtocolInv'
      /\ \/ UNCHANGED <<status, active>>
         \/ /\ status = "transferring" /\ active = a
            /\ status' = "in_progress" /\ active' = NoAttempt
            /\ \A b \in Attempts : Consumed(b) = {} /\ Consumed(b)' = {}
  BY <1>1, GatedProtocol
<1>3. OwnRelease
  BY <1>2 DEF OwnRelease
<1>4. CASE UNCHANGED <<status, active>>
  <2>1. \A b \in Attempts : InBridge(b)' <=> InBridge(b)
    BY DEF InBridge, Consumed
  <2>. QED  BY <1>2, <1>3, <1>4, <2>1, SameFollows DEF Kept
<1>5. CASE /\ status = "transferring" /\ active = a
           /\ status' = "in_progress" /\ active' = NoAttempt
           /\ \A b \in Attempts : Consumed(b) = {} /\ Consumed(b)' = {}
  <2>1. Holds(a) /\ ~Holds(a)' /\ \A b \in Attempts : ~InBridge(b) /\ ~InBridge(b)'
    BY <1>5 DEF Holds, InBridge
  <2>2. ~Idle(a) /\ ~Idle(a)'
    BY <1>5 DEF Idle, Causality, ThreadFit
  <2>3. \A b \in Attempts \ {a} : SameFor(b)
    BY <1>5, <2>1, NoAttemptAssumption DEF SameFor, Holds
  <2>4. Line' = Line
    BY <1>5 DEF Line, Terminal
  <2>. QED  BY <1>2, <1>3, <2>1, <2>2, <2>3, <2>4, RightSpent DEF Kept
<1>. QED  BY <1>2, <1>4, <1>5

LEMMA InitiatorKept ==
    ASSUME TypeOK, Causality, ProtocolInv, NEW a \in Attempts, ~overtaken',
           \/ TransferUnavailable(a) \/ LoadForClaim(a) \/ LoseClaim(a) \/ WinClaim(a)
           \/ InitiatorStep(a) \/ CrashInitiator(a) \/ LegResolves(a) \/ LegStep(a)
    PROVE  Kept
<1>. USE DEF row, world, threads
<1>0. /\ <<"initiator", a>> \in Transactions /\ <<"leg", a>> \in Transactions
      /\ <<"provider-unavailable", RequestOf[a]>> \in EventIds /\ <<"leg-failed", a>> \in EventIds
  BY TransactionFacts, RequestAssumption DEF EventIds
<1>1. ASSUME UNCHANGED <<status, active, callback, bridgeCalls>>, events \subseteq events',
             \A b \in Attempts : Idle(b)' <=> Idle(b)
      PROVE  Kept
  <2>1. \A b \in Attempts : Consumed(b)' = Consumed(b)
    BY <1>1 DEF Consumed
  <2>2. ProtocolInv'
    BY <1>1, <2>1, QuietProtocol
  <2>3. Follows
    BY <1>1, <2>1, SameFollows DEF InBridge
  <2>. QED  BY <1>1, <2>2, <2>3 DEF Kept, OwnRelease
<1>2. CASE TransferUnavailable(a) \/ LoseClaim(a)
  <2>1. /\ UNCHANGED <<status, active, events, callback, bridgeCalls>>
        /\ Idle(a) /\ ~Idle(a)' /\ \A b \in Attempts \ {a} : Idle(b)' <=> Idle(b)
        /\ \A b \in Attempts : Consumed(b)' = Consumed(b)
    BY <1>2, InitiatorMoves DEF TransferUnavailable, LoseClaim, Idle
  <2>2. active # a /\ Consumed(a) = {}
    <3>1. \A d \in Deliveries : callback[a][d] = "idle"
      BY <2>1 DEF Idle, Causality, ThreadFit
    <3>2. active # a
      BY <2>1 DEF Idle, Causality, ThreadFit
    <3>. QED  BY <3>1, <3>2 DEF Consumed
  <2>3. ~Holds(a)' /\ ~InBridge(a)' /\ \A b \in Attempts \ {a} : SameFor(b)
    BY <2>1, <2>2 DEF SameFor, Holds, InBridge
  <2>4. Line' = Line
    BY <2>1 DEF Line
  <2>5. Follows
    BY <2>1, <2>3, <2>4, RightSpent
  <2>6. ProtocolInv'
    BY <2>1, QuietProtocol
  <2>. QED  BY <2>1, <2>5, <2>6 DEF Kept, OwnRelease
<1>3. CASE WinClaim(a)
  <2>1. /\ ProtocolInv'
        /\ status = "in_progress" /\ active = NoAttempt /\ status' = "transferring" /\ active' = a
        /\ \A b \in Attempts : Consumed(b) = {} /\ Consumed(b)' = {}
    BY <1>3, ClaimProtocol
  <2>2. Idle(a) /\ ~Idle(a)' /\ \A b \in Attempts \ {a} : Idle(b)' <=> Idle(b)
    BY <1>3, InitiatorMoves DEF WinClaim, Idle
  <2>3. Holds(a)' /\ \A b \in Attempts : ~Holds(b) /\ ~InBridge(b)
    BY <2>1 DEF Holds, InBridge
  <2>4. \A b \in Attempts \ {a} : SameFor(b)
    BY <2>1, <2>2, <2>3 DEF SameFor, Holds, InBridge
  <2>5. Line = "up" /\ Line' = "up"
    BY <2>1 DEF Line, Terminal
  <2>6. Right[a] = "fresh" /\ Right' = [Right EXCEPT ![a] = "claimed"]
    BY <2>2, <2>3, <2>4, RightValue, RightValueNext, RightUpdate
  <2>7. \A b \in Attempts : Right[b] \in {"fresh", "spent"}
    BY <2>3, RightValue
  <2>8. Follows
    BY <2>5, <2>6, <2>7 DEF Follows, Ownership!Keeps, Ownership!Claim, Ownership!Live
  <2>9. OwnRelease
    BY <2>1, NoAttemptAssumption DEF OwnRelease
  <2>. QED  BY <2>1, <2>8, <2>9 DEF Kept
<1>4. CASE CreateLeg(a) \/ CreateLegFails(a) \/ CrashInitiator(a)
  BY <1>1, <1>4, InitiatorMoves DEF CreateLeg, CreateLegFails, CrashInitiator, Idle
<1>5. CASE RecordProviderUnavailable(a)
  <2>1. ReturnCall(<<"initiator", a>>, <<"provider-unavailable", RequestOf[a]>>, {a}) /\ Free(a)
    BY <1>5 DEF RecordProviderUnavailable, Free
  <2>2. UNCHANGED <<callback, bridgeCalls>> /\ \A b \in Attempts : Idle(b)' <=> Idle(b)
    BY <1>5, InitiatorMoves DEF RecordProviderUnavailable, Idle
  <2>. QED  BY <1>0, <2>1, <2>2, GatedKept
<1>6. CASE RecordConsultationStarted(a)
  BY <1>1, <1>6, InitiatorMoves DEF RecordConsultationStarted, RecordEvent, Idle
<1>7. CASE LoadForClaim(a) \/ LoadForUnavailable(a) \/ LoadForLegFailed(a) \/ LegResolves(a)
  BY <1>1, <1>7 DEF LoadForClaim, LoadForUnavailable, LoadForLegFailed, Load, LegResolves, Idle
<1>8. CASE ReceiveLegFailed(a)
  <2>1. ReturnCall(<<"leg", a>>, <<"leg-failed", a>>, {a}) /\ UNCHANGED <<world, threads>>
    BY <1>8 DEF ReceiveLegFailed
  <2>2. copy[<<"leg", a>>] # NoCopy
    BY <1>0, <2>1, ReturnEffect DEF Closes
  <2>3. Free(a)
    BY <2>2 DEF Free, Causality, CopyFit
  <2>. QED  BY <1>0, <2>1, <2>3, GatedKept DEF Idle
<1>. QED  BY <1>2, <1>3, <1>4, <1>5, <1>6, <1>7, <1>8 DEF InitiatorStep, LegStep

LEMMA CallbackKept ==
    ASSUME TypeOK, Causality, ProtocolInv, NEW a \in Attempts, NEW d \in Deliveries, ~overtaken',
           ReceiveAnswered(a, d) \/ CallbackStep(a, d) \/ CrashCallback(a, d)
    PROVE  Kept
<1>. USE DEF row, world, threads
<1>0. /\ <<"callback", a, d>> \in Transactions
      /\ <<"bridge-failure", a>> \in EventIds /\ <<"transfer-bridged", a>> \in EventIds
  BY TransactionFacts DEF EventIds
<1>1. ASSUME NEW from, NEW to, CallbackTo(a, d, from, to), from \notin Consuming, to \notin Consuming,
             UNCHANGED <<status, active, bridgeCalls>>, events \subseteq events'
      PROVE  Kept
  <2>1. /\ \A b \in Attempts : \A e \in Deliveries :
              callback'[b][e] = IF b = a /\ e = d THEN to ELSE callback[b][e]
        /\ callback[a][d] = from /\ initiator' = initiator
    BY <1>1, CallbackMoves
  <2>2. \A b \in Attempts : Consumed(b)' = Consumed(b)
    BY <1>1, <2>1 DEF Consumed, Consuming
  <2>3. ProtocolInv'
    BY <1>1, <2>1, <2>2, QuietProtocol DEF Consuming
  <2>4. Follows
    BY <1>1, <2>1, <2>2, SameFollows DEF Idle, InBridge
  <2>. QED  BY <1>1, <2>3, <2>4 DEF Kept, OwnRelease
<1>2. CASE ReceiveAnswered(a, d)
  BY <1>1, <1>2 DEF ReceiveAnswered, RecordEvent, Consuming
<1>3. CASE LoadForCallback(a, d)
  <2>1. UNCHANGED <<status, active, events, initiator, callback, bridgeCalls>>
    BY <1>3 DEF LoadForCallback, Load
  <2>2. \A b \in Attempts : Consumed(b)' = Consumed(b)
    BY <2>1 DEF Consumed
  <2>3. ProtocolInv'
    BY <2>1, <2>2, QuietProtocol
  <2>4. Follows
    BY <2>1, <2>2, SameFollows DEF Idle, InBridge
  <2>. QED  BY <2>1, <2>3, <2>4 DEF Kept, OwnRelease
<1>4. CASE WinConsume(a, d)
  <2>1. /\ ProtocolInv'
        /\ status = "transferring" /\ active = a /\ status' = "transferring" /\ active' = NoAttempt
        /\ \A b \in Attempts : Consumed(b) = {} /\ Consumed(b)' = IF b = a THEN {d} ELSE {}
    BY <1>4, ConsumeProtocol
  <2>2. initiator' = initiator /\ callback[a][d] = "consuming"
    BY <1>4, CallbackMoves DEF WinConsume
  <2>3. ~Idle(a) /\ ~Idle(a)' /\ Holds(a) /\ ~Holds(a)' /\ InBridge(a)'
    BY <2>1, <2>2, NoAttemptAssumption DEF Idle, Holds, InBridge, Causality, ThreadFit
  <2>4. \A b \in Attempts \ {a} : SameFor(b)
    BY <2>1, <2>2, NoAttemptAssumption DEF SameFor, Idle, Holds, InBridge
  <2>5. Line = "up" /\ Line' = "up"
    BY <2>1 DEF Line, Terminal
  <2>6. Right[a] = "claimed" /\ Right' = [Right EXCEPT ![a] = "bridging"]
    BY <2>3, <2>4, RightValue, RightValueNext, RightUpdate
  <2>7. Follows
    BY <2>5, <2>6 DEF Follows, Ownership!Keeps, Ownership!Consume
  <2>8. OwnRelease
    BY <2>1, <2>2 DEF OwnRelease, Free
  <2>. QED  BY <2>1, <2>7, <2>8 DEF Kept
<1>5. CASE LoseConsume(a, d)
  BY <1>1, <1>5 DEF LoseConsume, Consuming
<1>6. CASE BridgeCall(a, d)
  <2>1. ProtocolInv' /\ \A b \in Attempts : Consumed(b)' = Consumed(b)
    BY <1>6, BridgeProtocol
  <2>2. UNCHANGED <<status, active, initiator>>
    BY <1>6 DEF BridgeCall, CallbackTo
  <2>3. Follows
    BY <2>1, <2>2, SameFollows DEF Idle, InBridge
  <2>. QED  BY <2>1, <2>2, <2>3 DEF Kept, OwnRelease
<1>7. ASSUME NEW from \in {"failing", "bridged"}, NEW to \in {"done", "exiting"},
             CallbackTo(a, d, from, to), NEW id \in EventIds,
             ReturnCall(<<"callback", a, d>>, id, {}), bridgeCalls' = bridgeCalls
      PROVE  Kept
  <2>1. /\ events \subseteq events'
        /\ \/ UNCHANGED <<status, active>>
           \/ /\ status \in {"ringing", "transferring"}
              /\ status' = "in_progress"
              /\ active' = IF status = "transferring" THEN NoAttempt ELSE active
    BY <1>0, <1>7, ReturnEffect
  <2>2. to \notin Consuming
    BY DEF Consuming
  <2>3. /\ ProtocolInv'
        /\ active = NoAttempt /\ active' = NoAttempt
        /\ Consumed(a) = {d} /\ \A b \in Attempts : b # a => Consumed(b) = {}
        /\ \A b \in Attempts : Consumed(b)' = {}
        /\ status' = status \/ (status = "transferring" /\ status' = "in_progress")
    BY <1>7, <2>1, <2>2, CloseProtocol
  <2>4. initiator' = initiator /\ callback[a][d] = from
    BY <1>7, CallbackMoves
  <2>5. ~Idle(a) /\ ~Idle(a)' /\ InBridge(a) /\ ~InBridge(a)' /\ ~Holds(a)'
    BY <2>3, <2>4, NoAttemptAssumption DEF Idle, InBridge, Holds, Causality, ThreadFit
  <2>6. \A b \in Attempts \ {a} : SameFor(b)
    BY <2>3, <2>4, NoAttemptAssumption DEF SameFor, Idle, Holds, InBridge
  <2>7. Line' = Line
    BY <2>3 DEF Line, Terminal
  <2>8. Follows
    BY <2>5, <2>6, <2>7, RightSpent
  <2>. QED  BY <2>3, <2>8 DEF Kept, OwnRelease
<1>8. CASE RecordBridgeFailure(a, d) \/ RecordBridged(a, d)
  BY <1>0, <1>7, <1>8 DEF RecordBridgeFailure, RecordBridged
<1>9. CASE RecordAiLegRemoved(a, d)
  BY <1>1, <1>9 DEF RecordAiLegRemoved, RecordEvent, Consuming
<1>10. CASE CrashCallback(a, d)
  <2>1. CASE callback[a][d] \notin Consuming
    BY <1>1, <1>10, <2>1 DEF CrashCallback, Consuming
  <2>2. CASE callback[a][d] \in Consuming
    <3>1. /\ CallbackTo(a, d, callback[a][d], "crashed")
          /\ UNCHANGED <<status, active, events, bridgeCalls>>
      BY <1>10 DEF CrashCallback
    <3>2. "crashed" \notin Consuming /\ callback[a][d] \in {"bridging", "bridged", "failing"}
      BY <2>2 DEF Consuming
    <3>3. /\ \A b \in Attempts : \A e \in Deliveries :
                callback'[b][e] = IF b = a /\ e = d THEN "crashed" ELSE callback[b][e]
          /\ initiator' = initiator
          /\ \A b \in Attempts : Consumed(b)' \subseteq Consumed(b)
          /\ \A b \in Attempts : b # a => Consumed(b)' = Consumed(b)
      BY <3>1, <3>2, CallbackMoves
    <3>4. d \in Consumed(a) /\ d \notin Consumed(a)'
      BY <3>2, <3>3 DEF Consumed
    <3>5. active = NoAttempt /\ Consumed(a) = {d}
      BY <3>4 DEF ProtocolInv, ConsumeInv
    <3>6. ~Idle(a) /\ ~Idle(a)' /\ InBridge(a) /\ ~InBridge(a)' /\ ~Holds(a)'
      BY <3>1, <3>2, <3>3, <3>4, <3>5, NoAttemptAssumption
      DEF Idle, InBridge, Holds, Causality, ThreadFit
    <3>7. \A b \in Attempts \ {a} : SameFor(b)
      BY <3>1, <3>3 DEF SameFor, Idle, Holds, InBridge
    <3>8. Line' = Line
      BY <3>1 DEF Line
    <3>9. Follows
      BY <3>6, <3>7, <3>8, RightSpent
    <3>10. ProtocolInv'
      BY <3>1, <3>3, QuietProtocol
    <3>. QED  BY <3>1, <3>9, <3>10 DEF Kept, OwnRelease
  <2>. QED  BY <2>1, <2>2
<1>. QED  BY <1>2, <1>3, <1>4, <1>5, <1>6, <1>8, <1>9, <1>10 DEF CallbackStep

LEMMA StepKept ==
    ASSUME IInv, [Next]_vars, ~overtaken'
    PROVE  Kept
<1>1. ~overtaken /\ TypeOK /\ Causality /\ ProtocolInv
  BY OvertakenStays DEF IInv
<1>2. CASE Next
  BY <1>1, <1>2, CallStepKept, InitiatorKept, CallbackKept DEF Next, AttemptStep
<1>3. CASE UNCHANGED vars
  <2>1. UNCHANGED <<status, active, events, initiator, callback, bridgeCalls>>
    BY <1>3 DEF vars, row, threads
  <2>2. \A b \in Attempts : Consumed(b)' = Consumed(b)
    BY <2>1 DEF Consumed
  <2>3. ProtocolInv' /\ Follows
    BY <1>1, <2>1, <2>2, QuietProtocol, SameFollows DEF Idle, InBridge
  <2>. QED  BY <2>1, <2>3 DEF Kept, OwnRelease
<1>. QED  BY <1>2, <1>3

------------------------------------------------------------------------------
LEMMA IInvInit == Init => IInv
<1>. SUFFICES ASSUME Init PROVE IInv
  OBVIOUS
<1>1. \A a \in Attempts : Consumed(a) = {}
  BY DEF Init, Consumed
<1>2. ProtocolInv
  BY <1>1 DEF Init, ProtocolInv, RowInv, ConsumeInv, BridgeInv
<1>. QED  BY <1>2, TypeInit, CausalityInit DEF IInv

LEMMA IInvNext == IInv /\ [Next]_vars => IInv'
<1>. SUFFICES ASSUME IInv, [Next]_vars PROVE IInv'
  OBVIOUS
<1>1. TypeOK' /\ Causality'
  BY TypePreserved, CausalityPreserved DEF IInv
<1>2. ~overtaken' => ProtocolInv'
  BY StepKept DEF Kept
<1>. QED  BY <1>1, <1>2 DEF IInv

\* The inductive invariant of the transfer: who has come how far, whatever
\* overtakes what, and the protocol of the two gates until a transaction is
\* overtaken.
THEOREM Invariance == Spec => []IInv
BY IInvInit, IInvNext, PTL DEF Spec

\* Until a transaction decides on a copy that another has overtaken, at most one
\* attempt and one delivery of its callback may act on the caller, and it bridges
\* once: the two gates of calls.py are a mutual exclusion as far as that.
THEOREM OneHolderHolds == Spec => []OneHolder
<1>1. IInv => OneHolder
  <2>. SUFFICES ASSUME IInv, ~overtaken PROVE OneHolder
    BY DEF OneHolder
  <2>0. ProtocolInv
    BY DEF IInv
  <2>1. \A a \in Attempts : \A d, e \in Consumed(a) : d = e
    BY <2>0 DEF ProtocolInv, ConsumeInv
  <2>2. ASSUME NEW a \in Holders, NEW b \in Holders PROVE a = b
    BY <2>0, NoAttemptAssumption DEF Holders, ProtocolInv, ConsumeInv
  <2>3. BridgedAtMostOnce
    BY <2>0 DEF ProtocolInv, BridgeInv, BridgedAtMostOnce
  <2>. QED  BY <2>1, <2>2, <2>3 DEF OneHolder
<1>. QED  BY <1>1, Invariance, PTL

\* While a bridge is in flight the row waits for it, or the call has ended, until
\* a transaction is overtaken.
THEOREM BridgeHoldsTheCallHolds == Spec => []BridgeHoldsTheCall
<1>1. IInv => BridgeHoldsTheCall
  <2>. SUFFICES ASSUME IInv, ~overtaken, NEW a \in Attempts, Consumed(a) # {}
                PROVE  \/ status = "transferring" /\ active = NoAttempt
                       \/ status \in Terminal
    BY DEF BridgeHoldsTheCall
  <2>. QED  BY DEF IInv, ProtocolInv, ConsumeInv
<1>. QED  BY <1>1, Invariance, PTL

\* Only an attempt's own leg, provider call or callback takes the row from it,
\* until a transaction is overtaken.
THEOREM OnlyOwnActorsReleaseHolds == Spec => OnlyOwnActorsRelease
<1>1. IInv /\ [Next]_vars =>
        [\A a \in Attempts : active = a /\ active' # a =>
          \/ overtaken'
          \/ leg[a] = "failed"
          \/ initiator[a] = "refused"
          \/ \E d \in Deliveries : callback[a][d] = "consuming"]_vars
  BY StepKept DEF Kept, OwnRelease, Free
<1>. QED  BY <1>1, Invariance, PTL DEF Spec, OnlyOwnActorsRelease

\* CallTransfer implements TransferOwnership: rights are claimed one at a time,
\* consumed by their holder, and the promise is broken only where a transaction
\* was overtaken.
THEOREM Refinement == Spec => OwnershipSpec
<1>1. Init => Ownership!AInit
  <2>. SUFFICES ASSUME Init PROVE Ownership!AInit
    OBVIOUS
  <2>1. Line = "setup"
    BY DEF Init, Line, Terminal
  <2>2. Right = [a \in Attempts |-> "fresh"]
    BY DEF Init, Right
  <2>. QED  BY <2>1, <2>2 DEF Ownership!AInit, Init
<1>2. IInv /\ [Next]_vars => [Ownership!ANext]_(Ownership!aVars)
  <2>. SUFFICES ASSUME IInv, [Next]_vars PROVE [Ownership!ANext]_(Ownership!aVars)
    OBVIOUS
  <2>1. overtaken \in BOOLEAN /\ overtaken' \in BOOLEAN
    BY TypePreserved DEF IInv, TypeOK
  <2>2. CASE overtaken'
    BY <2>1, <2>2 DEF Ownership!ANext
  <2>3. CASE ~overtaken'
    <3>1. overtaken' = overtaken
      BY <2>1, <2>3, OvertakenStays DEF IInv
    <3>. QED  BY <2>3, <3>1, StepKept DEF Kept, Follows, Ownership!ANext, Ownership!aVars
  <2>. QED  BY <2>1, <2>2, <2>3
<1>. QED  BY <1>1, <1>2, Invariance, PTL DEF Spec, OwnershipSpec, Ownership!ASpec

------------------------------------------------------------------------------
\* What holds whatever overtakes what.

LEMMA EndedStep ==
    ASSUME TypeOK, [Next]_vars, Ended
    PROVE  Ended' /\ status' = status
<1>1. /\ status \in Terminal /\ status # "none"
      /\ \A t \in Transactions : copy[t] = NoCopy \/ copy[t].status \in Terminal
  BY DEF Ended, Terminal
<1>2. ASSUME Ends, status' = status PROVE Ended'
  BY <1>1, <1>2 DEF Ended, Ends
<1>3. ASSUME NEW t \in Transactions, Load(t) PROVE Ended' /\ status' = status
  <2>1. \A x \in Transactions : copy'[x] = IF x = t THEN Row ELSE copy[x]
    BY <1>3, LoadEffect DEF TypeOK
  <2>2. status' = status /\ Row.status = status
    BY <1>3, RowIsRow DEF Load, row
  <2>. QED  BY <1>1, <2>1, <2>2 DEF Ended
<1>4. ASSUME NEW t \in Transactions, Closes(t) PROVE Ended' /\ status' = status
  <2>1. status' = status /\ Ends
    BY <1>1, <1>4, ClosesEnds DEF Closes
  <2>. QED  BY <1>2, <2>1
<1>. QED  BY <1>1, <1>2, <1>3, <1>4, CopyStep

\* A call that has ended, and whose open transactions have all seen it end, is not
\* resurrected by any callback, in whatever order they come.
THEOREM EndedForGoodHolds == Spec => EndedForGood
<1>1. TypeOK /\ [Next]_vars => [Ended => Ended' /\ UNCHANGED status]_vars
  BY EndedStep
<1>. QED  BY <1>1, TypeCorrect, PTL DEF Spec, EndedForGood

\* A callback that goes on to bridge has come to the consume gate first, with a
\* row that lets it through.
LEMMA SettledStep ==
    ASSUME IInv, [Next]_vars, NEW a \in Attempts, bridgeCalls[a] > 0, MayBridge(a) = {}
    PROVE  bridgeCalls'[a] = bridgeCalls[a] /\ MayBridge(a)' = {}
<1>. USE DEF row, session, world, threads
<1>0. TypeOK /\ Causality /\ active # a
  BY DEF IInv, Causality, ThreadFit
<1>1. \A d \in Deliveries :
         /\ callback[a][d] # "bridging"
         /\ callback[a][d] = "consuming" => ConsumeOf(copy[<<"callback", a, d>>], a) = {}
         /\ callback[a][d] = "idle" => copy[<<"callback", a, d>>] = NoCopy
         /\ <<"callback", a, d>> \in Transactions
  BY <1>0, TransactionFacts DEF MayBridge, Causality, CopyFit
<1>2. ConsumeOf(NoCopy, a) = {} /\ ConsumeOf(Row, a) = {}
  <2>1. NoCopy \in Copies /\ NoCopy.status = "none"
    BY DEF NoCopy, Copies, Statuses
  <2>. QED  BY <1>0, <2>1, RefusedOf, RowIsRow
<1>3. ASSUME NEW t \in Transactions, Load(t) PROVE bridgeCalls'[a] = bridgeCalls[a] /\ MayBridge(a)' = {}
  <2>1. /\ \A x \in Transactions : copy'[x] = IF x = t THEN Row ELSE copy[x]
        /\ UNCHANGED <<callback, bridgeCalls>>
    BY <1>0, <1>3, LoadEffect DEF TypeOK
  <2>2. ASSUME NEW d \in Deliveries, callback'[a][d] = "consuming"
        PROVE  ConsumeOf(copy'[<<"callback", a, d>>], a) = {}
    <3>1. copy'[<<"callback", a, d>>] \in {Row, copy[<<"callback", a, d>>]}
      BY <1>1, <2>1
    <3>. QED  BY <1>1, <1>2, <2>1, <2>2, <3>1
  <2>. QED  BY <1>1, <2>1, <2>2 DEF MayBridge
<1>4. ASSUME Ends, bridgeCalls'[a] = bridgeCalls[a],
             \A d \in Deliveries : /\ callback'[a][d] # "bridging"
                                   /\ callback'[a][d] = "consuming" => callback[a][d] \in {"idle", "consuming"}
      PROVE  MayBridge(a)' = {}
  <2>1. ASSUME NEW d \in Deliveries, callback'[a][d] = "consuming"
        PROVE  ConsumeOf(copy'[<<"callback", a, d>>], a) = {}
    <3>1. copy'[<<"callback", a, d>>] \in {copy[<<"callback", a, d>>], NoCopy}
      BY <1>1, <1>4 DEF Ends
    <3>2. callback[a][d] \in {"idle", "consuming"}
      BY <1>4, <2>1
    <3>. QED  BY <1>1, <1>2, <3>1, <3>2
  <2>. QED  BY <1>4, <2>1 DEF MayBridge
<1>5. ASSUME ~\E t \in Transactions : Load(t)
      PROVE  /\ bridgeCalls'[a] = bridgeCalls[a]
             /\ \A d \in Deliveries : /\ callback'[a][d] # "bridging"
                                      /\ callback'[a][d] = "consuming" => callback[a][d] \in {"idle", "consuming"}
  <2>1. ASSUME UNCHANGED <<callback, bridgeCalls>>
        PROVE  /\ bridgeCalls'[a] = bridgeCalls[a]
               /\ \A d \in Deliveries : /\ callback'[a][d] # "bridging"
                                        /\ callback'[a][d] = "consuming" => callback[a][d] \in {"idle", "consuming"}
    BY <1>1, <2>1
  <2>2. ASSUME NEW b \in Attempts, NEW e \in Deliveries, NEW from, NEW to, CallbackTo(b, e, from, to),
               bridgeCalls' = bridgeCalls, to # "bridging", to = "consuming" => from = "idle"
        PROVE  /\ bridgeCalls'[a] = bridgeCalls[a]
               /\ \A d \in Deliveries : /\ callback'[a][d] # "bridging"
                                        /\ callback'[a][d] = "consuming" => callback[a][d] \in {"idle", "consuming"}
    <3>1. \A d \in Deliveries :
             callback'[a][d] = IF a = b /\ d = e THEN to ELSE callback[a][d]
      BY <1>0, <2>2, CallbackMoves
    <3>2. callback[b][e] = from
      BY <1>0, <2>2, CallbackMoves
    <3>3. ASSUME NEW d \in Deliveries
          PROVE  /\ callback'[a][d] # "bridging"
                 /\ callback'[a][d] = "consuming" => callback[a][d] \in {"idle", "consuming"}
      <4>1. CASE a = b /\ d = e
        BY <2>2, <3>1, <3>2, <4>1
      <4>2. CASE ~(a = b /\ d = e)
        BY <1>1, <3>1, <4>2
      <4>. QED  BY <4>1, <4>2
    <3>. QED  BY <2>2, <3>3
  <2>3. CASE CallStep \/ UNCHANGED vars
    BY <2>1, <2>3 DEF CallStep, ReceiveInitiated, SetDestination, ProviderReports, LoadForStatus, Load,
                      ReceiveStatus, RejectStatus, vars
  <2>4. ASSUME NEW b \in Attempts,
               \/ TransferUnavailable(b) \/ LoadForClaim(b) \/ LoseClaim(b) \/ WinClaim(b)
               \/ InitiatorStep(b) \/ CrashInitiator(b) \/ LegResolves(b) \/ LegStep(b)
        PROVE  UNCHANGED <<callback, bridgeCalls>>
    BY <2>4 DEF TransferUnavailable, LoadForClaim, LoseClaim, WinClaim, InitiatorStep, CreateLeg,
                CreateLegFails, LoadForUnavailable, RecordProviderUnavailable, RecordConsultationStarted,
                CrashInitiator, LegResolves, LegStep, LoadForLegFailed, ReceiveLegFailed, Load, InitiatorTo
  <2>5. ASSUME NEW b \in Attempts, NEW e \in Deliveries,
               ReceiveAnswered(b, e) \/ CallbackStep(b, e) \/ CrashCallback(b, e)
        PROVE  /\ bridgeCalls'[a] = bridgeCalls[a]
               /\ \A d \in Deliveries : /\ callback'[a][d] # "bridging"
                                        /\ callback'[a][d] = "consuming" => callback[a][d] \in {"idle", "consuming"}
    <3>1. CASE WinConsume(b, e)
      <4>1. b # a
        BY <1>1, <3>1, ConsumeEffect, CallbackMoves, <1>0 DEF WinConsume
      <4>2. \A d \in Deliveries : callback'[a][d] = callback[a][d]
        BY <1>0, <3>1, <4>1, CallbackMoves DEF WinConsume
      <4>. QED  BY <1>1, <3>1, <4>2 DEF WinConsume
    <3>2. CASE BridgeCall(b, e)
      <4>1. PICK outcome : CallbackTo(b, e, "bridging", outcome)
        BY <3>2 DEF BridgeCall
      <4>2. b # a
        <5>1. callback[b][e] = "bridging"
          BY <4>1 DEF CallbackTo
        <5>. QED  BY <1>1, <5>1
      <4>3. /\ \A d \in Deliveries : callback'[a][d] = callback[a][d]
            /\ bridgeCalls'[a] = bridgeCalls[a]
        BY <1>0, <3>2, <4>1, <4>2, CallbackMoves DEF BridgeCall, TypeOK
      <4>. QED  BY <1>1, <4>3
    <3>3. CASE LoadForCallback(b, e)
      BY <2>1, <3>3 DEF LoadForCallback, Load
    <3>4. CASE ReceiveAnswered(b, e)
      BY <2>2, <3>4 DEF ReceiveAnswered
    <3>5. CASE LoseConsume(b, e) \/ RecordBridgeFailure(b, e) \/ RecordBridged(b, e)
               \/ RecordAiLegRemoved(b, e) \/ CrashCallback(b, e)
      BY <2>2, <3>5 DEF LoseConsume, RecordBridgeFailure, RecordBridged, RecordAiLegRemoved, CrashCallback
    <3>. QED  BY <2>5, <3>1, <3>2, <3>3, <3>4, <3>5 DEF CallbackStep
  <2>. QED  BY <2>1, <2>3, <2>4, <2>5 DEF Next, AttemptStep
<1>6. CASE \E t \in Transactions : Load(t)
  BY <1>3, <1>6
<1>7. CASE ~\E t \in Transactions : Load(t)
  <2>1. Ends
    BY <1>0, <1>7, CopyStep, ClosesEnds DEF Closes
  <2>. QED  BY <1>4, <1>5, <1>7, <2>1
<1>. QED  BY <1>6, <1>7

\* An attempt that has bridged, and whose callbacks that loaded the row before are
\* through, never bridges again, however often its answer is delivered.
THEOREM BridgeSettlesHolds == Spec => BridgeSettles
<1>1. IInv /\ [Next]_vars =>
        [\A a \in Attempts :
            bridgeCalls[a] > 0 /\ MayBridge(a) = {} =>
               bridgeCalls'[a] = bridgeCalls[a] /\ MayBridge(a)' = {}]_vars
  BY SettledStep
<1>. QED  BY <1>1, Invariance, PTL DEF Spec, BridgeSettles

-----------------------------------------------------------------------------
\* The telephones of PhoneDesk: numbers and routing, outbound calls and
\* recordings, all at once: a run takes one of the three at a time.
DeskSpec == DeskInit /\ [][LinesNext \/ DialsNext \/ TapesNext]_deskVars

\* An outbound call: nothing is recorded before the provider answered, and what is
\* recorded is its answer.
DialRow == [at : {"idle", "placing", "answered", "done", "dead"}, status : {NoUser, "ringing", "failed"},
            provider : {NoUser, "accepted", "refused", "lost"}, named : BOOLEAN, inbound : BOOLEAN]

DialSound(x) ==
    /\ x.at \in {"idle", "placing"} => x.provider = NoUser
    /\ x.at \in {"idle", "placing", "answered"} => x.status # "failed" /\ ~x.named
    /\ x.status = "failed" => x.provider \in {"refused", "lost"}
    /\ x.at = "done" /\ x.provider = "accepted" => (x.named \/ x.inbound)
    /\ ~(x.named /\ x.inbound)

DialInv == dial \in [Dials -> DialRow] /\ \A d \in Dials : DialSound(dial[d])

\* A recording: a sweep has read rows that had expired, and deletes a row after its
\* audio.
TapeRow == [at : {"idle", "put", "stored", "orphaned"}, audio : BOOLEAN, row : BOOLEAN, until : Int,
            sweep : BOOLEAN]

TapeSound(x, today) ==
    /\ x.at = "idle" => ~x.audio /\ ~x.row
    /\ x.at = "put" => x.audio /\ ~x.row
    /\ x.at = "orphaned" => ~x.row
    /\ x.sweep => x.row /\ x.until <= today
    /\ x.row /\ x.until > today => x.audio
    /\ x.audio /\ ~x.row => x.at \in {"put", "orphaned"}

TapeInv ==
    /\ tape \in [Tapes -> TapeRow] /\ day \in Nat
    /\ \A r \in Tapes : TapeSound(tape[r], day)

\* Who may be called was read with how many, so a target that was added since has
\* a position beyond; nobody else routes a call of the number meanwhile.
ArrivalRow == [at : {"idle", "begun", "locking", "done"}, number : Numbers \cup {NoUser},
               user : Users \cup {NoUser}, holds : Nat, since : Nat]
AdderRow   == [at : {"idle", "counted", "done"}, number : Numbers \cup {NoUser},
               user : Users \cup {NoUser}, count : Nat]

Called(n, u) == \E x \in Routed(n) : arrival[x].user = u

InTurn(n, u, holds) ==
    Called(n, u) => \A t \in TargetsOf(n) : t.position < holds => Called(n, t.user)

ArrivalSound(c) ==
    /\ arrival[c].at # "idle" => arrival[c].number \in Numbers /\ arrival[c].since # 0
    /\ arrival[c].at = "locking" =>
           /\ arrival[c].number \in locked
           /\ TargetsOf(arrival[c].number) # {}
           /\ arrival[c].holds <= Cardinality(TargetsOf(arrival[c].number))
           /\ InTurn(arrival[c].number, arrival[c].user, arrival[c].holds)

RoutersApart ==
    \A c, d \in Arrivals :
        c # d /\ arrival[c].at = "locking" /\ arrival[d].at = "locking" =>
            arrival[c].number # arrival[d].number

\* What was counted is at most what there is: a target is never removed.
AdderSound(a) ==
    adder[a].at = "counted" =>
        /\ adder[a].number \in Numbers /\ adder[a].user \in Users
        /\ adder[a].count < MaxTargets
        /\ adder[a].count <= Cardinality(TargetsOf(adder[a].number))

TargetsInv ==
    /\ target \subseteq [number : Numbers, user : Users, position : Nat] /\ IsFiniteSet(target)
    /\ adder \in [Adders -> AdderRow]
    /\ PositionsDense
    /\ \A a \in Adders : AdderSound(a)

Dated == \E k \in Nat : \A c \in Arrivals : arrival[c].since <= k

LinesInv ==
    /\ TargetsInv
    /\ arrival \in [Arrivals -> ArrivalRow] /\ Dated
    /\ \A c \in Arrivals : ArrivalSound(c)
    /\ RoutersApart

-----------------------------------------------------------------------------
LEMMA DialStep == ASSUME DialInv, DialsNext PROVE DialInv'
<1>1. PICK d \in Dials : \/ InsertOutboundCall(d) \/ PlaceCall(d) \/ OwnNumberRings(d)
                         \/ RecordFailure(d) \/ RecordPlaced(d) \/ DialerDies(d)
  BY DEF DialsNext
<1>2. dial[d] \in DialRow /\ DialSound(dial[d])
  BY DEF DialInv
<1>3. SUFFICES \E x \in DialRow : DialSound(x) /\ dial' = [dial EXCEPT ![d] = x]
  BY DEF DialInv
<1>4. CASE InsertOutboundCall(d)
  <2>1. PICK x : x = [dial[d] EXCEPT !.at = "placing", !.status = "ringing"]
    OBVIOUS
  <2>2. x \in DialRow /\ DialSound(x)
    BY <1>2, <1>4, <2>1 DEF DialRow, DialSound, InsertOutboundCall, NoUser
  <2>. QED  BY <1>4, <2>1, <2>2 DEF InsertOutboundCall, DialInv
<1>5. CASE PlaceCall(d)
  <2>1. PICK answer \in {"accepted", "refused", "lost"} :
            dial' = [dial EXCEPT ![d].at = "answered", ![d].provider = answer]
    BY <1>5 DEF PlaceCall
  <2>2. PICK x : x = [dial[d] EXCEPT !.at = "answered", !.provider = answer]
    OBVIOUS
  <2>3. x \in DialRow /\ DialSound(x)
    BY <1>2, <1>5, <2>2 DEF DialRow, DialSound, PlaceCall
  <2>. QED  BY <2>1, <2>2, <2>3 DEF DialInv
<1>6. CASE OwnNumberRings(d)
  <2>1. PICK x : x = [dial[d] EXCEPT !.inbound = TRUE]
    OBVIOUS
  <2>2. x \in DialRow /\ DialSound(x)
    BY <1>2, <1>6, <2>1 DEF DialRow, DialSound, OwnNumberRings
  <2>. QED  BY <1>6, <2>1, <2>2 DEF OwnNumberRings, DialInv
<1>7. CASE RecordFailure(d)
  <2>1. PICK x : x = [dial[d] EXCEPT !.at = "done", !.status = "failed"]
    OBVIOUS
  <2>2. x \in DialRow /\ DialSound(x)
    BY <1>2, <1>7, <2>1 DEF DialRow, DialSound, RecordFailure
  <2>. QED  BY <1>7, <2>1, <2>2 DEF RecordFailure, DialInv
<1>8. CASE RecordPlaced(d)
  <2>1. PICK x : x = [dial[d] EXCEPT !.at = "done", !.named = ~dial[d].inbound]
    OBVIOUS
  <2>2. x \in DialRow /\ DialSound(x)
    BY <1>2, <1>8, <2>1 DEF DialRow, DialSound, RecordPlaced
  <2>. QED  BY <1>8, <2>1, <2>2 DEF RecordPlaced, DialInv
<1>9. CASE DialerDies(d)
  <2>1. PICK x : x = [dial[d] EXCEPT !.at = "dead"]
    OBVIOUS
  <2>2. x \in DialRow /\ DialSound(x)
    BY <1>2, <1>9, <2>1 DEF DialRow, DialSound, DialerDies
  <2>. QED  BY <1>9, <2>1, <2>2 DEF DialerDies, DialInv
<1>. QED  BY <1>1, <1>4, <1>5, <1>6, <1>7, <1>8, <1>9

\* The steps of one recording.
LEMMA TapeStep ==
    ASSUME TapeInv, NEW r \in Tapes,
           PutObject(r) \/ InsertRecording(r) \/ StorerDies(r) \/ DeleteObject(r)
    PROVE  TapeInv'
<1>1. tape[r] \in TapeRow /\ TapeSound(tape[r], day) /\ day \in Nat /\ day' = day
  BY DEF TapeInv, PutObject, InsertRecording, StorerDies, DeleteObject
<1>2. SUFFICES \E x \in TapeRow : TapeSound(x, day) /\ tape' = [tape EXCEPT ![r] = x]
  BY <1>1 DEF TapeInv
<1>3. CASE PutObject(r)
  <2>1. PICK until \in 1 .. LastDay :
            tape' = [tape EXCEPT ![r] = [at |-> "put", audio |-> TRUE, row |-> FALSE,
                                         until |-> until, sweep |-> FALSE]]
    BY <1>3 DEF PutObject
  <2>2. PICK x : x = [at |-> "put", audio |-> TRUE, row |-> FALSE, until |-> until, sweep |-> FALSE]
    OBVIOUS
  <2>3. x \in TapeRow /\ TapeSound(x, day)
    BY <2>2, DeskAssumption DEF TapeRow, TapeSound
  <2>. QED  BY <2>1, <2>2, <2>3
<1>4. CASE InsertRecording(r)
  <2>1. PICK x : x = [tape[r] EXCEPT !.at = "stored", !.row = TRUE]
    OBVIOUS
  <2>2. x \in TapeRow /\ TapeSound(x, day)
    BY <1>1, <1>4, <2>1 DEF TapeRow, TapeSound, InsertRecording
  <2>. QED  BY <1>4, <2>1, <2>2 DEF InsertRecording, TapeInv
<1>5. CASE StorerDies(r)
  <2>1. PICK x : x = [tape[r] EXCEPT !.at = "orphaned"]
    OBVIOUS
  <2>2. x \in TapeRow /\ TapeSound(x, day)
    BY <1>1, <1>5, <2>1 DEF TapeRow, TapeSound, StorerDies
  <2>. QED  BY <1>5, <2>1, <2>2 DEF StorerDies, TapeInv
<1>6. CASE DeleteObject(r)
  <2>1. PICK x : x = [tape[r] EXCEPT !.audio = FALSE]
    OBVIOUS
  <2>2. tape[r].row /\ tape[r].until <= day /\ tape[r].at # "put" /\ tape[r].at # "idle"
    BY <1>1, <1>6 DEF TapeSound, DeleteObject
  <2>3. tape[r].until \in Int /\ ~(tape[r].until > day)
    BY <1>1, <2>2 DEF TapeRow
  <2>4. x \in TapeRow /\ TapeSound(x, day)
    BY <1>1, <2>1, <2>2, <2>3 DEF TapeRow, TapeSound
  <2>. QED  BY <1>6, <2>1, <2>4 DEF DeleteObject, TapeInv
<1>. QED  BY <1>3, <1>4, <1>5, <1>6

\* The steps of a sweep, and of the clock.
LEMMA SweepStep ==
    ASSUME TapeInv, BeginSweep \/ DeleteRecordings \/ SweepFails \/ DayPasses PROVE TapeInv'
<1>1. \A r \in Tapes : tape[r] \in TapeRow /\ TapeSound(tape[r], day)
  BY DEF TapeInv
<1>2. day \in Nat
  BY DEF TapeInv
<1>3. CASE BeginSweep
  <2>1. \A r \in Tapes : [tape[r] EXCEPT !.sweep = Expired(r)] \in TapeRow
    BY <1>1 DEF TapeRow, Expired
  <2>2. \A r \in Tapes : TapeSound([tape[r] EXCEPT !.sweep = Expired(r)], day)
    BY <1>1 DEF TapeRow, TapeSound, Expired
  <2>. QED  BY <1>2, <1>3, <2>1, <2>2 DEF BeginSweep, TapeInv
<1>4. CASE DeleteRecordings
  <2>1. \A r \in Tapes : [tape[r] EXCEPT !.row = FALSE, !.sweep = FALSE] \in TapeRow
    BY <1>1 DEF TapeRow
  <2>2. \A r \in Tapes : tape[r].sweep =>
            TapeSound([tape[r] EXCEPT !.row = FALSE, !.sweep = FALSE], day)
    BY <1>1, <1>4 DEF TapeRow, TapeSound, DeleteRecordings
  <2>. QED  BY <1>1, <1>2, <1>4, <2>1, <2>2 DEF DeleteRecordings, TapeInv
<1>5. CASE SweepFails
  <2>1. \A r \in Tapes : [tape[r] EXCEPT !.sweep = FALSE] \in TapeRow
    BY <1>1 DEF TapeRow
  <2>2. \A r \in Tapes : TapeSound([tape[r] EXCEPT !.sweep = FALSE], day)
    BY <1>1 DEF TapeRow, TapeSound
  <2>. QED  BY <1>2, <1>5, <2>1, <2>2 DEF SweepFails, TapeInv
<1>6. CASE DayPasses
  <2>1. day' = day + 1 /\ day' \in Nat /\ tape' = tape
    BY <1>2, <1>6 DEF DayPasses
  <2>2. ASSUME NEW r \in Tapes PROVE TapeSound(tape[r], day + 1)
    <3>1. tape[r].until \in Int
      BY <1>1 DEF TapeRow
    <3>2. tape[r].until <= day => tape[r].until <= day + 1
      BY <1>2, <3>1
    <3>3. tape[r].until > day + 1 => tape[r].until > day
      BY <1>2, <3>1
    <3>. QED  BY <1>1, <3>2, <3>3 DEF TapeSound
  <2>. QED  BY <2>1, <2>2 DEF TapeInv
<1>. QED  BY <1>3, <1>4, <1>5, <1>6

-----------------------------------------------------------------------------
\* A set of numbers that is not empty has a least one, and a bounded one a greatest.
LEMMA LeastOf == ASSUME NEW S \in SUBSET Nat, S # {} PROVE \E s \in S : \A t \in S : s <= t
<1>1. PICK R : R = {ss \in Nat \X Nat : ss[1] < ss[2]}
  OBVIOUS
<1>2. IsWellFoundedOn(R, Nat)
  BY <1>1, NatLessThanWellFounded DEF OpToRel
<1>3. PICK s \in S : \A t \in S : ~(<<t, s>> \in R)
  BY <1>2, WFMin
<1>4. \A t \in S : s \in Nat /\ t \in Nat /\ ~(t < s)
  BY <1>1, <1>3
<1>5. \A t \in S : s <= t
  BY <1>4
<1>. QED  BY <1>5

LEMMA GreatestOf ==
    ASSUME NEW S \in SUBSET Nat, NEW k \in Nat, \A s \in S : s <= k
    PROVE  /\ S = {} => Max0(S) = 0
           /\ S # {} => Max0(S) \in S
           /\ Max0(S) \in Nat /\ \A s \in S : s <= Max0(S)
<1>1. CASE S = {}
  BY <1>1 DEF Max0
<1>2. CASE S # {}
  <2>1. PICK T : T = {k - s : s \in S}
    OBVIOUS
  <2>2. \A s \in S : s \in Nat /\ k - s \in Nat
    OBVIOUS
  <2>3. T \in SUBSET Nat /\ T # {}
    BY <1>2, <2>1, <2>2
  <2>4. PICK t \in T : \A u \in T : t <= u
    BY <2>3, LeastOf
  <2>5. PICK s \in S : t = k - s
    BY <2>1
  <2>6. ASSUME NEW u \in S PROVE u <= s
    <3>1. k - s <= k - u
      BY <2>1, <2>4, <2>5
    <3>. QED  BY <2>2, <3>1
  <2>7. \E x \in S : \A y \in S : y <= x
    BY <2>6
  <2>8. Max0(S) \in S /\ \A y \in S : y <= Max0(S)
    BY <1>2, <2>7 DEF Max0
  <2>. QED  BY <1>2, <2>8
<1>. QED  BY <1>1, <1>2

\* A user was last assigned a call at some time exactly when one was.
LEMMA LastAssignedIs ==
    ASSUME LinesInv, NEW n, NEW u
    PROVE  LastAssigned(n, u) \in Nat /\ (LastAssigned(n, u) > 0 <=> Called(n, u))
<1>1. PICK S : S = {arrival[c].since : c \in {x \in Routed(n) : arrival[x].user = u}}
  OBVIOUS
<1>2. \A c \in Routed(n) : c \in Arrivals /\ arrival[c].since \in Nat /\ arrival[c].since # 0
  BY DEF LinesInv, ArrivalSound, ArrivalRow, Routed
<1>3. PICK k \in Nat : \A c \in Arrivals : arrival[c].since <= k
  BY DEF LinesInv, Dated
<1>4. S \in SUBSET Nat /\ \A s \in S : s <= k /\ s # 0
  BY <1>1, <1>2, <1>3
<1>5. S # {} <=> Called(n, u)
  BY <1>1 DEF Called
<1>6. /\ S = {} => Max0(S) = 0
      /\ S # {} => Max0(S) \in S
      /\ Max0(S) \in Nat
  BY <1>4, GreatestOf
<1>7. LastAssigned(n, u) = Max0(S)
  BY <1>1 DEF LastAssigned
<1>. QED  BY <1>4, <1>5, <1>6, <1>7

\* Who was chosen was called no later than anybody who could have been.
LEMMA ChosenWaitedLongest ==
    ASSUME LinesInv, NEW n, TargetsOf(n) # {}
    PROVE  /\ ChosenTarget(n) \in TargetsOf(n)
           /\ \A o \in TargetsOf(n) :
                  LastAssigned(n, ChosenTarget(n).user) <= LastAssigned(n, o.user)
<1>. DEFINE L(t) == LastAssigned(n, t.user)
<1>1. \A t \in TargetsOf(n) : L(t) \in Nat /\ t.position \in Nat
  BY LastAssignedIs DEF LinesInv, TargetsInv, TargetsOf
<1>. HIDE DEF L
<1>2. PICK S : S = {L(t) : t \in TargetsOf(n)}
  OBVIOUS
<1>3. PICK m \in S : \A s \in S : m <= s
  BY <1>1, <1>2, LeastOf
<1>4. PICK P : P = {t.position : t \in {o \in TargetsOf(n) : L(o) = m}}
  OBVIOUS
<1>5. P \in SUBSET Nat /\ P # {}
  BY <1>1, <1>2, <1>4
<1>6. PICK p \in P : \A q \in P : p <= q
  BY <1>5, LeastOf
<1>7. PICK t \in TargetsOf(n) : L(t) = m /\ t.position = p
  BY <1>4
<1>8. ASSUME NEW o \in TargetsOf(n)
      PROVE  \/ L(t) < L(o)
             \/ L(t) = L(o) /\ t.position <= o.position
  <2>1. m <= L(o) /\ m \in Nat /\ L(o) \in Nat
    BY <1>1, <1>2, <1>3
  <2>2. L(o) = m => p <= o.position
    BY <1>4, <1>6
  <2>. QED  BY <1>7, <2>1, <2>2
<1>9. \E x \in TargetsOf(n) : \A o \in TargetsOf(n) :
          \/ L(x) < L(o)
          \/ L(x) = L(o) /\ x.position <= o.position
  BY <1>8
<1>10. /\ ChosenTarget(n) \in TargetsOf(n)
       /\ \A o \in TargetsOf(n) : \/ L(ChosenTarget(n)) < L(o)
                                  \/ /\ L(ChosenTarget(n)) = L(o)
                                     /\ ChosenTarget(n).position <= o.position
  BY <1>9 DEF ChosenTarget, L
<1>11. \A o \in TargetsOf(n) : L(ChosenTarget(n)) <= L(o)
  BY <1>1, <1>10
<1>. QED  BY <1>10, <1>11 DEF L

-----------------------------------------------------------------------------
\* The requests that add a target.
LEMMA CountTargetsStep ==
    ASSUME LinesInv, NEW a \in Adders, NEW n \in Numbers, NEW u \in Users, CountTargets(a, n, u)
    PROVE  LinesInv'
<1>1. IsFiniteSet(TargetsOf(n)) /\ Cardinality(TargetsOf(n)) \in Nat
  BY FS_Subset, FS_CardinalityType DEF LinesInv, TargetsInv, TargetsOf
<1>2. PICK x : x = [at |-> "counted", number |-> n, user |-> u, count |-> Cardinality(TargetsOf(n))]
  OBVIOUS
<1>3. /\ adder' = [adder EXCEPT ![a] = x] /\ x \in AdderRow
      /\ x.number = n /\ x.user = u /\ x.count = Cardinality(TargetsOf(n))
      /\ Cardinality(TargetsOf(n)) < MaxTargets
      /\ UNCHANGED <<target, arrival, locked>>
  BY <1>1, <1>2 DEF CountTargets, AdderRow
<1>4. \A m : TargetsOf(m)' = TargetsOf(m)
  BY <1>3 DEF TargetsOf
<1>5. \A b \in Adders : AdderSound(b)'
  BY <1>1, <1>3, <1>4 DEF LinesInv, TargetsInv, AdderSound
<1>6. PositionsDense'
  BY <1>4 DEF LinesInv, TargetsInv, PositionsDense
<1>7. TargetsInv'
  BY <1>3, <1>5, <1>6 DEF LinesInv, TargetsInv
<1>8. \A c \in Arrivals : ArrivalSound(c)'
  BY <1>3, <1>4 DEF LinesInv, ArrivalSound, InTurn, Called, Routed
<1>. QED  BY <1>3, <1>7, <1>8 DEF LinesInv, RoutersApart, Dated

LEMMA InsertTargetStep ==
    ASSUME LinesInv, NEW a \in Adders, InsertTarget(a) PROVE LinesInv'
<1>1. PICK r \in AdderRow : r = adder[a]
  BY DEF LinesInv, TargetsInv
<1>2. PICK n \in Numbers : n = r.number
  BY <1>1 DEF InsertTarget, LinesInv, TargetsInv, AdderSound
<1>3. /\ r.user \in Users /\ r.count < MaxTargets /\ r.count \in Nat
      /\ r.count <= Cardinality(TargetsOf(n))
  BY <1>1, <1>2 DEF InsertTarget, LinesInv, TargetsInv, AdderSound, AdderRow
<1>4. \A m : IsFiniteSet(TargetsOf(m)) /\ Cardinality(TargetsOf(m)) \in Nat
  BY FS_Subset, FS_CardinalityType DEF LinesInv, TargetsInv, TargetsOf
<1>5. PICK x : x = [r EXCEPT !.at = "done"]
  OBVIOUS
<1>6. adder' = [adder EXCEPT ![a] = x] /\ x \in AdderRow /\ x.at = "done"
  BY <1>1, <1>5 DEF InsertTarget, AdderRow, LinesInv, TargetsInv
<1>7. UNCHANGED <<arrival, locked>>
  BY DEF InsertTarget
<1>8. CASE target' = target
  <2>1. \A m : TargetsOf(m)' = TargetsOf(m)
    BY <1>8 DEF TargetsOf
  <2>2. \A b \in Adders : AdderSound(b)'
    BY <1>6, <2>1 DEF LinesInv, TargetsInv, AdderSound
  <2>3. PositionsDense'
    BY <2>1 DEF LinesInv, TargetsInv, PositionsDense
  <2>4. TargetsInv'
    BY <1>6, <1>8, <2>2, <2>3 DEF LinesInv, TargetsInv
  <2>5. \A c \in Arrivals : ArrivalSound(c)'
    BY <1>7, <2>1 DEF LinesInv, ArrivalSound, InTurn, Called, Routed
  <2>. QED  BY <1>7, <2>4, <2>5 DEF LinesInv, RoutersApart, Dated
<1>9. CASE TargetAdmitted(n, r.user, r.count) /\
           target' = target \cup {[number |-> n, user |-> r.user, position |-> r.count]}
  <2>. DEFINE K == Cardinality(TargetsOf(n))
  <2>1. PICK t : t = [number |-> n, user |-> r.user, position |-> r.count]
    OBVIOUS
  <2>2. /\ t \in [number : Numbers, user : Users, position : Nat]
        /\ t.number = n /\ t.position = r.count
    BY <1>3, <2>1
  <2>3. {o.position : o \in TargetsOf(n)} = 0 .. K - 1 /\ K <= MaxTargets /\ K \in Nat
    BY <1>4 DEF LinesInv, TargetsInv, PositionsDense
  <2>4. r.count \notin {o.position : o \in TargetsOf(n)} /\ t \notin TargetsOf(n)
    BY <1>9, <2>2 DEF TargetAdmitted
  <2>5. r.count = K
    BY <1>3, <2>3, <2>4
  <2>6. target' = target \cup {t}
    BY <1>9, <2>1
  <2>7. /\ TargetsOf(n)' = TargetsOf(n) \cup {t}
        /\ \A m : m # n => TargetsOf(m)' = TargetsOf(m)
    BY <2>2, <2>6 DEF TargetsOf
  <2>8. Cardinality(TargetsOf(n)') = K + 1
    BY <1>4, <2>4, <2>7, FS_AddElement
  <2>. HIDE DEF K
  <2>9. {o.position : o \in TargetsOf(n)'} = {o.position : o \in TargetsOf(n)} \cup {K}
    BY <2>2, <2>5, <2>7
  <2>10. {o.position : o \in TargetsOf(n)'} = 0 .. (K + 1) - 1
    BY <2>3, <2>9
  <2>11. PositionsDense'
    <3>1. ASSUME NEW m \in Numbers, m # n
          PROVE  /\ {o.position : o \in TargetsOf(m)'} = 0 .. Cardinality(TargetsOf(m)') - 1
                 /\ Cardinality(TargetsOf(m)') <= MaxTargets
      BY <2>7, <3>1 DEF LinesInv, TargetsInv, PositionsDense
    <3>2. K + 1 <= MaxTargets
      BY <1>3, <2>3, <2>5, DeskAssumption
    <3>. QED  BY <2>8, <2>10, <3>1, <3>2 DEF PositionsDense
  <2>12. ASSUME NEW m
         PROVE  /\ Cardinality(TargetsOf(m)) <= Cardinality(TargetsOf(m)')
                /\ Cardinality(TargetsOf(m)') \in Nat
    <3>1. CASE m = n
      <4>1. Cardinality(TargetsOf(m)) = K /\ Cardinality(TargetsOf(m)') = K + 1
        BY <2>8, <3>1 DEF K
      <4>. QED  BY <2>3, <4>1
    <3>2. CASE m # n
      <4>1. TargetsOf(m)' = TargetsOf(m) /\ Cardinality(TargetsOf(m)) \in Nat
        BY <1>4, <2>7, <3>2
      <4>. QED  BY <4>1
    <3>. QED  BY <3>1, <3>2
  <2>14. \A b \in Adders : AdderSound(b)'
    <3>1. ASSUME NEW b \in Adders, b # a PROVE AdderSound(b)'
      <4>1. PICK y \in AdderRow : y = adder[b] /\ y = adder'[b]
        BY <1>6, <3>1 DEF LinesInv, TargetsInv
      <4>2. PICK m : m = y.number
        OBVIOUS
      <4>3. y.at = "counted" => /\ m \in Numbers /\ y.user \in Users /\ y.count < MaxTargets
                                /\ y.count <= Cardinality(TargetsOf(m))
        BY <4>1, <4>2 DEF LinesInv, TargetsInv, AdderSound
      <4>4. /\ Cardinality(TargetsOf(m)) <= Cardinality(TargetsOf(m)')
            /\ Cardinality(TargetsOf(m)) \in Nat /\ Cardinality(TargetsOf(m)') \in Nat
            /\ y.count \in Nat
        BY <1>4, <2>12 DEF AdderRow
      <4>5. y.at = "counted" => y.count <= Cardinality(TargetsOf(m)')
        BY <4>3, <4>4
      <4>. QED  BY <4>1, <4>2, <4>3, <4>5 DEF AdderSound
    <3>2. AdderSound(a)'
      BY <1>6 DEF AdderSound, LinesInv, TargetsInv
    <3>. QED  BY <3>1, <3>2
  <2>15. IsFiniteSet(target') /\ target' \subseteq [number : Numbers, user : Users, position : Nat]
    BY <2>2, <2>6, FS_AddElement DEF LinesInv, TargetsInv
  <2>16. TargetsInv'
    BY <1>6, <2>11, <2>14, <2>15 DEF LinesInv, TargetsInv
  <2>17. ASSUME NEW c \in Arrivals PROVE ArrivalSound(c)'
    <3>1. ArrivalSound(c) /\ arrival[c].holds \in Nat
      BY DEF LinesInv, ArrivalRow
    <3>2. CASE arrival[c].at # "locking"
      BY <1>7, <3>1, <3>2 DEF ArrivalSound
    <3>3. CASE arrival[c].at = "locking"
      <4>1. PICK m : m = arrival[c].number
        OBVIOUS
      <4>2. /\ m \in locked /\ TargetsOf(m) # {} /\ arrival[c].holds <= Cardinality(TargetsOf(m))
            /\ InTurn(m, arrival[c].user, arrival[c].holds) /\ m \in Numbers /\ arrival[c].since # 0
        BY <3>1, <3>3, <4>1 DEF ArrivalSound
      <4>3. TargetsOf(m)' # {}
        BY <2>7, <4>2
      <4>4. Cardinality(TargetsOf(m)) <= Cardinality(TargetsOf(m)')
            /\ Cardinality(TargetsOf(m)) \in Nat /\ Cardinality(TargetsOf(m)') \in Nat
        BY <1>4, <2>12
      <4>5. arrival[c].holds <= Cardinality(TargetsOf(m)')
        BY <3>1, <4>2, <4>4
      <4>6. \A o \in TargetsOf(m)' : o.position < arrival[c].holds => o \in TargetsOf(m)
        <5>1. CASE m # n
          BY <2>7, <5>1
        <5>2. CASE m = n
          <6>1. t.position = K /\ arrival[c].holds <= K
            BY <2>2, <2>5, <4>2, <5>2 DEF K
          <6>2. ~(t.position < arrival[c].holds)
            BY <2>3, <3>1, <6>1
          <6>. QED  BY <2>7, <5>2, <6>2
        <5>. QED  BY <5>1, <5>2
      <4>7. \A p, v : Called(p, v)' <=> Called(p, v)
        BY <1>7 DEF Called, Routed
      <4>8. Called(m, arrival[c].user) =>
                \A o \in TargetsOf(m)' : o.position < arrival[c].holds => Called(m, o.user)
        BY <4>2, <4>6 DEF InTurn
      <4>9. InTurn(m, arrival[c].user, arrival[c].holds)'
        BY <1>7, <4>1, <4>7, <4>8 DEF InTurn
      <4>. QED  BY <1>7, <4>1, <4>2, <4>3, <4>5, <4>9 DEF ArrivalSound
    <3>. QED  BY <3>2, <3>3
  <2>. QED  BY <1>7, <2>16, <2>17 DEF LinesInv, RoutersApart, Dated
<1>. QED  BY <1>1, <1>2, <1>8, <1>9 DEF InsertTarget

-----------------------------------------------------------------------------
\* Of the calls only one moves; the targets stay.
LEMMA TargetsStay == ASSUME LinesInv, UNCHANGED <<target, adder>>
                     PROVE  TargetsInv' /\ \A n : TargetsOf(n)' = TargetsOf(n)
<1>1. \A n : TargetsOf(n)' = TargetsOf(n)
  BY DEF TargetsOf
<1>. QED  BY <1>1 DEF LinesInv, TargetsInv, PositionsDense, AdderSound

\* A router that goes on keeps what it found, as long as no call of its number is
\* routed by another and its lock stays.
LEMMA OthersRoute ==
    ASSUME LinesInv, NEW c \in Arrivals, arrival'[c] = arrival[c], UNCHANGED <<target, adder>>,
           arrival[c].at = "locking" =>
               /\ arrival[c].number \in locked'
               /\ \A u : Called(arrival[c].number, u)' <=> Called(arrival[c].number, u)
    PROVE  ArrivalSound(c)'
<1>1. ArrivalSound(c)
  BY DEF LinesInv
<1>2. \A n : TargetsOf(n)' = TargetsOf(n)
  BY TargetsStay
<1>. QED  BY <1>1, <1>2 DEF ArrivalSound, InTurn

LEMMA CallArrivesStep ==
    ASSUME LinesInv, NEW c \in Arrivals, NEW n \in Numbers, CallArrives(c, n) PROVE LinesInv'
<1>1. PICK k \in Nat : \A x \in Arrivals : arrival[x].since <= k
  BY DEF LinesInv, Dated
<1>2. PICK S : S = {arrival[x].since : x \in Arrivals}
  OBVIOUS
<1>3. S \in SUBSET Nat /\ \A s \in S : s <= k
  BY <1>1, <1>2 DEF LinesInv, ArrivalRow
<1>4. Max0(S) \in Nat /\ \A s \in S : s <= Max0(S)
  BY <1>3, GreatestOf
<1>5. PICK q : q = [at |-> "begun", number |-> n, user |-> NoUser, holds |-> 0,
                    since |-> 1 + Max0(S)]
  OBVIOUS
<1>6. q \in ArrivalRow /\ q.at = "begun" /\ q.number = n /\ q.since = 1 + Max0(S) /\ q.since # 0
  BY <1>4, <1>5 DEF ArrivalRow
<1>7. arrival' = [arrival EXCEPT ![c] = q] /\ UNCHANGED <<target, adder, locked>>
  BY <1>2, <1>5 DEF CallArrives
<1>8. \A d \in Arrivals : arrival'[d] = IF d = c THEN q ELSE arrival[d]
  BY <1>7 DEF LinesInv
<1>9. arrival[c].at = "idle"
  BY DEF CallArrives
<1>10. \A m : Routed(m)' = Routed(m)
  BY <1>6, <1>8, <1>9 DEF Routed
<1>11. \A m, u : Called(m, u)' <=> Called(m, u)
  <2>1. \A m : \A x \in Routed(m) : arrival'[x] = arrival[x]
    BY <1>8, <1>9 DEF Routed
  <2>. QED  BY <1>10, <2>1 DEF Called
<1>12. \A d \in Arrivals : ArrivalSound(d)'
  <2>1. ASSUME NEW d \in Arrivals, d # c PROVE ArrivalSound(d)'
    <3>1. arrival'[d] = arrival[d] /\ (arrival[d].at = "locking" => arrival[d].number \in locked')
      BY <1>7, <1>8, <2>1 DEF LinesInv, ArrivalSound
    <3>. QED  BY <1>7, <1>11, <3>1, OthersRoute
  <2>2. ArrivalSound(c)'
    BY <1>6, <1>8 DEF ArrivalSound
  <2>. QED  BY <2>1, <2>2
<1>13. Dated'
  <2>1. 1 + Max0(S) \in Nat
    BY <1>4
  <2>2. ASSUME NEW d \in Arrivals PROVE arrival'[d].since <= 1 + Max0(S)
    <3>1. CASE d = c
      BY <1>6, <1>8, <2>1, <3>1
    <3>2. CASE d # c
      <4>1. arrival'[d].since \in S /\ arrival'[d].since \in Nat
        BY <1>2, <1>3, <1>8, <3>2
      <4>. QED  BY <1>4, <4>1
    <3>. QED  BY <3>1, <3>2
  <2>. QED  BY <2>1, <2>2 DEF Dated
<1>14. RoutersApart'
  BY <1>6, <1>8 DEF LinesInv, RoutersApart
<1>15. arrival' \in [Arrivals -> ArrivalRow]
  BY <1>6, <1>7 DEF LinesInv
<1>. QED  BY <1>7, <1>12, <1>13, <1>14, <1>15, TargetsStay DEF LinesInv

\* A call goes on as q: what the two steps of a router have in common.
LEMMA RouterMoves ==
    ASSUME LinesInv, NEW c \in Arrivals, NEW q \in ArrivalRow, arrival' = [arrival EXCEPT ![c] = q],
           UNCHANGED <<target, adder>>, arrival[c].at \in {"begun", "locking"},
           q.at \in {"locking", "done"}, q.number = arrival[c].number, q.since = arrival[c].since,
           q.at = "locking" =>
               /\ arrival[c].at = "begun"
               /\ q.number \in locked' /\ q.number \notin locked
               /\ TargetsOf(q.number) # {} /\ q.holds <= Cardinality(TargetsOf(q.number))
               /\ InTurn(q.number, q.user, q.holds),
           q.at = "done" => arrival[c].at = "locking" \/ TargetsOf(q.number) = {},
           \A m \in locked : m \in locked' \/ (m = q.number /\ arrival[c].at = "locking")
    PROVE  LinesInv'
<1>1. \A d \in Arrivals : arrival'[d] = IF d = c THEN q ELSE arrival[d]
  BY DEF LinesInv
<1>2. \A m : /\ TargetsOf(m)' = TargetsOf(m)
             /\ m # q.number \/ q.at = "locking" => Routed(m)' = Routed(m)
  BY <1>1, TargetsStay DEF Routed
<1>3. \A m : m # q.number \/ q.at = "locking" => \A u : Called(m, u)' <=> Called(m, u)
  <2>1. ASSUME NEW m, m # q.number \/ q.at = "locking", NEW u PROVE Called(m, u)' <=> Called(m, u)
    <3>1. \A x \in Routed(m) : arrival'[x] = arrival[x]
      BY <1>1, <2>1 DEF Routed
    <3>. QED  BY <1>2, <2>1, <3>1 DEF Called
  <2>. QED  BY <2>1
<1>4. ASSUME NEW d \in Arrivals, d # c PROVE ArrivalSound(d)'
  <2>1. arrival'[d] = arrival[d] /\ ArrivalSound(d)
    BY <1>1, <1>4 DEF LinesInv
  <2>2. ASSUME arrival[d].at = "locking"
        PROVE  /\ arrival[d].number \in locked'
               /\ \A u : Called(arrival[d].number, u)' <=> Called(arrival[d].number, u)
    <3>1. arrival[d].number \in locked /\ TargetsOf(arrival[d].number) # {}
      BY <2>1, <2>2 DEF ArrivalSound
    <3>2. arrival[d].number # q.number
      BY <1>4, <2>2, <3>1 DEF LinesInv, RoutersApart, ArrivalRow
    <3>. QED  BY <1>3, <3>1, <3>2
  <2>. QED  BY <2>1, <2>2, OthersRoute
<1>5. ArrivalSound(c)'
  <2>1. q.number \in Numbers /\ q.since # 0
    BY DEF LinesInv, ArrivalSound
  <2>2. CASE q.at = "done"
    BY <1>1, <2>1, <2>2 DEF ArrivalSound
  <2>3. CASE q.at = "locking"
    <3>1. InTurn(q.number, q.user, q.holds)'
      BY <1>2, <1>3, <2>3 DEF InTurn
    <3>. QED  BY <1>1, <1>2, <2>1, <2>3, <3>1 DEF ArrivalSound
  <2>. QED  BY <2>2, <2>3
<1>6. RoutersApart'
  <2>1. ASSUME NEW d \in Arrivals, d # c, arrival[d].at = "locking", q.at = "locking"
        PROVE  arrival[d].number # q.number
    BY <2>1 DEF LinesInv, ArrivalSound
  <2>. QED  BY <1>1, <2>1 DEF LinesInv, RoutersApart
<1>7. Dated'
  BY <1>1 DEF LinesInv, Dated
<1>8. arrival' \in [Arrivals -> ArrivalRow]
  BY DEF LinesInv
<1>. QED  BY <1>4, <1>5, <1>6, <1>7, <1>8, TargetsStay DEF LinesInv

LEMMA RouteInboundCallStep == ASSUME LinesInv, NEW c \in Arrivals, RouteInboundCall(c) PROVE LinesInv'
<1>1. PICK was \in ArrivalRow : was = arrival[c]
  BY DEF LinesInv
<1>2. PICK n \in Numbers : n = was.number
  BY <1>1 DEF RouteInboundCall, LinesInv, ArrivalSound
<1>3. was.at = "begun" /\ UNCHANGED <<target, adder>>
  BY <1>1 DEF RouteInboundCall
<1>4. CASE TargetsOf(n) = {}
  <2>1. PICK q : q = [was EXCEPT !.at = "done"]
    OBVIOUS
  <2>2. q \in ArrivalRow /\ q.at = "done" /\ q.number = n /\ q.since = was.since
    BY <1>2, <2>1 DEF ArrivalRow
  <2>3. arrival' = [arrival EXCEPT ![c] = q] /\ locked' = locked
    BY <1>1, <1>2, <1>4, <2>1 DEF RouteInboundCall, LinesInv
  <2>. QED  BY <1>1, <1>2, <1>3, <1>4, <2>2, <2>3, RouterMoves
<1>5. CASE TargetsOf(n) # {}
  <2>1. ChosenTarget(n) \in TargetsOf(n) /\ ChosenTarget(n).user \in Users
    BY <1>5, ChosenWaitedLongest DEF TargetsOf, LinesInv, TargetsInv
  <2>2. Cardinality(TargetsOf(n)) \in Nat
    BY FS_Subset, FS_CardinalityType DEF LinesInv, TargetsInv, TargetsOf
  <2>3. PICK q : q = [was EXCEPT !.at = "locking", !.user = ChosenTarget(n).user,
                                 !.holds = Cardinality(TargetsOf(n))]
    OBVIOUS
  <2>4. /\ q \in ArrivalRow /\ q.at = "locking" /\ q.number = n /\ q.since = was.since
        /\ q.user = ChosenTarget(n).user /\ q.holds = Cardinality(TargetsOf(n))
    BY <1>2, <2>1, <2>2, <2>3 DEF ArrivalRow
  <2>5. arrival' = [arrival EXCEPT ![c] = q] /\ locked' = locked \cup {n} /\ n \notin locked
    BY <1>1, <1>2, <1>5, <2>3 DEF RouteInboundCall, MayLock, LinesInv
  <2>6. InTurn(n, q.user, q.holds)
    <3>1. SUFFICES ASSUME Called(n, q.user), NEW t \in TargetsOf(n) PROVE Called(n, t.user)
      BY DEF InTurn
    <3>2. LastAssigned(n, q.user) > 0 /\ LastAssigned(n, q.user) \in Nat
      BY <3>1, LastAssignedIs
    <3>3. LastAssigned(n, q.user) <= LastAssigned(n, t.user)
      BY <1>5, <2>4, ChosenWaitedLongest
    <3>4. LastAssigned(n, t.user) \in Nat /\ (LastAssigned(n, t.user) > 0 <=> Called(n, t.user))
      BY LastAssignedIs
    <3>. QED  BY <3>2, <3>3, <3>4
  <2>7. q.holds <= Cardinality(TargetsOf(n))
    BY <2>2, <2>4
  <2>. QED  BY <1>1, <1>2, <1>3, <1>5, <2>4, <2>5, <2>6, <2>7, RouterMoves
<1>. QED  BY <1>4, <1>5

LEMMA CommitInboundCallStep ==
    ASSUME LinesInv, NEW c \in Arrivals, CommitInboundCall(c) PROVE LinesInv'
<1>1. PICK was \in ArrivalRow : was = arrival[c]
  BY DEF LinesInv
<1>2. PICK q : q = [was EXCEPT !.at = "done"]
  OBVIOUS
<1>3. q \in ArrivalRow /\ q.at = "done" /\ q.number = was.number /\ q.since = was.since
  BY <1>2 DEF ArrivalRow
<1>4. /\ was.at = "locking" /\ arrival' = [arrival EXCEPT ![c] = q]
      /\ locked' = locked \ {was.number} /\ UNCHANGED <<target, adder>>
  BY <1>1, <1>2 DEF CommitInboundCall, LinesInv
<1>. QED  BY <1>1, <1>3, <1>4, RouterMoves

LEMMA LinesKept == ASSUME LinesInv, UNCHANGED <<target, adder, arrival, locked>> PROVE LinesInv'
<1>1. \A n, u : Called(n, u)' <=> Called(n, u)
  BY DEF Called, Routed
<1>2. ASSUME NEW c \in Arrivals PROVE ArrivalSound(c)'
  <2>1. arrival[c].at = "locking" => arrival[c].number \in locked'
    BY DEF LinesInv, ArrivalSound
  <2>. QED  BY <1>1, <2>1, OthersRoute
<1>. QED  BY <1>2, TargetsStay DEF LinesInv, RoutersApart, Dated

LEMMA LinesStep == ASSUME LinesInv, LinesNext PROVE LinesInv'
<1>1. ASSUME NEW n \in Numbers, ProviderSells(n) \/ ProvisionPhoneNumber(n) \/ ReleasePhoneNumber(n)
      PROVE  LinesInv'
  <2>1. UNCHANGED <<target, adder, arrival, locked>>
    BY <1>1 DEF ProviderSells, ProvisionPhoneNumber, ReleasePhoneNumber
  <2>. QED  BY <2>1, LinesKept
<1>. QED  BY <1>1, InsertTargetStep, CountTargetsStep, CallArrivesStep, RouteInboundCallStep,
             CommitInboundCallStep DEF LinesNext

-----------------------------------------------------------------------------
DeskInv == LinesInv /\ DialInv /\ TapeInv

LEMMA DeskStart == ASSUME DeskInit PROVE DeskInv
<1>1. DialInv /\ TapeInv
  BY DEF DeskInit, DialInv, DialRow, DialSound, TapeInv, TapeRow, TapeSound, NoUser
<1>2. \A n : TargetsOf(n) = {}
  BY DEF DeskInit, TargetsOf
<1>3. Cardinality({}) = 0 /\ IsFiniteSet({})
  BY FS_EmptySet
<1>4. PositionsDense
  <2>1. ASSUME NEW n \in Numbers
        PROVE  /\ {t.position : t \in TargetsOf(n)} = 0 .. Cardinality(TargetsOf(n)) - 1
               /\ Cardinality(TargetsOf(n)) <= MaxTargets
    <3>1. PICK k : k = Cardinality(TargetsOf(n))
      OBVIOUS
    <3>2. k = 0
      BY <1>2, <1>3, <3>1
    <3>3. {t.position : t \in TargetsOf(n)} = {}
      BY <1>2
    <3>4. 0 .. k - 1 = {} /\ k <= MaxTargets
      BY <3>2, DeskAssumption
    <3>. QED  BY <3>1, <3>3, <3>4
  <2>. QED  BY <2>1 DEF PositionsDense
<1>5. TargetsInv
  BY <1>3, <1>4 DEF DeskInit, TargetsInv, AdderRow, AdderSound
<1>6. arrival \in [Arrivals -> ArrivalRow] /\ (\A c \in Arrivals : arrival[c].at = "idle")
  BY DEF DeskInit, ArrivalRow
<1>7. Dated
  BY DEF DeskInit, Dated
<1>. QED  BY <1>1, <1>5, <1>6, <1>7 DEF DeskInv, LinesInv, ArrivalSound, RoutersApart

LEMMA DeskStep == ASSUME DeskInv, [LinesNext \/ DialsNext \/ TapesNext]_deskVars PROVE DeskInv'
<1>1. CASE LinesNext
  <2>1. UNCHANGED <<dial, tape, day>>
    BY <1>1 DEF LinesNext, ProviderSells, ProvisionPhoneNumber, ReleasePhoneNumber, CountTargets,
                InsertTarget, CallArrives, RouteInboundCall, CommitInboundCall
  <2>. QED  BY <1>1, <2>1, LinesStep DEF DeskInv, DialInv, TapeInv
<1>2. CASE DialsNext
  <2>1. UNCHANGED <<linesVars, tape, day>>
    BY <1>2 DEF DialsNext, InsertOutboundCall, PlaceCall, OwnNumberRings, RecordFailure,
                RecordPlaced, DialerDies
  <2>. QED  BY <1>2, <2>1, DialStep, LinesKept DEF DeskInv, TapeInv, linesVars
<1>3. CASE TapesNext
  <2>1. UNCHANGED <<linesVars, dial>>
    BY <1>3 DEF TapesNext, PutObject, InsertRecording, StorerDies, DeleteObject, BeginSweep,
                DeleteRecordings, SweepFails, DayPasses
  <2>. QED  BY <1>3, <2>1, TapeStep, SweepStep, LinesKept DEF DeskInv, DialInv, TapesNext, linesVars
<1>4. CASE UNCHANGED deskVars
  <2>1. UNCHANGED <<linesVars, dial, tape, day>>
    BY <1>4 DEF deskVars, linesVars
  <2>. QED  BY <2>1, LinesKept DEF DeskInv, DialInv, TapeInv, linesVars
<1>. QED  BY <1>1, <1>2, <1>3, <1>4

LEMMA DeskIsSound ==
    DeskInv => /\ PositionsDense /\ CallsAccountedFor
               /\ UnexpiredIsPlayable /\ NoAudioWithoutRow
<1>. SUFFICES ASSUME DeskInv PROVE CallsAccountedFor /\ UnexpiredIsPlayable /\ NoAudioWithoutRow
  BY DEF DeskInv, LinesInv, TargetsInv
<1>1. CallsAccountedFor
  BY DEF DeskInv, DialInv, DialSound, CallsAccountedFor
<1>. QED  BY <1>1 DEF DeskInv, TapeInv, TapeSound, UnexpiredIsPlayable, NoAudioWithoutRow

LEMMA NobodyIsPassedOver == DeskInv => NobodyPassedOver
<1>. SUFFICES ASSUME DeskInv, NEW c \in Arrivals, arrival[c].at = "locking",
                     NEW n, n = arrival[c].number, Called(n, arrival[c].user),
                     NEW t \in TargetsOf(n), t.position < arrival[c].holds
              PROVE  LastAssigned(n, t.user) > 0
  BY DEF NobodyPassedOver, Called
<1>1. LinesInv /\ InTurn(n, arrival[c].user, arrival[c].holds)
  BY DEF DeskInv, LinesInv, ArrivalSound
<1>2. Called(n, t.user)
  BY <1>1 DEF InTurn
<1>. QED  BY <1>1, <1>2, LastAssignedIs

\* However calls to one number, changes of its targets, outbound calls and sweeps
\* overlap, for any number of each: positions are dense, nobody who may be called is
\* passed over, no call is lost between the provider and its row, and audio and
\* row of a recording live and die together (routing.py, calls.py, recordings.py).
THEOREM DeskAccountsHolds == DeskSpec => DeskAccounts
<1>1. DeskInit => DeskInv
  BY DeskStart
<1>2. DeskInv /\ [LinesNext \/ DialsNext \/ TapesNext]_deskVars => DeskInv'
  BY DeskStep
<1>3. DeskInv /\ [LinesNext \/ DialsNext \/ TapesNext]_deskVars => [NobodyPassedOver]_deskVars
  BY NobodyIsPassedOver
<1>4. DeskInv => PositionsDense /\ CallsAccountedFor /\ UnexpiredIsPlayable /\ NoAudioWithoutRow
  BY DeskIsSound
<1>. QED  BY <1>1, <1>2, <1>3, <1>4, PTL DEF DeskSpec, DeskAccounts
=============================================================================
