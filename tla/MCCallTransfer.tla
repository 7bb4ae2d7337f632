---------------------------- MODULE MCCallTransfer ----------------------------
(***************************************************************************)
(* CallTransfer for TLC: two invocations of initiate_transfer() and up to  *)
(* two deliveries of an answer callback.                                   *)
(***************************************************************************)
EXTENDS CallTransfer, TLC

CONSTANTS a1, a2, r1, r2,
          MaxOpen      \* bound: transactions that have loaded the row and not committed

\* Each escalation carries a request id of its own.
DistinctRequests == a1 :> r1 @@ a2 :> r2

\* The attempts are alike if each keeps its own request id.
Exchange == a1 :> a2 @@ a2 :> a1 @@ r1 :> r2 @@ r2 :> r1
Symmetry == Permutations(Deliveries) \cup {p @@ Exchange : p \in Permutations(Deliveries)}

Open == {t \in Transactions : copy[t] # NoCopy}

Started == {a \in Attempts : initiator[a] # "idle" \/ <<"initiator", a>> \in Open}

Delivered(a) == {d \in Deliveries : callback[a][d] # "idle"}

(***************************************************************************)
(* The bounds of the safety run.  A call has one attempt, every report and *)
(* a duplicate of its callback, or two attempts that start once there is a *)
(* call and a destination, one callback each, and ends by being hung up.   *)
(***************************************************************************)
Bounded ==
    /\ Cardinality(Open) <= MaxOpen
    /\ \/ Cardinality(Started) <= 1
       \/ /\ sent \subseteq {"ringing", "in-progress", "completed"}
          /\ \A a \in Attempts : Cardinality(Delivered(a)) <= 1
          /\ \A a \in Attempts : initiator[a] # "crashed"

MCSpec == Init /\ [][Next /\ Bounded']_vars

(***************************************************************************)
(* The bounds of the liveness run refuse no step that Fairness demands:    *)
(* the call ends by being hung up, its destination is set beforehand, and  *)
(* its reports are handled one by one.  What follows a transaction that    *)
(* was overtaken is cut off: the property asks nothing there.              *)
(***************************************************************************)
OneByOne ==
    /\ sent' \subseteq {"ringing", "in-progress", "completed"}
    /\ sent' # {} => destination
    /\ \A r, q \in Reports :
          copy'[<<"report", r>>] # NoCopy =>
             /\ <<"call", r>> \notin events'
             /\ copy'[<<"report", q>>] # NoCopy => r = q

MCFairNext == \/ ~overtaken /\ Next /\ OneByOne
              \/ overtaken /\ UNCHANGED vars

MCFairSpec == Init /\ [][MCFairNext]_vars /\ Fairness
===============================================================================
