--------------------------- MODULE WorkflowDispatch ---------------------------
(***************************************************************************)
(* Event-triggered and scheduled workflows (product/automation): their     *)
(* definitions, the rows of automation.workflow_runs, and the threads that *)
(* handle an event or a sweep.                                             *)
(*                                                                         *)
(* publish() calls _handle_event() in the publisher's own thread, and an   *)
(* action may publish again: a thread is a stack of the loops over         *)
(* workflows it is in, innermost last.                                     *)
(***************************************************************************)
EXTENDS Naturals, FiniteSets, Sequences

CONSTANTS
    Workflows,
    Events,      \* occurrences published by the rest of the product
    Raised,      \* the occurrence that a workflow's own action publishes
    Trigger,     \* Trigger[w]: the trigger_type of w
    Type,        \* Type[e]: the event type of occurrence e
    Raises,      \* Raises[w]: its action publishes Raised (move_opportunity)
    Holds,       \* Holds[w]: the occurrences on which its conditions hold
    Threads,
    Interval,    \* _interval_hours()
    MaxTime      \* bound of the clock

Scheduled == "scheduled"
Instants  == 0..MaxTime
Keys      == Events \cup {Raised} \cup Instants

ASSUME DispatchAssumption ==
    /\ Workflows # {} /\ Raised \notin Events /\ (Events \cup {Raised}) \cap Instants = {}
    /\ Interval \in Nat \ {0} /\ MaxTime \in Nat
    /\ DOMAIN Type = Events \cup {Raised} /\ DOMAIN Trigger = Workflows
    /\ Raises \in [Workflows -> BOOLEAN] /\ Holds \in [Workflows -> SUBSET Keys]

VARIABLES
    status,   \* status[w]: the row of w in automation.workflows
    run,      \* run[w][k]: its workflow_runs row for trigger_dedup_key k
    created,  \* created[w][k]: created_at of that row
    clock,
    stack,    \* stack[t]: the loops that thread t is in
    effects,  \* effects[w][k]: how often the action was done
    lost      \* the runs that a thread was in when it died

dispatchVars == <<status, run, created, clock, stack, effects, lost>>

\* _AUTOMATION_DEPTH is the number of loops whose action is in progress.
MAX_AUTOMATION_DEPTH == 1

RunStatuses == {"pending", "success", "failed", "skipped"}
Loop == [key : Keys, all : SUBSET Workflows, todo : SUBSET Workflows,
         at : {"loop", "acting", "publishing", "success", "failed"}, w : Workflows]

\* Every variable keeps its type, and a thread is at most one level deep.
DispatchTypeOK ==
    /\ status \in [Workflows -> {"new", "active", "paused", "deleted"}]
    /\ run \in [Workflows -> [Keys -> RunStatuses \cup {"none"}]]
    /\ created \in [Workflows -> [Keys -> Instants]]
    /\ clock \in Instants
    /\ \A t \in Threads : stack[t] \in Seq(Loop) /\ Len(stack[t]) <= MAX_AUTOMATION_DEPTH
    /\ effects \in [Workflows -> [Keys -> Nat]]
    /\ lost \subseteq Workflows \X Keys

DispatchRest ==
    /\ run = [w \in Workflows |-> [k \in Keys |-> "none"]]
    /\ created = [w \in Workflows |-> [k \in Keys |-> 0]]
    /\ stack = [t \in Threads |-> <<>>]
    /\ effects = [w \in Workflows |-> [k \in Keys |-> 0]]
    /\ lost = {}

DispatchInit ==
    /\ status = [w \in Workflows |-> "new"]
    /\ clock = 0
    /\ DispatchRest

Exists(w) == status[w] \in {"active", "paused"}
Depth(t)  == Len(stack[t])
Inner(t)  == stack[t][Depth(t)]
In(t, at) == Depth(t) > 0 /\ Inner(t).at = at
SetInner(t, loop) == stack' = [stack EXCEPT ![t][Depth(t)] = loop]
Pushed(t, loop)   == [stack EXCEPT ![t] = Append(@, loop)]
Popped(t)         == [stack EXCEPT ![t] = SubSeq(@, 1, Len(@) - 1)]

-------------------------------------------------------------------------------
(***************************************************************************)
(* workflows.py: each is one transaction on one row.                       *)
(***************************************************************************)
CreateWorkflow(w) ==
    /\ status[w] = "new"
    /\ status' = [status EXCEPT ![w] = "active"]
    /\ UNCHANGED <<run, created, clock, stack, effects, lost>>

SetWorkflowStatus(w) ==
    /\ Exists(w)
    /\ \E s \in {"active", "paused"} : status' = [status EXCEPT ![w] = s]
    /\ UNCHANGED <<run, created, clock, stack, effects, lost>>

\* The foreign key of its runs is ON DELETE CASCADE.
DeleteWorkflow(w) ==
    /\ Exists(w)
    /\ status' = [status EXCEPT ![w] = "deleted"]
    /\ run' = [run EXCEPT ![w] = [k \in Keys |-> "none"]]
    /\ UNCHANGED <<created, clock, stack, effects, lost>>

Tick ==
    /\ clock < MaxTime
    /\ clock' = clock + 1
    /\ UNCHANGED <<status, run, created, stack, effects, lost>>

-------------------------------------------------------------------------------
(***************************************************************************)
(* _handle_event() and sweep_scheduled_workflows(): what they read first.  *)
(***************************************************************************)
NewLoop(k, ws) == [key |-> k, all |-> ws, todo |-> ws, at |-> "loop", w |-> CHOOSE w \in Workflows : TRUE]

MatchingActiveWorkflows(type) == {w \in Workflows : Trigger[w] = type /\ status[w] = "active"}

HandleEvent(t, e) ==
    /\ Depth(t) = 0
    /\ stack' = Pushed(t, NewLoop(e, MatchingActiveWorkflows(Type[e])))
    /\ UNCHANGED <<status, run, created, clock, effects, lost>>

Ran(w)     == {k \in Keys : run[w][k] # "none"}
LastRun(w) == CHOOSE c \in {created[w][k] : k \in Ran(w)} : \A k \in Ran(w) : created[w][k] <= c

IsDue(w) == Ran(w) = {} \/ clock - LastRun(w) >= Interval

Sweep(t) ==
    /\ Depth(t) = 0
    /\ stack' = Pushed(t, NewLoop(clock, {w \in MatchingActiveWorkflows(Scheduled) : IsDue(w)}))
    /\ UNCHANGED <<status, run, created, clock, effects, lost>>

-------------------------------------------------------------------------------
(***************************************************************************)
(* _run_workflow().                                                        *)
(***************************************************************************)
\* Mutant: the run is recorded whether or not the key is taken.
CanRecordAgain(w, k) == Exists(w)

\* _record_run(): the unique key and the foreign key let the insert pass.
CanRecord(w, k) == Exists(w) /\ run[w][k] = "none"

RecordRun(w, k, s) ==
    /\ run' = [run EXCEPT ![w][k] = s]
    /\ created' = [created EXCEPT ![w][k] = clock]

BeginWorkflow(t, w) ==
    /\ In(t, "loop") /\ w \in Inner(t).todo
    /\ LET f == [Inner(t) EXCEPT !.todo = @ \ {w}]
           s == IF f.key \in Holds[w] THEN "pending" ELSE "skipped"
       IN  IF ~CanRecord(w, f.key)
           THEN SetInner(t, f) /\ UNCHANGED <<run, created>>
           ELSE /\ RecordRun(w, f.key, s)
                /\ SetInner(t, IF s = "pending" THEN [f EXCEPT !.at = "acting", !.w = w] ELSE f)
    /\ UNCHANGED <<status, clock, effects, lost>>

\* execute_action() does what it does and may publish; it raises before or
\* after the effect, which may lie outside the database.
Act(t) ==
    /\ In(t, "acting")
    /\ LET f == Inner(t)
           goes_on == IF Raises[f.w] THEN "publishing" ELSE "success"
       IN  \/ \E at \in {goes_on, "failed"} :
                  /\ effects' = [effects EXCEPT ![f.w][f.key] = @ + 1]
                  /\ SetInner(t, [f EXCEPT !.at = at])
           \/ /\ SetInner(t, [f EXCEPT !.at = "failed"])
              /\ UNCHANGED effects
    /\ UNCHANGED <<status, run, created, clock, lost>>

DepthAllows(t) == Depth(t) < MAX_AUTOMATION_DEPTH

\* The action's own publish() enters _handle_event() again.
PublishFromAction(t) ==
    /\ In(t, "publishing")
    /\ LET acted == [stack EXCEPT ![t][Depth(t)].at = "success"]
           inner == NewLoop(Raised, MatchingActiveWorkflows(Type[Raised]))
       IN  stack' = IF DepthAllows(t) THEN [acted EXCEPT ![t] = Append(@, inner)] ELSE acted
    /\ UNCHANGED <<status, run, created, clock, effects, lost>>

\* The error of a run whose row is gone: _handle_event() goes on with the
\* next workflow, a sweep does not catch it.
AfterError(t) ==
    IF Inner(t).key \in Instants THEN Popped(t) ELSE [stack EXCEPT ![t][Depth(t)].at = "loop"]

\* Mutant: the failure of the action is recorded as a success.
OutcomeSuccess(f) == "success"

Outcome(f) == f.at

FinalizeRun(t) ==
    /\ In(t, "success") \/ In(t, "failed")
    /\ LET f == Inner(t)
       IN  IF run[f.w][f.key] = "none"
           THEN stack' = AfterError(t) /\ UNCHANGED run
           ELSE /\ run' = [run EXCEPT ![f.w][f.key] = Outcome(f)]
                /\ SetInner(t, [f EXCEPT !.at = "loop"])
    /\ UNCHANGED <<status, created, clock, effects, lost>>

\* The write of the success, or its audit record, fails: the except clause
\* records a failure.
FinalizeFails(t) ==
    /\ In(t, "success")
    /\ SetInner(t, [Inner(t) EXCEPT !.at = "failed"])
    /\ UNCHANGED <<status, run, created, clock, effects, lost>>

EndLoop(t) ==
    /\ In(t, "loop") /\ Inner(t).todo = {}
    /\ stack' = Popped(t)
    /\ UNCHANGED <<status, run, created, clock, effects, lost>>

Die(t) ==
    /\ Depth(t) > 0
    /\ stack' = [stack EXCEPT ![t] = <<>>]
    /\ lost' = lost \cup {<<stack[t][i].w, stack[t][i].key>> : i \in 1..Depth(t)}
    /\ UNCHANGED <<status, run, created, clock, effects>>

GoOn(t) ==
    \/ \E w \in Workflows : BeginWorkflow(t, w)
    \/ Act(t) \/ PublishFromAction(t) \/ FinalizeRun(t) \/ FinalizeFails(t) \/ EndLoop(t)

DispatchNext ==
    \/ \E w \in Workflows : CreateWorkflow(w) \/ SetWorkflowStatus(w) \/ DeleteWorkflow(w)
    \/ Tick
    \/ \E t \in Threads, e \in Events : HandleEvent(t, e)
    \/ \E t \in Threads : Sweep(t) \/ GoOn(t) \/ Die(t)

-------------------------------------------------------------------------------
(***************************************************************************)
(* Properties.                                                             *)
(***************************************************************************)

\* The same occurrence never executes twice for the same workflow, however
\* often it is delivered and whatever dies or is deleted (dispatcher.py,
\* "Idempotency").
ActedOnce == \A w \in Workflows, k \in Keys : effects[w][k] <= 1

\* A workflow never starts another: what its own action publishes fires
\* nothing (dispatcher.py, "Recursion guard").
NoCascade == \A w \in Workflows : run[w][Raised] = "none" /\ effects[w][Raised] = 0

\* A run recorded as a success did its action, and one recorded as skipped
\* did nothing.
OutcomeIsTrue ==
    \A w \in Workflows, k \in Keys :
        /\ run[w][k] = "success" => effects[w][k] = 1
        /\ run[w][k] = "skipped" => effects[w][k] = 0

\* What one workflow does never keeps an event from the others: whatever the
\* loop has left behind has a run, unless it was deleted meanwhile.
EventReachesAll ==
    \A t \in Threads : In(t, "loop") /\ Inner(t).key \in Events =>
        \A w \in Inner(t).all \ Inner(t).todo : run[w][Inner(t).key] # "none" \/ ~Exists(w)

\* Two scheduled runs of a workflow are an interval apart, unless the sweep
\* of the later one had decided before the earlier one was recorded.
ScheduledApart ==
    \A w \in Workflows : \A j, k \in Ran(w) \cap Instants :
        j < k => k - created[w][j] >= Interval \/ k <= created[w][j]

\* No reservation is forgotten: a pending run is one that a thread is in, or
\* was in when it died; nothing else ever settles it.
PendingOwned ==
    \A w \in Workflows, k \in Keys : run[w][k] = "pending" =>
        \/ <<w, k>> \in lost
        \/ \E t \in Threads : \E i \in 1..Depth(t) :
               stack[t][i].w = w /\ stack[t][i].key = k /\ stack[t][i].at # "loop"

\* Redeliveries, sweeps and dying workers make no automation act twice for one
\* occurrence, raise no endless cascade, keep no other workflow from its event,
\* and record no outcome that did not happen (dispatcher.py, scheduled.py).
ActsOnceAndSaysSo ==
    /\ DispatchTypeOK
    /\ ActedOnce
    /\ NoCascade
    /\ OutcomeIsTrue
    /\ ScheduledApart
    /\ EventReachesAll
    /\ PendingOwned
===============================================================================
