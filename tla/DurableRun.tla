------------------------------ MODULE DurableRun ------------------------------
(***************************************************************************)
(* One durable run (product/automation/durable): its row in                *)
(* durable_runs, the Temporal execution that walks the steps of the        *)
(* published version, the activities the execution has done, and the       *)
(* callers that submit, cancel and signal it.                              *)
(*                                                                         *)
(* The row and the execution live in two systems and no transaction spans  *)
(* both: every caller reads the row, talks to Temporal, and writes the row *)
(* in steps of its own.  An activity is done at least once: its effect may *)
(* be repeated until the execution has seen that it is over.               *)
(***************************************************************************)
EXTENDS Naturals, FiniteSets

CONSTANTS
    Steps,        \* step keys of the version
    FirstStep,    \* start_step_key
    Kind,         \* Kind[s]: the step's type
    Event,        \* Event[s]: the event type a wait_for_event step waits for
    Goto,         \* Goto[s]: next_step_key; a condition's next_step_key_true
    Else,         \* Else[s]: next_step_key_false, or timeout_step_key
    Submitters,   \* start_run() requests and sweeps of queued runs
    Cancellers,   \* cancel_run() requests
    Signallers,   \* signal_run() requests
    MaxAttempts,  \* maximum_attempts of the action's retry policy
    MaxOpen,      \* bound: repeated inserts of one step's row
    NULL

Kinds  == {"action", "condition", "delay", "wait_for_event"}
EventTypes == {Event[s] : s \in {x \in Steps : Kind[x] = "wait_for_event"}}

ASSUME StepsAssumption ==
    /\ FirstStep \in Steps
    /\ Kind \in [Steps -> Kinds]
    /\ {Goto, Else} \subseteq [Steps -> Steps \cup {NULL}]
    /\ NULL \notin Steps \cup EventTypes \cup Signallers
    /\ {"idle", "done"} \cap EventTypes = {}
ASSUME AttemptsAssumption == MaxAttempts \in Nat \ {0} /\ MaxOpen \in Nat \ {0}

VARIABLES
    row,        \* the durable_runs row
    open,       \* open[s]: durable_run_steps rows of step s still "running"
    exec,       \* the Temporal execution with the run's workflow id
    attempt,    \* attempt[s][t]: the action activity of s in t's execution
    key,        \* key[s]: the idempotency record of "<run>.<step>"
    submit,     \* submit[t]: where submitter t is
    cancel,     \* cancel[c]: where canceller c is
    signal,     \* signal[g]: where signaller g is
    resumed     \* resumed[g]: the waits that the signal of g ended

callers == <<submit, cancel, signal>>
acting  == <<attempt, key>>
vars    == <<row, open, exec, acting, callers, resumed>>

Terminal == {"completed", "failed", "cancelled"}
Statuses == {"queued", "running", "waiting"} \cup Terminal
Open     == {"start", "begin", "action", "condition", "delay", "wait_for_event", "record", "finish"}

NoExecution == [at |-> "none"]
\* A started execution: who started it, the activity or wait it is at, whether that activity
\* has already written, the fate to record, and what submit_event() set.
Executions ==
    [by : Submitters, at : Open \cup {"closed"}, step : Steps \cup {NULL}, wrote : BOOLEAN,
     fate : {"none", "completed", "failed", "cancelled"}, step_ok : BOOLEAN,
     next : Steps \cup {NULL}, expected : EventTypes \cup {NULL},
     received : Signallers \cup {NULL}, cancelling : BOOLEAN]

Attempts    == [number : 0..MaxAttempts, state : {"idle", "begun", "reserved", "acted"}]
NoAttempt   == [number |-> 0, state |-> "idle"]

\* Every variable keeps its type.
TypeOK ==
    /\ row \in [status : Statuses \cup {"absent"}, submitted : BOOLEAN,
                waiting_for : EventTypes \cup {NULL}]
    /\ open \in [Steps -> Nat]
    /\ exec \in Executions \cup {NoExecution}
    /\ attempt \in [Steps -> [Submitters -> Attempts]]
    /\ key \in [Steps -> {"none", "pending", "succeeded", "failed"}]
    /\ submit \in [Submitters -> {"idle", "read", "started", "done"}]
    /\ cancel \in [Cancellers -> {"idle", "checked", "told", "done", "dead"}]
    /\ signal \in [Signallers -> {"idle", "done"} \cup EventTypes]
    /\ resumed \in [Signallers -> SUBSET Steps]

Init ==
    /\ row = [status |-> "absent", submitted |-> FALSE, waiting_for |-> NULL]
    /\ open = [s \in Steps |-> 0]
    /\ exec = NoExecution
    /\ attempt = [s \in Steps |-> [t \in Submitters |-> NoAttempt]]
    /\ key = [s \in Steps |-> "none"]
    /\ submit = [t \in Submitters |-> "idle"]
    /\ cancel = [c \in Cancellers |-> "idle"]
    /\ signal = [g \in Signallers |-> "idle"]
    /\ resumed = [g \in Signallers |-> {}]

Alive == exec.at \in Open

-------------------------------------------------------------------------------
(***************************************************************************)
(* Submission.                                                             *)
(***************************************************************************)

\* _reserve_run(): the unique key lets one insert of the run through.
Reserved == row' = [row EXCEPT !.status = "queued"]

\* An event of the trigger's type: a row, and no call to Temporal.
HandleTrigger ==
    /\ row.status = "absent"
    /\ Reserved
    /\ UNCHANGED <<open, exec, acting, callers, resumed>>

\* start_run(): reserves the row and goes on to submit it.
StartRun(t) ==
    /\ submit[t] = "idle" /\ row.status = "absent"
    /\ Reserved
    /\ submit' = [submit EXCEPT ![t] = "read"]
    /\ UNCHANGED <<open, exec, acting, cancel, signal, resumed>>

\* submit_queued_durable_runs() reads the queued runs.
SweepReads(t) ==
    /\ submit[t] = "idle" /\ row.status = "queued"
    /\ submit' = [submit EXCEPT ![t] = "read"]
    /\ UNCHANGED <<row, open, exec, acting, cancel, signal, resumed>>

FirstTask(t) ==
    [by |-> t, at |-> "start", step |-> NULL, wrote |-> FALSE, fate |-> "none", step_ok |-> TRUE,
     next |-> NULL, expected |-> NULL, received |-> NULL, cancelling |-> FALSE]

\* client.start_workflow(): Temporal refuses the id of an execution that is
\* open, and accepts that of a closed one.
StartWorkflow(t) ==
    /\ submit[t] = "read" /\ ~Alive
    /\ exec' = FirstTask(t)
    /\ submit' = [submit EXCEPT ![t] = "started"]
    /\ UNCHANGED <<row, open, acting, cancel, signal, resumed>>

AlreadyStarted(t) ==
    /\ submit[t] = "read" /\ Alive
    /\ submit' = [submit EXCEPT ![t] = "done"]
    /\ UNCHANGED <<row, open, exec, acting, cancel, signal, resumed>>

StoreHandle(t) ==
    /\ submit[t] = "started"
    /\ row' = [row EXCEPT !.submitted = TRUE]
    /\ submit' = [submit EXCEPT ![t] = "done"]
    /\ UNCHANGED <<open, exec, acting, cancel, signal, resumed>>

\* The submitter's process dies; nothing restarts its work.
SubmitterDies(t) ==
    /\ submit[t] \in {"read", "started"}
    /\ submit' = [submit EXCEPT ![t] = "done"]
    /\ UNCHANGED <<row, open, exec, acting, cancel, signal, resumed>>

-------------------------------------------------------------------------------
(***************************************************************************)
(* The execution.  An activity writes (possibly again) while the execution *)
(* is at it, and Seen(...) is the execution going on from it.              *)
(***************************************************************************)

Seen(at, e) == exec' = [e EXCEPT !.at = at, !.wrote = FALSE]

\* start_run_activity.
StartRunActivity ==
    /\ exec.at = "start"
    /\ row' = [row EXCEPT !.status = "running"]
    /\ exec' = [exec EXCEPT !.wrote = TRUE]
    /\ UNCHANGED <<open, acting, callers, resumed>>

RunStarted ==
    /\ exec.at = "start" /\ exec.wrote
    /\ Seen("begin", [exec EXCEPT !.step = FirstStep])
    /\ UNCHANGED <<row, open, acting, callers, resumed>>

\* record_step_started_activity; repeated, it inserts a second row.
RecordStepStarted ==
    /\ exec.at = "begin" /\ (exec.wrote => open[exec.step] < MaxOpen)
    /\ open' = [open EXCEPT ![exec.step] = @ + 1]
    /\ LET waits == Kind[exec.step] = "wait_for_event"
       IN  row' = [row EXCEPT !.status = IF waits THEN "waiting" ELSE "running",
                              !.waiting_for = IF waits THEN Event[exec.step] ELSE NULL]
    /\ exec' = [exec EXCEPT !.wrote = TRUE]
    /\ UNCHANGED <<acting, callers, resumed>>

\* Mutant: a signal kept for an earlier wait survives.
StepEnteredKeepsSignal ==
    /\ exec.at = "begin" /\ exec.wrote
    /\ IF Kind[exec.step] = "wait_for_event"
       THEN Seen("wait_for_event", [exec EXCEPT !.expected = Event[exec.step]])
       ELSE Seen(Kind[exec.step], exec)
    /\ UNCHANGED <<row, open, acting, callers, resumed>>

\* The execution enters the step; a wait forgets any earlier signal.
StepEntered ==
    /\ exec.at = "begin" /\ exec.wrote
    /\ IF Kind[exec.step] = "wait_for_event"
       THEN Seen("wait_for_event", [exec EXCEPT !.expected = Event[exec.step], !.received = NULL])
       ELSE Seen(Kind[exec.step], exec)
    /\ UNCHANGED <<row, open, acting, callers, resumed>>

\* Leaves the step for n, or for the end of the run when the step failed
\* without somewhere to go.
Leave(ok, n, fate) ==
    Seen("record", [exec EXCEPT !.step_ok = ok, !.next = n, !.fate = fate, !.expected = NULL])

\* evaluate_conditions() on the context.
Branch ==
    /\ exec.at = "condition"
    /\ \E n \in {Goto[exec.step], Else[exec.step]} : Leave(TRUE, n, "none")
    /\ UNCHANGED <<row, open, acting, callers, resumed>>

TimerFires ==
    /\ exec.at = "delay"
    /\ Leave(TRUE, Goto[exec.step], "none")
    /\ UNCHANGED <<row, open, acting, callers, resumed>>

Resume ==
    /\ exec.at = "wait_for_event" /\ exec.received # NULL
    /\ Leave(TRUE, Goto[exec.step], "none")
    /\ resumed' = [resumed EXCEPT ![exec.received] = @ \cup {exec.step}]
    /\ UNCHANGED <<row, open, acting, callers>>

WaitTimesOut ==
    /\ exec.at = "wait_for_event" /\ exec.received = NULL
    /\ Leave(FALSE, Else[exec.step], IF Else[exec.step] = NULL THEN "failed" ELSE "none")
    /\ UNCHANGED <<row, open, acting, callers, resumed>>

\* record_step_finished_activity closes the latest running row of the step.
RecordStepFinished ==
    /\ exec.at = "record"
    /\ open' = [open EXCEPT ![exec.step] = IF @ > 0 THEN @ - 1 ELSE 0]
    /\ row' = [row EXCEPT !.waiting_for = NULL]
    /\ exec' = [exec EXCEPT !.wrote = TRUE]
    /\ UNCHANGED <<acting, callers, resumed>>

StepLeft ==
    /\ exec.at = "record" /\ exec.wrote
    /\ IF exec.next # NULL
       THEN Seen("begin", [exec EXCEPT !.step = exec.next])
       ELSE Seen("finish", [exec EXCEPT !.fate = IF @ = "failed" THEN "failed" ELSE "completed"])
    /\ UNCHANGED <<row, open, acting, callers, resumed>>

\* finish_run_activity.
FinishRun ==
    /\ exec.at = "finish"
    /\ row' = [row EXCEPT !.status = exec.fate]
    /\ exec' = [exec EXCEPT !.wrote = TRUE]
    /\ UNCHANGED <<open, acting, callers, resumed>>

Close ==
    /\ exec.at = "finish" /\ exec.wrote
    /\ Seen("closed", exec)
    /\ UNCHANGED <<row, open, acting, callers, resumed>>

\* A cancellation request ends the execution at whatever it awaits.
Cancelled ==
    /\ Alive /\ exec.cancelling
    /\ Seen("closed", [exec EXCEPT !.fate = "cancelled"])
    /\ UNCHANGED <<row, open, acting, callers, resumed>>

-------------------------------------------------------------------------------
(***************************************************************************)
(* execute_step_action_activity: reserve the key, act, finalise.           *)
(***************************************************************************)

InAction(s, t) == exec.at = "action" /\ exec.step = s /\ exec.by = t

BeginAttempt(s, t) ==
    /\ InAction(s, t)
    /\ attempt[s][t].state = "idle" /\ attempt[s][t].number < MaxAttempts
    /\ attempt' = [attempt EXCEPT ![s][t] = [number |-> @.number + 1, state |-> "begun"]]
    /\ UNCHANGED <<row, open, exec, key, callers, resumed>>

\* What the execution does with a result, an exhausted retry or a permanent
\* failure; nothing, if it was cancelled meanwhile.
Succeeds(s, t) == IF InAction(s, t) THEN Leave(TRUE, Goto[s], "none") ELSE UNCHANGED exec
Fails(s, t)    == IF InAction(s, t) THEN Leave(FALSE, NULL, "failed") ELSE UNCHANGED exec
\* Mutant: an exhausted retry is not noticed.
RetryForever(s, t) == UNCHANGED exec

RetryOrFail(s, t) ==
    IF attempt[s][t].number < MaxAttempts THEN UNCHANGED exec ELSE Fails(s, t)

Is(s, t, state)  == attempt[s][t].state = state
Becomes(s, t, a) == attempt' = [attempt EXCEPT ![s][t].state = a]

\* Mutant: reserves a key that succeeded.
ReserveAlways(s, t) ==
    /\ Is(s, t, "begun")
    /\ key' = [key EXCEPT ![s] = "pending"]
    /\ Becomes(s, t, "reserved")
    /\ UNCHANGED <<row, open, exec, callers, resumed>>

\* begin_idempotent_operation(): a failed key, or one whose reservation lapsed
\* with the attempt that held it, is reserved anew.
Reserve(s, t) ==
    /\ Is(s, t, "begun") /\ key[s] # "succeeded"
    /\ key[s] = "pending" => \A u \in Submitters : attempt[s][u].state \notin {"reserved", "acted"}
    /\ key' = [key EXCEPT ![s] = "pending"]
    /\ Becomes(s, t, "reserved")
    /\ UNCHANGED <<row, open, exec, callers, resumed>>

\* A key that succeeded replays its result.
Replay(s, t) ==
    /\ Is(s, t, "begun") /\ key[s] = "succeeded"
    /\ Becomes(s, t, "idle")
    /\ Succeeds(s, t)
    /\ UNCHANGED <<row, open, key, callers, resumed>>

\* IdempotencyInProgressError: the reservation still holds.
InProgress(s, t) ==
    /\ Is(s, t, "begun") /\ key[s] = "pending"
    /\ Becomes(s, t, "idle")
    /\ RetryOrFail(s, t)
    /\ UNCHANGED <<row, open, key, callers, resumed>>

\* execute_action() returns ...
ActReturns(s, t) ==
    /\ Is(s, t, "reserved")
    /\ Becomes(s, t, "acted")
    /\ UNCHANGED <<row, open, exec, key, callers, resumed>>

\* ... or raises: retryable, or a denial or bad
\* configuration that ends the retries.
ActRaises(s, t) ==
    /\ Is(s, t, "reserved")
    /\ key' = [key EXCEPT ![s] = "failed"]
    /\ Becomes(s, t, "idle")
    /\ \/ RetryOrFail(s, t)
       \/ Fails(s, t)
    /\ UNCHANGED <<row, open, callers, resumed>>

Finalise(s, t) ==
    /\ Is(s, t, "acted")
    /\ key' = [key EXCEPT ![s] = "succeeded"]
    /\ Becomes(s, t, "idle")
    /\ Succeeds(s, t)
    /\ UNCHANGED <<row, open, callers, resumed>>

\* The worker dies during the attempt; Temporal learns of it by timeout.
WorkerDies(s, t) ==
    /\ ~Is(s, t, "idle")
    /\ Becomes(s, t, "idle")
    /\ RetryOrFail(s, t)
    /\ UNCHANGED <<row, open, key, callers, resumed>>

-------------------------------------------------------------------------------
(***************************************************************************)
(* cancel_run() and signal_run().                                          *)
(***************************************************************************)

\* The first transaction: the row is not terminal, and has a handle or none.
CancelChecks(c) ==
    /\ cancel[c] = "idle" /\ row.status \in Statuses \ Terminal
    /\ cancel' = [cancel EXCEPT ![c] = IF row.submitted THEN "checked" ELSE "told"]
    /\ UNCHANGED <<row, open, exec, acting, submit, signal, resumed>>

\* handle.cancel(): an error, which ends the request, if the execution closed.
CancelTells(c) ==
    /\ cancel[c] = "checked"
    /\ cancel' = [cancel EXCEPT ![c] = IF Alive THEN "told" ELSE "done"]
    /\ exec' = IF Alive THEN [exec EXCEPT !.cancelling = TRUE] ELSE exec
    /\ UNCHANGED <<row, open, acting, submit, signal, resumed>>

\* The second transaction writes without looking.
CancelWrites(c) ==
    /\ cancel[c] = "told"
    /\ row' = [row EXCEPT !.status = "cancelled"]
    /\ cancel' = [cancel EXCEPT ![c] = "done"]
    /\ UNCHANGED <<open, exec, acting, submit, signal, resumed>>

CancellerDies(c) ==
    /\ cancel[c] \in {"checked", "told"}
    /\ cancel' = [cancel EXCEPT ![c] = "dead"]
    /\ UNCHANGED <<row, open, exec, acting, submit, signal, resumed>>

SignalChecks(g) ==
    /\ signal[g] = "idle" /\ row.status = "waiting" /\ row.waiting_for # NULL
    /\ row.submitted
    /\ signal' = [signal EXCEPT ![g] = row.waiting_for]
    /\ UNCHANGED <<row, open, exec, acting, submit, cancel, resumed>>

\* submit_event(): kept if the execution expects this type just now.
SignalArrives(g) ==
    /\ signal[g] \in EventTypes
    /\ signal' = [signal EXCEPT ![g] = "done"]
    /\ exec' = IF Alive /\ exec.expected = signal[g] THEN [exec EXCEPT !.received = g] ELSE exec
    /\ UNCHANGED <<row, open, acting, submit, cancel, resumed>>

-------------------------------------------------------------------------------
Submission(t) ==
    \/ StartRun(t) \/ SweepReads(t) \/ StartWorkflow(t) \/ AlreadyStarted(t)
    \/ StoreHandle(t) \/ SubmitterDies(t)

Writes == StartRunActivity \/ RecordStepStarted \/ RecordStepFinished \/ FinishRun

GoesOn ==
    \/ RunStarted \/ StepEntered \/ Branch \/ TimerFires \/ Resume \/ WaitTimesOut
    \/ StepLeft \/ Close \/ Cancelled

ActionStep(s, t) ==
    \/ BeginAttempt(s, t) \/ Reserve(s, t) \/ Replay(s, t) \/ InProgress(s, t)
    \/ ActReturns(s, t) \/ ActRaises(s, t) \/ Finalise(s, t)

Next ==
    \/ HandleTrigger
    \/ \E t \in Submitters : Submission(t)
    \/ Writes \/ GoesOn
    \/ \E s \in Steps, t \in Submitters : ActionStep(s, t) \/ WorkerDies(s, t)
    \/ \E c \in Cancellers : CancelChecks(c) \/ CancelTells(c) \/ CancelWrites(c) \/ CancellerDies(c)
    \/ \E g \in Signallers : SignalChecks(g) \/ SignalArrives(g)

Spec == Init /\ [][Next]_vars

\* Temporal retries bookkeeping activities without end and keeps the timers,
\* and a worker takes each task.  Nothing makes anybody submit, cancel or
\* signal, or go on with it.
FairSpec ==
    /\ Spec
    /\ WF_vars(Writes) /\ WF_vars(GoesOn)
    /\ \A s \in Steps, t \in Submitters : WF_vars(ActionStep(s, t))

-------------------------------------------------------------------------------
(***************************************************************************)
(* Properties.                                                             *)
(***************************************************************************)

\* Once the key of a step says its action succeeded, no attempt is left that
\* may still act, whatever worker died, execution was cancelled or run was
\* submitted again (business_activities.py, "Business idempotency").
SettledOnce ==
    \A s \in Steps : key[s] = "succeeded" =>
        /\ key'[s] = "succeeded"
        /\ \A t \in Submitters : attempt'[s][t].state \notin {"reserved", "acted"}

\* A signal ends at most one wait: one kept for an earlier wait never resumes
\* a later one for the same event (DurableWorkflow._run_wait_step()).
SignalUsedOnce == \A g \in Signallers : Cardinality(resumed[g]) <= 1

\* An execution that ran to its end leaves a terminal row behind
\* (DurableWorkflow._finish()); one that was cancelled may not.
EndIsRecorded ==
    exec.at = "closed" /\ exec.fate # "cancelled" => row.status \in Terminal

\* Every execution brings the row to a terminal status unless it is itself
\* cancelled: through waits nobody answers, actions that keep failing, and
\* workers that die.
RunEnds ==
    exec.at = "start" ~> (row.status \in Terminal \/ (exec.at = "closed" /\ exec.fate = "cancelled"))

\* runs.py:302 asserts it: a run that waits has been given its handle.
WaitingWasSubmitted == row.status = "waiting" => row.submitted

\* models.py:191 says that no submission "is ever issued for a run in one of these
\* statuses": an execution starts for a row that has not ended.
SubmittedWhileOpen == [][~Alive /\ Alive' => row.status \notin Terminal]_vars

\* So what is cancelled would stay cancelled (models.py:194).
CancelledForever == [][row.status = "cancelled" => row'.status = "cancelled"]_vars

\* What the rows say of a run is what its execution did: no worker's death,
\* cancellation or new submission makes an action possible again once its key
\* says it succeeded, a signal ends one wait, and an execution that ran to its
\* end is recorded (business_activities.py, production_workflow.py).
RunTellsItsExecution ==
    /\ [](/\ TypeOK
          /\ SignalUsedOnce
          /\ EndIsRecorded)
    /\ [][SettledOnce]_vars
===============================================================================
