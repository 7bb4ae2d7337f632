---------------------------- MODULE AgentActions ----------------------------
(***************************************************************************)
(* The tools of product/ai and who may let them run: the tenant's policy   *)
(* (policy.py), the invocation of a tool (invocation.py), directly or as a *)
(* step of a workflow (automation_action.py), and the approval of a tool   *)
(* that needs one (product/approvals/service.py).                          *)
(*                                                                         *)
(* A caller resolves the policy, and the decision it draws from it is used *)
(* one or several transactions later; meanwhile the policy is replaced, a  *)
(* permission taken away, the tenant closed.  A proposal waits between its *)
(* two callers for as long as people take.                                 *)
(*                                                                         *)
(* invoke_tool(), propose_action(), approve(), reject() and                *)
(* execute_approved() are control_plane's and core.rbac's: they are        *)
(* modelled as invocation.py, service.py and labels.py use them.           *)
(***************************************************************************)
EXTENDS Naturals

CONSTANTS
    Tools,         \* the registered tools
    TierGated,     \* those with autonomy_tier >= 1
    Guarded,       \* those that require a decision on the tenant's data
    Capabilities,  \* those a policy may name: the closed vocabulary
    Providers,     \* the platform's eligible providers
    Callers,       \* requests and workers, each with one call under way at a time
    Actors,        \* the users a tool runs for
    Deciders,      \* those with the owner's role: ai.policy and approvals.approval
    Proposals,
    NoOne

ASSUME AgentAssumption ==
    /\ TierGated \subseteq Tools /\ Guarded \subseteq Tools /\ Capabilities \subseteq Guarded
    /\ Deciders \subseteq Actors /\ NoOne \notin Actors \cup Proposals

VARIABLES
    aiPolicy,    \* the tenant's row of ai.tenant_policies
    holders,     \* users that hold the permission the tools ask for
    tenantOpen,  \* the tenant is neither closed nor being erased
    proposal,    \* the approval requests
    attempt      \* what each caller is doing

agentVars == <<aiPolicy, holders, tenantOpen, proposal, attempt>>

NoPolicy == [enabled |-> FALSE, capabilities |-> {}, providers |-> {}]
NoProposal == [status |-> "none", tool |-> NoOne, by |-> NoOne, provider |-> NoOne,
               decidedBy |-> NoOne, runs |-> 0]

\* `allowed` and `ran` are history: whether the policy let the data out at some moment
\* of the attempt, and whether the tool's handler was entered.
Idle == [at |-> "idle", via |-> NoOne, tool |-> NoOne, by |-> NoOne, provider |-> NoOne,
         proposal |-> NoOne, decision |-> FALSE, allowed |-> FALSE, ran |-> FALSE]

AgentsInit ==
    /\ aiPolicy = NoPolicy
    /\ holders = Actors
    /\ tenantOpen = TRUE
    /\ proposal = [p \in Proposals |-> NoProposal]
    /\ attempt = [c \in Callers |-> Idle]

-----------------------------------------------------------------------------
(* The tenant's policy.                                                    *)

\* What a policy lets out: the words of the row, whoever reads them.
LetsOut(row, t, v) == row.enabled /\ t \in row.capabilities /\ v \in row.providers

\* Mutant: the kill switch is not looked at.
ResolveDisabled(row) == row.capabilities \X row.providers

\* resolve_tenant_ai_policy(): the pairs of a purpose and a provider that
\* authorize_data_access() will allow; none for a row that is missing, disabled,
\* or empty on either side.
Resolve(row) == IF row.enabled THEN row.capabilities \X row.providers ELSE {}

\* The owner replaces the row.  Each attempt under way remembers whether the policy
\* has let its data out at some moment since it began.
SetPolicy(on, tools, providers) ==
    LET row == [enabled |-> on, capabilities |-> tools, providers |-> providers] IN
    /\ tools \subseteq Capabilities /\ providers \subseteq Providers
    /\ aiPolicy' = row
    /\ attempt' = [c \in Callers |->
                     [attempt[c] EXCEPT !.allowed =
                        \/ @
                        \/ /\ attempt[c].at # "idle"
                           /\ LetsOut(row, attempt[c].tool, attempt[c].provider)]]
    /\ UNCHANGED <<holders, tenantOpen, proposal>>

LosePermission(u) ==
    /\ u \in holders /\ holders' = holders \ {u}
    /\ UNCHANGED <<aiPolicy, tenantOpen, proposal, attempt>>

CloseTenant ==
    /\ tenantOpen /\ tenantOpen' = FALSE
    /\ UNCHANGED <<aiPolicy, holders, proposal, attempt>>

-----------------------------------------------------------------------------
(* invoke_product_ai_tool().                                               *)

\* An attempt begins by resolving the policy into its decision.
Begun(via, t, u, v, p, decision) ==
    [at |-> "decided", via |-> via, tool |-> t, by |-> u, provider |-> v, proposal |-> p,
     decision |-> decision, allowed |-> LetsOut(aiPolicy, t, v), ran |-> FALSE]

Decision(t, v) == t \in Guarded => <<t, v>> \in Resolve(aiPolicy)

\* `via` tells a workflow's action from any other caller of the tool.
Decide(c, via, t, u, v) ==
    /\ attempt[c].at = "idle"
    /\ attempt' = [attempt EXCEPT ![c] = Begun(via, t, u, v, NoOne, Decision(t, v))]
    /\ UNCHANGED <<aiPolicy, holders, tenantOpen, proposal>>

\* _tool_authorized() and _data_authorization_allowed(), of the tool's own user.
MayRun(a) == a.by \in holders /\ (a.tool \in Guarded => a.decision)

Answer(c, answer) == attempt' = [attempt EXCEPT ![c].at = answer]

\* _propose_tier_gated_tool(): the proposal keeps the provider, not the decision.
Propose(c, p) ==
    LET a == attempt[c] IN
    /\ a.at = "decided" /\ a.proposal = NoOne /\ a.tool \in TierGated /\ MayRun(a)
    /\ proposal[p].status = "none"
    /\ proposal' = [proposal EXCEPT ![p] =
                      [status |-> "pending", tool |-> a.tool, by |-> a.by,
                       provider |-> a.provider, decidedBy |-> NoOne, runs |-> 0]]
    /\ Answer(c, "proposed")
    /\ UNCHANGED <<aiPolicy, holders, tenantOpen>>

\* invoke_tool(): the same checks once more, and the tenant's.
InvokeTool(c) ==
    LET a == attempt[c] IN
    /\ a.at = "decided" /\ a.proposal = NoOne /\ a.tool \notin TierGated
    /\ MayRun(a) /\ tenantOpen
    /\ attempt' = [attempt EXCEPT ![c].at = "running", ![c].ran = TRUE]
    /\ UNCHANGED <<aiPolicy, holders, tenantOpen, proposal>>

Denied(c) ==
    LET a == attempt[c] IN
    /\ a.at = "decided" /\ a.proposal = NoOne
    /\ a.tool \in TierGated \/ tenantOpen => ~MayRun(a)
    /\ Answer(c, "denied")
    /\ UNCHANGED <<aiPolicy, holders, tenantOpen, proposal>>

\* Mutant: an error of the tool is answered as a refusal.
ToolFailsAsDenied(c) ==
    /\ attempt[c].at = "running" /\ attempt[c].proposal = NoOne
    /\ Answer(c, "denied")
    /\ UNCHANGED <<aiPolicy, holders, tenantOpen, proposal>>

\* What the handler raises, and a completion it cannot parse, all end as one error.
ToolFails(c) ==
    /\ attempt[c].at = "running" /\ attempt[c].proposal = NoOne
    /\ Answer(c, "failed")
    /\ UNCHANGED <<aiPolicy, holders, tenantOpen, proposal>>

ToolReturns(c) ==
    /\ attempt[c].at = "running" /\ attempt[c].proposal = NoOne
    /\ Answer(c, "answered")
    /\ UNCHANGED <<aiPolicy, holders, tenantOpen, proposal>>

\* The workflow's action; without a contact or a configured provider no call is made.
QualifyLead(c, t, u, v) ==
    \/ Decide(c, "workflow", t, u, v)
    \/ /\ attempt[c].at = "idle"
       /\ attempt' = [attempt EXCEPT ![c] =
                        [Begun("workflow", t, u, v, NoOne, FALSE) EXCEPT !.at = "failed"]]
       /\ UNCHANGED <<aiPolicy, holders, tenantOpen, proposal>>

-----------------------------------------------------------------------------
(* Approvals.                                                              *)

\* approve_approval(): nobody approves what they proposed.
Approve(p, u) ==
    /\ u \in Deciders /\ u # proposal[p].by
    /\ proposal[p].status = "pending"
    /\ proposal' = [proposal EXCEPT ![p].status = "approved", ![p].decidedBy = u]
    /\ UNCHANGED <<aiPolicy, holders, tenantOpen, attempt>>

Reject(p, u) ==
    /\ u \in Deciders /\ proposal[p].status = "pending"
    /\ proposal' = [proposal EXCEPT ![p].status = "rejected", ![p].decidedBy = u]
    /\ UNCHANGED <<aiPolicy, holders, tenantOpen, attempt>>

\* Mutant: the decision of the proposal serves for the execution.
DecideExecutionStale(c, p) ==
    LET r == proposal[p] IN
    /\ attempt[c].at = "idle" /\ r.status # "none"
    /\ attempt' = [attempt EXCEPT ![c] =
                     Begun("execution", r.tool, r.by, r.provider, p, TRUE)]
    /\ UNCHANGED <<aiPolicy, holders, tenantOpen, proposal>>

\* execute_approved_ai_tool() decides anew, for the proposer and the provider of
\* the proposal, whatever its status.
DecideExecution(c, p) ==
    LET r == proposal[p] IN
    /\ attempt[c].at = "idle" /\ r.status # "none"
    /\ attempt' = [attempt EXCEPT ![c] =
                     Begun("execution", r.tool, r.by, r.provider, p, Decision(r.tool, r.provider))]
    /\ UNCHANGED <<aiPolicy, holders, tenantOpen, proposal>>

\* execute_approval() of the inbox brings no decision.
ExecuteFromInbox(c, p) ==
    LET r == proposal[p] IN
    /\ attempt[c].at = "idle" /\ r.status # "none"
    /\ attempt' = [attempt EXCEPT ![c] = Begun("inbox", r.tool, r.by, r.provider, p, FALSE)]
    /\ UNCHANGED <<aiPolicy, holders, tenantOpen, proposal>>

\* Mutant: the status is read and not compared as it is written.
ClaimAny(c) ==
    LET p == attempt[c].proposal IN
    /\ attempt[c].at = "decided" /\ p # NoOne
    /\ IF proposal[p].status \in {"approved", "executing"}
       THEN /\ proposal' = [proposal EXCEPT ![p].status = "executing"]
            /\ Answer(c, "claimed")
       ELSE proposal' = proposal /\ Answer(c, "conflict")
    /\ UNCHANGED <<aiPolicy, holders, tenantOpen>>

\* The compare-and-swap from approved to executing.
Claim(c) ==
    LET p == attempt[c].proposal IN
    /\ attempt[c].at = "decided" /\ p # NoOne
    /\ IF proposal[p].status = "approved"
       THEN /\ proposal' = [proposal EXCEPT ![p].status = "executing"]
            /\ Answer(c, "claimed")
       ELSE proposal' = proposal /\ Answer(c, "conflict")
    /\ UNCHANGED <<aiPolicy, holders, tenantOpen>>

RunClaimed(c) ==
    /\ attempt[c].at = "claimed" /\ MayRun(attempt[c]) /\ tenantOpen
    /\ attempt' = [attempt EXCEPT ![c].at = "executing", ![c].ran = TRUE]
    /\ UNCHANGED <<aiPolicy, holders, tenantOpen, proposal>>

\* Whatever refuses or fails gives the proposal back.
GiveBack(c, answer) ==
    /\ proposal' = [proposal EXCEPT ![attempt[c].proposal].status = "approved"]
    /\ Answer(c, answer)
    /\ UNCHANGED <<aiPolicy, holders, tenantOpen>>

ClaimedDenied(c) ==
    /\ attempt[c].at = "claimed" /\ (~MayRun(attempt[c]) \/ ~tenantOpen)
    /\ GiveBack(c, "denied")

ClaimedFails(c) == attempt[c].at = "executing" /\ GiveBack(c, "failed")

ClaimedReturns(c) ==
    /\ attempt[c].at = "executing"
    /\ proposal' = [proposal EXCEPT ![attempt[c].proposal].runs = @ + 1]
    /\ Answer(c, "returned")
    /\ UNCHANGED <<aiPolicy, holders, tenantOpen>>

MarkExecuted(c) ==
    /\ attempt[c].at = "returned"
    /\ proposal' = [proposal EXCEPT ![attempt[c].proposal].status = "executed"]
    /\ Answer(c, "answered")
    /\ UNCHANGED <<aiPolicy, holders, tenantOpen>>

CallerDies(c) ==
    /\ attempt[c].at \in {"decided", "claimed", "running", "executing", "returned"}
    /\ Answer(c, "dead")
    /\ UNCHANGED <<aiPolicy, holders, tenantOpen, proposal>>

Answers == {"proposed", "denied", "failed", "answered", "conflict", "dead"}

\* A caller that has its answer is done with it.
HangUp(c) ==
    /\ attempt[c].at \in Answers
    /\ attempt' = [attempt EXCEPT ![c] = Idle]
    /\ UNCHANGED <<aiPolicy, holders, tenantOpen, proposal>>

-----------------------------------------------------------------------------
\* The steps of a call once it has begun.
ToolStep(c) == InvokeTool(c) \/ Denied(c) \/ ToolFails(c) \/ ToolReturns(c)

ExecutionStep(c) ==
    \/ Claim(c) \/ RunClaimed(c) \/ ClaimedDenied(c)
    \/ ClaimedFails(c) \/ ClaimedReturns(c) \/ MarkExecuted(c)

ApprovalStep(p) ==
    \/ \E u \in Actors : Approve(p, u) \/ Reject(p, u)
    \/ \E c \in Callers : Propose(c, p) \/ DecideExecution(c, p) \/ ExecuteFromInbox(c, p)

\* Which calls and policies are made, and who loses a permission, is an instance's.
AgentsNext ==
    \/ CloseTenant
    \/ \E c \in Callers : ToolStep(c) \/ ExecutionStep(c) \/ CallerDies(c) \/ HangUp(c)
    \/ \E p \in Proposals : ApprovalStep(p)

-----------------------------------------------------------------------------
(* A tool that sees the tenant's data runs only where the policy let this  *)
(* data out to this provider at some moment of the very attempt that runs  *)
(* it: never on what the policy said when it was proposed or approved, and *)
(* never from the inbox, which brings no decision.                         *)
DataLeftAsAllowed ==
    \A c \in Callers :
        LET a == attempt[c] IN
        a.ran /\ a.tool \in Guarded => a.allowed /\ a.via # "inbox"

(* A proposal has one caller at work on it and returns once, after another *)
(* than its proposer approved it; when it says executed it did.            *)
AtWork(p) ==
    {c \in Callers : attempt[c].proposal = p
                     /\ attempt[c].at \in {"claimed", "executing", "returned"}}

ExecutedOnceApproved ==
    \A p \in Proposals :
        LET r == proposal[p] IN
        /\ \A c, d \in AtWork(p) : c = d
        /\ AtWork(p) # {} => r.status = "executing"
        /\ r.runs <= 1
        /\ r.status = "executed" => r.runs = 1
        /\ r.runs = 1 => /\ r.status \in {"executing", "executed"}
                         /\ r.decidedBy \notin {NoOne, r.by}

(* A caller, a workflow among them, is told that it was denied or that its *)
(* proposal waits only when nothing ran: a denial is final, and what ran   *)
(* and failed is retried.                                                  *)
DenialIsNoRun ==
    \A c \in Callers : attempt[c].at \in {"denied", "proposed", "conflict"} => ~attempt[c].ran

AgentTypeOK ==
    /\ aiPolicy.capabilities \subseteq Capabilities /\ aiPolicy.providers \subseteq Providers
    /\ holders \subseteq Actors /\ tenantOpen \in BOOLEAN
    /\ \A p \in Proposals :
         proposal[p].status \in {"none", "pending", "approved", "rejected", "executing", "executed"}

\* However the policy, the permissions and the approvals change while a tool is
\* called, the tenant's data reaches only the providers it allowed at the time, an
\* approved action happens once, and who is denied is not told of a run
\* (invocation.py, policy.py, approvals/service.py, automation_action.py).
ToolsRunAsAllowed ==
    /\ AgentTypeOK
    /\ DataLeftAsAllowed
    /\ ExecutedOnceApproved
    /\ DenialIsNoRun
=============================================================================
