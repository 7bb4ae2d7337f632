----------------------------- MODULE MCAutomation -----------------------------
(***************************************************************************)
(* What an agency sets up, for TLC: the definitions of durable workflows   *)
(* and the checks of their graphs, the dispatcher; the tenants it founds,  *)
(* their roles and members, and the plans it resells.  They share no state *)
(* that one of them waits for: a behaviour moves one of them, and the run  *)
(* checks the sum of their states.                                         *)
(***************************************************************************)
EXTENDS WorkflowGraph, WorkflowVersions, WorkflowDispatch,
        Provisioning, Reselling, TLC

CONSTANTS w1, w2, w3, e1

MCTrigger == w1 :> "crm" @@ w2 :> "crm" @@ w3 :> "scheduled"
MCType    == e1 :> "crm" @@ Raised :> "crm"
MCRaises  == w1 :> TRUE @@ w2 :> FALSE @@ w3 :> FALSE
MCHolds   == w1 :> {e1, Raised} @@ w2 :> {Raised} @@ w3 :> Instants

VARIABLE focus

agencyVars == <<provisionVars, resaleVars>>
mcVars == <<focus, graphVars, versionVars, dispatchVars, agencyVars>>

\* Workflows fired by events, at an instant that does not matter ...
ByEvents == clock = MaxTime /\ status = [w \in Workflows |-> IF w = w3 THEN "deleted" ELSE "new"]
\* ... or one fired by sweeps.
BySweeps == clock = 0 /\ status = [w \in Workflows |-> IF w = w3 THEN "new" ELSE "deleted"]

OneGraph == GraphInit /\ dest = [s \in GraphSteps |-> {}]

MCInit ==
    /\ \/ focus \in {"founding", "attach", "resale"} /\ OneGraph /\ DispatchInit
       \/ focus = "graph" /\ GraphInit /\ DispatchInit
       \/ focus = "versions" /\ OneGraph /\ DispatchInit
       \/ focus = "dispatch" /\ OneGraph /\ (ByEvents \/ BySweeps) /\ DispatchRest
    /\ VersionsInit
    /\ ProvisionInit(focus = "attach")
    /\ ResaleInit /\ (focus = "resale" \/ spent.limit = 1)

MCNext ==
    \/ focus = "graph" /\ GraphNext /\ UNCHANGED <<focus, versionVars, dispatchVars, agencyVars>>
    \/ focus = "versions" /\ VersionsNext /\ UNCHANGED <<focus, graphVars, dispatchVars, agencyVars>>
    \/ focus = "dispatch" /\ DispatchNext /\ UNCHANGED <<focus, graphVars, versionVars, agencyVars>>
    \/ /\ focus = "founding" /\ FoundingNext
       /\ UNCHANGED <<focus, graphVars, versionVars, dispatchVars, resaleVars>>
    \/ /\ focus = "attach" /\ AttachNext
       /\ UNCHANGED <<focus, graphVars, versionVars, dispatchVars, resaleVars>>
    \/ /\ focus = "resale" /\ ResaleNext
       /\ UNCHANGED <<focus, graphVars, versionVars, dispatchVars, provisionVars>>

MCSpec == MCInit /\ [][MCNext]_mcVars
===============================================================================
