---------------------------- MODULE WorkflowGraph ----------------------------
(***************************************************************************)
(* The step graph of a durable workflow version                            *)
(* (product/automation/durable/dsl.py): what validate_workflow_definition()*)
(* does with any graph over Steps, and what a run may meet when it walks a *)
(* graph that was accepted.                                                *)
(*                                                                         *)
(* The dominators are refined one step key at a time and in any order: the *)
(* code goes over a Python set of strings, whose order changes from one    *)
(* process to the next.                                                    *)
(***************************************************************************)
EXTENDS Naturals, FiniteSets, Sequences

CONSTANTS
    NSteps,   \* steps of a definition, numbered in the order of its list
    Start     \* start_step_key

GraphSteps == 1..NSteps

ASSUME GraphAssumption == NSteps \in Nat /\ Start \in GraphSteps

VARIABLES
    dest,        \* dest[s]: _destinations(s)
    ref,         \* <<s, t>>: an action_config of s has {"$step_output": {"step": t}}
    color,       \* _reject_cycles(): the colour of each step
    visiting,       \* _reject_cycles(): the nested calls of visit()
    dominators,  \* _compute_dominators()
    phase,       \* where the definition is
    ran          \* the steps that a run of the accepted definition has left behind

graphVars == <<dest, ref, color, visiting, dominators, phase, ran>>

Colors == {"white", "gray", "black"}
Phases == {"cycles", "refine", "references", "accepted", "rejected", "ended"}

\* Every variable keeps its type.
GraphTypeOK ==
    /\ dest \in [GraphSteps -> SUBSET GraphSteps]
    /\ ref \in (GraphSteps \X GraphSteps) \cup {<<>>}
    /\ color \in [GraphSteps -> Colors]
    /\ visiting \in Seq(GraphSteps) /\ Len(visiting) <= NSteps
    /\ dominators \in [GraphSteps -> SUBSET GraphSteps]
    /\ phase \in Phases
    /\ ran \in Seq(GraphSteps)

\* One destination for an action or a delay, two for a condition or a wait.
GraphInit ==
    /\ dest \in [GraphSteps -> {d \in SUBSET GraphSteps : Cardinality(d) <= 2}]
    /\ ref = <<>>
    /\ color = [s \in GraphSteps |-> "white"]
    /\ visiting = <<>>
    /\ dominators = [s \in GraphSteps |-> {}]
    /\ phase = "cycles"
    /\ ran = <<>>

-------------------------------------------------------------------------------
First(S) == CHOOSE s \in S : \A t \in S : s <= t
Top      == visiting[Len(visiting)]
White    == {s \in GraphSteps : color[s] = "white"}
Gray     == {s \in GraphSteps : color[s] = "gray"}

\* The steps on the paths from s that enter no step of D: they are in every set
\* that has s and, with a step, its destinations.
PathsFrom(s, D) ==
    LET Closed == {S \in SUBSET GraphSteps : s \in S /\ \A x \in S : dest[x] \ D \subseteq S}
    IN  {x \in GraphSteps : \A S \in Closed : x \in S}

\* _reachable_from().
ReachableFrom(s) == PathsFrom(s, {})

Reachable      == ReachableFrom(Start)
Predecessors(s) == {p \in GraphSteps : s \in dest[p]}

\* visit(): called for the next white step at the top, or for a white
\* destination of the step being visited.
Visit ==
    /\ phase = "cycles"
    /\ LET choices == IF visiting = <<>> THEN White ELSE dest[Top] \cap White
       IN  /\ choices # {}
           /\ visiting' = Append(visiting, First(choices))
           /\ color' = [color EXCEPT ![First(choices)] = "gray"]
    /\ UNCHANGED <<dest, ref, dominators, phase, ran>>

\* A gray destination raises.
FindCycle ==
    /\ phase = "cycles" /\ visiting # <<>> /\ dest[Top] \cap Gray # {}
    /\ phase' = "rejected"
    /\ UNCHANGED <<dest, ref, color, visiting, dominators, ran>>

\* Mutant: leaves a step without a look at its gray destinations.
LeaveStepBlind ==
    /\ phase = "cycles" /\ visiting # <<>> /\ dest[Top] \cap White = {}
    /\ color' = [color EXCEPT ![Top] = "black"]
    /\ visiting' = SubSeq(visiting, 1, Len(visiting) - 1)
    /\ UNCHANGED <<dest, ref, dominators, phase, ran>>

\* The step is black once all its destinations are.
LeaveStep ==
    /\ phase = "cycles" /\ visiting # <<>> /\ dest[Top] \cap (White \cup Gray) = {}
    /\ color' = [color EXCEPT ![Top] = "black"]
    /\ visiting' = SubSeq(visiting, 1, Len(visiting) - 1)
    /\ UNCHANGED <<dest, ref, dominators, phase, ran>>

\* The start dominates itself; every other reachable step begins with all.
BeginDominators ==
    /\ phase = "cycles" /\ visiting = <<>> /\ White = {}
    /\ phase' = "refine"
    /\ dominators' = [s \in GraphSteps |->
           CASE s = Start -> {Start} [] s \in Reachable \ {Start} -> Reachable [] OTHER -> {}]
    /\ UNCHANGED <<dest, ref, color, visiting, ran>>

\* Mutant: takes the union over the predecessors.
NewDomUnion(s) ==
    UNION {dominators[p] : p \in Predecessors(s) \cap Reachable} \cup {s}

NewDom(s) ==
    {d \in GraphSteps : \A p \in Predecessors(s) \cap Reachable : d \in dominators[p]} \cup {s}

Unsettled == {s \in Reachable \ {Start} : NewDom(s) # dominators[s]}

Refine(s) ==
    /\ phase = "refine" /\ s \in Unsettled
    /\ dominators' = [dominators EXCEPT ![s] = NewDom(s)]
    /\ UNCHANGED <<dest, ref, color, visiting, phase, ran>>

FixedPoint ==
    /\ phase = "refine" /\ Unsettled = {}
    /\ phase' = "references"
    /\ UNCHANGED <<dest, ref, color, visiting, dominators, ran>>

\* _validate_step_output_references(), for the reference from s to t.
Accepts(s, t) == t # s /\ t \in dominators[s]

ValidateReference(s, t) ==
    /\ phase = "references" /\ Cardinality(dest[s]) <= 1
    /\ ref' = <<s, t>>
    /\ phase' = IF Accepts(s, t) THEN "accepted" ELSE "rejected"
    /\ UNCHANGED <<dest, color, visiting, dominators, ran>>

-------------------------------------------------------------------------------
(***************************************************************************)
(* DurableWorkflow.run(), on a definition that was accepted: the current   *)
(* step is the last of ran.                                                *)
(***************************************************************************)
Enter(s) ==
    /\ phase = "accepted"
    /\ s \in IF ran = <<>> THEN {Start} ELSE dest[ran[Len(ran)]]
    /\ ran' = Append(ran, s)
    /\ UNCHANGED <<dest, ref, color, visiting, dominators, phase>>

\* A step without a destination, or with one that is None, ends the run.
End ==
    /\ phase = "accepted" /\ ran # <<>>
    /\ phase' = "ended"
    /\ UNCHANGED <<dest, ref, color, visiting, dominators, ran>>

Validation == Visit \/ FindCycle \/ LeaveStep \/ BeginDominators \/ FixedPoint

GraphNext ==
    \/ Validation
    \/ \E s \in GraphSteps : Refine(s) \/ Enter(s)
    \/ \E s, t \in GraphSteps : ValidateReference(s, t)
    \/ End

-------------------------------------------------------------------------------
(***************************************************************************)
(* Properties.                                                             *)
(***************************************************************************)

\* The refinement settles on the dominators and on nothing else: d dominates
\* s when no path leads from the start to s without d
\* (_compute_dominators()).
PathAvoids(d, s) == Start # d /\ s \in PathsFrom(Start, {d})

DominatorsExact ==
    phase \in {"references", "accepted"} =>
        \A s \in Reachable : dominators[s] = {d \in GraphSteps : ~PathAvoids(d, s)}

\* A run of an accepted definition meets no step twice, so no run goes on
\* for ever and no step's idempotency key is taken twice
\* (_reject_cycles()).
NoStepTwice ==
    \A i, j \in 1..Len(ran) : ran[i] = ran[j] => i = j

\* The step whose output an action refers to has run by the time the action
\* runs, along every path (_validate_step_output_references(),
\* resolve_step_output_references()).
OutputHasRun ==
    \A i \in 1..Len(ran) :
        ref # <<>> /\ ran[i] = ref[1] => \E j \in 1..(i - 1) : ran[j] = ref[2]

\* Whatever graph passes the validator can be run: dominators are computed
\* exactly, no run meets a step twice, and an output a step reads was produced
\* before it on every path (dsl.py).
GraphsAreSound ==
    /\ GraphTypeOK
    /\ DominatorsExact
    /\ NoStepTwice
    /\ OutputHasRun
===============================================================================
