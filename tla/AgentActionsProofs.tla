------------------------- MODULE AgentActionsProofs -------------------------
(***************************************************************************)
(* Proofs about what the assistants do: ToolsRunAsAllowed for every set of *)
(* tools, callers and proposals and every sequence of policies and calls   *)
(* (AgentActions), and TurnsAnsweredOnce for every number of turns and     *)
(* deliveries (PhoneSession).                                              *)
(*                                                                         *)
(* Tools: a decision that was positive is remembered as allowed, what ran  *)
(* had one, and a proposal that somebody is at work on belongs to them     *)
(* alone and has not returned yet.                                         *)
(***************************************************************************)
EXTENDS AgentActions, PhoneSession, FiniteSetTheorems, TLAPS

(* Every call, every policy and every loss of a permission.                *)
AnyInput ==
    \/ \E on \in BOOLEAN, tools \in SUBSET Capabilities, providers \in SUBSET Providers :
         SetPolicy(on, tools, providers)
    \/ \E u \in Actors : LosePermission(u)
    \/ \E c \in Callers, t \in Tools, u \in Actors, v \in Providers :
         Decide(c, "caller", t, u, v) \/ QualifyLead(c, t, u, v)

AgentStep == AnyInput \/ AgentsNext

AgentSpec == AgentsInit /\ [][AgentStep]_agentVars

Stages == {"idle", "decided", "claimed", "running", "executing", "returned"} \cup Answers
ProposalStatuses == {"none", "pending", "approved", "rejected", "executing", "executed"}

AttemptRow ==
    [at : Stages, via : {"caller", "workflow", "execution", "inbox", NoOne},
     tool : Tools \cup {NoOne}, by : Actors \cup {NoOne}, provider : Providers \cup {NoOne},
     proposal : Proposals \cup {NoOne}, decision : BOOLEAN, allowed : BOOLEAN, ran : BOOLEAN]

AttemptType == attempt \in [Callers -> AttemptRow]

ProposalRow ==
    [status : ProposalStatuses, tool : Tools \cup {NoOne}, by : Actors \cup {NoOne},
     provider : Providers \cup {NoOne}, decidedBy : Actors \cup {NoOne}, runs : Nat]

ProposalType == proposal \in [Proposals -> ProposalRow]

PolicyType ==
    /\ aiPolicy \in [enabled : BOOLEAN, capabilities : SUBSET Capabilities,
                     providers : SUBSET Providers]
    /\ holders \subseteq Actors
    /\ tenantOpen \in BOOLEAN

Types == PolicyType /\ AttemptType /\ ProposalType

\* A positive decision was allowed, the inbox has none, what ran had one.
AttemptSound(a) ==
    /\ a.at # "idle" /\ a.tool \in Guarded /\ a.decision => a.allowed
    /\ a.via = "inbox" /\ a.tool \in Guarded => ~a.decision
    /\ a.ran /\ a.tool \in Guarded => a.decision /\ a.at # "idle"
    /\ a.at \in {"idle", "decided", "claimed", "denied", "proposed", "conflict"} => ~a.ran
    /\ a.at \in {"claimed", "executing", "returned"} => a.proposal \in Proposals

Works(c, p) ==
    attempt[c].proposal = p /\ attempt[c].at \in {"claimed", "executing", "returned"}

\* How far a proposal has come.
ProposalSound(r) ==
    /\ r.status \in {"none", "pending", "approved", "rejected"} => r.runs = 0
    /\ r.runs \in {0, 1}
    /\ r.status = "executed" => r.runs = 1
    /\ r.status \in {"approved", "executing", "executed"} => r.decidedBy \notin {NoOne, r.by}

\* Who is at work on it is alone, and knows whether it has returned.
WorkSound ==
    /\ \A p \in Proposals, c, d \in Callers : Works(c, p) /\ Works(d, p) => c = d
    /\ \A p \in Proposals, c \in Callers :
         Works(c, p) =>
           /\ proposal[p].status = "executing"
           /\ proposal[p].runs = IF attempt[c].at = "returned" THEN 1 ELSE 0

IInv ==
    /\ Types
    /\ \A c \in Callers : AttemptSound(attempt[c])
    /\ \A p \in Proposals : ProposalSound(proposal[p])
    /\ WorkSound

LEMMA InitInv == AgentsInit => IInv
<1>. SUFFICES ASSUME AgentsInit PROVE IInv
  OBVIOUS
<1>1. Types
  BY DEF AgentsInit, Types, PolicyType, AttemptType, AttemptRow, ProposalType, ProposalRow,
       NoPolicy, NoProposal, Idle,
       Stages, ProposalStatuses
<1>2. /\ \A c \in Callers : AttemptSound(attempt[c])
      /\ \A p \in Proposals : ProposalSound(proposal[p])
      /\ WorkSound
  BY DEF AgentsInit, AttemptSound, ProposalSound, WorkSound, Works, Idle, NoProposal
<1>. QED  BY <1>1, <1>2 DEF IInv

\* What an attempt remembers and where it stands are written alone.
LEMMA RowUpdates ==
    ASSUME NEW r \in AttemptRow, NEW b \in BOOLEAN, NEW at \in Stages
    PROVE  /\ [r EXCEPT !.allowed = b] \in AttemptRow
           /\ [r EXCEPT !.allowed = b].at = r.at /\ [r EXCEPT !.allowed = b].via = r.via
           /\ [r EXCEPT !.allowed = b].tool = r.tool /\ [r EXCEPT !.allowed = b].ran = r.ran
           /\ [r EXCEPT !.allowed = b].proposal = r.proposal
           /\ [r EXCEPT !.allowed = b].decision = r.decision
           /\ [r EXCEPT !.allowed = b].allowed = b
           /\ [r EXCEPT !.at = at] \in AttemptRow
           /\ [r EXCEPT !.at = at].at = at /\ [r EXCEPT !.at = at].via = r.via
           /\ [r EXCEPT !.at = at].tool = r.tool /\ [r EXCEPT !.at = at].ran = r.ran
           /\ [r EXCEPT !.at = at].proposal = r.proposal
           /\ [r EXCEPT !.at = at].decision = r.decision
           /\ [r EXCEPT !.at = at].allowed = r.allowed
  BY DEF AttemptRow

LEMMA RowMade ==
    ASSUME NEW at \in Stages, NEW via \in {"caller", "workflow", "execution", "inbox", NoOne},
           NEW t \in Tools \cup {NoOne}, NEW u \in Actors \cup {NoOne},
           NEW v \in Providers \cup {NoOne}, NEW p \in Proposals \cup {NoOne},
           NEW decision \in BOOLEAN, NEW lets \in BOOLEAN, NEW ran \in BOOLEAN
    PROVE  [at |-> at, via |-> via, tool |-> t, by |-> u, provider |-> v, proposal |-> p,
            decision |-> decision, allowed |-> lets, ran |-> ran] \in AttemptRow
  BY DEF AttemptRow

\* A policy that is replaced changes what the attempts remember, and nothing else.
LEMMA PolicySteps ==
    ASSUME IInv,
           NEW on \in BOOLEAN, NEW tools \in SUBSET Capabilities,
           NEW providers \in SUBSET Providers, SetPolicy(on, tools, providers)
    PROVE  IInv'
<1>1. ASSUME NEW c \in Callers
      PROVE  \E b \in BOOLEAN : /\ attempt'[c] = [attempt[c] EXCEPT !.allowed = b]
                                /\ attempt[c].allowed => b
  <2>. DEFINE row == [enabled |-> on, capabilities |-> tools, providers |-> providers]
              lets == /\ attempt[c].at # "idle"
                      /\ LetsOut(row, attempt[c].tool, attempt[c].provider)
  <2>1. attempt'[c] = [attempt[c] EXCEPT !.allowed = attempt[c].allowed \/ lets]
    BY DEF SetPolicy
  <2>2. attempt[c].allowed \in BOOLEAN
    BY DEF IInv, Types, AttemptType, AttemptRow
  <2>. HIDE DEF lets
  <2>3. (attempt[c].allowed \/ lets) \in BOOLEAN
    OBVIOUS
  <2>. QED
    BY <2>1, <2>2, <2>3
<1>2. \A c \in Callers :
        /\ attempt'[c] \in AttemptRow
        /\ attempt'[c].at = attempt[c].at /\ attempt'[c].via = attempt[c].via
        /\ attempt'[c].tool = attempt[c].tool /\ attempt'[c].proposal = attempt[c].proposal
        /\ attempt'[c].decision = attempt[c].decision /\ attempt'[c].ran = attempt[c].ran
        /\ attempt[c].allowed => attempt'[c].allowed
  <2>. SUFFICES ASSUME NEW c \in Callers
       PROVE  /\ attempt'[c] \in AttemptRow
              /\ attempt'[c].at = attempt[c].at /\ attempt'[c].via = attempt[c].via
              /\ attempt'[c].tool = attempt[c].tool
              /\ attempt'[c].proposal = attempt[c].proposal
              /\ attempt'[c].decision = attempt[c].decision
              /\ attempt'[c].ran = attempt[c].ran
              /\ attempt[c].allowed => attempt'[c].allowed
    OBVIOUS
  <2>1. attempt[c] \in AttemptRow
    BY DEF IInv, Types, AttemptType
  <2>2. PICK b \in BOOLEAN : /\ attempt'[c] = [attempt[c] EXCEPT !.allowed = b]
                             /\ attempt[c].allowed => b
    BY <1>1
  <2>3. LET r == [attempt[c] EXCEPT !.allowed = b] IN
        /\ r \in AttemptRow /\ r.at = attempt[c].at /\ r.via = attempt[c].via
        /\ r.tool = attempt[c].tool /\ r.ran = attempt[c].ran
        /\ r.proposal = attempt[c].proposal /\ r.decision = attempt[c].decision
        /\ r.allowed = b
    BY <2>1 DEF AttemptRow
  <2>. QED
    BY <2>2, <2>3
<1>3. AttemptType'
  BY <1>2 DEF SetPolicy, AttemptType
<1>4. PolicyType' /\ ProposalType'
  BY DEF SetPolicy, IInv, Types, PolicyType, ProposalType
<1>5. \A c \in Callers : AttemptSound(attempt[c])'
  BY <1>2 DEF IInv, AttemptSound
<1>6. \A p \in Proposals : ProposalSound(proposal[p])'
  BY DEF SetPolicy, IInv, ProposalSound
<1>7. \A c \in Callers, p \in Proposals : Works(c, p)' = Works(c, p)
  BY <1>2 DEF Works
<1>8. WorkSound'
  <2>1. proposal' = proposal
    BY DEF SetPolicy
  <2>. QED
    BY <1>2, <1>7, <2>1 DEF IInv, WorkSound
<1>. QED
  BY <1>3, <1>4, <1>5, <1>6, <1>8 DEF IInv, Types

\* One caller moves, and the proposals others are at work on stay as they are.
LEMMA OneCallerMoves ==
    ASSUME IInv, Types', NEW c \in Callers,
           \A d \in Callers \ {c} : attempt'[d] = attempt[d],
           AttemptSound(attempt[c])',
           \A p \in Proposals : ProposalSound(proposal[p])',
           \A d \in Callers \ {c}, p \in Proposals : Works(d, p) => proposal'[p] = proposal[p],
           \A p \in Proposals :
             Works(c, p)' =>
               /\ \A d \in Callers \ {c} : ~Works(d, p)
               /\ proposal'[p].status = "executing"
               /\ proposal'[p].runs = IF attempt'[c].at = "returned" THEN 1 ELSE 0
    PROVE  IInv'
<1>1. \A d \in Callers : AttemptSound(attempt[d])'
  BY DEF IInv
<1>2. \A d \in Callers \ {c}, p \in Proposals : Works(d, p)' = Works(d, p)
  BY DEF Works
<1>3. WorkSound'
  <2>1. ASSUME NEW p \in Proposals, NEW d \in Callers, NEW e \in Callers,
               Works(d, p)', Works(e, p)'
        PROVE  d = e
    BY <1>2, <2>1 DEF IInv, WorkSound
  <2>2. ASSUME NEW p \in Proposals, NEW d \in Callers \ {c}, Works(d, p)'
        PROVE  /\ proposal'[p].status = "executing"
               /\ proposal'[p].runs = IF attempt'[d].at = "returned" THEN 1 ELSE 0
    BY <1>2, <2>2 DEF IInv, WorkSound
  <2>. QED
    BY <2>1, <2>2 DEF WorkSound
<1>. QED
  BY <1>1, <1>3 DEF IInv

\* A call begins: its decision is drawn from the policy, which then lets it out.
LEMMA BeginSteps ==
    ASSUME IInv, NEW c \in Callers, NEW via \in {"caller", "workflow", "execution", "inbox"},
           NEW t \in Tools \cup {NoOne}, NEW u \in Actors \cup {NoOne},
           NEW v \in Providers \cup {NoOne}, NEW p \in Proposals \cup {NoOne},
           NEW decision \in BOOLEAN, NEW at \in {"decided", "failed"},
           t \in Guarded /\ decision = TRUE => via # "inbox" /\ LetsOut(aiPolicy, t, v),
           attempt' = [attempt EXCEPT ![c] = [Begun(via, t, u, v, p, decision) EXCEPT !.at = at]],
           UNCHANGED <<aiPolicy, holders, tenantOpen, proposal>>
    PROVE  IInv'
<1>1. PICK lets \in BOOLEAN : lets = LetsOut(aiPolicy, t, v)
  BY DEF LetsOut, IInv, Types, PolicyType
<1>2. attempt'[c] = [at |-> at, via |-> via, tool |-> t, by |-> u, provider |-> v, proposal |-> p,
                     decision |-> decision, allowed |-> lets, ran |-> FALSE]
  BY <1>1 DEF Begun, IInv, Types, AttemptType
<1>3. Types'
  <2>1. at \in Stages /\ via \in {"caller", "workflow", "execution", "inbox", NoOne}
    BY DEF Stages, Answers
  <2>2. attempt'[c] \in AttemptRow
    <3>1. t \in Tools \cup {NoOne}
      OBVIOUS
    <3>2. lets \in BOOLEAN /\ decision \in BOOLEAN /\ FALSE \in BOOLEAN
      OBVIOUS
    <3>3. u \in Actors \cup {NoOne} /\ v \in Providers \cup {NoOne} /\ p \in Proposals \cup {NoOne}
      OBVIOUS
    <3>4. [at |-> at, via |-> via, tool |-> t, by |-> u, provider |-> v, proposal |-> p,
                     decision |-> decision, allowed |-> lets, ran |-> FALSE] \in AttemptRow
      BY <2>1, <3>1, <3>2, <3>3 DEF AttemptRow
    <3>. QED BY <3>4, <1>2
  <2>. QED
    BY <2>2 DEF IInv, Types, PolicyType, AttemptType, ProposalType
<1>4. AttemptSound(attempt[c])'
  BY <1>1, <1>2 DEF AttemptSound
<1>. QED
  BY <1>2, <1>3, <1>4, OneCallerMoves DEF IInv, Types, AttemptType, Works

\* A caller that goes on keeps its decision, and no refusal follows a run.
LEMMA GoesOn ==
    ASSUME IInv, NEW c \in Callers, NEW at \in Stages, at # "idle", attempt[c].at # "idle",
           attempt' = [attempt EXCEPT ![c].at = at],
           at \in {"decided", "claimed", "denied", "proposed", "conflict"} => ~attempt[c].ran,
           at \in {"claimed", "executing", "returned"} => attempt[c].proposal \in Proposals
    PROVE  /\ AttemptType'
           /\ AttemptSound(attempt[c])'
           /\ \A d \in Callers \ {c} : attempt'[d] = attempt[d]
           /\ attempt'[c].at = at /\ attempt'[c].proposal = attempt[c].proposal
<1>1. attempt[c] \in AttemptRow
  BY DEF IInv, Types, AttemptType
<1>2. attempt'[c] = [attempt[c] EXCEPT !.at = at]
  BY DEF IInv, Types, AttemptType
<1>3. LET r == [attempt[c] EXCEPT !.at = at] IN
      /\ r \in AttemptRow /\ r.at = at /\ r.via = attempt[c].via /\ r.tool = attempt[c].tool
      /\ r.ran = attempt[c].ran /\ r.proposal = attempt[c].proposal
      /\ r.decision = attempt[c].decision /\ r.allowed = attempt[c].allowed
  BY <1>1 DEF AttemptRow
<1>4. AttemptType'
  BY <1>2, <1>3 DEF IInv, Types, AttemptType
<1>5. AttemptSound(attempt[c])'
  BY <1>2, <1>3 DEF IInv, AttemptSound
<1>. QED
  BY <1>2, <1>3, <1>4, <1>5 DEF IInv, Types, AttemptType

\* The tool is entered with the checks passed.
LEMMA EntersTool ==
    ASSUME IInv, NEW c \in Callers, NEW at \in {"running", "executing"},
           attempt[c].at # "idle", MayRun(attempt[c]),
           at = "executing" => attempt[c].at = "claimed",
           attempt' = [attempt EXCEPT ![c].at = at, ![c].ran = TRUE],
           UNCHANGED <<aiPolicy, holders, tenantOpen, proposal>>
    PROVE  IInv'
<1>1. attempt[c] \in AttemptRow
  BY DEF IInv, Types, AttemptType
<1>2. attempt'[c] = [attempt[c] EXCEPT !.at = at, !.ran = TRUE]
  BY DEF IInv, Types, AttemptType
<1>3. LET r == [attempt[c] EXCEPT !.at = at, !.ran = TRUE] IN
      /\ r \in AttemptRow /\ r.at = at /\ r.via = attempt[c].via /\ r.tool = attempt[c].tool
      /\ r.ran = TRUE /\ r.proposal = attempt[c].proposal
      /\ r.decision = attempt[c].decision /\ r.allowed = attempt[c].allowed
  BY <1>1 DEF AttemptRow, Stages
<1>4. Types'
  <2>1. AttemptType'
    BY <1>2, <1>3 DEF IInv, Types, AttemptType
  <2>. QED
    BY <2>1 DEF IInv, Types, PolicyType, ProposalType
<1>5. AttemptSound(attempt[c])'
  BY <1>2, <1>3 DEF IInv, AttemptSound, MayRun
<1>6. ASSUME NEW p \in Proposals, Works(c, p)'
      PROVE  Works(c, p) /\ attempt[c].at = "claimed" /\ attempt'[c].at = "executing"
  BY <1>2, <1>3, <1>6 DEF Works
<1>7. /\ \A d \in Callers \ {c} : attempt'[d] = attempt[d]
      /\ proposal' = proposal
  BY DEF IInv, Types, AttemptType
<1>8. \A p \in Proposals :
        Works(c, p)' =>
          /\ \A d \in Callers \ {c} : ~Works(d, p)
          /\ proposal'[p].status = "executing"
          /\ proposal'[p].runs = IF attempt'[c].at = "returned" THEN 1 ELSE 0
  BY <1>6, <1>7 DEF IInv, WorkSound
<1>. QED
  BY <1>4, <1>5, <1>7, <1>8, OneCallerMoves DEF IInv

\* A caller gets an answer, and the proposals are left alone.
LEMMA AnswerSteps ==
    ASSUME IInv, NEW c \in Callers, NEW at \in Answers, attempt[c].at # "idle",
           at \in {"denied", "proposed", "conflict"} => ~attempt[c].ran,
           Answer(c, at), UNCHANGED <<aiPolicy, holders, tenantOpen, proposal>>
    PROVE  IInv'
<1>1. at \in Stages /\ at \notin {"idle", "decided", "claimed", "executing", "returned"}
  BY DEF Stages, Answers
<1>2. /\ AttemptType' /\ AttemptSound(attempt[c])'
      /\ \A d \in Callers \ {c} : attempt'[d] = attempt[d]
      /\ attempt'[c].at = at
  BY <1>1, GoesOn DEF Answer
<1>3. Types'
  BY <1>2 DEF IInv, Types, PolicyType, ProposalType
<1>4. \A p \in Proposals : ~Works(c, p)'
  BY <1>1, <1>2 DEF Works
<1>. QED
  BY <1>2, <1>3, <1>4, OneCallerMoves DEF IInv

\* A proposal that waits has nobody at work on it.
LEMMA DecisionSteps ==
    ASSUME IInv, NEW p \in Proposals, NEW u \in Actors, Approve(p, u) \/ Reject(p, u)
    PROVE  IInv'
<1>1. PICK s \in {"approved", "rejected"} :
        /\ proposal' = [proposal EXCEPT ![p].status = s, ![p].decidedBy = u]
        /\ s = "approved" => u # proposal[p].by
  BY DEF Approve, Reject
<1>2. /\ proposal[p].status = "pending"
      /\ UNCHANGED <<aiPolicy, holders, tenantOpen, attempt>>
  BY DEF Approve, Reject
<1>3. LET r == [proposal[p] EXCEPT !.status = s, !.decidedBy = u] IN
      /\ r \in ProposalRow /\ r.status = s /\ r.decidedBy = u
      /\ r.by = proposal[p].by /\ r.runs = proposal[p].runs
  BY DEF IInv, Types, ProposalType, ProposalRow, ProposalStatuses
<1>4. /\ proposal'[p] = [proposal[p] EXCEPT !.status = s, !.decidedBy = u]
      /\ \A q \in Proposals \ {p} : proposal'[q] = proposal[q]
  BY <1>1 DEF IInv, Types, ProposalType
<1>5. ProposalType'
  BY <1>1, <1>3, <1>4 DEF IInv, Types, ProposalType
<1>6. Types'
  BY <1>2, <1>5 DEF IInv, Types, PolicyType, AttemptType
<1>7. u # NoOne
  BY AgentAssumption DEF AgentAssumption
<1>8. ProposalSound(proposal[p])'
  BY <1>1, <1>2, <1>3, <1>4, <1>7 DEF IInv, ProposalSound
<1>9. \A q \in Proposals : ProposalSound(proposal[q])'
  BY <1>4, <1>8 DEF IInv
<1>10. WorkSound'
  BY <1>2, <1>4 DEF IInv, WorkSound, Works
<1>. QED
  BY <1>2, <1>6, <1>9, <1>10 DEF IInv

\* One caller moves together with one proposal that no other works on.
LEMMA BothMove ==
    ASSUME IInv, NEW c \in Callers, NEW p \in Proposals, NEW at \in Stages,
           NEW row \in ProposalRow,
           at # "idle", attempt[c].at # "idle",
           \A d \in Callers \ {c} : ~Works(d, p),
           at \in {"decided", "claimed", "denied", "proposed", "conflict"} => ~attempt[c].ran,
           at \in {"claimed", "executing", "returned"} =>
             /\ attempt[c].proposal = p /\ row.status = "executing"
             /\ row.runs = IF at = "returned" THEN 1 ELSE 0,
           ProposalSound(row),
           Answer(c, at), proposal' = [proposal EXCEPT ![p] = row],
           UNCHANGED <<aiPolicy, holders, tenantOpen>>
    PROVE  IInv'
<1>1. /\ AttemptType' /\ AttemptSound(attempt[c])'
      /\ \A d \in Callers \ {c} : attempt'[d] = attempt[d]
      /\ attempt'[c].at = at /\ attempt'[c].proposal = attempt[c].proposal
  BY GoesOn DEF Answer
<1>2. proposal'[p] = row /\ \A q \in Proposals \ {p} : proposal'[q] = proposal[q]
  BY DEF IInv, Types, ProposalType
<1>3. Types'
  <2>1. ProposalType'
    BY <1>2 DEF IInv, Types, ProposalType
  <2>. QED
    BY <1>1, <2>1 DEF IInv, Types, PolicyType
<1>4. \A q \in Proposals : ProposalSound(proposal[q])'
  BY <1>2 DEF IInv
<1>5. \A d \in Callers \ {c}, q \in Proposals : Works(d, q) => proposal'[q] = proposal[q]
  BY <1>2
<1>6. ASSUME NEW q \in Proposals, Works(c, q)'
      PROVE  /\ \A d \in Callers \ {c} : ~Works(d, q)
             /\ proposal'[q].status = "executing"
             /\ proposal'[q].runs = IF attempt'[c].at = "returned" THEN 1 ELSE 0
  <2>1. q = p
    BY <1>1, <1>6 DEF Works
  <2>. QED
    BY <1>1, <1>2, <1>6, <2>1 DEF Works
<1>. QED
  BY <1>1, <1>3, <1>4, <1>5, <1>6, OneCallerMoves

LEMMA ProposeSteps ==
    ASSUME IInv, NEW c \in Callers, NEW p \in Proposals, Propose(c, p)
    PROVE  IInv'
<1>. DEFINE row == [status |-> "pending", tool |-> attempt[c].tool, by |-> attempt[c].by,
                    provider |-> attempt[c].provider, decidedBy |-> NoOne, runs |-> 0]
<1>1. /\ attempt[c].at = "decided" /\ proposal[p].status = "none"
      /\ proposal' = [proposal EXCEPT ![p] = row]
      /\ Answer(c, "proposed") /\ UNCHANGED <<aiPolicy, holders, tenantOpen>>
  BY DEF Propose
<1>2. attempt[c].tool \in Tools \cup {NoOne} /\ attempt[c].by \in Actors \cup {NoOne}
      /\ attempt[c].provider \in Providers \cup {NoOne}
  BY DEF IInv, Types, AttemptType, AttemptRow
<1>3. row \in ProposalRow /\ row.status = "pending" /\ row.runs = 0
  BY <1>2 DEF ProposalRow, ProposalStatuses
<1>4. ProposalSound(row)
  BY <1>3 DEF ProposalSound
<1>5. \A d \in Callers : ~Works(d, p)
  BY <1>1 DEF IInv, WorkSound
<1>6. ~attempt[c].ran
  BY <1>1 DEF IInv, AttemptSound
<1>7. "proposed" \in Stages
  BY DEF Stages, Answers
<1>. HIDE DEF row
<1>. QED
  BY <1>1, <1>3, <1>4, <1>5, <1>6, <1>7, BothMove

LEMMA ClaimSteps ==
    ASSUME IInv, NEW c \in Callers, Claim(c)
    PROVE  IInv'
<1>. DEFINE p == attempt[c].proposal
            row == [proposal[p] EXCEPT !.status = "executing"]
<1>1. attempt[c].at = "decided" /\ p \in Proposals /\ ~attempt[c].ran
  BY DEF Claim, IInv, Types, AttemptType, AttemptRow, AttemptSound
<1>2. CASE proposal[p].status = "approved"
  <2>1. /\ proposal' = [proposal EXCEPT ![p] = row]
        /\ Answer(c, "claimed") /\ UNCHANGED <<aiPolicy, holders, tenantOpen>>
    BY <1>2 DEF Claim
  <2>2. /\ row \in ProposalRow /\ row.status = "executing" /\ row.runs = proposal[p].runs
        /\ row.by = proposal[p].by /\ row.decidedBy = proposal[p].decidedBy
    BY <1>1 DEF IInv, Types, ProposalType, ProposalRow, ProposalStatuses
  <2>3. ProposalSound(row) /\ row.runs = 0
    BY <1>1, <1>2, <2>2 DEF IInv, ProposalSound
  <2>4. \A d \in Callers : ~Works(d, p)
    BY <1>1, <1>2 DEF IInv, WorkSound
  <2>5. "claimed" \in Stages
    BY DEF Stages
  <2>. HIDE DEF row
  <2>. QED
    BY <1>1, <2>1, <2>2, <2>3, <2>4, <2>5, BothMove
<1>3. CASE proposal[p].status # "approved"
  <2>1. Answer(c, "conflict") /\ UNCHANGED <<aiPolicy, holders, tenantOpen, proposal>>
    BY <1>3 DEF Claim
  <2>. QED
    BY <1>1, <2>1, AnswerSteps DEF Answers
<1>. QED
  BY <1>2, <1>3

\* Who is at work on a proposal moves it, and only to where its runs allow.
LEMMA WorkerMoves ==
    ASSUME IInv, NEW c \in Callers, NEW at \in Stages, NEW row \in ProposalRow,
           attempt[c].at \in {"claimed", "executing", "returned"},
           at \notin {"idle", "decided", "claimed", "executing", "conflict", "proposed"},
           at = "denied" => attempt[c].at = "claimed",
           at = "returned" => row.status = "executing" /\ row.runs = 1,
           row.status \in {"approved", "executing", "executed"}, row.runs \in {0, 1},
           row.status = "approved" => row.runs = 0,
           row.status = "executed" => row.runs = 1,
           row.by = proposal[attempt[c].proposal].by,
           row.decidedBy = proposal[attempt[c].proposal].decidedBy,
           proposal' = [proposal EXCEPT ![attempt[c].proposal] = row],
           Answer(c, at), UNCHANGED <<aiPolicy, holders, tenantOpen>>
    PROVE  IInv'
<1>. DEFINE p == attempt[c].proposal
<1>1. p \in Proposals /\ (at = "denied" => ~attempt[c].ran)
  BY DEF IInv, AttemptSound
<1>2. /\ proposal[p].status = "executing"
      /\ \A d \in Callers \ {c} : ~Works(d, p)
  BY <1>1 DEF IInv, WorkSound, Works
<1>3. ProposalSound(row)
  BY <1>1, <1>2 DEF IInv, ProposalSound
<1>. QED
  BY <1>1, <1>2, <1>3, BothMove

\* The execution of a claimed proposal.
LEMMA ExecutionSteps ==
    ASSUME IInv, NEW c \in Callers, ExecutionStep(c)
    PROVE  IInv'
<1>. DEFINE p == attempt[c].proposal
            moved(status) == [proposal[p] EXCEPT !.status = status]
<1>1. CASE Claim(c)
  BY <1>1, ClaimSteps
<1>2. CASE RunClaimed(c)
  BY <1>2, EntersTool DEF RunClaimed
<1>3. ASSUME attempt[c].at \in {"claimed", "executing", "returned"}
      PROVE  /\ p \in Proposals /\ Works(c, p) /\ proposal[p].status = "executing"
             /\ proposal[p].runs = IF attempt[c].at = "returned" THEN 1 ELSE 0
  BY <1>3 DEF IInv, AttemptSound, WorkSound, Works
<1>4. ASSUME p \in Proposals, NEW status \in ProposalStatuses
      PROVE  /\ moved(status) \in ProposalRow /\ moved(status).status = status
             /\ moved(status).runs = proposal[p].runs
             /\ moved(status).by = proposal[p].by
             /\ moved(status).decidedBy = proposal[p].decidedBy
  BY <1>4 DEF IInv, Types, ProposalType, ProposalRow
<1>5. ASSUME NEW answer \in {"denied", "failed"}, GiveBack(c, answer),
             attempt[c].at \in {"claimed", "executing"},
             answer = "denied" => attempt[c].at = "claimed"
      PROVE  IInv'
  <2>1. proposal' = [proposal EXCEPT ![p] = moved("approved")]
    BY <1>5 DEF GiveBack
  <2>2. Answer(c, answer) /\ UNCHANGED <<aiPolicy, holders, tenantOpen>>
    BY <1>5 DEF GiveBack
  <2>3. answer \in Stages /\ "approved" \in ProposalStatuses
    BY DEF Stages, Answers, ProposalStatuses
  <2>4. /\ moved("approved") \in ProposalRow /\ moved("approved").status = "approved"
        /\ moved("approved").runs = 0
        /\ moved("approved").by = proposal[p].by
        /\ moved("approved").decidedBy = proposal[p].decidedBy
    BY <1>3, <1>4, <1>5, <2>3
  <2>. HIDE DEF moved
  <2>. QED
    BY <1>5, <2>1, <2>2, <2>3, <2>4, WorkerMoves
<1>6. CASE ClaimedDenied(c) \/ ClaimedFails(c)
  BY <1>5, <1>6 DEF ClaimedDenied, ClaimedFails
<1>7. CASE ClaimedReturns(c)
  <2>. DEFINE row == [proposal[p] EXCEPT !.runs = @ + 1]
  <2>1. /\ attempt[c].at = "executing" /\ proposal' = [proposal EXCEPT ![p] = row]
        /\ Answer(c, "returned") /\ UNCHANGED <<aiPolicy, holders, tenantOpen>>
    BY <1>7 DEF ClaimedReturns
  <2>2. p \in Proposals /\ proposal[p].status = "executing" /\ proposal[p].runs = 0
    BY <1>3, <2>1
  <2>3. /\ row \in ProposalRow /\ row.status = "executing" /\ row.runs = 1
        /\ row.by = proposal[p].by /\ row.decidedBy = proposal[p].decidedBy
    BY <2>2 DEF IInv, Types, ProposalType, ProposalRow
  <2>4. "returned" \in Stages
    BY DEF Stages
  <2>. HIDE DEF row
  <2>. QED
    BY <2>1, <2>3, <2>4, WorkerMoves
<1>8. CASE MarkExecuted(c)
  <2>1. /\ attempt[c].at = "returned" /\ proposal' = [proposal EXCEPT ![p] = moved("executed")]
        /\ Answer(c, "answered") /\ UNCHANGED <<aiPolicy, holders, tenantOpen>>
    BY <1>8 DEF MarkExecuted
  <2>2. "answered" \in Stages /\ "executed" \in ProposalStatuses
    BY DEF Stages, Answers, ProposalStatuses
  <2>3. /\ moved("executed") \in ProposalRow /\ moved("executed").status = "executed"
        /\ moved("executed").runs = 1
        /\ moved("executed").by = proposal[p].by
        /\ moved("executed").decidedBy = proposal[p].decidedBy
    BY <1>3, <1>4, <2>1, <2>2
  <2>. HIDE DEF moved
  <2>. QED
    BY <2>1, <2>2, <2>3, WorkerMoves
<1>. QED
  BY <1>1, <1>2, <1>6, <1>7, <1>8 DEF ExecutionStep

\* What resolve_tenant_ai_policy() allows is what the row lets out.
LEMMA DecisionIsThePolicys ==
    ASSUME NEW t, NEW v
    PROVE  /\ Decision(t, v) \in BOOLEAN
           /\ t \in Guarded /\ Decision(t, v) => LetsOut(aiPolicy, t, v)
  BY DEF Decision, Resolve, LetsOut

LEMMA Starts ==
    ASSUME IInv, NEW c \in Callers, NEW t \in Tools, NEW u \in Actors, NEW v \in Providers,
           Decide(c, "caller", t, u, v) \/ QualifyLead(c, t, u, v)
    PROVE  IInv'
<1>1. ASSUME NEW via \in {"caller", "workflow"}, Decide(c, via, t, u, v)
      PROVE  IInv'
  <2>1. PICK decision \in BOOLEAN : decision = Decision(t, v)
    BY DecisionIsThePolicys
  <2>2. attempt' = [attempt EXCEPT ![c] =
                      [Begun(via, t, u, v, NoOne, decision) EXCEPT !.at = "decided"]]
    BY <1>1, <2>1 DEF Decide, Begun
  <2>3. t \in Guarded /\ decision = TRUE => LetsOut(aiPolicy, t, v)
    BY <2>1, DecisionIsThePolicys
  <2>4. UNCHANGED <<aiPolicy, holders, tenantOpen, proposal>>
    BY <1>1 DEF Decide
  <2>. QED
    BY <2>2, <2>3, <2>4, BeginSteps
<1>2. CASE /\ attempt' = [attempt EXCEPT ![c] =
                        [Begun("workflow", t, u, v, NoOne, FALSE) EXCEPT !.at = "failed"]]
           /\ UNCHANGED <<aiPolicy, holders, tenantOpen, proposal>>
  BY <1>2, BeginSteps
<1>. QED
  BY <1>1, <1>2 DEF QualifyLead

LEMMA ExecutionStarts ==
    ASSUME IInv, NEW c \in Callers, NEW p \in Proposals,
           DecideExecution(c, p) \/ ExecuteFromInbox(c, p)
    PROVE  IInv'
<1>. DEFINE t == proposal[p].tool  u == proposal[p].by  v == proposal[p].provider
<1>1. t \in Tools \cup {NoOne} /\ u \in Actors \cup {NoOne} /\ v \in Providers \cup {NoOne}
  BY DEF IInv, Types, ProposalType, ProposalRow
<1>2. UNCHANGED <<aiPolicy, holders, tenantOpen, proposal>>
  BY DEF DecideExecution, ExecuteFromInbox
<1>3. CASE DecideExecution(c, p)
  <2>1. PICK decision \in BOOLEAN : decision = Decision(t, v)
    BY DecisionIsThePolicys
  <2>2. attempt' = [attempt EXCEPT ![c] =
                      [Begun("execution", t, u, v, p, decision) EXCEPT !.at = "decided"]]
    BY <1>3, <2>1 DEF DecideExecution, Begun
  <2>3. t \in Guarded /\ decision = TRUE => LetsOut(aiPolicy, t, v)
    BY <2>1, DecisionIsThePolicys
  <2>. QED
    BY <1>1, <1>2, <2>2, <2>3, BeginSteps
<1>4. CASE ExecuteFromInbox(c, p)
  <2>1. attempt' = [attempt EXCEPT ![c] =
                      [Begun("inbox", t, u, v, p, FALSE) EXCEPT !.at = "decided"]]
    BY <1>4 DEF ExecuteFromInbox, Begun
  <2>. QED
    BY <1>1, <1>2, <2>1, BeginSteps
<1>. QED
  BY <1>3, <1>4

\* A call that is not about a proposal.
LEMMA ToolSteps ==
    ASSUME IInv, NEW c \in Callers, ToolStep(c) \/ CallerDies(c)
    PROVE  IInv'
<1>1. CASE InvokeTool(c)
  BY <1>1, EntersTool DEF InvokeTool
<1>2. CASE Denied(c)
  <2>1. ~attempt[c].ran
    BY <1>2 DEF Denied, IInv, AttemptSound
  <2>. QED
    BY <1>2, <2>1, AnswerSteps DEF Denied, Answers
<1>3. CASE ToolFails(c) \/ ToolReturns(c)
  BY <1>3, AnswerSteps DEF ToolFails, ToolReturns, Answers
<1>4. CASE CallerDies(c)
  BY <1>4, AnswerSteps DEF CallerDies, Answers
<1>. QED
  BY <1>1, <1>2, <1>3, <1>4 DEF ToolStep

LEMMA HangUpSteps ==
    ASSUME IInv, NEW c \in Callers, HangUp(c)
    PROVE  IInv'
<1>1. /\ attempt'[c] = Idle
      /\ \A d \in Callers \ {c} : attempt'[d] = attempt[d]
      /\ UNCHANGED <<aiPolicy, holders, tenantOpen, proposal>>
  BY DEF HangUp, IInv, Types, AttemptType
<1>2. Idle \in AttemptRow
  BY DEF Idle, AttemptRow, Stages
<1>3. Types'
  BY <1>1, <1>2 DEF HangUp, IInv, Types, PolicyType, AttemptType, ProposalType
<1>4. AttemptSound(attempt[c])' /\ \A p \in Proposals : ~Works(c, p)'
  BY <1>1 DEF Idle, AttemptSound, Works
<1>. QED
  BY <1>1, <1>3, <1>4, OneCallerMoves DEF IInv

\* Permissions and the tenant's end touch no call and no proposal.
LEMMA OutsideSteps ==
    ASSUME IInv, UNCHANGED <<aiPolicy, proposal, attempt>>,
           holders' \subseteq Actors, tenantOpen' \in BOOLEAN
    PROVE  IInv'
<1>1. Types'
  BY DEF IInv, Types, PolicyType, AttemptType, ProposalType
<1>2. /\ \A c \in Callers : AttemptSound(attempt[c])'
      /\ \A p \in Proposals : ProposalSound(proposal[p])'
  BY DEF IInv, AttemptSound, ProposalSound
<1>3. WorkSound'
  BY DEF IInv, WorkSound, Works
<1>. QED
  BY <1>1, <1>2, <1>3 DEF IInv

LEMMA StepInv == IInv /\ [AgentStep]_agentVars => IInv'
<1>. SUFFICES ASSUME IInv, [AgentStep]_agentVars PROVE IInv'
  OBVIOUS
<1>1. ASSUME NEW on \in BOOLEAN, NEW tools \in SUBSET Capabilities,
             NEW providers \in SUBSET Providers, SetPolicy(on, tools, providers)
      PROVE  IInv'
  BY <1>1, PolicySteps
<1>2. ASSUME NEW u \in Actors, LosePermission(u)
      PROVE  IInv'
  BY <1>2, OutsideSteps DEF LosePermission, IInv, Types, PolicyType
<1>3. CASE CloseTenant
  BY <1>3, OutsideSteps DEF CloseTenant, IInv, Types, PolicyType
<1>4. ASSUME NEW c \in Callers, NEW t \in Tools, NEW u \in Actors, NEW v \in Providers,
             Decide(c, "caller", t, u, v) \/ QualifyLead(c, t, u, v)
      PROVE  IInv'
  BY <1>4, Starts
<1>5. ASSUME NEW c \in Callers, ToolStep(c) \/ ExecutionStep(c) \/ CallerDies(c) \/ HangUp(c)
      PROVE  IInv'
  BY <1>5, ToolSteps, ExecutionSteps, HangUpSteps
<1>6. ASSUME NEW p \in Proposals, ApprovalStep(p)
      PROVE  IInv'
  BY <1>6, DecisionSteps, ProposeSteps, ExecutionStarts DEF ApprovalStep
<1>7. CASE UNCHANGED agentVars
  BY <1>7, OutsideSteps DEF agentVars, IInv, Types, PolicyType
<1>. QED
  BY <1>1, <1>2, <1>3, <1>4, <1>5, <1>6, <1>7 DEF AgentStep, AnyInput, AgentsNext

LEMMA InvImplies == IInv => ToolsRunAsAllowed
<1>. SUFFICES ASSUME IInv PROVE ToolsRunAsAllowed
  OBVIOUS
<1>1. AgentTypeOK
  BY DEF AgentTypeOK, IInv, Types, PolicyType, ProposalType, ProposalRow, ProposalStatuses
<1>2. DataLeftAsAllowed
  BY DEF DataLeftAsAllowed, IInv, AttemptSound
<1>3. ExecutedOnceApproved
  <2>. SUFFICES ASSUME NEW p \in Proposals
       PROVE  LET r == proposal[p] IN
              /\ \A c, d \in AtWork(p) : c = d
              /\ AtWork(p) # {} => r.status = "executing"
              /\ r.runs <= 1
              /\ r.status = "executed" => r.runs = 1
              /\ r.runs = 1 => /\ r.status \in {"executing", "executed"}
                               /\ r.decidedBy \notin {NoOne, r.by}
    BY DEF ExecutedOnceApproved
  <2>1. \A c \in AtWork(p) : c \in Callers /\ Works(c, p)
    BY DEF AtWork, Works
  <2>2. /\ \A c, d \in AtWork(p) : c = d
        /\ AtWork(p) # {} => proposal[p].status = "executing"
    BY <2>1 DEF IInv, WorkSound
  <2>3. proposal[p].status \in ProposalStatuses /\ ProposalSound(proposal[p])
    BY DEF IInv, Types, ProposalType, ProposalRow
  <2>. QED
    BY <2>2, <2>3 DEF ProposalSound, ProposalStatuses
<1>4. DenialIsNoRun
  BY DEF DenialIsNoRun, IInv, AttemptSound
<1>. QED
  BY <1>1, <1>2, <1>3, <1>4 DEF ToolsRunAsAllowed

(* Whatever the policy, the permissions and the approvals do while tools   *)
(* are called and proposals executed, a tool that sees the tenant's data   *)
(* runs as the policy allowed it to, a proposal is executed once and by    *)
(* one caller, and who is denied is not told of a run                      *)
(* (product/ai/invocation.py, product/approvals/service.py).               *)
THEOREM ToolsRunAsAllowedHolds == AgentSpec => []ToolsRunAsAllowed
<1>. QED
  BY InitInv, StepInv, InvImplies, PTL DEF AgentSpec

-----------------------------------------------------------------------------
(***************************************************************************)
(* The turns of a phone session.  The record of a request is no help: it   *)
(* expires and is taken again.  What keeps a turn to one run of its tool   *)
(* is its own state: only a turn that was given no decision yet is given   *)
(* one, so that one execution at most ever gets to await the tool.         *)
(***************************************************************************)
PhoneSpec == PhoneInit /\ [][PhoneNext]_phoneVars

Before     == {"unborn", "received", "interpreted", "decided"}
TurnRow    == [state : Before \cup PendingStates \cup {"completed"}, decision : Decisions \cup {None},
               text : {"absent", "bounded"}, correlated : BOOLEAN]
Sessions   == [turns : [Turns -> TurnRow], active : Turns \cup {None}]
RecordRow  == [status : {None, "pending", "stale", "failed", "succeeded"}, decision : Decisions \cup {None}]
TrailRow   == [action : {"declined", "denied", "failed", "succeeded"}, decision : Decisions \cup {None},
               correlated : BOOLEAN]
RequestRow == {r \in [at : {"idle", "awaiting", "returned", "done"}, turn : Turns \cup {None},
                      answer : {None, "refused", "declined", "in progress", "success", "denied", "error"}] :
                  r.at \in {"awaiting", "returned"} => r.turn \in Turns}

PhoneTyped ==
    /\ session \in Sessions
    /\ reservation \in [Turns -> RecordRow]
    /\ invoked \in [Turns -> Nat]
    /\ turnAudit \in [Turns -> Seq(TrailRow)]
    /\ delivery \in [Deliveries -> RequestRow]

Runs(e, t) == delivery[e].at \in {"awaiting", "returned"} /\ delivery[e].turn = t

\* A turn with no decision yet was never given to the tool.
Fresh(t) ==
    session.turns[t].state \in Before =>
        /\ session.turns[t].decision = None /\ session.turns[t].text = "absent"
        /\ ~session.turns[t].correlated
        /\ invoked[t] = 0 /\ turnAudit[t] = <<>> /\ reservation[t].status # "succeeded"
        /\ \A e \in Deliveries : ~Runs(e, t)

Decided(t) ==
    /\ session.turns[t].state \in PendingStates =>
          session.turns[t].decision \in Decisions /\ session.turns[t].state = PendingState[session.turns[t].decision]
    /\ session.turns[t].decision \in {"clarify", "decline"} <=> session.turns[t].text = "bounded"

\* The one execution under way of a turn that attempts it has left no trace yet
\* but the tool's run.
UnderWay(t) ==
    /\ \A e \in Deliveries : Runs(e, t) =>
          /\ session.turns[t].decision = "attempt" /\ ~session.turns[t].correlated
          /\ turnAudit[t] = <<>> /\ reservation[t].status # "succeeded"
          /\ delivery[e].at = "awaiting" => invoked[t] = 0
          /\ delivery[e].at = "returned" /\ delivery[e].answer = "success" => invoked[t] = 1
    /\ \A e, f \in Deliveries : Runs(e, t) /\ Runs(f, t) => e = f

Stored(t) ==
    reservation[t].status = "succeeded" =>
      /\ session.turns[t].state = "completed" /\ session.turns[t].decision = "attempt"
      /\ session.turns[t].text = "absent" /\ session.turns[t].correlated
      /\ reservation[t].decision = "attempt"
      /\ invoked[t] = 1

Trail(t) ==
    /\ Len(turnAudit[t]) <= 1
    /\ \A i \in 1..Len(turnAudit[t]) : turnAudit[t][i].action = "succeeded" <=> turnAudit[t][i].correlated

TurnHolds(t) == Fresh(t) /\ Decided(t) /\ UnderWay(t) /\ invoked[t] <= 1 /\ Stored(t) /\ Trail(t)

OneActive == \A t \in Turns : session.turns[t].state \notin {"unborn", "completed"} <=> session.active = t

PhoneInv ==
    /\ PhoneTyped /\ OneActive
    /\ IsFiniteSet(Started) /\ Cardinality(Started) <= MaxTurns
    /\ \A t \in Turns : TurnHolds(t)
-----------------------------------------------------------------------------
LEMMA Moves ==
    /\ AllowedMoves["received"] = {"interpreted"} /\ AllowedMoves["interpreted"] = {"decided"}
    /\ AllowedMoves["decided"] = PendingStates /\ AllowedMoves["completed"] = {}
    /\ \A s \in PendingStates : AllowedMoves[s] = {"completed"}
    /\ PendingStates = {"action_pending", "clarification_pending", "escalation_pending", "declined"}
    /\ "unborn" \notin DOMAIN AllowedMoves
<1>1. PendingStates = {"action_pending", "clarification_pending", "escalation_pending", "declined"}
  BY DEF PendingStates, PendingState, Decisions
<1>. QED  BY <1>1 DEF AllowedMoves

LEMMA Pended ==
    /\ PendingState["attempt"] = "action_pending" /\ PendingState["clarify"] = "clarification_pending"
    /\ PendingState["escalate"] = "escalation_pending" /\ PendingState["decline"] = "declined"
BY DEF PendingState

LEMMA Transitioned ==
    ASSUME NEW s \in Sessions, NEW t \in Turns, NEW target, NEW now,
           now = [s.turns[t] EXCEPT !.state = target]
    PROVE  Transition(s, t, target) =
               [turns |-> [s.turns EXCEPT ![t] = now],
                active |-> IF t = s.active /\ target = "completed" THEN None ELSE s.active]
<1>1. s = [turns |-> s.turns, active |-> s.active] /\ s.turns \in [Turns -> TurnRow]
  BY DEF Sessions
<1>2. [s.turns EXCEPT ![t].state = target] = [s.turns EXCEPT ![t] = now]
  BY <1>1
<1>3. PICK a : a = IF t = s.active /\ target = "completed" THEN None ELSE s.active
  OBVIOUS
<1>4. PICK q : q = [s EXCEPT !.turns[t].state = target]
  OBVIOUS
<1>5. q = [turns |-> [s.turns EXCEPT ![t] = now], active |-> s.active]
  BY <1>1, <1>2, <1>4
<1>6. [q EXCEPT !.active = a] = [turns |-> [s.turns EXCEPT ![t] = now], active |-> a]
  BY <1>5
<1>7. Transition(s, t, target) = [q EXCEPT !.active = a]
  BY <1>1, <1>3, <1>4 DEF Transition
<1>. QED  BY <1>3, <1>6, <1>7

LEMMA IsApplied ==
    ASSUME NEW s \in Sessions, NEW t \in Turns, NEW c, c.says \in Decisions, NEW now,
           now = [s.turns[t] EXCEPT !.state = PendingState[c.says], !.decision = c.says, !.text = Kept(c)]
    PROVE  Applied(s, t, c) = [turns |-> [s.turns EXCEPT ![t] = now], active |-> s.active]
<1>1. s = [turns |-> s.turns, active |-> s.active] /\ s.turns \in [Turns -> TurnRow]
  BY DEF Sessions
<1>2. PICK row : row = [s.turns[t] EXCEPT !.state = PendingState[c.says]]
  OBVIOUS
<1>3. PendingState[c.says] # "completed"
  BY Pended DEF Decisions
<1>4. Transition(s, t, PendingState[c.says]) = [turns |-> [s.turns EXCEPT ![t] = row], active |-> s.active]
  BY <1>2, <1>3, Transitioned
<1>5. now = [row EXCEPT !.decision = c.says, !.text = Kept(c)]
  BY <1>2, <1>1 DEF TurnRow
<1>6. PICK f : f = [s.turns EXCEPT ![t] = row]
  OBVIOUS
<1>7. [[f EXCEPT ![t].decision = c.says] EXCEPT ![t].text = Kept(c)] = [s.turns EXCEPT ![t] = now]
  BY <1>1, <1>5, <1>6
<1>8. PICK r : r = [turns |-> f, active |-> s.active]
  OBVIOUS
<1>9. Applied(s, t, c) = [r EXCEPT !.turns[t].decision = c.says, !.turns[t].text = Kept(c)]
  BY <1>4, <1>6, <1>8 DEF Applied
<1>10. PICK q : q = [r EXCEPT !.turns[t].decision = c.says]
  OBVIOUS
<1>11. q = [turns |-> [f EXCEPT ![t].decision = c.says], active |-> s.active]
  BY <1>8, <1>10
<1>12. [q EXCEPT !.turns[t].text = Kept(c)] =
         [turns |-> [[f EXCEPT ![t].decision = c.says] EXCEPT ![t].text = Kept(c)], active |-> s.active]
  BY <1>11
<1>13. Applied(s, t, c) = [q EXCEPT !.turns[t].text = Kept(c)]
  BY <1>8, <1>9, <1>10
<1>. QED  BY <1>7, <1>12, <1>13

LEMMA StepOfTurn ==
    ASSUME PhoneInv, NEW t \in Turns, PhoneTyped', OneActive', TurnHolds(t)',
           session.turns[t].state # "unborn" \/ Cardinality(Started) < MaxTurns,
           session.turns[t].state = "completed" => session'.turns[t] = session.turns[t],
           \A u \in Turns \ {t} :
               /\ session'.turns[u] = session.turns[u] /\ reservation'[u] = reservation[u]
               /\ invoked'[u] = invoked[u] /\ turnAudit'[u] = turnAudit[u]
               /\ \A e \in Deliveries : /\ Runs(e, u)' <=> Runs(e, u)
                                        /\ Runs(e, u) => delivery'[e] = delivery[e]
    PROVE  PhoneInv' /\ OverIsOver
<1>1. Started' \subseteq Started \cup {t}
  BY DEF Started
<1>2. IsFiniteSet(Started) /\ Cardinality(Started) <= MaxTurns /\ MaxTurns \in Nat
  BY PhoneAssumption DEF PhoneInv
<1>3. PICK n \in Nat : n = Cardinality(Started) /\ n <= MaxTurns
  BY <1>2, FS_CardinalityType
<1>4. IsFiniteSet(Started') /\ Cardinality(Started') <= MaxTurns
  <2>1. CASE t \in Started
    <3>1. Started' \subseteq Started
      BY <1>1, <2>1
    <3>2. IsFiniteSet(Started') /\ Cardinality(Started') <= n /\ Cardinality(Started') \in Nat
      BY <3>1, <1>2, <1>3, FS_Subset, FS_CardinalityType
    <3>. QED  BY <3>2, <1>2, <1>3
  <2>2. CASE t \notin Started
    <3>1. n < MaxTurns
      BY <2>2, <1>3 DEF Started
    <3>2. IsFiniteSet(Started \cup {t}) /\ Cardinality(Started \cup {t}) = n + 1
      BY <2>2, <1>2, <1>3, FS_AddElement
    <3>3. IsFiniteSet(Started') /\ Cardinality(Started') <= n + 1 /\ Cardinality(Started') \in Nat
      BY <3>2, <1>1, FS_Subset, FS_CardinalityType
    <3>. QED  BY <3>1, <3>3, <1>2, <1>3
  <2>. QED  BY <2>1, <2>2
<1>5. ASSUME NEW u \in Turns \ {t} PROVE TurnHolds(u)'
  <2>1. TurnHolds(u)
    BY DEF PhoneInv
  <2>2. Fresh(u)' /\ Decided(u)' /\ Stored(u)' /\ Trail(u)' /\ invoked'[u] <= 1
    BY <2>1 DEF TurnHolds, Fresh, Decided, Stored, Trail
  <2>3. UnderWay(u)'
    BY <2>1 DEF TurnHolds, UnderWay
  <2>. QED  BY <2>2, <2>3 DEF TurnHolds
<1>6. OverIsOver
  BY DEF OverIsOver
<1>. QED  BY <1>4, <1>5, <1>6 DEF PhoneInv

LEMMA TurnIs ==
    ASSUME PhoneInv, NEW t \in Turns
    PROVE  /\ session \in Sessions /\ session.turns \in [Turns -> TurnRow] /\ session.turns[t] \in TurnRow
           /\ session = [turns |-> session.turns, active |-> session.active]
           /\ reservation[t] \in RecordRow /\ invoked[t] \in Nat /\ turnAudit[t] \in Seq(TrailRow)
           /\ None \notin Turns /\ TurnHolds(t)
           /\ session.turns[t].state \notin {"unborn", "completed"} <=> session.active = t
BY PhoneAssumption DEF PhoneInv, PhoneTyped, Sessions, OneActive

\* A turn starts, goes on, or ends.
LEMMA SessionMoves ==
    ASSUME PhoneInv, NEW t \in Turns, NEW now \in TurnRow, NEW act \in Turns \cup {None},
           session' = [turns |-> [session.turns EXCEPT ![t] = now], active |-> act],
           \/ act = session.active
              /\ (now.state \in {"unborn", "completed"} <=> session.turns[t].state \in {"unborn", "completed"})
           \/ act = None /\ session.active = t /\ now.state = "completed"
           \/ act = t /\ session.active = None /\ now.state \notin {"unborn", "completed"}
    PROVE  /\ session' \in Sessions /\ OneActive' /\ session'.turns[t] = now
           /\ \A u \in Turns \ {t} : session'.turns[u] = session.turns[u]
<1>1. session.turns \in [Turns -> TurnRow] /\ None \notin Turns /\ OneActive
  BY TurnIs DEF PhoneInv
<1>2. session'.turns = [session.turns EXCEPT ![t] = now] /\ session'.active = act
  OBVIOUS
<1>3. session' \in Sessions
  BY <1>1 DEF Sessions
<1>4. session'.turns[t] = now /\ \A u \in Turns \ {t} : session'.turns[u] = session.turns[u]
  BY <1>1, <1>2
<1>5. OneActive'
  BY <1>1, <1>2, <1>4 DEF OneActive
<1>. QED  BY <1>3, <1>4, <1>5

\* An execution that begins and answers at once, or that ends.
LEMMA AnswersAtOnce ==
    ASSUME PhoneInv, NEW t \in Turns, NEW e \in Deliveries,
           NEW word \in {"refused", "declined", "in progress", "success", "denied", "error"},
           Answered(e, t, word), delivery[e].at = "idle" \/ delivery[e].turn = t
    PROVE  /\ delivery' \in [Deliveries -> RequestRow]
           /\ \A f \in Deliveries : Runs(f, t)' <=> Runs(f, t) /\ f # e
           /\ \A f \in Deliveries : f # e => delivery'[f] = delivery[f]
           /\ \A u \in Turns \ {t} : \A f \in Deliveries : /\ Runs(f, u)' <=> Runs(f, u)
                                                           /\ Runs(f, u) => delivery'[f] = delivery[f]
<1>1. PICK d : d = [at |-> "done", turn |-> t, answer |-> word]
  OBVIOUS
<1>2. d \in RequestRow /\ d.at = "done" /\ d.turn = t
  BY <1>1 DEF RequestRow
<1>3. delivery \in [Deliveries -> RequestRow] /\ delivery' = [delivery EXCEPT ![e] = d]
  BY <1>1 DEF PhoneInv, PhoneTyped, Answered
<1>. QED  BY <1>2, <1>3 DEF Runs

LEMMA StartStep ==
    ASSUME PhoneInv, NEW t \in Turns, StartTurn(t) PROVE PhoneInv' /\ OverIsOver
<1>1. PICK was \in TurnRow : was = session.turns[t] /\ was.state = "unborn"
  BY TurnIs DEF StartTurn, Started
<1>2. PICK now : now = [was EXCEPT !.state = "received"]
  OBVIOUS
<1>3. now \in TurnRow /\ now.state = "received" /\ now.decision = was.decision /\ now.text = was.text
      /\ (now.correlated <=> was.correlated)
  BY <1>2 DEF TurnRow, Before
<1>4. session' = [turns |-> [session.turns EXCEPT ![t] = now], active |-> t]
  <2>1. PICK q : q = [session EXCEPT !.turns[t].state = "received"]
    OBVIOUS
  <2>2. q = [turns |-> [session.turns EXCEPT ![t].state = "received"], active |-> session.active]
    BY <2>1, TurnIs
  <2>3. [session.turns EXCEPT ![t].state = "received"] = [session.turns EXCEPT ![t] = now]
    BY <1>1, <1>2, TurnIs
  <2>4. session' = [q EXCEPT !.active = t]
    BY <2>1, TurnIs DEF StartTurn
  <2>. QED  BY <2>2, <2>3, <2>4
<1>5. session.active = None /\ Cardinality(Started) < MaxTurns
      /\ UNCHANGED <<reservation, invoked, turnAudit, delivery>>
  BY DEF StartTurn
<1>6. /\ session' \in Sessions /\ OneActive' /\ session'.turns[t] = now
      /\ \A u \in Turns \ {t} : session'.turns[u] = session.turns[u]
  BY <1>1, <1>3, <1>4, <1>5, SessionMoves
<1>7. PhoneTyped'
  BY <1>5, <1>6 DEF PhoneInv, PhoneTyped
<1>8. TurnHolds(t)'
  <2>1. TurnHolds(t)
    BY TurnIs
  <2>2. Fresh(t)'
    BY <2>1, <1>1, <1>3, <1>5, <1>6 DEF TurnHolds, Fresh, Before, Runs
  <2>3. Decided(t)' /\ Stored(t)' /\ Trail(t)' /\ UnderWay(t)'
    BY <2>1, <1>1, <1>3, <1>5, <1>6, Moves DEF TurnHolds, Fresh, Decided, Stored, Trail, UnderWay, Runs, Before
  <2>. QED  BY <2>1, <2>2, <2>3, <1>5 DEF TurnHolds
<1>. QED  BY <1>1, <1>5, <1>6, <1>7, <1>8, StepOfTurn DEF Runs

LEMMA Goes ==
    ASSUME PhoneInv, NEW t \in Started, NEW target, ~Refuses(session, t, target)
    PROVE  /\ t \in Turns /\ session.turns[t].state # "unborn"
           /\ \/ session.turns[t].state = target
              \/ t = session.active /\ target \in AllowedMoves[session.turns[t].state]
BY DEF Refuses, Started

LEMMA MarkStep ==
    ASSUME PhoneInv, NEW t \in Turns, NEW target \in {"interpreted", "decided", "completed"}, Mark(t, target)
    PROVE  PhoneInv' /\ OverIsOver
<1>1. PICK was \in TurnRow : was = session.turns[t] /\ was.state # "unborn"
  BY TurnIs DEF Mark, Started
<1>2. \/ was.state = target
      \/ t = session.active /\ target \in AllowedMoves[was.state] /\ was.state \notin {"unborn", "completed"}
  BY <1>1, Goes, TurnIs DEF Mark
<1>3. PICK now : now = [was EXCEPT !.state = target]
  OBVIOUS
<1>4. now \in TurnRow /\ now.state = target /\ now.decision = was.decision /\ now.text = was.text
      /\ (now.correlated <=> was.correlated)
  BY <1>3 DEF TurnRow, Before
<1>5. PICK act : act = IF t = session.active /\ target = "completed" THEN None ELSE session.active
  OBVIOUS
<1>6. session' = [turns |-> [session.turns EXCEPT ![t] = now], active |-> act]
  BY <1>1, <1>3, <1>5, TurnIs, Transitioned DEF Mark
<1>7. UNCHANGED <<reservation, invoked, turnAudit, delivery>>
  BY DEF Mark
<1>8. act \in Turns \cup {None} /\ (was.state \notin {"unborn", "completed"} <=> session.active = t) /\ None \notin Turns
  BY <1>1, <1>5, TurnIs DEF Sessions
<1>9. \/ act = session.active /\ (now.state \in {"unborn", "completed"} <=> was.state \in {"unborn", "completed"})
      \/ act = None /\ session.active = t /\ now.state = "completed"
  BY <1>2, <1>4, <1>5, <1>8
<1>10. /\ session' \in Sessions /\ OneActive' /\ session'.turns[t] = now
       /\ \A u \in Turns \ {t} : session'.turns[u] = session.turns[u]
  BY <1>1, <1>4, <1>6, <1>8, <1>9, SessionMoves
<1>11. PhoneTyped'
  BY <1>7, <1>10 DEF PhoneInv, PhoneTyped
<1>12. was.state = "completed" => now = was
  BY <1>2, <1>3, <1>4 DEF TurnRow
<1>13. \/ was.state \in Before /\ target \in {"interpreted", "decided"}
       \/ was.state \in PendingStates \cup {"completed"} /\ target = "completed"
  <2>1. CASE was.state = target
    BY <2>1 DEF Before
  <2>2. CASE target \in AllowedMoves[was.state] /\ was.state \notin {"unborn", "completed"}
    BY <2>2, Moves DEF TurnRow, Before
  <2>. QED  BY <1>2, <2>1, <2>2
<1>14. TurnHolds(t)'
  <2>1. TurnHolds(t)
    BY TurnIs
  <2>2. Fresh(t)'
    BY <2>1, <1>1, <1>4, <1>7, <1>10, <1>13 DEF TurnHolds, Fresh, Before, Runs
  <2>3. Decided(t)'
    BY <2>1, <1>1, <1>4, <1>10, <1>13, Moves DEF TurnHolds, Decided
  <2>4. Stored(t)' /\ Trail(t)'
    BY <2>1, <1>1, <1>4, <1>7, <1>10, <1>12 DEF TurnHolds, Stored, Trail
  <2>5. UnderWay(t)'
    BY <2>1, <1>1, <1>4, <1>7, <1>10 DEF TurnHolds, UnderWay, Runs
  <2>. QED  BY <2>1, <2>2, <2>3, <2>4, <2>5, <1>7 DEF TurnHolds
<1>. QED  BY <1>1, <1>7, <1>10, <1>11, <1>12, <1>14, StepOfTurn DEF Runs

LEMMA ApplyStep ==
    ASSUME PhoneInv, NEW t \in Turns, NEW c \in Completions, ApplyDecision(t, c)
    PROVE  PhoneInv' /\ OverIsOver
<1>1. PICK was \in TurnRow : was = session.turns[t] /\ was.state # "unborn"
  BY TurnIs DEF ApplyDecision, Started
<1>2. PICK says \in Decisions, text \in {"absent", "bounded"} :
         /\ says = c.says /\ text = Kept(c) /\ (says \in {"clarify", "decline"} <=> text = "bounded")
  BY DEF ApplyDecision, WellFormed, Kept
<1>3. PendingState[says] \in PendingStates
  BY <1>2, Pended, Moves DEF Decisions
<1>4. \/ was.state = PendingState[says]
      \/ t = session.active /\ PendingState[says] \in AllowedMoves[was.state] /\ was.state \notin {"unborn", "completed"}
  BY <1>1, <1>2, Goes, TurnIs DEF ApplyDecision
<1>5. was.state = "decided" \/ was.state = PendingState[says]
  BY <1>3, <1>4, Moves DEF TurnRow, Before
<1>6. PICK now : now = [was EXCEPT !.state = PendingState[says], !.decision = says, !.text = text]
  OBVIOUS
<1>7. now \in TurnRow /\ now.state = PendingState[says] /\ now.decision = says /\ now.text = text
      /\ (now.correlated <=> was.correlated)
  BY <1>3, <1>6 DEF TurnRow
<1>8. session' = [turns |-> [session.turns EXCEPT ![t] = now], active |-> session.active]
  <2>1. session' = Applied(session, t, c) /\ session \in Sessions /\ c.says \in Decisions
    BY <1>2, TurnIs DEF ApplyDecision
  <2>2. now = [session.turns[t] EXCEPT !.state = PendingState[c.says], !.decision = c.says, !.text = Kept(c)]
    BY <1>1, <1>2, <1>6
  <2>. QED  BY <2>1, <2>2, IsApplied
<1>9. UNCHANGED <<reservation, invoked, turnAudit, delivery>>
  BY DEF ApplyDecision
<1>10. /\ session.active \in Turns \cup {None} /\ was.state \notin {"unborn", "completed"}
       /\ now.state \notin {"unborn", "completed"}
  BY <1>3, <1>5, <1>7, TurnIs, Moves DEF Sessions
<1>11. /\ session' \in Sessions /\ OneActive' /\ session'.turns[t] = now
       /\ \A u \in Turns \ {t} : session'.turns[u] = session.turns[u]
  BY <1>1, <1>7, <1>8, <1>10, SessionMoves
<1>12. PhoneTyped'
  BY <1>9, <1>11 DEF PhoneInv, PhoneTyped
<1>13. TurnHolds(t)'
  <2>1. TurnHolds(t)
    BY TurnIs
  <2>2. was.state = "decided" \/ was.decision = says
    BY <2>1, <1>1, <1>3, <1>5, Pended, Moves DEF TurnHolds, Decided, Decisions
  <2>3. Fresh(t)'
    BY <1>3, <1>7, <1>11, Moves DEF Fresh, Before
  <2>4. Decided(t)'
    BY <1>2, <1>3, <1>7, <1>11, Moves DEF Decided
  <2>5. Stored(t)'
    BY <2>1, <1>1, <1>9, <1>10 DEF TurnHolds, Stored
  <2>6. Trail(t)'
    BY <2>1, <1>9 DEF TurnHolds, Trail
  <2>7. UnderWay(t)'
    BY <2>1, <2>2, <1>1, <1>7, <1>9, <1>11 DEF TurnHolds, UnderWay, Fresh, Before, Runs
  <2>. QED  BY <2>1, <2>3, <2>4, <2>5, <2>6, <2>7, <1>9 DEF TurnHolds
<1>. QED  BY <1>1, <1>9, <1>10, <1>11, <1>12, <1>13, StepOfTurn DEF Runs

\* The steps that leave the session alone.
LEMMA SameSession == ASSUME PhoneInv, UNCHANGED session PROVE OneActive' /\ session' \in Sessions
BY DEF PhoneInv, PhoneTyped, OneActive

\* A record that is reserved or expires, and an execution that is refused or replayed.
LEMMA QuietStep ==
    ASSUME PhoneInv, NEW t \in Turns, UNCHANGED <<session, invoked, turnAudit>>,
           reservation' \in [Turns -> RecordRow],
           reservation'[t].status = "succeeded" => reservation'[t] = reservation[t],
           delivery' \in [Deliveries -> RequestRow],
           \A f \in Deliveries : Runs(f, t)' => Runs(f, t) /\ delivery'[f] = delivery[f],
           \A u \in Turns \ {t} :
               /\ reservation'[u] = reservation[u]
               /\ \A f \in Deliveries : /\ Runs(f, u)' <=> Runs(f, u)
                                        /\ Runs(f, u) => delivery'[f] = delivery[f]
    PROVE  PhoneInv' /\ OverIsOver
<1>1. PhoneTyped' /\ OneActive'
  BY SameSession DEF PhoneInv, PhoneTyped
<1>2. TurnHolds(t)
  BY TurnIs
<1>3. Fresh(t)' /\ Decided(t)' /\ Stored(t)' /\ Trail(t)'
  BY <1>2 DEF TurnHolds, Fresh, Decided, Stored, Trail
<1>4. UnderWay(t)'
  BY <1>2 DEF TurnHolds, UnderWay
<1>5. TurnHolds(t)'
  BY <1>2, <1>3, <1>4 DEF TurnHolds
<1>6. session.turns[t].state # "unborn" \/ Cardinality(Started) < MaxTurns \/ Started' = Started
  BY DEF Started
<1>7. ASSUME NEW u \in Turns \ {t} PROVE TurnHolds(u)'
  <2>1. TurnHolds(u)
    BY TurnIs
  <2>2. Fresh(u)' /\ Decided(u)' /\ Stored(u)' /\ Trail(u)' /\ invoked'[u] <= 1
    BY <2>1 DEF TurnHolds, Fresh, Decided, Stored, Trail
  <2>3. UnderWay(u)'
    BY <2>1 DEF TurnHolds, UnderWay
  <2>. QED  BY <2>2, <2>3 DEF TurnHolds
<1>8. IsFiniteSet(Started') /\ Cardinality(Started') <= MaxTurns
  BY DEF PhoneInv, Started
<1>. QED  BY <1>1, <1>5, <1>7, <1>8 DEF PhoneInv, OverIsOver

LEMMA Reserved ==
    ASSUME PhoneInv, NEW t \in Turns, NEW status \in {"pending", "stale", "failed"},
           reservation' = [reservation EXCEPT ![t].status = status]
    PROVE  /\ reservation' \in [Turns -> RecordRow] /\ reservation'[t].status = status
           /\ \A u \in Turns \ {t} : reservation'[u] = reservation[u]
<1>1. PICK was \in RecordRow : was = reservation[t]
  BY TurnIs
<1>2. PICK row : row = [was EXCEPT !.status = status]
  OBVIOUS
<1>3. row \in RecordRow /\ row.status = status
  BY <1>2 DEF RecordRow
<1>4. reservation \in [Turns -> RecordRow]
  BY DEF PhoneInv, PhoneTyped
<1>5. reservation' = [reservation EXCEPT ![t] = row]
  BY <1>1, <1>2, <1>4
<1>. QED  BY <1>3, <1>4, <1>5

LEMMA ExpireStep == ASSUME PhoneInv, NEW t \in Turns, PendingExpires(t) PROVE PhoneInv' /\ OverIsOver
<1>1. UNCHANGED <<session, invoked, turnAudit, delivery>> /\ reservation' = [reservation EXCEPT ![t].status = "stale"]
  BY DEF PendingExpires
<1>2. /\ reservation' \in [Turns -> RecordRow] /\ reservation'[t].status = "stale"
      /\ \A u \in Turns \ {t} : reservation'[u] = reservation[u]
  BY <1>1, Reserved
<1>3. delivery \in [Deliveries -> RequestRow]
  BY DEF PhoneInv, PhoneTyped
<1>. QED  BY <1>1, <1>2, <1>3, QuietStep DEF Runs

LEMMA AnsweredStep ==
    ASSUME PhoneInv, NEW t \in Turns, NEW e \in Deliveries,
           PrepareRefused(e, t) \/ StillInProgress(e, t) \/ Replay(e, t)
    PROVE  PhoneInv' /\ OverIsOver
<1>1. PICK word \in {"refused", "in progress", "success"} : Answered(e, t, word) /\ delivery[e].at = "idle"
  BY DEF PrepareRefused, StillInProgress, Replay, CanBegin
<1>2. UNCHANGED <<session, invoked, turnAudit>>
  BY DEF PrepareRefused, StillInProgress, Replay
<1>3. UNCHANGED reservation \/ reservation' = [reservation EXCEPT ![t].status = "pending"]
  BY DEF PrepareRefused, StillInProgress, Replay
<1>4. /\ reservation' \in [Turns -> RecordRow]
      /\ reservation'[t].status = "succeeded" => reservation'[t] = reservation[t]
      /\ \A u \in Turns \ {t} : reservation'[u] = reservation[u]
  <2>1. CASE UNCHANGED reservation
    BY <2>1 DEF PhoneInv, PhoneTyped
  <2>2. CASE reservation' = [reservation EXCEPT ![t].status = "pending"]
    BY <2>2, Reserved
  <2>. QED  BY <1>3, <2>1, <2>2
<1>5. /\ delivery' \in [Deliveries -> RequestRow]
      /\ \A f \in Deliveries : Runs(f, t)' => Runs(f, t) /\ delivery'[f] = delivery[f]
      /\ \A u \in Turns \ {t} : \A f \in Deliveries : /\ Runs(f, u)' <=> Runs(f, u)
                                                      /\ Runs(f, u) => delivery'[f] = delivery[f]
  BY <1>1, AnswersAtOnce
<1>. QED  BY <1>2, <1>4, <1>5, QuietStep

LEMMA ExecutionIs ==
    ASSUME PhoneInv, NEW e \in Deliveries, delivery[e].at \in {"awaiting", "returned"}
    PROVE  delivery[e] \in RequestRow /\ delivery[e].turn \in Turns /\ Runs(e, delivery[e].turn)
BY DEF PhoneInv, PhoneTyped, RequestRow, Runs

LEMMA RefusedStep == ASSUME PhoneInv, NEW e \in Deliveries, ResumeRefused(e) PROVE PhoneInv' /\ OverIsOver
<1>1. PICK t \in Turns : t = delivery[e].turn
  BY ExecutionIs DEF ResumeRefused
<1>2. Answered(e, t, "refused") /\ UNCHANGED <<session, reservation, invoked, turnAudit>>
  BY <1>1 DEF ResumeRefused
<1>3. /\ delivery' \in [Deliveries -> RequestRow]
      /\ \A f \in Deliveries : Runs(f, t)' => Runs(f, t) /\ delivery'[f] = delivery[f]
      /\ \A u \in Turns \ {t} : \A f \in Deliveries : /\ Runs(f, u)' <=> Runs(f, u)
                                                      /\ Runs(f, u) => delivery'[f] = delivery[f]
  BY <1>1, <1>2, AnswersAtOnce
<1>4. reservation' \in [Turns -> RecordRow]
  BY <1>2 DEF PhoneInv, PhoneTyped
<1>. QED  BY <1>2, <1>3, <1>4, QuietStep

\* What surrounds the session.
LEMMA AroundStep ==
    ASSUME PhoneInv, EnsurePhoneSafePermissions \/ PermissionTakenAway \/ ProcessDies \/ UNCHANGED phoneVars
    PROVE  PhoneInv' /\ OverIsOver
<1>1. UNCHANGED <<session, reservation, invoked, turnAudit, delivery>>
  BY DEF EnsurePhoneSafePermissions, PermissionTakenAway, ProcessDies, phoneVars
<1>. QED
  BY <1>1 DEF PhoneInv, PhoneTyped, OneActive, Started, TurnHolds, Fresh, Decided, UnderWay, Stored, Trail,
     Runs, OverIsOver

\* The turn that an execution prepares, and then declines or attempts.
LEMMA Prepares ==
    ASSUME PhoneInv, NEW t \in Started, ~Refuses(session, t, "interpreted"),
           NEW says \in {"decline", "attempt"}, NEW text \in {"absent", "bounded"},
           says = "decline" <=> text = "bounded"
    PROVE  /\ session.turns[t].state \in Before /\ session.turns[t].state # "unborn" /\ session.active = t
           /\ \E now \in TurnRow :
                 /\ Applied(Prepared(t), t, [says |-> says, text |-> text]) =
                        [turns |-> [session.turns EXCEPT ![t] = now], active |-> t]
                 /\ now.state = PendingState[says] /\ now.decision = says /\ now.text = text /\ ~now.correlated
<1>1. PICK was \in TurnRow : was = session.turns[t] /\ was.state # "unborn"
  BY TurnIs DEF Started
<1>2. t \in Turns /\ TurnHolds(t) /\ session \in Sessions /\ session.turns \in [Turns -> TurnRow]
  BY TurnIs DEF Started
<1>3. \/ was.state = "interpreted"
      \/ t = session.active /\ "interpreted" \in AllowedMoves[was.state]
  BY <1>1, Goes
<1>4. was.state \in {"received", "interpreted"}
  <2>1. CASE t = session.active /\ "interpreted" \in AllowedMoves[was.state]
    <3>1. was.state \notin {"unborn", "completed"}
      BY <2>1, <1>1, <1>2, TurnIs
    <3>. QED  BY <2>1, <3>1, Moves DEF TurnRow, Before
  <2>. QED  BY <1>3, <2>1
<1>5. session.active = t /\ ~was.correlated
  BY <1>1, <1>2, <1>4, TurnIs DEF TurnHolds, Fresh, Before
<1>6. PICK one \in TurnRow : one = [was EXCEPT !.state = "interpreted"]
  BY <1>1 DEF TurnRow, Before
<1>7. PICK s \in Sessions : s = [turns |-> [session.turns EXCEPT ![t] = one], active |-> t]
  BY <1>2, <1>5 DEF Sessions
<1>8. s = Transition(session, t, "interpreted") /\ s.turns[t] = one /\ s.active = t
  BY <1>1, <1>2, <1>5, <1>6, <1>7, Transitioned
<1>9. PICK two \in TurnRow : two = [one EXCEPT !.state = "decided"]
  BY <1>6 DEF TurnRow, Before
<1>10. PICK r \in Sessions : r = [turns |-> [s.turns EXCEPT ![t] = two], active |-> t]
  BY <1>2, <1>7 DEF Sessions
<1>11. r = Transition(s, t, "decided")
  BY <1>2, <1>8, <1>9, <1>10, Transitioned
<1>12. r = Prepared(t)
  BY <1>8, <1>11 DEF Prepared
<1>13. r.turns = [session.turns EXCEPT ![t] = two] /\ r.turns[t] = two /\ r.active = t
  BY <1>2, <1>7, <1>10
<1>14. PICK c : c = [says |-> says, text |-> text]
  OBVIOUS
<1>15. PICK now : now = [was EXCEPT !.state = PendingState[says], !.decision = says, !.text = text]
  OBVIOUS
<1>16. PendingState[says] \in PendingStates
  BY Pended, Moves
<1>17. now \in TurnRow /\ now.state = PendingState[says] /\ now.decision = says /\ now.text = text
       /\ (now.correlated <=> was.correlated)
  BY <1>15, <1>16 DEF TurnRow, Decisions
<1>18. now = [two EXCEPT !.state = PendingState[says], !.decision = says, !.text = text]
  BY <1>6, <1>9, <1>15 DEF TurnRow
<1>19. Applied(r, t, c) = [turns |-> [r.turns EXCEPT ![t] = now], active |-> r.active]
  <2>1. c.says \in Decisions /\ c.says = says /\ Kept(c) = text
    BY <1>14 DEF Decisions, Kept
  <2>2. now = [r.turns[t] EXCEPT !.state = PendingState[c.says], !.decision = c.says, !.text = Kept(c)]
    BY <1>13, <2>1, <1>18
  <2>3. r \in Sessions /\ t \in Turns
    BY <1>2, <1>10
  <2>. QED  BY ONLY <2>1, <2>2, <2>3, IsApplied
<1>20. [r.turns EXCEPT ![t] = now] = [session.turns EXCEPT ![t] = now]
  BY <1>2, <1>13
<1>21. Applied(Prepared(t), t, c) = [turns |-> [session.turns EXCEPT ![t] = now], active |-> t]
  BY <1>12, <1>13, <1>19, <1>20
<1>22. /\ now.state = PendingState[says] /\ now.decision = says /\ now.text = text /\ ~now.correlated
       /\ Applied(Prepared(t), t, [says |-> says, text |-> text]) = [turns |-> [session.turns EXCEPT ![t] = now], active |-> t]
  BY <1>5, <1>14, <1>17, <1>21
<1>. QED  BY <1>1, <1>4, <1>5, <1>17, <1>22 DEF Before

\* A declined turn is over, with its one record in the trail.
LEMMA DeclineStep ==
    ASSUME PhoneInv, NEW t \in Turns, NEW e \in Deliveries, NotAllowlisted(e, t) \/ DeclineUnauthorized(e, t)
    PROVE  PhoneInv' /\ OverIsOver
<1>1. t \in Started /\ delivery[e].at = "idle" /\ ~Refuses(session, t, "interpreted")
  BY DEF NotAllowlisted, DeclineUnauthorized, CanBegin
<1>2. session.turns[t].state \in Before /\ session.turns[t].state # "unborn" /\ session.active = t
  BY <1>1, Prepares
<1>3. PICK row \in TurnRow :
         /\ Applied(Prepared(t), t, [says |-> "decline", text |-> "bounded"]) =
                [turns |-> [session.turns EXCEPT ![t] = row], active |-> t]
         /\ row.state = PendingState["decline"] /\ row.decision = "decline" /\ row.text = "bounded" /\ ~row.correlated
  BY <1>1, Prepares
<1>4. /\ session.turns[t].state \in Before /\ session.turns[t].state # "unborn" /\ session.active = t
      /\ Declined(t) = [turns |-> [session.turns EXCEPT ![t] = row], active |-> t]
      /\ row \in TurnRow /\ row.decision = "decline" /\ row.text = "bounded" /\ ~row.correlated
  BY <1>2, <1>3 DEF Declined
<1>5. session.turns \in [Turns -> TurnRow] /\ session \in Sessions /\ TurnHolds(t)
  BY TurnIs
<1>6. PICK s \in Sessions : s = Declined(t) /\ s.turns = [session.turns EXCEPT ![t] = row] /\ s.turns[t] = row /\ s.active = t
  BY <1>4, <1>5 DEF Sessions
<1>7. PICK now \in TurnRow : now = [row EXCEPT !.state = "completed"]
  BY <1>4 DEF TurnRow
<1>8. now.state = "completed" /\ now.decision = "decline" /\ now.text = "bounded" /\ ~now.correlated
  BY <1>4, <1>7 DEF TurnRow
<1>9. session' = [turns |-> [session.turns EXCEPT ![t] = now], active |-> None]
  <2>1. session' = Transition(s, t, "completed")
    BY <1>6 DEF NotAllowlisted, DeclineUnauthorized
  <2>2. session' = [turns |-> [s.turns EXCEPT ![t] = now], active |-> None]
    <3>1. now = [s.turns[t] EXCEPT !.state = "completed"]
      BY <1>6, <1>7
    <3>2. Transition(s, t, "completed") =
            [turns |-> [s.turns EXCEPT ![t] = now],
             active |-> IF t = s.active /\ "completed" = "completed" THEN None ELSE s.active]
      BY ONLY <3>1, s \in Sessions, t \in Turns, Transitioned
    <3>. QED  BY <2>1, <3>2, <1>6
  <2>3. [s.turns EXCEPT ![t] = now] = [session.turns EXCEPT ![t] = now]
    BY <1>5, <1>6
  <2>. QED  BY <2>2, <2>3
<1>10. /\ session' \in Sessions /\ OneActive' /\ session'.turns[t] = now
       /\ \A u \in Turns \ {t} : session'.turns[u] = session.turns[u]
  BY <1>4, <1>8, <1>9, SessionMoves
<1>11. PICK word \in {"declined", "denied"} : turnAudit' = [turnAudit EXCEPT ![t] = Append(@, AuditOf(s, t, word))]
                                             /\ Answered(e, t, word)
  BY <1>6 DEF NotAllowlisted, DeclineUnauthorized
<1>12. PICK rec \in TrailRow : rec = AuditOf(s, t, word) /\ rec.action = word /\ ~rec.correlated
  <2>1. PICK rec : rec = [action |-> word, decision |-> row.decision, correlated |-> row.correlated]
    OBVIOUS
  <2>2. rec \in TrailRow /\ rec.action = word /\ ~rec.correlated
    BY <2>1, <1>4, <1>11 DEF TrailRow, TurnRow
  <2>3. rec = AuditOf(s, t, word)
    BY <2>1, <1>6 DEF AuditOf
  <2>. QED  BY <2>2, <2>3
<1>13. turnAudit[t] = <<>> /\ invoked[t] = 0 /\ \A f \in Deliveries : ~Runs(f, t)
  BY <1>4, <1>5 DEF TurnHolds, Fresh
<1>14. turnAudit' = [turnAudit EXCEPT ![t] = <<rec>>]
  BY <1>11, <1>12, <1>13
<1>15. turnAudit \in [Turns -> Seq(TrailRow)] /\ reservation \in [Turns -> RecordRow] /\ invoked \in [Turns -> Nat]
  BY DEF PhoneInv, PhoneTyped
<1>16. /\ turnAudit' \in [Turns -> Seq(TrailRow)] /\ turnAudit'[t] = <<rec>>
       /\ \A u \in Turns \ {t} : turnAudit'[u] = turnAudit[u]
  BY <1>14, <1>15
<1>17. UNCHANGED reservation \/ reservation' = [reservation EXCEPT ![t].status = "failed"]
  BY DEF NotAllowlisted, DeclineUnauthorized
<1>18. /\ reservation' \in [Turns -> RecordRow] /\ reservation'[t].status # "succeeded"
       /\ \A u \in Turns \ {t} : reservation'[u] = reservation[u]
  <2>1. CASE UNCHANGED reservation
    BY <2>1, <1>4, <1>5, <1>15 DEF TurnHolds, Fresh
  <2>2. CASE reservation' = [reservation EXCEPT ![t].status = "failed"]
    BY <2>2, Reserved
  <2>. QED  BY <1>17, <2>1, <2>2
<1>19. UNCHANGED invoked
  BY DEF NotAllowlisted, DeclineUnauthorized
<1>20. /\ delivery' \in [Deliveries -> RequestRow]
       /\ \A f \in Deliveries : ~Runs(f, t)'
       /\ \A u \in Turns \ {t} : \A f \in Deliveries : /\ Runs(f, u)' <=> Runs(f, u)
                                                       /\ Runs(f, u) => delivery'[f] = delivery[f]
  BY <1>1, <1>11, <1>13, AnswersAtOnce
<1>21. PhoneTyped'
  BY <1>10, <1>15, <1>16, <1>18, <1>19, <1>20 DEF PhoneTyped
<1>22. TurnHolds(t)'
  <2>1. Fresh(t)' /\ Decided(t)' /\ Stored(t)'
    BY <1>8, <1>10, <1>18, Moves DEF Fresh, Before, Decided, Stored
  <2>2. UnderWay(t)'
    BY <1>20 DEF UnderWay
  <2>3. Trail(t)'
    BY <1>11, <1>12, <1>16 DEF Trail
  <2>. QED  BY <2>1, <2>2, <2>3, <1>13, <1>19 DEF TurnHolds
<1>. QED  BY <1>4, <1>10, <1>16, <1>18, <1>19, <1>20, <1>21, <1>22, StepOfTurn DEF Before

LEMMA AttemptStep ==
    ASSUME PhoneInv, NEW t \in Turns, NEW e \in Deliveries, Attempt(e, t) PROVE PhoneInv' /\ OverIsOver
<1>1. t \in Started /\ delivery[e].at = "idle" /\ ~Refuses(session, t, "interpreted")
  BY DEF Attempt, CanBegin
<1>2. session.turns[t].state \in Before /\ session.turns[t].state # "unborn" /\ session.active = t
  BY <1>1, Prepares
<1>3. PICK now \in TurnRow :
         /\ Applied(Prepared(t), t, [says |-> "attempt", text |-> "absent"]) =
                [turns |-> [session.turns EXCEPT ![t] = now], active |-> t]
         /\ now.state = PendingState["attempt"] /\ now.decision = "attempt" /\ now.text = "absent" /\ ~now.correlated
  BY <1>1, Prepares
<1>4. session' = [turns |-> [session.turns EXCEPT ![t] = now], active |-> t] /\ now.state = "action_pending"
  BY <1>3, Pended DEF Attempt, Attempted
<1>5. TurnHolds(t) /\ None \notin Turns
  BY TurnIs
<1>6. /\ session' \in Sessions /\ OneActive' /\ session'.turns[t] = now
      /\ \A u \in Turns \ {t} : session'.turns[u] = session.turns[u]
  BY <1>2, <1>4, SessionMoves DEF Before
<1>7. /\ reservation' = [reservation EXCEPT ![t].status = "pending"] /\ UNCHANGED <<invoked, turnAudit>>
      /\ delivery' = [delivery EXCEPT ![e] = [at |-> "awaiting", turn |-> t, answer |-> None]]
  BY DEF Attempt
<1>8. /\ reservation' \in [Turns -> RecordRow] /\ reservation'[t].status = "pending"
      /\ \A u \in Turns \ {t} : reservation'[u] = reservation[u]
  BY <1>7, Reserved
<1>9. PICK d \in RequestRow : d = [at |-> "awaiting", turn |-> t, answer |-> None]
  BY DEF RequestRow
<1>10. delivery \in [Deliveries -> RequestRow] /\ invoked \in [Turns -> Nat] /\ turnAudit \in [Turns -> Seq(TrailRow)]
  BY DEF PhoneInv, PhoneTyped
<1>11. turnAudit[t] = <<>> /\ invoked[t] = 0 /\ \A f \in Deliveries : ~Runs(f, t)
  BY <1>2, <1>5 DEF TurnHolds, Fresh
<1>12. /\ delivery' \in [Deliveries -> RequestRow] /\ delivery'[e] = d /\ d.at = "awaiting" /\ d.turn = t
       /\ \A f \in Deliveries \ {e} : delivery'[f] = delivery[f]
  BY <1>7, <1>9, <1>10
<1>13. /\ \A f \in Deliveries : Runs(f, t)' => f = e
       /\ \A u \in Turns \ {t} : \A f \in Deliveries : /\ Runs(f, u)' <=> Runs(f, u)
                                                       /\ Runs(f, u) => delivery'[f] = delivery[f]
  BY <1>1, <1>11, <1>12 DEF Runs
<1>14. PhoneTyped'
  BY <1>6, <1>7, <1>8, <1>10, <1>12 DEF PhoneTyped
<1>15. TurnHolds(t)'
  <2>1. Fresh(t)' /\ Decided(t)' /\ Stored(t)'
    BY <1>3, <1>4, <1>6, <1>8, Moves, Pended DEF Fresh, Before, Decided, Stored, Decisions
  <2>2. UnderWay(t)'
    BY <1>3, <1>6, <1>7, <1>8, <1>11, <1>12, <1>13 DEF UnderWay
  <2>3. Trail(t)'
    BY <1>7, <1>11 DEF Trail
  <2>. QED  BY <2>1, <2>2, <2>3, <1>7, <1>11 DEF TurnHolds
<1>. QED  BY <1>2, <1>6, <1>7, <1>8, <1>13, <1>14, <1>15, StepOfTurn DEF Before

\* The one execution under way of its turn, with what it has not yet done.
LEMMA RunIs ==
    ASSUME PhoneInv, NEW e \in Deliveries, delivery[e].at \in {"awaiting", "returned"},
           NEW t, t = delivery[e].turn
    PROVE  /\ t \in Turns /\ TurnHolds(t) /\ Runs(e, t) /\ \A f \in Deliveries : Runs(f, t) => f = e
           /\ session.turns[t].state \notin Before
           /\ session.turns[t].decision = "attempt" /\ ~session.turns[t].correlated /\ session.turns[t].text = "absent"
           /\ turnAudit[t] = <<>> /\ reservation[t].status # "succeeded"
           /\ delivery[e].at = "awaiting" => invoked[t] = 0
           /\ delivery[e].at = "returned" /\ delivery[e].answer = "success" => invoked[t] = 1
<1>1. t \in Turns /\ Runs(e, t) /\ TurnHolds(t)
  BY ExecutionIs, TurnIs
<1>2. session.turns[t].text \in {"absent", "bounded"}
  BY <1>1, TurnIs DEF TurnRow
<1>3. Decided(t) /\ Fresh(t) /\ UnderWay(t)
  BY <1>1 DEF TurnHolds
<1>. QED  BY <1>1, <1>2, <1>3 DEF Decided, Fresh, UnderWay

LEMMA ToolAnswersStep == ASSUME PhoneInv, NEW e \in Deliveries, ToolAnswers(e) PROVE PhoneInv' /\ OverIsOver
<1>1. PICK t : t = delivery[e].turn
  OBVIOUS
<1>2. delivery[e].at = "awaiting" /\ UNCHANGED <<session, reservation, turnAudit>>
  BY DEF ToolAnswers
<1>3. /\ t \in Turns /\ TurnHolds(t) /\ Runs(e, t) /\ \A f \in Deliveries : Runs(f, t) => f = e
      /\ session.turns[t].state \notin Before
      /\ session.turns[t].decision = "attempt" /\ ~session.turns[t].correlated
      /\ turnAudit[t] = <<>> /\ reservation[t].status # "succeeded" /\ invoked[t] = 0
  BY <1>1, <1>2, RunIs
<1>4. PICK word \in {"denied", "error", "success"} :
         /\ delivery' = [delivery EXCEPT ![e].at = "returned", ![e].answer = word]
         /\ invoked' = [invoked EXCEPT ![t] = @ + (IF word = "denied" THEN 0 ELSE 1)]
  BY <1>1 DEF ToolAnswers
<1>5. PICK n \in {0, 1} : n = IF word = "denied" THEN 0 ELSE 1
  OBVIOUS
<1>6. delivery \in [Deliveries -> RequestRow] /\ invoked \in [Turns -> Nat]
  BY DEF PhoneInv, PhoneTyped
<1>7. invoked' \in [Turns -> Nat] /\ invoked'[t] = n /\ \A u \in Turns \ {t} : invoked'[u] = invoked[u]
  BY <1>3, <1>4, <1>5, <1>6
<1>8. PICK was \in RequestRow : was = delivery[e]
  BY <1>6
<1>9. PICK d : d = [was EXCEPT !.at = "returned", !.answer = word]
  OBVIOUS
<1>10. d \in RequestRow /\ d.at = "returned" /\ d.answer = word /\ d.turn = t
  BY <1>1, <1>3, <1>8, <1>9 DEF RequestRow
<1>11. delivery' = [delivery EXCEPT ![e] = d]
  BY <1>4, <1>6, <1>8, <1>9
<1>12. /\ delivery' \in [Deliveries -> RequestRow] /\ delivery'[e] = d
       /\ \A f \in Deliveries \ {e} : delivery'[f] = delivery[f]
  BY <1>6, <1>10, <1>11
<1>13. /\ \A f \in Deliveries : Runs(f, t)' => f = e
       /\ \A u \in Turns \ {t} : \A f \in Deliveries : /\ Runs(f, u)' <=> Runs(f, u)
                                                       /\ Runs(f, u) => delivery'[f] = delivery[f]
  BY <1>1, <1>3, <1>10, <1>12 DEF Runs
<1>14. PhoneTyped' /\ OneActive'
  BY <1>2, <1>7, <1>12, SameSession DEF PhoneInv, PhoneTyped
<1>15. TurnHolds(t)'
  <2>1. Fresh(t)' /\ Decided(t)' /\ Stored(t)' /\ Trail(t)'
    BY <1>2, <1>3 DEF TurnHolds, Fresh, Decided, Stored, Trail
  <2>2. UnderWay(t)'
    BY <1>2, <1>3, <1>5, <1>7, <1>10, <1>12, <1>13 DEF UnderWay
  <2>. QED  BY <2>1, <2>2, <1>5, <1>7 DEF TurnHolds
<1>. QED  BY <1>2, <1>3, <1>7, <1>13, <1>14, <1>15, StepOfTurn DEF Before

\* The last writes of a run, of which the process may have lived to do none.
LEMMA Finishes ==
    ASSUME PhoneInv, NEW t \in Turns, turnAudit[t] = <<>>, NEW s, NEW now \in TurnRow, now = s.turns[t],
           NEW status \in {"failed", "succeeded"}, NEW word \in {"denied", "failed", "succeeded"},
           Finish(t, s, status, word)
    PROVE  /\ reservation' \in [Turns -> RecordRow] /\ \A u \in Turns \ {t} : reservation'[u] = reservation[u]
           /\ \/ reservation'[t] = reservation[t]
              \/ reservation'[t].status = status /\ reservation'[t].decision = now.decision
           /\ turnAudit' \in [Turns -> Seq(TrailRow)] /\ \A u \in Turns \ {t} : turnAudit'[u] = turnAudit[u]
           /\ \/ turnAudit'[t] = <<>>
              \/ \E rec \in TrailRow : /\ turnAudit'[t] = <<rec>> /\ rec.action = word
                                       /\ (rec.correlated <=> now.correlated)
<1>1. PICK rec : rec = [action |-> word, decision |-> now.decision, correlated |-> now.correlated]
  OBVIOUS
<1>2. rec \in TrailRow /\ rec.action = word /\ (rec.correlated <=> now.correlated)
  BY <1>1 DEF TrailRow, TurnRow
<1>3. rec = AuditOf(s, t, word)
  BY <1>1 DEF AuditOf
<1>4. PICK row : row = [status |-> status, decision |-> now.decision]
  OBVIOUS
<1>5. row \in RecordRow /\ row.status = status /\ row.decision = now.decision
  BY <1>4 DEF RecordRow, TurnRow
<1>6. reservation \in [Turns -> RecordRow] /\ turnAudit \in [Turns -> Seq(TrailRow)]
  BY DEF PhoneInv, PhoneTyped
<1>7. UNCHANGED reservation \/ reservation' = [reservation EXCEPT ![t] = row]
  BY <1>4 DEF Finish
<1>8. UNCHANGED turnAudit \/ turnAudit' = [turnAudit EXCEPT ![t] = <<rec>>]
  <2>1. UNCHANGED turnAudit \/ turnAudit' = [turnAudit EXCEPT ![t] = Append(@, rec)]
    BY <1>3 DEF Finish
  <2>2. Append(turnAudit[t], rec) = <<rec>>
    OBVIOUS
  <2>. QED  BY <2>1, <2>2
<1>9. /\ reservation' \in [Turns -> RecordRow] /\ \A u \in Turns \ {t} : reservation'[u] = reservation[u]
      /\ reservation'[t] = reservation[t] \/ reservation'[t] = row
  BY <1>5, <1>6, <1>7
<1>10. <<rec>> \in Seq(TrailRow)
  BY <1>2
<1>11. /\ turnAudit' \in [Turns -> Seq(TrailRow)] /\ \A u \in Turns \ {t} : turnAudit'[u] = turnAudit[u]
       /\ turnAudit'[t] = <<>> \/ turnAudit'[t] = <<rec>>
  BY <1>6, <1>8, <1>10
<1>. QED  BY <1>2, <1>5, <1>9, <1>11

LEMMA ResumeStep ==
    ASSUME PhoneInv, NEW e \in Deliveries, ResumeFailed(e) \/ ResumeSucceeded(e) PROVE PhoneInv' /\ OverIsOver
<1>1. PICK t : t = delivery[e].turn
  OBVIOUS
<1>2. delivery[e].at = "returned"
  BY DEF ResumeFailed, ResumeSucceeded
<1>3. /\ t \in Turns /\ TurnHolds(t) /\ Runs(e, t) /\ \A f \in Deliveries : Runs(f, t) => f = e
      /\ session.turns[t].state \notin Before
      /\ session.turns[t].decision = "attempt" /\ ~session.turns[t].correlated /\ session.turns[t].text = "absent"
      /\ turnAudit[t] = <<>> /\ reservation[t].status # "succeeded"
      /\ delivery[e].answer = "success" => invoked[t] = 1
  BY <1>1, <1>2, RunIs
<1>4. PICK was \in TurnRow : was = session.turns[t]
  BY <1>3, TurnIs
<1>5. PICK row \in TurnRow : row = [was EXCEPT !.state = "completed"]
  BY <1>4 DEF TurnRow
<1>6. row.state = "completed" /\ row.decision = "attempt" /\ row.text = "absent" /\ ~row.correlated
  BY <1>3, <1>4, <1>5 DEF TurnRow
<1>7. /\ session \in Sessions /\ session.turns \in [Turns -> TurnRow] /\ None \notin Turns
      /\ (was.state \notin {"unborn", "completed"} <=> session.active = t)
  BY <1>3, <1>4, TurnIs
<1>8. PICK act : act = IF t = session.active THEN None ELSE session.active
  OBVIOUS
<1>9. Transition(session, t, "completed") = [turns |-> [session.turns EXCEPT ![t] = row], active |-> act]
  <2>1. row = [session.turns[t] EXCEPT !.state = "completed"]
    BY <1>4, <1>5
  <2>2. Transition(session, t, "completed") =
          [turns |-> [session.turns EXCEPT ![t] = row],
           active |-> IF t = session.active /\ "completed" = "completed" THEN None ELSE session.active]
    BY ONLY <1>3, <1>7, <2>1, Transitioned
  <2>. QED  BY <2>2, <1>8
<1>10. PICK word \in {"denied", "error", "success"} : word = delivery[e].answer /\ Answered(e, t, word)
  BY <1>1 DEF ResumeFailed, ResumeSucceeded
<1>11. PICK now \in TurnRow : /\ now.state = "completed" /\ now.decision = "attempt" /\ now.text = "absent"
                              /\ (now.correlated <=> word = "success")
                              /\ now = IF word = "success" THEN [row EXCEPT !.correlated = TRUE] ELSE row
  BY <1>6 DEF TurnRow
<1>12. session' = [turns |-> [session.turns EXCEPT ![t] = now], active |-> act]
  <2>1. CASE word = "success"
    <3>1. PICK s : s = [turns |-> [session.turns EXCEPT ![t] = row], active |-> act]
      OBVIOUS
    <3>2. session' = [s EXCEPT !.turns[t].correlated = TRUE]
      BY <2>1, <3>1, <1>1, <1>9, <1>10 DEF ResumeFailed, ResumeSucceeded
    <3>3. session' = [turns |-> [[session.turns EXCEPT ![t] = row] EXCEPT ![t].correlated = TRUE], active |-> act]
      BY <3>1, <3>2
    <3>4. [[session.turns EXCEPT ![t] = row] EXCEPT ![t].correlated = TRUE] = [session.turns EXCEPT ![t] = now]
      BY <2>1, <1>3, <1>7, <1>11
    <3>. QED  BY <3>3, <3>4
  <2>2. CASE word # "success"
    BY <2>2, <1>1, <1>9, <1>10, <1>11 DEF ResumeFailed, ResumeSucceeded
  <2>. QED  BY <2>1, <2>2
<1>13. act \in Turns \cup {None}
  BY <1>7, <1>8 DEF Sessions
<1>14. \/ act = session.active /\ was.state \in {"unborn", "completed"}
       \/ act = None /\ session.active = t
  BY <1>7, <1>8
<1>15. /\ session' \in Sessions /\ OneActive' /\ session'.turns[t] = now
       /\ \A u \in Turns \ {t} : session'.turns[u] = session.turns[u]
  BY <1>3, <1>4, <1>11, <1>12, <1>13, <1>14, SessionMoves
<1>16. PICK status \in {"failed", "succeeded"}, says \in {"denied", "failed", "succeeded"} :
          /\ Finish(t, session', status, says)
          /\ status = "succeeded" <=> word = "success"
          /\ says = "succeeded" <=> word = "success"
  BY <1>1, <1>10 DEF ResumeFailed, ResumeSucceeded
<1>17. /\ reservation' \in [Turns -> RecordRow] /\ \A u \in Turns \ {t} : reservation'[u] = reservation[u]
       /\ \/ reservation'[t] = reservation[t]
          \/ reservation'[t].status = status /\ reservation'[t].decision = now.decision
       /\ turnAudit' \in [Turns -> Seq(TrailRow)] /\ \A u \in Turns \ {t} : turnAudit'[u] = turnAudit[u]
       /\ \/ turnAudit'[t] = <<>>
          \/ \E rec \in TrailRow : /\ turnAudit'[t] = <<rec>> /\ rec.action = says
                                   /\ (rec.correlated <=> now.correlated)
  <2>1. now = session'.turns[t]
    BY <1>15
  <2>. QED  BY <1>3, <1>16, <2>1, Finishes
<1>18. UNCHANGED invoked
  BY DEF ResumeFailed, ResumeSucceeded
<1>19. /\ delivery' \in [Deliveries -> RequestRow]
       /\ \A f \in Deliveries : ~Runs(f, t)'
       /\ \A u \in Turns \ {t} : \A f \in Deliveries : /\ Runs(f, u)' <=> Runs(f, u)
                                                       /\ Runs(f, u) => delivery'[f] = delivery[f]
  <2>1. /\ word \in {"refused", "declined", "in progress", "success", "denied", "error"}
        /\ delivery[e].at = "idle" \/ delivery[e].turn = t
    BY <1>1, <1>10
  <2>2. /\ delivery' \in [Deliveries -> RequestRow]
        /\ \A f \in Deliveries : Runs(f, t)' <=> Runs(f, t) /\ f # e
        /\ \A u \in Turns \ {t} : \A f \in Deliveries : /\ Runs(f, u)' <=> Runs(f, u)
                                                        /\ Runs(f, u) => delivery'[f] = delivery[f]
    <3>1. t \in Turns /\ Answered(e, t, word)
      BY <1>3, <1>10
    <3>. QED  BY ONLY PhoneInv, e \in Deliveries, <2>1, <3>1, AnswersAtOnce
  <2>. QED  BY <1>3, <2>2
<1>20. was.state = "completed" => session'.turns[t] = session.turns[t]
  <2>1. CASE word = "success"
    BY <2>1, <1>1, <1>7, <1>10 DEF ResumeFailed, ResumeSucceeded, MayCorrelate
  <2>2. CASE word # "success" /\ was.state = "completed"
    BY <2>2, <1>4, <1>5, <1>11, <1>15 DEF TurnRow
  <2>. QED  BY <2>1, <2>2
<1>21. PhoneTyped'
  BY <1>15, <1>17, <1>18, <1>19 DEF PhoneInv, PhoneTyped
<1>22. TurnHolds(t)'
  <2>1. Fresh(t)' /\ Decided(t)'
    BY <1>11, <1>15, Moves DEF Fresh, Before, Decided
  <2>2. UnderWay(t)'
    BY <1>19 DEF UnderWay
  <2>3. Stored(t)'
    BY <1>3, <1>10, <1>11, <1>15, <1>16, <1>17, <1>18 DEF Stored
  <2>4. Trail(t)'
    <3>1. CASE turnAudit'[t] = <<>>
      BY <3>1 DEF Trail
    <3>2. ASSUME NEW rec \in TrailRow, turnAudit'[t] = <<rec>>, rec.action = says, rec.correlated <=> now.correlated
          PROVE  Trail(t)'
      BY <3>2, <1>11, <1>16 DEF Trail
    <3>. QED  BY <3>1, <3>2, <1>17
  <2>5. invoked'[t] <= 1
    BY <1>3, <1>18 DEF TurnHolds
  <2>. QED  BY <2>1, <2>2, <2>3, <2>4, <2>5 DEF TurnHolds
<1>. QED  BY <1>3, <1>4, <1>15, <1>17, <1>18, <1>19, <1>20, <1>21, <1>22, StepOfTurn DEF Before

LEMMA PhoneStart == PhoneInit => PhoneInv
<1> SUFFICES ASSUME PhoneInit PROVE PhoneInv
  OBVIOUS
<1>1. PICK row \in TurnRow : /\ row = [state |-> "unborn", decision |-> None, text |-> "absent", correlated |-> FALSE]
                             /\ row.state = "unborn" /\ row.decision = None /\ row.text = "absent" /\ ~row.correlated
  <2>1. PICK row : row = [state |-> "unborn", decision |-> None, text |-> "absent", correlated |-> FALSE]
    OBVIOUS
  <2>2. row \in TurnRow /\ row.state = "unborn" /\ row.decision = None /\ row.text = "absent" /\ ~row.correlated
    BY <2>1 DEF TurnRow, Before
  <2>. QED  BY <2>1, <2>2
<1>2. session = [turns |-> [t \in Turns |-> row], active |-> None]
  BY <1>1 DEF PhoneInit
<1>3. session \in Sessions /\ session.active = None /\ \A t \in Turns : session.turns[t] = row
  BY <1>2 DEF Sessions
<1>4. reservation \in [Turns -> RecordRow] /\ \A t \in Turns : reservation[t].status = None
  BY DEF PhoneInit, RecordRow
<1>5. PICK d \in RequestRow : d = [at |-> "idle", turn |-> None, answer |-> None] /\ d.at = "idle"
  <2>1. PICK d : d = [at |-> "idle", turn |-> None, answer |-> None]
    OBVIOUS
  <2>2. d \in RequestRow /\ d.at = "idle"
    BY <2>1 DEF RequestRow
  <2>. QED  BY <2>1, <2>2
<1>6. delivery = [e \in Deliveries |-> d]
  BY <1>5 DEF PhoneInit
<1>7. invoked \in [Turns -> Nat] /\ turnAudit \in [Turns -> Seq(TrailRow)]
      /\ \A t \in Turns : invoked[t] = 0 /\ turnAudit[t] = <<>>
  BY DEF PhoneInit
<1>8. delivery \in [Deliveries -> RequestRow] /\ \A e \in Deliveries : delivery[e].at = "idle"
  BY <1>5, <1>6
<1>9. PhoneTyped
  BY <1>3, <1>4, <1>7, <1>8 DEF PhoneTyped
<1>10. OneActive
  BY <1>1, <1>3, PhoneAssumption DEF OneActive
<1>11. Started = {}
  BY <1>1, <1>3 DEF Started
<1>12. IsFiniteSet(Started) /\ Cardinality(Started) <= MaxTurns
  BY <1>11, FS_EmptySet, PhoneAssumption
<1>13. ASSUME NEW t \in Turns PROVE TurnHolds(t)
  <2>1. \A e \in Deliveries : ~Runs(e, t)
    BY <1>8 DEF Runs
  <2>. QED
    BY <2>1, <1>1, <1>3, <1>4, <1>7, Moves
       DEF TurnHolds, Fresh, Decided, UnderWay, Stored, Trail, None
<1>. QED  BY <1>9, <1>10, <1>12, <1>13 DEF PhoneInv

LEMMA PhoneStep == PhoneInv /\ [PhoneNext]_phoneVars => PhoneInv' /\ OverIsOver
<1> SUFFICES ASSUME PhoneInv, [PhoneNext]_phoneVars PROVE PhoneInv' /\ OverIsOver
  OBVIOUS
<1>1. ASSUME NEW t \in Turns, StartTurn(t) PROVE PhoneInv' /\ OverIsOver
  BY <1>1, StartStep
<1>2. ASSUME NEW t \in Turns, NEW target \in {"interpreted", "decided", "completed"}, Mark(t, target)
      PROVE  PhoneInv' /\ OverIsOver
  BY <1>2, MarkStep
<1>3. ASSUME NEW t \in Turns, NEW c \in Completions, ApplyDecision(t, c) PROVE PhoneInv' /\ OverIsOver
  BY <1>3, ApplyStep
<1>4. ASSUME NEW t \in Turns, PendingExpires(t) PROVE PhoneInv' /\ OverIsOver
  BY <1>4, ExpireStep
<1>5. ASSUME NEW t \in Turns, NEW e \in Deliveries, PrepareRefused(e, t) \/ StillInProgress(e, t) \/ Replay(e, t)
      PROVE  PhoneInv' /\ OverIsOver
  BY <1>5, AnsweredStep
<1>6. ASSUME NEW t \in Turns, NEW e \in Deliveries, NotAllowlisted(e, t) \/ DeclineUnauthorized(e, t)
      PROVE  PhoneInv' /\ OverIsOver
  BY <1>6, DeclineStep
<1>7. ASSUME NEW t \in Turns, NEW e \in Deliveries, Attempt(e, t) PROVE PhoneInv' /\ OverIsOver
  BY <1>7, AttemptStep
<1>8. ASSUME NEW e \in Deliveries, ToolAnswers(e) PROVE PhoneInv' /\ OverIsOver
  BY <1>8, ToolAnswersStep
<1>9. ASSUME NEW e \in Deliveries, ResumeFailed(e) \/ ResumeSucceeded(e) PROVE PhoneInv' /\ OverIsOver
  BY <1>9, ResumeStep
<1>10. ASSUME NEW e \in Deliveries, ResumeRefused(e) PROVE PhoneInv' /\ OverIsOver
  BY <1>10, RefusedStep
<1>11. CASE EnsurePhoneSafePermissions \/ PermissionTakenAway \/ ProcessDies \/ UNCHANGED phoneVars
  BY <1>11, AroundStep
<1>. QED
  BY <1>1, <1>2, <1>3, <1>4, <1>5, <1>6, <1>7, <1>8, <1>9, <1>10, <1>11 DEF PhoneNext

LEMMA PhoneHolds ==
    PhoneInv => PhoneTypeOK /\ OneTurnUnderWay /\ InvokedOncePerTurn /\ StoredAnswerIsTheTurns /\ AuditedOnce
<1> SUFFICES ASSUME PhoneInv
    PROVE PhoneTypeOK /\ OneTurnUnderWay /\ InvokedOncePerTurn /\ StoredAnswerIsTheTurns /\ AuditedOnce
  OBVIOUS
<1>1. PhoneTypeOK
  <2>1. session.active \in Turns \cup {None} /\ Cardinality(Started) <= MaxTurns
    BY DEF PhoneInv, PhoneTyped, Sessions
  <2>2. ASSUME NEW t \in Turns
        PROVE  LET now == session.turns[t] IN
               /\ now.state \in {"unborn", "completed", "received", "interpreted", "decided"} \cup PendingStates
               /\ now.state \in PendingStates => now.decision \in Decisions /\ now.state = PendingState[now.decision]
               /\ now.decision \in {"clarify", "decline"} <=> now.text = "bounded"
               /\ now.text \in {"absent", "bounded"}
               /\ reservation[t].status \in {None, "pending", "stale", "failed", "succeeded"}
    BY TurnIs DEF TurnHolds, Decided, TurnRow, RecordRow, Before
  <2>. QED  BY <2>1, <2>2 DEF PhoneTypeOK
<1>2. OneTurnUnderWay
  BY DEF PhoneInv, OneActive, OneTurnUnderWay, Started
<1>3. InvokedOncePerTurn
  BY TurnIs DEF TurnHolds, InvokedOncePerTurn
<1>4. StoredAnswerIsTheTurns
  <2>1. ASSUME NEW t \in Turns, reservation[t].status = "succeeded"
        PROVE  /\ session.turns[t] = [state |-> "completed", decision |-> "attempt", text |-> "absent", correlated |-> TRUE]
               /\ reservation[t].decision = "attempt" /\ invoked[t] = 1
    <3>1. TurnHolds(t) /\ session.turns[t] \in TurnRow
      BY TurnIs
    <3>. QED  BY <2>1, <3>1 DEF TurnHolds, Stored, TurnRow
  <2>. QED  BY <2>1 DEF StoredAnswerIsTheTurns
<1>5. AuditedOnce
  <2>1. ASSUME NEW t \in Turns, NEW i \in 1..Len(turnAudit[t])
        PROVE  (turnAudit[t][i].action = "succeeded") = turnAudit[t][i].correlated
    <3>1. PICK rec \in TrailRow : rec = turnAudit[t][i]
      BY TurnIs
    <3>2. rec.action = "succeeded" <=> rec.correlated
      BY <3>1, TurnIs DEF TurnHolds, Trail
    <3>3. rec.correlated \in BOOLEAN
      BY DEF TrailRow
    <3>. QED  BY <3>1, <3>2, <3>3
  <2>. QED  BY <2>1, TurnIs DEF TurnHolds, Trail, AuditedOnce
<1>. QED  BY <1>1, <1>2, <1>3, <1>4, <1>5

\* Whatever is delivered late, twice or out of order, one turn is under way, the
\* tool runs once for it, its stored answer is its own and what is over stays.
THEOREM TurnsAnsweredOnceHolds == PhoneSpec => TurnsAnsweredOnce
<1>1. PhoneInv /\ [PhoneNext]_phoneVars => [OverIsOver]_phoneVars
  BY PhoneStep
<1>. QED
  BY <1>1, PhoneStart, PhoneStep, PhoneHolds, PTL DEF PhoneSpec, TurnsAnsweredOnce
=============================================================================
