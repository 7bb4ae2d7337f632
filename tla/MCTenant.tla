------------------------------ MODULE MCTenant ------------------------------
(***************************************************************************)
(* What surrounds a tenant's daily work, for TLC: the schema its data is   *)
(* stored in, its erasure, its back office, its telephones and the tools   *)
(* of its assistants.  They share no state that one of them waits for, so  *)
(* a behaviour follows one of them.                                        *)
(***************************************************************************)
EXTENDS DeclaredModels, TenantPurge, BillsAndCredits, Banking, PhoneSession, PhoneDesk,
        AgentActions

CONSTANTS member, owner, reading, writing, plain, vendor, other

VARIABLE focus

erasureVars == <<migrationVars, purgeVars>>
backOfficeVars == <<booksVars, bankVars>>
phonesVars == <<phoneVars, deskVars>>
servedVars == <<phonesVars, agentVars>>
allVars == <<erasureVars, backOfficeVars, servedVars, focus>>

MCInit ==
  /\ focus \in {"migrations", "purge", "bills", "notes", "bank", "phone", "lines", "dials", "tapes",
               "tools", "approvals"}
  /\ MigrationsInit
  /\ IF focus = "purge" THEN PurgeInit
     ELSE /\ purgeRows = {} /\ purgeLinks = {} /\ purgeStatus = "purging" /\ purgeTodo = {}
          /\ purgeOrder = TRUE /\ purgeFailure = "none" /\ execution = "none"
  /\ BooksInit
  /\ BankInit
  /\ IF focus = "phone" THEN PhoneInit ELSE PhoneInit /\ ~granted
  /\ DeskInit
  /\ AgentsInit
  /\ focus # "bank" => \A d \in Documents : document[d].total = 1

\* The owner lets both tools out to one vendor, throws the kill switch, takes it
\* back; the member may lose the permission.
Policies ==
  \/ \E on \in BOOLEAN : SetPolicy(on, {reading, writing}, {vendor})
  \/ LosePermission(member)

\* A member calls the tool that runs at once with either vendor, or proposes one
\* of the others; the owner proposes one and cannot approve it.
Calls ==
  \E c \in Callers :
    \/ /\ focus = "tools"
       /\ \E v \in Providers :
            Decide(c, "caller", reading, member, v) \/ QualifyLead(c, reading, member, v)
    \/ /\ focus = "approvals"
       /\ \/ Decide(c, "caller", writing, owner, vendor)
          \/ \E t \in TierGated : Decide(c, "caller", t, member, vendor)

AgentSteps == AgentsNext \/ Policies \/ Calls

MCNext ==
  \/ focus = "migrations" /\ MigrationsNext
       /\ UNCHANGED <<purgeVars, backOfficeVars, servedVars, focus>>
  \/ focus = "purge" /\ PurgeNext
       /\ UNCHANGED <<migrationVars, backOfficeVars, servedVars, focus>>
  \/ focus = "bills" /\ BillsNext
       /\ UNCHANGED <<erasureVars, bankVars, servedVars, focus>>
  \/ focus = "notes" /\ NotesNext
       /\ UNCHANGED <<erasureVars, bankVars, servedVars, focus>>
  \/ focus = "bank" /\ BankNext
       /\ UNCHANGED <<erasureVars, booksVars, servedVars, focus>>
  \/ focus = "phone" /\ PhoneNext
       /\ UNCHANGED <<erasureVars, backOfficeVars, deskVars, agentVars, focus>>
  \/ focus = "lines" /\ LinesNext
       /\ UNCHANGED <<erasureVars, backOfficeVars, phoneVars, agentVars, focus>>
  \/ focus = "dials" /\ DialsNext
       /\ UNCHANGED <<erasureVars, backOfficeVars, phoneVars, agentVars, focus>>
  \/ focus = "tapes" /\ TapesNext
       /\ UNCHANGED <<erasureVars, backOfficeVars, phoneVars, agentVars, focus>>
  \/ focus \in {"tools", "approvals"} /\ AgentSteps
       /\ UNCHANGED <<erasureVars, backOfficeVars, phonesVars, focus>>

MCSpec == MCInit /\ [][MCNext]_allVars

Symmetry ==
  Permutations(Banks) \cup Permutations(Statements) \cup Permutations(Inflows)
    \cup Permutations(Tellers)
=============================================================================
