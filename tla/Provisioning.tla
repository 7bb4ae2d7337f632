---------------------------- MODULE Provisioning ----------------------------
(***************************************************************************)
(* How tenants come to be and who may act in them: agencies and their      *)
(* clients (product/agency/provisioning.py), the invitation of a client's  *)
(* members (onboarding.py), the roles (roles.py, with the modules'         *)
(* handlers of agency.role_provisioned), the configuration a client starts *)
(* with (product/templates/snapshots.py) and the place of an agency under  *)
(* the platform's tenant (product/platform/provisioning.py).               *)
(*                                                                         *)
(* Every step is a transaction of its own and the process may die between  *)
(* two.  publish() calls the handlers one after the other: the first that  *)
(* raises ends it and the operation, and what the handlers before it       *)
(* granted stays.  A handler that fails midway counts as one that granted  *)
(* nothing.  What core.tenancy, core.rbac, core.identity and               *)
(* core.idempotency do is modelled from these calls.                       *)
(***************************************************************************)
EXTENDS RoleGrants, FiniteSets

CONSTANTS
  Agencies, Clients,
  Invitations,   \* each sent and accepted once
  Invitees,      \* the users they are for
  Pipelines,     \* how many pipelines a snapshot holds
  Attaches       \* calls of attach_agency_to_platform()

ASSUME TenantsAssumption ==
  /\ Agencies \cap Clients = {} /\ Pipelines \in Nat
  /\ {"root", "platform", "absent", "none"} \cap (Agencies \cup Clients) = {}

VARIABLES
  released,      \* the release that wires the two handlers left out has been deployed
  tree,          \* the tenants' tree; "absent" before a tenant is created
  handled,       \* the handlers that granted their permissions to the tenant's role
  founding,      \* where the provisioning of an agency is
  setup,         \* where the provisioning of a client is
  invitation,    \* the invitations and their acceptance
  assigned,      \* the members of clients that have their role
  attach,        \* the calls that attach an agency
  attachment     \* per agency, the idempotency record and the audit records

foundingVars == <<released, handled, founding, setup, invitation, assigned>>
attachVars == <<attach, attachment>>
provisionVars == <<foundingVars, tree, attachVars>>

Platform == "platform"
Root == "root"
Existing == {t \in Agencies \cup Clients : tree[t] # "absent"}

-----------------------------------------------------------------------------
(* publish() of agency.role_provisioned and what the roles then hold.      *)

Handlers ==
  IF released
  THEN <<"accounting", "ai", "appointments", "approvals", "automation", "billing",
         "conversations", "crm", "marketing", "reputation", "telephony", "templates",
         "websites">>
  ELSE Wired

\* The first k handlers ran; all of them, unless one raised.
GrantedBy(k) == {Handlers[i] : i \in 1..k}

OwnerPermissions(a) == CoreGrants \cup UNION {Grants[m].owner : m \in handled[a]}
MemberPermissions(c) == UNION {Grants[m].member : m \in handled[c]}

OwnerMay(a, permission) == founding[a] = "done" /\ permission \in OwnerPermissions(a)

Release ==
  /\ ~released /\ released' = TRUE
  /\ UNCHANGED <<tree, handled, founding, setup, invitation, assigned, attachVars>>

-----------------------------------------------------------------------------
(* provision_agency(): tenant, activation, role and grants, membership,    *)
(* and the role's assignment last.                                         *)

CreateAgency(a) ==
  /\ founding[a] = "idle"
  /\ tree' = [tree EXCEPT ![a] = Root]
  /\ founding' = [founding EXCEPT ![a] = "created"]
  /\ UNCHANGED <<released, handled, setup, invitation, assigned, attachVars>>

ActivateAgency(a) ==
  /\ founding[a] = "created" /\ founding' = [founding EXCEPT ![a] = "active"]
  /\ UNCHANGED <<released, tree, handled, setup, invitation, assigned, attachVars>>

EnsureAgencyOwnerRole(a) ==
  /\ founding[a] = "active"
  /\ \E k \in 0..Len(Handlers) :
       /\ handled' = [handled EXCEPT ![a] = @ \cup GrantedBy(k)]
       /\ founding' = [founding EXCEPT ![a] = IF k = Len(Handlers) THEN "role" ELSE "failed"]
  /\ UNCHANGED <<released, tree, setup, invitation, assigned, attachVars>>

AddFounder(a) ==
  /\ founding[a] = "role" /\ founding' = [founding EXCEPT ![a] = "member"]
  /\ UNCHANGED <<released, tree, handled, setup, invitation, assigned, attachVars>>

AssignFirstRole(a) ==
  /\ founding[a] = "member" /\ founding' = [founding EXCEPT ![a] = "done"]
  /\ UNCHANGED <<released, tree, handled, setup, invitation, assigned, attachVars>>

FoundingDies(a) ==
  /\ founding[a] \in {"created", "active", "role", "member"}
  /\ founding' = [founding EXCEPT ![a] = "dead"]
  /\ UNCHANGED <<released, tree, handled, setup, invitation, assigned, attachVars>>

-----------------------------------------------------------------------------
(* provision_client(): tenant, activation, the snapshot's pipelines one by *)
(* one (apply_snapshot()), agency.client_provisioned.                      *)

CreateClient(c, a) ==
  /\ setup[c].at = "idle" /\ OwnerMay(a, <<"agency.client", "create">>)
  /\ tree' = [tree EXCEPT ![c] = a]
  /\ \E snapshot \in BOOLEAN :
       setup' = [setup EXCEPT ![c] = [at |-> "created", snapshot |-> snapshot,
                                      copied |-> 0, event |-> FALSE]]
  /\ UNCHANGED <<released, handled, founding, invitation, assigned, attachVars>>

ActivateClient(c) ==
  /\ setup[c].at = "created"
  /\ setup' = [setup EXCEPT ![c].at = "active"]
  /\ UNCHANGED <<released, tree, handled, founding, invitation, assigned, attachVars>>

\* The agency's owner may read its snapshots and apply them.
MayApply(c) ==
  OwnerMay(tree[c], <<"templates.snapshot", "read">>)
    /\ OwnerMay(tree[c], <<"templates.snapshot", "apply">>)
    /\ OwnerMay(tree[c], <<"crm.pipeline", "create">>)

CopyPipeline(c) ==
  /\ setup[c].at = "active" /\ setup[c].snapshot /\ setup[c].copied < Pipelines
  /\ MayApply(c)
  /\ setup' = [setup EXCEPT ![c].copied = @ + 1]
  /\ UNCHANGED <<released, tree, handled, founding, invitation, assigned, attachVars>>

\* ClientProvisioningSetupFailedError: the client stays, with what was copied.
SetupFails(c) ==
  /\ setup[c].at = "active" /\ setup[c].snapshot /\ setup[c].copied < Pipelines
  /\ setup' = [setup EXCEPT ![c].at = "setup failed"]
  /\ UNCHANGED <<released, tree, handled, founding, invitation, assigned, attachVars>>

PublishClient(c) ==
  /\ setup[c].at = "active"
  /\ setup[c].snapshot => setup[c].copied = Pipelines
  /\ setup' = [setup EXCEPT ![c].at = "done", ![c].event = TRUE]
  /\ UNCHANGED <<released, tree, handled, founding, invitation, assigned, attachVars>>

SetupDies(c) ==
  /\ setup[c].at \in {"created", "active"}
  /\ setup' = [setup EXCEPT ![c].at = "dead"]
  /\ UNCHANGED <<released, tree, handled, founding, invitation, assigned, attachVars>>

-----------------------------------------------------------------------------
(* onboarding.py: the agency's owner invites, the invitee's acceptance     *)
(* consumes the token and makes the membership, publishes the role and     *)
(* assigns it in the inviter's name.                                       *)

InviteClientMember(i, c, u) ==
  /\ invitation[i].at = "idle" /\ tree[c] \in Agencies
  /\ OwnerMay(tree[c], <<"invitation", "create">>)
  /\ invitation' = [invitation EXCEPT ![i] = [at |-> "sent", client |-> c, user |-> u]]
  /\ UNCHANGED <<released, tree, handled, founding, setup, assigned, attachVars>>

AcceptInvitation(i) ==
  /\ invitation[i].at = "sent"
  /\ invitation' = [invitation EXCEPT ![i].at = "joined"]
  /\ UNCHANGED <<released, tree, handled, founding, setup, assigned, attachVars>>

\* Mutant: a failed handler is taken for a warning.
EnsureClientMemberRoleAnyway(i) ==
  LET c == invitation[i].client IN
  /\ invitation[i].at = "joined"
  /\ \E k \in 0..Len(Handlers) :
       /\ handled' = [handled EXCEPT ![c] = @ \cup GrantedBy(k)]
       /\ invitation' = [invitation EXCEPT ![i].at = "role"]
  /\ UNCHANGED <<released, tree, founding, setup, assigned, attachVars>>

EnsureClientMemberRole(i) ==
  LET c == invitation[i].client IN
  /\ invitation[i].at = "joined"
  /\ \E k \in 0..Len(Handlers) :
       /\ handled' = [handled EXCEPT ![c] = @ \cup GrantedBy(k)]
       /\ invitation' = [invitation EXCEPT ![i].at = IF k = Len(Handlers) THEN "role"
                                                     ELSE "failed"]
  /\ UNCHANGED <<released, tree, founding, setup, assigned, attachVars>>

\* Nobody assigns a role that holds what they do not hold: core.rbac.assign_role().
MayAssign(c) ==
  /\ OwnerMay(tree[c], <<"membership_role", "create">>)
  /\ MemberPermissions(c) \subseteq OwnerPermissions(tree[c])

\* A role the member already has is no error.
AssignStartingClientRole(i) ==
  LET r == invitation[i] IN
  /\ r.at = "role"
  /\ invitation' = [invitation EXCEPT ![i].at = IF MayAssign(r.client) THEN "done" ELSE "refused"]
  /\ assigned' = IF MayAssign(r.client) THEN assigned \cup {<<r.user, r.client>>} ELSE assigned
  /\ UNCHANGED <<released, tree, handled, founding, setup, attachVars>>

AcceptanceDies(i) ==
  /\ invitation[i].at \in {"joined", "role"}
  /\ invitation' = [invitation EXCEPT ![i].at = "dead"]
  /\ UNCHANGED <<released, tree, handled, founding, setup, assigned, attachVars>>

FoundingNext ==
  \/ Release
  \/ \E a \in Agencies :
       \/ CreateAgency(a) \/ ActivateAgency(a) \/ EnsureAgencyOwnerRole(a)
       \/ AddFounder(a) \/ AssignFirstRole(a) \/ FoundingDies(a)
       \/ \E c \in Clients : CreateClient(c, a)
  \/ \E c \in Clients :
       \/ ActivateClient(c) \/ CopyPipeline(c) \/ SetupFails(c)
       \/ PublishClient(c) \/ SetupDies(c)
  \/ \E i \in Invitations :
       \/ \E c \in Clients, u \in Invitees : InviteClientMember(i, c, u)
       \/ AcceptInvitation(i) \/ EnsureClientMemberRole(i)
       \/ AssignStartingClientRole(i) \/ AcceptanceDies(i)

-----------------------------------------------------------------------------
(* attach_agency_to_platform().                                            *)

MayAttach(t) == t \in Existing /\ tree[t] \in {Root, Platform}

\* Mutant: a caller that finds the record pending records the attachment too.
ReserveAttachmentAgain(n, t) ==
  /\ attach[n].at = "idle" /\ MayAttach(t)
  /\ LET fresh == attachment[t].record # "succeeded" IN
     /\ attach' = [attach EXCEPT ![n] = [at |-> "reserved", tenant |-> t, fresh |-> fresh]]
     /\ attachment' = IF fresh THEN [attachment EXCEPT ![t].record = "pending"] ELSE attachment
  /\ UNCHANGED <<foundingVars, tree>>

\* A record that is pending refuses, and the caller goes on without it; one
\* that succeeded is replayed.
ReserveAttachment(n, t) ==
  /\ attach[n].at = "idle" /\ MayAttach(t)
  /\ LET fresh == attachment[t].record \in {"none", "failed", "stale"} IN
     /\ attach' = [attach EXCEPT ![n] = [at |-> "reserved", tenant |-> t, fresh |-> fresh]]
     /\ attachment' = IF fresh THEN [attachment EXCEPT ![t].record = "pending"] ELSE attachment
  /\ UNCHANGED <<foundingVars, tree>>

MoveTenant(n) ==
  /\ attach[n].at = "reserved"
  /\ tree' = [tree EXCEPT ![attach[n].tenant] = Platform]
  /\ attach' = [attach EXCEPT ![n].at = IF attach[n].fresh THEN "moved" ELSE "done"]
  /\ UNCHANGED <<foundingVars, attachment>>

MoveFails(n) ==
  /\ attach[n].at = "reserved"
  /\ attach' = [attach EXCEPT ![n].at = "failed"]
  /\ attachment' = IF attach[n].fresh
                   THEN [attachment EXCEPT ![attach[n].tenant].record = "failed"] ELSE attachment
  /\ UNCHANGED <<foundingVars, tree>>

FinalizeAttachment(n) ==
  /\ attach[n].at = "moved"
  /\ attach' = [attach EXCEPT ![n].at = "finalized"]
  /\ attachment' = [attachment EXCEPT ![attach[n].tenant].record = "succeeded"]
  /\ UNCHANGED <<foundingVars, tree>>

RecordAttachment(n) ==
  /\ attach[n].at = "finalized"
  /\ attach' = [attach EXCEPT ![n].at = "done"]
  /\ attachment' = [attachment EXCEPT ![attach[n].tenant].audits = @ + 1]
  /\ UNCHANGED <<foundingVars, tree>>

AttachDies(n) ==
  /\ attach[n].at \in {"reserved", "moved", "finalized"}
  /\ attach' = [attach EXCEPT ![n].at = "dead"]
  /\ UNCHANGED <<foundingVars, tree, attachment>>

\* A record that has been pending for longer than its time to live.
ReservationExpires(t) ==
  /\ attachment[t].record = "pending"
  /\ attachment' = [attachment EXCEPT ![t].record = "stale", ![t].expired = TRUE]
  /\ UNCHANGED <<foundingVars, tree, attach>>

AttachNext ==
  \/ \E n \in Attaches :
       \/ \E t \in Agencies \cup Clients : ReserveAttachment(n, t)
       \/ MoveTenant(n) \/ MoveFails(n) \/ FinalizeAttachment(n)
       \/ RecordAttachment(n) \/ AttachDies(n)
  \/ \E t \in Agencies \cup Clients : ReservationExpires(t)

-----------------------------------------------------------------------------
\* `peopled`: the agencies and their clients exist already.
ProvisionInit(peopled) ==
  /\ released = FALSE
  /\ tree = [t \in Agencies \cup Clients |->
                 IF ~peopled THEN "absent" ELSE IF t \in Agencies THEN Root
                 ELSE CHOOSE a \in Agencies : TRUE]
  /\ handled = [t \in Agencies \cup Clients |-> {}]
  /\ founding = [a \in Agencies |-> "idle"]
  /\ setup = [c \in Clients |-> [at |-> "idle", snapshot |-> FALSE, copied |-> 0, event |-> FALSE]]
  /\ invitation = [i \in Invitations |-> [at |-> "idle", client |-> "none", user |-> "none"]]
  /\ assigned = {}
  /\ attach = [n \in Attaches |-> [at |-> "idle", tenant |-> "none", fresh |-> FALSE]]
  /\ attachment = [t \in Agencies \cup Clients |-> [record |-> "none", audits |-> 0,
                                                    expired |-> FALSE]]

-----------------------------------------------------------------------------
(* Whoever founded an agency may do in it all that its modules ask for: no *)
(* handler that failed leaves an owner with half a role, and nothing is    *)
(* asked for that is granted to nobody.                                    *)
OwnerLacksNothing ==
  \A a \in Agencies :
    founding[a] = "done" =>
      UNION {Asked[Wired[i]] : i \in DOMAIN Wired} \subseteq OwnerPermissions(a)

(* A member who has the role has all of it.                                *)
MemberRoleIsWhole ==
  \A m \in assigned : {Wired[i] : i \in DOMAIN Wired} \subseteq handled[m[2]]

(* An acceptance that nothing interrupted gives the member the role.  It   *)
(* is refused, the token spent, only when the agency was founded before a  *)
(* release added a module whose permissions its owner never received.      *)
RefusedOnlyAcrossReleases ==
  \A i \in Invitations :
    LET r == invitation[i] IN
    /\ r.at = "done" => <<r.user, r.client>> \in assigned
    /\ r.at = "refused" =>
         released /\ \E m \in Unwired : m \in handled[r.client] \ handled[tree[r.client]]

(* A client is announced only with the whole configuration it was to have. *)
AnnouncedWithItsSetup ==
  \A c \in Clients :
    setup[c].event /\ setup[c].snapshot => setup[c].copied = Pipelines

(* An attachment is recorded once, unless its reservation ran out, however *)
(* many callers attach one agency at a time; and one that is recorded      *)
(* nowhere had a caller that died, failed or is still at work.             *)
AttachmentRecordedOnce ==
  \A t \in Agencies :
    /\ attachment[t].audits <= 1 \/ attachment[t].expired
    /\ tree[t] = Platform /\ attachment[t].audits = 0 =>
         \E n \in Attaches : attach[n].tenant = t /\ attach[n].fresh /\ attach[n].at # "done"

(* A client stays with the agency that provisioned it.                     *)
ClientsStay ==
  \A c \in Clients : tree[c] \in Agencies => tree'[c] = tree[c]

\* Whatever call failed half way, an owner lacks no permission and a member's role
\* is complete before it is assigned, refused only where the modules of the two
\* parties differ by a release; however attachments race and die, an agency's place
\* is recorded once for each reservation that completed; a client is announced with
\* its set-up done and never changes its agency (provisioning.py, onboarding.py,
\* platform/provisioning.py).
TenantsAreSetUp ==
    /\ [](/\ OwnerLacksNothing
          /\ MemberRoleIsWhole
          /\ RefusedOnlyAcrossReleases
          /\ AttachmentRecordedOnce
          /\ AnnouncedWithItsSetup)
    /\ [][ClientsStay]_provisionVars
=============================================================================
