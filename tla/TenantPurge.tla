---------------------------- MODULE TenantPurge -----------------------------
(***************************************************************************)
(* The erasure of a tenant: core.tenancy.purge_tenant() calls the purge    *)
(* participants that src/product/api/main.py registers, one transaction    *)
(* each, and marks the tenant purged when none of them raised.             *)
(*                                                                         *)
(* A participant deletes table by table, in an order of its own, and the   *)
(* foreign keys of TenantSchema cascade, clear or refuse.  No one of them  *)
(* knows the others: the registry promises no order (crm/purge.py), rows   *)
(* of one module refer to rows of another, and the books are kept.         *)
(*                                                                         *)
(* A table holds one row of the tenant or none; a row's references are     *)
(* those that are not nullable and the optional ones in purgeLinks.        *)
(***************************************************************************)
EXTENDS TenantSchema, FiniteSets, SequencesExt

VARIABLES
  purgeRows,     \* the tables that hold a row of the tenant
  purgeLinks,    \* the optional references its rows hold
  purgeStatus,   \* "purging", "running" a purge, "purged"
  purgeTodo,     \* the participants the purge under way has not called
  purgeOrder,    \* whether the registry keeps the order of registration
  purgeFailure,  \* the participant that raised in the last purge, or "none"
  execution      \* the Temporal execution of its active durable run

purgeVars == <<purgeRows, purgeLinks, purgeStatus, purgeTodo,
               purgeOrder, purgeFailure, execution>>

-----------------------------------------------------------------------------
(* The participants.  A scoped one reads under the tenant's row level      *)
(* security; an unscoped one filters by tenant_id in a plain session, to   *)
(* which a table with a policy shows no row at all.                        *)

Scoped(name, order) == [name |-> name, scoped |-> TRUE, order |-> order]

Plain(name, order) == [name |-> name, scoped |-> FALSE, order |-> order]

FoundationPurge == Scoped("foundation.tenant_settings", <<"tenant_settings">>)

BrandingPurge == Scoped("white_label.tenant_branding", <<"tenant_branding">>)

DomainsPurge == Plain("white_label.tenant_domains", <<"tenant_domains">>)

\* Mutant: the crm's purge forgets the import jobs.
CrmPurgeNoJobs ==
  Scoped("crm.*", <<"tasks", "notes", "custom_field_values", "entity_tags",
    "opportunities", "contacts", "pipeline_stages", "companies", "pipelines",
    "custom_field_definitions", "tags">>)

\* Mutant: the crm's purge deletes the contacts before the opportunities.
CrmPurgeContactsFirst ==
  Scoped("crm.*", <<"tasks", "notes", "custom_field_values", "entity_tags", "import_jobs",
    "contacts", "opportunities", "pipeline_stages", "companies", "pipelines",
    "custom_field_definitions", "tags">>)

CrmPurge ==
  Scoped("crm.*", <<"tasks", "notes", "custom_field_values", "entity_tags", "import_jobs",
    "opportunities", "contacts", "pipeline_stages", "companies", "pipelines",
    "custom_field_definitions", "tags">>)

ConversationsPurge ==
  Scoped("conversations.*", <<"messages", "threads", "message_templates">>)

MarketingPurge ==
  Scoped("marketing.*", <<"campaign_recipients", "suppressions", "form_submissions",
    "campaigns", "templates">>)

MarketingUnscopedPurge ==
  Plain("marketing.unscoped", <<"recipient_tracking_tokens", "forms">>)

AppointmentsPurge ==
  Scoped("appointments.*", <<"calendar_events", "appointments", "availability_rules",
    "calendars">>)

AppointmentsUnscopedPurge ==
  Plain("appointments.unscoped", <<"appointment_manage_tokens", "booking_links">>)

TelephonyPurge ==
  Scoped("telephony.*", <<"call_recordings", "call_events", "calls",
    "phone_number_routing_targets">>)

TelephonyUnscopedPurge == Plain("telephony.unscoped", <<"phone_numbers">>)

AutomationPurge ==
  Scoped("automation.*", <<"workflow_runs", "workflows", "durable_run_steps", "durable_runs",
    "durable_workflow_versions", "durable_workflows">>)

AiPurge == Scoped("ai.*", <<"tenant_policies">>)

WebsitesPurge == Scoped("websites.*", <<"lead_submissions", "pages">>)

WebsitesUnscopedPurge == Plain("websites.unscoped", <<"websites">>)

TemplatesPurge == Scoped("templates.*", <<"snapshots">>)

\* A deliberate no-op: the books are kept.
AccountingPurge == Scoped("accounting.*", <<>>)

\* Written, and registered nowhere.
BillingPurge == Scoped("billing.*", <<"resale_plans">>)

ReputationPurge ==
  Scoped("reputation.*", <<"review_responses", "reviews", "review_requests">>)

\* create_app() registers them in this order.
Registered ==
  <<FoundationPurge, BrandingPurge, DomainsPurge, CrmPurge, ConversationsPurge,
    MarketingPurge, MarketingUnscopedPurge, AppointmentsPurge, AppointmentsUnscopedPurge,
    TelephonyPurge, TelephonyUnscopedPurge, AutomationPurge, AiPurge, WebsitesPurge,
    WebsitesUnscopedPurge, TemplatesPurge, AccountingPurge>>

-----------------------------------------------------------------------------
(* What a DELETE does, by the rules of the foreign keys.                   *)

InUse(rows, links) == {f \in Refs : f.child \in rows /\ (f.optional => f \in links)}

\* The tables whose rows go with t's row: cascades reach at most four levels.
Gone(t, used) ==
  LET cascades == {f \in used : f.rule = "cascade"}
      reach[n \in 0 .. 4] ==
        IF n = 0 THEN {t}
        ELSE LET near == reach[n - 1]
             IN near \cup {f.child : f \in {g \in cascades : g.parent \in near}}
  IN reach[4]

\* DELETE of t's row, in a transaction d that nothing has failed yet.
DeleteRow(d, t) ==
  LET used == InUse(d.rows, d.links)
      gone == Gone(t, used)
      left == {f \in used : f.parent \in gone /\ f.child \notin gone}
  IN IF ~d.ok \/ t \notin d.rows THEN d
     ELSE IF \E f \in left : f.rule \in {"restrict", "nullKey"} THEN [d EXCEPT !.ok = FALSE]
     ELSE [d EXCEPT !.rows = @ \ gone,
                    !.links = {f \in @ \ left : f.child \notin gone}]

\* The tables of a participant whose rows its session shows it.
Shown(p) == SelectSeq(p.order, LAMBDA t : p.scoped \/ t \in Unscoped)

PurgeTenantData(p) ==
  FoldLeft(DeleteRow, [rows |-> purgeRows, links |-> purgeLinks, ok |-> TRUE], Shown(p))

\* The automation participant terminates the recorded executions of the active
\* runs first, and raises when one is already closed or cannot be reached.
HasRecordedRun == "durable_runs" \in purgeRows /\ execution \in {"running", "closed"}

-----------------------------------------------------------------------------
(* The tenants to erase: the rows one reference needs, for every reference, *)
(* or, in the order of registration only, one in every table outside the   *)
(* books.                                                                  *)

Needed(tables) ==
  LET required == {f \in Refs : ~f.optional}
      reach[n \in 0 .. 5] ==
        IF n = 0 THEN tables
        ELSE LET near == reach[n - 1]
             IN near \cup {f.parent : f \in {g \in required : g.child \in near}}
  IN reach[5]

OneReference(f) == [rows |-> Needed({f.child, f.parent}), links |-> {f} \cap {g \in Refs : g.optional}]

\* A row of these belongs to exactly one of contact, company and opportunity.
OneOwner == {"tasks", "notes", "custom_field_values", "entity_tags"}

EveryTable ==
  LET rows == Tables \ TablesOf("accounting")
  IN [rows  |-> rows,
      links |-> {f \in Refs : /\ f.optional /\ f.child \in rows
                              /\ f.child \in OneOwner => f.parent = "contacts"
                              /\ f.child = "reviews" => f.rule # "nullKey"}]

Tenants == {OneReference(f) : f \in Refs} \cup {EveryTable}

PurgeInit ==
  /\ \E t \in Tenants :
       /\ purgeRows = t.rows
       /\ purgeLinks = t.links
       /\ execution \in IF "durable_runs" \in t.rows
                        THEN {"none", "running", "unrecorded", "closed"} ELSE {"none"}
       /\ purgeOrder \in IF t = EveryTable THEN {TRUE} ELSE BOOLEAN
  /\ purgeStatus = "purging"
  /\ purgeTodo = {}
  /\ purgeFailure = "none"

PurgeTypeOK ==
  /\ purgeRows \subseteq Tables
  /\ purgeLinks \subseteq InUse(purgeRows, Refs)
  /\ purgeStatus \in {"purging", "running", "purged"}
  /\ purgeTodo \subseteq DOMAIN Registered
  /\ execution \in {"none", "running", "unrecorded", "closed"}

-----------------------------------------------------------------------------
BeginPurge ==
  /\ purgeStatus = "purging"
  /\ purgeStatus' = "running"
  /\ purgeTodo' = DOMAIN Registered
  /\ purgeFailure' = "none"
  /\ UNCHANGED <<purgeRows, purgeLinks, purgeOrder, execution>>

\* A participant that finds no row does nothing, so only the others are called.
Pending ==
  {i \in purgeTodo : \E t \in purgeRows : Contains(Shown(Registered[i]), t)}

Called(i) ==
  /\ purgeStatus = "running"
  /\ i \in Pending
  /\ purgeOrder => \A j \in Pending : i <= j

Succeeds(i) ==
  LET d == PurgeTenantData(Registered[i])
  IN /\ Called(i)
     /\ d.ok
     /\ Registered[i] = AutomationPurge /\ HasRecordedRun => execution = "running"
     /\ purgeRows' = d.rows
     /\ purgeLinks' = d.links
     /\ execution' = IF Registered[i] = AutomationPurge /\ HasRecordedRun THEN "none" ELSE execution
     /\ purgeTodo' = purgeTodo \ {i}
     /\ UNCHANGED <<purgeStatus, purgeOrder, purgeFailure>>

\* The transaction is rolled back; what other participants deleted stays so.
Raises(i) ==
  /\ Called(i)
  /\ \/ ~PurgeTenantData(Registered[i]).ok
     \/ Registered[i] = AutomationPurge /\ HasRecordedRun
  /\ purgeFailure' = Registered[i].name
  /\ purgeStatus' = "purging"
  /\ purgeTodo' = {}
  /\ UNCHANGED <<purgeRows, purgeLinks, purgeOrder, execution>>

FinishPurge ==
  /\ purgeStatus = "running"
  /\ Pending = {}
  /\ purgeStatus' = "purged"
  /\ purgeTodo' = {}
  /\ UNCHANGED <<purgeRows, purgeLinks, purgeOrder, purgeFailure, execution>>

CrashPurge ==
  /\ purgeStatus = "running"
  /\ purgeStatus' = "purging"
  /\ purgeTodo' = {}
  /\ UNCHANGED <<purgeRows, purgeLinks, purgeOrder, purgeFailure, execution>>

PurgeNext ==
  \/ BeginPurge \/ FinishPurge \/ CrashPurge
  \/ \E i \in DOMAIN Registered : Succeeds(i) \/ Raises(i)

-----------------------------------------------------------------------------
\* What no registered participant deletes, besides the books.
Overlooked ==
  UNION {ToSet(p.order) : p \in {BillingPurge, ReputationPurge}} \cup {"human_transfer_destinations"}

Books == TablesOf("accounting")

\* A purged tenant has no row left in the tables the participants answer for,
\* whatever order they were called in, failed in or crashed in.
PurgedIsErased ==
  purgeStatus = "purged" => purgeRows \subseteq Books \cup Overlooked

\* No row of the books is ever deleted, not even by a cascade that starts in
\* another module's table (accounting/purge.py).
BooksKept == purgeRows' \cap Books = purgeRows \cap Books

\* A contact the books refer to, and a review tied to a request for it, whose
\* bare SET NULL the cascade from the contact reaches.
KeepsContact ==
  \/ \E f \in InUse(purgeRows, purgeLinks) : f.parent = "contacts" /\ f.child \in Books
  \/ \E f \in purgeLinks : f.child = "reviews"

\* A participant raises only for these: the other rows of a tenant never keep
\* it from being erased, in any order of the participants but one.
RaisesOnlyFor ==
  CASE purgeFailure = "none" -> TRUE
    [] purgeFailure = "crm.*" -> KeepsContact
    [] purgeFailure = "automation.*" -> HasRecordedRun
    [] purgeFailure = "telephony.unscoped" -> ~purgeOrder
    [] OTHER -> FALSE

\* A tenant marked purged has no recorded execution still running for it.
NoRecordedExecutionOutlives == purgeStatus = "purged" => execution # "running"

\* purge.py:8 of telephony: the participant covers every telephony table that
\* is under row level security.
TelephonyIsErased ==
  purgeStatus = "purged" => purgeRows \cap TablesOf("telephony") = {}

\* However a tenant's erasure fails and is repeated, one recorded as done left
\* nothing behind, the books stay, and a participant raises only for what really
\* keeps a row (crm/purge.py and the other participants).
PurgeErases ==
    /\ [](/\ PurgeTypeOK
          /\ PurgedIsErased
          /\ RaisesOnlyFor
          /\ NoRecordedExecutionOutlives)
    /\ [][BooksKept]_purgeVars
=============================================================================
