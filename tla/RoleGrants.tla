----------------------------- MODULE RoleGrants -----------------------------
(***************************************************************************)
(* What the roles of a tenant may do: the permissions each product module  *)
(* asks its callers for (require() in its permissions.py, and the actions  *)
(* its services name there) and those its event handler grants the owner   *)
(* and the member role when agency.role_provisioned is published           *)
(* (_OWNER_GRANTS and _MEMBER_GRANTS in its event_handlers.py).            *)
(***************************************************************************)
EXTENDS Naturals, Sequences

On(resource, actions) == {<<resource, a>> : a \in actions}

Write == {"create", "read", "update"}
Full == Write \cup {"delete"}

-----------------------------------------------------------------------------
(* What is asked for.                                                      *)

AccountingAsks ==
  On("accounting.account", Write)
    \cup On("accounting.period", {"create", "read", "manage"})
    \cup On("accounting.journal", Write \cup {"void", "post", "reverse"})
    \cup On("accounting.invoice", Write \cup {"void", "post", "cancel"})
    \cup On("accounting.bill", Write \cup {"void", "post", "cancel"})
    \cup On("accounting.payment", {"create", "allocate", "reverse_allocation", "read"})
    \cup On("accounting.credit_note", {"create", "void", "post", "read"})
    \cup On("accounting.banking", {"create", "read", "reconcile"})

AiAsks == On("ai.policy", {"read", "manage"})

AppointmentsAsks ==
  On("appointments.calendar", Full) \cup On("appointments.appointment", {"read", "update"})

ApprovalsAsks == On("approvals.approval", {"read", "decide", "execute"})

AutomationAsks ==
  On("automation.workflow", Full)
    \cup On("automation.durable_workflow", Write \cup {"execute", "cancel", "signal"})

BillingAsks ==
  On("billing.resale_plan", Write \cup {"deactivate"})
    \cup On("billing.subscription", Write \cup {"cancel"})
    \cup On("billing.account", {"read", "charge"})
    \cup On("billing.catalog", {"manage"})

ConversationsAsks ==
  On("conversations.thread", Full) \cup On("conversations.message_template", Full)

CrmAsks ==
  On("crm.contact", Full) \cup On("crm.company", Full) \cup On("crm.opportunity", Full)
    \cup On("crm.pipeline", {"create", "read"})
    \cup On("crm.custom_field_definition", {"create", "read"})
    \cup On("crm.tag", {"create", "read"})

MarketingAsks ==
  On("marketing.campaign", Full)
    \cup On("marketing.suppression", {"create", "read", "delete"})
    \cup On("marketing.form", {"create", "read", "delete"})
    \cup On("marketing.template", Full)

ReputationAsks ==
  On("reputation.review_request", {"create", "read", "cancel"})
    \cup On("reputation.review", {"create", "read", "respond"})

TelephonyAsks ==
  On("telephony.phone_number", Full)
    \cup On("telephony.call", {"create", "read"})
    \cup On("telephony.call_recording", {"create", "read"})
    \cup On("telephony.human_destination", {"read", "update"})

TemplatesAsks == On("templates.snapshot", {"create", "read", "apply"})

WebsitesAsks == On("websites.website", Full)

-----------------------------------------------------------------------------
(* What is granted.                                                        *)

AccountingGrants ==
  [owner |-> AccountingAsks,
   member |-> AccountingAsks \
     {<<"accounting.period", "manage">>, <<"accounting.journal", "reverse">>,
      <<"accounting.invoice", "cancel">>, <<"accounting.bill", "post">>,
      <<"accounting.bill", "cancel">>, <<"accounting.payment", "reverse_allocation">>}]

AiGrants == [owner |-> AiAsks, member |-> On("ai.policy", {"read"})]

AppointmentsGrants ==
  [owner |-> On("appointments.calendar", Full) \cup On("appointments.appointment", Full),
   member |-> On("appointments.calendar", Write) \cup On("appointments.appointment", Write)]

ApprovalsGrants == [owner |-> ApprovalsAsks, member |-> On("approvals.approval", {"read"})]

AutomationGrants ==
  [owner |-> AutomationAsks \cup On("automation.durable_workflow", {"delete"}),
   member |-> AutomationAsks \ On("automation.workflow", {"delete"})]

BillingGrants ==
  [owner |-> BillingAsks \cup On("billing.catalog", {"read"}),
   member |-> On("billing.resale_plan", {"read"}) \cup On("billing.subscription", Write)
                \cup On("billing.account", {"read", "charge"})]

ConversationsGrants ==
  [owner |-> ConversationsAsks,
   member |-> On("conversations.thread", Write)
                \cup On("conversations.message_template", {"read"})]

\* Mutant: the member may keep the tenant's tags and fields, which nobody granted its owner.
CrmGrantsTags ==
  [owner |-> CrmAsks \cup On("crm.pipeline", Full),
   member |-> On("crm.contact", Write) \cup On("crm.company", Write)
                \cup On("crm.opportunity", Write) \cup On("crm.pipeline", {"read"})
                \cup On("crm.custom_field_definition", {"read", "update"})
                \cup On("crm.tag", {"read", "delete"})]

CrmGrants ==
  [owner |-> CrmAsks \cup On("crm.pipeline", Full),
   member |-> On("crm.contact", Write) \cup On("crm.company", Write)
                \cup On("crm.opportunity", Write) \cup On("crm.pipeline", {"read"})
                \cup On("crm.custom_field_definition", {"read"}) \cup On("crm.tag", {"read"})]

MarketingGrants ==
  [owner |-> MarketingAsks \cup On("marketing.form", {"update"}),
   member |-> On("marketing.campaign", Write) \cup On("marketing.suppression", {"create", "read"})
                \cup On("marketing.form", Write) \cup On("marketing.template", Write)]

ReputationGrants ==
  [owner |-> ReputationAsks,
   member |-> ReputationAsks \ On("reputation.review_request", {"cancel"})]

TelephonyGrants ==
  [owner |-> On("telephony.phone_number", Full) \cup On("telephony.call", Full)
               \cup On("telephony.call_recording", Full)
               \cup On("telephony.human_destination", {"read", "update"}),
   member |-> On("telephony.phone_number", Write) \cup On("telephony.call", Write)]

TemplatesGrants ==
  [owner |-> TemplatesAsks, member |-> On("templates.snapshot", {"create", "read"})]

WebsitesGrants ==
  [owner |-> WebsitesAsks, member |-> On("websites.website", Write)]

-----------------------------------------------------------------------------
\* The handlers product/api/main.py imports, in the order they are called in.
Wired ==
  <<"accounting", "ai", "appointments", "approvals", "automation", "conversations",
    "crm", "marketing", "telephony", "templates", "websites">>

\* The handlers it does not import.
Unwired == {"billing", "reputation"}

Asked ==
  [accounting |-> AccountingAsks, ai |-> AiAsks, appointments |-> AppointmentsAsks,
   approvals |-> ApprovalsAsks, automation |-> AutomationAsks, billing |-> BillingAsks,
   conversations |-> ConversationsAsks, crm |-> CrmAsks, marketing |-> MarketingAsks,
   reputation |-> ReputationAsks, telephony |-> TelephonyAsks,
   templates |-> TemplatesAsks, websites |-> WebsitesAsks]

Grants ==
  [accounting |-> AccountingGrants, ai |-> AiGrants, appointments |-> AppointmentsGrants,
   approvals |-> ApprovalsGrants, automation |-> AutomationGrants, billing |-> BillingGrants,
   conversations |-> ConversationsGrants, crm |-> CrmGrants, marketing |-> MarketingGrants,
   reputation |-> ReputationGrants, telephony |-> TelephonyGrants,
   templates |-> TemplatesGrants, websites |-> WebsitesGrants]

\* What ensure_agency_owner_role() grants itself.
CoreGrants ==
  On("invitation", {"create", "revoke"}) \cup On("membership_role", {"create"})
    \cup On("delegation_grant", {"create", "revoke"}) \cup On("deny_grant", {"create", "revoke"})
    \cup On("support_access_request", {"approve", "deny", "revoke"})
    \cup On("agency.client", {"create", "read"})
=============================================================================
