--------------------------- MODULE DeclaredModels ---------------------------
(***************************************************************************)
(* What the application takes the schema to be: one definition for each    *)
(* class of the models.py files, with its table, whether it is keyed by    *)
(* (tenant_id, id), and the foreign keys and deletion rules it declares.   *)
(*                                                                         *)
(* Nothing derives one from the other: migrations/env.py gives alembic no  *)
(* target_metadata, so a revision is written by hand beside the class, and *)
(* the services count on the classes while the database enforces the       *)
(* revisions.                                                              *)
(***************************************************************************)
EXTENDS Migrations

Keyed(table, refs) == [table |-> table, keyed |-> TRUE, refs |-> refs]

Unkeyed(table, refs) == [table |-> table, keyed |-> FALSE, refs |-> refs]

OrmAccount == Keyed("accounts", {})

OrmPeriod == Keyed("periods", {})

OrmJournalEntry ==
  Keyed("journal_entries",
    {May("journal_entries", "periods", "restrict"),
     May("journal_entries", "journal_entries", "restrict")})

OrmJournalLine ==
  Keyed("journal_lines",
    {Needs("journal_lines", "journal_entries", "cascade"),
     Needs("journal_lines", "accounts", "restrict")})

OrmContactProfile ==
  Keyed("contact_profiles",
    {Needs("contact_profiles", "contacts", "restrict")})

OrmTaxCode ==
  Keyed("tax_codes",
    {Needs("tax_codes", "accounts", "restrict")})

OrmInvoice ==
  Keyed("invoices",
    {Needs("invoices", "contacts", "restrict"),
     Needs("invoices", "accounts", "restrict"),
     May("invoices", "periods", "restrict"),
     May("invoices", "journal_entries", "restrict")})

OrmInvoiceLine ==
  Keyed("invoice_lines",
    {Needs("invoice_lines", "invoices", "cascade"),
     Needs("invoice_lines", "accounts", "restrict"),
     May("invoice_lines", "tax_codes", "restrict")})

OrmCreditNote ==
  Keyed("credit_notes",
    {Needs("credit_notes", "invoices", "restrict"),
     May("credit_notes", "periods", "restrict"),
     May("credit_notes", "journal_entries", "restrict")})

OrmCreditNoteLine ==
  Keyed("credit_note_lines",
    {Needs("credit_note_lines", "credit_notes", "cascade"),
     Needs("credit_note_lines", "accounts", "restrict"),
     May("credit_note_lines", "tax_codes", "restrict")})

OrmBill ==
  Keyed("bills",
    {Needs("bills", "contacts", "restrict"),
     Needs("bills", "accounts", "restrict"),
     May("bills", "periods", "restrict"),
     May("bills", "journal_entries", "restrict")})

OrmBillLine ==
  Keyed("bill_lines",
    {Needs("bill_lines", "bills", "cascade"),
     Needs("bill_lines", "accounts", "restrict"),
     May("bill_lines", "tax_codes", "restrict")})

OrmPayment ==
  Keyed("payments",
    {Needs("payments", "contacts", "restrict")})

OrmPaymentAllocation ==
  Keyed("payment_allocations",
    {Needs("payment_allocations", "payments", "cascade"),
     May("payment_allocations", "payment_allocations", "restrict")})

OrmBankAccount ==
  Keyed("bank_accounts",
    {Needs("bank_accounts", "accounts", "restrict")})

OrmBankStatement ==
  Keyed("bank_statements",
    {Needs("bank_statements", "bank_accounts", "restrict")})

OrmBankStatementLine ==
  Keyed("bank_statement_lines",
    {Needs("bank_statement_lines", "bank_statements", "cascade"),
     Needs("bank_statement_lines", "bank_accounts", "restrict"),
     May("bank_statement_lines", "payments", "restrict"),
     May("bank_statement_lines", "accounts", "restrict"),
     May("bank_statement_lines", "journal_entries", "restrict")})

OrmTenantAIPolicy == Unkeyed("tenant_policies", {})

OrmCalendar == Keyed("calendars", {})

OrmAvailabilityRule ==
  Keyed("availability_rules",
    {Needs("availability_rules", "calendars", "cascade")})

OrmAppointment ==
  Keyed("appointments",
    {Needs("appointments", "calendars", "restrict"),
     May("appointments", "contacts", "nullLink")})

OrmCalendarEvent ==
  Keyed("calendar_events",
    {Needs("calendar_events", "calendars", "restrict"),
     May("calendar_events", "appointments", "nullLink")})

OrmBookingLink ==
  Unkeyed("booking_links",
    {Needs("booking_links", "calendars", "cascade")})

OrmAppointmentManageToken ==
  Unkeyed("appointment_manage_tokens",
    {Needs("appointment_manage_tokens", "appointments", "cascade")})

OrmDurableWorkflow == Keyed("durable_workflows", {})

OrmDurableWorkflowVersion ==
  Keyed("durable_workflow_versions",
    {Needs("durable_workflow_versions", "durable_workflows", "cascade")})

OrmDurableRun ==
  Keyed("durable_runs",
    {Needs("durable_runs", "durable_workflows", "cascade"),
     Needs("durable_runs", "durable_workflow_versions", "restrict")})

OrmDurableRunStep ==
  Keyed("durable_run_steps",
    {Needs("durable_run_steps", "durable_runs", "cascade")})

OrmWorkflow == Keyed("workflows", {})

OrmWorkflowRun ==
  Keyed("workflow_runs",
    {Needs("workflow_runs", "workflows", "cascade")})

OrmResalePlan == Unkeyed("resale_plans", {})

OrmConversationThread ==
  Keyed("threads",
    {May("threads", "contacts", "nullLink")})

OrmConversationMessage ==
  Keyed("messages",
    {Needs("messages", "threads", "cascade")})

OrmMessageTemplate == Keyed("message_templates", {})

OrmCompany == Keyed("companies", {})

\* Mutant: a contact outlives its company by a rule of its own.
OrmContactUnlinked ==
  Keyed("contacts",
    {May("contacts", "companies", "nullLink")})

OrmContact ==
  Keyed("contacts",
    {May("contacts", "companies", "nullKey")})

OrmPipeline == Keyed("pipelines", {})

OrmPipelineStage ==
  Keyed("pipeline_stages",
    {Needs("pipeline_stages", "pipelines", "restrict")})

OrmOpportunity ==
  Keyed("opportunities",
    {May("opportunities", "contacts", "nullKey"),
     May("opportunities", "companies", "nullKey"),
     Needs("opportunities", "pipelines", "restrict"),
     Needs("opportunities", "pipeline_stages", "restrict")})

OrmTask ==
  Keyed("tasks",
    {May("tasks", "contacts", "cascade"),
     May("tasks", "companies", "cascade"),
     May("tasks", "opportunities", "cascade")})

OrmNote ==
  Keyed("notes",
    {May("notes", "contacts", "cascade"),
     May("notes", "companies", "cascade"),
     May("notes", "opportunities", "cascade")})

OrmCustomFieldDefinition == Keyed("custom_field_definitions", {})

OrmCustomFieldValue ==
  Keyed("custom_field_values",
    {Needs("custom_field_values", "custom_field_definitions", "cascade"),
     May("custom_field_values", "contacts", "cascade"),
     May("custom_field_values", "companies", "cascade"),
     May("custom_field_values", "opportunities", "cascade")})

OrmTag == Keyed("tags", {})

OrmEntityTag ==
  Keyed("entity_tags",
    {Needs("entity_tags", "tags", "cascade"),
     May("entity_tags", "contacts", "cascade"),
     May("entity_tags", "companies", "cascade"),
     May("entity_tags", "opportunities", "cascade")})

OrmImportJob == Keyed("import_jobs", {})

OrmTenantSetting == Unkeyed("tenant_settings", {})

OrmMarketingCampaign ==
  Keyed("campaigns",
    {May("campaigns", "templates", "nullLink")})

OrmMarketingSuppression ==
  Keyed("suppressions",
    {Needs("suppressions", "contacts", "cascade")})

OrmMarketingCampaignRecipient ==
  Keyed("campaign_recipients",
    {Needs("campaign_recipients", "campaigns", "cascade"),
     May("campaign_recipients", "contacts", "nullLink")})

OrmMarketingForm == Keyed("forms", {})

OrmMarketingFormSubmission ==
  Keyed("form_submissions",
    {Needs("form_submissions", "forms", "cascade"),
     May("form_submissions", "contacts", "nullLink")})

OrmMarketingTemplate == Keyed("templates", {})

OrmMarketingRecipientTrackingToken ==
  Unkeyed("recipient_tracking_tokens",
    {Needs("recipient_tracking_tokens", "campaign_recipients", "cascade")})

OrmReviewRequest ==
  Keyed("review_requests",
    {Needs("review_requests", "contacts", "cascade")})

OrmReview ==
  Keyed("reviews",
    {May("reviews", "review_requests", "nullKey")})

OrmReviewResponse ==
  Keyed("review_responses",
    {Needs("review_responses", "reviews", "cascade")})

OrmPhoneNumber == Keyed("phone_numbers", {})

OrmPhoneNumberRoutingTarget ==
  Keyed("phone_number_routing_targets",
    {Needs("phone_number_routing_targets", "phone_numbers", "cascade")})

OrmCall ==
  Keyed("calls",
    {Needs("calls", "phone_numbers", "restrict"),
     May("calls", "contacts", "nullLink")})

OrmCallEvent ==
  Keyed("call_events",
    {Needs("call_events", "calls", "cascade")})

OrmCallRecording ==
  Keyed("call_recordings",
    {Needs("call_recordings", "calls", "cascade")})

OrmHumanTransferDestination == Keyed("human_transfer_destinations", {})

OrmSnapshot == Unkeyed("snapshots", {})

OrmWebsite == Keyed("websites", {})

OrmPage ==
  Keyed("pages",
    {Needs("pages", "websites", "cascade")})

OrmLeadSubmission ==
  Unkeyed("lead_submissions",
    {Needs("lead_submissions", "websites", "cascade"),
     Needs("lead_submissions", "pages", "cascade"),
     May("lead_submissions", "contacts", "nullLink")})

OrmTenantBranding == Unkeyed("tenant_branding", {})

OrmTenantDomain == Unkeyed("tenant_domains", {})

Declared ==
  {OrmAccount, OrmPeriod, OrmJournalEntry, OrmJournalLine,
   OrmContactProfile, OrmTaxCode, OrmInvoice, OrmInvoiceLine,
   OrmCreditNote, OrmCreditNoteLine, OrmBill, OrmBillLine,
   OrmPayment, OrmPaymentAllocation, OrmBankAccount, OrmBankStatement,
   OrmBankStatementLine, OrmTenantAIPolicy, OrmCalendar, OrmAvailabilityRule,
   OrmAppointment, OrmCalendarEvent, OrmBookingLink, OrmAppointmentManageToken,
   OrmDurableWorkflow, OrmDurableWorkflowVersion, OrmDurableRun, OrmDurableRunStep,
   OrmWorkflow, OrmWorkflowRun, OrmResalePlan, OrmConversationThread,
   OrmConversationMessage, OrmMessageTemplate, OrmCompany, OrmContact,
   OrmPipeline, OrmPipelineStage, OrmOpportunity, OrmTask,
   OrmNote, OrmCustomFieldDefinition, OrmCustomFieldValue, OrmTag,
   OrmEntityTag, OrmImportJob, OrmTenantSetting, OrmMarketingCampaign,
   OrmMarketingSuppression, OrmMarketingCampaignRecipient, OrmMarketingForm, OrmMarketingFormSubmission,
   OrmMarketingTemplate, OrmMarketingRecipientTrackingToken, OrmReviewRequest, OrmReview,
   OrmReviewResponse, OrmPhoneNumber, OrmPhoneNumberRoutingTarget, OrmCall,
   OrmCallEvent, OrmCallRecording, OrmHumanTransferDestination, OrmSnapshot,
   OrmWebsite, OrmPage, OrmLeadSubmission, OrmTenantBranding,
   OrmTenantDomain}

DeclaredTables == {d.table : d \in Declared}
DeclaredKeyed == {d.table : d \in {e \in Declared : e.keyed}}
DeclaredRefs == UNION {d.refs : d \in Declared}

-----------------------------------------------------------------------------
\* A database at the head of the chain, however it got there, holds exactly the
\* tables, keys and deletion rules that the classes of models.py declare.
ModelsMatchHead ==
  revision = Latest =>
    /\ catalog.tables = DeclaredTables
    /\ catalog.keyed = DeclaredKeyed
    /\ catalog.refs = DeclaredRefs

\* However commands of the migrations are interrupted and rows written meanwhile,
\* the catalog is that of its revision and admits the rows it holds, a downgrade
\* is refused by a transfer under way alone, and the head is what the classes of
\* models.py declare.
SchemaFits ==
    /\ [](/\ MigrationsTypeOK
          /\ CatalogIsItsRevision
          /\ RowsAdmitted
          /\ ModelsMatchHead)
    /\ [][OnlyTransfersRefuse]_migrationVars
=============================================================================
