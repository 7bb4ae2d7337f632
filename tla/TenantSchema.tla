---------------------------- MODULE TenantSchema ----------------------------
(***************************************************************************)
(* The product's database schema, revision by revision: one definition for *)
(* each file of src/product/migrations/versions, which form one chain.     *)
(*                                                                         *)
(* A revision adds tables to a schema, with the foreign keys between them  *)
(* and their deletion rules, a row level security policy unless the table  *)
(* is deliberately left unscoped, parts (columns, indexes) of tables that  *)
(* exist already, and values that the check on a call's status admits      *)
(* ("ringing" stands for the five it starts with).                         *)
(* Every product table also refers to core.tenants and has columns and     *)
(* indexes of its own: those never refuse a step and are left out.         *)
(*                                                                         *)
(* A foreign key is composite, over tenant_id and the reference itself.    *)
(* "restrict" is no ON DELETE clause; "nullLink" is ON DELETE SET NULL     *)
(* (column); "nullKey" is a bare ON DELETE SET NULL, which also clears     *)
(* tenant_id, a NOT NULL column, so that the deletion is refused.          *)
(***************************************************************************)
EXTENDS Integers, Sequences

Needs(child, parent, rule) ==
  [child |-> child, parent |-> parent, rule |-> rule, optional |-> FALSE]

May(child, parent, rule) ==
  [child |-> child, parent |-> parent, rule |-> rule, optional |-> TRUE]

\* A revision that adds nothing yet, in an existing schema or in one it opens.
In(schema) ==
  [in |-> schema, opens |-> FALSE, tables |-> <<>>, unscoped |-> {},
   unkeyed |-> {}, keys |-> {}, parts |-> {}, admits |-> {}, refs |-> {}]

Opens(schema) == [In(schema) EXCEPT !.opens = TRUE]

Rev0001 ==
  [Opens("foundation") EXCEPT !.tables = <<"tenant_settings">>,
    !.unkeyed = {"tenant_settings"}]

Rev0002 ==
  [Opens("white_label") EXCEPT !.tables = <<"tenant_branding">>,
    !.unkeyed = {"tenant_branding"}]

Rev0003 ==
  [In("white_label") EXCEPT !.tables = <<"tenant_domains">>,
    !.unscoped = {"tenant_domains"},
    !.unkeyed = {"tenant_domains"}]

Rev0004 ==
  [Opens("crm") EXCEPT !.tables = <<"companies">>]

Rev0005 ==
  [In("crm") EXCEPT !.tables = <<"contacts">>,
    !.refs = {May("contacts", "companies", "nullKey")}]

Rev0006 ==
  [In("crm") EXCEPT !.tables = <<"pipelines">>]

Rev0007 ==
  [In("crm") EXCEPT !.tables = <<"pipeline_stages">>,
    !.refs = {Needs("pipeline_stages", "pipelines", "restrict")}]

Rev0008 ==
  [In("crm") EXCEPT !.tables = <<"opportunities">>,
    !.refs = {May("opportunities", "contacts", "nullKey"),
              May("opportunities", "companies", "nullKey"),
              Needs("opportunities", "pipelines", "restrict"),
              Needs("opportunities", "pipeline_stages", "restrict")}]

Rev0009 ==
  [In("crm") EXCEPT !.tables = <<"tasks", "notes">>,
    !.refs = {May("tasks", "contacts", "cascade"),
              May("tasks", "companies", "cascade"),
              May("tasks", "opportunities", "cascade"),
              May("notes", "contacts", "cascade"),
              May("notes", "companies", "cascade"),
              May("notes", "opportunities", "cascade")}]

Rev0010 ==
  [In("crm") EXCEPT !.tables = <<"custom_field_definitions", "custom_field_values">>,
    !.refs = {Needs("custom_field_values", "custom_field_definitions", "cascade"),
              May("custom_field_values", "contacts", "cascade"),
              May("custom_field_values", "companies", "cascade"),
              May("custom_field_values", "opportunities", "cascade")}]

Rev0011 ==
  [In("crm") EXCEPT !.tables = <<"tags", "entity_tags">>,
    !.refs = {Needs("entity_tags", "tags", "cascade"),
              May("entity_tags", "contacts", "cascade"),
              May("entity_tags", "companies", "cascade"),
              May("entity_tags", "opportunities", "cascade")}]

Rev0012 ==
  [In("crm") EXCEPT !.tables = <<"import_jobs">>]

Rev0013 ==
  [Opens("conversations") EXCEPT !.tables = <<"threads">>,
    !.refs = {May("threads", "contacts", "nullLink")}]

Rev0014 ==
  [In("conversations") EXCEPT !.tables = <<"messages">>,
    !.refs = {Needs("messages", "threads", "cascade")}]

Rev0015 ==
  [In("conversations") EXCEPT !.tables = <<"message_templates">>]

Rev0016 ==
  [Opens("marketing") EXCEPT !.tables = <<"campaigns">>]

Rev0017 ==
  [In("marketing") EXCEPT !.tables = <<"suppressions">>,
    !.refs = {Needs("suppressions", "contacts", "cascade")}]

Rev0018 ==
  [In("marketing") EXCEPT !.tables = <<"campaign_recipients">>,
    !.refs = {Needs("campaign_recipients", "campaigns", "cascade"),
              May("campaign_recipients", "contacts", "nullLink")}]

Rev0019 ==
  [In("crm") EXCEPT !.parts = {"contacts.email_index"}]

Rev0020 ==
  [In("marketing") EXCEPT !.tables = <<"forms", "form_submissions">>,
    !.unscoped = {"forms"},
    !.refs = {Needs("form_submissions", "forms", "cascade"),
              May("form_submissions", "contacts", "nullLink")}]

Rev0021 ==
  [In("marketing") EXCEPT !.tables = <<"templates">>]

Rev0022 ==
  [In("marketing") EXCEPT !.parts = {"campaigns.template_id"},
    !.refs = {May("campaigns", "templates", "nullLink")}]

Rev0023 ==
  [In("marketing") EXCEPT !.tables = <<"recipient_tracking_tokens">>,
    !.unscoped = {"recipient_tracking_tokens"},
    !.unkeyed = {"recipient_tracking_tokens"},
    !.parts = {"campaigns.click_target_url", "campaign_recipients.opened_at", "campaign_recipients.clicked_at"},
    !.refs = {Needs("recipient_tracking_tokens", "campaign_recipients", "cascade")}]

Rev0024 ==
  [Opens("appointments") EXCEPT !.tables = <<"calendars">>]

Rev0025 ==
  [In("appointments") EXCEPT !.tables = <<"availability_rules">>,
    !.refs = {Needs("availability_rules", "calendars", "cascade")}]

Rev0026 ==
  [In("appointments") EXCEPT !.tables = <<"appointments">>,
    !.refs = {Needs("appointments", "calendars", "restrict"),
              May("appointments", "contacts", "nullLink")}]

Rev0027 ==
  [In("appointments") EXCEPT !.tables = <<"booking_links">>,
    !.unscoped = {"booking_links"},
    !.unkeyed = {"booking_links"},
    !.refs = {Needs("booking_links", "calendars", "cascade")}]

Rev0028 ==
  [In("appointments") EXCEPT !.tables = <<"appointment_manage_tokens">>,
    !.unscoped = {"appointment_manage_tokens"},
    !.unkeyed = {"appointment_manage_tokens"},
    !.refs = {Needs("appointment_manage_tokens", "appointments", "cascade")}]

Rev0029 ==
  [In("appointments") EXCEPT !.parts = {"appointments.reminder_sent_at"}]

Rev0030 ==
  [Opens("telephony") EXCEPT !.tables = <<"phone_numbers">>,
    !.unscoped = {"phone_numbers"}]

Rev0031 ==
  [In("telephony") EXCEPT !.tables = <<"phone_number_routing_targets">>,
    !.refs = {Needs("phone_number_routing_targets", "phone_numbers", "cascade")}]

Rev0032 ==
  [In("telephony") EXCEPT !.tables = <<"calls">>,
    !.admits = {"ringing"},
    !.refs = {Needs("calls", "phone_numbers", "restrict"),
              May("calls", "contacts", "nullLink")}]

Rev0033 ==
  [In("telephony") EXCEPT !.tables = <<"call_events">>,
    !.refs = {Needs("call_events", "calls", "cascade")}]

Rev0034 ==
  [In("telephony") EXCEPT !.tables = <<"call_recordings">>,
    !.refs = {Needs("call_recordings", "calls", "cascade")}]

Rev0035 ==
  [Opens("automation") EXCEPT !.tables = <<"workflows">>]

Rev0036 ==
  [In("automation") EXCEPT !.tables = <<"workflow_runs">>,
    !.refs = {Needs("workflow_runs", "workflows", "cascade")}]

Rev0037 ==
  [In("automation") EXCEPT !.tables = <<"durable_workflows">>]

Rev0038 ==
  [In("automation") EXCEPT !.tables = <<"durable_workflow_versions">>,
    !.refs = {Needs("durable_workflow_versions", "durable_workflows", "cascade")}]

Rev0039 ==
  [In("automation") EXCEPT !.tables = <<"durable_runs">>,
    !.refs = {Needs("durable_runs", "durable_workflows", "cascade"),
              Needs("durable_runs", "durable_workflow_versions", "restrict")}]

Rev0040 ==
  [In("automation") EXCEPT !.tables = <<"durable_run_steps">>,
    !.refs = {Needs("durable_run_steps", "durable_runs", "cascade")}]

Rev0041 ==
  [Opens("ai") EXCEPT !.tables = <<"tenant_policies">>,
    !.unkeyed = {"tenant_policies"}]

Rev0042 ==
  [Opens("websites") EXCEPT !.tables = <<"websites">>,
    !.unscoped = {"websites"}]

Rev0043 ==
  [In("websites") EXCEPT !.tables = <<"pages">>,
    !.unkeyed = {"pages"},
    !.refs = {Needs("pages", "websites", "cascade")}]

Rev0044 ==
  [Opens("reputation") EXCEPT !.tables = <<"review_requests">>,
    !.refs = {Needs("review_requests", "contacts", "cascade")}]

Rev0045 ==
  [In("reputation") EXCEPT !.tables = <<"reviews">>,
    !.refs = {May("reviews", "review_requests", "nullKey")}]

Rev0046 ==
  [In("reputation") EXCEPT !.tables = <<"review_responses">>,
    !.refs = {Needs("review_responses", "reviews", "cascade")}]

Rev0047 ==
  [Opens("billing") EXCEPT !.tables = <<"resale_plans">>,
    !.unkeyed = {"resale_plans"}]

Rev0048 ==
  [Opens("templates") EXCEPT !.tables = <<"snapshots">>,
    !.unkeyed = {"snapshots"}]

Rev0049 ==
  [In("crm") EXCEPT !.parts = {"opportunities.assigned_user_id"}]

Rev0050 ==
  [In("websites") EXCEPT !.tables = <<"lead_submissions">>,
    !.unkeyed = {"lead_submissions"},
    !.keys = {"pages"},
    !.refs = {Needs("lead_submissions", "websites", "cascade"),
              Needs("lead_submissions", "pages", "cascade"),
              May("lead_submissions", "contacts", "nullLink")}]

Rev0051 ==
  [In("appointments") EXCEPT !.tables = <<"calendar_events">>,
    !.refs = {Needs("calendar_events", "calendars", "restrict"),
              May("calendar_events", "appointments", "nullLink")}]

Rev0052 ==
  [Opens("accounting") EXCEPT !.tables = <<"accounts">>]

Rev0053 ==
  [In("accounting") EXCEPT !.tables = <<"periods">>]

Rev0054 ==
  [In("accounting") EXCEPT !.tables = <<"journal_entries">>,
    !.refs = {May("journal_entries", "periods", "restrict"),
              May("journal_entries", "journal_entries", "restrict")}]

Rev0055 ==
  [In("accounting") EXCEPT !.tables = <<"journal_lines">>,
    !.refs = {Needs("journal_lines", "journal_entries", "cascade"),
              Needs("journal_lines", "accounts", "restrict")}]

Rev0056 ==
  [In("accounting") EXCEPT !.tables = <<"contact_profiles">>,
    !.refs = {Needs("contact_profiles", "contacts", "restrict")}]

Rev0057 ==
  [In("accounting") EXCEPT !.tables = <<"tax_codes">>,
    !.refs = {Needs("tax_codes", "accounts", "restrict")}]

Rev0058 ==
  [In("accounting") EXCEPT !.tables = <<"invoices">>,
    !.refs = {Needs("invoices", "contacts", "restrict"),
              Needs("invoices", "accounts", "restrict"),
              May("invoices", "periods", "restrict"),
              May("invoices", "journal_entries", "restrict")}]

Rev0059 ==
  [In("accounting") EXCEPT !.tables = <<"invoice_lines">>,
    !.refs = {Needs("invoice_lines", "invoices", "cascade"),
              Needs("invoice_lines", "accounts", "restrict"),
              May("invoice_lines", "tax_codes", "restrict")}]

Rev0060 ==
  [In("accounting") EXCEPT !.tables = <<"bills">>,
    !.refs = {Needs("bills", "contacts", "restrict"),
              Needs("bills", "accounts", "restrict"),
              May("bills", "periods", "restrict"),
              May("bills", "journal_entries", "restrict")}]

Rev0061 ==
  [In("accounting") EXCEPT !.tables = <<"bill_lines">>,
    !.refs = {Needs("bill_lines", "bills", "cascade"),
              Needs("bill_lines", "accounts", "restrict"),
              May("bill_lines", "tax_codes", "restrict")}]

Rev0062 ==
  [In("accounting") EXCEPT !.tables = <<"payments">>,
    !.refs = {Needs("payments", "contacts", "restrict")}]

Rev0063 ==
  [In("accounting") EXCEPT !.tables = <<"payment_allocations">>,
    !.refs = {Needs("payment_allocations", "payments", "cascade"),
              May("payment_allocations", "payment_allocations", "restrict")}]

Rev0064 ==
  [In("telephony") EXCEPT !.admits = {"transferring"}]

Rev0065 ==
  [In("telephony") EXCEPT !.tables = <<"human_transfer_destinations">>]

Rev0066 ==
  [In("telephony") EXCEPT !.parts = {"calls.active_transfer_attempt_id"}]

Rev0067 ==
  [In("accounting") EXCEPT !.tables = <<"credit_notes">>,
    !.refs = {Needs("credit_notes", "invoices", "restrict"),
              May("credit_notes", "periods", "restrict"),
              May("credit_notes", "journal_entries", "restrict")}]

Rev0068 ==
  [In("accounting") EXCEPT !.tables = <<"credit_note_lines">>,
    !.refs = {Needs("credit_note_lines", "credit_notes", "cascade"),
              Needs("credit_note_lines", "accounts", "restrict"),
              May("credit_note_lines", "tax_codes", "restrict")}]

Rev0069 ==
  [In("accounting") EXCEPT !.tables = <<"bank_accounts">>,
    !.refs = {Needs("bank_accounts", "accounts", "restrict")}]

Rev0070 ==
  [In("accounting") EXCEPT !.tables = <<"bank_statements">>,
    !.refs = {Needs("bank_statements", "bank_accounts", "restrict")}]

Rev0071 ==
  [In("accounting") EXCEPT !.tables = <<"bank_statement_lines">>,
    !.refs = {Needs("bank_statement_lines", "bank_statements", "cascade"),
              Needs("bank_statement_lines", "bank_accounts", "restrict"),
              May("bank_statement_lines", "payments", "restrict"),
              May("bank_statement_lines", "accounts", "restrict"),
              May("bank_statement_lines", "journal_entries", "restrict")}]

Revisions ==
  <<Rev0001, Rev0002, Rev0003, Rev0004, Rev0005, Rev0006, Rev0007, Rev0008,
    Rev0009, Rev0010, Rev0011, Rev0012, Rev0013, Rev0014, Rev0015, Rev0016,
    Rev0017, Rev0018, Rev0019, Rev0020, Rev0021, Rev0022, Rev0023, Rev0024,
    Rev0025, Rev0026, Rev0027, Rev0028, Rev0029, Rev0030, Rev0031, Rev0032,
    Rev0033, Rev0034, Rev0035, Rev0036, Rev0037, Rev0038, Rev0039, Rev0040,
    Rev0041, Rev0042, Rev0043, Rev0044, Rev0045, Rev0046, Rev0047, Rev0048,
    Rev0049, Rev0050, Rev0051, Rev0052, Rev0053, Rev0054, Rev0055, Rev0056,
    Rev0057, Rev0058, Rev0059, Rev0060, Rev0061, Rev0062, Rev0063, Rev0064,
    Rev0065, Rev0066, Rev0067, Rev0068, Rev0069, Rev0070, Rev0071>>

Latest == Len(Revisions)

Elements(s) == {s[i] : i \in DOMAIN s}

\* What the first n revisions add, read off their definitions: the catalog a
\* database at revision n must have. A table is keyed by (tenant_id, id), which
\* a composite foreign key to it needs.
Catalog(n) ==
  LET R == {Revisions[i] : i \in 1 .. n}
      Added(r) == Elements(r.tables)
  IN [schemas |-> {r.in : r \in R},
      tables  |-> UNION {Added(r) : r \in R},
      keyed   |-> UNION {(Added(r) \ r.unkeyed) \cup r.keys : r \in R},
      parts   |-> UNION {r.parts : r \in R},
      refs    |-> UNION {r.refs : r \in R},
      admits  |-> UNION {r.admits : r \in R}]

Tables == Catalog(Latest).tables
Refs == Catalog(Latest).refs

\* The tables no row level security policy protects.
Unscoped == UNION {Revisions[i].unscoped : i \in 1 .. Latest}

TablesOf(schema) ==
  UNION {Elements(Revisions[i].tables) : i \in {j \in 1 .. Latest : Revisions[j].in = schema}}
=============================================================================
