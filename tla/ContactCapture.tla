---------------------------- MODULE ContactCapture ----------------------------
(***************************************************************************)
(* The anonymous ways into the CRM: a marketing form, the lead form of a   *)
(* published page, and an inbound message, each of which finds or creates  *)
(* a contact; the draft and the public version of that page; and the CSV   *)
(* import, which finds or creates companies.  Every request here is about  *)
(* one e-mail address, one phone number and one company name: what matters *)
(* is what two of them do to each other.                                   *)
(***************************************************************************)
EXTENDS Integers, Sequences, SequencesExt, FiniteSets

CONSTANTS
    Callers,      \* ids of contacts that may be created
    Captures,     \* requests, each of one channel
    Channel,      \* "form", "lead" or "phone"
    Key,          \* the idempotency key a lead request carries
    Unknown,
    MaxDrafts,    \* bound: edits of the page
    Imports,      \* deliveries of import jobs
    FileRows,     \* rows of an imported file
    MaxCompanies  \* bound: companies of one name

\* Only a lead request carries a key: that of another stands for none.
ASSUME CaptureAssumption ==
    /\ \A k \in Captures : Channel[k] \in {"form", "lead", "phone"}
    /\ \A k, l \in Captures : Key[k] = Key[l] => (Channel[k] = "lead" <=> Channel[l] = "lead")
    /\ Unknown \notin Callers /\ "none" \notin Callers \union {Unknown}
    /\ MaxDrafts \in Nat /\ FileRows \in Nat /\ MaxCompanies \in Nat

Keys == {Key[k] : k \in Captures}

VARIABLES
    book,         \* contacts in order of creation, deleted ones included
    card,         \* per contact: there, email, phone, and who made it
    formThere, submissions,  \* the form, and per request the contact of its submission
    capture,      \* the requests
    phoneLock,    \* advisory lock crm.contact_by_phone
    keyState,     \* core.idempotency per key
    leads,        \* lead_captured events per key
    page,         \* [status, draft, public]
    publishing,   \* the draft that a publication has read, or -1
    twins,        \* companies of the imported name
    import        \* the import jobs

captureVars == <<book, card, formThere, submissions, capture, phoneLock, keyState, leads>>
pageVars == <<page, publishing>>
importVars == <<twins, import>>
contactVars == <<captureVars, pageVars, importVars>>

NoCard == [there |-> FALSE, email |-> FALSE, phone |-> FALSE, by |-> "nobody"]

CaptureRest ==
    /\ book = <<>>
    /\ card = [c \in Callers |-> NoCard]
    /\ formThere = TRUE
    /\ submissions = [k \in Captures |-> "none"]
    /\ phoneLock = FALSE
    /\ keyState = [x \in Keys |-> "free"]
    /\ leads = [x \in Keys |-> 0]
    /\ page = [status |-> "draft", draft |-> 0, public |-> -1]
    /\ publishing = -1
    /\ twins = 0
    /\ import = [j \in Imports |-> [pc |-> "pending", row |-> 1, done |-> 0]]

NewCapture == [pc |-> "idle", contact |-> Unknown, phone |-> FALSE]

CaptureInit == capture = [k \in Captures |-> NewCapture] /\ CaptureRest

(***************************************************************************)
(* Contacts.                                                               *)
(***************************************************************************)
There(c) == c # Unknown /\ card[c].there

WithAddress == {c \in Callers : card[c].email}
WithNumber == {c \in Callers : card[c].phone}

\* The oldest contact with the address (the number), as ORDER BY created_at LIMIT 1.
Oldest(those) ==
    LET found == {i \in DOMAIN book : card[book[i]].there /\ book[i] \in those}
    IN IF found = {} THEN Unknown ELSE book[Min(found)]

NewContact(c, email, phone, by) ==
    /\ ~ \E i \in DOMAIN book : book[i] = c
    /\ book' = Append(book, c)
    /\ card' = [card EXCEPT ![c] = [there |-> TRUE, email |-> email, phone |-> phone, by |-> by]]

CreateContact(c, email, phone) ==
    /\ NewContact(c, email, phone, "staff")
    /\ UNCHANGED <<formThere, submissions, capture, phoneLock, keyState, leads, pageVars, importVars>>

\* A submission keeps its row and loses its contact.
DeleteContact(c) ==
    /\ card[c].there
    /\ card' = [card EXCEPT ![c].there = FALSE]
    /\ submissions' = [k \in Captures |-> IF submissions[k] = c THEN Unknown ELSE submissions[k]]
    /\ UNCHANGED <<book, formThere, capture, phoneLock, keyState, leads, pageVars, importVars>>

At(k, pc) == capture[k].pc = pc
Goto(k, pc) == capture' = [capture EXCEPT ![k].pc = pc]

(***************************************************************************)
(* create_or_update_contact_from_trusted_source(), for a form or a lead.   *)
(***************************************************************************)
ResolveForm(k, phone) ==
    /\ At(k, "idle") /\ Channel[k] = "form" /\ formThere
    /\ capture' = [capture EXCEPT ![k].pc = "find", ![k].phone = phone]
    /\ UNCHANGED <<book, card, formThere, submissions, phoneLock, keyState, leads, pageVars, importVars>>

CheckPage(k) ==
    /\ At(k, "idle") /\ Channel[k] = "lead" /\ page.status = "published"
    /\ Goto(k, "find")
    /\ UNCHANGED <<book, card, formThere, submissions, phoneLock, keyState, leads, pageVars, importVars>>

\* SELECT without a lock ...
FindByEmail(k) ==
    /\ At(k, "find")
    /\ capture' = [capture EXCEPT ![k].pc = "write", ![k].contact = Oldest(WithAddress)]
    /\ UNCHANGED <<book, card, formThere, submissions, phoneLock, keyState, leads, pageVars, importVars>>

\* ... then an UPDATE of what was given ...
UpdateFound(k) ==
    /\ At(k, "write") /\ Channel[k] # "phone" /\ There(capture[k].contact)
    /\ card' = [card EXCEPT ![capture[k].contact].phone = @ \/ capture[k].phone]
    /\ Goto(k, "submit")
    /\ UNCHANGED <<book, formThere, submissions, phoneLock, keyState, leads, pageVars, importVars>>

\* ... or an INSERT: nothing makes addresses unique.
InsertByEmail(k, c) ==
    /\ At(k, "write") /\ Channel[k] # "phone" /\ capture[k].contact = Unknown
    /\ NewContact(c, TRUE, capture[k].phone, Channel[k])
    /\ capture' = [capture EXCEPT ![k].pc = "submit", ![k].contact = c]
    /\ UNCHANGED <<formThere, submissions, phoneLock, keyState, leads, pageVars, importVars>>

\* The row found is gone.
UpdateFails(k) ==
    /\ At(k, "write") /\ Channel[k] # "phone" /\ capture[k].contact # Unknown /\ ~ There(capture[k].contact)
    /\ Goto(k, "failed")
    /\ UNCHANGED <<book, card, formThere, submissions, phoneLock, keyState, leads, pageVars, importVars>>

(***************************************************************************)
(* create_or_reuse_contact_from_trusted_source_by_phone().                 *)
(***************************************************************************)
\* Mutant: without the advisory lock.
LockPhoneUnlocked(k) ==
    /\ At(k, "idle") /\ Channel[k] = "phone"
    /\ capture' = [capture EXCEPT ![k].pc = "write", ![k].contact = Oldest(WithNumber)]
    /\ UNCHANGED <<book, card, formThere, submissions, phoneLock, keyState, leads, pageVars, importVars>>

LockPhone(k) ==
    /\ At(k, "idle") /\ Channel[k] = "phone" /\ ~ phoneLock
    /\ phoneLock' = TRUE
    /\ capture' = [capture EXCEPT ![k].pc = "write", ![k].contact = Oldest(WithNumber)]
    /\ UNCHANGED <<book, card, formThere, submissions, keyState, leads, pageVars, importVars>>

ReuseByPhone(k) ==
    /\ At(k, "write") /\ Channel[k] = "phone" /\ capture[k].contact # Unknown
    /\ phoneLock' = FALSE
    /\ Goto(k, "done")
    /\ UNCHANGED <<book, card, formThere, submissions, keyState, leads, pageVars, importVars>>

InsertByPhone(k, c) ==
    /\ At(k, "write") /\ Channel[k] = "phone" /\ capture[k].contact = Unknown
    /\ NewContact(c, FALSE, TRUE, "phone")
    /\ phoneLock' = FALSE
    /\ capture' = [capture EXCEPT ![k].pc = "done", ![k].contact = c]
    /\ UNCHANGED <<formThere, submissions, keyState, leads, pageVars, importVars>>

(***************************************************************************)
(* The submission, in a transaction of its own; run_idempotent() holds the *)
(* key of a lead for one request at a time and replays what succeeded.     *)
(***************************************************************************)
SubmitForm(k) ==
    /\ At(k, "submit") /\ Channel[k] = "form"
    /\ formThere /\ There(capture[k].contact)
    /\ submissions' = [submissions EXCEPT ![k] = capture[k].contact]
    /\ Goto(k, "publish")
    /\ UNCHANGED <<book, card, formThere, phoneLock, keyState, leads, pageVars, importVars>>

\* Mutant: only a key that is in use is refused.
MayReserveAgain(k) == keyState[Key[k]] # "held"

\* core.idempotency: free, or failed before.
MayReserve(k) == keyState[Key[k]] = "free"

ReserveKey(k) ==
    /\ At(k, "submit") /\ Channel[k] = "lead" /\ MayReserve(k)
    /\ keyState' = [keyState EXCEPT ![Key[k]] = "held"]
    /\ Goto(k, "insert")
    /\ UNCHANGED <<book, card, formThere, submissions, phoneLock, leads, pageVars, importVars>>

\* Replayed, or told that the same request is in progress.
KeyTaken(k) ==
    /\ At(k, "submit") /\ Channel[k] = "lead" /\ ~ MayReserve(k)
    /\ Goto(k, "done")
    /\ UNCHANGED <<book, card, formThere, submissions, phoneLock, keyState, leads, pageVars, importVars>>

InsertLead(k) ==
    /\ At(k, "insert") /\ There(capture[k].contact)
    /\ submissions' = [submissions EXCEPT ![k] = capture[k].contact]
    /\ keyState' = [keyState EXCEPT ![Key[k]] = "succeeded"]
    /\ Goto(k, "publish")
    /\ UNCHANGED <<book, card, formThere, phoneLock, leads, pageVars, importVars>>

\* The contact or the form is gone: the foreign key refuses the row.
SubmitFails(k) ==
    /\ \/ At(k, "submit") /\ Channel[k] = "form" /\ ~ (formThere /\ There(capture[k].contact)) /\ UNCHANGED keyState
       \/ At(k, "insert") /\ ~ There(capture[k].contact) /\ keyState' = [keyState EXCEPT ![Key[k]] = "free"]
    /\ Goto(k, "failed")
    /\ UNCHANGED <<book, card, formThere, submissions, phoneLock, leads, pageVars, importVars>>

PublishLead(k) ==
    /\ At(k, "publish")
    /\ leads' = [leads EXCEPT ![Key[k]] = @ + 1]
    /\ Goto(k, "done")
    /\ UNCHANGED <<book, card, formThere, submissions, phoneLock, keyState, pageVars, importVars>>

\* Its submissions go with it.
DeleteForm ==
    /\ formThere
    /\ formThere' = FALSE
    /\ submissions' = [k \in Captures |-> IF Channel[k] = "form" THEN "none" ELSE submissions[k]]
    /\ UNCHANGED <<book, card, capture, phoneLock, keyState, leads, pageVars, importVars>>

(***************************************************************************)
(* The page: edits change the draft, a publication copies what it read.    *)
(***************************************************************************)

UpdatePage ==
    /\ page.draft < MaxDrafts
    /\ page' = [page EXCEPT !.draft = @ + 1]
    /\ UNCHANGED <<captureVars, publishing, importVars>>

PublishReads ==
    /\ publishing = -1
    /\ publishing' = page.draft
    /\ UNCHANGED <<captureVars, page, importVars>>

PublishWrites ==
    /\ publishing # -1
    /\ page' = [page EXCEPT !.status = "published", !.public = publishing]
    /\ publishing' = -1
    /\ UNCHANGED <<captureVars, importVars>>

UnpublishPage ==
    /\ page.status = "published"
    /\ page' = [page EXCEPT !.status = "draft"]
    /\ UNCHANGED <<captureVars, publishing, importVars>>

(***************************************************************************)
(* The import job: per row a company found or created, then a contact.     *)
(***************************************************************************)
ImportAt(j, pc) == import[j].pc = pc
Importing(j, pc) == import' = [import EXCEPT ![j].pc = pc]

StartImport(j) ==
    /\ ImportAt(j, "pending")
    /\ Importing(j, "row")
    /\ UNCHANGED <<captureVars, pageVars, twins>>

FindCompany(j) ==
    /\ ImportAt(j, "row") /\ import[j].row <= FileRows
    /\ Importing(j, CASE twins = 0 -> "company" [] twins = 1 -> "contact" [] OTHER -> "aborted")
    /\ UNCHANGED <<captureVars, pageVars, twins>>

CreateCompanyRow(j) ==
    /\ ImportAt(j, "company") /\ twins < MaxCompanies
    /\ twins' = twins + 1
    /\ Importing(j, "contact")
    /\ UNCHANGED <<captureVars, pageVars>>

\* The contact, or the row's error.
ImportRow(j, ok) ==
    /\ ImportAt(j, "contact")
    /\ import' = [import EXCEPT ![j] = [pc |-> "row", row |-> @.row + 1, done |-> @.done + (IF ok THEN 1 ELSE 0)]]
    /\ UNCHANGED <<captureVars, pageVars, twins>>

EndImport(j) ==
    /\ ImportAt(j, "row") /\ import[j].row > FileRows
    /\ Importing(j, "completed")
    /\ UNCHANGED <<captureVars, pageVars, twins>>

CaptureNext ==
    \/ \E c \in Callers : DeleteContact(c) \/ \E email, phone \in BOOLEAN : CreateContact(c, email, phone)
    \/ DeleteForm
    \/ \E k \in Captures :
          \/ \E phone \in BOOLEAN : ResolveForm(k, phone)
          \/ CheckPage(k) \/ FindByEmail(k) \/ UpdateFound(k) \/ UpdateFails(k)
          \/ LockPhone(k) \/ ReuseByPhone(k)
          \/ \E c \in Callers : InsertByEmail(k, c) \/ InsertByPhone(k, c)
          \/ SubmitForm(k) \/ ReserveKey(k) \/ KeyTaken(k) \/ InsertLead(k) \/ SubmitFails(k) \/ PublishLead(k)

PageNext == UpdatePage \/ PublishReads \/ PublishWrites \/ UnpublishPage

ImportNext ==
    \E j \in Imports :
        \/ StartImport(j) \/ FindCompany(j) \/ CreateCompanyRow(j) \/ EndImport(j)
        \/ \E ok \in BOOLEAN : ImportRow(j, ok)

-------------------------------------------------------------------------------
CaptureTypeOK ==
    /\ book \in Seq(Callers) /\ IsInjective(book)
    /\ \A c \in Callers : card[c].there => c \in ToSet(book)
    /\ submissions \in [Captures -> Callers \union {Unknown, "none"}]
    /\ \A k \in Captures : capture[k].contact \in Callers \union {Unknown}
    /\ keyState \in [Keys -> {"free", "held", "succeeded"}]
    /\ page.draft \in 0..MaxDrafts /\ page.public \in -1..MaxDrafts
    /\ twins \in 0..MaxCompanies

\* Of messages from one number at the same time, one creates the contact and the
\* others find it, whatever staff and forms create and delete meanwhile.
OnePerPhone == Cardinality({c \in Callers : card[c].there /\ card[c].by = "phone"}) <= 1

\* A contact's number, once on file, is never blanked by a form without one.
NumberKept == \A c \in Callers : card[c].phone => card'[c].phone

\* Retries under one key, overlapping or not, insert one submission and report one lead.
OneLeadPerKey ==
    \A x \in Keys : LET mine == {k \in Captures : Channel[k] = "lead" /\ Key[k] = x}
                    IN /\ Cardinality({k \in mine : submissions[k] # "none"}) <= 1
                       /\ mine # {} => leads[x] <= 1

\* No submission names a contact that is gone.
SubmissionsLinked == \A k \in Captures : submissions[k] \in Callers => card[submissions[k]].there

\* What the public sees changes by a publication only, however edits, publications
\* and withdrawals overlap.
Public == IF page.status = "published" THEN page.public ELSE -1
PublicByPublication == Public' # Public => Public' = -1 \/ Public' = publishing

\* A completed import has an outcome for each of its rows; one that found the
\* company twice never completes.
ImportAccounts == \A j \in Imports : ImportAt(j, "completed") => import[j].row = FileRows + 1

\* leads.py: the contact upsert is idempotent by e-mail: a retry makes no contact.
RetryMakesNoContact ==
    Cardinality({c \in Callers : card[c].there /\ card[c].by = "lead"}) <= 1

\* _process_row() never raises: one bad row must not abort the batch.
ImportNeverAborts == \A j \in Imports : ~ ImportAt(j, "aborted")

\* However submissions, calls, imports and retries overlap, a number has one
\* contact and keeps it, a key one submission and one lead, a finished import
\* accounts for its rows, and visitors see published pages only
\* (contacts.py, leads.py, imports.py, pages.py).
CapturedOnce ==
    /\ [](/\ CaptureTypeOK
          /\ OnePerPhone
          /\ OneLeadPerKey
          /\ SubmissionsLinked
          /\ ImportAccounts)
    /\ [][NumberKept]_captureVars
    /\ [][PublicByPublication]_pageVars
===============================================================================
