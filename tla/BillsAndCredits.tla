---------------------------- MODULE BillsAndCredits ----------------------------
(***************************************************************************)
(* Supplier bills (product/accounting/bills.py) and the credit notes of an *)
(* invoice (credit_notes.py): drafted, edited, posted into the journal,    *)
(* voided, cancelled, by calls that overlap.  A call is a transaction at   *)
(* READ COMMITTED; it is cut where it reads what it has not locked, or     *)
(* where it waits for a lock, and a refused or dying one leaves no trace.  *)
(*                                                                         *)
(* Amounts are sums over a document's lines, tax included.  The journal    *)
(* entry of a document is kept beside it: what was booked, and whether it  *)
(* was reversed since, by a cancellation or by hand.                       *)
(***************************************************************************)
EXTENDS Naturals, FiniteSets, FiniteSetsExt

CONSTANTS
  Bills,          \* bill ids
  Notes,          \* credit note ids
  References,     \* the references suppliers put on their bills
  Sums,           \* what the lines of a document may add up to
  Clerks          \* requests in progress

ASSUME SumsAssumption == Sums \subseteq Nat \ {0}

\* A document is a bill or a credit note, and there are finitely many of these.
ASSUME DocumentsAssumption == Bills \cap Notes = {} /\ IsFiniteSet(Notes)

VARIABLES
  bill,           \* the bills rows, with their lines' sum and their entry
  note,           \* the credit_notes rows, likewise
  creditable,     \* the status of the invoice the notes are of
  account,        \* the account the lines name: none, active or inactive
  role,           \* the supplier contact's accounting role
  desk            \* desk[c]: the transaction clerk c's request is in

officeVars == <<account, role>>
booksVars == <<bill, note, creditable, officeVars, desk>>

NoDocument == [status |-> "none"]
AtRest == [op |-> "none"]

BillDraft(x, r) ==
  [status |-> "draft", total |-> x, lines |-> x, entry |-> "none", booked |-> 0,
   reference |-> r]

NoteDraft(x) ==
  [status |-> "draft", total |-> x, lines |-> x, entry |-> "none", booked |-> 0,
   number |-> 0]

BillRows ==
  [status : {"draft", "posted", "voided", "cancelled"}, total : Sums, lines : Sums,
   entry : {"none", "posted", "reversed"}, booked : Sums \cup {0}, reference : References]

NoteRows ==
  [status : {"draft", "posted", "voided"}, total : Sums, lines : Sums,
   entry : {"none", "posted", "reversed"}, booked : Sums \cup {0},
   number : 0 .. Cardinality(Notes)]

Requests ==
  [op : {"update"}, document : Bills, lines : Sums]
    \cup [op : {"post", "cancel"}, document : Bills \cup Notes, lines : Sums,
          number : 0 .. Cardinality(Notes)]

BillsTypeOK ==
  /\ bill \in [Bills -> BillRows \cup {NoDocument}]
  /\ note \in [Notes -> NoteRows \cup {NoDocument}]
  /\ creditable \in {"draft", "posted", "cancelled"}
  /\ account \in {"none", "active", "inactive"}
  /\ role \in {"none", "customer", "supplier", "both"}
  /\ desk \in [Clerks -> Requests \cup {AtRest}]

BooksInit ==
  /\ bill = [b \in Bills |-> NoDocument]
  /\ note = [n \in Notes |-> NoDocument]
  /\ creditable = "draft"
  /\ account = "none"
  /\ role = "none"
  /\ desk = [c \in Clerks |-> AtRest]

-----------------------------------------------------------------------------
\* SELECT ... FOR UPDATE of a document, and the lock of the note numbers, last
\* as long as the transaction.
RowHeld(d) == \E c \in Clerks : desk[c].op \in {"post", "cancel"} /\ desk[c].document = d

NumberHeld == \E c \in Clerks : desk[c].op = "post" /\ desk[c].number # 0

Leave(c) == desk' = [desk EXCEPT ![c] = AtRest]

Abandon(c) ==
  /\ desk[c] # AtRest
  /\ Leave(c)
  /\ UNCHANGED <<bill, note, creditable, officeVars>>

\* An account is never deleted, only taken out of use and brought back.
SetAccount(from, to) ==
  /\ account = from
  /\ account' = to
  /\ UNCHANGED <<bill, note, creditable, role, desk>>

CreateAccount == SetAccount("none", "active")
DeactivateAccount == SetAccount("active", "inactive")
ReactivateAccount == SetAccount("inactive", "active")

SetRole(r) ==
  /\ role' = r
  /\ UNCHANGED <<bill, note, creditable, account, desk>>

TagRole(r) == role = "none" /\ SetRole(r)
UpdateRole(r) == role \notin {"none", r} /\ SetRole(r)

ReferenceTaken(r) == \E b \in Bills : bill[b] # NoDocument /\ bill[b].reference = r

CreateBill(b, r, x) ==
  /\ bill[b] = NoDocument
  /\ role \in {"supplier", "both"}
  /\ account = "active"
  /\ ~ReferenceTaken(r)
  /\ bill' = [bill EXCEPT ![b] = BillDraft(x, r)]
  /\ UNCHANGED <<note, creditable, officeVars, desk>>

\* update_bill() reads the status without a lock ...
BeginUpdate(c, b, x) ==
  /\ desk[c] = AtRest
  /\ bill[b].status = "draft"
  /\ account = "active"
  /\ desk' = [desk EXCEPT ![c] = [op |-> "update", document |-> b, lines |-> x]]
  /\ UNCHANGED <<bill, note, creditable, officeVars>>

\* Mutant: the lines are not the bill's children, so the edit waits for nobody.
CommitUpdateUnblocked(c) ==
  /\ desk[c].op = "update"
  /\ bill' = [bill EXCEPT ![desk[c].document].lines = desk[c].lines,
                          ![desk[c].document].total = desk[c].lines]
  /\ Leave(c)
  /\ UNCHANGED <<note, creditable, officeVars>>

\* ... and writes the lines, whose foreign key waits for the row's lock, and
\* the totals, whatever the status has become.
CommitUpdate(c) ==
  /\ desk[c].op = "update"
  /\ ~RowHeld(desk[c].document)
  /\ bill' = [bill EXCEPT ![desk[c].document].lines = desk[c].lines,
                          ![desk[c].document].total = desk[c].lines]
  /\ Leave(c)
  /\ UNCHANGED <<note, creditable, officeVars>>

VoidBill(b) ==
  /\ bill[b].status = "draft"
  /\ ~RowHeld(b)
  /\ bill' = [bill EXCEPT ![b].status = "voided"]
  /\ UNCHANGED <<note, creditable, officeVars, desk>>

Hold(c, op, d, x, n) ==
  desk' = [desk EXCEPT ![c] = [op |-> op, document |-> d, lines |-> x, number |-> n]]

LockBillToPost(c, b) ==
  /\ desk[c] = AtRest
  /\ bill[b].status = "draft"
  /\ ~RowHeld(b)
  /\ Hold(c, "post", b, bill[b].lines, 0)
  /\ UNCHANGED <<bill, note, creditable, officeVars>>

\* The entry books the sum of the lines; a closed period ends in Abandon.
PostBill(c) ==
  /\ desk[c].op = "post"
  /\ desk[c].document \in Bills
  /\ bill' = [bill EXCEPT ![desk[c].document] =
                [@ EXCEPT !.status = "posted", !.total = desk[c].lines,
                          !.entry = "posted", !.booked = desk[c].lines]]
  /\ Leave(c)
  /\ UNCHANGED <<note, creditable, officeVars>>

LockBillToCancel(c, b) ==
  /\ desk[c] = AtRest
  /\ bill[b].status = "posted"
  /\ ~RowHeld(b)
  /\ Hold(c, "cancel", b, bill[b].lines, 0)
  /\ UNCHANGED <<bill, note, creditable, officeVars>>

\* Mutant: an entry reversed by hand meanwhile does not stop the cancellation,
\* which reverses what is there a second time.
CancelBillAnyway(c) ==
  /\ desk[c].op = "cancel"
  /\ bill' = [bill EXCEPT ![desk[c].document].status = "cancelled",
       ![desk[c].document].entry = IF @ = "posted" THEN "reversed" ELSE "posted"]
  /\ Leave(c)
  /\ UNCHANGED <<note, creditable, officeVars>>

\* The entry must still be posted; if it was reversed by hand, Abandon.
CancelBill(c) ==
  /\ desk[c].op = "cancel"
  /\ bill[desk[c].document].entry = "posted"
  /\ bill' = [bill EXCEPT ![desk[c].document].status = "cancelled",
                          ![desk[c].document].entry = "reversed"]
  /\ Leave(c)
  /\ UNCHANGED <<note, creditable, officeVars>>

\* reverse_journal_entry() knows nothing of the document the entry is of.
ReverseEntry(d) ==
  \/ /\ d \in Bills
     /\ bill[d] # NoDocument
     /\ bill[d].entry = "posted"
     /\ bill' = [bill EXCEPT ![d].entry = "reversed"]
     /\ UNCHANGED <<note, creditable, officeVars, desk>>
  \/ /\ d \in Notes
     /\ note[d] # NoDocument
     /\ note[d].entry = "posted"
     /\ note' = [note EXCEPT ![d].entry = "reversed"]
     /\ UNCHANGED <<bill, creditable, officeVars, desk>>

-----------------------------------------------------------------------------
\* The invoice the notes are of.
PostInvoice ==
  /\ creditable = "draft"
  /\ creditable' = "posted"
  /\ UNCHANGED <<bill, note, officeVars, desk>>

CancelInvoice ==
  /\ creditable = "posted"
  /\ creditable' = "cancelled"
  /\ UNCHANGED <<bill, note, officeVars, desk>>

CreateNote(n, x) ==
  /\ note[n] = NoDocument
  /\ creditable = "posted"
  /\ account = "active"
  /\ note' = [note EXCEPT ![n] = NoteDraft(x)]
  /\ UNCHANGED <<bill, creditable, officeVars, desk>>

VoidNote(n) ==
  /\ note[n].status = "draft"
  /\ ~RowHeld(n)
  /\ note' = [note EXCEPT ![n].status = "voided"]
  /\ UNCHANGED <<bill, creditable, officeVars, desk>>

\* The note's row is locked; the invoice's is only read.
LockNote(c, n) ==
  /\ desk[c] = AtRest
  /\ note[n].status = "draft"
  /\ ~RowHeld(n)
  /\ creditable = "posted"
  /\ Hold(c, "post", n, note[n].lines, 0)
  /\ UNCHANGED <<bill, note, creditable, officeVars>>

NoteNumbers == {note[n].number : n \in {m \in Notes : note[m] # NoDocument}} \ {0}

NextNoteNumber == IF NoteNumbers = {} THEN 1 ELSE Max(NoteNumbers) + 1

NumberNote(c) ==
  /\ desk[c].op = "post"
  /\ desk[c].document \in Notes
  /\ desk[c].number = 0
  /\ ~NumberHeld
  /\ desk' = [desk EXCEPT ![c].number = NextNoteNumber]
  /\ UNCHANGED <<bill, note, creditable, officeVars>>

PostNote(c) ==
  /\ desk[c].op = "post"
  /\ desk[c].document \in Notes
  /\ desk[c].number # 0
  /\ note' = [note EXCEPT ![desk[c].document] =
                [@ EXCEPT !.status = "posted", !.total = desk[c].lines, !.entry = "posted",
                          !.booked = desk[c].lines, !.number = desk[c].number]]
  /\ Leave(c)
  /\ UNCHANGED <<bill, creditable, officeVars>>

-----------------------------------------------------------------------------
BillsNext ==
  \/ \E b \in Bills, r \in References, x \in Sums : CreateBill(b, r, x)
  \/ \E b \in Bills : VoidBill(b) \/ ReverseEntry(b)
  \/ CreateAccount \/ DeactivateAccount \/ ReactivateAccount
  \/ \E r \in {"customer", "supplier", "both"} : TagRole(r) \/ UpdateRole(r)
  \/ \E c \in Clerks :
       \/ \E b \in Bills, x \in Sums : BeginUpdate(c, b, x)
       \/ \E b \in Bills : LockBillToPost(c, b) \/ LockBillToCancel(c, b)
       \/ CommitUpdate(c) \/ PostBill(c) \/ CancelBill(c) \/ Abandon(c)

NotesNext ==
  \/ PostInvoice
  \/ CancelInvoice
  \/ CreateAccount \/ DeactivateAccount \/ ReactivateAccount
  \/ \E n \in Notes, x \in Sums : CreateNote(n, x)
  \/ \E n \in Notes : VoidNote(n) \/ ReverseEntry(n)
  \/ \E c \in Clerks :
       \/ \E n \in Notes : LockNote(c, n)
       \/ NumberNote(c) \/ PostNote(c) \/ Abandon(c)

-----------------------------------------------------------------------------
\* A document's status and its journal entry tell one story, whatever
\* cancellations, reversals by hand and postings overlap: nothing is booked for
\* a draft or a void one, and a cancelled one's booking is undone, once.
StatusTellsTheBooks ==
  \A d \in Bills \cup Notes :
    LET row == IF d \in Bills THEN bill[d] ELSE note[d]
    IN row # NoDocument =>
         CASE row.status \in {"draft", "voided"} -> row.entry = "none"
           [] row.status = "posted" -> row.entry \in {"posted", "reversed"}
           [] row.status = "cancelled" -> row.entry = "reversed"

\* What is booked for a bill is what its lines added up to when it was posted,
\* however many edits read it as a draft, and it is never booked anew.
BookedAsItStood ==
  \A b \in Bills :
    (bill[b] # NoDocument /\ bill'[b].booked # bill[b].booked) =>
      /\ bill[b].status = "draft" /\ bill'[b].status = "posted"
      /\ bill'[b].booked = bill[b].lines

\* Credit notes are numbered 1, 2, 3 ... without a gap or a repetition, in the
\* order they are posted, whatever postings overlap or fail (credit_notes.py:496-507).
NotesNumbered ==
  /\ NoteNumbers = 1 .. Cardinality(NoteNumbers)
  /\ \A m, n \in Notes :
       (m # n /\ {note[m].status, note[n].status} \subseteq {"posted"}) =>
         note[m].number # note[n].number
  /\ \A n \in Notes : note[n] # NoDocument => ((note[n].number # 0) <=> (note[n].status = "posted"))

\* A supplier's reference stays with the first bill that bore it, voided or not,
\* so a bill that comes twice is entered once (bills.py:289-291).
ReferenceEnteredOnce ==
  \A a, b \in Bills :
    (a # b /\ NoDocument \notin {bill[a], bill[b]}) => bill[a].reference # bill[b].reference

\* Whatever edits, postings, cancellations and reversals of bills and credit
\* notes overlap, what is booked is the document as it stood, its status says
\* what the books hold, the notes are numbered without gaps, and a supplier's
\* reference is entered once (bills.py, credit_notes.py).
PayablesMatchBooks ==
    /\ [](/\ BillsTypeOK
          /\ StatusTellsTheBooks
          /\ NotesNumbered
          /\ ReferenceEnteredOnce)
    /\ [][BookedAsItStood]_booksVars
=============================================================================
