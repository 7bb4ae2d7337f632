-------------------------------- MODULE Banking --------------------------------
(***************************************************************************)
(* Bank accounts, imported statements and their reconciliation             *)
(* (product/accounting/banking.py) with the posted invoices and bills.     *)
(*                                                                         *)
(* A call is one transaction.  Importing is cut between the reading of the *)
(* lines that are there and the inserts; confirming a match where it waits *)
(* for the document's advisory lock (payments.py:97), before which it has  *)
(* read the document and after which its session still answers with that   *)
(* first reading.  Every line is of one unit of money, in or out, and a    *)
(* line is named by its statement and by what its hash is taken of.        *)
(***************************************************************************)
EXTENDS Integers, FiniteSets, FiniteSetsExt

CONSTANTS
  Banks,          \* bank account ids
  Ledgers,        \* the asset accounts of the chart of accounts
  Statements,     \* bank statement ids
  Inflows,        \* what a statement may report coming in: day, amount, text
  Outflows,       \* ... and going out
  OwedToUs,       \* posted invoices
  OwedByUs,       \* posted bills
  Tellers         \* requests in progress

VARIABLES
  ledgerOf,       \* bank_accounts.ledger_account_id
  line,           \* the bank_statement_lines rows
  document,       \* the invoices and bills rows
  receipts,       \* how many payments each line has brought about
  cash,           \* the balance the journal gives a ledger account
  teller          \* teller[t]: the transaction t's request is in

bankVars == <<ledgerOf, line, document, receipts, cash, teller>>

Reports == Inflows \cup Outflows
LineIds == Statements \X Reports
Documents == OwedToUs \cup OwedByUs
NoLine == [status |-> "none"]
NoLedger == "none"
Waiting == [op |-> "none"]

ASSUME BankingAssumption ==
  /\ IsFiniteSet(Statements) /\ IsFiniteSet(Reports) /\ Inflows \cap Outflows = {}
  /\ {"nothing", "account"} \cap Documents = {}
  /\ NoLedger \notin Ledgers

LineRows ==
  [status : {"unmatched", "reconciled"}, bank : Banks,
   to : Documents \cup {"nothing", "account"}, entry : {"none", "posted", "reversed"}]

BankTypeOK ==
  /\ ledgerOf \in [Banks -> Ledgers \cup {NoLedger}]
  /\ line \in [LineIds -> LineRows \cup {NoLine}]
  /\ document \in [Documents ->
       [status : {"posted", "cancelled"}, total : {1, 2}, due : 0 .. 2, paid : Nat]]
  /\ receipts \in [LineIds -> Nat]
  /\ cash \in [Ledgers -> Int]

BankInit ==
  /\ ledgerOf = [k \in Banks |-> NoLedger]
  /\ line = [l \in LineIds |-> NoLine]
  /\ document \in [Documents ->
       {[status |-> "posted", total |-> x, due |-> x, paid |-> 0] : x \in {1, 2}}]
  /\ receipts = [l \in LineIds |-> 0]
  /\ cash = [g \in Ledgers |-> 0]
  /\ teller = [t \in Tellers |-> Waiting]

-----------------------------------------------------------------------------
Amount(l) == IF l[2] \in Inflows THEN 1 ELSE -1

\* Mutant: nothing keeps two bank accounts from one ledger account.
DesignatedNever(g) == FALSE

Designated(g) == \E k \in Banks : ledgerOf[k] = g

CreateBankAccount(k, g) ==
  /\ ledgerOf[k] = NoLedger
  /\ ~Designated(g)
  /\ ledgerOf' = [ledgerOf EXCEPT ![k] = g]
  /\ UNCHANGED <<line, document, receipts, cash, teller>>

Reported(k) == {l[2] : l \in {m \in LineIds : line[m] # NoLine /\ line[m].bank = k}}

Done(t) == teller' = [teller EXCEPT ![t] = Waiting]

GiveUp(t) ==
  /\ teller[t] # Waiting
  /\ Done(t)
  /\ UNCHANGED <<ledgerOf, line, document, receipts, cash>>

BeginImport(t, s, k, file) ==
  /\ teller[t] = Waiting
  /\ ledgerOf[k] # NoLedger
  /\ \A l \in LineIds : l[1] = s => line[l] = NoLine
  /\ \A u \in Tellers : teller[u].op = "import" => teller[u].statement # s
  /\ teller' = [teller EXCEPT ![t] =
       [op |-> "import", statement |-> s, bank |-> k, new |-> file \ Reported(k)]]
  /\ UNCHANGED <<ledgerOf, line, document, receipts, cash>>

Insert(t) ==
  /\ line' = [l \in LineIds |->
       IF l[1] = teller[t].statement /\ l[2] \in teller[t].new
       THEN [status |-> "unmatched", bank |-> teller[t].bank, to |-> "nothing", entry |-> "none"]
       ELSE line[l]]
  /\ Done(t)
  /\ UNCHANGED <<ledgerOf, document, receipts, cash>>

\* The inserts are refused, and the statement with them, once another import
\* has committed one of the lines: GiveUp.
CommitImport(t) ==
  /\ teller[t].op = "import"
  /\ teller[t].new \cap Reported(teller[t].bank) = {}
  /\ Insert(t)

-----------------------------------------------------------------------------
LineHeld(l) == \E t \in Tellers : teller[t].op = "confirm" /\ teller[t].line = l

DocumentHeld(d) ==
  \E t \in Tellers : teller[t].op = "confirm" /\ teller[t].document = d /\ teller[t].locked

Owed(l) == IF l[2] \in Inflows THEN OwedToUs ELSE OwedByUs

\* Mutant: the line is read without FOR UPDATE.
BeginConfirmUnlocked(t, l, d) ==
  /\ teller[t] = Waiting
  /\ line[l].status = "unmatched"
  /\ d \in Owed(l)
  /\ document[d].status = "posted"
  /\ document[d].due = 1
  /\ teller' = [teller EXCEPT ![t] =
       [op |-> "confirm", line |-> l, document |-> d, due |-> document[d].due, locked |-> FALSE]]
  /\ UNCHANGED <<ledgerOf, line, document, receipts, cash>>

BeginConfirm(t, l, d) ==
  /\ teller[t] = Waiting
  /\ ~LineHeld(l)
  /\ line[l].status = "unmatched"
  /\ d \in Owed(l)
  /\ document[d].status = "posted"
  /\ document[d].due = 1
  /\ teller' = [teller EXCEPT ![t] =
       [op |-> "confirm", line |-> l, document |-> d, due |-> document[d].due, locked |-> FALSE]]
  /\ UNCHANGED <<ledgerOf, line, document, receipts, cash>>

LockToAllocate(t) ==
  /\ teller[t].op = "confirm"
  /\ ~teller[t].locked
  /\ ~DocumentHeld(teller[t].document)
  /\ teller' = [teller EXCEPT ![t].locked = TRUE]
  /\ UNCHANGED <<ledgerOf, line, document, receipts, cash>>

Book(l, x) == cash' = [cash EXCEPT ![ledgerOf[line[l].bank]] = @ + x]

\* Payment, allocation, posted entry and line, in one commit. The document's
\* balance is written from the first reading.
CommitConfirm(t) ==
  LET l == teller[t].line
      d == teller[t].document
  IN /\ teller[t].op = "confirm"
     /\ teller[t].locked
     /\ receipts' = [receipts EXCEPT ![l] = @ + 1]
     /\ document' = [document EXCEPT ![d].due = teller[t].due - 1, ![d].paid = @ + 1]
     /\ line' = [line EXCEPT ![l] =
          [@ EXCEPT !.status = "reconciled", !.to = d, !.entry = "posted"]]
     /\ Book(l, Amount(l))
     /\ Done(t)
     /\ UNCHANGED ledgerOf

\* The line goes to an active account instead, or the period is closed and
\* nothing happens.
AssignLine(l) ==
  /\ line[l].status = "unmatched"
  /\ ~LineHeld(l)
  /\ line' = [line EXCEPT ![l] =
       [@ EXCEPT !.status = "reconciled", !.to = "account", !.entry = "posted"]]
  /\ Book(l, Amount(l))
  /\ UNCHANGED <<ledgerOf, document, receipts, teller>>

\* The rest of the office: the entry of a line reversed by hand, an allocation
\* by hand under the same advisory lock, a cancellation under none.
ReverseBooking(l) ==
  /\ line[l] # NoLine
  /\ line[l].entry = "posted"
  /\ line' = [line EXCEPT ![l].entry = "reversed"]
  /\ Book(l, -Amount(l))
  /\ UNCHANGED <<ledgerOf, document, receipts, teller>>

AllocateByHand(d) ==
  /\ document[d].status = "posted"
  /\ document[d].due > 0
  /\ ~DocumentHeld(d)
  /\ document' = [document EXCEPT ![d].due = @ - 1, ![d].paid = @ + 1]
  /\ UNCHANGED <<ledgerOf, line, receipts, cash, teller>>

CancelDocument(d) ==
  /\ document[d].status = "posted"
  /\ document' = [document EXCEPT ![d].status = "cancelled", ![d].due = 0]
  /\ UNCHANGED <<ledgerOf, line, receipts, cash, teller>>

BankNext ==
  \/ \E k \in Banks, g \in Ledgers : CreateBankAccount(k, g)
  \/ \E t \in Tellers, s \in Statements, k \in Banks, file \in SUBSET Reports \ {{}} :
       BeginImport(t, s, k, file)
  \/ \E t \in Tellers, l \in LineIds, d \in Documents : BeginConfirm(t, l, d)
  \/ \E t \in Tellers :
       CommitImport(t) \/ LockToAllocate(t) \/ CommitConfirm(t) \/ GiveUp(t)
  \/ \E l \in LineIds : AssignLine(l) \/ ReverseBooking(l)
  \/ \E d \in Documents : AllocateByHand(d) \/ CancelDocument(d)

-----------------------------------------------------------------------------
\* A movement on a bank account is imported once, however many files report it
\* and however their imports overlap (banking.py:63-72).
ImportedOnce ==
  \A l, m \in LineIds :
    (l # m /\ NoLine \notin {line[l], line[m]} /\ line[l].bank = line[m].bank) => l[2] # m[2]

\* A line brings about one payment exactly when it is reconciled with a
\* document: none is made twice, and none survives a refused or dying call
\* (banking.py:57-64).
OnePaymentPerLine ==
  \A l \in LineIds :
    receipts[l] = IF line[l] # NoLine /\ line[l].to \in Documents THEN 1 ELSE 0

\* What the journal says is in the bank is what the reconciled lines of the one
\* bank account add up to, less those whose entry was reversed by hand.
CashIsTheLines ==
  \A k \in Banks : ledgerOf[k] # NoLedger =>
    cash[ledgerOf[k]] =
      LET settled == {l \in LineIds : line[l] # NoLine /\ line[l].bank = k
                                       /\ line[l].entry = "posted"}
      IN Cardinality({l \in settled : l[2] \in Inflows})
           - Cardinality({l \in settled : l[2] \in Outflows})

\* What was allocated to a document never exceeds it (banking.py:57-61: "the
\* allocation lock's own re-check of the document's remaining outstanding_amount").
NeverOverpaid == \A d \in Documents : document[d].paid <= document[d].total

\* Two clerks on overlapping statements import a line once and pay it once, and
\* the cash account holds what the matched lines say (banking.py).
BankedOnce ==
    /\ BankTypeOK
    /\ ImportedOnce
    /\ OnePaymentPerLine
    /\ CashIsTheLines
=============================================================================
