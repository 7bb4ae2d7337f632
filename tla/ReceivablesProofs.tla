-------------------------- MODULE ReceivablesProofs --------------------------
(***************************************************************************)
(* Proofs about Receivables for every set of invoices, payments and        *)
(* allocations, every set of amounts and any number of calls: the types,   *)
(* the numbering of invoices, and that no money is spent twice or lost;    *)
(* and about Banking, for every set of accounts, statements and documents: *)
(* that a line of a statement is paid once and its cash is in the journal. *)
(***************************************************************************)
EXTENDS Receivables, Banking, FiniteSetTheorems, TLAPS

\* A posting holds its draft's row lock, and from its second step the number
\* lock, under which the number it read stays the next one; a cancellation holds
\* the row lock of a posted invoice; an allocation takes no more than it read,
\* from rows that stay.
Updates(t) == txn[t] \in Editing => invoice[txn[t].document] # NoRow

Posts(t) == txn[t] \in Posting =>
    /\ rowLock[txn[t].document] = t
    /\ invoice[txn[t].document].status = "draft"
    /\ txn[t].step = "numbered" => numberLock = t /\ txn[t].number = LastNumber + 1

Cancels(t) == txn[t] \in Cancelling =>
    /\ rowLock[txn[t].document] = t
    /\ invoice[txn[t].document].status = "posted"

Moves(t) == txn[t] \in Moving =>
    /\ payment[txn[t].payment] # NoRow
    /\ invoice[txn[t].document] # NoRow
    /\ txn[t].op = "allocate" /\ txn[t].step = "read" =>
           txn[t].amount <= txn[t].unallocated /\ txn[t].amount <= txn[t].outstanding

Holds(t) == Updates(t) /\ Posts(t) /\ Cancels(t) /\ Moves(t)

\* No allocation refers to a row that is not there.
Refers == \A a \in Allocations : allocation[a] # NoRow =>
    payment[allocation[a].payment] # NoRow /\ invoice[allocation[a].document] # NoRow

NumberOf(i) == IF invoice[i] = NoRow THEN 0 ELSE invoice[i].number
Counted(i)  == invoice[i] # NoRow /\ invoice[i].status \in {"posted", "cancelled"}

\* The numbers given out are 1 .. n, each to one invoice that was posted.
NumberInv ==
    /\ \E n \in Nat : Numbers = 1 .. n
    /\ \A i \in Invoices : NumberOf(i) # 0 <=> Counted(i)
    /\ \A i, j \in Invoices : i # j /\ Counted(i) /\ Counted(j) => NumberOf(i) # NumberOf(j)

IInv == TypeOK /\ (\A t \in Threads : Holds(t)) /\ Refers /\ NumberInv

USE AmountsAssumption, NoAllocationAssumption, FreeAssumption DEF rows, locks, vars
-----------------------------------------------------------------------------
\* A transaction is of one kind, and its op names it.
LEMMA Kinds ==
    ASSUME NEW x \in Editing \cup Posting \cup Cancelling \cup Moving \cup {Idle}
    PROVE  /\ x.op = "post" <=> x \in Posting
           /\ x.op = "cancel" <=> x \in Cancelling
           /\ x.op = "update" <=> x \in Editing
           /\ x.op \in {"allocate", "reverse"} <=> x \in Moving
           /\ x = Idle <=> x.op = "none"
BY DEF Editing, Posting, Cancelling, Moving, Idle

\* The updates a call makes to its own transaction keep the rest of it.
LEMMA Numbered ==
    ASSUME NEW w \in Posting, NEW n \in Nat
    PROVE  LET v == [w EXCEPT !.step = "numbered", !.number = n]
           IN  v \in Posting /\ v.op = "post" /\ v.number = n /\ v.document = w.document
BY DEF Posting

\* A row is not the absence of one.
LEMMA RowFacts ==
    /\ \A x \in InvoiceRows : x # NoRow /\ x.status \in Statuses
    /\ \A x \in PaymentRows : x # NoRow
    /\ \A x \in AllocationRows : x # NoRow
    /\ NoRow.status = "none"
BY DEF InvoiceRows, PaymentRows, AllocationRows, NoRow, Statuses

\* The numbers given out are those of the invoices.
LEMMA NumbersAre == Numbers = {NumberOf(i) : i \in Invoices} \ {0}
BY DEF Numbers, NumberOf

LEMMA LastOfInterval ==
    ASSUME NEW n \in Nat, Numbers = 1 .. n
    PROVE  LastNumber = n
<1>1. CASE n = 0
  BY <1>1 DEF LastNumber
<1>2. CASE n > 0
  <2>1. n \in 1 .. n /\ \A y \in 1 .. n : n >= y
    BY <1>2
  <2>2. \A x \in 1 .. n : (\A y \in 1 .. n : x >= y) => x = n
    BY <1>2
  <2>3. Max(1 .. n) = n
    BY <2>1, <2>2 DEF Max
  <2>. QED
    BY <1>2, <2>1, <2>3 DEF LastNumber
<1>. QED  BY <1>1, <1>2

\* A step that gives no invoice another number keeps what is said of numbers.
LEMMA NumbersKept ==
    ASSUME NumberInv, \A i \in Invoices : NumberOf(i)' = NumberOf(i) /\ Counted(i)' = Counted(i)
    PROVE  NumberInv' /\ LastNumber' = LastNumber
<1>1. Numbers' = Numbers
  BY NumbersAre DEF Numbers, NumberOf
<1>. QED
  BY <1>1 DEF NumberInv, LastNumber

LEMMA InitInv == Init => IInv
<1>. SUFFICES ASSUME Init PROVE IInv
  OBVIOUS
<1>1. TypeOK
  BY DEF Init, TypeOK
<1>2. (\A t \in Threads : Holds(t)) /\ Refers
  BY DEF Init, Holds, Updates, Posts, Cancels, Moves, Refers, Editing, Posting, Cancelling, Moving, Idle
<1>3. \A i \in Invoices : NumberOf(i) = 0 /\ ~Counted(i)
  BY DEF Init, NumberOf, Counted
<1>4. Numbers = {}
  BY <1>3, NumbersAre
<1>5. Numbers = 1 .. 0
  BY <1>4
<1>6. NumberInv
  BY <1>3, <1>5 DEF NumberInv
<1>. QED  BY <1>1, <1>2, <1>6 DEF IInv
-----------------------------------------------------------------------------
\* What a call left to its transaction stays, as long as nobody takes its locks
\* or writes the rows it has locked.
LEMMA Others ==
    ASSUME IInv, NEW u \in Threads, Holds(u), txn'[u] = txn[u],
           \A i \in Invoices : rowLock[i] = u =>
               rowLock'[i] = u /\ invoice'[i].status = invoice[i].status,
           numberLock = u => numberLock' = u /\ LastNumber' = LastNumber,
           \A i \in Invoices : invoice[i] # NoRow => invoice'[i] # NoRow,
           \A p \in Payments : payment[p] # NoRow => payment'[p] # NoRow
    PROVE  Holds(u)'
<1>1. txn[u] \in Editing \cup Posting \cup Cancelling => txn[u].document \in Invoices
  BY DEF Editing, Posting, Cancelling
<1>2. txn[u] \in Moving => txn[u].document \in Invoices /\ txn[u].payment \in Payments
  BY DEF Moving
<1>3. Updates(u)' /\ Posts(u)' /\ Cancels(u)'
  BY <1>1 DEF Holds, Updates, Posts, Cancels
<1>4. Moves(u)'
  BY <1>2 DEF Holds, Moves
<1>. QED  BY <1>3, <1>4 DEF Holds

\* A call that ended holds nothing, and has given up no lock but its own.
LEMMA Ended ==
    ASSUME TypeOK, NEW t \in Threads, EndTransaction(t)
    PROVE  /\ rowLock' \in [Invoices -> Threads \cup {Free}]
           /\ documentLock' \in [Invoices -> Threads \cup {Free}]
           /\ paymentLock' \in [Payments -> Threads \cup {Free}]
           /\ numberLock' \in Threads \cup {Free}
           /\ txn' \in [Threads -> Editing \cup Posting \cup Cancelling \cup Moving \cup {Idle}]
           /\ Holds(t)'
           /\ \A u \in Threads \ {t} : /\ txn'[u] = txn[u]
                                       /\ \A i \in Invoices : rowLock[i] = u => rowLock'[i] = u
                                       /\ numberLock = u => numberLock' = u
<1>1. txn'[t] = Idle /\ \A u \in Threads \ {t} : txn'[u] = txn[u]
  BY DEF TypeOK, EndTransaction
<1>2. Idle \notin Editing \cup Posting \cup Cancelling \cup Moving
  BY DEF Idle, Editing, Posting, Cancelling, Moving
<1>3. Holds(t)'
  BY <1>1, <1>2 DEF Holds, Updates, Posts, Cancels, Moves
<1>4. txn' \in [Threads -> Editing \cup Posting \cup Cancelling \cup Moving \cup {Idle}]
  BY DEF TypeOK, EndTransaction
<1>. QED  BY <1>1, <1>3, <1>4 DEF TypeOK, EndTransaction

\* The rows as they were satisfy what is said of them.
LEMMA RollbackStep == ASSUME IInv, NEW t \in Threads, EndTransaction(t), UNCHANGED rows PROVE IInv'
<1>1. TypeOK'
  BY Ended DEF IInv, TypeOK
<1>2. NumberInv' /\ LastNumber' = LastNumber
  BY NumbersKept DEF IInv, NumberOf, Counted
<1>3. \A u \in Threads : Holds(u)'
  BY Ended, Others, <1>2 DEF IInv
<1>4. Refers'
  BY DEF IInv, Refers
<1>. QED  BY <1>1, <1>2, <1>3, <1>4 DEF IInv

\* A step of a call that writes no row keeps the invariant if the call's own
\* part of it holds.
LEMMA NoRowWritten ==
    ASSUME IInv, NEW t \in Threads, UNCHANGED rows, TypeOK', Holds(t)',
           \A u \in Threads \ {t} : txn'[u] = txn[u],
           \A u \in Threads \ {t}, i \in Invoices : rowLock[i] = u => rowLock'[i] = u,
           \A u \in Threads \ {t} : numberLock = u => numberLock' = u
    PROVE  IInv'
<1>1. NumberInv' /\ LastNumber' = LastNumber
  BY NumbersKept DEF IInv, NumberOf, Counted
<1>2. \A u \in Threads : Holds(u)'
  BY Others, <1>1 DEF IInv
<1>. QED  BY <1>1, <1>2 DEF IInv, Refers

LEMMA BeginUpdateStep ==
    ASSUME IInv, NEW t \in Threads, NEW i \in Invoices, NEW x \in Amounts, BeginUpdate(t, i, x)
    PROVE  IInv'
<1>1. PICK w : w = [op |-> "update", document |-> i, total |-> x]
  OBVIOUS
<1>2. w \in Editing /\ w \notin Posting \cup Cancelling \cup Moving /\ w.document = i
  BY <1>1 DEF Editing, Posting, Cancelling, Moving
<1>3. txn' = [txn EXCEPT ![t] = w] /\ invoice[i] # NoRow /\ UNCHANGED <<rows, locks>>
  BY <1>1, RowFacts DEF BeginUpdate
<1>4. TypeOK'
  BY <1>2, <1>3 DEF IInv, TypeOK
<1>5. txn'[t] = w
  BY <1>3 DEF IInv, TypeOK
<1>6. Holds(t)'
  BY <1>2, <1>3, <1>5 DEF Holds, Updates, Posts, Cancels, Moves
<1>. QED  BY <1>3, <1>4, <1>6, NoRowWritten DEF IInv, TypeOK

LEMMA PostLockStep ==
    ASSUME IInv, NEW t \in Threads, NEW i \in Invoices, PostLock(t, i) PROVE IInv'
<1>. DEFINE x == [op |-> "post", step |-> "locked", document |-> i, number |-> 0]
<1>1. x \in Posting /\ x \notin Editing \cup Cancelling \cup Moving /\ x.step # "numbered" /\ x.document = i
  BY DEF Editing, Posting, Cancelling, Moving
<1>2. txn' = [txn EXCEPT ![t] = x] /\ rowLock' = [rowLock EXCEPT ![i] = t]
      /\ invoice[i].status = "draft" /\ rowLock[i] = Free
  BY DEF PostLock
<1>. HIDE DEF x
<1>3. TypeOK'
  BY <1>1, <1>2 DEF PostLock, IInv, TypeOK
<1>4. txn'[t] = x /\ rowLock'[i] = t /\ invoice'[i].status = "draft"
  BY <1>2 DEF PostLock, IInv, TypeOK
<1>5. Holds(t)'
  BY <1>1, <1>4 DEF Holds, Updates, Posts, Cancels, Moves
<1>. QED  BY <1>2, <1>3, <1>5, NoRowWritten DEF PostLock, IInv, TypeOK

LEMMA CancelLockStep ==
    ASSUME IInv, NEW t \in Threads, NEW i \in Invoices, CancelLock(t, i) PROVE IInv'
<1>. DEFINE x == [op |-> "cancel", document |-> i]
<1>1. x \in Cancelling /\ x \notin Editing \cup Posting \cup Moving /\ x.document = i
  BY DEF Editing, Posting, Cancelling, Moving
<1>2. txn' = [txn EXCEPT ![t] = x] /\ rowLock' = [rowLock EXCEPT ![i] = t]
      /\ invoice[i].status = "posted" /\ rowLock[i] = Free
  BY DEF CancelLock
<1>. HIDE DEF x
<1>3. TypeOK'
  BY <1>1, <1>2 DEF CancelLock, IInv, TypeOK
<1>4. txn'[t] = x /\ rowLock'[i] = t /\ invoice'[i].status = "posted"
  BY <1>2 DEF CancelLock, IInv, TypeOK
<1>5. Holds(t)'
  BY <1>1, <1>4 DEF Holds, Updates, Posts, Cancels, Moves
<1>. QED  BY <1>2, <1>3, <1>5, NoRowWritten DEF CancelLock, IInv, TypeOK

LEMMA PostNumberStep == ASSUME IInv, NEW t \in Threads, PostNumber(t) PROVE IInv'
<1>. DEFINE x == [txn[t] EXCEPT !.step = "numbered", !.number = LastNumber + 1]
<1>1. txn[t] \in Posting /\ Posts(t)
  BY Kinds DEF PostNumber, IInv, TypeOK, Holds
<1>2. LastNumber + 1 \in Nat
  BY LastOfInterval DEF IInv, NumberInv
<1>3. /\ x \in Posting /\ x \notin Editing \cup Cancelling \cup Moving
      /\ x.number = LastNumber + 1 /\ x.document = txn[t].document
  <2>1. x \in Posting /\ x.op = "post" /\ x.number = LastNumber + 1 /\ x.document = txn[t].document
    BY <1>1, <1>2, Numbered
  <2>. QED  BY <2>1 DEF Editing, Cancelling, Moving
<1>4. txn' = [txn EXCEPT ![t] = x] /\ numberLock = Free /\ numberLock' = t
      /\ UNCHANGED <<rows, rowLock, documentLock, paymentLock>>
  BY DEF PostNumber
<1>. HIDE DEF x
<1>5. TypeOK'
  BY <1>3, <1>4 DEF IInv, TypeOK
<1>6. LastNumber' = LastNumber
  BY <1>4 DEF LastNumber, Numbers
<1>7. txn'[t] = x
  BY <1>4 DEF IInv, TypeOK
<1>8. Holds(t)'
  BY <1>1, <1>3, <1>4, <1>6, <1>7 DEF Holds, Updates, Posts, Cancels, Moves
<1>. QED  BY <1>4, <1>5, <1>8, NoRowWritten DEF IInv, TypeOK

LEMMA PostCommitStep == ASSUME IInv, NEW t \in Threads, PostCommit(t) PROVE IInv'
<1>1. txn[t] \in Posting /\ Posts(t)
  BY Kinds DEF PostCommit, IInv, TypeOK, Holds
<1>2. PICK i \in Invoices, n \in Nat :
         /\ i = txn[t].document /\ n = txn[t].number /\ n = LastNumber + 1
         /\ rowLock[i] = t /\ numberLock = t /\ invoice[i].status = "draft"
  BY <1>1 DEF Posts, Posting, PostCommit
<1>3. invoice[i] \in InvoiceRows
  BY <1>2, RowFacts DEF IInv, TypeOK
<1>0. PICK v :
         v = [invoice[i] EXCEPT !.status = "posted", !.number = n, !.outstanding = invoice[i].total]
  OBVIOUS
<1>4. v \in InvoiceRows /\ v.status = "posted" /\ v.number = n /\ v # NoRow
  BY <1>3, <1>0 DEF InvoiceRows, Statuses, NoRow
<1>5. EndTransaction(t) /\ UNCHANGED <<payment, allocation>>
  BY DEF PostCommit
<1>6. /\ invoice' \in [Invoices -> InvoiceRows \cup {NoRow}]
      /\ invoice'[i] = v /\ \A j \in Invoices \ {i} : invoice'[j] = invoice[j]
  <2>1. invoice' = [invoice EXCEPT
              ![txn[t].document].status = "posted", ![txn[t].document].number = txn[t].number,
              ![txn[t].document].outstanding = invoice[txn[t].document].total]
    BY DEF PostCommit
  <2>2. \A j \in Invoices \ {i} : invoice'[j] = invoice[j]
    BY <1>2, <2>1 DEF IInv, TypeOK
  <2>3. invoice'[i] = v
    BY <1>2, <1>3, <1>0, <2>1 DEF IInv, TypeOK
  <2>4. invoice' = [j \in Invoices |-> invoice'[j]]
    BY <2>1 DEF IInv, TypeOK
  <2>. QED  BY <1>4, <2>2, <2>3, <2>4 DEF IInv, TypeOK
<1>7. TypeOK'
  BY <1>5, <1>6, Ended DEF IInv, TypeOK
<1>8. NumberInv'
  <2>1. PICK m \in Nat : Numbers = 1 .. m
    BY DEF IInv, NumberInv
  <2>2. n = m + 1
    BY <1>2, <2>1, LastOfInterval
  <2>3. NumberOf(i) = 0 /\ ~Counted(i)
    BY <1>2 DEF IInv, NumberInv, Counted
  <2>4. /\ NumberOf(i)' = n /\ Counted(i)'
        /\ \A j \in Invoices \ {i} : NumberOf(j)' = NumberOf(j) /\ (Counted(j)' <=> Counted(j))
    BY <1>2, <1>4, <1>6 DEF NumberOf, Counted
  <2>5. Numbers' = Numbers \cup {n}
    <3>1. Numbers' = {NumberOf(j)' : j \in Invoices} \ {0}
      BY NumbersAre DEF Numbers, NumberOf
    <3>. QED  BY <1>2, <2>2, <2>3, <2>4, <3>1, NumbersAre
  <2>6. Numbers' = 1 .. n
    BY <2>1, <2>2, <2>5
  <2>7. \A j \in Invoices : NumberOf(j) # n
    BY <2>1, <2>2, NumbersAre
  <2>. QED  BY <1>2, <2>2, <2>4, <2>6, <2>7 DEF IInv, NumberInv
<1>9. \A u \in Threads : Holds(u)'
  BY <1>2, <1>4, <1>5, <1>6, Ended, Others, FreeAssumption DEF IInv
<1>10. Refers'
  <2>1. \A j \in Invoices : invoice[j] # NoRow => invoice'[j] # NoRow
    BY <1>4, <1>6
  <2>2. \A a \in Allocations : allocation[a] # NoRow => allocation[a].document \in Invoices
    BY DEF IInv, TypeOK, AllocationRows
  <2>. QED  BY <1>5, <2>1, <2>2 DEF IInv, Refers
<1>. QED  BY <1>7, <1>8, <1>9, <1>10 DEF IInv

\* Any other write of an invoice's row gives no number away and takes none back.
LEMMA NotNumbered ==
    ASSUME IInv, NEW i \in Invoices, NEW v \in InvoiceRows,
           invoice'[i] = v, \A j \in Invoices \ {i} : invoice'[j] = invoice[j],
           invoice[i] = NoRow => v.number = 0 /\ v.status = "draft",
           invoice[i] # NoRow =>
               /\ v.number = invoice[i].number
               /\ v.status \in {"posted", "cancelled"} <=> invoice[i].status \in {"posted", "cancelled"}
    PROVE  /\ NumberInv' /\ LastNumber' = LastNumber
           /\ \A j \in Invoices : invoice[j] # NoRow => invoice'[j] # NoRow
           /\ (UNCHANGED <<payment, allocation>>) => Refers'
<1>1. v # NoRow
  BY RowFacts
<1>2. \A j \in Invoices : NumberOf(j)' = NumberOf(j) /\ Counted(j)' = Counted(j)
  <2>1. NumberOf(i)' = NumberOf(i) /\ Counted(i)' = Counted(i)
    BY <1>1 DEF NumberOf, Counted
  <2>2. ASSUME NEW j \in Invoices \ {i} PROVE NumberOf(j)' = NumberOf(j) /\ Counted(j)' = Counted(j)
    BY DEF NumberOf, Counted
  <2>. QED  BY <2>1, <2>2
<1>3. \A j \in Invoices : invoice[j] # NoRow => invoice'[j] # NoRow
  BY <1>1
<1>4. \A a \in Allocations : allocation[a] # NoRow => allocation[a].document \in Invoices
  BY DEF IInv, TypeOK, AllocationRows
<1>5. ASSUME UNCHANGED <<payment, allocation>> PROVE Refers'
  BY <1>3, <1>4, <1>5 DEF IInv, Refers
<1>6. NumberInv' /\ LastNumber' = LastNumber
  BY <1>2, NumbersKept DEF IInv
<1>. QED  BY <1>3, <1>5, <1>6

LEMMA CreateInvoiceStep ==
    ASSUME IInv, NEW i \in Invoices, NEW x \in Amounts, CreateInvoice(i, x) PROVE IInv'
<1>1. PICK v : v = [status |-> "draft", total |-> x, outstanding |-> 0, number |-> 0]
  OBVIOUS
<1>2. v \in InvoiceRows /\ v.status = "draft" /\ v.number = 0
  BY <1>1 DEF InvoiceRows, Statuses
<1>3. /\ invoice[i] = NoRow /\ invoice' = [invoice EXCEPT ![i] = v]
      /\ UNCHANGED <<payment, allocation, locks, txn>>
  BY <1>1 DEF CreateInvoice
<1>4. invoice'[i] = v /\ \A j \in Invoices \ {i} : invoice'[j] = invoice[j]
  BY <1>3 DEF IInv, TypeOK
<1>5. TypeOK'
  BY <1>2, <1>3 DEF IInv, TypeOK
<1>6. /\ NumberInv' /\ LastNumber' = LastNumber /\ Refers'
      /\ \A j \in Invoices : invoice[j] # NoRow => invoice'[j] # NoRow
  BY <1>2, <1>3, <1>4, NotNumbered
<1>7. ASSUME NEW u \in Threads PROVE Holds(u)'
  <2>1. CASE txn[u] \in Posting \cup Cancelling
    <3>1. txn[u].document \in Invoices \ {i}
      BY <1>3, <2>1, RowFacts DEF IInv, Holds, Updates, Posts, Cancels, Posting, Cancelling
    <3>. QED
      BY <1>3, <1>4, <1>6, <2>1, <3>1, Kinds DEF IInv, TypeOK, Holds, Updates, Posts, Cancels, Moves
  <2>2. CASE txn[u] \notin Posting \cup Cancelling
    <3>1. txn[u] \in Editing \cup Moving => txn[u].document \in Invoices
      BY DEF Editing, Moving
    <3>. QED
      BY <1>3, <1>6, <2>2, <3>1 DEF IInv, Holds, Updates, Posts, Cancels, Moves
  <2>. QED  BY <2>1, <2>2
<1>. QED  BY <1>5, <1>6, <1>7 DEF IInv

LEMMA VoidInvoiceStep == ASSUME IInv, NEW i \in Invoices, VoidInvoice(i) PROVE IInv'
<1>1. PICK v : v = [invoice[i] EXCEPT !.status = "voided"]
  OBVIOUS
<1>2. /\ invoice[i] \in InvoiceRows /\ invoice[i].status = "draft" /\ rowLock[i] = Free
      /\ UNCHANGED <<payment, allocation, locks, txn>>
  BY RowFacts DEF VoidInvoice, IInv, TypeOK
<1>3. v \in InvoiceRows /\ v.status = "voided" /\ v.number = invoice[i].number
  BY <1>1, <1>2 DEF InvoiceRows, Statuses
<1>4. invoice' = [invoice EXCEPT ![i] = v]
  BY <1>1 DEF VoidInvoice, IInv, TypeOK
<1>5. invoice'[i] = v /\ \A j \in Invoices \ {i} : invoice'[j] = invoice[j]
  BY <1>4 DEF IInv, TypeOK
<1>6. TypeOK'
  BY <1>2, <1>3, <1>4 DEF IInv, TypeOK
<1>7. /\ NumberInv' /\ LastNumber' = LastNumber /\ Refers'
      /\ \A j \in Invoices : invoice[j] # NoRow => invoice'[j] # NoRow
  BY <1>2, <1>3, <1>5, NotNumbered, RowFacts
<1>8. \A u \in Threads : Holds(u)'
  BY <1>2, <1>5, <1>7, Others DEF IInv
<1>. QED  BY <1>6, <1>7, <1>8 DEF IInv

\* An update writes a total and no number, whatever the status has become.
LEMMA CommitUpdateStep == ASSUME IInv, NEW t \in Threads, CommitUpdate(t) PROVE IInv'
<1>1. txn[t] \in Editing /\ Updates(t)
  BY Kinds DEF CommitUpdate, IInv, TypeOK, Holds
<1>2. PICK i \in Invoices : i = txn[t].document
  BY <1>1 DEF Editing
<1>3. invoice[i] \in InvoiceRows /\ txn[t].total \in Amounts
  BY <1>1, <1>2 DEF IInv, TypeOK, Updates, Editing
<1>4. PICK v : v = [invoice[i] EXCEPT !.total = txn[t].total]
  OBVIOUS
<1>5. v \in InvoiceRows /\ v.status = invoice[i].status /\ v.number = invoice[i].number
  BY <1>3, <1>4 DEF InvoiceRows
<1>6. EndTransaction(t) /\ UNCHANGED <<payment, allocation>>
  BY DEF CommitUpdate
<1>7. invoice' = [invoice EXCEPT ![i] = v]
  BY <1>2, <1>4 DEF CommitUpdate, IInv, TypeOK
<1>8. invoice'[i] = v /\ \A j \in Invoices \ {i} : invoice'[j] = invoice[j]
  BY <1>7 DEF IInv, TypeOK
<1>9. TypeOK'
  BY <1>5, <1>6, <1>7, Ended DEF IInv, TypeOK
<1>10. /\ NumberInv' /\ LastNumber' = LastNumber /\ Refers'
       /\ \A j \in Invoices : invoice[j] # NoRow => invoice'[j] # NoRow
  BY <1>3, <1>5, <1>6, <1>8, NotNumbered, RowFacts
<1>11. \A u \in Threads : Holds(u)'
  BY <1>5, <1>6, <1>8, <1>10, Ended, Others DEF IInv
<1>. QED  BY <1>9, <1>10, <1>11 DEF IInv

LEMMA CreatePaymentStep ==
    ASSUME IInv, NEW p \in Payments, NEW x \in Amounts, CreatePayment(p, x) PROVE IInv'
<1>1. [status |-> "received", amount |-> x, unallocated |-> x] \in PaymentRows
  BY DEF PaymentRows
<1>2. payment' \in [Payments -> PaymentRows \cup {NoRow}]
      /\ \A q \in Payments : payment[q] # NoRow => payment'[q] # NoRow
  BY <1>1, RowFacts DEF CreatePayment, IInv, TypeOK
<1>3. UNCHANGED <<invoice, allocation, locks, txn>>
  BY DEF CreatePayment
<1>4. TypeOK'
  BY <1>2, <1>3 DEF IInv, TypeOK
<1>5. NumberInv' /\ LastNumber' = LastNumber
  BY <1>3, NumbersKept DEF IInv, NumberOf, Counted
<1>6. \A u \in Threads : Holds(u)'
  BY <1>2, <1>3, <1>5, Others DEF IInv
<1>7. \A a \in Allocations : allocation[a] # NoRow => allocation[a].payment \in Payments
  BY DEF IInv, TypeOK, AllocationRows
<1>8. Refers'
  BY <1>2, <1>3, <1>7 DEF IInv, Refers
<1>. QED  BY <1>4, <1>5, <1>6, <1>8 DEF IInv

LEMMA CancelCommitStep == ASSUME IInv, NEW t \in Threads, CancelCommit(t) PROVE IInv'
<1>1. txn[t] \in Cancelling /\ Cancels(t)
  BY Kinds DEF CancelCommit, IInv, TypeOK, Holds
<1>2. PICK i \in Invoices :
         i = txn[t].document /\ rowLock[i] = t /\ invoice[i].status = "posted"
  BY <1>1 DEF Cancels, Cancelling
<1>3. invoice[i] \in InvoiceRows
  BY <1>2, RowFacts DEF IInv, TypeOK
<1>4. PICK v : v = [invoice[i] EXCEPT !.status = "cancelled", !.outstanding = 0]
  OBVIOUS
<1>5. v \in InvoiceRows /\ v.status = "cancelled" /\ v.number = invoice[i].number
  BY <1>3, <1>4 DEF InvoiceRows, Statuses
<1>6. EndTransaction(t) /\ UNCHANGED <<payment, allocation>>
  BY DEF CancelCommit
<1>7. /\ invoice' \in [Invoices -> InvoiceRows \cup {NoRow}]
      /\ invoice'[i] = v /\ \A j \in Invoices \ {i} : invoice'[j] = invoice[j]
  <2>1. invoice' = [invoice EXCEPT ![txn[t].document].status = "cancelled",
                                   ![txn[t].document].outstanding = 0]
    BY DEF CancelCommit
  <2>2. \A j \in Invoices \ {i} : invoice'[j] = invoice[j]
    BY <1>2, <2>1 DEF IInv, TypeOK
  <2>3. invoice'[i] = v
    BY <1>2, <1>3, <1>4, <2>1 DEF IInv, TypeOK
  <2>4. invoice' = [j \in Invoices |-> invoice'[j]]
    BY <2>1 DEF IInv, TypeOK
  <2>. QED  BY <1>5, <2>2, <2>3, <2>4 DEF IInv, TypeOK
<1>8. TypeOK'
  BY <1>6, <1>7, Ended DEF IInv, TypeOK
<1>9. /\ NumberInv' /\ LastNumber' = LastNumber /\ Refers'
      /\ \A j \in Invoices : invoice[j] # NoRow => invoice'[j] # NoRow
  BY <1>2, <1>5, <1>6, <1>7, NotNumbered, RowFacts
<1>10. \A u \in Threads : Holds(u)'
  BY <1>2, <1>6, <1>7, <1>9, Ended, Others DEF IInv
<1>. QED  BY <1>8, <1>9, <1>10 DEF IInv
-----------------------------------------------------------------------------
LEMMA BeginStep ==
    ASSUME IInv, NEW t \in Threads, NEW op \in {"allocate", "reverse"}, NEW a \in Allocations,
           NEW p \in Payments, NEW i \in Invoices, NEW x \in Amounts,
           NEW of \in Allocations \cup {NoAllocation},
           payment[p] # NoRow, invoice[i] # NoRow, Begin(t, op, a, p, i, x, of)
    PROVE  IInv'
<1>1. PICK w : w = [op |-> op, step |-> "begun", id |-> a, payment |-> p, document |-> i,
                    amount |-> x, reverses |-> of, unallocated |-> 0, outstanding |-> 0]
  OBVIOUS
<1>2. /\ w \in Moving /\ w \notin Editing \cup Posting \cup Cancelling
      /\ w.payment = p /\ w.document = i /\ w.step = "begun"
  BY <1>1 DEF Editing, Moving, Posting, Cancelling
<1>3. txn' = [txn EXCEPT ![t] = w] /\ UNCHANGED <<rows, locks>>
  BY <1>1 DEF Begin
<1>4. TypeOK'
  BY <1>2, <1>3 DEF IInv, TypeOK
<1>5. txn'[t] = w
  BY <1>3 DEF IInv, TypeOK
<1>6. Holds(t)'
  BY <1>2, <1>3, <1>5 DEF Holds, Updates, Posts, Cancels, Moves
<1>. QED  BY <1>3, <1>4, <1>6, NoRowWritten DEF IInv, TypeOK

LEMMA BeginReversalStep ==
    ASSUME IInv, NEW t \in Threads, NEW a \in Allocations, NEW of \in Allocations,
           BeginReversal(t, a, of)
    PROVE  IInv'
<1>1. allocation[of] \in AllocationRows
  BY DEF BeginReversal, IInv, TypeOK
<1>2. /\ allocation[of].payment \in Payments /\ allocation[of].document \in Invoices
      /\ allocation[of].amount \in Amounts
  BY <1>1 DEF AllocationRows
<1>3. payment[allocation[of].payment] # NoRow /\ invoice[allocation[of].document] # NoRow
  BY DEF BeginReversal, IInv, Refers
<1>. QED  BY <1>2, <1>3, BeginStep DEF BeginReversal

LEMMA LockDocumentStep == ASSUME IInv, NEW t \in Threads, LockDocument(t) PROVE IInv'
<1>1. txn[t] \in Moving /\ Moves(t)
  BY Kinds DEF LockDocument, IInv, TypeOK, Holds
<1>2. PICK w : w = [txn[t] EXCEPT !.step = "document"]
  OBVIOUS
<1>3. /\ w \in Moving /\ w \notin Editing \cup Posting \cup Cancelling /\ w.step = "document"
      /\ w.payment = txn[t].payment /\ w.document = txn[t].document
  BY <1>1, <1>2 DEF Editing, Moving, Posting, Cancelling
<1>4. txn' = [txn EXCEPT ![t] = w] /\ UNCHANGED <<rows, rowLock, paymentLock, numberLock>>
  BY <1>2 DEF LockDocument, IInv, TypeOK
<1>5. documentLock' \in [Invoices -> Threads \cup {Free}]
  BY DEF LockDocument, IInv, TypeOK
<1>6. TypeOK'
  BY <1>3, <1>4, <1>5 DEF IInv, TypeOK
<1>7. txn'[t] = w
  BY <1>4 DEF IInv, TypeOK
<1>8. Holds(t)'
  BY <1>1, <1>3, <1>4, <1>7 DEF Holds, Updates, Posts, Cancels, Moves
<1>. QED  BY <1>4, <1>6, <1>8, NoRowWritten DEF IInv, TypeOK

LEMMA LockPaymentStep == ASSUME IInv, NEW t \in Threads, LockPayment(t) PROVE IInv'
<1>1. txn[t] \in Moving /\ Moves(t)
  BY Kinds DEF LockPayment, IInv, TypeOK, Holds
<1>2. PICK w : w = [txn[t] EXCEPT !.step = "locked"]
  OBVIOUS
<1>3. /\ w \in Moving /\ w \notin Editing \cup Posting \cup Cancelling /\ w.step = "locked"
      /\ w.payment = txn[t].payment /\ w.document = txn[t].document
  BY <1>1, <1>2 DEF Editing, Moving, Posting, Cancelling
<1>4. txn' = [txn EXCEPT ![t] = w] /\ UNCHANGED <<rows, rowLock, documentLock, numberLock>>
  BY <1>2 DEF LockPayment, IInv, TypeOK
<1>5. paymentLock' \in [Payments -> Threads \cup {Free}]
  BY DEF LockPayment, IInv, TypeOK
<1>6. TypeOK'
  BY <1>3, <1>4, <1>5 DEF IInv, TypeOK
<1>7. txn'[t] = w
  BY <1>4 DEF IInv, TypeOK
<1>8. Holds(t)'
  BY <1>1, <1>3, <1>4, <1>7 DEF Holds, Updates, Posts, Cancels, Moves
<1>. QED  BY <1>4, <1>6, <1>8, NoRowWritten DEF IInv, TypeOK

LEMMA ReadBothStep == ASSUME IInv, NEW t \in Threads, ReadBoth(t) PROVE IInv'
<1>1. txn[t] \in Moving /\ Moves(t)
  BY Kinds DEF ReadBoth, IInv, TypeOK, Holds
<1>2. PICK p \in Payments, i \in Invoices :
         p = txn[t].payment /\ i = txn[t].document /\ payment[p] # NoRow /\ invoice[i] # NoRow
  BY <1>1 DEF Moves, Moving
<1>3. PICK m \in Nat, n \in Nat : m = payment[p].unallocated /\ n = invoice[i].outstanding
  <2>1. payment[p] \in PaymentRows /\ invoice[i] \in InvoiceRows
    BY <1>2 DEF IInv, TypeOK
  <2>. QED  BY <2>1 DEF PaymentRows, InvoiceRows
<1>4. PICK w : w = [txn[t] EXCEPT !.step = "read", !.unallocated = m, !.outstanding = n]
  OBVIOUS
<1>5. /\ w \in Moving /\ w \notin Editing \cup Posting \cup Cancelling
      /\ w.payment = p /\ w.document = i /\ w.op = txn[t].op /\ w.amount = txn[t].amount
      /\ w.unallocated = m /\ w.outstanding = n
  BY <1>1, <1>2, <1>4 DEF Editing, Moving, Posting, Cancelling
<1>6. txn[t].op = "allocate" => txn[t].amount <= m /\ txn[t].amount <= n
  BY <1>2, <1>3 DEF ReadBoth, MayAllocate
<1>7. /\ UNCHANGED <<rows, locks>>
      /\ \A u \in Threads \ {t} : txn'[u] = txn[u]
      /\ txn'[t] = w /\ txn' = [u \in Threads |-> txn'[u]]
  <2>1. /\ UNCHANGED <<rows, locks>>
        /\ txn' = [txn EXCEPT ![t].step = "read",
                              ![t].unallocated = payment[txn[t].payment].unallocated,
                              ![t].outstanding = invoice[txn[t].document].outstanding]
    BY DEF ReadBoth
  <2>. QED  BY <1>1, <1>2, <1>3, <1>4, <2>1 DEF IInv, TypeOK
<1>8. txn' \in [Threads -> Editing \cup Posting \cup Cancelling \cup Moving \cup {Idle}]
  BY <1>5, <1>7 DEF IInv, TypeOK
<1>9. TypeOK'
  BY <1>7, <1>8 DEF IInv, TypeOK
<1>10. Holds(t)'
  BY <1>2, <1>5, <1>6, <1>7 DEF Holds, Updates, Posts, Cancels, Moves
<1>. QED  BY <1>7, <1>9, <1>10, NoRowWritten DEF IInv, TypeOK

LEMMA WriteBothStep ==
    ASSUME IInv, NEW t \in Threads, NEW m \in Nat, NEW n \in Nat, WriteBoth(t, m, n),
           txn[t] \in Moving
    PROVE  IInv'
<1>1. PICK p \in Payments, i \in Invoices, a \in Allocations :
         /\ p = txn[t].payment /\ i = txn[t].document /\ a = txn[t].id
         /\ payment[p] # NoRow /\ invoice[i] # NoRow
  BY DEF IInv, Holds, Moves, Moving
<1>2. payment[p] \in PaymentRows /\ invoice[i] \in InvoiceRows
  BY <1>1 DEF IInv, TypeOK
<1>3. PICK v : v = [invoice[i] EXCEPT !.outstanding = n]
  OBVIOUS
<1>4. v \in InvoiceRows /\ v.status = invoice[i].status /\ v.number = invoice[i].number
  BY <1>2, <1>3 DEF InvoiceRows
<1>5. /\ rowLock[i] = Free /\ EndTransaction(t)
      /\ invoice' = [invoice EXCEPT ![i] = v]
      /\ payment' = [payment EXCEPT ![p].unallocated = m]
  BY <1>1, <1>3 DEF WriteBoth, IInv, TypeOK
<1>6. invoice'[i] = v /\ \A j \in Invoices \ {i} : invoice'[j] = invoice[j]
  BY <1>5 DEF IInv, TypeOK
<1>7. /\ payment' \in [Payments -> PaymentRows \cup {NoRow}]
      /\ \A q \in Payments : payment[q] # NoRow => payment'[q] # NoRow
  BY <1>2, <1>5, RowFacts DEF IInv, TypeOK, PaymentRows
<1>8. PICK r \in AllocationRows :
         r.payment = p /\ r.document = i /\ allocation' = [allocation EXCEPT ![a] = r]
  BY <1>1 DEF WriteBoth, AllocationRows, Moving
<1>9. TypeOK'
  BY <1>4, <1>5, <1>7, <1>8, Ended DEF IInv, TypeOK
<1>10. /\ NumberInv' /\ LastNumber' = LastNumber
       /\ \A j \in Invoices : invoice[j] # NoRow => invoice'[j] # NoRow
  BY <1>1, <1>4, <1>6, NotNumbered
<1>11. \A u \in Threads : Holds(u)'
  BY <1>4, <1>5, <1>6, <1>7, <1>10, Ended, Others, FreeAssumption DEF IInv
<1>12. Refers'
  <2>1. \A b \in Allocations : allocation[b] # NoRow =>
            allocation[b].payment \in Payments /\ allocation[b].document \in Invoices
    BY DEF IInv, TypeOK, AllocationRows
  <2>2. allocation'[a] = r /\ \A b \in Allocations \ {a} : allocation'[b] = allocation[b]
    BY <1>8 DEF IInv, TypeOK
  <2>. QED  BY <1>1, <1>7, <1>8, <1>10, <2>1, <2>2 DEF IInv, Refers
<1>. QED  BY <1>9, <1>10, <1>11, <1>12 DEF IInv

LEMMA CommitSteps ==
    ASSUME IInv, NEW t \in Threads, CommitAllocation(t) \/ CommitReversal(t)
    PROVE  IInv'
<1>1. txn[t] \in Moving /\ Moves(t)
  BY Kinds DEF CommitAllocation, CommitReversal, IInv, TypeOK, Holds
<1>2. txn[t].unallocated \in Nat /\ txn[t].outstanding \in Nat /\ txn[t].amount \in Nat
  BY <1>1 DEF Moving
<1>3. CASE CommitAllocation(t)
  <2>1. txn[t].unallocated - txn[t].amount \in Nat /\ txn[t].outstanding - txn[t].amount \in Nat
    BY <1>1, <1>2, <1>3 DEF CommitAllocation, WriteBoth, Moves
  <2>. QED  BY <1>1, <1>3, <2>1, WriteBothStep DEF CommitAllocation
<1>4. CASE CommitReversal(t)
  <2>1. txn[t].unallocated + txn[t].amount \in Nat /\ txn[t].outstanding + txn[t].amount \in Nat
    BY <1>2
  <2>. QED  BY <1>1, <1>4, <2>1, WriteBothStep DEF CommitReversal
<1>. QED  BY <1>3, <1>4
-----------------------------------------------------------------------------
LEMMA Stuttering == IInv /\ UNCHANGED vars => IInv'
<1>. SUFFICES ASSUME IInv, UNCHANGED vars PROVE IInv'
  OBVIOUS
<1>1. NumberInv' /\ LastNumber' = LastNumber
  BY NumbersKept DEF IInv, NumberOf, Counted
<1>2. \A u \in Threads : Holds(u)'
  BY <1>1, Others DEF IInv
<1>. QED  BY <1>1, <1>2 DEF IInv, TypeOK, Refers

\* Every step of every call keeps the invariant (invoices.py, payments.py).
THEOREM Invariance == Spec => []IInv
<1>1. ASSUME IInv, [Next]_vars PROVE IInv'
  <2>1. ASSUME Arrive PROVE IInv'
    BY <1>1, <2>1, CreateInvoiceStep, VoidInvoiceStep, CreatePaymentStep DEF Arrive
  <2>2. ASSUME NEW t \in Threads, Start(t) PROVE IInv'
    <3>1. ASSUME NEW a \in Allocations, NEW p \in Payments, NEW i \in Invoices, NEW x \in Amounts,
                 BeginAllocation(t, a, p, i, x)
          PROVE  IInv'
      BY <1>1, <3>1, BeginStep DEF BeginAllocation
    <3>. QED
      BY <1>1, <2>2, <3>1, BeginUpdateStep, PostLockStep, CancelLockStep, BeginReversalStep DEF Start
  <2>3. ASSUME NEW t \in Threads, Continue(t) PROVE IInv'
    BY <1>1, <2>3, CommitUpdateStep, PostNumberStep, PostCommitStep, CancelCommitStep,
       LockDocumentStep, LockPaymentStep, ReadBothStep, CommitSteps, RollbackStep
       DEF Continue, RefuseAllocation, RefuseReversal
  <2>4. ASSUME NEW t \in Threads, Rollback(t) PROVE IInv'
    BY <1>1, <2>4, RollbackStep DEF Rollback
  <2>. QED
    BY <1>1, <2>1, <2>2, <2>3, <2>4, Stuttering DEF Next
<1>. QED  BY InitInv, <1>1, PTL DEF Spec

\* The rows, the locks and the transactions are what they are declared to be,
\* and no balance goes below zero (invoices.py, payments.py).
THEOREM TypeCorrect == Spec => []TypeOK
BY Invariance, PTL DEF IInv

\* However many postings overlap, fail or are cancelled, the numbers of the
\* invoices are 1, 2, 3 ... without a gap or a repetition (invoices.py, _next_invoice_number).
THEOREM NumbersGaplessHolds == Spec => []NumbersGapless
<1>1. ASSUME IInv PROVE NumbersGapless
  <2>1. PICK n \in Nat : Numbers = 1 .. n
    BY <1>1 DEF IInv, NumberInv
  <2>2. Cardinality(Numbers) = n
    BY <2>1, FS_Interval
  <2>3. \A i \in Invoices : Counted(i) <=> invoice[i].status \in {"posted", "cancelled"}
    BY RowFacts DEF Counted
  <2>4. \A i \in Invoices : Counted(i) => NumberOf(i) = invoice[i].number
    BY DEF Counted, NumberOf
  <2>. QED
    BY <1>1, <2>1, <2>2, <2>3, <2>4 DEF NumbersGapless, IInv, NumberInv, NumberOf
<1>. QED  BY <1>1, Invariance, PTL
-----------------------------------------------------------------------------
(***************************************************************************)
(* Money is conserved.  Two races endanger it, and the theorems below say  *)
(* that no other does: two reversals of one allocation at once             *)
(* (payments.py:527), and an update of an invoice that is being posted     *)
(* (invoices.py, update_invoice).                                          *)
(***************************************************************************)
ReversalsApart == \A t, u \in Threads :
    t # u /\ txn[t].op = "reverse" /\ txn[u].op = "reverse" => txn[t].reverses # txn[u].reverses

EditsApart == \A t, u \in Threads :
    txn[t].op = "update" /\ txn[u].op = "post" => txn[t].document # txn[u].document

\* A call moves money under the lock of the document, then of the payment too.
Guarded(t) == txn[t] \in Moving =>
    /\ txn[t].step # "begun" => documentLock[txn[t].document] = t
    /\ txn[t].step \in {"locked", "read"} => paymentLock[txn[t].payment] = t

\* The id it will insert is nobody else's.
Fresh(t) == txn[t] \in Moving =>
    /\ allocation[txn[t].id] = NoRow
    /\ \A u \in Threads \ {t} : txn[u] \in Moving => txn[u].id # txn[t].id

\* What it read under the locks is still so.
Current(t) == txn[t] \in Moving /\ txn[t].step = "read" =>
    /\ txn[t].unallocated = payment[txn[t].payment].unallocated
    /\ invoice[txn[t].document].status = "posted" =>
           txn[t].outstanding = invoice[txn[t].document].outstanding
    /\ Counted(txn[t].document)

\* An allocation reverses nothing; what a reversal takes back is live.
Undoes(t) == txn[t] \in Moving =>
    /\ txn[t].op = "allocate" => txn[t].reverses = NoAllocation
    /\ txn[t].op = "reverse" =>
           /\ txn[t].reverses \in Allocations
           /\ Live(txn[t].reverses)
           /\ allocation[txn[t].reverses].payment = txn[t].payment
           /\ allocation[txn[t].reverses].document = txn[t].document
           /\ allocation[txn[t].reverses].amount = txn[t].amount

Careful(t) == Guarded(t) /\ Fresh(t) /\ Current(t) /\ Undoes(t)

\* What was allocated was allocated to an invoice once posted, and what is
\* reversed is there.
Rooted == \A a \in Allocations : allocation[a] # NoRow =>
    /\ Counted(allocation[a].document)
    /\ allocation[a].reverses # NoAllocation => allocation[allocation[a].reverses] # NoRow

Inserted == {a \in Allocations : allocation[a] # NoRow}

MInv == /\ \A t \in Threads : Careful(t)
        /\ Rooted
        /\ IsFiniteSet(Inserted)
        /\ AllocationReversedOnce
        /\ PaymentConserved

\* An invoice is not posted while it is being edited.
Drafting(t) == txn[t] \in Editing => invoice[txn[t].document].status # "posted"

EInv == (\A t \in Threads : Drafting(t)) /\ InvoiceConserved
-----------------------------------------------------------------------------
Euros(al, S) == UNION {{a} \X (1 .. al[a].amount) : a \in S}

\* There are as many of them as an allocation is of.
LEMMA FewEuros ==
    ASSUME NEW a, NEW n \in Nat
    PROVE  IsFiniteSet({a} \X (1 .. n)) /\ Cardinality({a} \X (1 .. n)) = n
<1>1. PICK U : U = {a}
  OBVIOUS
<1>2. PICK V : V = 1 .. n
  OBVIOUS
<1>3. IsFiniteSet(U) /\ Cardinality(U) = 1
  BY <1>1, FS_Singleton
<1>4. IsFiniteSet(V)
  BY <1>2, FS_Interval
<1>5. Cardinality(1 .. n) = IF 1 > n THEN 0 ELSE n - 1 + 1
  BY FS_Interval
<1>6. Cardinality(V) = n
  BY <1>2, <1>5
<1>7. IsFiniteSet(U \X V) /\ Cardinality(U \X V) = Cardinality(U) * Cardinality(V)
  BY <1>3, <1>4, FS_Product
<1>. QED  BY <1>1, <1>2, <1>3, <1>6, <1>7

LEMMA EurosFinite ==
    ASSUME NEW S, IsFiniteSet(S), NEW al, \A a \in S : al[a].amount \in Nat
    PROVE  IsFiniteSet(Euros(al, S))
<1>. DEFINE T == {{a} \X (1 .. al[a].amount) : a \in S}
            f == [a \in S |-> {a} \X (1 .. al[a].amount)]
<1>1. f \in Surjection(S, T)
  BY DEF Surjection
<1>2. IsFiniteSet(T)
  BY <1>1, FS_Surjection
<1>3. ASSUME NEW a \in S PROVE IsFiniteSet({a} \X (1 .. al[a].amount))
  BY FewEuros
<1>4. \A U \in T : IsFiniteSet(U)
  BY <1>3
<1>. QED  BY <1>2, <1>4, FS_UNION DEF Euros

\* One more allocation adds what it is of, and one less takes it away.
LEMMA EurosOneMore ==
    ASSUME NEW S, IsFiniteSet(S), NEW al, \A b \in S : al[b].amount \in Nat,
           NEW a, a \notin S, al[a].amount \in Nat
    PROVE  /\ Cardinality(Euros(al, S)) \in Nat
           /\ Cardinality(Euros(al, S \cup {a})) = Cardinality(Euros(al, S)) + al[a].amount
<1>1. PICK A : A = {a} \X (1 .. al[a].amount)
  OBVIOUS
<1>2. Euros(al, S \cup {a}) = Euros(al, S) \cup A
  BY <1>1 DEF Euros
<1>3. Euros(al, S) \cap A = {}
  BY <1>1 DEF Euros
<1>4. IsFiniteSet(A) /\ Cardinality(A) = al[a].amount
  BY <1>1, FewEuros
<1>5. IsFiniteSet(Euros(al, S)) /\ Cardinality(Euros(al, S)) \in Nat
  BY EurosFinite, FS_CardinalityType
<1>6. Cardinality(Euros(al, S) \cup A)
        = Cardinality(Euros(al, S)) + Cardinality(A) - Cardinality(Euros(al, S) \cap A)
  BY <1>4, <1>5, FS_Union
<1>7. Cardinality({}) = 0
  BY FS_EmptySet
<1>8. PICK c \in Nat, n \in Nat : c = Cardinality(Euros(al, S)) /\ n = al[a].amount
  BY <1>5
<1>9. Cardinality(Euros(al, S) \cup A) = c + n - 0
  BY <1>3, <1>4, <1>6, <1>7, <1>8
<1>10. c + n - 0 = c + n
  BY <1>8
<1>11. Cardinality(Euros(al, S \cup {a})) = c + n
  BY <1>2, <1>9, <1>10
<1>. QED  BY <1>8, <1>11

\* What allocations are of is all that counts.
LEMMA EurosSame ==
    ASSUME NEW S, NEW al, NEW bl, \A a \in S : bl[a].amount = al[a].amount
    PROVE  Euros(bl, S) = Euros(al, S)
BY DEF Euros
-----------------------------------------------------------------------------
\* Posted stays posted or becomes cancelled, and what a posted invoice owes
\* changes with its allocations only.
StillOwed(i) == Counted(i) => Counted(i)' /\ (invoice'[i].status = "posted" =>
               invoice[i].status = "posted" /\ invoice'[i].outstanding = invoice[i].outstanding)

MovingFacts(x) == /\ x.id \in Allocations /\ x.payment \in Payments /\ x.document \in Invoices
                  /\ x.amount \in Amounts

LEMMA MovingIs == \A x \in Moving : MovingFacts(x)
BY DEF Moving, MovingFacts

\* A call that waits is as careful as before.
LEMMA CarefulKept ==
    ASSUME IInv, MInv, NEW u \in Threads, txn'[u] = txn[u],
           \A i \in Invoices : documentLock[i] = u => documentLock'[i] = u /\ StillOwed(i),
           \A p \in Payments : paymentLock[p] = u => paymentLock'[p] = u,
           \A p \in Payments : paymentLock[p] = u /\ payment[p] # NoRow =>
               payment'[p].unallocated = payment[p].unallocated,
           txn[u] \in Moving => allocation'[txn[u].id] = NoRow,
           \A w \in Threads \ {u} : txn[u] \in Moving /\ txn'[w] \in Moving => txn'[w].id # txn[u].id,
           \A a \in Allocations : allocation[a] # NoRow => allocation'[a] = allocation[a],
           txn[u] \in Moving /\ txn[u].op = "reverse" => ~Reversed(txn[u].reverses)'
    PROVE  Careful(u)'
<1>1. Careful(u)
  BY DEF MInv
<1>2. Guarded(u)'
  BY <1>1, MovingIs DEF Careful, Guarded, MovingFacts
<1>3. Fresh(u)'
  BY <1>1, MovingIs DEF Careful, Fresh
<1>4. Current(u)'
  <2>. SUFFICES ASSUME txn[u] \in Moving, txn[u].step = "read" PROVE Current(u)'
    BY DEF Current
  <2>1. documentLock[txn[u].document] = u /\ paymentLock[txn[u].payment] = u
    BY <1>1 DEF Careful, Guarded
  <2>2. payment[txn[u].payment] # NoRow
    BY DEF IInv, Holds, Moves
  <2>. QED  BY <1>1, <2>1, <2>2, MovingIs DEF Careful, Current, StillOwed, MovingFacts
<1>5. Undoes(u)'
  BY <1>1, RowFacts DEF Careful, Undoes, Live
<1>. QED  BY <1>2, <1>3, <1>4, <1>5 DEF Careful

\* Another call's step takes neither its transaction nor its locks.
Waits(u) ==
    /\ txn'[u] = txn[u]
    /\ \A i \in Invoices : documentLock[i] = u => documentLock'[i] = u
    /\ \A p \in Payments : paymentLock[p] = u => paymentLock'[p] = u

\* A step that touches no payment and no allocation moves no money, if the calls
\* it takes on are careful.
LEMMA NoMoneyMoved ==
    ASSUME IInv, MInv, UNCHANGED <<payment, allocation>>,
           \A u \in Threads : Careful(u)' \/ Waits(u),
           \A i \in Invoices : StillOwed(i)
    PROVE  MInv'
<1>1. \A u \in Threads : Careful(u)'
  <2>1. ASSUME NEW u \in Threads, Waits(u) PROVE Careful(u)'
    <3>1. Careful(u)
      BY DEF MInv
    <3>2. ASSUME NEW w \in Threads \ {u}, txn[u] \in Moving, txn'[w] \in Moving PROVE txn'[w].id # txn[u].id
      <4>1. CASE Careful(w)'
        <5>1. Fresh(w)'
          BY <4>1 DEF Careful
        <5>. QED  BY <2>1, <3>2, <5>1 DEF Fresh, Waits
      <4>2. CASE Waits(w)
        BY <3>1, <3>2, <4>2, <2>1 DEF Careful, Fresh, Waits
      <4>. QED  BY <4>1, <4>2
    <3>3. txn[u] \in Moving /\ txn[u].op = "reverse" => ~Reversed(txn[u].reverses)'
      BY <2>1, <3>1 DEF Careful, Undoes, Live, Reversed, Waits
    <3>4. txn[u] \in Moving => allocation'[txn[u].id] = NoRow
      BY <3>1 DEF Careful, Fresh
    <3>. QED  BY <2>1, <3>2, <3>3, <3>4, CarefulKept DEF Waits
  <2>. QED  BY <2>1
<1>2. Rooted'
  <2>1. \A a \in Allocations : allocation[a] # NoRow => allocation[a].document \in Invoices
    BY DEF IInv, TypeOK, AllocationRows
  <2>. QED  BY <2>1 DEF MInv, Rooted, StillOwed
<1>3. IsFiniteSet(Inserted)' /\ AllocationReversedOnce'
  BY DEF MInv, Inserted, AllocationReversedOnce
<1>4. PaymentConserved'
  BY DEF MInv, PaymentConserved, Spent, Total, Live, Reversed
<1>. QED  BY <1>1, <1>2, <1>3, <1>4 DEF MInv

\* A call that ends is careful no more.
LEMMA EndedKeeps ==
    ASSUME IInv, MInv, NEW t \in Threads, EndTransaction(t), UNCHANGED <<payment, allocation>>,
           \A i \in Invoices : StillOwed(i)
    PROVE  MInv'
<1>1. txn'[t] = Idle /\ \A u \in Threads \ {t} : txn'[u] = txn[u]
  BY DEF IInv, TypeOK, EndTransaction
<1>2. Idle \notin Moving
  BY DEF Idle, Moving
<1>3. Careful(t)'
  BY <1>1, <1>2 DEF Careful, Guarded, Fresh, Current, Undoes
<1>4. \A u \in Threads \ {t} : Waits(u)
  BY <1>1 DEF IInv, TypeOK, EndTransaction, Waits
<1>. QED  BY <1>3, <1>4, NoMoneyMoved

\* A step that writes no row and takes its caller's part in no movement.
LEMMA NotMoving ==
    ASSUME IInv, MInv, NEW t \in Threads, UNCHANGED <<rows, documentLock, paymentLock>>,
           NEW w, w \notin Moving, txn' = [txn EXCEPT ![t] = w]
    PROVE  MInv'
<1>1. txn'[t] = w /\ \A u \in Threads \ {t} : txn'[u] = txn[u]
  BY DEF IInv, TypeOK
<1>2. Careful(t)'
  BY <1>1 DEF Careful, Guarded, Fresh, Current, Undoes
<1>3. \A i \in Invoices : StillOwed(i)
  BY DEF StillOwed, Counted
<1>. QED  BY <1>1, <1>2, <1>3, NoMoneyMoved DEF Waits

LEMMA BeginUpdateMoney ==
    ASSUME IInv, MInv, NEW t \in Threads, NEW i \in Invoices, NEW x \in Amounts, BeginUpdate(t, i, x)
    PROVE  MInv'
<1>1. [op |-> "update", document |-> i, total |-> x] \notin Moving
  BY DEF Moving
<1>. QED  BY <1>1, NotMoving DEF BeginUpdate

LEMMA LockMoney ==
    ASSUME IInv, MInv, NEW t \in Threads, NEW i \in Invoices, PostLock(t, i) \/ CancelLock(t, i)
    PROVE  MInv'
<1>1. /\ [op |-> "post", step |-> "locked", document |-> i, number |-> 0] \notin Moving
      /\ [op |-> "cancel", document |-> i] \notin Moving
  BY DEF Moving
<1>. QED  BY <1>1, NotMoving DEF PostLock, CancelLock

LEMMA PostNumberMoney == ASSUME IInv, MInv, NEW t \in Threads, PostNumber(t) PROVE MInv'
<1>1. PICK x : x = [txn[t] EXCEPT !.step = "numbered", !.number = LastNumber + 1]
  OBVIOUS
<1>2. txn[t] \in Posting
  BY Kinds DEF PostNumber, IInv, TypeOK
<1>3. x.op = "post"
  BY <1>1, <1>2 DEF Posting
<1>4. x \notin Moving
  BY <1>3 DEF Moving
<1>. QED  BY <1>1, <1>4, NotMoving DEF PostNumber

LEMMA CommitUpdateMoney == ASSUME IInv, MInv, NEW t \in Threads, CommitUpdate(t) PROVE MInv'
<1>1. txn[t] \in Editing /\ Updates(t)
  BY Kinds DEF CommitUpdate, IInv, TypeOK, Holds
<1>2. PICK i \in Invoices : i = txn[t].document /\ invoice[i] \in InvoiceRows
  BY <1>1 DEF Editing, IInv, TypeOK, Updates
<1>3. PICK v : v = [invoice[i] EXCEPT !.total = txn[t].total]
  OBVIOUS
<1>4. v.status = invoice[i].status /\ v.outstanding = invoice[i].outstanding /\ v # NoRow
  BY <1>1, <1>2, <1>3, RowFacts DEF InvoiceRows, Editing
<1>5. invoice' = [invoice EXCEPT ![i] = v]
  BY <1>2, <1>3 DEF CommitUpdate, IInv, TypeOK
<1>6. \A j \in Invoices : StillOwed(j)
  BY <1>4, <1>5 DEF StillOwed, Counted, IInv, TypeOK
<1>. QED  BY <1>6, EndedKeeps DEF CommitUpdate

LEMMA PostCommitMoney == ASSUME IInv, MInv, NEW t \in Threads, PostCommit(t) PROVE MInv'
<1>1. txn[t] \in Posting /\ Posts(t)
  BY Kinds DEF PostCommit, IInv, TypeOK, Holds
<1>2. PICK i \in Invoices : i = txn[t].document /\ invoice[i].status = "draft"
  BY <1>1 DEF Posts, Posting
<1>3. \A j \in Invoices \ {i} : invoice'[j] = invoice[j]
  BY <1>2 DEF PostCommit, IInv, TypeOK
<1>4. \A j \in Invoices : StillOwed(j)
  BY <1>2, <1>3 DEF StillOwed, Counted
<1>. QED  BY <1>4, EndedKeeps DEF PostCommit

LEMMA CancelCommitMoney == ASSUME IInv, MInv, NEW t \in Threads, CancelCommit(t) PROVE MInv'
<1>1. txn[t] \in Cancelling /\ Cancels(t)
  BY Kinds DEF CancelCommit, IInv, TypeOK, Holds
<1>2. PICK i \in Invoices : i = txn[t].document /\ invoice[i].status = "posted" /\ invoice[i] \in InvoiceRows
  BY <1>1, RowFacts DEF Cancels, Cancelling, IInv, TypeOK
<1>3. PICK v : v = [invoice[i] EXCEPT !.status = "cancelled", !.outstanding = 0]
  OBVIOUS
<1>4. v.status = "cancelled" /\ v # NoRow
  BY <1>2, <1>3, RowFacts DEF InvoiceRows
<1>5. invoice'[i] = v /\ \A j \in Invoices \ {i} : invoice'[j] = invoice[j]
  <2>1. invoice' = [invoice EXCEPT ![txn[t].document].status = "cancelled",
                                   ![txn[t].document].outstanding = 0]
    BY DEF CancelCommit
  <2>. QED  BY <1>2, <1>3, <2>1 DEF IInv, TypeOK
<1>6. \A j \in Invoices : StillOwed(j)
  BY <1>4, <1>5 DEF StillOwed, Counted
<1>. QED  BY <1>6, EndedKeeps DEF CancelCommit

\* Invoices that arrive, or are voided, were never posted.
LEMMA DraftMoney ==
    ASSUME IInv, MInv, NEW i \in Invoices,
           VoidInvoice(i) \/ \E x \in Amounts : CreateInvoice(i, x)
    PROVE  MInv'
<1>1. ~Counted(i)
  BY RowFacts DEF VoidInvoice, CreateInvoice, Counted
<1>2. /\ UNCHANGED <<payment, allocation, locks, txn>>
      /\ \A j \in Invoices \ {i} : invoice'[j] = invoice[j]
  BY DEF VoidInvoice, CreateInvoice, IInv, TypeOK
<1>3. \A j \in Invoices : StillOwed(j)
  BY <1>1, <1>2 DEF StillOwed, Counted
<1>. QED  BY <1>2, <1>3, NoMoneyMoved DEF Waits
-----------------------------------------------------------------------------
\* A step that takes one movement on: its id, payment, document, amount and what
\* it undoes stay, and nobody else's locks are taken.
LEMMA MoveOn ==
    ASSUME IInv, MInv, NEW t \in Threads, UNCHANGED rows, txn[t] \in Moving, NEW w \in Moving,
           txn'[t] = w, \A u \in Threads \ {t} : Waits(u),
           w.op = txn[t].op, w.id = txn[t].id, w.payment = txn[t].payment,
           w.document = txn[t].document, w.amount = txn[t].amount, w.reverses = txn[t].reverses,
           Guarded(t)', Current(t)'
    PROVE  MInv'
<1>1. Careful(t)
  BY DEF MInv
<1>2. Fresh(t)'
  BY <1>1 DEF Careful, Fresh, Waits
<1>3. Undoes(t)'
  BY <1>1 DEF Careful, Undoes, Live, Reversed
<1>4. \A i \in Invoices : StillOwed(i)
  BY DEF StillOwed, Counted
<1>. QED  BY <1>2, <1>3, <1>4, NoMoneyMoved DEF Careful

LEMMA LockDocumentMoney == ASSUME IInv, MInv, NEW t \in Threads, LockDocument(t) PROVE MInv'
<1>1. txn[t] \in Moving /\ txn[t].document \in Invoices
  BY Kinds, MovingIs DEF LockDocument, IInv, TypeOK, MovingFacts
<1>2. PICK w : w = [txn[t] EXCEPT !.step = "document"]
  OBVIOUS
<1>3. /\ w \in Moving /\ w.step = "document"
      /\ w.op = txn[t].op /\ w.id = txn[t].id /\ w.payment = txn[t].payment
      /\ w.document = txn[t].document /\ w.amount = txn[t].amount /\ w.reverses = txn[t].reverses
  BY <1>1, <1>2 DEF Moving
<1>4. /\ txn' = [txn EXCEPT ![t] = w]
      /\ documentLock' = [documentLock EXCEPT ![txn[t].document] = t]
      /\ documentLock[txn[t].document] = Free
      /\ UNCHANGED <<rows, rowLock, paymentLock, numberLock>>
  BY <1>2 DEF LockDocument, IInv, TypeOK
<1>5. txn'[t] = w /\ \A u \in Threads \ {t} : Waits(u)
  BY <1>1, <1>4 DEF IInv, TypeOK, Waits
<1>6. documentLock'[w.document] = t
  BY <1>1, <1>3, <1>4 DEF IInv, TypeOK
<1>7. Guarded(t)' /\ Current(t)'
  BY <1>3, <1>5, <1>6 DEF Guarded, Current
<1>. QED  BY <1>1, <1>3, <1>4, <1>5, <1>7, MoveOn

LEMMA LockPaymentMoney == ASSUME IInv, MInv, NEW t \in Threads, LockPayment(t) PROVE MInv'
<1>1. txn[t] \in Moving /\ txn[t].payment \in Payments /\ Guarded(t)
  BY Kinds, MovingIs DEF LockPayment, IInv, TypeOK, MovingFacts, MInv, Careful
<1>2. PICK w : w = [txn[t] EXCEPT !.step = "locked"]
  OBVIOUS
<1>3. /\ w \in Moving /\ w.step = "locked"
      /\ w.op = txn[t].op /\ w.id = txn[t].id /\ w.payment = txn[t].payment
      /\ w.document = txn[t].document /\ w.amount = txn[t].amount /\ w.reverses = txn[t].reverses
  BY <1>1, <1>2 DEF Moving
<1>4. /\ txn' = [txn EXCEPT ![t] = w]
      /\ paymentLock' = [paymentLock EXCEPT ![txn[t].payment] = t]
      /\ paymentLock[txn[t].payment] = Free /\ txn[t].step = "document"
      /\ UNCHANGED <<rows, rowLock, documentLock, numberLock>>
  BY <1>2 DEF LockPayment, IInv, TypeOK
<1>5. txn'[t] = w /\ \A u \in Threads \ {t} : Waits(u)
  BY <1>1, <1>4 DEF IInv, TypeOK, Waits
<1>6. paymentLock'[w.payment] = t /\ documentLock'[w.document] = t
  BY <1>1, <1>3, <1>4 DEF IInv, TypeOK, Guarded
<1>7. Guarded(t)' /\ Current(t)'
  BY <1>3, <1>5, <1>6 DEF Guarded, Current
<1>. QED  BY <1>1, <1>3, <1>4, <1>5, <1>7, MoveOn

LEMMA ReadBothMoney == ASSUME IInv, MInv, NEW t \in Threads, ReadBoth(t) PROVE MInv'
<1>1. txn[t] \in Moving /\ MovingFacts(txn[t]) /\ Guarded(t) /\ Undoes(t)
  BY Kinds, MovingIs DEF ReadBoth, IInv, TypeOK, MInv, Careful
<1>2. PICK p \in Payments, i \in Invoices :
         p = txn[t].payment /\ i = txn[t].document /\ payment[p] # NoRow /\ invoice[i] # NoRow
  BY <1>1 DEF MovingFacts, IInv, Holds, Moves
<1>3. PICK m \in Nat, n \in Nat : m = payment[p].unallocated /\ n = invoice[i].outstanding
  <2>1. payment[p] \in PaymentRows /\ invoice[i] \in InvoiceRows
    BY <1>2 DEF IInv, TypeOK
  <2>. QED  BY <2>1 DEF PaymentRows, InvoiceRows
<1>4. PICK w : w = [txn[t] EXCEPT !.step = "read", !.unallocated = m, !.outstanding = n]
  OBVIOUS
<1>5. /\ w \in Moving /\ w.step = "read" /\ w.unallocated = m /\ w.outstanding = n
      /\ w.op = txn[t].op /\ w.id = txn[t].id /\ w.payment = txn[t].payment
      /\ w.document = txn[t].document /\ w.amount = txn[t].amount /\ w.reverses = txn[t].reverses
  BY <1>1, <1>4 DEF Moving
<1>6. UNCHANGED <<rows, locks>> /\ txn'[t] = w /\ \A u \in Threads \ {t} : txn'[u] = txn[u]
  <2>1. /\ UNCHANGED <<rows, locks>>
        /\ txn' = [txn EXCEPT ![t].step = "read",
                              ![t].unallocated = payment[txn[t].payment].unallocated,
                              ![t].outstanding = invoice[txn[t].document].outstanding]
    BY DEF ReadBoth
  <2>. QED  BY <1>1, <1>2, <1>3, <1>4, <2>1 DEF IInv, TypeOK
<1>7. \A u \in Threads \ {t} : Waits(u)
  BY <1>6 DEF Waits
<1>8. Guarded(t)'
  BY <1>1, <1>5, <1>6 DEF Guarded, ReadBoth
<1>9. Counted(i)
  <2>1. CASE txn[t].op = "allocate"
    BY <1>2, <2>1 DEF ReadBoth, MayAllocate, Counted
  <2>2. CASE txn[t].op = "reverse"
    BY <1>1, <1>2, <2>2 DEF Undoes, Live, MInv, Rooted
  <2>. QED  BY <2>1, <2>2 DEF ReadBoth
<1>10. Current(t)'
  BY <1>2, <1>3, <1>5, <1>6, <1>9 DEF Current, Counted
<1>. QED  BY <1>1, <1>5, <1>6, <1>7, <1>8, <1>10, MoveOn

LEMMA BeginMoney ==
    ASSUME IInv, MInv, NEW t \in Threads, NEW op \in {"allocate", "reverse"}, NEW a \in Allocations,
           NEW p \in Payments, NEW i \in Invoices, NEW x \in Amounts,
           NEW of \in Allocations \cup {NoAllocation}, Begin(t, op, a, p, i, x, of),
           op = "allocate" => of = NoAllocation,
           op = "reverse" => /\ of \in Allocations /\ Live(of) /\ allocation[of].payment = p
                             /\ allocation[of].document = i /\ allocation[of].amount = x
    PROVE  MInv'
<1>1. PICK w : w = [op |-> op, step |-> "begun", id |-> a, payment |-> p, document |-> i,
                    amount |-> x, reverses |-> of, unallocated |-> 0, outstanding |-> 0]
  OBVIOUS
<1>2. /\ w \in Moving /\ w.step = "begun" /\ w.op = op /\ w.id = a /\ w.payment = p
      /\ w.document = i /\ w.amount = x /\ w.reverses = of
  BY <1>1 DEF Moving
<1>3. txn' = [txn EXCEPT ![t] = w] /\ Unused(a) /\ UNCHANGED <<rows, locks>>
  BY <1>1 DEF Begin
<1>4. txn'[t] = w /\ \A u \in Threads \ {t} : txn'[u] = txn[u]
  BY <1>3 DEF IInv, TypeOK
<1>5. Guarded(t)' /\ Current(t)'
  BY <1>2, <1>4 DEF Guarded, Current
<1>6. Fresh(t)'
  <2>1. \A u \in Threads : txn[u] \in Moving => txn[u].id # a
    BY <1>3 DEF Unused, Moving
  <2>. QED  BY <1>2, <1>3, <1>4, <2>1 DEF Fresh, Unused
<1>7. Undoes(t)'
  BY <1>2, <1>3, <1>4 DEF Undoes, Live, Reversed
<1>8. \A i_1 \in Invoices : StillOwed(i_1)
  BY <1>3 DEF StillOwed, Counted
<1>. QED  BY <1>3, <1>4, <1>5, <1>6, <1>7, <1>8, NoMoneyMoved DEF Careful, Waits

LEMMA BeginReversalMoney ==
    ASSUME IInv, MInv, NEW t \in Threads, NEW a \in Allocations, NEW of \in Allocations,
           BeginReversal(t, a, of)
    PROVE  MInv'
<1>1. allocation[of] \in AllocationRows
  BY DEF BeginReversal, IInv, TypeOK
<1>2. /\ allocation[of].payment \in Payments /\ allocation[of].document \in Invoices
      /\ allocation[of].amount \in Amounts
  BY <1>1 DEF AllocationRows
<1>. QED  BY <1>2, BeginMoney DEF BeginReversal, Live

\* A payment that arrives has no allocation yet.
LEMMA CreatePaymentMoney ==
    ASSUME IInv, MInv, NEW p \in Payments, NEW x \in Amounts, CreatePayment(p, x) PROVE MInv'
<1>1. PICK v : v = [status |-> "received", amount |-> x, unallocated |-> x]
  OBVIOUS
<1>2. v.amount = x /\ v.unallocated = x /\ x \in Nat
  BY <1>1
<1>3. /\ payment[p] = NoRow /\ payment' = [payment EXCEPT ![p] = v]
      /\ UNCHANGED <<invoice, allocation, locks, txn>>
  BY <1>1 DEF CreatePayment
<1>4. payment'[p] = v /\ \A q \in Payments \ {p} : payment'[q] = payment[q]
  BY <1>3 DEF IInv, TypeOK
<1>5. ASSUME NEW u \in Threads PROVE Careful(u)'
  <2>1. Careful(u)
    BY DEF MInv
  <2>2. Guarded(u)' /\ Fresh(u)' /\ Undoes(u)'
    BY <1>3, <2>1 DEF Careful, Guarded, Fresh, Undoes, Live, Reversed
  <2>3. txn[u] \in Moving => txn[u].payment \in Payments \ {p}
    BY <1>3, MovingIs DEF IInv, Holds, Moves, MovingFacts
  <2>4. Current(u)'
    BY <1>3, <1>4, <2>1, <2>3 DEF Careful, Current, Counted
  <2>. QED  BY <2>2, <2>4 DEF Careful
<1>6. Rooted' /\ IsFiniteSet(Inserted)' /\ AllocationReversedOnce'
  BY <1>3 DEF MInv, Rooted, Counted, Inserted, AllocationReversedOnce
<1>7. PaymentConserved'
  <2>1. \A q \in Payments : Spent(q)' = Spent(q) /\ Total(Spent(q))' = Total(Spent(q))
    BY <1>3 DEF Spent, Total, Live, Reversed
  <2>2. Spent(p) = {}
    BY <1>3 DEF Spent, Live, IInv, Refers
  <2>3. Total({}) = 0
    BY FS_EmptySet DEF Total
  <2>. QED  BY <1>2, <1>4, <2>1, <2>2, <2>3 DEF MInv, PaymentConserved
<1>. QED  BY <1>5, <1>6, <1>7 DEF MInv
-----------------------------------------------------------------------------
LEMMA TotalMore ==
    ASSUME IInv, IsFiniteSet(Inserted), NEW S \in SUBSET Inserted, NEW a, a \notin Inserted,
           allocation'[a].amount \in Nat, \A b \in S : allocation'[b] = allocation[b]
    PROVE  /\ Total(S) \in Nat
           /\ Cardinality(Euros(allocation', S \cup {a})) = Total(S) + allocation'[a].amount
<1>1. IsFiniteSet(S)
  BY FS_Subset
<1>2. \A b \in S : allocation'[b].amount \in Nat
  BY DEF Inserted, IInv, TypeOK, AllocationRows
<1>3. Euros(allocation', S) = Euros(allocation, S)
  BY EurosSame
<1>4. Total(S) = Cardinality(Euros(allocation, S))
  BY DEF Total, Euros
<1>5. a \notin S
  OBVIOUS
<1>6. PICK al : al = allocation'
  OBVIOUS
<1>7. /\ Cardinality(Euros(al, S)) \in Nat
      /\ Cardinality(Euros(al, S \cup {a})) = Cardinality(Euros(al, S)) + al[a].amount
  <2>. (\A b \in S : al[b].amount \in Nat) /\ al[a].amount \in Nat
    BY <1>2, <1>6
  <2>. QED  BY <1>1, <1>5, EurosOneMore
<1>. QED  BY <1>3, <1>4, <1>6, <1>7

LEMMA TotalLess ==
    ASSUME IInv, IsFiniteSet(Inserted), NEW S \in SUBSET Inserted, NEW of \in S,
           \A b \in S : allocation'[b] = allocation[b]
    PROVE  /\ Cardinality(Euros(allocation', S \ {of})) \in Nat
           /\ allocation[of].amount \in Nat
           /\ Total(S) = Cardinality(Euros(allocation', S \ {of})) + allocation[of].amount
<1>1. PICK R : R = S \ {of}
  OBVIOUS
<1>2. IsFiniteSet(R)
  BY <1>1, FS_Subset
<1>3. \A b \in S : allocation[b].amount \in Nat
  BY DEF Inserted, IInv, TypeOK, AllocationRows
<1>4. /\ Cardinality(Euros(allocation, R)) \in Nat
      /\ Cardinality(Euros(allocation, R \cup {of})) = Cardinality(Euros(allocation, R)) + allocation[of].amount
  <2>. (\A b \in R : allocation[b].amount \in Nat) /\ allocation[of].amount \in Nat /\ of \notin R
    BY <1>1, <1>3
  <2>. QED  BY <1>2, EurosOneMore
<1>5. R \cup {of} = S
  BY <1>1
<1>6. Euros(allocation', R) = Euros(allocation, R)
  BY <1>1, EurosSame
<1>7. Total(S) = Cardinality(Euros(allocation, S))
  BY DEF Total, Euros
<1>. QED  BY <1>1, <1>3, <1>4, <1>5, <1>6, <1>7

\* A movement inserts a row and sets two balances.
Moved(t, p, i, a, r, m, n) ==
    /\ txn[t] \in Moving /\ txn[t].step = "read"
    /\ txn[t].payment = p /\ txn[t].document = i /\ txn[t].id = a
    /\ r \in AllocationRows /\ r.payment = p /\ r.document = i
    /\ r.amount = txn[t].amount /\ r.reverses = txn[t].reverses
    /\ allocation' = [allocation EXCEPT ![a] = r]
    /\ payment[p] # NoRow /\ payment'[p].amount = payment[p].amount /\ payment'[p].unallocated = m
    /\ \A q \in Payments \ {p} : payment'[q] = payment[q]
    /\ invoice[i] # NoRow /\ invoice'[i] # NoRow /\ invoice'[i].status = invoice[i].status
    /\ invoice'[i].total = invoice[i].total /\ invoice'[i].outstanding = n
    /\ \A j \in Invoices \ {i} : invoice'[j] = invoice[j]
    /\ EndTransaction(t)

LEMMA WritesBoth ==
    ASSUME IInv, NEW t \in Threads, NEW m \in Nat, NEW n \in Nat, WriteBoth(t, m, n),
           txn[t] \in Moving
    PROVE  \E p \in Payments, i \in Invoices, a \in Allocations, r \in AllocationRows : Moved(t, p, i, a, r, m, n)
<1>1. PICK p \in Payments, i \in Invoices, a \in Allocations :
         /\ p = txn[t].payment /\ i = txn[t].document /\ a = txn[t].id
         /\ payment[p] # NoRow /\ invoice[i] # NoRow
  BY MovingIs DEF IInv, Holds, Moves, MovingFacts
<1>2. payment[p] \in PaymentRows /\ invoice[i] \in InvoiceRows
  BY <1>1 DEF IInv, TypeOK
<1>3. PICK v : v = [invoice[i] EXCEPT !.outstanding = n]
  OBVIOUS
<1>4. /\ v.status = invoice[i].status /\ v.total = invoice[i].total /\ v.outstanding = n
      /\ v \in InvoiceRows
  BY <1>2, <1>3 DEF InvoiceRows
<1>5. PICK y : y = [payment[p] EXCEPT !.unallocated = m]
  OBVIOUS
<1>6. y.amount = payment[p].amount /\ y.unallocated = m
  BY <1>2, <1>5 DEF PaymentRows
<1>7. /\ txn[t].step = "read" /\ EndTransaction(t)
      /\ invoice' = [invoice EXCEPT ![i] = v]
      /\ payment' = [payment EXCEPT ![p] = y]
  BY <1>1, <1>3, <1>5 DEF WriteBoth, IInv, TypeOK
<1>8. PICK r : r = [status |-> "recorded", payment |-> p, document |-> i,
                    amount |-> txn[t].amount, reverses |-> txn[t].reverses]
  OBVIOUS
<1>9. r \in AllocationRows /\ r.payment = p /\ r.document = i /\ r.amount = txn[t].amount /\ r.reverses = txn[t].reverses
  BY <1>1, <1>8 DEF AllocationRows, Moving
<1>10. allocation' = [allocation EXCEPT ![a] = r]
  BY <1>1, <1>8 DEF WriteBoth
<1>11. /\ invoice'[i] = v /\ \A j \in Invoices \ {i} : invoice'[j] = invoice[j]
       /\ payment'[p] = y /\ \A q \in Payments \ {p} : payment'[q] = payment[q]
  BY <1>7 DEF IInv, TypeOK
<1>12. v # NoRow
  BY <1>4, RowFacts
<1>13. Moved(t, p, i, a, r, m, n)
  BY <1>1, <1>4, <1>6, <1>7, <1>9, <1>10, <1>11, <1>12 DEF Moved
<1>. QED  BY <1>9, <1>13

\* Which allocations are live after it.
LEMMA LiveAfter ==
    ASSUME IInv, MInv, NEW t \in Threads, NEW p \in Payments, NEW i \in Invoices,
           NEW a \in Allocations, NEW r, NEW m, NEW n, Moved(t, p, i, a, r, m, n)
    PROVE  /\ allocation[a] = NoRow /\ allocation'[a] = r /\ r # NoRow
           /\ \A b \in Allocations \ {a} : allocation'[b] = allocation[b]
           /\ txn[t].op = "allocate" =>
                  /\ r.reverses = NoAllocation /\ Live(a)'
                  /\ \A b \in Allocations \ {a} : Live(b)' <=> Live(b)
           /\ txn[t].op = "reverse" =>
                  /\ r.reverses \in Allocations \ {a} /\ Live(r.reverses) /\ ~Live(a)'
                  /\ \A b \in Allocations \ {a} : Live(b)' <=> Live(b) /\ b # r.reverses
<1>1. Fresh(t) /\ Undoes(t)
  BY DEF MInv, Careful
<1>2. /\ allocation[a] = NoRow /\ allocation'[a] = r /\ r # NoRow
      /\ \A b \in Allocations \ {a} : allocation'[b] = allocation[b]
  BY <1>1, RowFacts DEF Moved, Fresh, IInv, TypeOK
<1>3. ASSUME txn[t].op = "allocate"
      PROVE  /\ r.reverses = NoAllocation /\ Live(a)'
             /\ \A b \in Allocations \ {a} : Live(b)' <=> Live(b)
  <2>1. r.reverses = NoAllocation
    BY <1>1, <1>3 DEF Moved, Undoes
  <2>2. \A b \in Allocations : Reversed(b)' <=> Reversed(b)
    BY <1>2, <2>1 DEF Reversed
  <2>3. ~Reversed(a)
    BY <1>2 DEF Reversed, MInv, Rooted
  <2>. QED  BY <1>2, <2>1, <2>2, <2>3 DEF Live
<1>4. ASSUME txn[t].op = "reverse"
      PROVE  /\ r.reverses \in Allocations \ {a} /\ Live(r.reverses) /\ ~Live(a)'
             /\ \A b \in Allocations \ {a} : Live(b)' <=> Live(b) /\ b # r.reverses
  <2>1. r.reverses \in Allocations \ {a} /\ Live(r.reverses)
    BY <1>1, <1>2, <1>4 DEF Moved, Undoes, Live
  <2>2. \A b \in Allocations : Reversed(b)' <=> Reversed(b) \/ b = r.reverses
    BY <1>2 DEF Reversed
  <2>3. ~Live(a)'
    BY <1>2, <2>1 DEF Live
  <2>. QED  BY <1>2, <2>1, <2>2, <2>3 DEF Live
<1>. QED  BY <1>2, <1>3, <1>4

\* The movements that wait are as careful as before: each reverses another
\* allocation, and moves money of another payment and another document.
LEMMA CarefulAfter ==
    ASSUME IInv, MInv, ReversalsApart, NEW t \in Threads, NEW p \in Payments, NEW i \in Invoices,
           NEW a \in Allocations, NEW r, NEW m, NEW n, Moved(t, p, i, a, r, m, n)
    PROVE  \A u \in Threads : Careful(u)'
<1>1. /\ allocation[a] = NoRow /\ allocation'[a] = r /\ r # NoRow
      /\ \A b \in Allocations \ {a} : allocation'[b] = allocation[b]
  BY LiveAfter
<1>2. txn[t] \in Moving /\ documentLock[i] = t /\ paymentLock[p] = t /\ EndTransaction(t)
  BY DEF Moved, MInv, Careful, Guarded
<1>3. txn'[t] = Idle /\ \A u \in Threads \ {t} : Waits(u)
  BY <1>2 DEF IInv, TypeOK, EndTransaction, Waits
<1>4. Idle \notin Moving
  BY DEF Idle, Moving
<1>5. Careful(t)'
  BY <1>3, <1>4 DEF Careful, Guarded, Fresh, Current, Undoes
<1>6. ASSUME NEW u \in Threads \ {t} PROVE Careful(u)'
  <2>1. Fresh(u) /\ Undoes(u) /\ Fresh(t) /\ Undoes(t) /\ txn'[u] = txn[u]
    BY <1>3 DEF MInv, Careful, Waits
  <2>2. \A j \in Invoices : documentLock[j] = u => documentLock'[j] = u /\ StillOwed(j)
    BY <1>2, <1>3 DEF Waits, Moved, StillOwed, Counted
  <2>3. \A q \in Payments : paymentLock[q] = u => paymentLock'[q] = u /\ payment'[q] = payment[q]
    BY <1>2, <1>3 DEF Waits, Moved
  <2>4. txn[u] \in Moving => allocation'[txn[u].id] = NoRow
    BY <1>1, <1>2, <2>1, MovingIs DEF Moved, Fresh, MovingFacts
  <2>5. \A w \in Threads \ {u} : txn[u] \in Moving /\ txn'[w] \in Moving => txn'[w].id # txn[u].id
    BY <1>3, <1>4, <2>1 DEF Fresh, Waits
  <2>6. \A b \in Allocations : allocation[b] # NoRow => allocation'[b] = allocation[b]
    BY <1>1
  <2>7. ASSUME txn[u] \in Moving, txn[u].op = "reverse" PROVE ~Reversed(txn[u].reverses)'
    <3>1. r.reverses # txn[u].reverses
      <4>1. CASE txn[t].op = "allocate"
        BY <1>2, <2>1, <2>7, <4>1 DEF Undoes, Moved
      <4>2. CASE txn[t].op = "reverse"
        BY <2>7, <4>2 DEF ReversalsApart, Moved
      <4>. QED  BY <1>2, <4>1, <4>2 DEF Moving
    <3>. QED  BY <1>1, <2>1, <2>7, <3>1 DEF Undoes, Live, Reversed
  <2>. QED  BY <2>1, <2>2, <2>3, <2>4, <2>5, <2>6, <2>7, CarefulKept
<1>. QED  BY <1>5, <1>6

\* What the allocations of a payment, or of an invoice, add up to changes by what
\* is moved: S are the live ones before, T those after.
LEMMA TotalAfter ==
    ASSUME IInv, MInv, NEW t \in Threads, NEW p \in Payments, NEW i \in Invoices,
           NEW a \in Allocations, NEW r, NEW m, NEW n, Moved(t, p, i, a, r, m, n),
           NEW S \in SUBSET Inserted, NEW T
    PROVE  /\ T = S => Cardinality(Euros(allocation', T)) = Total(S)
           /\ txn[t].op = "allocate" /\ T = S \cup {a} =>
                  /\ Total(S) \in Nat
                  /\ Cardinality(Euros(allocation', T)) = Total(S) + txn[t].amount
           /\ txn[t].op = "reverse" /\ r.reverses \in S /\ T = S \ {r.reverses} =>
                  /\ Cardinality(Euros(allocation', T)) \in Nat
                  /\ Total(S) = Cardinality(Euros(allocation', T)) + txn[t].amount
<1>1. /\ allocation[a] = NoRow /\ allocation'[a] = r
      /\ \A b \in Allocations \ {a} : allocation'[b] = allocation[b]
  BY LiveAfter
<1>2. (\A b \in S : allocation'[b] = allocation[b]) /\ a \notin Inserted /\ IsFiniteSet(Inserted)
  BY <1>1 DEF Inserted, MInv
<1>3. r.amount = txn[t].amount /\ r.amount \in Nat
  BY MovingIs DEF Moved, MovingFacts
<1>4. T = S => Cardinality(Euros(allocation', T)) = Total(S)
  BY <1>2, EurosSame DEF Total, Euros
<1>5. txn[t].op = "allocate" /\ T = S \cup {a} =>
          Total(S) \in Nat /\ Cardinality(Euros(allocation', T)) = Total(S) + txn[t].amount
  BY <1>1, <1>2, <1>3, TotalMore
<1>6. ASSUME txn[t].op = "reverse", r.reverses \in S, T = S \ {r.reverses}
      PROVE  /\ Cardinality(Euros(allocation', T)) \in Nat
             /\ Total(S) = Cardinality(Euros(allocation', T)) + txn[t].amount
  <2>1. allocation[r.reverses].amount = txn[t].amount
    BY <1>6 DEF Moved, MInv, Careful, Undoes
  <2>. QED  BY <1>2, <1>6, <2>1, TotalLess
<1>. QED  BY <1>4, <1>5, <1>6

\* The rows that refer to each other still do, and there are finitely many.
LEMMA RowsAfter ==
    ASSUME IInv, MInv, NEW t \in Threads, NEW p \in Payments, NEW i \in Invoices,
           NEW a \in Allocations, NEW r, NEW m, NEW n, Moved(t, p, i, a, r, m, n)
    PROVE  Rooted' /\ IsFiniteSet(Inserted)' /\ AllocationReversedOnce'
<1>1. /\ allocation[a] = NoRow /\ allocation'[a] = r /\ r # NoRow
      /\ \A b \in Allocations \ {a} : allocation'[b] = allocation[b]
      /\ txn[t].op = "allocate" => r.reverses = NoAllocation
      /\ txn[t].op = "reverse" => r.reverses \in Allocations \ {a} /\ Live(r.reverses)
  BY LiveAfter
<1>2. txn[t].op \in {"allocate", "reverse"} /\ r.document = i
  BY DEF Moved, Moving
<1>3. \A b \in Allocations : allocation[b] # NoRow =>
          /\ allocation[b].document \in Invoices
          /\ allocation[b].reverses # NoAllocation => allocation[b].reverses \in Allocations \ {a}
  BY <1>1 DEF IInv, TypeOK, AllocationRows, MInv, Rooted
<1>4. \A j \in Invoices : Counted(j) => Counted(j)'
  BY DEF Moved, Counted
<1>5. Counted(i)
  BY DEF Moved, MInv, Careful, Current
<1>6. Rooted'
  <2>. SUFFICES ASSUME NEW b \in Allocations, allocation'[b] # NoRow
                PROVE  /\ Counted(allocation[b].document)'
                       /\ allocation'[b].reverses # NoAllocation =>
                              allocation'[allocation'[b].reverses] # NoRow
    BY DEF Rooted
  <2>1. CASE b = a
    BY <1>1, <1>2, <1>4, <1>5, <2>1 DEF Live
  <2>2. CASE b # a
    BY <1>1, <1>3, <1>4, <2>2 DEF MInv, Rooted
  <2>. QED  BY <2>1, <2>2
<1>7. IsFiniteSet(Inserted)'
  <2>1. Inserted' = Inserted \cup {a}
    BY <1>1 DEF Inserted
  <2>. QED  BY <2>1, FS_AddElement DEF MInv
<1>8. AllocationReversedOnce'
  <2>1. \A b \in Allocations : allocation[b] # NoRow => r.reverses = NoAllocation \/ allocation[b].reverses # r.reverses
    BY <1>1, <1>2 DEF Live, Reversed
  <2>2. \A b \in Allocations \ {a} : allocation'[b] # NoRow /\ r.reverses # NoAllocation =>
            allocation'[b].reverses # r.reverses
    BY <1>1, <2>1
  <2>3. \A b, c \in Allocations \ {a} :
            b # c /\ allocation'[b] # NoRow /\ allocation'[c] # NoRow /\ allocation'[b].reverses # NoAllocation =>
                allocation'[b].reverses # allocation'[c].reverses
    BY <1>1 DEF MInv, AllocationReversedOnce
  <2>. QED  BY <1>1, <2>2, <2>3 DEF AllocationReversedOnce
<1>. QED  BY <1>6, <1>7, <1>8

\* A commit writes the balances it read, less or plus what it moves.
LEMMA CommitMoves ==
    ASSUME IInv, MInv, NEW t \in Threads, CommitAllocation(t) \/ CommitReversal(t)
    PROVE  \E p \in Payments, i \in Invoices, a \in Allocations, r \in AllocationRows, m \in Nat, n \in Nat :
               /\ Moved(t, p, i, a, r, m, n)
               /\ txn[t].unallocated \in Nat /\ txn[t].outstanding \in Nat /\ txn[t].amount \in Nat
               /\ txn[t].unallocated = payment[p].unallocated
               /\ invoice[i].status = "posted" => txn[t].outstanding = invoice[i].outstanding
               /\ \/ /\ txn[t].op = "allocate"
                     /\ txn[t].unallocated = m + txn[t].amount /\ txn[t].outstanding = n + txn[t].amount
                  \/ /\ txn[t].op = "reverse"
                     /\ m = txn[t].unallocated + txn[t].amount /\ n = txn[t].outstanding + txn[t].amount
<1>1. txn[t] \in Moving /\ Moves(t)
  BY Kinds DEF CommitAllocation, CommitReversal, IInv, TypeOK, Holds
<1>2. txn[t].unallocated \in Nat /\ txn[t].outstanding \in Nat /\ txn[t].amount \in Nat
  BY <1>1 DEF Moving
<1>3. PICK m \in Nat, n \in Nat :
         /\ WriteBoth(t, m, n)
         /\ \/ /\ txn[t].op = "allocate"
               /\ txn[t].unallocated = m + txn[t].amount /\ txn[t].outstanding = n + txn[t].amount
            \/ /\ txn[t].op = "reverse"
               /\ m = txn[t].unallocated + txn[t].amount /\ n = txn[t].outstanding + txn[t].amount
  <2>1. CASE CommitAllocation(t)
    <3>1. txn[t].amount <= txn[t].unallocated /\ txn[t].amount <= txn[t].outstanding
      BY <1>1, <2>1 DEF CommitAllocation, WriteBoth, Moves
    <3>2. PICK m \in Nat, n \in Nat :
            m = txn[t].unallocated - txn[t].amount /\ n = txn[t].outstanding - txn[t].amount
      BY <1>2, <3>1
    <3>3. txn[t].unallocated = m + txn[t].amount /\ txn[t].outstanding = n + txn[t].amount
      BY <1>2, <3>2
    <3>. QED  BY <2>1, <3>2, <3>3 DEF CommitAllocation
  <2>2. CASE CommitReversal(t)
    BY <1>2, <2>2 DEF CommitReversal
  <2>. QED  BY <2>1, <2>2
<1>4. PICK p \in Payments, i \in Invoices, a \in Allocations, r \in AllocationRows : Moved(t, p, i, a, r, m, n)
  BY <1>1, <1>3, WritesBoth
<1>5. /\ txn[t].unallocated = payment[p].unallocated
      /\ invoice[i].status = "posted" => txn[t].outstanding = invoice[i].outstanding
  BY <1>4 DEF Moved, MInv, Careful, Current
<1>. QED  BY <1>2, <1>3, <1>4, <1>5

LEMMA CommitMoney ==
    ASSUME IInv, MInv, ReversalsApart, NEW t \in Threads, CommitAllocation(t) \/ CommitReversal(t)
    PROVE  MInv'
<1>1. PICK p \in Payments, i \in Invoices, a \in Allocations, r \in AllocationRows, m \in Nat, n \in Nat :
         /\ Moved(t, p, i, a, r, m, n)
         /\ txn[t].unallocated \in Nat /\ txn[t].amount \in Nat
         /\ txn[t].unallocated = payment[p].unallocated
         /\ \/ txn[t].op = "allocate" /\ txn[t].unallocated = m + txn[t].amount
            \/ txn[t].op = "reverse" /\ m = txn[t].unallocated + txn[t].amount
  BY CommitMoves
<1>2. (\A u \in Threads : Careful(u)') /\ Rooted' /\ IsFiniteSet(Inserted)' /\ AllocationReversedOnce'
  BY <1>1, CarefulAfter, RowsAfter
<1>3. /\ payment[p] # NoRow /\ payment'[p].amount = payment[p].amount /\ payment'[p].unallocated = m
      /\ \A q \in Payments \ {p} : payment'[q] = payment[q]
      /\ r.payment = p
  BY <1>1 DEF Moved
<1>4. PaymentConserved'
  <2>. SUFFICES ASSUME NEW q \in Payments, payment'[q] # NoRow
                PROVE  payment'[q].amount = payment'[q].unallocated + Total(Spent(q))'
    BY DEF PaymentConserved
  <2>1. PICK S, T : S = Spent(q) /\ T = Spent(q)'
    OBVIOUS
  <2>2. S \in SUBSET Inserted /\ Total(Spent(q))' = Cardinality(Euros(allocation', T))
    BY <2>1 DEF Spent, Live, Inserted, Total, Euros
  <2>3. payment[q] # NoRow /\ payment[q].amount = payment[q].unallocated + Total(S)
    BY <1>3, <2>1 DEF MInv, PaymentConserved
  <2>4. CASE txn[t].op = "allocate"
    <3>1. T = IF q = p THEN S \cup {a} ELSE S
      BY <1>1, <1>3, <2>1, <2>4, LiveAfter DEF Spent, Live
    <3>. QED
      BY <1>1, <1>3, <2>2, <2>3, <2>4, <3>1, TotalAfter
  <2>5. CASE txn[t].op = "reverse"
    <3>1. Undoes(t)
      BY DEF MInv, Careful
    <3>2. allocation[r.reverses].payment = p /\ r.reverses \in Allocations /\ Live(r.reverses)
      BY <1>1, <2>5, <3>1 DEF Moved, Undoes
    <3>3. T = IF q = p THEN S \ {r.reverses} ELSE S
      <4>1. /\ ~Live(a)' /\ ~Live(a)
            /\ \A b \in Allocations \ {a} :
                   allocation'[b] = allocation[b] /\ (Live(b)' <=> Live(b) /\ b # r.reverses)
        BY <1>1, <2>5, LiveAfter DEF Live
      <4>2. T = {b \in Allocations : Live(b)' /\ allocation'[b].payment = q}
        BY <2>1 DEF Spent
      <4>3. S = {b \in Allocations : Live(b) /\ allocation[b].payment = q}
        BY <2>1 DEF Spent
      <4>. QED  BY <3>2, <4>1, <4>2, <4>3
    <3>4. q = p => r.reverses \in S
      BY <2>1, <3>2 DEF Spent
    <3>. QED
      BY <1>1, <1>3, <2>2, <2>3, <2>5, <3>3, <3>4, TotalAfter
  <2>. QED  BY <1>1, <2>4, <2>5
<1>. QED  BY <1>2, <1>4 DEF MInv
-----------------------------------------------------------------------------
LEMMA MoneyInit == Init => MInv /\ EInv
<1>. SUFFICES ASSUME Init PROVE MInv /\ EInv
  OBVIOUS
<1>1. Idle \notin Moving /\ Idle \notin Editing
  BY DEF Idle, Moving, Editing
<1>2. (\A t \in Threads : Careful(t)) /\ Rooted /\ AllocationReversedOnce /\ PaymentConserved
  BY <1>1 DEF Init, Careful, Guarded, Fresh, Current, Undoes, Rooted, AllocationReversedOnce, PaymentConserved
<1>3. Inserted = {}
  BY DEF Init, Inserted
<1>4. (\A t \in Threads : Drafting(t)) /\ InvoiceConserved
  BY <1>1, RowFacts DEF Init, Drafting, InvoiceConserved
<1>. QED  BY <1>2, <1>3, <1>4, FS_EmptySet DEF MInv, EInv

LEMMA MoneyStep == IInv /\ MInv /\ ReversalsApart /\ [Next]_vars => MInv'
<1>. SUFFICES ASSUME IInv, MInv, ReversalsApart, [Next]_vars PROVE MInv'
  OBVIOUS
<1>1. CASE Arrive
  BY <1>1, DraftMoney, CreatePaymentMoney DEF Arrive
<1>2. ASSUME NEW t \in Threads, Start(t) PROVE MInv'
  <2>1. ASSUME NEW a \in Allocations, NEW p \in Payments, NEW i \in Invoices, NEW x \in Amounts,
               BeginAllocation(t, a, p, i, x)
        PROVE  MInv'
    BY <2>1, BeginMoney DEF BeginAllocation
  <2>. QED
    BY <1>2, <2>1, BeginUpdateMoney, LockMoney, BeginReversalMoney DEF Start
<1>3. ASSUME NEW t \in Threads, Continue(t) PROVE MInv'
  <2>1. ASSUME RefuseAllocation(t) \/ RefuseReversal(t) PROVE MInv'
    BY <2>1, EndedKeeps DEF RefuseAllocation, RefuseReversal, StillOwed, Counted
  <2>. QED
    BY <1>3, <2>1, CommitUpdateMoney, PostNumberMoney, PostCommitMoney, CancelCommitMoney,
       LockDocumentMoney, LockPaymentMoney, ReadBothMoney, CommitMoney DEF Continue
<1>4. ASSUME NEW t \in Threads, Rollback(t) PROVE MInv'
  BY <1>4, EndedKeeps DEF Rollback, StillOwed, Counted
<1>5. CASE UNCHANGED vars
  BY <1>5, NoMoneyMoved DEF Waits, StillOwed, Counted
<1>. QED  BY <1>1, <1>2, <1>3, <1>4, <1>5 DEF Next

\* As long as no reversal overlaps another of the same allocation, whatever else
\* overlaps, the money of every payment is either unallocated or in its live
\* allocations (payments.py, create_allocation and reverse_allocation).
THEOREM PaymentConservedHolds == Spec /\ []ReversalsApart => []PaymentConserved
<1>1. MInv => PaymentConserved
  BY DEF MInv
<1>. QED  BY <1>1, MoneyInit, MoneyStep, Invariance, PTL DEF Spec

\* Under the same hypothesis no allocation is reversed twice: the look for an
\* earlier reversal is only wrong about one still in progress (payments.py:527).
THEOREM ReversedOnce == Spec /\ []ReversalsApart => []AllocationReversedOnce
<1>1. MInv => AllocationReversedOnce
  BY DEF MInv
<1>. QED  BY <1>1, MoneyInit, MoneyStep, Invariance, PTL DEF Spec
-----------------------------------------------------------------------------
\* A step after which no other invoice is posted, and none owes or is of
\* something else, by which no allocation is made.
LEMMA NothingPosted ==
    ASSUME EInv, UNCHANGED allocation,
           \A u \in Threads : txn'[u] = txn[u] \/ txn'[u] \notin Editing \/ Drafting(u)',
           \A i \in Invoices : invoice'[i].status = "posted" =>
               /\ invoice[i].status = "posted" /\ invoice'[i].total = invoice[i].total
               /\ invoice'[i].outstanding = invoice[i].outstanding
    PROVE  EInv'
<1>1. \A u \in Threads : txn[u] \in Editing => txn[u].document \in Invoices
  BY DEF Editing
<1>2. \A u \in Threads : Drafting(u)'
  BY <1>1 DEF EInv, Drafting
<1>3. \A i \in Invoices : Total(PaidOff(i))' = Total(PaidOff(i))
  BY DEF PaidOff, Total, Live, Reversed
<1>. QED  BY <1>2, <1>3 DEF EInv, InvoiceConserved

\* A call that ends edits nothing.
LEMMA EndedDrafts ==
    ASSUME IInv, NEW t \in Threads, EndTransaction(t)
    PROVE  \A u \in Threads : txn'[u] = txn[u] \/ txn'[u] \notin Editing
<1>1. Idle \notin Editing
  BY DEF Idle, Editing
<1>. QED  BY <1>1 DEF IInv, TypeOK, EndTransaction

LEMMA StartOwed ==
    ASSUME IInv, EInv, NEW t \in Threads, Start(t) PROVE EInv'
<1>1. ASSUME NEW i \in Invoices, NEW x \in Amounts, BeginUpdate(t, i, x) PROVE EInv'
  <2>1. PICK w : w = [op |-> "update", document |-> i, total |-> x]
    OBVIOUS
  <2>2. w.document = i /\ txn' = [txn EXCEPT ![t] = w] /\ invoice[i].status = "draft" /\ UNCHANGED rows
    BY <1>1, <2>1 DEF BeginUpdate
  <2>3. Drafting(t)'
    BY <2>2 DEF Drafting, IInv, TypeOK
  <2>4. \A u \in Threads \ {t} : txn'[u] = txn[u]
    BY <2>2 DEF IInv, TypeOK
  <2>. QED  BY <2>2, <2>3, <2>4, NothingPosted
<1>2. ASSUME NEW w, w \notin Editing, txn' = [txn EXCEPT ![t] = w], UNCHANGED rows PROVE EInv'
  <2>1. \A u \in Threads : txn'[u] = txn[u] \/ txn'[u] \notin Editing
    BY <1>2 DEF IInv, TypeOK
  <2>. QED  BY <1>2, <2>1, NothingPosted
<1>3. ASSUME NEW i \in Invoices, PostLock(t, i) \/ CancelLock(t, i) PROVE EInv'
  <2>1. /\ [op |-> "post", step |-> "locked", document |-> i, number |-> 0] \notin Editing
        /\ [op |-> "cancel", document |-> i] \notin Editing
    BY DEF Editing
  <2>. QED  BY <1>2, <1>3, <2>1 DEF PostLock, CancelLock
<1>4. ASSUME NEW op, NEW a, NEW p, NEW i, NEW x, NEW of, op # "update", Begin(t, op, a, p, i, x, of) PROVE EInv'
  <2>1. [op |-> op, step |-> "begun", id |-> a, payment |-> p, document |-> i, amount |-> x,
         reverses |-> of, unallocated |-> 0, outstanding |-> 0] \notin Editing
    BY <1>4 DEF Editing
  <2>. QED  BY <1>2, <1>4, <2>1 DEF Begin
<1>. QED
  BY <1>1, <1>3, <1>4 DEF Start, BeginAllocation, BeginReversal

\* Posting finds no allocation to the invoice, which then owes its total.
LEMMA PostCommitOwed ==
    ASSUME IInv, MInv, EInv, EditsApart, NEW t \in Threads, PostCommit(t) PROVE EInv'
<1>1. txn[t] \in Posting /\ Posts(t)
  BY Kinds DEF PostCommit, IInv, TypeOK, Holds
<1>2. PICK i \in Invoices : i = txn[t].document /\ invoice[i].status = "draft" /\ invoice[i] \in InvoiceRows
  BY <1>1, RowFacts DEF Posts, Posting, IInv, TypeOK
<1>3. PICK v : v = [invoice[i] EXCEPT !.status = "posted", !.number = txn[t].number,
                                      !.outstanding = invoice[i].total]
  OBVIOUS
<1>4. v.outstanding = v.total /\ v.total \in Nat
  BY <1>2, <1>3 DEF InvoiceRows
<1>5. invoice'[i] = v /\ \A j \in Invoices \ {i} : invoice'[j] = invoice[j]
  <2>1. invoice' = [invoice EXCEPT
              ![txn[t].document].status = "posted", ![txn[t].document].number = txn[t].number,
              ![txn[t].document].outstanding = invoice[txn[t].document].total]
    BY DEF PostCommit
  <2>. QED  BY <1>2, <1>3, <2>1 DEF IInv, TypeOK
<1>6. PaidOff(i)' = {}
  <2>1. ~Counted(i)
    BY <1>2 DEF Counted
  <2>. QED  BY <2>1 DEF PaidOff, Live, MInv, Rooted, PostCommit
<1>7. Total(PaidOff(i))' = 0
  BY <1>6, FS_EmptySet DEF Total
<1>8. \A j \in Invoices : Total(PaidOff(j))' = Total(PaidOff(j))
  BY DEF PaidOff, Total, Live, Reversed, PostCommit
<1>9. InvoiceConserved'
  BY <1>4, <1>5, <1>7, <1>8 DEF EInv, InvoiceConserved
<1>10. ASSUME NEW u \in Threads PROVE Drafting(u)'
  <2>1. txn'[u] = txn[u] \/ txn'[u] \notin Editing
    BY EndedDrafts DEF PostCommit
  <2>2. txn[u] \in Editing => txn[u].op = "update" /\ txn[u].document \in Invoices
    BY DEF Editing
  <2>3. txn[u] \in Editing => txn[u].document # i
    BY <1>1, <1>2, <2>2 DEF EditsApart, Posting
  <2>. QED  BY <1>5, <2>1, <2>2, <2>3 DEF EInv, Drafting
<1>. QED  BY <1>9, <1>10 DEF EInv

\* An update that commits finds its invoice not posted.
LEMMA CommitUpdateOwed ==
    ASSUME IInv, EInv, NEW t \in Threads, CommitUpdate(t) PROVE EInv'
<1>1. txn[t] \in Editing /\ Updates(t) /\ Drafting(t)
  BY Kinds DEF CommitUpdate, IInv, TypeOK, Holds, EInv
<1>2. PICK i \in Invoices : i = txn[t].document /\ invoice[i] \in InvoiceRows /\ invoice[i].status # "posted"
  BY <1>1 DEF Editing, IInv, TypeOK, Updates, Drafting
<1>3. PICK v : v = [invoice[i] EXCEPT !.total = txn[t].total]
  OBVIOUS
<1>4. v.status = invoice[i].status
  BY <1>2, <1>3 DEF InvoiceRows
<1>5. invoice'[i] = v /\ \A j \in Invoices \ {i} : invoice'[j] = invoice[j]
  BY <1>2, <1>3 DEF CommitUpdate, IInv, TypeOK
<1>6. UNCHANGED allocation /\ \A u \in Threads : txn'[u] = txn[u] \/ txn'[u] \notin Editing
  BY EndedDrafts DEF CommitUpdate
<1>. QED  BY <1>2, <1>4, <1>5, <1>6, NothingPosted

LEMMA CancelCommitOwed ==
    ASSUME IInv, EInv, NEW t \in Threads, CancelCommit(t) PROVE EInv'
<1>1. txn[t] \in Cancelling /\ Cancels(t)
  BY Kinds DEF CancelCommit, IInv, TypeOK, Holds
<1>2. PICK i \in Invoices : i = txn[t].document /\ invoice[i] \in InvoiceRows
  BY <1>1, RowFacts DEF Cancels, Cancelling, IInv, TypeOK
<1>3. PICK v : v = [invoice[i] EXCEPT !.status = "cancelled", !.outstanding = 0]
  OBVIOUS
<1>4. v.status = "cancelled"
  BY <1>2, <1>3 DEF InvoiceRows
<1>5. invoice'[i] = v /\ \A j \in Invoices \ {i} : invoice'[j] = invoice[j]
  <2>1. invoice' = [invoice EXCEPT ![txn[t].document].status = "cancelled",
                                   ![txn[t].document].outstanding = 0]
    BY DEF CancelCommit
  <2>. QED  BY <1>2, <1>3, <2>1 DEF IInv, TypeOK
<1>6. UNCHANGED allocation /\ \A u \in Threads : txn'[u] = txn[u] \/ txn'[u] \notin Editing
  BY EndedDrafts DEF CancelCommit
<1>. QED  BY <1>4, <1>5, <1>6, NothingPosted

LEMMA ArriveOwed == ASSUME IInv, EInv, Arrive PROVE EInv'
<1>1. UNCHANGED <<allocation, txn>>
  BY DEF Arrive, VoidInvoice, CreateInvoice, CreatePayment
<1>2. ASSUME NEW i \in Invoices, VoidInvoice(i) \/ (\E x \in Amounts : CreateInvoice(i, x))
      PROVE  EInv'
  <2>1. CASE VoidInvoice(i)
    <3>1. PICK v : v = [invoice[i] EXCEPT !.status = "voided"]
      OBVIOUS
    <3>2. v.status = "voided"
      BY <2>1, <3>1, RowFacts DEF VoidInvoice, IInv, TypeOK, InvoiceRows
    <3>3. invoice' = [invoice EXCEPT ![i] = v]
      BY <2>1, <3>1 DEF VoidInvoice, IInv, TypeOK
    <3>4. invoice'[i] = v /\ \A j \in Invoices \ {i} : invoice'[j] = invoice[j]
      BY <3>3 DEF IInv, TypeOK
    <3>. QED  BY <1>1, <3>2, <3>4, NothingPosted
  <2>2. ASSUME NEW x \in Amounts, CreateInvoice(i, x) PROVE EInv'
    <3>1. PICK v : v = [status |-> "draft", total |-> x, outstanding |-> 0, number |-> 0]
      OBVIOUS
    <3>2. v.status = "draft" /\ invoice'[i] = v /\ \A j \in Invoices \ {i} : invoice'[j] = invoice[j]
      BY <2>2, <3>1 DEF CreateInvoice, IInv, TypeOK
    <3>. QED  BY <1>1, <3>2, NothingPosted
  <2>. QED  BY <1>2, <2>1, <2>2
<1>3. ASSUME NEW p \in Payments, NEW x \in Amounts, CreatePayment(p, x) PROVE EInv'
  BY <1>1, <1>3, NothingPosted DEF CreatePayment
<1>. QED  BY <1>2, <1>3 DEF Arrive

\* What a commit takes from what a posted invoice owes is in its allocation.
LEMMA CommitOwed ==
    ASSUME IInv, MInv, EInv, NEW t \in Threads, CommitAllocation(t) \/ CommitReversal(t)
    PROVE  EInv'
<1>1. PICK p \in Payments, i \in Invoices, a \in Allocations, r \in AllocationRows, m \in Nat, n \in Nat :
         /\ Moved(t, p, i, a, r, m, n)
         /\ txn[t].outstanding \in Nat /\ txn[t].amount \in Nat
         /\ invoice[i].status = "posted" => txn[t].outstanding = invoice[i].outstanding
         /\ \/ txn[t].op = "allocate" /\ txn[t].outstanding = n + txn[t].amount
            \/ txn[t].op = "reverse" /\ n = txn[t].outstanding + txn[t].amount
  BY CommitMoves
<1>2. /\ invoice'[i].status = invoice[i].status
      /\ invoice'[i].total = invoice[i].total /\ invoice'[i].outstanding = n
      /\ \A j \in Invoices \ {i} : invoice'[j] = invoice[j]
      /\ r.document = i /\ EndTransaction(t)
  BY <1>1 DEF Moved
<1>3. \A u \in Threads : Drafting(u)'
  BY <1>2, EndedDrafts DEF EInv, Drafting, Editing
<1>4. InvoiceConserved'
  <2>. SUFFICES ASSUME NEW j \in Invoices, invoice'[j].status = "posted"
                PROVE  invoice'[j].total = invoice'[j].outstanding + Total(PaidOff(j))'
    BY DEF InvoiceConserved
  <2>1. PICK S, T : S = PaidOff(j) /\ T = PaidOff(j)'
    OBVIOUS
  <2>2. S \in SUBSET Inserted /\ Total(PaidOff(j))' = Cardinality(Euros(allocation', T))
    BY <2>1 DEF PaidOff, Live, Inserted, Total, Euros
  <2>3. invoice[j].status = "posted" /\ invoice[j].total = invoice[j].outstanding + Total(S)
    BY <1>2, <2>1 DEF EInv, InvoiceConserved
  <2>4. CASE txn[t].op = "allocate"
    <3>1. T = IF j = i THEN S \cup {a} ELSE S
      BY <1>1, <1>2, <2>1, <2>4, LiveAfter DEF PaidOff, Live
    <3>. QED
      BY <1>1, <1>2, <2>2, <2>3, <2>4, <3>1, TotalAfter
  <2>5. CASE txn[t].op = "reverse"
    <3>1. Undoes(t)
      BY DEF MInv, Careful
    <3>2. allocation[r.reverses].document = i /\ r.reverses \in Allocations /\ Live(r.reverses)
      BY <1>1, <2>5, <3>1 DEF Moved, Undoes
    <3>3. T = IF j = i THEN S \ {r.reverses} ELSE S
      <4>1. /\ ~Live(a)' /\ ~Live(a)
            /\ \A b \in Allocations \ {a} :
                   allocation'[b] = allocation[b] /\ (Live(b)' <=> Live(b) /\ b # r.reverses)
        BY <1>1, <2>5, LiveAfter DEF Live
      <4>2. T = {b \in Allocations : Live(b)' /\ allocation'[b].document = j}
        BY <2>1 DEF PaidOff
      <4>3. S = {b \in Allocations : Live(b) /\ allocation[b].document = j}
        BY <2>1 DEF PaidOff
      <4>. QED  BY <3>2, <4>1, <4>2, <4>3
    <3>4. j = i => r.reverses \in S
      BY <2>1, <3>2 DEF PaidOff
    <3>. QED
      BY <1>1, <1>2, <2>2, <2>3, <2>5, <3>3, <3>4, TotalAfter
  <2>. QED  BY <1>1, <2>4, <2>5
<1>. QED  BY <1>3, <1>4 DEF EInv

LEMMA OwedStep == IInv /\ MInv /\ EInv /\ EditsApart /\ [Next]_vars => EInv'
<1>. SUFFICES ASSUME IInv, MInv, EInv, EditsApart, [Next]_vars PROVE EInv'
  OBVIOUS
<1>1. ASSUME NEW t \in Threads, Continue(t) \/ Rollback(t) PROVE EInv'
  <2>1. ASSUME RefuseAllocation(t) \/ RefuseReversal(t) \/ Rollback(t) PROVE EInv'
    BY <2>1, EndedDrafts, NothingPosted DEF RefuseAllocation, RefuseReversal, Rollback
  <2>2. ASSUME UNCHANGED rows, \A u \in Threads : txn'[u] = txn[u] \/ txn'[u] \notin Editing
        PROVE  EInv'
    BY <2>2, NothingPosted
  <2>3. ASSUME NEW w, w.op # "update", txn'[t] = w, \A u \in Threads \ {t} : txn'[u] = txn[u], UNCHANGED rows
        PROVE  EInv'
    BY <2>2, <2>3 DEF Editing
  <2>4. ASSUME PostNumber(t) \/ LockDocument(t) \/ LockPayment(t) \/ ReadBoth(t) PROVE EInv'
    <3>1. UNCHANGED rows /\ \A u \in Threads \ {t} : txn'[u] = txn[u]
      BY <2>4 DEF PostNumber, LockDocument, LockPayment, ReadBoth, IInv, TypeOK
    <3>2. txn[t] \in Posting \cup Moving
      BY <2>4, Kinds DEF PostNumber, LockDocument, LockPayment, ReadBoth, IInv, TypeOK
    <3>3. txn'[t].op = txn[t].op
      BY <2>4, <3>2 DEF PostNumber, LockDocument, LockPayment, ReadBoth, IInv, TypeOK, Posting, Moving
    <3>4. txn'[t].op # "update"
      BY <3>2, <3>3 DEF Posting, Moving
    <3>. QED  BY <2>3, <3>1, <3>4
  <2>. QED
    BY <1>1, <2>1, <2>4, CommitUpdateOwed, PostCommitOwed, CancelCommitOwed, CommitOwed DEF Continue
<1>2. CASE UNCHANGED vars
  BY <1>2, NothingPosted
<1>. QED  BY <1>1, <1>2, ArriveOwed, StartOwed DEF Next

\* As long as no reversal overlaps another of the same allocation, and no update
\* of an invoice its posting, a posted invoice owes its total less what was
\* allocated to it (invoices.py, payments.py).
THEOREM InvoiceConservedHolds == Spec /\ []ReversalsApart /\ []EditsApart => []InvoiceConserved
<1>1. EInv => InvoiceConserved
  BY DEF EInv
<1>. QED  BY <1>1, MoneyInit, MoneyStep, OwedStep, Invariance, PTL DEF Spec

\* Under the hypotheses of both, the two sides are conserved at once.
THEOREM MoneyConservedHolds == Spec /\ []ReversalsApart /\ []EditsApart => []MoneyConserved
<1>1. MInv /\ EInv => MoneyConserved
  BY DEF MInv, EInv, MoneyConserved
<1>. QED  BY <1>1, MoneyInit, MoneyStep, OwedStep, Invariance, PTL DEF Spec
-----------------------------------------------------------------------------
\* A request is in no operation it may not be.
Permitted == \A t \in Threads : txn[t].op = "none" \/ txn[t].op \in May[t]

LEMMA PermittedStep == IInv /\ Permitted /\ [Next]_vars => Permitted'
<1>. SUFFICES ASSUME IInv, Permitted, [Next]_vars PROVE Permitted'
  OBVIOUS
<1>1. ASSUME NEW t \in Threads, NEW w, txn' = [txn EXCEPT ![t] = w],
             w.op \in May[t] \/ w.op = "none" \/ w.op = txn[t].op
      PROVE  Permitted'
  BY <1>1 DEF Permitted, IInv, TypeOK
<1>2. ASSUME NEW t \in Threads, EndTransaction(t) PROVE Permitted'
  BY <1>1, <1>2 DEF EndTransaction, Idle
<1>3. ASSUME NEW t \in Threads, Start(t) PROVE Permitted'
  <2>1. ASSUME NEW i, NEW x, BeginUpdate(t, i, x) PROVE Permitted'
    <3>1. [op |-> "update", document |-> i, total |-> x].op = "update"
      OBVIOUS
    <3>. QED  BY <1>1, <2>1, <3>1 DEF BeginUpdate
  <2>2. ASSUME NEW i, PostLock(t, i) PROVE Permitted'
    <3>1. [op |-> "post", step |-> "locked", document |-> i, number |-> 0].op = "post"
      OBVIOUS
    <3>. QED  BY <1>1, <2>2, <3>1 DEF PostLock
  <2>3. ASSUME NEW i, CancelLock(t, i) PROVE Permitted'
    <3>1. [op |-> "cancel", document |-> i].op = "cancel"
      OBVIOUS
    <3>. QED  BY <1>1, <2>3, <3>1 DEF CancelLock
  <2>4. ASSUME NEW op, NEW a, NEW p, NEW i, NEW x, NEW of, Begin(t, op, a, p, i, x, of) PROVE Permitted'
    <3>1. [op |-> op, step |-> "begun", id |-> a, payment |-> p, document |-> i, amount |-> x,
           reverses |-> of, unallocated |-> 0, outstanding |-> 0].op = op
      OBVIOUS
    <3>. QED  BY <1>1, <2>4, <3>1 DEF Begin
  <2>. QED
    BY <1>3, <2>1, <2>2, <2>3, <2>4 DEF Start, BeginAllocation, BeginReversal
<1>4. ASSUME NEW t \in Threads, PostNumber(t) \/ LockDocument(t) \/ LockPayment(t) \/ ReadBoth(t)
      PROVE  Permitted'
  <2>1. \A u \in Threads \ {t} : txn'[u] = txn[u]
    BY <1>4 DEF PostNumber, LockDocument, LockPayment, ReadBoth, IInv, TypeOK
  <2>2. txn[t] \in Posting \cup Moving
    BY <1>4, Kinds DEF PostNumber, LockDocument, LockPayment, ReadBoth, IInv, TypeOK
  <2>3. txn'[t].op = txn[t].op
    BY <1>4, <2>2 DEF PostNumber, LockDocument, LockPayment, ReadBoth, IInv, TypeOK, Posting, Moving
  <2>. QED  BY <2>1, <2>3 DEF Permitted
<1>5. ASSUME NEW t \in Threads, Continue(t) \/ Rollback(t) PROVE Permitted'
  BY <1>2, <1>4, <1>5 DEF Continue, Rollback, CommitUpdate, PostCommit, CancelCommit, RefuseAllocation,
     RefuseReversal, CommitAllocation, CommitReversal, WriteBoth
<1>6. CASE UNCHANGED txn
  BY <1>6 DEF Permitted
<1>. QED
  BY <1>3, <1>5, <1>6 DEF Next, Arrive, VoidInvoice, CreateInvoice, CreatePayment

\* Reversals that come one at a time are apart, whatever else any number of
\* requests do; so are updates and postings that one request makes.
THEOREM ApartWhenAlone ==
    ASSUME \A t, u \in Threads : "reverse" \in May[t] /\ "reverse" \in May[u] => t = u,
           \A t, u \in Threads : "update" \in May[t] /\ "post" \in May[u] => t = u
    PROVE  Spec => []ReversalsApart /\ []EditsApart
<1>1. Init => Permitted
  BY DEF Init, Permitted, Idle
<1>2. Permitted => ReversalsApart /\ EditsApart
  BY DEF Permitted, ReversalsApart, EditsApart
<1>. QED  BY <1>1, <1>2, PermittedStep, Invariance, PTL DEF Spec
-----------------------------------------------------------------------------
(***************************************************************************)
(* The accounts.  Under the two locks what a movement read is what is      *)
(* there, so that its commit is one exchange by the balances of that       *)
(* moment; every other step is a stutter or moves one side alone.          *)
(***************************************************************************)
LeftNow     == [p \in Payments |-> IF payment[p] = NoRow THEN 0 ELSE payment[p].unallocated]
ReceivedNow == {p \in Payments : payment[p] # NoRow}
OwedNow     == [i \in Invoices |-> IF i \in Posted THEN invoice[i].outstanding ELSE 0]
ClosedNow   == {i \in Invoices : invoice[i].status = "cancelled"}
GivenNow    == {Gift(a) : a \in {b \in Allocations : Live(b)}}
ReturnedNow == {Gift(a) : a \in {b \in Allocations : allocation[b] # NoRow /\ Reversed(b)}}

AccountsKept == UNCHANGED <<LeftNow, ReceivedNow, OwedNow, Posted, ClosedNow, GivenNow, ReturnedNow>>

LEMMA GiftsKept == ASSUME UNCHANGED allocation PROVE UNCHANGED <<GivenNow, ReturnedNow>>
BY DEF GivenNow, ReturnedNow, Gift, Live, Reversed

LEMMA PaymentsKept == ASSUME UNCHANGED payment PROVE UNCHANGED <<LeftNow, ReceivedNow>>
BY DEF LeftNow, ReceivedNow

\* An invoice whose draft or void is written is neither due nor closed.
LEMMA InvoicesKept ==
    ASSUME \A i \in Invoices :
               \/ invoice'[i] = invoice[i]
               \/ {invoice[i].status, invoice'[i].status} \cap {"posted", "cancelled"} = {}
               \/ invoice'[i].status = invoice[i].status /\ invoice'[i].outstanding = invoice[i].outstanding
    PROVE  UNCHANGED <<OwedNow, Posted, ClosedNow>>
<1>1. \A i \in Invoices : /\ invoice'[i].status = "posted" <=> invoice[i].status = "posted"
                          /\ invoice'[i].status = "cancelled" <=> invoice[i].status = "cancelled"
      OBVIOUS
<1>2. Posted' = Posted /\ ClosedNow' = ClosedNow
      BY <1>1 DEF Posted, ClosedNow
<1>3. \A i \in Invoices : i \in Posted => invoice'[i].outstanding = invoice[i].outstanding
      BY DEF Posted
<1>. QED  BY <1>2, <1>3 DEF OwedNow

LEMMA RowsKept == ASSUME UNCHANGED rows PROVE AccountsKept
BY GiftsKept, PaymentsKept, InvoicesKept DEF AccountsKept

LEMMA ReceiveStep ==
    ASSUME IInv, NEW p \in Payments, NEW x \in Amounts, CreatePayment(p, x)
    PROVE  Accounts!Receive(p, x)
<1>1. PICK w : w = [status |-> "received", amount |-> x, unallocated |-> x]
  OBVIOUS
<1>2. w # NoRow /\ w.unallocated = x
  BY <1>1 DEF NoRow
<1>3. payment[p] = NoRow /\ payment'[p] = w /\ \A q \in Payments \ {p} : payment'[q] = payment[q]
  BY <1>1 DEF CreatePayment, IInv, TypeOK
<1>4. ReceivedNow' = ReceivedNow \cup {p} /\ p \notin ReceivedNow
  BY <1>2, <1>3 DEF ReceivedNow
<1>5. LeftNow' = [LeftNow EXCEPT ![p] = x]
  <2>1. \A q \in Payments : (IF payment'[q] = NoRow THEN 0 ELSE payment'[q].unallocated)
                                 = (IF q = p THEN x ELSE IF payment[q] = NoRow THEN 0 ELSE payment[q].unallocated)
    BY <1>2, <1>3
  <2>. QED  BY <2>1 DEF LeftNow
<1>6. UNCHANGED <<OwedNow, Posted, ClosedNow, GivenNow, ReturnedNow>>
  BY GiftsKept, InvoicesKept DEF CreatePayment
<1>. QED
  BY <1>4, <1>5, <1>6
     DEF Accounts!Receive, LeftNow, ReceivedNow, OwedNow, ClosedNow, GivenNow, ReturnedNow

\* One invoice is written, and becomes due or closed.
LEMMA OneInvoice ==
    ASSUME NEW i \in Invoices, NEW v, invoice'[i] = v, \A j \in Invoices \ {i} : invoice'[j] = invoice[j]
    PROVE  /\ v.status = "posted" /\ i \notin Posted \cup ClosedNow =>
                  /\ Posted' = Posted \cup {i} /\ ClosedNow' = ClosedNow
                  /\ OwedNow' = [OwedNow EXCEPT ![i] = v.outstanding]
           /\ v.status = "cancelled" /\ i \in Posted =>
                  /\ Posted' = Posted \ {i} /\ ClosedNow' = ClosedNow \cup {i}
                  /\ OwedNow' = [OwedNow EXCEPT ![i] = 0]
<1>1. ASSUME v.status = "posted", i \notin Posted \cup ClosedNow
      PROVE  Posted' = Posted \cup {i} /\ ClosedNow' = ClosedNow /\ OwedNow' = [OwedNow EXCEPT ![i] = v.outstanding]
  <2>1. Posted' = Posted \cup {i} /\ ClosedNow' = ClosedNow
    BY <1>1 DEF Posted, ClosedNow
  <2>. QED  BY <1>1, <2>1 DEF OwedNow
<1>2. ASSUME v.status = "cancelled", i \in Posted
      PROVE  Posted' = Posted \ {i} /\ ClosedNow' = ClosedNow \cup {i} /\ OwedNow' = [OwedNow EXCEPT ![i] = 0]
  <2>1. Posted' = Posted \ {i} /\ ClosedNow' = ClosedNow \cup {i}
    BY <1>2 DEF Posted, ClosedNow
  <2>. QED  BY <1>2, <2>1 DEF OwedNow
<1>. QED  BY <1>1, <1>2

LEMMA BillStep ==
    ASSUME IInv, NEW t \in Threads, PostCommit(t)
    PROVE  \E i \in Invoices, x \in Amounts : Accounts!Bill(i, x)
<1>1. txn[t] \in Posting /\ Posts(t)
  BY Kinds DEF PostCommit, IInv, TypeOK, Holds
<1>2. PICK i \in Invoices : i = txn[t].document /\ invoice[i].status = "draft" /\ invoice[i] \in InvoiceRows
  BY <1>1, RowFacts DEF Posts, Posting, IInv, TypeOK
<1>3. PICK v : v = [invoice[i] EXCEPT !.status = "posted", !.number = txn[t].number,
                                      !.outstanding = invoice[i].total]
  OBVIOUS
<1>4. PICK x \in Amounts : v.status = "posted" /\ v.outstanding = x
  BY <1>2, <1>3 DEF InvoiceRows
<1>5. invoice'[i] = v /\ \A j \in Invoices \ {i} : invoice'[j] = invoice[j]
  <2>1. invoice' = [invoice EXCEPT
              ![txn[t].document].status = "posted", ![txn[t].document].number = txn[t].number,
              ![txn[t].document].outstanding = invoice[txn[t].document].total]
    BY DEF PostCommit
  <2>. QED  BY <1>2, <1>3, <2>1 DEF IInv, TypeOK
<1>6. i \notin Posted \cup ClosedNow
  BY <1>2 DEF Posted, ClosedNow
<1>7. UNCHANGED <<LeftNow, ReceivedNow, GivenNow, ReturnedNow>>
  BY GiftsKept, PaymentsKept DEF PostCommit
<1>8. Accounts!Bill(i, x)
  BY <1>4, <1>5, <1>6, <1>7, OneInvoice
     DEF Accounts!Bill, LeftNow, ReceivedNow, OwedNow, ClosedNow, GivenNow, ReturnedNow
<1>. QED  BY <1>8

LEMMA CloseStep ==
    ASSUME IInv, NEW t \in Threads, CancelCommit(t)
    PROVE  \E i \in Invoices : Accounts!Cancel(i)
<1>1. txn[t] \in Cancelling /\ Cancels(t)
  BY Kinds DEF CancelCommit, IInv, TypeOK, Holds
<1>2. PICK i \in Invoices : i = txn[t].document /\ invoice[i].status = "posted" /\ invoice[i] \in InvoiceRows
  BY <1>1, RowFacts DEF Cancels, Cancelling, IInv, TypeOK
<1>3. PICK v : v = [invoice[i] EXCEPT !.status = "cancelled", !.outstanding = 0]
  OBVIOUS
<1>4. v.status = "cancelled"
  BY <1>2, <1>3 DEF InvoiceRows
<1>5. invoice'[i] = v /\ \A j \in Invoices \ {i} : invoice'[j] = invoice[j]
  <2>1. invoice' = [invoice EXCEPT ![txn[t].document].status = "cancelled",
                                   ![txn[t].document].outstanding = 0]
    BY DEF CancelCommit
  <2>. QED  BY <1>2, <1>3, <2>1 DEF IInv, TypeOK
<1>6. i \in Posted
  BY <1>2 DEF Posted
<1>7. UNCHANGED <<LeftNow, ReceivedNow, GivenNow, ReturnedNow>>
  BY GiftsKept, PaymentsKept DEF CancelCommit
<1>8. Accounts!Cancel(i)
  BY <1>4, <1>5, <1>6, <1>7, OneInvoice
     DEF Accounts!Cancel, LeftNow, ReceivedNow, OwedNow, ClosedNow, GivenNow, ReturnedNow
<1>. QED  BY <1>8

\* Other writes of invoices leave the accounts as they are.
LEMMA DraftsKept ==
    ASSUME IInv,
           \/ \E i \in Invoices : VoidInvoice(i) \/ (\E x \in Amounts : CreateInvoice(i, x))
           \/ \E t \in Threads : CommitUpdate(t)
    PROVE  AccountsKept
<1>1. UNCHANGED <<payment, allocation>>
  BY DEF VoidInvoice, CreateInvoice, CommitUpdate
<1>2. ASSUME NEW i \in Invoices, VoidInvoice(i) PROVE AccountsKept
  <2>1. PICK v : v = [invoice[i] EXCEPT !.status = "voided"]
    OBVIOUS
  <2>2. v.status = "voided" /\ invoice[i].status = "draft"
    BY <1>2, <2>1, RowFacts DEF VoidInvoice, IInv, TypeOK, InvoiceRows
  <2>3. invoice' = [invoice EXCEPT ![i] = v]
    BY <1>2, <2>1 DEF VoidInvoice, IInv, TypeOK
  <2>4. invoice'[i] = v /\ \A j \in Invoices \ {i} : invoice'[j] = invoice[j]
    BY <2>3 DEF IInv, TypeOK
  <2>. QED  BY <1>1, <2>2, <2>4, GiftsKept, PaymentsKept, InvoicesKept DEF AccountsKept
<1>3. ASSUME NEW i \in Invoices, NEW x \in Amounts, CreateInvoice(i, x) PROVE AccountsKept
  <2>1. PICK v : v = [status |-> "draft", total |-> x, outstanding |-> 0, number |-> 0]
    OBVIOUS
  <2>2. /\ v.status = "draft" /\ invoice[i].status = "none"
        /\ invoice'[i] = v /\ \A j \in Invoices \ {i} : invoice'[j] = invoice[j]
    BY <1>3, <2>1, RowFacts DEF CreateInvoice, IInv, TypeOK
  <2>. QED  BY <1>1, <2>2, GiftsKept, PaymentsKept, InvoicesKept DEF AccountsKept
<1>4. ASSUME NEW t \in Threads, CommitUpdate(t) PROVE AccountsKept
  <2>1. txn[t] \in Editing /\ Updates(t)
    BY <1>4, Kinds DEF CommitUpdate, IInv, TypeOK, Holds
  <2>2. PICK i \in Invoices : i = txn[t].document /\ invoice[i] \in InvoiceRows
    BY <2>1 DEF Editing, IInv, TypeOK, Updates
  <2>3. PICK v : v = [invoice[i] EXCEPT !.total = txn[t].total]
    OBVIOUS
  <2>4. v.status = invoice[i].status /\ v.outstanding = invoice[i].outstanding
    BY <2>2, <2>3 DEF InvoiceRows
  <2>5. invoice'[i] = v /\ \A j \in Invoices \ {i} : invoice'[j] = invoice[j]
    BY <1>4, <2>2, <2>3 DEF CommitUpdate, IInv, TypeOK
  <2>. QED  BY <1>1, <2>4, <2>5, GiftsKept, PaymentsKept, InvoicesKept DEF AccountsKept
<1>. QED  BY <1>2, <1>3, <1>4

-----------------------------------------------------------------------------
\* A movement writes one balance on each side.
LEMMA BalancesMoved ==
    ASSUME IInv, IInv', NEW t \in Threads, NEW p \in Payments, NEW i \in Invoices,
           NEW a \in Allocations, NEW r \in AllocationRows, NEW m \in Nat, NEW n \in Nat, Moved(t, p, i, a, r, m, n)
    PROVE  /\ p \in ReceivedNow /\ ReceivedNow' = ReceivedNow
           /\ LeftNow[p] = payment[p].unallocated /\ LeftNow' = [LeftNow EXCEPT ![p] = m]
           /\ Posted' = Posted /\ ClosedNow' = ClosedNow
           /\ i \in Posted => OwedNow[i] = invoice[i].outstanding
           /\ OwedNow' = IF i \in Posted THEN [OwedNow EXCEPT ![i] = n] ELSE OwedNow
<1>1. /\ payment[p] # NoRow /\ payment'[p].unallocated = m
      /\ \A q \in Payments \ {p} : payment'[q] = payment[q]
      /\ invoice'[i].status = invoice[i].status /\ invoice'[i].outstanding = n
      /\ \A j \in Invoices \ {i} : invoice'[j] = invoice[j]
  BY DEF Moved
<1>2. payment'[p] # NoRow
  <2>1. allocation'[a] = r /\ r # NoRow /\ r.payment = p
    BY RowFacts DEF Moved, IInv, TypeOK
  <2>. QED  BY <2>1 DEF IInv, Refers
<1>3. p \in ReceivedNow /\ ReceivedNow' = ReceivedNow
  BY <1>1, <1>2 DEF ReceivedNow
<1>4. LeftNow[p] = payment[p].unallocated
  BY <1>1 DEF LeftNow
<1>5. LeftNow' = [LeftNow EXCEPT ![p] = m]
  <2>1. \A q \in Payments : (IF payment'[q] = NoRow THEN 0 ELSE payment'[q].unallocated)
                                 = (IF q = p THEN m ELSE IF payment[q] = NoRow THEN 0 ELSE payment[q].unallocated)
    BY <1>1, <1>2
  <2>. QED  BY <2>1 DEF LeftNow
<1>6. Posted' = Posted /\ ClosedNow' = ClosedNow
  BY <1>1 DEF Posted, ClosedNow
<1>7. i \in Posted => OwedNow[i] = invoice[i].outstanding
  BY DEF OwedNow
<1>8. CASE i \in Posted
  <2>1. \A j \in Invoices : (IF j \in Posted THEN invoice'[j].outstanding ELSE 0)
                                 = (IF j = i THEN n ELSE IF j \in Posted THEN invoice[j].outstanding ELSE 0)
    BY <1>1, <1>8
  <2>2. OwedNow' = [OwedNow EXCEPT ![i] = n]
    BY <1>6, <2>1 DEF OwedNow
  <2>. QED  BY <1>3, <1>4, <1>5, <1>6, <1>7, <1>8, <2>2
<1>9. CASE i \notin Posted
  <2>1. \A j \in Invoices : (IF j \in Posted THEN invoice'[j].outstanding ELSE 0)
                                 = (IF j \in Posted THEN invoice[j].outstanding ELSE 0)
    BY <1>1, <1>9
  <2>2. OwedNow' = OwedNow
    BY <1>6, <2>1 DEF OwedNow
  <2>. QED  BY <1>3, <1>4, <1>5, <1>6, <1>7, <1>9, <2>2
<1>. QED  BY <1>8, <1>9

\* What is reversed after it, and which gifts are made and returned.
LEMMA GiftsMoved ==
    ASSUME IInv, MInv, NEW t \in Threads, NEW p \in Payments, NEW i \in Invoices,
           NEW a \in Allocations, NEW r \in AllocationRows, NEW m, NEW n, Moved(t, p, i, a, r, m, n)
    PROVE  /\ txn[t].op = "allocate" =>
                  /\ \A h \in GivenNow \cup ReturnedNow : h.name # a
                  /\ GivenNow' = GivenNow \cup {[name |-> a, from |-> p, to |-> i, amount |-> txn[t].amount]}
                  /\ ReturnedNow' = ReturnedNow
           /\ txn[t].op = "reverse" =>
                  \E g \in Accounts!Gift :
                      /\ g \in GivenNow /\ g.from = p /\ g.to = i /\ g.amount = txn[t].amount
                      /\ GivenNow' = GivenNow \ {g} /\ ReturnedNow' = ReturnedNow \cup {g}
<1>1. /\ allocation[a] = NoRow /\ allocation'[a] = r /\ r # NoRow
      /\ \A b \in Allocations \ {a} : allocation'[b] = allocation[b]
  BY LiveAfter
<1>0. r.payment = p /\ r.document = i /\ r.amount = txn[t].amount /\ txn[t].amount \in Amounts
  BY DEF Moved, AllocationRows
<1>2. \A b \in Allocations \ {a} : Gift(b)' = Gift(b)
  BY <1>1 DEF Gift
<1>3. \A b \in Allocations : Gift(b).name = b
  BY DEF Gift
<1>4. ~Reversed(a)
  BY <1>1 DEF Reversed, MInv, Rooted
<1>5. ASSUME txn[t].op = "allocate"
      PROVE  /\ \A h \in GivenNow \cup ReturnedNow : h.name # a
             /\ GivenNow' = GivenNow \cup {[name |-> a, from |-> p, to |-> i, amount |-> txn[t].amount]}
             /\ ReturnedNow' = ReturnedNow
  <2>1. /\ r.reverses = NoAllocation /\ Live(a)'
        /\ \A b \in Allocations \ {a} : Live(b)' <=> Live(b)
    BY <1>5, LiveAfter
  <2>2. \A b \in Allocations : Reversed(b)' <=> Reversed(b)
    BY <1>1, <2>1 DEF Reversed
  <2>3. ~Live(a)
    BY <1>1 DEF Live
  <2>4. Gift(a)' = [name |-> a, from |-> p, to |-> i, amount |-> txn[t].amount]
    BY <1>0, <1>1 DEF Gift
  <2>5. \A h \in GivenNow \cup ReturnedNow : h.name # a
    BY <1>1, <1>3, <2>3 DEF GivenNow, ReturnedNow
  <2>6. GivenNow' = GivenNow \cup {Gift(a)'}
    BY <1>2, <2>1, <2>3 DEF GivenNow
  <2>7. ReturnedNow' = ReturnedNow
    BY <1>1, <1>2, <1>4, <2>2 DEF ReturnedNow
  <2>. QED  BY <2>4, <2>5, <2>6, <2>7
<1>6. ASSUME txn[t].op = "reverse"
      PROVE  \E g \in Accounts!Gift :
                 /\ g \in GivenNow /\ g.from = p /\ g.to = i /\ g.amount = txn[t].amount
                 /\ GivenNow' = GivenNow \ {g} /\ ReturnedNow' = ReturnedNow \cup {g}
  <2>1. PICK o \in Allocations \ {a} : o = r.reverses /\ Live(o)
    BY <1>6, LiveAfter
  <2>2. ~Live(a)' /\ \A b \in Allocations \ {a} : Live(b)' <=> Live(b) /\ b # o
    BY <1>6, <2>1, LiveAfter
  <2>3. \A b \in Allocations : Reversed(b)' <=> Reversed(b) \/ b = o
    BY <1>1, <2>1 DEF Reversed
  <2>4. allocation[o].payment = p /\ allocation[o].document = i /\ allocation[o].amount = txn[t].amount
    BY <1>6, <2>1 DEF MInv, Careful, Undoes, Moved
  <2>5. PICK g : g = Gift(o)
    OBVIOUS
  <2>6. /\ g \in Accounts!Gift /\ g.from = p /\ g.to = i /\ g.amount = txn[t].amount
    BY <1>0, <2>4, <2>5 DEF Gift, Accounts!Gift
  <2>7. ~Live(a)
    BY <1>1 DEF Live
  <2>8. \A b \in Allocations : Gift(b) = g => b = o
    BY <1>3, <2>5
  <2>9. g \in GivenNow
    BY <2>1, <2>5 DEF GivenNow
  <2>10. GivenNow' = GivenNow \ {g}
    BY <1>2, <2>2, <2>5, <2>7, <2>8 DEF GivenNow
  <2>11. ReturnedNow' = ReturnedNow \cup {g}
    <3>1. ~Reversed(a)'
      BY <1>4, <2>1, <2>3
    <3>2. {b \in Allocations : allocation[b] # NoRow /\ Reversed(b)}' =
              {b \in Allocations : allocation[b] # NoRow /\ Reversed(b)} \cup {o}
      BY <1>1, <1>4, <2>1, <2>3, <3>1 DEF Live
    <3>3. a \notin {b \in Allocations : allocation[b] # NoRow /\ Reversed(b)} \cup {o}
      BY <1>4, <2>1
    <3>. QED  BY <1>2, <2>5, <3>2, <3>3 DEF ReturnedNow
  <2>. QED  BY <2>6, <2>9, <2>10, <2>11
<1>. QED  BY <1>5, <1>6

LEMMA MovementStep ==
    ASSUME IInv, IInv', MInv, NEW t \in Threads, CommitAllocation(t) \/ CommitReversal(t)
    PROVE  \E g \in Accounts!Gift : Accounts!Give(g) \/ Accounts!TakeBack(g)
<1>1. PICK p \in Payments, i \in Invoices, a \in Allocations, r \in AllocationRows, m \in Nat, n \in Nat :
         /\ Moved(t, p, i, a, r, m, n)
         /\ txn[t].unallocated \in Nat /\ txn[t].outstanding \in Nat /\ txn[t].amount \in Nat
         /\ txn[t].unallocated = payment[p].unallocated
         /\ invoice[i].status = "posted" => txn[t].outstanding = invoice[i].outstanding
         /\ \/ /\ txn[t].op = "allocate"
               /\ txn[t].unallocated = m + txn[t].amount /\ txn[t].outstanding = n + txn[t].amount
            \/ /\ txn[t].op = "reverse"
               /\ m = txn[t].unallocated + txn[t].amount /\ n = txn[t].outstanding + txn[t].amount
  BY CommitMoves
<1>2. PICK x : x = txn[t].amount
  OBVIOUS
<1>3. x \in Amounts /\ x \in Nat
  BY <1>1, <1>2 DEF Moved, Moving
<1>4. /\ p \in ReceivedNow /\ ReceivedNow' = ReceivedNow
      /\ LeftNow' = [LeftNow EXCEPT ![p] = m]
      /\ Posted' = Posted /\ ClosedNow' = ClosedNow
      /\ OwedNow' = IF i \in Posted THEN [OwedNow EXCEPT ![i] = n] ELSE OwedNow
      /\ LeftNow[p] = txn[t].unallocated
      /\ i \in Posted => OwedNow[i] = txn[t].outstanding
  BY <1>1, BalancesMoved DEF Posted
<1>5. i \in Posted \cup ClosedNow
  <2>1. Counted(i)
    BY <1>1 DEF Moved, MInv, Careful, Current
  <2>. QED  BY <2>1 DEF Counted, Posted, ClosedNow
<1>6. ASSUME txn[t].op = "allocate" PROVE \E g \in Accounts!Gift : Accounts!Give(g)
  <2>1. PICK g : g = [name |-> a, from |-> p, to |-> i, amount |-> x]
    OBVIOUS
  <2>2. g \in Accounts!Gift /\ g.name = a /\ g.from = p /\ g.to = i /\ g.amount = x
    BY <1>3, <2>1 DEF Accounts!Gift
  <2>3. /\ \A h \in GivenNow \cup ReturnedNow : h.name # a
        /\ GivenNow' = GivenNow \cup {g} /\ ReturnedNow' = ReturnedNow
    BY <1>1, <1>2, <1>6, <2>1, GiftsMoved
  <2>4. x <= LeftNow[p] /\ m = LeftNow[p] - x
    BY <1>1, <1>2, <1>3, <1>4, <1>6
  <2>5. i \in Posted => x <= OwedNow[i] /\ n = OwedNow[i] - x
    BY <1>1, <1>2, <1>3, <1>4, <1>6
  <2>6. LeftNow' = [LeftNow EXCEPT ![p] = LeftNow[p] - x]
    BY <1>4, <2>4
  <2>7. OwedNow' = IF i \in Posted THEN [OwedNow EXCEPT ![i] = OwedNow[i] - x] ELSE OwedNow
    BY <1>4, <2>5
  <2>8. Accounts!Give(g)
    BY <1>4, <1>5, <2>2, <2>3, <2>4, <2>5, <2>6, <2>7
       DEF Accounts!Give, LeftNow, ReceivedNow, OwedNow, ClosedNow, GivenNow, ReturnedNow
  <2>. QED  BY <2>2, <2>8
<1>7. ASSUME txn[t].op = "reverse" PROVE \E g \in Accounts!Gift : Accounts!TakeBack(g)
  <2>1. PICK g \in Accounts!Gift :
           /\ g \in GivenNow /\ g.from = p /\ g.to = i /\ g.amount = x
           /\ GivenNow' = GivenNow \ {g} /\ ReturnedNow' = ReturnedNow \cup {g}
    BY <1>1, <1>2, <1>7, GiftsMoved
  <2>2. LeftNow' = [LeftNow EXCEPT ![p] = LeftNow[p] + x]
    BY <1>1, <1>2, <1>4, <1>7
  <2>3. OwedNow' = IF i \in Posted THEN [OwedNow EXCEPT ![i] = OwedNow[i] + x] ELSE OwedNow
    BY <1>1, <1>2, <1>4, <1>7
  <2>4. Accounts!TakeBack(g)
    BY <1>4, <2>1, <2>2, <2>3
       DEF Accounts!TakeBack, LeftNow, ReceivedNow, OwedNow, ClosedNow, GivenNow, ReturnedNow
  <2>. QED  BY <2>4
<1>. QED  BY <1>1, <1>6, <1>7

\* As long as no two reversals of one allocation overlap, the receivables
\* implement the accounts of MoneyAccounts, whatever requests there are and
\* wherever they fail or are interrupted.
THEOREM Refinement == Spec /\ []ReversalsApart => MovesAtOnce
<1>1. Init => Accounts!AInit
  <2>. SUFFICES ASSUME Init PROVE Accounts!AInit
    OBVIOUS
  <2>1. \A i \in Invoices : invoice[i].status = "none"
    BY RowFacts DEF Init
  <2>2. Posted = {}
    BY <2>1 DEF Posted
  <2>. QED  BY <2>1, <2>2 DEF Init, Accounts!AInit, Live
<1>2. AccountsKept => UNCHANGED Accounts!accountVars
  BY DEF AccountsKept, Accounts!accountVars, LeftNow, ReceivedNow, OwedNow, ClosedNow, GivenNow, ReturnedNow
<1>3. IInv /\ IInv' /\ MInv /\ [Next]_vars => [Accounts!ANext]_(Accounts!accountVars)
  <2>. SUFFICES ASSUME IInv, IInv', MInv, [Next]_vars PROVE Accounts!ANext \/ UNCHANGED Accounts!accountVars
    OBVIOUS
  <2>1. CASE Arrive
    BY <1>2, <2>1, ReceiveStep, DraftsKept DEF Arrive, Accounts!ANext
  <2>2. ASSUME NEW t \in Threads, Start(t) \/ Rollback(t) PROVE UNCHANGED Accounts!accountVars
    <3>1. UNCHANGED rows
      BY <2>2 DEF Start, Rollback, PostLock, CancelLock, BeginUpdate, BeginAllocation, BeginReversal, Begin
    <3>. QED  BY <1>2, <3>1, RowsKept
  <2>3. ASSUME NEW t \in Threads, Continue(t) PROVE Accounts!ANext \/ UNCHANGED Accounts!accountVars
    <3>1. ASSUME PostNumber(t) \/ LockDocument(t) \/ LockPayment(t) \/ ReadBoth(t)
                     \/ RefuseAllocation(t) \/ RefuseReversal(t)
          PROVE  UNCHANGED Accounts!accountVars
      <4>1. UNCHANGED rows
        BY <3>1 DEF PostNumber, LockDocument, LockPayment, ReadBoth, RefuseAllocation, RefuseReversal
      <4>. QED  BY <1>2, <4>1, RowsKept
    <3>2. CASE CommitUpdate(t)
      BY <1>2, <3>2, DraftsKept
    <3>3. CASE PostCommit(t)
      BY <3>3, BillStep DEF Accounts!ANext
    <3>4. CASE CancelCommit(t)
      BY <3>4, CloseStep DEF Accounts!ANext
    <3>5. CASE CommitAllocation(t) \/ CommitReversal(t)
      BY <3>5, MovementStep DEF Accounts!ANext
    <3>. QED  BY <2>3, <3>1, <3>2, <3>3, <3>4, <3>5 DEF Continue
  <2>4. CASE UNCHANGED vars
    BY <1>2, <2>4, RowsKept
  <2>. QED  BY <2>1, <2>2, <2>3, <2>4 DEF Next
<1>. QED  BY <1>1, <1>3, MoneyInit, MoneyStep, Invariance, PTL DEF Spec, MovesAtOnce, Accounts!ASpec
-------------------------------------------------------------------------------
(***************************************************************************)
(* The bank accounts.                                                      *)
(***************************************************************************)
BankSpec == BankInit /\ [][BankNext]_bankVars

ImportRows == [op : {"import"}, statement : Statements, bank : Banks, new : SUBSET Reports]
ConfirmRows == [op : {"confirm"}, line : LineIds, document : Documents, due : {1}, locked : BOOLEAN]

BankTyped ==
    /\ BankTypeOK
    /\ teller \in [Tellers -> {Waiting} \cup ImportRows \cup ConfirmRows]

\* An import under way has its statement to itself, and has inserted nothing.
ImportsApart ==
    \A t \in Tellers : teller[t].op = "import" =>
        /\ ledgerOf[teller[t].bank] # NoLedger
        /\ \A l \in LineIds : l[1] = teller[t].statement => line[l] = NoLine
        /\ \A u \in Tellers : teller[u].op = "import" /\ teller[u].statement = teller[t].statement => u = t

\* A match being confirmed has its line to itself, and the line is still open.
ConfirmsApart ==
    \A t \in Tellers : teller[t].op = "confirm" =>
        /\ line[teller[t].line].status = "unmatched"
        /\ \A u \in Tellers : teller[u].op = "confirm" /\ teller[u].line = teller[t].line => u = t

\* A line is in a bank account with a ledger account; open, it is booked nowhere.
LinesSound ==
    \A l \in LineIds : line[l] # NoLine =>
        /\ ledgerOf[line[l].bank] # NoLedger
        /\ line[l].status = "unmatched" => line[l].to = "nothing" /\ line[l].entry = "none"

\* A ledger account is one bank account's, and before it is anyone's, empty.
LedgersApart ==
    /\ \A k, j \in Banks : ledgerOf[k] # NoLedger /\ ledgerOf[j] = ledgerOf[k] => j = k
    /\ \A g \in Ledgers : (\A k \in Banks : ledgerOf[k] # g) => cash[g] = 0

\* The journal's balance of a bank account is what its booked lines add up to.
SettledIn(k)  == {l \in LineIds : line[l] # NoLine /\ line[l].bank = k /\ line[l].entry = "posted" /\ l[2] \in Inflows}
SettledOut(k) == {l \in LineIds : line[l] # NoLine /\ line[l].bank = k /\ line[l].entry = "posted" /\ l[2] \in Outflows}

CashSettled ==
    \A k \in Banks : ledgerOf[k] # NoLedger =>
        cash[ledgerOf[k]] = Cardinality(SettledIn(k)) - Cardinality(SettledOut(k))

BankInv ==
    /\ BankTyped /\ ImportsApart /\ ConfirmsApart /\ LinesSound /\ LedgersApart
    /\ ImportedOnce /\ OnePaymentPerLine /\ CashSettled
-------------------------------------------------------------------------------
LEMMA SettledIsFinite ==
    \A k : /\ IsFiniteSet(SettledIn(k)) /\ Cardinality(SettledIn(k)) \in Nat
           /\ IsFiniteSet(SettledOut(k)) /\ Cardinality(SettledOut(k)) \in Nat
<1>1. IsFiniteSet(LineIds)
  BY BankingAssumption, FS_Product DEF LineIds
<1>2. \A k : SettledIn(k) \subseteq LineIds /\ SettledOut(k) \subseteq LineIds
  BY DEF SettledIn, SettledOut
<1>. QED  BY <1>1, <1>2, FS_Subset, FS_CardinalityType

LEMMA CashIs == CashSettled => CashIsTheLines
<1>1. ASSUME NEW k \in Banks
      PROVE  LET settled == {l \in LineIds : line[l] # NoLine /\ line[l].bank = k /\ line[l].entry = "posted"}
             IN /\ {l \in settled : l[2] \in Inflows} = SettledIn(k)
                /\ {l \in settled : l[2] \in Outflows} = SettledOut(k)
  BY DEF SettledIn, SettledOut
<1>. QED  BY <1>1 DEF CashIsTheLines, CashSettled

\* What a row of a line is.
LEMMA LineRow ==
    ASSUME BankTyped, NEW l \in LineIds
    PROVE  /\ line[l] # NoLine => line[l] \in LineRows
           /\ line[l].status # "none" => line[l] # NoLine
<1>. QED  BY DEF BankTyped, BankTypeOK, NoLine

LEMMA RowsAreLines == \A row \in LineRows : row # NoLine
BY DEF LineRows, NoLine

LEMMA TellerRow ==
    ASSUME BankTyped, NEW t \in Tellers
    PROVE  /\ teller[t].op = "import" => teller[t] \in ImportRows
           /\ teller[t].op = "confirm" => teller[t] \in ConfirmRows
<1>. QED  BY DEF BankTyped, Waiting, ImportRows, ConfirmRows

\* A step of a teller that writes nothing.
LEMMA TellerMoves ==
    ASSUME BankInv, NEW t \in Tellers, NEW row \in {Waiting} \cup ImportRows \cup ConfirmRows,
           teller' = [teller EXCEPT ![t] = row], UNCHANGED <<ledgerOf, line, document, receipts, cash>>,
           row.op = "import" =>
               /\ ledgerOf[row.bank] # NoLedger
               /\ \A l \in LineIds : l[1] = row.statement => line[l] = NoLine
               /\ \A u \in Tellers \ {t} : teller[u].op = "import" => teller[u].statement # row.statement,
           row.op = "confirm" =>
               /\ line[row.line].status = "unmatched"
               /\ \A u \in Tellers \ {t} : teller[u].op = "confirm" => teller[u].line # row.line
    PROVE  BankInv'
<1>1. /\ teller' \in [Tellers -> {Waiting} \cup ImportRows \cup ConfirmRows] /\ teller'[t] = row
      /\ \A u \in Tellers \ {t} : teller'[u] = teller[u]
  BY DEF BankInv, BankTyped
<1>2. BankTyped'
  BY <1>1 DEF BankInv, BankTyped, BankTypeOK
<1>3. ImportsApart'
  BY <1>1 DEF BankInv, ImportsApart
<1>4. ConfirmsApart'
  BY <1>1 DEF BankInv, ConfirmsApart
<1>5. LinesSound' /\ LedgersApart' /\ ImportedOnce' /\ OnePaymentPerLine'
  BY DEF BankInv, LinesSound, LedgersApart, ImportedOnce, OnePaymentPerLine
<1>6. CashSettled'
  BY DEF BankInv, CashSettled, SettledIn, SettledOut
<1>. QED  BY <1>2, <1>3, <1>4, <1>5, <1>6 DEF BankInv

LEMMA GiveUpStep == ASSUME BankInv, NEW t \in Tellers, GiveUp(t) PROVE BankInv'
<1>1. Waiting.op = "none"
  BY DEF Waiting
<1>. QED  BY <1>1, TellerMoves DEF GiveUp, Done

LEMMA BeginImportStep ==
    ASSUME BankInv, NEW t \in Tellers, NEW s \in Statements, NEW k \in Banks, NEW file \in SUBSET Reports,
           BeginImport(t, s, k, file)
    PROVE  BankInv'
<1>1. PICK row : row = [op |-> "import", statement |-> s, bank |-> k, new |-> file \ Reported(k)]
  OBVIOUS
<1>2. row \in ImportRows /\ row.op = "import" /\ row.statement = s /\ row.bank = k
  BY <1>1 DEF ImportRows
<1>3. /\ teller' = [teller EXCEPT ![t] = row] /\ UNCHANGED <<ledgerOf, line, document, receipts, cash>>
      /\ ledgerOf[k] # NoLedger /\ \A l \in LineIds : l[1] = s => line[l] = NoLine
      /\ \A u \in Tellers : teller[u].op = "import" => teller[u].statement # s
  BY <1>1 DEF BeginImport
<1>. QED  BY <1>2, <1>3, TellerMoves

LEMMA BeginConfirmStep ==
    ASSUME BankInv, NEW t \in Tellers, NEW l \in LineIds, NEW d \in Documents, BeginConfirm(t, l, d)
    PROVE  BankInv'
<1>1. PICK row : row = [op |-> "confirm", line |-> l, document |-> d, due |-> document[d].due, locked |-> FALSE]
  OBVIOUS
<1>2. row \in ConfirmRows /\ row.op = "confirm" /\ row.line = l
  BY <1>1 DEF ConfirmRows, BeginConfirm
<1>3. /\ teller' = [teller EXCEPT ![t] = row] /\ UNCHANGED <<ledgerOf, line, document, receipts, cash>>
      /\ line[l].status = "unmatched" /\ \A u \in Tellers : teller[u].op = "confirm" => teller[u].line # l
  BY <1>1 DEF BeginConfirm, LineHeld
<1>. QED  BY <1>2, <1>3, TellerMoves

LEMMA LockToAllocateStep == ASSUME BankInv, NEW t \in Tellers, LockToAllocate(t) PROVE BankInv'
<1>1. PICK was \in ConfirmRows : was = teller[t]
  BY TellerRow DEF LockToAllocate, BankInv
<1>2. PICK row : row = [was EXCEPT !.locked = TRUE]
  OBVIOUS
<1>3. row \in ConfirmRows /\ row.op = "confirm" /\ row.line = was.line /\ was.op = "confirm"
  BY <1>2 DEF ConfirmRows
<1>4. teller' = [teller EXCEPT ![t].locked = TRUE] /\ UNCHANGED <<ledgerOf, line, document, receipts, cash>>
  BY DEF LockToAllocate
<1>5. teller' = [teller EXCEPT ![t] = row]
  BY <1>1, <1>2, <1>4 DEF BankInv, BankTyped
<1>6. /\ line[row.line].status = "unmatched"
      /\ \A u \in Tellers \ {t} : teller[u].op = "confirm" => teller[u].line # row.line
  BY <1>1, <1>3 DEF BankInv, ConfirmsApart
<1>. QED  BY <1>3, <1>4, <1>5, <1>6, TellerMoves

LEMMA DocumentsStep ==
    ASSUME BankInv, NEW d \in Documents, AllocateByHand(d) \/ CancelDocument(d) PROVE BankInv'
<1>1. UNCHANGED <<ledgerOf, line, receipts, cash, teller>>
  BY DEF AllocateByHand, CancelDocument
<1>2. document' \in [Documents -> [status : {"posted", "cancelled"}, total : {1, 2}, due : 0 .. 2, paid : Nat]]
  <2>1. PICK was \in [status : {"posted", "cancelled"}, total : {1, 2}, due : 0 .. 2, paid : Nat] : was = document[d]
    BY DEF BankInv, BankTyped, BankTypeOK
  <2>2. CASE AllocateByHand(d)
    <3>1. was.due - 1 \in 0 .. 2 /\ was.paid + 1 \in Nat
      BY <2>1, <2>2 DEF AllocateByHand
    <3>2. document' = [document EXCEPT ![d].due = @ - 1, ![d].paid = @ + 1]
      BY <2>2 DEF AllocateByHand
    <3>3. document' = [document EXCEPT ![d] = [was EXCEPT !.due = was.due - 1, !.paid = was.paid + 1]]
      BY <2>1, <3>2 DEF BankInv, BankTyped, BankTypeOK
    <3>. QED  BY <3>1, <3>3 DEF BankInv, BankTyped, BankTypeOK
  <2>3. CASE CancelDocument(d)
    <3>1. document' = [document EXCEPT ![d].status = "cancelled", ![d].due = 0]
      BY <2>3 DEF CancelDocument
    <3>2. document' = [document EXCEPT ![d] = [was EXCEPT !.status = "cancelled", !.due = 0]]
      BY <2>1, <3>1 DEF BankInv, BankTyped, BankTypeOK
    <3>3. PICK row : row = [was EXCEPT !.status = "cancelled", !.due = 0]
      OBVIOUS
    <3>4. row \in [status : {"posted", "cancelled"}, total : {1, 2}, due : 0 .. 2, paid : Nat]
      <4>1. PICK none \in 0 .. 2 : none = 0
        OBVIOUS
      <4>2. row = [was EXCEPT !.status = "cancelled", !.due = none]
        BY <3>3, <4>1
      <4>. QED  BY <4>2
    <3>. QED  BY <3>2, <3>3, <3>4 DEF BankInv, BankTyped, BankTypeOK
  <2>. QED  BY <2>2, <2>3
<1>3. BankTyped'
  BY <1>1, <1>2 DEF BankInv, BankTyped, BankTypeOK
<1>4. /\ ImportsApart' /\ ConfirmsApart' /\ LinesSound' /\ LedgersApart' /\ ImportedOnce' /\ OnePaymentPerLine'
      /\ CashSettled'
  BY <1>1 DEF BankInv, ImportsApart, ConfirmsApart, LinesSound, LedgersApart, ImportedOnce, OnePaymentPerLine,
              CashSettled, SettledIn, SettledOut
<1>. QED  BY <1>3, <1>4 DEF BankInv

\* A bank account gets a ledger account that is nobody's, and no line is in it yet.
LEMMA CreateBankAccountStep ==
    ASSUME BankInv, NEW k \in Banks, NEW g \in Ledgers, CreateBankAccount(k, g) PROVE BankInv'
<1>1. /\ ledgerOf[k] = NoLedger /\ (\A j \in Banks : ledgerOf[j] # g) /\ ledgerOf' = [ledgerOf EXCEPT ![k] = g]
      /\ UNCHANGED <<line, document, receipts, cash, teller>>
  BY DEF CreateBankAccount, Designated
<1>2. /\ ledgerOf' \in [Banks -> Ledgers \cup {NoLedger}] /\ ledgerOf'[k] = g
      /\ \A j \in Banks \ {k} : ledgerOf'[j] = ledgerOf[j]
  BY <1>1 DEF BankInv, BankTyped, BankTypeOK
<1>3. BankTyped'
  BY <1>1, <1>2 DEF BankInv, BankTyped, BankTypeOK
<1>4. g # NoLedger
  BY <1>1
<1>5. ASSUME NEW j, ledgerOf[j] # NoLedger PROVE ledgerOf'[j] # NoLedger
  BY <1>1, <1>2, <1>4, <1>5 DEF BankInv, BankTyped, BankTypeOK
<1>6. ImportsApart' /\ LinesSound'
  BY <1>1, <1>5 DEF BankInv, ImportsApart, LinesSound
<1>7. ConfirmsApart' /\ ImportedOnce' /\ OnePaymentPerLine'
  BY <1>1 DEF BankInv, ConfirmsApart, ImportedOnce, OnePaymentPerLine
<1>8. LedgersApart'
  <2>1. \A i, j \in Banks : ledgerOf'[i] # NoLedger /\ ledgerOf'[j] = ledgerOf'[i] => j = i
    BY <1>1, <1>2, <1>4 DEF BankInv, LedgersApart
  <2>2. ASSUME NEW h \in Ledgers, \A j \in Banks : ledgerOf'[j] # h PROVE cash'[h] = 0
    <3>1. \A j \in Banks : ledgerOf[j] # h
      BY <1>1, <1>2, <2>2, BankingAssumption
    <3>. QED  BY <1>1, <3>1 DEF BankInv, LedgersApart
  <2>. QED  BY <2>1, <2>2 DEF LedgersApart
<1>9. CashSettled'
  <2>1. ASSUME NEW j \in Banks, ledgerOf'[j] # NoLedger
        PROVE  cash[ledgerOf'[j]] = Cardinality(SettledIn(j)) - Cardinality(SettledOut(j))
    <3>1. CASE j # k
      BY <1>2, <2>1, <3>1 DEF BankInv, CashSettled
    <3>2. CASE j = k
      <4>1. SettledIn(k) = {} /\ SettledOut(k) = {}
        BY <1>1 DEF SettledIn, SettledOut, BankInv, LinesSound
      <4>2. cash[g] = 0
        BY <1>1 DEF BankInv, LedgersApart
      <4>3. Cardinality(SettledIn(k)) = 0 /\ Cardinality(SettledOut(k)) = 0
        BY <4>1, FS_EmptySet
      <4>. QED  BY <1>2, <3>2, <4>2, <4>3
    <3>. QED  BY <3>1, <3>2
  <2>2. \A j : SettledIn(j)' = SettledIn(j) /\ SettledOut(j)' = SettledOut(j)
    BY <1>1 DEF SettledIn, SettledOut
  <2>. QED  BY <1>1, <2>1, <2>2 DEF CashSettled
<1>. QED  BY <1>3, <1>6, <1>7, <1>8, <1>9 DEF BankInv

\* One line is booked, or its booking taken back: the ledger account of its bank
\* account moves by the line's amount.
LEMMA LineBooked ==
    ASSUME BankInv, NEW l \in LineIds, NEW row \in LineRows, NEW x \in Int,
           line[l] # NoLine, row.bank = line[l].bank, line' = [line EXCEPT ![l] = row], UNCHANGED ledgerOf,
           cash' = [cash EXCEPT ![ledgerOf[line[l].bank]] = @ + x],
           \/ line[l].entry # "posted" /\ row.entry = "posted" /\ x = Amount(l)
           \/ line[l].entry = "posted" /\ row.entry # "posted" /\ x = - Amount(l)
    PROVE  /\ cash' \in [Ledgers -> Int]
           /\ \A g \in Ledgers : (\A k \in Banks : ledgerOf[k] # g) => cash'[g] = 0
           /\ CashSettled'
<1>1. PICK b \in Banks, h \in Ledgers : b = line[l].bank /\ h = ledgerOf[b] /\ h # NoLedger
  <2>1. line[l] \in LineRows
    BY LineRow DEF BankInv
  <2>2. line[l].bank \in Banks /\ ledgerOf[line[l].bank] # NoLedger
    BY <2>1 DEF BankInv, LinesSound, LineRows
  <2>. QED  BY <2>2 DEF BankInv, BankTyped, BankTypeOK
<1>2. cash \in [Ledgers -> Int] /\ line \in [LineIds -> LineRows \cup {NoLine}]
  BY DEF BankInv, BankTyped, BankTypeOK
<1>3. cash' = [cash EXCEPT ![h] = cash[h] + x]
  BY <1>1
<1>4. cash' \in [Ledgers -> Int] /\ cash'[h] = cash[h] + x /\ cash[h] \in Int /\ \A g \in Ledgers \ {h} : cash'[g] = cash[g]
  BY <1>1, <1>2, <1>3
<1>5. \A g \in Ledgers : (\A k \in Banks : ledgerOf[k] # g) => cash'[g] = 0
  BY <1>1, <1>4 DEF BankInv, LedgersApart
<1>6. line'[l] = row /\ row # NoLine /\ \A m \in LineIds \ {l} : line'[m] = line[m]
  BY <1>2, RowsAreLines
<1>7. ASSUME NEW k \in Banks \ {b} PROVE SettledIn(k)' = SettledIn(k) /\ SettledOut(k)' = SettledOut(k)
  BY <1>1, <1>6 DEF SettledIn, SettledOut
<1>8. PICK ins, outs, ins2, outs2 : /\ ins = SettledIn(b) /\ outs = SettledOut(b)
                                    /\ ins2 = SettledIn(b)' /\ outs2 = SettledOut(b)'
  OBVIOUS
<1>9. /\ IsFiniteSet(ins) /\ Cardinality(ins) \in Nat /\ IsFiniteSet(outs) /\ Cardinality(outs) \in Nat
      /\ cash[h] = Cardinality(ins) - Cardinality(outs)
  BY <1>1, <1>8, SettledIsFinite DEF BankInv, CashSettled
<1>10. l[2] \in Inflows \/ l[2] \in Outflows
  BY DEF LineIds, Reports
<1>11. ~ (l[2] \in Inflows /\ l[2] \in Outflows)
  BY BankingAssumption
<1>12. Cardinality(ins2) - Cardinality(outs2) = cash[h] + x
  <2>1. CASE line[l].entry # "posted" /\ row.entry = "posted" /\ x = Amount(l)
    <3>1. l \notin ins /\ l \notin outs
      BY <1>8, <2>1 DEF SettledIn, SettledOut
    <3>2. CASE l[2] \in Inflows
      <4>1. ins2 = ins \cup {l} /\ outs2 = outs
        BY <1>1, <1>6, <1>8, <1>11, <2>1, <3>2 DEF SettledIn, SettledOut
      <4>2. Cardinality(ins2) = Cardinality(ins) + 1
        BY <1>9, <3>1, <4>1, FS_AddElement
      <4>3. x = 1
        BY <2>1, <3>2 DEF Amount
      <4>. QED  BY <1>9, <4>1, <4>2, <4>3
    <3>3. CASE l[2] \notin Inflows
      <4>1. ins2 = ins /\ outs2 = outs \cup {l}
        BY <1>1, <1>6, <1>8, <1>10, <2>1, <3>3 DEF SettledIn, SettledOut
      <4>2. Cardinality(outs2) = Cardinality(outs) + 1
        BY <1>9, <3>1, <4>1, FS_AddElement
      <4>3. x = -1
        BY <2>1, <3>3 DEF Amount
      <4>. QED  BY <1>9, <4>1, <4>2, <4>3
    <3>. QED  BY <3>2, <3>3
  <2>2. CASE line[l].entry = "posted" /\ row.entry # "posted" /\ x = - Amount(l)
    <3>1. CASE l[2] \in Inflows
      <4>1. ins2 = ins \ {l} /\ outs2 = outs /\ l \in ins
        BY <1>1, <1>6, <1>8, <1>11, <2>2, <3>1 DEF SettledIn, SettledOut
      <4>2. Cardinality(ins2) = Cardinality(ins) - 1
        BY <1>9, <4>1, FS_RemoveElement
      <4>3. x = -1
        BY <2>2, <3>1 DEF Amount
      <4>. QED  BY <1>9, <4>1, <4>2, <4>3
    <3>2. CASE l[2] \notin Inflows
      <4>1. ins2 = ins /\ outs2 = outs \ {l} /\ l \in outs
        BY <1>1, <1>6, <1>8, <1>10, <2>2, <3>2 DEF SettledIn, SettledOut
      <4>2. Cardinality(outs2) = Cardinality(outs) - 1
        BY <1>9, <4>1, FS_RemoveElement
      <4>3. PICK a \in Int : a = Amount(l)
        BY DEF Amount
      <4>4. a = -1
        BY <3>2, <4>3 DEF Amount
      <4>5. x = 0 - a
        BY <2>2, <4>3
      <4>6. x = 1
        BY <4>4, <4>5
      <4>. QED  BY <1>9, <4>1, <4>2, <4>6
    <3>. QED  BY <3>1, <3>2
  <2>. QED  BY <2>1, <2>2
<1>13. ASSUME NEW k \in Banks, ledgerOf[k] # NoLedger
       PROVE  cash'[ledgerOf[k]] = Cardinality(SettledIn(k)') - Cardinality(SettledOut(k)')
  <2>1. CASE k = b
    BY <1>1, <1>4, <1>8, <1>12, <2>1
  <2>2. CASE k # b
    <3>1. ledgerOf[k] \in Ledgers \ {h}
      BY <1>1, <1>13, <2>2 DEF BankInv, BankTyped, BankTypeOK, LedgersApart
    <3>2. cash[ledgerOf[k]] = Cardinality(SettledIn(k)) - Cardinality(SettledOut(k))
      BY <1>13 DEF BankInv, CashSettled
    <3>. QED  BY <1>4, <1>7, <2>2, <3>1, <3>2
  <2>. QED  BY <2>1, <2>2
<1>14. CashSettled'
  BY <1>13 DEF CashSettled
<1>. QED  BY <1>4, <1>5, <1>14

\* Nobody but the one that settles it is at a line, and no other line moves.
LEMMA LineSettled ==
    ASSUME BankInv, NEW l \in LineIds, NEW row \in LineRows, row.status = "reconciled", line[l] # NoLine,
           row.bank = line[l].bank, line' = [line EXCEPT ![l] = row], UNCHANGED ledgerOf,
           \A u \in Tellers : teller'[u].op # "none" =>
               teller'[u] = teller[u] /\ ~ (teller[u].op = "confirm" /\ teller[u].line = l)
    PROVE  /\ line' \in [LineIds -> LineRows \cup {NoLine}]
           /\ ImportsApart' /\ ConfirmsApart' /\ LinesSound' /\ ImportedOnce'
<1>1. /\ line' \in [LineIds -> LineRows \cup {NoLine}] /\ line'[l] = row /\ row # NoLine
      /\ \A m \in LineIds \ {l} : line'[m] = line[m]
  BY RowsAreLines DEF BankInv, BankTyped, BankTypeOK
<1>2. \A m \in LineIds : /\ line'[m] = NoLine <=> line[m] = NoLine
                         /\ line'[m] # NoLine => line'[m].bank = line[m].bank
  BY <1>1
<1>3. ImportsApart'
  <2>. SUFFICES ASSUME NEW t \in Tellers, teller'[t].op = "import"
                PROVE  /\ ledgerOf[teller'[t].bank] # NoLedger
                       /\ \A m \in LineIds : m[1] = teller'[t].statement => line'[m] = NoLine
                       /\ \A u \in Tellers : teller'[u].op = "import" /\ teller'[u].statement = teller'[t].statement => u = t
    BY DEF ImportsApart
  <2>1. teller'[t] = teller[t] /\ \A u \in Tellers : teller'[u].op = "import" => teller'[u] = teller[u]
    OBVIOUS
  <2>. QED  BY <1>2, <2>1 DEF BankInv, ImportsApart
<1>4. ConfirmsApart'
  <2>. SUFFICES ASSUME NEW t \in Tellers, teller'[t].op = "confirm"
                PROVE  /\ line'[teller'[t].line].status = "unmatched"
                       /\ \A u \in Tellers : teller'[u].op = "confirm" /\ teller'[u].line = teller'[t].line => u = t
    BY DEF ConfirmsApart
  <2>1. /\ teller'[t] = teller[t] /\ teller[t].op = "confirm" /\ teller[t].line # l
        /\ \A u \in Tellers : teller'[u].op = "confirm" => teller'[u] = teller[u]
    OBVIOUS
  <2>2. teller[t].line \in LineIds
    BY <2>1, TellerRow DEF BankInv, ConfirmRows
  <2>. QED  BY <1>1, <2>1, <2>2 DEF BankInv, ConfirmsApart
<1>5. LinesSound'
  <2>1. \A m \in LineIds \ {l} : line'[m] = line[m]
    BY <1>1
  <2>2. ledgerOf[row.bank] # NoLedger /\ row.status # "unmatched"
    BY DEF BankInv, LinesSound
  <2>. QED  BY <1>1, <2>1, <2>2 DEF BankInv, LinesSound
<1>6. ImportedOnce'
  <2>. SUFFICES ASSUME NEW i \in LineIds, NEW m \in LineIds, i # m, line'[i] # NoLine, line'[m] # NoLine,
                       line'[i].bank = line'[m].bank
                PROVE  i[2] # m[2]
    BY DEF ImportedOnce
  <2>. QED  BY <1>2 DEF BankInv, ImportedOnce
<1>. QED  BY <1>1, <1>3, <1>4, <1>5, <1>6

LEMMA AssignLineStep == ASSUME BankInv, NEW l \in LineIds, AssignLine(l) PROVE BankInv'
<1>1. PICK was \in LineRows : /\ was = line[l] /\ was.status = "unmatched" /\ line[l] # NoLine
                              /\ was.to = "nothing" /\ was.entry = "none"
  <2>1. line[l] # NoLine /\ line[l] \in LineRows
    BY LineRow DEF AssignLine, BankInv
  <2>. QED  BY <2>1 DEF AssignLine, BankInv, LinesSound
<1>2. PICK row : row = [was EXCEPT !.status = "reconciled", !.to = "account", !.entry = "posted"]
  OBVIOUS
<1>3. /\ row \in LineRows /\ row.status = "reconciled" /\ row.to = "account" /\ row.entry = "posted"
      /\ row.bank = was.bank /\ row # NoLine
  <2>1. row \in LineRows /\ row.status = "reconciled" /\ row.to = "account" /\ row.entry = "posted" /\ row.bank = was.bank
    BY <1>2 DEF LineRows
  <2>. QED  BY <2>1, RowsAreLines
<1>4. /\ line' = [line EXCEPT ![l] = [@ EXCEPT !.status = "reconciled", !.to = "account", !.entry = "posted"]]
      /\ cash' = [cash EXCEPT ![ledgerOf[line[l].bank]] = @ + Amount(l)]
      /\ UNCHANGED <<ledgerOf, document, receipts, teller>>
      /\ \A u \in Tellers : ~ (teller[u].op = "confirm" /\ teller[u].line = l)
  BY DEF AssignLine, Book, LineHeld
<1>5. line' = [line EXCEPT ![l] = row] /\ line'[l] = row /\ \A m \in LineIds \ {l} : line'[m] = line[m]
  BY <1>1, <1>2, <1>4 DEF BankInv, BankTyped, BankTypeOK
<1>6. /\ line' \in [LineIds -> LineRows \cup {NoLine}]
      /\ ImportsApart' /\ ConfirmsApart' /\ LinesSound' /\ ImportedOnce'
  BY <1>1, <1>3, <1>4, <1>5, LineSettled
<1>7. PICK x \in Int : x = Amount(l)
  BY DEF Amount
<1>8. /\ cash' \in [Ledgers -> Int]
      /\ \A g \in Ledgers : (\A k \in Banks : ledgerOf[k] # g) => cash'[g] = 0
      /\ CashSettled'
  BY <1>1, <1>3, <1>4, <1>5, <1>7, LineBooked
<1>9. BankTyped'
  BY <1>4, <1>6, <1>8 DEF BankInv, BankTyped, BankTypeOK
<1>10. LedgersApart'
  BY <1>4, <1>8 DEF BankInv, LedgersApart
<1>11. OnePaymentPerLine'
  BY <1>1, <1>3, <1>4, <1>5, BankingAssumption DEF BankInv, OnePaymentPerLine
<1>. QED  BY <1>6, <1>8, <1>9, <1>10, <1>11 DEF BankInv

LEMMA ReverseBookingStep == ASSUME BankInv, NEW l \in LineIds, ReverseBooking(l) PROVE BankInv'
<1>1. PICK was \in LineRows : /\ was = line[l] /\ line[l] # NoLine /\ was.entry = "posted" /\ was.status = "reconciled"
  <2>1. line[l] # NoLine /\ line[l] \in LineRows /\ line[l].entry = "posted"
    BY LineRow DEF ReverseBooking, BankInv
  <2>2. line[l].status # "unmatched"
    BY <2>1 DEF BankInv, LinesSound
  <2>. QED  BY <2>1, <2>2 DEF LineRows
<1>2. PICK row : row = [was EXCEPT !.entry = "reversed"]
  OBVIOUS
<1>3. /\ row \in LineRows /\ row.status = "reconciled" /\ row.to = was.to /\ row.entry = "reversed"
      /\ row.bank = was.bank /\ row # NoLine
  <2>1. row \in LineRows /\ row.status = "reconciled" /\ row.to = was.to /\ row.entry = "reversed" /\ row.bank = was.bank
    BY <1>1, <1>2 DEF LineRows
  <2>. QED  BY <2>1, RowsAreLines
<1>4. /\ line' = [line EXCEPT ![l].entry = "reversed"]
      /\ cash' = [cash EXCEPT ![ledgerOf[line[l].bank]] = @ + - Amount(l)]
      /\ UNCHANGED <<ledgerOf, document, receipts, teller>>
  BY DEF ReverseBooking, Book
<1>5. line' = [line EXCEPT ![l] = row] /\ line'[l] = row /\ \A m \in LineIds \ {l} : line'[m] = line[m]
  BY <1>1, <1>2, <1>4 DEF BankInv, BankTyped, BankTypeOK
<1>6. \A u \in Tellers : ~ (teller[u].op = "confirm" /\ teller[u].line = l)
  BY <1>1 DEF BankInv, ConfirmsApart
<1>7. /\ line' \in [LineIds -> LineRows \cup {NoLine}]
      /\ ImportsApart' /\ ConfirmsApart' /\ LinesSound' /\ ImportedOnce'
  BY <1>1, <1>3, <1>4, <1>5, <1>6, LineSettled
<1>8. PICK x \in Int : x = - Amount(l)
  <2>1. PICK a \in Int : a = Amount(l)
    BY DEF Amount
  <2>2. - a \in Int
    BY <2>1
  <2>3. - Amount(l) \in Int
    BY <2>1, <2>2, Zenon
  <2>. QED  BY <2>3, Zenon
<1>9. /\ cash' \in [Ledgers -> Int]
      /\ \A g \in Ledgers : (\A k \in Banks : ledgerOf[k] # g) => cash'[g] = 0
      /\ CashSettled'
  <2>1. cash' = [cash EXCEPT ![ledgerOf[line[l].bank]] = @ + x]
    BY <1>4, <1>8
  <2>2. row.bank = line[l].bank /\ line[l] # NoLine /\ UNCHANGED ledgerOf /\ row \in LineRows
    BY <1>1, <1>3, <1>4
  <2>3. line' = [line EXCEPT ![l] = row]
    BY <1>5
  <2>4. line[l].entry = "posted" /\ row.entry # "posted" /\ x = - Amount(l)
    BY <1>1, <1>3, <1>8, Zenon
  <2>. QED  BY <1>8, <2>1, <2>2, <2>3, <2>4, LineBooked
<1>10. BankTyped'
  BY <1>4, <1>7, <1>9 DEF BankInv, BankTyped, BankTypeOK
<1>11. LedgersApart'
  BY <1>4, <1>9 DEF BankInv, LedgersApart
<1>12. OnePaymentPerLine'
  BY <1>1, <1>3, <1>4, <1>5 DEF BankInv, OnePaymentPerLine
<1>. QED  BY <1>7, <1>9, <1>10, <1>11, <1>12 DEF BankInv

\* A payment for the line, and the entry that books it, in one commit.
LEMMA CommitConfirmStep == ASSUME BankInv, NEW t \in Tellers, CommitConfirm(t) PROVE BankInv'
<1>1. PICK had \in ConfirmRows : had = teller[t]
  BY TellerRow DEF CommitConfirm, BankInv
<1>2. PICK l \in LineIds, d \in Documents : l = had.line /\ d = had.document /\ had.due = 1 /\ had.op = "confirm"
  BY DEF ConfirmRows
<1>3. PICK was \in LineRows : /\ was = line[l] /\ was.status = "unmatched" /\ line[l] # NoLine
                              /\ was.to = "nothing" /\ was.entry = "none"
  <2>1. line[l].status = "unmatched"
    BY <1>1, <1>2 DEF BankInv, ConfirmsApart
  <2>2. line[l] # NoLine /\ line[l] \in LineRows
    BY <2>1, LineRow DEF BankInv
  <2>. QED  BY <2>1, <2>2 DEF BankInv, LinesSound
<1>4. PICK row : row = [was EXCEPT !.status = "reconciled", !.to = d, !.entry = "posted"]
  OBVIOUS
<1>5. /\ row \in LineRows /\ row.status = "reconciled" /\ row.to = d /\ row.entry = "posted"
      /\ row.bank = was.bank /\ row # NoLine
  <2>1. row \in LineRows /\ row.status = "reconciled" /\ row.to = d /\ row.entry = "posted" /\ row.bank = was.bank
    BY <1>4 DEF LineRows
  <2>. QED  BY <2>1, RowsAreLines
<1>6. /\ receipts' = [receipts EXCEPT ![l] = @ + 1]
      /\ document' = [document EXCEPT ![d].due = had.due - 1, ![d].paid = @ + 1]
      /\ line' = [line EXCEPT ![l] = [@ EXCEPT !.status = "reconciled", !.to = d, !.entry = "posted"]]
      /\ cash' = [cash EXCEPT ![ledgerOf[line[l].bank]] = @ + Amount(l)]
      /\ teller' = [teller EXCEPT ![t] = Waiting]
      /\ UNCHANGED ledgerOf
  BY <1>1, <1>2 DEF CommitConfirm, Book, Done
<1>7. line' = [line EXCEPT ![l] = row] /\ line'[l] = row /\ \A m \in LineIds \ {l} : line'[m] = line[m]
  BY <1>3, <1>4, <1>6 DEF BankInv, BankTyped, BankTypeOK
<1>8. /\ teller' \in [Tellers -> {Waiting} \cup ImportRows \cup ConfirmRows] /\ teller'[t] = Waiting
      /\ \A u \in Tellers \ {t} : teller'[u] = teller[u]
  BY <1>6 DEF BankInv, BankTyped
<1>9. \A u \in Tellers : teller'[u].op # "none" =>
         teller'[u] = teller[u] /\ ~ (teller[u].op = "confirm" /\ teller[u].line = l)
  <2>1. ASSUME NEW u \in Tellers, teller'[u].op # "none"
        PROVE  teller'[u] = teller[u] /\ ~ (teller[u].op = "confirm" /\ teller[u].line = l)
    <3>1. u # t
      BY <1>8, <2>1 DEF Waiting
    <3>. QED  BY <1>1, <1>2, <1>8, <3>1 DEF BankInv, ConfirmsApart
  <2>. QED  BY <2>1
<1>10. /\ line' \in [LineIds -> LineRows \cup {NoLine}]
       /\ ImportsApart' /\ ConfirmsApart' /\ LinesSound' /\ ImportedOnce'
  BY <1>3, <1>5, <1>6, <1>7, <1>9, LineSettled
<1>11. PICK x \in Int : x = Amount(l)
  BY DEF Amount
<1>12. /\ cash' \in [Ledgers -> Int]
       /\ \A g \in Ledgers : (\A k \in Banks : ledgerOf[k] # g) => cash'[g] = 0
       /\ CashSettled'
  BY <1>3, <1>5, <1>6, <1>7, <1>11, LineBooked
<1>13. document' \in [Documents -> [status : {"posted", "cancelled"}, total : {1, 2}, due : 0 .. 2, paid : Nat]]
  <2>1. PICK paper \in [status : {"posted", "cancelled"}, total : {1, 2}, due : 0 .. 2, paid : Nat] : paper = document[d]
    BY DEF BankInv, BankTyped, BankTypeOK
  <2>2. PICK left \in 0 .. 2, paid \in Nat : left = had.due - 1 /\ paid = paper.paid + 1
    <3>1. had.due - 1 = 0 /\ paper.paid \in Nat
      BY <1>2
    <3>. QED  BY <3>1
  <2>3. PICK after : after = [paper EXCEPT !.due = left, !.paid = paid]
    OBVIOUS
  <2>4. after \in [status : {"posted", "cancelled"}, total : {1, 2}, due : 0 .. 2, paid : Nat]
    BY <2>3
  <2>5. document' = [document EXCEPT ![d] = after]
    BY <1>6, <2>1, <2>2, <2>3 DEF BankInv, BankTyped, BankTypeOK
  <2>. QED  BY <2>4, <2>5 DEF BankInv, BankTyped, BankTypeOK
<1>14. receipts' \in [LineIds -> Nat] /\ receipts'[l] = receipts[l] + 1 /\ \A m \in LineIds \ {l} : receipts'[m] = receipts[m]
  BY <1>6 DEF BankInv, BankTyped, BankTypeOK
<1>15. BankTyped'
  BY <1>6, <1>8, <1>10, <1>12, <1>13, <1>14 DEF BankInv, BankTyped, BankTypeOK
<1>16. LedgersApart'
  BY <1>6, <1>12 DEF BankInv, LedgersApart
<1>17. OnePaymentPerLine'
  <2>1. receipts[l] = 0
    BY <1>3, BankingAssumption DEF BankInv, OnePaymentPerLine
  <2>2. receipts'[l] = 1
    BY <1>14, <2>1
  <2>3. \A m \in LineIds \ {l} : receipts'[m] = IF line'[m] # NoLine /\ line'[m].to \in Documents THEN 1 ELSE 0
    BY <1>7, <1>14 DEF BankInv, OnePaymentPerLine
  <2>. QED  BY <1>5, <1>7, <2>2, <2>3 DEF OnePaymentPerLine
<1>. QED  BY <1>10, <1>12, <1>15, <1>16, <1>17 DEF BankInv

\* The lines of the statement that are not there yet, all at once.
LEMMA CommitImportStep == ASSUME BankInv, NEW t \in Tellers, CommitImport(t) PROVE BankInv'
<1>1. PICK had \in ImportRows : had = teller[t]
  BY TellerRow DEF CommitImport, BankInv
<1>2. PICK s \in Statements, k \in Banks, new \in SUBSET Reports :
         s = had.statement /\ k = had.bank /\ new = had.new /\ had.op = "import"
  BY DEF ImportRows
<1>3. PICK row : row = [status |-> "unmatched", bank |-> k, to |-> "nothing", entry |-> "none"]
  OBVIOUS
<1>4. /\ row \in LineRows /\ row # NoLine /\ row.bank = k /\ row.status = "unmatched" /\ row.to = "nothing"
      /\ row.entry = "none"
  <2>1. row \in LineRows /\ row.bank = k /\ row.status = "unmatched" /\ row.to = "nothing" /\ row.entry = "none"
    BY <1>3 DEF LineRows
  <2>. QED  BY <2>1, RowsAreLines
<1>5. /\ line' = [l \in LineIds |-> IF l[1] = s /\ l[2] \in new THEN row ELSE line[l]]
      /\ teller' = [teller EXCEPT ![t] = Waiting] /\ UNCHANGED <<ledgerOf, document, receipts, cash>>
      /\ new \cap Reported(k) = {}
  BY <1>1, <1>2, <1>3 DEF CommitImport, Insert, Done
<1>6. /\ ledgerOf[k] # NoLedger /\ \A l \in LineIds : l[1] = s => line[l] = NoLine
      /\ \A u \in Tellers \ {t} : teller[u].op = "import" => teller[u].statement # s
  BY <1>1, <1>2 DEF BankInv, ImportsApart
<1>7. \A l \in LineIds : \/ line'[l] = line[l] /\ ~ (l[1] = s /\ l[2] \in new)
                         \/ line[l] = NoLine /\ line'[l] = row /\ l[1] = s /\ l[2] \in new
  BY <1>5, <1>6
<1>8. line' \in [LineIds -> LineRows \cup {NoLine}]
  BY <1>4, <1>5 DEF BankInv, BankTyped, BankTypeOK
<1>9. /\ teller' \in [Tellers -> {Waiting} \cup ImportRows \cup ConfirmRows] /\ teller'[t] = Waiting
      /\ \A u \in Tellers \ {t} : teller'[u] = teller[u]
  BY <1>5 DEF BankInv, BankTyped
<1>10. \A u \in Tellers : teller'[u].op # "none" => teller'[u] = teller[u] /\ u # t
  BY <1>9 DEF Waiting
<1>11. BankTyped'
  BY <1>5, <1>8, <1>9 DEF BankInv, BankTyped, BankTypeOK
<1>12. ImportsApart'
  <2>. SUFFICES ASSUME NEW u \in Tellers, teller'[u].op = "import"
                PROVE  /\ ledgerOf'[teller'[u].bank] # NoLedger
                       /\ \A l \in LineIds : l[1] = teller'[u].statement => line'[l] = NoLine
                       /\ \A v \in Tellers : teller'[v].op = "import" /\ teller'[v].statement = teller'[u].statement => v = u
    BY DEF ImportsApart
  <2>1. /\ teller'[u] = teller[u] /\ u # t /\ teller[u].op = "import"
        /\ \A v \in Tellers : teller'[v].op = "import" => teller'[v] = teller[v]
    BY <1>10
  <2>2. teller[u].statement # s
    BY <1>6, <2>1
  <2>. QED  BY <1>5, <1>7, <2>1, <2>2 DEF BankInv, ImportsApart
<1>13. ConfirmsApart'
  <2>. SUFFICES ASSUME NEW u \in Tellers, teller'[u].op = "confirm"
                PROVE  /\ line'[teller'[u].line].status = "unmatched"
                       /\ \A v \in Tellers : teller'[v].op = "confirm" /\ teller'[v].line = teller'[u].line => v = u
    BY DEF ConfirmsApart
  <2>1. /\ teller'[u] = teller[u] /\ teller[u].op = "confirm"
        /\ \A v \in Tellers : teller'[v].op = "confirm" => teller'[v] = teller[v]
    BY <1>10
  <2>2. teller[u].line \in LineIds /\ line[teller[u].line].status = "unmatched"
    BY <2>1, TellerRow DEF BankInv, ConfirmRows, ConfirmsApart
  <2>3. line[teller[u].line] # NoLine
    BY <2>2, LineRow DEF BankInv
  <2>4. line'[teller[u].line] = line[teller[u].line]
    BY <1>7, <2>2, <2>3
  <2>. QED  BY <2>1, <2>2, <2>4 DEF BankInv, ConfirmsApart
<1>14. LinesSound'
  BY <1>4, <1>5, <1>6, <1>7 DEF BankInv, LinesSound
<1>15. LedgersApart'
  BY <1>5 DEF BankInv, LedgersApart
<1>16. ImportedOnce'
  <2>. SUFFICES ASSUME NEW i \in LineIds, NEW m \in LineIds, i # m, line'[i] # NoLine, line'[m] # NoLine,
                       line'[i].bank = line'[m].bank, i[2] = m[2]
                PROVE  FALSE
    BY DEF ImportedOnce
  <2>1. ASSUME NEW n \in LineIds, line'[n] = line[n], line[n] # NoLine, line[n].bank = k PROVE n[2] \notin new
    BY <1>5, <2>1 DEF Reported
  <2>2. i[1] # m[1]
    BY DEF LineIds
  <2>3. CASE line'[i] = line[i] /\ line'[m] = line[m]
    BY <2>3 DEF BankInv, ImportedOnce
  <2>4. CASE line'[i] = row /\ i[1] = s /\ i[2] \in new
    <3>1. line'[m] = line[m]
      BY <1>7, <2>2, <2>4
    <3>. QED  BY <1>4, <2>1, <2>4, <3>1
  <2>5. CASE line'[m] = row /\ m[1] = s /\ m[2] \in new
    <3>1. line'[i] = line[i]
      BY <1>7, <2>2, <2>5
    <3>. QED  BY <1>4, <2>1, <2>5, <3>1
  <2>. QED  BY <1>7, <2>3, <2>4, <2>5
<1>17. OnePaymentPerLine'
  <2>1. ASSUME NEW l \in LineIds PROVE receipts[l] = IF line'[l] # NoLine /\ line'[l].to \in Documents THEN 1 ELSE 0
    <3>1. CASE line'[l] = line[l]
      BY <3>1 DEF BankInv, OnePaymentPerLine
    <3>2. CASE line[l] = NoLine /\ line'[l] = row
      BY <1>4, <3>2, BankingAssumption DEF BankInv, OnePaymentPerLine
    <3>. QED  BY <1>7, <3>1, <3>2
  <2>. QED  BY <1>5, <2>1 DEF OnePaymentPerLine
<1>18. CashSettled'
  <2>1. ASSUME NEW b PROVE SettledIn(b)' = SettledIn(b) /\ SettledOut(b)' = SettledOut(b)
    <3>1. \A l \in LineIds : /\ line'[l] # NoLine /\ line'[l].bank = b /\ line'[l].entry = "posted"
                             <=> line[l] # NoLine /\ line[l].bank = b /\ line[l].entry = "posted"
      BY <1>4, <1>7
    <3>. QED  BY <3>1 DEF SettledIn, SettledOut
  <2>. QED  BY <1>5, <2>1 DEF BankInv, CashSettled
<1>. QED  BY <1>11, <1>12, <1>13, <1>14, <1>15, <1>16, <1>17, <1>18 DEF BankInv

LEMMA BankStart == ASSUME BankInit PROVE BankInv
<1>1. BankTyped
  <2>1. document \in [Documents -> [status : {"posted", "cancelled"}, total : {1, 2}, due : 0 .. 2, paid : Nat]]
    <3>1. \A x \in {1, 2} :
            [status |-> "posted", total |-> x, due |-> x, paid |-> 0] \in
               [status : {"posted", "cancelled"}, total : {1, 2}, due : 0 .. 2, paid : Nat]
      OBVIOUS
    <3>. QED  BY <3>1 DEF BankInit
  <2>2. /\ ledgerOf \in [Banks -> Ledgers \cup {NoLedger}] /\ line \in [LineIds -> LineRows \cup {NoLine}]
        /\ receipts \in [LineIds -> Nat] /\ cash \in [Ledgers -> Int]
    BY DEF BankInit
  <2>3. teller \in [Tellers -> {Waiting} \cup ImportRows \cup ConfirmRows]
    BY DEF BankInit
  <2>. QED  BY <2>1, <2>2, <2>3 DEF BankTyped, BankTypeOK
<1>2. ImportsApart /\ ConfirmsApart
  BY DEF BankInit, ImportsApart, ConfirmsApart, Waiting
<1>3. LinesSound /\ LedgersApart /\ ImportedOnce /\ OnePaymentPerLine
  BY DEF BankInit, LinesSound, LedgersApart, ImportedOnce, OnePaymentPerLine
<1>4. CashSettled
  BY DEF BankInit, CashSettled
<1>. QED  BY <1>1, <1>2, <1>3, <1>4 DEF BankInv

LEMMA BankStep == ASSUME BankInv, [BankNext]_bankVars PROVE BankInv'
<1>1. CASE UNCHANGED bankVars
  BY <1>1 DEF bankVars, BankInv, BankTyped, BankTypeOK, ImportsApart, ConfirmsApart, LinesSound, LedgersApart,
              ImportedOnce, OnePaymentPerLine, CashSettled, SettledIn, SettledOut, Reported
<1>2. ASSUME NEW t \in Tellers, NEW s \in Statements, NEW k \in Banks, NEW file \in SUBSET Reports \ {{}},
             BeginImport(t, s, k, file)
      PROVE  BankInv'
  BY <1>2, BeginImportStep
<1>. QED  BY <1>1, <1>2, CreateBankAccountStep, BeginConfirmStep, CommitImportStep, LockToAllocateStep, CommitConfirmStep,
             GiveUpStep, AssignLineStep, ReverseBookingStep, DocumentsStep DEF BankNext

\* A line of a bank account is imported once and paid once, whatever overlaps,
\* and the journal's cash is what the booked lines add up to, for any number of
\* accounts, statements, documents and tellers (banking.py:63-72, 57-64).
THEOREM BankedOnceHolds == BankSpec => []BankedOnce
<1>1. BankInv => BankedOnce
  BY CashIs DEF BankInv, BankTyped, BankedOnce
<1>. QED  BY BankStart, BankStep, <1>1, PTL DEF BankSpec
===============================================================================
