------------------------------ MODULE Receivables ------------------------------
(***************************************************************************)
(* What customers owe and what they paid: the posted life of an invoice    *)
(* (product/accounting/invoices.py) and the allocations of payments to     *)
(* invoices (payments.py).                                                 *)
(*                                                                         *)
(* A call is a database transaction at READ COMMITTED, cut into steps at   *)
(* its locks and at its reads of rows it has not locked.  What it read is  *)
(* kept in txn[t] and written back in its last step, when its writes       *)
(* become visible and its locks free; a refused call leaves no trace.      *)
(***************************************************************************)
EXTENDS Naturals, FiniteSets, FiniteSetsExt

CONSTANTS
    Invoices,       \* invoice ids
    Payments,       \* payment ids
    Allocations,    \* payment_allocation ids
    NoAllocation,   \* NULL in payment_allocations.reverses_allocation_id
    Amounts,        \* the sums an invoice, a payment or an allocation may be of
    Threads,        \* requests in progress
    May,            \* May[t]: the operations request t may be
    Free            \* the holder of a lock nobody holds

Operations == {"update", "post", "cancel", "allocate", "reverse"}

ASSUME AmountsAssumption      == Amounts \subseteq Nat \ {0}
ASSUME NoAllocationAssumption == NoAllocation \notin Allocations
ASSUME MayAssumption          == May \in [Threads -> SUBSET Operations]
ASSUME FreeAssumption         == Free \notin Threads

VARIABLES
    invoice,        \* the invoices rows
    payment,        \* the payments rows
    allocation,     \* the payment_allocations rows
    rowLock,        \* who holds an invoice's row lock
    documentLock,   \* who holds an invoice's advisory lock
    paymentLock,    \* who holds a payment's advisory lock
    numberLock,     \* who holds the tenant's invoice-number lock
    txn             \* txn[t]: the transaction request t is in

rows  == <<invoice, payment, allocation>>
locks == <<rowLock, documentLock, paymentLock, numberLock>>
vars  == <<rows, locks, txn>>

Statuses == {"draft", "posted", "cancelled", "voided"}
NoRow    == [status |-> "none"]
Idle     == [op |-> "none"]

InvoiceRows == [status : Statuses, total : Amounts, outstanding : Nat, number : Nat]
PaymentRows == [status : {"received"}, amount : Amounts, unallocated : Nat]
AllocationRows ==
    [status : {"recorded"}, payment : Payments, document : Invoices, amount : Amounts,
     reverses : Allocations \cup {NoAllocation}]

Editing    == [op : {"update"}, document : Invoices, total : Amounts]
Posting    == [op : {"post"}, step : {"locked", "numbered"}, document : Invoices, number : Nat]
Cancelling == [op : {"cancel"}, document : Invoices]
Moving     == [op : {"allocate", "reverse"}, step : {"begun", "document", "locked", "read"},
               id : Allocations, payment : Payments, document : Invoices, amount : Amounts,
               reverses : Allocations \cup {NoAllocation}, unallocated : Nat, outstanding : Nat]

TypeOK ==
    /\ invoice \in [Invoices -> InvoiceRows \cup {NoRow}]
    /\ payment \in [Payments -> PaymentRows \cup {NoRow}]
    /\ allocation \in [Allocations -> AllocationRows \cup {NoRow}]
    /\ rowLock \in [Invoices -> Threads \cup {Free}]
    /\ documentLock \in [Invoices -> Threads \cup {Free}]
    /\ paymentLock \in [Payments -> Threads \cup {Free}]
    /\ numberLock \in Threads \cup {Free}
    /\ txn \in [Threads -> Editing \cup Posting \cup Cancelling \cup Moving \cup {Idle}]

Init ==
    /\ invoice = [i \in Invoices |-> NoRow]
    /\ payment = [p \in Payments |-> NoRow]
    /\ allocation = [a \in Allocations |-> NoRow]
    /\ rowLock = [i \in Invoices |-> Free]
    /\ documentLock = [i \in Invoices |-> Free]
    /\ paymentLock = [p \in Payments |-> Free]
    /\ numberLock = Free
    /\ txn = [t \in Threads |-> Idle]

\* Locks live as long as their transaction.
EndTransaction(t) ==
    /\ rowLock' = [i \in Invoices |-> IF rowLock[i] = t THEN Free ELSE rowLock[i]]
    /\ documentLock' = [i \in Invoices |-> IF documentLock[i] = t THEN Free ELSE documentLock[i]]
    /\ paymentLock' = [p \in Payments |-> IF paymentLock[p] = t THEN Free ELSE paymentLock[p]]
    /\ numberLock' = IF numberLock = t THEN Free ELSE numberLock
    /\ txn' = [txn EXCEPT ![t] = Idle]

\* A refusal found after a lock was taken, a lost connection, a dead worker.
Rollback(t) ==
    /\ txn[t] # Idle
    /\ EndTransaction(t)
    /\ UNCHANGED rows
-----------------------------------------------------------------------------
(***************************************************************************)
(* Invoices: draft, posted under the next number, cancelled.               *)
(***************************************************************************)
CreateInvoice(i, x) ==
    /\ invoice[i] = NoRow
    /\ invoice' = [invoice EXCEPT ![i] =
                     [status |-> "draft", total |-> x, outstanding |-> 0, number |-> 0]]
    /\ UNCHANGED <<payment, allocation, locks, txn>>

VoidInvoice(i) ==
    /\ rowLock[i] = Free
    /\ invoice[i].status = "draft"
    /\ invoice' = [invoice EXCEPT ![i].status = "voided"]
    /\ UNCHANGED <<payment, allocation, locks, txn>>

\* update_invoice() reads the status without a lock; its last write, of the row
\* with the new total, waits for the row's lock and looks at the status no more.
BeginUpdate(t, i, x) ==
    /\ txn[t] = Idle
    /\ "update" \in May[t]
    /\ invoice[i].status = "draft"
    /\ txn' = [txn EXCEPT ![t] = [op |-> "update", document |-> i, total |-> x]]
    /\ UNCHANGED <<rows, locks>>

CommitUpdate(t) ==
    /\ txn[t].op = "update"
    /\ rowLock[txn[t].document] = Free
    /\ invoice' = [invoice EXCEPT ![txn[t].document].total = txn[t].total]
    /\ EndTransaction(t)
    /\ UNCHANGED <<payment, allocation>>

PostLock(t, i) ==
    /\ txn[t] = Idle
    /\ "post" \in May[t]
    /\ rowLock[i] = Free
    /\ invoice[i].status = "draft"
    /\ rowLock' = [rowLock EXCEPT ![i] = t]
    /\ txn' = [txn EXCEPT ![t] =
                 [op |-> "post", step |-> "locked", document |-> i, number |-> 0]]
    /\ UNCHANGED <<rows, documentLock, paymentLock, numberLock>>

Numbers    == {invoice[i].number : i \in {j \in Invoices : invoice[j] # NoRow}} \ {0}
LastNumber == IF Numbers = {} THEN 0 ELSE Max(Numbers)

\* Mutant: the last number is read without the number lock.
PostNumberUnlocked(t) ==
    /\ txn[t].op = "post"
    /\ txn[t].step = "locked"
    /\ txn' = [txn EXCEPT ![t].step = "numbered", ![t].number = LastNumber + 1]
    /\ UNCHANGED <<rows, locks>>

\* The tenant's number lock first, then the last number anybody committed.
PostNumber(t) ==
    /\ txn[t].op = "post"
    /\ txn[t].step = "locked"
    /\ numberLock = Free
    /\ numberLock' = t
    /\ txn' = [txn EXCEPT ![t].step = "numbered", ![t].number = LastNumber + 1]
    /\ UNCHANGED <<rows, rowLock, documentLock, paymentLock>>

\* The journal entry balanced and its period was open; otherwise Rollback.
PostCommit(t) ==
    /\ txn[t].op = "post"
    /\ txn[t].step = "numbered"
    /\ LET i == txn[t].document
       IN  invoice' = [invoice EXCEPT ![i].status = "posted", ![i].number = txn[t].number,
                                      ![i].outstanding = invoice[i].total]
    /\ EndTransaction(t)
    /\ UNCHANGED <<payment, allocation>>

CancelLock(t, i) ==
    /\ txn[t] = Idle
    /\ "cancel" \in May[t]
    /\ rowLock[i] = Free
    /\ invoice[i].status = "posted"
    /\ rowLock' = [rowLock EXCEPT ![i] = t]
    /\ txn' = [txn EXCEPT ![t] = [op |-> "cancel", document |-> i]]
    /\ UNCHANGED <<rows, documentLock, paymentLock, numberLock>>

\* The journal entry is reversed in the same transaction; otherwise Rollback.
CancelCommit(t) ==
    /\ txn[t].op = "cancel"
    /\ invoice' = [invoice EXCEPT ![txn[t].document].status = "cancelled",
                                  ![txn[t].document].outstanding = 0]
    /\ EndTransaction(t)
    /\ UNCHANGED <<payment, allocation>>
-----------------------------------------------------------------------------
(***************************************************************************)
(* Payments and their allocations.  create_allocation() and                *)
(* reverse_allocation() both lock the document, then the payment: the      *)
(* sorted order of "accounting.document..." and "accounting.payment...".   *)
(***************************************************************************)
CreatePayment(p, x) ==
    /\ payment[p] = NoRow
    /\ payment' = [payment EXCEPT ![p] = [status |-> "received", amount |-> x, unallocated |-> x]]
    /\ UNCHANGED <<invoice, allocation, locks, txn>>

\* An id no row has and no transaction is about to insert.
Unused(a) ==
    /\ allocation[a] = NoRow
    /\ \A t \in Threads : txn[t].op \in {"allocate", "reverse"} => txn[t].id # a

Reversed(a) == \E b \in Allocations : allocation[b] # NoRow /\ allocation[b].reverses = a

Begin(t, op, a, p, i, x, of) ==
    /\ txn[t] = Idle
    /\ op \in May[t]
    /\ Unused(a)
    /\ txn' = [txn EXCEPT ![t] =
                 [op |-> op, step |-> "begun", id |-> a, payment |-> p, document |-> i,
                  amount |-> x, reverses |-> of, unallocated |-> 0, outstanding |-> 0]]
    /\ UNCHANGED <<rows, locks>>

BeginAllocation(t, a, p, i, x) ==
    /\ payment[p] # NoRow
    /\ invoice[i] # NoRow
    /\ Begin(t, "allocate", a, p, i, x, NoAllocation)

\* reverse_allocation() looks for an earlier reversal before it locks anything.
BeginReversal(t, a, of) ==
    /\ allocation[of] # NoRow
    /\ allocation[of].reverses = NoAllocation
    /\ ~Reversed(of)
    /\ Begin(t, "reverse", a, allocation[of].payment, allocation[of].document,
             allocation[of].amount, of)

\* Mutant: only the payment is locked.
LockNoDocument(t) ==
    /\ txn[t].op \in {"allocate", "reverse"}
    /\ txn[t].step = "begun"
    /\ txn' = [txn EXCEPT ![t].step = "document"]
    /\ UNCHANGED <<rows, locks>>

\* Mutant: a reversal locks the payment before the document.
LockInCallOrder(t) ==
    /\ txn[t].op \in {"allocate", "reverse"}
    /\ LET x == txn[t]
       IN  \/ /\ x.step = "begun"
              /\ x.op = "allocate"
              /\ documentLock[x.document] = Free
              /\ documentLock' = [documentLock EXCEPT ![x.document] = t]
              /\ txn' = [txn EXCEPT ![t].step = "document"]
              /\ UNCHANGED paymentLock
           \/ /\ x.step = "begun"
              /\ x.op = "reverse"
              /\ paymentLock[x.payment] = Free
              /\ paymentLock' = [paymentLock EXCEPT ![x.payment] = t]
              /\ txn' = [txn EXCEPT ![t].step = "payment"]
              /\ UNCHANGED documentLock
           \/ /\ x.step = "payment"
              /\ documentLock[x.document] = Free
              /\ documentLock' = [documentLock EXCEPT ![x.document] = t]
              /\ txn' = [txn EXCEPT ![t].step = "locked"]
              /\ UNCHANGED paymentLock
    /\ UNCHANGED <<rows, rowLock, numberLock>>

LockDocument(t) ==
    /\ txn[t].op \in {"allocate", "reverse"}
    /\ txn[t].step = "begun"
    /\ documentLock[txn[t].document] = Free
    /\ documentLock' = [documentLock EXCEPT ![txn[t].document] = t]
    /\ txn' = [txn EXCEPT ![t].step = "document"]
    /\ UNCHANGED <<rows, rowLock, paymentLock, numberLock>>

\* Mutant: only the document is locked, as ADR-0014 first decided.
LockNoPayment(t) ==
    /\ txn[t].op \in {"allocate", "reverse"}
    /\ txn[t].step = "document"
    /\ txn' = [txn EXCEPT ![t].step = "locked"]
    /\ UNCHANGED <<rows, locks>>

LockPayment(t) ==
    /\ txn[t].op \in {"allocate", "reverse"}
    /\ txn[t].step = "document"
    /\ paymentLock[txn[t].payment] = Free
    /\ paymentLock' = [paymentLock EXCEPT ![txn[t].payment] = t]
    /\ txn' = [txn EXCEPT ![t].step = "locked"]
    /\ UNCHANGED <<rows, rowLock, documentLock, numberLock>>

\* Mutant: what the invoice still owes is not looked at.
MayOverpay(t) ==
    /\ txn[t].amount <= payment[txn[t].payment].unallocated
    /\ invoice[txn[t].document].status = "posted"

\* Plain reads, of the last committed values.
MayAllocate(t) ==
    /\ txn[t].amount <= payment[txn[t].payment].unallocated
    /\ invoice[txn[t].document].status = "posted"
    /\ txn[t].amount <= invoice[txn[t].document].outstanding

ReadBoth(t) ==
    /\ txn[t].op \in {"allocate", "reverse"}
    /\ txn[t].step = "locked"
    /\ txn[t].op = "allocate" => MayAllocate(t)
    /\ txn' = [txn EXCEPT ![t].step = "read",
                          ![t].unallocated = payment[txn[t].payment].unallocated,
                          ![t].outstanding = invoice[txn[t].document].outstanding]
    /\ UNCHANGED <<rows, locks>>

RefuseAllocation(t) ==
    /\ txn[t].op = "allocate"
    /\ txn[t].step = "locked"
    /\ ~MayAllocate(t)
    /\ EndTransaction(t)
    /\ UNCHANGED rows

\* Both UPDATEs write values computed from the reads; the one of the invoice
\* waits for its row lock.  unallocated > amount is refused by a CHECK.
WriteBoth(t, unallocated, outstanding) ==
    LET x == txn[t] IN
    /\ x.step = "read"
    /\ rowLock[x.document] = Free
    /\ unallocated <= payment[x.payment].amount
    /\ payment' = [payment EXCEPT ![x.payment].unallocated = unallocated]
    /\ invoice' = [invoice EXCEPT ![x.document].outstanding = outstanding]
    /\ allocation' = [allocation EXCEPT ![x.id] =
                        [status |-> "recorded", payment |-> x.payment, document |-> x.document,
                         amount |-> x.amount, reverses |-> x.reverses]]
    /\ EndTransaction(t)

CommitAllocation(t) ==
    /\ txn[t].op = "allocate"
    /\ WriteBoth(t, txn[t].unallocated - txn[t].amount, txn[t].outstanding - txn[t].amount)

CommitReversal(t) ==
    /\ txn[t].op = "reverse"
    /\ WriteBoth(t, txn[t].unallocated + txn[t].amount, txn[t].outstanding + txn[t].amount)

RefuseReversal(t) ==
    /\ txn[t].op = "reverse"
    /\ txn[t].step = "read"
    /\ txn[t].unallocated + txn[t].amount > payment[txn[t].payment].amount
    /\ EndTransaction(t)
    /\ UNCHANGED rows
-----------------------------------------------------------------------------
Arrive == \/ \E i \in Invoices : \/ VoidInvoice(i)
                                 \/ \E x \in Amounts : CreateInvoice(i, x)
          \/ \E p \in Payments, x \in Amounts : CreatePayment(p, x)

Start(t) == \/ \E i \in Invoices : PostLock(t, i) \/ CancelLock(t, i)
            \/ \E i \in Invoices, x \in Amounts : BeginUpdate(t, i, x)
            \/ \E a \in Allocations, p \in Payments, i \in Invoices, x \in Amounts :
                   BeginAllocation(t, a, p, i, x)
            \/ \E a, of \in Allocations : BeginReversal(t, a, of)

Continue(t) == \/ CommitUpdate(t) \/ PostNumber(t) \/ PostCommit(t) \/ CancelCommit(t)
               \/ LockDocument(t) \/ LockPayment(t) \/ ReadBoth(t)
               \/ RefuseAllocation(t) \/ CommitAllocation(t)
               \/ CommitReversal(t) \/ RefuseReversal(t)

Next == Arrive \/ \E t \in Threads : Start(t) \/ Continue(t) \/ Rollback(t)

Spec == Init /\ [][Next]_vars

\* A running transaction goes on; PostgreSQL serves the waiters of a lock in turn.
FairSpec == Spec /\ \A t \in Threads : SF_vars(Continue(t))
-----------------------------------------------------------------------------
Live(a) ==
    /\ allocation[a] # NoRow
    /\ allocation[a].reverses = NoAllocation
    /\ ~Reversed(a)

\* What allocations add up to, counted euro by euro.
Total(S) == Cardinality(UNION {{a} \X (1 .. allocation[a].amount) : a \in S})

Spent(p)   == {a \in Allocations : Live(a) /\ allocation[a].payment = p}
PaidOff(i) == {a \in Allocations : Live(a) /\ allocation[a].document = i}

(***************************************************************************)
(* No euro of a payment is spent twice or lost: what is not unallocated is *)
(* in its live allocations, under allocations to two invoices at once      *)
(* (payments.py:87, the addendum's dual locking).                          *)
(***************************************************************************)
PaymentConserved ==
    \A p \in Payments : (payment[p] # NoRow) =>
        (payment[p].amount = payment[p].unallocated + Total(Spent(p)))

(***************************************************************************)
(* A posted invoice owes its total less its live allocations, under        *)
(* allocations from two payments at once.                                  *)
(***************************************************************************)
InvoiceConserved ==
    \A i \in Invoices : (invoice[i].status = "posted") =>
        (invoice[i].total = invoice[i].outstanding + Total(PaidOff(i)))

(***************************************************************************)
(* One set of live allocations accounts for what every payment has spent   *)
(* and for what every posted invoice was paid (payments.py:368-384).       *)
(***************************************************************************)
MoneyConserved == PaymentConserved /\ InvoiceConserved

(***************************************************************************)
(* Invoice numbers are 1, 2, 3 ... without a gap or a repetition, whatever *)
(* postings overlap, fail or are cancelled (invoices.py:590-597).          *)
(***************************************************************************)
NumbersGapless ==
    /\ Numbers = 1 .. Cardinality(Numbers)
    /\ \A i, j \in Invoices :
         (i # j /\ {invoice[i].status, invoice[j].status} \subseteq {"posted", "cancelled"})
             => (invoice[i].number # invoice[j].number)
    /\ \A i \in Invoices :
         (invoice[i] # NoRow) => ((invoice[i].number # 0) <=> (invoice[i].status \in {"posted", "cancelled"}))

(***************************************************************************)
(* An allocation is reversed at most once (payments.py:527-534).           *)
(***************************************************************************)
AllocationReversedOnce ==
    \A a, b \in Allocations :
        (a # b /\ allocation[a] # NoRow /\ allocation[b] # NoRow
             /\ allocation[a].reverses # NoAllocation)
            => (allocation[a].reverses # allocation[b].reverses)

(***************************************************************************)
(* "A cancelled invoice is no longer owed" (invoices.py:748).              *)
(***************************************************************************)
CancelledOwesNothing ==
    \A i \in Invoices : (invoice[i].status = "cancelled") => (invoice[i].outstanding = 0)

(***************************************************************************)
(* Cut into steps and overlapping, allocations and reversals change the    *)
(* balances of both sides and their rows as if each were done at once, by  *)
(* the balances of that moment (MoneyAccounts; payments.py:87-98, 338).    *)
(***************************************************************************)
Posted == {i \in Invoices : invoice[i].status = "posted"}
Gift(a) == [name |-> a, from |-> allocation[a].payment, to |-> allocation[a].document,
            amount |-> allocation[a].amount]

Accounts == INSTANCE MoneyAccounts WITH
    Gifts    <- Allocations,
    left     <- [p \in Payments |-> IF payment[p] = NoRow THEN 0 ELSE payment[p].unallocated],
    received <- {p \in Payments : payment[p] # NoRow},
    owed     <- [i \in Invoices |-> IF i \in Posted THEN invoice[i].outstanding ELSE 0],
    due      <- Posted,
    closed   <- {i \in Invoices : invoice[i].status = "cancelled"},
    given    <- {Gift(a) : a \in {b \in Allocations : Live(b)}},
    returned <- {Gift(a) : a \in {b \in Allocations : allocation[b] # NoRow /\ Reversed(b)}}

MovesAtOnce == Accounts!ASpec

(***************************************************************************)
(* Every call comes to an end: no set of calls waits for each other's      *)
(* locks, because all take them in one order (payments.py:97).             *)
(***************************************************************************)
CallsEnd == \A t \in Threads : (txn[t] # Idle) ~> (txn[t] = Idle)
=============================================================================
