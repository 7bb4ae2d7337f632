----------------------------- MODULE MoneyAccounts -----------------------------
(***************************************************************************)
(* What customers are promised about their money: a payment gives only     *)
(* what it has left, an invoice takes no more than it is owed, both at the *)
(* same moment; what was given is taken back whole, at most once; and no   *)
(* gift is ever made under an earlier one's name.                          *)
(***************************************************************************)
EXTENDS Naturals

CONSTANTS
    Payments,   \* payment ids
    Invoices,   \* invoice ids
    Gifts,      \* the names gifts go by
    Amounts     \* the sums anything may be of

VARIABLES
    left,       \* left[p]: what payment p has not given away; 0 before it is received
    received,   \* the payments that came
    owed,       \* owed[i]: what an invoice still owes; 0 unless it is due
    due,        \* the invoices posted and not cancelled
    closed,     \* the cancelled ones
    given,      \* the gifts: [name, from, to, amount]
    returned    \* the gifts taken back

accountVars == <<left, received, owed, due, closed, given, returned>>

Gift == [name : Gifts, from : Payments, to : Invoices, amount : Amounts]

AInit ==
    /\ left = [p \in Payments |-> 0] /\ received = {}
    /\ owed = [i \in Invoices |-> 0] /\ due = {} /\ closed = {}
    /\ given = {} /\ returned = {}

Receive(p, x) ==
    /\ p \notin received
    /\ received' = received \cup {p}
    /\ left' = [left EXCEPT ![p] = x]
    /\ UNCHANGED <<owed, due, closed, given, returned>>

Bill(i, x) ==
    /\ i \notin due \cup closed
    /\ due' = due \cup {i}
    /\ owed' = [owed EXCEPT ![i] = x]
    /\ UNCHANGED <<left, received, closed, given, returned>>

\* What was given to an invoice is kept when it is cancelled.
Cancel(i) ==
    /\ i \in due
    /\ due' = due \ {i}
    /\ closed' = closed \cup {i}
    /\ owed' = [owed EXCEPT ![i] = 0]
    /\ UNCHANGED <<left, received, given, returned>>

\* A cancelled invoice may still be given to, by who found it due.
Give(g) ==
    /\ \A h \in given \cup returned : h.name # g.name
    /\ g.from \in received /\ g.to \in due \cup closed
    /\ g.amount <= left[g.from]
    /\ g.to \in due => g.amount <= owed[g.to]
    /\ left' = [left EXCEPT ![g.from] = @ - g.amount]
    /\ owed' = IF g.to \in due THEN [owed EXCEPT ![g.to] = @ - g.amount] ELSE owed
    /\ given' = given \cup {g}
    /\ UNCHANGED <<received, due, closed, returned>>

TakeBack(g) ==
    /\ g \in given
    /\ left' = [left EXCEPT ![g.from] = @ + g.amount]
    /\ owed' = IF g.to \in due THEN [owed EXCEPT ![g.to] = @ + g.amount] ELSE owed
    /\ given' = given \ {g}
    /\ returned' = returned \cup {g}
    /\ UNCHANGED <<received, due, closed>>

ANext ==
    \/ \E p \in Payments, x \in Amounts : Receive(p, x)
    \/ \E i \in Invoices, x \in Amounts : Bill(i, x)
    \/ \E i \in Invoices : Cancel(i)
    \/ \E g \in Gift : Give(g) \/ TakeBack(g)

ASpec == AInit /\ [][ANext]_accountVars
===============================================================================
