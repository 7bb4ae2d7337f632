------------------------------- MODULE MCLedger -------------------------------
(***************************************************************************)
(* Ledger for TLC.  Entries, bookkeepers and editors are interchangeable.  *)
(***************************************************************************)
EXTENDS Ledger, TLC

CONSTANTS cash, sales

Debit(a)  == [account |-> a, side |-> "debit"]
Credit(a) == [account |-> a, side |-> "credit"]

\* A balanced list, and two that only balance together.
SaleAndOneSided ==
    {{Debit(cash), Credit(sales)}, {Debit(cash), Debit(sales)}, {Credit(cash), Credit(sales)}}

Symmetry ==
    Permutations(Entries) \cup Permutations(Bookkeepers) \cup Permutations(Editors)
        \cup Permutations(Periods)

\* The bound of the joint run: an editor is at work while one period is open or
\* closed, two periods are used while no editor is at work.
Bounded == \/ \A u \in Editors : editing[u] = Idle
           \/ \E p \in Periods : period[p] = "absent"

MCSpec == Init /\ [][Next /\ Bounded']_vars
===============================================================================
