---------------------------- MODULE MCReceivables ----------------------------
(***************************************************************************)
(* Receivables for TLC: which calls overlap is which operations the two    *)
(* requests may be.                                                        *)
(***************************************************************************)
EXTENDS Receivables, TLC

CONSTANTS t1, t2

\* Every operation may overlap an allocation; reversals come one at a time.
AllocateAgainstAll == t1 :> {"allocate"} @@ t2 :> Operations
\* Postings, cancellations, allocations and reversals of the same rows.
BothMove == t1 :> {"post", "cancel", "allocate", "reverse"}
            @@ t2 :> {"update", "post", "allocate", "reverse"}

Symmetry ==
    Permutations(Invoices) \cup Permutations(Payments) \cup Permutations(Allocations)
==============================================================================
