-------------------------------- MODULE Ledger --------------------------------
(***************************************************************************)
(* The double-entry journal and its accounting periods:                    *)
(* product/accounting/journal.py and periods.py.                           *)
(*                                                                         *)
(* A call is a database transaction at READ COMMITTED.  Where it takes a   *)
(* lock (SELECT ... FOR UPDATE on the entry, the tenant's advisory lock on *)
(* the period) or reads a row it has not locked, the transaction is cut    *)
(* there into steps, and every other call may run in between; its writes   *)
(* become visible, and its locks free, in its last step.  A call that is   *)
(* refused rolls back and leaves no trace.                                 *)
(***************************************************************************)
EXTENDS Integers, FiniteSets

CONSTANTS
    Entries,      \* journal entry ids
    NoEntry,      \* NULL in journal_entries.reverses_entry_id
    Periods,      \* disjoint date ranges; a date is known by the range it is in
    NoPeriod,     \* the date of an entry that does not exist
    Accounts,     \* the chart of accounts
    Inputs,       \* the line lists a request may bring: [account, side] each
    Bookkeepers,  \* requests that post or reverse
    Managers,     \* requests that close or reopen a period
    Editors,      \* requests that edit a draft
    Author,       \* create_journal_entry(), as the writer of a draft's first lines
    Free          \* the holder of a lock nobody holds

Sides == {"debit", "credit"}

ASSUME NoEntryAssumption  == NoEntry \notin Entries
ASSUME NoPeriodAssumption == NoPeriod \notin Periods

\* _validate_lines(): at least two lines, each on one side.
ASSUME InputsAssumption ==
    \A input \in Inputs : /\ input \subseteq [account : Accounts, side : Sides]
                          /\ IsFiniteSet(input) /\ Cardinality(input) >= 2

ASSUME AuthorAssumption  == Author \notin Editors
ASSUME FreeAssumption    == Free \notin Bookkeepers \cup Managers
ASSUME ActorsAssumption  == Bookkeepers \cap Managers = {}

VARIABLES
    status,       \* journal_entries.status; "none" while there is no row
    date,         \* the range entry_date falls in
    lines,        \* the entry's journal_lines
    reverses,     \* journal_entries.reverses_entry_id
    period,       \* periods.status; "absent" while nobody created the period
    rowLock,      \* who holds an entry's row lock
    periodLock,   \* who holds a period's advisory lock
    work,         \* work[t]: the transaction bookkeeper t is in
    managing,     \* managing[m]: the transaction manager m is in
    editing       \* editing[u]: the transaction editor u is in

journal == <<status, date, lines, reverses>>
locks   == <<rowLock, periodLock>>
vars    == <<journal, period, locks, work, managing, editing>>

EntryStatuses  == {"none", "draft", "posted", "voided", "reversed"}
PeriodStatuses == {"absent", "open", "closed"}

(***************************************************************************)
(* A line debits or credits an account by one unit.  "by" tells the lines  *)
(* of different calls apart.                                               *)
(***************************************************************************)
Lines == [by : Editors \cup {Author}, account : Accounts, side : Sides]

WrittenBy(u, input) == {[by |-> u, account |-> l.account, side |-> l.side] : l \in input}

On(ls, side) == {l \in ls : l.side = side}

\* An entry needs two lines to be posted, and as much debit as credit.
Balanced(ls) ==
    /\ ls # {}
    /\ Cardinality(On(ls, "debit")) = Cardinality(On(ls, "credit"))

Flipped(l) == [l EXCEPT !.side = IF l.side = "debit" THEN "credit" ELSE "debit"]
Mirror(ls) == {Flipped(l) : l \in ls}

Idle      == [step |-> "idle"]
Postings  == [step : {"locked", "entered"}, kind : {"post"}, entry : Entries, period : Periods]
Reversals == [step : {"locked", "entered"}, kind : {"reverse"}, entry : Entries,
              period : Periods, read : SUBSET Lines]
Work      == Postings \cup Reversals
Managing  == [step : {"locked"}, period : Periods, to : {"open", "closed"}]
Editing   == [step : {"checked"}, entry : Entries]
        \cup [step : {"deleted"}, entry : Entries, seen : SUBSET Lines]

TypeOK ==
    /\ status \in [Entries -> EntryStatuses]
    /\ date \in [Entries -> Periods \cup {NoPeriod}]
    /\ lines \in [Entries -> SUBSET Lines]
    /\ reverses \in [Entries -> Entries \cup {NoEntry}]
    /\ period \in [Periods -> PeriodStatuses]
    /\ rowLock \in [Entries -> Bookkeepers \cup {Free}]
    /\ periodLock \in [Periods -> Bookkeepers \cup Managers \cup {Free}]
    /\ work \in [Bookkeepers -> Work \cup {Idle}]
    /\ managing \in [Managers -> Managing \cup {Idle}]
    /\ editing \in [Editors -> Editing \cup {Idle}]
    /\ \A e \in Entries : (date[e] = NoPeriod) <=> (status[e] = "none")

Init ==
    /\ status = [e \in Entries |-> "none"]
    /\ date = [e \in Entries |-> NoPeriod]
    /\ lines = [e \in Entries |-> {}]
    /\ reverses = [e \in Entries |-> NoEntry]
    /\ period = [p \in Periods |-> "absent"]
    /\ rowLock = [e \in Entries |-> Free]
    /\ periodLock = [p \in Periods |-> Free]
    /\ work = [t \in Bookkeepers |-> Idle]
    /\ managing = [m \in Managers |-> Idle]
    /\ editing = [u \in Editors |-> Idle]
-----------------------------------------------------------------------------
(***************************************************************************)
(* Drafts.  Balance is not asked of a draft.                               *)
(***************************************************************************)
CreateEntry(e, p, input) ==
    /\ status[e] = "none"
    /\ status' = [status EXCEPT ![e] = "draft"]
    /\ date' = [date EXCEPT ![e] = p]
    /\ lines' = [lines EXCEPT ![e] = WrittenBy(Author, input)]
    /\ UNCHANGED <<reverses, period, locks, work, managing, editing>>

\* update_journal_entry() reads the status without locking the row ...
EditCheck(u, e) ==
    /\ editing[u] = Idle
    /\ status[e] = "draft"
    /\ editing' = [editing EXCEPT ![u] = [step |-> "checked", entry |-> e]]
    /\ UNCHANGED <<journal, period, locks, work, managing>>

\* ... deletes the lines its DELETE statement can see ...
EditDelete(u) ==
    /\ editing[u].step = "checked"
    /\ editing' = [editing EXCEPT ![u] =
                     [step |-> "deleted", entry |-> @.entry, seen |-> lines[@.entry]]]
    /\ UNCHANGED <<journal, period, locks, work, managing>>

\* ... and inserts new ones.  The insert's foreign-key check waits for the
\* parent row's FOR UPDATE lock; it asks nothing of the parent's status.
EditCommit(u, input) ==
    /\ editing[u].step = "deleted"
    /\ LET e == editing[u].entry
       IN  /\ rowLock[e] = Free
           /\ lines' = [lines EXCEPT ![e] =
                          (@ \ editing[u].seen) \cup WrittenBy(u, input)]
    /\ editing' = [editing EXCEPT ![u] = Idle]
    /\ UNCHANGED <<status, date, reverses, period, locks, work, managing>>

\* A line that fails validation, a lost connection: the deletion is undone.
EditRollback(u) ==
    /\ editing[u] # Idle
    /\ editing' = [editing EXCEPT ![u] = Idle]
    /\ UNCHANGED <<journal, period, locks, work, managing>>

\* Mutant: void_journal_entry() without FOR UPDATE.
VoidEntryUnlocked(e) ==
    /\ status[e] = "draft"
    /\ status' = [status EXCEPT ![e] = "voided"]
    /\ UNCHANGED <<date, lines, reverses, period, locks, work, managing, editing>>

VoidEntry(e) ==
    /\ rowLock[e] = Free
    /\ status[e] = "draft"
    /\ status' = [status EXCEPT ![e] = "voided"]
    /\ UNCHANGED <<date, lines, reverses, period, locks, work, managing, editing>>
-----------------------------------------------------------------------------
(***************************************************************************)
(* Posting and reversing: lock the entry, check it, find the period of the *)
(* date, lock the period, read its status again, write.                    *)
(***************************************************************************)
\* Mutant: the balance is taken for granted.
PostLockUnbalanced(t, e) ==
    /\ work[t] = Idle
    /\ rowLock[e] = Free
    /\ status[e] = "draft"
    /\ period[date[e]] # "absent"
    /\ rowLock' = [rowLock EXCEPT ![e] = t]
    /\ work' = [work EXCEPT ![t] = [step |-> "locked", kind |-> "post",
                                    entry |-> e, period |-> date[e]]]
    /\ UNCHANGED <<journal, period, periodLock, managing, editing>>

PostLock(t, e) ==
    /\ work[t] = Idle
    /\ rowLock[e] = Free
    /\ status[e] = "draft"
    /\ Balanced(lines[e])
    /\ period[date[e]] # "absent"
    /\ rowLock' = [rowLock EXCEPT ![e] = t]
    /\ work' = [work EXCEPT ![t] = [step |-> "locked", kind |-> "post",
                                    entry |-> e, period |-> date[e]]]
    /\ UNCHANGED <<journal, period, periodLock, managing, editing>>

\* Mutant: the entry to reverse is read without FOR UPDATE.
ReverseUnlocked(t, e, p) ==
    /\ work[t] = Idle
    /\ status[e] = "posted"
    /\ period[p] # "absent"
    /\ work' = [work EXCEPT ![t] = [step |-> "locked", kind |-> "reverse", entry |-> e,
                                    period |-> p, read |-> lines[e]]]
    /\ UNCHANGED <<journal, period, locks, managing, editing>>

\* The reversal's date is the caller's, today by default.
ReverseLock(t, e, p) ==
    /\ work[t] = Idle
    /\ rowLock[e] = Free
    /\ status[e] = "posted"
    /\ period[p] # "absent"
    /\ rowLock' = [rowLock EXCEPT ![e] = t]
    /\ work' = [work EXCEPT ![t] = [step |-> "locked", kind |-> "reverse", entry |-> e,
                                    period |-> p, read |-> lines[e]]]
    /\ UNCHANGED <<journal, period, periodLock, managing, editing>>

\* Mutant: the period's status is not read again under its lock.
EnterPeriodUnchecked(t) ==
    /\ work[t].step = "locked"
    /\ periodLock[work[t].period] = Free
    /\ periodLock' = [periodLock EXCEPT ![work[t].period] = t]
    /\ work' = [work EXCEPT ![t].step = "entered"]
    /\ UNCHANGED <<journal, period, rowLock, managing, editing>>

EnterPeriod(t) ==
    /\ work[t].step = "locked"
    /\ periodLock[work[t].period] = Free
    /\ period[work[t].period] = "open"
    /\ periodLock' = [periodLock EXCEPT ![work[t].period] = t]
    /\ work' = [work EXCEPT ![t].step = "entered"]
    /\ UNCHANGED <<journal, period, rowLock, managing, editing>>

ReleaseAll(t) ==
    /\ rowLock' = [e \in Entries |-> IF rowLock[e] = t THEN Free ELSE rowLock[e]]
    /\ periodLock' = [p \in Periods |-> IF periodLock[p] = t THEN Free ELSE periodLock[p]]
    /\ work' = [work EXCEPT ![t] = Idle]

\* AccountingPeriodClosedError; also a lost connection or a dead worker.
Rollback(t) ==
    /\ work[t] # Idle
    /\ ReleaseAll(t)
    /\ UNCHANGED <<journal, period, managing, editing>>

PostCommit(t) ==
    /\ work[t].step = "entered"
    /\ work[t].kind = "post"
    /\ status' = [status EXCEPT ![work[t].entry] = "posted"]
    /\ ReleaseAll(t)
    /\ UNCHANGED <<date, lines, reverses, period, managing, editing>>

\* Mutant: the reversal gets the original's lines as they are.
ReverseCommitCopies(t, n) ==
    /\ work[t].step = "entered"
    /\ work[t].kind = "reverse"
    /\ status[n] = "none"
    /\ status' = [status EXCEPT ![n] = "posted", ![work[t].entry] = "reversed"]
    /\ date' = [date EXCEPT ![n] = work[t].period]
    /\ lines' = [lines EXCEPT ![n] = work[t].read]
    /\ reverses' = [reverses EXCEPT ![n] = work[t].entry]
    /\ ReleaseAll(t)
    /\ UNCHANGED <<period, managing, editing>>

\* Mutant: the reversal is inserted without its entry_date.
ReverseCommitUndated(t, n) ==
    /\ work[t].step = "entered"
    /\ work[t].kind = "reverse"
    /\ status[n] = "none"
    /\ status' = [status EXCEPT ![n] = "posted", ![work[t].entry] = "reversed"]
    /\ lines' = [lines EXCEPT ![n] = Mirror(work[t].read)]
    /\ reverses' = [reverses EXCEPT ![n] = work[t].entry]
    /\ ReleaseAll(t)
    /\ UNCHANGED <<date, period, managing, editing>>

ReverseCommit(t, n) ==
    /\ work[t].step = "entered"
    /\ work[t].kind = "reverse"
    /\ status[n] = "none"
    /\ status' = [status EXCEPT ![n] = "posted", ![work[t].entry] = "reversed"]
    /\ date' = [date EXCEPT ![n] = work[t].period]
    /\ lines' = [lines EXCEPT ![n] = Mirror(work[t].read)]
    /\ reverses' = [reverses EXCEPT ![n] = work[t].entry]
    /\ ReleaseAll(t)
    /\ UNCHANGED <<period, managing, editing>>
-----------------------------------------------------------------------------
(***************************************************************************)
(* Periods.  Their ranges never change and never overlap.                  *)
(***************************************************************************)
CreatePeriod(p) ==
    /\ period[p] = "absent"
    /\ period' = [period EXCEPT ![p] = "open"]
    /\ UNCHANGED <<journal, locks, work, managing, editing>>

\* Mutant: close_period() does not wait for the postings in the period.
ManageUnlocked(m, p, to) ==
    /\ managing[m] = Idle
    /\ period[p] \notin {"absent", to}
    /\ managing' = [managing EXCEPT ![m] = [step |-> "locked", period |-> p, to |-> to]]
    /\ UNCHANGED <<journal, period, locks, work, editing>>

\* close_period() and reopen_period(): lock, then read.
ManageLock(m, p, to) ==
    /\ managing[m] = Idle
    /\ periodLock[p] = Free
    /\ period[p] \notin {"absent", to}
    /\ periodLock' = [periodLock EXCEPT ![p] = m]
    /\ managing' = [managing EXCEPT ![m] = [step |-> "locked", period |-> p, to |-> to]]
    /\ UNCHANGED <<journal, period, rowLock, work, editing>>

ManageCommit(m) ==
    /\ managing[m] # Idle
    /\ period' = [period EXCEPT ![managing[m].period] = managing[m].to]
    /\ periodLock' = [periodLock EXCEPT ![managing[m].period] = Free]
    /\ managing' = [managing EXCEPT ![m] = Idle]
    /\ UNCHANGED <<journal, rowLock, work, editing>>

ManageRollback(m) ==
    /\ managing[m] # Idle
    /\ periodLock' = [periodLock EXCEPT ![managing[m].period] = Free]
    /\ managing' = [managing EXCEPT ![m] = Idle]
    /\ UNCHANGED <<journal, period, rowLock, work, editing>>
-----------------------------------------------------------------------------
Draft  == \E e \in Entries : \/ VoidEntry(e)
                             \/ \E p \in Periods, input \in Inputs : CreateEntry(e, p, input)

Edit(u) == \/ \E e \in Entries : EditCheck(u, e)
           \/ EditDelete(u)
           \/ \E input \in Inputs : EditCommit(u, input)
           \/ EditRollback(u)

Book(t) == \/ \E e \in Entries : \/ PostLock(t, e)
                                 \/ \E p \in Periods : ReverseLock(t, e, p)
                                 \/ ReverseCommit(t, e)
           \/ EnterPeriod(t)
           \/ PostCommit(t)
           \/ Rollback(t)

Manage(m) == \/ \E p \in Periods, to \in {"open", "closed"} : ManageLock(m, p, to)
             \/ ManageCommit(m)
             \/ ManageRollback(m)

Next ==
    \/ Draft
    \/ \E p \in Periods : CreatePeriod(p)
    \/ \E u \in Editors : Edit(u)
    \/ \E t \in Bookkeepers : Book(t)
    \/ \E m \in Managers : Manage(m)

Spec == Init /\ [][Next]_vars
-----------------------------------------------------------------------------
InBook(e)   == status[e] \in {"posted", "reversed"}
InPeriod(p) == {e \in Entries : InBook(e) /\ date[e] = p}

(***************************************************************************)
(* While a period is closed no entry enters or leaves it, whichever        *)
(* postings had found it open before close_period() ran: each must read    *)
(* the status again under the period's lock (journal.py:491, :584).        *)
(***************************************************************************)
ClosedPeriodFrozen ==
    [][\A p \in Periods : (period[p] = "closed") => (InPeriod(p)' = InPeriod(p))]_vars

(***************************************************************************)
(* An entry is "reversed" exactly when one entry in the book reverses it;  *)
(* two reversals of one entry must not both pass the status check          *)
(* (journal.py:561).                                                       *)
(***************************************************************************)
ReversedOnce ==
    \A e \in Entries :
        Cardinality({n \in Entries : reverses[n] = e}) = (IF status[e] = "reversed" THEN 1 ELSE 0)

(***************************************************************************)
(* The lifecycle of ADR-0014 Decision 3 survives every race of posting,    *)
(* voiding and reversing: no entry is voided under a posting in progress.  *)
(***************************************************************************)
Lifecycle ==
    [][\A e \in Entries :
         (status'[e] # status[e]) =>
             (<<status[e], status'[e]>> \in
                 {<<"none", "draft">>, <<"none", "posted">>, <<"draft", "posted">>,
                  <<"draft", "voided">>, <<"posted", "reversed">>})]_vars

(***************************************************************************)
(* An entry is balanced in the state in which it is posted, not only when  *)
(* it was checked: editors and other postings run between the check of     *)
(* post_journal_entry() and its commit (journal.py:456, :497).             *)
(***************************************************************************)
EntersBalanced ==
    [][\A e \in Entries :
         (status[e] = "draft" /\ status'[e] = "posted") => Balanced(lines'[e])]_vars

(***************************************************************************)
(* A reversal enters the book as the mirror of what its original then is,  *)
(* whatever an editor that had found the original still a draft does while *)
(* the reversal is under way (journal.py:561, :610).                       *)
(***************************************************************************)
EntersMirrored ==
    [][\A n \in Entries :
         (reverses[n] = NoEntry /\ reverses'[n] # NoEntry) =>
             (lines'[n] = Mirror(lines'[reverses'[n]]))]_vars

(***************************************************************************)
(* ADR-0014 Decision 4 promises more: that every entry in the book stays   *)
(* balanced.  An editor that read the status before the posting breaks it. *)
(***************************************************************************)
PostedBalanced == \A e \in Entries : InBook(e) => Balanced(lines[e])

(***************************************************************************)
(* The journal is the append-only book of BooksOfAccount.                  *)
(***************************************************************************)
Books == INSTANCE BooksOfAccount WITH
    open   <- {p \in Periods : period[p] = "open"},
    posted <- {[entry |-> e, period |-> date[e], corrects |-> reverses[e]] :
                  e \in {x \in Entries : InBook(x)}}

IsABook == Books!BSpec
=============================================================================
