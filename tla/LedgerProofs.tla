----------------------------- MODULE LedgerProofs -----------------------------
(***************************************************************************)
(* Proofs about Ledger, for every set of entries, periods, bookkeepers,    *)
(* managers and editors, and about BillsAndCredits, for every set of bills *)
(* and clerks and every finite set of credit notes.                        *)
(***************************************************************************)
EXTENDS Ledger, BillsAndCredits, FiniteSetTheorems, TLAPS

\* A posting or reversal holds what it checked: its entry's row lock from its
\* first step, its period's advisory lock from the second read of the status.
Holds(t) ==
    (work[t] # Idle) =>
        /\ rowLock[work[t].entry] = t
        /\ (work[t].step = "entered") =>
               periodLock[work[t].period] = t /\ period[work[t].period] = "open"
        /\ (work[t].kind = "post") =>
               status[work[t].entry] = "draft" /\ work[t].period = date[work[t].entry]
        /\ (work[t].kind = "reverse") => status[work[t].entry] = "posted"

BookkeeperInv == \A t \in Bookkeepers : Holds(t)

\* Whoever closes or reopens a period holds its advisory lock.
Manages(m) ==
    (managing[m] # Idle) =>
        /\ periodLock[managing[m].period] = m
        /\ period[managing[m].period] \notin {"absent", managing[m].to}

ManagerInv == \A m \in Managers : Manages(m)

\* Only entries in the book reverse anything, what they reverse is marked,
\* and no two reverse the same.
BookInv ==
    /\ \A n \in Entries : (reverses[n] # NoEntry) => InBook(n) /\ status[reverses[n]] = "reversed"
    /\ \A n, o \in Entries : (reverses[n] # NoEntry /\ reverses[n] = reverses[o]) => n = o
    /\ \A e \in Entries : (status[e] = "reversed") => \E n \in Entries : reverses[n] = e

IInv == TypeOK /\ BookkeeperInv /\ ManagerInv /\ BookInv

USE DEF journal, locks, vars
-----------------------------------------------------------------------------
\* What the union types say of one transaction.
LEMMA WorkFacts ==
    /\ \A w \in Work : w # Idle /\ w.entry \in Entries /\ w.period \in Periods
                         /\ w.step \in {"locked", "entered"} /\ w.kind \in {"post", "reverse"}
    /\ \A w \in Work : w.kind = "reverse" => w.read \in SUBSET Lines
    /\ \A w \in Work \cup {Idle} : w.step \in {"locked", "entered"} => w \in Work
BY DEF Work, Postings, Reversals, Idle

\* The two checks of a period's lock change nothing else of a transaction.
LEMMA EnterFacts ==
    ASSUME NEW w \in Work
    PROVE  LET v == [w EXCEPT !.step = "entered"]
           IN  /\ v \in Work
               /\ v.entry = w.entry /\ v.period = w.period /\ v.kind = w.kind
               /\ v.step = "entered"
<1>1. CASE w \in Postings
  BY <1>1 DEF Work, Postings
<1>2. CASE w \in Reversals
  BY <1>2 DEF Work, Reversals
<1>. QED  BY <1>1, <1>2 DEF Work

LEMMA ManagingFacts ==
    \A x \in Managing : /\ x # Idle
                        /\ x.period \in Periods
                        /\ x.to \in {"open", "closed"}
BY DEF Managing, Idle

\* An edit knows its entry, and after the deletion what it deleted.
LEMMA EditingFacts ==
    /\ \A x \in Editing \cup {Idle} : x.step = "checked" => x \in Editing /\ x.entry \in Entries
    /\ \A x \in Editing \cup {Idle} : x.step = "deleted" =>
           x \in Editing /\ x.entry \in Entries /\ x.seen \in SUBSET Lines
BY DEF Editing, Idle

\* The lines one call writes, and their mirror, are lines.
LEMMA LinesFacts ==
    /\ \A u \in Editors \cup {Author}, input \in Inputs : WrittenBy(u, input) \in SUBSET Lines
    /\ \A ls \in SUBSET Lines : Mirror(ls) \in SUBSET Lines
<1>1. \A u \in Editors \cup {Author}, input \in Inputs : WrittenBy(u, input) \in SUBSET Lines
  BY InputsAssumption DEF WrittenBy, Lines
<1>2. ASSUME NEW l \in Lines PROVE Flipped(l) \in Lines
  BY DEF Flipped, Lines, Sides
<1>. QED  BY <1>1, <1>2 DEF Mirror

\* The end of a transaction frees its locks and nobody else's.
LEMMA ReleaseFacts ==
    ASSUME TypeOK, NEW t \in Bookkeepers, ReleaseAll(t)
    PROVE  /\ rowLock' \in [Entries -> Bookkeepers \cup {Free}]
           /\ periodLock' \in [Periods -> Bookkeepers \cup Managers \cup {Free}]
           /\ work' \in [Bookkeepers -> Work \cup {Idle}]
           /\ work'[t] = Idle
           /\ \A s \in Bookkeepers \ {t} : work'[s] = work[s]
           /\ \A s \in Bookkeepers \ {t} : \A e \in Entries : (rowLock[e] = s) => rowLock'[e] = s
           /\ \A s \in (Bookkeepers \cup Managers) \ {t} :
                 \A p \in Periods : (periodLock[p] = s) => periodLock'[p] = s
BY DEF TypeOK, ReleaseAll
-----------------------------------------------------------------------------
\* The empty journal is well formed.
LEMMA TypeInit == Init => TypeOK
BY DEF Init, TypeOK, EntryStatuses, PeriodStatuses

\* Creating, editing and voiding drafts keeps the shape of every variable.
LEMMA TypeDraft == ASSUME TypeOK, Draft PROVE TypeOK'
<1>1. ASSUME NEW e \in Entries, VoidEntry(e) PROVE TypeOK'
  BY <1>1 DEF TypeOK, VoidEntry, EntryStatuses
<1>2. ASSUME NEW e \in Entries, NEW p \in Periods, NEW input \in Inputs, CreateEntry(e, p, input)
      PROVE  TypeOK'
  <2>1. WrittenBy(Author, input) \in SUBSET Lines
    BY LinesFacts
  <2>2. lines' \in [Entries -> SUBSET Lines]
    BY <1>2, <2>1 DEF TypeOK, CreateEntry
  <2>3. /\ status' \in [Entries -> EntryStatuses]
        /\ date' \in [Entries -> Periods \cup {NoPeriod}]
        /\ \A x \in Entries : (date'[x] = NoPeriod) <=> (status'[x] = "none")
    BY <1>2, NoPeriodAssumption DEF TypeOK, CreateEntry, EntryStatuses
  <2>. QED  BY <1>2, <2>2, <2>3 DEF TypeOK, CreateEntry
<1>. QED  BY <1>1, <1>2 DEF Draft

LEMMA TypeEdit == ASSUME TypeOK, NEW u \in Editors, Edit(u) PROVE TypeOK'
<1>1. ASSUME NEW e \in Entries, EditCheck(u, e) PROVE TypeOK'
  <2>1. [step |-> "checked", entry |-> e] \in Editing
    BY DEF Editing
  <2>. QED  BY <1>1, <2>1 DEF TypeOK, EditCheck
<1>2. CASE EditDelete(u)
  <2>1. editing[u].entry \in Entries
    BY <1>2, EditingFacts DEF TypeOK, EditDelete
  <2>2. [step |-> "deleted", entry |-> editing[u].entry, seen |-> lines[editing[u].entry]] \in Editing
    BY <2>1 DEF TypeOK, Editing
  <2>. QED  BY <1>2, <2>2 DEF TypeOK, EditDelete
<1>3. ASSUME NEW input \in Inputs, EditCommit(u, input) PROVE TypeOK'
  <2>1. editing[u].entry \in Entries /\ WrittenBy(u, input) \in SUBSET Lines
    BY <1>3, EditingFacts, LinesFacts DEF TypeOK, EditCommit
  <2>. QED  BY <1>3, <2>1 DEF TypeOK, EditCommit
<1>4. CASE EditRollback(u)
  BY <1>4 DEF TypeOK, EditRollback
<1>. QED  BY <1>1, <1>2, <1>3, <1>4 DEF Edit

LEMMA TypeBook == ASSUME TypeOK, BookkeeperInv, NEW t \in Bookkeepers, Book(t) PROVE TypeOK'
<1>1. ASSUME NEW e \in Entries, PostLock(t, e) PROVE TypeOK'
  <2>1. date[e] \in Periods
    BY <1>1 DEF TypeOK, PostLock
  <2>2. [step |-> "locked", kind |-> "post", entry |-> e, period |-> date[e]] \in Work
    BY <2>1 DEF Work, Postings
  <2>. QED  BY <1>1, <2>2 DEF TypeOK, PostLock
<1>2. ASSUME NEW e \in Entries, NEW p \in Periods, ReverseLock(t, e, p) PROVE TypeOK'
  <2>1. [step |-> "locked", kind |-> "reverse", entry |-> e, period |-> p,
         read |-> lines[e]] \in Work
    BY DEF TypeOK, Work, Reversals
  <2>. QED  BY <1>2, <2>1 DEF TypeOK, ReverseLock
<1>3. CASE EnterPeriod(t)
  <2>1. work[t] \in Work
    BY <1>3, WorkFacts DEF TypeOK, EnterPeriod
  <2>2. [work[t] EXCEPT !.step = "entered"] \in Work /\ work[t].period \in Periods
    BY <2>1, EnterFacts, WorkFacts
  <2>3. work' \in [Bookkeepers -> Work \cup {Idle}]
    BY <1>3, <2>2 DEF TypeOK, EnterPeriod
  <2>4. periodLock' \in [Periods -> Bookkeepers \cup Managers \cup {Free}]
    BY <1>3, <2>2 DEF TypeOK, EnterPeriod
  <2>. QED  BY <1>3, <2>3, <2>4 DEF TypeOK, EnterPeriod
<1>4. CASE Rollback(t)
  BY <1>4, ReleaseFacts DEF TypeOK, Rollback
<1>5. CASE PostCommit(t)
  <2>1. work[t] \in Work /\ work[t].entry \in Entries
    BY <1>5, WorkFacts DEF TypeOK, PostCommit
  <2>2. status[work[t].entry] = "draft"
    BY <1>5, <2>1, WorkFacts DEF PostCommit, BookkeeperInv, Holds
  <2>3. /\ status' \in [Entries -> EntryStatuses]
        /\ \A x \in Entries : (date'[x] = NoPeriod) <=> (status'[x] = "none")
    BY <1>5, <2>1, <2>2 DEF TypeOK, PostCommit, EntryStatuses
  <2>4. ReleaseAll(t)
    BY <1>5 DEF PostCommit
  <2>. QED  BY <1>5, <2>3, <2>4, ReleaseFacts DEF TypeOK, PostCommit
<1>6. ASSUME NEW n \in Entries, ReverseCommit(t, n) PROVE TypeOK'
  <2>1. /\ work[t] \in Work
        /\ work[t].entry \in Entries
        /\ work[t].period \in Periods
        /\ work[t].read \in SUBSET Lines
    BY <1>6, WorkFacts DEF TypeOK, ReverseCommit
  <2>2. Mirror(work[t].read) \in SUBSET Lines
    BY <2>1, LinesFacts
  <2>3. status[work[t].entry] = "posted"
    BY <1>6, <2>1, WorkFacts DEF ReverseCommit, BookkeeperInv, Holds
  <2>4. /\ status' \in [Entries -> EntryStatuses]
        /\ date' \in [Entries -> Periods \cup {NoPeriod}]
        /\ \A x \in Entries : (date'[x] = NoPeriod) <=> (status'[x] = "none")
    BY <1>6, <2>1, <2>3, NoPeriodAssumption DEF TypeOK, ReverseCommit, EntryStatuses
  <2>5. lines' \in [Entries -> SUBSET Lines] /\ reverses' \in [Entries -> Entries \cup {NoEntry}]
    BY <1>6, <2>1, <2>2 DEF TypeOK, ReverseCommit
  <2>6. ReleaseAll(t)
    BY <1>6 DEF ReverseCommit
  <2>. QED  BY <1>6, <2>4, <2>5, <2>6, ReleaseFacts DEF TypeOK, ReverseCommit
<1>. QED  BY <1>1, <1>2, <1>3, <1>4, <1>5, <1>6 DEF Book

LEMMA TypeManage == ASSUME TypeOK, NEW m \in Managers, Manage(m) PROVE TypeOK'
<1>1. ASSUME NEW p \in Periods, NEW to \in {"open", "closed"}, ManageLock(m, p, to) PROVE TypeOK'
  <2>1. [step |-> "locked", period |-> p, to |-> to] \in Managing
    BY DEF Managing
  <2>. QED  BY <1>1, <2>1 DEF TypeOK, ManageLock
<1>2. ASSUME managing[m] # Idle PROVE managing[m].period \in Periods /\ managing[m].to \in PeriodStatuses
  BY <1>2, ManagingFacts DEF TypeOK, PeriodStatuses
<1>3. CASE ManageCommit(m)
  BY <1>2, <1>3 DEF TypeOK, ManageCommit
<1>4. CASE ManageRollback(m)
  BY <1>2, <1>4 DEF TypeOK, ManageRollback
<1>. QED  BY <1>1, <1>3, <1>4 DEF Manage

\* Every step keeps the shape of every variable; that a committed posting has a
\* dated entry is what its row lock guarantees.
LEMMA TypePreserved == TypeOK /\ BookkeeperInv /\ [Next]_vars => TypeOK'
<1>. SUFFICES ASSUME TypeOK, BookkeeperInv, [Next]_vars PROVE TypeOK'
  OBVIOUS
<1>1. ASSUME NEW p \in Periods, CreatePeriod(p) PROVE TypeOK'
  BY <1>1 DEF TypeOK, CreatePeriod, PeriodStatuses
<1>2. CASE UNCHANGED vars
  BY <1>2 DEF TypeOK
<1>. QED  BY <1>1, <1>2, TypeDraft, TypeEdit, TypeBook, TypeManage DEF Next

-----------------------------------------------------------------------------
\* A transaction keeps what it holds across a step that leaves alone its own
\* record, its entry's row and lock, and its period's status and lock.
LEMMA HoldsFrame ==
    ASSUME NEW s \in Bookkeepers, Holds(s), work'[s] = work[s],
           work[s] # Idle =>
               /\ status'[work[s].entry] = status[work[s].entry]
               /\ date'[work[s].entry] = date[work[s].entry]
               /\ rowLock'[work[s].entry] = rowLock[work[s].entry]
               /\ work[s].step = "entered" =>
                      /\ periodLock'[work[s].period] = periodLock[work[s].period]
                      /\ period'[work[s].period] = period[work[s].period]
    PROVE  Holds(s)'
BY DEF Holds

LEMMA ManagesFrame ==
    ASSUME NEW m \in Managers, Manages(m), managing'[m] = managing[m],
           managing[m] # Idle =>
               /\ periodLock'[managing[m].period] = periodLock[managing[m].period]
               /\ period'[managing[m].period] = period[managing[m].period]
    PROVE  Manages(m)'
BY DEF Manages

\* The parts of a transaction in progress.
LEMMA InProgress ==
    ASSUME TypeOK
    PROVE  /\ \A s \in Bookkeepers : work[s] # Idle =>
                  /\ work[s] \in Work /\ work[s].entry \in Entries /\ work[s].period \in Periods
                  /\ work[s].kind \in {"post", "reverse"}
                  /\ work[s].step \in {"locked", "entered"}
           /\ \A m \in Managers : managing[m] # Idle =>
                  managing[m].period \in Periods /\ managing[m].to \in {"open", "closed"}
BY WorkFacts, ManagingFacts DEF TypeOK

\* Drafts are created where no transaction is, and voided only unlocked.
LEMMA LocksDraft ==
    ASSUME TypeOK, BookkeeperInv, ManagerInv, Draft PROVE BookkeeperInv' /\ ManagerInv'
<1>1. ASSUME NEW e \in Entries, VoidEntry(e) PROVE BookkeeperInv' /\ ManagerInv'
  <2>1. \A s \in Bookkeepers : work[s] # Idle => work[s].entry # e
    BY <1>1, FreeAssumption DEF BookkeeperInv, Holds, VoidEntry
  <2>2. \A x \in Entries : x # e => status'[x] = status[x]
    BY <1>1 DEF TypeOK, VoidEntry
  <2>3. ASSUME NEW s \in Bookkeepers PROVE Holds(s)'
    BY <1>1, <2>1, <2>2, InProgress, HoldsFrame DEF BookkeeperInv, VoidEntry
  <2>. QED  BY <1>1, <2>3, ManagesFrame DEF BookkeeperInv, ManagerInv, VoidEntry
<1>2. ASSUME NEW e \in Entries, NEW p \in Periods, NEW input \in Inputs, CreateEntry(e, p, input)
      PROVE  BookkeeperInv' /\ ManagerInv'
  <2>1. \A s \in Bookkeepers : work[s] # Idle => work[s].entry # e
    BY <1>2, InProgress DEF BookkeeperInv, Holds, CreateEntry
  <2>2. \A x \in Entries : x # e => status'[x] = status[x] /\ date'[x] = date[x]
    BY <1>2 DEF TypeOK, CreateEntry
  <2>3. ASSUME NEW s \in Bookkeepers PROVE Holds(s)'
    BY <1>2, <2>1, <2>2, InProgress, HoldsFrame DEF BookkeeperInv, CreateEntry
  <2>. QED  BY <1>2, <2>3, ManagesFrame DEF BookkeeperInv, ManagerInv, CreateEntry
<1>. QED  BY <1>1, <1>2 DEF Draft

\* Edits take no lock that outlives a step and change no status.
LEMMA LocksEdit ==
    ASSUME BookkeeperInv, ManagerInv, NEW u \in Editors, Edit(u) PROVE BookkeeperInv' /\ ManagerInv'
<1>1. UNCHANGED <<status, date, reverses, period, locks, work, managing>>
  BY DEF Edit, EditCheck, EditDelete, EditCommit, EditRollback
<1>. QED  BY <1>1, HoldsFrame, ManagesFrame DEF BookkeeperInv, ManagerInv

\* Whoever takes an entry or a period finds it free, so nobody else holds it;
\* whoever writes one holds it, so nobody else is working on it.
LEMMA LocksBook ==
    ASSUME TypeOK, BookkeeperInv, ManagerInv, NEW t \in Bookkeepers, Book(t)
    PROVE  BookkeeperInv' /\ ManagerInv'
<1>m. \A m \in Managers : managing[m] # Idle => managing[m].period \in Periods /\ m # t
  BY InProgress, ActorsAssumption
<1>1. ASSUME NEW e \in Entries, PostLock(t, e) PROVE BookkeeperInv' /\ ManagerInv'
  <2>1. \A s \in Bookkeepers : work[s] # Idle => work[s].entry # e
    BY <1>1, FreeAssumption DEF BookkeeperInv, Holds, PostLock
  <2>2. \A x \in Entries : x # e => rowLock'[x] = rowLock[x]
    BY <1>1 DEF TypeOK, PostLock
  <2>3. /\ work'[t] = [step |-> "locked", kind |-> "post", entry |-> e, period |-> date[e]]
        /\ rowLock'[e] = t
        /\ \A s \in Bookkeepers \ {t} : work'[s] = work[s]
    BY <1>1 DEF TypeOK, PostLock
  <2>4. Holds(t)'
    BY <1>1, <2>3 DEF Holds, PostLock
  <2>5. ASSUME NEW s \in Bookkeepers \ {t} PROVE Holds(s)'
    BY <1>1, <2>1, <2>2, <2>3, InProgress, HoldsFrame DEF BookkeeperInv, PostLock
  <2>. QED  BY <1>1, <2>4, <2>5, ManagesFrame DEF BookkeeperInv, ManagerInv, PostLock
<1>2. ASSUME NEW e \in Entries, NEW p \in Periods, ReverseLock(t, e, p)
      PROVE  BookkeeperInv' /\ ManagerInv'
  <2>1. \A s \in Bookkeepers : work[s] # Idle => work[s].entry # e
    BY <1>2, FreeAssumption DEF BookkeeperInv, Holds, ReverseLock
  <2>2. \A x \in Entries : x # e => rowLock'[x] = rowLock[x]
    BY <1>2 DEF TypeOK, ReverseLock
  <2>3. /\ work'[t] = [step |-> "locked", kind |-> "reverse", entry |-> e, period |-> p,
                       read |-> lines[e]]
        /\ rowLock'[e] = t
        /\ \A s \in Bookkeepers \ {t} : work'[s] = work[s]
    BY <1>2 DEF TypeOK, ReverseLock
  <2>4. Holds(t)'
    BY <1>2, <2>3 DEF Holds, ReverseLock
  <2>5. ASSUME NEW s \in Bookkeepers \ {t} PROVE Holds(s)'
    BY <1>2, <2>1, <2>2, <2>3, InProgress, HoldsFrame DEF BookkeeperInv, ReverseLock
  <2>. QED  BY <1>2, <2>4, <2>5, ManagesFrame DEF BookkeeperInv, ManagerInv, ReverseLock
<1>3. CASE EnterPeriod(t)
  <2>0. work[t] \in Work /\ work[t].period \in Periods
    BY <1>3, WorkFacts DEF TypeOK, EnterPeriod
  <2>1. /\ work'[t] = [work[t] EXCEPT !.step = "entered"]
        /\ \A s \in Bookkeepers \ {t} : work'[s] = work[s]
        /\ periodLock'[work[t].period] = t
        /\ \A p \in Periods : p # work[t].period => periodLock'[p] = periodLock[p]
    BY <1>3, <2>0 DEF TypeOK, EnterPeriod
  <2>2. /\ \A s \in Bookkeepers : work[s] # Idle /\ work[s].step = "entered"
                                      => work[s].period # work[t].period
        /\ \A m \in Managers : managing[m] # Idle => managing[m].period # work[t].period
    BY <1>3, FreeAssumption DEF BookkeeperInv, ManagerInv, Holds, Manages, EnterPeriod
  <2>3. /\ work'[t].entry = work[t].entry /\ work'[t].period = work[t].period
        /\ work'[t].kind = work[t].kind /\ work[t] # Idle
    BY <2>0, <2>1, EnterFacts, WorkFacts
  <2>4. Holds(t)'
    BY <1>3, <2>1, <2>3 DEF BookkeeperInv, Holds, EnterPeriod
  <2>5. ASSUME NEW s \in Bookkeepers \ {t} PROVE Holds(s)'
    BY <1>3, <2>1, <2>2, InProgress, HoldsFrame DEF BookkeeperInv, EnterPeriod
  <2>6. ASSUME NEW m \in Managers PROVE Manages(m)'
    BY <1>3, <2>1, <2>2, <1>m, ManagesFrame DEF ManagerInv, EnterPeriod
  <2>. QED  BY <2>4, <2>5, <2>6 DEF BookkeeperInv, ManagerInv
<1>4. ASSUME ReleaseAll(t), UNCHANGED <<period, managing>>,
             \A s \in Bookkeepers \ {t} : work[s] # Idle =>
                 /\ status'[work[s].entry] = status[work[s].entry]
                 /\ date'[work[s].entry] = date[work[s].entry]
      PROVE  BookkeeperInv' /\ ManagerInv'
  <2>1. Holds(t)'
    BY <1>4, ReleaseFacts DEF Holds
  <2>2. ASSUME NEW s \in Bookkeepers \ {t} PROVE Holds(s)'
    <3>1. work'[s] = work[s]
      BY <1>4, ReleaseFacts
    <3>2. work[s] # Idle => rowLock'[work[s].entry] = rowLock[work[s].entry]
      BY <1>4, ReleaseFacts, InProgress DEF BookkeeperInv, Holds
    <3>3. work[s] # Idle /\ work[s].step = "entered" =>
              periodLock'[work[s].period] = periodLock[work[s].period]
      BY <1>4, ReleaseFacts, InProgress DEF BookkeeperInv, Holds
    <3>. QED  BY <1>4, <3>1, <3>2, <3>3, HoldsFrame DEF BookkeeperInv
  <2>3. ASSUME NEW m \in Managers PROVE Manages(m)'
    <3>1. managing[m] # Idle => periodLock'[managing[m].period] = periodLock[managing[m].period]
      BY <1>4, <1>m, ReleaseFacts DEF ManagerInv, Manages
    <3>. QED  BY <1>4, <3>1, ManagesFrame DEF ManagerInv
  <2>. QED  BY <2>1, <2>2, <2>3 DEF BookkeeperInv, ManagerInv
<1>5. CASE Rollback(t)
  BY <1>4, <1>5 DEF Rollback
<1>6. CASE PostCommit(t)
  <2>0. work[t] # Idle /\ work[t].entry \in Entries
    BY <1>6, WorkFacts DEF TypeOK, PostCommit
  <2>1. \A s \in Bookkeepers \ {t} : work[s] # Idle => work[s].entry # work[t].entry
    BY <2>0 DEF BookkeeperInv, Holds
  <2>2. \A x \in Entries : x # work[t].entry => status'[x] = status[x]
    BY <1>6, <2>0 DEF TypeOK, PostCommit
  <2>. QED  BY <1>4, <1>6, <2>1, <2>2, InProgress DEF PostCommit
<1>7. ASSUME NEW n \in Entries, ReverseCommit(t, n) PROVE BookkeeperInv' /\ ManagerInv'
  <2>0. work[t] # Idle /\ work[t].entry \in Entries
    BY <1>7, WorkFacts DEF TypeOK, ReverseCommit
  <2>1. \A s \in Bookkeepers \ {t} : work[s] # Idle =>
            work[s].entry # work[t].entry /\ work[s].entry # n
    BY <1>7, <2>0, InProgress DEF BookkeeperInv, Holds, ReverseCommit
  <2>2. \A x \in Entries : x # work[t].entry /\ x # n => status'[x] = status[x] /\ date'[x] = date[x]
    BY <1>7, <2>0 DEF TypeOK, ReverseCommit
  <2>. QED  BY <1>4, <1>7, <2>1, <2>2, InProgress DEF ReverseCommit
<1>. QED  BY <1>1, <1>2, <1>3, <1>5, <1>6, <1>7 DEF Book

\* A period's status moves only under its lock, which no posting holds then.
LEMMA LocksManage ==
    ASSUME TypeOK, BookkeeperInv, ManagerInv, NEW m \in Managers, Manage(m)
    PROVE  BookkeeperInv' /\ ManagerInv'
<1>1. ASSUME NEW p \in Periods, NEW to \in {"open", "closed"}, ManageLock(m, p, to)
      PROVE  BookkeeperInv' /\ ManagerInv'
  <2>1. /\ \A s \in Bookkeepers : work[s] # Idle /\ work[s].step = "entered" => work[s].period # p
        /\ \A l \in Managers : managing[l] # Idle => managing[l].period # p
    BY <1>1, FreeAssumption DEF BookkeeperInv, ManagerInv, Holds, Manages, ManageLock
  <2>2. /\ managing'[m] = [step |-> "locked", period |-> p, to |-> to]
        /\ \A l \in Managers \ {m} : managing'[l] = managing[l]
        /\ periodLock'[p] = m
        /\ \A q \in Periods : q # p => periodLock'[q] = periodLock[q]
    BY <1>1 DEF TypeOK, ManageLock
  <2>3. ASSUME NEW s \in Bookkeepers PROVE Holds(s)'
    BY <1>1, <2>1, <2>2, InProgress, HoldsFrame DEF BookkeeperInv, ManageLock
  <2>4. Manages(m)'
    BY <1>1, <2>2 DEF Manages, ManageLock
  <2>5. ASSUME NEW l \in Managers \ {m} PROVE Manages(l)'
    BY <1>1, <2>1, <2>2, InProgress, ManagesFrame DEF ManagerInv, ManageLock
  <2>. QED  BY <2>3, <2>4, <2>5 DEF BookkeeperInv, ManagerInv
<1>2. ASSUME ManageCommit(m) \/ ManageRollback(m) PROVE BookkeeperInv' /\ ManagerInv'
  <2>0. managing[m] # Idle /\ managing[m].period \in Periods
    BY <1>2, InProgress DEF ManageCommit, ManageRollback
  <2>1. periodLock[managing[m].period] = m
    BY <2>0 DEF ManagerInv, Manages
  <2>2. /\ \A s \in Bookkeepers : work[s] # Idle /\ work[s].step = "entered"
                                      => work[s].period # managing[m].period
        /\ \A l \in Managers \ {m} : managing[l] # Idle => managing[l].period # managing[m].period
    BY <2>1, ActorsAssumption DEF BookkeeperInv, ManagerInv, Holds, Manages
  <2>3. /\ managing'[m] = Idle
        /\ \A l \in Managers \ {m} : managing'[l] = managing[l]
        /\ \A q \in Periods : q # managing[m].period =>
               periodLock'[q] = periodLock[q] /\ period'[q] = period[q]
        /\ UNCHANGED <<status, date, rowLock, work>>
    BY <1>2, <2>0 DEF TypeOK, ManageCommit, ManageRollback
  <2>4. ASSUME NEW s \in Bookkeepers PROVE Holds(s)'
    BY <2>2, <2>3, InProgress, HoldsFrame DEF BookkeeperInv
  <2>5. ASSUME NEW l \in Managers \ {m} PROVE Manages(l)'
    BY <2>2, <2>3, InProgress, ManagesFrame DEF ManagerInv
  <2>6. Manages(m)'
    BY <2>3 DEF Manages
  <2>. QED  BY <2>4, <2>5, <2>6 DEF BookkeeperInv, ManagerInv
<1>. QED  BY <1>1, <1>2 DEF Manage

\* Locks are held as the transactions believe, whatever the step.
LEMMA LocksPreserved ==
    TypeOK /\ BookkeeperInv /\ ManagerInv /\ [Next]_vars => BookkeeperInv' /\ ManagerInv'
<1>. SUFFICES ASSUME TypeOK, BookkeeperInv, ManagerInv, [Next]_vars
              PROVE  BookkeeperInv' /\ ManagerInv'
  OBVIOUS
<1>1. ASSUME NEW p \in Periods, CreatePeriod(p) PROVE BookkeeperInv' /\ ManagerInv'
  <2>1. \A q \in Periods : q # p => period'[q] = period[q]
    BY <1>1 DEF TypeOK, CreatePeriod
  <2>2. ASSUME NEW s \in Bookkeepers PROVE Holds(s)'
    BY <1>1, <2>1, InProgress, HoldsFrame DEF BookkeeperInv, Holds, CreatePeriod
  <2>3. ASSUME NEW m \in Managers PROVE Manages(m)'
    BY <1>1, <2>1, InProgress, ManagesFrame DEF ManagerInv, Manages, CreatePeriod
  <2>. QED  BY <2>2, <2>3 DEF BookkeeperInv, ManagerInv
<1>2. CASE UNCHANGED vars
  BY <1>2, HoldsFrame, ManagesFrame DEF BookkeeperInv, ManagerInv
<1>. QED  BY <1>1, <1>2, LocksDraft, LocksEdit, LocksBook, LocksManage DEF Next
-----------------------------------------------------------------------------
(***************************************************************************)
(* The book.  Whatever the step, the book stays as it is or one entry      *)
(* joins it, in a period that is open, reversing nothing or an entry of    *)
(* the book that nothing reverses yet.                                     *)
(***************************************************************************)
Kept(x) == /\ InBook(x)' <=> InBook(x)
           /\ InBook(x) => date'[x] = date[x] /\ reverses'[x] = reverses[x]

Joins(e) ==
    /\ ~InBook(e) /\ InBook(e)'
    /\ date'[e] \in Periods /\ period[date'[e]] = "open" /\ period' = period
    /\ reverses'[e] \in Entries \cup {NoEntry}
    /\ reverses'[e] # NoEntry =>
           InBook(reverses'[e]) /\ \A x \in Entries : InBook(x) => reverses[x] # reverses'[e]
    /\ \A x \in Entries \ {e} : Kept(x)

\* What a posting that holds its locks does to the journal.
LEMMA PostEffect ==
    ASSUME IInv, NEW t \in Bookkeepers, PostCommit(t)
    PROVE  /\ work[t].entry \in Entries
           /\ status[work[t].entry] = "draft"
           /\ status' = [status EXCEPT ![work[t].entry] = "posted"]
           /\ date[work[t].entry] \in Periods
           /\ period[date[work[t].entry]] = "open"
           /\ UNCHANGED <<date, lines, reverses, period>>
<1>1. work[t] \in Work /\ work[t].kind = "post" /\ work[t].step = "entered"
  BY WorkFacts DEF IInv, TypeOK, PostCommit
<1>2. work[t] # Idle /\ work[t].entry \in Entries /\ work[t].period \in Periods
  BY <1>1, WorkFacts
<1>3. /\ status[work[t].entry] = "draft"
      /\ work[t].period = date[work[t].entry]
      /\ period[work[t].period] = "open"
  BY <1>1, <1>2 DEF IInv, BookkeeperInv, Holds
<1>. QED  BY <1>2, <1>3 DEF PostCommit

\* What a reversal that holds its locks does to the journal.
LEMMA ReverseEffect ==
    ASSUME IInv, NEW t \in Bookkeepers, NEW n \in Entries, ReverseCommit(t, n)
    PROVE  /\ work[t].entry \in Entries /\ work[t].period \in Periods
           /\ status[n] = "none" /\ status[work[t].entry] = "posted"
           /\ period[work[t].period] = "open"
           /\ status' = [status EXCEPT ![n] = "posted", ![work[t].entry] = "reversed"]
           /\ date' = [date EXCEPT ![n] = work[t].period]
           /\ lines' = [lines EXCEPT ![n] = Mirror(work[t].read)]
           /\ reverses' = [reverses EXCEPT ![n] = work[t].entry]
           /\ UNCHANGED period
<1>1. work[t] \in Work /\ work[t].kind = "reverse" /\ work[t].step = "entered"
  BY WorkFacts DEF IInv, TypeOK, ReverseCommit
<1>2. work[t] # Idle /\ work[t].entry \in Entries /\ work[t].period \in Periods
  BY <1>1, WorkFacts
<1>3. status[work[t].entry] = "posted" /\ period[work[t].period] = "open"
  BY <1>1, <1>2 DEF IInv, BookkeeperInv, Holds
<1>. QED  BY <1>2, <1>3 DEF ReverseCommit

\* Every other step leaves status, dates and reversals alone, but for drafts.
LEMMA OtherEffect ==
    ASSUME TypeOK, [Next]_vars,
           \A t \in Bookkeepers : ~PostCommit(t) /\ \A n \in Entries : ~ReverseCommit(t, n)
    PROVE  /\ UNCHANGED reverses
           /\ \/ UNCHANGED <<status, date>>
              \/ \E e \in Entries : /\ status[e] = "draft" /\ UNCHANGED date
                                    /\ status' = [status EXCEPT ![e] = "voided"]
              \/ \E e \in Entries, p \in Periods :
                    /\ status[e] = "none"
                    /\ status' = [status EXCEPT ![e] = "draft"]
                    /\ date' = [date EXCEPT ![e] = p]
<1>1. CASE Draft
  BY <1>1 DEF Draft, VoidEntry, CreateEntry
<1>2. ASSUME NEW u \in Editors, Edit(u) PROVE UNCHANGED <<status, date, reverses>>
  BY <1>2 DEF Edit, EditCheck, EditDelete, EditCommit, EditRollback
<1>3. ASSUME NEW t \in Bookkeepers, Book(t) PROVE UNCHANGED <<status, date, reverses>>
  BY <1>3 DEF Book, PostLock, ReverseLock, EnterPeriod, Rollback
<1>4. ASSUME NEW m \in Managers, Manage(m) PROVE UNCHANGED <<status, date, reverses>>
  BY <1>4 DEF Manage, ManageLock, ManageCommit, ManageRollback
<1>5. ASSUME NEW p \in Periods, CreatePeriod(p) PROVE UNCHANGED <<status, date, reverses>>
  BY <1>5 DEF CreatePeriod
<1>. QED  BY <1>1, <1>2, <1>3, <1>4, <1>5 DEF Next

\* No two entries of the book reverse the same, and the reversed are marked.
LEMMA BookPreserved == IInv /\ [Next]_vars => BookInv'
<1>. SUFFICES ASSUME IInv, [Next]_vars PROVE BookInv'
  OBVIOUS
<1>1. ASSUME NEW t \in Bookkeepers, PostCommit(t) PROVE BookInv'
  BY <1>1, PostEffect DEF IInv, TypeOK, BookInv, InBook
<1>2. ASSUME NEW t \in Bookkeepers, NEW n \in Entries, ReverseCommit(t, n) PROVE BookInv'
  <2> DEFINE e == work[t].entry
  <2>1. /\ e \in Entries /\ n # e /\ status[n] = "none" /\ status[e] = "posted"
        /\ status'[n] = "posted" /\ status'[e] = "reversed"
        /\ reverses'[n] = e /\ reverses[n] = NoEntry
        /\ \A x \in Entries : reverses[x] # e
    BY <1>2, ReverseEffect, NoEntryAssumption DEF IInv, TypeOK, BookInv, InBook
  <2>2. \A x \in Entries \ {n} : reverses'[x] = reverses[x]
    BY <1>2, ReverseEffect DEF IInv, TypeOK
  <2>3. \A x \in Entries \ {n, e} : status'[x] = status[x]
    BY <1>2, ReverseEffect DEF IInv, TypeOK
  <2>4. \A x \in Entries : InBook(x) => InBook(x)'
    BY <2>1, <2>3 DEF InBook
  <2>. HIDE DEF e
  <2>5. \A x \in Entries : (reverses'[x] # NoEntry)
                               => InBook(x)' /\ status'[reverses'[x]] = "reversed"
    <3>. SUFFICES ASSUME NEW x \in Entries, reverses'[x] # NoEntry
                  PROVE  InBook(x)' /\ status'[reverses'[x]] = "reversed"
      OBVIOUS
    <3>1. CASE x = n
      BY <2>1, <3>1 DEF InBook
    <3>2. CASE x # n
      BY <2>1, <2>2, <2>3, <2>4, <3>2 DEF IInv, TypeOK, BookInv
    <3>. QED  BY <3>1, <3>2
  <2>6. \A x, y \in Entries : (reverses'[x] # NoEntry /\ reverses'[x] = reverses'[y]) => x = y
    BY <2>1, <2>2 DEF IInv, BookInv
  <2>7. \A x \in Entries : (status'[x] = "reversed") => \E y \in Entries : reverses'[y] = x
    BY <2>1, <2>2, <2>3, NoEntryAssumption DEF IInv, BookInv
  <2>. QED  BY <2>5, <2>6, <2>7 DEF BookInv
<1>3. CASE \A t \in Bookkeepers : ~PostCommit(t) /\ \A n \in Entries : ~ReverseCommit(t, n)
  BY <1>3, OtherEffect DEF IInv, TypeOK, BookInv, InBook
<1>. QED  BY <1>1, <1>2, <1>3

\* The inductive invariant: shapes, locks and book together.
THEOREM Invariance == Spec => []IInv
<1>1. Init => IInv
  <2>1. Init => BookkeeperInv /\ ManagerInv /\ BookInv
    BY DEF Init, BookkeeperInv, Holds, ManagerInv, Manages, BookInv, InBook
  <2>. QED  BY <2>1, TypeInit DEF IInv
<1>2. IInv /\ [Next]_vars => IInv'
  BY TypePreserved, LocksPreserved, BookPreserved DEF IInv
<1>. QED  BY <1>1, <1>2, PTL DEF Spec

\* Every variable of the journal keeps its type, and an entry has a date
\* exactly when it has a row (models.py JournalEntry, Period).
THEOREM TypeCorrect == Spec => []TypeOK
BY Invariance, PTL DEF IInv

\* An entry is "reversed" exactly when one entry reverses it: the second of two
\* reversals finds the row locked, and then no longer posted (journal.py:561).
THEOREM ReversedOnceHolds == Spec => []ReversedOnce
<1>1. IInv => ReversedOnce
  <2>. SUFFICES ASSUME IInv, NEW e \in Entries
                PROVE  Cardinality({n \in Entries : reverses[n] = e})
                           = (IF status[e] = "reversed" THEN 1 ELSE 0)
    BY DEF ReversedOnce
  <2>1. CASE status[e] = "reversed"
    <3>1. PICK n \in Entries : reverses[n] = e
      BY <2>1 DEF IInv, BookInv
    <3>2. {x \in Entries : reverses[x] = e} = {n}
      BY <3>1, NoEntryAssumption DEF IInv, BookInv
    <3>. QED  BY <2>1, <3>2, FS_Singleton
  <2>2. CASE status[e] # "reversed"
    <3>1. {x \in Entries : reverses[x] = e} = {}
      BY <2>2, NoEntryAssumption DEF IInv, BookInv
    <3>. QED  BY <2>2, <3>1, FS_EmptySet
  <2>. QED  BY <2>1, <2>2
<1>. QED  BY <1>1, Invariance, PTL
-----------------------------------------------------------------------------
\* One step of the journal, seen as a step of the book.
LEMMA BookStep ==
    ASSUME IInv, [Next]_vars
    PROVE  (\A x \in Entries : Kept(x)) \/ (\E e \in Entries : Joins(e))
<1>1. ASSUME NEW t \in Bookkeepers, PostCommit(t) PROVE \E e \in Entries : Joins(e)
  <2> DEFINE e == work[t].entry
  <2>1. /\ e \in Entries /\ status[e] = "draft" /\ status'[e] = "posted"
        /\ date[e] \in Periods /\ period[date[e]] = "open"
        /\ \A x \in Entries \ {e} : status'[x] = status[x]
        /\ UNCHANGED <<date, reverses, period>>
    BY <1>1, PostEffect DEF IInv, TypeOK
  <2>. HIDE DEF e
  <2>2. reverses[e] = NoEntry
    BY <2>1 DEF IInv, BookInv, InBook
  <2>. QED  BY <2>1, <2>2 DEF Joins, Kept, InBook
<1>2. ASSUME NEW t \in Bookkeepers, NEW n \in Entries, ReverseCommit(t, n) PROVE Joins(n)
  <2> DEFINE e == work[t].entry
  <2>1. /\ e \in Entries /\ n # e /\ status[n] = "none" /\ status[e] = "posted"
        /\ status'[n] = "posted" /\ status'[e] = "reversed"
        /\ work[t].period \in Periods /\ period[work[t].period] = "open"
        /\ date'[n] = work[t].period /\ reverses'[n] = e /\ UNCHANGED period
        /\ \A x \in Entries \ {n} : date'[x] = date[x] /\ reverses'[x] = reverses[x]
        /\ \A x \in Entries \ {n, e} : status'[x] = status[x]
    BY <1>2, ReverseEffect DEF IInv, TypeOK
  <2>. HIDE DEF e
  <2>2. \A x \in Entries : reverses[x] # e
    BY <2>1, NoEntryAssumption DEF IInv, BookInv
  <2>3. \A x \in Entries \ {n} : Kept(x)
    BY <2>1 DEF Kept, InBook
  <2>. QED  BY <2>1, <2>2, <2>3 DEF Joins, InBook
<1>3. CASE \A t \in Bookkeepers : ~PostCommit(t) /\ \A n \in Entries : ~ReverseCommit(t, n)
  <2>. SUFFICES ASSUME NEW x \in Entries PROVE Kept(x)
    OBVIOUS
  <2>. QED  BY <1>3, OtherEffect DEF IInv, TypeOK, Kept, InBook
<1>. QED  BY <1>1, <1>2, <1>3

\* While a period is closed no entry enters or leaves it, however long ago the
\* postings in progress found it open (journal.py:491, :584).
THEOREM ClosedPeriodFrozenHolds == Spec => ClosedPeriodFrozen
<1>1. IInv /\ [Next]_vars =>
          \A p \in Periods : (period[p] = "closed") => (InPeriod(p)' = InPeriod(p))
  <2>. SUFFICES ASSUME IInv, [Next]_vars, NEW p \in Periods, period[p] = "closed"
                PROVE  InPeriod(p)' = InPeriod(p)
    OBVIOUS
  <2>1. CASE \A x \in Entries : Kept(x)
    <3>1. \A x \in Entries : (InBook(x) /\ date[x] = p) <=> (InBook(x)' /\ date'[x] = p)
      BY <2>1 DEF Kept
    <3>. QED  BY <3>1 DEF InPeriod
  <2>2. ASSUME NEW e \in Entries, Joins(e) PROVE InPeriod(p)' = InPeriod(p)
    <3>1. \A x \in Entries : (InBook(x) /\ date[x] = p) <=> (InBook(x)' /\ date'[x] = p)
      BY <2>2 DEF Joins, Kept
    <3>. QED  BY <3>1 DEF InPeriod
  <2>. QED  BY <2>1, <2>2, BookStep
<1>2. IInv /\ [Next]_vars =>
          [\A p \in Periods : (period[p] = "closed") => (InPeriod(p)' = InPeriod(p))]_vars
  BY <1>1
<1>. QED  BY <1>2, Invariance, PTL DEF Spec, ClosedPeriodFrozen

\* The lifecycle of ADR-0014 Decision 3, under every overlap of calls.
THEOREM LifecycleHolds == Spec => Lifecycle
<1> DEFINE Moves == {<<"none", "draft">>, <<"none", "posted">>, <<"draft", "posted">>,
                     <<"draft", "voided">>, <<"posted", "reversed">>}
<1>1. ASSUME IInv, [Next]_vars, NEW e \in Entries, status'[e] # status[e]
      PROVE  <<status[e], status'[e]>> \in Moves
  <2>1. ASSUME NEW t \in Bookkeepers, PostCommit(t) PROVE <<status[e], status'[e]>> \in Moves
    BY <1>1, <2>1, PostEffect DEF IInv, TypeOK
  <2>2. ASSUME NEW t \in Bookkeepers, NEW n \in Entries, ReverseCommit(t, n)
        PROVE  <<status[e], status'[e]>> \in Moves
    BY <1>1, <2>2, ReverseEffect DEF IInv, TypeOK
  <2>3. CASE \A t \in Bookkeepers : ~PostCommit(t) /\ \A n \in Entries : ~ReverseCommit(t, n)
    BY <1>1, <2>3, OtherEffect DEF IInv, TypeOK
  <2>. QED  BY <2>1, <2>2, <2>3
<1>2. IInv /\ [Next]_vars =>
          [\A e \in Entries : (status'[e] # status[e]) => (<<status[e], status'[e]>> \in Moves)]_vars
  BY <1>1
<1>. QED  BY <1>2, Invariance, PTL DEF Spec, Lifecycle
-----------------------------------------------------------------------------
(***************************************************************************)
(* The refinement.  OpenNow and BookNow are what BooksOfAccount sees.      *)
(***************************************************************************)
OpenNow  == {p \in Periods : period[p] = "open"}
Row(e)   == [entry |-> e, period |-> date[e], corrects |-> reverses[e]]
BookNow  == {Row(e) : e \in {x \in Entries : InBook(x)}}

\* Nothing but the book and the periods matter to the abstract specification.
LEMMA BookKept == ASSUME \A x \in Entries : Kept(x) PROVE BookNow' = BookNow
<1>1. \A x \in Entries : InBook(x) => Row(x)' = Row(x)
  BY DEF Kept, Row
<1>. QED  BY <1>1 DEF Kept, BookNow

\* Opening and closing a period are all that ever happens to one.
LEMMA PeriodStep ==
    ASSUME IInv, [Next]_vars
    PROVE  \/ OpenNow' = OpenNow
           \/ \E p \in Periods : p \notin OpenNow /\ OpenNow' = OpenNow \cup {p}
           \/ \E p \in Periods : p \in OpenNow /\ OpenNow' = OpenNow \ {p}
<1>1. CASE UNCHANGED period
  BY <1>1 DEF OpenNow
<1>2. ASSUME NEW p \in Periods, CreatePeriod(p)
      PROVE  p \notin OpenNow /\ OpenNow' = OpenNow \cup {p}
  BY <1>2 DEF IInv, TypeOK, CreatePeriod, OpenNow
<1>3. ASSUME NEW m \in Managers, ManageCommit(m)
      PROVE  \E p \in Periods : \/ p \notin OpenNow /\ OpenNow' = OpenNow \cup {p}
                                \/ p \in OpenNow /\ OpenNow' = OpenNow \ {p}
  <2> DEFINE p == managing[m].period
             to == managing[m].to
  <2>1. /\ p \in Periods /\ to \in {"open", "closed"}
        /\ period[p] \notin {"absent", to}
        /\ period' = [period EXCEPT ![p] = to]
    BY <1>3, InProgress DEF IInv, ManagerInv, Manages, ManageCommit
  <2>2. period[p] \in {"open", "closed"}
    BY <2>1 DEF IInv, TypeOK, PeriodStatuses
  <2>3. \A q \in Periods : period'[q] = IF q = p THEN to ELSE period[q]
    BY <2>1 DEF IInv, TypeOK
  <2>. HIDE DEF p, to
  <2>4. CASE to = "open"
    BY <2>1, <2>2, <2>3, <2>4 DEF OpenNow
  <2>5. CASE to = "closed"
    BY <2>1, <2>2, <2>3, <2>5 DEF OpenNow
  <2>. QED  BY <2>1, <2>4, <2>5
<1>4. UNCHANGED period \/ (\E p \in Periods : CreatePeriod(p)) \/ (\E m \in Managers : ManageCommit(m))
  BY DEF Next, Draft, VoidEntry, CreateEntry, Edit, EditCheck, EditDelete, EditCommit, EditRollback,
         Book, PostLock, ReverseLock, EnterPeriod, Rollback, PostCommit, ReverseCommit,
         Manage, ManageLock, ManageRollback
<1>. QED  BY <1>1, <1>2, <1>3, <1>4

\* An entry that joins the book is written into it, correcting at most once.
LEMMA JoinsWrites ==
    ASSUME NEW e \in Entries, Joins(e),
           NEW p \in Periods, p = date'[e],
           NEW c \in Entries \cup {NoEntry}, c = reverses'[e]
    PROVE  Books!Write(e, p, c)
<1>1. Row(e)' = [entry |-> e, period |-> p, corrects |-> c]
  BY DEF Row
<1>2. BookNow' = BookNow \cup {Row(e)'}
  <2>1. \A x \in Entries \ {e} : (InBook(x)' <=> InBook(x)) /\ (InBook(x) => Row(x)' = Row(x))
    BY DEF Joins, Kept, Row
  <2>2. ~InBook(e) /\ InBook(e)'
    BY DEF Joins
  <2>. QED  BY <2>1, <2>2 DEF BookNow
<1>3. \A l \in BookNow : l.entry # e
  BY DEF BookNow, Row, Joins
<1>4. ASSUME c # NoEntry
      PROVE  /\ \E l \in BookNow : l.entry = c
             /\ \A l \in BookNow : l.corrects # c
  <2>1. c \in Entries /\ InBook(c) /\ \A x \in Entries : InBook(x) => reverses[x] # c
    BY <1>4 DEF Joins
  <2>2. Row(c) \in BookNow /\ Row(c).entry = c
    BY <2>1 DEF BookNow, Row
  <2>3. \A x \in Entries : Row(x).corrects = reverses[x]
    BY DEF Row
  <2>4. \A l \in BookNow : \E x \in Entries : InBook(x) /\ l = Row(x)
    BY DEF BookNow
  <2>. QED  BY <2>1, <2>2, <2>3, <2>4
<1>5. p \in OpenNow /\ OpenNow' = OpenNow
  BY DEF OpenNow, Joins
<1>. QED  BY <1>1, <1>2, <1>3, <1>4, <1>5
          DEF Books!Write, Books!Written, Books!Corrected, BookNow, OpenNow, Row

\* The journal implements the append-only book: an entry is written once, into
\* a period open at that moment, never taken out, and corrected at most once.
THEOREM Refinement == Spec => IsABook
<1>1. Init => Books!BInit
  BY DEF Init, Books!BInit, InBook
<1>2. IInv /\ [Next]_vars => [Books!BNext]_(Books!bookVars)
  <2>. SUFFICES ASSUME IInv, [Next]_vars PROVE Books!BNext \/ UNCHANGED Books!bookVars
    BY DEF Books!bookVars
  <2>1. CASE \A x \in Entries : Kept(x)
    <3>1. BookNow' = BookNow
      BY <2>1, BookKept
    <3>2. CASE OpenNow' = OpenNow
      BY <3>1, <3>2 DEF Books!bookVars, OpenNow, BookNow, Row
    <3>3. ASSUME NEW p \in Periods, p \notin OpenNow, OpenNow' = OpenNow \cup {p} PROVE Books!Open(p)
      BY <3>1, <3>3 DEF Books!Open, OpenNow, BookNow, Row
    <3>4. ASSUME NEW p \in Periods, p \in OpenNow, OpenNow' = OpenNow \ {p} PROVE Books!Close(p)
      BY <3>1, <3>4 DEF Books!Close, OpenNow, BookNow, Row
    <3>. QED  BY <3>2, <3>3, <3>4, PeriodStep DEF Books!BNext
  <2>2. ASSUME NEW e \in Entries, Joins(e) PROVE Books!BNext
    <3>1. PICK p \in Periods, c \in Entries \cup {NoEntry} : p = date'[e] /\ c = reverses'[e]
      BY <2>2 DEF Joins
    <3>2. Books!Write(e, p, c)
      BY <2>2, <3>1, JoinsWrites
    <3>. QED  BY <3>2 DEF Books!BNext
  <2>. QED  BY <2>1, <2>2, BookStep
<1>. QED  BY <1>1, <1>2, Invariance, PTL DEF Spec, IsABook, Books!BSpec
-----------------------------------------------------------------------------
(***************************************************************************)
(* Balance.  Nothing writes the lines of an entry that somebody is posting *)
(* or reversing: what was checked or read under the row lock still holds   *)
(* when the entry joins the book.                                          *)
(***************************************************************************)
Checked(t) ==
    work[t] # Idle =>
        /\ (work[t].kind = "post") => Balanced(lines[work[t].entry])
        /\ (work[t].kind = "reverse") => (work[t].read = lines[work[t].entry])

CheckedInv == \A t \in Bookkeepers : Checked(t)

\* A step that leaves alone a transaction and the lines of its entry.
LEMMA CheckedFrame ==
    ASSUME NEW t \in Bookkeepers, Checked(t), work'[t] = work[t],
           work[t] # Idle => lines'[work[t].entry] = lines[work[t].entry]
    PROVE  Checked(t)'
BY DEF Checked

\* A new entry, and an edit that waited for the row lock, touch the lines of
\* no entry in hand.
LEMMA CheckedDrafts ==
    ASSUME IInv, CheckedInv, NEW e \in Entries,
           status[e] = "none" \/ rowLock[e] = Free,
           \A x \in Entries \ {e} : lines'[x] = lines[x], UNCHANGED work
    PROVE  CheckedInv'
<1>1. ASSUME NEW t \in Bookkeepers, work[t] # Idle PROVE work[t].entry \in Entries \ {e}
  BY <1>1, InProgress, FreeAssumption DEF IInv, BookkeeperInv, Holds
<1>2. ASSUME NEW t \in Bookkeepers PROVE Checked(t)'
  BY <1>1, CheckedFrame DEF CheckedInv
<1>. QED  BY <1>2 DEF CheckedInv

\* A step of transaction t that leaves the lines alone.
LEMMA CheckedBook ==
    ASSUME CheckedInv, NEW t \in Bookkeepers, UNCHANGED lines,
           \A s \in Bookkeepers \ {t} : work'[s] = work[s], Checked(t)'
    PROVE  CheckedInv'
BY CheckedFrame DEF CheckedInv

\* Every step keeps the balance that a posting checked and the lines that a
\* reversal read.
LEMMA CheckedPreserved == IInv /\ CheckedInv /\ [Next]_vars => CheckedInv'
<1>. SUFFICES ASSUME IInv, CheckedInv, [Next]_vars PROVE CheckedInv'
  OBVIOUS
<1>0. TypeOK /\ BookkeeperInv
  BY DEF IInv
<1>1. ASSUME NEW e \in Entries, NEW p \in Periods, NEW input \in Inputs, CreateEntry(e, p, input)
      PROVE  CheckedInv'
  BY <1>0, <1>1, CheckedDrafts DEF TypeOK, CreateEntry
<1>2. ASSUME NEW u \in Editors, NEW input \in Inputs, EditCommit(u, input) PROVE CheckedInv'
  <2>1. editing[u].entry \in Entries
    BY <1>0, <1>2, EditingFacts DEF TypeOK, EditCommit
  <2>. QED  BY <1>0, <1>2, <2>1, CheckedDrafts DEF TypeOK, EditCommit
<1>3. ASSUME NEW t \in Bookkeepers, NEW e \in Entries, PostLock(t, e) PROVE CheckedInv'
  <2>1. /\ Balanced(lines[e]) /\ UNCHANGED lines
        /\ work'[t].entry = e /\ work'[t].kind = "post"
        /\ \A s \in Bookkeepers \ {t} : work'[s] = work[s]
    BY <1>0, <1>3 DEF TypeOK, PostLock
  <2>. QED  BY <2>1, CheckedBook DEF Checked
<1>4. ASSUME NEW t \in Bookkeepers, NEW e \in Entries, NEW p \in Periods, ReverseLock(t, e, p)
      PROVE  CheckedInv'
  <2>1. /\ UNCHANGED lines
        /\ work'[t].entry = e /\ work'[t].read = lines[e] /\ work'[t].kind = "reverse"
        /\ \A s \in Bookkeepers \ {t} : work'[s] = work[s]
    BY <1>0, <1>4 DEF TypeOK, ReverseLock
  <2>. QED  BY <2>1, CheckedBook DEF Checked
<1>5. ASSUME NEW t \in Bookkeepers, EnterPeriod(t) PROVE CheckedInv'
  <2>1. work[t] \in Work /\ work[t] # Idle
    BY <1>0, <1>5, WorkFacts DEF TypeOK, EnterPeriod
  <2>2. /\ work'[t] = [work[t] EXCEPT !.step = "entered"] /\ UNCHANGED lines
        /\ \A s \in Bookkeepers \ {t} : work'[s] = work[s]
    BY <1>0, <1>5 DEF TypeOK, EnterPeriod
  <2>3. /\ work'[t].entry = work[t].entry /\ work'[t].kind = work[t].kind
        /\ (work[t].kind = "reverse") => (work'[t].read = work[t].read)
    <3>1. work'[t].entry = work[t].entry /\ work'[t].kind = work[t].kind
      BY <2>1, <2>2, EnterFacts
    <3>2. CASE work[t] \in Postings
      BY <3>1, <3>2 DEF Postings
    <3>3. CASE work[t] \in Reversals
      BY <2>2, <3>1, <3>3 DEF Reversals
    <3>. QED  BY <2>1, <3>2, <3>3 DEF Work
  <2>4. /\ (work[t].kind = "post") => Balanced(lines[work[t].entry])
        /\ (work[t].kind = "reverse") => (work[t].read = lines[work[t].entry])
    BY <2>1 DEF CheckedInv, Checked
  <2>5. Checked(t)'
    BY <2>2, <2>3, <2>4 DEF Checked
  <2>. QED  BY <2>2, <2>5, CheckedBook
<1>6. ASSUME NEW t \in Bookkeepers, Rollback(t) \/ PostCommit(t) PROVE CheckedInv'
  <2>1. ReleaseAll(t) /\ UNCHANGED lines
    BY <1>6 DEF Rollback, PostCommit
  <2>2. work'[t] = Idle /\ \A s \in Bookkeepers \ {t} : work'[s] = work[s]
    BY <1>0, <2>1, ReleaseFacts
  <2>. QED  BY <2>1, <2>2, CheckedBook DEF Checked
<1>7. ASSUME NEW t \in Bookkeepers, NEW n \in Entries, ReverseCommit(t, n) PROVE CheckedInv'
  <2>1. status[n] = "none" /\ \A x \in Entries \ {n} : lines'[x] = lines[x]
    BY <1>0, <1>7, ReverseEffect DEF TypeOK
  <2>2. work'[t] = Idle /\ \A s \in Bookkeepers \ {t} : work'[s] = work[s]
    BY <1>0, <1>7, ReleaseFacts DEF ReverseCommit
  <2>3. \A s \in Bookkeepers : work[s] # Idle => work[s].entry \in Entries \ {n}
    BY <1>0, <2>1, InProgress DEF BookkeeperInv, Holds
  <2>4. ASSUME NEW s \in Bookkeepers \ {t} PROVE Checked(s)'
    BY <2>1, <2>2, <2>3, CheckedFrame DEF CheckedInv
  <2>5. Checked(t)'
    BY <2>2 DEF Checked
  <2>. QED  BY <2>4, <2>5 DEF CheckedInv
<1>8. CASE UNCHANGED <<lines, work>>
  BY <1>8, CheckedFrame DEF CheckedInv
<1>9. ASSUME NEW e \in Entries, VoidEntry(e) PROVE UNCHANGED <<lines, work>>
  BY <1>9 DEF VoidEntry
<1>10. ASSUME NEW u \in Editors, Edit(u), ~\E input \in Inputs : EditCommit(u, input)
       PROVE  UNCHANGED <<lines, work>>
  BY <1>10 DEF Edit, EditCheck, EditDelete, EditRollback
<1>11. ASSUME NEW m \in Managers, Manage(m) PROVE UNCHANGED <<lines, work>>
  BY <1>11 DEF Manage, ManageLock, ManageCommit, ManageRollback
<1>12. ASSUME NEW p \in Periods, CreatePeriod(p) PROVE UNCHANGED <<lines, work>>
  BY <1>12 DEF CreatePeriod
<1>. QED  BY <1>1, <1>2, <1>3, <1>4, <1>5, <1>6, <1>7, <1>8, <1>9, <1>10, <1>11, <1>12
          DEF Next, Draft, Book

\* The invariant of the two theorems below.
LEMMA CheckedInvariance == Spec => []CheckedInv
<1>1. Init => CheckedInv
  BY DEF Init, CheckedInv, Checked
<1>. QED  BY <1>1, CheckedPreserved, Invariance, PTL DEF Spec

\* An entry is balanced in the state in which it is posted, whatever editors
\* run between the check and the commit (journal.py:456, :497).
THEOREM EntersBalancedHolds == Spec => EntersBalanced
<1>1. ASSUME IInv, CheckedInv, [Next]_vars, NEW e \in Entries,
             status[e] = "draft", status'[e] = "posted"
      PROVE  Balanced(lines'[e])
  <2>0. TypeOK
    BY <1>1 DEF IInv
  <2>1. ASSUME NEW t \in Bookkeepers, PostCommit(t) PROVE Balanced(lines'[e])
    <3>1. /\ work[t].entry \in Entries /\ UNCHANGED lines
          /\ \A x \in Entries : x # work[t].entry => status'[x] = status[x]
      BY <1>1, <2>0, <2>1, PostEffect DEF TypeOK
    <3>2. work[t] # Idle /\ work[t].kind = "post"
      BY <2>0, <2>1, WorkFacts DEF TypeOK, PostCommit
    <3>3. Balanced(lines[work[t].entry])
      BY <1>1, <3>2 DEF CheckedInv, Checked
    <3>. QED  BY <1>1, <3>1, <3>3
  <2>2. ASSUME NEW t \in Bookkeepers, NEW n \in Entries, ReverseCommit(t, n) PROVE FALSE
    BY <1>1, <2>0, <2>2, ReverseEffect DEF TypeOK
  <2>3. CASE \A t \in Bookkeepers : ~PostCommit(t) /\ \A n \in Entries : ~ReverseCommit(t, n)
    BY <1>1, <2>0, <2>3, OtherEffect DEF TypeOK
  <2>. QED  BY <2>1, <2>2, <2>3
<1>2. IInv /\ CheckedInv /\ [Next]_vars =>
          [\A e \in Entries :
              (status[e] = "draft" /\ status'[e] = "posted") => Balanced(lines'[e])]_vars
  BY <1>1
<1>. QED  BY <1>2, Invariance, CheckedInvariance, PTL DEF Spec, EntersBalanced

\* A reversal enters the book as the mirror of what its original then is,
\* whatever editors run meanwhile (journal.py:561, :610).
THEOREM EntersMirroredHolds == Spec => EntersMirrored
<1>1. ASSUME IInv, CheckedInv, [Next]_vars, NEW n \in Entries,
             reverses[n] = NoEntry, reverses'[n] # NoEntry
      PROVE  lines'[n] = Mirror(lines'[reverses'[n]])
  <2>0. TypeOK
    BY <1>1 DEF IInv
  <2>1. ASSUME NEW t \in Bookkeepers, NEW m \in Entries, ReverseCommit(t, m)
        PROVE  lines'[n] = Mirror(lines'[reverses'[n]])
    <3>1. /\ \A x \in Entries \ {m} : reverses'[x] = reverses[x]
          /\ reverses'[m] = work[t].entry /\ lines'[m] = Mirror(work[t].read)
          /\ work[t].entry \in Entries \ {m}
          /\ \A x \in Entries \ {m} : lines'[x] = lines[x]
      BY <1>1, <2>0, <2>1, ReverseEffect DEF TypeOK
    <3>2. work[t] # Idle /\ work[t].kind = "reverse"
      BY <2>0, <2>1, WorkFacts DEF TypeOK, ReverseCommit
    <3>3. work[t].read = lines[work[t].entry]
      BY <1>1, <3>2 DEF CheckedInv, Checked
    <3>4. n = m
      BY <1>1, <3>1
    <3>. QED  BY <3>1, <3>3, <3>4
  <2>2. ASSUME NEW t \in Bookkeepers, PostCommit(t) PROVE FALSE
    BY <1>1, <2>2 DEF PostCommit
  <2>3. CASE \A t \in Bookkeepers : ~PostCommit(t) /\ \A m \in Entries : ~ReverseCommit(t, m)
    BY <1>1, <2>0, <2>3, OtherEffect
  <2>. QED  BY <2>1, <2>2, <2>3
<1>2. IInv /\ CheckedInv /\ [Next]_vars =>
          [\A n \in Entries :
              (reverses[n] = NoEntry /\ reverses'[n] # NoEntry) =>
                  (lines'[n] = Mirror(lines'[reverses'[n]]))]_vars
  BY <1>1
<1>. QED  BY <1>2, Invariance, CheckedInvariance, PTL DEF Spec, EntersMirrored
-----------------------------------------------------------------------------
\* Bills and credit notes.  All their calls at once: a run takes the two kinds of
\* document one at a time.
PayablesSpec == BooksInit /\ [][BillsNext \/ NotesNext]_booksVars

\* The row a document is kept in, whichever kind it is.
RowOf(d) == IF d \in Bills THEN bill[d] ELSE note[d]

Holding(q)   == q.op \in {"post", "cancel"}
Numbering(q) == q.op = "post" /\ q.number # 0

\* A posting holds a draft as it stands, and once it has read its number that
\* number stays the next; a cancellation holds a posted bill; the bill that an
\* edit has read stays.
RequestSound(q) ==
    /\ q.op = "update" => bill[q.document] # NoDocument
    /\ q.op = "post" => /\ RowOf(q.document).status = "draft"
                        /\ RowOf(q.document).lines = q.lines
    /\ q.op = "cancel" => q.document \in Bills /\ bill[q.document].status = "posted"
    /\ Numbering(q) => q.document \in Notes /\ q.number = NextNoteNumber

\* No two requests hold one document, and no two the numbers.
RequestsApart ==
    \A c, d \in Clerks : c # d =>
        /\ Holding(desk[c]) /\ Holding(desk[d]) => desk[c].document # desk[d].document
        /\ ~(Numbering(desk[c]) /\ Numbering(desk[d]))

Tells(row) ==
    /\ row.status \in {"draft", "voided"} => row.entry = "none"
    /\ row.status = "posted" => row.entry \in {"posted", "reversed"}
    /\ row.status = "cancelled" => row.entry = "reversed"

StoryInv ==
    /\ \A b \in Bills : bill[b] # NoDocument => Tells(bill[b])
    /\ \A n \in Notes : note[n] # NoDocument => Tells(note[n])

NumOf(n) == IF note[n] = NoDocument THEN 0 ELSE note[n].number

\* The numbers of the notes are 1 .. k, each of one note, which was posted.
NotesInv ==
    /\ \E k \in Nat : NoteNumbers = 1 .. k
    /\ \A n \in Notes : NumOf(n) # 0 <=> note[n].status = "posted"
    /\ \A m, n \in Notes : m # n /\ NumOf(m) # 0 => NumOf(m) # NumOf(n)

PayablesInv ==
    /\ BillsTypeOK
    /\ StoryInv
    /\ NotesInv
    /\ ReferenceEnteredOnce
    /\ \A c \in Clerks : RequestSound(desk[c])
    /\ RequestsApart

\* At most, requests have ended.
Ends ==
    /\ desk' \in [Clerks -> Requests \cup {AtRest}]
    /\ \A d \in Clerks : desk'[d] = desk[d] \/ desk'[d] = AtRest

LEMMA DocumentFacts ==
    /\ \A row \in BillRows \cup {NoDocument} :
          /\ row = NoDocument <=> row \notin BillRows
          /\ row = NoDocument <=> row.status = "none"
    /\ \A row \in NoteRows \cup {NoDocument} :
          /\ row = NoDocument <=> row \notin NoteRows
          /\ row = NoDocument <=> row.status = "none"
BY DEF BillRows, NoteRows, NoDocument

LEMMA RequestFacts ==
    \A q \in Requests \cup {AtRest} :
        /\ q = AtRest <=> q.op = "none"
        /\ q.op = "update" => q \in [op : {"update"}, document : Bills, lines : Sums]
        /\ Holding(q) => q \in [op : {"post", "cancel"}, document : Bills \cup Notes,
                                lines : Sums, number : 0 .. Cardinality(Notes)]
BY DEF Requests, AtRest, Holding

LEMMA NumbersOfNotes == NoteNumbers = {NumOf(n) : n \in Notes} \ {0}
BY DEF NoteNumbers, NumOf

LEMMA NextOfInterval == ASSUME NEW k \in Nat, NoteNumbers = 1 .. k PROVE NextNoteNumber = k + 1
<1>1. CASE k = 0
  BY <1>1 DEF NextNoteNumber
<1>2. CASE k > 0
  <2>1. k \in 1 .. k /\ \A y \in 1 .. k : k >= y
    BY <1>2
  <2>2. \A x \in 1 .. k : (\A y \in 1 .. k : x >= y) => x = k
    BY <1>2
  <2>3. Max(1 .. k) = k
    BY <2>1, <2>2 DEF Max
  <2>. QED  BY <1>2, <2>1, <2>3 DEF NextNoteNumber
<1>. QED  BY <1>1, <1>2

\* A note that has no number yet leaves room for one more.
LEMMA NumberFits ==
    ASSUME PayablesInv, NEW n \in Notes, NumOf(n) = 0
    PROVE  NextNoteNumber \in 1 .. Cardinality(Notes)
<1>1. PICK k \in Nat : NoteNumbers = 1 .. k
  BY DEF PayablesInv, NotesInv
<1>2. NextNoteNumber = k + 1
  BY <1>1, NextOfInterval
<1>3. /\ IsFiniteSet(Notes \ {n}) /\ Cardinality(Notes \ {n}) = Cardinality(Notes) - 1
      /\ IsFiniteSet(Notes) /\ Cardinality(Notes) \in Nat
  BY DocumentsAssumption, FS_RemoveElement, FS_CardinalityType
<1>. DEFINE Others == Notes \ {n}
            Image == {NumOf(m) : m \in Others}
            f == [m \in Others |-> NumOf(m)]
<1>4. f \in Surjection(Others, Image)
  BY DEF Surjection
<1>5. IsFiniteSet(Image) /\ Cardinality(Image) <= Cardinality(Others)
  BY ONLY <1>3, <1>4, FS_Surjection
<1>6. 1 .. k \subseteq Image
  BY <1>1, NumbersOfNotes
<1>7. Cardinality(1 .. k) <= Cardinality(Image)
  BY <1>5, <1>6, FS_Subset
<1>8. Cardinality(1 .. k) = k
  BY FS_Interval
<1>. HIDE DEF Others, Image, f
<1>9. Cardinality(Others) = Cardinality(Notes) - 1
  BY <1>3 DEF Others
<1>10. Cardinality(Image) \in Nat
  BY <1>5, FS_CardinalityType
<1>. QED  BY <1>2, <1>3, <1>5, <1>7, <1>8, <1>9, <1>10

-----------------------------------------------------------------------------
\* Requests that go on are still apart.
LEMMA StillApart == ASSUME PayablesInv, Ends PROVE RequestsApart'
<1>1. ~Holding(AtRest) /\ ~Numbering(AtRest)
  BY DEF Holding, Numbering, AtRest
<1>. QED  BY <1>1 DEF PayablesInv, RequestsApart, Ends

\* A bill is written and requests end, and those that go on hold it as it was.
LEMMA BillWritten ==
    ASSUME PayablesInv, NEW b \in Bills, NEW row \in BillRows, Tells(row),
           bill' = [bill EXCEPT ![b] = row], UNCHANGED <<note, creditable, officeVars>>, Ends,
           IF bill[b] = NoDocument THEN ~ReferenceTaken(row.reference)
                                   ELSE row.reference = bill[b].reference,
           \/ bill[b] = NoDocument
           \/ row.booked = bill[b].booked
           \/ bill[b].status = "draft" /\ row.status = "posted" /\ row.booked = bill[b].lines,
           \A d \in Clerks : Holding(desk'[d]) /\ desk'[d].document = b =>
                                 row.status = bill[b].status /\ row.lines = bill[b].lines
    PROVE  PayablesInv' /\ BookedAsItStood
<1>1. /\ bill \in [Bills -> BillRows \cup {NoDocument}]
      /\ \A a \in Bills : bill'[a] = IF a = b THEN row ELSE bill[a]
      /\ row # NoDocument
  BY DocumentFacts DEF PayablesInv, BillsTypeOK
<1>2. BillsTypeOK'
  BY DEF PayablesInv, BillsTypeOK, Ends, officeVars
<1>3. StoryInv'
  <2>1. \A a \in Bills : bill'[a] # NoDocument => Tells(bill'[a])
    BY <1>1 DEF PayablesInv, StoryInv
  <2>2. \A n \in Notes : note'[n] # NoDocument => Tells(note'[n])
    BY DEF PayablesInv, StoryInv
  <2>. QED  BY <2>1, <2>2 DEF StoryInv, Tells
<1>4. NotesInv' /\ NextNoteNumber' = NextNoteNumber
  BY DEF PayablesInv, NotesInv, NoteNumbers, NextNoteNumber, NumOf
<1>5. ReferenceEnteredOnce'
  BY <1>1 DEF PayablesInv, ReferenceEnteredOnce, ReferenceTaken
<1>6. ASSUME NEW d \in Clerks PROVE RequestSound(desk[d])'
  <2>1. CASE desk'[d] = AtRest
    BY <2>1 DEF AtRest, RequestSound, Numbering
  <2>2. CASE desk'[d] = desk[d]
    <3>1. RequestSound(desk[d]) /\ desk[d] \in Requests \cup {AtRest}
      BY DEF PayablesInv, BillsTypeOK
    <3>2. desk[d].op = "update" => bill'[desk[d].document] # NoDocument
      BY <1>1, <3>1, RequestFacts DEF RequestSound
    <3>3. Holding(desk[d]) => /\ RowOf(desk[d].document)'.status = RowOf(desk[d].document).status
                              /\ RowOf(desk[d].document)'.lines = RowOf(desk[d].document).lines
      BY <1>1, <2>2, <3>1, RequestFacts DEF RowOf
    <3>4. desk[d].op \in {"post", "cancel"} <=> Holding(desk[d])
      BY DEF Holding
    <3>. QED  BY <1>4, <2>2, <3>1, <3>2, <3>3, <3>4 DEF RequestSound, RowOf, Numbering
  <2>. QED  BY <2>1, <2>2 DEF Ends
<1>7. BookedAsItStood
  BY <1>1 DEF BookedAsItStood
<1>. QED  BY <1>2, <1>3, <1>4, <1>5, <1>6, <1>7, StillApart DEF PayablesInv

\* Likewise a note, which keeps its number or is given the next.
LEMMA NoteWritten ==
    ASSUME PayablesInv, NEW n \in Notes, NEW row \in NoteRows, Tells(row),
           note' = [note EXCEPT ![n] = row], UNCHANGED <<bill, creditable, officeVars>>, Ends,
           row.number # 0 <=> row.status = "posted",
           \/ row.number = NumOf(n)
           \/ /\ NumOf(n) = 0 /\ row.number = NextNoteNumber
              /\ \A d \in Clerks : ~Numbering(desk'[d]),
           \A d \in Clerks : Holding(desk'[d]) /\ desk'[d].document = n =>
                                 row.status = note[n].status /\ row.lines = note[n].lines
    PROVE  PayablesInv' /\ BookedAsItStood
<1>1. /\ note \in [Notes -> NoteRows \cup {NoDocument}]
      /\ \A m \in Notes : note'[m] = IF m = n THEN row ELSE note[m]
      /\ row # NoDocument
  BY DocumentFacts DEF PayablesInv, BillsTypeOK
<1>2. BillsTypeOK'
  BY DEF PayablesInv, BillsTypeOK, Ends, officeVars
<1>3. StoryInv'
  <2>1. \A a \in Bills : bill'[a] # NoDocument => Tells(bill'[a])
    BY DEF PayablesInv, StoryInv
  <2>2. \A m \in Notes : note'[m] # NoDocument => Tells(note'[m])
    BY <1>1 DEF PayablesInv, StoryInv
  <2>. QED  BY <2>1, <2>2 DEF StoryInv, Tells
<1>4. \A m \in Notes : NumOf(m)' = IF m = n THEN row.number ELSE NumOf(m)
  BY <1>1 DEF NumOf
<1>5. \A m \in Notes : NumOf(m)' # 0 <=> note'[m].status = "posted"
  BY <1>1, <1>4 DEF PayablesInv, NotesInv
<1>6. NoteNumbers' = {NumOf(m)' : m \in Notes} \ {0}
  BY DEF NoteNumbers, NumOf
<1>7. ASSUME row.number = NumOf(n) PROVE NotesInv' /\ NextNoteNumber' = NextNoteNumber
  <2>1. \A m \in Notes : NumOf(m)' = NumOf(m)
    BY <1>4, <1>7
  <2>2. NoteNumbers' = NoteNumbers
    BY <2>1, <1>6, NumbersOfNotes
  <2>. QED  BY <2>1, <2>2, <1>5 DEF PayablesInv, NotesInv, NextNoteNumber
<1>8. ASSUME NumOf(n) = 0, row.number = NextNoteNumber PROVE NotesInv'
  <2>1. PICK k \in Nat : NoteNumbers = 1 .. k
    BY DEF PayablesInv, NotesInv
  <2>2. row.number = k + 1
    BY <1>8, <2>1, NextOfInterval
  <2>3. \A m \in Notes : NumOf(m) # 0 => NumOf(m) \in 1 .. k
    BY <2>1, NumbersOfNotes
  <2>4. \A i \in 1 .. k : \E m \in Notes : m # n /\ NumOf(m) = i
    BY <1>8, <2>1, NumbersOfNotes
  <2>5. NoteNumbers' = 1 .. (k + 1)
    <3>1. NoteNumbers' \subseteq 1 .. (k + 1)
      BY <1>4, <1>6, <2>2, <2>3
    <3>2. ASSUME NEW i \in 1 .. (k + 1) PROVE i \in NoteNumbers'
      BY <1>4, <1>6, <2>2, <2>4
    <3>. QED  BY <3>1, <3>2
  <2>6. \A l, m \in Notes : l # m /\ NumOf(l)' # 0 => NumOf(l)' # NumOf(m)'
    BY <1>4, <2>2, <2>3 DEF PayablesInv, NotesInv
  <2>7. k + 1 \in Nat
    OBVIOUS
  <2>. QED  BY <1>5, <2>5, <2>6, <2>7 DEF NotesInv
<1>9. NotesInv' /\ (NextNoteNumber' = NextNoteNumber \/ \A d \in Clerks : ~Numbering(desk'[d]))
  BY <1>7, <1>8
<1>10. ReferenceEnteredOnce'
  BY DEF PayablesInv, ReferenceEnteredOnce
<1>11. ASSUME NEW d \in Clerks PROVE RequestSound(desk[d])'
  <2>1. CASE desk'[d] = AtRest
    BY <2>1 DEF AtRest, RequestSound, Numbering
  <2>2. CASE desk'[d] = desk[d]
    <3>1. RequestSound(desk[d]) /\ desk[d] \in Requests \cup {AtRest}
      BY DEF PayablesInv, BillsTypeOK
    <3>2. Holding(desk[d]) => /\ RowOf(desk[d].document)'.status = RowOf(desk[d].document).status
                              /\ RowOf(desk[d].document)'.lines = RowOf(desk[d].document).lines
      BY <1>1, <2>2, <3>1, RequestFacts DEF RowOf
    <3>3. desk[d].op \in {"post", "cancel"} <=> Holding(desk[d])
      BY DEF Holding
    <3>4. Numbering(desk[d]) => NextNoteNumber' = NextNoteNumber
      BY <1>9, <2>2
    <3>. QED  BY <2>2, <3>1, <3>2, <3>3, <3>4 DEF RequestSound, RowOf, Numbering
  <2>. QED  BY <2>1, <2>2 DEF Ends
<1>12. BookedAsItStood
  BY DEF BookedAsItStood
<1>. QED  BY <1>2, <1>3, <1>9, <1>10, <1>11, <1>12, StillApart DEF PayablesInv

\* One request begins or goes on, and no document is written.
LEMMA DeskMoves ==
    ASSUME PayablesInv, NEW c \in Clerks, NEW q \in Requests, desk' = [desk EXCEPT ![c] = q],
           UNCHANGED <<bill, note, creditable, officeVars>>, RequestSound(q),
           \A d \in Clerks \ {c} :
              /\ Holding(q) /\ Holding(desk[d]) => desk[d].document # q.document
              /\ ~(Numbering(q) /\ Numbering(desk[d]))
    PROVE  PayablesInv' /\ BookedAsItStood
<1>1. /\ desk' \in [Clerks -> Requests \cup {AtRest}]
      /\ \A d \in Clerks : desk'[d] = IF d = c THEN q ELSE desk[d]
  BY DEF PayablesInv, BillsTypeOK
<1>2. BillsTypeOK' /\ StoryInv' /\ NotesInv' /\ ReferenceEnteredOnce' /\ BookedAsItStood
  BY <1>1 DEF PayablesInv, BillsTypeOK, StoryInv, NotesInv, NoteNumbers, NumOf,
              ReferenceEnteredOnce, BookedAsItStood, officeVars
<1>3. NextNoteNumber' = NextNoteNumber
  BY DEF NextNoteNumber, NoteNumbers
<1>4. ASSUME NEW d \in Clerks PROVE RequestSound(desk[d])'
  BY <1>1, <1>3 DEF PayablesInv, RequestSound, RowOf
<1>5. RequestsApart'
  BY <1>1 DEF PayablesInv, RequestsApart
<1>. QED  BY <1>2, <1>4, <1>5 DEF PayablesInv

-----------------------------------------------------------------------------
\* A request that ends leaves the desk.
LEMMA Left == ASSUME PayablesInv, NEW c \in Clerks, Leave(c)
              PROVE  Ends /\ \A d \in Clerks : desk'[d] = IF d = c THEN AtRest ELSE desk[d]
BY DEF PayablesInv, BillsTypeOK, Leave, Ends

LEMMA Stayed == ASSUME PayablesInv, desk' = desk PROVE Ends
BY DEF PayablesInv, BillsTypeOK, Ends

LEMMA RestHoldsNothing == ~Holding(AtRest) /\ ~Numbering(AtRest)
BY DEF Holding, Numbering, AtRest

\* No document is written, and at most requests end.
LEMMA NothingWritten ==
    ASSUME PayablesInv, UNCHANGED <<bill, note>>, Ends,
           creditable' \in {"draft", "posted", "cancelled"},
           account' \in {"none", "active", "inactive"},
           role' \in {"none", "customer", "supplier", "both"}
    PROVE  PayablesInv' /\ BookedAsItStood
<1>1. BillsTypeOK' /\ StoryInv' /\ NotesInv' /\ ReferenceEnteredOnce' /\ BookedAsItStood
  BY DEF PayablesInv, BillsTypeOK, StoryInv, NotesInv, NoteNumbers, NumOf,
         ReferenceEnteredOnce, BookedAsItStood, Ends
<1>2. NextNoteNumber' = NextNoteNumber
  BY DEF NextNoteNumber, NoteNumbers
<1>3. ASSUME NEW d \in Clerks PROVE RequestSound(desk[d])'
  BY <1>2 DEF PayablesInv, Ends, RequestSound, RowOf, AtRest, Numbering
<1>. QED  BY <1>1, <1>3, StillApart DEF PayablesInv

\* A lock on a document that nobody holds.
LEMMA NobodyHolds ==
    ASSUME NEW d, ~RowHeld(d)
    PROVE  \A c \in Clerks : Holding(desk[c]) => desk[c].document # d
BY DEF RowHeld, Holding

LEMMA CreateBillStep ==
    ASSUME PayablesInv, NEW b \in Bills, NEW r \in References, NEW x \in Sums, CreateBill(b, r, x)
    PROVE  PayablesInv' /\ BookedAsItStood
<1>1. PICK row : row = BillDraft(x, r)
  OBVIOUS
<1>2. /\ row \in BillRows /\ Tells(row) /\ row.reference = r
      /\ row.status = "draft"
  BY <1>1 DEF BillDraft, BillRows, Tells
<1>3. ASSUME NEW d \in Clerks, Holding(desk[d]), desk[d].document = b PROVE FALSE
  <2>1. RequestSound(desk[d])
    BY DEF PayablesInv
  <2>2. RowOf(b).status = "none"
    BY DEF RowOf, CreateBill, NoDocument
  <2>. QED  BY <1>3, <2>1, <2>2 DEF RequestSound, Holding, RowOf
<1>4. bill' = [bill EXCEPT ![b] = row] /\ bill[b] = NoDocument /\ ~ReferenceTaken(r)
  BY <1>1 DEF CreateBill
<1>5. UNCHANGED <<note, creditable, officeVars>> /\ desk' = desk
  BY DEF CreateBill
<1>. QED  BY <1>2, <1>3, <1>4, <1>5, Stayed, BillWritten

LEMMA VoidBillStep == ASSUME PayablesInv, NEW b \in Bills, VoidBill(b)
                      PROVE  PayablesInv' /\ BookedAsItStood
<1>1. bill[b] \in BillRows /\ bill[b].status = "draft" /\ Tells(bill[b])
  BY DocumentFacts DEF VoidBill, PayablesInv, BillsTypeOK, StoryInv
<1>2. PICK row : row = [bill[b] EXCEPT !.status = "voided"]
  OBVIOUS
<1>3. /\ row \in BillRows /\ Tells(row) /\ row.reference = bill[b].reference
      /\ row.booked = bill[b].booked
  BY <1>1, <1>2 DEF BillRows, Tells
<1>4. bill' = [bill EXCEPT ![b] = row] /\ UNCHANGED <<note, creditable, officeVars>> /\ desk' = desk
  BY <1>2 DEF VoidBill
<1>5. \A d \in Clerks : Holding(desk[d]) => desk[d].document # b
  BY NobodyHolds DEF VoidBill
<1>6. bill[b] # NoDocument
  BY <1>1 DEF NoDocument
<1>. QED  BY <1>3, <1>4, <1>5, <1>6, Stayed, BillWritten

LEMMA CommitUpdateStep == ASSUME PayablesInv, NEW c \in Clerks, CommitUpdate(c)
                          PROVE  PayablesInv' /\ BookedAsItStood
<1>1. PICK q : q = desk[c]
  OBVIOUS
<1>2. q.document \in Bills /\ q.lines \in Sums /\ bill[q.document] # NoDocument /\ ~RowHeld(q.document)
  BY <1>1, RequestFacts DEF PayablesInv, BillsTypeOK, RequestSound, CommitUpdate
<1>3. PICK b \in Bills : b = q.document
  BY <1>2
<1>4. bill[b] \in BillRows /\ Tells(bill[b]) /\ bill[b] # NoDocument
  BY <1>2, <1>3, DocumentFacts DEF PayablesInv, BillsTypeOK, StoryInv
<1>5. PICK row : row = [bill[b] EXCEPT !.lines = q.lines, !.total = q.lines]
  OBVIOUS
<1>6. /\ row \in BillRows /\ Tells(row) /\ row.reference = bill[b].reference
      /\ row.booked = bill[b].booked
  BY <1>2, <1>4, <1>5 DEF BillRows, Tells
<1>7. bill' = [bill EXCEPT ![b] = row]
  BY <1>1, <1>3, <1>5 DEF CommitUpdate, PayablesInv, BillsTypeOK
<1>8. UNCHANGED <<note, creditable, officeVars>> /\ Leave(c)
  BY DEF CommitUpdate
<1>9. \A d \in Clerks : Holding(desk'[d]) => desk'[d].document # b
  BY <1>2, <1>3, <1>8, NobodyHolds, Left, RestHoldsNothing
<1>. QED  BY <1>4, <1>6, <1>7, <1>8, <1>9, Left, BillWritten

LEMMA PostBillStep == ASSUME PayablesInv, NEW c \in Clerks, PostBill(c)
                      PROVE  PayablesInv' /\ BookedAsItStood
<1>1. PICK q : q = desk[c]
  OBVIOUS
<1>2. /\ q.document \in Bills /\ q.lines \in Sums /\ Holding(q)
      /\ RowOf(q.document).status = "draft" /\ RowOf(q.document).lines = q.lines
  BY <1>1, RequestFacts DEF PayablesInv, BillsTypeOK, RequestSound, PostBill, Holding
<1>3. PICK b \in Bills : b = q.document
  BY <1>2
<1>4. /\ bill[b] \in BillRows /\ bill[b] # NoDocument /\ bill[b].status = "draft"
      /\ bill[b].lines = q.lines
  BY <1>2, <1>3, DocumentFacts DEF PayablesInv, BillsTypeOK, RowOf, NoDocument
<1>5. PICK row : row = [bill[b] EXCEPT !.status = "posted", !.total = q.lines,
                                       !.entry = "posted", !.booked = q.lines]
  OBVIOUS
<1>6. /\ row \in BillRows /\ Tells(row) /\ row.reference = bill[b].reference
      /\ row.status = "posted" /\ row.booked = bill[b].lines
  BY <1>2, <1>4, <1>5 DEF BillRows, Tells
<1>7. bill' = [bill EXCEPT ![b] = row]
  BY <1>1, <1>3, <1>5 DEF PostBill
<1>8. UNCHANGED <<note, creditable, officeVars>> /\ Leave(c)
  BY DEF PostBill
<1>9. \A d \in Clerks : Holding(desk'[d]) => desk'[d].document # b
  BY <1>1, <1>2, <1>3, <1>8, Left, RestHoldsNothing DEF PayablesInv, RequestsApart
<1>. QED  BY <1>4, <1>6, <1>7, <1>8, <1>9, Left, BillWritten

LEMMA CancelBillStep == ASSUME PayablesInv, NEW c \in Clerks, CancelBill(c)
                        PROVE  PayablesInv' /\ BookedAsItStood
<1>1. PICK q : q = desk[c]
  OBVIOUS
<1>2. q.document \in Bills /\ Holding(q) /\ bill[q.document].status = "posted"
  BY <1>1 DEF PayablesInv, RequestSound, CancelBill, Holding
<1>3. PICK b \in Bills : b = q.document
  BY <1>2
<1>4. bill[b] \in BillRows /\ bill[b] # NoDocument
  BY <1>2, <1>3, DocumentFacts DEF PayablesInv, BillsTypeOK
<1>5. PICK row : row = [bill[b] EXCEPT !.status = "cancelled", !.entry = "reversed"]
  OBVIOUS
<1>6. /\ row \in BillRows /\ Tells(row) /\ row.reference = bill[b].reference
      /\ row.booked = bill[b].booked
  BY <1>4, <1>5 DEF BillRows, Tells
<1>7. bill' = [bill EXCEPT ![b] = row]
  BY <1>1, <1>3, <1>5 DEF CancelBill, PayablesInv, BillsTypeOK
<1>8. UNCHANGED <<note, creditable, officeVars>> /\ Leave(c)
  BY DEF CancelBill
<1>9. \A d \in Clerks : Holding(desk'[d]) => desk'[d].document # b
  BY <1>1, <1>2, <1>3, <1>8, Left, RestHoldsNothing DEF PayablesInv, RequestsApart
<1>. QED  BY <1>4, <1>6, <1>7, <1>8, <1>9, Left, BillWritten

LEMMA ReverseEntryStep == ASSUME PayablesInv, NEW e \in Bills \cup Notes, ReverseEntry(e)
                          PROVE  PayablesInv' /\ BookedAsItStood
<1>1. CASE /\ e \in Bills /\ bill[e] # NoDocument /\ bill[e].entry = "posted"
           /\ bill' = [bill EXCEPT ![e].entry = "reversed"]
           /\ UNCHANGED <<note, creditable, officeVars, desk>>
  <2>1. PICK b \in Bills : b = e
    BY <1>1
  <2>2. bill[b] \in BillRows /\ Tells(bill[b])
    BY <1>1, <2>1, DocumentFacts DEF PayablesInv, BillsTypeOK, StoryInv
  <2>3. PICK row : row = [bill[b] EXCEPT !.entry = "reversed"]
    OBVIOUS
  <2>4. /\ row \in BillRows /\ Tells(row) /\ row.reference = bill[b].reference
        /\ row.booked = bill[b].booked /\ row.status = bill[b].status
        /\ row.lines = bill[b].lines
    BY <1>1, <2>1, <2>2, <2>3 DEF BillRows, Tells
  <2>5. bill' = [bill EXCEPT ![b] = row]
    BY <1>1, <2>1, <2>3
  <2>. QED  BY <1>1, <2>1, <2>4, <2>5, Stayed, BillWritten
<1>2. CASE /\ e \in Notes /\ note[e] # NoDocument /\ note[e].entry = "posted"
           /\ note' = [note EXCEPT ![e].entry = "reversed"]
           /\ UNCHANGED <<bill, creditable, officeVars, desk>>
  <2>1. PICK n \in Notes : n = e
    BY <1>2
  <2>2. note[n] \in NoteRows /\ Tells(note[n])
    BY <1>2, <2>1, DocumentFacts DEF PayablesInv, BillsTypeOK, StoryInv
  <2>3. PICK row : row = [note[n] EXCEPT !.entry = "reversed"]
    OBVIOUS
  <2>4. /\ row \in NoteRows /\ Tells(row) /\ row.number = note[n].number
        /\ row.status = note[n].status /\ row.lines = note[n].lines
    BY <1>2, <2>1, <2>2, <2>3 DEF NoteRows, Tells
  <2>5. note' = [note EXCEPT ![n] = row]
    BY <1>2, <2>1, <2>3
  <2>6. row.number = NumOf(n) /\ (row.number # 0 <=> row.status = "posted")
    BY <1>2, <2>1, <2>4 DEF NumOf, PayablesInv, NotesInv
  <2>. QED  BY <1>2, <2>4, <2>5, <2>6, Stayed, NoteWritten
<1>. QED  BY <1>1, <1>2 DEF ReverseEntry

LEMMA CreateNoteStep ==
    ASSUME PayablesInv, NEW n \in Notes, NEW x \in Sums, CreateNote(n, x)
    PROVE  PayablesInv' /\ BookedAsItStood
<1>1. PICK row : row = NoteDraft(x)
  OBVIOUS
<1>2. Cardinality(Notes) \in Nat
  BY DocumentsAssumption, FS_CardinalityType
<1>3. row \in NoteRows /\ Tells(row) /\ row.number = 0 /\ row.status = "draft"
  BY <1>1, <1>2 DEF NoteDraft, NoteRows, Tells
<1>4. ASSUME NEW d \in Clerks, Holding(desk[d]), desk[d].document = n PROVE FALSE
  <2>1. RequestSound(desk[d])
    BY DEF PayablesInv
  <2>2. RowOf(n).status = "none" /\ n \notin Bills
    BY DocumentsAssumption DEF RowOf, CreateNote, NoDocument
  <2>. QED  BY <1>4, <2>1, <2>2 DEF RequestSound, Holding, RowOf
<1>5. note' = [note EXCEPT ![n] = row] /\ note[n] = NoDocument
  BY <1>1 DEF CreateNote
<1>6. UNCHANGED <<bill, creditable, officeVars>> /\ desk' = desk
  BY DEF CreateNote
<1>7. row.number = NumOf(n) /\ (row.number # 0 <=> row.status = "posted")
  BY <1>3, <1>5, Zenon DEF NumOf, NoDocument
<1>8. Ends
  BY <1>6, Stayed
<1>9. \A d \in Clerks : Holding(desk'[d]) /\ desk'[d].document = n =>
                          row.status = note[n].status /\ row.lines = note[n].lines
  BY <1>4, <1>6
<1>. QED  BY <1>3, <1>5, <1>6, <1>7, <1>8, <1>9, NoteWritten

LEMMA VoidNoteStep == ASSUME PayablesInv, NEW n \in Notes, VoidNote(n)
                      PROVE  PayablesInv' /\ BookedAsItStood
<1>1. note[n] \in NoteRows /\ note[n].status = "draft" /\ Tells(note[n]) /\ note[n] # NoDocument
  BY DocumentFacts DEF VoidNote, PayablesInv, BillsTypeOK, StoryInv
<1>2. PICK row : row = [note[n] EXCEPT !.status = "voided"]
  OBVIOUS
<1>3. row \in NoteRows /\ Tells(row) /\ row.number = note[n].number /\ row.status = "voided"
  BY <1>1, <1>2 DEF NoteRows, Tells
<1>4. note' = [note EXCEPT ![n] = row] /\ UNCHANGED <<bill, creditable, officeVars>> /\ desk' = desk
  BY <1>2 DEF VoidNote
<1>5. \A d \in Clerks : Holding(desk[d]) => desk[d].document # n
  BY NobodyHolds DEF VoidNote
<1>6. row.number = NumOf(n) /\ row.number = 0
  BY <1>1, <1>3 DEF NumOf, PayablesInv, NotesInv
<1>. QED  BY <1>3, <1>4, <1>5, <1>6, Stayed, NoteWritten

LEMMA PostNoteStep == ASSUME PayablesInv, NEW c \in Clerks, PostNote(c)
                      PROVE  PayablesInv' /\ BookedAsItStood
<1>1. PICK q : q = desk[c]
  OBVIOUS
<1>2. /\ q.document \in Notes /\ q.lines \in Sums /\ Holding(q) /\ Numbering(q)
      /\ q.number \in 0 .. Cardinality(Notes) /\ q.number # 0 /\ q.number = NextNoteNumber
      /\ RowOf(q.document).status = "draft" /\ RowOf(q.document).lines = q.lines
  BY <1>1, RequestFacts DEF PayablesInv, BillsTypeOK, RequestSound, PostNote, Holding, Numbering
<1>3. PICK n \in Notes : n = q.document
  BY <1>2
<1>4. note[n] \in NoteRows /\ note[n] # NoDocument /\ note[n].status = "draft"
  BY <1>2, <1>3, DocumentFacts, DocumentsAssumption DEF PayablesInv, BillsTypeOK, RowOf, NoDocument
<1>5. PICK row : row = [note[n] EXCEPT !.status = "posted", !.total = q.lines, !.entry = "posted",
                                       !.booked = q.lines, !.number = q.number]
  OBVIOUS
<1>6. /\ row \in NoteRows /\ Tells(row) /\ row.number = q.number /\ row.status = "posted"
  BY <1>2, <1>4, <1>5 DEF NoteRows, Tells
<1>7. note' = [note EXCEPT ![n] = row]
  BY <1>1, <1>3, <1>5 DEF PostNote
<1>8. UNCHANGED <<bill, creditable, officeVars>> /\ Leave(c)
  BY DEF PostNote
<1>9. \A d \in Clerks : /\ Holding(desk'[d]) => desk'[d].document # n
                        /\ ~Numbering(desk'[d])
  BY <1>1, <1>2, <1>3, <1>8, Left, RestHoldsNothing DEF PayablesInv, RequestsApart
<1>10. NumOf(n) = 0
  BY <1>4 DEF PayablesInv, NotesInv
<1>. QED  BY <1>2, <1>6, <1>7, <1>8, <1>9, <1>10, Left, NoteWritten

LEMMA BeginUpdateStep ==
    ASSUME PayablesInv, NEW c \in Clerks, NEW b \in Bills, NEW x \in Sums, BeginUpdate(c, b, x)
    PROVE  PayablesInv' /\ BookedAsItStood
<1>1. PICK q : q = [op |-> "update", document |-> b, lines |-> x]
  OBVIOUS
<1>2. q \in Requests /\ q.op = "update" /\ q.document = b /\ bill[b] # NoDocument
  BY <1>1 DEF Requests, BeginUpdate, NoDocument
<1>3. RequestSound(q) /\ ~Holding(q) /\ ~Numbering(q)
  BY <1>2 DEF RequestSound, Holding, Numbering
<1>4. desk' = [desk EXCEPT ![c] = q] /\ UNCHANGED <<bill, note, creditable, officeVars>>
  BY <1>1 DEF BeginUpdate
<1>. QED  BY <1>2, <1>3, <1>4, DeskMoves

\* A document is locked that nobody held, to be posted or cancelled.
LEMMA Locked ==
    ASSUME PayablesInv, NEW c \in Clerks, NEW op \in {"post", "cancel"}, NEW e \in Bills \cup Notes,
           ~RowHeld(e), RowOf(e).lines \in Sums,
           op = "post" => RowOf(e).status = "draft",
           op = "cancel" => e \in Bills /\ RowOf(e).status = "posted",
           Hold(c, op, e, RowOf(e).lines, 0),
           UNCHANGED <<bill, note, creditable, officeVars>>
    PROVE  PayablesInv' /\ BookedAsItStood
<1>1. PICK q : q = [op |-> op, document |-> e, lines |-> RowOf(e).lines, number |-> 0]
  OBVIOUS
<1>2. Cardinality(Notes) \in Nat
  BY DocumentsAssumption, FS_CardinalityType
<1>3. q \in Requests /\ q.op = op /\ q.document = e /\ q.lines = RowOf(e).lines /\ q.number = 0
  BY <1>1, <1>2 DEF Requests
<1>4. RequestSound(q) /\ ~Numbering(q)
  BY <1>3 DEF RequestSound, Numbering, RowOf
<1>5. desk' = [desk EXCEPT ![c] = q]
  BY <1>1 DEF Hold
<1>. QED  BY <1>3, <1>4, <1>5, NobodyHolds, DeskMoves

LEMMA LockSteps ==
    ASSUME PayablesInv, NEW c \in Clerks,
           \/ \E b \in Bills : LockBillToPost(c, b) \/ LockBillToCancel(c, b)
           \/ \E n \in Notes : LockNote(c, n)
    PROVE  PayablesInv' /\ BookedAsItStood
<1>1. ASSUME NEW b \in Bills, bill[b].status \in {"draft", "posted"}
      PROVE  RowOf(b) = bill[b] /\ RowOf(b).lines \in Sums
  BY <1>1, DocumentFacts DEF PayablesInv, BillsTypeOK, RowOf, NoDocument, BillRows
<1>2. ASSUME NEW n \in Notes, note[n].status = "draft"
      PROVE  RowOf(n) = note[n] /\ RowOf(n).lines \in Sums
  BY <1>2, DocumentFacts, DocumentsAssumption
     DEF PayablesInv, BillsTypeOK, RowOf, NoDocument, NoteRows
<1>3. ASSUME NEW b \in Bills, LockBillToPost(c, b) PROVE PayablesInv' /\ BookedAsItStood
  BY <1>1, <1>3, Locked DEF LockBillToPost
<1>4. ASSUME NEW b \in Bills, LockBillToCancel(c, b) PROVE PayablesInv' /\ BookedAsItStood
  BY <1>1, <1>4, Locked DEF LockBillToCancel
<1>5. ASSUME NEW n \in Notes, LockNote(c, n) PROVE PayablesInv' /\ BookedAsItStood
  BY <1>2, <1>5, Locked DEF LockNote
<1>. QED  BY <1>3, <1>4, <1>5

LEMMA NumberNoteStep == ASSUME PayablesInv, NEW c \in Clerks, NumberNote(c)
                        PROVE  PayablesInv' /\ BookedAsItStood
<1>1. PICK was : was = desk[c]
  OBVIOUS
<1>2. /\ was \in [op : {"post", "cancel"}, document : Bills \cup Notes, lines : Sums,
                  number : 0 .. Cardinality(Notes)]
      /\ was.op = "post" /\ was.document \in Notes /\ RequestSound(was)
  BY <1>1, RequestFacts DEF PayablesInv, BillsTypeOK, NumberNote, Holding
<1>3. NumOf(was.document) = 0
  BY <1>2, DocumentsAssumption DEF PayablesInv, NotesInv, RequestSound, RowOf
<1>4. NextNoteNumber \in 1 .. Cardinality(Notes)
  BY <1>2, <1>3, NumberFits
<1>5. PICK q : q = [was EXCEPT !.number = NextNoteNumber]
  OBVIOUS
<1>6. /\ q \in Requests /\ q.op = "post" /\ q.document = was.document /\ q.lines = was.lines
      /\ q.number = NextNoteNumber
  BY <1>2, <1>4, <1>5 DEF Requests
<1>7. RequestSound(q)
  BY <1>2, <1>6 DEF RequestSound
<1>8. desk' = [desk EXCEPT ![c] = q] /\ UNCHANGED <<bill, note, creditable, officeVars>>
  BY <1>1, <1>5 DEF NumberNote, PayablesInv, BillsTypeOK
<1>9. \A d \in Clerks \ {c} : /\ Holding(desk[d]) => desk[d].document # q.document
                              /\ ~Numbering(desk[d])
  BY <1>1, <1>2, <1>6 DEF PayablesInv, RequestsApart, Holding, Numbering, NumberNote, NumberHeld
<1>. QED  BY <1>6, <1>7, <1>8, <1>9, DeskMoves

LEMMA OfficeSteps ==
    ASSUME PayablesInv,
           \/ CreateAccount \/ DeactivateAccount \/ ReactivateAccount
           \/ \E r \in {"customer", "supplier", "both"} : TagRole(r) \/ UpdateRole(r)
           \/ PostInvoice \/ CancelInvoice
           \/ \E c \in Clerks : Abandon(c)
           \/ UNCHANGED booksVars
    PROVE  PayablesInv' /\ BookedAsItStood
<1>1. /\ creditable \in {"draft", "posted", "cancelled"}
      /\ account \in {"none", "active", "inactive"}
      /\ role \in {"none", "customer", "supplier", "both"}
  BY DEF PayablesInv, BillsTypeOK
<1>2. CASE CreateAccount \/ DeactivateAccount \/ ReactivateAccount
  BY <1>1, <1>2, Stayed, NothingWritten
     DEF CreateAccount, DeactivateAccount, ReactivateAccount, SetAccount
<1>3. CASE \E r \in {"customer", "supplier", "both"} : TagRole(r) \/ UpdateRole(r)
  BY <1>1, <1>3, Stayed, NothingWritten DEF TagRole, UpdateRole, SetRole
<1>4. CASE PostInvoice \/ CancelInvoice
  BY <1>1, <1>4, Stayed, NothingWritten DEF PostInvoice, CancelInvoice, officeVars
<1>5. CASE \E c \in Clerks : Abandon(c)
  BY <1>1, <1>5, Left, NothingWritten DEF Abandon, officeVars
<1>6. CASE UNCHANGED booksVars
  BY <1>1, <1>6, Stayed, NothingWritten DEF booksVars, officeVars
<1>. QED  BY <1>2, <1>3, <1>4, <1>5, <1>6

LEMMA PayablesStart == ASSUME BooksInit PROVE PayablesInv
<1>1. BillsTypeOK /\ StoryInv /\ ReferenceEnteredOnce
  BY DEF BooksInit, BillsTypeOK, StoryInv, ReferenceEnteredOnce
<1>2. \A n \in Notes : NumOf(n) = 0
  BY DEF BooksInit, NumOf
<1>3. NoteNumbers = 1 .. 0
  BY <1>2, NumbersOfNotes
<1>4. NotesInv
  BY <1>2, <1>3 DEF BooksInit, NotesInv, NoDocument
<1>5. (\A c \in Clerks : RequestSound(desk[c])) /\ RequestsApart
  BY DEF BooksInit, RequestSound, RequestsApart, Holding, Numbering, AtRest
<1>. QED  BY <1>1, <1>4, <1>5 DEF PayablesInv

LEMMA PayablesStep ==
    ASSUME PayablesInv, [BillsNext \/ NotesNext]_booksVars PROVE PayablesInv' /\ BookedAsItStood
BY CreateBillStep, VoidBillStep, CommitUpdateStep, PostBillStep, CancelBillStep, ReverseEntryStep,
   CreateNoteStep, VoidNoteStep, PostNoteStep, BeginUpdateStep, LockSteps, NumberNoteStep,
   OfficeSteps DEF BillsNext, NotesNext

\* What the run checks is a part of the invariant, said of all documents at once.
LEMMA PayablesAreSound ==
    PayablesInv => BillsTypeOK /\ StatusTellsTheBooks /\ NotesNumbered /\ ReferenceEnteredOnce
<1>. SUFFICES ASSUME PayablesInv PROVE StatusTellsTheBooks /\ NotesNumbered
  BY DEF PayablesInv
<1>1. /\ \A b \in Bills : bill[b] # NoDocument =>
            bill[b].status \in {"draft", "posted", "voided", "cancelled"}
      /\ \A n \in Notes : note[n] # NoDocument =>
            note[n].status \in {"draft", "posted", "voided"}
  BY DEF PayablesInv, BillsTypeOK, BillRows, NoteRows
<1>2. StatusTellsTheBooks
  BY <1>1 DEF PayablesInv, StoryInv, Tells, StatusTellsTheBooks
<1>3. PICK k \in Nat : NoteNumbers = 1 .. k
  BY DEF PayablesInv, NotesInv
<1>4. Cardinality(1 .. k) = k
  BY FS_Interval
<1>5. NoteNumbers = 1 .. Cardinality(NoteNumbers)
  BY <1>3, <1>4
<1>6. \A n \in Notes : note[n] # NoDocument => (note[n].number # 0 <=> note[n].status = "posted")
  BY DEF PayablesInv, NotesInv, NumOf
<1>7. \A m, n \in Notes : m # n /\ note[m].status = "posted" /\ note[n].status = "posted" =>
                              note[m].number # note[n].number
  BY DEF PayablesInv, NotesInv, NumOf, NoDocument
<1>. QED  BY <1>2, <1>5, <1>6, <1>7 DEF NotesNumbered

\* Whatever edits, postings, cancellations and reversals by hand overlap, for any
\* number of bills, credit notes and clerks: what is booked is the document as it
\* stood, its status says what the books hold, the notes are numbered without
\* gaps, and a supplier's reference is entered once (bills.py, credit_notes.py).
THEOREM PayablesMatchBooksHolds == PayablesSpec => PayablesMatchBooks
<1>1. BooksInit => PayablesInv
  BY PayablesStart
<1>2. PayablesInv /\ [BillsNext \/ NotesNext]_booksVars => PayablesInv'
  BY PayablesStep
<1>3. PayablesInv /\ [BillsNext \/ NotesNext]_booksVars => [BookedAsItStood]_booksVars
  BY PayablesStep
<1>4. PayablesInv => /\ BillsTypeOK /\ StatusTellsTheBooks
                     /\ NotesNumbered /\ ReferenceEnteredOnce
  BY PayablesAreSound
<1>. QED  BY <1>1, <1>2, <1>3, <1>4, PTL DEF PayablesSpec, PayablesMatchBooks
===============================================================================
