---------------------------- MODULE BooksOfAccount ----------------------------
(***************************************************************************)
(* What the journal promises its readers: an append-only book.  An entry   *)
(* is written once, into a period that is open at that moment; nothing is  *)
(* ever taken out; a correction is a new entry, and no entry is corrected  *)
(* twice.                                                                  *)
(***************************************************************************)
CONSTANTS
    Entries,    \* journal entry ids
    Periods,    \* the date ranges a tenant keeps books for
    NoEntry     \* "corrects nothing"

VARIABLES
    open,       \* the periods that accept entries now
    posted      \* the book: [entry, period, corrects]

bookVars == <<open, posted>>

Line == [entry : Entries, period : Periods, corrects : Entries \cup {NoEntry}]

Written(e)   == \E l \in posted : l.entry = e
Corrected(e) == \E l \in posted : l.corrects = e

BInit == open = {} /\ posted = {}

Open(p) ==
    /\ p \notin open
    /\ open' = open \cup {p}
    /\ UNCHANGED posted

Close(p) ==
    /\ p \in open
    /\ open' = open \ {p}
    /\ UNCHANGED posted

\* c is NoEntry, or the written and not yet corrected entry that e corrects.
Write(e, p, c) ==
    /\ p \in open
    /\ ~Written(e)
    /\ c # NoEntry => Written(c) /\ ~Corrected(c)
    /\ posted' = posted \cup {[entry |-> e, period |-> p, corrects |-> c]}
    /\ UNCHANGED open

BNext ==
    \/ \E p \in Periods : Open(p) \/ Close(p)
    \/ \E e \in Entries, p \in Periods, c \in Entries \cup {NoEntry} : Write(e, p, c)

BSpec == BInit /\ [][BNext]_bookVars
===============================================================================
