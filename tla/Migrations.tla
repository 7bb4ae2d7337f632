----------------------------- MODULE Migrations -----------------------------
(***************************************************************************)
(* Alembic walking the chain of revisions (src/product/migrations/env.py,  *)
(* src/scripts/bootstrap-db.py): a command goes up to the head, down one   *)
(* revision or down to an empty database, one revision at a time, all of   *)
(* it in one transaction.  A statement the database refuses ends the       *)
(* command, as does the death of the process, and both undo all of it.     *)
(*                                                                         *)
(* Two things make a step hard: what it drops may still be referred to,    *)
(* and a check it narrows may not admit a row that was written meanwhile.  *)
(***************************************************************************)
EXTENDS TenantSchema

VARIABLES
  revision,    \* the revision stored in alembic_version
  catalog,     \* the schemas, tables and constraints of the database
  command,     \* the command under way, with its uncommitted effects
  refused,     \* the revision whose step was refused last, 0 if none was
  callStatus   \* the status of the one call row, "none" without one

migrationVars == <<revision, catalog, command, refused, callStatus>>

NoCommand == [goal |-> -1, at |-> 0, to |-> Catalog(0)]

MigrationsTypeOK ==
  /\ revision \in 0 .. Latest
  /\ command.goal \in -1 .. Latest
  /\ command.at \in 0 .. Latest
  /\ refused \in 0 .. Latest
  /\ callStatus \in {"none", "ringing", "transferring"}

MigrationsInit ==
  /\ revision = 0
  /\ catalog = Catalog(0)
  /\ command = NoCommand
  /\ refused = 0
  /\ callStatus = "none"

-----------------------------------------------------------------------------
\* upgrade(): the schema, its tables, the keys and columns added to others,
\* then the foreign keys, each of which needs both tables and the parent's key.
Up(c, r) ==
  [schemas |-> c.schemas \cup {r.in},
   tables  |-> c.tables \cup Elements(r.tables),
   keyed   |-> c.keyed \cup (Elements(r.tables) \ r.unkeyed) \cup r.keys,
   parts   |-> c.parts \cup r.parts,
   refs    |-> c.refs \cup r.refs,
   admits  |-> c.admits \cup r.admits]

UpRefused(c, r) ==
  LET d == Up(c, r)
  IN \/ Elements(r.tables) \cap c.tables # {}
     \/ r.in \notin c.schemas /\ ~r.opens
     \/ r.parts \cap c.parts # {}
     \/ \E f \in r.refs : f.child \notin d.tables \/ f.parent \notin d.keyed

\* Mutant: the downgrade of 0050 forgets the key it had added to pages.
DownKeepsKeys(c, r) ==
  [schemas |-> IF r.opens THEN c.schemas \ {r.in} ELSE c.schemas,
   tables  |-> c.tables \ Elements(r.tables),
   keyed   |-> c.keyed \ Elements(r.tables),
   parts   |-> c.parts \ r.parts,
   refs    |-> {f \in c.refs \ r.refs : f.child \notin Elements(r.tables)},
   admits  |-> c.admits \ r.admits]

\* downgrade(): the tables in the reverse order with the foreign keys they
\* hold, the keys and columns it had added, the narrower check, the schema.
Down(c, r) ==
  [schemas |-> IF r.opens THEN c.schemas \ {r.in} ELSE c.schemas,
   tables  |-> c.tables \ Elements(r.tables),
   keyed   |-> c.keyed \ (Elements(r.tables) \cup r.keys),
   parts   |-> c.parts \ r.parts,
   refs    |-> {f \in c.refs \ r.refs : f.child \notin Elements(r.tables)},
   admits  |-> c.admits \ r.admits]

\* DROP TABLE, DROP CONSTRAINT and DROP SCHEMA come without CASCADE.
DownRefused(c, r) ==
  LET d == Down(c, r)
  IN \/ \E f \in d.refs : f.parent \notin d.keyed
     \/ r.opens /\ d.tables \cap TablesOf(r.in) # {}
     \/ callStatus \in r.admits /\ "calls" \in d.tables

-----------------------------------------------------------------------------
Start(goal) ==
  /\ command = NoCommand
  /\ goal # revision
  /\ command' = [goal |-> goal, at |-> revision, to |-> catalog]
  /\ UNCHANGED <<revision, catalog, refused, callStatus>>

Upgrade == Start(Latest)

DowngradeOne == revision > 0 /\ Start(revision - 1)

DowngradeAll == Start(0)

Refuse(n) ==
  /\ command' = NoCommand
  /\ refused' = n
  /\ UNCHANGED <<revision, catalog, callStatus>>

StepUp ==
  LET n == command.at + 1
      r == Revisions[n]
  IN /\ command # NoCommand
     /\ command.at < command.goal
     /\ IF UpRefused(command.to, r)
        THEN Refuse(n)
        ELSE /\ command' = [command EXCEPT !.at = n, !.to = Up(command.to, r)]
             /\ UNCHANGED <<revision, catalog, refused, callStatus>>

StepDown ==
  LET n == command.at
      r == Revisions[n]
  IN /\ command # NoCommand
     /\ command.at > command.goal
     /\ IF DownRefused(command.to, r)
        THEN Refuse(n)
        ELSE /\ command' = [command EXCEPT !.at = n - 1, !.to = Down(command.to, r)]
             /\ UNCHANGED <<revision, catalog, refused, callStatus>>

\* The transaction commits the catalog and alembic_version together.
Commit ==
  /\ command # NoCommand
  /\ command.at = command.goal
  /\ revision' = command.at
  /\ catalog' = command.to
  /\ callStatus' = IF "calls" \in command.to.tables THEN callStatus ELSE "none"
  /\ refused' = 0
  /\ command' = NoCommand

\* The process dies, or the connection is lost, before the commit.
Interrupt ==
  /\ command # NoCommand
  /\ command' = NoCommand
  /\ UNCHANGED <<revision, catalog, refused, callStatus>>

\* The application writes a call's status. A command that has altered the table
\* holds its lock until it ends.
WriteCall(s) ==
  /\ "calls" \in catalog.tables
  /\ s \in catalog.admits
  /\ command # NoCommand =>
       "calls" \in command.to.tables /\ command.to.admits = catalog.admits
  /\ callStatus' = s
  /\ UNCHANGED <<revision, catalog, command, refused>>

MigrationsNext ==
  \/ Upgrade \/ DowngradeOne \/ DowngradeAll
  \/ StepUp \/ StepDown \/ Commit \/ Interrupt
  \/ \E s \in {"ringing", "transferring"} : WriteCall(s)

-----------------------------------------------------------------------------
\* The catalog is what its revision says, whichever way it was reached and
\* whatever was refused or interrupted on the way: every downgrade undoes
\* exactly what its upgrade did.
CatalogIsItsRevision == catalog = Catalog(revision)

\* No step of the chain is refused by what other revisions left: the only one
\* that can be is the downgrade of 0064, by a call that is being transferred.
OnlyTransfersRefuse ==
  (refused' # refused /\ refused' # 0) =>
    /\ Revisions[refused'].admits = {"transferring"}
    /\ callStatus = "transferring"

\* A committed catalog admits the rows it holds, whatever was written while the
\* command was under way.
RowsAdmitted == callStatus = "none" \/ callStatus \in catalog.admits
=============================================================================
