---------------------------- MODULE SchemaAdoption ----------------------------
(***************************************************************************)
(* open_database (local_codex/database.py) by several processes on one      *)
(* file: a router, another one that starts at the same time, and a command  *)
(* that reads statistics.  Each statement commits by itself; between two of *)
(* them others run, and a process may die or SQLite may fail.               *)
(***************************************************************************)
EXTENDS Integers

CONSTANT Opener  \* processes that open the file

VARIABLES
  version, \* PRAGMA user_version of the file
  tables,  \* what its tables are
  backup,  \* the file <name>.schema-0.bak: none, or one with the tables in it
  copies,  \* what the user has put away of it
  stage,   \* stage[p]: the statement p comes to
  read,    \* read[p]: the version p has read
  harmed   \* history: a start died in open_database, or two were in it at once

adoptionVars == <<version, tables, backup, copies, stage, read, harmed>>

SchemaVersion == 1

\* "legacy" are populated tables from before versions were recorded.
Tables  == SUBSET {"legacy", "own", "newer"}
Opening == {"list", "check", "copy", "mark", "wal"}

AdoptionTypeOK ==
  /\ version \in 0..2
  /\ tables \in Tables
  /\ backup \subseteq Tables /\ \A one, other \in backup : one = other
  /\ copies \subseteq Tables
  /\ stage \in [Opener -> {"down", "refused", "create", "up"} \cup Opening]
  /\ read \in [Opener -> 0..2]
  /\ harmed \in BOOLEAN

\* A new file, one that older releases left, or one of a newer release.
AdoptionInit ==
  /\ \/ version = 0 /\ tables \in {{}, {"legacy"}} /\ backup = {}
     \/ version = 1 /\ tables = {"legacy", "own"} /\ backup = {{"legacy"}}
     \/ version = 2 /\ tables = {"newer"} /\ backup = {}
  /\ copies = {}
  /\ stage = [p \in Opener |-> "down"]
  /\ read = [p \in Opener |-> 0]
  /\ harmed = FALSE

-----------------------------------------------------------------------------
Goto(p, place) == stage' = [stage EXCEPT ![p] = place]

ReadVersion(p) ==
  /\ stage[p] = "down"
  /\ read' = [read EXCEPT ![p] = version]
  /\ Goto(p, IF version > SchemaVersion THEN "refused"
             ELSE IF version < SchemaVersion THEN "list" ELSE "wal")
  /\ harmed' = (harmed \/ \E q \in Opener : stage[q] \in Opening)
  /\ UNCHANGED <<version, tables, backup, copies>>

ListTables(p) ==
  /\ stage[p] = "list"
  /\ Goto(p, IF tables # {} THEN "check" ELSE "mark")
  /\ UNCHANGED <<version, tables, backup, copies, read, harmed>>

\* Mutant: the version is recorded before the copy.
OpenBackupMarked(p) ==
  /\ stage[p] = "check" /\ backup = {}
  /\ backup' = {{}} /\ version' = SchemaVersion
  /\ Goto(p, "copy")
  /\ UNCHANGED <<tables, copies, read, harmed>>
\* backup_path.exists(), and sqlite3.connect, which creates an empty file.
OpenBackup(p) ==
  /\ stage[p] = "check" /\ backup = {}
  /\ backup' = {{}}
  /\ Goto(p, "copy")
  /\ UNCHANGED <<version, tables, copies, read, harmed>>
RefuseBackup(p) ==
  /\ stage[p] = "check" /\ backup # {}
  /\ Goto(p, "refused")
  /\ UNCHANGED <<version, tables, backup, copies, read, harmed>>

\* database.backup copies all pages in one transaction.
CopyTables(p) ==
  /\ stage[p] = "copy"
  /\ backup' = {tables}
  /\ Goto(p, "mark")
  /\ UNCHANGED <<version, tables, copies, read, harmed>>

MarkVersion(p) ==
  /\ stage[p] = "mark"
  /\ version' = SchemaVersion
  /\ Goto(p, "wal")
  /\ UNCHANGED <<tables, backup, copies, read, harmed>>

SwitchJournal(p) ==
  /\ stage[p] = "wal"
  /\ Goto(p, "create")
  /\ UNCHANGED <<version, tables, backup, copies, read, harmed>>

\* CREATE TABLE IF NOT EXISTS of the two stores.
CreateTables(p) ==
  /\ stage[p] = "create"
  /\ tables' = tables \cup {"own"}
  /\ Goto(p, "up")
  /\ UNCHANGED <<version, backup, copies, read, harmed>>

\* A process dies, or SQLite raises and the file is closed, or a process ends.
Stop(p) ==
  /\ stage[p] # "down"
  /\ Goto(p, "down")
  /\ harmed' = (harmed \/ stage[p] \in Opening)
  /\ UNCHANGED <<version, tables, backup, copies, read>>

\* "inspect it before retrying": the user puts the file away, while nothing starts.
PutBackupAway ==
  /\ backup # {} /\ \A p \in Opener : stage[p] \in {"down", "refused"}
  /\ \E p \in Opener : stage[p] = "refused"
  /\ copies' = copies \cup backup /\ backup' = {}
  /\ UNCHANGED <<version, tables, stage, read, harmed>>

AdoptionNext ==
  \/ \E p \in Opener :
       \/ ReadVersion(p) \/ ListTables(p) \/ OpenBackup(p) \/ RefuseBackup(p) \/ CopyTables(p)
       \/ MarkVersion(p) \/ SwitchJournal(p) \/ CreateTables(p) \/ Stop(p)
  \/ PutBackupAway

AdoptionSpec == AdoptionInit /\ [][AdoptionNext]_adoptionVars

-----------------------------------------------------------------------------
\* Whoever dies or races whom: legacy tables whose version is recorded have a whole copy, a
\* newer database is left alone, and a start is refused for the backup only if an earlier
\* one died in open_database or another one was in it at the same time; the tables are
\* there then.
AdoptionIsRecoverable ==
  /\ version = SchemaVersion /\ "legacy" \in tables =>
       \E copy \in copies \cup backup : "legacy" \in copy
  /\ "newer" \in tables => version = 2 /\ tables = {"newer"} /\ backup = {}
  /\ \A p \in Opener :
       stage[p] = "refused" /\ read[p] <= SchemaVersion => harmed /\ tables # {}
=============================================================================
