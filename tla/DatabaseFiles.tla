----------------------------- MODULE DatabaseFiles -----------------------------
(***************************************************************************)
(* Named databases of a file-backed store (store.rs): one SQLite file per  *)
(* name in a directory that several processes share, an archived database  *)
(* being the same file under another name.  Every operation looks at the   *)
(* directory first and acts afterwards, and Store::open creates the file   *)
(* it does not find.                                                       *)
(*                                                                         *)
(* A file is a number; names are links to files.  SQLite keeps committed   *)
(* rows in a second file beside the name (<name>.db-wal) until the last    *)
(* connection closes; a rename of the database leaves it where it is, and  *)
(* a database file created empty discards the one it finds (external:      *)
(* SQLite's write-ahead log).                                              *)
(***************************************************************************)
EXTENDS Naturals

CONSTANTS Procs,       \* processes of the server over one directory
          FileNames,   \* database names
          FileRows,    \* what may be stored in a database
          MaxFiles,    \* bound: database files ever created
          MaxKills     \* bound: kills of a process

ASSUME FilesAssumption == MaxFiles \in Nat

Files == 1..MaxFiles
None == 0              \* no file; for a process, the store's default database

VARIABLES link,        \* <name>.db
          arch,        \* <name>.db.archived
          walAt,       \* <name>.db-wal: the file whose log it is
          rows, wal,   \* by file: rows in the file, rows in its log
          made,        \* files created so far
          gone,        \* files a confirmed call deleted
          sel,         \* by process: the name it selected, None for the default
          conn,        \* by process: the file its connection holds
          doing,       \* by process: the operation between look and act
          overtaken,   \* has a name changed between another's look at it and its act
          kills

fileVars == <<link, arch, walAt, rows, wal, made, gone, sel, conn, doing, overtaken, kills>>

Resting == [op |-> "idle", name |-> None]

FilesInit ==
  /\ link = [n \in FileNames |-> None]
  /\ arch = [n \in FileNames |-> None]
  /\ walAt = [n \in FileNames |-> None]
  /\ rows = [f \in Files |-> {}]
  /\ wal = [f \in Files |-> {}]
  /\ made = 0
  /\ gone = {}
  /\ sel = [p \in Procs |-> None]
  /\ conn = [p \in Procs |-> None]
  /\ doing = [p \in Procs |-> Resting]
  /\ overtaken = FALSE
  /\ kills = 0

Exists(n) == link[n] # None
Archived(n) == arch[n] # None
IsActive(p, n) == sel[p] = n

\* The looks of one operation: what create, select, archive, delete and backup
\* of a name require of the directory before they touch it.
CreateOverArchived(n) == ~Exists(n)   \* a plausible bug: the live name only
CreateAllowed(n) == ~Exists(n) /\ ~Archived(n)
Allowed(p, op, n) ==
  CASE op = "create" -> CreateAllowed(n)
    [] op = "select" -> Exists(n)
    [] op = "archive" -> Exists(n) /\ ~IsActive(p, n)
    [] op = "delete" -> ~IsActive(p, n) /\ (Exists(n) \/ Archived(n))
    [] op = "backup" -> Exists(n)

Operations == {"create", "select", "archive", "delete", "backup"}

Look(p, op, n) ==
  /\ doing[p] = Resting
  /\ Allowed(p, op, n)
  /\ doing' = [doing EXCEPT ![p] = [op |-> op, name |-> n]]
  /\ UNCHANGED <<link, arch, walAt, rows, wal, made, gone, sel, conn, overtaken, kills>>

\* Store::open of a name: the file there, or a new one whose log is empty.
Opened(n) == IF Exists(n) THEN link[n] ELSE made + 1
OpenLinks(n) ==
  LET f == Opened(n)
  IN /\ f \in Files
     /\ link' = [link EXCEPT ![n] = f]
     /\ walAt' = [walAt EXCEPT ![n] = f]
     /\ made' = IF Exists(n) THEN made ELSE f

\* A connection to f closes: the last one moves the log into the file.
Holders(f) == {p \in Procs : conn[p] = f}
Checkpoint(f, others) ==
  IF f = None \/ others # {} THEN UNCHANGED <<rows, wal>>
  ELSE /\ rows' = [rows EXCEPT ![f] = @ \cup wal[f]]
       /\ wal' = [wal EXCEPT ![f] = {}]

Doing(p, op) == doing[p].op = op
Finish(p) == doing' = [doing EXCEPT ![p] = Resting]

\* The operation of p acts on its name, which another may have looked at.
Overtakes(p, n) ==
  /\ <<link'[n], arch'[n]>> # <<link[n], arch[n]>>
  /\ \E q \in Procs \ {p} : doing[q] # Resting /\ doing[q].name = n
Acts(p) ==
  /\ overtaken' = (overtaken \/ Overtakes(p, doing[p].name))
  /\ Finish(p)

\* create_database opens the file and drops the store at once; backup_database
\* of a database that is not selected does the same around VACUUM INTO.
OpenAndClose(p) ==
  LET n == doing[p].name
  IN /\ Doing(p, "create") \/ (Doing(p, "backup") /\ ~IsActive(p, n))
     /\ OpenLinks(n)
     /\ Checkpoint(Opened(n), Holders(Opened(n)))
     /\ UNCHANGED <<arch, gone, sel, conn, kills>>
     /\ Acts(p)

\* backup_database of the selected database reads through its own connection.
BackupSelected(p) ==
  /\ Doing(p, "backup")
  /\ IsActive(p, doing[p].name)
  /\ Finish(p)
  /\ UNCHANGED <<link, arch, walAt, rows, wal, made, gone, sel, conn, overtaken, kills>>

\* select_database: the new connection first, then the previous one is dropped.
SelectNamed(p) ==
  LET n == doing[p].name
      f == Opened(n)
  IN /\ Doing(p, "select")
     /\ OpenLinks(n)
     /\ IF conn[p] = f THEN UNCHANGED <<rows, wal>>
        ELSE Checkpoint(conn[p], Holders(conn[p]) \ {p})
     /\ conn' = [conn EXCEPT ![p] = f]
     /\ sel' = [sel EXCEPT ![p] = n]
     /\ UNCHANGED <<arch, gone, kills>>
     /\ Acts(p)

\* select_database("current"), and the tool reset_database with no name.
SelectDefault(p) ==
  /\ doing[p] = Resting
  /\ sel[p] # None
  /\ Checkpoint(conn[p], Holders(conn[p]) \ {p})
  /\ conn' = [conn EXCEPT ![p] = None]
  /\ sel' = [sel EXCEPT ![p] = None]
  /\ UNCHANGED <<link, arch, walAt, made, gone, doing, overtaken, kills>>

\* fs::rename: fails when the name is gone, replaces an archived file that is there.
RenameToArchive(p) ==
  LET n == doing[p].name
  IN /\ Doing(p, "archive")
     /\ IF Exists(n)
        THEN /\ arch' = [arch EXCEPT ![n] = link[n]]
             /\ link' = [link EXCEPT ![n] = None]
        ELSE UNCHANGED <<arch, link>>
     /\ Acts(p)
     /\ UNCHANGED <<walAt, rows, wal, made, gone, sel, conn, kills>>

\* delete_database, and the second half of a hard archive: the named file, or
\* else the archived one.
Remove(p) ==
  LET n == doing[p].name
  IN /\ Doing(p, "delete")
     /\ IF Exists(n)
        THEN /\ link' = [link EXCEPT ![n] = None]
             /\ gone' = gone \cup {link[n]}
             /\ UNCHANGED arch
        ELSE /\ arch' = [arch EXCEPT ![n] = None]
             /\ gone' = gone \cup ({arch[n]} \ {None})
             /\ UNCHANGED link
     /\ Acts(p)
     /\ UNCHANGED <<walAt, rows, wal, made, sel, conn, kills>>

\* A tool stores something in the database its process has selected.
WriteRow(p, r) ==
  /\ doing[p] = Resting
  /\ conn[p] # None
  /\ r \notin rows[conn[p]] \cup wal[conn[p]]
  /\ wal' = [wal EXCEPT ![conn[p]] = @ \cup {r}]
  /\ UNCHANGED <<link, arch, walAt, rows, made, gone, sel, conn, doing, overtaken, kills>>

\* The process is killed and started again: its connection closes without a
\* checkpoint and the new one is to the default database.
KillProcess(p) ==
  /\ kills < MaxKills
  /\ kills' = kills + 1
  /\ sel' = [sel EXCEPT ![p] = None]
  /\ conn' = [conn EXCEPT ![p] = None]
  /\ Finish(p)
  /\ UNCHANGED <<link, arch, walAt, rows, wal, made, gone, overtaken>>

FilesNext ==
  \E p \in Procs :
    \/ \E op \in Operations, n \in FileNames : Look(p, op, n)
    \/ OpenAndClose(p) \/ BackupSelected(p) \/ SelectNamed(p) \/ SelectDefault(p)
    \/ RenameToArchive(p) \/ Remove(p) \/ KillProcess(p)
    \/ \E r \in FileRows : WriteRow(p, r)

\* A row that was acknowledged and not deleted is in a database a name still
\* leads to, live or archived: in the file, or in a log that lies beside the name
\* or that a process holds open.  Kills, archives and deletes by one process of a
\* database another has selected, logs left by a kill, and operations of several
\* processes that interleave are all included, until one changes a name that
\* another has looked at and not yet acted on, which the code does not prevent.
SoftOpsReversible ==
  ~overtaken =>
    \A f \in 1..made \ gone :
      \E n \in FileNames :
        /\ f \in {link[n], arch[n]}
        /\ wal[f] # {} => walAt[n] = f \/ Holders(f) # {}

\* The archived file of a name is never replaced by another: once archived, a
\* file stays the archived one until it is deleted.  Fails when a rename was
\* overtaken by another process: a known limit, see the README.
ArchiveNotClobbered ==
  [][\A n \in FileNames : Archived(n) => arch'[n] \in {arch[n], None}]_fileVars

================================================================================
