---------------------------- MODULE MemoryDatabases ----------------------------
(***************************************************************************)
(* Named databases of a store whose databases live inside one image        *)
(* (store.rs, the memory_* methods): the selected database is the image    *)
(* itself and every other one is a row of its table                        *)
(* memory_database_catalog, whose snapshot is a whole image with a catalog *)
(* of its own.  A select saves the image into the catalog, reads the       *)
(* catalog, restores the target's image over everything and writes the     *)
(* catalog back one row at a time; nothing of it is a transaction.         *)
(*                                                                         *)
(* The rows of a database are abstract; the size of an image counts the    *)
(* images nested in it, which is what the snapshot limit bounds.  A step   *)
(* of a select may fail (a temporary file that cannot be written, a busy   *)
(* or full standby file), and the process may be killed when the image is  *)
(* a standby file; both leave the image as the last statement left it.     *)
(***************************************************************************)
EXTENDS Naturals, FiniteSetsExt, Functions

CONSTANTS MemNames,     \* database names
          FirstName,    \* the name a new image carries ("memory")
          MemRows,      \* what may be stored in a database
          MaxImage,     \* MAX_DATABASE_SNAPSHOT_BYTES, in images
          MaxAborts     \* bound: selects that fail or are killed half way

ASSUME MemNamesAssumption == FirstName \in MemNames

VARIABLES live,         \* the image: name, rows, catalog and size
          handle,       \* Store.memory_database_name
          saved,        \* the catalog a select holds in memory
          pc,           \* the step a select is at, and its target
          truth,        \* what the calls that returned stored: rows and archived
          aborts,       \* selects that failed or were killed
          torn          \* one of them lost the catalog it held in memory

memVars == <<live, handle, saved, pc, truth, aborts, torn>>

NoEntries == [n \in {} |-> n]
Put(f, n, v) == [k \in DOMAIN f \cup {n} |-> IF k = n THEN v ELSE f[k]]
Without(f, n) == Restrict(f, DOMAIN f \ {n})

SizeOf(cat) == 1 + MapThenSumSet(LAMBDA n : cat[n].snap.size, DOMAIN cat)
WithCatalog(img, cat) == [img EXCEPT !.cat = cat, !.size = SizeOf(cat)]
EmptyImageOf(n) == [name |-> n, rows |-> {}, cat |-> NoEntries, size |-> 1]

\* What memory_snapshot_for_database and memory_list_databases read.
Content(n) == IF n = handle THEN live.rows ELSE live.cat[n].snap.rows
Listed == {handle} \cup DOMAIN live.cat

IdleSelect == [at |-> "idle", name |-> FirstName]
NoSelect == pc = IdleSelect

MemInit ==
  /\ live = EmptyImageOf(FirstName)
  /\ handle = FirstName
  /\ saved = NoEntries
  /\ pc = IdleSelect
  /\ truth = [n \in {FirstName} |-> [rows |-> {}, archived |-> FALSE]]
  /\ aborts = 0
  /\ torn = FALSE

\* What a returned call makes true; nothing is noted once a catalog is lost.
Note(n, v) == IF torn THEN truth ELSE Put(truth, n, v)

\* Any tool that stores something in the selected database.
MemWrite(r) ==
  /\ NoSelect
  /\ r \notin live.rows
  /\ live' = [live EXCEPT !.rows = @ \cup {r}]
  /\ truth' = Note(handle, [rows |-> live'.rows, archived |-> FALSE])
  /\ UNCHANGED <<handle, saved, pc, aborts, torn>>

\* The image a new database starts from: an empty store, named.
NewSnapshot(n) == EmptyImageOf(n)

MemCreate(n) ==
  /\ NoSelect
  /\ n # handle
  /\ n \notin DOMAIN live.cat
  /\ live' = WithCatalog(live,
                Put(live.cat, n, [archived |-> FALSE, snap |-> NewSnapshot(n)]))
  /\ truth' = Note(n, [rows |-> {}, archived |-> FALSE])
  /\ UNCHANGED <<handle, saved, pc, aborts, torn>>

MemArchive(n) ==
  /\ NoSelect
  /\ n # handle
  /\ n \in DOMAIN live.cat
  /\ live' = [live EXCEPT !.cat[n].archived = TRUE]
  /\ truth' = Note(n, [rows |-> Content(n), archived |-> TRUE])
  /\ UNCHANGED <<handle, saved, pc, aborts, torn>>

\* delete_database, and the second half of a hard archive.
MemDelete(n) ==
  /\ NoSelect
  /\ n # handle
  /\ n \in DOMAIN live.cat
  /\ live' = WithCatalog(live, Without(live.cat, n))
  /\ truth' = Without(truth, n)
  /\ UNCHANGED <<handle, saved, pc, aborts, torn>>

\* A plausible bug: INSERT OR IGNORE, which keeps the row a failed select left.
SaveCurrentOnce ==
  IF handle \in DOMAIN live.cat THEN live.cat
  ELSE Put(live.cat, handle, [archived |-> FALSE, snap |-> live])

\* memory_save_current: INSERT, or UPDATE of the row a failed select left.
SaveCurrent == Put(live.cat, handle, [archived |-> FALSE, snap |-> live])

\* The rows a select will write back: every database but the target.
Kept(cat, target) == Without(cat, target)

(* memory_select_database up to memory_catalog.  A snapshot beyond the     *)
(* limit refuses the call before anything is written.                      *)
MemSelect(n) ==
  /\ NoSelect
  /\ n # handle
  /\ n \in DOMAIN live.cat
  /\ ~live.cat[n].archived
  /\ live.size <= MaxImage
  /\ LET cat == SaveCurrent
     IN /\ live' = WithCatalog(live, cat)
        /\ saved' = Kept(cat, n)
  /\ pc' = [at |-> "restore", name |-> n]
  /\ UNCHANGED <<handle, truth, aborts, torn>>

\* restore_snapshot_bytes: the image of the target, catalog and name included.
MemRestore ==
  /\ pc.at = "restore"
  /\ LET image == live.cat[pc.name].snap
     IN live' = image /\ handle' = image.name
  /\ pc' = [pc EXCEPT !.at = "clear"]
  /\ UNCHANGED <<saved, truth, aborts, torn>>

\* memory_restore_catalog, the DELETE.
MemClear ==
  /\ pc.at = "clear"
  /\ live' = WithCatalog(live, NoEntries)
  /\ pc' = [pc EXCEPT !.at = "insert"]
  /\ UNCHANGED <<handle, saved, truth, aborts, torn>>

\* memory_restore_catalog, one INSERT.
MemInsert(n) ==
  /\ pc.at = "insert"
  /\ n \in DOMAIN saved
  /\ live' = WithCatalog(live, Put(live.cat, n, saved[n]))
  /\ saved' = Without(saved, n)
  /\ UNCHANGED <<handle, pc, truth, aborts, torn>>

\* set_memory_database_name, after the last row.
MemName ==
  /\ pc.at = "insert"
  /\ saved = NoEntries
  /\ live' = [live EXCEPT !.name = pc.name]
  /\ handle' = pc.name
  /\ pc' = IdleSelect
  /\ UNCHANGED <<saved, truth, aborts, torn>>

(* A statement of the select fails, or the process is killed and its       *)
(* standby file opened again: what the select held in memory is gone.      *)
MemAbort ==
  /\ ~NoSelect
  /\ aborts < MaxAborts
  /\ aborts' = aborts + 1
  /\ torn' = (torn \/ pc.at = "clear" \/ (pc.at = "insert" /\ saved # NoEntries))
  /\ handle' = live.name
  /\ saved' = NoEntries
  /\ pc' = IdleSelect
  /\ truth' = IF torn' THEN NoEntries ELSE truth
  /\ UNCHANGED live

MemNext ==
  \/ \E r \in MemRows : MemWrite(r)
  \/ \E n \in MemNames :
       MemCreate(n) \/ MemArchive(n) \/ MemDelete(n) \/ MemSelect(n) \/ MemInsert(n)
  \/ MemRestore \/ MemClear \/ MemName \/ MemAbort

\* Between calls, and unless a select lost the catalog it held, every database
\* is listed once, holds what was stored in it while it was selected, and is
\* archived exactly when the last call about it said so: nothing leaks from one
\* database into another through nested images, and a select that fails before
\* its restore or after its last row costs nothing.
DatabasesKept ==
  NoSelect /\ ~torn =>
    /\ Listed = DOMAIN truth
    /\ \A n \in Listed : Content(n) = truth[n].rows
    /\ \A n \in DOMAIN live.cat \ {handle} : live.cat[n].archived = truth[n].archived
    /\ ~truth[handle].archived

================================================================================
