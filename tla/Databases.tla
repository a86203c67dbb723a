------------------------------- MODULE Databases -------------------------------
(***************************************************************************)
(* The database files and images of Store.  Every database operation       *)
(* begins by asking whether the store carries a catalog of images          *)
(* (memory_database_name), and is one of two different algorithms from     *)
(* there on; what happens to one file while it is opened, upgraded or      *)
(* migrated is independent of both.  A behaviour is of one kind.           *)
(***************************************************************************)
EXTENDS MemoryDatabases, DatabaseFiles, Migration

VARIABLE kind      \* catalog of images, directory of files, or one file

vars == <<kind, memVars, fileVars, schemaVars, moveVars>>

Init ==
  /\ kind \in {"images", "files", "opening"}
  /\ MemInit
  /\ FilesInit
  /\ IF kind = "opening" THEN MigrationInit ELSE NoMigration

Next ==
  /\ UNCHANGED kind
  /\ \/ kind = "images" /\ MemNext /\ UNCHANGED <<fileVars, schemaVars, moveVars>>
     \/ kind = "files" /\ FilesNext /\ UNCHANGED <<memVars, schemaVars, moveVars>>
     \/ kind = "opening" /\ MigrationNext /\ UNCHANGED <<memVars, fileVars>>

Spec == Init /\ [][Next]_vars
================================================================================
