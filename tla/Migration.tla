------------------------------- MODULE Migration -------------------------------
(***************************************************************************)
(* The migrate command: it copies an older database into a file that must  *)
(* not exist yet, upgrades the copy in private, compares it with what it   *)
(* read of the source and publishes it by a hard link.  The target is the  *)
(* file db that servers open, so that an open and a migration, or two      *)
(* migrations, may both find it missing.  The source stays in use by the   *)
(* older program; it is read in one transaction.                           *)
(***************************************************************************)
EXTENDS Schema

CONSTANTS Movers         \* processes running the command

VARIABLES source,        \* the older database
          move,          \* by mover: what it has read and copied
          temporaries,   \* movers whose private copy is on disk
          published      \* facts of the copy that a migration published

moveVars == <<source, move, temporaries, published>>

Waiting == [at |-> "waiting"]
Over == [at |-> "over"]

NothingYet ==
  /\ SchemaInit
  /\ move = [m \in Movers |-> Waiting]
  /\ temporaries = {} /\ published = {}

\* Either servers find an older file, or there is none and one is migrated.
MigrationInit ==
  /\ NothingYet
  /\ \/ db \in OlderFiles /\ source = NoFile
     \/ db = NoFile /\ source \in OlderFiles
NoMigration == NothingYet /\ db = NoFile /\ source = NoFile

Moving == {m \in Movers : move[m].at \notin {"waiting", "over"}}
Moves(m, frame) == move' = [move EXCEPT ![m] = frame]

\* validate_paths.
Validate(m) ==
  /\ move[m] = Waiting
  /\ source.there
  /\ Moves(m, IF db.there THEN Over ELSE [at |-> "copy"])
  /\ overlapped' = (overlapped \/ Opening # {})
  /\ UNCHANGED <<db, open, opens, stops, failed, served, source, temporaries, published>>

\* Store::open on the copy, which no other process knows of.
UpgradedCopy(file) ==
  [file EXCEPT !.columns = [t \in Tables |-> Ensured(t)],
               !.indexed = file.facts, !.triggers = TRUE, !.unique = TRUE, !.blank = {}]

(* What the fingerprint sees: the rows of the source's tables, in the      *)
(* columns the source has.                                                 *)
Fingerprint(file, columns) ==
  <<file.facts, {t \in DOMAIN columns \cap file.blank : "filled" \in columns[t]}>>

Matches(snapshot, copy) ==
  Fingerprint(snapshot, snapshot.columns) = Fingerprint(copy, snapshot.columns)

(* The copy is made, upgraded and compared: nothing of this is seen by     *)
(* others, and the source is read as it is at one moment.                  *)
Copy(m) ==
  /\ move[m].at = "copy"
  /\ LET copy == UpgradedCopy(source)
         fails == source.keyless > 1 \/ ~Matches(source, copy)
     IN /\ Moves(m, IF fails THEN Over ELSE [at |-> "link", copy |-> copy])
        /\ temporaries' = IF fails THEN temporaries ELSE temporaries \cup {m}
  /\ UNCHANGED <<schemaVars, source, published>>

\* hard_link refuses a target that exists; rename would replace it.
LinkAlways(m) ==
  /\ move[m].at = "link"
  /\ db' = move[m].copy /\ published' = published \cup db'.facts
  /\ Moves(m, [at |-> "unlink"])
  /\ UNCHANGED <<open, opens, stops, overlapped, failed, served, source, temporaries>>
Link(m) ==
  /\ move[m].at = "link"
  /\ IF db.there
     THEN /\ Moves(m, Over) /\ temporaries' = temporaries \ {m}
          /\ UNCHANGED <<db, published>>
     ELSE /\ Moves(m, [at |-> "unlink"])
          /\ db' = move[m].copy /\ published' = published \cup db'.facts
          /\ UNCHANGED temporaries
  /\ UNCHANGED <<open, opens, stops, overlapped, failed, served, source>>

Unlink(m) ==
  /\ move[m].at = "unlink"
  /\ temporaries' = temporaries \ {m}
  /\ Moves(m, Over)
  /\ UNCHANGED <<schemaVars, source, published>>

\* A killed migration leaves its private copy behind, linked or not.
KillMover(m) ==
  /\ m \in Moving
  /\ stops < MaxStops
  /\ stops' = stops + 1
  /\ Moves(m, Over)
  /\ UNCHANGED <<db, open, opens, overlapped, failed, served, source, temporaries, published>>

\* The older program goes on with the source.
SourceWritten(r) ==
  /\ source.there /\ r \notin source.facts
  /\ source' = [source EXCEPT !.facts = @ \cup {r}]
  /\ UNCHANGED <<schemaVars, move, temporaries, published>>

MigrationNext ==
  \/ /\ \/ OpenNext
        \/ \E p \in Servers : Open(p, Moving # {})
        \/ /\ ~source.there
           /\ OlderWritesEvent \/ \E r \in FactRows : OlderWritesFact(r)
     /\ UNCHANGED moveVars
  \/ \E m \in Movers : Validate(m) \/ Copy(m) \/ Link(m) \/ Unlink(m) \/ KillMover(m)
  \/ \E r \in FactRows : SourceWritten(r)

--------------------------------------------------------------------------------
(* Whatever is in the target stays: neither what a migration published nor *)
(* what a server that had opened the file answered for is replaced by a    *)
(* migration that ends later.                                              *)
TargetKept == db.there => published \cup served \subseteq db.facts
================================================================================
