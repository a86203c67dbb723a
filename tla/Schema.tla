-------------------------------- MODULE Schema --------------------------------
(***************************************************************************)
(* Store::open on a file that several processes open and write: the file   *)
(* is created when it is missing, then migrate() runs a fixed list of      *)
(* statements, each a transaction of its own, so that other processes run  *)
(* between two of them and a kill leaves the file half upgraded.  The      *)
(* tables are represented by one of each sort: "facts" has columns that    *)
(* CREATE TABLE lacks and a full-text index kept by triggers; "contexts"   *)
(* and "entities" have a column that is filled in for older rows; "events" *)
(* has a key with a unique index; "runs" has none of these.                *)
(***************************************************************************)
EXTENDS Naturals, FiniteSets, Sequences

CONSTANTS Servers,               \* servers opening the file
          FactRows,                \* facts that are written
          MaxOpens, MaxStops, \* bounds: opens made, processes killed
          MaxLacking,          \* bound: tables or columns an older file lacks
          MaxKeyless           \* bound: events an older program wrote

ASSUME SchemaAssumption ==
  {MaxOpens, MaxStops, MaxLacking, MaxKeyless} \subseteq Nat

VARIABLES db,         \* the file
          open,       \* by process: how far its open is
          opens, stops,
          overlapped, \* two programs have been creating or upgrading the file at once
          failed,     \* some open has returned an error
          served      \* facts written by processes that had opened the file

schemaVars == <<db, open, opens, stops, overlapped, failed, served>>

Tables == {"facts", "contexts", "events", "entities", "runs"}
Filled == {"contexts", "entities"}

\* The columns CREATE TABLE gives a table, of those that older files may lack.
Created(t) ==
  CASE t = "facts" -> {"trust"}
    [] t \in Filled -> {"source", "filled"}
    [] t = "events" -> {"key"}
    [] t = "runs" -> {"issue"}

\* The columns that ensure_*_columns adds when they are missing.
FactColumns == {"trust", "category"}
ContextColumns == {"source", "filled"}
EventColumns == {"key"}
EntityColumns == {"source", "filled"}
RunColumns == {"issue"}

Ensured(t) ==
  CASE t = "facts" -> FactColumns
    [] t = "contexts" -> ContextColumns
    [] t = "events" -> EventColumns
    [] t = "entities" -> EntityColumns
    [] t = "runs" -> RunColumns

\* migrate(), statement by statement.
St(do, t) == <<[do |-> do, table |-> t]>>
FactsPart == St("create", "facts") \o St("create", "contexts")
               \o St("columns", "facts") \o St("columns", "contexts") \o St("fill", "contexts")
EventsPart == St("create", "events") \o St("columns", "events") \o St("unique", "events")
GraphPart == St("create", "entities") \o St("columns", "entities") \o St("fill", "entities")
RunsPart == St("create", "runs") \o St("columns", "runs")
IndexPartRebuildFirst == St("index", "runs") \o St("rebuild", "facts") \o St("triggers", "facts")
IndexPart == St("index", "runs") \o St("triggers", "facts") \o St("rebuild", "facts")
Script == FactsPart \o EventsPart \o GraphPart \o RunsPart \o IndexPart

NoFile == [there |-> FALSE]
(* An empty file, as Store::open creates it.  "blank": tables with rows    *)
(* whose filled-in column is empty; "keyless": events whose key is empty.  *)
EmptyFile ==
  [there |-> TRUE, columns |-> [t \in {} |-> {}], facts |-> {}, indexed |-> {},
   triggers |-> FALSE, blank |-> {}, keyless |-> 0, unique |-> FALSE]

\* What an older file may lack: a table as a whole, or a column of it.
Lackable == {<<t, "table">> : t \in Tables \ {"facts"}}
              \cup UNION {{t} \X Ensured(t) : t \in Tables}

OlderTables(lack) == {t \in Tables : <<t, "table">> \notin lack}
OlderColumns(lack) ==
  [t \in OlderTables(lack) |-> {c \in Ensured(t) : <<t, c>> \notin lack}]
Unfilled(lack) ==
  {t \in Filled \cap OlderTables(lack) : "filled" \notin OlderColumns(lack)[t]}
Keyless(lack) ==
  IF "events" \in OlderTables(lack) /\ <<"events", "key">> \in lack THEN 0..MaxKeyless ELSE {0}

Older(lack) ==
  {[there |-> TRUE, columns |-> OlderColumns(lack), facts |-> f,
    indexed |-> IF i THEN f ELSE {}, triggers |-> i,
    blank |-> b \cup Unfilled(lack), keyless |-> k, unique |-> FALSE] :
     f \in {g \in SUBSET FactRows : Cardinality(g) <= 1}, i \in {FALSE, lack = {}},
     b \in {{}, Filled \cap OlderTables(lack)}, k \in Keyless(lack)}

OlderFiles ==
  UNION {Older(lack) : lack \in {l \in SUBSET Lackable : Cardinality(l) <= MaxLacking}}

Closed == [at |-> "closed"]

SchemaInit ==
  /\ open = [p \in Servers |-> Closed]
  /\ opens = 0 /\ stops = 0
  /\ overlapped = FALSE /\ failed = FALSE
  /\ served = {}

Opening == {p \in Servers : open[p].at \notin {"closed", "serving"}}

Steps(p, frame) == open' = [open EXCEPT ![p] = frame]

\* The process looks for the file.
Open(p, others) ==
  /\ open[p] = Closed
  /\ opens < MaxOpens
  /\ opens' = opens + 1
  /\ Steps(p, IF db.there THEN [at |-> "run", step |-> 1] ELSE [at |-> "create"])
  /\ overlapped' = (overlapped \/ others \/ Opening # {})
  /\ UNCHANGED <<db, stops, failed, served>>

OpenFails(p) == Steps(p, Closed) /\ failed' = TRUE /\ UNCHANGED db

\* create_new fails when the file has appeared since.
CreateFile(p) ==
  /\ open[p].at = "create"
  /\ IF db.there THEN OpenFails(p)
     ELSE db' = EmptyFile /\ Steps(p, [at |-> "run", step |-> 1]) /\ UNCHANGED failed
  /\ UNCHANGED <<opens, stops, overlapped, served>>

--------------------------------------------------------------------------------
Running(p, do) == open[p].at = "run" /\ Script[open[p].step].do = do
Table(p) == Script[open[p].step].table

NextStep(p) ==
  Steps(p, IF open[p].step = Len(Script) THEN [at |-> "serving"]
           ELSE [at |-> "run", step |-> open[p].step + 1])

Done(p, file) ==
  /\ db' = file
  /\ NextStep(p)
  /\ UNCHANGED <<opens, stops, overlapped, failed, served>>

WithTable(f, t, columns) == [u \in DOMAIN f \cup {t} |-> IF u = t THEN columns ELSE f[u]]

CreateTable(p) ==
  /\ Running(p, "create")
  /\ Done(p, IF Table(p) \in DOMAIN db.columns THEN db
             ELSE [db EXCEPT !.columns = WithTable(@, Table(p), Created(Table(p)))])

(* ensure_*_columns reads the columns of the table once, then adds those   *)
(* it did not find one by one; adding a column that is there is an error.  *)
ReadNoColumns(p) ==
  /\ Running(p, "columns")
  /\ Steps(p, [at |-> "add", step |-> open[p].step, left |-> Ensured(Table(p))])
  /\ UNCHANGED <<db, opens, stops, overlapped, failed, served>>
ReadColumns(p) ==
  /\ Running(p, "columns")
  /\ LET missing == Ensured(Table(p)) \ db.columns[Table(p)]
     IN IF missing = {} THEN NextStep(p)
        ELSE Steps(p, [at |-> "add", step |-> open[p].step, left |-> missing])
  /\ UNCHANGED <<db, opens, stops, overlapped, failed, served>>

AddColumn(p) ==
  /\ open[p].at = "add"
  /\ LET t == Table(p)
         c == CHOOSE x \in open[p].left : TRUE
     IN IF c \in db.columns[t] THEN OpenFails(p)
        ELSE /\ db' = [db EXCEPT !.columns[t] = @ \cup {c}]
             /\ IF open[p].left = {c} THEN NextStep(p)
                ELSE Steps(p, [open[p] EXCEPT !.left = @ \ {c}])
             /\ UNCHANGED failed
  /\ UNCHANGED <<opens, stops, overlapped, served>>

Fill(p) == Running(p, "fill") /\ Done(p, [db EXCEPT !.blank = @ \ {Table(p)}])

\* FactRows that share a key keep a unique index from being created.
Unique(p) ==
  /\ Running(p, "unique")
  /\ IF ~db.unique /\ db.keyless > 1
     THEN OpenFails(p) /\ UNCHANGED <<opens, stops, overlapped, served>>
     ELSE Done(p, [db EXCEPT !.unique = TRUE])

\* An index names a column of its table, which must be there.
Index(p) ==
  /\ Running(p, "index")
  /\ IF Ensured(Table(p)) \subseteq db.columns[Table(p)] THEN Done(p, db)
     ELSE OpenFails(p) /\ UNCHANGED <<opens, stops, overlapped, served>>

Triggers(p) == Running(p, "triggers") /\ Done(p, [db EXCEPT !.triggers = TRUE])

Rebuild(p) == Running(p, "rebuild") /\ Done(p, [db EXCEPT !.indexed = db.facts])

--------------------------------------------------------------------------------
\* A fact is written: the trigger, where there is one, indexes it.
Written(r) ==
  [db EXCEPT !.facts = @ \cup {r}, !.indexed = IF db.triggers THEN @ \cup {r} ELSE @]

RememberFact(p, r) ==
  /\ open[p].at = "serving" /\ r \notin db.facts
  /\ db' = Written(r)
  /\ served' = served \cup {r}
  /\ UNCHANGED <<open, opens, stops, overlapped, failed>>

(* An older program that still has the file writes a fact, or an event,    *)
(* whose key it does not know.                                             *)
OlderWritesFact(r) ==
  /\ db.there /\ "facts" \in DOMAIN db.columns /\ r \notin db.facts
  /\ db' = Written(r)
  /\ UNCHANGED <<open, opens, stops, overlapped, failed, served>>

OlderWritesEvent ==
  /\ db.there /\ "events" \in DOMAIN db.columns
  /\ "key" \notin db.columns["events"] \/ db.keyless > 0
  /\ ~db.unique
  /\ db.keyless < MaxKeyless
  /\ db' = [db EXCEPT !.keyless = @ + 1]
  /\ UNCHANGED <<open, opens, stops, overlapped, failed, served>>

KillServer(p) ==
  /\ open[p] # Closed
  /\ stops < MaxStops
  /\ stops' = stops + 1
  /\ Steps(p, Closed)
  /\ UNCHANGED <<db, opens, overlapped, failed, served>>

OpenNext ==
  \E p \in Servers :
    \/ CreateFile(p) \/ CreateTable(p) \/ ReadColumns(p) \/ AddColumn(p) \/ Fill(p)
    \/ Unique(p) \/ Index(p) \/ Triggers(p) \/ Rebuild(p)
    \/ \E r \in FactRows : RememberFact(p, r)
    \/ KillServer(p)

--------------------------------------------------------------------------------
Upgraded(file) ==
  /\ \A t \in Tables : t \in DOMAIN file.columns /\ Ensured(t) \subseteq file.columns[t]
  /\ file.unique /\ file.triggers
  /\ file.indexed = file.facts

(* A process serves only a file that has every table, column and unique    *)
(* index the operations rely on and whose full-text index finds every      *)
(* fact, whoever wrote it and whichever opens raced or were killed.        *)
ServedUpgraded == \A p \in Servers : open[p].at = "serving" => Upgraded(db)

(* Opening is idempotent and can be resumed: an open returns an error only *)
(* when another program was creating or upgrading the file at the same     *)
(* time, or when events of an older program share a key.                   *)
OpenFailsInRacesOnly == failed => overlapped \/ db.keyless > 1
================================================================================
