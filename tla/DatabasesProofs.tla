--------------------------- MODULE DatabasesProofs ---------------------------
(***************************************************************************)
(* What becomes of databases, for any number of processes, names, files    *)
(* and kills.                                                              *)
(***************************************************************************)
EXTENDS Databases, SequenceTheorems, TLAPS

-----------------------------------------------------------------------------
(* A directory in which no name changed between the look and the act of    *)
(* another process.  A name is live or archived, not both, its log is that *)
(* of its file, and every operation under way finds what it looked for.    *)
Looked(op, n) ==
    /\ n \in FileNames
    /\ op = "create" => ~Exists(n) /\ ~Archived(n)
    /\ op \in {"select", "archive", "backup"} => Exists(n)
    /\ op = "delete" => Exists(n) \/ Archived(n)

FilesTyped ==
    /\ made \in Nat
    /\ link \in [FileNames -> Nat] /\ arch \in [FileNames -> Nat] /\ walAt \in [FileNames -> Nat]
    /\ \A n \in FileNames : link[n] <= made /\ arch[n] <= made
    /\ DOMAIN doing = Procs

NamesWhole ==
    \A n \in FileNames :
        /\ ~ (Exists(n) /\ Archived(n))
        /\ Exists(n) => walAt[n] = link[n]
        /\ Archived(n) => walAt[n] = arch[n]

FilesNamed == \A f \in 1..made \ gone : \E n \in FileNames : f \in {link[n], arch[n]}

LookHolds ==
    \A p \in Procs : doing[p] # Resting => Looked(doing[p].op, doing[p].name)

FilesWhole == FilesTyped /\ NamesWhole /\ FilesNamed /\ LookHolds
FilesInv == overtaken \in BOOLEAN /\ (overtaken = FALSE => FilesWhole)

(* An empty directory.                                                     *)
LEMMA FilesStart == FilesInit => FilesInv
<1> SUFFICES ASSUME FilesInit PROVE FilesWhole
  BY DEF FilesInit, FilesInv
<1>1. FilesTyped
  BY DEF FilesInit, FilesTyped, None
<1>2. NamesWhole
  BY DEF FilesInit, NamesWhole, Exists, Archived
<1>3. FilesNamed
  BY DEF FilesInit, FilesNamed
<1>4. LookHolds
  BY DEF FilesInit, LookHolds
<1> QED
  BY <1>1, <1>2, <1>3, <1>4 DEF FilesWhole

(* Opening a name: the file it has, or a new one when it has none.         *)
LEMMA OpenedFacts ==
    ASSUME FilesWhole, NEW n \in FileNames, OpenLinks(n), ~Archived(n), UNCHANGED <<arch, gone>>
    PROVE  /\ made' \in Nat /\ link' \in [FileNames -> Nat] /\ arch' \in [FileNames -> Nat]
           /\ walAt' \in [FileNames -> Nat]
           /\ \A m \in FileNames : link'[m] <= made' /\ arch'[m] <= made'
           /\ NamesWhole' /\ FilesNamed'
<1> USE DEF FilesWhole, FilesTyped
<1>1. PICK f : f = Opened(n)
  OBVIOUS
<1>2. /\ f \in Files /\ f \in Nat
      /\ link' = [link EXCEPT ![n] = f] /\ walAt' = [walAt EXCEPT ![n] = f]
      /\ made' = IF Exists(n) THEN made ELSE f
  BY <1>1, FilesAssumption DEF OpenLinks, Files
<1>3. f = IF Exists(n) THEN link[n] ELSE made + 1
  BY <1>1 DEF Opened
<1>4. f # None
  BY <1>3 DEF Exists, None
<1>5. made' \in Nat /\ made <= made' /\ f <= made'
  BY <1>2, <1>3
<1>6. \A m \in FileNames : link'[m] = IF m = n THEN f ELSE link[m]
  BY <1>2
<1>7. \A m \in FileNames : walAt'[m] = IF m = n THEN f ELSE walAt[m]
  BY <1>2
<1>8. \A m \in FileNames : link'[m] <= made' /\ arch'[m] <= made'
  <2> SUFFICES ASSUME NEW m \in FileNames PROVE link'[m] <= made' /\ arch'[m] <= made'
    OBVIOUS
  <2>1. link[m] \in Nat /\ arch[m] \in Nat /\ link[m] <= made /\ arch[m] <= made
    OBVIOUS
  <2> QED BY <1>5, <1>6, <2>1
<1>9. NamesWhole'
  BY <1>6, <1>7, <1>4 DEF NamesWhole, Exists, Archived
<1>10. FilesNamed'
  <2> SUFFICES ASSUME NEW g \in 1..made', g \notin gone
               PROVE  \E m \in FileNames : g \in {link'[m], arch'[m]}
    BY DEF FilesNamed
  <2>1. CASE g = f
    BY <2>1, <1>6
  <2>2. CASE g # f
    <3>1. g \in 1..made
      BY <2>2, <1>2, <1>3
    <3>2. PICK m \in FileNames : g \in {link[m], arch[m]}
      BY <3>1 DEF FilesNamed
    <3>3. m # n \/ g = arch[m]
      BY <3>2, <2>2, <1>3, <3>1 DEF Exists, None
    <3> QED BY <3>2, <3>3, <1>6
  <2> QED BY <2>1, <2>2
<1> QED
  BY <1>2, <1>5, <1>8, <1>9, <1>10

(* What is left alone keeps the invariant; doing is cleared by an action.  *)
LEMMA FilesLeft ==
    ASSUME FilesWhole, UNCHANGED <<link, arch, walAt, made, gone>>
    PROVE  /\ NamesWhole' /\ FilesNamed'
           /\ DOMAIN doing' = Procs => FilesTyped'
<1> QED
  BY DEF FilesWhole, FilesTyped, NamesWhole, FilesNamed, Exists, Archived

(* An operation that ends leaves the others what they looked at, unless it *)
(* changed their name, in which case they were overtaken.                  *)
LEMMA Finished ==
    ASSUME FilesWhole, NEW p \in Procs, Finish(p)
    PROVE  /\ DOMAIN doing' = Procs
           /\ \A q \in Procs : doing'[q] = IF q = p THEN Resting ELSE doing[q]
           /\ UNCHANGED <<link, arch>> => LookHolds'
<1>1. DOMAIN doing' = Procs /\ \A q \in Procs : doing'[q] = IF q = p THEN Resting ELSE doing[q]
  BY DEF Finish, FilesWhole, FilesTyped
<1>2. ASSUME UNCHANGED <<link, arch>> PROVE LookHolds'
  BY <1>1, <1>2 DEF FilesWhole, LookHolds, Looked, Exists, Archived
<1> QED
  BY <1>1, <1>2

LEMMA Acted ==
    ASSUME FilesWhole, NEW p \in Procs, Acts(p), overtaken' = FALSE,
           \A n \in FileNames \ {doing[p].name} : link'[n] = link[n] /\ arch'[n] = arch[n]
    PROVE  DOMAIN doing' = Procs /\ LookHolds'
<1>1. DOMAIN doing' = Procs /\ \A q \in Procs : doing'[q] = IF q = p THEN Resting ELSE doing[q]
  BY Finished DEF Acts
<1>2. ~ Overtakes(p, doing[p].name)
  BY DEF Acts
<1>3. ASSUME NEW q \in Procs, doing'[q] # Resting PROVE Looked(doing[q].op, doing[q].name)'
  <2>1. q # p /\ doing'[q] = doing[q] /\ doing[q] # Resting
    BY <1>1, <1>3
  <2>2. PICK n : n = doing[q].name
    OBVIOUS
  <2>3. Looked(doing[q].op, n)
    BY <2>1, <2>2 DEF FilesWhole, LookHolds
  <2>4. link'[n] = link[n] /\ arch'[n] = arch[n]
    <3>1. CASE n = doing[p].name
      BY <1>2, <2>1, <2>2, <3>1 DEF Overtakes
    <3>2. CASE n # doing[p].name
      BY <2>3, <3>2 DEF Looked
    <3> QED BY <3>1, <3>2
  <2> QED BY <2>1, <2>2, <2>3, <2>4 DEF Looked, Exists, Archived
<1> QED
  BY <1>1, <1>3 DEF LookHolds

(* Every step keeps it.                                                    *)
LEMMA FilesStep ==
    ASSUME FilesInv, FilesNext
    PROVE  FilesInv'
<1>o. overtaken' \in BOOLEAN /\ (overtaken' = FALSE => overtaken = FALSE)
  BY DEF FilesInv, FilesNext, Look, OpenAndClose, BackupSelected, SelectNamed, SelectDefault,
         RenameToArchive, Remove, KillProcess, WriteRow, Acts
<1> SUFFICES ASSUME overtaken' = FALSE, FilesWhole PROVE FilesWhole'
  BY <1>o DEF FilesInv
<1> USE DEF FilesWhole
<1>0. PICK p \in Procs :
        \/ \E op \in Operations, n \in FileNames : Look(p, op, n)
        \/ OpenAndClose(p) \/ BackupSelected(p) \/ SelectNamed(p) \/ SelectDefault(p)
        \/ RenameToArchive(p) \/ Remove(p) \/ KillProcess(p)
        \/ \E r \in FileRows : WriteRow(p, r)
  BY DEF FilesNext
<1>1. ASSUME NEW op \in Operations, NEW n \in FileNames, Look(p, op, n) PROVE FilesWhole'
  <2>1. Looked(op, n)
    BY <1>1 DEF Look, Allowed, CreateAllowed, Looked, Operations
  <2>2. DOMAIN doing' = Procs /\ \A q \in Procs : doing'[q] = IF q = p THEN [op |-> op, name |-> n] ELSE doing[q]
    BY <1>1 DEF Look, FilesTyped
  <2>3. LookHolds'
    BY <1>1, <2>1, <2>2 DEF LookHolds, Look, Looked, Exists, Archived
  <2> QED BY <1>1, <2>2, <2>3, FilesLeft DEF Look
<1>2. ASSUME OpenAndClose(p) PROVE FilesWhole'
  <2> DEFINE n == doing[p].name
  <2>1. /\ Acts(p) /\ OpenLinks(n) /\ UNCHANGED <<arch, gone>>
        /\ doing[p].op \in {"create", "backup"}
    BY <1>2 DEF OpenAndClose, Doing
  <2>2. doing[p] # Resting
    BY <2>1 DEF Resting
  <2>3. Looked(doing[p].op, n)
    BY <2>2 DEF LookHolds
  <2>4. n \in FileNames /\ ~Archived(n)
    BY <2>1, <2>3 DEF Looked, NamesWhole
  <2>5. DOMAIN doing' = Procs /\ LookHolds'
    BY <2>1, Acted DEF OpenLinks, FilesTyped
  <2> HIDE DEF n
  <2> QED BY <2>1, <2>4, <2>5, OpenedFacts DEF FilesTyped
<1>3. ASSUME BackupSelected(p) PROVE FilesWhole'
  BY <1>3, FilesLeft, Finished DEF BackupSelected
<1>4. ASSUME SelectNamed(p) PROVE FilesWhole'
  <2> DEFINE n == doing[p].name
  <2>1. Acts(p) /\ OpenLinks(n) /\ UNCHANGED <<arch, gone>> /\ doing[p].op = "select"
    BY <1>4 DEF SelectNamed, Doing
  <2>2. doing[p] # Resting
    BY <2>1 DEF Resting
  <2>3. Looked(doing[p].op, n)
    BY <2>2 DEF LookHolds
  <2>4. n \in FileNames /\ ~Archived(n)
    BY <2>1, <2>3 DEF Looked, NamesWhole
  <2>5. DOMAIN doing' = Procs /\ LookHolds'
    BY <2>1, Acted DEF OpenLinks, FilesTyped
  <2> HIDE DEF n
  <2> QED BY <2>1, <2>4, <2>5, OpenedFacts DEF FilesTyped
<1>5. ASSUME SelectDefault(p) PROVE FilesWhole'
  <2>1. UNCHANGED <<link, arch, walAt, made, gone, doing>>
    BY <1>5 DEF SelectDefault
  <2>2. LookHolds'
    BY <2>1 DEF LookHolds, Looked, Exists, Archived
  <2> QED BY <2>1, <2>2, FilesLeft DEF FilesTyped
<1>6. ASSUME RenameToArchive(p) PROVE FilesWhole'
  <2> DEFINE n == doing[p].name
  <2>1. /\ Acts(p) /\ UNCHANGED <<walAt, made, gone>> /\ doing[p].op = "archive"
        /\ IF Exists(n) THEN /\ arch' = [arch EXCEPT ![n] = link[n]]
                             /\ link' = [link EXCEPT ![n] = None]
           ELSE UNCHANGED <<arch, link>>
    BY <1>6 DEF RenameToArchive, Doing
  <2>2. doing[p] # Resting
    BY <2>1 DEF Resting
  <2>3. n \in FileNames /\ Exists(n) /\ ~Archived(n)
    BY <2>1, <2>2 DEF LookHolds, Looked, NamesWhole
  <2>4. DOMAIN doing' = Procs /\ LookHolds'
    BY <2>1, Acted DEF FilesTyped
  <2> HIDE DEF n
  <2>5. /\ \A m \in FileNames : arch'[m] = IF m = n THEN link[n] ELSE arch[m]
        /\ \A m \in FileNames : link'[m] = IF m = n THEN None ELSE link[m]
    BY <2>1, <2>3 DEF FilesTyped
  <2>6. FilesTyped'
    BY <2>1, <2>3, <2>5, <2>4 DEF FilesTyped, None
  <2>7. NamesWhole'
    BY <2>1, <2>3, <2>5 DEF NamesWhole, Exists, Archived, None
  <2>8. FilesNamed'
    BY <2>1, <2>3, <2>5 DEF FilesNamed, Archived, None, FilesTyped
  <2> QED BY <2>6, <2>7, <2>8, <2>4
<1>7. ASSUME Remove(p) PROVE FilesWhole'
  <2> DEFINE n == doing[p].name
  <2>1. /\ Acts(p) /\ UNCHANGED <<walAt, made>> /\ doing[p].op = "delete"
        /\ IF Exists(n)
           THEN /\ link' = [link EXCEPT ![n] = None]
                /\ gone' = gone \cup {link[n]}
                /\ UNCHANGED arch
           ELSE /\ arch' = [arch EXCEPT ![n] = None]
                /\ gone' = gone \cup ({arch[n]} \ {None})
                /\ UNCHANGED link
    BY <1>7 DEF Remove, Doing
  <2>2. doing[p] # Resting
    BY <2>1 DEF Resting
  <2>3. n \in FileNames
    BY <2>1, <2>2 DEF LookHolds, Looked
  <2>4. DOMAIN doing' = Procs /\ LookHolds'
    BY <2>1, Acted DEF FilesTyped
  <2> HIDE DEF n
  <2>5. FilesTyped'
    BY <2>1, <2>3, <2>4 DEF FilesTyped, None
  <2>6. NamesWhole'
    BY <2>1, <2>3 DEF NamesWhole, Exists, Archived, None, FilesTyped
  <2>7. FilesNamed'
    BY <2>1, <2>3 DEF FilesNamed, Exists, None, FilesTyped
  <2> QED BY <2>5, <2>6, <2>7, <2>4
<1>8. ASSUME KillProcess(p) PROVE FilesWhole'
  BY <1>8, FilesLeft, Finished DEF KillProcess
<1>9. ASSUME NEW r \in FileRows, WriteRow(p, r) PROVE FilesWhole'
  <2>1. UNCHANGED <<link, arch, walAt, made, gone, doing>>
    BY <1>9 DEF WriteRow
  <2>2. LookHolds'
    BY <2>1 DEF LookHolds, Looked, Exists, Archived
  <2> QED BY <2>1, <2>2, FilesLeft DEF FilesTyped
<1> QED
  BY <1>0, <1>1, <1>2, <1>3, <1>4, <1>5, <1>6, <1>7, <1>8, <1>9

(* However the operations of several processes interleave, no file is lost *)
(* that was not deleted, nor is its log, until one of them changes a name  *)
(* that another has looked at and not yet acted on.                        *)
THEOREM SoftOpsReversibleCorrect == Spec => []SoftOpsReversible
<1>1. Init => FilesInv
  BY FilesStart DEF Init
<1>2. FilesInv /\ [Next]_vars => FilesInv'
  <2> SUFFICES ASSUME FilesInv, [Next]_vars PROVE FilesInv'
    OBVIOUS
  <2>1. CASE FilesNext
    BY <2>1, FilesStep
  <2>2. CASE UNCHANGED fileVars
    <3>1. FilesWhole => FilesWhole'
      <4> SUFFICES ASSUME FilesWhole PROVE FilesWhole'
        OBVIOUS
      <4>1. LookHolds'
        BY <2>2 DEF fileVars, FilesWhole, LookHolds, Looked, Exists, Archived
      <4> QED BY <2>2, <4>1, FilesLeft DEF fileVars, FilesWhole, FilesTyped
    <3> QED BY <2>2, <3>1 DEF fileVars, FilesInv
  <2> QED BY <2>1, <2>2 DEF Next, vars
<1>3. FilesInv => SoftOpsReversible
  BY DEF FilesInv, FilesWhole, FilesNamed, NamesWhole, SoftOpsReversible, Exists, Archived, None, FilesTyped
<1> QED
  BY <1>1, <1>2, <1>3, PTL DEF Spec

-----------------------------------------------------------------------------
(* Databases inside one image.  As long as no select lost the catalog it   *)
(* held, the image and that catalog together hold every database with what *)
(* was stored in it; before the restore the selected one also has a fresh  *)
(* row, which is what the restore takes away from the image.               *)
Shaped(x) == x = [name |-> x.name, rows |-> x.rows, cat |-> x.cat, size |-> x.size]
Entry(e, n) ==
    /\ e = [archived |-> e.archived, snap |-> e.snap] /\ e.archived \in BOOLEAN
    /\ Shaped(e.snap) /\ e.snap.name = n
Catalog(c) == c = [n \in DOMAIN c |-> c[n]] /\ \A n \in DOMAIN c : Entry(c[n], n)
HoldsTruth(c, n) == c[n].snap.rows = truth[n].rows /\ c[n].archived = truth[n].archived

Selected(n) ==
    /\ handle = n /\ live.name = n
    /\ n \in DOMAIN truth
    /\ live.rows = truth[n].rows
    /\ truth[n].archived = FALSE

Steady ==
    /\ Selected(handle)
    /\ Catalog(live.cat)
    /\ {handle} \cup DOMAIN live.cat = DOMAIN truth
    /\ \A n \in DOMAIN live.cat \ {handle} : HoldsTruth(live.cat, n)

Restoring ==
    /\ pc.name \in DOMAIN live.cat
    /\ pc.name # handle
    /\ truth[pc.name].archived = FALSE
    /\ handle \in DOMAIN live.cat
    /\ HoldsTruth(live.cat, handle)
    /\ saved = Kept(live.cat, pc.name)

Refilling(c) ==
    /\ Selected(pc.name)
    /\ Catalog(c) /\ Catalog(saved)
    /\ DOMAIN c \cup DOMAIN saved = DOMAIN truth \ {pc.name}
    /\ \A n \in DOMAIN c : HoldsTruth(c, n)
    /\ \A n \in DOMAIN saved : HoldsTruth(saved, n)

MemWhole ==
    /\ Shaped(live)
    /\ pc = [at |-> pc.at, name |-> pc.name]
    /\ \/ pc = IdleSelect /\ Steady
       \/ pc.at = "restore" /\ Steady /\ Restoring
       \/ pc.at = "clear" /\ Refilling(NoEntries)
       \/ pc.at = "insert" /\ Refilling(live.cat)

MemInv == torn \in BOOLEAN /\ (torn = FALSE => MemWhole)

(* Rewriting a catalog by one row, and what is left of it.                 *)
LEMMA PutCatalog ==
    ASSUME NEW c, NEW n, NEW e, NEW d, d = Put(c, n, e), Catalog(c), Entry(e, n)
    PROVE  Catalog(d)
<1> QED
  BY DEF Catalog, Put

(* The same for a row that is deleted.                                     *)
LEMMA WithoutCatalog ==
    ASSUME NEW c, NEW n, NEW d, d = Without(c, n), Catalog(c)
    PROVE  Catalog(d)
<1> QED
  BY DEF Catalog, Without, Restrict

(* Giving an image another catalog leaves its name and its rows.           *)
LEMMA CatalogOfImage ==
    ASSUME NEW x, NEW c, Shaped(x)
    PROVE  /\ Shaped(WithCatalog(x, c)) /\ WithCatalog(x, c).cat = c
           /\ WithCatalog(x, c).name = x.name /\ WithCatalog(x, c).rows = x.rows
<1>1. PICK s : s = SizeOf(c)
  OBVIOUS
<1>2. WithCatalog(x, c) = [x EXCEPT !.cat = c, !.size = s]
  BY <1>1 DEF WithCatalog
<1>3. PICK a, b, d, f : x = [name |-> a, rows |-> b, cat |-> d, size |-> f]
  BY DEF Shaped
<1>4. WithCatalog(x, c) = [name |-> a, rows |-> b, cat |-> c, size |-> s]
  BY <1>2, <1>3
<1> QED
  BY <1>3, <1>4 DEF Shaped

(* A new image.                                                            *)
LEMMA MemStart == MemInit => MemInv
<1> SUFFICES ASSUME MemInit PROVE MemWhole
  BY DEF MemInv, MemInit
<1>1. Shaped(live) /\ live.name = FirstName /\ live.rows = {} /\ live.cat = NoEntries
  BY DEF MemInit, EmptyImageOf, Shaped
<1>2. Catalog(NoEntries) /\ DOMAIN NoEntries = {}
  BY DEF Catalog, NoEntries
<1>3. Steady
  BY <1>1, <1>2 DEF MemInit, Steady, Selected
<1> QED
  BY <1>1, <1>3 DEF MemInit, MemWhole, IdleSelect

(* A write, a create, an archive and a delete.                             *)
LEMMA MemCalls ==
    ASSUME MemInv,
           \/ \E r \in MemRows : MemWrite(r)
           \/ \E n \in MemNames : MemCreate(n) \/ MemArchive(n) \/ MemDelete(n)
    PROVE  MemInv'
<1> SUFFICES ASSUME torn = FALSE, torn' = FALSE PROVE MemWhole'
  BY DEF MemInv, MemWrite, MemCreate, MemArchive, MemDelete
<1>i. NoSelect /\ UNCHANGED <<pc, handle>>
  BY DEF MemWrite, MemCreate, MemArchive, MemDelete
<1>0. Shaped(live) /\ pc = IdleSelect /\ pc' = IdleSelect /\ Steady /\ handle' = handle
  BY <1>i DEF MemInv, MemWhole, NoSelect, IdleSelect
<1>c. Catalog(live.cat)
  BY <1>0 DEF Steady
<1>x. Shaped(live') /\ Steady' => MemWhole'
  BY <1>0 DEF MemWhole, IdleSelect, Shaped
<1>1. ASSUME NEW r \in MemRows, MemWrite(r) PROVE MemWhole'
  <2>1. PICK a, b, d, f : live = [name |-> a, rows |-> b, cat |-> d, size |-> f]
    BY <1>0 DEF Shaped
  <2>2. live' = [name |-> a, rows |-> b \cup {r}, cat |-> d, size |-> f]
    BY <1>1, <2>1 DEF MemWrite
  <2>3. truth' = Put(truth, handle, [rows |-> live'.rows, archived |-> FALSE])
    BY <1>1 DEF MemWrite, Note
  <2>p. DOMAIN truth' = DOMAIN truth \cup {handle}
    BY <2>3 DEF Put
  <2>4. DOMAIN truth' = DOMAIN truth
    BY <2>p, <1>0 DEF Steady, Selected
  <2>5. truth'[handle].rows = live'.rows /\ truth'[handle].archived = FALSE
    <3>1. truth'[handle] = [rows |-> live'.rows, archived |-> FALSE]
      BY <2>3 DEF Put
    <3> QED BY <3>1
  <2>6. \A n \in DOMAIN truth \ {handle} : truth'[n] = truth[n]
    BY <2>3 DEF Put
  <2>7. Selected(handle)'
    BY <2>1, <2>2, <2>4, <2>5, <1>0 DEF Steady, Selected
  <2>8. Steady'
    BY <2>1, <2>2, <2>4, <2>6, <2>7, <1>0 DEF Steady, HoldsTruth
  <2> QED BY <2>2, <2>8, <1>x DEF Shaped
<1>2. ASSUME NEW n \in MemNames, MemCreate(n) PROVE MemWhole'
  <2> DEFINE e == [archived |-> FALSE, snap |-> NewSnapshot(n)]
             t == [rows |-> {}, archived |-> FALSE]
  <2>1. Entry(e, n) /\ e.archived = FALSE /\ e.snap.rows = {}
    BY DEF Entry, NewSnapshot, EmptyImageOf, Shaped
  <2>2. t.rows = {} /\ t.archived = FALSE
    OBVIOUS
  <2>3. live' = WithCatalog(live, Put(live.cat, n, e)) /\ truth' = Put(truth, n, t)
    BY <1>2 DEF MemCreate, Note
  <2> HIDE DEF e, t
  <2>4. Shaped(live') /\ live'.cat = Put(live.cat, n, e) /\ live'.name = live.name /\ live'.rows = live.rows
    BY <2>3, <1>0, CatalogOfImage
  <2>5. n # handle /\ n \notin DOMAIN truth
    BY <1>2, <1>0 DEF MemCreate, Steady
  <2>p. /\ DOMAIN truth' = DOMAIN truth \cup {n} /\ truth'[n] = t
        /\ \A k \in DOMAIN truth \ {n} : truth'[k] = truth[k]
    BY <2>3 DEF Put
  <2>6. DOMAIN truth' = DOMAIN truth \cup {n} /\ truth'[n] = t /\ \A k \in DOMAIN truth : truth'[k] = truth[k]
    BY <2>p, <2>5
  <2>7a. Catalog(live'.cat)
    BY <2>1, <2>4, <1>c, PutCatalog
  <2>7b. /\ DOMAIN live'.cat = DOMAIN live.cat \cup {n} /\ live'.cat[n] = e
        /\ \A k \in DOMAIN live.cat \ {n} : live'.cat[k] = live.cat[k]
    BY <2>1, <2>4, <1>c DEF Put
  <2>7. /\ Catalog(live'.cat) /\ DOMAIN live'.cat = DOMAIN live.cat \cup {n} /\ live'.cat[n] = e
        /\ \A k \in DOMAIN live.cat \ {n} : live'.cat[k] = live.cat[k]
    BY <2>7a, <2>7b
  <2>8. Selected(handle)'
    BY <2>4, <2>6, <1>0 DEF Steady, Selected
  <2>a. HoldsTruth(live.cat, n)'
    BY <2>1, <2>2, <2>6, <2>7 DEF HoldsTruth
  <2>b. \A k \in DOMAIN live.cat \ {handle} : k \in DOMAIN truth /\ k # n
    BY <2>5, <1>0 DEF Steady
  <2>c. \A k \in DOMAIN live.cat \ {handle} : HoldsTruth(live.cat, k)'
    BY <2>b, <2>6, <2>7, <1>0 DEF HoldsTruth, Steady
  <2>9. Steady'
    BY <2>a, <2>c, <2>5, <2>6, <2>7, <2>8, <1>0 DEF Steady
  <2> QED BY <2>4, <2>9, <1>x
<1>3. ASSUME NEW n \in MemNames, MemArchive(n) PROVE MemWhole'
  <2> DEFINE t == [rows |-> Content(n), archived |-> TRUE]
  <2>1. n # handle /\ n \in DOMAIN live.cat /\ truth' = Put(truth, n, t)
    BY <1>3 DEF MemArchive, Note
  <2>2. t.rows = live.cat[n].snap.rows /\ t.archived = TRUE
    BY <2>1 DEF Content
  <2> HIDE DEF t
  <2>3. PICK a, b, d, f : live = [name |-> a, rows |-> b, cat |-> d, size |-> f]
    BY <1>0 DEF Shaped
  <2>4. Catalog(d) /\ live.cat = d
    BY <2>3, <1>0 DEF Steady
  <2>5. live' = [name |-> a, rows |-> b, cat |-> [d EXCEPT ![n].archived = TRUE], size |-> f]
    BY <1>3, <2>3 DEF MemArchive
  <2>6. PICK u, s : d[n] = [archived |-> u, snap |-> s] /\ Shaped(s) /\ s.name = n
    BY <2>1, <2>4 DEF Catalog, Entry
  <2>r. [d[n] EXCEPT !.archived = TRUE] = [archived |-> TRUE, snap |-> s]
    <3>1. PICK w : w = TRUE
      OBVIOUS
    <3>2. [d[n] EXCEPT !.archived = w] = [archived |-> w, snap |-> s]
      BY <2>6
    <3> QED BY <3>1, <3>2
  <2>7. live'.cat = [d EXCEPT ![n] = [archived |-> TRUE, snap |-> s]]
    BY <2>5, <2>r
  <2>8. /\ DOMAIN live'.cat = DOMAIN d /\ live'.cat[n] = [archived |-> TRUE, snap |-> s]
        /\ \A k \in DOMAIN d \ {n} : live'.cat[k] = d[k]
    BY <2>7, <2>4, <2>1
  <2>e. Entry(live'.cat[n], n)
    BY <2>6, <2>8 DEF Entry
  <2>9. Catalog(live'.cat)
    BY <2>4, <2>7, <2>8, <2>e DEF Catalog
  <2>p. /\ DOMAIN truth' = DOMAIN truth \cup {n} /\ truth'[n] = t
        /\ \A k \in DOMAIN truth \ {n} : truth'[k] = truth[k]
    BY <2>1 DEF Put
  <2>10. DOMAIN truth' = DOMAIN truth /\ truth'[n] = t /\ \A k \in DOMAIN truth \ {n} : truth'[k] = truth[k]
    BY <2>p, <2>1, <1>0 DEF Steady
  <2>11. Selected(handle)'
    BY <2>1, <2>3, <2>5, <2>10, <1>0 DEF Steady, Selected
  <2>t. d[n].snap = s /\ live'.cat[n].snap = s /\ live'.cat[n].archived = TRUE
    BY <2>6, <2>8
  <2>12. HoldsTruth(live.cat, n)'
    BY <2>2, <2>4, <2>6, <2>8, <2>10, <2>t DEF HoldsTruth
  <2>13. \A k \in DOMAIN d \ {handle, n} : HoldsTruth(live.cat, k)'
    BY <2>4, <2>8, <2>10, <1>0 DEF HoldsTruth, Steady
  <2>14. Steady'
    BY <2>4, <2>8, <2>9, <2>10, <2>11, <2>12, <2>13, <1>0 DEF Steady
  <2>15. Shaped(live')
    BY <2>5 DEF Shaped
  <2> QED BY <2>14, <2>15, <1>x
<1>4. ASSUME NEW n \in MemNames, MemDelete(n) PROVE MemWhole'
  <2>1. n # handle /\ live' = WithCatalog(live, Without(live.cat, n)) /\ truth' = Without(truth, n)
    BY <1>4 DEF MemDelete
  <2>2. /\ Shaped(live') /\ live'.cat = Without(live.cat, n)
        /\ live'.name = live.name /\ live'.rows = live.rows
    BY <2>1, <1>0, CatalogOfImage
  <2>3. DOMAIN truth' = DOMAIN truth \ {n} /\ \A k \in DOMAIN truth \ {n} : truth'[k] = truth[k]
    BY <2>1 DEF Without, Restrict
  <2>4a. Catalog(live'.cat)
    BY <2>2, <1>c, WithoutCatalog
  <2>4b. /\ DOMAIN live'.cat = DOMAIN live.cat \ {n}
        /\ \A k \in DOMAIN live.cat \ {n} : live'.cat[k] = live.cat[k]
    BY <2>2, <1>c DEF Without, Restrict
  <2>4. /\ Catalog(live'.cat) /\ DOMAIN live'.cat = DOMAIN live.cat \ {n}
        /\ \A k \in DOMAIN live.cat \ {n} : live'.cat[k] = live.cat[k]
    BY <2>4a, <2>4b
  <2>5. Selected(handle)'
    BY <2>1, <2>2, <2>3, <1>0 DEF Steady, Selected
  <2>6. Steady'
    BY <2>1, <2>2, <2>3, <2>4, <2>5, <1>0 DEF Steady, HoldsTruth
  <2> QED BY <2>2, <2>6, <1>x
<1> QED
  BY <1>1, <1>2, <1>3, <1>4

(* The steps of a select, and its failure at any of them.                  *)
LEMMA MemSelects ==
    ASSUME MemInv,
           \/ \E n \in MemNames : MemSelect(n) \/ MemInsert(n)
           \/ MemRestore \/ MemClear \/ MemName \/ MemAbort
    PROVE  MemInv'
<1> SUFFICES ASSUME torn' = FALSE PROVE MemWhole'
  BY DEF MemInv, MemSelect, MemInsert, MemRestore, MemClear, MemName, MemAbort
<1>0. torn = FALSE /\ MemWhole
  BY DEF MemInv, MemSelect, MemInsert, MemRestore, MemClear, MemName, MemAbort
<1> USE DEF MemWhole
<1>1. ASSUME NEW n \in MemNames, MemSelect(n) PROVE MemWhole'
  <2> DEFINE e == [archived |-> FALSE, snap |-> live]
             c == Put(live.cat, handle, e)
  <2>1. Steady
    BY <1>0, <1>1 DEF MemSelect, NoSelect, IdleSelect
  <2>2. Entry(e, handle) /\ e.archived = FALSE /\ e.snap.rows = live.rows
    BY <1>0, <2>1 DEF Entry, Steady, Selected
  <2>3. /\ n # handle /\ n \in DOMAIN live.cat /\ ~live.cat[n].archived
        /\ live' = WithCatalog(live, c) /\ saved' = Kept(c, n)
        /\ pc' = [at |-> "restore", name |-> n] /\ UNCHANGED <<handle, truth>>
    BY <1>1 DEF MemSelect, SaveCurrent
  <2> HIDE DEF e
  <2>c. Catalog(live.cat)
    BY <2>1 DEF Steady
  <2>4a. Catalog(c)
    BY <2>c, <2>2, PutCatalog
  <2>4b. /\ DOMAIN c = DOMAIN live.cat \cup {handle} /\ c[handle] = e
        /\ \A k \in DOMAIN live.cat \ {handle} : c[k] = live.cat[k]
    BY <2>c, <2>2 DEF Put
  <2>4. /\ Catalog(c) /\ DOMAIN c = DOMAIN live.cat \cup {handle} /\ c[handle] = e
        /\ \A k \in DOMAIN live.cat \ {handle} : c[k] = live.cat[k]
    BY <2>4a, <2>4b
  <2> HIDE DEF c
  <2>5. Shaped(live') /\ live'.cat = c /\ live'.name = live.name /\ live'.rows = live.rows
    BY <2>3, <1>0, CatalogOfImage
  <2>6. Selected(handle)'
    BY <2>1, <2>3, <2>5 DEF Steady, Selected
  <2>k. \A k \in DOMAIN live.cat \ {handle} : live'.cat[k] = live.cat[k]
    BY <2>4, <2>5
  <2>l. DOMAIN live'.cat = DOMAIN live.cat \cup {handle} /\ Catalog(live'.cat)
    BY <2>4, <2>5
  <2>m. \A k \in DOMAIN live'.cat \ {handle} : HoldsTruth(live.cat, k)'
    BY <2>1, <2>3, <2>k, <2>l DEF Steady, HoldsTruth
  <2>7. Steady'
    BY <2>1, <2>3, <2>l, <2>m, <2>6 DEF Steady
  <2>8. HoldsTruth(live.cat, handle)'
    BY <2>1, <2>2, <2>3, <2>4, <2>5 DEF Steady, Selected, HoldsTruth
  <2>9. HoldsTruth(live.cat, n) /\ truth[n].archived = live.cat[n].archived
    BY <2>1, <2>3 DEF Steady, HoldsTruth
  <2>10. truth'[n].archived = FALSE
    BY <2>1, <2>3, <2>9 DEF Steady, Catalog, Entry
  <2>11. Restoring'
    BY <2>3, <2>4, <2>5, <2>8, <2>10 DEF Restoring
  <2> QED BY <2>3, <2>5, <2>7, <2>11
<1>2. ASSUME MemRestore PROVE MemWhole'
  <2> DEFINE image == live.cat[pc.name].snap
  <2>1. /\ Steady /\ Restoring /\ live' = image /\ handle' = image.name /\ UNCHANGED <<saved, truth>>
        /\ pc' = [pc EXCEPT !.at = "clear"] /\ pc.at = "restore"
    BY <1>0, <1>2 DEF MemRestore, IdleSelect
  <2>2. pc' = [at |-> "clear", name |-> pc.name]
    BY <2>1, <1>0
  <2>3. Shaped(image) /\ image.name = pc.name
    BY <2>1 DEF Steady, Restoring, Catalog, Entry
  <2>4. HoldsTruth(live.cat, pc.name)
    BY <2>1 DEF Steady, Restoring
  <2>5. Selected(pc.name)'
    BY <2>1, <2>2, <2>3, <2>4 DEF Steady, Restoring, Selected, HoldsTruth
  <2>c. Catalog(live.cat) /\ saved = Without(live.cat, pc.name)
    BY <2>1 DEF Steady, Restoring, Kept
  <2>6a. Catalog(saved)
    BY <2>c, WithoutCatalog
  <2>6b. /\ DOMAIN saved = DOMAIN live.cat \ {pc.name}
        /\ \A k \in DOMAIN live.cat \ {pc.name} : saved[k] = live.cat[k]
    BY <2>c DEF Without, Restrict
  <2>6. /\ Catalog(saved) /\ DOMAIN saved = DOMAIN live.cat \ {pc.name}
        /\ \A k \in DOMAIN live.cat \ {pc.name} : saved[k] = live.cat[k]
    BY <2>6a, <2>6b
  <2>7. Catalog(NoEntries) /\ DOMAIN NoEntries = {}
    BY DEF Catalog, NoEntries
  <2>8. \A k \in DOMAIN saved : HoldsTruth(saved, k)
    BY <2>1, <2>6 DEF Steady, Restoring, HoldsTruth
  <2>9. DOMAIN live.cat = DOMAIN truth
    BY <2>1 DEF Steady, Restoring
  <2>10. Refilling(NoEntries)'
    BY <2>1, <2>2, <2>5, <2>6, <2>7, <2>8, <2>9 DEF Refilling, HoldsTruth
  <2> QED BY <2>1, <2>2, <2>3, <2>10
<1>3. ASSUME MemClear PROVE MemWhole'
  <2>1. /\ Refilling(NoEntries) /\ live' = WithCatalog(live, NoEntries)
        /\ pc' = [at |-> "insert", name |-> pc.name] /\ UNCHANGED <<handle, saved, truth>>
    BY <1>0, <1>3 DEF MemClear, IdleSelect
  <2>2. Shaped(live') /\ live'.cat = NoEntries /\ live'.name = live.name /\ live'.rows = live.rows
    BY <2>1, <1>0, CatalogOfImage
  <2>3. Refilling(live.cat)'
    BY <2>1, <2>2 DEF Refilling, Selected, HoldsTruth
  <2> QED BY <2>1, <2>2, <2>3
<1>4. ASSUME NEW n \in MemNames, MemInsert(n) PROVE MemWhole'
  <2>1. /\ Refilling(live.cat) /\ n \in DOMAIN saved
        /\ live' = WithCatalog(live, Put(live.cat, n, saved[n])) /\ saved' = Without(saved, n)
        /\ pc.at = "insert" /\ UNCHANGED <<handle, pc, truth>>
    BY <1>0, <1>4 DEF MemInsert, IdleSelect
  <2>2. /\ Shaped(live') /\ live'.cat = Put(live.cat, n, saved[n])
        /\ live'.name = live.name /\ live'.rows = live.rows
    BY <2>1, <1>0, CatalogOfImage
  <2>c. Catalog(live.cat) /\ Catalog(saved)
    BY <2>1 DEF Refilling
  <2>3. Entry(saved[n], n)
    BY <2>c, <2>1 DEF Catalog
  <2>4a. Catalog(live'.cat)
    BY <2>c, <2>2, <2>3, PutCatalog
  <2>4b. /\ DOMAIN live'.cat = DOMAIN live.cat \cup {n} /\ live'.cat[n] = saved[n]
        /\ \A k \in DOMAIN live.cat \ {n} : live'.cat[k] = live.cat[k]
    BY <2>c, <2>2, <2>3 DEF Put
  <2>4. /\ Catalog(live'.cat) /\ DOMAIN live'.cat = DOMAIN live.cat \cup {n} /\ live'.cat[n] = saved[n]
        /\ \A k \in DOMAIN live.cat \ {n} : live'.cat[k] = live.cat[k]
    BY <2>4a, <2>4b
  <2>5a. Catalog(saved')
    BY <2>1, <2>c, WithoutCatalog
  <2>5b. /\ DOMAIN saved' = DOMAIN saved \ {n}
        /\ \A k \in DOMAIN saved \ {n} : saved'[k] = saved[k]
    BY <2>1, <2>c DEF Without, Restrict
  <2>5. /\ Catalog(saved') /\ DOMAIN saved' = DOMAIN saved \ {n}
        /\ \A k \in DOMAIN saved \ {n} : saved'[k] = saved[k]
    BY <2>5a, <2>5b
  <2>6. Refilling(live.cat)'
    BY <2>1, <2>2, <2>4, <2>5 DEF Refilling, Selected, HoldsTruth
  <2> QED BY <2>1, <2>2, <2>6, <1>0
<1>5. ASSUME MemName PROVE MemWhole'
  <2>1. /\ Refilling(live.cat) /\ saved = NoEntries /\ live' = [live EXCEPT !.name = pc.name]
        /\ handle' = pc.name /\ pc' = IdleSelect /\ UNCHANGED truth
    BY <1>0, <1>5 DEF MemName, IdleSelect
  <2>2. live' = live
    BY <2>1, <1>0 DEF Refilling, Selected, Shaped
  <2>3. DOMAIN live.cat = DOMAIN truth \ {pc.name}
    BY <2>1 DEF Refilling, NoEntries
  <2>4. Steady'
    BY <2>1, <2>2, <2>3 DEF Refilling, Steady, Selected, HoldsTruth
  <2> QED BY <2>1, <2>2, <2>4, <1>0 DEF IdleSelect
<1>6. ASSUME MemAbort PROVE MemWhole'
  <2>1. /\ pc # IdleSelect /\ pc.at # "clear" /\ ~ (pc.at = "insert" /\ saved # NoEntries)
        /\ handle' = live.name /\ pc' = IdleSelect /\ UNCHANGED <<live, truth>>
    BY <1>6 DEF MemAbort, NoSelect
  <2>2. CASE pc.at = "restore" /\ Steady
    BY <2>1, <2>2, <1>0 DEF Steady, Selected, HoldsTruth, IdleSelect
  <2>3. CASE pc.at = "insert" /\ Refilling(live.cat) /\ saved = NoEntries
    <3>1. DOMAIN live.cat = DOMAIN truth \ {pc.name} /\ live.name = pc.name
      BY <2>3 DEF Refilling, NoEntries, Selected
    <3>2. Steady'
      BY <2>1, <2>3, <3>1 DEF Refilling, Steady, Selected, HoldsTruth
    <3> QED BY <2>1, <3>2, <1>0 DEF IdleSelect
  <2> QED BY <1>0, <2>1, <2>2, <2>3
<1> QED
  BY <1>1, <1>2, <1>3, <1>4, <1>5, <1>6

(* No select, create, archive, delete or failure loses a database or mixes *)
(* two of them up.                                                         *)
THEOREM DatabasesKeptCorrect == Spec => []DatabasesKept
<1>1. Init => MemInv
  BY MemStart DEF Init
<1>2. MemInv /\ [Next]_vars => MemInv'
  <2> SUFFICES ASSUME MemInv, [Next]_vars PROVE MemInv'
    OBVIOUS
  <2>1. CASE MemNext
    BY <2>1, MemCalls, MemSelects DEF MemNext
  <2>2. CASE UNCHANGED memVars
    BY <2>2 DEF memVars, MemInv, MemWhole, Steady, Restoring, Refilling, Selected, HoldsTruth
  <2> QED BY <2>1, <2>2 DEF Next, vars
<1>3. MemInv => DatabasesKept
  <2> SUFFICES ASSUME MemInv, NoSelect, ~torn PROVE DatabasesKept
    BY DEF DatabasesKept
  <2>t. torn = FALSE
    BY DEF MemInv
  <2>1. Steady
    BY <2>t DEF MemInv, MemWhole, NoSelect, IdleSelect
  <2> QED BY <2>1 DEF DatabasesKept, Steady, Selected, HoldsTruth, Listed, Content
<1> QED
  BY <1>1, <1>2, <1>3, PTL DEF Spec

-----------------------------------------------------------------------------
(* A file that servers open and migrations publish.                        *)

(* migrate(), one statement at a time.                                     *)
LEMMA ScriptLength == Len(Script) = 16
BY DEF FactsPart, St, EventsPart, GraphPart, RunsPart, IndexPart, Script

(* The first half of the list, up to the events.                           *)
LEMMA ScriptTables ==
    /\ Script[1] = [do |-> "create", table |-> "facts"]
    /\ Script[2] = [do |-> "create", table |-> "contexts"]
    /\ Script[3] = [do |-> "columns", table |-> "facts"]
    /\ Script[4] = [do |-> "columns", table |-> "contexts"]
    /\ Script[5] = [do |-> "fill", table |-> "contexts"]
    /\ Script[6] = [do |-> "create", table |-> "events"]
    /\ Script[7] = [do |-> "columns", table |-> "events"]
    /\ Script[8] = [do |-> "unique", table |-> "events"]
BY DEF FactsPart, St, EventsPart, GraphPart, RunsPart, IndexPart, Script

(* The second half.                                                        *)
LEMMA ScriptIndexes ==
    /\ Script[9] = [do |-> "create", table |-> "entities"]
    /\ Script[10] = [do |-> "columns", table |-> "entities"]
    /\ Script[11] = [do |-> "fill", table |-> "entities"]
    /\ Script[12] = [do |-> "create", table |-> "runs"]
    /\ Script[13] = [do |-> "columns", table |-> "runs"]
    /\ Script[14] = [do |-> "index", table |-> "runs"]
    /\ Script[15] = [do |-> "triggers", table |-> "facts"]
    /\ Script[16] = [do |-> "rebuild", table |-> "facts"]
BY DEF FactsPart, St, EventsPart, GraphPart, RunsPart, IndexPart, Script

(* The order of the statements: what one relies on an earlier one made.    *)
LEMMA ScriptOrder ==
    ASSUME NEW i \in 1..16
    PROVE  /\ Script[i].do = "columns" =>
                \E j \in 1..i - 1 : Script[j].do = "create" /\ Script[j].table = Script[i].table
           /\ Script[i].do = "index" =>
                \E j \in 1..i - 1 : Script[j].do = "columns" /\ Script[j].table = Script[i].table
           /\ Script[i].do = "rebuild" => \E j \in 1..i - 1 : Script[j].do = "triggers"
<1>0. i \in {1, 2, 3, 4, 5, 6, 7, 8} \/ i \in {9, 10, 11, 12, 13, 14, 15, 16}
  OBVIOUS
<1>1. Script[i].do = "columns" => i \in {3, 4, 7, 10, 13}
  BY <1>0, ScriptTables, ScriptIndexes
<1>2. Script[i].do = "index" => i = 14
  BY <1>0, ScriptTables, ScriptIndexes
<1>3. Script[i].do = "rebuild" => i = 16
  BY <1>0, ScriptTables, ScriptIndexes
<1>4. CASE i \in {3, 4, 7, 10, 13}
  <2>1. /\ 1 \in 1..3 - 1 /\ 2 \in 1..4 - 1 /\ 6 \in 1..7 - 1 /\ 9 \in 1..10 - 1 /\ 12 \in 1..13 - 1
    OBVIOUS
  <2>2. \E j \in 1..i - 1 : Script[j].do = "create" /\ Script[j].table = Script[i].table
    BY <1>4, <2>1, ScriptTables, ScriptIndexes
  <2> QED BY <2>2, <1>2, <1>3, <1>4
<1>5. CASE i = 14
  <2>1. 13 \in 1..14 - 1
    OBVIOUS
  <2> QED BY <1>5, <2>1, <1>1, <1>3, ScriptIndexes
<1>6. CASE i = 16
  <2>1. 15 \in 1..16 - 1
    OBVIOUS
  <2> QED BY <1>6, <2>1, <1>1, <1>2, ScriptIndexes
<1> QED
  BY <1>1, <1>2, <1>3, <1>4, <1>5, <1>6

(* A file, and what may become of it: nothing it has goes away, and what a *)
(* statement of migrate() did to it stays done.                            *)
FileFields ==
    {"there", "columns", "facts", "indexed", "triggers", "blank", "keyless", "unique"}

IsFile(f) ==
    /\ DOMAIN f = FileFields /\ f.there = TRUE
    /\ f.columns = [t \in DOMAIN f.columns |-> f.columns[t]]
    /\ f.triggers \in BOOLEAN /\ f.unique \in BOOLEAN /\ f.keyless \in Nat

Grows(f, g) ==
    /\ IsFile(g)
    /\ IsFile(f) =>
        /\ DOMAIN f.columns \subseteq DOMAIN g.columns
        /\ \A t \in DOMAIN f.columns : f.columns[t] \subseteq g.columns[t]
        /\ f.unique => g.unique
        /\ f.triggers => g.triggers /\ (f.indexed = f.facts => g.indexed = g.facts)
        /\ f.facts \subseteq g.facts
        /\ f.keyless <= g.keyless

HasEffect(f, st) ==
    /\ st.do \in {"create", "columns"} => st.table \in DOMAIN f.columns
    /\ st.do = "columns" => Ensured(st.table) \subseteq f.columns[st.table]
    /\ st.do = "unique" => f.unique
    /\ st.do \in {"triggers", "rebuild"} => f.triggers
    /\ st.do = "rebuild" => f.indexed = f.facts

UpTo(f, k) == \A i \in 1..k - 1 : HasEffect(f, Script[i])

(* What a statement did is still done in a file that grew.                 *)
LEMMA EffectStays ==
    ASSUME NEW f, NEW g, IsFile(f), Grows(f, g), NEW st, HasEffect(f, st)
    PROVE  HasEffect(g, st)
<1>1. st.do \in {"create", "columns"} => st.table \in DOMAIN g.columns
  BY DEF HasEffect, Grows
<1>2. st.do = "columns" => Ensured(st.table) \subseteq g.columns[st.table]
  BY DEF HasEffect, Grows
<1>3. st.do = "unique" => g.unique
  BY DEF HasEffect, Grows
<1>4. st.do \in {"triggers", "rebuild"} => g.triggers
  BY DEF HasEffect, Grows
<1>5. st.do = "rebuild" => g.indexed = g.facts
  BY DEF HasEffect, Grows
<1> QED
  BY <1>1, <1>2, <1>3, <1>4, <1>5 DEF HasEffect

(* And so is what all statements up to a step did.                         *)
LEMMA UpToStays ==
    ASSUME NEW f, NEW g, IsFile(f), Grows(f, g), NEW k, UpTo(f, k)
    PROVE  UpTo(g, k)
<1> QED
  BY EffectStays DEF UpTo

(* One more statement.                                                     *)
LEMMA OneMore ==
    ASSUME NEW f, NEW k \in 1..16, UpTo(f, k), HasEffect(f, Script[k])
    PROVE  UpTo(f, k + 1)
<1> QED
  BY DEF UpTo

(* What migrate() leaves.                                                  *)
LEMMA AllDone ==
    ASSUME NEW f, IsFile(f), UpTo(f, 17)
    PROVE  Upgraded(f)
<1>1. \A i \in 1..16 : HasEffect(f, Script[i])
  BY DEF UpTo
<1>2. \A t \in Tables : \E i \in 1..16 : Script[i].do = "columns" /\ Script[i].table = t
  <2>1. {3, 4, 7, 10, 13} \subseteq 1..16
    OBVIOUS
  <2>2. \A t \in Tables : \E i \in {3, 4, 7, 10, 13} : Script[i].do = "columns" /\ Script[i].table = t
    BY ScriptTables, ScriptIndexes DEF Tables
  <2> QED BY <2>1, <2>2
<1>3. \A t \in Tables : t \in DOMAIN f.columns /\ Ensured(t) \subseteq f.columns[t]
  BY <1>1, <1>2 DEF HasEffect
<1>4. 8 \in 1..16 /\ 15 \in 1..16 /\ 16 \in 1..16
  OBVIOUS
<1>5. f.unique /\ f.triggers /\ f.indexed = f.facts
  BY <1>1, <1>4, ScriptTables, ScriptIndexes DEF HasEffect
<1> QED
  BY <1>3, <1>5 DEF Upgraded

(* What is done to a file.                                                 *)
LEMMA SameFile == ASSUME NEW f, IsFile(f) PROVE Grows(f, f)
BY DEF Grows, IsFile

(* CREATE TABLE adds a table.                                              *)
LEMMA FileTable ==
    ASSUME NEW f, IsFile(f), NEW t, NEW s, t \notin DOMAIN f.columns, NEW g,
           g = [f EXCEPT !.columns = WithTable(@, t, s)]
    PROVE  Grows(f, g) /\ t \in DOMAIN g.columns
<1>1. /\ DOMAIN g = FileFields
      /\ g.columns = WithTable(f.columns, t, s)
  BY DEF IsFile, FileFields
<1>2. g.there = f.there /\ g.facts = f.facts /\ g.indexed = f.indexed /\ g.triggers = f.triggers /\ g.blank = f.blank /\ g.keyless = f.keyless /\ g.unique = f.unique
  BY DEF IsFile, FileFields
<1>3. /\ g.columns = [v \in DOMAIN g.columns |-> g.columns[v]]
      /\ t \in DOMAIN g.columns /\ DOMAIN f.columns \subseteq DOMAIN g.columns
      /\ \A v \in DOMAIN f.columns : g.columns[v] = f.columns[v]
  BY <1>1 DEF WithTable
<1> QED
  BY <1>1, <1>2, <1>3 DEF IsFile, Grows

WithColumn(f, t, e) == [f EXCEPT !.columns[t] = @ \cup {e}]

(* ALTER TABLE adds a column.                                              *)
LEMMA FileColumn ==
    ASSUME NEW f, IsFile(f), NEW t, t \in DOMAIN f.columns, NEW e, NEW g,
           g = WithColumn(f, t, e)
    PROVE  Grows(f, g) /\ g.columns[t] = f.columns[t] \cup {e}
<1>1. /\ DOMAIN g = FileFields
      /\ g.columns = [f.columns EXCEPT ![t] = @ \cup {e}]
  BY DEF IsFile, FileFields, WithColumn
<1>2. g.there = f.there /\ g.facts = f.facts /\ g.indexed = f.indexed /\ g.triggers = f.triggers /\ g.blank = f.blank /\ g.keyless = f.keyless /\ g.unique = f.unique
  BY DEF IsFile, FileFields, WithColumn
<1>3. /\ g.columns = [v \in DOMAIN g.columns |-> g.columns[v]]
      /\ DOMAIN g.columns = DOMAIN f.columns
      /\ \A v \in DOMAIN f.columns : g.columns[v] = IF v = t THEN f.columns[t] \cup {e} ELSE f.columns[v]
  BY <1>1 DEF IsFile
<1> QED
  BY <1>1, <1>2, <1>3 DEF IsFile, Grows

(* Filling a column in changes nothing that is counted on.                 *)
LEMMA FileFilled ==
    ASSUME NEW f, IsFile(f), NEW t, NEW g, g = [f EXCEPT !.blank = @ \ {t}]
    PROVE  Grows(f, g)
<1>1. /\ DOMAIN g = FileFields
      /\ g.blank = f.blank \ {t}
  BY DEF IsFile, FileFields
<1>2. g.there = f.there /\ g.columns = f.columns /\ g.facts = f.facts /\ g.indexed = f.indexed /\ g.triggers = f.triggers /\ g.keyless = f.keyless /\ g.unique = f.unique
  BY DEF IsFile, FileFields
<1> QED
  BY <1>1, <1>2 DEF IsFile, Grows

(* CREATE UNIQUE INDEX.                                                    *)
LEMMA FileUnique ==
    ASSUME NEW f, IsFile(f), NEW g, g = [f EXCEPT !.unique = TRUE]
    PROVE  Grows(f, g) /\ g.unique
<1>1. /\ DOMAIN g = FileFields
      /\ g.unique = TRUE
  BY DEF IsFile, FileFields
<1>2. g.there = f.there /\ g.columns = f.columns /\ g.facts = f.facts /\ g.indexed = f.indexed /\ g.triggers = f.triggers /\ g.blank = f.blank /\ g.keyless = f.keyless
  BY DEF IsFile, FileFields
<1> QED
  BY <1>1, <1>2 DEF IsFile, Grows

(* CREATE TRIGGER.                                                         *)
LEMMA FileTriggers ==
    ASSUME NEW f, IsFile(f), NEW g, g = [f EXCEPT !.triggers = TRUE]
    PROVE  Grows(f, g) /\ g.triggers
<1>1. /\ DOMAIN g = FileFields
      /\ g.triggers = TRUE
  BY DEF IsFile, FileFields
<1>2. g.there = f.there /\ g.columns = f.columns /\ g.facts = f.facts /\ g.indexed = f.indexed /\ g.blank = f.blank /\ g.keyless = f.keyless /\ g.unique = f.unique
  BY DEF IsFile, FileFields
<1> QED
  BY <1>1, <1>2 DEF IsFile, Grows

(* The rebuild of the full-text index.                                     *)
LEMMA FileIndexed ==
    ASSUME NEW f, IsFile(f), NEW g, g = [f EXCEPT !.indexed = f.facts]
    PROVE  Grows(f, g) /\ g.triggers = f.triggers /\ g.indexed = g.facts
<1>1. /\ DOMAIN g = FileFields
      /\ g.indexed = f.facts
  BY DEF IsFile, FileFields
<1>2. g.there = f.there /\ g.columns = f.columns /\ g.facts = f.facts /\ g.triggers = f.triggers /\ g.blank = f.blank /\ g.keyless = f.keyless /\ g.unique = f.unique
  BY DEF IsFile, FileFields
<1> QED
  BY <1>1, <1>2 DEF IsFile, Grows

WithFact(f, r) ==
    [f EXCEPT !.facts = @ \cup {r}, !.indexed = IF f.triggers THEN @ \cup {r} ELSE @]

(* A fact is written and, where there are triggers, indexed.               *)
LEMMA FileWritten ==
    ASSUME NEW f, IsFile(f), NEW r, NEW g,
           g = WithFact(f, r)
    PROVE  Grows(f, g) /\ g.facts = f.facts \cup {r} /\ g.columns = f.columns
<1>1. /\ DOMAIN g = FileFields
      /\ g.facts = f.facts \cup {r}
      /\ g.indexed = IF f.triggers THEN f.indexed \cup {r} ELSE f.indexed
  BY DEF IsFile, FileFields, WithFact
<1>2. g.there = f.there /\ g.columns = f.columns /\ g.triggers = f.triggers /\ g.blank = f.blank /\ g.keyless = f.keyless /\ g.unique = f.unique
  BY DEF IsFile, FileFields, WithFact
<1> QED
  BY <1>1, <1>2 DEF IsFile, Grows

(* An event without a key is written.                                      *)
LEMMA FileKeyless ==
    ASSUME NEW f, IsFile(f), NEW g, g = [f EXCEPT !.keyless = @ + 1]
    PROVE  Grows(f, g) /\ g.columns = f.columns
<1>1. /\ DOMAIN g = FileFields
      /\ g.keyless = f.keyless + 1
  BY DEF IsFile, FileFields
<1>2. g.there = f.there /\ g.columns = f.columns /\ g.facts = f.facts /\ g.indexed = f.indexed /\ g.triggers = f.triggers /\ g.blank = f.blank /\ g.unique = f.unique
  BY DEF IsFile, FileFields
<1> QED
  BY <1>1, <1>2 DEF IsFile, Grows

(* A fact is written by a program that indexes nothing.                    *)
LEMMA FileFacts ==
    ASSUME NEW f, IsFile(f), NEW r, NEW g, g = [f EXCEPT !.facts = @ \cup {r}]
    PROVE  IsFile(g)
<1>1. /\ DOMAIN g = FileFields /\ g.there = f.there /\ g.columns = f.columns
      /\ g.triggers = f.triggers /\ g.unique = f.unique /\ g.keyless = f.keyless
  BY DEF IsFile, FileFields
<1> QED
  BY <1>1 DEF IsFile

(* A new or older file, and the private copy a migration upgrades.         *)
LEMMA EmptyIsFile == IsFile(EmptyFile) /\ EmptyFile.facts = {}
BY DEF EmptyFile, IsFile, FileFields

(* A file an older program left.                                           *)
LEMMA OlderIsFile == ASSUME NEW file, file \in OlderFiles PROVE IsFile(file)
<1>1. PICK lack : file \in Older(lack)
  BY DEF OlderFiles
<1>o. PICK a \in {g \in SUBSET FactRows : Cardinality(g) <= 1}, i \in {FALSE, lack = {}},
            b \in {{}, Filled \cap OlderTables(lack)}, k \in Keyless(lack) :
        file = [there |-> TRUE, columns |-> OlderColumns(lack), facts |-> a,
                indexed |-> IF i THEN a ELSE {}, triggers |-> i,
                blank |-> b \cup Unfilled(lack), keyless |-> k, unique |-> FALSE]
  BY <1>1 DEF Older
<1>2. /\ DOMAIN file = FileFields /\ file.there = TRUE /\ file.columns = OlderColumns(lack)
      /\ file.triggers = i /\ file.unique = FALSE /\ file.keyless = k
  BY <1>o DEF FileFields
<1>b. i \in BOOLEAN
  OBVIOUS
<1>m. MaxKeyless \in Nat
  BY SchemaAssumption
<1>k. Keyless(lack) \subseteq Nat
  BY <1>m DEF Keyless
<1>3. i \in BOOLEAN /\ k \in Nat
  BY <1>b, <1>k
<1>4. OlderColumns(lack) = [t \in DOMAIN OlderColumns(lack) |-> OlderColumns(lack)[t]]
  BY DEF OlderColumns
<1> QED
  BY <1>2, <1>3, <1>4 DEF IsFile

(* The private copy of a migration.                                        *)
LEMMA CopyIsFile == ASSUME NEW f, IsFile(f) PROVE IsFile(UpgradedCopy(f))
<1> DEFINE g == UpgradedCopy(f)
<1>1. /\ DOMAIN g = FileFields /\ g.there = f.there /\ g.keyless = f.keyless
      /\ g.columns = [t \in Tables |-> Ensured(t)] /\ g.triggers = TRUE /\ g.unique = TRUE
  BY DEF IsFile, FileFields, UpgradedCopy
<1> HIDE DEF g
<1>2. g.columns = [t \in DOMAIN g.columns |-> g.columns[t]]
  BY <1>1
<1>3. IsFile(g)
  BY <1>1, <1>2 DEF IsFile
<1> QED
  BY <1>3 DEF g

(* How far an open is, in a file.                                          *)
AtAdd(frame, f) ==
    \E k \in 1..16 : \E left \in SUBSET Ensured(Script[k].table) :
        /\ frame = [at |-> "add", step |-> k, left |-> left]
        /\ UpTo(f, k) /\ Script[k].do = "columns"
        /\ left # {} /\ Ensured(Script[k].table) \ left \subseteq f.columns[Script[k].table]

OpenedAs(frame, f) ==
    \/ frame = Closed
    \/ frame = [at |-> "create"]
    \/ IsFile(f) /\ frame = [at |-> "serving"] /\ UpTo(f, 17)
    \/ IsFile(f) /\ \E k \in 1..16 : frame = [at |-> "run", step |-> k] /\ UpTo(f, k)
    \/ IsFile(f) /\ AtAdd(frame, f)

(* An open that no other program disturbs does not find the file, or the   *)
(* column it is about to make, there already.                              *)
Undisturbed(frame, f) ==
    /\ frame.at = "create" => f = NoFile
    /\ frame.at = "add" => frame.left \cap f.columns[Script[frame.step].table] = {}

MovedAs(frame) ==
    \/ frame \in {Waiting, Over, [at |-> "unlink"]}
    \/ frame = [at |-> "copy"] /\ IsFile(source)
    \/ \E f : frame = [at |-> "link", copy |-> f] /\ IsFile(f)

FileInv ==
    /\ db = NoFile \/ IsFile(db)
    /\ source = NoFile \/ IsFile(source)
    /\ DOMAIN open = Servers /\ DOMAIN move = Movers
    /\ overlapped \in BOOLEAN /\ failed \in BOOLEAN

OpensInv == \A p \in Servers : OpenedAs(open[p], db)
MovesInv == \A m \in Movers : MovedAs(move[m])

RaceInv ==
    /\ failed => overlapped \/ (IsFile(db) /\ db.keyless > 1)
    /\ ~overlapped =>
        /\ \A p \in Opening : Moving = {} /\ \A q \in Opening : p = q
        /\ \A p \in Servers : Undisturbed(open[p], db)

FactsInv ==
    /\ db = NoFile => published = {} /\ served = {}
    /\ IsFile(db) => published \cup served \subseteq db.facts

OpeningInv == FileInv /\ OpensInv /\ MovesInv /\ RaceInv /\ FactsInv

(* A missing file is no file.                                              *)
LEMMA NotThere == NoFile.there = FALSE /\ ~IsFile(NoFile)
BY DEF NoFile, IsFile, FileFields

(* The file is there exactly when it is one.                               *)
LEMMA There == FileInv => (IsFile(db) <=> db.there)
BY NotThere DEF FileInv, IsFile

(* What is known of an open at each of its stages.                         *)
LEMMA FrameAt ==
    ASSUME NEW frame, NEW f, OpenedAs(frame, f), NEW do
    PROVE  /\ frame.at \in {"closed", "create", "serving", "run", "add"}
           /\ frame.at = "closed" => frame = Closed
           /\ frame.at = "create" => frame = [at |-> "create"]
           /\ frame.at = "serving" => frame = [at |-> "serving"] /\ IsFile(f) /\ UpTo(f, 17)
           /\ frame.at = "run" => /\ frame = [at |-> "run", step |-> frame.step]
                                  /\ frame.step \in 1..16 /\ IsFile(f) /\ UpTo(f, frame.step)
           /\ frame.at = "add" => AtAdd(frame, f) /\ IsFile(f)
<1>1. CASE frame = Closed
  BY <1>1 DEF Closed
<1>2. CASE frame = [at |-> "create"]
  BY <1>2
<1>3. CASE IsFile(f) /\ frame = [at |-> "serving"] /\ UpTo(f, 17)
  BY <1>3
<1>4. CASE IsFile(f) /\ \E k \in 1..16 : frame = [at |-> "run", step |-> k] /\ UpTo(f, k)
  <2>1. PICK k \in 1..16 : frame = [at |-> "run", step |-> k] /\ UpTo(f, k)
    BY <1>4
  <2>2. frame.at = "run" /\ frame.step = k
    BY <2>1
  <2> QED BY <1>4, <2>1, <2>2
<1>5. CASE IsFile(f) /\ AtAdd(frame, f)
  <2>1. frame.at = "add"
    BY <1>5 DEF AtAdd
  <2> QED BY <1>5, <2>1
<1> QED
  BY <1>1, <1>2, <1>3, <1>4, <1>5 DEF OpenedAs

(* An open is where it was in a file that grew under it.                   *)
LEMMA FrameStays ==
    ASSUME NEW frame, NEW f, NEW g, OpenedAs(frame, f), Grows(f, g)
    PROVE  OpenedAs(frame, g)
<1>1. IsFile(g)
  BY DEF Grows
<1>2. CASE IsFile(f) /\ frame = [at |-> "serving"] /\ UpTo(f, 17)
  BY <1>1, <1>2, UpToStays DEF OpenedAs
<1>3. CASE IsFile(f) /\ \E k \in 1..16 : frame = [at |-> "run", step |-> k] /\ UpTo(f, k)
  BY <1>1, <1>3, UpToStays DEF OpenedAs
<1>4. CASE IsFile(f) /\ AtAdd(frame, f)
  <2>k. PICK k \in 1..16 : \E left \in SUBSET Ensured(Script[k].table) :
            /\ frame = [at |-> "add", step |-> k, left |-> left]
            /\ UpTo(f, k) /\ Script[k].do = "columns"
            /\ left # {} /\ Ensured(Script[k].table) \ left \subseteq f.columns[Script[k].table]
    BY <1>4 DEF AtAdd
  <2>1. PICK left \in SUBSET Ensured(Script[k].table) :
            /\ frame = [at |-> "add", step |-> k, left |-> left]
            /\ UpTo(f, k) /\ Script[k].do = "columns"
            /\ left # {} /\ Ensured(Script[k].table) \ left \subseteq f.columns[Script[k].table]
    BY <2>k
  <2> DEFINE t == Script[k].table
  <2>2. PICK j \in 1..k - 1 : Script[j].do = "create" /\ Script[j].table = t
    BY <2>1, ScriptOrder
  <2>3. t \in DOMAIN f.columns
    BY <2>1, <2>2 DEF UpTo, HasEffect
  <2>4. f.columns[t] \subseteq g.columns[t]
    BY <1>4, <2>3 DEF Grows
  <2>5. UpTo(g, k)
    BY <1>4, <2>1, UpToStays
  <2>6. AtAdd(frame, g)
    BY <2>1, <2>4, <2>5 DEF AtAdd
  <2> QED BY <1>1, <2>6 DEF OpenedAs
<1> QED
  BY <1>2, <1>3, <1>4 DEF OpenedAs

(* One open goes on, in a file that stays what it is or grows.             *)
LEMMA OpenerStep ==
    ASSUME OpeningInv, NEW p \in Servers, NEW frame, Steps(p, frame),
           p \in Opening \/ frame = Closed,
           IsFile(db) => Grows(db, db'), db = NoFile => db' = NoFile \/ IsFile(db'),
           db = NoFile => published = {} /\ served = {},
           IsFile(db') /\ db = NoFile => overlapped \/ p \in Opening,
           UNCHANGED <<overlapped, served, moveVars>>,
           failed' \in BOOLEAN, failed' /\ ~failed => overlapped \/ (IsFile(db') /\ db'.keyless > 1),
           OpenedAs(frame, db'), ~overlapped => Undisturbed(frame, db'),
           db' = db \/ p \in Opening
    PROVE  OpeningInv'
<1> USE DEF OpeningInv
<1>0. UNCHANGED <<overlapped, served, source, move, temporaries, published>>
  BY DEF moveVars
<1>1. DOMAIN open' = Servers /\ \A q \in Servers : open'[q] = IF q = p THEN frame ELSE open[q]
  BY DEF FileInv, Steps
<1>2. FileInv'
  <2>1. db' = NoFile \/ IsFile(db')
    BY DEF FileInv, Grows
  <2> QED BY <2>1, <1>0, <1>1 DEF FileInv
<1>3. OpensInv'
  <2> SUFFICES ASSUME NEW q \in Servers, q # p PROVE OpenedAs(open[q], db')
    BY <1>1 DEF OpensInv
  <2>1. OpenedAs(open[q], db)
    BY DEF OpensInv
  <2>2. CASE IsFile(db)
    BY <2>1, <2>2, FrameStays
  <2>3. CASE db = NoFile
    BY <2>1, <2>3, NotThere DEF OpenedAs
  <2> QED BY <2>2, <2>3 DEF FileInv
<1>4. MovesInv'
  BY <1>0 DEF MovesInv, MovedAs, FileInv
<1>5. FactsInv'
  <2>1. CASE IsFile(db)
    BY <2>1, <1>0, NotThere DEF FactsInv, Grows
  <2>2. CASE db = NoFile
    BY <2>2, <1>0, NotThere DEF FactsInv
  <2> QED BY <2>1, <2>2 DEF FileInv
<1>6. RaceInv'
  <2>1. ASSUME failed' PROVE overlapped' \/ (IsFile(db') /\ db'.keyless > 1)
    <3>1. CASE ~failed
      BY <2>1, <3>1, <1>0
    <3>2. CASE failed /\ ~overlapped
      <4>1. IsFile(db) /\ db.keyless > 1
        BY <3>2 DEF RaceInv
      <4>2. db.keyless <= db'.keyless /\ db.keyless \in Nat /\ IsFile(db') /\ db'.keyless \in Nat
        BY <4>1 DEF Grows, IsFile
      <4> QED BY <4>1, <4>2
    <3> QED BY <3>1, <3>2, <1>0
  <2>2. ASSUME ~overlapped PROVE /\ \A q \in Opening' : Moving' = {} /\ \A r \in Opening' : q = r
                                 /\ \A q \in Servers : Undisturbed(open'[q], db')
    <3>1. \A q \in Opening : Moving = {} /\ \A r \in Opening : q = r
      BY <2>2 DEF RaceInv
    <3>2. \A q \in Servers : Undisturbed(open[q], db)
      BY <2>2 DEF RaceInv
    <3>3. CASE p \in Opening
      <4>1. \A q \in Servers \ {p} : open[q].at \in {"closed", "serving"}
        BY <3>1, <3>3 DEF Opening
      <4>2. Opening' \subseteq {p} /\ Moving' = {}
        BY <4>1, <3>1, <3>3, <1>0, <1>1 DEF Opening, Moving
      <4>3. \A q \in Servers \ {p} : Undisturbed(open'[q], db')
        BY <4>1, <1>1 DEF Undisturbed
      <4> QED BY <4>2, <4>3, <1>1, <2>2
    <3>4. CASE p \notin Opening
      <4>1. frame.at = "closed" /\ db' = db
        BY <3>4 DEF Closed
      <4>2. Opening' \subseteq Opening /\ Moving' = Moving
        BY <4>1, <1>0, <1>1 DEF Opening, Moving
      <4>3. \A q \in Servers : Undisturbed(open'[q], db')
        BY <4>1, <3>2, <1>1, <2>2
      <4> QED BY <4>2, <4>3, <3>1
    <3> QED BY <3>3, <3>4
  <2> QED BY <2>1, <2>2, <1>0 DEF RaceInv
<1> QED
  BY <1>2, <1>3, <1>4, <1>5, <1>6

(* A statement of migrate() is done, and the open goes on behind it.       *)
LEMMA StatementDone ==
    ASSUME OpeningInv, NEW p \in Servers, open[p].at \in {"run", "add"}, open[p].step \in 1..16,
           NextStep(p), IsFile(db), UpTo(db, open[p].step), Grows(db, db'),
           HasEffect(db', Script[open[p].step]),
           UNCHANGED <<overlapped, failed, served, moveVars>>
    PROVE  OpeningInv'
<1> DEFINE k == open[p].step
           frame == IF k = 16 THEN [at |-> "serving"] ELSE [at |-> "run", step |-> k + 1]
<1>1. Steps(p, frame)
  BY ScriptLength DEF NextStep
<1>2. UpTo(db', k + 1) /\ IsFile(db')
  BY UpToStays, OneMore DEF Grows
<1>3. OpenedAs(frame, db')
  <2>1. CASE k = 16
    BY <2>1, <1>2 DEF OpenedAs
  <2>2. CASE k # 16
    <3>1. k + 1 \in 1..16
      BY <2>2
    <3> QED BY <2>2, <3>1, <1>2 DEF OpenedAs
  <2> QED BY <2>1, <2>2
<1>4. Undisturbed(frame, db')
  BY DEF Undisturbed
<1>5. p \in Opening
  BY DEF Opening
<1>6. failed \in BOOLEAN /\ db # NoFile
  BY NotThere DEF OpeningInv, FileInv
<1> HIDE DEF frame, k
<1> QED
  BY <1>1, <1>2, <1>3, <1>4, <1>5, <1>6, OpenerStep

(* An open returns an error.                                               *)
LEMMA OpenFailed ==
    ASSUME OpeningInv, NEW p \in Servers, p \in Opening, OpenFails(p),
           overlapped \/ (IsFile(db) /\ db.keyless > 1),
           UNCHANGED <<overlapped, served, moveVars>>
    PROVE  OpeningInv'
<1>1. Steps(p, Closed) /\ failed' = TRUE /\ db' = db
  BY DEF OpenFails
<1>2. OpenedAs(Closed, db') /\ Undisturbed(Closed, db')
  BY DEF OpenedAs, Undisturbed, Closed
<1>3. IsFile(db) => Grows(db, db')
  BY <1>1, SameFile
<1>4. db = NoFile => published = {} /\ served = {}
  BY DEF OpeningInv, FactsInv
<1> QED
  BY <1>1, <1>2, <1>3, <1>4, OpenerStep

(* The frame of a running statement.                                       *)
LEMMA RunningFacts ==
    ASSUME OpeningInv, NEW p \in Servers, NEW do, Running(p, do)
    PROVE  /\ open[p].at = "run" /\ open[p].step \in 1..16 /\ IsFile(db) /\ UpTo(db, open[p].step)
           /\ Script[open[p].step].do = do /\ p \in Opening
           /\ open[p] = [at |-> "run", step |-> open[p].step]
<1>1. OpenedAs(open[p], db) /\ open[p].at = "run" /\ Script[open[p].step].do = do
  BY DEF OpeningInv, OpensInv, Running
<1> QED
  BY <1>1, FrameAt DEF Opening

(* CREATE TABLE IF NOT EXISTS.                                             *)
LEMMA CreateTableStep ==
    ASSUME OpeningInv, NEW p \in Servers, CreateTable(p), UNCHANGED moveVars PROVE OpeningInv'
<1> DEFINE t == Table(p)
<1>1. /\ open[p].at = "run" /\ open[p].step \in 1..16 /\ IsFile(db) /\ UpTo(db, open[p].step)
      /\ Script[open[p].step].do = "create"
  BY RunningFacts DEF CreateTable
<1>2. /\ NextStep(p) /\ UNCHANGED <<overlapped, failed, served>>
      /\ db' = IF t \in DOMAIN db.columns THEN db
               ELSE [db EXCEPT !.columns = WithTable(@, t, Created(t))]
  BY DEF CreateTable, Done
<1> HIDE DEF t
<1>3. Grows(db, db') /\ t \in DOMAIN db'.columns
  BY <1>1, <1>2, SameFile, FileTable
<1>4. HasEffect(db', Script[open[p].step])
  BY <1>1, <1>3 DEF HasEffect, t, Table
<1> QED
  BY <1>1, <1>2, <1>3, <1>4, StatementDone

(* The columns a table lacks are looked up.                                *)
LEMMA ReadColumnsStep ==
    ASSUME OpeningInv, NEW p \in Servers, ReadColumns(p), UNCHANGED moveVars PROVE OpeningInv'
<1> DEFINE k == open[p].step
           t == Script[k].table
           missing == Ensured(t) \ db.columns[t]
<1>1. /\ open[p].at = "run" /\ k \in 1..16 /\ IsFile(db) /\ UpTo(db, k)
      /\ Script[k].do = "columns" /\ p \in Opening
  BY RunningFacts DEF ReadColumns
<1>2. /\ UNCHANGED <<db, overlapped, failed, served>>
      /\ IF missing = {} THEN NextStep(p)
         ELSE Steps(p, [at |-> "add", step |-> k, left |-> missing])
  BY DEF ReadColumns, Table
<1>3. PICK j \in 1..k - 1 : Script[j].do = "create" /\ Script[j].table = t
  BY <1>1, ScriptOrder
<1>4. t \in DOMAIN db.columns
  BY <1>1, <1>3 DEF UpTo, HasEffect
<1>5. Grows(db, db')
  BY <1>1, <1>2, SameFile
<1>6. CASE missing = {}
  <2>1. HasEffect(db', Script[k])
    BY <1>1, <1>2, <1>4, <1>6 DEF HasEffect
  <2> QED BY <1>1, <1>2, <1>5, <1>6, <2>1, StatementDone
<1>7. CASE missing # {}
  <2> DEFINE frame == [at |-> "add", step |-> k, left |-> missing]
  <2>1. frame.at = "add" /\ frame.left = missing /\ frame.step = k
    OBVIOUS
  <2>2. AtAdd(frame, db')
    BY <1>1, <1>2, <1>7 DEF AtAdd
  <2>3. OpenedAs(frame, db')
    BY <1>1, <1>2, <2>2 DEF OpenedAs
  <2>4. Undisturbed(frame, db')
    BY <1>2, <2>1 DEF Undisturbed
  <2>5. Steps(p, frame)
    BY <1>2, <1>7
  <2>6. failed \in BOOLEAN /\ db # NoFile
    BY <1>1, NotThere DEF OpeningInv, FileInv
  <2> HIDE DEF frame
  <2> QED BY <1>1, <1>2, <1>5, <2>3, <2>4, <2>5, <2>6, OpenerStep
<1> QED
  BY <1>6, <1>7

(* One of them is added, or found added by another program.                *)
LEMMA AddColumnStep ==
    ASSUME OpeningInv, NEW p \in Servers, AddColumn(p), UNCHANGED moveVars PROVE OpeningInv'
<1>0. OpenedAs(open[p], db) /\ open[p].at = "add" /\ p \in Opening
  BY DEF OpeningInv, OpensInv, AddColumn, Opening
<1>1. AtAdd(open[p], db) /\ IsFile(db)
  BY <1>0, FrameAt
<1>2. PICK k \in 1..16 : \E left \in SUBSET Ensured(Script[k].table) :
        /\ open[p] = [at |-> "add", step |-> k, left |-> left]
        /\ UpTo(db, k) /\ Script[k].do = "columns"
        /\ left # {} /\ Ensured(Script[k].table) \ left \subseteq db.columns[Script[k].table]
  BY <1>1 DEF AtAdd
<1> DEFINE t == Script[k].table
<1>3. PICK left \in SUBSET Ensured(t) :
        /\ open[p] = [at |-> "add", step |-> k, left |-> left]
        /\ UpTo(db, k) /\ Script[k].do = "columns"
        /\ left # {} /\ Ensured(t) \ left \subseteq db.columns[t]
  BY <1>2
<1>4. open[p].step = k /\ open[p].left = left /\ Table(p) = t
  BY <1>3 DEF Table
<1>5. PICK c : c = CHOOSE x \in left : TRUE
  OBVIOUS
<1>6. c \in left
  BY <1>3, <1>5
<1>7. /\ IF c \in db.columns[t] THEN OpenFails(p)
         ELSE /\ db' = [db EXCEPT !.columns[t] = @ \cup {c}]
              /\ IF left = {c} THEN NextStep(p)
                 ELSE Steps(p, [open[p] EXCEPT !.left = @ \ {c}])
              /\ UNCHANGED failed
      /\ UNCHANGED <<overlapped, served>>
  BY <1>4, <1>5 DEF AddColumn
<1>8. PICK j \in 1..k - 1 : Script[j].do = "create" /\ Script[j].table = t
  BY <1>3, ScriptOrder
<1>9. t \in DOMAIN db.columns
  BY <1>3, <1>8 DEF UpTo, HasEffect
<1> HIDE DEF t
<1>10. CASE c \in db.columns[t]
  <2>1. ASSUME ~overlapped PROVE FALSE
    <3>1. Undisturbed(open[p], db)
      BY <2>1 DEF OpeningInv, RaceInv
    <3>2. left \cap db.columns[t] = {}
      BY <3>1, <1>0, <1>4 DEF Undisturbed, t
    <3> QED BY <3>2, <1>6, <1>10
  <2> QED BY <1>0, <1>7, <1>10, <2>1, OpenFailed
<1>11. CASE c \notin db.columns[t]
  <2>1. Grows(db, db') /\ db'.columns[t] = db.columns[t] \cup {c}
    <3>1. db' = WithColumn(db, t, c)
      BY <1>7, <1>11 DEF WithColumn
    <3> QED BY <3>1, <1>1, <1>9, FileColumn
  <2>2. IsFile(db') /\ UpTo(db', k)
    BY <2>1, <1>1, <1>3, UpToStays DEF Grows
  <2>3. CASE left = {c}
    <3>1. t \in DOMAIN db'.columns
      BY <2>1, <1>1, <1>9 DEF Grows
    <3>2. HasEffect(db', Script[k])
      BY <2>1, <2>3, <3>1, <1>3 DEF HasEffect, t
    <3> QED BY <1>0, <1>1, <1>3, <1>4, <1>7, <1>11, <2>1, <2>3, <3>2, StatementDone
  <2>4. CASE left # {c}
    <3> DEFINE frame == [at |-> "add", step |-> k, left |-> left \ {c}]
    <3>1. [open[p] EXCEPT !.left = @ \ {c}] = frame
      BY <1>3
    <3>2. frame.at = "add" /\ frame.step = k /\ frame.left = left \ {c}
      OBVIOUS
    <3>3. Steps(p, frame)
      BY <1>7, <1>11, <2>4, <3>1
    <3>4. left \ {c} # {} /\ left \ {c} \in SUBSET Ensured(t)
      BY <2>4, <1>6
    <3>5. Ensured(t) \ (left \ {c}) \subseteq db'.columns[t]
      BY <2>1, <1>3, <1>6
    <3>6. AtAdd(frame, db')
      BY <1>3, <2>2, <3>4, <3>5 DEF AtAdd, t
    <3>7. OpenedAs(frame, db')
      BY <2>2, <3>6 DEF OpenedAs
    <3>8. ASSUME ~overlapped PROVE Undisturbed(frame, db')
      <4>1. left \cap db.columns[t] = {}
        BY <3>8, <1>0, <1>4 DEF OpeningInv, RaceInv, Undisturbed, t
      <4> QED BY <4>1, <2>1, <3>2 DEF Undisturbed, t
    <3>9. failed \in BOOLEAN /\ failed' = failed /\ db # NoFile
      BY <1>1, <1>7, <1>11, NotThere DEF OpeningInv, FileInv
    <3> HIDE DEF frame
    <3> QED BY <1>0, <1>1, <1>7, <2>1, <3>3, <3>7, <3>8, <3>9, OpenerStep
  <2> QED BY <2>3, <2>4
<1> QED
  BY <1>10, <1>11

(* The other statements.                                                   *)
LEMMA LaterStatements ==
    ASSUME OpeningInv, NEW p \in Servers, UNCHANGED moveVars,
           Fill(p) \/ Unique(p) \/ Index(p) \/ Triggers(p) \/ Rebuild(p)
    PROVE  OpeningInv'
<1> DEFINE k == open[p].step
<1>1. ASSUME NEW do, Running(p, do), NEW g, Done(p, g), Grows(db, g), HasEffect(g, Script[k])
      PROVE  OpeningInv'
  <2>1. NextStep(p) /\ db' = g /\ UNCHANGED <<overlapped, failed, served>>
    BY <1>1 DEF Done
  <2>2. open[p].at = "run" /\ k \in 1..16 /\ IsFile(db) /\ UpTo(db, k)
    BY <1>1, RunningFacts
  <2> QED BY <1>1, <2>1, <2>2, StatementDone
<1>2. CASE Fill(p)
  <2>1. Running(p, "fill") /\ Done(p, [db EXCEPT !.blank = @ \ {Table(p)}])
    BY <1>2 DEF Fill
  <2>2. PICK g : g = [db EXCEPT !.blank = @ \ {Table(p)}]
    OBVIOUS
  <2>3. IsFile(db) /\ Script[k].do = "fill"
    BY <2>1, RunningFacts
  <2>4. Grows(db, g)
    BY <2>2, <2>3, FileFilled
  <2>5. HasEffect(g, Script[k])
    BY <2>3 DEF HasEffect
  <2> QED BY <2>1, <2>2, <2>4, <2>5, <1>1
<1>3. CASE Unique(p)
  <2>1. Running(p, "unique") /\ IsFile(db) /\ Script[k].do = "unique" /\ p \in Opening
    BY <1>3, RunningFacts DEF Unique
  <2>2. CASE ~db.unique /\ db.keyless > 1
    BY <1>3, <2>1, <2>2, OpenFailed DEF Unique
  <2>3. CASE ~(~db.unique /\ db.keyless > 1)
    <3>1. PICK g : g = [db EXCEPT !.unique = TRUE]
      OBVIOUS
    <3>2. Done(p, g)
      BY <1>3, <2>3, <3>1 DEF Unique
    <3>3. Grows(db, g) /\ g.unique
      BY <2>1, <3>1, FileUnique
    <3>4. HasEffect(g, Script[k])
      BY <2>1, <3>3 DEF HasEffect
    <3> QED BY <2>1, <3>2, <3>3, <3>4, <1>1
  <2> QED BY <2>2, <2>3
<1>4. CASE Index(p)
  <2>1. /\ Running(p, "index") /\ IsFile(db) /\ Script[k].do = "index"
        /\ k \in 1..16 /\ UpTo(db, k)
    BY <1>4, RunningFacts DEF Index
  <2>2. PICK j \in 1..k - 1 : Script[j].do = "columns" /\ Script[j].table = Script[k].table
    BY <2>1, ScriptOrder
  <2>3. Ensured(Table(p)) \subseteq db.columns[Table(p)]
    BY <2>1, <2>2 DEF UpTo, HasEffect, Table
  <2>4. Done(p, db)
    BY <1>4, <2>3 DEF Index
  <2>5. HasEffect(db, Script[k])
    BY <2>1 DEF HasEffect
  <2> QED BY <2>1, <2>4, <2>5, <1>1, SameFile
<1>5. CASE Triggers(p)
  <2>1. Running(p, "triggers") /\ IsFile(db) /\ Script[k].do = "triggers"
    BY <1>5, RunningFacts DEF Triggers
  <2>2. PICK g : g = [db EXCEPT !.triggers = TRUE]
    OBVIOUS
  <2>3. Done(p, g)
    BY <1>5, <2>2 DEF Triggers
  <2>4. Grows(db, g) /\ g.triggers
    BY <2>1, <2>2, FileTriggers
  <2>5. HasEffect(g, Script[k])
    BY <2>1, <2>4 DEF HasEffect
  <2> QED BY <2>1, <2>3, <2>4, <2>5, <1>1
<1>6. CASE Rebuild(p)
  <2>1. /\ Running(p, "rebuild") /\ IsFile(db) /\ Script[k].do = "rebuild"
        /\ k \in 1..16 /\ UpTo(db, k)
    BY <1>6, RunningFacts DEF Rebuild
  <2>2. PICK j \in 1..k - 1 : Script[j].do = "triggers"
    BY <2>1, ScriptOrder
  <2>3. db.triggers
    BY <2>1, <2>2 DEF UpTo, HasEffect
  <2>4. PICK g : g = [db EXCEPT !.indexed = db.facts]
    OBVIOUS
  <2>5. Done(p, g)
    BY <1>6, <2>4 DEF Rebuild
  <2>6. Grows(db, g) /\ g.triggers = db.triggers /\ g.indexed = g.facts
    BY <2>1, <2>4, FileIndexed
  <2>7. HasEffect(g, Script[k])
    BY <2>1, <2>3, <2>6 DEF HasEffect
  <2> QED BY <2>1, <2>5, <2>6, <2>7, <1>1
<1> QED
  BY <1>2, <1>3, <1>4, <1>5, <1>6

(* The file is created, unless another program has.                        *)
LEMMA CreateFileStep ==
    ASSUME OpeningInv, NEW p \in Servers, CreateFile(p), UNCHANGED moveVars PROVE OpeningInv'
<1>0. /\ open[p].at = "create" /\ p \in Opening
      /\ UNCHANGED <<overlapped, served>>
      /\ IF db.there THEN OpenFails(p)
         ELSE db' = EmptyFile /\ Steps(p, [at |-> "run", step |-> 1]) /\ UNCHANGED failed
  BY DEF CreateFile, Opening
<1>1. IsFile(db) <=> db.there
  BY There DEF OpeningInv
<1>2. CASE db.there
  <2>1. ASSUME ~overlapped PROVE FALSE
    BY <2>1, <1>0, <1>1, <1>2, NotThere DEF OpeningInv, RaceInv, Undisturbed
  <2> QED BY <1>0, <1>2, <2>1, OpenFailed
<1>3. CASE ~db.there
  <2> DEFINE frame == [at |-> "run", step |-> 1]
  <2>1. UpTo(EmptyFile, 1)
    BY DEF UpTo
  <2>2. OpenedAs(frame, db') /\ Undisturbed(frame, db')
    BY <1>0, <1>3, <2>1, EmptyIsFile DEF OpenedAs, Undisturbed
  <2>3. ~IsFile(db) /\ IsFile(db') /\ failed \in BOOLEAN /\ Steps(p, frame) /\ failed' = failed
    BY <1>0, <1>1, <1>3, EmptyIsFile DEF OpeningInv, FileInv
  <2>4. db = NoFile /\ published = {} /\ served = {}
    BY <2>3 DEF OpeningInv, FileInv, FactsInv
  <2> HIDE DEF frame
  <2> QED BY <1>0, <2>2, <2>3, <2>4, OpenerStep
<1> QED
  BY <1>2, <1>3

(* A server is killed, in whatever it was doing.                           *)
LEMMA KillServerStep ==
    ASSUME OpeningInv, NEW p \in Servers, KillServer(p), UNCHANGED moveVars PROVE OpeningInv'
<1>1. Steps(p, Closed) /\ UNCHANGED <<db, overlapped, failed, served>>
  BY DEF KillServer
<1>2. OpenedAs(Closed, db') /\ Undisturbed(Closed, db')
  BY DEF OpenedAs, Undisturbed, Closed
<1>3. IsFile(db) => Grows(db, db')
  BY <1>1, SameFile
<1>4. (db = NoFile => published = {} /\ served = {}) /\ failed \in BOOLEAN
  BY DEF OpeningInv, FactsInv, FileInv
<1>5. db = NoFile => ~IsFile(db')
  BY <1>1, NotThere
<1> QED
  BY <1>1, <1>2, <1>3, <1>4, <1>5, OpenerStep

(* The process looks for the file.                                         *)
LEMMA OpenStep ==
    ASSUME OpeningInv, NEW p \in Servers, Open(p, Moving # {}), UNCHANGED moveVars PROVE OpeningInv'
<1> USE DEF OpeningInv
<1> DEFINE frame == IF db.there THEN [at |-> "run", step |-> 1] ELSE [at |-> "create"]
<1>1. /\ open[p] = Closed /\ Steps(p, frame)
      /\ overlapped' = (overlapped \/ Moving # {} \/ Opening # {})
      /\ UNCHANGED <<db, failed, served, source, move, published>>
  BY DEF Open, moveVars
<1>2. IsFile(db) <=> db.there
  BY There
<1>3. OpenedAs(frame, db)
  BY <1>2 DEF OpenedAs, UpTo
<1>4. Undisturbed(frame, db)
  BY <1>2 DEF Undisturbed, FileInv
<1> HIDE DEF frame
<1>5. DOMAIN open' = Servers /\ \A q \in Servers : open'[q] = IF q = p THEN frame ELSE open[q]
  BY <1>1 DEF FileInv, Steps
<1>6. FileInv' /\ MovesInv' /\ FactsInv'
  BY <1>1, <1>5 DEF FileInv, MovesInv, MovedAs, FactsInv
<1>7. OpensInv'
  BY <1>1, <1>3, <1>5 DEF OpensInv
<1>8. RaceInv'
  <2>1. failed' => overlapped' \/ (IsFile(db') /\ db'.keyless > 1)
    BY <1>1 DEF RaceInv
  <2>2. ASSUME ~overlapped' PROVE /\ \A q \in Opening' : Moving' = {} /\ \A r \in Opening' : q = r
                                  /\ \A q \in Servers : Undisturbed(open'[q], db')
    <3>1. Moving = {} /\ Opening = {} /\ ~overlapped
      BY <1>1, <2>2
    <3>2. Opening' \subseteq {p} /\ Moving' = {}
      BY <3>1, <1>1, <1>5 DEF Opening, Moving
    <3>3. \A q \in Servers : Undisturbed(open'[q], db')
      BY <3>1, <1>1, <1>4, <1>5 DEF RaceInv
    <3> QED BY <3>2, <3>3
  <2> QED BY <2>1, <2>2 DEF RaceInv
<1> QED
  BY <1>6, <1>7, <1>8

(* The file is written while nothing is opened.                            *)
LEMMA FileUsed ==
    ASSUME OpeningInv, IsFile(db), Grows(db, db'), db'.columns = db.columns,
           UNCHANGED <<open, overlapped, failed, moveVars>>,
           served' \subseteq served \cup db'.facts
    PROVE  OpeningInv'
<1> USE DEF OpeningInv
<1>0. UNCHANGED <<source, move, published>> /\ db # NoFile /\ IsFile(db') /\ db' # NoFile
  BY NotThere DEF moveVars, Grows
<1>1. FileInv' /\ MovesInv'
  BY <1>0 DEF FileInv, MovesInv, MovedAs
<1>2. OpensInv'
  BY FrameStays DEF OpensInv
<1>3. FactsInv'
  BY <1>0 DEF FactsInv, Grows
<1>4. RaceInv'
  <2>1. failed' => overlapped' \/ (IsFile(db') /\ db'.keyless > 1)
    BY <1>0 DEF RaceInv, Grows, IsFile
  <2>2. \A q \in Servers : Undisturbed(open[q], db) => Undisturbed(open[q], db')
    BY <1>0 DEF Undisturbed
  <2>3. Opening' = Opening /\ Moving' = Moving
    BY <1>0 DEF Opening, Moving
  <2> QED BY <2>1, <2>2, <2>3 DEF RaceInv
<1> QED
  BY <1>1, <1>2, <1>3, <1>4

(* A server, or an older program, writes.                                  *)
LEMMA WritesStep ==
    ASSUME OpeningInv, UNCHANGED moveVars,
           \/ \E p \in Servers, r \in FactRows : RememberFact(p, r)
           \/ OlderWritesEvent \/ \E r \in FactRows : OlderWritesFact(r)
    PROVE  OpeningInv'
<1>1. ASSUME NEW r, db' = Written(r), IsFile(db)
      PROVE  Grows(db, db') /\ db'.facts = db.facts \cup {r} /\ db'.columns = db.columns
  <2>1. db' = WithFact(db, r)
    BY <1>1 DEF Written, WithFact
  <2> QED BY <1>1, <2>1, FileWritten
<1>2. ASSUME NEW p \in Servers, NEW r \in FactRows, RememberFact(p, r) PROVE OpeningInv'
  <2>1. OpenedAs(open[p], db) /\ open[p].at = "serving"
    BY <1>2 DEF OpeningInv, OpensInv, RememberFact
  <2>2. IsFile(db)
    BY <2>1, FrameAt
  <2>3. db' = Written(r) /\ UNCHANGED <<open, overlapped, failed>> /\ served' = served \cup {r}
    BY <1>2 DEF RememberFact
  <2> QED BY <2>2, <2>3, <1>1, FileUsed
<1>3. ASSUME NEW r \in FactRows, OlderWritesFact(r) PROVE OpeningInv'
  <2>1. IsFile(db)
    BY <1>3, There DEF OlderWritesFact, OpeningInv
  <2>2. db' = Written(r) /\ UNCHANGED <<open, overlapped, failed, served>>
    BY <1>3 DEF OlderWritesFact
  <2> QED BY <2>1, <2>2, <1>1, FileUsed
<1>4. ASSUME OlderWritesEvent PROVE OpeningInv'
  <2>1. IsFile(db)
    BY <1>4, There DEF OlderWritesEvent, OpeningInv
  <2>2. db' = [db EXCEPT !.keyless = @ + 1] /\ UNCHANGED <<open, overlapped, failed, served>>
    BY <1>4 DEF OlderWritesEvent
  <2>3. Grows(db, db') /\ db'.columns = db.columns
    BY <2>1, <2>2, FileKeyless
  <2> QED BY <2>1, <2>2, <2>3, FileUsed
<1> QED
  BY <1>2, <1>3, <1>4

(* What is known of a migration at each of its stages.                     *)
LEMMA MoveAt ==
    ASSUME NEW frame, MovedAs(frame)
    PROVE  /\ frame.at = "copy" => IsFile(source)
           /\ frame.at = "link" => IsFile(frame.copy)
<1>1. CASE frame \in {Waiting, Over, [at |-> "unlink"]}
  BY <1>1 DEF Waiting, Over
<1>2. CASE frame = [at |-> "copy"] /\ IsFile(source)
  BY <1>2
<1>3. CASE \E f : frame = [at |-> "link", copy |-> f] /\ IsFile(f)
  <2>1. PICK f : frame = [at |-> "link", copy |-> f] /\ IsFile(f)
    BY <1>3
  <2>2. frame.at = "link" /\ frame.copy = f
    BY <2>1
  <2> QED BY <2>1, <2>2
<1> QED
  BY <1>1, <1>2, <1>3 DEF MovedAs

(* The steps of migrations.                                                *)
LEMMA MoversStep ==
    ASSUME OpeningInv,
           \/ \E m \in Movers : Validate(m) \/ Copy(m) \/ Link(m) \/ Unlink(m) \/ KillMover(m)
           \/ \E r \in FactRows : SourceWritten(r)
    PROVE  OpeningInv'
<1> USE DEF OpeningInv
<1>m. ASSUME NEW m \in Movers, NEW frame, Moves(m, frame), UNCHANGED <<open, failed, source, served>>,
             \/ overlapped' = (overlapped \/ Opening # {})
             \/ overlapped' = overlapped /\ m \in Moving,
             \/ db' = db /\ published' = published
             \/ /\ IsFile(db') /\ db = NoFile /\ m \in Moving
                /\ published' \subseteq published \cup db'.facts,
             MovedAs(frame)
      PROVE  OpeningInv'
  <2>1. DOMAIN move' = Movers /\ \A n \in Movers : move'[n] = IF n = m THEN frame ELSE move[n]
    BY <1>m DEF FileInv, Moves
  <2>2. FileInv'
    BY <1>m, <2>1 DEF FileInv
  <2>3. OpensInv'
    <3>1. db # NoFile => db' = db
      BY <1>m
    <3>2. ASSUME NEW q \in Servers PROVE OpenedAs(open[q], db')
      BY <3>1, NotThere DEF OpensInv, OpenedAs
    <3> QED BY <3>2, <1>m DEF OpensInv
  <2>4. MovesInv'
    BY <1>m, <2>1 DEF MovesInv, MovedAs
  <2>5. FactsInv'
    BY <1>m, NotThere DEF FactsInv
  <2>6. RaceInv'
    <3>o. overlapped => overlapped'
      BY <1>m
    <3>d. IsFile(db) => db' = db
      BY <1>m, NotThere
    <3>1. failed' => overlapped' \/ (IsFile(db') /\ db'.keyless > 1)
      BY <1>m, <3>o, <3>d DEF RaceInv
    <3>2. ASSUME ~overlapped' PROVE Opening = {} /\ ~overlapped
      <4>1. CASE overlapped' = (overlapped \/ Opening # {})
        BY <3>2, <4>1
      <4>2. CASE overlapped' = overlapped /\ m \in Moving
        <5>1. ~overlapped
          BY <3>2, <4>2
        <5>2. \A p \in Opening : Moving = {}
          BY <5>1 DEF RaceInv
        <5> QED BY <4>2, <5>1, <5>2
      <4> QED BY <1>m, <4>1, <4>2
    <3>3. ASSUME ~overlapped' PROVE /\ Opening' = {}
                                    /\ \A q \in Servers : Undisturbed(open'[q], db')
      <4>1. Opening' = {}
        BY <3>2, <3>3, <1>m DEF Opening
      <4>2. \A q \in Servers : open'[q].at \in {"closed", "serving"}
        BY <4>1 DEF Opening
      <4> QED BY <4>1, <4>2 DEF Undisturbed
    <3> QED BY <3>1, <3>3 DEF RaceInv
  <2> QED BY <2>2, <2>3, <2>4, <2>5, <2>6
<1>1. ASSUME NEW m \in Movers, Validate(m) PROVE OpeningInv'
  <2> DEFINE frame == IF db.there THEN Over ELSE [at |-> "copy"]
  <2>1. /\ source.there /\ Moves(m, frame) /\ overlapped' = (overlapped \/ Opening # {})
        /\ UNCHANGED <<db, open, failed, served, source, published>>
    BY <1>1 DEF Validate
  <2>2. IsFile(source)
    BY <2>1, NotThere DEF FileInv
  <2>3. MovedAs(frame)
    BY <2>2 DEF MovedAs
  <2> HIDE DEF frame
  <2> QED BY <2>1, <2>3, <1>m
<1>2. ASSUME NEW m \in Movers, Copy(m) PROVE OpeningInv'
  <2> DEFINE fails == source.keyless > 1 \/ ~Matches(source, UpgradedCopy(source))
             frame == IF fails THEN Over ELSE [at |-> "link", copy |-> UpgradedCopy(source)]
  <2>1. move[m].at = "copy" /\ Moves(m, frame) /\ UNCHANGED <<schemaVars, source, published>>
    BY <1>2 DEF Copy
  <2>2. IsFile(source)
    BY <2>1, MoveAt DEF MovesInv
  <2>3. MovedAs(frame)
    BY <2>2, CopyIsFile DEF MovedAs
  <2>4. m \in Moving
    BY <2>1 DEF Moving
  <2> HIDE DEF frame
  <2> QED BY <2>1, <2>3, <2>4, <1>m DEF schemaVars
<1>3. ASSUME NEW m \in Movers, Link(m) PROVE OpeningInv'
  <2>1. /\ move[m].at = "link" /\ UNCHANGED <<open, overlapped, failed, served, source>>
        /\ IF db.there THEN Moves(m, Over) /\ UNCHANGED <<db, published>>
           ELSE /\ Moves(m, [at |-> "unlink"])
                /\ db' = move[m].copy /\ published' = published \cup db'.facts
    BY <1>3 DEF Link
  <2>2. m \in Moving
    BY <2>1 DEF Moving
  <2>3. IsFile(move[m].copy)
    BY <2>1, MoveAt DEF MovesInv
  <2>4. MovedAs(Over) /\ MovedAs([at |-> "unlink"])
    BY DEF MovedAs
  <2>5. CASE db.there
    BY <2>1, <2>2, <2>4, <2>5, <1>m
  <2>6. CASE ~db.there
    <3>1. db = NoFile
      BY <2>6, There DEF FileInv
    <3> QED BY <2>1, <2>2, <2>3, <2>4, <2>6, <3>1, <1>m
  <2> QED BY <2>5, <2>6
<1>4. ASSUME NEW m \in Movers, Unlink(m) PROVE OpeningInv'
  <2>1. move[m].at = "unlink" /\ Moves(m, Over) /\ UNCHANGED <<schemaVars, source, published>>
    BY <1>4 DEF Unlink
  <2>2. m \in Moving /\ MovedAs(Over)
    BY <2>1 DEF Moving, MovedAs
  <2> QED BY <2>1, <2>2, <1>m DEF schemaVars
<1>5. ASSUME NEW m \in Movers, KillMover(m) PROVE OpeningInv'
  <2>1. /\ m \in Moving /\ Moves(m, Over)
        /\ UNCHANGED <<db, open, overlapped, failed, served, source, published>>
    BY <1>5 DEF KillMover
  <2>2. MovedAs(Over)
    BY DEF MovedAs
  <2> QED BY <2>1, <2>2, <1>m
<1>6. ASSUME NEW r \in FactRows, SourceWritten(r) PROVE OpeningInv'
  <2>1. /\ source.there /\ source' = [source EXCEPT !.facts = @ \cup {r}]
        /\ UNCHANGED <<db, open, overlapped, failed, served, move, published>>
    BY <1>6 DEF SourceWritten, schemaVars
  <2>2. IsFile(source)
    BY <2>1, NotThere DEF FileInv
  <2>3. IsFile(source')
    BY <2>1, <2>2, FileFacts
  <2>4. FileInv' /\ MovesInv'
    BY <2>1, <2>2, <2>3 DEF FileInv, MovesInv, MovedAs
  <2>5. OpensInv' /\ FactsInv' /\ RaceInv'
    BY <2>1 DEF OpensInv, FactsInv, RaceInv, Opening, Moving
  <2> QED BY <2>4, <2>5
<1> QED
  BY <1>1, <1>2, <1>3, <1>4, <1>5, <1>6

(* The initial files.                                                      *)
LEMMA MigrationStart == (IF kind = "opening" THEN MigrationInit ELSE NoMigration) => OpeningInv
<1> SUFFICES ASSUME IF kind = "opening" THEN MigrationInit ELSE NoMigration PROVE OpeningInv
  OBVIOUS
<1>1. /\ SchemaInit /\ move = [m \in Movers |-> Waiting] /\ published = {}
      /\ db = NoFile \/ db \in OlderFiles
      /\ source = NoFile \/ source \in OlderFiles
  BY DEF MigrationInit, NoMigration, NothingYet
<1>2. /\ open = [p \in Servers |-> Closed] /\ overlapped = FALSE /\ failed = FALSE /\ served = {}
  BY <1>1 DEF SchemaInit
<1>3. FileInv
  BY <1>1, <1>2, OlderIsFile DEF FileInv
<1>4. OpensInv /\ MovesInv
  BY <1>1, <1>2 DEF OpensInv, OpenedAs, MovesInv, MovedAs
<1>5. Opening = {} /\ \A p \in Servers : Undisturbed(open[p], db)
  BY <1>2 DEF Opening, Undisturbed, Closed
<1>6. RaceInv /\ FactsInv
  BY <1>1, <1>2, <1>5 DEF RaceInv, FactsInv
<1> QED
  BY <1>3, <1>4, <1>6 DEF OpeningInv

(* Every step of an open, a migration or a write.                          *)
LEMMA MigrationStep == ASSUME OpeningInv, MigrationNext PROVE OpeningInv'
<1>1. ASSUME OpenNext, UNCHANGED moveVars PROVE OpeningInv'
  BY <1>1, CreateFileStep, CreateTableStep, ReadColumnsStep, AddColumnStep, LaterStatements,
     WritesStep, KillServerStep DEF OpenNext
<1> QED
  BY <1>1, OpenStep, WritesStep, MoversStep DEF MigrationNext

(* The invariant of opening and migrating holds throughout.                *)
LEMMA OpeningKept == Spec => []OpeningInv
<1>1. Init => OpeningInv
  BY MigrationStart DEF Init
<1>2. OpeningInv /\ [Next]_vars => OpeningInv'
  <2> SUFFICES ASSUME OpeningInv, [Next]_vars PROVE OpeningInv'
    OBVIOUS
  <2>1. CASE MigrationNext
    BY <2>1, MigrationStep
  <2>2. CASE UNCHANGED <<schemaVars, moveVars>>
    BY <2>2 DEF schemaVars, moveVars, OpeningInv, FileInv, OpensInv, MovesInv, MovedAs, RaceInv,
                FactsInv, Opening, Moving
  <2> QED BY <2>1, <2>2 DEF Next, vars
<1> QED
  BY <1>1, <1>2, PTL DEF Spec

(* Whichever opens raced, failed or were killed half way, a server serves  *)
(* a file on which every statement of migrate() has been done, and with    *)
(* the triggers that keep the index after it was rebuilt.                  *)
THEOREM ServedUpgradedCorrect == Spec => []ServedUpgraded
<1>1. OpeningInv => ServedUpgraded
  <2> SUFFICES ASSUME OpeningInv, NEW p \in Servers, open[p].at = "serving" PROVE Upgraded(db)
    BY DEF ServedUpgraded
  <2>1. OpenedAs(open[p], db)
    BY DEF OpeningInv, OpensInv
  <2>2. IsFile(db) /\ UpTo(db, 17)
    BY <2>1, FrameAt
  <2> QED BY <2>2, AllDone
<1> QED
  BY <1>1, OpeningKept, PTL

(* Opening an older, a half upgraded or an upgraded file succeeds, unless  *)
(* two programs were at it at once or an older one repeated an event key.  *)
THEOREM OpenFailsInRacesOnlyCorrect == Spec => []OpenFailsInRacesOnly
<1>1. OpeningInv => OpenFailsInRacesOnly
  BY DEF OpeningInv, RaceInv, OpenFailsInRacesOnly
<1> QED
  BY <1>1, OpeningKept, PTL

(* No migration replaces a file that another program created, published or *)
(* served in the meantime.                                                 *)
THEOREM TargetKeptCorrect == Spec => []TargetKept
<1>1. OpeningInv => TargetKept
  BY There DEF OpeningInv, FactsInv, TargetKept
<1> QED
  BY <1>1, OpeningKept, PTL
==============================================================================
