--------------------------- MODULE RedisWireProofs ---------------------------
(***************************************************************************)
(* Transactions over streams that time out and break, for any number of    *)
(* coordinators, connections, operations and faults, when no read of a     *)
(* tick times out.                                                         *)
(***************************************************************************)
EXTENDS RedisWire, PrefixRecursion, SequenceTheorems

-----------------------------------------------------------------------------
(* What the namespace and its history say of each other.                   *)
InLog(k) == \E n \in DOMAIN log : k \in log[n].keys
Unseen(k, rev) == \A n \in DOMAIN log : k \in log[n].keys => n > rev
Recorded(k) == db.ledger[k] # NoRecord
ImageAt(n, rev) ==
    /\ n \in DOMAIN log /\ n <= rev /\ log[n].image
    /\ \A m \in DOMAIN log : m <= rev /\ log[m].image => m <= n

Records == [status : {"none", "committed", "conflict"}, rev : Nat]
Databases ==
    [rev : Nat, snap : [rev : Nat, entities : SUBSET Keys], schema : Nat,
     index : SUBSET Keys, entity : SUBSET Keys, ledger : [Keys -> Records], marker : SUBSET Keys]

DbOK ==
    /\ db \in Databases
    /\ log \in Seq([base : Nat, keys : SUBSET Keys, image : BOOLEAN])
    /\ Len(log) = db.rev
    /\ CasHolds /\ KeyAppliedOnce /\ IndexComplete
    /\ \A k \in Keys :
         /\ k \in db.marker <=> InLog(k)
         /\ db.ledger[k].status = "committed" => InLog(k)
    /\ db.snap # NoImage => ImageAt(db.snap.rev, db.rev)

-----------------------------------------------------------------------------
(* What is on its way to the server.                                       *)
Txs == [base : Nat, keys : SUBSET Keys, entities : SUBSET Keys, old : SUBSET Keys]
Commands == {"PING", "GETREV", "GETSNAP", "GETSCHEMA", "GETLEDGER", "GETMARKER", "SMEMBERS",
             "UNWATCH", "SETCONFLICT", "WATCH"}
Plain(q) == /\ q.cmd \in Commands /\ q.part = ""
            /\ q.cmd \in {"GETLEDGER", "GETMARKER", "SETCONFLICT"} => q.key \in Keys
Multi == Ask("MULTI")
Exec == Ask("EXEC")
Asking(l, reqs) == [l EXCEPT !.reps = <<>>, !.reqs = IF l.open THEN reqs ELSE <<>>]
Put(f, x, v) == [f EXCEPT ![x] = v]
Continues(l, reqs, l2) ==
    /\ l.open = TRUE /\ l2.open = TRUE /\ l2.reqs = reqs /\ l2.reps = <<>>
    /\ l2.multi = l.multi /\ l2.queue = l.queue
    /\ l2.watched = l.watched /\ l2.dirty = l.dirty
Moved(rec, at) == [rec EXCEPT !.at = at]
Idled(rec, i) == [[Idle(rec) EXCEPT !.at = "idle"] EXCEPT !.i = i]
Deltas(tx) == <<Part("head", tx), Part("records", tx), Part("ledger", tx)>>
States(tx) == <<Part("image", tx), Part("records", tx)>>

Calm(l) == l.multi = FALSE /\ l.queue = <<>>
DeltaSent(l, tx) ==
    \/ Calm(l) /\ l.reqs = <<Multi, Part("head", tx), Part("records", tx), Part("ledger", tx), Exec>>
    \/ /\ l.multi = TRUE /\ l.queue = <<>>
       /\ l.reqs = <<Part("head", tx), Part("records", tx), Part("ledger", tx), Exec>>
    \/ l.multi = TRUE /\ l.queue = Deltas(tx) /\ l.reqs = <<Exec>>
StateOpened(l) ==
    \/ Calm(l) /\ l.reqs = <<Multi>>
    \/ l.multi = TRUE /\ l.queue = <<>> /\ l.reqs = <<>>
StateSent(l, tx) ==
    /\ l.multi = TRUE
    /\ \/ l.queue = <<>> /\ l.reqs = <<Part("image", tx)>>
       \/ l.queue = <<Part("image", tx)>> /\ l.reqs \in {<<>>, <<Part("records", tx)>>}
       \/ l.queue = States(tx) /\ l.reqs \in {<<>>, <<Exec>>}

(* A transaction that was made for the revision that stands, unless the    *)
(* server has seen that it changed.                                        *)
Ready(l, base) == l.watched = TRUE /\ (l.dirty = FALSE => db.rev = base)
StillReady(l, v) == l.open = TRUE => Ready(l, v)
Whole(l, old) == l.dirty = FALSE => db.index = old
TxOK(tx) ==
    /\ tx \in Txs /\ tx.base <= db.rev
    /\ \A k \in tx.keys : Unseen(k, tx.base)
TxsOf(l) == {q.tx[1] : q \in {r \in ToSet(l.queue) \cup ToSet(l.reqs) : r.part # ""}}

LinkFits(l) ==
    \/ Calm(l) /\ \A n \in DOMAIN l.reqs : Plain(l.reqs[n])
    \/ \E tx \in TxsOf(l) : TxOK(tx) /\ Ready(l, tx.base) /\ DeltaSent(l, tx)
    \/ StateOpened(l)
    \/ \E tx \in TxsOf(l) : TxOK(tx) /\ Ready(l, tx.base) /\ Whole(l, tx.old) /\ StateSent(l, tx)

Requests ==
    [cmd : Commands \cup {"MULTI", "EXEC", "QUEUE"}, key : Keys \cup {NoKey},
     part : {"", "head", "image", "records", "ledger"}, tx : Seq(Txs)]
Kinds ==
    {"", "OK", "PONG", "QUEUED", "nil", "none", "number", "image", "committed", "conflict",
     "members", "exec"}
Replies ==
    [t : {"simple", "error", "bulk", "array"}, kind : Kinds, n : Nat, set : SUBSET Keys, size : Nat]
LinkStates ==
    [open : BOOLEAN, reqs : Seq(Requests), reps : Seq(Replies), watched : BOOLEAN,
     dirty : BOOLEAN, multi : BOOLEAN, queue : Seq(Requests)]
Unopened ==
    [open |-> FALSE, reqs |-> <<>>, reps |-> <<>>,
     watched |-> FALSE, dirty |-> FALSE, multi |-> FALSE, queue |-> <<>>]
LinkOK(l) ==
    /\ l \in LinkStates /\ LinkFits(l)
    /\ l.open = FALSE => Calm(l) /\ l.reqs = <<>>

-----------------------------------------------------------------------------
(* What a coordinator knows.                                               *)
Singles == {"ping", "rev1", "snapshot", "rev2", "ledger", "applied", "marker", "revision",
            "schema", "unwatch", "actual", "conflict_ledger", "conflict_set", "members"}
Watches == {"watch", "state_watch"}
Queueing == {"multi", "queue1", "queue2", "exec"}
Ats == {"idle", "batch"} \cup Singles \cup Watches \cup Queueing

Coordinators ==
    [at : Ats, flow : {"none", "open", "attach", "call", "tick"}, i : 0 .. MaxLinks,
     fresh : BOOLEAN, known : Nat, mine : SUBSET Keys, issued : SUBSET Keys, pending : Seq(Keys),
     local : BOOLEAN, todo : Seq(Keys), apply : Seq(Keys), conflicts : SUBSET Keys,
     marked : SUBSET Keys, rejected : SUBSET Keys, before : Nat, read : Replies, tries : Nat,
     then : {"none", "attach", "tick", "rejected", "state"}, old : SUBSET Keys,
     imageAt : Nat, image : Nat]

ReadsImage(r, from, to) == r.kind = "image" => \E v \in from .. to : ImageAt(r.n, v)

Expected(rec) ==
    LET k == IF rec.todo = <<>> THEN NoKey ELSE Head(rec.todo) IN
    CASE rec.at = "ping" -> Ask("PING")
      [] rec.at \in {"rev1", "rev2", "revision", "actual"} -> Ask("GETREV")
      [] rec.at = "snapshot" -> Ask("GETSNAP")
      [] rec.at \in {"ledger", "applied", "conflict_ledger"} -> Request("GETLEDGER", k)
      [] rec.at = "marker" -> Request("GETMARKER", k)
      [] rec.at = "schema" -> Ask("GETSCHEMA")
      [] rec.at = "unwatch" -> Ask("UNWATCH")
      [] rec.at = "conflict_set" -> Request("SETCONFLICT", k)
      [] OTHER -> Ask("SMEMBERS")

(* The n-th reply of the exchange is the answer to its n-th request.       *)
Fits(rec, n, r) ==
    CASE rec.at \in Watches -> IF n = 1 THEN IsOk(r) ELSE IsRevision(r) /\ r.n <= db.rev
      [] rec.at = "batch" ->
           CASE n = 1 -> IsOk(r)
             [] n = 5 -> IsResult(r, 3) =>
                           r.n <= db.rev /\ \A k \in ToSet(rec.apply) : InLog(k)
             [] OTHER -> IsQueued(r)
      [] rec.at = "multi" -> IsOk(r)
      [] rec.at \in {"queue1", "queue2"} -> IsQueued(r)
      [] rec.at = "exec" -> IsResult(r, 2) => r.n <= db.rev
      [] rec.at = "rev1" -> r.n <= db.rev
      [] rec.at = "snapshot" -> ReadsImage(r, rec.before, db.rev)
      [] rec.at = "rev2" -> /\ r.n <= db.rev
                            /\ IsRevision(r) => ReadsImage(rec.read, rec.before, RevisionIn(r))
      [] rec.at \in {"ledger", "applied", "conflict_ledger"} ->
           /\ r.kind = "committed" => InLog(Head(rec.todo))
           /\ r.kind \in {"committed", "conflict"} => Recorded(Head(rec.todo))
      [] rec.at = "marker" ->
           IF r.kind = "nil" THEN Unseen(Head(rec.todo), rec.known) ELSE InLog(Head(rec.todo))
      [] rec.at = "conflict_set" -> r.t = "simple" => Recorded(Head(rec.todo))
      [] OTHER -> TRUE

RepliesFit(rec, l) ==
    /\ Len(l.reps) <= Want(rec.at)
    /\ \A n \in DOMAIN l.reps : Fits(rec, n, l.reps[n])

(* On an open connection: where the exchange is.                           *)
StateTx(rec) == Tx(rec, {}, rec.mine)
BatchTx(rec) == Tx(rec, ToSet(rec.apply), ToSet(rec.apply))
Answered(l, n) == l.reqs = <<>> /\ Calm(l) /\ Len(l.reps) = n
Checked(l, v) == l.open = TRUE => Answered(l, 2) /\ Ready(l, v)
InSingle(rec, l) ==
    /\ \/ l.reqs = <<Expected(rec)>> /\ Calm(l) /\ l.reps = <<>>
       \/ Answered(l, 1)
    /\ rec.at = "members" =>
         /\ Ready(l, rec.known)
         /\ l.reps # <<>> => l.reps[1].kind = "members" /\ Whole(l, l.reps[1].set)
InWatch(l) ==
    \/ l.reqs = <<Ask("WATCH"), Ask("GETREV")>> /\ Calm(l) /\ l.reps = <<>>
    \/ l.reqs = <<Ask("GETREV")>> /\ Calm(l) /\ Len(l.reps) = 1 /\ l.watched = TRUE
    \/ Answered(l, 2) /\ Ready(l, RevisionIn(l.reps[2]))
InBatch(rec, l) ==
    \/ /\ DeltaSent(l, BatchTx(rec))
       /\ Len(l.reps) = IF l.multi = FALSE THEN 0 ELSE IF l.queue = <<>> THEN 1 ELSE 4
    \/ Answered(l, 5)
InExec(rec, l) ==
    \/ l.multi = TRUE /\ l.queue = States(StateTx(rec)) /\ l.reqs = <<Exec>> /\ l.reps = <<>>
    \/ Answered(l, 1)
Queued(l, before, part) ==
    /\ l.multi = TRUE
    /\ \/ l.queue = before /\ l.reqs = <<part>> /\ l.reps = <<>>
       \/ l.queue = Append(before, part) /\ l.reqs = <<>> /\ Len(l.reps) = 1
InQueue(rec, l) ==
    /\ Ready(l, rec.known) /\ Whole(l, rec.old)
    /\ rec.at = "multi" => StateOpened(l) /\ Len(l.reps) = IF l.multi = FALSE THEN 0 ELSE 1
    /\ rec.at = "queue1" => Queued(l, <<>>, Part("image", StateTx(rec)))
    /\ rec.at = "queue2" =>
         Queued(l, <<Part("image", StateTx(rec))>>, Part("records", StateTx(rec)))
InExchange(rec, l) ==
    CASE rec.at = "idle" -> Answered(l, 0)
      [] rec.at \in Singles -> InSingle(rec, l)
      [] rec.at \in Watches -> InWatch(l)
      [] rec.at = "batch" -> InBatch(rec, l)
      [] rec.at = "exec" -> InExec(rec, l)
      [] OTHER -> InQueue(rec, l)

(* On a closed one: replies that came before it closed, or what a tick     *)
(* left of them.                                                           *)
Stale(rec, l) ==
    /\ rec.at \in {"idle", "revision", "watch"}
    /\ \A n \in DOMAIN l.reps : l.reps[n].t = "simple"

Gone(rec, l) == l.open = FALSE /\ Stale(rec, l)
StreamOK(rec, l) ==
    IF l.open THEN RepliesFit(rec, l) /\ InExchange(rec, l)
    ELSE (rec.at # "idle" /\ RepliesFit(rec, l)) \/ Stale(rec, l)

Phase(rec) ==
    LET keys == ToSet(rec.apply) IN
    /\ rec.at \in {"ping", "schema"} => rec.apply = <<>>
    /\ rec.at \in {"ledger", "applied", "marker", "watch", "batch"} =>
         \A k \in keys : Unseen(k, rec.known)
    /\ rec.at \in {"state_watch", "members", "multi", "queue1", "queue2", "exec"} =>
         \A k \in keys : InLog(k)
    /\ rec.at \in {"members", "multi", "queue1", "queue2", "exec"} => rec.then = "state"
    /\ rec.at \in {"ledger", "applied", "marker", "conflict_ledger", "conflict_set"} => rec.todo # <<>>
    /\ rec.at \in {"watch", "batch", "conflict_ledger", "conflict_set"} => rec.apply # <<>>
    /\ rec.at \in {"state_watch", "unwatch", "actual"} =>
         AdapterDropped(rec.flow) \/ rec.then = "state" \/ rec.apply # <<>>
    /\ rec.at \in {"conflict_ledger", "conflict_set"} =>
         \A k \in keys : k \in ToSet(rec.todo) \/ Recorded(k)
    /\ rec.at \in {"rev1", "snapshot", "rev2"} =>
         /\ rec.then = "attach" => rec.apply = <<>>
         /\ rec.then = "rejected" => \A k \in keys : Recorded(k)
    /\ rec.at \in {"snapshot", "rev2"} => rec.before <= db.rev
    /\ rec.at = "rev2" => ReadsImage(rec.read, rec.before, db.rev)

(* The fields that outlive a call, and where a call may be.                *)
Settled(c, rec) ==
    /\ rec \in Coordinators
    /\ rec.known <= db.rev /\ rec.i <= opened
    /\ ToSet(rec.pending) \cup ToSet(rec.todo) \cup ToSet(rec.apply) \subseteq rec.issued
    /\ \A k \in rec.issued : IssuedBy[k] = c
    /\ \A k \in rec.marked : InLog(k)
    /\ \A k \in rec.conflicts \cup rec.rejected : Recorded(k)
    /\ rec.imageAt # 0 => rec.imageAt <= db.rev /\ ImageAt(rec.image, rec.imageAt)

Placed(rec) ==
    /\ rec.at = "idle" <=> rec.flow = "none"
    /\ rec.i = 0 => rec.at = "idle"
    /\ rec.fresh = TRUE => rec.i = 0
    /\ rec.at = "idle" => rec.apply = <<>> /\ rec.todo = <<>> /\ rec.conflicts = {}
    /\ rec.flow = "call" => rec.at \in {"watch", "batch", "unwatch", "actual"}

Knows(c, rec) == Settled(c, rec) /\ Placed(rec) /\ Phase(rec)

(* Only keys that were issued travel.                                      *)
Issued(k) == k \in client[IssuedBy[k]].issued

WireInv ==
    /\ DbOK
    /\ link \in [Links -> LinkStates]
    /\ \A i \in Links : LinkOK(link[i])
    /\ opened \in 0 .. MaxLinks
    /\ \A i \in Links : i > opened => link[i] = Unopened
    /\ client \in [Clients -> Coordinators]
    /\ \A c \in Clients : Knows(c, client[c])
    /\ \A c, d \in Clients : client[c].i # 0 /\ client[c].i = client[d].i => c = d
    /\ \A c \in Clients : client[c].i # 0 => StreamOK(client[c], link[client[c].i])
    /\ \A n \in DOMAIN log : \A k \in log[n].keys : Issued(k)
    /\ \A i \in Links : \A tx \in TxsOf(link[i]) : \A k \in tx.keys : Issued(k)

-----------------------------------------------------------------------------
(* The namespace and its history only grow.                                *)
Grow ==
    /\ db.rev \in Nat /\ db.rev' \in Nat /\ opened \in Nat /\ opened' \in Nat
    /\ db.rev <= db.rev' /\ opened <= opened'
    /\ DOMAIN log \subseteq Nat /\ DOMAIN log' \subseteq Nat
    /\ DOMAIN log \subseteq DOMAIN log'
    /\ \A n \in DOMAIN log : log'[n] = log[n]
    /\ \A n \in DOMAIN log' : n \in DOMAIN log \/ n > db.rev
    /\ \A k \in Keys : Recorded(k) => Recorded(k)'

LEMMA InLogLasts ==
    ASSUME Grow, NEW k, InLog(k)
    PROVE  InLog(k)'
  BY DEF Grow, InLog

LEMMA UnseenLasts ==
    ASSUME Grow, NEW k, NEW v \in Nat, v <= db.rev, Unseen(k, v)
    PROVE  Unseen(k, v)'
<1>1. ASSUME NEW n \in DOMAIN log', k \in log'[n].keys
      PROVE  n > v
  <2>1. CASE n \in DOMAIN log
    BY <2>1, <1>1 DEF Grow, Unseen
  <2>2. CASE n > db.rev
    BY <2>2 DEF Grow
  <2> QED BY <2>1, <2>2 DEF Grow
<1> QED
  BY <1>1 DEF Unseen

LEMMA ImageLasts ==
    ASSUME Grow, NEW n \in Nat, NEW v \in Nat, v <= db.rev, ImageAt(n, v)
    PROVE  ImageAt(n, v)'
<1>1. n \in DOMAIN log' /\ n <= v /\ log'[n].image
  BY DEF Grow, ImageAt
<1>2. ASSUME NEW m \in DOMAIN log', m <= v, log'[m].image
      PROVE  m <= n
  <2>1. m \in DOMAIN log
    BY <1>2 DEF Grow
  <2> QED BY <2>1, <1>2 DEF Grow, ImageAt
<1> QED
  BY <1>1, <1>2 DEF ImageAt

LEMMA ReadsLast ==
    ASSUME Grow, NEW from \in Nat, NEW to \in Nat, to <= db.rev, NEW r \in Replies,
           ReadsImage(r, from, to)
    PROVE  /\ ReadsImage(r, from, to)'
           /\ ReadsImage(r, from, db.rev)'
<1>1. SUFFICES ASSUME r.kind = "image"
               PROVE  \E v \in from .. to : ImageAt(r.n, v)' /\ v \in from .. db.rev'
  BY DEF ReadsImage
<1>2. PICK v \in from .. to : ImageAt(r.n, v)
  BY <1>1 DEF ReadsImage
<1>3. v \in Nat /\ v <= db.rev /\ r.n \in Nat
  BY DEF Grow, Replies
<1>4. ImageAt(r.n, v)'
  BY <1>2, <1>3, ImageLasts
<1> QED
  BY <1>3, <1>4 DEF Grow

LEMMA PhaseLasts ==
    ASSUME Grow, NEW rec \in Coordinators, rec.known <= db.rev, Phase(rec)
    PROVE  Phase(rec)'
<1>1. \A k \in ToSet(rec.apply) : k \in Keys
  BY ElementOfSeq DEF ToSet, Coordinators
<1>2. \A k \in ToSet(rec.apply) : (InLog(k) => InLog(k)') /\ (Recorded(k) => Recorded(k)')
                                  /\ (Unseen(k, rec.known) => Unseen(k, rec.known)')
  <2>1. rec.known \in Nat
    BY DEF Coordinators
  <2> QED BY <1>1, <2>1, InLogLasts, UnseenLasts DEF Grow
<1>3. rec.before \in Nat /\ rec.read \in Replies
  BY DEF Coordinators
<1>4. rec.at = "rev2" => ReadsImage(rec.read, rec.before, db.rev)'
  <2>1. SUFFICES ASSUME rec.at = "rev2" PROVE ReadsImage(rec.read, rec.before, db.rev)'
    OBVIOUS
  <2>2. PICK r \in Replies : r = rec.read
    BY <1>3
  <2>3. PICK v \in Nat : v = db.rev
    BY DEF Grow
  <2>4. ReadsImage(r, rec.before, v)
    BY <2>1, <2>2, <2>3 DEF Phase
  <2>5. ReadsImage(r, rec.before, db.rev)'
    BY <1>3, <2>3, <2>4, ReadsLast
  <2> QED BY <2>2, <2>5
<1>5. rec.at \in {"snapshot", "rev2"} => rec.before <= db.rev'
  BY <1>3 DEF Phase, Grow
<1> QED
  BY <1>2, <1>4, <1>5 DEF Phase

LEMMA SettledLasts ==
    ASSUME Grow, NEW c, NEW rec, Settled(c, rec)
    PROVE  Settled(c, rec)'
<1>1. /\ rec \in Coordinators /\ rec.known \in Nat /\ rec.i \in Nat
      /\ rec.imageAt \in Nat /\ rec.image \in Nat
  BY DEF Settled, Coordinators
<1>3. rec.marked \subseteq Keys /\ rec.conflicts \subseteq Keys /\ rec.rejected \subseteq Keys
  BY <1>1 DEF Coordinators
<1>4. \A k \in rec.marked : InLog(k)'
  BY InLogLasts DEF Settled
<1>5. \A k \in rec.conflicts \cup rec.rejected : Recorded(k)'
  BY <1>3 DEF Settled, Grow
<1>6. rec.imageAt # 0 => rec.imageAt <= db.rev' /\ ImageAt(rec.image, rec.imageAt)'
  BY <1>1, ImageLasts DEF Settled, Grow
<1>7. rec.known <= db.rev' /\ rec.i <= opened'
  BY <1>1 DEF Settled, Grow
<1> QED
  BY <1>4, <1>5, <1>6, <1>7 DEF Settled

LEMMA KnowsLasts ==
    ASSUME Grow, NEW c, NEW rec, Knows(c, rec)
    PROVE  Knows(c, rec)'
<1>1. rec \in Coordinators /\ rec.known <= db.rev
  BY DEF Knows, Settled
<1> QED
  BY <1>1, SettledLasts, PhaseLasts DEF Knows, Placed

LEMMA FitsLasts ==
    ASSUME Grow, NEW rec \in Coordinators, Phase(rec), rec.known <= db.rev,
           NEW n \in Nat, NEW r \in Replies, Fits(rec, n, r)
    PROVE  Fits(rec, n, r)'
<1>1. r.n \in Nat /\ rec.before \in Nat /\ rec.known \in Nat /\ rec.read \in Replies
  BY DEF Replies, Coordinators
<1>2. r.n <= db.rev => r.n <= db.rev'
  BY <1>1 DEF Grow
<1>3. \A k : InLog(k) => InLog(k)'
  BY InLogLasts
<1>4. CASE rec.at = "snapshot"
  <2>1. PICK from \in Nat : from = rec.before
    BY <1>1
  <2>2. PICK v \in Nat : v = db.rev
    BY DEF Grow
  <2>3. ReadsImage(r, from, v)
    BY <1>4, <2>1, <2>2 DEF Fits, Watches
  <2>4. ReadsImage(r, from, db.rev)'
    BY <2>2, <2>3, ReadsLast
  <2> QED BY <1>4, <2>1, <2>4 DEF Fits, Watches
<1>5. CASE rec.at = "rev2"
  <2>1. PICK from \in Nat : from = rec.before
    BY <1>1
  <2>2. PICK q \in Replies : q = rec.read
    BY <1>1
  <2>3. r.n <= db.rev /\ (IsRevision(r) => ReadsImage(q, from, RevisionIn(r)))
    BY <1>5, <2>1, <2>2 DEF Fits, Watches
  <2>4. PICK to \in Nat : to = RevisionIn(r) /\ to <= r.n
    BY <1>1 DEF RevisionIn
  <2>5. to <= db.rev
    BY <2>3, <2>4, <1>1 DEF Grow
  <2>6. ReadsImage(q, from, to) => ReadsImage(q, from, to)'
    BY <2>5, ReadsLast
  <2> QED BY <1>5, <1>2, <2>1, <2>2, <2>3, <2>4, <2>6 DEF Fits, Watches
<1>6. CASE rec.at \in {"ledger", "applied", "conflict_ledger", "marker", "conflict_set"}
  <2>1. rec.todo # <<>> /\ rec.todo \in Seq(Keys)
    BY <1>6 DEF Phase, Coordinators
  <2>2. PICK k \in Keys : k = Head(rec.todo)
    BY <2>1, HeadTailProperties
  <2>3. (Recorded(k) => Recorded(k)') /\ (Unseen(k, rec.known) => Unseen(k, rec.known)')
    BY <1>1, UnseenLasts DEF Grow
  <2> QED BY <1>3, <1>6, <2>2, <2>3 DEF Fits, Watches
<1>7. CASE rec.at \notin {"snapshot", "rev2", "ledger", "applied", "conflict_ledger", "marker",
                          "conflict_set"}
  BY <1>2, <1>3, <1>7 DEF Fits, Watches
<1> QED
  BY <1>4, <1>5, <1>6, <1>7

LEMMA RepliesLast ==
    ASSUME Grow, NEW c, NEW rec, Knows(c, rec), NEW l \in LinkStates, RepliesFit(rec, l)
    PROVE  RepliesFit(rec, l)'
<1>1. rec \in Coordinators /\ Phase(rec) /\ rec.known <= db.rev
  BY DEF Knows, Settled
<1>2. \A n \in DOMAIN l.reps : n \in Nat /\ l.reps[n] \in Replies
  <2>1. l.reps \in Seq(Replies)
    BY DEF LinkStates
  <2> QED BY <2>1, LenProperties, ElementOfSeq
<1>3. \A n \in DOMAIN l.reps : Fits(rec, n, l.reps[n])'
  BY <1>1, <1>2, FitsLasts DEF RepliesFit
<1> QED
  BY <1>3 DEF RepliesFit

(* A step that writes no revision leaves what is on its way as it was.     *)
Quiet == Grow /\ db.rev' = db.rev /\ log' = log /\ db.index' = db.index

LEMMA TxLasts ==
    ASSUME Grow, NEW tx, TxOK(tx)
    PROVE  TxOK(tx)'
<1>1. tx.base \in Nat /\ tx.keys \subseteq Keys
  BY DEF TxOK, Txs
<1>2. \A k \in tx.keys : Unseen(k, tx.base)'
  BY <1>1, UnseenLasts DEF TxOK
<1> QED
  BY <1>1, <1>2 DEF TxOK, Grow

LEMMA LinkLasts ==
    ASSUME Quiet, NEW l, LinkOK(l)
    PROVE  LinkOK(l)'
<1>1. \A tx : TxOK(tx) => TxOK(tx)'
  BY TxLasts DEF Quiet
<1>2. \A base : Ready(l, base) => Ready(l, base)'
  BY DEF Ready, Quiet
<1>3. \A old : Whole(l, old) => Whole(l, old)'
  BY DEF Whole, Quiet
<1>4. LinkFits(l) => LinkFits(l)'
  BY <1>1, <1>2, <1>3 DEF LinkFits
<1> QED
  BY <1>4 DEF LinkOK

LEMMA StreamLasts ==
    ASSUME Quiet, NEW c, NEW rec, Knows(c, rec), NEW l \in LinkStates, StreamOK(rec, l)
    PROVE  StreamOK(rec, l)'
<1>1. RepliesFit(rec, l) => RepliesFit(rec, l)'
  BY RepliesLast DEF Quiet
<1>2. \A base : Ready(l, base) => Ready(l, base)'
  BY DEF Ready, Quiet
<1>3. \A old : Whole(l, old) => Whole(l, old)'
  BY DEF Whole, Quiet
<1>4. InExchange(rec, l) => InExchange(rec, l)'
  BY <1>2, <1>3 DEF InExchange, InSingle, InWatch, InBatch, InExec, InQueue
<1> QED
  BY <1>1, <1>4 DEF StreamOK

(* A transaction on another connection that writes the revision.           *)
Dirtied(l) == [l EXCEPT !.dirty = l.watched]

LEMMA LinkDirtied ==
    ASSUME Grow, NEW l, LinkOK(l)
    PROVE  LinkOK(Dirtied(l))'
<1> DEFINE d == Dirtied(l)
<1>1. l \in LinkStates
  BY DEF LinkOK
<1>2. d = [l EXCEPT !.dirty = l.watched]
  BY DEF Dirtied
<1> HIDE DEF d
<1>3. /\ d \in LinkStates
      /\ d.open = l.open /\ d.reqs = l.reqs /\ d.reps = l.reps /\ d.multi = l.multi
      /\ d.queue = l.queue /\ d.watched = l.watched /\ d.dirty = l.watched
  BY <1>1, <1>2 DEF LinkStates
<1>4. \A tx : TxOK(tx) => TxOK(tx)'
  BY TxLasts
<1>5. \A base : Ready(l, base) => Ready(d, base)'
  BY <1>3 DEF Ready
<1>6. \A base, old : Ready(l, base) => Whole(d, old)'
  BY <1>3 DEF Ready, Whole
<1>7. LinkFits(d)'
  BY <1>3, <1>4, <1>5, <1>6 DEF LinkOK, LinkFits, Calm, DeltaSent, StateOpened, StateSent, TxsOf
<1> QED
  BY <1>3, <1>7 DEF LinkOK, Calm, d

LEMMA StreamDirtied ==
    ASSUME Grow, NEW c, NEW rec, Knows(c, rec), NEW l \in LinkStates, StreamOK(rec, l)
    PROVE  StreamOK(rec, Dirtied(l))'
<1> DEFINE d == Dirtied(l)
<1>2. d = [l EXCEPT !.dirty = l.watched]
  BY DEF Dirtied
<1> HIDE DEF d
<1>3. /\ d \in LinkStates
      /\ d.open = l.open /\ d.reqs = l.reqs /\ d.reps = l.reps /\ d.multi = l.multi
      /\ d.queue = l.queue /\ d.watched = l.watched /\ d.dirty = l.watched
  BY <1>2 DEF LinkStates
<1>4. RepliesFit(rec, l) => RepliesFit(rec, d)'
  <2>1. RepliesFit(rec, l) => RepliesFit(rec, d)
    BY <1>3 DEF RepliesFit
  <2> QED BY <1>3, <2>1, RepliesLast
<1>5. \A base : Ready(l, base) => Ready(d, base)'
  BY <1>3 DEF Ready
<1>6. \A base, old : Ready(l, base) => Whole(d, old)'
  BY <1>3 DEF Ready, Whole
<1>7. InExchange(rec, l) => InExchange(rec, d)'
  BY <1>3, <1>5, <1>6 DEF InExchange, InSingle, InWatch, InBatch, InExec, InQueue, Queued, Answered,
                          Calm, DeltaSent, StateOpened
<1> QED
  BY <1>3, <1>4, <1>7 DEF StreamOK, Stale, d

-----------------------------------------------------------------------------
(* Steps of the server and of the coordinators.                            *)
LEMMA LogDomain ==
    ASSUME WireInv
    PROVE  db.rev \in Nat /\ opened \in Nat /\ DOMAIN log = 1 .. db.rev
<1>1. db.rev \in Nat
  BY DEF WireInv, DbOK, Databases
<1>2. log \in Seq([base : Nat, keys : SUBSET Keys, image : BOOLEAN]) /\ Len(log) = db.rev
  BY DEF WireInv, DbOK
<1> QED
  BY <1>1, <1>2, LenProperties, WireAssumption DEF WireInv

LEMMA SameGrows ==
    ASSUME WireInv, UNCHANGED <<db, log>>, opened' \in Nat, opened <= opened'
    PROVE  Quiet
  BY LogDomain DEF Quiet, Grow, Recorded

LEMMA SameDb ==
    ASSUME WireInv, UNCHANGED <<db, log>>
    PROVE  DbOK'
  BY DEF WireInv, DbOK, CasHolds, KeyAppliedOnce, IndexComplete, InLog, ImageAt

LEMMA OneLink ==
    ASSUME WireInv, NEW i \in Links, NEW l2, LinkOK(l2)', Quiet,
           link' = [link EXCEPT ![i] = l2], i <= opened'
    PROVE  /\ link' \in [Links -> LinkStates]
           /\ \A j \in Links : LinkOK(link[j])'
           /\ \A j \in Links : j > opened' => link'[j] = Unopened
<1>1. l2 \in LinkStates
  BY DEF LinkOK
<1>2. link \in [Links -> LinkStates]
  BY DEF WireInv
<1>3. ASSUME NEW j \in Links
      PROVE  LinkOK(link[j])'
  <2>1. CASE j = i
    BY <1>2, <2>1
  <2>2. CASE j # i
    <3>1. PICK l : l = link[j]
      OBVIOUS
    <3>2. link'[j] = l
      BY <1>2, <2>2, <3>1
    <3>3. LinkOK(l)
      BY <3>1 DEF WireInv
    <3>4. LinkOK(l)'
      BY <3>3, LinkLasts
    <3> QED BY <3>2, <3>4
  <2> QED BY <2>1, <2>2
<1>4. ASSUME NEW j \in Links, j > opened'
      PROVE  link'[j] = Unopened
  <2>1. j # i /\ j > opened
    BY <1>4, WireAssumption DEF Links, Quiet, Grow
  <2> QED BY <1>2, <2>1 DEF WireInv
<1> QED
  BY <1>1, <1>2, <1>3, <1>4

LEMMA ServerMoves ==
    ASSUME WireInv, DbOK', Quiet, UNCHANGED <<client, opened>>,
           NEW i \in Links, NEW l2, link' = [link EXCEPT ![i] = l2],
           link[i].open, LinkOK(l2)', TxsOf(l2) \subseteq TxsOf(link[i]),
           \A c \in Clients, rec \in Coordinators :
              rec = client[c] /\ rec.i = i => StreamOK(rec, l2)'
    PROVE  WireInv'
<1>1. i <= opened'
  <2>1. ~ (i > opened)
    BY DEF WireInv, Unopened
  <2> QED BY <2>1, LogDomain, WireAssumption DEF Links
<1>2. /\ link' \in [Links -> LinkStates]
      /\ \A j \in Links : LinkOK(link[j])'
      /\ \A j \in Links : j > opened' => link'[j] = Unopened
  BY <1>1, OneLink
<1>3. link \in [Links -> LinkStates] /\ client \in [Clients -> Coordinators]
  BY DEF WireInv
<1>4. ASSUME NEW c \in Clients
      PROVE  Knows(c, client[c])' /\ (client'[c].i # 0 => StreamOK(client[c], link[client[c].i])')
  <2>1. PICK rec \in Coordinators : rec = client[c]
    BY <1>3
  <2>2. Knows(c, rec) /\ Knows(c, rec)'
    BY <2>1, KnowsLasts DEF WireInv, Quiet
  <2>3. SUFFICES ASSUME rec.i # 0 PROVE StreamOK(rec, link[rec.i])'
    BY <2>1, <2>2
  <2>4. rec.i \in Links
    BY <2>3, WireAssumption DEF Coordinators, Links
  <2>5. CASE rec.i = i
    BY <1>3, <2>1, <2>5
  <2>6. CASE rec.i # i
    <3>1. PICK l \in LinkStates : l = link[rec.i]
      BY <1>3, <2>4
    <3>2. link'[rec.i] = l
      BY <1>3, <2>4, <2>6, <3>1
    <3>3. StreamOK(rec, l)
      BY <2>1, <2>3, <3>1 DEF WireInv
    <3>4. StreamOK(rec, l)'
      BY <2>2, <3>3, StreamLasts
    <3> QED BY <3>2, <3>4
  <2> QED BY <2>5, <2>6
<1>5. \A n \in DOMAIN log' : \A k \in log'[n].keys : Issued(k)'
  BY DEF WireInv, Quiet, Issued
<1>6. \A j \in Links : \A tx \in TxsOf(link'[j]) : \A k \in tx.keys : Issued(k)'
  <2>1. ASSUME NEW j \in Links
        PROVE  TxsOf(link'[j]) \subseteq TxsOf(link[j])
    BY <1>3
  <2> QED BY <2>1 DEF WireInv, Issued
<1> QED
  BY <1>2, <1>3, <1>4, <1>5, <1>6 DEF WireInv

LEMMA Moves ==
    ASSUME WireInv, Quiet, DbOK', opened' \in 0 .. MaxLinks,
           NEW c \in Clients, NEW rec2, client' = [client EXCEPT ![c] = rec2],
           Knows(c, rec2)', client[c].issued \subseteq rec2.issued,
           link' \in [Links -> LinkStates],
           \A j \in Links : LinkOK(link[j])',
           \A j \in Links : j > opened' => link'[j] = Unopened,
           \A d \in Clients : d # c /\ client[d].i # 0 =>
              client[d].i # rec2.i /\ link'[client[d].i] = link[client[d].i],
           rec2.i # 0 => StreamOK(rec2, link[rec2.i])',
           \A j \in Links : \A tx \in TxsOf(link'[j]) :
              tx \in TxsOf(link[j]) \/ tx.keys \subseteq rec2.issued
    PROVE  WireInv'
<1>1. /\ link \in [Links -> LinkStates] /\ client \in [Clients -> Coordinators]
      /\ rec2 \in Coordinators
  BY DEF WireInv, Knows, Settled
<1>2. ASSUME NEW d \in Clients
      PROVE  Knows(d, client[d])' /\ (client'[d].i # 0 => StreamOK(client[d], link[client[d].i])')
  <2>1. CASE d = c
    BY <1>1, <2>1
  <2>2. CASE d # c
    <3>1. PICK r \in Coordinators : r = client[d]
      BY <1>1
    <3>2. client'[d] = r
      BY <1>1, <2>2, <3>1
    <3>3. Knows(d, r) /\ Knows(d, r)'
      BY <3>1, KnowsLasts DEF WireInv, Quiet
    <3>4. SUFFICES ASSUME r.i # 0 PROVE StreamOK(r, link[r.i])'
      BY <3>2, <3>3
    <3>5. r.i \in Links
      BY <3>4, WireAssumption DEF Coordinators, Links
    <3>6. PICK l \in LinkStates : l = link[r.i]
      BY <1>1, <3>5
    <3>7. link'[r.i] = l
      BY <2>2, <3>1, <3>4, <3>6
    <3>8. StreamOK(r, l)
      BY <3>1, <3>4, <3>6 DEF WireInv
    <3>9. StreamOK(r, l)'
      BY <3>3, <3>8, StreamLasts
    <3> QED BY <3>7, <3>9
  <2> QED BY <2>1, <2>2
<1>3. \A d, e \in Clients : client'[d].i # 0 /\ client'[d].i = client'[e].i => d = e
  BY <1>1 DEF WireInv
<1>4. \A k : Issued(k) \/ k \in rec2.issued => Issued(k)'
  <2>1. ASSUME NEW k, k \in rec2.issued
        PROVE  Issued(k)'
    BY <2>1, <1>1 DEF Issued, Knows, Settled
  <2>2. ASSUME NEW k, Issued(k)
        PROVE  Issued(k)'
    <3>1. CASE IssuedBy[k] = c
      BY <2>2, <3>1, <1>1 DEF Issued
    <3>2. CASE IssuedBy[k] # c
      BY <2>2, <3>2, <1>1 DEF Issued
    <3> QED BY <3>1, <3>2
  <2> QED BY <2>1, <2>2
<1>5. \A n \in DOMAIN log' : \A k \in log'[n].keys : Issued(k)'
  BY <1>4 DEF WireInv, Quiet
<1>6. \A j \in Links : \A tx \in TxsOf(link'[j]) : \A k \in tx.keys : Issued(k)'
  <2>1. ASSUME NEW j \in Links, NEW tx \in TxsOf(link'[j])
        PROVE  tx \in TxsOf(link[j]) \/ tx.keys \subseteq rec2.issued
    OBVIOUS
  <2> QED BY <2>1, <1>4 DEF WireInv
<1>7. client' \in [Clients -> Coordinators]
  BY <1>1
<1> QED
  BY <1>2, <1>3, <1>5, <1>6, <1>7 DEF WireInv

LEMMA ClientMoves ==
    ASSUME WireInv, UNCHANGED <<db, log, opened>>,
           NEW c \in Clients, NEW rec, NEW rec2, NEW l2, rec = client[c], rec.i # 0,
           client' = [client EXCEPT ![c] = rec2],
           link' = [link EXCEPT ![rec.i] = l2],
           rec2.i \in {0, rec.i}, Knows(c, rec2), rec.issued \subseteq rec2.issued,
           LinkOK(l2), rec2.i # 0 => StreamOK(rec2, l2),
           \A tx \in TxsOf(l2) : tx \in TxsOf(link[rec.i]) \/ tx.keys \subseteq rec2.issued
    PROVE  WireInv'
<1>1. Quiet /\ DbOK'
  BY LogDomain, SameGrows, SameDb
<1>2. /\ link \in [Links -> LinkStates] /\ client \in [Clients -> Coordinators]
      /\ rec \in Coordinators /\ rec2 \in Coordinators
  BY DEF WireInv, Knows, Settled
<1>3. rec.i \in Links /\ rec.i <= opened'
  <2>1. rec.i \in 0 .. MaxLinks
    BY <1>2 DEF Coordinators
  <2>2. Knows(c, rec)
    BY DEF WireInv
  <2>3. rec.i <= opened
    BY <2>2 DEF Knows, Settled
  <2> QED BY <2>1, <2>3, WireAssumption DEF Links
<1>4. LinkOK(l2)'
  BY <1>1, LinkLasts
<1>5. /\ link' \in [Links -> LinkStates]
      /\ \A j \in Links : LinkOK(link[j])'
      /\ \A j \in Links : j > opened' => link'[j] = Unopened
  BY <1>1, <1>3, <1>4, OneLink
<1>6. l2 \in LinkStates
  BY DEF LinkOK
<1>7. Knows(c, rec2)' /\ (rec2.i # 0 => StreamOK(rec2, link[rec2.i])')
  <2>1. Knows(c, rec2)' /\ (rec2.i # 0 => StreamOK(rec2, l2)')
    BY <1>1, <1>6, KnowsLasts, StreamLasts DEF Quiet
  <2>2. link'[rec.i] = l2
    BY <1>2, <1>3
  <2>3. SUFFICES ASSUME rec2.i # 0 PROVE StreamOK(rec2, link[rec2.i])'
    BY <2>1
  <2>4. rec2.i = rec.i
    BY <2>3
  <2>5. StreamOK(rec2, link[rec.i])'
    BY <2>1, <2>2, <2>3
  <2> QED BY <2>4, <2>5
<1>8. \A d \in Clients : d # c /\ client[d].i # 0 =>
        client[d].i # rec2.i /\ link'[client[d].i] = link[client[d].i]
  <2>1. ASSUME NEW d \in Clients, d # c, client[d].i # 0
        PROVE  client[d].i # rec.i
    BY <2>1 DEF WireInv
  <2> QED BY <1>2, <2>1
<1>9. \A j \in Links : \A tx \in TxsOf(link'[j]) :
        tx \in TxsOf(link[j]) \/ tx.keys \subseteq rec2.issued
  <2>1. ASSUME NEW j \in Links, NEW tx \in TxsOf(link'[j])
        PROVE  tx \in TxsOf(link[j]) \/ tx.keys \subseteq rec2.issued
    BY <2>1, <1>2
  <2> QED BY <2>1
<1>10. opened' \in 0 .. MaxLinks
  BY DEF WireInv
<1> QED
  BY <1>1, <1>5, <1>7, <1>8, <1>9, <1>10, Moves

-----------------------------------------------------------------------------
(* The server answers the first request of a connection.                   *)
After(i, m, reply) ==
    [m EXCEPT !.reqs = Tail(@), !.reps = IF Held(i) THEN Append(@, reply) ELSE @]

LEMMA AfterFields ==
    ASSUME NEW i, NEW m \in LinkStates, m.reqs # <<>>, NEW reply \in Replies
    PROVE  /\ After(i, m, reply) \in LinkStates
           /\ After(i, m, reply).open = m.open /\ After(i, m, reply).multi = m.multi
           /\ After(i, m, reply).queue = m.queue /\ After(i, m, reply).watched = m.watched
           /\ After(i, m, reply).dirty = m.dirty /\ After(i, m, reply).reqs = Tail(m.reqs)
           /\ Held(i) => After(i, m, reply).reps = Append(m.reps, reply)
<1>1. m.reqs \in Seq(Requests) /\ m.reps \in Seq(Replies)
  BY DEF LinkStates
<1>2. Tail(m.reqs) \in Seq(Requests) /\ Append(m.reps, reply) \in Seq(Replies)
  BY <1>1, HeadTailProperties, AppendProperties
<1> QED
  BY <1>2 DEF After, LinkStates

(* A connection with something to serve is open; who holds it is waiting.  *)
LEMMA Served ==
    ASSUME WireInv, NEW i \in Links, link[i].reqs # <<>> \/ link[i].multi
    PROVE  /\ link[i].open /\ link[i] \in LinkStates /\ LinkFits(link[i])
           /\ \A c \in Clients, rec \in Coordinators : rec = client[c] /\ rec.i = i =>
                Knows(c, rec) /\ Held(i) /\ RepliesFit(rec, link[i]) /\ InExchange(rec, link[i])
<1>1. link[i] \in LinkStates /\ LinkOK(link[i])
  BY DEF WireInv
<1>2. link[i].open = TRUE
  BY <1>1 DEF LinkOK, Calm, LinkStates
<1>3. ASSUME NEW c \in Clients, NEW rec \in Coordinators, rec = client[c], rec.i = i
      PROVE  Knows(c, rec) /\ Held(i) /\ RepliesFit(rec, link[i]) /\ InExchange(rec, link[i])
  <2>1. rec.i # 0
    BY <1>3, WireAssumption DEF Links
  <2>2. Knows(c, rec) /\ StreamOK(rec, link[i])
    BY <1>3, <2>1 DEF WireInv
  <2> QED BY <1>2, <1>3, <2>2 DEF StreamOK, Held
<1> QED
  BY <1>1, <1>2, <1>3 DEF LinkOK

LEMMA LongerReplies ==
    ASSUME NEW l \in LinkStates, NEW reply \in Replies, NEW l2, l2.reps = Append(l.reps, reply)
    PROVE  /\ l.reps \in Seq(Replies) /\ Len(l.reps) \in Nat
           /\ Len(l2.reps) = Len(l.reps) + 1
           /\ \A n \in DOMAIN l.reps : l2.reps[n] = l.reps[n]
           /\ l2.reps[Len(l.reps) + 1] = reply
           /\ DOMAIN l2.reps = 1 .. Len(l.reps) + 1 /\ DOMAIN l.reps = 1 .. Len(l.reps)
<1>1. l.reps \in Seq(Replies)
  BY DEF LinkStates
<1> QED
  BY <1>1, AppendProperties, LenProperties

(* What is added to the replies has to fit.                                *)
LEMMA RepliesGrow ==
    ASSUME NEW rec, NEW l \in LinkStates, NEW reply \in Replies, NEW l2,
           l2.reps = Append(l.reps, reply), RepliesFit(rec, l)', Len(l.reps) < Want(rec.at),
           Want(rec.at) \in Nat, Fits(rec, Len(l.reps) + 1, reply)'
    PROVE  RepliesFit(rec, l2)'
<1>1. \A n \in DOMAIN l.reps : Fits(rec, n, l.reps[n])'
  BY DEF RepliesFit
<1>2. \A n \in DOMAIN l2.reps : Fits(rec, n, l2.reps[n])'
  BY <1>1, LongerReplies
<1> QED
  BY <1>2, LongerReplies DEF RepliesFit

LEMMA BulkType ==
    ASSUME NEW kind \in Kinds, NEW n \in Nat, NEW set \in SUBSET Keys
    PROVE  /\ Bulk(kind, n, set) \in Replies
           /\ Bulk(kind, n, set).t = "bulk" /\ Bulk(kind, n, set).kind = kind
           /\ Bulk(kind, n, set).n = n /\ Bulk(kind, n, set).set = set
  BY DEF Bulk, Reply, Replies

LEMMA Answers ==
    ASSUME NEW q
    PROVE  /\ q.cmd = "PING" => AnswerTo(q) = Simple("PONG")
           /\ q.cmd = "GETREV" =>
                AnswerTo(q) = IF db.rev = 0 THEN NilBulk ELSE Bulk("number", db.rev, {})
           /\ q.cmd = "GETSNAP" =>
                AnswerTo(q) = IF db.snap = NoImage THEN NilBulk
                              ELSE Bulk("image", db.snap.rev, db.snap.entities)
           /\ q.cmd = "GETSCHEMA" =>
                AnswerTo(q) = IF db.schema = 0 THEN NilBulk ELSE Bulk("number", db.schema, {})
           /\ q.cmd = "GETLEDGER" =>
                AnswerTo(q) = IF db.ledger[q.key] = NoRecord THEN NilBulk
                              ELSE Bulk(db.ledger[q.key].status, db.ledger[q.key].rev, {})
           /\ q.cmd = "GETMARKER" =>
                AnswerTo(q) = IF q.key \in db.marker THEN Bulk("number", 1, {}) ELSE NilBulk
           /\ q.cmd = "SMEMBERS" => AnswerTo(q) = Reply("array", "members", 0, db.index, 0)
           /\ q.cmd \in {"UNWATCH", "SETCONFLICT", "WATCH"} => AnswerTo(q) = Simple("OK")
  BY DEF AnswerTo

LEMMA ReplyTypes ==
    ASSUME WireInv
    PROVE  /\ Simple("OK") \in Replies /\ Simple("PONG") \in Replies /\ Simple("QUEUED") \in Replies
           /\ ErrorReply \in Replies /\ Reply("array", "nil", 0, {}, 0) \in Replies
           /\ \A q : Plain(q) => AnswerTo(q) \in Replies
<1>1. db \in Databases
  BY DEF WireInv, DbOK
<1>2. /\ Simple("OK") \in Replies /\ Simple("PONG") \in Replies /\ Simple("QUEUED") \in Replies
      /\ ErrorReply \in Replies /\ Reply("array", "nil", 0, {}, 0) \in Replies
  BY DEF ErrorReply, Simple, Reply, Replies, Kinds
<1>3. NilBulk \in Replies
  BY BulkType DEF NilBulk, Kinds
<1>4. ASSUME NEW q, Plain(q)
      PROVE  AnswerTo(q) \in Replies
  <2>1. CASE q.cmd = "GETREV"
    <3>1. Bulk("number", db.rev, {}) \in Replies
      BY <1>1, BulkType DEF Databases, Kinds
    <3> QED BY <1>3, <2>1, <3>1, Answers
  <2>2. CASE q.cmd = "GETSNAP"
    <3>1. db.snap.rev \in Nat /\ db.snap.entities \in SUBSET Keys
      BY <1>1 DEF Databases
    <3>2. "image" \in Kinds
      BY DEF Kinds
    <3>3. Bulk("image", db.snap.rev, db.snap.entities) \in Replies
      BY <3>1, <3>2, BulkType
    <3> QED BY <1>3, <2>2, <3>3, Answers
  <2>3. CASE q.cmd = "GETSCHEMA"
    <3>1. Bulk("number", db.schema, {}) \in Replies
      BY <1>1, BulkType DEF Databases, Kinds
    <3> QED BY <1>3, <2>3, <3>1, Answers
  <2>4. CASE q.cmd = "GETLEDGER"
    <3>1. db.ledger[q.key] \in Records
      BY <1>1, <1>4, <2>4 DEF Plain, Databases
    <3>2. db.ledger[q.key].status \in Kinds /\ db.ledger[q.key].rev \in Nat
      BY <3>1 DEF Records, Kinds
    <3>3. Bulk(db.ledger[q.key].status, db.ledger[q.key].rev, {}) \in Replies
      BY <3>2, BulkType
    <3> QED BY <1>3, <2>4, <3>3, Answers
  <2>5. CASE q.cmd = "GETMARKER"
    <3>1. Bulk("number", 1, {}) \in Replies
      BY BulkType DEF Kinds
    <3> QED BY <1>3, <2>5, <3>1, Answers
  <2>6. CASE q.cmd = "SMEMBERS"
    <3>1. Reply("array", "members", 0, db.index, 0) \in Replies
      BY <1>1 DEF Reply, Replies, Databases, Kinds
    <3> QED BY <2>6, <3>1, Answers
  <2>7. CASE q.cmd \in {"PING", "UNWATCH", "SETCONFLICT", "WATCH"}
    BY <1>2, <2>7, Answers
  <2> QED BY <1>4, <2>1, <2>2, <2>3, <2>4, <2>5, <2>6, <2>7 DEF Plain, Commands
<1> QED
  BY <1>2, <1>4

LEMMA WantNat == \A at : Want(at) \in Nat
  BY DEF Want, DeltaParts

LEMMA ExpectedCommand ==
    ASSUME NEW rec
    PROVE  Expected(rec).cmd \notin {"EXEC", "MULTI", "WATCH", "QUEUE"}
  BY DEF Expected, Ask, Request

LEMMA ExchangeAt ==
    ASSUME NEW rec, NEW l
    PROVE  /\ rec.at = "idle" => (InExchange(rec, l) <=> Answered(l, 0))
           /\ rec.at \in Singles => (InExchange(rec, l) <=> InSingle(rec, l))
           /\ rec.at \in Watches => (InExchange(rec, l) <=> InWatch(l))
           /\ rec.at = "batch" => (InExchange(rec, l) <=> InBatch(rec, l))
           /\ rec.at = "exec" => (InExchange(rec, l) <=> InExec(rec, l))
           /\ rec.at \in Queueing \ {"exec"} => (InExchange(rec, l) <=> InQueue(rec, l))
  BY DEF InExchange, Singles, Watches, Queueing

LEMMA ExchangeNext ==
    ASSUME NEW rec, NEW l
    PROVE  /\ rec.at \in Singles /\ InSingle(rec, l)' => InExchange(rec, l)'
           /\ rec.at \in Watches /\ InWatch(l)' => InExchange(rec, l)'
           /\ rec.at = "batch" /\ InBatch(rec, l)' => InExchange(rec, l)'
           /\ rec.at = "exec" /\ InExec(rec, l)' => InExchange(rec, l)'
           /\ rec.at \in Queueing \ {"exec"} /\ InQueue(rec, l)' => InExchange(rec, l)'
  BY DEF InExchange, Singles, Watches, Queueing

(* Which exchange a request is of.                                         *)
LEMMA RequestOf ==
    ASSUME NEW rec \in Coordinators, NEW l \in LinkStates, InExchange(rec, l), l.reqs # <<>>
    PROVE  /\ rec.at \in Singles \/ rec.at \in Watches \/ rec.at = "batch" \/ rec.at \in Queueing
           /\ rec.at \in Singles => l.reqs = <<Expected(rec)>> /\ Calm(l) /\ l.reps = <<>>
           /\ rec.at \in Watches =>
                /\ Calm(l)
                /\ \/ l.reqs = <<Ask("WATCH"), Ask("GETREV")>> /\ l.reps = <<>>
                   \/ l.reqs = <<Ask("GETREV")>> /\ Len(l.reps) = 1 /\ l.watched = TRUE
           /\ rec.at = "batch" =>
                /\ DeltaSent(l, BatchTx(rec))
                /\ Len(l.reps) = IF l.multi = FALSE THEN 0 ELSE IF l.queue = <<>> THEN 1 ELSE 4
           /\ rec.at = "exec" =>
                /\ l.multi = TRUE /\ l.queue = States(StateTx(rec)) /\ l.reqs = <<Exec>>
                /\ l.reps = <<>>
           /\ rec.at = "multi" => Calm(l) /\ l.reqs = <<Multi>> /\ Len(l.reps) = 0
           /\ rec.at = "queue1" =>
                /\ l.multi = TRUE /\ l.queue = <<>> /\ l.reqs = <<Part("image", StateTx(rec))>>
                /\ l.reps = <<>>
           /\ rec.at = "queue2" =>
                /\ l.multi = TRUE /\ l.queue = <<Part("image", StateTx(rec))>>
                /\ l.reqs = <<Part("records", StateTx(rec))>> /\ l.reps = <<>>
<1>1. rec.at \in Ats
  BY DEF Coordinators
<1>2. rec.at # "idle"
  BY ExchangeAt DEF Answered
<1>3. rec.at \in Singles => l.reqs = <<Expected(rec)>> /\ Calm(l) /\ l.reps = <<>>
  BY ExchangeAt DEF Answered, InSingle
<1>4. rec.at \in Watches =>
        /\ Calm(l)
        /\ \/ l.reqs = <<Ask("WATCH"), Ask("GETREV")>> /\ l.reps = <<>>
           \/ l.reqs = <<Ask("GETREV")>> /\ Len(l.reps) = 1 /\ l.watched = TRUE
  BY ExchangeAt DEF Answered, InWatch
<1>5. rec.at = "batch" =>
        /\ DeltaSent(l, BatchTx(rec))
        /\ Len(l.reps) = IF l.multi = FALSE THEN 0 ELSE IF l.queue = <<>> THEN 1 ELSE 4
  BY ExchangeAt DEF Answered, InBatch
<1>6. rec.at = "exec" =>
        l.multi = TRUE /\ l.queue = States(StateTx(rec)) /\ l.reqs = <<Exec>> /\ l.reps = <<>>
  BY ExchangeAt DEF Answered, InExec
<1>7. rec.at = "multi" => Calm(l) /\ l.reqs = <<Multi>> /\ Len(l.reps) = 0
  BY ExchangeAt DEF InQueue, StateOpened, Queueing, Calm
<1>8. /\ rec.at = "queue1" =>
           /\ l.multi = TRUE /\ l.queue = <<>> /\ l.reqs = <<Part("image", StateTx(rec))>>
           /\ l.reps = <<>>
      /\ rec.at = "queue2" =>
           /\ l.multi = TRUE /\ l.queue = <<Part("image", StateTx(rec))>>
           /\ l.reqs = <<Part("records", StateTx(rec))>> /\ l.reps = <<>>
  BY ExchangeAt DEF InQueue, Queued, Queueing
<1> QED
  BY <1>1, <1>2, <1>3, <1>4, <1>5, <1>6, <1>7, <1>8 DEF Ats

LEMMA MultiNamed == Multi.cmd = "MULTI" /\ Multi.part = ""
  BY DEF Multi, Ask, Request

LEMMA ExecNamed == Exec.cmd = "EXEC" /\ Exec.part = ""
  BY DEF Exec, Ask, Request

LEMMA AskNamed == \A name : Ask(name).cmd = name /\ Ask(name).part = ""
  BY DEF Ask, Request

LEMMA PartNamed ==
    \A name, tx : Part(name, tx).cmd = "QUEUE" /\ Part(name, tx).part = name
  BY DEF Part

LEMMA OneHead ==
    ASSUME NEW s, NEW a, s = <<a>>
    PROVE  Head(s) = a /\ Tail(s) = <<>> /\ s # <<>>
  OBVIOUS

(* What follows from the first request that the server has not taken.      *)
LEMMA FirstRequest ==
    ASSUME NEW l \in LinkStates, LinkFits(l), l.reqs # <<>>, NEW asked, asked = Head(l.reqs).cmd
    PROVE  /\ asked \in Commands \cup {"MULTI", "EXEC", "QUEUE"}
           /\ asked \in Commands => Calm(l) /\ \A n \in DOMAIN l.reqs : Plain(l.reqs[n])
           /\ asked = "MULTI" =>
                /\ Calm(l)
                /\ \/ l.reqs = <<Multi>>
                   \/ \E tx \in TxsOf(l) :
                        /\ TxOK(tx) /\ Ready(l, tx.base)
                        /\ l.reqs = <<Multi, Part("head", tx), Part("records", tx),
                                      Part("ledger", tx), Exec>>
           /\ asked = "EXEC" =>
                /\ l.multi = TRUE /\ l.reqs = <<Exec>>
                /\ \E tx \in TxsOf(l) :
                     /\ TxOK(tx) /\ Ready(l, tx.base)
                     /\ l.queue = Deltas(tx) \/ (Whole(l, tx.old) /\ l.queue = States(tx))
           /\ asked = "QUEUE" =>
                /\ l.multi = TRUE
                /\ \E tx \in TxsOf(l) :
                     /\ TxOK(tx) /\ Ready(l, tx.base)
                     /\ \/ /\ l.queue = <<>>
                           /\ l.reqs = <<Part("head", tx), Part("records", tx),
                                         Part("ledger", tx), Exec>>
                        \/ /\ Whole(l, tx.old)
                           /\ \/ l.queue = <<>> /\ l.reqs = <<Part("image", tx)>>
                              \/ /\ l.queue = <<Part("image", tx)>>
                                 /\ l.reqs = <<Part("records", tx)>>
<1>1. CASE Calm(l) /\ \A n \in DOMAIN l.reqs : Plain(l.reqs[n])
  <2>1. l.reqs \in Seq(Requests)
    BY DEF LinkStates
  <2>2. Head(l.reqs) = l.reqs[1] /\ 1 \in DOMAIN l.reqs
    BY <2>1, HeadTailProperties, LenProperties, EmptySeq
  <2>3. asked \in Commands
    BY <1>1, <2>2 DEF Plain
  <2> QED BY <1>1, <2>3 DEF Commands
<1>2. CASE \E tx \in TxsOf(l) : TxOK(tx) /\ Ready(l, tx.base) /\ DeltaSent(l, tx)
  <2>1. PICK tx \in TxsOf(l) : TxOK(tx) /\ Ready(l, tx.base) /\ DeltaSent(l, tx)
    BY <1>2
  <2>2. CASE /\ Calm(l)
             /\ l.reqs = <<Multi, Part("head", tx), Part("records", tx), Part("ledger", tx), Exec>>
    <3>1. asked = "MULTI"
      <4>1. Head(l.reqs) = Multi
        BY <2>2
      <4> QED BY <4>1, MultiNamed
    <3> QED BY <2>1, <2>2, <3>1 DEF Commands
  <2>3. CASE /\ l.multi = TRUE /\ l.queue = <<>>
             /\ l.reqs = <<Part("head", tx), Part("records", tx), Part("ledger", tx), Exec>>
    <3>1. asked = "QUEUE"
      <4>1. Head(l.reqs) = Part("head", tx)
        BY <2>3
      <4> QED BY <4>1, PartNamed
    <3> QED BY <2>1, <2>3, <3>1 DEF Commands
  <2>4. CASE l.multi = TRUE /\ l.queue = Deltas(tx) /\ l.reqs = <<Exec>>
    <3>1. asked = "EXEC"
      <4>1. Head(l.reqs) = Exec
        BY <2>4
      <4> QED BY <4>1, ExecNamed
    <3> QED BY <2>1, <2>4, <3>1 DEF Commands
  <2> QED BY <2>1, <2>2, <2>3, <2>4 DEF DeltaSent
<1>3. CASE StateOpened(l)
  <2>1. Calm(l) /\ l.reqs = <<Multi>>
    BY <1>3 DEF StateOpened
  <2>2. asked = "MULTI"
    <3>1. Head(l.reqs) = Multi
      BY <2>1, OneHead
    <3> QED BY <3>1, MultiNamed
  <2> QED BY <2>1, <2>2 DEF Commands
<1>4. CASE \E tx \in TxsOf(l) :
             TxOK(tx) /\ Ready(l, tx.base) /\ Whole(l, tx.old) /\ StateSent(l, tx)
  <2>1. PICK tx \in TxsOf(l) :
               TxOK(tx) /\ Ready(l, tx.base) /\ Whole(l, tx.old) /\ StateSent(l, tx)
    BY <1>4
  <2>2. CASE l.queue = <<>> /\ l.reqs = <<Part("image", tx)>>
    <3>1. asked = "QUEUE"
      <4>1. Head(l.reqs) = Part("image", tx)
        BY <2>2
      <4> QED BY <4>1, PartNamed
    <3> QED BY <2>1, <2>2, <3>1 DEF Commands, StateSent
  <2>3. CASE l.queue = <<Part("image", tx)>> /\ l.reqs = <<Part("records", tx)>>
    <3>1. asked = "QUEUE"
      <4>1. Head(l.reqs) = Part("records", tx)
        BY <2>3, OneHead
      <4> QED BY <4>1, PartNamed
    <3> QED BY <2>1, <2>3, <3>1 DEF Commands, StateSent
  <2>4. CASE l.queue = States(tx) /\ l.reqs = <<Exec>>
    <3>1. asked = "EXEC"
      <4>1. Head(l.reqs) = Exec
        BY <2>4, OneHead
      <4> QED BY <4>1, ExecNamed
    <3> QED BY <2>1, <2>4, <3>1 DEF Commands, StateSent
  <2> QED BY <2>1, <2>2, <2>3, <2>4 DEF StateSent
<1> QED
  BY <1>1, <1>2, <1>3, <1>4 DEF LinkFits

(* The transaction of a part is one of the connection.                     *)
LEMMA PartIsTx ==
    ASSUME NEW l, NEW name, NEW tx, name # "",
           Part(name, tx) \in ToSet(l.queue) \cup ToSet(l.reqs)
    PROVE  tx \in TxsOf(l)
<1>1. PICK q : q = Part(name, tx)
  OBVIOUS
<1>2. q.part # "" /\ q.tx[1] = tx
  BY <1>1 DEF Part
<1> QED
  BY <1>1, <1>2 DEF TxsOf

LEMMA FitsStill ==
    ASSUME UNCHANGED <<db, log>>, NEW l, LinkFits(l)
    PROVE  LinkFits(l)'
<1>1. \A tx : TxOK(tx) => TxOK(tx)'
  BY DEF TxOK, Unseen
<1> QED
  BY <1>1 DEF LinkFits, Ready, Whole

(* The first request tells the exchange.                                   *)
LEMMA HeadOf ==
    ASSUME NEW rec \in Coordinators, NEW l \in LinkStates, InExchange(rec, l), l.reqs # <<>>,
           NEW asked, asked = Head(l.reqs).cmd
    PROVE  /\ asked \in Commands \ {"WATCH"} => rec.at \in Singles \cup Watches
           /\ asked = "WATCH" => rec.at \in Watches
           /\ asked = "MULTI" => rec.at \in {"batch", "multi"}
           /\ asked = "QUEUE" => rec.at \in {"batch", "queue1", "queue2"}
           /\ asked = "EXEC" => rec.at \in {"batch", "exec"}
<1>1. rec.at \in Singles => asked \notin {"EXEC", "MULTI", "WATCH", "QUEUE"}
  <2>1. SUFFICES ASSUME rec.at \in Singles PROVE asked \notin {"EXEC", "MULTI", "WATCH", "QUEUE"}
    OBVIOUS
  <2>2. l.reqs = <<Expected(rec)>>
    BY <2>1, RequestOf
  <2>3. Head(l.reqs) = Expected(rec)
    BY <2>2, OneHead
  <2> QED BY <2>3, ExpectedCommand
<1>2. rec.at \in Watches => asked \in {"WATCH", "GETREV"}
  <2>1. SUFFICES ASSUME rec.at \in Watches PROVE asked \in {"WATCH", "GETREV"}
    OBVIOUS
  <2>2. \/ l.reqs = <<Ask("WATCH"), Ask("GETREV")>>
        \/ l.reqs = <<Ask("GETREV")>>
    BY <2>1, RequestOf
  <2>3. Head(l.reqs) \in {Ask("WATCH"), Ask("GETREV")}
    BY <2>2
  <2> QED BY <2>3, AskNamed
<1>3. rec.at = "batch" => asked \in {"MULTI", "QUEUE", "EXEC"}
  <2>1. SUFFICES ASSUME rec.at = "batch" PROVE asked \in {"MULTI", "QUEUE", "EXEC"}
    OBVIOUS
  <2>2. PICK tx : DeltaSent(l, tx)
    BY <2>1, RequestOf
  <2>3. Head(l.reqs) \in {Multi, Part("head", tx), Exec}
    <3>1. \/ l.reqs = <<Multi, Part("head", tx), Part("records", tx), Part("ledger", tx), Exec>>
          \/ l.reqs = <<Part("head", tx), Part("records", tx), Part("ledger", tx), Exec>>
          \/ l.reqs = <<Exec>>
      BY <2>2 DEF DeltaSent
    <3> QED BY <3>1
  <2>4. Head(l.reqs) = Multi => asked = "MULTI"
    BY MultiNamed
  <2>5. Head(l.reqs) = Part("head", tx) => asked = "QUEUE"
    BY PartNamed
  <2>6. Head(l.reqs) = Exec => asked = "EXEC"
    BY ExecNamed
  <2> QED BY <2>3, <2>4, <2>5, <2>6
<1>4. /\ rec.at = "exec" => asked = "EXEC"
      /\ rec.at = "multi" => asked = "MULTI"
      /\ rec.at \in {"queue1", "queue2"} => asked = "QUEUE"
  <2>1. /\ rec.at = "exec" => l.reqs = <<Exec>>
        /\ rec.at = "multi" => l.reqs = <<Multi>>
        /\ rec.at = "queue1" => l.reqs = <<Part("image", StateTx(rec))>>
        /\ rec.at = "queue2" => l.reqs = <<Part("records", StateTx(rec))>>
    BY RequestOf
  <2>2. /\ rec.at = "exec" => Head(l.reqs) = Exec
        /\ rec.at = "multi" => Head(l.reqs) = Multi
        /\ rec.at = "queue1" => Head(l.reqs) = Part("image", StateTx(rec))
        /\ rec.at = "queue2" => Head(l.reqs) = Part("records", StateTx(rec))
    BY <2>1, OneHead
  <2>3. Head(l.reqs) = Multi => asked = "MULTI"
    BY MultiNamed
  <2>4. /\ Head(l.reqs) = Part("image", StateTx(rec)) => asked = "QUEUE"
        /\ Head(l.reqs) = Part("records", StateTx(rec)) => asked = "QUEUE"
    BY PartNamed
  <2>5. Head(l.reqs) = Exec => asked = "EXEC"
    BY ExecNamed
  <2> QED BY <2>2, <2>3, <2>4, <2>5
<1>5. rec.at \in Singles \/ rec.at \in Watches \/ rec.at = "batch" \/ rec.at \in Queueing
  BY RequestOf
<1> QED
  BY <1>1, <1>2, <1>3, <1>4, <1>5 DEF Queueing, Commands

LEMMA OneServed ==
    ASSUME WireInv, DbOK', Quiet, UNCHANGED <<client, opened>>,
           NEW i \in Links, NEW l, l = link[i], l.reqs # <<>>,
           NEW m \in LinkStates, m.open = l.open, m.reqs = l.reqs, m.reps = l.reps,
           m.queue \in {l.queue, <<>>},
           NEW reply \in Replies, Serve(i, m, reply),
           NEW l2, l2 = After(i, m, reply), LinkFits(l2)',
           \A c \in Clients, rec \in Coordinators :
              /\ rec = client[c] /\ rec.i = i /\ Knows(c, rec)
              /\ RepliesFit(rec, l) /\ InExchange(rec, l) /\ l2.reps = Append(l.reps, reply)
              => /\ InExchange(rec, l2)'
                 /\ Len(l.reps) < Want(rec.at) /\ Fits(rec, Len(l.reps) + 1, reply)'
    PROVE  WireInv'
<1>1. link' = [link EXCEPT ![i] = l2]
  BY DEF Serve, After
<1>2. /\ l2 \in LinkStates /\ l2.open = m.open /\ l2.queue = m.queue /\ l2.reqs = Tail(m.reqs)
      /\ Held(i) => l2.reps = Append(m.reps, reply)
  BY AfterFields
<1>3. l.open /\ l \in LinkStates /\ l.open = TRUE
  BY Served DEF LinkStates
<1>4. l.reqs \in Seq(Requests)
  BY <1>3 DEF LinkStates
<1>5. LinkOK(l2)'
  BY <1>2, <1>3 DEF LinkOK
<1>6. TxsOf(l2) \subseteq TxsOf(l)
  <2>1. ToSet(l2.reqs) \subseteq ToSet(l.reqs)
    BY <1>2, <1>4, HeadTailProperties, LenProperties DEF ToSet
  <2>2. ToSet(l2.queue) \subseteq ToSet(l.queue)
    BY <1>2 DEF ToSet
  <2> QED BY <2>1, <2>2 DEF TxsOf
<1>7. ASSUME NEW c \in Clients, NEW rec \in Coordinators, rec = client[c], rec.i = i
      PROVE  StreamOK(rec, l2)'
  <2>1. Knows(c, rec) /\ Held(i) /\ RepliesFit(rec, l) /\ InExchange(rec, l)
    BY <1>7, Served
  <2>2. l2.reps = Append(l.reps, reply)
    BY <1>2, <2>1
  <2>3. /\ InExchange(rec, l2)'
        /\ Len(l.reps) < Want(rec.at) /\ Fits(rec, Len(l.reps) + 1, reply)'
    BY <1>7, <2>1, <2>2
  <2>4. RepliesFit(rec, l)'
    BY <1>3, <2>1, RepliesLast DEF Quiet
  <2>5. RepliesFit(rec, l2)'
    BY <1>3, <2>2, <2>3, <2>4, RepliesGrow, WantNat
  <2> QED BY <1>2, <1>3, <2>3, <2>5 DEF StreamOK
<1> QED
  BY <1>1, <1>3, <1>5, <1>6, <1>7, ServerMoves

LEMMA WatchServed ==
    ASSUME WireInv, NEW i \in Links, ServeWatch(i)
    PROVE  WireInv'
<1>1. PICK l : l = link[i]
  OBVIOUS
<1>2. /\ l.reqs # <<>> /\ Head(l.reqs).cmd = "WATCH"
      /\ UNCHANGED <<db, opened, faults, client, log>>
  BY <1>1 DEF ServeWatch, Pending
<1>3. l \in LinkStates /\ LinkFits(l) /\ l.reqs \in Seq(Requests)
  BY <1>1, <1>2, Served DEF LinkStates
<1>4. Calm(l) /\ \A n \in DOMAIN l.reqs : Plain(l.reqs[n])
  BY <1>2, <1>3, FirstRequest DEF Commands
<1>5. PICK reply \in Replies : reply = Simple("OK")
  BY ReplyTypes
<1>6. PICK m \in LinkStates : m = [l EXCEPT !.watched = TRUE]
  BY <1>3 DEF LinkStates
<1>7. /\ m.reqs = l.reqs /\ m.reps = l.reps /\ m.multi = FALSE /\ m.queue = <<>>
      /\ m.watched = TRUE /\ m.dirty = l.dirty /\ m.open = l.open
  BY <1>3, <1>4, <1>6 DEF LinkStates, Calm
<1>8. PICK l2 : l2 = After(i, m, reply)
  OBVIOUS
<1>9. Serve(i, m, reply)
  BY <1>1, <1>4, <1>5, <1>6 DEF ServeWatch, Calm
<1>10. Calm(l2) /\ l2.watched = TRUE /\ l2.reqs = Tail(l.reqs)
  <2>1. m.reqs # <<>>
    BY <1>2, <1>7
  <2>2. /\ l2.multi = m.multi /\ l2.queue = m.queue /\ l2.watched = m.watched
        /\ l2.dirty = m.dirty /\ l2.reqs = Tail(m.reqs)
    BY <2>1, <1>8, AfterFields
  <2> QED BY <1>7, <2>2 DEF Calm
<1>11. Quiet /\ DbOK'
  BY <1>2, LogDomain, SameGrows, SameDb
<1>12. LinkFits(l2)'
  <2>1. \A n \in DOMAIN l2.reqs : Plain(l2.reqs[n])
    BY <1>2, <1>3, <1>4, <1>10, HeadTailProperties, LenProperties
  <2> QED BY <1>10, <2>1 DEF LinkFits
<1>13. ASSUME NEW rec \in Coordinators, InExchange(rec, l), l2.reps = Append(l.reps, reply)
       PROVE  /\ InExchange(rec, l2)'
              /\ Len(l.reps) < Want(rec.at) /\ Fits(rec, Len(l.reps) + 1, reply)'
  <2>1. rec.at \in Watches
    BY <1>2, <1>3, <1>13, HeadOf DEF Commands
  <2>2. /\ \/ l.reqs = <<Ask("WATCH"), Ask("GETREV")>> /\ l.reps = <<>>
           \/ l.reqs = <<Ask("GETREV")>>
    BY <1>2, <1>3, <1>13, <2>1, RequestOf
  <2>3. l.reqs # <<Ask("GETREV")>>
    <3>1. Ask("GETREV").cmd # "WATCH"
      BY DEF Ask, Request
    <3> QED BY <1>2, <3>1, OneHead
  <2>4. l2.reps = <<reply>> /\ l2.reqs = <<Ask("GETREV")>> /\ Len(l.reps) = 0
    <3>1. l.reqs = <<Ask("WATCH"), Ask("GETREV")>> /\ l.reps = <<>>
      BY <2>2, <2>3
    <3>2. l2.reqs = <<Ask("GETREV")>>
      BY <1>10, <3>1
    <3>3. l2.reps = Append(<<>>, reply)
      BY <1>13, <3>1
    <3> QED BY <3>1, <3>2, <3>3
  <2>5. InExchange(rec, l2)'
    BY <1>10, <2>1, <2>4 DEF InExchange, InWatch, Watches, Singles
  <2>6. Fits(rec, 1, reply)'
    BY <1>5, <2>1 DEF Fits, IsOk, Simple, Reply, Watches
  <2> QED BY <2>1, <2>4, <2>5, <2>6 DEF Watches, Want
<1> QED
  BY <1>1, <1>2, <1>7, <1>8, <1>9, <1>11, <1>12, <1>13, OneServed

LEMMA MultiServed ==
    ASSUME WireInv, NEW i \in Links, ServeMulti(i)
    PROVE  WireInv'
<1>1. PICK l : l = link[i]
  OBVIOUS
<1>2. /\ l.reqs # <<>> /\ Head(l.reqs).cmd = "MULTI"
      /\ UNCHANGED <<db, opened, faults, client, log>>
  BY <1>1 DEF ServeMulti, Pending
<1>3. l \in LinkStates /\ LinkFits(l) /\ l.reqs \in Seq(Requests)
  BY <1>1, <1>2, Served DEF LinkStates
<1>4. /\ Calm(l)
      /\ \/ l.reqs = <<Multi>>
         \/ \E tx \in TxsOf(l) :
              /\ TxOK(tx) /\ Ready(l, tx.base)
              /\ l.reqs = <<Multi, Part("head", tx), Part("records", tx), Part("ledger", tx), Exec>>
  BY <1>2, <1>3, FirstRequest DEF Commands
<1>5. PICK reply \in Replies : reply = Simple("OK")
  BY ReplyTypes
<1>6. PICK m \in LinkStates : m = [l EXCEPT !.multi = TRUE]
  BY <1>3 DEF LinkStates
<1>7. /\ m.reqs = l.reqs /\ m.reps = l.reps /\ m.multi = TRUE /\ m.queue = <<>> /\ l.queue = <<>>
      /\ m.watched = l.watched /\ m.dirty = l.dirty /\ m.open = l.open
  BY <1>3, <1>4, <1>6 DEF LinkStates, Calm
<1>8. PICK l2 : l2 = After(i, m, reply)
  OBVIOUS
<1>9. Serve(i, m, reply)
  BY <1>1, <1>4, <1>5, <1>6 DEF ServeMulti, Calm
<1>10. /\ l2.multi = TRUE /\ l2.queue = <<>> /\ l2.watched = l.watched /\ l2.dirty = l.dirty
       /\ l2.reqs = Tail(l.reqs)
  <2>1. m.reqs # <<>>
    BY <1>2, <1>7
  <2>2. /\ l2.multi = m.multi /\ l2.queue = m.queue /\ l2.watched = m.watched
        /\ l2.dirty = m.dirty /\ l2.reqs = Tail(m.reqs)
    BY <2>1, <1>8, AfterFields
  <2> QED BY <1>7, <2>2
<1>11. Quiet /\ DbOK'
  BY <1>2, LogDomain, SameGrows, SameDb
<1>12. LinkFits(l2)
  <2>1. CASE l.reqs = <<Multi>>
    BY <1>10, <2>1, OneHead DEF LinkFits, StateOpened
  <2>2. CASE \E tx \in TxsOf(l) :
               /\ TxOK(tx) /\ Ready(l, tx.base)
               /\ l.reqs = <<Multi, Part("head", tx), Part("records", tx), Part("ledger", tx), Exec>>
    <3>1. PICK tx \in TxsOf(l) :
               /\ TxOK(tx) /\ Ready(l, tx.base)
               /\ l.reqs = <<Multi, Part("head", tx), Part("records", tx), Part("ledger", tx), Exec>>
      BY <2>2
    <3>2. l2.reqs = <<Part("head", tx), Part("records", tx), Part("ledger", tx), Exec>>
      BY <1>10, <3>1
    <3>3. tx \in TxsOf(l2)
      <4>1. Part("head", tx) \in ToSet(l2.reqs)
        BY <3>2 DEF ToSet
      <4> QED BY <4>1, PartIsTx
    <3>4. Ready(l2, tx.base)
      BY <1>10, <3>1 DEF Ready
    <3> QED BY <1>10, <3>1, <3>2, <3>3, <3>4 DEF LinkFits, DeltaSent
  <2> QED BY <1>4, <2>1, <2>2
<1>13. LinkFits(l2)'
  BY <1>2, <1>12, FitsStill
<1>14. ASSUME NEW rec \in Coordinators, InExchange(rec, l), l2.reps = Append(l.reps, reply)
       PROVE  /\ InExchange(rec, l2)'
              /\ Len(l.reps) < Want(rec.at) /\ Fits(rec, Len(l.reps) + 1, reply)'
  <2>1. rec.at \in {"batch", "multi"}
    BY <1>2, <1>3, <1>14, HeadOf
  <2>2. Len(l.reps) = 0 /\ Len(l2.reps) = 1
    <3>1. Len(l.reps) = 0
      BY <1>2, <1>3, <1>4, <1>14, <2>1, RequestOf DEF Calm
    <3> QED BY <1>3, <1>14, <3>1, LongerReplies
  <2>3. CASE rec.at = "batch"
    <3>1. DeltaSent(l, BatchTx(rec))
      BY <1>2, <1>3, <1>14, <2>3, RequestOf
    <3>2. l.reqs = <<Multi, Part("head", BatchTx(rec)), Part("records", BatchTx(rec)),
                     Part("ledger", BatchTx(rec)), Exec>>
      BY <1>4, <3>1 DEF DeltaSent, Calm
    <3>3. l2.reqs = <<Part("head", BatchTx(rec)), Part("records", BatchTx(rec)),
                      Part("ledger", BatchTx(rec)), Exec>>
      BY <1>10, <3>2
    <3>4. InBatch(rec, l2)
      BY <1>10, <2>2, <3>3 DEF InBatch, DeltaSent
    <3>5. InExchange(rec, l2)'
      BY <2>3, <3>4 DEF InExchange, Singles, Watches
    <3>6. Fits(rec, 1, reply)'
      BY <1>5, <2>3 DEF Fits, IsOk, Simple, Reply, Watches
    <3> QED BY <2>2, <2>3, <3>5, <3>6 DEF Want, DeltaParts
  <2>4. CASE rec.at = "multi"
    <3>1. InQueue(rec, l)
      BY <1>14, <2>4, ExchangeAt DEF Queueing
    <3>2. l.reqs = <<Multi>>
      BY <1>2, <1>3, <1>14, <2>4, RequestOf
    <3>3. l2.reqs = <<>>
      BY <1>10, <3>2, OneHead
    <3>4. InQueue(rec, l2)
      BY <1>10, <2>2, <2>4, <3>1, <3>3 DEF InQueue, StateOpened, Ready, Whole
    <3>5. InExchange(rec, l2)'
      BY <1>2, <2>4, <3>4 DEF InExchange, InQueue, Ready, Whole, Singles, Watches
    <3>6. Fits(rec, 1, reply)'
      BY <1>5, <2>4 DEF Fits, IsOk, Simple, Reply, Watches
    <3> QED BY <2>2, <2>4, <3>5, <3>6 DEF Want
  <2> QED BY <2>1, <2>3, <2>4
<1> QED
  BY <1>1, <1>2, <1>7, <1>8, <1>9, <1>11, <1>13, <1>14, OneServed

(* What the server answers fits the question.                              *)
LEMMA RevisionAnswer ==
    ASSUME WireInv, NEW q, q.cmd = "GETREV", NEW r, r = AnswerTo(q)
    PROVE  IsRevision(r) /\ r.n = db.rev /\ RevisionIn(r) = db.rev /\ r.t = "bulk"
<1>1. db.rev \in Nat
  BY DEF WireInv, DbOK, Databases
<1>2. CASE db.rev = 0
  <2>1. r = NilBulk
    BY <1>2, Answers
  <2> QED BY <1>2, <2>1 DEF NilBulk, Bulk, Reply, IsRevision, RevisionIn
<1>3. CASE db.rev # 0
  <2>1. r = Bulk("number", db.rev, {})
    BY <1>3, Answers
  <2> QED BY <1>1, <2>1 DEF Bulk, Reply, IsRevision, RevisionIn
<1> QED
  BY <1>2, <1>3

LEMMA AnswerFits ==
    ASSUME WireInv, NEW c, NEW rec, Knows(c, rec), rec.at \in Singles \ {"conflict_set"},
           NEW q, q = Expected(rec), NEW r, r = AnswerTo(q)
    PROVE  Fits(rec, 1, r)
<1>1. /\ rec \in Coordinators /\ Phase(rec) /\ db \in Databases /\ db.rev \in Nat
      /\ rec.before \in Nat
  BY DEF Knows, Settled, WireInv, DbOK, Databases, Coordinators
<1>2. CASE rec.at \in {"ping", "schema", "unwatch", "actual", "revision", "members"}
  BY <1>2 DEF Fits, Watches
<1>3. CASE rec.at = "rev1"
  <2>1. q.cmd = "GETREV"
    BY <1>3 DEF Expected, Ask, Request
  <2>2. r.n = db.rev
    BY <2>1, RevisionAnswer
  <2> QED BY <1>1, <1>3, <2>2 DEF Fits, Watches
<1>4. CASE rec.at = "rev2"
  <2>1. q.cmd = "GETREV"
    BY <1>4 DEF Expected, Ask, Request
  <2>2. r.n = db.rev /\ RevisionIn(r) = db.rev
    BY <2>1, RevisionAnswer
  <2>3. ReadsImage(rec.read, rec.before, db.rev)
    BY <1>1, <1>4 DEF Phase
  <2> QED BY <1>1, <1>4, <2>2, <2>3 DEF Fits, Watches
<1>5. CASE rec.at = "snapshot"
  <2>1. q.cmd = "GETSNAP"
    BY <1>5 DEF Expected, Ask, Request
  <2>2. rec.before <= db.rev
    BY <1>1, <1>5 DEF Phase
  <2>3. r.kind = "image" => db.snap # NoImage /\ r.n = db.snap.rev
    BY <2>1, Answers DEF NilBulk, Bulk, Reply
  <2>4. db.snap # NoImage => ImageAt(db.snap.rev, db.rev)
    BY DEF WireInv, DbOK
  <2>5. db.rev \in rec.before .. db.rev
    BY <1>1, <2>2
  <2>6. ReadsImage(r, rec.before, db.rev)
    BY <2>3, <2>4, <2>5 DEF ReadsImage
  <2> QED BY <1>5, <2>6 DEF Fits, Watches
<1>6. CASE rec.at \in {"ledger", "applied", "conflict_ledger", "marker"}
  <2>1. rec.todo # <<>> /\ rec.todo \in Seq(Keys)
    BY <1>1, <1>6 DEF Phase, Coordinators
  <2>2. PICK k \in Keys : k = Head(rec.todo)
    BY <2>1, HeadTailProperties
  <2>3. CASE rec.at # "marker"
    <3>1. q.cmd = "GETLEDGER" /\ q.key = k
      BY <1>6, <2>1, <2>2, <2>3 DEF Expected, Request
    <3>2. r = IF db.ledger[k] = NoRecord THEN NilBulk
              ELSE Bulk(db.ledger[k].status, db.ledger[k].rev, {})
      BY <3>1, Answers
    <3>3. db.ledger[k].status = "committed" => InLog(k)
      BY DEF WireInv, DbOK
    <3>4. r.kind \in {"committed", "conflict"} => Recorded(k) /\ r.kind = db.ledger[k].status
      BY <3>2 DEF NilBulk, Bulk, Reply, Recorded
    <3> QED BY <1>6, <2>2, <2>3, <3>3, <3>4 DEF Fits, Watches
  <2>4. CASE rec.at = "marker"
    <3>1. q.cmd = "GETMARKER" /\ q.key = k
      BY <2>1, <2>2, <2>4 DEF Expected, Request
    <3>2. r = IF k \in db.marker THEN Bulk("number", 1, {}) ELSE NilBulk
      BY <3>1, Answers
    <3>3. k \in db.marker <=> InLog(k)
      BY DEF WireInv, DbOK
    <3>4. IF r.kind = "nil" THEN ~ InLog(k) ELSE InLog(k)
      BY <3>2, <3>3 DEF NilBulk, Bulk, Reply
    <3>5. ~ InLog(k) => Unseen(k, rec.known)
      BY DEF InLog, Unseen
    <3> QED BY <2>2, <2>4, <3>4, <3>5 DEF Fits, Watches
  <2> QED BY <2>3, <2>4
<1> QED
  BY <1>2, <1>3, <1>4, <1>5, <1>6 DEF Singles

LEMMA ConflictWritten ==
    ASSUME WireInv, NEW k \in Keys, log' = log, opened' = opened,
           db' = [db EXCEPT !.ledger[k] = [status |-> "conflict", rev |-> db.rev]]
    PROVE  Quiet /\ DbOK' /\ Recorded(k)'
<1>1. db \in Databases /\ db.rev \in Nat /\ db.ledger \in [Keys -> Records]
  BY DEF WireInv, DbOK, Databases
<1>2. /\ db'.rev = db.rev /\ db'.snap = db.snap /\ db'.index = db.index /\ db'.entity = db.entity
      /\ db'.marker = db.marker /\ db'.schema = db.schema
      /\ db'.ledger = [db.ledger EXCEPT ![k] = [status |-> "conflict", rev |-> db.rev]]
      /\ db' \in Databases
  <2>1. [status |-> "conflict", rev |-> db.rev] \in Records
    BY <1>1 DEF Records
  <2> QED BY <1>1, <2>1 DEF Databases
<1>3. /\ db'.ledger[k].status = "conflict" /\ db'.ledger[k] # NoRecord
      /\ \A n \in Keys : n # k => db'.ledger[n] = db.ledger[n]
  BY <1>1, <1>2 DEF NoRecord
<1>4. Quiet
  BY <1>2, <1>3, LogDomain DEF Quiet, Grow, Recorded
<1>5. DbOK'
  <2>1. \A n \in Keys : db'.ledger[n].status = "committed" => db.ledger[n].status = "committed"
    BY <1>3
  <2> QED BY <1>2, <2>1 DEF WireInv, DbOK, CasHolds, KeyAppliedOnce, IndexComplete, InLog, ImageAt
<1> QED
  BY <1>3, <1>4, <1>5 DEF Recorded

LEMMA CommandServed ==
    ASSUME WireInv, NEW i \in Links, ServeCommand(i)
    PROVE  WireInv'
<1>1. PICK l : l = link[i]
  OBVIOUS
<1>2. PICK q : q = Head(l.reqs)
  OBVIOUS
<1>3. /\ l.reqs # <<>> /\ ~l.multi /\ q.cmd \notin {"EXEC", "MULTI", "WATCH"}
      /\ UNCHANGED <<opened, faults, client, log>>
      /\ Serve(i, IF q.cmd = "UNWATCH" THEN Reset(l) ELSE l,
               IF q.cmd = "QUEUE" THEN ErrorReply ELSE AnswerTo(q))
      /\ db' = IF q.cmd = "SETCONFLICT"
               THEN [db EXCEPT !.ledger[q.key] = [status |-> "conflict", rev |-> db.rev]] ELSE db
  BY <1>1, <1>2 DEF ServeCommand
<1>4. l \in LinkStates /\ LinkFits(l) /\ l.reqs \in Seq(Requests)
  BY <1>1, <1>3, Served DEF LinkStates
<1>5. q.cmd \in Commands /\ Calm(l) /\ \A n \in DOMAIN l.reqs : Plain(l.reqs[n])
  BY <1>2, <1>3, <1>4, FirstRequest DEF Commands
<1>6. Plain(q)
  BY <1>2, <1>3, <1>4, <1>5, HeadTailProperties, LenProperties, EmptySeq
<1>7. PICK reply \in Replies : reply = AnswerTo(q)
  BY <1>6, ReplyTypes
<1>8. PICK m \in LinkStates : m = IF q.cmd = "UNWATCH" THEN Reset(l) ELSE l
  <2>1. Reset(l) \in LinkStates
    BY <1>4, EmptySeq DEF Reset, LinkStates
  <2> QED BY <1>4, <2>1
<1>9. /\ m.reqs = l.reqs /\ m.reps = l.reps /\ m.multi = FALSE /\ m.queue = <<>> /\ l.queue = <<>>
      /\ m.open = l.open
      /\ q.cmd # "UNWATCH" => m.watched = l.watched /\ m.dirty = l.dirty
  BY <1>4, <1>5, <1>8 DEF LinkStates, Calm, Reset
<1>10. PICK l2 : l2 = After(i, m, reply)
  OBVIOUS
<1>11. Serve(i, m, reply)
  BY <1>3, <1>5, <1>7, <1>8 DEF Commands
<1>12. /\ Calm(l2) /\ l2.reqs = Tail(l.reqs)
       /\ q.cmd # "UNWATCH" => l2.watched = l.watched /\ l2.dirty = l.dirty
  <2>1. m.reqs # <<>>
    BY <1>3, <1>9
  <2>2. /\ l2.multi = m.multi /\ l2.queue = m.queue /\ l2.watched = m.watched
        /\ l2.dirty = m.dirty /\ l2.reqs = Tail(m.reqs)
    BY <2>1, <1>10, AfterFields
  <2> QED BY <1>9, <2>2 DEF Calm
<1>13. /\ Quiet /\ DbOK'
       /\ q.cmd = "SETCONFLICT" => Recorded(q.key)'
  <2>1. CASE q.cmd = "SETCONFLICT"
    <3>1. q.key \in Keys
      BY <1>6, <2>1 DEF Plain
    <3> QED BY <1>3, <2>1, <3>1, ConflictWritten
  <2>2. CASE q.cmd # "SETCONFLICT"
    BY <1>3, <2>2, LogDomain, SameGrows, SameDb
  <2> QED BY <2>1, <2>2
<1>14. LinkFits(l2)'
  <2>1. \A n \in DOMAIN l2.reqs : Plain(l2.reqs[n])
    BY <1>3, <1>4, <1>5, <1>12, HeadTailProperties, LenProperties
  <2> QED BY <1>12, <2>1 DEF LinkFits
<1>15. ASSUME NEW c \in Clients, NEW rec \in Coordinators, Knows(c, rec), InExchange(rec, l),
              l2.reps = Append(l.reps, reply)
       PROVE  /\ InExchange(rec, l2)'
              /\ Len(l.reps) < Want(rec.at) /\ Fits(rec, Len(l.reps) + 1, reply)'
  <2>1. rec.at \in Singles \cup Watches
    BY <1>2, <1>3, <1>4, <1>5, <1>15, HeadOf
  <2>2. Phase(rec) /\ rec.known <= db.rev
    BY <1>15 DEF Knows, Settled
  <2>3. CASE rec.at \in Singles
    <3>1. l.reqs = <<Expected(rec)>> /\ l.reps = <<>>
      BY <1>3, <1>4, <1>15, <2>3, RequestOf
    <3>2. q = Expected(rec) /\ l2.reqs = <<>>
      BY <1>2, <1>12, <3>1, OneHead
    <3>3. Len(l.reps) = 0 /\ Len(l2.reps) = 1 /\ l2.reps[1] = reply /\ l2.reps # <<>>
      <4>1. Len(l.reps) = 0
        BY <3>1
      <4>2. Len(l2.reps) = 1 /\ l2.reps[1] = reply
        BY <1>4, <1>15, <4>1, LongerReplies
      <4> QED BY <4>1, <4>2
    <3>4. Fits(rec, 1, reply)'
      <4>1. CASE rec.at # "conflict_set"
        <5>1. Fits(rec, 1, reply)
          BY <1>7, <1>15, <2>3, <3>2, <4>1, AnswerFits
        <5> QED BY <1>13, <2>2, <5>1, FitsLasts DEF Quiet
      <4>2. CASE rec.at = "conflict_set"
        <5>1. rec.todo # <<>>
          BY <2>2, <4>2 DEF Phase
        <5>2. q.cmd = "SETCONFLICT" /\ q.key = Head(rec.todo)
          BY <3>2, <4>2, <5>1 DEF Expected, Request
        <5>3. PICK k : k = Head(rec.todo)
          OBVIOUS
        <5>4. Recorded(k)'
          BY <1>13, <5>2, <5>3
        <5> QED BY <4>2, <5>3, <5>4 DEF Fits, Watches
      <4> QED BY <4>1, <4>2
    <3>5. InExchange(rec, l2)'
      <4>1. Answered(l2, 1)
        BY <1>12, <3>2, <3>3 DEF Answered
      <4>2. ASSUME rec.at = "members"
            PROVE  Ready(l2, rec.known)' /\ l2.reps[1].kind = "members" /\ Whole(l2, l2.reps[1].set)'
        <5>1. q.cmd = "SMEMBERS"
          BY <3>2, <4>2 DEF Expected, Ask, Request
        <5>2. reply = Reply("array", "members", 0, db.index, 0)
          BY <1>7, <5>1, Answers
        <5>3. reply.kind = "members" /\ reply.set = db.index
          BY <5>2 DEF Reply
        <5>4. Ready(l, rec.known)
          BY <1>15, <2>3, <4>2, ExchangeAt DEF InSingle
        <5>5. l2.watched = l.watched /\ l2.dirty = l.dirty
          BY <1>12, <5>1
        <5> QED BY <1>13, <3>3, <5>3, <5>4, <5>5 DEF Ready, Whole, Quiet
      <4>3. InSingle(rec, l2)'
        BY <4>1, <4>2 DEF InSingle
      <4> QED BY <2>3, <4>3, ExchangeNext
    <3> QED BY <2>3, <3>3, <3>4, <3>5 DEF Want, Singles
  <2>4. CASE rec.at \in Watches
    <3>1. l.reqs = <<Ask("GETREV")>> /\ Len(l.reps) = 1 /\ l.watched = TRUE
      <4>1. l.reqs # <<Ask("WATCH"), Ask("GETREV")>>
        <5>1. Ask("WATCH").cmd = "WATCH"
          BY DEF Ask, Request
        <5>2. l.reqs = <<Ask("WATCH"), Ask("GETREV")>> => Head(l.reqs) = Ask("WATCH")
          OBVIOUS
        <5> QED BY <1>2, <1>3, <5>1, <5>2
      <4> QED BY <1>3, <1>4, <1>15, <2>4, <4>1, RequestOf
    <3>2. q = Ask("GETREV") /\ l2.reqs = <<>>
      BY <1>2, <1>12, <3>1, OneHead
    <3>3. q.cmd = "GETREV"
      BY <3>2, AskNamed
    <3>4. IsRevision(reply) /\ reply.n = db.rev /\ RevisionIn(reply) = db.rev
      BY <1>7, <3>3, RevisionAnswer
    <3>5. Len(l2.reps) = 2 /\ l2.reps[2] = reply
      BY <1>4, <1>15, <3>1, LongerReplies
    <3>6. Fits(rec, 2, reply)'
      <4>1. reply.n <= db.rev'
        BY <1>13, <3>4 DEF Quiet, Grow
      <4>2. IsRevision(reply)'
        BY <3>4 DEF IsRevision
      <4> QED BY <2>4, <4>1, <4>2 DEF Fits, Watches
    <3>7. Answered(l2, 2) /\ Ready(l2, RevisionIn(l2.reps[2]))'
      BY <1>12, <1>13, <3>1, <3>2, <3>3, <3>4, <3>5 DEF Answered, Ready, Quiet
    <3>8. InExchange(rec, l2)'
      <4>1. InWatch(l2)'
        BY <3>7 DEF InWatch
      <4> QED BY <2>4, <4>1, ExchangeNext
    <3> QED BY <2>4, <3>1, <3>6, <3>8 DEF Want, Watches
  <2> QED BY <2>1, <2>3, <2>4
<1> QED
  BY <1>1, <1>3, <1>9, <1>10, <1>11, <1>13, <1>14, <1>15, OneServed

-----------------------------------------------------------------------------
(* Short sequences.                                                        *)
LEMMA OneIs ==
    ASSUME NEW S, NEW s \in Seq(S), NEW a, Len(s) = 1, s[1] = a
    PROVE  s = <<a>>
<1>1. a \in S
  <2>1. \A i \in 1 .. Len(s) : s[i] \in S
    BY ElementOfSeq
  <2> QED BY <2>1
<1>2. PICK t : t = <<a>>
  OBVIOUS
<1>3. t \in Seq(S) /\ Len(t) = 1 /\ t[1] = a
  BY <1>1, <1>2
<1>4. \A i \in 1 .. Len(s) : s[i] = t[i]
  BY <1>3
<1>5. s = t
  BY <1>3, <1>4, SeqEqual
<1> QED
  BY <1>2, <1>5

LEMMA PairIs ==
    ASSUME NEW S, NEW s \in Seq(S), NEW a, NEW b, Len(s) = 2, s[1] = a, s[2] = b
    PROVE  s = <<a, b>>
<1>1. a \in S /\ b \in S
  <2>1. \A i \in 1 .. Len(s) : s[i] \in S
    BY ElementOfSeq
  <2> QED BY <2>1
<1>2. PICK t : t = <<a, b>>
  OBVIOUS
<1>3. t \in Seq(S) /\ Len(t) = 2 /\ t[1] = a /\ t[2] = b
  BY <1>1, <1>2
<1>4. \A i \in 1 .. Len(s) : s[i] = t[i]
  BY <1>3
<1>5. s = t
  BY <1>3, <1>4, SeqEqual
<1> QED
  BY <1>2, <1>5

LEMMA TripleIs ==
    ASSUME NEW S, NEW s \in Seq(S), NEW a, NEW b, NEW c, Len(s) = 3, s[1] = a, s[2] = b, s[3] = c
    PROVE  s = <<a, b, c>>
<1>1. a \in S /\ b \in S /\ c \in S
  <2>1. \A i \in 1 .. Len(s) : s[i] \in S
    BY ElementOfSeq
  <2> QED BY <2>1
<1>2. PICK t : t = <<a, b, c>>
  OBVIOUS
<1>3. t \in Seq(S) /\ Len(t) = 3 /\ t[1] = a /\ t[2] = b /\ t[3] = c
  BY <1>1, <1>2
<1>4. \A i \in 1 .. Len(s) : s[i] = t[i]
  BY <1>3
<1>5. s = t
  BY <1>3, <1>4, SeqEqual
<1> QED
  BY <1>2, <1>5

LEMMA PieceOfOne ==
    ASSUME NEW s, NEW a, s = <<a>>
    PROVE  Len(s) = 1 /\ DOMAIN s = {1} /\ s[1] = a /\ SubSeq(s, 1, 1) = <<a>> /\ SubSeq(s, 2, Len(s)) = <<>>
<1>1. s \in Seq({a}) /\ Len(s) = 1 /\ s[1] = a /\ DOMAIN s = {1}
  OBVIOUS
<1>2. SubSeq(s, 1, Len(s)) = s
  BY <1>1, SubSeqFull
<1>3. SubSeq(s, 2, 1) = <<>>
  BY SubSeqEmpty
<1> QED
  BY <1>1, <1>2, <1>3

\* A four element piece under a name of its own, which keeps its tuple out of the provers' sight.
Four(a, b, c, d) == <<a, b, c, d>>

LEMMA PieceOfFour ==
    ASSUME NEW s, NEW a, NEW b, NEW c, NEW d, s = Four(a, b, c, d)
    PROVE  /\ Len(s) = 4 /\ SubSeq(s, 4, Len(s)) = <<d>>
           /\ s[1] = a /\ s[2] = b /\ s[3] = c /\ s[4] = d
           /\ SubSeq(s, 1, 3) = <<a, b, c>>
<1> DEFINE S == {a, b, c, d}
<1>1. /\ s \in Seq(S) /\ Len(s) = 4 /\ s[1] = a /\ s[2] = b /\ s[3] = c /\ s[4] = d
      /\ <<d>> \in Seq(S) /\ <<a, b, c>> \in Seq(S)
      /\ \A i \in 1 .. 4 : s[i] \in S
  BY DEF Four
<1> HIDE DEF S
<1>2. SubSeq(s, 4, 4) = <<d>>
  <2>1. PICK t : t = SubSeq(s, 4, 4)
    OBVIOUS
  <2>2. t \in Seq(S) /\ Len(t) = 1 /\ t[1] = d
    BY <1>1, <2>1, SubSeqProperties
  <2> QED BY <2>1, <2>2, OneIs
<1>3. SubSeq(s, 1, 3) = <<a, b, c>>
  <2>1. PICK t : t = SubSeq(s, 1, 3)
    OBVIOUS
  <2>2. t \in Seq(S) /\ Len(t) = 3 /\ \A i \in 1 .. 3 : t[i] = s[i]
    BY <1>1, <2>1, SubSeqProperties
  <2>3. t[1] = a /\ t[2] = b /\ t[3] = c
    BY <1>1, <2>2
  <2>4. t = <<a, b, c>>
    BY <2>2, <2>3, TripleIs
  <2> QED BY <2>1, <2>4
<1> QED
  BY <1>1, <1>2, <1>3

LEMMA PairMade ==
    ASSUME NEW a, NEW b
    PROVE  <<a>> \o <<b>> = <<a, b>> /\ Append(<<a>>, b) = <<a, b>>
<1> DEFINE S == {a, b}
<1>1. /\ <<a>> \in Seq(S) /\ <<b>> \in Seq(S) /\ <<a, b>> \in Seq(S) /\ b \in S
      /\ Len(<<a>>) = 1 /\ Len(<<b>>) = 1 /\ Len(<<a, b>>) = 2
      /\ <<a>>[1] = a /\ <<b>>[1] = b /\ <<a, b>>[1] = a /\ <<a, b>>[2] = b
  OBVIOUS
<1> HIDE DEF S
<1>2. Append(<<a>>, b) = <<a>> \o <<b>>
  BY <1>1, AppendIsConcat
<1>3. PICK t : t = Append(<<a>>, b)
  OBVIOUS
<1>4. t \in Seq(S) /\ Len(t) = 2 /\ t[1] = a /\ t[2] = b
  BY <1>1, <1>3, AppendProperties
<1>5. t = <<a, b>>
  BY <1>4, PairIs
<1> QED
  BY <1>2, <1>3, <1>5

LEMMA SingleMade ==
    ASSUME NEW a
    PROVE  <<>> \o <<a>> = <<a>> /\ Append(<<>>, a) = <<a>>
<1>1. <<a>> \in Seq({a}) /\ <<>> \in Seq({a})
  OBVIOUS
<1> QED
  BY <1>1, ConcatEmptySeq, AppendIsConcat

LEMMA TripleMade ==
    ASSUME NEW a, NEW b, NEW c
    PROVE  <<>> \o <<a, b, c>> = <<a, b, c>>
<1>1. <<a, b, c>> \in Seq({a, b, c})
  OBVIOUS
<1> QED
  BY <1>1, ConcatEmptySeq

-----------------------------------------------------------------------------
(* The parts of a transaction are queued.                                  *)
Oks(s, n) == s \o [m \in 1 .. n |-> Simple("QUEUED")]

LEMMA QueuedReplies ==
    ASSUME NEW s \in Seq(Replies), NEW n \in Nat, Simple("QUEUED") \in Replies
    PROVE  /\ Oks(s, n) \in Seq(Replies) /\ Len(Oks(s, n)) = Len(s) + n
           /\ DOMAIN Oks(s, n) = 1 .. Len(s) + n /\ Len(s) \in Nat
           /\ \A j \in 1 .. Len(s) : Oks(s, n)[j] = s[j]
           /\ \A j \in Len(s) + 1 .. Len(s) + n : Oks(s, n)[j] = Simple("QUEUED")
<1> DEFINE q == [m \in 1 .. n |-> Simple("QUEUED")]
<1>1. q \in Seq(Replies) /\ Len(q) = n /\ \A j \in 1 .. n : q[j] = Simple("QUEUED")
  OBVIOUS
<1> HIDE DEF q
<1>2. PICK t : t = s \o q /\ t = Oks(s, n)
  BY DEF q, Oks
<1>3. Len(s) \in Nat
  BY LenProperties
<1>4. /\ t \in Seq(Replies) /\ Len(t) = Len(s) + n /\ DOMAIN t = 1 .. Len(s) + n
      /\ \A j \in 1 .. Len(s) : t[j] = s[j]
      /\ \A j \in Len(s) + 1 .. Len(s) + n : t[j] = Simple("QUEUED")
  <2>1. /\ s \o q \in Seq(Replies) /\ Len(s \o q) = Len(s) + Len(q)
        /\ \A j \in 1 .. Len(s) + Len(q) :
             (s \o q)[j] = IF j <= Len(s) THEN s[j] ELSE q[j - Len(s)]
    BY <1>1, ConcatProperties
  <2>2. /\ t \in Seq(Replies) /\ Len(t) = Len(s) + n
        /\ \A j \in 1 .. Len(s) + n : t[j] = IF j <= Len(s) THEN s[j] ELSE q[j - Len(s)]
    BY <1>1, <1>2, <2>1
  <2>3. DOMAIN t = 1 .. Len(t)
    BY <2>2, LenProperties
  <2> QED BY <1>1, <1>3, <2>2, <2>3
<1> QED
  BY <1>2, <1>3, <1>4

LEMMA PartsWaiting ==
    ASSUME WireInv, NEW i \in Links, ServeQueued(i), NEW l, l = link[i]
    PROVE  /\ l \in LinkStates /\ l.multi = TRUE /\ l.open = TRUE
           /\ \E tx \in TxsOf(l) :
                /\ TxOK(tx) /\ Ready(l, tx.base)
                /\ \/ /\ l.queue = <<>>
                      /\ l.reqs = <<Part("head", tx), Part("records", tx), Part("ledger", tx), Exec>>
                   \/ /\ Whole(l, tx.old)
                      /\ \/ l.queue = <<>> /\ l.reqs = <<Part("image", tx)>>
                         \/ l.queue = <<Part("image", tx)>> /\ l.reqs = <<Part("records", tx)>>
<1>1. l.multi /\ \E n \in DOMAIN l.reqs : TRUE
  BY DEF ServeQueued
<1>2. l \in LinkStates /\ LinkFits(l) /\ l.open /\ l.reqs \in Seq(Requests) /\ l.open = TRUE
  BY <1>1, Served DEF LinkStates
<1>3. l.reqs # <<>> /\ l.multi = TRUE
  BY <1>1, <1>2 DEF LinkStates
<1>4. Head(l.reqs) = l.reqs[1] /\ Len(l.reqs) \in Nat /\ DOMAIN l.reqs = 1 .. Len(l.reqs)
  BY <1>2, <1>3, LenProperties
<1>5. Head(l.reqs).cmd \notin {"EXEC", "MULTI", "WATCH"}
  <2>1. PICK n \in DOMAIN l.reqs :
              \A m \in 1 .. n : SubSeq(l.reqs, 1, n)[m].cmd \notin {"EXEC", "MULTI", "WATCH"}
    BY DEF ServeQueued
  <2>2. SubSeq(l.reqs, 1, n)[1] = l.reqs[1] /\ 1 \in 1 .. n
    <3>1. n \in 1 .. Len(l.reqs)
      BY <1>4
    <3>2. \A j \in 1 .. n : l.reqs[j] \in Requests
      BY <1>2, <1>4, <3>1, ElementOfSeq
    <3>3. \A j \in 1 .. n - 1 + 1 : SubSeq(l.reqs, 1, n)[j] = l.reqs[1 + j - 1]
      BY <1>4, <3>1, <3>2, SubSeqProperties
    <3> QED BY <1>4, <3>1, <3>3
  <2> QED BY <1>4, <2>1, <2>2
<1>6. PICK asked : asked = Head(l.reqs).cmd
  OBVIOUS
<1>7. asked = "QUEUE"
  <2>1. asked \in Commands \cup {"MULTI", "EXEC", "QUEUE"}
    BY <1>2, <1>3, <1>6, FirstRequest
  <2>2. asked \notin Commands
    BY <1>2, <1>3, <1>6, FirstRequest DEF Calm
  <2> QED BY <1>5, <1>6, <2>1, <2>2
<1> QED
  BY <1>2, <1>3, <1>6, <1>7, FirstRequest

QueuedAs(i, l, n, l2) ==
    /\ link' = [link EXCEPT ![i] = l2]
    /\ l2 = [l EXCEPT !.reqs = SubSeq(l.reqs, n + 1, Len(l.reqs)),
                      !.queue = l.queue \o SubSeq(l.reqs, 1, n),
                      !.reps = IF Held(i) THEN l.reps \o [m \in 1 .. n |-> Simple("QUEUED")] ELSE @]
    /\ \A m \in 1 .. n : SubSeq(l.reqs, 1, n)[m].cmd \notin {"EXEC", "MULTI", "WATCH"}
    /\ n < Len(l.reqs) => l.reqs[n + 1].cmd \in {"EXEC", "MULTI", "WATCH"}

LEMMA QueuedOnes ==
    ASSUME WireInv, NEW i \in Links, NEW l, l = link[i], ServeQueued(i)
    PROVE  \E n \in DOMAIN l.reqs : \E l2 : QueuedAs(i, l, n, l2)
<1> DEFINE reqs(n) == SubSeq(l.reqs, n + 1, Len(l.reqs))
           queue(n) == l.queue \o SubSeq(l.reqs, 1, n)
           reps(n) == IF Held(i) THEN l.reps \o [m \in 1 .. n |-> Simple("QUEUED")] ELSE l.reps
<1>1. l \in LinkStates /\ link \in [Links -> LinkStates]
  BY DEF WireInv
<1>2. PICK n \in DOMAIN l.reqs :
         /\ \A m \in 1 .. n : SubSeq(l.reqs, 1, n)[m].cmd \notin {"EXEC", "MULTI", "WATCH"}
         /\ n < Len(l.reqs) => l.reqs[n + 1].cmd \in {"EXEC", "MULTI", "WATCH"}
         /\ link' = [link EXCEPT ![i].reqs = reqs(n), ![i].queue = queue(n), ![i].reps = reps(n)]
  BY DEF ServeQueued
<1> HIDE DEF reqs, queue, reps
<1>3. PICK l2 : l2 = [l EXCEPT !.reqs = reqs(n), !.queue = queue(n), !.reps = reps(n)]
  OBVIOUS
<1>4. link' = [link EXCEPT ![i] = l2]
  BY <1>1, <1>2, <1>3 DEF LinkStates
<1>5. l2 = [l EXCEPT !.reqs = SubSeq(l.reqs, n + 1, Len(l.reqs)),
                     !.queue = l.queue \o SubSeq(l.reqs, 1, n),
                     !.reps = IF Held(i) THEN l.reps \o [m \in 1 .. n |-> Simple("QUEUED")] ELSE @]
  BY <1>1, <1>3 DEF reqs, queue, reps
<1> QED
  BY <1>2, <1>4, <1>5 DEF QueuedAs

LEMMA QueuedServed ==
    ASSUME WireInv, NEW i \in Links, ServeQueued(i)
    PROVE  WireInv'
<1>1. PICK l : l = link[i]
  OBVIOUS
<1>2. /\ l \in LinkStates /\ l.multi = TRUE /\ l.open = TRUE
      /\ \E tx \in TxsOf(l) :
           /\ TxOK(tx) /\ Ready(l, tx.base)
           /\ \/ /\ l.queue = <<>>
                 /\ l.reqs = <<Part("head", tx), Part("records", tx), Part("ledger", tx), Exec>>
              \/ /\ Whole(l, tx.old)
                 /\ \/ l.queue = <<>> /\ l.reqs = <<Part("image", tx)>>
                    \/ l.queue = <<Part("image", tx)>> /\ l.reqs = <<Part("records", tx)>>
  BY <1>1, PartsWaiting
<1>3. PICK tx \in TxsOf(l) :
           /\ TxOK(tx) /\ Ready(l, tx.base)
           /\ \/ /\ l.queue = <<>>
                 /\ l.reqs = <<Part("head", tx), Part("records", tx), Part("ledger", tx), Exec>>
              \/ /\ Whole(l, tx.old)
                 /\ \/ l.queue = <<>> /\ l.reqs = <<Part("image", tx)>>
                    \/ l.queue = <<Part("image", tx)>> /\ l.reqs = <<Part("records", tx)>>
  BY <1>2
<1> PICK n \in DOMAIN l.reqs : \E l2 : QueuedAs(i, l, n, l2)
  BY <1>1, QueuedOnes
<1>4. PICK l2 : QueuedAs(i, l, n, l2)
  OBVIOUS
<1>5. /\ l2.open = TRUE /\ l2.multi = TRUE /\ l2.watched = l.watched /\ l2.dirty = l.dirty
      /\ l2.reqs = SubSeq(l.reqs, n + 1, Len(l.reqs))
      /\ l2.queue = l.queue \o SubSeq(l.reqs, 1, n)
      /\ Held(i) => l2.reps = l.reps \o [m \in 1 .. n |-> Simple("QUEUED")]
      /\ ~ Held(i) => l2.reps = l.reps
  BY <1>2, <1>4 DEF LinkStates, QueuedAs
<1>6. UNCHANGED <<db, opened, faults, client, log>>
  BY DEF ServeQueued
<1>7. Quiet /\ DbOK'
  BY <1>6, LogDomain, SameGrows, SameDb
<1> DEFINE A == /\ n = 3 /\ l.queue = <<>>
                /\ l.reqs = <<Part("head", tx), Part("records", tx), Part("ledger", tx), Exec>>
                /\ l2.reqs = <<Exec>> /\ l2.queue = Deltas(tx)
           B == /\ n = 1 /\ Whole(l, tx.old) /\ l2.reqs = <<>>
                /\ l.queue = <<>> /\ l.reqs = <<Part("image", tx)>>
                /\ l2.queue = <<Part("image", tx)>>
           C == /\ n = 1 /\ Whole(l, tx.old) /\ l2.reqs = <<>>
                /\ l.queue = <<Part("image", tx)>> /\ l.reqs = <<Part("records", tx)>>
                /\ l2.queue = States(tx)
<1>8. A \/ B \/ C
  <2>1. CASE /\ l.queue = <<>>
             /\ l.reqs = <<Part("head", tx), Part("records", tx), Part("ledger", tx), Exec>>
    <3>1. /\ Len(l.reqs) = 4 /\ SubSeq(l.reqs, 4, Len(l.reqs)) = <<Exec>>
          /\ l.reqs[2] = Part("records", tx) /\ l.reqs[3] = Part("ledger", tx) /\ l.reqs[4] = Exec
          /\ SubSeq(l.reqs, 1, 3) = <<Part("head", tx), Part("records", tx), Part("ledger", tx)>>
      <4>1. l.reqs = Four(Part("head", tx), Part("records", tx), Part("ledger", tx), Exec)
        BY <2>1 DEF Four
      <4> QED BY <4>1, PieceOfFour
    <3>2. l.reqs[2].cmd = "QUEUE" /\ l.reqs[3].cmd = "QUEUE"
      BY <3>1, PartNamed
    <3>3. l.reqs[4].cmd = "EXEC"
      BY <3>1, ExecNamed
    <3>4. n \in 1 .. 4
      <4>1. l.reqs \in Seq(Requests)
        BY <1>2 DEF LinkStates
      <4> QED BY <1>4, <3>1, <4>1, LenProperties
    <3>5. n # 4
      <4>1. ASSUME n = 4 PROVE FALSE
        <5>1. SubSeq(l.reqs, 1, 4) = l.reqs
          <6>1. l.reqs \in Seq(Requests)
            BY <1>2 DEF LinkStates
          <6> QED BY <3>1, <6>1, SubSeqFull
        <5> QED BY <1>4, <3>3, <4>1, <5>1 DEF QueuedAs
      <4> QED BY <4>1
    <3>6. n = 3
      <4>1. n # 1 /\ n # 2
        BY <1>4, <3>1, <3>2 DEF QueuedAs
      <4> QED BY <3>4, <3>5, <4>1
    <3>7. l2.queue = Deltas(tx)
      BY <1>5, <2>1, <3>1, <3>6, TripleMade DEF Deltas
    <3> QED BY <1>5, <2>1, <3>1, <3>6, <3>7
  <2>2. CASE Whole(l, tx.old) /\ l.queue = <<>> /\ l.reqs = <<Part("image", tx)>>
    <3>1. /\ Len(l.reqs) = 1 /\ DOMAIN l.reqs = {1}
          /\ SubSeq(l.reqs, 1, 1) = <<Part("image", tx)>>
          /\ SubSeq(l.reqs, 2, Len(l.reqs)) = <<>>
      BY <2>2, PieceOfOne
    <3>2. n = 1
      BY <1>4, <3>1
    <3> QED BY <1>5, <2>2, <3>1, <3>2, SingleMade
  <2>3. CASE Whole(l, tx.old) /\ l.queue = <<Part("image", tx)>> /\ l.reqs = <<Part("records", tx)>>
    <3>1. /\ Len(l.reqs) = 1 /\ DOMAIN l.reqs = {1}
          /\ SubSeq(l.reqs, 1, 1) = <<Part("records", tx)>>
          /\ SubSeq(l.reqs, 2, Len(l.reqs)) = <<>>
      BY <2>3, PieceOfOne
    <3>2. n = 1
      BY <1>4, <3>1
    <3>3. l2.queue = <<Part("image", tx)>> \o <<Part("records", tx)>>
      BY <1>5, <2>3, <3>1, <3>2
    <3>4. l2.queue = <<Part("image", tx), Part("records", tx)>>
      BY <3>3, PairMade
    <3>5. l2.reqs = <<>>
      BY <1>5, <3>1, <3>2
    <3> QED BY <2>3, <3>2, <3>4, <3>5 DEF States
  <2> QED BY <1>3, <2>1, <2>2, <2>3

<1>9. /\ l2 \in LinkStates /\ l.reps \in Seq(Replies) /\ n \in Nat
      /\ Simple("QUEUED") \in Replies
  <2>1. /\ l.reqs \in Seq(Requests) /\ l.queue \in Seq(Requests) /\ l.reps \in Seq(Replies)
        /\ n \in 1 .. Len(l.reqs) /\ Len(l.reqs) \in Nat
    BY <1>2, <1>4, LenProperties DEF LinkStates
  <2>2. \A j \in 1 .. Len(l.reqs) : l.reqs[j] \in Requests
    BY <2>1, ElementOfSeq
  <2>3. /\ SubSeq(l.reqs, n + 1, Len(l.reqs)) \in Seq(Requests)
        /\ SubSeq(l.reqs, 1, n) \in Seq(Requests)
    BY <2>1, <2>2, SubSeqProperties
  <2>4. l.queue \o SubSeq(l.reqs, 1, n) \in Seq(Requests)
    BY <2>1, <2>3, ConcatProperties
  <2>5. Simple("QUEUED") \in Replies
    BY ReplyTypes
  <2>6. l.reps \o [m \in 1 .. n |-> Simple("QUEUED")] \in Seq(Replies)
    <3>1. Oks(l.reps, n) \in Seq(Replies)
      BY <2>1, <2>5, QueuedReplies
    <3> QED BY <3>1 DEF Oks
  <2>7. PICK reqs \in Seq(Requests), queue \in Seq(Requests), reps \in Seq(Replies) :
           l2 = [l EXCEPT !.reqs = reqs, !.queue = queue, !.reps = reps]
    BY <1>4, <2>1, <2>3, <2>4, <2>6 DEF QueuedAs
  <2>8. l2 \in LinkStates
    <3>1. l \in LinkStates
      BY <1>2
    <3> QED BY <2>7, <3>1 DEF LinkStates
  <2>9. n \in Nat
    BY <2>1
  <2> QED BY <2>1, <2>5, <2>8, <2>9
<1>10. TxsOf(l2) \subseteq TxsOf(l) /\ tx \in TxsOf(l2)
  <2>1. CASE A
    <3>1. /\ ToSet(l2.queue) \cup ToSet(l2.reqs) \subseteq ToSet(l.queue) \cup ToSet(l.reqs)
          /\ Part("head", tx) \in ToSet(l2.queue)
      BY <2>1 DEF ToSet, Deltas
    <3>2. tx \in TxsOf(l2)
      BY <3>1, PartIsTx
    <3> QED BY <3>1, <3>2 DEF TxsOf
  <2>2. CASE B
    <3>1. /\ ToSet(l2.queue) \cup ToSet(l2.reqs) \subseteq ToSet(l.queue) \cup ToSet(l.reqs)
          /\ Part("image", tx) \in ToSet(l2.queue)
      BY <2>2 DEF ToSet
    <3>2. tx \in TxsOf(l2)
      BY <3>1, PartIsTx
    <3> QED BY <3>1, <3>2 DEF TxsOf
  <2>3. CASE C
    <3>1. /\ ToSet(l2.queue) \cup ToSet(l2.reqs) \subseteq ToSet(l.queue) \cup ToSet(l.reqs)
          /\ Part("image", tx) \in ToSet(l2.queue)
      BY <2>3 DEF ToSet, States
    <3>2. tx \in TxsOf(l2)
      BY <3>1, PartIsTx
    <3> QED BY <3>1, <3>2 DEF TxsOf
  <2> QED BY <1>8, <2>1, <2>2, <2>3
<1>11. LinkOK(l2)'
  <2>1. Ready(l2, tx.base) /\ (Whole(l, tx.old) => Whole(l2, tx.old))
    BY <1>3, <1>5 DEF Ready, Whole
  <2>2. A => DeltaSent(l2, tx)
    BY <1>5 DEF DeltaSent
  <2>3. B \/ C => StateSent(l2, tx) /\ Whole(l, tx.old)
    BY <1>5 DEF StateSent
  <2>4. LinkFits(l2)
    BY <1>3, <1>8, <1>10, <2>1, <2>2, <2>3 DEF LinkFits
  <2>5. LinkOK(l2)
    BY <1>5, <1>9, <2>4 DEF LinkOK
  <2> QED BY <1>7, <2>5, LinkLasts
<1>12. ASSUME NEW c \in Clients, NEW rec \in Coordinators, rec = client[c], rec.i = i
       PROVE  StreamOK(rec, l2)'
  <2>1. Knows(c, rec) /\ Held(i) /\ RepliesFit(rec, l) /\ InExchange(rec, l)
    BY <1>1, <1>2, <1>12, Served
  <2>2. /\ l2.reps \in Seq(Replies) /\ Len(l2.reps) = Len(l.reps) + n
        /\ DOMAIN l2.reps = 1 .. Len(l.reps) + n /\ Len(l.reps) \in Nat
        /\ \A j \in 1 .. Len(l.reps) : l2.reps[j] = l.reps[j]
        /\ \A j \in Len(l.reps) + 1 .. Len(l.reps) + n : l2.reps[j] = Simple("QUEUED")
    <3>1. PICK s \in Seq(Replies) : s = l.reps
      BY <1>9
    <3>2. PICK t : t = l2.reps
      OBVIOUS
    <3>3. t = Oks(s, n)
      BY <1>5, <2>1, <3>1, <3>2 DEF Oks
    <3>4. /\ t \in Seq(Replies) /\ Len(t) = Len(s) + n /\ DOMAIN t = 1 .. Len(s) + n
          /\ Len(s) \in Nat
          /\ \A j \in 1 .. Len(s) : t[j] = s[j]
          /\ \A j \in Len(s) + 1 .. Len(s) + n : t[j] = Simple("QUEUED")
      BY <1>9, <3>3, QueuedReplies
    <3> QED BY <3>1, <3>2, <3>4
  <2>3. l.reqs # <<>>
    BY <1>8
  <2>4. Head(l.reqs).cmd = "QUEUE"
    <3>1. Head(l.reqs) \in {Part("head", tx), Part("image", tx), Part("records", tx)}
      BY <1>8
    <3> QED BY <3>1, PartNamed
  <2>5. rec.at \in {"batch", "queue1", "queue2"}
    BY <1>2, <2>1, <2>3, <2>4, HeadOf
  <2>6. CASE rec.at = "batch"
    <3>1. DeltaSent(l, BatchTx(rec)) /\ Len(l.reps) = IF l.queue = <<>> THEN 1 ELSE 4
      BY <1>2, <2>1, <2>3, <2>6, RequestOf
    <3>2. l.reqs # <<Exec>>
      <4>1. Head(l.reqs) # Exec
        BY <2>4, ExecNamed
      <4> QED BY <4>1, OneHead
    <3>3. /\ l.queue = <<>>
          /\ l.reqs = <<Part("head", BatchTx(rec)), Part("records", BatchTx(rec)),
                        Part("ledger", BatchTx(rec)), Exec>>
      BY <1>2, <3>1, <3>2 DEF DeltaSent, Calm
    <3>4. A
      <4>1. Len(l.reqs) = 4
        BY <3>3
      <4>2. ~ B /\ ~ C
        BY <4>1, PieceOfOne
      <4> QED BY <1>8, <4>2
    <3>5. tx = BatchTx(rec)
      <4>1. l.reqs[1] = Part("head", BatchTx(rec)) /\ l.reqs[1] = Part("head", tx)
        BY <3>3, <3>4
      <4>2. Part("head", BatchTx(rec)).tx[1] = BatchTx(rec) /\ Part("head", tx).tx[1] = tx
        BY DEF Part
      <4> QED BY <4>1, <4>2
    <3>6. Len(l.reps) = 1 /\ Len(l2.reps) = 4
      BY <2>2, <3>1, <3>3, <3>4
    <3>7. InBatch(rec, l2)
      <4>1. DeltaSent(l2, BatchTx(rec)) /\ l2.queue # <<>>
        <5>1. l2.queue = Deltas(BatchTx(rec)) /\ l2.reqs = <<Exec>> /\ l2.multi = TRUE
          BY <1>5, <3>4, <3>5
        <5>2. l2.queue # <<>>
          BY <5>1 DEF Deltas
        <5> QED BY <5>1, <5>2 DEF DeltaSent
      <4> QED BY <1>5, <3>6, <4>1 DEF InBatch
    <3>8. \A j \in 1 .. 4 : Fits(rec, j, l2.reps[j])
      <4>1. Fits(rec, 1, l2.reps[1])
        BY <1>9, <2>1, <2>2, <3>6, LenProperties DEF RepliesFit
      <4>2. \A j \in 2 .. 4 : l2.reps[j] = Simple("QUEUED")
        BY <2>2, <3>4, <3>6
      <4>3. IsQueued(Simple("QUEUED"))
        BY DEF IsQueued, Simple, Reply
      <4>4. \A j \in 2 .. 4 : Fits(rec, j, l2.reps[j])
        BY <2>6, <4>2, <4>3 DEF Fits, Watches
      <4> QED BY <4>1, <4>4
    <3>9. RepliesFit(rec, l2)
      BY <2>2, <2>6, <3>6, <3>8 DEF RepliesFit, Want, DeltaParts
    <3>10. InExchange(rec, l2)
      BY <2>6, <3>7, ExchangeAt
    <3>11. StreamOK(rec, l2)
      BY <1>5, <3>9, <3>10 DEF StreamOK
    <3> QED BY <1>7, <1>9, <2>1, <3>11, StreamLasts
  <2>7. CASE rec.at \in {"queue1", "queue2"}
    <3>1. /\ l.reps = <<>>
          /\ rec.at = "queue1" => l.queue = <<>> /\ l.reqs = <<Part("image", StateTx(rec))>>
          /\ rec.at = "queue2" => /\ l.queue = <<Part("image", StateTx(rec))>>
                                  /\ l.reqs = <<Part("records", StateTx(rec))>>
      BY <1>2, <2>1, <2>3, <2>7, RequestOf
    <3>2. Len(l.reqs) = 1
      BY <2>7, <3>1, PieceOfOne
    <3>3. B \/ C
      <4>1. A => Len(l.reqs) = 4
        OBVIOUS
      <4> QED BY <1>8, <3>2, <4>1
    <3>4. tx = StateTx(rec)
      <4>1. \E name \in {"image", "records"} :
               l.reqs[1] = Part(name, StateTx(rec)) /\ l.reqs[1] = Part(name, tx)
        <5>1. CASE rec.at = "queue1"
          <6>1. B
            BY <3>1, <3>3, <5>1
          <6>2. l.reqs[1] = Part("image", tx) /\ l.reqs[1] = Part("image", StateTx(rec))
            BY <3>1, <5>1, <6>1
          <6> QED BY <6>2
        <5>2. CASE rec.at = "queue2"
          <6>1. C
            BY <3>1, <3>3, <5>2
          <6>2. l.reqs[1] = Part("records", tx) /\ l.reqs[1] = Part("records", StateTx(rec))
            BY <3>1, <5>2, <6>1
          <6> QED BY <6>2
        <5> QED BY <2>7, <5>1, <5>2
      <4>2. \A name : Part(name, StateTx(rec)).tx[1] = StateTx(rec) /\ Part(name, tx).tx[1] = tx
        BY DEF Part
      <4> QED BY <4>1, <4>2
    <3>5. Len(l.reps) = 0 /\ Len(l2.reps) = 1 /\ l2.reps[1] = Simple("QUEUED")
      <4>1. n = 1 /\ Len(l.reps) = 0
        BY <3>1, <3>3
      <4> QED BY <2>2, <4>1
    <3>6. InQueue(rec, l2)
      <4>1. InQueue(rec, l)
        BY <2>1, <2>7, ExchangeAt DEF Queueing
      <4>2. Ready(l2, rec.known) /\ Whole(l2, rec.old)
        BY <1>5, <4>1 DEF InQueue, Ready, Whole
      <4>3. CASE rec.at = "queue1"
        <5>1. l2.queue = <<Part("image", StateTx(rec))>> /\ l2.reqs = <<>>
          BY <3>1, <3>3, <3>4, <4>3
        <5>2. Append(<<>>, Part("image", StateTx(rec))) = <<Part("image", StateTx(rec))>>
          BY SingleMade
        <5> QED BY <1>5, <3>5, <4>2, <4>3, <5>1, <5>2 DEF InQueue, Queued
      <4>4. CASE rec.at = "queue2"
        <5>1. l2.queue = States(StateTx(rec)) /\ l2.reqs = <<>>
          BY <3>1, <3>3, <3>4, <4>4
        <5>2. Append(<<Part("image", StateTx(rec))>>, Part("records", StateTx(rec)))
                = States(StateTx(rec))
          BY PairMade DEF States
        <5> QED BY <1>5, <3>5, <4>2, <4>4, <5>1, <5>2 DEF InQueue, Queued
      <4> QED BY <2>7, <4>3, <4>4
    <3>7. Fits(rec, 1, l2.reps[1])
      BY <2>7, <3>5 DEF Fits, Watches, IsQueued, Simple, Reply
    <3>8. RepliesFit(rec, l2)
      BY <2>2, <2>7, <3>5, <3>7 DEF RepliesFit, Want
    <3>9. InExchange(rec, l2)
      BY <2>7, <3>6, ExchangeAt DEF Queueing
    <3>10. StreamOK(rec, l2)
      BY <1>5, <3>8, <3>9 DEF StreamOK
    <3> QED BY <1>7, <1>9, <2>1, <3>10, StreamLasts
  <2> QED BY <2>5, <2>6, <2>7
<1> QED
  <2>1. link' = [link EXCEPT ![i] = l2] /\ link[i].open
    BY <1>1, <1>2, <1>4 DEF QueuedAs
  <2> HIDE DEF A, B, C
  <2> QED BY <1>1, <1>6, <1>7, <1>10, <1>11, <1>12, <2>1, ServerMoves

-----------------------------------------------------------------------------
(* EXEC runs the queue.                                                    *)
LEMMA ApplyTwo ==
    ASSUME NEW d, NEW a, NEW b, NEW queue, queue = <<a, b>>
    PROVE  Apply(d, queue) = Effect(Effect(d, a), b)
<1> DEFINE Body(f) == [n \in 0 .. Len(queue) |-> IF n = 0 THEN d ELSE Effect(f[n - 1], queue[n])]
<1> DEFINE after == CHOOSE f : f = Body(f)
<1>1. Len(queue) = 2 /\ queue[1] = a /\ queue[2] = b
  OBVIOUS
<1>2. Apply(d, queue) = after[2]
  BY <1>1 DEF Apply
<1>3. \E f : f = Body(f)
  <2> DEFINE one == Effect(d, a)
             two == Effect(one, b)
             f == [n \in 0 .. 2 |-> IF n = 0 THEN d ELSE IF n = 1 THEN one ELSE two]
  <2> HIDE DEF one, two
  <2>1. f[0] = d /\ f[1] = one /\ f[2] = two
    OBVIOUS
  <2>2. one = Effect(d, a) /\ two = Effect(one, b)
    BY DEF one, two
  <2>3. Body(f)[0] = d /\ Body(f)[1] = one /\ Body(f)[2] = two
    BY <1>1, <2>1, <2>2
  <2>4. \A n \in 0 .. 2 : n = 0 \/ n = 1 \/ n = 2
    OBVIOUS
  <2>5. f = Body(f)
    BY <1>1, <2>1, <2>3, <2>4
  <2> QED BY <2>5
<1>4. after = Body(after)
  BY <1>3
<1> HIDE DEF after
<1>5. after[0] = d /\ after[1] = Effect(after[0], a) /\ after[2] = Effect(after[1], b)
  BY <1>1, <1>4
<1> QED
  BY <1>2, <1>5

LEMMA ApplyThree ==
    ASSUME NEW d, NEW a, NEW b, NEW c, NEW queue, queue = <<a, b, c>>
    PROVE  Apply(d, queue) = Effect(Effect(Effect(d, a), b), c)
<1> DEFINE Body(f) == [n \in 0 .. Len(queue) |-> IF n = 0 THEN d ELSE Effect(f[n - 1], queue[n])]
<1> DEFINE after == CHOOSE f : f = Body(f)
<1>1. Len(queue) = 3 /\ queue[1] = a /\ queue[2] = b /\ queue[3] = c
  OBVIOUS
<1>2. Apply(d, queue) = after[3]
  BY <1>1 DEF Apply
<1>3. \E f : f = Body(f)
  <2> DEFINE one == Effect(d, a)
             two == Effect(one, b)
             three == Effect(two, c)
             f == [n \in 0 .. 3 |->
                     IF n = 0 THEN d ELSE IF n = 1 THEN one ELSE IF n = 2 THEN two ELSE three]
  <2> HIDE DEF one, two, three
  <2>1. f[0] = d /\ f[1] = one /\ f[2] = two /\ f[3] = three
    OBVIOUS
  <2>2. one = Effect(d, a) /\ two = Effect(one, b) /\ three = Effect(two, c)
    BY DEF one, two, three
  <2>3. Body(f)[0] = d /\ Body(f)[1] = one /\ Body(f)[2] = two /\ Body(f)[3] = three
    BY <1>1, <2>1, <2>2
  <2>4. \A n \in 0 .. 3 : n = 0 \/ n = 1 \/ n = 2 \/ n = 3
    OBVIOUS
  <2>5. f = Body(f)
    BY <1>1, <2>1, <2>3, <2>4
  <2> QED BY <2>5
<1>4. after = Body(after)
  BY <1>3
<1> HIDE DEF after
<1>5. /\ after[0] = d /\ after[1] = Effect(after[0], a) /\ after[2] = Effect(after[1], b)
      /\ after[3] = Effect(after[2], c)
  BY <1>1, <1>4
<1> QED
  BY <1>2, <1>5

LEMMA Effects ==
    ASSUME NEW d, NEW tx
    PROVE  /\ Effect(d, Part("head", tx)) = [d EXCEPT !.schema = 2, !.rev = @ + 1]
           /\ Effect(d, Part("image", tx)) =
                [d EXCEPT !.snap = [rev |-> d.rev + 1, entities |-> tx.entities],
                          !.rev = @ + 1, !.schema = 2, !.entity = @ \ tx.old, !.index = {}]
           /\ Effect(d, Part("records", tx)) =
                [d EXCEPT !.entity = @ \cup tx.entities, !.index = @ \cup tx.entities]
           /\ Effect(d, Part("ledger", tx)) =
                [d EXCEPT !.ledger = [k \in Keys |-> IF k \in tx.keys
                                        THEN [status |-> "committed", rev |-> tx.base + 1] ELSE @[k]],
                          !.marker = @ \cup tx.keys]
  BY DEF Effect, Part

LEMMA OneToSeq ==
    ASSUME NEW x
    PROVE  SetToSeq({x}) = <<x>>
<1>1. Cardinality({x}) = 1
  BY FS_Singleton
<1>2. <<x>> \in [1 .. 1 -> {x}] /\ IsInjective(<<x>>)
  BY DEF IsInjective
<1>3. \A f \in [1 .. 1 -> {x}] : f = <<x>>
  OBVIOUS
<1>4. SetToSeq({x}) = CHOOSE f \in [1 .. 1 -> {x}] : IsInjective(f)
  BY <1>1 DEF SetToSeq
<1> QED
  BY <1>2, <1>3, <1>4

LEMMA DeltasLogged ==
    ASSUME NEW tx
    PROVE  /\ Transaction(Deltas(tx)) # {}
           /\ SetToSeq(Transaction(Deltas(tx))) = <<[base |-> tx.base, keys |-> tx.keys, image |-> FALSE]>>
<1>1. ToSet(Deltas(tx)) = {Part("head", tx), Part("records", tx), Part("ledger", tx)}
  BY DEF ToSet, Deltas
<1>2. \A name : Part(name, tx).part = name /\ Part(name, tx).tx[1] = tx
  BY DEF Part
<1>3. {q \in ToSet(Deltas(tx)) : q.part \in {"head", "image"}} = {Part("head", tx)}
  BY <1>1, <1>2
<1>4. Transaction(Deltas(tx)) = {[base |-> tx.base, keys |-> tx.keys, image |-> FALSE]}
  <2>1. PICK q : q = Part("head", tx) /\ q.part = "head" /\ q.tx[1] = tx
    BY <1>2
  <2>2. {p \in ToSet(Deltas(tx)) : p.part \in {"head", "image"}} = {q}
    BY <1>3, <2>1
  <2>3. Transaction(Deltas(tx)) =
          {[base |-> p.tx[1].base, keys |-> IF p.part = "head" THEN p.tx[1].keys ELSE {},
            image |-> p.part = "image"] : p \in {q}}
    BY <2>2 DEF Transaction
  <2>4. [base |-> q.tx[1].base, keys |-> IF q.part = "head" THEN q.tx[1].keys ELSE {},
         image |-> q.part = "image"] = [base |-> tx.base, keys |-> tx.keys, image |-> FALSE]
    BY <2>1
  <2> QED BY <2>3, <2>4
<1> QED
  BY <1>4, OneToSeq

LEMMA StatesLogged ==
    ASSUME NEW tx
    PROVE  /\ Transaction(States(tx)) # {}
           /\ SetToSeq(Transaction(States(tx))) = <<[base |-> tx.base, keys |-> {}, image |-> TRUE]>>
<1>1. ToSet(States(tx)) = {Part("image", tx), Part("records", tx)}
  BY DEF ToSet, States
<1>2. \A name : Part(name, tx).part = name /\ Part(name, tx).tx[1] = tx
  BY DEF Part
<1>3. {q \in ToSet(States(tx)) : q.part \in {"head", "image"}} = {Part("image", tx)}
  BY <1>1, <1>2
<1>4. Transaction(States(tx)) = {[base |-> tx.base, keys |-> {}, image |-> TRUE]}
  <2>1. PICK q : q = Part("image", tx) /\ q.part = "image" /\ q.tx[1] = tx
    BY <1>2
  <2>2. {p \in ToSet(States(tx)) : p.part \in {"head", "image"}} = {q}
    BY <1>3, <2>1
  <2>3. Transaction(States(tx)) =
          {[base |-> p.tx[1].base, keys |-> IF p.part = "head" THEN p.tx[1].keys ELSE {},
            image |-> p.part = "image"] : p \in {q}}
    BY <2>2 DEF Transaction
  <2>4. [base |-> q.tx[1].base, keys |-> IF q.part = "head" THEN q.tx[1].keys ELSE {},
         image |-> q.part = "image"] = [base |-> tx.base, keys |-> {}, image |-> TRUE]
    BY <2>1
  <2> QED BY <2>3, <2>4
<1> QED
  BY <1>4, OneToSeq

LEMMA DeltasApplied ==
    ASSUME NEW d \in Databases, NEW tx \in Txs, NEW e, e = Apply(d, Deltas(tx))
    PROVE  /\ e \in Databases /\ e.rev = d.rev + 1 /\ e.snap = d.snap
           /\ e.entity = d.entity \cup tx.entities /\ e.index = d.index \cup tx.entities
           /\ e.marker = d.marker \cup tx.keys
           /\ e.ledger = [k \in Keys |-> IF k \in tx.keys
                            THEN [status |-> "committed", rev |-> tx.base + 1] ELSE d.ledger[k]]
<1>1. /\ tx.base \in Nat /\ tx.keys \subseteq Keys /\ tx.entities \subseteq Keys
      /\ d.rev \in Nat /\ d.ledger \in [Keys -> Records]
  BY DEF Txs, Databases
<1> DEFINE L == [k \in Keys |-> IF k \in tx.keys
                   THEN [status |-> "committed", rev |-> tx.base + 1] ELSE d.ledger[k]]
<1>2. L \in [Keys -> Records]
  <2>1. [status |-> "committed", rev |-> tx.base + 1] \in Records
    BY <1>1 DEF Records
  <2> QED BY <1>1, <2>1
<1>3. PICK d1 : d1 = Effect(d, Part("head", tx))
  OBVIOUS
<1>4. PICK d2 : d2 = Effect(d1, Part("records", tx))
  OBVIOUS
<1>5. e = Effect(d2, Part("ledger", tx))
  BY <1>3, <1>4, ApplyThree DEF Deltas
<1>6. /\ d1 \in Databases /\ d1.rev = d.rev + 1 /\ d1.snap = d.snap /\ d1.entity = d.entity
      /\ d1.index = d.index /\ d1.marker = d.marker /\ d1.ledger = d.ledger
  <2>1. d1 = [d EXCEPT !.schema = 2, !.rev = @ + 1]
    BY <1>3, Effects
  <2>2. d1 = [d EXCEPT !.schema = 2, !.rev = d.rev + 1] /\ d.rev + 1 \in Nat
    BY <1>1, <2>1
  <2> QED BY <2>2 DEF Databases
<1>7. /\ d2 \in Databases /\ d2.rev = d.rev + 1 /\ d2.snap = d.snap
      /\ d2.entity = d.entity \cup tx.entities /\ d2.index = d.index \cup tx.entities
      /\ d2.marker = d.marker /\ d2.ledger = d.ledger
  <2>1. d2 = [d1 EXCEPT !.entity = @ \cup tx.entities, !.index = @ \cup tx.entities]
    BY <1>4, Effects
  <2> QED BY <1>1, <1>6, <2>1 DEF Databases
<1>8. e = [d2 EXCEPT !.ledger = L, !.marker = @ \cup tx.keys]
  <2>1. e = [d2 EXCEPT !.ledger = [k \in Keys |-> IF k \in tx.keys
                                    THEN [status |-> "committed", rev |-> tx.base + 1] ELSE @[k]],
                       !.marker = @ \cup tx.keys]
    BY <1>5, Effects
  <2> QED BY <1>7, <2>1
<1> HIDE DEF L
<1>9. /\ e \in Databases /\ e.rev = d.rev + 1 /\ e.snap = d.snap
      /\ e.entity = d.entity \cup tx.entities /\ e.index = d.index \cup tx.entities
      /\ e.marker = d.marker \cup tx.keys /\ e.ledger = L
  BY <1>1, <1>2, <1>7, <1>8 DEF Databases
<1> QED
  BY <1>9 DEF L

LEMMA StatesApplied ==
    ASSUME NEW d \in Databases, NEW tx \in Txs, NEW e, e = Apply(d, States(tx))
    PROVE  /\ e \in Databases /\ e.rev = d.rev + 1
           /\ e.snap = [rev |-> d.rev + 1, entities |-> tx.entities]
           /\ e.entity = (d.entity \ tx.old) \cup tx.entities /\ e.index = tx.entities
           /\ e.marker = d.marker /\ e.ledger = d.ledger
<1>1. /\ tx.entities \subseteq Keys /\ tx.old \subseteq Keys /\ d.rev \in Nat
  BY DEF Txs, Databases
<1>2. PICK image : image = [rev |-> d.rev + 1, entities |-> tx.entities]
  OBVIOUS
<1>3. image \in [rev : Nat, entities : SUBSET Keys]
  BY <1>1, <1>2
<1>4. PICK d1 : d1 = Effect(d, Part("image", tx))
  OBVIOUS
<1>5. e = Effect(d1, Part("records", tx))
  BY <1>4, ApplyTwo DEF States
<1>6. /\ d1 \in Databases /\ d1.rev = d.rev + 1 /\ d1.snap = image
      /\ d1.entity = d.entity \ tx.old /\ d1.index = {} /\ d1.marker = d.marker
      /\ d1.ledger = d.ledger
  <2>1. d1 = [d EXCEPT !.snap = image, !.rev = @ + 1, !.schema = 2, !.entity = @ \ tx.old,
                       !.index = {}]
    BY <1>2, <1>4, Effects
  <2>2. PICK rev \in Nat, entity \in SUBSET Keys :
           /\ rev = d.rev + 1 /\ entity = d.entity \ tx.old
           /\ d1 = [d EXCEPT !.snap = image, !.rev = rev, !.schema = 2, !.entity = entity, !.index = {}]
    <3>1. d.rev + 1 \in Nat /\ d.entity \ tx.old \in SUBSET Keys
      BY <1>1 DEF Databases
    <3> QED BY <2>1, <3>1
  <2>3. {} \in SUBSET Keys
    OBVIOUS
  <2> QED BY <1>3, <2>2, <2>3 DEF Databases
<1>7. e = [d1 EXCEPT !.entity = @ \cup tx.entities, !.index = @ \cup tx.entities]
  BY <1>5, Effects
<1>8. /\ e \in Databases /\ e.rev = d.rev + 1 /\ e.snap = image
      /\ e.entity = (d.entity \ tx.old) \cup tx.entities /\ e.index = tx.entities
      /\ e.marker = d.marker /\ e.ledger = d.ledger
  <2>1. PICK entity \in SUBSET Keys, index \in SUBSET Keys :
           /\ entity = (d.entity \ tx.old) \cup tx.entities /\ index = tx.entities
           /\ e = [d1 EXCEPT !.entity = entity, !.index = index]
    <3>1. d1.entity \cup tx.entities \in SUBSET Keys /\ d1.index \cup tx.entities = tx.entities
      BY <1>1, <1>6 DEF Databases
    <3> QED BY <1>1, <1>6, <1>7, <3>1
  <2> QED BY <1>6, <2>1 DEF Databases
<1> QED
  BY <1>2, <1>8

(* What a transaction on the revision that stands does to the namespace    *)
(* and to the history.                                                     *)
Entries == [base : Nat, keys : SUBSET Keys, image : BOOLEAN]

LEMMA Committed ==
    ASSUME WireInv, opened' = opened, NEW e \in Entries, e.base = db.rev,
           \A k \in e.keys : Unseen(k, db.rev),
           log' = log \o <<e>>, db' \in Databases, db'.rev = db.rev + 1, db'.index = db'.entity,
           db'.marker = db.marker \cup e.keys,
           \A k \in Keys : db'.ledger[k] = IF k \in e.keys
                              THEN [status |-> "committed", rev |-> e.base + 1] ELSE db.ledger[k],
           IF e.image THEN db'.snap.rev = db'.rev ELSE db'.snap = db.snap
    PROVE  /\ Grow /\ DbOK'
           /\ \A k \in e.keys : InLog(k)'
           /\ \A n \in DOMAIN log' : n \in DOMAIN log \/ log'[n] = e
<1>1. /\ db.rev \in Nat /\ opened \in Nat /\ DOMAIN log = 1 .. db.rev
      /\ log \in Seq(Entries) /\ Len(log) = db.rev
  BY LogDomain DEF WireInv, DbOK, Entries
<1>2. /\ log' \in Seq(Entries) /\ Len(log') = db.rev + 1 /\ DOMAIN log' = 1 .. db.rev + 1
      /\ \A n \in 1 .. db.rev : log'[n] = log[n]
      /\ log'[db.rev + 1] = e
  <2>1. <<e>> \in Seq(Entries) /\ Len(<<e>>) = 1 /\ <<e>>[1] = e
    OBVIOUS
  <2>2. /\ log' \in Seq(Entries) /\ Len(log') = db.rev + 1
        /\ \A n \in 1 .. db.rev + 1 : log'[n] = IF n <= db.rev THEN log[n] ELSE <<e>>[n - db.rev]
    BY <1>1, <2>1, ConcatProperties
  <2>3. DOMAIN log' = 1 .. db.rev + 1
    BY <2>2, LenProperties
  <2>4. log'[db.rev + 1] = <<e>>[(db.rev + 1) - db.rev] /\ (db.rev + 1) - db.rev = 1
    BY <1>1, <2>2
  <2> QED BY <1>1, <2>1, <2>2, <2>3, <2>4
<1>3. \A n \in DOMAIN log' : n \in DOMAIN log \/ (n = db.rev + 1 /\ log'[n] = e)
  BY <1>1, <1>2
<1>4. \A k \in Keys : Recorded(k) => Recorded(k)'
  BY DEF Recorded, NoRecord
<1>5. Grow
  BY <1>1, <1>2, <1>3, <1>4 DEF Grow
<1>6. \A k \in e.keys : InLog(k)'
  BY <1>1, <1>2 DEF InLog
<1>7. CasHolds'
  <2>1. CasHolds
    BY DEF WireInv, DbOK
  <2>2. \A n \in 1 .. db.rev : log[n].base = n - 1
    BY <1>1, <2>1 DEF CasHolds
  <2>3. ASSUME NEW n \in 1 .. db.rev + 1 PROVE log'[n].base = n - 1
    <3>1. CASE n \in 1 .. db.rev
      BY <1>2, <2>2, <3>1
    <3>2. CASE n = db.rev + 1
      <4>1. log'[n] = e /\ e.base = n - 1
        BY <1>1, <1>2, <3>2
      <4> QED BY <4>1
    <3> QED BY <1>1, <3>1, <3>2
  <2> QED BY <1>2, <2>3 DEF CasHolds
<1>8. KeyAppliedOnce'
  <2>1. KeyAppliedOnce
    BY DEF WireInv, DbOK
  <2>2. \A n \in DOMAIN log : log[n].keys \cap e.keys = {}
    <3>1. ASSUME NEW n \in DOMAIN log, NEW k \in e.keys, k \in log[n].keys PROVE FALSE
      <4>1. n > db.rev
        BY <3>1 DEF Unseen
      <4> QED BY <1>1, <4>1
    <3> QED BY <3>1
  <2>3. ASSUME NEW m \in DOMAIN log', NEW n \in DOMAIN log', m # n
        PROVE  log'[m].keys \cap log'[n].keys = {}
    <3>1. CASE m \in DOMAIN log /\ n \in DOMAIN log
      BY <1>1, <1>2, <2>1, <2>3, <3>1 DEF KeyAppliedOnce
    <3>2. CASE m \in DOMAIN log /\ n \notin DOMAIN log
      BY <1>1, <1>2, <1>3, <2>2, <3>2
    <3>3. CASE m \notin DOMAIN log
      <4>1. m = db.rev + 1 /\ n \in DOMAIN log
        BY <1>3, <2>3, <3>3
      <4> QED BY <1>1, <1>2, <2>2, <4>1
    <3> QED BY <3>1, <3>2, <3>3
  <2> QED BY <2>3 DEF KeyAppliedOnce
<1>9. \A k \in Keys : k \in db'.marker <=> InLog(k)'
  <2>1. \A k \in Keys : k \in db.marker <=> InLog(k)
    BY DEF WireInv, DbOK
  <2>2. \A k : InLog(k)' <=> InLog(k) \/ k \in e.keys
    BY <1>1, <1>2, <1>3, <1>6 DEF InLog
  <2> QED BY <2>1, <2>2
<1>10. \A k \in Keys : db'.ledger[k].status = "committed" => InLog(k)'
  <2>1. ASSUME NEW k \in Keys, db'.ledger[k].status = "committed"
        PROVE  InLog(k)'
    <3>1. CASE k \in e.keys
      BY <1>6, <3>1
    <3>2. CASE k \notin e.keys
      <4>1. InLog(k)
        BY <2>1, <3>2 DEF WireInv, DbOK
      <4> QED BY <1>5, <4>1, InLogLasts
    <3> QED BY <3>1, <3>2
  <2> QED BY <2>1
<1>11. db'.snap # NoImage => ImageAt(db.snap.rev, db.rev)'
  <2>1. CASE e.image
    <3>1. db'.snap.rev = db.rev + 1
      BY <2>1
    <3> QED BY <1>1, <1>2, <2>1, <3>1 DEF ImageAt
  <2>2. CASE ~ e.image
    <3>1. SUFFICES ASSUME db.snap # NoImage PROVE ImageAt(db.snap.rev, db.rev)'
      BY <2>2
    <3>2. ImageAt(db.snap.rev, db.rev)
      BY <3>1 DEF WireInv, DbOK
    <3>3. /\ db.snap.rev \in 1 .. db.rev /\ log[db.snap.rev].image
          /\ \A m \in 1 .. db.rev : log[m].image => m <= db.snap.rev
      BY <1>1, <3>2 DEF ImageAt
    <3>4. \A m \in 1 .. db.rev + 1 : log'[m].image => m <= db.snap.rev
      <4>1. \A m \in 1 .. db.rev + 1 : m \in 1 .. db.rev \/ m = db.rev + 1
        BY <1>1
      <4> QED BY <1>2, <2>2, <3>3, <4>1
    <3> QED BY <1>1, <1>2, <2>2, <3>3, <3>4 DEF ImageAt
  <2> QED BY <2>1, <2>2
<1>12. DbOK'
  BY <1>2, <1>7, <1>8, <1>9, <1>10, <1>11 DEF DbOK, IndexComplete, Entries
<1> QED
  BY <1>3, <1>5, <1>6, <1>12

LEMMA ServerWrites ==
    ASSUME WireInv, DbOK', Grow, UNCHANGED <<client, opened>>,
           NEW i \in Links, NEW l2,
           link' = [j \in Links |-> IF j = i THEN l2 ELSE Dirtied(link[j])],
           link[i].open, LinkOK(l2)', TxsOf(l2) = {},
           \A n \in DOMAIN log' : \A k \in log'[n].keys : Issued(k),
           \A c \in Clients, rec \in Coordinators :
              rec = client[c] /\ rec.i = i => StreamOK(rec, l2)'
    PROVE  WireInv'
<1>1. i <= opened'
  <2>1. ~ (i > opened)
    BY DEF WireInv, Unopened
  <2> QED BY <2>1, LogDomain, WireAssumption DEF Links
<1>2. /\ link \in [Links -> LinkStates] /\ client \in [Clients -> Coordinators]
      /\ link'[i] = l2 /\ \A j \in Links : j # i => link'[j] = Dirtied(link[j])
  BY DEF WireInv
<1>3. ASSUME NEW j \in Links
      PROVE  LinkOK(link[j])' /\ link'[j] \in LinkStates
  <2>1. CASE j = i
    BY <1>2, <2>1 DEF LinkOK
  <2>2. CASE j # i
    <3>1. PICK l : l = link[j]
      OBVIOUS
    <3>2. LinkOK(l)
      BY <3>1 DEF WireInv
    <3>3. LinkOK(Dirtied(l))'
      BY <3>2, LinkDirtied
    <3>4. link'[j] = Dirtied(l)
      BY <1>2, <2>2, <3>1
    <3> QED BY <3>3, <3>4 DEF LinkOK
  <2> QED BY <2>1, <2>2
<1>4. \A j \in Links : j > opened' => link'[j] = Unopened
  <2>1. Dirtied(Unopened) = Unopened
    <3>1. Unopened.watched = FALSE /\ Unopened.dirty = FALSE
      BY DEF Unopened
    <3>2. Dirtied(Unopened) = [Unopened EXCEPT !.dirty = FALSE]
      BY <3>1 DEF Dirtied
    <3> QED BY <3>2 DEF Unopened
  <2>2. \A j \in Links : j > opened => link[j] = Unopened
    BY DEF WireInv
  <2>3. ASSUME NEW j \in Links, j > opened PROVE link'[j] = Unopened
    <3>1. j # i
      BY <1>1, <2>3, WireAssumption, LogDomain DEF Links
    <3>2. link'[j] = Dirtied(link[j]) /\ link[j] = Unopened
      BY <1>2, <2>2, <2>3, <3>1
    <3> QED BY <2>1, <3>2
  <2> QED BY <2>3
<1>5. ASSUME NEW c \in Clients
      PROVE  Knows(c, client[c])' /\ (client'[c].i # 0 => StreamOK(client[c], link[client[c].i])')
  <2>1. PICK rec \in Coordinators : rec = client[c]
    BY <1>2
  <2>2. Knows(c, rec) /\ Knows(c, rec)'
    BY <2>1, KnowsLasts DEF WireInv
  <2>3. SUFFICES ASSUME rec.i # 0 PROVE StreamOK(rec, link[rec.i])'
    BY <2>1, <2>2
  <2>4. rec.i \in Links
    BY <2>3, WireAssumption DEF Coordinators, Links
  <2>5. CASE rec.i = i
    BY <1>2, <2>1, <2>5
  <2>6. CASE rec.i # i
    <3>1. PICK l \in LinkStates : l = link[rec.i]
      BY <1>2, <2>4
    <3>2. link'[rec.i] = Dirtied(l)
      BY <1>2, <2>4, <2>6, <3>1
    <3>3. StreamOK(rec, l)
      BY <2>1, <2>3, <3>1 DEF WireInv
    <3>4. StreamOK(rec, Dirtied(l))'
      BY <2>2, <3>3, StreamDirtied
    <3> QED BY <3>2, <3>4
  <2> QED BY <2>5, <2>6
<1>6. \A n \in DOMAIN log' : \A k \in log'[n].keys : Issued(k)'
  BY DEF Issued
<1>7. \A j \in Links : \A tx \in TxsOf(link'[j]) : \A k \in tx.keys : Issued(k)'
  <2>1. \A l \in LinkStates : TxsOf(Dirtied(l)) = TxsOf(l)
    <3>1. ASSUME NEW l \in LinkStates PROVE TxsOf(Dirtied(l)) = TxsOf(l)
      <4>1. Dirtied(l).queue = l.queue /\ Dirtied(l).reqs = l.reqs
        BY DEF Dirtied, LinkStates
      <4> QED BY <4>1 DEF TxsOf
    <3> QED BY <3>1
  <2>2. \A j \in Links : \A tx \in TxsOf(link'[j]) : tx \in TxsOf(link[j])
    BY <1>2, <2>1
  <2> QED BY <2>2 DEF WireInv, Issued
<1> QED
  <2>1. link' \in [Links -> LinkStates]
    BY <1>3
  <2>2. opened' \in 0 .. MaxLinks /\ client' \in [Clients -> Coordinators]
    BY DEF WireInv
  <2>3. \A c, d \in Clients : client'[c].i # 0 /\ client'[c].i = client'[d].i => c = d
    BY DEF WireInv
  <2> QED BY <1>3, <1>4, <1>5, <1>6, <1>7, <2>1, <2>2, <2>3 DEF WireInv

(* A transaction that a watched key has changed for is discarded.          *)
LEMMA ExecRefused ==
    ASSUME WireInv, NEW i \in Links, Pending(i, {"EXEC"}), UNCHANGED <<db, opened, faults, client, log>>,
           Serve(i, Reset(link[i]), Reply("array", "nil", 0, {}, 0))
    PROVE  WireInv'
<1>1. PICK l : l = link[i]
  OBVIOUS
<1>2. l.reqs # <<>> /\ Head(l.reqs).cmd = "EXEC"
  BY <1>1 DEF Pending
<1>3. l \in LinkStates /\ LinkFits(l)
  BY <1>1, <1>2, Served
<1>4. /\ l.multi = TRUE /\ l.reqs = <<Exec>>
      /\ \E tx : l.queue = Deltas(tx) \/ l.queue = States(tx)
  BY <1>2, <1>3, FirstRequest DEF Commands
<1>5. PICK reply \in Replies : reply = Reply("array", "nil", 0, {}, 0)
  BY ReplyTypes
<1>6. PICK m \in LinkStates : m = Reset(l)
  BY <1>3, EmptySeq DEF Reset, LinkStates
<1>7. /\ m.reqs = l.reqs /\ m.reps = l.reps /\ m.multi = FALSE /\ m.queue = <<>> /\ m.open = l.open
  BY <1>3, <1>6 DEF LinkStates, Reset
<1>8. PICK l2 : l2 = After(i, m, reply)
  OBVIOUS
<1>9. Calm(l2) /\ l2.reqs = <<>>
  <2>1. m.reqs # <<>>
    BY <1>2, <1>7
  <2>2. l2.multi = m.multi /\ l2.queue = m.queue /\ l2.reqs = Tail(m.reqs)
    BY <2>1, <1>8, AfterFields
  <2> QED BY <1>4, <1>7, <2>2, OneHead DEF Calm
<1>10. Quiet /\ DbOK'
  BY LogDomain, SameGrows, SameDb
<1>11. LinkFits(l2)'
  BY <1>9 DEF LinkFits
<1>12. ~ IsResult(reply, 3) /\ ~ IsResult(reply, 2)
  BY <1>5 DEF IsResult, Reply
<1>13. ASSUME NEW rec \in Coordinators, InExchange(rec, l), l2.reps = Append(l.reps, reply)
       PROVE  /\ InExchange(rec, l2)'
              /\ Len(l.reps) < Want(rec.at) /\ Fits(rec, Len(l.reps) + 1, reply)'
  <2>1. rec.at \in {"batch", "exec"}
    BY <1>2, <1>3, <1>13, HeadOf
  <2>2. Len(l2.reps) = Len(l.reps) + 1
    BY <1>3, <1>13, LongerReplies
  <2>3. CASE rec.at = "batch"
    <3>1. l.queue # <<>>
      <4>1. \A tx : Deltas(tx) # <<>> /\ States(tx) # <<>>
        BY DEF Deltas, States
      <4> QED BY <1>4, <4>1
    <3>2. Len(l.reps) = 4
      BY <1>2, <1>3, <1>4, <1>13, <2>3, <3>1, RequestOf
    <3>3. InBatch(rec, l2)
      BY <1>9, <2>2, <3>2 DEF InBatch, Answered
    <3>4. InExchange(rec, l2)'
      <4>1. InBatch(rec, l2)'
        BY <3>3 DEF InBatch
      <4> QED BY <2>3, <4>1, ExchangeNext
    <3>5. Fits(rec, 5, reply)'
      BY <1>12, <2>3 DEF Fits, Watches
    <3> QED BY <2>3, <3>2, <3>4, <3>5 DEF Want, DeltaParts
  <2>4. CASE rec.at = "exec"
    <3>1. Len(l.reps) = 0
      <4>1. l.reps = <<>>
        BY <1>2, <1>3, <1>13, <2>4, RequestOf
      <4> QED BY <4>1
    <3>2. InExec(rec, l2)
      BY <1>9, <2>2, <3>1 DEF InExec, Answered
    <3>3. InExchange(rec, l2)'
      <4>1. InExec(rec, l2)'
        BY <3>2 DEF InExec
      <4> QED BY <2>4, <4>1, ExchangeNext
    <3>4. Fits(rec, 1, reply)'
      BY <1>12, <2>4 DEF Fits, Watches
    <3> QED BY <2>4, <3>1, <3>3, <3>4 DEF Want
  <2> QED BY <2>1, <2>3, <2>4
<1>14. Serve(i, m, reply)
  BY <1>1, <1>5, <1>6
<1> QED
  BY <1>1, <1>2, <1>7, <1>8, <1>10, <1>11, <1>13, <1>14, OneServed

(* Otherwise the queue runs on the revision it was made for.               *)
LEMMA ExecRun ==
    ASSUME WireInv, NEW i \in Links, ServeExec(i), link[i].multi /\ ~link[i].dirty
    PROVE  WireInv'
<1>1. PICK l : l = link[i]
  OBVIOUS
<1>2. l.reqs # <<>> /\ Head(l.reqs).cmd = "EXEC" /\ UNCHANGED <<opened, faults, client>>
  BY <1>1 DEF ServeExec, Pending
<1>3. l \in LinkStates /\ LinkFits(l) /\ l.open = TRUE /\ l.dirty = FALSE /\ l.reps \in Seq(Replies)
  BY <1>1, <1>2, Served DEF LinkStates
<1>4. /\ l.multi = TRUE /\ l.reqs = <<Exec>>
      /\ \E tx \in TxsOf(l) :
           /\ TxOK(tx) /\ Ready(l, tx.base)
           /\ l.queue = Deltas(tx) \/ (Whole(l, tx.old) /\ l.queue = States(tx))
  BY <1>2, <1>3, FirstRequest DEF Commands
<1>5. PICK tx \in TxsOf(l) :
           /\ TxOK(tx) /\ Ready(l, tx.base)
           /\ l.queue = Deltas(tx) \/ (Whole(l, tx.old) /\ l.queue = States(tx))
  BY <1>4
<1>6. /\ tx \in Txs /\ tx.base \in Nat /\ tx.keys \subseteq Keys /\ db.rev = tx.base
      /\ \A k \in tx.keys : Unseen(k, db.rev)
  BY <1>3, <1>5 DEF TxOK, Txs, Ready
<1>7. db \in Databases /\ db.rev \in Nat /\ opened' = opened /\ db.index = db.entity
  BY <1>2 DEF WireInv, DbOK, Databases, IndexComplete
<1>8. PICK ran : ran = Reply("array", "exec", db.rev + 1, {}, Len(l.queue))
  OBVIOUS
<1>9. Len(l.queue) \in Nat /\ ran \in Replies /\ ran.n = db.rev + 1
  <2>1. Len(l.queue) \in Nat
    BY <1>3, LenProperties DEF LinkStates
  <2> QED BY <1>7, <1>8, <2>1 DEF Reply, Replies, Kinds
<1>10. PICK l2 : l2 = [Reset(l) EXCEPT !.reqs = Tail(@), !.reps = IF Held(i) THEN Append(@, ran) ELSE @]
  OBVIOUS
<1>11. /\ l2 \in LinkStates /\ l2.open = TRUE /\ Calm(l2) /\ l2.reqs = <<>>
       /\ Held(i) => l2.reps = Append(l.reps, ran)
  <2>1. Tail(l.reqs) = <<>>
    BY <1>4, OneHead
  <2>2. Append(l.reps, ran) \in Seq(Replies)
    BY <1>3, <1>9, AppendProperties
  <2>3. /\ <<>> \in Seq(Requests)
    BY EmptySeq
  <2> QED BY <1>3, <1>10, <2>1, <2>2, <2>3 DEF Reset, LinkStates, Calm
<1>12. /\ db' = Apply(db, l.queue) /\ log' = log \o SetToSeq(Transaction(l.queue))
       /\ Transaction(l.queue) # {} =>
            link' = [j \in Links |-> IF j = i THEN l2 ELSE Dirtied(link[j])]
  BY <1>1, <1>8, <1>10 DEF ServeExec, Dirtied
<1>13. PICK e \in Entries : e.base = db.rev /\
         \/ l.queue = Deltas(tx) /\ e = [base |-> tx.base, keys |-> tx.keys, image |-> FALSE]
         \/ /\ l.queue = States(tx) /\ Whole(l, tx.old)
            /\ e = [base |-> tx.base, keys |-> {}, image |-> TRUE]
  BY <1>5, <1>6 DEF Entries
<1>14. e.keys \subseteq tx.keys
  BY <1>13
<1>15. /\ Grow /\ DbOK'
       /\ \A k \in e.keys : InLog(k)'
       /\ \A n \in DOMAIN log' : n \in DOMAIN log \/ log'[n] = e
       /\ Transaction(l.queue) # {} /\ db'.rev = db.rev + 1
  <2>1. CASE l.queue = Deltas(tx) /\ e = [base |-> tx.base, keys |-> tx.keys, image |-> FALSE]
    <3>1. log' = log \o <<e>> /\ Transaction(l.queue) # {}
      BY <1>12, <2>1, DeltasLogged
    <3>2. /\ db' \in Databases /\ db'.rev = db.rev + 1 /\ db'.snap = db.snap
          /\ db'.entity = db.entity \cup tx.entities /\ db'.index = db.index \cup tx.entities
          /\ db'.marker = db.marker \cup tx.keys
          /\ db'.ledger = [k \in Keys |-> IF k \in tx.keys
                             THEN [status |-> "committed", rev |-> tx.base + 1] ELSE db.ledger[k]]
      BY <1>6, <1>7, <1>12, <2>1, DeltasApplied
    <3>3. e.keys = tx.keys /\ e.base = tx.base /\ e.image = FALSE
      BY <2>1
    <3>4. /\ db'.index = db'.entity /\ db'.marker = db.marker \cup e.keys
          /\ IF e.image THEN db'.snap.rev = db'.rev ELSE db'.snap = db.snap
          /\ \A k \in Keys : db'.ledger[k] = IF k \in e.keys
                 THEN [status |-> "committed", rev |-> e.base + 1] ELSE db.ledger[k]
      BY <1>7, <3>2, <3>3
    <3> QED BY <1>6, <1>7, <1>13, <1>14, <3>1, <3>2, <3>4, Committed
  <2>2. CASE /\ l.queue = States(tx) /\ Whole(l, tx.old)
             /\ e = [base |-> tx.base, keys |-> {}, image |-> TRUE]
    <3>1. log' = log \o <<e>> /\ Transaction(l.queue) # {}
      BY <1>12, <2>2, StatesLogged
    <3>2. /\ db' \in Databases /\ db'.rev = db.rev + 1
          /\ db'.snap = [rev |-> db.rev + 1, entities |-> tx.entities]
          /\ db'.entity = (db.entity \ tx.old) \cup tx.entities /\ db'.index = tx.entities
          /\ db'.marker = db.marker /\ db'.ledger = db.ledger
      BY <1>6, <1>7, <1>12, <2>2, StatesApplied
    <3>3. e.keys = {} /\ e.base = tx.base /\ e.image = TRUE
      BY <2>2
    <3>4. db.index = tx.old
      BY <1>3, <2>2 DEF Whole
    <3>5. /\ db'.index = db'.entity /\ db'.marker = db.marker \cup e.keys
          /\ IF e.image THEN db'.snap.rev = db'.rev ELSE db'.snap = db.snap
          /\ \A k \in Keys : db'.ledger[k] = IF k \in e.keys
                 THEN [status |-> "committed", rev |-> e.base + 1] ELSE db.ledger[k]
      BY <1>7, <3>2, <3>3, <3>4
    <3> QED BY <1>6, <1>7, <1>13, <1>14, <3>1, <3>2, <3>5, Committed
  <2> QED BY <1>13, <2>1, <2>2
<1>16. link' = [j \in Links |-> IF j = i THEN l2 ELSE Dirtied(link[j])]
  BY <1>12, <1>15
<1>17. LinkOK(l2)' /\ TxsOf(l2) = {}
  <2>1. ToSet(l2.queue) \cup ToSet(l2.reqs) = {}
    BY <1>11 DEF Calm, ToSet
  <2>2. TxsOf(l2) = {}
    BY <2>1 DEF TxsOf
  <2>3. Calm(l2) /\ DOMAIN l2.reqs = {}
    BY <1>11
  <2>4. LinkFits(l2)'
    BY <2>3 DEF LinkFits
  <2>5. LinkOK(l2)'
    BY <1>11, <2>4 DEF LinkOK
  <2> QED BY <2>2, <2>5
<1>18. \A n \in DOMAIN log' : \A k \in log'[n].keys : Issued(k)
  <2>1. \A k \in e.keys : Issued(k)
    BY <1>1, <1>5, <1>14 DEF WireInv
  <2>2. \A n \in DOMAIN log : log'[n] = log[n] /\ \A k \in log[n].keys : Issued(k)
    BY <1>15 DEF WireInv, Grow
  <2> QED BY <1>15, <2>1, <2>2
<1>19. ASSUME NEW c \in Clients, NEW rec \in Coordinators, rec = client[c], rec.i = i
       PROVE  StreamOK(rec, l2)'
  <2>1. Knows(c, rec) /\ Held(i) /\ RepliesFit(rec, l) /\ InExchange(rec, l)
    BY <1>1, <1>2, <1>19, Served
  <2>2. l2.reps = Append(l.reps, ran)
    BY <1>11, <2>1
  <2>3. Len(l2.reps) = Len(l.reps) + 1
    BY <1>3, <1>9, <2>2, LongerReplies
  <2>4. RepliesFit(rec, l)'
    BY <1>3, <1>15, <2>1, RepliesLast
  <2>5. rec.at \in {"batch", "exec"}
    BY <1>2, <1>3, <2>1, HeadOf
  <2>6. ran.n <= db.rev'
    BY <1>7, <1>9, <1>15
  <2>7. CASE rec.at = "batch"
    <3>1. l.queue # <<>>
      BY <1>5 DEF Deltas, States
    <3>2. Len(l.reps) = 4 /\ DeltaSent(l, BatchTx(rec))
      BY <1>2, <1>3, <1>4, <2>1, <2>7, <3>1, RequestOf
    <3>3. l.queue = Deltas(BatchTx(rec))
      BY <1>4, <3>1, <3>2 DEF DeltaSent, Calm
    <3>4. l.queue = Deltas(tx) /\ tx = BatchTx(rec)
      <4>1. Part("head", BatchTx(rec)) = l.queue[1]
        BY <3>3 DEF Deltas
      <4>2. l.queue[1] \in {Part("head", tx), Part("image", tx)}
        BY <1>5 DEF Deltas, States
      <4>3. \A a, b : Part(a, BatchTx(rec)) = Part(b, tx) => a = b /\ BatchTx(rec) = tx
        BY DEF Part
      <4>4. BatchTx(rec) = tx /\ l.queue[1] # Part("image", tx)
        BY <4>1, <4>2, <4>3
      <4>5. l.queue # States(tx)
        BY <4>4 DEF States
      <4> QED BY <1>5, <4>4, <4>5
    <3>5. \A k \in ToSet(rec.apply) : InLog(k)'
      <4>1. e.keys = tx.keys
        BY <1>13, <3>4 DEF Deltas, States
      <4>2. tx.keys = ToSet(rec.apply)
        BY <3>4 DEF BatchTx, Tx
      <4> QED BY <1>15, <4>1, <4>2
    <3>6. InBatch(rec, l2)
      BY <1>11, <2>3, <3>2 DEF InBatch, Answered
    <3>7. InExchange(rec, l2)'
      <4>1. InBatch(rec, l2)'
        BY <3>6 DEF InBatch
      <4> QED BY <2>7, <4>1, ExchangeNext
    <3>8. Fits(rec, 5, ran)'
      BY <2>6, <2>7, <3>5 DEF Fits, Watches
    <3>9. RepliesFit(rec, l2)'
      <4>1. Want(rec.at) \in Nat /\ Want(rec.at) = 5
        BY <2>7 DEF Want, DeltaParts
      <4>2. Len(l.reps) < Want(rec.at) /\ Len(l.reps) + 1 = 5
        BY <3>2, <4>1
      <4>3. Fits(rec, Len(l.reps) + 1, ran)'
        BY <3>8, <4>2
      <4> QED BY <1>3, <1>9, <2>2, <2>4, <4>1, <4>2, <4>3, RepliesGrow
    <3> QED BY <1>11, <3>7, <3>9 DEF StreamOK
  <2>8. CASE rec.at = "exec"
    <3>1. Len(l.reps) = 0
      <4>1. l.reps = <<>>
        BY <1>2, <1>3, <2>1, <2>8, RequestOf
      <4> QED BY <4>1
    <3>2. InExec(rec, l2)
      BY <1>11, <2>3, <3>1 DEF InExec, Answered
    <3>3. InExchange(rec, l2)'
      <4>1. InExec(rec, l2)'
        BY <3>2 DEF InExec
      <4> QED BY <2>8, <4>1, ExchangeNext
    <3>4. Fits(rec, 1, ran)'
      BY <2>6, <2>8 DEF Fits, Watches
    <3>5. RepliesFit(rec, l2)'
      <4>1. Want(rec.at) \in Nat /\ Want(rec.at) = 1
        BY <2>8 DEF Want
      <4> QED BY <1>3, <1>9, <2>2, <2>4, <3>1, <3>4, <4>1, RepliesGrow
    <3> QED BY <1>11, <3>3, <3>5 DEF StreamOK
  <2> QED BY <2>5, <2>7, <2>8
<1> QED
  BY <1>1, <1>2, <1>3, <1>15, <1>16, <1>17, <1>18, <1>19, ServerWrites

LEMMA ExecServed ==
    ASSUME WireInv, NEW i \in Links, ServeExec(i)
    PROVE  WireInv'
<1>1. CASE link[i].multi /\ ~link[i].dirty
  BY <1>1, ExecRun
<1>2. CASE ~ (link[i].multi /\ ~link[i].dirty)
  <2>1. PICK l : l = link[i]
    OBVIOUS
  <2>2. l.reqs # <<>> /\ Head(l.reqs).cmd = "EXEC"
    BY <2>1 DEF ServeExec, Pending
  <2>3. l \in LinkStates /\ LinkFits(l)
    BY <2>1, <2>2, Served
  <2>4. l.multi = TRUE
    BY <2>2, <2>3, FirstRequest DEF Commands
  <2>5. /\ Pending(i, {"EXEC"}) /\ UNCHANGED <<db, opened, faults, client, log>>
        /\ Serve(i, Reset(link[i]), Reply("array", "nil", 0, {}, 0))
    BY <1>2, <2>1, <2>4 DEF ServeExec
  <2> QED BY <2>5, ExecRefused
<1> QED
  BY <1>1, <1>2

(* A connection is reset.                                                  *)
LEMMA Broken ==
    ASSUME WireInv, NEW i \in Links, Break(i)
    PROVE  WireInv'
<1>1. PICK l : l = link[i]
  OBVIOUS
<1>2. l \in LinkStates /\ l.open /\ UNCHANGED <<db, opened, client, log>>
  BY <1>1 DEF WireInv, Break
<1>3. PICK l2 : l2 = [Reset(l) EXCEPT !.open = FALSE, !.reqs = <<>>]
  OBVIOUS
<1>4. link' = [link EXCEPT ![i] = l2]
  BY <1>1, <1>3 DEF Break
<1>5. /\ l2 \in LinkStates /\ l2.open = FALSE /\ Calm(l2) /\ l2.reqs = <<>> /\ l2.reps = l.reps
  <2>1. /\ <<>> \in Seq(Requests)
    BY EmptySeq
  <2> QED BY <1>2, <1>3, <2>1 DEF Reset, LinkStates, Calm
<1>6. Quiet /\ DbOK'
  BY <1>2, LogDomain, SameGrows, SameDb
<1>7. LinkOK(l2)' /\ TxsOf(l2) = {}
  <2>1. ToSet(l2.queue) \cup ToSet(l2.reqs) = {}
    BY <1>5 DEF Calm, ToSet
  <2>2. TxsOf(l2) = {}
    BY <2>1 DEF TxsOf
  <2>3. Calm(l2) /\ DOMAIN l2.reqs = {}
    BY <1>5
  <2>4. LinkFits(l2)'
    BY <2>3 DEF LinkFits
  <2>5. LinkOK(l2)'
    BY <1>5, <2>4 DEF LinkOK
  <2> QED BY <2>2, <2>5
<1>8. ASSUME NEW c \in Clients, NEW rec \in Coordinators, rec = client[c], rec.i = i
      PROVE  StreamOK(rec, l2)'
  <2>1. rec.i # 0
    BY <1>8, WireAssumption DEF Links
  <2>2. Knows(c, rec) /\ StreamOK(rec, l)
    BY <1>1, <1>8, <2>1 DEF WireInv
  <2>3. RepliesFit(rec, l) /\ InExchange(rec, l)
    BY <1>2, <2>2 DEF StreamOK
  <2>4. RepliesFit(rec, l2)
    BY <1>5, <2>3 DEF RepliesFit
  <2>5. rec.at = "idle" => Stale(rec, l2)
    <3>1. SUFFICES ASSUME rec.at = "idle" PROVE Stale(rec, l2)
      OBVIOUS
    <3>2. Len(l.reps) = 0
      BY <2>3, <3>1, ExchangeAt DEF Answered
    <3>3. l.reps = <<>>
      BY <1>2, <3>2, EmptySeq DEF LinkStates
    <3> QED BY <1>5, <3>1, <3>3 DEF Stale
  <2>6. StreamOK(rec, l2)
    BY <1>5, <2>4, <2>5 DEF StreamOK
  <2> QED BY <1>5, <1>6, <2>2, <2>6, StreamLasts
<1> QED
  BY <1>1, <1>2, <1>4, <1>6, <1>7, <1>8, ServerMoves

-----------------------------------------------------------------------------
(* A coordinator that has the replies of an exchange.                      *)
Heard(c, rec, l) ==
    /\ c \in Clients /\ rec = client[c] /\ rec.i # 0 /\ l = link[rec.i]
    /\ rec.at # "idle" /\ Len(l.reps) = Want(rec.at) /\ RepliesFit(rec, l)
    /\ l.open = TRUE => InExchange(rec, l)

LEMMA HeardFacts ==
    ASSUME WireInv, NEW c, NEW rec, NEW l, Heard(c, rec, l)
    PROVE  /\ rec \in Coordinators /\ rec.i \in Links /\ Knows(c, rec)
           /\ l \in LinkStates /\ LinkOK(l) /\ l.reps \in Seq(Replies)
           /\ Len(l.reps) \in Nat /\ DOMAIN l.reps = 1 .. Want(rec.at)
           /\ \A n \in 1 .. Want(rec.at) : l.reps[n] \in Replies /\ Fits(rec, n, l.reps[n])
<1>1. c \in Clients /\ rec = client[c] /\ rec.i # 0 /\ l = link[rec.i]
  BY DEF Heard
<1>2. rec \in Coordinators /\ Knows(c, rec)
  BY <1>1 DEF WireInv
<1>3. rec.i \in Links
  BY <1>1, <1>2, WireAssumption DEF Coordinators, Links
<1>4. l \in LinkStates /\ LinkOK(l) /\ l.reps \in Seq(Replies)
  BY <1>1, <1>3 DEF WireInv, LinkStates
<1>5. Len(l.reps) \in Nat /\ DOMAIN l.reps = 1 .. Want(rec.at)
  BY <1>4, LenProperties DEF Heard
<1>6. \A n \in 1 .. Want(rec.at) : l.reps[n] \in Replies /\ Fits(rec, n, l.reps[n])
  <2>1. \A n \in DOMAIN l.reps : Fits(rec, n, l.reps[n])
    BY DEF Heard, RepliesFit
  <2>2. \A n \in 1 .. Len(l.reps) : l.reps[n] \in Replies
    BY <1>4, ElementOfSeq
  <2> QED BY <1>5, <2>1, <2>2 DEF Heard
<1> QED
  BY <1>2, <1>3, <1>4, <1>5, <1>6

(* The replies are those of the exchange, or what an ended tick left.      *)
LEMMA Hears ==
    ASSUME WireInv, NEW c \in Clients, NEW at, at # "idle", At(c, at),
           NEW rec, rec = client[c], NEW l, l = link[rec.i]
    PROVE  /\ rec.at = at /\ rec.i # 0
           /\ \/ Heard(c, rec, l)
              \/ Gone(rec, l) /\ at \in {"revision", "watch"}
<1>1. rec.at = at /\ Len(l.reps) >= Want(at) /\ rec \in Coordinators
  BY DEF At, WireInv
<1>2. rec.i # 0
  BY <1>1 DEF WireInv, Knows, Placed
<1>3. rec.i \in Links
  BY <1>1, <1>2, WireAssumption DEF Coordinators, Links
<1>4. StreamOK(rec, l) /\ l \in LinkStates
  BY <1>2, <1>3 DEF WireInv
<1>5. Len(l.reps) \in Nat /\ Want(at) \in Nat
  BY <1>4, LenProperties, WantNat DEF LinkStates
<1>6. CASE RepliesFit(rec, l) /\ (l.open = TRUE => InExchange(rec, l))
  <2>1. Len(l.reps) = Want(rec.at)
    BY <1>1, <1>5, <1>6 DEF RepliesFit
  <2> QED BY <1>1, <1>2, <1>6, <2>1 DEF Heard
<1>7. CASE l.open = FALSE /\ Stale(rec, l)
  BY <1>1, <1>2, <1>7 DEF Stale, Gone
<1>8. l.open \in BOOLEAN
  BY <1>4 DEF LinkStates
<1> QED
  BY <1>1, <1>4, <1>6, <1>7, <1>8 DEF StreamOK

(* What the connection is like when they have come.                        *)
LEMMA HeardOpen ==
    ASSUME WireInv, NEW c, NEW rec, NEW l, Heard(c, rec, l), l.open = TRUE
    PROVE  /\ l.reqs = <<>>
           /\ rec.at \notin {"multi", "queue1", "queue2"} => Answered(l, Want(rec.at))
<1>1. /\ InExchange(rec, l) /\ rec \in Coordinators /\ l \in LinkStates
      /\ Len(l.reps) = Want(rec.at) /\ rec.at # "idle" /\ l.reps \in Seq(Replies)
  BY HeardFacts DEF Heard
<1>2. rec.at \in Ats
  BY <1>1 DEF Coordinators
<1>3. l.reps = <<>> => Len(l.reps) = 0
  OBVIOUS
<1>4. CASE rec.at \in Singles
  <2>1. InSingle(rec, l)
    BY <1>1, <1>4, ExchangeAt
  <2>2. Want(rec.at) = 1
    BY <1>4 DEF Singles, Want
  <2> QED BY <1>1, <1>3, <2>1, <2>2 DEF InSingle, Answered
<1>5. CASE rec.at \in Watches
  <2>1. InWatch(l)
    BY <1>1, <1>5, ExchangeAt
  <2>2. Want(rec.at) = 2
    BY <1>5 DEF Watches, Want
  <2> QED BY <1>1, <1>3, <2>1, <2>2 DEF InWatch, Answered
<1>6. CASE rec.at = "batch"
  <2>1. InBatch(rec, l)
    BY <1>1, <1>6, ExchangeAt
  <2>2. Want(rec.at) = 5
    BY <1>6 DEF Want, DeltaParts
  <2> QED BY <1>1, <2>1, <2>2 DEF InBatch, Answered
<1>7. CASE rec.at = "exec"
  <2>1. InExec(rec, l)
    BY <1>1, <1>7, ExchangeAt
  <2>2. Want(rec.at) = 1
    BY <1>7 DEF Want
  <2> QED BY <1>1, <1>3, <2>1, <2>2 DEF InExec, Answered
<1>8. CASE rec.at \in {"multi", "queue1", "queue2"}
  <2>1. InQueue(rec, l)
    BY <1>1, <1>8, ExchangeAt DEF Queueing
  <2>2. Want(rec.at) = 1
    BY <1>8 DEF Want
  <2> QED BY <1>1, <1>3, <1>8, <2>1, <2>2 DEF InQueue, Queued, StateOpened, Calm
<1> QED
  BY <1>1, <1>2, <1>4, <1>5, <1>6, <1>7, <1>8 DEF Ats, Queueing

(* The replies say nothing of what is on its way to the server.            *)
LEMMA OtherReplies ==
    ASSUME NEW l \in LinkStates, LinkOK(l), NEW s \in Seq(Replies),
           NEW l2, l2 = [l EXCEPT !.reps = s]
    PROVE  /\ l2 \in LinkStates /\ LinkOK(l2) /\ TxsOf(l2) = TxsOf(l)
           /\ l2.open = l.open /\ l2.reqs = l.reqs /\ l2.reps = s /\ l2.multi = l.multi
           /\ l2.queue = l.queue /\ l2.watched = l.watched /\ l2.dirty = l.dirty
<1>1. /\ l2 \in LinkStates
      /\ l2.open = l.open /\ l2.reqs = l.reqs /\ l2.reps = s /\ l2.multi = l.multi
      /\ l2.queue = l.queue /\ l2.watched = l.watched /\ l2.dirty = l.dirty
  BY DEF LinkStates
<1>2. TxsOf(l2) = TxsOf(l)
  BY <1>1 DEF TxsOf
<1>3. LinkFits(l2)
  BY <1>1, <1>2 DEF LinkOK, LinkFits, Calm, Ready, Whole, DeltaSent, StateOpened, StateSent
<1> QED
  BY <1>1, <1>2, <1>3 DEF LinkOK, Calm

(* Plain commands and nothing else.                                        *)
LEMMA PlainFits ==
    ASSUME NEW l, Calm(l), \A n \in DOMAIN l.reqs : Plain(l.reqs[n])
    PROVE  LinkFits(l) /\ TxsOf(l) = {}
<1>1. \A n \in DOMAIN l.reqs : l.reqs[n].part = ""
  BY DEF Plain
<1>2. ToSet(l.queue) = {} /\ ToSet(l.reqs) = {l.reqs[n] : n \in DOMAIN l.reqs}
  BY DEF Calm, ToSet
<1>3. \A q \in ToSet(l.queue) \cup ToSet(l.reqs) : q.part = ""
  BY <1>1, <1>2
<1> QED
  BY <1>3 DEF LinkFits, TxsOf

(* The next requests go out when all replies have come.                    *)
LEMMA Asked ==
    ASSUME WireInv, NEW c, NEW rec, NEW l, Heard(c, rec, l),
           NEW at, NEW reqs \in Seq(Requests), NEW rec3, Exchange(c, at, reqs, rec3), rec3.i = rec.i
    PROVE  /\ client' = Put(client, c, Moved(rec3, at))
           /\ UNCHANGED <<db, log, opened>>
           /\ link' = Put(link, rec.i, Asking(l, reqs))
<1>1. /\ l \in LinkStates /\ LinkOK(l) /\ l.reps \in Seq(Replies) /\ l = link[rec.i]
      /\ Len(l.reps) = Want(rec.at) /\ rec.i \in Links /\ rec = client[c] /\ Len(l.reps) \in Nat
  BY HeardFacts DEF Heard
<1>2. link \in [Links -> LinkStates]
  BY DEF WireInv
<1>3. l.reqs = <<>>
  BY <1>1, HeardOpen DEF LinkOK, LinkStates
<1>4. <<>> \o reqs = reqs
  BY ConcatEmptySeq
<1>5. SubSeq(l.reps, Want(rec.at) + 1, Len(l.reps)) = <<>>
  BY <1>1, SubSeqEmpty
<1>6. link' = [link EXCEPT ![rec.i].reps = SubSeq(@, Want(rec.at) + 1, Len(@)),
                           ![rec.i].reqs = IF link[rec.i].open THEN @ \o reqs ELSE @]
  BY <1>1 DEF Exchange
<1>7. link' = [link EXCEPT ![rec.i] =
                 [l EXCEPT !.reps = SubSeq(l.reps, Want(rec.at) + 1, Len(l.reps)),
                           !.reqs = IF l.open THEN l.reqs \o reqs ELSE l.reqs]]
  BY <1>1, <1>2, <1>6
<1>8. link' = [link EXCEPT ![rec.i] = [l EXCEPT !.reps = <<>>, !.reqs = IF l.open THEN reqs ELSE <<>>]]
  BY <1>3, <1>4, <1>5, <1>7
<1> QED
  BY <1>8 DEF Exchange, Moved, Asking, Put

LEMMA NextExchange ==
    ASSUME WireInv, NEW c, NEW rec, NEW l, Heard(c, rec, l),
           NEW at, NEW reqs \in Seq(Requests), NEW rec3, Exchange(c, at, reqs, rec3), rec3.i = rec.i,
           NEW rec2, rec2 = Moved(rec3, at), rec2.i = rec.i,
           Knows(c, rec2), rec.issued \subseteq rec2.issued,
           \A l2 \in LinkStates :
              Continues(l, reqs, l2)
              => /\ LinkFits(l2) /\ InExchange(rec2, l2)
                 /\ \A tx \in TxsOf(l2) : tx \in TxsOf(l) \/ tx.keys \subseteq rec2.issued
    PROVE  WireInv'
<1>1. /\ l \in LinkStates /\ LinkOK(l) /\ l = link[rec.i] /\ rec = client[c] /\ c \in Clients
      /\ rec.i # 0
  BY HeardFacts DEF Heard
<1>2. client' = [client EXCEPT ![c] = rec2] /\ UNCHANGED <<db, log, opened>>
  <2>1. UNCHANGED <<db, log, opened>> /\ client' = Put(client, c, Moved(rec3, at))
    BY Asked
  <2> QED BY <2>1 DEF Put
<1>3. PICK l2 : l2 = Asking(l, reqs) /\ link' = [link EXCEPT ![rec.i] = l2]
  <2>1. link' = Put(link, rec.i, Asking(l, reqs))
    BY Asked
  <2> QED BY <2>1 DEF Put
<1>4. /\ l2 \in LinkStates /\ l2.open = l.open /\ l2.reps = <<>> /\ l2.multi = l.multi
      /\ l2.queue = l.queue /\ l2.watched = l.watched /\ l2.dirty = l.dirty
      /\ l2.reqs = IF l.open THEN reqs ELSE <<>>
  <2>1. <<>> \in Seq(Replies) /\ <<>> \in Seq(Requests)
    BY EmptySeq
  <2> QED BY <1>1, <1>3, <2>1 DEF LinkStates, Asking
<1>5. RepliesFit(rec2, l2)
  <2>1. Want(rec2.at) \in Nat /\ Len(l2.reps) = 0 /\ DOMAIN l2.reps = {}
    BY <1>4, WantNat
  <2> QED BY <2>1 DEF RepliesFit
<1>6. CASE l.open = TRUE
  <2>1. /\ LinkFits(l2) /\ InExchange(rec2, l2)
        /\ \A tx \in TxsOf(l2) : tx \in TxsOf(l) \/ tx.keys \subseteq rec2.issued
    <3>1. Continues(l, reqs, l2)
      BY <1>4, <1>6 DEF Continues
    <3> QED BY <1>4, <3>1
  <2>2. LinkOK(l2) /\ StreamOK(rec2, l2)
    BY <1>4, <1>5, <1>6, <2>1 DEF LinkOK, StreamOK
  <2> QED BY <1>1, <1>2, <1>3, <2>1, <2>2, ClientMoves
<1>7. CASE l.open = FALSE
  <2>1. Calm(l2) /\ l2.reqs = <<>>
    BY <1>1, <1>4, <1>7 DEF LinkOK, Calm
  <2>2. LinkOK(l2) /\ TxsOf(l2) = {}
    <3>1. \A n \in DOMAIN l2.reqs : Plain(l2.reqs[n])
      BY <2>1
    <3>2. LinkFits(l2) /\ TxsOf(l2) = {}
      BY <2>1, <3>1, PlainFits
    <3> QED BY <1>4, <1>7, <2>1, <3>2 DEF LinkOK
  <2>3. StreamOK(rec2, l2)
    <3>1. rec2.at = "idle" => Stale(rec2, l2)
      BY <1>4 DEF Stale
    <3> QED BY <1>4, <1>5, <1>7, <3>1 DEF StreamOK
  <2> QED BY <1>1, <1>2, <1>3, <2>2, <2>3, ClientMoves
<1> QED
  BY <1>1, <1>6, <1>7 DEF LinkStates

(* A question of one command.                                              *)
LEMMA RequestTypes ==
    /\ \A cmd \in Commands, key \in Keys \cup {NoKey} : Request(cmd, key) \in Requests
    /\ \A cmd \in Commands \cup {"MULTI", "EXEC"} : Ask(cmd) \in Requests
    /\ \A part \in {"head", "image", "records", "ledger"}, tx \in Txs : Part(part, tx) \in Requests
<1>1. \A cmd \in Commands \cup {"MULTI", "EXEC"}, key \in Keys \cup {NoKey} :
         Request(cmd, key) \in Requests
  <2>1. <<>> \in Seq(Txs)
    BY EmptySeq
  <2> QED BY <2>1 DEF Request, Requests
<1>2. \A part \in {"head", "image", "records", "ledger"}, tx \in Txs : Part(part, tx) \in Requests
  <2>1. \A tx \in Txs : <<tx>> \in Seq(Txs)
    OBVIOUS
  <2> QED BY <2>1 DEF Part, Requests
<1> QED
  BY <1>1, <1>2 DEF Ask

LEMMA SingleMoves ==
    ASSUME WireInv, NEW c, NEW rec, NEW l, Heard(c, rec, l),
           rec.at \notin {"multi", "queue1", "queue2"},
           NEW at \in Singles, NEW q \in Requests, NEW rec3, Exchange(c, at, <<q>>, rec3),
           rec3.i = rec.i, NEW rec2, rec2 = Moved(rec3, at), rec2.i = rec.i, rec2.at = at,
           q = Expected(rec2), Plain(q), Knows(c, rec2), rec.issued \subseteq rec2.issued,
           at = "members" => StillReady(l, rec2.known)
    PROVE  WireInv'
<1>1. ASSUME NEW l2 \in LinkStates,
             Continues(l, <<q>>, l2)
      PROVE  /\ LinkFits(l2) /\ InExchange(rec2, l2)
             /\ \A tx \in TxsOf(l2) : tx \in TxsOf(l) \/ tx.keys \subseteq rec2.issued
  <2>0. /\ l.open = TRUE /\ l2.open = TRUE /\ l2.reqs = <<q>> /\ l2.reps = <<>>
        /\ l2.multi = l.multi /\ l2.queue = l.queue
        /\ l2.watched = l.watched /\ l2.dirty = l.dirty
    BY <1>1 DEF Continues
  <2>1. Calm(l2)
    <3>1. Answered(l, Want(rec.at))
      BY <2>0, HeardOpen
    <3>2. l.multi = FALSE /\ l.queue = <<>>
      BY <3>1 DEF Answered, Calm
    <3> QED BY <2>0, <3>2 DEF Calm
  <2>2. LinkFits(l2) /\ TxsOf(l2) = {}
    <3>1. \A n \in DOMAIN l2.reqs : Plain(l2.reqs[n])
      BY <2>0
    <3> QED BY <2>1, <3>1, PlainFits
  <2>3. InSingle(rec2, l2)
    <3>1. l2.reqs = <<Expected(rec2)>> /\ l2.reps = <<>>
      BY <2>0
    <3>2. rec2.at = "members" => Ready(l2, rec2.known)
      BY <2>0 DEF StillReady, Ready
    <3> QED BY <2>1, <3>1, <3>2 DEF InSingle
  <2>4. InExchange(rec2, l2)
    BY <2>3, ExchangeAt
  <2> QED BY <2>2, <2>4
<1>2. <<q>> \in Seq(Requests)
  OBVIOUS
<1> QED
  BY <1>1, <1>2, NextExchange

(* WATCH and the revision.                                                 *)
LEMMA WatchMoves ==
    ASSUME WireInv, NEW c, NEW rec, NEW l, Heard(c, rec, l),
           rec.at \notin {"multi", "queue1", "queue2"},
           NEW at \in Watches, NEW rec3, StartWatch(c, at, rec3),
           rec3.i = rec.i, NEW rec2, rec2 = Moved(rec3, at), rec2.i = rec.i, rec2.at = at,
           Knows(c, rec2), rec.issued \subseteq rec2.issued
    PROVE  WireInv'
<1>1. Plain(Ask("WATCH")) /\ Plain(Ask("GETREV"))
  BY AskNamed DEF Plain, Commands
<1>2. ASSUME NEW l2 \in LinkStates,
             Continues(l, <<Ask("WATCH"), Ask("GETREV")>>, l2)
      PROVE  /\ LinkFits(l2) /\ InExchange(rec2, l2)
             /\ \A tx \in TxsOf(l2) : tx \in TxsOf(l) \/ tx.keys \subseteq rec2.issued
  <2>0. /\ l.open = TRUE /\ l2.open = TRUE /\ l2.reqs = <<Ask("WATCH"), Ask("GETREV")>> /\ l2.reps = <<>>
        /\ l2.multi = l.multi /\ l2.queue = l.queue
        /\ l2.watched = l.watched /\ l2.dirty = l.dirty
    BY <1>2 DEF Continues
  <2>1. Calm(l2)
    <3>1. Answered(l, Want(rec.at))
      BY <2>0, HeardOpen
    <3>2. l.multi = FALSE /\ l.queue = <<>>
      BY <3>1 DEF Answered, Calm
    <3> QED BY <2>0, <3>2 DEF Calm
  <2>2. LinkFits(l2) /\ TxsOf(l2) = {}
    <3>1. \A n \in DOMAIN l2.reqs : Plain(l2.reqs[n])
      BY <1>1, <2>0
    <3> QED BY <2>1, <3>1, PlainFits
  <2>3. InExchange(rec2, l2)
    <3>1. InWatch(l2)
      BY <2>0, <2>1 DEF InWatch
    <3> QED BY <3>1, ExchangeAt
  <2> QED BY <2>2, <2>3
<1>3. <<Ask("WATCH"), Ask("GETREV")>> \in Seq(Requests)
  BY RequestTypes DEF Commands
<1>4. Exchange(c, at, <<Ask("WATCH"), Ask("GETREV")>>, rec3)
  BY DEF StartWatch
<1> QED
  BY <1>2, <1>3, <1>4, NextExchange

(* The end of a call or a tick.                                            *)
LEMMA IdleFields ==
    ASSUME NEW rec \in Coordinators, NEW i \in 0 .. MaxLinks,
           NEW rec2, rec2 = Idled(rec, i)
    PROVE  /\ rec2 \in Coordinators /\ rec2.at = "idle" /\ rec2.i = i /\ rec2.flow = "none"
           /\ rec2.todo = <<>> /\ rec2.apply = <<>> /\ rec2.conflicts = {}
           /\ rec2.known = rec.known /\ rec2.mine = rec.mine
           /\ rec2.issued = rec.issued /\ rec2.pending = rec.pending
           /\ rec2.marked = rec.marked /\ rec2.rejected = rec.rejected
           /\ rec2.imageAt = rec.imageAt /\ rec2.image = rec.image
<1>1. NilBulk \in Replies
  BY DEF NilBulk, Bulk, Reply, Replies, Kinds
<1>2. <<>> \in Seq(Keys)
  BY EmptySeq
<1> QED
  BY <1>1, <1>2 DEF Idled, Idle, Coordinators, Ats

LEMMA IdleKnows ==
    ASSUME NEW c, NEW rec, Settled(c, rec), rec.fresh = TRUE => rec.i = 0,
           NEW i \in 0 .. MaxLinks, i <= opened, i # 0 => rec.fresh = FALSE,
           NEW rec2, rec2 = Idled(rec, i)
    PROVE  Knows(c, rec2)
<1>1. /\ rec \in Coordinators
      /\ rec2 \in Coordinators /\ rec2.at = "idle" /\ rec2.i = i /\ rec2.flow = "none"
      /\ rec2.todo = <<>> /\ rec2.apply = <<>> /\ rec2.conflicts = {}
      /\ rec2.known = rec.known
      /\ rec2.issued = rec.issued /\ rec2.pending = rec.pending
      /\ rec2.marked = rec.marked /\ rec2.rejected = rec.rejected
      /\ rec2.imageAt = rec.imageAt /\ rec2.image = rec.image
  BY IdleFields DEF Settled
<1>2. ToSet(rec2.todo) = {} /\ ToSet(rec2.apply) = {}
  BY <1>1 DEF ToSet
<1>3. Settled(c, rec2)
  BY <1>1, <1>2 DEF Settled
<1>4. Placed(rec2)
  <2>1. rec2.fresh = rec.fresh
    BY <1>1 DEF Idled, Idle, Coordinators
  <2>2. rec2.fresh = TRUE => rec2.i = 0
    BY <1>1, <2>1
  <2> QED BY <1>1, <2>2 DEF Placed
<1>5. Phase(rec2)
  BY <1>1 DEF Phase
<1> QED
  BY <1>3, <1>4, <1>5 DEF Knows

LEMMA HasLink ==
    ASSUME WireInv, NEW c \in Clients, NEW rec, rec = client[c], rec.i # 0
    PROVE  /\ rec \in Coordinators /\ rec.i \in Links /\ rec.i <= opened /\ Knows(c, rec)
           /\ rec.fresh = FALSE /\ link[rec.i] \in LinkStates /\ LinkOK(link[rec.i])
           /\ StreamOK(rec, link[rec.i])
<1>1. rec \in Coordinators /\ Knows(c, rec) /\ StreamOK(rec, link[rec.i])
  BY DEF WireInv
<1>2. rec.i \in Links
  BY <1>1, WireAssumption DEF Coordinators, Links
<1>3. rec.fresh \in BOOLEAN
  BY <1>1 DEF Coordinators
<1> QED
  BY <1>1, <1>2, <1>3 DEF WireInv, Knows, Settled, Placed

LEMMA DroppedMoves ==
    ASSUME WireInv, NEW c \in Clients, NEW rec, rec = client[c], rec.i # 0,
           NEW l, l = link[rec.i], NEW used \in Nat, Dropped(c, used), UNCHANGED <<db, opened, log>>,
           ~ AdapterDropped(rec.flow) =>
              IF l.open THEN Answered(l, used)
              ELSE \A n \in DOMAIN l.reps : n > used => l.reps[n].t = "simple"
    PROVE  WireInv'
<1>1. /\ rec \in Coordinators /\ rec.i \in Links /\ rec.i <= opened /\ Knows(c, rec)
      /\ rec.fresh = FALSE /\ l \in LinkStates /\ LinkOK(l)
  BY HasLink
<1>2. link \in [Links -> LinkStates] /\ l.reps \in Seq(Replies) /\ Len(l.reps) \in Nat
  BY <1>1, LenProperties DEF WireInv, LinkStates
<1>3. PICK i : i = IF AdapterDropped(rec.flow) THEN 0 ELSE rec.i
  OBVIOUS
<1>4. i \in 0 .. MaxLinks /\ i \in {0, rec.i} /\ i <= opened
  BY <1>1, <1>3, WireAssumption, LogDomain DEF Links
<1>5. PICK rec2 : rec2 = Idled(rec, i)
  OBVIOUS
<1>6. client' = [client EXCEPT ![c] = rec2]
  <2>1. client' = [client EXCEPT ![c] = [Idle(rec) EXCEPT !.at = "idle", !.i = i]]
    BY <1>3 DEF Dropped
  <2> QED BY <1>5, <2>1 DEF Idled
<1>7. Knows(c, rec2)
  BY <1>1, <1>4, <1>5, IdleKnows DEF Knows
<1>8. /\ rec2 \in Coordinators /\ rec2.at = "idle" /\ rec2.i = i /\ rec2.issued = rec.issued
  BY <1>1, <1>4, <1>5, IdleFields
<1>9. PICK s : s = IF AdapterDropped(rec.flow) THEN <<>> ELSE SubSeq(l.reps, used + 1, Len(l.reps))
  OBVIOUS
<1>10. /\ s \in Seq(Replies)
       /\ ~ AdapterDropped(rec.flow) =>
            /\ Len(s) = IF used + 1 <= Len(l.reps) THEN Len(l.reps) - used ELSE 0
            /\ \A n \in 1 .. Len(l.reps) - used : s[n] = l.reps[used + n]
  <2>1. \A n \in used + 1 .. Len(l.reps) : l.reps[n] \in Replies
    BY <1>2, ElementOfSeq
  <2>2. SubSeq(l.reps, used + 1, Len(l.reps)) \in Seq(Replies)
    BY <1>2, <2>1, SubSeqProperties
  <2>3. /\ Len(SubSeq(l.reps, used + 1, Len(l.reps)))
             = IF used + 1 <= Len(l.reps) THEN Len(l.reps) - (used + 1) + 1 ELSE 0
        /\ \A n \in 1 .. Len(l.reps) - (used + 1) + 1 :
             SubSeq(l.reps, used + 1, Len(l.reps))[n] = l.reps[(used + 1) + n - 1]
    BY <1>2, <2>1, SubSeqProperties
  <2>4. <<>> \in Seq(Replies)
    BY EmptySeq
  <2>5. /\ Len(l.reps) - (used + 1) + 1 = Len(l.reps) - used
        /\ \A n \in 1 .. Len(l.reps) - used : (used + 1) + n - 1 = used + n
    BY <1>2
  <2> QED BY <1>9, <2>2, <2>3, <2>4, <2>5
<1>11. PICK l2 : l2 = [l EXCEPT !.reps = s]
  OBVIOUS
<1>12. link' = [link EXCEPT ![rec.i] = l2]
  BY <1>1, <1>2, <1>9, <1>11 DEF Dropped
<1>13. /\ l2 \in LinkStates /\ LinkOK(l2) /\ TxsOf(l2) = TxsOf(l)
       /\ l2.open = l.open /\ l2.reqs = l.reqs /\ l2.reps = s /\ l2.multi = l.multi
       /\ l2.queue = l.queue
  BY <1>1, <1>10, <1>11, OtherReplies
<1>14. rec2.i # 0 => StreamOK(rec2, l2)
  <2>1. SUFFICES ASSUME ~ AdapterDropped(rec.flow) PROVE StreamOK(rec2, l2)
    BY <1>3, <1>8
  <2>2. CASE l.open = TRUE
    <3>1. Answered(l, used)
      BY <2>1, <2>2
    <3>2. Len(s) = 0
      BY <1>2, <1>10, <2>1, <3>1 DEF Answered
    <3>3. Answered(l2, 0)
      BY <1>13, <3>1, <3>2 DEF Answered, Calm
    <3>4. InExchange(rec2, l2)
      BY <1>8, <3>3, ExchangeAt
    <3>5. RepliesFit(rec2, l2)
      <4>1. DOMAIN s = {} /\ Want(rec2.at) \in Nat
        BY <1>10, <3>2, LenProperties, WantNat
      <4> QED BY <1>13, <3>2, <4>1 DEF RepliesFit
    <3> QED BY <1>13, <2>2, <3>4, <3>5 DEF StreamOK
  <2>3. CASE l.open = FALSE
    <3>1. \A n \in DOMAIN l.reps : n > used => l.reps[n].t = "simple"
      BY <2>1, <2>3
    <3>2. ASSUME NEW n \in DOMAIN s PROVE s[n].t = "simple"
      <4>1. n \in 1 .. Len(s) /\ DOMAIN l.reps = 1 .. Len(l.reps)
        BY <1>2, <1>10, <3>2, LenProperties
      <4>2. n \in 1 .. Len(l.reps) - used
        BY <1>2, <1>10, <2>1, <4>1
      <4>3. used + n \in DOMAIN l.reps /\ used + n > used
        BY <1>2, <4>1, <4>2
      <4> QED BY <1>10, <2>1, <3>1, <4>2, <4>3
    <3>3. Stale(rec2, l2)
      BY <1>8, <1>13, <3>2 DEF Stale
    <3> QED BY <1>13, <2>3, <3>3 DEF StreamOK
  <2> QED BY <1>1, <2>2, <2>3 DEF LinkStates
<1> QED
  BY <1>1, <1>4, <1>6, <1>7, <1>8, <1>12, <1>13, <1>14, ClientMoves

LEMMA FailMoves ==
    ASSUME WireInv, NEW c \in Clients, NEW rec, rec = client[c], rec.i # 0,
           NEW l, l = link[rec.i], Fail(c),
           \/ Heard(c, rec, l) /\ rec.at \notin {"multi", "queue1", "queue2"}
           \/ Gone(rec, l)
    PROVE  WireInv'
<1>1. PICK used \in Nat : used = Want(rec.at)
  BY WantNat
<1>2. Dropped(c, used) /\ UNCHANGED <<db, opened, log>>
  BY <1>1 DEF Fail
<1>3. IF l.open THEN Answered(l, used) ELSE \A n \in DOMAIN l.reps : n > used => l.reps[n].t = "simple"
  <2>1. CASE Heard(c, rec, l) /\ rec.at \notin {"multi", "queue1", "queue2"}
    <3>1. DOMAIN l.reps = 1 .. used
      BY <1>1, <2>1, HeardFacts
    <3>2. l.open = TRUE => Answered(l, used)
      BY <1>1, <2>1, HeardOpen
    <3>3. l.open \in BOOLEAN
      BY HasLink DEF LinkStates
    <3> QED BY <3>1, <3>2, <3>3
  <2>2. CASE Gone(rec, l)
    BY <2>2 DEF Gone, Stale
  <2> QED BY <2>1, <2>2
<1> QED
  BY <1>2, <1>3, DroppedMoves

-----------------------------------------------------------------------------
(* Steps that several actions share.                                       *)
LEMMA WithoutOK ==
    ASSUME NEW s \in Seq(Keys), NEW set
    PROVE  Without(s, set) \in Seq(Keys) /\ ToSet(Without(s, set)) \subseteq ToSet(s)
<1> DEFINE N == Len(s)
           V == {v \in Seq(Keys) : ToSet(v) \subseteq ToSet(s)}
           step == [n \in 1 .. N |-> [v \in V |-> IF s[n] \in set THEN v ELSE Append(v, s[n])]]
           Body(f) == [n \in 0 .. N |->
                         IF n = 0 THEN <<>>
                         ELSE IF s[n] \in set THEN f[n - 1] ELSE Append(f[n - 1], s[n])]
           left == CHOOSE f : f = Body(f)
<1>1. N \in Nat /\ \A n \in 1 .. N : s[n] \in Keys /\ s[n] \in ToSet(s)
  BY LenProperties, ElementOfSeq DEF ToSet
<1>2. \A n \in 1 .. N : \A v \in V : Append(v, s[n]) \in V
  <2>1. ASSUME NEW n \in 1 .. N, NEW v \in V
        PROVE  Append(v, s[n]) \in Seq(Keys) /\ ToSet(Append(v, s[n])) \subseteq ToSet(s)
    <3>1. v \in Seq(Keys) /\ Len(v) \in Nat /\ DOMAIN v = 1 .. Len(v)
      BY LenProperties
    <3>2. /\ Append(v, s[n]) \in Seq(Keys) /\ Len(Append(v, s[n])) = Len(v) + 1
          /\ \A i \in 1 .. Len(v) : Append(v, s[n])[i] = v[i]
          /\ Append(v, s[n])[Len(v) + 1] = s[n]
      BY <1>1, <3>1, AppendProperties
    <3>3. DOMAIN Append(v, s[n]) = 1 .. Len(v) + 1
      BY <3>2, LenProperties
    <3>4. \A i \in 1 .. Len(v) : v[i] \in ToSet(s)
      BY <3>1 DEF ToSet
    <3>5. \A i \in 1 .. Len(v) + 1 : Append(v, s[n])[i] \in ToSet(s)
      <4>1. \A i \in 1 .. Len(v) + 1 : i \in 1 .. Len(v) \/ i = Len(v) + 1
        BY <3>1
      <4> QED BY <1>1, <3>2, <3>4, <4>1
    <3> QED BY <3>2, <3>3, <3>5 DEF ToSet
  <2> QED BY <2>1
<1>3. <<>> \in V
  BY EmptySeq DEF ToSet
<1>4. Without(s, set) = left[N]
  BY DEF Without
<1> HIDE DEF N, V
<1>5. \E f : f = Body(f)
  <2>1. IsStep(step, N, V)
    BY <1>2 DEF IsStep
  <2>2. PICK f : Follows(f, N, V, <<>>, step)
    BY <1>1, <1>3, <2>1, PrefixRecursionExists
  <2>3. \A n \in 1 .. N : f[n - 1] \in V
    BY <1>1, <2>2 DEF Follows
  <2>4. \A n \in 1 .. N : f[n] = IF s[n] \in set THEN f[n - 1] ELSE Append(f[n - 1], s[n])
    BY <2>2, <2>3 DEF Follows
  <2>5. f = Body(f)
    <3>1. f = [n \in 0 .. N |-> f[n]] /\ f[0] = <<>>
      BY <2>2 DEF Follows
    <3>2. \A n \in 0 .. N : f[n] = IF n = 0 THEN <<>>
                             ELSE IF s[n] \in set THEN f[n - 1] ELSE Append(f[n - 1], s[n])
      <4>1. \A n \in 0 .. N : n = 0 \/ n \in 1 .. N
        BY <1>1
      <4> QED BY <2>4, <3>1, <4>1
    <3> HIDE DEF step
    <3> QED BY <3>1, <3>2
  <2> QED BY <2>5
<1>6. left = Body(left)
  BY <1>5
<1> HIDE DEF left
<1>7. \A n \in 0 .. N : n \in {m \in 0 .. N : left[m] \in V}
  <2> DEFINE S == {m \in 0 .. N : left[m] \in V}
  <2>1. 0 \in S
    BY <1>1, <1>3, <1>6
  <2>2. ASSUME NEW n \in 0 .. N - 1, n \in S
        PROVE  n + 1 \in S
    <3>1. n + 1 \in 1 .. N /\ n + 1 \in 0 .. N /\ (n + 1) - 1 = n /\ n + 1 # 0
      BY <1>1
    <3>2. left[n + 1] = IF s[n + 1] \in set THEN left[n] ELSE Append(left[n], s[n + 1])
      BY <1>6, <3>1
    <3> QED BY <1>2, <2>2, <3>1, <3>2
  <2> HIDE DEF S
  <2>3. \A n \in 0 .. N : n \in S
    BY <1>1, <2>1, <2>2, InductionUpTo
  <2> QED BY <2>3 DEF S
<1>8. left[N] \in V
  BY <1>1, <1>7
<1> QED
  BY <1>4, <1>8 DEF V

LEMMA EndMoves ==
    ASSUME WireInv, NEW c, NEW rec, NEW l, Heard(c, rec, l),
           rec.at \notin {"multi", "queue1", "queue2"},
           NEW rec3, End(c, rec3), rec3.i = rec.i, Settled(c, rec3), rec3.fresh = rec.fresh,
           rec.issued \subseteq rec3.issued
    PROVE  WireInv'
<1>1. /\ rec \in Coordinators /\ rec.i \in Links /\ rec.i <= opened /\ rec.i # 0
      /\ rec.fresh = FALSE /\ rec3 \in Coordinators
  BY HasLink DEF Heard, Settled
<1>2. PICK i \in 0 .. MaxLinks : i = rec.i
  BY <1>1, WireAssumption DEF Links
<1>3. PICK rec2 : rec2 = Idled(rec3, i)
  OBVIOUS
<1>4. rec2 = Moved(Idle(rec3), "idle") /\ Idle(rec3).i = rec.i
  BY <1>1, <1>2, <1>3 DEF Idle, Idled, Moved, Coordinators
<1>5. Knows(c, rec2)
  BY <1>1, <1>2, <1>3, IdleKnows
<1>6. rec2.at = "idle" /\ rec2.i = rec.i /\ rec2.issued = rec3.issued
  BY <1>1, <1>2, <1>3, IdleFields
<1>7. Exchange(c, "idle", <<>>, Idle(rec3)) /\ <<>> \in Seq(Requests)
  BY EmptySeq DEF End
<1>8. ASSUME NEW l2 \in LinkStates,
             Continues(l, <<>>, l2)
      PROVE  /\ LinkFits(l2) /\ InExchange(rec2, l2)
             /\ \A tx \in TxsOf(l2) : tx \in TxsOf(l) \/ tx.keys \subseteq rec2.issued
  <2>0. /\ l.open = TRUE /\ l2.open = TRUE /\ l2.reqs = <<>> /\ l2.reps = <<>>
        /\ l2.multi = l.multi /\ l2.queue = l.queue
        /\ l2.watched = l.watched /\ l2.dirty = l.dirty
    BY <1>8 DEF Continues
  <2>1. Calm(l2)
    <3>1. Answered(l, Want(rec.at))
      BY <2>0, HeardOpen
    <3>2. l.multi = FALSE /\ l.queue = <<>>
      BY <3>1 DEF Answered, Calm
    <3> QED BY <2>0, <3>2 DEF Calm
  <2>2. LinkFits(l2) /\ TxsOf(l2) = {}
    <3>1. \A n \in DOMAIN l2.reqs : Plain(l2.reqs[n])
      BY <2>0
    <3> QED BY <2>1, <3>1, PlainFits
  <2>3. InExchange(rec2, l2)
    <3>1. Answered(l2, 0)
      BY <2>0, <2>1 DEF Answered
    <3> QED BY <1>6, <3>1, ExchangeAt
  <2> QED BY <2>2, <2>3
<1> QED
  BY <1>4, <1>5, <1>6, <1>7, <1>8, NextExchange

LEMMA FinishMoves ==
    ASSUME WireInv, NEW c, NEW rec, NEW l, Heard(c, rec, l),
           rec.at \notin {"multi", "queue1", "queue2"},
           NEW rec3, Finish(c, rec3), rec3.i = rec.i, Settled(c, rec3), rec3.fresh = rec.fresh,
           rec.issued \subseteq rec3.issued, \A k \in ToSet(rec3.apply) : InLog(k)
    PROVE  WireInv'
<1>1. /\ rec3 \in Coordinators /\ rec3.pending \in Seq(Keys) /\ rec3.apply \in Seq(Keys)
      /\ rec3.conflicts \subseteq Keys /\ rec3.marked \subseteq Keys /\ rec3.rejected \subseteq Keys
  BY DEF Settled, Coordinators
<1>2. PICK left \in Seq(Keys) :
         /\ left = Without(rec3.pending, ToSet(rec3.apply) \cup rec3.conflicts)
         /\ ToSet(left) \subseteq ToSet(rec3.pending)
  BY <1>1, WithoutOK
<1>3. PICK rec4 : rec4 = [rec3 EXCEPT !.pending = left, !.local = left # <<>>,
                                      !.marked = @ \cup ToSet(rec3.apply),
                                      !.rejected = @ \cup rec3.conflicts]
  OBVIOUS
<1>4. End(c, rec4)
  BY <1>2, <1>3 DEF Finish
<1>5. ToSet(rec3.apply) \subseteq Keys
  BY <1>1, ElementOfSeq DEF ToSet
<1>6. /\ rec4 \in Coordinators /\ rec4.i = rec3.i /\ rec4.fresh = rec3.fresh
      /\ rec4.issued = rec3.issued /\ rec4.pending = left /\ rec4.known = rec3.known
      /\ rec4.todo = rec3.todo /\ rec4.apply = rec3.apply /\ rec4.conflicts = rec3.conflicts
      /\ rec4.marked = rec3.marked \cup ToSet(rec3.apply)
      /\ rec4.rejected = rec3.rejected \cup rec3.conflicts
      /\ rec4.imageAt = rec3.imageAt /\ rec4.image = rec3.image
  BY <1>1, <1>3, <1>5 DEF Coordinators
<1>7. Settled(c, rec4)
  BY <1>2, <1>6 DEF Settled
<1> QED
  BY <1>4, <1>6, <1>7, EndMoves

LEMMA AtFields ==
    ASSUME NEW rec3 \in Coordinators, NEW at \in Ats, NEW rec2, rec2 = Moved(rec3, at)
    PROVE  /\ rec2 \in Coordinators /\ rec2.at = at /\ rec2.i = rec3.i /\ rec2.flow = rec3.flow
           /\ rec2.todo = rec3.todo /\ rec2.apply = rec3.apply /\ rec2.conflicts = rec3.conflicts
           /\ rec2.fresh = rec3.fresh /\ rec2.known = rec3.known /\ rec2.mine = rec3.mine
           /\ rec2.issued = rec3.issued /\ rec2.pending = rec3.pending
           /\ rec2.marked = rec3.marked /\ rec2.rejected = rec3.rejected
           /\ rec2.before = rec3.before /\ rec2.read = rec3.read /\ rec2.then = rec3.then
           /\ rec2.old = rec3.old /\ rec2.imageAt = rec3.imageAt /\ rec2.image = rec3.image
           /\ \A c : Settled(c, rec3) => Settled(c, rec2)
<1>1. /\ rec2 \in Coordinators /\ rec2.at = at /\ rec2.i = rec3.i /\ rec2.flow = rec3.flow
      /\ rec2.todo = rec3.todo /\ rec2.apply = rec3.apply /\ rec2.conflicts = rec3.conflicts
      /\ rec2.fresh = rec3.fresh /\ rec2.known = rec3.known /\ rec2.mine = rec3.mine
      /\ rec2.issued = rec3.issued /\ rec2.pending = rec3.pending
      /\ rec2.marked = rec3.marked /\ rec2.rejected = rec3.rejected
      /\ rec2.before = rec3.before /\ rec2.read = rec3.read /\ rec2.then = rec3.then
      /\ rec2.old = rec3.old /\ rec2.imageAt = rec3.imageAt /\ rec2.image = rec3.image
  BY DEF Coordinators, Moved
<1>2. \A c : Settled(c, rec3) => Settled(c, rec2)
  BY <1>1 DEF Settled
<1> QED
  BY <1>1, <1>2

LEMMA PlaceNames ==
    /\ Singles \subseteq Ats /\ Watches \subseteq Ats /\ Queueing \subseteq Ats
    /\ "batch" \in Ats /\ "idle" \in Ats
    /\ "ping" \in Ats /\ "rev1" \in Ats /\ "snapshot" \in Ats /\ "rev2" \in Ats /\ "ledger" \in Ats
    /\ "applied" \in Ats /\ "marker" \in Ats /\ "revision" \in Ats /\ "schema" \in Ats /\ "unwatch" \in Ats
    /\ "actual" \in Ats /\ "conflict_ledger" \in Ats /\ "conflict_set" \in Ats /\ "members" \in Ats /\ "watch" \in Ats
    /\ "state_watch" \in Ats /\ "multi" \in Ats /\ "queue1" \in Ats /\ "queue2" \in Ats /\ "exec" \in Ats
  BY DEF Ats, Singles, Watches, Queueing

(* A command about the revision or the snapshot.                           *)
LEMMA AskMoves ==
    ASSUME WireInv, NEW c, NEW rec, NEW l, Heard(c, rec, l),
           rec.at \notin {"multi", "queue1", "queue2"},
           NEW at \in Singles, NEW cmd \in Commands \ {"GETLEDGER", "GETMARKER", "SETCONFLICT"},
           NEW rec3 \in Coordinators, Exchange(c, at, <<Ask(cmd)>>, rec3), rec3.i = rec.i,
           NEW rec2, rec2 = Moved(rec3, at),
           Ask(cmd) = Expected(rec2), Knows(c, rec2), rec.issued \subseteq rec3.issued,
           at = "members" => StillReady(l, rec3.known)
    PROVE  WireInv'
<1>1. Ask(cmd) \in Requests /\ Plain(Ask(cmd))
  BY RequestTypes, AskNamed DEF Plain
<1>2. rec2.i = rec.i /\ rec2.at = at /\ rec2.issued = rec3.issued /\ rec2.known = rec3.known
  <2>1. at \in Ats
    BY PlaceNames
  <2> QED BY <2>1, AtFields
<1> QED
  BY <1>1, <1>2, SingleMoves

(* One about an operation.                                                 *)
LEMMA KeyMoves ==
    ASSUME WireInv, NEW c, NEW rec, NEW l, Heard(c, rec, l),
           rec.at \notin {"multi", "queue1", "queue2"},
           NEW at, NEW cmd,
           \/ at \in {"ledger", "applied", "conflict_ledger"} /\ cmd = "GETLEDGER"
           \/ at = "marker" /\ cmd = "GETMARKER"
           \/ at = "conflict_set" /\ cmd = "SETCONFLICT",
           NEW rec3 \in Coordinators, rec3.todo # <<>>,
           Exchange(c, at, <<Request(cmd, Head(rec3.todo))>>, rec3), rec3.i = rec.i,
           NEW rec2, rec2 = Moved(rec3, at),
           Knows(c, rec2), rec.issued \subseteq rec3.issued
    PROVE  WireInv'
<1>1. at \in Singles /\ cmd \in Commands /\ at # "members"
  BY DEF Singles, Commands
<1>2. rec2.i = rec.i /\ rec2.at = at /\ rec2.issued = rec3.issued /\ rec2.todo = rec3.todo
  <2>1. at \in Ats
    BY <1>1, PlaceNames
  <2> QED BY <1>1, <2>1, AtFields
<1>3. PICK k \in Keys : k = Head(rec3.todo)
  <2>1. rec3.todo \in Seq(Keys)
    BY DEF Coordinators
  <2> QED BY <2>1, HeadTailProperties
<1>4. PICK q \in Requests : q = Request(cmd, k)
  BY <1>1, RequestTypes
<1>5. Plain(q)
  BY <1>1, <1>4 DEF Plain, Request
<1>6. q = Expected(rec2)
  BY <1>2, <1>3, <1>4 DEF Expected
<1>7. Exchange(c, at, <<q>>, rec3)
  BY <1>3, <1>4
<1> QED
  BY <1>1, <1>2, <1>4, <1>5, <1>6, <1>7, SingleMoves

LEMMA EntryMoves ==
    ASSUME WireInv, NEW c, NEW rec, NEW l, Heard(c, rec, l),
           rec.at \notin {"multi", "queue1", "queue2"},
           NEW rec3, NextEntry(c, rec3), rec3.i = rec.i, Settled(c, rec3), rec3.fresh = rec.fresh,
           rec.issued \subseteq rec3.issued, rec3.flow \notin {"none", "call"},
           \A k \in ToSet(rec3.apply) : Unseen(k, rec3.known)
    PROVE  WireInv'
<1>1. rec.i # 0 /\ rec.fresh = FALSE /\ rec3 \in Coordinators
  BY HasLink DEF Heard, Settled
<1>2. CASE rec3.todo # <<>>
  <2>1. Exchange(c, "ledger", <<Request("GETLEDGER", Head(rec3.todo))>>, rec3)
    BY <1>2 DEF NextEntry
  <2>2. PICK rec2 : rec2 = Moved(rec3, "ledger")
    OBVIOUS
  <2>3. /\ rec2.at = "ledger" /\ rec2.i = rec3.i /\ rec2.flow = rec3.flow /\ rec2.todo = rec3.todo
        /\ rec2.apply = rec3.apply /\ rec2.fresh = rec3.fresh /\ rec2.known = rec3.known
        /\ Settled(c, rec2)
    <3>1. "ledger" \in Ats
      BY PlaceNames
    <3> QED BY <1>1, <2>2, <3>1, AtFields
  <2>4. Placed(rec2) /\ Phase(rec2)
    BY <1>1, <1>2, <2>3 DEF Placed, Phase
  <2> QED BY <1>1, <1>2, <2>1, <2>2, <2>3, <2>4, KeyMoves DEF Knows
<1>3. CASE rec3.todo = <<>> /\ rec3.apply # <<>>
  <2>1. StartWatch(c, "watch", rec3)
    BY <1>3 DEF NextEntry
  <2>2. PICK rec2 : rec2 = Moved(rec3, "watch")
    OBVIOUS
  <2>3. /\ rec2.at = "watch" /\ rec2.i = rec3.i /\ rec2.flow = rec3.flow /\ rec2.todo = rec3.todo
        /\ rec2.apply = rec3.apply /\ rec2.fresh = rec3.fresh /\ rec2.known = rec3.known
        /\ rec2.issued = rec3.issued /\ Settled(c, rec2)
    <3>1. "watch" \in Ats
      BY PlaceNames
    <3> QED BY <1>1, <2>2, <3>1, AtFields
  <2>4. Placed(rec2) /\ Phase(rec2)
    BY <1>1, <1>3, <2>3 DEF Placed, Phase
  <2>5. "watch" \in Watches
    BY DEF Watches
  <2> QED BY <2>1, <2>2, <2>3, <2>4, <2>5, WatchMoves DEF Knows
<1>4. CASE rec3.todo = <<>> /\ rec3.apply = <<>>
  <2>1. Finish(c, rec3) /\ ToSet(rec3.apply) = {}
    BY <1>4 DEF NextEntry, ToSet
  <2> QED BY <2>1, FinishMoves
<1> QED
  BY <1>2, <1>3, <1>4

LEMMA ReconcileMoves ==
    ASSUME WireInv, NEW c, NEW rec, NEW l, Heard(c, rec, l),
           rec.at \notin {"multi", "queue1", "queue2"},
           NEW rec3, Reconcile(c, rec3), rec3.i = rec.i, Settled(c, rec3), rec3.fresh = rec.fresh,
           rec.issued \subseteq rec3.issued, rec3.flow \notin {"none", "call"}
    PROVE  WireInv'
<1>1. rec3 \in Coordinators
  BY DEF Settled
<1>2. PICK rec4 : rec4 = [rec3 EXCEPT !.todo = rec3.pending, !.apply = <<>>, !.conflicts = {},
                                      !.flow = IF @ = "attach" THEN "tick" ELSE @]
  OBVIOUS
<1>3. NextEntry(c, rec4)
  BY <1>2 DEF Reconcile
<1>4. /\ rec4 \in Coordinators /\ rec4.i = rec3.i /\ rec4.fresh = rec3.fresh
      /\ rec4.flow \notin {"none", "call"}
      /\ rec4.issued = rec3.issued /\ rec4.pending = rec3.pending /\ rec4.known = rec3.known
      /\ rec4.todo = rec3.pending /\ rec4.apply = <<>> /\ rec4.conflicts = {}
      /\ rec4.marked = rec3.marked /\ rec4.rejected = rec3.rejected
      /\ rec4.imageAt = rec3.imageAt /\ rec4.image = rec3.image
  <2>1. <<>> \in Seq(Keys)
    BY EmptySeq
  <2> QED BY <1>1, <1>2, <2>1 DEF Coordinators
<1>5. ToSet(rec4.apply) = {}
  BY <1>4 DEF ToSet
<1>6. Settled(c, rec4)
  BY <1>4, <1>5 DEF Settled
<1> QED
  BY <1>3, <1>4, <1>5, <1>6, EntryMoves

LEMMA ReadMoves ==
    ASSUME WireInv, NEW c, NEW rec, NEW l, Heard(c, rec, l),
           rec.at \notin {"multi", "queue1", "queue2"},
           NEW rec3, NEW then \in {"attach", "tick", "rejected"}, StartRead(c, rec3, then),
           rec3.i = rec.i, Settled(c, rec3), rec3.fresh = rec.fresh,
           rec.issued \subseteq rec3.issued, rec3.flow \notin {"none", "call"},
           then = "attach" => rec3.apply = <<>>,
           then = "rejected" => \A k \in ToSet(rec3.apply) : Recorded(k)
    PROVE  WireInv'
<1>1. rec.i # 0 /\ rec.fresh = FALSE /\ rec3 \in Coordinators
  BY HasLink DEF Heard, Settled
<1>2. PICK rec4 : rec4 = [rec3 EXCEPT !.then = then, !.tries = 0]
  OBVIOUS
<1>3. Exchange(c, "rev1", <<Ask("GETREV")>>, rec4)
  BY <1>2 DEF StartRead
<1>4. /\ rec4 \in Coordinators /\ rec4.i = rec3.i /\ rec4.fresh = rec3.fresh
      /\ rec4.flow = rec3.flow /\ rec4.then = then
      /\ rec4.issued = rec3.issued /\ rec4.pending = rec3.pending /\ rec4.known = rec3.known
      /\ rec4.todo = rec3.todo /\ rec4.apply = rec3.apply /\ rec4.conflicts = rec3.conflicts
      /\ rec4.marked = rec3.marked /\ rec4.rejected = rec3.rejected
      /\ rec4.imageAt = rec3.imageAt /\ rec4.image = rec3.image
  BY <1>1, <1>2 DEF Coordinators
<1>5. Settled(c, rec4)
  BY <1>4 DEF Settled
<1>6. PICK rec2 : rec2 = Moved(rec4, "rev1")
  OBVIOUS
<1>7. /\ rec2.at = "rev1" /\ rec2.i = rec3.i /\ rec2.flow = rec3.flow /\ rec2.then = then
      /\ rec2.apply = rec3.apply /\ rec2.fresh = rec3.fresh /\ Settled(c, rec2)
  <2>1. "rev1" \in Ats
    BY PlaceNames
  <2> QED BY <1>4, <1>5, <1>6, <2>1, AtFields
<1>8. Placed(rec2) /\ Phase(rec2)
  BY <1>1, <1>7 DEF Placed, Phase
<1>9. Ask("GETREV") = Expected(rec2)
  BY <1>7 DEF Expected
<1>10. "rev1" \in Singles /\ "GETREV" \in Commands
  BY DEF Singles, Commands
<1> QED
  BY <1>3, <1>4, <1>6, <1>7, <1>8, <1>9, <1>10, AskMoves DEF Knows

LEMMA StateMoves ==
    ASSUME WireInv, NEW c, NEW rec, NEW l, Heard(c, rec, l),
           rec.at \notin {"multi", "queue1", "queue2"},
           NEW rec3, StartState(c, rec3), rec3.i = rec.i, Settled(c, rec3), rec3.fresh = rec.fresh,
           rec.issued \subseteq rec3.issued, rec3.flow \notin {"none", "call"},
           \A k \in ToSet(rec3.apply) : InLog(k)
    PROVE  WireInv'
<1>1. rec.i # 0 /\ rec.fresh = FALSE /\ rec3 \in Coordinators
  BY HasLink DEF Heard, Settled
<1>2. PICK rec4 : rec4 = [rec3 EXCEPT !.then = "state"]
  OBVIOUS
<1>3. StartWatch(c, "state_watch", rec4)
  BY <1>2 DEF StartState
<1>4. /\ rec4 \in Coordinators /\ rec4.i = rec3.i /\ rec4.fresh = rec3.fresh
      /\ rec4.flow = rec3.flow /\ rec4.then = "state"
      /\ rec4.issued = rec3.issued /\ rec4.pending = rec3.pending /\ rec4.known = rec3.known
      /\ rec4.todo = rec3.todo /\ rec4.apply = rec3.apply /\ rec4.conflicts = rec3.conflicts
      /\ rec4.marked = rec3.marked /\ rec4.rejected = rec3.rejected
      /\ rec4.imageAt = rec3.imageAt /\ rec4.image = rec3.image
  BY <1>1, <1>2 DEF Coordinators
<1>5. Settled(c, rec4)
  BY <1>4 DEF Settled
<1>6. PICK rec2 : rec2 = Moved(rec4, "state_watch")
  OBVIOUS
<1>7. /\ rec2.at = "state_watch" /\ rec2.i = rec3.i /\ rec2.flow = rec3.flow /\ rec2.then = "state"
      /\ rec2.apply = rec3.apply /\ rec2.fresh = rec3.fresh /\ rec2.issued = rec3.issued
      /\ Settled(c, rec2)
  <2>1. "state_watch" \in Ats
    BY PlaceNames
  <2> QED BY <1>4, <1>5, <1>6, <2>1, AtFields
<1>8. Placed(rec2) /\ Phase(rec2)
  BY <1>1, <1>7 DEF Placed, Phase
<1>9. "state_watch" \in Watches
  BY DEF Watches
<1> QED
  BY <1>3, <1>4, <1>6, <1>7, <1>8, <1>9, WatchMoves DEF Knows

-----------------------------------------------------------------------------
(* The actions of a coordinator, one by one.                               *)
LEMMA HeardAt ==
    ASSUME WireInv, NEW c \in Clients, NEW at, at \notin {"idle", "revision", "watch"}, At(c, at),
           NEW rec, rec = client[c], NEW l, l = link[rec.i]
    PROVE  /\ Heard(c, rec, l) /\ rec.at = at /\ rec.i # 0 /\ rec \in Coordinators
           /\ Settled(c, rec) /\ Placed(rec) /\ Phase(rec)
           /\ rec.flow # "none"
           /\ rec.flow = "call" => at \in {"batch", "unwatch", "actual"}
           /\ \A n \in 1 .. Want(at) :
                l.reps[n] \in Replies /\ Fits(rec, n, l.reps[n]) /\ Answer(c, n) = l.reps[n]
<1>1. Heard(c, rec, l) /\ rec.at = at /\ rec.i # 0
  BY Hears
<1>2. /\ rec \in Coordinators /\ Knows(c, rec)
      /\ \A n \in 1 .. Want(at) : l.reps[n] \in Replies /\ Fits(rec, n, l.reps[n])
  BY <1>1, HeardFacts
<1>3. \A n \in 1 .. Want(at) : Answer(c, n) = l.reps[n]
  BY DEF Answer
<1>4. /\ Settled(c, rec) /\ Placed(rec) /\ Phase(rec)
  BY <1>2 DEF Knows
<1>5. rec.flow # "none" /\ (rec.flow = "call" => at \in {"batch", "unwatch", "actual"})
  BY <1>1, <1>4 DEF Placed
<1> QED
  BY <1>1, <1>2, <1>3, <1>4, <1>5

LEMMA OneHeard ==
    ASSUME WireInv, NEW c \in Clients,
           NEW at, at \notin {"idle", "revision", "watch", "state_watch", "batch"}, At(c, at),
           NEW rec, rec = client[c], NEW l, l = link[rec.i], NEW r, r = l.reps[1]
    PROVE  /\ Heard(c, rec, l) /\ rec.at = at /\ rec.i # 0 /\ rec \in Coordinators
           /\ Settled(c, rec) /\ Placed(rec) /\ Phase(rec)
           /\ rec.flow # "none"
           /\ rec.flow = "call" => at \in {"unwatch", "actual"}
           /\ r \in Replies /\ Fits(rec, 1, r) /\ Answer(c, 1) = r
<1>1. Want(at) = 1
  BY DEF Want
<1>2. 1 \in 1 .. Want(at)
  BY <1>1
<1>3. at \notin {"idle", "revision", "watch"}
  OBVIOUS
<1>4. /\ Heard(c, rec, l) /\ rec.at = at /\ rec.i # 0 /\ rec \in Coordinators
      /\ Settled(c, rec) /\ Placed(rec) /\ Phase(rec)
      /\ rec.flow # "none"
      /\ rec.flow = "call" => at \in {"batch", "unwatch", "actual"}
  BY <1>3, HeardAt
<1>5. \A n \in 1 .. Want(at) :
         l.reps[n] \in Replies /\ Fits(rec, n, l.reps[n]) /\ Answer(c, n) = l.reps[n]
  BY <1>3, HeardAt
<1> QED
  BY <1>2, <1>4, <1>5

LEMMA RevisionBound ==
    ASSUME WireInv, NEW r \in Replies, r.n <= db.rev
    PROVE  RevisionIn(r) \in Nat /\ RevisionIn(r) <= db.rev
<1>1. db.rev \in Nat
  BY LogDomain
<1> QED
  BY <1>1 DEF RevisionIn, Replies

LEMMA PongKeeps ==
    ASSUME WireInv, NEW c \in Clients, Pong(c)
    PROVE  WireInv'
<1>1. PICK rec : rec = client[c]
  OBVIOUS
<1>2. PICK l : l = link[rec.i]
  OBVIOUS
<1>3. /\ Heard(c, rec, l) /\ rec.at = "ping" /\ rec.i # 0 /\ Settled(c, rec) /\ Phase(rec)
      /\ rec.flow \notin {"none", "call"}
  <2>1. At(c, "ping")
    BY DEF Pong
  <2>2. PICK r : r = l.reps[1]
    OBVIOUS
  <2> QED BY <1>1, <1>2, <2>1, <2>2, OneHeard
<1>4. rec.apply = <<>>
  BY <1>3 DEF Phase
<1>5. CASE IsPong(Answer(c, 1))
  <2>1. StartRead(c, rec, "attach")
    BY <1>1, <1>5 DEF Pong
  <2> QED BY <1>3, <1>4, <2>1, ReadMoves
<1>6. CASE ~ IsPong(Answer(c, 1))
  BY <1>1, <1>2, <1>3, <1>6, FailMoves DEF Pong
<1> QED
  BY <1>5, <1>6

LEMMA ReadBeforeKeeps ==
    ASSUME WireInv, NEW c \in Clients, ReadBefore(c)
    PROVE  WireInv'
<1>1. PICK rec : rec = client[c]
  OBVIOUS
<1>2. PICK l : l = link[rec.i]
  OBVIOUS
<1>3. PICK r : r = l.reps[1]
  OBVIOUS
<1>4. /\ Heard(c, rec, l) /\ rec.at = "rev1" /\ rec.i # 0 /\ Settled(c, rec) /\ Phase(rec)
      /\ rec.flow \notin {"none", "call"} /\ rec \in Coordinators /\ rec.fresh = FALSE
      /\ r \in Replies /\ Fits(rec, 1, r) /\ Answer(c, 1) = r
  <2>1. At(c, "rev1")
    BY DEF ReadBefore
  <2>2. /\ Heard(c, rec, l) /\ rec.at = "rev1" /\ rec.i # 0 /\ Settled(c, rec) /\ Phase(rec)
        /\ rec.flow \notin {"none", "call"} /\ rec \in Coordinators
        /\ r \in Replies /\ Fits(rec, 1, r) /\ Answer(c, 1) = r
    BY <1>1, <1>2, <1>3, <2>1, OneHeard
  <2>3. rec.fresh = FALSE
    BY <1>1, <2>2, HasLink
  <2> QED BY <2>2, <2>3
<1>5. CASE IsRevision(r)
  <2>1. r.n <= db.rev
    BY <1>4 DEF Fits, Watches
  <2>2. PICK v \in Nat : v = RevisionIn(r) /\ v <= db.rev
    BY <1>4, <2>1, RevisionBound
  <2>3. PICK rec3 : rec3 = [rec EXCEPT !.before = v]
    OBVIOUS
  <2>4. Exchange(c, "snapshot", <<Ask("GETSNAP")>>, rec3)
    BY <1>1, <1>4, <1>5, <2>2, <2>3 DEF ReadBefore
  <2>5. /\ rec3 \in Coordinators /\ rec3.i = rec.i /\ rec3.fresh = rec.fresh
        /\ rec3.flow = rec.flow /\ rec3.then = rec.then /\ rec3.before = v
        /\ rec3.issued = rec.issued /\ rec3.pending = rec.pending /\ rec3.known = rec.known
        /\ rec3.todo = rec.todo /\ rec3.apply = rec.apply /\ rec3.conflicts = rec.conflicts
        /\ rec3.marked = rec.marked /\ rec3.rejected = rec.rejected
        /\ rec3.imageAt = rec.imageAt /\ rec3.image = rec.image
    BY <1>4, <2>3 DEF Coordinators
  <2>6. Settled(c, rec3)
    BY <1>4, <2>5 DEF Settled
  <2>7. PICK rec2 : rec2 = Moved(rec3, "snapshot")
    OBVIOUS
  <2>8. /\ rec2.at = "snapshot" /\ rec2.i = rec.i /\ rec2.flow = rec.flow /\ rec2.then = rec.then
        /\ rec2.apply = rec.apply /\ rec2.fresh = FALSE /\ rec2.before = v /\ Settled(c, rec2)
    <3>1. "snapshot" \in Ats
      BY PlaceNames
    <3> QED BY <1>4, <2>5, <2>6, <2>7, <3>1, AtFields
  <2>9. Placed(rec2) /\ Phase(rec2)
    BY <1>4, <2>2, <2>8 DEF Placed, Phase
  <2>10. Ask("GETSNAP") = Expected(rec2)
    BY <2>8 DEF Expected
  <2>11. "snapshot" \in Singles /\ "GETSNAP" \in Commands
    BY DEF Singles, Commands
  <2> QED BY <1>4, <2>4, <2>5, <2>7, <2>8, <2>9, <2>10, <2>11, AskMoves DEF Knows
<1>6. CASE ~ IsRevision(r)
  BY <1>1, <1>2, <1>4, <1>6, FailMoves DEF ReadBefore
<1> QED
  BY <1>5, <1>6

LEMMA ReadSnapshotKeeps ==
    ASSUME WireInv, NEW c \in Clients, ReadSnapshot(c)
    PROVE  WireInv'
<1>1. PICK rec : rec = client[c]
  OBVIOUS
<1>2. PICK l : l = link[rec.i]
  OBVIOUS
<1>3. PICK r : r = l.reps[1]
  OBVIOUS
<1>4. /\ Heard(c, rec, l) /\ rec.at = "snapshot" /\ rec.i # 0 /\ Settled(c, rec) /\ Phase(rec)
      /\ rec.flow \notin {"none", "call"} /\ rec \in Coordinators /\ rec.fresh = FALSE
      /\ r \in Replies /\ Fits(rec, 1, r) /\ Answer(c, 1) = r
  <2>1. At(c, "snapshot")
    BY DEF ReadSnapshot
  <2>2. /\ Heard(c, rec, l) /\ rec.at = "snapshot" /\ rec.i # 0 /\ Settled(c, rec) /\ Phase(rec)
        /\ rec.flow \notin {"none", "call"} /\ rec \in Coordinators
        /\ r \in Replies /\ Fits(rec, 1, r) /\ Answer(c, 1) = r
    BY <1>1, <1>2, <1>3, <2>1, OneHeard
  <2>3. rec.fresh = FALSE
    BY <1>1, <2>2, HasLink
  <2> QED BY <2>2, <2>3
<1>5. CASE IsBulk(r)
  <2>1. ReadsImage(r, rec.before, db.rev)
    BY <1>4 DEF Fits, Watches
  <2>2. PICK rec3 : rec3 = [rec EXCEPT !.read = r]
    OBVIOUS
  <2>3. Exchange(c, "rev2", <<Ask("GETREV")>>, rec3)
    BY <1>1, <1>4, <1>5, <2>2 DEF ReadSnapshot
  <2>4. /\ rec3 \in Coordinators /\ rec3.i = rec.i /\ rec3.fresh = rec.fresh
        /\ rec3.flow = rec.flow /\ rec3.then = rec.then /\ rec3.before = rec.before
        /\ rec3.read = r
        /\ rec3.issued = rec.issued /\ rec3.pending = rec.pending /\ rec3.known = rec.known
        /\ rec3.todo = rec.todo /\ rec3.apply = rec.apply /\ rec3.conflicts = rec.conflicts
        /\ rec3.marked = rec.marked /\ rec3.rejected = rec.rejected
        /\ rec3.imageAt = rec.imageAt /\ rec3.image = rec.image
    BY <1>4, <2>2 DEF Coordinators
  <2>5. Settled(c, rec3)
    BY <1>4, <2>4 DEF Settled
  <2>6. PICK rec2 : rec2 = Moved(rec3, "rev2")
    OBVIOUS
  <2>7. /\ rec2.at = "rev2" /\ rec2.i = rec.i /\ rec2.flow = rec.flow /\ rec2.then = rec.then
        /\ rec2.apply = rec.apply /\ rec2.fresh = FALSE /\ rec2.before = rec.before
        /\ rec2.read = r /\ Settled(c, rec2)
    <3>1. "rev2" \in Ats
      BY PlaceNames
    <3> QED BY <1>4, <2>4, <2>5, <2>6, <3>1, AtFields
  <2>8. Placed(rec2) /\ Phase(rec2)
    BY <1>4, <2>1, <2>7 DEF Placed, Phase
  <2>9. Ask("GETREV") = Expected(rec2)
    BY <2>7 DEF Expected
  <2>10. "rev2" \in Singles /\ "GETREV" \in Commands
    BY DEF Singles, Commands
  <2> QED BY <1>4, <2>3, <2>4, <2>6, <2>7, <2>8, <2>9, <2>10, AskMoves DEF Knows
<1>6. CASE ~ IsBulk(r)
  BY <1>1, <1>2, <1>4, <1>6, FailMoves DEF ReadSnapshot
<1> QED
  BY <1>5, <1>6

LEMMA AttachSchemaKeeps ==
    ASSUME WireInv, NEW c \in Clients, AttachSchema(c)
    PROVE  WireInv'
<1>1. PICK rec : rec = client[c]
  OBVIOUS
<1>2. PICK l : l = link[rec.i]
  OBVIOUS
<1>3. /\ Heard(c, rec, l) /\ rec.at = "schema" /\ rec.i # 0 /\ Settled(c, rec) /\ Phase(rec)
      /\ rec.flow \notin {"none", "call"} /\ rec \in Coordinators
  <2>1. At(c, "schema")
    BY DEF AttachSchema
  <2>2. PICK r : r = l.reps[1]
    OBVIOUS
  <2> QED BY <1>1, <1>2, <2>1, <2>2, OneHeard
<1>4. \A k \in ToSet(rec.apply) : InLog(k)
  BY <1>3 DEF Phase, ToSet
<1>5. Fail(c) \/ Reconcile(c, rec) \/ StartState(c, rec)
  BY <1>1 DEF AttachSchema
<1>6. CASE Fail(c)
  BY <1>1, <1>2, <1>3, <1>6, FailMoves
<1>7. CASE Reconcile(c, rec)
  BY <1>3, <1>7, ReconcileMoves
<1>8. CASE StartState(c, rec)
  BY <1>3, <1>4, <1>8, StateMoves
<1> QED
  BY <1>5, <1>6, <1>7, <1>8

(* The image goes with the revision, which was the same before and after.  *)
LEMMA RestoredOK ==
    ASSUME WireInv, NEW c \in Clients, NEW rec, rec = client[c], Settled(c, rec),
           rec.before <= db.rev, rec.read.kind = "image",
           ReadsImage(rec.read, rec.before, rec.before),
           NEW rec3, rec3 = Restored(c)
    PROVE  /\ Settled(c, rec3) /\ rec3.i = rec.i /\ rec3.fresh = rec.fresh
           /\ rec3.flow = rec.flow /\ rec3.then = rec.then /\ rec3.apply = rec.apply
           /\ rec3.issued = rec.issued /\ rec3.pending = rec.pending /\ rec3.todo = rec.todo
           /\ rec3.conflicts = rec.conflicts /\ rec3.marked = rec.marked
           /\ rec3.rejected = rec.rejected
<1>1. rec \in Coordinators /\ rec.read \in Replies /\ rec.before \in Nat
  BY DEF Settled, Coordinators
<1>2. ImageAt(rec.read.n, rec.before)
  <2>1. PICK v \in rec.before .. rec.before : ImageAt(rec.read.n, v)
    BY DEF ReadsImage
  <2>2. v = rec.before
    BY <1>1
  <2> QED BY <2>1, <2>2
<1>3. PICK n \in Nat : n = rec.read.n
  BY <1>1 DEF Replies
<1>4. PICK mine \in SUBSET Keys : mine = IF rec.local /\ rec.then = "attach" THEN rec.mine
                                         ELSE rec.read.set
  BY <1>1 DEF Coordinators, Replies
<1>5. NilBulk \in Replies
  BY DEF NilBulk, Bulk, Reply, Replies, Kinds
<1>6. rec3 = [rec EXCEPT !.known = rec.before, !.imageAt = rec.before, !.image = n, !.mine = mine,
                         !.before = 0, !.read = NilBulk, !.tries = 0]
  BY <1>1, <1>3, <1>4 DEF Restored, Coordinators
<1>7. /\ rec3 \in Coordinators /\ rec3.i = rec.i /\ rec3.fresh = rec.fresh
      /\ rec3.flow = rec.flow /\ rec3.then = rec.then /\ rec3.apply = rec.apply
      /\ rec3.issued = rec.issued /\ rec3.pending = rec.pending /\ rec3.todo = rec.todo
      /\ rec3.conflicts = rec.conflicts /\ rec3.marked = rec.marked
      /\ rec3.rejected = rec.rejected
      /\ rec3.known = rec.before /\ rec3.imageAt = rec.before /\ rec3.image = n
  <2>1. /\ rec3.known = rec.before /\ rec3.imageAt = rec.before /\ rec3.image = n
        /\ rec3.i = rec.i /\ rec3.fresh = rec.fresh
        /\ rec3.flow = rec.flow /\ rec3.then = rec.then /\ rec3.apply = rec.apply
        /\ rec3.issued = rec.issued /\ rec3.pending = rec.pending /\ rec3.todo = rec.todo
        /\ rec3.conflicts = rec.conflicts /\ rec3.marked = rec.marked
        /\ rec3.rejected = rec.rejected
    BY <1>1, <1>6 DEF Coordinators
  <2>2. rec3 \in Coordinators
    <3>1. [rec EXCEPT !.known = rec.before, !.imageAt = rec.before, !.image = n] \in Coordinators
      BY <1>1, ZenonT(30) DEF Coordinators
    <3>2. PICK r \in Coordinators :
             r = [rec EXCEPT !.known = rec.before, !.imageAt = rec.before, !.image = n]
      BY <3>1
    <3>3. PICK none \in Replies : none = NilBulk
      BY <1>5
    <3>4. [r EXCEPT !.mine = mine, !.before = 0] \in Coordinators
      BY DEF Coordinators
    <3>5. PICK s \in Coordinators : s = [r EXCEPT !.mine = mine, !.before = 0]
      BY <3>4
    <3>6. rec3 = [s EXCEPT !.read = none, !.tries = 0]
      BY <1>6, <3>2, <3>3, <3>5
    <3>7. [s EXCEPT !.read = none, !.tries = 0] \in Coordinators
      BY DEF Coordinators
    <3> QED BY <3>6, <3>7
  <2> QED BY <2>1, <2>2
<1>8. Settled(c, rec3)
  BY <1>2, <1>3, <1>7 DEF Settled
<1> QED
  BY <1>7, <1>8

LEMMA ReadAfterKeeps ==
    ASSUME WireInv, NEW c \in Clients, ReadAfter(c)
    PROVE  WireInv'
<1>1. PICK rec : rec = client[c]
  OBVIOUS
<1>2. PICK l : l = link[rec.i]
  OBVIOUS
<1>3. PICK r : r = l.reps[1]
  OBVIOUS
<1>4. /\ Heard(c, rec, l) /\ rec.at = "rev2" /\ rec.i # 0 /\ Settled(c, rec) /\ Phase(rec)
      /\ rec.flow \notin {"none", "call"} /\ rec \in Coordinators /\ rec.fresh = FALSE
      /\ r \in Replies /\ Fits(rec, 1, r) /\ Answer(c, 1) = r
  <2>1. At(c, "rev2")
    BY DEF ReadAfter
  <2>2. /\ Heard(c, rec, l) /\ rec.at = "rev2" /\ rec.i # 0 /\ Settled(c, rec) /\ Phase(rec)
        /\ rec.flow \notin {"none", "call"} /\ rec \in Coordinators
        /\ r \in Replies /\ Fits(rec, 1, r) /\ Answer(c, 1) = r
    BY <1>1, <1>2, <1>3, <2>1, OneHeard
  <2>3. rec.fresh = FALSE
    BY <1>1, <2>2, HasLink
  <2> QED BY <2>2, <2>3
<1>5. /\ rec.then = "attach" => rec.apply = <<>>
      /\ rec.then = "rejected" => \A k \in ToSet(rec.apply) : Recorded(k)
      /\ rec.before <= db.rev
  BY <1>4 DEF Phase
<1>6. IsRevision(r) => ReadsImage(rec.read, rec.before, RevisionIn(r))
  BY <1>4 DEF Fits, Watches
<1>7. CASE Fail(c)
  BY <1>1, <1>2, <1>4, <1>7, FailMoves
<1>8. CASE Exchange(c, "rev1", <<Ask("GETREV")>>, [rec EXCEPT !.tries = 1])
  <2>1. PICK rec3 : rec3 = [rec EXCEPT !.tries = 1]
    OBVIOUS
  <2>2. /\ rec3 \in Coordinators /\ rec3.i = rec.i /\ rec3.fresh = rec.fresh
        /\ rec3.flow = rec.flow /\ rec3.then = rec.then
        /\ rec3.issued = rec.issued /\ rec3.pending = rec.pending /\ rec3.known = rec.known
        /\ rec3.todo = rec.todo /\ rec3.apply = rec.apply /\ rec3.conflicts = rec.conflicts
        /\ rec3.marked = rec.marked /\ rec3.rejected = rec.rejected
        /\ rec3.imageAt = rec.imageAt /\ rec3.image = rec.image
    BY <1>4, <2>1 DEF Coordinators
  <2>3. Settled(c, rec3)
    BY <1>4, <2>2 DEF Settled
  <2>4. PICK rec2 : rec2 = Moved(rec3, "rev1")
    OBVIOUS
  <2>5. /\ rec2.at = "rev1" /\ rec2.i = rec.i /\ rec2.flow = rec.flow /\ rec2.then = rec.then
        /\ rec2.apply = rec.apply /\ rec2.fresh = FALSE /\ Settled(c, rec2)
    <3>1. "rev1" \in Ats
      BY PlaceNames
    <3> QED BY <1>4, <2>2, <2>3, <2>4, <3>1, AtFields
  <2>6. Placed(rec2) /\ Phase(rec2)
    BY <1>4, <1>5, <2>5 DEF Placed, Phase
  <2>7. Ask("GETREV") = Expected(rec2)
    BY <2>5 DEF Expected
  <2>8. "rev1" \in Singles /\ "GETREV" \in Commands
    BY DEF Singles, Commands
  <2>9. Exchange(c, "rev1", <<Ask("GETREV")>>, rec3)
    BY <1>8, <2>1
  <2> QED BY <1>4, <2>2, <2>4, <2>5, <2>6, <2>7, <2>8, <2>9, AskMoves DEF Knows
<1>9. CASE rec.then = "attach" /\ StartState(c, [rec EXCEPT !.known = 0])
  <2>1. PICK rec3 : rec3 = [rec EXCEPT !.known = 0]
    OBVIOUS
  <2>2. /\ rec3 \in Coordinators /\ rec3.i = rec.i /\ rec3.fresh = rec.fresh
        /\ rec3.flow = rec.flow /\ rec3.known = 0
        /\ rec3.issued = rec.issued /\ rec3.pending = rec.pending
        /\ rec3.todo = rec.todo /\ rec3.apply = rec.apply /\ rec3.conflicts = rec.conflicts
        /\ rec3.marked = rec.marked /\ rec3.rejected = rec.rejected
        /\ rec3.imageAt = rec.imageAt /\ rec3.image = rec.image
    BY <1>4, <2>1 DEF Coordinators
  <2>3. 0 <= db.rev
    BY LogDomain
  <2>4. Settled(c, rec3)
    BY <1>4, <2>2, <2>3 DEF Settled
  <2>5. \A k \in ToSet(rec3.apply) : InLog(k)
    BY <1>5, <1>9, <2>2 DEF ToSet
  <2>6. StartState(c, rec3)
    BY <1>9, <2>1
  <2> QED BY <1>4, <2>2, <2>4, <2>5, <2>6, StateMoves
<1>10. CASE /\ IsRevision(r) /\ RevisionIn(r) = rec.before /\ rec.read.kind = "image"
            /\ \/ rec.then = "attach" /\ Exchange(c, "schema", <<Ask("GETSCHEMA")>>, Restored(c))
               \/ /\ rec.then = "rejected"
                  /\ LET done == [Restored(c) EXCEPT !.conflicts = @ \cup ToSet(rec.apply),
                                                     !.apply = <<>>]
                     IN StartState(c, done) \/ Finish(c, done)
               \/ Reconcile(c, Restored(c))
  <2>1. PICK rec3 : rec3 = Restored(c)
    OBVIOUS
  <2>2. ReadsImage(rec.read, rec.before, rec.before)
    BY <1>6, <1>10
  <2>3. /\ Settled(c, rec3) /\ rec3.i = rec.i /\ rec3.fresh = rec.fresh
        /\ rec3.flow = rec.flow /\ rec3.then = rec.then /\ rec3.apply = rec.apply
        /\ rec3.issued = rec.issued /\ rec3.pending = rec.pending /\ rec3.todo = rec.todo
        /\ rec3.conflicts = rec.conflicts /\ rec3.marked = rec.marked
        /\ rec3.rejected = rec.rejected
    BY <1>1, <1>4, <1>5, <1>10, <2>1, <2>2, RestoredOK
  <2>4. rec3 \in Coordinators
    BY <2>3 DEF Settled
  <2>5. CASE rec.then = "attach" /\ Exchange(c, "schema", <<Ask("GETSCHEMA")>>, rec3)
    <3>1. PICK rec2 : rec2 = Moved(rec3, "schema")
      OBVIOUS
    <3>2. /\ rec2.at = "schema" /\ rec2.i = rec.i /\ rec2.flow = rec.flow
          /\ rec2.apply = <<>> /\ rec2.fresh = FALSE /\ Settled(c, rec2)
      <4>1. "schema" \in Ats
        BY PlaceNames
      <4> QED BY <1>4, <1>5, <2>3, <2>4, <2>5, <3>1, <4>1, AtFields
    <3>3. Placed(rec2) /\ Phase(rec2)
      BY <1>4, <3>2 DEF Placed, Phase
    <3>4. Ask("GETSCHEMA") = Expected(rec2)
      BY <3>2 DEF Expected
    <3>5. "schema" \in Singles /\ "GETSCHEMA" \in Commands
      BY DEF Singles, Commands
    <3> QED BY <1>4, <2>3, <2>4, <2>5, <3>1, <3>2, <3>3, <3>4, <3>5, AskMoves DEF Knows
  <2>6. CASE Reconcile(c, rec3)
    BY <1>4, <2>3, <2>6, ReconcileMoves
  <2>7. PICK done : done = [rec3 EXCEPT !.conflicts = @ \cup ToSet(rec.apply), !.apply = <<>>]
    OBVIOUS
  <2>8. CASE rec.then = "rejected" /\ (StartState(c, done) \/ Finish(c, done))
    <3>1. ToSet(rec.apply) \subseteq Keys
      BY <1>4, ElementOfSeq DEF ToSet, Coordinators
    <3>2. /\ done \in Coordinators /\ done.i = rec.i /\ done.fresh = rec.fresh
          /\ done.flow = rec.flow /\ done.apply = <<>>
          /\ done.issued = rec3.issued /\ done.pending = rec3.pending /\ done.known = rec3.known
          /\ done.todo = rec3.todo /\ done.conflicts = rec3.conflicts \cup ToSet(rec.apply)
          /\ done.marked = rec3.marked /\ done.rejected = rec3.rejected
          /\ done.imageAt = rec3.imageAt /\ done.image = rec3.image
      <4>1. <<>> \in Seq(Keys)
        BY EmptySeq
      <4> QED BY <2>3, <2>4, <2>7, <3>1, <4>1 DEF Coordinators
    <3>3. ToSet(done.apply) = {}
      BY <3>2 DEF ToSet
    <3>4. Settled(c, done)
      BY <1>5, <2>3, <2>8, <3>2, <3>3 DEF Settled
    <3>5. CASE StartState(c, done)
      BY <1>4, <2>3, <3>2, <3>3, <3>4, <3>5, StateMoves
    <3>6. CASE Finish(c, done)
      BY <1>4, <2>3, <3>2, <3>3, <3>4, <3>6, FinishMoves
    <3> QED BY <2>8, <3>5, <3>6
  <2> QED BY <1>10, <2>1, <2>5, <2>6, <2>7, <2>8
<1>11. CASE ~ IsRevision(r)
  <2>1. Fail(c)
    BY <1>4, <1>11 DEF ReadAfter
  <2> QED BY <1>7, <2>1
<1>12. CASE IsRevision(r) /\ RevisionIn(r) # rec.before
  <2>1. Fail(c) \/ Exchange(c, "rev1", <<Ask("GETREV")>>, [rec EXCEPT !.tries = 1])
    BY <1>1, <1>4, <1>12 DEF ReadAfter
  <2> QED BY <1>7, <1>8, <2>1
<1>13. CASE IsRevision(r) /\ RevisionIn(r) = rec.before /\ rec.read.kind = "nil"
  <2>1. Fail(c) \/ (rec.then = "attach" /\ StartState(c, [rec EXCEPT !.known = 0]))
    BY <1>1, <1>4, <1>13 DEF ReadAfter
  <2> QED BY <1>7, <1>9, <2>1
<1>14. CASE /\ IsRevision(r) /\ RevisionIn(r) = rec.before
            /\ rec.read.kind # "nil" /\ rec.read.kind # "image"
  <2>1. Fail(c)
    BY <1>1, <1>4, <1>14 DEF ReadAfter
  <2> QED BY <1>7, <2>1
<1>15. CASE IsRevision(r) /\ RevisionIn(r) = rec.before /\ rec.read.kind = "image"
  <2>1. rec.then = "attach" => Exchange(c, "schema", <<Ask("GETSCHEMA")>>, Restored(c))
    BY <1>1, <1>4, <1>15 DEF ReadAfter
  <2>2. rec.then = "rejected" =>
          LET done == [Restored(c) EXCEPT !.conflicts = @ \cup ToSet(rec.apply), !.apply = <<>>]
          IN StartState(c, done) \/ Finish(c, done)
    BY <1>1, <1>4, <1>15 DEF ReadAfter
  <2>3. rec.then # "attach" /\ rec.then # "rejected" => Reconcile(c, Restored(c))
    BY <1>1, <1>4, <1>15 DEF ReadAfter
  <2> QED BY <1>10, <1>15, <2>1, <2>2, <2>3
<1> QED
  BY <1>11, <1>12, <1>13, <1>14, <1>15

LEMMA TailKeys ==
    ASSUME NEW s \in Seq(Keys), s # <<>>
    PROVE  /\ Head(s) \in Keys /\ Head(s) \in ToSet(s) /\ Tail(s) \in Seq(Keys)
           /\ ToSet(Tail(s)) \subseteq ToSet(s)
           /\ \A k \in ToSet(s) : k = Head(s) \/ k \in ToSet(Tail(s))
<1>1. Len(s) \in Nat /\ Len(s) # 0 /\ DOMAIN s = 1 .. Len(s) /\ Head(s) = s[1] /\ Head(s) \in Keys
  BY LenProperties, EmptySeq, HeadTailProperties
<1>2. /\ Tail(s) \in Seq(Keys) /\ Len(Tail(s)) = Len(s) - 1
      /\ \A n \in 1 .. Len(Tail(s)) : Tail(s)[n] = s[n + 1]
  BY HeadTailProperties
<1>3. DOMAIN Tail(s) = 1 .. Len(s) - 1
  BY <1>2, LenProperties
<1>4. \A n \in 1 .. Len(s) - 1 : n + 1 \in 1 .. Len(s)
  BY <1>1
<1>5. \A n \in 1 .. Len(s) : n = 1 \/ (n - 1 \in 1 .. Len(s) - 1 /\ (n - 1) + 1 = n)
  BY <1>1
<1>6. Head(s) \in ToSet(s)
  BY <1>1 DEF ToSet
<1>7. ToSet(Tail(s)) \subseteq ToSet(s)
  BY <1>1, <1>2, <1>3, <1>4 DEF ToSet
<1>8. ASSUME NEW n \in 1 .. Len(s) PROVE s[n] = Head(s) \/ s[n] \in ToSet(Tail(s))
  <2>1. CASE n = 1
    BY <1>1, <2>1
  <2>2. CASE n # 1
    <3>1. s[n] = Tail(s)[n - 1] /\ n - 1 \in DOMAIN Tail(s)
      BY <1>2, <1>3, <1>5, <2>2
    <3> QED BY <3>1 DEF ToSet
  <2> QED BY <2>1, <2>2
<1>9. \A k \in ToSet(s) : k = Head(s) \/ k \in ToSet(Tail(s))
  BY <1>1, <1>8 DEF ToSet
<1> QED
  BY <1>1, <1>2, <1>6, <1>7, <1>9

LEMMA AppendKeys ==
    ASSUME NEW s \in Seq(Keys), NEW k \in Keys
    PROVE  /\ Append(s, k) \in Seq(Keys) /\ Append(s, k) # <<>>
           /\ ToSet(Append(s, k)) = ToSet(s) \cup {k}
<1>1. Len(s) \in Nat /\ DOMAIN s = 1 .. Len(s)
  BY LenProperties
<1>2. /\ Append(s, k) \in Seq(Keys) /\ Len(Append(s, k)) = Len(s) + 1
      /\ \A n \in 1 .. Len(s) : Append(s, k)[n] = s[n]
      /\ Append(s, k)[Len(s) + 1] = k
  BY AppendProperties
<1>3. DOMAIN Append(s, k) = 1 .. Len(s) + 1
  BY <1>2, LenProperties
<1>4. \A n : n \in 1 .. Len(s) + 1 <=> n \in 1 .. Len(s) \/ n = Len(s) + 1
  BY <1>1
<1>5. ToSet(Append(s, k)) = ToSet(s) \cup {k}
  BY <1>1, <1>2, <1>3, <1>4 DEF ToSet
<1>6. Append(s, k) # <<>>
  BY <1>1, <1>2, EmptySeq
<1> QED
  BY <1>2, <1>5, <1>6

(* The head of the entries, and those after it.                            *)
LEMMA EntryMarked ==
    ASSUME WireInv, NEW c \in Clients, NEW rec, NEW l, Heard(c, rec, l), rec.todo # <<>>,
           rec.at \in {"ledger", "applied", "marker"}, InLog(Head(rec.todo)),
           NextEntry(c, Marked(c, Head(rec.todo)))
    PROVE  WireInv'
<1>1. rec = client[c] /\ rec \in Coordinators /\ Knows(c, rec)
  BY HeardFacts DEF Heard
<1>2. Settled(c, rec) /\ rec.flow \notin {"none", "call"} /\ \A k \in ToSet(rec.apply) : Unseen(k, rec.known)
  BY <1>1 DEF Knows, Placed, Phase
<1>3. rec.todo \in Seq(Keys) /\ rec.pending \in Seq(Keys)
  BY <1>1 DEF Coordinators
<1>4. PICK k \in Keys : k = Head(rec.todo)
  BY <1>3, TailKeys
<1>5. PICK rest \in Seq(Keys) : rest = Tail(rec.todo) /\ ToSet(rest) \subseteq ToSet(rec.todo)
  BY <1>3, TailKeys
<1>6. PICK left \in Seq(Keys) : left = Without(rec.pending, {k}) /\ ToSet(left) \subseteq ToSet(rec.pending)
  BY <1>3, WithoutOK
<1>7. PICK rec3 : rec3 = [rec EXCEPT !.marked = @ \cup {k}, !.todo = rest, !.pending = left]
  OBVIOUS
<1>8. NextEntry(c, rec3)
  BY <1>1, <1>4, <1>5, <1>6, <1>7 DEF Marked
<1>9. /\ rec3 \in Coordinators /\ rec3.i = rec.i /\ rec3.fresh = rec.fresh
      /\ rec3.flow = rec.flow /\ rec3.marked = rec.marked \cup {k}
      /\ rec3.issued = rec.issued /\ rec3.pending = left /\ rec3.known = rec.known
      /\ rec3.todo = rest /\ rec3.apply = rec.apply /\ rec3.conflicts = rec.conflicts
      /\ rec3.rejected = rec.rejected
      /\ rec3.imageAt = rec.imageAt /\ rec3.image = rec.image
  BY <1>1, <1>7, ZenonT(30) DEF Coordinators
<1>10. Settled(c, rec3)
  BY <1>2, <1>4, <1>5, <1>6, <1>9 DEF Settled
<1> QED
  BY <1>2, <1>8, <1>9, <1>10, EntryMoves

LEMMA EntryLedgerKeeps ==
    ASSUME WireInv, NEW c \in Clients, EntryLedger(c)
    PROVE  WireInv'
<1>1. PICK rec : rec = client[c]
  OBVIOUS
<1>2. PICK l : l = link[rec.i]
  OBVIOUS
<1>3. PICK r : r = l.reps[1]
  OBVIOUS
<1>4. /\ Heard(c, rec, l) /\ rec.at = "ledger" /\ rec.i # 0 /\ Settled(c, rec) /\ Phase(rec)
      /\ rec.flow \notin {"none", "call"} /\ rec \in Coordinators /\ rec.fresh = FALSE
      /\ r \in Replies /\ Fits(rec, 1, r) /\ Answer(c, 1) = r
  <2>1. At(c, "ledger")
    BY DEF EntryLedger
  <2>2. /\ Heard(c, rec, l) /\ rec.at = "ledger" /\ rec.i # 0 /\ Settled(c, rec) /\ Phase(rec)
        /\ rec.flow \notin {"none", "call"} /\ rec \in Coordinators
        /\ r \in Replies /\ Fits(rec, 1, r) /\ Answer(c, 1) = r
    BY <1>1, <1>2, <1>3, <2>1, OneHeard
  <2>3. rec.fresh = FALSE
    BY <1>1, <2>2, HasLink
  <2> QED BY <2>2, <2>3
<1>5. /\ rec.todo # <<>> /\ rec.todo \in Seq(Keys)
      /\ \A k \in ToSet(rec.apply) : Unseen(k, rec.known)
  BY <1>4 DEF Phase, Coordinators
<1>6. PICK k \in Keys : k = Head(rec.todo)
  BY <1>5, TailKeys
<1>7. /\ r.kind = "committed" => InLog(k)
      /\ r.kind \in {"committed", "conflict"} => Recorded(k)
  BY <1>4, <1>6 DEF Fits, Watches
<1>8. CASE Fail(c)
  BY <1>1, <1>2, <1>4, <1>8, FailMoves
<1>9. CASE r.kind = "committed" /\ NextEntry(c, Marked(c, k))
  BY <1>4, <1>5, <1>6, <1>7, <1>9, EntryMarked
<1>10. CASE /\ r.kind = "conflict"
            /\ NextEntry(c, [rec EXCEPT !.conflicts = @ \cup {k}, !.todo = Tail(@)])
  <2>1. PICK rest \in Seq(Keys) : rest = Tail(rec.todo) /\ ToSet(rest) \subseteq ToSet(rec.todo)
    BY <1>5, TailKeys
  <2>2. PICK rec3 : rec3 = [rec EXCEPT !.conflicts = @ \cup {k}, !.todo = rest]
    OBVIOUS
  <2>3. NextEntry(c, rec3)
    BY <1>10, <2>1, <2>2
  <2>4. /\ rec3 \in Coordinators /\ rec3.i = rec.i /\ rec3.fresh = rec.fresh
        /\ rec3.flow = rec.flow /\ rec3.conflicts = rec.conflicts \cup {k}
        /\ rec3.issued = rec.issued /\ rec3.pending = rec.pending /\ rec3.known = rec.known
        /\ rec3.todo = rest /\ rec3.apply = rec.apply
        /\ rec3.marked = rec.marked /\ rec3.rejected = rec.rejected
        /\ rec3.imageAt = rec.imageAt /\ rec3.image = rec.image
    BY <1>4, <2>2 DEF Coordinators
  <2>5. Settled(c, rec3)
    BY <1>4, <1>7, <1>10, <2>1, <2>4 DEF Settled
  <2> QED BY <1>4, <1>5, <2>3, <2>4, <2>5, EntryMoves
<1>11. CASE Exchange(c, "applied", <<Request("GETLEDGER", k)>>, rec)
  <2>1. PICK rec2 : rec2 = Moved(rec, "applied")
    OBVIOUS
  <2>2. /\ rec2.at = "applied" /\ rec2.i = rec.i /\ rec2.flow = rec.flow /\ rec2.todo = rec.todo
        /\ rec2.apply = rec.apply /\ rec2.fresh = FALSE /\ rec2.known = rec.known
        /\ Settled(c, rec2)
    <3>1. "applied" \in Ats
      BY PlaceNames
    <3> QED BY <1>4, <2>1, <3>1, AtFields
  <2>3. Placed(rec2) /\ Phase(rec2)
    BY <1>4, <1>5, <2>2 DEF Placed, Phase
  <2> QED BY <1>4, <1>5, <1>6, <1>11, <2>1, <2>2, <2>3, KeyMoves DEF Knows
<1> QED
  BY <1>1, <1>4, <1>6, <1>8, <1>9, <1>10, <1>11 DEF EntryLedger

LEMMA EntryAppliedKeeps ==
    ASSUME WireInv, NEW c \in Clients, EntryApplied(c)
    PROVE  WireInv'
<1>1. PICK rec : rec = client[c]
  OBVIOUS
<1>2. PICK l : l = link[rec.i]
  OBVIOUS
<1>3. PICK r : r = l.reps[1]
  OBVIOUS
<1>4. /\ Heard(c, rec, l) /\ rec.at = "applied" /\ rec.i # 0 /\ Settled(c, rec) /\ Phase(rec)
      /\ rec.flow \notin {"none", "call"} /\ rec \in Coordinators /\ rec.fresh = FALSE
      /\ r \in Replies /\ Fits(rec, 1, r) /\ Answer(c, 1) = r
  <2>1. At(c, "applied")
    BY DEF EntryApplied
  <2>2. /\ Heard(c, rec, l) /\ rec.at = "applied" /\ rec.i # 0 /\ Settled(c, rec) /\ Phase(rec)
        /\ rec.flow \notin {"none", "call"} /\ rec \in Coordinators
        /\ r \in Replies /\ Fits(rec, 1, r) /\ Answer(c, 1) = r
    BY <1>1, <1>2, <1>3, <2>1, OneHeard
  <2>3. rec.fresh = FALSE
    BY <1>1, <2>2, HasLink
  <2> QED BY <2>2, <2>3
<1>5. /\ rec.todo # <<>> /\ rec.todo \in Seq(Keys)
      /\ \A k \in ToSet(rec.apply) : Unseen(k, rec.known)
  BY <1>4 DEF Phase, Coordinators
<1>6. PICK k \in Keys : k = Head(rec.todo)
  BY <1>5, TailKeys
<1>7. r.kind = "committed" => InLog(k)
  BY <1>4, <1>6 DEF Fits, Watches
<1>8. CASE Fail(c)
  BY <1>1, <1>2, <1>4, <1>8, FailMoves
<1>9. CASE r.kind = "committed" /\ NextEntry(c, Marked(c, k))
  BY <1>4, <1>5, <1>6, <1>7, <1>9, EntryMarked
<1>10. CASE Exchange(c, "marker", <<Request("GETMARKER", k)>>, rec)
  <2>1. PICK rec2 : rec2 = Moved(rec, "marker")
    OBVIOUS
  <2>2. /\ rec2.at = "marker" /\ rec2.i = rec.i /\ rec2.flow = rec.flow /\ rec2.todo = rec.todo
        /\ rec2.apply = rec.apply /\ rec2.fresh = FALSE /\ rec2.known = rec.known
        /\ Settled(c, rec2)
    <3>1. "marker" \in Ats
      BY PlaceNames
    <3> QED BY <1>4, <2>1, <3>1, AtFields
  <2>3. Placed(rec2) /\ Phase(rec2)
    BY <1>4, <1>5, <2>2 DEF Placed, Phase
  <2> QED BY <1>4, <1>5, <1>6, <1>10, <2>1, <2>2, <2>3, KeyMoves DEF Knows
<1> QED
  BY <1>1, <1>4, <1>6, <1>8, <1>9, <1>10 DEF EntryApplied

LEMMA EntryMarkerKeeps ==
    ASSUME WireInv, NEW c \in Clients, EntryMarker(c)
    PROVE  WireInv'
<1>1. PICK rec : rec = client[c]
  OBVIOUS
<1>2. PICK l : l = link[rec.i]
  OBVIOUS
<1>3. PICK r : r = l.reps[1]
  OBVIOUS
<1>4. /\ Heard(c, rec, l) /\ rec.at = "marker" /\ rec.i # 0 /\ Settled(c, rec) /\ Phase(rec)
      /\ rec.flow \notin {"none", "call"} /\ rec \in Coordinators /\ rec.fresh = FALSE
      /\ r \in Replies /\ Fits(rec, 1, r) /\ Answer(c, 1) = r
  <2>1. At(c, "marker")
    BY DEF EntryMarker
  <2>2. /\ Heard(c, rec, l) /\ rec.at = "marker" /\ rec.i # 0 /\ Settled(c, rec) /\ Phase(rec)
        /\ rec.flow \notin {"none", "call"} /\ rec \in Coordinators
        /\ r \in Replies /\ Fits(rec, 1, r) /\ Answer(c, 1) = r
    BY <1>1, <1>2, <1>3, <2>1, OneHeard
  <2>3. rec.fresh = FALSE
    BY <1>1, <2>2, HasLink
  <2> QED BY <2>2, <2>3
<1>5. /\ rec.todo # <<>> /\ rec.todo \in Seq(Keys) /\ rec.apply \in Seq(Keys)
      /\ \A k \in ToSet(rec.apply) : Unseen(k, rec.known)
  BY <1>4 DEF Phase, Coordinators
<1>6. PICK k \in Keys : k = Head(rec.todo) /\ k \in ToSet(rec.todo)
  BY <1>5, TailKeys
<1>7. IF r.kind = "nil" THEN Unseen(k, rec.known) ELSE InLog(k)
  BY <1>4, <1>6 DEF Fits, Watches
<1>8. CASE Fail(c)
  BY <1>1, <1>2, <1>4, <1>8, FailMoves
<1>9. CASE r.kind # "nil" /\ NextEntry(c, Marked(c, k))
  BY <1>4, <1>5, <1>6, <1>7, <1>9, EntryMarked
<1>10. CASE /\ r.kind = "nil"
            /\ NextEntry(c, [rec EXCEPT !.apply = Append(@, k), !.todo = Tail(@), !.mine = @ \cup {k}])
  <2>1. PICK rest \in Seq(Keys) : rest = Tail(rec.todo) /\ ToSet(rest) \subseteq ToSet(rec.todo)
    BY <1>5, TailKeys
  <2>2. PICK more \in Seq(Keys) : more = Append(rec.apply, k) /\ ToSet(more) = ToSet(rec.apply) \cup {k}
    BY <1>5, AppendKeys
  <2>3. PICK rec3 : rec3 = [rec EXCEPT !.apply = more, !.todo = rest, !.mine = @ \cup {k}]
    OBVIOUS
  <2>4. NextEntry(c, rec3)
    BY <1>10, <2>1, <2>2, <2>3
  <2>5. /\ rec3 \in Coordinators /\ rec3.i = rec.i /\ rec3.fresh = rec.fresh
        /\ rec3.flow = rec.flow /\ rec3.conflicts = rec.conflicts
        /\ rec3.issued = rec.issued /\ rec3.pending = rec.pending /\ rec3.known = rec.known
        /\ rec3.todo = rest /\ rec3.apply = more
        /\ rec3.marked = rec.marked /\ rec3.rejected = rec.rejected
        /\ rec3.imageAt = rec.imageAt /\ rec3.image = rec.image
    BY <1>4, <2>3 DEF Coordinators
  <2>6. Settled(c, rec3)
    BY <1>4, <1>6, <2>1, <2>2, <2>5 DEF Settled
  <2>7. \A key \in ToSet(rec3.apply) : Unseen(key, rec3.known)
    BY <1>5, <1>7, <1>10, <2>2, <2>5
  <2> QED BY <1>4, <2>4, <2>5, <2>6, <2>7, EntryMoves
<1> QED
  BY <1>1, <1>4, <1>6, <1>8, <1>9, <1>10 DEF EntryMarker

LEMMA TickRevisionKeeps ==
    ASSUME WireInv, NEW c \in Clients, TickRevision(c)
    PROVE  WireInv'
<1>1. PICK rec : rec = client[c]
  OBVIOUS
<1>2. PICK l : l = link[rec.i]
  OBVIOUS
<1>3. PICK r : r = l.reps[1]
  OBVIOUS
<1>4. At(c, "revision") /\ Answer(c, 1) = r
  BY <1>1, <1>2, <1>3 DEF TickRevision, Answer
<1>5. /\ rec.at = "revision" /\ rec.i # 0
      /\ Heard(c, rec, l) \/ Gone(rec, l)
  BY <1>1, <1>2, <1>4, Hears
<1>6. /\ rec \in Coordinators /\ Settled(c, rec) /\ rec.flow \notin {"none", "call"}
      /\ l \in LinkStates
  BY <1>1, <1>2, <1>5, HasLink DEF Knows, Placed
<1>7. CASE Fail(c)
  BY <1>1, <1>2, <1>5, <1>7, FailMoves
<1>8. CASE IsRevision(r) /\ (StartRead(c, rec, "tick") \/ Reconcile(c, rec))
  <2>1. Heard(c, rec, l)
    <3>1. SUFFICES ASSUME Stale(rec, l) PROVE FALSE
      BY <1>5 DEF Gone
    <3>2. 1 \in DOMAIN l.reps
      <4>1. Len(l.reps) >= 1
        BY <1>1, <1>2, <1>4 DEF At, Want
      <4>2. Len(l.reps) \in Nat /\ DOMAIN l.reps = 1 .. Len(l.reps)
        BY <1>6, LenProperties DEF LinkStates
      <4> QED BY <4>1, <4>2
    <3>3. r.t = "simple"
      BY <1>3, <3>1, <3>2 DEF Stale
    <3> QED BY <1>8, <3>3 DEF IsRevision
  <2>2. CASE StartRead(c, rec, "tick")
    BY <1>5, <1>6, <2>1, <2>2, ReadMoves
  <2>3. CASE Reconcile(c, rec)
    BY <1>5, <1>6, <2>1, <2>3, ReconcileMoves
  <2> QED BY <1>8, <2>2, <2>3
<1>9. CASE ~ IsRevision(r)
  <2>1. Fail(c)
    BY <1>4, <1>9 DEF TickRevision
  <2> QED BY <1>7, <2>1
<1>10. CASE IsRevision(r)
  <2>1. StartRead(c, rec, "tick") \/ Reconcile(c, rec)
    BY <1>1, <1>4, <1>10 DEF TickRevision
  <2> QED BY <1>8, <1>10, <2>1
<1> QED
  BY <1>9, <1>10

LEMMA IgnoredKeeps ==
    ASSUME WireInv, NEW c \in Clients, Ignored(c)
    PROVE  WireInv'
<1>1. PICK rec : rec = client[c]
  OBVIOUS
<1>2. PICK l : l = link[rec.i]
  OBVIOUS
<1>3. PICK at \in {"unwatch", "actual"} : At(c, at) /\ Conflict(c)
  BY DEF Ignored
<1>4. /\ Heard(c, rec, l) /\ rec.at \in {"unwatch", "actual"} /\ rec.i # 0
      /\ Settled(c, rec) /\ Phase(rec) /\ rec \in Coordinators /\ rec.fresh = FALSE
      /\ rec.flow # "none"
  <2>1. PICK r : r = l.reps[1]
    OBVIOUS
  <2>2. at \notin {"idle", "revision", "watch", "state_watch", "batch"}
    BY <1>3
  <2>3. /\ Heard(c, rec, l) /\ rec.at = at /\ rec.i # 0
        /\ Settled(c, rec) /\ Phase(rec) /\ rec \in Coordinators /\ rec.flow # "none"
    BY <1>1, <1>2, <1>3, <2>1, <2>2, OneHeard
  <2>4. rec.fresh = FALSE
    BY <1>1, <2>3, HasLink
  <2> QED BY <1>3, <2>3, <2>4
<1>5. CASE AdapterDropped(rec.flow) \/ rec.then = "state"
  <2>1. Fail(c)
    BY <1>1, <1>3, <1>5 DEF Conflict
  <2> QED BY <1>1, <1>2, <1>4, <2>1, FailMoves
<1>6. CASE ~ (AdapterDropped(rec.flow) \/ rec.then = "state")
  <2>1. rec.apply # <<>> /\ rec.flow \notin {"none", "call"}
    BY <1>4, <1>6 DEF Phase, AdapterDropped
  <2>2. PICK rec3 : rec3 = [rec EXCEPT !.todo = rec.apply]
    OBVIOUS
  <2>3. /\ rec3 \in Coordinators /\ rec3.i = rec.i /\ rec3.fresh = rec.fresh
        /\ rec3.flow = rec.flow /\ rec3.conflicts = rec.conflicts
        /\ rec3.issued = rec.issued /\ rec3.pending = rec.pending /\ rec3.known = rec.known
        /\ rec3.todo = rec.apply /\ rec3.apply = rec.apply
        /\ rec3.marked = rec.marked /\ rec3.rejected = rec.rejected
        /\ rec3.imageAt = rec.imageAt /\ rec3.image = rec.image
    BY <1>4, <2>2 DEF Coordinators
  <2>4. Settled(c, rec3)
    BY <1>4, <2>3 DEF Settled
  <2>5. Exchange(c, "conflict_ledger", <<Request("GETLEDGER", Head(rec3.todo))>>, rec3)
    BY <1>1, <1>3, <1>6, <2>2, <2>3 DEF Conflict
  <2>6. PICK rec2 : rec2 = Moved(rec3, "conflict_ledger")
    OBVIOUS
  <2>7. /\ rec2.at = "conflict_ledger" /\ rec2.i = rec.i /\ rec2.flow = rec.flow
        /\ rec2.todo = rec.apply /\ rec2.apply = rec.apply /\ rec2.fresh = FALSE
        /\ Settled(c, rec2)
    <3>1. "conflict_ledger" \in Ats
      BY PlaceNames
    <3> QED BY <1>4, <2>3, <2>4, <2>6, <3>1, AtFields
  <2>8. Placed(rec2) /\ Phase(rec2)
    BY <1>4, <2>1, <2>7 DEF Placed, Phase
  <2> QED BY <1>4, <2>1, <2>3, <2>5, <2>6, <2>7, <2>8, KeyMoves DEF Knows
<1> QED
  BY <1>5, <1>6

LEMMA ConflictMoves ==
    ASSUME WireInv, NEW c, NEW rec, NEW l, Heard(c, rec, l),
           rec.at \notin {"multi", "queue1", "queue2"},
           NEW rec3, NextConflict(c, rec3), rec3.i = rec.i, Settled(c, rec3), rec3.fresh = rec.fresh,
           rec.issued \subseteq rec3.issued, rec3.flow \notin {"none", "call"}, rec3.apply # <<>>,
           \A k \in ToSet(rec3.apply) : k \in ToSet(rec3.todo) \/ Recorded(k)
    PROVE  WireInv'
<1>1. rec.i # 0 /\ rec.fresh = FALSE /\ rec3 \in Coordinators
  BY HasLink DEF Heard, Settled
<1>2. CASE rec3.todo # <<>>
  <2>1. Exchange(c, "conflict_ledger", <<Request("GETLEDGER", Head(rec3.todo))>>, rec3)
    BY <1>2 DEF NextConflict
  <2>2. PICK rec2 : rec2 = Moved(rec3, "conflict_ledger")
    OBVIOUS
  <2>3. /\ rec2.at = "conflict_ledger" /\ rec2.i = rec3.i /\ rec2.flow = rec3.flow
        /\ rec2.todo = rec3.todo /\ rec2.apply = rec3.apply /\ rec2.fresh = rec3.fresh
        /\ Settled(c, rec2)
    <3>1. "conflict_ledger" \in Ats
      BY PlaceNames
    <3> QED BY <1>1, <2>2, <3>1, AtFields
  <2>4. Placed(rec2) /\ Phase(rec2)
    BY <1>1, <1>2, <2>3 DEF Placed, Phase
  <2> QED BY <1>1, <1>2, <2>1, <2>2, <2>3, <2>4, KeyMoves DEF Knows
<1>3. CASE rec3.todo = <<>>
  <2>1. StartRead(c, rec3, "rejected")
    BY <1>3 DEF NextConflict
  <2>2. ToSet(rec3.todo) = {}
    BY <1>3 DEF ToSet
  <2> QED BY <2>1, <2>2, ReadMoves
<1> QED
  BY <1>2, <1>3

(* The entry has a record of its own.                                      *)
LEMMA ConflictRecorded ==
    ASSUME WireInv, NEW c, NEW rec, NEW l, Heard(c, rec, l),
           rec.at \in {"conflict_ledger", "conflict_set"}, Recorded(Head(rec.todo)),
           NextConflict(c, [client[c] EXCEPT !.todo = Tail(@)])
    PROVE  WireInv'
<1>1. rec = client[c] /\ rec \in Coordinators /\ Knows(c, rec)
  BY HeardFacts DEF Heard
<1>2. /\ Settled(c, rec) /\ rec.flow \notin {"none", "call"}
      /\ rec.todo # <<>> /\ rec.apply # <<>>
      /\ \A k \in ToSet(rec.apply) : k \in ToSet(rec.todo) \/ Recorded(k)
  BY <1>1 DEF Knows, Placed, Phase
<1>3. rec.todo \in Seq(Keys)
  BY <1>1 DEF Coordinators
<1>4. PICK rest \in Seq(Keys) :
         /\ rest = Tail(rec.todo) /\ ToSet(rest) \subseteq ToSet(rec.todo)
         /\ \A k \in ToSet(rec.todo) : k = Head(rec.todo) \/ k \in ToSet(rest)
  BY <1>2, <1>3, TailKeys
<1>5. PICK rec3 : rec3 = [rec EXCEPT !.todo = rest]
  OBVIOUS
<1>6. NextConflict(c, rec3)
  BY <1>1, <1>4, <1>5
<1>7. /\ rec3 \in Coordinators /\ rec3.i = rec.i /\ rec3.fresh = rec.fresh
      /\ rec3.flow = rec.flow /\ rec3.conflicts = rec.conflicts
      /\ rec3.issued = rec.issued /\ rec3.pending = rec.pending /\ rec3.known = rec.known
      /\ rec3.todo = rest /\ rec3.apply = rec.apply
      /\ rec3.marked = rec.marked /\ rec3.rejected = rec.rejected
      /\ rec3.imageAt = rec.imageAt /\ rec3.image = rec.image
  BY <1>1, <1>5 DEF Coordinators
<1>8. Settled(c, rec3)
  BY <1>2, <1>4, <1>7 DEF Settled
<1>9. \A k \in ToSet(rec3.apply) : k \in ToSet(rec3.todo) \/ Recorded(k)
  <2>1. ASSUME NEW k \in ToSet(rec.apply) PROVE k \in ToSet(rest) \/ Recorded(k)
    BY <1>2, <1>4
  <2> QED BY <1>7, <2>1
<1> QED
  BY <1>2, <1>6, <1>7, <1>8, <1>9, ConflictMoves

LEMMA ConflictLedgerKeeps ==
    ASSUME WireInv, NEW c \in Clients, ConflictLedger(c)
    PROVE  WireInv'
<1>1. PICK rec : rec = client[c]
  OBVIOUS
<1>2. PICK l : l = link[rec.i]
  OBVIOUS
<1>3. PICK r : r = l.reps[1]
  OBVIOUS
<1>4. /\ Heard(c, rec, l) /\ rec.at = "conflict_ledger" /\ rec.i # 0 /\ Settled(c, rec)
      /\ Phase(rec) /\ rec.flow \notin {"none", "call"} /\ rec \in Coordinators
      /\ rec.fresh = FALSE /\ Fits(rec, 1, r) /\ Answer(c, 1) = r
  <2>1. At(c, "conflict_ledger")
    BY DEF ConflictLedger
  <2>2. /\ Heard(c, rec, l) /\ rec.at = "conflict_ledger" /\ rec.i # 0 /\ Settled(c, rec)
        /\ Phase(rec) /\ rec.flow \notin {"none", "call"} /\ rec \in Coordinators
        /\ Fits(rec, 1, r) /\ Answer(c, 1) = r
    BY <1>1, <1>2, <1>3, <2>1, OneHeard
  <2>3. rec.fresh = FALSE
    BY <1>1, <2>2, HasLink
  <2> QED BY <2>2, <2>3
<1>5. /\ rec.todo # <<>> /\ rec.apply # <<>>
      /\ \A k \in ToSet(rec.apply) : k \in ToSet(rec.todo) \/ Recorded(k)
  BY <1>4 DEF Phase
<1>6. r.kind = "committed" => Recorded(Head(rec.todo))
  BY <1>4 DEF Fits, Watches
<1>7. CASE Fail(c)
  BY <1>1, <1>2, <1>4, <1>7, FailMoves
<1>8. CASE r.kind = "committed" /\ NextConflict(c, [client[c] EXCEPT !.todo = Tail(@)])
  BY <1>4, <1>6, <1>8, ConflictRecorded
<1>9. CASE Exchange(c, "conflict_set", <<Request("SETCONFLICT", Head(rec.todo))>>, rec)
  <2>1. PICK rec2 : rec2 = Moved(rec, "conflict_set")
    OBVIOUS
  <2>2. /\ rec2.at = "conflict_set" /\ rec2.i = rec.i /\ rec2.flow = rec.flow
        /\ rec2.todo = rec.todo /\ rec2.apply = rec.apply /\ rec2.fresh = FALSE
        /\ Settled(c, rec2)
    <3>1. "conflict_set" \in Ats
      BY PlaceNames
    <3> QED BY <1>4, <2>1, <3>1, AtFields
  <2>3. Placed(rec2) /\ Phase(rec2)
    BY <1>4, <1>5, <2>2 DEF Placed, Phase
  <2> QED BY <1>4, <1>5, <1>9, <2>1, <2>2, <2>3, KeyMoves DEF Knows
<1> QED
  BY <1>1, <1>4, <1>7, <1>8, <1>9 DEF ConflictLedger

LEMMA ConflictSetKeeps ==
    ASSUME WireInv, NEW c \in Clients, ConflictSet(c)
    PROVE  WireInv'
<1>1. PICK rec : rec = client[c]
  OBVIOUS
<1>2. PICK l : l = link[rec.i]
  OBVIOUS
<1>3. PICK r : r = l.reps[1]
  OBVIOUS
<1>4. /\ Heard(c, rec, l) /\ rec.at = "conflict_set" /\ rec.i # 0
      /\ Fits(rec, 1, r) /\ Answer(c, 1) = r
  <2>1. At(c, "conflict_set")
    BY DEF ConflictSet
  <2> QED BY <1>1, <1>2, <1>3, <2>1, OneHeard
<1>5. r.t = "simple" => Recorded(Head(rec.todo))
  BY <1>4 DEF Fits, Watches
<1>6. CASE Fail(c)
  BY <1>1, <1>2, <1>4, <1>6, FailMoves
<1>7. CASE r.t = "simple" /\ NextConflict(c, [client[c] EXCEPT !.todo = Tail(@)])
  BY <1>4, <1>5, <1>7, ConflictRecorded
<1> QED
  BY <1>4, <1>6, <1>7 DEF ConflictSet

LEMMA WatchAnswered ==
    ASSUME WireInv, NEW c \in Clients, NEW at \in Watches, At(c, at),
           NEW rec, rec = client[c], NEW l, l = link[rec.i]
    PROVE  /\ rec.at = at /\ rec.i # 0 /\ rec \in Coordinators /\ rec.flow # "none"
           /\ Settled(c, rec) /\ Placed(rec) /\ Phase(rec)
           /\ \/ Heard(c, rec, l)
              \/ Gone(rec, l) /\ ~ IsRevision(Answer(c, 2))
           /\ Heard(c, rec, l) => Checked(l, RevisionIn(Answer(c, 2)))
<1>1. at # "idle" /\ Want(at) = 2
  BY DEF Watches, Want
<1>2. /\ rec.at = at /\ rec.i # 0
      /\ Heard(c, rec, l) \/ Gone(rec, l)
  BY <1>1, Hears
<1>3. rec \in Coordinators /\ Knows(c, rec) /\ l \in LinkStates
  BY <1>2, HasLink
<1>4. Settled(c, rec) /\ Placed(rec) /\ Phase(rec) /\ rec.flow # "none"
  BY <1>1, <1>2, <1>3 DEF Knows, Placed
<1>5. Answer(c, 2) = l.reps[2]
  BY DEF Answer
<1>6. Stale(rec, l) => ~ IsRevision(Answer(c, 2))
  <2>1. SUFFICES ASSUME Stale(rec, l) PROVE ~ IsRevision(l.reps[2])
    BY <1>5
  <2>2. 2 \in DOMAIN l.reps
    <3>1. Len(l.reps) >= 2
      BY <1>1 DEF At
    <3>2. Len(l.reps) \in Nat /\ DOMAIN l.reps = 1 .. Len(l.reps)
      BY <1>3, LenProperties DEF LinkStates
    <3> QED BY <3>1, <3>2
  <2>3. l.reps[2].t = "simple"
    BY <2>1, <2>2 DEF Stale
  <2> QED BY <2>3 DEF IsRevision
<1>7. Heard(c, rec, l) => Checked(l, RevisionIn(Answer(c, 2)))
  <2>1. SUFFICES ASSUME Heard(c, rec, l), l.open = TRUE
                 PROVE  Answered(l, 2) /\ Ready(l, RevisionIn(Answer(c, 2)))
    BY DEF Checked
  <2>2. InWatch(l)
    <3>1. InExchange(rec, l)
      BY <2>1 DEF Heard
    <3> QED BY <1>2, <1>3, <3>1, ExchangeAt
  <2>3. Len(l.reps) = 2
    BY <1>1, <1>2, <2>1 DEF Heard
  <2>4. l.reps # <<>>
    <3>1. l.reps = <<>> => Len(l.reps) = 0
      OBVIOUS
    <3> QED BY <2>3, <3>1
  <2>5. Answered(l, 2) /\ Ready(l, RevisionIn(l.reps[2]))
    <3>1. ~ (Len(l.reps) = 1)
      BY <2>3
    <3> QED BY <2>2, <2>4, <3>1 DEF InWatch
  <2> QED BY <1>5, <2>5
<1>8. Gone(rec, l) => ~ IsRevision(Answer(c, 2))
  BY <1>6 DEF Gone
<1> QED
  BY <1>2, <1>3, <1>4, <1>7, <1>8

LEMMA UnwatchMoves ==
    ASSUME WireInv, NEW c, NEW rec, NEW l, Heard(c, rec, l), rec.at \in {"watch", "state_watch", "batch", "exec"},
           \/ Exchange(c, "unwatch", <<Ask("UNWATCH")>>, rec)
           \/ AskActual(c)
    PROVE  WireInv'
<1>1. rec = client[c] /\ rec \in Coordinators /\ Knows(c, rec) /\ rec.i # 0
  BY HeardFacts DEF Heard
<1>2. rec.fresh = FALSE
  BY <1>1, HasLink DEF Heard
<1>3. AdapterDropped(rec.flow) \/ rec.then = "state" \/ rec.apply # <<>>
  BY <1>1 DEF Knows, Phase
<1>4. PICK at \in {"unwatch", "actual"} :
         Exchange(c, at, <<Ask(IF at = "actual" THEN "GETREV" ELSE "UNWATCH")>>, rec)
  BY <1>1 DEF AskActual
<1>5. PICK cmd : cmd = IF at = "actual" THEN "GETREV" ELSE "UNWATCH"
  OBVIOUS
<1>6. Exchange(c, at, <<Ask(cmd)>>, rec)
  BY <1>4, <1>5
<1>7. at \in Singles /\ at # "members" /\ cmd \in Commands \ {"GETLEDGER", "GETMARKER", "SETCONFLICT"}
  BY <1>5 DEF Singles, Commands
<1>8. PICK rec2 : rec2 = Moved(rec, at)
  OBVIOUS
<1>9. /\ rec2.at = at /\ rec2.i = rec.i /\ rec2.flow = rec.flow /\ rec2.then = rec.then
      /\ rec2.apply = rec.apply /\ rec2.fresh = rec.fresh
      /\ Settled(c, rec2)
  <2>1. at \in Ats
    BY <1>7, PlaceNames
  <2> QED BY <1>1, <1>7, <1>8, <2>1, AtFields DEF Knows
<1>10. Placed(rec2)
  BY <1>1, <1>2, <1>9 DEF Placed, Knows
<1>11. Phase(rec2)
  BY <1>3, <1>9 DEF Phase
<1>12. Ask(cmd) = Expected(rec2)
  BY <1>5, <1>9 DEF Expected
<1> QED
  BY <1>1, <1>6, <1>7, <1>8, <1>9, <1>10, <1>11, <1>12, AskMoves DEF Knows

LEMMA BatchRequests ==
    ASSUME NEW tx \in Txs,
           NEW s, s = <<Ask("MULTI")>> \o [n \in DOMAIN DeltaParts |-> Part(DeltaParts[n], tx)] \o <<Ask("EXEC")>>
    PROVE  /\ s = <<Multi, Part("head", tx), Part("records", tx), Part("ledger", tx), Exec>>
           /\ s \in Seq(Requests)
<1>1. /\ Multi \in Requests /\ Exec \in Requests
      /\ Part("head", tx) \in Requests /\ Part("records", tx) \in Requests
      /\ Part("ledger", tx) \in Requests
  BY RequestTypes DEF Multi, Exec
<1>2. PICK a \in Requests, b \in Requests, c \in Requests, d \in Requests, e \in Requests :
         /\ a = Multi /\ b = Part("head", tx) /\ c = Part("records", tx)
         /\ d = Part("ledger", tx) /\ e = Exec
  BY <1>1
<1>3. PICK parts : parts = [n \in DOMAIN DeltaParts |-> Part(DeltaParts[n], tx)]
  OBVIOUS
<1>4. /\ DOMAIN DeltaParts = 1 .. 3
      /\ DeltaParts[1] = "head" /\ DeltaParts[2] = "records" /\ DeltaParts[3] = "ledger"
  BY DEF DeltaParts
<1>5. parts \in Seq(Requests) /\ Len(parts) = 3 /\ parts[1] = b /\ parts[2] = c /\ parts[3] = d
  <2>1. /\ parts = [n \in 1 .. 3 |-> parts[n]]
        /\ parts[1] = b /\ parts[2] = c /\ parts[3] = d
    BY <1>2, <1>3, <1>4
  <2>2. \A n \in 1 .. 3 : parts[n] \in Requests
    BY <2>1
  <2> QED BY <2>1, <2>2
<1>6. /\ <<a>> \in Seq(Requests) /\ Len(<<a>>) = 1 /\ <<a>>[1] = a
      /\ <<e>> \in Seq(Requests) /\ Len(<<e>>) = 1 /\ <<e>>[1] = e
      /\ <<a, b, c, d, e>> \in Seq(Requests) /\ Len(<<a, b, c, d, e>>) = 5
      /\ <<a, b, c, d, e>>[1] = a /\ <<a, b, c, d, e>>[2] = b /\ <<a, b, c, d, e>>[3] = c
      /\ <<a, b, c, d, e>>[4] = d /\ <<a, b, c, d, e>>[5] = e
  OBVIOUS
<1>7. PICK front : front = <<a>> \o parts
  OBVIOUS
<1>8. /\ front \in Seq(Requests) /\ Len(front) = 4
      /\ front[1] = a /\ front[2] = b /\ front[3] = c /\ front[4] = d
  <2>1. /\ front \in Seq(Requests) /\ Len(front) = 4
        /\ \A n \in 1 .. 4 : front[n] = IF n <= 1 THEN <<a>>[n] ELSE parts[n - 1]
    <3>1. PICK p \in Seq(Requests) : p = <<a>> /\ Len(p) = 1 /\ p[1] = a
      BY <1>6
    <3>2. /\ (p \o parts) \in Seq(Requests) /\ Len(p \o parts) = Len(p) + Len(parts)
          /\ \A n \in 1 .. Len(p) + Len(parts) :
               (p \o parts)[n] = IF n <= Len(p) THEN p[n] ELSE parts[n - Len(p)]
      BY <1>5, <3>1, ConcatProperties, ZenonT(30)
    <3>3. front = p \o parts /\ Len(p) + Len(parts) = 4
      BY <1>5, <1>7, <3>1
    <3> QED BY <3>1, <3>2, <3>3
  <2> QED BY <1>5, <1>6, <2>1
<1>9. s = front \o <<e>>
  BY <1>2, <1>3, <1>7 DEF Multi, Exec
<1>10. /\ s \in Seq(Requests) /\ Len(s) = 5
       /\ s[1] = a /\ s[2] = b /\ s[3] = c /\ s[4] = d /\ s[5] = e
  <2>1. /\ s \in Seq(Requests) /\ Len(s) = 5
        /\ \A n \in 1 .. 5 : s[n] = IF n <= 4 THEN front[n] ELSE <<e>>[n - 4]
    <3>1. PICK p \in Seq(Requests) : p = <<e>> /\ Len(p) = 1 /\ p[1] = e
      BY <1>6
    <3>2. /\ (front \o p) \in Seq(Requests) /\ Len(front \o p) = Len(front) + Len(p)
          /\ \A n \in 1 .. Len(front) + Len(p) :
               (front \o p)[n] = IF n <= Len(front) THEN front[n] ELSE p[n - Len(front)]
      BY <1>8, <3>1, ConcatProperties
    <3>3. s = front \o p
      BY <1>9, <3>1, Zenon
    <3>4. Len(front) + Len(p) = 5
      BY <1>8, <3>1
    <3> QED BY <1>8, <3>1, <3>2, <3>3, <3>4
  <2> QED BY <1>6, <1>8, <2>1
<1>11. s = <<a, b, c, d, e>>
  <2>1. PICK t : t = <<a, b, c, d, e>>
    OBVIOUS
  <2>2. /\ t \in Seq(Requests) /\ Len(t) = 5
        /\ t[1] = a /\ t[2] = b /\ t[3] = c /\ t[4] = d /\ t[5] = e
    BY <1>6, <2>1
  <2>3. \A i \in 1 .. Len(s) : s[i] = t[i]
    BY <1>10, <2>2
  <2>4. s = t
    BY <1>10, <2>2, <2>3, SeqEqual
  <2> QED BY <2>1, <2>4
<1> QED
  BY <1>2, <1>10, <1>11

LEMMA DeltasWatchedKeeps ==
    ASSUME WireInv, NEW c \in Clients, DeltasWatched(c)
    PROVE  WireInv'
<1>1. PICK rec : rec = client[c]
  OBVIOUS
<1>2. PICK l : l = link[rec.i]
  OBVIOUS
<1>3. At(c, "watch") /\ "watch" \in Watches
  BY DEF DeltasWatched, Watches
<1>4. /\ rec.at = "watch" /\ rec.i # 0 /\ rec \in Coordinators /\ rec.flow # "none"
      /\ Settled(c, rec) /\ Placed(rec) /\ Phase(rec) /\ rec.fresh = FALSE
      /\ Heard(c, rec, l) \/ (Gone(rec, l) /\ ~ IsRevision(Answer(c, 2)))
      /\ Heard(c, rec, l) => Checked(l, RevisionIn(Answer(c, 2)))
  <2>1. /\ rec.at = "watch" /\ rec.i # 0 /\ rec \in Coordinators /\ rec.flow # "none"
        /\ Settled(c, rec) /\ Placed(rec) /\ Phase(rec)
        /\ Heard(c, rec, l) \/ (Gone(rec, l) /\ ~ IsRevision(Answer(c, 2)))
        /\ Heard(c, rec, l) => Checked(l, RevisionIn(Answer(c, 2)))
    BY <1>1, <1>2, <1>3, WatchAnswered
  <2>2. rec.fresh = FALSE
    BY <1>1, <2>1, HasLink
  <2> QED BY <2>1, <2>2
<1>5. rec.apply # <<>> /\ \A k \in ToSet(rec.apply) : Unseen(k, rec.known)
  BY <1>4 DEF Phase
<1>6. CASE Fail(c)
  BY <1>1, <1>2, <1>4, <1>6, FailMoves
<1>7. CASE IsRevision(Answer(c, 2)) /\ Exchange(c, "unwatch", <<Ask("UNWATCH")>>, rec)
  BY <1>4, <1>7, UnwatchMoves
<1>8. PICK tx : tx = BatchTx(rec)
  OBVIOUS
<1>9. /\ tx \in Txs /\ tx.base = rec.known /\ tx.keys = ToSet(rec.apply)
  <2>1. ToSet(rec.apply) \subseteq Keys
    BY <1>4, ElementOfSeq DEF ToSet, Coordinators
  <2> QED BY <1>4, <1>8, <2>1 DEF BatchTx, Tx, Txs, Coordinators
<1>10. PICK reqs : reqs = <<Ask("MULTI")>> \o [n \in DOMAIN DeltaParts |-> Part(DeltaParts[n], tx)] \o <<Ask("EXEC")>>
  OBVIOUS
<1>11. /\ reqs = <<Multi, Part("head", tx), Part("records", tx), Part("ledger", tx), Exec>>
       /\ reqs \in Seq(Requests)
  BY <1>9, <1>10, BatchRequests
<1>12. CASE /\ IsRevision(Answer(c, 2)) /\ RevisionIn(Answer(c, 2)) = rec.known
            /\ Exchange(c, "batch", reqs, rec)
  <2>1. Heard(c, rec, l) /\ (l.open = TRUE => Calm(l) /\ Ready(l, rec.known))
    <3>1. Heard(c, rec, l) /\ Checked(l, rec.known)
      BY <1>4, <1>12
    <3> QED BY <3>1 DEF Checked, Answered
  <2>2. PICK rec2 : rec2 = Moved(rec, "batch")
    OBVIOUS
  <2>3. /\ rec2.at = "batch" /\ rec2.i = rec.i /\ rec2.flow = rec.flow
        /\ rec2.apply = rec.apply /\ rec2.fresh = FALSE /\ rec2.known = rec.known
        /\ rec2.issued = rec.issued /\ rec2.old = rec.old /\ Settled(c, rec2)
    <3>1. "batch" \in Ats
      BY PlaceNames
    <3> QED BY <1>4, <2>2, <3>1, AtFields
  <2>4. Placed(rec2) /\ Phase(rec2)
    BY <1>4, <1>5, <2>3 DEF Placed, Phase
  <2>5. BatchTx(rec2) = tx
    BY <1>8, <2>3 DEF BatchTx, Tx
  <2>6. TxOK(tx) /\ tx.keys \subseteq rec2.issued
    BY <1>4, <1>5, <1>9, <2>3 DEF TxOK, Settled
  <2>7. ASSUME NEW l2 \in LinkStates,
               Continues(l, reqs, l2)
        PROVE  /\ LinkFits(l2) /\ InExchange(rec2, l2)
               /\ \A tx2 \in TxsOf(l2) : tx2 \in TxsOf(l) \/ tx2.keys \subseteq rec2.issued
    <3>0. /\ l.open = TRUE /\ l2.open = TRUE /\ l2.reqs = reqs /\ l2.reps = <<>>
          /\ l2.multi = l.multi /\ l2.queue = l.queue
          /\ l2.watched = l.watched /\ l2.dirty = l.dirty
      BY <2>7 DEF Continues
    <3>1. Calm(l2) /\ Ready(l2, tx.base)
      BY <1>9, <2>1, <3>0 DEF Calm, Ready
    <3>2. DeltaSent(l2, tx)
      BY <1>11, <3>0, <3>1 DEF DeltaSent
    <3>3. ToSet(l2.reqs) = {Multi, Part("head", tx), Part("records", tx), Part("ledger", tx), Exec}
      BY <1>11, <3>0 DEF ToSet
    <3>4. tx \in TxsOf(l2)
      <4>1. Part("head", tx) \in ToSet(l2.queue) \cup ToSet(l2.reqs)
        BY <3>3
      <4> QED BY <4>1, PartIsTx
    <3>5. LinkFits(l2)
      BY <2>6, <3>1, <3>2, <3>4 DEF LinkFits
    <3>6. InExchange(rec2, l2)
      <4>1. l2.multi = FALSE /\ Len(l2.reps) = 0
        BY <3>0, <3>1 DEF Calm
      <4>2. InBatch(rec2, l2)
        BY <2>5, <3>2, <4>1 DEF InBatch
      <4> QED BY <2>3, <4>2, ExchangeAt
    <3>7. TxsOf(l2) \subseteq {tx}
      <4>1. ToSet(l2.queue) = {}
        BY <3>1 DEF Calm, ToSet
      <4>2. \A name : Part(name, tx).tx[1] = tx
        BY DEF Part
      <4>3. \A q \in ToSet(l2.queue) \cup ToSet(l2.reqs) : q.part # "" => q.tx[1] = tx
        BY <3>3, <4>1, <4>2, MultiNamed, ExecNamed
      <4> QED BY <4>3 DEF TxsOf
    <3> QED BY <2>6, <3>5, <3>6, <3>7
  <2> QED BY <1>11, <1>12, <2>1, <2>2, <2>3, <2>4, <2>7, NextExchange DEF Knows
<1>13. reqs = <<Ask("MULTI")>> \o [n \in DOMAIN DeltaParts |->
          Part(DeltaParts[n], Tx(client[c], ToSet(client[c].apply), ToSet(client[c].apply)))] \o <<Ask("EXEC")>>
  BY <1>1, <1>8, <1>10 DEF BatchTx
<1>14. \/ Fail(c)
       \/ IsRevision(Answer(c, 2)) /\ Exchange(c, "unwatch", <<Ask("UNWATCH")>>, rec)
       \/ /\ IsRevision(Answer(c, 2)) /\ RevisionIn(Answer(c, 2)) = rec.known
          /\ Exchange(c, "batch", reqs, rec)
  <2>1. Preflight(c, Exchange(c, "batch", reqs, rec))
    BY <1>1, <1>13 DEF DeltasWatched
  <2> QED BY <1>1, <2>1 DEF Preflight
<1> QED
  BY <1>6, <1>7, <1>12, <1>14

LEMMA PublishedOK ==
    ASSUME WireInv, NEW c \in Clients, NEW rec, rec = client[c], Settled(c, rec),
           NEW v \in Nat, v <= db.rev, NEW rec3, rec3 = Published(c, v)
    PROVE  /\ Settled(c, rec3) /\ rec3.i = rec.i /\ rec3.fresh = rec.fresh
           /\ rec3.flow = rec.flow /\ rec3.then = rec.then /\ rec3.apply = rec.apply
           /\ rec3.issued = rec.issued /\ rec3 \in Coordinators
<1>1. rec \in Coordinators
  BY DEF Settled
<1>2. /\ rec3 \in Coordinators /\ rec3.i = rec.i /\ rec3.fresh = rec.fresh
      /\ rec3.flow = rec.flow /\ rec3.then = rec.then /\ rec3.apply = rec.apply
      /\ rec3.issued = rec.issued /\ rec3.pending = rec.pending /\ rec3.todo = rec.todo
      /\ rec3.conflicts = rec.conflicts /\ rec3.marked = rec.marked
      /\ rec3.rejected = rec.rejected /\ rec3.known = v
      /\ rec3.imageAt = rec.imageAt /\ rec3.image = rec.image
  BY <1>1 DEF Published, Coordinators
<1>3. Settled(c, rec3)
  BY <1>2 DEF Settled
<1> QED
  BY <1>2, <1>3

LEMMA DeltasExecutedKeeps ==
    ASSUME WireInv, NEW c \in Clients, DeltasExecuted(c)
    PROVE  WireInv'
<1>1. PICK rec : rec = client[c]
  OBVIOUS
<1>2. PICK l : l = link[rec.i]
  OBVIOUS
<1>3. PICK r : r = l.reps[5]
  OBVIOUS
<1>4. Want("batch") = 5 /\ Len(DeltaParts) = 3
  BY DEF Want, DeltaParts
<1>5. /\ Heard(c, rec, l) /\ rec.at = "batch" /\ rec.i # 0 /\ Settled(c, rec) /\ Phase(rec)
      /\ rec.flow # "none" /\ rec \in Coordinators /\ rec.fresh = FALSE
      /\ r \in Replies /\ Fits(rec, 5, r) /\ Answer(c, 5) = r
  <2>1. At(c, "batch")
    BY DEF DeltasExecuted
  <2>2. /\ Heard(c, rec, l) /\ rec.at = "batch" /\ rec.i # 0 /\ Settled(c, rec) /\ Phase(rec)
        /\ rec.flow # "none" /\ rec \in Coordinators
    BY <1>1, <1>2, <2>1, HeardAt
  <2>3. \A n \in 1 .. Want("batch") :
          l.reps[n] \in Replies /\ Fits(rec, n, l.reps[n]) /\ Answer(c, n) = l.reps[n]
    BY <1>1, <1>2, <2>1, HeardAt
  <2>4. 5 \in 1 .. Want("batch")
    BY <1>4
  <2>5. r \in Replies /\ Fits(rec, 5, r) /\ Answer(c, 5) = r
    BY <1>3, <2>3, <2>4
  <2>6. rec.fresh = FALSE
    BY <1>1, <2>2, HasLink
  <2> QED BY <2>2, <2>5, <2>6
<1>6. rec.apply # <<>>
  BY <1>5 DEF Phase
<1>7. CASE Fail(c)
  BY <1>1, <1>2, <1>5, <1>7, FailMoves
<1>8. CASE AskActual(c)
  BY <1>5, <1>8, UnwatchMoves
<1>9. PICK rec3 : rec3 = Published(c, r.n)
  OBVIOUS
<1>10. CASE /\ IsResult(r, 3)
            /\ \/ rec.flow = "call" /\ CallDone(c, rec3)
               \/ rec.flow # "call" /\ StartWatch(c, "state_watch", rec3)
               \/ Finish(c, rec3)
  <2>1. r.n \in Nat /\ r.n <= db.rev /\ \A k \in ToSet(rec.apply) : InLog(k)
    BY <1>5, <1>10 DEF Fits, Watches, Replies
  <2>2. /\ Settled(c, rec3) /\ rec3.i = rec.i /\ rec3.fresh = rec.fresh
        /\ rec3.flow = rec.flow /\ rec3.then = rec.then /\ rec3.apply = rec.apply
        /\ rec3.issued = rec.issued /\ rec3 \in Coordinators
    BY <1>1, <1>5, <1>9, <2>1, PublishedOK
  <2>3. CASE CallDone(c, rec3)
    <3>1. ToSet(rec3.apply) \subseteq Keys /\ rec3.pending \in Seq(Keys)
      BY <2>2, ElementOfSeq DEF ToSet, Coordinators
    <3>2. PICK left \in Seq(Keys) : /\ left = Without(rec3.pending, ToSet(rec3.apply))
                                    /\ ToSet(left) \subseteq ToSet(rec3.pending)
      BY <3>1, WithoutOK
    <3>3. PICK rec4 : rec4 = [rec3 EXCEPT !.pending = left, !.marked = @ \cup ToSet(rec3.apply)]
      OBVIOUS
    <3>4. End(c, rec4)
      BY <2>2, <2>3, <3>2, <3>3 DEF CallDone, Coordinators
    <3>5. /\ rec4 \in Coordinators /\ rec4.i = rec3.i /\ rec4.fresh = rec3.fresh
          /\ rec4.issued = rec3.issued /\ rec4.pending = left /\ rec4.known = rec3.known
          /\ rec4.todo = rec3.todo /\ rec4.apply = rec3.apply /\ rec4.conflicts = rec3.conflicts
          /\ rec4.marked = rec3.marked \cup ToSet(rec3.apply)
          /\ rec4.rejected = rec3.rejected
          /\ rec4.imageAt = rec3.imageAt /\ rec4.image = rec3.image
      BY <2>2, <3>1, <3>3 DEF Coordinators
    <3>6. Settled(c, rec4)
      BY <2>1, <2>2, <3>2, <3>5 DEF Settled
    <3> QED BY <1>5, <2>2, <3>4, <3>5, <3>6, EndMoves
  <2>4. CASE rec.flow # "call" /\ StartWatch(c, "state_watch", rec3)
    <3>1. PICK rec2 : rec2 = Moved(rec3, "state_watch")
      OBVIOUS
    <3>2. /\ rec2.at = "state_watch" /\ rec2.i = rec.i /\ rec2.flow = rec.flow
          /\ rec2.apply = rec.apply /\ rec2.fresh = FALSE /\ rec2.issued = rec.issued
          /\ Settled(c, rec2)
      <4>1. "state_watch" \in Ats
        BY PlaceNames
      <4> QED BY <1>5, <2>2, <3>1, <4>1, AtFields
    <3>3. Placed(rec2)
      BY <1>5, <2>4, <3>2 DEF Placed
    <3>4. Phase(rec2)
      BY <1>6, <2>1, <3>2 DEF Phase
    <3>5. "state_watch" \in Watches
      BY DEF Watches
    <3> QED BY <1>5, <2>2, <2>4, <3>1, <3>2, <3>3, <3>4, <3>5, WatchMoves DEF Knows
  <2>5. CASE Finish(c, rec3)
    BY <1>5, <2>1, <2>2, <2>5, FinishMoves
  <2> QED BY <1>10, <2>3, <2>4, <2>5
<1> QED
  BY <1>1, <1>4, <1>5, <1>7, <1>8, <1>9, <1>10 DEF DeltasExecuted

LEMMA StateWatchedKeeps ==
    ASSUME WireInv, NEW c \in Clients, StateWatched(c)
    PROVE  WireInv'
<1>1. PICK rec : rec = client[c]
  OBVIOUS
<1>2. PICK l : l = link[rec.i]
  OBVIOUS
<1>3. At(c, "state_watch") /\ "state_watch" \in Watches
  BY DEF StateWatched, Watches
<1>4. /\ rec.at = "state_watch" /\ rec.i # 0 /\ rec \in Coordinators /\ rec.flow # "none"
      /\ Settled(c, rec) /\ Placed(rec) /\ Phase(rec) /\ rec.fresh = FALSE
      /\ Heard(c, rec, l) \/ (Gone(rec, l) /\ ~ IsRevision(Answer(c, 2)))
      /\ Heard(c, rec, l) => Checked(l, RevisionIn(Answer(c, 2)))
  <2>1. /\ rec.at = "state_watch" /\ rec.i # 0 /\ rec \in Coordinators /\ rec.flow # "none"
        /\ Settled(c, rec) /\ Placed(rec) /\ Phase(rec)
        /\ Heard(c, rec, l) \/ (Gone(rec, l) /\ ~ IsRevision(Answer(c, 2)))
        /\ Heard(c, rec, l) => Checked(l, RevisionIn(Answer(c, 2)))
    BY <1>1, <1>2, <1>3, WatchAnswered
  <2>2. rec.fresh = FALSE
    BY <1>1, <2>1, HasLink
  <2> QED BY <2>1, <2>2
<1>5. \A k \in ToSet(rec.apply) : InLog(k)
  BY <1>4 DEF Phase
<1>6. CASE Fail(c)
  BY <1>1, <1>2, <1>4, <1>6, FailMoves
<1>7. CASE IsRevision(Answer(c, 2)) /\ Exchange(c, "unwatch", <<Ask("UNWATCH")>>, rec)
  BY <1>4, <1>7, UnwatchMoves
<1>8. CASE /\ IsRevision(Answer(c, 2)) /\ RevisionIn(Answer(c, 2)) = rec.known
           /\ Exchange(c, "members", <<Ask("SMEMBERS")>>, [rec EXCEPT !.then = "state"])
  <2>1. PICK rec3 : rec3 = [rec EXCEPT !.then = "state"]
    OBVIOUS
  <2>2. /\ rec3 \in Coordinators /\ rec3.i = rec.i /\ rec3.fresh = rec.fresh
        /\ rec3.flow = rec.flow /\ rec3.then = "state"
        /\ rec3.issued = rec.issued /\ rec3.pending = rec.pending /\ rec3.known = rec.known
        /\ rec3.todo = rec.todo /\ rec3.apply = rec.apply /\ rec3.conflicts = rec.conflicts
        /\ rec3.marked = rec.marked /\ rec3.rejected = rec.rejected
        /\ rec3.imageAt = rec.imageAt /\ rec3.image = rec.image
    BY <1>4, <2>1 DEF Coordinators
  <2>3. Settled(c, rec3)
    BY <1>4, <2>2 DEF Settled
  <2>4. PICK rec2 : rec2 = Moved(rec3, "members")
    OBVIOUS
  <2>5. /\ rec2.at = "members" /\ rec2.i = rec.i /\ rec2.flow = rec.flow /\ rec2.then = "state"
        /\ rec2.apply = rec.apply /\ rec2.fresh = FALSE /\ Settled(c, rec2)
    <3>1. "members" \in Ats
      BY PlaceNames
    <3> QED BY <1>4, <2>2, <2>3, <2>4, <3>1, AtFields
  <2>6. Placed(rec2) /\ Phase(rec2)
    BY <1>4, <1>5, <2>5 DEF Placed, Phase
  <2>7. Ask("SMEMBERS") = Expected(rec2)
    BY <2>5 DEF Expected
  <2>8. "members" \in Singles /\ "SMEMBERS" \in Commands \ {"GETLEDGER", "GETMARKER", "SETCONFLICT"}
    BY DEF Singles, Commands
  <2>9. Exchange(c, "members", <<Ask("SMEMBERS")>>, rec3)
    BY <1>8, <2>1
  <2>10. Heard(c, rec, l) /\ StillReady(l, rec3.known)
    <3>1. Heard(c, rec, l) /\ Checked(l, rec3.known)
      BY <1>4, <1>8, <2>2
    <3> QED BY <3>1 DEF Checked, StillReady
  <2> QED BY <1>4, <2>2, <2>4, <2>5, <2>6, <2>7, <2>8, <2>9, <2>10, AskMoves DEF Knows
<1>9. \/ Fail(c)
      \/ IsRevision(Answer(c, 2)) /\ Exchange(c, "unwatch", <<Ask("UNWATCH")>>, rec)
      \/ /\ IsRevision(Answer(c, 2)) /\ RevisionIn(Answer(c, 2)) = rec.known
         /\ Exchange(c, "members", <<Ask("SMEMBERS")>>, [rec EXCEPT !.then = "state"])
  <2>1. Preflight(c, Exchange(c, "members", <<Ask("SMEMBERS")>>, [rec EXCEPT !.then = "state"]))
    BY <1>1 DEF StateWatched
  <2> QED BY <1>1, <2>1 DEF Preflight
<1> QED
  BY <1>6, <1>7, <1>8, <1>9

LEMMA StateMembersKeeps ==
    ASSUME WireInv, NEW c \in Clients, StateMembers(c)
    PROVE  WireInv'
<1>1. PICK rec : rec = client[c]
  OBVIOUS
<1>2. PICK l : l = link[rec.i]
  OBVIOUS
<1>3. PICK r : r = l.reps[1]
  OBVIOUS
<1>4. /\ Heard(c, rec, l) /\ rec.at = "members" /\ rec.i # 0 /\ Settled(c, rec) /\ Phase(rec)
      /\ rec.flow \notin {"none", "call"} /\ rec \in Coordinators /\ rec.fresh = FALSE
      /\ r \in Replies /\ Answer(c, 1) = r
  <2>1. At(c, "members")
    BY DEF StateMembers
  <2>2. /\ Heard(c, rec, l) /\ rec.at = "members" /\ rec.i # 0 /\ Settled(c, rec) /\ Phase(rec)
        /\ rec.flow \notin {"none", "call"} /\ rec \in Coordinators
        /\ r \in Replies /\ Answer(c, 1) = r
    BY <1>1, <1>2, <1>3, <2>1, OneHeard
  <2>3. rec.fresh = FALSE
    BY <1>1, <2>2, HasLink
  <2> QED BY <2>2, <2>3
<1>5. rec.then = "state" /\ \A k \in ToSet(rec.apply) : InLog(k)
  BY <1>4 DEF Phase
<1>6. CASE Fail(c)
  BY <1>1, <1>2, <1>4, <1>6, FailMoves
<1>7. CASE Exchange(c, "multi", <<Ask("MULTI")>>, [rec EXCEPT !.old = r.set])
  <2>1. PICK old \in SUBSET Keys : old = r.set
    BY <1>4 DEF Replies
  <2>2. PICK rec3 : rec3 = [rec EXCEPT !.old = old]
    OBVIOUS
  <2>3. /\ rec3 \in Coordinators /\ rec3.i = rec.i /\ rec3.fresh = rec.fresh
        /\ rec3.flow = rec.flow /\ rec3.then = rec.then /\ rec3.old = old
        /\ rec3.issued = rec.issued /\ rec3.pending = rec.pending /\ rec3.known = rec.known
        /\ rec3.todo = rec.todo /\ rec3.apply = rec.apply /\ rec3.conflicts = rec.conflicts
        /\ rec3.marked = rec.marked /\ rec3.rejected = rec.rejected
        /\ rec3.imageAt = rec.imageAt /\ rec3.image = rec.image
    BY <1>4, <2>2 DEF Coordinators
  <2>4. Settled(c, rec3)
    BY <1>4, <2>3 DEF Settled
  <2>5. PICK rec2 : rec2 = Moved(rec3, "multi")
    OBVIOUS
  <2>6. /\ rec2.at = "multi" /\ rec2.i = rec.i /\ rec2.flow = rec.flow /\ rec2.then = rec.then
        /\ rec2.apply = rec.apply /\ rec2.fresh = FALSE /\ rec2.known = rec.known
        /\ rec2.old = old /\ rec2.issued = rec.issued /\ Settled(c, rec2)
    <3>1. "multi" \in Ats
      BY PlaceNames
    <3> QED BY <1>4, <2>3, <2>4, <2>5, <3>1, AtFields
  <2>7. Placed(rec2) /\ Phase(rec2)
    BY <1>4, <1>5, <2>6 DEF Placed, Phase
  <2>8. Exchange(c, "multi", <<Multi>>, rec3) /\ <<Multi>> \in Seq(Requests)
    BY <1>7, <2>1, <2>2, RequestTypes DEF Multi
  <2>9. l.open = TRUE => Calm(l) /\ Ready(l, rec.known) /\ Whole(l, old)
    <3>1. SUFFICES ASSUME l.open = TRUE PROVE Calm(l) /\ Ready(l, rec.known) /\ Whole(l, old)
      OBVIOUS
    <3>2. Answered(l, 1)
      BY <1>4, <3>1, HeardOpen DEF Want
    <3>3. InSingle(rec, l)
      <4>1. InExchange(rec, l) /\ l \in LinkStates
        BY <1>4, <3>1, HeardFacts DEF Heard
      <4> QED BY <1>4, <4>1, ExchangeAt DEF Singles
    <3>4. l.reps # <<>>
      <4>1. l.reps = <<>> => Len(l.reps) = 0
        OBVIOUS
      <4>2. Len(l.reps) = 1
        BY <3>2 DEF Answered
      <4> QED BY <4>1, <4>2
    <3> QED BY <1>3, <1>4, <2>1, <3>2, <3>3, <3>4 DEF InSingle, Answered
  <2>10. ASSUME NEW l2 \in LinkStates,
               Continues(l, <<Multi>>, l2)
        PROVE  /\ LinkFits(l2) /\ InExchange(rec2, l2)
               /\ \A tx2 \in TxsOf(l2) : tx2 \in TxsOf(l) \/ tx2.keys \subseteq rec2.issued
    <3>0. /\ l.open = TRUE /\ l2.open = TRUE /\ l2.reqs = <<Multi>> /\ l2.reps = <<>>
          /\ l2.multi = l.multi /\ l2.queue = l.queue
          /\ l2.watched = l.watched /\ l2.dirty = l.dirty
      BY <2>10 DEF Continues
    <3>1. Calm(l2) /\ Ready(l2, rec2.known) /\ Whole(l2, rec2.old)
      BY <2>6, <2>9, <3>0 DEF Calm, Ready, Whole
    <3>2. StateOpened(l2)
      BY <3>0, <3>1 DEF StateOpened
    <3>3. LinkFits(l2)
      BY <3>2 DEF LinkFits
    <3>4. InExchange(rec2, l2)
      <4>1. l2.multi = FALSE /\ Len(l2.reps) = 0
        BY <3>0, <3>1 DEF Calm
      <4>2. InQueue(rec2, l2)
        BY <2>6, <3>1, <3>2, <4>1 DEF InQueue
      <4> QED BY <2>6, <4>2, ExchangeAt DEF Queueing
    <3>5. TxsOf(l2) = {}
      <4>1. ToSet(l2.queue) = {} /\ ToSet(l2.reqs) = {Multi}
        BY <3>0, <3>1 DEF Calm, ToSet
      <4> QED BY <4>1, MultiNamed DEF TxsOf
    <3> QED BY <3>3, <3>4, <3>5
  <2> QED BY <1>4, <2>3, <2>5, <2>6, <2>7, <2>8, <2>10, NextExchange DEF Knows
<1> QED
  BY <1>1, <1>4, <1>6, <1>7 DEF StateMembers

(* A part of the snapshot goes out when the one before it is queued.       *)
LEMMA QueueMoves ==
    ASSUME WireInv, NEW c, NEW rec, NEW l, Heard(c, rec, l), NEW tx, tx = StateTx(rec),
           NEW at, NEW q,
           \/ rec.at = "multi" /\ at = "queue1" /\ q = Part("image", tx)
           \/ rec.at = "queue1" /\ at = "queue2" /\ q = Part("records", tx)
           \/ rec.at = "queue2" /\ at = "exec" /\ q = Exec,
           Exchange(c, at, <<q>>, rec)
    PROVE  WireInv'
<1>1. /\ rec \in Coordinators /\ Knows(c, rec) /\ l \in LinkStates /\ rec.i # 0
      /\ Len(l.reps) = 1 /\ rec.at \in Queueing \ {"exec"} /\ at \in Queueing
      /\ rec = client[c] /\ c \in Clients
  BY HeardFacts DEF Heard, Want, Queueing
<1>2. /\ Settled(c, rec) /\ rec.flow \notin {"none", "call"} /\ rec.fresh = FALSE
      /\ rec.then = "state" /\ \A k \in ToSet(rec.apply) : InLog(k)
  <2>1. rec.fresh = FALSE
    BY <1>1, HasLink
  <2>2. Settled(c, rec) /\ rec.flow \notin {"none", "call"}
    BY <1>1 DEF Knows, Placed
  <2>3. rec.then = "state" /\ \A k \in ToSet(rec.apply) : InLog(k)
    BY <1>1 DEF Knows, Phase
  <2> QED BY <2>1, <2>2, <2>3
<1>3. /\ tx \in Txs /\ tx.base = rec.known /\ tx.keys = {} /\ tx.old = rec.old
  BY <1>1 DEF StateTx, Tx, Txs, Coordinators
<1>4. TxOK(tx)
  BY <1>2, <1>3 DEF TxOK, Settled
<1>5. q \in Requests
  BY <1>3, RequestTypes DEF Exec
<1>6. PICK rec2 : rec2 = Moved(rec, at)
  OBVIOUS
<1>7. /\ rec2.at = at /\ rec2.i = rec.i /\ rec2.flow = rec.flow /\ rec2.then = rec.then
      /\ rec2.apply = rec.apply /\ rec2.fresh = FALSE /\ rec2.known = rec.known
      /\ rec2.mine = rec.mine /\ rec2.old = rec.old /\ rec2.issued = rec.issued
      /\ Settled(c, rec2)
  <2>1. at \in Ats
    BY <1>1, PlaceNames
  <2> QED BY <1>1, <1>2, <1>6, <2>1, AtFields
<1>8. StateTx(rec2) = tx
  BY <1>7 DEF StateTx, Tx
<1>9. Placed(rec2) /\ Phase(rec2)
  BY <1>1, <1>2, <1>7 DEF Placed, Phase
<1>10. ASSUME l.open = TRUE
       PROVE  /\ Ready(l, rec.known) /\ Whole(l, rec.old) /\ l.multi = TRUE
              /\ rec.at = "multi" => l.queue = <<>>
              /\ rec.at = "queue1" => l.queue = <<Part("image", tx)>>
              /\ rec.at = "queue2" => l.queue = States(tx)
  <2>1. InExchange(rec, l)
    BY <1>10 DEF Heard
  <2>2. InQueue(rec, l)
    BY <1>1, <2>1, ExchangeAt
  <2>3. l.reps # <<>>
    <3>1. l.reps = <<>> => Len(l.reps) = 0
      OBVIOUS
    <3> QED BY <1>1, <3>1
  <2>4. Ready(l, rec.known) /\ Whole(l, rec.old)
    BY <2>2 DEF InQueue
  <2>5. CASE rec.at = "multi"
    <3>1. StateOpened(l)
      BY <2>2, <2>5 DEF InQueue
    <3>2. ~ (l.multi = FALSE)
      <4>1. l.multi = FALSE => Len(l.reps) = 0
        BY <2>2, <2>5 DEF InQueue
      <4> QED BY <1>1, <4>1
    <3>3. l.multi = TRUE /\ l.queue = <<>>
      BY <3>1, <3>2 DEF StateOpened, Calm
    <3> QED BY <2>4, <2>5, <3>3
  <2>6. CASE rec.at = "queue1"
    <3>1. l.multi = TRUE /\ l.queue = Append(<<>>, Part("image", tx))
      BY <2>2, <2>3, <2>6 DEF InQueue, Queued
    <3> QED BY <2>4, <2>6, <3>1, SingleMade
  <2>7. CASE rec.at = "queue2"
    <3>1. l.multi = TRUE /\ l.queue = Append(<<Part("image", tx)>>, Part("records", tx))
      BY <2>2, <2>3, <2>7 DEF InQueue, Queued
    <3> QED BY <2>4, <2>7, <3>1, PairMade DEF States
  <2> QED BY <2>5, <2>6, <2>7
<1>11. ASSUME NEW l2 \in LinkStates,
              Continues(l, <<q>>, l2)
       PROVE  /\ LinkFits(l2) /\ InExchange(rec2, l2)
              /\ \A tx2 \in TxsOf(l2) : tx2 \in TxsOf(l) \/ tx2.keys \subseteq rec2.issued
  <2>0. /\ l.open = TRUE /\ l2.open = TRUE /\ l2.reqs = <<q>> /\ l2.reps = <<>>
        /\ l2.multi = l.multi /\ l2.queue = l.queue
        /\ l2.watched = l.watched /\ l2.dirty = l.dirty
    BY <1>11 DEF Continues
  <2>1. /\ Ready(l2, rec.known) /\ Whole(l2, rec.old) /\ l2.multi = TRUE
        /\ rec.at = "multi" => l2.queue = <<>>
        /\ rec.at = "queue1" => l2.queue = <<Part("image", tx)>>
        /\ rec.at = "queue2" => l2.queue = States(tx)
    BY <1>10, <2>0 DEF Ready, Whole
  <2>2. StateSent(l2, tx)
    BY <2>0, <2>1 DEF StateSent
  <2>3. ToSet(l2.reqs) = {q}
    BY <2>0 DEF ToSet
  <2>4. Part("image", tx) \in ToSet(l2.queue) \cup ToSet(l2.reqs)
    <3>1. CASE rec.at = "multi"
      BY <2>3, <3>1
    <3>2. CASE rec.at = "queue1"
      <4>1. l2.queue = <<Part("image", tx)>>
        BY <2>1, <3>2
      <4>2. 1 \in DOMAIN l2.queue /\ l2.queue[1] = Part("image", tx)
        BY <4>1
      <4> QED BY <4>2 DEF ToSet
    <3>3. CASE rec.at = "queue2"
      <4>1. l2.queue = <<Part("image", tx), Part("records", tx)>>
        BY <2>1, <3>3 DEF States
      <4>2. 1 \in DOMAIN l2.queue /\ l2.queue[1] = Part("image", tx)
        BY <4>1
      <4> QED BY <4>2 DEF ToSet
    <3> QED BY <3>1, <3>2, <3>3
  <2>5. tx \in TxsOf(l2)
    BY <2>4, PartIsTx
  <2>6. LinkFits(l2)
    BY <1>3, <1>4, <2>1, <2>2, <2>5 DEF LinkFits
  <2>7. TxsOf(l2) \subseteq {tx}
    <3>1. \A r \in ToSet(l2.queue) : r \in {Part("image", tx), Part("records", tx)}
      BY <2>1 DEF States, ToSet
    <3>2. \A r \in ToSet(l2.queue) \cup ToSet(l2.reqs) :
             r \in {Part("image", tx), Part("records", tx), Exec}
      BY <2>3, <3>1
    <3>3. \A name : Part(name, tx).tx[1] = tx
      BY DEF Part
    <3>4. \A r \in ToSet(l2.queue) \cup ToSet(l2.reqs) : r.part # "" => r.tx[1] = tx
      BY <3>2, <3>3, ExecNamed
    <3> QED BY <3>4 DEF TxsOf
  <2>8. InExchange(rec2, l2)
    <3>1. CASE at = "exec"
      <4>1. InExec(rec2, l2)
        BY <1>8, <2>0, <2>1, <3>1 DEF InExec
      <4> QED BY <1>7, <3>1, <4>1, ExchangeAt
    <3>2. CASE at # "exec"
      <4>1. InQueue(rec2, l2)
        BY <1>7, <1>8, <2>0, <2>1, <3>2 DEF InQueue, Queued
      <4> QED BY <1>1, <1>7, <3>2, <4>1, ExchangeAt
    <3> QED BY <3>1, <3>2
  <2> QED BY <1>3, <2>6, <2>7, <2>8
<1>12. <<q>> \in Seq(Requests)
  BY <1>5
<1> QED
  BY <1>6, <1>7, <1>9, <1>11, <1>12, NextExchange DEF Knows

LEMMA StateMultiKeeps ==
    ASSUME WireInv, NEW c \in Clients, StateMulti(c)
    PROVE  WireInv'
<1>1. PICK rec : rec = client[c]
  OBVIOUS
<1>2. PICK l : l = link[rec.i]
  OBVIOUS
<1>3. PICK r : r = l.reps[1]
  OBVIOUS
<1>4. /\ Heard(c, rec, l) /\ rec.at = "multi" /\ Fits(rec, 1, r) /\ Answer(c, 1) = r
  <2>1. At(c, "multi")
    BY DEF StateMulti
  <2> QED BY <1>1, <1>2, <1>3, <2>1, OneHeard
<1>5. IsOk(r)
  BY <1>4 DEF Fits, Watches
<1>6. Exchange(c, "queue1", <<Part("image", StateTx(rec))>>, rec)
  <2>1. Exchange(c, QueueStep(1), <<StatePart(c, 1)>>, rec)
    BY <1>1, <1>4, <1>5 DEF StateMulti
  <2>2. QueueStep(1) = "queue1" /\ StatePart(c, 1) = Part("image", StateTx(rec))
    BY <1>1 DEF QueueStep, StatePart, StateParts, StateTx
  <2> QED BY <2>1, <2>2
<1> QED
  BY <1>4, <1>6, QueueMoves

LEMMA StateQueuedKeeps ==
    ASSUME WireInv, NEW c \in Clients, StateQueued(c)
    PROVE  WireInv'
<1>1. PICK rec : rec = client[c]
  OBVIOUS
<1>2. PICK l : l = link[rec.i]
  OBVIOUS
<1>3. PICK r : r = l.reps[1]
  OBVIOUS
<1>4. PICK n \in DOMAIN StateParts :
         /\ At(c, QueueStep(n))
         /\ IF ~IsQueued(Answer(c, 1)) THEN Fail(c)
            ELSE IF n < Len(StateParts)
            THEN Exchange(c, QueueStep(n + 1), <<StatePart(c, n + 1)>>, client[c])
            ELSE Exchange(c, "exec", <<Ask("EXEC")>>, client[c])
  BY DEF StateQueued
<1>5. n \in {1, 2} /\ Len(StateParts) = 2 /\ StateParts[1] = "image" /\ StateParts[2] = "records"
  BY <1>4 DEF StateParts
<1>6. QueueStep(1) = "queue1" /\ QueueStep(2) = "queue2"
  BY DEF QueueStep
<1>7. QueueStep(n) \in {"queue1", "queue2"}
  BY <1>5, <1>6
<1>8. /\ Heard(c, rec, l) /\ rec.at = QueueStep(n) /\ Fits(rec, 1, r) /\ Answer(c, 1) = r
  <2>1. PICK at : at = QueueStep(n)
    OBVIOUS
  <2>2. At(c, at) /\ at \notin {"idle", "revision", "watch", "state_watch", "batch"}
    BY <1>4, <1>7, <2>1
  <2>3. Heard(c, rec, l) /\ rec.at = at /\ Fits(rec, 1, r) /\ Answer(c, 1) = r
    BY <1>1, <1>2, <1>3, <2>2, OneHeard
  <2> QED BY <2>1, <2>3
<1>9. IsQueued(r)
  BY <1>7, <1>8 DEF Fits, Watches
<1>10. CASE n = 1
  <2>1. Exchange(c, "queue2", <<Part("records", StateTx(rec))>>, rec)
    <3>1. Exchange(c, QueueStep(2), <<StatePart(c, 2)>>, rec)
      BY <1>1, <1>4, <1>5, <1>8, <1>9, <1>10
    <3>2. StatePart(c, 2) = Part("records", StateTx(rec))
      BY <1>1, <1>5 DEF StatePart, StateTx
    <3> QED BY <1>6, <3>1, <3>2
  <2> QED BY <1>6, <1>8, <1>10, <2>1, QueueMoves
<1>11. CASE n = 2
  <2>1. Exchange(c, "exec", <<Exec>>, rec)
    BY <1>1, <1>4, <1>5, <1>8, <1>9, <1>11 DEF Exec
  <2> QED BY <1>6, <1>8, <1>11, <2>1, QueueMoves
<1> QED
  BY <1>5, <1>10, <1>11

LEMMA StateExecutedKeeps ==
    ASSUME WireInv, NEW c \in Clients, StateExecuted(c)
    PROVE  WireInv'
<1>1. PICK rec : rec = client[c]
  OBVIOUS
<1>2. PICK l : l = link[rec.i]
  OBVIOUS
<1>3. PICK r : r = l.reps[1]
  OBVIOUS
<1>4. /\ Heard(c, rec, l) /\ rec.at = "exec" /\ rec.i # 0 /\ Settled(c, rec) /\ Phase(rec)
      /\ rec.flow \notin {"none", "call"} /\ rec \in Coordinators
      /\ r \in Replies /\ Fits(rec, 1, r) /\ Answer(c, 1) = r
  <2>1. At(c, "exec")
    BY DEF StateExecuted
  <2> QED BY <1>1, <1>2, <1>3, <2>1, OneHeard
<1>5. \A k \in ToSet(rec.apply) : InLog(k)
  BY <1>4 DEF Phase
<1>6. CASE Fail(c)
  BY <1>1, <1>2, <1>4, <1>6, FailMoves
<1>7. CASE AskActual(c)
  BY <1>4, <1>7, UnwatchMoves
<1>8. PICK rec3 : rec3 = Published(c, r.n)
  OBVIOUS
<1>9. PICK rec4 : rec4 = [rec3 EXCEPT !.then = "none", !.old = {}]
  OBVIOUS
<1>10. CASE IsResult(r, 2) /\ (Reconcile(c, rec4) \/ Finish(c, rec4))
  <2>1. r.n \in Nat /\ r.n <= db.rev
    BY <1>4, <1>10 DEF Fits, Watches, Replies
  <2>2. /\ Settled(c, rec3) /\ rec3.i = rec.i /\ rec3.fresh = rec.fresh
        /\ rec3.flow = rec.flow /\ rec3.then = rec.then /\ rec3.apply = rec.apply
        /\ rec3.issued = rec.issued /\ rec3 \in Coordinators
    BY <1>1, <1>4, <1>8, <2>1, PublishedOK
  <2>3. /\ rec4 \in Coordinators /\ rec4.i = rec3.i /\ rec4.fresh = rec3.fresh
        /\ rec4.flow = rec3.flow /\ rec4.issued = rec3.issued /\ rec4.pending = rec3.pending
        /\ rec4.known = rec3.known /\ rec4.todo = rec3.todo /\ rec4.apply = rec3.apply
        /\ rec4.conflicts = rec3.conflicts /\ rec4.marked = rec3.marked
        /\ rec4.rejected = rec3.rejected
        /\ rec4.imageAt = rec3.imageAt /\ rec4.image = rec3.image
    BY <1>9, <2>2 DEF Coordinators
  <2>4. Settled(c, rec4)
    BY <2>2, <2>3 DEF Settled
  <2>5. \A k \in ToSet(rec4.apply) : InLog(k)
    BY <1>5, <2>2, <2>3
  <2>6. CASE Reconcile(c, rec4)
    BY <1>4, <2>2, <2>3, <2>4, <2>6, ReconcileMoves
  <2>7. CASE Finish(c, rec4)
    BY <1>4, <2>2, <2>3, <2>4, <2>5, <2>7, FinishMoves
  <2> QED BY <1>10, <2>6, <2>7
<1>11. Len(StateParts) = 2
  BY DEF StateParts
<1> QED
  BY <1>4, <1>6, <1>7, <1>8, <1>9, <1>10, <1>11 DEF StateExecuted

LEMMA OpenWithoutKeeps ==
    ASSUME WireInv, NEW c \in Clients,
           \/ OpenWithout(c)
           \/ \E k \in Keys : Call(c, k) /\ client[c].i = 0
    PROVE  WireInv'
<1>1. PICK rec : rec = client[c]
  OBVIOUS
<1>2. rec \in Coordinators /\ Settled(c, rec) /\ Placed(rec) /\ Phase(rec)
  BY <1>1 DEF WireInv, Knows
<1>3. ASSUME NEW rec2, client' = [client EXCEPT ![c] = rec2], UNCHANGED <<db, link, opened, log>>,
             rec2.i = 0, Knows(c, rec2), rec.issued \subseteq rec2.issued
      PROVE  WireInv'
  <2>1. Quiet /\ DbOK'
    BY <1>3, LogDomain, SameGrows, SameDb
  <2>2. Knows(c, rec2)'
    BY <1>3, <2>1, KnowsLasts DEF Quiet
  <2>3. \A j \in Links : LinkOK(link[j])'
    <3>1. ASSUME NEW j \in Links PROVE LinkOK(link[j])'
      <4>1. PICK l : l = link[j]
        OBVIOUS
      <4>2. LinkOK(l)
        BY <4>1 DEF WireInv
      <4>3. LinkOK(l)'
        BY <2>1, <4>2, LinkLasts
      <4> QED BY <1>3, <4>1, <4>3
    <3> QED BY <3>1
  <2>4. /\ link' \in [Links -> LinkStates] /\ opened' \in 0 .. MaxLinks
        /\ \A j \in Links : j > opened' => link'[j] = Unopened
    BY <1>3 DEF WireInv
  <2>5. \A j \in Links : \A tx \in TxsOf(link'[j]) :
           tx \in TxsOf(link[j]) \/ tx.keys \subseteq rec2.issued
    BY <1>3
  <2> QED BY <1>1, <1>3, <2>1, <2>2, <2>3, <2>4, <2>5, Moves
<1>4. CASE OpenWithout(c)
  <2>1. rec.i = 0 /\ rec.at = "idle" /\ UNCHANGED <<db, link, opened, log>>
    BY <1>1, <1>2, <1>4 DEF OpenWithout, Placed, Coordinators
  <2>2. PICK rec2 : rec2 = [rec EXCEPT !.fresh = FALSE]
    OBVIOUS
  <2>3. client' = [client EXCEPT ![c] = rec2]
    BY <1>1, <1>4, <2>2 DEF OpenWithout, WireInv
  <2>4. /\ rec2 \in Coordinators /\ rec2.i = 0 /\ rec2.at = "idle" /\ rec2.flow = rec.flow
        /\ rec2.fresh = FALSE
        /\ rec2.issued = rec.issued /\ rec2.pending = rec.pending /\ rec2.known = rec.known
        /\ rec2.todo = rec.todo /\ rec2.apply = rec.apply /\ rec2.conflicts = rec.conflicts
        /\ rec2.marked = rec.marked /\ rec2.rejected = rec.rejected
        /\ rec2.imageAt = rec.imageAt /\ rec2.image = rec.image
    BY <1>2, <2>1, <2>2 DEF Coordinators
  <2>5. Settled(c, rec2)
    BY <1>2, <2>1, <2>4 DEF Settled
  <2>6. Placed(rec2) /\ Phase(rec2)
    BY <1>2, <2>1, <2>4 DEF Placed, Phase
  <2> QED BY <1>3, <2>1, <2>3, <2>4, <2>5, <2>6 DEF Knows
<1>5. CASE \E k \in Keys : Call(c, k) /\ client[c].i = 0
  <2>1. PICK k \in Keys : Call(c, k) /\ client[c].i = 0
    BY <1>5
  <2>2. rec.i = 0 /\ rec.at = "idle" /\ IssuedBy[k] = c /\ rec.fresh = FALSE
    BY <1>1, <1>2, <2>1 DEF Call, Coordinators
  <2>3. PICK more \in Seq(Keys) : more = Append(rec.pending, k) /\ ToSet(more) = ToSet(rec.pending) \cup {k}
    BY <1>2, AppendKeys DEF Coordinators
  <2>4. PICK rec2 : rec2 = [rec EXCEPT !.issued = @ \cup {k}, !.pending = more, !.mine = @ \cup {k}]
    OBVIOUS
  <2>5. client' = [client EXCEPT ![c] = rec2] /\ UNCHANGED <<db, link, opened, log>>
    BY <1>1, <1>2, <2>1, <2>2, <2>3, <2>4 DEF Call, Coordinators
  <2>6. /\ rec2 \in Coordinators /\ rec2.i = 0 /\ rec2.at = "idle" /\ rec2.flow = rec.flow
        /\ rec2.fresh = FALSE
        /\ rec2.issued = rec.issued \cup {k} /\ rec2.pending = more /\ rec2.known = rec.known
        /\ rec2.todo = rec.todo /\ rec2.apply = rec.apply /\ rec2.conflicts = rec.conflicts
        /\ rec2.marked = rec.marked /\ rec2.rejected = rec.rejected
        /\ rec2.imageAt = rec.imageAt /\ rec2.image = rec.image
    BY <1>2, <2>2, <2>4 DEF Coordinators
  <2>7. Settled(c, rec2)
    BY <1>2, <2>2, <2>3, <2>6 DEF Settled
  <2>8. Placed(rec2) /\ Phase(rec2)
    BY <1>2, <2>2, <2>6 DEF Placed, Phase
  <2> QED BY <1>3, <2>5, <2>6, <2>7, <2>8 DEF Knows
<1> QED
  BY <1>4, <1>5

(* The first requests of a call or a tick.                                 *)
LEMMA SendMoves ==
    ASSUME WireInv, NEW c \in Clients, NEW rec, rec = client[c], rec.at = "idle", rec.i # 0,
           NEW at \in {"revision", "watch"}, NEW reqs \in Seq(Requests), NEW rec3,
           Send(c, at, reqs, rec3), rec3.i = rec.i,
           NEW rec2, rec2 = Moved(rec3, at), rec2.i = rec.i, rec2.at = at,
           Knows(c, rec2), rec.issued \subseteq rec2.issued,
           \A n \in DOMAIN reqs : Plain(reqs[n]),
           \A l2 \in LinkStates :
              Calm(l2) /\ l2.reqs = reqs /\ l2.reps = <<>> => InExchange(rec2, l2)
    PROVE  WireInv'
<1>1. PICK l : l = link[rec.i]
  OBVIOUS
<1>2. /\ rec \in Coordinators /\ rec.i \in Links /\ l \in LinkStates /\ LinkOK(l)
      /\ StreamOK(rec, l)
  BY <1>1, HasLink
<1>3. link \in [Links -> LinkStates] /\ l.open \in BOOLEAN
  BY <1>2 DEF WireInv, LinkStates
<1>4. PICK l2 : l2 = [l EXCEPT !.reqs = IF l.open THEN @ \o reqs ELSE @]
  OBVIOUS
<1>5. /\ link' = [link EXCEPT ![rec.i] = l2] /\ client' = [client EXCEPT ![c] = rec2]
      /\ UNCHANGED <<db, log, opened>>
  BY <1>1, <1>2, <1>3, <1>4 DEF Send, Moved, LinkStates
<1>6. CASE l.open = TRUE
  <2>1. Answered(l, 0)
    <3>1. InExchange(rec, l)
      BY <1>2, <1>6 DEF StreamOK
    <3> QED BY <3>1, ExchangeAt
  <2>2. l.reqs = <<>> /\ Calm(l) /\ l.reps = <<>>
    BY <1>2, <2>1, EmptySeq DEF Answered, LinkStates
  <2>3. l2 = [l EXCEPT !.reqs = reqs]
    <3>1. <<>> \o reqs = reqs
      BY ConcatEmptySeq
    <3> QED BY <1>2, <1>4, <1>6, <2>2, <3>1 DEF LinkStates
  <2>4. /\ l2 \in LinkStates /\ l2.open = TRUE /\ Calm(l2) /\ l2.reqs = reqs /\ l2.reps = <<>>
    BY <1>2, <1>6, <2>2, <2>3 DEF LinkStates, Calm
  <2>5. LinkFits(l2) /\ TxsOf(l2) = {}
    BY <2>4, PlainFits
  <2>6. InExchange(rec2, l2)
    BY <2>4
  <2>7. RepliesFit(rec2, l2)
    <3>1. Want(rec2.at) \in Nat /\ Len(l2.reps) = 0 /\ DOMAIN l2.reps = {}
      BY <2>4, WantNat
    <3> QED BY <3>1 DEF RepliesFit
  <2>8. LinkOK(l2) /\ StreamOK(rec2, l2)
    BY <2>4, <2>5, <2>6, <2>7 DEF LinkOK, StreamOK
  <2> QED BY <1>5, <2>5, <2>8, ClientMoves
<1>7. CASE l.open = FALSE
  <2>1. l2 = l
    BY <1>2, <1>4, <1>7 DEF LinkStates
  <2>2. Stale(rec2, l)
    BY <1>2, <1>7 DEF StreamOK, Stale
  <2>3. StreamOK(rec2, l2)
    BY <1>7, <2>1, <2>2 DEF StreamOK
  <2> QED BY <1>1, <1>2, <1>5, <2>1, <2>3, ClientMoves
<1> QED
  BY <1>3, <1>6, <1>7

LEMMA TickKeeps ==
    ASSUME WireInv, NEW c \in Clients, Tick(c)
    PROVE  WireInv'
<1>1. PICK rec : rec = client[c]
  OBVIOUS
<1>2. rec.at = "idle" /\ rec.i # 0
  BY <1>1 DEF Tick
<1>3. rec \in Coordinators /\ Settled(c, rec) /\ Placed(rec)
  BY <1>1 DEF WireInv, Knows
<1>4. PICK rec3 : rec3 = [rec EXCEPT !.flow = "tick"]
  OBVIOUS
<1>5. /\ rec3 \in Coordinators /\ rec3.i = rec.i /\ rec3.fresh = rec.fresh
      /\ rec3.flow = "tick" /\ rec3.conflicts = rec.conflicts
      /\ rec3.issued = rec.issued /\ rec3.pending = rec.pending /\ rec3.known = rec.known
      /\ rec3.todo = rec.todo /\ rec3.apply = rec.apply
      /\ rec3.marked = rec.marked /\ rec3.rejected = rec.rejected
      /\ rec3.imageAt = rec.imageAt /\ rec3.image = rec.image
  BY <1>3, <1>4 DEF Coordinators
<1>6. Settled(c, rec3)
  BY <1>3, <1>5 DEF Settled
<1>7. PICK rec2 : rec2 = Moved(rec3, "revision")
  OBVIOUS
<1>8. /\ rec2.at = "revision" /\ rec2.i = rec.i /\ rec2.flow = "tick" /\ rec2.fresh = rec.fresh
      /\ rec2.issued = rec.issued /\ Settled(c, rec2)
  <2>1. "revision" \in Ats
    BY PlaceNames
  <2> QED BY <1>5, <1>6, <1>7, <2>1, AtFields
<1>9. Placed(rec2) /\ Phase(rec2)
  BY <1>2, <1>3, <1>8 DEF Placed, Phase
<1>10. PICK q \in Requests : q = Ask("GETREV") /\ Plain(q)
  <2>1. Ask("GETREV") \in Requests /\ Ask("GETREV").cmd = "GETREV" /\ Ask("GETREV").part = ""
    BY RequestTypes, AskNamed DEF Commands
  <2> QED BY <2>1 DEF Plain, Commands
<1>11. Send(c, "revision", <<q>>, rec3) /\ <<q>> \in Seq(Requests)
  BY <1>1, <1>4, <1>10 DEF Tick
<1>12. \A n \in DOMAIN <<q>> : Plain(<<q>>[n])
  BY <1>10
<1>13. ASSUME NEW l2 \in LinkStates, Calm(l2), l2.reqs = <<q>>, l2.reps = <<>>
       PROVE  InExchange(rec2, l2)
  <2>1. q = Expected(rec2)
    BY <1>8, <1>10 DEF Expected
  <2>2. InSingle(rec2, l2)
    BY <1>8, <1>13, <2>1 DEF InSingle
  <2> QED BY <1>8, <2>2, ExchangeAt DEF Singles
<1> QED
  <2>1. \A l2 \in LinkStates : Calm(l2) /\ l2.reqs = <<q>> /\ l2.reps = <<>> => InExchange(rec2, l2)
    BY <1>13
  <2>2. /\ Knows(c, rec2) /\ rec2.at = "revision" /\ rec2.i = rec.i
        /\ rec3.i = rec.i /\ rec.issued \subseteq rec2.issued
    BY <1>5, <1>8, <1>9 DEF Knows
  <2>3. "revision" \in {"revision", "watch"}
    OBVIOUS
  <2>4. PICK reqs \in Seq(Requests) : reqs = <<q>>
    BY <1>11
  <2>5. Send(c, "revision", reqs, rec3) /\ \A n \in DOMAIN reqs : Plain(reqs[n])
    BY <1>11, <1>12, <2>4
  <2>6. \A l2 \in LinkStates : Calm(l2) /\ l2.reqs = reqs /\ l2.reps = <<>> => InExchange(rec2, l2)
    BY <2>1, <2>4
  <2> QED BY <1>1, <1>2, <1>7, <2>2, <2>3, <2>4, <2>5, <2>6, SendMoves

LEMMA CallKeeps ==
    ASSUME WireInv, NEW c \in Clients, NEW k \in Keys, Call(c, k), client[c].i # 0
    PROVE  WireInv'
<1>1. PICK rec : rec = client[c]
  OBVIOUS
<1>2. /\ rec.at = "idle" /\ rec.i # 0 /\ IssuedBy[k] = c /\ k \notin rec.issued
  BY <1>1 DEF Call
<1>3. rec \in Coordinators /\ Settled(c, rec) /\ Placed(rec) /\ rec.fresh = FALSE
  BY <1>1, <1>2, HasLink DEF Knows
<1>4. \A v : Unseen(k, v)
  <2>1. ~ Issued(k)
    BY <1>1, <1>2 DEF Issued
  <2>2. \A n \in DOMAIN log : k \notin log[n].keys
    BY <2>1 DEF WireInv
  <2> QED BY <2>2 DEF Unseen
<1>5. PICK more \in Seq(Keys) : more = Append(rec.pending, k) /\ ToSet(more) = ToSet(rec.pending) \cup {k}
  BY <1>3, AppendKeys DEF Coordinators
<1>6. PICK one \in Seq(Keys) : one = <<k>>
  <2>1. <<k>> \in Seq(Keys)
    OBVIOUS
  <2> QED BY <2>1
<1>7. ToSet(one) = {k} /\ one # <<>>
  BY <1>6, OneHead DEF ToSet
<1>8. PICK rec3 : rec3 = [rec EXCEPT !.issued = @ \cup {k}, !.pending = more, !.mine = @ \cup {k},
                                     !.flow = "call", !.apply = one]
  OBVIOUS
<1>9. /\ rec3 \in Coordinators /\ rec3.i = rec.i /\ rec3.fresh = rec.fresh
      /\ rec3.flow = "call" /\ rec3.conflicts = rec.conflicts
      /\ rec3.issued = rec.issued \cup {k} /\ rec3.pending = more /\ rec3.known = rec.known
      /\ rec3.todo = rec.todo /\ rec3.apply = one
      /\ rec3.marked = rec.marked /\ rec3.rejected = rec.rejected
      /\ rec3.imageAt = rec.imageAt /\ rec3.image = rec.image
  BY <1>3, <1>8 DEF Coordinators
<1>10. Settled(c, rec3)
  BY <1>2, <1>3, <1>5, <1>7, <1>9 DEF Settled
<1>11. PICK rec2 : rec2 = Moved(rec3, "watch")
  OBVIOUS
<1>12. /\ rec2.at = "watch" /\ rec2.i = rec.i /\ rec2.flow = "call" /\ rec2.fresh = FALSE
       /\ rec2.apply = one /\ rec2.issued = rec.issued \cup {k} /\ Settled(c, rec2)
  <2>1. "watch" \in Ats
    BY PlaceNames
  <2> QED BY <1>3, <1>9, <1>10, <1>11, <2>1, AtFields
<1>13. Placed(rec2)
  BY <1>2, <1>12 DEF Placed
<1>14. Phase(rec2)
  BY <1>4, <1>7, <1>12 DEF Phase
<1>15. PICK reqs : reqs = <<Ask("WATCH"), Ask("GETREV")>>
  OBVIOUS
<1>16. reqs \in Seq(Requests) /\ \A n \in DOMAIN reqs : Plain(reqs[n])
  <2>1. Ask("WATCH") \in Requests /\ Ask("GETREV") \in Requests
    BY RequestTypes DEF Commands
  <2>2. Plain(Ask("WATCH")) /\ Plain(Ask("GETREV"))
    BY AskNamed DEF Plain, Commands
  <2> QED BY <1>15, <2>1, <2>2
<1>17. Send(c, "watch", reqs, rec3)
  <2>1. rec3 = [[rec EXCEPT !.issued = @ \cup {k}, !.pending = Append(@, k), !.mine = @ \cup {k}]
                  EXCEPT !.flow = "call", !.apply = <<k>>]
    BY <1>3, <1>5, <1>6, <1>8 DEF Coordinators
  <2>2. [rec EXCEPT !.issued = @ \cup {k}, !.pending = Append(@, k), !.mine = @ \cup {k}].i # 0
    BY <1>2, <1>3 DEF Coordinators
  <2> QED BY <1>1, <1>15, <2>1, <2>2 DEF Call
<1>18. ASSUME NEW l2 \in LinkStates, Calm(l2), l2.reqs = reqs, l2.reps = <<>>
       PROVE  InExchange(rec2, l2)
  <2>1. InWatch(l2)
    BY <1>15, <1>18 DEF InWatch
  <2> QED BY <1>12, <2>1, ExchangeAt DEF Watches
<1>19. rec.issued \subseteq rec2.issued
  BY <1>12
<1> QED
  <2>1. \A l2 \in LinkStates : Calm(l2) /\ l2.reqs = reqs /\ l2.reps = <<>> => InExchange(rec2, l2)
    BY <1>18
  <2>2. Knows(c, rec2) /\ rec2.at = "watch" /\ rec2.i = rec.i /\ rec3.i = rec.i
    BY <1>9, <1>12, <1>13, <1>14 DEF Knows
  <2>3. "watch" \in {"revision", "watch"}
    OBVIOUS
  <2> QED BY <1>1, <1>2, <1>11, <1>16, <1>17, <1>19, <2>1, <2>2, <2>3, SendMoves, SMTT(20)

LEMMA ConnectKeeps ==
    ASSUME WireInv, NEW c \in Clients, Connect(c)
    PROVE  WireInv'
<1>1. PICK rec : rec = client[c]
  OBVIOUS
<1>2. /\ rec.at = "idle" /\ rec.i = 0 /\ opened < MaxLinks /\ opened' = opened + 1
      /\ UNCHANGED <<db, log>>
  BY <1>1 DEF Connect
<1>3. rec \in Coordinators /\ Settled(c, rec) /\ Placed(rec) /\ Phase(rec)
  BY <1>1 DEF WireInv, Knows
<1>4. PICK i : i = opened + 1
  OBVIOUS
<1>5. /\ i \in Links /\ i \in 0 .. MaxLinks /\ i = opened' /\ i > opened /\ i # 0
      /\ opened' \in 0 .. MaxLinks /\ opened' \in Nat /\ opened <= opened' /\ opened \in Nat
  BY <1>2, <1>4, LogDomain, WireAssumption DEF Links
<1>6. Quiet /\ DbOK'
  BY <1>2, <1>5, SameGrows, SameDb
<1>7. link[i] = Unopened /\ link \in [Links -> LinkStates]
  BY <1>5 DEF WireInv
<1>8. PICK q \in Requests : q = Ask("PING") /\ Plain(q)
  <2>1. Ask("PING") \in Requests /\ Ask("PING").cmd = "PING" /\ Ask("PING").part = ""
    BY RequestTypes, AskNamed DEF Commands
  <2> QED BY <2>1 DEF Plain, Commands
<1>9. PICK l2 : l2 = [Unopened EXCEPT !.open = TRUE, !.reqs = <<q>>]
  OBVIOUS
<1>10. link' = [link EXCEPT ![i] = l2]
  BY <1>4, <1>5, <1>7, <1>8, <1>9 DEF Connect
<1>11. /\ l2 \in LinkStates /\ l2.open = TRUE /\ Calm(l2) /\ l2.reqs = <<q>> /\ l2.reps = <<>>
  <2>1. /\ <<q>> \in Seq(Requests) /\ <<>> \in Seq(Requests) /\ <<>> \in Seq(Replies)
    BY EmptySeq
  <2> QED BY <1>9, <2>1 DEF Unopened, LinkStates, Calm
<1>12. LinkOK(l2) /\ TxsOf(l2) = {}
  <2>1. \A n \in DOMAIN l2.reqs : Plain(l2.reqs[n])
    BY <1>8, <1>11
  <2> QED BY <1>11, <2>1, PlainFits DEF LinkOK
<1>13. LinkOK(l2)'
  BY <1>6, <1>12, LinkLasts
<1>14. /\ link' \in [Links -> LinkStates]
       /\ \A j \in Links : LinkOK(link[j])'
       /\ \A j \in Links : j > opened' => link'[j] = Unopened
  <2>1. i <= opened'
    BY <1>5
  <2> QED BY <1>5, <1>6, <1>10, <1>13, <2>1, OneLink
<1>15. PICK rec2 : rec2 = [rec EXCEPT !.i = i, !.at = "ping", !.fresh = FALSE,
                                      !.flow = IF rec.fresh THEN "open" ELSE "attach",
                                      !.local = rec.pending # <<>>]
  OBVIOUS
<1>16. client' = [client EXCEPT ![c] = rec2]
  BY <1>1, <1>4, <1>15 DEF Connect, WireInv
<1>17. /\ rec2 \in Coordinators /\ rec2.i = i /\ rec2.at = "ping" /\ rec2.fresh = FALSE
       /\ rec2.flow \in {"open", "attach"}
       /\ rec2.issued = rec.issued /\ rec2.pending = rec.pending /\ rec2.known = rec.known
       /\ rec2.todo = rec.todo /\ rec2.apply = rec.apply /\ rec2.conflicts = rec.conflicts
       /\ rec2.marked = rec.marked /\ rec2.rejected = rec.rejected
       /\ rec2.imageAt = rec.imageAt /\ rec2.image = rec.image
  <2>1. "ping" \in Ats
    BY DEF Ats, Singles
  <2> QED BY <1>3, <1>5, <1>15, <2>1, ZenonT(30) DEF Coordinators
<1>18. Settled(c, rec2)'
  <2>1. Settled(c, rec)'
    BY <1>3, <1>6, SettledLasts DEF Quiet
  <2>2. rec2.i <= opened'
    BY <1>5, <1>17
  <2> QED BY <1>17, <2>1, <2>2 DEF Settled
<1>19. Placed(rec2)
  BY <1>5, <1>17 DEF Placed
<1>20. Phase(rec2)'
  <2>1. rec.apply = <<>>
    BY <1>2, <1>3 DEF Placed
  <2> QED BY <1>17, <2>1 DEF Phase
<1>21. Knows(c, rec2)'
  BY <1>18, <1>19, <1>20 DEF Knows, Placed
<1>22. \A d \in Clients : d # c /\ client[d].i # 0 =>
          client[d].i # rec2.i /\ link'[client[d].i] = link[client[d].i]
  <2>1. ASSUME NEW d \in Clients, client[d].i # 0
        PROVE  client[d].i # i /\ link'[client[d].i] = link[client[d].i]
    <3>1. PICK r \in Coordinators : r = client[d] /\ r.i <= opened
      BY DEF WireInv, Knows, Settled
    <3>2. r.i \in Links /\ r.i # i
      BY <1>5, <2>1, <3>1, WireAssumption DEF Coordinators, Links
    <3> QED BY <1>7, <1>10, <3>1, <3>2
  <2> QED BY <1>17, <2>1
<1>23. StreamOK(rec2, link[rec2.i])'
  <2>1. link'[rec2.i] = l2
    BY <1>5, <1>7, <1>10, <1>17
  <2>2. InSingle(rec2, l2)'
    <3>1. q = Expected(rec2)
      BY <1>8, <1>17 DEF Expected
    <3> QED BY <1>11, <1>17, <3>1 DEF InSingle
  <2>3. InExchange(rec2, l2)'
    BY <1>17, <2>2, ExchangeNext DEF Singles
  <2>4. RepliesFit(rec2, l2)'
    <3>1. Want(rec2.at) \in Nat /\ Len(l2.reps) = 0 /\ DOMAIN l2.reps = {}
      BY <1>11, WantNat
    <3> QED BY <3>1 DEF RepliesFit
  <2>5. StreamOK(rec2, l2)'
    BY <1>11, <2>3, <2>4 DEF StreamOK
  <2> QED BY <2>1, <2>5
<1>24. \A j \in Links : \A tx \in TxsOf(link'[j]) :
          tx \in TxsOf(link[j]) \/ tx.keys \subseteq rec2.issued
  <2>1. ASSUME NEW j \in Links, NEW tx \in TxsOf(link'[j])
        PROVE  tx \in TxsOf(link[j])
    BY <1>5, <1>7, <1>10, <1>12, <2>1
  <2> QED BY <2>1
<1>25. rec.issued \subseteq rec2.issued
  BY <1>17
<1> QED
  BY <1>1, <1>5, <1>6, <1>14, <1>16, <1>21, <1>22, <1>23, <1>24, <1>25, Moves

(* A read that fails leaves no reply behind that another exchange would    *)
(* take for its own: the adapter is dropped, or the connection is closed   *)
(* and what has come of the exchange is simple strings.                    *)
LEMMA ReadFailsKeeps ==
    ASSUME WireInv, "tick" \notin LateFlows, NEW c \in Clients, ReadFails(c)
    PROVE  WireInv'
<1>1. PICK rec : rec = client[c]
  OBVIOUS
<1>2. PICK l : l = link[rec.i]
  OBVIOUS
<1>3. rec.at # "idle" /\ UNCHANGED <<db, opened, log>>
  BY <1>1 DEF ReadFails
<1>4. rec \in Coordinators /\ Settled(c, rec) /\ Placed(rec) /\ Phase(rec) /\ rec.i # 0
  BY <1>1, <1>3 DEF WireInv, Knows, Placed
<1>5. rec.i \in Links /\ l \in LinkStates /\ LinkOK(l) /\ StreamOK(rec, l) /\ rec.fresh = FALSE
  BY <1>1, <1>2, <1>4, HasLink
<1>6. l.reps \in Seq(Replies) /\ Len(l.reps) \in Nat /\ DOMAIN l.reps = 1 .. Len(l.reps) /\ l.open \in BOOLEAN
  BY <1>5, LenProperties DEF LinkStates
<1>7. \/ l.open = FALSE /\ Len(l.reps) < Want(rec.at)
      \/ AdapterDropped(rec.flow)
  <2>1. CASE ~ link[client[c].i].open /\ Len(link[client[c].i].reps) < Want(client[c].at)
    BY <1>1, <1>2, <1>6, <2>1
  <2>2. CASE client[c].flow \in LateFlows
    <3>1. rec.flow \in LateFlows /\ rec.flow # "none"
      BY <1>1, <1>3, <1>4, <2>2 DEF Placed
    <3>2. rec.flow \in {"none", "open", "attach", "call", "tick"}
      BY <1>4 DEF Coordinators
    <3> QED BY <3>1, <3>2 DEF AdapterDropped
  <2> QED BY <2>1, <2>2 DEF ReadFails
<1>8. CASE rec.at \in {"unwatch", "actual"} /\ ~AdapterDropped(rec.flow) /\ rec.then # "state"
  <2>1. l.open = FALSE /\ Len(l.reps) = 0 /\ DOMAIN l.reps = {}
    <3>1. Want(rec.at) = 1
      BY <1>8 DEF Want
    <3> QED BY <1>6, <1>7, <1>8, <3>1
  <2>2. rec.apply # <<>> /\ rec.flow \notin {"none", "call"}
    BY <1>3, <1>4, <1>8 DEF Phase, Placed, AdapterDropped
  <2>3. PICK rec3 : rec3 = [rec EXCEPT !.todo = rec.apply]
    OBVIOUS
  <2>4. /\ rec3 \in Coordinators /\ rec3.i = rec.i /\ rec3.fresh = rec.fresh
        /\ rec3.flow = rec.flow /\ rec3.conflicts = rec.conflicts
        /\ rec3.issued = rec.issued /\ rec3.pending = rec.pending /\ rec3.known = rec.known
        /\ rec3.todo = rec.apply /\ rec3.apply = rec.apply
        /\ rec3.marked = rec.marked /\ rec3.rejected = rec.rejected
        /\ rec3.imageAt = rec.imageAt /\ rec3.image = rec.image
    BY <1>4, <2>3 DEF Coordinators
  <2>5. Settled(c, rec3)
    BY <1>4, <2>4 DEF Settled
  <2>6. PICK rec2 : rec2 = Moved(rec3, "conflict_ledger")
    OBVIOUS
  <2>7. /\ rec2.at = "conflict_ledger" /\ rec2.i = rec.i /\ rec2.flow = rec.flow
        /\ rec2.todo = rec.apply /\ rec2.apply = rec.apply /\ rec2.fresh = FALSE
        /\ rec2.issued = rec.issued /\ Settled(c, rec2)
    <3>1. "conflict_ledger" \in Ats
      BY PlaceNames
    <3> QED BY <1>5, <2>4, <2>5, <2>6, <3>1, AtFields
  <2>8. Placed(rec2) /\ Phase(rec2)
    BY <1>4, <2>2, <2>7 DEF Placed, Phase
  <2>9. client' = [client EXCEPT ![c] = rec2]
    <3>1. client' = [client EXCEPT ![c].at = "conflict_ledger", ![c].todo = rec.apply]
      BY <1>1, <1>8 DEF ReadFails
    <3>2. client' = [client EXCEPT ![c] = [rec EXCEPT !.at = "conflict_ledger", !.todo = rec.apply]]
      BY <1>1, <3>1 DEF WireInv
    <3>3. rec2 = [rec EXCEPT !.at = "conflict_ledger", !.todo = rec.apply]
      BY <1>4, <2>3, <2>6 DEF Coordinators, Moved
    <3> QED BY <3>2, <3>3
  <2>10. link' = [link EXCEPT ![rec.i] = l]
    <3>1. link' = [link EXCEPT ![rec.i].reqs = link[rec.i].reqs]
      BY <1>1, <1>2, <1>8, <2>1 DEF ReadFails
    <3>2. [l EXCEPT !.reqs = l.reqs] = l
      BY <1>5 DEF LinkStates
    <3> QED BY <1>2, <3>1, <3>2
  <2>11. StreamOK(rec2, l)
    <3>1. RepliesFit(rec2, l)
      BY <2>1, WantNat DEF RepliesFit
    <3> QED BY <2>1, <2>7, <3>1 DEF StreamOK
  <2> QED BY <1>1, <1>2, <1>3, <1>4, <1>5, <2>7, <2>8, <2>9, <2>10, <2>11, ClientMoves DEF Knows
<1>9. CASE ~ (rec.at \in {"unwatch", "actual"} /\ ~AdapterDropped(rec.flow) /\ rec.then # "state")
  <2>1. PICK arrived \in 0 .. Want(rec.at) - 1 : Dropped(c, arrived)
    BY <1>1, <1>9 DEF ReadFails
  <2>2. arrived \in Nat
    BY <2>1, WantNat
  <2>3. ASSUME l.open = FALSE, Len(l.reps) < Want(rec.at), NEW n \in DOMAIN l.reps
        PROVE  l.reps[n].t = "simple"
    <3>1. CASE Stale(rec, l)
      BY <2>3, <3>1 DEF Stale
    <3>2. CASE RepliesFit(rec, l)
      <4>1. Fits(rec, n, l.reps[n]) /\ n \in Nat /\ n >= 1 /\ n < Want(rec.at)
        BY <1>6, <2>3, <3>2, WantNat DEF RepliesFit
      <4>2. rec.at \in Watches => n = 1
        BY <4>1 DEF Watches, Want
      <4>3. rec.at = "batch" => n # 5
        BY <4>1 DEF Want, DeltaParts
      <4>4. rec.at \in Watches \cup {"batch"}
        BY <4>1 DEF Want, Watches
      <4> QED BY <4>1, <4>2, <4>3, <4>4 DEF Fits, Watches, IsOk, IsQueued
    <3> QED BY <1>5, <2>3, <3>1, <3>2 DEF StreamOK
  <2>4. ~ AdapterDropped(rec.flow) =>
           IF l.open THEN Answered(l, arrived)
           ELSE \A n \in DOMAIN l.reps : n > arrived => l.reps[n].t = "simple"
    BY <1>7, <2>3
  <2> QED BY <1>1, <1>2, <1>3, <1>4, <2>1, <2>2, <2>4, DroppedMoves
<1> QED
  BY <1>8, <1>9

-----------------------------------------------------------------------------
(* The invariant holds at the start, and every step keeps it.              *)
LEMMA WireInitially ==
    ASSUME WireInit
    PROVE  WireInv
<1>1. /\ link = [i \in Links |-> Unopened] /\ opened = 0
      /\ client = [c \in Clients |-> NewClient]
  BY DEF WireInit, Unopened
<1>2. PICK schema \in Schemas :
        /\ db = [rev |-> IF schema = 0 THEN 0 ELSE 1,
                 snap |-> [rev |-> IF schema = 0 THEN 0 ELSE 1, entities |-> {}],
                 schema |-> schema, index |-> {}, entity |-> {},
                 ledger |-> [k \in Keys |-> NoRecord], marker |-> {}]
        /\ log = IF schema = 0 THEN <<>> ELSE <<[base |-> 0, keys |-> {}, image |-> TRUE]>>
  BY DEF WireInit
<1>3. schema \in Nat
  BY WireAssumption
<1>4. PICK e \in [base : Nat, keys : SUBSET Keys, image : BOOLEAN] :
        e = [base |-> 0, keys |-> {}, image |-> TRUE]
  OBVIOUS
<1>5. /\ log \in Seq([base : Nat, keys : SUBSET Keys, image : BOOLEAN]) /\ Len(log) = db.rev
      /\ \A n \in DOMAIN log : n = 1 /\ log[n] = e
      /\ db.rev # 0 => 1 \in DOMAIN log /\ db.rev = 1
  <2>1. CASE schema = 0
    <3>1. log = <<>> /\ db.rev = 0
      BY <1>2, <2>1
    <3> QED BY <3>1, EmptySeq
  <2>2. CASE schema # 0
    <3>1. log = <<e>> /\ db.rev = 1
      BY <1>2, <1>4, <2>2
    <3>2. DOMAIN log = {1} /\ log[1] = e /\ Len(log) = 1
      BY <3>1, PieceOfOne
    <3>3. log \in Seq([base : Nat, keys : SUBSET Keys, image : BOOLEAN])
      BY <3>1
    <3> QED BY <3>1, <3>2, <3>3
  <2> QED BY <2>1, <2>2
<1>6. /\ db \in Databases /\ db.index = db.entity /\ db.marker = {}
      /\ \A k \in Keys : db.ledger[k].status = "none"
      /\ db.snap.rev = db.rev /\ db.snap.entities = {} /\ db.rev \in Nat
  BY <1>2, <1>3 DEF Databases, Records, NoRecord
<1>7. \A k : ~ InLog(k)
  BY <1>4, <1>5 DEF InLog
<1>8. db.snap # NoImage => ImageAt(db.snap.rev, db.rev)
  <2>1. SUFFICES ASSUME db.rev # 0 PROVE ImageAt(db.snap.rev, db.rev)
    BY <1>2 DEF NoImage
  <2>2. /\ db.snap.rev = 1 /\ db.rev = 1 /\ 1 \in DOMAIN log /\ log[1].image = TRUE
    BY <1>4, <1>5, <1>6, <2>1
  <2> QED BY <1>5, <2>2 DEF ImageAt
<1>9. DbOK
  <2>1. CasHolds /\ KeyAppliedOnce /\ IndexComplete
    BY <1>4, <1>5, <1>6 DEF CasHolds, KeyAppliedOnce, IndexComplete
  <2> QED BY <1>5, <1>6, <1>7, <1>8, <2>1 DEF DbOK
<1>10. Unopened \in LinkStates /\ LinkOK(Unopened) /\ TxsOf(Unopened) = {}
  <2>1. Unopened \in LinkStates /\ Calm(Unopened) /\ Unopened.reqs = <<>> /\ Unopened.queue = <<>>
    <3>1. <<>> \in Seq(Requests) /\ <<>> \in Seq(Replies)
      BY EmptySeq
    <3> QED BY <3>1 DEF Unopened, LinkStates, Calm
  <2>2. \A n \in DOMAIN Unopened.reqs : Plain(Unopened.reqs[n])
    BY <2>1
  <2> QED BY <2>1, <2>2, PlainFits DEF LinkOK
<1>11. /\ NewClient \in Coordinators
       /\ NewClient.at = "idle" /\ NewClient.flow = "none" /\ NewClient.i = 0
       /\ NewClient.known = 0 /\ NewClient.issued = {} /\ NewClient.pending = <<>>
       /\ NewClient.todo = <<>> /\ NewClient.apply = <<>> /\ NewClient.conflicts = {}
       /\ NewClient.marked = {} /\ NewClient.rejected = {} /\ NewClient.imageAt = 0
  <2>1. <<>> \in Seq(Keys) /\ NilBulk \in Replies
    BY EmptySeq DEF NilBulk, Bulk, Reply, Replies, Kinds
  <2>2. 0 \in 0 .. MaxLinks
    BY WireAssumption
  <2> QED BY <2>1, <2>2 DEF NewClient, Coordinators, Ats
<1>12. \A c \in Clients : Knows(c, NewClient)
  <2>1. ToSet(NewClient.pending) = {} /\ ToSet(NewClient.todo) = {} /\ ToSet(NewClient.apply) = {}
    BY <1>11 DEF ToSet
  <2>2. \A c \in Clients : Settled(c, NewClient)
    BY <1>1, <1>6, <1>11, <2>1 DEF Settled
  <2>3. Placed(NewClient)
    BY <1>11 DEF Placed
  <2>4. Phase(NewClient)
    BY <1>11 DEF Phase
  <2> QED BY <2>2, <2>3, <2>4 DEF Knows
<1>13. \A n \in DOMAIN log : log[n].keys = {}
  BY <1>4, <1>5
<1>14. opened \in 0 .. MaxLinks
  BY <1>1, WireAssumption
<1> QED
  BY <1>1, <1>9, <1>10, <1>11, <1>12, <1>13, <1>14 DEF WireInv

LEMMA Stutters ==
    ASSUME WireInv, UNCHANGED wireVars
    PROVE  WireInv'
<1>1. UNCHANGED <<db, link, opened, faults, client, log>>
  BY DEF wireVars
<1>2. Quiet /\ DbOK'
  BY <1>1, LogDomain, SameGrows, SameDb
<1>3. ASSUME NEW j \in Links PROVE LinkOK(link[j])'
  <2>1. PICK l : l = link[j]
    OBVIOUS
  <2>2. LinkOK(l)
    BY <2>1 DEF WireInv
  <2>3. LinkOK(l)'
    BY <1>2, <2>2, LinkLasts
  <2> QED BY <1>1, <2>1, <2>3
<1>4. ASSUME NEW c \in Clients
      PROVE  Knows(c, client[c])' /\ (client'[c].i # 0 => StreamOK(client[c], link[client[c].i])')
  <2>1. PICK rec : rec = client[c]
    OBVIOUS
  <2>2. Knows(c, rec)
    BY <2>1 DEF WireInv
  <2>3. Knows(c, rec)'
    BY <1>2, <2>2, KnowsLasts DEF Quiet
  <2>4. SUFFICES ASSUME rec.i # 0 PROVE StreamOK(rec, link[rec.i])'
    BY <1>1, <2>1, <2>3
  <2>5. PICK l : l = link[rec.i]
    OBVIOUS
  <2>6. StreamOK(rec, l) /\ l \in LinkStates
    BY <2>1, <2>4, <2>5, HasLink
  <2>7. StreamOK(rec, l)'
    BY <1>2, <2>2, <2>6, StreamLasts
  <2> QED BY <1>1, <2>5, <2>7
<1>5. /\ link' \in [Links -> LinkStates] /\ opened' \in 0 .. MaxLinks
      /\ \A i \in Links : i > opened' => link'[i] = Unopened
      /\ client' \in [Clients -> Coordinators]
      /\ \A c, d \in Clients : client'[c].i # 0 /\ client'[c].i = client'[d].i => c = d
  BY <1>1 DEF WireInv
<1>6. /\ \A n \in DOMAIN log' : \A k \in log'[n].keys : Issued(k)'
      /\ \A i \in Links : \A tx \in TxsOf(link'[i]) : \A k \in tx.keys : Issued(k)'
  BY <1>1 DEF WireInv, Issued
<1> QED
  BY <1>2, <1>3, <1>4, <1>5, <1>6 DEF WireInv

LEMMA ServerKeeps ==
    ASSUME WireInv, NEW i \in Links, ServerStep(i)
    PROVE  WireInv'
  BY ExecServed, MultiServed, WatchServed, CommandServed, QueuedServed, Broken DEF ServerStep

LEMMA ClientKeeps ==
    ASSUME WireInv, "tick" \notin LateFlows, NEW c \in Clients, ClientStep(c)
    PROVE  WireInv'
<1>1. CASE ReadState(c)
  BY <1>1, PongKeeps, ReadBeforeKeeps, ReadSnapshotKeeps, ReadAfterKeeps, AttachSchemaKeeps
     DEF ReadState
<1>2. CASE ReadEntries(c)
  BY <1>2, EntryLedgerKeeps, EntryAppliedKeeps, EntryMarkerKeeps DEF ReadEntries
<1>3. CASE PublishDeltas(c)
  BY <1>3, DeltasWatchedKeeps, DeltasExecutedKeeps DEF PublishDeltas
<1>4. CASE PublishState(c)
  BY <1>4, StateWatchedKeeps, StateMembersKeeps, StateMultiKeeps, StateQueuedKeeps,
     StateExecutedKeeps DEF PublishState
<1>5. CASE RecordConflict(c)
  BY <1>5, IgnoredKeeps, ConflictLedgerKeeps, ConflictSetKeeps DEF RecordConflict
<1>6. CASE \E k \in Keys : Call(c, k)
  BY <1>6, OpenWithoutKeeps, CallKeeps
<1>7. CASE OpenWithout(c) \/ Connect(c) \/ Tick(c) \/ TickRevision(c) \/ ReadFails(c)
  BY <1>7, OpenWithoutKeeps, ConnectKeeps, TickKeeps, TickRevisionKeeps, ReadFailsKeeps
<1> QED
  BY <1>1, <1>2, <1>3, <1>4, <1>5, <1>6, <1>7 DEF ClientStep

LEMMA WireInductive ==
    ASSUME "tick" \notin LateFlows
    PROVE  WireSpec => []WireInv
<1>1. WireInit => WireInv
  BY WireInitially
<1>2. WireInv /\ [WireNext]_wireVars => WireInv'
  BY Stutters, ServerKeeps, ClientKeeps DEF WireNext
<1> QED
  BY <1>1, <1>2, PTL DEF WireSpec

-----------------------------------------------------------------------------
(* A transaction is executed on the revision it was made for, although     *)
(* abandoned streams go on, connections break, and a reply that came late  *)
(* may be taken for another when the read timed out in a call or an        *)
(* attach: such a stream is dropped.  A tick keeps its stream; with reads  *)
(* that time out in ticks this is only model-checked, and assumed away     *)
(* here.                                                                   *)
THEOREM CasHoldsCorrect ==
    ASSUME "tick" \notin LateFlows
    PROVE  WireSpec => []CasHolds
<1>1. WireInv => CasHolds
  BY DEF WireInv, DbOK
<1> QED
  BY <1>1, WireInductive, PTL

(* An operation reaches Redis once, although the coordinator that gave up  *)
(* on its EXEC publishes it again over another connection, while the       *)
(* server may still hold the first.                                        *)
THEOREM KeyAppliedOnceCorrect ==
    ASSUME "tick" \notin LateFlows
    PROVE  WireSpec => []KeyAppliedOnce
<1>1. WireInv => KeyAppliedOnce
  BY DEF WireInv, DbOK
<1> QED
  BY <1>1, WireInductive, PTL

(* A key that a coordinator marks as committed is in a transaction of the  *)
(* history, and one that it rejects has a record in the ledger.            *)
THEOREM MarksAreTrueCorrect ==
    ASSUME "tick" \notin LateFlows
    PROVE  WireSpec => []MarksAreTrue
<1>1. WireInv => MarksAreTrue
  BY DEF WireInv, Knows, Settled, InLog, Recorded, MarksAreTrue
<1> QED
  BY <1>1, WireInductive, PTL

(* The image that a coordinator restores is the snapshot that stood at the *)
(* revision it takes the image for: two equal reads of the revision        *)
(* enclose the read of the snapshot.                                       *)
THEOREM ImageOfRevisionCorrect ==
    ASSUME "tick" \notin LateFlows
    PROVE  WireSpec => []ImageOfRevision
<1>1. WireInv => ImageOfRevision
  BY DEF WireInv, Knows, Settled, ImageAt, ImageOfRevision
<1> QED
  BY <1>1, WireInductive, PTL

(* The index of a workspace lists the entities that are stored, and no     *)
(* other, whichever of several publishers wrote them: a publisher of the   *)
(* whole state deletes what it read in the index under WATCH.              *)
THEOREM IndexCompleteCorrect ==
    ASSUME "tick" \notin LateFlows
    PROVE  WireSpec => []IndexComplete
<1>1. WireInv => IndexComplete
  BY DEF WireInv, DbOK
<1> QED
  BY <1>1, WireInductive, PTL
=============================================================================
