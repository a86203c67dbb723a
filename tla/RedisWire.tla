----------------------------- MODULE RedisWire -----------------------------
(***************************************************************************)
(* The RESP streams between coordinators and one Redis namespace.  Every   *)
(* adapter method is a series of exchanges: requests are written in one    *)
(* go and as many replies are read, in order, from the same stream.        *)
(* Nothing ties a reply to its request: after a read timeout the reply     *)
(* that comes late answers the next command, while the server goes on      *)
(* with what it was sent.  A coordinator keeps the adapter after a failed  *)
(* tick and drops it after a failed call; a dropped stream may still hold  *)
(* requests that the server executes later.                                *)
(***************************************************************************)
EXTENDS Integers, SequencesExt

CONSTANTS
    Clients,   \* coordinators, one thread at a time on the adapter of each
    Keys,      \* idempotency keys; the operation of a key adds one native entity
    IssuedBy,  \* the client that calls the operation of a key
    NoKey,     \* a request that is about no operation
    MaxLinks,  \* bound: connections opened altogether
    Schemas,   \* the native schema of the namespace at the start; 0 for an empty one
    LateFlows, \* the flows a read times out in: "open", "attach", "call", "tick"
    MaxFaults, \* bound: read timeouts and connections reset
    MaxQueue   \* bound: no tick on a connection whose open MULTI holds more

ASSUME WireAssumption ==
    /\ IssuedBy \in [Keys -> Clients]
    /\ NoKey \notin Keys
    /\ Schemas \subseteq 0 .. 2
    /\ MaxLinks \in Nat /\ MaxFaults \in Nat /\ MaxQueue \in Nat

VARIABLES
    db,      \* the keys of the namespace
    link,    \* the streams and the server's state of each connection
    opened,  \* connections opened so far
    faults,  \* read timeouts and resets so far
    client,  \* the coordinators
    log      \* history: the transactions Redis executed

wireVars == <<db, link, opened, faults, client, log>>

Links == 1 .. MaxLinks
NoImage == [rev |-> 0, entities |-> {}]
NoRecord == [status |-> "none", rev |-> 0]

-----------------------------------------------------------------------------
(* Requests.  The commands queued between MULTI and EXEC travel in parts;  *)
(* a part stands for commands whose replies are alike.                     *)
Request(cmd, key) == [cmd |-> cmd, key |-> key, part |-> "", tx |-> <<>>]
Ask(cmd) == Request(cmd, NoKey)
Part(part, tx) == [cmd |-> "QUEUE", key |-> NoKey, part |-> part, tx |-> <<tx>>]

DeltaParts == <<"head", "records", "ledger">>
StateParts == <<"image", "records">>

(* Replies, and what the readers accept as what.                           *)
Reply(t, kind, n, set, size) == [t |-> t, kind |-> kind, n |-> n, set |-> set, size |-> size]
Simple(s) == Reply("simple", s, 0, {}, 0)
ErrorReply == Reply("error", "", 0, {}, 0)
Bulk(kind, n, set) == Reply("bulk", kind, n, set, 0)
NilBulk == Bulk("nil", 0, {})

IsOk(r) == r.t = "simple" /\ r.kind = "OK"
IsQueued(r) == r.t = "simple" /\ r.kind = "QUEUED"
IsPong(r) == r.t = "simple" /\ r.kind = "PONG"
IsRevision(r) == r.t = "bulk" /\ r.kind \in {"nil", "number"}
RevisionIn(r) == IF r.kind = "nil" THEN 0 ELSE r.n
IsLedger(r) == r.t = "bulk" /\ r.kind \in {"nil", "committed", "conflict"}
IsBulk(r) == r.t = "bulk"
IsArray(r) == r.t = "array"
IsConflict(r) == r.t = "array" /\ r.kind = "nil"
IsResult(r, size) == r.t = "array" /\ r.kind = "exec" /\ r.size = size

-----------------------------------------------------------------------------
(* The server.                                                             *)

(* What a command answers outside a transaction.                           *)
AnswerTo(q) ==
    CASE q.cmd = "PING" -> Simple("PONG")
      [] q.cmd = "GETREV" -> IF db.rev = 0 THEN NilBulk ELSE Bulk("number", db.rev, {})
      [] q.cmd = "GETSNAP" -> IF db.snap = NoImage THEN NilBulk
                              ELSE Bulk("image", db.snap.rev, db.snap.entities)
      [] q.cmd = "GETSCHEMA" -> IF db.schema = 0 THEN NilBulk ELSE Bulk("number", db.schema, {})
      [] q.cmd = "GETLEDGER" -> IF db.ledger[q.key] = NoRecord THEN NilBulk
                                ELSE Bulk(db.ledger[q.key].status, db.ledger[q.key].rev, {})
      [] q.cmd = "GETMARKER" -> IF q.key \in db.marker THEN Bulk("number", 1, {}) ELSE NilBulk
      [] q.cmd = "SMEMBERS" -> Reply("array", "members", 0, db.index, 0)
      [] OTHER -> Simple("OK")

(* The effect of one queued part.                                          *)
Effect(d, q) ==
    IF q.part = "" THEN d ELSE
    LET tx == q.tx[1] IN
    CASE q.part = "head" -> [d EXCEPT !.schema = 2, !.rev = @ + 1]
      [] q.part = "image" -> [d EXCEPT !.snap = [rev |-> d.rev + 1, entities |-> tx.entities],
                                       !.rev = @ + 1, !.schema = 2,
                                       !.entity = @ \ tx.old, !.index = {}]
      [] q.part = "records" -> [d EXCEPT !.entity = @ \cup tx.entities,
                                         !.index = @ \cup tx.entities]
      [] q.part = "ledger" ->
           [d EXCEPT !.ledger = [k \in Keys |-> IF k \in tx.keys
                                   THEN [status |-> "committed", rev |-> tx.base + 1] ELSE @[k]],
                     !.marker = @ \cup tx.keys]

Apply(d, queue) ==
    LET after[n \in 0 .. Len(queue)] == IF n = 0 THEN d ELSE Effect(after[n - 1], queue[n])
    IN after[Len(queue)]

Transaction(queue) ==
    LET firsts == {q \in ToSet(queue) : q.part \in {"head", "image"}} IN
    {[base |-> q.tx[1].base, keys |-> IF q.part = "head" THEN q.tx[1].keys ELSE {},
      image |-> q.part = "image"] : q \in firsts}

Reset(l) == [l EXCEPT !.watched = FALSE, !.dirty = FALSE, !.multi = FALSE, !.queue = <<>>]
Held(i) == \E c \in Clients : client[c].i = i
Serve(i, l, reply) ==
    link' = [link EXCEPT ![i] = [l EXCEPT !.reqs = Tail(@),
                                          !.reps = IF Held(i) THEN Append(@, reply) ELSE @]]
Pending(i, cmds) == link[i].reqs # <<>> /\ Head(link[i].reqs).cmd \in cmds

-----------------------------------------------------------------------------
(* EXEC: the queue runs as one step, unless a watched key changed.  Every  *)
(* transaction writes the revision, which every WATCH of the code names.   *)
ServeExec(i) ==
    /\ Pending(i, {"EXEC"})
    /\ IF link[i].multi /\ ~link[i].dirty
       THEN LET queue == link[i].queue
                ran == Reply("array", "exec", db.rev + 1, {}, Len(queue))
                l == [Reset(link[i]) EXCEPT !.reqs = Tail(@),
                        !.reps = IF Held(i) THEN Append(@, ran) ELSE @]
            IN /\ db' = Apply(db, queue)
               /\ log' = log \o SetToSeq(Transaction(queue))
               /\ link' = [j \in Links |->
                    IF j = i THEN l
                    ELSE IF Transaction(queue) = {} THEN link[j]
                    ELSE [link[j] EXCEPT !.dirty = link[j].watched]]
       ELSE /\ Serve(i, Reset(link[i]),
                     IF link[i].multi THEN Reply("array", "nil", 0, {}, 0) ELSE ErrorReply)
            /\ UNCHANGED <<db, log>>
    /\ UNCHANGED <<opened, faults, client>>

ServeMulti(i) ==
    /\ Pending(i, {"MULTI"})
    /\ IF link[i].multi THEN Serve(i, link[i], ErrorReply)
       ELSE Serve(i, [link[i] EXCEPT !.multi = TRUE], Simple("OK"))
    /\ UNCHANGED <<db, opened, faults, client, log>>

ServeWatch(i) ==
    /\ Pending(i, {"WATCH"})
    /\ IF link[i].multi THEN Serve(i, link[i], ErrorReply)
       ELSE Serve(i, [link[i] EXCEPT !.watched = TRUE], Simple("OK"))
    /\ UNCHANGED <<db, opened, faults, client, log>>

(* Any other command outside a transaction.                                *)
ServeCommand(i) ==
    /\ link[i].reqs # <<>> /\ ~link[i].multi
    /\ LET q == Head(link[i].reqs) IN
       /\ q.cmd \notin {"EXEC", "MULTI", "WATCH"}
       /\ Serve(i, IF q.cmd = "UNWATCH" THEN Reset(link[i]) ELSE link[i],
                IF q.cmd = "QUEUE" THEN ErrorReply ELSE AnswerTo(q))
       /\ db' = IF q.cmd = "SETCONFLICT"
                THEN [db EXCEPT !.ledger[q.key] = [status |-> "conflict", rev |-> db.rev]]
                ELSE db
    /\ UNCHANGED <<opened, faults, client, log>>

(* Inside a transaction they are queued; nothing is seen of it elsewhere,  *)
(* so that as many as have arrived are queued in one step.                 *)
ServeQueued(i) ==
    /\ link[i].multi
    /\ \E n \in DOMAIN link[i].reqs :
         LET queued == SubSeq(link[i].reqs, 1, n)
             barred == {"EXEC", "MULTI", "WATCH"}
         IN /\ \A m \in 1 .. n : queued[m].cmd \notin barred
            /\ n < Len(link[i].reqs) => link[i].reqs[n + 1].cmd \in barred
            /\ link' = [link EXCEPT
                 ![i].reqs = SubSeq(@, n + 1, Len(@)), ![i].queue = @ \o queued,
                 ![i].reps = IF Held(i) THEN @ \o [m \in 1 .. n |-> Simple("QUEUED")] ELSE @]
    /\ UNCHANGED <<db, opened, faults, client, log>>

(* The connection is reset: what the server had not executed is lost.      *)
Break(i) ==
    /\ faults < MaxFaults /\ i <= opened /\ link[i].open
    /\ faults' = faults + 1
    /\ link' = [link EXCEPT ![i] = [Reset(@) EXCEPT !.open = FALSE, !.reqs = <<>>]]
    /\ UNCHANGED <<db, opened, client, log>>

-----------------------------------------------------------------------------
(* The clients.  Each step below takes the replies of one exchange, checks *)
(* them, and sends the next requests.                                      *)
NewClient ==
    [at |-> "idle", flow |-> "none", i |-> 0, fresh |-> TRUE,
     known |-> 0, mine |-> {}, issued |-> {}, pending |-> <<>>,
     local |-> FALSE, todo |-> <<>>, apply |-> <<>>, conflicts |-> {},
     marked |-> {}, rejected |-> {},
     before |-> 0, read |-> NilBulk, tries |-> 0, then |-> "none", old |-> {},
     imageAt |-> 0, image |-> 0]

(* The keys of a list that are not in the set, in their order.             *)
Without(seq, set) ==
    LET left[n \in 0 .. Len(seq)] ==
          IF n = 0 THEN <<>>
          ELSE IF seq[n] \in set THEN left[n - 1] ELSE Append(left[n - 1], seq[n])
    IN left[Len(seq)]

(* Slip: the adapter outlives a failed call.                               *)
DroppedOnAttach(flow) == flow \in {"open", "attach"}
AdapterDropped(flow) == flow \in {"open", "attach", "call"}

Want(at) == CASE at \in {"watch", "state_watch"} -> 2
              [] at = "batch" -> 2 + Len(DeltaParts)
              [] OTHER -> 1

At(c, at) == client[c].at = at /\ Len(link[client[c].i].reps) >= Want(at)
Answer(c, n) == link[client[c].i].reps[n]

(* commands: a write to a closed connection fails, a later read reports it. *)
Exchange(c, at, reqs, rec) ==
    LET i == rec.i used == Want(client[c].at) IN
    /\ client' = [client EXCEPT ![c] = [rec EXCEPT !.at = at]]
    /\ link' = [link EXCEPT ![i].reps = SubSeq(@, used + 1, Len(@)),
                            ![i].reqs = IF link[i].open THEN @ \o reqs ELSE @]
    /\ UNCHANGED <<db, opened, faults, log>>

(* The exchange that ends a call or a tick.                                *)
Idle(rec) == [rec EXCEPT !.flow = "none", !.todo = <<>>, !.apply = <<>>, !.conflicts = {},
                         !.before = 0, !.read = NilBulk, !.tries = 0, !.then = "none", !.old = {}]
End(c, rec) == Exchange(c, "idle", <<>>, Idle(rec))

(* An error: a call, an open and an attach drop the adapter and fall back  *)
(* to SQLite; a tick returns the error and the adapter stays.              *)
Dropped(c, used) ==
    LET i == client[c].i drop == AdapterDropped(client[c].flow) IN
    /\ client' = [client EXCEPT ![c] = [Idle(@) EXCEPT !.at = "idle", !.i = IF drop THEN 0 ELSE i]]
    /\ link' = [link EXCEPT ![i].reps = IF drop THEN <<>> ELSE SubSeq(@, used + 1, Len(@))]
Fail(c) == Dropped(c, Want(client[c].at)) /\ UNCHANGED <<db, opened, faults, log>>

(* from_env: a new connection; the PING comes first.                       *)
Connect(c) ==
    /\ client[c].at = "idle" /\ client[c].i = 0 /\ opened < MaxLinks
    /\ opened' = opened + 1
    /\ link' = [link EXCEPT ![opened + 1].open = TRUE, ![opened + 1].reqs = <<Ask("PING")>>]
    /\ client' = [client EXCEPT ![c].i = opened + 1, ![c].at = "ping", ![c].fresh = FALSE,
                    ![c].flow = IF client[c].fresh THEN "open" ELSE "attach",
                    ![c].local = client[c].pending # <<>>]
    /\ UNCHANGED <<db, faults, log>>

(* open while Redis cannot be reached: the watcher will attach.            *)
OpenWithout(c) ==
    /\ client[c].fresh
    /\ client' = [client EXCEPT ![c].fresh = FALSE]
    /\ UNCHANGED <<db, link, opened, faults, log>>

(* read_consistent_state: revision, snapshot, revision, twice at most.     *)
StartRead(c, rec, then) ==
    Exchange(c, "rev1", <<Ask("GETREV")>>, [rec EXCEPT !.then = then, !.tries = 0])

Pong(c) ==
    /\ At(c, "ping")
    /\ IF IsPong(Answer(c, 1)) THEN StartRead(c, client[c], "attach") ELSE Fail(c)

ReadBefore(c) ==
    /\ At(c, "rev1")
    /\ IF IsRevision(Answer(c, 1))
       THEN Exchange(c, "snapshot", <<Ask("GETSNAP")>>,
                     [client[c] EXCEPT !.before = RevisionIn(Answer(c, 1))])
       ELSE Fail(c)

ReadSnapshot(c) ==
    /\ At(c, "snapshot")
    /\ IF IsBulk(Answer(c, 1))
       THEN Exchange(c, "rev2", <<Ask("GETREV")>>, [client[c] EXCEPT !.read = Answer(c, 1)])
       ELSE Fail(c)

-----------------------------------------------------------------------------
(* reconcile_outbox: the entries one by one, then one publish for those    *)
(* that Redis does not have.                                               *)
LocallyPresent(rec) == rec.local /\ rec.apply # <<>>
StartWatch(c, at, rec) == Exchange(c, at, <<Ask("WATCH"), Ask("GETREV")>>, rec)

Finish(c, rec) ==
    LET left == Without(rec.pending, ToSet(rec.apply) \cup rec.conflicts) IN
    End(c, [rec EXCEPT !.pending = left, !.local = left # <<>>,
                       !.marked = @ \cup ToSet(rec.apply),
                       !.rejected = @ \cup rec.conflicts])

(* Slip: the entries are published without asking for their records.       *)
NextEntryUnasked(c, rec) ==
    IF rec.pending # <<>> /\ rec.apply = <<>>
    THEN StartWatch(c, "watch", [rec EXCEPT !.apply = rec.todo, !.todo = <<>>])
    ELSE Finish(c, rec)
NextEntry(c, rec) ==
    IF rec.todo # <<>>
    THEN Exchange(c, "ledger", <<Request("GETLEDGER", Head(rec.todo))>>, rec)
    ELSE IF rec.apply # <<>> THEN StartWatch(c, "watch", rec)
    ELSE Finish(c, rec)

Reconcile(c, rec) ==
    NextEntry(c, [rec EXCEPT !.todo = rec.pending, !.apply = <<>>, !.conflicts = {},
                             !.flow = IF @ = "attach" THEN "tick" ELSE @])

(* The key is taken to be committed: mark_redis_committed.                 *)
Marked(c, k) == [client[c] EXCEPT !.marked = @ \cup {k}, !.todo = Tail(@),
                                  !.pending = Without(@, {k})]

EntryLedger(c) ==
    /\ At(c, "ledger")
    /\ LET k == Head(client[c].todo) r == Answer(c, 1) IN
       IF ~IsLedger(r) THEN Fail(c)
       ELSE IF r.kind = "committed" THEN NextEntry(c, Marked(c, k))
       ELSE IF r.kind = "conflict" THEN
              NextEntry(c, [client[c] EXCEPT !.conflicts = @ \cup {k}, !.todo = Tail(@)])
       ELSE Exchange(c, "applied", <<Request("GETLEDGER", k)>>, client[c])

(* operation_applied: the ledger once more, then the marker.               *)
EntryApplied(c) ==
    /\ At(c, "applied")
    /\ LET k == Head(client[c].todo) r == Answer(c, 1) IN
       IF ~IsLedger(r) THEN Fail(c)
       ELSE IF r.kind = "committed" THEN NextEntry(c, Marked(c, k))
       ELSE Exchange(c, "marker", <<Request("GETMARKER", k)>>, client[c])

EntryMarker(c) ==
    /\ At(c, "marker")
    /\ LET k == Head(client[c].todo) r == Answer(c, 1) IN
       IF ~IsBulk(r) THEN Fail(c)
       ELSE IF r.kind # "nil" THEN NextEntry(c, Marked(c, k))
       ELSE NextEntry(c, [client[c] EXCEPT !.apply = Append(@, k), !.todo = Tail(@),
                                                    !.mine = @ \cup {k}])

-----------------------------------------------------------------------------
(* publish_native_deltas.                                                  *)
Tx(rec, keys, entities) ==
    [base |-> rec.known, keys |-> keys, entities |-> entities, old |-> rec.old]

(* Slip: the revision read is not compared with the expected one.          *)
PreflightBlind(c, going) ==
    IF IsOk(Answer(c, 1)) /\ IsRevision(Answer(c, 2)) THEN going ELSE Fail(c)
Preflight(c, going) ==
    IF ~(IsOk(Answer(c, 1)) /\ IsRevision(Answer(c, 2))) THEN Fail(c)
    ELSE IF RevisionIn(Answer(c, 2)) # client[c].known THEN
           Exchange(c, "unwatch", <<Ask("UNWATCH")>>, client[c])
    ELSE going

DeltasWatched(c) ==
    /\ At(c, "watch")
    /\ LET keys == ToSet(client[c].apply) tx == Tx(client[c], keys, keys) IN
       Preflight(c, Exchange(c, "batch",
           <<Ask("MULTI")>> \o [n \in DOMAIN DeltaParts |-> Part(DeltaParts[n], tx)] \o <<Ask("EXEC")>>,
           client[c]))

(* The revision after a conflict: an error of this read is ignored.        *)
AskActual(c) == Exchange(c, "actual", <<Ask("GETREV")>>, client[c])

Published(c, rev) == [client[c] EXCEPT !.known = rev]
CallDone(c, rec) ==
    End(c, [rec EXCEPT !.pending = Without(@, ToSet(rec.apply)),
                       !.marked = @ \cup ToSet(rec.apply)])

(* execute_batched_transaction: the EXEC was sent whatever came before it. *)
BatchRefused(c) ==
    \/ Answer(c, 1).t # "simple"
    \/ \E n \in 2 .. Want("batch") - 1 : ~IsQueued(Answer(c, n))

DeltasExecuted(c) ==
    /\ At(c, "batch")
    /\ LET last == Want("batch") r == Answer(c, last) IN
       IF BatchRefused(c) THEN Fail(c)
       ELSE IF IsConflict(r) THEN AskActual(c)
       ELSE IF IsResult(r, Len(DeltaParts)) THEN
              LET rec == Published(c, r.n) IN
              IF client[c].flow = "call" THEN CallDone(c, rec)
              ELSE IF LocallyPresent(client[c]) THEN StartWatch(c, "state_watch", rec)
              ELSE Finish(c, rec)
       ELSE Fail(c)

-----------------------------------------------------------------------------
(* Conflict: UNWATCH and the read of the revision end in it whatever they  *)
(* answer.  A call falls back; a reconciliation records the conflict of    *)
(* every entry (record_operation_conflict) and reads the state again.      *)
Conflict(c) ==
    IF AdapterDropped(client[c].flow) \/ client[c].then = "state" THEN Fail(c)
    ELSE Exchange(c, "conflict_ledger", <<Request("GETLEDGER", Head(client[c].apply))>>,
                  [client[c] EXCEPT !.todo = client[c].apply])

Ignored(c) ==
    /\ \/ At(c, "unwatch")
       \/ At(c, "actual")
    /\ Conflict(c)

NextConflict(c, rec) ==
    IF rec.todo # <<>>
    THEN Exchange(c, "conflict_ledger", <<Request("GETLEDGER", Head(rec.todo))>>, rec)
    ELSE StartRead(c, rec, "rejected")

ConflictLedger(c) ==
    /\ At(c, "conflict_ledger")
    /\ LET r == Answer(c, 1) IN
       IF ~IsLedger(r) THEN Fail(c)
       ELSE IF r.kind = "committed" THEN NextConflict(c, [client[c] EXCEPT !.todo = Tail(@)])
       ELSE Exchange(c, "conflict_set",
                              <<Request("SETCONFLICT", Head(client[c].todo))>>, client[c])

ConflictSet(c) ==
    /\ At(c, "conflict_set")
    /\ IF Answer(c, 1).t = "simple" THEN NextConflict(c, [client[c] EXCEPT !.todo = Tail(@)])
       ELSE Fail(c)

-----------------------------------------------------------------------------
(* publish_state_with_projections: every queued command is an exchange.    *)
StartState(c, rec) == StartWatch(c, "state_watch", [rec EXCEPT !.then = "state"])

StateWatched(c) ==
    /\ At(c, "state_watch")
    /\ Preflight(c, Exchange(c, "members", <<Ask("SMEMBERS")>>, [client[c] EXCEPT !.then = "state"]))

(* Slip: the old entity keys are not deleted.                              *)
StateMembersIgnored(c) ==
    /\ At(c, "members")
    /\ IF Answer(c, 1).t = "array" THEN Exchange(c, "multi", <<Ask("MULTI")>>, client[c]) ELSE Fail(c)
StateMembers(c) ==
    /\ At(c, "members")
    /\ IF Answer(c, 1).t = "array" /\ Answer(c, 1).kind # "exec"
       THEN Exchange(c, "multi", <<Ask("MULTI")>>, [client[c] EXCEPT !.old = Answer(c, 1).set])
       ELSE Fail(c)

QueueStep(n) == <<"queue1", "queue2">>[n]
StatePart(c, n) == Part(StateParts[n], Tx(client[c], {}, client[c].mine))

StateMulti(c) ==
    /\ At(c, "multi")
    /\ IF IsOk(Answer(c, 1)) THEN Exchange(c, QueueStep(1), <<StatePart(c, 1)>>, client[c])
       ELSE Fail(c)

StateQueued(c) ==
    \E n \in DOMAIN StateParts :
      /\ At(c, QueueStep(n))
      /\ IF ~IsQueued(Answer(c, 1)) THEN Fail(c)
         ELSE IF n < Len(StateParts) THEN Exchange(c, QueueStep(n + 1), <<StatePart(c, n + 1)>>, client[c])
         ELSE Exchange(c, "exec", <<Ask("EXEC")>>, client[c])

(* After the attach comes the reconciliation; after a reconciliation's     *)
(* publish, its end.                                                       *)
StateExecuted(c) ==
    /\ At(c, "exec")
    /\ LET r == Answer(c, 1) rec == [Published(c, r.n) EXCEPT !.then = "none", !.old = {}] IN
       IF IsConflict(r) THEN AskActual(c)
       ELSE IF IsResult(r, Len(StateParts)) THEN
              IF client[c].flow = "attach" \/ (client[c].flow = "open" /\ client[c].apply = <<>>)
              THEN Reconcile(c, rec) ELSE Finish(c, rec)
       ELSE Fail(c)

-----------------------------------------------------------------------------
(* The end of read_consistent_state.  A bulk that is no image fails to be  *)
(* restored; only an attach goes on without a snapshot.                    *)
Restored(c) ==
    LET r == client[c].read IN
    [client[c] EXCEPT !.known = client[c].before, !.imageAt = client[c].before, !.image = r.n,
                      !.mine = IF client[c].local /\ client[c].then = "attach" THEN @ ELSE r.set,
                      !.before = 0, !.read = NilBulk, !.tries = 0]

(* Slip: the second read of the revision is not compared with the first.   *)
ReadAfterUnchecked(c) ==
    /\ At(c, "rev2")
    /\ LET rec == client[c] IN
       IF rec.read.kind # "image" THEN Fail(c)
       ELSE IF rec.then = "attach" THEN Exchange(c, "schema", <<Ask("GETSCHEMA")>>, Restored(c))
       ELSE Reconcile(c, Restored(c))
ReadAfter(c) ==
    /\ At(c, "rev2")
    /\ LET r == Answer(c, 1) rec == client[c] IN
       IF ~IsRevision(r) THEN Fail(c)
       ELSE IF RevisionIn(r) # rec.before THEN
              IF rec.tries = 0
              THEN Exchange(c, "rev1", <<Ask("GETREV")>>, [rec EXCEPT !.tries = 1])
              ELSE Fail(c)
       ELSE IF rec.read.kind = "nil" THEN
              IF rec.then = "attach" THEN StartState(c, [rec EXCEPT !.known = 0]) ELSE Fail(c)
       ELSE IF rec.read.kind # "image" THEN Fail(c)
       ELSE IF rec.then = "attach" THEN Exchange(c, "schema", <<Ask("GETSCHEMA")>>, Restored(c))
       ELSE IF rec.then = "rejected" THEN
              LET done == [Restored(c) EXCEPT !.conflicts = @ \cup ToSet(rec.apply), !.apply = <<>>] IN
              IF LocallyPresent(rec) THEN StartState(c, done) ELSE Finish(c, done)
       ELSE Reconcile(c, Restored(c))

(* native_schema_needs_rebuild.                                            *)
AttachSchema(c) ==
    /\ At(c, "schema")
    /\ LET r == Answer(c, 1) IN
       IF ~IsBulk(r) THEN Fail(c)
       ELSE IF r.kind = "number" /\ r.n >= 2 THEN Reconcile(c, client[c])
       ELSE StartState(c, client[c])

-----------------------------------------------------------------------------
(* tick: the revision first, then the outbox.                              *)
Send(c, at, reqs, rec) ==
    /\ client' = [client EXCEPT ![c] = [rec EXCEPT !.at = at]]
    /\ link' = [link EXCEPT ![rec.i].reqs = IF link[rec.i].open THEN @ \o reqs ELSE @]
    /\ UNCHANGED <<db, opened, faults, log>>

Tick(c) ==
    /\ client[c].at = "idle" /\ client[c].i # 0
    /\ Len(link[client[c].i].queue) <= MaxQueue
    /\ Send(c, "revision", <<Ask("GETREV")>>, [client[c] EXCEPT !.flow = "tick"])

TickRevision(c) ==
    /\ At(c, "revision")
    /\ LET r == Answer(c, 1) IN
       IF ~IsRevision(r) THEN Fail(c)
       ELSE IF RevisionIn(r) # client[c].known THEN StartRead(c, client[c], "tick")
       ELSE Reconcile(c, client[c])

(* A state-changing call: logged, done in the local store, published.      *)
Call(c, k) ==
    /\ client[c].at = "idle" /\ IssuedBy[k] = c /\ k \notin client[c].issued /\ ~client[c].fresh
    /\ LET rec == [client[c] EXCEPT !.issued = @ \cup {k}, !.pending = Append(@, k),
                                    !.mine = @ \cup {k}] IN
       IF rec.i = 0
       THEN /\ client' = [client EXCEPT ![c] = rec]
            /\ UNCHANGED <<db, link, opened, faults, log>>
       ELSE Send(c, "watch", <<Ask("WATCH"), Ask("GETREV")>>,
                 [rec EXCEPT !.flow = "call", !.apply = <<k>>])

(* A read fails: the connection is closed, or two seconds have passed and  *)
(* some of the replies, sent or not, have not arrived.                     *)
ReadFails(c) ==
    /\ client[c].at # "idle"
    /\ LET i == client[c].i rec == client[c] IN
       /\ \/ ~link[i].open /\ Len(link[i].reps) < Want(rec.at) /\ UNCHANGED faults
          \/ /\ link[i].open /\ rec.flow \in LateFlows
             /\ faults < MaxFaults /\ faults' = faults + 1
       /\ IF rec.at \in {"unwatch", "actual"} /\ ~AdapterDropped(rec.flow) /\ rec.then # "state"
          THEN /\ client' = [client EXCEPT ![c].at = "conflict_ledger", ![c].todo = rec.apply]
               /\ link' = [link EXCEPT ![i].reqs =
                    IF link[i].open THEN Append(@, Request("GETLEDGER", Head(rec.apply))) ELSE @]
          ELSE \E arrived \in 0 .. Want(rec.at) - 1 :
                 /\ arrived <= Len(link[i].reps)
                 /\ AdapterDropped(rec.flow) => arrived = 0
                 /\ Dropped(c, arrived)
    /\ UNCHANGED <<db, opened, log>>

-----------------------------------------------------------------------------
WireInit ==
    /\ \E schema \in Schemas :
         /\ db = [rev |-> IF schema = 0 THEN 0 ELSE 1,
                  snap |-> [rev |-> IF schema = 0 THEN 0 ELSE 1, entities |-> {}],
                  schema |-> schema, index |-> {}, entity |-> {},
                  ledger |-> [k \in Keys |-> NoRecord], marker |-> {}]
         /\ log = IF schema = 0 THEN <<>> ELSE <<[base |-> 0, keys |-> {}, image |-> TRUE]>>
    /\ link = [i \in Links |->
          [open |-> FALSE, reqs |-> <<>>, reps |-> <<>>,
           watched |-> FALSE, dirty |-> FALSE, multi |-> FALSE, queue |-> <<>>]]
    /\ opened = 0 /\ faults = 0
    /\ client = [c \in Clients |-> NewClient]

ServerStep(i) == ServeExec(i) \/ ServeMulti(i) \/ ServeWatch(i) \/ ServeCommand(i) \/ ServeQueued(i) \/ Break(i)

ReadState(c) == Pong(c) \/ ReadBefore(c) \/ ReadSnapshot(c) \/ ReadAfter(c) \/ AttachSchema(c)
ReadEntries(c) == EntryLedger(c) \/ EntryApplied(c) \/ EntryMarker(c)
PublishDeltas(c) == DeltasWatched(c) \/ DeltasExecuted(c)
PublishState(c) ==
    StateWatched(c) \/ StateMembers(c) \/ StateMulti(c) \/ StateQueued(c) \/ StateExecuted(c)
RecordConflict(c) == Ignored(c) \/ ConflictLedger(c) \/ ConflictSet(c)

ClientStep(c) ==
    \/ OpenWithout(c) \/ Connect(c) \/ Tick(c) \/ TickRevision(c) \/ ReadFails(c)
    \/ \E k \in Keys : Call(c, k)
    \/ ReadState(c) \/ ReadEntries(c) \/ PublishDeltas(c) \/ PublishState(c) \/ RecordConflict(c)

WireNext == (\E i \in Links : ServerStep(i)) \/ (\E c \in Clients : ClientStep(c))
WireSpec == WireInit /\ [][WireNext]_wireVars

-----------------------------------------------------------------------------
(* "Redis WATCH/MULTI/EXEC makes the check and write atomic with respect   *)
(* to other coordinators": a transaction is executed on the revision it    *)
(* was made for, whatever late replies and abandoned requests there are.   *)
CasHolds == \A n \in DOMAIN log : log[n].base = n - 1

(* An operation reaches Redis once, although the process that gave up on   *)
(* its EXEC publishes it again over another connection.                    *)
KeyAppliedOnce == \A m, n \in DOMAIN log : m # n => log[m].keys \cap log[n].keys = {}

(* A key is marked as committed, or rejected, only on a record of its own. *)
MarksAreTrue ==
    \A c \in Clients :
      /\ \A k \in client[c].marked : \E n \in DOMAIN log : k \in log[n].keys
      /\ \A k \in client[c].rejected : db.ledger[k] # NoRecord

(* The image a process restores is the snapshot that stood at the revision *)
(* it takes the image for.                                                 *)
ImageOfRevision ==
    \A c \in Clients :
      LET images == {n \in DOMAIN log : log[n].image /\ n <= client[c].imageAt} IN
      client[c].imageAt # 0 =>
        /\ client[c].image \in images
        /\ \A n \in images : n <= client[c].image

(* Every entity key is in the index of its workspace and the other way     *)
(* round, whatever wrote them.                                             *)
IndexComplete == db.index = db.entity
=============================================================================
