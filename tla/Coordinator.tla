---------------------------- MODULE Coordinator ----------------------------
(***************************************************************************)
(* BackendCoordinator: server processes (nodes) that share one Redis       *)
(* namespace.  Each keeps a SQLite standby file and an outbox file, and    *)
(* while attached an in-memory active store.  The mutex around             *)
(* CoordinatorInner makes a node do one thing at a time (a tool call or a  *)
(* watcher tick), so a node has one program counter; Redis commands of     *)
(* other nodes, a connection loss or a crash fall between any two steps.   *)
(***************************************************************************)
EXTENDS StoreImage, Outbox

CONSTANTS
    Nodes,           \* coordinator processes
    MaxReplayBatch,  \* MAX_REPLAY_BATCH
    CheckpointEvery, \* SNAPSHOT_CHECKPOINT_OPERATIONS
    MaxCalls,        \* bound: identical calls per node
    MaxIssuers,      \* bound: node and call pairs used, so that two nodes fit
    Faults,          \* the kinds of fault that may happen
    MaxFaults        \* bound: how many faults happen

FaultKinds == {"crash", "disconnect", "lost_reply", "outage", "projection",
               "file_write", "log_full", "audit_full"}

ASSUME CoordinatorAssumption ==
    /\ OutboxKeys = Keys
    /\ MaxReplayBatch \in Nat \ {0}
    /\ CheckpointEvery \in Nat \ {0}
    /\ MaxCalls \in Nat /\ MaxIssuers \in Nat
    /\ Faults \subseteq FaultKinds
    /\ MaxFaults \in Nat

VARIABLES
    (* Redis *)
    redisUp,   \* the server answers
    revision,  \* state:revision, 0 while the namespace is empty
    snapshot,  \* state:snapshot, meaningful once revision > 0
    schema,    \* the native schema marker is current
    native,    \* the native entity records
    ledger,    \* operation ledger status of every key
    (* files of each node *)
    standby,   \* the SQLite image
    outbox,    \* pending entries
    rejected,  \* keys the reconciliation audit records as rejected
    full,      \* which of "log" and "audit" has reached its size limit
    (* memory of each node *)
    mem,       \* the fields of CoordinatorInner
    pc,        \* what the node holding its mutex is about to do
    work,      \* locals of the running handler
    (* history *)
    issued,    \* calls made, per node and key
    acked,     \* calls answered with success, per node and key
    shadowed,  \* keys acknowledged on SQLite when Redis had an identical call
    published, \* keys some EXEC has put in the ledger as committed
    faults     \* faults so far

redisVars == <<redisUp, revision, snapshot, schema, native, ledger, published>>
fileVars == <<standby, outbox, rejected, full>>
callVars == <<issued, acked, shadowed>>
vars == <<redisVars, fileVars, mem, pc, work, callVars, faults>>

(* link: none when self.redis is None (mode Sqlite), dead when the adapter *)
(* is held but its TCP stream is broken.                                   *)
Memory == [link : {"none", "open", "dead"}, active : Images, cache : Images,
           revision : Nat, snapshotRevision : Nat,
           usesLocal : BOOLEAN, replayCommitted : BOOLEAN]

Detached == [link |-> "none", active |-> EmptyImage, cache |-> EmptyImage,
             revision |-> 0, snapshotRevision |-> 0,
             usesLocal |-> FALSE, replayCommitted |-> FALSE]

Labels == {"down", "opening", "idle", "execute", "publish", "mark", "abort",
           "replay", "mirror", "scan", "record", "record_set", "send", "conflict",
           "checkpoint", "finish", "due"}

Work == [key : Keys \cup {NoWorkspace}, todo : SUBSET Keys, done : SUBSET Keys,
         applied : SUBSET Keys, local : SUBSET Keys, refused : SUBSET Keys,
         via : {"open", "reconnect", "tick"}, second : BOOLEAN,
         resume : {"scan", "conflict"}]

NoWork == [key |-> NoWorkspace, todo |-> {}, done |-> {}, applied |-> {},
           local |-> {}, refused |-> {}, via |-> "tick", second |-> FALSE,
           resume |-> "scan"]

(* The new namespace is empty, or holds a snapshot written before the      *)
(* native records existed.                                                 *)
Init ==
    /\ redisUp \in BOOLEAN
    /\ revision \in {0, 1}
    /\ snapshot = EmptyImage
    /\ schema = FALSE
    /\ native = EmptyImage
    /\ ledger = [k \in Keys |-> "none"]
    /\ standby = [n \in Nodes |-> EmptyImage]
    /\ outbox = [n \in Nodes |-> <<>>]
    /\ rejected = [n \in Nodes |-> {}]
    /\ full = [n \in Nodes |-> {}]
    /\ mem = [n \in Nodes |-> Detached]
    /\ pc = [n \in Nodes |-> "opening"]
    /\ work = [n \in Nodes |-> [NoWork EXCEPT !.via = "open"]]
    /\ issued = [n \in Nodes |-> [k \in Keys |-> 0]]
    /\ acked = [n \in Nodes |-> [k \in Keys |-> 0]]
    /\ shadowed = [n \in Nodes |-> {}]
    /\ published = {}
    /\ faults = 0

-----------------------------------------------------------------------------
(* Pieces the handlers share.                                              *)

Fault(kind) == kind \in Faults /\ faults < MaxFaults /\ faults' = faults + 1
NoFault == UNCHANGED faults

Goto(n, label) == pc' = [pc EXCEPT ![n] = label]
SetWork(n, w) == work' = [work EXCEPT ![n] = w]
SetMem(n, m) == mem' = [mem EXCEPT ![n] = m]
SetStandby(n, image) == standby' = [standby EXCEPT ![n] = image]
SetOutbox(n, q) == outbox' = [outbox EXCEPT ![n] = q]

(* A line is refused for as long as its file is full, or its write fails.  *)
Room(n, file) == file \notin full[n]
LineFails(n, file) == (~Room(n, file) /\ NoFault) \/ Fault("file_write")

(* Compaction to nothing empties the log; to some entries, it may not help.*)
Compact(n) ==
    \E fits \in {outbox'[n] = <<>>, TRUE} :
        full' = [full EXCEPT ![n] = IF fits THEN @ \ {"log"} ELSE @]

Reachable(n) == redisUp /\ mem[n].link = "open"

(* active_store(): the active copy while attached, else the SQLite file.   *)
Served(n) == IF mem[n].link = "none" THEN standby[n] ELSE mem[n].active

Uncommitted(q) == \E i \in DOMAIN q : ~q[i].committed

(* Slip: the active copy is dropped, not written to the file.              *)
FallbackWithoutImage(n) ==
    /\ SetMem(n, [mem[n] EXCEPT !.link = "none", !.active = EmptyImage])
    /\ UNCHANGED standby

(* enter_sqlite_fallback: the active copy becomes the SQLite image.        *)
EnterSqliteFallback(n) ==
    /\ SetStandby(n, Served(n))
    /\ SetMem(n, [mem[n] EXCEPT !.link = "none", !.active = EmptyImage])

(* publish_state_with_projections, once WATCH saw the expected revision.   *)
PublishImage(image) ==
    /\ revision' = revision + 1
    /\ snapshot' = image
    /\ schema' = TRUE
    /\ native' = Overlay(native, image, KnownWorkspaces(image))
    /\ UNCHANGED <<redisUp, ledger, published>>

(* publish_native_deltas: records, ledger and revision in one EXEC; the    *)
(* snapshot stays as it is.                                                *)
PublishDeltas(n, S) ==
    /\ revision' = revision + 1
    /\ schema' = TRUE
    /\ native' = ApplyDelta(native, mem[n].cache, mem[n].active, TouchedWorkspaces(S))
    /\ ledger' = [k \in Keys |-> IF k \in S THEN "committed" ELSE ledger[k]]
    /\ published' = published \cup S
    /\ UNCHANGED <<redisUp, snapshot>>

(* A slip: the cache is not refreshed.                                     *)
AfterDeltasCacheKept(n, S) == [mem[n] EXCEPT !.revision = @ + 1]

(* apply_native_cache, and the revision EXEC answered.                     *)
AfterDeltas(n, S) ==
    [mem[n] EXCEPT !.revision = @ + 1,
                   !.cache = Overlay(@, mem[n].active, TouchedWorkspaces(S))]

AfterImage(n) ==
    [mem[n] EXCEPT !.revision = @ + 1, !.snapshotRevision = mem[n].revision + 1,
                   !.cache = Project(mem[n].active, KnownWorkspaces(mem[n].active))]

(* sync_from_redis: the snapshot replaces both local copies.               *)
SyncFromRedis(n) ==
    /\ SetStandby(n, snapshot)
    /\ SetMem(n, [mem[n] EXCEPT !.active = snapshot,
                                !.cache = Project(snapshot, KnownWorkspaces(snapshot)),
                                !.revision = revision, !.snapshotRevision = revision])

(* The entries one pass of the reconciliation handles.                     *)
CommittedBatch(n) == FirstBatch(outbox[n], TRUE, MaxReplayBatch)
UncommittedBatch(n) == FirstBatch(outbox[n], FALSE, MaxReplayBatch)

(* reconcile_outbox starts with the replay attach_redis asked for.         *)
StartReplay(n, via, replay) ==
    /\ Goto(n, "replay")
    /\ SetWork(n, [NoWork EXCEPT !.via = via, !.todo = IF replay THEN CommittedBatch(n) ELSE {}])

(* An error out of reconcile_outbox: open() falls back to SQLite, the      *)
(* watcher counts the error and keeps the connection.                      *)
Abandon(n) ==
    /\ Goto(n, "idle")
    /\ SetWork(n, NoWork)
    /\ IF work[n].via = "open" THEN EnterSqliteFallback(n) ELSE UNCHANGED <<standby, mem>>

-----------------------------------------------------------------------------
(* execute_tool for a state-changing call.                                 *)

(* The entry is logged before the operation runs.                          *)
BeginCall(n, k) ==
    /\ pc[n] = "idle"
    /\ issued[n][k] < MaxCalls
    /\ Cardinality({p \in Nodes \X Keys : issued[p[1]][p[2]] > 0} \cup {<<n, k>>}) <= MaxIssuers
    /\ issued' = [issued EXCEPT ![n][k] = @ + 1]
    /\ HasKey(outbox[n], k) \/ Room(n, "log")
    /\ SetOutbox(n, AppendPending(outbox[n], k))
    /\ Goto(n, "execute")
    /\ SetWork(n, [NoWork EXCEPT !.key = k])
    /\ NoFault
    /\ UNCHANGED <<redisVars, standby, rejected, full, mem, acked, shadowed>>

Acknowledge(n, k) ==
    /\ acked' = [acked EXCEPT ![n][k] = @ + 1]
    /\ UNCHANGED <<issued, shadowed>>

(* The ledger may have the key already, from an identical call: then this  *)
(* one is taken for it and never published, whether it shares the entry of *)
(* the first or has one of its own.                                        *)
AcknowledgeDegraded(n, k) ==
    /\ acked' = [acked EXCEPT ![n][k] = @ + 1]
    /\ shadowed' = [shadowed EXCEPT ![n] = IF k \in published THEN @ \cup {k} ELSE @]
    /\ UNCHANGED issued

(* In SQLite mode the call is finished; in Redis mode it must be published.*)
ExecuteAccepted(n) ==
    /\ pc[n] = "execute"
    /\ LET k == work[n].key IN
         /\ Accepts(Served(n), k)
         /\ IF mem[n].link = "none"
            THEN /\ SetStandby(n, Apply(standby[n], k))
                 /\ AcknowledgeDegraded(n, k)
                 /\ Goto(n, "idle")
                 /\ SetWork(n, NoWork)
                 /\ UNCHANGED mem
            ELSE /\ SetMem(n, [mem[n] EXCEPT !.active = Apply(@, k)])
                 /\ Goto(n, "publish")
                 /\ UNCHANGED <<standby, work, callVars>>
    /\ NoFault
    /\ UNCHANGED <<redisVars, outbox, rejected, full>>

ExecuteRefused(n) ==
    /\ pc[n] = "execute"
    /\ ~Accepts(Served(n), work[n].key)
    /\ Goto(n, "abort")
    /\ NoFault
    /\ UNCHANGED <<redisVars, fileVars, mem, work, callVars>>

(* The error path removes the entry and compacts the log.                  *)
AbortCall(n) ==
    /\ pc[n] = "abort"
    /\ \/ /\ Room(n, "log")
          /\ SetOutbox(n, Complete(outbox[n], work[n].key))
          /\ Compact(n)
          /\ NoFault
       \/ LineFails(n, "log") /\ UNCHANGED <<outbox, full>>
    /\ Goto(n, "idle")
    /\ SetWork(n, NoWork)
    /\ UNCHANGED <<redisVars, standby, rejected, mem, callVars>>

CallPublished(n) ==
    /\ pc[n] = "publish"
    /\ Reachable(n)
    /\ mem[n].revision = revision
    /\ PublishDeltas(n, {work[n].key})
    /\ SetMem(n, AfterDeltas(n, {work[n].key}))
    /\ Goto(n, "mark")
    /\ NoFault
    /\ UNCHANGED <<fileVars, work, callVars>>

(* The connection fails before EXEC is executed, the projection is over a  *)
(* size limit, or the answer of EXEC is lost: whichever it is, the         *)
(* coordinator falls back and reports success.                             *)
CallUnpublished(n) ==
    /\ pc[n] = "publish"
    /\ \/ ~Reachable(n) /\ NoFault /\ UNCHANGED redisVars
       \/ Fault("projection") /\ UNCHANGED redisVars
       \/ /\ Reachable(n) /\ mem[n].revision = revision
          /\ Fault("lost_reply")
          /\ PublishDeltas(n, {work[n].key})
    /\ EnterSqliteFallback(n)
    /\ AcknowledgeDegraded(n, work[n].key)
    /\ Goto(n, "idle")
    /\ SetWork(n, NoWork)
    /\ UNCHANGED <<outbox, rejected, full>>

(* Another node published meanwhile: the caller gets an error, the entry   *)
(* stays queued.                                                           *)
CallConflict(n) ==
    /\ pc[n] = "publish"
    /\ Reachable(n)
    /\ mem[n].revision # revision
    /\ EnterSqliteFallback(n)
    /\ Goto(n, "idle")
    /\ SetWork(n, NoWork)
    /\ NoFault
    /\ UNCHANGED <<redisVars, outbox, rejected, full, callVars>>

MarkCall(n) ==
    /\ pc[n] = "mark"
    /\ \/ /\ Room(n, "log")
          /\ SetOutbox(n, MarkCommitted(outbox[n], work[n].key))
          /\ Acknowledge(n, work[n].key)
          /\ NoFault
       \/ LineFails(n, "log") /\ UNCHANGED <<outbox, callVars>>
    /\ Goto(n, "idle")
    /\ SetWork(n, NoWork)
    /\ UNCHANGED <<redisVars, standby, rejected, full, mem>>

-----------------------------------------------------------------------------
(* attach_redis, from open() or from a tick without a connection.          *)

Recovering(n) == Uncommitted(outbox[n])

(* Slip: what is queued does not make the local image win.                 *)
AttachSnapshot(n) == IF revision = 0 THEN standby[n] ELSE snapshot

AttachImage(n) ==
    IF Recovering(n) \/ revision = 0 THEN standby[n] ELSE snapshot

Rebuilds == revision = 0 \/ ~schema

AttachPoint(n) == pc[n] \in {"idle", "opening"} /\ mem[n].link = "none"

(* The revision check of a publish sees no other node's EXEC in between,   *)
(* so reading and publishing are one step; a lost race is AttachFails.     *)
Attach(n) ==
    /\ AttachPoint(n)
    /\ redisUp
    /\ LET image == AttachImage(n)
           known == KnownWorkspaces(image)
       IN
         /\ IF Rebuilds THEN PublishImage(image) ELSE UNCHANGED redisVars
         /\ SetStandby(n, image)
         /\ SetMem(n, [link |-> "open", active |-> image,
                       cache |-> IF Recovering(n) /\ ~Rebuilds
                                 THEN Project(native, known) ELSE Project(image, known),
                       revision |-> revision', snapshotRevision |-> revision',
                       usesLocal |-> Recovering(n),
                       replayCommitted |-> ~Recovering(n) /\ outbox[n] # <<>>])
         /\ StartReplay(n, IF pc[n] = "opening" THEN "open" ELSE "reconnect",
                        mem'[n].replayCommitted)
    /\ NoFault
    /\ UNCHANGED <<outbox, rejected, full, callVars>>

(* The connection breaks during attach: the standby may already hold the   *)
(* snapshot, a rebuild may already be published.                           *)
AttachFails(n) ==
    /\ AttachPoint(n)
    /\ redisUp
    /\ \/ /\ Fault("disconnect")
          /\ ~Recovering(n) /\ revision > 0
          /\ SetStandby(n, snapshot)
          /\ UNCHANGED redisVars
       \/ /\ Fault("lost_reply")
          /\ Rebuilds
          /\ PublishImage(AttachImage(n))
          /\ SetStandby(n, AttachImage(n))
    /\ Goto(n, "idle")
    /\ SetWork(n, NoWork)
    /\ UNCHANGED <<outbox, rejected, full, mem, callVars>>

OpenUnreachable(n) ==
    /\ pc[n] = "opening"
    /\ ~redisUp
    /\ Goto(n, "idle")
    /\ SetWork(n, NoWork)
    /\ NoFault
    /\ UNCHANGED <<redisVars, fileVars, mem, callVars>>

(* tick with a connection.                                                 *)
Tick(n) ==
    /\ pc[n] = "idle"
    /\ Reachable(n)
    /\ IF revision # mem[n].revision THEN SyncFromRedis(n) ELSE UNCHANGED <<standby, mem>>
    /\ StartReplay(n, "tick", mem[n].replayCommitted)
    /\ NoFault
    /\ UNCHANGED <<redisVars, outbox, rejected, full, callVars>>

(* The revision GET of a tick fails.  The tick returns the error and keeps *)
(* the adapter: the next one tries the same stream.                        *)
TickFails(n) ==
    /\ pc[n] = "idle"
    /\ mem[n].link # "none"
    /\ ~Reachable(n)
    /\ UNCHANGED vars

-----------------------------------------------------------------------------
(* reconcile_outbox.                                                       *)

StartMirror(n) ==
    /\ Goto(n, "mirror")
    /\ SetWork(n, [work[n] EXCEPT !.todo = CommittedBatch(n), !.done = {}])

(* replay_committed_into_active.                                           *)
ReplayEntry(n) ==
    /\ pc[n] = "replay"
    /\ \E k \in work[n].todo :
         /\ IsFirst(outbox[n], work[n].todo, k)
         /\ IF Accepts(mem[n].active, k)
            THEN /\ SetMem(n, [mem[n] EXCEPT !.active = Apply(@, k)])
                 /\ SetWork(n, [work[n] EXCEPT !.todo = @ \ {k}])
                 /\ UNCHANGED <<standby, pc>>
            ELSE Abandon(n)
    /\ NoFault
    /\ UNCHANGED <<redisVars, outbox, rejected, full, callVars>>

ReplayDone(n) ==
    /\ pc[n] = "replay"
    /\ work[n].todo = {}
    /\ StartMirror(n)
    /\ NoFault
    /\ UNCHANGED <<redisVars, fileVars, mem, callVars>>

(* mirror_committed_outbox: every entry of the batch is replayed into the  *)
(* SQLite file before the first one is removed.                            *)
MirrorEntry(n) ==
    /\ pc[n] = "mirror"
    /\ \E k \in work[n].todo :
         /\ IsFirst(outbox[n], work[n].todo, k)
         /\ IF Accepts(standby[n], k) \/ k \in Tolerated
            THEN /\ SetStandby(n, IF Accepts(standby[n], k)
                                  THEN Apply(standby[n], k) ELSE standby[n])
                 /\ SetWork(n, [work[n] EXCEPT !.todo = @ \ {k}, !.done = @ \cup {k}])
                 /\ UNCHANGED <<mem, pc>>
            ELSE Abandon(n)
    /\ NoFault
    /\ UNCHANGED <<redisVars, outbox, rejected, full, callVars>>

MirrorComplete(n) ==
    /\ pc[n] = "mirror"
    /\ work[n].todo = {}
    /\ Room(n, "log")
    /\ \E k \in work[n].done :
         /\ IsFirst(outbox[n], work[n].done, k)
         /\ SetOutbox(n, Complete(outbox[n], k))
         /\ SetWork(n, [work[n] EXCEPT !.done = @ \ {k}])
    /\ NoFault
    /\ UNCHANGED <<redisVars, standby, rejected, full, mem, pc, callVars>>

(* The end of a reconciliation; a tick may then owe a checkpoint.          *)
Reconciled(n) ==
    /\ SetMem(n, [mem[n] EXCEPT !.usesLocal = Uncommitted(outbox[n]),
                                !.replayCommitted = ~Uncommitted(outbox[n]) /\ outbox[n] # <<>>])
    /\ IF /\ work[n].via = "tick"
          /\ mem[n].revision - mem[n].snapshotRevision >= CheckpointEvery
       THEN Goto(n, "due") /\ UNCHANGED work
       ELSE Goto(n, "idle") /\ SetWork(n, NoWork)

MirrorDone(n) ==
    /\ pc[n] = "mirror"
    /\ work[n].todo = {} /\ work[n].done = {}
    /\ IF work[n].second \/ outbox[n] = <<>>
       THEN Reconciled(n)
       ELSE /\ Goto(n, "scan")
            /\ SetWork(n, [work[n] EXCEPT !.todo = UncommittedBatch(n)])
            /\ UNCHANGED mem
    /\ UNCHANGED <<redisVars, standby, outbox, rejected, callVars>>
    /\ Compact(n)
    /\ NoFault

(* One uncommitted entry: what the ledger says decides.                    *)
ScanEntry(n) ==
    /\ pc[n] = "scan"
    /\ Reachable(n)
    /\ \E k \in work[n].todo :
         /\ IsFirst(outbox[n], work[n].todo, k)
         /\ LET rest == [work[n] EXCEPT !.todo = @ \ {k}] IN
            \/ /\ ledger[k] = "committed"
               /\ Room(n, "audit") /\ Room(n, "log")
               /\ SetOutbox(n, MarkCommitted(outbox[n], k))
               /\ SetWork(n, rest)
               /\ UNCHANGED <<mem, pc>>
            \/ /\ ledger[k] = "conflict"
               /\ SetWork(n, [rest EXCEPT !.refused = @ \cup {k}])
               /\ UNCHANGED <<mem, pc, outbox>>
            \/ /\ ledger[k] = "none" /\ mem[n].usesLocal
               /\ SetWork(n, [rest EXCEPT !.applied = @ \cup {k}, !.local = @ \cup {k}])
               /\ UNCHANGED <<mem, pc, outbox>>
            \/ /\ ledger[k] = "none" /\ ~mem[n].usesLocal
               /\ Accepts(mem[n].active, k)
               /\ SetMem(n, [mem[n] EXCEPT !.active = Apply(@, k)])
               /\ SetWork(n, [rest EXCEPT !.applied = @ \cup {k}])
               /\ UNCHANGED <<pc, outbox>>
            \/ /\ ledger[k] = "none" /\ ~mem[n].usesLocal
               /\ ~Accepts(mem[n].active, k)
               /\ SetWork(n, [rest EXCEPT !.key = k, !.resume = "scan"])
               /\ Goto(n, "record")
               /\ UNCHANGED <<mem, outbox>>
    /\ NoFault
    /\ UNCHANGED <<redisVars, standby, rejected, full, callVars>>

ScanDone(n) ==
    /\ pc[n] = "scan"
    /\ work[n].todo = {}
    /\ Goto(n, IF work[n].applied # {} THEN "send" ELSE "finish")
    /\ NoFault
    /\ UNCHANGED <<redisVars, fileVars, mem, work, callVars>>

(* Slip: the conflict is not recorded.                                     *)
RecordNothing(n) ==
    /\ pc[n] = "record"
    /\ Reachable(n)
    /\ SetWork(n, [work[n] EXCEPT !.refused = @ \cup {work[n].key}])
    /\ Goto(n, work[n].resume)
    /\ NoFault
    /\ UNCHANGED <<redisVars, fileVars, mem, callVars>>

(* record_operation_conflict: GET the ledger, then SET it.                 *)
RecordCheck(n) ==
    /\ pc[n] = "record"
    /\ Reachable(n)
    /\ LET k == work[n].key IN
         IF ledger[k] = "committed"
         THEN /\ SetWork(n, [work[n] EXCEPT !.refused = @ \cup {k}])
              /\ Goto(n, work[n].resume)
         ELSE Goto(n, "record_set") /\ UNCHANGED work
    /\ NoFault
    /\ UNCHANGED <<redisVars, fileVars, mem, callVars>>

RecordSet(n) ==
    /\ pc[n] = "record_set"
    /\ Reachable(n)
    /\ ledger' = [ledger EXCEPT ![work[n].key] = "conflict"]
    /\ SetWork(n, [work[n] EXCEPT !.refused = @ \cup {work[n].key}])
    /\ Goto(n, work[n].resume)
    /\ NoFault
    /\ UNCHANGED <<redisUp, revision, snapshot, schema, native, published,
                   fileVars, mem, callVars>>

(* publish_local_deltas for all applied entries in one EXEC.               *)
SendApplied(n) ==
    /\ pc[n] = "send"
    /\ Reachable(n)
    /\ mem[n].revision = revision
    /\ PublishDeltas(n, work[n].applied)
    /\ SetMem(n, AfterDeltas(n, work[n].applied))
    /\ Goto(n, IF work[n].local # {} THEN "checkpoint" ELSE "finish")
    /\ NoFault
    /\ UNCHANGED <<fileVars, work, callVars>>

SendReplyLost(n) ==
    /\ pc[n] = "send"
    /\ Reachable(n)
    /\ mem[n].revision = revision
    /\ Fault("lost_reply")
    /\ PublishDeltas(n, work[n].applied)
    /\ Abandon(n)
    /\ UNCHANGED <<outbox, rejected, full, callVars>>

SendConflict(n) ==
    /\ pc[n] = "send"
    /\ Reachable(n)
    /\ mem[n].revision # revision
    /\ Goto(n, "conflict")
    /\ SetWork(n, [work[n] EXCEPT !.todo = work[n].applied, !.resume = "conflict"])
    /\ NoFault
    /\ UNCHANGED <<redisVars, fileVars, mem, callVars>>

ConflictEntry(n) ==
    /\ pc[n] = "conflict"
    /\ \E k \in work[n].todo :
         /\ IsFirst(outbox[n], work[n].todo, k)
         /\ SetWork(n, [work[n] EXCEPT !.todo = @ \ {k}, !.key = k])
    /\ Goto(n, "record")
    /\ NoFault
    /\ UNCHANGED <<redisVars, fileVars, mem, callVars>>

(* All conflicts recorded: take over the snapshot, reject the entries.     *)
ConflictSync(n) ==
    /\ pc[n] = "conflict"
    /\ work[n].todo = {}
    /\ Reachable(n)
    /\ SyncFromRedis(n)
    /\ SetWork(n, [work[n] EXCEPT !.refused = @ \cup work[n].applied, !.applied = {}])
    /\ Goto(n, IF work[n].local # {} THEN "checkpoint" ELSE "finish")
    /\ NoFault
    /\ UNCHANGED <<redisVars, outbox, rejected, full, callVars>>

(* checkpoint_snapshot, at a recovery boundary or when due.                *)
Checkpoint(n) ==
    /\ pc[n] \in {"checkpoint", "due"}
    /\ Reachable(n)
    /\ mem[n].revision = revision
    /\ PublishImage(mem[n].active)
    /\ \/ /\ NoFault
          /\ SetMem(n, AfterImage(n))
          /\ IF pc[n] = "checkpoint" THEN Goto(n, "finish") /\ UNCHANGED work
             ELSE Goto(n, "idle") /\ SetWork(n, NoWork)
          /\ UNCHANGED standby
       \/ Fault("lost_reply") /\ Abandon(n)
    /\ UNCHANGED <<outbox, rejected, full, callVars>>

CheckpointConflict(n) ==
    /\ pc[n] \in {"checkpoint", "due"}
    /\ Reachable(n)
    /\ mem[n].revision # revision
    /\ Abandon(n)
    /\ NoFault
    /\ UNCHANGED <<redisVars, outbox, rejected, full, callVars>>

(* A Redis command of the reconciliation finds the connection gone, or     *)
(* read_consistent_state sees another node publish during both its reads.  *)
ReconcileUnreachable(n) ==
    /\ \/ pc[n] \in {"record", "record_set", "send", "checkpoint", "due"} /\ ~Reachable(n)
       \/ pc[n] = "scan" /\ work[n].todo # {} /\ ~Reachable(n)
       \/ /\ pc[n] = "conflict" /\ work[n].todo = {}
          /\ Reachable(n) => \E m \in Nodes \ {n} : mem[m].link = "open"
    /\ Abandon(n)
    /\ NoFault
    /\ UNCHANGED <<redisVars, outbox, rejected, full, callVars>>

(* The loops of the reconciliation stop at the first line that is refused: *)
(* a removal, a mark (audited first), a rejection (audited first) or a     *)
(* compaction.  Removal comes before compaction, so a full log that holds  *)
(* entries to remove stays full.                                           *)
LogWriteFails(n) ==
    /\ \/ /\ pc[n] = "mirror" /\ work[n].todo = {} /\ work[n].done # {}
          /\ LineFails(n, "log")
          /\ UNCHANGED rejected
       \/ /\ pc[n] = "scan" /\ Reachable(n)
          /\ \E k \in work[n].todo : IsFirst(outbox[n], work[n].todo, k) /\ ledger[k] = "committed"
          /\ LineFails(n, "audit") \/ LineFails(n, "log")
          /\ UNCHANGED rejected
       \/ /\ pc[n] = "finish" /\ work[n].applied # {}
          /\ LineFails(n, "log")
          /\ UNCHANGED rejected
       \/ /\ pc[n] = "finish" /\ work[n].applied = {} /\ work[n].refused # {}
          /\ LineFails(n, "audit")
          /\ UNCHANGED rejected
       \/ /\ pc[n] = "finish" /\ work[n].applied = {}
          /\ Room(n, "audit") /\ LineFails(n, "log")
          /\ \E k \in work[n].refused : rejected' = [rejected EXCEPT ![n] = @ \cup {k}]
       \/ /\ \/ pc[n] = "mirror" /\ work[n].todo = {} /\ work[n].done = {}
             \/ pc[n] = "finish" /\ work[n].applied = {} /\ work[n].refused = {}
          /\ Fault("file_write")
          /\ UNCHANGED rejected
    /\ Abandon(n)
    /\ UNCHANGED <<redisVars, outbox, full, callVars>>

(* First the applied entries are removed (the local image already has them)*)
(* or marked for mirroring, then the rejected ones are audited and removed.*)
FinishApplied(n) ==
    /\ pc[n] = "finish"
    /\ Room(n, "log")
    /\ \E k \in work[n].applied :
         /\ IsFirst(outbox[n], work[n].applied, k)
         /\ SetOutbox(n, IF k \in work[n].local THEN Complete(outbox[n], k)
                         ELSE MarkCommitted(outbox[n], k))
         /\ SetWork(n, [work[n] EXCEPT !.applied = @ \ {k}])
    /\ NoFault
    /\ UNCHANGED <<redisVars, standby, rejected, full, mem, pc, callVars>>

FinishRejected(n) ==
    /\ pc[n] = "finish"
    /\ work[n].applied = {}
    /\ Room(n, "audit") /\ Room(n, "log")
    /\ \E k \in work[n].refused :
         /\ SetOutbox(n, Complete(outbox[n], k))
         /\ rejected' = [rejected EXCEPT ![n] = @ \cup {k}]
         /\ SetWork(n, [work[n] EXCEPT !.refused = @ \ {k}])
    /\ NoFault
    /\ UNCHANGED <<redisVars, standby, full, mem, pc, callVars>>

FinishDone(n) ==
    /\ pc[n] = "finish"
    /\ work[n].applied = {} /\ work[n].refused = {}
    /\ Goto(n, "mirror")
    /\ SetWork(n, [work[n] EXCEPT !.todo = CommittedBatch(n), !.done = {}, !.second = TRUE])
    /\ UNCHANGED <<redisVars, standby, outbox, rejected, mem, callVars>>
    /\ Compact(n)
    /\ NoFault

-----------------------------------------------------------------------------
(* The environment.                                                        *)

(* The process dies, or is dropped: nothing in memory is saved.            *)
Crash(n) ==
    /\ pc[n] # "down"
    /\ Fault("crash")
    /\ Goto(n, "down")
    /\ SetMem(n, Detached)
    /\ SetWork(n, NoWork)
    /\ UNCHANGED <<redisVars, fileVars, callVars>>

Restart(n) ==
    /\ pc[n] = "down"
    /\ Goto(n, "opening")
    /\ SetWork(n, [NoWork EXCEPT !.via = "open"])
    /\ NoFault
    /\ UNCHANGED <<redisVars, fileVars, mem, callVars>>

Disconnect(n) ==
    /\ mem[n].link = "open"
    /\ Fault("disconnect")
    /\ SetMem(n, [mem[n] EXCEPT !.link = "dead"])
    /\ UNCHANGED <<redisVars, fileVars, pc, work, callVars>>

(* Redis keeps its data over an outage but closes every connection.        *)
RedisStops ==
    /\ redisUp
    /\ Fault("outage")
    /\ redisUp' = FALSE
    /\ mem' = [n \in Nodes |-> IF mem[n].link = "open"
                               THEN [mem[n] EXCEPT !.link = "dead"] ELSE mem[n]]
    /\ UNCHANGED <<revision, snapshot, schema, native, ledger, published,
                   fileVars, pc, work, callVars>>

RedisStarts ==
    /\ ~redisUp
    /\ redisUp' = TRUE
    /\ NoFault
    /\ UNCHANGED <<revision, snapshot, schema, native, ledger, published,
                   fileVars, mem, pc, work, callVars>>

(* A file reaches MAX_OUTBOX_BYTES or MAX_RECONCILIATION_AUDIT_BYTES.  The *)
(* audit is never shortened.                                               *)
FileFills(n) ==
    /\ \/ /\ outbox[n] # <<>>
          /\ Fault("log_full")
          /\ full' = [full EXCEPT ![n] = @ \cup {"log"}]
       \/ /\ Fault("audit_full")
          /\ full' = [full EXCEPT ![n] = @ \cup {"audit"}]
    /\ UNCHANGED <<redisVars, standby, outbox, rejected, mem, pc, work, callVars>>

-----------------------------------------------------------------------------
Call(n) ==
    \/ \E k \in Keys : BeginCall(n, k)
    \/ ExecuteAccepted(n) \/ ExecuteRefused(n) \/ AbortCall(n)
    \/ CallPublished(n) \/ CallUnpublished(n) \/ CallConflict(n) \/ MarkCall(n)

Connect(n) == Attach(n) \/ AttachFails(n) \/ OpenUnreachable(n) \/ Tick(n) \/ TickFails(n)

Reconcile(n) ==
    \/ ReplayEntry(n) \/ ReplayDone(n) \/ MirrorEntry(n) \/ MirrorComplete(n) \/ MirrorDone(n)
    \/ ScanEntry(n) \/ ScanDone(n) \/ RecordCheck(n) \/ RecordSet(n)
    \/ SendApplied(n) \/ SendReplyLost(n) \/ SendConflict(n)
    \/ ConflictEntry(n) \/ ConflictSync(n)
    \/ Checkpoint(n) \/ CheckpointConflict(n) \/ ReconcileUnreachable(n)
    \/ LogWriteFails(n) \/ FinishApplied(n) \/ FinishRejected(n) \/ FinishDone(n)

Environment ==
    \/ \E n \in Nodes : Crash(n) \/ Restart(n) \/ Disconnect(n) \/ FileFills(n)
    \/ RedisStops \/ RedisStarts

Next == Environment \/ \E n \in Nodes : Call(n) \/ Connect(n) \/ Reconcile(n)

Spec == Init /\ [][Next]_vars
=============================================================================
