# A TLA+ model of memory-mcp-rust

memory-mcp is a stdio server that keeps facts, contexts, runs, decisions and
handoffs for language-model agents. Every tool call runs inside a backend
coordinator. When Redis is configured, the coordinator runs the call on an
in-memory copy of the database and, if the tool is one `is_state_mutating` names,
publishes the difference to Redis before it answers; a SQLite file is the standby. When Redis is away, the file serves and a
durable outbox remembers what Redis has to be told later. Without Redis the file
is all there is, and several server processes may use it at once.

This directory models the coordinator, its outbox and its Redis protocol down to the
replies on a stream; and the store's operations statement by statement: databases and
their upgrade and migration, facts and the pipeline that writes them, relation
candidates and the graph, contexts, events and runs, handoffs, retrieval, diagnosis and
paging. TLC checks small instances; TLAPS proves the main safety properties of the
coordinator, the outbox log, the streams to Redis, databases with their upgrade and
migration, facts and their history, the handoffs, the review of relations and the records of
contexts, events and runs for any number of processes.

Paths of the code are relative to the repository's `src/`, `backend.rs` being the file
of the coordinator. Line numbers are in `PROJECT.json` ("map").

## Inventory

| Component | State | Operations | Hard behaviour | What makes it correct | Module |
|---|---|---|---|---|---|
| **Backend coordinator** (`backend.rs`, `CoordinatorInner`) | SQLite store, active store, Redis adapter, mode, revision, snapshot revision, native cache, two recovery flags | `execute_tool`, `attach_redis`, `sync_from_redis`, `reconcile_outbox`, `checkpoint_snapshot`, `enter_sqlite_fallback` | errors between any two steps; other processes on the same Redis keys; lost EXEC replies; restart | an acknowledged write stays accounted for; caches equal what they cache | `Coordinator` |
| **Durable outbox** (`Outbox`) | a JSONL log, an audit log | `append_pending`, `mark_redis_committed`, `complete`, `reject`, `compact`, `pending` | kill between writes; size limit | a queue with one entry per key, whatever is killed when | `Outbox`, `OutboxQueue`, `OutboxLog` |
| **Watcher** (`watcher_loop`, `tick`) | the delay | tick every interval, doubled on errors | shares the mutex with calls | the outbox drains | `Coordinator`, `RedisWire` |
| **Redis adapter and RESP client** (`redis.rs`) | a connection and the replies in it | publish (WATCH/MULTI/EXEC), ledger, markers, snapshot, native reads | races with other processes; timeouts leave late replies; an abandoned EXEC still runs | transactions apply to the revision they were made for, once; beliefs about Redis are true | `RedisWire` |
| **Schema** (`Store::open`, `migrate`) and **migration** (`migration.rs`) | one database file | create, add columns, fill, unique index, full-text index; copy, compare, publish | racing opens, kills half way, an older program writing | what serves is fully upgraded; a target is never replaced | `Schema`, `Migration` |
| **Databases** (`store.rs`) | images nested in images, or files in a directory | create, select, archive, delete, backup | no transaction; rename beside another process; write-ahead logs | no database is lost | `MemoryDatabases`, `DatabaseFiles` |
| **Facts and pipeline** (`store.rs`, `pipeline.rs`) | facts, history, evidence | remember, forget, restore, sweep, confirm, invalidate; ingest, absorb, consolidate, verify | SELECT-then-UPDATE of several processes; a provider call in between; a kill half way | history and provenance are complete; a repeated ingest completes | `Facts`, `FactPipeline` |
| **Candidates and graph** (`store.rs`) | candidates, entities, relations | suggest, confirm, reject, relate, reset | several statements per review; reviews of one candidate; row ids reused | the graph agrees with the reviewers | `RelationReview` |
| **Contexts, events, runs** (`store.rs`, `protocol.rs`) | contexts, lineage, events, runs, measurements, feedback | put, ingest, reduce, capture; begin, end, link, measure | repeated and killed calls; clock; reset | what was acknowledged is whole; repeats are honoured | `RecordCalls`, `Contexts`, `Runs` |
| **Handoffs** (`store.rs`) | handoffs and their contexts | begin, list, accept, cancel | expiry, reset, two processes | a claim is timely; what begin answered stays so | `Handoffs` |
| **Retrieval, diagnosis, paging** (`pipeline.rs`, `store.rs`, `diagnostics.rs`, `protocol.rs`) | none | search, compose_recall, search_graph, search_diagnose; read and chunk | many reads, no snapshot; rank fusion; limits; numbers of pages | nothing hidden is served, nothing steady missed; pages join | `GraphWalk`, `Recall`, `Diagnosis`, `Paging` |
| **Protocol** (`protocol.rs`), **tools** (`tools.rs`) | none | dispatch, validation, schemas | - | each tool that writes is published; consolidate and list_handoffs write and are not in `is_state_mutating` (`tools.rs`:1055) | first steps of the calls |
| **Providers**, **main**, **bench** | none kept | I/O | - | - | not modelled |

How they interact: `protocol.rs::call_tool_with_coordinator` calls `execute_tool`
with a closure over the tool handler. `execute_tool` locks the mutex, logs an
outbox entry, runs the handler on the active store, computes the projections of
the touched workspace and publishes their delta with the operation's ledger
record in one EXEC. The watcher thread locks the same mutex for a tick: reconnect
when detached; otherwise compare revisions, take over a newer snapshot, reconcile
the outbox, checkpoint. Other server processes meet this one in Redis, and also in
the SQLite file and the log beside it when they are configured with the same path.
`Coordinator` gives each process files of its own and treats a call as one step on an
image (`StoreImage`); `RedisWire` opens up its exchanges with Redis; `OutboxLog` and all
modules about the store model what processes share on disk, where a call is a series of
SQL statements. The pipeline's tools run on top of `Facts`, `Diagnosis` on top of
`Recall`, migrations on top of `Schema`.

## Modules

| Module | Models | Depends on |
|---|---|---|
| `StoreImage` | a copy of the store as far as the coordinator tells copies apart: how often the effect of each call is present; projections, deltas and the cache overlay | |
| `Outbox` | the operations on the queue of entries that `Outbox::pending` returns | |
| `OutboxQueue` | the abstract specification of the outbox: a queue changed only by whole operations | `Outbox` |
| `OutboxLog` | the JSONL file: two writes per append, the size limit, compaction through a temporary file and a rename, kills; one writer or several | `Outbox`, `OutboxQueue` (refinement) |
| `Coordinator` | the server processes, their files and memory, and Redis | `StoreImage`, `Outbox` |
| `CoordinatorProps` | invariants, action properties, fairness, liveness | `Coordinator` |
| `RedisWire` | the streams between coordinators and a Redis server: every exchange of open, attach, tick and call, with replies that come late | |
| `MemoryDatabases` | named databases as images nested in one image | |
| `DatabaseFiles` | named databases as files, with their write-ahead logs, in a directory several processes share | |
| `Schema`, `Migration` | `Store::open` on one file by several processes; the `migrate` command | `Migration` on `Schema` |
| `Databases` | the three kinds of behaviour above as one specification | those four |
| `Facts` | the store operations on facts, their history and evidence, statement by statement | |
| `FactPipeline` | the tools made of them: remember, sweep, ingest_turn, absorb, consolidate, verification, with any answer of the provider | `Facts` |
| `RelationReview` | relation candidates, entities, relations, reset | |
| `Handoffs` | contexts and handoffs of one workspace in a SQLite file shared by several processes, with expiry and reset | |
| `RecordCalls` | what a call of several statements is, acknowledged, refused or killed | |
| `Contexts`, `Runs`, `Records` | contexts, lineage and events; runs, measurements and feedback; both in one file | `RecordCalls` |
| `GraphWalk`, `Recall`, `Diagnosis` | the graph neighbourhood; search and recall beside writers; search_diagnose | each on the one before |
| `Paging`, `Reads` | pages of long texts; all reading calls as one specification | `Diagnosis` |
| `PrefixRecursion`, `BackendProofs`, `RedisWireProofs`, `DatabasesProofs`, `FactPipelineProofs`, `HandoffsAndReadsProofs`, `RelationReviewProofs`, `RecordsProofs` | lemmas and theorems | the above |
| `MC...` | model values of the instances | |

**State.** `mem[n]` holds the fields of `CoordinatorInner`: `link` is `self.redis`
("none" when it is `None`, which coincides with mode Sqlite; "dead" when the
adapter is held but its stream is broken), `active` the active store, `cache` the
native cache, `revision` and `snapshotRevision`, and the two recovery flags.
`standby[n]`, `outbox[n]` and `rejected[n]` are the files; `full[n]` says which of log and
audit are at their size limit, which only a compaction of the log may end. `pc[n]` and `work[n]`
are the position and locals of the handler that holds the mutex. `revision`,
`snapshot`, `native`, `schema` and `ledger` are the keys of the Redis namespace.
`issued`, `acked`, `published`, `shadowed` and `faults` are history; no action is guarded by `acked`,
`published` or `shadowed`. A call is shadowed when it is acknowledged on SQLite and an identical one
was published before.

**Images.** A call is identified by its idempotency key, the hash of its name and
arguments, as in `operation_key`. An image maps each key to the number of times
its effect is present. `Appends` are calls that add a row each time
(`record_decision`), `Refusing` calls the store refuses to repeat
(`create_database`, `begin_run` of an existing id), `Requires` says which calls a call
builds on, `Tolerated` which refusals `standby_already_contains` forgives. All
other calls set a value. This is what the coordinator's correctness depends on:
present or not, once or twice.

**Grain of the actions.** Every step between which something else can happen is an
action. A Redis transaction is one action, since WATCH makes it so; its failure
before EXEC, after EXEC (reply lost) and by conflict are separate actions. The
loops over outbox entries take one step per entry. `record_operation_conflict` is
two actions because it is two commands. Attach reads the namespace and publishes in
one step: a publish by another process in between makes the attach fail, which
`AttachFails` covers. Where a handler ends with an error, `Abandon` is what
`open_with_configuration` or the watcher then does.

**The wire.** A link holds the requests the server has not taken yet, the replies the
client has not read yet, what is watched and what an open MULTI has queued. A client sends
the requests of one exchange and reads as many replies as it sent; with a timeout it gives
up and the replies arrive later. What each reader takes for its answer is its code: nil,
integer, bulk or array, not the question. `log` is the history of executed transactions.

**Shared tables.** The store's operations outside its few transactions commit
statement by statement, so in `Facts`, `RelationReview`, `Contexts`, `Runs`, `Schema` and
`Handoffs` one SQL statement is one action, `call[p]` (or `open[p]`, `move[m]`, `task[p]`)
holds the position and the locals of the process, and a kill ends a call between any two.
Reads that follow each other with nothing decided in between are taken together where
the module says so. A row is a record, a text a model value, a hash the tuple of what is
hashed. A fact's text stands for a text in its workspace: `Shared` are those of the empty
one, where evidence is refused. In the reading modules the processes that change tables are the environment; `seen`, `shown` and `steady` remember what
was so at some or at every moment of the call, and `late` are the facts a `valid_at` may admit
although they are invalid.

**Databases.** With a memory catalog, a select saves the live image into the catalog, holds
the catalog in memory, restores the target's image and writes the catalog back; `saved` and
`pc` are those locals. With files, names are links to files and a log belongs to a name; `overtaken` remembers that a
name changed between the look of one process and the act it allowed.

**Providers** (external). A provider call ends with an error or any answer of the right
shape; the tool goes on with what it had read before.

**Handoffs.** The tool handlers open no transaction around what they do, so each SQL
statement commits by itself and is one action of `Handoffs`; `call[s]` is the position
and the locals of the handler in process `s`. A kill ends a call between two
statements, the clock moves whenever it likes, and `reset_workspace` may empty the
tables under a call. Constraints of the schema (`Insertable`: the foreign key to the context and the unique columns)
are part of the INSERT.
Statements that only format the answer are left out; so is the SELECT of the clock
where no table is read in between. `claims` and `begun` remember what callers were told.

**The log.** An append is two writes (`WriteBody`, `WriteNewline`), a compaction a
truncation or a sequence of writes and a rename. A writer whose file was replaced by
another's rename goes on writing into the old one (`orphan`).

| Code | Actions |
|---|---|
| `execute_tool` | `BeginCall`, `ExecuteAccepted`, `ExecuteRefused`, `AbortCall`, `CallPublished`, `CallUnpublished`, `CallConflict`, `MarkCall` |
| `attach_redis`, `open`, `try_reconnect` | `Attach`, `AttachFails`, `OpenUnreachable` |
| `tick` | `Tick`, `TickFails` (and `Attach` when detached; `Checkpoint` at pc "due") |
| `replay_committed_into_active` | `ReplayEntry`, `ReplayDone` |
| `mirror_committed_outbox` | `MirrorEntry`, `MirrorComplete`, `MirrorDone` |
| `reconcile_outbox` scan | `ScanEntry`, `ScanDone`, `RecordCheck`, `RecordSet` |
| its publish, conflict branch, checkpoint | `SendApplied`, `SendReplyLost`, `SendConflict`, `ConflictEntry`, `ConflictSync`, `Checkpoint`, `CheckpointConflict` |
| its end | `FinishApplied`, `FinishRejected`, `FinishDone` |
| errors of its commands and log writes | `ReconcileUnreachable`, `LogWriteFails` |
| `Outbox::append`, `compact` | `AppendPendingCall`, `MarkEntryCall`, `CompleteCall`, `CompactCall`, then `WriteBody`, `WriteNewline`, `Truncate`, `WriteTemporary`, `Rename` |
| `begin_handoff`, `exact_handoff_begin` | `BeginCall`, `BeginContentCall`, `FindContext`, `InsertContext`, `CheckContext`, `CheckKey`, `CheckRef`, `Insert`, `ReadBack` |
| `accept_handoff`, `cancel_handoff`, `list_handoffs` | `AcceptCall`, `CancelCall`, `Refresh`, `Find`, `Update`, `ReadBack`; `ListCall` |
| `reset_workspace` | `ResetWorkspace` |
| `redis.rs`: `connect`, `read_consistent_state`, `operation_*`, `publish_*`, `commands` | `Connect`, `ReadState`, `ReadEntries`, `PublishDeltas`, `PublishState`, `RecordConflict`, `TickRevision`, `ReadFails`; the server's `ServeCommand`, `ServeWatch`, `ServeMulti`, `ServeQueued`, `ServeExec` |
| `Store::open`, `migrate` | `CreateFile`, `CreateTable`, `ReadColumns`, `AddColumn`, `Fill`, `Unique`, `Index`, `Triggers`, `Rebuild` |
| `migration.rs` | `Validate`, `Copy`, `Link`, `Unlink`, `KillMover` |
| `memory_*` databases | `MemCreate`, `MemArchive`, `MemDelete`, `MemSelect`, `MemRestore`, `MemClear`, `MemInsert`, `MemName` |
| file databases | `Look`, then `OpenAndClose`, `SelectNamed`, `SelectDefault`, `RenameToArchive`, `Remove`, `BackupSelected` |
| facts in `store.rs` | `RememberRead/Write`, `LifecycleRead/Write`, `ConfirmRead/Write`, `ValidityRead/Write`, `InvalidateRead/Write`, `Log`, `Attach` |
| `pipeline.rs` | `IngestTool`, `IngestFact`, `IngestCite`, `IngestStored`, `VerifyAnswer`, `VerifyCite`; `AbsorbTool`, `AbsorbFact`; `ConsolidateTool`, `ConsolidateAnswer`, `ConsolidateMerge`, `ConsolidateCite`; `SweepTool`, `SweepNext` |
| relation candidates | `Suggest`, `CreateRead`, `CreateInsert`, `MarkConflict`; `Confirm`, `RememberName`, `ConfirmEdge`, `InsertEdge`, `ConfirmStatus`; `Reject`, `RejectStatus`; `Relate`; `ResetFacts`, `ResetCands` |
| contexts and events | `PutGenerated`, `PutNamed`, `Ingest`, `Reduce`, `Gather`, `PutRead`, `PutInsert`, `Link`; `Capture`, `CaptureLegacy` (no event_kind), `EventRead`, `EventInsert` |
| runs | `RunBegin`, `BeginRead`, `BeginInsert`; `RunEnd`, `EndRead`, `EndUpdate`; `LinkRun`, `LinkUpdate`; `Measure...`, `Feedback...` |
| search, recall, graph, diagnosis | `Begin`, `Search`, `Fallback`, `Vectors`, `ReadRow`, `Consider`, `AllConsidered`, `ReadEntities`, `WalkForFacts`, `WalkForGraph`, `Sibling`; `DiagnoseRows`, `DiagnoseConflicts`, `DiagnoseEvidence` |
| long texts | `ReadContext`, `ChunkContext`, `ChunkFact`, `SplitChunks`, `TextGone` |
| environment | `Crash`, `Restart`, `Disconnect`, `RedisStops`, `RedisStarts`, `FileFills` |

## Runs

`tlc -workers 2 -config X.cfg M`; the longest take about two minutes.

| cfg | Module | Question | Result |
|---|---|---|---|
| `CoordinatorFaults` | `MCCoordinator` | one process, two keys, each called up to twice, one refused when repeated, two faults of any kind, full files among them: `TypeOK`, `AckContract`, `OutboxDrains` | holds |
| `CoordinatorPair` | `MCCoordinator` | two processes, calls made twice, one refused when repeated, one fault: `FlagImpliesPublished`, `AckedAccounted`, `RejectedRecorded` | holds, 4.8 million states |
| `CoordinatorSteady` | `MCCoordinator` | one process, each call up to twice, that loses its connection up to three times but does not restart: `ServedExactly`, `CacheMatchesNative`, until a call is shadowed | holds |
| `OutboxLog` | `MCOutboxLog` | one writer, three keys, four lines, one kill: `ReadersAgree`, and `LogImplementsQueue`, the refinement of `OutboxQueue` | holds |
| `RedisWire` | `MCRedisWire` | two coordinators, three connections, a timeout or reset in opening, attaching or calling: `CasHolds`, `KeyAppliedOnce`, `MarksAreTrue`, `ImageOfRevision`, `IndexComplete` | holds, 1.4 million states |
| `RedisWireLate` | `MCRedisWire` | `MarksAreTrue` when a read of a tick may time out | violated |
| `Databases` | `MCDatabases` | images, files, or one file opened and migrated into: `DatabasesKept`, `SoftOpsReversible`, `ServedUpgraded`, `OpenFailsInRacesOnly`, `TargetKept` | holds, 1.7 million states |
| `FactPipeline` | `MCFactPipeline` | two processes, two tools, two workspaces, facts strong or of high trust, one kill: `AuditComplete`, `MergeProvenance`, `IngestComplete` | holds, 0.8 million states |
| `RelationReview` | `MCRelationReview` | two processes, three calls, one kill, one reset: `ConfirmedInGraph`, `ConfirmedProvenance`, `RejectedStaysOut`, `VerdictKept` | holds, 0.9 million states |
| `Records` | `MCRecords` | two processes, three calls, one kill, a clock: `IngestedWhole`, `LineageWhole`, `EventsAsCaptured`, `ClosedAsAcked`, `RepeatsHonoured` | holds, 1.5 million states |
| `Handoffs` | `MCHandoffs` | two processes, one key, two actors, three calls, a clock of two ticks: `ClaimsAreTimely`, `BeginHonoured` | holds |
| `Reads` | `MCReads` | one reading call beside two changes; a text of up to five characters in pages of any size: `NothingHiddenServed`, `NothingMissed`, `GraphWhole`, `DiagnosisTruthful`, `PagesJoin` | holds, 2.0 million states |

The violated run: a read timeout in a tick leaves a reply in the stream, the tick
keeps the adapter, and a later tick takes that reply for the marker of an operation:
an outbox entry that was never published is marked as committed. The same instance
with timeouts only where the code drops the adapter afterwards is the run `RedisWire`, in
which all five properties hold; with timeouts in ticks the other four still hold.

**Bounds.** `MaxCopies` = 2 tells once from twice. `MaxReplayBatch` is 64 in the code
and 1 in the runs, so that two entries already need two passes (`CoordinatorSteady`
takes 2: both entries in one pass). `CheckpointEvery` is 256 in the code and 2 in the
runs, so that one publish stays below it and two reach it. `MaxCalls` bounds identical
calls per process, `MaxIssuers` the (process, call) pairs used; with 2, the pair
run has both processes calling, or one calling twice, which is what a conflict
needs. `MaxFaults` bounds the faults: two are enough for a fault during the
recovery from a fault. One workspace suffices since the properties are
per key. The steady run repeats calls too (`MaxCalls` = 2). The pair run uses the symmetry of the processes; `a` and `u` have
different roles. In `OutboxLog`, four lines hold a full queue and one event more,
so the limit is met with and without something to compact. In `Handoffs`, one key and one
context suffice since rows of different keys do not interact except through the unique
context, which `Refs` being a singleton makes certain to collide; three calls are a
context, a begin and an accept, or two racing begins and a reset; two ticks let a row
expire between any two statements. In the modules about the store two processes suffice, since a
step of a call is disturbed by one other call at a time and the tables are rows of one or
two keys; the calls per behaviour (`MaxCalls`, `MaxTasks`, `MaxOpens`) allow a call, its
repetition and a racing one; one kill cuts one of them anywhere; the clock makes two
expiry times differ. `RedisWire` has three connections so that a coordinator that dropped
one, and left requests in it, has another beside its peer; one fault is enough for a late
reply and for an abandoned EXEC. `MaxImage` in `Databases` is the snapshot limit counted in
images, so that nesting meets it. `MaxLacking` says
how much an older file lacks, `MaxKeyless` how many events without a key it holds.
In `FactPipeline` one text is of the empty workspace, stored at first, and two of the named one, and `Metas` has
facts that are plain, strong or of high trust. `MaxChanges` in `Reads` is 2: a fact may become hidden
and come back, or two facts change; `RowLimit` is 2, so that the three texts that contain the third term exceed it (it is
1000 in the code). Ranks and depths in `Reads` cover each order of three facts and two hops; `Widths` of 1 and
3 bytes put a character across a chunk boundary. Symmetry is used among processes and
among values that play the same part. What the bounds leave out the theorems cover, for the
modules that have them.

**Preconditions in the properties.** Several properties speak of behaviours without
overlapping calls (`overlapped`) or without kills (`kills = 0`), or until something has happened
(`shadowed`, `overtaken`): the code promises them there
and breaks them otherwise, in ways that the list of known limits names. Repetition,
interleaving of whole calls, kills where allowed and resets remain, and the mutants show that
each property can fail under its precondition.

**Initial states.** Redis is up or down; the namespace is empty (revision 0) or holds
a snapshot from before the native schema (revision 1, `schema` FALSE), which are the
two cases `attach_redis` rebuilds in.

**Fairness.** `FairSpec` gives each process weak fairness of the handler it is in
(`CallStep`, `Reconcile`), of the watcher's attempts (`Connect`) and of its restart:
the thread loops for as long as the process lives, with a bounded delay, and a server
is restarted by its client. Nothing makes a client call, Redis start or a fault
happen. `OutboxDrains` therefore assumes what the code cannot bring about: from some
point on Redis is up, no broken stream is held, log and audit have room, and no committed entry
is refused by the standby or the active copy (`Refused`). The watcher does not release a broken
stream; a call that fails to publish does. Completing, marking and rejecting write a line before
the compaction (`backend.rs`:143, 494-498, 646-661), so a log at its limit that holds a committed
entry, or an audit at its limit with an entry to reject, stops the reconciliation for good, and so
does a committed entry SQLite refuses (`backend.rs`:485).

## Known limits

Sentences one would expect to hold and that the code does not keep. Those of the table are
stated as properties, marked as failing in their modules, and TLC shows each with the cfg
named, `tlc -config X.cfg M`, where the table names constants too, with these in place of
the cfg's and the property in place of its properties; they are not among the runs above.

| Property | cfg, module | What happens |
|---|---|---|
| `DegradedWriteRecorded` | `CoordinatorRepeat`, `MCCoordinator` | a call is published and marked, the connection breaks before it is mirrored, and the same call comes again: the append of its entry finds the committed one and writes nothing (`backend.rs`:157-163), the process falls back and acknowledges. `docs/current-contract.md`:301-303 promises that every degraded-mode write is recorded in the outbox. The next attach sees nothing uncommitted (298-301), restores the Redis snapshot over SQLite (313-315) and replays one entry: two acknowledged appends, one row |
| `AckedWritesServed` | `CoordinatorRestart`, `MCCoordinator` | a restarted process serves the last snapshot although newer deltas were acknowledged and already cleared from the outbox |
| `StandbyAppliesOnce` | `CoordinatorRepeat` with `MaxCalls = 1`, as an invariant; `MCCoordinator` | an append that is published but not mirrored when the process falls back is copied into the standby with the active image, and its entry mirrored into it again |
| `LedgerCommittedFinal` | `CoordinatorLedger`, `MCCoordinator` | the ledger's GET-then-SET overwrites a committed record with a conflict |
| `DurableEntryReadable` | `OutboxLog` with `TornKills = TRUE`, `MaxLines = 3`; `MCOutboxLog` | a kill inside a line makes the whole log unreadable |
| `EntriesKept` | `OutboxLog` with `Writers = {p, q}`, `MaxKills = 0`, `MaxLines = 3`; `MCOutboxLog` | a compaction by one process drops what another logged meanwhile |
| `ClaimedOnce` | `Handoffs` with `Ttls = {Never}`, `MaxTime = 0`; `MCHandoffs` | two processes are each told that they accepted the same handoff |
| `SupersededBySurvivor` | `FactsSupersede`, `MCFactPipeline` | two contradicting new facts supersede each other (`pipeline.rs`:1397; `README.md`:223) |
| `ArchiveNotClobbered` | `Databases` | a rename after a check that another process overtook replaces an earlier archive (`store.rs`:2821) |

Seen while modelling, by module:

- **Coordinator.** The failure of a repeated call removes the outbox entry it shares with the
  acknowledged first one (hence `NeverRefused` in `AckedAccounted`). A watcher whose stream
  broke keeps the adapter until a call fails to publish; a full log with a committed entry, a full
  audit and a committed entry that SQLite refuses each block the outbox for good (hence the
  assumptions of `OutboxDrains`). A call acknowledged in fallback that equals one Redis has is
  never published, and the next attach may remove it from SQLite (hence `Steady`). consolidate
  and list_handoffs write, and are neither logged nor published (`tools.rs`:1055).
- **Databases.** The tool reset_database selects the named database (`protocol.rs`:4838), and
  with no name in memory mode does nothing where `README.md`:359 says it returns to the first.
  Images nest, so each select grows the image towards the snapshot limit. A failure between
  the restore and the last catalog row loses the other databases' latest images (`torn` in
  `DatabasesKept`). Archiving a file leaves rows that were not checkpointed in
  `<name>.db-wal`. Another process may archive or delete a database this one has selected
  (`docs/current-contract.md`:196-198 says it cannot); a select then creates an empty file
  (`store.rs`:2948).
- **Schema, migration.** Two processes upgrading one file may both add a column, and the
  second open fails (`store.rs`:1291). Two events of an older program in one workspace get
  the same empty key, and every later open fails at the unique index (`store.rs`:960). A
  migration is refused for ever, as "source rows changed", when a filled-in column exists
  but is empty in some row (`store.rs`:1325, `migration.rs`:136). A failure after the hard link
  reports an error although the target is published; a killed migration leaves its copy.
- **Facts.** Consolidation protects facts marked strong and not confirmed ones
  (`README.md`:222). restore_fact refuses every forgotten fact (`protocol.rs`:5233;
  `README.md`:236). A sweep racing a forget resurrects the fact as degraded
  (`store.rs`:2214). Racing remembers log "created" twice. A kill between storing and
  verifying a new fact leaves it unverified even when the ingest is repeated. Absorb counts
  identical texts of one batch twice. attach_evidence refuses the empty workspace, the tools'
  default (`store.rs`:5077, 7153), and a source_ref already attached with other data, and its
  callers drop the error: a merge or a verification there supersedes without a citation and an
  ingest cites nothing (`pipeline.rs`:396, 740, 1492; hence `Shared` in `MergeProvenance` and
  `IngestComplete`). An ingest without a session cites nothing (376). confirm_fact logs only if
  validity, lifecycle or trust differ (`store.rs`:2153-2156), so a fact remembered with high trust is
  confirmed without a row of its history (hence `high` in `AuditComplete`). confirm_fact makes a
  forgotten fact active and leaves its archived mark, so it stays hidden.
- **Review.** Evidence attached between two generations turns a candidate into a conflict.
  Racing confirm and reject both succeed (UPDATE by id). A kill between the relation and the
  mark, then a rejection, leaves the relation in the graph (hence `kills = 0` in
  `RejectedStaysOut`; `docs/pilot-workflow.md`:82). A label that changes brings a rejected pair
  back as a new candidate. Row ids are reused after a reset.
- **Records.** With `ttl_seconds` a killed or repeated ingest or reduce computes another
  expiry and is refused as "context ref is immutable" (`SKILL.md`:266). capture_event under an
  existing key with other data returns the old event as a duplicate (`SKILL.md`:278 says
  rejected). Without an event_kind it stores any payload over any context the caller names and never
  compares the two (`protocol.rs`:901-933; hence the last line of `EventsAsCaptured`), and the
  context can have no other event then. A summary too long to store whole makes the identical repeat of run_end refused.
  Racing ends overwrite each other. A begin repeated after link_run is refused.
  record_measurement stores the first metric only. A reset between two steps of an ingest
  leaves part of the document (`tornByReset`).
- **Reads.** An eligibility decision joins an earlier row to the evidence of now
  (`pipeline.rs`:1190). An answer that the words alone filled may miss a fact, since rows are
  checked again after the limit was applied (`pipeline.rs`:905). search_diagnose and the search
  differ: a degraded or pending fact is stale for the first (`diagnostics.rs`:269-273) and answered by the
  second (`store.rs`:3594-3595); a hidden fact with the words keeps the diagnosis from looking for
  texts that contain them (3546), not the search (3618); the diagnosis reads 1000 rows in any
  state (3541) and ignores the archived mark. `DiagnosisTruthful` says what is left. Plain search_facts
  does not check the archived mark either. With a `valid_at` an invalid fact whose invalid_at
  is empty is answered whatever the time (`pipeline.rs`:1762). compose_recall may exceed `chars` by two. read_context with
  an explicit `end`, and read_event with `max_chars` 0, return a next start that does not
  advance. Backfill and categorization take the first pending facts each time, so some that
  always fail starve the rest.

## Proofs

`tlapm M.tla` proves every obligation of the modules below, from the assumptions on the
constants, `ImageAssumption`, `CoordinatorAssumption`, `HandoffAssumption`,
`ReviewAssumption`, `LogAssumption`, `WireAssumption`, `FilesAssumption`,
`MemNamesAssumption`, `SchemaAssumption`, `FactsAssumption`, `ContextsAssumption`,
`RunsAssumption`, `RecallAssumption` and `PagingAssumption`: any set of processes, any calls,
any bounds.

- `BackendProofs`, in three sections. The queue: what its operations keep and remove (keys
  stay unique, `Complete` removes exactly its key, `MarkCommitted` changes only its key's
  flag). The log: `ReadersAgreeCorrect` and `LogRefinesQueue`, the refinement of
  `OutboxQueue`, for a single writer that is killed between whole lines. The coordinator:
  `TypeCorrect`; `SafeCorrect`, `Spec => []Safe`, and from it
  `OutboxKeysUniqueCorrect`, `FlagImpliesPublishedCorrect`, `AckedAccountedCorrect`,
  `RejectedRecordedCorrect`; `AckContractCorrect` (an action property, from `Safe` in the
  state before the step); `RevisionBoundedCorrect`, which is inductive by itself.
- `RedisWireProofs`: the invariant `WireInv` and from it the five properties of the run
  `RedisWire`, when no read of a tick times out.
- `DatabasesProofs`: three invariants, one for each kind of behaviour of `Databases`
  (`FilesInv`, `MemInv`, `OpeningInv`), and from them the five properties of its run.
- `FactPipelineProofs`: the invariant `FactsInv` (`FactsKept`) and from it the three
  properties of the run `FactPipeline`.
- `HandoffsAndReadsProofs`, in two sections that share nothing. Handoffs: `HandoffSafeCorrect`
  (each handoff with its context is part of it) and from it `HandoffTypeCorrect` and the two
  properties of the run `Handoffs`. Reads:
  `ReadsInductive` and from it the five properties of the run `Reads`.
- `RelationReviewProofs`: the invariant `ReviewSafe` and from it the four properties of the run
  `RelationReview`.
- `RecordsProofs`: `RecordsInductive` and from it the five properties of the run `Records`.
- `PrefixRecursion`: induction and recursion over prefixes, for the modules above that
  reason about recursive functions.

The argument for the coordinator. `AckedAccounted` is not inductive: an entry is completed by handlers
that decided to do so several steps earlier, and must still be right to. `Safe`
adds what those decisions rest on: a key is in the ledger as committed only if it was
published (`LedgerPublished`); flags mean published and keys are unique
(`OutboxSafe`); what `rejected` holds, the ledger has a record of (`FilesSafe`); a call in
flight has its entry, and at "mark" has been published (`CallSafe`); the locals `done`,
`local`, `applied` and `refused` of a reconciliation name entries that are published or
recorded by the time they are completed (`ReconcileSafe`, `NodeSafe`). Ledger records
never go back to "none" and `published` only grows (`Grown`), so that steps of other
processes keep all of it. The proof has one lemma per group of actions and uses
`Grown` for every process that did not move. TLC checked `Safe` as an invariant of the
three safety runs before it was proved.

The argument for the wire. None of its five properties is inductive: what keeps them is that a
coordinator and its connection agree on which reply answers which request. `WireInv` says so
in four parts. `DbOK` ties the namespace to the history: the revision counts the
transactions, a marker or a committed record means that a transaction had the key, the
snapshot is the last image. `LinkOK` lists what may be on its way on a connection, whether or
not a coordinator still holds it: plain commands, or one transaction, part sent and part
queued, which is `TxOK`: no transaction since its base has one of its keys; and `Ready`: the
server watches, and unless it has seen a write since, the revision is the base. That is why
an abandoned EXEC is harmless. `Knows` is what a coordinator believes: its marks and
conflicts have records, and at the question it is at (`Phase`) the keys it is about to
publish have not been published since the revision it knows. `StreamOK` joins the two: the
n-th reply in the stream is an answer, possibly an old one, to the n-th request of the
exchange (`Fits`), and the rest of the exchange is still with the server (`InExchange`).
Answers stay true because the history only grows (`Grow`), and a transaction of another
connection marks every watching one dirty (`LinkDirtied`, `StreamDirtied`). The proof has one
lemma per command the server serves and one per exchange of a client; all of the latter go
through `NextExchange` or `DroppedMoves`.

The hypothesis `"tick" \notin LateFlows` is the one under which `StreamOK` holds, and the run
`RedisWireLate` shows what is lost without it: `tick` keeps its adapter when a read times out,
so the late reply answers the next command, and a key is marked committed on a reply about
another. Timeouts in opening, attaching and calling, where the adapter is dropped, and resets
at any time are covered.
`CASE` in TLA+ chooses any arm whose guard is true, so the handlers whose guards overlap
are written with `IF`: the order of the early returns is part of what is proved.

The argument for databases. In a directory (`FilesInv`) the name whose log it is, the name the
file has and the archive it may have agree (`NamesWhole`), every file created is under a name
until a confirmed call deletes it (`FilesNamed`), and an operation under way still finds what
it looked for (`LookHolds`). Looks and acts of several processes interleave freely; the three
parts hold until an act changes a name another process has looked at (`overtaken`), the step
with which `ArchiveNotClobbered` begins to fail and a file may lose its last name, see above.
What is shown is thus that nothing but such a step endangers a database. In an image (`MemInv`) the databases are, unless a failed select lost the
catalog, in one of four places: at rest in the image and its catalog (`Steady`); the same,
with the target's image about to be restored over them (`Restoring`); in the new image and the
catalog that the select holds (`Refilling`), of which a part may be written back already. Each
step of a select moves rows between these places and neither loses nor mixes them; that the
image and the selected row of the catalog hold the same rows is needed only where the code
takes one for the other.

The argument for opening a file. `OpeningInv` describes an open at its statement by what the
file already has: everything the script's statements up to there leave behind (`UpTo`), where
a repeated statement finds its effect and does nothing. Statements of other opens and migrations
only add to a file (`Grows`), so what an open in progress has seen stays true, except that
columns it has read as lacking may have been added: that is `Undisturbed`, which holds while
programs do not overlap, and is exactly what an `ALTER TABLE` that fails has lost
(`RaceInv`). A migration publishes by linking its own upgraded copy where no file is, so the
facts of a file only grow (`FactsInv` of that module).

The argument for facts. A store operation reports to the history in a statement of its own,
and a tool cites in a call of its own, after the change; `FactsInv` keeps account of what is
still owed. `Audited`: whatever the state of a fact calls for is a row of the history, or a
call at its last statement owes it (`Owed`). `Provenance`: a fact superseded by one of a named workspace has its citation,
or its invalidation has not returned, or the call that cites is under way (`Citing`).
`Ingesting`: each text of a batch is still to do, cited, or being attached. `Shaped` says
what makes those accounts right: which call each step of a tool has made and for what, and that
what it read of a row before it writes (`seen`) still says the same thing, although other
processes have written to the row since. Two processes may owe the same row; either settles it.
A kill loses what its call owed, which is why the first two are stated for `kills = 0`, and
`IngestComplete`, which speaks of calls that returned, is not. TLC checked `FactsInv` on the
instance of the run before it was proved.

The argument for handoffs. `HandoffSafe` says what a call still knows of rows it read some
statements ago, as long as nobody resets the workspace: rows that had expired when it
began are there and, after its refresh, closed; the row it is about to update is not
one of them; the row it inserted is still there with its reference and owner. Every
statement of every process only lets rows grow (`Grown`: none leaves, none opens
again, key, reference, owner and expiry stay) or is a reset, so the knowledge of the calls that did
not move is kept (`OthersKept`), and the unique key makes the final SELECT find the
call's own row. `Ids` (no gap in the ids) makes SQLite's next id a new one. TLC checked
`HandoffSafe` on the instance of the run before it was proved.

The argument for the review. `ReviewSafe` adds to the properties what a confirmation under way
knows (`InFlight`): its candidate exists and has the names of its edge, once it is at its
last statement the edge is there; and, while calls do not overlap, the candidate is
still to be decided and the edge has its source. A step of another process leaves candidates,
their names and edges in place (`Widened`) except the last step of a reset, which empties
the candidates: a reset that runs beside another call is what `ConfirmedInGraph` excludes, and
without it there is no other call (`Single`). `Askers` carries, for each edge, a call that
asked for it and that is a direct one, confirmed, or about to be, which is why no
rejection is about it. `Ids` again makes the next row id a new one. The proof has one lemma
per action; those that write no candidate and no edge go through `QuietKeeps`. TLC checked
every part of `ReviewSafe` on the instance of the run first.

Recursive definitions. What `Outbox::pending` makes of a file, what a reduction makes of
its parents, the hops of a walk and the chunks of a page are recursive functions. The induction theorems of the library take an
operator as a parameter, which the provers cannot instantiate, so `PrefixRecursion` states
induction up to a bound about a set (`InductionUpTo`) and derives from it that a function
defined step by step over `0 .. N` exists (`PrefixRecursionExists`): the step is a function
too, an argument and not a parameter. A definition by recursion then equals that function,
and facts about it follow by induction over a set of indices (`FoldSteps`, `FoldAppend`,
`FoldSnapshot`; `FlattenSteps`).

The argument for the log. `LogInv(p)` says that the lines in the file are whole, that `shown`
is the queue they fold to whenever no operation is under way, that a line about to be
written is one the queue was asked for (`LineDecided`), and that what a compaction is about
to truncate or rename folds to the same queue (`CompactFaithful`). A newline and a
temporary file change nothing a reader folds; a line written changes the fold by one
operation, which is what makes the mapping a refinement (`FoldMoves`). The hypotheses of both
theorems, one writer and no kill inside a line, are the ones without which the code breaks
the property: see `EntriesKept` and `DurableEntryReadable` above.

The argument for records. `RecordsInv` adds three things to the properties. Every row of every
table was stored by a call that was made (`TablesOK`, `RunTablesOK`), which is why a call
that finds a row other than its own may blame another call for it (`RefusedOK`). What a call
under way knows (`FrameOK`, `RunKnows`): a document has its chunks up to the one it is at; a
content gathered so far joins the contents of the parents read so far; each parent is linked
or its link is still to come; an ending that does not overlap finds its run open. And what a
call left when it returned (`AckedOK`, `EndedOK`). Rows of contexts are never changed, so
calls that do not move keep their knowledge; a reset ends it (`tornByReset`).
The contents of an event's context are
claimed for captures with an event_kind only, whose context has a reference of their own.
`RepeatsHonoured` turned out to need no assumption about overlapping calls, and states none.
TLC checked each part on the instance of the run before it was proved.

The argument for reads. `QueryInv` follows a call through its statements. `Watched` ties the
histories to the tables: what could be answered now has been `seen`, what has no archived mark
`shown`, and what is `steady` is usable now. `Answers` says that every fact a search holds, in
whichever list, may be answered, at the `valid_at` if it was admitted by one, and that a row it
has still to look at tells the truth about a steady fact; it makes
`NothingHiddenServed` hold although a row may be older than the evidence it is joined to.
`Complete` accounts for what must not be missed: at each place of the call, what matches and
is steady is among the facts kept, or queued, or in the list of the words. Fusing the ranks
keeps it because the lists are cut to a limit only when they exceed it, which is where the
condition of `NothingMissed` comes from. For the order of the ranks it is proved that the
rows of a finite set can be listed by any strict total order (`InOrderLists`). For graphs,
`Walked` relates what one pass over the relations has added to what there was to follow; two
hops give the neighbourhood (`NeighborhoodWhole`), since requests ask for a depth of 0 to 2.
`Diagnosed` is the like of `Answers` and `Complete` for a diagnosis; its rows are the first of
those found, all of them when they do not exceed the limit. The proof has one lemma
per action; changes by others go through `OthersKeep`. `PageInv` says that a client has the
text up to where its pages reach (`Cover`): a chunk that begins no later than that leaves the
text whole (`ChunkJoins`), and the number of the parts is what makes the last one end with the
text (`ContextChunks`, `FactChunks`). For the split by bytes (`SplitWhole`): until it is over,
its pieces and the one under way are the text so far, and none exceeds the limit (`PiecesTrue`);
what one more character or piece adds (`WidthAppend`, `ConcatAppend`) is induction over prefixes.
TLC checked `QueryInv` on the instance of the run before it was proved.

Only model-checked: `ServedExactly` and `CacheMatchesNative` (a single process, so not
statements about every value of the constants) and `OutboxDrains` (liveness).

## Not modelled

Metrics and `status()`. Of Redis: size limits beyond "a projection fails", manifests, reads of
single native records, frames cut in the middle, expiry of operation markers after seven days
(ledger records do not expire and are read first), refusals during a replay and the
checkpoint in `RedisWire` (`Coordinator` has both). Of the store: failures of SQLite itself
outside `Databases`; decisions, categories, embeddings and access counts; workspace
registration and archiving, which set a flag nothing else reads; lists and filters of events.
Of the pipeline: prompts, backfill and categorization, which repeat one store operation per
fact; session_expand. Of the protocol: JSON-RPC, argument validation, tool schemas. Providers,
the entry points and the benchmark are I/O. Reasons per component are in `PROJECT.json`.

## Plan

Done: coordinator, outbox and log; handoffs; the wire; databases, schema and migration; facts
and pipeline; review; records; reads. Left, in this order:

1. Decisions and their conflicts beside facts; `Facts` shown to refine a history-complete
   abstract table.
2. Proofs: `ServedExactly` and `CacheMatchesNative` for one process.
3. What the ledger's deduplication guarantees for repeats of one key, counted per call, beyond
   `Steady`; markers that expire.
