-------------------------- MODULE CoordinatorProps --------------------------
(***************************************************************************)
(* What the coordinator promises about acknowledged writes.                *)
(***************************************************************************)
EXTENDS Coordinator

(* Type invariant of the coordinator's state, in the parts Coordinator.tla *)
(* declares it in.  A handler that reached one of CallLabels has its call. *)
CallLabels == {"execute", "publish", "mark", "abort", "record", "record_set"}

RedisTypeOK ==
    /\ redisUp \in BOOLEAN /\ schema \in BOOLEAN
    /\ revision \in Nat
    /\ snapshot \in Images /\ native \in Images
    /\ ledger \in [Keys -> {"none", "conflict", "committed"}]
    /\ published \in SUBSET Keys

FilesTypeOK ==
    /\ standby \in [Nodes -> Images]
    /\ outbox \in [Nodes -> Seq(Entries)]
    /\ rejected \in [Nodes -> SUBSET Keys]
    /\ full \in [Nodes -> SUBSET {"log", "audit"}]

NodeTypeOK ==
    /\ mem \in [Nodes -> Memory]
    /\ pc \in [Nodes -> Labels]
    /\ work \in [Nodes -> Work]
    /\ \A n \in Nodes : pc[n] \in CallLabels => work[n].key \in Keys

CallsTypeOK ==
    /\ issued \in [Nodes -> [Keys -> Nat]]
    /\ acked \in [Nodes -> [Keys -> Nat]]
    /\ shadowed \in [Nodes -> SUBSET Keys]

TypeOK == RedisTypeOK /\ FilesTypeOK /\ NodeTypeOK /\ CallsTypeOK /\ faults \in Nat

(* The fold of the outbox log never yields two entries of one key, so      *)
(* completing a key leaves nothing of it behind.                           *)
OutboxKeysUnique == \A n \in Nodes : UniqueKeys(outbox[n])

(* An entry carries redis_committed only if some EXEC put its key in the   *)
(* ledger: otherwise mirroring would drop a write Redis never had.         *)
FlagImpliesPublished ==
    \A n \in Nodes : \A i \in DOMAIN outbox[n] :
        outbox[n][i].committed => outbox[n][i].key \in published

(* An acknowledged call stays accounted for whatever fails in between: it  *)
(* was published, waits in the outbox of its node, or was rejected with a  *)
(* record in the reconciliation audit.  Calls the store may refuse are     *)
(* left out: the failure of a repeated one removes the entry it shares     *)
(* with the acknowledged first.                                            *)
Accounted(n, k) == k \in published \/ HasKey(outbox[n], k) \/ k \in rejected[n]

AckedAccounted ==
    \A n \in Nodes, k \in NeverRefused : acked[n][k] > 0 => Accounted(n, k)

(* docs/decisions/ADR-0001, "does not silently discard outbox entries": an *)
(* entry is rejected only when the shared ledger says why, whichever node  *)
(* wrote it there.                                                         *)
RejectedRecorded ==
    \A n \in Nodes : \A k \in rejected[n] : ledger[k] # "none"

(* No node believes in a revision Redis has not reached.                   *)
RevisionBounded ==
    \A n \in Nodes : mem[n].link # "none" =>
        /\ mem[n].snapshotRevision <= mem[n].revision
        /\ mem[n].revision <= revision

(* docs/current-contract.md:317-319.  At the step that acknowledges a call *)
(* on SQLite, the SQLite image has its effect and the outbox its entry; on *)
(* Redis, an EXEC has published it.                                        *)
AckContract ==
    [][\A n \in Nodes, k \in Keys : acked'[n][k] > acked[n][k] =>
         IF mem'[n].link = "none"
         THEN standby'[n][k] > 0 /\ HasKey(outbox'[n], k)
         ELSE k \in published']_vars

(* A single uninterrupted process: what its tools read is exactly what it  *)
(* acknowledged, through every fallback and reconnection, until it         *)
(* acknowledges on SQLite a call identical to one Redis already has.       *)
Steady(n) == shadowed[n] = {}

ServedExactly ==
    \A n \in Nodes : pc[n] = "idle" /\ Steady(n) =>
        \A k \in Keys :
            Served(n)[k] = IF k \in Appends THEN acked[n][k]
                           ELSE IF acked[n][k] > 0 THEN 1 ELSE 0

(* The cache a delta is computed against is what Redis holds: a single     *)
(* attached process knows the native records of every workspace it serves, *)
(* or it would send too few changes; again until a call is shadowed.       *)
CacheMatchesNative ==
    \A n \in Nodes : (pc[n] = "idle" /\ Steady(n) /\ Reachable(n) /\ mem[n].revision = revision) =>
        LET known == KnownWorkspaces(mem[n].active)
        IN  /\ Project(mem[n].cache, known) = Project(native, known)
            /\ ~Uncommitted(outbox[n]) => Project(native, known) = Project(mem[n].active, known)

(* Known limits (README): the next four do not hold of the code, and their *)
(* configurations show how.                                                *)

(* docs/current-contract.md:301-303, "records every degraded-mode write in *)
(* a durable, idempotent outbox", from where it is published after         *)
(* recovery.  Fails (CoordinatorRepeat.cfg): a repeated call finds the     *)
(* entry of the first, which Redis has committed and nobody will publish.  *)
DegradedWriteRecorded ==
    [][\A n \in Nodes, k \in Keys :
         (acked'[n][k] > acked[n][k] /\ mem'[n].link = "none") => Queued(outbox'[n], k, FALSE)]_vars

(* A committed ledger record is final.  Fails (CoordinatorLedger.cfg): the *)
(* ledger is read and written in two commands.                             *)
LedgerCommittedFinal ==
    [][\A k \in Keys : ledger[k] = "committed" => ledger'[k] = "committed"]_vars

(* A running process serves every call it acknowledged.  Fails             *)
(* (CoordinatorRestart.cfg): a restart restores the last full snapshot.    *)
AckedWritesServed ==
    \A n \in Nodes : pc[n] = "idle" =>
        \A k \in Keys : acked[n][k] > 0 => Served(n)[k] > 0

(* Mirroring applies no append more often than it was called.  Fails       *)
(* (CoordinatorRepeat.cfg with MaxCalls = 1): a fallback copies a published*)
(* append into the standby, and its entry, still queued, is mirrored again.*)
StandbyAppliesOnce ==
    \A n \in Nodes, k \in Appends : standby[n][k] <= issued[n][k]

(* The watcher and a started handler keep running.                         *)
CallStep(n) ==
    \/ ExecuteAccepted(n) \/ ExecuteRefused(n) \/ AbortCall(n)
    \/ CallPublished(n) \/ CallUnpublished(n) \/ CallConflict(n) \/ MarkCall(n)

Fairness ==
    \A n \in Nodes : /\ WF_vars(CallStep(n))
                     /\ WF_vars(Connect(n))
                     /\ WF_vars(Reconcile(n))
                     /\ WF_vars(Restart(n))

FairSpec == Spec /\ Fairness

(* A committed entry that the standby, or the active copy, refuses.        *)
Refused(n) ==
    \/ /\ pc[n] = "mirror"
       /\ \E k \in work[n].todo :
            /\ IsFirst(outbox[n], work[n].todo, k)
            /\ ~Accepts(standby[n], k) /\ k \notin Tolerated
    \/ /\ pc[n] = "replay"
       /\ \E k \in work[n].todo :
            IsFirst(outbox[n], work[n].todo, k) /\ ~Accepts(mem[n].active, k)

(* Once Redis stays up, no broken stream is held, both files have room and *)
(* no committed entry is refused, the outbox drains.  Each of the three    *)
(* latter conditions is needed: the code itself never gets rid of a full   *)
(* log that holds a committed entry, of a full audit, or of an entry the   *)
(* standby refuses.                                                        *)
OutboxDrains ==
    \A n \in Nodes :
        <>[](redisUp /\ mem[n].link # "dead" /\ full[n] = {} /\ ~Refused(n))
            => <>[](outbox[n] = <<>>)

=============================================================================
