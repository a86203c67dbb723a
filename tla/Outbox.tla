------------------------------- MODULE Outbox -------------------------------
(***************************************************************************)
(* The durable outbox as its readers see it: the entries Outbox::pending   *)
(* folds out of the JSONL log, in the order their keys were first logged.  *)
(* OutboxLog.tla shows that the log implements these operations.           *)
(***************************************************************************)
EXTENDS Naturals, Sequences, FiniteSets

CONSTANT OutboxKeys

Entries == [key : OutboxKeys, committed : BOOLEAN]

Position(q, k) == {i \in DOMAIN q : q[i].key = k}

HasKey(q, k) == \E i \in DOMAIN q : q[i].key = k

Queued(q, k, flag) == \E i \in DOMAIN q : q[i] = [key |-> k, committed |-> flag]

UniqueKeys(q) == \A i, j \in DOMAIN q : q[i].key = q[j].key => i = j

(* Slips the runs must notice: a flag on every entry, a clear for a        *)
(* removal, no removal, positions for keys.                                *)
MarkAll(q, k) == [i \in DOMAIN q |-> [q[i] EXCEPT !.committed = TRUE]]
RemoveAll(q, k) == <<>>
RemoveNothing(q, k) == q
BatchPositions(q, flag, limit) == {j \in DOMAIN q : q[j].committed = flag}

(* An identical call that is still pending is not recorded again.          *)
AppendPending(q, k) ==
    IF HasKey(q, k) THEN q ELSE Append(q, [key |-> k, committed |-> FALSE])

(* The entry is rewritten in place: it keeps its position.                 *)
MarkCommitted(q, k) ==
    [i \in DOMAIN q |-> IF q[i].key = k THEN [q[i] EXCEPT !.committed = TRUE] ELSE q[i]]

(* Keys are unique in q, so retain drops at most one entry.                *)
Complete(q, k) ==
    IF ~HasKey(q, k) THEN q
    ELSE LET i == CHOOSE j \in DOMAIN q : q[j].key = k
         IN  SubSeq(q, 1, i - 1) \o SubSeq(q, i + 1, Len(q))

(* The keys of the first limit entries that carry the given flag.          *)
FirstBatch(q, flag, limit) ==
    {q[i].key : i \in {j \in DOMAIN q :
        /\ q[j].committed = flag
        /\ Cardinality({h \in 1..(j - 1) : q[h].committed = flag}) < limit}}

(* k is the entry of S that comes first in the outbox.                     *)
IsFirst(q, S, k) ==
    /\ k \in S
    /\ \A j \in S : \A h \in Position(q, j) : \E i \in Position(q, k) : i <= h
=============================================================================
