---------------------------- MODULE OutboxQueue ----------------------------
(***************************************************************************)
(* What the outbox promises its callers: a queue of entries with one entry *)
(* per key, changed only by whole operations.                              *)
(***************************************************************************)
EXTENDS Outbox

VARIABLE queue

QueueInit == queue = <<>>

Enqueue(k) == queue' = AppendPending(queue, k)
Flag(k) == HasKey(queue, k) /\ queue' = MarkCommitted(queue, k)
Remove(k) == queue' = Complete(queue, k)

QueueNext == \E k \in OutboxKeys : Enqueue(k) \/ Flag(k) \/ Remove(k)

QueueSpec == QueueInit /\ [][QueueNext]_queue
=============================================================================
