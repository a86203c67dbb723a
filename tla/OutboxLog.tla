----------------------------- MODULE OutboxLog -----------------------------
(***************************************************************************)
(* struct Outbox of backend.rs: the append-only JSONL file behind the      *)
(* queue, its size limit, and its compaction through a temporary file that *)
(* is renamed over it.  The coordinator's mutex admits one operation of a  *)
(* process at a time; no lock keeps a second process off the file, which   *)
(* lies beside the database.  A process may be killed between two writes.  *)
(***************************************************************************)
EXTENDS Outbox, SequencesExt

CONSTANTS
    Writers,   \* processes whose database is the one beside the log
    MaxLines,  \* MAX_OUTBOX_BYTES, counted in lines
    MaxKills,  \* bound: how often the process is killed
    TornKills  \* a kill may fall between the two write_all calls of an append

ASSUME LogAssumption ==
    /\ MaxLines \in Nat \ {0}
    /\ MaxKills \in Nat
    /\ TornKills \in BOOLEAN

VARIABLES
    file,   \* the lines of the .outbox.jsonl file
    ended,  \* the last line is followed by its newline
    temp,   \* what the compact of a writer has written to its temporary file
    op,     \* the operation in progress of a writer
    done,   \* history: the queue the last call that returned Ok leaves
    kills   \* kills so far

logVars == <<file, ended, temp, op, done, kills>>

(* A line holds one event; two events on a line are not JSON.              *)
Lines == [event : {"pending", "completed", "garbled"}, key : OutboxKeys, committed : BOOLEAN]

Pending(k, flag) == [event |-> "pending", key |-> k, committed |-> flag]
Completed(k) == [event |-> "completed", key |-> k, committed |-> FALSE]

(* orphan: the file opened for the append has been renamed over since.     *)
Idle == [step |-> "idle", line |-> {}, remaining |-> <<>>, orphan |-> FALSE]
Does(step, line, remaining) ==
    [step |-> step, line |-> line, remaining |-> remaining, orphan |-> FALSE]
SetOp(p, o) == op' = [op EXCEPT ![p] = o]
SetTemp(p, lines) == temp' = [temp EXCEPT ![p] = lines]

-----------------------------------------------------------------------------
(* Outbox::pending.                                                        *)
Readable(lines) == \A i \in DOMAIN lines : lines[i].event # "garbled"

(* retain: entry by entry, those of other keys.                            *)
Retained(q, k) ==
    LET kept[n \in 0 .. Len(q)] ==
          IF n = 0 THEN <<>>
          ELSE IF q[n].key = k THEN kept[n - 1] ELSE Append(kept[n - 1], q[n])
    IN kept[Len(q)]

(* Slips: a repeated key moves to the end; compaction loses the flag.      *)
PutLast(q, e) == Append(Retained(q, e.key), e)
UnflaggedSnapshot(q) == [i \in DOMAIN q |-> Pending(q[i].key, FALSE)]

Put(q, e) ==
    IF HasKey(q, e.key)
    THEN [i \in DOMAIN q |-> IF q[i].key = e.key THEN e ELSE q[i]]
    ELSE Append(q, e)

ReadLine(q, line) ==
    IF line.event = "pending"
    THEN Put(q, [key |-> line.key, committed |-> line.committed])
    ELSE Retained(q, line.key)

(* The entries after each line, from those after the line before it.       *)
Fold(lines) ==
    LET after[n \in 0 .. Len(lines)] ==
          IF n = 0 THEN <<>> ELSE ReadLine(after[n - 1], lines[n])
    IN after[Len(lines)]

Snapshot(q) == [i \in DOMAIN q |-> Pending(q[i].key, q[i].committed)]

-----------------------------------------------------------------------------
LogInit ==
    /\ file = <<>>
    /\ ended = TRUE
    /\ temp = [p \in Writers |-> <<>>]
    /\ op = [p \in Writers |-> Idle]
    /\ done = <<>>
    /\ kills = 0

(* append() refuses a line over the limit, before it writes.               *)
StartAppend(p, line, next) ==
    IF Len(file) < MaxLines THEN SetOp(p, Does("body", line, next)) ELSE op' = op

(* Every caller has read the queue before it writes: a file that cannot be *)
(* parsed stops them all.                                                  *)
Start(p) == op[p].step = "idle" /\ Readable(file) /\ UNCHANGED <<file, ended, temp, done, kills>>

AppendPendingCall(p, k) ==
    /\ Start(p)
    /\ ~HasKey(Fold(file), k)
    /\ StartAppend(p, Pending(k, FALSE), AppendPending(Fold(file), k))

MarkEntryCall(p, k) ==
    /\ Start(p)
    /\ HasKey(Fold(file), k)
    /\ StartAppend(p, Pending(k, TRUE), MarkCommitted(Fold(file), k))

CompleteCall(p, k) ==
    /\ Start(p)
    /\ StartAppend(p, Completed(k), Complete(Fold(file), k))

CompactCall(p) ==
    /\ Start(p)
    /\ SetOp(p, Does(IF Fold(file) = <<>> THEN "truncate" ELSE "temporary", {}, Fold(file)))

(* The first write_all: on a line of its own, or behind what somebody left *)
(* without a newline.                                                      *)
WriteBody(p) ==
    /\ op[p].step = "body"
    /\ IF op[p].orphan THEN UNCHANGED <<file, ended>>
       ELSE /\ file' = IF ended THEN Append(file, op[p].line)
                       ELSE Front(file) \o <<[Last(file) EXCEPT !.event = "garbled"]>>
            /\ ended' = FALSE
    /\ SetOp(p, [op[p] EXCEPT !.step = "newline"])
    /\ UNCHANGED <<temp, done, kills>>

WriteNewline(p) ==
    /\ op[p].step = "newline"
    /\ ended' = (ended \/ ~op[p].orphan)
    /\ SetOp(p, Idle)
    /\ done' = op[p].remaining
    /\ UNCHANGED <<file, temp, kills>>

Truncate(p) ==
    /\ op[p].step = "truncate"
    /\ file' = <<>> /\ ended' = TRUE
    /\ SetOp(p, Idle)
    /\ UNCHANGED <<temp, done, kills>>

WriteTemporary(p) ==
    /\ op[p].step = "temporary"
    /\ IF Len(temp[p]) < Len(op[p].remaining)
       THEN SetTemp(p, Snapshot(SubSeq(op[p].remaining, 1, Len(temp[p]) + 1))) /\ op' = op
       ELSE SetOp(p, [op[p] EXCEPT !.step = "rename"]) /\ UNCHANGED temp
    /\ UNCHANGED <<file, ended, done, kills>>

Rename(p) ==
    /\ op[p].step = "rename"
    /\ file' = temp[p] /\ ended' = TRUE
    /\ SetTemp(p, <<>>)
    /\ op' = [q \in Writers |-> IF q = p THEN Idle
                               ELSE [op[q] EXCEPT !.orphan = @ \/ op[q].step \in {"body", "newline"}]]
    /\ UNCHANGED <<done, kills>>

(* A killed compaction leaves its temporary file; its name is never used   *)
(* again.                                                                  *)
Kill(p) ==
    /\ kills < MaxKills
    /\ op[p].step # "idle"
    /\ op[p].step = "newline" => TornKills
    /\ kills' = kills + 1
    /\ SetOp(p, Idle)
    /\ SetTemp(p, <<>>)
    /\ UNCHANGED <<file, ended, done>>

LogNext == \E p \in Writers :
    \/ \E k \in OutboxKeys : AppendPendingCall(p, k) \/ MarkEntryCall(p, k) \/ CompleteCall(p, k)
    \/ CompactCall(p)
    \/ WriteBody(p) \/ WriteNewline(p)
    \/ Truncate(p) \/ WriteTemporary(p) \/ Rename(p)
    \/ Kill(p)

LogSpec == LogInit /\ [][LogNext]_logVars

-----------------------------------------------------------------------------
(* The fold of the file moves only by whole queue operations: a reader     *)
(* sees no half-done call and no effect of a compaction, killed or not.    *)
Queue == INSTANCE OutboxQueue WITH queue <- Fold(file)
LogImplementsQueue == Queue!QueueSpec

(* What the last successful call left is what the next reader finds, in    *)
(* the same order, through kills and compactions.                          *)
ReadersAgree == (\A p \in Writers : op[p].step = "idle") /\ ended => Fold(file) = done

(* Every entry a successful call left pending can be read back.  Fails     *)
(* when a kill may fall inside a line (TornKills); a known limit, see the  *)
(* README.                                                                 *)
DurableEntryReadable == Readable(file)

(* docs/current-contract.md:193, "multiple local writers sharing one       *)
(* explicitly configured file": a logged entry goes only when a writer     *)
(* logs its completion.  Fails with two Writers; a known limit, see the    *)
(* README.                                                                 *)
EntriesKept ==
    [][\A k \in OutboxKeys :
         (ended /\ HasKey(Fold(file), k) /\ ~HasKey(Fold(file'), k)) =>
             \E p \in Writers : op[p].step = "body" /\ op[p].line = Completed(k)]_logVars
=============================================================================
