-------------------------------- MODULE Facts --------------------------------
(***************************************************************************)
(* The facts table and its history under several processes on one SQLite   *)
(* file.  No operation of the store is a transaction: each statement       *)
(* commits by itself, and another process may run between any two.  A      *)
(* process runs one store operation at a time (call); what it is for is    *)
(* the caller's (FactPipeline), which finds the result in the call once it *)
(* is done.                                                                *)
(*                                                                         *)
(* A fact is a row: text (its hash and its workspace identify it),         *)
(* lifecycle, validity, strong, confirmed, archived and superseded_by; its *)
(* trust is high if it was created so or has been confirmed.  A member of  *)
(* Texts is a text in its workspace: the empty one, which every caller     *)
(* sees (Shared), or the one named workspace.  History and evidence are    *)
(* sets of rows without order or time.                                     *)
(***************************************************************************)
EXTENDS Naturals, Sequences, FiniteSets

CONSTANTS Procs,       \* processes of the server
          Texts,       \* fact texts, each in its workspace
          Shared,      \* those in the empty workspace, the tools' default
          Metas,       \* what callers give with a text: strong, trust high
          Seeds,       \* the facts already stored: a sequence of texts
          MaxFacts,    \* bound: rows of facts
          MaxKills     \* bound: kills of a process

ASSUME FactsAssumption ==
  /\ Seeds \in Seq(Texts) /\ Shared \subseteq Texts
  /\ Metas \subseteq [strong: BOOLEAN, high: BOOLEAN]
  /\ MaxFacts \in Nat /\ Len(Seeds) <= MaxFacts

VARIABLES facts,       \* sequence of rows; the id of a fact is its index
          history,     \* rows of fact_history: <<fact, event>>
          evidence,    \* rows of evidence: <<fact, source_ref>>
          call,        \* by process: the store operation under way
          kills

factVars == <<facts, history, evidence, call, kills>>

Ids == 1..MaxFacts
None == 0
Session == 0           \* the source_ref that names the session; others name a fact

Plain == [strong |-> FALSE, high |-> FALSE]
NewFact(t, meta) ==
  [text |-> t, life |-> "active", valid |-> "valid", strong |-> meta.strong,
   high |-> meta.high, confirmed |-> FALSE, archived |-> FALSE, sup |-> None]

NoCall == [op |-> "none", at |-> "idle", id |-> None, arg |-> None,
           meta |-> Plain, seen |-> None, ok |-> FALSE]

FactsInit ==
  /\ facts \in {[i \in 1..Len(Seeds) |-> NewFact(Seeds[i], meta[i])] :
                  meta \in [1..Len(Seeds) -> Metas]}
  /\ history = {<<i, "created">> : i \in 1..Len(Seeds)}
  /\ evidence = {}
  /\ call = [p \in Procs |-> NoCall]
  /\ kills = 0

Stored == DOMAIN facts
IdOf(t) == IF \E i \in Stored : facts[i].text = t
           THEN CHOOSE i \in Stored : facts[i].text = t
           ELSE None
\* A call in t's workspace sees its own facts and those of the empty one.
Sees(t, i) == facts[i].text \in Shared \/ t \notin Shared
\* search_facts and list_facts: neither forgotten nor invalid.
Recalled == {i \in Stored : facts[i].life # "forgotten" /\ facts[i].valid # "invalid"}

Free(p) == call[p].at \in {"idle", "done"}
At(p, op, at) == call[p].op = op /\ call[p].at = at
Goto(p, at) == call' = [call EXCEPT ![p].at = at]
Done(p, ok) == call' = [call EXCEPT ![p].at = "done", ![p].ok = ok]
StartWith(p, meta, op, id, arg) ==
  call' = [call EXCEPT ![p] = [op |-> op, at |-> "read", id |-> id, arg |-> arg,
                               meta |-> meta, seen |-> None, ok |-> FALSE]]
Start(p, op, id, arg) == StartWith(p, Plain, op, id, arg)
Record(i, event) == history' = history \cup {<<i, event>>}

(* remember_fact_with_metadata: SELECT by hash, INSERT OR IGNORE, SELECT   *)
(* again, and "created" in the history when the first SELECT found nothing.*)
RememberRead(p) ==
  /\ At(p, "remember", "read")
  /\ call' = [call EXCEPT ![p].at = "write", ![p].seen = IdOf(call[p].arg)]
  /\ UNCHANGED <<facts, history, evidence, kills>>

RememberWrite(p) ==
  LET t == call[p].arg
      isNew == IdOf(t) = None
      id == IF isNew THEN Len(facts) + 1 ELSE IdOf(t)
  IN /\ At(p, "remember", "write")
     /\ isNew => id \in Ids
     /\ facts' = IF isNew THEN Append(facts, NewFact(t, call[p].meta)) ELSE facts
     /\ call' = [call EXCEPT ![p].at = IF call[p].seen = None THEN "log" ELSE "done",
                             ![p].id = id, ![p].ok = TRUE]
     /\ UNCHANGED <<history, evidence, kills>>

(* update_fact_lifecycle: the row is read, written by id, and the change   *)
(* logged; a row already in the wanted lifecycle has archived rewritten.   *)
(* sweep_freshness, forget_fact and restore_fact end in it.                *)
LifecycleRead(p) ==
  /\ At(p, "lifecycle", "read")
  /\ call' = [call EXCEPT ![p].at = "write", ![p].seen = facts[call[p].id].life]
  /\ UNCHANGED <<facts, history, evidence, kills>>

LifecycleWrite(p) ==
  LET c == call[p]
  IN /\ At(p, "lifecycle", "write")
     /\ facts' = [facts EXCEPT ![c.id].archived = (c.arg = "forgotten"),
                               ![c.id].life = IF c.seen = c.arg THEN @ ELSE c.arg]
     /\ call' = [call EXCEPT ![p].at = IF c.seen = c.arg THEN "done" ELSE "log",
                             ![p].ok = TRUE]
     /\ UNCHANGED <<history, evidence, kills>>

(* confirm_fact: valid, active, confirmed and of high trust whatever the   *)
(* row held when it was read; archived stays.  It is logged unless the row *)
(* was read valid, active and of high trust already.                       *)
ConfirmReadUntrusted(p) ==
  LET f == facts[call[p].id]
  IN /\ At(p, "confirm", "read")
     /\ call' = [call EXCEPT ![p].at = "write",
                   ![p].seen = f.valid = "valid" /\ f.life = "active"]
     /\ UNCHANGED <<facts, history, evidence, kills>>
ConfirmRead(p) ==
  LET f == facts[call[p].id]
  IN /\ At(p, "confirm", "read")
     /\ call' = [call EXCEPT ![p].at = "write",
                   ![p].seen = f.valid = "valid" /\ f.life = "active" /\ (f.high \/ f.confirmed)]
     /\ UNCHANGED <<facts, history, evidence, kills>>

ConfirmWrite(p) ==
  LET i == call[p].id
  IN /\ At(p, "confirm", "write")
     /\ facts' = [facts EXCEPT ![i].valid = "valid", ![i].life = "active", ![i].confirmed = TRUE]
     /\ call' = [call EXCEPT ![p].at = IF call[p].seen THEN "done" ELSE "log", ![p].ok = TRUE]
     /\ UNCHANGED <<history, evidence, kills>>

\* set_fact_validity, which remember_fact calls with the caller's validity.
ValidityRead(p) ==
  /\ At(p, "validity", "read")
  /\ IF facts[call[p].id].valid = call[p].arg THEN Done(p, TRUE) ELSE Goto(p, "write")
  /\ UNCHANGED <<facts, history, evidence, kills>>

ValidityWrite(p) ==
  /\ At(p, "validity", "write")
  /\ facts' = [facts EXCEPT ![call[p].id].valid = call[p].arg]
  /\ call' = [call EXCEPT ![p].at = "log", ![p].ok = TRUE]
  /\ UNCHANGED <<history, evidence, kills>>

\* invalidate_fact: old and new distinct, the old one not strong.
InvalidateRead(p) ==
  LET c == call[p]
  IN /\ At(p, "invalidate", "read")
     /\ IF c.id = c.arg \/ facts[c.id].strong THEN Done(p, FALSE) ELSE Goto(p, "write")
     /\ UNCHANGED <<facts, history, evidence, kills>>

InvalidateWriteOnce(p) ==
  LET c == call[p]
  IN /\ At(p, "invalidate", "write")
     /\ facts' = [facts EXCEPT ![c.id].valid = "invalid", ![c.id].sup = c.arg]
     /\ call' = [call EXCEPT ![p].at = "log", ![p].ok = (facts[c.id].sup = None)]
     /\ UNCHANGED <<history, evidence, kills>>
InvalidateWrite(p) ==
  LET c == call[p]
  IN /\ At(p, "invalidate", "write")
     /\ facts' = [facts EXCEPT ![c.id].valid = "invalid", ![c.id].sup = c.arg]
     /\ call' = [call EXCEPT ![p].at = "log", ![p].ok = TRUE]
     /\ UNCHANGED <<history, evidence, kills>>

\* record_fact_history, the last statement of each of them.
EventOf(c) == CASE c.op = "remember" -> "created"
                [] c.op = "lifecycle" -> c.arg
                [] c.op = "confirm" -> "confirmed"
                [] c.op = "validity" -> "validity"
                [] c.op = "invalidate" -> "invalidated"
Log(p) ==
  /\ call[p].at = "log"
  /\ Record(call[p].id, EventOf(call[p]))
  /\ Goto(p, "done")
  /\ UNCHANGED <<facts, evidence, kills>>

(* attach_evidence: SELECT, then INSERT under UNIQUE(fact, source_ref); it *)
(* refuses the empty workspace, and a row that differs from the one it     *)
(* finds or that another process inserted meanwhile.  Its callers here     *)
(* drop the error.                                                         *)
Attach(p) ==
  LET refused == facts[call[p].id].text \in Shared
  IN /\ At(p, "attach", "read")
     /\ evidence' = evidence \cup (IF refused THEN {} ELSE {<<call[p].id, call[p].arg>>})
     /\ Done(p, ~refused)
     /\ UNCHANGED <<facts, history, kills>>

StoreStep(p) ==
  \/ RememberRead(p) \/ RememberWrite(p)
  \/ LifecycleRead(p) \/ LifecycleWrite(p)
  \/ ConfirmRead(p) \/ ConfirmWrite(p)
  \/ ValidityRead(p) \/ ValidityWrite(p)
  \/ InvalidateRead(p) \/ InvalidateWrite(p)
  \/ Log(p) \/ Attach(p)
================================================================================
