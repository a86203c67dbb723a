----------------------------- MODULE FactPipeline -----------------------------
(***************************************************************************)
(* The tools that write facts (protocol.rs) and the multi-step ones of     *)
(* pipeline.rs: ingest_turn, absorb, consolidate and the verification of   *)
(* new facts, with a language-model provider that may fail or answer       *)
(* anything of the right shape.  A tool is a task of its process; the      *)
(* store operations it is made of are the calls of Facts, and what it read *)
(* before a provider call it still believes after it.                      *)
(***************************************************************************)
EXTENDS Facts, SequencesExt

CONSTANTS Tools,       \* which tools the instance runs
          MaxTasks     \* bound: tool calls

VARIABLES task,        \* by process: the tool call under way
          tasks,       \* tool calls started
          ingested     \* <<text, session given>> of the ingest_turn calls that returned

vars == <<factVars, task, tasks, ingested>>

(* todo: texts or ids still to handle; mine: ids the task created; into:   *)
(* the fact a merge keeps; given: the texts of an ingest_turn, and cite    *)
(* whether it names a session.                                             *)
NoTask == [tool |-> "none", step |-> "idle", todo |-> <<>>, mine |-> <<>>,
           into |-> None, given |-> {}, cite |-> FALSE]

Init ==
  /\ FactsInit
  /\ task = [p \in Procs |-> NoTask]
  /\ tasks = 0
  /\ ingested = {}

Ready(p, tool, step) == task[p].tool = tool /\ task[p].step = step /\ Free(p)
BeginWith(p, tool, step, todo, given, cite) ==
  /\ tool \in Tools
  /\ task[p] = NoTask
  /\ tasks < MaxTasks
  /\ tasks' = tasks + 1
  /\ task' = [task EXCEPT ![p] =
                [NoTask EXCEPT !.tool = tool, !.step = step, !.todo = todo,
                               !.given = given, !.cite = cite]]
Begin(p, tool, step, todo) == BeginWith(p, tool, step, todo, {}, FALSE)
Set(p, t) == task' = [task EXCEPT ![p] = t]
EndTask(p) ==
  /\ Set(p, NoTask)
  /\ call' = [call EXCEPT ![p] = NoCall]
Quiet == UNCHANGED <<facts, history, evidence, kills>>

\* Tools of one store operation: forget_fact, confirm_fact, and restore_fact,
\* which refuses an archived fact.
SimpleTool(p, i) ==
  /\ i \in Stored
  /\ \/ Begin(p, "forget", "end", <<>>) /\ Start(p, "lifecycle", i, "forgotten")
     \/ Begin(p, "confirm", "end", <<>>) /\ Start(p, "confirm", i, None)
     \/ /\ ~facts[i].archived
        /\ Begin(p, "restore", "end", <<>>)
        /\ Start(p, "lifecycle", i, "active")
  /\ Quiet /\ UNCHANGED ingested

\* remember_fact: the fact, and the validity the caller gives it.
RememberTool(p, t, v, meta) ==
  /\ Begin(p, "remember", IF v = "none" THEN "end" ELSE v, <<>>)
  /\ StartWith(p, meta, "remember", None, t)
  /\ Quiet /\ UNCHANGED ingested

RememberValidity(p) ==
  /\ task[p].tool = "remember" /\ task[p].step \in {"pending", "invalid", "valid"}
  /\ call[p].at = "done"
  /\ Start(p, "validity", call[p].id, task[p].step)
  /\ Set(p, [task[p] EXCEPT !.step = "end"])
  /\ Quiet /\ UNCHANGED <<tasks, ingested>>

\* sweep_freshness and decay_sweep: the stale ids at once, then one by one; any
\* active and valid fact may be old enough.
SweepTool(p, old) ==
  /\ \A i \in old : facts[i].life = "active" /\ facts[i].valid = "valid"
  /\ Begin(p, "sweep", "next", SetToSortSeq(old, <))
  /\ UNCHANGED <<factVars, ingested>>

SweepNext(p) ==
  /\ Ready(p, "sweep", "next") /\ task[p].todo # <<>>
  /\ Start(p, "lifecycle", Head(task[p].todo), "degraded")
  /\ Set(p, [task[p] EXCEPT !.todo = Tail(@)])
  /\ Quiet /\ UNCHANGED <<tasks, ingested>>

\* consolidate: the sources are read and judged before the provider is asked.
Mergeable(i) ==
  facts[i].life # "forgotten" /\ facts[i].valid # "invalid" /\ ~facts[i].strong

ConsolidateTool(p, i, j) ==
  /\ {i, j} \subseteq Stored /\ i < j
  /\ Mergeable(i) /\ Mergeable(j)
  /\ Begin(p, "consolidate", "provider", <<i, j>>)
  /\ UNCHANGED <<factVars, ingested>>

\* The provider fails or declines, or answers with a text, which is stored in
\* the workspace of the call: one that sees every source.
ConsolidateAnswer(p, t) ==
  /\ Ready(p, "consolidate", "provider")
  /\ IF t = None THEN EndTask(p)
     ELSE /\ \A i \in ToSet(task[p].todo) : Sees(t, i)
          /\ Start(p, "remember", None, t)
          /\ Set(p, [task[p] EXCEPT !.step = "merge"])
  /\ Quiet /\ UNCHANGED <<tasks, ingested>>

\* Each source is invalidated in favour of the merged fact, which then cites it.
ConsolidateMerge(p) ==
  LET t == task[p]
  IN /\ Ready(p, "consolidate", "merge") /\ t.todo # <<>>
     /\ LET into == IF t.into = None THEN call[p].id ELSE t.into
        IN /\ Start(p, "invalidate", Head(t.todo), into)
           /\ Set(p, [t EXCEPT !.into = into, !.step = "cite"])
     /\ Quiet /\ UNCHANGED <<tasks, ingested>>

ConsolidateCite(p) ==
  LET t == task[p]
  IN /\ Ready(p, "consolidate", "cite")
     /\ IF call[p].ok THEN Start(p, "attach", t.into, Head(t.todo))
                      ELSE UNCHANGED call
     /\ Set(p, [t EXCEPT !.step = "merge", !.todo = Tail(@)])
     /\ Quiet /\ UNCHANGED <<tasks, ingested>>

\* ingest_turn, with or without a session_ref: three attempts at the provider
\* are one answer or none.  A text the provider calls global is Shared.
IngestTool(p, ts, cite) ==
  /\ BeginWith(p, "ingest", "next", ts, ToSet(ts), cite)
  /\ UNCHANGED <<factVars, ingested>>

\* The text is looked up before it is remembered; what was not there is new.
IngestFact(p) ==
  LET t == task[p]
  IN /\ Ready(p, "ingest", "next") /\ t.todo # <<>>
     /\ Start(p, "remember", None, Head(t.todo))
     /\ Set(p, [t EXCEPT !.step = IF IdOf(Head(t.todo)) = None THEN "new" ELSE "old"])
     /\ Quiet /\ UNCHANGED <<tasks, ingested>>

\* Evidence naming the session, if there is one, goes to new and to known facts
\* alike.
CitedNewOnly == {"new"}
CitedSteps == {"new", "old"}
IngestCite(p) ==
  LET t == task[p]
  IN /\ t.tool = "ingest" /\ t.step \in {"new", "old"} /\ call[p].at = "done"
     /\ IF t.cite /\ t.step \in CitedSteps THEN Start(p, "attach", call[p].id, Session)
                                           ELSE UNCHANGED call
     /\ Set(p, [t EXCEPT !.step = "next", !.todo = Tail(@),
                         !.mine = IF t.step = "new" THEN Append(@, call[p].id) ELSE @])
     /\ Quiet /\ UNCHANGED <<tasks, ingested>>

IngestStored(p) ==
  /\ Ready(p, "ingest", "next") /\ task[p].todo = <<>>
  /\ Set(p, [task[p] EXCEPT !.step = "verify"])
  /\ UNCHANGED <<factVars, tasks, ingested>>

(* verify_new_facts: for each new fact the recalled ones related to it and *)
(* seen from its workspace are read and shown to the provider, which names *)
(* none of them, or one that the new fact supersedes.                      *)
Candidates(i) == {j \in Recalled \ {i} : Sees(facts[i].text, j)}
VerifyAnswer(p, target) ==
  LET t == task[p]
      new == Head(t.mine)
  IN /\ Ready(p, "ingest", "verify") /\ t.mine # <<>>
     /\ target = None \/ target \in Candidates(new)
     /\ IF target = None \/ (target \in Stored /\ facts[target].strong)
        THEN /\ Set(p, [t EXCEPT !.mine = Tail(@)])
             /\ UNCHANGED call
        ELSE /\ Start(p, "invalidate", target, new)
             /\ Set(p, [t EXCEPT !.step = "verdict"])
     /\ Quiet /\ UNCHANGED <<tasks, ingested>>

VerifyCite(p) ==
  LET t == task[p]
  IN /\ Ready(p, "ingest", "verdict")
     /\ IF call[p].ok THEN Start(p, "attach", Head(t.mine), call[p].id)
                      ELSE UNCHANGED call
     /\ Set(p, [t EXCEPT !.step = "verify", !.mine = Tail(@)])
     /\ Quiet /\ UNCHANGED <<tasks, ingested>>

\* absorb with commit, in one workspace: every text is classified before the
\* first is stored, and only those with neither a duplicate nor a related fact
\* are.
AbsorbTool(p, ts) ==
  /\ ToSet(ts) \subseteq Shared \/ ToSet(ts) \cap Shared = {}
  /\ \E related \in SUBSET ToSet(ts) :
       Begin(p, "absorb", "next",
             SelectSeq(ts, LAMBDA t : IdOf(t) = None /\ t \notin related))
  /\ UNCHANGED <<factVars, ingested>>

AbsorbFact(p, meta) ==
  /\ Ready(p, "absorb", "next") /\ task[p].todo # <<>>
  /\ StartWith(p, meta, "remember", None, Head(task[p].todo))
  /\ Set(p, [task[p] EXCEPT !.todo = Tail(@)])
  /\ Quiet /\ UNCHANGED <<tasks, ingested>>

\* The tool returns.
Return(p) ==
  LET t == task[p]
  IN /\ Free(p)
     /\ \/ t.step = "end"
        \/ t.tool \in {"sweep", "absorb"} /\ t.todo = <<>>
        \/ t.tool = "consolidate" /\ t.step = "merge" /\ t.todo = <<>>
        \/ t.tool = "ingest" /\ t.step = "verify" /\ t.mine = <<>>
     /\ EndTask(p)
     /\ ingested' = ingested \cup {<<u, t.cite>> : u \in t.given}
     /\ Quiet /\ UNCHANGED tasks

\* The process is killed: its statements so far stay, the rest is never run.
Kill(p) ==
  /\ task[p] # NoTask
  /\ kills < MaxKills
  /\ kills' = kills + 1
  /\ EndTask(p)
  /\ UNCHANGED <<facts, history, evidence, tasks, ingested>>

Batches == UNION {[1..n -> Texts] : n \in 1..2}

ToolStarts(p) ==
  \/ \E i \in Stored : SimpleTool(p, i)
  \/ \E t \in Texts, v \in {"none", "pending", "invalid"}, meta \in Metas :
       RememberTool(p, t, v, meta)
  \/ \E old \in SUBSET Stored : SweepTool(p, old)
  \/ \E i, j \in Stored : ConsolidateTool(p, i, j)
  \/ \E ts \in Batches, cite \in BOOLEAN : IngestTool(p, ts, cite)
  \/ \E ts \in Batches : AbsorbTool(p, ts)

ToolSteps(p) ==
  \/ RememberValidity(p) \/ SweepNext(p)
  \/ \E t \in Texts \cup {None} : ConsolidateAnswer(p, t)
  \/ ConsolidateMerge(p) \/ ConsolidateCite(p)
  \/ IngestFact(p) \/ IngestCite(p) \/ IngestStored(p)
  \/ \E target \in Stored \cup {None} : VerifyAnswer(p, target)
  \/ VerifyCite(p) \/ Return(p) \/ Kill(p)
  \/ \E meta \in Metas : AbsorbFact(p, meta)

Next ==
  \E p \in Procs :
    \/ ToolStarts(p)
    \/ ToolSteps(p)
    \/ StoreStep(p) /\ UNCHANGED <<task, tasks, ingested>>

Spec == Init /\ [][Next]_vars

--------------------------------------------------------------------------------
AtRest == \A p \in Procs : task[p] = NoTask

(* When no call is under way and no process was killed, the history names  *)
(* every fact's creation and everything done to it since: a forgotten, a   *)
(* confirmed or a superseded fact has the row that says so, although each  *)
(* row is written after the statement it reports, on what was read before  *)
(* it, with other processes in between.  A fact created with high trust is *)
(* the exception: its confirmation is not logged.                          *)
AuditComplete ==
  AtRest /\ kills = 0 =>
    \A i \in Stored :
      LET f == facts[i]
          logged(e) == <<i, e>> \in history
      IN /\ logged("created")
         /\ f.life = "forgotten" => logged("forgotten")
         /\ f.confirmed /\ ~f.high => logged("confirmed")
         /\ f.sup # None => logged("invalidated")

(* A fact superseded by a merge or a verification is cited by the evidence *)
(* of the fact that superseded it last, even when two processes merge the  *)
(* same facts at once; not so when that fact is in the empty workspace,    *)
(* where attach_evidence refuses the citation and no one hears of it.      *)
MergeProvenance ==
  AtRest /\ kills = 0 =>
    \A i \in Stored :
      facts[i].sup # None /\ facts[facts[i].sup].text \notin Shared =>
        <<facts[i].sup, i>> \in evidence

(* An ingest_turn that returned has every text of its answer stored, and   *)
(* one with a session has evidence naming it on every text of a named      *)
(* workspace: also when an earlier ingest of the same turn was killed      *)
(* half-way and this one found some of the texts there.                    *)
IngestComplete ==
  \A t \in Texts, cite \in BOOLEAN :
    <<t, cite>> \in ingested =>
      \E i \in Stored :
        /\ facts[i].text = t
        /\ cite /\ t \notin Shared => <<i, Session>> \in evidence

(* Whoever follows superseded_by from a fact comes to one that was not     *)
(* superseded.  Fails (FactsSupersede.cfg); a known limit, see the README. *)
SupersededBySurvivor ==
  LET reach[n \in 0..Len(facts), i \in Stored] ==
        IF n = 0 THEN facts[i].sup = None
        ELSE facts[i].sup = None \/ reach[n - 1, facts[i].sup]
  IN \A i \in Stored : reach[Len(facts), i]
================================================================================
