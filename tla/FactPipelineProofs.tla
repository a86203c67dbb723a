-------------------------- MODULE FactPipelineProofs --------------------------
(***************************************************************************)
(* What the history and the evidence say of the facts, for any number of   *)
(* processes, tool calls and facts: every row a statement still owes is    *)
(* held by the call that will write it.                                    *)
(***************************************************************************)
EXTENDS FactPipeline, SequenceTheorems, TLAPS

USE DEF Stored

RowFields == {"text", "life", "valid", "strong", "high", "confirmed", "archived", "sup"}
CallFields == {"op", "at", "id", "arg", "meta", "seen", "ok"}
TaskFields == {"tool", "step", "todo", "mine", "into", "given", "cite"}

(* Rows, calls and tasks have their fields; ids count from one.            *)
Typed ==
  /\ Len(facts) \in Nat /\ DOMAIN facts = 1..Len(facts)
  /\ facts = [i \in 1..Len(facts) |-> facts[i]]
  /\ \A i \in Stored : DOMAIN facts[i] = RowFields
  /\ DOMAIN call = Procs /\ \A p \in Procs : DOMAIN call[p] = CallFields
  /\ DOMAIN task = Procs /\ \A p \in Procs : DOMAIN task[p] = TaskFields
  /\ kills \in Nat

(* What a remember call has learnt, and what the calls of a task are for.  *)
RememberShape(c) ==
  /\ c.op = "remember" /\ c.at = "write" /\ c.seen # None =>
       \E i \in Stored : facts[i].text = c.arg
  /\ c.op = "remember" /\ c.at \in {"log", "done"} =>
       c.id \in Stored /\ facts[c.id].text = c.arg

ConfirmShape(c) ==
  c.op = "confirm" =>
    /\ c.id \in Stored
    /\ c.at = "write" /\ c.seen => facts[c.id].confirmed \/ facts[c.id].high

InvalidateShape(c, t) ==
  LET merging == t.tool = "consolidate" /\ t.step = "cite"
      judging == t.tool = "ingest" /\ t.step = "verdict"
  IN /\ c.op = "invalidate" /\ (c.at # "done" \/ c.ok = TRUE) => merging \/ judging
     /\ merging \/ judging => c.op = "invalidate"
     /\ c.op = "invalidate" => c.at # "idle"
     /\ merging => c.arg = t.into /\ c.id = Head(t.todo)
     /\ judging => c.arg = Head(t.mine)

IngestShape(c, t) ==
  /\ t.tool # "ingest" => t.given = {}
  /\ t.tool = "ingest" =>
       /\ t.todo \in Seq(Texts)
       /\ t.step \in {"next", "new", "old", "verify", "verdict"}
       /\ t.step \in {"new", "old"} =>
            t.todo # <<>> /\ c.op = "remember" /\ c.arg = Head(t.todo)
       /\ t.step \in {"verify", "verdict"} => t.todo = <<>>

(* The facts a call attaches evidence to, or a task means to, are stored.  *)
NamesShape(c, t) ==
  /\ c.op = "attach" => c.id \in Stored
  /\ t.tool = "ingest" => t.mine \in Seq(Stored)
  /\ t.tool = "ingest" /\ t.step = "verdict" => t.mine # <<>>
  /\ t.tool = "consolidate" /\ t.step = "provider" => t.into = None
  /\ t.tool = "consolidate" /\ t.step = "cite" => t.into \in Stored
  /\ t.tool = "consolidate" /\ t.step = "merge" =>
       t.into \in Stored \/ (t.into = None /\ c.op = "remember" /\ c.at # "idle")

Shaped ==
  \A p \in Procs :
    /\ task[p] = NoTask => call[p] = NoCall
    /\ RememberShape(call[p])
    /\ ConfirmShape(call[p])
    /\ InvalidateShape(call[p], task[p])
    /\ IngestShape(call[p], task[p])
    /\ NamesShape(call[p], task[p])

(* A row of the history a call still owes, and the state that calls for it.*)
Owed(p, i, e) == call[p].at = "log" /\ call[p].id = i /\ EventOf(call[p]) = e
Due(f, e) ==
  \/ e = "created"
  \/ e = "forgotten" /\ f.life = "forgotten"
  \/ e = "confirmed" /\ f.confirmed /\ ~f.high
  \/ e = "invalidated" /\ f.sup # None
Audited ==
  kills = 0 =>
    \A i \in Stored, e \in {"created", "forgotten", "confirmed", "invalidated"} :
      Due(facts[i], e) => <<i, e>> \in history \/ \E p \in Procs : Owed(p, i, e)

(* The citation of a superseded fact is there, or its call is under way,   *)
(* or it is refused.                                                       *)
Citing(p, s, i) ==
  \/ /\ call[p].op = "invalidate" /\ call[p].at \in {"log", "done"} /\ call[p].ok = TRUE
     /\ call[p].id = i /\ call[p].arg = s
  \/ call[p].op = "attach" /\ call[p].at = "read" /\ call[p].id = s /\ call[p].arg = i
Uncitable(s) == s \in Stored /\ facts[s].text \in Shared
Provenance ==
  kills = 0 =>
    \A i \in Stored :
      facts[i].sup # None =>
        \/ <<facts[i].sup, i>> \in evidence \/ Uncitable(facts[i].sup)
        \/ \E p \in Procs : Citing(p, facts[i].sup, i)

(* A text given to ingest_turn is still to do, cited or being cited.       *)
Cited(t, cite) ==
  \E i \in Stored :
    facts[i].text = t /\ (cite /\ t \notin Shared => <<i, Session>> \in evidence)
Attaching(c, t) ==
  /\ c.op = "attach" /\ c.at = "read" /\ c.arg = Session
  /\ c.id \in Stored /\ facts[c.id].text = t
Ingesting ==
  /\ \A t, cite : <<t, cite>> \in ingested => Cited(t, cite)
  /\ \A p \in Procs : \A t \in task[p].given :
       t \in ToSet(task[p].todo) \/ Cited(t, task[p].cite) \/ Attaching(call[p], t)

FactsInv == Typed /\ Shaped /\ Audited /\ Provenance /\ Ingesting

--------------------------------------------------------------------------------
(* Absorb stores one of its facts; a tool begins with what it was given.   *)
Absorbs(p) == \E meta \in Metas : AbsorbFact(p, meta)
Opens(p, tool, step, todo) ==
  \E given, cite :
    /\ BeginWith(p, tool, step, todo, given, cite)
    /\ given = IF tool = "ingest" THEN ToSet(todo) ELSE {}
LEMMA Opened ==
    ASSUME NEW p, NEW tool, tool # "ingest", NEW step, NEW todo, Begin(p, tool, step, todo)
    PROVE  Opens(p, tool, step, todo)
BY DEF Begin, Opens

(* The steps a tool starts at.                                             *)
Opening == {"end", "pending", "invalid", "next", "provider"}
(* A tool starts without touching a table, at the step and with the call   *)
(* it opens with.                                                          *)
LEMMA ToolStarting ==
    ASSUME NEW p \in Procs, ToolStarts(p)
    PROVE  /\ Quiet /\ ingested' = ingested /\ tasks' = tasks + 1
           /\ task[p] = NoTask
           /\ \E tool, todo : \E step \in Opening :
                /\ Opens(p, tool, step, todo)
                /\ tool = "ingest" => step = "next" /\ todo \in Seq(Texts) /\ call' = call
           /\ \/ call' = call
              \/ \E op \in {"remember", "lifecycle", "confirm"} : \E meta, id, arg :
                   StartWith(p, meta, op, id, arg) /\ (op = "confirm" => id \in Stored)
<1> USE DEF factVars, Quiet, Opening
<1> DEFINE Begins == \E tool, todo : \E step \in Opening :
                /\ Opens(p, tool, step, todo)
                /\ tool = "ingest" => step = "next" /\ todo \in Seq(Texts) /\ call' = call
<1>0. ASSUME NEW tool, NEW todo, NEW step, Opens(p, tool, step, todo)
      PROVE  task[p] = NoTask /\ tasks' = tasks + 1
  BY <1>0 DEF Opens, BeginWith
<1>1. CASE \E i \in Stored : SimpleTool(p, i)
  <2>1. PICK i \in Stored : SimpleTool(p, i) BY <1>1
  <2>2. Quiet /\ ingested' = ingested BY <2>1 DEF SimpleTool
  <2>3. CASE Begin(p, "forget", "end", <<>>) /\ Start(p, "lifecycle", i, "forgotten")
    BY <2>2, <2>3, <1>0, Opened DEF Start
  <2>4. CASE Begin(p, "confirm", "end", <<>>) /\ Start(p, "confirm", i, None)
    BY <2>2, <2>4, <1>0, Opened DEF Start
  <2>5. CASE Begin(p, "restore", "end", <<>>) /\ Start(p, "lifecycle", i, "active")
    BY <2>2, <2>5, <1>0, Opened DEF Start
  <2> QED BY <2>1, <2>3, <2>4, <2>5 DEF SimpleTool
<1>2. CASE \E t \in Texts, v \in {"none", "pending", "invalid"}, meta \in Metas :
             RememberTool(p, t, v, meta)
  <2>1. PICK t \in Texts, v \in {"none", "pending", "invalid"}, meta \in Metas :
          RememberTool(p, t, v, meta)
    BY <1>2
  <2>2. Opens(p, "remember", IF v = "none" THEN "end" ELSE v, <<>>)
    BY <2>1, Opened DEF RememberTool
  <2>3. (IF v = "none" THEN "end" ELSE v) \in Opening
    OBVIOUS
  <2>4. Begins
    BY <2>2, <2>3
  <2> HIDE DEF Begins
  <2> QED BY <2>1, <2>2, <2>4, <1>0 DEF RememberTool, Begins
<1>3. CASE \E old \in SUBSET Stored : SweepTool(p, old)
  <2>1. PICK old \in SUBSET Stored : SweepTool(p, old) BY <1>3
  <2>2. Begin(p, "sweep", "next", SetToSortSeq(old, <)) /\ UNCHANGED <<factVars, ingested>>
    BY <2>1 DEF SweepTool
  <2>3. PICK todo : Opens(p, "sweep", "next", todo)
    BY <2>2, Opened
  <2>4. UNCHANGED <<factVars, ingested>>
    BY <2>2
  <2> QED BY <2>3, <2>4, <1>0
<1>4. CASE \E i, j \in Stored : ConsolidateTool(p, i, j)
  <2>1. PICK i \in Stored, j \in Stored : ConsolidateTool(p, i, j) BY <1>4
  <2> QED BY <2>1, <1>0, Opened DEF ConsolidateTool
<1>5. CASE \E ts \in Batches, cite \in BOOLEAN : IngestTool(p, ts, cite)
  <2>1. PICK ts \in Batches, cite \in BOOLEAN : IngestTool(p, ts, cite) BY <1>5
  <2>2. ts \in Seq(Texts)
    <3>1. PICK n \in 1..2 : ts \in [1..n -> Texts] BY DEF Batches
    <3> QED BY <3>1, SeqDef
  <2>3. Opens(p, "ingest", "next", ts)
    BY <2>1 DEF IngestTool, Opens
  <2> QED BY <2>1, <2>2, <2>3, <1>0 DEF IngestTool
<1>6. CASE \E ts \in Batches : AbsorbTool(p, ts)
  <2>1. PICK ts \in Batches : AbsorbTool(p, ts) BY <1>6
  <2>2. \E todo : Opens(p, "absorb", "next", todo)
    BY <2>1, Opened DEF AbsorbTool
  <2> QED BY <2>1, <2>2, <1>0 DEF AbsorbTool
<1> QED
  BY <1>1, <1>2, <1>3, <1>4, <1>5, <1>6 DEF ToolStarts

(* A step of a tool waits for its call, and touches no table.               *)
LEMMA ToolStepping ==
    ASSUME Typed, NEW p \in Procs, ToolSteps(p), kills' = kills
    PROVE  Quiet /\ Free(p) /\ ~Kill(p)
<1>0. ~Kill(p)
  BY DEF Kill, Typed
<1> USE DEF factVars, Quiet
<1>1. CASE RememberValidity(p) \/ IngestCite(p)
  BY <1>1, <1>0 DEF RememberValidity, IngestCite, Free
<1>2. CASE SweepNext(p) \/ IngestFact(p) \/ IngestStored(p) \/ Absorbs(p)
  BY <1>2, <1>0 DEF SweepNext, IngestFact, IngestStored, AbsorbFact, Absorbs, Ready
<1>3. CASE \E t \in Texts \cup {None} : ConsolidateAnswer(p, t)
  BY <1>3, <1>0 DEF ConsolidateAnswer, Ready
<1>4. CASE ConsolidateMerge(p) \/ ConsolidateCite(p)
  BY <1>4, <1>0 DEF ConsolidateMerge, ConsolidateCite, Ready
<1>5. CASE \E target \in Stored \cup {None} : VerifyAnswer(p, target)
  BY <1>5, <1>0 DEF VerifyAnswer, Ready
<1>6. CASE VerifyCite(p) \/ Return(p)
  BY <1>6, <1>0 DEF VerifyCite, Return, Ready
<1> QED
  BY <1>0, <1>1, <1>2, <1>3, <1>4, <1>5, <1>6 DEF ToolSteps, Absorbs

(* A step of a process changes its own call and task only.                 *)
Elsewhere(p) ==
  /\ DOMAIN call' = Procs /\ DOMAIN task' = Procs
  /\ \A q \in Procs : q # p => call'[q] = call[q] /\ task'[q] = task[q]
  /\ DOMAIN call'[p] = CallFields /\ DOMAIN task'[p] = TaskFields

(* The start of a tool changes its own process only.                       *)
LEMMA StartsElsewhere ==
    ASSUME Typed, NEW p \in Procs, ToolStarts(p)
    PROVE  Elsewhere(p)
<1> USE DEF Typed, CallFields, TaskFields
<1>1. PICK tool, todo : \E step \in Opening : Opens(p, tool, step, todo)
  BY ToolStarting
<1>2. DOMAIN task' = Procs /\ DOMAIN task'[p] = TaskFields
      /\ \A q \in Procs : q # p => task'[q] = task[q]
  BY <1>1 DEF Opens, BeginWith, NoTask
<1>3. DOMAIN call' = Procs /\ DOMAIN call'[p] = CallFields
      /\ \A q \in Procs : q # p => call'[q] = call[q]
  <2>1. CASE call' = call BY <2>1
  <2>2. ASSUME NEW meta, NEW op, NEW id, NEW arg, StartWith(p, meta, op, id, arg)
        PROVE  DOMAIN call' = Procs /\ DOMAIN call'[p] = CallFields
               /\ \A q \in Procs : q # p => call'[q] = call[q]
    BY <2>2 DEF StartWith, Start
  <2> QED BY <2>1, <2>2, ToolStarting
<1> QED
  BY <1>2, <1>3 DEF Elsewhere

(* A step of a tool changes its own process only.                          *)
LEMMA StepsElsewhere ==
    ASSUME Typed, NEW p \in Procs, ToolSteps(p)
    PROVE  Elsewhere(p)
<1> USE DEF Typed, CallFields, TaskFields, Elsewhere, Set, StartWith, Start, EndTask, NoCall, NoTask
<1>1. CASE RememberValidity(p)
  BY <1>1 DEF RememberValidity
<1>2. CASE SweepNext(p)
  BY <1>2 DEF SweepNext
<1>3. CASE \E t \in Texts \cup {None} : ConsolidateAnswer(p, t)
  BY <1>3 DEF ConsolidateAnswer
<1>4. CASE ConsolidateMerge(p)
  BY <1>4 DEF ConsolidateMerge
<1>5. CASE ConsolidateCite(p)
  BY <1>5 DEF ConsolidateCite
<1>6. CASE IngestFact(p)
  BY <1>6 DEF IngestFact
<1>7. CASE IngestCite(p)
  BY <1>7 DEF IngestCite
<1>8. CASE IngestStored(p)
  BY <1>8 DEF IngestStored, factVars
<1>9. CASE \E target \in Stored \cup {None} : VerifyAnswer(p, target)
  BY <1>9 DEF VerifyAnswer
<1>10. CASE VerifyCite(p)
  BY <1>10 DEF VerifyCite
<1>11. CASE Absorbs(p)
  BY <1>11 DEF AbsorbFact, Absorbs
<1>12. CASE Return(p) \/ Kill(p)
  BY <1>12 DEF Return, Kill
<1> QED
  BY <1>1, <1>2, <1>3, <1>4, <1>5, <1>6, <1>7, <1>8, <1>9, <1>10, <1>11, <1>12 DEF ToolSteps, Absorbs

(* A statement of the store changes its own process only.                  *)
LEMMA StoreElsewhere ==
    ASSUME Typed, NEW p \in Procs, StoreStep(p), task' = task
    PROVE  Elsewhere(p)
<1> USE DEF Typed, CallFields, Elsewhere, Goto, Done
<1>1. CASE RememberRead(p)
  BY <1>1 DEF RememberRead
<1>7. CASE RememberWrite(p)
  <2>1. \E at, id : call' = [call EXCEPT ![p].at = at, ![p].id = id, ![p].ok = TRUE]
    BY <1>7 DEF RememberWrite
  <2> QED BY <2>1
<1>2. CASE LifecycleRead(p) \/ LifecycleWrite(p)
  BY <1>2 DEF LifecycleRead, LifecycleWrite
<1>3. CASE ConfirmRead(p) \/ ConfirmWrite(p)
  BY <1>3 DEF ConfirmRead, ConfirmWrite
<1>4. CASE ValidityRead(p) \/ ValidityWrite(p)
  BY <1>4 DEF ValidityRead, ValidityWrite
<1>5. CASE InvalidateRead(p) \/ InvalidateWrite(p)
  BY <1>5 DEF InvalidateRead, InvalidateWrite
<1>6. CASE Log(p) \/ Attach(p)
  BY <1>6 DEF Log, Attach
<1> QED
  BY <1>1, <1>2, <1>3, <1>4, <1>5, <1>6, <1>7 DEF StoreStep

(* The length of a function on an interval.                                 *)
LEMMA LenOfInterval ==
    ASSUME NEW n \in Nat, NEW f, f = [i \in 1..n |-> f[i]]
    PROVE  Len(f) = n /\ DOMAIN f = 1..n
<1> DEFINE S == {f[i] : i \in 1..n}
<1>1. f \in [1..n -> S]
  <2>1. \A i \in 1..n : f[i] \in S
    OBVIOUS
  <2> HIDE DEF S
  <2> QED BY <2>1
<1> HIDE DEF S
<1>2. f \in Seq(S)
  BY <1>1, SeqDef
<1>3. Len(f) \in Nat /\ DOMAIN f = 1..Len(f)
  BY <1>2, LenProperties
<1>4. DOMAIN f = 1..n
  BY <1>1
<1> QED
  BY <1>3, <1>4

(* The row of a fact, as a statement that writes it leaves it.              *)
Rewrites(i, f) ==
  /\ DOMAIN facts' = Stored /\ Len(facts') = Len(facts)
  /\ facts' = [j \in 1..Len(facts) |-> facts'[j]]
  /\ \A j \in Stored : j # i => facts'[j] = facts[j]
  /\ i \in Stored => facts'[i] = f

(* A statement that updates one row leaves the others and their number.    *)
LEMMA Rewriting ==
    ASSUME Typed, NEW i, NEW f, facts' = [facts EXCEPT ![i] = f]
    PROVE  Rewrites(i, f)
<1>1. facts' = [j \in 1..Len(facts) |-> facts'[j]] /\ Len(facts) \in Nat
  BY DEF Typed
<1>2. Len(facts') = Len(facts)
  BY <1>1, LenOfInterval
<1> QED
  BY <1>2 DEF Typed, Rewrites

(* What each statement of the store does to the rows.                       *)
LEMMA StatementWrites ==
    ASSUME Typed, NEW p \in Procs
    PROVE  /\ LifecycleWrite(p) =>
                \E f : /\ Rewrites(call[p].id, f)
                       /\ call[p].id \in Stored =>
                            /\ DOMAIN f = RowFields
                            /\ f.text = facts[call[p].id].text
                            /\ f.confirmed = facts[call[p].id].confirmed
                            /\ f.sup = facts[call[p].id].sup /\ f.high = facts[call[p].id].high
                            /\ \/ f.life = facts[call[p].id].life
                               \/ f.life = call[p].arg /\ call[p].seen # call[p].arg
           /\ ConfirmWrite(p) =>
                \E f : /\ Rewrites(call[p].id, f)
                       /\ call[p].id \in Stored =>
                            /\ DOMAIN f = RowFields
                            /\ f.text = facts[call[p].id].text
                            /\ f.life = "active"
                            /\ f.confirmed = TRUE
                            /\ f.sup = facts[call[p].id].sup /\ f.high = facts[call[p].id].high
           /\ ValidityWrite(p) =>
                \E f : /\ Rewrites(call[p].id, f)
                       /\ call[p].id \in Stored =>
                            /\ DOMAIN f = RowFields
                            /\ f.text = facts[call[p].id].text
                            /\ f.life = facts[call[p].id].life
                            /\ f.confirmed = facts[call[p].id].confirmed
                            /\ f.sup = facts[call[p].id].sup /\ f.high = facts[call[p].id].high
           /\ InvalidateWrite(p) =>
                \E f : /\ Rewrites(call[p].id, f)
                       /\ call[p].id \in Stored =>
                            /\ DOMAIN f = RowFields
                            /\ f.text = facts[call[p].id].text
                            /\ f.life = facts[call[p].id].life
                            /\ f.confirmed = facts[call[p].id].confirmed
                            /\ f.sup = call[p].arg
                            /\ f.high = facts[call[p].id].high
<1> DEFINE i == call[p].id
<1> DEFINE g == facts[i]
<1>0. i \in Stored => DOMAIN g = RowFields
  BY DEF Typed
<1>1. ASSUME LifecycleWrite(p) PROVE
        \E f : /\ Rewrites(i, f)
               /\ i \in Stored =>
                    /\ DOMAIN f = RowFields
                    /\ f.text = g.text
                    /\ f.confirmed = g.confirmed
                    /\ f.sup = g.sup /\ f.high = g.high
                    /\ \/ f.life = g.life
                       \/ f.life = call[p].arg /\ call[p].seen # call[p].arg
  <2> DEFINE f == [g EXCEPT !.archived = (call[p].arg = "forgotten"),
                            !.life = IF call[p].seen = call[p].arg THEN g.life ELSE call[p].arg]
  <2>1. facts' = [facts EXCEPT ![i] = f]
    BY <1>1 DEF LifecycleWrite
  <2>2. i \in Stored => /\ DOMAIN f = RowFields
                        /\ f.text = g.text
                        /\ f.confirmed = g.confirmed
                        /\ f.sup = g.sup /\ f.high = g.high
                        /\ \/ f.life = g.life
                           \/ f.life = call[p].arg /\ call[p].seen # call[p].arg
    BY <1>0 DEF RowFields
  <2> HIDE DEF f, i, g
  <2>3. Rewrites(i, f)
    BY <2>1, Rewriting
  <2> QED BY <2>2, <2>3
<1>2. ASSUME ConfirmWrite(p) PROVE
        \E f : /\ Rewrites(i, f)
               /\ i \in Stored =>
                    /\ DOMAIN f = RowFields
                    /\ f.text = g.text
                    /\ f.life = "active"
                    /\ f.confirmed = TRUE
                    /\ f.sup = g.sup /\ f.high = g.high
  <2> DEFINE f == [g EXCEPT !.valid = "valid", !.life = "active", !.confirmed = TRUE]
  <2>1. facts' = [facts EXCEPT ![i] = f]
    BY <1>2 DEF ConfirmWrite
  <2>2. i \in Stored => /\ DOMAIN f = RowFields
                        /\ f.text = g.text
                        /\ f.life = "active"
                        /\ f.confirmed = TRUE
                        /\ f.sup = g.sup /\ f.high = g.high
    BY <1>0 DEF RowFields
  <2> HIDE DEF f, i, g
  <2>3. Rewrites(i, f)
    BY <2>1, Rewriting
  <2> QED BY <2>2, <2>3
<1>3. ASSUME ValidityWrite(p) PROVE
        \E f : /\ Rewrites(i, f)
               /\ i \in Stored =>
                    /\ DOMAIN f = RowFields
                    /\ f.text = g.text
                    /\ f.life = g.life
                    /\ f.confirmed = g.confirmed
                    /\ f.sup = g.sup /\ f.high = g.high
  <2> DEFINE f == [g EXCEPT !.valid = call[p].arg]
  <2>1. facts' = [facts EXCEPT ![i] = f]
    BY <1>3 DEF ValidityWrite
  <2>2. i \in Stored => /\ DOMAIN f = RowFields
                        /\ f.text = g.text
                        /\ f.life = g.life
                        /\ f.confirmed = g.confirmed
                        /\ f.sup = g.sup /\ f.high = g.high
    BY <1>0 DEF RowFields
  <2> HIDE DEF f, i, g
  <2>3. Rewrites(i, f)
    BY <2>1, Rewriting
  <2> QED BY <2>2, <2>3
<1>4. ASSUME InvalidateWrite(p) PROVE
        \E f : /\ Rewrites(i, f)
               /\ i \in Stored =>
                    /\ DOMAIN f = RowFields
                    /\ f.text = g.text
                    /\ f.life = g.life
                    /\ f.confirmed = g.confirmed
                    /\ f.sup = call[p].arg
                    /\ f.high = g.high
  <2> DEFINE f == [g EXCEPT !.valid = "invalid", !.sup = call[p].arg]
  <2>1. facts' = [facts EXCEPT ![i] = f]
    BY <1>4 DEF InvalidateWrite
  <2>2. i \in Stored => /\ DOMAIN f = RowFields
                        /\ f.text = g.text
                        /\ f.life = g.life
                        /\ f.confirmed = g.confirmed
                        /\ f.sup = call[p].arg
                        /\ f.high = g.high
    BY <1>0 DEF RowFields
  <2> HIDE DEF f, i, g
  <2>3. Rewrites(i, f)
    BY <2>1, Rewriting
  <2> QED BY <2>2, <2>3
<1> QED
  BY <1>1, <1>2, <1>3, <1>4

(* Statements that write no row.                                            *)
Looks(p) ==
  \/ RememberRead(p) \/ LifecycleRead(p) \/ ConfirmRead(p) \/ ValidityRead(p)
  \/ InvalidateRead(p) \/ Log(p) \/ Attach(p)
(* A statement that reads, logs or attaches writes no row of facts.        *)
LEMMA LooksKeepRows ==
    ASSUME NEW p \in Procs, Looks(p)
    PROVE  facts' = facts /\ kills' = kills /\ history \subseteq history' /\ evidence \subseteq evidence'
BY DEF Looks, RememberRead, LifecycleRead, ConfirmRead, ValidityRead, InvalidateRead, Log, Attach, Record

(* A text is remembered in the row that has it, or in a new one.            *)
LEMMA Remembering ==
    ASSUME Typed, NEW p \in Procs, RememberWrite(p)
    PROVE  /\ call'[p].id \in DOMAIN facts' /\ facts'[call'[p].id].text = call[p].arg
           /\ \/ facts' = facts
              \/ /\ ~ \E i \in Stored : facts[i].text = call[p].arg
                 /\ Len(facts') = Len(facts) + 1
                 /\ DOMAIN facts' = 1..(Len(facts) + 1)
                 /\ facts' = [i \in 1..(Len(facts) + 1) |-> facts'[i]]
                 /\ \A i \in Stored : facts'[i] = facts[i]
                 /\ call'[p].id = Len(facts) + 1
                 /\ facts'[Len(facts) + 1] = NewFact(call[p].arg, call[p].meta)
<1> DEFINE t == call[p].arg
<1> DEFINE n == Len(facts)
<1>1. CASE \E i \in Stored : facts[i].text = t
  <2>1. IdOf(t) \in Stored /\ facts[IdOf(t)].text = t
    BY <1>1, Zenon DEF IdOf
  <2>2. IdOf(t) # None
    BY <2>1 DEF None, Typed
  <2> QED BY <2>1, <2>2 DEF RememberWrite, Typed, CallFields
<1>2. CASE ~ \E i \in Stored : facts[i].text = t
  <2>1. IdOf(t) = None
    BY <1>2 DEF IdOf
  <2>2. facts' = Append(facts, NewFact(t, call[p].meta)) /\ call'[p].id = n + 1
    BY <2>1 DEF RememberWrite, Typed, CallFields
  <2> DEFINE e == NewFact(t, call[p].meta)
  <2> DEFINE S == {facts[i] : i \in 1..n} \cup {e}
  <2>3. n \in Nat /\ n + 1 \in Nat
    BY DEF Typed
  <2>4. facts \in [1..n -> S]
    BY DEF Typed
  <2>5. e \in S
    OBVIOUS
  <2> HIDE DEF S, e
  <2>6. facts \in Seq(S)
    BY <2>3, <2>4, SeqDef
  <2>7. /\ facts' \in Seq(S) /\ Len(facts') = n + 1 /\ facts'[n + 1] = e
        /\ \A i \in 1..n : facts'[i] = facts[i]
    <3>1. facts' = Append(facts, e)
      BY <2>2 DEF e
    <3> QED BY <2>5, <2>6, <3>1, AppendProperties
  <2>8. facts' \in [1..(n + 1) -> S]
    BY <2>7, LenProperties
  <2>9. facts'[n + 1].text = t
    BY <2>7 DEF e, NewFact
  <2>10. call'[p].id \in DOMAIN facts'
    BY <2>2, <2>3, <2>8
  <2> QED BY <1>2, <2>2, <2>7, <2>8, <2>9, <2>10 DEF Typed, e
<1> QED BY <1>1, <1>2

(* No step removes a row or changes its text, or takes a row of the history *)
(* or of the evidence away.                                                 *)
RowsKept ==
  /\ Len(facts') \in Nat /\ DOMAIN facts' = 1..Len(facts')
  /\ facts' = [i \in 1..Len(facts') |-> facts'[i]]
  /\ \A i \in DOMAIN facts' : DOMAIN facts'[i] = RowFields
  /\ \A i \in Stored :
       /\ i \in DOMAIN facts' /\ facts'[i].text = facts[i].text
       /\ facts[i].confirmed => facts'[i].confirmed
       /\ facts'[i].high = facts[i].high
  /\ kills' \in Nat /\ (kills' = 0 => kills = 0)
  /\ history \subseteq history' /\ evidence \subseteq evidence'

(* No statement of the store loses a row, a text or a confirmation.        *)
LEMMA StoreKeepsRows ==
    ASSUME Typed, NEW p \in Procs, StoreStep(p)
    PROVE  RowsKept /\ kills' = kills
<1> USE DEF RowsKept
<1>1. CASE Looks(p)
  BY <1>1, LooksKeepRows DEF Typed
<1>2. CASE RememberWrite(p)
  <2>1. kills' = kills /\ history' = history /\ evidence' = evidence
    BY <1>2 DEF RememberWrite
  <2>2. CASE facts' = facts
    BY <2>1, <2>2 DEF Typed
  <2>3. CASE facts' # facts
    <3>1. DOMAIN NewFact(call[p].arg, call[p].meta) = RowFields
      BY DEF NewFact, RowFields
    <3>2. /\ Len(facts') = Len(facts) + 1
          /\ DOMAIN facts' = 1..(Len(facts) + 1)
          /\ facts' = [i \in 1..(Len(facts) + 1) |-> facts'[i]]
          /\ \A i \in Stored : facts'[i] = facts[i]
          /\ facts'[Len(facts) + 1] = NewFact(call[p].arg, call[p].meta)
      BY <1>2, <2>3, Remembering
    <3>3. \A i \in DOMAIN facts' : i \in Stored \/ i = Len(facts) + 1
      BY <3>2 DEF Typed
    <3>4. \A i \in Stored : i \in DOMAIN facts' /\ facts'[i] = facts[i]
      BY <3>2 DEF Typed
    <3>5. \A i \in DOMAIN facts' : DOMAIN facts'[i] = RowFields
      BY <3>1, <3>2, <3>3 DEF Typed
    <3> QED BY <2>1, <3>2, <3>4, <3>5 DEF Typed
  <2> QED BY <2>2, <2>3
<1>3. ASSUME LifecycleWrite(p) \/ ConfirmWrite(p) \/ ValidityWrite(p) \/ InvalidateWrite(p)
      PROVE  RowsKept /\ kills' = kills
  <2>1. kills' = kills /\ history' = history /\ evidence' = evidence
    BY <1>3 DEF LifecycleWrite, ConfirmWrite, ValidityWrite, InvalidateWrite
  <2> DEFINE Writes(f) == /\ Rewrites(call[p].id, f)
                          /\ call[p].id \in Stored =>
                               /\ DOMAIN f = RowFields
                               /\ f.text = facts[call[p].id].text
                               /\ facts[call[p].id].confirmed => f.confirmed
                               /\ f.high = facts[call[p].id].high
  <2>2. \E f : Writes(f)
    <3>1. CASE LifecycleWrite(p)
      <4>1. PICK f : /\ Rewrites(call[p].id, f)
                     /\ call[p].id \in Stored =>
                          /\ DOMAIN f = RowFields
                          /\ f.text = facts[call[p].id].text
                          /\ f.confirmed = facts[call[p].id].confirmed
                          /\ f.high = facts[call[p].id].high
        BY <3>1, StatementWrites
      <4>2. Writes(f)
        BY <4>1
      <4> QED BY <4>2
    <3>2. CASE ConfirmWrite(p)
      <4>1. PICK f : /\ Rewrites(call[p].id, f)
                     /\ call[p].id \in Stored =>
                          /\ DOMAIN f = RowFields
                          /\ f.text = facts[call[p].id].text
                          /\ f.confirmed = TRUE
                          /\ f.high = facts[call[p].id].high
        BY <3>2, StatementWrites
      <4>2. Writes(f)
        BY <4>1
      <4> QED BY <4>2
    <3>3. CASE ValidityWrite(p)
      <4>1. PICK f : /\ Rewrites(call[p].id, f)
                     /\ call[p].id \in Stored =>
                          /\ DOMAIN f = RowFields
                          /\ f.text = facts[call[p].id].text
                          /\ f.confirmed = facts[call[p].id].confirmed
                          /\ f.high = facts[call[p].id].high
        BY <3>3, StatementWrites
      <4>2. Writes(f)
        BY <4>1
      <4> QED BY <4>2
    <3>4. CASE InvalidateWrite(p)
      <4>1. PICK f : /\ Rewrites(call[p].id, f)
                     /\ call[p].id \in Stored =>
                          /\ DOMAIN f = RowFields
                          /\ f.text = facts[call[p].id].text
                          /\ f.confirmed = facts[call[p].id].confirmed
                          /\ f.high = facts[call[p].id].high
        BY <3>4, StatementWrites
      <4>2. Writes(f)
        BY <4>1
      <4> QED BY <4>2
    <3> HIDE DEF Writes
    <3> QED BY <1>3, <3>1, <3>2, <3>3, <3>4
  <2> QED BY <2>1, <2>2 DEF Typed, Rewrites
<1> QED
  BY <1>1, <1>2, <1>3 DEF StoreStep, Looks

(* A step of a process: of its tool, or of the store for it.               *)
StepOf(p) ==
  ToolStarts(p) \/ ToolSteps(p) \/ (StoreStep(p) /\ UNCHANGED <<task, tasks, ingested>>)

(* No step does, and after every step rows, calls and tasks have their     *)
(* fields.                                                                 *)
LEMMA StepKeepsRows ==
    ASSUME Typed, NEW p \in Procs, StepOf(p)
    PROVE  RowsKept /\ Elsewhere(p) /\ Typed'
<1>1. RowsKept /\ Elsewhere(p)
  <2>1. CASE ToolStarts(p)
    BY <2>1, ToolStarting, StartsElsewhere DEF Typed, RowsKept, Quiet
  <2>2. CASE ToolSteps(p) /\ ~Kill(p)
    <3>1. kills' = kills /\ facts' = facts /\ history' = history /\ evidence' = evidence
      <4> USE <2>2 DEF Quiet, factVars
      <4>1. CASE RememberValidity(p) \/ IngestCite(p) \/ SweepNext(p) \/ IngestFact(p)
        BY <4>1 DEF RememberValidity, IngestCite, SweepNext, IngestFact
      <4>2. CASE IngestStored(p) \/ Absorbs(p) \/ VerifyCite(p) \/ Return(p)
        BY <4>2 DEF IngestStored, AbsorbFact, Absorbs, VerifyCite, Return
      <4>3. CASE \E t \in Texts \cup {None} : ConsolidateAnswer(p, t)
        BY <4>3 DEF ConsolidateAnswer
      <4>4. CASE ConsolidateMerge(p) \/ ConsolidateCite(p)
        BY <4>4 DEF ConsolidateMerge, ConsolidateCite
      <4>5. CASE \E target \in Stored \cup {None} : VerifyAnswer(p, target)
        BY <4>5 DEF VerifyAnswer
      <4> QED BY <4>1, <4>2, <4>3, <4>4, <4>5 DEF ToolSteps, Absorbs
    <3> QED BY <2>2, <3>1, StepsElsewhere DEF Typed, RowsKept
  <2>3. CASE Kill(p)
    <3>1. ToolSteps(p)
      BY <2>3 DEF ToolSteps, Absorbs
    <3> QED BY <2>3, <3>1, StepsElsewhere DEF Typed, RowsKept, Kill
  <2>4. CASE StoreStep(p) /\ UNCHANGED <<task, tasks, ingested>>
    BY <2>4, StoreKeepsRows, StoreElsewhere
  <2> QED BY <2>1, <2>2, <2>3, <2>4 DEF StepOf
<1>2. Typed'
  BY <1>1 DEF Typed, RowsKept, Elsewhere
<1> QED
  BY <1>1, <1>2

--------------------------------------------------------------------------------
(* What a process knows stays true while others run.                        *)
ShapedAt(c, t) ==
  /\ t = NoTask => c = NoCall
  /\ RememberShape(c)
  /\ ConfirmShape(c)
  /\ InvalidateShape(c, t)
  /\ IngestShape(c, t)

(* What names stored facts goes on to.                                     *)
LEMMA NamesKept ==
    ASSUME RowsKept, NEW c, NEW t, NamesShape(c, t)
    PROVE  NamesShape(c, t)'
<1>1. Stored \subseteq DOMAIN facts'
  BY DEF RowsKept
<1>2. Seq(Stored) \subseteq Seq(DOMAIN facts')
  BY <1>1, SeqDef
<1> QED BY <1>1, <1>2 DEF NamesShape

(* The shape of the calls is kept when the process that stepped kept its   *)
(* own: what the others learnt stays true.                                 *)
LEMMA ShapedFromOwn ==
    ASSUME Typed, Shaped, NEW p \in Procs, RowsKept, Elsewhere(p),
           ShapedAt(call[p], task[p])', NamesShape(call[p], task[p])'
    PROVE  Shaped'
<1> SUFFICES ASSUME NEW q \in Procs
             PROVE  ShapedAt(call[q], task[q])' /\ NamesShape(call[q], task[q])'
  BY DEF Shaped, ShapedAt
<1>1. CASE q = p
  BY <1>1
<1>2. CASE q # p
  <2>1. call'[q] = call[q] /\ task'[q] = task[q]
    BY <1>2 DEF Elsewhere
  <2>2. RememberShape(call[q])'
    BY <2>1 DEF Shaped, RememberShape, RowsKept
  <2>3. ConfirmShape(call[q])'
    BY <2>1 DEF Shaped, ConfirmShape, RowsKept
  <2>4. NamesShape(call[q], task[q])'
    <3>1. NamesShape(call[q], task[q])
      BY DEF Shaped
    <3> QED BY <2>1, <3>1, NamesKept DEF NamesShape
  <2> QED BY <2>1, <2>2, <2>3, <2>4 DEF Shaped, ShapedAt, InvalidateShape, IngestShape
<1> QED BY <1>1, <1>2

(* A tool starts in shape.                                                 *)
LEMMA StartsShaped ==
    ASSUME Typed, Shaped, NEW p \in Procs, ToolStarts(p)
    PROVE  ShapedAt(call[p], task[p])'
<1>0. RowsKept
  BY StepKeepsRows DEF StepOf
<1>1. PICK tool, todo : \E step \in Opening :
        /\ Opens(p, tool, step, todo)
        /\ tool = "ingest" => step = "next" /\ todo \in Seq(Texts) /\ call' = call
  BY ToolStarting
<1>2. PICK step \in Opening : 
        /\ Opens(p, tool, step, todo)
        /\ tool = "ingest" => step = "next" /\ todo \in Seq(Texts) /\ call' = call
  BY <1>1
<1>3. call[p] = NoCall /\ task[p] = NoTask
  BY ToolStarting DEF Shaped
<1>4. /\ task'[p].tool = tool /\ task'[p].step = step /\ task'[p].todo = todo
      /\ tool # "ingest" => task'[p].given = {}
      /\ task'[p] # NoTask
  <2>1. PICK given, cite :
          /\ BeginWith(p, tool, step, todo, given, cite)
          /\ given = IF tool = "ingest" THEN ToSet(todo) ELSE {}
    BY <1>2 DEF Opens
  <2>2. /\ task'[p].tool = tool /\ task'[p].step = step /\ task'[p].todo = todo
        /\ task'[p].given = given
    BY <2>1 DEF BeginWith, NoTask, Typed
  <2> QED BY <2>1, <2>2 DEF NoTask, Opening
<1>5. call'[p].op \in {"none", "remember", "lifecycle", "confirm"} /\ call'[p].at \in {"idle", "read"}
  <2>1. CASE call' = call
    BY <2>1, <1>3 DEF NoCall
  <2>2. ASSUME NEW op \in {"remember", "lifecycle", "confirm"}, NEW meta, NEW id, NEW arg, StartWith(p, meta, op, id, arg)
        PROVE  call'[p].op = op /\ call'[p].at = "read"
    BY <2>2 DEF StartWith, Start, Typed
  <2> QED BY <2>1, <2>2, ToolStarting
<1>6. RememberShape(call[p])' /\ ConfirmShape(call[p])'
  <2>1. RememberShape(call[p])'
    BY <1>5 DEF RememberShape
  <2>2. CASE call' = call
    BY <2>1, <2>2, <1>3 DEF ConfirmShape, NoCall
  <2>3. ASSUME NEW op \in {"remember", "lifecycle", "confirm"}, NEW meta, NEW id, NEW arg,
               StartWith(p, meta, op, id, arg), op = "confirm" => id \in Stored
        PROVE  ConfirmShape(call[p])'
    <3>1. call'[p].op = op /\ call'[p].at = "read" /\ call'[p].id = id
      BY <2>3 DEF StartWith, Start, Typed
    <3> QED BY <2>1, <2>3, <3>1, <1>0 DEF ConfirmShape, RowsKept
  <2> QED BY <2>1, <2>2, <2>3, ToolStarting
<1>7. InvalidateShape(call[p], task[p])'
  BY <1>4, <1>5 DEF InvalidateShape, Opening
<1>8. IngestShape(call[p], task[p])'
  BY <1>2, <1>4 DEF IngestShape
<1> QED
  BY <1>4, <1>6, <1>7, <1>8 DEF ShapedAt

(* A process at rest is in shape.                                          *)
LEMMA ShapedAtRest ==
    ASSUME NEW p \in Procs, Typed, EndTask(p)
    PROVE  ShapedAt(call[p], task[p])'
<1>1. call'[p] = NoCall /\ task'[p] = NoTask
  BY DEF EndTask, Set, Typed
<1> QED
  BY <1>1 DEF ShapedAt, RememberShape, ConfirmShape, InvalidateShape, IngestShape, NamesShape, NoCall, NoTask

(* A step of a tool leaves its call in shape.                              *)
LEMMA StepsShaped ==
    ASSUME Typed, Shaped, NEW p \in Procs, ToolSteps(p)
    PROVE  ShapedAt(call[p], task[p])'
<1> DEFINE c == call[p]
<1> DEFINE t == task[p]
<1>0. ShapedAt(c, t) /\ DOMAIN call = Procs /\ DOMAIN task = Procs
      /\ DOMAIN c = CallFields /\ DOMAIN t = TaskFields
  BY DEF Shaped, ShapedAt, Typed
<1> USE DEF ShapedAt, RememberShape, ConfirmShape, InvalidateShape, IngestShape, Set, StartWith, Start, Ready, Free,
            EndTask, NoTask, NoCall, CallFields, TaskFields
<1>1. CASE RememberValidity(p)
  BY <1>0, <1>1 DEF RememberValidity
<1>2. CASE SweepNext(p)
  BY <1>0, <1>2 DEF SweepNext
<1>3. CASE \E s \in Texts \cup {None} : ConsolidateAnswer(p, s)
  <2>1. PICK s \in Texts \cup {None} : ConsolidateAnswer(p, s) BY <1>3
  <2>2. CASE s = None
    BY <1>0, <2>1, <2>2, ShapedAtRest DEF ConsolidateAnswer
  <2>3. CASE s # None
    <3>1. call'[p].op = "remember" /\ call'[p].at = "read"
      BY <1>0, <2>1, <2>3 DEF ConsolidateAnswer
    <3>2. /\ task'[p].tool = "consolidate" /\ task'[p].step = "merge"
          /\ task'[p].given = t.given
      BY <1>0, <2>1, <2>3 DEF ConsolidateAnswer
    <3> QED BY <1>0, <2>1, <3>1, <3>2 DEF ConsolidateAnswer
  <2> QED BY <2>2, <2>3
<1>4. CASE ConsolidateMerge(p)
  BY <1>0, <1>4 DEF ConsolidateMerge
<1>5. CASE ConsolidateCite(p)
  <2>1. call'[p].op \notin {"remember", "confirm"}
        /\ (call'[p].op = "invalidate" => call'[p].at = "done" /\ call'[p].ok # TRUE)
    <3>1. CASE c.ok
      <4>1. call'[p].op = "attach"
        BY <1>0, <1>5, <3>1 DEF ConsolidateCite
      <4> QED BY <4>1
    <3>2. CASE ~c.ok
      <4>1. c.ok # TRUE
        BY <3>2
      <4>2. call' = call
        BY <1>5, <3>2 DEF ConsolidateCite
      <4>3. c.op = "invalidate" /\ c.at = "done"
        BY <1>0, <1>5 DEF ConsolidateCite
      <4> QED BY <4>1, <4>2, <4>3
    <3> QED BY <3>1, <3>2
  <2>2. /\ task'[p].tool = "consolidate" /\ task'[p].step = "merge"
        /\ task'[p].given = t.given
    BY <1>0, <1>5 DEF ConsolidateCite
  <2> QED BY <1>0, <1>5, <2>1, <2>2 DEF ConsolidateCite
<1>6. CASE IngestFact(p)
  BY <1>0, <1>6 DEF IngestFact
<1>7. CASE IngestCite(p)
  <2>1. call'[p].op = "attach" \/ (call' = call /\ facts' = facts /\ c.op = "remember" /\ c.at = "done")
    <3>1. CASE t.cite /\ t.step \in CitedSteps
      BY <1>0, <1>7, <3>1 DEF IngestCite
    <3>2. CASE ~(t.cite /\ t.step \in CitedSteps)
      BY <1>0, <1>7, <3>2 DEF IngestCite, Quiet
    <3> QED BY <3>1, <3>2
  <2>2. task'[p].tool = "ingest" /\ task'[p].step = "next" /\ task'[p].todo = Tail(t.todo)
    BY <1>0, <1>7 DEF IngestCite
  <2>3. t.todo \in Seq(Texts) /\ t.todo # <<>>
    BY <1>0, <1>7 DEF IngestCite
  <2>4. Tail(t.todo) \in Seq(Texts)
    BY <2>3, HeadTailProperties
  <2> QED BY <1>0, <2>1, <2>2, <2>4
<1>8. CASE IngestStored(p)
  BY <1>0, <1>8 DEF IngestStored, factVars
<1>9. CASE \E target \in Stored \cup {None} : VerifyAnswer(p, target)
  <2>1. PICK target \in Stored \cup {None} : VerifyAnswer(p, target) BY <1>9
  <2>2. CASE target = None \/ (target \in Stored /\ facts[target].strong)
    <3>1. call' = call /\ facts' = facts
      BY <2>1, <2>2 DEF VerifyAnswer, Quiet
    <3>2. /\ task'[p].tool = "ingest" /\ task'[p].step = "verify"
          /\ task'[p].todo = t.todo
      BY <1>0, <2>1, <2>2 DEF VerifyAnswer
    <3> QED BY <1>0, <2>1, <3>1, <3>2 DEF VerifyAnswer
  <2>3. CASE ~ (target = None \/ (target \in Stored /\ facts[target].strong))
    <3>1. call'[p].op = "invalidate" /\ call'[p].at = "read" /\ call'[p].arg = Head(t.mine)
      BY <1>0, <2>1, <2>3 DEF VerifyAnswer
    <3>2. /\ task'[p].tool = "ingest" /\ task'[p].step = "verdict"
          /\ task'[p].todo = t.todo /\ task'[p].mine = t.mine
      BY <1>0, <2>1, <2>3 DEF VerifyAnswer
    <3> QED BY <1>0, <2>1, <3>1, <3>2 DEF VerifyAnswer
  <2> QED BY <2>2, <2>3
<1>10. CASE VerifyCite(p)
  <2>1. call'[p].op \notin {"remember", "confirm"}
        /\ (call'[p].op = "invalidate" => call'[p].at = "done" /\ call'[p].ok # TRUE)
    <3>1. CASE c.ok
      <4>1. call'[p].op = "attach"
        BY <1>0, <1>10, <3>1 DEF VerifyCite
      <4> QED BY <4>1
    <3>2. CASE ~c.ok
      <4>1. c.ok # TRUE
        BY <3>2
      <4>2. call' = call
        BY <1>10, <3>2 DEF VerifyCite
      <4>3. c.op = "invalidate" /\ c.at = "done"
        BY <1>0, <1>10 DEF VerifyCite
      <4> QED BY <4>1, <4>2, <4>3
    <3> QED BY <3>1, <3>2
  <2>2. /\ task'[p].tool = "ingest" /\ task'[p].step = "verify"
        /\ task'[p].todo = t.todo
    BY <1>0, <1>10 DEF VerifyCite
  <2> QED BY <1>0, <1>10, <2>1, <2>2 DEF VerifyCite
<1>11. CASE Absorbs(p)
  BY <1>0, <1>11 DEF AbsorbFact, Absorbs
<1>12. CASE Return(p) \/ Kill(p)
  BY <1>0, <1>12, ShapedAtRest DEF Return, Kill
<1> QED
  BY <1>1, <1>2, <1>3, <1>4, <1>5, <1>6, <1>7, <1>8, <1>9, <1>10, <1>11, <1>12 DEF ToolSteps, Absorbs

(* A statement of the store leaves its call in shape: a remember call that *)
(* inserts has read that the text was not there.                           *)
LEMMA StoreShaped ==
    ASSUME Typed, Shaped, NEW p \in Procs, StoreStep(p), task' = task
    PROVE  ShapedAt(call[p], task[p])'
<1> DEFINE c == call[p]
<1> DEFINE t == task[p]
<1>0. ShapedAt(c, t) /\ DOMAIN call = Procs /\ DOMAIN task = Procs
      /\ DOMAIN c = CallFields /\ DOMAIN t = TaskFields
  BY DEF Shaped, ShapedAt, Typed
<1>00. RowsKept
  BY StoreKeepsRows
<1> USE DEF ShapedAt, RememberShape, ConfirmShape, InvalidateShape, IngestShape, At, Goto, Done,
            NoTask, NoCall, CallFields, TaskFields
<1>1. CASE RememberRead(p)
  BY <1>0, <1>1 DEF RememberRead, IdOf
<1>2. CASE RememberWrite(p)
  <2>1. /\ call'[p].op = "remember" /\ call'[p].arg = c.arg
        /\ call'[p].at \in {"log", "done"} /\ c.op = "remember"
    BY <1>0, <1>2 DEF RememberWrite
  <2>2. call'[p].id \in DOMAIN facts' /\ facts'[call'[p].id].text = c.arg
    BY <1>2, Remembering
  <2> QED BY <1>0, <2>1, <2>2
<1>3. CASE LifecycleRead(p) \/ LifecycleWrite(p)
  BY <1>0, <1>00, <1>3 DEF LifecycleRead, LifecycleWrite
<1>4. CASE ConfirmRead(p)
  <2>1. /\ call'[p].op = "confirm" /\ call'[p].id = c.id /\ c.op = "confirm" /\ facts' = facts
        /\ call'[p].seen = (facts[c.id].valid = "valid" /\ facts[c.id].life = "active"
                            /\ (facts[c.id].high \/ facts[c.id].confirmed))
    BY <1>0, <1>4 DEF ConfirmRead
  <2>2. call'[p].seen => facts[c.id].confirmed \/ facts[c.id].high
    BY <2>1
  <2> QED BY <1>0, <2>1, <2>2
<1>8. CASE ConfirmWrite(p)
  <2>1. /\ call'[p].op = "confirm" /\ call'[p].id = c.id /\ c.op = "confirm"
        /\ call'[p].at \in {"log", "done"}
    BY <1>0, <1>8 DEF ConfirmWrite
  <2> QED BY <1>0, <1>00, <2>1 DEF RowsKept
<1>5. CASE ValidityRead(p) \/ ValidityWrite(p)
  BY <1>0, <1>00, <1>5 DEF ValidityRead, ValidityWrite
<1>6. CASE InvalidateRead(p) \/ InvalidateWrite(p)
  BY <1>0, <1>00, <1>6 DEF InvalidateRead, InvalidateWrite
<1>7. CASE Log(p) \/ Attach(p)
  BY <1>0, <1>00, <1>7 DEF Log, Attach
<1> QED
  BY <1>1, <1>2, <1>3, <1>4, <1>5, <1>6, <1>7, <1>8 DEF StoreStep

(* A tool starts with no fact in mind but those it is told of.             *)
LEMMA StartsNamed ==
    ASSUME Typed, Shaped, NEW p \in Procs, ToolStarts(p)
    PROVE  NamesShape(call[p], task[p])'
<1>1. PICK tool, todo : \E step \in Opening : Opens(p, tool, step, todo)
  BY ToolStarting
<1>2. PICK step \in Opening : Opens(p, tool, step, todo)
  BY <1>1
<1>3. call[p] = NoCall
  BY ToolStarting DEF Shaped
<1>4. task'[p].step = step /\ task'[p].into = None /\ task'[p].mine = <<>>
  BY <1>2 DEF Opens, BeginWith, NoTask, Typed
<1>5. call'[p].op # "attach"
  <2>1. CASE call' = call
    BY <2>1, <1>3 DEF NoCall
  <2>2. ASSUME NEW op \in {"remember", "lifecycle", "confirm"}, NEW meta, NEW id, NEW arg,
               StartWith(p, meta, op, id, arg)
        PROVE  call'[p].op = op
    BY <2>2 DEF StartWith, Typed
  <2> QED BY <2>1, <2>2, ToolStarting
<1>6. <<>> \in Seq(DOMAIN facts')
  OBVIOUS
<1> QED
  BY <1>4, <1>5, <1>6 DEF NamesShape, Opening

(* A step of a tool goes on with stored facts.                             *)
LEMMA StepsNamed ==
    ASSUME Typed, Shaped, NEW p \in Procs, ToolSteps(p)
    PROVE  NamesShape(call[p], task[p])'
<1> DEFINE c == call[p]
<1> DEFINE t == task[p]
<1>0. /\ NamesShape(c, t) /\ RememberShape(c) /\ InvalidateShape(c, t) /\ IngestShape(c, t)
      /\ DOMAIN call = Procs /\ DOMAIN task = Procs
      /\ DOMAIN c = CallFields /\ DOMAIN t = TaskFields
  BY DEF Shaped, Typed
<1>00. None \notin Stored
  BY DEF Typed, None
<1> USE DEF NamesShape, Set, StartWith, Start, Ready, Free, CallFields, TaskFields
<1>1. CASE RememberValidity(p)
  BY <1>0, <1>1 DEF RememberValidity
<1>2. CASE SweepNext(p)
  BY <1>0, <1>2 DEF SweepNext
<1>3. CASE \E s \in Texts \cup {None} : ConsolidateAnswer(p, s)
  <2>1. PICK s \in Texts \cup {None} : ConsolidateAnswer(p, s) BY <1>3
  <2>2. CASE s = None
    BY <1>0, <2>1, <2>2 DEF ConsolidateAnswer, EndTask, NoTask, NoCall
  <2>3. CASE s # None
    <3>1. call'[p].op = "remember" /\ call'[p].at = "read"
      BY <1>0, <2>1, <2>3 DEF ConsolidateAnswer
    <3>2. /\ task'[p].tool = "consolidate" /\ task'[p].step = "merge"
          /\ task'[p].into = None
      BY <1>0, <2>1, <2>3 DEF ConsolidateAnswer
    <3> QED BY <3>1, <3>2
  <2> QED BY <2>2, <2>3
<1>4. CASE ConsolidateMerge(p)
  <2>1. /\ t.tool = "consolidate" /\ t.step = "merge" /\ c.at \in {"idle", "done"}
        /\ facts' = facts /\ call'[p].op = "invalidate"
        /\ task'[p].tool = "consolidate" /\ task'[p].step = "cite"
        /\ task'[p].into = IF t.into = None THEN c.id ELSE t.into
    BY <1>0, <1>4 DEF ConsolidateMerge, Quiet
  <2>2. task'[p].into \in Stored
    BY <1>0, <1>00, <2>1 DEF RememberShape
  <2> QED BY <2>1, <2>2
<1>5. CASE ConsolidateCite(p)
  <2>1. /\ t.into \in Stored /\ facts' = facts /\ c.op = "invalidate"
        /\ task'[p].tool = "consolidate" /\ task'[p].step = "merge" /\ task'[p].into = t.into
    BY <1>0, <1>5 DEF ConsolidateCite, InvalidateShape, Quiet
  <2>2. call'[p].op = "attach" => call'[p].id = t.into
    <3>1. CASE c.ok
      BY <1>0, <1>5, <3>1 DEF ConsolidateCite
    <3>2. CASE ~c.ok
      BY <1>0, <1>5, <2>1, <3>2 DEF ConsolidateCite
    <3> QED BY <3>1, <3>2
  <2> QED BY <2>1, <2>2
<1>6. CASE IngestFact(p)
  BY <1>0, <1>6 DEF IngestFact, Quiet
<1>7. CASE IngestCite(p)
  <2>1. /\ t.tool = "ingest" /\ c.op = "remember" /\ c.at = "done" /\ facts' = facts
        /\ task'[p].tool = "ingest" /\ task'[p].step = "next"
        /\ task'[p].mine = IF t.step = "new" THEN Append(t.mine, c.id) ELSE t.mine
    BY <1>0, <1>7 DEF IngestCite, IngestShape, Quiet
  <2>2. c.id \in Stored /\ t.mine \in Seq(Stored)
    BY <1>0, <2>1 DEF RememberShape
  <2>3. task'[p].mine \in Seq(Stored)
    BY <2>1, <2>2, AppendProperties
  <2>4. call'[p].id = c.id
    <3>1. CASE t.cite /\ t.step \in CitedSteps
      BY <1>0, <1>7, <3>1 DEF IngestCite
    <3>2. CASE ~(t.cite /\ t.step \in CitedSteps)
      BY <1>0, <1>7, <3>2 DEF IngestCite
    <3> QED BY <3>1, <3>2
  <2> QED BY <2>1, <2>2, <2>3, <2>4
<1>8. CASE IngestStored(p)
  BY <1>0, <1>8 DEF IngestStored, factVars
<1>9. CASE \E target \in Stored \cup {None} : VerifyAnswer(p, target)
  <2>1. PICK target \in Stored \cup {None} : VerifyAnswer(p, target) BY <1>9
  <2>2. t.mine \in Seq(Stored) /\ t.mine # <<>> /\ facts' = facts
    BY <1>0, <2>1 DEF VerifyAnswer, Quiet
  <2>3. Tail(t.mine) \in Seq(Stored)
    BY <2>2, HeadTailProperties
  <2>4. CASE target = None \/ (target \in Stored /\ facts[target].strong)
    <3>1. /\ call' = call /\ task'[p].tool = "ingest" /\ task'[p].mine = Tail(t.mine)
          /\ task'[p].step = "verify"
      BY <1>0, <2>1, <2>4 DEF VerifyAnswer
    <3> QED BY <1>0, <2>2, <2>3, <3>1
  <2>5. CASE ~ (target = None \/ (target \in Stored /\ facts[target].strong))
    <3>1. call'[p].op = "invalidate" /\ task'[p].tool = "ingest" /\ task'[p].mine = t.mine
      BY <1>0, <2>1, <2>5 DEF VerifyAnswer
    <3> QED BY <2>2, <3>1
  <2> QED BY <2>4, <2>5
<1>10. CASE VerifyCite(p)
  <2>1. /\ t.mine \in Seq(Stored) /\ facts' = facts /\ c.op = "invalidate"
        /\ task'[p].tool = "ingest" /\ task'[p].mine = Tail(t.mine) /\ task'[p].step = "verify"
    BY <1>0, <1>10 DEF VerifyCite, InvalidateShape, Quiet
  <2>2. t.mine # <<>>
    BY <1>0, <1>10 DEF VerifyCite
  <2>3. Head(t.mine) \in Stored /\ Tail(t.mine) \in Seq(Stored)
    BY <2>1, <2>2, HeadTailProperties
  <2>4. call'[p].op = "attach" => call'[p].id = Head(t.mine)
    <3>1. CASE c.ok
      BY <1>0, <1>10, <3>1 DEF VerifyCite
    <3>2. CASE ~c.ok
      BY <1>0, <1>10, <2>1, <3>2 DEF VerifyCite
    <3> QED BY <3>1, <3>2
  <2> QED BY <2>1, <2>3, <2>4
<1>11. CASE Absorbs(p)
  BY <1>0, <1>11 DEF AbsorbFact, Absorbs
<1>12. CASE Return(p) \/ Kill(p)
  BY <1>0, <1>12 DEF Return, Kill, EndTask, NoTask, NoCall
<1> QED
  BY <1>1, <1>2, <1>3, <1>4, <1>5, <1>6, <1>7, <1>8, <1>9, <1>10, <1>11, <1>12 DEF ToolSteps, Absorbs

(* A statement of the store does not change what its call is about, except *)
(* that remember learns the id.                                            *)
LEMMA StoreNamed ==
    ASSUME Typed, Shaped, NEW p \in Procs, StoreStep(p), task' = task
    PROVE  NamesShape(call[p], task[p])'
<1> DEFINE c == call[p]
<1>0. /\ NamesShape(c, task[p])
      /\ DOMAIN call = Procs /\ DOMAIN c = CallFields
  BY DEF Shaped, Typed
<1>1. call'[p].op = c.op /\ call'[p].at # "idle" /\ (c.op = "attach" => call'[p].id = c.id)
  <2> USE DEF At, Goto, Done, CallFields
  <2>1. CASE RememberRead(p) \/ LifecycleRead(p) \/ ConfirmRead(p)
    BY <1>0, <2>1 DEF RememberRead, LifecycleRead, ConfirmRead
  <2>2. CASE ValidityRead(p) \/ InvalidateRead(p)
    BY <1>0, <2>2 DEF ValidityRead, InvalidateRead
  <2>3. CASE RememberWrite(p)
    BY <1>0, <2>3 DEF RememberWrite
  <2>4. CASE LifecycleWrite(p) \/ ConfirmWrite(p)
    BY <1>0, <2>4 DEF LifecycleWrite, ConfirmWrite
  <2>5. CASE ValidityWrite(p) \/ InvalidateWrite(p)
    BY <1>0, <2>5 DEF ValidityWrite, InvalidateWrite
  <2>6. CASE Log(p) \/ Attach(p)
    BY <1>0, <2>6 DEF Log, Attach
  <2> QED BY <2>1, <2>2, <2>3, <2>4, <2>5, <2>6 DEF StoreStep
<1>2. Stored \subseteq DOMAIN facts'
  BY StoreKeepsRows DEF RowsKept
<1>3. Seq(Stored) \subseteq Seq(DOMAIN facts')
  BY <1>2, SeqDef
<1> QED BY <1>0, <1>1, <1>2, <1>3 DEF NamesShape

(* Every step keeps the shape of the calls.                                *)
LEMMA StepShaped ==
    ASSUME Typed, Shaped, NEW p \in Procs, StepOf(p)
    PROVE  Shaped'
<1>1. RowsKept /\ Elsewhere(p)
  BY StepKeepsRows
<1>2. ShapedAt(call[p], task[p])'
  BY StartsShaped, StepsShaped, StoreShaped DEF StepOf
<1>3. NamesShape(call[p], task[p])'
  BY StartsNamed, StepsNamed, StoreNamed DEF StepOf
<1> QED
  BY <1>1, <1>2, <1>3, ShapedFromOwn

--------------------------------------------------------------------------------
(* The event each operation logs.                                          *)
LEMMA EventNames ==
    ASSUME NEW c
    PROVE  /\ c.op = "remember" => EventOf(c) = "created"
           /\ c.op = "lifecycle" => EventOf(c) = c.arg
           /\ c.op = "confirm" => EventOf(c) = "confirmed"
           /\ c.op = "invalidate" => EventOf(c) = "invalidated"
BY DEF EventOf

(* The rows the calls of the other processes owe stay owed; a process at a *)
(* statement that is not its last owes none.                               *)
LEMMA OwedElsewhere ==
    ASSUME Typed, NEW p \in Procs, Elsewhere(p), call[p].at # "log", NEW i, NEW e,
           \E q \in Procs : Owed(q, i, e)
    PROVE  \E q \in Procs : Owed(q, i, e)'
<1>1. PICK q \in Procs : Owed(q, i, e)
  OBVIOUS
<1>2. q # p
  BY <1>1 DEF Owed
<1>3. call'[q] = call[q]
  BY <1>2 DEF Elsewhere
<1>4. Owed(q, i, e)'
  BY <1>1, <1>3 DEF Owed, EventOf
<1> QED BY <1>4

(* A step that makes nothing due without owing it keeps the account.        *)
LEMMA AuditFromOwn ==
    ASSUME Typed, Audited, NEW p \in Procs, Elsewhere(p), RowsKept, call[p].at # "log",
           \A i \in DOMAIN facts', e \in {"created", "forgotten", "confirmed", "invalidated"} :
             Due(facts'[i], e) =>
               \/ i \in Stored /\ Due(facts[i], e)
               \/ Owed(p, i, e)'
    PROVE  Audited'
<1> SUFFICES ASSUME kills' = 0, NEW i \in DOMAIN facts',
                    NEW e \in {"created", "forgotten", "confirmed", "invalidated"},
                    Due(facts'[i], e)
             PROVE  <<i, e>> \in history' \/ \E q \in Procs : Owed(q, i, e)'
  BY DEF Audited, Owed, EventOf
<1>1. CASE Owed(p, i, e)'
  BY <1>1
<1>2. CASE i \in Stored /\ Due(facts[i], e)
  <2>1. <<i, e>> \in history \/ \E q \in Procs : Owed(q, i, e)
    BY <1>2 DEF Audited, RowsKept
  <2>2. CASE <<i, e>> \in history
    BY <2>2 DEF RowsKept
  <2>3. CASE \E q \in Procs : Owed(q, i, e)
    BY <2>3, OwedElsewhere
  <2> QED BY <2>1, <2>2, <2>3
<1> QED BY <1>1, <1>2

(* A tool acts only when its store call is over.                            *)
LEMMA ToolsWait ==
    ASSUME Typed, Shaped, NEW p \in Procs, ToolStarts(p) \/ ToolSteps(p), kills' = kills
    PROVE  Free(p) /\ Quiet
<1>1. CASE ToolStarts(p)
  BY <1>1, ToolStarting DEF Shaped, NoCall, Free
<1>2. CASE ToolSteps(p)
  BY <1>2, ToolStepping
<1> QED BY <1>1, <1>2

(* Every step keeps the account of the history.                            *)
LEMMA StepAudited ==
    ASSUME Typed, Shaped, Audited, NEW p \in Procs, StepOf(p)
    PROVE  Audited'
<1>0. RowsKept /\ Elsewhere(p) /\ DOMAIN call = Procs /\ DOMAIN call[p] = CallFields
  BY StepKeepsRows DEF Typed
<1> DEFINE c == call[p]
<1>1. CASE kills' # 0
  BY <1>1 DEF Audited
<1>2. CASE (ToolStarts(p) \/ ToolSteps(p)) /\ kills' = 0
  <2>1. kills' = kills
    BY <1>0, <1>2 DEF RowsKept
  <2>2. Free(p) /\ facts' = facts
    BY <1>2, <2>1, ToolsWait DEF Quiet
  <2>3. c.at # "log"
    BY <2>2 DEF Free
  <2> QED BY <1>0, <2>2, <2>3, AuditFromOwn
<1>3. CASE Log(p)
  <2>1. c.at = "log" /\ facts' = facts /\ kills' = kills /\ history' = history \cup {<<c.id, EventOf(c)>>}
    BY <1>3 DEF Log, Record
  <2>2. SUFFICES ASSUME kills' = 0, NEW i \in DOMAIN facts',
                        NEW e \in {"created", "forgotten", "confirmed", "invalidated"},
                        Due(facts'[i], e)
                 PROVE  <<i, e>> \in history' \/ \E q \in Procs : Owed(q, i, e)'
    BY DEF Audited, Owed, EventOf
  <2>3. <<i, e>> \in history \/ \E q \in Procs : Owed(q, i, e)
    BY <2>1, <2>2 DEF Audited
  <2>4. CASE <<i, e>> \in history
    BY <2>1, <2>4
  <2>5. ASSUME NEW q \in Procs, Owed(q, i, e)
        PROVE  <<i, e>> \in history' \/ \E r \in Procs : Owed(r, i, e)'
    <3>1. CASE q = p
      BY <2>1, <2>5, <3>1 DEF Owed
    <3>2. CASE q # p
      <4>1. call'[q] = call[q]
        BY <1>0, <3>2 DEF Elsewhere
      <4>2. Owed(q, i, e)'
        BY <2>5, <4>1 DEF Owed, EventOf
      <4> QED BY <4>2
    <3> QED BY <3>1, <3>2
  <2> QED BY <2>3, <2>4, <2>5
<1>4. CASE Looks(p) /\ ~Log(p)
  <2>1. facts' = facts
    BY <1>4, LooksKeepRows
  <2>2. c.at # "log"
    BY <1>4 DEF Looks, RememberRead, LifecycleRead, ConfirmRead, ValidityRead, InvalidateRead,
                Attach, At
  <2> QED BY <1>0, <2>1, <2>2, AuditFromOwn
<1>5. CASE RememberWrite(p)
  <2>1. c.op = "remember" /\ c.at = "write" /\ call'[p].op = "remember"
        /\ call'[p].at = IF c.seen = None THEN "log" ELSE "done"
    BY <1>0, <1>5 DEF RememberWrite, At, CallFields
  <2>2. CASE facts' = facts
    BY <1>0, <2>1, <2>2, AuditFromOwn
  <2>3. CASE facts' # facts
    <3>0. PICK n : n = Len(facts) + 1
      OBVIOUS
    <3>1. /\ ~ \E i \in Stored : facts[i].text = c.arg
          /\ DOMAIN facts' = 1..n
          /\ \A i \in Stored : facts'[i] = facts[i]
          /\ call'[p].id = n
          /\ facts'[n] = NewFact(c.arg, c.meta)
      BY <1>5, <2>3, <3>0, Remembering
    <3>2. call'[p].at = "log" /\ EventOf(call'[p]) = "created"
      BY <2>1, <3>1, EventNames DEF Shaped, RememberShape
    <3>3. Owed(p, n, "created")'
      BY <3>1, <3>2 DEF Owed
    <3>4. \A i \in DOMAIN facts' : i \in Stored \/ i = n
      BY <3>0, <3>1 DEF Typed
    <3>5. \A e \in {"created", "forgotten", "confirmed", "invalidated"} :
            Due(NewFact(c.arg, c.meta), e) => e = "created"
      BY DEF Due, NewFact, None
    <3>6. ASSUME NEW i \in DOMAIN facts',
                 NEW e \in {"created", "forgotten", "confirmed", "invalidated"}, Due(facts'[i], e)
          PROVE  (i \in Stored /\ Due(facts[i], e)) \/ Owed(p, i, e)'
      <4>1. CASE i \in Stored
        BY <3>1, <3>6, <4>1
      <4>2. CASE i = n
        BY <3>1, <3>3, <3>5, <3>6, <4>2
      <4> QED BY <3>4, <4>1, <4>2
    <3> QED BY <1>0, <2>1, <3>6, AuditFromOwn
  <2> QED BY <2>2, <2>3
<1>6. CASE LifecycleWrite(p)
  <2>1. /\ c.op = "lifecycle" /\ c.at = "write" /\ call'[p].op = "lifecycle"
        /\ call'[p].id = c.id /\ call'[p].arg = c.arg
        /\ c.seen # c.arg => call'[p].at = "log"
    BY <1>0, <1>6 DEF LifecycleWrite, At, CallFields
  <2>2. PICK f : /\ Rewrites(c.id, f)
                 /\ c.id \in Stored =>
                      /\ f.confirmed = facts[c.id].confirmed /\ f.high = facts[c.id].high
                      /\ f.sup = facts[c.id].sup
                      /\ \/ f.life = facts[c.id].life
                         \/ f.life = c.arg /\ c.seen # c.arg
    BY <1>6, StatementWrites
  <2>3. ASSUME NEW i \in DOMAIN facts', NEW e \in {"created", "forgotten", "confirmed", "invalidated"},
               Due(facts'[i], e)
        PROVE  (i \in Stored /\ Due(facts[i], e)) \/ Owed(p, i, e)'
    BY <2>1, <2>2, <2>3 DEF Due, Rewrites, Owed, EventOf
  <2> QED BY <1>0, <2>1, <2>3, AuditFromOwn
<1>7. CASE ConfirmWrite(p)
  <2>1. /\ c.op = "confirm" /\ c.at = "write" /\ call'[p].op = "confirm"
        /\ call'[p].id = c.id
        /\ c.seen \/ call'[p].at = "log"
    BY <1>0, <1>7 DEF ConfirmWrite, At, CallFields
  <2>2. PICK f : /\ Rewrites(c.id, f)
                 /\ c.id \in Stored =>
                      /\ f.life = "active" /\ f.high = facts[c.id].high
                      /\ f.sup = facts[c.id].sup
    BY <1>7, StatementWrites
  <2>3. c.seen /\ c.id \in Stored => facts[c.id].confirmed \/ facts[c.id].high
    BY <2>1 DEF Shaped, ConfirmShape
  <2>4. ASSUME NEW i \in DOMAIN facts', NEW e \in {"created", "forgotten", "confirmed", "invalidated"},
               Due(facts'[i], e)
        PROVE  (i \in Stored /\ Due(facts[i], e)) \/ Owed(p, i, e)'
    BY <2>1, <2>2, <2>3, <2>4 DEF Due, Rewrites, Owed, EventOf
  <2> QED BY <1>0, <2>1, <2>4, AuditFromOwn
<1>8. CASE ValidityWrite(p)
  <2>1. c.at = "write"
    BY <1>8 DEF ValidityWrite, At
  <2>2. PICK f : /\ Rewrites(c.id, f)
                 /\ c.id \in Stored =>
                      /\ f.life = facts[c.id].life
                      /\ f.confirmed = facts[c.id].confirmed /\ f.high = facts[c.id].high
                      /\ f.sup = facts[c.id].sup
    BY <1>8, StatementWrites
  <2>3. ASSUME NEW i \in DOMAIN facts', NEW e \in {"created", "forgotten", "confirmed", "invalidated"},
               Due(facts'[i], e)
        PROVE  i \in Stored /\ Due(facts[i], e)
    BY <2>2, <2>3 DEF Due, Rewrites
  <2> QED BY <1>0, <2>1, <2>3, AuditFromOwn
<1>9. CASE InvalidateWrite(p)
  <2>1. /\ c.at = "write" /\ call'[p].op = "invalidate"
        /\ call'[p].id = c.id /\ call'[p].at = "log"
    BY <1>0, <1>9 DEF InvalidateWrite, At, CallFields
  <2>2. PICK f : /\ Rewrites(c.id, f)
                 /\ c.id \in Stored =>
                      /\ f.life = facts[c.id].life
                      /\ f.confirmed = facts[c.id].confirmed /\ f.high = facts[c.id].high
    BY <1>9, StatementWrites
  <2>3. ASSUME NEW i \in DOMAIN facts', NEW e \in {"created", "forgotten", "confirmed", "invalidated"},
               Due(facts'[i], e)
        PROVE  (i \in Stored /\ Due(facts[i], e)) \/ Owed(p, i, e)'
    BY <2>1, <2>2, <2>3 DEF Due, Rewrites, Owed, EventOf
  <2> QED BY <1>0, <2>1, <2>3, AuditFromOwn
<1> QED
  BY <1>0, <1>1, <1>2, <1>3, <1>4, <1>5, <1>6, <1>7, <1>8, <1>9 DEF StepOf, StoreStep, Looks

--------------------------------------------------------------------------------
(* A step of a process that cites nothing, after which every superseded     *)
(* fact was superseded before by the same or is cited by this process,      *)
(* keeps the account.                                                       *)
LEMMA ProvenanceFromOwn ==
    ASSUME Typed, Provenance, NEW p \in Procs, Elsewhere(p), RowsKept,
           \A s, i : Citing(p, s, i) =>
             <<s, i>> \in evidence' \/ Uncitable(s)' \/ Citing(p, s, i)',
           \A i \in DOMAIN facts' :
             facts'[i].sup # None =>
               \/ i \in Stored /\ facts[i].sup = facts'[i].sup
               \/ Citing(p, facts[i].sup, i)'
    PROVE  Provenance'
<1> SUFFICES ASSUME kills' = 0, NEW i \in DOMAIN facts', facts'[i].sup # None
             PROVE  \/ <<facts'[i].sup, i>> \in evidence' \/ Uncitable(facts[i].sup)'
                    \/ \E q \in Procs : Citing(q, facts[i].sup, i)'
  BY DEF Provenance
<1>0. PICK s : s = facts'[i].sup
  OBVIOUS
<1> SUFFICES <<s, i>> \in evidence' \/ Uncitable(s)' \/ \E q \in Procs : Citing(q, s, i)'
  BY <1>0 DEF Citing, Uncitable
<1>1. CASE Citing(p, facts[i].sup, i)'
  <2>1. Citing(p, s, i)'
    BY <1>0, <1>1 DEF Citing
  <2> QED BY <2>1
<1>2. CASE i \in Stored /\ facts[i].sup = s
  <2>1. <<s, i>> \in evidence \/ Uncitable(s) \/ \E q \in Procs : Citing(q, s, i)
    BY <1>0, <1>2 DEF Provenance, RowsKept
  <2>4. CASE Uncitable(s)
    BY <2>4 DEF Uncitable, RowsKept
  <2>2. CASE <<s, i>> \in evidence
    BY <2>2 DEF RowsKept
  <2>3. ASSUME NEW q \in Procs, Citing(q, s, i)
        PROVE  <<s, i>> \in evidence' \/ Uncitable(s)' \/ \E r \in Procs : Citing(r, s, i)'
    <3>1. CASE q = p
      BY <2>3, <3>1
    <3>2. CASE q # p
      <4>1. call'[q] = call[q]
        BY <3>2 DEF Elsewhere
      <4>2. Citing(q, s, i)'
        BY <2>3, <4>1 DEF Citing
      <4> QED BY <4>2
    <3> QED BY <3>1, <3>2
  <2> QED BY <2>1, <2>2, <2>3, <2>4
<1> QED BY <1>0, <1>1, <1>2

(* A tool goes on from a call that superseded a fact by citing it.          *)
LEMMA ToolsCite ==
    ASSUME Typed, Shaped, NEW p \in Procs, ToolStarts(p) \/ ToolSteps(p), kills' = kills,
           NEW s, NEW i, Citing(p, s, i)
    PROVE  Citing(p, s, i)'
<1> DEFINE c == call[p]
<1> DEFINE t == task[p]
<1>0. Free(p) /\ DOMAIN call = Procs
  BY ToolsWait DEF Typed
<1>1. c.op = "invalidate" /\ c.at = "done" /\ c.ok = TRUE /\ c.id = i /\ c.arg = s
  BY <1>0 DEF Citing, Free
<1>2. \/ t.tool = "consolidate" /\ t.step = "cite" /\ s = t.into /\ i = Head(t.todo)
      \/ t.tool = "ingest" /\ t.step = "verdict" /\ s = Head(t.mine)
  BY <1>1 DEF Shaped, InvalidateShape
<1>3. ~ToolStarts(p)
  BY <1>1, ToolStarting DEF Shaped, NoCall
<1>4. CASE t.tool = "consolidate"
  <2>1. ConsolidateCite(p)
    <3> USE <1>2, <1>4 DEF Ready
    <3>1. ~RememberValidity(p) /\ ~SweepNext(p) /\ ~IngestFact(p) /\ ~IngestCite(p) /\ ~IngestStored(p)
      BY DEF RememberValidity, SweepNext, IngestFact, IngestCite, IngestStored
    <3>2. ~VerifyCite(p) /\ ~Absorbs(p) /\ ~Return(p) /\ ~Kill(p) /\ ~ConsolidateMerge(p)
      BY ToolStepping, <1>3 DEF VerifyCite, AbsorbFact, Absorbs, Return, ConsolidateMerge
    <3>3. ~ (\E x \in Texts \cup {None} : ConsolidateAnswer(p, x))
      BY DEF ConsolidateAnswer
    <3>4. ~ (\E x \in Stored \cup {None} : VerifyAnswer(p, x))
      BY DEF VerifyAnswer
    <3> QED BY <1>3, <3>1, <3>2, <3>3, <3>4 DEF ToolSteps, Absorbs
  <2>2. Start(p, "attach", t.into, Head(t.todo))
    BY <2>1, <1>1 DEF ConsolidateCite
  <2> QED BY <1>0, <1>2, <1>4, <2>2 DEF StartWith, Start, Citing
<1>5. CASE t.tool = "ingest"
  <2>1. VerifyCite(p)
    <3> USE <1>2, <1>5 DEF Ready
    <3>1. ~RememberValidity(p) /\ ~SweepNext(p) /\ ~IngestFact(p) /\ ~IngestCite(p) /\ ~IngestStored(p)
      BY DEF RememberValidity, SweepNext, IngestFact, IngestCite, IngestStored
    <3>2. ~ConsolidateCite(p) /\ ~Absorbs(p) /\ ~Return(p) /\ ~Kill(p) /\ ~ConsolidateMerge(p)
      BY ToolStepping, <1>3 DEF ConsolidateCite, AbsorbFact, Absorbs, Return, ConsolidateMerge
    <3>3. ~ (\E x \in Texts \cup {None} : ConsolidateAnswer(p, x))
      BY DEF ConsolidateAnswer
    <3>4. ~ (\E x \in Stored \cup {None} : VerifyAnswer(p, x))
      BY DEF VerifyAnswer
    <3> QED BY <1>3, <3>1, <3>2, <3>3, <3>4 DEF ToolSteps, Absorbs
  <2>2. Start(p, "attach", Head(t.mine), c.id)
    BY <2>1, <1>1 DEF VerifyCite
  <2> QED BY <1>0, <1>1, <1>2, <1>5, <2>2 DEF StartWith, Start, Citing
<1> QED BY <1>2, <1>4, <1>5

(* Every step keeps the account of the citations.                          *)
LEMMA StepProvenance ==
    ASSUME Typed, Shaped, Provenance, NEW p \in Procs, StepOf(p)
    PROVE  Provenance'
<1>0. RowsKept /\ Elsewhere(p) /\ DOMAIN call = Procs /\ DOMAIN call[p] = CallFields
  BY StepKeepsRows DEF Typed
<1> DEFINE c == call[p]
<1>1. CASE kills' # 0
  BY <1>1 DEF Provenance
<1>2. CASE (ToolStarts(p) \/ ToolSteps(p)) /\ kills' = 0
  <2>1. kills' = kills
    BY <1>0, <1>2 DEF RowsKept
  <2>2. facts' = facts
    BY <1>2, <2>1, ToolsWait DEF Quiet
  <2>3. \A s, i : Citing(p, s, i) => Citing(p, s, i)'
    BY <1>2, <2>1, ToolsCite
  <2> QED BY <1>0, <2>2, <2>3, ProvenanceFromOwn
<1>3. CASE Log(p)
  <2>1. /\ facts' = facts /\ c.at = "log" /\ call'[p].at = "done" /\ call'[p].op = c.op
        /\ call'[p].id = c.id /\ call'[p].arg = c.arg /\ call'[p].ok = c.ok
    BY <1>0, <1>3 DEF Log, Goto, CallFields
  <2>2. \A s, i : Citing(p, s, i) => Citing(p, s, i)'
    BY <2>1 DEF Citing
  <2> QED BY <1>0, <2>1, <2>2, ProvenanceFromOwn
<1>4. CASE Attach(p)
  <2>1. /\ facts' = facts /\ c.op = "attach" /\ c.id \in Stored
        /\ facts[c.id].text \notin Shared => <<c.id, c.arg>> \in evidence'
    BY <1>4 DEF Attach, At, Shaped, NamesShape
  <2>2. \A s, i : Citing(p, s, i) => <<s, i>> \in evidence' \/ Uncitable(s)'
    BY <2>1 DEF Citing, Uncitable
  <2> QED BY <1>0, <2>1, <2>2, ProvenanceFromOwn
<1>5. CASE Looks(p) /\ ~Log(p) /\ ~Attach(p)
  <2>1. facts' = facts
    BY <1>5, LooksKeepRows
  <2>2. c.at = "read" /\ c.op # "attach"
    BY <1>5 DEF Looks, RememberRead, LifecycleRead, ConfirmRead, ValidityRead, InvalidateRead, At
  <2>3. \A s, i : ~Citing(p, s, i)
    BY <2>2 DEF Citing
  <2> QED BY <1>0, <2>1, <2>3, ProvenanceFromOwn
<1>6. CASE RememberWrite(p) \/ LifecycleWrite(p) \/ ConfirmWrite(p) \/ ValidityWrite(p) \/ InvalidateWrite(p)
  <2>1. c.at = "write"
    BY <1>6 DEF RememberWrite, LifecycleWrite, ConfirmWrite, ValidityWrite, InvalidateWrite, At
  <2>2. \A s, i : ~Citing(p, s, i)
    BY <2>1 DEF Citing
  <2>3. \A i \in DOMAIN facts' :
             facts'[i].sup # None =>
               \/ i \in Stored /\ facts[i].sup = facts'[i].sup
               \/ Citing(p, facts[i].sup, i)'
    <3>1. CASE RememberWrite(p) /\ facts' = facts
      BY <3>1
    <3>2. CASE RememberWrite(p) /\ facts' # facts
      <4>0. PICK n : n = Len(facts) + 1
        OBVIOUS
      <4>1. /\ DOMAIN facts' = 1..n
            /\ \A i \in Stored : facts'[i] = facts[i]
            /\ facts'[n] = NewFact(c.arg, c.meta)
        BY <3>2, <4>0, Remembering
      <4>2. \A i \in DOMAIN facts' : i \in Stored \/ i = n
        BY <4>0, <4>1 DEF Typed
      <4>3. NewFact(c.arg, c.meta).sup = None
        BY DEF NewFact
      <4> QED BY <4>1, <4>2, <4>3
    <3>3. CASE LifecycleWrite(p) \/ ConfirmWrite(p) \/ ValidityWrite(p)
      <4>1. PICK f : Rewrites(c.id, f) /\ (c.id \in Stored => f.sup = facts[c.id].sup)
        BY <3>3, StatementWrites
      <4> QED BY <4>1 DEF Rewrites
    <3>4. CASE InvalidateWrite(p)
      <4>1. PICK f : Rewrites(c.id, f) /\ (c.id \in Stored => f.sup = c.arg)
        BY <3>4, StatementWrites
      <4>2. /\ call'[p].op = "invalidate" /\ call'[p].at = "log" /\ call'[p].ok = TRUE
            /\ call'[p].id = c.id /\ call'[p].arg = c.arg
        BY <1>0, <3>4 DEF InvalidateWrite, At, CallFields
      <4> QED BY <4>1, <4>2 DEF Rewrites, Citing
    <3> QED BY <1>6, <3>1, <3>2, <3>3, <3>4
  <2> QED BY <1>0, <2>2, <2>3, ProvenanceFromOwn
<1> QED
  BY <1>0, <1>1, <1>2, <1>3, <1>4, <1>5, <1>6 DEF StepOf, StoreStep, Looks

--------------------------------------------------------------------------------
(* What the task of a process accounts for.                                 *)
Given(c, t) ==
  \A x \in t.given : x \in ToSet(t.todo) \/ Cited(x, t.cite) \/ Attaching(c, x)

(* A cited text stays cited.                                               *)
LEMMA CitedKept ==
    ASSUME RowsKept, NEW x, NEW cite, Cited(x, cite)
    PROVE  Cited(x, cite)'
BY DEF RowsKept, Cited

(* The account of the texts is kept when the process that stepped kept its *)
(* own.                                                                    *)
LEMMA IngestingFromOwn ==
    ASSUME Typed, Ingesting, NEW p \in Procs, Elsewhere(p), RowsKept,
           Given(call[p], task[p])',
           \A x, cite : <<x, cite>> \in ingested' => <<x, cite>> \in ingested \/ Cited(x, cite)
    PROVE  Ingesting'
<1>1. ASSUME NEW q \in Procs PROVE Given(call[q], task[q])'
  <2>1. CASE q = p
    BY <2>1
  <2>2. CASE q # p
    <3>1. call'[q] = call[q] /\ task'[q] = task[q]
      BY <2>2 DEF Elsewhere
    <3> SUFFICES ASSUME NEW x \in task[q].given
                 PROVE  \/ x \in ToSet(task'[q].todo) \/ Cited(x, task[q].cite)'
                        \/ Attaching(call[q], x)'
      BY <3>1 DEF Given
    <3>2. CASE x \in ToSet(task[q].todo)
      BY <3>1, <3>2
    <3>3. CASE Cited(x, task[q].cite)
      <4>1. PICK cite : cite = task[q].cite
        OBVIOUS
      <4>2. Cited(x, cite)'
        BY <3>3, <4>1, CitedKept
      <4> QED BY <3>1, <4>1, <4>2
    <3>4. CASE Attaching(call[q], x)
      BY <3>1, <3>4 DEF Attaching, RowsKept
    <3> QED BY <3>2, <3>3, <3>4 DEF Ingesting
  <2> QED BY <2>1, <2>2
<1>2. ASSUME NEW x, NEW cite, <<x, cite>> \in ingested' PROVE Cited(x, cite)'
  BY <1>2, CitedKept DEF Ingesting
<1> QED
  BY <1>1, <1>2 DEF Ingesting, Given

(* The texts still to do when the first is taken off.                       *)
LEMMA TakenOff ==
    ASSUME NEW q \in Seq(Texts), q # <<>>, NEW x \in ToSet(q)
    PROVE  x = Head(q) \/ x \in ToSet(Tail(q))
<1>1. PICK i \in DOMAIN q : q[i] = x
  BY DEF ToSet
<1>2. Len(q) \in Nat /\ DOMAIN q = 1..Len(q)
  BY LenProperties
<1>3. /\ Tail(q) \in Seq(Texts) /\ Len(Tail(q)) = Len(q) - 1
      /\ \A j \in 1 .. Len(Tail(q)) : Tail(q)[j] = q[j + 1]
  BY HeadTailProperties
<1>4. DOMAIN Tail(q) = 1 .. (Len(q) - 1)
  BY <1>3, LenProperties
<1>5. CASE i = 1
  BY <1>1, <1>5
<1>6. CASE i # 1
  <2>1. i - 1 \in DOMAIN Tail(q) /\ Tail(q)[i - 1] = x
    BY <1>1, <1>2, <1>3, <1>4, <1>6
  <2> QED BY <2>1 DEF ToSet
<1> QED BY <1>5, <1>6

(* A step of a tool accounts for every text it was given, and returns when *)
(* all are cited.                                                          *)
LEMMA ToolsGiven ==
    ASSUME Typed, Shaped, Ingesting, NEW p \in Procs, ToolSteps(p), kills' = kills
    PROVE  /\ Given(call[p], task[p])'
           /\ \A x, cite : <<x, cite>> \in ingested' => <<x, cite>> \in ingested \/ Cited(x, cite)
<1> DEFINE c == call[p]
<1> DEFINE t == task[p]
<1>0. /\ DOMAIN call = Procs /\ DOMAIN task = Procs /\ DOMAIN t = TaskFields
      /\ IngestShape(c, t)
  BY DEF Typed, Shaped
<1>00. Quiet /\ c.at # "read" /\ ~Kill(p)
  BY ToolStepping DEF Free
<1>01. \A x \in t.given : x \in ToSet(t.todo) \/ Cited(x, t.cite)
  BY <1>00 DEF Ingesting, Attaching
<1>02. \A x : Cited(x, t.cite) => \A cite : cite = t.cite => Cited(x, cite)'
  BY <1>00 DEF Quiet, Cited
<1> USE DEF Set, Ready, EndTask, TaskFields
<1>1. CASE t.tool # "ingest" /\ ~Return(p)
  <2>1. t.given = {}
    BY <1>0, <1>1 DEF IngestShape
  <2>2. task'[p].given = {} /\ ingested' = ingested
    <3> USE <1>0, <1>1, <2>1
    <3>1. CASE RememberValidity(p) \/ SweepNext(p) \/ Absorbs(p)
      BY <3>1 DEF RememberValidity, SweepNext, AbsorbFact, Absorbs
    <3>2. CASE \E x \in Texts \cup {None} : ConsolidateAnswer(p, x)
      BY <3>2 DEF ConsolidateAnswer, NoTask
    <3>3. CASE ConsolidateMerge(p)
      BY <3>3 DEF ConsolidateMerge
    <3>6. CASE ConsolidateCite(p)
      BY <3>6 DEF ConsolidateCite
    <3>4. ~IngestFact(p) /\ ~IngestCite(p) /\ ~IngestStored(p) /\ ~VerifyCite(p)
      BY DEF IngestFact, IngestCite, IngestStored, VerifyCite
    <3>5. ~ (\E x \in Stored \cup {None} : VerifyAnswer(p, x))
      BY DEF VerifyAnswer
    <3> QED BY <1>00, <3>1, <3>2, <3>3, <3>4, <3>5, <3>6 DEF ToolSteps, Absorbs
  <2> QED BY <2>2 DEF Given
<1>2. CASE Return(p)
  <2>1. task'[p] = NoTask /\ ingested' = ingested \cup {<<u, t.cite>> : u \in t.given}
    BY <1>0, <1>2 DEF Return
  <2>2. t.tool = "ingest" => t.todo = <<>>
    BY <1>0, <1>2 DEF Return, IngestShape
  <2>3. t.given # {} => t.tool = "ingest"
    BY <1>0 DEF IngestShape
  <2>4. ToSet(<<>>) = {}
    BY DEF ToSet
  <2>5. \A x \in t.given : Cited(x, t.cite)
    BY <1>01, <2>2, <2>3, <2>4
  <2>6. Given(call[p], task[p])'
    BY <2>1 DEF Given, NoTask
  <2>7. ASSUME NEW x, NEW cite, <<x, cite>> \in ingested', <<x, cite>> \notin ingested
        PROVE  Cited(x, cite)
    <3>1. x \in t.given /\ cite = t.cite
      BY <2>1, <2>7
    <3> QED BY <2>5, <3>1
  <2> QED BY <2>6, <2>7
<1>3. CASE t.tool = "ingest" /\ ~Return(p) /\ ~IngestCite(p)
  <2>1. /\ task'[p].given = t.given /\ task'[p].todo = t.todo /\ ingested' = ingested
        /\ task'[p].cite = t.cite
    <3> USE <1>0, <1>3
    <3>1. CASE IngestFact(p) \/ IngestStored(p) \/ VerifyCite(p)
      BY <3>1 DEF IngestFact, IngestStored, VerifyCite
    <3>2. CASE \E x \in Stored \cup {None} : VerifyAnswer(p, x)
      BY <3>2 DEF VerifyAnswer
    <3>3. ~RememberValidity(p) /\ ~SweepNext(p) /\ ~Absorbs(p) /\ ~ConsolidateMerge(p) /\ ~ConsolidateCite(p)
      BY DEF RememberValidity, SweepNext, AbsorbFact, Absorbs, ConsolidateMerge, ConsolidateCite
    <3>4. ~ (\E x \in Texts \cup {None} : ConsolidateAnswer(p, x))
      BY DEF ConsolidateAnswer
    <3> QED BY <1>00, <3>1, <3>2, <3>3, <3>4 DEF ToolSteps, Absorbs
  <2> QED BY <1>01, <1>02, <2>1 DEF Given
<1>4. CASE IngestCite(p)
  <2>1. /\ task'[p].given = t.given /\ task'[p].todo = Tail(t.todo) /\ ingested' = ingested
        /\ t.todo # <<>> /\ t.todo \in Seq(Texts) /\ task'[p].cite = t.cite
        /\ c.op = "remember" /\ c.at = "done" /\ c.arg = Head(t.todo)
    BY <1>0, <1>4 DEF IngestCite, IngestShape
  <2>2. t.cite => /\ call'[p].op = "attach" /\ call'[p].at = "read" /\ call'[p].arg = Session
                  /\ call'[p].id = c.id
    BY <1>0, <1>4 DEF IngestCite, CitedSteps, StartWith, Start
  <2>3. c.id \in Stored /\ facts[c.id].text = Head(t.todo) /\ facts' = facts
    BY <1>00, <2>1 DEF Shaped, RememberShape, Quiet
  <2>4. PICK h : h = Head(t.todo)
    OBVIOUS
  <2>8. PICK cite : cite = t.cite
    OBVIOUS
  <2>5. Attaching(call[p], h)' \/ Cited(h, cite)'
    <3>1. CASE cite
      BY <2>2, <2>3, <2>4, <2>8, <3>1 DEF Attaching
    <3>2. CASE ~cite
      BY <2>3, <2>4, <3>2 DEF Cited
    <3> QED BY <3>1, <3>2
  <2>6. ASSUME NEW x \in t.given
        PROVE  x \in ToSet(Tail(t.todo)) \/ Cited(x, cite)' \/ x = h
    BY <1>01, <1>02, <2>1, <2>4, <2>8, TakenOff
  <2>7. \A x \in task'[p].given :
          x \in ToSet(task'[p].todo) \/ Cited(x, cite)' \/ Attaching(call[p], x)'
    <3> SUFFICES ASSUME NEW x \in t.given, x = h
                 PROVE  Cited(x, cite)' \/ Attaching(call[p], x)'
      BY <2>1, <2>6
    <3> QED BY <2>5 DEF Attaching, Cited
  <2> QED BY <2>1, <2>7, <2>8 DEF Given
<1> QED BY <1>1, <1>2, <1>3, <1>4

(* Every step keeps the account of the texts.                              *)
LEMMA StepIngesting ==
    ASSUME Typed, Shaped, Ingesting, NEW p \in Procs, StepOf(p)
    PROVE  Ingesting'
<1>0. RowsKept /\ Elsewhere(p) /\ DOMAIN call = Procs /\ DOMAIN task = Procs
  BY StepKeepsRows DEF Typed
<1> DEFINE c == call[p]
<1> DEFINE t == task[p]
<1>1. CASE ToolStarts(p)
  <2>1. PICK tool, todo : \E step \in Opening : Opens(p, tool, step, todo)
    BY <1>1, ToolStarting
  <2>2. /\ task'[p].todo = todo
        /\ task'[p].given = IF tool = "ingest" THEN ToSet(todo) ELSE {}
    BY <1>0, <2>1 DEF Opens, BeginWith, NoTask
  <2>3. Given(call[p], task[p])'
    BY <2>2 DEF Given
  <2> QED BY <1>0, <1>1, <2>3, ToolStarting, IngestingFromOwn
<1>2. CASE Kill(p)
  <2>1. task'[p] = NoTask /\ ingested' = ingested
    BY <1>0, <1>2 DEF Kill, EndTask, Set
  <2>2. Given(call[p], task[p])'
    BY <2>1 DEF Given, NoTask
  <2> QED BY <1>0, <2>1, <2>2, IngestingFromOwn
<1>3. CASE ToolSteps(p) /\ ~Kill(p)
  <2>1. kills' = kills
    <3> USE <1>3 DEF Quiet, factVars
    <3>1. CASE RememberValidity(p) \/ IngestCite(p) \/ SweepNext(p) \/ IngestFact(p)
      BY <3>1 DEF RememberValidity, IngestCite, SweepNext, IngestFact
    <3>2. CASE IngestStored(p) \/ Absorbs(p) \/ VerifyCite(p) \/ Return(p)
      BY <3>2 DEF IngestStored, AbsorbFact, Absorbs, VerifyCite, Return
    <3>3. CASE \E x \in Texts \cup {None} : ConsolidateAnswer(p, x)
      BY <3>3 DEF ConsolidateAnswer
    <3>4. CASE ConsolidateMerge(p) \/ ConsolidateCite(p)
      BY <3>4 DEF ConsolidateMerge, ConsolidateCite
    <3>5. CASE \E target \in Stored \cup {None} : VerifyAnswer(p, target)
      BY <3>5 DEF VerifyAnswer
    <3> QED BY <3>1, <3>2, <3>3, <3>4, <3>5 DEF ToolSteps, Absorbs
  <2> QED BY <1>0, <1>3, <2>1, ToolsGiven, IngestingFromOwn
<1>4. CASE StoreStep(p) /\ UNCHANGED <<task, tasks, ingested>>
  <2>1. task' = task /\ ingested' = ingested
    BY <1>4
  <2> SUFFICES ASSUME NEW x \in t.given
               PROVE  x \in ToSet(t.todo) \/ Cited(x, task[p].cite)' \/ Attaching(call[p], x)'
    BY <1>0, <2>1, IngestingFromOwn DEF Given
  <2>5. PICK cite : cite = t.cite
    OBVIOUS
  <2> SUFFICES x \in ToSet(t.todo) \/ Cited(x, cite)' \/ Attaching(call[p], x)'
    BY <2>1, <2>5
  <2>2. CASE Cited(x, cite)
    BY <1>0, <2>2, CitedKept
  <2>3. CASE Attaching(c, x)
    <3>1. c.op = "attach" /\ c.at = "read"
      BY <2>3 DEF Attaching
    <3>2. Attach(p)
      BY <1>4, <3>1 DEF StoreStep, RememberRead, RememberWrite, LifecycleRead, LifecycleWrite,
          ConfirmRead, ConfirmWrite, ValidityRead, ValidityWrite, InvalidateRead, InvalidateWrite,
          Log, At
    <3>3. facts' = facts /\ (facts[c.id].text \notin Shared => <<c.id, c.arg>> \in evidence')
      BY <3>2 DEF Attach
    <3>4. Cited(x, cite)'
      BY <2>3, <3>3 DEF Attaching, Cited
    <3> QED BY <3>4
  <2> QED BY <2>2, <2>3, <2>5 DEF Ingesting
<1> QED
  BY <1>1, <1>2, <1>3, <1>4 DEF StepOf

--------------------------------------------------------------------------------
(* The seeds are logged, and nothing is under way.                         *)
LEMMA FactsInvInit == Init => FactsInv
<1> SUFFICES ASSUME Init PROVE FactsInv
  OBVIOUS
<1>1. PICK meta \in [1..Len(Seeds) -> Metas] :
        facts = [i \in 1..Len(Seeds) |-> NewFact(Seeds[i], meta[i])]
  BY DEF Init, FactsInit
<1>2. Len(Seeds) \in Nat
  BY FactsAssumption, LenProperties
<1>3. facts = [i \in 1..Len(Seeds) |-> facts[i]]
  BY <1>1
<1>4. Len(facts) = Len(Seeds) /\ Stored = 1..Len(Seeds)
  BY <1>2, <1>3, LenOfInterval
<1>5. \A i \in Stored : facts[i] = NewFact(Seeds[i], meta[i])
  BY <1>1, <1>4
<1>6. /\ call = [p \in Procs |-> NoCall] /\ task = [p \in Procs |-> NoTask]
      /\ history = {<<i, "created">> : i \in 1..Len(Seeds)} /\ kills = 0 /\ ingested = {}
  BY DEF Init, FactsInit
<1>7. Typed
  BY <1>2, <1>3, <1>4, <1>5, <1>6 DEF Typed, NewFact, NoCall, NoTask, RowFields, CallFields, TaskFields
<1>8. Shaped
  BY <1>6 DEF Shaped, NoCall, NoTask, RememberShape, ConfirmShape, InvalidateShape, IngestShape, NamesShape
<1>9. Audited
  <2>1. \A i \in Stored : facts[i].life = "active" /\ facts[i].confirmed = FALSE /\ facts[i].sup = None
    BY <1>5 DEF NewFact
  <2> QED BY <1>4, <1>6, <2>1 DEF Audited, Due
<1>10. Provenance
  BY <1>5 DEF Provenance, NewFact
<1>11. Ingesting
  BY <1>6 DEF Ingesting, NoTask
<1> QED BY <1>7, <1>8, <1>9, <1>10, <1>11 DEF FactsInv

(* Every step keeps the invariant.                                         *)
LEMMA FactsInvStep == FactsInv /\ [Next]_vars => FactsInv'
<1> SUFFICES ASSUME FactsInv, [Next]_vars PROVE FactsInv'
  OBVIOUS
<1>1. CASE UNCHANGED vars
  <2>1. /\ facts' = facts /\ history' = history /\ evidence' = evidence /\ call' = call
        /\ kills' = kills /\ task' = task /\ ingested' = ingested
    BY <1>1 DEF vars, factVars
  <2>2. Typed'
    BY <2>1 DEF FactsInv, Typed
  <2>3. Shaped'
    BY <2>1 DEF FactsInv, Shaped, RememberShape, ConfirmShape, InvalidateShape, IngestShape, NamesShape
  <2>4. Audited'
    <3>1. \A q \in Procs : \A i, e : Owed(q, i, e) => Owed(q, i, e)'
      BY <2>1 DEF Owed, EventOf
    <3> SUFFICES ASSUME kills' = 0, NEW i \in DOMAIN facts',
                        NEW e \in {"created", "forgotten", "confirmed", "invalidated"},
                        Due(facts'[i], e)
                 PROVE  <<i, e>> \in history' \/ \E q \in Procs : Owed(q, i, e)'
      BY DEF Audited, Owed, EventOf
    <3> QED BY <2>1, <3>1 DEF FactsInv, Audited
  <2>5. Provenance'
    BY <2>1 DEF FactsInv, Provenance, Citing, Uncitable
  <2>6. Ingesting'
    BY <2>1 DEF FactsInv, Ingesting, Cited, Attaching
  <2> QED BY <2>2, <2>3, <2>4, <2>5, <2>6 DEF FactsInv
<1>2. CASE Next
  <2>1. PICK p \in Procs : StepOf(p)
    BY <1>2 DEF Next, StepOf
  <2>2. Typed'
    BY <2>1, StepKeepsRows DEF FactsInv
  <2>3. Shaped'
    BY <2>1, StepShaped DEF FactsInv
  <2>4. Audited'
    BY <2>1, StepAudited DEF FactsInv
  <2>5. Provenance'
    BY <2>1, StepProvenance DEF FactsInv
  <2>6. Ingesting'
    BY <2>1, StepIngesting DEF FactsInv
  <2> QED BY <2>2, <2>3, <2>4, <2>5, <2>6 DEF FactsInv
<1> QED BY <1>1, <1>2

(* The account is kept in every reachable state.                            *)
THEOREM FactsKept == Spec => []FactsInv
BY FactsInvInit, FactsInvStep, PTL DEF Spec

(* No process has a call under way when all are at rest.                    *)
LEMMA RestOwesNothing ==
    ASSUME FactsInv, AtRest, NEW p \in Procs
    PROVE  call[p] = NoCall
BY DEF FactsInv, Shaped, AtRest

(* For any number of processes and calls: when no call is under way and     *)
(* none was killed, the history names every fact's creation and everything  *)
(* that was done to it, although each operation of the store writes its row *)
(* of the history in a statement of its own, after the one it reports; the  *)
(* confirmation of a fact created with high trust apart.                    *)
THEOREM AuditCompleteCorrect == Spec => []AuditComplete
<1>1. FactsInv => AuditComplete
  <2> SUFFICES ASSUME FactsInv, AtRest, kills = 0, NEW i \in Stored
               PROVE  /\ <<i, "created">> \in history
                      /\ facts[i].life = "forgotten" => <<i, "forgotten">> \in history
                      /\ facts[i].confirmed /\ ~facts[i].high => <<i, "confirmed">> \in history
                      /\ facts[i].sup # None => <<i, "invalidated">> \in history
    BY DEF AuditComplete
  <2>1. \A p \in Procs : call[p].at = "idle"
    BY RestOwesNothing DEF NoCall
  <2>2. \A e \in {"created", "forgotten", "confirmed", "invalidated"} :
          Due(facts[i], e) => <<i, e>> \in history
    BY <2>1 DEF FactsInv, Audited, Owed
  <2> QED BY <2>2 DEF Due
<1> QED BY <1>1, FactsKept, PTL

(* For any number of merges and verifications at once: a superseded fact is *)
(* cited by the evidence of the fact that superseded it last, unless that   *)
(* fact is in the empty workspace, where the citation is refused.           *)
THEOREM MergeProvenanceCorrect == Spec => []MergeProvenance
<1>1. FactsInv => MergeProvenance
  <2> SUFFICES ASSUME FactsInv, AtRest, kills = 0, NEW i \in Stored, facts[i].sup # None,
                      facts[facts[i].sup].text \notin Shared
               PROVE  <<facts[i].sup, i>> \in evidence
    BY DEF MergeProvenance
  <2>1. \A p \in Procs : call[p].op = "none"
    BY RestOwesNothing DEF NoCall
  <2>2. \A p \in Procs : ~Citing(p, facts[i].sup, i)
    BY <2>1 DEF Citing
  <2> QED BY <2>2 DEF FactsInv, Provenance, Uncitable
<1> QED BY <1>1, FactsKept, PTL

(* For any number of ingest_turn calls and kills: a call that returned has  *)
(* every text of its answer stored, and in a named workspace with evidence  *)
(* that names the session, if it was given one.                             *)
THEOREM IngestCompleteCorrect == Spec => []IngestComplete
<1>1. FactsInv => IngestComplete
  BY DEF FactsInv, Ingesting, IngestComplete, Cited
<1> QED BY <1>1, FactsKept, PTL
================================================================================
