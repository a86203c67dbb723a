-------------------------------- MODULE Runs --------------------------------
(***************************************************************************)
(* Runs, measurements and feedback: run_begin, run_end, link_run,          *)
(* record_measurement and record_feedback.  A summary beyond               *)
(* MAX_RUN_DIFF_BYTES is stored cut short, so it is another value.         *)
(***************************************************************************)
EXTENDS RecordCalls

CONSTANTS RunIds, Refs,             \* runs, and issues they are bound to
          Summaries, LongSummaries, \* what a run is closed with, "" for none; too long ones
          Metrics, Values,          \* metrics of a measurement, their values
          FeedbackIds, Signals

ASSUME RunsAssumption ==
  /\ LongSummaries \subseteq Summaries
  /\ \A s \in LongSummaries : <<"cut", s>> \notin LongSummaries

VARIABLES runs,          \* by id: issue, state and summary
          measurements,  \* by metric: the value stored
          feedback       \* by id: the signal

runVars == <<runs, measurements, feedback>>

NoneYet == [r \in {} |-> r]
With(f, k, v) == [x \in DOMAIN f \cup {k} |-> IF x = k THEN v ELSE f[x]]

RunsInit == runs = NoneYet /\ measurements = NoneYet /\ feedback = NoneYet

Truncated(s) == IF s \in LongSummaries THEN <<"cut", s>> ELSE s

RunBegin(p, id, issue) ==
  /\ Start(p, [args |-> [op |-> "begin", key |-> id, issue |-> issue], at |-> "begin"])
  /\ UNCHANGED runVars

BeginRead(p) ==
  LET a == call[p].args
  IN /\ At(p, "begin")
     /\ IF a.key \notin DOMAIN runs THEN Goto(p, "begin insert")
        ELSE IF runs[a.key].issue = a.issue THEN Ack(p, <<>>)
        ELSE Refuse(p)
     /\ UNCHANGED runVars

BeginInsert(p) ==
  LET a == call[p].args
  IN /\ At(p, "begin insert")
     /\ IF a.key \in DOMAIN runs
        THEN Fail(p) /\ UNCHANGED runs
        ELSE /\ Ack(p, <<>>)
             /\ runs' = With(runs, a.key, [issue |-> a.issue, state |-> "open", summary |-> ""])
     /\ UNCHANGED <<measurements, feedback>>

RunEnd(p, id, summary) ==
  /\ Start(p, [args |-> [op |-> "end", key |-> id, summary |-> summary], at |-> "end"])
  /\ UNCHANGED runVars

EndReadOpen(p) ==
  LET a == call[p].args
  IN /\ At(p, "end")
     /\ IF a.key \notin DOMAIN runs THEN Fail(p) ELSE Goto(p, "end update")
     /\ UNCHANGED runVars
EndRead(p) ==
  LET a == call[p].args
  IN /\ At(p, "end")
     /\ IF a.key \notin DOMAIN runs THEN Fail(p)
        ELSE IF runs[a.key].state = "open" THEN Goto(p, "end update")
        ELSE IF a.summary \in {"", runs[a.key].summary} THEN Ack(p, <<>>)
        ELSE Refuse(p)
     /\ UNCHANGED runVars

EndUpdate(p) ==
  LET a == call[p].args
  IN /\ At(p, "end update")
     /\ runs' = [runs EXCEPT ![a.key].state = "closed", ![a.key].summary = Truncated(a.summary)]
     /\ Ack(p, <<>>)
     /\ UNCHANGED <<measurements, feedback>>

LinkRun(p, id, issue) ==
  /\ id \in DOMAIN runs
  /\ Start(p, [args |-> [op |-> "bind", key |-> id, issue |-> issue], at |-> "bind"])
  /\ UNCHANGED runVars

LinkUpdate(p) ==
  LET a == call[p].args
  IN /\ At(p, "bind")
     /\ runs' = [runs EXCEPT ![a.key].issue = a.issue]
     /\ Ack(p, <<>>)
     /\ UNCHANGED <<measurements, feedback>>

(* record_measurement: of the metrics given, one is stored, under its own  *)
(* name, the sample and the variant; the measurement_id is not stored.     *)
Measure(p, id, run, metric, value) ==
  /\ run \in DOMAIN runs
  /\ Start(p, [args |-> [op |-> "measure", key |-> metric, id |-> id, value |-> value],
               at |-> "measure"])
  /\ UNCHANGED runVars

MeasureRead(p) ==
  LET a == call[p].args
  IN /\ At(p, "measure")
     /\ IF a.key \notin DOMAIN measurements THEN Goto(p, "measure insert")
        ELSE IF measurements[a.key] = a.value THEN Ack(p, <<>>)
        ELSE Refuse(p)
     /\ UNCHANGED runVars

MeasureInsert(p) ==
  LET a == call[p].args
  IN /\ At(p, "measure insert")
     /\ IF a.key \in DOMAIN measurements
        THEN Fail(p) /\ UNCHANGED measurements
        ELSE Ack(p, <<>>) /\ measurements' = With(measurements, a.key, a.value)
     /\ UNCHANGED <<runs, feedback>>

RecordFeedback(p, id, signal) ==
  /\ Start(p, [args |-> [op |-> "feedback", key |-> id, signal |-> signal], at |-> "feedback"])
  /\ UNCHANGED runVars

FeedbackRead(p) ==
  LET a == call[p].args
  IN /\ At(p, "feedback")
     /\ IF a.key \notin DOMAIN feedback THEN Goto(p, "feedback insert")
        ELSE IF feedback[a.key] = a.signal THEN Ack(p, <<>>)
        ELSE Refuse(p)
     /\ UNCHANGED runVars

FeedbackInsert(p) ==
  LET a == call[p].args
  IN /\ At(p, "feedback insert")
     /\ IF a.key \in DOMAIN feedback
        THEN Fail(p) /\ UNCHANGED feedback
        ELSE Ack(p, <<>>) /\ feedback' = With(feedback, a.key, a.signal)
     /\ UNCHANGED <<runs, measurements>>

RunsNext ==
  \E p \in Procs :
    \/ \E id \in RunIds :
         \/ \E issue \in Refs : RunBegin(p, id, issue) \/ LinkRun(p, id, issue)
         \/ \E s \in Summaries : RunEnd(p, id, s)
         \/ \E i \in Refs, m \in Metrics, v \in Values : Measure(p, i, id, m, v)
    \/ \E id \in FeedbackIds, s \in Signals : RecordFeedback(p, id, s)
    \/ BeginRead(p) \/ BeginInsert(p) \/ EndRead(p) \/ EndUpdate(p) \/ LinkUpdate(p)
    \/ MeasureRead(p) \/ MeasureInsert(p) \/ FeedbackRead(p) \/ FeedbackInsert(p)

--------------------------------------------------------------------------------
(* A run whose end returned stays closed with that summary: a later end    *)
(* with another one is refused and a later begin does not reopen it.       *)
ClosedAsAcked ==
  ~overlapped =>
    \A a \in acked :
      a.args.op = "end" =>
        /\ runs[a.args.key].state = "closed"
        /\ runs[a.args.key].summary = Truncated(a.args.summary) \/ a.args.summary = ""
================================================================================
