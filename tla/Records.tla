------------------------------- MODULE Records -------------------------------
(***************************************************************************)
(* The records of a workspace that calls only add: contexts, lineage and   *)
(* events beside runs, measurements and feedback, in one file used by      *)
(* several processes.  All of them promise that a call can be repeated.    *)
(***************************************************************************)
EXTENDS Contexts, Runs

vars == <<callVars, contextVars, runVars>>

Init == CallsInit /\ ContextsInit /\ RunsInit

Next ==
  \/ ContextsNext /\ UNCHANGED runVars
  \/ RunsNext /\ UNCHANGED contextVars

Spec == Init /\ [][Next]_vars

--------------------------------------------------------------------------------
\* What the row of a call is stored under.
RecordKey(a) ==
  <<CASE a.op = "bind" -> "begin"
      [] a.op = "event" -> "capture"
      [] OTHER -> a.op, a.key>>

\* The context an event is over.
EventRef(a) == IF a.op = "event" THEN a.ref ELSE <<"event", a.key>>

Clash(a, b) ==
  \/ RecordKey(a) = RecordKey(b)
  \/ {a.op, b.op} \subseteq {"capture", "event"} /\ EventRef(a) = EventRef(b)

(* A call is refused only when another call, with other arguments, used    *)
(* the same key or put an event on the same context: repeating a call,     *)
(* whether it returned, was killed or is still under way, is never         *)
(* refused.  Calls with a ttl and summaries too long to store whole are    *)
(* the exceptions.                                                         *)
RepeatsHonoured ==
  \A a \in refused :
    \/ \E b \in tried \ {a} : Clash(a, b)
    \/ a.op \in {"put", "ingest", "reduce"} /\ a.ttl # 0
    \/ a.op = "end" /\ a.summary \in LongSummaries
================================================================================
