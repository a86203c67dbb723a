----------------------------- MODULE RecordCalls -----------------------------
(***************************************************************************)
(* The calls of several server processes on the tables of one SQLite file. *)
(* The server opens no transaction around the calls modelled on top of     *)
(* this module, so an action is one statement of a call: other processes   *)
(* run between two of them, and a process may be killed there.  A call     *)
(* returns ("acked"), is refused because a stored row differs from what it *)
(* asks to store ("refused"), or fails otherwise.                          *)
(***************************************************************************)
EXTENDS Naturals, FiniteSets, Sequences

CONSTANTS Procs,                \* processes of the server
          MaxCalls, MaxKills    \* bounds: calls made, processes killed

VARIABLES call,         \* by process: the call under way and how far it is
          calls, kills,
          tried,        \* the arguments of every call made
          acked,        \* of every call that returned, and what it made
          refused,      \* of every call that was refused
          overlapped    \* two calls have been under way at once

callVars == <<call, calls, kills, tried, acked, refused, overlapped>>

Idle == [at |-> "idle"]

CallsInit ==
  /\ call = [p \in Procs |-> Idle]
  /\ calls = 0 /\ kills = 0
  /\ tried = {} /\ acked = {} /\ refused = {}
  /\ overlapped = FALSE

\* Process p begins the call that the frame f describes.
Start(p, f) ==
  /\ call[p] = Idle
  /\ calls < MaxCalls
  /\ calls' = calls + 1
  /\ call' = [call EXCEPT ![p] = f]
  /\ tried' = tried \cup {f.args}
  /\ overlapped' = (overlapped \/ \E q \in Procs \ {p} : call[q] # Idle)
  /\ UNCHANGED <<kills, acked, refused>>

At(p, at) == call[p].at = at

Goes(p, f) ==
  /\ call' = [call EXCEPT ![p] = f]
  /\ UNCHANGED <<calls, kills, tried, acked, refused, overlapped>>
Goto(p, at) == Goes(p, [call[p] EXCEPT !.at = at])
Fail(p) == Goes(p, Idle)

Ack(p, made) ==
  /\ call' = [call EXCEPT ![p] = Idle]
  /\ acked' = acked \cup {[args |-> call[p].args, made |-> made]}
  /\ UNCHANGED <<calls, kills, tried, refused, overlapped>>

Refuse(p) ==
  /\ call' = [call EXCEPT ![p] = Idle]
  /\ refused' = refused \cup {call[p].args}
  /\ UNCHANGED <<calls, kills, tried, acked, overlapped>>

KillCall(p) ==
  /\ kills < MaxKills
  /\ kills' = kills + 1
  /\ call' = [call EXCEPT ![p] = Idle]
  /\ UNCHANGED <<calls, tried, acked, refused, overlapped>>
================================================================================
