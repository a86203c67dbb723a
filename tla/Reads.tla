--------------------------------- MODULE Reads ---------------------------------
(***************************************************************************)
(* The tools that only read: facts, graphs and diagnoses (Recall,          *)
(* Diagnosis), long texts (Paging).  They share no state; a behaviour is   *)
(* one call of either.                                                     *)
(***************************************************************************)
EXTENDS Diagnosis, Paging

vars == <<recallVars, page>>

Init == (RecallInit /\ NoPaging) \/ (NoRecall /\ PagingInit)

Next ==
  \/ query.at # "none" /\ (RecallNext \/ DiagnosisNext) /\ UNCHANGED page
  \/ page.tool # "none" /\ PagingNext /\ UNCHANGED recallVars

Spec == Init /\ [][Next]_vars
================================================================================
