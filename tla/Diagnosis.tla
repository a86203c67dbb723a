------------------------------- MODULE Diagnosis -------------------------------
(***************************************************************************)
(* search_diagnose: why a search finds something or nothing.  It reads the *)
(* facts that match, the conflicting decisions and, under a strict         *)
(* profile, the evidence of each fact, in as many statements.  Each read   *)
(* may fail and the first may outlast the deadline.                        *)
(***************************************************************************)
EXTENDS Recall

CONSTANT RowLimit  \* the LIMIT of search_facts_for_diagnostics
ASSUME DiagnosisAssumption == RowLimit \in Nat \ {0}

Says(verdict) == Becomes([query EXCEPT !.at = "done", !.into = verdict])

(* The first rows the full text index finds, in any state; only if it      *)
(* finds none, the first rows whose text contains the words.               *)
Candidates(t) == IF Words[t] # {} THEN Words[t] ELSE Contains[t]
Found == Elements(First(ById(Candidates(query.args.terms[1])), RowLimit))

\* What is left to say when no decision conflicts and the evidence is known.
VerdictAll(found, active, resolved) ==
  IF active # {} /\ query.args.strict /\ resolved # active THEN "abstained"
  ELSE IF active # {} THEN "matched"
  ELSE IF found # {} THEN "stale"
  ELSE "no_match"
Verdict(found, active, resolved) ==
  IF active # {} /\ query.args.strict /\ resolved = {} THEN "abstained"
  ELSE IF active # {} THEN "matched"
  ELSE IF found # {} THEN "stale"
  ELSE "no_match"

DiagnoseRows ==
  /\ query.at = "rows"
  /\ \/ Says("unavailable")
     \/ Says("timeout")
     \/ LET active == Found \cap Usable(state, "diagnose")
        IN Becomes([query EXCEPT !.at = "conflicts", !.queue = Held(ById(active), {}),
                                !.nodes = active])

DiagnoseConflicts ==
  /\ query.at = "conflicts"
  /\ \/ Says("unavailable")
     \/ Says("conflicting")
     \/ /\ ~(query.args.strict /\ query.nodes # {})
        /\ Says(Verdict(Found, query.nodes, {}))
     \/ /\ query.args.strict /\ query.nodes # {}
        /\ Becomes([query EXCEPT !.at = "evidence"])

DiagnoseEvidence ==
  /\ query.at = "evidence"
  /\ \/ query.queue # <<>> /\ Says("unavailable")
     \/ /\ query.queue # <<>>
        /\ Becomes([query EXCEPT !.queue = Tail(@),
                                !.kept = IF query.queue[1].id \in anchored
                                         THEN Append(@, query.queue[1].id) ELSE @])
     \/ /\ query.queue = <<>>
        /\ Says(Verdict(Found, query.nodes, Elements(query.kept)))

DiagnosisNext == DiagnoseRows \/ DiagnoseConflicts \/ DiagnoseEvidence

--------------------------------------------------------------------------------
(* What a diagnosis says of the facts: where it says that none matches,    *)
(* none that has the words or contains them could be found; where it says  *)
(* that all are stale or lack evidence, and there were not more rows than  *)
(* it reads, none it looks for was active, with evidence under a strict    *)
(* profile, all through the call; where it says that something matches,    *)
(* search_facts could find such a fact at a moment of the call.  It does   *)
(* not say what a search answers: a search returns stale facts too, and    *)
(* looks for texts that contain the words when only hidden facts have      *)
(* them.                                                                   *)
DiagnosisTruthful ==
  query.at = "done" /\ query.args.tool = "diagnose" =>
    LET t == query.args.terms[1]
        few == Cardinality(Candidates(t)) <= RowLimit
    IN /\ query.into = "no_match" => (Words[t] \cup Contains[t]) \cap seen = {}
       /\ query.into \in {"stale", "abstained"} /\ few => Candidates(t) \cap steady = {}
       /\ query.into = "matched" =>
            Candidates(t) \cap seen \cap (IF query.args.strict THEN anchored ELSE Facts) # {}
================================================================================
