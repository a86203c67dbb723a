---------------------------- MODULE RelationReview ----------------------------
(***************************************************************************)
(* Relation candidates and their review: suggest_relation_candidates makes *)
(* hypotheses between facts that share words, a reviewer confirms one into *)
(* the graph or rejects it, remember_relation writes the graph directly,   *)
(* and reset_workspace clears facts and candidates.  One workspace of one  *)
(* SQLite file, used by several processes.  Nothing here is a transaction: *)
(* an action is one statement of a call, and the process may be killed     *)
(* between two.  The reads a generation starts with are taken together,    *)
(* and so are those that validate a candidate's facts with the read of the *)
(* candidate itself.                                                       *)
(*                                                                         *)
(* Every candidate a generation makes has the same predicate, type and     *)
(* direction, and its score depends on the two texts, so those are left    *)
(* out.  A name is a number: its place in the order of the names; the      *)
(* label of a fact that mentions no entity and has no area is a number     *)
(* above all of them.  A relation is identified by its two names.          *)
(***************************************************************************)
EXTENDS Naturals, FiniteSets, Sequences, SequencesExt, FiniteSetsExt, Functions

CONSTANTS Procs,         \* processes of the server
          Texts,         \* fact texts, no two without a word in common
          Mentions,      \* by text: the names in it, the longest first
          Area,          \* by text: the name of its area, 0 for none
          Names,         \* names of entities
          FirstTexts,    \* the facts already stored
          Limit,         \* candidates one generation makes
          MaxFacts, MaxEvidence, MaxCands,   \* bounds: row ids of each table
          MaxCalls, MaxKills, MaxResets      \* bounds: calls, kills, resets

ASSUME ReviewAssumption ==
  /\ Names \subseteq Nat \ {0}
  /\ Mentions \in [Texts -> Seq(Names)]
  /\ Area \in [Texts -> Names \cup {0}]
  /\ FirstTexts \in Seq(Texts) /\ Len(FirstTexts) <= MaxFacts

VARIABLES facts,         \* by id: the text
          hidden,        \* facts forgotten or invalid
          evidence,      \* by id: its fact
          entities,      \* names
          relations,     \* by pair of names: the source fact, 0 for NULL
          cands,         \* by id: the row of relation_candidates
          call,          \* by process: the call under way
          asked,         \* who asked for an edge: <<pair, candidate or 0>>
          verdict,       \* by candidate: what the last review that returned said
          calls, kills, resets,
          overlapped     \* two calls have been under way at once

vars == <<facts, hidden, evidence, entities, relations, cands, call, asked, verdict,
          calls, kills, resets, overlapped>>

None == 0
Empty == [n \in {} |-> n]
Put(f, k, v) == [x \in DOMAIN f \cup {k} |-> IF x = k THEN v ELSE f[x]]
FreshId(f) == IF f = Empty THEN 1 ELSE Max(DOMAIN f) + 1
NoCall == [op |-> "none", at |-> "idle"]

Init ==
  /\ facts = [i \in 1..Len(FirstTexts) |-> FirstTexts[i]]
  /\ hidden = {}
  /\ evidence = Empty
  /\ entities = {}
  /\ relations = Empty
  /\ cands = Empty
  /\ call = [p \in Procs |-> NoCall]
  /\ asked = {}
  /\ verdict = Empty
  /\ calls = 0 /\ kills = 0 /\ resets = 0
  /\ overlapped = FALSE

tables == <<facts, hidden, evidence, entities, relations, cands>>
ghosts == <<asked, verdict>>
bounds == <<calls, kills, resets, overlapped>>

Start(p, c) ==
  /\ call[p] = NoCall
  /\ calls < MaxCalls
  /\ calls' = calls + 1
  /\ call' = [call EXCEPT ![p] = c]
  /\ overlapped' = (overlapped \/ \E q \in Procs \ {p} : call[q] # NoCall)
Become(p, c) == call' = [call EXCEPT ![p] = c]
Goto(p, at) == call' = [call EXCEPT ![p].at = at]
Return(p) == Become(p, NoCall)
At(p, op, at) == call[p].op = op /\ call[p].at = at

FirstEvidence(f) ==
  LET mine == {e \in DOMAIN evidence : evidence[e] = f}
  IN IF mine = {} THEN None ELSE Min(mine)

\* entity_label_for_fact, or else the area, or else the fact's own number.
Label(f) ==
  LET known == SelectSeq(Mentions[facts[f]], LAMBDA n : n \in entities)
  IN IF known # <<>> THEN Head(known)
     ELSE IF Area[facts[f]] # 0 THEN Area[facts[f]]
     ELSE Cardinality(Names) + f

\* The candidate a generation for fact f makes with fact g.
SpecOf(f, g) ==
  [subj |-> Min({Label(f), Label(g)}), obj |-> Max({Label(f), Label(g)}),
   src |-> f, tgt |-> g, srcEv |-> FirstEvidence(f), tgtEv |-> FirstEvidence(g)]

KeyOf(s) == <<s.subj, s.obj, {s.src, s.tgt}>>

Matches(row, s) ==
  \/ <<row.src, row.tgt, row.srcEv, row.tgtEv>> = <<s.src, s.tgt, s.srcEv, s.tgtEv>>
  \/ <<row.src, row.tgt, row.srcEv, row.tgtEv>> = <<s.tgt, s.src, s.tgtEv, s.srcEv>>

\* validate_candidate_fact_and_evidence for both sides.
ValidSide(f, e) ==
  /\ e # None => f # None
  /\ f # None => f \in DOMAIN facts
  /\ e # None => e \in DOMAIN evidence /\ evidence[e] = f
ValidFacts(s) == ValidSide(s.src, s.srcEv) /\ ValidSide(s.tgt, s.tgtEv)

(* generate_relation_candidates_with_limits: one spec per fact scanned in  *)
(* another area and under another label, in the order of the ids.          *)
Scanned(f) ==
  {g \in DOMAIN facts \ (hidden \cup {f}) :
     /\ Area[facts[f]] = 0 \/ Area[facts[f]] # Area[facts[g]]
     /\ Label(f) # Label(g)}

Suggest(p, f) ==
  /\ f \in DOMAIN facts
  /\ LET ranked == SetToSortSeq(Scanned(f), <)
         chosen == SubSeq(ranked, 1, Min({Limit, Len(ranked)}))
     IN Start(p, [op |-> "suggest", at |-> "read",
                  todo |-> [i \in DOMAIN chosen |-> SpecOf(f, chosen[i])]])
  /\ UNCHANGED <<tables, ghosts, kills, resets>>

(* create_relation_candidate for the first of them.  An existing row that  *)
(* matches is the result; another that was not confirmed is marked a       *)
(* conflict; the error ends the generation.                                *)
CreateReadMarksAll(p) ==
  LET s == Head(call[p].todo)
      old == {i \in DOMAIN cands : cands[i].key = KeyOf(s)}
  IN /\ At(p, "suggest", "read") /\ call[p].todo # <<>>
     /\ \/ ~ValidFacts(s) /\ Return(p)
        \/ ValidFacts(s) /\ old = {} /\ Goto(p, "insert")
        \/ /\ ValidFacts(s)
           /\ \E i \in old :
                \/ Matches(cands[i], s) /\ Become(p, [call[p] EXCEPT !.todo = Tail(@)])
                \/ /\ ~Matches(cands[i], s)
                   /\ Become(p, [op |-> "mark", at |-> "mark", cand |-> i])
     /\ UNCHANGED <<tables, ghosts, bounds>>
CreateRead(p) ==
  LET s == Head(call[p].todo)
      old == {i \in DOMAIN cands : cands[i].key = KeyOf(s)}
  IN /\ At(p, "suggest", "read") /\ call[p].todo # <<>>
     /\ \/ ~ValidFacts(s) /\ Return(p)
        \/ ValidFacts(s) /\ old = {} /\ Goto(p, "insert")
        \/ /\ ValidFacts(s)
           /\ \E i \in old :
                \/ Matches(cands[i], s) /\ Become(p, [call[p] EXCEPT !.todo = Tail(@)])
                \/ /\ ~Matches(cands[i], s)
                   /\ IF cands[i].status = "confirmed" THEN Return(p)
                      ELSE Become(p, [op |-> "mark", at |-> "mark", cand |-> i])
     /\ UNCHANGED <<tables, ghosts, bounds>>

CreateInsert(p) ==
  LET s == Head(call[p].todo)
      refused == \/ \E i \in DOMAIN cands : cands[i].key = KeyOf(s)
                 \/ ~ValidFacts(s)
  IN /\ At(p, "suggest", "insert")
     /\ refused \/ FreshId(cands) <= MaxCands
     /\ IF refused
        THEN Return(p) /\ UNCHANGED cands
        ELSE /\ cands' = Put(cands, FreshId(cands),
                    [key |-> KeyOf(s), subj |-> s.subj, obj |-> s.obj, src |-> s.src,
                     tgt |-> s.tgt, srcEv |-> s.srcEv, tgtEv |-> s.tgtEv,
                     status |-> "candidate", rel |-> <<>>])
             /\ Become(p, [call[p] EXCEPT !.at = "read", !.todo = Tail(@)])
     /\ UNCHANGED <<facts, hidden, evidence, entities, relations, ghosts, bounds>>

SuggestReturn(p) ==
  /\ At(p, "suggest", "read") /\ call[p].todo = <<>>
  /\ Return(p)
  /\ UNCHANGED <<tables, ghosts, bounds>>

SetStatus(i, status) ==
  cands' = IF i \in DOMAIN cands THEN [cands EXCEPT ![i].status = status] ELSE cands

\* mark_relation_candidate_conflict, and the error of whoever called it.
MarkConflict(p) ==
  /\ At(p, "mark", "mark")
  /\ SetStatus(call[p].cand, "conflict")
  /\ Return(p)
  /\ UNCHANGED <<facts, hidden, evidence, entities, relations, ghosts, bounds>>

(* confirm_relation_candidate: only a row in state candidate goes on; its  *)
(* names become entities, the edge is found or made, and the row is marked *)
(* confirmed by its id.                                                    *)
Confirm(p, i) ==
  /\ i \in DOMAIN cands /\ cands[i].status = "candidate" /\ ValidFacts(cands[i])
  /\ Start(p, [op |-> "confirm", at |-> "subject", cand |-> i, src |-> cands[i].src,
               pair |-> <<cands[i].subj, cands[i].obj>>])
  /\ asked' = asked \cup {<<<<cands[i].subj, cands[i].obj>>, i>>}
  /\ UNCHANGED <<tables, verdict, kills, resets>>

\* remember_relation on two names.
Relate(p, pair, f) ==
  /\ f \in DOMAIN facts \cup {None}
  /\ Start(p, [op |-> "relate", at |-> "subject", cand |-> None, src |-> f, pair |-> pair])
  /\ asked' = asked \cup {<<pair, None>>}
  /\ UNCHANGED <<tables, verdict, kills, resets>>

\* remember_entity for one of the names.
RememberName(p) ==
  LET c == call[p]
  IN /\ c.op \in {"confirm", "relate"} /\ c.at \in {"subject", "object"}
     /\ entities' = entities \cup {IF c.at = "subject" THEN c.pair[1] ELSE c.pair[2]}
     /\ Goto(p, IF c.at = "subject" THEN "object"
                ELSE IF c.op = "confirm" THEN "edge" ELSE "insert")
     /\ UNCHANGED <<facts, hidden, evidence, relations, cands, ghosts, bounds>>

ConfirmEdgeAny(p) ==
  /\ At(p, "confirm", "edge")
  /\ Goto(p, IF call[p].pair \in DOMAIN relations THEN "status" ELSE "insert")
  /\ UNCHANGED <<tables, ghosts, bounds>>
ConfirmEdgeMarksFirst(p) ==
  LET c == call[p]
  IN /\ At(p, "confirm", "edge")
     /\ Goto(p, IF c.pair \in DOMAIN relations THEN "status" ELSE "insert")
     /\ cands' = [cands EXCEPT ![c.cand].status = "confirmed", ![c.cand].rel = c.pair]
     /\ UNCHANGED <<facts, hidden, evidence, entities, relations, ghosts, bounds>>
ConfirmEdge(p) ==
  LET c == call[p]
  IN /\ At(p, "confirm", "edge")
     /\ IF c.pair \notin DOMAIN relations THEN Goto(p, "insert")
        ELSE IF relations[c.pair] # c.src
             THEN Become(p, [op |-> "mark", at |-> "mark", cand |-> c.cand])
        ELSE Goto(p, "status")
     /\ UNCHANGED <<tables, ghosts, bounds>>

\* INSERT OR IGNORE; the source fact must still be there.
InsertEdge(p) ==
  LET c == call[p]
      lost == c.src # None /\ c.src \notin DOMAIN facts
  IN /\ c.op \in {"confirm", "relate"} /\ c.at = "insert"
     /\ relations' = IF lost \/ c.pair \in DOMAIN relations THEN relations
                     ELSE Put(relations, c.pair, c.src)
     /\ IF lost \/ c.op = "relate" THEN Return(p) ELSE Goto(p, "status")
     /\ UNCHANGED <<facts, hidden, evidence, entities, cands, ghosts, bounds>>

ConfirmStatus(p) ==
  LET c == call[p]
      there == c.cand \in DOMAIN cands
  IN /\ At(p, "confirm", "status")
     /\ cands' = IF there THEN [cands EXCEPT ![c.cand].status = "confirmed",
                                             ![c.cand].rel = c.pair]
                 ELSE cands
     /\ verdict' = IF there THEN Put(verdict, c.cand, "confirmed") ELSE verdict
     /\ Return(p)
     /\ UNCHANGED <<facts, hidden, evidence, entities, relations, asked, bounds>>

\* reject_relation_candidate: the state is read, then written by id.
RejectAny(p, i) ==
  /\ i \in DOMAIN cands
  /\ Start(p, [op |-> "reject", at |-> "status", cand |-> i])
  /\ UNCHANGED <<tables, ghosts, kills, resets>>
Reject(p, i) ==
  /\ i \in DOMAIN cands /\ cands[i].status = "candidate"
  /\ Start(p, [op |-> "reject", at |-> "status", cand |-> i])
  /\ UNCHANGED <<tables, ghosts, kills, resets>>

RejectStatus(p) ==
  LET i == call[p].cand
  IN /\ At(p, "reject", "status")
     /\ SetStatus(i, "rejected")
     /\ verdict' = IF i \in DOMAIN cands THEN Put(verdict, i, "rejected") ELSE verdict
     /\ Return(p)
     /\ UNCHANGED <<facts, hidden, evidence, entities, relations, asked, bounds>>

(* reset_workspace: the facts go, and with them their evidence and every   *)
(* reference to either; then the candidates.  Entities and edges stay.     *)
Reset(p) ==
  /\ resets < MaxResets
  /\ resets' = resets + 1
  /\ Start(p, [op |-> "reset", at |-> "facts"])
  /\ UNCHANGED <<tables, ghosts, kills>>

ResetFacts(p) ==
  /\ At(p, "reset", "facts")
  /\ facts' = Empty /\ evidence' = Empty /\ hidden' = {}
  /\ relations' = [r \in DOMAIN relations |-> None]
  /\ cands' = [i \in DOMAIN cands |->
                 [cands[i] EXCEPT !.src = None, !.tgt = None, !.srcEv = None, !.tgtEv = None]]
  /\ Goto(p, "cands")
  /\ UNCHANGED <<entities, ghosts, bounds>>

ResetCands(p) ==
  /\ At(p, "reset", "cands")
  /\ cands' = Empty
  /\ verdict' = Empty
  /\ asked' = {<<a[1], None>> : a \in {b \in asked : b[1] \in DOMAIN relations}}
  /\ Return(p)
  /\ UNCHANGED <<facts, hidden, evidence, entities, relations, bounds>>

\* remember_fact, attach_evidence, and forgetting or superseding a fact.
RememberFact(t) ==
  /\ t \notin Range(facts) /\ FreshId(facts) <= MaxFacts
  /\ facts' = Put(facts, FreshId(facts), t)
  /\ UNCHANGED <<hidden, evidence, entities, relations, cands, call, ghosts, bounds>>

AttachEvidence(f) ==
  /\ f \in DOMAIN facts /\ FreshId(evidence) <= MaxEvidence
  /\ evidence' = Put(evidence, FreshId(evidence), f)
  /\ UNCHANGED <<facts, hidden, entities, relations, cands, call, ghosts, bounds>>

HideFact(f) ==
  /\ f \in DOMAIN facts
  /\ hidden' = hidden \cup {f}
  /\ UNCHANGED <<facts, evidence, entities, relations, cands, call, ghosts, bounds>>

Kill(p) ==
  /\ call[p] # NoCall /\ kills < MaxKills
  /\ kills' = kills + 1
  /\ Return(p)
  /\ UNCHANGED <<tables, ghosts, calls, resets, overlapped>>

Pairs == {pair \in Names \X Names : pair[1] < pair[2]}

Next ==
  \/ \E p \in Procs :
       \/ \E f \in 1..MaxFacts : Suggest(p, f)
       \/ \E i \in 1..MaxCands : Confirm(p, i) \/ Reject(p, i)
       \/ \E pair \in Pairs, f \in 0..MaxFacts : Relate(p, pair, f)
       \/ CreateRead(p) \/ CreateInsert(p) \/ SuggestReturn(p) \/ MarkConflict(p)
       \/ RememberName(p) \/ ConfirmEdge(p) \/ InsertEdge(p) \/ ConfirmStatus(p)
       \/ RejectStatus(p)
       \/ Reset(p) \/ ResetFacts(p) \/ ResetCands(p)
       \/ Kill(p)
  \/ \E t \in Texts : RememberFact(t)
  \/ \E f \in 1..MaxFacts : AttachEvidence(f) \/ HideFact(f)

Spec == Init /\ [][Next]_vars

--------------------------------------------------------------------------------
(* A candidate marked confirmed leads to an edge of the graph between its  *)
(* own two names, whatever overlapped and whoever was killed; a reset      *)
(* under way beside another call is the exception, since it frees row ids. *)
ConfirmedInGraph ==
  ~(overlapped /\ resets > 0) =>
    \A i \in DOMAIN cands :
      cands[i].status = "confirmed" =>
        /\ cands[i].rel = <<cands[i].subj, cands[i].obj>>
        /\ cands[i].rel \in DOMAIN relations

(* The edge of a confirmed candidate has the candidate's source fact, even *)
(* after kills and after edges made by hand, if no two calls overlapped.   *)
ConfirmedProvenance ==
  ~overlapped =>
    \A i \in DOMAIN cands :
      cands[i].status = "confirmed" => relations[cands[i].rel] = cands[i].src

(* Every edge was asked for by a call that is not about a candidate since  *)
(* rejected: rejecting leaves the relation outside the graph.  Without     *)
(* overlapping calls and kills.                                            *)
RejectedStaysOut ==
  ~overlapped /\ kills = 0 =>
    \A r \in DOMAIN relations :
      \E a \in asked :
        /\ a[1] = r
        /\ a[2] # None /\ a[2] \in DOMAIN verdict => verdict[a[2]] # "rejected"

(* What a review said stays said: a confirmed candidate stays confirmed,   *)
(* and a rejected one is never confirmed.                                  *)
VerdictKept ==
  ~overlapped =>
    \A i \in DOMAIN verdict :
      i \in DOMAIN cands =>
        /\ verdict[i] = "confirmed" => cands[i].status = "confirmed"
        /\ verdict[i] = "rejected" => cands[i].status \in {"rejected", "conflict"}
================================================================================
