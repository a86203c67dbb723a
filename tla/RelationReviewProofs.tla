------------------------ MODULE RelationReviewProofs ------------------------
(***************************************************************************)
(* Proofs about the review of relations, for any number of processes,      *)
(* facts, candidates and calls.                                            *)
(***************************************************************************)
EXTENDS RelationReview, TLAPS

(* No reset has had another call beside it.                                *)
Calm == ~(overlapped /\ resets > 0)

(* The fields of a call, by what it is for.                                *)
FrameShape(c) ==
  \/ c = NoCall
  \/ c.op = "suggest" /\ c = [op |-> "suggest", at |-> c.at, todo |-> c.todo]
  \/ c.op = "mark" /\ c = [op |-> "mark", at |-> c.at, cand |-> c.cand]
  \/ c.op = "reject" /\ c = [op |-> "reject", at |-> c.at, cand |-> c.cand]
  \/ c.op = "reset" /\ c = [op |-> "reset", at |-> c.at]
  \/ /\ c.op \in {"confirm", "relate"}
     /\ c = [op |-> c.op, at |-> c.at, cand |-> c.cand, src |-> c.src, pair |-> c.pair]

RowShape(r) ==
  r = [key |-> r.key, subj |-> r.subj, obj |-> r.obj, src |-> r.src, tgt |-> r.tgt,
       srcEv |-> r.srcEv, tgtEv |-> r.tgtEv, status |-> r.status, rel |-> r.rel]

(* The ids of candidates have no gap, so the next one is new.              *)
Ids == \E n \in Nat : DOMAIN cands = 1..n

Shapes ==
  /\ call = [p \in Procs |-> call[p]]
  /\ \A p \in Procs : FrameShape(call[p])
  /\ cands = [i \in DOMAIN cands |-> cands[i]]
  /\ \A i \in DOMAIN cands : RowShape(cands[i])
  /\ Ids
  /\ resets \in Nat /\ kills \in Nat

(* Until calls overlap there is one at a time.                             *)
Single == ~overlapped => \A p, q \in Procs : p = q \/ call[p] = NoCall \/ call[q] = NoCall

(* What a call under way knows of the tables: the candidate it is about    *)
(* and, as far as it has come, the edge.                                   *)
InFlight(p) ==
  LET c == call[p]
      row == cands[c.cand]
  IN /\ c.op = "reset" => resets > 0
     /\ c.op = "confirm" /\ Calm =>
          /\ c.cand \in DOMAIN cands
          /\ c.pair = <<row.subj, row.obj>>
          /\ c.at = "status" => c.pair \in DOMAIN relations
     /\ c.op = "confirm" /\ ~overlapped =>
          /\ row.status = "candidate" /\ row.src = c.src
          /\ c.at = "insert" => c.pair \notin DOMAIN relations
          /\ c.at = "status" => relations[c.pair] = c.src
          /\ <<c.pair, c.cand>> \in asked
     /\ c.op = "relate" /\ ~overlapped => <<c.pair, None>> \in asked
     /\ c.op = "reject" /\ ~overlapped => c.cand \in DOMAIN cands /\ row.status = "candidate"
     /\ c.op = "mark" /\ ~overlapped => c.cand \in DOMAIN cands /\ row.status # "confirmed"

(* What is known of the rows whatever call is under way.                   *)
Kept ==
  /\ DOMAIN verdict \subseteq DOMAIN cands
  /\ ConfirmedInGraph /\ ConfirmedProvenance /\ VerdictKept

(* Each edge has somebody who asked for it and was not turned down: a      *)
(* direct call, a candidate that is confirmed, or one about to be.         *)
Answered(a) ==
  \/ a[2] = None
  \/ /\ a[2] \in DOMAIN cands
     /\ \/ cands[a[2]].status = "confirmed"
        \/ \E p \in Procs : call[p].op = "confirm" /\ call[p].at = "status" /\ call[p].cand = a[2]

Askers ==
  ~overlapped /\ kills = 0 =>
    \A r \in DOMAIN relations : \E a \in asked : a[1] = r /\ Answered(a)

(* The inductive invariant.                                                *)
ReviewSafe ==
  /\ Shapes /\ Single
  /\ \A p \in Procs : InFlight(p)
  /\ Kept /\ Askers

-----------------------------------------------------------------------------
(* The id SQLite gives to a new candidate is not in use.                   *)
LEMMA FreshIdNew ==
  ASSUME Shapes
  PROVE  /\ FreshId(cands) \notin DOMAIN cands
         /\ \E n \in Nat : DOMAIN cands \cup {FreshId(cands)} = 1..n
<1>1. PICK n \in Nat : DOMAIN cands = 1..n
  BY DEF Shapes, Ids
<1>2. CASE cands = Empty
  <2>1. DOMAIN cands = {} /\ FreshId(cands) = 1
    BY <1>2 DEF FreshId, Empty
  <2>2. {1} = 1..1
    OBVIOUS
  <2> QED BY <2>1, <2>2
<1>3. CASE cands # Empty
  <2>1. n > 0
    <3>1. SUFFICES ASSUME n = 0 PROVE FALSE
      BY <1>1
    <3>2. DOMAIN cands = {}
      BY <1>1, <3>1
    <3>3. cands = [i \in DOMAIN cands |-> cands[i]]
      BY DEF Shapes
    <3>4. cands = Empty
      BY <3>2, <3>3 DEF Empty
    <3> QED BY <1>3, <3>4
  <2>2. n \in 1..n /\ \A y \in 1..n : n >= y
    BY <2>1
  <2>3. Max(1..n) \in 1..n /\ \A y \in 1..n : Max(1..n) >= y
    BY <2>2 DEF Max
  <2>4. Max(1..n) = n
    BY <2>2, <2>3
  <2>5. FreshId(cands) = n + 1
    BY <1>1, <1>3, <2>4 DEF FreshId
  <2>6. 1..n \cup {n + 1} = 1..(n + 1)
    OBVIOUS
  <2> QED BY <1>1, <2>5, <2>6
<1> QED
  BY <1>2, <1>3

(* What a process's own step leaves of the calls.                          *)
OnlyMoves(p) ==
  /\ call' = [q \in Procs |-> call'[q]]
  /\ \A q \in Procs : q # p => call'[q] = call[q]
  /\ FrameShape(call'[p])

LEMMA BecomeMoves ==
  ASSUME Shapes, NEW p \in Procs, NEW c, FrameShape(c), Become(p, c)
  PROVE  OnlyMoves(p) /\ call'[p] = c
<1>1. call' = [q \in Procs |-> IF q = p THEN c ELSE call[q]]
  BY DEF Become, Shapes
<1> QED
  BY <1>1 DEF OnlyMoves

LEMMA ReturnMoves ==
  ASSUME Shapes, NEW p \in Procs, Return(p)
  PROVE  OnlyMoves(p) /\ call'[p] = NoCall
<1>1. FrameShape(NoCall)
  BY DEF FrameShape
<1> QED
  BY <1>1, BecomeMoves DEF Return

(* Going on to another step keeps the rest of what the call is.            *)
LEMMA GotoMoves ==
  ASSUME Shapes, NEW p \in Procs, call[p] # NoCall, NEW at, Goto(p, at)
  PROVE  /\ OnlyMoves(p)
         /\ call'[p].op = call[p].op /\ call'[p].at = at
         /\ call[p].op = "suggest" => call'[p].todo = call[p].todo
         /\ call[p].op \in {"confirm", "relate"} =>
              /\ call'[p].cand = call[p].cand /\ call'[p].src = call[p].src
              /\ call'[p].pair = call[p].pair
<1> DEFINE c == call[p]
           d == [c EXCEPT !.at = at]
<1>1. FrameShape(c)
  BY DEF Shapes
<1>2. Become(p, d)
  BY DEF Goto, Become
<1>3. CASE c.op = "suggest" /\ c = [op |-> "suggest", at |-> c.at, todo |-> c.todo]
  <2>1. d = [op |-> "suggest", at |-> at, todo |-> c.todo]
    BY <1>3
  <2>2. FrameShape(d)
    BY <2>1 DEF FrameShape
  <2>3. OnlyMoves(p) /\ call'[p] = d
    BY <1>2, <2>2, BecomeMoves
  <2> QED BY <1>3, <2>1, <2>3
<1>4. CASE c.op = "mark" /\ c = [op |-> "mark", at |-> c.at, cand |-> c.cand]
  <2>1. d = [op |-> "mark", at |-> at, cand |-> c.cand]
    BY <1>4
  <2>2. FrameShape(d)
    BY <2>1 DEF FrameShape
  <2>3. OnlyMoves(p) /\ call'[p] = d
    BY <1>2, <2>2, BecomeMoves
  <2> QED BY <1>4, <2>1, <2>3
<1>5. CASE c.op = "reject" /\ c = [op |-> "reject", at |-> c.at, cand |-> c.cand]
  <2>1. d = [op |-> "reject", at |-> at, cand |-> c.cand]
    BY <1>5
  <2>2. FrameShape(d)
    BY <2>1 DEF FrameShape
  <2>3. OnlyMoves(p) /\ call'[p] = d
    BY <1>2, <2>2, BecomeMoves
  <2> QED BY <1>5, <2>1, <2>3
<1>6. CASE c.op = "reset" /\ c = [op |-> "reset", at |-> c.at]
  <2>1. d = [op |-> "reset", at |-> at]
    BY <1>6
  <2>2. FrameShape(d)
    BY <2>1 DEF FrameShape
  <2>3. OnlyMoves(p) /\ call'[p] = d
    BY <1>2, <2>2, BecomeMoves
  <2> QED BY <1>6, <2>1, <2>3
<1>7. CASE /\ c.op \in {"confirm", "relate"}
           /\ c = [op |-> c.op, at |-> c.at, cand |-> c.cand, src |-> c.src, pair |-> c.pair]
  <2>1. d = [op |-> c.op, at |-> at, cand |-> c.cand, src |-> c.src, pair |-> c.pair]
    BY <1>7
  <2>2. FrameShape(d)
    BY <1>7, <2>1 DEF FrameShape
  <2>3. OnlyMoves(p) /\ call'[p] = d
    BY <1>2, <2>2, BecomeMoves
  <2> QED BY <1>7, <2>1, <2>3
<1> QED
  BY <1>1, <1>3, <1>4, <1>5, <1>6, <1>7 DEF FrameShape

-----------------------------------------------------------------------------
(* A step of process p beside which, unless calls overlap, nobody is busy. *)
Turn(p) ==
  /\ OnlyMoves(p)
  /\ ~overlapped' => ~overlapped /\ \A q \in Procs : q # p => call[q] = NoCall

(* The tables keep the candidates, their names, and the edges.             *)
Widened ==
  /\ DOMAIN cands \subseteq DOMAIN cands'
  /\ DOMAIN relations \subseteq DOMAIN relations'
  /\ \A i \in DOMAIN cands : cands'[i].subj = cands[i].subj /\ cands'[i].obj = cands[i].obj
  /\ resets' \in Nat /\ resets' >= resets

LEMMA StartTurn ==
  ASSUME ReviewSafe, NEW p \in Procs, NEW c, FrameShape(c), Start(p, c)
  PROVE  Turn(p) /\ call'[p] = c /\ call[p] = NoCall
<1>1. Become(p, c)
  BY DEF Start, Become
<1>2. OnlyMoves(p) /\ call'[p] = c
  BY <1>1, BecomeMoves DEF ReviewSafe
<1>3. ~overlapped' => ~overlapped /\ \A q \in Procs : q # p => call[q] = NoCall
  BY DEF Start
<1> QED
  BY <1>2, <1>3 DEF Turn, Start

LEMMA NextTurn ==
  ASSUME ReviewSafe, NEW p \in Procs, call[p] # NoCall, OnlyMoves(p), UNCHANGED overlapped
  PROVE  Turn(p)
  BY DEF Turn, ReviewSafe, Single

LEMMA IdleInFlight ==
  ASSUME NEW p \in Procs, call'[p] = NoCall
  PROVE  InFlight(p)'
  BY DEF InFlight, NoCall

(* The others notice nothing.                                              *)
LEMMA OthersKept ==
  ASSUME ReviewSafe, NEW p \in Procs, Turn(p), Widened
  PROVE  Single' /\ \A q \in Procs : q # p => InFlight(q)'
<1>1. Single'
  BY DEF Single, Turn, OnlyMoves
<1>2. ASSUME NEW q \in Procs, q # p PROVE InFlight(q)'
  <2>1. call'[q] = call[q] /\ InFlight(q)
    BY <1>2 DEF Turn, OnlyMoves, ReviewSafe
  <2>2. CASE call[q] = NoCall
    BY <2>1, <2>2, IdleInFlight
  <2>3. CASE call[q] # NoCall
    <3>1. overlapped'
      BY <1>2, <2>3 DEF Turn
    <3>2. resets \in Nat /\ (Calm' => resets' = 0)
      BY <3>1 DEF Calm, Widened, ReviewSafe, Shapes
    <3>3. Calm' => Calm
      BY <3>2 DEF Calm, Widened
    <3>4. call[q].op = "reset" => resets' > 0
      BY <2>1, <3>2 DEF InFlight, Widened
    <3>5. call[q].op = "confirm" /\ Calm' =>
            /\ call[q].cand \in DOMAIN cands'
            /\ call[q].pair = <<cands'[call[q].cand].subj, cands'[call[q].cand].obj>>
            /\ call[q].at = "status" => call[q].pair \in DOMAIN relations'
      BY <2>1, <3>3 DEF InFlight, Widened
    <3> QED BY <2>1, <3>1, <3>4, <3>5 DEF InFlight
  <2> QED BY <2>2, <2>3
<1> QED
  BY <1>1, <1>2

(* Calls and rows keep their shapes.                                       *)
LEMMA ShapesKept ==
  ASSUME Shapes, NEW p \in Procs, OnlyMoves(p), UNCHANGED cands,
         resets' \in Nat, kills' \in Nat
  PROVE  Shapes'
<1>1. \A q \in Procs : FrameShape(call'[q])
  BY DEF OnlyMoves, Shapes
<1> QED
  BY <1>1 DEF Shapes, OnlyMoves, Ids

(* A step that leaves candidates, edges and verdicts alone.                *)
LEMMA QuietKeeps ==
  ASSUME ReviewSafe, NEW p \in Procs, Turn(p), InFlight(p)',
         UNCHANGED <<cands, relations, verdict>>, asked \subseteq asked',
         resets' \in Nat, resets' >= resets, kills' \in Nat, kills' >= kills,
         call[p].op = "confirm" /\ call[p].at = "status" => kills' > 0
  PROVE  ReviewSafe'
<1>1. Shapes'
  BY ShapesKept DEF ReviewSafe, Turn
<1>2. Single' /\ \A q \in Procs : InFlight(q)'
  BY OthersKept DEF Widened
<1>3. Kept'
  <2>1. (~overlapped' => ~overlapped) /\ (Calm' => Calm)
    BY DEF Turn, Calm, ReviewSafe, Shapes
  <2> QED
    BY <2>1 DEF Kept, ReviewSafe, ConfirmedInGraph, ConfirmedProvenance, VerdictKept, Calm
<1>4. Askers'
  <2>1. SUFFICES ASSUME ~overlapped', kills' = 0, NEW r \in DOMAIN relations
                 PROVE  \E a \in asked : a[1] = r /\ Answered(a)'
    BY DEF Askers
  <2>2. ~overlapped /\ kills = 0
    BY <2>1 DEF Turn, ReviewSafe, Shapes
  <2>3. PICK a \in asked : a[1] = r /\ Answered(a)
    BY <2>1, <2>2 DEF ReviewSafe, Askers
  <2>4. Answered(a)'
    BY <2>1, <2>3 DEF Answered, Turn, OnlyMoves
  <2> QED BY <2>3, <2>4
<1> QED
  BY <1>1, <1>2, <1>3, <1>4 DEF ReviewSafe

-----------------------------------------------------------------------------
(* The steps that only read, or only begin or end a call.                  *)
LEMMA SuggestKeeps ==
  ASSUME ReviewSafe, NEW p \in Procs, NEW f, Suggest(p, f)
  PROVE  ReviewSafe'
<1>1. PICK todo : Start(p, [op |-> "suggest", at |-> "read", todo |-> todo])
  BY DEF Suggest
<1> DEFINE c == [op |-> "suggest", at |-> "read", todo |-> todo]
<1>2. FrameShape(c)
  BY DEF FrameShape
<1>3. Turn(p) /\ call'[p] = c /\ call[p] = NoCall
  BY <1>1, <1>2, StartTurn
<1>4. InFlight(p)'
  BY <1>3 DEF InFlight
<1>5. UNCHANGED <<cands, relations, verdict, asked, resets, kills>>
  BY DEF Suggest, tables, ghosts
<1>6. resets \in Nat /\ kills \in Nat
  BY DEF ReviewSafe, Shapes
<1> QED
  BY <1>3, <1>4, <1>5, <1>6, QuietKeeps DEF NoCall

LEMMA TodoReplaced ==
  ASSUME NEW c, NEW rest, c = [op |-> "suggest", at |-> c.at, todo |-> c.todo]
  PROVE  [c EXCEPT !.todo = rest] = [op |-> "suggest", at |-> c.at, todo |-> rest]
<1>1. PICK at, todo : c = [op |-> "suggest", at |-> at, todo |-> todo]
  OBVIOUS
<1> QED
  BY <1>1

LEMMA CreateReadKeeps ==
  ASSUME ReviewSafe, NEW p \in Procs, CreateRead(p)
  PROVE  ReviewSafe'
<1>1. /\ call[p] # NoCall /\ call[p].op = "suggest"
      /\ UNCHANGED <<cands, relations, verdict, asked, resets, kills, overlapped>>
  BY DEF CreateRead, At, NoCall, tables, ghosts, bounds
<1>2. Shapes /\ resets \in Nat /\ kills \in Nat
  BY DEF ReviewSafe, Shapes
<1>3. CASE Return(p)
  BY <1>1, <1>2, <1>3, ReturnMoves, NextTurn, IdleInFlight, QuietKeeps
<1>4. CASE Goto(p, "insert")
  <2>1. OnlyMoves(p) /\ call'[p].op = "suggest"
    BY <1>1, <1>2, <1>4, GotoMoves
  <2>2. InFlight(p)'
    BY <2>1 DEF InFlight
  <2> QED BY <1>1, <1>2, <2>1, <2>2, NextTurn, QuietKeeps
<1>5. CASE Become(p, [call[p] EXCEPT !.todo = Tail(@)])
  <2> DEFINE todo == Tail(call[p].todo)
             c == [op |-> "suggest", at |-> call[p].at, todo |-> todo]
  <2>1. call[p] = [op |-> "suggest", at |-> call[p].at, todo |-> call[p].todo]
    BY <1>1, <1>2 DEF Shapes, FrameShape
  <2>2. [call[p] EXCEPT !.todo = todo] = c
    <3> HIDE DEF todo
    <3> QED BY <2>1, TodoReplaced
  <2>3. Become(p, c) /\ FrameShape(c)
    BY <1>5, <2>2 DEF FrameShape
  <2>4. OnlyMoves(p) /\ call'[p] = c
    BY <1>2, <2>3, BecomeMoves
  <2>5. InFlight(p)'
    BY <2>4 DEF InFlight
  <2> QED BY <1>1, <1>2, <2>4, <2>5, NextTurn, QuietKeeps
<1>6. ASSUME NEW i \in DOMAIN cands, cands[i].status # "confirmed",
             Become(p, [op |-> "mark", at |-> "mark", cand |-> i])
      PROVE  ReviewSafe'
  <2> DEFINE c == [op |-> "mark", at |-> "mark", cand |-> i]
  <2>1. FrameShape(c)
    BY DEF FrameShape
  <2>2. OnlyMoves(p) /\ call'[p] = c
    BY <1>2, <1>6, <2>1, BecomeMoves
  <2>3. InFlight(p)'
    BY <1>1, <1>6, <2>2 DEF InFlight
  <2> QED BY <1>1, <1>2, <2>2, <2>3, NextTurn, QuietKeeps
<1> QED
  BY <1>3, <1>4, <1>5, <1>6 DEF CreateRead

LEMMA SuggestReturnKeeps ==
  ASSUME ReviewSafe, NEW p \in Procs, SuggestReturn(p)
  PROVE  ReviewSafe'
<1>1. /\ call[p] # NoCall /\ call[p].op = "suggest" /\ Return(p)
      /\ UNCHANGED <<cands, relations, verdict, asked, resets, kills, overlapped>>
  BY DEF SuggestReturn, At, NoCall, tables, ghosts, bounds
<1>2. OnlyMoves(p) /\ call'[p] = NoCall
  BY <1>1, ReturnMoves DEF ReviewSafe
<1> QED
  BY <1>1, <1>2, NextTurn, IdleInFlight, QuietKeeps DEF ReviewSafe, Shapes

LEMMA ConfirmKeeps ==
  ASSUME ReviewSafe, NEW p \in Procs, NEW i, Confirm(p, i)
  PROVE  ReviewSafe'
<1> DEFINE c == [op |-> "confirm", at |-> "subject", cand |-> i, src |-> cands[i].src,
                 pair |-> <<cands[i].subj, cands[i].obj>>]
<1>1. FrameShape(c)
  BY DEF FrameShape
<1>2. Turn(p) /\ call'[p] = c /\ call[p] = NoCall
  BY <1>1, StartTurn DEF Confirm
<1>3. /\ i \in DOMAIN cands /\ cands[i].status = "candidate"
      /\ <<c.pair, i>> \in asked' /\ asked \subseteq asked'
      /\ UNCHANGED <<cands, relations, verdict, resets, kills>>
  BY DEF Confirm, tables
<1>4. InFlight(p)'
  BY <1>2, <1>3 DEF InFlight
<1> QED
  BY <1>2, <1>3, <1>4, QuietKeeps DEF ReviewSafe, Shapes, NoCall

LEMMA RelateKeeps ==
  ASSUME ReviewSafe, NEW p \in Procs, NEW pair, NEW f, Relate(p, pair, f)
  PROVE  ReviewSafe'
<1> DEFINE c == [op |-> "relate", at |-> "subject", cand |-> None, src |-> f, pair |-> pair]
<1>1. FrameShape(c)
  BY DEF FrameShape
<1>2. Turn(p) /\ call'[p] = c /\ call[p] = NoCall
  BY <1>1, StartTurn DEF Relate
<1>3. /\ <<pair, None>> \in asked' /\ asked \subseteq asked'
      /\ UNCHANGED <<cands, relations, verdict, resets, kills>>
  BY DEF Relate, tables
<1>4. InFlight(p)'
  BY <1>2, <1>3 DEF InFlight
<1> QED
  BY <1>2, <1>3, <1>4, QuietKeeps DEF ReviewSafe, Shapes, NoCall

LEMMA RejectKeeps ==
  ASSUME ReviewSafe, NEW p \in Procs, NEW i, Reject(p, i)
  PROVE  ReviewSafe'
<1> DEFINE c == [op |-> "reject", at |-> "status", cand |-> i]
<1>1. FrameShape(c)
  BY DEF FrameShape
<1>2. Turn(p) /\ call'[p] = c /\ call[p] = NoCall
  BY <1>1, StartTurn DEF Reject
<1>3. /\ i \in DOMAIN cands /\ cands[i].status = "candidate"
      /\ UNCHANGED <<cands, relations, verdict, asked, resets, kills>>
  BY DEF Reject, tables, ghosts
<1>4. InFlight(p)'
  BY <1>2, <1>3 DEF InFlight
<1> QED
  BY <1>2, <1>3, <1>4, QuietKeeps DEF ReviewSafe, Shapes, NoCall

LEMMA ResetKeeps ==
  ASSUME ReviewSafe, NEW p \in Procs, Reset(p)
  PROVE  ReviewSafe'
<1> DEFINE c == [op |-> "reset", at |-> "facts"]
<1>1. FrameShape(c)
  BY DEF FrameShape
<1>2. Turn(p) /\ call'[p] = c /\ call[p] = NoCall
  BY <1>1, StartTurn DEF Reset
<1>3. resets \in Nat /\ kills \in Nat /\ resets' = resets + 1
  BY DEF Reset, ReviewSafe, Shapes
<1>4. InFlight(p)'
  BY <1>2, <1>3 DEF InFlight
<1> QED
  BY <1>2, <1>3, <1>4, QuietKeeps DEF Reset, tables, ghosts, NoCall

LEMMA RememberNameKeeps ==
  ASSUME ReviewSafe, NEW p \in Procs, RememberName(p)
  PROVE  ReviewSafe'
<1> DEFINE c == call[p]
           next == IF c.at = "subject" THEN "object"
                   ELSE IF c.op = "confirm" THEN "edge" ELSE "insert"
<1>1. /\ c # NoCall /\ c.op \in {"confirm", "relate"} /\ c.at \in {"subject", "object"}
      /\ Goto(p, next)
      /\ UNCHANGED <<cands, relations, verdict, asked, resets, kills, overlapped>>
  BY DEF RememberName, NoCall, ghosts, bounds
<1>2. /\ OnlyMoves(p) /\ call'[p].op = c.op /\ call'[p].at = next
      /\ call'[p].cand = c.cand /\ call'[p].src = c.src /\ call'[p].pair = c.pair
  BY <1>1, GotoMoves DEF ReviewSafe
<1>3. InFlight(p)'
  <2>1. InFlight(p) /\ next # "status" /\ (c.op = "confirm" => next # "insert")
    BY DEF ReviewSafe
  <2> QED BY <1>1, <1>2, <2>1 DEF InFlight, Calm
<1> QED
  BY <1>1, <1>2, <1>3, NextTurn, QuietKeeps DEF ReviewSafe, Shapes

LEMMA ConfirmEdgeKeeps ==
  ASSUME ReviewSafe, NEW p \in Procs, ConfirmEdge(p)
  PROVE  ReviewSafe'
<1> DEFINE c == call[p]
<1>1. /\ c # NoCall /\ c.op = "confirm" /\ c.at = "edge"
      /\ UNCHANGED <<cands, relations, verdict, asked, resets, kills, overlapped>>
  BY DEF ConfirmEdge, At, NoCall, tables, ghosts, bounds
<1>2. Shapes /\ InFlight(p) /\ resets \in Nat /\ kills \in Nat
  BY DEF ReviewSafe, Shapes
<1>3. CASE c.pair \in DOMAIN relations /\ relations[c.pair] # c.src
  <2> DEFINE d == [op |-> "mark", at |-> "mark", cand |-> c.cand]
  <2>1. Become(p, d) /\ FrameShape(d)
    BY <1>3 DEF ConfirmEdge, FrameShape
  <2>2. OnlyMoves(p) /\ call'[p] = d
    BY <1>2, <2>1, BecomeMoves
  <2>3. InFlight(p)'
    BY <1>1, <1>2, <2>2 DEF InFlight, Calm
  <2> QED BY <1>1, <1>2, <2>2, <2>3, NextTurn, QuietKeeps
<1>4. ASSUME NEW at \in {"insert", "status"}, Goto(p, at),
             at = "insert" => c.pair \notin DOMAIN relations,
             at = "status" => c.pair \in DOMAIN relations /\ relations[c.pair] = c.src
      PROVE  ReviewSafe'
  <2>1. /\ OnlyMoves(p) /\ call'[p].op = c.op /\ call'[p].at = at
        /\ call'[p].cand = c.cand /\ call'[p].src = c.src /\ call'[p].pair = c.pair
    BY <1>1, <1>2, <1>4, GotoMoves
  <2>2. InFlight(p)'
    BY <1>1, <1>2, <1>4, <2>1 DEF InFlight, Calm
  <2> QED BY <1>1, <1>2, <2>1, <2>2, NextTurn, QuietKeeps
<1> QED
  BY <1>3, <1>4 DEF ConfirmEdge

LEMMA KillKeeps ==
  ASSUME ReviewSafe, NEW p \in Procs, Kill(p)
  PROVE  ReviewSafe'
<1>1. OnlyMoves(p) /\ call'[p] = NoCall
  BY ReturnMoves DEF Kill, ReviewSafe
<1>2. resets \in Nat /\ kills \in Nat /\ kills' = kills + 1
  BY DEF Kill, ReviewSafe, Shapes
<1> QED
  BY <1>1, <1>2, NextTurn, IdleInFlight, QuietKeeps DEF Kill, tables, ghosts

-----------------------------------------------------------------------------
(* The steps that write.  First what an UPDATE does to a candidate.        *)
SameRow(r, d) ==
  /\ RowShape(d)
  /\ d.subj = r.subj /\ d.obj = r.obj

SameRows ==
  /\ cands' = [i \in DOMAIN cands |-> cands'[i]]
  /\ \A i \in DOMAIN cands : SameRow(cands[i], cands'[i])

LEMMA RowStatus ==
  ASSUME NEW r, RowShape(r), NEW s
  PROVE  LET d == [r EXCEPT !.status = s]
         IN SameRow(r, d) /\ d.status = s /\ d.src = r.src /\ d.rel = r.rel
<1>1. PICK key, subj, obj, src, tgt, srcEv, tgtEv, status, rel :
        r = [key |-> key, subj |-> subj, obj |-> obj, src |-> src, tgt |-> tgt,
             srcEv |-> srcEv, tgtEv |-> tgtEv, status |-> status, rel |-> rel]
  BY DEF RowShape
<1>2. [r EXCEPT !.status = s] =
        [key |-> key, subj |-> subj, obj |-> obj, src |-> src, tgt |-> tgt,
         srcEv |-> srcEv, tgtEv |-> tgtEv, status |-> s, rel |-> rel]
  BY <1>1
<1> QED
  BY <1>1, <1>2 DEF SameRow, RowShape

LEMMA RowConfirmed ==
  ASSUME NEW r, RowShape(r), NEW e
  PROVE  LET d == [r EXCEPT !.status = "confirmed", !.rel = e]
         IN SameRow(r, d) /\ d.status = "confirmed" /\ d.src = r.src /\ d.rel = e
<1>1. PICK key, subj, obj, src, tgt, srcEv, tgtEv, status, rel :
        r = [key |-> key, subj |-> subj, obj |-> obj, src |-> src, tgt |-> tgt,
             srcEv |-> srcEv, tgtEv |-> tgtEv, status |-> status, rel |-> rel]
  BY DEF RowShape
<1> DEFINE d1 == [r EXCEPT !.status = "confirmed"]
           d2 == [d1 EXCEPT !.rel = e]
<1>2. d1 = [key |-> key, subj |-> subj, obj |-> obj, src |-> src, tgt |-> tgt,
            srcEv |-> srcEv, tgtEv |-> tgtEv, status |-> "confirmed", rel |-> rel]
  BY <1>1
<1> HIDE DEF d1
<1>3. d2 = [key |-> key, subj |-> subj, obj |-> obj, src |-> src, tgt |-> tgt,
            srcEv |-> srcEv, tgtEv |-> tgtEv, status |-> "confirmed", rel |-> e]
  BY <1>2
<1> HIDE DEF d2
<1>4. [r EXCEPT !.status = "confirmed", !.rel = e] = d2
  BY DEF d1, d2
<1> QED
  BY <1>1, <1>3, <1>4 DEF SameRow, RowShape

LEMMA RowCleared ==
  ASSUME NEW r, RowShape(r)
  PROVE  LET d == [r EXCEPT !.src = None, !.tgt = None, !.srcEv = None, !.tgtEv = None]
         IN SameRow(r, d) /\ d.status = r.status /\ d.src = None /\ d.rel = r.rel
<1>1. PICK key, subj, obj, src, tgt, srcEv, tgtEv, status, rel :
        r = [key |-> key, subj |-> subj, obj |-> obj, src |-> src, tgt |-> tgt,
             srcEv |-> srcEv, tgtEv |-> tgtEv, status |-> status, rel |-> rel]
  BY DEF RowShape
<1> DEFINE d1 == [r EXCEPT !.src = None]
           d2 == [d1 EXCEPT !.tgt = None]
           d3 == [d2 EXCEPT !.srcEv = None]
           d4 == [d3 EXCEPT !.tgtEv = None]
<1>2. d1 = [key |-> key, subj |-> subj, obj |-> obj, src |-> None, tgt |-> tgt,
            srcEv |-> srcEv, tgtEv |-> tgtEv, status |-> status, rel |-> rel]
  BY <1>1
<1> HIDE DEF d1
<1>3. d2 = [key |-> key, subj |-> subj, obj |-> obj, src |-> None, tgt |-> None,
            srcEv |-> srcEv, tgtEv |-> tgtEv, status |-> status, rel |-> rel]
  BY <1>2
<1> HIDE DEF d2
<1>4. d3 = [key |-> key, subj |-> subj, obj |-> obj, src |-> None, tgt |-> None,
            srcEv |-> None, tgtEv |-> tgtEv, status |-> status, rel |-> rel]
  BY <1>3
<1> HIDE DEF d3
<1>5. d4 = [key |-> key, subj |-> subj, obj |-> obj, src |-> None, tgt |-> None,
            srcEv |-> None, tgtEv |-> None, status |-> status, rel |-> rel]
  BY <1>4
<1> HIDE DEF d4
<1>6. [r EXCEPT !.src = None, !.tgt = None, !.srcEv = None, !.tgtEv = None] = d4
  BY DEF d1, d2, d3, d4
<1> QED
  BY <1>1, <1>5, <1>6 DEF SameRow, RowShape

LEMMA StatusSet ==
  ASSUME Shapes, NEW i, NEW s, SetStatus(i, s)
  PROVE  /\ SameRows
         /\ \A j \in DOMAIN cands :
              /\ cands'[j].src = cands[j].src /\ cands'[j].rel = cands[j].rel
              /\ j = i => cands'[j].status = s
              /\ j # i => cands'[j] = cands[j]
<1>1. \A j \in DOMAIN cands : RowShape(cands[j]) /\ SameRow(cands[j], cands[j])
  BY DEF Shapes, SameRow
<1>2. CASE i \in DOMAIN cands
  <2>1. cands' = [j \in DOMAIN cands |-> IF j = i THEN [cands[i] EXCEPT !.status = s]
                                         ELSE cands[j]]
    BY <1>2 DEF SetStatus, Shapes
  <2>2. /\ SameRow(cands[i], [cands[i] EXCEPT !.status = s])
        /\ [cands[i] EXCEPT !.status = s].status = s
        /\ [cands[i] EXCEPT !.status = s].src = cands[i].src
        /\ [cands[i] EXCEPT !.status = s].rel = cands[i].rel
    BY <1>1, <1>2, RowStatus
  <2>3. DOMAIN cands' = DOMAIN cands /\ SameRows
    BY <1>1, <2>1, <2>2 DEF SameRows
  <2> QED BY <1>2, <2>1, <2>2, <2>3
<1>3. CASE i \notin DOMAIN cands
  BY <1>1, <1>3 DEF SetStatus, SameRows, Shapes
<1> QED
  BY <1>2, <1>3

LEMMA SameRowsShapes ==
  ASSUME Shapes, SameRows, NEW p \in Procs, OnlyMoves(p), UNCHANGED <<resets, kills>>
  PROVE  Shapes'
<1>1. DOMAIN cands' = DOMAIN cands
  BY DEF SameRows
<1>2. \A q \in Procs : FrameShape(call'[q])
  BY DEF OnlyMoves, Shapes
<1> QED
  BY <1>1, <1>2 DEF Shapes, OnlyMoves, Ids, SameRows, SameRow

(* Whoever asked for an edge that was there is still answered for.         *)
LEMMA StillAnswered ==
  ASSUME ReviewSafe, NEW p \in Procs, Turn(p), UNCHANGED kills,
         DOMAIN cands \subseteq DOMAIN cands',
         ~overlapped => \A i \in DOMAIN cands :
           cands[i].status = "confirmed" => cands'[i].status = "confirmed",
         ~overlapped /\ call[p].op = "confirm" /\ call[p].at = "status" =>
           cands'[call[p].cand].status = "confirmed",
         ~overlapped', kills' = 0, NEW r \in DOMAIN relations
  PROVE  \E a \in asked : a[1] = r /\ Answered(a)'
<1>1. ~overlapped /\ kills = 0
  BY DEF Turn
<1>2. PICK a \in asked : a[1] = r /\ Answered(a)
  BY <1>1 DEF ReviewSafe, Askers
<1>3. CASE a[2] = None
  BY <1>2, <1>3 DEF Answered
<1>4. CASE a[2] \in DOMAIN cands /\ cands[a[2]].status = "confirmed"
  BY <1>1, <1>2, <1>4 DEF Answered
<1>5. ASSUME NEW q \in Procs, a[2] \in DOMAIN cands, call[q].op = "confirm",
             call[q].at = "status", call[q].cand = a[2]
      PROVE  Answered(a)'
  <2>1. q = p
    BY <1>5 DEF Turn, NoCall
  <2> QED BY <1>1, <1>5, <2>1 DEF Answered
<1> QED
  BY <1>2, <1>3, <1>4, <1>5 DEF Answered

LEMMA CreateInsertKeeps ==
  ASSUME ReviewSafe, NEW p \in Procs, CreateInsert(p)
  PROVE  ReviewSafe'
<1>1. /\ call[p] # NoCall /\ call[p].op = "suggest"
      /\ UNCHANGED <<relations, verdict, asked, resets, kills, overlapped>>
  BY DEF CreateInsert, At, NoCall, ghosts, bounds
<1>2. Shapes /\ resets \in Nat /\ kills \in Nat
  BY DEF ReviewSafe, Shapes
<1>3. CASE Return(p) /\ UNCHANGED cands
  BY <1>1, <1>2, <1>3, ReturnMoves, NextTurn, IdleInFlight, QuietKeeps
<1>4. ASSUME NEW row, RowShape(row), row.status = "candidate",
             cands' = Put(cands, FreshId(cands), row), NEW c, Become(p, c), FrameShape(c),
             c.op = "suggest"
      PROVE  ReviewSafe'
  <2> DEFINE id == FreshId(cands)
  <2>1. id \notin DOMAIN cands /\ \E n \in Nat : DOMAIN cands \cup {id} = 1..n
    BY <1>2, FreshIdNew
  <2> HIDE DEF id
  <2>2. /\ cands' = [i \in DOMAIN cands' |-> cands'[i]]
        /\ DOMAIN cands' = DOMAIN cands \cup {id} /\ cands'[id] = row
        /\ \A i \in DOMAIN cands : cands'[i] = cands[i]
    BY <1>4, <2>1 DEF Put, id
  <2>3. OnlyMoves(p) /\ call'[p] = c
    BY <1>2, <1>4, BecomeMoves
  <2>4. Turn(p)
    BY <1>1, <2>3, NextTurn
  <2>5. Shapes'
    <3>1. \A q \in Procs : FrameShape(call'[q])
      BY <1>2, <2>3 DEF OnlyMoves, Shapes
    <3>2. \A i \in DOMAIN cands' : RowShape(cands'[i])
      BY <1>2, <1>4, <2>2 DEF Shapes
    <3> QED BY <1>1, <1>2, <2>1, <2>2, <2>3, <3>1, <3>2 DEF Shapes, OnlyMoves, Ids
  <2>6. Single' /\ \A q \in Procs : q # p => InFlight(q)'
    BY <1>1, <1>2, <2>2, <2>4, OthersKept DEF Widened
  <2>7. InFlight(p)'
    BY <1>4, <2>3 DEF InFlight
  <2>8. Kept'
    BY <1>1, <1>4, <2>2
       DEF Kept, ReviewSafe, ConfirmedInGraph, ConfirmedProvenance, VerdictKept
  <2>9. Askers'
    BY <1>1, <2>2, <2>4, StillAnswered DEF Askers
  <2> QED BY <2>5, <2>6, <2>7, <2>8, <2>9 DEF ReviewSafe
<1>5. ASSUME ~(Return(p) /\ UNCHANGED cands)
      PROVE  \E row : /\ RowShape(row) /\ row.status = "candidate"
                      /\ cands' = Put(cands, FreshId(cands), row)
    <2> DEFINE s == Head(call[p].todo)
               row == [key |-> KeyOf(s), subj |-> s.subj, obj |-> s.obj, src |-> s.src,
                       tgt |-> s.tgt, srcEv |-> s.srcEv, tgtEv |-> s.tgtEv,
                       status |-> "candidate", rel |-> <<>>]
    <2>1. cands' = Put(cands, FreshId(cands), row)
      BY <1>5 DEF CreateInsert
    <2>2. RowShape(row) /\ row.status = "candidate"
      BY DEF RowShape
    <2> QED BY <2>1, <2>2
<1>6. ASSUME ~(Return(p) /\ UNCHANGED cands)
      PROVE  \E c : Become(p, c) /\ FrameShape(c) /\ c.op = "suggest"
    <2> DEFINE d == [call[p] EXCEPT !.at = "read"]
               todo == Tail(call[p].todo)
               c == [d EXCEPT !.todo = todo]
    <2>1. Become(p, [call[p] EXCEPT !.at = "read", !.todo = Tail(@)])
      BY <1>6 DEF CreateInsert
    <2>2. call[p] = [op |-> "suggest", at |-> call[p].at, todo |-> call[p].todo]
      BY <1>1, <1>2 DEF Shapes, FrameShape
    <2>3. d = [op |-> "suggest", at |-> "read", todo |-> call[p].todo]
      BY <2>2
    <2>4. [call[p] EXCEPT !.at = "read", !.todo = Tail(@)] = c
      BY <2>2
    <2> HIDE DEF d, todo
    <2>5. c = [op |-> "suggest", at |-> "read", todo |-> todo]
      BY <2>3, TodoReplaced
    <2>6. FrameShape(c) /\ c.op = "suggest"
      BY <2>5 DEF FrameShape
    <2> QED BY <2>1, <2>4, <2>6
<1> QED
  BY <1>3, <1>4, <1>5, <1>6

LEMMA MarkConflictKeeps ==
  ASSUME ReviewSafe, NEW p \in Procs, MarkConflict(p)
  PROVE  ReviewSafe'
<1> DEFINE k == call[p].cand
<1>1. /\ call[p] # NoCall /\ call[p].op = "mark" /\ SetStatus(k, "conflict")
      /\ UNCHANGED <<relations, verdict, asked, resets, kills, overlapped>>
  BY DEF MarkConflict, At, NoCall, ghosts, bounds
<1>2. Shapes /\ resets \in Nat /\ kills \in Nat /\ InFlight(p)
  BY DEF ReviewSafe, Shapes
<1>3. OnlyMoves(p) /\ call'[p] = NoCall
  BY <1>2, ReturnMoves DEF MarkConflict
<1>4. Turn(p)
  BY <1>1, <1>3, NextTurn
<1>5. /\ SameRows /\ DOMAIN cands' = DOMAIN cands
      /\ \A j \in DOMAIN cands :
           /\ cands'[j].src = cands[j].src /\ cands'[j].rel = cands[j].rel
           /\ cands'[j].subj = cands[j].subj /\ cands'[j].obj = cands[j].obj
           /\ j = k => cands'[j].status = "conflict"
           /\ j # k => cands'[j] = cands[j]
  BY <1>1, <1>2, StatusSet DEF SameRows, SameRow
<1>6. ~overlapped => k \in DOMAIN cands /\ cands[k].status # "confirmed"
  BY <1>1, <1>2 DEF InFlight
<1>7. Shapes'
  BY <1>1, <1>2, <1>3, <1>5, SameRowsShapes
<1>8. Single' /\ \A q \in Procs : InFlight(q)'
  BY <1>1, <1>2, <1>3, <1>4, <1>5, OthersKept, IdleInFlight DEF Widened
<1>9. Kept'
  <2>1. ConfirmedInGraph'
    BY <1>1, <1>5 DEF ReviewSafe, Kept, ConfirmedInGraph
  <2>2. ConfirmedProvenance'
    BY <1>1, <1>5 DEF ReviewSafe, Kept, ConfirmedProvenance
  <2>3. VerdictKept' /\ DOMAIN verdict' \subseteq DOMAIN cands'
    BY <1>1, <1>5, <1>6 DEF ReviewSafe, Kept, VerdictKept
  <2> QED BY <2>1, <2>2, <2>3 DEF Kept
<1>10. Askers'
  BY <1>1, <1>4, <1>5, <1>6, StillAnswered DEF Askers
<1> QED
  BY <1>7, <1>8, <1>9, <1>10 DEF ReviewSafe

LEMMA RejectStatusKeeps ==
  ASSUME ReviewSafe, NEW p \in Procs, RejectStatus(p)
  PROVE  ReviewSafe'
<1> DEFINE k == call[p].cand
<1>1. /\ call[p] # NoCall /\ call[p].op = "reject" /\ SetStatus(k, "rejected")
      /\ verdict' = IF k \in DOMAIN cands THEN Put(verdict, k, "rejected") ELSE verdict
      /\ UNCHANGED <<relations, asked, resets, kills, overlapped>>
  BY DEF RejectStatus, At, NoCall, bounds
<1>2. Shapes /\ resets \in Nat /\ kills \in Nat /\ InFlight(p)
  BY DEF ReviewSafe, Shapes
<1>3. OnlyMoves(p) /\ call'[p] = NoCall
  BY <1>2, ReturnMoves DEF RejectStatus
<1>4. Turn(p)
  BY <1>1, <1>3, NextTurn
<1>5. /\ SameRows /\ DOMAIN cands' = DOMAIN cands
      /\ \A j \in DOMAIN cands :
           /\ cands'[j].src = cands[j].src /\ cands'[j].rel = cands[j].rel
           /\ cands'[j].subj = cands[j].subj /\ cands'[j].obj = cands[j].obj
           /\ j = k => cands'[j].status = "rejected"
           /\ j # k => cands'[j] = cands[j]
  BY <1>1, <1>2, StatusSet DEF SameRows, SameRow
<1>6. ~overlapped => k \in DOMAIN cands /\ cands[k].status = "candidate"
  BY <1>1, <1>2 DEF InFlight
<1>7. Shapes'
  BY <1>1, <1>2, <1>3, <1>5, SameRowsShapes
<1>8. Single' /\ \A q \in Procs : InFlight(q)'
  BY <1>1, <1>2, <1>3, <1>4, <1>5, OthersKept, IdleInFlight DEF Widened
<1>9. Kept'
  <2>1. ConfirmedInGraph'
    BY <1>1, <1>5 DEF ReviewSafe, Kept, ConfirmedInGraph
  <2>2. ConfirmedProvenance'
    BY <1>1, <1>5 DEF ReviewSafe, Kept, ConfirmedProvenance
  <2>3. /\ DOMAIN verdict' \subseteq DOMAIN cands
        /\ \A j \in DOMAIN verdict' : j # k => j \in DOMAIN verdict /\ verdict'[j] = verdict[j]
        /\ k \in DOMAIN cands => verdict'[k] = "rejected"
    BY <1>1 DEF Put, ReviewSafe, Kept
  <2>4. VerdictKept' /\ DOMAIN verdict' \subseteq DOMAIN cands'
    BY <1>1, <1>5, <1>6, <2>3 DEF ReviewSafe, Kept, VerdictKept
  <2> QED BY <2>1, <2>2, <2>4 DEF Kept
<1>10. Askers'
  BY <1>1, <1>4, <1>5, <1>6, StillAnswered DEF Askers
<1> QED
  BY <1>7, <1>8, <1>9, <1>10 DEF ReviewSafe

LEMMA InsertEdgeKeeps ==
  ASSUME ReviewSafe, NEW p \in Procs, InsertEdge(p)
  PROVE  ReviewSafe'
<1> DEFINE c == call[p]
           lost == c.src # None /\ c.src \notin DOMAIN facts
           made == ~lost /\ c.pair \notin DOMAIN relations
<1>1. /\ c # NoCall /\ c.op \in {"confirm", "relate"} /\ c.at = "insert"
      /\ relations' = IF made THEN Put(relations, c.pair, c.src) ELSE relations
      /\ IF lost \/ c.op = "relate" THEN Return(p) ELSE Goto(p, "status")
      /\ UNCHANGED <<cands, verdict, asked, resets, kills, overlapped>>
  BY DEF InsertEdge, NoCall, ghosts, bounds
<1>2. Shapes /\ resets \in Nat /\ kills \in Nat /\ InFlight(p)
  BY DEF ReviewSafe, Shapes
<1>3. /\ DOMAIN relations \subseteq DOMAIN relations'
      /\ \A r \in DOMAIN relations : relations'[r] = relations[r]
      /\ \A r \in DOMAIN relations' : r \in DOMAIN relations \/ r = c.pair
      /\ ~lost => c.pair \in DOMAIN relations'
      /\ made => relations'[c.pair] = c.src
  BY <1>1 DEF Put
<1>4. /\ OnlyMoves(p)
      /\ \/ call'[p] = NoCall /\ (lost \/ c.op = "relate")
         \/ /\ ~lost /\ c.op = "confirm"
            /\ call'[p].op = "confirm" /\ call'[p].at = "status" /\ call'[p].cand = c.cand
            /\ call'[p].src = c.src /\ call'[p].pair = c.pair
  <2>1. CASE lost \/ c.op = "relate"
    BY <1>1, <1>2, <2>1, ReturnMoves
  <2>2. CASE ~(lost \/ c.op = "relate")
    <3> HIDE DEF lost
    <3>1. Goto(p, "status") /\ c.op = "confirm"
      BY <1>1, <2>2
    <3> QED BY <1>1, <1>2, <2>2, <3>1, GotoMoves
  <2> QED BY <2>1, <2>2
<1> HIDE DEF lost
<1>5. Turn(p)
  BY <1>1, <1>4, NextTurn
<1>6. InFlight(p)'
  <2>1. CASE call'[p] = NoCall
    BY <2>1, IdleInFlight
  <2>2. CASE ~lost /\ c.op = "confirm" /\ call'[p] # NoCall
    <3>1. /\ call'[p].op = "confirm" /\ call'[p].at = "status" /\ call'[p].cand = c.cand
          /\ call'[p].src = c.src /\ call'[p].pair = c.pair
      BY <1>4, <2>2
    <3>2. ~overlapped => relations'[c.pair] = c.src
      BY <1>1, <1>2, <1>3, <2>2 DEF InFlight
    <3> QED BY <1>1, <1>2, <1>3, <2>2, <3>1, <3>2 DEF InFlight, Calm
  <2> QED BY <1>4, <2>1, <2>2
<1>7. Shapes'
  BY <1>1, <1>2, <1>4, ShapesKept
<1>8. Single' /\ \A q \in Procs : InFlight(q)'
  BY <1>1, <1>2, <1>3, <1>5, <1>6, OthersKept DEF Widened
<1>9. Kept'
  <2>1. ConfirmedInGraph'
    BY <1>1, <1>3 DEF ReviewSafe, Kept, ConfirmedInGraph
  <2>2. ConfirmedProvenance'
    BY <1>1, <1>3 DEF ReviewSafe, Kept, ConfirmedProvenance, ConfirmedInGraph
  <2>3. VerdictKept' /\ DOMAIN verdict' \subseteq DOMAIN cands'
    BY <1>1 DEF ReviewSafe, Kept, VerdictKept
  <2> QED BY <2>1, <2>2, <2>3 DEF Kept
<1>10. Askers'
  <2>1. SUFFICES ASSUME ~overlapped', kills' = 0, NEW r \in DOMAIN relations'
                 PROVE  \E a \in asked : a[1] = r /\ Answered(a)'
    BY <1>1 DEF Askers
  <2>2. CASE r \in DOMAIN relations
    BY <1>1, <1>5, <2>1, <2>2, StillAnswered
  <2>3. CASE r = c.pair /\ c.op = "relate"
    <3>1. <<r, None>> \in asked
      BY <1>1, <1>2, <2>1, <2>3 DEF InFlight
    <3>2. Answered(<<r, None>>)'
      BY DEF Answered
    <3> QED BY <3>1, <3>2
  <2>4. CASE r = c.pair /\ c.op = "confirm" /\ r \notin DOMAIN relations
    <3>1. c.cand \in DOMAIN cands /\ <<r, c.cand>> \in asked
      BY <1>1, <1>2, <2>1, <2>4 DEF InFlight, Calm
    <3>2. made
      BY <1>1, <2>1, <2>4
    <3>3. call'[p].op = "confirm" /\ call'[p].at = "status" /\ call'[p].cand = c.cand
      BY <1>4, <2>4, <3>2
    <3>4. PICK a \in asked : a[1] = r /\ a[2] = c.cand
      BY <3>1
    <3>5. Answered(a)'
      BY <1>1, <3>1, <3>3, <3>4 DEF Answered
    <3> QED BY <3>4, <3>5
  <2>5. (r \in DOMAIN relations \/ r = c.pair) /\ c.op \in {"confirm", "relate"}
    BY <1>1, <1>3, <2>1
  <2> QED BY <2>2, <2>3, <2>4, <2>5
<1> QED
  BY <1>7, <1>8, <1>9, <1>10 DEF ReviewSafe

LEMMA ConfirmStatusKeeps ==
  ASSUME ReviewSafe, NEW p \in Procs, ConfirmStatus(p)
  PROVE  ReviewSafe'
<1> DEFINE c == call[p]
           k == c.cand
           row == [cands[k] EXCEPT !.status = "confirmed", !.rel = c.pair]
<1>1. /\ c # NoCall /\ c.op = "confirm" /\ c.at = "status"
      /\ cands' = IF k \in DOMAIN cands
                  THEN [cands EXCEPT ![k].status = "confirmed", ![k].rel = c.pair]
                  ELSE cands
      /\ verdict' = IF k \in DOMAIN cands THEN Put(verdict, k, "confirmed") ELSE verdict
      /\ UNCHANGED <<relations, asked, resets, kills, overlapped>>
  BY DEF ConfirmStatus, At, NoCall, bounds
<1>2. Shapes /\ resets \in Nat /\ kills \in Nat /\ InFlight(p)
  BY DEF ReviewSafe, Shapes
<1>3. OnlyMoves(p) /\ call'[p] = NoCall
  BY <1>2, ReturnMoves DEF ConfirmStatus
<1>4. Turn(p)
  BY <1>1, <1>3, NextTurn
<1>5. /\ SameRows /\ DOMAIN cands' = DOMAIN cands
      /\ \A j \in DOMAIN cands :
           /\ cands'[j].src = cands[j].src
           /\ cands'[j].subj = cands[j].subj /\ cands'[j].obj = cands[j].obj
           /\ j = k => cands'[j].status = "confirmed" /\ cands'[j].rel = c.pair
           /\ j # k => cands'[j] = cands[j]
  <2>1. \A j \in DOMAIN cands : RowShape(cands[j]) /\ SameRow(cands[j], cands[j])
    BY <1>2 DEF Shapes, SameRow
  <2>2. CASE k \in DOMAIN cands
    <3>1. /\ cands' = [[cands EXCEPT ![k] = [@ EXCEPT !.status = "confirmed"]]
                         EXCEPT ![k] = [@ EXCEPT !.rel = c.pair]]
      BY <1>1, <2>2
    <3>2. cands' = [j \in DOMAIN cands |-> IF j = k THEN row ELSE cands[j]]
      BY <1>2, <2>2, <3>1 DEF Shapes
    <3>3. SameRow(cands[k], row) /\ row.status = "confirmed" /\ row.src = cands[k].src
          /\ row.rel = c.pair
      <4> DEFINE r == cands[k]
                 e == c.pair
                 d == [r EXCEPT !.status = "confirmed", !.rel = e]
      <4>1. RowShape(r)
        BY <2>1, <2>2
      <4> HIDE DEF r, e
      <4>2. SameRow(r, d) /\ d.status = "confirmed" /\ d.src = r.src /\ d.rel = e
        BY <4>1, RowConfirmed
      <4> QED BY <4>2 DEF r, e
    <3> HIDE DEF row
    <3> QED BY <2>1, <2>2, <3>2, <3>3 DEF SameRows, SameRow
  <2>3. CASE k \notin DOMAIN cands
    BY <1>1, <1>2, <2>1, <2>3 DEF SameRows, Shapes
  <2> QED BY <2>2, <2>3
<1>6. /\ Calm => /\ k \in DOMAIN cands /\ c.pair \in DOMAIN relations
                 /\ c.pair = <<cands[k].subj, cands[k].obj>>
      /\ ~overlapped => cands[k].status = "candidate" /\ relations[c.pair] = cands[k].src
  BY <1>1, <1>2 DEF InFlight
<1>7. Shapes'
  BY <1>1, <1>2, <1>3, <1>5, SameRowsShapes
<1>8. Single' /\ \A q \in Procs : InFlight(q)'
  BY <1>1, <1>2, <1>3, <1>4, <1>5, OthersKept, IdleInFlight DEF Widened
<1>9. Kept'
  <2>1. ConfirmedInGraph'
    BY <1>1, <1>5, <1>6 DEF ReviewSafe, Kept, ConfirmedInGraph, Calm
  <2>2. ConfirmedProvenance'
    BY <1>1, <1>5, <1>6 DEF ReviewSafe, Kept, ConfirmedProvenance
  <2>3. /\ DOMAIN verdict' \subseteq DOMAIN cands
        /\ \A j \in DOMAIN verdict' : j # k => j \in DOMAIN verdict /\ verdict'[j] = verdict[j]
        /\ k \in DOMAIN cands => verdict'[k] = "confirmed"
    BY <1>1 DEF Put, ReviewSafe, Kept
  <2>4. VerdictKept' /\ DOMAIN verdict' \subseteq DOMAIN cands'
    BY <1>1, <1>5, <2>3 DEF ReviewSafe, Kept, VerdictKept
  <2> QED BY <2>1, <2>2, <2>4 DEF Kept
<1>10. Askers'
  <2>1. ~overlapped => k \in DOMAIN cands
    BY <1>6 DEF Calm
  <2> QED BY <1>1, <1>4, <1>5, <2>1, StillAnswered DEF Askers
<1> QED
  BY <1>7, <1>8, <1>9, <1>10 DEF ReviewSafe

LEMMA ResetFactsKeeps ==
  ASSUME ReviewSafe, NEW p \in Procs, ResetFacts(p)
  PROVE  ReviewSafe'
<1>1. /\ call[p] # NoCall /\ call[p].op = "reset" /\ Goto(p, "cands")
      /\ relations' = [r \in DOMAIN relations |-> None]
      /\ UNCHANGED <<verdict, asked, resets, kills, overlapped>>
  <2>1. At(p, "reset", "facts") /\ Goto(p, "cands") /\ UNCHANGED <<ghosts, bounds>>
        /\ relations' = [r \in DOMAIN relations |-> None]
    BY DEF ResetFacts
  <2> QED BY <2>1 DEF At, NoCall, ghosts, bounds
<1>2. Shapes /\ resets \in Nat /\ kills \in Nat /\ InFlight(p)
  BY DEF ReviewSafe, Shapes
<1>3. OnlyMoves(p) /\ call'[p].op = "reset"
  BY <1>1, <1>2, GotoMoves
<1>4. Turn(p)
  BY <1>1, <1>3, NextTurn
<1>5. /\ SameRows /\ DOMAIN cands' = DOMAIN cands
      /\ \A j \in DOMAIN cands :
           /\ cands'[j].src = None
           /\ cands'[j].rel = cands[j].rel /\ cands'[j].status = cands[j].status
           /\ cands'[j].subj = cands[j].subj /\ cands'[j].obj = cands[j].obj
  <2>1. ASSUME NEW j \in DOMAIN cands
        PROVE  /\ SameRow(cands[j], cands'[j]) /\ cands'[j].src = None
               /\ cands'[j].rel = cands[j].rel /\ cands'[j].status = cands[j].status
    <3> DEFINE d == [cands[j] EXCEPT !.src = None, !.tgt = None, !.srcEv = None,
                                     !.tgtEv = None]
    <3>1. cands'[j] = d
      BY DEF ResetFacts
    <3>2. RowShape(cands[j])
      BY <1>2 DEF Shapes
    <3>3. SameRow(cands[j], d) /\ d.status = cands[j].status /\ d.src = None
          /\ d.rel = cands[j].rel
      BY <3>2, RowCleared
    <3> HIDE DEF d
    <3> QED BY <3>1, <3>3
  <2>2. cands' = [i \in DOMAIN cands |-> cands'[i]]
    BY DEF ResetFacts
  <2> QED BY <2>1, <2>2 DEF SameRows, SameRow
<1>6. InFlight(p)'
  BY <1>1, <1>2, <1>3 DEF InFlight
<1>7. Shapes'
  BY <1>1, <1>2, <1>3, <1>5, SameRowsShapes
<1>8. Single' /\ \A q \in Procs : InFlight(q)'
  BY <1>1, <1>2, <1>4, <1>5, <1>6, OthersKept DEF Widened
<1>9. Kept'
  <2>1. ConfirmedInGraph'
    BY <1>1, <1>5 DEF ReviewSafe, Kept, ConfirmedInGraph
  <2>2. ConfirmedProvenance'
    BY <1>1, <1>5 DEF ReviewSafe, Kept, ConfirmedProvenance, ConfirmedInGraph
  <2>3. VerdictKept' /\ DOMAIN verdict' \subseteq DOMAIN cands'
    BY <1>1, <1>5 DEF ReviewSafe, Kept, VerdictKept
  <2> QED BY <2>1, <2>2, <2>3 DEF Kept
<1>10. Askers'
  BY <1>1, <1>4, <1>5, StillAnswered DEF Askers
<1> QED
  BY <1>7, <1>8, <1>9, <1>10 DEF ReviewSafe

LEMMA ResetCandsKeeps ==
  ASSUME ReviewSafe, NEW p \in Procs, ResetCands(p)
  PROVE  ReviewSafe'
<1>1. /\ call[p] # NoCall /\ call[p].op = "reset" /\ Return(p)
      /\ cands' = Empty /\ verdict' = Empty
      /\ asked' = {<<a[1], None>> : a \in {b \in asked : b[1] \in DOMAIN relations}}
      /\ UNCHANGED <<relations, resets, kills, overlapped>>
  BY DEF ResetCands, At, NoCall, bounds
<1>2. Shapes /\ resets \in Nat /\ kills \in Nat /\ resets > 0
  BY <1>1 DEF ReviewSafe, Shapes, InFlight
<1>3. OnlyMoves(p) /\ call'[p] = NoCall
  BY <1>1, <1>2, ReturnMoves
<1>4. Turn(p)
  BY <1>1, <1>3, NextTurn
<1>5. DOMAIN cands' = {} /\ DOMAIN verdict' = {} /\ cands' = [i \in {} |-> cands'[i]]
  BY <1>1 DEF Empty
<1>6. Shapes'
  <2>1. \A q \in Procs : FrameShape(call'[q])
    BY <1>2, <1>3 DEF OnlyMoves, Shapes
  <2>2. DOMAIN cands' = 1..0
    BY <1>5
  <2>3. Ids'
    BY <2>2 DEF Ids
  <2> QED BY <1>1, <1>2, <1>3, <1>5, <2>1, <2>3 DEF Shapes, OnlyMoves
<1>7. Single'
  BY <1>4 DEF Single, Turn, OnlyMoves
<1>8. ASSUME NEW q \in Procs PROVE InFlight(q)'
  <2>1. CASE call'[q] = NoCall
    BY <2>1, IdleInFlight
  <2>2. CASE call'[q] # NoCall
    <3>1. overlapped' /\ ~Calm'
      BY <1>1, <1>2, <1>3, <1>4, <2>2 DEF Turn, OnlyMoves, Calm
    <3> QED BY <1>1, <1>2, <3>1 DEF InFlight
  <2> QED BY <2>1, <2>2
<1>9. Kept'
  BY <1>5 DEF Kept, ConfirmedInGraph, ConfirmedProvenance, VerdictKept
<1>10. Askers'
  <2>1. SUFFICES ASSUME ~overlapped', kills' = 0, NEW r \in DOMAIN relations
                 PROVE  \E a \in asked' : a[1] = r /\ Answered(a)'
    BY <1>1 DEF Askers
  <2>2. PICK a \in asked : a[1] = r
    BY <1>1, <2>1 DEF ReviewSafe, Askers
  <2>3. <<r, None>> \in asked'
    BY <1>1, <2>2
  <2>4. Answered(<<r, None>>)'
    BY DEF Answered
  <2> QED BY <2>3, <2>4
<1> QED
  BY <1>6, <1>7, <1>8, <1>9, <1>10 DEF ReviewSafe

-----------------------------------------------------------------------------
LEMMA ReviewInit == Init => ReviewSafe
<1> SUFFICES ASSUME Init PROVE ReviewSafe
  OBVIOUS
<1>1. DOMAIN cands = {} /\ DOMAIN verdict = {} /\ DOMAIN relations = {}
  BY DEF Init, Empty
<1>2. \A p \in Procs : call[p] = NoCall /\ FrameShape(call[p]) /\ InFlight(p)
  BY DEF Init, FrameShape, InFlight, NoCall
<1>3. Ids
  <2>1. DOMAIN cands = 1..0
    BY <1>1
  <2> QED BY <2>1 DEF Ids
<1>4. Shapes
  <2>1. cands = [i \in DOMAIN cands |-> cands[i]] /\ call = [p \in Procs |-> call[p]]
    BY DEF Init, Empty
  <2> QED BY <1>1, <1>2, <1>3, <2>1 DEF Shapes, Init
<1> QED
  BY <1>1, <1>2, <1>4
     DEF ReviewSafe, Single, Kept, ConfirmedInGraph, ConfirmedProvenance, VerdictKept, Askers

(* What the rest of the program does leaves the review alone.              *)
LEMMA ElsewhereKeeps ==
  ASSUME ReviewSafe,
         UNCHANGED <<cands, call, relations, verdict, asked, resets, kills, overlapped>>
  PROVE  ReviewSafe'
  BY DEF ReviewSafe, Shapes, Ids, Single, InFlight, Calm, Kept, ConfirmedInGraph,
         ConfirmedProvenance, VerdictKept, Askers, Answered

LEMMA ReviewStep == ReviewSafe /\ [Next]_vars => ReviewSafe'
<1> SUFFICES ASSUME ReviewSafe, [Next]_vars PROVE ReviewSafe'
  OBVIOUS
<1>1. ASSUME NEW p \in Procs, NEW f, Suggest(p, f) PROVE ReviewSafe'
  BY <1>1, SuggestKeeps
<1>2. ASSUME NEW p \in Procs, NEW i, Confirm(p, i) \/ Reject(p, i) PROVE ReviewSafe'
  BY <1>2, ConfirmKeeps, RejectKeeps
<1>3. ASSUME NEW p \in Procs, NEW pair, NEW f, Relate(p, pair, f) PROVE ReviewSafe'
  BY <1>3, RelateKeeps
<1>4. ASSUME NEW p \in Procs,
             CreateRead(p) \/ CreateInsert(p) \/ SuggestReturn(p) \/ MarkConflict(p)
      PROVE  ReviewSafe'
  BY <1>4, CreateReadKeeps, CreateInsertKeeps, SuggestReturnKeeps, MarkConflictKeeps
<1>5. ASSUME NEW p \in Procs,
             RememberName(p) \/ ConfirmEdge(p) \/ InsertEdge(p) \/ ConfirmStatus(p)
      PROVE  ReviewSafe'
  BY <1>5, RememberNameKeeps, ConfirmEdgeKeeps, InsertEdgeKeeps, ConfirmStatusKeeps
<1>6. ASSUME NEW p \in Procs, RejectStatus(p) \/ Reset(p) \/ ResetFacts(p) \/ ResetCands(p)
      PROVE  ReviewSafe'
  BY <1>6, RejectStatusKeeps, ResetKeeps, ResetFactsKeeps, ResetCandsKeeps
<1>7. ASSUME NEW p \in Procs, Kill(p) PROVE ReviewSafe'
  BY <1>7, KillKeeps
<1>8. ASSUME NEW t, RememberFact(t) PROVE ReviewSafe'
  BY <1>8, ElsewhereKeeps DEF RememberFact, ghosts, bounds
<1>9. ASSUME NEW f, AttachEvidence(f) \/ HideFact(f) PROVE ReviewSafe'
  BY <1>9, ElsewhereKeeps DEF AttachEvidence, HideFact, ghosts, bounds
<1>10. CASE UNCHANGED vars
  BY <1>10, ElsewhereKeeps DEF vars
<1> QED
  BY <1>1, <1>2, <1>3, <1>4, <1>5, <1>6, <1>7, <1>8, <1>9, <1>10 DEF Next

LEMMA ReviewSafeAlways == Spec => []ReviewSafe
  BY ReviewInit, ReviewStep, PTL DEF Spec

(* A candidate marked confirmed has its edge in the graph, for any number  *)
(* of processes, candidates and calls.                                     *)
THEOREM ConfirmedInGraphCorrect == Spec => []ConfirmedInGraph
<1>1. ReviewSafe => ConfirmedInGraph
  BY DEF ReviewSafe, Kept
<1> QED
  BY <1>1, ReviewSafeAlways, PTL

(* The edge of a confirmed candidate has the candidate's source fact.      *)
THEOREM ConfirmedProvenanceCorrect == Spec => []ConfirmedProvenance
<1>1. ReviewSafe => ConfirmedProvenance
  BY DEF ReviewSafe, Kept
<1> QED
  BY <1>1, ReviewSafeAlways, PTL

(* What a review said stays said.                                          *)
THEOREM VerdictKeptCorrect == Spec => []VerdictKept
<1>1. ReviewSafe => VerdictKept
  BY DEF ReviewSafe, Kept
<1> QED
  BY <1>1, ReviewSafeAlways, PTL

(* Rejecting a candidate leaves its relation outside the graph.            *)
THEOREM RejectedStaysOutCorrect == Spec => []RejectedStaysOut
<1>1. ASSUME ReviewSafe PROVE RejectedStaysOut
  <2>1. SUFFICES ASSUME ~overlapped, kills = 0, NEW r \in DOMAIN relations
                 PROVE  \E a \in asked :
                          /\ a[1] = r
                          /\ a[2] # None /\ a[2] \in DOMAIN verdict =>
                               verdict[a[2]] # "rejected"
    BY DEF RejectedStaysOut
  <2>2. PICK a \in asked : a[1] = r /\ Answered(a)
    BY <1>1, <2>1 DEF ReviewSafe, Askers
  <2>3. ASSUME a[2] # None, a[2] \in DOMAIN verdict PROVE verdict[a[2]] # "rejected"
    <3>1. a[2] \in DOMAIN cands
      BY <1>1, <2>3 DEF ReviewSafe, Kept
    <3>2. cands[a[2]].status \in {"confirmed", "candidate"}
      BY <1>1, <2>1, <2>2, <2>3 DEF Answered, ReviewSafe, InFlight
    <3> QED BY <1>1, <2>1, <2>3, <3>1, <3>2 DEF ReviewSafe, Kept, VerdictKept
  <2> QED BY <2>2, <2>3
<1> QED
  BY <1>1, ReviewSafeAlways, PTL
=============================================================================
