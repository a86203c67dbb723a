------------------------ MODULE HandoffsAndReadsProofs ------------------------
(***************************************************************************)
(* Proofs about handoffs, for any number of processes, keys and contexts,  *)
(* and about what the tools that only read answer, for any facts, requests *)
(* and changes that others make while a call runs.                         *)
(***************************************************************************)
EXTENDS Handoffs, Reads, PrefixRecursion, SequenceTheorems

(***************************************************************************)
(* Handoffs.                                                               *)
(***************************************************************************)
(* The ids in use have no gap, so the next one is new.                     *)
Ids == \E n \in Nat : DOMAIN handoffs = 1..n

(* Which tools reach which step.                                           *)
ToolSafe(s) ==
    LET c == call[s] IN
    /\ c.step \in {"refresh", "find"} => c.tool \in {"begin_content", "accept", "cancel"}
    /\ c.step = "update" => c.tool \in {"accept", "cancel"}
    /\ c.step \in {"begin", "key", "ref", "insert"} => c.tool \in {"begin", "begin_content"}
    /\ c.step = "readback" => c.tool \in {"begin", "begin_content", "accept", "cancel"}

(* What a call knows of the table while nobody resets the workspace: rows  *)
(* that had expired when it began are still there and, once it has         *)
(* refreshed, closed; the row it is to update is not one of them; what it  *)
(* inserted is there.                                                      *)
LateRows(s) ==
    \A id \in call[s].late :
        /\ id \in DOMAIN handoffs
        /\ Expired(handoffs[id].expires)
        /\ call[s].step = "find" => handoffs[id].state # "open"

RowSafe(s) ==
    LET c == call[s]
        own == {id \in DOMAIN handoffs : handoffs[id].key = c.key}
    IN  /\ c.step = "update" => c.row \in own /\ c.row \notin c.late
        /\ (c.step = "readback" /\ c.tool \in {"accept", "cancel"})
              => \E id \in own : id \notin c.late
        /\ (c.step = "readback" /\ c.tool \in {"begin", "begin_content"})
              => \E id \in own : handoffs[id].ref = c.ref /\ handoffs[id].owner = c.actor

CallSafe(s) ==
    call[s].step # "idle" =>
        /\ ToolSafe(s)
        /\ call[s].resets <= resets
        /\ call[s].resets = resets => LateRows(s) /\ RowSafe(s)

(* The rows begins and resets leave: each handoff has its context and no   *)
(* two handoffs share a key or a context.                                  *)
HandoffHasContext ==
    \A id, other \in DOMAIN handoffs :
        /\ handoffs[id].ref \in DOMAIN contexts
        /\ handoffs[id].key = handoffs[other].key => id = other
        /\ handoffs[id].ref = handoffs[other].ref => id = other

(* The inductive invariant.                                                *)
HandoffSafe ==
    /\ HandoffTypeOK /\ Ids /\ HandoffHasContext
    /\ \A s \in Servers : CallSafe(s)
    /\ ClaimsAreTimely /\ BeginHonoured

(* What a step does to the rows: none goes away, none opens again.         *)
Grown ==
    /\ DOMAIN handoffs \subseteq DOMAIN handoffs'
    /\ \A id \in DOMAIN handoffs :
         /\ handoffs'[id].key = handoffs[id].key /\ handoffs'[id].ref = handoffs[id].ref
         /\ handoffs'[id].owner = handoffs[id].owner
         /\ handoffs'[id].expires = handoffs[id].expires
         /\ handoffs'[id].state = "open" => handoffs[id].state = "open"

-----------------------------------------------------------------------------
(* The id SQLite gives to a new row is not in use.                         *)
LEMMA NextIdNew ==
    ASSUME Ids
    PROVE  /\ NextId \in Nat /\ NextId \notin DOMAIN handoffs
           /\ \E n \in Nat : DOMAIN handoffs \cup {NextId} = 1..n
<1>1. PICK n \in Nat : DOMAIN handoffs = 1..n
  BY DEF Ids
<1>2. CASE n = 0
  <2>1. DOMAIN handoffs = {} /\ NextId = 1
    BY <1>1, <1>2 DEF NextId
  <2>2. {1} = 1..1
    OBVIOUS
  <2> QED BY <2>1, <2>2
<1>3. CASE n > 0
  <2>1. n \in 1..n /\ \A y \in 1..n : n >= y
    BY <1>3
  <2>2. Max(1..n) \in 1..n /\ \A y \in 1..n : Max(1..n) >= y
    BY <2>1 DEF Max
  <2>3. Max(1..n) = n
    BY <2>1, <2>2
  <2>4. NextId = n + 1
    BY <1>1, <2>1, <2>3 DEF NextId
  <2>5. 1..n \cup {n + 1} = 1..(n + 1)
    OBVIOUS
  <2> QED BY <1>1, <2>4, <2>5
<1> QED
  BY <1>2, <1>3

(* The rows after an UPDATE of some rows' states.                          *)
LEMMA ExpireKeeps ==
    ASSUME HandoffTypeOK, handoffs' = ExpireRows, UNCHANGED contexts
    PROVE  /\ TablesTypeOK' /\ Grown /\ DOMAIN handoffs' = DOMAIN handoffs
           /\ \A id \in DOMAIN handoffs :
                Expired(handoffs[id].expires) => handoffs'[id].state # "open"
<1>1. DOMAIN handoffs' = DOMAIN handoffs
  BY DEF ExpireRows
<1>2. ASSUME NEW id \in DOMAIN handoffs
      PROVE  /\ handoffs'[id] \in Row
             /\ handoffs'[id].state \in {handoffs[id].state, "expired"}
             /\ handoffs'[id].key = handoffs[id].key /\ handoffs'[id].ref = handoffs[id].ref
             /\ handoffs'[id].owner = handoffs[id].owner
             /\ handoffs'[id].expires = handoffs[id].expires
             /\ handoffs'[id].acceptedBy = handoffs[id].acceptedBy
             /\ handoffs'[id].cancelledBy = handoffs[id].cancelledBy
             /\ Expired(handoffs[id].expires) => handoffs'[id].state # "open"
  BY DEF ExpireRows, HandoffTypeOK, TablesTypeOK, Row
<1>3. Grown
  BY <1>1, <1>2 DEF Grown
<1>4. TablesTypeOK'
  BY <1>1, <1>2 DEF HandoffTypeOK, TablesTypeOK
<1> QED
  BY <1>1, <1>2, <1>3, <1>4

(* ... of the one row that accept or cancel decides.                       *)
LEMMA DecideKeeps ==
    ASSUME HandoffTypeOK, NEW s \in Servers, call[s] \in Call, NEW id \in DOMAIN handoffs,
           Decide(s, id), UNCHANGED contexts
    PROVE  TablesTypeOK' /\ Grown /\ DOMAIN handoffs' = DOMAIN handoffs
<1>1. call[s].actor \in Actors
  BY DEF Call
<1>2. DOMAIN handoffs' = DOMAIN handoffs
  BY DEF Decide
<1>3. ASSUME NEW i \in DOMAIN handoffs
      PROVE  /\ handoffs'[i] \in Row
             /\ handoffs'[i].key = handoffs[i].key /\ handoffs'[i].ref = handoffs[i].ref
             /\ handoffs'[i].owner = handoffs[i].owner
             /\ handoffs'[i].expires = handoffs[i].expires
             /\ handoffs'[i].state = "open" => handoffs[i].state = "open"
             /\ handoffs'[i].state = "accepted" => handoffs'[i].acceptedBy \in Actors
             /\ handoffs'[i].state = "cancelled" => handoffs'[i].cancelledBy \in Actors
  <2>1. handoffs[i] \in Row /\ handoffs[id] \in Row
    BY DEF HandoffTypeOK, TablesTypeOK
  <2>2. CASE i # id
    BY <2>1, <2>2 DEF Decide, HandoffTypeOK, TablesTypeOK
  <2>3. CASE i = id /\ call[s].tool = "accept"
    <3>1. handoffs'[i] = [handoffs[i] EXCEPT !.state = "accepted", !.acceptedBy = call[s].actor]
      BY <2>3 DEF Decide
    <3> QED BY <3>1, <2>1, <1>1 DEF Row
  <2>4. CASE i = id /\ call[s].tool # "accept"
    <3>1. handoffs'[i] = [handoffs[i] EXCEPT !.state = "cancelled", !.cancelledBy = call[s].actor]
      BY <2>4 DEF Decide
    <3> QED BY <3>1, <2>1, <1>1 DEF Row
  <2> QED BY <2>2, <2>3, <2>4
<1>4. Grown
  BY <1>2, <1>3 DEF Grown
<1>5. TablesTypeOK'
  BY <1>2, <1>3 DEF HandoffTypeOK, TablesTypeOK
<1> QED
  BY <1>2, <1>4, <1>5

(* Rows that keep key and reference keep what relates them to contexts.    *)
LEMMA SameRowsRelate ==
    ASSUME Ids, HandoffHasContext, Grown, DOMAIN handoffs' = DOMAIN handoffs,
           DOMAIN contexts \subseteq DOMAIN contexts'
    PROVE  Ids' /\ HandoffHasContext'
  BY DEF Ids, HandoffHasContext, Grown

(* ... and after an INSERT that the unique indexes and foreign key allow.  *)
LEMMA InsertKeeps ==
    ASSUME HandoffTypeOK, Ids, HandoffHasContext, NEW s \in Servers, call[s] \in Call,
           Insertable(call[s].key, call[s].ref), UNCHANGED contexts,
           NEW row \in Row, row.key = call[s].key, row.ref = call[s].ref, row.state = "open",
           handoffs' = With(handoffs, NextId, row)
    PROVE  TablesTypeOK' /\ Ids' /\ HandoffHasContext' /\ Grown
<1>1. /\ DOMAIN handoffs' = DOMAIN handoffs \cup {NextId}
      /\ handoffs'[NextId] = row
      /\ \A id \in DOMAIN handoffs : handoffs'[id] = handoffs[id]
  BY NextIdNew DEF With
<1>2. Ids'
  BY <1>1, NextIdNew DEF Ids
<1>3. Grown
  BY <1>1 DEF Grown
<1>4. HandoffHasContext'
  <2>1. \A id \in DOMAIN handoffs : handoffs[id].key # row.key /\ handoffs[id].ref # row.ref
    BY DEF Insertable, RowsOfKey, RowsOfRef
  <2> QED BY <1>1, <2>1 DEF HandoffHasContext, Insertable
<1>5. TablesTypeOK'
  BY <1>1, NextIdNew DEF HandoffTypeOK, TablesTypeOK
<1> QED
  BY <1>2, <1>3, <1>4, <1>5

-----------------------------------------------------------------------------
(* Every step keeps the tables typed and related, and either lets the rows *)
(* grow or is a reset.                                                     *)
Reads(s) ==
    \/ PutContextCall(s) \/ BeginCall(s) \/ BeginContentCall(s) \/ AcceptCall(s) \/ CancelCall(s)
    \/ Find(s) \/ FindContext(s) \/ CheckContext(s) \/ CheckKey(s) \/ CheckRef(s)
    \/ ReadBack(s) \/ Kill(s)

(* A step keeps the tables typed, the identifiers and the context of every *)
(* handoff, and either only adds to the tables or counts one more reset.   *)
LEMMA TablesStep ==
    ASSUME HandoffTypeOK, Ids, HandoffHasContext, HandoffNext
    PROVE  /\ TablesTypeOK' /\ Ids' /\ HandoffHasContext'
           /\ (Grown /\ resets' = resets) \/ resets' = resets + 1
<1>1. ASSUME UNCHANGED <<tables, resets>>
      PROVE  /\ TablesTypeOK' /\ Ids' /\ HandoffHasContext' /\ Grown /\ resets' = resets
  BY <1>1 DEF tables, HandoffTypeOK, TablesTypeOK, Ids, HandoffHasContext, Grown
<1>2. CASE Tick
  BY <1>1, <1>2 DEF Tick, history
<1>3. ASSUME NEW s \in Servers, Reads(s) PROVE UNCHANGED <<tables, resets>>
  BY <1>3 DEF Reads, PutContextCall, BeginCall, BeginContentCall, AcceptCall, CancelCall, Begins,
     Find, FindContext, CheckContext, CheckKey, CheckRef, ReadBack, Kill, At, history
<1>4. ASSUME NEW s \in Servers, ListCall(s) \/ Refresh(s)
      PROVE  handoffs' = ExpireRows /\ UNCHANGED <<contexts, resets>>
  BY <1>4 DEF ListCall, Refresh, At
<1>5. ASSUME NEW s \in Servers, call[s].step # "idle" PROVE call[s] \in Call
  BY <1>5 DEF HandoffTypeOK, CallsTypeOK, NoCall
<1>6. ASSUME NEW s \in Servers, Update(s)
      PROVE  /\ TablesTypeOK' /\ Ids' /\ HandoffHasContext' /\ Grown /\ resets' = resets
  <2>1. call[s] \in Call /\ UNCHANGED <<contexts, resets>>
    BY <1>5, <1>6 DEF Update, At
  <2>2. CASE UNCHANGED handoffs
    BY <1>1, <2>1, <2>2 DEF tables
  <2>3. CASE call[s].row \in DOMAIN handoffs /\ Decide(s, call[s].row)
    BY <2>1, <2>3, DecideKeeps, SameRowsRelate
  <2> QED BY <1>6, <2>2, <2>3 DEF Update
<1>7. ASSUME NEW s \in Servers, InsertContext(s)
      PROVE  /\ TablesTypeOK' /\ Ids' /\ HandoffHasContext' /\ Grown /\ resets' = resets
  <2>1. call[s] \in Call /\ UNCHANGED <<handoffs, resets>>
    BY <1>5, <1>7 DEF InsertContext, At
  <2>2. CASE UNCHANGED contexts
    BY <1>1, <2>1, <2>2 DEF tables
  <2>3. CASE contexts' = With(contexts, call[s].ref, ContextRow(s, call[s].expires))
    <3>1. ContextRow(s, call[s].expires) \in [expires : Nat \cup {Never}, by : Actors]
      BY <2>1 DEF ContextRow, Call
    <3>2. /\ DOMAIN contexts' = DOMAIN contexts \cup {call[s].ref} /\ call[s].ref \in Refs
          /\ \A r \in DOMAIN contexts' : contexts'[r] \in {contexts[r], ContextRow(s, call[s].expires)}
          /\ \A r \in DOMAIN contexts' : r # call[s].ref => contexts'[r] = contexts[r]
          /\ contexts'[call[s].ref] = ContextRow(s, call[s].expires)
      BY <2>1, <2>3 DEF With, Call
    <3>3. TablesTypeOK'
      BY <2>1, <3>1, <3>2 DEF HandoffTypeOK, TablesTypeOK
    <3>4. Grown
      BY <2>1 DEF Grown
    <3> QED BY <2>1, <3>2, <3>3, <3>4, SameRowsRelate
  <2> QED BY <1>7, <2>2, <2>3 DEF InsertContext
<1>8. ASSUME NEW s \in Servers, Insert(s)
      PROVE  /\ TablesTypeOK' /\ Ids' /\ HandoffHasContext' /\ Grown /\ resets' = resets
  <2> DEFINE row == [key |-> call[s].key, ref |-> call[s].ref, owner |-> call[s].actor,
                     expires |-> call[s].expires, state |-> "open",
                     acceptedBy |-> NoActor, cancelledBy |-> NoActor]
  <2>1. call[s] \in Call /\ UNCHANGED <<contexts, resets>>
    BY <1>5, <1>8 DEF Insert, At
  <2>2. CASE UNCHANGED handoffs
    BY <1>1, <2>1, <2>2 DEF tables
  <2>3. CASE Insertable(call[s].key, call[s].ref) /\ handoffs' = With(handoffs, NextId, row)
    <3>1. /\ row \in Row /\ row.key = call[s].key /\ row.ref = call[s].ref /\ row.state = "open"
      BY <2>1 DEF Row, Call
    <3> HIDE DEF row
    <3> QED BY <2>1, <2>3, <3>1, InsertKeeps
  <2> QED BY <1>8, <2>2, <2>3 DEF Insert
<1>9. ASSUME NEW s \in Servers, ResetWorkspace(s)
      PROVE  TablesTypeOK' /\ Ids' /\ HandoffHasContext' /\ resets' = resets + 1
  <2>1. contexts' = <<>> /\ handoffs' = <<>> /\ resets' = resets + 1
    BY <1>9 DEF ResetWorkspace
  <2>2. DOMAIN contexts' = {} /\ DOMAIN handoffs' = {} /\ {} = 1..0
    BY <2>1
  <2> QED BY <2>1, <2>2 DEF TablesTypeOK, Ids, HandoffHasContext
<1> QED
  <2>1. ASSUME NEW s \in Servers, ListCall(s) \/ Refresh(s)
        PROVE  TablesTypeOK' /\ Ids' /\ HandoffHasContext' /\ Grown /\ resets' = resets
    BY <1>4, <2>1, ExpireKeeps, SameRowsRelate
  <2> QED BY <1>1, <1>2, <1>3, <1>6, <1>7, <1>8, <1>9, <2>1 DEF HandoffNext, Reads

-----------------------------------------------------------------------------
(* What an expiry is computed to be.                                       *)
LEMMA ExpiryTyped ==
    ASSUME HandoffTypeOK, NEW s \in Servers, call[s] \in Call
    PROVE  Expiry(s) \in Nat \cup {Never}
<1>1. call[s].ttl \in Nat \cup {Never} /\ now \in Nat
  BY HandoffAssumption DEF HandoffTypeOK, CallsTypeOK, Call
<1> QED
  BY <1>1 DEF Expiry

(* A step of a call under way writes a call.                               *)
LEMMA CallWrites ==
    ASSUME HandoffTypeOK, NEW s \in Servers
    PROVE  /\ call[s].step # "idle" => call[s] \in Call
           /\ Answer(s) => /\ call' \in [Servers -> Call \cup {NoCall}]
                           /\ call'[s] = NoCall
                           /\ \A t \in Servers \ {s} : call'[t] = call[t]
           /\ \A c \in Call : call' = [call EXCEPT ![s] = c] =>
                /\ call' \in [Servers -> Call \cup {NoCall}]
                /\ call'[s] = c
                /\ \A t \in Servers \ {s} : call'[t] = call[t]
  BY DEF HandoffTypeOK, CallsTypeOK, NoCall, Answer

Steps == {"refresh", "find", "update", "context", "insert_context", "begin", "key", "ref",
          "insert", "readback"}

(* ... and what else of it a step leaves alone.                            *)
LEMMA GotoWrites ==
    ASSUME HandoffTypeOK, NEW s \in Servers, call[s] \in Call, NEW step \in Steps
    PROVE  /\ Goto(s, step) =>
                /\ call' \in [Servers -> Call \cup {NoCall}]
                /\ call'[s] = [call[s] EXCEPT !.step = step]
                /\ call'[s] \in Call
                /\ \A t \in Servers \ {s} : call'[t] = call[t]
           /\ Reckon(s, step) =>
                /\ call' \in [Servers -> Call \cup {NoCall}]
                /\ call'[s] = [call[s] EXCEPT !.step = step, !.expires = Expiry(s)]
                /\ call'[s] \in Call
                /\ \A t \in Servers \ {s} : call'[t] = call[t]
<1>1. [call[s] EXCEPT !.step = step] \in Call
  BY DEF Call, Steps
<1>2. [call[s] EXCEPT !.step = step, !.expires = Expiry(s)] \in Call
  BY ExpiryTyped DEF Call, Steps
<1>3. Goto(s, step) => call' = [call EXCEPT ![s] = [call[s] EXCEPT !.step = step]]
  BY DEF Goto
<1>4. Reckon(s, step) =>
        call' = [call EXCEPT ![s] = [call[s] EXCEPT !.step = step, !.expires = Expiry(s)]]
  BY DEF Reckon
<1> QED
  BY <1>1, <1>2, <1>3, <1>4, CallWrites

(* A new call.                                                             *)
LEMMA BeginsTyped ==
    ASSUME HandoffTypeOK, NEW s \in Servers, NEW k \in HKeys, NEW r \in Refs, NEW a \in Actors,
           NEW ttl \in Ttls \cup {Never}, NEW step \in Steps,
           NEW tool \in {"put", "begin", "begin_content", "accept", "cancel"},
           Begins(s, tool, step, k, r, a, ttl)
    PROVE  /\ call' \in [Servers -> Call \cup {NoCall}] /\ calls' \in Nat
           /\ call'[s] \in Call /\ call'[s].step = step /\ call'[s].tool = tool
           /\ call'[s].resets = resets
           /\ \A id \in call'[s].late : id \in DOMAIN handoffs /\ Expired(handoffs[id].expires)
           /\ \A t \in Servers \ {s} : call'[t] = call[t]
<1> DEFINE passed == {id \in DOMAIN handoffs : Expired(handoffs[id].expires)}
           c == [tool |-> tool, step |-> step, key |-> k, ref |-> r, actor |-> a, ttl |-> ttl,
                 row |-> 0, expires |-> Never, resets |-> resets, late |-> passed]
<1>1. passed \in SUBSET Nat
  BY DEF HandoffTypeOK, TablesTypeOK
<1>2. c \in Call
  BY <1>1 DEF Call, Steps, HandoffTypeOK, CallsTypeOK
<1>3. call' = [call EXCEPT ![s] = c] /\ calls' = calls + 1
  BY DEF Begins
<1>4. c.step = step /\ c.tool = tool /\ c.resets = resets /\ c.late = passed
  OBVIOUS
<1> HIDE DEF c
<1> QED
  BY <1>2, <1>3, <1>4, CallWrites DEF HandoffTypeOK, CallsTypeOK

-----------------------------------------------------------------------------
(* What a call knows of late rows stays true while the rows grow and time  *)
(* goes on.                                                                *)
LEMMA LateKept ==
    ASSUME HandoffTypeOK, NEW s \in Servers, call[s] \in Call, LateRows(s), Grown,
           now' \in Nat, now' >= now, call'[s].late = call[s].late,
           call'[s].step = "find" => call[s].step = "find"
    PROVE  LateRows(s)'
<1>1. ASSUME NEW id \in call[s].late
      PROVE  /\ id \in DOMAIN handoffs' /\ Expired(handoffs[id].expires)'
             /\ call'[s].step = "find" => handoffs'[id].state # "open"
  <2>1. /\ id \in DOMAIN handoffs /\ Expired(handoffs[id].expires)
        /\ call[s].step = "find" => handoffs[id].state # "open"
    BY DEF LateRows
  <2>2. handoffs[id].expires \in Nat \cup {Never} /\ now \in Nat
    BY <2>1 DEF HandoffTypeOK, TablesTypeOK, CallsTypeOK, Row
  <2> QED BY <2>1, <2>2 DEF Grown, Expired
<1> QED
  BY <1>1 DEF LateRows

(* A call that another process's step, or the clock, leaves where it is.   *)
LEMMA OthersKept ==
    ASSUME HandoffTypeOK, NEW t \in Servers, CallSafe(t), call'[t] = call[t],
           now' \in Nat, now' >= now, (Grown /\ resets' = resets) \/ resets' = resets + 1
    PROVE  CallSafe(t)'
<1>1. CASE call[t].step = "idle"
  BY <1>1 DEF CallSafe
<1>2. CASE call[t].step # "idle"
  <2>1. call[t] \in Call /\ call[t].resets \in Nat /\ resets \in Nat
    BY <1>2, CallWrites DEF Call, HandoffTypeOK, CallsTypeOK
  <2>2. ToolSafe(t)' /\ call'[t].resets <= resets'
    BY <1>2, <2>1 DEF CallSafe, ToolSafe
  <2>3. ASSUME call'[t].resets = resets' PROVE LateRows(t)' /\ RowSafe(t)'
    <3>1. Grown /\ resets' = resets /\ LateRows(t) /\ RowSafe(t)
      BY <1>2, <2>1, <2>3 DEF CallSafe
    <3>2. LateRows(t)'
      BY <2>1, <3>1, LateKept
    <3>3. RowSafe(t)'
      BY <3>1 DEF RowSafe, Grown
    <3> QED BY <3>2, <3>3
  <2> QED BY <2>2, <2>3 DEF CallSafe
<1> QED
  BY <1>1, <1>2

(* A step that moves its own call on, by Goto or Reckon.                   *)
LEMMA MovedOn ==
    ASSUME HandoffTypeOK, NEW s \in Servers, call[s] \in Call, CallSafe(s),
           Grown, resets' = resets, now' = now,
           NEW step \in Steps, Goto(s, step) \/ Reckon(s, step)
    PROVE  /\ call' \in [Servers -> Call \cup {NoCall}]
           /\ \A t \in Servers \ {s} : call'[t] = call[t]
           /\ call'[s] \in Call /\ call'[s].step = step
           /\ call'[s].tool = call[s].tool /\ call'[s].key = call[s].key
           /\ call'[s].ref = call[s].ref /\ call'[s].actor = call[s].actor
           /\ call'[s].row = call[s].row /\ call'[s].resets = call[s].resets
           /\ call'[s].late = call[s].late
           /\ call'[s].resets <= resets'
           /\ (call'[s].resets = resets' /\ step # "find") => LateRows(s)'
<1>1. /\ call' \in [Servers -> Call \cup {NoCall}]
      /\ \A t \in Servers \ {s} : call'[t] = call[t]
      /\ call'[s] \in Call
      /\ \/ call'[s] = [call[s] EXCEPT !.step = step]
         \/ call'[s] = [call[s] EXCEPT !.step = step, !.expires = Expiry(s)]
  BY GotoWrites
<1>2. /\ call'[s].step = step
      /\ call'[s].tool = call[s].tool /\ call'[s].key = call[s].key
      /\ call'[s].ref = call[s].ref /\ call'[s].actor = call[s].actor
      /\ call'[s].row = call[s].row /\ call'[s].resets = call[s].resets
      /\ call'[s].late = call[s].late
  BY <1>1 DEF Call
<1>3. call[s].step # "idle"
  BY DEF Call
<1>4. now \in Nat
  BY DEF HandoffTypeOK, CallsTypeOK
<1>5. ASSUME call'[s].resets = resets', step # "find" PROVE LateRows(s)'
  <2>1. LateRows(s)
    BY <1>2, <1>3, <1>5 DEF CallSafe
  <2> QED BY <1>2, <1>4, <1>5, <2>1, LateKept
<1> QED
  BY <1>1, <1>2, <1>3, <1>5 DEF CallSafe

-----------------------------------------------------------------------------
(* A step of a call leaves that call safe, and all others where they are.  *)
CallMoved(s) ==
    /\ call' \in [Servers -> Call \cup {NoCall}]
    /\ \A t \in Servers \ {s} : call'[t] = call[t]
    /\ CallSafe(s)'

Acts(s) ==
    \/ ListCall(s) \/ Refresh(s) \/ Update(s) \/ InsertContext(s) \/ Insert(s)
    \/ ResetWorkspace(s) \/ Reads(s)

(* A step of a call keeps what holds of that call and leaves the clock     *)
(* alone.                                                                  *)
LEMMA CallStep ==
    ASSUME HandoffSafe, HandoffNext, NEW s \in Servers, Acts(s)
    PROVE  CallMoved(s) /\ now' = now /\ calls' \in Nat
<1>1. HandoffTypeOK /\ Ids /\ HandoffHasContext /\ CallSafe(s) /\ calls \in Nat /\ resets \in Nat
  BY DEF HandoffSafe, HandoffTypeOK, CallsTypeOK
<1>2. resets' = resets => Grown
  BY <1>1, TablesStep
<1>3. call[s].step # "idle" => call[s] \in Call
  BY <1>1, CallWrites
<1>4. ASSUME Answer(s) PROVE CallMoved(s)
  BY <1>1, <1>4, CallWrites DEF CallMoved, CallSafe, NoCall
<1>5. ASSUME UNCHANGED call, call[s].step = "idle" PROVE CallMoved(s)
  BY <1>1, <1>5 DEF CallMoved, CallSafe, HandoffTypeOK, CallsTypeOK
<1>6. ASSUME NEW k \in HKeys, NEW r \in Refs, NEW a \in Actors, NEW ttl \in Ttls \cup {Never},
             NEW step \in {"context", "begin", "refresh"},
             NEW tool \in {"put", "begin", "begin_content", "accept", "cancel"},
             step = "begin" => tool = "begin",
             step = "refresh" => tool \in {"begin_content", "accept", "cancel"},
             Begins(s, tool, step, k, r, a, ttl)
      PROVE  CallMoved(s) /\ now' = now /\ calls' \in Nat
  <2>1. step \in Steps
    BY DEF Steps
  <2>2. /\ call' \in [Servers -> Call \cup {NoCall}] /\ calls' \in Nat
        /\ call'[s] \in Call /\ call'[s].step = step /\ call'[s].tool = tool
        /\ call'[s].resets = resets
        /\ \A id \in call'[s].late : id \in DOMAIN handoffs /\ Expired(handoffs[id].expires)
        /\ \A t \in Servers \ {s} : call'[t] = call[t]
    BY <1>1, <1>6, <2>1, BeginsTyped
  <2>3. handoffs' = handoffs /\ now' = now /\ resets' = resets
    BY <1>6 DEF Begins, tables, history
  <2>4. ToolSafe(s)' /\ RowSafe(s)'
    BY <1>6, <2>2 DEF ToolSafe, RowSafe
  <2>5. LateRows(s)'
    BY <1>6, <2>2, <2>3 DEF LateRows, Expired
  <2>6. call'[s].resets <= resets'
    BY <1>1, <2>2, <2>3
  <2> QED BY <2>2, <2>3, <2>4, <2>5, <2>6 DEF CallMoved, CallSafe
<1>7. ASSUME NEW step \in Steps \ {"refresh", "find", "update", "readback"},
             call[s].step # "idle", resets' = resets, now' = now,
             step \in {"begin", "key", "ref", "insert"} => call[s].tool \in {"begin", "begin_content"},
             Goto(s, step) \/ Reckon(s, step)
      PROVE  CallMoved(s)
  <2>1. /\ call' \in [Servers -> Call \cup {NoCall}]
        /\ \A t \in Servers \ {s} : call'[t] = call[t]
        /\ call'[s].step = step /\ call'[s].tool = call[s].tool
        /\ call'[s].resets <= resets'
        /\ call'[s].resets = resets' => LateRows(s)'
    BY <1>1, <1>2, <1>3, <1>7, MovedOn
  <2>2. ToolSafe(s)' /\ RowSafe(s)'
    BY <1>7, <2>1 DEF ToolSafe, RowSafe
  <2> QED BY <2>1, <2>2 DEF CallMoved, CallSafe
<1>8. CASE ListCall(s)
  BY <1>1, <1>5, <1>8 DEF ListCall, At
<1>9. CASE ResetWorkspace(s)
  BY <1>1, <1>5, <1>9 DEF ResetWorkspace
<1>10. CASE Kill(s)
  BY <1>1, <1>4, <1>10 DEF Kill
<1>11. CASE PutContextCall(s) \/ BeginCall(s)
  BY <1>6, <1>11 DEF PutContextCall, BeginCall
<1>12. CASE BeginContentCall(s) \/ AcceptCall(s) \/ CancelCall(s)
  BY <1>6, <1>12, HandoffAssumption DEF BeginContentCall, AcceptCall, CancelCall
<1>13. CASE FindContext(s) \/ InsertContext(s)
  <2>1. /\ call[s].step # "idle" /\ resets' = resets /\ now' = now /\ calls' = calls
        /\ \/ Answer(s)
           \/ Reckon(s, "insert_context")
           \/ Goto(s, "begin") /\ call[s].tool = "begin_content"
    BY <1>13 DEF FindContext, InsertContext, At
  <2> QED BY <1>1, <1>4, <1>7, <2>1 DEF Steps
<1>14. CASE CheckContext(s) \/ CheckKey(s) \/ CheckRef(s)
  <2>1. /\ call[s].step \in {"begin", "key", "ref"}
        /\ resets' = resets /\ now' = now /\ calls' = calls
        /\ Answer(s) \/ Goto(s, "key") \/ Reckon(s, "ref") \/ Goto(s, "insert")
    BY <1>14 DEF CheckContext, CheckKey, CheckRef, At
  <2>2. call[s].tool \in {"begin", "begin_content"}
    BY <1>1, <2>1 DEF CallSafe, ToolSafe
  <2> QED BY <1>1, <1>4, <1>7, <2>1, <2>2 DEF Steps
<1>15. CASE ReadBack(s)
  BY <1>1, <1>4, <1>15 DEF ReadBack, At
<1>16. CASE Refresh(s)
  <2>1. /\ call[s].step = "refresh" /\ resets' = resets /\ now' = now /\ calls' = calls
        /\ Goto(s, "find") /\ handoffs' = ExpireRows /\ UNCHANGED contexts
    BY <1>16 DEF Refresh, At
  <2>2. /\ call' \in [Servers -> Call \cup {NoCall}]
        /\ \A t \in Servers \ {s} : call'[t] = call[t]
        /\ call'[s].step = "find" /\ call'[s].tool = call[s].tool
        /\ call'[s].late = call[s].late /\ call'[s].resets = call[s].resets
        /\ call'[s].resets <= resets'
    BY <1>1, <1>2, <1>3, <2>1, MovedOn DEF Steps
  <2>3. ToolSafe(s)' /\ RowSafe(s)'
    BY <1>1, <2>1, <2>2 DEF CallSafe, ToolSafe, RowSafe
  <2>4. ASSUME call'[s].resets = resets' PROVE LateRows(s)'
    <3>1. LateRows(s)
      BY <1>1, <2>1, <2>2, <2>4 DEF CallSafe
    <3>2. ASSUME NEW id \in call[s].late
          PROVE  id \in DOMAIN handoffs' /\ Expired(handoffs[id].expires)'
                 /\ handoffs'[id].state # "open"
      <4>1. id \in DOMAIN handoffs /\ Expired(handoffs[id].expires)
        BY <3>1 DEF LateRows
      <4>2. /\ Grown /\ DOMAIN handoffs' = DOMAIN handoffs /\ handoffs'[id].state # "open"
        BY <1>1, <2>1, <4>1, ExpireKeeps
      <4> QED BY <2>1, <4>1, <4>2 DEF Grown, Expired
    <3> QED BY <2>2, <3>2 DEF LateRows
  <2> QED BY <1>1, <2>1, <2>2, <2>3, <2>4 DEF CallMoved, CallSafe
<1>17. CASE Find(s)
  <2>1. call[s].step = "find" /\ resets' = resets /\ now' = now /\ calls' = calls
    BY <1>17 DEF Find, At
  <2>2. CASE Answer(s)
    BY <1>1, <1>4, <2>1, <2>2
  <2>3. CASE Goto(s, "context")
    BY <1>1, <1>7, <2>1, <2>3 DEF Steps
  <2>4. ASSUME NEW id \in RowsOfKey(call[s].key), handoffs[id].state = "open",
               call[s].tool # "begin_content",
               call' = [call EXCEPT ![s].step = "update", ![s].row = id], UNCHANGED handoffs
        PROVE  CallMoved(s)
    <3> DEFINE c == [call[s] EXCEPT !.step = "update", !.row = id]
    <3>1. call[s] \in Call /\ id \in Nat
      BY <1>1, <1>3, <2>1 DEF RowsOfKey, HandoffTypeOK, TablesTypeOK
    <3>2. /\ c \in Call /\ c.step = "update" /\ c.row = id /\ c.tool = call[s].tool
          /\ c.key = call[s].key /\ c.late = call[s].late /\ c.resets = call[s].resets
      BY <3>1 DEF Call
    <3>3. call' = [call EXCEPT ![s] = c]
      BY <2>4
    <3> HIDE DEF c
    <3>4. /\ call' \in [Servers -> Call \cup {NoCall}] /\ call'[s] = c
          /\ \A t \in Servers \ {s} : call'[t] = call[t]
      BY <1>1, <3>2, <3>3, CallWrites
    <3>5. ToolSafe(s)' /\ c.resets <= resets'
      BY <1>1, <2>1, <2>4, <3>2, <3>4 DEF CallSafe, ToolSafe
    <3>6. ASSUME c.resets = resets' PROVE LateRows(s)' /\ RowSafe(s)'
      <4>1. LateRows(s) /\ id \notin call[s].late
        BY <1>1, <2>1, <2>4, <3>2, <3>6 DEF CallSafe, LateRows
      <4>2. LateRows(s)'
        BY <1>1, <1>2, <2>1, <3>1, <3>2, <3>4, <4>1, LateKept DEF HandoffTypeOK, CallsTypeOK
      <4>3. RowSafe(s)'
        BY <2>4, <3>2, <3>4, <4>1 DEF RowSafe, RowsOfKey
      <4> QED BY <4>2, <4>3
    <3> QED BY <3>4, <3>5, <3>6 DEF CallMoved, CallSafe
  <2>5. /\ UNCHANGED handoffs
        /\ \/ Answer(s)
           \/ Goto(s, "context")
           \/ \E id \in RowsOfKey(call[s].key) :
                /\ handoffs[id].state = "open" /\ call[s].tool # "begin_content"
                /\ call' = [call EXCEPT ![s].step = "update", ![s].row = id]
    BY <1>17 DEF Find, tables
  <2>6. CallMoved(s)
    BY Zenon, <2>2, <2>3, <2>4, <2>5
  <2> QED BY <1>1, <2>1, <2>6
<1>18. CASE Update(s)
  <2>1. /\ call[s].step = "update" /\ resets' = resets /\ now' = now /\ calls' = calls
        /\ Goto(s, "readback")
    BY <1>18 DEF Update, At
  <2>2. /\ call' \in [Servers -> Call \cup {NoCall}]
        /\ \A t \in Servers \ {s} : call'[t] = call[t]
        /\ call'[s].step = "readback" /\ call'[s].tool = call[s].tool
        /\ call'[s].key = call[s].key
        /\ call'[s].late = call[s].late /\ call'[s].resets = call[s].resets
        /\ call'[s].resets <= resets'
        /\ call'[s].resets = resets' => LateRows(s)'
    BY <1>1, <1>2, <1>3, <2>1, MovedOn DEF Steps
  <2>3. call[s].tool \in {"accept", "cancel"} /\ ToolSafe(s)'
    BY <1>1, <2>1, <2>2 DEF CallSafe, ToolSafe
  <2>4. ASSUME call'[s].resets = resets' PROVE RowSafe(s)'
    <3>1. /\ call[s].row \in DOMAIN handoffs /\ handoffs[call[s].row].key = call[s].key
          /\ call[s].row \notin call[s].late
      BY <1>1, <2>1, <2>2, <2>4 DEF CallSafe, RowSafe
    <3> QED BY <1>2, <2>1, <2>2, <2>3, <3>1 DEF RowSafe, Grown
  <2> QED BY <1>1, <2>1, <2>2, <2>3, <2>4 DEF CallMoved, CallSafe
<1>19. CASE Insert(s)
  <2>1. /\ call[s].step = "insert" /\ resets' = resets /\ now' = now /\ calls' = calls
        /\ call[s].tool \in {"begin", "begin_content"}
    BY <1>1, <1>19 DEF Insert, At, CallSafe, ToolSafe
  <2>2. CASE Answer(s)
    BY <1>1, <1>4, <2>1, <2>2
  <2>3. CASE Goto(s, "readback") /\ ~Answer(s)
    <3>1. /\ call' \in [Servers -> Call \cup {NoCall}]
          /\ \A t \in Servers \ {s} : call'[t] = call[t]
          /\ call'[s].step = "readback" /\ call'[s].tool = call[s].tool
          /\ call'[s].key = call[s].key
          /\ call'[s].ref = call[s].ref /\ call'[s].actor = call[s].actor
          /\ call'[s].resets <= resets'
          /\ call'[s].resets = resets' => LateRows(s)'
      BY <1>1, <1>2, <1>3, <2>1, <2>3, MovedOn DEF Steps
    <3>2. /\ NextId \in DOMAIN handoffs' /\ handoffs'[NextId].key = call[s].key
          /\ handoffs'[NextId].ref = call[s].ref /\ handoffs'[NextId].owner = call[s].actor
      BY <1>19, <2>3 DEF Insert, With
    <3>3. ToolSafe(s)' /\ RowSafe(s)'
      BY <2>1, <3>1, <3>2 DEF ToolSafe, RowSafe
    <3> QED BY <3>1, <3>3, <1>1, <2>1 DEF CallMoved, CallSafe
  <2> QED BY <1>19, <2>2, <2>3 DEF Insert
<1> QED
  BY <1>8, <1>9, <1>10, <1>11, <1>12, <1>13, <1>14, <1>15, <1>16, <1>17, <1>18, <1>19 DEF Acts, Reads

-----------------------------------------------------------------------------
(* What a step tells its caller keeps the histories right.                 *)
LEMMA HistoryStep ==
    ASSUME HandoffSafe, NEW s \in Servers, Acts(s)
    PROVE  ClaimsAreTimely' /\ BeginHonoured'
<1>1. /\ HandoffTypeOK /\ HandoffHasContext /\ CallSafe(s)
      /\ ClaimsAreTimely /\ BeginHonoured
  BY DEF HandoffSafe
<1>2. ASSUME UNCHANGED <<claims, begun>> PROVE ClaimsAreTimely' /\ BeginHonoured'
  BY <1>1, <1>2 DEF ClaimsAreTimely, BeginHonoured
<1>3. ASSUME NEW id \in DOMAIN handoffs, Begun(s, id),
             call[s].resets = resets => /\ handoffs[id].ref = call[s].ref
                                        /\ handoffs[id].owner = call[s].actor
      PROVE  BeginHonoured'
  <2> DEFINE told == [asked |-> <<call[s].ref, call[s].actor>>,
                      got |-> <<handoffs[id].ref, handoffs[id].owner>>,
                      undisturbed |-> resets = call[s].resets]
  <2>1. begun' = begun \cup {told}
    BY <1>3 DEF Begun
  <2>2. told.undisturbed => told.asked = told.got
    BY <1>3
  <2> HIDE DEF told
  <2> QED BY <1>1, <2>1, <2>2 DEF BeginHonoured
<1>4. CASE CheckKey(s)
  <2>1. ASSUME NEW id \in RowsOfKey(call[s].key), Same(handoffs[id], call[s]), Begun(s, id)
        PROVE  BeginHonoured'
    BY <1>3, <2>1 DEF RowsOfKey, Same
  <2>2. UNCHANGED claims
    BY <1>4 DEF CheckKey
  <2>3. ClaimsAreTimely'
    BY <1>1, <2>2 DEF ClaimsAreTimely
  <2>4. BeginHonoured'
    BY <1>1, <1>4, <2>1 DEF CheckKey, BeginHonoured
  <2> QED BY <2>3, <2>4
<1>5. CASE ReadBack(s)
  <2>1. call[s].step = "readback" /\ resets' = resets
    BY <1>5 DEF ReadBack, At
  <2>2. CASE UNCHANGED <<claims, begun>>
    BY <1>2, <2>2
  <2>3. ASSUME NEW id \in RowsOfKey(call[s].key),
               call[s].tool \in {"begin", "begin_content"}, Begun(s, id), UNCHANGED claims
        PROVE  ClaimsAreTimely' /\ BeginHonoured'
    <3>1. ASSUME call[s].resets = resets
          PROVE  handoffs[id].ref = call[s].ref /\ handoffs[id].owner = call[s].actor
      <4>1. PICK own \in DOMAIN handoffs :
              /\ handoffs[own].key = call[s].key /\ handoffs[own].ref = call[s].ref
              /\ handoffs[own].owner = call[s].actor
        BY <1>1, <2>1, <2>3, <3>1 DEF CallSafe, RowSafe
      <4>2. own = id
        BY <1>1, <4>1 DEF HandoffHasContext, RowsOfKey
      <4> QED BY <4>1, <4>2
    <3> QED BY <1>1, <1>3, <2>3, <3>1 DEF RowsOfKey, ClaimsAreTimely
  <2>4. ASSUME NEW id \in RowsOfKey(call[s].key), call[s].tool = "accept", UNCHANGED begun,
               claims' = claims \cup {[key |-> handoffs[id].key, resets |-> resets,
                                       actor |-> call[s].actor,
                                       late |-> /\ id \in call[s].late
                                                /\ resets = call[s].resets]}
        PROVE  ClaimsAreTimely' /\ BeginHonoured'
    <3>1. ASSUME call[s].resets = resets PROVE id \notin call[s].late
      <4>1. PICK own \in DOMAIN handoffs :
              handoffs[own].key = call[s].key /\ own \notin call[s].late
        BY <1>1, <2>1, <2>4, <3>1 DEF CallSafe, RowSafe
      <4>2. own = id
        BY <1>1, <4>1 DEF HandoffHasContext, RowsOfKey
      <4> QED BY <4>1, <4>2
    <3> QED BY <1>1, <2>4, <3>1 DEF ClaimsAreTimely, BeginHonoured
  <2>5. \/ UNCHANGED <<claims, begun>>
        \/ \E id \in RowsOfKey(call[s].key) :
             /\ call[s].tool \in {"begin", "begin_content"}
             /\ Begun(s, id) /\ UNCHANGED claims
        \/ \E id \in RowsOfKey(call[s].key) :
             /\ call[s].tool = "accept" /\ UNCHANGED begun
             /\ claims' = claims \cup {[key |-> handoffs[id].key, resets |-> resets,
                                        actor |-> call[s].actor,
                                        late |-> /\ id \in call[s].late
                                                 /\ resets = call[s].resets]}
    BY <1>5 DEF ReadBack
  <2>6. ASSUME \E id \in RowsOfKey(call[s].key) :
                 /\ call[s].tool \in {"begin", "begin_content"}
                 /\ Begun(s, id) /\ UNCHANGED claims
        PROVE  ClaimsAreTimely' /\ BeginHonoured'
    BY <2>3, <2>6
  <2>7. ASSUME \E id \in RowsOfKey(call[s].key) :
                 /\ call[s].tool = "accept" /\ UNCHANGED begun
                 /\ claims' = claims \cup {[key |-> handoffs[id].key, resets |-> resets,
                                            actor |-> call[s].actor,
                                            late |-> /\ id \in call[s].late
                                                     /\ resets = call[s].resets]}
        PROVE  ClaimsAreTimely' /\ BeginHonoured'
    BY <2>4, <2>7
  <2> QED BY <2>2, <2>5, <2>6, <2>7
<1>6. ASSUME Acts(s), ~CheckKey(s), ~ReadBack(s) PROVE UNCHANGED <<claims, begun>>
  BY <1>6 DEF Acts, Reads, ListCall, Refresh, Update, InsertContext, Insert, ResetWorkspace,
     PutContextCall, BeginCall, BeginContentCall, AcceptCall, CancelCall, Begins,
     Find, FindContext, CheckContext, CheckRef, Kill, history
<1> QED
  BY <1>2, <1>4, <1>5, <1>6

(* Every step keeps the invariant.                                         *)
LEMMA HandoffStep ==
    ASSUME HandoffSafe, [HandoffNext]_handoffVars
    PROVE  HandoffSafe'
<1>1. /\ HandoffTypeOK /\ Ids /\ HandoffHasContext /\ \A t \in Servers : CallSafe(t)
      /\ ClaimsAreTimely /\ BeginHonoured
      /\ now \in Nat /\ calls \in Nat /\ resets \in Nat
      /\ call \in [Servers -> Call \cup {NoCall}]
  BY DEF HandoffSafe, HandoffTypeOK, CallsTypeOK
<1>2. CASE UNCHANGED handoffVars
  BY <1>1, <1>2 DEF handoffVars, tables, history, HandoffSafe, HandoffTypeOK, TablesTypeOK,
     CallsTypeOK, Ids, HandoffHasContext, CallSafe, ToolSafe, LateRows, RowSafe, Expired,
     ClaimsAreTimely, BeginHonoured
<1>3. CASE HandoffNext
  <2>1. /\ TablesTypeOK' /\ Ids' /\ HandoffHasContext'
        /\ (Grown /\ resets' = resets) \/ resets' = resets + 1
    BY <1>1, <1>3, TablesStep
  <2>2. resets' \in Nat
    BY <1>1, <2>1
  <2>3. CASE Tick
    <3>1. now' \in Nat /\ now' >= now /\ UNCHANGED <<call, calls, claims, begun>>
      BY <1>1, <2>3 DEF Tick, history
    <3>2. \A t \in Servers : CallSafe(t)'
      BY <1>1, <2>1, <3>1, OthersKept
    <3> QED BY <1>1, <2>1, <2>2, <3>1, <3>2
            DEF HandoffSafe, HandoffTypeOK, CallsTypeOK, ClaimsAreTimely, BeginHonoured
  <2>4. ASSUME NEW s \in Servers, Acts(s) PROVE HandoffSafe'
    <3>1. CallMoved(s) /\ now' = now /\ calls' \in Nat
      BY <1>3, <2>4, CallStep
    <3>2. now' \in Nat /\ now' >= now
      BY <1>1, <3>1
    <3>3. ASSUME NEW t \in Servers PROVE CallSafe(t)'
      <4>1. CASE t = s
        BY <3>1, <4>1 DEF CallMoved
      <4>2. CASE t # s
        BY <1>1, <2>1, <3>1, <3>2, <4>2, OthersKept DEF CallMoved
      <4> QED BY <4>1, <4>2
    <3>4. ClaimsAreTimely' /\ BeginHonoured'
      BY <2>4, HistoryStep
    <3> QED BY <2>1, <2>2, <3>1, <3>2, <3>3, <3>4
            DEF HandoffSafe, HandoffTypeOK, CallsTypeOK, CallMoved
  <2> QED BY <1>3, <2>3, <2>4 DEF HandoffNext, Acts, Reads
<1> QED
  BY <1>2, <1>3

(* The empty tables.                                                       *)
LEMMA HandoffInitSafe == HandoffInit => HandoffSafe
<1> SUFFICES ASSUME HandoffInit PROVE HandoffSafe
  OBVIOUS
<1>1. DOMAIN contexts = {} /\ DOMAIN handoffs = {} /\ {} = 1..0
  BY DEF HandoffInit
<1>2. HandoffTypeOK
  BY <1>1 DEF HandoffInit, HandoffTypeOK, TablesTypeOK, CallsTypeOK
<1>3. Ids /\ HandoffHasContext
  BY <1>1 DEF Ids, HandoffHasContext
<1>4. \A s \in Servers : CallSafe(s)
  BY DEF HandoffInit, CallSafe, NoCall
<1>5. ClaimsAreTimely /\ BeginHonoured
  BY DEF HandoffInit, ClaimsAreTimely, BeginHonoured
<1> QED
  BY <1>2, <1>3, <1>4, <1>5 DEF HandoffSafe

-----------------------------------------------------------------------------
(* The invariant holds in every reachable state.                           *)
THEOREM HandoffSafeCorrect == HandoffSpec => []HandoffSafe
<1> QED
  BY HandoffInitSafe, HandoffStep, PTL DEF HandoffSpec

(* The tables and calls always have their types.                           *)
THEOREM HandoffTypeCorrect == HandoffSpec => []HandoffTypeOK
<1>1. HandoffSafe => HandoffTypeOK
  BY DEF HandoffSafe
<1> QED
  BY <1>1, HandoffSafeCorrect, PTL

(* No expired row is handed out to a call that came after its expiry.      *)
THEOREM ClaimsAreTimelyCorrect == HandoffSpec => []ClaimsAreTimely
<1>1. HandoffSafe => ClaimsAreTimely
  BY DEF HandoffSafe
<1> QED
  BY <1>1, HandoffSafeCorrect, PTL

(* A begin that is not disturbed answers with what was asked for.          *)
THEOREM BeginHonouredCorrect == HandoffSpec => []BeginHonoured
<1>1. HandoffSafe => BeginHonoured
  BY DEF HandoffSafe
<1> QED
  BY <1>1, HandoffSafeCorrect, PTL

(***************************************************************************)
(* Facts, graphs, diagnoses and long texts read.                           *)
(***************************************************************************)
-----------------------------------------------------------------------------
(* Lists.                                                                  *)

(* What a list has after it was cut, shortened or extended.                *)
LEMMA CutList ==
    ASSUME NEW S, NEW s \in Seq(S), NEW n \in Nat
    PROVE  /\ First(s, n) \in Seq(S) /\ Elements(First(s, n)) \subseteq Elements(s)
           /\ Len(First(s, n)) = IF n < Len(s) THEN n ELSE Len(s)
           /\ Len(s) <= n => First(s, n) = s
<1> DEFINE m == IF n < Len(s) THEN n ELSE Len(s)
<1>1. Len(s) \in Nat /\ m \in Nat /\ m <= Len(s) /\ DOMAIN s = 1..Len(s)
  OBVIOUS
<1>2. First(s, n) = SubSeq(s, 1, m)
  BY DEF First
<1> HIDE DEF m
<1>3. \A i \in 1..m : s[i] \in S
  BY <1>1
<1>4. /\ SubSeq(s, 1, m) \in Seq(S) /\ Len(SubSeq(s, 1, m)) = m
      /\ \A i \in 1..m : SubSeq(s, 1, m)[i] = s[i]
  BY <1>1, <1>3, SubSeqProperties
<1>5. Elements(First(s, n)) \subseteq Elements(s)
  BY <1>1, <1>2, <1>4 DEF Elements
<1>6. ASSUME Len(s) <= n PROVE m = Len(s)
  <2>1. Len(s) \in Nat
    BY LenProperties
  <2>2. ~(n < Len(s))
    BY <1>6, <2>1
  <2> QED BY <2>2 DEF m
<1>7. Len(s) <= n => First(s, n) = s
  BY <1>6, <1>2, SubSeqFull
<1> QED
  BY <1>2, <1>4, <1>5, <1>7 DEF m

(* What a list has without its first member.                               *)
LEMMA ShortenedList ==
    ASSUME NEW S, NEW s \in Seq(S), s # <<>>
    PROVE  /\ Tail(s) \in Seq(S) /\ s[1] \in S /\ s[1] \in Elements(s)
           /\ Elements(Tail(s)) \subseteq Elements(s)
           /\ Elements(s) = {s[1]} \cup Elements(Tail(s))
<1>1. Len(s) \in Nat \ {0} /\ DOMAIN s = 1..Len(s) /\ s[1] \in S
  OBVIOUS
<1>2. /\ Tail(s) \in Seq(S) /\ Len(Tail(s)) = Len(s) - 1
      /\ \A i \in 1..Len(Tail(s)) : Tail(s)[i] = s[i + 1]
  BY HeadTailProperties
<1>3. DOMAIN Tail(s) = 1..(Len(s) - 1)
  BY <1>2
<1>4. Elements(Tail(s)) \subseteq Elements(s)
  BY <1>1, <1>2, <1>3 DEF Elements
<1>5. ASSUME NEW x \in Elements(s), x # s[1] PROVE x \in Elements(Tail(s))
  <2>1. PICK i \in 1..Len(s) : x = s[i]
    BY <1>1 DEF Elements
  <2>2. i - 1 \in 1..(Len(s) - 1) /\ (i - 1) + 1 = i
    BY <1>5, <2>1, <1>1
  <2>3. x = Tail(s)[i - 1]
    BY <2>1, <2>2, <1>2
  <2> QED BY <2>2, <2>3, <1>3 DEF Elements
<1>6. s[1] \in Elements(s)
  BY <1>1 DEF Elements
<1> QED
  BY <1>1, <1>2, <1>4, <1>5, <1>6

(* What a list has with one more at its end.                               *)
LEMMA ExtendedList ==
    ASSUME NEW S, NEW s \in Seq(S), NEW x \in S
    PROVE  Append(s, x) \in Seq(S) /\ Elements(Append(s, x)) = Elements(s) \cup {x}
<1> DEFINE t == Append(s, x)
<1>1. /\ t \in Seq(S) /\ Len(t) = Len(s) + 1 /\ Len(s) \in Nat
      /\ \A i \in 1..Len(s) : t[i] = s[i]
      /\ t[Len(s) + 1] = x
  BY AppendProperties
<1> HIDE DEF t
<1>2. DOMAIN t = 1..(Len(s) + 1) /\ DOMAIN s = 1..Len(s)
  BY <1>1
<1>3. Elements(t) \subseteq Elements(s) \cup {x}
  <2> SUFFICES ASSUME NEW i \in 1..(Len(s) + 1) PROVE t[i] \in Elements(s) \cup {x}
    BY <1>2 DEF Elements
  <2>1. i \in 1..Len(s) \/ i = Len(s) + 1
    BY <1>1
  <2> QED BY <2>1, <1>1, <1>2 DEF Elements
<1>4. Elements(s) \cup {x} \subseteq Elements(t)
  <2>1. \A i \in 1..Len(s) : i \in 1..(Len(s) + 1)
    BY <1>1
  <2>2. Len(s) + 1 \in 1..(Len(s) + 1)
    BY <1>1
  <2> QED BY <1>1, <1>2, <2>1, <2>2 DEF Elements
<1> QED
  BY <1>1, <1>3, <1>4 DEF t

(* The members of a list of members of S.                                  *)
LEMMA ElementsOfSeq ==
    ASSUME NEW S, NEW s \in Seq(S)
    PROVE  Elements(s) \subseteq S /\ IsFiniteSet(Elements(s)) /\ (Elements(s) = {} <=> s = <<>>)
<1>1. Len(s) \in Nat /\ DOMAIN s = 1..Len(s) /\ \A i \in 1..Len(s) : s[i] \in S
  OBVIOUS
<1>2. s \in Surjection(1..Len(s), Elements(s))
  BY <1>1 DEF Surjection, Elements
<1>3. IsFiniteSet(1..Len(s))
  BY <1>1, FS_Interval
<1>4. IsFiniteSet(Elements(s))
  BY <1>2, <1>3, FS_Surjection
<1>5. ASSUME s # <<>> PROVE Elements(s) # {}
  <2>1. 1 \in 1..Len(s)
    BY <1>5, EmptySeq
  <2> QED BY <2>1, <1>1 DEF Elements
<1>6. s = <<>> => Elements(s) = {}
  BY DEF Elements
<1> QED
  BY <1>1, <1>4, <1>5, <1>6 DEF Elements

-----------------------------------------------------------------------------
(* Order.                                                                  *)

(* before puts the members of S in one order.                              *)
Orders(before, S) ==
    /\ \A x \in S : <<x, x>> \notin before
    /\ \A x, y \in S : x = y \/ <<x, y>> \in before \/ <<y, x>> \in before
    /\ \A x, y, z \in S : <<x, y>> \in before /\ <<y, z>> \in before => <<x, z>> \in before

Increasing(s, n, before) ==
    \A i, j \in 1..n : i < j => <<s[i], s[j]>> \in before
Lists(s, n, T) == s \in [1..n -> T] /\ \A x \in T : \E i \in 1..n : s[i] = x

(* A member is put behind those that come before it.                       *)
LEMMA PutBehind ==
    ASSUME NEW before, NEW T, NEW m \in T, NEW n \in Nat, NEW s,
           Lists(s, n, T \ {m}), Increasing(s, n, before),
           \A x \in T \ {m} : <<x, m>> \in before
    PROVE  \E t : Lists(t, n + 1, T) /\ Increasing(t, n + 1, before)
<1> DEFINE t == [i \in 1..(n + 1) |-> IF i = n + 1 THEN m ELSE s[i]]
<1>0. \A i \in 1..(n + 1) : i # n + 1 => i \in 1..n
  OBVIOUS
<1>1. \A i \in 1..n : i \in 1..(n + 1) /\ i # n + 1 /\ t[i] = s[i] /\ s[i] \in T \ {m}
  BY DEF Lists
<1>2. n + 1 \in 1..(n + 1) /\ t[n + 1] = m
  OBVIOUS
<1>3. t \in [1..(n + 1) -> T]
  BY <1>0, <1>1
<1> HIDE DEF t
<1>4. \A x \in T : \E i \in 1..(n + 1) : t[i] = x
  BY <1>1, <1>2 DEF Lists
<1>5. ASSUME NEW i \in 1..(n + 1), NEW j \in 1..(n + 1), i < j
      PROVE  <<t[i], t[j]>> \in before
  <2>1. i \in 1..n
    BY <1>5
  <2>2. CASE j = n + 1
    BY <2>1, <2>2, <1>1, <1>2
  <2>3. CASE j # n + 1
    BY <2>1, <2>3, <1>0, <1>1, <1>5 DEF Increasing
  <2> QED BY <2>2, <2>3
<1> QED
  BY <1>3, <1>4, <1>5 DEF Lists, Increasing

(* A finite set has a list in that order.                                  *)
LEMMA OrderedListExists ==
    ASSUME NEW S, IsFiniteSet(S), NEW before, Orders(before, S)
    PROVE  \E s : Lists(s, Cardinality(S), S) /\ Increasing(s, Cardinality(S), before)
<1> DEFINE N == Cardinality(S)
<1> DEFINE Has(n) == \A T \in SUBSET S : Cardinality(T) = n =>
                        \E s : Lists(s, n, T) /\ Increasing(s, n, before)
<1> DEFINE U == {n \in 0..N : Has(n)}
<1>1. N \in Nat
  BY FS_CardinalityType
<1>2. \A T \in SUBSET S : IsFiniteSet(T)
  BY FS_Subset
<1>3. 0 \in U
  <2>1. ASSUME NEW T \in SUBSET S, Cardinality(T) = 0
        PROVE  Lists(<<>>, 0, T) /\ Increasing(<<>>, 0, before)
    <3>1. T = {}
      BY <2>1, <1>2, FS_EmptySet
    <3> QED BY <3>1 DEF Lists, Increasing
  <2>2. 0 \in 0..N
    BY <1>1
  <2>3. Has(0)
    BY <2>1
  <2> HIDE DEF Has, N
  <2> QED BY <2>2, <2>3
<1>4. ASSUME NEW n \in 0..(N - 1), n \in U
      PROVE  n + 1 \in U
  <2>0. n \in Nat /\ n + 1 \in 0..N /\ Has(n)
    BY <1>4, <1>1
  <2>1. ASSUME NEW T \in SUBSET S, Cardinality(T) = n + 1
        PROVE  \E s : Lists(s, n + 1, T) /\ Increasing(s, n + 1, before)
    <3>1. IsFiniteSet(T)
      BY <1>2
    <3>2. ASSUME NEW x \in T
          PROVE  \E s : Lists(s, n, T \ {x}) /\ Increasing(s, n, before)
      <4>1. Cardinality(T \ {x}) = n
        BY <3>1, <2>0, <2>1, FS_RemoveElement
      <4>2. T \ {x} \in SUBSET S
        OBVIOUS
      <4> QED BY <4>1, <4>2, <2>0
    <3>3. T # {}
      BY <2>0, <2>1, FS_EmptySet
    <3>4. PICK x \in T : TRUE
      BY <3>3
    <3>5. PICK s : Lists(s, n, T \ {x}) /\ Increasing(s, n, before)
      BY <3>2
    <3>6. \E m \in T : \A y \in T \ {m} : <<y, m>> \in before
      <4>1. CASE n = 0
        BY <4>1, <3>5 DEF Lists
      <4>2. CASE n # 0
        <5>1. n \in 1..n
          BY <4>2, <2>0
        <5> DEFINE last == s[n]
        <5>2. last \in T \ {x}
          BY <5>1, <3>5 DEF Lists
        <5>3. ASSUME NEW y \in T \ {x}, y # last PROVE <<y, last>> \in before
          <6>1. PICK i \in 1..n : s[i] = y
            BY <3>5 DEF Lists
          <6>2. i < n
            BY <6>1, <5>3, <2>0
          <6> QED BY <6>1, <6>2, <5>1, <3>5 DEF Increasing
        <5> HIDE DEF last
        <5>4. CASE <<x, last>> \in before
          BY <5>2, <5>3, <5>4
        <5>5. CASE <<last, x>> \in before
          <6>1. \A y \in T \ {x} : <<y, x>> \in before
            BY <5>2, <5>3, <5>5 DEF Orders
          <6> QED BY <6>1
        <5>6. <<x, last>> \in before \/ <<last, x>> \in before
          BY <5>2 DEF Orders
        <5> QED BY <5>4, <5>5, <5>6
      <4> QED BY <4>1, <4>2
    <3>7. PICK m \in T : \A y \in T \ {m} : <<y, m>> \in before
      BY <3>6
    <3>8. PICK t : Lists(t, n, T \ {m}) /\ Increasing(t, n, before)
      BY <3>2
    <3> QED BY <3>7, <3>8, <2>0, PutBehind
  <2>2. Has(n + 1)
    BY <2>1
  <2> HIDE DEF Has, N
  <2> QED BY <2>0, <2>2
<1>5. N \in U
  <2> HIDE DEF U
  <2>1. \A n \in 0..N : n \in U
    BY <1>1, <1>3, <1>4, InductionUpTo
  <2> QED BY <2>1, <1>1
<1> QED
  BY <1>5

(* InOrder returns all members, and nothing else.                          *)
LEMMA InOrderLists ==
    ASSUME NEW S, IsFiniteSet(S), NEW before, Orders(before, S)
    PROVE  /\ InOrder(S, before) \in Seq(S)
           /\ Elements(InOrder(S, before)) = S
           /\ Len(InOrder(S, before)) = Cardinality(S)
<1> DEFINE N == Cardinality(S)
<1> DEFINE Good(s) == \A i, j \in DOMAIN s : i < j => <<s[i], s[j]>> \in before
<1>1. N \in Nat
  BY FS_CardinalityType
<1>2. \E s \in [1..N -> S] : Good(s)
  <2>1. PICK s : Lists(s, N, S) /\ Increasing(s, N, before)
    BY OrderedListExists
  <2>2. s \in [1..N -> S] /\ DOMAIN s = 1..N
    BY <2>1 DEF Lists
  <2> QED BY <2>1, <2>2 DEF Increasing
<1>3. PICK s \in [1..N -> S] : s = InOrder(S, before) /\ Good(s)
  <2>1. InOrder(S, before) \in [1..N -> S] /\ Good(InOrder(S, before))
    BY <1>2 DEF InOrder
  <2> QED BY <2>1
<1>4. s \in Seq(S) /\ Len(s) = N /\ DOMAIN s = 1..N
  BY <1>1, <1>3, SeqDef
<1>5. s \in Injection(1..N, S)
  <2>1. ASSUME NEW i \in 1..N, NEW j \in 1..N, s[i] = s[j], i < j PROVE FALSE
    <3>1. <<s[i], s[j]>> \in before
      BY <2>1, <1>3, <1>4
    <3>2. s[j] \in S
      BY <1>3
    <3> QED BY <3>1, <3>2, <2>1 DEF Orders
  <2>2. ASSUME NEW i \in 1..N, NEW j \in 1..N, s[i] = s[j] PROVE i = j
    BY <2>1, <2>2, <1>1
  <2> QED BY <2>2, <1>3 DEF Injection, IsInjective
<1>6. IsFiniteSet(1..N) /\ Cardinality(1..N) = N
  BY <1>1, FS_Interval
<1>7. s \in Surjection(1..N, S)
  BY <1>5, <1>6, FS_Injection
<1>8. Elements(s) = S
  BY <1>7, <1>4 DEF Surjection, Elements
<1> QED
  BY <1>3, <1>4, <1>8

-----------------------------------------------------------------------------
(* What a call knows at each of its places, whatever others change.        *)
Rows == [id : Facts, state : States \cup {"unread"}]
Places == {"begin", "search", "fallback", "vectors", "consider", "entities", "walk", "sibling",
           "rows", "conflicts", "evidence", "done"}
Kinds == {"lexical", "vectors", "graph", "again", "last", "sibling"}
Verdicts == {"unavailable", "timeout", "conflicting", "abstained", "matched", "stale", "no_match"}
Known == Entities \cup FirstEntities
Query ==
  [at : Places, args : Requests, term : Nat \ {0}, queue : Seq(Rows), kept : Seq(Facts),
   into : Kinds \cup Verdicts, lexical : Seq(Facts), semantic : Seq(Facts),
   lapsed : SUBSET Facts, graph : Seq(Facts), checked : Seq(Facts),
   edges : SUBSET Relations, found : Seq(Facts \cup Relations), known : SUBSET Known, seeds : Seq(Facts), expanded : Nat, nodes : SUBSET (Facts \cup Known)]

Typed ==
  /\ state \in [Facts -> States] /\ late \subseteq Facts /\ anchored \subseteq Facts
  /\ seen \subseteq Facts /\ shown \subseteq Facts /\ steady \subseteq Facts
  /\ entities \subseteq Known /\ relations \in Seq(Relations)
  /\ query \in Query

(* What seen, shown and steady say of the facts as they are.               *)
Seen(c) == Open(state, late, c.args.asof) \subseteq seen /\ Unarchived(state) \subseteq shown
Steady(c) ==
  /\ steady \subseteq Usable(state, c.args.tool)
  /\ c.args.strict => steady \subseteq anchored
Watched == query.at # "begin" => Seen(query) /\ Steady(query)

(* The places of each tool.                                                *)
Blank(c) ==
  /\ c.term = 1 /\ c.queue = <<>> /\ c.kept = <<>> /\ c.lexical = <<>> /\ c.semantic = <<>>
  /\ c.graph = <<>> /\ c.checked = <<>> /\ c.found = <<>> /\ c.seeds = <<>>
PlacesOf(tool) ==
  IF tool = "facts" THEN {"begin", "search", "fallback", "vectors", "consider", "entities",
                          "walk", "sibling", "done"}
  ELSE IF tool = "graph" THEN {"begin", "entities", "walk", "done"}
  ELSE {"begin", "rows", "conflicts", "evidence", "done"}
Placed(c) ==
  /\ c.at \in PlacesOf(c.args.tool)
  /\ c.at = "begin" => Blank(c)
  /\ c.at = "consider" => c.into \in Kinds
  /\ c.at \in {"search", "fallback", "entities", "walk"} => c.term <= Len(c.args.terms)
  /\ c.args.tool = "facts" => c.found \in Seq(Facts)

(* Every fact a search holds on to may be answered, a row that could be    *)
(* answered was so during the call, and of what the words found a steady   *)
(* fact was read as one that can.                                          *)
May(f, c) == f \in seen \cap shown /\ (c.args.strict => f \in anchored)
Looking(c, kinds) == c.at = "consider" /\ c.into \in kinds
Answers(c) ==
  /\ \A f \in Elements(c.kept) \cup Elements(c.lexical) \cup Elements(c.semantic)
               \cup Elements(c.graph) \cup Elements(c.checked) \cup Elements(c.seeds) : May(f, c)
  /\ \A r \in Elements(c.queue) :
       /\ r.state \in {"active", "stale", "archived"} => r.id \in seen
       /\ Looking(c, {"lexical", "again"}) /\ r.id \in steady => r.state \in {"active", "stale"}

(* What matches and is steady has been taken or is still to be looked at.  *)
Queued(c) == {r.id : r \in Elements(c.queue)}
Wanted(c, i) ==
  LET t == c.args.terms[i]
  IN (Words[t] \cup (IF Words[t] \cap seen = {} THEN Contains[t] ELSE {})) \cap steady
Complete(c) ==
  LET places == DOMAIN c.args.terms
      short == Len(c.lexical) <= c.args.limit
  IN /\ c.at \in {"search", "fallback"} =>
          \A i \in places : i < c.term => Wanted(c, i) \subseteq Elements(c.kept)
     /\ c.at = "fallback" => Words[c.args.terms[c.term]] \cap steady = {}
     /\ Looking(c, {"lexical"}) =>
          \A i \in places : i <= c.term => Wanted(c, i) \subseteq Elements(c.kept) \cup Queued(c)
     /\ c.at \in {"vectors", "entities", "walk"} \/ Looking(c, {"vectors", "graph", "again", "last"}) =>
          \A i \in places : Wanted(c, i) \subseteq Elements(c.lexical)
     /\ Looking(c, {"again"}) /\ short =>
          Elements(c.lexical) \cap steady \subseteq Elements(c.kept) \cup Queued(c)
     /\ Looking(c, {"last"}) /\ short =>
          Elements(c.lexical) \cap steady \subseteq Elements(c.checked)
     /\ c.at \in {"sibling", "done"} \/ Looking(c, {"sibling"}) =>
          /\ Elements(c.seeds) \subseteq Elements(c.kept)
          /\ short /\ Len(c.seeds) < c.args.limit =>
               \A i \in places : Wanted(c, i) \subseteq Elements(c.seeds)

(* A diagnosis holds the matches that were active; of the steady ones the  *)
(* evidence has been found or is still to be asked for.                    *)
Sought(c) == Candidates(c.args.terms[1])
Few(c) == Cardinality(Sought(c)) <= RowLimit
Diagnosed(c) ==
  /\ c.at = "rows" => c.kept = <<>>
  /\ c.at \in {"conflicts", "evidence"} =>
       /\ c.nodes \subseteq Sought(c) \cap seen /\ Queued(c) \subseteq c.nodes
       /\ Few(c) => Sought(c) \cap steady \subseteq c.nodes
       /\ Elements(c.kept) \subseteq c.nodes \cap anchored
       /\ c.nodes \cap steady \subseteq Queued(c) \cup Elements(c.kept)
  /\ c.at = "evidence" => c.args.strict /\ c.nodes # {}

(* A walk starts from what was there at first or more.                     *)
Walking(c) ==
  /\ FirstEntities \subseteq entities /\ Elements(FirstRelations) \subseteq Elements(relations)
  /\ c.at = "walk" => FirstEntities \subseteq c.known

RecallInv ==
  /\ Typed /\ Watched /\ Placed(query) /\ Walking(query)
  /\ query.args.tool = "facts" => Answers(query) /\ Complete(query)
  /\ query.args.tool = "diagnose" => Diagnosed(query)
  /\ DiagnosisTruthful /\ GraphWhole

(* An empty list has no elements.                                          *)
LEMMA NoElements == Elements(<<>>) = {}
BY DEF Elements

(* A call that has begun nothing.                                          *)
LEMMA RecallStart == RecallInit => RecallInv
<1> SUFFICES ASSUME RecallInit PROVE RecallInv
  OBVIOUS
<1>1. PICK r \in Requests :
       query = [at |-> "begin", args |-> r, term |-> 1, queue |-> <<>>, kept |-> <<>>,
               into |-> "lexical", lexical |-> <<>>, semantic |-> <<>>,
               lapsed |-> {}, graph |-> <<>>, checked |-> <<>>,
               edges |-> {}, found |-> <<>>, known |-> {},
               seeds |-> <<>>, expanded |-> 0, nodes |-> {}]
  BY DEF RecallInit
<1>2. <<>> \in Seq(Rows) /\ <<>> \in Seq(Facts) /\ <<>> \in Seq(Facts \cup Relations)
  OBVIOUS
<1>3. query \in Query /\ query.at = "begin" /\ query.args \in Requests /\ Blank(query)
  <2>1. query.at = "begin" /\ query.args = r /\ Blank(query)
    BY <1>1 DEF Blank
  <2>2. query \in Query
    <3> HIDE DEF Rows, Known
    <3>1. "begin" \in Places /\ "lexical" \in Kinds \cup Verdicts
      BY DEF Places, Kinds
    <3> QED BY <1>1, <1>2, <3>1 DEF Query
  <2> QED BY <2>1, <2>2
<1>4. Typed
  BY <1>3, RecallAssumption DEF Typed, RecallInit, Known
<1>5. Watched
  BY <1>3 DEF Watched
<1>6. Placed(query)
  BY <1>2, <1>3, RecallAssumption DEF Placed, PlacesOf, Request, Blank
<1>7. Answers(query)
  BY <1>3, NoElements DEF Answers, Blank
<1>8. Complete(query)
  BY <1>3 DEF Complete, Looking
<1>9. Diagnosed(query) /\ Walking(query) /\ DiagnosisTruthful /\ GraphWhole
  BY <1>3 DEF Diagnosed, Walking, DiagnosisTruthful, GraphWhole, RecallInit
<1> QED
  BY <1>4, <1>5, <1>6, <1>7, <1>8, <1>9 DEF RecallInv

(* What another process changes disturbs no call.                          *)
LEMMA ChangeKeeps ==
    ASSUME RecallInv, NEW newState, NEW newLate, NEW newAnchored,
           Change(newState, newLate, newAnchored),
           newState \in [Facts -> States], newLate \subseteq Facts,
           newAnchored \subseteq Facts, anchored \subseteq newAnchored,
           entities \subseteq entities', entities' \subseteq Known,
           relations' \in Seq(Relations), Elements(relations) \subseteq Elements(relations')
    PROVE  RecallInv'
<1>1. /\ query' = query /\ query.at # "done" /\ query \in Query
      /\ state' = newState /\ late' = newLate /\ anchored' = newAnchored
  BY DEF Change, RecallInv, Typed
<1>2. /\ query.at = "begin" => seen' = seen /\ shown' = shown /\ steady' = steady
      /\ query.at # "begin" =>
           /\ seen' = seen \cup Open(newState, newLate, query.args.asof)
           /\ shown' = shown \cup Unarchived(newState)
           /\ steady' = {f \in steady \cap Usable(newState, query.args.tool) :
                           query.args.strict => f \in newAnchored}
  BY DEF Change
<1>3. /\ seen \subseteq seen' /\ shown \subseteq shown' /\ steady' \subseteq steady
      /\ anchored \subseteq anchored'
  BY <1>1, <1>2
<1>4. Typed'
  <2>1. Open(newState, newLate, query.args.asof) \subseteq Facts /\ Unarchived(newState) \subseteq Facts
    BY DEF Open, Listed, Unarchived
  <2>2. seen' \subseteq Facts /\ shown' \subseteq Facts /\ steady' \subseteq Facts
    BY <1>2, <1>3, <2>1 DEF RecallInv, Typed
  <2> QED BY <1>1, <2>2 DEF RecallInv, Typed
<1>5. Watched'
  <2> SUFFICES ASSUME query.at # "begin" PROVE Seen(query)' /\ Steady(query)'
    BY <1>1 DEF Watched
  <2>1. Seen(query)'
    BY <1>1, <1>2 DEF Seen
  <2>2. Steady(query)'
    BY <1>1, <1>2 DEF Steady
  <2> QED BY <2>1, <2>2
<1>6. Placed(query)'
  BY <1>1 DEF RecallInv, Placed, Blank
<1>7. ASSUME Answers(query) PROVE Answers(query)'
  BY <1>1, <1>3, <1>7 DEF Answers, May, Looking
<1>8. ASSUME Complete(query) PROVE Complete(query)'
  <2>1. \A i : Wanted(query, i)' \subseteq Wanted(query, i)
    BY <1>1, <1>3 DEF Wanted
  <2>2. Queued(query)' = Queued(query)
    BY <1>1 DEF Queued
  <2> QED BY <1>1, <1>3, <1>8, <2>1, <2>2 DEF Complete, Looking
<1>9. ASSUME Diagnosed(query) PROVE Diagnosed(query)'
  <2>1. Queued(query)' = Queued(query) /\ Sought(query)' = Sought(query) /\ Few(query)' = Few(query)
    BY <1>1 DEF Queued, Sought, Few
  <2> QED BY <1>1, <1>3, <1>9, <2>1 DEF Diagnosed
<1>10. Walking(query)'
  BY <1>1 DEF RecallInv, Walking
<1>11. DiagnosisTruthful' /\ GraphWhole'
  BY <1>1 DEF DiagnosisTruthful, GraphWhole
<1> QED
  BY <1>1, <1>4, <1>5, <1>6, <1>7, <1>8, <1>9, <1>10, <1>11 DEF RecallInv

(* The changes others make.                                                *)
LEMMA OthersKeep ==
    ASSUME RecallInv,
           \/ \E f \in Facts : FactChanges(f) \/ AttachEvidence(f)
           \/ \E x \in Entities : EntityAdded(x)
           \/ \E e \in Relations : RelationAdded(e)
    PROVE  RecallInv'
<1> USE DEF RecallInv, Typed
<1>1. ASSUME NEW f \in Facts, FactChanges(f) PROVE RecallInv'
  <2>1. PICK to \in States, l \in {late \cup {f}, late \ {f}} : Change([state EXCEPT ![f] = to], l, anchored)
    BY <1>1 DEF FactChanges
  <2>2. [state EXCEPT ![f] = to] \in [Facts -> States] /\ l \subseteq Facts
    OBVIOUS
  <2>3. entities' = entities /\ relations' = relations
    BY <1>1 DEF FactChanges
  <2> QED BY <2>1, <2>2, <2>3, ChangeKeeps
<1>2. ASSUME NEW f \in Facts, AttachEvidence(f) PROVE RecallInv'
  <2>1. Change(state, late, anchored \cup {f}) /\ entities' = entities /\ relations' = relations
    BY <1>2 DEF AttachEvidence
  <2> QED BY <2>1, ChangeKeeps
<1>3. ASSUME NEW x \in Entities, EntityAdded(x) PROVE RecallInv'
  <2>1. Change(state, late, anchored) /\ entities' = entities \cup {x} /\ relations' = relations
    BY <1>3 DEF EntityAdded
  <2>2. entities' \subseteq Known
    BY <2>1 DEF Known
  <2> QED BY <2>1, <2>2, ChangeKeeps
<1>4. ASSUME NEW e \in Relations, RelationAdded(e) PROVE RecallInv'
  <2>1. Change(state, late, anchored) /\ entities' = entities /\ relations' = Append(relations, e)
    BY <1>4 DEF RelationAdded
  <2>2. relations' \in Seq(Relations) /\ Elements(relations) \subseteq Elements(relations')
    BY <2>1, ExtendedList
  <2> QED BY <2>1, <2>2, ChangeKeeps
<1> QED
  BY <1>1, <1>2, <1>3, <1>4

-----------------------------------------------------------------------------
(* A step of the call itself: what has to be shown of the call it becomes. *)
LEMMA CallMoves ==
    ASSUME RecallInv, query.at # "begin", NEW c, Becomes(c),
           c \in Query, c.args = query.args, c.at # "begin", Placed(c), Walking(c),
           c.args.tool = "facts" => Answers(c) /\ Complete(c),
           c.args.tool = "diagnose" => Diagnosed(c),
           DiagnosisTruthful', GraphWhole'
    PROVE  RecallInv'
<1> USE DEF Becomes
<1>1. Typed' /\ Watched'
  BY DEF RecallInv, Typed, Watched, Seen, Steady
<1>2. Placed(query)' /\ Walking(query)'
  BY DEF Placed, Walking, Blank
<1>3. ASSUME c.args.tool = "facts" PROVE Answers(query)' /\ Complete(query)'
  BY <1>3 DEF Answers, Complete, May, Wanted, Queued, Looking
<1>4. ASSUME c.args.tool = "diagnose" PROVE Diagnosed(query)'
  BY <1>4 DEF Diagnosed, Sought, Few, Queued
<1> QED
  BY <1>1, <1>2, <1>3, <1>4 DEF RecallInv

(* Rows read by id: one for each fact, as it is now.                       *)
LEMMA ByIdLists ==
    ASSUME NEW ids \in SUBSET Facts
    PROVE  /\ IsFiniteSet(ids)
           /\ ById(ids) \in Seq(ids) /\ ById(ids) \in Seq(Facts) /\ Elements(ById(ids)) = ids
           /\ Len(ById(ids)) = Cardinality(ids) /\ Len(ById(ids)) \in Nat
<1> DEFINE before == {p \in ids \X ids : p[1] < p[2]}
<1>1. IsFiniteSet(ids)
  BY RecallAssumption, FS_Subset
<1>2. \A x, y \in ids : <<x, y>> \in before <=> x < y
  OBVIOUS
<1> HIDE DEF before
<1>3. Orders(before, ids)
  <2>1. \A x \in ids : x \in Int
    BY RecallAssumption
  <2>2. \A x, y \in ids : x = y \/ x < y \/ y < x
    BY <2>1
  <2>3. \A x, y, z \in ids : x < y /\ y < z => x < z
    BY <2>1
  <2>4. \A x \in ids : ~(x < x)
    BY <2>1
  <2> QED BY <1>2, <2>2, <2>3, <2>4, Zenon DEF Orders
<1>4. ById(ids) = InOrder(ids, before)
  BY DEF ById, before
<1>5. /\ InOrder(ids, before) \in Seq(ids) /\ Elements(InOrder(ids, before)) = ids
      /\ Len(InOrder(ids, before)) = Cardinality(ids)
  BY <1>1, <1>3, InOrderLists
<1>6. Cardinality(ids) \in Nat
  BY <1>1, FS_CardinalityType
<1> QED
  BY <1>1, <1>4, <1>5, <1>6, SeqMonotonic

(* The rows read of some facts are those facts, each as it is now.         *)
LEMMA RowsRead ==
    ASSUME Typed, NEW ids \in SUBSET Facts
    PROVE  /\ AsRows(ids) \in Seq(Rows)
           /\ \A r \in Elements(AsRows(ids)) : r.id \in ids /\ r.state = state[r.id]
           /\ \A f \in ids : \E r \in Elements(AsRows(ids)) : r.id = f
<1>1. PICK s : s = ById(ids)
  OBVIOUS
<1>2. s \in Seq(ids) /\ Elements(s) = ids
  BY <1>1, ByIdLists
<1>3. PICK n \in Nat : s \in [1..n -> ids]
  BY <1>2, SeqDef
<1>4. AsRows(ids) = [i \in 1..n |-> [id |-> s[i], state |-> state[s[i]]]]
  BY <1>1, <1>3 DEF AsRows
<1>5. \A i \in 1..n : [id |-> s[i], state |-> state[s[i]]] \in Rows
  BY <1>3 DEF Typed, Rows
<1>6. AsRows(ids) \in Seq(Rows)
  BY <1>4, <1>5, SeqDef
<1>7. Elements(AsRows(ids)) = {[id |-> s[i], state |-> state[s[i]]] : i \in 1..n}
  BY <1>4 DEF Elements
<1>8. ids = {s[i] : i \in 1..n}
  BY <1>2, <1>3 DEF Elements
<1>9. ASSUME NEW r \in Elements(AsRows(ids)) PROVE r.id \in ids /\ r.state = state[r.id]
  <2>1. PICK i \in 1..n : r = [id |-> s[i], state |-> state[s[i]]]
    BY <1>7
  <2> QED BY <2>1, <1>3
<1>10. ASSUME NEW f \in ids PROVE \E r \in Elements(AsRows(ids)) : r.id = f
  <2>1. PICK i \in 1..n : f = s[i]
    BY <1>8
  <2>2. [id |-> s[i], state |-> state[s[i]]] \in Elements(AsRows(ids))
    BY <1>7
  <2> QED BY <2>1, <2>2
<1> QED
  BY <1>6, <1>9, <1>10

(* Rows that are held, or known by their id only.                          *)
Marked(ids, mark) == [i \in DOMAIN ids |-> [id |-> ids[i], state |-> mark[ids[i]]]]
(* Rows made from ids are of those ids, in the state they are given.       *)
LEMMA RowsMarked ==
    ASSUME NEW ids \in Seq(Facts), NEW mark \in [Facts -> States \cup {"unread"}]
    PROVE  /\ Marked(ids, mark) \in Seq(Rows)
           /\ \A r \in Elements(Marked(ids, mark)) : r.id \in Elements(ids) /\ r.state = mark[r.id]
           /\ \A f \in Elements(ids) : \E r \in Elements(Marked(ids, mark)) : r.id = f
<1> DEFINE q == Marked(ids, mark)
<1>1. PICK n \in Nat : ids \in [1..n -> Facts]
  BY SeqDef
<1>2. \A i \in 1..n : [id |-> ids[i], state |-> mark[ids[i]]] \in Rows
  BY <1>1 DEF Rows
<1>3. q = [i \in 1..n |-> [id |-> ids[i], state |-> mark[ids[i]]]]
  BY <1>1 DEF Marked
<1> HIDE DEF q
<1>4. q \in Seq(Rows)
  BY <1>2, <1>3, SeqDef
<1>5. Elements(q) = {[id |-> ids[i], state |-> mark[ids[i]]] : i \in 1..n}
  BY <1>3 DEF Elements
<1>6. Elements(ids) = {ids[i] : i \in 1..n}
  BY <1>1 DEF Elements
<1>7. ASSUME NEW r \in Elements(q) PROVE r.id \in Elements(ids) /\ r.state = mark[r.id]
  <2>1. PICK i \in 1..n : r = [id |-> ids[i], state |-> mark[ids[i]]]
    BY <1>5
  <2> QED BY <2>1, <1>6
<1>8. ASSUME NEW f \in Elements(ids) PROVE \E r \in Elements(q) : r.id = f
  <2>1. PICK i \in 1..n : f = ids[i]
    BY <1>6
  <2>2. [id |-> ids[i], state |-> mark[ids[i]]] \in Elements(q)
    BY <1>5
  <2> QED BY <2>1, <2>2
<1> QED
  BY <1>4, <1>7, <1>8 DEF q

(* Rows that are held were invalid when they were read, or answered.       *)
LEMMA RowsHeld ==
    ASSUME NEW ids \in Seq(Facts), NEW lapsed
    PROVE  /\ Held(ids, lapsed) \in Seq(Rows)
           /\ \A r \in Elements(Held(ids, lapsed)) :
                r.id \in Elements(ids) /\ r.state \in {"active", "invalid"}
           /\ lapsed = {} => \A r \in Elements(Held(ids, lapsed)) : r.state = "active"
           /\ \A f \in Elements(ids) : \E r \in Elements(Held(ids, lapsed)) : r.id = f
<1>1. PICK mark : mark = [f \in Facts |-> IF f \in lapsed THEN "invalid" ELSE "active"]
  OBVIOUS
<1>2. mark \in [Facts -> States \cup {"unread"}]
  BY <1>1 DEF States
<1>3. Held(ids, lapsed) = Marked(ids, mark)
  <2>1. \A i \in DOMAIN ids : mark[ids[i]] = IF ids[i] \in lapsed THEN "invalid" ELSE "active"
    BY <1>1
  <2> QED BY <2>1 DEF Held, Marked
<1>4. Elements(ids) \subseteq Facts
  BY ElementsOfSeq
<1> QED
  BY <1>1, <1>2, <1>3, <1>4, RowsMarked

(* Of facts that are yet to be read, only the ids are known.               *)
LEMMA RowsUnread ==
    ASSUME NEW ids \in Seq(Facts)
    PROVE  /\ Unread(ids) \in Seq(Rows)
           /\ \A r \in Elements(Unread(ids)) : r.state = "unread"
<1>1. PICK mark : mark = [f \in Facts |-> "unread"]
  OBVIOUS
<1>2. mark \in [Facts -> States \cup {"unread"}]
  BY <1>1
<1>3. Unread(ids) = Marked(ids, mark)
  <2>1. \A i \in DOMAIN ids : mark[ids[i]] = "unread"
    BY <1>1
  <2> QED BY <2>1 DEF Unread, Marked
<1>4. Elements(ids) \subseteq Facts
  BY ElementsOfSeq
<1> QED
  BY <1>1, <1>2, <1>3, <1>4, RowsMarked

(* A call turns to a list of rows.                                         *)
Turned(d, c, rows, into, kept) ==
  /\ d \in Query /\ d.at = "consider" /\ d.queue = rows /\ d.kept = kept /\ d.into = into
  /\ d.args = c.args /\ d.term = c.term /\ d.lexical = c.lexical
  /\ d.semantic = c.semantic /\ d.graph = c.graph /\ d.checked = c.checked
  /\ d.edges = c.edges /\ d.found = c.found /\ d.known = c.known
  /\ d.seeds = c.seeds /\ d.expanded = c.expanded /\ d.nodes = c.nodes

(* LookAt turns the call to a list of rows, with what it has kept so far.  *)
LEMMA TurnsTo ==
    ASSUME NEW c \in Query, NEW rows \in Seq(Rows), NEW into \in Kinds, NEW kept \in Seq(Facts)
    PROVE  Turned([LookAt(c, rows, into) EXCEPT !.kept = kept], c, rows, into, kept)
<1> DEFINE d == [LookAt(c, rows, into) EXCEPT !.kept = kept]
<1>1. d = [c EXCEPT !.at = "consider", !.queue = rows, !.kept = kept, !.into = into]
  BY DEF LookAt, Query
<1> HIDE DEF d
<1>2. "consider" \in Places /\ into \in Kinds \cup Verdicts
  BY DEF Places
<1>3. d \in Query
  BY <1>1, <1>2 DEF Query
<1>4. /\ d.at = "consider" /\ d.queue = rows /\ d.kept = kept /\ d.into = into
      /\ d.args = c.args /\ d.term = c.term /\ d.lexical = c.lexical
      /\ d.semantic = c.semantic /\ d.graph = c.graph /\ d.checked = c.checked
  BY <1>1 DEF Query
<1>5. /\ d.edges = c.edges /\ d.found = c.found /\ d.known = c.known
      /\ d.seeds = c.seeds /\ d.expanded = c.expanded /\ d.nodes = c.nodes
  BY <1>1 DEF Query
<1> QED
  BY <1>3, <1>4, <1>5 DEF Turned, d

(* Of a new list nothing has been kept.                                    *)
LEMMA TurnsToAll ==
    ASSUME NEW c \in Query, NEW rows \in Seq(Rows), NEW into \in Kinds
    PROVE  Turned(LookAt(c, rows, into), c, rows, into, <<>>)
<1>1. LookAt(c, rows, into) = [LookAt(c, rows, into) EXCEPT !.kept = <<>>]
  BY DEF LookAt, Query
<1>2. <<>> \in Seq(Facts)
  OBVIOUS
<1>3. Turned([LookAt(c, rows, into) EXCEPT !.kept = <<>>], c, rows, into, <<>>)
  BY <1>2, TurnsTo
<1> QED
  BY <1>1, <1>3

(* The call is accepted.                                                   *)
LEMMA BeginKeeps ==
    ASSUME RecallInv, Begin
    PROVE  RecallInv'
<1>1. /\ query.at = "begin" /\ Blank(query) /\ query \in Query /\ query.args \in Requests
      /\ Request(query.args)
  BY RecallAssumption DEF RecallInv, Placed, Begin, Typed, Query
<1>2. /\ seen' = Open(state, late, query.args.asof) /\ shown' = Unarchived(state)
      /\ steady' = {f \in Usable(state, query.args.tool) : query.args.strict => f \in anchored}
      /\ UNCHANGED <<state, late, anchored, entities, relations, changes>>
  BY DEF Begin
<1>3. PICK c : c = query'
  OBVIOUS
<1>4. /\ c \in Query /\ c.args = query.args /\ Blank(c) /\ c.at # "begin"
      /\ c.at \in {"search", "consider", "entities", "rows"}
      /\ Placed(c)
      /\ c.at # "search" => c.at \in {"entities", "rows"} \/ c.args.terms = <<>>
      /\ c.args.tool = "facts" => c.at \in {"search", "consider"} /\ (c.at = "consider" => c.into = "lexical")
  <2>1. CASE query.args.terms = <<>>
    <3>1. c = LookAt(query, <<>>, "lexical")
      BY <2>1, <1>3 DEF Begin
    <3>2. <<>> \in Seq(Rows) /\ "lexical" \in Kinds
      BY DEF Kinds
    <3>3. query.args.tool = "facts"
      BY <2>1, <1>1 DEF Request
    <3>4. /\ c \in Query /\ c.at = "consider" /\ c.queue = <<>> /\ c.kept = <<>> /\ c.into = "lexical"
          /\ c.args = query.args /\ c.term = query.term /\ c.lexical = query.lexical
          /\ c.semantic = query.semantic /\ c.graph = query.graph /\ c.checked = query.checked
          /\ c.found = query.found /\ c.seeds = query.seeds
      <4>1. Turned(c, query, <<>>, "lexical", <<>>)
        BY <3>1, <3>2, <1>1, TurnsToAll
      <4> QED BY <4>1 DEF Turned
    <3>5. Blank(c)
      BY <3>4, <1>1 DEF Blank
    <3>6. Placed(c)
      BY <3>2, <3>3, <3>4 DEF Placed, PlacesOf, RecallInv
    <3> QED BY <3>3, <3>4, <3>5, <3>6, <2>1
  <2>2. CASE query.args.terms # <<>>
    <3>1. c = [query EXCEPT !.at = FirstStep(query.args.tool)]
      BY <2>2, <1>3 DEF Begin
    <3>2. query.args.tool \in {"facts", "graph", "diagnose"}
      BY <1>1 DEF Request
    <3>3. FirstStep(query.args.tool) = IF query.args.tool = "facts" THEN "search"
              ELSE IF query.args.tool = "graph" THEN "entities" ELSE "rows"
      BY <3>2 DEF FirstStep
    <3>4. 1 <= Len(query.args.terms)
      BY <2>2, <1>1, EmptySeq DEF Request
    <3>5. FirstStep(query.args.tool) \in Places
      BY <3>3 DEF Places
    <3>6. /\ c \in Query /\ c.at = FirstStep(query.args.tool) /\ c.args = query.args /\ c.into = query.into
          /\ Blank(c) /\ c.found = query.found
      BY <3>1, <3>5, <1>1 DEF Query, Blank
    <3> QED BY <3>2, <3>3, <3>4, <3>6 DEF Blank, Placed, PlacesOf, RecallInv
  <2> QED BY <2>1, <2>2
<1>5. Typed'
  <2>1. seen' \subseteq Facts /\ shown' \subseteq Facts /\ steady' \subseteq Facts
    BY <1>2 DEF Open, Listed, Unarchived, Usable
  <2> QED BY <1>2, <1>3, <1>4, <2>1 DEF RecallInv, Typed
<1>6. Watched'
  <2>1. Seen(query)'
    BY <1>2, <1>3, <1>4 DEF Seen
  <2>2. Steady(query)'
    BY <1>2, <1>3, <1>4 DEF Steady
  <2> QED BY <2>1, <2>2 DEF Watched
<1>7. Placed(query)'
  BY <1>3, <1>4 DEF Placed, Blank
<1>8. Walking(query)'
  BY <1>2, <1>3, <1>4 DEF Walking, RecallInv
<1>9. ASSUME c.args.tool = "facts" PROVE Answers(query)' /\ Complete(query)'
  <2>1. c.queue = <<>> /\ Elements(c.queue) = {} /\ c.term = 1
    BY <1>4, NoElements DEF Blank
  <2>2. Answers(query)'
    BY <1>3, <1>4, <2>1, NoElements DEF Answers, Blank
  <2>3. c.args.terms \in Seq(Terms)
    BY <1>1, <1>4 DEF Request
  <2>4. DOMAIN c.args.terms = 1..Len(c.args.terms) /\ Len(c.args.terms) \in Nat
    BY <2>3
  <2>5. \A i \in DOMAIN c.args.terms : ~(i < c.term)
    BY <2>1, <2>4
  <2>6. c.at = "search" \/ (c.at = "consider" /\ c.into = "lexical" /\ c.args.terms = <<>>)
    BY <1>4, <1>9
  <2>7. c.args.terms = <<>> => DOMAIN c.args.terms = {}
    OBVIOUS
  <2>8. Complete(query)'
    BY <1>3, <2>5, <2>6, <2>7 DEF Complete, Looking
  <2> QED BY <2>2, <2>8
<1>10. c.args.tool = "diagnose" => Diagnosed(query)'
  BY <1>3, <1>4 DEF Diagnosed, Blank
<1>11. DiagnosisTruthful' /\ GraphWhole'
  BY <1>3, <1>4 DEF DiagnosisTruthful, GraphWhole
<1> QED
  BY <1>3, <1>5, <1>6, <1>7, <1>8, <1>9, <1>10, <1>11 DEF RecallInv

(* What is known of a search between its statements.                       *)
LEMMA SearchCall ==
    ASSUME RecallInv, query.at \in {"search", "fallback", "vectors", "consider", "sibling"}
    PROVE  /\ query \in Query /\ query.args.tool = "facts" /\ query.at # "begin"
           /\ query.args \in Requests /\ Request(query.args)
           /\ Typed /\ Seen(query) /\ Steady(query)
           /\ Answers(query) /\ Complete(query) /\ Placed(query) /\ query.found \in Seq(Facts)
<1>1. query \in Query /\ Placed(query) /\ Typed /\ Watched
  BY DEF RecallInv, Typed
<1>2. query.args \in Requests /\ Request(query.args)
  BY <1>1, RecallAssumption DEF Query
<1>3. query.args.tool = "facts"
  BY <1>1, <1>2 DEF Placed, PlacesOf
<1>4. query.found \in Seq(Facts)
  BY <1>1, <1>3 DEF Placed
<1> QED
  BY <1>1, <1>2, <1>3, <1>4 DEF RecallInv, Watched

(* What a row as it is now says of the fact.                               *)
LEMMA RowOfNow ==
    ASSUME RecallInv, query.at \in {"search", "fallback", "vectors", "consider", "sibling"},
           NEW f \in Facts
    PROVE  /\ state[f] \in {"active", "stale", "archived"} => f \in seen
           /\ state[f] \in {"active", "stale", "invalid"} => f \in shown
           /\ state[f] = "invalid" /\ query.args.asof /\ f \in late => f \in seen
           /\ f \in steady => state[f] \in {"active", "stale"} /\ (query.args.strict => f \in anchored)
<1>1. Seen(query) /\ Steady(query) /\ query.args.tool = "facts"
  BY SearchCall
<1>2. Open(state, late, query.args.asof) \subseteq seen /\ Unarchived(state) \subseteq shown
  BY <1>1 DEF Seen
<1>3. steady \subseteq Usable(state, "facts") /\ (query.args.strict => steady \subseteq anchored)
  BY <1>1 DEF Steady
<1>4. /\ state[f] \in {"active", "stale", "archived"} => f \in seen
      /\ state[f] = "invalid" /\ query.args.asof /\ f \in late => f \in seen
  BY <1>2 DEF Open, Listed
<1>5. state[f] \in {"active", "stale", "invalid"} => f \in shown
  BY <1>2 DEF Unarchived
<1>6. f \in steady => state[f] \in {"active", "stale"} /\ (query.args.strict => f \in anchored)
  BY <1>3 DEF Usable
<1> QED BY <1>4, <1>5, <1>6

(* A step of a search keeps the invariant of all calls when the call it    *)
(* leaves has that of searches.                                            *)
LEMMA SearchMoves ==
    ASSUME RecallInv, query.at # "begin", NEW c, Becomes(c), c \in Query, c.args = query.args,
           c.at # "begin", c.args.tool = "facts", Placed(c), Answers(c), Complete(c),
           c.at = "walk" => FirstEntities \subseteq c.known
    PROVE  RecallInv'
<1>1. DiagnosisTruthful' /\ GraphWhole'
  BY DEF Becomes, DiagnosisTruthful, GraphWhole
<1>2. Walking(c)
  BY DEF Walking, RecallInv
<1>3. c.args.tool # "diagnose"
  OBVIOUS
<1> QED
  BY <1>1, <1>2, <1>3, CallMoves

(* What the words, or the texts that contain them, find is looked at.      *)
LEMMA HitsKeep ==
    ASSUME RecallInv, query.at \in {"search", "fallback"}, NEW hits \in SUBSET Facts,
           hits \subseteq Listed(state), Wanted(query, query.term) \subseteq hits,
           Becomes([LookAt(query, AsRows(hits), "lexical") EXCEPT !.kept = query.kept])
    PROVE  RecallInv'
<1>1. PICK rows : rows = AsRows(hits)
  OBVIOUS
<1>2. PICK c : c = [LookAt(query, rows, "lexical") EXCEPT !.kept = query.kept]
  OBVIOUS
<1>3. Becomes(c)
  BY <1>1, <1>2
<1>4. /\ rows \in Seq(Rows)
      /\ \A r \in Elements(rows) : r.id \in hits /\ r.state = state[r.id]
      /\ \A f \in hits : \E r \in Elements(rows) : r.id = f
  BY <1>1, SearchCall, RowsRead
<1>5. Turned(c, query, rows, "lexical", query.kept)
  <2>1. query.kept \in Seq(Facts) /\ "lexical" \in Kinds
    BY SearchCall DEF Query, Kinds
  <2> QED BY <1>2, <1>4, <2>1, SearchCall, TurnsTo
<1>6. Placed(c)
  BY <1>5, SearchCall DEF Turned, Placed, PlacesOf, Kinds
<1>7. Answers(c)
  <2>1. \A r \in Elements(c.queue) : /\ r.state \in {"active", "stale", "archived"} => r.id \in seen
                                     /\ r.id \in steady => r.state \in {"active", "stale"}
    BY <1>4, <1>5, RowOfNow DEF Turned
  <2> QED BY <1>5, <2>1, SearchCall DEF Turned, Answers, May
<1>8. Complete(c)
  <2>1. /\ c.at = "consider" /\ c.into = "lexical" /\ c.args = query.args /\ c.term = query.term
        /\ c.kept = query.kept /\ c.queue = rows
    BY <1>5 DEF Turned
  <2>2. \A i : Wanted(c, i) = Wanted(query, i)
    BY <2>1 DEF Wanted
  <2>3. hits \subseteq Queued(c)
    BY <1>4, <2>1 DEF Queued
  <2>4. \A i \in DOMAIN c.args.terms : i < c.term => Wanted(c, i) \subseteq Elements(c.kept)
    BY <2>1, <2>2, SearchCall DEF Complete
  <2>5. \A i \in DOMAIN c.args.terms : i <= c.term => i < c.term \/ i = c.term
    <3>1. c.args.terms \in Seq(Terms) /\ c.term \in Nat
      BY <2>1, SearchCall DEF Request, Query
    <3> QED BY <3>1
  <2>6. Wanted(c, c.term) \subseteq Queued(c)
    BY <2>1, <2>2, <2>3
  <2>7. \A i \in DOMAIN c.args.terms : i <= c.term =>
          Wanted(c, i) \subseteq Elements(c.kept) \cup Queued(c)
    BY <2>4, <2>5, <2>6
  <2> QED BY <2>1, <2>7 DEF Complete, Looking
<1> QED
  BY <1>3, <1>5, <1>6, <1>7, <1>8, SearchCall, SearchMoves DEF Turned

(* What is known of the term that is searched.                             *)
LEMMA TermSearched ==
    ASSUME RecallInv, query.at \in {"search", "fallback"},
           NEW t, t = query.args.terms[query.term]
    PROVE  /\ query.term \in DOMAIN query.args.terms
           /\ Words[t] \subseteq Facts /\ Contains[t] \subseteq Facts
           /\ Hits(Words[t]) = Words[t] \cap Listed(state)
           /\ Hits(Contains[t]) = Contains[t] \cap Listed(state)
           /\ steady \subseteq Listed(state) /\ Listed(state) \subseteq seen
<1>1. query.args.terms \in Seq(Terms) /\ query.term \in Nat \ {0} /\ query.term <= Len(query.args.terms)
  BY SearchCall DEF Request, Query, Placed
<1>2. query.term \in DOMAIN query.args.terms /\ t \in Terms
  BY <1>1
<1>3. Words[t] \subseteq Facts /\ Contains[t] \subseteq Facts
  BY <1>2, RecallAssumption
<1>4. Listed(state) \subseteq seen
  BY SearchCall DEF Seen, Open
<1>5. steady \subseteq Listed(state)
  <2>1. steady \subseteq Usable(state, "facts")
    BY SearchCall DEF Steady
  <2> QED BY <2>1 DEF Usable, Listed
<1> QED BY <1>2, <1>3, <1>4, <1>5 DEF Hits

(* The words are looked up.                                                *)
LEMMA SearchKeeps ==
    ASSUME RecallInv, Search
    PROVE  RecallInv'
<1>1. query.at = "search"
  BY DEF Search
<1>2. PICK t : t = query.args.terms[query.term]
  OBVIOUS
<1>3. PICK hits : hits = Hits(Words[t])
  OBVIOUS
<1>4. Becomes(IF hits = {} THEN [query EXCEPT !.at = "fallback"]
              ELSE [LookAt(query, AsRows(hits), "lexical") EXCEPT !.kept = query.kept])
  BY <1>2, <1>3 DEF Search
<1>5. /\ hits = Words[t] \cap Listed(state) /\ Words[t] \subseteq Facts
      /\ steady \subseteq Listed(state) /\ Listed(state) \subseteq seen
  BY <1>1, <1>2, <1>3, TermSearched
<1>6. CASE hits # {}
  <2>1. Words[t] \cap seen # {}
    BY <1>5, <1>6
  <2>2. Wanted(query, query.term) \subseteq hits
    BY <1>2, <1>5, <2>1 DEF Wanted
  <2>3. hits \in SUBSET Facts /\ hits \subseteq Listed(state)
    BY <1>5
  <2> QED BY <1>1, <1>4, <1>6, <2>2, <2>3, HitsKeep
<1>7. CASE hits = {}
  <2>1. PICK c : c = [query EXCEPT !.at = "fallback"]
    OBVIOUS
  <2>2. Becomes(c)
    BY <1>4, <1>7, <2>1
  <2>3. /\ c \in Query /\ c.at = "fallback" /\ c.args = query.args /\ c.term = query.term
        /\ c.kept = query.kept /\ c.queue = query.queue /\ c.lexical = query.lexical
        /\ c.semantic = query.semantic /\ c.graph = query.graph /\ c.checked = query.checked
        /\ c.seeds = query.seeds /\ c.found = query.found
    <3>1. "fallback" \in Places
      BY DEF Places
    <3> QED BY <1>1, <2>1, <3>1, SearchCall DEF Query
  <2>4. Placed(c)
    BY <1>1, <2>3, SearchCall DEF Placed, PlacesOf
  <2>5. Answers(c)
    BY <1>1, <2>3, SearchCall DEF Answers, May, Looking
  <2>6. Complete(c)
    <3>1. Words[c.args.terms[c.term]] \cap steady = {}
      BY <1>2, <1>5, <1>7, <2>3
    <3>2. \A i : Wanted(c, i) = Wanted(query, i)
      BY <2>3 DEF Wanted
    <3>3. \A i \in DOMAIN c.args.terms : i < c.term => Wanted(c, i) \subseteq Elements(c.kept)
      BY <1>1, <2>3, <3>2, SearchCall DEF Complete
    <3> QED BY <2>3, <3>1, <3>3 DEF Complete, Looking
  <2> QED BY <1>1, <2>2, <2>3, <2>4, <2>5, <2>6, SearchCall, SearchMoves
<1> QED
  BY <1>6, <1>7

(* The words found nothing: the texts that contain them are looked up.     *)
LEMMA FallbackKeeps ==
    ASSUME RecallInv, Fallback
    PROVE  RecallInv'
<1>1. query.at = "fallback"
  BY DEF Fallback
<1>2. PICK t : t = query.args.terms[query.term]
  OBVIOUS
<1>3. PICK hits : hits = Hits(Contains[t])
  OBVIOUS
<1>4. Becomes([LookAt(query, AsRows(hits), "lexical") EXCEPT !.kept = query.kept])
  BY <1>2, <1>3 DEF Fallback
<1>5. /\ hits = Contains[t] \cap Listed(state) /\ Contains[t] \subseteq Facts
      /\ steady \subseteq Listed(state)
  BY <1>1, <1>2, <1>3, TermSearched
<1>6. Words[t] \cap steady = {}
  BY <1>1, <1>2, SearchCall DEF Complete
<1>7. Wanted(query, query.term) \subseteq hits
  BY <1>2, <1>5, <1>6 DEF Wanted
<1>8. hits \in SUBSET Facts /\ hits \subseteq Listed(state)
  BY <1>5
<1> QED
  BY <1>1, <1>4, <1>7, <1>8, HitsKeep

(* A search turns to the facts that have a vector.                         *)
LEMMA VectorsKeep ==
    ASSUME RecallInv, Vectors
    PROVE  RecallInv'
<1>1. query.at = "vectors"
  BY DEF Vectors
<1>2. PICK rows : rows = AsRows(Embedded)
  OBVIOUS
<1>3. PICK c : c = LookAt(query, rows, "vectors")
  OBVIOUS
<1>4. Becomes(c)
  BY <1>2, <1>3 DEF Vectors
<1>5. /\ rows \in Seq(Rows)
      /\ \A r \in Elements(rows) : r.id \in Facts /\ r.state = state[r.id]
  BY <1>1, <1>2, SearchCall, RowsRead, RecallAssumption
<1>6. Turned(c, query, rows, "vectors", <<>>)
  BY <1>1, <1>3, <1>5, SearchCall, TurnsToAll DEF Kinds
<1>7. Placed(c)
  BY <1>1, <1>6, SearchCall DEF Turned, Placed, PlacesOf, Kinds
<1>8. Answers(c)
  <2>1. \A r \in Elements(c.queue) : /\ r.state \in {"active", "stale", "archived"} => r.id \in seen
                                     /\ r.id \in steady => r.state \in {"active", "stale"}
    BY <1>1, <1>5, <1>6, RowOfNow DEF Turned
  <2> QED BY <1>1, <1>6, <2>1, SearchCall, NoElements DEF Turned, Answers, May
<1>9. Complete(c)
  BY <1>1, <1>6, SearchCall DEF Turned, Complete, Looking, Wanted
<1> QED
  BY <1>1, <1>4, <1>6, <1>7, <1>8, <1>9, SearchCall, SearchMoves DEF Turned

(* A recall goes on to the siblings of its next hit, or is done.           *)
LEMMA SiblingKeeps ==
    ASSUME RecallInv, Sibling
    PROVE  RecallInv'
<1>1. query.at = "sibling"
  BY DEF Sibling
<1>2. /\ Elements(query.seeds) \subseteq Elements(query.kept)
      /\ Len(query.lexical) <= query.args.limit /\ Len(query.seeds) < query.args.limit =>
           \A i \in DOMAIN query.args.terms : Wanted(query, i) \subseteq Elements(query.seeds)
  BY <1>1, SearchCall DEF Complete
<1>3. ASSUME Becomes([query EXCEPT !.at = "done"]) PROVE RecallInv'
  <2>1. PICK c : c = [query EXCEPT !.at = "done"]
    OBVIOUS
  <2>2. "done" \in Places
    BY DEF Places
  <2>3. /\ c \in Query /\ c.at = "done" /\ c.args = query.args /\ c.kept = query.kept
        /\ c.lexical = query.lexical /\ c.semantic = query.semantic /\ c.graph = query.graph
        /\ c.checked = query.checked /\ c.seeds = query.seeds /\ c.queue = query.queue
        /\ c.found = query.found
    BY <1>1, <2>1, <2>2, SearchCall DEF Query
  <2>4. Placed(c)
    BY <1>1, <2>3, SearchCall DEF Placed, PlacesOf
  <2>5. Answers(c)
    BY <1>1, <2>3, SearchCall DEF Answers, May, Looking
  <2>6. Complete(c)
    BY <1>2, <2>3 DEF Complete, Looking, Wanted
  <2> QED BY <1>1, <1>3, <2>1, <2>3, <2>4, <2>5, <2>6, SearchCall, SearchMoves
<1>4. ASSUME NEW name,
             Becomes([LookAt(query, AsRows(OfSession(name)), "sibling") EXCEPT !.kept = query.kept])
      PROVE  RecallInv'
  <2>1. PICK ids \in SUBSET Facts : ids = OfSession(name)
    BY DEF OfSession
  <2>2. PICK rows : rows = AsRows(ids)
    OBVIOUS
  <2>3. PICK c : c = [LookAt(query, rows, "sibling") EXCEPT !.kept = query.kept]
    OBVIOUS
  <2>4. Becomes(c)
    BY <1>4, <2>1, <2>2, <2>3
  <2>5. /\ rows \in Seq(Rows)
        /\ \A r \in Elements(rows) : r.id \in Facts /\ r.state = state[r.id]
    BY <1>1, <2>2, SearchCall, RowsRead
  <2>6. Turned(c, query, rows, "sibling", query.kept)
    <3>1. query.kept \in Seq(Facts)
      BY <1>1, SearchCall DEF Query
    <3> QED BY <1>1, <2>3, <2>5, <3>1, SearchCall, TurnsTo DEF Kinds
  <2>7. Placed(c)
    BY <1>1, <2>6, SearchCall DEF Turned, Placed, PlacesOf, Kinds
  <2>8. Answers(c)
    <3>1. \A r \in Elements(c.queue) : /\ r.state \in {"active", "stale", "archived"} => r.id \in seen
                                       /\ r.id \in steady => r.state \in {"active", "stale"}
      BY <1>1, <2>5, <2>6, RowOfNow DEF Turned
    <3> QED BY <1>1, <2>6, <3>1, SearchCall DEF Turned, Answers, May
  <2>9. Complete(c)
    BY <1>2, <2>6 DEF Turned, Complete, Looking, Wanted
  <2> QED
    BY <1>1, <2>4, <2>6, <2>7, <2>8, <2>9, SearchCall, SearchMoves DEF Turned
<1> QED
  BY <1>3, <1>4 DEF Sibling

(* A row known by its id is read.                                          *)
LEMMA ReadRowKeeps ==
    ASSUME RecallInv, ReadRow
    PROVE  RecallInv'
<1>1. /\ query.at = "consider" /\ query.queue # <<>> /\ query.queue[1].state = "unread"
      /\ Becomes([query EXCEPT !.queue[1].state = state[query.queue[1].id]])
  BY DEF ReadRow
<1>2. PICK q : q = query.queue
  OBVIOUS
<1>3. q \in Seq(Rows) /\ q # <<>> /\ q[1] \in Rows /\ q[1] \in Elements(q) /\ 1 \in 1..Len(q)
  <2>1. q \in Seq(Rows) /\ q # <<>>
    BY <1>1, <1>2, SearchCall DEF Query
  <2>2. 1 \in 1..Len(q)
    BY <2>1, EmptySeq
  <2> QED BY <2>1, <2>2, ShortenedList
<1>4. PICK row : row = [q[1] EXCEPT !.state = state[q[1].id]]
  OBVIOUS
<1>5. row \in Rows /\ row.id = q[1].id /\ row.state = state[row.id] /\ row.id \in Facts
  BY <1>1, <1>3, <1>4, SearchCall DEF Rows, Typed
<1>6. PICK rows : rows = [q EXCEPT ![1] = row]
  OBVIOUS
<1>7. /\ rows \in Seq(Rows) /\ Len(rows) = Len(q)
      /\ \A i \in 1..Len(q) : rows[i] = IF i = 1 THEN row ELSE q[i]
  BY <1>3, <1>5, <1>6, ExceptSeq
<1>8. DOMAIN rows = 1..Len(q) /\ DOMAIN q = 1..Len(q)
  BY <1>3, <1>7
<1>9. /\ Elements(rows) \subseteq Elements(q) \cup {row}
      /\ Elements(q) \subseteq Elements(rows) \cup {q[1]}
      /\ row \in Elements(rows)
  BY <1>3, <1>7, <1>8 DEF Elements
<1>10. PICK c : c = [query EXCEPT !.queue = rows]
  OBVIOUS
<1>11. Becomes(c)
  <2>1. [query EXCEPT !.queue[1].state = state[query.queue[1].id]] = c
    BY <1>2, <1>4, <1>6, <1>10
  <2> QED BY <1>1, <2>1
<1>12. /\ c \in Query /\ c.queue = rows /\ c.at = "consider" /\ c.into = query.into
       /\ c.args = query.args /\ c.kept = query.kept /\ c.term = query.term
       /\ c.lexical = query.lexical /\ c.semantic = query.semantic /\ c.graph = query.graph
       /\ c.checked = query.checked /\ c.seeds = query.seeds /\ c.found = query.found
  BY <1>1, <1>7, <1>10, SearchCall DEF Query
<1>13. Placed(c)
  BY <1>1, <1>12, SearchCall DEF Placed, PlacesOf
<1>14. Answers(c)
  <2>1. /\ row.state \in {"active", "stale", "archived"} => row.id \in seen
        /\ row.id \in steady => row.state \in {"active", "stale"}
    BY <1>1, <1>5, RowOfNow
  <2> QED BY <1>1, <1>2, <1>9, <1>12, <2>1, SearchCall DEF Answers, May, Looking
<1>15. Queued(c) = Queued(query)
  <2>1. Queued(c) \subseteq Queued(query)
    BY <1>2, <1>3, <1>5, <1>9, <1>12 DEF Queued
  <2>2. Queued(query) \subseteq Queued(c)
    BY <1>2, <1>5, <1>9, <1>12 DEF Queued
  <2> QED BY <2>1, <2>2
<1>16. Complete(c)
  BY <1>1, <1>12, <1>15, SearchCall DEF Complete, Looking, Wanted
<1> QED
  BY <1>1, <1>11, <1>12, <1>13, <1>14, <1>16, SearchCall, SearchMoves

(* The row at the head is looked at: what is steady is taken, and what is  *)
(* taken may be answered.                                                  *)
LEMMA ConsiderKeeps ==
    ASSUME RecallInv, Consider
    PROVE  RecallInv'
<1>1. query.at = "consider" /\ query.queue # <<>> /\ query.queue[1].state # "unread"
  BY DEF Consider
<1>2. PICK q, row, kept : q = query.queue /\ row = q[1] /\ kept = query.kept
  OBVIOUS
<1>3. PICK full \in BOOLEAN : full = (query.into = "sibling" /\ query.expanded >= query.args.expand)
  OBVIOUS
<1>4. PICK taken \in BOOLEAN :
        taken = (row.id \notin Elements(kept) /\ Eligible(row, query.args))
  OBVIOUS
<1>5. Take(taken, full)
  BY <1>2, <1>3, <1>4 DEF Consider
<1>6. /\ q \in Seq(Rows) /\ kept \in Seq(Facts) /\ row \in Rows /\ row.id \in Facts
      /\ Tail(q) \in Seq(Rows) /\ Elements(q) = {row} \cup Elements(Tail(q))
  <2>1. q \in Seq(Rows) /\ kept \in Seq(Facts) /\ q # <<>>
    BY <1>1, <1>2, SearchCall DEF Query
  <2>2. row \in Rows /\ Tail(q) \in Seq(Rows) /\ Elements(q) = {row} \cup Elements(Tail(q))
    BY <2>1, <1>2, ShortenedList
  <2>3. row.id \in Facts
    BY <2>2 DEF Rows
  <2> QED BY <2>1, <2>2, <2>3
<1>7. PICK rest : rest = IF full THEN <<>> ELSE Tail(q)
  OBVIOUS
<1>8. PICK more : more = IF taken /\ ~full THEN Append(kept, row.id) ELSE kept
  OBVIOUS
<1>9. PICK n : n = IF taken /\ ~full /\ query.into = "sibling" THEN query.expanded + 1
                   ELSE query.expanded
  OBVIOUS
<1>10. PICK gone : gone = IF taken /\ query.into = "vectors" /\ row.state = "invalid"
                          THEN query.lapsed \cup {row.id} ELSE query.lapsed
  OBVIOUS
<1>11. PICK c : c = [query EXCEPT !.queue = rest, !.kept = more, !.lapsed = gone, !.expanded = n]
  OBVIOUS
<1>12. Becomes(c)
  BY <1>2, <1>5, <1>7, <1>8, <1>9, <1>10, <1>11 DEF Take
<1>13. rest \in Seq(Rows) /\ more \in Seq(Facts) /\ n \in Nat /\ gone \subseteq Facts
  <2>1. rest \in Seq(Rows)
    BY <1>6, <1>7
  <2>2. more \in Seq(Facts)
    BY <1>6, <1>8, ExtendedList
  <2>3. n \in Nat
    BY <1>1, <1>9, SearchCall DEF Query
  <2>4. gone \subseteq Facts
    BY <1>1, <1>6, <1>10, SearchCall DEF Query
  <2> QED BY <2>1, <2>2, <2>3, <2>4
<1>14. /\ c \in Query /\ c.queue = rest /\ c.kept = more /\ c.at = "consider" /\ c.into = query.into
       /\ c.args = query.args /\ c.term = query.term
       /\ c.lexical = query.lexical /\ c.semantic = query.semantic /\ c.graph = query.graph
       /\ c.checked = query.checked /\ c.seeds = query.seeds /\ c.found = query.found
  BY <1>1, <1>11, <1>13, SearchCall DEF Query
<1>15. Placed(c)
  BY <1>1, <1>14, SearchCall DEF Placed, PlacesOf
<1>16. /\ Elements(more) = IF taken /\ ~full THEN Elements(kept) \cup {row.id} ELSE Elements(kept)
       /\ Elements(rest) \subseteq Elements(q)
       /\ ~full => Elements(q) = {row} \cup Elements(rest)
  <2>1. Elements(more) = IF taken /\ ~full THEN Elements(kept) \cup {row.id} ELSE Elements(kept)
    <3>1. Elements(Append(kept, row.id)) = Elements(kept) \cup {row.id}
      BY <1>6, ExtendedList
    <3> QED BY <3>1, <1>8
  <2>2. Elements(rest) \subseteq Elements(q)
    BY <1>6, <1>7, NoElements
  <2> QED BY <2>1, <2>2, <1>6, <1>7
<1>17. taken => May(row.id, query)
  <2> SUFFICES ASSUME Eligible(row, query.args) PROVE May(row.id, query)
    BY <1>4
  <2>1. /\ state[row.id] \notin {"forgotten", "archived"} /\ row.state # "forgotten"
        /\ row.state = "invalid" => query.args.asof /\ row.id \in late
        /\ query.args.strict => row.id \in anchored
    BY DEF Eligible, Admitted, Archived, HasEvidence
  <2>2. state[row.id] \in {"active", "stale", "invalid"}
    <3>1. state[row.id] \in States
      BY <1>1, <1>6, SearchCall DEF Typed
    <3> QED BY <2>1, <3>1 DEF States
  <2>3. row.id \in shown
    BY <1>1, <1>6, <2>2, RowOfNow
  <2>4. row.id \in seen
    <3>1. row.state \in {"active", "stale", "archived", "invalid"}
      BY <1>1, <1>2, <1>6, <2>1 DEF Rows, States
    <3>2. CASE row.state = "invalid"
      BY <1>1, <1>6, <2>1, <2>2, <3>2, RowOfNow
    <3>3. CASE row.state \in {"active", "stale", "archived"}
      BY <1>1, <1>2, <1>6, <3>3, SearchCall DEF Answers
    <3> QED BY <3>1, <3>2, <3>3
  <2> QED BY <2>1, <2>3, <2>4 DEF May
<1>18. query.into \in {"lexical", "again"} /\ row.id \in steady => taken \/ row.id \in Elements(kept)
  <2> SUFFICES ASSUME query.into \in {"lexical", "again"}, row.id \in steady
               PROVE  Eligible(row, query.args)
    BY <1>4
  <2>1. row.state \in {"active", "stale"}
    BY <1>1, <1>2, <1>6, SearchCall DEF Answers, Looking
  <2>2. state[row.id] \in {"active", "stale"} /\ (query.args.strict => row.id \in anchored)
    BY <1>1, <1>6, RowOfNow
  <2> QED BY <2>1, <2>2 DEF Eligible, Admitted, Archived, HasEvidence
<1>19. Answers(c)
  BY <1>1, <1>2, <1>14, <1>16, <1>17, SearchCall DEF Answers, May, Looking
<1>20. Elements(kept) \subseteq Elements(more)
  BY <1>16
<1>21. ASSUME query.into \in {"lexical", "again"}, NEW x \in steady, x \in Elements(kept) \cup Queued(query)
       PROVE  x \in Elements(more) \cup Queued(c)
  <2>1. ~full
    BY <1>3, <1>21
  <2>2. CASE x \in Elements(kept)
    BY <2>2, <1>20
  <2>3. CASE x \in Queued(query)
    <3>1. PICK r \in Elements(q) : x = r.id
      BY <2>3, <1>2 DEF Queued
    <3>2. CASE r = row
      BY <3>1, <3>2, <2>1, <1>16, <1>18, <1>21
    <3>3. CASE r \in Elements(rest)
      BY <3>1, <3>3, <1>14 DEF Queued
    <3> QED BY <3>1, <3>2, <3>3, <2>1, <1>16
  <2> QED BY <1>21, <2>2, <2>3
<1>22. Complete(c)
  <2>1. CASE query.into = "sibling"
    BY <1>1, <1>2, <1>14, <1>20, <2>1, SearchCall DEF Complete, Looking, Wanted
  <2>2. CASE query.into # "sibling"
    <3>1. \A i : Wanted(c, i) = Wanted(query, i) /\ Wanted(c, i) \subseteq steady
      BY <1>14 DEF Wanted
    <3>2. Complete(query) /\ query.at = "consider"
      BY <1>1, SearchCall
    <3>3. Looking(c, {"lexical"}) =>
            \A i \in DOMAIN c.args.terms : i <= c.term => Wanted(c, i) \subseteq Elements(c.kept) \cup Queued(c)
      BY <1>2, <1>14, <1>21, <3>1, <3>2 DEF Complete, Looking
    <3>4. Looking(c, {"vectors", "graph", "again", "last"}) =>
            \A i \in DOMAIN c.args.terms : Wanted(c, i) \subseteq Elements(c.lexical)
      BY <1>2, <1>14, <3>1, <3>2 DEF Complete, Looking
    <3>5. Looking(c, {"again"}) /\ Len(c.lexical) <= c.args.limit =>
            Elements(c.lexical) \cap steady \subseteq Elements(c.kept) \cup Queued(c)
      BY <1>2, <1>14, <1>21, <3>2 DEF Complete, Looking
    <3>6. Looking(c, {"last"}) /\ Len(c.lexical) <= c.args.limit =>
            Elements(c.lexical) \cap steady \subseteq Elements(c.checked)
      BY <1>2, <1>14, <3>2 DEF Complete, Looking
    <3>7. ~Looking(c, {"sibling"}) /\ c.at = "consider"
      BY <1>14, <2>2 DEF Looking
    <3> QED BY <3>3, <3>4, <3>5, <3>6, <3>7 DEF Complete
  <2> QED BY <2>1, <2>2
<1> QED
  BY <1>1, <1>12, <1>14, <1>15, <1>19, <1>22, SearchCall, SearchMoves

-----------------------------------------------------------------------------
(* What is chosen of lists.                                                *)

(* The common denominator is a number.                                     *)
LEMMA ScaleIsNatural == Scale \in Nat
<1> DEFINE N == Cardinality(Facts)
<1> DEFINE step == [n \in 1..N |-> [v \in Nat |-> (60 + n) * v]]
<1> DEFINE Body(f) == [n \in 0..N |-> IF n = 0 THEN 1 ELSE (60 + n) * f[n - 1]]
<1> DEFINE product == CHOOSE f : f = Body(f)
<1>1. N \in Nat
  BY RecallAssumption, FS_CardinalityType
<1>2. Scale = product[N]
  BY DEF Scale
<1> HIDE DEF N
<1>3. \A n \in 0..N : \A v \in Nat : (60 + n) * v \in Nat
  OBVIOUS
<1>4. \E f : f = Body(f)
  <2>1. IsStep(step, N, Nat)
    BY <1>3 DEF IsStep
  <2>2. \A n \in 1..N : \A v \in Nat : step[n][v] = (60 + n) * v
    OBVIOUS
  <2>3. PICK f : Follows(f, N, Nat, 1, step)
    <3> HIDE DEF step
    <3>1. 1 \in Nat
      OBVIOUS
    <3> QED BY <1>1, <2>1, <3>1, PrefixRecursionExists, Zenon
  <2> HIDE DEF step
  <2>4. \A n \in 1..N : f[n - 1] \in Nat
    BY <1>1, <2>3 DEF Follows
  <2>5. ASSUME NEW n \in 0..N
        PROVE  f[n] = IF n = 0 THEN 1 ELSE (60 + n) * f[n - 1]
    <3>1. CASE n = 0
      BY <3>1, <2>3 DEF Follows
    <3>2. CASE n \in 1..N
      <4>1. f[n] = step[n][f[n - 1]] /\ f[n - 1] \in Nat
        BY <3>2, <2>3, <2>4 DEF Follows
      <4>2. f[n] = (60 + n) * f[n - 1]
        BY <4>1, <2>2, <3>2
      <4>3. n # 0
        BY <3>2
      <4> QED BY <4>2, <4>3
    <3> QED BY <3>1, <3>2, <1>1
  <2>6. f = Body(f)
    BY <2>3, <2>5 DEF Follows
  <2> QED BY <2>6
<1>5. product = Body(product)
  <2> HIDE DEF Body
  <2> QED BY <1>4
<1> HIDE DEF product
<1>6. \A n \in 0..N : product[n] \in Nat
  <2> DEFINE S == {n \in 0..N : product[n] \in Nat}
  <2>0. \A n \in 0..N : product[n] = IF n = 0 THEN 1 ELSE (60 + n) * product[n - 1]
    BY <1>5
  <2>1. 0 \in S
    <3>1. 0 \in 0..N
      BY <1>1
    <3> QED BY <2>0, <3>1
  <2>2. ASSUME NEW n \in 0..(N - 1), n \in S
        PROVE  n + 1 \in S
    <3>1. n + 1 \in 0..N /\ n + 1 # 0 /\ (n + 1) - 1 = n
      BY <1>1
    <3>2. product[n + 1] = (60 + (n + 1)) * product[n]
      BY <2>0, <3>1
    <3>3. product[n] \in Nat
      BY <2>2
    <3>4. product[n + 1] \in Nat
      BY <1>3, <3>1, <3>2, <3>3
    <3> QED BY <3>1, <3>4
  <2>3. \A n \in 0..N : n \in S
    <3> HIDE DEF S
    <3> QED BY <1>1, <2>1, <2>2, InductionUpTo
  <2> QED BY <2>3
<1> QED
  BY <1>1, <1>2, <1>6

(* The first of some facts in an order.                                    *)
LEMMA FirstInOrder ==
    ASSUME NEW ids \in SUBSET Facts, NEW before, Orders(before, ids), NEW n \in Nat,
           NEW s, s = First(InOrder(ids, before), n)
    PROVE  /\ s \in Seq(Facts) /\ Elements(s) \subseteq ids /\ Len(s) \in Nat
           /\ Len(s) < n => Elements(s) = ids
<1>1. IsFiniteSet(ids)
  BY RecallAssumption, FS_Subset
<1>2. PICK all : all = InOrder(ids, before)
  OBVIOUS
<1>3. all \in Seq(ids) /\ Elements(all) = ids
  BY <1>1, <1>2, InOrderLists
<1>4. all \in Seq(Facts) /\ Len(all) \in Nat
  BY <1>3, SeqMonotonic
<1>5. /\ s \in Seq(Facts) /\ Elements(s) \subseteq Elements(all)
      /\ Len(s) = IF n < Len(all) THEN n ELSE Len(all)
      /\ Len(all) <= n => s = all
  BY <1>2, <1>4, CutList
<1> QED
  BY <1>3, <1>4, <1>5

(* An order by numbers, the larger first, and by ids among equals.         *)
LEMMA RankedOrder ==
    ASSUME NEW ids \in SUBSET Facts, NEW rank \in [ids -> Int], NEW before,
           \A x, y \in ids : <<x, y>> \in before <=> \/ rank[x] > rank[y]
                                                     \/ rank[x] = rank[y] /\ x < y
    PROVE  Orders(before, ids)
<1> DEFINE R(x, y) == rank[x] > rank[y] \/ (rank[x] = rank[y] /\ x < y)
<1>1. \A x \in ids : x \in Int /\ rank[x] \in Int
  BY RecallAssumption
<1>2. \A x, y \in ids : x = y \/ R(x, y) \/ R(y, x)
  BY <1>1
<1>3. \A x, y, z \in ids : R(x, y) /\ R(y, z) => R(x, z)
  BY <1>1
<1>4. \A x \in ids : ~R(x, x)
  BY <1>1
<1>5. \A x, y \in ids : <<x, y>> \in before <=> R(x, y)
  OBVIOUS
<1> HIDE DEF R
<1> QED
  BY <1>2, <1>3, <1>4, <1>5, Zenon DEF Orders

(* The vectors chosen.                                                     *)
Closer(all) == {p \in all \X all : \/ Similarity[p[1]] > Similarity[p[2]]
                                   \/ Similarity[p[1]] = Similarity[p[2]] /\ p[1] < p[2]}
(* The most similar facts are chosen among those that passed.              *)
LEMMA ClosestChosen ==
    ASSUME NEW all \in SUBSET Facts, NEW n \in Nat
    PROVE  /\ First(InOrder(all, Closer(all)), n) \in Seq(Facts)
           /\ Elements(First(InOrder(all, Closer(all)), n)) \subseteq all
<1> DEFINE closer == Closer(all)
<1> DEFINE rank == [x \in all |-> Similarity[x]]
<1>1. rank \in [all -> Int]
  BY RecallAssumption
<1>2. \A x, y \in all : <<x, y>> \in closer <=> \/ rank[x] > rank[y]
                                                \/ rank[x] = rank[y] /\ x < y
  BY DEF Closer
<1> HIDE DEF rank, closer
<1>3. Orders(closer, all)
  BY <1>1, <1>2, RankedOrder
<1> QED
  BY <1>3, FirstInOrder DEF closer

(* The fusion of three lists has nothing of its own, and unless it is full *)
(* it has all of them.                                                     *)
LEMMA FusedLists ==
    ASSUME NEW lexical \in Seq(Facts), NEW semantic \in Seq(Facts), NEW graph \in Seq(Facts),
           NEW n \in Nat
    PROVE  /\ Fused(lexical, semantic, graph, n) \in Seq(Facts)
           /\ Elements(Fused(lexical, semantic, graph, n))
                \subseteq Elements(lexical) \cup Elements(semantic) \cup Elements(graph)
           /\ Len(Fused(lexical, semantic, graph, n)) < n =>
                Elements(lexical) \subseteq Elements(Fused(lexical, semantic, graph, n))
<1> DEFINE s == Fused(lexical, semantic, graph, n)
<1> DEFINE all == Elements(lexical) \cup Elements(semantic) \cup Elements(graph)
<1> DEFINE score(f) == Contribution(lexical, f) + Contribution(semantic, f) + Contribution(graph, f)
<1> DEFINE before == {p \in all \X all : \/ score(p[1]) > score(p[2])
                                         \/ score(p[1]) = score(p[2]) /\ p[1] < p[2]}
<1>1. ASSUME NEW t \in Seq(Facts), NEW f PROVE Contribution(t, f) \in Int
  <2> DEFINE ranks == {i \in DOMAIN t : t[i] = f}
  <2>1. CASE ranks = {}
    BY <2>1 DEF Contribution
  <2>2. CASE ranks # {}
    <3>1. PICK i \in ranks : i = CHOOSE j \in ranks : TRUE
      BY <2>2
    <3>2. i \in Nat /\ 60 + i \in Nat \ {0}
      OBVIOUS
    <3>3. Contribution(t, f) = Scale \div (60 + i)
      BY <2>2, <3>1 DEF Contribution
    <3> QED BY <3>2, <3>3, ScaleIsNatural
  <2> QED BY <2>1, <2>2
<1>2. \A f : score(f) \in Int
  BY <1>1
<1>3. all \in SUBSET Facts
  BY ElementsOfSeq
<1>4. s = First(InOrder(all, before), n)
  BY DEF Fused
<1> HIDE DEF s
<1> DEFINE rank == [f \in all |-> score(f)]
<1> HIDE DEF score
<1>5. rank \in [all -> Int]
  BY <1>2
<1>6. \A x, y \in all : <<x, y>> \in before <=> \/ rank[x] > rank[y]
                                                \/ rank[x] = rank[y] /\ x < y
  <2> HIDE DEF all
  <2> QED OBVIOUS
<1> HIDE DEF rank, before, all
<1>7. Orders(before, all)
  BY <1>3, <1>5, <1>6, RankedOrder
<1>8. /\ s \in Seq(Facts) /\ Elements(s) \subseteq all /\ Len(s) \in Nat
      /\ Len(s) < n => Elements(s) = all
  BY <1>3, <1>4, <1>7, FirstInOrder
<1> QED
  BY <1>8 DEF all, s

-----------------------------------------------------------------------------
(* The call has looked at all the rows of a list.                          *)

(* What the next part of the call starts from.                             *)
Ready(c) ==
  /\ c \in Query /\ c.args = query.args /\ c.found \in Seq(Facts) /\ c.queue = <<>>
  /\ Answers(c)

(* The call goes on at another place, or with the hits.                    *)
LEMMA PlaceTaken ==
    ASSUME NEW c \in Query, NEW to \in Places, NEW n \in Nat \ {0}
    PROVE  [c EXCEPT !.at = to, !.term = n] \in Query
BY DEF Query

(* The hits are facts, and the siblings begin at the first.                *)
LEMMA HitsTaken ==
    ASSUME NEW c \in Query, NEW to \in Places, NEW hits \in Seq(Facts)
    PROVE  [c EXCEPT !.at = to, !.kept = hits, !.seeds = hits, !.term = 1] \in Query
<1>1. 1 \in Nat \ {0}
  OBVIOUS
<1> QED BY <1>1 DEF Query

(* The hits are known.                                                     *)
LEMMA ChosenKeeps ==
    ASSUME RecallInv, query.at = "consider", NEW c \in Query, Ready(c), NEW hits \in Seq(Facts),
           \A f \in Elements(hits) : May(f, query),
           Len(c.lexical) <= c.args.limit /\ Len(hits) < c.args.limit =>
             \A i \in DOMAIN c.args.terms : Wanted(query, i) \subseteq Elements(hits),
           Becomes(Chosen(c, hits))
    PROVE  RecallInv'
<1>1. PICK to : to = IF c.args.expand = 0 THEN "done" ELSE "sibling"
  OBVIOUS
<1>2. to \in {"done", "sibling"} /\ to \in Places
  BY <1>1 DEF Places
<1>3. PICK d : d = [c EXCEPT !.at = to, !.kept = hits, !.seeds = hits, !.term = 1]
  OBVIOUS
<1>4. Becomes(d)
  BY <1>1, <1>3 DEF Chosen
<1>5. /\ d \in Query /\ d.at = to /\ d.kept = hits /\ d.seeds = hits /\ d.args = query.args
      /\ d.queue = <<>> /\ d.lexical = c.lexical /\ d.semantic = c.semantic /\ d.graph = c.graph
      /\ d.checked = c.checked /\ d.found = c.found
  <2>1. d \in Query
    BY <1>2, <1>3, HitsTaken
  <2>2. /\ d.at = to /\ d.kept = hits /\ d.seeds = hits /\ d.args = c.args
        /\ d.queue = c.queue /\ d.lexical = c.lexical /\ d.semantic = c.semantic
        /\ d.graph = c.graph /\ d.checked = c.checked /\ d.found = c.found
    BY <1>3 DEF Query
  <2>3. c.args = query.args /\ c.queue = <<>>
    BY DEF Ready
  <2> QED BY <2>1, <2>2, <2>3
<1>6. Placed(d)
  BY <1>2, <1>5, SearchCall DEF Placed, PlacesOf, Ready
<1>7. Answers(d)
  BY <1>5, NoElements DEF Answers, May, Ready
<1>8. Complete(d)
  <2>1. \A i : Wanted(d, i) = Wanted(query, i)
    BY <1>5 DEF Wanted
  <2>2. c.args = query.args
    BY DEF Ready
  <2>3. ~Looking(d, {"lexical"}) /\ ~Looking(d, {"vectors", "graph", "again", "last"})
        /\ ~Looking(d, {"again"}) /\ ~Looking(d, {"last"})
        /\ d.at \notin {"search", "fallback", "vectors", "entities", "walk"}
    BY <1>2, <1>5 DEF Looking
  <2> QED BY <1>5, <2>1, <2>2, <2>3 DEF Complete
<1> QED
  BY <1>2, <1>4, <1>5, <1>6, <1>7, <1>8, SearchCall, SearchMoves

(* Facts that were found are looked at again.                              *)
LEMMA HeldKeeps ==
    ASSUME RecallInv, query.at = "consider", NEW c \in Query, Ready(c), NEW ids \in Seq(Facts),
           \A f \in Elements(ids) : May(f, query), NEW lapsed, NEW into \in {"again", "last"},
           into = "again" => lapsed = {},
           \A i \in DOMAIN c.args.terms : Wanted(query, i) \subseteq Elements(c.lexical),
           into = "again" /\ Len(c.lexical) <= c.args.limit =>
             Elements(c.lexical) \subseteq Elements(ids),
           into = "last" /\ Len(c.lexical) <= c.args.limit =>
             Elements(c.lexical) \cap steady \subseteq Elements(c.checked),
           Becomes(LookAt(c, Held(ids, lapsed), into))
    PROVE  RecallInv'
<1>1. PICK rows : rows = Held(ids, lapsed)
  OBVIOUS
<1>2. /\ rows \in Seq(Rows)
      /\ \A r \in Elements(rows) : r.id \in Elements(ids) /\ r.state \in {"active", "invalid"}
      /\ into = "again" => \A r \in Elements(rows) : r.state = "active"
      /\ \A f \in Elements(ids) : \E r \in Elements(rows) : r.id = f
  BY <1>1, RowsHeld
<1>3. PICK d : d = LookAt(c, rows, into)
  OBVIOUS
<1>4. Becomes(d)
  BY <1>1, <1>3
<1>5. Turned(d, c, rows, into, <<>>)
  BY <1>2, <1>3, TurnsToAll DEF Kinds
<1>6. d \in Query /\ d.args = query.args
  BY <1>5 DEF Turned, Ready
<1>7. Placed(d)
  BY <1>5, <1>6, SearchCall DEF Turned, Placed, PlacesOf, Kinds, Ready
<1>8. Answers(d)
  BY <1>2, <1>5, <1>6, NoElements DEF Answers, May, Ready, Turned, Looking
<1>9. Complete(d)
  <2>1. Elements(ids) \subseteq Queued(d)
    BY <1>2, <1>5 DEF Queued, Turned
  <2>2. \A i : Wanted(d, i) = Wanted(query, i)
    BY <1>6 DEF Wanted
  <2>3. /\ d.lexical = c.lexical /\ d.checked = c.checked /\ c.args = query.args
        /\ d.into = into /\ d.at = "consider"
    BY <1>5 DEF Turned, Ready
  <2>4. ~Looking(d, {"lexical"}) /\ ~Looking(d, {"sibling"})
    BY <2>3 DEF Looking
  <2>5. Looking(d, {"again"}) => into = "again"
    BY <2>3 DEF Looking
  <2>6. Looking(d, {"last"}) => into = "last"
    BY <2>3 DEF Looking
  <2>7. d.at \notin {"search", "fallback", "vectors", "entities", "walk", "sibling", "done"}
    BY <2>3
  <2> QED BY <1>6, <2>1, <2>2, <2>3, <2>4, <2>5, <2>6, <2>7 DEF Complete
<1> QED
  BY <1>4, <1>5, <1>6, <1>7, <1>8, <1>9, SearchCall, SearchMoves DEF Turned

(* What the words found is checked again before the ranks are fused.       *)
LEMMA AgainKeeps ==
    ASSUME RecallInv, query.at = "consider", NEW c \in Query, Ready(c),
           \A i \in DOMAIN c.args.terms : Wanted(query, i) \subseteq Elements(c.lexical),
           Becomes(LookAt(c, Held(First(c.lexical, c.args.limit), {}), "again"))
    PROVE  RecallInv'
<1>1. c.lexical \in Seq(Facts) /\ c.args = query.args /\ query.args.limit \in Nat
  BY SearchCall DEF Ready, Query, Request
<1>2. PICK ids : ids = First(c.lexical, c.args.limit)
  OBVIOUS
<1>3. /\ ids \in Seq(Facts) /\ Elements(ids) \subseteq Elements(c.lexical)
      /\ Len(c.lexical) <= c.args.limit => ids = c.lexical
  BY <1>1, <1>2, CutList
<1>4. \A f \in Elements(ids) : May(f, query)
  BY <1>1, <1>3 DEF Ready, Answers, May
<1> QED
  BY <1>2, <1>3, <1>4, HeldKeeps

(* The words and the vectors have found theirs.                            *)
LEMMA GraphKeeps ==
    ASSUME RecallInv, query.at = "consider", NEW c \in Query, Ready(c),
           \A i \in DOMAIN c.args.terms : Wanted(query, i) \subseteq Elements(c.lexical),
           Becomes(Graph(c))
    PROVE  RecallInv'
<1>1. CASE c.args.depth > 0 /\ c.args.terms # <<>>
  <2>1. PICK d : d = [c EXCEPT !.at = "entities", !.term = 1]
    OBVIOUS
  <2>2. Becomes(d)
    BY <1>1, <2>1 DEF Graph
  <2>3. "entities" \in Places
    BY DEF Places
  <2>4. /\ d \in Query /\ d.at = "entities" /\ d.term = 1 /\ d.kept = c.kept /\ d.seeds = c.seeds
        /\ d.args = query.args
        /\ d.queue = c.queue /\ d.lexical = c.lexical /\ d.semantic = c.semantic /\ d.graph = c.graph
        /\ d.checked = c.checked /\ d.found = c.found
    <3>1. d \in Query
      <4>1. 1 \in Nat \ {0}
        OBVIOUS
      <4> QED BY <2>1, <2>3, <4>1, PlaceTaken
    <3>2. /\ d.at = "entities" /\ d.term = 1 /\ d.kept = c.kept /\ d.seeds = c.seeds
          /\ d.args = c.args
          /\ d.queue = c.queue /\ d.lexical = c.lexical /\ d.semantic = c.semantic
          /\ d.graph = c.graph /\ d.checked = c.checked /\ d.found = c.found
      BY <2>1 DEF Query
    <3>3. c.args = query.args
      BY DEF Ready
    <3> QED BY <3>1, <3>2, <3>3
  <2>5. 1 <= Len(query.args.terms)
    BY <1>1, SearchCall, EmptySeq DEF Ready, Request
  <2>6. Placed(d)
    BY <2>4, <2>5, SearchCall DEF Placed, PlacesOf, Ready
  <2>7. Answers(d)
    BY <2>4 DEF Answers, May, Looking, Ready
  <2>8. Complete(d)
    BY <2>4 DEF Complete, Looking, Wanted, Ready
  <2> QED BY <2>2, <2>4, <2>6, <2>7, <2>8, SearchCall, SearchMoves
<1>2. CASE ~(c.args.depth > 0 /\ c.args.terms # <<>>)
  <2>1. Becomes(LookAt(c, Held(First(c.lexical, c.args.limit), {}), "again"))
    BY <1>2 DEF Graph
  <2> QED BY <2>1, AgainKeeps
<1> QED
  BY <1>1, <1>2

(* The last term was searched.                                             *)
LEMMA AfterLexicalKeeps ==
    ASSUME RecallInv, query.at = "consider", query.queue = <<>>,
           \A i \in DOMAIN query.args.terms : Wanted(query, i) \subseteq Elements(query.kept),
           Becomes(AfterLexical(query))
    PROVE  RecallInv'
<1>1. PICK c : c = [query EXCEPT !.lexical = query.kept]
  OBVIOUS
<1>2. /\ c \in Query /\ c.args = query.args /\ c.lexical = query.kept /\ c.kept = query.kept
      /\ c.queue = query.queue /\ c.semantic = query.semantic /\ c.graph = query.graph
      /\ c.checked = query.checked /\ c.found = query.found /\ c.seeds = query.seeds
  BY <1>1, SearchCall DEF Query
<1>3. Ready(c)
  BY <1>2, NoElements, SearchCall DEF Ready, Answers, May, Looking
<1>4. \A i \in DOMAIN c.args.terms : Wanted(query, i) \subseteq Elements(c.lexical)
  BY <1>2
<1>5. CASE ~FusesRanks(query)
  <2>1. PICK hits : hits = First(query.kept, query.args.limit)
    OBVIOUS
  <2>2. Becomes(Chosen(c, hits))
    BY <1>1, <1>5, <2>1 DEF AfterLexical
  <2>3. query.kept \in Seq(Facts) /\ query.args.limit \in Nat
    BY SearchCall DEF Query, Request
  <2>4. /\ hits \in Seq(Facts) /\ Elements(hits) \subseteq Elements(query.kept)
        /\ Len(query.kept) <= query.args.limit => hits = query.kept
    BY <2>1, <2>3, CutList
  <2>5. \A f \in Elements(hits) : May(f, query)
    BY <2>4, SearchCall DEF Answers, May
  <2>6. Len(c.lexical) <= c.args.limit =>
          \A i \in DOMAIN c.args.terms : Wanted(query, i) \subseteq Elements(hits)
    BY <1>2, <1>4, <2>4
  <2> QED BY <1>2, <1>3, <2>2, <2>4, <2>5, <2>6, ChosenKeeps
<1>6. CASE FusesRanks(query) /\ query.args.semantic
  <2>1. PICK d : d = [c EXCEPT !.at = "vectors"]
    OBVIOUS
  <2>2. Becomes(d)
    BY <1>1, <1>6, <2>1 DEF AfterLexical
  <2>3. /\ d \in Query /\ d.at = "vectors" /\ d.args = c.args /\ d.lexical = c.lexical
        /\ d.queue = c.queue /\ d.semantic = c.semantic /\ d.graph = c.graph /\ d.kept = c.kept
        /\ d.checked = c.checked /\ d.found = c.found /\ d.seeds = c.seeds
    <3>1. "vectors" \in Places
      BY DEF Places
    <3> QED BY <1>2, <2>1, <3>1 DEF Query
  <2>4. Placed(d)
    BY <1>2, <2>3, SearchCall DEF Placed, PlacesOf
  <2>5. Answers(d)
    BY <1>2, <1>3, <2>3 DEF Ready, Answers, May, Looking
  <2>6. Complete(d)
    BY <1>2, <1>4, <2>3 DEF Complete, Looking, Wanted
  <2> QED BY <1>2, <2>2, <2>3, <2>4, <2>5, <2>6, SearchCall, SearchMoves
<1>7. CASE FusesRanks(query) /\ ~query.args.semantic
  <2>1. Becomes(Graph(c))
    BY <1>1, <1>7 DEF AfterLexical
  <2> QED BY <1>2, <1>3, <1>4, <2>1, GraphKeeps
<1> QED
  BY <1>5, <1>6, <1>7

(* The vectors were looked at.                                             *)
LEMMA AfterVectorsKeeps ==
    ASSUME RecallInv, query.at = "consider", query.queue = <<>>,
           \A i \in DOMAIN query.args.terms : Wanted(query, i) \subseteq Elements(query.lexical),
           Becomes(AfterVectors(query))
    PROVE  RecallInv'
<1>1. PICK all : all = Elements(query.kept)
  OBVIOUS
<1>2. PICK closer : closer = Closer(all)
  OBVIOUS
<1>3. PICK s : s = First(InOrder(all, closer), query.args.limit)
  OBVIOUS
<1>4. PICK c : c = [query EXCEPT !.semantic = s]
  OBVIOUS
<1>5. Becomes(Graph(c))
  BY <1>1, <1>2, <1>3, <1>4 DEF AfterVectors, Closer
<1>6. s \in Seq(Facts) /\ Elements(s) \subseteq Elements(query.kept)
  <2>1. query.kept \in Seq(Facts) /\ query.args.limit \in Nat
    BY SearchCall DEF Query, Request
  <2>2. all \in SUBSET Facts
    BY <1>1, <2>1, ElementsOfSeq
  <2> QED BY <1>1, <1>2, <1>3, <2>1, <2>2, ClosestChosen
<1>7. /\ c \in Query /\ c.args = query.args /\ c.lexical = query.lexical /\ c.kept = query.kept
      /\ c.queue = query.queue /\ c.semantic = s /\ c.graph = query.graph
      /\ c.checked = query.checked /\ c.found = query.found /\ c.seeds = query.seeds
  BY <1>4, <1>6, SearchCall DEF Query
<1>8. Ready(c)
  BY <1>6, <1>7, NoElements, SearchCall DEF Ready, Answers, May, Looking
<1> QED
  BY <1>5, <1>7, <1>8, GraphKeeps

(* A list was looked at to its end.                                        *)
LEMMA AllConsideredKeeps ==
    ASSUME RecallInv, AllConsidered
    PROVE  RecallInv'
<1>1. query.at = "consider" /\ query.queue = <<>> /\ Becomes(Settled(query))
  BY DEF AllConsidered
<1>2. query.into \in Kinds
  BY <1>1, SearchCall DEF Placed
<1>3. Queued(query) = {}
  BY <1>1, NoElements DEF Queued
<1>4. CASE query.into = "lexical"
  <2>1. \A i \in DOMAIN query.args.terms : i <= query.term =>
          Wanted(query, i) \subseteq Elements(query.kept)
    BY <1>1, <1>3, <1>4, SearchCall DEF Complete, Looking
  <2>2. query.args.terms \in Seq(Terms) /\ query.term \in Nat \ {0}
    BY <1>1, SearchCall DEF Request, Query
  <2>3. CASE query.term < Len(query.args.terms)
    <3>1. PICK n : n = query.term + 1
      OBVIOUS
    <3>2. PICK c : c = [query EXCEPT !.at = "search", !.term = n]
      OBVIOUS
    <3>3. Settled(query) = c
      BY <1>4, <2>3, <3>1, <3>2 DEF Settled
    <3>4. n \in Nat \ {0} /\ n <= Len(query.args.terms)
      BY <2>2, <2>3, <3>1
    <3>5. c \in Query
      BY <1>1, <3>2, <3>4, SearchCall, PlaceTaken DEF Places
    <3>6. /\ c.at = "search" /\ c.term = n /\ c.args = query.args /\ c.lexical = query.lexical
          /\ c.kept = query.kept /\ c.queue = query.queue /\ c.semantic = query.semantic
          /\ c.graph = query.graph /\ c.checked = query.checked /\ c.found = query.found
          /\ c.seeds = query.seeds
      BY <1>1, <3>2, SearchCall DEF Query
    <3>7. Placed(c)
      BY <1>1, <3>4, <3>6, SearchCall DEF Placed, PlacesOf
    <3>8. Answers(c)
      BY <1>1, <3>6, SearchCall DEF Answers, May, Looking
    <3>9. \A i \in DOMAIN c.args.terms : i < n => i <= query.term
      BY <2>2, <3>1, <3>6
    <3>10. Complete(c)
      BY <2>1, <3>6, <3>9 DEF Complete, Looking, Wanted
    <3> QED BY <1>1, <3>3, <3>5, <3>6, <3>7, <3>8, <3>10, SearchCall, SearchMoves
  <2>4. CASE ~(query.term < Len(query.args.terms))
    <3>1. Settled(query) = AfterLexical(query)
      BY <1>4, <2>4 DEF Settled
    <3>2. \A i \in DOMAIN query.args.terms : i <= query.term
      BY <2>2, <2>4
    <3> QED BY <1>1, <2>1, <3>1, <3>2, AfterLexicalKeeps
  <2> QED BY <2>3, <2>4
<1>5. ASSUME query.into \in {"vectors", "graph", "again", "last"}
      PROVE  \A i \in DOMAIN query.args.terms : Wanted(query, i) \subseteq Elements(query.lexical)
  BY <1>1, <1>5, SearchCall DEF Complete, Looking
<1>6. CASE query.into = "vectors"
  <2>1. Settled(query) = AfterVectors(query)
    BY <1>6 DEF Settled
  <2> QED BY <1>1, <1>5, <1>6, <2>1, AfterVectorsKeeps
<1>7. CASE query.into = "graph"
  <2>1. PICK c : c = [query EXCEPT !.graph = query.kept]
    OBVIOUS
  <2>2. Settled(query) = LookAt(c, Held(First(query.lexical, query.args.limit), {}), "again")
    BY <1>7, <2>1 DEF Settled
  <2>3. /\ c \in Query /\ c.args = query.args /\ c.lexical = query.lexical /\ c.kept = query.kept
        /\ c.queue = query.queue /\ c.semantic = query.semantic /\ c.graph = query.kept
        /\ c.checked = query.checked /\ c.found = query.found /\ c.seeds = query.seeds
    BY <1>1, <2>1, SearchCall DEF Query
  <2>4. Ready(c)
    BY <1>1, <2>3, NoElements, SearchCall DEF Ready, Answers, May, Looking
  <2> QED BY <1>1, <1>5, <1>7, <2>2, <2>3, <2>4, AgainKeeps
<1>8. CASE query.into = "again"
  <2>1. PICK c : c = [query EXCEPT !.checked = query.kept]
    OBVIOUS
  <2>2. Settled(query) = LookAt(c, Held(query.semantic, query.lapsed), "last")
    BY <1>8, <2>1 DEF Settled
  <2>3. /\ c \in Query /\ c.args = query.args /\ c.lexical = query.lexical /\ c.kept = query.kept
        /\ c.queue = query.queue /\ c.semantic = query.semantic /\ c.graph = query.graph
        /\ c.checked = query.kept /\ c.found = query.found /\ c.seeds = query.seeds
    BY <1>1, <2>1, SearchCall DEF Query
  <2>4. Ready(c)
    BY <1>1, <2>3, NoElements, SearchCall DEF Ready, Answers, May, Looking
  <2>5. Len(c.lexical) <= c.args.limit => Elements(c.lexical) \cap steady \subseteq Elements(c.checked)
    BY <1>1, <1>3, <1>8, <2>3, SearchCall DEF Complete, Looking
  <2>6. query.semantic \in Seq(Facts) /\ \A f \in Elements(query.semantic) : May(f, query)
    BY <1>1, SearchCall DEF Answers, Query
  <2> QED BY <1>1, <1>5, <1>8, <2>2, <2>3, <2>4, <2>5, <2>6, HeldKeeps
<1>9. CASE query.into = "last"
  <2>1. PICK hits : hits = Fused(query.checked, query.kept, query.graph, query.args.limit)
    OBVIOUS
  <2>2. Settled(query) = Chosen(query, hits)
    BY <1>9, <2>1 DEF Settled
  <2>3. query.checked \in Seq(Facts) /\ query.kept \in Seq(Facts) /\ query.graph \in Seq(Facts)
        /\ query.args.limit \in Nat
    BY <1>1, SearchCall DEF Query, Request
  <2>4. /\ hits \in Seq(Facts)
        /\ Elements(hits) \subseteq Elements(query.checked) \cup Elements(query.kept)
                                      \cup Elements(query.graph)
        /\ Len(hits) < query.args.limit => Elements(query.checked) \subseteq Elements(hits)
    BY <2>1, <2>3, FusedLists
  <2>5. \A f \in Elements(hits) : May(f, query)
    BY <1>1, <2>4, SearchCall DEF Answers
  <2>6. Len(query.lexical) <= query.args.limit =>
          Elements(query.lexical) \cap steady \subseteq Elements(query.checked)
    BY <1>1, <1>9, SearchCall DEF Complete, Looking
  <2>7. Ready(query)
    BY <1>1, SearchCall DEF Ready
  <2>8. Len(query.lexical) <= query.args.limit /\ Len(hits) < query.args.limit =>
          \A i \in DOMAIN query.args.terms : Wanted(query, i) \subseteq Elements(hits)
    BY <1>5, <1>9, <2>4, <2>6 DEF Wanted
  <2> QED BY <1>1, <2>2, <2>4, <2>5, <2>7, <2>8, SearchCall, ChosenKeeps
<1>10. CASE query.into = "sibling"
  <2>1. PICK n : n = query.term + 1
    OBVIOUS
  <2>2. PICK c : c = [query EXCEPT !.at = "sibling", !.term = n]
    OBVIOUS
  <2>3. Settled(query) = c
    BY <1>10, <2>1, <2>2 DEF Settled
  <2>4. n \in Nat \ {0}
    BY <1>1, <2>1, SearchCall DEF Query
  <2>5. c \in Query
    BY <1>1, <2>2, <2>4, SearchCall, PlaceTaken DEF Places
  <2>6. /\ c.at = "sibling" /\ c.args = query.args /\ c.lexical = query.lexical
        /\ c.kept = query.kept /\ c.queue = query.queue /\ c.semantic = query.semantic
        /\ c.graph = query.graph /\ c.checked = query.checked /\ c.found = query.found
        /\ c.seeds = query.seeds
    BY <1>1, <2>2, SearchCall DEF Query
  <2>7. Placed(c)
    BY <1>1, <2>6, SearchCall DEF Placed, PlacesOf
  <2>8. Answers(c)
    BY <1>1, <2>6, SearchCall DEF Answers, May, Looking
  <2>9. /\ Elements(query.seeds) \subseteq Elements(query.kept)
        /\ Len(query.lexical) <= query.args.limit /\ Len(query.seeds) < query.args.limit =>
             \A i \in DOMAIN query.args.terms : Wanted(query, i) \subseteq Elements(query.seeds)
    BY <1>1, <1>10, SearchCall DEF Complete, Looking
  <2>10. Complete(c)
    BY <2>6, <2>9 DEF Complete, Looking, Wanted
  <2> QED BY <1>1, <2>3, <2>5, <2>6, <2>7, <2>8, <2>10, SearchCall, SearchMoves
<1> QED
  BY <1>2, <1>4, <1>6, <1>7, <1>8, <1>9, <1>10 DEF Kinds

-----------------------------------------------------------------------------
(* Walking the graph.                                                      *)

(* What lies one relation away from some entities.                         *)
Beside(S, known, rels) ==
  {n \in known : \E e \in rels : \/ e.subject \in S /\ e.object = n
                                 \/ e.object \in S /\ e.subject = n}

(* What lies within a distance is found step by step.                      *)
Spreads(s, root, d, known, rels) ==
  /\ s[0] = {root}
  /\ \A k \in 1..d : s[k] = s[k - 1] \cup Beside(s[k - 1], known, rels)

(* Within is the last of such sets.                                        *)
LEMMA WithinSpreads ==
    ASSUME NEW root, NEW d \in Nat, NEW known, NEW rels
    PROVE  \E s : Spreads(s, root, d, known, rels) /\ Within(root, d, known, rels) = s[d]
<1> DEFINE V == SUBSET ({root} \cup known)
<1> DEFINE next == [k \in 1..d |-> [v \in V |-> v \cup Beside(v, known, rels)]]
<1> DEFINE Body(f) == [k \in 0..d |-> IF k = 0 THEN {root}
                                      ELSE f[k - 1] \cup Beside(f[k - 1], known, rels)]
<1> DEFINE s == CHOOSE f : f = Body(f)
<1>1. Within(root, d, known, rels) = s[d]
  BY DEF Within, Beside
<1>2. \A v \in V : v \cup Beside(v, known, rels) \in V
  BY DEF Beside
<1>3. {root} \in V
  OBVIOUS
<1> HIDE DEF V
<1>4. \E f : f = Body(f)
  <2>1. IsStep(next, d, V)
    BY <1>2 DEF IsStep
  <2>2. \A k \in 1..d : \A v \in V : next[k][v] = v \cup Beside(v, known, rels)
    OBVIOUS
  <2>3. PICK f : Follows(f, d, V, {root}, next)
    <3> HIDE DEF next
    <3> QED BY <1>3, <2>1, PrefixRecursionExists, Zenon
  <2> HIDE DEF next
  <2>4. \A k \in 1..d : f[k - 1] \in V
    BY <2>3 DEF Follows
  <2>5. ASSUME NEW k \in 0..d
        PROVE  f[k] = IF k = 0 THEN {root} ELSE f[k - 1] \cup Beside(f[k - 1], known, rels)
    <3>1. CASE k = 0
      BY <3>1, <2>3 DEF Follows
    <3>2. CASE k \in 1..d
      <4>1. f[k] = f[k - 1] \cup Beside(f[k - 1], known, rels)
        BY <3>2, <2>2, <2>3, <2>4 DEF Follows
      <4>2. k # 0
        BY <3>2
      <4> QED BY <4>1, <4>2
    <3> QED BY <3>1, <3>2
  <2>6. f = Body(f)
    BY <2>3, <2>5 DEF Follows
  <2> QED BY <2>6
<1>5. s = Body(s)
  <2> HIDE DEF Body
  <2> QED BY <1>4
<1> HIDE DEF s
<1>6. \A k \in 0..d : s[k] = IF k = 0 THEN {root} ELSE s[k - 1] \cup Beside(s[k - 1], known, rels)
  BY <1>5
<1>7. 0 \in 0..d /\ \A k \in 1..d : k \in 0..d /\ k # 0
  OBVIOUS
<1>8. Spreads(s, root, d, known, rels)
  BY <1>6, <1>7 DEF Spreads
<1> QED
  BY <1>1, <1>8

(* The distances asked for.                                                *)
Near(root, known, rels) == {root} \cup Beside({root}, known, rels)
(* A root alone, what it touches, and what those touch.                    *)
LEMMA WithinTwo ==
    ASSUME NEW root, NEW known, NEW rels
    PROVE  /\ Within(root, 0, known, rels) = {root}
           /\ Within(root, 1, known, rels) = Near(root, known, rels)
           /\ Within(root, 2, known, rels)
                = Near(root, known, rels) \cup Beside(Near(root, known, rels), known, rels)
<1> DEFINE one == Near(root, known, rels)
<1>1. Within(root, 0, known, rels) = {root}
  <2>1. PICK s : Spreads(s, root, 0, known, rels) /\ Within(root, 0, known, rels) = s[0]
    BY WithinSpreads
  <2> QED BY <2>1 DEF Spreads
<1>2. Within(root, 1, known, rels) = one
  <2>1. PICK s : Spreads(s, root, 1, known, rels) /\ Within(root, 1, known, rels) = s[1]
    BY WithinSpreads
  <2>2. s[0] = {root} /\ s[1] = s[0] \cup Beside(s[0], known, rels)
    <3>1. 1 \in 1..1 /\ 1 - 1 = 0
      OBVIOUS
    <3> QED BY <2>1, <3>1 DEF Spreads
  <2> QED BY <2>1, <2>2 DEF Near
<1>3. Within(root, 2, known, rels) = one \cup Beside(one, known, rels)
  <2>1. PICK s : Spreads(s, root, 2, known, rels) /\ Within(root, 2, known, rels) = s[2]
    BY WithinSpreads
  <2>2. /\ s[0] = {root} /\ s[1] = s[0] \cup Beside(s[0], known, rels)
        /\ s[2] = s[1] \cup Beside(s[1], known, rels)
    <3>1. 1 \in 1..2 /\ 2 \in 1..2 /\ 1 - 1 = 0 /\ 2 - 1 = 1
      OBVIOUS
    <3> QED BY <2>1, <3>1 DEF Spreads
  <2>3. s[1] = one
    BY <2>2 DEF Near
  <2> HIDE DEF one
  <2> QED BY <2>1, <2>2, <2>3
<1> QED
  BY <1>1, <1>2, <1>3

(* What holds after the first i relations of a hop from w0.                *)
Walks(known) == [nodes : SUBSET known, frontier : SUBSET known, next : SUBSET known,
                 edges : Seq(Relations)]
Short(w, limit) == Cardinality(w.nodes) < limit /\ Len(w.edges) < limit
Walked(w, w0, i, known, rels, limit) ==
  /\ w \in Walks(known) /\ w.frontier = w0.frontier
  /\ IsFiniteSet(w.nodes) /\ Cardinality(w.nodes) <= limit /\ Len(w.edges) <= limit
  /\ w.nodes = w0.nodes \cup w.next /\ Elements(w0.edges) \subseteq Elements(w.edges)
  /\ \A e \in Elements(w.edges) : e.subject \in w.nodes /\ e.object \in w.nodes
  /\ w.next \subseteq Beside(w0.frontier, known, Elements(w.edges))
  /\ Short(w, limit) => Short(w0, limit)
  /\ Short(w, limit) =>
       \A j \in 1..i : Across(rels[j], w0.frontier) \in known =>
         Across(rels[j], w0.frontier) \in w.nodes /\ rels[j] \in Elements(w.edges)

(* One relation is followed.                                               *)
LEMMA FollowWalks ==
    ASSUME NEW known, NoEntity \notin known, NEW rels \in Seq(Relations), NEW limit \in Nat \ {0},
           NEW w0, w0.frontier \subseteq w0.nodes, NEW i \in 0..(Len(rels) - 1),
           NEW w, Walked(w, w0, i, known, rels, limit)
    PROVE  Walked(Follow(w, rels[i + 1], known, limit), w0, i + 1, known, rels, limit)
<1>1. PICK e \in Relations : e = rels[i + 1]
  OBVIOUS
<1>2. PICK n : n = Across(e, w.frontier)
  OBVIOUS
<1>4. PICK r : r = Follow(w, e, known, limit)
  OBVIOUS
<1>5. /\ w \in Walks(known) /\ w.edges \in Seq(Relations) /\ Len(w.edges) \in Nat
      /\ IsFiniteSet(w.nodes) /\ Cardinality(w.nodes) \in Nat
      /\ w.frontier = w0.frontier /\ w0.frontier \subseteq w.nodes
  <2>1. w \in Walks(known) /\ w.edges \in Seq(Relations) /\ IsFiniteSet(w.nodes)
    BY DEF Walked, Walks
  <2>2. w.frontier = w0.frontier /\ w0.frontier \subseteq w.nodes
    BY DEF Walked
  <2> QED BY <2>1, <2>2, FS_CardinalityType
<1>3. Short(w, limit) <=> ~(Len(w.edges) >= limit \/ Cardinality(w.nodes) >= limit)
  BY <1>5 DEF Short
<1>6. \A j \in 1..(i + 1) : j \in 1..i \/ j = i + 1
  OBVIOUS
<1>7. CASE n \notin known \/ (n \notin w.nodes /\ ~Short(w, limit))
  <2>1. r = w
    BY <1>2, <1>3, <1>4, <1>7 DEF Follow
  <2>3. Short(w, limit) =>
          \A j \in 1..(i + 1) : Across(rels[j], w0.frontier) \in known =>
            Across(rels[j], w0.frontier) \in w.nodes /\ rels[j] \in Elements(w.edges)
    BY <1>1, <1>2, <1>5, <1>6, <1>7 DEF Walked
  <2>4. Walked(w, w0, i + 1, known, rels, limit)
    BY <2>3 DEF Walked
  <2> QED BY <1>1, <1>4, <2>1, <2>4
<1>8. CASE n \in known /\ (n \in w.nodes \/ Short(w, limit))
  <2>1. PICK nodes, next, edges :
          /\ nodes = w.nodes \cup {n}
          /\ next = (IF n \notin w.nodes THEN w.next \cup {n} ELSE w.next)
          /\ edges = (IF e \in Elements(w.edges) \/ Len(w.edges) >= limit THEN w.edges
                      ELSE Append(w.edges, e))
    OBVIOUS
  <2>2. r = [w EXCEPT !.nodes = nodes, !.next = next, !.edges = edges]
    BY <1>2, <1>3, <1>4, <1>8, <2>1 DEF Follow
  <2>3. /\ edges \in Seq(Relations) /\ Len(edges) \in Nat /\ Len(edges) <= limit
        /\ Len(w.edges) <= Len(edges)
        /\ Elements(w.edges) \subseteq Elements(edges) /\ Elements(edges) \subseteq Elements(w.edges) \cup {e}
        /\ Len(w.edges) < limit => e \in Elements(edges)
    <3>1. Len(w.edges) <= limit
      BY DEF Walked
    <3>2. CASE e \in Elements(w.edges) \/ Len(w.edges) >= limit
      BY <1>5, <2>1, <3>1, <3>2
    <3>3. CASE e \notin Elements(w.edges) /\ Len(w.edges) < limit
      <4>1. edges = Append(w.edges, e)
        BY <1>5, <2>1, <3>3
      <4>2. /\ edges \in Seq(Relations) /\ Elements(edges) = Elements(w.edges) \cup {e}
            /\ Len(edges) = Len(w.edges) + 1
        BY <1>5, <4>1, ExtendedList, AppendProperties
      <4> QED BY <1>5, <3>3, <4>2
    <3> QED BY <1>5, <3>2, <3>3
  <2>4. /\ IsFiniteSet(nodes) /\ Cardinality(nodes) \in Nat /\ Cardinality(nodes) <= limit
        /\ Cardinality(w.nodes) <= Cardinality(nodes)
    <3>1. Cardinality(w.nodes) <= limit
      BY DEF Walked
    <3>2. CASE n \in w.nodes
      <4>1. nodes = w.nodes
        BY <2>1, <3>2
      <4> QED BY <1>5, <3>1, <4>1
    <3>3. CASE n \notin w.nodes
      <4>1. IsFiniteSet(nodes) /\ Cardinality(nodes) = Cardinality(w.nodes) + 1
        BY <1>5, <2>1, <3>3, FS_AddElement
      <4>2. Cardinality(w.nodes) < limit
        BY <1>8, <3>3 DEF Short
      <4> QED BY <1>5, <4>1, <4>2
    <3> QED BY <3>2, <3>3
  <2>5. nodes \subseteq known /\ next \subseteq known /\ nodes = w0.nodes \cup next
    <3>1. w.nodes \subseteq known /\ w.next \subseteq known /\ w.nodes = w0.nodes \cup w.next
      BY <1>5 DEF Walked, Walks
    <3> QED BY <1>8, <2>1, <3>1
  <2>6. /\ r \in Walks(known) /\ r.nodes = nodes /\ r.next = next /\ r.edges = edges
        /\ r.frontier = w0.frontier
    BY <1>5, <2>2, <2>3, <2>5 DEF Walks
  <2>7. \/ e.subject \in w0.frontier /\ e.object = n
        \/ e.object \in w0.frontier /\ e.subject = n
    BY <1>2, <1>5, <1>8 DEF Across
  <2>8. \A x \in Elements(edges) : x.subject \in nodes /\ x.object \in nodes
    <3>1. \A x \in Elements(w.edges) : x.subject \in w.nodes /\ x.object \in w.nodes
      BY DEF Walked
    <3> QED BY <1>5, <2>1, <2>3, <2>7, <3>1
  <2>9. next \subseteq Beside(w0.frontier, known, Elements(edges))
    <3>1. w.next \subseteq Beside(w0.frontier, known, Elements(w.edges))
      BY DEF Walked
    <3>2. Beside(w0.frontier, known, Elements(w.edges)) \subseteq Beside(w0.frontier, known, Elements(edges))
      BY <2>3 DEF Beside
    <3>3. ASSUME n \notin w.nodes PROVE n \in Beside(w0.frontier, known, Elements(edges))
      <4>1. e \in Elements(edges)
        BY <1>8, <2>3, <3>3 DEF Short
      <4> QED BY <1>8, <2>7, <4>1 DEF Beside
    <3> QED BY <2>1, <3>1, <3>2, <3>3
  <2>13. Short(r, limit) => Short(w, limit) /\ Short(w0, limit)
    <3>1. Short(r, limit) => Short(w, limit)
      BY <1>5, <2>3, <2>4, <2>6 DEF Short
    <3> QED BY <3>1 DEF Walked
  <2>10. ASSUME Short(r, limit), NEW j \in 1..(i + 1), Across(rels[j], w0.frontier) \in known
         PROVE  Across(rels[j], w0.frontier) \in nodes /\ rels[j] \in Elements(edges)
    <3>1. Short(w, limit)
      BY <2>10, <2>13
    <3>2. CASE j \in 1..i
      BY <2>1, <2>3, <2>10, <3>1, <3>2 DEF Walked
    <3>3. CASE j = i + 1
      BY <1>1, <1>2, <1>5, <2>1, <2>3, <3>1, <3>3 DEF Short
    <3> QED BY <1>6, <3>2, <3>3
  <2>11. Elements(w0.edges) \subseteq Elements(edges)
    BY <2>3 DEF Walked
  <2>12. Walked(r, w0, i + 1, known, rels, limit)
    BY <2>3, <2>4, <2>5, <2>6, <2>8, <2>9, <2>10, <2>11, <2>13 DEF Walked
  <2> QED BY <1>1, <1>4, <2>12
<1> QED
  BY <1>7, <1>8

(* Following a relation leaves a walk.                                     *)
LEMMA FollowTyped ==
    ASSUME NEW known, NEW e \in Relations, NEW limit \in Nat, NEW w \in Walks(known)
    PROVE  Follow(w, e, known, limit) \in Walks(known)
<1>1. PICK n : n = Across(e, w.frontier)
  OBVIOUS
<1>2. PICK nodes, next, edges :
        /\ nodes = w.nodes \cup {n}
        /\ next = (IF n \notin w.nodes THEN w.next \cup {n} ELSE w.next)
        /\ edges = (IF e \in Elements(w.edges) \/ Len(w.edges) >= limit THEN w.edges
                    ELSE Append(w.edges, e))
  OBVIOUS
<1>3. \/ Follow(w, e, known, limit) = w
      \/ n \in known /\ Follow(w, e, known, limit)
                          = [w EXCEPT !.nodes = nodes, !.next = next, !.edges = edges]
  BY <1>1, <1>2 DEF Follow
<1>4. w.edges \in Seq(Relations) /\ w.nodes \subseteq known /\ w.next \subseteq known
  BY DEF Walks
<1>5. edges \in Seq(Relations)
  BY <1>2, <1>4, ExtendedList
<1>6. ASSUME n \in known
      PROVE  [w EXCEPT !.nodes = nodes, !.next = next, !.edges = edges] \in Walks(known)
  <2>1. nodes \subseteq known /\ next \subseteq known
    BY <1>2, <1>4, <1>6
  <2> QED BY <1>5, <2>1 DEF Walks
<1> QED
  BY <1>3, <1>6

(* A hop follows all relations.                                            *)
Sets(w, limit) ==
  /\ w.frontier \subseteq w.nodes
  /\ IsFiniteSet(w.nodes) /\ Cardinality(w.nodes) <= limit /\ Len(w.edges) <= limit
  /\ \A e \in Elements(w.edges) : e.subject \in w.nodes /\ e.object \in w.nodes
Hopped(w, known, rels, limit) ==
  \E all : /\ Walked(all, w, Len(rels), known, rels, limit)
           /\ Hop(w, known, rels, limit) = [all EXCEPT !.frontier = all.next]
(* A hop follows every relation once.                                      *)
LEMMA HopWalks ==
    ASSUME NEW known, NoEntity \notin known, NEW rels \in Seq(Relations), NEW limit \in Nat \ {0},
           NEW w \in Walks(known), Sets(w, limit)
    PROVE  Hopped(w, known, rels, limit)
<1> DEFINE N == Len(rels)
<1> DEFINE V == Walks(known)
<1> DEFINE start == [w EXCEPT !.next = {}]
<1> DEFINE step == [i \in 1..N |-> [v \in V |-> Follow(v, rels[i], known, limit)]]
<1> DEFINE Body(f) == [i \in 0..N |-> IF i = 0 THEN start
                                      ELSE Follow(f[i - 1], rels[i], known, limit)]
<1> DEFINE walked == CHOOSE f : f = Body(f)
<1>1. N \in Nat /\ \A i \in 1..N : rels[i] \in Relations
  BY LenProperties, ElementOfSeq
<1>2. Hop(w, known, rels, limit) = [walked[N] EXCEPT !.frontier = walked[N].next]
  BY DEF Hop
<1>3. /\ start \in V /\ start.nodes = w.nodes /\ start.edges = w.edges
      /\ start.frontier = w.frontier /\ start.next = {}
  BY DEF Walks
<1> HIDE DEF N, V, start
<1>4. \E f : f = Body(f)
  <2>1. IsStep(step, N, V)
    BY <1>1, FollowTyped DEF IsStep, V
  <2>2. \A i \in 1..N : \A v \in V : step[i][v] = Follow(v, rels[i], known, limit)
    OBVIOUS
  <2>3. PICK f : Follows(f, N, V, start, step)
    <3> HIDE DEF step
    <3> QED BY <1>1, <1>3, <2>1, PrefixRecursionExists, Zenon
  <2> HIDE DEF step
  <2>4. \A i \in 1..N : f[i - 1] \in V
    BY <1>1, <2>3 DEF Follows
  <2>5. ASSUME NEW i \in 0..N
        PROVE  f[i] = IF i = 0 THEN start ELSE Follow(f[i - 1], rels[i], known, limit)
    <3>1. CASE i = 0
      BY <3>1, <2>3 DEF Follows
    <3>2. CASE i \in 1..N
      <4>1. f[i] = Follow(f[i - 1], rels[i], known, limit)
        BY <3>2, <2>2, <2>3, <2>4 DEF Follows
      <4>2. i # 0
        BY <3>2
      <4> QED BY <4>1, <4>2
    <3> QED BY <3>1, <3>2, <1>1
  <2>6. f = Body(f)
    BY <2>3, <2>5 DEF Follows
  <2> QED BY <2>6
<1>5. walked = Body(walked)
  <2> HIDE DEF Body
  <2> QED BY <1>4
<1> HIDE DEF walked
<1>6. \A i \in 0..N : walked[i] = IF i = 0 THEN start
                                  ELSE Follow(walked[i - 1], rels[i], known, limit)
  BY <1>5
<1> DEFINE S == {i \in 0..N : Walked(walked[i], w, i, known, rels, limit)}
<1>7. 0 \in S
  <2>1. 0 \in 0..N /\ walked[0] = start
    BY <1>1, <1>6
  <2>2. Walked(start, w, 0, known, rels, limit)
    <3>1. Short(start, limit) => Short(w, limit)
      BY <1>3 DEF Short
    <3> QED BY <1>3, <3>1 DEF Walked, V, Sets
  <2> QED BY <2>1, <2>2
<1>8. ASSUME NEW i \in 0..(N - 1), i \in S
      PROVE  i + 1 \in S
  <2>1. i + 1 \in 0..N /\ i + 1 # 0 /\ (i + 1) - 1 = i
    BY <1>1
  <2>2. walked[i + 1] = Follow(walked[i], rels[i + 1], known, limit)
    BY <1>6, <2>1
  <2>3. Walked(walked[i], w, i, known, rels, limit)
    BY <1>8
  <2>4. Walked(walked[i + 1], w, i + 1, known, rels, limit)
    BY <2>2, <2>3, FollowWalks DEF N, Sets
  <2> QED BY <2>1, <2>4
<1>9. Walked(walked[N], w, N, known, rels, limit)
  <2>1. \A i \in 0..N : i \in S
    <3> HIDE DEF S
    <3> QED BY <1>1, <1>7, <1>8, InductionUpTo
  <2>2. N \in 0..N
    BY <1>1
  <2> QED BY <2>1, <2>2
<1> QED
  BY <1>2, <1>9 DEF N, Hopped

(* A hop no limit cut short misses nothing that lies beside its frontier.  *)
LEMMA HopMissesNothing ==
    ASSUME NEW known, NEW rels \in Seq(Relations), NEW limit, NEW w, w.frontier \subseteq w.nodes,
           NEW all, Walked(all, w, Len(rels), known, rels, limit), Short(all, limit),
           NEW some \in SUBSET Elements(rels), NEW first \in SUBSET known
    PROVE  /\ Beside(w.frontier, first, some) \subseteq all.nodes
           /\ \A e \in some : /\ e.subject \in first /\ e.object \in first
                              /\ e.subject \in w.frontier \/ e.object \in w.frontier
                              => e \in Elements(all.edges)
<1>1. ASSUME NEW e \in some, Across(e, w.frontier) \in known
      PROVE  Across(e, w.frontier) \in all.nodes /\ e \in Elements(all.edges)
  <2>1. PICK j \in DOMAIN rels : e = rels[j]
    BY DEF Elements
  <2>2. j \in 1..Len(rels)
    BY <2>1
  <2> QED BY <1>1, <2>1, <2>2 DEF Walked
<1>2. w.nodes \subseteq all.nodes
  BY DEF Walked
<1>3. ASSUME NEW e \in some, e.subject \in first, e.object \in first,
             e.subject \in w.frontier \/ e.object \in w.frontier
      PROVE  e \in Elements(all.edges)
  BY <1>1, <1>3 DEF Across
<1>4. ASSUME NEW n \in first, NEW e \in some,
             \/ e.subject \in w.frontier /\ e.object = n
             \/ e.object \in w.frontier /\ e.subject = n
      PROVE  n \in all.nodes
  BY <1>1, <1>2, <1>4 DEF Across
<1> QED
  BY <1>3, <1>4 DEF Beside

(* What search_graph answers is a graph.                                   *)
Whole(nodes, found, root, depth, limit, first, some) ==
  LET edges == Elements(found)
  IN /\ \A e \in edges : {e.subject, e.object} \subseteq nodes
     /\ nodes \subseteq Within(root, depth, nodes, edges)
     /\ Cardinality(nodes) <= limit /\ Len(found) <= limit
     /\ Cardinality(nodes) < limit /\ Len(found) < limit =>
          /\ Within(root, depth, first, some) \subseteq nodes
          /\ Touching(Within(root, depth - 1, first, some), first, some) \subseteq edges

Graphs(g, root, depth, limit, known, first, some) ==
  /\ g.nodes \subseteq known /\ g.edges \in Seq(Relations)
  /\ g.nodes # {} /\ depth # 0 => Whole(g.nodes, g.edges, root, depth, limit, first, some)

(* The walk of graph_neighborhood.                                         *)
LEMMA NeighborhoodWhole ==
    ASSUME NEW known, NoEntity \notin known, NEW rels \in Seq(Relations), NEW limit \in Nat \ {0},
           NEW root, NEW depth \in 0..2, NEW some \in SUBSET Elements(rels), NEW first \in SUBSET known
    PROVE  Graphs(Neighborhood(root, depth, limit, known, rels), root, depth, limit, known, first, some)
<1> SUFFICES ASSUME NEW g, g = Neighborhood(root, depth, limit, known, rels)
             PROVE  /\ g.nodes \subseteq known /\ g.edges \in Seq(Relations)
                    /\ g.nodes # {} /\ depth # 0 =>
                         Whole(g.nodes, g.edges, root, depth, limit, first, some)
  BY DEF Graphs
<1>1. CASE root \notin known
  <2>1. g = [nodes |-> {}, edges |-> <<>>]
    BY <1>1 DEF Neighborhood, Nowhere
  <2> QED BY <2>1
<1>2. CASE root \in known
  <2>1. PICK start : start = [nodes |-> {root}, frontier |-> {root}, next |-> {}, edges |-> <<>>]
    OBVIOUS
  <2>2. /\ start \in Walks(known) /\ start.nodes = {root} /\ start.frontier = {root}
        /\ start.edges = <<>> /\ Elements(start.edges) = {}
    BY <1>2, <2>1, NoElements DEF Walks
  <2>3. IsFiniteSet({root}) /\ Cardinality({root}) = 1 /\ Len(<<>>) = 0
    BY FS_Singleton
  <2>4. PICK a : /\ Walked(a, start, Len(rels), known, rels, limit)
                 /\ Hop(start, known, rels, limit) = [a EXCEPT !.frontier = a.next]
    <3>1. start.frontier \subseteq start.nodes /\ 1 <= limit /\ 0 <= limit
      BY <2>2
    <3>2. /\ IsFiniteSet(start.nodes) /\ Cardinality(start.nodes) <= limit
          /\ Len(start.edges) <= limit
          /\ \A e \in Elements(start.edges) : e.subject \in start.nodes /\ e.object \in start.nodes
      BY <2>2, <2>3, <3>1
    <3>3. Sets(start, limit)
      BY <3>1, <3>2 DEF Sets
    <3>4. Hopped(start, known, rels, limit)
      BY <2>2, <3>3, HopWalks
    <3> QED BY <3>4 DEF Hopped
  <2>5. PICK once : once = [a EXCEPT !.frontier = a.next]
    OBVIOUS
  <2>6. /\ a \in Walks(known) /\ a.next \subseteq a.nodes /\ a.nodes = {root} \cup a.next
        /\ once \in Walks(known) /\ once.nodes = a.nodes /\ once.edges = a.edges
        /\ once.frontier = a.next
        /\ a.nodes \subseteq known /\ a.edges \in Seq(Relations)
    <3>1. a \in Walks(known) /\ a.nodes = {root} \cup a.next
      BY <2>2, <2>4 DEF Walked
    <3>2. a.nodes \subseteq known /\ a.edges \in Seq(Relations) /\ a.next \subseteq known
      BY <3>1 DEF Walks
    <3>3. /\ once \in Walks(known) /\ once.nodes = a.nodes /\ once.edges = a.edges
          /\ once.frontier = a.next
      BY <2>5, <3>1 DEF Walks
    <3> QED BY <3>1, <3>2, <3>3
  <2>7. /\ \A e \in Elements(a.edges) : e.subject \in a.nodes /\ e.object \in a.nodes
        /\ IsFiniteSet(a.nodes) /\ Cardinality(a.nodes) <= limit /\ Len(a.edges) <= limit
        /\ a.next \subseteq Beside({root}, known, Elements(a.edges))
    BY <2>2, <2>4 DEF Walked
  <2>8. Short(a, limit) =>
          /\ Near(root, first, some) \subseteq a.nodes
          /\ \A e \in some : /\ e.subject \in first /\ e.object \in first
                             /\ e.subject = root \/ e.object = root
                             => e \in Elements(a.edges)
    <3> SUFFICES ASSUME Short(a, limit)
                 PROVE  /\ Near(root, first, some) \subseteq a.nodes
                        /\ \A e \in some : /\ e.subject \in first /\ e.object \in first
                                           /\ e.subject = root \/ e.object = root
                                           => e \in Elements(a.edges)
      OBVIOUS
    <3>1. start.frontier \subseteq start.nodes
      BY <2>2
    <3>2. /\ Beside(start.frontier, first, some) \subseteq a.nodes
          /\ \A e \in some : /\ e.subject \in first /\ e.object \in first
                             /\ e.subject \in start.frontier \/ e.object \in start.frontier
                             => e \in Elements(a.edges)
      BY <2>4, <3>1, HopMissesNothing
    <3> QED BY <2>2, <2>6, <3>2 DEF Near
  <2>9. CASE depth = 1
    <3>1. g = [nodes |-> a.nodes, edges |-> a.edges]
      <4>1. g = [nodes |-> once.nodes \cap known, edges |-> once.edges]
        BY <1>2, <2>1, <2>4, <2>5, <2>9 DEF Neighborhood
      <4>2. once.nodes \cap known = a.nodes
        BY <2>6
      <4> QED BY <2>6, <4>1, <4>2
    <3>2. a.nodes \subseteq Within(root, 1, a.nodes, Elements(a.edges))
      <4>1. a.next \subseteq Beside({root}, a.nodes, Elements(a.edges))
        BY <2>6, <2>7 DEF Beside
      <4>2. a.nodes \subseteq Near(root, a.nodes, Elements(a.edges))
        BY <2>6, <4>1 DEF Near
      <4> QED BY <4>2, WithinTwo
    <3>3. Short(a, limit) =>
            /\ Within(root, 1, first, some) \subseteq a.nodes
            /\ Touching(Within(root, 0, first, some), first, some) \subseteq Elements(a.edges)
      <4>1. Within(root, 1, first, some) = Near(root, first, some) /\ Within(root, 0, first, some) = {root}
        BY WithinTwo
      <4> QED BY <2>8, <4>1 DEF Touching
    <3>4. Whole(a.nodes, a.edges, root, 1, limit, first, some)
      <4>1. 1 - 1 = 0
        OBVIOUS
      <4> QED BY <2>7, <3>2, <3>3, <4>1 DEF Whole, Short
    <3>5. g.nodes = a.nodes /\ g.edges = a.edges
      BY <3>1
    <3>6. Whole(g.nodes, g.edges, root, depth, limit, first, some)
      BY <2>9, <3>4, <3>5
    <3> QED BY <2>6, <3>5, <3>6
  <2>10. CASE depth # 1
    <3>1. PICK b : /\ Walked(b, once, Len(rels), known, rels, limit)
                   /\ Hop(once, known, rels, limit) = [b EXCEPT !.frontier = b.next]
      <4>1. /\ once.frontier \subseteq once.nodes /\ IsFiniteSet(once.nodes)
            /\ Cardinality(once.nodes) <= limit /\ Len(once.edges) <= limit
            /\ \A e \in Elements(once.edges) : e.subject \in once.nodes /\ e.object \in once.nodes
        BY <2>6, <2>7
      <4>2. Sets(once, limit)
        BY <4>1 DEF Sets
      <4>3. Hopped(once, known, rels, limit)
        BY <2>6, <4>2, HopWalks
      <4> QED BY <4>3 DEF Hopped
    <3>2. /\ b \in Walks(known) /\ b.nodes = a.nodes \cup b.next /\ b.nodes \subseteq known
          /\ b.edges \in Seq(Relations) /\ Elements(a.edges) \subseteq Elements(b.edges)
      <4>1. b \in Walks(known) /\ b.nodes = a.nodes \cup b.next /\ Elements(a.edges) \subseteq Elements(b.edges)
        BY <2>6, <3>1 DEF Walked
      <4> QED BY <4>1 DEF Walks
    <3>3. g = [nodes |-> b.nodes, edges |-> b.edges]
      <4>1. PICK twice : twice = [b EXCEPT !.frontier = b.next]
        OBVIOUS
      <4>2. twice.nodes = b.nodes /\ twice.edges = b.edges
        BY <3>2, <4>1 DEF Walks
      <4>3. g = [nodes |-> twice.nodes \cap known, edges |-> twice.edges]
        BY <1>2, <2>1, <2>4, <2>5, <2>10, <3>1, <4>1 DEF Neighborhood
      <4>4. b.nodes \cap known = b.nodes
        BY <3>2
      <4> QED BY <4>2, <4>3, <4>4
    <3>4. /\ \A e \in Elements(b.edges) : e.subject \in b.nodes /\ e.object \in b.nodes
          /\ Cardinality(b.nodes) <= limit /\ Len(b.edges) <= limit
          /\ b.next \subseteq Beside(a.next, known, Elements(b.edges))
          /\ Short(b, limit) => Short(a, limit)
      <4>1. Short(once, limit) => Short(a, limit)
        BY <2>6 DEF Short
      <4> QED BY <2>6, <3>1, <4>1 DEF Walked
    <3>5. b.nodes \subseteq Within(root, 2, b.nodes, Elements(b.edges))
      <4> DEFINE one == Near(root, b.nodes, Elements(b.edges))
      <4>1. a.next \subseteq Beside({root}, b.nodes, Elements(b.edges))
        BY <2>7, <3>2, <2>6 DEF Beside
      <4>2. a.nodes \subseteq one /\ a.next \subseteq one
        BY <2>6, <4>1 DEF Near
      <4> HIDE DEF one
      <4>3. b.next \subseteq Beside(one, b.nodes, Elements(b.edges))
        BY <3>2, <3>4, <4>2 DEF Beside
      <4>4. b.nodes \subseteq one \cup Beside(one, b.nodes, Elements(b.edges))
        BY <3>2, <4>2, <4>3
      <4>5. Within(root, 2, b.nodes, Elements(b.edges)) = one \cup Beside(one, b.nodes, Elements(b.edges))
        BY WithinTwo DEF one
      <4> QED BY <4>4, <4>5
    <3>6. ASSUME Short(b, limit)
          PROVE  /\ Within(root, 2, first, some) \subseteq b.nodes
                 /\ Touching(Within(root, 1, first, some), first, some) \subseteq Elements(b.edges)
      <4> DEFINE one == Near(root, first, some)
      <4>1. /\ one \subseteq a.nodes
            /\ \A e \in some : /\ e.subject \in first /\ e.object \in first
                               /\ e.subject = root \/ e.object = root
                               => e \in Elements(a.edges)
        BY <2>8, <3>4, <3>6
      <4>2. Beside({root}, first, some) \subseteq one
        BY DEF Near
      <4> HIDE DEF one
      <4>3. once.frontier \subseteq once.nodes
        BY <2>6
      <4>4. /\ Beside(once.frontier, first, some) \subseteq b.nodes
            /\ \A e \in some : /\ e.subject \in first /\ e.object \in first
                               /\ e.subject \in once.frontier \/ e.object \in once.frontier
                               => e \in Elements(b.edges)
        BY <3>1, <3>6, <4>3, HopMissesNothing
      <4>5. one \subseteq {root} \cup once.frontier
        BY <2>6, <4>1
      <4>6. Beside(one, first, some) \subseteq Beside({root}, first, some) \cup Beside(once.frontier, first, some)
        BY <4>5 DEF Beside
      <4>7. one \cup Beside(one, first, some) \subseteq b.nodes
        BY <3>2, <4>1, <4>2, <4>4, <4>6
      <4>8. Touching(one, first, some) \subseteq Elements(b.edges)
        <5> SUFFICES ASSUME NEW e \in some, e.subject \in first, e.object \in first,
                            e.subject \in one \/ e.object \in one
                     PROVE  e \in Elements(b.edges)
          BY DEF Touching
        <5> QED BY <3>2, <4>1, <4>4, <4>5
      <4>9. /\ Within(root, 2, first, some) = one \cup Beside(one, first, some)
            /\ Within(root, 1, first, some) = one
        BY WithinTwo DEF one
      <4> QED BY <4>7, <4>8, <4>9
    <3>7. Whole(b.nodes, b.edges, root, 2, limit, first, some)
      <4>1. 2 - 1 = 1
        OBVIOUS
      <4> QED BY <3>4, <3>5, <3>6, <4>1 DEF Whole, Short
    <3>8. depth # 0 => depth = 2
      BY <2>10
    <3>9. g.nodes = b.nodes /\ g.edges = b.edges
      BY <3>3
    <3>10. depth # 0 => Whole(g.nodes, g.edges, root, depth, limit, first, some)
      BY <3>7, <3>8, <3>9
    <3> QED BY <3>2, <3>9, <3>10
  <2> QED BY <2>9, <2>10
<1> QED
  BY <1>1, <1>2

(* What is known of a call that walks the graph.                           *)
LEMMA WalkCall ==
    ASSUME RecallInv, query.at \in {"entities", "walk"}
    PROVE  /\ query \in Query /\ query.args.tool \in {"facts", "graph"} /\ query.at # "begin"
           /\ query.args \in Requests /\ Request(query.args) /\ query.args.limit \in Nat \ {0}
           /\ Typed /\ Placed(query) /\ Walking(query) /\ query.term <= Len(query.args.terms)
           /\ query.args.tool = "facts" =>
                Answers(query) /\ Complete(query) /\ query.found \in Seq(Facts)
<1>1. query \in Query /\ Placed(query) /\ Typed
  BY DEF RecallInv, Typed
<1>2. query.args \in Requests /\ Request(query.args)
  BY <1>1, RecallAssumption DEF Query
<1>3. query.args.tool \in {"facts", "graph"}
  BY <1>1, <1>2 DEF Placed, PlacesOf, Request
<1>4. query.args.limit \in Nat \ {0}
  BY <1>2 DEF Request
<1> QED
  BY <1>1, <1>2, <1>3, <1>4 DEF RecallInv, Placed

(* The entities are read, after them the relations.                        *)
LEMMA ReadEntitiesKeeps ==
    ASSUME RecallInv, ReadEntities
    PROVE  RecallInv'
<1>1. query.at = "entities" /\ Becomes([query EXCEPT !.at = "walk", !.known = entities])
  BY DEF ReadEntities
<1>2. PICK c : c = [query EXCEPT !.at = "walk", !.known = entities]
  OBVIOUS
<1>3. "walk" \in Places /\ entities \subseteq Known /\ FirstEntities \subseteq entities
  BY <1>1, WalkCall DEF Places, Typed, Walking
<1>4. /\ c \in Query /\ c.at = "walk" /\ c.known = entities /\ c.args = query.args
      /\ c.term = query.term /\ c.lexical = query.lexical
      /\ c.kept = query.kept /\ c.queue = query.queue /\ c.semantic = query.semantic
      /\ c.graph = query.graph /\ c.checked = query.checked /\ c.found = query.found
      /\ c.seeds = query.seeds
  BY <1>1, <1>2, <1>3, WalkCall DEF Query
<1>5. Placed(c)
  BY <1>1, <1>4, WalkCall DEF Placed, PlacesOf
<1>6. Walking(c)
  BY <1>1, <1>3, <1>4, WalkCall DEF Walking
<1>7. ASSUME c.args.tool = "facts" PROVE Answers(c) /\ Complete(c)
  <2>1. Answers(query) /\ Complete(query)
    BY <1>1, <1>4, <1>7, WalkCall
  <2>2. Answers(c)
    BY <1>4, <2>1 DEF Answers, May, Looking
  <2>3. Complete(c)
    BY <1>1, <1>4, <2>1 DEF Complete, Looking, Wanted
  <2> QED BY <2>2, <2>3
<1>8. DiagnosisTruthful' /\ GraphWhole'
  BY <1>1, <1>2, <1>4 DEF Becomes, DiagnosisTruthful, GraphWhole
<1> QED
  BY <1>1, <1>2, <1>4, <1>5, <1>6, <1>7, <1>8, WalkCall, CallMoves

(* The facts relations cite.                                               *)
LEMMA CitedFacts ==
    ASSUME NEW c, c.found \in Seq(Facts), NEW edges \in Seq(Relations)
    PROVE  Cited(c, edges) \in Seq(Facts)
<1> DEFINE N == Len(edges)
<1> DEFINE V == Seq(Facts)
<1> DEFINE Next1(v, i) == IF edges[i] \in c.edges \/ edges[i].fact \in {0} \cup Elements(v)
                          THEN v ELSE Append(v, edges[i].fact)
<1> DEFINE step == [i \in 1..N |-> [v \in V |-> Next1(v, i)]]
<1> DEFINE Body(f) == [i \in 0..N |-> IF i = 0 THEN c.found ELSE Next1(f[i - 1], i)]
<1> DEFINE found == CHOOSE f : f = Body(f)
<1>1. N \in Nat /\ \A i \in 1..N : edges[i] \in Relations
  BY LenProperties, ElementOfSeq
<1>2. Cited(c, edges) = found[N]
  BY DEF Cited
<1>3. \A i \in 1..N : \A v \in V : Next1(v, i) \in V
  <2> SUFFICES ASSUME NEW i \in 1..N, NEW v \in V PROVE Next1(v, i) \in V
    OBVIOUS
  <2>1. edges[i].fact \in Facts \cup {0}
    BY <1>1, RecallAssumption
  <2>2. CASE edges[i] \in c.edges \/ edges[i].fact \in {0} \cup Elements(v)
    BY <2>2
  <2>3. CASE ~(edges[i] \in c.edges \/ edges[i].fact \in {0} \cup Elements(v))
    <3>1. edges[i].fact \in Facts
      BY <2>1, <2>3
    <3>2. Append(v, edges[i].fact) \in V
      BY <3>1, ExtendedList
    <3> QED BY <2>3, <3>2
  <2> QED BY <2>2, <2>3
<1>4. c.found \in V
  OBVIOUS
<1> HIDE DEF N, V, Next1
<1>5. \E f : f = Body(f)
  <2>1. IsStep(step, N, V)
    BY <1>3 DEF IsStep
  <2>2. \A i \in 1..N : \A v \in V : step[i][v] = Next1(v, i)
    OBVIOUS
  <2>3. PICK f : Follows(f, N, V, c.found, step)
    <3> HIDE DEF step
    <3> QED BY <1>1, <1>4, <2>1, PrefixRecursionExists, Zenon
  <2> HIDE DEF step
  <2>4. \A i \in 1..N : f[i - 1] \in V
    BY <1>1, <2>3 DEF Follows
  <2>5. ASSUME NEW i \in 0..N
        PROVE  f[i] = IF i = 0 THEN c.found ELSE Next1(f[i - 1], i)
    <3>1. CASE i = 0
      BY <3>1, <2>3 DEF Follows
    <3>2. CASE i \in 1..N
      <4>1. f[i] = Next1(f[i - 1], i)
        BY <3>2, <2>2, <2>3, <2>4 DEF Follows
      <4>2. i # 0
        BY <3>2
      <4> QED BY <4>1, <4>2
    <3> QED BY <3>1, <3>2, <1>1
  <2>6. f = Body(f)
    BY <2>3, <2>5 DEF Follows
  <2> QED BY <2>6
<1>6. found = Body(found)
  <2> HIDE DEF Body
  <2> QED BY <1>5
<1> HIDE DEF found
<1>7. \A i \in 0..N : found[i] = IF i = 0 THEN c.found ELSE Next1(found[i - 1], i)
  BY <1>6
<1> DEFINE S == {i \in 0..N : found[i] \in V}
<1>8. 0 \in S
  <2>1. 0 \in 0..N
    BY <1>1
  <2> QED BY <1>4, <1>7, <2>1
<1>9. ASSUME NEW i \in 0..(N - 1), i \in S
      PROVE  i + 1 \in S
  <2>1. i + 1 \in 0..N /\ i + 1 \in 1..N /\ i + 1 # 0 /\ (i + 1) - 1 = i
    BY <1>1
  <2>2. found[i + 1] = Next1(found[i], i + 1)
    BY <1>7, <2>1
  <2> QED BY <1>3, <1>9, <2>1, <2>2
<1>10. \A i \in 0..N : i \in S
  <2> HIDE DEF S
  <2> QED BY <1>1, <1>8, <1>9, InductionUpTo
<1>11. N \in 0..N
  BY <1>1
<1> QED
  BY <1>2, <1>10, <1>11 DEF V

(* A term's part of the graph is walked for facts.                         *)
LEMMA WalkForFactsKeeps ==
    ASSUME RecallInv, WalkForFacts
    PROVE  RecallInv'
<1>1. query.at = "walk" /\ query.args.tool = "facts"
  BY DEF WalkForFacts
<1>2. /\ query \in Query /\ query.at # "begin" /\ query.found \in Seq(Facts) /\ Typed /\ Placed(query)
      /\ query.args \in Requests /\ Request(query.args) /\ query.args.limit \in Nat \ {0}
      /\ query.term \in Nat \ {0} /\ query.args.terms \in Seq(Terms)
      /\ Answers(query) /\ Complete(query) /\ relations \in Seq(Relations)
  <2>1. query \in Query /\ Typed /\ Request(query.args)
    BY <1>1, WalkCall
  <2> QED BY <1>1, <2>1, WalkCall DEF Query, Typed, Request
<1>3. PICK g : g = Neighborhood(RootOf[query.args.terms[query.term]], query.args.depth,
                                query.args.limit, query.known, relations)
  OBVIOUS
<1>4. g.edges \in Seq(Relations)
  <2>1. query.known \subseteq Known /\ NoEntity \notin query.known
    BY <1>2, RecallAssumption DEF Query, Known
  <2>2. query.args.depth \in 0..2
    BY <1>2 DEF Request
  <2>3. {} \in SUBSET Elements(relations) /\ {} \in SUBSET query.known
    OBVIOUS
  <2>4. Graphs(g, RootOf[query.args.terms[query.term]], query.args.depth, query.args.limit,
               query.known, {}, {})
    BY <1>2, <1>3, <2>1, <2>2, <2>3, NeighborhoodWhole
  <2> QED BY <2>4 DEF Graphs
<1>5. PICK found : found = First(Cited(query, g.edges), query.args.limit)
  OBVIOUS
<1>6. found \in Seq(Facts) /\ found \in Seq(Facts \cup Relations)
  <2>1. Cited(query, g.edges) \in Seq(Facts)
    BY <1>2, <1>4, CitedFacts
  <2>2. found \in Seq(Facts)
    BY <1>2, <1>5, <2>1, CutList
  <2> QED BY <2>2, SeqMonotonic
<1>7. PICK c : c = [query EXCEPT !.edges = @ \cup Elements(g.edges), !.found = found]
  OBVIOUS
<1>8. /\ c \in Query /\ c.args = query.args /\ c.found = found
      /\ c.term = query.term /\ c.lexical = query.lexical
      /\ c.kept = query.kept /\ c.queue = query.queue /\ c.semantic = query.semantic
      /\ c.graph = query.graph /\ c.checked = query.checked /\ c.seeds = query.seeds
  <2>1. query.edges \cup Elements(g.edges) \subseteq Relations
    BY <1>2, <1>4, ElementsOfSeq DEF Query
  <2> QED BY <1>2, <1>6, <1>7, <2>1 DEF Query
<1>9. Becomes(IF query.term < Len(query.args.terms) /\ Len(found) < query.args.limit
              THEN [c EXCEPT !.at = "entities", !.term = @ + 1]
              ELSE LookAt(c, Unread(found), "graph"))
  BY <1>3, <1>5, <1>7 DEF WalkForFacts
<1>10. \A i \in DOMAIN query.args.terms : Wanted(query, i) \subseteq Elements(query.lexical)
  BY <1>1, <1>2 DEF Complete
<1>11. CASE query.term < Len(query.args.terms) /\ Len(found) < query.args.limit
  <2>1. PICK n : n = query.term + 1
    OBVIOUS
  <2>2. PICK d : d = [c EXCEPT !.at = "entities", !.term = n]
    OBVIOUS
  <2>3. Becomes(d)
    <3>1. [c EXCEPT !.at = "entities", !.term = @ + 1] = d
      BY <1>8, <2>1, <2>2
    <3> QED BY <1>9, <1>11, <3>1
  <2>4. n \in Nat \ {0} /\ n <= Len(query.args.terms)
    BY <1>2, <1>11, <2>1
  <2>5. d \in Query
    BY <1>8, <2>2, <2>4, PlaceTaken DEF Places
  <2>6. /\ d.at = "entities" /\ d.term = n /\ d.args = query.args /\ d.found = found
        /\ d.lexical = query.lexical /\ d.kept = query.kept /\ d.queue = query.queue
        /\ d.semantic = query.semantic /\ d.graph = query.graph /\ d.checked = query.checked
        /\ d.seeds = query.seeds
    BY <1>8, <2>2 DEF Query
  <2>7. Placed(d)
    BY <1>1, <1>6, <2>4, <2>6 DEF Placed, PlacesOf
  <2>8. Answers(d)
    BY <1>2, <2>6 DEF Answers, May, Looking
  <2>9. Complete(d)
    BY <1>10, <2>6 DEF Complete, Looking, Wanted
  <2> QED BY <1>1, <1>2, <2>3, <2>5, <2>6, <2>7, <2>8, <2>9, SearchMoves
<1>12. CASE ~(query.term < Len(query.args.terms) /\ Len(found) < query.args.limit)
  <2>1. PICK rows : rows = Unread(found)
    OBVIOUS
  <2>2. /\ rows \in Seq(Rows)
        /\ \A r \in Elements(rows) : r.state = "unread"
    BY <1>6, <2>1, RowsUnread
  <2>3. PICK d : d = LookAt(c, rows, "graph")
    OBVIOUS
  <2>4. Becomes(d)
    BY <1>9, <1>12, <2>1, <2>3
  <2>5. Turned(d, c, rows, "graph", <<>>)
    BY <1>8, <2>2, <2>3, TurnsToAll DEF Kinds
  <2>6. Placed(d)
    BY <1>1, <1>6, <1>8, <2>5 DEF Turned, Placed, PlacesOf, Kinds
  <2>7. Answers(d)
    BY <1>2, <1>8, <2>2, <2>5, NoElements DEF Turned, Answers, May, Looking
  <2>8. Complete(d)
    BY <1>8, <1>10, <2>5 DEF Turned, Complete, Looking, Wanted
  <2>9. d \in Query /\ d.args = query.args /\ d.at = "consider"
    BY <1>8, <2>5 DEF Turned
  <2> QED BY <1>1, <1>2, <2>4, <2>6, <2>7, <2>8, <2>9, SearchMoves
<1> QED
  BY <1>11, <1>12

(* search_graph answers.                                                   *)
LEMMA WalkForGraphKeeps ==
    ASSUME RecallInv, WalkForGraph
    PROVE  RecallInv'
<1>1. query.at = "walk" /\ query.args.tool = "graph"
  BY DEF WalkForGraph
<1>2. /\ query \in Query /\ query.at # "begin" /\ Typed /\ Request(query.args)
      /\ query.args.limit \in Nat \ {0} /\ relations \in Seq(Relations)
      /\ query.args.depth \in 0..2 /\ query.args.depth # 0
      /\ query.known \subseteq Known /\ NoEntity \notin query.known
      /\ FirstEntities \subseteq query.known /\ Elements(FirstRelations) \subseteq Elements(relations)
  <2>1. query \in Query /\ Typed /\ Request(query.args) /\ Walking(query)
    BY <1>1, WalkCall
  <2> QED BY <1>1, <2>1, WalkCall, RecallAssumption DEF Query, Typed, Request, Walking, Known
<1>3. PICK root : root = RootOf[query.args.terms[1]]
  OBVIOUS
<1>4. PICK g : g = Neighborhood(root, query.args.depth, query.args.limit, query.known, relations)
  OBVIOUS
<1>5. /\ g.nodes \subseteq query.known /\ g.edges \in Seq(Relations)
      /\ g.nodes # {} => Whole(g.nodes, g.edges, root, query.args.depth, query.args.limit,
                               FirstEntities, Elements(FirstRelations))
  <2>1. FirstEntities \in SUBSET query.known /\ Elements(FirstRelations) \in SUBSET Elements(relations)
    BY <1>2
  <2>2. Graphs(g, root, query.args.depth, query.args.limit, query.known, FirstEntities,
               Elements(FirstRelations))
    BY <1>2, <1>4, <2>1, NeighborhoodWhole
  <2> QED BY <1>2, <2>2 DEF Graphs
<1>6. PICK c : c = [query EXCEPT !.at = "done", !.nodes = g.nodes, !.found = g.edges]
  OBVIOUS
<1>7. Becomes(c)
  BY <1>3, <1>4, <1>6 DEF WalkForGraph
<1>8. /\ c \in Query /\ c.at = "done" /\ c.args = query.args /\ c.nodes = g.nodes /\ c.found = g.edges
  <2>1. "done" \in Places /\ g.nodes \subseteq Facts \cup Known /\ g.edges \in Seq(Facts \cup Relations)
    BY <1>2, <1>5, SeqMonotonic DEF Places
  <2> QED BY <1>2, <1>6, <2>1 DEF Query
<1>9. Placed(c)
  BY <1>1, <1>8 DEF Placed, PlacesOf
<1>10. Walking(c)
  BY <1>1, <1>8, WalkCall DEF Walking
<1>11. DiagnosisTruthful'
  BY <1>1, <1>7, <1>8 DEF Becomes, DiagnosisTruthful
<1>12. GraphWhole'
  <2>1. query' = c
    BY <1>7 DEF Becomes
  <2> QED BY <1>3, <1>5, <1>8, <2>1 DEF GraphWhole, Whole
<1> QED
  BY <1>1, <1>2, <1>7, <1>8, <1>9, <1>10, <1>11, <1>12, CallMoves

-----------------------------------------------------------------------------
(* Diagnoses.                                                              *)

(* What is known of a diagnosis.                                           *)
LEMMA DiagnoseCall ==
    ASSUME RecallInv, query.at \in {"rows", "conflicts", "evidence"}
    PROVE  /\ query \in Query /\ query.args.tool = "diagnose" /\ query.at # "begin"
           /\ query.args \in Requests /\ Request(query.args) /\ query.args.terms[1] \in Terms
           /\ Typed /\ Seen(query) /\ Steady(query)
           /\ Diagnosed(query) /\ Placed(query) /\ Walking(query)
<1>1. query \in Query /\ Placed(query) /\ Typed /\ Watched /\ Walking(query)
  BY DEF RecallInv, Typed
<1>2. query.args \in Requests /\ Request(query.args)
  BY <1>1, RecallAssumption DEF Query
<1>3. query.args.tool = "diagnose"
  BY <1>1, <1>2 DEF Placed, PlacesOf, Request
<1>4. query.args.terms[1] \in Terms
  <2>1. query.args.terms \in Seq(Terms) /\ query.args.terms # <<>>
    BY <1>2, <1>3 DEF Request
  <2> QED BY <2>1
<1> QED
  BY <1>1, <1>2, <1>3, <1>4, RecallAssumption DEF RecallInv, Watched

(* The rows a diagnosis reads are all it looks for unless there are too    *)
(* many, and some if there are any.                                        *)
LEMMA FoundRows ==
    ASSUME RecallInv, query.at \in {"rows", "conflicts", "evidence"}
    PROVE  /\ Sought(query) \subseteq Facts /\ Found \subseteq Sought(query)
           /\ Few(query) => Found = Sought(query)
           /\ Found = {} => Sought(query) = {}
<1>1. PICK ids : ids = Sought(query)
  OBVIOUS
<1>2. ids \in SUBSET Facts
  <2>1. query.args.terms[1] \in Terms
    BY DiagnoseCall
  <2> QED BY <1>1, <2>1, RecallAssumption DEF Sought, Candidates
<1>3. PICK all : all = ById(ids)
  OBVIOUS
<1>4. all \in Seq(Facts) /\ Elements(all) = ids /\ Len(all) = Cardinality(ids) /\ Len(all) \in Nat
  BY <1>2, <1>3, ByIdLists
<1>5. PICK s : s = First(all, RowLimit)
  OBVIOUS
<1>6. /\ s \in Seq(Facts) /\ Elements(s) \subseteq Elements(all)
      /\ Len(s) = IF RowLimit < Len(all) THEN RowLimit ELSE Len(all)
      /\ Len(all) <= RowLimit => s = all
  BY <1>4, <1>5, DiagnosisAssumption, CutList
<1>7. Found = Elements(s)
  BY <1>1, <1>3, <1>5 DEF Found, Sought
<1>8. Few(query) => Found = ids
  BY <1>1, <1>4, <1>6, <1>7 DEF Few
<1>9. ASSUME Found = {} PROVE ids = {}
  <2>1. s \in Seq(Facts)
    BY <1>6
  <2>2. DOMAIN s = {}
    BY <1>7, <1>9 DEF Elements
  <2>3. DOMAIN s = 1..Len(s) /\ Len(s) \in Nat
    BY <2>1
  <2>4. Len(s) = 0
    BY <2>2, <2>3
  <2>5. s = all
    BY <2>4, <1>4, <1>6, DiagnosisAssumption
  <2> QED BY <2>5, <1>4, <1>7, <1>9
<1> QED
  BY <1>1, <1>2, <1>4, <1>6, <1>7, <1>8, <1>9

(* A diagnosis ends with a verdict that is true.                           *)
LEMMA SaysKeeps ==
    ASSUME RecallInv, query.at \in {"rows", "conflicts", "evidence"}, NEW v \in Verdicts, Says(v),
           v = "no_match" => Sought(query) = {},
           v \in {"stale", "abstained"} /\ Few(query) => Sought(query) \cap steady = {},
           v = "matched" => Sought(query) \cap seen \cap (IF query.args.strict THEN anchored ELSE Facts) # {}
    PROVE  RecallInv'
<1>1. PICK c : c = [query EXCEPT !.at = "done", !.into = v]
  OBVIOUS
<1>2. Becomes(c)
  BY <1>1 DEF Says
<1>3. "done" \in Places /\ v \in Kinds \cup Verdicts
  BY DEF Places
<1>4. c \in Query /\ c.at = "done" /\ c.args = query.args /\ c.into = v
  BY <1>1, <1>3, DiagnoseCall DEF Query
<1>5. Placed(c) /\ Walking(c) /\ Diagnosed(c)
  BY <1>4, DiagnoseCall DEF Placed, PlacesOf, Walking, Diagnosed
<1>6. GraphWhole'
  BY <1>2, <1>4, DiagnoseCall DEF Becomes, GraphWhole
<1>7. DiagnosisTruthful'
  <2>1. query'.args = query.args /\ query'.into = v /\ UNCHANGED <<seen, steady, anchored>>
    BY <1>2, <1>4 DEF Becomes
  <2>2. v = "no_match" => (Words[query.args.terms[1]] \cup Contains[query.args.terms[1]]) \cap seen = {}
    BY DEF Sought, Candidates
  <2> QED BY <2>1, <2>2 DEF DiagnosisTruthful, Sought, Few
<1> QED
  BY <1>2, <1>4, <1>5, <1>6, <1>7, DiagnoseCall, CallMoves

(* A diagnosis goes on.                                                    *)
LEMMA DiagnosisMoves ==
    ASSUME RecallInv, query.at \in {"rows", "conflicts", "evidence"}, NEW c, Becomes(c),
           c \in Query, c.args = query.args, c.at \in {"conflicts", "evidence"}, Diagnosed(c)
    PROVE  RecallInv'
<1>1. Placed(c) /\ Walking(c)
  BY DiagnoseCall DEF Placed, PlacesOf, Walking
<1>2. GraphWhole' /\ DiagnosisTruthful'
  BY DEF Becomes, GraphWhole, DiagnosisTruthful
<1> QED
  BY <1>1, <1>2, DiagnoseCall, CallMoves

(* The facts that match are read.                                          *)
LEMMA DiagnoseRowsKeeps ==
    ASSUME RecallInv, DiagnoseRows
    PROVE  RecallInv'
<1>1. query.at = "rows"
  BY DEF DiagnoseRows
<1>2. ASSUME NEW v \in {"unavailable", "timeout"}, Says(v) PROVE RecallInv'
  BY <1>1, <1>2, SaysKeeps DEF Verdicts
<1>3. PICK active : active = Found \cap Usable(state, "diagnose")
  OBVIOUS
<1>4. ASSUME Becomes([query EXCEPT !.at = "conflicts", !.queue = Held(ById(active), {}),
                                   !.nodes = active])
      PROVE  RecallInv'
  <2>1. active \in SUBSET Facts
    BY <1>3 DEF Usable
  <2>2. ById(active) \in Seq(Facts) /\ Elements(ById(active)) = active
    BY <2>1, ByIdLists
  <2>3. PICK rows : rows = Held(ById(active), {})
    OBVIOUS
  <2>4. /\ rows \in Seq(Rows)
        /\ \A r \in Elements(rows) : r.id \in active
        /\ \A f \in active : \E r \in Elements(rows) : r.id = f
    BY <2>2, <2>3, RowsHeld
  <2>5. PICK c : c = [query EXCEPT !.at = "conflicts", !.queue = rows, !.nodes = active]
    OBVIOUS
  <2>6. Becomes(c)
    BY <1>4, <2>3, <2>5
  <2>7. /\ c \in Query /\ c.at = "conflicts" /\ c.queue = rows /\ c.nodes = active
        /\ c.args = query.args /\ c.kept = query.kept
    <3>1. "conflicts" \in Places
      BY DEF Places
    <3> QED BY <1>1, <2>1, <2>4, <2>5, <3>1, DiagnoseCall DEF Query
  <2>8. query.kept = <<>>
    BY <1>1, DiagnoseCall DEF Diagnosed
  <2>9. Queued(c) = active
    BY <2>4, <2>7 DEF Queued
  <2>10. Usable(state, "diagnose") \subseteq seen /\ steady \subseteq Usable(state, "diagnose")
    <3>1. Seen(query) /\ Steady(query) /\ query.args.tool = "diagnose"
      BY <1>1, DiagnoseCall
    <3>2. Usable(state, "diagnose") \subseteq Open(state, late, query.args.asof)
      BY DEF Usable, Open, Listed
    <3> QED BY <3>1, <3>2 DEF Seen, Steady
  <2>11. /\ active \subseteq Sought(query) \cap seen
         /\ Few(query) => Sought(query) \cap steady \subseteq active
    BY <1>1, <1>3, <2>10, FoundRows
  <2>12. Diagnosed(c)
    BY <2>7, <2>8, <2>9, <2>11, NoElements DEF Diagnosed, Sought, Few
  <2> QED BY <1>1, <2>6, <2>7, <2>12, DiagnosisMoves
<1> QED
  BY <1>2, <1>3, <1>4 DEF DiagnoseRows

(* The decisions are asked for conflicts.                                  *)
LEMMA DiagnoseConflictsKeeps ==
    ASSUME RecallInv, DiagnoseConflicts
    PROVE  RecallInv'
<1>1. query.at = "conflicts"
  BY DEF DiagnoseConflicts
<1>2. ASSUME NEW v \in {"unavailable", "conflicting"}, Says(v) PROVE RecallInv'
  BY <1>1, <1>2, SaysKeeps DEF Verdicts
<1>3. /\ query.nodes \subseteq Sought(query) \cap seen
      /\ Few(query) => Sought(query) \cap steady \subseteq query.nodes
      /\ Sought(query) \subseteq Facts /\ (Found = {} => Sought(query) = {})
  BY <1>1, DiagnoseCall, FoundRows DEF Diagnosed
<1>4. ASSUME ~(query.args.strict /\ query.nodes # {}), Says(Verdict(Found, query.nodes, {}))
      PROVE  RecallInv'
  <2>1. PICK v : v = Verdict(Found, query.nodes, {})
    OBVIOUS
  <2>2. /\ v \in {"matched", "stale", "no_match"}
        /\ v = "matched" => query.nodes # {} /\ ~query.args.strict
        /\ v # "matched" => query.nodes = {}
        /\ v = "no_match" => Found = {}
    BY <1>4, <2>1 DEF Verdict
  <2>3. v \in Verdicts
    BY <2>2 DEF Verdicts
  <2>4. /\ v = "no_match" => Sought(query) = {}
        /\ v \in {"stale", "abstained"} /\ Few(query) => Sought(query) \cap steady = {}
    BY <1>3, <2>2
  <2>5. v = "matched" => Sought(query) \cap seen \cap (IF query.args.strict THEN anchored ELSE Facts) # {}
    BY <1>3, <2>2
  <2> QED BY <1>1, <1>4, <2>1, <2>3, <2>4, <2>5, SaysKeeps
<1>5. ASSUME query.args.strict, query.nodes # {}, Becomes([query EXCEPT !.at = "evidence"])
      PROVE  RecallInv'
  <2>1. PICK c : c = [query EXCEPT !.at = "evidence"]
    OBVIOUS
  <2>2. /\ c \in Query /\ c.at = "evidence" /\ c.queue = query.queue /\ c.nodes = query.nodes
        /\ c.args = query.args /\ c.kept = query.kept
    <3>1. "evidence" \in Places
      BY DEF Places
    <3> QED BY <1>1, <2>1, <3>1, DiagnoseCall DEF Query
  <2>3. Diagnosed(c)
    BY <1>1, <1>5, <2>2, DiagnoseCall DEF Diagnosed, Sought, Few, Queued
  <2> QED BY <1>1, <1>5, <2>1, <2>2, <2>3, DiagnosisMoves
<1> QED
  BY <1>2, <1>4, <1>5 DEF DiagnoseConflicts

(* The evidence of one fact after the other.                               *)
LEMMA DiagnoseEvidenceKeeps ==
    ASSUME RecallInv, DiagnoseEvidence
    PROVE  RecallInv'
<1>1. query.at = "evidence"
  BY DEF DiagnoseEvidence
<1>2. /\ query.nodes \subseteq Sought(query) \cap seen
      /\ Few(query) => Sought(query) \cap steady \subseteq query.nodes
      /\ Queued(query) \subseteq query.nodes
      /\ Elements(query.kept) \subseteq query.nodes \cap anchored
      /\ query.nodes \cap steady \subseteq Queued(query) \cup Elements(query.kept)
      /\ query.args.strict /\ query.nodes # {}
      /\ query \in Query /\ query.queue \in Seq(Rows) /\ query.kept \in Seq(Facts)
      /\ steady \subseteq anchored
  <2>1. Diagnosed(query) /\ query \in Query
    BY <1>1, DiagnoseCall
  <2>2. query.args.strict
    BY <1>1, <2>1 DEF Diagnosed
  <2>3. steady \subseteq anchored
    BY <1>1, <2>2, DiagnoseCall DEF Steady
  <2> QED BY <1>1, <2>1, <2>2, <2>3 DEF Diagnosed, Query
<1>3. ASSUME Says("unavailable") PROVE RecallInv'
  BY <1>1, <1>3, SaysKeeps DEF Verdicts
<1>4. ASSUME query.queue # <<>>,
             Becomes([query EXCEPT !.queue = Tail(@),
                                   !.kept = IF query.queue[1].id \in anchored
                                            THEN Append(@, query.queue[1].id) ELSE @])
      PROVE  RecallInv'
  <2>1. PICK row, rest, kept :
          /\ row = query.queue[1] /\ rest = Tail(query.queue)
          /\ kept = IF row.id \in anchored THEN Append(query.kept, row.id) ELSE query.kept
    OBVIOUS
  <2>2. PICK c : c = [query EXCEPT !.queue = rest, !.kept = kept]
    OBVIOUS
  <2>3. Becomes(c)
    BY <1>4, <2>1, <2>2
  <2>4. /\ rest \in Seq(Rows) /\ row \in Rows
        /\ Elements(query.queue) = {row} \cup Elements(rest)
    BY <1>2, <1>4, <2>1, ShortenedList
  <2>5. row.id \in Facts
    BY <2>4 DEF Rows
  <2>6. /\ kept \in Seq(Facts)
        /\ Elements(kept) = IF row.id \in anchored THEN Elements(query.kept) \cup {row.id}
                            ELSE Elements(query.kept)
    <3>1. /\ Append(query.kept, row.id) \in Seq(Facts)
          /\ Elements(Append(query.kept, row.id)) = Elements(query.kept) \cup {row.id}
      BY <1>2, <2>5, ExtendedList
    <3> QED BY <1>2, <2>1, <3>1
  <2>7. /\ c \in Query /\ c.at = "evidence" /\ c.queue = rest /\ c.nodes = query.nodes
        /\ c.args = query.args /\ c.kept = kept
    BY <1>1, <1>2, <2>2, <2>4, <2>6 DEF Query
  <2>8. Queued(query) = {row.id} \cup Queued(c)
    <3>1. Queued(query) \subseteq {row.id} \cup Queued(c)
      BY <2>4, <2>7 DEF Queued
    <3>2. {row.id} \cup Queued(c) \subseteq Queued(query)
      BY <2>4, <2>7 DEF Queued
    <3> QED BY <3>1, <3>2
  <2>9. Elements(kept) \subseteq query.nodes \cap anchored
    BY <1>2, <2>6, <2>8
  <2>10. query.nodes \cap steady \subseteq Queued(c) \cup Elements(kept)
    BY <1>2, <2>6, <2>8
  <2>11. Diagnosed(c)
    BY <1>2, <2>7, <2>8, <2>9, <2>10 DEF Diagnosed, Sought, Few
  <2> QED BY <1>1, <2>3, <2>7, <2>11, DiagnosisMoves
<1>5. ASSUME query.queue = <<>>, Says(Verdict(Found, query.nodes, Elements(query.kept)))
      PROVE  RecallInv'
  <2>1. PICK v : v = Verdict(Found, query.nodes, Elements(query.kept))
    OBVIOUS
  <2>2. /\ v \in {"matched", "abstained"}
        /\ v = "matched" => Elements(query.kept) # {}
        /\ v = "abstained" => Elements(query.kept) = {}
    BY <1>2, <2>1 DEF Verdict
  <2>3. Queued(query) = {}
    BY <1>5, NoElements DEF Queued
  <2>4. v \in Verdicts
    BY <2>2 DEF Verdicts
  <2>5. /\ v # "no_match"
        /\ v \in {"stale", "abstained"} /\ Few(query) => Sought(query) \cap steady = {}
    BY <1>2, <2>2, <2>3
  <2>6. v = "matched" => Sought(query) \cap seen \cap (IF query.args.strict THEN anchored ELSE Facts) # {}
    BY <1>2, <2>2
  <2> QED BY <1>1, <1>5, <2>1, <2>4, <2>5, <2>6, SaysKeeps
<1> QED
  BY <1>3, <1>4, <1>5 DEF DiagnoseEvidence

-----------------------------------------------------------------------------
(* No call.                                                                *)
QueryInv == IF query.at = "none" THEN NoRecall ELSE RecallInv

(* The state of a call is that of one in progress, or there is none.       *)
LEMMA QueryStart == Init => QueryInv
<1>1. RecallInit => RecallInv /\ query.at # "none"
  <2>1. RecallInit => query.at = "begin"
    BY DEF RecallInit
  <2> QED BY <2>1, RecallStart
<1>2. NoRecall => query.at = "none"
  BY DEF NoRecall
<1> QED
  BY <1>1, <1>2 DEF Init, QueryInv

(* Each step of a call, or of another process while it runs, keeps the     *)
(* invariant.                                                              *)
LEMMA RecallStepKeeps ==
    ASSUME RecallInv, RecallNext \/ DiagnosisNext
    PROVE  RecallInv'
<1>1. CASE RecallNext
  BY <1>1, BeginKeeps, SearchKeeps, FallbackKeeps, VectorsKeep, ReadRowKeeps, ConsiderKeeps, AllConsideredKeeps,
     ReadEntitiesKeeps, WalkForFactsKeeps, WalkForGraphKeeps, SiblingKeeps, OthersKeep DEF RecallNext
<1>2. CASE DiagnosisNext
  BY <1>2, DiagnoseRowsKeeps, DiagnoseConflictsKeeps, DiagnoseEvidenceKeeps DEF DiagnosisNext
<1> QED
  BY <1>1, <1>2

(* Each step of the system keeps the state of the call.                    *)
LEMMA QueryStep == QueryInv /\ [Next]_vars => QueryInv'
<1> SUFFICES ASSUME QueryInv, [Next]_vars PROVE QueryInv'
  OBVIOUS
<1>1. CASE UNCHANGED recallVars
  BY <1>1 DEF QueryInv, recallVars, NoRecall, RecallInv, Typed, Watched, Seen, Steady, Placed,
     Walking, Blank, Answers, Complete, May, Wanted, Queued, Looking, Diagnosed, Sought, Few,
     DiagnosisTruthful, GraphWhole
<1>2. CASE query.at # "none" /\ (RecallNext \/ DiagnosisNext)
  <2>1. RecallInv'
    BY <1>2, RecallStepKeeps DEF QueryInv
  <2>2. query'.at # "none"
    BY <2>1 DEF RecallInv, Typed, Query, Places
  <2> QED BY <2>1, <2>2 DEF QueryInv
<1> QED
  BY <1>1, <1>2 DEF Next, vars

-----------------------------------------------------------------------------
(* Pages.                                                                  *)

(* A span is a list of as many characters.                                 *)
LEMMA SpanIs ==
    ASSUME NEW from \in Nat, NEW to \in Nat, from <= to
    PROVE  /\ Span(from, to) \in Seq(Nat) /\ Len(Span(from, to)) = to - from
           /\ \A i \in 1..(to - from) : Span(from, to)[i] = from + i
<1>1. to - from \in Nat
  OBVIOUS
<1> QED
  BY <1>1 DEF Span

(* The beginning of a text, up to a character.                             *)
LEMMA SpanFromStart ==
    ASSUME NEW to \in Nat
    PROVE  Span(0, to) \in Seq(Nat) /\ Len(Span(0, to)) = to /\ \A i \in 1..to : Span(0, to)[i] = i
<1>1. to - 0 = to /\ \A i \in 1..to : 0 + i = i
  OBVIOUS
<1>2. Span(0, to) = [i \in 1..to |-> 0 + i]
  BY <1>1 DEF Span
<1> QED
  BY <1>1, <1>2

(* A beginning of the text and what follows it.                            *)
LEMMA SpanJoins ==
    ASSUME NEW a \in Nat, NEW b \in Nat, a <= b
    PROVE  Span(0, a) \o Span(a, b) = Span(0, b)
<1>1. PICK s : s = Span(0, a)
  OBVIOUS
<1>2. s \in Seq(Nat) /\ Len(s) = a /\ \A i \in 1..a : s[i] = i
  BY <1>1, SpanFromStart
<1>3. PICK t : t = Span(a, b)
  OBVIOUS
<1>4. t \in Seq(Nat) /\ Len(t) = b - a /\ \A i \in 1..(b - a) : t[i] = a + i
  BY <1>3, SpanIs
<1>5. PICK u : u = Span(0, b)
  OBVIOUS
<1>6. u \in Seq(Nat) /\ Len(u) = b /\ \A i \in 1..b : u[i] = i
  BY <1>5, SpanFromStart
<1>7. a + (b - a) = b
  OBVIOUS
<1>8. /\ s \o t \in Seq(Nat) /\ Len(s \o t) = b
      /\ \A i \in 1..b : (s \o t)[i] = IF i <= a THEN s[i] ELSE t[i - a]
  <2>1. /\ s \o t \in Seq(Nat) /\ Len(s \o t) = Len(s) + Len(t)
        /\ \A i \in 1..(Len(s) + Len(t)) : (s \o t)[i] = IF i <= Len(s) THEN s[i] ELSE t[i - Len(s)]
    BY <1>2, <1>4, ConcatProperties
  <2>2. Len(s) = a /\ Len(s) + Len(t) = b
    BY <1>2, <1>4, <1>7
  <2> QED BY <2>1, <2>2
<1>9. \A i \in 1..b : (s \o t)[i] = u[i]
  <2> SUFFICES ASSUME NEW i \in 1..b PROVE (s \o t)[i] = u[i]
    OBVIOUS
  <2>1. CASE i <= a
    <3>1. i \in 1..a
      BY <2>1
    <3>2. (s \o t)[i] = s[i]
      BY <2>1, <1>8
    <3> QED BY <3>1, <3>2, <1>2, <1>6
  <2>2. CASE ~(i <= a)
    <3>1. i - a \in 1..(b - a) /\ a + (i - a) = i
      BY <2>2
    <3>2. (s \o t)[i] = t[i - a] /\ t[i - a] = a + (i - a)
      BY <2>2, <3>1, <1>4, <1>8
    <3> QED BY <3>1, <3>2, <1>6
  <2> QED BY <2>1, <2>2
<1>10. s \o t = u
  BY <1>6, <1>8, <1>9, SeqEqual
<1> QED
  BY <1>1, <1>3, <1>5, <1>10

Fits(c, before, after) ==
  c.start \in Nat /\ c.end \in Nat /\ c.start <= before /\ c.start <= c.end /\ c.end = after

(* A chunk that begins no later than what is there ends, and where it ends *)
(* it leaves the text whole.                                               *)
LEMMA ChunkJoins ==
    ASSUME NEW before \in Nat, NEW after \in Nat, NEW c, Fits(c, before, after)
    PROVE  Joined(Span(0, before), c) = Span(0, after)
<1>1. PICK a, b \in Nat : a = c.start /\ b = after /\ c.end = b /\ a <= before /\ a <= b
  BY DEF Fits
<1>2. Len(Span(0, before)) = before
  BY SpanFromStart
<1>3. Least(before, a) = a
  BY <1>1 DEF Least
<1>4. PICK s : s = SubSeq(Span(0, before), 1, a)
  OBVIOUS
<1>5. s \in Seq(Nat) /\ Len(s) = a /\ \A i \in 1..a : s[i] = i
  <2>1. \A i \in 1..a : Span(0, before)[i] = i /\ i \in Nat
    BY <1>1, SpanFromStart
  <2>2. /\ SubSeq(Span(0, before), 1, a) \in Seq(Nat)
        /\ Len(SubSeq(Span(0, before), 1, a)) = IF 1 <= a THEN a - 1 + 1 ELSE 0
        /\ \A i \in 1 .. a - 1 + 1 : SubSeq(Span(0, before), 1, a)[i] = Span(0, before)[1 + i - 1]
    <3>1. \A i \in 1..a : Span(0, before)[i] \in Nat
      BY <2>1
    <3> QED BY <1>1, <3>1, SubSeqProperties
  <2>3. a - 1 + 1 = a /\ \A i \in 1..a : 1 + i - 1 = i
    BY <1>1
  <2> QED BY <1>1, <1>4, <2>1, <2>2, <2>3
<1>6. s = Span(0, a)
  <2>1. /\ Span(0, a) \in Seq(Nat) /\ Len(Span(0, a)) = a /\ \A i \in 1..a : Span(0, a)[i] = i
    BY SpanFromStart
  <2> QED BY <1>5, <2>1, SeqEqual
<1>7. s \o Span(a, b) = Span(0, b)
  BY <1>1, <1>6, SpanJoins
<1> QED
  BY <1>1, <1>2, <1>3, <1>4, <1>7 DEF Joined

(* Two functions that begin alike and go on alike.                         *)
LEMMA AlikeTo ==
    ASSUME NEW at \in Nat, NEW last \in Nat, at <= last, NEW f, NEW g, f[at] = g[at],
           \A i \in at..(last - 1) : f[i] = g[i] => f[i + 1] = g[i + 1]
    PROVE  f[last] = g[last]
<1>1. PICK N \in Nat : last = at + N
  <2>1. last - at \in Nat /\ last = at + (last - at)
    OBVIOUS
  <2> QED BY <2>1
<1> DEFINE S == {n \in 0..N : f[at + n] = g[at + n]}
<1>2. 0 \in S
  <2>1. 0 \in 0..N /\ at + 0 = at
    OBVIOUS
  <2> QED BY <2>1
<1>3. ASSUME NEW n \in 0..(N - 1), n \in S PROVE n + 1 \in S
  <2>1. n + 1 \in 0..N /\ at + n \in at..(last - 1) /\ (at + n) + 1 = at + (n + 1)
    BY <1>1
  <2> QED BY <1>3, <2>1
<1>4. \A n \in 0..N : n \in S
  <2> HIDE DEF S
  <2> QED BY <1>2, <1>3, InductionUpTo
<1>5. N \in 0..N
  OBVIOUS
<1> QED
  BY <1>1, <1>4, <1>5

(* Multiplication is monotonic.                                            *)
LEMMA Times ==
    ASSUME NEW a \in Nat, NEW b \in Nat, NEW s \in Nat, a <= b
    PROVE  a * s \in Nat /\ b * s \in Nat /\ a * s <= b * s
<1>1. PICK d \in Nat : b = a + d
  <2>1. b - a \in Nat /\ b = a + (b - a)
    OBVIOUS
  <2> QED BY <2>1
<1>2. d * s \in Nat /\ a * s \in Nat /\ b * s = a * s + d * s
  BY <1>1
<1> QED
  BY <1>2

-----------------------------------------------------------------------------
(* The bytes of a piece, by the widths of the characters.                  *)
Width(w, s) == LET sum[i \in 0..Len(s)] == IF i = 0 THEN 0 ELSE sum[i - 1] + w[s[i]]
               IN sum[Len(s)]

(* The widths of the characters so far.                                    *)
Adds(f, w, s) ==
  /\ f \in [0..Len(s) -> Nat] /\ f[0] = 0
  /\ \A i \in 1..Len(s) : f[i] = f[i - 1] + w[s[i]]

(* Such a function is what the definition says.                            *)
LEMMA WidthSteps ==
    ASSUME NEW C, NEW w \in [C -> Nat], NEW s \in Seq(C)
    PROVE  \E f : Adds(f, w, s) /\ Width(w, s) = f[Len(s)]
<1> DEFINE N == Len(s)
<1> DEFINE step == [i \in 1..N |-> [v \in Nat |-> v + w[s[i]]]]
<1> DEFINE Body(f) == [i \in 0..N |-> IF i = 0 THEN 0 ELSE f[i - 1] + w[s[i]]]
<1> DEFINE sum == CHOOSE f : f = Body(f)
<1>1. N \in Nat /\ \A i \in 1..N : s[i] \in C
  BY LenProperties, ElementOfSeq
<1>2. Width(w, s) = sum[N]
  BY DEF Width
<1> HIDE DEF N
<1>3. \A i \in 1..N : \A v \in Nat : v + w[s[i]] \in Nat
  BY <1>1
<1>4. 0 \in Nat
  OBVIOUS
<1>5. PICK g : Follows(g, N, Nat, 0, step)
  <2>1. IsStep(step, N, Nat)
    BY <1>3 DEF IsStep
  <2> HIDE DEF step
  <2> QED BY <1>1, <1>4, <2>1, PrefixRecursionExists, Zenon
<1>6. \E f : f = Body(f)
  <2>1. \A i \in 1..N : \A v \in Nat : step[i][v] = v + w[s[i]]
    OBVIOUS
  <2> HIDE DEF step
  <2>2. \A i \in 1..N : g[i - 1] \in Nat
    BY <1>1, <1>5 DEF Follows
  <2>3. ASSUME NEW i \in 0..N
        PROVE  g[i] = IF i = 0 THEN 0 ELSE g[i - 1] + w[s[i]]
    <3>1. CASE i = 0
      BY <3>1, <1>5 DEF Follows
    <3>2. CASE i # 0
      <4>1. i \in 1..N
        BY <1>1, <3>2
      <4>2. g[i] = step[i][g[i - 1]] /\ g[i - 1] \in Nat
        BY <4>1, <1>5, <2>2 DEF Follows
      <4> QED BY <2>1, <3>2, <4>1, <4>2
    <3> QED BY <3>1, <3>2
  <2>4. g = [i \in 0..N |-> g[i]]
    BY <1>5 DEF Follows
  <2>5. g = Body(g)
    BY <2>3, <2>4
  <2> QED BY <2>5
<1>7. sum = Body(sum)
  <2> HIDE DEF Body
  <2> QED BY <1>6
<1> HIDE DEF sum
<1>8. sum[0] = 0 /\ \A i \in 1..N : sum[i] = sum[i - 1] + w[s[i]]
  <2>1. \A i \in 0..N : sum[i] = IF i = 0 THEN 0 ELSE sum[i - 1] + w[s[i]]
    BY <1>7
  <2>2. 0 \in 0..N /\ \A i \in 1..N : i \in 0..N /\ i # 0
    BY <1>1
  <2> QED BY <2>1, <2>2
<1>9. \A i \in 0..N : sum[i] \in Nat
  <2> DEFINE S == {i \in 0..N : sum[i] \in Nat}
  <2>1. 0 \in S
    <3>1. 0 \in 0..N
      BY <1>1
    <3> QED BY <1>4, <1>8, <3>1
  <2>2. ASSUME NEW n \in 0..N - 1, n \in S PROVE n + 1 \in S
    <3>1. n + 1 \in 1..N /\ n + 1 \in 0..N /\ (n + 1) - 1 = n
      BY <1>1
    <3>2. PICK v \in Nat : v = sum[n]
      BY <2>2
    <3>3. PICK i \in 1..N : i = n + 1 /\ i - 1 = n
      BY <3>1
    <3>4. sum[i] = v + w[s[i]]
      BY <1>8, <3>2, <3>3
    <3> QED BY <1>3, <3>1, <3>2, <3>3, <3>4
  <2>3. \A n \in 0..N : n \in S
    <3> HIDE DEF S
    <3> QED BY <1>1, <2>1, <2>2, InductionUpTo
  <2> QED BY <2>3
<1>10. sum \in [0..N -> Nat]
  <2>1. sum = [i \in 0..N |-> IF i = 0 THEN 0 ELSE sum[i - 1] + w[s[i]]]
    BY <1>7
  <2>2. DOMAIN sum = 0..N
    BY <2>1
  <2>3. sum = [i \in 0..N |-> sum[i]]
    BY <2>1, <2>2
  <2> QED BY <1>9, <2>3
<1> QED
  BY <1>2, <1>8, <1>10 DEF Adds, N

(* One more character is as many bytes more as it is wide; none is none.    *)
LEMMA WidthAppend ==
    ASSUME NEW C, NEW w \in [C -> Nat], NEW s \in Seq(C), NEW x \in C
    PROVE  Width(w, s) \in Nat /\ Width(w, Append(s, x)) = Width(w, s) + w[x]
<1>1. PICK t \in Seq(C), N \in Nat :
        /\ t = Append(s, x) /\ N = Len(s) /\ Len(t) = N + 1 /\ t[N + 1] = x
        /\ \A i \in 1..N : t[i] = s[i]
  <2>1. /\ Append(s, x) \in Seq(C) /\ Len(Append(s, x)) = Len(s) + 1
        /\ \A i \in 1..Len(s) : Append(s, x)[i] = s[i]
        /\ Append(s, x)[Len(s) + 1] = x
    BY AppendProperties
  <2>2. Len(s) \in Nat
    BY LenProperties
  <2> QED BY <2>1, <2>2
<1>2. PICK f : Adds(f, w, s) /\ Width(w, s) = f[N]
  BY <1>1, WidthSteps
<1>3. PICK g : Adds(g, w, t) /\ Width(w, t) = g[N + 1]
  BY <1>1, WidthSteps
<1>4. /\ f \in [0..N -> Nat] /\ f[0] = 0 /\ g[0] = 0
      /\ \A i \in 1..N : f[i] = f[i - 1] + w[s[i]]
      /\ \A i \in 1..(N + 1) : g[i] = g[i - 1] + w[t[i]]
  BY <1>1, <1>2, <1>3 DEF Adds
<1>5. ASSUME NEW i \in 0..(N - 1), f[i] = g[i] PROVE f[i + 1] = g[i + 1]
  <2>1. i + 1 \in 1..N /\ i + 1 \in 1..(N + 1) /\ (i + 1) - 1 = i
    OBVIOUS
  <2>2. PICK j : j = i + 1 /\ j - 1 = i /\ j \in 1..N /\ j \in 1..(N + 1)
    BY <2>1
  <2>3. f[j] = f[i] + w[s[j]] /\ g[j] = g[i] + w[t[j]]
    BY <1>4, <2>2
  <2> QED BY <1>1, <1>5, <2>2, <2>3
<1>6. f[N] = g[N]
  <2>1. 0 \in Nat /\ 0 <= N /\ f[0] = g[0]
    BY <1>4
  <2> QED BY <1>5, <2>1, AlikeTo
<1>7. g[N + 1] = g[N] + w[x]
  <2>1. N + 1 \in 1..(N + 1) /\ (N + 1) - 1 = N
    OBVIOUS
  <2> QED BY <1>1, <1>4, <2>1
<1>8. f[N] \in Nat
  BY <1>4
<1> QED
  BY <1>1, <1>2, <1>3, <1>6, <1>7, <1>8

(* The bytes of a piece are a natural number.                              *)
LEMMA WidthIsNatural ==
    ASSUME NEW C, NEW w \in [C -> Nat], NEW s \in Seq(C)
    PROVE  Width(w, s) \in Nat
<1>1. PICK f : Adds(f, w, s) /\ Width(w, s) = f[Len(s)]
  BY WidthSteps
<1>2. Len(s) \in 0..Len(s)
  BY LenProperties
<1> QED
  BY <1>1, <1>2 DEF Adds

(* A piece with no character has no bytes.                                 *)
LEMMA WidthEmpty ==
    ASSUME NEW C, NEW w \in [C -> Nat]
    PROVE  Width(w, <<>>) = 0
<1>1. <<>> \in Seq(C) /\ Len(<<>>) = 0
  OBVIOUS
<1>2. PICK f : Adds(f, w, <<>>) /\ Width(w, <<>>) = f[0]
  BY <1>1, WidthSteps
<1> QED
  BY <1>2 DEF Adds

(* The pieces so far, joined.                                              *)
Joins(f, s, C) ==
  /\ f \in [0..Len(s) -> Seq(C)] /\ f[0] = <<>>
  /\ \A i \in 1..Len(s) : f[i] = f[i - 1] \o s[i]

(* Such a function is what the definition says.                            *)
LEMMA ConcatSteps ==
    ASSUME NEW C, NEW s \in Seq(Seq(C))
    PROVE  \E f : Joins(f, s, C) /\ Concat(s) = f[Len(s)]
<1> DEFINE N == Len(s)
<1> DEFINE step == [i \in 1..N |-> [v \in Seq(C) |-> v \o s[i]]]
<1> DEFINE Body(f) == [i \in 0..N |-> IF i = 0 THEN <<>> ELSE f[i - 1] \o s[i]]
<1> DEFINE sum == CHOOSE f : f = Body(f)
<1>1. N \in Nat /\ \A i \in 1..N : s[i] \in Seq(C)
  BY LenProperties, ElementOfSeq
<1>2. Concat(s) = sum[N]
  BY DEF Concat
<1> HIDE DEF N
<1>3. \A i \in 1..N : \A v \in Seq(C) : v \o s[i] \in Seq(C)
  BY <1>1, ConcatProperties
<1>4. <<>> \in Seq(C)
  OBVIOUS
<1>5. PICK g : Follows(g, N, Seq(C), <<>>, step)
  <2>1. IsStep(step, N, Seq(C))
    BY <1>3 DEF IsStep
  <2> HIDE DEF step
  <2> QED BY <1>1, <1>4, <2>1, PrefixRecursionExists, Zenon
<1>6. \E f : f = Body(f)
  <2>1. \A i \in 1..N : \A v \in Seq(C) : step[i][v] = v \o s[i]
    OBVIOUS
  <2> HIDE DEF step
  <2>2. \A i \in 1..N : g[i - 1] \in Seq(C)
    BY <1>1, <1>5 DEF Follows
  <2>3. ASSUME NEW i \in 0..N
        PROVE  g[i] = IF i = 0 THEN <<>> ELSE g[i - 1] \o s[i]
    <3>1. CASE i = 0
      BY <3>1, <1>5 DEF Follows
    <3>2. CASE i # 0
      <4>1. i \in 1..N
        BY <1>1, <3>2
      <4>2. g[i] = step[i][g[i - 1]] /\ g[i - 1] \in Seq(C)
        BY <4>1, <1>5, <2>2 DEF Follows
      <4> QED BY <2>1, <3>2, <4>1, <4>2
    <3> QED BY <3>1, <3>2
  <2>4. g = [i \in 0..N |-> g[i]]
    BY <1>5 DEF Follows
  <2>5. g = Body(g)
    BY <2>3, <2>4
  <2> QED BY <2>5
<1>7. sum = Body(sum)
  <2> HIDE DEF Body
  <2> QED BY <1>6
<1> HIDE DEF sum
<1>8. sum[0] = <<>> /\ \A i \in 1..N : sum[i] = sum[i - 1] \o s[i]
  <2>1. \A i \in 0..N : sum[i] = IF i = 0 THEN <<>> ELSE sum[i - 1] \o s[i]
    BY <1>7
  <2>2. 0 \in 0..N /\ \A i \in 1..N : i \in 0..N /\ i # 0
    BY <1>1
  <2> QED BY <2>1, <2>2
<1>9. \A i \in 0..N : sum[i] \in Seq(C)
  <2> DEFINE S == {i \in 0..N : sum[i] \in Seq(C)}
  <2>1. 0 \in S
    <3>1. 0 \in 0..N
      BY <1>1
    <3> QED BY <1>4, <1>8, <3>1
  <2>2. ASSUME NEW n \in 0..N - 1, n \in S PROVE n + 1 \in S
    <3>1. n + 1 \in 1..N /\ n + 1 \in 0..N /\ (n + 1) - 1 = n
      BY <1>1
    <3>2. PICK v \in Seq(C) : v = sum[n]
      BY <2>2
    <3>3. PICK i \in 1..N : i = n + 1 /\ i - 1 = n
      BY <3>1
    <3>4. sum[i] = v \o s[i]
      BY <1>8, <3>2, <3>3
    <3> QED BY <1>3, <3>1, <3>2, <3>3, <3>4
  <2>3. \A n \in 0..N : n \in S
    <3> HIDE DEF S
    <3> QED BY <1>1, <2>1, <2>2, InductionUpTo
  <2> QED BY <2>3
<1>10. sum \in [0..N -> Seq(C)]
  <2>1. sum = [i \in 0..N |-> IF i = 0 THEN <<>> ELSE sum[i - 1] \o s[i]]
    BY <1>7
  <2>2. DOMAIN sum = 0..N
    BY <2>1
  <2>3. sum = [i \in 0..N |-> sum[i]]
    BY <2>1, <2>2
  <2> QED BY <1>9, <2>3
<1> QED
  BY <1>2, <1>8, <1>10 DEF Joins, N

(* One more piece is joined to those before; no pieces make no text.        *)
LEMMA ConcatAppend ==
    ASSUME NEW C, NEW s \in Seq(Seq(C)), NEW x \in Seq(C)
    PROVE  Concat(s) \in Seq(C) /\ Concat(Append(s, x)) = Concat(s) \o x
<1>1. PICK t \in Seq(Seq(C)), N \in Nat :
        /\ t = Append(s, x) /\ N = Len(s) /\ Len(t) = N + 1 /\ t[N + 1] = x
        /\ \A i \in 1..N : t[i] = s[i]
  <2>1. /\ Append(s, x) \in Seq(Seq(C)) /\ Len(Append(s, x)) = Len(s) + 1
        /\ \A i \in 1..Len(s) : Append(s, x)[i] = s[i]
        /\ Append(s, x)[Len(s) + 1] = x
    BY AppendProperties
  <2>2. Len(s) \in Nat
    BY LenProperties
  <2> QED BY <2>1, <2>2
<1>2. PICK f : Joins(f, s, C) /\ Concat(s) = f[N]
  BY <1>1, ConcatSteps
<1>3. PICK g : Joins(g, t, C) /\ Concat(t) = g[N + 1]
  BY <1>1, ConcatSteps
<1>4. /\ f \in [0..N -> Seq(C)] /\ f[0] = <<>> /\ g[0] = <<>>
      /\ \A i \in 1..N : f[i] = f[i - 1] \o s[i]
      /\ \A i \in 1..(N + 1) : g[i] = g[i - 1] \o t[i]
  BY <1>1, <1>2, <1>3 DEF Joins
<1>5. ASSUME NEW i \in 0..(N - 1), f[i] = g[i] PROVE f[i + 1] = g[i + 1]
  <2>1. i + 1 \in 1..N /\ i + 1 \in 1..(N + 1) /\ (i + 1) - 1 = i
    OBVIOUS
  <2>2. PICK j : j = i + 1 /\ j - 1 = i /\ j \in 1..N /\ j \in 1..(N + 1)
    BY <2>1
  <2>3. f[j] = f[i] \o s[j] /\ g[j] = g[i] \o t[j]
    BY <1>4, <2>2
  <2> QED BY <1>1, <1>5, <2>2, <2>3
<1>6. f[N] = g[N]
  <2>1. 0 \in Nat /\ 0 <= N /\ f[0] = g[0]
    BY <1>4
  <2> QED BY <1>5, <2>1, AlikeTo
<1>7. g[N + 1] = g[N] \o x
  <2>1. N + 1 \in 1..(N + 1) /\ (N + 1) - 1 = N
    OBVIOUS
  <2> QED BY <1>1, <1>4, <2>1
<1>8. f[N] \in Seq(C)
  BY <1>4
<1> QED
  BY <1>1, <1>2, <1>3, <1>6, <1>7, <1>8

(* No pieces join to no text.                                              *)
LEMMA ConcatEmpty ==
    ASSUME NEW C
    PROVE  Concat(<<>>) = <<>>
<1>1. <<>> \in Seq(Seq(C)) /\ Len(<<>>) = 0
  OBVIOUS
<1>2. PICK f : Joins(f, <<>>, C) /\ Concat(<<>>) = f[0]
  BY <1>1, ConcatSteps
<1> QED
  BY <1>2 DEF Joins

(* A split: the text has n characters, of 1 to 4 bytes.                    *)
Splits(n) ==
  [tool : {"bytes"}, length : {n}, size : Nat \ {0}, widths : [1..n -> 1..4], at : 0..n,
   chunk : Seq(1..n), chunks : Seq(Seq(1..n)), over : BOOLEAN]

(* Until it is over, the pieces and the one under way are the text up to   *)
(* where it is; when it has come to the end, the pieces are the text.      *)
PiecesTrue(p) ==
  /\ ~p.over =>
       /\ Concat(p.chunks) \o p.chunk = Span(0, p.at)
       /\ Width(p.widths, p.chunk) <= p.size
       /\ p.chunk = <<>> => p.at = 0 /\ p.chunks = <<>>
       /\ \A i \in DOMAIN p.chunks : p.chunks[i] # <<>> /\ Width(p.widths, p.chunks[i]) <= p.size
  /\ p.over /\ p.at = p.length =>
       /\ Concat(p.chunks) = Span(0, p.length)
       /\ \A i \in DOMAIN p.chunks : /\ p.chunks[i] = <<>> => p.length = 0
                                     /\ Width(p.widths, p.chunks[i]) <= p.size
SplitSoFar(p) == (\E n \in Nat : p \in Splits(n)) /\ PiecesTrue(p)

(* What a step of a split puts, and keeps.                                 *)
Put(p, at, chunk, chunks, over) ==
  [p EXCEPT !.at = at, !.chunk = chunk, !.chunks = chunks, !.over = over]

(* A split stays a split whatever of its own kind a step puts into it.     *)
LEMMA SplitPut ==
    ASSUME NEW n \in Nat, NEW p \in Splits(n), NEW at \in 0..n, NEW chunk \in Seq(1..n),
           NEW chunks \in Seq(Seq(1..n)), NEW over \in BOOLEAN
    PROVE  Put(p, at, chunk, chunks, over) \in Splits(n)
BY DEF Put, Splits

(* What the fields are after such a step.                                 *)
PutSays(q, n, p, at, chunk, chunks, over) ==
  /\ q.at = at /\ q.chunk = chunk /\ q.chunks = chunks /\ q.over = over
  /\ q.length = n /\ q.size = p.size /\ q.widths = p.widths /\ q.tool = "bytes"

(* A step puts what it is given and leaves length, limit and widths alone. *)
LEMMA SplitFields ==
    ASSUME NEW n \in Nat, NEW p \in Splits(n), NEW at, NEW chunk, NEW chunks, NEW over
    PROVE  PutSays(Put(p, at, chunk, chunks, over), n, p, at, chunk, chunks, over)
BY DEF Put, Splits, PutSays

(* A piece with one more character.                                        *)
Longer(C, w, s, c) ==
  /\ Append(s, c) \in Seq(C) /\ Append(s, c) # <<>> /\ Append(s, c) = s \o <<c>>
  /\ <<c>> \in Seq(C) /\ <<c>> # <<>>
  /\ Width(w, s) \in Nat /\ Width(w, Append(s, c)) = Width(w, s) + w[c]
  /\ Width(w, <<c>>) = w[c]

(* A piece with one more character is not empty and has the bytes of that  *)
(* character more.                                                         *)
LEMMA OneMore ==
    ASSUME NEW C, NEW w \in [C -> Nat], NEW s \in Seq(C), NEW c \in C
    PROVE  Longer(C, w, s, c)
<1>1. Append(s, c) \in Seq(C) /\ Append(s, c) # <<>>
  BY AppendProperties
<1>2. Append(s, c) = s \o <<c>>
  BY AppendIsConcat
<1>3. <<c>> \in Seq(C) /\ <<c>> # <<>> /\ <<>> \in Seq(C) /\ <<c>> = Append(<<>>, c)
  OBVIOUS
<1>4. Width(w, s) \in Nat /\ Width(w, Append(s, c)) = Width(w, s) + w[c]
  BY WidthAppend
<1>5. Width(w, Append(<<>>, c)) = Width(w, <<>>) + w[c] /\ Width(w, <<>>) = 0
  BY <1>3, WidthAppend, WidthEmpty
<1> QED
  BY <1>1, <1>2, <1>3, <1>4, <1>5 DEF Longer

(* The next character fits into the piece it goes to.                      *)
Room(p, full) ==
  /\ p.widths[p.at + 1] <= p.size /\ (full => p.chunk # <<>>)
  /\ ~full /\ p.chunk # <<>> => Width(p.widths, p.chunk) + p.widths[p.at + 1] <= p.size
NextChunk(p, full) == IF full THEN <<p.at + 1>> ELSE Append(p.chunk, p.at + 1)
NextChunks(p, full) == IF full THEN Append(p.chunks, p.chunk) ELSE p.chunks
Advanced(p, full) == Put(p, p.at + 1, NextChunk(p, full), NextChunks(p, full), p.over)

(* The next character goes into a piece.                                   *)
LEMMA CharacterPut ==
    ASSUME NEW n \in Nat, NEW p \in Splits(n), PiecesTrue(p), ~p.over, p.at # n,
           NEW full \in BOOLEAN, Room(p, full)
    PROVE  SplitSoFar(Advanced(p, full))
<1>1. PICK C : C = 1..n
  OBVIOUS
<1>2. PICK c \in C, a \in 0..n : c = p.at + 1 /\ a = p.at /\ a + 1 = c /\ 0 <= a /\ a <= c
  <2>1. p.at \in 0..n
    BY DEF Splits
  <2>2. p.at + 1 \in C
    BY <1>1, <2>1
  <2> QED BY <2>1, <2>2
<1>3. PICK w, s, t : /\ w = p.widths /\ s = p.chunk /\ t = p.chunks
                     /\ w \in [C -> 1..4] /\ s \in Seq(C) /\ t \in Seq(Seq(C))
  BY <1>1 DEF Splits
<1>4. w \in [C -> Nat] /\ w[c] \in Nat /\ a \in Nat /\ c \in Nat /\ p.size \in Nat
  <2>1. 1..4 \subseteq Nat /\ p.size \in Nat
    BY DEF Splits
  <2>2. w \in [C -> Nat] /\ w[c] \in Nat
    BY <1>3, <2>1
  <2> QED BY <1>2, <1>1, <2>1, <2>2
<1> DEFINE chunk == NextChunk(p, full)
           chunks == NextChunks(p, full)
<1>5. /\ full => chunk = <<c>> /\ chunks = Append(t, s) /\ s # <<>>
      /\ ~full => /\ chunk = Append(s, c) /\ chunks = t
                  /\ s # <<>> => Width(w, s) + w[c] <= p.size
      /\ w[c] <= p.size
  BY <1>2, <1>3 DEF NextChunk, NextChunks, Room
<1> HIDE DEF chunk, chunks
<1>6. /\ Append(s, c) \in Seq(C) /\ Append(s, c) # <<>> /\ Append(s, c) = s \o <<c>>
      /\ <<c>> \in Seq(C) /\ <<c>> # <<>>
      /\ Width(w, s) \in Nat /\ Width(w, Append(s, c)) = Width(w, s) + w[c]
      /\ Width(w, <<c>>) = w[c]
  <2>1. w \in [C -> Nat] /\ s \in Seq(C) /\ c \in C
    BY <1>3, <1>4
  <2>2. Longer(C, w, s, c)
    BY <2>1, OneMore, Zenon
  <2> QED BY <2>2 DEF Longer
<1>7. /\ Concat(t) \o s = Span(0, a) /\ Width(w, s) <= p.size /\ Width(w, s) \in Nat
      /\ \A i \in DOMAIN t : t[i] # <<>> /\ Width(w, t[i]) <= p.size
      /\ s = <<>> => a = 0 /\ t = <<>>
  BY <1>2, <1>3, <1>4, WidthAppend DEF PiecesTrue
<1>8. Span(0, a) \o <<c>> = Span(0, c) /\ Span(0, a) \in Seq(Nat)
  <2>1. Span(a, c) = <<c>>
    <3>1. /\ Span(a, c) \in Seq(Nat) /\ Len(Span(a, c)) = c - a
          /\ \A i \in 1..(c - a) : Span(a, c)[i] = a + i
      BY <1>2, <1>4, SpanIs
    <3>2. c - a = 1 /\ 1 \in 1..1 /\ a + 1 = c
      BY <1>2, <1>4
    <3>3. <<c>> \in Seq(Nat) /\ Len(<<c>>) = 1 /\ <<c>>[1] = c
      BY <1>4
    <3>4. \A i \in 1..1 : Span(a, c)[i] = <<c>>[i]
      BY <3>1, <3>2, <3>3
    <3> QED BY <3>1, <3>2, <3>3, <3>4, SeqEqual
  <2> QED BY <1>2, <1>4, <2>1, SpanJoins, SpanFromStart
<1>9. Append(t, s) \in Seq(Seq(C))
  BY <1>3, AppendProperties
<1>10. chunk \in Seq(C) /\ chunks \in Seq(Seq(C)) /\ chunk # <<>>
  BY <1>5, <1>6, <1>3, <1>9
<1>11. Width(w, chunk) <= p.size
  <2>1. CASE full
    BY <1>5, <1>6, <2>1
  <2>2. CASE ~full
    <3>1. s = <<>> => Width(w, s) = 0
      BY <1>4, WidthEmpty
    <3>2. Width(w, s) + w[c] <= p.size
      BY <1>5, <1>4, <2>2, <3>1
    <3> QED BY <1>5, <1>6, <2>2, <3>2
  <2> QED BY <2>1, <2>2
<1>12. Concat(chunks) \o chunk = Span(0, c)
  <2>1. Concat(t) \in Seq(C) /\ Concat(Append(t, s)) = Concat(t) \o s
    BY <1>3, ConcatAppend
  <2>2. CASE full
    BY <1>5, <1>7, <1>8, <2>1, <2>2
  <2>3. CASE ~full
    <3>1. Concat(t) \o (s \o <<c>>) = (Concat(t) \o s) \o <<c>>
      <4>1. Concat(t) \in Seq(C) /\ s \in Seq(C) /\ <<c>> \in Seq(C)
        BY <1>3, <1>6, <2>1
      <4> QED BY <4>1, ConcatAssociative
    <3> QED BY <1>5, <1>6, <1>7, <1>8, <2>3, <3>1
  <2> QED BY <2>2, <2>3
<1>13. \A i \in DOMAIN chunks : chunks[i] # <<>> /\ Width(w, chunks[i]) <= p.size
  <2>1. CASE full
    <3>1. /\ chunks = Append(t, s) /\ Len(Append(t, s)) = Len(t) + 1 /\ Append(t, s)[Len(t) + 1] = s
          /\ DOMAIN Append(t, s) = 1..(Len(t) + 1) /\ Len(t) \in Nat /\ DOMAIN t = 1..Len(t)
          /\ \A i \in 1..Len(t) : Append(t, s)[i] = t[i]
      <4>1. Append(t, s) \in Seq(Seq(C)) /\ chunks = Append(t, s)
        BY <1>5, <1>9, <2>1
      <4> QED BY <1>3, <4>1, AppendProperties, LenProperties
    <3>2. s # <<>>
      BY <1>5, <2>1
    <3>3. \A i \in 1..(Len(t) + 1) : i \in 1..Len(t) \/ i = Len(t) + 1
      BY <3>1
    <3> QED BY <1>7, <3>1, <3>2, <3>3
  <2>2. CASE ~full
    BY <1>5, <1>7, <2>2
  <2> QED BY <2>1, <2>2
<1>14. PICK q : q = Put(p, c, chunk, chunks, p.over)
  OBVIOUS
<1>15. q \in Splits(n)
  <2>1. p.over \in BOOLEAN /\ c \in 0..n
    BY <1>2, <1>1 DEF Splits
  <2> QED BY <1>1, <1>10, <1>14, <2>1, SplitPut
<1>16. /\ q.at = c /\ q.chunk = chunk /\ q.chunks = chunks /\ q.over = p.over
       /\ q.length = n /\ q.size = p.size /\ q.widths = w
  <2>1. PutSays(q, n, p, c, chunk, chunks, p.over)
    BY <1>14, SplitFields, Zenon
  <2> QED BY <1>3, <2>1 DEF PutSays
<1>17. PiecesTrue(q)
  BY <1>10, <1>11, <1>12, <1>13, <1>16 DEF PiecesTrue
<1>18. q = Advanced(p, full)
  BY <1>2, <1>14 DEF Advanced, chunk, chunks
<1> QED
  BY <1>15, <1>17, <1>18 DEF SplitSoFar

(* After the last character the piece under way is the last one.           *)
LEMMA LastPut ==
    ASSUME NEW n \in Nat, NEW p \in Splits(n), PiecesTrue(p), ~p.over, p.at = n
    PROVE  SplitSoFar(Put(p, p.at, p.chunk, Append(p.chunks, p.chunk), TRUE))
<1>1. PICK s, t : s = p.chunk /\ t = p.chunks /\ s \in Seq(1..n) /\ t \in Seq(Seq(1..n))
  BY DEF Splits
<1>2. PICK u \in Seq(Seq(1..n)) : u = Append(t, s)
  BY <1>1, AppendProperties
<1>3. Concat(u) = Span(0, n)
  <2>1. Concat(Append(t, s)) = Concat(t) \o s
    BY <1>1, ConcatAppend
  <2>2. Concat(t) \o s = Span(0, n)
    BY <1>1 DEF PiecesTrue
  <2> QED BY <1>2, <2>1, <2>2
<1>4. /\ Len(u) = Len(t) + 1 /\ u[Len(t) + 1] = s
      /\ DOMAIN u = 1..(Len(t) + 1) /\ Len(t) \in Nat /\ DOMAIN t = 1..Len(t)
      /\ \A i \in 1..Len(t) : u[i] = t[i]
  BY <1>1, <1>2, AppendProperties, LenProperties
<1>5. \A i \in DOMAIN u : /\ u[i] = <<>> => n = 0
                          /\ Width(p.widths, u[i]) <= p.size
  <2>1. \A i \in 1..(Len(t) + 1) : i \in 1..Len(t) \/ i = Len(t) + 1
    BY <1>4
  <2>2. /\ s = <<>> => n = 0
        /\ Width(p.widths, s) <= p.size
        /\ \A i \in DOMAIN t : t[i] # <<>> /\ Width(p.widths, t[i]) <= p.size
    BY <1>1 DEF PiecesTrue
  <2> QED BY <1>4, <2>1, <2>2
<1>6. PICK q : q = Put(p, p.at, p.chunk, u, TRUE)
  OBVIOUS
<1>7. q \in Splits(n)
  <2>1. p.at \in 0..n /\ p.chunk \in Seq(1..n) /\ TRUE \in BOOLEAN
    BY DEF Splits
  <2> QED BY <1>2, <1>6, <2>1, SplitPut
<1>8. /\ q.at = p.at /\ q.chunks = u /\ q.over = TRUE /\ q.length = n
      /\ q.size = p.size /\ q.widths = p.widths
  <2>1. PutSays(q, n, p, p.at, p.chunk, u, TRUE)
    BY <1>6, SplitFields, Zenon
  <2> QED BY <2>1 DEF PutSays
<1>9. PiecesTrue(q)
  BY <1>3, <1>5, <1>8 DEF PiecesTrue
<1> QED
  BY <1>1, <1>2, <1>6, <1>7, <1>9 DEF SplitSoFar

(* What the code writes is such a change.                                  *)
LEMMA SplitAsPut ==
    ASSUME NEW n \in Nat, NEW p \in Splits(n), NEW at, NEW chunk, NEW chunks
    PROVE  /\ [p EXCEPT !.over = TRUE, !.chunks = chunks] = Put(p, p.at, p.chunk, chunks, TRUE)
           /\ [p EXCEPT !.over = TRUE, !.chunks = chunks, !.chunk = chunk]
                = Put(p, p.at, chunk, chunks, TRUE)
           /\ [p EXCEPT !.at = at, !.chunks = chunks, !.chunk = chunk]
                = Put(p, at, chunk, chunks, p.over)
BY DEF Splits, Put

(* Taking a character, as the code writes it, is such a change too.        *)
LEMMA NextAsPut ==
    ASSUME NEW n \in Nat, NEW p \in Splits(n), NEW full \in BOOLEAN
    PROVE  [p EXCEPT !.at = p.at + 1, !.chunks = NextChunks(p, full), !.chunk = NextChunk(p, full)]
             = Advanced(p, full)
<1>1. PICK x, y, a : x = NextChunks(p, full) /\ y = NextChunk(p, full) /\ a = p.at + 1
  OBVIOUS
<1>2. [p EXCEPT !.at = a, !.chunks = x, !.chunk = y] = Put(p, a, y, x, p.over)
  BY DEF Splits, Put
<1>3. Advanced(p, full) = Put(p, a, y, x, p.over)
  BY <1>1 DEF Advanced
<1> QED
  BY <1>1, <1>2, <1>3

(* A split that is refused has no pieces, and is not at the end.           *)
LEMMA SplitRefused ==
    ASSUME NEW n \in Nat, NEW p \in Splits(n), p.at # n
    PROVE  SplitSoFar(Put(p, p.at, <<>>, <<>>, TRUE))
<1>1. p.at \in 0..n /\ <<>> \in Seq(1..n) /\ <<>> \in Seq(Seq(1..n)) /\ TRUE \in BOOLEAN
  BY DEF Splits
<1>2. PICK q : q = Put(p, p.at, <<>>, <<>>, TRUE)
  OBVIOUS
<1>3. q \in Splits(n)
  BY <1>1, <1>2, SplitPut
<1>4. q.at = p.at /\ q.over = TRUE /\ q.length = n
  <2>1. PutSays(q, n, p, p.at, <<>>, <<>>, TRUE)
    BY <1>2, SplitFields, Zenon
  <2> QED BY <2>1 DEF PutSays
<1>5. PiecesTrue(q)
  BY <1>4 DEF PiecesTrue
<1> QED
  BY <1>2, <1>3, <1>5 DEF SplitSoFar

(* A split begins with no piece.                                           *)
LEMMA SplitBegins ==
    ASSUME NEW n \in Nat, NEW size \in Nat \ {0}, NEW w \in [1..n -> 1..4], NEW p,
           p = [tool |-> "bytes", length |-> n, size |-> size, widths |-> w,
                at |-> 0, chunk |-> <<>>, chunks |-> <<>>, over |-> FALSE]
    PROVE  p.tool = "bytes" /\ SplitSoFar(p)
<1>1. <<>> \in Seq(1..n) /\ <<>> \in Seq(Seq(1..n)) /\ 0 \in 0..n
  OBVIOUS
<1>2. p \in Splits(n)
  BY <1>1 DEF Splits
<1>3. /\ p.tool = "bytes" /\ p.size = size /\ p.widths = w /\ p.at = 0 /\ p.chunk = <<>>
      /\ p.chunks = <<>> /\ p.over = FALSE
  OBVIOUS
<1>4. Concat(<<>>) \o <<>> = Span(0, 0)
  <2>1. Concat(<<>>) = <<>>
    BY ConcatEmpty
  <2>2. <<>> \o <<>> = <<>>
    OBVIOUS
  <2>3. Span(0, 0) \in Seq(Nat) /\ Len(Span(0, 0)) = 0
    BY SpanFromStart
  <2>4. Span(0, 0) = <<>>
    BY <2>3, EmptySeq
  <2> QED BY <2>1, <2>2, <2>4
<1>5. Width(w, <<>>) = 0
  <2>1. w \in [1..n -> Nat]
    OBVIOUS
  <2> QED BY <2>1, WidthEmpty
<1>6. PiecesTrue(p)
  BY <1>3, <1>4, <1>5 DEF PiecesTrue
<1> QED
  BY <1>2, <1>3, <1>6 DEF SplitSoFar

-----------------------------------------------------------------------------
(* How many pages a text has, and how far the first i of them reach.       *)
PageRecords ==
  [tool : {"read", "context", "fact"}, length : Nat, size : Nat \ {0}, overlap : Nat,
   atOnce : Nat \ {0}, at : Nat, got : Seq(Nat), pages : Nat, over : BOOLEAN]
Stride(p) == p.size - p.overlap
Cover(p, i) ==
  IF p.tool = "read" THEN i
  ELSE IF p.tool = "context" THEN Least(p.length, i * p.size)
  ELSE IF i = 0 THEN 0 ELSE Least(p.length, (i - 1) * Stride(p) + p.size)
Parts(p) ==
  IF p.tool = "read" THEN p.length
  ELSE IF p.tool = "context" THEN Total(p.length, p.size)
  ELSE StepFact(p.length, p.size, p.overlap)

(* What the client has is the text up to there.                            *)
ReadSoFar(p) ==
  /\ p \in PageRecords /\ p.overlap < p.size
  /\ p.got = Span(0, Cover(p, p.at))
  /\ ~p.over => p.pages <= p.at /\ (p.at = 0 \/ p.at < Parts(p))
  /\ p.over => Cover(p, p.at) = p.length /\ p.pages <= p.length + 1
PageInv ==
  IF page.tool \in {"read", "context", "fact"} THEN ReadSoFar(page)
  ELSE IF page.tool = "bytes" THEN SplitSoFar(page)
  ELSE page.tool \in {"none", "gone"} /\ "tool" \in DOMAIN page

(* The chunks of a context.                                                *)
LEMMA ContextChunks ==
    ASSUME page \in PageRecords, page.tool = "context"
    PROVE  /\ Parts(page) \in Nat /\ Parts(page) <= page.length + 1
           /\ \A i \in Nat : Cover(page, i) \in Nat
           /\ Cover(page, 0) = 0 /\ Cover(page, Parts(page)) = page.length
           /\ \A i \in Nat : i < Parts(page) =>
                Fits(ContextChunk(i), Cover(page, i), Cover(page, i + 1))
<1>1. PICK L, s \in Nat : L = page.length /\ s = page.size /\ s # 0
  BY DEF PageRecords
<1>2. PICK T : T = (L + s - 1) \div s
  OBVIOUS
<1>3. Parts(page) = T
  BY <1>1, <1>2 DEF Parts, Total
<1>4. T \in Nat /\ T * s <= L + s - 1 /\ L + s - 1 < (T + 1) * s
  <2>1. L + s - 1 \in Nat /\ s \in Nat \ {0}
    BY <1>1
  <2> QED BY <1>2, <2>1
<1>5. (T + 1) * s = T * s + s /\ T * s \in Nat
  BY <1>4
<1>6. L <= T * s
  BY <1>4, <1>5
<1>7. T <= L + 1
  <2>1. L * s + s > L + s - 1
    <3>1. 1 * L <= s * L
      <4>1. 1 \in Nat /\ 1 <= s
        BY <1>1
      <4> QED BY <1>1, <4>1, Times
    <3>2. s * L = L * s /\ 1 * L = L /\ L * s \in Nat
      OBVIOUS
    <3> QED BY <3>1, <3>2
  <2>2. ASSUME T > L + 1 PROVE FALSE
    <3>1. (L + 1) * s <= T * s
      BY <1>4, <2>2, Times
    <3>2. (L + 1) * s = L * s + s /\ L * s \in Nat
      OBVIOUS
    <3> QED BY <1>4, <1>5, <2>1, <3>1, <3>2
  <2> QED BY <2>2, <1>4
<1>8. \A i \in Nat : Cover(page, i) = (IF L < i * s THEN L ELSE i * s) /\ i * s \in Nat
  <2>1. \A i \in Nat : i * s \in Nat
    BY <1>1
  <2> QED BY <1>1, <2>1 DEF Cover, Least
<1>9. \A i \in Nat : Cover(page, i) \in Nat
  BY <1>8
<1>10. Cover(page, 0) = 0 /\ Cover(page, T) = L
  <2>1. 0 * s = 0
    BY <1>1
  <2> QED BY <1>4, <1>6, <1>5, <1>8, <2>1
<1>11. ASSUME NEW i \in Nat, i < T
       PROVE  Fits(ContextChunk(i), Cover(page, i), Cover(page, i + 1))
  <2>1. (i + 1) * s <= T * s /\ (i + 1) * s = i * s + s /\ i * s \in Nat
    <3>1. i + 1 <= T /\ i + 1 \in Nat
      BY <1>4, <1>11
    <3> QED BY <1>4, <3>1, Times
  <2>2. i * s < L
    BY <1>1, <1>4, <2>1
  <2>3. Cover(page, i) = i * s /\ Cover(page, i + 1) = IF L < (i + 1) * s THEN L ELSE (i + 1) * s
    BY <1>8, <2>1, <2>2
  <2>4. /\ ContextChunk(i).start = i * s
        /\ ContextChunk(i).end = IF L < (i + 1) * s THEN L ELSE (i + 1) * s
    BY <1>1 DEF ContextChunk, Least
  <2>5. Cover(page, i + 1) \in Nat /\ i * s <= Cover(page, i + 1)
    BY <1>1, <2>1, <2>2, <2>3
  <2> QED BY <2>1, <2>3, <2>4, <2>5 DEF Fits
<1> QED
  BY <1>1, <1>3, <1>4, <1>7, <1>9, <1>10, <1>11

(* The chunks of a fact, which overlap.                                    *)
LEMMA FactChunks ==
    ASSUME page \in PageRecords, page.tool = "fact", page.overlap < page.size
    PROVE  /\ Parts(page) \in Nat /\ Parts(page) <= page.length + 1
           /\ \A i \in Nat : Cover(page, i) \in Nat
           /\ Cover(page, 0) = 0 /\ Cover(page, Parts(page)) = page.length
           /\ \A i \in Nat : i < Parts(page) =>
                Fits(FactChunk(i), Cover(page, i), Cover(page, i + 1))
<1>1. PICK L, s, o \in Nat : L = page.length /\ s = page.size /\ o = page.overlap /\ o < s
  BY DEF PageRecords
<1>2. PICK t \in Nat \ {0} : t = Stride(page) /\ s - o = t /\ t <= s
  BY <1>1 DEF Stride
<1>3. \A i \in Nat : i * t \in Nat
  OBVIOUS
<1>4. \A i \in Nat : Cover(page, i) = IF i = 0 THEN 0
                                      ELSE IF L < (i - 1) * t + s THEN L ELSE (i - 1) * t + s
  BY <1>1, <1>2 DEF Cover, Least
<1>5. \A i \in Nat : Cover(page, i) \in Nat
  <2>1. ASSUME NEW i \in Nat, i # 0 PROVE (i - 1) * t + s \in Nat
    <3>1. i - 1 \in Nat
      BY <2>1
    <3> QED BY <1>3, <3>1
  <2> QED BY <1>4, <2>1
<1>6. \A i \in Nat : /\ FactChunk(i).start = i * t
                     /\ FactChunk(i).end = IF L < i * t + s THEN L ELSE i * t + s
  BY <1>1, <1>2 DEF FactChunk, Least, Stride
<1>7. CASE L = 0
  <2>1. Parts(page) = 0
    BY <1>1, <1>7 DEF Parts, StepFact
  <2> QED BY <1>1, <1>4, <1>5, <1>7, <2>1
<1>8. CASE L # 0
  <2> DEFINE Reaches(k) == /\ k * t + s >= L
                           /\ \A j \in 0..(k - 1) : j * t + s < L
  <2>1. \E k \in 0..L : Reaches(k)
    <3> DEFINE T == {k \in Nat : k * t + s >= L}
    <3>1. L \in T
      <4>1. L * 1 <= L * t /\ L * 1 = L /\ L * t \in Nat
        <5>1. 1 * L <= t * L
          <6>1. 1 \in Nat /\ 1 <= t
            OBVIOUS
          <6> QED BY <6>1, Times
        <5>2. 1 * L = L * 1 /\ t * L = L * t /\ L * 1 = L /\ L * t \in Nat
          OBVIOUS
        <5> QED BY <5>1, <5>2
      <4> QED BY <4>1
    <3>2. PICK m \in T : \A k \in T : m <= k
      <4>1. T \in SUBSET Nat /\ T # {}
        BY <3>1
      <4> HIDE DEF T
      <4> QED BY <4>1, LeastNatural
    <3>3. m \in 0..L
      BY <3>1, <3>2
    <3>4. ASSUME NEW j \in 0..(m - 1) PROVE j * t + s < L
      <4>1. j \in Nat /\ ~(m <= j)
        BY <3>3
      <4>2. ~(j * t + s >= L)
        BY <3>2, <4>1
      <4> QED BY <1>3, <4>1, <4>2
    <3> QED BY <3>2, <3>3, <3>4
  <2>2. PICK k \in 0..L : k = (CHOOSE n \in 0..L : Reaches(n)) /\ Reaches(k)
    BY <2>1
  <2>3. Parts(page) = 1 + k
    <3>1. StepFact(L, s, o) = 1 + CHOOSE n \in 0..L : Reaches(n)
      BY <1>2, <1>8 DEF StepFact
    <3> QED BY <1>1, <2>2, <3>1 DEF Parts
  <2>4. /\ k * t + s >= L /\ \A j \in 0..(k - 1) : j * t + s < L
    BY <2>2
  <2> HIDE DEF Reaches
  <2>5. Parts(page) \in Nat /\ Parts(page) <= L + 1 /\ Parts(page) # 0 /\ Parts(page) - 1 = k
    BY <2>3
  <2>6. Cover(page, 0) = 0
    BY <1>4
  <2>7. Cover(page, Parts(page)) = L
    <3>1. Cover(page, Parts(page)) = IF L < k * t + s THEN L ELSE k * t + s
      BY <1>4, <2>5
    <3> QED BY <1>3, <2>4, <3>1
  <2>8. ASSUME NEW i \in Nat, i < Parts(page)
        PROVE  Fits(FactChunk(i), Cover(page, i), Cover(page, i + 1))
    <3>1. Cover(page, i + 1) = FactChunk(i).end
      <4>1. i + 1 \in Nat /\ i + 1 # 0 /\ (i + 1) - 1 = i
        OBVIOUS
      <4> QED BY <1>4, <1>6, <4>1
    <3>2. CASE i = 0
      <4>1. i * t = 0
        BY <3>2
      <4>2. FactChunk(i).start = 0
        BY <1>6, <4>1
      <4> QED BY <1>5, <2>6, <3>1, <3>2, <4>2 DEF Fits
    <3>3. CASE i # 0
      <4>1. i - 1 \in Nat /\ i - 1 \in 0..(k - 1) /\ i = (i - 1) + 1
        BY <2>3, <2>8, <3>3
      <4>2. PICK j \in Nat : j = i - 1 /\ i = j + 1
        BY <4>1
      <4>3. j * t + s < L /\ j * t \in Nat /\ i * t = j * t + t
        BY <2>4, <4>1, <4>2, <1>3
      <4>4. Cover(page, i) = j * t + s
        BY <1>4, <3>3, <4>2, <4>3
      <4>5. FactChunk(i).start = j * t + t
        BY <1>6, <4>3
      <4>6. j * t + t <= j * t + s /\ j * t + t <= L /\ j * t + t \in Nat
        BY <1>2, <4>3
      <4>7. FactChunk(i).end = IF L < j * t + t + s THEN L ELSE j * t + t + s
        BY <1>6, <4>3
      <4>8. FactChunk(i).end \in Nat /\ j * t + t <= FactChunk(i).end
        BY <4>3, <4>6, <4>7
      <4> QED BY <3>1, <4>4, <4>5, <4>6, <4>8 DEF Fits
    <3> QED BY <3>2, <3>3
  <2> QED BY <1>1, <1>5, <2>5, <2>6, <2>7, <2>8
<1> QED
  BY <1>7, <1>8

(* What a page turned differs in from the one before.                      *)
TurnedPage(p, got, last, over) ==
  [p EXCEPT !.got = got, !.at = last, !.pages = @ + 1, !.over = over]
(* A record of a set stays in it when fields are given values of theirs.   *)
LEMMA FieldsPut ==
    ASSUME NEW Tools, NEW Nums, NEW Sizes, NEW Texts, NEW Ends,
           NEW p \in [tool : Tools, length : Nums, size : Sizes, overlap : Nums, atOnce : Sizes,
                      at : Nums, got : Texts, pages : Nums, over : Ends],
           NEW got \in Texts, NEW last \in Nums, NEW n \in Nums, NEW over \in Ends
    PROVE  [p EXCEPT !.got = got, !.at = last, !.pages = n, !.over = over]
             \in [tool : Tools, length : Nums, size : Sizes, overlap : Nums, atOnce : Sizes,
                  at : Nums, got : Texts, pages : Nums, over : Ends]
<1> QED
  OBVIOUS

(* A turned page is a page.                                                *)
LEMMA PageKept ==
    ASSUME NEW p \in PageRecords, NEW got \in Seq(Nat), NEW last \in Nat, NEW over \in BOOLEAN
    PROVE  TurnedPage(p, got, last, over) \in PageRecords
<1>1. PICK n \in Nat : n = p.pages + 1
  BY DEF PageRecords
<1>2. TurnedPage(p, got, last, over) = [p EXCEPT !.got = got, !.at = last, !.pages = n, !.over = over]
  BY <1>1 DEF TurnedPage
<1>3. [p EXCEPT !.got = got, !.at = last, !.pages = n, !.over = over] \in PageRecords
  BY FieldsPut, Zenon DEF PageRecords
<1> QED
  BY <1>2, <1>3

(* What a turned page differs in, and what it keeps.                       *)
LEMMA PageFields ==
    ASSUME NEW p \in PageRecords, NEW got, NEW last, NEW over
    PROVE  LET q == TurnedPage(p, got, last, over)
           IN /\ q.tool = p.tool /\ q.length = p.length /\ q.size = p.size /\ q.overlap = p.overlap
              /\ q.atOnce = p.atOnce /\ q.got = got /\ q.at = last /\ q.pages = p.pages + 1
              /\ q.over = over
<1> QED
  BY DEF PageRecords, TurnedPage

(* What a page adds, whichever the tool.                                   *)
LEMMA PageTurned ==
    ASSUME ReadSoFar(page), ~page.over, Parts(page) \in Nat, Parts(page) <= page.length + 1,
           Cover(page, Parts(page)) = page.length, NEW last \in Nat, page.at <= last,
           last <= Parts(page), last # Parts(page) => page.at < last,
           Cover(page, last) \in Nat, NEW got, got = Span(0, Cover(page, last)), NEW over \in BOOLEAN,
           over <=> last = Parts(page),
           page' = [page EXCEPT !.got = got, !.at = last, !.pages = @ + 1, !.over = over]
    PROVE  PageInv'
<1>1. /\ page \in PageRecords /\ page.overlap < page.size /\ page.pages \in Nat /\ page.at \in Nat
      /\ page.pages <= page.at /\ (page.at = 0 \/ page.at < Parts(page)) /\ page.length \in Nat
  BY DEF ReadSoFar, PageRecords
<1>2. PICK q : q = page'
  OBVIOUS
<1>3. got \in Seq(Nat)
  BY SpanFromStart
<1>4. /\ q \in PageRecords /\ q.tool = page.tool /\ q.length = page.length /\ q.size = page.size
      /\ q.overlap = page.overlap /\ q.got = got /\ q.at = last /\ q.pages = page.pages + 1
      /\ q.over = over
  <2>1. q = TurnedPage(page, got, last, over)
    BY <1>2 DEF TurnedPage
  <2>2. TurnedPage(page, got, last, over) \in PageRecords
    BY <1>1, <1>3, PageKept, Zenon
  <2> QED BY <1>1, <2>1, <2>2, PageFields
<1>5. Parts(q) = Parts(page) /\ \A i : Cover(q, i) = Cover(page, i)
  BY <1>4 DEF Parts, Cover, Stride
<1>6. q.got = Span(0, Cover(q, q.at))
  BY <1>4, <1>5
<1>7. ~q.over => q.pages <= q.at /\ (q.at = 0 \/ q.at < Parts(q))
  BY <1>1, <1>4, <1>5
<1>8. q.over => Cover(q, q.at) = q.length /\ q.pages <= q.length + 1
  BY <1>1, <1>4, <1>5
<1>9. ReadSoFar(q)
  BY <1>1, <1>4, <1>6, <1>7, <1>8 DEF ReadSoFar
<1>10. q.tool \in {"read", "context", "fact"}
  BY <1>1, <1>4 DEF PageRecords
<1>11. ReadSoFar(page)'
  BY <1>2, <1>9 DEF ReadSoFar, Cover, Parts, Stride
<1> QED
  BY <1>2, <1>10, <1>11 DEF PageInv
(* chunk_context appends the chunks asked for.                              *)
LEMMA ChunkContextKeeps == PageInv /\ ChunkContext => PageInv'
<1> SUFFICES ASSUME PageInv, ChunkContext PROVE PageInv'
  OBVIOUS
<1>1. ReadSoFar(page) /\ page \in PageRecords /\ page.tool = "context" /\ ~page.over
  BY DEF PageInv, ChunkContext, ReadSoFar
<1>2. /\ Parts(page) \in Nat /\ Parts(page) <= page.length + 1
      /\ \A i \in Nat : Cover(page, i) \in Nat
      /\ Cover(page, Parts(page)) = page.length
      /\ \A i \in Nat : i < Parts(page) =>
           Fits(ContextChunk(i), Cover(page, i), Cover(page, i + 1))
  BY <1>1, ContextChunks DEF ReadSoFar
<1> DEFINE last == Least(Total(page.length, page.size), page.at + page.atOnce)
           Body(f) == [i \in page.at..last |->
                         IF i = page.at THEN page.got ELSE Joined(f[i - 1], ContextChunk(i - 1))]
           rec == CHOOSE f : f = Body(f)
<1>3. page' = [page EXCEPT !.got = rec[last], !.at = last, !.pages = @ + 1,
                           !.over = last = Total(page.length, page.size)]
  BY DEF ChunkContext, Pages
<1>4. Total(page.length, page.size) = Parts(page)
  BY <1>1 DEF Parts
<1>5. PICK at, end \in Nat : /\ at = page.at /\ end = last /\ at <= end /\ end <= Parts(page)
                             /\ (end # Parts(page) => at < end)
  <2>1. page.at \in Nat /\ page.atOnce \in Nat \ {0}
    BY <1>1 DEF PageRecords
  <2>2. page.at = 0 \/ page.at < Parts(page)
    BY <1>1 DEF ReadSoFar
  <2> HIDE DEF last
  <2>3. last = IF Parts(page) < page.at + page.atOnce THEN Parts(page) ELSE page.at + page.atOnce
    BY <1>4 DEF last, Least
  <2> QED BY <1>2, <2>1, <2>2, <2>3
<1>6. \A f : Body(f) = [i \in at..end |->
                         IF i = at THEN page.got ELSE Joined(f[i - 1], ContextChunk(i - 1))]
  BY <1>5
<1>7. page.got = Span(0, Cover(page, at))
  BY <1>1, <1>5 DEF ReadSoFar
<1>8. ASSUME NEW i \in at..(end - 1)
      PROVE  Joined(Span(0, Cover(page, i)), ContextChunk(i)) = Span(0, Cover(page, i + 1))
  <2>1. i \in Nat /\ i < Parts(page) /\ i + 1 \in Nat
    BY <1>2, <1>5
  <2> QED BY <1>2, <2>1, ChunkJoins
<1> DEFINE g == [i \in at..end |-> Span(0, Cover(page, i))]
<1>9. \E f : f = Body(f)
  <2>1. ASSUME NEW i \in at..end, i # at
        PROVE  g[i] = Joined(g[i - 1], ContextChunk(i - 1))
    <3>1. i - 1 \in at..(end - 1) /\ i - 1 \in at..end /\ (i - 1) + 1 = i
      BY <1>5, <2>1
    <3>2. g[i] = Span(0, Cover(page, i)) /\ g[i - 1] = Span(0, Cover(page, i - 1))
      BY <3>1
    <3> QED BY <1>8, <3>1, <3>2
  <2>2. \A i \in at..end : g[i] = IF i = at THEN page.got
                                   ELSE Joined(g[i - 1], ContextChunk(i - 1))
    BY <1>5, <1>7, <2>1
  <2>3. g = [i \in at..end |-> IF i = at THEN page.got
                                ELSE Joined(g[i - 1], ContextChunk(i - 1))]
    <3>1. g = [i \in at..end |-> g[i]]
      OBVIOUS
    <3> HIDE DEF g
    <3> QED BY <2>2, <3>1
  <2> HIDE DEF g, Body
  <2> QED BY <1>6, <2>3
<1>10. rec = Body(rec)
  <2> HIDE DEF Body
  <2> QED BY <1>9
<1>11. PICK h : h = rec /\ h = [i \in at..end |->
                                  IF i = at THEN page.got ELSE Joined(h[i - 1], ContextChunk(i - 1))]
  <2> HIDE DEF Body, rec
  <2> QED BY <1>6, <1>10
<1>12. h[end] = Span(0, Cover(page, end))
  <2>1. h[at] = page.got /\ g[at] = page.got
    <3>1. at \in at..end
      BY <1>5
    <3>2. h[at] = page.got
      <4> HIDE DEF last, rec, Body, g
      <4> QED BY <1>11, <3>1
    <3> QED BY <1>7, <3>1, <3>2
  <2>2. ASSUME NEW i \in at..(end - 1), h[i] = g[i] PROVE h[i + 1] = g[i + 1]
    <3>1. i \in at..end /\ i + 1 \in at..end /\ i + 1 # at /\ (i + 1) - 1 = i
      BY <1>5
    <3>2. h[i + 1] = Joined(h[i], ContextChunk(i))
      BY <1>11, <3>1
    <3>3. g[i] = Span(0, Cover(page, i)) /\ g[i + 1] = Span(0, Cover(page, i + 1))
      BY <3>1
    <3> QED BY <1>8, <2>2, <3>2, <3>3
  <2>3. g[end] = Span(0, Cover(page, end))
    BY <1>5
  <2> HIDE DEF g, last, rec, Body
  <2>4. h[end] = g[end]
    BY <1>5, <2>1, <2>2, AlikeTo
  <2> QED BY <2>3, <2>4
<1>13. PICK got : got = h[end]
  OBVIOUS
<1>14. PICK over \in BOOLEAN : over = (end = Parts(page))
  OBVIOUS
<1>15. page' = [page EXCEPT !.got = got, !.at = end, !.pages = @ + 1, !.over = over]
  <2> HIDE DEF last, rec
  <2> QED BY <1>3, <1>4, <1>5, <1>11, <1>13, <1>14
<1> HIDE DEF last, rec, Body, g
<1>16. over <=> end = Parts(page)
  BY <1>14
<1>17. Cover(page, end) \in Nat
  BY <1>2, <1>5
<1>18. page.at <= end
  BY <1>5
<1>19. end # Parts(page) => page.at < end
  BY <1>5
<1> QED
  BY <1>1, <1>2, <1>5, <1>12, <1>13, <1>15, <1>16, <1>17, <1>18, <1>19, PageTurned

(* chunk_fact likewise, cutting what overlaps.                              *)
LEMMA ChunkFactKeeps == PageInv /\ ChunkFact => PageInv'
<1> SUFFICES ASSUME PageInv, ChunkFact PROVE PageInv'
  OBVIOUS
<1>1. ReadSoFar(page) /\ page \in PageRecords /\ page.tool = "fact" /\ ~page.over
  BY DEF PageInv, ChunkFact, ReadSoFar
<1>2. /\ Parts(page) \in Nat /\ Parts(page) <= page.length + 1
      /\ \A i \in Nat : Cover(page, i) \in Nat
      /\ Cover(page, Parts(page)) = page.length
      /\ \A i \in Nat : i < Parts(page) =>
           Fits(FactChunk(i), Cover(page, i), Cover(page, i + 1))
  BY <1>1, FactChunks DEF ReadSoFar
<1> DEFINE last == Least(StepFact(page.length, page.size, page.overlap), page.at + page.atOnce)
           Body(f) == [i \in page.at..last |->
                         IF i = page.at THEN page.got ELSE Joined(f[i - 1], FactChunk(i - 1))]
           rec == CHOOSE f : f = Body(f)
<1>3. page' = [page EXCEPT !.got = rec[last], !.at = last, !.pages = @ + 1,
                           !.over = last = StepFact(page.length, page.size, page.overlap)]
  BY DEF ChunkFact, Pages
<1>4. StepFact(page.length, page.size, page.overlap) = Parts(page)
  BY <1>1 DEF Parts
<1>5. PICK at, end \in Nat : /\ at = page.at /\ end = last /\ at <= end /\ end <= Parts(page)
                             /\ (end # Parts(page) => at < end)
  <2>1. page.at \in Nat /\ page.atOnce \in Nat \ {0}
    BY <1>1 DEF PageRecords
  <2>2. page.at = 0 \/ page.at < Parts(page)
    BY <1>1 DEF ReadSoFar
  <2> HIDE DEF last
  <2>3. last = IF Parts(page) < page.at + page.atOnce THEN Parts(page) ELSE page.at + page.atOnce
    BY <1>4 DEF last, Least
  <2> QED BY <1>2, <2>1, <2>2, <2>3
<1>6. \A f : Body(f) = [i \in at..end |->
                         IF i = at THEN page.got ELSE Joined(f[i - 1], FactChunk(i - 1))]
  BY <1>5
<1>7. page.got = Span(0, Cover(page, at))
  BY <1>1, <1>5 DEF ReadSoFar
<1>8. ASSUME NEW i \in at..(end - 1)
      PROVE  Joined(Span(0, Cover(page, i)), FactChunk(i)) = Span(0, Cover(page, i + 1))
  <2>1. i \in Nat /\ i < Parts(page) /\ i + 1 \in Nat
    BY <1>2, <1>5
  <2> QED BY <1>2, <2>1, ChunkJoins
<1> DEFINE g == [i \in at..end |-> Span(0, Cover(page, i))]
<1>9. \E f : f = Body(f)
  <2>1. ASSUME NEW i \in at..end, i # at
        PROVE  g[i] = Joined(g[i - 1], FactChunk(i - 1))
    <3>1. i - 1 \in at..(end - 1) /\ i - 1 \in at..end /\ (i - 1) + 1 = i
      BY <1>5, <2>1
    <3>2. g[i] = Span(0, Cover(page, i)) /\ g[i - 1] = Span(0, Cover(page, i - 1))
      BY <3>1
    <3> QED BY <1>8, <3>1, <3>2
  <2>2. \A i \in at..end : g[i] = IF i = at THEN page.got
                                   ELSE Joined(g[i - 1], FactChunk(i - 1))
    BY <1>5, <1>7, <2>1
  <2>3. g = [i \in at..end |-> IF i = at THEN page.got
                                ELSE Joined(g[i - 1], FactChunk(i - 1))]
    <3>1. g = [i \in at..end |-> g[i]]
      OBVIOUS
    <3> HIDE DEF g
    <3> QED BY <2>2, <3>1
  <2> HIDE DEF g, Body
  <2> QED BY <1>6, <2>3
<1>10. rec = Body(rec)
  <2> HIDE DEF Body
  <2> QED BY <1>9
<1>11. PICK h : h = rec /\ h = [i \in at..end |->
                                  IF i = at THEN page.got ELSE Joined(h[i - 1], FactChunk(i - 1))]
  <2> HIDE DEF Body, rec
  <2> QED BY <1>6, <1>10
<1>12. h[end] = Span(0, Cover(page, end))
  <2>1. h[at] = page.got /\ g[at] = page.got
    <3>1. at \in at..end
      BY <1>5
    <3>2. h[at] = page.got
      <4> HIDE DEF last, rec, Body, g
      <4> QED BY <1>11, <3>1
    <3> QED BY <1>7, <3>1, <3>2
  <2>2. ASSUME NEW i \in at..(end - 1), h[i] = g[i] PROVE h[i + 1] = g[i + 1]
    <3>1. i \in at..end /\ i + 1 \in at..end /\ i + 1 # at /\ (i + 1) - 1 = i
      BY <1>5
    <3>2. h[i + 1] = Joined(h[i], FactChunk(i))
      BY <1>11, <3>1
    <3>3. g[i] = Span(0, Cover(page, i)) /\ g[i + 1] = Span(0, Cover(page, i + 1))
      BY <3>1
    <3> QED BY <1>8, <2>2, <3>2, <3>3
  <2>3. g[end] = Span(0, Cover(page, end))
    BY <1>5
  <2> HIDE DEF g, last, rec, Body
  <2>4. h[end] = g[end]
    BY <1>5, <2>1, <2>2, AlikeTo
  <2> QED BY <2>3, <2>4
<1>13. PICK got : got = h[end]
  OBVIOUS
<1>14. PICK over \in BOOLEAN : over = (end = Parts(page))
  OBVIOUS
<1>15. page' = [page EXCEPT !.got = got, !.at = end, !.pages = @ + 1, !.over = over]
  <2> HIDE DEF last, rec
  <2> QED BY <1>3, <1>4, <1>5, <1>11, <1>13, <1>14
<1> HIDE DEF last, rec, Body, g
<1>16. over <=> end = Parts(page)
  BY <1>14
<1>17. Cover(page, end) \in Nat
  BY <1>2, <1>5
<1>18. page.at <= end
  BY <1>5
<1>19. end # Parts(page) => page.at < end
  BY <1>5
<1> QED
  BY <1>1, <1>2, <1>5, <1>12, <1>13, <1>15, <1>16, <1>17, <1>18, <1>19, PageTurned
(* read_context gives the characters from here to the end or to the limit. *)
LEMMA ReadContextKeeps == PageInv /\ ReadContext => PageInv'
<1> SUFFICES ASSUME PageInv, ReadContext PROVE PageInv'
  OBVIOUS
<1>1. ReadSoFar(page) /\ page \in PageRecords /\ page.tool = "read" /\ ~page.over
  BY DEF PageInv, ReadContext, ReadSoFar
<1>2. /\ Parts(page) = page.length /\ \A i \in Nat : Cover(page, i) = i
      /\ page.length \in Nat /\ page.at \in Nat /\ page.size \in Nat \ {0}
      /\ page.got = Span(0, page.at) /\ page.at <= page.length
  BY <1>1 DEF Parts, Cover, ReadSoFar, PageRecords
<1>3. PICK end \in Nat : /\ end = Least(page.length, page.at + page.size)
                         /\ page.at <= end /\ end <= page.length
                         /\ (end # page.length => page.at < end)
  <2>1. Least(page.length, page.at + page.size) =
          IF page.length < page.at + page.size THEN page.length ELSE page.at + page.size
    BY DEF Least
  <2> QED BY <1>2, <2>1
<1>4. PICK got : got = page.got \o Span(page.at, end)
  OBVIOUS
<1>5. got = Span(0, end)
  BY <1>2, <1>3, <1>4, SpanJoins
<1>6. PICK over \in BOOLEAN : over = (end = page.length)
  OBVIOUS
<1>7. page' = [page EXCEPT !.got = got, !.at = end, !.pages = @ + 1, !.over = over]
  BY <1>3, <1>4, <1>6 DEF ReadContext
<1>8. Cover(page, Parts(page)) = page.length /\ Cover(page, end) = end
  BY <1>2
<1>9. over <=> end = Parts(page)
  BY <1>2, <1>6
<1>10. Parts(page) \in Nat /\ Parts(page) <= page.length + 1
  BY <1>2
<1>11. end <= Parts(page) /\ (end # Parts(page) => page.at < end)
  BY <1>2, <1>3
<1>12. got = Span(0, Cover(page, end)) /\ Cover(page, end) \in Nat
  BY <1>5, <1>8
<1> QED
  BY <1>1, <1>3, <1>7, <1>8, <1>9, <1>10, <1>11, <1>12, PageTurned

(* The split by bytes takes its next character, ends or is refused.        *)
LEMMA SplitChunksKeeps == PageInv /\ SplitChunks => PageInv'
<1> SUFFICES ASSUME PageInv, SplitChunks PROVE PageInv'
  OBVIOUS
<1>1. page.tool = "bytes" /\ ~page.over /\ SplitSoFar(page)
  BY DEF PageInv, SplitChunks
<1>2. PICK n \in Nat : page \in Splits(n) /\ PiecesTrue(page) /\ page.length = n
  BY <1>1 DEF SplitSoFar, Splits
<1>3. PICK q : q = page'
  OBVIOUS
<1>4. SplitSoFar(q)
  <2>1. CASE page.at = n
    <3>1. page.chunk # <<>> \/ page.chunks = <<>>
      BY <1>1, <1>2 DEF PiecesTrue
    <3>2. q = [page EXCEPT !.over = TRUE, !.chunks = Append(page.chunks, page.chunk)]
      BY <1>2, <1>3, <2>1, <3>1 DEF SplitChunks
    <3>3. q = Put(page, page.at, page.chunk, Append(page.chunks, page.chunk), TRUE)
      BY <1>2, <3>2, SplitAsPut
    <3> QED BY <1>1, <1>2, <2>1, <3>3, LastPut
  <2>2. CASE page.at # n /\ page.widths[page.at + 1] > page.size
    <3>1. q = [page EXCEPT !.over = TRUE, !.chunks = <<>>, !.chunk = <<>>]
      BY <1>2, <1>3, <2>2 DEF SplitChunks
    <3>2. q = Put(page, page.at, <<>>, <<>>, TRUE)
      BY <1>2, <3>1, SplitAsPut
    <3> QED BY <1>2, <2>2, <3>2, SplitRefused
  <2>3. CASE page.at # n /\ ~(page.widths[page.at + 1] > page.size)
    <3>1. PICK full \in BOOLEAN : full = Full(page.at + 1)
      BY DEF Full
    <3>2. q = [page EXCEPT !.at = page.at + 1, !.chunks = NextChunks(page, full),
                           !.chunk = NextChunk(page, full)]
      BY <1>2, <1>3, <2>3, <3>1 DEF SplitChunks, NextChunks, NextChunk
    <3>3. q = Advanced(page, full)
      BY <1>2, <3>2, NextAsPut
    <3>4. Room(page, full)
      <4>1. Width(page.widths, page.chunk) = Bytes(page.chunk)
        BY DEF Width, Bytes
      <4>2. page.widths[page.at + 1] \in Nat /\ page.size \in Nat /\ Width(page.widths, page.chunk) \in Nat
        <5>1. /\ page.widths \in [1..n -> 1..4] /\ page.chunk \in Seq(1..n) /\ page.at + 1 \in 1..n
              /\ page.size \in Nat
          BY <1>2, <2>3 DEF Splits
        <5>2. page.widths \in [1..n -> Nat]
          BY <5>1
        <5> QED BY <5>1, <5>2, WidthIsNatural
      <4>3. full <=> page.chunk # <<>> /\ Bytes(page.chunk) + page.widths[page.at + 1] > page.size
        BY <3>1 DEF Full
      <4>4. page.widths[page.at + 1] <= page.size
        BY <2>3, <4>2
      <4>5. ~full /\ page.chunk # <<>> =>
              ~(Width(page.widths, page.chunk) + page.widths[page.at + 1] > page.size)
        BY <4>1, <4>3, Zenon
      <4>6. ~full /\ page.chunk # <<>> =>
              Width(page.widths, page.chunk) + page.widths[page.at + 1] <= page.size
        BY <4>2, <4>5
      <4>7. full => page.chunk # <<>>
        BY <4>3, Zenon
      <4> QED BY <4>4, <4>6, <4>7, Zenon DEF Room
    <3> QED BY <1>1, <1>2, <2>3, <3>3, <3>4, CharacterPut
  <2> QED BY <2>1, <2>2, <2>3
<1>5. q.tool = "bytes"
  BY <1>4 DEF SplitSoFar, Splits
<1> QED
  BY <1>3, <1>4, <1>5 DEF PageInv

(* A text that is gone is read no further.                                 *)
LEMMA TextGoneKeeps == PageInv /\ TextGone => PageInv'
<1> SUFFICES ASSUME PageInv, TextGone PROVE PageInv'
  OBVIOUS
<1>1. "tool" \in DOMAIN page
  BY DEF PageInv, ReadSoFar, PageRecords, TextGone
<1>2. page' = [page EXCEPT !.over = TRUE, !.tool = "gone"]
  BY DEF TextGone
<1>3. page'.tool = "gone" /\ "tool" \in DOMAIN page'
  BY <1>1, <1>2
<1> QED
  BY <1>3 DEF PageInv

(* A reading begins with nothing.                                          *)
LEMMA PageBegins ==
    ASSUME NEW tool \in {"read", "context", "fact"}, NEW n \in 0..MaxLength, NEW size \in Nat \ {0},
           NEW overlap \in 0..(size - 1), NEW atOnce \in Nat \ {0},
           page = [tool |-> tool, length |-> n, size |-> size, overlap |-> overlap,
                   atOnce |-> atOnce, at |-> 0, got |-> <<>>, pages |-> 0, over |-> FALSE]
    PROVE  PageInv
<1>1. n \in Nat /\ overlap \in Nat /\ overlap < size
  BY PagingAssumption
<1>2. <<>> \in Seq(Nat) /\ <<>> = Span(0, 0)
  <2>1. Len(Span(0, 0)) = 0 /\ Span(0, 0) \in Seq(Nat)
    BY SpanFromStart
  <2> QED BY <2>1, EmptySeq
<1>3. /\ page.tool = tool /\ page.length = n /\ page.size = size /\ page.overlap = overlap
      /\ page.at = 0 /\ page.got = <<>> /\ page.pages = 0 /\ page.over = FALSE
  OBVIOUS
<1>4. page \in PageRecords
  BY <1>1, <1>2 DEF PageRecords
<1>5. Cover(page, 0) = 0
  <2>1. 0 * size = 0 /\ Least(n, 0) = 0
    BY <1>1 DEF Least
  <2> QED BY <1>3, <2>1 DEF Cover
<1>6. ReadSoFar(page)
  BY <1>1, <1>2, <1>3, <1>4, <1>5 DEF ReadSoFar
<1> QED
  BY <1>3, <1>6 DEF PageInv

(* Every reading begins with nothing.                                      *)
LEMMA PageStart == Init => PageInv
<1> SUFFICES ASSUME Init PROVE PageInv
  OBVIOUS
<1>1. CASE NoPaging
  BY <1>1 DEF NoPaging, PageInv
<1>2. CASE PagingInit
  <2>1. \A size \in 1..MaxSize : size \in Nat \ {0} /\ 0 \in 0..(size - 1)
    BY PagingAssumption
  <2>2. ASSUME NEW n \in 0..MaxLength, NEW size \in 1..MaxSize,
               page = [tool |-> "read", length |-> n, size |-> size, overlap |-> 0, atOnce |-> 1,
                       at |-> 0, got |-> <<>>, pages |-> 0, over |-> FALSE]
        PROVE  PageInv
    <3>1. "read" \in {"read", "context", "fact"} /\ 1 \in Nat \ {0}
      OBVIOUS
    <3> QED BY <2>1, <2>2, <3>1, PageBegins
  <2>3. ASSUME NEW n \in 0..MaxLength, NEW size \in 1..MaxSize, NEW atOnce \in 1..MaxSize,
               page = [tool |-> "context", length |-> n, size |-> size, overlap |-> 0,
                       atOnce |-> atOnce, at |-> 0, got |-> <<>>, pages |-> 0, over |-> FALSE]
        PROVE  PageInv
    <3>1. "context" \in {"read", "context", "fact"}
      OBVIOUS
    <3> QED BY <2>1, <2>3, <3>1, PageBegins
  <2>4. ASSUME NEW n \in 0..MaxLength, NEW size \in 1..MaxSize, NEW atOnce \in 1..MaxSize,
               NEW overlap \in 0..(size - 1),
               page = [tool |-> "fact", length |-> n, size |-> size, overlap |-> overlap,
                       atOnce |-> atOnce, at |-> 0, got |-> <<>>, pages |-> 0, over |-> FALSE]
        PROVE  PageInv
    <3>1. "fact" \in {"read", "context", "fact"}
      OBVIOUS
    <3> QED BY <2>1, <2>4, <3>1, PageBegins
  <2>5. ASSUME NEW n \in 0..MaxLength, NEW size \in 1..(2 * MaxSize), NEW w \in [1..n -> Widths],
               page = [tool |-> "bytes", length |-> n, size |-> size, widths |-> w,
                       at |-> 0, chunk |-> <<>>, chunks |-> <<>>, over |-> FALSE]
        PROVE  PageInv
    <3>1. n \in Nat /\ size \in Nat \ {0}
      BY PagingAssumption
    <3>2. w \in [1..n -> 1..4]
      BY PagingAssumption
    <3>3. page.tool = "bytes" /\ SplitSoFar(page)
      BY <2>5, <3>1, <3>2, SplitBegins
    <3> QED BY <3>3 DEF PageInv
  <2> QED BY <1>2, <2>2, <2>3, <2>4, <2>5 DEF PagingInit
<1> QED
  BY <1>1, <1>2 DEF Init

(* Each step of the system keeps the state of the reading.                 *)
LEMMA PageStep == PageInv /\ [Next]_vars => PageInv'
<1> SUFFICES ASSUME PageInv, [Next]_vars PROVE PageInv'
  OBVIOUS
<1>1. CASE page' = page
  BY <1>1 DEF PageInv, ReadSoFar, Parts, Cover, Stride
<1>2. CASE PagingNext
  BY <1>2, ReadContextKeeps, ChunkContextKeeps, ChunkFactKeeps, SplitChunksKeeps, TextGoneKeeps
  DEF PagingNext
<1> QED
  BY <1>1, <1>2 DEF Next, vars
-----------------------------------------------------------------------------
(* Of every behaviour, for any facts, requests, texts and changes, the     *)
(* state of the call and that of the reading are as above.                 *)
THEOREM ReadsInductive == Spec => [](QueryInv /\ PageInv)
<1>1. Init => QueryInv /\ PageInv
  BY QueryStart, PageStart
<1>2. QueryInv /\ PageInv /\ [Next]_vars => QueryInv' /\ PageInv'
  BY QueryStep, PageStep
<1> QED
  BY <1>1, <1>2, PTL DEF Spec

(* A client that follows the pages to their end has the text, whole and    *)
(* once, in at most one page more than the text has characters.            *)
LEMMA ReadingJoined == PageInv => ReadingJoins
<1> SUFFICES ASSUME ReadSoFar(page) PROVE ReadingJoins
  BY DEF PageInv, ReadingJoins
<1>1. /\ page \in PageRecords
      /\ page.got = Span(0, Cover(page, page.at)) /\ Cover(page, page.at) \in Nat
  <2>1. page.at \in Nat /\ page \in PageRecords
    BY DEF ReadSoFar, PageRecords
  <2>2. CASE page.tool = "read"
    BY <2>1, <2>2 DEF Cover, ReadSoFar
  <2>3. CASE page.tool = "context"
    BY <2>1, <2>3, ContextChunks DEF ReadSoFar
  <2>4. CASE page.tool = "fact"
    BY <2>1, <2>4, FactChunks DEF ReadSoFar
  <2> QED BY <2>1, <2>2, <2>3, <2>4 DEF PageRecords
<1>2. Len(page.got) = Cover(page, page.at)
  BY <1>1, SpanFromStart
<1>3. Parts(page) \in Nat /\ Parts(page) <= page.length + 1
  <2>1. CASE page.tool = "read"
    BY <1>1, <2>1 DEF Parts, PageRecords
  <2>2. CASE page.tool = "context"
    BY <1>1, <2>2, ContextChunks
  <2>3. CASE page.tool = "fact"
    BY <1>1, <2>3, FactChunks DEF ReadSoFar
  <2> QED BY <1>1, <2>1, <2>2, <2>3 DEF PageRecords
<1>4. page.got = Span(0, Len(page.got))
  BY <1>1, <1>2
<1>5. page.over => Len(page.got) = page.length
  BY <1>2 DEF ReadSoFar
<1>6. page.pages <= page.length + 1
  <2>1. page.pages \in Nat /\ page.at \in Nat /\ page.length \in Nat /\ page.over \in BOOLEAN
    BY <1>1 DEF PageRecords
  <2> QED BY <1>3, <2>1 DEF ReadSoFar
<1> QED BY <1>4, <1>5, <1>6 DEF ReadingJoins

(* A text that is split by bytes is whole in its pieces, none of which is  *)
(* empty, unless the text is, or exceeds the limit.                        *)
LEMMA SplitJoined == PageInv => SplitWhole
<1> SUFFICES ASSUME SplitSoFar(page), page.over, page.at = page.length PROVE SplitWhole
  BY DEF PageInv, SplitWhole
<1>1. \A i \in DOMAIN page.chunks : Width(page.widths, page.chunks[i]) = Bytes(page.chunks[i])
  BY DEF Width, Bytes
<1> QED BY <1>1 DEF SplitSoFar, PiecesTrue, SplitWhole

(* However a text is read or split, its pages or pieces join to the text.  *)
THEOREM PagesJoinCorrect == Spec => []PagesJoin
<1>1. PageInv => PagesJoin
  BY ReadingJoined, SplitJoined DEF PagesJoin
<1> QED
  BY <1>1, ReadsInductive, PTL

(* No fact is answered that was forgotten, archived or invalid (at the     *)
(* valid_at, if one is asked for) all through the call, or under a strict  *)
(* profile has no resolved evidence, from whichever of the text, the       *)
(* vectors, the graph or the session it came.                              *)
THEOREM NothingHiddenServedCorrect == Spec => []NothingHiddenServed
<1>1. QueryInv => NothingHiddenServed
  <2> SUFFICES ASSUME QueryInv, FactsAnswered PROVE NothingHiddenServed
    BY DEF NothingHiddenServed
  <2>1. RecallInv /\ query.args.tool = "facts"
    BY DEF QueryInv, NoRecall, FactsAnswered
  <2>2. \A f \in Elements(query.kept) : May(f, query)
    BY <2>1 DEF RecallInv, Answers
  <2> QED BY <2>2 DEF NothingHiddenServed, May
<1> QED
  BY <1>1, ReadsInductive, PTL

(* An answer that is not full, where the words alone did not find more     *)
(* than the limit, has each fact with the words that could be answered at  *)
(* every moment of the call, or if none of those could be found each that  *)
(* contains them.                                                          *)
THEOREM NothingMissedCorrect == Spec => []NothingMissed
<1>1. QueryInv => NothingMissed
  <2> SUFFICES ASSUME QueryInv, FactsAnswered, Len(query.seeds) < query.args.limit,
                      Len(query.lexical) <= query.args.limit,
                      NEW i \in DOMAIN query.args.terms
               PROVE  LET t == query.args.terms[i]
                      IN /\ Words[t] \cap steady \subseteq Elements(query.kept)
                         /\ Words[t] \cap seen = {} =>
                              Contains[t] \cap steady \subseteq Elements(query.kept)
    BY DEF NothingMissed
  <2>1. RecallInv /\ query.args.tool = "facts" /\ query.at = "done"
    BY DEF QueryInv, NoRecall, FactsAnswered
  <2>2. Complete(query)
    BY <2>1 DEF RecallInv
  <2>3. /\ Elements(query.seeds) \subseteq Elements(query.kept)
        /\ Wanted(query, i) \subseteq Elements(query.seeds)
    BY <2>1, <2>2 DEF Complete
  <2> QED BY <2>3 DEF Wanted
<1> QED
  BY <1>1, ReadsInductive, PTL

(* What search_graph returns is a graph, within the depth asked for, and   *)
(* all of what was there at first unless a limit was met.                  *)
THEOREM GraphWholeCorrect == Spec => []GraphWhole
<1>1. QueryInv => GraphWhole
  <2>1. CASE query.at = "none"
    BY <2>1 DEF GraphWhole
  <2>2. CASE query.at # "none"
    BY <2>2 DEF QueryInv, RecallInv
  <2> QED BY <2>1, <2>2
<1> QED
  BY <1>1, ReadsInductive, PTL

(* A diagnosis that says that nothing matches, or only stale facts or ones *)
(* without evidence, overlooked no fact it looks for that was active all   *)
(* the time, unless there were more than it reads; one that says matched   *)
(* has a fact that could be found.                                         *)
THEOREM DiagnosisTruthfulCorrect == Spec => []DiagnosisTruthful
<1>1. QueryInv => DiagnosisTruthful
  <2>1. CASE query.at = "none"
    BY <2>1 DEF DiagnosisTruthful
  <2>2. CASE query.at # "none"
    BY <2>2 DEF QueryInv, RecallInv
  <2> QED BY <2>1, <2>2
<1> QED
  BY <1>1, ReadsInductive, PTL
=============================================================================
