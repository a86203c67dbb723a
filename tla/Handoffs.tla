------------------------------ MODULE Handoffs ------------------------------
(***************************************************************************)
(* Contexts and handoffs of one workspace in a SQLite file that several    *)
(* server processes write ("multiple local writers sharing one explicitly  *)
(* configured file").  Each SQL statement commits by itself: a tool call   *)
(* is a sequence of them, and statements of other processes, the clock and *)
(* a kill fall in between.                                                 *)
(***************************************************************************)
EXTENDS Integers, FiniteSetsExt

CONSTANTS
    Servers,  \* processes, each handling one call at a time
    HKeys,    \* idempotency keys of handoffs
    Refs,     \* context references
    RefOf,    \* the reference handoff_begin derives from a key for inline content
    Actors,   \* owners, acceptors, cancellers
    NoActor,  \* NULL in accepted_by and cancelled_by
    Ttls,     \* ttl_seconds of a call; Never for none
    Never,    \* NULL in expires_at
    MaxTime,  \* bound: the clock stops here
    MaxCalls  \* bound: state-changing calls

ASSUME HandoffAssumption ==
    /\ RefOf \in [HKeys -> Refs]
    /\ NoActor \notin Actors
    /\ Ttls \subseteq Nat \cup {Never}
    /\ Never \notin Nat
    /\ MaxTime \in Nat /\ MaxCalls \in Nat

VARIABLES
    contexts, \* each context row: its expires_at, and an actor for the rest of it
    handoffs, \* the handoff rows by id
    now,      \* julianday('now')
    call,     \* the tool call a server is in
    calls,    \* calls made
    resets,   \* history: resets of the workspace
    claims,   \* history: calls told that the handoff is theirs
    begun     \* history: what handoff_begin asked for and answered with

tables == <<contexts, handoffs>>
history == <<resets, claims, begun>>
handoffVars == <<tables, now, call, calls, history>>

NoCall == [tool |-> "none", step |-> "idle"]

Expiry(s) == IF call[s].ttl = Never THEN Never ELSE now + call[s].ttl
Expired(expires) == expires # Never /\ expires <= now

(* The table with one row more.                                            *)
With(table, id, row) == [x \in DOMAIN table \cup {id} |-> IF x = id THEN row ELSE table[x]]

RowsOfKey(k) == {id \in DOMAIN handoffs : handoffs[id].key = k}
RowsOfRef(r) == {id \in DOMAIN handoffs : handoffs[id].ref = r}
NextId == IF DOMAIN handoffs = {} THEN 1 ELSE 1 + Max(DOMAIN handoffs)

HandoffInit ==
    /\ contexts = <<>> /\ handoffs = <<>>
    /\ now = 0
    /\ call = [s \in Servers |-> NoCall]
    /\ calls = 0
    /\ resets = 0 /\ claims = {} /\ begun = {}

-----------------------------------------------------------------------------
Goto(s, step) == call' = [call EXCEPT ![s].step = step]
Answer(s) == call' = [call EXCEPT ![s] = NoCall]
At(s, step) == call[s].step = step /\ UNCHANGED <<now, calls, resets>>

(* Slips: the expired rows are left open, the foreign key is not enforced, *)
(* an existing row is not compared.                                        *)
RefreshNothing(s) ==
    /\ At(s, "refresh")
    /\ Goto(s, "find")
    /\ UNCHANGED <<tables, claims, begun>>
SameKey(row, c) == row.key = c.key

(* A call arrives with its arguments.                                      *)
Begins(s, tool, step, k, r, a, ttl) ==
    /\ call[s].step = "idle"
    /\ calls < MaxCalls
    /\ calls' = calls + 1
    /\ call' = [call EXCEPT ![s] =
         [tool |-> tool, step |-> step, key |-> k, ref |-> r, actor |-> a, ttl |-> ttl,
          row |-> 0, expires |-> Never, resets |-> resets,
          late |-> {id \in DOMAIN handoffs : Expired(handoffs[id].expires)}]]
    /\ UNCHANGED <<tables, now, history>>

PutContextCall(s) == \E k \in HKeys, r \in Refs, a \in Actors, ttl \in Ttls :
    Begins(s, "put", "context", k, r, a, ttl)
BeginCall(s) == \E k \in HKeys, r \in Refs, a \in Actors, ttl \in Ttls :
    Begins(s, "begin", "begin", k, r, a, ttl)
BeginContentCall(s) == \E k \in HKeys, a \in Actors, ttl \in Ttls :
    Begins(s, "begin_content", "refresh", k, RefOf[k], a, ttl)
AcceptCall(s) == \E k \in HKeys, a \in Actors :
    Begins(s, "accept", "refresh", k, RefOf[k], a, Never)
CancelCall(s) == \E k \in HKeys, a \in Actors :
    Begins(s, "cancel", "refresh", k, RefOf[k], a, Never)

(* list_handoffs writes, although it is a read.                            *)
ExpireRows ==
    [id \in DOMAIN handoffs |->
        IF handoffs[id].state = "open" /\ Expired(handoffs[id].expires)
        THEN [handoffs[id] EXCEPT !.state = "expired"] ELSE handoffs[id]]

ListCall(s) ==
    /\ At(s, "idle")
    /\ handoffs' = ExpireRows
    /\ UNCHANGED <<contexts, call, claims, begun>>

(* refresh_expired_handoffs.                                               *)
Refresh(s) ==
    /\ At(s, "refresh")
    /\ handoffs' = ExpireRows
    /\ Goto(s, "find")
    /\ UNCHANGED <<contexts, claims, begun>>

(* SELECT by key: accept and cancel go on with an open row only, a begin   *)
(* with inline content only without a row.                                 *)
Find(s) ==
    /\ At(s, "find")
    /\ \/ /\ RowsOfKey(call[s].key) = {}
          /\ IF call[s].tool = "begin_content" THEN Goto(s, "context") ELSE Answer(s)
       \/ \E id \in RowsOfKey(call[s].key) :
            IF handoffs[id].state = "open" /\ call[s].tool # "begin_content"
            THEN call' = [call EXCEPT ![s].step = "update", ![s].row = id]
            ELSE Answer(s)
    /\ UNCHANGED <<tables, claims, begun>>

(* UPDATE ... WHERE id: the state is not looked at again.                  *)
Decide(s, id) ==
    handoffs' = [handoffs EXCEPT ![id] =
        IF call[s].tool = "accept"
        THEN [@ EXCEPT !.state = "accepted", !.acceptedBy = call[s].actor]
        ELSE [@ EXCEPT !.state = "cancelled", !.cancelledBy = call[s].actor]]

Update(s) ==
    /\ At(s, "update")
    /\ IF call[s].row \in DOMAIN handoffs THEN Decide(s, call[s].row) ELSE UNCHANGED handoffs
    /\ Goto(s, "readback")
    /\ UNCHANGED <<contexts, claims, begun>>

(* put_context_with_metadata: an existing row must be the same.  The       *)
(* expiry is computed before the SELECT and inserted as it was.            *)
ContextRow(s, expires) == [expires |-> expires, by |-> call[s].actor]
Reckon(s, step) == call' = [call EXCEPT ![s].step = step, ![s].expires = Expiry(s)]

FindContext(s) ==
    LET r == call[s].ref IN
    /\ At(s, "context")
    /\ IF r \notin DOMAIN contexts THEN Reckon(s, "insert_context")
       ELSE IF contexts[r] = ContextRow(s, Expiry(s)) /\ call[s].tool = "begin_content"
       THEN Goto(s, "begin")
       ELSE Answer(s)
    /\ UNCHANGED <<tables, claims, begun>>

(* Its read-back looks for the row CheckContext looks for next.            *)
InsertContext(s) ==
    LET r == call[s].ref IN
    /\ At(s, "insert_context")
    /\ IF r \in DOMAIN contexts THEN Answer(s) /\ UNCHANGED contexts
       ELSE /\ contexts' = With(contexts, r, ContextRow(s, call[s].expires))
            /\ IF call[s].tool = "begin_content" THEN Goto(s, "begin") ELSE Answer(s)
    /\ UNCHANGED <<handoffs, claims, begun>>

(* begin_handoff.                                                          *)
CheckContext(s) ==
    LET r == call[s].ref IN
    /\ At(s, "begin")
    /\ IF r \in DOMAIN contexts /\ ~Expired(contexts[r].expires) THEN Goto(s, "key") ELSE Answer(s)
    /\ UNCHANGED <<tables, claims, begun>>

Same(row, c) == row.key = c.key /\ row.ref = c.ref /\ row.owner = c.actor

Begun(s, id) ==
    begun' = begun \cup {[asked |-> <<call[s].ref, call[s].actor>>,
                          got |-> <<handoffs[id].ref, handoffs[id].owner>>,
                          undisturbed |-> resets = call[s].resets]}

CheckKey(s) ==
    /\ At(s, "key")
    /\ \/ RowsOfKey(call[s].key) = {} /\ Reckon(s, "ref") /\ UNCHANGED begun
       \/ \E id \in RowsOfKey(call[s].key) :
            /\ Answer(s)
            /\ IF Same(handoffs[id], call[s]) THEN Begun(s, id) ELSE UNCHANGED begun
    /\ UNCHANGED <<tables, claims>>

CheckRef(s) ==
    /\ At(s, "ref")
    /\ IF RowsOfRef(call[s].ref) = {} THEN Goto(s, "insert") ELSE Answer(s)
    /\ UNCHANGED <<tables, claims, begun>>

(* The unique indexes and the foreign key of the handoffs table.           *)
Insertable(k, r) == RowsOfKey(k) = {} /\ RowsOfRef(r) = {} /\ r \in DOMAIN contexts

Insert(s) ==
    LET c == call[s] IN
    /\ At(s, "insert")
    /\ IF Insertable(c.key, c.ref)
       THEN /\ handoffs' = With(handoffs, NextId,
                 [key |-> c.key, ref |-> c.ref, owner |-> c.actor, expires |-> c.expires,
                  state |-> "open", acceptedBy |-> NoActor, cancelledBy |-> NoActor])
            /\ Goto(s, "readback")
       ELSE Answer(s) /\ UNCHANGED handoffs
    /\ UNCHANGED <<contexts, claims, begun>>

(* The final SELECT by key is what the caller is told.                     *)
ReadBack(s) ==
    /\ At(s, "readback")
    /\ Answer(s)
    /\ \/ RowsOfKey(call[s].key) = {} /\ UNCHANGED <<claims, begun>>
       \/ \E id \in RowsOfKey(call[s].key) :
            LET row == handoffs[id] IN
            IF call[s].tool \in {"begin", "begin_content"}
            THEN Begun(s, id) /\ UNCHANGED claims
            ELSE /\ claims' = IF row.acceptedBy = call[s].actor /\ call[s].tool = "accept"
                              THEN claims \cup {[key |-> row.key, resets |-> resets,
                                                 actor |-> call[s].actor,
                                                 late |-> /\ id \in call[s].late
                                                          /\ resets = call[s].resets]}
                              ELSE claims
                 /\ UNCHANGED begun
    /\ UNCHANGED tables

(* reset_workspace: deleting the contexts deletes their handoffs.          *)
ResetWorkspace(s) ==
    /\ call[s].step = "idle"
    /\ calls < MaxCalls
    /\ calls' = calls + 1
    /\ resets' = resets + 1
    /\ contexts' = <<>> /\ handoffs' = <<>>
    /\ UNCHANGED <<now, call, claims, begun>>

Kill(s) ==
    /\ call[s].step # "idle"
    /\ Answer(s)
    /\ UNCHANGED <<tables, now, calls, history>>

Tick ==
    /\ now < MaxTime
    /\ now' = now + 1
    /\ UNCHANGED <<tables, call, calls, history>>

HandoffNext ==
    \/ Tick
    \/ \E s \in Servers :
         \/ PutContextCall(s) \/ BeginCall(s) \/ BeginContentCall(s)
         \/ AcceptCall(s) \/ CancelCall(s) \/ ListCall(s)
         \/ Refresh(s) \/ Find(s) \/ Update(s)
         \/ FindContext(s) \/ InsertContext(s)
         \/ CheckContext(s) \/ CheckKey(s) \/ CheckRef(s) \/ Insert(s) \/ ReadBack(s)
         \/ ResetWorkspace(s) \/ Kill(s)

HandoffSpec == HandoffInit /\ [][HandoffNext]_handoffVars

-----------------------------------------------------------------------------
Row == [key : HKeys, ref : Refs, owner : Actors, expires : Nat \cup {Never},
        state : {"open", "accepted", "cancelled", "expired"},
        acceptedBy : Actors \cup {NoActor}, cancelledBy : Actors \cup {NoActor}]
Call == [tool : {"put", "begin", "begin_content", "accept", "cancel"},
         step : {"refresh", "find", "update", "context", "insert_context",
                 "begin", "key", "ref", "insert", "readback"},
         key : HKeys, ref : Refs, actor : Actors, ttl : Ttls \cup {Never},
         row : Nat, expires : Nat \cup {Never}, resets : Nat, late : SUBSET Nat]

TablesTypeOK ==
    /\ DOMAIN contexts \subseteq Refs
    /\ \A r \in DOMAIN contexts : contexts[r] \in [expires : Nat \cup {Never}, by : Actors]
    /\ \A id \in DOMAIN handoffs :
         /\ id \in Nat /\ handoffs[id] \in Row
         /\ handoffs[id].state = "accepted" => handoffs[id].acceptedBy \in Actors
         /\ handoffs[id].state = "cancelled" => handoffs[id].cancelledBy \in Actors

CallsTypeOK ==
    /\ now \in Nat /\ calls \in Nat /\ resets \in Nat
    /\ call \in [Servers -> Call \cup {NoCall}]

(* Types of the tables and of the calls under way; a terminal state names  *)
(* the actor who brought it about.                                         *)
HandoffTypeOK == TablesTypeOK /\ CallsTypeOK

(* handoff_accept hands out no row that lay there expired when it was      *)
(* called, though no statement of it compares the time of the row it takes.*)
ClaimsAreTimely == \A c \in claims : ~c.late

(* handoff_begin answers with the handoff that was asked for, flags it as  *)
(* a duplicate, or fails, unless the workspace was reset under it.         *)
BeginHonoured == \A b \in begun : b.undisturbed => b.asked = b.got

(* README.md:274, "Atomically accept one open handoff once": no two actors *)
(* are told that the same handoff is theirs.  Fails for two Servers; a     *)
(* known limit, see the README.                                            *)
ClaimedOnce ==
    \A c, d \in claims : (c.key = d.key /\ c.resets = d.resets) => c.actor = d.actor
=============================================================================
