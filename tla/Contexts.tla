------------------------------ MODULE Contexts ------------------------------
(***************************************************************************)
(* Immutable contexts, their lineage and the lifecycle events over them:   *)
(* put_context, ingest_document, reduce_context, capture_event and what    *)
(* reset_workspace does to them.  A content is a sequence of atoms: a text *)
(* given to put_context is one, a document one per chunk, and a reduction  *)
(* joins the contents of its parents.  A reference is a hash of a few      *)
(* values and is modelled as the tuple of them.  The readback that follows *)
(* a write is taken with it.                                               *)
(***************************************************************************)
EXTENDS RecordCalls, SequencesExt

CONSTANTS Texts,          \* what put_context and capture_event are given
          Sources,        \* sources (or any other metadata) of a context
          Labels,         \* references chosen by the caller
          Docs, Chunks,   \* documents, and by document its number of chunks
          Keys,           \* idempotency keys of events
          Ttls,           \* ttl_seconds; 0 when not given
          MaxNow,         \* bound: the clock
          MaxParents, MaxReduced  \* bounds: contexts a put, a reduction derives from

ASSUME ContextsAssumption ==
  /\ Chunks \in [Docs -> Nat \ {0}]
  /\ Ttls \subseteq Nat
  /\ {MaxNow, MaxParents, MaxReduced} \subseteq Nat

VARIABLES contexts,    \* by reference: content, metadata and expiry
          lineage,     \* <<parent, child, relation>>
          events,      \* by key: its context, and what was captured
          generated,   \* by process: contexts it made a reference for
          now,
          tornByReset  \* the workspace was reset while a call was under way

contextVars == <<contexts, lineage, events, generated, now, tornByReset>>

Never == 0
NoRows == [r \in {} |-> r]
Stored(f, k, v) == [x \in DOMAIN f \cup {k} |-> IF x = k THEN v ELSE f[x]]

ContextsInit ==
  /\ contexts = NoRows /\ lineage = {} /\ events = NoRows
  /\ generated = [p \in Procs |-> 0]
  /\ now = 1 /\ tornByReset = FALSE

Visible(r) ==
  /\ r \in DOMAIN contexts
  /\ contexts[r].expires = Never \/ contexts[r].expires > now

Expiry(ttl) == IF ttl = 0 THEN Never ELSE now + ttl

\* The row a call asks put_context_with_metadata to store.
Row(content, meta, expires) == [content |-> content, meta |-> meta, expires |-> expires]

\* The frame of a call: the row it is to store under ref, and what then.
Frame(args, ref, row, links) ==
  [args |-> args, at |-> "put", ref |-> ref, row |-> row, links |-> links]

Derived(parents, relation) == [i \in DOMAIN parents |-> <<parents[i], relation>>]

(* put_context without a reference: the counter in its reference belongs   *)
(* to the process and starts again with it.                                *)
PutGenerated(p, text, source, ttl, parents) ==
  /\ Start(p, Frame([op |-> "put", key |-> text, source |-> source, ttl |-> ttl,
                     parents |-> parents],
                    <<"ctx", text, generated[p]>>,
                    Row(<<text>>, source, Expiry(ttl)), Derived(parents, "derived")))
  /\ generated' = [generated EXCEPT ![p] = @ + 1]
  /\ UNCHANGED <<contexts, lineage, events, now, tornByReset>>

\* put_context under a reference of the caller's.
PutNamed(p, label, text, parents) ==
  /\ Start(p, Frame([op |-> "named", key |-> label, text |-> text, ttl |-> 0,
                     parents |-> parents],
                    <<"named", label>>,
                    Row(<<text>>, "", Never), Derived(parents, "derived_from")))
  /\ UNCHANGED contextVars

ChunkFrame(args, i, expires) ==
  Frame(args, <<"document", args.key, i>>, Row(<<<<args.key, i>>>>, args.source, expires), <<>>)

\* ingest_document with commit: one expiry for all the chunks.
Ingest(p, doc, source, ttl) ==
  /\ Start(p, ChunkFrame([op |-> "ingest", key |-> doc, source |-> source, ttl |-> ttl],
                         1, Expiry(ttl)))
  /\ UNCHANGED contextVars

\* reduce_context: the parents are read one by one, then joined.
Reduce(p, parents, ttl) ==
  /\ Start(p, [args |-> [op |-> "reduce", key |-> "reduce", ttl |-> ttl, parents |-> parents],
               at |-> "gather", left |-> parents, content |-> <<>>])
  /\ UNCHANGED contextVars

Gather(p) ==
  LET c == call[p]
      content == c.content \o contexts[Head(c.left)].content
  IN /\ At(p, "gather")
     /\ IF ~Visible(Head(c.left)) THEN Fail(p)
        ELSE IF Len(c.left) > 1
        THEN Goes(p, [c EXCEPT !.left = Tail(@), !.content = content])
        ELSE Goes(p, Frame(c.args, <<"reduced", content>>,
                           Row(content, "", Expiry(c.args.ttl)),
                           Derived(c.args.parents, "reduced_from")))
     /\ UNCHANGED contextVars

(* capture_event with an event_kind: the envelope goes into a context of   *)
(* its own first.  When the key has an event that is answered, whatever it *)
(* says.                                                                   *)
Capture(p, key, text) ==
  /\ key \notin DOMAIN events
  /\ Start(p, Frame([op |-> "capture", key |-> key, text |-> text, ttl |-> 0],
                    <<"event", key>>, Row(<<text>>, "event", Never), <<>>))
  /\ UNCHANGED contextVars

(* capture_event without an event_kind: an event over a context of the     *)
(* caller's choice, whatever that context holds.  The text stands for the  *)
(* type, metadata and payload.                                             *)
CaptureLegacy(p, key, text, ref) ==
  /\ Start(p, [args |-> [op |-> "event", key |-> key, text |-> text, ttl |-> 0, ref |-> ref],
               at |-> "event", ref |-> ref])
  /\ UNCHANGED contextVars

\* What the call does once its row is stored, or was already.
AfterPut(p) ==
  LET c == call[p]
      i == c.ref[3]
  IN CASE c.args.op = "ingest" /\ i < Chunks[c.args.key] ->
            Goes(p, ChunkFrame(c.args, i + 1, c.row.expires))
       [] c.args.op = "capture" -> Goto(p, "event")
       [] c.args.op # "ingest" /\ c.links # <<>> -> Goto(p, "link")
       [] OTHER -> Ack(p, c.ref)

\* put_context_with_metadata: the row under the reference must be the same.
PutReadAny(p) ==
  LET c == call[p]
  IN /\ At(p, "put")
     /\ IF c.ref \notin DOMAIN contexts THEN Goto(p, "insert") ELSE AfterPut(p)
     /\ UNCHANGED contextVars
PutReadStrict(p) ==
  LET c == call[p]
  IN /\ At(p, "put")
     /\ IF c.ref \notin DOMAIN contexts THEN Goto(p, "insert") ELSE Refuse(p)
     /\ UNCHANGED contextVars
PutReadReturns(p) ==
  LET c == call[p]
  IN /\ At(p, "put")
     /\ IF c.ref \notin DOMAIN contexts THEN Goto(p, "insert")
        ELSE IF contexts[c.ref] # c.row THEN Refuse(p)
        ELSE IF c.args.op = "ingest" THEN AfterPut(p) ELSE Ack(p, c.ref)
     /\ UNCHANGED contextVars
PutRead(p) ==
  LET c == call[p]
  IN /\ At(p, "put")
     /\ IF c.ref \notin DOMAIN contexts THEN Goto(p, "insert")
        ELSE IF contexts[c.ref] = c.row THEN AfterPut(p)
        ELSE Refuse(p)
     /\ UNCHANGED contextVars

\* The INSERT fails when another call's came first.
PutInsert(p) ==
  LET c == call[p]
  IN /\ At(p, "insert")
     /\ IF c.ref \in DOMAIN contexts
        THEN Fail(p) /\ UNCHANGED contexts
        ELSE AfterPut(p) /\ contexts' = Stored(contexts, c.ref, c.row)
     /\ UNCHANGED <<lineage, events, generated, now, tornByReset>>

(* link_context for the next parent.  Both ends must exist, expired or     *)
(* not; what was stored before an error stays.                             *)
Link(p) ==
  LET c == call[p]
      parent == Head(c.links)[1]
  IN /\ At(p, "link")
     /\ IF {parent, c.ref} \subseteq DOMAIN contexts
        THEN /\ lineage' = lineage \cup {<<parent, c.ref, Head(c.links)[2]>>}
             /\ IF Len(c.links) > 1 THEN Goes(p, [c EXCEPT !.links = Tail(@)])
                ELSE Ack(p, c.ref)
        ELSE Fail(p) /\ UNCHANGED lineage
     /\ UNCHANGED <<contexts, events, generated, now, tornByReset>>

EventRefs == {events[k].ref : k \in DOMAIN events}

\* Store::capture_event.  A key has one event, and so has a context.
EventRead(p) ==
  LET c == call[p]
      event == [ref |-> c.ref, text |-> c.args.text]
      known == c.args.key \in DOMAIN events
  IN /\ At(p, "event")
     /\ IF ~Visible(c.ref) THEN Fail(p)
        ELSE IF known /\ events[c.args.key] = event THEN Ack(p, c.ref)
        ELSE IF known \/ c.ref \in EventRefs THEN Refuse(p)
        ELSE Goto(p, "event insert")
     /\ UNCHANGED contextVars

EventInsert(p) ==
  LET c == call[p]
      event == [ref |-> c.ref, text |-> c.args.text]
  IN /\ At(p, "event insert")
     /\ IF c.args.key \in DOMAIN events \/ c.ref \in EventRefs \/ c.ref \notin DOMAIN contexts
        THEN Fail(p) /\ UNCHANGED events
        ELSE Ack(p, c.ref) /\ events' = Stored(events, c.args.key, event)
     /\ UNCHANGED <<contexts, lineage, generated, now, tornByReset>>

(* The DELETE of reset_workspace on contexts: lineage and events go with   *)
(* them.  The acknowledgements of before are forgotten.                    *)
ResetContexts(p) ==
  /\ call[p] = Idle /\ calls < MaxCalls
  /\ calls' = calls + 1
  /\ contexts' = NoRows /\ lineage' = {} /\ events' = NoRows
  /\ tornByReset' = (tornByReset \/ \E q \in Procs : call[q] # Idle)
  /\ acked' = {a \in acked : a.made = <<>>}
  /\ UNCHANGED <<call, kills, tried, refused, overlapped, generated, now>>

ClockTicks ==
  /\ now < MaxNow
  /\ now' = now + 1
  /\ UNCHANGED <<callVars, contexts, lineage, events, generated, tornByReset>>

\* A killed process starts again with its counter at zero.
Kill(p) ==
  /\ KillCall(p)
  /\ generated' = [generated EXCEPT ![p] = 0]
  /\ UNCHANGED <<contexts, lineage, events, now, tornByReset>>

Lists(lengths) == UNION {[1..n -> DOMAIN contexts] : n \in lengths}

ContextsNext ==
  \/ \E p \in Procs :
       \/ \E t \in Texts, s \in Sources, ttl \in Ttls, ps \in Lists(0..MaxParents) :
            PutGenerated(p, t, s, ttl, ps)
       \/ \E l \in Labels, t \in Texts, ps \in Lists(0..1) : PutNamed(p, l, t, ps)
       \/ \E d \in Docs, s \in Sources, ttl \in Ttls : Ingest(p, d, s, ttl)
       \/ \E ps \in Lists(1..MaxReduced), ttl \in Ttls : Reduce(p, ps, ttl)
       \/ \E k \in Keys, t \in Texts : Capture(p, k, t)
       \/ \E k \in Keys, t \in Texts, r \in DOMAIN contexts : CaptureLegacy(p, k, t, r)
       \/ Gather(p) \/ PutRead(p) \/ PutInsert(p) \/ Link(p)
       \/ EventRead(p) \/ EventInsert(p)
       \/ ResetContexts(p)
       \/ Kill(p)
  \/ ClockTicks

--------------------------------------------------------------------------------
(* An ingest that returned left the whole document: every chunk is there,  *)
(* with its text and source, and they all expire together.                 *)
IngestedWhole ==
  ~tornByReset =>
    \A a \in acked :
      a.args.op = "ingest" =>
        \E expires \in {contexts[r].expires : r \in DOMAIN contexts} :
          \A i \in 1..Chunks[a.args.key] :
            /\ <<"document", a.args.key, i>> \in DOMAIN contexts
            /\ contexts[<<"document", a.args.key, i>>]
                 = Row(<<<<a.args.key, i>>>>, a.args.source, expires)

(* A call that derived a context and returned left its whole lineage, and  *)
(* a reduction holds the contents of its parents in their order.           *)
LineageWhole ==
  ~tornByReset =>
    \A a \in acked :
      a.args.op \in {"put", "named", "reduce"} =>
        /\ \A i \in DOMAIN a.args.parents :
             \E link \in lineage : link[1] = a.args.parents[i] /\ link[2] = a.made
        /\ a.args.op = "reduce" =>
             contexts[a.made].content =
               FlattenSeq([i \in DOMAIN a.args.parents |-> contexts[a.args.parents[i]].content])

(* A capture that stored and returned left one event, under its key and    *)
(* over its context, that says what the call captured.  The context of a   *)
(* capture with an event_kind holds the same, whichever calls put context  *)
(* and event; a context chosen by the caller holds anything.               *)
EventsAsCaptured ==
  ~tornByReset =>
    \A a \in acked :
      a.args.op \in {"capture", "event"} =>
        /\ a.args.key \in DOMAIN events
        /\ events[a.args.key] = [ref |-> a.made, text |-> a.args.text]
        /\ \A k \in DOMAIN events \ {a.args.key} : events[k].ref # a.made
        /\ a.args.op = "capture" =>
             a.made \in DOMAIN contexts /\ contexts[a.made].content = <<a.args.text>>
================================================================================
