---------------------------- MODULE RecordsProofs ----------------------------
(***************************************************************************)
(* Contexts, events and runs of a workspace, for any number of processes,  *)
(* calls and kills: what a call that returned has left, and which calls    *)
(* may be refused.                                                         *)
(***************************************************************************)
EXTENDS Records, PrefixRecursion, SequenceTheorems

-----------------------------------------------------------------------------
(* flat[n] joins the first n sequences.                                    *)
Flattens(flat, ss, S) ==
    /\ flat \in [0 .. Len(ss) -> Seq(S)]
    /\ flat[0] = <<>>
    /\ \A n \in 1 .. Len(ss) : flat[n] = flat[n - 1] \o ss[n]

LEMMA FlattenSteps ==
    ASSUME NEW S, NEW ss \in Seq(Seq(S))
    PROVE  \E flat : Flattens(flat, ss, S) /\ FlattenSeq(ss) = flat[Len(ss)]
<1> DEFINE N == Len(ss)
<1> DEFINE V == Seq(S)
<1> DEFINE step == [n \in 1 .. N |-> [v \in V |-> v \o ss[n]]]
<1> DEFINE Body(f) == [n \in 1 .. N |-> IF n = 1 THEN ss[n] ELSE f[n - 1] \o ss[n]]
<1> DEFINE flatten == CHOOSE f : f = Body(f)
<1>1. N \in Nat /\ \A n \in 1 .. N : ss[n] \in V
  BY LenProperties, ElementOfSeq
<1>2. \A n \in 1 .. N : \A v \in V : v \o ss[n] \in V
  BY <1>1, ConcatProperties
<1>3. <<>> \in V
  BY EmptySeq
<1>4. FlattenSeq(ss) = IF N = 0 THEN ss ELSE flatten[N]
  BY DEF FlattenSeq
<1>5. N = 0 => ss = <<>>
  BY EmptySeq
<1> HIDE DEF N
<1>6. PICK f : Follows(f, N, V, <<>>, step)
  <2>1. IsStep(step, N, V)
    BY <1>2 DEF IsStep
  <2> HIDE DEF step, V
  <2> QED BY <1>1, <1>3, <2>1, PrefixRecursionExists, Zenon
<1>7. /\ f \in [0 .. N -> V] /\ f[0] = <<>>
      /\ \A n \in 1 .. N : f[n] = f[n - 1] \o ss[n]
  <2>1. \A n \in 1 .. N : \A v \in V : step[n][v] = v \o ss[n]
    OBVIOUS
  <2> HIDE DEF step, V
  <2>2. \A n \in 1 .. N : f[n - 1] \in V
    BY <1>1, <1>6 DEF Follows
  <2> QED BY <1>6, <2>1, <2>2 DEF Follows
<1>8. 1 \in 1 .. N => f[1] = ss[1]
  <2>1. SUFFICES ASSUME 1 \in 1 .. N PROVE f[1] = ss[1]
    OBVIOUS
  <2>2. f[1] = f[1 - 1] \o ss[1]
    BY <2>1, <1>7
  <2>3. 1 - 1 = 0
    OBVIOUS
  <2>4. f[1] = <<>> \o ss[1]
    BY <2>2, <2>3, <1>7
  <2>5. <<>> \o ss[1] = ss[1]
    BY <2>1, <1>1, ConcatEmptySeq
  <2> QED BY <2>4, <2>5
<1>9. \E g : g = Body(g)
  <2> DEFINE g == [n \in 1 .. N |-> f[n]]
  <2>1. ASSUME NEW n \in 1 .. N
        PROVE  g[n] = IF n = 1 THEN ss[n] ELSE g[n - 1] \o ss[n]
    <3>1. CASE n = 1
      <4>1. 1 \in 1 .. N
        BY <3>1
      <4>2. f[1] = ss[1]
        BY <4>1, <1>8
      <4> QED BY <3>1, <4>2
    <3>2. CASE n # 1
      <4>1. n - 1 \in 1 .. N
        BY <3>2, <1>1
      <4> QED BY <3>2, <4>1, <1>7
    <3> QED BY <3>1, <3>2
  <2>2. g = Body(g)
    BY <2>1
  <2> QED BY <2>2
<1>10. flatten = Body(flatten)
  <2> HIDE DEF Body
  <2> QED BY <1>9
<1> HIDE DEF flatten
<1>11. \A n \in 1 .. N : flatten[n] = IF n = 1 THEN ss[n] ELSE flatten[n - 1] \o ss[n]
  BY <1>10
<1>12. \A n \in 1 .. N : flatten[n] = f[n]
  <2> DEFINE T == {n \in 0 .. N : n = 0 \/ flatten[n] = f[n]}
  <2>1. 0 \in T
    BY <1>1
  <2>2. ASSUME NEW n \in 0 .. N - 1, n \in T
        PROVE  n + 1 \in T
    <3>1. n + 1 \in 1 .. N /\ n + 1 \in 0 .. N /\ (n + 1) - 1 = n
      BY <1>1
    <3>2. CASE n = 0
      <4>1. 1 \in 1 .. N /\ n + 1 = 1
        BY <3>1, <3>2
      <4>2. flatten[1] = ss[1] /\ f[1] = ss[1]
        BY <4>1, <1>8, <1>11
      <4> QED BY <3>1, <4>1, <4>2
    <3>3. CASE n # 0
      <4>1. flatten[n] = f[n] /\ n + 1 # 1
        BY <3>1, <3>3, <2>2
      <4>2. flatten[n + 1] = flatten[n] \o ss[n + 1] /\ f[n + 1] = f[n] \o ss[n + 1]
        BY <3>1, <4>1, <1>7, <1>11
      <4> QED BY <3>1, <4>1, <4>2
    <3> QED BY <3>2, <3>3
  <2>3. \A n \in 0 .. N : n \in T
    <3> HIDE DEF T
    <3> QED BY <1>1, <2>1, <2>2, InductionUpTo
  <2> QED BY <2>3, <1>1
<1>13. FlattenSeq(ss) = f[N]
  BY <1>1, <1>4, <1>5, <1>7, <1>12
<1> QED
  BY <1>7, <1>13 DEF N, V, Flattens

LEMMA FlattenEmpty == FlattenSeq(<<>>) = <<>>
<1>1. <<>> \in Seq(Seq({})) /\ Len(<<>>) = 0
  BY EmptySeq
<1> QED
  BY <1>1, FlattenSteps DEF Flattens

LEMMA FlattenAppend ==
    ASSUME NEW S, NEW ss \in Seq(Seq(S)), NEW s \in Seq(S)
    PROVE  FlattenSeq(Append(ss, s)) = FlattenSeq(ss) \o s
<1> DEFINE longer == Append(ss, s)
<1> DEFINE N == Len(ss)
<1>1. /\ longer \in Seq(Seq(S)) /\ Len(longer) = N + 1 /\ longer[N + 1] = s
      /\ \A n \in 1 .. N : longer[n] = ss[n]
      /\ N \in Nat
  BY AppendProperties, LenProperties
<1> HIDE DEF longer
<1>2. PICK f : Flattens(f, ss, S) /\ FlattenSeq(ss) = f[N]
  BY FlattenSteps
<1>3. PICK g : Flattens(g, longer, S) /\ FlattenSeq(longer) = g[N + 1]
  BY <1>1, FlattenSteps
<1>4. /\ f[0] = <<>> /\ g[0] = <<>>
      /\ \A n \in 1 .. N : f[n] = f[n - 1] \o ss[n]
      /\ \A n \in 1 .. N + 1 : g[n] = g[n - 1] \o longer[n]
  BY <1>1, <1>2, <1>3 DEF Flattens
<1> HIDE DEF N
<1> DEFINE T == {n \in 0 .. N : f[n] = g[n]}
<1>5. 0 \in T
  BY <1>1, <1>4
<1>6. ASSUME NEW n \in 0 .. N - 1, n \in T
      PROVE  n + 1 \in T
  <2>1. n + 1 \in 1 .. N /\ n + 1 \in 1 .. N + 1 /\ n + 1 \in 0 .. N /\ (n + 1) - 1 = n
    BY <1>1
  <2>2. longer[n + 1] = ss[n + 1] /\ f[n] = g[n]
    BY <2>1, <1>1, <1>6
  <2>3. f[n + 1] = f[n] \o ss[n + 1] /\ g[n + 1] = g[n] \o longer[n + 1]
    BY <2>1, <1>4
  <2> QED BY <2>1, <2>2, <2>3
<1>7. N \in T
  <2> HIDE DEF T
  <2>1. \A n \in 0 .. N : n \in T
    BY <1>1, <1>5, <1>6, InductionUpTo
  <2> QED BY <2>1, <1>1
<1>8. g[N + 1] = g[N] \o longer[N + 1]
  <2>1. N + 1 \in 1 .. N + 1 /\ (N + 1) - 1 = N
    BY <1>1
  <2> QED BY <2>1, <1>4
<1> QED
  BY <1>1, <1>2, <1>3, <1>7, <1>8 DEF longer

-----------------------------------------------------------------------------
(* What contexts are made of, and the frames of the calls.                 *)
Atoms == Texts \cup (Docs \X Nat)

AllRefs ==
    ({"ctx"} \X Texts \X Nat) \cup ({"named"} \X Labels) \cup ({"document"} \X Docs \X Nat)
      \cup ({"reduced"} \X Seq(Atoms)) \cup ({"event"} \X Keys)

Rows == [content : Seq(Atoms), meta : Sources \cup {"", "event"}, expires : Nat]

PutArgs == [op : {"put"}, key : Texts, source : Sources, ttl : Ttls, parents : Seq(AllRefs)]
NamedArgs == [op : {"named"}, key : Labels, text : Texts, ttl : {0}, parents : Seq(AllRefs)]
IngestArgs == [op : {"ingest"}, key : Docs, source : Sources, ttl : Ttls]
ReduceArgs == [op : {"reduce"}, key : {"reduce"}, ttl : Ttls, parents : Seq(AllRefs)]
CaptureArgs == [op : {"capture"}, key : Keys, text : Texts, ttl : {0}]
EventArgs == [op : {"event"}, key : Keys, text : Texts, ttl : {0}, ref : AllRefs]
DerivingArgs == PutArgs \cup NamedArgs \cup ReduceArgs

BeginArgs == [op : {"begin"}, key : RunIds, issue : Refs]
BindArgs == [op : {"bind"}, key : RunIds, issue : Refs]
EndArgs == [op : {"end"}, key : RunIds, summary : Summaries]
MeasureArgs == [op : {"measure"}, key : Metrics, id : Refs, value : Values]
FeedbackArgs == [op : {"feedback"}, key : FeedbackIds, signal : Signals]

Links == Seq(AllRefs \X {"derived", "derived_from", "reduced_from"})

StoreFrames(args, ats) == [args : args, at : ats, ref : AllRefs, row : Rows, links : Links]
DerivingFrames == StoreFrames(DerivingArgs, {"put", "insert", "link"})
IngestFrames == StoreFrames(IngestArgs, {"put", "insert"})
CaptureFrames == StoreFrames(CaptureArgs, {"put", "insert", "event", "event insert"})
EventFrames == [args : EventArgs, at : {"event", "event insert"}, ref : AllRefs]
GatherFrames ==
    [args : ReduceArgs, at : {"gather"}, left : Seq(AllRefs) \ {<<>>}, content : Seq(Atoms)]

ContextFrames == DerivingFrames \cup IngestFrames \cup CaptureFrames \cup EventFrames \cup GatherFrames

BeginFrames == [args : BeginArgs, at : {"begin", "begin insert"}]
EndFrames == [args : EndArgs, at : {"end", "end update"}]
BindFrames == [args : BindArgs, at : {"bind"}]
MeasureFrames == [args : MeasureArgs, at : {"measure", "measure insert"}]
FeedbackFrames == [args : FeedbackArgs, at : {"feedback", "feedback insert"}]

RunFrames == BeginFrames \cup EndFrames \cup BindFrames \cup MeasureFrames \cup FeedbackFrames

-----------------------------------------------------------------------------
(* The call b stores the row under r.                                      *)
Puts(b, r, row) ==
    /\ \/ /\ b.op = "put" /\ r[1] = "ctx" /\ r[2] = b.key
          /\ row.content = <<b.key>> /\ row.meta = b.source
       \/ /\ b.op = "named" /\ r[1] = "named" /\ r[2] = b.key
          /\ row.content = <<b.text>> /\ row.meta = ""
       \/ /\ b.op = "ingest" /\ r[1] = "document" /\ r[2] = b.key
          /\ row.content = <<<<b.key, r[3]>>>> /\ row.meta = b.source
       \/ /\ b.op = "reduce" /\ r[1] = "reduced" /\ b.key = "reduce"
          /\ r[2] = row.content /\ row.meta = ""
       \/ /\ b.op = "capture" /\ r[1] = "event" /\ r[2] = b.key
          /\ row.content = <<b.text>> /\ row.meta = "event"
    /\ b.ttl = 0 => row.expires = Never

Contents(refs) == [i \in DOMAIN refs |-> contexts[refs[i]].content]

(* Each of the refs is a parent of ref, or a link to it is still to come.  *)
Linked(refs, ref, links) ==
    \A i \in DOMAIN refs :
       \/ \E j \in DOMAIN links : links[j][1] = refs[i]
       \/ \E link \in lineage : link[1] = refs[i] /\ link[2] = ref

Joined(refs, content) ==
    /\ \A i \in DOMAIN refs : refs[i] \in DOMAIN contexts
    /\ content = FlattenSeq(Contents(refs))

(* The chunks of a document up to the n-th.                                *)
Ingested(args, n, expires) ==
    \A i \in 1..n :
       /\ <<"document", args.key, i>> \in DOMAIN contexts
       /\ contexts[<<"document", args.key, i>>] = Row(<<<<args.key, i>>>>, args.source, expires)

(* What a call under way knows of the tables, unless they were reset.      *)
DerivingKnows(c) ==
    /\ Linked(c.args.parents, c.ref, c.links)
    /\ c.args.op = "reduce" => Joined(c.args.parents, c.row.content)
    /\ c.at = "link" => c.ref \in DOMAIN contexts /\ contexts[c.ref] = c.row
IngestKnows(c) ==
    Ingested(c.args, c.ref[3] - 1, c.row.expires)
CaptureKnows(c) ==
    c.at \in {"event", "event insert"} => c.ref \in DOMAIN contexts /\ contexts[c.ref] = c.row
GatherKnows(c) ==
    \E n \in 0..Len(c.args.parents) :
       /\ c.left = SubSeq(c.args.parents, n + 1, Len(c.args.parents))
       /\ Joined(SubSeq(c.args.parents, 1, n), c.content)

(* A row to be stored, and the links of a call.                            *)
Stores(c) ==
    /\ c.args \in tried
    /\ Puts(c.args, c.ref, c.row)
    /\ c.at = "link" => c.links # <<>>
    /\ c.args.op \in {"ingest", "capture"} => c.links = <<>>
    /\ c.args.op = "ingest" => c.ref[3] \in 1..Chunks[c.args.key]

FrameOK(c) ==
    /\ c \in DerivingFrames => Stores(c) /\ (~tornByReset => DerivingKnows(c))
    /\ c \in IngestFrames => Stores(c) /\ (~tornByReset => IngestKnows(c))
    /\ c \in CaptureFrames => Stores(c) /\ (~tornByReset => CaptureKnows(c))
    /\ c \in EventFrames => c.args \in tried /\ c.ref = c.args.ref
    /\ c \in GatherFrames => c.args \in tried /\ (~tornByReset => GatherKnows(c))
    /\ c \in RunFrames => c.args \in tried

(* The event of a call, which is over a context of the caller's choice or  *)
(* over one that holds the same.                                           *)
EventStored(a) ==
    /\ a.args.key \in DOMAIN events
    /\ events[a.args.key] = [ref |-> a.made, text |-> a.args.text]
    /\ a.args.op = "capture" =>
         a.made \in DOMAIN contexts /\ contexts[a.made].content = <<a.args.text>>

AckedOK(a) ==
    /\ a.args.op \in {"put", "named", "ingest", "reduce", "capture", "event"} => a.made # <<>>
    /\ ~tornByReset =>
         /\ a.args.op = "ingest" =>
              \E expires \in {contexts[r].expires : r \in DOMAIN contexts} :
                 Ingested(a.args, Chunks[a.args.key], expires)
         /\ a.args.op \in {"put", "named", "reduce"} => Linked(a.args.parents, a.made, <<>>)
         /\ a.args.op = "reduce" =>
              a.made \in DOMAIN contexts /\ Joined(a.args.parents, contexts[a.made].content)
         /\ a.args.op \in {"capture", "event"} => EventStored(a)

RefusedOK(a) ==
    \/ \E b \in tried \ {a} : Clash(a, b)
    \/ a.op \in {"put", "ingest", "reduce"} /\ a.ttl # 0
    \/ a.op = "end" /\ a.summary \in LongSummaries

(* The call b stores the event e under the key k.                          *)
Captures(b, k, e) ==
    /\ b.op \in {"capture", "event"} /\ b.key = k
    /\ e = [ref |-> EventRef(b), text |-> b.text]

(* Every row was stored by some call, and every event by a capture; two    *)
(* events are over two contexts.                                           *)
TablesOK ==
    /\ DOMAIN contexts \subseteq AllRefs
    /\ \A r \in DOMAIN contexts :
         contexts[r] \in Rows /\ \E b \in tried : Puts(b, r, contexts[r])
    /\ \A k \in DOMAIN events : \E b \in tried : Captures(b, k, events[k])
    /\ \A k, j \in DOMAIN events : events[k].ref = events[j].ref => k = j

ContextsTyped ==
    /\ call \in [Procs -> {Idle} \cup ContextFrames \cup RunFrames]
    /\ now \in Nat \ {0} /\ generated \in [Procs -> Nat]

ContextsInv ==
    /\ ContextsTyped
    /\ TablesOK
    /\ \A p \in Procs : FrameOK(call[p])
    /\ \A a \in acked : AckedOK(a)
    /\ \A a \in refused : RefusedOK(a)

-----------------------------------------------------------------------------
(* The rows of the other tables come from calls that were made, too.       *)
RunRows ==
    [issue : Refs, state : {"open", "closed"},
     summary : Summaries \cup {""} \cup {<<"cut", s>> : s \in LongSummaries}]

RunTablesOK ==
    /\ \A k \in DOMAIN runs :
         /\ runs[k] \in RunRows
         /\ \E b \in tried : b.op \in {"begin", "bind"} /\ b.key = k /\ b.issue = runs[k].issue
         /\ runs[k].state = "closed" =>
              \E b \in tried : b.op = "end" /\ b.key = k /\ runs[k].summary = Truncated(b.summary)
    /\ \A k \in DOMAIN measurements :
         \E b \in tried : b.op = "measure" /\ b.key = k /\ b.value = measurements[k]
    /\ \A k \in DOMAIN feedback :
         \E b \in tried : b.op = "feedback" /\ b.key = k /\ b.signal = feedback[k]

RunKnows(c) ==
    /\ c.at \in {"bind", "end update"} => c.args.key \in DOMAIN runs
    /\ c.at = "end update" /\ ~overlapped => runs[c.args.key].state = "open"

Alone ==
    ~overlapped => \A p, q \in Procs : call[p] # Idle /\ call[q] # Idle => p = q

EndedOK(a) ==
    a.args.op = "end" =>
      /\ a.args.key \in DOMAIN runs
      /\ ~overlapped =>
           /\ runs[a.args.key].state = "closed"
           /\ runs[a.args.key].summary = Truncated(a.args.summary) \/ a.args.summary = ""

RunsInv ==
    /\ RunTablesOK
    /\ Alone
    /\ \A p \in Procs : RunKnows(call[p])
    /\ \A a \in acked : EndedOK(a)

RecordsInv == ContextsInv /\ RunsInv

-----------------------------------------------------------------------------
(* Where a call is tells its frame.                                        *)
AllFrames == {Idle} \cup ContextFrames \cup RunFrames

LEMMA FrameAt ==
    ASSUME NEW c \in AllFrames
    PROVE  /\ c.at \in {"put", "insert"} => c \in DerivingFrames \cup IngestFrames \cup CaptureFrames
           /\ c.at = "link" => c \in DerivingFrames
           /\ c.at \in {"event", "event insert"} => c \in CaptureFrames \cup EventFrames
           /\ c.at = "gather" => c \in GatherFrames
           /\ c.at \in {"begin", "begin insert"} => c \in BeginFrames
           /\ c.at \in {"end", "end update"} => c \in EndFrames
           /\ c.at = "bind" => c \in BindFrames
           /\ c.at \in {"measure", "measure insert"} => c \in MeasureFrames
           /\ c.at \in {"feedback", "feedback insert"} => c \in FeedbackFrames
           /\ c \in ContextFrames => c # Idle /\ c \notin RunFrames
           /\ c \in RunFrames => c # Idle /\ c \notin ContextFrames
<1>1. Idle.at = "idle"
  BY DEF Idle
<1>2. c \in DerivingFrames => c.at \in {"put", "insert", "link"}
  BY DEF DerivingFrames, StoreFrames
<1>3. c \in IngestFrames => c.at \in {"put", "insert"}
  BY DEF IngestFrames, StoreFrames
<1>4. c \in CaptureFrames => c.at \in {"put", "insert", "event", "event insert"}
  BY DEF CaptureFrames, StoreFrames
<1>5. /\ c \in GatherFrames => c.at = "gather"
      /\ c \in EventFrames => c.at \in {"event", "event insert"}
  BY DEF GatherFrames, EventFrames
<1>6. c \in BeginFrames => c.at \in {"begin", "begin insert"}
  BY DEF BeginFrames
<1>7. c \in EndFrames => c.at \in {"end", "end update"}
  BY DEF EndFrames
<1>8. c \in BindFrames => c.at = "bind"
  BY DEF BindFrames
<1>9. c \in MeasureFrames => c.at \in {"measure", "measure insert"}
  BY DEF MeasureFrames
<1>10. c \in FeedbackFrames => c.at \in {"feedback", "feedback insert"}
  BY DEF FeedbackFrames
<1> QED
  BY <1>1, <1>2, <1>3, <1>4, <1>5, <1>6, <1>7, <1>8, <1>9, <1>10
     DEF AllFrames, ContextFrames, RunFrames

(* The operation of a call tells its arguments and its frame.              *)
LEMMA FrameOp ==
    ASSUME NEW c
    PROVE  /\ c \in DerivingFrames => c.args.op \in {"put", "named", "reduce"} /\ c.args \in DerivingArgs
           /\ c \in IngestFrames => c.args.op = "ingest" /\ c.args \in IngestArgs
           /\ c \in CaptureFrames => c.args.op = "capture" /\ c.args \in CaptureArgs
           /\ c \in EventFrames => c.args.op = "event" /\ c.args \in EventArgs
           /\ c \in GatherFrames => c.args.op = "reduce" /\ c.args \in ReduceArgs
  BY DEF DerivingFrames, IngestFrames, CaptureFrames, EventFrames, GatherFrames, StoreFrames,
         DerivingArgs, PutArgs, NamedArgs, ReduceArgs, IngestArgs, CaptureArgs, EventArgs

-----------------------------------------------------------------------------
(* Tables that only grow leave what a call knows of them.                  *)
Grow ==
    /\ DOMAIN contexts \subseteq DOMAIN contexts'
    /\ \A r \in DOMAIN contexts : contexts'[r] = contexts[r]
    /\ lineage \subseteq lineage'
    /\ DOMAIN events \subseteq DOMAIN events'
    /\ \A k \in DOMAIN events : events'[k] = events[k]
    /\ tried \subseteq tried'
    /\ tornByReset' = tornByReset

LEMMA JoinedKept ==
    ASSUME NEW refs, NEW content, Joined(refs, content), Grow
    PROVE  Joined(refs, content)'
<1>1. Contents(refs)' = Contents(refs)
  BY DEF Contents, Joined, Grow
<1> QED
  BY <1>1 DEF Joined, Grow

LEMMA LinkedKept ==
    ASSUME NEW refs, NEW ref, NEW links, Linked(refs, ref, links), Grow
    PROVE  Linked(refs, ref, links)'
  BY DEF Linked, Grow

LEMMA IngestedKept ==
    ASSUME NEW args, NEW n, NEW expires, Ingested(args, n, expires), Grow
    PROVE  Ingested(args, n, expires)'
  BY DEF Ingested, Grow

LEMMA FrameKept ==
    ASSUME NEW c, FrameOK(c), Grow
    PROVE  FrameOK(c)'
<1>1. Stores(c) => Stores(c)'
  BY DEF Stores, Grow
<1>2. DerivingKnows(c) => DerivingKnows(c)'
  BY JoinedKept, LinkedKept DEF DerivingKnows, Grow
<1>3. IngestKnows(c) => IngestKnows(c)'
  BY IngestedKept DEF IngestKnows
<1>4. CaptureKnows(c) => CaptureKnows(c)'
  BY DEF CaptureKnows, Grow
<1>5. GatherKnows(c) => GatherKnows(c)'
  BY JoinedKept DEF GatherKnows
<1> QED
  BY <1>1, <1>2, <1>3, <1>4, <1>5 DEF FrameOK, Grow

LEMMA AckedKept ==
    ASSUME NEW a, AckedOK(a), Grow
    PROVE  AckedOK(a)'
<1>1. ASSUME ~tornByReset, a.args.op = "ingest"
      PROVE  (\E expires \in {contexts[r].expires : r \in DOMAIN contexts} :
                Ingested(a.args, Chunks[a.args.key], expires))'
  <2>1. PICK e \in {contexts[r].expires : r \in DOMAIN contexts} :
           Ingested(a.args, Chunks[a.args.key], e)
    BY <1>1 DEF AckedOK
  <2>2. e \in {contexts'[r].expires : r \in DOMAIN contexts'}
    BY DEF Grow
  <2>3. Ingested(a.args, Chunks[a.args.key], e)'
    BY <2>1, IngestedKept
  <2> QED BY <2>2, <2>3
<1>2. ASSUME ~tornByReset, a.args.op \in {"put", "named", "reduce"}
      PROVE  Linked(a.args.parents, a.made, <<>>)'
  BY <1>2, LinkedKept DEF AckedOK
<1>3. ASSUME ~tornByReset, a.args.op = "reduce"
      PROVE  a.made \in DOMAIN contexts' /\ Joined(a.args.parents, contexts[a.made].content)'
  <2>1. a.made \in DOMAIN contexts /\ Joined(a.args.parents, contexts[a.made].content)
    BY <1>3 DEF AckedOK
  <2>2. a.made \in DOMAIN contexts' /\ contexts'[a.made] = contexts[a.made]
    BY <2>1 DEF Grow
  <2>3. Contents(a.args.parents)' = Contents(a.args.parents)
    BY <2>1 DEF Contents, Joined, Grow
  <2> QED BY <2>1, <2>2, <2>3 DEF Joined, Grow
<1>4. ASSUME ~tornByReset, a.args.op \in {"capture", "event"}
      PROVE  EventStored(a)'
  BY <1>4 DEF AckedOK, EventStored, Grow
<1> QED
  BY <1>1, <1>2, <1>3, <1>4 DEF AckedOK, Grow

-----------------------------------------------------------------------------
(* A step of one process in tables that grow.                              *)
LEMMA IdleOK == FrameOK(Idle) /\ FrameOK(Idle)' /\ Idle \in AllFrames
<1>1. Idle \in AllFrames
  BY DEF AllFrames
<1>2. Idle \notin ContextFrames /\ Idle \notin RunFrames
  BY <1>1, FrameAt
<1> QED
  BY <1>1, <1>2 DEF FrameOK, ContextFrames

LEMMA TablesKept ==
    ASSUME TablesOK, UNCHANGED <<contexts, events>>, tried \subseteq tried'
    PROVE  TablesOK'
  BY DEF TablesOK

LEMMA TablesStep ==
    ASSUME ContextsInv, Grow, call' \in [Procs -> AllFrames],
           \A q \in Procs : call'[q] = call[q] \/ FrameOK(call[q])',
           now' \in Nat \ {0}, generated' \in [Procs -> Nat],
           TablesOK',
           \A a \in acked' : a \in acked \/ AckedOK(a)',
           \A a \in refused' : a \in refused \/ RefusedOK(a)'
    PROVE  ContextsInv'
<1>1. ContextsTyped'
  BY DEF ContextsTyped, AllFrames
<1>2. ASSUME NEW q \in Procs, call'[q] = call[q]
      PROVE  FrameOK(call[q])'
  <2>1. PICK d : d = call[q]
    OBVIOUS
  <2>2. FrameOK(d)
    BY <2>1 DEF ContextsInv
  <2>3. FrameOK(d)'
    BY <2>2, FrameKept
  <2> QED BY <1>2, <2>1, <2>3
<1>3. ASSUME NEW a \in acked'
      PROVE  AckedOK(a)'
  BY AckedKept DEF ContextsInv
<1>4. ASSUME NEW a \in refused'
      PROVE  RefusedOK(a)'
  BY DEF ContextsInv, RefusedOK, Grow
<1> QED
  BY <1>1, <1>2, <1>3, <1>4 DEF ContextsInv

LEMMA StepKeeps ==
    ASSUME ContextsInv, Grow, NEW p \in Procs, NEW f \in AllFrames, call' = [call EXCEPT ![p] = f],
           FrameOK(f)', now' \in Nat \ {0}, generated' \in [Procs -> Nat],
           TablesOK',
           \A a \in acked' : a \in acked \/ AckedOK(a)',
           \A a \in refused' : a \in refused \/ RefusedOK(a)'
    PROVE  ContextsInv'
<1>1. call \in [Procs -> AllFrames]
  BY DEF ContextsInv, ContextsTyped, AllFrames
<1>2. call' \in [Procs -> AllFrames] /\ call'[p] = f
  BY <1>1
<1>3. ASSUME NEW q \in Procs
      PROVE  call'[q] = call[q] \/ FrameOK(call[q])'
  BY <1>1, <1>2
<1> QED
  BY <1>2, <1>3, TablesStep

(* A call that starts, and one that goes on without writing.               *)
LEMMA StartKeeps ==
    ASSUME ContextsInv, NEW p \in Procs, NEW f \in AllFrames, Start(p, f),
           UNCHANGED <<contexts, lineage, events, now, tornByReset>>,
           generated' \in [Procs -> Nat], FrameOK(f)'
    PROVE  ContextsInv'
<1>1. /\ call' = [call EXCEPT ![p] = f] /\ tried \subseteq tried'
      /\ acked' = acked /\ refused' = refused
  BY DEF Start
<1>2. Grow
  BY <1>1 DEF Grow
<1>3. TablesOK'
  BY <1>1, TablesKept DEF ContextsInv
<1>4. now' \in Nat \ {0}
  BY DEF ContextsInv, ContextsTyped
<1> QED
  BY <1>1, <1>2, <1>3, <1>4, StepKeeps

LEMMA MoveKeeps ==
    ASSUME ContextsInv, NEW p \in Procs, NEW f \in AllFrames, call' = [call EXCEPT ![p] = f],
           UNCHANGED <<tried, contextVars>>, FrameOK(f)',
           \A a \in acked' : a \in acked \/ AckedOK(a)',
           \A a \in refused' : a \in refused \/ RefusedOK(a)'
    PROVE  ContextsInv'
<1>1. /\ UNCHANGED <<contexts, lineage, events, now, tornByReset>>
      /\ generated' = generated /\ tried' = tried
  BY DEF contextVars
<1>2. Grow
  BY <1>1 DEF Grow
<1>3. TablesOK'
  BY <1>1, TablesKept DEF ContextsInv
<1>4. now' \in Nat \ {0} /\ generated' \in [Procs -> Nat]
  BY <1>1 DEF ContextsInv, ContextsTyped
<1> QED
  BY <1>2, <1>3, <1>4, StepKeeps

LEMMA FailKeeps ==
    ASSUME ContextsInv, NEW p \in Procs, Fail(p), UNCHANGED contextVars
    PROVE  ContextsInv'
<1>1. /\ call' = [call EXCEPT ![p] = Idle]
      /\ UNCHANGED <<tried, contextVars>> /\ acked' = acked /\ refused' = refused
  BY DEF Fail, Goes
<1> QED
  BY <1>1, IdleOK, MoveKeeps

LEMMA RefuseKeeps ==
    ASSUME ContextsInv, NEW p \in Procs, Refuse(p), UNCHANGED contextVars,
           RefusedOK(call[p].args)
    PROVE  ContextsInv'
<1>1. /\ call' = [call EXCEPT ![p] = Idle]
      /\ UNCHANGED <<tried, contextVars>> /\ acked' = acked
      /\ refused' = refused \cup {call[p].args}
  BY DEF Refuse
<1>2. \A a : RefusedOK(a) => RefusedOK(a)'
  BY <1>1 DEF RefusedOK
<1>3. \A a \in refused' : a \in refused \/ RefusedOK(a)'
  BY <1>1, <1>2
<1> QED
  BY <1>1, <1>3, IdleOK, MoveKeeps

-----------------------------------------------------------------------------
(* The calls start with what they are to store.                            *)
LEMMA ListsFacts ==
    ASSUME TablesOK, NEW n, n \subseteq Nat, NEW refs \in Lists(n)
    PROVE  /\ refs \in Seq(AllRefs)
           /\ DOMAIN refs = 1..Len(refs) /\ Len(refs) \in n
           /\ \A i \in DOMAIN refs : refs[i] \in DOMAIN contexts
<1>1. PICK m \in n : refs \in [1..m -> DOMAIN contexts]
  BY DEF Lists
<1>2. \A i \in 1..m : refs[i] \in AllRefs /\ refs[i] \in DOMAIN contexts
  BY <1>1 DEF TablesOK
<1>3. refs = [i \in 1..m |-> refs[i]] /\ m \in Nat
  BY <1>1
<1>4. refs \in [1..m -> AllRefs]
  BY <1>2, <1>3
<1>5. refs \in Seq(AllRefs) /\ Len(refs) = m
  BY <1>3, <1>4, LenProperties
<1> QED
  BY <1>1, <1>2, <1>3, <1>5

LEMMA MaxReducedLists ==
    ASSUME TablesOK, NEW refs \in Lists(1..MaxReduced)
    PROVE  refs # <<>>
<1>1. Len(refs) \in 1..MaxReduced
  <2>1. 1..MaxReduced \subseteq Nat
    OBVIOUS
  <2> QED BY <2>1, ListsFacts
<1> QED
  BY <1>1, EmptySeq

LEMMA DerivedFacts ==
    ASSUME NEW refs \in Seq(AllRefs), NEW relation \in {"derived", "derived_from", "reduced_from"},
           NEW ref
    PROVE  Derived(refs, relation) \in Links /\ Linked(refs, ref, Derived(refs, relation))
<1> DEFINE T == AllRefs \X {"derived", "derived_from", "reduced_from"}
<1> DEFINE N == Len(refs)
<1>1. N \in Nat /\ DOMAIN refs = 1..N /\ \A i \in 1..N : refs[i] \in AllRefs
  BY LenProperties, ElementOfSeq
<1> HIDE DEF N
<1>2. Derived(refs, relation) = [i \in 1..N |-> <<refs[i], relation>>]
  BY <1>1 DEF Derived
<1>3. \A i \in 1..N : <<refs[i], relation>> \in T
  BY <1>1
<1>4. Derived(refs, relation) \in [1..N -> T]
  BY <1>2, <1>3
<1>5. Derived(refs, relation) \in Links
  BY <1>1, <1>4 DEF Links
<1>6. \A i \in DOMAIN refs : /\ i \in DOMAIN Derived(refs, relation)
                             /\ Derived(refs, relation)[i][1] = refs[i]
  BY <1>1, <1>2
<1> QED
  BY <1>5, <1>6 DEF Linked

LEMMA ExpiryFacts ==
    ASSUME ContextsTyped, NEW ttl \in Ttls \cup {0}
    PROVE  Expiry(ttl) \in Nat /\ (ttl = 0 => Expiry(ttl) = Never)
  BY ContextsAssumption DEF ContextsTyped, Expiry, Never

(* The frame of a call that derives a context.                             *)
LEMMA DerivingStarts ==
    ASSUME NEW args \in DerivingArgs, NEW ref \in AllRefs, NEW row \in Rows, NEW links \in Links,
           Puts(args, ref, row), args \in tried',
           ~tornByReset' => Linked(args.parents, ref, links)'
                              /\ (args.op = "reduce" => Joined(args.parents, row.content)')
    PROVE  Frame(args, ref, row, links) \in AllFrames /\ FrameOK(Frame(args, ref, row, links))'
<1> DEFINE f == Frame(args, ref, row, links)
<1>1. f \in DerivingFrames
  BY DEF DerivingFrames, StoreFrames, Frame
<1>2. f.args = args /\ f.ref = ref /\ f.row = row /\ f.links = links /\ f.at = "put"
  BY DEF Frame
<1> HIDE DEF f
<1>3. f \in AllFrames
  BY <1>1 DEF AllFrames, ContextFrames
<1>4. /\ f \notin IngestFrames /\ f \notin CaptureFrames
      /\ f \notin GatherFrames /\ f \notin EventFrames /\ f \notin RunFrames
  BY <1>1, <1>2, <1>3, FrameOp, FrameAt DEF GatherFrames, ContextFrames
<1>5. args.op \in {"put", "named", "reduce"}
  BY DEF DerivingArgs, PutArgs, NamedArgs, ReduceArgs
<1>6. FrameOK(f)'
  <2>1. Stores(f)'
    BY <1>2, <1>5 DEF Stores
  <2>2. ~tornByReset' => DerivingKnows(f)'
    BY <1>2 DEF DerivingKnows
  <2> QED BY <1>4, <2>1, <2>2 DEF FrameOK
<1> QED
  BY <1>3, <1>6 DEF f

LEMMA Singleton ==
    ASSUME NEW S, NEW x \in S
    PROVE  <<x>> \in Seq(S)
  OBVIOUS

LEMMA PutGeneratedKeeps ==
    ASSUME ContextsInv, NEW p \in Procs, NEW text \in Texts, NEW source \in Sources,
           NEW ttl \in Ttls, NEW parents \in Lists(0..MaxParents),
           PutGenerated(p, text, source, ttl, parents)
    PROVE  ContextsInv'
<1>1. ContextsTyped /\ TablesOK
  BY DEF ContextsInv
<1>2. PICK e \in Nat : e = Expiry(ttl) /\ (ttl = 0 => e = Never)
  BY <1>1, ExpiryFacts
<1>3. PICK n \in Nat : n = generated[p]
  BY <1>1 DEF ContextsTyped
<1> DEFINE args == [op |-> "put", key |-> text, source |-> source, ttl |-> ttl,
                    parents |-> parents]
<1> DEFINE ref == <<"ctx", text, n>>
<1> DEFINE row == Row(<<text>>, source, e)
<1> DEFINE links == Derived(parents, "derived")
<1> DEFINE f == Frame(args, ref, row, links)
<1>4. /\ Start(p, f) /\ UNCHANGED <<contexts, lineage, events, now, tornByReset>>
      /\ generated' = [generated EXCEPT ![p] = @ + 1]
  BY <1>2, <1>3 DEF PutGenerated
<1>5. parents \in Seq(AllRefs)
  <2>1. 0..MaxParents \subseteq Nat
    OBVIOUS
  <2> QED BY <1>1, <2>1, ListsFacts
<1>6. links \in Links /\ Linked(parents, ref, links)
  BY <1>5, DerivedFacts
<1>7. args \in DerivingArgs /\ ref \in AllRefs /\ generated' \in [Procs -> Nat]
  BY <1>1, <1>4, <1>5 DEF DerivingArgs, PutArgs, AllRefs, ContextsTyped
<1>8. row \in Rows
  <2>1. <<text>> \in Seq(Atoms)
    BY Singleton DEF Atoms
  <2> QED BY <2>1 DEF Row, Rows
<1>9. args.parents = parents /\ args.op = "put"
  OBVIOUS
<1>10. Puts(args, ref, row)
  BY <1>2 DEF Puts, Row
<1>11. args \in tried'
  <2>1. f.args = args
    BY DEF Frame
  <2> QED BY <1>4, <2>1 DEF Start
<1> HIDE DEF args, ref, row, links
<1>12. Linked(parents, ref, links)'
  BY <1>4, <1>6 DEF Linked
<1>13. f \in AllFrames /\ FrameOK(f)'
  BY <1>6, <1>7, <1>8, <1>9, <1>10, <1>11, <1>12, DerivingStarts
<1> HIDE DEF f
<1> QED
  BY <1>4, <1>7, <1>13, StartKeeps

LEMMA PutNamedKeeps ==
    ASSUME ContextsInv, NEW p \in Procs, NEW label \in Labels, NEW text \in Texts,
           NEW parents \in Lists(0..1), PutNamed(p, label, text, parents)
    PROVE  ContextsInv'
<1>1. ContextsTyped /\ TablesOK
  BY DEF ContextsInv
<1> DEFINE args == [op |-> "named", key |-> label, text |-> text, ttl |-> 0, parents |-> parents]
<1> DEFINE ref == <<"named", label>>
<1> DEFINE row == Row(<<text>>, "", Never)
<1> DEFINE links == Derived(parents, "derived_from")
<1> DEFINE f == Frame(args, ref, row, links)
<1>2. /\ Start(p, f) /\ UNCHANGED <<contexts, lineage, events, now, tornByReset>>
      /\ generated' = generated
  BY DEF PutNamed, contextVars
<1>3. parents \in Seq(AllRefs)
  <2>1. 0..1 \subseteq Nat
    OBVIOUS
  <2> QED BY <1>1, <2>1, ListsFacts
<1>4. links \in Links /\ Linked(parents, ref, links)
  BY <1>3, DerivedFacts
<1>5. args \in DerivingArgs /\ ref \in AllRefs /\ generated' \in [Procs -> Nat]
  BY <1>1, <1>2, <1>3 DEF DerivingArgs, NamedArgs, AllRefs, ContextsTyped
<1>6. row \in Rows
  <2>1. <<text>> \in Seq(Atoms)
    BY Singleton DEF Atoms
  <2> QED BY <2>1 DEF Row, Rows, Never
<1>7. args.parents = parents /\ args.op = "named"
  OBVIOUS
<1>8. Puts(args, ref, row)
  BY DEF Puts, Row
<1>9. args \in tried'
  <2>1. f.args = args
    BY DEF Frame
  <2> QED BY <1>2, <2>1 DEF Start
<1> HIDE DEF args, ref, row, links
<1>10. Linked(parents, ref, links)'
  BY <1>2, <1>4 DEF Linked
<1>11. f \in AllFrames /\ FrameOK(f)'
  BY <1>4, <1>5, <1>6, <1>7, <1>8, <1>9, <1>10, DerivingStarts
<1> HIDE DEF f
<1> QED
  BY <1>2, <1>5, <1>11, StartKeeps

(* The frame of an ingest, at its first chunk and at a later one.          *)
LEMMA ChunkFacts ==
    ASSUME NEW args \in IngestArgs, NEW i \in 1..Chunks[args.key], NEW expires \in Nat,
           args.ttl = 0 => expires = Never, args \in tried',
           ~tornByReset' => Ingested(args, i - 1, expires)'
    PROVE  ChunkFrame(args, i, expires) \in AllFrames /\ FrameOK(ChunkFrame(args, i, expires))'
<1> DEFINE ref == <<"document", args.key, i>>
<1> DEFINE row == Row(<<<<args.key, i>>>>, args.source, expires)
<1> DEFINE f == ChunkFrame(args, i, expires)
<1>1. args.key \in Docs /\ args.source \in Sources /\ args.op = "ingest" /\ i \in Nat
  BY ContextsAssumption DEF IngestArgs
<1>2. ref \in AllRefs /\ row \in Rows /\ <<>> \in Links
  <2>1. <<args.key, i>> \in Atoms
    BY <1>1 DEF Atoms
  <2>2. row \in Rows
    <3>1. <<<<args.key, i>>>> \in Seq(Atoms)
      BY <2>1, Singleton
    <3> QED BY <1>1, <3>1 DEF Row, Rows
  <2>3. <<>> \in Links
    BY EmptySeq DEF Links
  <2> QED BY <1>1, <2>2, <2>3 DEF AllRefs
<1>3. f \in IngestFrames
  BY <1>2 DEF IngestFrames, StoreFrames, ChunkFrame, Frame
<1>4. f.args = args /\ f.ref = ref /\ f.row = row /\ f.links = <<>> /\ f.at = "put"
  BY DEF ChunkFrame, Frame
<1>5. ref[1] = "document" /\ ref[2] = args.key /\ ref[3] = i
  OBVIOUS
<1>6. /\ row.content = <<<<args.key, i>>>> /\ row.meta = args.source /\ row.expires = expires
  BY DEF Row
<1>7. Puts(args, ref, row)
  BY <1>1, <1>5, <1>6 DEF Puts
<1> HIDE DEF f
<1>8. /\ f \notin DerivingFrames /\ f \notin CaptureFrames
      /\ f \notin GatherFrames /\ f \notin EventFrames /\ f \notin RunFrames
  BY <1>1, <1>3, <1>4, FrameOp, FrameAt DEF AllFrames, ContextFrames
<1>9. FrameOK(f)'
  <2>1. Stores(f)'
    BY <1>1, <1>4, <1>5, <1>7 DEF Stores
  <2>2. ~tornByReset' => IngestKnows(f)'
    BY <1>4, <1>5, <1>6 DEF IngestKnows
  <2> QED BY <1>8, <2>1, <2>2 DEF FrameOK
<1> QED
  BY <1>3, <1>9 DEF AllFrames, ContextFrames, f

LEMMA IngestKeeps ==
    ASSUME ContextsInv, NEW p \in Procs, NEW doc \in Docs, NEW source \in Sources,
           NEW ttl \in Ttls, Ingest(p, doc, source, ttl)
    PROVE  ContextsInv'
<1>1. PICK e \in Nat : e = Expiry(ttl) /\ (ttl = 0 => e = Never)
  BY ExpiryFacts DEF ContextsInv
<1> DEFINE args == [op |-> "ingest", key |-> doc, source |-> source, ttl |-> ttl]
<1> DEFINE f == ChunkFrame(args, 1, e)
<1>2. /\ Start(p, f) /\ UNCHANGED <<contexts, lineage, events, now, tornByReset>>
      /\ generated' = generated
  BY <1>1 DEF Ingest, contextVars
<1>3. generated' \in [Procs -> Nat]
  BY <1>2 DEF ContextsInv, ContextsTyped
<1>4. args \in IngestArgs /\ args.key = doc /\ args.ttl = ttl
  BY DEF IngestArgs
<1>5. args \in tried'
  <2>1. f.args = args
    BY DEF ChunkFrame, Frame
  <2> QED BY <1>2, <2>1 DEF Start
<1>6. 1 \in 1..Chunks[args.key]
  BY <1>4, ContextsAssumption
<1> HIDE DEF args
<1>7. Ingested(args, 1 - 1, e)'
  BY DEF Ingested
<1>8. f \in AllFrames /\ FrameOK(f)'
  BY <1>1, <1>4, <1>5, <1>6, <1>7, ChunkFacts
<1> HIDE DEF f
<1> QED
  BY <1>2, <1>3, <1>8, StartKeeps

LEMMA ReduceKeeps ==
    ASSUME ContextsInv, NEW p \in Procs, NEW parents \in Lists(1..MaxReduced), NEW ttl \in Ttls,
           Reduce(p, parents, ttl)
    PROVE  ContextsInv'
<1>1. ContextsTyped /\ TablesOK
  BY DEF ContextsInv
<1> DEFINE args == [op |-> "reduce", key |-> "reduce", ttl |-> ttl, parents |-> parents]
<1> DEFINE f == [args |-> args, at |-> "gather", left |-> parents, content |-> <<>>]
<1>2. /\ Start(p, f) /\ UNCHANGED <<contexts, lineage, events, now, tornByReset>>
      /\ generated' = generated
  BY DEF Reduce, contextVars
<1>3. parents \in Seq(AllRefs)
  <2>1. 1..MaxReduced \subseteq Nat
    OBVIOUS
  <2> QED BY <1>1, <2>1, ListsFacts
<1>4. args \in ReduceArgs /\ args.parents = parents /\ generated' \in [Procs -> Nat]
  BY <1>1, <1>2, <1>3 DEF ReduceArgs, ContextsTyped
<1>5. args \in tried'
  BY <1>2 DEF Start
<1> HIDE DEF args
<1>6. f \in GatherFrames
  <2>1. <<>> \in Seq(Atoms)
    BY EmptySeq
  <2>2. parents # <<>>
    BY <1>1, <1>3, MaxReducedLists
  <2> QED BY <1>3, <1>4, <2>1, <2>2 DEF GatherFrames
<1>7. f.args = args /\ f.at = "gather" /\ f.left = parents /\ f.content = <<>>
  OBVIOUS
<1> HIDE DEF f
<1>8. f \in AllFrames
  BY <1>6 DEF AllFrames, ContextFrames
<1>9. /\ f \notin DerivingFrames /\ f \notin IngestFrames /\ f \notin CaptureFrames
      /\ f \notin EventFrames /\ f \notin RunFrames
  <2>1. f \notin EventFrames /\ f \notin RunFrames
    BY <1>6, <1>7, <1>8, FrameAt DEF ContextFrames, EventFrames
  <2> QED BY <1>7, <2>1 DEF DerivingFrames, IngestFrames, CaptureFrames, StoreFrames
<1>10. GatherKnows(f)'
  <2>1. SubSeq(parents, 1, 0) = <<>> /\ SubSeq(parents, 0 + 1, Len(parents)) = parents
    BY <1>3, SubSeqEmpty, SubSeqFull
  <2>2. Joined(<<>>, <<>>)'
    <3>1. \A i \in DOMAIN <<>> : <<>>[i] \in DOMAIN contexts'
      BY EmptySeq
    <3>2. [i \in DOMAIN <<>> |-> contexts'[<<>>[i]].content] = <<>>
      OBVIOUS
    <3> QED BY <3>1, <3>2, FlattenEmpty DEF Joined, Contents
  <2>3. 0 \in 0..Len(parents)
    BY <1>3, LenProperties
  <2> QED BY <1>4, <1>7, <2>1, <2>2, <2>3 DEF GatherKnows
<1>11. FrameOK(f)'
  BY <1>5, <1>7, <1>9, <1>10 DEF FrameOK
<1> QED
  BY <1>2, <1>4, <1>8, <1>11, StartKeeps

LEMMA CaptureKeeps ==
    ASSUME ContextsInv, NEW p \in Procs, NEW key \in Keys, NEW text \in Texts,
           Capture(p, key, text)
    PROVE  ContextsInv'
<1> DEFINE args == [op |-> "capture", key |-> key, text |-> text, ttl |-> 0]
<1> DEFINE ref == <<"event", key>>
<1> DEFINE row == Row(<<text>>, "event", Never)
<1> DEFINE f == Frame(args, ref, row, <<>>)
<1>1. /\ Start(p, f) /\ UNCHANGED <<contexts, lineage, events, now, tornByReset>>
      /\ generated' = generated
  BY DEF Capture, contextVars
<1>2. generated' \in [Procs -> Nat]
  BY <1>1 DEF ContextsInv, ContextsTyped
<1>3. args \in CaptureArgs /\ ref \in AllRefs /\ <<>> \in Links
  BY EmptySeq DEF CaptureArgs, AllRefs, Links
<1>4. row \in Rows
  <2>1. <<text>> \in Seq(Atoms)
    BY Singleton DEF Atoms
  <2> QED BY <2>1 DEF Row, Rows, Never
<1>5. f \in CaptureFrames
  BY <1>3, <1>4 DEF CaptureFrames, StoreFrames, Frame
<1>6. f.args = args /\ f.ref = ref /\ f.row = row /\ f.links = <<>> /\ f.at = "put"
  BY DEF Frame
<1>7. Puts(args, ref, row)
  BY DEF Puts, Row
<1>8. args.op = "capture" /\ args \in tried'
  BY <1>1, <1>6 DEF Start
<1> HIDE DEF f, args, ref, row
<1>9. f \in AllFrames
  BY <1>5 DEF AllFrames, ContextFrames
<1>10. /\ f \notin DerivingFrames /\ f \notin IngestFrames
       /\ f \notin GatherFrames /\ f \notin EventFrames /\ f \notin RunFrames
  BY <1>5, <1>6, <1>8, <1>9, FrameOp, FrameAt DEF GatherFrames, ContextFrames
<1>11. FrameOK(f)'
  <2>1. Stores(f)'
    BY <1>6, <1>7, <1>8 DEF Stores
  <2>2. CaptureKnows(f)'
    BY <1>6 DEF CaptureKnows
  <2> QED BY <1>10, <2>1, <2>2 DEF FrameOK
<1> QED
  BY <1>1, <1>2, <1>9, <1>11, StartKeeps

LEMMA CaptureLegacyKeeps ==
    ASSUME ContextsInv, NEW p \in Procs, NEW key \in Keys, NEW text \in Texts,
           NEW ref \in DOMAIN contexts, CaptureLegacy(p, key, text, ref)
    PROVE  ContextsInv'
<1> DEFINE args == [op |-> "event", key |-> key, text |-> text, ttl |-> 0, ref |-> ref]
<1> DEFINE f == [args |-> args, at |-> "event", ref |-> ref]
<1>1. /\ Start(p, f) /\ UNCHANGED <<contexts, lineage, events, now, tornByReset>>
      /\ generated' = generated
  BY DEF CaptureLegacy, contextVars
<1>2. generated' \in [Procs -> Nat] /\ ref \in AllRefs
  BY <1>1 DEF ContextsInv, ContextsTyped, TablesOK
<1>3. f \in EventFrames /\ f.args = args /\ f.ref = args.ref /\ f.args.op = "event"
  BY <1>2 DEF EventFrames, EventArgs
<1>4. f.args \in tried'
  BY <1>1 DEF Start
<1> HIDE DEF f, args
<1>5. f \in AllFrames
  BY <1>3 DEF AllFrames, ContextFrames
<1>6. /\ f \notin DerivingFrames /\ f \notin IngestFrames /\ f \notin CaptureFrames
      /\ f \notin GatherFrames /\ f \notin RunFrames
  BY <1>3, <1>5, FrameOp, FrameAt DEF ContextFrames
<1>7. FrameOK(f)'
  BY <1>3, <1>4, <1>6 DEF FrameOK
<1> QED
  BY <1>1, <1>2, <1>5, <1>7, StartKeeps

-----------------------------------------------------------------------------
LEMMA RefFacts ==
    ASSUME NEW r \in AllRefs
    PROVE  /\ r # <<>>
           /\ r[1] = "document" => r = <<"document", r[2], r[3]>>
           /\ r[1] = "event" => r = <<"event", r[2]>>
<1>1. CASE r \in {"ctx"} \X Texts \X Nat
  BY <1>1
<1>2. CASE r \in {"named"} \X Labels
  BY <1>2
<1>3. CASE r \in {"document"} \X Docs \X Nat
  <2>1. PICK d \in Docs, n \in Nat : r = <<"document", d, n>>
    BY <1>3
  <2> QED BY <2>1
<1>4. CASE r \in {"reduced"} \X Seq(Atoms)
  <2>1. PICK content \in Seq(Atoms) : r = <<"reduced", content>>
    BY <1>4
  <2> QED BY <2>1
<1>5. CASE r \in {"event"} \X Keys
  BY <1>5
<1> QED
  BY <1>1, <1>2, <1>3, <1>4, <1>5 DEF AllRefs

LEMMA RowFacts ==
    ASSUME NEW row \in Rows
    PROVE  row = Row(row.content, row.meta, row.expires)
  BY DEF Rows, Row

LEMMA DocumentRow ==
    ASSUME NEW c \in IngestFrames, Stores(c)
    PROVE  /\ c.ref = <<"document", c.args.key, c.ref[3]>>
           /\ c.row = Row(<<<<c.args.key, c.ref[3]>>>>, c.args.source, c.row.expires)
           /\ c.row.expires \in Nat /\ (c.args.ttl = 0 => c.row.expires = Never)
           /\ c.ref[3] \in 1..Chunks[c.args.key]
<1>1. c.args \in IngestArgs /\ c.args.op = "ingest" /\ c.ref \in AllRefs /\ c.row \in Rows
  BY FrameOp DEF IngestFrames, StoreFrames
<1>2. /\ c.ref[1] = "document" /\ c.ref[2] = c.args.key
      /\ c.row.content = <<<<c.args.key, c.ref[3]>>>> /\ c.row.meta = c.args.source
      /\ c.args.ttl = 0 => c.row.expires = Never
  BY <1>1 DEF Stores, Puts
<1>3. c.row.expires \in Nat
  BY <1>1 DEF Rows
<1>4. c.ref[3] \in 1..Chunks[c.args.key]
  BY <1>1 DEF Stores
<1> QED
  BY <1>1, <1>2, <1>3, <1>4, RefFacts, RowFacts

(* The row of the call is stored: what comes next.                         *)
LEMMA AfterPutKeeps ==
    ASSUME ContextsInv, NEW p \in Procs, NEW c, c = call[p], c.at \in {"put", "insert"},
           AfterPut(p), Grow, c.ref \in DOMAIN contexts', contexts'[c.ref] = c.row,
           TablesOK', now' \in Nat \ {0}, generated' \in [Procs -> Nat]
    PROVE  ContextsInv'
<1>1. c \in AllFrames /\ FrameOK(c) /\ FrameOK(c)'
  <2>1. c \in AllFrames /\ FrameOK(c)
    BY DEF ContextsInv, ContextsTyped, AllFrames
  <2> QED BY <2>1, FrameKept
<1>2. ASSUME NEW f \in AllFrames, Goes(p, f), FrameOK(f)'
      PROVE  ContextsInv'
  <2>1. call' = [call EXCEPT ![p] = f] /\ acked' = acked /\ refused' = refused
    BY <1>2 DEF Goes
  <2> QED BY <1>2, <2>1, StepKeeps
<1>3. ASSUME Ack(p, c.ref), AckedOK([args |-> c.args, made |-> c.ref])'
      PROVE  ContextsInv'
  <2>1. /\ call' = [call EXCEPT ![p] = Idle] /\ refused' = refused
        /\ acked' = acked \cup {[args |-> c.args, made |-> c.ref]}
    BY <1>3 DEF Ack
  <2>2. \A a \in acked' : a \in acked \/ AckedOK(a)'
    BY <1>3, <2>1
  <2> QED BY <2>1, <2>2, IdleOK, StepKeeps
<1>4. CASE c \in DerivingFrames
  <2>1. /\ c.args.op \in {"put", "named", "reduce"}
        /\ AfterPut(p) => IF c.links # <<>> THEN Goto(p, "link") ELSE Ack(p, c.ref)
    <3>1. c.args.op \in {"put", "named", "reduce"}
      BY <1>4, FrameOp
    <3> QED BY <3>1 DEF AfterPut
  <2>2. Stores(c)' /\ (~tornByReset' => DerivingKnows(c)')
    BY <1>1, <1>4 DEF FrameOK
  <2>3. CASE c.links # <<>>
    <3> DEFINE f == [c EXCEPT !.at = "link"]
    <3>1. f \in DerivingFrames
      BY <1>4 DEF DerivingFrames, StoreFrames
    <3>2. f.args = c.args /\ f.at = "link" /\ f.ref = c.ref /\ f.row = c.row /\ f.links = c.links
      BY <1>4 DEF DerivingFrames, StoreFrames
    <3>3. Goes(p, f)
      BY <2>1, <2>3 DEF Goto
    <3> HIDE DEF f
    <3>4. f \in AllFrames
      BY <3>1 DEF AllFrames, ContextFrames
    <3>5. /\ f \notin IngestFrames /\ f \notin CaptureFrames
          /\ f \notin GatherFrames /\ f \notin EventFrames /\ f \notin RunFrames
      BY <3>1, <3>2, <3>4, <2>1, FrameOp, FrameAt DEF GatherFrames, ContextFrames
    <3>6. Stores(f)'
      BY <2>2, <2>3, <3>2 DEF Stores
    <3>7. ~tornByReset' => DerivingKnows(f)'
      BY <2>2, <3>2 DEF DerivingKnows
    <3>8. FrameOK(f)'
      BY <3>5, <3>6, <3>7 DEF FrameOK
    <3> QED BY <1>2, <3>3, <3>4, <3>8
  <2>4. CASE c.links = <<>>
    <3> DEFINE a == [args |-> c.args, made |-> c.ref]
    <3>1. a.args = c.args /\ a.made = c.ref
      OBVIOUS
    <3> HIDE DEF a
    <3>2. c.ref # <<>>
      BY <1>4, RefFacts DEF DerivingFrames, StoreFrames
    <3>3. ~tornByReset' => Linked(a.args.parents, a.made, <<>>)'
      BY <2>2, <2>4, <3>1 DEF DerivingKnows
    <3>4. ~tornByReset' /\ a.args.op = "reduce" =>
            a.made \in DOMAIN contexts' /\ Joined(a.args.parents, contexts[a.made].content)'
      BY <2>2, <3>1 DEF DerivingKnows
    <3>5. AckedOK(a)'
      BY <2>1, <3>1, <3>2, <3>3, <3>4 DEF AckedOK
    <3> QED BY <1>3, <2>1, <2>4, <3>5 DEF a
  <2> QED BY <2>3, <2>4
<1>5. CASE c \in CaptureFrames
  <2> DEFINE f == [c EXCEPT !.at = "event"]
  <2>1. c.args.op = "capture"
    BY <1>5, FrameOp
  <2>2. Stores(c)'
    BY <1>1, <1>5 DEF FrameOK
  <2>3. c.links = <<>>
    BY <2>1, <2>2 DEF Stores
  <2>4. Goes(p, f)
    BY <2>1, <2>3 DEF AfterPut, Goto
  <2>5. f \in CaptureFrames
    BY <1>5 DEF CaptureFrames, StoreFrames
  <2>6. f.args = c.args /\ f.at = "event" /\ f.ref = c.ref /\ f.row = c.row /\ f.links = c.links
    BY <1>5 DEF CaptureFrames, StoreFrames
  <2> HIDE DEF f
  <2>7. f \in AllFrames
    BY <2>5 DEF AllFrames, ContextFrames
  <2>8. /\ f \notin DerivingFrames /\ f \notin IngestFrames
        /\ f \notin GatherFrames /\ f \notin EventFrames /\ f \notin RunFrames
    BY <2>1, <2>5, <2>6, <2>7, FrameOp, FrameAt DEF GatherFrames, ContextFrames
  <2>9. Stores(f)' /\ CaptureKnows(f)'
    BY <2>2, <2>6 DEF Stores, CaptureKnows
  <2>10. FrameOK(f)'
    BY <2>8, <2>9 DEF FrameOK
  <2> QED BY <1>2, <2>4, <2>7, <2>10
<1>6. CASE c \in IngestFrames
  <2> DEFINE i == c.ref[3]
  <2> DEFINE e == c.row.expires
  <2>1. /\ c.args \in IngestArgs /\ c.args.op = "ingest" /\ c.args.key \in Docs
        /\ Chunks[c.args.key] \in Nat
    BY <1>6, FrameOp, ContextsAssumption DEF IngestArgs
  <2>2. Stores(c) /\ Stores(c)' /\ (~tornByReset' => IngestKnows(c)')
    BY <1>1, <1>6 DEF FrameOK
  <2>3. /\ c.ref = <<"document", c.args.key, i>> /\ i \in 1..Chunks[c.args.key]
        /\ c.row = Row(<<<<c.args.key, i>>>>, c.args.source, e)
        /\ e \in Nat /\ (c.args.ttl = 0 => e = Never)
    BY <1>6, <2>2, DocumentRow
  <2>4. ~tornByReset' => Ingested(c.args, i - 1, e)'
    BY <2>2 DEF IngestKnows
  <2>5. IF i < Chunks[c.args.key] THEN Goes(p, ChunkFrame(c.args, i + 1, e)) ELSE Ack(p, c.ref)
    <3>1. AfterPut(p) = CASE c.args.op = "ingest" /\ c.ref[3] < Chunks[c.args.key] ->
                                Goes(p, ChunkFrame(c.args, c.ref[3] + 1, c.row.expires))
                          [] c.args.op = "capture" -> Goto(p, "event")
                          [] c.args.op # "ingest" /\ c.links # <<>> -> Goto(p, "link")
                          [] OTHER -> Ack(p, c.ref)
      BY DEF AfterPut
    <3> QED BY <2>1, <3>1
  <2> HIDE DEF i, e
  <2>6. ~tornByReset' => Ingested(c.args, i, e)'
    <3>1. \A j \in 1..i : j = i \/ j \in 1..(i - 1)
      BY <2>1, <2>3
    <3>2. contexts'[<<"document", c.args.key, i>>] = Row(<<<<c.args.key, i>>>>, c.args.source, e)
          /\ <<"document", c.args.key, i>> \in DOMAIN contexts'
      BY <2>3
    <3> QED BY <2>4, <3>1, <3>2 DEF Ingested
  <2>7. CASE i < Chunks[c.args.key]
    <3>1. i + 1 \in 1..Chunks[c.args.key] /\ (i + 1) - 1 = i
      BY <2>1, <2>3, <2>7
    <3>2. c.args \in tried'
      BY <2>2 DEF Stores
    <3> DEFINE f == ChunkFrame(c.args, i + 1, e)
    <3>3. f \in AllFrames /\ FrameOK(f)'
      BY <2>1, <2>3, <2>6, <3>1, <3>2, ChunkFacts
    <3> HIDE DEF f
    <3> QED BY <1>2, <2>5, <2>7, <3>3 DEF f
  <2>8. CASE i = Chunks[c.args.key]
    <3> DEFINE a == [args |-> c.args, made |-> c.ref]
    <3>1. a.args = c.args /\ a.made = c.ref
      OBVIOUS
    <3> HIDE DEF a
    <3>2. c.ref # <<>>
      BY <1>6, RefFacts DEF IngestFrames, StoreFrames
    <3>3. e \in {contexts'[r].expires : r \in DOMAIN contexts'}
      BY DEF e
    <3>4. AckedOK(a)'
      BY <2>1, <2>6, <2>8, <3>1, <3>2, <3>3 DEF AckedOK
    <3> QED BY <1>3, <2>1, <2>5, <2>8, <3>4 DEF a
  <2> QED BY <2>1, <2>3, <2>7, <2>8
<1> QED
  BY <1>1, <1>4, <1>5, <1>6, FrameAt

-----------------------------------------------------------------------------
(* Two calls that store under one reference use one key; a call without a  *)
(* ttl stores one row.                                                     *)
LEMMA SameKey ==
    ASSUME NEW a, NEW b, NEW r, NEW row, NEW other, Puts(a, r, row), Puts(b, r, other)
    PROVE  Clash(a, b)
<1>1. /\ a.op \in {"put", "named", "ingest", "reduce", "capture"}
      /\ r[1] = IF a.op = "put" THEN "ctx" ELSE IF a.op = "named" THEN "named"
                ELSE IF a.op = "ingest" THEN "document" ELSE IF a.op = "reduce" THEN "reduced"
                ELSE "event"
      /\ a.key = IF a.op = "reduce" THEN "reduce" ELSE r[2]
  BY DEF Puts
<1>2. /\ b.op \in {"put", "named", "ingest", "reduce", "capture"}
      /\ r[1] = IF b.op = "put" THEN "ctx" ELSE IF b.op = "named" THEN "named"
                ELSE IF b.op = "ingest" THEN "document" ELSE IF b.op = "reduce" THEN "reduced"
                ELSE "event"
      /\ b.key = IF b.op = "reduce" THEN "reduce" ELSE r[2]
  BY DEF Puts
<1>3. a.op = b.op /\ a.key = b.key
  BY <1>1, <1>2
<1> QED
  BY <1>3 DEF Clash, RecordKey

LEMMA SameRow ==
    ASSUME NEW b, NEW r, NEW row \in Rows, NEW other \in Rows, Puts(b, r, row), Puts(b, r, other),
           b.ttl = 0
    PROVE  row = other
<1>1. row.content = other.content
  BY DEF Puts
<1>2. row.meta = other.meta /\ row.expires = other.expires
  BY DEF Puts
<1> QED
  BY <1>1, <1>2, RowFacts

LEMMA RefusedPut ==
    ASSUME ContextsInv, NEW c \in DerivingFrames \cup IngestFrames \cup CaptureFrames, FrameOK(c),
           c.ref \in DOMAIN contexts, contexts[c.ref] # c.row
    PROVE  RefusedOK(c.args)
<1>1. Stores(c) /\ c.row \in Rows
  BY DEF FrameOK, DerivingFrames, IngestFrames, CaptureFrames, StoreFrames
<1>2. PICK b \in tried : Puts(b, c.ref, contexts[c.ref])
  BY DEF ContextsInv, TablesOK
<1>3. contexts[c.ref] \in Rows
  BY DEF ContextsInv, TablesOK
<1>4. Puts(c.args, c.ref, c.row)
  BY <1>1 DEF Stores
<1>5. Clash(c.args, b)
  BY <1>2, <1>4, SameKey
<1>6. c.args.op \in {"put", "ingest", "reduce"} \/ c.args.ttl = 0
  BY DEF DerivingFrames, IngestFrames, CaptureFrames, StoreFrames, DerivingArgs, PutArgs, NamedArgs,
         ReduceArgs, IngestArgs, CaptureArgs
<1>7. CASE c.args.ttl = 0
  <2>1. b # c.args
    BY <1>1, <1>2, <1>3, <1>4, <1>7, SameRow
  <2> QED BY <1>2, <1>5, <2>1 DEF RefusedOK
<1>8. CASE c.args.ttl # 0
  BY <1>6, <1>8 DEF RefusedOK
<1> QED
  BY <1>7, <1>8

-----------------------------------------------------------------------------
(* The steps of a call under way.                                          *)
LEMMA CallFacts ==
    ASSUME ContextsInv, NEW p \in Procs
    PROVE  call[p] \in AllFrames /\ FrameOK(call[p]) /\ ContextsTyped /\ TablesOK
  BY DEF ContextsInv, ContextsTyped, AllFrames

LEMMA GotoKeeps ==
    ASSUME ContextsInv, NEW p \in Procs, NEW f \in AllFrames, Goes(p, f), UNCHANGED contextVars,
           FrameOK(f)'
    PROVE  ContextsInv'
<1>1. /\ call' = [call EXCEPT ![p] = f] /\ UNCHANGED <<tried, contextVars>>
      /\ acked' = acked /\ refused' = refused
  BY DEF Goes
<1> QED
  BY <1>1, MoveKeeps

LEMMA PutReadKeeps ==
    ASSUME ContextsInv, NEW p \in Procs, PutRead(p)
    PROVE  ContextsInv'
<1>1. PICK c : c = call[p]
  OBVIOUS
<1>2. c \in AllFrames /\ FrameOK(c) /\ ContextsTyped /\ TablesOK
  BY <1>1, CallFacts
<1>3. c.at = "put" /\ UNCHANGED contextVars
  BY <1>1 DEF PutRead, At
<1>4. c \in DerivingFrames \cup IngestFrames \cup CaptureFrames
  BY <1>2, <1>3, FrameAt
<1>5. /\ UNCHANGED <<contexts, lineage, events, now, tornByReset>> /\ generated' = generated
  BY <1>3 DEF contextVars
<1>6. CASE c.ref \notin DOMAIN contexts
  <2> DEFINE f == [c EXCEPT !.at = "insert"]
  <2>1. Goes(p, f)
    BY <1>1, <1>6 DEF PutRead, Goto
  <2>2. /\ f.args = c.args /\ f.ref = c.ref /\ f.row = c.row /\ f.links = c.links
        /\ f.at = "insert"
        /\ c \in DerivingFrames => f \in DerivingFrames
        /\ c \in IngestFrames => f \in IngestFrames
        /\ c \in CaptureFrames => f \in CaptureFrames
    BY <1>4 DEF DerivingFrames, IngestFrames, CaptureFrames, StoreFrames
  <2> HIDE DEF f
  <2>3. f \in AllFrames /\ f \in ContextFrames
    BY <1>4, <2>2 DEF AllFrames, ContextFrames
  <2>4. /\ f \in DerivingFrames => c \in DerivingFrames
        /\ f \in IngestFrames => c \in IngestFrames
        /\ f \in CaptureFrames => c \in CaptureFrames
    BY <1>4, <2>2, FrameOp
  <2>5. f \notin GatherFrames /\ f \notin EventFrames /\ f \notin RunFrames
    BY <2>2, <2>3, FrameAt DEF GatherFrames, EventFrames
  <2>6. tried' = tried
    BY <2>1 DEF Goes
  <2>7. (Stores(c) => Stores(f)) /\ (DerivingKnows(c) => DerivingKnows(f))
        /\ (IngestKnows(c) => IngestKnows(f)) /\ CaptureKnows(f)
    BY <2>2 DEF Stores, DerivingKnows, IngestKnows, CaptureKnows
  <2>8. FrameOK(f)
    BY <1>2, <2>4, <2>5, <2>7 DEF FrameOK
  <2>9. Grow
    BY <1>5, <2>6 DEF Grow
  <2>10. FrameOK(f)'
    BY <2>8, <2>9, FrameKept
  <2> QED BY <1>3, <2>1, <2>3, <2>10, GotoKeeps
<1>7. CASE c.ref \in DOMAIN contexts /\ contexts[c.ref] = c.row
  <2>1. AfterPut(p)
    BY <1>1, <1>7 DEF PutRead
  <2>2. tried' = tried
    BY <2>1 DEF AfterPut, Goes, Goto, Ack
  <2>3. Grow
    BY <1>5, <2>2 DEF Grow
  <2>4. TablesOK'
    BY <1>5, <2>2, TablesKept DEF ContextsInv
  <2>5. now' \in Nat \ {0} /\ generated' \in [Procs -> Nat]
    BY <1>2, <1>5 DEF ContextsTyped
  <2>6. c.ref \in DOMAIN contexts' /\ contexts'[c.ref] = c.row
    BY <1>5, <1>7
  <2> QED BY <1>1, <1>3, <2>1, <2>3, <2>4, <2>5, <2>6, AfterPutKeeps
<1>8. CASE c.ref \in DOMAIN contexts /\ contexts[c.ref] # c.row
  <2>1. Refuse(p)
    BY <1>1, <1>8 DEF PutRead
  <2>2. RefusedOK(c.args)
    BY <1>2, <1>4, <1>8, RefusedPut
  <2> QED BY <1>1, <1>3, <2>1, <2>2, RefuseKeeps
<1> QED
  BY <1>6, <1>7, <1>8

LEMMA PutInsertKeeps ==
    ASSUME ContextsInv, NEW p \in Procs, PutInsert(p)
    PROVE  ContextsInv'
<1>1. PICK c : c = call[p]
  OBVIOUS
<1>2. c \in AllFrames /\ FrameOK(c) /\ ContextsTyped /\ TablesOK
  BY <1>1, CallFacts
<1>3. c.at = "insert" /\ UNCHANGED <<lineage, events, generated, now, tornByReset>>
  BY <1>1 DEF PutInsert, At
<1>4. c \in DerivingFrames \cup IngestFrames \cup CaptureFrames
  BY <1>2, <1>3, FrameAt
<1>5. CASE c.ref \in DOMAIN contexts
  <2>1. Fail(p) /\ UNCHANGED contextVars
    BY <1>1, <1>3, <1>5 DEF PutInsert, contextVars
  <2> QED BY <2>1, FailKeeps
<1>6. CASE c.ref \notin DOMAIN contexts
  <2>1. AfterPut(p) /\ contexts' = Stored(contexts, c.ref, c.row)
    BY <1>1, <1>6 DEF PutInsert
  <2>2. tried' = tried
    BY <2>1 DEF AfterPut, Goes, Goto, Ack
  <2>3. /\ DOMAIN contexts' = DOMAIN contexts \cup {c.ref}
        /\ contexts'[c.ref] = c.row
        /\ \A r \in DOMAIN contexts : contexts'[r] = contexts[r]
    BY <1>6, <2>1 DEF Stored
  <2>4. Grow
    BY <1>3, <2>2, <2>3 DEF Grow
  <2>5. Stores(c) /\ c.row \in Rows /\ c.ref \in AllRefs
    BY <1>2, <1>4 DEF FrameOK, DerivingFrames, IngestFrames, CaptureFrames, StoreFrames
  <2>6. TablesOK'
    <3>1. c.args \in tried /\ Puts(c.args, c.ref, c.row)
      BY <2>5 DEF Stores
    <3>2. ASSUME NEW r \in DOMAIN contexts'
          PROVE  contexts'[r] \in Rows /\ \E b \in tried' : Puts(b, r, contexts'[r])
      <4>1. CASE r \in DOMAIN contexts
        BY <1>2, <2>2, <2>3, <4>1 DEF TablesOK
      <4>2. CASE r = c.ref
        BY <2>2, <2>3, <2>5, <3>1, <4>2
      <4> QED BY <2>3, <4>1, <4>2
    <3> QED BY <1>2, <1>3, <2>2, <2>3, <2>5, <3>2 DEF TablesOK, Puts
  <2>8. now' \in Nat \ {0} /\ generated' \in [Procs -> Nat]
    BY <1>2, <1>3 DEF ContextsTyped
  <2> QED BY <1>1, <1>3, <2>1, <2>3, <2>4, <2>6, <2>8, AfterPutKeeps
<1> QED
  BY <1>5, <1>6

LEMMA TailFacts ==
    ASSUME NEW S, NEW s \in Seq(S), s # <<>>
    PROVE  Tail(s) \in Seq(S) /\ (Len(s) > 1 <=> Tail(s) # <<>>)
<1>1. Tail(s) \in Seq(S) /\ Len(Tail(s)) = Len(s) - 1 /\ Len(s) \in Nat /\ Len(s) # 0
  BY HeadTailProperties, LenProperties, EmptySeq
<1>2. PICK t \in Seq(S) : t = Tail(s)
  BY <1>1
<1>3. t = <<>> <=> Len(t) = 0
  BY <1>2, EmptySeq
<1> QED
  BY <1>1, <1>2, <1>3

(* One more link is stored.                                                *)
LEMMA LinkedNext ==
    ASSUME NEW refs, NEW ref, NEW links \in Links, links # <<>>, Linked(refs, ref, links), Grow,
           <<Head(links)[1], ref, Head(links)[2]>> \in lineage'
    PROVE  Linked(refs, ref, Tail(links))'
<1> DEFINE T == AllRefs \X {"derived", "derived_from", "reduced_from"}
<1> DEFINE N == Len(links)
<1>1. links \in Seq(T) /\ N \in Nat /\ DOMAIN links = 1..N
  BY LenProperties DEF Links
<1>2. /\ Head(links) = links[1]
      /\ Tail(links) \in Seq(T) /\ Len(Tail(links)) = N - 1
      /\ \A j \in 1..(N - 1) : Tail(links)[j] = links[j + 1]
  BY <1>1, HeadTailProperties
<1>3. DOMAIN Tail(links) = 1..(N - 1)
  BY <1>2, LenProperties
<1> DEFINE link == <<links[1][1], ref, links[1][2]>>
<1>4. link \in lineage' /\ link[1] = links[1][1] /\ link[2] = ref
  BY <1>2
<1> HIDE DEF N, link
<1>5. ASSUME NEW i \in DOMAIN refs
      PROVE  \/ \E j \in DOMAIN Tail(links) : Tail(links)[j][1] = refs[i]
             \/ \E l \in lineage' : l[1] = refs[i] /\ l[2] = ref
  <2>1. CASE \E l \in lineage : l[1] = refs[i] /\ l[2] = ref
    BY <2>1 DEF Grow
  <2>2. ASSUME NEW j \in DOMAIN links, links[j][1] = refs[i]
        PROVE  \/ \E h \in DOMAIN Tail(links) : Tail(links)[h][1] = refs[i]
               \/ \E l \in lineage' : l[1] = refs[i] /\ l[2] = ref
    <3>1. CASE j = 1
      BY <1>4, <2>2, <3>1
    <3>2. CASE j # 1
      <4>1. j - 1 \in 1..(N - 1) /\ (j - 1) + 1 = j
        BY <1>1, <3>2
      <4> QED BY <1>2, <1>3, <2>2, <4>1
    <3> QED BY <3>1, <3>2
  <2> QED BY <2>1, <2>2 DEF Linked
<1> QED
  BY <1>5 DEF Linked

LEMMA LinkKeeps ==
    ASSUME ContextsInv, NEW p \in Procs, Link(p)
    PROVE  ContextsInv'
<1>1. PICK c : c = call[p]
  OBVIOUS
<1>2. c \in AllFrames /\ FrameOK(c) /\ ContextsTyped /\ TablesOK
  BY <1>1, CallFacts
<1>3. c.at = "link" /\ UNCHANGED <<contexts, events, generated, now, tornByReset>>
  BY <1>1 DEF Link, At
<1>4. c \in DerivingFrames /\ c.links \in Links /\ c.ref \in AllRefs
  BY <1>2, <1>3, FrameAt DEF DerivingFrames, StoreFrames
<1>5. c.args.op \in {"put", "named", "reduce"}
  BY <1>4, FrameOp
<1> DEFINE parent == Head(c.links)[1]
<1>6. CASE ~({parent, c.ref} \subseteq DOMAIN contexts)
  <2>1. Fail(p) /\ UNCHANGED contextVars
    BY <1>1, <1>3, <1>6 DEF Link, contextVars
  <2> QED BY <2>1, FailKeeps
<1>7. CASE {parent, c.ref} \subseteq DOMAIN contexts
  <2>1. /\ lineage' = lineage \cup {<<parent, c.ref, Head(c.links)[2]>>}
        /\ IF Len(c.links) > 1 THEN Goes(p, [c EXCEPT !.links = Tail(@)]) ELSE Ack(p, c.ref)
    BY <1>1, <1>7 DEF Link
  <2>2. tried' = tried
    BY <2>1 DEF Goes, Ack
  <2>3. Grow
    BY <1>3, <2>1, <2>2 DEF Grow
  <2>4. TablesOK'
    BY <1>3, <2>2, TablesKept DEF ContextsInv
  <2>5. now' \in Nat \ {0} /\ generated' \in [Procs -> Nat]
    BY <1>2, <1>3 DEF ContextsTyped
  <2>6. Stores(c) /\ c.links # <<>> /\ (~tornByReset => DerivingKnows(c))
    BY <1>2, <1>3, <1>4 DEF FrameOK, Stores
  <2>7. Stores(c)'
    BY <2>2, <2>6 DEF Stores
  <2>8. ~tornByReset' => DerivingKnows(c)' /\ Linked(c.args.parents, c.ref, Tail(c.links))'
    <3>1. FrameOK(c)'
      BY <1>2, <2>3, FrameKept
    <3>2. ~tornByReset => Linked(c.args.parents, c.ref, c.links)
      BY <2>6 DEF DerivingKnows
    <3>3. <<Head(c.links)[1], c.ref, Head(c.links)[2]>> \in lineage'
      BY <2>1
    <3>4. ~tornByReset => Linked(c.args.parents, c.ref, Tail(c.links))'
      BY <1>4, <2>3, <2>6, <3>2, <3>3, LinkedNext
    <3> QED BY <1>3, <1>4, <3>1, <3>4 DEF FrameOK
  <2>9. CASE Len(c.links) > 1
    <3> DEFINE f == [c EXCEPT !.links = Tail(@)]
    <3>1. Goes(p, f)
      BY <2>1, <2>9
    <3>2. Tail(c.links) \in Links /\ Tail(c.links) # <<>>
      BY <1>4, <2>6, <2>9, TailFacts DEF Links
    <3>3. /\ f \in DerivingFrames
          /\ f.args = c.args /\ f.ref = c.ref /\ f.row = c.row /\ f.links = Tail(c.links)
          /\ f.at = "link"
      BY <1>3, <1>4, <3>2 DEF DerivingFrames, StoreFrames
    <3> HIDE DEF f
    <3>4. f \in AllFrames
      BY <3>3 DEF AllFrames, ContextFrames
    <3>5. /\ f \notin IngestFrames /\ f \notin CaptureFrames
          /\ f \notin GatherFrames /\ f \notin EventFrames /\ f \notin RunFrames
      BY <1>5, <3>3, <3>4, FrameOp, FrameAt DEF GatherFrames, ContextFrames
    <3>6. Stores(f)'
      BY <1>5, <2>7, <3>2, <3>3 DEF Stores
    <3>7. ~tornByReset' => DerivingKnows(f)'
      BY <1>3, <2>8, <3>3 DEF DerivingKnows
    <3>8. FrameOK(f)'
      BY <3>5, <3>6, <3>7 DEF FrameOK
    <3>9. call' = [call EXCEPT ![p] = f] /\ acked' = acked /\ refused' = refused
      BY <3>1 DEF Goes
    <3> QED BY <2>3, <2>4, <2>5, <3>4, <3>8, <3>9, StepKeeps
  <2>10. CASE ~(Len(c.links) > 1)
    <3> DEFINE a == [args |-> c.args, made |-> c.ref]
    <3>1. a.args = c.args /\ a.made = c.ref
      OBVIOUS
    <3>2. /\ call' = [call EXCEPT ![p] = Idle] /\ refused' = refused
          /\ acked' = acked \cup {a}
      BY <1>1, <2>1, <2>10 DEF Ack
    <3> HIDE DEF a
    <3>3. Tail(c.links) = <<>>
      BY <1>4, <2>6, <2>10, TailFacts DEF Links
    <3>4. ~tornByReset' => Linked(a.args.parents, a.made, <<>>)'
      BY <2>8, <3>1, <3>3
    <3>5. ~tornByReset' /\ a.args.op = "reduce" =>
            a.made \in DOMAIN contexts' /\ Joined(a.args.parents, contexts[a.made].content)'
      BY <1>3, <2>8, <3>1 DEF DerivingKnows
    <3>6. AckedOK(a)'
      BY <1>4, <1>5, <3>1, <3>4, <3>5, RefFacts DEF AckedOK
    <3>7. \A b \in acked' : b \in acked \/ AckedOK(b)'
      BY <3>2, <3>6
    <3> QED BY <2>3, <2>4, <2>5, <3>2, <3>7, IdleOK, StepKeeps
  <2> QED BY <2>9, <2>10
<1> QED
  BY <1>6, <1>7

(* A call at its event, whether it stored the context of the event or was  *)
(* told of it.                                                             *)
LEMMA EventFrameFacts ==
    ASSUME NEW c \in CaptureFrames \cup EventFrames, FrameOK(c)
    PROVE  /\ c.args.op \in {"capture", "event"} /\ c.args \in tried /\ c.ref \in AllRefs
           /\ c.ref = EventRef(c.args)
           /\ c.args.op = "event" <=> c \in EventFrames
           /\ c.args.op = "capture" <=> c \in CaptureFrames
           /\ c.args.op = "capture" => /\ Stores(c) /\ (~tornByReset => CaptureKnows(c))
                                       /\ c.row.content = <<c.args.text>>
<1>1. /\ c \in CaptureFrames => c.args.op = "capture"
      /\ c \in EventFrames => c.args.op = "event"
  BY FrameOp
<1>2. c.ref \in AllRefs
  BY DEF CaptureFrames, EventFrames, StoreFrames
<1>3. CASE c \in CaptureFrames
  <2>1. Stores(c) /\ (~tornByReset => CaptureKnows(c))
    BY <1>3 DEF FrameOK
  <2>2. c.ref[1] = "event" /\ c.ref[2] = c.args.key /\ c.row.content = <<c.args.text>>
    BY <1>1, <1>3, <2>1 DEF Stores, Puts
  <2>3. c.ref = <<"event", c.args.key>>
    BY <1>2, <2>2, RefFacts
  <2> QED BY <1>1, <1>2, <1>3, <2>1, <2>2, <2>3 DEF Stores, EventRef
<1>4. CASE c \in EventFrames
  BY <1>1, <1>2, <1>4 DEF FrameOK, EventRef
<1> QED
  BY <1>3, <1>4

LEMMA EventReadKeeps ==
    ASSUME ContextsInv, NEW p \in Procs, EventRead(p)
    PROVE  ContextsInv'
<1>1. PICK c : c = call[p]
  OBVIOUS
<1>2. c \in AllFrames /\ FrameOK(c) /\ ContextsTyped /\ TablesOK
  BY <1>1, CallFacts
<1>3. c.at = "event" /\ UNCHANGED contextVars
  BY <1>1 DEF EventRead, At
<1>4. c \in CaptureFrames \cup EventFrames
  BY <1>2, <1>3, FrameAt
<1>5. /\ c.args.op \in {"capture", "event"} /\ c.args \in tried /\ c.ref \in AllRefs
      /\ c.ref = EventRef(c.args)
      /\ c.args.op = "event" <=> c \in EventFrames
      /\ c.args.op = "capture" <=> c \in CaptureFrames
      /\ c.args.op = "capture" => /\ Stores(c) /\ (~tornByReset => CaptureKnows(c))
                                  /\ c.row.content = <<c.args.text>>
  BY <1>2, <1>4, EventFrameFacts
<1> DEFINE event == [ref |-> c.ref, text |-> c.args.text]
<1> DEFINE known == c.args.key \in DOMAIN events
<1>6. CASE Fail(p)
  BY <1>3, <1>6, FailKeeps
<1>7. CASE Goto(p, "event insert")
  <2> DEFINE f == [c EXCEPT !.at = "event insert"]
  <2>1. Goes(p, f)
    BY <1>1, <1>7 DEF Goto
  <2>2. tried' = tried /\ UNCHANGED <<contexts, lineage, events, tornByReset>>
    BY <1>3, <2>1 DEF Goes, contextVars
  <2>3. Grow
    BY <2>2 DEF Grow
  <2>4. CASE c \in CaptureFrames
    <3>1. /\ f.args = c.args /\ f.ref = c.ref /\ f.row = c.row /\ f.links = c.links
          /\ f.at = "event insert" /\ f \in CaptureFrames
      BY <2>4 DEF CaptureFrames, StoreFrames
    <3> HIDE DEF f
    <3>2. f \in AllFrames /\ f \in ContextFrames
      BY <3>1 DEF AllFrames, ContextFrames
    <3>3. /\ f \notin DerivingFrames /\ f \notin IngestFrames
          /\ f \notin GatherFrames /\ f \notin EventFrames /\ f \notin RunFrames
      BY <2>4, <1>5, <3>1, <3>2, FrameOp, FrameAt DEF GatherFrames
    <3>4. Stores(f) /\ (~tornByReset => CaptureKnows(f))
      BY <1>3, <1>5, <2>4, <3>1 DEF Stores, CaptureKnows
    <3>5. FrameOK(f)
      BY <3>3, <3>4 DEF FrameOK
    <3>6. FrameOK(f)'
      BY <2>3, <3>5, FrameKept
    <3> QED BY <1>3, <2>1, <3>2, <3>6, GotoKeeps
  <2>5. CASE c \in EventFrames
    <3>1. /\ f.args = c.args /\ f.ref = c.ref /\ f.at = "event insert" /\ f \in EventFrames
      BY <2>5 DEF EventFrames
    <3> HIDE DEF f
    <3>2. f \in AllFrames /\ f \in ContextFrames
      BY <3>1 DEF AllFrames, ContextFrames
    <3>3. f \notin DerivingFrames /\ f \notin IngestFrames /\ f \notin CaptureFrames /\ f \notin GatherFrames /\ f \notin RunFrames
      BY <2>5, <1>5, <3>1, <3>2, FrameOp, FrameAt
    <3>4. f.args \in tried /\ f.ref = f.args.ref
      BY <1>2, <1>5, <2>5, <3>1 DEF FrameOK
    <3>5. FrameOK(f)
      BY <3>3, <3>4 DEF FrameOK
    <3>6. FrameOK(f)'
      BY <2>3, <3>5, FrameKept
    <3> QED BY <1>3, <2>1, <3>2, <3>6, GotoKeeps
  <2> QED BY <1>4, <2>4, <2>5
<1>8. CASE Ack(p, c.ref) /\ Visible(c.ref) /\ known /\ events[c.args.key] = event
  <2> DEFINE a == [args |-> c.args, made |-> c.ref]
  <2>1. a.args = c.args /\ a.made = c.ref
    OBVIOUS
  <2>2. /\ call' = [call EXCEPT ![p] = Idle] /\ refused' = refused /\ tried' = tried
        /\ acked' = acked \cup {a}
    BY <1>1, <1>8 DEF Ack
  <2> HIDE DEF a
  <2>3. /\ UNCHANGED <<contexts, events, tornByReset>>
    BY <1>3 DEF contextVars
  <2>4. ~tornByReset' => EventStored(a)'
    <3>1. a.args.key \in DOMAIN events /\ events[a.args.key] = [ref |-> a.made, text |-> a.args.text]
      BY <1>8, <2>1
    <3>2. a.args.op = "capture" /\ ~tornByReset =>
            a.made \in DOMAIN contexts /\ contexts[a.made].content = <<a.args.text>>
      BY <1>3, <1>5, <2>1 DEF CaptureKnows
    <3> QED BY <2>3, <3>1, <3>2 DEF EventStored
  <2>5. AckedOK(a)'
    BY <1>5, <2>1, <2>4, RefFacts DEF AckedOK
  <2>6. \A b \in acked' : b \in acked \/ AckedOK(b)'
    BY <2>2, <2>5
  <2> QED BY <1>3, <2>2, <2>6, IdleOK, MoveKeeps
<1>9. CASE Refuse(p) /\ known /\ events[c.args.key] # event
  <2>1. PICK b \in tried : Captures(b, c.args.key, events[c.args.key])
    BY <1>2, <1>9 DEF TablesOK
  <2>2. b # c.args
    BY <1>5, <1>9, <2>1 DEF Captures
  <2>3. RecordKey(c.args) = RecordKey(b)
    BY <1>5, <2>1 DEF RecordKey, Captures
  <2>4. RefusedOK(c.args)
    BY <2>1, <2>2, <2>3 DEF RefusedOK, Clash
  <2> QED BY <1>1, <1>3, <1>9, <2>4, RefuseKeeps
<1>10. CASE Refuse(p) /\ ~known /\ c.ref \in EventRefs
  <2>1. PICK k \in DOMAIN events : events[k].ref = c.ref
    BY <1>10 DEF EventRefs
  <2>2. PICK b \in tried : Captures(b, k, events[k])
    BY <1>2, <2>1 DEF TablesOK
  <2>3. b # c.args
    BY <1>10, <2>1, <2>2 DEF Captures
  <2>4. EventRef(b) = EventRef(c.args) /\ b.op \in {"capture", "event"}
    BY <1>5, <2>1, <2>2 DEF Captures
  <2>5. RefusedOK(c.args)
    BY <1>5, <2>2, <2>3, <2>4 DEF RefusedOK, Clash
  <2> QED BY <1>1, <1>3, <1>10, <2>5, RefuseKeeps
<1>11. \/ Fail(p) \/ Goto(p, "event insert")
       \/ Ack(p, c.ref) /\ Visible(c.ref) /\ known /\ events[c.args.key] = event
       \/ Refuse(p) /\ known /\ events[c.args.key] # event
       \/ Refuse(p) /\ ~known /\ c.ref \in EventRefs
  BY <1>1 DEF EventRead
<1> QED
  BY <1>6, <1>7, <1>8, <1>9, <1>10, <1>11

LEMMA EventInsertKeeps ==
    ASSUME ContextsInv, NEW p \in Procs, EventInsert(p)
    PROVE  ContextsInv'
<1>1. PICK c : c = call[p]
  OBVIOUS
<1>2. c \in AllFrames /\ FrameOK(c) /\ ContextsTyped /\ TablesOK
  BY <1>1, CallFacts
<1>3. c.at = "event insert" /\ UNCHANGED <<contexts, lineage, generated, now, tornByReset>>
  BY <1>1 DEF EventInsert, At
<1>4. c \in CaptureFrames \cup EventFrames
  BY <1>2, <1>3, FrameAt
<1>5. /\ c.args.op \in {"capture", "event"} /\ c.args \in tried /\ c.ref \in AllRefs
      /\ c.ref = EventRef(c.args)
      /\ c.args.op = "capture" => /\ Stores(c) /\ (~tornByReset => CaptureKnows(c))
                                  /\ c.row.content = <<c.args.text>>
  BY <1>2, <1>4, EventFrameFacts
<1> DEFINE stale == \/ c.args.key \in DOMAIN events \/ c.ref \in EventRefs
                    \/ c.ref \notin DOMAIN contexts
<1>6. CASE stale
  <2>1. Fail(p) /\ UNCHANGED contextVars
    BY <1>1, <1>3, <1>6 DEF EventInsert, contextVars
  <2> QED BY <2>1, FailKeeps
<1>7. CASE ~stale
  <2> DEFINE a == [args |-> c.args, made |-> c.ref]
  <2> DEFINE event == [ref |-> c.ref, text |-> c.args.text]
  <2>1. Ack(p, c.ref) /\ events' = Stored(events, c.args.key, event)
    BY <1>1, <1>7 DEF EventInsert
  <2>2. a.args = c.args /\ a.made = c.ref
    OBVIOUS
  <2>3. /\ call' = [call EXCEPT ![p] = Idle] /\ refused' = refused /\ tried' = tried
        /\ acked' = acked \cup {a}
    BY <1>1, <2>1 DEF Ack
  <2> HIDE DEF a
  <2>4. /\ DOMAIN events' = DOMAIN events \cup {c.args.key}
        /\ events'[c.args.key] = event
        /\ \A k \in DOMAIN events : events'[k] = events[k]
    BY <1>7, <2>1 DEF Stored
  <2>5. AckedOK(a)'
    <3>1. a.args.key \in DOMAIN events' /\ events'[a.args.key] = [ref |-> a.made, text |-> a.args.text]
      BY <2>2, <2>4
    <3>2. a.args.op = "capture" /\ ~tornByReset =>
            a.made \in DOMAIN contexts /\ contexts[a.made].content = <<a.args.text>>
      BY <1>3, <1>5, <2>2 DEF CaptureKnows
    <3>3. ~tornByReset' => EventStored(a)'
      BY <1>3, <3>1, <3>2 DEF EventStored
    <3> QED BY <1>5, <2>2, <3>3, RefFacts DEF AckedOK
  <2>6. \A b \in acked' : b \in acked \/ AckedOK(b)'
    BY <2>3, <2>5
  <2>7. Grow
    BY <1>3, <2>3, <2>4 DEF Grow
  <2>8. TablesOK'
    <3>1. Captures(c.args, c.args.key, event)
      BY <1>5 DEF Captures
    <3>2. ASSUME NEW k \in DOMAIN events'
          PROVE  \E b \in tried : Captures(b, k, events'[k])
      BY <1>2, <1>5, <2>4, <3>1 DEF TablesOK
    <3>3. \A k \in DOMAIN events : events[k].ref # event.ref
      BY <1>7 DEF EventRefs
    <3>4. ASSUME NEW k \in DOMAIN events', NEW j \in DOMAIN events', events'[k].ref = events'[j].ref
          PROVE  k = j
      BY <1>2, <2>4, <3>3, <3>4 DEF TablesOK
    <3> QED BY <1>2, <1>3, <2>3, <3>2, <3>4 DEF TablesOK
  <2>9. now' \in Nat \ {0} /\ generated' \in [Procs -> Nat]
    BY <1>2, <1>3 DEF ContextsTyped
  <2> QED BY <2>3, <2>6, <2>7, <2>8, <2>9, IdleOK, StepKeeps
<1> QED
  BY <1>6, <1>7

LEMMA KillKeeps ==
    ASSUME ContextsInv, NEW p \in Procs, Kill(p)
    PROVE  ContextsInv'
<1>1. /\ call' = [call EXCEPT ![p] = Idle] /\ tried' = tried /\ acked' = acked /\ refused' = refused
      /\ generated' = [generated EXCEPT ![p] = 0]
      /\ UNCHANGED <<contexts, lineage, events, now, tornByReset>>
  BY DEF Kill, KillCall
<1>2. now' \in Nat \ {0} /\ generated' \in [Procs -> Nat]
  BY <1>1 DEF ContextsInv, ContextsTyped
<1>3. Grow
  BY <1>1 DEF Grow
<1>4. TablesOK'
  BY <1>1, TablesKept DEF ContextsInv
<1> QED
  BY <1>1, <1>2, <1>3, <1>4, IdleOK, StepKeeps

LEMMA StillKeeps ==
    ASSUME ContextsInv,
           UNCHANGED <<call, tried, acked, refused, contexts, lineage, events, generated, tornByReset>>,
           now' \in Nat \ {0}
    PROVE  ContextsInv'
<1>1. call' \in [Procs -> AllFrames] /\ generated' \in [Procs -> Nat]
  BY DEF ContextsInv, ContextsTyped, AllFrames
<1>2. Grow
  BY DEF Grow
<1>3. TablesOK'
  BY TablesKept DEF ContextsInv
<1> QED
  BY <1>1, <1>2, <1>3, TablesStep

(* A reset empties the tables: the calls it met know nothing any more, the *)
(* calls it did not meet are over and forgotten.                           *)
LEMMA ResetKeeps ==
    ASSUME ContextsInv, NEW p \in Procs, ResetContexts(p)
    PROVE  ContextsInv'
<1>1. /\ call[p] = Idle /\ contexts' = NoRows /\ lineage' = {} /\ events' = NoRows
      /\ tornByReset' = (tornByReset \/ \E q \in Procs : call[q] # Idle)
      /\ acked' = {a \in acked : a.made = <<>>}
      /\ UNCHANGED <<call, tried, refused, generated, now>>
  BY DEF ResetContexts
<1>2. DOMAIN contexts' = {} /\ DOMAIN events' = {}
  BY <1>1 DEF NoRows
<1>3. ContextsTyped'
  BY <1>1 DEF ContextsInv, ContextsTyped
<1>4. TablesOK'
  BY <1>2 DEF TablesOK
<1>5. ASSUME NEW q \in Procs
      PROVE  FrameOK(call[q])'
  <2>1. PICK c : c = call[q]
    OBVIOUS
  <2>2. FrameOK(c) /\ c \in AllFrames
    BY <2>1, CallFacts
  <2>3. CASE c = Idle
    BY <1>1, <2>1, <2>3, IdleOK
  <2>4. CASE c # Idle
    <3>1. tornByReset'
      BY <1>1, <2>1, <2>4
    <3>2. Stores(c) => Stores(c)'
      BY <1>1 DEF Stores
    <3>3. FrameOK(c)'
      BY <1>1, <2>2, <3>1, <3>2 DEF FrameOK
    <3> QED BY <1>1, <2>1, <3>3
  <2> QED BY <2>3, <2>4
<1>6. ASSUME NEW a \in acked'
      PROVE  AckedOK(a)'
  BY <1>1 DEF ContextsInv, AckedOK
<1>7. ASSUME NEW a \in refused'
      PROVE  RefusedOK(a)'
  BY <1>1 DEF ContextsInv, RefusedOK
<1> QED
  BY <1>3, <1>4, <1>5, <1>6, <1>7 DEF ContextsInv

-----------------------------------------------------------------------------
(* The contents of one more parent.                                        *)
LEMMA JoinedNext ==
    ASSUME NEW refs \in Seq(AllRefs), NEW n \in 0..(Len(refs) - 1), NEW content, TablesOK,
           Joined(SubSeq(refs, 1, n), content), refs[n + 1] \in DOMAIN contexts
    PROVE  Joined(SubSeq(refs, 1, n + 1), content \o contexts[refs[n + 1]].content)
<1> DEFINE front == SubSeq(refs, 1, n)
<1> DEFINE longer == SubSeq(refs, 1, n + 1)
<1> DEFINE r == refs[n + 1]
<1>1. /\ Len(refs) \in Nat /\ n \in Nat /\ n + 1 \in 1..Len(refs)
      /\ \A i \in 1..(n + 1) : refs[i] \in AllRefs
  <2>1. Len(refs) \in Nat
    BY LenProperties
  <2>2. \A i \in 1..Len(refs) : refs[i] \in AllRefs
    BY ElementOfSeq
  <2> QED BY <2>1, <2>2
<1>2. /\ front \in Seq(AllRefs) /\ Len(front) = n /\ \A i \in 1..n : front[i] = refs[i]
  <2>1. \A i \in 1..n : refs[i] \in AllRefs
    BY <1>1
  <2> QED BY <1>1, <2>1, SubSeqProperties
<1>3. /\ longer \in Seq(AllRefs) /\ Len(longer) = n + 1 /\ \A i \in 1..(n + 1) : longer[i] = refs[i]
  BY <1>1, SubSeqProperties
<1>4. DOMAIN front = 1..n /\ DOMAIN longer = 1..(n + 1)
  BY <1>2, <1>3, LenProperties
<1> HIDE DEF front, longer
<1>5. \A i \in 1..(n + 1) : longer[i] \in DOMAIN contexts /\ contexts[longer[i]].content \in Seq(Atoms)
  <2>1. \A i \in 1..n : refs[i] \in DOMAIN contexts
    BY <1>2, <1>4 DEF Joined, front
  <2>2. \A i \in 1..(n + 1) : i \in 1..n \/ i = n + 1
    BY <1>1
  <2>3. \A i \in 1..(n + 1) : longer[i] \in DOMAIN contexts
    BY <1>3, <2>1, <2>2
  <2> QED BY <2>3 DEF TablesOK, Rows
<1> DEFINE ss == [i \in 1..n |-> contexts[refs[i]].content]
<1>6. Contents(front) = ss /\ ss \in Seq(Seq(Atoms)) /\ Len(ss) = n
  <2>1. \A i \in 1..n : ss[i] \in Seq(Atoms)
    BY <1>1, <1>3, <1>5
  <2>2. ss \in [1..n -> Seq(Atoms)]
    BY <2>1
  <2>3. Contents(front) = ss
    BY <1>2, <1>4 DEF Contents
  <2>4. ss \in Seq(Seq(Atoms)) /\ Len(ss) = n
    <3>1. PICK t : t = ss
      OBVIOUS
    <3>2. t \in [1..n -> Seq(Atoms)]
      BY <2>2, <3>1
    <3>3. t \in Seq(Seq(Atoms))
      BY <1>1, <3>2
    <3>4. DOMAIN t = 1..Len(t) /\ Len(t) \in Nat
      BY <3>3, LenProperties
    <3>5. Len(t) = n
      BY <1>1, <3>2, <3>4
    <3> QED BY <3>1, <3>3, <3>5
  <2> QED BY <2>3, <2>4
<1>7. \A i \in 1..n : ss[i] = contexts[refs[i]].content
  OBVIOUS
<1> HIDE DEF ss
<1>8. Contents(longer) = Append(ss, contexts[r].content)
  <2> DEFINE t == Append(ss, contexts[r].content)
  <2>1. contexts[r].content \in Seq(Atoms)
    BY <1>1, <1>3, <1>5
  <2>2. /\ t \in Seq(Seq(Atoms)) /\ Len(t) = n + 1 /\ t[n + 1] = contexts[r].content
        /\ \A i \in 1..n : t[i] = ss[i]
    BY <1>6, <2>1, AppendProperties
  <2> HIDE DEF t
  <2>3. DOMAIN t = 1..(n + 1) /\ t = [i \in 1..(n + 1) |-> t[i]]
    BY <2>2, LenProperties
  <2>4. ASSUME NEW i \in 1..(n + 1)
        PROVE  t[i] = contexts[longer[i]].content
    <3>1. longer[i] = refs[i]
      BY <1>3
    <3>2. CASE i = n + 1
      BY <2>2, <3>1, <3>2
    <3>3. CASE i \in 1..n
      <4>1. t[i] = ss[i] /\ ss[i] = contexts[refs[i]].content
        BY <1>7, <2>2, <3>3
      <4> QED BY <3>1, <4>1
    <3> QED BY <1>1, <3>2, <3>3
  <2>5. Contents(longer) = [i \in 1..(n + 1) |-> contexts[longer[i]].content]
    BY <1>4 DEF Contents
  <2> QED BY <2>3, <2>4, <2>5 DEF t
<1>9. FlattenSeq(Contents(longer)) = content \o contexts[r].content
  <2>1. contexts[r].content \in Seq(Atoms)
    BY <1>1, <1>3, <1>5
  <2>2. FlattenSeq(ss) = content
    BY <1>6 DEF Joined, front
  <2> QED BY <1>6, <1>8, <2>1, <2>2, FlattenAppend
<1> QED
  BY <1>4, <1>5, <1>9 DEF Joined, longer

LEMMA GatherKeeps ==
    ASSUME ContextsInv, NEW p \in Procs, Gather(p)
    PROVE  ContextsInv'
<1>1. PICK c : c = call[p]
  OBVIOUS
<1>2. c \in AllFrames /\ FrameOK(c) /\ ContextsTyped /\ TablesOK
  BY <1>1, CallFacts
<1>3. c.at = "gather" /\ UNCHANGED contextVars
  BY <1>1 DEF Gather, At
<1>4. /\ c \in GatherFrames /\ c.args \in ReduceArgs /\ c.args.op = "reduce"
      /\ c.left \in Seq(AllRefs) /\ c.left # <<>> /\ c.content \in Seq(Atoms)
  BY <1>2, <1>3, FrameAt, FrameOp DEF GatherFrames
<1>5. c.args \in tried /\ (~tornByReset => GatherKnows(c))
  BY <1>2, <1>4 DEF FrameOK
<1>6. PICK parents \in Seq(AllRefs) : parents = c.args.parents
  BY <1>4 DEF ReduceArgs
<1>7. CASE ~Visible(Head(c.left))
  BY <1>1, <1>3, <1>7, FailKeeps DEF Gather
<1>8. CASE Visible(Head(c.left))
  <2>1. Head(c.left) \in DOMAIN contexts
    BY <1>8 DEF Visible
  <2>2. PICK content : content = c.content \o contexts[Head(c.left)].content
    OBVIOUS
  <2>3. content \in Seq(Atoms)
    <3>1. contexts[Head(c.left)].content \in Seq(Atoms)
      BY <1>2, <2>1 DEF TablesOK, Rows
    <3> QED BY <1>4, <2>2, <3>1, ConcatProperties
  <2>4. ~tornByReset =>
          \E n \in 0..(Len(parents) - 1) :
             /\ c.left = SubSeq(parents, n + 1, Len(parents))
             /\ Joined(SubSeq(parents, 1, n + 1), content)
             /\ Len(c.left) = Len(parents) - n
             /\ Tail(c.left) = SubSeq(parents, n + 2, Len(parents))
    <3>1. SUFFICES ASSUME ~tornByReset
                   PROVE  \E n \in 0..(Len(parents) - 1) :
             /\ c.left = SubSeq(parents, n + 1, Len(parents))
             /\ Joined(SubSeq(parents, 1, n + 1), content)
             /\ Len(c.left) = Len(parents) - n
             /\ Tail(c.left) = SubSeq(parents, n + 2, Len(parents))
      OBVIOUS
    <3>2. PICK n \in 0..Len(parents) :
             /\ c.left = SubSeq(parents, n + 1, Len(parents))
             /\ Joined(SubSeq(parents, 1, n), c.content)
      BY <1>5, <1>6, <3>1 DEF GatherKnows
    <3>3. Len(parents) \in Nat /\ \A i \in 1..Len(parents) : parents[i] \in AllRefs
      BY LenProperties, ElementOfSeq
    <3>4. n \in 0..(Len(parents) - 1)
      <4>1. n = Len(parents) => c.left = <<>>
        BY <3>2, <3>3, SubSeqEmpty
      <4> QED BY <1>4, <3>2, <3>3, <4>1
    <3>5. /\ Len(c.left) = Len(parents) - n
          /\ \A i \in 1..(Len(parents) - n) : c.left[i] = parents[n + i]
      <4>1. \A i \in (n + 1)..Len(parents) : parents[i] \in AllRefs
        BY <3>3
      <4>2. PICK m : m = n + 1
        OBVIOUS
      <4>3. /\ Len(SubSeq(parents, m, Len(parents))) = Len(parents) - m + 1
            /\ \A i \in 1..(Len(parents) - m + 1) :
                 SubSeq(parents, m, Len(parents))[i] = parents[m + i - 1]
        BY <3>3, <3>4, <4>1, <4>2, SubSeqProperties
      <4> QED BY <3>2, <3>3, <3>4, <4>2, <4>3
    <3>6. Head(c.left) = parents[n + 1]
      <4>1. Head(c.left) = c.left[1]
        BY <1>4, HeadTailProperties
      <4> QED BY <3>4, <3>5, <4>1
    <3>7. Joined(SubSeq(parents, 1, n + 1), content)
      BY <1>2, <2>1, <2>2, <3>2, <3>4, <3>6, JoinedNext
    <3>8. Tail(c.left) = SubSeq(parents, n + 2, Len(parents))
      <4> DEFINE t == Tail(c.left)
      <4> DEFINE u == SubSeq(parents, n + 2, Len(parents))
      <4>1. /\ t \in Seq(AllRefs) /\ Len(t) = Len(parents) - n - 1
            /\ \A i \in 1..Len(t) : t[i] = c.left[i + 1]
        BY <1>4, <3>5, HeadTailProperties
      <4>2. PICK m : m = n + 2
        OBVIOUS
      <4>3. \A i \in m..Len(parents) : parents[i] \in AllRefs
        BY <3>3, <3>4, <4>2
      <4>4. /\ u \in Seq(AllRefs) /\ Len(u) = IF m <= Len(parents) THEN Len(parents) - m + 1 ELSE 0
            /\ \A i \in 1..(Len(parents) - m + 1) : u[i] = parents[m + i - 1]
        BY <3>3, <3>4, <4>2, <4>3, SubSeqProperties
      <4> HIDE DEF t, u
      <4>5. Len(t) = Len(u) /\ Len(t) = Len(parents) - m + 1
        BY <3>3, <3>4, <4>1, <4>2, <4>4
      <4>6. ASSUME NEW i \in 1..Len(t)
            PROVE  t[i] = u[i]
        <5>1. i + 1 \in 1..(Len(parents) - n) /\ n + (i + 1) = m + i - 1
              /\ i \in 1..(Len(parents) - m + 1)
          BY <3>3, <3>4, <4>1, <4>2, <4>5
        <5> QED BY <3>5, <4>1, <4>4, <5>1
      <4>7. t = u
        BY <4>1, <4>4, <4>5, <4>6, SeqEqual
      <4> QED BY <4>7 DEF t, u
    <3> QED BY <3>2, <3>4, <3>5, <3>7, <3>8
  <2>5. CASE Len(c.left) > 1
    <3> DEFINE f == [c EXCEPT !.left = Tail(@), !.content = content]
    <3>1. Goes(p, f)
      BY <1>1, <1>8, <2>2, <2>5 DEF Gather
    <3>2. Tail(c.left) \in Seq(AllRefs) /\ Tail(c.left) # <<>>
      BY <1>4, <2>5, TailFacts
    <3>3. /\ f \in GatherFrames
          /\ f.args = c.args /\ f.left = Tail(c.left) /\ f.content = content /\ f.at = "gather"
      BY <1>4, <2>3, <3>2 DEF GatherFrames
    <3> HIDE DEF f
    <3>4. f \in AllFrames /\ f \in ContextFrames
      BY <3>3 DEF AllFrames, ContextFrames
    <3>5. /\ f \notin DerivingFrames /\ f \notin IngestFrames /\ f \notin CaptureFrames
          /\ f \notin EventFrames /\ f \notin RunFrames
      BY <3>3, <3>4, FrameAt DEF DerivingFrames, IngestFrames, CaptureFrames, EventFrames, StoreFrames
    <3>6. ~tornByReset => GatherKnows(f)
      <4>1. \A n \in 0..(Len(parents) - 1) :
              n + 1 \in 0..Len(parents) /\ (n + 1) + 1 = n + 2
        BY LenProperties
      <4> QED BY <1>6, <2>4, <3>3, <4>1 DEF GatherKnows
    <3>7. FrameOK(f)
      BY <1>5, <3>3, <3>5, <3>6 DEF FrameOK
    <3>8. Grow
      BY <1>3, <3>1 DEF Grow, Goes, contextVars
    <3>9. FrameOK(f)'
      BY <3>7, <3>8, FrameKept
    <3> QED BY <1>3, <3>1, <3>4, <3>9, GotoKeeps
  <2>6. CASE ~(Len(c.left) > 1)
    <3>1. PICK e \in Nat : e = Expiry(c.args.ttl) /\ (c.args.ttl = 0 => e = Never)
      BY <1>2, <1>4, ExpiryFacts DEF ReduceArgs
    <3> DEFINE ref == <<"reduced", content>>
    <3> DEFINE row == Row(content, "", e)
    <3> DEFINE links == Derived(parents, "reduced_from")
    <3> DEFINE f == Frame(c.args, ref, row, links)
    <3>2. Goes(p, f)
      BY <1>1, <1>6, <1>8, <2>2, <2>6, <3>1 DEF Gather
    <3>3. ref \in AllRefs /\ row \in Rows /\ row.content = content
      BY <2>3 DEF AllRefs, Rows, Row
    <3>4. Puts(c.args, ref, row)
      BY <1>4, <3>1 DEF Puts, Row, ReduceArgs
    <3>5. links \in Links /\ Linked(parents, ref, links)
      BY DerivedFacts
    <3> HIDE DEF ref, row, links
    <3>6. tried' = tried /\ UNCHANGED <<contexts, lineage, events, tornByReset>>
      BY <1>3, <3>2 DEF Goes, contextVars
    <3>7. Grow
      BY <3>6 DEF Grow
    <3>8. ~tornByReset => Joined(parents, content)
      <4>1. ASSUME NEW n \in 0..(Len(parents) - 1), Len(c.left) = Len(parents) - n
            PROVE  SubSeq(parents, 1, n + 1) = parents
        <5>1. n + 1 = Len(parents)
          BY <2>6, <4>1, LenProperties
        <5> QED BY <5>1, SubSeqFull
      <4> QED BY <2>4, <4>1
    <3>9. Linked(parents, ref, links)' /\ (~tornByReset' => Joined(parents, content)')
      BY <3>5, <3>6, <3>7, <3>8, LinkedKept, JoinedKept
    <3>10. c.args \in DerivingArgs /\ c.args \in tried'
      BY <1>4, <1>5, <3>6 DEF DerivingArgs
    <3>11. f \in AllFrames /\ FrameOK(f)'
      BY <1>6, <3>3, <3>4, <3>5, <3>9, <3>10, DerivingStarts
    <3> HIDE DEF f
    <3> QED BY <1>3, <3>2, <3>11, GotoKeeps
  <2> QED BY <2>5, <2>6
<1> QED
  BY <1>7, <1>8

-----------------------------------------------------------------------------
(* The calls on runs leave the contexts alone.                             *)
LEMMA RunFrameFacts ==
    ASSUME NEW f \in RunFrames
    PROVE  /\ f \in AllFrames /\ f # Idle
           /\ f.args.op \in {"begin", "bind", "end", "measure", "feedback"}
           /\ f.args \in tried => FrameOK(f)
           /\ f.args \in tried' => FrameOK(f)'
<1>1. f \in AllFrames
  BY DEF AllFrames
<1>2. f # Idle /\ f \notin ContextFrames
  BY <1>1, FrameAt
<1>3. f.args.op \in {"begin", "bind", "end", "measure", "feedback"}
  BY DEF RunFrames, BeginFrames, EndFrames, BindFrames, MeasureFrames, FeedbackFrames,
         BeginArgs, EndArgs, BindArgs, MeasureArgs, FeedbackArgs
<1> QED
  BY <1>1, <1>2, <1>3 DEF FrameOK, ContextFrames

LEMMA RunGotoKeeps ==
    ASSUME ContextsInv, NEW p \in Procs, NEW f \in RunFrames, f.args = call[p].args,
           call[p] \in RunFrames, Goes(p, f), UNCHANGED contextVars
    PROVE  ContextsInv'
<1>1. call[p].args \in tried
  BY DEF ContextsInv, FrameOK
<1>2. f.args \in tried'
  BY <1>1 DEF Goes
<1> QED
  BY <1>2, RunFrameFacts, GotoKeeps

LEMMA RunAckKeeps ==
    ASSUME ContextsInv, NEW p \in Procs, call[p] \in RunFrames, Ack(p, <<>>), UNCHANGED contextVars
    PROVE  ContextsInv'
<1>1. PICK c \in RunFrames : c = call[p]
  OBVIOUS
<1> DEFINE a == [args |-> c.args, made |-> <<>>]
<1>2. a.args = c.args
  OBVIOUS
<1>3. /\ call' = [call EXCEPT ![p] = Idle] /\ refused' = refused /\ tried' = tried
      /\ acked' = acked \cup {a}
  BY <1>1 DEF Ack
<1> HIDE DEF a
<1>4. AckedOK(a)'
  BY <1>2, RunFrameFacts DEF AckedOK
<1>5. \A b \in acked' : b \in acked \/ AckedOK(b)'
  BY <1>3, <1>4
<1> QED
  BY <1>3, <1>5, IdleOK, MoveKeeps

-----------------------------------------------------------------------------
(* The calls on contexts leave the runs alone.                             *)
LEMMA AloneStart ==
    ASSUME call \in [Procs -> AllFrames], Alone, NEW p \in Procs, NEW f, Start(p, f)
    PROVE  Alone'
<1>1. /\ call' = [call EXCEPT ![p] = f]
      /\ overlapped' = (overlapped \/ \E q \in Procs \ {p} : call[q] # Idle)
  BY DEF Start
<1>2. SUFFICES ASSUME ~overlapped', NEW q \in Procs, NEW r \in Procs,
                      call'[q] # Idle, call'[r] # Idle
               PROVE  q = r
  BY DEF Alone
<1>3. q = p /\ r = p
  BY <1>1, <1>2
<1> QED
  BY <1>3

LEMMA AloneKept ==
    ASSUME call \in [Procs -> AllFrames], Alone, NEW p \in Procs, NEW f,
           call' = [call EXCEPT ![p] = f], overlapped' = overlapped, call[p] # Idle \/ f = Idle
    PROVE  Alone'
  BY DEF Alone

LEMMA RunTablesKept ==
    ASSUME RunTablesOK, UNCHANGED runVars, tried \subseteq tried'
    PROVE  RunTablesOK'
  BY DEF RunTablesOK, runVars

LEMMA RunsQuiet ==
    ASSUME call \in [Procs -> AllFrames], RunsInv, UNCHANGED runVars, tried \subseteq tried',
           overlapped => overlapped', Alone',
           NEW p \in Procs, NEW f, call' = [call EXCEPT ![p] = f], RunKnows(f)',
           \A a \in acked' : a \in acked \/ EndedOK(a)'
    PROVE  RunsInv'
<1>1. RunTablesOK'
  BY RunTablesKept DEF RunsInv
<1>2. ASSUME NEW q \in Procs
      PROVE  RunKnows(call[q])'
  <2>1. CASE q = p
    BY <2>1
  <2>2. CASE q # p
    <3>1. PICK c : c = call[q]
      OBVIOUS
    <3>2. call'[q] = c
      BY <2>2, <3>1
    <3>3. RunKnows(c)
      BY <3>1 DEF RunsInv
    <3>4. RunKnows(c)'
      BY <3>3 DEF RunKnows, runVars
    <3> QED BY <3>2, <3>4
  <2> QED BY <2>1, <2>2
<1>3. ASSUME NEW a \in acked'
      PROVE  EndedOK(a)'
  BY DEF RunsInv, EndedOK, runVars
<1> QED
  BY <1>1, <1>2, <1>3 DEF RunsInv

(* A call on contexts starts; one goes on, returns or is refused.          *)
LEMMA QuietStart ==
    ASSUME call \in [Procs -> AllFrames], RunsInv, UNCHANGED runVars,
           NEW p \in Procs, NEW f, f.at \notin {"bind", "end update"}, Start(p, f)
    PROVE  RunsInv'
<1>1. /\ call' = [call EXCEPT ![p] = f] /\ tried \subseteq tried'
      /\ (overlapped => overlapped') /\ acked' = acked
  BY DEF Start
<1>2. Alone'
  BY AloneStart DEF RunsInv
<1>3. RunKnows(f)'
  BY DEF RunKnows
<1>4. \A a \in acked' : a \in acked \/ EndedOK(a)'
  BY <1>1
<1> QED
  BY <1>1, <1>2, <1>3, <1>4, RunsQuiet

Quiet(p) ==
    /\ call[p] # Idle
    /\ \E f : f.at \notin {"bind", "end update"} /\ call' = [call EXCEPT ![p] = f]
    /\ UNCHANGED <<tried, overlapped>>
    /\ \A a \in acked' : a \in acked \/ a.args.op # "end"

LEMMA QuietKeeps ==
    ASSUME call \in [Procs -> AllFrames], RunsInv, UNCHANGED runVars, NEW p \in Procs, Quiet(p)
    PROVE  RunsInv'
<1>1. PICK f : f.at \notin {"bind", "end update"} /\ call' = [call EXCEPT ![p] = f]
  BY DEF Quiet
<1>2. Alone'
  BY <1>1, AloneKept DEF RunsInv, Quiet
<1>3. RunKnows(f)'
  BY <1>1 DEF RunKnows
<1>4. \A a \in acked' : a \in acked \/ EndedOK(a)'
  BY DEF Quiet, EndedOK
<1>5. tried \subseteq tried' /\ (overlapped => overlapped')
  BY DEF Quiet
<1> QED
  BY <1>1, <1>2, <1>3, <1>4, <1>5, RunsQuiet

LEMMA QuietSteps ==
    ASSUME ContextsInv, NEW p \in Procs
    PROVE  /\ PutRead(p) => Quiet(p)
           /\ PutInsert(p) => Quiet(p)
           /\ Link(p) => Quiet(p)
           /\ EventRead(p) => Quiet(p)
           /\ EventInsert(p) => Quiet(p)
           /\ Gather(p) => Quiet(p)
<1>1. PICK c : c = call[p]
  OBVIOUS
<1>2. c \in AllFrames
  BY <1>1, CallFacts
<1>3. Idle.at = "idle"
  BY DEF Idle
<1>4. Fail(p) /\ c # Idle => Quiet(p)
  BY <1>1, <1>3 DEF Fail, Goes, Quiet
<1>5. Refuse(p) /\ c # Idle => Quiet(p)
  BY <1>1, <1>3 DEF Refuse, Quiet
<1>6. ASSUME NEW made, Ack(p, made), c # Idle, c.args.op # "end"
      PROVE  Quiet(p)
  <2>1. /\ call' = [call EXCEPT ![p] = Idle] /\ UNCHANGED <<tried, overlapped>>
        /\ acked' = acked \cup {[args |-> c.args, made |-> made]}
    BY <1>1, <1>6 DEF Ack
  <2>2. [args |-> c.args, made |-> made].args.op # "end"
    BY <1>6
  <2> QED BY <1>1, <1>3, <1>6, <2>1, <2>2 DEF Quiet
<1>7. ASSUME NEW f, Goes(p, f), c # Idle, f.at \notin {"bind", "end update"}
      PROVE  Quiet(p)
  BY <1>1, <1>7 DEF Goes, Quiet
<1>8. c.at \in {"put", "insert", "link", "event", "event insert", "gather"} => c # Idle
  BY <1>3
<1>9. ASSUME c.at \in {"put", "insert", "link", "event", "event insert"}
      PROVE  /\ c.args.op # "end"
             /\ \A at : Goto(p, at) => Goes(p, [c EXCEPT !.at = at]) /\ [c EXCEPT !.at = at].at = at
  <2>1. c \in DerivingFrames \cup IngestFrames \cup CaptureFrames \cup EventFrames
    BY <1>2, <1>9, FrameAt
  <2>2. c.args.op # "end"
    BY <2>1, FrameOp
  <2>3. \A at : [c EXCEPT !.at = at].at = at
    BY <2>1 DEF DerivingFrames, IngestFrames, CaptureFrames, EventFrames, StoreFrames
  <2> QED BY <1>1, <2>2, <2>3 DEF Goto
<1>10. ASSUME NEW at \in {"insert", "link", "event", "event insert"}, Goto(p, at),
              c.at \in {"put", "insert", "link", "event", "event insert"}
       PROVE  Quiet(p)
  <2>1. PICK f : f = [c EXCEPT !.at = at]
    OBVIOUS
  <2>2. Goes(p, f) /\ f.at = at
    BY <1>9, <1>10, <2>1
  <2> QED BY <1>7, <1>8, <1>10, <2>2
<1>11. ASSUME AfterPut(p), c.at \in {"put", "insert"}
       PROVE  Quiet(p)
  <2>1. CASE Goes(p, ChunkFrame(c.args, c.ref[3] + 1, c.row.expires))
    <3>1. ChunkFrame(c.args, c.ref[3] + 1, c.row.expires).at = "put"
      BY DEF ChunkFrame, Frame
    <3> QED BY <1>7, <1>8, <1>11, <2>1, <3>1
  <2>2. CASE Goto(p, "event") \/ Goto(p, "link")
    BY <1>10, <1>11, <2>2
  <2>3. CASE Ack(p, c.ref)
    BY <1>6, <1>8, <1>9, <1>11, <2>3
  <2> QED BY <1>1, <1>11, <2>1, <2>2, <2>3 DEF AfterPut
<1>12. PutRead(p) => Quiet(p)
  BY <1>1, <1>5, <1>8, <1>10, <1>11 DEF PutRead, At
<1>13. PutInsert(p) => Quiet(p)
  BY <1>1, <1>4, <1>8, <1>11 DEF PutInsert, At
<1>14. Link(p) => Quiet(p)
  <2>1. SUFFICES ASSUME Link(p) PROVE Quiet(p)
    OBVIOUS
  <2>2. c.at = "link"
    BY <1>1, <2>1 DEF Link, At
  <2>3. c \in DerivingFrames
    BY <1>2, <2>2, FrameAt
  <2>4. PICK f : f = [c EXCEPT !.links = Tail(@)]
    OBVIOUS
  <2>5. f.at = "link"
    BY <2>2, <2>3, <2>4 DEF DerivingFrames, StoreFrames
  <2>6. Goes(p, f) \/ Ack(p, c.ref) \/ Fail(p)
    BY <1>1, <2>1, <2>4 DEF Link
  <2> QED BY <1>4, <1>6, <1>7, <1>8, <1>9, <2>2, <2>5, <2>6
<1>15. EventRead(p) => Quiet(p)
  BY <1>1, <1>4, <1>5, <1>6, <1>8, <1>9, <1>10 DEF EventRead, At
<1>16. EventInsert(p) => Quiet(p)
  BY <1>1, <1>4, <1>6, <1>8, <1>9 DEF EventInsert, At
<1>17. Gather(p) => Quiet(p)
  <2>1. SUFFICES ASSUME Gather(p) PROVE Quiet(p)
    OBVIOUS
  <2>2. c.at = "gather"
    BY <1>1, <2>1 DEF Gather, At
  <2>3. c \in GatherFrames
    BY <1>2, <2>2, FrameAt
  <2>4. PICK content : content = c.content \o contexts[Head(c.left)].content
    OBVIOUS
  <2>5. PICK f : f = [c EXCEPT !.left = Tail(@), !.content = content]
    OBVIOUS
  <2>6. f.at = "gather"
    BY <2>2, <2>3, <2>5 DEF GatherFrames
  <2>7. PICK g : g = Frame(c.args, <<"reduced", content>>, Row(content, "", Expiry(c.args.ttl)),
                           Derived(c.args.parents, "reduced_from"))
    OBVIOUS
  <2>8. g.at = "put"
    BY <2>7 DEF Frame
  <2>9. Goes(p, f) \/ Goes(p, g) \/ Fail(p)
    BY <1>1, <2>1, <2>4, <2>5, <2>7 DEF Gather
  <2> QED BY <1>4, <1>7, <1>8, <2>2, <2>6, <2>8, <2>9
<1> QED
  BY <1>12, <1>13, <1>14, <1>15, <1>16, <1>17

-----------------------------------------------------------------------------
(* A call on runs writes and returns.                                      *)
LEMMA RunsStep ==
    ASSUME call \in [Procs -> AllFrames], RunsInv, NEW p \in Procs, call[p] # Idle,
           call' = [call EXCEPT ![p] = Idle], UNCHANGED <<tried, overlapped>>, RunTablesOK',
           DOMAIN runs \subseteq DOMAIN runs',
           ~overlapped => \A k \in DOMAIN runs : runs[k].state = "closed" =>
                             runs'[k].state = "closed" /\ runs'[k].summary = runs[k].summary,
           \A a \in acked' : a \in acked \/ EndedOK(a)'
    PROVE  RunsInv'
<1>1. Alone'
  BY AloneKept DEF RunsInv
<1>2. ASSUME NEW q \in Procs
      PROVE  RunKnows(call[q])'
  <2>1. Idle.at = "idle"
    BY DEF Idle
  <2>2. RunKnows(Idle)'
    BY <2>1 DEF RunKnows
  <2>3. CASE call'[q] = Idle
    BY <2>2, <2>3
  <2>4. CASE call'[q] # Idle
    <3>1. q # p /\ call'[q] = call[q] /\ call[q] # Idle
      BY <2>4
    <3>2. overlapped
      BY <3>1 DEF RunsInv, Alone
    <3>3. RunKnows(call[q])
      BY DEF RunsInv
    <3> QED BY <3>1, <3>2, <3>3 DEF RunKnows
  <2> QED BY <2>3, <2>4
<1>3. ASSUME NEW a \in acked'
      PROVE  EndedOK(a)'
  <2>1. CASE a \in acked
    <3>1. EndedOK(a)
      BY <2>1 DEF RunsInv
    <3> QED BY <3>1 DEF EndedOK
  <2> QED BY <2>1
<1> QED
  BY <1>1, <1>2, <1>3 DEF RunsInv

LEMMA RunCallFacts ==
    ASSUME RecordsInv, NEW p \in Procs, NEW c, c = call[p], c.at # "idle"
    PROVE  /\ c \in AllFrames /\ c # Idle /\ call \in [Procs -> AllFrames]
           /\ RunKnows(c) /\ RunTablesOK
           /\ c \in RunFrames => c.args \in tried
<1>1. c # Idle
  BY DEF Idle
<1>2. c \in AllFrames /\ FrameOK(c)
  BY CallFacts DEF RecordsInv
<1>3. call \in [Procs -> AllFrames]
  BY DEF RecordsInv, ContextsInv, ContextsTyped, AllFrames
<1>4. RunKnows(c) /\ RunTablesOK
  BY DEF RecordsInv, RunsInv
<1> QED
  BY <1>1, <1>2, <1>3, <1>4 DEF FrameOK

(* Beginning a call on runs.                                               *)
LEMMA RunStarts ==
    ASSUME RecordsInv, NEW p \in Procs, NEW f \in RunFrames, Start(p, f),
           UNCHANGED <<contextVars, runVars>>,
           f.at \notin {"bind", "end update"} \/ (f.at = "bind" /\ f.args.key \in DOMAIN runs)
    PROVE  RecordsInv'
<1>1. ContextsInv /\ RunsInv /\ call \in [Procs -> AllFrames]
  BY DEF RecordsInv, ContextsInv, ContextsTyped, AllFrames
<1>2. /\ UNCHANGED <<contexts, lineage, events, now, tornByReset>> /\ generated' \in [Procs -> Nat]
  BY <1>1 DEF contextVars, ContextsInv, ContextsTyped
<1>3. /\ f.args \in tried' /\ call' = [call EXCEPT ![p] = f] /\ tried \subseteq tried'
      /\ acked' = acked /\ (overlapped => overlapped')
  BY DEF Start
<1>4. ContextsInv'
  BY <1>1, <1>2, <1>3, RunFrameFacts, StartKeeps
<1>5. RunKnows(f)'
  BY DEF RunKnows, runVars
<1>6. Alone'
  BY <1>1, AloneStart DEF RunsInv
<1>7. \A a \in acked' : a \in acked \/ EndedOK(a)'
  BY <1>3
<1>8. RunsInv'
  BY <1>1, <1>3, <1>5, <1>6, <1>7, RunsQuiet
<1> QED
  BY <1>4, <1>8 DEF RecordsInv

LEMMA RunSteps ==
    ASSUME RecordsInv, NEW p \in Procs, NEW c \in RunFrames, c = call[p],
           UNCHANGED <<contextVars, runVars>>
    PROVE  /\ Fail(p) => RecordsInv'
           /\ Refuse(p) /\ RefusedOK(c.args) => RecordsInv'
           /\ Ack(p, <<>>) /\ EndedOK([args |-> c.args, made |-> <<>>]) => RecordsInv'
           /\ \A f \in RunFrames : f.args = c.args /\ Goes(p, f) /\ RunKnows(f) => RecordsInv'
<1>1. ContextsInv /\ RunsInv /\ call \in [Procs -> AllFrames] /\ c # Idle
  BY RunFrameFacts DEF RecordsInv, ContextsInv, ContextsTyped, AllFrames
<1>2. UNCHANGED contextVars /\ UNCHANGED runVars
  OBVIOUS
<1>3. RunKnows(Idle)'
  BY DEF RunKnows, Idle
<1>4. ASSUME NEW f, call' = [call EXCEPT ![p] = f], UNCHANGED <<tried, overlapped>>,
             RunKnows(f)', \A a \in acked' : a \in acked \/ EndedOK(a)'
      PROVE  RunsInv'
  <2>1. Alone'
    BY <1>1, <1>4, AloneKept DEF RunsInv
  <2> QED BY <1>1, <1>2, <1>4, <2>1, RunsQuiet
<1>5. ASSUME Fail(p) PROVE RecordsInv'
  <2>1. RunsInv'
    BY <1>3, <1>4, <1>5 DEF Fail, Goes
  <2> QED BY <1>1, <1>2, <1>5, <2>1, FailKeeps DEF RecordsInv
<1>6. ASSUME Refuse(p), RefusedOK(c.args) PROVE RecordsInv'
  <2>1. RunsInv'
    BY <1>3, <1>4, <1>6 DEF Refuse
  <2> QED BY <1>1, <1>2, <1>6, <2>1, RefuseKeeps DEF RecordsInv
<1>7. ASSUME Ack(p, <<>>), EndedOK([args |-> c.args, made |-> <<>>]) PROVE RecordsInv'
  <2>1. PICK a : a = [args |-> c.args, made |-> <<>>]
    OBVIOUS
  <2>2. /\ call' = [call EXCEPT ![p] = Idle] /\ acked' = acked \cup {a}
        /\ tried' = tried /\ overlapped' = overlapped
    BY <1>7, <2>1 DEF Ack
  <2>3. EndedOK(a)
    BY <1>7, <2>1
  <2>4. EndedOK(a)'
    BY <1>2, <2>2, <2>3 DEF EndedOK, runVars
  <2>5. \A b \in acked' : b \in acked \/ EndedOK(b)'
    BY <2>2, <2>4
  <2>6. RunsInv'
    BY <1>3, <1>4, <2>2, <2>5
  <2> QED BY <1>1, <1>2, <1>7, <2>6, RunAckKeeps DEF RecordsInv
<1>8. ASSUME NEW f \in RunFrames, f.args = c.args, Goes(p, f), RunKnows(f) PROVE RecordsInv'
  <2>1. /\ call' = [call EXCEPT ![p] = f] /\ acked' = acked
        /\ tried' = tried /\ overlapped' = overlapped
    BY <1>8 DEF Goes
  <2>2. RunKnows(f)'
    BY <1>2, <1>8, <2>1 DEF RunKnows, runVars
  <2>3. RunsInv'
    BY <1>4, <2>1, <2>2
  <2> QED BY <1>1, <1>2, <1>8, <2>3, RunGotoKeeps DEF RecordsInv
<1> QED
  BY <1>5, <1>6, <1>7, <1>8

LEMMA RunWrites ==
    ASSUME RecordsInv, NEW p \in Procs, NEW c \in RunFrames, c = call[p], UNCHANGED contextVars,
           Ack(p, <<>>), RunTablesOK', DOMAIN runs \subseteq DOMAIN runs',
           ~overlapped => \A k \in DOMAIN runs : runs[k].state = "closed" =>
                             runs'[k].state = "closed" /\ runs'[k].summary = runs[k].summary,
           EndedOK([args |-> c.args, made |-> <<>>])'
    PROVE  RecordsInv'
<1>1. ContextsInv /\ RunsInv /\ call \in [Procs -> AllFrames] /\ c # Idle
  BY RunFrameFacts DEF RecordsInv, ContextsInv, ContextsTyped, AllFrames
<1>2. PICK a : a = [args |-> c.args, made |-> <<>>]
  OBVIOUS
<1>3. /\ call' = [call EXCEPT ![p] = Idle] /\ acked' = acked \cup {a}
      /\ tried' = tried /\ overlapped' = overlapped
  BY <1>2 DEF Ack
<1>4. EndedOK(a)'
  BY <1>2
<1>5. \A b \in acked' : b \in acked \/ EndedOK(b)'
  BY <1>3, <1>4
<1>6. RunsInv'
  BY <1>1, <1>3, <1>5, RunsStep
<1> QED
  BY <1>1, <1>6, RunAckKeeps DEF RecordsInv

(* A summary is cut once.                                                  *)
LEMMA CutOnce == \A s : Truncated(s) \notin LongSummaries /\ Truncated(Truncated(s)) = Truncated(s)
  BY RunsAssumption DEF Truncated

(* The frames of a call on runs, by where it is.                           *)
LEMMA RunFrameAt ==
    ASSUME NEW c \in AllFrames
    PROVE  /\ c.at \in {"begin", "begin insert"} => c.args \in BeginArgs /\ c \in RunFrames
           /\ c.at \in {"end", "end update"} => c.args \in EndArgs /\ c \in RunFrames
           /\ c.at = "bind" => c.args \in BindArgs /\ c \in RunFrames
           /\ c.at \in {"measure", "measure insert"} => c.args \in MeasureArgs /\ c \in RunFrames
           /\ c.at \in {"feedback", "feedback insert"} => c.args \in FeedbackArgs /\ c \in RunFrames
  BY FrameAt DEF RunFrames, BeginFrames, EndFrames, BindFrames, MeasureFrames, FeedbackFrames

LEMMA BeginReadKeeps ==
    ASSUME RecordsInv, NEW p \in Procs, BeginRead(p), UNCHANGED contextVars
    PROVE  RecordsInv'
<1>1. PICK c : c = call[p]
  OBVIOUS
<1>2. c.at = "begin"
  BY <1>1 DEF BeginRead, At
<1>3. c \in AllFrames /\ RunTablesOK /\ (c \in RunFrames => c.args \in tried)
  BY <1>1, <1>2, RunCallFacts
<1>4. c.args \in BeginArgs /\ c \in BeginFrames /\ c \in RunFrames /\ c.args \in tried
  BY <1>2, <1>3, RunFrameAt, FrameAt
<1>5. CASE c.args.key \notin DOMAIN runs
  <2>1. PICK f : f = [c EXCEPT !.at = "begin insert"]
    OBVIOUS
  <2>2. f \in BeginFrames /\ f.args = c.args /\ f.at = "begin insert"
    BY <1>4, <2>1 DEF BeginFrames
  <2>3. Goes(p, f) /\ UNCHANGED runVars
    BY <1>1, <1>5, <2>1 DEF BeginRead, Goto
  <2> QED BY <1>1, <1>4, <2>2, <2>3, RunSteps DEF RunFrames, RunKnows
<1>6. CASE c.args.key \in DOMAIN runs /\ runs[c.args.key].issue = c.args.issue
  <2>1. EndedOK([args |-> c.args, made |-> <<>>])
    BY <1>4 DEF EndedOK, BeginArgs
  <2>2. Ack(p, <<>>) /\ UNCHANGED runVars
    BY <1>1, <1>6 DEF BeginRead
  <2> QED BY <1>1, <1>4, <2>1, <2>2, RunSteps
<1>7. CASE c.args.key \in DOMAIN runs /\ runs[c.args.key].issue # c.args.issue
  <2>1. PICK b \in tried : b.op \in {"begin", "bind"} /\ b.key = c.args.key
                           /\ b.issue = runs[c.args.key].issue
    BY <1>3, <1>7 DEF RunTablesOK
  <2>2. b # c.args /\ Clash(c.args, b)
    BY <1>4, <1>7, <2>1 DEF Clash, RecordKey, BeginArgs
  <2>3. RefusedOK(c.args)
    BY <2>1, <2>2 DEF RefusedOK
  <2>4. Refuse(p) /\ UNCHANGED runVars
    BY <1>1, <1>7 DEF BeginRead
  <2> QED BY <1>1, <1>4, <2>3, <2>4, RunSteps
<1> QED
  BY <1>5, <1>6, <1>7

LEMMA MeasureReadKeeps ==
    ASSUME RecordsInv, NEW p \in Procs, MeasureRead(p), UNCHANGED contextVars
    PROVE  RecordsInv'
<1>1. PICK c : c = call[p]
  OBVIOUS
<1>2. c.at = "measure"
  BY <1>1 DEF MeasureRead, At
<1>3. c \in AllFrames /\ RunTablesOK /\ (c \in RunFrames => c.args \in tried)
  BY <1>1, <1>2, RunCallFacts
<1>4. c.args \in MeasureArgs /\ c \in MeasureFrames /\ c \in RunFrames /\ c.args \in tried
  BY <1>2, <1>3, RunFrameAt, FrameAt
<1>5. CASE c.args.key \notin DOMAIN measurements
  <2>1. PICK f : f = [c EXCEPT !.at = "measure insert"]
    OBVIOUS
  <2>2. f \in MeasureFrames /\ f.args = c.args /\ f.at = "measure insert"
    BY <1>4, <2>1 DEF MeasureFrames
  <2>3. Goes(p, f) /\ UNCHANGED runVars
    BY <1>1, <1>5, <2>1 DEF MeasureRead, Goto
  <2> QED BY <1>1, <1>4, <2>2, <2>3, RunSteps DEF RunFrames, RunKnows
<1>6. CASE c.args.key \in DOMAIN measurements /\ measurements[c.args.key] = c.args.value
  <2>1. EndedOK([args |-> c.args, made |-> <<>>])
    BY <1>4 DEF EndedOK, MeasureArgs
  <2>2. Ack(p, <<>>) /\ UNCHANGED runVars
    BY <1>1, <1>6 DEF MeasureRead
  <2> QED BY <1>1, <1>4, <2>1, <2>2, RunSteps
<1>7. CASE c.args.key \in DOMAIN measurements /\ measurements[c.args.key] # c.args.value
  <2>1. PICK b \in tried : b.op = "measure" /\ b.key = c.args.key /\ b.value = measurements[c.args.key]
    BY <1>3, <1>7 DEF RunTablesOK
  <2>2. b # c.args /\ Clash(c.args, b)
    BY <1>4, <1>7, <2>1 DEF Clash, RecordKey, MeasureArgs
  <2>3. RefusedOK(c.args)
    BY <2>1, <2>2 DEF RefusedOK
  <2>4. Refuse(p) /\ UNCHANGED runVars
    BY <1>1, <1>7 DEF MeasureRead
  <2> QED BY <1>1, <1>4, <2>3, <2>4, RunSteps
<1> QED
  BY <1>5, <1>6, <1>7

LEMMA MeasureInsertKeeps ==
    ASSUME RecordsInv, NEW p \in Procs, MeasureInsert(p), UNCHANGED contextVars
    PROVE  RecordsInv'
<1>1. PICK c : c = call[p]
  OBVIOUS
<1>2. c.at = "measure insert"
  BY <1>1 DEF MeasureInsert, At
<1>3. c \in AllFrames /\ RunTablesOK /\ (c \in RunFrames => c.args \in tried)
  BY <1>1, <1>2, RunCallFacts
<1>4. c.args \in MeasureArgs /\ c \in RunFrames /\ c.args \in tried
  BY <1>2, <1>3, RunFrameAt
<1>5. CASE c.args.key \in DOMAIN measurements
  <2>1. Fail(p) /\ UNCHANGED runVars
    BY <1>1, <1>5 DEF MeasureInsert, runVars
  <2> QED BY <1>1, <1>4, <2>1, RunSteps
<1>6. CASE c.args.key \notin DOMAIN measurements
  <2>1. /\ Ack(p, <<>>) /\ measurements' = With(measurements, c.args.key, c.args.value)
        /\ UNCHANGED <<runs, feedback>>
    BY <1>1, <1>6 DEF MeasureInsert
  <2>2. tried' = tried
    BY <2>1 DEF Ack
  <2>3. RunTablesOK'
    BY <1>3, <1>4, <2>1, <2>2 DEF RunTablesOK, With, MeasureArgs
  <2>4. EndedOK([args |-> c.args, made |-> <<>>])'
    BY <1>4 DEF EndedOK, MeasureArgs
  <2> QED BY <1>1, <1>4, <2>1, <2>3, <2>4, RunWrites
<1> QED
  BY <1>5, <1>6


LEMMA FeedbackReadKeeps ==
    ASSUME RecordsInv, NEW p \in Procs, FeedbackRead(p), UNCHANGED contextVars
    PROVE  RecordsInv'
<1>1. PICK c : c = call[p]
  OBVIOUS
<1>2. c.at = "feedback"
  BY <1>1 DEF FeedbackRead, At
<1>3. c \in AllFrames /\ RunTablesOK /\ (c \in RunFrames => c.args \in tried)
  BY <1>1, <1>2, RunCallFacts
<1>4. c.args \in FeedbackArgs /\ c \in FeedbackFrames /\ c \in RunFrames /\ c.args \in tried
  BY <1>2, <1>3, RunFrameAt, FrameAt
<1>5. CASE c.args.key \notin DOMAIN feedback
  <2>1. PICK f : f = [c EXCEPT !.at = "feedback insert"]
    OBVIOUS
  <2>2. f \in FeedbackFrames /\ f.args = c.args /\ f.at = "feedback insert"
    BY <1>4, <2>1 DEF FeedbackFrames
  <2>3. Goes(p, f) /\ UNCHANGED runVars
    BY <1>1, <1>5, <2>1 DEF FeedbackRead, Goto
  <2> QED BY <1>1, <1>4, <2>2, <2>3, RunSteps DEF RunFrames, RunKnows
<1>6. CASE c.args.key \in DOMAIN feedback /\ feedback[c.args.key] = c.args.signal
  <2>1. EndedOK([args |-> c.args, made |-> <<>>])
    BY <1>4 DEF EndedOK, FeedbackArgs
  <2>2. Ack(p, <<>>) /\ UNCHANGED runVars
    BY <1>1, <1>6 DEF FeedbackRead
  <2> QED BY <1>1, <1>4, <2>1, <2>2, RunSteps
<1>7. CASE c.args.key \in DOMAIN feedback /\ feedback[c.args.key] # c.args.signal
  <2>1. PICK b \in tried : b.op = "feedback" /\ b.key = c.args.key /\ b.signal = feedback[c.args.key]
    BY <1>3, <1>7 DEF RunTablesOK
  <2>2. b # c.args /\ Clash(c.args, b)
    BY <1>4, <1>7, <2>1 DEF Clash, RecordKey, FeedbackArgs
  <2>3. RefusedOK(c.args)
    BY <2>1, <2>2 DEF RefusedOK
  <2>4. Refuse(p) /\ UNCHANGED runVars
    BY <1>1, <1>7 DEF FeedbackRead
  <2> QED BY <1>1, <1>4, <2>3, <2>4, RunSteps
<1> QED
  BY <1>5, <1>6, <1>7

LEMMA FeedbackInsertKeeps ==
    ASSUME RecordsInv, NEW p \in Procs, FeedbackInsert(p), UNCHANGED contextVars
    PROVE  RecordsInv'
<1>1. PICK c : c = call[p]
  OBVIOUS
<1>2. c.at = "feedback insert"
  BY <1>1 DEF FeedbackInsert, At
<1>3. c \in AllFrames /\ RunTablesOK /\ (c \in RunFrames => c.args \in tried)
  BY <1>1, <1>2, RunCallFacts
<1>4. c.args \in FeedbackArgs /\ c \in RunFrames /\ c.args \in tried
  BY <1>2, <1>3, RunFrameAt
<1>5. CASE c.args.key \in DOMAIN feedback
  <2>1. Fail(p) /\ UNCHANGED runVars
    BY <1>1, <1>5 DEF FeedbackInsert, runVars
  <2> QED BY <1>1, <1>4, <2>1, RunSteps
<1>6. CASE c.args.key \notin DOMAIN feedback
  <2>1. /\ Ack(p, <<>>) /\ feedback' = With(feedback, c.args.key, c.args.signal)
        /\ UNCHANGED <<runs, measurements>>
    BY <1>1, <1>6 DEF FeedbackInsert
  <2>2. tried' = tried
    BY <2>1 DEF Ack
  <2>3. RunTablesOK'
    BY <1>3, <1>4, <2>1, <2>2 DEF RunTablesOK, With, FeedbackArgs
  <2>4. EndedOK([args |-> c.args, made |-> <<>>])'
    BY <1>4 DEF EndedOK, FeedbackArgs
  <2> QED BY <1>1, <1>4, <2>1, <2>3, <2>4, RunWrites
<1> QED
  BY <1>5, <1>6


LEMMA BeginInsertKeeps ==
    ASSUME RecordsInv, NEW p \in Procs, BeginInsert(p), UNCHANGED contextVars
    PROVE  RecordsInv'
<1>1. PICK c : c = call[p]
  OBVIOUS
<1>2. c.at = "begin insert"
  BY <1>1 DEF BeginInsert, At
<1>3. c \in AllFrames /\ RunTablesOK /\ (c \in RunFrames => c.args \in tried)
  BY <1>1, <1>2, RunCallFacts
<1>4. c.args \in BeginArgs /\ c \in RunFrames /\ c.args \in tried
  BY <1>2, <1>3, RunFrameAt
<1>5. CASE c.args.key \in DOMAIN runs
  <2>1. Fail(p) /\ UNCHANGED runVars
    BY <1>1, <1>5 DEF BeginInsert, runVars
  <2> QED BY <1>1, <1>4, <2>1, RunSteps
<1>6. CASE c.args.key \notin DOMAIN runs
  <2> DEFINE row == [issue |-> c.args.issue, state |-> "open", summary |-> ""]
  <2>1. /\ Ack(p, <<>>) /\ runs' = With(runs, c.args.key, row)
        /\ UNCHANGED <<measurements, feedback>>
    BY <1>1, <1>6 DEF BeginInsert
  <2>2. row \in RunRows /\ row.state # "closed" /\ row.issue = c.args.issue
    BY <1>4 DEF RunRows, BeginArgs
  <2> HIDE DEF row
  <2>3. tried' = tried
    BY <2>1 DEF Ack
  <2>4. \A k \in DOMAIN runs' : IF k = c.args.key THEN runs'[k] = row
                                ELSE k \in DOMAIN runs /\ runs'[k] = runs[k]
    BY <2>1 DEF With
  <2>5. c.args.op = "begin"
    BY <1>4 DEF BeginArgs
  <2>6. RunTablesOK'
    BY <1>3, <1>4, <2>1, <2>2, <2>3, <2>4, <2>5 DEF RunTablesOK
  <2>7. EndedOK([args |-> c.args, made |-> <<>>])'
    BY <2>5 DEF EndedOK
  <2>8. \A k \in DOMAIN runs : k \in DOMAIN runs' /\ runs'[k] = runs[k]
    BY <1>6, <2>1 DEF With
  <2> QED BY <1>1, <1>4, <2>1, <2>6, <2>7, <2>8, RunWrites
<1> QED
  BY <1>5, <1>6

LEMMA LinkUpdateKeeps ==
    ASSUME RecordsInv, NEW p \in Procs, LinkUpdate(p), UNCHANGED contextVars
    PROVE  RecordsInv'
<1>1. PICK c : c = call[p]
  OBVIOUS
<1>2. c.at = "bind"
  BY <1>1 DEF LinkUpdate, At
<1>3. c \in AllFrames /\ RunTablesOK /\ RunKnows(c) /\ (c \in RunFrames => c.args \in tried)
  BY <1>1, <1>2, RunCallFacts
<1>4. c.args \in BindArgs /\ c \in RunFrames /\ c.args \in tried /\ c.args.key \in DOMAIN runs
  BY <1>2, <1>3, RunFrameAt DEF RunKnows
<1>5. PICK row : row = runs[c.args.key]
  OBVIOUS
<1>6. PICK bound : bound = [row EXCEPT !.issue = c.args.issue]
  OBVIOUS
<1>7. /\ Ack(p, <<>>) /\ runs' = [runs EXCEPT ![c.args.key] = bound]
      /\ UNCHANGED <<measurements, feedback>>
  BY <1>1, <1>5, <1>6 DEF LinkUpdate
<1>8. row \in RunRows
  BY <1>3, <1>4, <1>5 DEF RunTablesOK
<1>9. c.args.op = "bind" /\ c.args.issue \in Refs
  BY <1>4 DEF BindArgs
<1>10. bound \in RunRows /\ bound.issue = c.args.issue /\ bound.state = row.state
       /\ bound.summary = row.summary
  BY <1>6, <1>8, <1>9 DEF RunRows
<1>11. /\ tried' = tried /\ DOMAIN runs' = DOMAIN runs
       /\ \A k \in DOMAIN runs : runs'[k] = IF k = c.args.key THEN bound ELSE runs[k]
  BY <1>7 DEF Ack
<1>12. RunTablesOK'
  BY <1>3, <1>4, <1>5, <1>7, <1>9, <1>10, <1>11 DEF RunTablesOK
<1>13. EndedOK([args |-> c.args, made |-> <<>>])'
  BY <1>9 DEF EndedOK
<1>14. \A k \in DOMAIN runs : runs'[k].state = runs[k].state /\ runs'[k].summary = runs[k].summary
  BY <1>5, <1>10, <1>11
<1> QED
  BY <1>1, <1>4, <1>7, <1>11, <1>12, <1>13, <1>14, RunWrites

LEMMA EndUpdateKeeps ==
    ASSUME RecordsInv, NEW p \in Procs, EndUpdate(p), UNCHANGED contextVars
    PROVE  RecordsInv'
<1>1. PICK c : c = call[p]
  OBVIOUS
<1>2. c.at = "end update"
  BY <1>1 DEF EndUpdate, At
<1>3. c \in AllFrames /\ RunTablesOK /\ RunKnows(c) /\ (c \in RunFrames => c.args \in tried)
  BY <1>1, <1>2, RunCallFacts
<1>4. /\ c.args \in EndArgs /\ c \in RunFrames /\ c.args \in tried /\ c.args.key \in DOMAIN runs
      /\ ~overlapped => runs[c.args.key].state = "open"
  BY <1>2, <1>3, RunFrameAt DEF RunKnows
<1>5. PICK row : row = runs[c.args.key]
  OBVIOUS
<1>6. PICK kept : kept = Truncated(c.args.summary)
  OBVIOUS
<1>7. PICK closed : closed = [row EXCEPT !.state = "closed", !.summary = kept]
  OBVIOUS
<1>8. /\ Ack(p, <<>>) /\ runs' = [runs EXCEPT ![c.args.key] = closed]
      /\ UNCHANGED <<measurements, feedback>>
  BY <1>1, <1>5, <1>6, <1>7 DEF EndUpdate
<1>9. row \in RunRows
  BY <1>3, <1>4, <1>5 DEF RunTablesOK
<1>10. c.args.op = "end" /\ c.args.summary \in Summaries
  BY <1>4 DEF EndArgs
<1>11. kept \in Summaries \cup {""} \cup {<<"cut", s>> : s \in LongSummaries}
  BY <1>6, <1>10 DEF Truncated
<1>12. closed \in RunRows /\ closed.issue = row.issue /\ closed.state = "closed"
       /\ closed.summary = kept
  BY <1>7, <1>9, <1>11 DEF RunRows
<1>13. /\ tried' = tried /\ overlapped' = overlapped /\ DOMAIN runs' = DOMAIN runs
       /\ \A k \in DOMAIN runs : runs'[k] = IF k = c.args.key THEN closed ELSE runs[k]
  BY <1>8 DEF Ack
<1>14. RunTablesOK'
  BY <1>3, <1>4, <1>5, <1>6, <1>8, <1>10, <1>12, <1>13 DEF RunTablesOK
<1>15. EndedOK([args |-> c.args, made |-> <<>>])'
  BY <1>4, <1>6, <1>12, <1>13 DEF EndedOK
<1>16. ~overlapped => \A k \in DOMAIN runs : runs[k].state = "closed" =>
                        runs'[k].state = "closed" /\ runs'[k].summary = runs[k].summary
  BY <1>4, <1>13
<1> QED
  BY <1>1, <1>4, <1>8, <1>13, <1>14, <1>15, <1>16, RunWrites

LEMMA EndReadKeeps ==
    ASSUME RecordsInv, NEW p \in Procs, EndRead(p), UNCHANGED contextVars
    PROVE  RecordsInv'
<1>1. PICK c : c = call[p]
  OBVIOUS
<1>2. c.at = "end"
  BY <1>1 DEF EndRead, At
<1>3. c \in AllFrames /\ RunTablesOK /\ (c \in RunFrames => c.args \in tried)
  BY <1>1, <1>2, RunCallFacts
<1>4. c.args \in EndArgs /\ c \in EndFrames /\ c \in RunFrames /\ c.args \in tried
  BY <1>2, <1>3, RunFrameAt, FrameAt
<1>5. UNCHANGED runVars
  BY DEF EndRead
<1>6. CASE c.args.key \notin DOMAIN runs
  <2>1. Fail(p)
    BY <1>1, <1>6 DEF EndRead
  <2> QED BY <1>1, <1>4, <1>5, <2>1, RunSteps
<1>7. PICK row : row = runs[c.args.key]
  OBVIOUS
<1>8. CASE c.args.key \in DOMAIN runs /\ row.state = "open"
  <2>1. PICK f : f = [c EXCEPT !.at = "end update"]
    OBVIOUS
  <2>2. f \in EndFrames /\ f.args = c.args /\ f.at = "end update"
    BY <1>4, <2>1 DEF EndFrames
  <2>3. Goes(p, f)
    BY <1>1, <1>7, <1>8, <2>1 DEF EndRead, Goto
  <2>4. RunKnows(f) /\ f \in RunFrames
    BY <1>7, <1>8, <2>2 DEF RunKnows, RunFrames
  <2> QED BY <1>1, <1>4, <1>5, <2>2, <2>3, <2>4, RunSteps
<1>9. ASSUME c.args.key \in DOMAIN runs, row.state # "open"
      PROVE  /\ row.state = "closed"
             /\ \E b \in tried : b.op = "end" /\ b.key = c.args.key
                                 /\ row.summary = Truncated(b.summary)
  <2>1. row \in RunRows
    BY <1>3, <1>7, <1>9 DEF RunTablesOK
  <2>2. row.state = "closed"
    BY <1>9, <2>1 DEF RunRows
  <2> QED BY <1>3, <1>7, <1>9, <2>2 DEF RunTablesOK
<1>10. CASE c.args.key \in DOMAIN runs /\ row.state # "open" /\ c.args.summary \in {"", row.summary}
  <2>1. row.summary = Truncated(c.args.summary) \/ c.args.summary = ""
    BY <1>9, <1>10, CutOnce
  <2>2. EndedOK([args |-> c.args, made |-> <<>>])
    BY <1>7, <1>9, <1>10, <2>1 DEF EndedOK
  <2>3. Ack(p, <<>>)
    BY <1>1, <1>7, <1>10 DEF EndRead
  <2> QED BY <1>1, <1>4, <1>5, <2>2, <2>3, RunSteps
<1>11. CASE c.args.key \in DOMAIN runs /\ row.state # "open" /\ c.args.summary \notin {"", row.summary}
  <2>1. PICK b \in tried : b.op = "end" /\ b.key = c.args.key /\ row.summary = Truncated(b.summary)
    BY <1>9, <1>11
  <2>2. c.args.op = "end"
    BY <1>4 DEF EndArgs
  <2>3. c.args.summary \in LongSummaries \/ b # c.args
    BY <1>11, <2>1 DEF Truncated
  <2>4. Clash(c.args, b)
    BY <2>1, <2>2 DEF Clash, RecordKey
  <2>5. RefusedOK(c.args)
    BY <2>1, <2>2, <2>3, <2>4 DEF RefusedOK
  <2>6. Refuse(p)
    BY <1>1, <1>7, <1>11 DEF EndRead
  <2> QED BY <1>1, <1>4, <1>5, <2>5, <2>6, RunSteps
<1> QED
  BY <1>6, <1>8, <1>10, <1>11

-----------------------------------------------------------------------------
(* A reset leaves the runs alone and forgets what contexts were made.      *)
LEMMA ResetQuiet ==
    ASSUME RunsInv, NEW p \in Procs, ResetContexts(p), UNCHANGED runVars
    PROVE  RunsInv'
<1>1. UNCHANGED <<call, tried, overlapped>> /\ acked' \subseteq acked
  BY DEF ResetContexts
<1>2. RunTablesOK'
  BY <1>1, RunTablesKept DEF RunsInv
<1>3. Alone' /\ \A q \in Procs : RunKnows(call[q])'
  BY <1>1 DEF RunsInv, Alone, RunKnows, runVars
<1>4. \A a \in acked' : EndedOK(a)'
  BY <1>1 DEF RunsInv, EndedOK, runVars
<1> QED
  BY <1>2, <1>3, <1>4 DEF RunsInv

LEMMA StillQuiet ==
    ASSUME RunsInv, UNCHANGED <<callVars, runVars>>
    PROVE  RunsInv'
<1>1. UNCHANGED <<call, tried, overlapped, acked>> /\ UNCHANGED runVars
  BY DEF callVars
<1>2. RunTablesOK'
  BY <1>1, RunTablesKept DEF RunsInv
<1>3. Alone' /\ \A q \in Procs : RunKnows(call[q])'
  BY <1>1 DEF RunsInv, Alone, RunKnows, runVars
<1>4. \A a \in acked' : EndedOK(a)'
  BY <1>1 DEF RunsInv, EndedOK, runVars
<1> QED
  BY <1>2, <1>3, <1>4 DEF RunsInv

LEMMA KillQuiet ==
    ASSUME ContextsInv, RunsInv, NEW p \in Procs, Kill(p), UNCHANGED runVars
    PROVE  RunsInv'
<1>1. call \in [Procs -> AllFrames]
  BY DEF ContextsInv, ContextsTyped, AllFrames
<1>2. /\ call' = [call EXCEPT ![p] = Idle] /\ UNCHANGED <<tried, acked, overlapped>>
  BY DEF Kill, KillCall
<1>3. Alone'
  BY <1>1, <1>2, AloneKept DEF RunsInv
<1>4. RunKnows(Idle)'
  BY DEF RunKnows, Idle
<1> QED
  BY <1>1, <1>2, <1>3, <1>4, RunsQuiet

-----------------------------------------------------------------------------
LEMMA RecordsInitially == Init => RecordsInv
<1>1. SUFFICES ASSUME Init PROVE RecordsInv
  OBVIOUS
<1>2. /\ call = [p \in Procs |-> Idle] /\ tried = {} /\ acked = {} /\ refused = {}
      /\ overlapped = FALSE
      /\ contexts = NoRows /\ events = NoRows /\ generated = [p \in Procs |-> 0] /\ now = 1
      /\ runs = NoneYet /\ measurements = NoneYet /\ feedback = NoneYet
  BY <1>1 DEF Init, CallsInit, ContextsInit, RunsInit
<1>3. /\ DOMAIN contexts = {} /\ DOMAIN events = {} /\ DOMAIN runs = {}
      /\ DOMAIN measurements = {} /\ DOMAIN feedback = {}
  BY <1>2 DEF NoRows, NoneYet
<1>4. \A p \in Procs : call[p] = Idle
  BY <1>2
<1>5. ContextsTyped
  BY <1>2 DEF ContextsTyped
<1>6. TablesOK
  BY <1>3 DEF TablesOK
<1>7. ContextsInv
  BY <1>2, <1>4, <1>5, <1>6, IdleOK DEF ContextsInv
<1>8. RunTablesOK
  BY <1>3 DEF RunTablesOK
<1>9. RunKnows(Idle)
  BY DEF RunKnows, Idle
<1>10. RunsInv
  BY <1>2, <1>4, <1>8, <1>9 DEF RunsInv, Alone
<1> QED
  BY <1>7, <1>10 DEF RecordsInv

LEMMA RunsActionKeeps ==
    ASSUME RecordsInv, RunsNext, UNCHANGED contextVars
    PROVE  RecordsInv'
<1>1. ASSUME NEW p \in Procs, NEW id \in RunIds, NEW issue \in Refs, RunBegin(p, id, issue)
      PROVE  RecordsInv'
  <2>1. PICK f : f = [args |-> [op |-> "begin", key |-> id, issue |-> issue], at |-> "begin"]
    OBVIOUS
  <2>2. f \in RunFrames /\ f.at = "begin"
    BY <2>1 DEF RunFrames, BeginFrames, BeginArgs
  <2>3. Start(p, f) /\ UNCHANGED <<contextVars, runVars>>
    BY <1>1, <2>1 DEF RunBegin
  <2> QED BY <2>2, <2>3, RunStarts
<1>2. ASSUME NEW p \in Procs, NEW id \in RunIds, NEW issue \in Refs, LinkRun(p, id, issue)
      PROVE  RecordsInv'
  <2>1. PICK f : f = [args |-> [op |-> "bind", key |-> id, issue |-> issue], at |-> "bind"]
    OBVIOUS
  <2>2. f \in RunFrames /\ f.at = "bind" /\ f.args.key = id
    BY <2>1 DEF RunFrames, BindFrames, BindArgs
  <2>3. Start(p, f) /\ id \in DOMAIN runs /\ UNCHANGED <<contextVars, runVars>>
    BY <1>2, <2>1 DEF LinkRun
  <2> QED BY <2>2, <2>3, RunStarts
<1>3. ASSUME NEW p \in Procs, NEW id \in RunIds, NEW s \in Summaries, RunEnd(p, id, s)
      PROVE  RecordsInv'
  <2>1. PICK f : f = [args |-> [op |-> "end", key |-> id, summary |-> s], at |-> "end"]
    OBVIOUS
  <2>2. f \in RunFrames /\ f.at = "end"
    BY <2>1 DEF RunFrames, EndFrames, EndArgs
  <2>3. Start(p, f) /\ UNCHANGED <<contextVars, runVars>>
    BY <1>3, <2>1 DEF RunEnd
  <2> QED BY <2>2, <2>3, RunStarts
<1>4. ASSUME NEW p \in Procs, NEW i \in Refs, NEW id \in RunIds, NEW m \in Metrics, NEW v \in Values,
             Measure(p, i, id, m, v)
      PROVE  RecordsInv'
  <2>1. PICK f : f = [args |-> [op |-> "measure", key |-> m, id |-> i, value |-> v],
                      at |-> "measure"]
    OBVIOUS
  <2>2. f \in RunFrames /\ f.at = "measure"
    BY <2>1 DEF RunFrames, MeasureFrames, MeasureArgs
  <2>3. Start(p, f) /\ UNCHANGED <<contextVars, runVars>>
    BY <1>4, <2>1 DEF Measure
  <2> QED BY <2>2, <2>3, RunStarts
<1>5. ASSUME NEW p \in Procs, NEW id \in FeedbackIds, NEW s \in Signals, RecordFeedback(p, id, s)
      PROVE  RecordsInv'
  <2>1. PICK f : f = [args |-> [op |-> "feedback", key |-> id, signal |-> s], at |-> "feedback"]
    OBVIOUS
  <2>2. f \in RunFrames /\ f.at = "feedback"
    BY <2>1 DEF RunFrames, FeedbackFrames, FeedbackArgs
  <2>3. Start(p, f) /\ UNCHANGED <<contextVars, runVars>>
    BY <1>5, <2>1 DEF RecordFeedback
  <2> QED BY <2>2, <2>3, RunStarts
<1>6. ASSUME NEW p \in Procs,
             \/ BeginRead(p) \/ BeginInsert(p) \/ EndRead(p) \/ EndUpdate(p) \/ LinkUpdate(p)
             \/ MeasureRead(p) \/ MeasureInsert(p) \/ FeedbackRead(p) \/ FeedbackInsert(p)
      PROVE  RecordsInv'
  BY <1>6, BeginReadKeeps, BeginInsertKeeps, EndReadKeeps, EndUpdateKeeps, LinkUpdateKeeps,
     MeasureReadKeeps, MeasureInsertKeeps, FeedbackReadKeeps, FeedbackInsertKeeps
<1> QED
  BY <1>1, <1>2, <1>3, <1>4, <1>5, <1>6 DEF RunsNext

LEMMA ContextsActionKeeps ==
    ASSUME RecordsInv, ContextsNext, UNCHANGED runVars
    PROVE  RecordsInv'
<1>1. ContextsInv /\ RunsInv /\ call \in [Procs -> AllFrames]
  BY DEF RecordsInv, ContextsInv, ContextsTyped, AllFrames
<1>2. ASSUME NEW p \in Procs, NEW f, Start(p, f), f.at \in {"put", "gather", "event"}
      PROVE  RunsInv'
  <2>1. f.at \notin {"bind", "end update"}
    BY <1>2
  <2> QED BY <1>1, <1>2, <2>1, QuietStart
<1>3. \A args, ref, row, links : Frame(args, ref, row, links).at = "put"
  BY DEF Frame
<1>4. ASSUME NEW p \in Procs, NEW t \in Texts, NEW s \in Sources, NEW ttl \in Ttls,
             NEW ps \in Lists(0..MaxParents), PutGenerated(p, t, s, ttl, ps)
      PROVE  RecordsInv'
  <2>1. ContextsInv'
    BY <1>1, <1>4, PutGeneratedKeeps
  <2>2. \E f : Start(p, f) /\ f.at = "put"
    BY <1>3, <1>4 DEF PutGenerated
  <2> QED BY <1>2, <2>1, <2>2 DEF RecordsInv
<1>5. ASSUME NEW p \in Procs, NEW l \in Labels, NEW t \in Texts, NEW ps \in Lists(0..1),
             PutNamed(p, l, t, ps)
      PROVE  RecordsInv'
  <2>1. ContextsInv'
    BY <1>1, <1>5, PutNamedKeeps
  <2>2. \E f : Start(p, f) /\ f.at = "put"
    BY <1>3, <1>5 DEF PutNamed
  <2> QED BY <1>2, <2>1, <2>2 DEF RecordsInv
<1>6. ASSUME NEW p \in Procs, NEW d \in Docs, NEW s \in Sources, NEW ttl \in Ttls,
             Ingest(p, d, s, ttl)
      PROVE  RecordsInv'
  <2>1. ContextsInv'
    BY <1>1, <1>6, IngestKeeps
  <2>2. \E f : Start(p, f) /\ f.at = "put"
    BY <1>3, <1>6 DEF Ingest, ChunkFrame
  <2> QED BY <1>2, <2>1, <2>2 DEF RecordsInv
<1>7. ASSUME NEW p \in Procs, NEW ps \in Lists(1..MaxReduced), NEW ttl \in Ttls, Reduce(p, ps, ttl)
      PROVE  RecordsInv'
  <2>1. ContextsInv'
    BY <1>1, <1>7, ReduceKeeps
  <2>2. \E f : Start(p, f) /\ f.at = "gather"
    BY <1>7 DEF Reduce
  <2> QED BY <1>2, <2>1, <2>2 DEF RecordsInv
<1>8. ASSUME NEW p \in Procs, NEW k \in Keys, NEW t \in Texts, Capture(p, k, t)
      PROVE  RecordsInv'
  <2>1. ContextsInv'
    BY <1>1, <1>8, CaptureKeeps
  <2>2. \E f : Start(p, f) /\ f.at = "put"
    BY <1>3, <1>8 DEF Capture
  <2> QED BY <1>2, <2>1, <2>2 DEF RecordsInv
<1>13. ASSUME NEW p \in Procs, NEW k \in Keys, NEW t \in Texts, NEW r \in DOMAIN contexts,
              CaptureLegacy(p, k, t, r)
       PROVE  RecordsInv'
  <2>1. ContextsInv'
    BY <1>1, <1>13, CaptureLegacyKeeps
  <2>2. \E f : Start(p, f) /\ f.at = "event"
    BY <1>13 DEF CaptureLegacy
  <2> QED BY <1>2, <2>1, <2>2 DEF RecordsInv
<1>9. ASSUME NEW p \in Procs,
             Gather(p) \/ PutRead(p) \/ PutInsert(p) \/ Link(p) \/ EventRead(p) \/ EventInsert(p)
      PROVE  RecordsInv'
  <2>1. ContextsInv'
    BY <1>1, <1>9, GatherKeeps, PutReadKeeps, PutInsertKeeps, LinkKeeps, EventReadKeeps,
       EventInsertKeeps
  <2>2. RunsInv'
    BY <1>1, <1>9, QuietSteps, QuietKeeps
  <2> QED BY <2>1, <2>2 DEF RecordsInv
<1>10. ASSUME NEW p \in Procs, ResetContexts(p)
       PROVE  RecordsInv'
  BY <1>1, <1>10, ResetKeeps, ResetQuiet DEF RecordsInv
<1>11. ASSUME NEW p \in Procs, Kill(p)
       PROVE  RecordsInv'
  BY <1>1, <1>11, KillKeeps, KillQuiet DEF RecordsInv
<1>12. ASSUME ClockTicks
       PROVE  RecordsInv'
  <2>1. UNCHANGED <<callVars, runVars>>
    BY <1>12 DEF ClockTicks
  <2>2. UNCHANGED <<call, tried, acked, refused, contexts, lineage, events, generated, tornByReset>>
    BY <1>12 DEF ClockTicks, callVars
  <2>3. now' \in Nat \ {0}
    BY <1>1, <1>12 DEF ClockTicks, ContextsInv, ContextsTyped
  <2>4. ContextsInv'
    BY <1>1, <2>2, <2>3, StillKeeps
  <2> QED BY <1>1, <2>1, <2>4, StillQuiet DEF RecordsInv
<1> QED
  BY <1>4, <1>5, <1>6, <1>7, <1>8, <1>9, <1>10, <1>11, <1>12, <1>13 DEF ContextsNext

(* What every step leaves true of contexts and runs, whichever statements  *)
(* of the calls of several processes come between each other, and wherever *)
(* a process is killed.                                                    *)
THEOREM RecordsInductive == Spec => []RecordsInv
<1>1. RecordsInv /\ [Next]_vars => RecordsInv'
  <2>1. SUFFICES ASSUME RecordsInv, [Next]_vars PROVE RecordsInv'
    OBVIOUS
  <2>2. CASE ContextsNext /\ UNCHANGED runVars
    BY <2>1, <2>2, ContextsActionKeeps
  <2>3. CASE RunsNext /\ UNCHANGED contextVars
    BY <2>1, <2>3, RunsActionKeeps
  <2>4. CASE UNCHANGED vars
    <3>1. UNCHANGED <<callVars, runVars>> /\ UNCHANGED contextVars
      BY <2>4 DEF vars
    <3>2. UNCHANGED <<call, tried, acked, refused, contexts, lineage, events, generated, tornByReset>>
      BY <3>1 DEF callVars, contextVars
    <3>3. now' = now
      BY <3>1 DEF contextVars
    <3>4. now' \in Nat \ {0}
      BY <2>1, <3>3 DEF RecordsInv, ContextsInv, ContextsTyped
    <3>5. ContextsInv'
      BY <2>1, <3>2, <3>4, StillKeeps DEF RecordsInv
    <3> QED BY <2>1, <3>1, <3>5, StillQuiet DEF RecordsInv
  <2> QED BY <2>1, <2>2, <2>3, <2>4 DEF Next
<1> QED
  BY <1>1, RecordsInitially, PTL DEF Spec

(* ingest_document returns when the whole document is stored: every chunk  *)
(* is there with its text and source, and they expire together, unless the *)
(* workspace was reset while a call was under way.                         *)
THEOREM IngestedWholeCorrect == Spec => []IngestedWhole
<1>1. RecordsInv => IngestedWhole
  BY DEF RecordsInv, ContextsInv, AckedOK, Ingested, IngestedWhole
<1> QED
  BY <1>1, RecordsInductive, PTL

(* put_context with parents and reduce_context return when the lineage of  *)
(* the new context is whole, and a reduction holds what its parents hold,  *)
(* in their order, although the parents are read one by one.               *)
THEOREM LineageWholeCorrect == Spec => []LineageWhole
<1>1. RecordsInv => LineageWhole
  <2>1. SUFFICES ASSUME RecordsInv, ~tornByReset, NEW a \in acked,
                        a.args.op \in {"put", "named", "reduce"}
                 PROVE  /\ \A i \in DOMAIN a.args.parents :
                             \E link \in lineage : link[1] = a.args.parents[i] /\ link[2] = a.made
                        /\ a.args.op = "reduce" =>
                             contexts[a.made].content =
                               FlattenSeq([i \in DOMAIN a.args.parents |->
                                             contexts[a.args.parents[i]].content])
    BY DEF LineageWhole
  <2>2. AckedOK(a)
    BY <2>1 DEF RecordsInv, ContextsInv
  <2>3. DOMAIN <<>> = {}
    BY EmptySeq
  <2>4. Linked(a.args.parents, a.made, <<>>)
    BY <2>1, <2>2 DEF AckedOK
  <2>5. a.args.op = "reduce" => Joined(a.args.parents, contexts[a.made].content)
    BY <2>1, <2>2 DEF AckedOK
  <2> QED BY <2>3, <2>4, <2>5 DEF Linked, Joined, Contents
<1> QED
  BY <1>1, RecordsInductive, PTL

(* capture_event returns when one event is stored under its key and over   *)
(* its context, and says what the call captured; where the call made the   *)
(* context too, the two agree, whichever of several calls with the same    *)
(* key stored which.                                                       *)
THEOREM EventsAsCapturedCorrect == Spec => []EventsAsCaptured
<1>1. RecordsInv => EventsAsCaptured
  <2>1. SUFFICES ASSUME RecordsInv, ~tornByReset, NEW a \in acked,
                        a.args.op \in {"capture", "event"}
                 PROVE  EventStored(a) /\ \A k \in DOMAIN events \ {a.args.key} : events[k].ref # a.made
    BY DEF EventsAsCaptured, EventStored
  <2>2. EventStored(a) /\ TablesOK
    BY <2>1 DEF RecordsInv, ContextsInv, AckedOK
  <2>3. a.args.key \in DOMAIN events /\ events[a.args.key].ref = a.made
    BY <2>2 DEF EventStored
  <2> QED BY <2>2, <2>3 DEF TablesOK
<1> QED
  BY <1>1, RecordsInductive, PTL

(* A run whose end returned stays closed with the summary it was given, or *)
(* as much of it as is kept, as long as no two calls overlap: run_end      *)
(* reads the state in one statement and writes it in another.              *)
THEOREM ClosedAsAckedCorrect == Spec => []ClosedAsAcked
<1>1. RecordsInv => ClosedAsAcked
  BY DEF RecordsInv, RunsInv, EndedOK, ClosedAsAcked
<1> QED
  BY <1>1, RecordsInductive, PTL

(* A call that is repeated with the same arguments is not refused, though  *)
(* the first attempt was killed at any statement, is still under way or    *)
(* returned; only another call with the same key, an expiry or a summary   *)
(* that was cut makes a refusal.                                           *)
THEOREM RepeatsHonouredCorrect == Spec => []RepeatsHonoured
<1>1. RecordsInv => RepeatsHonoured
  BY DEF RecordsInv, ContextsInv, RefusedOK, RepeatsHonoured
<1> QED
  BY <1>1, RecordsInductive, PTL
=============================================================================
