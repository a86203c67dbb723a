---------------------------- MODULE BackendProofs ----------------------------
(***************************************************************************)
(* What is proved of backend.rs: the queue operations of Outbox, the file  *)
(* of OutboxLog that holds the queue, and the coordinator, which queues,   *)
(* publishes and replays through it.                                       *)
(***************************************************************************)
EXTENDS CoordinatorProps, OutboxLog, PrefixRecursion, SequenceTheorems

-----------------------------------------------------------------------------
(***************************************************************************)
(* What the queue operations of Outbox preserve, for every queue.          *)
(***************************************************************************)

(* Queuing a call yields a queue that holds it and all it held before.     *)
LEMMA AppendPendingFacts ==
    ASSUME NEW q \in Seq(Entries), NEW k \in OutboxKeys
    PROVE  /\ AppendPending(q, k) \in Seq(Entries)
           /\ HasKey(AppendPending(q, k), k)
           /\ \A j : HasKey(q, j) => HasKey(AppendPending(q, k), j)
           /\ UniqueKeys(q) => UniqueKeys(AppendPending(q, k))
           /\ \A i \in DOMAIN AppendPending(q, k) :
                AppendPending(q, k)[i].committed =>
                    \E h \in DOMAIN q : q[h] = AppendPending(q, k)[i]
<1>1. CASE HasKey(q, k)
  BY <1>1 DEF AppendPending
<1>2. CASE ~HasKey(q, k)
  <2> DEFINE e == [key |-> k, committed |-> FALSE]
  <2> DEFINE r == Append(q, e)
  <2>1. e \in Entries
    BY DEF Entries
  <2>2. AppendPending(q, k) = r
    BY <1>2 DEF AppendPending
  <2>3. /\ r \in Seq(Entries) /\ Len(r) = Len(q) + 1 /\ r[Len(q) + 1] = e
        /\ \A i \in 1..Len(q) : r[i] = q[i]
    BY <2>1, AppendProperties
  <2>4. Len(q) \in Nat /\ DOMAIN q = 1..Len(q) /\ DOMAIN r = 1..(Len(q) + 1)
    BY <2>3, LenProperties
  <2> HIDE DEF r
  <2>5. \A i \in DOMAIN r : i = Len(q) + 1 \/ i \in DOMAIN q
    BY <2>4
  <2>6. HasKey(r, k)
    BY <2>3, <2>4 DEF HasKey
  <2>7. \A j : HasKey(q, j) => HasKey(r, j)
    BY <2>3, <2>4 DEF HasKey
  <2>8. UniqueKeys(q) => UniqueKeys(r)
    BY <1>2, <2>3, <2>4, <2>5 DEF UniqueKeys, HasKey
  <2>9. \A i \in DOMAIN r : r[i].committed => \E h \in DOMAIN q : q[h] = r[i]
    BY <2>3, <2>4, <2>5
  <2> QED
    BY <2>2, <2>3, <2>6, <2>7, <2>8, <2>9
<1> QED
  BY <1>1, <1>2

(* Flagging a call moves nothing and touches no other entry.               *)
LEMMA MarkCommittedFacts ==
    ASSUME NEW q \in Seq(Entries), NEW k \in OutboxKeys
    PROVE  /\ MarkCommitted(q, k) \in Seq(Entries)
           /\ \A j : HasKey(q, j) <=> HasKey(MarkCommitted(q, k), j)
           /\ UniqueKeys(q) => UniqueKeys(MarkCommitted(q, k))
           /\ DOMAIN MarkCommitted(q, k) = DOMAIN q
           /\ \A i \in DOMAIN q : MarkCommitted(q, k)[i].key = q[i].key
           /\ \A i \in DOMAIN q : q[i].key # k => MarkCommitted(q, k)[i] = q[i]
<1> DEFINE r == MarkCommitted(q, k)
<1>1. Len(q) \in Nat /\ DOMAIN q = 1..Len(q) /\ \A i \in DOMAIN q : q[i] \in Entries
  BY LenProperties, ElementOfSeq
<1>2. r = [i \in 1..Len(q) |->
             IF q[i].key = k THEN [q[i] EXCEPT !.committed = TRUE] ELSE q[i]]
  BY <1>1 DEF MarkCommitted
<1>3. \A i \in 1..Len(q) : r[i] \in Entries /\ r[i].key = q[i].key
                           /\ (q[i].key # k => r[i] = q[i])
  BY <1>1, <1>2 DEF Entries
<1>4. DOMAIN r = 1..Len(q)
  BY <1>2
<1>5. r \in Seq(Entries)
  BY <1>1, <1>2, <1>3, IsASeq
<1> HIDE DEF r
<1>6. \A j : HasKey(q, j) <=> HasKey(r, j)
  BY <1>1, <1>3, <1>4 DEF HasKey
<1>7. UniqueKeys(q) => UniqueKeys(r)
  BY <1>1, <1>3, <1>4 DEF UniqueKeys
<1> QED
  BY <1>1, <1>3, <1>4, <1>5, <1>6, <1>7 DEF r

(* The part of a queue behind a position.                                  *)
LEMMA RestFacts ==
    ASSUME NEW q \in Seq(Entries), NEW i \in 1..Len(q)
    PROVE  /\ SubSeq(q, i + 1, Len(q)) \in Seq(Entries)
           /\ Len(SubSeq(q, i + 1, Len(q))) = Len(q) - i
           /\ \A j \in 1..(Len(q) - i) : SubSeq(q, i + 1, Len(q))[j] = q[i + j]
<1> DEFINE m == i + 1
<1> DEFINE back == SubSeq(q, m, Len(q))
<1>1. Len(q) \in Nat /\ i \in Nat /\ 1 <= i /\ i <= Len(q) /\ m \in Int /\ Len(q) \in Int
  BY LenProperties
<1>2. \A j \in m..Len(q) : q[j] \in Entries
  BY <1>1, ElementOfSeq
<1>3. m = i + 1
  OBVIOUS
<1> HIDE DEF m
<1>4. /\ back \in Seq(Entries)
      /\ Len(back) = IF m <= Len(q) THEN Len(q) - m + 1 ELSE 0
      /\ \A j \in 1..(Len(q) - m + 1) : back[j] = q[m + j - 1]
  BY <1>1, <1>2, SubSeqProperties
<1> HIDE DEF back
<1>5. Len(back) = Len(q) - i
  BY <1>1, <1>3, <1>4
<1>6. \A j \in 1..(Len(q) - i) : j \in 1..(Len(q) - m + 1) /\ m + j - 1 = i + j
  BY <1>1, <1>3
<1>7. \A j \in 1..(Len(q) - i) : back[j] = q[i + j]
  BY <1>4, <1>6
<1> QED
  BY <1>3, <1>4, <1>5, <1>7 DEF back

(* Removing a call leaves every other entry, and of a queue with one entry *)
(* per key nothing of the call.                                            *)
LEMMA CompleteFacts ==
    ASSUME NEW q \in Seq(Entries), NEW k \in OutboxKeys
    PROVE  /\ Complete(q, k) \in Seq(Entries)
           /\ \A j : j # k /\ HasKey(q, j) => HasKey(Complete(q, k), j)
           /\ UniqueKeys(q) => UniqueKeys(Complete(q, k))
           /\ UniqueKeys(q) => ~HasKey(Complete(q, k), k)
           /\ \A i \in DOMAIN Complete(q, k) :
                \E h \in DOMAIN q : q[h] = Complete(q, k)[i]
<1>1. CASE ~HasKey(q, k)
  BY <1>1 DEF Complete
<1>2. CASE HasKey(q, k)
  <2> DEFINE i == CHOOSE j \in DOMAIN q : q[j].key = k
  <2> DEFINE front == SubSeq(q, 1, i - 1)
  <2> DEFINE back == SubSeq(q, i + 1, Len(q))
  <2> DEFINE r == front \o back
  <2>1. Len(q) \in Nat /\ DOMAIN q = 1..Len(q) /\ \A j \in DOMAIN q : q[j] \in Entries
    BY LenProperties, ElementOfSeq
  <2>2. i \in 1..Len(q) /\ q[i].key = k
    BY <1>2, <2>1 DEF HasKey
  <2>3. Complete(q, k) = r
    BY <1>2 DEF Complete
  <2> HIDE DEF i
  <2>4. /\ front \in Seq(Entries) /\ Len(front) = i - 1
        /\ \A j \in 1..(i - 1) : front[j] = q[j]
    BY <2>1, <2>2, SubSeqProperties
  <2>5. /\ back \in Seq(Entries) /\ Len(back) = Len(q) - i
        /\ \A j \in 1..(Len(q) - i) : back[j] = q[i + j]
    BY <2>1, <2>2, RestFacts
  <2> HIDE DEF front, back
  <2>6. /\ r \in Seq(Entries) /\ Len(r) = Len(q) - 1
        /\ \A j \in 1..(Len(q) - 1) : r[j] = IF j < i THEN q[j] ELSE q[j + 1]
    <3>1. r \in Seq(Entries)
      BY <2>4, <2>5, ConcatProperties
    <3>2. Len(r) = Len(front) + Len(back)
      BY <2>4, <2>5, ConcatProperties
    <3>3. \A j \in 1..(Len(front) + Len(back)) :
            r[j] = IF j <= Len(front) THEN front[j] ELSE back[j - Len(front)]
      BY <2>4, <2>5, ConcatProperties
    <3>4. Len(r) = Len(q) - 1
      BY <3>2, <2>1, <2>2, <2>4, <2>5
    <3>5. ASSUME NEW j \in 1..(Len(q) - 1)
          PROVE  r[j] = IF j < i THEN q[j] ELSE q[j + 1]
      <4>1. CASE j < i
        BY <4>1, <3>3, <2>1, <2>2, <2>4, <2>5
      <4>2. CASE ~(j < i)
        <5>1. j - (i - 1) \in 1..(Len(q) - i) /\ i + (j - (i - 1)) = j + 1
          BY <4>2, <2>1, <2>2
        <5>2. r[j] = back[j - (i - 1)]
          BY <4>2, <3>3, <2>1, <2>2, <2>4, <2>5
        <5> QED BY <4>2, <5>1, <5>2, <2>5
      <4> QED BY <4>1, <4>2
    <3> QED BY <3>1, <3>4, <3>5
  <2> HIDE DEF r
  <2>7. DOMAIN r = 1..(Len(q) - 1)
    BY <2>6, LenProperties
  <2>8. ASSUME NEW j, j # k, HasKey(q, j)
        PROVE  HasKey(r, j)
    <3>1. PICK h \in 1..Len(q) : q[h].key = j
      BY <2>1, <2>8 DEF HasKey
    <3>2. h # i
      BY <2>2, <2>8, <3>1
    <3>3. CASE h < i
      BY <3>1, <3>3, <2>1, <2>2, <2>6, <2>7 DEF HasKey
    <3>4. CASE h > i
      <4>1. h - 1 \in 1..(Len(q) - 1) /\ ~(h - 1 < i) /\ (h - 1) + 1 = h
        BY <3>1, <3>4, <2>1, <2>2
      <4>2. r[h - 1] = q[h]
        BY <4>1, <2>6
      <4> QED BY <3>1, <4>1, <4>2, <2>7 DEF HasKey
    <3> QED BY <3>1, <3>2, <3>3, <3>4, <2>2, <2>1
  <2>9. \A h \in DOMAIN r : \E j \in DOMAIN q : j # i /\ q[j] = r[h] /\ (j = h \/ j = h + 1)
                                                /\ (j = h <=> h < i)
    BY <2>1, <2>2, <2>6, <2>7
  <2>10. UniqueKeys(q) => UniqueKeys(r)
    <3>1. SUFFICES ASSUME UniqueKeys(q), NEW g \in DOMAIN r, NEW h \in DOMAIN r,
                          r[g].key = r[h].key
                   PROVE  g = h
      BY DEF UniqueKeys
    <3>2. PICK g1 \in DOMAIN q : q[g1] = r[g] /\ (g1 = g \/ g1 = g + 1) /\ (g1 = g <=> g < i)
      BY <2>9
    <3>3. PICK h1 \in DOMAIN q : q[h1] = r[h] /\ (h1 = h \/ h1 = h + 1) /\ (h1 = h <=> h < i)
      BY <2>9
    <3>4. g1 = h1
      BY <3>1, <3>2, <3>3 DEF UniqueKeys
    <3> QED BY <3>2, <3>3, <3>4, <2>1, <2>2, <2>7
  <2>11. UniqueKeys(q) => ~HasKey(r, k)
    BY <2>1, <2>2, <2>9 DEF UniqueKeys, HasKey
  <2> QED
    BY <2>3, <2>6, <2>8, <2>9, <2>10, <2>11
<1> QED
  BY <1>1, <1>2

(* A batch holds keys of entries that carry the wanted flag.               *)
LEMMA FirstBatchFacts ==
    ASSUME NEW q \in Seq(Entries), NEW flag, NEW limit
    PROVE  /\ FirstBatch(q, flag, limit) \subseteq OutboxKeys
           /\ \A k \in FirstBatch(q, flag, limit) :
                \E i \in DOMAIN q : q[i].key = k /\ q[i].committed = flag
<1>1. Len(q) \in Nat /\ DOMAIN q = 1..Len(q) /\ \A i \in 1..Len(q) : q[i] \in Entries
  BY ElementOfSeq, LenProperties
<1>2. \A i \in DOMAIN q : q[i].key \in OutboxKeys
  BY <1>1 DEF Entries
<1> QED
  BY <1>2 DEF FirstBatch
-----------------------------------------------------------------------------
(***************************************************************************)
(* With one process on the file, and no kill inside a line, the log and    *)
(* its compaction implement the queue of OutboxQueue for any file size and *)
(* any number of kills.                                                    *)
(***************************************************************************)

(* The lines of a file nobody was killed in.                               *)
Whole == {line \in Lines : line.event # "garbled"}

-----------------------------------------------------------------------------
(* A prefix of a sequence grows by the next element.                       *)
LEMMA PrefixGrows ==
    ASSUME NEW S, NEW q \in Seq(S), NEW m \in 1 .. Len(q), NEW n \in 0 .. Len(q) - 1, m <= n + 1
    PROVE  Append(SubSeq(q, m, n), q[n + 1]) = SubSeq(q, m, n + 1)
<1> DEFINE r == n + 1
<1>1. Len(q) \in Nat /\ m \in Nat /\ n \in Nat /\ r \in m .. Len(q) /\ r - 1 = n
  BY LenProperties
<1>2. \A i \in m .. n : q[i] \in S
  BY <1>1, ElementOfSeq
<1>3. SubSeq(q, m, n) \in Seq(S)
  BY <1>1, <1>2, SubSeqProperties
<1>4. q[r] \in S
  BY <1>1, ElementOfSeq
<1> HIDE DEF r
<1>5. SubSeq(q, m, r) = SubSeq(q, m, r - 1) \o <<q[r]>>
  BY <1>1, SubSeqRecursiveSecond
<1>6. Append(SubSeq(q, m, n), q[r]) = SubSeq(q, m, n) \o <<q[r]>>
  BY <1>3, <1>4, AppendIsConcat
<1> QED
  BY <1>1, <1>5, <1>6 DEF r

(* kept[n] is what retain keeps of the first n entries.                    *)
Keeps(kept, q, k) ==
    /\ kept \in [0 .. Len(q) -> Seq(Entries)]
    /\ kept[0] = <<>>
    /\ \A n \in 1 .. Len(q) :
         kept[n] = IF q[n].key = k THEN kept[n - 1] ELSE Append(kept[n - 1], q[n])

(* Retained works entry by entry.                                          *)
LEMMA RetainedSteps ==
    ASSUME NEW q \in Seq(Entries), NEW k
    PROVE  \E kept : Keeps(kept, q, k) /\ Retained(q, k) = kept[Len(q)]
<1> DEFINE N == Len(q)
<1> DEFINE V == Seq(Entries)
<1> DEFINE step == [n \in 1 .. N |-> [v \in V |-> IF q[n].key = k THEN v ELSE Append(v, q[n])]]
<1> DEFINE Body(f) == [n \in 0 .. N |->
                         IF n = 0 THEN <<>>
                         ELSE IF q[n].key = k THEN f[n - 1] ELSE Append(f[n - 1], q[n])]
<1> DEFINE kept == CHOOSE f : f = Body(f)
<1>1. N \in Nat /\ \A n \in 1 .. N : q[n] \in Entries
  BY LenProperties, ElementOfSeq
<1>2. \A n \in 1 .. N : \A v \in V : Append(v, q[n]) \in V
  BY <1>1, AppendProperties
<1>3. <<>> \in V
  BY EmptySeq
<1>4. Retained(q, k) = kept[N]
  BY DEF Retained
<1> HIDE DEF N, V
<1>5. \E f : f = Body(f)
  <2>1. IsStep(step, N, V)
    BY <1>2 DEF IsStep
  <2>2. \A n \in 1 .. N : \A v \in V :
          step[n][v] = IF q[n].key = k THEN v ELSE Append(v, q[n])
    OBVIOUS
  <2>3. PICK f : Follows(f, N, V, <<>>, step)
    <3> HIDE DEF step
    <3> QED BY <1>1, <1>3, <2>1, PrefixRecursionExists, Zenon
  <2> HIDE DEF step
  <2>4. \A n \in 1 .. N : f[n - 1] \in V
    BY <1>1, <2>3 DEF Follows
  <2>5. ASSUME NEW n \in 0 .. N
        PROVE  f[n] = IF n = 0 THEN <<>> ELSE IF q[n].key = k THEN f[n - 1]
                                         ELSE Append(f[n - 1], q[n])
    <3>1. CASE n = 0
      BY <3>1, <2>3 DEF Follows
    <3>2. CASE n \in 1 .. N
      BY <3>2, <2>2, <2>3, <2>4 DEF Follows
    <3> QED BY <3>1, <3>2, <1>1
  <2>6. f = Body(f)
    BY <2>3, <2>5 DEF Follows
  <2> QED BY <2>6
<1>6. kept = Body(kept)
  <2> HIDE DEF Body
  <2> QED BY <1>5
<1> HIDE DEF kept
<1>7. /\ kept[0] = <<>>
      /\ \A n \in 1 .. N :
            kept[n] = IF q[n].key = k THEN kept[n - 1] ELSE Append(kept[n - 1], q[n])
  <2>1. ASSUME NEW n \in 0 .. N
        PROVE  kept[n] = IF n = 0 THEN <<>> ELSE IF q[n].key = k THEN kept[n - 1]
                                            ELSE Append(kept[n - 1], q[n])
    BY <1>6
  <2>2. 0 \in 0 .. N /\ \A n \in 1 .. N : n \in 0 .. N /\ n # 0
    BY <1>1
  <2> QED BY <2>1, <2>2
<1>8. \A n \in 0 .. N : kept[n] \in V
  <2> DEFINE S == {n \in 0 .. N : kept[n] \in V}
  <2>1. 0 \in S
    BY <1>1, <1>3, <1>7
  <2>2. ASSUME NEW n \in 0 .. N - 1, n \in S
        PROVE  n + 1 \in S
    <3>1. n + 1 \in 1 .. N /\ n + 1 \in 0 .. N /\ (n + 1) - 1 = n
      BY <1>1
    <3> QED BY <3>1, <2>2, <1>2, <1>7
  <2>3. \A n \in 0 .. N : n \in S
    <3> HIDE DEF S
    <3> QED BY <1>1, <2>1, <2>2, InductionUpTo
  <2> QED BY <2>3
<1> QED
  <2>1. kept = [n \in 0 .. N |-> kept[n]]
    BY <1>6
  <2>2. kept \in [0 .. N -> V]
    BY <2>1, <1>8
  <2> QED BY <2>2, <1>4, <1>7 DEF N, V, Keeps

(* retain drops what the queue operation drops.                            *)
LEMMA RetainedCompletes ==
    ASSUME NEW q \in Seq(Entries), UniqueKeys(q), NEW k \in OutboxKeys
    PROVE  Retained(q, k) = Complete(q, k)
<1> DEFINE N == Len(q)
<1>1. N \in Nat /\ DOMAIN q = 1 .. N /\ \A n \in 1 .. N : q[n] \in Entries
  BY LenProperties, ElementOfSeq
<1>2. PICK kept : Keeps(kept, q, k) /\ Retained(q, k) = kept[N]
  BY RetainedSteps
<1>3. /\ Retained(q, k) = kept[N]
      /\ kept \in [0 .. N -> Seq(Entries)]
      /\ kept[0] = <<>>
      /\ \A n \in 1 .. N :
            kept[n] = IF q[n].key = k THEN kept[n - 1] ELSE Append(kept[n - 1], q[n])
  BY <1>2 DEF Keeps
<1> HIDE DEF N
(* Up to an entry of k everything is kept.                                 *)
<1>4. ASSUME NEW m \in 0 .. N, \A n \in 1 .. m : q[n].key # k
      PROVE  kept[m] = SubSeq(q, 1, m)
  <2> DEFINE S == {n \in 0 .. m : kept[n] = SubSeq(q, 1, n)}
  <2>1. 0 \in S
    <3>1. SubSeq(q, 1, 0) = <<>>
      BY SubSeqEmpty
    <3> QED BY <3>1, <1>1, <1>3
  <2>2. ASSUME NEW n \in 0 .. m - 1, n \in S
        PROVE  n + 1 \in S
    <3>1. /\ n + 1 \in 1 .. N /\ n + 1 \in 1 .. m /\ n + 1 \in 0 .. m /\ (n + 1) - 1 = n
          /\ n \in 0 .. N - 1 /\ 1 \in 1 .. N /\ 1 <= n + 1
      BY <1>1
    <3>2. kept[n + 1] = Append(SubSeq(q, 1, n), q[n + 1])
      BY <3>1, <2>2, <1>3, <1>4
    <3>3. Append(SubSeq(q, 1, n), q[n + 1]) = SubSeq(q, 1, n + 1)
      BY <3>1, PrefixGrows DEF N
    <3> QED BY <3>1, <3>2, <3>3
  <2>3. \A n \in 0 .. m : n \in S
    <3>1. m \in Nat
      BY <1>1
    <3> HIDE DEF S
    <3> QED BY <3>1, <2>1, <2>2, InductionUpTo
  <2> QED BY <2>3, <1>1
<1>5. CASE ~HasKey(q, k)
  <2>1. \A n \in 1 .. N : q[n].key # k
    BY <1>1, <1>5 DEF HasKey
  <2>2. kept[N] = SubSeq(q, 1, N)
    BY <2>1, <1>1, <1>4
  <2>3. SubSeq(q, 1, N) = q
    BY SubSeqFull DEF N
  <2> QED BY <2>2, <2>3, <1>3, <1>5 DEF Complete
<1>6. CASE HasKey(q, k)
  <2> DEFINE i == CHOOSE j \in DOMAIN q : q[j].key = k
  <2>1. i \in 1 .. N /\ q[i].key = k
    BY <1>1, <1>6 DEF HasKey
  <2>2. Complete(q, k) = SubSeq(q, 1, i - 1) \o SubSeq(q, i + 1, N)
    BY <1>6 DEF Complete, N
  <2> HIDE DEF i
  <2>3. \A n \in 1 .. N : n # i => q[n].key # k
    BY <1>1, <2>1 DEF UniqueKeys
  <2> DEFINE front == SubSeq(q, 1, i - 1)
  <2>4. front \in Seq(Entries)
    BY <1>1, <2>1, SubSeqProperties
  <2>5. kept[i] = front
    <3>1. i - 1 \in 0 .. N /\ \A n \in 1 .. i - 1 : n \in 1 .. N /\ n # i
      BY <1>1, <2>1
    <3>2. kept[i - 1] = front
      BY <3>1, <2>3, <1>4
    <3> QED BY <3>2, <2>1, <1>3
  <2> HIDE DEF front
  (* Behind it everything is kept again.                                   *)
  <2> DEFINE S == {n \in 0 .. N - i : kept[i + n] = front \o SubSeq(q, i + 1, i + n)}
  <2>6. 0 \in S
    <3>1. SubSeq(q, i + 1, i + 0) = <<>>
      BY <2>1, <1>1, SubSeqEmpty
    <3>2. front \o <<>> = front
      BY <2>4, ConcatEmptySeq
    <3>3. 0 \in 0 .. N - i /\ i + 0 = i
      BY <1>1, <2>1
    <3> QED BY <3>1, <3>2, <3>3, <2>5
  <2>7. ASSUME NEW n \in 0 .. (N - i) - 1, n \in S
        PROVE  n + 1 \in S
    <3> DEFINE r == i + n
    <3>1. /\ r \in 0 .. N - 1 /\ r + 1 \in 1 .. N /\ r + 1 # i /\ (r + 1) - 1 = r
          /\ n + 1 \in 0 .. N - i /\ i + 1 \in 1 .. N /\ i + 1 <= r + 1
          /\ i + (n + 1) = r + 1 /\ r \in Int /\ i + 1 \in Int
      BY <1>1, <2>1
    <3>2. kept[r] = front \o SubSeq(q, i + 1, r)
      BY <2>7
    <3> HIDE DEF r
    <3>3. kept[r + 1] = Append(front \o SubSeq(q, i + 1, r), q[r + 1])
      BY <3>1, <3>2, <1>3, <2>3
    <3>4. SubSeq(q, i + 1, r) \in Seq(Entries) /\ q[r + 1] \in Entries
      <4>1. \A j \in i + 1 .. r : j \in 1 .. N
        BY <3>1, <1>1, <2>1
      <4>2. \A j \in i + 1 .. r : q[j] \in Entries
        BY <4>1, <1>1
      <4> QED BY <4>2, <3>1, <1>1, SubSeqProperties
    <3>5. Append(front \o SubSeq(q, i + 1, r), q[r + 1])
            = front \o Append(SubSeq(q, i + 1, r), q[r + 1])
      <4> DEFINE a == SubSeq(q, i + 1, r)
      <4> DEFINE e == q[r + 1]
      <4>1. a \in Seq(Entries) /\ e \in Entries
        BY <3>4
      <4> HIDE DEF a, e
      <4>2. <<e>> \in Seq(Entries) /\ front \o a \in Seq(Entries)
        BY <4>1, <2>4, ConcatProperties
      <4>3. Append(front \o a, e) = (front \o a) \o <<e>>
        BY <4>1, <4>2, AppendIsConcat
      <4>4. Append(a, e) = a \o <<e>>
        BY <4>1, AppendIsConcat
      <4>5. (front \o a) \o <<e>> = front \o (a \o <<e>>)
        BY <4>1, <4>2, <2>4, ConcatAssociative
      <4> QED BY <4>3, <4>4, <4>5 DEF a, e
    <3>6. Append(SubSeq(q, i + 1, r), q[r + 1]) = SubSeq(q, i + 1, r + 1)
      BY <3>1, PrefixGrows DEF N
    <3> QED BY <3>1, <3>3, <3>5, <3>6
  <2>8. N - i \in S
    <3>1. N - i \in Nat
      BY <1>1, <2>1
    <3> HIDE DEF S
    <3>2. \A n \in 0 .. N - i : n \in S
      BY <3>1, <2>6, <2>7, InductionUpTo
    <3> QED BY <3>1, <3>2
  <2>9. i + (N - i) = N
    BY <1>1, <2>1
  <2> QED BY <2>2, <2>8, <2>9, <1>3 DEF front
<1> QED
  BY <1>5, <1>6

-----------------------------------------------------------------------------
UniqueQueues == {q \in Seq(Entries) : UniqueKeys(q)}

(* Putting an entry keeps one entry per key: in its old place, or at the   *)
(* end.                                                                    *)
LEMMA PutFacts ==
    ASSUME NEW q \in UniqueQueues, NEW e \in Entries
    PROVE  Put(q, e) \in UniqueQueues
<1>1. /\ Len(q) \in Nat /\ DOMAIN q = 1 .. Len(q) /\ q \in Seq(Entries)
      /\ \A i \in 1 .. Len(q) : q[i] \in Entries
  BY LenProperties, ElementOfSeq DEF UniqueQueues
<1>2. CASE HasKey(q, e.key)
  <2> DEFINE r == [i \in 1 .. Len(q) |-> IF q[i].key = e.key THEN e ELSE q[i]]
  <2>1. Put(q, e) = r
    BY <1>1, <1>2 DEF Put
  <2>2. \A i \in 1 .. Len(q) : r[i] \in Entries /\ r[i].key = q[i].key
    BY <1>1
  <2>3. r \in Seq(Entries) /\ DOMAIN r = 1 .. Len(q)
    BY <1>1, <2>2, IsASeq
  <2> HIDE DEF r
  <2>4. UniqueKeys(r)
    BY <1>1, <2>2, <2>3 DEF UniqueQueues, UniqueKeys
  <2> QED BY <2>1, <2>3, <2>4 DEF UniqueQueues
<1>3. CASE ~HasKey(q, e.key)
  <2> DEFINE r == Append(q, e)
  <2>1. Put(q, e) = r
    BY <1>3 DEF Put
  <2>2. /\ r \in Seq(Entries) /\ Len(r) = Len(q) + 1 /\ r[Len(q) + 1] = e
        /\ \A i \in 1 .. Len(q) : r[i] = q[i]
    BY <1>1, AppendProperties
  <2> HIDE DEF r
  <2>3. DOMAIN r = 1 .. Len(q) + 1
    BY <2>2, LenProperties
  <2>4. \A i \in 1 .. Len(q) + 1 : i = Len(q) + 1 \/ i \in 1 .. Len(q)
    BY <1>1
  <2>5. UniqueKeys(r)
    BY <1>1, <1>3, <2>2, <2>3, <2>4 DEF UniqueQueues, UniqueKeys, HasKey
  <2> QED BY <2>1, <2>2, <2>5 DEF UniqueQueues
<1> QED
  BY <1>2, <1>3

(* A line of the file is one operation on the queue.                       *)
LEMMA LineFacts ==
    ASSUME NEW q \in UniqueQueues, NEW line \in Whole
    PROVE  ReadLine(q, line) \in UniqueQueues
<1>1. CASE line.event = "pending"
  <2>1. [key |-> line.key, committed |-> line.committed] \in Entries
    BY DEF Whole, Lines, Entries
  <2> QED BY <1>1, <2>1, PutFacts DEF ReadLine
<1>2. CASE line.event # "pending"
  <2>1. line.key \in OutboxKeys
    BY DEF Whole, Lines
  <2>2. ReadLine(q, line) = Complete(q, line.key)
    BY <1>2, <2>1, RetainedCompletes DEF ReadLine, UniqueQueues
  <2> QED BY <2>1, <2>2, CompleteFacts DEF UniqueQueues
<1> QED
  BY <1>1, <1>2

LEMMA PendingLine ==
    ASSUME NEW q \in UniqueQueues, NEW k \in OutboxKeys, ~HasKey(q, k)
    PROVE  ReadLine(q, Pending(k, FALSE)) = AppendPending(q, k)
  BY DEF ReadLine, Pending, Put, AppendPending

LEMMA FlaggedEntry ==
    ASSUME NEW e \in Entries
    PROVE  [e EXCEPT !.committed = TRUE] = [key |-> e.key, committed |-> TRUE]
<1> DEFINE f == [e EXCEPT !.committed = TRUE]
<1>1. f \in Entries /\ f.key = e.key /\ f.committed = TRUE
  BY DEF Entries
<1>2. \A d \in Entries : d = [key |-> d.key, committed |-> d.committed]
  BY DEF Entries
<1> HIDE DEF f
<1>3. f = [key |-> f.key, committed |-> f.committed]
  BY <1>1, <1>2
<1> QED
  BY <1>1, <1>3, Zenon DEF f

LEMMA CommittedLine ==
    ASSUME NEW q \in UniqueQueues, NEW k \in OutboxKeys, HasKey(q, k)
    PROVE  ReadLine(q, Pending(k, TRUE)) = MarkCommitted(q, k)
<1> DEFINE e == [key |-> k, committed |-> TRUE]
<1>1. ReadLine(q, Pending(k, TRUE)) = [i \in DOMAIN q |-> IF q[i].key = k THEN e ELSE q[i]]
  BY DEF ReadLine, Pending, Put
<1>2. \A i \in DOMAIN q : q[i] \in Entries
  BY LenProperties, ElementOfSeq DEF UniqueQueues
<1>3. ASSUME NEW i \in DOMAIN q, q[i].key = k
      PROVE  [q[i] EXCEPT !.committed = TRUE] = e
  BY <1>2, <1>3, FlaggedEntry
<1> HIDE DEF e
<1>4. MarkCommitted(q, k) = [i \in DOMAIN q |-> IF q[i].key = k THEN e ELSE q[i]]
  BY <1>3 DEF MarkCommitted
<1> QED
  BY <1>1, <1>4

LEMMA LinesWhole ==
    ASSUME NEW k \in OutboxKeys
    PROVE  Pending(k, FALSE) \in Whole /\ Pending(k, TRUE) \in Whole /\ Completed(k) \in Whole
<1>1. Pending(k, FALSE) \in Whole
  BY DEF Whole, Lines, Pending
<1>2. Pending(k, TRUE) \in Whole
  BY DEF Whole, Lines, Pending
<1>3. Completed(k) \in Whole
  BY DEF Whole, Lines, Completed
<1> QED
  BY <1>1, <1>2, <1>3

LEMMA CompletedLine ==
    ASSUME NEW q \in UniqueQueues, NEW k \in OutboxKeys
    PROVE  ReadLine(q, Completed(k)) = Complete(q, k)
  BY RetainedCompletes DEF ReadLine, Completed, UniqueQueues

-----------------------------------------------------------------------------
(* after[n] is the queue after the first n lines.                          *)
Folds(after, lines) ==
    /\ after \in [0 .. Len(lines) -> UniqueQueues]
    /\ after[0] = <<>>
    /\ \A n \in 1 .. Len(lines) : after[n] = ReadLine(after[n - 1], lines[n])

LEMMA FoldSteps ==
    ASSUME NEW lines \in Seq(Whole)
    PROVE  \E after : Folds(after, lines) /\ Fold(lines) = after[Len(lines)]
<1> DEFINE N == Len(lines)
<1> DEFINE V == UniqueQueues
<1> DEFINE step == [n \in 1 .. N |-> [v \in V |-> ReadLine(v, lines[n])]]
<1> DEFINE Body(f) == [n \in 0 .. N |->
                         IF n = 0 THEN <<>> ELSE ReadLine(f[n - 1], lines[n])]
<1> DEFINE after == CHOOSE f : f = Body(f)
<1>1. N \in Nat /\ \A n \in 1 .. N : lines[n] \in Whole
  BY LenProperties, ElementOfSeq
<1>2. \A n \in 1 .. N : \A v \in V : ReadLine(v, lines[n]) \in V
  BY <1>1, LineFacts
<1>3. <<>> \in V
  <2>1. <<>> \in Seq(Entries) /\ DOMAIN <<>> = {}
    BY EmptySeq
  <2> QED BY <2>1 DEF UniqueQueues, UniqueKeys
<1>4. Fold(lines) = after[N]
  BY DEF Fold
<1> HIDE DEF N, V
<1>5. \E f : f = Body(f)
  <2>1. IsStep(step, N, V)
    BY <1>2 DEF IsStep
  <2>2. \A n \in 1 .. N : \A v \in V : step[n][v] = ReadLine(v, lines[n])
    OBVIOUS
  <2>3. PICK f : Follows(f, N, V, <<>>, step)
    <3> HIDE DEF step
    <3> QED BY <1>1, <1>3, <2>1, PrefixRecursionExists, Zenon
  <2> HIDE DEF step
  <2>4. \A n \in 1 .. N : f[n - 1] \in V
    BY <1>1, <2>3 DEF Follows
  <2>5. ASSUME NEW n \in 0 .. N
        PROVE  f[n] = IF n = 0 THEN <<>> ELSE ReadLine(f[n - 1], lines[n])
    <3>1. CASE n = 0
      BY <3>1, <2>3 DEF Follows
    <3>2. CASE n \in 1 .. N
      BY <3>2, <2>2, <2>3, <2>4 DEF Follows
    <3> QED BY <3>1, <3>2, <1>1
  <2>6. f = Body(f)
    BY <2>3, <2>5 DEF Follows
  <2> QED BY <2>6
<1>6. after = Body(after)
  <2> HIDE DEF Body
  <2> QED BY <1>5
<1> HIDE DEF after
<1>7. after[0] = <<>> /\ \A n \in 1 .. N : after[n] = ReadLine(after[n - 1], lines[n])
  <2>1. ASSUME NEW n \in 0 .. N
        PROVE  after[n] = IF n = 0 THEN <<>> ELSE ReadLine(after[n - 1], lines[n])
    BY <1>6
  <2>2. 0 \in 0 .. N /\ \A n \in 1 .. N : n \in 0 .. N /\ n # 0
    BY <1>1
  <2> QED BY <2>1, <2>2
<1>8. \A n \in 0 .. N : after[n] \in V
  <2> DEFINE S == {n \in 0 .. N : after[n] \in V}
  <2>1. 0 \in S
    BY <1>1, <1>3, <1>7
  <2>2. ASSUME NEW n \in 0 .. N - 1, n \in S
        PROVE  n + 1 \in S
    <3>1. n + 1 \in 1 .. N /\ n + 1 \in 0 .. N /\ (n + 1) - 1 = n
      BY <1>1
    <3> QED BY <3>1, <2>2, <1>2, <1>7
  <2>3. \A n \in 0 .. N : n \in S
    <3> HIDE DEF S
    <3> QED BY <1>1, <2>1, <2>2, InductionUpTo
  <2> QED BY <2>3
<1> QED
  <2>1. after = [n \in 0 .. N |-> after[n]]
    BY <1>6
  <2>2. after \in [0 .. N -> V]
    BY <2>1, <1>8
  <2> QED BY <2>2, <1>4, <1>7 DEF N, V, Folds

(* An empty file is an empty queue; a file is a queue with one entry per   *)
(* key; and appending a line performs one operation on it.                 *)
LEMMA FoldEmpty == Fold(<<>>) = <<>>
<1>1. <<>> \in Seq(Whole) /\ Len(<<>>) = 0
  BY EmptySeq
<1> QED
  BY <1>1, FoldSteps DEF Folds

LEMMA FoldType ==
    ASSUME NEW lines \in Seq(Whole)
    PROVE  Fold(lines) \in UniqueQueues
<1>1. PICK after : Folds(after, lines) /\ Fold(lines) = after[Len(lines)]
  BY FoldSteps
<1>2. Len(lines) \in 0 .. Len(lines)
  BY LenProperties
<1> QED
  BY <1>1, <1>2 DEF Folds

LEMMA FoldAppend ==
    ASSUME NEW lines \in Seq(Whole), NEW line \in Whole
    PROVE  Fold(Append(lines, line)) = ReadLine(Fold(lines), line)
<1> DEFINE longer == Append(lines, line)
<1> DEFINE N == Len(lines)
<1>1. /\ longer \in Seq(Whole) /\ Len(longer) = N + 1 /\ longer[N + 1] = line
      /\ \A n \in 1 .. N : longer[n] = lines[n]
      /\ N \in Nat
  BY AppendProperties, LenProperties
<1> HIDE DEF longer
<1>2. PICK f : Folds(f, lines) /\ Fold(lines) = f[N]
  BY FoldSteps
<1>3. PICK g : Folds(g, longer) /\ Fold(longer) = g[N + 1]
  BY <1>1, FoldSteps
<1>4. /\ f[0] = <<>> /\ g[0] = <<>>
      /\ \A n \in 1 .. N : f[n] = ReadLine(f[n - 1], lines[n])
      /\ \A n \in 1 .. N + 1 : g[n] = ReadLine(g[n - 1], longer[n])
  BY <1>1, <1>2, <1>3 DEF Folds
<1> HIDE DEF N
<1> DEFINE S == {n \in 0 .. N : f[n] = g[n]}
<1>5. 0 \in S
  BY <1>1, <1>4
<1>6. ASSUME NEW n \in 0 .. N - 1, n \in S
      PROVE  n + 1 \in S
  <2>1. n + 1 \in 1 .. N /\ n + 1 \in 1 .. N + 1 /\ n + 1 \in 0 .. N /\ (n + 1) - 1 = n
    BY <1>1
  <2>2. longer[n + 1] = lines[n + 1] /\ f[n] = g[n]
    BY <2>1, <1>1, <1>6
  <2>3. f[n + 1] = ReadLine(f[n], lines[n + 1]) /\ g[n + 1] = ReadLine(g[n], longer[n + 1])
    BY <2>1, <1>4
  <2> QED BY <2>1, <2>2, <2>3
<1>7. N \in S
  <2> HIDE DEF S
  <2>1. \A n \in 0 .. N : n \in S
    BY <1>1, <1>5, <1>6, InductionUpTo
  <2> QED BY <2>1, <1>1
<1>8. g[N + 1] = ReadLine(g[N], longer[N + 1])
  <2>1. N + 1 \in 1 .. N + 1 /\ (N + 1) - 1 = N
    BY <1>1
  <2> QED BY <2>1, <1>4
<1> QED
  BY <1>1, <1>2, <1>3, <1>7, <1>8 DEF longer

(* Reading back what compact writes gives the queue it was given.          *)
LEMMA FoldSnapshot ==
    ASSUME NEW q \in UniqueQueues
    PROVE  Snapshot(q) \in Seq(Whole) /\ Fold(Snapshot(q)) = q
<1> DEFINE N == Len(q)
<1> DEFINE lines == [i \in 1 .. N |-> Pending(q[i].key, q[i].committed)]
<1>1. /\ N \in Nat /\ DOMAIN q = 1 .. N /\ q \in Seq(Entries) /\ UniqueKeys(q)
      /\ \A i \in 1 .. N : q[i] \in Entries
  BY LenProperties, ElementOfSeq DEF UniqueQueues
<1>2. Snapshot(q) = lines
  BY <1>1 DEF Snapshot
<1>3. \A i \in 1 .. N : lines[i] = Pending(q[i].key, q[i].committed) /\ lines[i] \in Whole
  BY <1>1 DEF Pending, Whole, Lines, Entries
<1>4. lines \in Seq(Whole) /\ Len(lines) = N
  <2> HIDE DEF N
  <2> QED BY <1>1, <1>3, IsASeq
<1> HIDE DEF lines
<1>5. PICK f : Folds(f, lines) /\ Fold(lines) = f[N]
  BY <1>4, FoldSteps
<1>6. f[0] = <<>> /\ \A n \in 1 .. N : f[n] = ReadLine(f[n - 1], lines[n])
  BY <1>4, <1>5 DEF Folds
<1> DEFINE S == {n \in 0 .. N : f[n] = SubSeq(q, 1, n)}
<1>7. 0 \in S
  <2>1. SubSeq(q, 1, 0) = <<>>
    BY SubSeqEmpty
  <2>2. 0 \in 0 .. N
    BY <1>1
  <2> HIDE DEF N
  <2> QED BY <2>1, <2>2, <1>6
<1>8. ASSUME NEW n \in 0 .. N - 1, n \in S
      PROVE  n + 1 \in S
  <2> DEFINE front == SubSeq(q, 1, n)
  <2>1. n + 1 \in 1 .. N /\ n + 1 \in 0 .. N /\ (n + 1) - 1 = n /\ 1 \in 1 .. N /\ 1 <= n + 1
    BY <1>1
  <2>2. /\ front \in Seq(Entries) /\ Len(front) = n
        /\ \A i \in 1 .. n : front[i] = q[i]
    <3>1. \A i \in 1 .. n : q[i] \in Entries
      BY <1>1
    <3> QED BY <3>1, SubSeqProperties
  <2>3. Append(front, q[n + 1]) = SubSeq(q, 1, n + 1)
    BY <1>1, <2>1, PrefixGrows
  <2>4. f[n + 1] = ReadLine(front, lines[n + 1])
    BY <2>1, <1>6, <1>8
  <2> HIDE DEF front
  <2>5. DOMAIN front = 1 .. n
    BY <2>2, LenProperties
  <2>6. ~HasKey(front, q[n + 1].key)
    BY <2>1, <2>2, <2>5, <1>1 DEF HasKey, UniqueKeys
  <2>7. lines[n + 1] = Pending(q[n + 1].key, q[n + 1].committed)
    BY <2>1, <1>3
  <2>8. [key |-> q[n + 1].key, committed |-> q[n + 1].committed] = q[n + 1]
    <3>1. q[n + 1] \in Entries
      BY <2>1, <1>1
    <3> QED BY <3>1 DEF Entries
  <2>9. ReadLine(front, lines[n + 1]) = Put(front, q[n + 1])
    BY <2>7, <2>8 DEF ReadLine, Pending
  <2>10. Put(front, q[n + 1]) = Append(front, q[n + 1])
    BY <2>6 DEF Put
  <2> QED BY <2>1, <2>3, <2>4, <2>9, <2>10
<1>9. N \in S
  <2> HIDE DEF S, N
  <2>1. \A n \in 0 .. N : n \in S
    BY <1>1, <1>7, <1>8, InductionUpTo
  <2> QED BY <2>1, <1>1
<1>10. SubSeq(q, 1, N) = q
  BY <1>1, SubSeqFull
<1> QED
  BY <1>2, <1>4, <1>5, <1>9, <1>10

-----------------------------------------------------------------------------
(* The inductive invariant, for the one process on the file: an operation  *)
(* under way knows the queue as it is, and what it will be.                *)
Steps == {"idle", "body", "newline", "truncate", "temporary", "rename"}
Ops == [step : Steps, line : Whole \cup {{}}, remaining : UniqueQueues, orphan : {FALSE}]

LogTyped ==
    /\ file \in Seq(Whole)
    /\ op \in [Writers -> Ops]
    /\ temp \in [Writers -> Seq(Whole)]

(* A line lacks its newline only while the process is about to write it;   *)
(* otherwise the file holds what the last call left.                       *)
FileSettled(p) ==
    /\ ended \in BOOLEAN
    /\ ended <=> op[p].step # "newline"
    /\ op[p].step # "newline" => Fold(file) = done
    /\ op[p].step = "newline" => Fold(file) = op[p].remaining

(* The line to be written is one operation, decided on the queue as it is. *)
LineDecided(p) ==
    op[p].step = "body" =>
      /\ op[p].line \in Whole
      /\ op[p].remaining = ReadLine(Fold(file), op[p].line)
      /\ \E k \in OutboxKeys :
           \/ op[p].line = Pending(k, FALSE) /\ ~HasKey(Fold(file), k)
           \/ op[p].line = Pending(k, TRUE) /\ HasKey(Fold(file), k)
           \/ op[p].line = Completed(k)

(* The temporary file holds a prefix of the queue as it is, and before the *)
(* rename all of it.                                                       *)
CompactFaithful(p) ==
    /\ op[p].step = "truncate" => Fold(file) = <<>>
    /\ op[p].step \in {"temporary", "rename"} => op[p].remaining = Fold(file)
    /\ op[p].step = "temporary" =>
         /\ Len(temp[p]) <= Len(op[p].remaining)
         /\ temp[p] = Snapshot(SubSeq(op[p].remaining, 1, Len(temp[p])))
    /\ op[p].step = "rename" => temp[p] = Snapshot(op[p].remaining)
    /\ op[p].step \notin {"temporary", "rename"} => temp[p] = <<>>

LogInv(p) == LogTyped /\ FileSettled(p) /\ LineDecided(p) /\ CompactFaithful(p)

LEMMA LogInitially ==
    ASSUME NEW p, Writers = {p}, LogInit
    PROVE  LogInv(p)
<1>1. <<>> \in UniqueQueues /\ <<>> \in Seq(Whole)
  <2>1. <<>> \in Seq(Entries) /\ <<>> \in Seq(Whole) /\ DOMAIN <<>> = {}
    BY EmptySeq
  <2> QED BY <2>1 DEF UniqueQueues, UniqueKeys
<1>2. Idle \in Ops
  BY <1>1 DEF Idle, Ops, Steps
<1>3. op[p] = Idle /\ temp[p] = <<>> /\ file = <<>> /\ done = <<>> /\ ended = TRUE
  BY DEF LogInit
<1>4. LogTyped
  BY <1>1, <1>2 DEF LogInit, LogTyped
<1>5. FileSettled(p)
  BY <1>3, FoldEmpty DEF FileSettled, Idle
<1>6. LineDecided(p) /\ CompactFaithful(p)
  BY <1>3 DEF LineDecided, CompactFaithful, Idle
<1> QED
  BY <1>4, <1>5, <1>6 DEF LogInv

(* An operation that starts appending has decided on its line.             *)
LEMMA AppendStarts ==
    ASSUME NEW p, Writers = {p}, LogInv(p), Start(p), NEW k \in OutboxKeys, NEW line, NEW next,
           StartAppend(p, line, next),
           \/ line = Pending(k, FALSE) /\ ~HasKey(Fold(file), k) /\ next = AppendPending(Fold(file), k)
           \/ line = Pending(k, TRUE) /\ HasKey(Fold(file), k) /\ next = MarkCommitted(Fold(file), k)
           \/ line = Completed(k) /\ next = Complete(Fold(file), k)
    PROVE  LogInv(p)'
<1>1. CASE op' = op
  BY <1>1 DEF LogInv, LogTyped, FileSettled, LineDecided, CompactFaithful, Start
<1>2. CASE op' = [op EXCEPT ![p] = Does("body", line, next)]
  <2>1. Fold(file) \in UniqueQueues
    BY FoldType DEF LogInv, LogTyped
  <2>2. line \in Whole
    BY LinesWhole
  <2>3. next = ReadLine(Fold(file), line)
    BY <2>1, PendingLine, CommittedLine, CompletedLine
  <2>4. next \in UniqueQueues
    BY <2>1, <2>2, <2>3, LineFacts
  <2>5. Does("body", line, next) \in Ops
    BY <2>2, <2>4 DEF Does, Ops, Steps
  <2>6. /\ op'[p] = Does("body", line, next)
        /\ op' \in [Writers -> Ops]
    BY <1>2, <2>5 DEF LogInv, LogTyped
  <2>7. /\ op'[p].step = "body" /\ op'[p].line = line /\ op'[p].remaining = next
        /\ op[p].step = "idle"
        /\ UNCHANGED <<file, ended, temp, done>>
    BY <2>6 DEF Does, Start
  <2>8. LogTyped'
    BY <2>6, <2>7 DEF LogInv, LogTyped
  <2>9. FileSettled(p)'
    BY <2>7 DEF LogInv, FileSettled
  <2>10. LineDecided(p)'
    BY <2>2, <2>3, <2>7 DEF LineDecided
  <2>11. CompactFaithful(p)'
    BY <2>7 DEF LogInv, CompactFaithful
  <2> QED BY <2>8, <2>9, <2>10, <2>11 DEF LogInv
<1> QED
  BY <1>1, <1>2 DEF StartAppend, SetOp

LEMMA LogInductive ==
    ASSUME NEW p, Writers = {p}, ~TornKills, LogInv(p), [LogNext]_logVars
    PROVE  LogInv(p)'
<1> DEFINE q == Fold(file)
<1>1. /\ file \in Seq(Whole) /\ op \in [Writers -> Ops] /\ temp \in [Writers -> Seq(Whole)]
      /\ q \in UniqueQueues /\ op[p] \in Ops /\ temp[p] \in Seq(Whole) /\ p \in Writers
  BY FoldType DEF LogInv, LogTyped
<1>2. \A o : [op EXCEPT ![p] = o][p] = o
  BY <1>1
<1>3. \A o \in Ops : [op EXCEPT ![p] = o] \in [Writers -> Ops]
  BY <1>1
<1>4. Idle \in Ops /\ Idle.step = "idle"
  <2>1. <<>> \in UniqueQueues
    BY EmptySeq DEF UniqueQueues, UniqueKeys
  <2> QED BY <2>1 DEF Idle, Ops, Steps
<1> HIDE DEF q
<1>5. ASSUME NEW k \in OutboxKeys, AppendPendingCall(p, k)
      PROVE  LogInv(p)'
  BY <1>5, AppendStarts DEF AppendPendingCall
<1>6. ASSUME NEW k \in OutboxKeys, MarkEntryCall(p, k)
      PROVE  LogInv(p)'
  BY <1>6, AppendStarts DEF MarkEntryCall
<1>7. ASSUME NEW k \in OutboxKeys, CompleteCall(p, k)
      PROVE  LogInv(p)'
  BY <1>7, AppendStarts DEF CompleteCall
<1>8. CASE CompactCall(p)
  <2> DEFINE o == Does(IF q = <<>> THEN "truncate" ELSE "temporary", {}, q)
  <2>1. o \in Ops
    BY <1>1 DEF Does, Ops, Steps
  <2>2. /\ op' = [op EXCEPT ![p] = o] /\ op[p].step = "idle"
        /\ UNCHANGED <<file, ended, temp, done>>
    BY <1>8 DEF CompactCall, SetOp, Start, q
  <2>3. /\ o.step = IF q = <<>> THEN "truncate" ELSE "temporary"
        /\ o.remaining = q
    BY DEF Does
  <2>4. op'[p] = o /\ op' \in [Writers -> Ops]
    BY <1>2, <1>3, <2>1, <2>2
  <2> HIDE DEF o
  <2>5. LogTyped'
    BY <2>2, <2>4 DEF LogInv, LogTyped
  <2>6. FileSettled(p)'
    BY <2>2, <2>3, <2>4 DEF LogInv, FileSettled
  <2>7. LineDecided(p)'
    BY <2>3, <2>4 DEF LineDecided
  <2>8. CompactFaithful(p)'
    <3>1. temp[p] = <<>>
      BY <2>2 DEF LogInv, CompactFaithful
    <3>2. q \in Seq(Entries) /\ Len(<<>>) = 0 /\ 0 <= Len(q)
      BY <1>1, LenProperties, EmptySeq DEF UniqueQueues
    <3>3. Snapshot(SubSeq(q, 1, 0)) = <<>>
      <4>1. SubSeq(q, 1, 0) = <<>>
        BY SubSeqEmpty
      <4>2. Snapshot(<<>>) = <<>>
        BY DEF Snapshot
      <4> QED BY <4>1, <4>2
    <3> QED BY <2>2, <2>3, <2>4, <3>1, <3>2, <3>3 DEF CompactFaithful, q
  <2> QED BY <2>5, <2>6, <2>7, <2>8 DEF LogInv
<1>9. CASE WriteBody(p)
  <2> DEFINE o == [op[p] EXCEPT !.step = "newline"]
  <2>1. /\ op[p].step = "body" /\ ended /\ ended \in BOOLEAN /\ ~op[p].orphan
    BY <1>1, <1>9 DEF WriteBody, LogInv, FileSettled, Ops
  <2>2. /\ file' = Append(file, op[p].line) /\ ended' = FALSE
        /\ op' = [op EXCEPT ![p] = o] /\ UNCHANGED <<temp, done>>
    BY <1>9, <2>1 DEF WriteBody, SetOp
  <2>3. o \in Ops /\ o.step = "newline" /\ o.remaining = op[p].remaining
    BY <1>1 DEF Ops, Steps
  <2>4. op'[p] = o /\ op' \in [Writers -> Ops]
    BY <1>2, <1>3, <2>2, <2>3
  <2> HIDE DEF o
  <2>5. op[p].line \in Whole /\ op[p].remaining = ReadLine(q, op[p].line)
    BY <2>1 DEF LogInv, LineDecided, q
  <2>6. file' \in Seq(Whole)
    BY <1>1, <2>2, <2>5, AppendProperties
  <2>7. Fold(file') = op[p].remaining
    BY <1>1, <2>2, <2>5, FoldAppend DEF q
  <2>8. LogTyped'
    BY <2>2, <2>4, <2>6 DEF LogInv, LogTyped
  <2>9. FileSettled(p)'
    BY <2>2, <2>3, <2>4, <2>7 DEF FileSettled
  <2>10. LineDecided(p)'
    BY <2>3, <2>4 DEF LineDecided
  <2>11. CompactFaithful(p)'
    BY <2>1, <2>2, <2>3, <2>4 DEF LogInv, CompactFaithful
  <2> QED BY <2>8, <2>9, <2>10, <2>11 DEF LogInv
<1>10. CASE WriteNewline(p)
  <2>1. /\ op[p].step = "newline" /\ ended' = TRUE /\ op' = [op EXCEPT ![p] = Idle]
        /\ done' = op[p].remaining /\ UNCHANGED <<file, temp>>
    BY <1>1, <1>10 DEF WriteNewline, SetOp, Ops
  <2>2. op'[p] = Idle /\ op' \in [Writers -> Ops]
    BY <1>2, <1>3, <1>4, <2>1
  <2>3. LogTyped'
    BY <2>1, <2>2 DEF LogInv, LogTyped
  <2>4. FileSettled(p)'
    BY <1>4, <2>1, <2>2 DEF LogInv, FileSettled
  <2>5. LineDecided(p)'
    BY <1>4, <2>2 DEF LineDecided
  <2>6. CompactFaithful(p)'
    BY <1>4, <2>1, <2>2 DEF LogInv, CompactFaithful
  <2> QED BY <2>3, <2>4, <2>5, <2>6 DEF LogInv
<1>11. CASE Truncate(p)
  <2>1. /\ op[p].step = "truncate" /\ file' = <<>> /\ ended' = TRUE
        /\ op' = [op EXCEPT ![p] = Idle] /\ UNCHANGED <<temp, done>>
    BY <1>11 DEF Truncate, SetOp
  <2>2. op'[p] = Idle /\ op' \in [Writers -> Ops]
    BY <1>2, <1>3, <1>4, <2>1
  <2>3. Fold(file) = <<>> /\ Fold(file) = done /\ temp[p] = <<>>
    BY <2>1 DEF LogInv, CompactFaithful, FileSettled
  <2>4. LogTyped'
    BY <2>1, <2>2, EmptySeq DEF LogInv, LogTyped
  <2>5. FileSettled(p)'
    BY <1>4, <2>1, <2>2, <2>3, FoldEmpty DEF FileSettled
  <2>6. LineDecided(p)'
    BY <1>4, <2>2 DEF LineDecided
  <2>7. CompactFaithful(p)'
    BY <1>4, <2>1, <2>2, <2>3 DEF CompactFaithful
  <2> QED BY <2>4, <2>5, <2>6, <2>7 DEF LogInv
<1>12. CASE WriteTemporary(p)
  <2> DEFINE rest == op[p].remaining
  <2> DEFINE n == Len(temp[p])
  <2>1. /\ op[p].step = "temporary" /\ UNCHANGED <<file, ended, done>>
    BY <1>12 DEF WriteTemporary
  <2>2. /\ rest = q /\ rest \in UniqueQueues /\ n <= Len(rest)
        /\ temp[p] = Snapshot(SubSeq(rest, 1, n)) /\ n \in Nat /\ Len(rest) \in Nat
        /\ rest \in Seq(Entries)
    BY <1>1, <2>1, LenProperties DEF LogInv, CompactFaithful, q, UniqueQueues
  <2>3. CASE n < Len(rest)
    <3> DEFINE part == SubSeq(rest, 1, n + 1)
    <3>1. temp' = [temp EXCEPT ![p] = Snapshot(part)] /\ op' = op
      BY <1>12, <2>3 DEF WriteTemporary, SetTemp
    <3>2. part \in UniqueQueues /\ Len(part) = n + 1
      <4>1. \A i \in 1 .. n + 1 : i \in 1 .. Len(rest)
        BY <2>2, <2>3
      <4>2. \A i \in 1 .. n + 1 : rest[i] \in Entries
        BY <2>2, <4>1, ElementOfSeq
      <4>3. n + 1 \in Int /\ 1 <= n + 1 /\ n + 1 - 1 + 1 = n + 1
        BY <2>2
      <4>4. /\ part \in Seq(Entries) /\ Len(part) = n + 1
            /\ \A i \in 1 .. n + 1 : part[i] = rest[i]
        <5> DEFINE m == n + 1
        <5>1. \A i \in 1 .. m : rest[i] \in Entries
          BY <4>2
        <5>2. m \in Int /\ 1 <= m
          BY <2>2
        <5> HIDE DEF m
        <5>3. /\ SubSeq(rest, 1, m) \in Seq(Entries) /\ Len(SubSeq(rest, 1, m)) = m
              /\ \A i \in 1 .. m : SubSeq(rest, 1, m)[i] = rest[i]
          BY <5>1, <5>2, SubSeqProperties
        <5> QED BY <5>3 DEF m
      <4> HIDE DEF part
      <4>5. DOMAIN part = 1 .. n + 1 /\ DOMAIN rest = 1 .. Len(rest)
        BY <4>4, <2>2, LenProperties
      <4>6. UniqueKeys(part)
        BY <2>2, <4>1, <4>4, <4>5 DEF UniqueQueues, UniqueKeys
      <4> QED BY <4>4, <4>6 DEF UniqueQueues
    <3> HIDE DEF part
    <3>3. /\ temp'[p] = Snapshot(part) /\ temp' \in [Writers -> Seq(Whole)]
          /\ Len(Snapshot(part)) = n + 1
      <4>1. Snapshot(part) \in Seq(Whole)
        BY <3>2, FoldSnapshot
      <4>2. Len(Snapshot(part)) = n + 1
        <5>1. part \in Seq(Entries)
          BY <3>2 DEF UniqueQueues
        <5>2. DOMAIN part = 1 .. n + 1
          BY <5>1, <3>2, LenProperties
        <5>3. DOMAIN Snapshot(part) = 1 .. n + 1
          BY <5>2 DEF Snapshot
        <5> QED BY <4>1, <5>3, <2>2, LenProperties
      <4> QED BY <1>1, <3>1, <4>1, <4>2
    <3>4. LogTyped'
      BY <1>1, <2>1, <3>1, <3>3 DEF LogTyped
    <3>5. FileSettled(p)' /\ LineDecided(p)'
      BY <2>1, <3>1 DEF LogInv, FileSettled, LineDecided
    <3>6. CompactFaithful(p)'
      <4>1. n + 1 <= Len(rest)
        BY <2>2, <2>3
      <4> QED BY <2>1, <2>2, <3>1, <3>3, <4>1 DEF CompactFaithful, part, q
    <3> QED BY <3>4, <3>5, <3>6 DEF LogInv
  <2>4. CASE ~ (n < Len(rest))
    <3> DEFINE o == [op[p] EXCEPT !.step = "rename"]
    <3>1. op' = [op EXCEPT ![p] = o] /\ temp' = temp
      BY <1>12, <2>4 DEF WriteTemporary, SetOp
    <3>2. o \in Ops /\ o.step = "rename" /\ o.remaining = rest
      BY <1>1 DEF Ops, Steps
    <3>3. op'[p] = o /\ op' \in [Writers -> Ops]
      BY <1>2, <1>3, <3>1, <3>2
    <3> HIDE DEF o
    <3>4. temp[p] = Snapshot(rest)
      <4>1. n = Len(rest)
        BY <2>2, <2>4
      <4>2. SubSeq(rest, 1, Len(rest)) = rest
        BY <2>2, SubSeqFull
      <4> QED BY <2>2, <4>1, <4>2
    <3>5. LogTyped'
      BY <1>1, <2>1, <3>1, <3>3 DEF LogTyped
    <3>6. FileSettled(p)' /\ LineDecided(p)'
      BY <2>1, <3>1, <3>2, <3>3 DEF LogInv, FileSettled, LineDecided
    <3>7. CompactFaithful(p)'
      BY <2>1, <2>2, <3>1, <3>2, <3>3, <3>4 DEF CompactFaithful, q
    <3> QED BY <3>5, <3>6, <3>7 DEF LogInv
  <2> QED BY <2>3, <2>4
<1>13. CASE Rename(p)
  <2>1. /\ op[p].step = "rename" /\ file' = temp[p] /\ ended' = TRUE
        /\ temp' = [temp EXCEPT ![p] = <<>>] /\ UNCHANGED done
        /\ op' = [w \in Writers |-> Idle]
    BY <1>13 DEF Rename, SetTemp
  <2>2. op'[p] = Idle /\ op' \in [Writers -> Ops]
    BY <1>1, <1>4, <2>1
  <2>3. temp'[p] = <<>> /\ temp' \in [Writers -> Seq(Whole)]
    BY <1>1, <2>1, EmptySeq
  <2>4. temp[p] = Snapshot(q) /\ Fold(file) = done
    BY <2>1 DEF LogInv, CompactFaithful, FileSettled, q
  <2>5. file' \in Seq(Whole) /\ Fold(file') = done
    BY <1>1, <2>1, <2>4, FoldSnapshot DEF q
  <2>6. LogTyped'
    BY <2>2, <2>3, <2>5 DEF LogTyped
  <2>7. FileSettled(p)'
    BY <1>4, <2>1, <2>2, <2>5 DEF FileSettled
  <2>8. LineDecided(p)' /\ CompactFaithful(p)'
    BY <1>4, <2>2, <2>3 DEF LineDecided, CompactFaithful
  <2> QED BY <2>6, <2>7, <2>8 DEF LogInv
<1>14. CASE Kill(p)
  <2>1. /\ op[p].step # "newline" /\ op' = [op EXCEPT ![p] = Idle]
        /\ temp' = [temp EXCEPT ![p] = <<>>] /\ UNCHANGED <<file, ended, done>>
    BY <1>14 DEF Kill, SetOp, SetTemp
  <2>2. op'[p] = Idle /\ op' \in [Writers -> Ops]
    BY <1>2, <1>3, <1>4, <2>1
  <2>3. temp'[p] = <<>> /\ temp' \in [Writers -> Seq(Whole)]
    BY <1>1, <2>1, EmptySeq
  <2>4. LogTyped'
    BY <1>1, <2>1, <2>2, <2>3 DEF LogTyped
  <2>5. FileSettled(p)'
    BY <1>4, <2>1, <2>2 DEF LogInv, FileSettled
  <2>6. LineDecided(p)' /\ CompactFaithful(p)'
    BY <1>4, <2>2, <2>3 DEF LineDecided, CompactFaithful
  <2> QED BY <2>4, <2>5, <2>6 DEF LogInv
<1>15. CASE UNCHANGED logVars
  BY <1>15 DEF logVars, LogInv, LogTyped, FileSettled, LineDecided, CompactFaithful
<1> QED
  BY <1>5, <1>6, <1>7, <1>8, <1>9, <1>10, <1>11, <1>12, <1>13, <1>14, <1>15 DEF LogNext

-----------------------------------------------------------------------------
(* Outbox of backend.rs, one process, kills between its operations and     *)
(* between the writes of a compaction: whenever no call is under way, a    *)
(* reader of the file finds the queue the last successful call left.       *)
THEOREM ReadersAgreeCorrect ==
    ASSUME NEW p, Writers = {p}, ~TornKills
    PROVE  LogSpec => []ReadersAgree
<1>1. LogInit => LogInv(p)
  BY LogInitially
<1>2. LogInv(p) /\ [LogNext]_logVars => LogInv(p)'
  BY LogInductive
<1>3. LogInv(p) => ReadersAgree
  BY DEF LogInv, FileSettled, ReadersAgree
<1> QED
  BY <1>1, <1>2, <1>3, PTL DEF LogSpec

(* The queue that the file stands for changes when a line is written, and  *)
(* then by the operation the line was decided for; the newline, a          *)
(* compaction and a kill leave it.                                         *)
LEMMA FoldMoves ==
    ASSUME NEW p, Writers = {p}, ~TornKills, LogInv(p), LogInv(p)', [LogNext]_logVars
    PROVE  [Queue!QueueNext]_(Fold(file))
<1>1. /\ file \in Seq(Whole) /\ op \in [Writers -> Ops] /\ op[p] \in Ops /\ p \in Writers
      /\ Fold(file) \in UniqueQueues
  BY FoldType DEF LogInv, LogTyped
<1>2. CASE UNCHANGED file
  BY <1>2
<1>3. CASE WriteBody(p)
  <2>1. op[p].step = "body" /\ ended /\ ~op[p].orphan
    BY <1>1, <1>3 DEF WriteBody, LogInv, FileSettled, Ops
  <2>2. file' = Append(file, op[p].line)
    BY <1>3, <2>1 DEF WriteBody
  <2>3. op[p].line \in Whole
    BY <2>1 DEF LogInv, LineDecided
  <2>4. PICK k \in OutboxKeys :
           \/ op[p].line = Pending(k, FALSE) /\ ~HasKey(Fold(file), k)
           \/ op[p].line = Pending(k, TRUE) /\ HasKey(Fold(file), k)
           \/ op[p].line = Completed(k)
    BY <2>1 DEF LogInv, LineDecided
  <2>5. Fold(file') = ReadLine(Fold(file), op[p].line)
    BY <1>1, <2>2, <2>3, FoldAppend
  <2>6. CASE op[p].line = Pending(k, FALSE) /\ ~HasKey(Fold(file), k)
    <3>1. Fold(file') = AppendPending(Fold(file), k)
      BY <1>1, <2>5, <2>6, PendingLine
    <3>2. Queue!Enqueue(k)
      BY <3>1 DEF Queue!Enqueue, Queue!AppendPending, Queue!HasKey, AppendPending, HasKey
    <3> QED BY <3>2 DEF Queue!QueueNext
  <2>7. CASE op[p].line = Pending(k, TRUE) /\ HasKey(Fold(file), k)
    <3>1. Fold(file') = MarkCommitted(Fold(file), k)
      BY <1>1, <2>5, <2>7, CommittedLine
    <3>2. Queue!Flag(k)
      BY <2>7, <3>1 DEF Queue!Flag, Queue!MarkCommitted, Queue!HasKey, MarkCommitted, HasKey
    <3> QED BY <3>2 DEF Queue!QueueNext
  <2>8. CASE op[p].line = Completed(k)
    <3>1. Fold(file') = Complete(Fold(file), k)
      BY <1>1, <2>5, <2>8, CompletedLine
    <3>2. Queue!Remove(k)
      BY <3>1 DEF Queue!Remove, Queue!Complete, Queue!HasKey, Complete, HasKey
    <3> QED BY <3>2 DEF Queue!QueueNext
  <2> QED BY <2>4, <2>6, <2>7, <2>8
<1>4. CASE Truncate(p)
  <2>1. Fold(file) = <<>> /\ file' = <<>>
    BY <1>4 DEF Truncate, LogInv, CompactFaithful
  <2> QED BY <2>1, FoldEmpty
<1>5. CASE Rename(p)
  <2>1. file' = Snapshot(Fold(file))
    BY <1>5 DEF Rename, LogInv, CompactFaithful
  <2> QED BY <1>1, <2>1, FoldSnapshot
<1>6. \/ UNCHANGED file
      \/ WriteBody(p) \/ Truncate(p) \/ Rename(p)
  BY DEF LogNext, logVars, AppendPendingCall, MarkEntryCall, CompleteCall, CompactCall, Start,
         WriteNewline, WriteTemporary, Kill
<1> QED
  BY <1>2, <1>3, <1>4, <1>5, <1>6

(* Outbox of backend.rs, one process, kills between its operations and     *)
(* between the writes of a compaction: the file is an implementation of    *)
(* the queue, in every one of whose steps one whole operation takes place. *)
THEOREM LogRefinesQueue ==
    ASSUME NEW p, Writers = {p}, ~TornKills
    PROVE  LogSpec => LogImplementsQueue
<1>1. LogInit => LogInv(p)
  BY LogInitially
<1>2. LogInv(p) /\ [LogNext]_logVars => LogInv(p)'
  BY LogInductive
<1>3. LogInit => Queue!QueueInit
  BY FoldEmpty DEF LogInit, Queue!QueueInit
<1>4. LogInv(p) /\ LogInv(p)' /\ [LogNext]_logVars => [Queue!QueueNext]_(Fold(file))
  BY FoldMoves
<1> QED
  BY <1>1, <1>2, <1>3, <1>4, PTL DEF LogSpec, LogImplementsQueue, Queue!QueueSpec
-----------------------------------------------------------------------------
(***************************************************************************)
(* The type and the safety properties of CoordinatorProps for every set of *)
(* nodes and calls and every number and kind of faults.  Safety follows    *)
(* from one inductive invariant: what the handlers hold in their locals    *)
(* between two steps is already logged, published or recorded.             *)
(***************************************************************************)

(* The operations on images stay within images, and a call that was        *)
(* applied has an effect.                                                  *)
LEMMA ImageFacts ==
    /\ EmptyImage \in Images
    /\ \A image \in Images, k \in Keys : Apply(image, k) \in Images /\ Apply(image, k)[k] > 0
    /\ \A image \in Images : \A S : Project(image, S) \in Images
    /\ \A r, image \in Images : \A S : Overlay(r, image, S) \in Images
    /\ \A r, c, image \in Images : \A S : ApplyDelta(r, c, image, S) \in Images
<1> USE ImageAssumption DEF Images
<1>1. EmptyImage \in Images
  BY DEF EmptyImage
<1>2. ASSUME NEW image \in Images, NEW k \in Keys
      PROVE  Apply(image, k) \in Images /\ Apply(image, k)[k] > 0
  <2>1. image[k] \in 0..MaxCopies
    OBVIOUS
  <2> QED BY <2>1 DEF Apply
<1>3. ASSUME NEW image \in Images, NEW S PROVE Project(image, S) \in Images
  BY DEF Project
<1>4. ASSUME NEW r \in Images, NEW image \in Images, NEW S PROVE Overlay(r, image, S) \in Images
  BY DEF Overlay
<1>5. ASSUME NEW r \in Images, NEW c \in Images, NEW image \in Images, NEW S
      PROVE  ApplyDelta(r, c, image, S) \in Images
  BY DEF ApplyDelta
<1> QED
  BY <1>1, <1>2, <1>3, <1>4, <1>5

(* The queue operations, for the queue of a node.                          *)
LEMMA QueueFacts ==
    ASSUME NEW q \in Seq(Entries), NEW k \in Keys
    PROVE  /\ AppendPending(q, k) \in Seq(Entries)
           /\ MarkCommitted(q, k) \in Seq(Entries)
           /\ Complete(q, k) \in Seq(Entries)
  BY CoordinatorAssumption, AppendPendingFacts, MarkCommittedFacts, CompleteFacts

(* The entries one pass of the reconciliation handles are calls.           *)
LEMMA BatchFacts ==
    ASSUME TypeOK, NEW n \in Nodes
    PROVE  CommittedBatch(n) \subseteq Keys /\ UncommittedBatch(n) \subseteq Keys
  BY CoordinatorAssumption, FirstBatchFacts DEF TypeOK, FilesTypeOK, CommittedBatch, UncommittedBatch

-----------------------------------------------------------------------------
(* Updates of the running handler's locals.                                *)
LEMMA WorkUpdates ==
    /\ NoWork \in Work
    /\ \A k \in Keys : [NoWork EXCEPT !.key = k] \in Work
    /\ \A v \in {"open", "reconnect", "tick"}, S \in SUBSET Keys :
         [NoWork EXCEPT !.via = v, !.todo = S] \in Work /\ [NoWork EXCEPT !.via = v] \in Work
    /\ \A w \in Work, S, T \in SUBSET Keys :
         /\ [w EXCEPT !.todo = S] \in Work /\ [w EXCEPT !.done = S] \in Work
         /\ [w EXCEPT !.applied = S] \in Work /\ [w EXCEPT !.refused = S] \in Work
         /\ [w EXCEPT !.todo = S, !.done = T] \in Work
         /\ [w EXCEPT !.todo = S, !.done = T, !.second = TRUE] \in Work
         /\ [w EXCEPT !.todo = S, !.refused = T] \in Work
         /\ [w EXCEPT !.todo = S, !.applied = T] \in Work
         /\ [w EXCEPT !.refused = S, !.applied = T] \in Work
         /\ [w EXCEPT !.todo = S, !.resume = "conflict"] \in Work
    /\ \A w \in Work, S, T, U \in SUBSET Keys, k \in Keys :
         /\ [w EXCEPT !.todo = S, !.applied = T, !.local = U] \in Work
         /\ [w EXCEPT !.todo = S, !.key = k] \in Work
         /\ [w EXCEPT !.todo = S, !.key = k, !.resume = "scan"] \in Work
<1>1. NoWork \in Work
  BY DEF Work, NoWork
<1>2. ASSUME NEW k \in Keys PROVE [NoWork EXCEPT !.key = k] \in Work
  BY DEF Work, NoWork
<1>3. ASSUME NEW v \in {"open", "reconnect", "tick"}, NEW S \in SUBSET Keys
      PROVE  [NoWork EXCEPT !.via = v, !.todo = S] \in Work /\ [NoWork EXCEPT !.via = v] \in Work
  BY DEF Work, NoWork
<1>4. ASSUME NEW w \in Work, NEW S \in SUBSET Keys, NEW T \in SUBSET Keys
      PROVE  /\ [w EXCEPT !.todo = S] \in Work /\ [w EXCEPT !.done = S] \in Work
             /\ [w EXCEPT !.applied = S] \in Work /\ [w EXCEPT !.refused = S] \in Work
             /\ [w EXCEPT !.todo = S, !.done = T] \in Work
             /\ [w EXCEPT !.todo = S, !.done = T, !.second = TRUE] \in Work
             /\ [w EXCEPT !.todo = S, !.refused = T] \in Work
             /\ [w EXCEPT !.todo = S, !.applied = T] \in Work
             /\ [w EXCEPT !.refused = S, !.applied = T] \in Work
             /\ [w EXCEPT !.todo = S, !.resume = "conflict"] \in Work
  BY DEF Work
<1>5. ASSUME NEW w \in Work, NEW S \in SUBSET Keys, NEW T \in SUBSET Keys,
             NEW U \in SUBSET Keys, NEW k \in Keys
      PROVE  /\ [w EXCEPT !.todo = S, !.applied = T, !.local = U] \in Work
             /\ [w EXCEPT !.todo = S, !.key = k] \in Work
             /\ [w EXCEPT !.todo = S, !.key = k, !.resume = "scan"] \in Work
  BY DEF Work
<1> QED
  BY <1>1, <1>2, <1>3, <1>4, <1>5

(* Updates of CoordinatorInner.                                            *)
LEMMA MemoryUpdates ==
    /\ Detached \in Memory
    /\ \A m \in Memory, i, c \in Images, r, t \in Nat, b, d \in BOOLEAN :
         /\ [m EXCEPT !.link = "dead"] \in Memory
         /\ [m EXCEPT !.active = i] \in Memory
         /\ [m EXCEPT !.link = "none", !.active = i] \in Memory
         /\ [m EXCEPT !.usesLocal = b, !.replayCommitted = d] \in Memory
         /\ [m EXCEPT !.revision = t, !.cache = c] \in Memory
         /\ [m EXCEPT !.revision = t, !.snapshotRevision = r, !.cache = c] \in Memory
         /\ [m EXCEPT !.active = i, !.cache = c, !.revision = r, !.snapshotRevision = r] \in Memory
         /\ [link |-> "open", active |-> i, cache |-> c, revision |-> r, snapshotRevision |-> r,
              usesLocal |-> b, replayCommitted |-> d] \in Memory
<1>1. Detached \in Memory
  BY ImageFacts DEF Memory, Detached
<1>2. ASSUME NEW m \in Memory, NEW i \in Images, NEW c \in Images, NEW r \in Nat, NEW t \in Nat,
             NEW b \in BOOLEAN, NEW d \in BOOLEAN
      PROVE  /\ [m EXCEPT !.link = "dead"] \in Memory
             /\ [m EXCEPT !.active = i] \in Memory
             /\ [m EXCEPT !.link = "none", !.active = i] \in Memory
             /\ [m EXCEPT !.usesLocal = b, !.replayCommitted = d] \in Memory
             /\ [m EXCEPT !.revision = t, !.cache = c] \in Memory
             /\ [m EXCEPT !.revision = t, !.snapshotRevision = r, !.cache = c] \in Memory
             /\ [m EXCEPT !.active = i, !.cache = c, !.revision = r, !.snapshotRevision = r] \in Memory
             /\ [link |-> "open", active |-> i, cache |-> c, revision |-> r, snapshotRevision |-> r,
                  usesLocal |-> b, replayCommitted |-> d] \in Memory
  <2>1. [m EXCEPT !.link = "dead"] \in Memory
    BY DEF Memory
  <2>2. [m EXCEPT !.active = i] \in Memory
    BY DEF Memory
  <2>3. [m EXCEPT !.link = "none", !.active = i] \in Memory
    BY DEF Memory
  <2>4. [m EXCEPT !.usesLocal = b, !.replayCommitted = d] \in Memory
    BY DEF Memory
  <2>5. [m EXCEPT !.revision = t, !.cache = c] \in Memory
    BY DEF Memory
  <2>6. [m EXCEPT !.revision = t, !.snapshotRevision = r, !.cache = c] \in Memory
    BY DEF Memory
  <2>7. [m EXCEPT !.active = i, !.cache = c, !.revision = r, !.snapshotRevision = r] \in Memory
    BY DEF Memory
  <2>8. [link |-> "open", active |-> i, cache |-> c, revision |-> r, snapshotRevision |-> r, usesLocal |-> b, replayCommitted |-> d] \in Memory
    BY DEF Memory
  <2> QED
    BY <2>1, <2>2, <2>3, <2>4, <2>5, <2>6, <2>7, <2>8
<1> QED
  BY <1>1, <1>2

-----------------------------------------------------------------------------
(* The state a step leaves alone keeps its type.                           *)
LEMMA Kept ==
    ASSUME TypeOK
    PROVE  /\ UNCHANGED redisVars => RedisTypeOK'
           /\ UNCHANGED fileVars => FilesTypeOK'
           /\ UNCHANGED <<mem, pc, work>> => NodeTypeOK'
           /\ UNCHANGED callVars => CallsTypeOK'
           /\ NoFault => faults' \in Nat
           /\ \A kind : Fault(kind) => faults' \in Nat
           /\ \A n, name : LineFails(n, name) => faults' \in Nat
<1>1. UNCHANGED redisVars => RedisTypeOK'
  BY DEF TypeOK, RedisTypeOK, redisVars
<1>2. UNCHANGED fileVars => FilesTypeOK'
  BY DEF TypeOK, FilesTypeOK, fileVars
<1>3. UNCHANGED <<mem, pc, work>> => NodeTypeOK'
  BY DEF TypeOK, NodeTypeOK
<1>4. UNCHANGED callVars => CallsTypeOK'
  BY DEF TypeOK, CallsTypeOK, callVars
<1>5. NoFault => faults' \in Nat
  BY DEF TypeOK, NoFault
<1>6. ASSUME NEW kind, Fault(kind) PROVE faults' \in Nat
  BY <1>6 DEF TypeOK, Fault
<1>7. ASSUME NEW n, NEW name, LineFails(n, name) PROVE faults' \in Nat
  BY <1>5, <1>6, <1>7 DEF LineFails
<1> QED
  BY <1>1, <1>2, <1>3, <1>4, <1>5, <1>6, <1>7

(* What a step writes with the shared operators has its type if the values *)
(* written have theirs.                                                    *)
LEMMA NodeWrites ==
    ASSUME TypeOK, NEW n \in Nodes
    PROVE  /\ \A m \in Memory : SetMem(n, m) => mem' \in [Nodes -> Memory]
           /\ UNCHANGED mem => mem' \in [Nodes -> Memory]
           /\ \A l \in Labels, w \in Work :
                 (/\ Goto(n, l) /\ SetWork(n, w)
                  /\ l \in CallLabels => w.key \in Keys
                  /\ mem' \in [Nodes -> Memory]) => NodeTypeOK'
           /\ \A l \in Labels :
                 (/\ Goto(n, l) /\ UNCHANGED work
                  /\ l \in CallLabels => work[n].key \in Keys
                  /\ mem' \in [Nodes -> Memory]) => NodeTypeOK'
           /\ \A w \in Work :
                 (/\ UNCHANGED pc /\ SetWork(n, w)
                  /\ pc[n] \notin CallLabels
                  /\ mem' \in [Nodes -> Memory]) => NodeTypeOK'
           /\ (UNCHANGED <<pc, work>> /\ mem' \in [Nodes -> Memory]) => NodeTypeOK'
<1> USE DEF TypeOK, NodeTypeOK
<1>1. ASSUME NEW m \in Memory, SetMem(n, m) PROVE mem' \in [Nodes -> Memory]
  BY <1>1 DEF SetMem
<1>2. UNCHANGED mem => mem' \in [Nodes -> Memory]
  OBVIOUS
<1>3. ASSUME NEW l \in Labels, NEW w \in Work, Goto(n, l), SetWork(n, w),
             l \in CallLabels => w.key \in Keys, mem' \in [Nodes -> Memory]
      PROVE  NodeTypeOK'
  BY <1>3 DEF Goto, SetWork
<1>4. ASSUME NEW l \in Labels, Goto(n, l), UNCHANGED work,
             l \in CallLabels => work[n].key \in Keys, mem' \in [Nodes -> Memory]
      PROVE  NodeTypeOK'
  BY <1>4 DEF Goto
<1>5. ASSUME NEW w \in Work, UNCHANGED pc, SetWork(n, w),
             pc[n] \notin CallLabels, mem' \in [Nodes -> Memory]
      PROVE  NodeTypeOK'
  BY <1>5 DEF SetWork
<1>6. UNCHANGED <<pc, work>> /\ mem' \in [Nodes -> Memory] => NodeTypeOK'
  OBVIOUS
<1> QED
  BY <1>1, <1>2, <1>3, <1>4, <1>5, <1>6

(* What a step writes to the files of a node has its type likewise.        *)
LEMMA FileWrites ==
    ASSUME TypeOK, NEW n \in Nodes
    PROVE  /\ \A i \in Images : SetStandby(n, i) => standby' \in [Nodes -> Images]
           /\ UNCHANGED standby => standby' \in [Nodes -> Images]
           /\ \A q \in Seq(Entries) : SetOutbox(n, q) => outbox' \in [Nodes -> Seq(Entries)]
           /\ UNCHANGED outbox => outbox' \in [Nodes -> Seq(Entries)]
           /\ UNCHANGED rejected => rejected' \in [Nodes -> SUBSET Keys]
           /\ \A k \in Keys : rejected' = [rejected EXCEPT ![n] = @ \cup {k}]
                               => rejected' \in [Nodes -> SUBSET Keys]
           /\ UNCHANGED full => full' \in [Nodes -> SUBSET {"log", "audit"}]
           /\ Compact(n) => full' \in [Nodes -> SUBSET {"log", "audit"}]
           /\ standby[n] \in Images /\ mem[n].active \in Images /\ mem[n].cache \in Images
           /\ mem[n].revision \in Nat
           /\ Served(n) \in Images
<1> USE DEF TypeOK, FilesTypeOK
<1>1. ASSUME NEW i \in Images, SetStandby(n, i) PROVE standby' \in [Nodes -> Images]
  BY <1>1 DEF SetStandby
<1>2. ASSUME NEW q \in Seq(Entries), SetOutbox(n, q) PROVE outbox' \in [Nodes -> Seq(Entries)]
  BY <1>2 DEF SetOutbox
<1>3. ASSUME NEW k \in Keys, rejected' = [rejected EXCEPT ![n] = @ \cup {k}]
      PROVE  rejected' \in [Nodes -> SUBSET Keys]
  BY <1>3
<1>4. /\ standby[n] \in Images /\ mem[n].active \in Images /\ mem[n].cache \in Images
      /\ mem[n].revision \in Nat
  BY DEF NodeTypeOK, Memory
<1>5. Served(n) \in Images
  BY <1>4 DEF Served
<1>6. Compact(n) => full' \in [Nodes -> SUBSET {"log", "audit"}]
  BY DEF Compact
<1> QED
  BY <1>1, <1>2, <1>3, <1>4, <1>5, <1>6

(* The operators the handlers share, typed.                                *)
LEMMA SharedTyped ==
    ASSUME TypeOK, NEW n \in Nodes
    PROVE  /\ \A image \in Images : PublishImage(image) => RedisTypeOK' /\ revision' \in Nat
           /\ \A S \in SUBSET Keys : PublishDeltas(n, S) => RedisTypeOK'
           /\ \A S : AfterDeltas(n, S) \in Memory
           /\ AfterImage(n) \in Memory
           /\ EnterSqliteFallback(n) => /\ standby' \in [Nodes -> Images]
                                        /\ mem' \in [Nodes -> Memory]
           /\ SyncFromRedis(n) => standby' \in [Nodes -> Images] /\ mem' \in [Nodes -> Memory]
<1> USE FileWrites, ImageFacts
<1>1. ASSUME NEW image \in Images, PublishImage(image) PROVE RedisTypeOK' /\ revision' \in Nat
  BY <1>1 DEF TypeOK, RedisTypeOK, PublishImage
<1>2. ASSUME NEW S \in SUBSET Keys, PublishDeltas(n, S) PROVE RedisTypeOK'
  BY <1>2 DEF TypeOK, RedisTypeOK, PublishDeltas
<1>3. mem[n] \in Memory /\ mem[n].revision + 1 \in Nat
  BY DEF TypeOK, NodeTypeOK
<1>4. AfterImage(n) \in Memory
  BY <1>3, MemoryUpdates DEF AfterImage
<1>5. ASSUME NEW S PROVE AfterDeltas(n, S) \in Memory
  BY <1>3, MemoryUpdates DEF AfterDeltas
<1>6. ASSUME EnterSqliteFallback(n)
      PROVE  standby' \in [Nodes -> Images] /\ mem' \in [Nodes -> Memory]
  <2>1. [mem[n] EXCEPT !.link = "none", !.active = EmptyImage] \in Memory
    BY <1>3, MemoryUpdates
  <2> QED
    BY <1>6, <2>1, NodeWrites DEF EnterSqliteFallback
<1>7. ASSUME SyncFromRedis(n)
      PROVE  standby' \in [Nodes -> Images] /\ mem' \in [Nodes -> Memory]
  <2>1. snapshot \in Images /\ revision \in Nat
    BY DEF TypeOK, RedisTypeOK
  <2>2. [mem[n] EXCEPT !.active = snapshot,
                       !.cache = Project(snapshot, KnownWorkspaces(snapshot)),
                       !.revision = revision, !.snapshotRevision = revision] \in Memory
    BY <1>3, <2>1, MemoryUpdates
  <2> QED
    BY <1>7, <2>1, <2>2, NodeWrites DEF SyncFromRedis
<1> QED
  BY <1>1, <1>2, <1>4, <1>5, <1>6, <1>7

(* Giving up a reconciliation (Abandon) keeps the types.                   *)
LEMMA AbandonTyped ==
    ASSUME TypeOK, NEW n \in Nodes, Abandon(n)
    PROVE  NodeTypeOK' /\ standby' \in [Nodes -> Images]
<1>1. mem' \in [Nodes -> Memory] /\ standby' \in [Nodes -> Images]
  BY SharedTyped, NodeWrites, FileWrites DEF Abandon
<1> QED
  BY <1>1, NodeWrites, WorkUpdates DEF Abandon, Labels, CallLabels

(* Answering a call, in either mode, keeps the types of the history.       *)
LEMMA AcknowledgeTyped ==
    ASSUME TypeOK, NEW n \in Nodes, NEW k \in Keys,
           Acknowledge(n, k) \/ AcknowledgeDegraded(n, k)
    PROVE  CallsTypeOK'
<1>1. acked' \in [Nodes -> [Keys -> Nat]] /\ issued' \in [Nodes -> [Keys -> Nat]]
  <2>1. acked' = [acked EXCEPT ![n][k] = @ + 1] /\ issued' = issued
    BY Zenon DEF Acknowledge, AcknowledgeDegraded
  <2> QED BY <2>1 DEF TypeOK, CallsTypeOK
<1>2. shadowed' \in [Nodes -> SUBSET Keys]
  BY DEF TypeOK, CallsTypeOK, Acknowledge, AcknowledgeDegraded
<1> QED
  BY <1>1, <1>2 DEF CallsTypeOK

-----------------------------------------------------------------------------
(* A new coordinator on a new namespace has its type.                      *)
THEOREM TypeInit == Init => TypeOK
<1> SUFFICES ASSUME Init PROVE TypeOK
  OBVIOUS
<1>1. RedisTypeOK
  <2>0. redisUp \in BOOLEAN /\ schema \in BOOLEAN
    BY Zenon DEF Init
  <2>1. revision \in Nat
    BY DEF Init
  <2>2. snapshot \in Images /\ native \in Images
    BY ImageFacts DEF Init
  <2>3. ledger \in [Keys -> {"none", "conflict", "committed"}] /\ published \in SUBSET Keys
    BY DEF Init
  <2> QED BY <2>0, <2>1, <2>2, <2>3 DEF RedisTypeOK
<1>2. FilesTypeOK
  BY ImageFacts DEF Init, FilesTypeOK
<1>3. [NoWork EXCEPT !.via = "open"] \in Work
  BY WorkUpdates
<1>4. NodeTypeOK
  BY <1>3, MemoryUpdates DEF Init, NodeTypeOK, Labels, CallLabels
<1>5. CallsTypeOK /\ faults \in Nat
  BY DEF Init, CallsTypeOK
<1> QED
  BY <1>1, <1>2, <1>4, <1>5 DEF TypeOK

(* Every step of execute_tool keeps the types.                             *)
LEMMA CallTyped ==
    ASSUME TypeOK, NEW n \in Nodes, Call(n)
    PROVE  TypeOK'
<1> USE DEF fileVars, CallLabels, Labels
<1>0. /\ pc[n] \in CallLabels => work[n].key \in Keys
      /\ work[n] \in Work /\ mem[n] \in Memory /\ outbox[n] \in Seq(Entries)
  BY DEF TypeOK, NodeTypeOK, FilesTypeOK
<1>1. ASSUME NEW k \in Keys, BeginCall(n, k) PROVE TypeOK'
  <2>1. RedisTypeOK' /\ faults' \in Nat
    BY <1>1, Kept DEF BeginCall
  <2>2. FilesTypeOK'
    BY <1>0, <1>1, FileWrites, QueueFacts DEF BeginCall, FilesTypeOK
  <2>3. NodeTypeOK'
    <3>1. [NoWork EXCEPT !.key = k] \in Work /\ [NoWork EXCEPT !.key = k].key = k
      BY WorkUpdates DEF NoWork
    <3> QED BY <1>1, <3>1, NodeWrites DEF BeginCall
  <2>4. CallsTypeOK'
    BY <1>1 DEF BeginCall, TypeOK, CallsTypeOK
  <2> QED BY <2>1, <2>2, <2>3, <2>4 DEF TypeOK
<1>2. ASSUME ExecuteAccepted(n) PROVE TypeOK'
  <2> DEFINE k == work[n].key
  <2>1. k \in Keys
    BY <1>0, <1>2 DEF ExecuteAccepted
  <2>2. RedisTypeOK' /\ faults' \in Nat
    BY <1>2, Kept DEF ExecuteAccepted
  <2>3. Apply(standby[n], k) \in Images /\ Apply(mem[n].active, k) \in Images
    BY <2>1, FileWrites, ImageFacts
  <2>4. FilesTypeOK'
    BY <1>2, <2>3, FileWrites DEF ExecuteAccepted, FilesTypeOK
  <2>5. [mem[n] EXCEPT !.active = Apply(@, k)] \in Memory
    BY <1>0, <2>3, MemoryUpdates
  <2>6. NodeTypeOK'
    BY <1>2, <2>1, <2>5, NodeWrites, WorkUpdates DEF ExecuteAccepted
  <2>7. CallsTypeOK'
    BY <1>2, <2>1, Kept, AcknowledgeTyped DEF ExecuteAccepted
  <2> QED BY <2>2, <2>4, <2>6, <2>7 DEF TypeOK
<1>3. ASSUME ExecuteRefused(n) PROVE TypeOK'
  <2>1. RedisTypeOK' /\ FilesTypeOK' /\ CallsTypeOK' /\ faults' \in Nat
    BY <1>3, Kept DEF ExecuteRefused
  <2>2. NodeTypeOK'
    BY <1>0, <1>3, NodeWrites DEF ExecuteRefused
  <2> QED BY <2>1, <2>2 DEF TypeOK
<1>4. ASSUME AbortCall(n) PROVE TypeOK'
  <2>1. RedisTypeOK' /\ CallsTypeOK' /\ faults' \in Nat
    BY <1>4, Kept DEF AbortCall
  <2>2. FilesTypeOK'
    BY <1>0, <1>4, FileWrites, QueueFacts DEF AbortCall, FilesTypeOK
  <2>3. NodeTypeOK'
    BY <1>4, NodeWrites, WorkUpdates DEF AbortCall
  <2> QED BY <2>1, <2>2, <2>3 DEF TypeOK
<1>5. ASSUME CallPublished(n) PROVE TypeOK'
  <2>1. FilesTypeOK' /\ CallsTypeOK' /\ faults' \in Nat
    BY <1>5, Kept DEF CallPublished
  <2>2. {work[n].key} \in SUBSET Keys
    BY <1>0, <1>5 DEF CallPublished
  <2>3. RedisTypeOK'
    BY <1>5, <2>2, SharedTyped DEF CallPublished
  <2>4. NodeTypeOK'
    BY <1>0, <1>5, <2>2, SharedTyped, NodeWrites DEF CallPublished
  <2> QED BY <2>1, <2>3, <2>4 DEF TypeOK
<1>6. ASSUME CallUnpublished(n) PROVE TypeOK'
  <2>1. {work[n].key} \in SUBSET Keys
    BY <1>0, <1>6 DEF CallUnpublished
  <2>2. RedisTypeOK' /\ faults' \in Nat
    BY <1>6, <2>1, Kept, SharedTyped DEF CallUnpublished
  <2>3. FilesTypeOK'
    BY <1>6, SharedTyped, FileWrites DEF CallUnpublished, FilesTypeOK
  <2>4. NodeTypeOK'
    BY <1>6, SharedTyped, NodeWrites, WorkUpdates DEF CallUnpublished
  <2>5. CallsTypeOK'
    BY <1>6, <2>1, AcknowledgeTyped DEF CallUnpublished
  <2> QED BY <2>2, <2>3, <2>4, <2>5 DEF TypeOK
<1>7. ASSUME CallConflict(n) PROVE TypeOK'
  <2>1. RedisTypeOK' /\ CallsTypeOK' /\ faults' \in Nat
    BY <1>7, Kept DEF CallConflict
  <2>2. FilesTypeOK'
    BY <1>7, SharedTyped, FileWrites DEF CallConflict, FilesTypeOK
  <2>3. NodeTypeOK'
    BY <1>7, SharedTyped, NodeWrites, WorkUpdates DEF CallConflict
  <2> QED BY <2>1, <2>2, <2>3 DEF TypeOK
<1>8. ASSUME MarkCall(n) PROVE TypeOK'
  <2>1. work[n].key \in Keys
    BY <1>0, <1>8 DEF MarkCall
  <2>2. RedisTypeOK' /\ faults' \in Nat
    BY <1>8, Kept DEF MarkCall
  <2>3. FilesTypeOK'
    BY <1>0, <1>8, <2>1, FileWrites, QueueFacts DEF MarkCall, FilesTypeOK
  <2>4. NodeTypeOK'
    BY <1>8, NodeWrites, WorkUpdates DEF MarkCall
  <2>5. CallsTypeOK'
    BY <1>8, <2>1, Kept, AcknowledgeTyped DEF MarkCall, callVars
  <2> QED BY <2>2, <2>3, <2>4, <2>5 DEF TypeOK
<1> QED
  BY <1>1, <1>2, <1>3, <1>4, <1>5, <1>6, <1>7, <1>8 DEF Call

(* Attaching, opening and the watcher's tick keep the types.               *)
LEMMA ConnectTyped ==
    ASSUME TypeOK, NEW n \in Nodes, Connect(n)
    PROVE  TypeOK'
<1> USE DEF fileVars, CallLabels, Labels
<1>0. /\ standby[n] \in Images /\ snapshot \in Images /\ native \in Images
      /\ AttachImage(n) \in Images /\ revision \in Nat
  BY FileWrites DEF TypeOK, RedisTypeOK, AttachImage
<1>1. ASSUME Attach(n) PROVE TypeOK'
  <2> DEFINE image == AttachImage(n)
             known == KnownWorkspaces(image)
             cache == IF Recovering(n) /\ ~Rebuilds THEN Project(native, known)
                      ELSE Project(image, known)
  <2>1. CallsTypeOK' /\ faults' \in Nat
    BY <1>1, Kept DEF Attach
  <2>2. RedisTypeOK' /\ revision' \in Nat
    BY <1>0, <1>1, Kept, SharedTyped DEF Attach, TypeOK, RedisTypeOK, redisVars
  <2>3. FilesTypeOK'
    BY <1>0, <1>1, FileWrites DEF Attach, FilesTypeOK
  <2>4. cache \in Images
    BY <1>0, ImageFacts
  <2>5. /\ Recovering(n) \in BOOLEAN
        /\ (~Recovering(n) /\ outbox[n] # <<>>) \in BOOLEAN
    BY DEF Recovering, Uncommitted
  <2>6. mem' \in [Nodes -> Memory]
    <3> HIDE DEF cache
    <3>1. [link |-> "open", active |-> image, cache |-> cache,
           revision |-> revision', snapshotRevision |-> revision',
           usesLocal |-> Recovering(n),
           replayCommitted |-> ~Recovering(n) /\ outbox[n] # <<>>] \in Memory
      BY <1>0, <2>2, <2>4, <2>5, MemoryUpdates
    <3> QED BY <1>1, <3>1, NodeWrites DEF Attach, cache
  <2>7. NodeTypeOK'
    BY <1>1, <2>6, NodeWrites, WorkUpdates, BatchFacts DEF Attach, StartReplay
  <2> QED BY <2>1, <2>2, <2>3, <2>7 DEF TypeOK
<1>2. ASSUME AttachFails(n) PROVE TypeOK'
  <2>1. RedisTypeOK' /\ CallsTypeOK' /\ faults' \in Nat
    BY <1>0, <1>2, Kept, SharedTyped DEF AttachFails
  <2>2. FilesTypeOK'
    BY <1>0, <1>2, FileWrites DEF AttachFails, FilesTypeOK
  <2>3. NodeTypeOK'
    BY <1>2, NodeWrites, WorkUpdates DEF AttachFails
  <2> QED BY <2>1, <2>2, <2>3 DEF TypeOK
<1>3. ASSUME OpenUnreachable(n) PROVE TypeOK'
  <2>1. RedisTypeOK' /\ FilesTypeOK' /\ CallsTypeOK' /\ faults' \in Nat
    BY <1>3, Kept DEF OpenUnreachable
  <2>2. NodeTypeOK'
    BY <1>3, NodeWrites, WorkUpdates DEF OpenUnreachable
  <2> QED BY <2>1, <2>2 DEF TypeOK
<1>4. ASSUME Tick(n) PROVE TypeOK'
  <2>1. RedisTypeOK' /\ CallsTypeOK' /\ faults' \in Nat
    BY <1>4, Kept DEF Tick
  <2>2. FilesTypeOK'
    BY <1>4, SharedTyped, FileWrites DEF Tick, FilesTypeOK
  <2>3. mem' \in [Nodes -> Memory]
    BY <1>4, SharedTyped, NodeWrites DEF Tick
  <2>4. NodeTypeOK'
    BY <1>4, <2>3, NodeWrites, WorkUpdates, BatchFacts DEF Tick, StartReplay
  <2> QED BY <2>1, <2>2, <2>4 DEF TypeOK
<1>5. ASSUME TickFails(n) PROVE TypeOK'
  <2>1. UNCHANGED vars
    BY <1>5 DEF TickFails
  <2> QED BY <2>1 DEF vars, redisVars, callVars, TypeOK, RedisTypeOK, FilesTypeOK, NodeTypeOK,
                     CallsTypeOK
<1> QED
  BY <1>1, <1>2, <1>3, <1>4, <1>5 DEF Connect

(* Crashes, restarts, broken streams and outages keep the types.           *)
LEMMA EnvironmentTyped ==
    ASSUME TypeOK, Environment
    PROVE  TypeOK'
<1> USE DEF CallLabels, Labels
<1>1. ASSUME NEW n \in Nodes, Crash(n) PROVE TypeOK'
  <2>1. RedisTypeOK' /\ FilesTypeOK' /\ CallsTypeOK' /\ faults' \in Nat
    BY <1>1, Kept DEF Crash
  <2>2. NodeTypeOK'
    BY <1>1, NodeWrites, WorkUpdates, MemoryUpdates DEF Crash
  <2> QED BY <2>1, <2>2 DEF TypeOK
<1>2. ASSUME NEW n \in Nodes, Restart(n) PROVE TypeOK'
  <2>1. RedisTypeOK' /\ FilesTypeOK' /\ CallsTypeOK' /\ faults' \in Nat
    BY <1>2, Kept DEF Restart
  <2>2. NodeTypeOK'
    BY <1>2, NodeWrites, WorkUpdates DEF Restart
  <2> QED BY <2>1, <2>2 DEF TypeOK
<1>3. ASSUME NEW n \in Nodes, Disconnect(n) PROVE TypeOK'
  <2>1. RedisTypeOK' /\ FilesTypeOK' /\ CallsTypeOK' /\ faults' \in Nat
    BY <1>3, Kept DEF Disconnect
  <2>2. [mem[n] EXCEPT !.link = "dead"] \in Memory
    BY MemoryUpdates, ImageFacts DEF TypeOK, NodeTypeOK
  <2>3. NodeTypeOK'
    BY <1>3, <2>2, NodeWrites DEF Disconnect
  <2> QED BY <2>1, <2>3 DEF TypeOK
<1>4. ASSUME RedisStops PROVE TypeOK'
  <2>1. FilesTypeOK' /\ CallsTypeOK' /\ faults' \in Nat
    BY <1>4, Kept DEF RedisStops
  <2>2. RedisTypeOK'
    BY <1>4 DEF RedisStops, TypeOK, RedisTypeOK
  <2>3. \A n \in Nodes : mem[n] \in Memory /\ [mem[n] EXCEPT !.link = "dead"] \in Memory
    BY MemoryUpdates, ImageFacts DEF TypeOK, NodeTypeOK
  <2>4. NodeTypeOK'
    BY <1>4, <2>3 DEF RedisStops, TypeOK, NodeTypeOK
  <2> QED BY <2>1, <2>2, <2>4 DEF TypeOK
<1>5. ASSUME RedisStarts PROVE TypeOK'
  <2>1. FilesTypeOK' /\ CallsTypeOK' /\ NodeTypeOK' /\ faults' \in Nat
    BY <1>5, Kept DEF RedisStarts
  <2>2. RedisTypeOK'
    BY <1>5 DEF RedisStarts, TypeOK, RedisTypeOK
  <2> QED BY <2>1, <2>2 DEF TypeOK
<1>6. ASSUME NEW n \in Nodes, FileFills(n) PROVE TypeOK'
  <2>1. RedisTypeOK' /\ NodeTypeOK' /\ CallsTypeOK' /\ faults' \in Nat
    BY <1>6, Kept DEF FileFills
  <2>2. FilesTypeOK'
    BY <1>6 DEF FileFills, TypeOK, FilesTypeOK
  <2> QED BY <2>1, <2>2 DEF TypeOK
<1> QED
  BY <1>1, <1>2, <1>3, <1>4, <1>5, <1>6 DEF Environment

(* Every step of reconcile_outbox keeps the types.                         *)
LEMMA ReconcileTyped ==
    ASSUME TypeOK, NEW n \in Nodes, Reconcile(n)
    PROVE  TypeOK'
<1> USE DEF fileVars, CallLabels, Labels
<1> DEFINE w == work[n]
<1>0. /\ pc[n] \in CallLabels => w.key \in Keys
      /\ w \in Work /\ mem[n] \in Memory /\ outbox[n] \in Seq(Entries)
      /\ w.todo \in SUBSET Keys /\ w.done \in SUBSET Keys /\ w.applied \in SUBSET Keys
      /\ w.local \in SUBSET Keys /\ w.refused \in SUBSET Keys
      /\ w.resume \in {"scan", "conflict"}
  BY DEF TypeOK, NodeTypeOK, FilesTypeOK, Work
<1> HIDE DEF w
<1>00. w = work[n]
  BY DEF w
<1>1. ASSUME ReplayEntry(n) PROVE TypeOK'
  <2>1. RedisTypeOK' /\ CallsTypeOK' /\ faults' \in Nat
    BY <1>1, Kept DEF ReplayEntry
  <2>2. FilesTypeOK'
    BY <1>1, AbandonTyped, FileWrites DEF ReplayEntry, FilesTypeOK
  <2>3. NodeTypeOK'
    <3>1. ASSUME NEW k \in w.todo
          PROVE  /\ [mem[n] EXCEPT !.active = Apply(@, k)] \in Memory
                 /\ [w EXCEPT !.todo = @ \ {k}] \in Work
      BY <1>0, WorkUpdates, MemoryUpdates, FileWrites, ImageFacts
    <3> QED BY <1>1, <3>1, <1>00, AbandonTyped, NodeWrites DEF ReplayEntry
  <2> QED BY <2>1, <2>2, <2>3 DEF TypeOK
<1>2. ASSUME ReplayDone(n) PROVE TypeOK'
  <2>1. FilesTypeOK' /\ RedisTypeOK' /\ CallsTypeOK' /\ faults' \in Nat
    BY <1>2, Kept DEF ReplayDone
  <2>2. NodeTypeOK'
    <3>1. [w EXCEPT !.todo = CommittedBatch(n), !.done = {}] \in Work
      BY <1>0, WorkUpdates, BatchFacts
    <3> QED BY <1>2, <3>1, <1>00, NodeWrites DEF ReplayDone, StartMirror
  <2> QED BY <2>1, <2>2 DEF TypeOK
<1>3. ASSUME MirrorEntry(n) PROVE TypeOK'
  <2>1. RedisTypeOK' /\ CallsTypeOK' /\ faults' \in Nat
    BY <1>3, Kept DEF MirrorEntry
  <2>2. FilesTypeOK'
    <3>1. ASSUME NEW k \in w.todo
          PROVE  Apply(standby[n], k) \in Images /\ standby[n] \in Images
      BY <1>0, FileWrites, ImageFacts
    <3> QED BY <1>3, <3>1, <1>00, AbandonTyped, FileWrites DEF MirrorEntry, FilesTypeOK
  <2>3. NodeTypeOK'
    <3>1. ASSUME NEW k \in w.todo
          PROVE  [w EXCEPT !.todo = @ \ {k}, !.done = @ \cup {k}] \in Work
      BY <1>0, WorkUpdates
    <3> QED BY <1>3, <3>1, <1>00, AbandonTyped, NodeWrites DEF MirrorEntry
  <2> QED BY <2>1, <2>2, <2>3 DEF TypeOK
<1>4. ASSUME MirrorComplete(n) PROVE TypeOK'
  <2>1. RedisTypeOK' /\ CallsTypeOK' /\ faults' \in Nat
    BY <1>4, Kept DEF MirrorComplete
  <2>2. FilesTypeOK'
    BY <1>4, <1>0, <1>00, FileWrites, QueueFacts DEF MirrorComplete, FilesTypeOK
  <2>3. NodeTypeOK'
    <3>1. ASSUME NEW k \in w.done PROVE [w EXCEPT !.done = @ \ {k}] \in Work
      BY <1>0, WorkUpdates
    <3> QED BY <1>4, <3>1, <1>00, NodeWrites DEF MirrorComplete
  <2> QED BY <2>1, <2>2, <2>3 DEF TypeOK
<1>5. ASSUME MirrorDone(n) PROVE TypeOK'
  <2>0. FilesTypeOK'
    BY <1>5, FileWrites DEF MirrorDone, FilesTypeOK
  <2>1. FilesTypeOK' /\ RedisTypeOK' /\ CallsTypeOK' /\ faults' \in Nat
    BY <1>5, <2>0, Kept DEF MirrorDone
  <2>2. NodeTypeOK'
    <3>1. mem' \in [Nodes -> Memory]
      <4>1. [mem[n] EXCEPT !.usesLocal = Uncommitted(outbox[n]),
                           !.replayCommitted = ~Uncommitted(outbox[n]) /\ outbox[n] # <<>>] \in Memory
        BY ZenonT(60), <1>0, MemoryUpdates, ImageFacts DEF Uncommitted, TypeOK, RedisTypeOK
      <4> QED BY <1>5, <4>1, NodeWrites DEF MirrorDone, Reconciled
    <3>2. [w EXCEPT !.todo = UncommittedBatch(n)] \in Work
      BY <1>0, WorkUpdates, BatchFacts
    <3> QED BY <1>5, <3>1, <3>2, <1>00, NodeWrites, WorkUpdates DEF MirrorDone, Reconciled
  <2> QED BY <2>1, <2>2 DEF TypeOK
<1>6. ASSUME ScanEntry(n) PROVE TypeOK'
  <2>1. RedisTypeOK' /\ CallsTypeOK' /\ faults' \in Nat
    BY <1>6, Kept DEF ScanEntry
  <2>2. FilesTypeOK'
    BY <1>6, <1>0, <1>00, FileWrites, QueueFacts DEF ScanEntry, FilesTypeOK
  <2>3. NodeTypeOK'
    <3>1. ASSUME NEW k \in w.todo
          PROVE  LET rest == [w EXCEPT !.todo = @ \ {k}] IN
                 /\ rest \in Work
                 /\ [rest EXCEPT !.refused = @ \cup {k}] \in Work
                 /\ [rest EXCEPT !.applied = @ \cup {k}, !.local = @ \cup {k}] \in Work
                 /\ [rest EXCEPT !.applied = @ \cup {k}] \in Work
                 /\ [rest EXCEPT !.key = k, !.resume = "scan"] \in Work
                 /\ [rest EXCEPT !.key = k, !.resume = "scan"].key = k
                 /\ k \in Keys
      BY <1>0 DEF Work
    <3>2. ASSUME NEW k \in w.todo PROVE [mem[n] EXCEPT !.active = Apply(@, k)] \in Memory
      BY <1>0, MemoryUpdates, FileWrites, ImageFacts
    <3>3. mem' \in [Nodes -> Memory]
      BY <1>6, <3>2, <1>00, NodeWrites DEF ScanEntry
    <3>4. pc[n] = "scan"
      BY <1>6 DEF ScanEntry
    <3>5. PICK k \in w.todo :
            LET rest == [w EXCEPT !.todo = @ \ {k}] IN
              \/ UNCHANGED pc /\ SetWork(n, rest)
              \/ UNCHANGED pc /\ SetWork(n, [rest EXCEPT !.refused = @ \cup {k}])
              \/ UNCHANGED pc
                 /\ SetWork(n, [rest EXCEPT !.applied = @ \cup {k}, !.local = @ \cup {k}])
              \/ UNCHANGED pc /\ SetWork(n, [rest EXCEPT !.applied = @ \cup {k}])
              \/ Goto(n, "record") /\ SetWork(n, [rest EXCEPT !.key = k, !.resume = "scan"])
      BY <1>6, <1>00 DEF ScanEntry
    <3> QED BY ZenonT(60), <3>1, <3>3, <3>4, <3>5, NodeWrites
  <2> QED BY <2>1, <2>2, <2>3 DEF TypeOK
<1>7. ASSUME ScanDone(n) PROVE TypeOK'
  <2>1. FilesTypeOK' /\ RedisTypeOK' /\ CallsTypeOK' /\ faults' \in Nat
    BY <1>7, Kept DEF ScanDone
  <2>2. NodeTypeOK'
    BY <1>7, NodeWrites DEF ScanDone
  <2> QED BY <2>1, <2>2 DEF TypeOK
<1>8. ASSUME RecordCheck(n) PROVE TypeOK'
  <2>1. FilesTypeOK' /\ RedisTypeOK' /\ CallsTypeOK' /\ faults' \in Nat
    BY <1>8, Kept DEF RecordCheck
  <2>2. NodeTypeOK'
    <3>1. [w EXCEPT !.refused = @ \cup {w.key}] \in Work
      BY ZenonT(60), <1>8, <1>0, <1>00, WorkUpdates DEF RecordCheck
    <3> QED BY <1>8, <3>1, <1>0, <1>00, NodeWrites DEF RecordCheck
  <2> QED BY <2>1, <2>2 DEF TypeOK
<1>9. ASSUME RecordSet(n) PROVE TypeOK'
  <2>1. FilesTypeOK' /\ CallsTypeOK' /\ faults' \in Nat
    BY <1>9, Kept DEF RecordSet
  <2>2. RedisTypeOK'
    BY <1>9, <1>0, <1>00 DEF RecordSet, TypeOK, RedisTypeOK
  <2>3. NodeTypeOK'
    <3>1. [w EXCEPT !.refused = @ \cup {w.key}] \in Work
      BY ZenonT(60), <1>9, <1>0, <1>00, WorkUpdates DEF RecordSet
    <3> QED BY <1>9, <3>1, <1>0, <1>00, NodeWrites DEF RecordSet
  <2> QED BY <2>1, <2>2, <2>3 DEF TypeOK
<1>10. ASSUME SendApplied(n) PROVE TypeOK'
  <2>1. FilesTypeOK' /\ CallsTypeOK' /\ faults' \in Nat
    BY <1>10, Kept DEF SendApplied
  <2>2. RedisTypeOK'
    BY <1>10, <1>0, <1>00, SharedTyped DEF SendApplied
  <2>3. NodeTypeOK'
    BY <1>10, <1>0, <1>00, SharedTyped, NodeWrites DEF SendApplied
  <2> QED BY <2>1, <2>2, <2>3 DEF TypeOK
<1>11. ASSUME SendReplyLost(n) PROVE TypeOK'
  <2>1. CallsTypeOK' /\ faults' \in Nat
    BY <1>11, Kept DEF SendReplyLost
  <2>2. RedisTypeOK'
    BY <1>11, <1>0, <1>00, SharedTyped DEF SendReplyLost
  <2>3. FilesTypeOK'
    BY <1>11, AbandonTyped, FileWrites DEF SendReplyLost, FilesTypeOK
  <2>4. NodeTypeOK'
    BY <1>11, AbandonTyped DEF SendReplyLost
  <2> QED BY <2>1, <2>2, <2>3, <2>4 DEF TypeOK
<1>12. ASSUME SendConflict(n) PROVE TypeOK'
  <2>1. FilesTypeOK' /\ RedisTypeOK' /\ CallsTypeOK' /\ faults' \in Nat
    BY <1>12, Kept DEF SendConflict
  <2>2. NodeTypeOK'
    <3>1. [w EXCEPT !.todo = w.applied, !.resume = "conflict"] \in Work
      BY <1>0, WorkUpdates
    <3> QED BY <1>12, <3>1, <1>00, NodeWrites DEF SendConflict
  <2> QED BY <2>1, <2>2 DEF TypeOK
<1>13. ASSUME ConflictEntry(n) PROVE TypeOK'
  <2>1. FilesTypeOK' /\ RedisTypeOK' /\ CallsTypeOK' /\ faults' \in Nat
    BY <1>13, Kept DEF ConflictEntry
  <2>2. NodeTypeOK'
    <3>1. ASSUME NEW k \in w.todo
          PROVE  /\ [w EXCEPT !.todo = @ \ {k}, !.key = k] \in Work /\ k \in Keys
                 /\ [w EXCEPT !.todo = @ \ {k}, !.key = k].key = k
      BY <1>0 DEF Work
    <3>2. PICK k \in w.todo : SetWork(n, [w EXCEPT !.todo = @ \ {k}, !.key = k])
      BY <1>13, <1>00 DEF ConflictEntry
    <3>3. Goto(n, "record") /\ mem' \in [Nodes -> Memory] /\ "record" \in Labels
      BY <1>13, <1>00, NodeWrites DEF ConflictEntry, Labels
    <3> QED BY <3>1, <3>2, <3>3, NodeWrites
  <2> QED BY <2>1, <2>2 DEF TypeOK
<1>14. ASSUME ConflictSync(n) PROVE TypeOK'
  <2>1. RedisTypeOK' /\ CallsTypeOK' /\ faults' \in Nat
    BY <1>14, Kept DEF ConflictSync
  <2>2. FilesTypeOK'
    BY <1>14, SharedTyped, FileWrites DEF ConflictSync, FilesTypeOK
  <2>3. NodeTypeOK'
    <3>1. [w EXCEPT !.refused = @ \cup w.applied, !.applied = {}] \in Work
      BY <1>0, WorkUpdates
    <3> QED BY <1>14, <3>1, <1>00, SharedTyped, NodeWrites DEF ConflictSync
  <2> QED BY <2>1, <2>2, <2>3 DEF TypeOK
<1>15. ASSUME Checkpoint(n) PROVE TypeOK'
  <2>1. CallsTypeOK' /\ faults' \in Nat
    BY <1>15, Kept DEF Checkpoint
  <2>2. RedisTypeOK'
    BY <1>15, <1>0, SharedTyped, FileWrites DEF Checkpoint
  <2>3. FilesTypeOK'
    BY <1>15, AbandonTyped, FileWrites DEF Checkpoint, FilesTypeOK
  <2>4. NodeTypeOK'
    BY <1>15, SharedTyped, AbandonTyped, NodeWrites, WorkUpdates DEF Checkpoint
  <2> QED BY <2>1, <2>2, <2>3, <2>4 DEF TypeOK
<1>16. ASSUME CheckpointConflict(n) PROVE TypeOK'
  <2>1. RedisTypeOK' /\ CallsTypeOK' /\ faults' \in Nat
    BY <1>16, Kept DEF CheckpointConflict
  <2>2. FilesTypeOK'
    BY <1>16, AbandonTyped, FileWrites DEF CheckpointConflict, FilesTypeOK
  <2>3. NodeTypeOK'
    BY <1>16, AbandonTyped DEF CheckpointConflict
  <2> QED BY <2>1, <2>2, <2>3 DEF TypeOK
<1>17. ASSUME ReconcileUnreachable(n) PROVE TypeOK'
  <2>1. RedisTypeOK' /\ CallsTypeOK' /\ faults' \in Nat
    BY <1>17, Kept DEF ReconcileUnreachable
  <2>2. FilesTypeOK'
    BY <1>17, AbandonTyped, FileWrites DEF ReconcileUnreachable, FilesTypeOK
  <2>3. NodeTypeOK'
    BY <1>17, AbandonTyped DEF ReconcileUnreachable
  <2> QED BY <2>1, <2>2, <2>3 DEF TypeOK
<1>18. ASSUME LogWriteFails(n) PROVE TypeOK'
  <2>1. RedisTypeOK' /\ CallsTypeOK' /\ faults' \in Nat
    BY <1>18, Kept DEF LogWriteFails
  <2>2. FilesTypeOK'
    <3>1. rejected' \in [Nodes -> SUBSET Keys]
      BY <1>18, <1>0, <1>00, FileWrites DEF LogWriteFails
    <3> QED BY <1>18, <3>1, AbandonTyped, FileWrites DEF LogWriteFails, FilesTypeOK
  <2>3. NodeTypeOK'
    BY <1>18, AbandonTyped DEF LogWriteFails
  <2> QED BY <2>1, <2>2, <2>3 DEF TypeOK
<1>19. ASSUME FinishApplied(n) PROVE TypeOK'
  <2>1. RedisTypeOK' /\ CallsTypeOK' /\ faults' \in Nat
    BY <1>19, Kept DEF FinishApplied
  <2>2. FilesTypeOK'
    BY <1>19, <1>0, <1>00, FileWrites, QueueFacts DEF FinishApplied, FilesTypeOK
  <2>3. NodeTypeOK'
    <3>1. ASSUME NEW k \in w.applied PROVE [w EXCEPT !.applied = @ \ {k}] \in Work
      BY <1>0, WorkUpdates
    <3> QED BY <1>19, <3>1, <1>00, NodeWrites DEF FinishApplied
  <2> QED BY <2>1, <2>2, <2>3 DEF TypeOK
<1>20. ASSUME FinishRejected(n) PROVE TypeOK'
  <2>1. RedisTypeOK' /\ CallsTypeOK' /\ faults' \in Nat
    BY <1>20, Kept DEF FinishRejected
  <2>2. FilesTypeOK'
    BY <1>20, <1>0, <1>00, FileWrites, QueueFacts DEF FinishRejected, FilesTypeOK
  <2>3. NodeTypeOK'
    <3>1. ASSUME NEW k \in w.refused PROVE [w EXCEPT !.refused = @ \ {k}] \in Work
      BY <1>0, WorkUpdates
    <3> QED BY <1>20, <3>1, <1>00, NodeWrites DEF FinishRejected
  <2> QED BY <2>1, <2>2, <2>3 DEF TypeOK
<1>21. ASSUME FinishDone(n) PROVE TypeOK'
  <2>0. FilesTypeOK'
    BY <1>21, FileWrites DEF FinishDone, FilesTypeOK
  <2>1. FilesTypeOK' /\ RedisTypeOK' /\ CallsTypeOK' /\ faults' \in Nat
    BY <1>21, <2>0, Kept DEF FinishDone
  <2>2. NodeTypeOK'
    <3>1. [w EXCEPT !.todo = CommittedBatch(n), !.done = {}, !.second = TRUE] \in Work
      BY <1>0, WorkUpdates, BatchFacts
    <3> QED BY <1>21, <3>1, <1>00, NodeWrites DEF FinishDone
  <2> QED BY <2>1, <2>2 DEF TypeOK
<1> QED
  BY <1>1, <1>2, <1>3, <1>4, <1>5, <1>6, <1>7, <1>8, <1>9, <1>10, <1>11, <1>12, <1>13, <1>14, <1>15, <1>16, <1>17, <1>18, <1>19, <1>20, <1>21 DEF Reconcile

-----------------------------------------------------------------------------
(* Every step keeps the types.                                             *)
LEMMA TypeStep ==
    ASSUME TypeOK, [Next]_vars
    PROVE  TypeOK'
<1>1. CASE Next
  BY <1>1, CallTyped, ConnectTyped, ReconcileTyped, EnvironmentTyped DEF Next
<1>2. CASE UNCHANGED vars
  BY <1>2 DEF vars, redisVars, fileVars, callVars, TypeOK, RedisTypeOK, FilesTypeOK, NodeTypeOK,
     CallsTypeOK
<1> QED
  BY <1>1, <1>2

(* Every reachable state has its type.                                     *)
THEOREM TypeCorrect == Spec => []TypeOK
<1>1. Init => TypeOK
  BY TypeInit
<1>2. TypeOK /\ [Next]_vars => TypeOK'
  BY TypeStep
<1> QED
  BY <1>1, <1>2, PTL DEF Spec

-----------------------------------------------------------------------------
(* What the handlers rest on.                                              *)
Recorded(S) == \A k \in S : ledger[k] # "none"

LedgerPublished == \A k \in Keys : ledger[k] = "committed" => k \in published

(* What the files of a node hold.                                          *)
OutboxSafe(n) ==
    /\ UniqueKeys(outbox[n])
    /\ \A i \in DOMAIN outbox[n] : outbox[n][i].committed => outbox[n][i].key \in published

FilesSafe(n) ==
    /\ OutboxSafe(n)
    /\ Recorded(rejected[n])
    /\ \A k \in NeverRefused : acked[n][k] > 0 => Accounted(n, k)

(* What the tool call of a node relies on.                                 *)
CallSafe(n) ==
    /\ pc[n] \in {"execute", "publish", "mark"} => HasKey(outbox[n], work[n].key)
    /\ pc[n] \in {"publish", "mark"} => mem[n].link # "none"
    /\ pc[n] = "publish" => mem[n].active[work[n].key] > 0
    /\ pc[n] = "mark" => work[n].key \in published
    /\ pc[n] = "abort" => work[n].key \notin NeverRefused

(* What the reconciliation of a node relies on.                            *)
ReconcileSafe(n) ==
    /\ pc[n] \in {"checkpoint", "finish"} => work[n].applied \subseteq published
    /\ pc[n] = "mirror" => work[n].todo \cup work[n].done \subseteq published
    /\ Recorded(work[n].refused)
    /\ pc[n] = "conflict" => Recorded(work[n].applied \ work[n].todo)
    /\ pc[n] \in {"record", "record_set"} /\ work[n].resume = "conflict" =>
         Recorded(work[n].applied \ (work[n].todo \cup {work[n].key}))

NodeSafe(n) == FilesSafe(n) /\ CallSafe(n) /\ ReconcileSafe(n)

Safe == TypeOK /\ LedgerPublished /\ \A n \in Nodes : NodeSafe(n)

-----------------------------------------------------------------------------
(* Redis never forgets: what was published stays published, and a ledger   *)
(* record is only replaced by another.                                     *)
Grown ==
    /\ published \subseteq published'
    /\ \A k \in Keys : ledger[k] # "none" => ledger'[k] # "none"

(* The writes to Redis forget nothing, and SET conflict leaves a record.   *)
LEMMA RedisSafe ==
    ASSUME TypeOK, LedgerPublished
    PROVE  /\ UNCHANGED <<ledger, published>> => Grown /\ LedgerPublished'
           /\ \A image : PublishImage(image) => Grown /\ LedgerPublished'
           /\ \A n \in Nodes, S \in SUBSET Keys :
                PublishDeltas(n, S) => Grown /\ LedgerPublished' /\ S \subseteq published'
           /\ \A k \in Keys :
                ledger' = [ledger EXCEPT ![k] = "conflict"] /\ UNCHANGED published
                    => Grown /\ LedgerPublished' /\ ledger'[k] # "none"
<1> USE DEF TypeOK, RedisTypeOK, Grown, LedgerPublished
<1>1. UNCHANGED <<ledger, published>> => Grown /\ LedgerPublished'
  OBVIOUS
<1>2. ASSUME NEW image, PublishImage(image) PROVE Grown /\ LedgerPublished'
  BY <1>2 DEF PublishImage
<1>3. ASSUME NEW n \in Nodes, NEW S \in SUBSET Keys, PublishDeltas(n, S)
      PROVE  Grown /\ LedgerPublished' /\ S \subseteq published'
  BY <1>3 DEF PublishDeltas
<1>4. ASSUME NEW k \in Keys, ledger' = [ledger EXCEPT ![k] = "conflict"], UNCHANGED published
      PROVE  Grown /\ LedgerPublished' /\ ledger'[k] # "none"
  BY <1>4
<1> QED
  BY <1>1, <1>2, <1>3, <1>4

Answers(n, k) == Acknowledge(n, k) \/ AcknowledgeDegraded(n, k)

(* What a step writes with the shared operators, read back at the node.    *)
LEMMA ReadBack ==
    ASSUME TypeOK, NEW n \in Nodes
    PROVE  /\ \A m : SetMem(n, m) => mem'[n] = m
           /\ \A l : Goto(n, l) => pc'[n] = l
           /\ \A w : SetWork(n, w) => work'[n] = w
           /\ \A q : SetOutbox(n, q) => outbox'[n] = q
           /\ \A i : SetStandby(n, i) => standby'[n] = i
           /\ \A k \in Keys : Answers(n, k) =>
                \A j \in Keys : acked'[n][j] = IF j = k THEN acked[n][k] + 1 ELSE acked[n][j]
  BY DEF TypeOK, NodeTypeOK, FilesTypeOK, CallsTypeOK, SetMem, Goto, SetWork, SetOutbox,
         SetStandby, Answers, Acknowledge, AcknowledgeDegraded

(* Nothing of another node changes.                                        *)
Same(m) ==
    /\ mem'[m] = mem[m] /\ pc'[m] = pc[m] /\ work'[m] = work[m]
    /\ outbox'[m] = outbox[m] /\ rejected'[m] = rejected[m] /\ acked'[m] = acked[m]

(* The shared operators write to the node they name and to no other.       *)
LEMMA Elsewhere ==
    ASSUME TypeOK, NEW n \in Nodes, NEW m \in Nodes \ {n}
    PROVE  /\ \A x : SetMem(n, x) => mem'[m] = mem[m]
           /\ \A x : Goto(n, x) => pc'[m] = pc[m]
           /\ \A x : SetWork(n, x) => work'[m] = work[m]
           /\ \A x : SetOutbox(n, x) => outbox'[m] = outbox[m]
           /\ \A k : Answers(n, k) => acked'[m] = acked[m]
           /\ \A k : rejected' = [rejected EXCEPT ![n] = @ \cup {k}] => rejected'[m] = rejected[m]
           /\ EnterSqliteFallback(n) => mem'[m] = mem[m]
           /\ SyncFromRedis(n) => mem'[m] = mem[m]
           /\ Abandon(n) => mem'[m] = mem[m] /\ pc'[m] = pc[m] /\ work'[m] = work[m]
<1>1. /\ \A x : SetMem(n, x) => mem'[m] = mem[m]
      /\ \A x : Goto(n, x) => pc'[m] = pc[m]
      /\ \A x : SetWork(n, x) => work'[m] = work[m]
  BY DEF TypeOK, NodeTypeOK, SetMem, Goto, SetWork
<1>2. /\ \A x : SetOutbox(n, x) => outbox'[m] = outbox[m]
      /\ \A k : Answers(n, k) => acked'[m] = acked[m]
      /\ \A k : rejected' = [rejected EXCEPT ![n] = @ \cup {k}] => rejected'[m] = rejected[m]
  BY DEF TypeOK, FilesTypeOK, CallsTypeOK, SetOutbox, Answers, Acknowledge, AcknowledgeDegraded
<1>3. (EnterSqliteFallback(n) => mem'[m] = mem[m]) /\ (SyncFromRedis(n) => mem'[m] = mem[m])
  BY <1>1 DEF EnterSqliteFallback, SyncFromRedis
<1> QED
  BY <1>1, <1>2, <1>3 DEF Abandon

(* A node that only Redis moved under stays safe, its link broken or not.  *)
LEMMA Undisturbed ==
    ASSUME TypeOK, NEW m \in Nodes, NodeSafe(m), Grown, work[m] \in Work,
           pc'[m] = pc[m], work'[m] = work[m], outbox'[m] = outbox[m],
           rejected'[m] = rejected[m], acked'[m] = acked[m],
           mem'[m].link # "none" \/ mem'[m].link = mem[m].link,
           mem'[m].active = mem[m].active
    PROVE  NodeSafe(m)'
<1> USE DEF NodeSafe, Grown
<1>1. FilesSafe(m)'
  BY DEF FilesSafe, OutboxSafe, Recorded, Accounted, TypeOK, FilesTypeOK
<1>2. CallSafe(m)'
  BY DEF CallSafe
<1>3. ReconcileSafe(m)'
  BY DEF ReconcileSafe, Recorded, Work
<1> QED
  BY <1>1, <1>2, <1>3

(* The files of a node stay safe while it writes to none of them.          *)
LEMMA FilesUndisturbed ==
    ASSUME TypeOK, NEW n \in Nodes, FilesSafe(n), Grown,
           outbox'[n] = outbox[n], rejected'[n] = rejected[n], acked'[n] = acked[n]
    PROVE  FilesSafe(n)'
  BY DEF FilesSafe, OutboxSafe, Recorded, Accounted, TypeOK, FilesTypeOK, Grown

(* The three writes of an entry k to the outbox of a node, as its readers  *)
(* see them.                                                               *)
LEMMA OutboxWrites ==
    ASSUME TypeOK, NEW n \in Nodes, OutboxSafe(n), Grown, NEW k \in Keys
    PROVE  /\ outbox'[n] = AppendPending(outbox[n], k) =>
                /\ OutboxSafe(n)' /\ HasKey(outbox'[n], k)
                /\ \A j : HasKey(outbox[n], j) => HasKey(outbox'[n], j)
           /\ outbox'[n] = MarkCommitted(outbox[n], k) /\ k \in published' =>
                /\ OutboxSafe(n)'
                /\ \A j : HasKey(outbox[n], j) => HasKey(outbox'[n], j)
           /\ outbox'[n] = Complete(outbox[n], k) =>
                /\ OutboxSafe(n)'
                /\ \A j : j # k /\ HasKey(outbox[n], j) => HasKey(outbox'[n], j)
<1> DEFINE q == outbox[n]
<1>0. q \in Seq(Entries) /\ k \in OutboxKeys /\ UniqueKeys(q)
  BY CoordinatorAssumption DEF TypeOK, FilesTypeOK, OutboxSafe
<1>1. \A i \in DOMAIN q : q[i].committed => q[i].key \in published'
  BY DEF OutboxSafe, Grown
<1> HIDE DEF q
<1>2. UniqueKeys(AppendPending(q, k)) /\ UniqueKeys(MarkCommitted(q, k)) /\ UniqueKeys(Complete(q, k))
  BY <1>0, AppendPendingFacts, MarkCommittedFacts, CompleteFacts
<1>3. \A i \in DOMAIN AppendPending(q, k) :
        AppendPending(q, k)[i].committed => AppendPending(q, k)[i].key \in published'
  BY <1>0, <1>1, AppendPendingFacts
<1>4. ASSUME k \in published'
      PROVE  \A i \in DOMAIN MarkCommitted(q, k) :
               MarkCommitted(q, k)[i].committed => MarkCommitted(q, k)[i].key \in published'
  <2>1. DOMAIN MarkCommitted(q, k) = DOMAIN q
    BY <1>0, MarkCommittedFacts
  <2>2. ASSUME NEW i \in DOMAIN q, MarkCommitted(q, k)[i].committed
        PROVE  MarkCommitted(q, k)[i].key \in published'
    <3>1. CASE q[i].key = k
      BY <3>1, <1>0, <1>4, <2>2, MarkCommittedFacts
    <3>2. CASE q[i].key # k
      BY <3>2, <1>0, <1>1, <2>2, MarkCommittedFacts
    <3> QED BY <3>1, <3>2
  <2> QED BY <2>1, <2>2
<1>5. \A i \in DOMAIN Complete(q, k) :
        Complete(q, k)[i].committed => Complete(q, k)[i].key \in published'
  BY <1>0, <1>1, CompleteFacts
<1>6. /\ HasKey(AppendPending(q, k), k)
      /\ \A j : HasKey(q, j) => HasKey(AppendPending(q, k), j)
      /\ \A j : HasKey(q, j) => HasKey(MarkCommitted(q, k), j)
      /\ \A j : j # k /\ HasKey(q, j) => HasKey(Complete(q, k), j)
  BY <1>0, AppendPendingFacts, MarkCommittedFacts, CompleteFacts
<1>7. q = outbox[n]
  BY DEF q
<1>8. ASSUME outbox'[n] = AppendPending(outbox[n], k)
      PROVE  OutboxSafe(n)'
  BY <1>8, <1>2, <1>3, <1>7 DEF OutboxSafe
<1>9. ASSUME outbox'[n] = MarkCommitted(outbox[n], k), k \in published'
      PROVE  OutboxSafe(n)'
  BY <1>9, <1>2, <1>4, <1>7 DEF OutboxSafe
<1>10. ASSUME outbox'[n] = Complete(outbox[n], k)
      PROVE  OutboxSafe(n)'
  BY <1>10, <1>2, <1>5, <1>7 DEF OutboxSafe
<1> QED
  BY <1>6, <1>7, <1>8, <1>9, <1>10

(* The files of a node stay safe when it writes an entry: a new one, a     *)
(* flag on a published one, or the removal of one that is accounted for    *)
(* elsewhere or that the store may refuse.                                 *)
LEMMA FilesWritten ==
    ASSUME TypeOK, NEW n \in Nodes, FilesSafe(n), Grown, NEW k \in Keys,
           \/ outbox'[n] = AppendPending(outbox[n], k)
           \/ outbox'[n] = MarkCommitted(outbox[n], k) /\ k \in published'
           \/ /\ outbox'[n] = Complete(outbox[n], k)
              /\ k \in published' \/ k \in rejected'[n] \/ k \notin NeverRefused,
           \/ rejected'[n] = rejected[n]
           \/ rejected'[n] = rejected[n] \cup {k} /\ ledger'[k] # "none",
           \A j \in Keys : acked'[n][j] > 0 => acked[n][j] > 0 \/ j \in published'
    PROVE  FilesSafe(n)'
<1>1. OutboxSafe(n)'
  BY OutboxWrites DEF FilesSafe
<1>2. Recorded(rejected[n])' /\ rejected[n] \subseteq rejected'[n]
  BY DEF FilesSafe, Recorded, Grown, TypeOK, FilesTypeOK
<1>3. ASSUME NEW j \in NeverRefused, acked'[n][j] > 0 PROVE Accounted(n, j)'
  <2>1. j \in Keys
    BY DEF NeverRefused
  <2>2. CASE j \in published'
    BY <2>2 DEF Accounted
  <2>3. CASE acked[n][j] > 0
    <3>1. j \in published' \/ HasKey(outbox[n], j) \/ j \in rejected'[n]
      BY <2>3, <1>2 DEF FilesSafe, Accounted, Grown
    <3>2. HasKey(outbox[n], j) => HasKey(outbox'[n], j) \/ j \in published' \/ j \in rejected'[n]
      BY OutboxWrites DEF FilesSafe
    <3> QED BY <3>1, <3>2 DEF Accounted
  <2> QED BY <2>1, <2>2, <2>3, <1>3
<1>4. NeverRefused' = NeverRefused
  BY DEF NeverRefused
<1> QED
  BY <1>1, <1>2, <1>3, <1>4 DEF FilesSafe

(* ... and when a call whose entry is logged is answered.                  *)
LEMMA FilesAnswered ==
    ASSUME TypeOK, NEW n \in Nodes, FilesSafe(n), Grown, NEW k \in Keys, HasKey(outbox[n], k),
           outbox'[n] = outbox[n], rejected'[n] = rejected[n],
           \A j \in Keys : acked'[n][j] = IF j = k THEN acked[n][k] + 1 ELSE acked[n][j]
    PROVE  FilesSafe(n)'
<1>1. OutboxSafe(n)' /\ Recorded(rejected[n])'
  BY DEF FilesSafe, OutboxSafe, Recorded, Grown, TypeOK, FilesTypeOK
<1>2. ASSUME NEW j \in NeverRefused, acked'[n][j] > 0 PROVE Accounted(n, j)'
  <2>1. j \in Keys
    BY DEF NeverRefused
  <2>2. CASE j = k
    BY <2>2 DEF Accounted
  <2>3. CASE j # k
    BY <1>2, <2>1, <2>3 DEF Accounted, FilesSafe, Grown
  <2> QED BY <2>2, <2>3
<1>3. NeverRefused' = NeverRefused
  BY DEF NeverRefused
<1> QED
  BY <1>1, <1>2, <1>3 DEF FilesSafe

(* A handler that ended holds nothing in its locals.                       *)
Ended(n) == pc'[n] \in {"idle", "opening", "down"} /\ work'[n].refused = {}

(* A node whose handler ended is safe whatever its files hold.             *)
LEMMA EndedSafe ==
    ASSUME NEW n \in Nodes, Ended(n)
    PROVE  CallSafe(n)' /\ ReconcileSafe(n)'
  BY DEF Ended, CallSafe, ReconcileSafe, Recorded

(* Giving up a reconciliation ends it.                                     *)
LEMMA AbandonEnds ==
    ASSUME TypeOK, NEW n \in Nodes, Abandon(n)
    PROVE  Ended(n)
  BY ReadBack DEF Abandon, Ended, NoWork

-----------------------------------------------------------------------------
(* A step of node n is safe when Redis forgets nothing, the other nodes    *)
(* keep what they have, and n stays safe.                                  *)
StepSafe(n) ==
    /\ Grown /\ LedgerPublished'
    /\ \A m \in Nodes \ {n} : Same(m)
    /\ NodeSafe(n)'

(* Every step of a tool call is safe.                                      *)
LEMMA CallKeepsSafe ==
    ASSUME Safe, NEW n \in Nodes, Call(n)
    PROVE  StepSafe(n)
<1> DEFINE w == work[n]
<1>0. /\ TypeOK /\ LedgerPublished /\ NodeSafe(n)
      /\ FilesSafe(n) /\ CallSafe(n) /\ ReconcileSafe(n) /\ OutboxSafe(n)
      /\ w \in Work
      /\ pc[n] \in CallLabels => w.key \in Keys
  BY DEF Safe, NodeSafe, FilesSafe, TypeOK, NodeTypeOK
<1> HIDE DEF w
<1>00. w = work[n]
  BY DEF w
<1> USE DEF Same, CallLabels, Answers
<1>1. ASSUME NEW k \in Keys, BeginCall(n, k) PROVE StepSafe(n)
  <2>1. Grown /\ LedgerPublished'
    BY <1>0, <1>1, RedisSafe DEF BeginCall, redisVars
  <2>2. \A m \in Nodes \ {n} : Same(m)
    BY <1>0, <1>1, Elsewhere DEF BeginCall
  <2>3. outbox'[n] = AppendPending(outbox[n], k) /\ pc'[n] = "execute"
        /\ work'[n] = [NoWork EXCEPT !.key = k]
    BY <1>0, <1>1, ReadBack DEF BeginCall
  <2>4. FilesSafe(n)'
    BY <1>0, <1>1, <2>1, <2>3, FilesWritten DEF BeginCall
  <2>5. HasKey(outbox'[n], k)
    BY <1>0, <2>1, <2>3, OutboxWrites
  <2>6. work'[n].key = k /\ work'[n].refused = {}
    BY <2>3 DEF NoWork
  <2>7. CallSafe(n)' /\ ReconcileSafe(n)'
    BY <2>3, <2>5, <2>6 DEF CallSafe, ReconcileSafe, Recorded
  <2> QED BY <2>1, <2>2, <2>4, <2>7 DEF StepSafe, NodeSafe
<1>2. ASSUME ExecuteAccepted(n) PROVE StepSafe(n)
  <2>0. w.key \in Keys /\ pc[n] = "execute" /\ HasKey(outbox[n], w.key)
    BY <1>0, <1>00, <1>2 DEF ExecuteAccepted, CallSafe
  <2>1. Grown /\ LedgerPublished'
    BY <1>0, <1>2, RedisSafe DEF ExecuteAccepted, redisVars
  <2>2. \A m \in Nodes \ {n} : Same(m)
    BY <1>0, <1>2, Elsewhere DEF ExecuteAccepted, callVars
  <2>3. CASE mem[n].link = "none"
    <3>1. \A j \in Keys : acked'[n][j] = IF j = w.key THEN acked[n][w.key] + 1 ELSE acked[n][j]
      BY <1>0, <1>00, <1>2, <2>0, <2>3, ReadBack DEF ExecuteAccepted
    <3>2. outbox'[n] = outbox[n] /\ rejected'[n] = rejected[n]
      BY <1>2 DEF ExecuteAccepted
    <3>3. FilesSafe(n)'
      BY <1>0, <2>0, <2>1, <3>1, <3>2, FilesAnswered
    <3>4. Ended(n)
      BY <1>0, <1>2, <2>3, ReadBack DEF ExecuteAccepted, Ended, NoWork
    <3> QED BY <2>1, <2>2, <3>3, <3>4, EndedSafe DEF StepSafe, NodeSafe
  <2>4. CASE mem[n].link # "none"
    <3>1. /\ mem'[n] = [mem[n] EXCEPT !.active = Apply(@, w.key)]
          /\ pc'[n] = "publish" /\ work'[n] = w
          /\ outbox'[n] = outbox[n] /\ rejected'[n] = rejected[n] /\ acked'[n] = acked[n]
      BY <1>0, <1>00, <1>2, <2>4, ReadBack DEF ExecuteAccepted, callVars
    <3>2. FilesSafe(n)'
      BY <1>0, <2>1, <3>1, FilesUndisturbed
    <3>3. mem'[n].link # "none" /\ mem'[n].active[w.key] > 0
      <4>1. mem[n] \in Memory /\ mem[n].active \in Images
        BY <1>0 DEF TypeOK, NodeTypeOK, Memory
      <4>2. mem'[n].active = Apply(mem[n].active, w.key) /\ mem'[n].link = mem[n].link
        BY <3>1, <4>1 DEF Memory
      <4> QED BY <2>0, <2>4, <4>1, <4>2, ImageFacts
    <3>4. CallSafe(n)'
      BY <2>0, <3>1, <3>3 DEF CallSafe
    <3>5. ReconcileSafe(n)'
      BY <1>0, <1>00, <2>1, <3>1 DEF ReconcileSafe, Recorded, Grown, Work
    <3> QED BY <2>1, <2>2, <3>2, <3>4, <3>5 DEF StepSafe, NodeSafe
  <2> QED BY <2>3, <2>4
<1>3. ASSUME ExecuteRefused(n) PROVE StepSafe(n)
  <2>1. Grown /\ LedgerPublished'
    BY <1>0, <1>3, RedisSafe DEF ExecuteRefused, redisVars
  <2>2. \A m \in Nodes \ {n} : Same(m)
    BY <1>0, <1>3, Elsewhere DEF ExecuteRefused, fileVars, callVars
  <2>3. /\ pc'[n] = "abort" /\ work'[n] = w
        /\ outbox'[n] = outbox[n] /\ rejected'[n] = rejected[n] /\ acked'[n] = acked[n]
    BY <1>0, <1>00, <1>3, ReadBack DEF ExecuteRefused, fileVars, callVars
  <2>4. FilesSafe(n)'
    BY <1>0, <2>1, <2>3, FilesUndisturbed
  <2>5. w.key \notin NeverRefused
    BY <1>0, <1>00, <1>3 DEF ExecuteRefused, Accepts, NeverRefused
  <2>6. CallSafe(n)'
    BY <2>3, <2>5 DEF CallSafe, NeverRefused
  <2>7. ReconcileSafe(n)'
    BY <1>0, <1>00, <2>1, <2>3 DEF ReconcileSafe, Recorded, Grown, Work
  <2> QED BY <2>1, <2>2, <2>4, <2>6, <2>7 DEF StepSafe, NodeSafe
<1>4. ASSUME AbortCall(n) PROVE StepSafe(n)
  <2>0. w.key \in Keys /\ w.key \notin NeverRefused
    BY <1>0, <1>00, <1>4 DEF AbortCall, CallSafe
  <2>1. Grown /\ LedgerPublished'
    BY <1>0, <1>4, RedisSafe DEF AbortCall, redisVars
  <2>2. \A m \in Nodes \ {n} : Same(m)
    BY <1>0, <1>4, Elsewhere DEF AbortCall, callVars
  <2>3. /\ outbox'[n] = Complete(outbox[n], w.key) \/ outbox'[n] = outbox[n]
        /\ rejected'[n] = rejected[n] /\ acked'[n] = acked[n]
    BY <1>0, <1>00, <1>4, ReadBack DEF AbortCall, callVars
  <2>4. FilesSafe(n)'
    BY <1>0, <2>0, <2>1, <2>3, FilesWritten, FilesUndisturbed
  <2>5. Ended(n)
    BY <1>0, <1>4, ReadBack DEF AbortCall, Ended, NoWork
  <2> QED BY <2>1, <2>2, <2>4, <2>5, EndedSafe DEF StepSafe, NodeSafe
<1>5. ASSUME CallPublished(n) PROVE StepSafe(n)
  <2>0. w.key \in Keys /\ HasKey(outbox[n], w.key) /\ mem[n].link # "none"
    BY <1>0, <1>00, <1>5 DEF CallPublished, CallSafe
  <2>1. Grown /\ LedgerPublished' /\ w.key \in published'
    BY <1>0, <1>00, <1>5, <2>0, RedisSafe DEF CallPublished
  <2>2. \A m \in Nodes \ {n} : Same(m)
    BY <1>0, <1>5, Elsewhere DEF CallPublished, fileVars, callVars
  <2>3. /\ pc'[n] = "mark" /\ work'[n] = w /\ mem'[n] = AfterDeltas(n, {w.key})
        /\ outbox'[n] = outbox[n] /\ rejected'[n] = rejected[n] /\ acked'[n] = acked[n]
    BY <1>0, <1>00, <1>5, ReadBack DEF CallPublished, fileVars, callVars
  <2>4. FilesSafe(n)'
    BY <1>0, <2>1, <2>3, FilesUndisturbed
  <2>5. mem'[n].link # "none"
    BY <1>0, <2>0, <2>3 DEF AfterDeltas, TypeOK, NodeTypeOK, Memory
  <2>6. CallSafe(n)'
    BY <2>0, <2>1, <2>3, <2>5 DEF CallSafe
  <2>7. ReconcileSafe(n)'
    BY <1>0, <1>00, <2>1, <2>3 DEF ReconcileSafe, Recorded, Grown, Work
  <2> QED BY <2>1, <2>2, <2>4, <2>6, <2>7 DEF StepSafe, NodeSafe
<1>6. ASSUME CallUnpublished(n) PROVE StepSafe(n)
  <2>0. w.key \in Keys /\ HasKey(outbox[n], w.key)
    BY <1>0, <1>00, <1>6 DEF CallUnpublished, CallSafe
  <2>1. Grown /\ LedgerPublished'
    BY <1>0, <1>00, <1>6, <2>0, RedisSafe DEF CallUnpublished, redisVars
  <2>2. \A m \in Nodes \ {n} : Same(m)
    BY <1>0, <1>6, Elsewhere DEF CallUnpublished
  <2>3. /\ outbox'[n] = outbox[n] /\ rejected'[n] = rejected[n]
        /\ \A j \in Keys : acked'[n][j] = IF j = w.key THEN acked[n][w.key] + 1 ELSE acked[n][j]
    BY <1>0, <1>00, <1>6, <2>0, ReadBack DEF CallUnpublished
  <2>4. FilesSafe(n)'
    BY <1>0, <2>0, <2>1, <2>3, FilesAnswered
  <2>5. Ended(n)
    BY <1>0, <1>6, ReadBack DEF CallUnpublished, Ended, NoWork
  <2> QED BY <2>1, <2>2, <2>4, <2>5, EndedSafe DEF StepSafe, NodeSafe
<1>7. ASSUME CallConflict(n) PROVE StepSafe(n)
  <2>1. Grown /\ LedgerPublished'
    BY <1>0, <1>7, RedisSafe DEF CallConflict, redisVars
  <2>2. \A m \in Nodes \ {n} : Same(m)
    BY <1>0, <1>7, Elsewhere DEF CallConflict, callVars
  <2>3. FilesSafe(n)'
    BY <1>0, <1>7, <2>1, FilesUndisturbed DEF CallConflict, callVars
  <2>4. Ended(n)
    BY <1>0, <1>7, ReadBack DEF CallConflict, Ended, NoWork
  <2> QED BY <2>1, <2>2, <2>3, <2>4, EndedSafe DEF StepSafe, NodeSafe
<1>8. ASSUME MarkCall(n) PROVE StepSafe(n)
  <2>0. w.key \in Keys /\ w.key \in published
    BY <1>0, <1>00, <1>8 DEF MarkCall, CallSafe
  <2>1. Grown /\ LedgerPublished'
    BY <1>0, <1>8, RedisSafe DEF MarkCall, redisVars
  <2>2. \A m \in Nodes \ {n} : Same(m)
    BY <1>0, <1>8, Elsewhere DEF MarkCall, callVars
  <2>3. FilesSafe(n)'
    <3>1. rejected'[n] = rejected[n] /\ w.key \in published'
      BY <1>8, <2>0, <2>1 DEF MarkCall, Grown
    <3>2. CASE SetOutbox(n, MarkCommitted(outbox[n], work[n].key)) /\ Acknowledge(n, work[n].key)
      <4>1. outbox'[n] = MarkCommitted(outbox[n], w.key)
        BY <1>0, <1>00, <3>2, ReadBack
      <4>2. \A j \in Keys : acked'[n][j] > 0 => acked[n][j] > 0 \/ j \in published'
        BY <1>0, <1>00, <2>0, <3>1, <3>2, ReadBack
      <4> QED BY <1>0, <2>0, <2>1, <3>1, <4>1, <4>2, FilesWritten
    <3>3. CASE UNCHANGED <<outbox, callVars>>
      BY <1>0, <2>1, <3>1, <3>3, FilesUndisturbed DEF callVars
    <3> QED BY <1>8, <3>2, <3>3 DEF MarkCall
  <2>4. Ended(n)
    BY <1>0, <1>8, ReadBack DEF MarkCall, Ended, NoWork
  <2> QED BY <2>1, <2>2, <2>3, <2>4, EndedSafe DEF StepSafe, NodeSafe
<1> QED
  BY <1>1, <1>2, <1>3, <1>4, <1>5, <1>6, <1>7, <1>8 DEF Call

(* Attaching, opening and the watcher's tick are safe.                     *)
LEMMA ConnectKeepsSafe ==
    ASSUME Safe, NEW n \in Nodes, Connect(n)
    PROVE  StepSafe(n)
<1>0. /\ TypeOK /\ LedgerPublished /\ NodeSafe(n)
      /\ FilesSafe(n) /\ CallSafe(n) /\ ReconcileSafe(n)
      /\ work[n] \in Work
  BY DEF Safe, NodeSafe, TypeOK, NodeTypeOK
<1> USE DEF Same
<1>1. ASSUME NEW via, NEW replay, StartReplay(n, via, replay)
      PROVE  CallSafe(n)' /\ ReconcileSafe(n)'
  <2>1. PICK S : pc'[n] = "replay" /\ work'[n] = [NoWork EXCEPT !.via = via, !.todo = S]
    BY <1>0, <1>1, ReadBack DEF StartReplay
  <2>2. work'[n].refused = {}
    BY <2>1 DEF NoWork
  <2> QED BY <2>1, <2>2 DEF CallSafe, ReconcileSafe, Recorded
<1>2. ASSUME Attach(n) PROVE StepSafe(n)
  <2>1. Grown /\ LedgerPublished'
    BY <1>0, <1>2, RedisSafe DEF Attach, redisVars
  <2>2. \A m \in Nodes \ {n} : Same(m)
    BY <1>0, <1>2, Elsewhere DEF Attach, StartReplay, callVars
  <2>3. FilesSafe(n)'
    BY <1>0, <1>2, <2>1, FilesUndisturbed DEF Attach, callVars
  <2>4. CallSafe(n)' /\ ReconcileSafe(n)'
    BY <1>1, <1>2 DEF Attach
  <2> QED BY <2>1, <2>2, <2>3, <2>4 DEF StepSafe, NodeSafe
<1>3. ASSUME AttachFails(n) PROVE StepSafe(n)
  <2>1. Grown /\ LedgerPublished'
    BY <1>0, <1>3, RedisSafe DEF AttachFails, redisVars
  <2>2. \A m \in Nodes \ {n} : Same(m)
    BY <1>0, <1>3, Elsewhere DEF AttachFails, callVars
  <2>3. FilesSafe(n)'
    BY <1>0, <1>3, <2>1, FilesUndisturbed DEF AttachFails, callVars
  <2>4. Ended(n)
    BY <1>0, <1>3, ReadBack DEF AttachFails, Ended, NoWork
  <2> QED BY <2>1, <2>2, <2>3, <2>4, EndedSafe DEF StepSafe, NodeSafe
<1>4. ASSUME OpenUnreachable(n) PROVE StepSafe(n)
  <2>1. Grown /\ LedgerPublished'
    BY <1>0, <1>4, RedisSafe DEF OpenUnreachable, redisVars
  <2>2. \A m \in Nodes \ {n} : Same(m)
    BY <1>0, <1>4, Elsewhere DEF OpenUnreachable, fileVars, callVars
  <2>3. FilesSafe(n)'
    BY <1>0, <1>4, <2>1, FilesUndisturbed DEF OpenUnreachable, fileVars, callVars
  <2>4. Ended(n)
    BY <1>0, <1>4, ReadBack DEF OpenUnreachable, Ended, NoWork
  <2> QED BY <2>1, <2>2, <2>3, <2>4, EndedSafe DEF StepSafe, NodeSafe
<1>5. ASSUME Tick(n) PROVE StepSafe(n)
  <2>1. Grown /\ LedgerPublished'
    BY <1>0, <1>5, RedisSafe DEF Tick, redisVars
  <2>2. \A m \in Nodes \ {n} : Same(m)
    BY <1>0, <1>5, Elsewhere DEF Tick, StartReplay, callVars
  <2>3. FilesSafe(n)'
    BY <1>0, <1>5, <2>1, FilesUndisturbed DEF Tick, callVars
  <2>4. CallSafe(n)' /\ ReconcileSafe(n)'
    BY <1>1, <1>5 DEF Tick
  <2> QED BY <2>1, <2>2, <2>3, <2>4 DEF StepSafe, NodeSafe
<1>6. ASSUME TickFails(n) PROVE StepSafe(n)
  <2>1. UNCHANGED vars
    BY <1>6 DEF TickFails
  <2>2. Grown /\ LedgerPublished' /\ \A m \in Nodes : Same(m)
    BY <1>0, <2>1, RedisSafe DEF vars, redisVars, fileVars, callVars
  <2>3. NodeSafe(n)'
    BY <1>0, <2>1, <2>2, Undisturbed DEF vars, redisVars, fileVars, callVars
  <2> QED BY <2>2, <2>3 DEF StepSafe
<1> QED
  BY <1>2, <1>3, <1>4, <1>5, <1>6 DEF Connect

(* What a fault, a restart or the return of Redis leaves is safe.          *)
LEMMA EnvironmentKeepsSafe ==
    ASSUME Safe, Environment
    PROVE  LedgerPublished' /\ \A n \in Nodes : NodeSafe(n)'
<1>0. /\ TypeOK /\ LedgerPublished
      /\ \A n \in Nodes : NodeSafe(n) /\ work[n] \in Work /\ mem[n] \in Memory
  BY DEF Safe, TypeOK, NodeTypeOK
<1>1. ASSUME NEW n \in Nodes, Crash(n) \/ Restart(n)
      PROVE  LedgerPublished' /\ \A m \in Nodes : NodeSafe(m)'
  <2>1. Grown /\ LedgerPublished'
    BY <1>0, <1>1, RedisSafe DEF Crash, Restart, redisVars
  <2>2. \A m \in Nodes \ {n} : Same(m)
    BY <1>0, <1>1, Elsewhere DEF Crash, Restart, fileVars, callVars, Same
  <2>3. FilesSafe(n)'
    BY <1>0, <1>1, <2>1, FilesUndisturbed DEF NodeSafe, Crash, Restart, fileVars, callVars
  <2>4. Ended(n)
    BY <1>0, <1>1, ReadBack DEF Crash, Restart, Ended, NoWork
  <2>5. NodeSafe(n)'
    BY <2>3, <2>4, EndedSafe DEF NodeSafe
  <2>6. \A m \in Nodes \ {n} : NodeSafe(m)'
    BY <1>0, <2>1, <2>2, Undisturbed DEF Same
  <2> QED BY <2>1, <2>5, <2>6
<1>2. ASSUME NEW n \in Nodes, Disconnect(n)
      PROVE  LedgerPublished' /\ \A m \in Nodes : NodeSafe(m)'
  <2>1. Grown /\ LedgerPublished'
    BY <1>0, <1>2, RedisSafe DEF Disconnect, redisVars
  <2>2. \A m \in Nodes : /\ pc'[m] = pc[m] /\ work'[m] = work[m] /\ outbox'[m] = outbox[m]
                         /\ rejected'[m] = rejected[m] /\ acked'[m] = acked[m]
    BY <1>2 DEF Disconnect, fileVars, callVars
  <2>3. mem'[n] = [mem[n] EXCEPT !.link = "dead"]
    BY <1>0, <1>2, ReadBack DEF Disconnect
  <2>4. mem'[n].link = "dead" /\ mem'[n].active = mem[n].active
    BY <1>0, <2>3 DEF Memory
  <2>5. \A m \in Nodes \ {n} : mem'[m] = mem[m]
    BY <1>0, <1>2, Elsewhere DEF Disconnect
  <2> QED BY <1>0, <2>1, <2>2, <2>4, <2>5, Undisturbed
<1>3. ASSUME RedisStops \/ RedisStarts
      PROVE  LedgerPublished' /\ \A m \in Nodes : NodeSafe(m)'
  <2>1. Grown /\ LedgerPublished'
    BY <1>0, <1>3, RedisSafe DEF RedisStops, RedisStarts
  <2>2. \A m \in Nodes : /\ pc'[m] = pc[m] /\ work'[m] = work[m] /\ outbox'[m] = outbox[m]
                         /\ rejected'[m] = rejected[m] /\ acked'[m] = acked[m]
    BY <1>3 DEF RedisStops, RedisStarts, fileVars, callVars
  <2>3. \A m \in Nodes : mem'[m] = mem[m] \/ mem'[m] = [mem[m] EXCEPT !.link = "dead"]
    BY <1>0, <1>3 DEF RedisStops, RedisStarts
  <2>4. \A m \in Nodes : /\ mem'[m].active = mem[m].active
                         /\ mem'[m].link # "none" \/ mem'[m].link = mem[m].link
    BY <1>0, <2>3 DEF Memory
  <2> QED BY <1>0, <2>1, <2>2, <2>4, Undisturbed
<1>4. ASSUME NEW n \in Nodes, FileFills(n)
      PROVE  LedgerPublished' /\ \A m \in Nodes : NodeSafe(m)'
  <2>1. Grown /\ LedgerPublished'
    BY <1>0, <1>4, RedisSafe DEF FileFills, redisVars
  <2>2. \A m \in Nodes : Same(m)
    BY <1>4 DEF FileFills, callVars, Same
  <2> QED BY <1>0, <2>1, <2>2, Undisturbed DEF Same
<1> QED
  BY <1>1, <1>2, <1>3, <1>4 DEF Environment

(* A reconciliation step that leaves the files of its node alone is safe   *)
(* if what it goes on to is.                                               *)
LEMMA QuietStep ==
    ASSUME Safe, NEW n \in Nodes, Grown, LedgerPublished',
           UNCHANGED <<outbox, rejected, callVars>>,
           \A m \in Nodes \ {n} : mem'[m] = mem[m] /\ pc'[m] = pc[m] /\ work'[m] = work[m],
           Ended(n) \/ (CallSafe(n)' /\ ReconcileSafe(n)')
    PROVE  StepSafe(n)
<1>1. TypeOK /\ FilesSafe(n)
  BY DEF Safe, NodeSafe
<1>2. FilesSafe(n)'
  BY <1>1, FilesUndisturbed DEF callVars
<1>3. \A m \in Nodes \ {n} : Same(m)
  BY DEF Same, callVars
<1> QED
  BY <1>2, <1>3, EndedSafe DEF StepSafe, NodeSafe

(* The mirroring steps and the replay before them.                         *)
LEMMA MirrorKeepsSafe ==
    ASSUME Safe, NEW n \in Nodes,
           \/ ReplayEntry(n) \/ ReplayDone(n) \/ MirrorEntry(n) \/ MirrorComplete(n)
           \/ MirrorDone(n) \/ FinishDone(n)
    PROVE  StepSafe(n)
<1> DEFINE w == work[n]
<1>0. /\ TypeOK /\ LedgerPublished
      /\ FilesSafe(n) /\ OutboxSafe(n) /\ ReconcileSafe(n)
      /\ w \in Work /\ outbox[n] \in Seq(Entries)
      /\ w.todo \subseteq Keys /\ w.done \subseteq Keys
  BY DEF Safe, NodeSafe, FilesSafe, TypeOK, NodeTypeOK, FilesTypeOK, Work
<1> HIDE DEF w
<1>00. w = work[n]
  BY DEF w
<1>01. CommittedBatch(n) \subseteq published
  <2>1. ASSUME NEW k \in CommittedBatch(n) PROVE k \in published
    <3>1. PICK i \in DOMAIN outbox[n] : outbox[n][i].key = k /\ outbox[n][i].committed
      BY <2>1 DEF CommittedBatch, FirstBatch
    <3> QED BY <1>0, <3>1 DEF OutboxSafe
  <2> QED BY <2>1
<1>1. ASSUME ReplayEntry(n) PROVE StepSafe(n)
  <2>1. Grown /\ LedgerPublished'
    BY <1>0, <1>1, RedisSafe DEF ReplayEntry, redisVars
  <2>2. \A m \in Nodes \ {n} : mem'[m] = mem[m] /\ pc'[m] = pc[m] /\ work'[m] = work[m]
    BY <1>0, <1>1, Elsewhere DEF ReplayEntry
  <2>3. Ended(n) \/ (CallSafe(n)' /\ ReconcileSafe(n)')
    <3>1. ASSUME NEW k \in w.todo, UNCHANGED pc, SetWork(n, [w EXCEPT !.todo = @ \ {k}])
          PROVE  CallSafe(n)' /\ ReconcileSafe(n)'
      <4>1. pc'[n] = "replay" /\ work'[n].refused = w.refused
        BY <1>0, <1>1, <3>1, ReadBack DEF ReplayEntry, Work
      <4> QED BY <1>0, <1>00, <2>1, <4>1 DEF CallSafe, ReconcileSafe, Recorded, Grown, Work
    <3> QED BY <1>0, <1>00, <1>1, <3>1, AbandonEnds DEF ReplayEntry
  <2> QED BY <1>1, <2>1, <2>2, <2>3, QuietStep DEF ReplayEntry
<1>2. ASSUME ReplayDone(n) PROVE StepSafe(n)
  <2>1. Grown /\ LedgerPublished'
    BY <1>0, <1>2, RedisSafe DEF ReplayDone, redisVars
  <2>2. \A m \in Nodes \ {n} : mem'[m] = mem[m] /\ pc'[m] = pc[m] /\ work'[m] = work[m]
    BY <1>0, <1>2, Elsewhere DEF ReplayDone, StartMirror
  <2>3. pc'[n] = "mirror" /\ work'[n] = [w EXCEPT !.todo = CommittedBatch(n), !.done = {}]
    BY <1>0, <1>00, <1>2, ReadBack DEF ReplayDone, StartMirror
  <2>4. work'[n].todo = CommittedBatch(n) /\ work'[n].done = {} /\ work'[n].refused = w.refused
    BY <1>0, <2>3 DEF Work
  <2>5. CallSafe(n)' /\ ReconcileSafe(n)'
    BY <1>0, <1>00, <1>01, <2>1, <2>3, <2>4 DEF CallSafe, ReconcileSafe, Recorded, Grown, Work
  <2> QED BY <1>2, <2>1, <2>2, <2>5, QuietStep DEF ReplayDone, fileVars
<1>3. ASSUME MirrorEntry(n) PROVE StepSafe(n)
  <2>1. Grown /\ LedgerPublished'
    BY <1>0, <1>3, RedisSafe DEF MirrorEntry, redisVars
  <2>2. \A m \in Nodes \ {n} : mem'[m] = mem[m] /\ pc'[m] = pc[m] /\ work'[m] = work[m]
    BY <1>0, <1>3, Elsewhere DEF MirrorEntry
  <2>3. Ended(n) \/ (CallSafe(n)' /\ ReconcileSafe(n)')
    <3>1. ASSUME NEW k \in w.todo, UNCHANGED pc,
                 SetWork(n, [w EXCEPT !.todo = @ \ {k}, !.done = @ \cup {k}])
          PROVE  CallSafe(n)' /\ ReconcileSafe(n)'
      <4>1. pc'[n] = "mirror" /\ pc[n] = "mirror"
        BY <1>3, <3>1 DEF MirrorEntry
      <4>2. work'[n] = [w EXCEPT !.todo = @ \ {k}, !.done = @ \cup {k}]
        BY <1>0, <3>1, ReadBack
      <4>3. /\ work'[n].refused = w.refused
            /\ work'[n].todo = w.todo \ {k} /\ work'[n].done = w.done \cup {k}
        BY <1>0, <4>2 DEF Work
      <4> QED BY <1>0, <1>00, <2>1, <4>1, <4>3 DEF CallSafe, ReconcileSafe, Recorded, Grown, Work
    <3> QED BY <1>0, <1>00, <1>3, <3>1, AbandonEnds DEF MirrorEntry
  <2> QED BY <1>3, <2>1, <2>2, <2>3, QuietStep DEF MirrorEntry
<1>4. ASSUME MirrorComplete(n) PROVE StepSafe(n)
  <2>1. Grown /\ LedgerPublished'
    BY <1>0, <1>4, RedisSafe DEF MirrorComplete, redisVars
  <2>2. \A m \in Nodes \ {n} : Same(m)
    BY <1>0, <1>4, Elsewhere DEF MirrorComplete, callVars, Same
  <2>3. PICK k \in w.done : /\ outbox'[n] = Complete(outbox[n], k)
                            /\ work'[n] = [w EXCEPT !.done = @ \ {k}]
    BY <1>0, <1>00, <1>4, ReadBack DEF MirrorComplete
  <2>4. /\ pc[n] = "mirror" /\ pc'[n] = "mirror"
        /\ rejected'[n] = rejected[n] /\ acked'[n] = acked[n]
    BY <1>4 DEF MirrorComplete, callVars
  <2>5. k \in Keys /\ k \in published'
    BY <1>0, <1>00, <2>1, <2>4 DEF ReconcileSafe, Grown
  <2>6. FilesSafe(n)'
    BY <1>0, <2>1, <2>3, <2>4, <2>5, FilesWritten
  <2>7. /\ work'[n].refused = w.refused /\ work'[n].todo = w.todo
        /\ work'[n].done = w.done \ {k}
    BY <1>0, <2>3 DEF Work
  <2>8. CallSafe(n)' /\ ReconcileSafe(n)'
    BY <1>0, <1>00, <2>1, <2>4, <2>7 DEF CallSafe, ReconcileSafe, Recorded, Grown, Work
  <2> QED BY <2>1, <2>2, <2>6, <2>8 DEF StepSafe, NodeSafe
<1>5. ASSUME MirrorDone(n) PROVE StepSafe(n)
  <2>1. Grown /\ LedgerPublished'
    BY <1>0, <1>5, RedisSafe DEF MirrorDone, redisVars
  <2>2. \A m \in Nodes \ {n} : mem'[m] = mem[m] /\ pc'[m] = pc[m] /\ work'[m] = work[m]
    BY <1>0, <1>5, Elsewhere DEF MirrorDone, Reconciled
  <2>3. /\ pc'[n] \in {"idle", "due", "scan"}
        /\ \/ work'[n] = w \/ work'[n] = NoWork
           \/ work'[n] = [w EXCEPT !.todo = UncommittedBatch(n)]
    BY <1>0, <1>00, <1>5, ReadBack DEF MirrorDone, Reconciled
  <2>4. work'[n].refused \in {{}, w.refused}
    BY <1>0, <2>3 DEF Work, NoWork
  <2>5. CallSafe(n)' /\ ReconcileSafe(n)'
    BY <1>0, <1>00, <2>1, <2>3, <2>4 DEF CallSafe, ReconcileSafe, Recorded, Grown, Work
  <2> QED BY <1>5, <2>1, <2>2, <2>5, QuietStep DEF MirrorDone, fileVars
<1>6. ASSUME FinishDone(n) PROVE StepSafe(n)
  <2>1. Grown /\ LedgerPublished'
    BY <1>0, <1>6, RedisSafe DEF FinishDone, redisVars
  <2>2. \A m \in Nodes \ {n} : mem'[m] = mem[m] /\ pc'[m] = pc[m] /\ work'[m] = work[m]
    BY <1>0, <1>6, Elsewhere DEF FinishDone
  <2>3. /\ pc'[n] = "mirror"
        /\ work'[n] = [w EXCEPT !.todo = CommittedBatch(n), !.done = {}, !.second = TRUE]
    BY <1>0, <1>00, <1>6, ReadBack DEF FinishDone
  <2>4. work'[n].todo = CommittedBatch(n) /\ work'[n].done = {} /\ work'[n].refused = w.refused
    BY <1>0, <2>3 DEF Work
  <2>5. CallSafe(n)' /\ ReconcileSafe(n)'
    BY <1>0, <1>00, <1>01, <2>1, <2>3, <2>4 DEF CallSafe, ReconcileSafe, Recorded, Grown, Work
  <2> QED BY <1>6, <2>1, <2>2, <2>5, QuietStep DEF FinishDone, fileVars
<1> QED
  BY <1>1, <1>2, <1>3, <1>4, <1>5, <1>6

(* Scanning the entries and recording conflicts.                           *)
LEMMA ScanKeepsSafe ==
    ASSUME Safe, NEW n \in Nodes,
           \/ ScanEntry(n) \/ ScanDone(n) \/ RecordCheck(n) \/ RecordSet(n)
           \/ ConflictEntry(n) \/ ConflictSync(n)
    PROVE  StepSafe(n)
<1> DEFINE w == work[n]
<1>0. /\ TypeOK /\ LedgerPublished
      /\ FilesSafe(n) /\ OutboxSafe(n) /\ ReconcileSafe(n)
      /\ w \in Work /\ w.todo \subseteq Keys
      /\ pc[n] \in CallLabels => w.key \in Keys
  BY DEF Safe, NodeSafe, FilesSafe, TypeOK, NodeTypeOK, Work
<1> HIDE DEF w
<1>00. w = work[n]
  BY DEF w
<1>1. ASSUME ScanEntry(n) PROVE StepSafe(n)
  <2>1. Grown /\ LedgerPublished'
    BY <1>0, <1>1, RedisSafe DEF ScanEntry, redisVars
  <2>2. \A m \in Nodes \ {n} : Same(m)
    BY <1>0, <1>1, Elsewhere DEF ScanEntry, callVars, Same
  <2>3. rejected'[n] = rejected[n] /\ acked'[n] = acked[n]
    BY <1>1 DEF ScanEntry, callVars
  <2>4a. PICK k \in w.todo :
          LET rest == [w EXCEPT !.todo = @ \ {k}] IN
          /\ \/ UNCHANGED outbox
             \/ ledger[k] = "committed" /\ SetOutbox(n, MarkCommitted(outbox[n], k))
          /\ \/ /\ UNCHANGED pc
                /\ \/ SetWork(n, rest)
                   \/ ledger[k] = "conflict" /\ SetWork(n, [rest EXCEPT !.refused = @ \cup {k}])
                   \/ SetWork(n, [rest EXCEPT !.applied = @ \cup {k}, !.local = @ \cup {k}])
                   \/ SetWork(n, [rest EXCEPT !.applied = @ \cup {k}])
             \/ Goto(n, "record") /\ SetWork(n, [rest EXCEPT !.key = k, !.resume = "scan"])
    BY <1>1, <1>00 DEF ScanEntry
  <2>4b. pc[n] = "scan"
    BY <1>1 DEF ScanEntry
  <2> DEFINE rest == [w EXCEPT !.todo = @ \ {k}]
  <2>4. /\ \/ outbox'[n] = outbox[n]
           \/ ledger[k] = "committed" /\ outbox'[n] = MarkCommitted(outbox[n], k)
        /\ \/ /\ pc'[n] = "scan"
              /\ \/ work'[n] = rest
                 \/ ledger[k] = "conflict" /\ work'[n] = [rest EXCEPT !.refused = @ \cup {k}]
                 \/ work'[n] = [rest EXCEPT !.applied = @ \cup {k}, !.local = @ \cup {k}]
                 \/ work'[n] = [rest EXCEPT !.applied = @ \cup {k}]
           \/ pc'[n] = "record" /\ work'[n] = [rest EXCEPT !.key = k, !.resume = "scan"]
    BY <1>0, <2>4a, <2>4b, ReadBack
  <2>5. k \in Keys
    BY <1>0
  <2>6. FilesSafe(n)'
    <3>1. ledger[k] = "committed" => k \in published'
      BY <1>0, <2>1, <2>5 DEF LedgerPublished, Grown
    <3> QED BY <1>0, <2>1, <2>3, <2>4, <2>5, <3>1, FilesWritten, FilesUndisturbed
  <2>7. Recorded(work[n].refused)' /\ (pc'[n] = "record" => work'[n].resume = "scan")
    <3>1. \/ work'[n].refused = w.refused
          \/ ledger[k] = "conflict" /\ work'[n].refused = w.refused \cup {k}
      BY <1>0, <2>4 DEF Work
    <3>2. pc'[n] = "record" => work'[n].resume = "scan"
      BY <1>0, <2>4 DEF Work
    <3>3. w.refused \subseteq Keys /\ Recorded(w.refused)
      BY <1>0, <1>00 DEF Work, ReconcileSafe
    <3> QED BY <2>1, <2>5, <3>1, <3>2, <3>3 DEF Recorded, Grown
  <2>8. pc'[n] \in {"scan", "record"}
    BY <2>4
  <2>9. CallSafe(n)' /\ ReconcileSafe(n)'
    BY <2>7, <2>8 DEF CallSafe, ReconcileSafe
  <2> QED BY <2>2, <2>1, <2>6, <2>9 DEF StepSafe, NodeSafe
<1>2. ASSUME ScanDone(n) PROVE StepSafe(n)
  <2>1. Grown /\ LedgerPublished'
    BY <1>0, <1>2, RedisSafe DEF ScanDone, redisVars
  <2>2. \A m \in Nodes \ {n} : mem'[m] = mem[m] /\ pc'[m] = pc[m] /\ work'[m] = work[m]
    BY <1>0, <1>2, Elsewhere DEF ScanDone
  <2>3. work'[n] = w /\ (pc'[n] = "send" \/ (pc'[n] = "finish" /\ w.applied = {}))
    BY <1>0, <1>00, <1>2, ReadBack DEF ScanDone
  <2>4. CallSafe(n)' /\ ReconcileSafe(n)'
    BY <1>0, <1>00, <2>1, <2>3 DEF CallSafe, ReconcileSafe, Recorded, Grown, Work
  <2> QED BY <1>2, <2>1, <2>2, <2>4, QuietStep DEF ScanDone, fileVars
<1>3. ASSUME w.key \in Keys, Grown, ledger'[w.key] # "none",
             pc[n] \in {"record", "record_set"}, pc'[n] = w.resume,
             work'[n] = [w EXCEPT !.refused = @ \cup {w.key}]
      PROVE  CallSafe(n)' /\ ReconcileSafe(n)'
  <2>1. /\ work'[n].refused = w.refused \cup {w.key} /\ work'[n].applied = w.applied
        /\ work'[n].todo = w.todo /\ work'[n].resume = w.resume
    BY <1>0, <1>3 DEF Work
  <2>2. pc'[n] \in {"scan", "conflict"}
    BY <1>0, <1>3 DEF Work
  <2>3. Recorded(work[n].refused)'
    BY <1>0, <1>00, <1>3, <2>1 DEF ReconcileSafe, Recorded, Grown, Work
  <2>4. pc'[n] = "conflict" => Recorded(work[n].applied \ work[n].todo)'
    BY <1>0, <1>00, <1>3, <2>1 DEF ReconcileSafe, Recorded, Grown, Work
  <2> QED BY <2>2, <2>3, <2>4 DEF CallSafe, ReconcileSafe
<1>4. ASSUME RecordCheck(n) PROVE StepSafe(n)
  <2>1. Grown /\ LedgerPublished'
    BY <1>0, <1>4, RedisSafe DEF RecordCheck, redisVars
  <2>2. \A m \in Nodes \ {n} : mem'[m] = mem[m] /\ pc'[m] = pc[m] /\ work'[m] = work[m]
    BY <1>0, <1>4, Elsewhere DEF RecordCheck
  <2>3. w.key \in Keys /\ pc[n] = "record"
    BY <1>0, <1>4 DEF RecordCheck, CallLabels
  <2>4. CASE ledger[w.key] = "committed"
    <3>1. pc'[n] = w.resume /\ work'[n] = [w EXCEPT !.refused = @ \cup {w.key}]
      BY <1>0, <1>00, <1>4, <2>4, ReadBack DEF RecordCheck
    <3>2. CallSafe(n)' /\ ReconcileSafe(n)'
      BY <1>3, <2>1, <2>3, <2>4, <3>1 DEF Grown
    <3> QED BY <1>4, <2>1, <2>2, <3>2, QuietStep DEF RecordCheck, fileVars
  <2>5. CASE ledger[w.key] # "committed"
    <3>1. pc'[n] = "record_set" /\ work'[n] = w
      BY <1>0, <1>00, <1>4, <2>5, ReadBack DEF RecordCheck
    <3>2. CallSafe(n)' /\ ReconcileSafe(n)'
      BY <1>0, <1>00, <2>1, <2>3, <3>1 DEF CallSafe, ReconcileSafe, Recorded, Grown, Work
    <3> QED BY <1>4, <2>1, <2>2, <3>2, QuietStep DEF RecordCheck, fileVars
  <2> QED BY <2>4, <2>5
<1>5. ASSUME RecordSet(n) PROVE StepSafe(n)
  <2>0. w.key \in Keys /\ pc[n] = "record_set"
    BY <1>0, <1>5 DEF RecordSet, CallLabels
  <2>1. Grown /\ LedgerPublished' /\ ledger'[w.key] # "none"
    BY <1>0, <1>00, <1>5, <2>0, RedisSafe DEF RecordSet
  <2>2. \A m \in Nodes \ {n} : mem'[m] = mem[m] /\ pc'[m] = pc[m] /\ work'[m] = work[m]
    BY <1>0, <1>5, Elsewhere DEF RecordSet
  <2>3. pc'[n] = w.resume /\ work'[n] = [w EXCEPT !.refused = @ \cup {w.key}]
    BY <1>0, <1>00, <1>5, ReadBack DEF RecordSet
  <2>4. CallSafe(n)' /\ ReconcileSafe(n)'
    BY <1>3, <2>0, <2>1, <2>3
  <2> QED BY <1>5, <2>1, <2>2, <2>4, QuietStep DEF RecordSet, fileVars
<1>6. ASSUME ConflictEntry(n) PROVE StepSafe(n)
  <2>1. Grown /\ LedgerPublished'
    BY <1>0, <1>6, RedisSafe DEF ConflictEntry, redisVars
  <2>2. \A m \in Nodes \ {n} : mem'[m] = mem[m] /\ pc'[m] = pc[m] /\ work'[m] = work[m]
    BY <1>0, <1>6, Elsewhere DEF ConflictEntry
  <2>3. PICK k \in w.todo : work'[n] = [w EXCEPT !.todo = @ \ {k}, !.key = k]
    BY <1>0, <1>00, <1>6, ReadBack DEF ConflictEntry
  <2>4. pc[n] = "conflict" /\ pc'[n] = "record"
    BY <1>0, <1>6, ReadBack DEF ConflictEntry
  <2>5. /\ work'[n].refused = w.refused /\ work'[n].applied = w.applied
        /\ work'[n].todo = w.todo \ {k} /\ work'[n].key = k
    BY <1>0, <2>3 DEF Work
  <2>6. CallSafe(n)' /\ ReconcileSafe(n)'
    BY <1>0, <1>00, <2>1, <2>4, <2>5 DEF CallSafe, ReconcileSafe, Recorded, Grown, Work
  <2> QED BY <1>6, <2>1, <2>2, <2>6, QuietStep DEF ConflictEntry, fileVars
<1>7. ASSUME ConflictSync(n) PROVE StepSafe(n)
  <2>1. Grown /\ LedgerPublished'
    BY <1>0, <1>7, RedisSafe DEF ConflictSync, redisVars
  <2>2. \A m \in Nodes \ {n} : mem'[m] = mem[m] /\ pc'[m] = pc[m] /\ work'[m] = work[m]
    BY <1>0, <1>7, Elsewhere DEF ConflictSync
  <2>3. /\ pc[n] = "conflict" /\ w.todo = {} /\ pc'[n] \in {"checkpoint", "finish"}
        /\ work'[n] = [w EXCEPT !.refused = @ \cup w.applied, !.applied = {}]
    BY <1>0, <1>00, <1>7, ReadBack DEF ConflictSync
  <2>4. work'[n].refused = w.refused \cup w.applied /\ work'[n].applied = {}
    BY <1>0, <2>3 DEF Work
  <2>5. CallSafe(n)' /\ ReconcileSafe(n)'
    BY <1>0, <1>00, <2>1, <2>3, <2>4 DEF CallSafe, ReconcileSafe, Recorded, Grown, Work
  <2> QED BY <1>7, <2>1, <2>2, <2>5, QuietStep DEF ConflictSync
<1> QED
  BY <1>1, <1>2, <1>4, <1>5, <1>6, <1>7

(* Publishing the applied entries, the checkpoint and the errors.          *)
LEMMA SendKeepsSafe ==
    ASSUME Safe, NEW n \in Nodes,
           \/ SendApplied(n) \/ SendReplyLost(n) \/ SendConflict(n)
           \/ Checkpoint(n) \/ CheckpointConflict(n) \/ ReconcileUnreachable(n)
    PROVE  StepSafe(n)
<1> DEFINE w == work[n]
<1>0. /\ TypeOK /\ LedgerPublished /\ ReconcileSafe(n)
      /\ w \in Work /\ w.applied \in SUBSET Keys
  BY DEF Safe, NodeSafe, TypeOK, NodeTypeOK, Work
<1> HIDE DEF w
<1>00. w = work[n]
  BY DEF w
<1>1. ASSUME SendApplied(n) PROVE StepSafe(n)
  <2>1. Grown /\ LedgerPublished' /\ w.applied \subseteq published'
    BY <1>0, <1>00, <1>1, RedisSafe DEF SendApplied
  <2>2. \A m \in Nodes \ {n} : mem'[m] = mem[m] /\ pc'[m] = pc[m] /\ work'[m] = work[m]
    BY <1>0, <1>1, Elsewhere DEF SendApplied
  <2>3. pc'[n] \in {"checkpoint", "finish"} /\ work'[n] = w
    BY <1>0, <1>00, <1>1, ReadBack DEF SendApplied
  <2>4. CallSafe(n)' /\ ReconcileSafe(n)'
    BY <1>0, <1>00, <2>1, <2>3 DEF CallSafe, ReconcileSafe, Recorded, Grown, Work
  <2> QED BY <1>1, <2>1, <2>2, <2>4, QuietStep DEF SendApplied, fileVars
<1>2. ASSUME SendReplyLost(n) PROVE StepSafe(n)
  <2>1. Grown /\ LedgerPublished'
    BY <1>0, <1>00, <1>2, RedisSafe DEF SendReplyLost
  <2>2. \A m \in Nodes \ {n} : mem'[m] = mem[m] /\ pc'[m] = pc[m] /\ work'[m] = work[m]
    BY <1>0, <1>2, Elsewhere DEF SendReplyLost
  <2>3. Ended(n)
    BY <1>0, <1>2, AbandonEnds DEF SendReplyLost
  <2> QED BY <1>2, <2>1, <2>2, <2>3, QuietStep DEF SendReplyLost
<1>3. ASSUME SendConflict(n) PROVE StepSafe(n)
  <2>1. Grown /\ LedgerPublished'
    BY <1>0, <1>3, RedisSafe DEF SendConflict, redisVars
  <2>2. \A m \in Nodes \ {n} : mem'[m] = mem[m] /\ pc'[m] = pc[m] /\ work'[m] = work[m]
    BY <1>0, <1>3, Elsewhere DEF SendConflict
  <2>3. /\ pc'[n] = "conflict"
        /\ work'[n] = [w EXCEPT !.todo = w.applied, !.resume = "conflict"]
    BY <1>0, <1>00, <1>3, ReadBack DEF SendConflict
  <2>4. work'[n].refused = w.refused /\ work'[n].applied = work'[n].todo
    BY <1>0, <2>3 DEF Work
  <2>5. CallSafe(n)' /\ ReconcileSafe(n)'
    BY <1>0, <1>00, <2>1, <2>3, <2>4 DEF CallSafe, ReconcileSafe, Recorded, Grown, Work
  <2> QED BY <1>3, <2>1, <2>2, <2>5, QuietStep DEF SendConflict, fileVars
<1>4. ASSUME Checkpoint(n) PROVE StepSafe(n)
  <2>1. Grown /\ LedgerPublished'
    BY <1>0, <1>4, RedisSafe DEF Checkpoint
  <2>2. \A m \in Nodes \ {n} : mem'[m] = mem[m] /\ pc'[m] = pc[m] /\ work'[m] = work[m]
    BY <1>0, <1>4, Elsewhere DEF Checkpoint
  <2>3. \/ Ended(n)
        \/ pc[n] = "checkpoint" /\ pc'[n] = "finish" /\ work'[n] = w
    BY <1>0, <1>00, <1>4, ReadBack, AbandonEnds DEF Checkpoint, Ended, NoWork
  <2>4. Ended(n) \/ (CallSafe(n)' /\ ReconcileSafe(n)')
    BY <1>0, <1>00, <2>1, <2>3 DEF CallSafe, ReconcileSafe, Recorded, Grown, Work
  <2> QED BY <1>4, <2>1, <2>2, <2>4, QuietStep DEF Checkpoint
<1>5. ASSUME CheckpointConflict(n) \/ ReconcileUnreachable(n) PROVE StepSafe(n)
  <2>1. Grown /\ LedgerPublished'
    BY <1>0, <1>5, RedisSafe DEF CheckpointConflict, ReconcileUnreachable, redisVars
  <2>2. \A m \in Nodes \ {n} : mem'[m] = mem[m] /\ pc'[m] = pc[m] /\ work'[m] = work[m]
    BY <1>0, <1>5, Elsewhere DEF CheckpointConflict, ReconcileUnreachable
  <2>3. Ended(n)
    BY <1>0, <1>5, AbandonEnds DEF CheckpointConflict, ReconcileUnreachable
  <2> QED BY <1>5, <2>1, <2>2, <2>3, QuietStep DEF CheckpointConflict, ReconcileUnreachable
<1> QED
  BY <1>1, <1>2, <1>3, <1>4, <1>5

(* Finishing the applied and the rejected entries, and a log write that    *)
(* fails in between.                                                       *)
LEMMA FinishKeepsSafe ==
    ASSUME Safe, NEW n \in Nodes, LogWriteFails(n) \/ FinishApplied(n) \/ FinishRejected(n)
    PROVE  StepSafe(n)
<1> DEFINE w == work[n]
<1>0. /\ TypeOK /\ LedgerPublished
      /\ FilesSafe(n) /\ OutboxSafe(n) /\ ReconcileSafe(n)
      /\ w \in Work /\ w.applied \subseteq Keys /\ w.refused \subseteq Keys
  BY DEF Safe, NodeSafe, FilesSafe, TypeOK, NodeTypeOK, Work
<1> HIDE DEF w
<1>00. w = work[n]
  BY DEF w
<1>1. ASSUME LogWriteFails(n) PROVE StepSafe(n)
  <2>1. Grown /\ LedgerPublished'
    BY <1>0, <1>1, RedisSafe DEF LogWriteFails, redisVars
  <2>2. \A m \in Nodes \ {n} : Same(m)
    <3>1. Abandon(n) /\ outbox' = outbox /\ acked' = acked
      BY <1>1 DEF LogWriteFails, callVars
    <3>2. \/ rejected' = rejected
          \/ \E k : rejected' = [rejected EXCEPT ![n] = @ \cup {k}]
      BY <1>1 DEF LogWriteFails
    <3> TAKE m \in Nodes \ {n}
    <3>3. mem'[m] = mem[m] /\ pc'[m] = pc[m] /\ work'[m] = work[m]
      BY <1>0, <3>1, Elsewhere
    <3>4. rejected'[m] = rejected[m]
      BY <1>0, <3>2, Elsewhere
    <3> QED
      BY <3>1, <3>3, <3>4 DEF Same
  <2>3. outbox'[n] = outbox[n] /\ acked'[n] = acked[n]
    BY <1>1 DEF LogWriteFails, callVars
  <2>4. \/ rejected'[n] = rejected[n]
        \/ \E k \in w.refused : rejected'[n] = rejected[n] \cup {k}
    BY <1>0, <1>00, <1>1 DEF LogWriteFails, TypeOK, FilesTypeOK
  <2>5. FilesSafe(n)'
    <3>1. CASE rejected'[n] = rejected[n]
      BY <1>0, <2>1, <2>3, <3>1, FilesUndisturbed
    <3>2. ASSUME NEW k \in w.refused, rejected'[n] = rejected[n] \cup {k} PROVE FilesSafe(n)'
      <4>1. k \in Keys /\ ledger'[k] # "none"
        BY <1>0, <1>00, <2>1 DEF ReconcileSafe, Recorded, Grown
      <4>2. Recorded(rejected[n])'
        BY <1>0, <2>1, <3>2, <4>1 DEF FilesSafe, Recorded, Grown, TypeOK, FilesTypeOK
      <4>3. OutboxSafe(n)'
        BY <1>0, <2>1, <2>3 DEF OutboxSafe, Grown
      <4>4. \A j \in NeverRefused : acked'[n][j] > 0 => Accounted(n, j)'
        BY <1>0, <2>1, <2>3, <3>2 DEF FilesSafe, Accounted, Grown
      <4>5. NeverRefused' = NeverRefused
        BY DEF NeverRefused
      <4> QED BY <4>2, <4>3, <4>4, <4>5 DEF FilesSafe
    <3> QED BY <2>4, <3>1, <3>2
  <2>6. Ended(n)
    BY <1>0, <1>1, AbandonEnds DEF LogWriteFails
  <2> QED BY <2>1, <2>2, <2>5, <2>6, EndedSafe DEF StepSafe, NodeSafe
<1>2. ASSUME FinishApplied(n) PROVE StepSafe(n)
  <2>1. Grown /\ LedgerPublished'
    BY <1>0, <1>2, RedisSafe DEF FinishApplied, redisVars
  <2>2. \A m \in Nodes \ {n} : Same(m)
    BY <1>0, <1>2, Elsewhere DEF FinishApplied, callVars, Same
  <2>3. PICK k \in w.applied :
          /\ SetOutbox(n, IF k \in w.local THEN Complete(outbox[n], k)
                          ELSE MarkCommitted(outbox[n], k))
          /\ SetWork(n, [w EXCEPT !.applied = @ \ {k}])
    BY <1>00, <1>2 DEF FinishApplied
  <2>4. /\ pc[n] = "finish" /\ pc'[n] = "finish"
        /\ rejected'[n] = rejected[n] /\ acked'[n] = acked[n]
    BY <1>2 DEF FinishApplied, callVars
  <2>5. k \in Keys /\ k \in published'
    BY <1>0, <1>00, <2>1, <2>4 DEF ReconcileSafe, Grown
  <2>6. outbox'[n] = Complete(outbox[n], k) \/ outbox'[n] = MarkCommitted(outbox[n], k)
    BY <1>0, <2>3, ReadBack
  <2>7. FilesSafe(n)'
    BY <1>0, <2>1, <2>4, <2>5, <2>6, FilesWritten
  <2>8. work'[n] = [w EXCEPT !.applied = @ \ {k}]
    BY <1>0, <2>3, ReadBack
  <2>9. work'[n].refused = w.refused /\ work'[n].applied = w.applied \ {k}
    BY <1>0, <2>8 DEF Work
  <2>10. CallSafe(n)' /\ ReconcileSafe(n)'
    BY <1>0, <1>00, <2>1, <2>4, <2>9 DEF CallSafe, ReconcileSafe, Recorded, Grown, Work
  <2> QED BY <2>1, <2>2, <2>7, <2>10 DEF StepSafe, NodeSafe
<1>3. ASSUME FinishRejected(n) PROVE StepSafe(n)
  <2>1. Grown /\ LedgerPublished'
    BY <1>0, <1>3, RedisSafe DEF FinishRejected, redisVars
  <2>2. \A m \in Nodes \ {n} : Same(m)
    BY <1>0, <1>3, Elsewhere DEF FinishRejected, callVars, Same
  <2>3. PICK k \in w.refused :
          /\ SetOutbox(n, Complete(outbox[n], k))
          /\ rejected' = [rejected EXCEPT ![n] = @ \cup {k}]
          /\ SetWork(n, [w EXCEPT !.refused = @ \ {k}])
    BY <1>00, <1>3 DEF FinishRejected
  <2>4. /\ pc[n] = "finish" /\ pc'[n] = "finish" /\ acked'[n] = acked[n] /\ w.applied = {}
    BY <1>3, <1>00 DEF FinishRejected, callVars
  <2>5. k \in Keys /\ ledger'[k] # "none"
    BY <1>0, <1>00, <2>1 DEF ReconcileSafe, Recorded, Grown
  <2>6. outbox'[n] = Complete(outbox[n], k) /\ rejected'[n] = rejected[n] \cup {k}
    BY <1>0, <2>3, ReadBack DEF TypeOK, FilesTypeOK
  <2>7. FilesSafe(n)'
    BY <1>0, <2>1, <2>4, <2>5, <2>6, FilesWritten
  <2>8. work'[n] = [w EXCEPT !.refused = @ \ {k}]
    BY <1>0, <2>3, ReadBack
  <2>9. work'[n].refused = w.refused \ {k} /\ work'[n].applied = {}
    BY <1>0, <2>4, <2>8 DEF Work
  <2>10. CallSafe(n)' /\ ReconcileSafe(n)'
    BY <1>0, <1>00, <2>1, <2>4, <2>9 DEF CallSafe, ReconcileSafe, Recorded, Grown, Work
  <2> QED BY <2>1, <2>2, <2>7, <2>10 DEF StepSafe, NodeSafe
<1> QED
  BY <1>1, <1>2, <1>3

-----------------------------------------------------------------------------
(* The strengthened invariant holds in every reachable state.              *)
THEOREM SafeCorrect == Spec => []Safe
<1>1. Init => Safe
  <2> SUFFICES ASSUME Init PROVE Safe
    OBVIOUS
  <2>1. TypeOK
    BY TypeInit
  <2>2. LedgerPublished
    BY DEF Init, LedgerPublished
  <2>3. ASSUME NEW n \in Nodes PROVE NodeSafe(n)
    <3>1. /\ outbox[n] = <<>> /\ rejected[n] = {} /\ pc[n] = "opening"
          /\ work[n] = [NoWork EXCEPT !.via = "open"]
          /\ acked[n] = [k \in Keys |-> 0]
      BY DEF Init
    <3>2. OutboxSafe(n)
      BY <3>1 DEF OutboxSafe, UniqueKeys
    <3>3. FilesSafe(n)
      BY <3>1, <3>2 DEF FilesSafe, Recorded, NeverRefused
    <3>4. work[n].refused = {}
      BY <3>1 DEF NoWork
    <3>5. CallSafe(n) /\ ReconcileSafe(n)
      BY <3>1, <3>4 DEF CallSafe, ReconcileSafe, Recorded
    <3> QED BY <3>3, <3>5 DEF NodeSafe
  <2> QED BY <2>1, <2>2, <2>3 DEF Safe
<1>2. Safe /\ [Next]_vars => Safe'
  <2> SUFFICES ASSUME Safe, [Next]_vars PROVE Safe'
    OBVIOUS
  <2>1. TypeOK'
    BY TypeStep DEF Safe
  <2>2. ASSUME NEW n \in Nodes, StepSafe(n) PROVE Safe'
    <3>1. \A m \in Nodes : NodeSafe(m) /\ work[m] \in Work
      BY DEF Safe, TypeOK, NodeTypeOK
    <3>2. \A m \in Nodes \ {n} : NodeSafe(m)'
      BY <2>2, <3>1, Undisturbed DEF Safe, StepSafe, Same
    <3> QED BY <2>1, <2>2, <3>2 DEF Safe, StepSafe
  <2>3. ASSUME Environment PROVE Safe'
    BY <2>1, <2>3, EnvironmentKeepsSafe DEF Safe
  <2>4. ASSUME NEW n \in Nodes, Reconcile(n) PROVE StepSafe(n)
    BY <2>4, MirrorKeepsSafe, ScanKeepsSafe, SendKeepsSafe, FinishKeepsSafe DEF Reconcile
  <2>5. CASE UNCHANGED vars
    BY <2>5 DEF vars, redisVars, fileVars, callVars, Safe, TypeOK, RedisTypeOK, FilesTypeOK,
       NodeTypeOK, CallsTypeOK, LedgerPublished, NodeSafe, FilesSafe, OutboxSafe, Accounted,
       CallSafe, ReconcileSafe, Recorded
  <2> QED BY <2>2, <2>3, <2>4, <2>5, CallKeepsSafe, ConnectKeepsSafe DEF Next
<1> QED
  BY <1>1, <1>2, PTL DEF Spec

-----------------------------------------------------------------------------
(* The fold of no outbox ever yields two entries of one key.               *)
THEOREM OutboxKeysUniqueCorrect == Spec => []OutboxKeysUnique
<1>1. Safe => OutboxKeysUnique
  BY DEF Safe, NodeSafe, FilesSafe, OutboxSafe, OutboxKeysUnique
<1> QED
  BY <1>1, SafeCorrect, PTL

(* An entry flagged redis_committed was published by some EXEC.            *)
THEOREM FlagImpliesPublishedCorrect == Spec => []FlagImpliesPublished
<1>1. Safe => FlagImpliesPublished
  BY DEF Safe, NodeSafe, FilesSafe, OutboxSafe, FlagImpliesPublished
<1> QED
  BY <1>1, SafeCorrect, PTL

(* No acknowledged call that the store cannot refuse is forgotten, through *)
(* crashes, lost replies, outages and full logs on any number of nodes.    *)
THEOREM AckedAccountedCorrect == Spec => []AckedAccounted
<1>1. Safe => AckedAccounted
  BY DEF Safe, NodeSafe, FilesSafe, AckedAccounted
<1> QED
  BY <1>1, SafeCorrect, PTL

(* Every rejected entry has its reason in the shared ledger.               *)
THEOREM RejectedRecordedCorrect == Spec => []RejectedRecorded
<1>1. Safe => RejectedRecorded
  BY DEF Safe, NodeSafe, FilesSafe, Recorded, RejectedRecorded
<1> QED
  BY <1>1, SafeCorrect, PTL

(* What a step that acknowledges a call has made durable before it.        *)
AckKept ==
    \A n \in Nodes, k \in Keys : acked'[n][k] > acked[n][k] =>
        IF mem'[n].link = "none"
        THEN standby'[n][k] > 0 /\ HasKey(outbox'[n], k)
        ELSE k \in published'

(* The three steps that acknowledge a call keep the contract of the answer.*)
LEMMA CallKeepsContract ==
    ASSUME Safe, NEW n \in Nodes,
           ExecuteAccepted(n) \/ CallUnpublished(n) \/ MarkCall(n)
    PROVE  AckKept
<1> DEFINE w == work[n]
<1>0. /\ TypeOK /\ CallSafe(n) /\ acked \in [Nodes -> [Keys -> Nat]]
      /\ mem[n] \in Memory /\ mem[n].active \in Images /\ standby[n] \in Images
      /\ pc[n] \in CallLabels => w.key \in Keys
  BY DEF Safe, NodeSafe, TypeOK, NodeTypeOK, FilesTypeOK, CallsTypeOK, Memory
<1> HIDE DEF w
<1>00. w = work[n]
  BY DEF w
<1>1. ASSUME acked' = acked PROVE AckKept
  BY <1>0, <1>1 DEF AckKept
<1>2. ASSUME w.key \in Keys, Answers(n, w.key),
             NEW m \in Nodes, NEW k \in Keys, acked'[m][k] > acked[m][k]
      PROVE  m = n /\ k = w.key
  BY <1>0, <1>2, Elsewhere, ReadBack
<1>3. ASSUME ExecuteAccepted(n) PROVE AckKept
  <2>1. w.key \in Keys /\ HasKey(outbox[n], w.key)
    BY <1>0, <1>00, <1>3 DEF ExecuteAccepted, CallLabels, CallSafe
  <2>2. CASE mem[n].link = "none"
    <3>1. standby'[n] = Apply(standby[n], w.key) /\ outbox' = outbox /\ mem' = mem
      BY <1>0, <1>00, <1>3, <2>2, ReadBack DEF ExecuteAccepted
    <3>2. standby'[n][w.key] > 0
      BY <1>0, <2>1, <3>1, ImageFacts
    <3>3. Answers(n, w.key)
      BY <1>00, <1>3, <2>2 DEF ExecuteAccepted, Answers
    <3> QED BY <1>2, <2>1, <2>2, <3>1, <3>2, <3>3 DEF AckKept
  <2>3. CASE mem[n].link # "none"
    BY <1>1, <1>3, <2>3 DEF ExecuteAccepted, callVars
  <2> QED BY <2>2, <2>3
<1>4. ASSUME CallUnpublished(n) PROVE AckKept
  <2>1. /\ w.key \in Keys /\ HasKey(outbox[n], w.key)
        /\ mem[n].link # "none" /\ mem[n].active[w.key] > 0
    BY <1>0, <1>00, <1>4 DEF CallUnpublished, CallLabels, CallSafe
  <2>2. /\ standby'[n] = mem[n].active /\ outbox' = outbox
        /\ mem'[n] = [mem[n] EXCEPT !.link = "none", !.active = EmptyImage]
        /\ Answers(n, w.key)
    BY <1>0, <1>00, <1>4, <2>1, ReadBack DEF CallUnpublished, EnterSqliteFallback, Served, Answers
  <2>3. mem'[n].link = "none"
    BY <1>0, <2>2 DEF Memory
  <2> QED BY <1>2, <2>1, <2>2, <2>3 DEF AckKept
<1>5. ASSUME MarkCall(n) PROVE AckKept
  <2>1. w.key \in Keys /\ mem[n].link # "none" /\ w.key \in published
    BY <1>0, <1>00, <1>5 DEF MarkCall, CallLabels, CallSafe
  <2>2. mem' = mem /\ published' = published
    BY <1>5 DEF MarkCall, redisVars
  <2>3. acked' = acked \/ Answers(n, w.key)
    BY <1>5, <1>00 DEF MarkCall, callVars, Answers
  <2> QED BY <1>1, <1>2, <2>1, <2>2, <2>3 DEF AckKept
<1> QED
  BY <1>3, <1>4, <1>5

(* The contract of an answer: the SQLite image and the outbox hold a call  *)
(* acknowledged in fallback, an EXEC has published one acknowledged while  *)
(* attached.                                                               *)
THEOREM AckContractCorrect == Spec => AckContract
<1>1. Safe /\ [Next]_vars => [AckKept]_vars
  <2> SUFFICES ASSUME Safe, Next PROVE AckKept
    OBVIOUS
  <2>0. acked \in [Nodes -> [Keys -> Nat]]
    BY DEF Safe, TypeOK, CallsTypeOK
  <2>1. CASE acked' = acked
    BY <2>0, <2>1 DEF AckKept
  <2>2. CASE acked' # acked
    <3>1. ASSUME Environment PROVE acked' = acked
      BY <3>1 DEF Environment, Crash, Restart, Disconnect, FileFills, RedisStops, RedisStarts, callVars
    <3>2. ASSUME NEW n \in Nodes, Connect(n) PROVE acked' = acked
      BY <3>2 DEF Connect, Attach, AttachFails, OpenUnreachable, Tick, TickFails, vars, callVars
    <3>3. ASSUME NEW n \in Nodes, Reconcile(n) PROVE acked' = acked
      BY <3>3 DEF Reconcile, ReplayEntry, ReplayDone, MirrorEntry, MirrorComplete, MirrorDone,
         ScanEntry, ScanDone, RecordCheck, RecordSet, SendApplied, SendReplyLost, SendConflict,
         ConflictEntry, ConflictSync, Checkpoint, CheckpointConflict, ReconcileUnreachable,
         LogWriteFails, FinishApplied, FinishRejected, FinishDone, callVars
    <3>4. ASSUME NEW n \in Nodes, Call(n)
          PROVE  ExecuteAccepted(n) \/ CallUnpublished(n) \/ MarkCall(n)
      BY <2>2, <3>4 DEF Call, BeginCall, ExecuteRefused, AbortCall, CallPublished, CallConflict, callVars
    <3> QED BY <2>2, <3>1, <3>2, <3>3, <3>4, CallKeepsContract DEF Next
  <2> QED BY <2>1, <2>2
<1> QED
  BY <1>1, SafeCorrect, PTL DEF Spec, AckContract, AckKept

-----------------------------------------------------------------------------
(* The revisions a node with memory m believes in, when Redis is at r.     *)
Bounded(m, r) == m.link # "none" => m.snapshotRevision <= m.revision /\ m.revision <= r

(* What the shared operators do to them.                                   *)
LEMMA RevisionFacts ==
    ASSUME TypeOK, NEW n \in Nodes, Bounded(mem[n], revision)
    PROVE  /\ revision' \in Nat /\ revision <= revision' /\ mem'[n] = mem[n]
                 => Bounded(mem'[n], revision')
           /\ \A image : PublishImage(image) => revision' = revision + 1
           /\ \A S : PublishDeltas(n, S) => revision' = revision + 1
           /\ \A S : mem[n].revision = revision /\ revision' = revision + 1
                       /\ mem'[n] = AfterDeltas(n, S) => Bounded(mem'[n], revision')
           /\ mem[n].revision = revision /\ revision' = revision + 1
                       /\ mem'[n] = AfterImage(n) => Bounded(mem'[n], revision')
           /\ EnterSqliteFallback(n) => Bounded(mem'[n], revision')
           /\ revision' = revision /\ SyncFromRedis(n) => Bounded(mem'[n], revision')
           /\ \A i : revision' = revision /\ mem'[n] = [mem[n] EXCEPT !.active = i]
                       => Bounded(mem'[n], revision')
           /\ revision' \in Nat /\ revision <= revision' /\ Abandon(n)
                       => Bounded(mem'[n], revision')
<1>0. /\ revision \in Nat /\ mem[n] \in Memory
      /\ mem[n].revision \in Nat /\ mem[n].snapshotRevision \in Nat
  BY DEF TypeOK, RedisTypeOK, NodeTypeOK, Memory
<1> USE <1>0 DEF Bounded
<1>1. revision' \in Nat /\ revision <= revision' /\ mem'[n] = mem[n] => Bounded(mem'[n], revision')
  OBVIOUS
<1>2. /\ \A image : PublishImage(image) => revision' = revision + 1
      /\ \A S : PublishDeltas(n, S) => revision' = revision + 1
  BY DEF PublishImage, PublishDeltas
<1>3. ASSUME NEW S, mem[n].revision = revision, revision' = revision + 1, mem'[n] = AfterDeltas(n, S)
      PROVE  Bounded(mem'[n], revision')
  <2>1. mem'[n].revision = revision + 1 /\ mem'[n].snapshotRevision = mem[n].snapshotRevision
        /\ mem'[n].link = mem[n].link
    BY <1>3 DEF AfterDeltas, Memory
  <2> QED BY <1>3, <2>1
<1>4. ASSUME mem[n].revision = revision, revision' = revision + 1, mem'[n] = AfterImage(n)
      PROVE  Bounded(mem'[n], revision')
  <2>1. mem'[n].revision = revision + 1 /\ mem'[n].snapshotRevision = revision + 1
    BY <1>4 DEF AfterImage, Memory
  <2> QED BY <1>4, <2>1
<1>5. ASSUME EnterSqliteFallback(n) PROVE Bounded(mem'[n], revision')
  <2>1. mem'[n] = [mem[n] EXCEPT !.link = "none", !.active = EmptyImage]
    BY <1>5, ReadBack DEF EnterSqliteFallback
  <2> QED BY <2>1 DEF Memory
<1>6. ASSUME revision' = revision, SyncFromRedis(n) PROVE Bounded(mem'[n], revision')
  <2>1. mem'[n] = [mem[n] EXCEPT !.active = snapshot,
                                 !.cache = Project(snapshot, KnownWorkspaces(snapshot)),
                                 !.revision = revision, !.snapshotRevision = revision]
    BY <1>6, ReadBack DEF SyncFromRedis
  <2>2. mem'[n].revision = revision /\ mem'[n].snapshotRevision = revision
    BY <2>1 DEF Memory
  <2> QED BY <1>6, <2>2
<1>7. ASSUME NEW i, revision' = revision, mem'[n] = [mem[n] EXCEPT !.active = i]
      PROVE  Bounded(mem'[n], revision')
  <2>1. /\ mem'[n].revision = mem[n].revision /\ mem'[n].link = mem[n].link
        /\ mem'[n].snapshotRevision = mem[n].snapshotRevision
    BY <1>7 DEF Memory
  <2> QED BY <1>7, <2>1
<1>8. revision' \in Nat /\ revision <= revision' /\ Abandon(n) => Bounded(mem'[n], revision')
  BY <1>1, <1>5 DEF Abandon
<1> QED
  BY <1>1, <1>2, <1>3, <1>4, <1>5, <1>6, <1>7, <1>8

(* A step of a node keeps its own revisions below the one of Redis, which  *)
(* only grows.                                                             *)
LEMMA RevisionStep ==
    ASSUME TypeOK, NEW n \in Nodes, Bounded(mem[n], revision),
           Call(n) \/ Connect(n) \/ Reconcile(n)
    PROVE  revision' \in Nat /\ revision <= revision' /\ Bounded(mem'[n], revision')
<1>0. revision \in Nat /\ mem[n] \in Memory /\ mem \in [Nodes -> Memory]
  BY DEF TypeOK, RedisTypeOK, NodeTypeOK
<1> USE <1>0, RevisionFacts, ReadBack
<1>1. ASSUME UNCHANGED <<revision, mem>> \/ (revision' = revision /\ Abandon(n))
      PROVE  revision' \in Nat /\ revision <= revision' /\ Bounded(mem'[n], revision')
  BY <1>1
<1>2. ASSUME Call(n) PROVE revision' \in Nat /\ revision <= revision' /\ Bounded(mem'[n], revision')
  <2>1. ASSUME ExecuteAccepted(n)
        PROVE  revision' \in Nat /\ revision <= revision' /\ Bounded(mem'[n], revision')
    BY <2>1 DEF ExecuteAccepted, redisVars
  <2>2. ASSUME CallPublished(n)
        PROVE  revision' \in Nat /\ revision <= revision' /\ Bounded(mem'[n], revision')
    <3>1. /\ mem[n].revision = revision /\ revision' = revision + 1
          /\ mem'[n] = AfterDeltas(n, {work[n].key})
      BY <2>2 DEF CallPublished
    <3> QED BY <3>1
  <2>3. ASSUME CallUnpublished(n)
        PROVE  revision' \in Nat /\ revision <= revision' /\ Bounded(mem'[n], revision')
    <3>1. revision' = revision \/ revision' = revision + 1
      BY <2>3 DEF CallUnpublished, redisVars
    <3> QED BY <2>3, <3>1 DEF CallUnpublished
  <2>4. ASSUME CallConflict(n)
        PROVE  revision' \in Nat /\ revision <= revision' /\ Bounded(mem'[n], revision')
    BY <2>4 DEF CallConflict, redisVars
  <2> QED BY <1>1, <1>2, <2>1, <2>2, <2>3, <2>4
          DEF Call, BeginCall, ExecuteRefused, AbortCall, MarkCall, redisVars
<1>3. ASSUME Connect(n) PROVE revision' \in Nat /\ revision <= revision' /\ Bounded(mem'[n], revision')
  <2>1. ASSUME Attach(n)
        PROVE  revision' \in Nat /\ revision <= revision' /\ Bounded(mem'[n], revision')
    <3>1. revision' = revision \/ revision' = revision + 1
      BY <2>1 DEF Attach, redisVars
    <3>2. mem'[n].snapshotRevision = revision' /\ mem'[n].revision = revision'
      BY <2>1 DEF Attach
    <3> QED BY <3>1, <3>2 DEF Bounded
  <2>2. ASSUME AttachFails(n)
        PROVE  revision' \in Nat /\ revision <= revision' /\ Bounded(mem'[n], revision')
    <3>1. (revision' = revision \/ revision' = revision + 1) /\ mem' = mem
      BY <2>2 DEF AttachFails, redisVars
    <3> QED BY <3>1
  <2>3. ASSUME Tick(n)
        PROVE  revision' \in Nat /\ revision <= revision' /\ Bounded(mem'[n], revision')
    BY <2>3 DEF Tick, redisVars
  <2> QED BY <1>1, <1>3, <2>1, <2>2, <2>3 DEF Connect, OpenUnreachable, TickFails, vars, redisVars
<1>4. ASSUME Reconcile(n)
      PROVE  revision' \in Nat /\ revision <= revision' /\ Bounded(mem'[n], revision')
  <2>1. ASSUME ReplayEntry(n)
        PROVE  revision' \in Nat /\ revision <= revision' /\ Bounded(mem'[n], revision')
    BY <1>1, <2>1 DEF ReplayEntry, redisVars
  <2>2. ASSUME MirrorDone(n)
        PROVE  revision' \in Nat /\ revision <= revision' /\ Bounded(mem'[n], revision')
    <3>0. mem' = mem \/ \E b, d : mem'[n] = [mem[n] EXCEPT !.usesLocal = b, !.replayCommitted = d]
      <4> DEFINE m == [mem[n] EXCEPT !.usesLocal = Uncommitted(outbox[n]),
                                     !.replayCommitted = ~Uncommitted(outbox[n]) /\ outbox[n] # <<>>]
      <4>1. mem' = mem \/ SetMem(n, m)
        BY <2>2, Zenon DEF MirrorDone, Reconciled
      <4>2. SetMem(n, m) => mem'[n] = m
        BY ReadBack, Zenon DEF TypeOK
      <4> QED BY <4>1, <4>2, Zenon
    <3>1. \/ mem' = mem
          \/ /\ mem'[n].link = mem[n].link /\ mem'[n].revision = mem[n].revision
             /\ mem'[n].snapshotRevision = mem[n].snapshotRevision
      BY <3>0 DEF Memory
    <3>2. revision' = revision
      BY <2>2 DEF MirrorDone, redisVars
    <3> QED BY <3>1, <3>2 DEF Bounded
  <2>3. ASSUME ScanEntry(n)
        PROVE  revision' \in Nat /\ revision <= revision' /\ Bounded(mem'[n], revision')
    <3>1. mem' = mem \/ \E i : mem'[n] = [mem[n] EXCEPT !.active = i]
      BY <2>3 DEF ScanEntry
    <3>2. revision' = revision
      BY <2>3 DEF ScanEntry, redisVars
    <3>3. CASE mem' = mem
      BY <1>1, <3>2, <3>3
    <3>4. CASE \E i : mem'[n] = [mem[n] EXCEPT !.active = i]
      <4>1. PICK i : mem'[n] = [mem[n] EXCEPT !.active = i]
        BY <3>4
      <4> QED BY <3>2, <4>1
    <3> QED BY <3>1, <3>3, <3>4
  <2>4. ASSUME SendApplied(n)
        PROVE  revision' \in Nat /\ revision <= revision' /\ Bounded(mem'[n], revision')
    <3>1. /\ mem[n].revision = revision /\ revision' = revision + 1
          /\ mem'[n] = AfterDeltas(n, work[n].applied)
      BY <2>4 DEF SendApplied
    <3> QED BY <3>1
  <2>5. ASSUME SendReplyLost(n)
        PROVE  revision' \in Nat /\ revision <= revision' /\ Bounded(mem'[n], revision')
    <3>1. revision' = revision + 1 /\ Abandon(n)
      BY <2>5 DEF SendReplyLost
    <3> QED BY <3>1
  <2>6. ASSUME ConflictSync(n)
        PROVE  revision' \in Nat /\ revision <= revision' /\ Bounded(mem'[n], revision')
    BY <2>6 DEF ConflictSync, redisVars
  <2>7. ASSUME Checkpoint(n)
        PROVE  revision' \in Nat /\ revision <= revision' /\ Bounded(mem'[n], revision')
    <3>1. /\ mem[n].revision = revision /\ revision' = revision + 1
          /\ mem'[n] = AfterImage(n) \/ Abandon(n)
      BY <2>7 DEF Checkpoint
    <3> QED BY <3>1
  <2>8. ASSUME MirrorEntry(n) \/ CheckpointConflict(n) \/ ReconcileUnreachable(n) \/ LogWriteFails(n)
        PROVE  revision' \in Nat /\ revision <= revision' /\ Bounded(mem'[n], revision')
    BY <1>1, <2>8 DEF MirrorEntry, CheckpointConflict, ReconcileUnreachable, LogWriteFails, redisVars
  <2> QED BY <1>1, <1>4, <2>1, <2>2, <2>3, <2>4, <2>5, <2>6, <2>7, <2>8
          DEF Reconcile, ReplayDone, MirrorComplete, ScanDone, RecordCheck, RecordSet, SendConflict,
              ConflictEntry, FinishApplied, FinishRejected, FinishDone, redisVars
<1> QED
  BY <1>2, <1>3, <1>4

(* No node believes in a revision Redis has not reached, whoever publishes *)
(* and whatever answer of an EXEC is lost.                                 *)
THEOREM RevisionBoundedCorrect == Spec => []RevisionBounded
<1>1. Init => RevisionBounded
  BY DEF Init, RevisionBounded, Detached
<1>2. Safe /\ RevisionBounded /\ [Next]_vars => RevisionBounded'
  <2> SUFFICES ASSUME Safe, RevisionBounded, [Next]_vars PROVE RevisionBounded'
    OBVIOUS
  <2>0. /\ TypeOK /\ revision \in Nat
        /\ \A m \in Nodes : Bounded(mem[m], revision) /\ mem[m] \in Memory
    BY DEF Safe, TypeOK, RedisTypeOK, NodeTypeOK, RevisionBounded, Bounded
  <2>1. ASSUME revision' \in Nat, revision <= revision', \A m \in Nodes : Bounded(mem'[m], revision')
        PROVE  RevisionBounded'
    BY <2>1 DEF RevisionBounded, Bounded
  <2>2. ASSUME NEW m \in Nodes, revision' \in Nat, revision <= revision', mem'[m] = mem[m]
        PROVE  Bounded(mem'[m], revision')
    BY <2>0, <2>2 DEF Bounded, Memory
  <2>3. ASSUME NEW n \in Nodes, Call(n) \/ Connect(n) \/ Reconcile(n) PROVE RevisionBounded'
    <3>1. revision' \in Nat /\ revision <= revision' /\ Bounded(mem'[n], revision')
      BY <2>0, <2>3, RevisionStep
    <3>2. \A m \in Nodes \ {n} : mem'[m] = mem[m]
      BY <2>3, CallKeepsSafe, ConnectKeepsSafe, MirrorKeepsSafe, ScanKeepsSafe, SendKeepsSafe,
         FinishKeepsSafe DEF Reconcile, StepSafe, Same
    <3> QED BY <2>1, <2>2, <3>1, <3>2
  <2>4. ASSUME Environment PROVE RevisionBounded'
    <3>1. revision' = revision
      BY <2>4 DEF Environment, Crash, Restart, Disconnect, FileFills, RedisStops, RedisStarts, redisVars
    <3>2. ASSUME NEW n \in Nodes, Crash(n) \/ Restart(n) PROVE \A m \in Nodes : Bounded(mem'[m], revision')
      <4>1. \A m \in Nodes \ {n} : mem'[m] = mem[m]
        BY <2>0, <3>2, Elsewhere DEF Crash, Restart
      <4>2. mem'[n] = mem[n] \/ mem'[n] = Detached
        BY <2>0, <3>2, ReadBack DEF Crash, Restart
      <4> QED BY <2>0, <3>1, <4>1, <4>2 DEF Bounded, Detached, Memory
    <3>3. ASSUME NEW n \in Nodes, Disconnect(n) PROVE \A m \in Nodes : Bounded(mem'[m], revision')
      <4>1. \A m \in Nodes \ {n} : mem'[m] = mem[m]
        BY <2>0, <3>3, Elsewhere DEF Disconnect
      <4>2. mem'[n] = [mem[n] EXCEPT !.link = "dead"] /\ mem[n].link # "none"
        BY <2>0, <3>3, ReadBack DEF Disconnect
      <4>3. mem'[n].revision = mem[n].revision /\ mem'[n].snapshotRevision = mem[n].snapshotRevision
        BY <2>0, <4>2 DEF Memory
      <4> QED BY <2>0, <3>1, <4>1, <4>2, <4>3 DEF Bounded
    <3>4. ASSUME RedisStops \/ RedisStarts PROVE \A m \in Nodes : Bounded(mem'[m], revision')
      <4>1. \A m \in Nodes : \/ mem'[m] = mem[m]
                             \/ mem[m].link # "none" /\ mem'[m] = [mem[m] EXCEPT !.link = "dead"]
        BY <2>0, <3>4 DEF RedisStops, RedisStarts
      <4>2. \A m \in Nodes : \/ mem'[m] = mem[m]
                             \/ /\ mem[m].link # "none" /\ mem'[m].revision = mem[m].revision
                                /\ mem'[m].snapshotRevision = mem[m].snapshotRevision
        BY <2>0, <4>1 DEF Memory
      <4> QED BY <2>0, <3>1, <4>2 DEF Bounded
    <3>5. ASSUME NEW n \in Nodes, FileFills(n) PROVE \A m \in Nodes : Bounded(mem'[m], revision')
      BY <2>0, <3>1, <3>5 DEF FileFills, Bounded
    <3> QED BY <2>0, <2>1, <2>4, <3>1, <3>2, <3>3, <3>4, <3>5 DEF Environment
  <2>5. CASE UNCHANGED vars
    BY <2>5 DEF vars, redisVars, RevisionBounded
  <2> QED BY <2>3, <2>4, <2>5 DEF Next
<1> QED
  BY <1>1, <1>2, SafeCorrect, PTL DEF Spec
=============================================================================
