---------------------------- MODULE PQueueProofs ----------------------------
(***************************************************************************)
(* Proofs about pqueue_c for every latency, capacity, set of priorities    *)
(* and number of uops: the ring keeps its shape, and it implements the     *)
(* delay line.                                                             *)
(***************************************************************************)
EXTENDS PQueue, NatLemmas, TLAPS

USE LatencyAssumption, CapacityAssumption, PrioritiesAssumption, MaxUopAssumption

RingInv == TypeOK /\ RingShape

\* the value of (x + 1) % m_size for an index x of the ring
LEMMA NextIndex ==
    ASSUME NEW x \in Buckets
    PROVE  (x + 1) % m_size = IF x = Latency THEN 0 ELSE x + 1
BY SMT DEF Buckets, m_size

\* the bucket i places behind c, without %
LEMMA RingIndex ==
    ASSUME NEW c \in Buckets, NEW i \in Buckets
    PROVE  (c + i) % m_size = IF c + i > Latency THEN c + i - m_size ELSE c + i
BY SMT DEF Buckets, m_size

\* The stage an entry is pushed to is one of the ring's buckets.
LEMMA StageIsBucket ==
    ASSUME NEW i \in Buckets, m_current_index \in Buckets
    PROVE  Stage(i) \in Buckets
BY RingIndex DEF Stage, Buckets, m_size

\* An entry of latency 0 goes to the bucket dequeue reads.
LEMMA StageZero ==
    ASSUME m_current_index \in Buckets
    PROVE  0 \in Buckets /\ Stage(0) = m_current_index
<1> DEFINE c == m_current_index
<1>1. 0 \in Buckets /\ c + 0 = c /\ ~(c + 0 > Latency)
  BY DEF Buckets, m_size
<1> HIDE DEF c
<1>2. (c + 0) % m_size = c
  BY <1>1, RingIndex DEF c
<1> QED
  BY <1>1, <1>2 DEF Stage, c

\* different stages are different buckets
LEMMA StageInjective ==
    ASSUME NEW i \in Buckets, NEW j \in Buckets, m_current_index \in Buckets,
           Stage(i) = Stage(j)
    PROVE  i = j
<1> DEFINE c == m_current_index
<1>1. Stage(i) = IF c + i > Latency THEN c + i - m_size ELSE c + i
  BY RingIndex DEF Stage
<1>2. Stage(j) = IF c + j > Latency THEN c + j - m_size ELSE c + j
  BY RingIndex DEF Stage
<1>3. (IF c + i > Latency THEN c + i - m_size ELSE c + i)
         = (IF c + j > Latency THEN c + j - m_size ELSE c + j)
  BY <1>1, <1>2
<1>4. c \in 0 .. Latency /\ i \in 0 .. Latency /\ j \in 0 .. Latency
  BY DEF Buckets, m_size
<1> HIDE DEF c
<1> QED
  BY <1>3, <1>4 DEF m_size

\* inserting by priority yields a list of entries again
LEMMA InsertAtInRange ==
    ASSUME NEW s \in Seq(Entries), NEW e \in Entries
    PROVE  /\ InsertAt(s, e.prio) \in 1 .. Len(s) + 1
           /\ \A j \in 1 .. InsertAt(s, e.prio) - 1 : ~(s[j].prio < e.prio)
           /\ InsertAt(s, e.prio) <= Len(s) => s[InsertAt(s, e.prio)].prio < e.prio
<1> DEFINE P(k) == /\ \A j \in 1 .. k - 1 : ~(s[j].prio < e.prio)
                   /\ k <= Len(s) => s[k].prio < e.prio
           Lower == {k \in 1 .. Len(s) : s[k].prio < e.prio}
<1>1. \E k \in 1 .. Len(s) + 1 : P(k)
  <2>1. CASE Lower = {}
    <3>1. P(Len(s) + 1)
      BY <2>1
    <3> QED
      BY <3>1
  <2>2. CASE Lower # {}
    <3>1. PICK k \in Lower : \A j \in Lower : k <= j
      <4>1. Lower \subseteq Nat
        OBVIOUS
      <4> HIDE DEF Lower
      <4> QED
        BY <2>2, <4>1, SmallestExists
    <3>2. P(k)
      BY <3>1
    <3> QED
      BY <3>1, <3>2
  <2> QED
    BY <2>1, <2>2
<1> QED
  BY <1>1 DEF InsertAt

\* An insertion by priority keeps a bucket a sequence of entries.
LEMMA InsertedIsSeq ==
    ASSUME NEW s \in Seq(Entries), NEW e \in Entries
    PROVE  InsertedByPriority(s, e) \in Seq(Entries)
<1> DEFINE k == InsertAt(s, e.prio)
           t == InsertedByPriority(s, e)
<1>1. k \in 1 .. Len(s) + 1
  BY InsertAtInRange
<1> HIDE DEF k
<1>2. t = [j \in 1 .. Len(s) + 1 |-> IF j < k THEN s[j] ELSE IF j = k THEN e ELSE s[j - 1]]
  BY DEF InsertedByPriority, k
<1>3. \A j \in 1 .. Len(s) + 1 :
         (IF j < k THEN s[j] ELSE IF j = k THEN e ELSE s[j - 1]) \in Entries
  BY <1>1
<1> HIDE DEF Entries
<1>4. t \in [1 .. Len(s) + 1 -> Entries]
  BY <1>2, <1>3
<1> QED
  BY <1>4 DEF t

\* The type invariant and the shape of the ring hold initially and are kept by
\* every operation of the queue.
LEMMA RingInvInit == Init => RingInv
<1> SUFFICES ASSUME Init PROVE RingInv
  OBVIOUS
<1>1. TypeOK
  BY DEF Init, TypeOK, Buckets, m_size
<1>2. m_current_index \in Buckets /\ Latency \in Buckets
  BY DEF Init, Buckets, m_size
<1>3. RingShape
  BY <1>2, RingIndex DEF Init, RingShape, Stage, m_size
<1> QED
  BY <1>1, <1>3 DEF RingInv

\* enqueue, dequeue and advance preserve the invariant of the ring.
LEMMA RingInvStep == RingInv /\ [Next]_vars => RingInv'
<1> SUFFICES ASSUME RingInv, [Next]_vars PROVE RingInv'
  OBVIOUS
<1> USE DEF RingInv
<1>l. Latency \in Buckets
  BY DEF Buckets, m_size
<1>1. CASE enqueue
  <2>1. PICK priority \in Priorities :
           /\ m_num_entry' = m_num_entry + 1
           /\ m_entry' = [m_entry EXCEPT ![m_last_index] =
                  InsertedByPriority(@, [prio |-> priority, data |-> next_uop])]
           /\ next_uop' = next_uop + 1
           /\ UNCHANGED <<m_last_index, m_current_index>>
    BY <1>1 DEF enqueue
  <2> DEFINE e == [prio |-> priority, data |-> next_uop]
  <2>2. e \in Entries
    BY DEF TypeOK, Entries
  <2>3. InsertedByPriority(m_entry[m_last_index], e) \in Seq(Entries)
    BY <2>2, InsertedIsSeq DEF TypeOK
  <2>4. TypeOK'
    BY <2>1, <2>3 DEF TypeOK
  <2>5. RingShape'
    BY <2>1 DEF RingShape, Stage
  <2> QED
    BY <2>4, <2>5
<1>2. CASE dequeue
  <2>1. Tail(m_entry[m_current_index]) \in Seq(Entries)
    BY <1>2 DEF dequeue, ready, TypeOK
  <2>2. TypeOK'
    BY <1>2, <2>1 DEF dequeue, TypeOK
  <2>3. RingShape'
    BY <1>2 DEF dequeue, RingShape, Stage
  <2> QED
    BY <2>2, <2>3
<1>3. CASE advance
  <2>1. m_current_index' = IF m_current_index = Latency THEN 0 ELSE m_current_index + 1
    BY <1>3, NextIndex DEF advance, TypeOK
  <2>2. m_current_index' \in Buckets
    BY <2>1 DEF TypeOK, Buckets, m_size
  <2>3. TypeOK'
    BY <1>3, <2>2 DEF advance, TypeOK
  <2>4. RingShape'
    <3>1. (m_current_index' + Latency) % m_size = m_current_index
      <4> DEFINE c == m_current_index'
      <4>1. (c + Latency) % m_size = IF c + Latency > Latency THEN c + Latency - m_size ELSE c + Latency
        BY <1>l, <2>2, RingIndex
      <4> QED
        BY <2>1, <4>1 DEF TypeOK, Buckets, m_size
    <3> QED
      BY <1>3, <3>1 DEF advance, RingShape, Stage
  <2> QED
    BY <2>3, <2>4
<1>4. CASE UNCHANGED vars
  BY <1>4 DEF vars, TypeOK, RingShape, Stage
<1> QED
  BY <1>1, <1>2, <1>3, <1>4 DEF Next

\* pqueue_c keeps the types of its fields and the shape of its ring: the
\* insertion bucket is always the one furthest from the ready bucket.
THEOREM RingShapeAlways == Spec => [](TypeOK /\ RingShape)
<1>1. Init => RingInv
  BY RingInvInit
<1>2. RingInv /\ [Next]_vars => RingInv'
  BY RingInvStep
<1> QED
  BY <1>1, <1>2, PTL DEF Spec, RingInv
\* the line of the refinement mapping
Unrolled == [i \in Buckets |-> m_entry[Stage(i)]]

\* pqueue_c::enqueue is an enqueue of the delay line.
LEMMA EnqueueRefines == RingInv /\ enqueue => DL!LineEnqueue
<1> SUFFICES ASSUME RingInv, enqueue PROVE DL!LineEnqueue
  OBVIOUS
<1> USE DEF RingInv
<1>l. Latency \in Buckets
  BY DEF Buckets, m_size
<1>1. PICK priority \in Priorities :
         /\ next_uop <= MaxUop
         /\ space > 0
         /\ m_num_entry' = m_num_entry + 1
         /\ m_entry' = [m_entry EXCEPT ![m_last_index] =
                InsertedByPriority(@, [prio |-> priority, data |-> next_uop])]
         /\ UNCHANGED <<m_last_index, m_current_index>>
  BY DEF enqueue
<1> DEFINE e == [prio |-> priority, data |-> next_uop]
           s == m_entry[m_last_index]
           k == InsertAt(s, e.prio)
<1>2. e \in Entries /\ e \in [prio : Priorities, data : 1 .. MaxUop] /\ s \in Seq(Entries)
  <2>1. next_uop \in Nat /\ next_uop \in 1 .. MaxUop
    BY <1>1 DEF TypeOK
  <2>2. s \in Seq(Entries)
    BY DEF TypeOK
  <2> QED
    BY <2>1, <2>2 DEF Entries
<1>3. /\ k \in 1 .. Len(s) + 1
      /\ \A j \in 1 .. k - 1 : ~(s[j].prio < e.prio)
      /\ k <= Len(s) => s[k].prio < e.prio
  BY <1>2, InsertAtInRange
<1>4. Unrolled[Latency] = s
  BY <1>l DEF Unrolled, RingShape
<1>5. InsertedByPriority(s, e) = DL!Spliced(s, k - 1, e)
  <2> HIDE DEF s, e
  <2>1. \A j \in 1 .. Len(s) + 1 : (j < k <=> j <= k - 1) /\ (j = k <=> j = (k - 1) + 1)
    BY <1>3
  <2> HIDE DEF k
  <2> QED
    BY <2>1 DEF InsertedByPriority, DL!Spliced, k
<1>6. Unrolled' = [Unrolled EXCEPT ![Latency] = DL!Spliced(@, k - 1, e)]
  <2>1. \A i \in Buckets : Unrolled'[i] = m_entry'[Stage(i)]
    BY <1>1 DEF Unrolled, Stage
  <2>2. \A i \in Buckets : Stage(i) \in Buckets
    BY StageIsBucket DEF TypeOK
  <2>3. \A i \in Buckets : Stage(i) = m_last_index <=> i = Latency
    BY <1>l, StageInjective DEF TypeOK, RingShape
  <2>4. m_entry' = [m_entry EXCEPT ![m_last_index] = DL!Spliced(s, k - 1, e)]
    BY <1>1, <1>5
  <2> HIDE DEF k, e
  <2>5. \A i \in Buckets : m_entry'[Stage(i)] =
            IF i = Latency THEN DL!Spliced(s, k - 1, e) ELSE m_entry[Stage(i)]
    BY <2>2, <2>3, <2>4 DEF TypeOK
  <2> QED
    BY <1>l, <1>4, <2>1, <2>5 DEF Unrolled
<1>7. \A j \in 1 .. k - 1 : s[j].prio >= e.prio
  <2>1. \A j \in 1 .. k - 1 : s[j] \in Entries
    <3> HIDE DEF s, k, Entries
    <3> QED
      BY <1>2, <1>3
  <2>2. \A x \in Entries : x.prio \in Int
    BY DEF Entries
  <2> HIDE DEF s, k, e, Entries
  <2> QED
    BY <1>2, <1>3, <2>1, <2>2
<1>8. k - 1 \in 0 .. Len(s) /\ (k - 1 < Len(s) => s[(k - 1) + 1].prio < e.prio)
  BY <1>2, <1>3
<1>9. m_num_entry < Capacity
  BY <1>1 DEF space, TypeOK
<1> HIDE DEF k, e, s
<1> QED
  BY <1>1, <1>2, <1>4, <1>6, <1>7, <1>8, <1>9 DEF DL!LineEnqueue, Unrolled
\* pqueue_c::dequeue is a dequeue of the delay line.
LEMMA DequeueRefines == RingInv /\ dequeue => DL!LineDequeue
<1> SUFFICES ASSUME RingInv, dequeue PROVE DL!LineDequeue
  OBVIOUS
<1> USE DEF RingInv
<1>1. 0 \in Buckets /\ Stage(0) = m_current_index
  BY StageZero DEF TypeOK
<1>2. \A i \in Buckets : Stage(i) \in Buckets
  BY StageIsBucket DEF TypeOK
<1>3. \A i \in Buckets : Stage(i) = m_current_index <=> i = 0
  BY <1>1, StageInjective DEF TypeOK
<1>4. \A i \in Buckets : Unrolled'[i] = m_entry'[Stage(i)]
  BY DEF dequeue, Unrolled, Stage
<1>5. Unrolled[0] = m_entry[m_current_index]
  BY <1>1 DEF Unrolled
<1>6. \A i \in Buckets : m_entry'[Stage(i)] =
         IF i = 0 THEN Tail(m_entry[m_current_index]) ELSE m_entry[Stage(i)]
  BY <1>2, <1>3 DEF dequeue, TypeOK
<1>7. Unrolled' = [Unrolled EXCEPT ![0] = Tail(Unrolled[0])]
  BY <1>1, <1>4, <1>5, <1>6 DEF Unrolled
<1> QED
  BY <1>5, <1>7 DEF dequeue, ready, DL!LineDequeue, Unrolled

\* pqueue_c::advance moves every entry of the delay line one cycle on.
LEMMA AdvanceRefines == RingInv /\ advance => DL!LineAdvance
<1> SUFFICES ASSUME RingInv, advance PROVE DL!LineAdvance
  OBVIOUS
<1> USE DEF RingInv
<1> DEFINE c == m_current_index
           d == m_current_index'
<1>1. c \in Buckets /\ d \in Buckets /\ d = IF c = Latency THEN 0 ELSE c + 1
  BY NextIndex DEF advance, TypeOK, Buckets, m_size
<1>2. 0 \in Buckets /\ Stage(0) = c
  BY StageZero DEF TypeOK
<1>3. Unrolled[0] = <<>>
  BY <1>2 DEF advance, ready, Unrolled
<1>4. ASSUME NEW i \in Buckets
      PROVE  Unrolled'[i] = IF i = Latency THEN <<>> ELSE Unrolled[i + 1]
  <2>1. Unrolled'[i] = m_entry[(d + i) % m_size]
    BY DEF Unrolled, advance, Stage
  <2>2. (d + i) % m_size = IF d + i > Latency THEN d + i - m_size ELSE d + i
    BY <1>1, RingIndex
  <2>3. CASE i = Latency
    <3>1. (d + i) % m_size = c
      BY <1>1, <2>2, <2>3 DEF Buckets, m_size
    <3> QED
      BY <2>1, <2>3, <3>1 DEF advance, ready
  <2>4. CASE i # Latency
    <3>1. i + 1 \in Buckets
      BY <2>4 DEF Buckets, m_size
    <3>2. (c + (i + 1)) % m_size = IF c + (i + 1) > Latency THEN c + (i + 1) - m_size ELSE c + (i + 1)
      BY <1>1, <3>1, RingIndex
    <3>3. (d + i) % m_size = (c + (i + 1)) % m_size
      BY <1>1, <2>2, <3>1, <3>2 DEF Buckets, m_size
    <3>4. Unrolled[i + 1] = m_entry[(c + (i + 1)) % m_size]
      BY <3>1 DEF Unrolled, Stage
    <3> QED
      BY <2>1, <2>4, <3>3, <3>4
  <2> QED
    BY <2>3, <2>4
<1>5. Unrolled' = [i \in Buckets |-> IF i = Latency THEN <<>> ELSE Unrolled[i + 1]]
  BY <1>4 DEF Unrolled
<1>6. Buckets = DL!Stages
  BY DEF DL!Stages, Buckets, m_size
<1> QED
  BY <1>3, <1>5, <1>6 DEF advance, DL!LineAdvance, Unrolled

\* The ring of buckets implements the delay line: for every latency and
\* capacity, each enqueue, dequeue and advance of pqueue_c is the step of the
\* same name of the line.
THEOREM RingRefinesLine == Spec => RingIsDelayLine
<1>1. Init => DL!LineInit
  <2> SUFFICES ASSUME Init PROVE DL!LineInit
    OBVIOUS
  <2>1. \A i \in Buckets : Stage(i) \in Buckets
    BY StageIsBucket DEF Init, Buckets, m_size
  <2>2. \A i \in Buckets : Unrolled[i] = <<>>
    BY <2>1 DEF Init, Unrolled
  <2>3. Buckets = DL!Stages
    BY DEF DL!Stages, Buckets, m_size
  <2> QED
    BY <2>2, <2>3 DEF Init, DL!LineInit, Unrolled
<1>2. RingInv /\ [Next]_vars => [DL!LineNext]_(DL!lineVars)
  <2>1. UNCHANGED vars => UNCHANGED DL!lineVars
    BY DEF vars, DL!lineVars, Stage
  <2> QED
    BY <2>1, EnqueueRefines, DequeueRefines, AdvanceRefines DEF Next, DL!LineNext
<1>3. Spec => []RingInv
  BY RingShapeAlways, PTL DEF RingInv
<1> QED
  BY <1>1, <1>2, <1>3, PTL DEF Spec, RingIsDelayLine, DL!LineSpec
=============================================================================
