------------------------------- MODULE PQueue -------------------------------
(***************************************************************************)
(* pqueue_c (src/src/pqueue.h): the latency + priority queue between the   *)
(* pipeline stages of a core (frontend queue, allocation queues).  A ring  *)
(* of m_size = latency + 1 buckets; enqueue inserts into the bucket        *)
(* m_last_index, dequeue takes the front of the bucket m_current_index,    *)
(* advance rotates the two indices.                                        *)
(*                                                                         *)
(* The data carried are uop numbers, which the frontend hands out in       *)
(* increasing order (next_uop).                                            *)
(***************************************************************************)
EXTENDS Integers, Sequences, FiniteSets

CONSTANTS Latency,     \* constructor argument `latency`
          Capacity,    \* constructor argument `size`
          Priorities,  \* priorities the callers enqueue with
          MaxUop       \* bound: number of uops that are ever enqueued

ASSUME LatencyAssumption == Latency \in Nat
ASSUME CapacityAssumption == Capacity \in Nat \ {0}
ASSUME PrioritiesAssumption == Priorities \subseteq Int
ASSUME MaxUopAssumption == MaxUop \in Nat

VARIABLES m_entry,          \* m_entry[b]: the list in bucket b
          m_num_entry,
          m_last_index,
          m_current_index,
          next_uop          \* number of the next uop to be enqueued

vars == <<m_entry, m_num_entry, m_last_index, m_current_index, next_uop>>

m_size == Latency + 1
Buckets == 0 .. m_size - 1
Entries == [prio : Priorities, data : Nat]

-----------------------------------------------------------------------------
\* the constructor
Init ==
    /\ m_entry = [b \in Buckets |-> <<>>]
    /\ m_num_entry = 0
    /\ m_last_index = Latency
    /\ m_current_index = 0
    /\ next_uop = 1

ready == m_entry[m_current_index] # <<>>

space == Capacity - m_num_entry

\* position of the first entry of a lower priority; Len(s) + 1 when none is
InsertAt(s, priority) ==
    CHOOSE k \in 1 .. Len(s) + 1 :
        /\ \A j \in 1 .. k - 1 : ~(s[j].prio < priority)
        /\ k <= Len(s) => s[k].prio < priority

InsertedByPriority(s, e) ==
    LET k == InsertAt(s, e.prio)
    IN  [j \in 1 .. Len(s) + 1 |->
            IF j < k THEN s[j] ELSE IF j = k THEN e ELSE s[j - 1]]

\* every caller tests space() first; enqueue itself asserts it
enqueue ==
    \E priority \in Priorities :
        /\ next_uop <= MaxUop
        /\ space > 0
        /\ m_num_entry' = m_num_entry + 1
        /\ m_entry' = [m_entry EXCEPT ![m_last_index] =
               InsertedByPriority(@, [prio |-> priority, data |-> next_uop])]
        /\ next_uop' = next_uop + 1
        /\ UNCHANGED <<m_last_index, m_current_index>>

\* every caller tests ready() first
dequeue ==
    /\ ready
    /\ m_entry' = [m_entry EXCEPT ![m_current_index] = Tail(@)]
    /\ m_num_entry' = m_num_entry - 1
    /\ UNCHANGED <<m_last_index, m_current_index, next_uop>>

\* mistakes: the insertion bucket left behind; a rotation over entries that
\* were not taken; a rotation only while there is space
advanceKeepingLast ==
    /\ m_num_entry # 0
    /\ ~ready
    /\ m_current_index' = (m_current_index + 1) % m_size
    /\ UNCHANGED <<m_entry, m_num_entry, m_last_index, next_uop>>

advanceOverReady ==
    /\ m_num_entry # 0
    /\ m_last_index' = m_current_index
    /\ m_current_index' = (m_current_index + 1) % m_size
    /\ UNCHANGED <<m_entry, m_num_entry, next_uop>>

advanceUnlessFull ==
    /\ m_num_entry # 0
    /\ space > 0
    /\ ~ready
    /\ m_last_index' = m_current_index
    /\ m_current_index' = (m_current_index + 1) % m_size
    /\ UNCHANGED <<m_entry, m_num_entry, next_uop>>

advance ==
    /\ m_num_entry # 0
    /\ ~ready
    /\ m_last_index' = m_current_index
    /\ m_current_index' = (m_current_index + 1) % m_size
    /\ UNCHANGED <<m_entry, m_num_entry, next_uop>>

Next == enqueue \/ dequeue \/ advance

Spec == Init /\ [][Next]_vars

\* advance_queues() runs every core cycle, and the consumer stage takes what
\* is ready whenever it has the resources for it
FairSpec == Spec /\ WF_vars(advance) /\ WF_vars(dequeue)

-----------------------------------------------------------------------------
(* Properties *)

\* the variables keep their types: the two indices stay inside the ring
TypeOK ==
    /\ m_entry \in [Buckets -> Seq(Entries)]
    /\ m_num_entry \in Int
    /\ m_last_index \in Buckets
    /\ m_current_index \in Buckets
    /\ next_uop \in Nat \ {0}

\* the bucket i advances away from ready
Stage(i) == (m_current_index + i) % m_size

\* The insertion bucket is always the one furthest from m_current_index: an
\* entry can neither become ready early nor be overtaken by the rotation.
RingShape == m_last_index = Stage(Latency)

\* The ring implements the delay line: entries spend exactly the modelled
\* latency in it, advance by advance (the refinement mapping unrolls the ring).
DL == INSTANCE DelayLine WITH
          line <- [i \in Buckets |-> m_entry[Stage(i)]],
          count <- m_num_entry,
          Entries <- [prio : Priorities, data : 1 .. MaxUop]

RingIsDelayLine == DL!LineSpec

Holds(u) == \E b \in Buckets : \E k \in DOMAIN m_entry[b] : m_entry[b][k].data = u

\* A uop that entered the queue leaves it: the rotation cannot stall for good
\* (advance() refuses to rotate while the ready bucket is not empty).
EveryUopLeaves == \A u \in 1 .. MaxUop : Holds(u) ~> ~Holds(u)
=============================================================================
