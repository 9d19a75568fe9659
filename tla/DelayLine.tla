----------------------------- MODULE DelayLine -----------------------------
(***************************************************************************)
(* What pqueue_c promises its users (pqueue.h, "Priority queue models      *)
(* latency + priority"): a line of Latency+1 stages.  An entry enters at   *)
(* stage Latency, every advance moves the whole line one stage ahead       *)
(* unless the entries of stage 0 have not been taken yet, and only stage 0 *)
(* can be dequeued.  There is no ring and no index arithmetic here; the    *)
(* ring of PQueue is shown to implement this line.                         *)
(***************************************************************************)
EXTENDS Naturals, Sequences

CONSTANTS Latency,      \* number of advances between enqueue and ready
          Capacity,     \* largest number of entries in the line
          Entries       \* the records [prio |-> ..., data |-> ...] it carries

VARIABLES line,         \* line[i]: the entries i advances away from ready
          count         \* number of entries in the line

lineVars == <<line, count>>

Stages == 0 .. Latency

LineInit ==
    /\ line = [i \in Stages |-> <<>>]
    /\ count = 0

\* e put behind the first k entries of s
Spliced(s, k, e) ==
    [j \in 1 .. Len(s) + 1 |->
        IF j <= k THEN s[j] ELSE IF j = k + 1 THEN e ELSE s[j - 1]]

\* the new entry stands behind every entry of at least its priority that
\* entered with it, and before the first one of a lower priority
LineEnqueue ==
    \E e \in Entries : \E k \in 0 .. Len(line[Latency]) :
        /\ count < Capacity
        /\ \A j \in 1 .. k : line[Latency][j].prio >= e.prio
        /\ k < Len(line[Latency]) => line[Latency][k + 1].prio < e.prio
        /\ line' = [line EXCEPT ![Latency] = Spliced(@, k, e)]
        /\ count' = count + 1

LineDequeue ==
    /\ line[0] # <<>>
    /\ line' = [line EXCEPT ![0] = Tail(line[0])]
    /\ count' = count - 1

LineAdvance ==
    /\ count # 0
    /\ line[0] = <<>>
    /\ line' = [i \in Stages |-> IF i = Latency THEN <<>> ELSE line[i + 1]]
    /\ UNCHANGED count

LineNext == LineEnqueue \/ LineDequeue \/ LineAdvance

LineSpec == LineInit /\ [][LineNext]_lineVars
=============================================================================
