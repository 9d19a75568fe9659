------------------------------ MODULE TraceFile ------------------------------
(***************************************************************************)
(* How a thread reads its trace file: in chunks, through m_buffer          *)
(* (trace_read_c::read_trace), with records taken out of order             *)
(* (peek_trace) and given back (ungetch_trace).  A record is its number in *)
(* the file; 0 is what memory holds that no record was ever read into.     *)
(*                                                                         *)
(* A reader is a record with the fields                                    *)
(*   pos        records of the file that gzread has passed                 *)
(*   buf        m_buffer, its slots numbered from 0                        *)
(*   index      m_buffer_index                                             *)
(*   max        m_buffer_index_max                                         *)
(*   exhausted  m_buffer_exhausted                                         *)
(*   ended      m_trace_ended                                              *)
(***************************************************************************)
EXTENDS Integers

CONSTANT K  \* k_trace_buffer_size

ASSUME BufferAssumption == K \in Nat /\ K > 1

Slots == 0 .. K - 1

Reader == [pos : Nat, buf : [Slots -> Nat], index : Slots, max : 0 .. K,
           exhausted : BOOLEAN, ended : BOOLEAN]

NewReader == [pos |-> 0, buf |-> [i \in Slots |-> 0], index |-> 0, max |-> 0,
              exhausted |-> TRUE, ended |-> FALSE]

NextIndex(i) == IF i + 1 = K THEN 0 ELSE i + 1

\* gzread of a whole chunk: at the end of the file of what is left, and slots
\* behind that keep what they held.
Chunk(b, n) == IF n - b.pos < K THEN n - b.pos ELSE K
Refilled(b, n) ==
  IF b.index # 0 THEN b ELSE
    [b EXCEPT !.pos = @ + Chunk(b, n),
              !.buf = [i \in Slots |-> IF i < Chunk(b, n) THEN b.pos + 1 + i ELSE b.buf[i]],
              !.max = Chunk(b, n),
              !.exhausted = FALSE]

\* The record at the index leaves the buffer.  It was read if more of the chunk
\* follows, or if it was the last of a full chunk.
Advanced(b) == [b EXCEPT !.index = NextIndex(b.index),
                         !.exhausted = @ \/ NextIndex(b.index) = 0]
\* A mutant of WasRead: the index may be the number of records read.
WasReadToEnd(b) == NextIndex(b.index) <= b.max
WasRead(b) == NextIndex(b.index) < b.max

\* setup_trace: one record is read past the buffer.
FirstRead(b, n) == [reader |-> [b EXCEPT !.pos = IF n > 0 THEN 1 ELSE 0],
                    rec |-> IF n > 0 THEN 1 ELSE 0]

\* read_trace into a place that holds old.
ReadTrace(b, n, old) ==
  LET c == Refilled(b, n) IN
  IF b.ended THEN [reader |-> b, rec |-> old, read |-> FALSE]
  ELSE [reader |-> [Advanced(c) EXCEPT !.ended = ~WasRead(c)],
        rec |-> c.buf[c.index], read |-> WasRead(c)]

\* peek_trace: from the buffer, or one record past it when it is used up.
PeekTrace(b, n, old) ==
  IF ~b.exhausted
  THEN [reader |-> Advanced(b), rec |-> b.buf[b.index], read |-> WasRead(b)]
  ELSE IF b.pos < n
       THEN [reader |-> [b EXCEPT !.pos = @ + 1], rec |-> b.pos + 1, read |-> TRUE]
       ELSE [reader |-> b, rec |-> old, read |-> FALSE]

\* ungetch_trace: the index goes back, and the file for what the index lacks.
UngetchTrace(b, k) ==
  IF b.index >= k THEN [b EXCEPT !.index = @ - k]
  ELSE [b EXCEPT !.index = 0, !.pos = @ - (k - b.index)]

==============================================================================
