--------------------------- MODULE TraceFileProofs ---------------------------
(***************************************************************************)
(* Whatever the size of the buffer and the length of the file, reading,    *)
(* peeking and giving back move one cursor through the file.               *)
(***************************************************************************)
EXTENDS TraceFile, TLAPS

\* How many records a reader has handed over: the file's position, less what
\* still waits in the buffer.
Cursor(b) == IF b.exhausted THEN b.pos ELSE b.pos - b.max + b.index

\* What the buffer holds between the calls of a reader of n records that has
\* not met the end: the records behind the cursor, in order.
Sound(b, n) ==
  /\ b \in Reader
  /\ b.pos <= n
  /\ b.exhausted => b.index = 0
  /\ ~b.exhausted =>
       /\ b.index < b.max /\ b.max <= b.pos
       /\ b.max < K => b.pos = n
       /\ \A i \in Slots : i < b.max => b.buf[i] = b.pos - b.max + 1 + i

LEMMA NextIndexType ==
  ASSUME NEW i \in Slots
  PROVE  /\ NextIndex(i) \in Slots
         /\ NextIndex(i) = 0 <=> i = K - 1
         /\ NextIndex(i) # 0 => NextIndex(i) = i + 1
  BY BufferAssumption DEF NextIndex, Slots

LEMMA RefilledSound ==
  ASSUME NEW n \in Nat, NEW b, Sound(b, n), Cursor(b) < n, b.index = 0 => b.exhausted
  PROVE  LET c == Refilled(b, n) IN
         /\ Sound(c, n) /\ ~c.exhausted /\ Cursor(c) = Cursor(b) /\ c.ended = b.ended
         /\ c.buf[c.index] = Cursor(b) + 1
<1>1. CASE b.index # 0
  BY <1>1, BufferAssumption DEF Sound, Refilled, Cursor, Reader, Slots
<1>2. CASE b.index = 0
  <2> DEFINE m == Chunk(b, n)
             c == Refilled(b, n)
             f == [i \in Slots |-> IF i < m THEN b.pos + 1 + i ELSE b.buf[i]]
  <2>1. b.exhausted /\ b \in Reader /\ b.pos \in Nat /\ b.pos < n
    BY <1>2 DEF Sound, Cursor, Reader
  <2>2. m \in 1 .. K /\ b.pos + m <= n /\ (m < K => b.pos + m = n)
    BY <2>1, BufferAssumption DEF Chunk
  <2>3. c = [pos |-> b.pos + m, buf |-> f, index |-> b.index, max |-> m, exhausted |-> FALSE,
             ended |-> b.ended]
    BY <1>2, <2>1 DEF Refilled, Reader
  <2>4. f \in [Slots -> Nat]
    <3>1. b.buf \in [Slots -> Nat]
      BY <2>1 DEF Reader
    <3>2. \A i \in Slots : b.buf[i] \in Nat /\ b.pos + 1 + i \in Nat
      BY <2>1, <3>1, BufferAssumption DEF Slots
    <3> QED
      BY <3>2
  <2> HIDE DEF m, c, f
  <2>5. c \in Reader
    BY <2>1, <2>2, <2>3, <2>4, BufferAssumption DEF Reader
  <2>6. \A i \in Slots : i < m => f[i] = b.pos + 1 + i
    BY DEF f
  <2>7. 0 \in Slots
    BY BufferAssumption DEF Slots
  <2>8. Sound(c, n)
    BY <1>2, <2>1, <2>2, <2>3, <2>5, <2>6, BufferAssumption DEF Sound, Slots
  <2> QED
    BY <1>2, <2>1, <2>2, <2>3, <2>6, <2>7, <2>8 DEF c, Cursor
<1> QED
  BY <1>1, <1>2

LEMMA AdvancedSound ==
  ASSUME NEW n \in Nat, NEW b, Sound(b, n), ~b.exhausted, WasRead(b)
  PROVE  /\ Sound(Advanced(b), n) /\ Cursor(Advanced(b)) = Cursor(b) + 1
         /\ Advanced(b).ended = b.ended
<1> DEFINE j == NextIndex(b.index)
           c == Advanced(b)
<1>1. b \in Reader /\ b.index \in Slots /\ b.max \in 0 .. K /\ b.pos \in Nat
  BY DEF Sound, Reader
<1>2. j \in Slots /\ j < b.max /\ (j = 0 => b.index = K - 1) /\ (j # 0 => j = b.index + 1)
  BY <1>1, NextIndexType DEF WasRead
<1>3. c = [pos |-> b.pos, buf |-> b.buf, index |-> j, max |-> b.max, exhausted |-> j = 0,
           ended |-> b.ended]
  <2>1. (b.exhausted \/ j = 0) = (j = 0)
    BY Zenon
  <2>2. c = [b EXCEPT !.index = j, !.exhausted = (j = 0)]
    BY <1>1, <2>1, Zenon DEF Advanced, Reader
  <2> HIDE DEF j, c
  <2> QED
    BY <1>1, <2>2 DEF Reader
<1> HIDE DEF j, c
<1>4. c \in Reader
  BY <1>1, <1>2, <1>3 DEF Reader
<1>5. /\ b.pos <= n /\ b.index < b.max /\ b.max <= b.pos /\ (b.max < K => b.pos = n)
      /\ \A i \in Slots : i < b.max => b.buf[i] = b.pos - b.max + 1 + i
  BY DEF Sound
<1>6. Sound(c, n)
  BY <1>2, <1>3, <1>4, <1>5 DEF Sound
<1>7. Cursor(c) = Cursor(b) + 1
  <2>1. c.pos = b.pos /\ c.max = b.max /\ c.index = j /\ (c.exhausted <=> j = 0)
    BY <1>3, Zenon
  <2>2. Cursor(b) = b.pos - b.max + b.index
    BY DEF Cursor
  <2>3. CASE j = 0
    <3>1. Cursor(c) = b.pos
      BY <2>1, <2>3 DEF Cursor
    <3> QED
      BY <1>1, <1>2, <1>5, <2>2, <2>3, <3>1, BufferAssumption DEF Slots
  <2>4. CASE j # 0
    <3>1. Cursor(c) = b.pos - b.max + j
      BY <2>1, <2>4 DEF Cursor
    <3> QED
      BY <1>1, <1>2, <2>2, <2>4, <3>1 DEF Slots
  <2> QED
    BY <2>3, <2>4
<1> QED
  BY <1>3, <1>6, <1>7 DEF c

(* read_trace hands over the next record of the file: if it says that it read
   one, the reader is one record further and as sound as before.            *)
THEOREM ReadTraceInOrder ==
  ASSUME NEW n \in Nat, NEW b, NEW old,
         Sound(b, n), ~b.ended, Cursor(b) < n, b.index = 0 => b.exhausted
  PROVE  LET r == ReadTrace(b, n, old) IN
         /\ r.rec = Cursor(b) + 1
         /\ r.read => Sound(r.reader, n) /\ Cursor(r.reader) = Cursor(b) + 1 /\ ~r.reader.ended
<1> DEFINE c == Refilled(b, n)
           r == ReadTrace(b, n, old)
<1>1. Sound(c, n) /\ ~c.exhausted /\ Cursor(c) = Cursor(b) /\ c.buf[c.index] = Cursor(b) + 1
      /\ ~c.ended
  BY RefilledSound
<1>2. r = [reader |-> [Advanced(c) EXCEPT !.ended = ~WasRead(c)], rec |-> c.buf[c.index],
           read |-> WasRead(c)]
  BY DEF ReadTrace
<1> HIDE DEF c, r
<1>3. ASSUME WasRead(c)
      PROVE  Sound(r.reader, n) /\ Cursor(r.reader) = Cursor(b) + 1 /\ ~r.reader.ended
  <2>1. Sound(Advanced(c), n) /\ Cursor(Advanced(c)) = Cursor(c) + 1 /\ ~Advanced(c).ended
    BY <1>1, <1>3, AdvancedSound
  <2>2. Advanced(c) \in Reader
    BY <2>1 DEF Sound
  <2>3. r.reader = Advanced(c)
    BY <1>2, <1>3, <2>1, <2>2 DEF Reader
  <2> QED
    BY <1>1, <2>1, <2>3
<1> QED
  BY <1>1, <1>2, <1>3 DEF r

(* peek_trace, from the buffer or past it, hands over the next record too. *)
THEOREM PeekTraceInOrder ==
  ASSUME NEW n \in Nat, NEW b, NEW old, Sound(b, n), Cursor(b) < n
  PROVE  LET p == PeekTrace(b, n, old) IN
         /\ p.rec = Cursor(b) + 1
         /\ p.read => Sound(p.reader, n) /\ Cursor(p.reader) = Cursor(b) + 1
<1>1. CASE ~b.exhausted
  <2>1. b.buf[b.index] = Cursor(b) + 1
    BY <1>1 DEF Sound, Cursor, Reader, Slots
  <2>2. WasRead(b) => Sound(Advanced(b), n) /\ Cursor(Advanced(b)) = Cursor(b) + 1
    BY <1>1, AdvancedSound
  <2> QED
    BY <1>1, <2>1, <2>2 DEF PeekTrace
<1>2. CASE b.exhausted
  <2> DEFINE c == [b EXCEPT !.pos = @ + 1]
  <2>1. b \in Reader /\ b.pos \in Nat /\ b.pos < n /\ Cursor(b) = b.pos /\ b.index = 0
    BY <1>2 DEF Sound, Cursor, Reader
  <2>2. c \in Reader /\ c.pos = b.pos + 1 /\ c.exhausted /\ c.index = 0
    BY <1>2, <2>1 DEF Reader
  <2>3. Sound(c, n) /\ Cursor(c) = Cursor(b) + 1
    BY <2>1, <2>2 DEF Sound, Cursor
  <2> QED
    BY <1>2, <2>1, <2>3 DEF PeekTrace
<1> QED
  BY <1>1, <1>2

(* ungetch_trace moves the cursor back by as many records as it is told, and
   the reader stays sound: the records peeked are handed over again.  While
   the buffer is in use it must still hold them, which it does for records
   peeked since read_trace last filled it.                                  *)
THEOREM UngetchTraceGivesBack ==
  ASSUME NEW n \in Nat, NEW b, NEW k \in Nat, Sound(b, n), k <= Cursor(b),
         ~b.exhausted => k <= b.index
  PROVE  Sound(UngetchTrace(b, k), n) /\ Cursor(UngetchTrace(b, k)) = Cursor(b) - k
<1> DEFINE c == UngetchTrace(b, k)
<1>1. b \in Reader /\ b.pos \in Nat /\ b.index \in Slots /\ b.index \in Nat
  BY DEF Sound, Reader, Slots
<1>2. CASE b.index >= k
  <2>1. c = [pos |-> b.pos, buf |-> b.buf, index |-> b.index - k, max |-> b.max,
             exhausted |-> b.exhausted, ended |-> b.ended]
    BY <1>1, <1>2 DEF UngetchTrace, Reader
  <2>2. b.index - k \in Slots
    BY <1>1, <1>2, BufferAssumption DEF Slots
  <2> HIDE DEF c
  <2>3. c \in Reader
    BY <1>1, <2>1, <2>2 DEF Reader
  <2>4. Sound(c, n)
    BY <1>1, <1>2, <2>1, <2>2, <2>3 DEF Sound, Reader, Slots
  <2>5. Cursor(c) = Cursor(b) - k
    BY <1>1, <1>2, <2>1 DEF Cursor, Sound, Reader
  <2> QED
    BY <2>4, <2>5 DEF c
<1>3. CASE ~(b.index >= k)
  <2>1. b.exhausted /\ b.index = 0 /\ k <= b.pos
    BY <1>1, <1>3 DEF Sound, Cursor
  <2>2. c = [pos |-> b.pos - k, buf |-> b.buf, index |-> 0, max |-> b.max,
             exhausted |-> b.exhausted, ended |-> b.ended]
    <3>1. b.pos - (k - b.index) = b.pos - k
      BY <1>1, <2>1
    <3>2. c = [b EXCEPT !.index = 0, !.pos = b.pos - k]
      BY <1>3, <3>1, Zenon DEF UngetchTrace
    <3> HIDE DEF c
    <3> QED
      BY <1>1, <3>2 DEF Reader
  <2> HIDE DEF c
  <2>3. c \in Reader
    BY <1>1, <2>1, <2>2 DEF Reader
  <2>4. Sound(c, n) /\ Cursor(c) = Cursor(b) - k
    BY <1>1, <2>1, <2>2, <2>3 DEF Sound, Cursor
  <2> QED
    BY <2>4 DEF c
<1> QED
  BY <1>2, <1>3

==============================================================================
