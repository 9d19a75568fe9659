---------------------------- MODULE TraceReader ----------------------------
(***************************************************************************)
(* get_uops_from_traces of the five trace readers: how the threads of a    *)
(* process turn their trace files into the uops that the frontend fetches. *)
(*                                                                         *)
(* The instruction after the current one is always read ahead.  A memory   *)
(* instruction of a GPU trace is followed by records that are no           *)
(* instructions: the addresses of the other threads of the warp (PTX), or  *)
(* one record for each access that was not coalesced (NVBit, Intel GPU).   *)
(*                                                                         *)
(* A record has, besides what UopDecode reads,                             *)
(*   size   the pieces of a string operation                               *)
(*   kids   m_branch_target of an Intel GPU access: its child records      *)
(*   child  m_is_fp of an access: the record is a child                    *)
(*   va     the address of the first thread of a warp, 0: inactive         *)
(*   addrs  of a record of addresses: those of the next threads            *)
(***************************************************************************)
EXTENDS TraceFile, UopDecode, FiniteSets

CONSTANTS
  Setups,      \* format, traces of the threads and KNOB_MAX_INSTS
  WarpSize,    \* KNOB_GPU_WARP_SIZE
  PerRecord,   \* addr_per_trace_inst
  LineSize,    \* bytes of a cache line
  AccessSize,  \* m_mem_access_size
  MaxKids      \* 32: children that count_child_traces looks for

ASSUME ReaderAssumption == {WarpSize, PerRecord, LineSize, AccessSize, MaxKids} \subseteq Nat \ {0}

VARIABLES
  isa,    \* format of the traces
  trace,  \* the trace file of each thread
  limit,  \* KNOB_MAX_INSTS
  th,     \* thread_s of each thread, with what the core keeps for it
  cache,  \* m_inst_info_hash of the process: a sequence of uops for each pc
  out     \* the uops each thread has handed to the frontend

vars == <<isa, trace, limit, th, cache, out>>
constants == <<isa, trace, limit>>

Threads == DOMAIN trace
Size(t) == Len(trace[t])
Nothing == [pc |-> 0, op |-> "none", ld |-> 0, st |-> FALSE, cf |-> FALSE, dst |-> 0, size |-> 0,
            kids |-> 0, child |-> FALSE, va |-> 0, addrs |-> [i \in 1 .. PerRecord |-> 0]]
Rec(t, i) == IF i = 0 THEN Nothing ELSE trace[t][i]
Pcs == {0} \union UNION {{trace[t][i].pc : i \in 1 .. Size(t)} : t \in Threads}

\* thread_s as it is created.  What the first slot of the uop array holds, of
\* children (parent) and of registers (old), is left from its last use; left
\* remembers the former.
NewThread(kids, dests) ==
  [reader |-> NewReader, prev |-> 0, next |-> 0, cur |-> 0, slots |-> <<>>, eom |-> 0, sent |-> 0,
   old |-> dests, parent |-> kids, left |-> kids, bom |-> TRUE, fetched |-> 0, first |-> TRUE, ended |-> FALSE,
   failed |-> FALSE]

Init ==
  /\ \E s \in Setups : isa = s.isa /\ trace = s.traces /\ limit = s.limit
  /\ \E kids, dests \in IF isa = "igpu" THEN 0 .. 1 ELSE {0} :
       th = [t \in Threads |-> NewThread(kids, dests)]
  /\ cache = [pc \in Pcs |-> <<>>]
  /\ out = [t \in Threads |-> <<>>]

-----------------------------------------------------------------------------
(* The first fetch of a thread: setup_trace and the initial increase of the
   number of instructions fetched.                                          *)
Setup(t) ==
  /\ th[t].first
  /\ LET r == FirstRead(th[t].reader, Size(t)) IN
     th' = [th EXCEPT ![t] = [@ EXCEPT !.reader = r.reader, !.prev = r.rec, !.fetched = 1,
                                       !.first = FALSE]]
  /\ UNCHANGED <<constants, cache, out>>

\* At the beginning of an instruction: the next one is read, the one read
\* before becomes current and is decoded.
ReadAhead(t, s) ==
  IF s.fetched < limit THEN ReadTrace(s.reader, Size(t), s.next)
  ELSE [reader |-> [s.reader EXCEPT !.ended = TRUE], rec |-> s.next, read |-> FALSE]

\* igpu_decoder_c: the slot is a parent once it was made one, and keeps the
\* number of children until another parent is decoded into it.
ParentOf(pi, s) ==
  IF (pi.ld > 0 \/ pi.st) /\ ~pi.child /\ pi.kids > 0 THEN pi.kids ELSE s.parent

Begin(t, s) ==
  LET r == ReadAhead(t, s)
      pi == Rec(t, s.prev)
      d == Repeated(pi, Looked(isa, pi, s.old, cache[pi.pc]))
  IN [thread |-> [s EXCEPT !.reader = r.reader, !.cur = s.prev, !.prev = r.rec, !.next = r.rec,
                           !.fetched = IF r.read THEN @ + 1 ELSE @,
                           !.slots = d.uops, !.eom = d.eom, !.old = Len(d.uops[1].dsts),
                           !.parent = ParentOf(pi, s), !.sent = 0],
      entry |-> d.entry]

\* A mutant of Send, which ends the thread with the first uop after the end of
\* the trace.
SendEndsAtOnce(t, s) ==
  LET i == s.sent + 1
      eom == i = s.eom
  IN [thread |-> [s EXCEPT !.sent = i, !.bom = eom, !.ended = s.reader.ended],
      uop |-> [uop |-> s.slots[i], rec |-> s.cur, bom |-> i = 1, eom |-> eom,
               last |-> s.reader.ended, kids |-> <<>>,
               npc |-> Rec(t, IF i = Len(s.slots) THEN s.next ELSE s.cur).pc]]

\* The next uop of the current instruction.  Its npc is the pc of the next
\* record, or its own where more uops follow; the last uop of the last
\* instruction ends the fetching of the thread.
Send(t, s) ==
  LET i == s.sent + 1
      eom == i = s.eom
      last == s.reader.ended /\ eom
  IN [thread |-> [s EXCEPT !.sent = i, !.bom = eom, !.ended = last],
      uop |-> [uop |-> s.slots[i], rec |-> s.cur, bom |-> i = 1, eom |-> eom, last |-> last,
               npc |-> Rec(t, IF i = Len(s.slots) THEN s.next ELSE s.cur).pc, kids |-> <<>>]]

Fetchable(t) == ~th[t].first /\ ~th[t].ended /\ ~th[t].failed

-----------------------------------------------------------------------------
(* igpu_decoder_c: a parent takes the records that follow, whatever they
   are.                                                                     *)
IgpuChildren(t, s, u) ==
  LET n == IF u.bom THEN s.parent ELSE 0
      taken[i \in 0 .. n] ==
        IF i = 0 THEN [s |-> s, kids |-> <<>>]
        ELSE LET g == taken[i - 1]
                 r == ReadTrace(g.s.reader, Size(t), g.s.next)
             IN [s |-> [g.s EXCEPT !.reader = r.reader, !.prev = r.rec, !.next = r.rec],
                 kids |-> Append(g.kids, g.s.prev)]
  IN [thread |-> taken[n].s, uop |-> [u EXCEPT !.kids = taken[n].kids]]

-----------------------------------------------------------------------------
(* gpu_decoder_c, where an access is the last uop of its instruction (it
   asserts that no other follows): the record read ahead is given back, the
   addresses of the warp are read and coalesced into lines, and the next
   instruction is read ahead in its place.                                  *)
BaseLine(a) == a - (a % LineSize)
\* A mutant of LinesOf, which forgets the line an access ends in.
FirstLineOf(a) == IF BaseLine(a) = 0 THEN <<>> ELSE <<BaseLine(a)>>
LinesOf(a) == IF BaseLine(a) = 0 THEN <<>> ELSE <<BaseLine(a), BaseLine(a + AccessSize - 1)>>
Seen(lines, line) == IF line \in Range(lines) THEN lines ELSE Append(lines, line)
Coalesced(addrs) == FoldLeft(Seen, <<>>, FlattenSeq([i \in DOMAIN addrs |-> LinesOf(addrs[i])]))

AddrRecords == (WarpSize + PerRecord - 2) \div PerRecord

WarpAddrs(t, u, recs) ==
  [i \in 1 .. WarpSize |->
    IF i = 1 THEN Rec(t, u.rec).va
    ELSE Rec(t, recs[(i - 2) \div PerRecord + 1]).addrs[((i - 2) % PerRecord) + 1]]

PtxChildren(t, s, u) ==
  LET peeked[i \in 0 .. AddrRecords] ==
        IF i = 0 THEN [reader |-> UngetchTrace(s.reader, 1), recs |-> <<>>, ok |-> TRUE]
        ELSE LET g == peeked[i - 1]
                 p == PeekTrace(g.reader, Size(t), 0)
             IN [reader |-> p.reader, recs |-> Append(g.recs, p.rec), ok |-> g.ok /\ p.read]
      g == peeked[AddrRecords]
      lines == Coalesced(WarpAddrs(t, u, g.recs))
      p == IF g.reader.ended THEN [reader |-> g.reader, rec |-> s.prev, read |-> FALSE]
           ELSE PeekTrace(g.reader, Size(t), s.prev)
  IN [thread |-> [s EXCEPT !.reader = [p.reader EXCEPT !.ended = @ \/ ~p.read],
                           !.prev = p.rec, !.failed = ~g.ok \/ lines = <<>>],
      uop |-> [u EXCEPT !.kids = lines, !.npc = IF p.read THEN Rec(t, p.rec).pc ELSE @]]

-----------------------------------------------------------------------------
(* nvbit_decoder_c: the children of an access are counted by peeking, the
   records peeked are given back, and the children are then read again.  A
   record that ends the trace is peeked but not counted.                    *)
IsChild(t, u, i) == Rec(t, i).op = Rec(t, u.rec).op /\ Rec(t, i).child

CountChildTraces(t, s, u) ==
  LET peeked[i \in 0 .. MaxKids - 1] ==
        IF i = 0 THEN [reader |-> s.reader, peeked |-> 0, matching |-> 0, stop |-> FALSE]
        ELSE LET g == peeked[i - 1]
                 p == PeekTrace(g.reader, Size(t), 0)
                 match == p.read /\ IsChild(t, u, p.rec)
             IN IF g.stop THEN g
                ELSE [reader |-> p.reader, peeked |-> IF p.read THEN g.peeked + 1 ELSE g.peeked,
                      matching |-> IF match THEN g.matching + 1 ELSE g.matching, stop |-> ~match]
      g == peeked[MaxKids - 1]
  IN IF IsChild(t, u, s.prev)
     THEN [reader |-> UngetchTrace(g.reader, g.peeked), number |-> 1 + g.matching]
     ELSE [reader |-> s.reader, number |-> 0]

\* m_child_uops[i] stays what it was allocated as, 0, when reading stops before.
NvbitChildren(t, s, u) ==
  LET c == CountChildTraces(t, s, u)
      read[i \in 0 .. c.number] ==
        IF i = 0 THEN [s |-> [s EXCEPT !.reader = c.reader], kids |-> <<>>, stop |-> FALSE]
        ELSE LET g == read[i - 1]
                 r == ReadTrace(g.s.reader, Size(t), g.s.next)
             IN IF g.stop THEN [g EXCEPT !.kids = Append(@, 0)]
                ELSE [s |-> [g.s EXCEPT !.reader = r.reader, !.next = r.rec,
                                        !.prev = IF r.read THEN r.rec ELSE @],
                      kids |-> Append(g.kids, g.s.prev), stop |-> ~r.read]
  IN [thread |-> read[c.number].s, uop |-> [u EXCEPT !.kids = read[c.number].kids]]

-----------------------------------------------------------------------------
\* What a format does for a uop that accesses memory.
Children(t, s, u) ==
  CASE isa = "igpu" -> IgpuChildren(t, s, u)
    [] isa = "ptx" -> PtxChildren(t, s, u)
    [] isa = "nvbit" -> NvbitChildren(t, s, u)
    [] OTHER -> [thread |-> s, uop |-> u]

GetUops(t) ==
  /\ Fetchable(t)
  /\ \E b \in {IF th[t].bom THEN Begin(t, th[t])
               ELSE [thread |-> th[t], entry |-> cache[Rec(t, th[t].cur).pc]]} :
     \E s \in {Send(t, b.thread)} :
     \E c \in {IF s.uop.uop.kind \in MemKinds THEN Children(t, s.thread, s.uop) ELSE s} :
       /\ th' = [th EXCEPT ![t] = c.thread]
       /\ cache' = [cache EXCEPT ![Rec(t, b.thread.cur).pc] = b.entry]
       /\ out' = [out EXCEPT ![t] = Append(@, c.uop)]
  /\ UNCHANGED constants

GetUopsX86(t) == isa = "x86" /\ GetUops(t)
GetUopsA64(t) == isa = "a64" /\ GetUops(t)
GetUopsIgpu(t) == isa = "igpu" /\ GetUops(t)
GetUopsPtx(t) == isa = "ptx" /\ GetUops(t)
GetUopsNvbit(t) == isa = "nvbit" /\ GetUops(t)

-----------------------------------------------------------------------------
Finished ==
  /\ \A t \in Threads : th[t].ended
  /\ UNCHANGED vars

Next ==
  \/ \E t \in Threads : \/ Setup(t)
                        \/ GetUopsX86(t)
                        \/ GetUopsA64(t)
                        \/ GetUopsIgpu(t)
                        \/ GetUopsPtx(t)
                        \/ GetUopsNvbit(t)
  \/ Finished

Spec == Init /\ [][Next]_vars

-----------------------------------------------------------------------------
IsInst(r) == r.op # "address" /\ ~r.child
Insts(t) == SelectSeq([i \in 1 .. Size(t) |-> i], LAMBDA i : IsInst(trace[t][i]))

\* An Intel GPU access without children behind a parent: the slot of the uop
\* array still says parent, since nothing resets it (trace_read_igpu.cc:861-866),
\* and the access takes records that are not its own.  Sound are the uops handed
\* over before the first such access.
Misled(t, i) ==
  LET u == out[t][i] IN
  /\ isa = "igpu" /\ u.uop.kind \in MemKinds /\ u.bom /\ trace[t][u.rec].kids = 0
  /\ th[t].left > 0 \/ \E j \in 1 .. i - 1 : trace[t][out[t][j].rec].kids > 0
Sound(t) == {i \in DOMAIN out[t] : \A j \in 1 .. i : ~Misled(t, j)}
Begun(t) == SelectSeq([i \in 1 .. Cardinality(Sound(t)) |-> IF out[t][i].bom THEN out[t][i].rec ELSE -1],
                      LAMBDA i : i # -1)

(* The records that a thread decodes as instructions are the instructions of
   its trace, each once and in the order of the file, however the reading
   ahead, the peeking and the giving back fall on the borders of chunks, and
   no assertion fires.  When the fetching has ended, all of them were decoded,
   or as many as KNOB_MAX_INSTS allows, or all but the last: of a CPU trace
   the last one is decoded exactly when a chunk ends with it.  Of an Intel GPU
   trace this is said of what comes before a misled access.                 *)
StreamExact ==
  \A t \in Threads :
    /\ IsPrefix(Begun(t), Insts(t))
    /\ ~th[t].failed
    /\ th[t].ended /\ Len(Begun(t)) # limit /\ Sound(t) = DOMAIN out[t] =>
         /\ Len(Begun(t)) \in {Len(Insts(t)) - 1, Len(Insts(t))}
         /\ isa \in {"x86", "a64"} =>
              (Len(Begun(t)) = Len(Insts(t)) <=> (Size(t) - 1) % K = 0)

\* The lines that the threads of a warp access, from the file itself.
WarpLines(t, i) ==
  LET addrs == <<trace[t][i].va>> \o FlattenSeq([j \in 1 .. AddrRecords |-> trace[t][i + j].addrs])
      active == {a \in Range(SubSeq(addrs, 1, WarpSize)) : a # 0}
      bytes == {a + b : a \in active, b \in 0 .. AccessSize - 1}
  IN {b - (b % LineSize) : b \in bytes}

ChildRecords(t, i) ==
  {j \in i + 1 .. Size(t) : \A k \in i + 1 .. j : trace[t][k].child}

(* The children of a memory instruction are what the trace says: for a PTX
   access a child for every line that an active thread of the warp touches,
   an access across the border of two lines included, and none twice; for
   the others its child records, in order, and none where it has none.  Left
   out are the instruction that KNOB_MAX_INSTS makes the last and, of an Intel
   GPU trace, what comes from a misled access on.                           *)
KidsExact ==
  \A t \in Threads : \A i \in Sound(t) :
    LET u == out[t][i]
        wanted == u.uop.kind \in MemKinds /\ isa \in {"ptx", "nvbit", "igpu"}
    IN ~(u.last /\ Len(Begun(t)) = limit) =>
         CASE ~wanted -> u.kids = <<>>
           [] isa = "ptx" -> Range(u.kids) = WarpLines(t, u.rec) /\ IsInjective(u.kids)
           [] OTHER -> u.kids = [j \in 1 .. Cardinality(ChildRecords(t, u.rec)) |-> u.rec + j]

\* The pc of the instruction that follows, as far as the reader knows it: of a
\* string operation with more than one piece, and of the parent of child
\* records, it does not know; nor of a PTX access before the last record.
Steered(t, i) ==
  LET u == out[t][i]
      r == trace[t][u.rec]
      knows == ~(r.op = "string" /\ r.size > 1) /\
               (u.kids # <<>> => isa = "ptx" /\ out[t][i + 1].rec < Size(t))
  IN IF ~u.eom THEN u.npc = r.pc
     ELSE i < Len(out[t]) /\ knows => u.npc = trace[t][out[t][i + 1].rec].pc

(* The uops of an instruction leave one after the other, the first and the
   last of them marked (m_isitBOM, m_isitEOM) and none mixed with another
   instruction's; each names the pc that is fetched after it; m_last_uop
   marks the uop with which the fetching ends and no other.                 *)
MacrosWhole ==
  \A t \in Threads : \A i \in DOMAIN out[t] :
    LET u == out[t][i] IN
    /\ u.bom <=> (i = 1 \/ out[t][i - 1].eom)
    /\ ~u.bom => u.rec = out[t][i - 1].rec
    /\ u.last <=> (th[t].ended /\ i = Len(out[t]))
    /\ u.last => u.eom
    /\ Steered(t, i)

\* The instructions a thread has handed over whole: from the i-th to the j-th uop.
Whole(t) == {x \in (DOMAIN out[t]) \X (DOMAIN out[t]) :
               /\ x[1] <= x[2] /\ out[t][x[1]].bom /\ out[t][x[2]].eom
               /\ \A k \in x[1] .. x[2] - 1 : ~out[t][k].eom}
UopsOf(t, x) == [k \in 1 .. x[2] - x[1] + 1 |-> out[t][x[1] + k - 1].uop]
RecOf(t, x) == trace[t][out[t][x[1]].rec]

\* The registers a load writes besides the temporary one: on x86 those of a move
\* only; of an Intel GPU load the number is whatever the slot held.
OwnDests(pi) == CASE isa = "x86" -> IF pi.op = "xfer" THEN pi.dst ELSE 0
                  [] isa = "igpu" -> 1
                  [] OTHER -> pi.dst


==============================================================================
