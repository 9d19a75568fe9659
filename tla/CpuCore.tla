------------------------------- MODULE CpuCore -------------------------------
(***************************************************************************)
(* The pipeline of a CPU core: fetch and branch recovery (frontend.cc),    *)
(* allocation (allocate.cc, resource.h), the out-of-order and the in-order *)
(* scheduler (schedule.cc, schedule_ooo.cc, schedule_io.cc), execution     *)
(* (exec.cc), the reorder buffer with its fences and versions (rob.cc,     *)
(* fence.h), retirement and the write buffer (retire.cc), called in the    *)
(* order of core_c::run_a_cycle; and the dependence maps of the frontend   *)
(* (map.cc).                                                               *)
(*                                                                         *)
(* A uop is its number in the program.  Cycles are not counted: a uop that *)
(* has executed completes before any later cycle (Complete), the data      *)
(* caches may refuse an access any number of times, and an instruction     *)
(* line may miss at every fetch.  An entry of a pipeline queue is ready in *)
(* the cycle after it is written; the queues' delays are in PQueue.        *)
(***************************************************************************)
EXTENDS Integers, Sequences, FiniteSets, SequencesExt

CONSTANTS
  Setups,        \* pairs of a program and the values of the knobs
  Width,         \* KNOB_WIDTH
  FetchWidth,    \* KNOB_FETCH_WIDTH
  FeSize,        \* KNOB_FE_SIZE
  AllocQSize,    \* KNOB_GIAQ_SIZE, _MIAQ_SIZE, _FQ_SIZE
  RobSize,       \* KNOB_ROB_SIZE
  Capacity,      \* load and store buffers, integer and fp registers
  SchedSize,     \* KNOB_ISCHED_SIZE, _MSCHED_SIZE, _FSCHED_SIZE
  SchedRate,     \* KNOB_ISCHED_RATE, _MSCHED_RATE, _FSCHED_RATE
  MaxPort,       \* execution ports of each kind
  MaxSched,      \* MAX_SCHED_SIZE
  WbSize,        \* KNOB_WB_SIZE
  Registers, Addresses, \* that the programs use
  QuadWord,      \* BYTES_IN_QUADWORD
  FirstVersions  \* m_version, m_last_fence_version and m_reset_uop_num of a new
                 \* rob_c: no constructor sets them

Queues == <<"gen", "mem", "fp">>
QueueNames == {"gen", "mem", "fp"}
Resources == {"lb", "sb", "int", "fp"}
FenceTypes == {"FULL", "ACQ", "REL"}

ASSUME CoreAssumption ==
  /\ {Width, FetchWidth, FeSize, RobSize, MaxSched, WbSize} \subseteq Nat \ {0}
  /\ FetchWidth < FeSize
  /\ Capacity \in [Resources -> Nat \ {0}]
  /\ \A f \in {AllocQSize, SchedSize, SchedRate, MaxPort} :
       f \in [QueueNames -> Nat \ {0}]

VARIABLES
  prog, knobs, committed,
  phase,      \* the stage of the cycle that runs next
  count,      \* the counter of that stage's loop
  fetch,      \* uops fetched, line missing, fetch mode, recovery pending
  fe,         \* m_q_frontend
  alloc_q,    \* m_q_iaq: entries of the reorder buffer
  rob,        \* reorder buffer: m_rob, m_first_entry, m_last_entry, m_free_cnt
  state,      \* progress of each uop
  free,       \* resource_c: what is left of each resource
  sched,      \* m_schedule_list from m_first_schlist_ptr, with the counters
  ports,      \* m_port_used
  fences,     \* fence_c: the active fences, oldest activation first
  order,      \* versions and the ordering root queue of rob_c
  version,    \* m_mem_version of each uop
  map,        \* map_data_c: last writer of a register, last store to an address
  srcs,       \* m_map_src_info: the uops each uop waits for
  wb,         \* m_write_buffer
  wb_empty    \* m_wb_empty

vars == <<prog, knobs, committed, phase, count, fetch, fe, alloc_q, rob, state,
          free, sched, ports, fences, order, version, map, srcs, wb, wb_empty>>

----------------------------------------------------------------------------
(* Uops *)

CommitOrderOf == INSTANCE CommitOrder WITH buffer <- Range(wb)
IsFence(u) == CommitOrderOf!IsFence(u)
IsMem(u) == CommitOrderOf!IsMem(u)

AllUops == 1 .. Len(prog)
Executed(u) == state[u] \in {"exec", "done"}
Done(u) == state[u] = "done"

\* The physical resource a uop takes: none for branches and fences.
Needs(u) == CASE prog[u].type = "LD" -> {"lb"}
              [] prog[u].type = "ST" -> {"sb"}
              [] prog[u].type = "INT" -> {"int"}
              [] prog[u].type = "FP" -> {"fp"}
              [] OTHER -> {}

QueueOf(u) == IF "fp" \in Needs(u) THEN "fp" ELSE IF IsMem(u) THEN "mem" ELSE "gen"

Init ==
  /\ \E s \in Setups : prog = s.prog /\ knobs = s.knobs
  /\ committed = 0 /\ phase = "cycle" /\ count = 0
  /\ fetch = [next |-> 1, missing |-> FALSE, mode |-> "ifetch", recovering |-> FALSE]
  /\ fe = <<>> /\ alloc_q = [q \in QueueNames |-> <<>>]
  /\ rob = [at |-> [e \in 0 .. 2 * RobSize - 1 |-> 0], first |-> 0, last |-> 0,
            free |-> RobSize]
  /\ state = [u \in AllUops |-> "new"]
  /\ free = Capacity
  /\ sched = [list |-> <<>>, pos |-> 1, num |-> 0, per |-> [q \in QueueNames |-> 0],
              next |-> 0]
  /\ ports = [q \in QueueNames |-> 0]
  /\ fences = [t \in FenceTypes |-> <<>>]
  /\ \E v \in FirstVersions :
       order = [version |-> v.version, last |-> v.last, reset |-> v.reset, orq |-> <<>>]
  /\ version = [u \in AllUops |-> 0]
  /\ map = [reg |-> [r \in Registers |-> 0], store |-> [a \in Addresses |-> 0]]
  /\ srcs = [u \in AllUops |-> {}]
  /\ wb = <<>> /\ wb_empty = TRUE

----------------------------------------------------------------------------
(* Reorder buffer *)

inc_index(e) == (e + 1) % (2 * RobSize)
entries == RobSize - rob.free
RelativeIndex(e) == IF rob.first <= e THEN e - rob.first ELSE e + 2 * RobSize - rob.first

\* The uops of the reorder buffer, oldest first.
RobUops == [i \in 1 .. entries |-> rob.at[(rob.first + i - 1) % (2 * RobSize)]]

\* process_version, with the 16 bits of a version.
Versioned(u) ==
  LET last == IF IsFence(u) THEN (order.last + 1) % 65536 ELSE order.last
      rooted == prog[u].type \in {"FULL", "ACQ"} /\ knobs.fence
      entry == [num |-> u, version |-> last, retired |-> FALSE]
  IN [order EXCEPT
        !.last = last,
        !.orq = IF rooted THEN Append(@, entry) ELSE @,
        !.version = IF prog[u].type = "FULL" THEN last ELSE @]

MemVersion(u) == IF ~IsMem(u) THEN version[u]
                 ELSE IF prog[u].bar \in {"rel", "acq"} THEN order.last
                 ELSE order.version

\* update_orq: drop the retired fences at the front that are older than age.
UpdateOrq(orq, age) ==
  LET Leaves(i) == orq[i].num < age /\ orq[i].retired
      Keeps == {i \in 1 .. Len(orq) : \A j \in 1 .. i : Leaves(j)}
  IN SubSeq(orq, Cardinality(Keeps) + 1, Len(orq))

VersionOfBack(u) ==
  order.orq # <<>> /\ Last(order.orq).version < version[u] /\ order.reset < u

version_ordering_check(u) ==
  /\ order.orq # <<>>
  /\ Head(order.orq).version < version[u]
  /\ order.reset < u

\* Memory operations before the fence at e that have not retired, or stores
\* still in the write buffer.
pending_mem_ops(e) ==
  \/ \E i \in 1 .. RelativeIndex(e) : IsMem(RobUops[i])
  \/ knobs.wb /\ ~wb_empty

EnsureAtFront(e) ==
  ~knobs.acqrel /\ \E t \in FenceTypes : \E f \in Range(fences[t]) : RelativeIndex(f) = 0

ensure_mem_ordering(e) ==
  /\ ~knobs.acqrel
  /\ \E t \in FenceTypes : \E f \in Range(fences[t]) : RelativeIndex(f) <= RelativeIndex(e)

\* The list a fence is kept in: one for all fences unless KNOB_ACQ_REL.
FenceList(u) == IF knobs.acqrel THEN prog[u].type ELSE "FULL"

----------------------------------------------------------------------------
(* Between two cycles: answers of the memory system, uops that finish *)

\* The done cycle of an executed uop is reached.
Complete(u) ==
  /\ phase = "cycle" /\ state[u] = "exec"
  /\ state' = [state EXCEPT ![u] = "done"]
  /\ UNCHANGED <<prog, knobs, committed, phase, count, fetch, fe, alloc_q, rob, free,
                 sched, ports, fences, order, version, map, srcs, wb, wb_empty>>

\* icache_fill_line: the line the thread waits for is in the cache.
FillLine ==
  /\ phase = "cycle" /\ fetch.missing
  /\ fetch' = [fetch EXCEPT !.missing = FALSE]
  /\ UNCHANGED <<prog, knobs, committed, phase, count, fe, alloc_q, rob, state, free,
                 sched, ports, fences, order, version, map, srcs, wb, wb_empty>>

StartCycle ==
  /\ phase = "cycle" /\ phase' = "retire" /\ count' = 0
  /\ UNCHANGED <<prog, knobs, committed, fetch, fe, alloc_q, rob, state, free, sched,
                 ports, fences, order, version, map, srcs, wb, wb_empty>>

----------------------------------------------------------------------------
(* Dependences: map_c::map_uop, map_mem_dep, delete_store_hash_entry *)

Overlap(a, n, b, m) == ~(a >= b + m \/ b >= a + n)

\* The last writer of each source register and, for a load, the last store to
\* each address of its quadword that overlaps it (KNOB_MEM_OBEY_STORE_DEP and
\* KNOB_MEM_OOO_STORES are set, as by default).
SourcesOf(m, u) ==
  LET p == prog[u]
      stores == {m.store[a] : a \in {b \in Addresses : b \div QuadWord = p.addr \div QuadWord}}
  IN ({m.reg[r] : r \in p.reads} \ {0})
     \cup IF p.type # "LD" THEN {}
          ELSE {s \in stores \ {0} : Overlap(prog[s].addr, prog[s].size, p.addr, p.size)}

\* The maps once u is their last writer.
MapUop(m, u) ==
  [reg |-> [r \in Registers |-> IF r \in prog[u].writes THEN u ELSE m.reg[r]],
   store |-> IF prog[u].type = "ST" THEN [m.store EXCEPT ![prog[u].addr] = u] ELSE m.store]

FreedAny(m, U) ==
  [m EXCEPT !.store = [a \in Addresses |->
     IF \E u \in U : prog[u].type = "ST" /\ prog[u].addr = a THEN 0 ELSE m.store[a]]]

\* uop_c::free of the uops U: the entry of a store goes if it is its own.
Freed(m, U) ==
  [m EXCEPT !.store = [a \in Addresses |-> IF m.store[a] \in U THEN 0 ELSE m.store[a]]]

----------------------------------------------------------------------------
(* Retirement: retire_c::run_a_cycle *)

Oldest == rob.at[rob.first]
Buffered(u) == knobs.wb /\ prog[u].type = "ST" /\ Executed(u)

\* A load waits if a store has a lower version and it is older than the stores at
\* which get_min_wb lowers its minimum.
check_ld_ordering_wb(u) ==
  LET lowered == {i \in DOMAIN wb : \A j \in 1 .. i : version[wb[i]] <= version[wb[j]]}
  IN /\ \E i \in DOMAIN wb : version[u] > version[wb[i]]
     /\ \A i \in lowered : u <= wb[i]

Retirable ==
  /\ entries > 0
  /\ IF Buffered(Oldest) THEN Len(wb) < WbSize ELSE Done(Oldest)
  /\ prog[Oldest].type = "LD" => ~check_ld_ordering_wb(Oldest)

\* update_root marks the fence; pop resets the versions with the last entry.
Popped(u) ==
  LET mark(o) == IF o.num = u THEN [o EXCEPT !.retired = TRUE] ELSE o
      orq == [i \in DOMAIN order.orq |-> mark(order.orq[i])]
  IN IF entries = 1 /\ orq = <<>>
     THEN [version |-> 0, last |-> 0, reset |-> u, orq |-> orq]
     ELSE [order EXCEPT !.orq = orq]

RetireOne ==
  /\ phase = "retire" /\ count < Width /\ Retirable
  /\ LET u == Oldest IN
     /\ wb' = IF Buffered(u) THEN Append(wb, u) ELSE wb
     /\ fences' = IF IsFence(u) /\ knobs.fence
                  THEN [fences EXCEPT ![FenceList(u)] = Tail(@)] ELSE fences
     /\ order' = Popped(u)
     /\ map' = IF Buffered(u) THEN map ELSE Freed(map, {u})
     /\ free' = [r \in Resources |-> IF r \in Needs(u) THEN free[r] + 1 ELSE free[r]]
     /\ committed' = u
  /\ rob' = [rob EXCEPT !.first = inc_index(@), !.free = @ + 1]
  /\ count' = count + 1
  /\ UNCHANGED <<prog, knobs, phase, fetch, fe, alloc_q, state, sched, ports, version,
                 srcs, wb_empty>>

\* One store of drain_wb: kept is what stays in the buffer before it.
DrainOne(acc, u) ==
  LET held == /\ knobs.acqrel
              /\ IF prog[u].bar = "rel" THEN acc.kept # <<>> ELSE version_ordering_check(u)
  IN IF ~acc.stop /\ Done(u) /\ ~held THEN acc
     ELSE [kept |-> Append(acc.kept, u), 
           stop |-> \/ acc.stop
                    \/ knobs.fifo /\ (~Done(u) \/ prog[u].bar # "rel")]

Drained == FoldLeft(DrainOne, [kept |-> <<>>, stop |-> FALSE], wb).kept

\* The lowest version of the buffer, in a byte that starts at its largest
\* value; it is handed to update_orq as if it were the number of a uop.
LowestVersion(buf) ==
  LET vs == {255} \cup {version[buf[i]] : i \in DOMAIN buf}
  IN CHOOSE v \in vs : \A w \in vs : v <= w

\* No uop has this number: the largest Counter.
MaxCounter == Len(prog) + 256

RetireEnd ==
  /\ phase = "retire" /\ ~(count < Width /\ Retirable)
  /\ phase' = "schedule" /\ count' = 0
  /\ ports' = [q \in QueueNames |-> 0] /\ sched' = [sched EXCEPT !.pos = 1]
  /\ IF wb = <<>> THEN UNCHANGED <<wb, wb_empty, order, map>>
     ELSE /\ wb' = Drained
          /\ map' = Freed(map, Range(wb) \ Range(Drained))
          /\ wb_empty' = (Drained = <<>>)
          /\ LET age == IF Drained = <<>> THEN MaxCounter ELSE Head(Drained)
             IN order' = [order EXCEPT !.orq =
                            UpdateOrq(UpdateOrq(@, age), LowestVersion(Drained))]
  /\ UNCHANGED <<prog, knobs, committed, fetch, fe, alloc_q, rob, state, free, fences,
                 version, srcs>>

----------------------------------------------------------------------------
(* Scheduling and execution: schedule_c::uop_schedule and exec_c::exec *)

check_srcs(u) == \A s \in srcs[u] : Done(s)

\* m_last_dep_exec points into a source; once that is freed, a younger uop may
\* be in its place, and its done cycle delays u.
Delayed(u) ==
  \E s \in srcs[u] : /\ s <= committed /\ s \notin Range(wb)
                     /\ \E v \in s + 1 .. Len(prog) : state[v] = "exec"

Ready(e) ==
  LET u == rob.at[e] IN
  /\ check_srcs(u)
  /\ ports[QueueOf(u)] < MaxPort[QueueOf(u)]
  /\ ~(knobs.fence /\ IsMem(u) /\ ensure_mem_ordering(e))

\* Executing a fence activates it; without KNOB_ACQ_REL it then waits for the
\* memory operations before it, but has used a port already.
Activated(e) ==
  LET u == rob.at[e] IN
  IF IsFence(u) /\ knobs.fence /\ e \notin Range(fences[FenceList(u)])
  THEN [fences EXCEPT ![FenceList(u)] = Append(@, e)] ELSE fences

FenceWaits(e) ==
  IsFence(rob.at[e]) /\ knobs.fence /\ ~knobs.acqrel /\ pending_mem_ops(e)

IssuedFromGen(u, list, pos, next) ==
  [list |-> list, pos |-> pos, next |-> next, num |-> sched.num - 1,
   per |-> [sched.per EXCEPT !["gen"] = @ - 1]]

\* What a successful uop_schedule leaves of the scheduler's counters, given
\* what the caller does to its list.
Issued(u, list, pos, next) ==
  [list |-> list, pos |-> pos, next |-> next, num |-> sched.num - 1,
   per |-> [sched.per EXCEPT ![QueueOf(u)] = @ - 1]]

\* br_exec: a mispredicted branch lets fetching go on.
RecoveredNever(u) == fetch
Recovered(u) == [fetch EXCEPT !.recovering = @ /\ ~prog[u].mispredicted]

execute(e, after) ==
  LET u == rob.at[e] IN
  /\ Ready(e) /\ ~FenceWaits(e)
  /\ fences' = Activated(e)
  /\ ports' = [ports EXCEPT ![QueueOf(u)] = @ + 1]
  /\ state' = [state EXCEPT ![u] = "exec"]
  /\ fetch' = Recovered(u)
  /\ sched' = after
  /\ count' = count + 1

\* The uop is not ready or delayed, the memory system refuses it, or a fence
\* waits.
fail(e, after) ==
  LET u == rob.at[e] IN
  /\ \/ ~Ready(e) /\ UNCHANGED <<fences, ports>>
     \/ Ready(e) /\ (IsMem(u) \/ Delayed(u)) /\ UNCHANGED <<fences, ports>>
     \/ /\ Ready(e) /\ FenceWaits(e)
        /\ fences' = Activated(e)
        /\ ports' = [ports EXCEPT ![QueueOf(u)] = @ + 1]
  /\ sched' = after
  /\ UNCHANGED <<state, fetch, count>>

----------------------------------------------------------------------------
(* schedule_ooo_c::run_a_cycle: the list is scanned once, a hole is -1 *)

NoEntry == -1
OOOLoop ==
  /\ phase = "schedule" /\ knobs.sched = "ooo"
  /\ sched.num > 0 \/ count > 0
  /\ sched.pos <= Len(sched.list) /\ count < Width

\* The list after its element at pos has been scheduled.
Without(pos) ==
  IF pos = 1 THEN Tail(sched.list) ELSE [sched.list EXCEPT ![pos] = NoEntry]

ScheduleUnchanged ==
  UNCHANGED <<prog, knobs, committed, phase, fe, alloc_q, rob, free, order, version,
              map, srcs, wb, wb_empty>>

OOOIssue ==
  /\ OOOLoop /\ sched.list[sched.pos] # NoEntry
  /\ LET e == sched.list[sched.pos] IN
       execute(e, Issued(rob.at[e], Without(sched.pos),
                         IF sched.pos = 1 THEN 1 ELSE sched.pos + 1, sched.next))
  /\ ScheduleUnchanged

OOOFail ==
  /\ OOOLoop /\ sched.list[sched.pos] # NoEntry
  /\ fail(sched.list[sched.pos], [sched EXCEPT !.pos = @ + 1])
  /\ ScheduleUnchanged

OOOHole ==
  /\ OOOLoop /\ sched.list[sched.pos] = NoEntry
  /\ sched' = IF sched.pos = 1 THEN [sched EXCEPT !.list = Tail(@)]
              ELSE [sched EXCEPT !.pos = @ + 1]
  /\ UNCHANGED <<state, fetch, count, fences, ports>> /\ ScheduleUnchanged

(* schedule_io_c::run_a_cycle: the uop at m_next_inorder_to_schedule only;   *)
(* pos = 0 once it has failed.                                               *)

IOLoop ==
  /\ phase = "schedule" /\ knobs.sched = "io"
  /\ sched.num > 0 \/ count > 0
  /\ sched.pos = 1 /\ count < Width
  /\ LET u == rob.at[sched.next] IN u # 0 /\ state[u] = "sched"

IOIssue ==
  /\ IOLoop
  /\ execute(sched.next, Issued(rob.at[sched.next], Tail(sched.list), 1,
                                inc_index(sched.next)))
  /\ ScheduleUnchanged

IOFail ==
  /\ IOLoop
  /\ fail(sched.next, [sched EXCEPT !.pos = 0])
  /\ ScheduleUnchanged

----------------------------------------------------------------------------
(* schedule_c::advance of every queue, once the loop is over *)

Taken(q, s) ==
  LET room == MaxSched - 1 - Len(s.list)
      limits == {Len(alloc_q[q]), SchedRate[q], SchedSize[q] - s.per[q], room}
  IN CHOOSE n \in limits : \A m \in limits : n <= m

Advanced(s, q) ==
  LET n == Taken(q, s) IN
  [s EXCEPT !.list = @ \o SubSeq(alloc_q[q], 1, n), !.num = @ + n, !.per[q] = @ + n]

advance ==
  /\ phase = "schedule" /\ ~OOOLoop /\ ~IOLoop
  /\ sched' = FoldLeft(Advanced, sched, Queues)
  /\ LET moved(q) == sched'.per[q] - sched.per[q]
         into == {rob.at[alloc_q[q][i]] : <<q, i>> \in
                    {<<q, i>> \in QueueNames \X (1 .. RobSize) : i <= moved(q)}}
     IN /\ alloc_q' = [q \in QueueNames |->
                         SubSeq(alloc_q[q], moved(q) + 1, Len(alloc_q[q]))]
        /\ state' = [u \in AllUops |-> IF u \in into THEN "sched" ELSE state[u]]
  /\ phase' = "allocate" /\ count' = 0
  /\ UNCHANGED <<prog, knobs, committed, fetch, fe, rob, free, ports, fences, order,
                 version, map, srcs, wb, wb_empty>>

----------------------------------------------------------------------------
(* allocate_c::run_a_cycle *)

Allocatable ==
  /\ fe # <<>> /\ rob.free >= 1
  /\ \A r \in Needs(Head(fe)) : free[r] >= 1
  /\ Len(alloc_q[QueueOf(Head(fe))]) < AllocQSize[QueueOf(Head(fe))]

AllocateOne ==
  /\ phase = "allocate" /\ count < Width /\ Allocatable
  /\ LET u == Head(fe) IN
     /\ free' = [r \in Resources |-> IF r \in Needs(u) THEN free[r] - 1 ELSE free[r]]
     /\ alloc_q' = [alloc_q EXCEPT ![QueueOf(u)] = Append(@, rob.last)]
     /\ rob' = [rob EXCEPT !.at[rob.last] = u, !.last = inc_index(@), !.free = @ - 1]
     /\ order' = Versioned(u)
     /\ version' = [version EXCEPT ![u] = MemVersion(u)]
  /\ fe' = Tail(fe) /\ count' = count + 1
  /\ UNCHANGED <<prog, knobs, committed, phase, fetch, state, sched, ports, fences, map,
                 srcs, wb, wb_empty>>

AllocateEnd ==
  /\ phase = "allocate" /\ ~(count < Width /\ Allocatable)
  /\ phase' = "fetch" /\ count' = 0
  /\ UNCHANGED <<prog, knobs, committed, fetch, fe, alloc_q, rob, state, free, sched,
                 ports, fences, order, version, map, srcs, wb, wb_empty>>

----------------------------------------------------------------------------
(* frontend_c::run_a_cycle and process_ifetch; then the cycle is over *)

FetchUnchanged ==
  UNCHANGED <<prog, knobs, committed, count, alloc_q, rob, state, free, sched, ports,
              fences, order, version, wb, wb_empty>>

Fetching == /\ phase = "fetch" /\ fetch.next <= Len(prog)
            /\ FeSize - Len(fe) > FetchWidth

\* The uops one access of the instruction cache yields.
Group ==
  LET limits == {Width, FeSize - Len(fe), Len(prog) - fetch.next + 1}
      n == CHOOSE k \in limits : \A m \in limits : k <= m
  IN [i \in 1 .. n |-> fetch.next + i - 1]

\* One uop of the group: its sources, then the maps with its results.
Renamed(acc, u) ==
  [map |-> MapUop(acc.map, u), srcs |-> [acc.srcs EXCEPT ![u] = SourcesOf(acc.map, u)]]

\* The line is in the cache, or it misses and no MSHR is free: access_icache
\* then reports a hit.  A mispredicted branch does not end the group.
FetchGroup ==
  /\ Fetching /\ fetch.mode = "ifetch" /\ ~fetch.recovering
  /\ fe' = fe \o Group
  /\ LET named == FoldLeft(Renamed, [map |-> map, srcs |-> srcs], Group)
     IN map' = named.map /\ srcs' = named.srcs
  /\ fetch' = [fetch EXCEPT !.next = @ + Len(Group),
                 !.recovering = \E i \in DOMAIN Group : prog[Group[i]].mispredicted]
  /\ phase' = "cycle"
  /\ FetchUnchanged

FetchMiss ==
  /\ Fetching /\ fetch.mode = "ifetch" /\ ~fetch.recovering
  /\ fetch' = [fetch EXCEPT !.missing = TRUE, !.mode = "miss"]
  /\ phase' = "cycle" /\ UNCHANGED <<fe, map, srcs>>
  /\ FetchUnchanged

\* The frontend waits for the line; when it has come, it fetches in the next
\* cycle.
FetchWaits ==
  /\ Fetching /\ fetch.mode = "miss"
  /\ fetch' = [fetch EXCEPT !.mode = IF fetch.missing THEN "miss" ELSE "ifetch"]
  /\ phase' = "cycle" /\ UNCHANGED <<fe, map, srcs>>
  /\ FetchUnchanged

FetchNothing ==
  /\ phase = "fetch"
  /\ ~Fetching \/ (fetch.mode = "ifetch" /\ fetch.recovering)
  /\ phase' = "cycle" /\ UNCHANGED <<fetch, fe, map, srcs>>
  /\ FetchUnchanged

----------------------------------------------------------------------------
Next ==
  \/ \E u \in AllUops : Complete(u)
  \/ FillLine \/ StartCycle
  \/ RetireOne \/ RetireEnd
  \/ OOOIssue \/ OOOFail \/ OOOHole \/ IOIssue \/ IOFail \/ advance
  \/ AllocateOne \/ AllocateEnd
  \/ FetchGroup \/ FetchMiss \/ FetchWaits \/ FetchNothing

Spec == Init /\ [][Next]_vars

\* What a program does a bounded number of times.
Progress == \/ \E u \in AllUops : Complete(u)
            \/ OOOIssue \/ IOIssue \/ FetchGroup

\* The stages run in every cycle; what has executed completes, a missing line
\* comes, and an access that keeps being refused and a fetch that keeps missing
\* succeed in the end (the memory run shows that every access is answered).
Fairness == WF_vars(Next) /\ SF_vars(Progress) /\ SF_vars(FillLine)

FairSpec == Spec /\ Fairness

----------------------------------------------------------------------------
(* Properties *)

InRob == {u \in AllUops : \E i \in DOMAIN RobUops : RobUops[i] = u}
Waiting(q) == {u \in InRob : QueueOf(u) = q /\ state[u] = "new"}
Scheduled(q) == {u \in InRob : QueueOf(u) = q /\ state[u] = "sched"}

\* Reorder buffer, queues and counters agree: the reorder buffer and then the
\* frontend queue hold, in program order, every uop fetched and not committed;
\* a uop of the reorder buffer is in its allocation queue, in the scheduler or
\* executed; each counter of free resources and of scheduler entries
\* (m_num_lb, m_num_sb, m_num_in_sched, m_num_per_sched, m_free_cnt) is exact.
PipelineExact ==
  /\ RobUops \o fe = [i \in 1 .. fetch.next - 1 - committed |-> committed + i]
  /\ rob.last = (rob.first + entries) % (2 * RobSize) /\ rob.free \in 0 .. RobSize
  /\ \A q \in QueueNames :
       /\ {rob.at[e] : e \in Range(alloc_q[q])} = Waiting(q)
       /\ sched.per[q] = Cardinality(Scheduled(q))
  /\ sched.num = Cardinality(UNION {Scheduled(q) : q \in QueueNames})
  /\ \A r \in Resources :
       free[r] + Cardinality({u \in InRob : r \in Needs(u)}) = Capacity[r]
  /\ knobs.sched = "ooo" =>
       {rob.at[e] : e \in Range(sched.list) \ {NoEntry}} =
         UNION {Scheduled(q) : q \in QueueNames}

\* The store map holds no uop that is back in the pool: an address maps to the
\* youngest store fetched for it, as long as that store has not been freed (at
\* retirement, or when it leaves the write buffer), and every uop that waits
\* for an unfinished source waits for one that is still in flight.
StoreMapExact ==
  LET InFlight(u) == u > committed \/ u \in Range(wb)
      StoresTo(a) == {u \in 1 .. fetch.next - 1 : prog[u].type = "ST" /\ prog[u].addr = a}
  IN /\ \A a \in Addresses :
          LET s == {u \in StoresTo(a) : \A v \in StoresTo(a) : v <= u}
          IN map.store[a] = IF \E u \in s : InFlight(u) THEN CHOOSE u \in s : TRUE ELSE 0
     /\ \A u \in InRob : \A v \in srcs[u] : ~Done(v) => InFlight(v)

\* The in-order scheduler issues in program order, although its uops reach it
\* through several queues and the entry it looks at may hold a uop of the
\* previous turn of the reorder buffer: what has executed is a prefix of the
\* reorder buffer, and m_next_inorder_to_schedule is where the prefix ends.
IssuesInOrder ==
  knobs.sched = "io" =>
    \A i \in 1 .. entries :
      Executed(RobUops[i]) <=> i - 1 < RelativeIndex(sched.next)

Tried(f) == \/ Executed(f)
            \/ \E l \in FenceTypes : \E e \in Range(fences[l]) : rob.at[e] = f
Ordered(f) == \A t \in 1 .. f - 1 : IsMem(t) => t <= committed /\ t \notin Range(wb)

\* A fence orders memory (KNOB_FENCE_ENABLE without KNOB_ACQ_REL) once it has been
\* tried: from then on no memory operation after it issues before every memory
\* operation in front of it has retired and left the write buffer.  The in-order
\* scheduler has tried every fence before it comes to what follows it.  The
\* out-of-order one may issue a memory operation while a fence before it still
\* waits for an older uop of its queue; ensure_mem_ordering knows active fences
\* only.
FenceHolds ==
  [][knobs.fence /\ ~knobs.acqrel =>
       \A u \in AllUops : IsMem(u) /\ ~Executed(u) /\ Executed(u)' =>
         \A f \in 1 .. u - 1 : IsFence(f) /\ Tried(f) => Ordered(f)]_vars

\* A fence of the ordering root queue is there from its allocation until it has
\* retired and every store in front of it has left the write buffer; the queue
\* is in program order and its versions grow.
OrqExact ==
  LET Rooted == {f \in AllUops : prog[f].type \in {"FULL", "ACQ"} /\ knobs.fence}
      Kept(f) == f \in InRob \/ (f <= committed /\ \E s \in Range(wb) : s < f)
      nums == {order.orq[i].num : i \in DOMAIN order.orq}
  IN /\ \A f \in Rooted : Kept(f) => f \in nums
     /\ \A i \in DOMAIN order.orq :
          order.orq[i].retired <=> order.orq[i].num <= committed
     /\ \A i, j \in DOMAIN order.orq : i < j =>
          /\ order.orq[i].num < order.orq[j].num
          /\ order.orq[i].version < order.orq[j].version

\* The active fences (fence_c) are entries of fences of the reorder buffer in
\* program order, so the entry del_fence_entry takes off the front when a fence
\* retires is the one of that fence.
ActiveFencesExact ==
  \A t \in FenceTypes :
    /\ \A i, j \in DOMAIN fences[t] :
         i < j => RelativeIndex(fences[t][i]) < RelativeIndex(fences[t][j])
    /\ {rob.at[e] : e \in Range(fences[t])} \subseteq {u \in InRob : IsFence(u)}
    /\ \A u \in InRob : IsFence(u) /\ Executed(u) /\ knobs.fence /\ FenceList(u) = t =>
         \E e \in Range(fences[t]) : rob.at[e] = u

\* The two tables of fences are exact, so the assertions of retirement (a fence
\* is active, retire.cc; its root is known, rob.cc) hold.
FencesExact == OrqExact /\ ActiveFencesExact

\* All the tables that the stages of the core keep of each other's uops agree.
CoreExact == PipelineExact /\ IssuesInOrder /\ FencesExact

\* Commits and stores becoming final follow CommitOrder.
CommitsInOrder == CommitOrderOf!OrderSpec

\* The whole program commits and the write buffer drains.
EveryUopCommits == <>(committed = Len(prog) /\ wb = <<>>)
==============================================================================
