------------------------------- MODULE GpuCore -------------------------------
(***************************************************************************)
(* The pipeline of a GPU core: fetch among warps (frontend.cc), barriers   *)
(* (frontend.cc, retire.cc, trace_read_gpu.cc), allocation (allocate_smc), *)
(* the reorder buffers that warps borrow (rob_smc.cc), the warp schedulers *)
(* (schedule_smc.cc) and the retirement of many warps (retire.cc), in the  *)
(* order of core_c::run_a_cycle.                                           *)
(*                                                                         *)
(* A thread of the code is a warp, numbered in the order it is given to    *)
(* the core; a uop is the pair of its warp and its place in the warp's     *)
(* trace.  Time is abstracted as in CpuCore, and so are the indices of a   *)
(* reorder buffer; the process manager that hands out warps is in          *)
(* ProcessManager.  KNOB_GPU_SCHEDULE_RATIO and KNOB_GPU_FETCH_RATIO are 1 *)
(* here: a slower scheduler or fetch is a longer time.  The warps of a     *)
(* block have the same number of barriers, as the traces of a kernel do.   *)
(***************************************************************************)
EXTENDS Integers, Sequences, FiniteSets, SequencesExt

CONSTANTS
  Setups,         \* sequences of warps, with the values of the knobs
  Width,          \* KNOB_WIDTH
  FetchWidth,     \* KNOB_FETCH_WIDTH
  FeSize,         \* KNOB_FE_SIZE
  AllocQSize,     \* KNOB_GIAQ_SIZE
  RobSize,        \* KNOB_ROB_SIZE
  Capacity,       \* KNOB_LB_SIZE, KNOB_SB_SIZE, KNOB_INT_REGFILE_SIZE, _FP_REGFILE_SIZE
  SchedSize,      \* KNOB_ISCHED_SIZE
  SchedRate,      \* KNOB_ISCHED_RATE
  MaxPort,        \* execution ports
  MaxSched,       \* m_schlist_size
  MaxThreads,     \* KNOB_MAX_THREADS_PER_CORE
  RetireWidth,    \* uops retired per cycle: 1000
  NumSchedulers   \* KNOB_NUM_WARP_SCHEDULER

Resources == {"lb", "sb", "int", "fp"}
Robs == 0 .. MaxThreads - 1

\* KNOB_RETIRE_WIDTH 1000 is more than the warps a core can hold: retirement
\* looks at every warp that is ready.
ASSUME GpuAssumption ==
  /\ {Width, FetchWidth, FeSize, AllocQSize, RobSize, SchedSize, SchedRate, MaxPort,
      MaxSched, MaxThreads, NumSchedulers} \subseteq Nat \ {0}
  /\ FetchWidth < FeSize
  /\ Capacity \in [Resources -> Nat \ {0}]
  /\ RetireWidth > MaxThreads

VARIABLES
  warps,        \* the traces: block and uops of each warp
  knobs,        \* KNOB_MT_NO_FETCH_BR, _FETCH_ONLY_LOAD_READY, _NO_FETCH_ON_ICACHE_MISS
  phase,        \* the stage of the cycle that runs next
  count,        \* the counter of that stage's loop
  unique,       \* m_unique_scheduled_thread_num
  last_term,    \* m_last_terminated_tid
  fetching,     \* m_fetching_thread_num
  fetch,        \* fetch data of each warp
  arbiter,      \* m_fetch_arbiter and m_last_fetch_tid_failed
  prev_tid,     \* prev_fetched_tid of the fetch loop
  sync,         \* m_sync_info: barriers of a block that have retired, -1: no entry
  sync_done,    \* m_sync_done
  fe,           \* m_q_frontend
  alloc_q,      \* m_gpu_q_iaq of the general queue
  rob,          \* m_thread_robs: the uops of each reorder buffer, oldest first
  rob_of,       \* m_thread_to_rob_map, -1: no entry
  free_robs,    \* m_free_list
  ready,        \* m_uop_list, from uop_list_index on
  retired,      \* uops retired of each warp
  state,        \* progress of each uop
  free,         \* resource_c
  sched,        \* the schedule list and what its loops keep
  ports         \* m_port_used

traceVars == <<warps, knobs>>
fetchVars == <<fetching, fetch, arbiter, prev_tid>>
syncVars == <<sync, sync_done>>
robVars == <<rob, rob_of, free_robs>>
vars == <<traceVars, phase, count, unique, last_term, fetchVars, syncVars, fe, alloc_q,
          robVars, ready, retired, state, free, sched, ports>>

----------------------------------------------------------------------------
(* Warps and uops *)

Warps == 0 .. Len(warps) - 1
Uops(w) == warps[w + 1].uops
Block(w) == warps[w + 1].block
Blocks == {Block(w) : w \in Warps}
BlockSize(b) == Cardinality({w \in Warps : Block(w) = b})
Type(u) == Uops(u[1])[u[2]].type
Done(u) == state[u[1]][u[2]] = "done"
Finished(w) == retired[w] = Len(Uops(w))

Needs(u) == CASE Type(u) = "ld" -> {"lb"} [] Type(u) = "st" -> {"sb"}
              [] Type(u) = "iadd" -> {"int"} [] Type(u) = "fadd" -> {"fp"} [] OTHER -> {}
IsMem(u) == Type(u) \in {"ld", "st"}

\* frontend_s::init
NewFetch == [next |-> 1, ended |-> FALSE, mode |-> "ifetch", missing |-> FALSE,
             filled |-> {}, blocked |-> FALSE, br |-> FALSE, loads |-> {},
             recovering |-> FALSE]

Init ==
  /\ \E s \in Setups : warps = s.warps /\ knobs = s.knobs
  /\ phase = "cycle" /\ count = 0 /\ last_term = 0
  /\ unique = IF Len(warps) < MaxThreads THEN Len(warps) ELSE MaxThreads
  /\ fetching = unique
  /\ fetch = [w \in Warps |-> NewFetch]
  /\ arbiter = [tid |-> 0, failed |-> FALSE] /\ prev_tid = -1
  /\ sync = [b \in Blocks |-> -1] /\ sync_done = <<>>
  /\ fe = <<>> /\ alloc_q = <<>>
  /\ rob = [r \in Robs |-> <<>>]
  /\ rob_of = [w \in Warps |-> IF w < unique THEN w ELSE -1]
  /\ free_robs = [i \in 1 .. MaxThreads - unique |-> unique + i - 1]
  /\ ready = <<>> /\ retired = [w \in Warps |-> 0]
  /\ state = [w \in Warps |-> [i \in DOMAIN Uops(w) |-> "new"]]
  /\ free = Capacity
  /\ sched = [list |-> <<>>, num |-> 0, tried |-> {}, next |-> 0, busy |-> {}]
  /\ ports = 0

----------------------------------------------------------------------------
(* Between two cycles *)

\* The done cycle of a uop is reached; a load that its warp waits for is
\* taken off by set_load_ready.
Complete(u) ==
  /\ phase = "cycle" /\ state[u[1]][u[2]] = "exec"
  /\ state' = [state EXCEPT ![u[1]][u[2]] = "done"]
  /\ fetch' = [fetch EXCEPT ![u[1]].loads = @ \ {u[2]}]
  /\ UNCHANGED <<traceVars, phase, count, unique, last_term, fetching, arbiter, prev_tid,
                 syncVars, fe, alloc_q, robVars, ready, retired, free, sched, ports>>

FillLine(w) ==
  /\ phase = "cycle" /\ fetch[w].missing
  /\ fetch' = [fetch EXCEPT ![w].missing = FALSE, ![w].filled = @ \cup {fetch[w].next}]
  /\ UNCHANGED <<traceVars, phase, count, unique, last_term, fetching, arbiter, prev_tid,
                 syncVars, fe, alloc_q, robVars, ready, retired, state, free, sched, ports>>

\* The dispatch latency of a scheduler, or of the special function unit, is over.
DispatchFree ==
  /\ phase = "cycle"
  /\ \E x \in sched.busy : sched' = [sched EXCEPT !.busy = @ \ {x}]
  /\ UNCHANGED <<traceVars, phase, count, unique, last_term, fetchVars, syncVars, fe,
                 alloc_q, robVars, ready, retired, state, free, ports>>

\* get_n_uops_in_ready_order, at the start of retirement: the oldest uop of
\* every warp, if it is done, in whatever order the hash table of the warps has.
StartCycle ==
  LET fronts == {w \in Warps : rob_of[w] # -1 /\ rob[rob_of[w]] # <<>>
                               /\ Done(<<w, Head(rob[rob_of[w]])>>)}
  IN /\ phase = "cycle" /\ phase' = "retire"
     /\ \E order \in SetToSeqs(fronts) :
          ready' = ready \o [i \in DOMAIN order |-> <<order[i], Head(rob[rob_of[order[i]]])>>]
     /\ UNCHANGED <<traceVars, count, unique, last_term, fetchVars, syncVars, fe, alloc_q,
                    robVars, retired, state, free, sched, ports>>

----------------------------------------------------------------------------
(* Retirement *)

SynchedDispatched(u) ==
  LET b == Block(u[1])
      size == Cardinality({w \in 0 .. unique - 1 : Block(w) = b})
  IN IF Type(u) # "bar" THEN [sync |-> sync, done |-> sync_done]
     ELSE [sync |-> [sync EXCEPT ![b] = @ + 1],
           done |-> IF sync[b] + 1 = size THEN Append(sync_done, b) ELSE sync_done]

\* synch_thread: a barrier has retired; the warps of a block that have not been
\* dispatched yet count too.
Synched(u) ==
  LET b == Block(u[1]) IN
  IF Type(u) # "bar" THEN [sync |-> sync, done |-> sync_done]
  ELSE [sync |-> [sync EXCEPT ![b] = @ + 1],
        done |-> IF sync[b] + 1 = BlockSize(b) THEN Append(sync_done, b) ELSE sync_done]

RobFreedByTid(w) == Append(free_robs, w)

\* free_rob puts the buffer of a warp that ends at the back of the free list;
\* then the next warp, if there is one, takes a buffer from its front
\* (reserve_rob), emptied.
RobFreed(w) == Append(free_robs, rob_of[w])

\* All warps below it have ended.
LastTerminated(done) ==
  CHOOSE t \in last_term .. unique :
    /\ \A w \in last_term .. t - 1 : w \in done
    /\ t = unique \/ t \notin done

RetireOne ==
  /\ phase = "retire" /\ ready # <<>> /\ count < RetireWidth
  /\ LET u == Head(ready)
         w == u[1]
         ends == u[2] = Len(Uops(w))
         more == ends /\ unique < Len(warps)
         popped == [rob EXCEPT ![rob_of[w]] = Tail(@)]
         new == Head(RobFreed(w))
     IN /\ retired' = [retired EXCEPT ![w] = u[2]]
        /\ sync' = Synched(u).sync /\ sync_done' = Synched(u).done
        /\ last_term' = IF ends
                        THEN LastTerminated({v \in Warps : v = w \/ Finished(v)})
                        ELSE last_term
        /\ unique' = IF more THEN unique + 1 ELSE unique
        /\ fetching' = IF more THEN fetching + 1 ELSE fetching
        /\ rob' = IF more THEN [popped EXCEPT ![new] = <<>>] ELSE popped
        /\ rob_of' = [v \in Warps |-> IF ends /\ v = w THEN -1
                                      ELSE IF more /\ v = unique THEN new ELSE rob_of[v]]
        /\ free_robs' = IF more THEN Tail(RobFreed(w))
                        ELSE IF ends THEN RobFreed(w) ELSE free_robs
        /\ free' = [r \in Resources |-> IF r \in Needs(u) THEN free[r] + 1 ELSE free[r]]
  /\ ready' = Tail(ready) /\ count' = count + 1
  /\ UNCHANGED <<traceVars, phase, fetch, arbiter, prev_tid, fe, alloc_q, state, sched,
                 ports>>

RetireEnd ==
  /\ phase = "retire" /\ ~(ready # <<>> /\ count < RetireWidth)
  /\ phase' = "schedule" /\ count' = 0 /\ ports' = 0
  /\ UNCHANGED <<traceVars, unique, last_term, fetchVars, syncVars, fe, alloc_q, robVars,
                 ready, retired, state, free, sched>>

----------------------------------------------------------------------------
(* The warp schedulers: schedule_smc_c::run_a_cycle, uop_schedule_smc *)

NoEntry == <<-1, -1>>
SFU == NumSchedulers   \* the special function unit, beside the schedulers

\* The scheduler whose turn it is in the loop.
Scheduler == (sched.next + count) % NumSchedulers

\* A scan drops the holes it meets at the front of the list.
Scanned ==
  LET holes == {i \in DOMAIN sched.list : \A j \in 1 .. i : sched.list[j] = NoEntry}
  IN IF sched.num = 0 THEN sched.list
     ELSE SubSeq(sched.list, Cardinality(holes) + 1, Len(sched.list))

\* The first uop of a warp of this scheduler that has not been tried yet.
Candidates ==
  {i \in DOMAIN Scanned : /\ Scanned[i] # NoEntry
                          /\ Scanned[i][1] % NumSchedulers = Scheduler
                          /\ Scanned[i][1] \notin sched.tried}
CandidateLast == CHOOSE i \in Candidates : \A j \in Candidates : i >= j
Candidate == CHOOSE i \in Candidates : \A j \in Candidates : i <= j

Scanning == /\ phase = "schedule" /\ count < NumSchedulers
            /\ Scheduler \notin sched.busy /\ sched.num > 0 /\ Candidates # {}

check_srcs_smc(u) == \A d \in Uops(u[1])[u[2]].deps : Done(<<u[1], d>>)

\* As in CpuCore: a source that is back in the pool may delay its reader.
Delayed(u) == /\ \E d \in Uops(u[1])[u[2]].deps : d <= retired[u[1]]
              /\ \E w \in Warps : \E i \in DOMAIN Uops(w) : state[w][i] = "exec"

Ready(u) == /\ ~(Type(u) = "sfu" /\ SFU \in sched.busy)
            /\ check_srcs_smc(u) /\ ports < MaxPort

\* exec and br_exec: a branch lets its warp fetch on; a load that misses makes
\* it wait (KNOB_FETCH_ONLY_LOAD_READY).
Executed(u) ==
  IF Type(u) = "br" THEN [fetch EXCEPT ![u[1]].br = FALSE, ![u[1]].recovering = FALSE]
  ELSE IF Type(u) = "ld" /\ Uops(u[1])[u[2]].far /\ knobs.loads
       THEN [fetch EXCEPT ![u[1]].loads = @ \cup {u[2]}]
       ELSE fetch

\* A scheduler issues one uop; the list keeps a hole where it was, unless it
\* was at the front.
Issue ==
  /\ Scanning
  /\ LET u == Scanned[Candidate] IN
     /\ Ready(u)
     /\ sched' = [sched EXCEPT !.num = @ - 1, !.tried = @ \cup {u[1]},
                    !.list = IF Candidate = 1 THEN Tail(Scanned)
                             ELSE [Scanned EXCEPT ![Candidate] = NoEntry],
                    !.busy = @ \cup {IF Type(u) = "sfu" THEN SFU ELSE Scheduler}]
     /\ state' = [state EXCEPT ![u[1]][u[2]] = "exec"]
     /\ fetch' = Executed(u)
  /\ ports' = ports + 1 /\ count' = count + 1
  /\ UNCHANGED <<traceVars, phase, unique, last_term, fetching, arbiter, prev_tid, syncVars,
                 fe, alloc_q, robVars, ready, retired, free>>

\* An operand or a port is missing, or the memory refuses the access: no other
\* uop of the warp is tried in this cycle.
IssueFails ==
  /\ Scanning
  /\ LET u == Scanned[Candidate] IN
     /\ ~Ready(u) \/ IsMem(u) \/ Delayed(u)
     /\ sched' = [sched EXCEPT !.list = Scanned, !.tried = @ \cup {u[1]}]
  /\ UNCHANGED <<traceVars, phase, count, unique, last_term, fetchVars, syncVars, fe,
                 alloc_q, robVars, ready, retired, state, free, ports>>

\* The scheduler is busy, or has nothing left to try.
NextScheduler ==
  /\ phase = "schedule" /\ count < NumSchedulers /\ ~Scanning
  /\ sched' = IF Scheduler \in sched.busy THEN sched ELSE [sched EXCEPT !.list = Scanned]
  /\ count' = count + 1
  /\ UNCHANGED <<traceVars, phase, unique, last_term, fetchVars, syncVars, fe, alloc_q,
                 robVars, ready, retired, state, free, ports>>

Least(s) == CHOOSE n \in s : \A m \in s : n <= m

\* From the allocation queue to the schedule list.
advance ==
  /\ phase = "schedule" /\ count = NumSchedulers
  /\ LET n == Least({Len(alloc_q), SchedRate, SchedSize - sched.num,
                     MaxSched - 1 - Len(sched.list)})
         moved == SubSeq(alloc_q, 1, n)
     IN /\ sched' = [sched EXCEPT !.list = @ \o moved, !.num = @ + n, !.tried = {},
                       !.next = (@ + 1) % NumSchedulers]
        /\ alloc_q' = SubSeq(alloc_q, n + 1, Len(alloc_q))
        /\ state' = [w \in Warps |-> [i \in DOMAIN Uops(w) |->
                       IF <<w, i>> \in Range(moved) THEN "sched" ELSE state[w][i]]]
  /\ phase' = "allocate" /\ count' = 0
  /\ UNCHANGED <<traceVars, unique, last_term, fetchVars, syncVars, fe, robVars, ready,
                 retired, free, ports>>

----------------------------------------------------------------------------
(* smc_allocate_c::run_a_cycle *)

Allocatable ==
  /\ fe # <<>> /\ Len(rob[rob_of[Head(fe)[1]]]) < RobSize /\ Len(alloc_q) < AllocQSize
  /\ \A r \in Needs(Head(fe)) : free[r] >= 1

AllocateOne ==
  /\ phase = "allocate" /\ count < Width /\ Allocatable
  /\ LET u == Head(fe) IN
     /\ free' = [r \in Resources |-> IF r \in Needs(u) THEN free[r] - 1 ELSE free[r]]
     /\ alloc_q' = Append(alloc_q, u)
     /\ rob' = [rob EXCEPT ![rob_of[u[1]]] = Append(@, u[2])]
  /\ fe' = Tail(fe) /\ count' = count + 1
  /\ UNCHANGED <<traceVars, phase, unique, last_term, fetchVars, syncVars, rob_of, free_robs,
                 ready, retired, state, sched, ports>>

AllocateEnd ==
  /\ phase = "allocate" /\ ~(count < Width /\ Allocatable)
  /\ phase' = "fetch" /\ count' = 0 /\ prev_tid' = -1
  /\ UNCHANGED <<traceVars, unique, last_term, fetching, fetch, arbiter, syncVars, fe,
                 alloc_q, robVars, ready, retired, state, free, sched, ports>>

----------------------------------------------------------------------------
(* frontend_c::run_a_cycle, fetch_rr and process_ifetch *)

\* Not ended, not at a barrier, and waiting for nothing that a policy names.
Fetchable(w) ==
  /\ ~fetch[w].ended /\ ~Finished(w) /\ ~fetch[w].blocked
  /\ ~(knobs.miss /\ fetch[w].missing)
  /\ ~(knobs.br /\ fetch[w].br)
  /\ ~(knobs.loads /\ fetch[w].loads # {})

\* The arbiter after a look at one warp: it moves on, unless the last fetch
\* failed, and skips the warps that have ended.
NextArbiter(a) ==
  LET moved == IF a.failed THEN a.tid ELSE IF a.tid + 1 = unique THEN 0 ELSE a.tid + 1
  IN [tid |-> IF moved < last_term THEN last_term ELSE moved, failed |-> FALSE]

\* The first warp from the arbiter on that can be fetched, or -1, and the
\* arbiter then.
fetch_rr ==
  LET max_try == unique - last_term
      at[k \in 0 .. max_try] == IF k = 0 THEN arbiter ELSE NextArbiter(at[k - 1])
      tid(k) == at[k - 1].tid % unique
      hits == {k \in 1 .. max_try : Fetchable(tid(k))}
  IN IF hits = {} THEN [tid |-> -1, arbiter |-> at[max_try]]
     ELSE [tid |-> tid(Least(hits)), arbiter |-> at[Least(hits)]]

Group(w) ==
  [i \in 1 .. Least({Width, FeSize - Len(fe), Len(Uops(w)) - fetch[w].next + 1}) |->
     <<w, fetch[w].next + i - 1>>]

HasType(g, t) == \E i \in DOMAIN g : Type(g[i]) = t

\* A barrier blocks the warp and makes an entry for its block, if it has none;
\* neither it nor a branch ends the group.
Fetched(w) ==
  LET g == Group(w) IN
  [fetch EXCEPT ![w].next = @ + Len(g),
                ![w].ended = g[Len(g)][2] = Len(Uops(w)),
                ![w].blocked = HasType(g, "bar"),
                ![w].br = HasType(g, "br") /\ knobs.br,
                ![w].recovering = HasType(g, "br") /\ ~knobs.br]

FetchLoop == phase = "fetch" /\ fetching > 0 /\ count < NumSchedulers
Space == FeSize - Len(fe) > FetchWidth
Stops(w) == w = -1 \/ w = prev_tid

FetchRound(w) ==
  /\ count' = count + 1 /\ prev_tid' = w
  /\ UNCHANGED <<traceVars, phase, unique, last_term, sync_done, alloc_q, robVars, ready,
                 retired, state, free, sched, ports>>

\* The line is in the cache, or it misses and no MSHR is free: access_icache
\* then reports a hit.
FetchGroup ==
  /\ FetchLoop /\ Space
  /\ LET w == fetch_rr.tid IN
     /\ ~Stops(w) /\ fetch[w].mode = "ifetch" /\ ~fetch[w].recovering
     /\ fe' = fe \o Group(w)
     /\ fetch' = Fetched(w)
     /\ fetching' = IF Fetched(w)[w].ended THEN fetching - 1 ELSE fetching
     /\ sync' = IF HasType(Group(w), "bar") /\ sync[Block(w)] = -1
                THEN [sync EXCEPT ![Block(w)] = 0] ELSE sync
     /\ FetchRound(w)
  /\ arbiter' = fetch_rr.arbiter

FetchMiss ==
  /\ FetchLoop /\ Space
  /\ LET w == fetch_rr.tid IN
     /\ ~Stops(w) /\ fetch[w].mode = "ifetch" /\ ~fetch[w].recovering
     /\ Uops(w)[fetch[w].next].miss /\ fetch[w].next \notin fetch[w].filled
     /\ fetch' = [fetch EXCEPT ![w].missing = TRUE, ![w].mode = "miss"]
     /\ FetchRound(w)
  /\ arbiter' = fetch_rr.arbiter
  /\ UNCHANGED <<fe, fetching, sync>>

\* The warp waits for a branch or a line, or the queue has no space: then the
\* arbiter is told that this warp failed.
FetchWaits ==
  /\ FetchLoop
  /\ LET w == fetch_rr.tid IN
     /\ ~Stops(w)
     /\ Space => fetch[w].mode = "miss" \/ fetch[w].recovering
     /\ fetch' = [fetch EXCEPT ![w].mode = IF Space /\ ~fetch[w].missing THEN "ifetch" ELSE @]
     /\ FetchRound(w)
  /\ arbiter' = IF Space THEN fetch_rr.arbiter ELSE [fetch_rr.arbiter EXCEPT !.failed = TRUE]
  /\ UNCHANGED <<fe, fetching, sync>>

ReleasedAfterFirst == {w \in last_term + 1 .. unique - 1 :
                         /\ ~fetch[w].ended /\ ~Finished(w)
                         /\ Block(w) \in Range(sync_done)}

\* Warps of the blocks in sync_done that still fetch.
Released == {w \in last_term .. unique - 1 : /\ ~fetch[w].ended /\ ~Finished(w)
                                             /\ Block(w) \in Range(sync_done)}

\* The loop is over; unless no warp fetches any more, the blocks whose warps
\* have all retired their barrier go on.
FetchEnd ==
  /\ phase = "fetch"
  /\ \/ fetching = 0 /\ UNCHANGED <<arbiter, fetch, syncVars>>
     \/ /\ fetching > 0 /\ (count = NumSchedulers \/ Stops(fetch_rr.tid))
        /\ arbiter' = IF count = NumSchedulers THEN arbiter ELSE fetch_rr.arbiter
        /\ fetch' = [w \in Warps |-> IF w \in Released
                                     THEN [fetch[w] EXCEPT !.blocked = FALSE] ELSE fetch[w]]
        /\ sync' = [b \in Blocks |-> IF b \in Range(sync_done) THEN -1 ELSE sync[b]]
        /\ sync_done' = <<>>
  /\ phase' = "cycle" /\ count' = 0
  /\ UNCHANGED <<traceVars, unique, last_term, fetching, prev_tid, fe, alloc_q, robVars,
                 ready, retired, state, free, sched, ports>>

----------------------------------------------------------------------------
AllUops == UNION {{<<w, i>> : i \in DOMAIN Uops(w)} : w \in Warps}

Next ==
  \/ \E u \in AllUops : Complete(u)
  \/ \E w \in Warps : FillLine(w)
  \/ DispatchFree \/ StartCycle
  \/ RetireOne \/ RetireEnd
  \/ Issue \/ IssueFails \/ NextScheduler \/ advance
  \/ AllocateOne \/ AllocateEnd
  \/ FetchGroup \/ FetchMiss \/ FetchWaits \/ FetchEnd

Spec == Init /\ [][Next]_vars

\* What a trace does a bounded number of times.
Progress == \/ \E u \in AllUops : Complete(u)
            \/ Issue \/ FetchGroup

\* The stages run in every cycle; what has executed completes, a missing line
\* comes, the dispatch latencies pass, and an access that keeps being refused
\* succeeds in the end (the memory run shows that every access is answered).
Fairness == /\ WF_vars(Next) /\ SF_vars(Progress) /\ SF_vars(DispatchFree)
            /\ SF_vars(\E w \in Warps : FillLine(w))

FairSpec == Spec /\ Fairness

----------------------------------------------------------------------------
(* Properties *)

Running == {w \in Warps : w < unique /\ ~Finished(w)}
InRob(w) == rob[rob_of[w]]
In(s) == {u \in AllUops : u[1] \in Running /\ u[2] \in Range(InRob(u[1])) /\ state[u[1]][u[2]] = s}
OfWarp(q, w) == SelectSeq(q, LAMBDA u : u[1] = w)
Indices(q) == [i \in DOMAIN q |-> q[i][2]]

\* The reorder buffers are lent out exactly (reserve_rob, free_rob): each is on
\* the free list once or belongs to one running warp.  The buffer of a running
\* warp and then the frontend queue hold, in order, the uops of the warp that
\* were fetched and have not retired, whoever had the buffer before; the
\* allocation queue and the schedule list hold what they should and each
\* counter (m_num_in_sched, those of resource_c, m_fetching_thread_num) is exact.
WarpsExact ==
  /\ \A w \in Warps : rob_of[w] # -1 <=> w \in Running
  /\ \A r \in Robs : Cardinality({i \in DOMAIN free_robs : free_robs[i] = r})
                     + Cardinality({w \in Running : rob_of[w] = r}) = 1
  /\ \A w \in Running : InRob(w) \o Indices(OfWarp(fe, w))
                        = [i \in 1 .. fetch[w].next - 1 - retired[w] |-> retired[w] + i]
  /\ Range(alloc_q) = In("new") /\ Range(sched.list) \ {NoEntry} = In("sched")
  /\ sched.num = Cardinality(In("sched"))
  /\ fetching = Cardinality({w \in Running : ~fetch[w].ended})
  /\ \A r \in Resources :
       LET held == In("new") \cup In("sched") \cup In("exec") \cup In("done")
       IN free[r] + Cardinality({u \in held : r \in Needs(u)}) = Capacity[r]

\* "instructions within a thread must be scheduled inorder" (schedule_smc.cc):
\* whatever fails, and however the schedulers take turns, no uop of a warp
\* executes before an older one.
WarpsIssueInOrder ==
  \A w \in Warps : \A i \in DOMAIN Uops(w) : \A j \in 1 .. i - 1 :
    state[w][i] \in {"exec", "done"} => state[w][j] \in {"exec", "done"}

Barriers(w, n) == Cardinality({i \in 1 .. n : Type(<<w, i>>) = "bar"})
\* Barriers that lie before the youngest uop fetched.
Passed(w) == Barriers(w, fetch[w].next - 2)

\* A barrier holds: no warp has fetched a uop after its n-th barrier unless
\* every warp of its block, dispatched or not, has retired n barriers.
BarrierHolds ==
  \A w \in Warps : \A v \in {v \in Warps : Block(v) = Block(w)} :
    Passed(w) <= Barriers(v, retired[v])

\* Every warp of the grid is dispatched, passes its barriers and retires its
\* last uop.
EveryWarpFinishes == <>(\A w \in Warps : Finished(w))
==============================================================================
