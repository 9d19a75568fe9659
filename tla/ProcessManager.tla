--------------------------- MODULE ProcessManager ---------------------------
(***************************************************************************)
(* The process manager and thread scheduler of the simulator               *)
(* (process_manager.cc), with the parts of core_c, retire_c, trace_read_c  *)
(* and macsim_c that call it: applications are created, each made of one   *)
(* or more kernels; their threads (x86) and warps (GPU) wait in queues,    *)
(* are dispatched to cores, read their traces, terminate, and take their   *)
(* blocks, kernels and applications down with them.                        *)
(*                                                                         *)
(* A handler of the code is a stack of calls, kept in `pending': a step    *)
(* performs the call on top and pushes the calls it makes, so that the     *)
(* scheduler's loops unroll one dispatch per step, in the code's order.    *)
(***************************************************************************)
EXTENDS Integers, Sequences, FiniteSets

CONSTANTS
  NumCores,        \* KNOB_NUM_SIM_CORES
  GpuCores,        \* the cores whose type is ptx or nvbit
  MaxThreads,      \* core_c::get_max_threads_per_core()
  Balanced,        \* KNOB_CORE_THREAD_SCHED is "balanced", not "greedy"
  GreedyInitially, \* KNOB_ASSIGN_BLOCKS_GREEDILY_INITIALLY
  Setups,          \* the trace lists and settings of the other knobs to run
  MaxApps          \* the length of the longest trace list

Cores == 0 .. NumCores - 1
NoBlock == <<>>

(* The x86 loop of sim_thread_schedule comes before the first GPU core.    *)
X86Loop == -1

(* An application is [acc, max_block, kernels], a kernel [length, threads]: *)
(* the length of its main thread's trace and a [block, start] per thread.  *)
Applications ==
  [acc : BOOLEAN, max_block : Nat,
   kernels : Seq([length : Nat, threads : Seq([block : Nat, start : Nat])])]

(* limit: KNOB_MAX_NUM_CORE_PER_APPL, 0 for none; repeat, repeats:         *)
(* KNOB_REPEAT_TRACE, _REPEAT_TRACE_N; max_insts: KNOB_MAX_INSTS; blocks:  *)
(* KNOB_BLOCKS_TO_SIMULATE, 0 for all; cycles, total: KNOB_SIM_CYCLE_COUNT *)
(* is not 0, and KNOB_MAX_INSTS1 is within reach.                          *)
Knobs ==
  [limit : Nat, repeat : BOOLEAN, repeats : Nat, max_insts : Nat,
   blocks : Nat, cycles : BOOLEAN, total : BOOLEAN]

ASSUME PMAssumption ==
  /\ NumCores \in Nat \ {0} /\ GpuCores \subseteq Cores
  /\ MaxThreads \in Nat \ {0}
  /\ {Balanced, GreedyInitially} \subseteq BOOLEAN
  /\ \A s \in Setups : /\ s.apps \in Seq(Applications) /\ s.knobs \in Knobs
                        /\ Len(s.apps) \in 1 .. MaxApps

VARIABLES
  setup,        \* the trace list and the knobs of this simulation
  process,      \* m_sim_processes: process_s of each application
  core,         \* core_c, and the flags macsim_c keeps per core
  blocks,       \* m_block_schedule_info and m_block_queue
  thread_queue, \* m_thread_queue
  core_pool,    \* m_acc_core_pool
  live,         \* the thread_s of the dispatched threads, with their cores
  sim,          \* the counters and flags of macsim_c
  pending       \* the calls still to be made, innermost first

vars == <<setup, process, core, blocks, thread_queue, core_pool, live, sim,
          pending>>

-----------------------------------------------------------------------------
Apps == setup.apps
AppIds == DOMAIN Apps
knobs == setup.knobs
CpuCores == Cores \ GpuCores
NumKernels(a) == Len(Apps[a].kernels)

Least(S) == CHOOSE i \in S : \A j \in S : i <= j

(* The threads of a kernel that are simulated: KNOB_BLOCKS_TO_SIMULATE     *)
(* blocks of as many warps as the first one has.                           *)
ThreadsOf(a, kern) ==
  LET all == kern.threads
      first == {t \in 1 .. Len(all) : \A u \in 1 .. t : all[u].block = 0}
      wanted == knobs.blocks * Cardinality(first)
  IN  IF Apps[a].acc /\ knobs.blocks # 0 /\ wanted < Len(all)
        THEN SubSeq(all, 1, wanted) ELSE all

KernelOf(a, k) ==
  LET kern == Apps[a].kernels[k]
  IN  [kern EXCEPT !.threads = ThreadsOf(a, kern)]

Kernel(a) == KernelOf(a, process[a].kernel)

(* m_block_list of an application holds exactly its blocks in              *)
(* m_block_schedule_info: both gain a block in create_thread_node and lose *)
(* it when the block retires.                                              *)
BlockList(a) == {x \in DOMAIN blocks : x[1] = a}

CallSched(initial) == [op |-> "sched", initial |-> initial, core |-> X86Loop]
CallRetire(t) == [op |-> "retire", thread |-> t]
CallReap(a) == [op |-> "reap", app |-> a]
CallSpawn(a, at) == [op |-> "spawn", app |-> a, at |-> at]
CallCreate(a) == [op |-> "create", app |-> a]

(* Nothing is modelled beyond a core that is initialised under its threads *)
(* (see SetupProcess), nor beyond the end.                                 *)
Over == sim.clobbered \/ sim.finished
Idle == pending = <<>> /\ ~Over
Called(op) == ~Over /\ pending # <<>> /\ Head(pending).op = op
Return(calls) == pending' = calls \o Tail(pending)

(* core_c::init, then add_application                                      *)
FreshCore(c, a) ==
  [c EXCEPT !.appl = a, !.threads = 0, !.blocks = 0, !.fetching = NoBlock,
            !.scheduled = FALSE]

FreshBlock == [total |-> 0, dispatched |-> 0, retired |-> 0,
               started |-> FALSE, on |-> X86Loop, queue |-> {}]

(* insert_block for the warps `tids' of application a                      *)
InsertBlocks(a, kern, tids) ==
  LET of(x) == {t \in tids : <<a, kern.threads[t].block>> = x}
      touched == {<<a, kern.threads[t].block>> : t \in tids}
      old(x) == IF x \in DOMAIN blocks THEN blocks[x] ELSE FreshBlock
  IN  [x \in DOMAIN blocks \cup touched |->
         [old(x) EXCEPT !.total = @ + Cardinality(of(x)),
                        !.queue = @ \cup of(x)]]

(* create_thread_node for each of `tids', the next ones of application a   *)
CreateThreadNodes(a, kern, tids) ==
  /\ IF Apps[a].acc
       THEN /\ blocks' = InsertBlocks(a, kern, tids)
            /\ UNCHANGED thread_queue
       ELSE /\ thread_queue' = thread_queue \o
                 [i \in 1 .. Cardinality(tids) |->
                    [app |-> a, tid |-> Least(tids) + i - 1]]
            /\ UNCHANGED blocks

CountCreated(s, n) == [s EXCEPT !.waiting = @ + n, !.active = @ + n]

(* The threads setup_process creates: the main thread, and the warps up to *)
(* the first that does not start with the kernel.                          *)
FirstThreads(a, kern) ==
  {t \in 1 .. Len(kern.threads) :
     \/ t = 1
     \/ Apps[a].acc /\ \A u \in 2 .. t : kern.threads[u].start = 0}

(* The cores setup_process takes for application a: none for x86.          *)
Taken(a, pool) ==
  IF ~Apps[a].acc THEN 0
  ELSE IF knobs.limit = 0 \/ knobs.limit > Len(pool) THEN Len(pool)
  ELSE knobs.limit

(* setup_process for kernel k of a: take cores from the pool, reinitialise *)
(* them, create the first threads.  The arguments are the process's cores, *)
(* the cores, the pool and the counters on entry.  A core of the pool may  *)
(* run threads of application 0, whose id every core falls back to.  Then  *)
(* init() forgets them: their numbers are those of no thread, or of the    *)
(* next ones (get_trace_info), and what the simulator does is not defined. *)
SetupProcess(a, k, repeat, cores, core_, pool, s) ==
  LET kern == KernelOf(a, k)
      n == Taken(a, pool)
      taken == {pool[i] : i \in 1 .. n}
      tids == FirstThreads(a, kern)
  IN  /\ process' = [process EXCEPT ![a] =
                       [kernel |-> k, created |-> Cardinality(tids),
                        terminated |-> 0, read |-> 0, repeat |-> repeat,
                        cores |-> cores \cup taken]]
      /\ core' = [c \in Cores |-> IF c \in taken THEN FreshCore(core_[c], a)
                                                ELSE core_[c]]
      /\ core_pool' = SubSeq(pool, n + 1, Len(pool))
      /\ CreateThreadNodes(a, kern, tids)
      /\ sim' = [CountCreated(s, Cardinality(tids)) EXCEPT
                   !.clobbered = \E t \in live : t.core \in taken]

-----------------------------------------------------------------------------
NotCreated == [kernel |-> 0, created |-> 0, terminated |-> 0, read |-> 0,
               repeat |-> 0, cores |-> {}]

(* core_c's constructor: application 0, here 1, until one is added         *)
NewCore == [appl |-> 1, threads |-> 0, blocks |-> 0, fetching |-> NoBlock,
            scheduled |-> FALSE, started |-> FALSE, ended |-> FALSE]

Ascending(S) ==
  [i \in 1 .. Cardinality(S) |->
     CHOOSE c \in S : Cardinality({d \in S : d < c}) = i - 1]

Init ==
  /\ setup \in Setups
  /\ process = [a \in AppIds |-> NotCreated]
  /\ core = [c \in Cores |-> NewCore]
  /\ blocks = [x \in {} |-> FreshBlock]
  /\ thread_queue = <<>>
  /\ core_pool = Ascending(GpuCores)
  /\ live = {}
  /\ sim = [waiting |-> 0, active |-> 0, unrepeated |-> 0,
            repeat_done |-> FALSE, finished |-> FALSE, clobbered |-> FALSE,
            expired |-> FALSE, capped |-> FALSE]
  /\ pending = [a \in AppIds |-> CallCreate(a)]

(* open_traces: create_process, then sim_thread_schedule(true)             *)
CreateProcess ==
  /\ Called("create")
  /\ LET a == Head(pending).app
     IN  SetupProcess(a, 1, 0, {}, core, core_pool,
                      [sim EXCEPT !.unrepeated = @ + 1])
  /\ Return(<<CallSched(TRUE)>>)
  /\ UNCHANGED <<setup, live>>

-----------------------------------------------------------------------------
(* sim_thread_schedule                                                     *)

(* get_next_available_core and get_next_low_occupancy_core                 *)
NextCores ==
  LET room == {c \in CpuCores : core[c].threads < MaxThreads}
  IN  IF Balanced
        THEN {c \in room : \A d \in room : core[c].threads <= core[d].threads}
        ELSE room

(* The loop over cores goes on with the first GPU core after `at', if any. *)
NextGpu(at) == {c \in GpuCores : c > at}
LeaveCore ==
  LET next == NextGpu(Head(pending).core)
  IN  Return(IF next = {} THEN <<>>
               ELSE <<[Head(pending) EXCEPT !.core = Least(next)]>>)

(* Mutant: a core that runs nothing yet does not count its first thread.   *)
RunOnUncounted(c, a) ==
  [core[c] EXCEPT !.appl = a, !.threads = IF core[c].started THEN @ + 1 ELSE @,
                  !.scheduled = TRUE, !.started = TRUE, !.ended = FALSE]

(* add_application and create_trace_info on core c, and its flags          *)
RunOn(c, a) ==
  [core[c] EXCEPT !.appl = a, !.threads = @ + 1, !.scheduled = TRUE,
                  !.started = TRUE, !.ended = FALSE]

DispatchThread ==
  /\ Called("sched") /\ Head(pending).core = X86Loop
  /\ NextCores # {} /\ thread_queue # <<>>
  /\ LET c == Least(NextCores)
         t == Head(thread_queue)
     IN  /\ core' = [core EXCEPT ![c] = RunOn(c, t.app)]
         /\ live' = live \cup {[app |-> t.app, tid |-> t.tid, core |-> c]}
  /\ thread_queue' = Tail(thread_queue)
  /\ sim' = [sim EXCEPT !.waiting = @ - 1]
  /\ UNCHANGED <<setup, process, blocks, core_pool, pending>>

LeaveX86Loop ==
  /\ Called("sched") /\ Head(pending).core = X86Loop
  /\ NextCores = {} \/ thread_queue = <<>>
  /\ LeaveCore
  /\ UNCHANGED <<setup, process, core, blocks, thread_queue, core_pool, live,
                 sim>>

(* On the initial call the blocks are dealt round robin over the cores.    *)
DealtTo(x, c) ==
  LET p == process[x[1]]
      min_core_id == IF knobs.limit = 0 THEN 0 ELSE Least(p.cores)
  IN  x[2] % Cardinality(p.cores) = c - min_core_id

NewBlocks(c, initial) ==
  {x \in BlockList(core[c].appl) :
     /\ initial /\ ~GreedyInitially => DealtTo(x, c)
     /\ ~blocks[x].started}

(* Mutant: any block with warps left is as good as the one being fetched.  *)
ScheduleAnyBlock(c, initial) ==
  LET left == {x \in BlockList(core[c].appl) :
                 /\ initial /\ ~GreedyInitially => DealtTo(x, c)
                 /\ blocks[x].queue # {}}
  IN  IF core[c].blocks + 1 > Apps[core[c].appl].max_block \/ left = {}
        THEN NoBlock
      ELSE CHOOSE x \in left : \A y \in left : x[2] <= y[2]

(* Mutant: the limit is tested before the block being fetched is resumed.  *)
ScheduleRoomFirst(c, initial) ==
  LET f == core[c].fetching
      new == NewBlocks(c, initial)
  IN  IF core[c].blocks + 1 > Apps[core[c].appl].max_block THEN NoBlock
      ELSE IF f \in DOMAIN blocks /\ blocks[f].total > blocks[f].dispatched
        THEN f
      ELSE IF new = {} THEN NoBlock
      ELSE CHOOSE x \in new : \A y \in new : x[2] <= y[2]

(* sim_schedule_thread_block: go on with the block being fetched, else the *)
(* first new one, unless the core has all the blocks it may have           *)
ScheduleThreadBlock(c, initial) ==
  LET f == core[c].fetching
      new == NewBlocks(c, initial)
  IN  IF f \in DOMAIN blocks /\ blocks[f].total > blocks[f].dispatched THEN f
      ELSE IF core[c].blocks + 1 > Apps[core[c].appl].max_block \/ new = {}
        THEN NoBlock
      ELSE CHOOSE x \in new : \A y \in new : x[2] <= y[2]

DispatchWarp ==
  /\ Called("sched") /\ Head(pending).core # X86Loop
  /\ LET c == Head(pending).core
         x == ScheduleThreadBlock(c, Head(pending).initial)
         t == Least(blocks[x].queue)
     IN  /\ x # NoBlock
         /\ core' = [core EXCEPT ![c] =
              [RunOn(c, x[1]) EXCEPT
                 !.blocks = IF blocks[x].started THEN @ ELSE @ + 1,
                 !.fetching = x]]
         /\ blocks' = [blocks EXCEPT ![x].dispatched = @ + 1,
                                     ![x].queue = @ \ {t},
                                     ![x].started = TRUE, ![x].on = c]
         /\ live' = live \cup {[app |-> x[1], tid |-> t, core |-> c]}
         /\ IF core[c].threads + 1 = MaxThreads THEN LeaveCore
                                                ELSE UNCHANGED pending
  /\ sim' = [sim EXCEPT !.waiting = @ - 1]
  /\ UNCHANGED <<setup, process, thread_queue, core_pool>>

LeaveGpuCore ==
  /\ Called("sched") /\ Head(pending).core # X86Loop
  /\ ScheduleThreadBlock(Head(pending).core, Head(pending).initial) = NoBlock
  /\ LeaveCore
  /\ UNCHANGED <<setup, process, core, blocks, thread_queue, core_pool, live,
                 sim>>

-----------------------------------------------------------------------------
(* The end of a thread                                                     *)

(* How much of its trace a main thread reads: KNOB_MAX_INSTS instructions, *)
(* also if there are none, or all.                                         *)
ReadLimit(a) ==
  IF Kernel(a).length < knobs.max_insts THEN Kernel(a).length
                                        ELSE knobs.max_insts

Running(c) == core[c].started /\ ~core[c].ended

(* retire_c retires a thread's last uop, or as many instructions as it may *)
(* run: terminate_thread first calls final_heartbeat, which schedules.  A  *)
(* main thread has read its trace so far.                                  *)
Terminate(t) ==
  /\ Idle /\ Running(t.core)
  /\ t.tid = 1 => process[t.app].read = ReadLimit(t.app)
  /\ pending' = <<CallSched(FALSE), CallRetire(t), CallReap(t.app)>>
  /\ UNCHANGED <<setup, process, core, blocks, thread_queue, core_pool, live,
                 sim>>

(* The rest of terminate_thread.  Block ids are not used again, so that a  *)
(* core still fetching a retired block is one that fetches none.           *)
RetireThread ==
  /\ Called("retire")
  /\ LET t == Head(pending).thread
         c == t.core
         x == <<t.app, Kernel(t.app).threads[t.tid].block>>
         over == Apps[t.app].acc /\ blocks[x].retired + 1 = blocks[x].total
     IN  /\ live' = live \ {t}
         /\ process' = [process EXCEPT ![t.app].terminated = @ + 1]
         /\ core' = [d \in Cores |->
              [core[d] EXCEPT
                 !.threads = IF d = c THEN @ - 1 ELSE @,
                 !.blocks = IF d = c /\ over THEN @ - 1 ELSE @,
                 !.fetching = IF over /\ @ = x THEN NoBlock ELSE @]]
         /\ blocks' = IF over
              THEN [y \in DOMAIN blocks \ {x} |-> blocks[y]]
              ELSE IF Apps[t.app].acc
                THEN [blocks EXCEPT ![x].retired = @ + 1]
                ELSE blocks
  /\ sim' = [sim EXCEPT !.active = @ - 1]
  /\ Return(IF sim.waiting > 0 THEN <<CallSched(FALSE)>> ELSE <<>>)
  /\ UNCHANGED <<setup, thread_queue, core_pool>>

(* terminate_process gives the cores back.                                 *)
ReleasedCores(a) ==
  [c \in Cores |-> IF c \in process[a].cores THEN [core[c] EXCEPT !.appl = 1]
                                             ELSE core[c]]
ReleasedPool(a) == core_pool \o Ascending(process[a].cores)

(* How often an application is run before its end counts                   *)
RunsDue(a) ==
  IF knobs.repeat /\ Apps[a].acc /\ knobs.repeats > 0 THEN knobs.repeats ELSE 1

(* update_stats: an application has been run as often as it is due.        *)
CountFinished(a) ==
  LET r == process[a].repeat
      gpu == knobs.repeat /\ r < knobs.repeats /\ Apps[a].acc
      counts == IF gpu THEN r + 1 = knobs.repeats ELSE r = 0
      n == IF counts THEN sim.unrepeated - 1 ELSE sim.unrepeated
  IN  [sim EXCEPT !.unrepeated = n, !.repeat_done = @ \/ n = 0]

(* m_repeat of the next run, which nothing tells apart beyond RunsDue      *)
NextRepeat(a) ==
  IF process[a].repeat < RunsDue(a) THEN process[a].repeat + 1
                                    ELSE process[a].repeat

(* Mutant: the comparison is off by one.                                   *)
AllButOneTerminated(a) == process[a].terminated + 1 >= process[a].created

AllTerminated(a) == process[a].terminated = process[a].created

(* retire_c after terminate_thread: nothing more than a scheduling, ...    *)
NotOver ==
  /\ Called("reap") /\ ~AllTerminated(Head(pending).app)
  /\ Return(<<CallSched(FALSE)>>)
  /\ UNCHANGED <<setup, process, core, blocks, thread_queue, core_pool, live,
                 sim>>

(* The last kernel, or KNOB_MAX_INSTS1 instructions have been retired.     *)
LastKernel(a) == process[a].kernel = NumKernels(a) \/ sim.capped

(* ... or the application's next kernel, ...                               *)
NextKernel ==
  /\ Called("reap")
  /\ LET a == Head(pending).app
     IN  /\ AllTerminated(a) /\ ~LastKernel(a)
         /\ SetupProcess(a, process[a].kernel + 1, process[a].repeat,
                         process[a].cores, core, core_pool, sim)
  /\ Return(<<CallSched(TRUE), CallSched(FALSE)>>)
  /\ UNCHANGED <<setup, live>>

(* ... or the end of the application, which may be run again.              *)
EndApplication ==
  /\ Called("reap")
  /\ LET a == Head(pending).app
     IN  /\ AllTerminated(a) /\ LastKernel(a)
         /\ IF knobs.repeat /\ CountFinished(a).unrepeated > 0
              THEN SetupProcess(a, 1, NextRepeat(a), {}, ReleasedCores(a),
                                ReleasedPool(a), CountFinished(a))
              ELSE /\ process' = [process EXCEPT ![a].cores = {}]
                   /\ core' = ReleasedCores(a)
                   /\ core_pool' = ReleasedPool(a)
                   /\ sim' = CountFinished(a)
                   /\ UNCHANGED <<blocks, thread_queue>>
  /\ Return(<<CallSched(TRUE), CallSched(FALSE)>>)
  /\ UNCHANGED <<setup, live>>

-----------------------------------------------------------------------------
(* read_trace for an instruction of a main thread, which may start others  *)
ReadTrace(a) ==
  /\ Idle /\ \E t \in live : t.app = a /\ t.tid = 1 /\ Running(t.core)
  /\ process[a].read < ReadLimit(a)
  /\ process' = [process EXCEPT ![a].read = @ + 1]
  /\ pending' = <<CallSpawn(a, process[a].created + 1)>>
  /\ UNCHANGED <<setup, core, blocks, thread_queue, core_pool, live, sim>>

(* The loop condition looks at the thread that was next on entry.          *)
StartsNow(a, at) ==
  /\ process[a].created < Len(Kernel(a).threads)
  /\ Kernel(a).threads[at].start \in {process[a].read, 0}

Spawn ==
  /\ Called("spawn")
  /\ LET a == Head(pending).app
     IN  /\ StartsNow(a, Head(pending).at)
         /\ CreateThreadNodes(a, Kernel(a), {process[a].created + 1})
         /\ process' = [process EXCEPT ![a].created = @ + 1]
  /\ sim' = CountCreated(sim, 1)
  /\ pending' = <<CallSched(FALSE)>> \o pending
  /\ UNCHANGED <<setup, core, core_pool, live>>

SpawnNoMore ==
  /\ Called("spawn") /\ ~StartsNow(Head(pending).app, Head(pending).at)
  /\ Return(<<>>)
  /\ UNCHANGED <<setup, process, core, blocks, thread_queue, core_pool, live,
                 sim>>

-----------------------------------------------------------------------------
(* run_a_cycle of the simulator                                            *)

(* Mutant: a core ends as soon as it has run a cycle.                      *)
EndCoreAtOnce(c) ==
  /\ Idle /\ Running(c)
  /\ knobs.max_insts # 0 \/ sim.expired
  /\ core' = [core EXCEPT ![c].ended = TRUE]
  /\ UNCHANGED <<setup, process, blocks, thread_queue, core_pool, live, sim,
                 pending>>

(* A core ends when it has no thread left and nothing waits to be          *)
(* dispatched, when it has no thread left and KNOB_MAX_INSTS is set        *)
(* (m_num_thread_reach_end = m_unique_scheduled_thread_num: each dispatch  *)
(* adds one to the latter and to m_running_thread_num, each end adds one   *)
(* to the former and takes one off), or when its time is over.             *)
EndCore(c) ==
  /\ Idle /\ Running(c)
  /\ \/ core[c].threads = 0 /\ core[c].scheduled /\ sim.waiting = 0
     \/ core[c].threads = 0 /\ knobs.max_insts # 0
     \/ sim.expired
  /\ core' = [core EXCEPT ![c].ended = TRUE]
  /\ UNCHANGED <<setup, process, blocks, thread_queue, core_pool, live, sim,
                 pending>>

(* m_simulation_cycle reaches KNOB_SIM_CYCLE_COUNT.                        *)
Expire ==
  /\ Idle /\ knobs.cycles /\ ~sim.expired
  /\ sim' = [sim EXCEPT !.expired = TRUE]
  /\ UNCHANGED <<setup, process, core, blocks, thread_queue, core_pool, live,
                 pending>>

(* INST_COUNT_TOT reaches KNOB_MAX_INSTS1.                                 *)
ReachTotal ==
  /\ Idle /\ knobs.total /\ ~sim.capped
  /\ sim' = [sim EXCEPT !.capped = TRUE]
  /\ UNCHANGED <<setup, process, core, blocks, thread_queue, core_pool, live,
                 pending>>

Finish ==
  /\ Idle
  /\ sim.active = 0 \/ sim.repeat_done \/ \A c \in Cores : ~Running(c)
  /\ sim' = [sim EXCEPT !.finished = TRUE]
  /\ UNCHANGED <<setup, process, core, blocks, thread_queue, core_pool, live,
                 pending>>

Schedule == DispatchThread \/ LeaveX86Loop \/ DispatchWarp \/ LeaveGpuCore
Reap == NotOver \/ NextKernel \/ EndApplication
Calls == CreateProcess \/ Schedule \/ RetireThread \/ Reap
           \/ Spawn \/ SpawnNoMore

Next ==
  \/ Calls
  \/ \E t \in live : Terminate(t)
  \/ \E a \in AppIds : ReadTrace(a)
  \/ \E c \in Cores : EndCore(c)
  \/ Expire \/ ReachTotal
  \/ Finish

Spec == Init /\ [][Next]_vars

-----------------------------------------------------------------------------
(* The threads that wait to be dispatched, in either kind of queue         *)
Waiting ==
  {thread_queue[i] : i \in DOMAIN thread_queue} \cup
  UNION {{[app |-> x[1], tid |-> t] : t \in blocks[x].queue} :
           x \in DOMAIN blocks}

Thread(t) == [app |-> t.app, tid |-> t.tid]
LiveOn(c) == {t \in live : t.core = c}
LiveOf(x) == {t \in live : /\ t.app = x[1]
                           /\ Kernel(t.app).threads[t.tid].block = x[2]}
StartedOn(c) == {x \in DOMAIN blocks : blocks[x].started /\ blocks[x].on = c}

(* The shape of the manager's state.                                       *)
TypeOK ==
  /\ \A a \in AppIds :
       /\ process[a].kernel \in 0 .. NumKernels(a)
       /\ {process[a].created, process[a].terminated, process[a].read}
            \subseteq Nat
       /\ process[a].repeat \in 0 .. RunsDue(a)
       /\ process[a].cores \subseteq Cores
  /\ \A c \in Cores :
       /\ core[c].appl \in AppIds
       /\ {core[c].threads, core[c].blocks} \subseteq Nat
       /\ core[c].fetching \in DOMAIN blocks \cup {NoBlock}
       /\ {core[c].scheduled, core[c].started, core[c].ended}
            \subseteq BOOLEAN
  /\ \A x \in DOMAIN blocks : x[1] \in AppIds
  /\ core_pool \in Seq(GpuCores)
  /\ \A t \in live : t.app \in AppIds /\ t.core \in Cores
  /\ {sim.waiting, sim.active, sim.unrepeated} \subseteq Nat
  /\ {sim.repeat_done, sim.finished, sim.clobbered, sim.expired, sim.capped}
       \subseteq BOOLEAN

(* The counters by which cores are filled and the simulation is ended say  *)
(* what they count: m_running_thread_num the live threads of a core,       *)
(* m_running_block_num the blocks dispatched to it,                        *)
(* m_num_waiting_dispatched_threads the queued threads, and                *)
(* m_num_active_threads these and the live ones.  sim_thread_schedule,     *)
(* which reads them, fills no GPU core beyond the blocks its application   *)
(* may have there, and no x86 core beyond its threads.  All this up to the *)
(* moment setup_process initialises a core that runs threads, which only   *)
(* threads of application 0 on a core it does not own can be.              *)
CountersExact ==
  /\ TypeOK
  /\ sim.waiting = Cardinality(Waiting)
  /\ sim.active = sim.waiting + Cardinality(live)
  /\ ~sim.clobbered =>
       /\ \A c \in GpuCores : \A x \in StartedOn(c) :
            core[c].blocks <= Apps[x[1]].max_block
       /\ \A c \in CpuCores : core[c].threads <= MaxThreads
       /\ \A c \in Cores :
            /\ core[c].threads = Cardinality(LiveOn(c))
            /\ core[c].blocks = Cardinality(StartedOn(c))
  /\ sim.clobbered =>
       \A t \in live : \A a \in AppIds \ {t.app} :
         t.core \in process[a].cores => t.app = 1

(* No thread is lost or run twice: those created and not yet terminated    *)
(* are exactly those that wait in a queue or live on one core.             *)
ThreadsConserved ==
  /\ \A s, t \in live : Thread(s) = Thread(t) => s = t
  /\ \A t \in live : Thread(t) \notin Waiting
  /\ \A a \in AppIds :
       process[a].created - process[a].terminated =
         Cardinality({t \in live : t.app = a}) +
         Cardinality({t \in Waiting : t.app = a})

(* The warps of a block are together: they are dispatched to the core its  *)
(* first warp went to, and the block is kept until its last warp retires.  *)
BlocksTogether ==
  \A x \in DOMAIN blocks :
    /\ blocks[x].total = blocks[x].dispatched + Cardinality(blocks[x].queue)
    /\ blocks[x].dispatched = blocks[x].retired + Cardinality(LiveOf(x))
    /\ \A t \in LiveOf(x) : t.core = blocks[x].on

(* An application has been run to its end as often as it is due.           *)
Completed(a) ==
  \/ process[a].repeat >= RunsDue(a)
  \/ /\ process[a].repeat + 1 = RunsDue(a)
     /\ process[a].kernel = NumKernels(a) /\ AllTerminated(a)

(* A GPU application that was created, or became due, when the pool was    *)
(* empty: without KNOB_MAX_NUM_CORE_PER_APPL the first one takes all cores.*)
Starved(a) ==
  Apps[a].acc /\ process[a].cores = {} /\ ~Completed(a) /\ process[a].kernel > 0

(* A warp that came when its block had been started and its core had gone  *)
(* on to another block: no core fetches the block any more.                *)
Stranded(a) ==
  \E x \in BlockList(a) : /\ blocks[x].started /\ blocks[x].queue # {}
                          /\ \A c \in Cores : core[c].fetching # x

(* The knobs that cut a simulation short have done so, or a core was       *)
(* initialised under its threads.                                          *)
CutShort == sim.expired \/ sim.capped \/ sim.clobbered

(* The simulation ends only when every application has been run to its     *)
(* end ("until all applications finish", knob.tex:123), and as often as    *)
(* KNOB_REPEAT_TRACE_N says: although a core may end while threads wait,   *)
(* some core goes on as long as an application that owns cores does.  Left *)
(* over are only an application that never owned one and a warp that came  *)
(* too late for its block.                                                 *)
EndsAfterAll ==
  sim.finished /\ ~CutShort =>
    \A a \in AppIds : Completed(a) \/ Starved(a) \/ Stranded(a)

(* A thread of application a reads or retires.                             *)
Advance(a) == ReadTrace(a) \/ \E t \in live : t.app = a /\ Terminate(t)

(* The simulator runs on, and each of its cycles runs the cores of every   *)
(* application and ends those whose time is over.  Fairness is strong      *)
(* because the calls one application makes keep the others from a step     *)
(* until they have returned.                                               *)
Fairness ==
  /\ WF_vars(Next)
  /\ \A a \in 1 .. MaxApps : SF_vars(a \in AppIds /\ Advance(a))
  /\ \A c \in Cores : SF_vars(sim.expired /\ EndCore(c))

LiveSpec == Spec /\ Fairness

(* Every application is eventually run to its end, and then the simulator  *)
(* stops: no thread waits for ever for a core of its application.  It also *)
(* stops when its time is over.  What may go on for ever is the repetition *)
(* of the others while an application owns no core or a warp has come too  *)
(* late for its block.                                                     *)
SimulationEnds ==
  \/ <>(sim.finished /\ \A a \in AppIds : Completed(a))
  \/ <>(CutShort /\ Over)
  \/ <>[](\E a \in AppIds : Starved(a) \/ Stranded(a))

=============================================================================
