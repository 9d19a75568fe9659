---------------------------- MODULE MemHierarchy ----------------------------
(***************************************************************************)
(* The memory hierarchy (memory.cc): the data caches dcu_c of the four     *)
(* levels with their input, output, fill, write-back and retry queues, the *)
(* miss status registers (MSHRs) of memory_c, and the two ends of the      *)
(* hierarchy they call: the completion functions of the pipeline           *)
(* (dcache_fill_line_wrapper, icache_fill_line_wrapper,                    *)
(* dcache_write_ack_wrapper) and the memory controller's queue.  The       *)
(* wiring is the one of the policies llc_decoupled_network,                *)
(* l2_decoupled_network and igpu_network, which differ in the levels that  *)
(* are disabled.                                                           *)
(*                                                                         *)
(* One action is what one iteration of a queue's loop does with one        *)
(* request.  When a request is ready (m_rdy_cycle), which requests a cycle *)
(* reaches (at most four a queue, highest priority first) and whether a    *)
(* bank's port is taken only decide when a request moves, and a request    *)
(* may move or wait in every step here; a call that fails is a step not    *)
(* taken.  The victim of an insertion is any line of the cache.            *)
(***************************************************************************)
EXTENDS Integers, Sequences, FiniteSets, Bags, SequencesExt

CONSTANTS
  NumCores,     \* KNOB_NUM_SIM_CORES
  Lines,        \* the cache lines in use; address 0 is not one of them
  Disabled,     \* the levels whose caches the policy disables
  MSHRSize,     \* KNOB_MEM_MSHR_SIZE
  InSize,       \* size of the input queue of a level (1024 in dcu_c)
  FillSize, WbSize, OutSize,  \* of the other queues (1024 and 2048)
  Ways,         \* lines a cache of a level holds
  DramSize,     \* KNOB_DRAM_BUFFER_SIZE
  Uops,         \* the accesses the cores make, each once
  UopCore, UopLine, UopKind,
  After,        \* accesses that must be complete before one is made
  MaxHeap,      \* bound: heap-allocated requests at a time
  MaxRetry      \* bound: entries of a retry queue

Cores == 0 .. NumCores - 1
Kinds == {"load", "store", "gpu_store", "ifetch", "sw_prefetch", "hw_prefetch"}

ASSUME MemAssumption ==
  /\ NumCores \in Nat \ {0} /\ MSHRSize \in Nat \ {0}
  /\ IsFiniteSet(Lines) /\ IsFiniteSet(Uops)
  /\ Disabled \subseteq 1 .. 4
  /\ InSize \in [2 .. 4 -> Nat \ {0}] /\ Ways \in [1 .. 4 -> Nat \ {0}]
  /\ {FillSize, WbSize, OutSize, DramSize} \subseteq Nat \ {0}
  /\ UopCore \in [Uops -> Cores] /\ UopLine \in [Uops -> Lines]
  /\ UopKind \in [Uops -> Kinds] /\ After \in [Uops -> SUBSET Uops]
  /\ MaxHeap \in Nat /\ MaxRetry \in Nat

VARIABLES
  req,            \* the fields of each request
  mshr,           \* m_mshr: per core, the entries in use, oldest first
  mshr_free,      \* m_mshr_free_list
  queue,          \* what each queue of each unit holds, as a bag
  cache,          \* state of every line in every cache
  uop,            \* progress of the accesses
  stop_prefetch   \* m_stop_prefetch > m_cycle

vars == <<req, mshr, mshr_free, queue, cache, uop, stop_prefetch>>

-----------------------------------------------------------------------------
(* A unit is <<level, id>>: L1 and L2 are private, one tile of L3 and of   *)
(* the LLC, one memory controller.                                         *)
L1(c) == <<1, c>>
L2(c) == <<2, c>>
L3 == <<3, 0>>
LLC == <<4, 0>>
MC == <<5, 0>>
Caches == {L1(c) : c \in Cores} \cup {L2(c) : c \in Cores} \cup {L3, LLC}
Units == Caches \cup {MC}
Level(u) == u[1]

(* net_in and net_fill are what the network holds for the unit: new        *)
(* requests, and fills and write-backs.                                    *)
QueueNames == {"in", "out", "fill", "wb", "retry", "net_in", "net_fill", "dram"}

Entries == Cores \X (1 .. MSHRSize)
(* Requests made with new or taken from m_mem_req_pool.                    *)
Heap == {NumCores} \X (1 .. MaxHeap)
Requests == Entries \cup Heap
None == <<>>

Types == {"NONE", "IFETCH", "DFETCH", "DSTORE", "DPRF", "WB"}
States == {"INV", "NEW", "MERGED", "OUT_NEW", "OUT_FILL", "OUT_WB",
           "FILL_NEW", "FILL_WAIT_DONE", "FILL_WAIT_FILL"}

\* mem_req_s::init
InitReq == [type |-> "NONE", core |-> 0, line |-> None, state |-> "INV",
            done_func |-> "none", uop |-> None, merged |-> None, on |-> None]

IsPrefetch(x) == UopKind[x] \in {"sw_prefetch", "hw_prefetch"}

TypeOf(x) == CASE UopKind[x] = "load" -> "DFETCH"
               [] UopKind[x] \in {"store", "gpu_store"} -> "DSTORE"
               [] UopKind[x] = "ifetch" -> "IFETCH"
               [] IsPrefetch(x) -> "DPRF"

DoneFuncOf(x) == CASE UopKind[x] \in {"load", "store", "sw_prefetch"} -> "dcache"
                   [] UopKind[x] = "ifetch" -> "icache"
                   [] UopKind[x] = "gpu_store" -> "write_ack"
                   [] UopKind[x] = "hw_prefetch" -> "none"

Init ==
    /\ req = [r \in Requests |-> InitReq]
    /\ mshr = [c \in Cores |-> <<>>]
    /\ mshr_free = [c \in Cores |-> [i \in 1 .. MSHRSize |-> <<c, i>>]]
    /\ queue = [u \in Units |-> [n \in QueueNames |-> EmptyBag]]
    /\ cache = [u \in Caches |-> [l \in Lines |-> "absent"]]
    /\ uop = [x \in Uops |-> "idle"]
    /\ stop_prefetch = FALSE

-----------------------------------------------------------------------------
(* queue_c.  push adds one occurrence, pop removes all of them.            *)
Size(u, n) == CASE n = "in" -> InSize[Level(u)]
                [] n = "fill" -> FillSize
                [] n = "wb" -> WbSize
                [] n = "out" -> OutSize
                [] n = "dram" -> DramSize

In(r, u, n) == BagIn(r, queue[u][n])
Without(b, S) == [x \in DOMAIN b \ S |-> b[x]]

full(u, n) == BagCardinality(queue[u][n]) = Size(u, n)

Push(Q, u, n, r) == [Q EXCEPT ![u][n] = @ (+) SetToBag({r})]
Pop(Q, u, n, r) == [Q EXCEPT ![u][n] = Without(@, {r})]
PopOne(Q, u, n, r) == [Q EXCEPT ![u][n] = @ (-) SetToBag({r})]

Move(r, u, m, v, n) == Push(Pop(queue, u, m, r), v, n, r)

(* The request's fields after it is pushed to queue n of u in state s.     *)
Pushed(r, u, n, s) == [req EXCEPT ![r].state = s, ![r].on = <<u, n>>]

FreeHeap == {h \in Heap : req[h].type = "NONE"}

Active == {r \in Requests : req[r].type # "NONE"}
Merge(r) == {m \in Active : req[m].merged = r}
Root(r) ==
    LET root[m \in Requests] ==
          IF req[m].merged = None THEN m ELSE root[req[m].merged]
    IN  root[r]

-----------------------------------------------------------------------------
(* cache_c                                                                 *)
Holds(u, l) == Level(u) \notin Disabled /\ cache[u][l] # "absent"

Valid(u) == {l \in Lines : cache[u][l] # "absent"}

\* find_replacement_line: an unused entry if there is one, else any line
Victims(u) == IF Cardinality(Valid(u)) < Ways[Level(u)] THEN {None} ELSE Valid(u)

\* the line l, unless it is there, takes the place of line v
Filled(u, l, v, dirty) ==
    [k \in Lines |-> IF k = l
                     THEN IF dirty \/ cache[u][l] = "dirty" THEN "dirty" ELSE "clean"
                     ELSE IF k = v THEN "absent" ELSE cache[u][k]]

(* Insertion of the line of request r in the cache of unit u, as done() at *)
(* L1 and process_fill_queue() at the other levels: C, Q and R are the     *)
(* caches, queues and requests but for the line and for the write-back of  *)
(* a dirty victim.  No step depends on the core a write-back carries.      *)
InsertLine(u, r, C, Q, R) ==
    LET l == req[r].line  dirty == req[r].type = "WB"
    IN  IF Level(u) \in Disabled
        THEN cache' = C /\ queue' = Q /\ req' = R
        ELSE \E v \in IF Holds(u, l) THEN {None} ELSE Victims(u) :
               /\ cache' = [C EXCEPT ![u] = Filled(u, l, v, dirty)]
               /\ IF v # None /\ cache[u][v] = "dirty"
                  THEN \E w \in FreeHeap :
                         /\ \A h \in FreeHeap : w[2] <= h[2]
                         /\ queue' = Push(Q, u, "wb", w)
                         /\ req' = [R EXCEPT ![w] =
                                      [InitReq EXCEPT !.type = "WB", !.line = v,
                                         !.core = req[r].core, !.state = "NEW",
                                         !.on = <<u, "wb">>]]
                  ELSE queue' = Q /\ req' = R

-----------------------------------------------------------------------------
(* memory_c: the MSHRs                                                     *)

\* A mutant of FreeReqs: the entry is not taken out of m_mshr.
FreeReqsKept(S) ==
    LET of(c) == {r \in S \cap Entries : req[r].core = c}
    IN  /\ mshr' = mshr
        /\ mshr_free' = [c \in Cores |-> mshr_free[c] \o SetToSeq(of(c))]

\* free_req of the requests S; those of the heap are deleted
FreeReqs(S) ==
    LET of(c) == {r \in S \cap Entries : req[r].core = c}
    IN  /\ mshr' = [c \in Cores |-> SelectSeq(mshr[c], LAMBDA r : r \notin of(c))]
        /\ mshr_free' = [c \in Cores |-> mshr_free[c] \o SetToSeq(of(c))]

\* search_req over the cores in order: the oldest entry for the line
Matching(l) ==
    LET at(c) == SelectInSeq(mshr[c], LAMBDA r : req[r].line = l)
        found == {c \in Cores : at(c) # 0}
    IN  IF found = {} THEN None
        ELSE LET c == CHOOSE c \in found : \A d \in found : c <= d IN mshr[c][at(c)]

\* Mutant of Flushed: a prefetch on the network is flushed too.
FlushedAnywhere(c) == {r \in Range(mshr[c]) : req[r].type = "DPRF" /\ Merge(r) = {}}

(* flush_prefetch: the prefetches of core c that are in a queue_c.         *)
Flushed(c) == {r \in Range(mshr[c]) : /\ req[r].type = "DPRF"
                                      /\ Merge(r) = {}
                                      /\ req[r].on # None}

NewReq(x) == [InitReq EXCEPT !.type = TypeOf(x), !.core = UopCore[x],
                !.line = UopLine[x], !.state = "NEW", !.done_func = DoneFuncOf(x),
                !.uop = IF IsPrefetch(x) THEN None ELSE x]

\* the access needs nothing more: it hit, was dropped or is a prefetch
Issued(x) == uop' = [uop EXCEPT ![x] = IF IsPrefetch(x) THEN "done" ELSE "waiting"]

\* a prefetch that is blocked, or that a request in flight makes redundant
DropPrefetch(x) ==
    /\ IsPrefetch(x)
    /\ stop_prefetch \/ Matching(UopLine[x]) # None
    /\ Issued(x)
    /\ UNCHANGED <<req, mshr, mshr_free, queue, stop_prefetch>>

\* Mutant of Promote: the request keeps the prefetch's empty uop.
PromoteOnlyType(x) ==
    LET r == Matching(UopLine[x])
    IN  /\ ~IsPrefetch(x) /\ UopKind[x] # "gpu_store"
        /\ r # None
        /\ req[r].type = "DPRF"
        /\ req' = [req EXCEPT ![r].type = TypeOf(x), ![r].core = UopCore[x]]
        /\ Issued(x)
        /\ UNCHANGED <<mshr, mshr_free, queue, stop_prefetch>>

\* adjust_req: a demand takes over the prefetch in flight for its line
Promote(x) ==
    LET r == Matching(UopLine[x])
    IN  /\ ~IsPrefetch(x) /\ UopKind[x] # "gpu_store"
        /\ r # None
        /\ req[r].type = "DPRF"
        /\ req' = [req EXCEPT ![r] = [NewReq(x) EXCEPT !.state = req[r].state,
                                                       !.on = req[r].on]]
        /\ Issued(x)
        /\ UNCHANGED <<mshr, mshr_free, queue, stop_prefetch>>

(* The rest of new_mem_req.  A full input queue or MSHR stops prefetching  *)
(* and flushes the core's prefetches; a demand then takes an MSHR entry or *)
(* is refused, a prefetch is dropped; what is not merged goes to the input *)
(* queue of L2, or to its retry queue.                                     *)
Allocate(x) ==
    LET c == UopCore[x]
        match == IF UopKind[x] = "gpu_store" THEN None ELSE Matching(UopLine[x])
        fullq == full(L2(c), "in")
        nofree == UopKind[x] # "gpu_store" /\ mshr_free[c] = <<>>
        F == IF fullq \/ nofree THEN Flushed(c) ELSE {}
        Q == [u \in Units |-> [n \in QueueNames |->
                Without(queue[u][n], {r \in F : req[r].on = <<u, n>>})]]
        stillfull == BagCardinality(Q[L2(c)]["in"]) = Size(L2(c), "in")
        R == [r \in Requests |-> IF r \in F THEN InitReq ELSE req[r]]
        freed == mshr_free[c] \o SetToSeq(F)
        used == SelectSeq(mshr[c], LAMBDA r : r \notin F)
        \* the request e is filled in, then merged or inserted
        Enter(e) ==
          IF match # None
          THEN /\ req' = [R EXCEPT ![e] = [NewReq(x) EXCEPT !.state = "MERGED",
                                                            !.merged = match]]
               /\ queue' = Q
          ELSE IF stillfull
          THEN req' = [R EXCEPT ![e] = NewReq(x)] /\ queue' = Push(Q, L2(c), "retry", e)
          ELSE /\ req' = [R EXCEPT ![e] = [NewReq(x) EXCEPT !.on = <<L2(c), "in">>]]
               /\ queue' = Push(Q, L2(c), "in", e)
        Refused ==
          /\ req' = R /\ queue' = Q
          /\ mshr' = [mshr EXCEPT ![c] = used]
          /\ mshr_free' = [mshr_free EXCEPT ![c] = freed]
    IN  /\ ~(IsPrefetch(x) /\ (stop_prefetch \/ match # None))
        /\ ~(match # None /\ req[match].type = "DPRF")
        /\ stop_prefetch' = (stop_prefetch \/ fullq \/ nofree)
        /\ IF UopKind[x] = "gpu_store"
           THEN /\ \E e \in FreeHeap : Enter(e) /\ \A h \in FreeHeap : e[2] <= h[2]
                /\ mshr' = [mshr EXCEPT ![c] = used]
                /\ mshr_free' = [mshr_free EXCEPT ![c] = freed]
                /\ Issued(x)
           ELSE IF IsPrefetch(x) /\ ((fullq /\ stillfull) \/ (nofree /\ ~fullq))
           THEN Refused /\ Issued(x)
           ELSE IF freed = <<>>
           THEN Refused /\ UNCHANGED uop
           ELSE LET m == Last(freed)
                IN  /\ Enter(m)
                    /\ mshr' = [mshr EXCEPT ![c] = Append(used, m)]
                    /\ mshr_free' = [mshr_free EXCEPT ![c] = Front(freed)]
                    /\ Issued(x)

new_mem_req(x) == DropPrefetch(x) \/ Promote(x) \/ Allocate(x)

(* dcu_c::access at L1, frontend_c::access_icache and hwp_common_c's       *)
(* request queue, which do not look at L1.                                 *)
Access(x) ==
    LET l1 == L1(UopCore[x])
        hit == UopKind[x] \notin {"ifetch", "hw_prefetch"} /\ Holds(l1, UopLine[x])
    IN  /\ uop[x] = "idle"
        /\ \A z \in After[x] : uop[z] = "done"
        /\ \/ /\ hit => UopKind[x] = "gpu_store"
              /\ cache' = IF hit THEN [cache EXCEPT ![l1][UopLine[x]] = "absent"] ELSE cache
              /\ new_mem_req(x)
           \/ /\ hit /\ UopKind[x] # "gpu_store"
              /\ cache' = IF UopKind[x] = "store"
                          THEN [cache EXCEPT ![l1][UopLine[x]] = "dirty"] ELSE cache
              /\ uop' = [uop EXCEPT ![x] = "done"]
              /\ UNCHANGED <<req, mshr, mshr_free, queue, stop_prefetch>>

StopPrefetchEnds ==
    /\ stop_prefetch
    /\ stop_prefetch' = FALSE
    /\ UNCHANGED <<req, mshr, mshr_free, queue, cache, uop>>

-----------------------------------------------------------------------------
(* Completion at L2, the level with m_done.  done_func first completes the *)
(* merged requests, innermost first, each of which may fail and be tried   *)
(* again later, and the request itself when none of them is left.          *)

\* L2 of core c calls done_func of request r: it hits, or has been filled
Completing(r, c) ==
    \/ In(r, L2(c), "in") /\ Holds(L2(c), req[r].line)
    \/ /\ In(r, L2(c), "fill") /\ ~full(L2(c), "wb")
       /\ req[r].state = "FILL_WAIT_DONE"

\* a store that hits in unit u makes the line dirty
Touched(u, r) ==
    IF req[r].type = "DSTORE" /\ In(r, u, "in")
    THEN [cache EXCEPT ![u][req[r].line] = "dirty"] ELSE cache

\* done(), write_done() or icache_fill_line() for r, and free_req
Finish(r, C, Q) ==
    LET l1 == L1(req[r].core)
        R == [req EXCEPT ![r] = InitReq]
    IN  /\ FreeReqs({r})
        /\ uop' = IF req[r].uop = None THEN uop ELSE [uop EXCEPT ![req[r].uop] = "done"]
        /\ IF req[r].done_func = "dcache"
           THEN ~full(l1, "wb") /\ InsertLine(l1, r, C, Q, R)
           ELSE cache' = C /\ queue' = Q /\ req' = R
        /\ UNCHANGED stop_prefetch

\* a merged request is completed when its root is
FinishMerged(m, c) ==
    LET r == Root(m)
    IN  /\ m \in Active /\ req[m].merged # None
        /\ Merge(m) = {}
        /\ Completing(r, c)
        /\ Finish(m, Touched(L2(c), r), queue)

FinishRequest(r, c) ==
    /\ Completing(r, c)
    /\ Merge(r) = {}
    /\ Finish(r, Touched(L2(c), r), Pop(Pop(queue, L2(c), "in", r), L2(c), "fill", r))

\* icache_fill_line_wrapper wakes the fetch even if a merged request failed
WakeFetch(m, c) ==
    /\ m \in Active /\ req[m].done_func = "icache"
    /\ uop[req[m].uop] = "waiting"
    /\ Merge(m) # {}
    /\ Completing(Root(m), c)
    /\ uop' = [uop EXCEPT ![req[m].uop] = "done"]
    /\ UNCHANGED <<req, mshr, mshr_free, queue, cache, stop_prefetch>>

-----------------------------------------------------------------------------
(* The queues of a cache                                                   *)

\* run_a_cycle: a request of the retry queue enters the input queue
RetryInsert(u, r) ==
    /\ In(r, u, "retry")
    /\ ~full(u, "in")
    /\ queue' = Push(PopOne(queue, u, "retry", r), u, "in", r)
    /\ req' = [req EXCEPT ![r].on = <<u, "in">>]
    /\ UNCHANGED <<mshr, mshr_free, cache, uop, stop_prefetch>>

\* process_in_queue but for the completions: misses, and hits below L2
ProcessIn(u, r) ==
    LET hit == Holds(u, req[r].line)
    IN  /\ In(r, u, "in")
        /\ ~(hit /\ Level(u) = 2)
        /\ ~full(u, "out")
        /\ queue' = Move(r, u, "in", u, "out")
        /\ req' = Pushed(r, u, "out", IF hit THEN "OUT_FILL" ELSE "OUT_NEW")
        /\ cache' = IF hit THEN Touched(u, r) ELSE cache
        /\ UNCHANGED <<mshr, mshr_free, uop, stop_prefetch>>

\* Mutant of Dest: a fill is addressed to its sender.
DestLooping(u, r, dir) ==
    CASE dir = -1 -> u
      [] dir = 1 /\ Level(u) = 2 -> L3
      [] dir = 1 /\ Level(u) = 3 -> LLC
      [] dir = 1 /\ Level(u) = 4 -> MC

\* the unit a message of request r goes to from u, dir levels further down
Dest(u, r, dir) ==
    CASE Level(u) + dir = 2 -> L2(req[r].core)
      [] Level(u) + dir = 3 -> L3
      [] Level(u) + dir = 4 -> LLC
      [] Level(u) + dir = 5 -> MC

\* process_out_queue and send_packet
ProcessOut(u, r) ==
    /\ In(r, u, "out")
    /\ queue' = CASE req[r].state = "OUT_NEW" -> Move(r, u, "out", Dest(u, r, 1), "net_in")
                  [] req[r].state = "OUT_FILL" -> Move(r, u, "out", Dest(u, r, -1), "net_fill")
                  [] req[r].state = "OUT_WB" -> Move(r, u, "out", Dest(u, r, 1), "net_fill")
    /\ req' = [req EXCEPT ![r].on = None]
    /\ UNCHANGED <<mshr, mshr_free, cache, uop, stop_prefetch>>

(* receive_packet.  A packet is taken from the network when the queue      *)
(* accepts it; insert() also puts a rejected request in the retry queue.   *)
ReceiveNew(u, r) ==
    /\ u # MC
    /\ In(r, u, "net_in")
    /\ IF ~full(u, "in")
       THEN /\ queue' = Push(PopOne(queue, u, "net_in", r), u, "in", r)
            /\ req' = [req EXCEPT ![r].on = <<u, "in">>]
       ELSE /\ BagCardinality(queue[u]["retry"]) < MaxRetry
            /\ queue' = Push(queue, u, "retry", r)
            /\ UNCHANGED req
    /\ UNCHANGED <<mshr, mshr_free, cache, uop, stop_prefetch>>

ReceiveFill(u, r) ==
    /\ u # MC
    /\ In(r, u, "net_fill")
    /\ ~full(u, "fill")
    /\ queue' = Push(PopOne(queue, u, "net_fill", r), u, "fill", r)
    /\ req' = Pushed(r, u, "fill", "FILL_NEW")
    /\ UNCHANGED <<mshr, mshr_free, cache, uop, stop_prefetch>>

(* process_fill_queue, a request in state MEM_FILL_NEW: its line enters    *)
(* the cache; a write-back, and at L2 a request with no done_func, ends    *)
(* here; at L2 the others wait for done_func; elsewhere they are sent up.  *)
(* L2 calls done_func at once, and again in later cycles when a port or a  *)
(* queue of L1 refused it: each call is a step of Finish, the first too.   *)
ProcessFill(u, r) ==
    LET ends == req[r].type = "WB" \/ (Level(u) = 2 /\ req[r].done_func = "none")
    IN  /\ In(r, u, "fill") /\ req[r].state = "FILL_NEW"
        /\ ~full(u, "wb")
        /\ IF ends
           THEN FreeReqs({r}) /\ InsertLine(u, r, cache, Pop(queue, u, "fill", r),
                                         [req EXCEPT ![r] = InitReq])
           ELSE /\ UNCHANGED <<mshr, mshr_free>>
                /\ IF Level(u) = 2
                   THEN InsertLine(u, r, cache, queue,
                                   [req EXCEPT ![r].state = "FILL_WAIT_DONE"])
                   ELSE IF full(u, "out")
                   THEN InsertLine(u, r, cache, queue,
                                   [req EXCEPT ![r].state = "FILL_WAIT_FILL"])
                   ELSE InsertLine(u, r, cache, Move(r, u, "fill", u, "out"),
                                   Pushed(r, u, "out", "OUT_FILL"))
        /\ UNCHANGED <<uop, stop_prefetch>>

\* process_fill_queue, a request in state MEM_FILL_WAIT_FILL
SendFill(u, r) ==
    /\ In(r, u, "fill") /\ req[r].state = "FILL_WAIT_FILL"
    /\ ~full(u, "wb") /\ ~full(u, "out")
    /\ queue' = Move(r, u, "fill", u, "out")
    /\ req' = Pushed(r, u, "out", "OUT_FILL")
    /\ UNCHANGED <<mshr, mshr_free, cache, uop, stop_prefetch>>

\* process_wb_queue: L1 hands over to L2, the others send a message
ProcessWb(u, r) ==
    LET v == IF Level(u) = 1 THEN L2(u[2]) ELSE u
        n == IF Level(u) = 1 THEN "fill" ELSE "out"
    IN  /\ In(r, u, "wb")
        /\ ~full(v, n)
        /\ queue' = Move(r, u, "wb", v, n)
        /\ req' = Pushed(r, v, n, IF Level(u) = 1 THEN "FILL_NEW" ELSE "OUT_WB")
        /\ UNCHANGED <<mshr, mshr_free, cache, uop, stop_prefetch>>

-----------------------------------------------------------------------------
(* The memory controller: its request buffer, without timing.              *)

(* dram_ctrl_c::receive and insert_new_req: a full buffer drops its        *)
(* prefetches but the one that is being served, if it is one.              *)
DramReceive(r, n) ==
    LET pref == {p \in DOMAIN queue[MC]["dram"] : req[p].type = "DPRF"}
    IN  /\ In(r, MC, n)
        /\ \E served \in pref \cup {None} :
             LET F == IF full(MC, "dram") THEN pref \ {served} ELSE {}
             IN  /\ full(MC, "dram") => F # {}
                 /\ queue' = [PopOne(queue, MC, n, r) EXCEPT
                               ![MC]["dram"] = Without(@, F) (+) SetToBag({r})]
                 /\ req' = [p \in Requests |-> IF p \in F THEN InitReq ELSE req[p]]
                 /\ FreeReqs(F)
        /\ UNCHANGED <<cache, uop, stop_prefetch>>

\* bank_schedule_complete and send
DramDone(r) ==
    /\ In(r, MC, "dram")
    /\ IF req[r].type = "WB"
       THEN queue' = Pop(queue, MC, "dram", r) /\ req' = [req EXCEPT ![r] = InitReq]
       ELSE queue' = Move(r, MC, "dram", LLC, "net_fill") /\ UNCHANGED req
    /\ UNCHANGED <<mshr, mshr_free, cache, uop, stop_prefetch>>

-----------------------------------------------------------------------------
\* every access made, nothing in flight
Idle ==
    /\ \A x \in Uops : uop[x] = "done"
    /\ Active = {}
    /\ UNCHANGED vars

CacheStep(u, r) ==
    \/ RetryInsert(u, r) \/ ProcessIn(u, r) \/ ProcessOut(u, r)
    \/ ReceiveNew(u, r) \/ ReceiveFill(u, r)
    \/ ProcessFill(u, r) \/ SendFill(u, r) \/ ProcessWb(u, r)

Step(r) ==
    \/ \E u \in Caches : CacheStep(u, r)
    \/ \E c \in Cores : FinishMerged(r, c) \/ FinishRequest(r, c)
    \/ \E n \in {"net_in", "net_fill"} : DramReceive(r, n)
    \/ DramDone(r)

Next ==
    \/ \E x \in Uops : Access(x)
    \/ \E r \in Requests : Step(r)
    \/ \E r \in Entries, c \in Cores : WakeFetch(r, c)
    \/ StopPrefetchEnds
    \/ Idle

Spec == Init /\ [][Next]_vars

(* Every unit runs every cycle and tries the requests of its queues: while *)
(* some request can move, one does.                                        *)
FairSpec == Spec /\ WF_vars(\E r \in Requests : Step(r))

-----------------------------------------------------------------------------
\* every variable has its type
TypeOK ==
    /\ req \in [Requests -> [type : Types, core : Cores, line : Lines \cup {None},
                             state : States,
                             done_func : {"none", "dcache", "icache", "write_ack"},
                             uop : Uops \cup {None}, merged : Entries \cup {None},
                             on : (Units \X QueueNames) \cup {None}]]
    /\ \A c \in Cores : mshr[c] \in Seq(Entries) /\ mshr_free[c] \in Seq(Entries)
    /\ \A u \in Units, n \in QueueNames : IsABag(queue[u][n]) /\ DOMAIN queue[u][n] \subseteq Requests
    /\ cache \in [Caches -> [Lines -> {"absent", "clean", "dirty"}]]
    /\ uop \in [Uops -> {"idle", "waiting", "done"}]
    /\ stop_prefetch \in BOOLEAN

(* A request in flight is in exactly one queue, once, and a request that   *)
(* waits for another's data, or is free, is in none: the queues of         *)
(* memory.cc hand it over without losing or duplicating it, also when a    *)
(* prefetch is flushed, promoted or dropped by the memory controller.      *)
RequestInOnePlace ==
    TypeOK /\ \A r \in Requests :
      /\ \A u \in Units, n \in QueueNames : CopiesIn(r, queue[u][n]) <= 1
      /\ Cardinality({p \in Units \X QueueNames : In(r, p[1], p[2])})
           = IF r \in Active /\ req[r].merged = None THEN 1 ELSE 0

(* No path to free_req leaks an MSHR entry or frees it twice: an entry is  *)
(* in one free list, once, or carries a request, and then it is in the     *)
(* MSHR of some core, where search_req finds it.  Cores do not keep their  *)
(* entries: a demand of another core that promotes a prefetch overwrites   *)
(* its m_core_id (adjust_req), so that free_req leaves it in the MSHR it   *)
(* is in and gives it to the other core.  An entry that is where it        *)
(* belongs is in the MSHR of its core exactly while it carries a request.  *)
Home(r) ==
    IF r \in Active THEN req[r].core = r[1] ELSE r \in Range(mshr_free[r[1]])
TimesFree(r) ==
    Cardinality({p \in Cores \X (1 .. NumCores * MSHRSize) :
                   p[2] \in DOMAIN mshr_free[p[1]] /\ mshr_free[p[1]][p[2]] = r})
MSHRExact ==
    \A r \in Entries :
      /\ TimesFree(r) = IF r \in Active THEN 0 ELSE 1
      /\ r \in Active => \E c \in Cores : r \in Range(mshr[c])
      /\ Home(r) => (r \in Active <=> r \in Range(mshr[r[1]]))

(* A uop that waits for memory is carried by one request, and the request  *)
(* that fetches the data for it, to which it may have been merged several  *)
(* times over and from other cores, is in flight for its line: a           *)
(* completion can always still reach it.                                   *)
WaitingUopCarried ==
    \A x \in Uops : uop[x] = "waiting" =>
      \E r \in Active :
        /\ {s \in Active : req[s].uop = x} = {r}
        /\ Root(r) \in Active /\ req[Root(r)].line = UopLine[x]

(* Every access that missed completes: done(), write_done() or the fill of *)
(* the instruction cache reaches its uop, after which it waits no more.    *)
EveryAccessCompletes == []<>(\A x \in Uops : uop[x] # "waiting")

(* "When a dirty cache line is evicted, the line must be written back into *)
(* the next level cache (or main memory)": a write-back request ends only  *)
(* at the memory controller or by making its line dirty in a cache.        *)
WritebackNotLost ==
    [][\A w \in Heap :
         req[w].type = "WB" /\ req'[w].type # "WB" =>
           \/ In(w, MC, "dram")
           \/ \E u \in Caches : cache'[u][req[w].line] = "dirty"]_vars
====
