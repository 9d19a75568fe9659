-------------------------------- MODULE MMU --------------------------------
(***************************************************************************)
(* The memory management unit (mmu.cc, tlb.cc) with the two callers that   *)
(* feed it: exec_c::exec issuing the child uops of a memory instruction    *)
(* (exec.cc) and dcu_c::access (memory.cc), and the completion of a cache  *)
(* miss (dcu_c::done).                                                     *)
(*                                                                         *)
(* A simulation cycle (macsim_c::run_a_cycle) calls handle_page_faults(),  *)
(* then MMU::run_a_cycle(), then the cores.  The loops inside these        *)
(* handlers are unrolled into one action per iteration; `pc` says which    *)
(* loop is running and `todo` what is left of it, and nothing else runs in *)
(* between.  std::list and unordered containers are sets: their iteration  *)
(* order is not fixed here.  Cycle stamps are kept as the number of cycles *)
(* still to wait.                                                          *)
(*                                                                         *)
(* Whether a translated access finds its port busy, hits or misses is the  *)
(* cache's business and nondeterministic here.                             *)
(***************************************************************************)
EXTENDS Integers, FiniteSets, LRUList

CONSTANTS Uops,             \* the memory accesses: child uops and single uops
          Parents,          \* parent uops: instructions with several accesses
          Threads,
          ThreadOf,         \* thread of a parent uop
          ParentOf,         \* parent of a uop, or NoParent
          NoParent,
          PageOf,           \* page of a uop's virtual address
          Pages,            \* page numbers
          NumFrames,        \* m_memory_size >> m_offset_bits
          TLBEntries,       \* KNOB_TLB_NUM_ENTRY
          FaultBufferSize,  \* KNOB_FAULT_BUFFER_SIZE
          WalkLatency, FaultLatency, EvictionLatency, BatchOverhead

Frames == 0 .. NumFrames - 1
NoFrame == NumFrames
Children(p) == {u \in Uops : ParentOf[u] = p}
Singles == {u \in Uops : ParentOf[u] = NoParent}

ASSUME PagesAssumption == Pages \subseteq Nat
ASSUME NumFramesAssumption == NumFrames \in Nat \ {0}
ASSUME TLBEntriesAssumption == TLBEntries \in Nat \ {0}
ASSUME FaultBufferAssumption == FaultBufferSize \in Nat
ASSUME LatencyAssumption ==
    /\ WalkLatency \in Nat /\ FaultLatency \in Nat
    /\ EvictionLatency \in Nat /\ BatchOverhead \in Nat
ASSUME UopsAssumption ==
    /\ IsFiniteSet(Uops)
    /\ NoParent \notin Parents
    /\ PageOf \in [Uops -> Pages]
    /\ ParentOf \in [Uops -> Parents \cup {NoParent}]
    /\ ThreadOf \in [Parents -> Threads]

VARIABLES
  \* MMU: page table, frames, replacement unit, TLB
  page_table,             \* frame of a page, NoFrame when it is not mapped
  free_frames,            \* the set bits of m_free_frames
  free_frames_remaining,
  frame_to_allocate,
  replacement,            \* recency list of the replacement unit
  tlb_list,               \* recency list of the TLB
  tlb_frame,              \* frame the TLB holds for a page, or NoFrame
  \* MMU: queues
  walk_queue,             \* m_walk_queue_cycle: [page, wait] in ready order
  walk_page,              \* m_walk_queue_page
  retry_queue, fault_retry_queue,
  fault_buffer, fault_uops,
  fault_buffer_processing, fault_uops_processing,
  \* MMU: batch state
  batch_processing, first_transfer_started, transfer_wait, event_wait,
  \* uops
  paddr,                  \* frame of uop->m_paddr; NoFrame: ~m_translated
  num_walks,              \* parent->m_num_page_table_walks
  fault_parents,          \* core->m_per_thread_fault_parent_uops
  unissued,               \* uops exec() still has to send (m_pending_child_uops)
  in_memory,              \* uops with an outstanding cache miss
  child_done,             \* parent->m_num_child_uops_done
  done,                   \* parents and single uops whose m_done_cycle is set
  \* control
  pc, todo, cur

mapVars == <<page_table, free_frames, free_frames_remaining, frame_to_allocate>>
tlbVars == <<tlb_list, tlb_frame>>
walkVars == <<walk_queue, walk_page>>
faultVars == <<fault_buffer, fault_uops>>
batchVars == <<fault_buffer_processing, fault_uops_processing, batch_processing,
               first_transfer_started, transfer_wait, event_wait>>
coreVars == <<unissued, in_memory, child_done, done>>
vars == <<mapVars, replacement, tlbVars, walkVars, retry_queue, fault_retry_queue,
          faultVars, batchVars, paddr, num_walks, fault_parents, coreVars,
          pc, todo, cur>>

Mapped == {p \in Pages : page_table[p] # NoFrame}

Init ==
    /\ page_table = [p \in Pages |-> NoFrame]
    /\ free_frames = Frames
    /\ free_frames_remaining = NumFrames
    /\ frame_to_allocate = 0
    /\ replacement = <<>>
    /\ tlb_list = <<>>
    /\ tlb_frame = [p \in Pages |-> NoFrame]
    /\ walk_queue = <<>>
    /\ walk_page = [p \in Pages |-> {}]
    /\ retry_queue = {}
    /\ fault_retry_queue = {}
    /\ fault_buffer = {}
    /\ fault_uops = [p \in Pages |-> {}]
    /\ fault_buffer_processing = {}
    /\ fault_uops_processing = [p \in Pages |-> {}]
    /\ batch_processing = FALSE
    /\ first_transfer_started = FALSE
    /\ transfer_wait = 0
    /\ event_wait = 0
    /\ paddr = [u \in Uops |-> NoFrame]
    /\ num_walks = [p \in Parents |-> 0]
    /\ fault_parents = [t \in Threads |-> {}]
    /\ unissued = Uops
    /\ in_memory = {}
    /\ child_done = [p \in Parents |-> 0]
    /\ done = {}
    /\ pc = "faults"
    /\ todo = {}
    /\ cur = NoParent

-----------------------------------------------------------------------------
(* TLB *)

\* mutant: an eviction leaves the TLB alone
TLBInvalidateForgotten(page) == UNCHANGED tlbVars

TLBInvalidate(page) ==
    IF tlb_frame[page] # NoFrame
    THEN /\ tlb_list' = Detach(tlb_list, page)
         /\ tlb_frame' = [tlb_frame EXCEPT ![page] = NoFrame]
    ELSE UNCHANGED tlbVars

\* insert, replacing the LRU entry when no entry is free; then update
TLBInsert(page, frame) ==
    IF Len(tlb_list) < TLBEntries
    THEN /\ tlb_list' = Attach(tlb_list, page)
         /\ tlb_frame' = [tlb_frame EXCEPT ![page] = frame]
    ELSE /\ tlb_list' = Attach(DropVictim(tlb_list), page)
         /\ tlb_frame' = [tlb_frame EXCEPT ![Victim(tlb_list)] = NoFrame, ![page] = frame]

-----------------------------------------------------------------------------
(* handle_page_faults: one action per way through it *)

\* control then passes to the first loop of run_a_cycle
EnterRetryLoop(queue) ==
    /\ pc' = "retry"
    /\ todo' = queue
    /\ UNCHANGED cur

BeginBatch(buffer, uops) ==
    /\ fault_buffer_processing' = buffer
    /\ fault_uops_processing' = uops
    /\ fault_buffer' = {}
    /\ fault_uops' = [p \in Pages |-> {}]
    /\ batch_processing' = TRUE
    /\ first_transfer_started' = FALSE
    /\ transfer_wait' = BatchOverhead
    /\ event_wait' = 0

\* room for the next transfer: wait for it, or evict the LRU page of `list`
\* at once; the arguments are the tables as the handler has left them
PrepareTransfer(pt, free, remaining, start, list) ==
    \/ /\ remaining > 0
       /\ event_wait' = FaultLatency
       /\ page_table' = pt
       /\ free_frames' = free
       /\ free_frames_remaining' = remaining
       /\ frame_to_allocate' = start
       /\ replacement' = list
       /\ UNCHANGED tlbVars
    \/ /\ ~(remaining > 0)
       /\ event_wait' = EvictionLatency + FaultLatency
       /\ page_table' = [pt EXCEPT ![Victim(list)] = NoFrame]
       /\ free_frames' = free \cup {pt[Victim(list)]}
       /\ free_frames_remaining' = remaining + 1
       /\ frame_to_allocate' = pt[Victim(list)]
       /\ replacement' = DropVictim(list)
       /\ TLBInvalidate(Victim(list))

FaultsIdle ==
    /\ pc = "faults"
    /\ \/ ~batch_processing /\ fault_buffer = {}
       \/ batch_processing /\ transfer_wait > 0
       \/ batch_processing /\ first_transfer_started /\ event_wait > 0
    /\ EnterRetryLoop(retry_queue)
    /\ UNCHANGED <<mapVars, replacement, tlbVars, walkVars, retry_queue, fault_retry_queue,
                   faultVars, batchVars, paddr, num_walks, fault_parents, coreVars>>

FaultsBegin ==
    /\ pc = "faults"
    /\ ~batch_processing
    /\ fault_buffer # {}
    /\ BeginBatch(fault_buffer, fault_uops)
    /\ EnterRetryLoop(retry_queue)
    /\ UNCHANGED <<mapVars, replacement, tlbVars, walkVars, retry_queue, fault_retry_queue,
                   paddr, num_walks, fault_parents, coreVars>>

FaultsFirstTransfer ==
    /\ pc = "faults"
    /\ batch_processing
    /\ transfer_wait = 0
    /\ ~first_transfer_started
    /\ first_transfer_started' = TRUE
    /\ PrepareTransfer(page_table, free_frames, free_frames_remaining,
                       frame_to_allocate, replacement)
    /\ EnterRetryLoop(retry_queue)
    /\ UNCHANGED <<walkVars, retry_queue, fault_retry_queue, faultVars,
                   fault_buffer_processing, fault_uops_processing, batch_processing,
                   transfer_wait, paddr, num_walks, fault_parents, coreVars>>

\* mutant: no search, the frame after the last allocation is taken as free
NextFrameUnsearched == (frame_to_allocate + 1) % NumFrames

\* the free frame the circular search from m_frame_to_allocate finds
NextFreeFrame ==
    LET Ahead(f) == (f - frame_to_allocate) % NumFrames
    IN  CHOOSE f \in free_frames : \A g \in free_frames : Ahead(f) <= Ahead(g)

\* MMU::ReplacementUnit::insert
ReplacementInsert(list, page) ==
    IF Len(list) < NumFrames THEN Attach(list, page)
                             ELSE Attach(DropVictim(list), page)

\* front of the sorted list of pages being processed
FirstFault == CHOOSE p \in fault_buffer_processing :
                  \A q \in fault_buffer_processing : p <= q

\* mutant: the fault buffer keeps the page that has been brought in
StillFaultingAll(page) == fault_buffer

\* m_fault_buffer without a page that was faulted on again during the batch
StillFaulting(page) == fault_buffer \ {page}

\* the uops that wait for the page, those of this batch and those that faulted
\* on it since the batch began
Waiters(page) == fault_uops_processing[page] \cup fault_uops[page]

\* a transfer completes; the batch goes on or ends, and may start over
FaultsTransferDone ==
    LET page == FirstFault
        frame == NextFreeFrame
        pt == [page_table EXCEPT ![page] = frame]
        free == free_frames \ {frame}
        remaining == free_frames_remaining - 1
        list == ReplacementInsert(replacement, page)
        rest == fault_buffer_processing \ {page}
        buffer == StillFaulting(page)
        uops == [fault_uops EXCEPT ![page] = {}]
    IN  /\ pc = "faults"
        /\ batch_processing
        /\ transfer_wait = 0
        /\ first_transfer_started
        /\ event_wait = 0
        /\ retry_queue' = retry_queue \cup Waiters(page)
        /\ \/ /\ rest # {}
              /\ PrepareTransfer(pt, free, remaining, frame, list)
              /\ fault_buffer_processing' = rest
              /\ fault_uops_processing' = [fault_uops_processing EXCEPT ![page] = {}]
              /\ fault_buffer' = buffer
              /\ fault_uops' = uops
              /\ UNCHANGED <<batch_processing, first_transfer_started, transfer_wait>>
           \/ /\ rest = {}
              /\ page_table' = pt
              /\ free_frames' = free
              /\ free_frames_remaining' = remaining
              /\ frame_to_allocate' = frame
              /\ replacement' = list
              /\ UNCHANGED tlbVars
              /\ \/ buffer # {} /\ BeginBatch(buffer, uops)
                 \/ /\ buffer = {}
                    /\ fault_buffer_processing' = {}
                    /\ fault_uops_processing' = [fault_uops_processing EXCEPT ![page] = {}]
                    /\ fault_buffer' = buffer
                    /\ fault_uops' = uops
                    /\ batch_processing' = FALSE
                    /\ first_transfer_started' = FALSE
                    /\ transfer_wait' = 0
                    /\ event_wait' = 0
        /\ EnterRetryLoop(retry_queue \cup Waiters(page))
        /\ UNCHANGED <<walkVars, fault_retry_queue, paddr, num_walks,
                       fault_parents, coreVars>>

-----------------------------------------------------------------------------
(* translate and dcu_c::access *)

\* a TLB miss: queue a walk of the page, or join the one already queued
EnqueueWalk(u) ==
    LET page == PageOf[u]
    IN  /\ walk_queue' = IF walk_page[page] # {} THEN walk_queue
                         ELSE Append(walk_queue, [page |-> page, wait |-> WalkLatency])
        /\ walk_page' = [walk_page EXCEPT ![page] = @ \cup {u}]
        /\ num_walks' = IF ParentOf[u] = NoParent THEN num_walks
                        ELSE [num_walks EXCEPT ![ParentOf[u]] = @ + 1]

\* what access() can return: -1 for a TLB miss, 0 when it is refused (port
\* busy, MSHR full), the latency of a hit, -1 for a cache miss
Outcomes == {"tlb_miss", "denied", "hit", "miss"}

Access(u, outcome) ==
    LET page == PageOf[u]
        translated == paddr[u] # NoFrame
        known == translated \/ tlb_frame[page] # NoFrame
    IN  \/ /\ outcome = "tlb_miss"
           /\ ~known
           /\ EnqueueWalk(u)
           /\ UNCHANGED <<tlbVars, paddr, in_memory>>
        \/ /\ outcome # "tlb_miss"
           /\ known
           /\ tlb_list' = IF translated THEN tlb_list ELSE MoveToFront(tlb_list, page)
           /\ paddr' = IF translated THEN paddr ELSE [paddr EXCEPT ![u] = tlb_frame[page]]
           /\ in_memory' = IF outcome = "miss" THEN in_memory \cup {u} ELSE in_memory
           /\ UNCHANGED <<tlb_frame, walkVars, num_walks>>

\* a child uop completes outside exec(): the last one completes the parent
CountChild(u) ==
    LET p == ParentOf[u]
    IN  /\ child_done' = [child_done EXCEPT ![p] = @ + 1]
        /\ done' = IF child_done[p] + 1 = Cardinality(Children(p))
                   THEN done \cup {p} ELSE done

-----------------------------------------------------------------------------
(* run_a_cycle *)

\* re-access the dcache; a hit of a uop without parent sets no m_done_cycle
RetryAccess(u) ==
    /\ pc = "retry"
    /\ u \in todo
    /\ \E outcome \in Outcomes :
          /\ Access(u, outcome)
          /\ retry_queue' = IF outcome = "denied" THEN retry_queue ELSE retry_queue \ {u}
          /\ IF outcome = "hit" /\ ParentOf[u] # NoParent
             THEN CountChild(u) ELSE UNCHANGED <<child_done, done>>
    /\ todo' = todo \ {u}
    /\ UNCHANGED <<mapVars, replacement, fault_retry_queue, faultVars, batchVars,
                   fault_parents, unissued, pc, cur>>

\* mutant: the fault retry queue is copied, not taken over
RetryLoopEndsCopying ==
    /\ pc = "retry"
    /\ todo = {}
    /\ pc' = "fault_retry"
    /\ todo' = IF fault_buffer = {} THEN fault_retry_queue ELSE todo
    /\ UNCHANGED <<mapVars, replacement, tlbVars, walkVars, retry_queue, fault_retry_queue,
                   faultVars, batchVars, paddr, num_walks, fault_parents, coreVars, cur>>

\* mutant: faults that found the buffer full are never retried
RetryLoopEndsWithoutFaults ==
    /\ pc = "retry"
    /\ todo = {}
    /\ pc' = "fault_retry"
    /\ UNCHANGED <<mapVars, replacement, tlbVars, walkVars, retry_queue, fault_retry_queue,
                   faultVars, batchVars, paddr, num_walks, fault_parents, coreVars,
                   todo, cur>>

\* retry page faults right after the fault buffer drained
RetryLoopEnds ==
    /\ pc = "retry"
    /\ todo = {}
    /\ pc' = "fault_retry"
    /\ IF fault_buffer = {}
       THEN todo' = fault_retry_queue /\ fault_retry_queue' = {}
       ELSE UNCHANGED <<todo, fault_retry_queue>>
    /\ UNCHANGED <<mapVars, replacement, tlbVars, walkVars, retry_queue, faultVars,
                   batchVars, paddr, num_walks, fault_parents, coreVars, cur>>

WalkHit(u) ==
    LET page == PageOf[u]
        p == ParentOf[u]
    IN  /\ page_table[page] # NoFrame
        /\ paddr' = [paddr EXCEPT ![u] = page_table[page]]
        /\ num_walks' = IF p # NoParent /\ num_walks[p] # 0
                        THEN [num_walks EXCEPT ![p] = @ - 1] ELSE num_walks
        /\ IF tlb_frame[page] # NoFrame
           THEN tlb_list' = MoveToFront(tlb_list, page) /\ UNCHANGED tlb_frame
           ELSE TLBInsert(page, page_table[page])
        /\ replacement' = MoveToFront(replacement, page)
        /\ retry_queue' = retry_queue \cup {u}
        /\ UNCHANGED <<fault_retry_queue, faultVars, fault_parents>>

\* the buffer is full and nothing of this instruction is in it yet
MustWait(u) ==
    LET p == ParentOf[u]
    IN  /\ p # NoParent
        /\ p \notin fault_parents[ThreadOf[p]]
        /\ PageOf[u] \notin fault_buffer
        /\ FaultBufferSize <= Cardinality(fault_buffer)

WalkFaultLater(u) ==
    /\ page_table[PageOf[u]] = NoFrame
    /\ MustWait(u)
    /\ fault_retry_queue' = fault_retry_queue \cup {u}
    /\ UNCHANGED <<replacement, tlbVars, retry_queue, faultVars, paddr, num_walks,
                   fault_parents>>

WalkFault(u) ==
    LET page == PageOf[u]
        p == ParentOf[u]
    IN  /\ page_table[page] = NoFrame
        /\ ~MustWait(u)
        /\ fault_buffer' = fault_buffer \cup {page}
        /\ fault_uops' = [fault_uops EXCEPT ![page] = @ \cup {u}]
        /\ IF p = NoParent
           THEN UNCHANGED <<num_walks, fault_parents>>
           ELSE /\ num_walks' = [num_walks EXCEPT ![p] = @ - 1]
                /\ fault_parents' = [fault_parents EXCEPT ![ThreadOf[p]] =
                       IF num_walks[p] - 1 # 0 THEN @ \cup {p} ELSE {}]
        /\ UNCHANGED <<replacement, tlbVars, retry_queue, fault_retry_queue, paddr>>

\* do_page_table_walks
Walk(u) == WalkHit(u) \/ WalkFaultLater(u) \/ WalkFault(u)

FaultRetry(u) ==
    /\ pc = "fault_retry"
    /\ u \in todo
    /\ Walk(u)
    /\ todo' = todo \ {u}
    /\ UNCHANGED <<mapVars, walkVars, batchVars, coreVars, pc, cur>>

FaultRetryLoopEnds ==
    /\ pc = "fault_retry"
    /\ todo = {}
    /\ pc' = "walk"
    /\ UNCHANGED <<mapVars, replacement, tlbVars, walkVars, retry_queue, fault_retry_queue,
                   faultVars, batchVars, paddr, num_walks, fault_parents, coreVars,
                   todo, cur>>

WalkDue == walk_queue # <<>> /\ Head(walk_queue).wait = 0

\* one uop of the page whose walk is due; the page leaves with its last uop
WalkPage(u) ==
    /\ pc = "walk"
    /\ WalkDue
    /\ u \in walk_page[Head(walk_queue).page]
    /\ Walk(u)
    /\ walk_page' = [walk_page EXCEPT ![Head(walk_queue).page] = @ \ {u}]
    /\ walk_queue' = IF walk_page'[Head(walk_queue).page] = {} THEN Tail(walk_queue)
                     ELSE walk_queue
    /\ UNCHANGED <<mapVars, batchVars, coreVars, pc, todo, cur>>

\* cycles left of a wait after ++m_cycle
Countdown(n) == IF n = 0 THEN 0 ELSE n - 1

\* ++m_cycle
CycleEnds ==
    /\ pc = "walk"
    /\ ~WalkDue
    /\ pc' = "cores"
    /\ walk_queue' = [i \in DOMAIN walk_queue |->
                         [walk_queue[i] EXCEPT !.wait = Countdown(@)]]
    /\ transfer_wait' = Countdown(transfer_wait)
    /\ event_wait' = Countdown(event_wait)
    /\ UNCHANGED <<mapVars, replacement, tlbVars, walk_page, retry_queue, fault_retry_queue,
                   faultVars, fault_buffer_processing, fault_uops_processing,
                   batch_processing, first_transfer_started, paddr, num_walks,
                   fault_parents, coreVars, todo, cur>>

-----------------------------------------------------------------------------
(* the cores *)

\* exec_c::exec of an instruction with several accesses
ExecBegins(p) ==
    /\ pc = "cores"
    /\ unissued \cap Children(p) # {}
    /\ pc' = "exec"
    /\ cur' = p
    /\ todo' = unissued \cap Children(p)
    /\ num_walks' = [num_walks EXCEPT ![p] = 0]
    /\ UNCHANGED <<mapVars, replacement, tlbVars, walkVars, retry_queue, fault_retry_queue,
                   faultVars, batchVars, paddr, fault_parents, coreVars>>

ExecChild(u) ==
    /\ pc = "exec"
    /\ u \in todo
    /\ \E outcome \in Outcomes :
          /\ Access(u, outcome)
          /\ unissued' = IF outcome = "denied" THEN unissued ELSE unissued \ {u}
          /\ child_done' = IF outcome = "hit" THEN [child_done EXCEPT ![cur] = @ + 1]
                           ELSE child_done
    /\ todo' = todo \ {u}
    /\ UNCHANGED <<mapVars, replacement, retry_queue, fault_retry_queue, faultVars,
                   batchVars, fault_parents, done, pc, cur>>

\* all children issued and done: the instruction is done after the longest hit
ExecEnds ==
    /\ pc = "exec"
    /\ todo = {}
    /\ pc' = "cores"
    /\ cur' = NoParent
    /\ done' = IF unissued \cap Children(cur) = {}
                  /\ child_done[cur] = Cardinality(Children(cur))
               THEN done \cup {cur} ELSE done
    /\ UNCHANGED <<mapVars, replacement, tlbVars, walkVars, retry_queue, fault_retry_queue,
                   faultVars, batchVars, paddr, num_walks, fault_parents,
                   unissued, in_memory, child_done, todo>>

\* exec_c::exec of an instruction with one access
ExecSingle(u) ==
    /\ pc = "cores"
    /\ u \in unissued \cap Singles
    /\ \E outcome \in Outcomes :
          /\ Access(u, outcome)
          /\ unissued' = IF outcome = "denied" THEN unissued ELSE unissued \ {u}
          /\ done' = IF outcome = "hit" THEN done \cup {u} ELSE done
    /\ UNCHANGED <<mapVars, replacement, retry_queue, fault_retry_queue, faultVars,
                   batchVars, fault_parents, child_done, pc, todo, cur>>

\* dcu_c::done: a cache miss is filled
FillDone(u) ==
    /\ pc = "cores"
    /\ u \in in_memory
    /\ in_memory' = in_memory \ {u}
    /\ IF ParentOf[u] = NoParent
       THEN done' = done \cup {u} /\ UNCHANGED child_done
       ELSE CountChild(u)
    /\ UNCHANGED <<mapVars, replacement, tlbVars, walkVars, retry_queue, fault_retry_queue,
                   faultVars, batchVars, paddr, num_walks, fault_parents, unissued,
                   pc, todo, cur>>

\* the next simulation cycle
NextCycle ==
    /\ pc = "cores"
    /\ pc' = "faults"
    /\ UNCHANGED <<mapVars, replacement, tlbVars, walkVars, retry_queue, fault_retry_queue,
                   faultVars, batchVars, paddr, num_walks, fault_parents, coreVars,
                   todo, cur>>

Next ==
    \/ FaultsIdle \/ FaultsBegin \/ FaultsFirstTransfer \/ FaultsTransferDone
    \/ RetryLoopEnds \/ FaultRetryLoopEnds \/ CycleEnds \/ ExecEnds \/ NextCycle
    \/ \E u \in Uops : \/ RetryAccess(u) \/ FaultRetry(u) \/ WalkPage(u)
                       \/ ExecChild(u) \/ ExecSingle(u) \/ FillDone(u)
    \/ \E p \in Parents : ExecBegins(p)

Spec == Init /\ [][Next]_vars

\* The simulation loop never stops before the program ends; the scheduler
\* offers unissued uops again each cycle, ports and MSHR entries become free
\* again so that not every access is refused for ever, and the memory answers
\* misses.
Fairness ==
    /\ WF_vars(Next)
    /\ SF_vars(\E p \in Parents : ExecBegins(p))
    /\ SF_vars(\E u \in Uops : ExecChild(u) /\ u \notin unissued')
    /\ SF_vars(\E u \in Uops : ExecSingle(u) /\ u \notin unissued')
    /\ SF_vars(\E u \in Uops : RetryAccess(u) /\ u \notin retry_queue')
    /\ SF_vars(\E u \in Uops : FillDone(u))

FairSpec == Spec /\ Fairness

-----------------------------------------------------------------------------
(* Properties *)

TypeOK ==
    /\ page_table \in [Pages -> Frames \cup {NoFrame}]
    /\ free_frames \subseteq Frames
    /\ free_frames_remaining \in Int
    /\ frame_to_allocate \in Frames
    /\ replacement \in Seq(Pages)
    /\ tlb_list \in Seq(Pages)
    /\ tlb_frame \in [Pages -> Frames \cup {NoFrame}]
    /\ walk_queue \in Seq([page : Pages, wait : Nat])
    /\ walk_page \in [Pages -> SUBSET Uops]
    /\ retry_queue \subseteq Uops
    /\ fault_retry_queue \subseteq Uops
    /\ fault_buffer \subseteq Pages
    /\ fault_uops \in [Pages -> SUBSET Uops]
    /\ fault_buffer_processing \subseteq Pages
    /\ fault_uops_processing \in [Pages -> SUBSET Uops]
    /\ batch_processing \in BOOLEAN
    /\ first_transfer_started \in BOOLEAN
    /\ transfer_wait \in Nat
    /\ event_wait \in Nat
    /\ paddr \in [Uops -> Frames \cup {NoFrame}]
    /\ num_walks \in [Parents -> Int]
    /\ fault_parents \in [Threads -> SUBSET Parents]
    /\ unissued \subseteq Uops
    /\ in_memory \subseteq Uops
    /\ child_done \in [Parents -> Nat]
    /\ done \subseteq Uops \cup Parents
    /\ pc \in {"faults", "retry", "fault_retry", "walk", "cores", "exec"}
    /\ todo \subseteq Uops
    /\ cur \in Parents \cup {NoParent}
    /\ pc = "exec" => cur \in Parents

\* The page table and the free frames describe the same memory: no frame
\* backs two pages, a frame is free exactly when no page has it, and the
\* counter that decides on an eviction counts the free frames.
FramesExact ==
    /\ \A p, q \in Mapped : page_table[p] = page_table[q] => p = q
    /\ free_frames = Frames \ {page_table[p] : p \in Mapped}
    /\ free_frames_remaining = Cardinality(free_frames)

\* Every translation the TLB can return is the one the page table holds: an
\* eviction never leaves an entry behind.
TLBCoherent ==
    \A p \in Pages : tlb_frame[p] # NoFrame => page_table[p] = tlb_frame[p]

\* The replacement unit lists exactly the mapped pages, so that the assertions
\* of update(), insert() and the victim lookup in the page table hold; the
\* TLB's list and table agree in the same way.
RecencyListsExact ==
    /\ NoRepetition(replacement)
    /\ {replacement[i] : i \in DOMAIN replacement} = Mapped
    /\ NoRepetition(tlb_list)
    /\ {tlb_list[i] : i \in DOMAIN tlb_list} = {p \in Pages : tlb_frame[p] # NoFrame}
    /\ Len(tlb_list) <= TLBEntries

\* Pages being faulted in are not mapped, in either buffer, and a batch whose
\* first transfer has started has a frame for it ("a free page is gauranteed"):
\* the page table never receives a page it already has.
FaultsResolvable ==
    /\ (fault_buffer \cup fault_buffer_processing) \cap Mapped = {}
    /\ batch_processing <=> fault_buffer_processing # {}
    /\ batch_processing /\ first_transfer_started => free_frames_remaining > 0

Walking == UNION {walk_page[p] : p \in Pages}
Faulting == UNION {fault_uops[p] : p \in Pages}
BeingFaulted == UNION {fault_uops_processing[p] : p \in Pages}
FaultRetrying == fault_retry_queue \cup (IF pc = "fault_retry" THEN todo ELSE {})

\* the places an incomplete uop can be in
Places == <<unissued, Walking, Faulting, BeingFaulted, FaultRetrying, retry_queue, in_memory>>

Gone(u) == \A i \in DOMAIN Places : u \notin Places[i]

\* A uop waits in at most one queue, and in the right one for its page: a uop
\* parked on a fault is parked on a page that is going to be resolved.
UopInOnePlace ==
    /\ \A i, j \in DOMAIN Places : i # j => Places[i] \cap Places[j] = {}
    /\ \A p \in Pages :
          /\ fault_uops[p] # {} <=> p \in fault_buffer
          /\ fault_uops_processing[p] # {} <=> p \in fault_buffer_processing
          /\ \A u \in walk_page[p] \cup fault_uops[p] \cup fault_uops_processing[p] :
                PageOf[u] = p

\* The children an instruction has counted as done are exactly those that
\* left every queue, whichever path they completed on (hit in exec, hit on a
\* retry, fill), and the instruction is done exactly when all of them are.
ChildrenExact ==
    \A p \in Parents :
        /\ child_done[p] = Cardinality({u \in Children(p) : Gone(u)})
        /\ p \in done <=> child_done[p] = Cardinality(Children(p)) /\ cur # p

\* No uop of an instruction is lost or served twice, wherever the MMU and the
\* execution stage hand it over: what is queued and what is counted add up.
UopsExact == TypeOK /\ UopInOnePlace /\ ChildrenExact

\* No access starves in the queues of the MMU.  An instruction made of child
\* uops is done at last, whatever faults, evictions and refused retries its
\* children meet.  A uop without a parent leaves every queue; that is all: when
\* it missed in the TLB and hits in the cache on its retry, the retry loop drops
\* it and sets no m_done_cycle, so its own completion is not claimed.
NoAccessStarves ==
    /\ \A p \in Parents : <>(p \in done)
    /\ \A u \in Singles : <>Gone(u)
=============================================================================
