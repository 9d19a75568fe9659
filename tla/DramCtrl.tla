------------------------------ MODULE DramCtrl ------------------------------
(***************************************************************************)
(* The memory controller of dram_ctrl.cc: dram_ctrl_c (FCFS) and its       *)
(* subclass dc_frfcfs_c (FR-FCFS).                                         *)
(*                                                                         *)
(* run_a_cycle is a sequence of calls; each call, or each iteration of the *)
(* two loops whose passes depend on each other, is one action, and phase   *)
(* says which call is next.  Nothing else touches the controller in        *)
(* between.  ULLONG_MAX, "never", is -1.                                   *)
(***************************************************************************)
EXTENDS Integers, Sequences, FiniteSets

CONSTANTS
  NumChannel,         \* KNOB_DRAM_NUM_CHANNEL
  BanksPerChannel,    \* m_num_bank_per_channel
  BusWidth,           \* KNOB_DRAM_BUS_WIDTH
  BufferSize,         \* KNOB_DRAM_BUFFER_SIZE
  ActivateLatency, PrechargeLatency, ColumnLatency,
  StarvationLimit,    \* the 5000 of progress_check
  Knobs,              \* the settings checked together, see KnobSettings
  Kinds,              \* the requests' type, addr, size and acc, as records
  BankOf(_),          \* address parsing, see DramAddress
  RowOf(_),
  NetSize,            \* packets the network holds for this controller
  MaxRequests,        \* bound on the requests that arrive
  LastArrival,        \* bound on the cycle in which they do
  MaxCycle            \* bound on m_cycle

VARIABLES
  knob,               \* the knobs, fixed when the controller is built
  phase,              \* the next call of run_a_cycle
  m_cycle,
  net,                \* packets at the network's port of this controller
  issued,             \* number of requests that have arrived
  m_buffer,           \* per bank, the entries waiting (a set: their timestamps order them)
  m_free,             \* per bank, the length of m_buffer_free_list
  m_current_list,     \* per bank, the entry in service or None
  m_current_rid,      \* per bank, the open row
  m_bank_ready, m_data_avail, m_data_ready, m_bank_timestamp,
  m_byte_avail, m_dbus_ready,                    \* per channel
  m_total_req, m_num_completed_in_last_cycle, m_starvation_cycle,
  m_tmp_output_buffer, m_output_buffer,
  over,               \* history: requests that have left
  moved, busy         \* history: bytes moved over each channel, cycles it was held

netVars == <<net, issued>>
bankVars == <<m_buffer, m_free, m_current_list, m_current_rid, m_bank_ready,
              m_data_avail, m_data_ready, m_bank_timestamp>>
busVars == <<m_byte_avail, m_dbus_ready, moved, busy>>
countVars == <<m_total_req, m_num_completed_in_last_cycle, m_starvation_cycle>>
outVars == <<m_tmp_output_buffer, m_output_buffer, over>>
vars == <<knob, phase, m_cycle, netVars, bankVars, busVars, countVars, outVars>>

-----------------------------------------------------------------------------
Never == -1
None == [state |-> "NONE"]

KnobSettings == [policy : {"FCFS", "FRFCFS"}, merge : BOOLEAN,
                 partition : BOOLEAN, extra : Nat]

Channels == 0 .. NumChannel - 1
Banks == 0 .. NumChannel * BanksPerChannel - 1
BanksOf(c) == c * BanksPerChannel .. (c + 1) * BanksPerChannel - 1
ChannelOf(b) == b \div BanksPerChannel

ASSUME ConstantsOK ==
  /\ {NumChannel, BanksPerChannel, BusWidth, BufferSize} \subseteq Nat \ {0}
  /\ {ActivateLatency, PrechargeLatency, ColumnLatency, StarvationLimit,
      NetSize, MaxRequests, LastArrival, MaxCycle} \subseteq Nat
  /\ Knobs \subseteq KnobSettings
  /\ \A k \in Kinds : /\ BankOf(k.addr) \in Banks
                      /\ RowOf(k.addr) \in Nat
                      /\ k.size \in Nat
                      /\ k.acc \in BOOLEAN

Request(n, k) ==
  [id |-> n, type |-> k.type, addr |-> k.addr, size |-> k.size, acc |-> k.acc]
Requests == {Request(n, k) : n \in 1 .. MaxRequests, k \in Kinds}

Reached(t) == t # Never /\ t <= m_cycle
InState(b, s) == m_current_list[b].state = s
Ids(seq) == {seq[i].req : i \in DOMAIN seq}

Goto(p) == phase' = p

Init ==
  /\ knob \in Knobs
  /\ phase = "send" /\ m_cycle = 0
  /\ net = <<>> /\ issued = 0
  /\ m_buffer = [b \in Banks |-> {}]
  /\ m_free = [b \in Banks |-> BufferSize]
  /\ m_current_list = [b \in Banks |-> None]
  /\ m_current_rid = [b \in Banks |-> Never]
  /\ m_bank_ready = [b \in Banks |-> Never]
  /\ m_data_avail = [b \in Banks |-> Never]
  /\ m_data_ready = [b \in Banks |-> Never]
  /\ m_bank_timestamp = [b \in Banks |-> 0]
  /\ m_byte_avail = [c \in Channels |-> BusWidth]
  /\ m_dbus_ready = [c \in Channels |-> 0]
  /\ m_total_req = 0
  \* the constructor sets neither of these
  /\ m_num_completed_in_last_cycle \in {0, 1}
  /\ m_starvation_cycle \in {0, StarvationLimit}
  /\ m_tmp_output_buffer = <<>> /\ m_output_buffer = <<>>
  /\ over = {}
  /\ moved = [c \in Channels |-> 0] /\ busy = [c \in Channels |-> 0]

-----------------------------------------------------------------------------
(* The network: a request is ready for receive (network_c::receive).       *)
(* Cycle 0 ends before any core has run.                                   *)

Arrive(k) ==
  /\ phase = "send" /\ 0 < m_cycle /\ m_cycle <= LastArrival
  /\ issued < MaxRequests /\ Len(net) < NetSize
  /\ net' = Append(net, Request(issued + 1, k))
  /\ issued' = issued + 1
  /\ UNCHANGED <<knob, phase, m_cycle, bankVars, busVars, countVars, outVars>>

-----------------------------------------------------------------------------
(* send: the requests of the output buffer go out in order until the       *)
(* network refuses the one at index n; with partitioned virtual channels a *)
(* second pass tries the requests of the type the first pass did not come  *)
(* to, until the one at index m is refused.                                *)

SecondPass(n) ==
  {i \in DOMAIN m_output_buffer :
     /\ knob.partition
     /\ \A h \in DOMAIN m_output_buffer \intersect (1 .. n) :
          m_output_buffer[h].req.acc # m_output_buffer[i].req.acc}

Accepted(n, m) ==
  {m_output_buffer[i].req : i \in (1 .. n - 1) \union (SecondPass(n) \intersect (1 .. m - 1))}

send ==
  /\ phase = "send" /\ m_cycle < MaxCycle
  /\ \E n, m \in 1 .. Len(m_output_buffer) + 1 :
       LET S == Accepted(n, m)
       IN  /\ m_output_buffer' = SelectSeq(m_output_buffer, LAMBDA o : o.req \notin S)
           /\ over' = over \union S
  /\ Goto("delay")
  /\ UNCHANGED <<knob, m_cycle, netVars, bankVars, busVars, countVars, m_tmp_output_buffer>>

\* requests whose additional latency is over, up to the first that is not due
delay_packet ==
  LET due == {n \in 0 .. Len(m_tmp_output_buffer) :
                \A i \in 1 .. n : m_tmp_output_buffer[i].rdy <= m_cycle}
      n == CHOOSE x \in due : \A y \in due : y <= x
  IN  /\ phase = "delay"
      /\ m_output_buffer' = m_output_buffer \o SubSeq(m_tmp_output_buffer, 1, n)
      /\ m_tmp_output_buffer' = SubSeq(m_tmp_output_buffer, n + 1, Len(m_tmp_output_buffer))
      /\ Goto("cmd")
      /\ UNCHANGED <<knob, m_cycle, netVars, bankVars, busVars, countVars, over>>

-----------------------------------------------------------------------------
(* Channels.                                                               *)

\* the bank of B that was touched first, the lowest of those
OldestBank(B) ==
  CHOOSE b \in B : \A d \in B : \/ m_bank_timestamp[b] < m_bank_timestamp[d]
                                \/ m_bank_timestamp[b] = m_bank_timestamp[d] /\ b <= d

\* the banks that get the command bus in this cycle, one per channel
Commanded ==
  LET wanting(c) == {b \in BanksOf(c) : InState(b, "CMD")}
  IN  {OldestBank(wanting(c)) : c \in {c \in Channels : wanting(c) # {}}}

Activates(b) == m_current_rid[b] = Never
RowHitWhenOpen(b) == m_current_rid[b] # Never
RowHit(b) == m_current_list[b].rid = m_current_rid[b]

channel_schedule_cmd ==
  LET column(b) == ~ Activates(b) /\ RowHit(b)
  IN  /\ phase = "cmd"
      /\ m_current_rid' = [b \in Banks |->
            CASE b \notin Commanded \/ column(b) -> m_current_rid[b]
              [] b \in Commanded /\ Activates(b) -> m_current_list[b].rid
              [] OTHER -> Never]
      /\ m_bank_ready' = [b \in Banks |->
            CASE b \notin Commanded -> m_bank_ready[b]
              [] b \in Commanded /\ Activates(b) -> m_cycle + ActivateLatency
              [] b \in Commanded /\ column(b) -> m_cycle + ColumnLatency
              [] OTHER -> m_cycle + PrechargeLatency]
      /\ m_data_avail' = [b \in Banks |->
            CASE b \notin Commanded -> m_data_avail[b]
              [] b \in Commanded /\ column(b) -> m_cycle + ColumnLatency
              [] OTHER -> Never]
      /\ m_current_list' = [b \in Banks |->
            IF b \in Commanded
            THEN [m_current_list[b] EXCEPT !.state = IF column(b) THEN "DATA" ELSE "CMD_WAIT"]
            ELSE m_current_list[b]]
      /\ Goto("data")
      /\ UNCHANGED <<knob, m_cycle, netVars, busVars, countVars, outVars,
                     m_buffer, m_free, m_data_ready, m_bank_timestamp>>

avail_data_bus(c) == m_dbus_ready[c] <= m_cycle
DataBanks(c) == {b \in BanksOf(c) : InState(b, "DATA") /\ Reached(m_data_avail[b])}

\* acquire_data_bus: the cycle in which a transfer of size bytes ends
Latency(c, size) ==
  IF size < m_byte_avail[c]
  THEN m_cycle
  ELSE m_cycle + (size - m_byte_avail[c]) \div BusWidth + 1
\* and the bytes of that cycle it leaves to the next transfer
BytesLeftWhole(c, size) ==
  IF size < m_byte_avail[c] THEN m_byte_avail[c] - size ELSE BusWidth
BytesLeft(c, size) ==
  IF size < m_byte_avail[c]
  THEN m_byte_avail[c] - size
  ELSE BusWidth - ((size - m_byte_avail[c]) % BusWidth)

\* one iteration of the while loop of channel c
channel_schedule_data(c) ==
  /\ phase = "data" /\ avail_data_bus(c) /\ DataBanks(c) # {}
  /\ LET b == OldestBank(DataBanks(c))
         size == m_current_list[b].req.size
     IN  /\ m_data_ready' = [m_data_ready EXCEPT ![b] = Latency(c, size)]
         /\ m_dbus_ready' = [m_dbus_ready EXCEPT ![c] = Latency(c, size)]
         /\ m_byte_avail' = [m_byte_avail EXCEPT ![c] = BytesLeft(c, size)]
         /\ moved' = [moved EXCEPT ![c] = @ + size]
         /\ busy' = [busy EXCEPT ![c] = @ + Latency(c, size) - m_cycle]
         /\ m_data_avail' = [m_data_avail EXCEPT ![b] = Never]
         /\ m_current_list' = [m_current_list EXCEPT ![b].state = "DATA_WAIT"]
  /\ UNCHANGED <<knob, phase, m_cycle, netVars, countVars, outVars,
                 m_buffer, m_free, m_current_rid, m_bank_ready, m_bank_timestamp>>

channel_schedule_ends ==
  /\ phase = "data"
  /\ \A c \in Channels : ~ avail_data_bus(c) \/ DataBanks(c) = {}
  /\ m_num_completed_in_last_cycle' = 0
  /\ Goto("complete")
  /\ UNCHANGED <<knob, m_cycle, netVars, bankVars, busVars, outVars,
                 m_total_req, m_starvation_cycle>>

-----------------------------------------------------------------------------
(* Banks.                                                                  *)

\* the waiting entries served together with the one in service
Merged(b) == {e \in m_buffer[b] : knob.merge /\ e.req.addr = m_current_list[b].req.addr}

\* the entries that go back to the free list
Released(b) == Cardinality(Merged(b)) + 1

\* the orders in which a list may hold the entries of S
Orders(S) == {q \in [1 .. Cardinality(S) -> S] : \A e \in S : \E i \in DOMAIN q : q[i] = e}

\* what the served entries put into the output buffer
Replies(q) ==
  LET read == SelectSeq(q, LAMBDA e : e.req.type # "WB")
  IN  [i \in DOMAIN read |-> [req |-> read[i].req, rdy |-> m_cycle + knob.extra]]

Completing == {b \in Banks : m_current_list[b] # None /\ Reached(m_data_ready[b])}

\* one iteration of the loop over the banks
bank_schedule_complete(b) ==
  /\ phase = "complete"
  /\ b \in Completing /\ \A d \in Completing : b <= d
  /\ LET M == Merged(b)
         served == {e.req : e \in M \union {m_current_list[b]}}
     IN  /\ \E q \in Orders(M) :
              LET out == Replies(Append(q, m_current_list[b]))
              IN  IF knob.extra > 0
                  THEN /\ m_tmp_output_buffer' = m_tmp_output_buffer \o out
                       /\ UNCHANGED m_output_buffer
                  ELSE /\ m_output_buffer' = m_output_buffer \o out
                       /\ UNCHANGED m_tmp_output_buffer
         /\ over' = over \union {r \in served : r.type = "WB"}
         /\ m_buffer' = [m_buffer EXCEPT ![b] = @ \ M]
         /\ m_free' = [m_free EXCEPT ![b] = @ + Released(b)]
         /\ m_total_req' = m_total_req - Released(b)
         /\ m_num_completed_in_last_cycle' =
              (IF M = {} THEN m_num_completed_in_last_cycle ELSE m_cycle) + 1
  /\ m_current_list' = [m_current_list EXCEPT ![b] = None]
  /\ m_data_ready' = [m_data_ready EXCEPT ![b] = Never]
  /\ UNCHANGED <<knob, phase, m_cycle, netVars, busVars, m_starvation_cycle,
                 m_current_rid, m_bank_ready, m_data_avail, m_bank_timestamp>>

bank_schedule_complete_ends ==
  /\ phase = "complete" /\ Completing = {}
  /\ Goto("new")
  /\ UNCHANGED <<knob, m_cycle, netVars, bankVars, busVars, countVars, outVars>>

\* the order of the scheduling policy: the front of the list (FCFS), or what
\* sort_func puts first (FR-FCFS): demands, then hits of the open row, then age
\* (the open row is compared as an int: rows are numbered below 2^31 here, and
\* ULLONG_MAX, no row, stays unequal to every row)
Prefetch(e) == e.req.type = "DPRF"
OpenRow(b, e) == e.rid = m_current_rid[b]
BeforeReadsFirst(b, e, f) ==
  IF (e.req.type = "WB") # (f.req.type = "WB") THEN f.req.type = "WB"
  ELSE e.timestamp < f.timestamp
Before(b, e, f) ==
  IF knob.policy = "FCFS" THEN e.timestamp < f.timestamp
  ELSE IF Prefetch(e) # Prefetch(f) THEN Prefetch(f)
  ELSE IF OpenRow(b, e) # OpenRow(b, f) THEN OpenRow(b, e)
  ELSE e.timestamp < f.timestamp

schedule(b) == CHOOSE e \in m_buffer[b] : \A f \in m_buffer[b] : f = e \/ Before(b, e, f)

bank_schedule_new ==
  LET starting == {b \in Banks : m_current_list[b] = None /\ m_buffer[b] # {}}
      resuming == {b \in Banks : InState(b, "CMD_WAIT") /\ Reached(m_bank_ready[b])}
  IN  /\ phase = "new"
      /\ m_buffer' = [b \in Banks |->
            IF b \in starting THEN m_buffer[b] \ {schedule(b)} ELSE m_buffer[b]]
      /\ m_current_list' = [b \in Banks |->
            IF b \in starting THEN [schedule(b) EXCEPT !.state = "CMD"]
            ELSE IF b \in resuming THEN [m_current_list[b] EXCEPT !.state = "CMD"]
            ELSE m_current_list[b]]
      /\ m_bank_ready' = [b \in Banks |->
            IF b \in starting \union resuming THEN Never ELSE m_bank_ready[b]]
      /\ m_bank_timestamp' = [b \in Banks |->
            IF b \in starting \union resuming THEN m_cycle ELSE m_bank_timestamp[b]]
      /\ Goto("receive")
      /\ UNCHANGED <<knob, m_cycle, netVars, busVars, countVars, outVars,
                     m_free, m_current_rid, m_data_avail, m_data_ready>>

-----------------------------------------------------------------------------
(* receive, with insert_new_req, flush_prefetch and insert_req_in_drb.     *)

NewEntry(r) ==
  [req |-> r, rid |-> RowOf(r.addr), timestamp |-> m_cycle, state |-> "INIT"]

FlushedAll(b) == {e \in m_buffer[b] : m_free[b] = 0}
\* flush_prefetch: the entries of bank b given up to make room
Flushed(b) == {e \in m_buffer[b] : m_free[b] = 0 /\ Prefetch(e)}

\* insert_new_req finds room for the next packet
Insertable ==
  /\ net # <<>>
  /\ LET b == BankOf(Head(net).addr) IN m_free[b] > 0 \/ Flushed(b) # {}

receive ==
  LET r == Head(net)
      b == BankOf(r.addr)
      F == Flushed(b)
  IN  /\ phase = "receive" /\ Insertable
      /\ net' = Tail(net)
      /\ m_buffer' = [m_buffer EXCEPT ![b] = (@ \ F) \union {NewEntry(r)}]
      /\ m_free' = [m_free EXCEPT ![b] = @ + Cardinality(F) - 1]
      /\ m_total_req' = m_total_req - Cardinality(F) + 1
      /\ over' = over \union {e.req : e \in F}
      /\ Goto("check")
      /\ UNCHANGED <<knob, m_cycle, issued, busVars, m_num_completed_in_last_cycle,
                     m_starvation_cycle, m_tmp_output_buffer, m_output_buffer,
                     m_current_list, m_current_rid, m_bank_ready, m_data_avail,
                     m_data_ready, m_bank_timestamp>>

receive_nothing ==
  /\ phase = "receive" /\ ~ Insertable
  /\ Goto("check")
  /\ UNCHANGED <<knob, m_cycle, netVars, bankVars, busVars, countVars, outVars>>

StarvingIdle == m_num_completed_in_last_cycle = 0
Starving == m_total_req > 0 /\ m_num_completed_in_last_cycle = 0

progress_check ==
  /\ phase = "check"
  /\ m_starvation_cycle' = IF Starving THEN m_starvation_cycle + 1 ELSE 0
  /\ m_cycle' = m_cycle + 1
  /\ Goto("send")
  /\ UNCHANGED <<knob, netVars, bankVars, busVars, outVars,
                 m_total_req, m_num_completed_in_last_cycle>>

\* the simulation is over
Finished == phase = "send" /\ m_cycle = MaxCycle /\ UNCHANGED vars

Next ==
  \/ \E k \in Kinds : Arrive(k)
  \/ send \/ delay_packet
  \/ channel_schedule_cmd
  \/ \E c \in Channels : channel_schedule_data(c)
  \/ channel_schedule_ends
  \/ \E b \in Banks : bank_schedule_complete(b)
  \/ bank_schedule_complete_ends
  \/ bank_schedule_new
  \/ receive \/ receive_nothing
  \/ progress_check
  \/ Finished

Spec == Init /\ [][Next]_vars

-----------------------------------------------------------------------------
(* Properties.                                                             *)

Entry == [req : Requests, rid : Nat, timestamp : Nat,
          state : {"INIT", "CMD", "CMD_WAIT", "DATA", "DATA_WAIT"}]
Time == Nat \union {Never}

TypeOK ==
  /\ knob \in KnobSettings /\ m_cycle \in Nat
  /\ m_buffer \in [Banks -> SUBSET Entry]
  /\ m_current_list \in [Banks -> Entry \union {None}]
  /\ m_current_rid \in [Banks -> Time]
  /\ m_bank_ready \in [Banks -> Time]
  /\ m_data_avail \in [Banks -> Time]
  /\ m_data_ready \in [Banks -> Time]
  /\ m_bank_timestamp \in [Banks -> Nat]
  /\ m_byte_avail \in [Channels -> 1 .. BusWidth]
  /\ m_dbus_ready \in [Channels -> Nat]
  /\ moved \in [Channels -> Nat] /\ busy \in [Channels -> Nat]

(* Every bank obeys the command protocol: it transfers data only for the   *)
(* row that is open, after the column access, and the deadline it waits    *)
(* for (bank, bus or data) is set (the ASSERTs of dram_ctrl.cc on          *)
(* m_state, and the deadlines that channel_schedule_cmd,                   *)
(* channel_schedule_data and bank_schedule_complete leave behind).         *)
BanksObeyProtocol ==
  /\ TypeOK
  /\ \A b \in Banks :
       /\ ~ InState(b, "INIT")
       /\ \A e \in m_buffer[b] : e.state = "INIT" /\ BankOf(e.req.addr) = b
       /\ InState(b, "DATA") \/ InState(b, "DATA_WAIT") =>
            m_current_list[b].rid = m_current_rid[b]
       /\ InState(b, "DATA") <=> m_data_avail[b] # Never
       /\ InState(b, "DATA_WAIT") <=> m_data_ready[b] # Never
       /\ InState(b, "CMD_WAIT") => m_bank_ready[b] # Never
       /\ InState(b, "CMD_WAIT") /\ m_current_rid[b] # Never =>
            m_current_list[b].rid = m_current_rid[b]

(* The data bus carries exactly its width: what a channel has moved, and   *)
(* what is left of the cycle in which its last transfer ends, are BusWidth *)
(* bytes for every cycle it was held, and no cycle is held twice           *)
(* (acquire_data_bus splits a cycle among transfers).                      *)
BandwidthKept ==
  \A c \in Channels :
    /\ moved[c] + m_byte_avail[c] = BusWidth * (busy[c] + 1)
    /\ busy[c] <= m_dbus_ready[c]

(* The request buffer, its free list and m_total_req agree, and a request  *)
(* the network has handed over is in one place.                            *)
Waiting(b) == {e.req : e \in m_buffer[b]}
InService(b) == IF m_current_list[b] = None THEN {} ELSE {m_current_list[b].req}
pending == UNION {Waiting(b) \union InService(b) : b \in Banks}
ready == Ids(m_tmp_output_buffer) \union Ids(m_output_buffer)

BuffersExact ==
  /\ \A b \in Banks :
       m_free[b] + Cardinality(m_buffer[b]) + Cardinality(InService(b)) = BufferSize
  /\ m_total_req = Cardinality(pending)
  /\ Cardinality(ready) = Len(m_tmp_output_buffer) + Len(m_output_buffer)

(* Banks and buffers together: what channel_schedule, bank_schedule and    *)
(* insert_new_req each assume of the others.                               *)
ControllerExact == BanksObeyProtocol /\ BuffersExact

(* The controller implements DramService: every accepted request is served *)
(* once, and only prefetches are given up.                                 *)
Service == INSTANCE DramService WITH Requests <- Requests, pending <- pending,
                                     ready <- ready, over <- over
ServesAll == Service!Spec

(* A read that came after a write-back of the same line is not served      *)
(* before it, under either policy and with or without merging.             *)
ReadsFollowWritebacks ==
  \A b \in Banks : m_current_list[b] # None =>
    \A e \in m_buffer[b] :
      /\ e.req.type = "WB" /\ e.req.addr = m_current_list[b].req.addr
      => m_current_list[b].timestamp < e.timestamp

(* progress_check raises no alarm while requests are being served, whatever*)
(* m_starvation_cycle held when the controller was allocated.              *)
NoFalseAlarm == m_cycle > 0 => m_starvation_cycle < StarvationLimit
=============================================================================
