------------------------------- MODULE Router -------------------------------
(***************************************************************************)
(* The on-chip network (network.cc): routers with virtual channels,        *)
(* wormhole switching and credit flow control, for any topology.  The two  *)
(* methods a topology overrides are parameters: Link (set_link) and Routes *)
(* (stage_rc with the filter of stage_vca_pick_winner).                    *)
(*                                                                         *)
(* A network cycle runs every router once, in an order that rotates with   *)
(* the simulation clock; a router runs its stages one after the other.     *)
(* `turn` counts the routers that have run in this cycle and `stage` is    *)
(* the stage of the running one.  Memory and DRAM send and receive only    *)
(* between two network cycles.  stage_sa and stage_st are one action: no   *)
(* flit stays in state SA between them.  A loop in which one grant or one  *)
(* injection changes what the next iteration sees is unrolled into one     *)
(* action per iteration.                                                   *)
(*                                                                         *)
(* m_rdy_cycle and m_link_avail are kept as the cycles still to wait,      *)
(* m_cycle modulo what is read of it, and m_timestamp as its rank among    *)
(* the packets in the network.  m_sw_avail is left out: it is set to the   *)
(* next cycle and each stage runs once a cycle.                            *)
(***************************************************************************)
EXTENDS Integers, Sequences, FiniteSets

CONSTANTS NumRouter,      \* m_num_router
          NumPort,        \* m_num_port
          NumVC,          \* KNOB_NUM_VC
          BufferMax,      \* m_buffer_max_size, and the initial m_credit
          InjectionMax,   \* m_injection_buffer_max_size
          LinkLatency,    \* KNOB_LINK_LATENCY
          Ratio,          \* simulation cycles per network cycle
          Packets,        \* requests the memory system may send
          Src, Dst,       \* m_msg_src, m_msg_dst
          NumFlit,        \* flits of a packet
          Link,           \* router behind a port, for the ports that have one
          Routes(_, _, _) \* ports a packet may leave a router by, on a given vc

Routers == 0 .. NumRouter - 1
Ports == 0 .. NumPort - 1
VCs == 0 .. NumVC - 1

LocalPort == 0
LEFT == 1
RIGHT == 2
UP == 3
DOWN == 4

Opposite == [d \in LocalPort .. DOWN |->
               IF d = LEFT THEN RIGHT ELSE IF d = RIGHT THEN LEFT
               ELSE IF d = UP THEN DOWN ELSE IF d = DOWN THEN UP ELSE LocalPort]

\* one virtual channel of one port of one router: <<router, port, vc>>
Channel == Routers \X Ports \X VCs
Linked(c) == <<c[1], c[2]>> \in DOMAIN Link
\* the channel at the other end of the link: the input a flit sent on the
\* output c arrives at, and the output the credit of the input c goes back to
Far(c) == <<Link[<<c[1], c[2]>>], Opposite[c[2]], c[3]>>

ASSUME SizeAssumption ==
    /\ NumRouter \in Nat \ {0} /\ NumPort \in 1 .. DOWN + 1 /\ NumVC \in Nat \ {0}
    /\ BufferMax \in Nat \ {0} /\ InjectionMax \in Nat \ {0}
    /\ LinkLatency \in Nat \ {0} /\ Ratio \in Nat \ {0}
ASSUME PacketAssumption ==
    /\ IsFiniteSet(Packets)
    /\ Src \in [Packets -> Routers] /\ Dst \in [Packets -> Routers]
    /\ NumFlit \in [Packets -> 1 .. BufferMax]
    /\ \A p \in Packets : Src[p] # Dst[p]
ASSUME LinkAssumption ==
    /\ DOMAIN Link \subseteq Routers \X (Ports \ {LocalPort})
    /\ \A l \in DOMAIN Link :
          LET far == <<Link[l], Opposite[l[2]]>>
          IN  far \in DOMAIN Link /\ Link[far] = l[1]
ASSUME RoutesAssumption ==
    \A r \in Routers, p \in Packets, v \in VCs :
       \A o \in Routes(r, p, v) : o = LocalPort \/ <<r, o>> \in DOMAIN Link

VARIABLES
  injection_buffer,  \* m_injection_buffer: packets, per router
  input_buffer,      \* m_input_buffer: flits, per channel
  output_buffer,     \* m_output_buffer: flits, per channel
  output_id,         \* <<m_output_port_id, m_output_vc_id>> of an input channel
  output_vc_avail,   \* m_output_vc_avail of an output channel
  credit,            \* m_credit of an output channel
  due, late,         \* m_pending_credit of an output channel: those whose
                     \* m_rdy_cycle has come, those of this cycle
  link_wait,         \* m_link_avail - m_cycle of a port
  req_buffer,        \* m_req_buffer: arrived packets, per router
  stamp, now,        \* rank of m_timestamp of a packet in the network, of m_cycle
  cycle, turn, stage,
  outstanding        \* packets the memory system has sent and not received

buffers == <<input_buffer, output_buffer>>
flow == <<credit, due, late>>
clock == <<stamp, now, cycle>>
vars == <<injection_buffer, buffers, output_id, output_vc_avail, flow,
          link_wait, req_buffer, clock, turn, stage, outstanding>>

NoOutput == <<-1, -1>>

Flit == [pkt : Packets, id : Nat, state : {"IB", "RC", "VCA", "ST"}, wait : Nat]
IsHead(f) == f.id = 0
IsTail(f) == f.id = NumFlit[f.pkt] - 1

Init ==
  /\ injection_buffer = [r \in Routers |-> <<>>]
  /\ input_buffer = [c \in Channel |-> <<>>]
  /\ output_buffer = [c \in Channel |-> <<>>]
  /\ output_id = [c \in Channel |-> NoOutput]
  /\ output_vc_avail = [c \in Channel |-> TRUE]
  /\ credit = [c \in Channel |-> BufferMax]
  /\ due = [c \in Channel |-> 0]
  /\ late = [c \in Channel |-> 0]
  /\ link_wait = [l \in Routers \X Ports |-> 0]
  /\ req_buffer = [r \in Routers |-> <<>>]
  /\ stamp = [p \in Packets |-> 0]
  /\ now = 1
  /\ cycle = 0 /\ turn = 0 /\ stage = "credit"
  /\ outstanding = {}

\* m_cycle is read modulo m_num_router and m_num_vc only
Period == NumRouter * NumVC
\* the router that runs now: network_ring_c::run_a_cycle starts at CYCLE % m_num_router
Running == (Ratio * cycle + turn) % NumRouter
Mine == {Running} \X Ports \X VCs
Between == turn = 0 /\ stage = "credit"
At(s) == stage = s
Here(c) == c[1] = Running

-----------------------------------------------------------------------------
(* The network interface: network_c::send, receive and receive_pop.        *)

send(p) ==
  /\ Between
  /\ p \notin outstanding
  /\ Len(injection_buffer[Src[p]]) < InjectionMax
  /\ injection_buffer' = [injection_buffer EXCEPT ![Src[p]] = Append(@, p)]
  /\ outstanding' = outstanding \cup {p}
  /\ UNCHANGED <<buffers, output_id, output_vc_avail, flow, link_wait,
                 req_buffer, clock, turn, stage>>

receive(r) ==
  /\ Between
  /\ req_buffer[r] # <<>>
  /\ req_buffer' = [req_buffer EXCEPT ![r] = Tail(@)]
  /\ outstanding' = outstanding \ {Head(req_buffer[r])}
  /\ UNCHANGED <<injection_buffer, buffers, output_id, output_vc_avail, flow,
                 link_wait, clock, turn, stage>>

-----------------------------------------------------------------------------
(* One router's cycle.                                                     *)

process_pending_credit ==
  /\ At("credit")
  /\ credit' = [c \in Channel |-> IF Here(c) THEN credit[c] + due[c] ELSE credit[c]]
  /\ due' = [c \in Channel |-> IF Here(c) THEN 0 ELSE due[c]]
  /\ stage' = "lt"
  /\ UNCHANGED <<injection_buffer, buffers, output_id, output_vc_avail, late,
                 link_wait, req_buffer, clock, turn, outstanding>>

\* stage_lt: a port sends the first flit of the first channel that has one and
\* has credit, starting from channel m_cycle % m_num_vc
Sendable == {c \in Mine : output_buffer[c] # <<>> /\ credit[c] # 0}
FromCycle(c) == (c[3] - cycle) % NumVC
Leaving ==
  LET ready == Sendable
  IN  {c \in ready : /\ link_wait[<<c[1], c[2]>>] = 0
                     /\ \A d \in ready : d[2] = c[2] => FromCycle(c) <= FromCycle(d)}

\* insert_packet, and the m_rdy_cycle stage_lt sets after it; only a head's is read
Arriving(f) ==
  [f EXCEPT !.state = "IB", !.wait = IF IsHead(f) THEN LinkLatency + 1 ELSE 0]

\* a tail frees its channel, and at the local port hands over its packet
FreedByHead(S) == {c \in S : IsHead(Head(output_buffer[c]))}
Freed(S) == {c \in S : IsTail(Head(output_buffer[c]))}
EndedByHead(S) == {Head(output_buffer[c]).pkt :
                     c \in {d \in S : d[2] = LocalPort /\ IsHead(Head(output_buffer[d]))}}
Ended(S) == {Head(output_buffer[c]).pkt :
               c \in {d \in S : d[2] = LocalPort /\ IsTail(Head(output_buffer[d]))}}

stage_lt ==
  LET leaving == Leaving
      freed == Freed(leaving)
      ended == Ended(leaving)
  IN
  /\ At("lt")
  /\ output_buffer' = [c \in Channel |-> IF c \in leaving THEN Tail(output_buffer[c])
                                         ELSE output_buffer[c]]
  /\ input_buffer' =
       [c \in Channel |-> IF Linked(c) /\ Far(c) \in leaving
                          THEN Append(input_buffer[c], Arriving(Head(output_buffer[Far(c)])))
                          ELSE input_buffer[c]]
  /\ credit' = [c \in Channel |-> IF c \in leaving /\ c[2] # LocalPort THEN credit[c] - 1
                                  ELSE credit[c]]
  /\ link_wait' = [l \in Routers \X Ports |->
                     IF l[2] # LocalPort /\ \E c \in leaving : <<c[1], c[2]>> = l
                     THEN LinkLatency ELSE link_wait[l]]
  /\ output_vc_avail' = [c \in Channel |-> output_vc_avail[c] \/ c \in freed]
  /\ req_buffer' = [r \in Routers |-> IF r = Running /\ ended # {}
                                      THEN Append(req_buffer[r], CHOOSE p \in ended : TRUE)
                                      ELSE req_buffer[r]]
  /\ stamp' = [p \in Packets |-> IF p \in ended THEN 0 ELSE stamp[p]]
  /\ stage' = "switch"
  /\ UNCHANGED <<injection_buffer, output_id, due, late, now, cycle, turn, outstanding>>

\* OLDEST_FIRST: the lowest m_timestamp, and of equal ones the first port and channel
Before(c, d) == c[2] * NumVC + c[3] <= d[2] * NumVC + d[3]
Oldest(S) ==
  CHOOSE c \in S : \A d \in S :
     LET age(x) == stamp[Head(input_buffer[x]).pkt]
     IN  age(c) < age(d) \/ (age(c) = age(d) /\ Before(c, d))

\* stage_sa_pick_winner: the inputs with a flit to move to output port o
Movable(o) ==
  {c \in Mine : /\ c[2] # o
                /\ output_id[c][1] = o
                /\ input_buffer[c] # <<>>
                /\ LET f == Head(input_buffer[c])
                   IN  IF IsHead(f) THEN f.state = "VCA" ELSE f.state = "IB"}
Winners == {Oldest(Movable(o)) : o \in {q \in Ports : Movable(q) # {}}}
Out(c) == <<c[1], output_id[c][1], output_id[c][2]>>

\* a flit that leaves an input returns its credit to the router that sent it
CreditedByTail(W) ==
  {Far(c) : c \in {d \in W : d[2] # LocalPort /\ IsTail(Head(input_buffer[d]))}}
Credited(W) == {Far(c) : c \in {d \in W : d[2] # LocalPort}}

\* stage_sa, then stage_st: the winners cross the switch
stage_sa_st ==
  LET W == Winners
      credited == Credited(W)
      Into(o) == CHOOSE c \in W : Out(c) = o
      Counted(pending) == [c \in Channel |-> IF c \in credited THEN pending[c] + 1
                                             ELSE pending[c]]
  IN
  /\ At("switch")
  /\ output_buffer' =
       [o \in Channel |-> IF \E c \in W : Out(c) = o
                          THEN Append(output_buffer[o],
                                      [Head(input_buffer[Into(o)]) EXCEPT !.state = "ST"])
                          ELSE output_buffer[o]]
  /\ input_buffer' = [c \in Channel |-> IF c \in W THEN Tail(input_buffer[c])
                                        ELSE input_buffer[c]]
  /\ output_id' = [c \in Channel |-> IF c \in W /\ IsTail(Head(input_buffer[c]))
                                     THEN NoOutput ELSE output_id[c]]
  \* the credit is ready at m_cycle + 1 of this clock, but CYCLE is compared with it
  /\ IF Ratio = 1 THEN late' = Counted(late) /\ UNCHANGED due
                  ELSE due' = Counted(due) /\ UNCHANGED late
  /\ stage' = "rc"
  /\ UNCHANGED <<injection_buffer, output_vc_avail, credit, link_wait, req_buffer,
                 clock, turn, outstanding>>

stage_rc ==
  /\ At("rc")
  /\ input_buffer' =
       [c \in Channel |->
          IF /\ Here(c) /\ output_id[c] = NoOutput /\ input_buffer[c] # <<>>
             /\ LET f == Head(input_buffer[c])
                IN  IsHead(f) /\ f.state = "IB" /\ f.wait = 0
          THEN [input_buffer[c] EXCEPT ![1].state = "RC"]
          ELSE input_buffer[c]]
  /\ stage' = "vca"
  /\ UNCHANGED <<injection_buffer, output_buffer, output_id, output_vc_avail, flow,
                 link_wait, req_buffer, clock, turn, outstanding>>

\* stage_vca_pick_winner: the inputs whose head wants output channel o
Requests(o) ==
  {c \in Mine : /\ c[2] # o[2]
                /\ input_buffer[c] # <<>>
                /\ LET f == Head(input_buffer[c])
                   IN  /\ IsHead(f) /\ f.state = "RC"
                       /\ o[2] \in Routes(Running, f.pkt, o[3])}
Grantable == {o \in Mine : output_vc_avail[o] /\ Requests(o) # {}}

\* one iteration of stage_vca that finds a winner.  A grant removes requests and
\* free channels only, so the first grantable channel is the next in loop order
stage_vca ==
  /\ At("vca")
  /\ Grantable # {}
  /\ LET free == Grantable
         o == CHOOSE x \in free : \A y \in free : Before(x, y)
         c == Oldest(Requests(o))
     IN  /\ input_buffer' = [input_buffer EXCEPT ![c][1].state = "VCA"]
         /\ output_id' = [output_id EXCEPT ![c] = <<o[2], o[3]>>]
         /\ output_vc_avail' = [output_vc_avail EXCEPT ![o] = FALSE]
  /\ UNCHANGED <<injection_buffer, output_buffer, flow, link_wait, req_buffer,
                 clock, turn, stage, outstanding>>

stage_vca_ends ==
  /\ At("vca")
  /\ Grantable = {}
  /\ stage' = "inject"
  /\ UNCHANGED <<injection_buffer, buffers, output_id, output_vc_avail, flow,
                 link_wait, req_buffer, clock, turn, outstanding>>

\* local_packet_injection: the first channel with room for the whole packet
Roomy(p) ==
  {c \in Mine : c[2] = LocalPort /\ Len(input_buffer[c]) + NumFlit[p] <= BufferMax}
Flits(p) == [i \in 1 .. NumFlit[p] |->
               [pkt |-> p, id |-> i - 1, state |-> "IB", wait |-> 0]]

Injectable == LET queue == injection_buffer[Running]
              IN  queue # <<>> /\ Roomy(Head(queue)) # {}

local_packet_injection ==
  LET p == Head(injection_buffer[Running]) IN
  /\ At("inject")
  /\ Injectable
  /\ LET c == CHOOSE x \in Roomy(p) : \A y \in Roomy(p) : Before(x, y)
     IN  input_buffer' = [input_buffer EXCEPT ![c] = @ \o Flits(p)]
  /\ injection_buffer' = [injection_buffer EXCEPT ![Running] = Tail(@)]
  /\ stamp' = [stamp EXCEPT ![p] = now]
  /\ UNCHANGED <<output_buffer, output_id, output_vc_avail, flow, link_wait,
                 req_buffer, now, cycle, turn, stage, outstanding>>

\* the next router's turn
next_router ==
  /\ At("inject") /\ ~Injectable
  /\ turn < NumRouter - 1
  /\ turn' = turn + 1
  /\ stage' = "credit"
  /\ UNCHANGED <<injection_buffer, buffers, output_id, output_vc_avail, flow,
                 link_wait, req_buffer, clock, outstanding>>

\* all routers have run: ++m_cycle
Elapsed(n) == IF n = 0 THEN 0 ELSE n - 1
next_cycle ==
  LET stamps == {stamp[p] : p \in Packets} \ {0} IN
  /\ At("inject") /\ ~Injectable
  /\ turn = NumRouter - 1
  /\ turn' = 0 /\ stage' = "credit"
  /\ cycle' = (cycle + 1) % Period
  /\ input_buffer' = [c \in Channel |-> [i \in DOMAIN input_buffer[c] |->
                        [input_buffer[c][i] EXCEPT !.wait = Elapsed(@)]]]
  /\ link_wait' = [l \in Routers \X Ports |-> Elapsed(link_wait[l])]
  /\ due' = [c \in Channel |-> due[c] + late[c]]
  /\ late' = [c \in Channel |-> 0]
  /\ stamp' = [p \in Packets |-> Cardinality({s \in stamps : s <= stamp[p]})]
  /\ now' = Cardinality(stamps) + 1
  /\ UNCHANGED <<injection_buffer, output_buffer, output_id, output_vc_avail, credit,
                 req_buffer, outstanding>>

run_a_cycle ==
  \/ process_pending_credit \/ stage_lt \/ stage_sa_st \/ stage_rc
  \/ stage_vca \/ stage_vca_ends \/ local_packet_injection
  \/ next_router \/ next_cycle

Next ==
  \/ \E p \in Packets : send(p)
  \/ \E r \in Routers : receive(r)
  \/ run_a_cycle

Spec == Init /\ [][Next]_vars

\* macsim_c::run_a_cycle ticks the network for as long as the simulation runs: cycles
\* keep starting and ending.  run_a_cycle is always enabled and a cycle has finitely
\* many steps, so this is WF_vars(run_a_cycle)
Ticks == []<>Between /\ []<>~Between

-----------------------------------------------------------------------------
(* Properties.                                                             *)

TypeOK ==
  /\ injection_buffer \in [Routers -> Seq(Packets)]
  /\ input_buffer \in [Channel -> Seq(Flit)]
  /\ output_buffer \in [Channel -> Seq(Flit)]
  /\ output_id \in [Channel -> (Ports \X VCs) \cup {NoOutput}]
  /\ output_vc_avail \in [Channel -> BOOLEAN]
  /\ credit \in [Channel -> 0 .. BufferMax]
  /\ due \in [Channel -> Nat] /\ late \in [Channel -> Nat]
  /\ link_wait \in [Routers \X Ports -> 0 .. LinkLatency]
  /\ req_buffer \in [Routers -> Seq(Packets)]
  /\ stamp \in [Packets -> Nat] /\ now \in Nat
  /\ cycle \in Nat /\ turn \in 0 .. NumRouter - 1
  /\ stage \in {"credit", "lt", "switch", "rc", "vca", "inject"}
  /\ outstanding \subseteq Packets

\* Every slot of an input buffer is accounted for once: as a credit of the router
\* that feeds it, as a flit in it, or as a credit on its way back.  So stage_lt
\* never overruns the buffer and no slot is lost.
CreditsConserved ==
  \A c \in Channel : Linked(c) =>
     credit[c] + Len(input_buffer[Far(c)]) + due[c] + late[c] = BufferMax

\* A channel carries whole packets: between a head and its tail no flit of another
\* packet, no flit missing and none out of order, although routers interleave the
\* channels of a link flit by flit.
WormsIntact ==
  \A c \in Channel : \A b \in {input_buffer[c], output_buffer[c]} :
     \A i \in 1 .. Len(b) - 1 :
        \/ b[i].pkt = b[i + 1].pkt /\ b[i].id + 1 = b[i + 1].id
        \/ IsTail(b[i]) /\ IsHead(b[i + 1]) /\ b[i].pkt # b[i + 1].pkt

\* An output channel is taken exactly while one input sends a packet through it or
\* the packet's tail still waits in its buffer, and never by two inputs.
ChannelsOwnedOnce ==
  \A o \in Channel :
     LET users == {c \in {o[1]} \X Ports \X VCs : output_id[c] = <<o[2], o[3]>>}
         tails == {i \in DOMAIN output_buffer[o] : IsTail(output_buffer[o][i])}
     IN  Cardinality(users) + Cardinality(tails) = IF output_vc_avail[o] THEN 0 ELSE 1

\* The wormhole discipline: a channel belongs to one packet from its head to its
\* tail, in the tables of stage_vca and stage_lt and in the buffers alike.
WormsExact == TypeOK /\ WormsIntact /\ ChannelsOwnedOnce

\* A packet the memory system waits for is in one piece and in one place: queued at
\* its source, or a run of flits up to its tail in the network, or arrived, once, at
\* its destination and with no flit left behind.  Nothing else is in the network.
Buffer(x) == IF x[1] = "in" THEN input_buffer[x[2]] ELSE output_buffer[x[2]]
Places(p) == {x \in {"in", "out"} \X Channel \X (1 .. BufferMax) :
                x[3] <= Len(Buffer(x)) /\ Buffer(x)[x[3]].pkt = p}
FlitAt(x) == Buffer(x)[x[3]]
Times(q, p) == Cardinality({i \in DOMAIN q : q[i] = p})
PacketsConserved ==
  \A p \in Packets :
     LET queued == Times(injection_buffer[Src[p]], p)
         flying == IF Places(p) = {} THEN 0 ELSE 1
         arrived == Times(req_buffer[Dst[p]], p)
         ids == {FlitAt(x).id : x \in Places(p)}
     IN  /\ queued + flying + arrived = IF p \in outstanding THEN 1 ELSE 0
         /\ Cardinality(ids) = Cardinality(Places(p))
         /\ ids = {i \in 0 .. NumFlit[p] - 1 : \E j \in ids : j <= i}

\* Every packet the network accepts reaches its destination, however many others
\* keep being sent: no deadlock on the channels, and oldest-first starves nobody.
EveryPacketArrives ==
  \A p \in Packets :
     (p \in outstanding) ~> (\E i \in DOMAIN req_buffer[Dst[p]] : req_buffer[Dst[p]][i] = p)
=============================================================================
