------------------------------- MODULE MCRing -------------------------------
(***************************************************************************)
(* A ring of four routers under two kinds of traffic, in turns and from    *)
(* any cycle on.  Either two packets that meet on the link from router 0   *)
(* to router 1, one of them over the wrap-around link, are sent and        *)
(* received at any time and again and again; or every router sends a       *)
(* burst of two packets two hops to the right, as fast as its injection    *)
(* buffer takes them.  A burst uses every link to the right and has the    *)
(* packets it takes to fill the buffers of one virtual channel all round   *)
(* the ring.                                                               *)
(***************************************************************************)
EXTENDS RingTopology

\* <<r, n>> is the n-th packet of router r
MCPackets == (0 .. 3) \X {1, 2}
MCSrc == [p \in MCPackets |-> p[1]]
MCDst == [p \in MCPackets |-> (p[1] + 2) % 4]
MCNumFlit == [p \in MCPackets |-> 2]
MCPair == {<<0, 1>>, <<3, 1>>}

VARIABLE burst    \* packets of the burst that are still to be sent
mcvars == <<vars, burst>>

MCInit == Init /\ burst = {}

StartBurst ==
  /\ Between /\ outstanding = {} /\ burst = {}
  /\ burst' = MCPackets
  /\ UNCHANGED vars

\* a burst sends in the order of the routers whatever has room
Ready == {p \in burst : Len(injection_buffer[Src[p]]) < InjectionMax}
InOrder(p, q) == p[1] < q[1] \/ (p[1] = q[1] /\ p[2] <= q[2])
Sends(p) == /\ send(p)
            /\ IF burst = {} THEN outstanding \cup {p} \subseteq MCPair
               ELSE p \in Ready /\ \A q \in Ready : InOrder(p, q)
            /\ burst' = burst \ {p}

\* while a burst is in the network, a cycle starts when nothing can be sent or received
Settled == /\ Ready = {}
           /\ outstanding \subseteq MCPair \/ \A r \in Routers : req_buffer[r] = <<>>
Receives(r) == receive(r) /\ UNCHANGED burst
Cycles == (Between => Settled) /\ run_a_cycle /\ UNCHANGED burst

MCNext ==
  \/ StartBurst
  \/ \E p \in Packets : Sends(p)
  \/ \E r \in Routers : Receives(r)
  \/ Cycles

MCSpec == MCInit /\ [][MCNext]_mcvars /\ Ticks
=============================================================================
