---------------------------- MODULE RouterProofs ----------------------------
(***************************************************************************)
(* Proofs about Router, for every topology, buffer size, number of virtual *)
(* channels and set of packets: type correctness, and the conservation of  *)
(* credits, from which no input buffer is ever overrun.                    *)
(***************************************************************************)
EXTENDS Router, NatLemmas, FiniteSetTheorems, TLAPS

-----------------------------------------------------------------------------
(* Channels and links.                                                     *)

\* The two ends of a link name each other (set_link is symmetric).
LEMMA FarInvolutive ==
  ASSUME NEW c \in Channel, Linked(c)
  PROVE  /\ Far(c) \in Channel
         /\ Linked(Far(c))
         /\ Far(Far(c)) = c
         /\ c[2] # LocalPort
<1>1. /\ c[1] \in Routers /\ c[2] \in Ports /\ c[3] \in VCs
      /\ c = <<c[1], c[2], c[3]>>
  BY DEF Channel
<1> DEFINE l == <<c[1], c[2]>>
           far == <<Link[l], Opposite[c[2]]>>
<1>2. l \in DOMAIN Link
  BY DEF Linked
<1>3. l \in Routers \X (Ports \ {LocalPort})
  BY <1>2, LinkAssumption
<1>4. far \in DOMAIN Link /\ Link[far] = c[1]
  BY <1>2, LinkAssumption
<1>5. far \in Routers \X (Ports \ {LocalPort})
  BY <1>4, LinkAssumption
<1>6. Opposite[Opposite[c[2]]] = c[2]
  BY <1>1, SizeAssumption
     DEF Opposite, Ports, LocalPort, LEFT, RIGHT, UP, DOWN
<1>7. Far(c) = <<Link[l], Opposite[c[2]], c[3]>>
  BY DEF Far
<1>8. Far(c) \in Channel
  BY <1>1, <1>5, <1>7 DEF Channel
<1>9. Linked(Far(c))
  BY <1>4, <1>7 DEF Linked
<1>10. Far(Far(c)) = c
  BY <1>1, <1>4, <1>6, <1>7 DEF Far
<1>11. c[2] # LocalPort
  BY <1>3
<1> QED
  BY <1>8, <1>9, <1>10, <1>11

\* The position of a channel in the loops over ports and virtual channels.
LEMMA PositionNat ==
  ASSUME NEW c \in Channel
  PROVE  c[2] * NumVC + c[3] \in Nat
<1>1. c[2] \in Nat /\ c[3] \in Nat /\ NumVC \in Nat
  BY SizeAssumption DEF Channel, Ports, VCs
<1> QED
  BY <1>1

\* A loop over channels that keeps the first one it finds does find one.
LEMMA FirstExists ==
  ASSUME NEW S, S \subseteq Channel, S # {}
  PROVE  \E c \in S : \A d \in S : Before(c, d)
<1> DEFINE pos(c) == c[2] * NumVC + c[3]
           T == {pos(c) : c \in S}
<1>1. T \subseteq Nat /\ T # {}
  BY PositionNat
<1>2. PICK n \in T : \A m \in T : n <= m
  BY <1>1, SmallestExists
<1>3. PICK c \in S : pos(c) = n
  BY <1>2
<1>4. \A d \in S : pos(c) <= pos(d)
  BY <1>2, <1>3
<1> QED
  BY <1>4 DEF Before

\* The oldest-first loops of the two pick_winner methods return one of the
\* candidates whenever there is one.
LEMMA OldestExists ==
  ASSUME NEW S, S \subseteq Channel, S # {}, stamp \in [Packets -> Nat],
         \A c \in S : Head(input_buffer[c]).pkt \in Packets
  PROVE  Oldest(S) \in S
<1> DEFINE age(c) == stamp[Head(input_buffer[c]).pkt]
           T == {age(c) : c \in S}
<1>1. T \subseteq Nat /\ T # {}
  OBVIOUS
<1>2. PICK n \in T : \A m \in T : n <= m
  BY <1>1, SmallestExists
<1> DEFINE U == {c \in S : age(c) = n}
<1>3. U \subseteq Channel /\ U # {}
  BY <1>2
<1>4. PICK c \in U : \A d \in U : Before(c, d)
  BY <1>3, FirstExists
<1>5. \A d \in S : age(c) < age(d) \/ (age(c) = age(d) /\ Before(c, d))
  <2> TAKE d \in S
  <2>1. age(d) \in Nat /\ n \in Nat /\ n <= age(d) /\ age(c) = n
    BY <1>1, <1>2, <1>4
  <2>2. CASE age(d) = n
    BY <1>4, <2>1, <2>2
  <2>3. CASE age(d) # n
    BY <2>1, <2>3
  <2> QED
    BY <2>2, <2>3
<1>6. c \in S
  BY <1>4
<1>7. \E x \in S : \A d \in S : age(x) < age(d) \/ (age(x) = age(d) /\ Before(x, d))
  BY <1>5, <1>6
<1> QED
  BY <1>7 DEF Oldest

-----------------------------------------------------------------------------
(* Flits and buffers.                                                      *)

FlitState == {"IB", "RC", "VCA", "ST"}

\* A flit stays a flit when stage_lt hands it over and when stage_st moves it.
LEMMA FlitMoves ==
  ASSUME NEW f \in Flit
  PROVE  /\ Arriving(f) \in Flit
         /\ [f EXCEPT !.state = "ST"] \in Flit
         /\ [f EXCEPT !.wait = Elapsed(@)] \in Flit
<1>1. LinkLatency + 1 \in Nat /\ 0 \in Nat
  BY SizeAssumption
<1>2. f.wait \in Nat
  BY DEF Flit
<1>3. Elapsed(f.wait) \in Nat
  BY <1>2 DEF Elapsed
<1> QED
  BY <1>1, <1>3 DEF Flit, Arriving

\* The front of a non-empty buffer is a flit, and what remains is a buffer.
LEMMA HeadIsFlit ==
  ASSUME NEW s \in Seq(Flit), s # <<>>
  PROVE  /\ Head(s) \in Flit /\ Head(s).pkt \in Packets
         /\ Tail(s) \in Seq(Flit) /\ Len(Tail(s)) = Len(s) - 1
         /\ Len(s) \in Nat \ {0}
<1>1. Head(s) \in Flit
  OBVIOUS
<1> QED
  BY <1>1 DEF Flit

\* push_back on a buffer of flits.
LEMMA AppendFlit ==
  ASSUME NEW s \in Seq(Flit), NEW f \in Flit
  PROVE  Append(s, f) \in Seq(Flit) /\ Len(Append(s, f)) = Len(s) + 1
OBVIOUS

\* A stage that marks the front flit of a buffer keeps the buffer's length and type.
LEMMA FrontState ==
  ASSUME NEW s \in Seq(Flit), s # <<>>, NEW st \in FlitState
  PROVE  /\ [s EXCEPT ![1].state = st] \in Seq(Flit)
         /\ Len([s EXCEPT ![1].state = st]) = Len(s)
<1> DEFINE t == [s EXCEPT ![1].state = st]
<1>1. Len(s) \in Nat /\ DOMAIN s = 1 .. Len(s) /\ \A i \in 1 .. Len(s) : s[i] \in Flit
  OBVIOUS
<1>2. DOMAIN t = 1 .. Len(s)
  BY <1>1
<1>3. ASSUME NEW i \in 1 .. Len(s) PROVE t[i] \in Flit
  <2>1. CASE i = 1
    <3>1. t[i] = [s[i] EXCEPT !.state = st]
      BY <1>1, <2>1
    <3>2. s[i] \in Flit
      BY <1>1
    <3> QED
      BY ONLY <3>1, <3>2, st \in FlitState DEF Flit, FlitState
  <2>2. CASE i # 1
    BY <1>1, <2>2
  <2> QED
    BY <2>1, <2>2
<1>4. t = [i \in 1 .. Len(s) |-> t[i]]
  BY <1>2
<1> HIDE DEF t
<1>5. t \in [1 .. Len(s) -> Flit]
  BY <1>3, <1>4
<1>6. t \in Seq(Flit) /\ Len(t) = Len(s)
  BY ONLY <1>1, <1>2, <1>5
<1> QED
  BY <1>6 DEF t

\* The passing of a cycle changes no buffer's length or type.
LEMMA WaitsElapse ==
  ASSUME NEW s \in Seq(Flit)
  PROVE  LET t == [i \in DOMAIN s |-> [s[i] EXCEPT !.wait = Elapsed(@)]]
         IN  t \in Seq(Flit) /\ Len(t) = Len(s)
<1> DEFINE t == [i \in DOMAIN s |-> [s[i] EXCEPT !.wait = Elapsed(@)]]
<1>1. Len(s) \in Nat /\ DOMAIN s = 1 .. Len(s) /\ \A i \in 1 .. Len(s) : s[i] \in Flit
  OBVIOUS
<1>2. \A i \in 1 .. Len(s) : [s[i] EXCEPT !.wait = Elapsed(@)] \in Flit
  BY <1>1, FlitMoves
<1>3. t \in [1 .. Len(s) -> Flit]
  BY <1>1, <1>2
<1> HIDE DEF t
<1>4. t \in Seq(Flit) /\ Len(t) = Len(s)
  BY ONLY <1>1, <1>3
<1> QED
  BY <1>4 DEF t

\* local_packet_injection generates well-formed flits, as many as NumFlit says.
LEMMA FlitsOfPacket ==
  ASSUME NEW p \in Packets
  PROVE  Flits(p) \in Seq(Flit)
<1>1. NumFlit[p] \in Nat
  BY PacketAssumption, SizeAssumption
<1>2. \A i \in 1 .. NumFlit[p] :
         [pkt |-> p, id |-> i - 1, state |-> "IB", wait |-> 0] \in Flit
  BY <1>1 DEF Flit
<1>3. Flits(p) \in [1 .. NumFlit[p] -> Flit]
  BY <1>2 DEF Flits
<1> QED
  BY <1>1, <1>3

-----------------------------------------------------------------------------
(* The inductive invariant.  CreditsConserved speaks of linked channels    *)
(* only; a port without a link (the local port, the rim of a mesh) must be *)
(* shown to take no part in the exchange of credits, which holds because a *)
(* packet is only routed to ports that exist.                              *)

UnlinkedIdle ==
  \A c \in Channel : ~Linked(c) =>
     /\ credit[c] = BufferMax /\ due[c] = 0 /\ late[c] = 0
     /\ c[2] # LocalPort => input_buffer[c] = <<>> /\ output_buffer[c] = <<>>

OutputsExist ==
  \A c \in Channel : \/ output_id[c] = NoOutput
                     \/ output_id[c][1] = LocalPort
                     \/ <<c[1], output_id[c][1]>> \in DOMAIN Link

Inv == TypeOK /\ CreditsConserved /\ UnlinkedIdle /\ OutputsExist

\* The rotating start of run_a_cycle always names a router.
LEMMA RunningRouter ==
  ASSUME TypeOK
  PROVE  Running \in Routers /\ Mine \subseteq Channel
<1>1. Ratio * cycle + turn \in Nat /\ NumRouter \in Nat /\ NumRouter > 0
  <2>1. Ratio \in Nat /\ cycle \in Nat /\ turn \in Nat /\ NumRouter \in Nat /\ NumRouter > 0
    BY SizeAssumption DEF TypeOK
  <2>2. Ratio * cycle \in Nat
    BY <2>1
  <2> QED
    BY <2>1, <2>2
<1>2. (Ratio * cycle + turn) % NumRouter \in 0 .. NumRouter - 1
  BY <1>1
<1>3. Running \in Routers
  BY <1>2 DEF Running, Routers
<1> QED
  BY <1>3 DEF Mine, Channel

\* The constructor establishes the invariant: all buffers empty, all credits there.
LEMMA InitInv ==
  ASSUME Init
  PROVE  Inv
<1>1. TypeOK
  BY SizeAssumption DEF Init, TypeOK
<1>2. CreditsConserved
  <2> SUFFICES ASSUME NEW c \in Channel, Linked(c)
                 PROVE  credit[c] + Len(input_buffer[Far(c)]) + due[c] + late[c] = BufferMax
    BY DEF CreditsConserved
  <2>2. Far(c) \in Channel
    BY FarInvolutive
  <2> QED
    BY <2>2, SizeAssumption DEF Init
<1>3. UnlinkedIdle
  BY DEF Init, UnlinkedIdle
<1>4. OutputsExist
  BY DEF Init, OutputsExist
<1> QED
  BY <1>1, <1>2, <1>3, <1>4 DEF Inv

\* With credits conserved, none of the four counts of a link exceeds the buffer.
LEMMA CreditsFit ==
  ASSUME TypeOK, CreditsConserved, UnlinkedIdle, NEW c \in Channel
  PROVE  credit[c] + due[c] \in 0 .. BufferMax
<1>1. credit[c] \in 0 .. BufferMax /\ due[c] \in Nat /\ late[c] \in Nat /\ BufferMax \in Nat
  BY SizeAssumption DEF TypeOK
<1>2. CASE Linked(c)
  <2>1. Len(input_buffer[Far(c)]) \in Nat
    BY FarInvolutive, <1>2 DEF TypeOK
  <2> QED
    BY <1>1, <1>2, <2>1 DEF CreditsConserved
<1>3. CASE ~Linked(c)
  BY <1>1, <1>3 DEF UnlinkedIdle
<1> QED
  BY <1>2, <1>3

\* send and receive touch neither buffers nor credits.
LEMMA StepInterface ==
  ASSUME Inv, NEW p \in Packets, NEW r \in Routers, send(p) \/ receive(r)
  PROVE  Inv'
<1>1. TypeOK'
  <2>1. CASE send(p)
    BY <2>1, PacketAssumption DEF send, Inv, TypeOK, buffers, flow, clock
  <2>2. CASE receive(r)
    BY <2>2 DEF receive, Inv, TypeOK, buffers, flow, clock
  <2> QED
    BY <2>1, <2>2
<1>2. UNCHANGED <<buffers, output_id, flow>>
  BY DEF send, receive
<1>3. CreditsConserved' /\ UnlinkedIdle' /\ OutputsExist'
  BY <1>2 DEF Inv, CreditsConserved, UnlinkedIdle, OutputsExist, buffers, flow
<1> QED
  BY <1>1, <1>3 DEF Inv

\* process_pending_credit turns credits under way into credits held, one for one.
LEMMA StepCredit ==
  ASSUME Inv, process_pending_credit
  PROVE  Inv'
<1>1. TypeOK'
  <2>1. \A c \in Channel : credit[c] + due[c] \in 0 .. BufferMax
    BY CreditsFit DEF Inv
  <2>2. credit' \in [Channel -> 0 .. BufferMax] /\ due' \in [Channel -> Nat]
    BY <2>1 DEF Inv, TypeOK, process_pending_credit
  <2> QED
    BY <2>2 DEF Inv, TypeOK, process_pending_credit, buffers, clock
<1>2. \A c \in Channel : credit'[c] + due'[c] = credit[c] + due[c]
  BY DEF Inv, TypeOK, process_pending_credit
<1>3. CreditsConserved'
  <2> SUFFICES ASSUME NEW c \in Channel, Linked(c)
                 PROVE  credit'[c] + Len(input_buffer'[Far(c)]) + due'[c] + late'[c] = BufferMax
    BY DEF CreditsConserved, Linked, Far
  <2>2. Far(c) \in Channel /\ Len(input_buffer[Far(c)]) \in Nat
    BY FarInvolutive DEF Inv, TypeOK
  <2>3. credit[c] + Len(input_buffer[Far(c)]) + due[c] + late[c] = BufferMax
    BY DEF Inv, CreditsConserved
  <2>4. /\ credit[c] \in Int /\ due[c] \in Int /\ late[c] \in Int
        /\ credit'[c] \in Int /\ due'[c] \in Int
        /\ input_buffer'[Far(c)] = input_buffer[Far(c)] /\ late'[c] = late[c]
    BY <1>1 DEF Inv, TypeOK, process_pending_credit, buffers
  <2> DEFINE k == credit[c]
             n == Len(input_buffer[Far(c)])
             d == due[c]
             l == late[c]
             k1 == credit'[c]
             n1 == Len(input_buffer'[Far(c)])
             d1 == due'[c]
             l1 == late'[c]
  <2>5. /\ k \in Int /\ n \in Int /\ d \in Int /\ l \in Int /\ BufferMax \in Int
        /\ k1 \in Int /\ n1 \in Int /\ d1 \in Int /\ l1 \in Int
        /\ k + n + d + l = BufferMax
        /\ k1 + d1 = k + d /\ n1 = n /\ l1 = l
    BY <1>2, <2>2, <2>3, <2>4, SizeAssumption
  <2> HIDE DEF k, n, d, l, k1, n1, d1, l1
  <2>6. k1 + n1 + d1 + l1 = BufferMax
    BY ONLY <2>5
  <2> QED
    BY <2>6 DEF k1, n1, d1, l1
<1>4. UnlinkedIdle'
  BY SizeAssumption DEF Inv, TypeOK, UnlinkedIdle, process_pending_credit, buffers, Linked
<1>5. OutputsExist'
  BY DEF Inv, OutputsExist, process_pending_credit
<1> QED
  BY <1>1, <1>3, <1>4, <1>5 DEF Inv

\* What stage_lt sends has a flit, has credit, and is one channel per port.
LEMMA LeavingChannels ==
  ASSUME Inv, NEW c \in Leaving
  PROVE  /\ c \in Channel /\ output_buffer[c] # <<>> /\ credit[c] \in 1 .. BufferMax
         /\ Head(output_buffer[c]) \in Flit
         /\ Linked(c) \/ c[2] = LocalPort
<1>1. c \in Mine /\ output_buffer[c] # <<>> /\ credit[c] # 0
  BY DEF Leaving, Sendable
<1>2. c \in Channel
  BY <1>1, RunningRouter DEF Inv
<1>3. credit[c] \in 1 .. BufferMax
  BY <1>1, <1>2, SizeAssumption DEF Inv, TypeOK
<1>4. Head(output_buffer[c]) \in Flit
  BY <1>1, <1>2, HeadIsFlit DEF Inv, TypeOK
<1>5. Linked(c) \/ c[2] = LocalPort
  BY <1>1, <1>2 DEF Inv, UnlinkedIdle
<1> QED
  BY <1>1, <1>2, <1>3, <1>4, <1>5

\* stage_lt spends one credit for the one flit it puts in the neighbour's buffer.
LEMMA StepLT ==
  ASSUME Inv, stage_lt
  PROVE  Inv'
<1> USE DEF Inv
<1>1. input_buffer' \in [Channel -> Seq(Flit)]
  <2> SUFFICES ASSUME NEW c \in Channel, Linked(c), Far(c) \in Leaving
               PROVE  Append(input_buffer[c], Arriving(Head(output_buffer[Far(c)]))) \in Seq(Flit)
    BY DEF stage_lt, TypeOK
  <2>1. Arriving(Head(output_buffer[Far(c)])) \in Flit
    BY LeavingChannels, FlitMoves
  <2> QED
    BY <2>1, AppendFlit DEF TypeOK
<1>2. output_buffer' \in [Channel -> Seq(Flit)]
  <2>1. \A c \in Leaving : Tail(output_buffer[c]) \in Seq(Flit)
    BY LeavingChannels, HeadIsFlit DEF TypeOK
  <2> QED
    BY <2>1 DEF stage_lt, TypeOK
<1>3. credit' \in [Channel -> 0 .. BufferMax]
  <2>1. \A c \in Leaving : credit[c] - 1 \in 0 .. BufferMax
    BY LeavingChannels, SizeAssumption
  <2> QED
    BY <2>1 DEF stage_lt, TypeOK
<1>4. link_wait' \in [Routers \X Ports -> 0 .. LinkLatency]
  <2>1. LinkLatency \in 0 .. LinkLatency
    BY SizeAssumption
  <2> QED
    BY <2>1 DEF stage_lt, TypeOK
<1>5. req_buffer' \in [Routers -> Seq(Packets)] /\ stamp' \in [Packets -> Nat]
  <2> DEFINE ended == Ended(Leaving)
  <2>1. ended \subseteq Packets
    <3>1. \A c \in Leaving : Head(output_buffer[c]).pkt \in Packets
      BY LeavingChannels DEF Flit
    <3> QED
      BY <3>1 DEF Ended
  <2> HIDE DEF ended
  <2>2. ended # {} => (CHOOSE p \in ended : TRUE) \in Packets
    BY <2>1
  <2> DEFINE first == CHOOSE p \in ended : TRUE
  <2>3. req_buffer' = [r \in Routers |-> IF r = Running /\ ended # {}
                                         THEN Append(req_buffer[r], CHOOSE p \in ended : TRUE)
                                         ELSE req_buffer[r]]
    BY DEF stage_lt, ended
  <2>4. stamp' = [p \in Packets |-> IF p \in ended THEN 0 ELSE stamp[p]]
    BY DEF stage_lt, ended
  <2>5. stamp' \in [Packets -> Nat]
    BY <2>4 DEF TypeOK
  <2> HIDE DEF first
  <2>6. \A r \in Routers : ended # {} => Append(req_buffer[r], first) \in Seq(Packets)
    BY <2>2 DEF TypeOK, first
  <2>7. req_buffer' \in [Routers -> Seq(Packets)]
    BY <2>3, <2>6 DEF TypeOK, first
  <2> QED
    BY <2>5, <2>7
<1>6. output_vc_avail' \in [Channel -> BOOLEAN]
  BY DEF stage_lt, TypeOK
<1>7. TypeOK'
  BY <1>1, <1>2, <1>3, <1>4, <1>5, <1>6 DEF stage_lt, TypeOK
<1>8. CreditsConserved'
  <2> SUFFICES ASSUME NEW c \in Channel, Linked(c)
               PROVE  credit'[c] + Len(input_buffer'[Far(c)]) + due'[c] + late'[c] = BufferMax
    BY DEF CreditsConserved, Linked, Far
  <2>1. Far(c) \in Channel /\ Linked(Far(c)) /\ Far(Far(c)) = c /\ c[2] # LocalPort
    BY FarInvolutive
  <2>2. credit[c] + Len(input_buffer[Far(c)]) + due[c] + late[c] = BufferMax
    BY DEF CreditsConserved
  <2>3. /\ credit[c] \in Int /\ due[c] \in Int /\ late[c] \in Int
        /\ input_buffer[Far(c)] \in Seq(Flit) /\ Len(input_buffer[Far(c)]) \in Int
        /\ due'[c] = due[c] /\ late'[c] = late[c]
    BY <2>1 DEF TypeOK, stage_lt
  <2>4. CASE c \in Leaving
    <3>1. credit'[c] = credit[c] - 1
      BY <2>1, <2>4 DEF stage_lt
    <3>2. input_buffer'[Far(c)] = Append(input_buffer[Far(c)], Arriving(Head(output_buffer[c])))
      BY <2>1, <2>4 DEF stage_lt
    <3>3. Arriving(Head(output_buffer[c])) \in Flit
      BY <2>4, LeavingChannels, FlitMoves
    <3>4. Len(input_buffer'[Far(c)]) = Len(input_buffer[Far(c)]) + 1
      BY <2>3, <3>2, <3>3, AppendFlit
    <3>5. credit'[c] \in Int /\ Len(input_buffer'[Far(c)]) \in Int /\ BufferMax \in Int
      BY <2>3, <3>1, <3>4, SizeAssumption
    <3> QED
      BY ONLY <2>2, <2>3, <3>1, <3>4, <3>5
  <2>5. CASE c \notin Leaving
    <3>1. credit'[c] = credit[c] /\ input_buffer'[Far(c)] = input_buffer[Far(c)]
      BY <2>1, <2>5 DEF stage_lt
    <3> QED
      BY ONLY <2>2, <2>3, <3>1
  <2> QED
    BY <2>4, <2>5
<1>9. UnlinkedIdle'
  <2> SUFFICES ASSUME NEW c \in Channel, ~Linked(c)
               PROVE  /\ credit'[c] = BufferMax /\ due'[c] = 0 /\ late'[c] = 0
                      /\ c[2] # LocalPort => input_buffer'[c] = <<>> /\ output_buffer'[c] = <<>>
    BY DEF UnlinkedIdle, Linked
  <2>1. c \notin Leaving \/ c[2] = LocalPort
    BY LeavingChannels
  <2>2. credit'[c] = credit[c] /\ due'[c] = due[c] /\ late'[c] = late[c]
    BY <2>1 DEF stage_lt, TypeOK
  <2>3. input_buffer'[c] = input_buffer[c]
    BY DEF stage_lt, TypeOK
  <2>4. c[2] # LocalPort => output_buffer'[c] = output_buffer[c]
    BY <2>1 DEF stage_lt, TypeOK
  <2> QED
    BY <2>2, <2>3, <2>4 DEF UnlinkedIdle
<1>10. OutputsExist'
  BY DEF OutputsExist, stage_lt
<1> QED
  BY <1>7, <1>8, <1>9, <1>10

\* The winners of stage_sa are inputs with a flit, one per output port.
LEMMA WinningChannels ==
  ASSUME Inv, NEW c \in Winners
  PROVE  /\ c \in Channel /\ input_buffer[c] # <<>>
         /\ Head(input_buffer[c]) \in Flit
         /\ Linked(c) \/ c[2] = LocalPort
         /\ Out(c) \in Channel
         /\ Linked(Out(c)) \/ Out(c)[2] = LocalPort
<1> USE DEF Inv
<1>1. PICK o \in Ports : Movable(o) # {} /\ c = Oldest(Movable(o))
  BY DEF Winners
<1>2. Movable(o) \subseteq Channel
  BY RunningRouter DEF Movable
<1>3. \A d \in Movable(o) : Head(input_buffer[d]).pkt \in Packets
  <2> SUFFICES ASSUME NEW d \in Movable(o) PROVE Head(input_buffer[d]).pkt \in Packets
    OBVIOUS
  <2>1. d \in Channel /\ input_buffer[d] # <<>>
    BY <1>2 DEF Movable
  <2> QED
    BY <2>1, HeadIsFlit DEF TypeOK
<1>4. c \in Movable(o)
  BY <1>1, <1>2, <1>3, OldestExists DEF TypeOK
<1>5. c \in Channel /\ input_buffer[c] # <<>> /\ output_id[c][1] = o
  BY <1>2, <1>4 DEF Movable
<1>6. Head(input_buffer[c]) \in Flit
  BY <1>5, HeadIsFlit DEF TypeOK
<1>7. Linked(c) \/ c[2] = LocalPort
  BY <1>5 DEF UnlinkedIdle
<1>8. output_id[c] # NoOutput
  BY <1>5, SizeAssumption DEF NoOutput, Ports
<1>9. output_id[c] \in Ports \X VCs
  BY <1>5, <1>8 DEF TypeOK
<1>10. Out(c) \in Channel
  BY <1>5, <1>9 DEF Out, Channel
<1>11. Linked(Out(c)) \/ Out(c)[2] = LocalPort
  BY <1>5, <1>8 DEF OutputsExist, Out, Linked
<1> QED
  BY <1>5, <1>6, <1>7, <1>10, <1>11

\* A flit that leaves an input buffer is matched by one credit, for that channel.
LEMMA CreditedChannels ==
  ASSUME Inv, NEW c \in Channel
  PROVE  c \in Credited(Winners) <=> Linked(c) /\ Far(c) \in Winners
<1>1. ASSUME c \in Credited(Winners) PROVE Linked(c) /\ Far(c) \in Winners
  <2>1. PICK d \in Winners : d[2] # LocalPort /\ c = Far(d)
    BY <1>1 DEF Credited
  <2>2. d \in Channel /\ Linked(d)
    BY <2>1, WinningChannels
  <2> QED
    BY <2>1, <2>2, FarInvolutive
<1>2. ASSUME Linked(c), Far(c) \in Winners PROVE c \in Credited(Winners)
  <2>1. Far(c) \in Channel /\ Linked(Far(c)) /\ Far(Far(c)) = c
    BY <1>2, FarInvolutive
  <2>2. Far(c)[2] # LocalPort
    BY <2>1, FarInvolutive
  <2> QED
    BY <1>2, <2>1, <2>2 DEF Credited
<1> QED
  BY <1>1, <1>2

\* stage_sa and stage_st return one credit for the one flit they take from an input.
LEMMA StepSwitch ==
  ASSUME Inv, stage_sa_st
  PROVE  Inv'
<1> USE DEF Inv
<1> DEFINE Counted(f) == [c \in Channel |-> IF c \in Credited(Winners) THEN f[c] + 1 ELSE f[c]]
<1>1. \/ late' = Counted(late) /\ due' = due
      \/ due' = Counted(due) /\ late' = late
  BY DEF stage_sa_st
<1>2. input_buffer' \in [Channel -> Seq(Flit)]
  <2>1. \A c \in Winners : Tail(input_buffer[c]) \in Seq(Flit)
    BY WinningChannels, HeadIsFlit DEF TypeOK
  <2> QED
    BY <2>1 DEF stage_sa_st, TypeOK
<1>3. output_buffer' \in [Channel -> Seq(Flit)]
  <2> DEFINE Into(o) == CHOOSE c \in Winners : Out(c) = o
             Moved(o) == [Head(input_buffer[Into(o)]) EXCEPT !.state = "ST"]
  <2>1. ASSUME NEW o \in Channel, \E c \in Winners : Out(c) = o
        PROVE  Append(output_buffer[o], Moved(o)) \in Seq(Flit)
    <3>1. Into(o) \in Winners
      BY <2>1
    <3>2. Moved(o) \in Flit
      BY <3>1, WinningChannels, FlitMoves
    <3> QED
      BY <3>2, AppendFlit DEF TypeOK
  <2>2. output_buffer' = [o \in Channel |-> IF \E c \in Winners : Out(c) = o
                                            THEN Append(output_buffer[o], Moved(o))
                                            ELSE output_buffer[o]]
    BY DEF stage_sa_st
  <2> HIDE DEF Moved
  <2> QED
    BY <2>1, <2>2 DEF TypeOK
<1>4. output_id' \in [Channel -> (Ports \X VCs) \cup {NoOutput}]
  BY DEF stage_sa_st, TypeOK
<1>5. due' \in [Channel -> Nat] /\ late' \in [Channel -> Nat]
  <2>1. Counted(late) \in [Channel -> Nat] /\ Counted(due) \in [Channel -> Nat]
    BY DEF TypeOK
  <2> HIDE DEF Counted
  <2> QED
    BY <1>1, <2>1 DEF TypeOK
<1>6. TypeOK'
  BY <1>2, <1>3, <1>4, <1>5 DEF stage_sa_st, TypeOK, clock
<1>7. CreditsConserved'
  <2> SUFFICES ASSUME NEW c \in Channel, Linked(c)
               PROVE  credit'[c] + Len(input_buffer'[Far(c)]) + due'[c] + late'[c] = BufferMax
    BY DEF CreditsConserved, Linked, Far
  <2>1. Far(c) \in Channel
    BY FarInvolutive
  <2>2. credit[c] + Len(input_buffer[Far(c)]) + due[c] + late[c] = BufferMax
    BY DEF CreditsConserved
  <2>3. /\ credit[c] \in Int /\ due[c] \in Int /\ late[c] \in Int
        /\ input_buffer[Far(c)] \in Seq(Flit) /\ Len(input_buffer[Far(c)]) \in Int
        /\ BufferMax \in Int
    BY <2>1, SizeAssumption DEF TypeOK
  <2>4. credit'[c] = credit[c] /\ due'[c] \in Int /\ late'[c] \in Int
    BY <1>5 DEF stage_sa_st
  <2> DEFINE k == credit[c]
             n == Len(input_buffer[Far(c)])
             d == due[c]
             l == late[c]
             k1 == credit'[c]
             n1 == Len(input_buffer'[Far(c)])
             d1 == due'[c]
             l1 == late'[c]
  <2>5. n1 \in Int /\ d1 + l1 + n1 = d + l + n
    <3>0. d \in Int /\ l \in Int /\ n \in Int
      BY <2>3
    <3>1. CASE Far(c) \in Winners
      <4>1. c \in Credited(Winners)
        BY <3>1, CreditedChannels
      <4>2. \/ d1 = d /\ l1 = l + 1
            \/ d1 = d + 1 /\ l1 = l
        BY <1>1, <4>1
      <4>3. input_buffer'[Far(c)] = Tail(input_buffer[Far(c)])
        BY <2>1, <3>1 DEF stage_sa_st
      <4>4. n1 = n - 1
        BY <2>3, <3>1, <4>3, WinningChannels, HeadIsFlit
      <4> HIDE DEF d, l, n, d1, l1, n1
      <4> QED
        BY ONLY <3>0, <4>2, <4>4
    <3>2. CASE Far(c) \notin Winners
      <4>1. c \notin Credited(Winners)
        BY <3>2, CreditedChannels
      <4>2. d1 = d /\ l1 = l
        BY <1>1, <4>1
      <4>3. n1 = n
        BY <2>1, <3>2 DEF stage_sa_st
      <4> HIDE DEF d, l, n, d1, l1, n1
      <4> QED
        BY ONLY <3>0, <4>2, <4>3
    <3> QED
      BY <3>1, <3>2
  <2>6. /\ k \in Int /\ n \in Int /\ d \in Int /\ l \in Int /\ BufferMax \in Int
        /\ n1 \in Int /\ d1 \in Int /\ l1 \in Int
        /\ k + n + d + l = BufferMax
        /\ k1 = k /\ d1 + l1 + n1 = d + l + n
    BY <2>2, <2>3, <2>4, <2>5
  <2> HIDE DEF k, n, d, l, k1, n1, d1, l1
  <2>7. k1 + n1 + d1 + l1 = BufferMax
    BY ONLY <2>6
  <2> QED
    BY <2>7 DEF k1, n1, d1, l1
<1>8. UnlinkedIdle'
  <2> SUFFICES ASSUME NEW c \in Channel, ~Linked(c)
               PROVE  /\ credit'[c] = BufferMax /\ due'[c] = 0 /\ late'[c] = 0
                      /\ c[2] # LocalPort => input_buffer'[c] = <<>> /\ output_buffer'[c] = <<>>
    BY DEF UnlinkedIdle, Linked
  <2>1. c \notin Credited(Winners)
    BY CreditedChannels
  <2>2. due'[c] = due[c] /\ late'[c] = late[c] /\ credit'[c] = credit[c]
    BY <1>1, <2>1 DEF stage_sa_st
  <2>3. ASSUME c[2] # LocalPort
        PROVE  input_buffer'[c] = input_buffer[c] /\ output_buffer'[c] = output_buffer[c]
    <3>1. c \notin Winners /\ ~\E d \in Winners : Out(d) = c
      BY <2>3, WinningChannels
    <3> QED
      BY <3>1 DEF stage_sa_st
  <2> QED
    BY <2>2, <2>3 DEF UnlinkedIdle
<1>9. OutputsExist'
  BY DEF OutputsExist, stage_sa_st
<1> QED
  BY <1>6, <1>7, <1>8, <1>9

\* A step that keeps the length of every linked input buffer, and the credits.
LEMMA LengthsKept ==
  ASSUME Inv, UNCHANGED flow,
         \A c \in Channel : Linked(c) => Len(input_buffer'[c]) = Len(input_buffer[c])
  PROVE  CreditsConserved'
<1> SUFFICES ASSUME NEW c \in Channel, Linked(c)
             PROVE  credit'[c] + Len(input_buffer'[Far(c)]) + due'[c] + late'[c] = BufferMax
  BY DEF CreditsConserved, Linked, Far
<1>1. Len(input_buffer'[Far(c)]) = Len(input_buffer[Far(c)])
  BY FarInvolutive
<1>2. credit' = credit /\ due' = due /\ late' = late
  BY DEF flow
<1>3. credit[c] + Len(input_buffer[Far(c)]) + due[c] + late[c] = BufferMax
  BY DEF Inv, CreditsConserved
<1> QED
  BY ONLY <1>1, <1>2, <1>3

\* stage_rc only marks heads.
LEMMA StepRC ==
  ASSUME Inv, stage_rc
  PROVE  Inv'
<1> USE DEF Inv
<1>1. \A c \in Channel :
         /\ input_buffer'[c] \in Seq(Flit)
         /\ Len(input_buffer'[c]) = Len(input_buffer[c])
         /\ input_buffer[c] = <<>> => input_buffer'[c] = <<>>
  <2> SUFFICES ASSUME NEW c \in Channel
               PROVE  /\ input_buffer'[c] \in Seq(Flit)
                      /\ Len(input_buffer'[c]) = Len(input_buffer[c])
                      /\ input_buffer[c] = <<>> => input_buffer'[c] = <<>>
    OBVIOUS
  <2>1. input_buffer[c] \in Seq(Flit)
    BY DEF TypeOK
  <2>2. \/ input_buffer'[c] = input_buffer[c]
        \/ /\ input_buffer[c] # <<>>
           /\ input_buffer'[c] = [input_buffer[c] EXCEPT ![1].state = "RC"]
    BY DEF stage_rc
  <2> QED
    BY <2>1, <2>2, FrontState DEF FlitState
<1>2. input_buffer' \in [Channel -> Seq(Flit)]
  BY <1>1 DEF stage_rc
<1>3. TypeOK'
  BY <1>2 DEF TypeOK, stage_rc, flow, clock
<1>4. CreditsConserved'
  BY <1>1, LengthsKept DEF stage_rc
<1>5. UnlinkedIdle'
  BY <1>1 DEF UnlinkedIdle, Linked, stage_rc, flow
<1>6. OutputsExist'
  BY DEF OutputsExist, stage_rc
<1> QED
  BY <1>3, <1>4, <1>5, <1>6

\* stage_vca marks a head and gives its input an output that exists.
LEMMA StepVCA ==
  ASSUME Inv, stage_vca
  PROVE  Inv'
<1> USE DEF Inv
<1> DEFINE o == CHOOSE x \in Grantable : \A y \in Grantable : Before(x, y)
           c == Oldest(Requests(o))
<1>1. Grantable \subseteq Channel /\ Grantable # {}
  BY RunningRouter DEF Grantable, stage_vca
<1>2. o \in Grantable
  BY <1>1, FirstExists
<1> HIDE DEF o
<1>3. o \in Mine /\ o \in Channel /\ Requests(o) # {}
  BY <1>2, RunningRouter DEF Grantable
<1>4. Requests(o) \subseteq Channel
  BY RunningRouter DEF Requests
<1>5. \A d \in Requests(o) : Head(input_buffer[d]).pkt \in Packets
  <2> SUFFICES ASSUME NEW d \in Requests(o) PROVE Head(input_buffer[d]).pkt \in Packets
    OBVIOUS
  <2>1. d \in Channel /\ input_buffer[d] # <<>>
    BY <1>4 DEF Requests
  <2> QED
    BY <2>1, HeadIsFlit DEF TypeOK
<1>6. c \in Requests(o)
  BY <1>3, <1>4, <1>5, OldestExists DEF TypeOK
<1> HIDE DEF c
<1>7. /\ c \in Channel /\ c \in Mine /\ input_buffer[c] # <<>>
      /\ Head(input_buffer[c]).pkt \in Packets
      /\ o[2] \in Routes(Running, Head(input_buffer[c]).pkt, o[3])
  BY <1>4, <1>5, <1>6 DEF Requests
<1>8. /\ input_buffer' = [input_buffer EXCEPT ![c][1].state = "VCA"]
      /\ output_id' = [output_id EXCEPT ![c] = <<o[2], o[3]>>]
      /\ output_vc_avail' = [output_vc_avail EXCEPT ![o] = FALSE]
  BY DEF stage_vca, o, c
<1>9. o[1] = Running /\ c[1] = Running /\ o[2] \in Ports /\ o[3] \in VCs
  BY <1>3, <1>7 DEF Mine
<1>10. \A x \in Channel :
         /\ input_buffer'[x] \in Seq(Flit)
         /\ Len(input_buffer'[x]) = Len(input_buffer[x])
         /\ input_buffer[x] = <<>> => input_buffer'[x] = <<>>
  <2> SUFFICES ASSUME NEW x \in Channel
               PROVE  /\ input_buffer'[x] \in Seq(Flit)
                      /\ Len(input_buffer'[x]) = Len(input_buffer[x])
                      /\ input_buffer[x] = <<>> => input_buffer'[x] = <<>>
    OBVIOUS
  <2>1. input_buffer[x] \in Seq(Flit)
    BY DEF TypeOK
  <2>2. \/ input_buffer'[x] = input_buffer[x]
        \/ /\ input_buffer[x] # <<>>
           /\ input_buffer'[x] = [input_buffer[x] EXCEPT ![1].state = "VCA"]
    BY <1>7, <1>8 DEF TypeOK
  <2> QED
    BY <2>1, <2>2, FrontState DEF FlitState
<1>11. input_buffer' \in [Channel -> Seq(Flit)]
  BY <1>8, <1>10 DEF TypeOK
<1>12. output_id' \in [Channel -> (Ports \X VCs) \cup {NoOutput}]
  BY <1>8, <1>9 DEF TypeOK
<1>13. TypeOK'
  BY <1>8, <1>11, <1>12 DEF TypeOK, stage_vca, flow, clock
<1>14. CreditsConserved'
  BY <1>10, LengthsKept DEF stage_vca
<1>15. UnlinkedIdle'
  BY <1>10 DEF UnlinkedIdle, Linked, stage_vca, flow
<1>16. OutputsExist'
  <2>1. o[2] = LocalPort \/ <<c[1], o[2]>> \in DOMAIN Link
    BY <1>7, <1>9, RunningRouter, RoutesAssumption
  <2> QED
    BY <1>7, <1>8, <2>1 DEF OutputsExist, TypeOK
<1> QED
  BY <1>13, <1>14, <1>15, <1>16

\* local_packet_injection adds flits to the local input only, which has no link.
LEMMA StepInjection ==
  ASSUME Inv, local_packet_injection
  PROVE  Inv'
<1> USE DEF Inv
<1> DEFINE p == Head(injection_buffer[Running])
           c == CHOOSE x \in Roomy(p) : \A y \in Roomy(p) : Before(x, y)
<1>1. /\ Running \in Routers /\ injection_buffer[Running] \in Seq(Packets)
      /\ injection_buffer[Running] # <<>> /\ Roomy(p) # {}
  BY RunningRouter DEF local_packet_injection, Injectable, TypeOK
<1>2. p \in Packets /\ Tail(injection_buffer[Running]) \in Seq(Packets)
  BY <1>1
<1> HIDE DEF p
<1>3. Roomy(p) \subseteq Channel
  BY RunningRouter DEF Roomy
<1>4. c \in Roomy(p)
  BY <1>1, <1>3, FirstExists
<1>5. /\ input_buffer' = [input_buffer EXCEPT ![c] = @ \o Flits(p)]
      /\ injection_buffer' = [injection_buffer EXCEPT ![Running] = Tail(@)]
      /\ stamp' = [stamp EXCEPT ![p] = now]
  BY DEF local_packet_injection, p
<1> HIDE DEF c
<1>6. c \in Channel /\ c[2] = LocalPort
  BY <1>3, <1>4 DEF Roomy
<1>7. ~Linked(c)
  BY <1>6, FarInvolutive
<1>8. input_buffer[c] \o Flits(p) \in Seq(Flit)
  <2>1. input_buffer[c] \in Seq(Flit) /\ Flits(p) \in Seq(Flit)
    BY <1>2, <1>6, FlitsOfPacket DEF TypeOK
  <2> QED
    BY ONLY <2>1
<1>9. input_buffer' \in [Channel -> Seq(Flit)]
  BY <1>5, <1>8 DEF TypeOK
<1>10. injection_buffer' \in [Routers -> Seq(Packets)] /\ stamp' \in [Packets -> Nat]
  BY <1>1, <1>2, <1>5 DEF TypeOK
<1>11. TypeOK'
  BY <1>9, <1>10 DEF TypeOK, local_packet_injection, flow
<1>12. \A x \in Channel : x # c => input_buffer'[x] = input_buffer[x]
  BY <1>5 DEF TypeOK
<1>13. CreditsConserved'
  BY <1>7, <1>12, LengthsKept DEF local_packet_injection
<1>14. UnlinkedIdle'
  BY <1>6, <1>12 DEF UnlinkedIdle, Linked, local_packet_injection, flow
<1>15. OutputsExist'
  BY DEF OutputsExist, local_packet_injection
<1> QED
  BY <1>11, <1>13, <1>14, <1>15

\* Passing the turn, or leaving stage_vca, changes no buffer and no credit.
LEMMA StepHandover ==
  ASSUME Inv, stage_vca_ends \/ next_router
  PROVE  Inv'
<1> USE DEF Inv
<1>1. TypeOK'
  <2>1. CASE stage_vca_ends
    BY <2>1 DEF TypeOK, stage_vca_ends, buffers, flow, clock
  <2>2. CASE next_router
    <3>1. turn' \in 0 .. NumRouter - 1
      BY <2>2, SizeAssumption DEF TypeOK, next_router
    <3> QED
      BY <2>2, <3>1 DEF TypeOK, next_router, buffers, flow, clock
  <2> QED
    BY <2>1, <2>2
<1>2. UNCHANGED <<buffers, flow, output_id>>
  BY DEF stage_vca_ends, next_router
<1>3. CreditsConserved' /\ UnlinkedIdle' /\ OutputsExist'
  BY <1>2 DEF CreditsConserved, UnlinkedIdle, OutputsExist, buffers, flow
<1> QED
  BY <1>1, <1>3

\* ++m_cycle makes this cycle's credits due and lets the waits elapse.
LEMMA StepNextCycle ==
  ASSUME Inv, next_cycle
  PROVE  Inv'
<1> USE DEF Inv
<1>1. \A c \in Channel :
         /\ input_buffer'[c] \in Seq(Flit)
         /\ Len(input_buffer'[c]) = Len(input_buffer[c])
         /\ input_buffer[c] = <<>> => input_buffer'[c] = <<>>
  <2> SUFFICES ASSUME NEW c \in Channel
               PROVE  /\ input_buffer'[c] \in Seq(Flit)
                      /\ Len(input_buffer'[c]) = Len(input_buffer[c])
                      /\ input_buffer[c] = <<>> => input_buffer'[c] = <<>>
    OBVIOUS
  <2>1. input_buffer[c] \in Seq(Flit)
    BY DEF TypeOK
  <2>2. input_buffer'[c] = [i \in DOMAIN input_buffer[c] |->
                              [input_buffer[c][i] EXCEPT !.wait = Elapsed(@)]]
    BY DEF next_cycle
  <2>3. input_buffer'[c] \in Seq(Flit) /\ Len(input_buffer'[c]) = Len(input_buffer[c])
    BY <2>1, <2>2, WaitsElapse
  <2> QED
    BY <2>1, <2>3
<1>2. input_buffer' \in [Channel -> Seq(Flit)]
  BY <1>1 DEF next_cycle
<1>3. cycle' \in Nat
  <2>1. Period \in Nat /\ Period > 0
    BY SizeAssumption DEF Period
  <2>2. cycle \in Nat /\ cycle' = (cycle + 1) % Period
    BY DEF TypeOK, next_cycle
  <2> QED
    BY <2>1, <2>2
<1>4. link_wait' \in [Routers \X Ports -> 0 .. LinkLatency]
  BY SizeAssumption DEF TypeOK, next_cycle, Elapsed
<1>5. stamp' \in [Packets -> Nat] /\ now' \in Nat
  <2> DEFINE stamps == {stamp[p] : p \in Packets} \ {0}
  <2>1. IsFiniteSet({stamp[p] : p \in Packets})
    <3>1. stamp \in Surjection(Packets, {stamp[p] : p \in Packets})
      BY DEF TypeOK, Surjection
    <3> QED
      BY <3>1, FS_Surjection, PacketAssumption
  <2>2. IsFiniteSet(stamps)
    BY <2>1, FS_Subset
  <2>3. \A p \in Packets : Cardinality({s \in stamps : s <= stamp[p]}) \in Nat
    BY <2>2, FS_Subset, FS_CardinalityType
  <2>4. Cardinality(stamps) \in Nat
    BY <2>2, FS_CardinalityType
  <2> QED
    BY <2>3, <2>4 DEF next_cycle
<1>6. due' \in [Channel -> Nat] /\ late' \in [Channel -> Nat]
  BY DEF TypeOK, next_cycle
<1>7. TypeOK'
  <2>1. turn' \in 0 .. NumRouter - 1
    BY SizeAssumption DEF next_cycle
  <2> QED
    BY <1>2, <1>3, <1>4, <1>5, <1>6, <2>1 DEF TypeOK, next_cycle
<1>8. CreditsConserved'
  <2> SUFFICES ASSUME NEW c \in Channel, Linked(c)
               PROVE  credit'[c] + Len(input_buffer'[Far(c)]) + due'[c] + late'[c] = BufferMax
    BY DEF CreditsConserved, Linked, Far
  <2>1. Far(c) \in Channel
    BY FarInvolutive
  <2>2. credit[c] + Len(input_buffer[Far(c)]) + due[c] + late[c] = BufferMax
    BY DEF CreditsConserved
  <2> DEFINE k == credit[c]
             n == Len(input_buffer[Far(c)])
             d == due[c]
             l == late[c]
             k1 == credit'[c]
             n1 == Len(input_buffer'[Far(c)])
             d1 == due'[c]
             l1 == late'[c]
  <2>3. /\ k \in Int /\ n \in Int /\ d \in Int /\ l \in Int /\ BufferMax \in Int
        /\ k1 = k /\ n1 = n /\ d1 = d + l /\ l1 = 0
    BY <1>1, <2>1, SizeAssumption DEF TypeOK, next_cycle
  <2>4. k + n + d + l = BufferMax
    BY <2>2
  <2> HIDE DEF k, n, d, l, k1, n1, d1, l1
  <2>5. k1 + n1 + d1 + l1 = BufferMax
    BY ONLY <2>3, <2>4
  <2> QED
    BY <2>5 DEF k1, n1, d1, l1
<1>9. UnlinkedIdle'
  BY <1>1 DEF UnlinkedIdle, Linked, next_cycle
<1>10. OutputsExist'
  BY DEF OutputsExist, next_cycle
<1> QED
  BY <1>7, <1>8, <1>9, <1>10

-----------------------------------------------------------------------------
(* The theorems.                                                           *)

\* Every step of the network preserves the invariant.
LEMMA StepInv ==
  ASSUME Inv, [Next]_vars
  PROVE  Inv'
<1>1. CASE \E p \in Packets : send(p)
  <2>1. PICK p \in Packets : send(p)
    BY <1>1
  <2>2. Src[p] \in Routers
    BY PacketAssumption
  <2> QED
    BY <2>1, <2>2, StepInterface
<1>2. CASE \E r \in Routers : receive(r)
  <2>1. PICK r \in Routers : receive(r)
    BY <1>2
  <2>2. req_buffer[r] \in Seq(Packets) /\ req_buffer[r] # <<>>
    BY <2>1 DEF Inv, TypeOK, receive
  <2>3. Head(req_buffer[r]) \in Packets
    BY <2>2
  <2> QED
    BY <2>1, <2>3, StepInterface
<1>3. CASE run_a_cycle
  BY <1>3, StepCredit, StepLT, StepSwitch, StepRC, StepVCA, StepInjection,
     StepHandover, StepNextCycle DEF run_a_cycle
<1>4. CASE UNCHANGED vars
  BY <1>4 DEF Inv, TypeOK, CreditsConserved, UnlinkedIdle, OutputsExist, vars,
              buffers, flow, clock
<1> QED
  BY <1>1, <1>2, <1>3, <1>4 DEF Next

\* The inductive invariant holds in every reachable state: types, conservation of
\* credits on the links, no credit moving where there is no link, and every input
\* that owns an output owns one that leads somewhere.
THEOREM InvAlways == Spec => []Inv
<1>1. Init => Inv
  BY InitInv
<1>2. Inv /\ [Next]_vars => Inv'
  BY StepInv
<1> QED
  BY <1>1, <1>2, PTL DEF Spec

\* The variables of the network keep their types; in particular no credit counter
\* of stage_lt goes below zero or above the size of the buffer it stands for.
THEOREM NetworkTyped == Spec => []TypeOK
<1>1. Inv => TypeOK
  BY DEF Inv
<1> QED
  BY <1>1, InvAlways, PTL

\* Credits are conserved on every link of every topology.
THEOREM CreditsAlwaysConserved == Spec => []CreditsConserved
<1>1. Inv => CreditsConserved
  BY DEF Inv
<1> QED
  BY <1>1, InvAlways, PTL

\* No input buffer fed by a link ever holds more flits than m_buffer_max_size:
\* insert_packet, which does not check, never has to.
THEOREM NoBufferOverrun ==
  Spec => [](\A c \in Channel : Linked(c) => Len(input_buffer[c]) <= BufferMax)
<1>1. Inv => \A c \in Channel : Linked(c) => Len(input_buffer[c]) <= BufferMax
  <2> SUFFICES ASSUME Inv, NEW c \in Channel, Linked(c)
               PROVE  Len(input_buffer[c]) <= BufferMax
    OBVIOUS
  <2>1. Far(c) \in Channel /\ Linked(Far(c)) /\ Far(Far(c)) = c
    BY FarInvolutive
  <2>2. credit[Far(c)] + Len(input_buffer[c]) + due[Far(c)] + late[Far(c)] = BufferMax
    BY <2>1 DEF Inv, CreditsConserved
  <2>3. /\ credit[Far(c)] \in Nat /\ Len(input_buffer[c]) \in Nat
        /\ due[Far(c)] \in Nat /\ late[Far(c)] \in Nat /\ BufferMax \in Nat
    BY <2>1, SizeAssumption DEF Inv, TypeOK
  <2> QED
    BY ONLY <2>2, <2>3
<1> QED
  BY <1>1, InvAlways, PTL
=============================================================================
