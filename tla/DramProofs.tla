----------------------------- MODULE DramProofs -----------------------------
(***************************************************************************)
(* The memory controller, for every number of channels, banks, buffer      *)
(* entries and requests, every bus width, all latencies and every address  *)
(* mapping: the banks obey their protocol, the bus its width, and a read   *)
(* never passes a write-back of its line.                                  *)
(*                                                                         *)
(* BankInv says what one bank keeps, from one call of run_a_cycle to the   *)
(* next.  The scheduling policies order the entries of a bank only because *)
(* no two of them came in the same cycle, so the times of arrival are part *)
(* of it.                                                                  *)
(***************************************************************************)
EXTENDS DramCtrl, NatLemmas, FiniteSetTheorems, FunctionTheorems, SequenceTheorems, TLAPS

Phases == {"send", "delay", "cmd", "data", "complete", "new", "receive", "check"}

\* an entry of bank b: its row and bank are those of its address, and it came in
\* an earlier cycle, or in this one once receive has run
EntryOK(b, e) ==
  /\ e \in Entry
  /\ e.rid = RowOf(e.req.addr) /\ BankOf(e.req.addr) = b
  /\ e.timestamp <= m_cycle /\ (phase # "check" => e.timestamp < m_cycle)

QueueOK(b) ==
  /\ \A e \in m_buffer[b] : EntryOK(b, e) /\ e.state = "INIT"
  /\ \A e, f \in m_buffer[b] : e.timestamp = f.timestamp => e = f

CurrentOK(b) ==
  m_current_list[b] # None => EntryOK(b, m_current_list[b]) /\ ~ InState(b, "INIT")

\* the waits of a bank (see BanksObeyProtocol)
WaitsOK(b) ==
  /\ InState(b, "DATA") \/ InState(b, "DATA_WAIT") =>
       m_current_list[b].rid = m_current_rid[b]
  /\ InState(b, "DATA") <=> m_data_avail[b] # Never
  /\ InState(b, "DATA_WAIT") <=> m_data_ready[b] # Never
  /\ InState(b, "CMD_WAIT") => m_bank_ready[b] # Never
  /\ InState(b, "CMD_WAIT") /\ m_current_rid[b] # Never =>
       m_current_list[b].rid = m_current_rid[b]

OrderOK(b) ==
  m_current_list[b] # None =>
    \A e \in m_buffer[b] :
      /\ e.req.type = "WB" /\ e.req.addr = m_current_list[b].req.addr
      => m_current_list[b].timestamp < e.timestamp

BankInv(b) == QueueOK(b) /\ CurrentOK(b) /\ WaitsOK(b) /\ OrderOK(b)

TypeInv ==
  TypeOK /\ phase \in Phases /\ net \in Seq(Requests) /\ issued \in 0 .. MaxRequests

DramInv == TypeInv /\ (\A b \in Banks : BankInv(b)) /\ BandwidthKept

-----------------------------------------------------------------------------
(* Constants, requests and entries.                                        *)

LEMMA Constants ==
  /\ NumChannel \in Nat \ {0} /\ BanksPerChannel \in Nat \ {0}
  /\ BusWidth \in Nat \ {0} /\ BufferSize \in Nat \ {0}
  /\ ActivateLatency \in Nat /\ PrechargeLatency \in Nat /\ ColumnLatency \in Nat
  /\ StarvationLimit \in Nat /\ MaxRequests \in Nat /\ MaxCycle \in Nat
  /\ Knobs \subseteq KnobSettings
BY ConstantsOK

LEMMA BanksTypes == Banks \subseteq Nat /\ \A c \in Channels : BanksOf(c) \subseteq Banks
<1>1. \A n, m \in Nat : n * m \in Nat
  OBVIOUS
<1>2. NumChannel * BanksPerChannel \in Nat
  BY <1>1, Constants
<1>3. Banks \subseteq Nat
  BY <1>2 DEF Banks
<1>4. ASSUME NEW c \in Channels, NEW b \in BanksOf(c)
      PROVE  b \in Banks
  <2>1. c \in Nat /\ c + 1 <= NumChannel
    BY Constants DEF Channels
  <2>2. c * BanksPerChannel \in Nat /\ (c + 1) * BanksPerChannel \in Nat
    BY <2>1, <1>1, Constants
  <2>3. \A x, y, z \in Nat : x <= y => x * z <= y * z
    BY Z3
  <2>4. (c + 1) * BanksPerChannel <= NumChannel * BanksPerChannel
    BY <2>1, <2>3, Constants
  <2> QED
    BY <2>2, <2>4, <1>2 DEF Banks, BanksOf
<1> QED
  BY <1>3, <1>4

LEMMA RequestTypes ==
  ASSUME NEW r \in Requests
  PROVE  /\ r.id \in 1 .. MaxRequests /\ r.size \in Nat
         /\ BankOf(r.addr) \in Banks /\ RowOf(r.addr) \in Nat
BY ConstantsOK DEF Requests, Request

LEMMA RequestMade ==
  ASSUME NEW n \in 1 .. MaxRequests, NEW k \in Kinds
  PROVE  Request(n, k) \in Requests /\ Request(n, k).id = n
BY DEF Requests, Request

\* f is the entry e in another state
Restated(e, f, s) ==
  /\ f \in Entry /\ f.state = s /\ f.req = e.req /\ f.rid = e.rid
  /\ f.timestamp = e.timestamp

LEMMA EntryRestated ==
  ASSUME NEW e \in Entry, NEW f, f = [e EXCEPT !.state = "CMD"]
                              \/ f = [e EXCEPT !.state = "CMD_WAIT"]
                              \/ f = [e EXCEPT !.state = "DATA"]
                              \/ f = [e EXCEPT !.state = "DATA_WAIT"]
  PROVE  Restated(e, f, f.state)
BY DEF Entry, Restated

LEMMA NoneNoEntry == None \notin Entry /\ None.state = "NONE" /\ \A e \in Entry : e # None /\ e.state # "NONE"
BY DEF None, Entry

-----------------------------------------------------------------------------
(* The choices of the schedulers exist.                                    *)

LEMMA EarliestExists ==
  ASSUME NEW S, S \subseteq Entry, S # {}
  PROVE  \E e \in S : \A f \in S : e.timestamp <= f.timestamp
<1> DEFINE T == {e.timestamp : e \in S}
<1>1. T \subseteq Nat /\ T # {}
  BY DEF Entry
<1>2. PICK t \in T : \A u \in T : t <= u
  BY <1>1, SmallestExists
<1>3. PICK e \in S : e.timestamp = t
  OBVIOUS
<1> QED
  BY <1>2, <1>3

\* schedule(b) is an entry of the bank before all others
LEMMA ScheduleFirst ==
  ASSUME NEW b \in Banks, m_buffer[b] \subseteq Entry, m_buffer[b] # {},
         \A e, f \in m_buffer[b] : e.timestamp = f.timestamp => e = f
  PROVE  /\ schedule(b) \in m_buffer[b]
         /\ \A f \in m_buffer[b] : f = schedule(b) \/ Before(b, schedule(b), f)
<1> DEFINE B == m_buffer[b]
           D == {e \in B : ~ Prefetch(e)}
           S1 == IF D = {} THEN B ELSE D
           H == {e \in S1 : OpenRow(b, e)}
           S2 == IF H = {} THEN S1 ELSE H
<1>0. \A e \in Entry : e.timestamp \in Nat
  BY DEF Entry
<1>1. \E e \in B : \A f \in B : f = e \/ Before(b, e, f)
  <2>1. CASE knob.policy = "FCFS"
    <3>1. PICK e \in B : \A f \in B : e.timestamp <= f.timestamp
      BY EarliestExists
    <3>2. \A f \in B : f = e \/ e.timestamp < f.timestamp
      BY <3>1, <1>0
    <3> QED
      BY <3>2, <2>1 DEF Before
  <2>2. CASE knob.policy # "FCFS"
    <3>1. S1 \subseteq B /\ S1 # {} /\ S2 \subseteq S1 /\ S2 # {}
      OBVIOUS
    <3>2. PICK e \in S2 : \A f \in S2 : e.timestamp <= f.timestamp
      BY <3>1, EarliestExists
    <3>3. e \in B
      BY <3>1
    <3>4. ASSUME NEW f \in B, f # e
          PROVE  Before(b, e, f)
      <4>1. CASE Prefetch(e) # Prefetch(f)
        BY <4>1, <3>1, <2>2 DEF Before, Prefetch
      <4>2. CASE Prefetch(e) = Prefetch(f)
        <5>1. f \in S1 /\ e \in S1
          BY <4>2, <3>1 DEF Prefetch
        <5>2. CASE OpenRow(b, e) # OpenRow(b, f)
          BY <5>1, <5>2, <4>2, <2>2 DEF Before, OpenRow
        <5>3. CASE OpenRow(b, e) = OpenRow(b, f)
          <6>1. f \in S2
            BY <5>1, <5>3 DEF OpenRow
          <6>2. e.timestamp < f.timestamp
            BY <6>1, <3>2, <3>3, <3>4, <1>0
          <6> QED
            BY <6>2, <5>3, <4>2, <2>2 DEF Before
        <5> QED
          BY <5>2, <5>3
      <4> QED
        BY <4>1, <4>2
    <3> QED
      BY <3>3, <3>4
  <2> QED
    BY <2>1, <2>2
<1> QED
  BY <1>1 DEF schedule

\* OldestBank(B) is one of the banks of B
LEMMA OldestBankIn ==
  ASSUME NEW B, B \subseteq Banks, B # {}, m_bank_timestamp \in [Banks -> Nat]
  PROVE  OldestBank(B) \in B
<1> DEFINE T == {m_bank_timestamp[b] : b \in B}
<1>1. T \subseteq Nat /\ T # {}
  OBVIOUS
<1>2. PICK t \in T : \A u \in T : t <= u
  BY <1>1, SmallestExists
<1> DEFINE C == {b \in B : m_bank_timestamp[b] = t}
<1>3. C \subseteq Nat /\ C # {}
  BY BanksTypes
<1>4. PICK b \in C : \A d \in C : b <= d
  BY <1>3, SmallestExists
<1>5. \A d \in B : \/ m_bank_timestamp[b] < m_bank_timestamp[d]
                   \/ m_bank_timestamp[b] = m_bank_timestamp[d] /\ b <= d
  <2> TAKE d \in B
  <2>1. m_bank_timestamp[d] \in T /\ m_bank_timestamp[b] = t
    BY <1>4
  <2>2. t <= m_bank_timestamp[d] /\ t \in Nat /\ m_bank_timestamp[d] \in Nat
    BY <2>1, <1>2, <1>1
  <2> QED
    BY <2>1, <2>2, <1>4
<1> QED
  BY <1>4, <1>5 DEF OldestBank

-----------------------------------------------------------------------------
(* Types, banks and the bus.                                               *)

LEMMA DramInvInit == Init => DramInv
<1> SUFFICES ASSUME Init PROVE DramInv
  OBVIOUS
<1>1. TypeInv
  <2>1. knob \in KnobSettings
    BY Constants DEF Init
  <2>2. \A c \in Channels : BusWidth \in 1 .. BusWidth
    BY Constants
  <2>3. issued \in 0 .. MaxRequests /\ net \in Seq(Requests)
    BY Constants DEF Init
  <2> QED
    BY <2>1, <2>2, <2>3 DEF Init, TypeInv, TypeOK, Phases, Time
<1>2. ASSUME NEW b \in Banks
      PROVE  BankInv(b)
  BY NoneNoEntry DEF Init, BankInv, QueueOK, CurrentOK, WaitsOK, OrderOK, InState
<1>3. BandwidthKept
  BY Constants DEF Init, BandwidthKept
<1> QED
  BY <1>1, <1>2, <1>3 DEF DramInv

\* calls that touch neither the banks nor the clock
LEMMA BanksIdle ==
  ASSUME DramInv, UNCHANGED <<bankVars, busVars, m_cycle>>,
         phase # "check" \/ phase' = "check"
  PROVE  (\A b \in Banks : BankInv(b)') /\ BandwidthKept'
<1>1. BandwidthKept'
  BY DEF DramInv, BandwidthKept, busVars
<1>2. ASSUME NEW b \in Banks
      PROVE  BankInv(b)'
  <2>1. BankInv(b)
    BY DEF DramInv
  <2>2. \A e : EntryOK(b, e) => EntryOK(b, e)'
    BY DEF EntryOK
  <2>3. QueueOK(b)'
    BY <2>1, <2>2 DEF BankInv, QueueOK, bankVars
  <2>4. CurrentOK(b)'
    BY <2>1, <2>2 DEF BankInv, CurrentOK, bankVars, InState
  <2>5. WaitsOK(b)'
    BY <2>1 DEF BankInv, WaitsOK, bankVars, InState
  <2>6. OrderOK(b)'
    BY <2>1 DEF BankInv, OrderOK, bankVars
  <2> QED
    BY <2>3, <2>4, <2>5, <2>6 DEF BankInv
<1> QED
  BY <1>1, <1>2

LEMMA DramIdle ==
  ASSUME DramInv, UNCHANGED <<knob, bankVars, busVars, m_cycle>>,
         net' \in Seq(Requests), issued' \in 0 .. MaxRequests,
         phase # "check" \/ phase' = "check", phase' \in Phases
  PROVE  DramInv'
<1>1. TypeInv'
  BY DEF DramInv, TypeInv, TypeOK, bankVars, busVars
<1> QED
  BY <1>1, BanksIdle DEF DramInv

LEMMA DramArrive == ASSUME DramInv, NEW k \in Kinds, Arrive(k) PROVE DramInv'
<1>1. issued' \in 0 .. MaxRequests /\ issued + 1 \in 1 .. MaxRequests
  BY Constants DEF Arrive, DramInv, TypeInv
<1>2. net' \in Seq(Requests)
  BY <1>1, RequestMade DEF Arrive, DramInv, TypeInv
<1>3. phase' = phase /\ phase = "send"
  BY DEF Arrive
<1> QED
  BY <1>1, <1>2, <1>3, DramIdle DEF Arrive, DramInv, TypeInv

\* the calls that leave bank and bus alone
LEMMA DramQuiet ==
  ASSUME DramInv,
         \/ send \/ delay_packet \/ channel_schedule_ends
         \/ bank_schedule_complete_ends \/ receive_nothing
  PROVE  DramInv'
<1>1. UNCHANGED <<knob, bankVars, busVars, m_cycle, netVars>>
  BY DEF send, delay_packet, channel_schedule_ends, bank_schedule_complete_ends,
         receive_nothing
<1>2. phase # "check" /\ phase' \in Phases
  BY DEF send, delay_packet, channel_schedule_ends, bank_schedule_complete_ends,
         receive_nothing, Goto, Phases
<1> QED
  BY <1>1, <1>2, DramIdle DEF netVars, DramInv, TypeInv

LEMMA DramFinished == ASSUME DramInv, UNCHANGED vars PROVE DramInv'
<1>1. UNCHANGED <<knob, bankVars, busVars, m_cycle, net, issued, phase>>
  BY DEF vars, netVars
<1> QED
  BY <1>1, DramIdle DEF DramInv, TypeInv

LEMMA DramProgress == ASSUME DramInv, progress_check PROVE DramInv'
<1>1. UNCHANGED <<knob, bankVars, busVars, net, issued>>
  BY DEF progress_check, netVars
<1>2. m_cycle \in Nat /\ m_cycle' = m_cycle + 1 /\ phase' = "send"
  BY DEF progress_check, Goto, DramInv, TypeInv, TypeOK
<1>3. TypeInv'
  BY <1>1, <1>2 DEF DramInv, TypeInv, TypeOK, bankVars, busVars, Phases
<1>4. ASSUME NEW b \in Banks
      PROVE  BankInv(b)'
  <2>1. BankInv(b)
    BY DEF DramInv
  <2>2. \A e : EntryOK(b, e) => EntryOK(b, e)'
    BY <1>2 DEF EntryOK, Entry
  <2>3. QueueOK(b)'
    BY <2>1, <2>2, <1>1 DEF BankInv, QueueOK, bankVars
  <2>4. CurrentOK(b)'
    BY <2>1, <2>2, <1>1 DEF BankInv, CurrentOK, bankVars, InState
  <2>5. WaitsOK(b)'
    BY <2>1, <1>1 DEF BankInv, WaitsOK, bankVars, InState
  <2>6. OrderOK(b)'
    BY <2>1, <1>1 DEF BankInv, OrderOK, bankVars
  <2> QED
    BY <2>3, <2>4, <2>5, <2>6 DEF BankInv
<1>5. BandwidthKept'
  BY <1>1 DEF DramInv, BandwidthKept, busVars
<1> QED
  BY <1>3, <1>4, <1>5 DEF DramInv

\* what a call does not touch of bank b
SameBank(b) ==
  /\ m_buffer'[b] = m_buffer[b] /\ m_current_list'[b] = m_current_list[b]
  /\ m_current_rid'[b] = m_current_rid[b] /\ m_bank_ready'[b] = m_bank_ready[b]
  /\ m_data_avail'[b] = m_data_avail[b] /\ m_data_ready'[b] = m_data_ready[b]

LEMMA BankSame ==
  ASSUME NEW b \in Banks, BankInv(b), SameBank(b), m_cycle' = m_cycle,
         phase # "check"
  PROVE  BankInv(b)'
<1>2. \A e : EntryOK(b, e) => EntryOK(b, e)'
  BY DEF EntryOK
<1>3. QueueOK(b)'
  BY <1>2 DEF BankInv, QueueOK, SameBank
<1>4. CurrentOK(b)'
  BY <1>2 DEF BankInv, CurrentOK, SameBank, InState
<1>5. WaitsOK(b)'
  BY DEF BankInv, WaitsOK, SameBank, InState
<1>6. OrderOK(b)'
  BY DEF BankInv, OrderOK, SameBank
<1> QED
  BY <1>3, <1>4, <1>5, <1>6 DEF BankInv

\* the entry in service only changes its state
LEMMA BankRestated ==
  ASSUME NEW b \in Banks, BankInv(b), m_cycle' = m_cycle, phase # "check",
         m_buffer'[b] = m_buffer[b], m_current_list[b] \in Entry,
         NEW st \in {"CMD", "CMD_WAIT", "DATA", "DATA_WAIT"},
         Restated(m_current_list[b], m_current_list'[b], st)
  PROVE  QueueOK(b)' /\ CurrentOK(b)' /\ OrderOK(b)'
<1> PICK e, f : e = m_current_list[b] /\ f = m_current_list'[b]
  OBVIOUS
<1>1. \A x : EntryOK(b, x) => EntryOK(b, x)'
  BY DEF EntryOK
<1>2. /\ f \in Entry /\ f.state = st /\ f.req = e.req /\ f.rid = e.rid
      /\ f.timestamp = e.timestamp /\ e # None /\ f # None
  BY NoneNoEntry DEF Restated
<1>3. QueueOK(b)'
  BY <1>1 DEF BankInv, QueueOK
<1>4. EntryOK(b, e) /\ OrderOK(b)
  BY <1>2 DEF BankInv, CurrentOK
<1>5. EntryOK(b, f)'
  BY <1>4, <1>2 DEF EntryOK
<1>6. CurrentOK(b)'
  BY <1>5, <1>2 DEF CurrentOK, InState
<1>7. OrderOK(b)'
  BY <1>4, <1>2 DEF OrderOK
<1> QED
  BY <1>3, <1>6, <1>7

LEMMA CommandedWant ==
  ASSUME TypeOK
  PROVE  Commanded \subseteq {b \in Banks : InState(b, "CMD")}
<1> DEFINE wanting(c) == {b \in BanksOf(c) : InState(b, "CMD")}
<1>1. ASSUME NEW c \in Channels, wanting(c) # {}
      PROVE  OldestBank(wanting(c)) \in wanting(c)
  <2>1. wanting(c) \subseteq Banks
    BY BanksTypes
  <2> HIDE DEF wanting
  <2> QED
    BY <2>1, <1>1, OldestBankIn DEF TypeOK
<1>2. \A c \in Channels : wanting(c) \subseteq {b \in Banks : InState(b, "CMD")}
  BY BanksTypes
<1>3. Commanded = {OldestBank(wanting(c)) : c \in {c \in Channels : wanting(c) # {}}}
  BY DEF Commanded
<1> HIDE DEF wanting
<1> QED
  BY <1>1, <1>2, <1>3

LEMMA DramCmd == ASSUME DramInv, channel_schedule_cmd PROVE DramInv'
<1> DEFINE column(b) == ~ Activates(b) /\ RowHit(b)
<1>1. /\ UNCHANGED <<knob, m_cycle, net, issued, busVars, m_buffer, m_data_ready, m_bank_timestamp>>
      /\ phase # "check" /\ phase' = "data"
  BY DEF channel_schedule_cmd, netVars, Goto
<1>2. TypeOK
  BY DEF DramInv, TypeInv
<1>3. /\ DOMAIN m_current_list' = Banks /\ m_current_list' = [b \in Banks |-> m_current_list'[b]]
      /\ DOMAIN m_current_rid' = Banks /\ m_current_rid' = [b \in Banks |-> m_current_rid'[b]]
      /\ DOMAIN m_bank_ready' = Banks /\ m_bank_ready' = [b \in Banks |-> m_bank_ready'[b]]
      /\ DOMAIN m_data_avail' = Banks /\ m_data_avail' = [b \in Banks |-> m_data_avail'[b]]
  BY DEF channel_schedule_cmd
<1>4. ASSUME NEW b \in Banks, b \notin Commanded
      PROVE  SameBank(b)
  BY <1>1, <1>4 DEF channel_schedule_cmd, SameBank
<1>5. ASSUME NEW b \in Banks, b \in Commanded
      PROVE  /\ m_current_list[b] \in Entry /\ InState(b, "CMD")
             /\ Restated(m_current_list[b], m_current_list'[b],
                         IF column(b) THEN "DATA" ELSE "CMD_WAIT")
             /\ Activates(b) => /\ m_current_rid'[b] = m_current_list[b].rid
                                /\ m_bank_ready'[b] = m_cycle + ActivateLatency
                                /\ m_data_avail'[b] = Never
             /\ column(b) => /\ m_current_rid'[b] = m_current_rid[b]
                             /\ m_bank_ready'[b] = m_cycle + ColumnLatency
                             /\ m_data_avail'[b] = m_cycle + ColumnLatency
             /\ ~ Activates(b) /\ ~ column(b) =>
                             /\ m_current_rid'[b] = Never
                             /\ m_bank_ready'[b] = m_cycle + PrechargeLatency
                             /\ m_data_avail'[b] = Never
  <2>1. InState(b, "CMD")
    BY <1>5, <1>2, CommandedWant
  <2>2. m_current_list[b] \in Entry
    BY <2>1, <1>2, NoneNoEntry DEF TypeOK, InState
  <2> DEFINE e == m_current_list[b]
             f == m_current_list'[b]
  <2>3. f = [e EXCEPT !.state = IF column(b) THEN "DATA" ELSE "CMD_WAIT"]
    BY <1>5 DEF channel_schedule_cmd
  <2>4. /\ column(b) => f = [e EXCEPT !.state = "DATA"]
        /\ ~ column(b) => f = [e EXCEPT !.state = "CMD_WAIT"]
    BY <2>3
  <2>5. f.state = IF column(b) THEN "DATA" ELSE "CMD_WAIT"
    BY <2>2, <2>4 DEF Entry
  <2>6. Restated(e, f, f.state)
    BY <2>2, <2>4, EntryRestated
  <2> HIDE DEF e, f
  <2>7. Restated(e, f, IF column(b) THEN "DATA" ELSE "CMD_WAIT")
    BY <2>5, <2>6
  <2> QED
    BY <2>1, <2>2, <2>7, <1>5 DEF channel_schedule_cmd, e, f
<1>6. ASSUME NEW b \in Banks
      PROVE  /\ m_current_list'[b] \in Entry \union {None} /\ m_current_rid'[b] \in Time
             /\ m_bank_ready'[b] \in Time /\ m_data_avail'[b] \in Time
  <2>1. CASE b \notin Commanded
    BY <2>1, <1>4, <1>2 DEF SameBank, TypeOK
  <2>2. CASE b \in Commanded
    <3>1. m_cycle \in Nat /\ m_current_list[b].rid \in Nat
      BY <1>5, <2>2, <1>2 DEF TypeOK, Entry
    <3>2. m_current_list'[b] \in Entry
      BY <1>5, <2>2 DEF Restated
    <3>3. m_cycle + ActivateLatency \in Nat /\ m_cycle + ColumnLatency \in Nat
          /\ m_cycle + PrechargeLatency \in Nat
      BY <3>1, Constants
    <3>4. m_current_rid[b] \in Time
      BY <1>2 DEF TypeOK
    <3>5. Never \in Time /\ Nat \subseteq Time
      BY DEF Time
    <3>6. m_current_rid'[b] \in Time
      BY <3>1, <3>4, <3>5, <1>5, <2>2
    <3>7. m_bank_ready'[b] \in Time /\ m_data_avail'[b] \in Time
      BY <3>3, <3>5, <1>5, <2>2
    <3> QED
      BY <3>2, <3>6, <3>7
  <2> QED
    BY <2>1, <2>2
<1>7. TypeInv'
  <2>1. /\ m_current_list' \in [Banks -> Entry \union {None}] /\ m_current_rid' \in [Banks -> Time]
        /\ m_bank_ready' \in [Banks -> Time] /\ m_data_avail' \in [Banks -> Time]
    BY <1>3, <1>6
  <2> QED
    BY <2>1, <1>1 DEF DramInv, TypeInv, TypeOK, busVars, Phases
<1>8. ASSUME NEW b \in Banks
      PROVE  BankInv(b)'
  <2>0. BankInv(b)
    BY DEF DramInv
  <2>1. CASE b \notin Commanded
    BY <2>0, <2>1, <1>1, <1>4, BankSame
  <2>2. CASE b \in Commanded
    <3> PICK st : st = IF column(b) THEN "DATA" ELSE "CMD_WAIT"
      OBVIOUS
    <3>1. QueueOK(b)' /\ CurrentOK(b)' /\ OrderOK(b)'
      BY <2>0, <2>2, <1>1, <1>5, BankRestated
    <3>2. /\ m_current_list'[b].state = st /\ m_current_list'[b].rid = m_current_list[b].rid
      BY <2>2, <1>5 DEF Restated
    <3>3. /\ m_cycle + ActivateLatency # Never /\ m_cycle + ColumnLatency # Never
          /\ m_cycle + PrechargeLatency # Never
      BY <1>2, Constants DEF TypeOK, Never
    <3>4. m_data_ready'[b] = Never
      BY <2>0, <2>2, <1>1, <1>5 DEF BankInv, WaitsOK, InState
    <3>5. WaitsOK(b)'
      BY <3>2, <3>3, <3>4, <2>2, <1>5 DEF WaitsOK, InState, Activates, RowHit
    <3> QED
      BY <3>1, <3>5 DEF BankInv
  <2> QED
    BY <2>1, <2>2
<1>9. BandwidthKept'
  BY <1>1 DEF DramInv, BandwidthKept, busVars
<1> QED
  BY <1>7, <1>8, <1>9 DEF DramInv

LEMMA WidthDivides ==
  ASSUME NEW w \in Nat \ {0}, NEW a \in Nat
  PROVE  a \div w \in Nat /\ a % w \in 0 .. w - 1 /\ a = w * (a \div w) + (a % w)
OBVIOUS

LEMMA WidthTimes ==
  ASSUME NEW w \in Nat, NEW x \in Nat, NEW y \in Nat
  PROVE  w * (x + y + 1) = w * x + w * y + w /\ w * x \in Nat /\ w * y \in Nat
BY Z3

LEMMA NatSum == ASSUME NEW x \in Nat, NEW y \in Nat PROVE x + y \in Nat
OBVIOUS

LEMMA Rearranged ==
  ASSUME NEW a \in Int, NEW b \in Int, NEW s \in Int, NEW l \in Int, NEW x \in Int, NEW y \in Int,
         s + l + x = b + y, a + b = x
  PROVE  (a + s) + l = y
OBVIOUS

\* acquire_data_bus gives a transfer exactly its bytes
LEMMA Acquired ==
  ASSUME NEW c \in Channels, NEW size \in Nat, NEW k \in Nat,
         m_cycle \in Nat, m_byte_avail[c] \in 1 .. BusWidth
  PROVE  /\ Latency(c, size) \in Nat /\ Latency(c, size) >= m_cycle
         /\ BytesLeft(c, size) \in 1 .. BusWidth
         /\ size + BytesLeft(c, size) + BusWidth * k
              = m_byte_avail[c] + BusWidth * (k + Latency(c, size) - m_cycle)
<1>1. CASE size < m_byte_avail[c]
  <2>1. Latency(c, size) = m_cycle /\ BytesLeft(c, size) = m_byte_avail[c] - size
    BY <1>1 DEF Latency, BytesLeft
  <2>2. k + Latency(c, size) - m_cycle = k
    BY <2>1
  <2>3. BusWidth * k \in Nat
    BY Constants
  <2> QED
    BY <1>1, <2>1, <2>2, <2>3, Constants
<1>2. CASE ~(size < m_byte_avail[c])
  <2>1. PICK a \in Nat : a = size - m_byte_avail[c]
    BY <1>2, Constants
  <2>2. PICK q \in Nat, r \in 0 .. BusWidth - 1 :
          q = a \div BusWidth /\ r = a % BusWidth /\ a = BusWidth * q + r
    <3>1. BusWidth \in Nat \ {0}
      BY Constants
    <3>2. /\ a \div BusWidth \in Nat /\ a % BusWidth \in 0 .. BusWidth - 1
          /\ a = BusWidth * (a \div BusWidth) + (a % BusWidth)
      BY <3>1, WidthDivides
    <3> QED
      BY <3>2, Zenon
  <2>3. Latency(c, size) = m_cycle + q + 1 /\ BytesLeft(c, size) = BusWidth - r
    BY <1>2, <2>1, <2>2 DEF Latency, BytesLeft
  <2>4. k + Latency(c, size) - m_cycle = k + q + 1
    BY <2>3
  <2>5. PICK X \in Nat, Y \in Nat, Z \in Nat :
          X = BusWidth * k /\ Y = BusWidth * q /\ Z = BusWidth * (k + q + 1)
    BY WidthTimes, Constants
  <2>6. Z = X + Y + BusWidth /\ a = Y + r
    BY <2>2, <2>5, WidthTimes, Constants
  <2>7. size + (BusWidth - r) + X = m_byte_avail[c] + Z
    BY <2>1, <2>6, Constants
  <2>8. size + BytesLeft(c, size) + BusWidth * k
              = m_byte_avail[c] + BusWidth * (k + Latency(c, size) - m_cycle)
    BY <2>3, <2>4, <2>5, <2>7
  <2>9. BusWidth - r \in 1 .. BusWidth /\ m_cycle + q + 1 \in Nat /\ m_cycle + q + 1 >= m_cycle
    BY Constants
  <2> QED
    BY <2>3, <2>8, <2>9
<1> QED
  BY <1>1, <1>2

LEMMA DramData == ASSUME DramInv, NEW c \in Channels, channel_schedule_data(c) PROVE DramInv'
<1>1. /\ UNCHANGED <<knob, m_cycle, net, issued, phase, m_buffer, m_current_rid, m_bank_ready,
                     m_bank_timestamp>>
      /\ phase = "data"
  BY DEF channel_schedule_data, netVars
<1>2. TypeOK /\ m_cycle \in Nat
  BY DEF DramInv, TypeInv, TypeOK
<1> PICK b : b = OldestBank(DataBanks(c))
  OBVIOUS
<1>3. b \in Banks /\ InState(b, "DATA")
  <2>1. DataBanks(c) \subseteq {d \in Banks : InState(d, "DATA")} /\ DataBanks(c) # {}
    BY BanksTypes DEF DataBanks, channel_schedule_data
  <2>2. b \in DataBanks(c)
    BY <2>1, <1>2, OldestBankIn DEF TypeOK
  <2> QED
    BY <2>1, <2>2
<1>4. m_current_list[b] \in Entry
  BY <1>2, <1>3, NoneNoEntry DEF TypeOK, InState
<1> PICK size : size = m_current_list[b].req.size
  OBVIOUS
<1>5. size \in Nat
  BY <1>4, RequestTypes DEF Entry
<1> PICK end, left : end = Latency(c, size) /\ left = BytesLeft(c, size)
  OBVIOUS
<1>6. /\ m_data_ready' = [m_data_ready EXCEPT ![b] = end]
      /\ m_dbus_ready' = [m_dbus_ready EXCEPT ![c] = end]
      /\ m_byte_avail' = [m_byte_avail EXCEPT ![c] = left]
      /\ moved' = [moved EXCEPT ![c] = @ + size]
      /\ busy' = [busy EXCEPT ![c] = @ + end - m_cycle]
      /\ m_data_avail' = [m_data_avail EXCEPT ![b] = Never]
      /\ m_current_list' = [m_current_list EXCEPT ![b].state = "DATA_WAIT"]
      /\ m_dbus_ready[c] <= m_cycle
  BY DEF channel_schedule_data, avail_data_bus
<1>7. end \in Nat /\ end >= m_cycle /\ left \in 1 .. BusWidth
  BY <1>2, <1>5, Acquired DEF TypeOK
<1>law. \A k \in Nat : size + left + BusWidth * k
                        = m_byte_avail[c] + BusWidth * (k + end - m_cycle)
  BY <1>2, <1>5, Acquired DEF TypeOK
<1>8. Restated(m_current_list[b], m_current_list'[b], "DATA_WAIT")
  <2>1. m_current_list'[b] = [m_current_list[b] EXCEPT !.state = "DATA_WAIT"]
    BY <1>2, <1>3, <1>6 DEF TypeOK
  <2> PICK e, f : e = m_current_list[b] /\ f = m_current_list'[b]
    OBVIOUS
  <2>2. e \in Entry /\ f = [e EXCEPT !.state = "DATA_WAIT"]
    BY <1>4, <2>1
  <2>3. f.state = "DATA_WAIT" /\ Restated(e, f, f.state)
    BY <2>2, EntryRestated DEF Entry
  <2> QED
    BY <2>3
<1>9. TypeInv'
  <2>1. /\ m_data_ready' \in [Banks -> Time] /\ m_data_avail' \in [Banks -> Time]
        /\ m_dbus_ready' \in [Channels -> Nat] /\ m_byte_avail' \in [Channels -> 1 .. BusWidth]
    BY <1>2, <1>6, <1>7 DEF TypeOK, Time
  <2>2. moved' \in [Channels -> Nat] /\ busy' \in [Channels -> Nat]
    <3>1. moved \in [Channels -> Nat] /\ busy \in [Channels -> Nat]
      BY <1>2 DEF TypeOK
    <3>2. moved[c] + size \in Nat
      <4>1. moved[c] \in Nat
        BY <3>1
      <4> QED
        BY <4>1, <1>5, NatSum
    <3>3. busy[c] + end - m_cycle \in Nat
      BY <3>1, <1>2, <1>7
    <3> QED
      BY <3>1, <3>2, <3>3, <1>6
  <2>3. m_current_list' \in [Banks -> Entry \union {None}]
    <3>1. m_current_list'[b] \in Entry
      BY <1>8 DEF Restated
    <3>2. \A d \in Banks : m_current_list'[d] \in Entry \union {None}
      BY <3>1, <1>2, <1>6 DEF TypeOK
    <3>3. m_current_list' = [d \in Banks |-> m_current_list'[d]]
      BY <1>2, <1>6 DEF TypeOK
    <3> QED
      BY <3>2, <3>3
  <2> QED
    BY <2>1, <2>2, <2>3, <1>1 DEF DramInv, TypeInv, TypeOK
<1>10. ASSUME NEW d \in Banks
       PROVE  BankInv(d)'
  <2>0. BankInv(d)
    BY DEF DramInv
  <2>1. CASE d # b
    <3>1. SameBank(d)
      BY <2>1, <1>1, <1>2, <1>3, <1>6 DEF SameBank, TypeOK
    <3> QED
      BY <3>1, <2>0, <1>1, BankSame
  <2>2. CASE d = b
    <3>1. QueueOK(b)' /\ CurrentOK(b)' /\ OrderOK(b)'
      BY <2>0, <2>2, <1>1, <1>3, <1>4, <1>8, BankRestated
    <3>2. /\ m_current_list'[b].state = "DATA_WAIT" /\ m_current_list'[b].rid = m_current_list[b].rid
      BY <1>8 DEF Restated
    <3>3. m_data_avail'[b] = Never /\ m_data_ready'[b] # Never
      BY <1>2, <1>3, <1>6, <1>7 DEF TypeOK, Never
    <3>4. m_current_list[b].rid = m_current_rid[b]
      BY <2>0, <2>2, <1>3 DEF BankInv, WaitsOK
    <3>5. WaitsOK(b)'
      BY <3>2, <3>3, <3>4, <1>1 DEF WaitsOK, InState
    <3> QED
      BY <3>1, <3>5, <2>2 DEF BankInv
  <2> QED
    BY <2>1, <2>2
<1>11. BandwidthKept'
  <2> SUFFICES ASSUME NEW d \in Channels
               PROVE  /\ moved'[d] + m_byte_avail'[d] = BusWidth * (busy'[d] + 1)
                      /\ busy'[d] <= m_dbus_ready'[d]
    BY DEF BandwidthKept
  <2>0. moved[d] + m_byte_avail[d] = BusWidth * (busy[d] + 1)
    BY DEF DramInv, BandwidthKept
  <2>1. /\ busy[d] <= m_dbus_ready[d] /\ busy[d] \in Nat /\ moved[d] \in Nat
        /\ m_byte_avail[d] \in Nat /\ m_dbus_ready[d] \in Nat
    BY <1>2 DEF DramInv, BandwidthKept, TypeOK
  <2>2. CASE d # c
    <3>1. /\ moved'[d] = moved[d] /\ m_byte_avail'[d] = m_byte_avail[d]
          /\ busy'[d] = busy[d] /\ m_dbus_ready'[d] = m_dbus_ready[d]
      BY <2>2, <1>2, <1>6 DEF TypeOK
    <3> QED
      BY <3>1, <2>0, <2>1, Zenon
  <2>3. CASE d = c
    <3>1. /\ moved'[d] = moved[d] + size /\ m_byte_avail'[d] = left
          /\ busy'[d] = busy[d] + end - m_cycle /\ m_dbus_ready'[d] = end
      BY <2>3, <1>2, <1>6 DEF TypeOK
    <3>2. PICK k \in Nat : k = busy[d] + 1
      BY <2>1
    <3>3. size + left + BusWidth * k = m_byte_avail[d] + BusWidth * (k + end - m_cycle)
      BY <2>3, <1>law
    <3>4. k + end - m_cycle = busy'[d] + 1
      <4>1. \A x, y, z \in Int : (x + 1) + y - z = (x + y - z) + 1
        OBVIOUS
      <4>2. busy[d] \in Int /\ end \in Int /\ m_cycle \in Int
        <5>0. \A i \in Nat : i \in Int
          OBVIOUS
        <5> QED
          BY <5>0, <2>1, <1>7, <1>2, Zenon
      <4>3. (busy[d] + 1) + end - m_cycle = (busy[d] + end - m_cycle) + 1
        BY <4>1, <4>2
      <4> QED
        BY <4>3, <3>1, <3>2, Zenon
    <3>5. PICK X, Y : X = BusWidth * k /\ Y = BusWidth * (k + end - m_cycle)
      OBVIOUS
    <3>6. X \in Int /\ Y \in Int
      BY <3>5, <1>7, <1>2, Constants
    <3>7. size + left + X = m_byte_avail[d] + Y
      BY <3>3, <3>5, Zenon
    <3>8. moved[d] + m_byte_avail[d] = X
      BY <2>0, <3>2, <3>5, Zenon
    <3>9. (moved[d] + size) + left = Y
      <4>1. moved[d] \in Int /\ m_byte_avail[d] \in Int /\ size \in Int
        <5>0. \A i \in Nat : i \in Int
          OBVIOUS
        <5> QED
          BY <5>0, <2>1, <1>5, Zenon
      <4>2. left \in Int
        BY <1>7, Constants
      <4>3. PICK x, y : x = moved[d] /\ y = m_byte_avail[d]
        OBVIOUS
      <4>4. x \in Int /\ y \in Int /\ size + left + X = y + Y /\ x + y = X
        BY <4>1, <4>3, <3>7, <3>8, Zenon
      <4>5. (x + size) + left = Y
        BY <4>1, <4>2, <4>4, <3>6, Rearranged
      <4> QED
        BY <4>3, <4>5, Zenon
    <3>10. moved'[d] + m_byte_avail'[d] = BusWidth * (busy'[d] + 1)
      BY <3>1, <3>4, <3>5, <3>9, Zenon
    <3>11. busy'[d] <= m_dbus_ready'[d]
      <4>1. busy[d] <= m_cycle /\ busy[d] \in Nat
        BY <2>1, <2>3, <1>6, <1>2
      <4>2. \A x, y, z \in Nat : x <= z => x + y - z <= y
        OBVIOUS
      <4>3. busy[d] + end - m_cycle <= end
        BY <4>1, <4>2, <1>7, <1>2
      <4> QED
        BY <4>3, <3>1, Zenon
    <3> QED
      BY <3>10, <3>11
  <2> QED
    BY <2>2, <2>3
<1> QED
  BY <1>9, <1>10, <1>11 DEF DramInv

LEMMA DramComplete ==
  ASSUME DramInv, NEW b \in Banks, bank_schedule_complete(b)
  PROVE  DramInv'
<1>1. /\ UNCHANGED <<knob, m_cycle, net, issued, phase, busVars, m_current_rid, m_bank_ready,
                     m_data_avail, m_bank_timestamp>>
      /\ phase = "complete"
      /\ m_buffer' = [m_buffer EXCEPT ![b] = @ \ Merged(b)]
      /\ m_current_list' = [m_current_list EXCEPT ![b] = None]
      /\ m_data_ready' = [m_data_ready EXCEPT ![b] = Never]
      /\ m_current_list[b] # None /\ Reached(m_data_ready[b])
  BY DEF bank_schedule_complete, netVars, Completing
<1>2. TypeOK
  BY DEF DramInv, TypeInv
<1>3. TypeInv'
  <2>1. m_buffer' \in [Banks -> SUBSET Entry]
    BY <1>1, <1>2 DEF TypeOK
  <2>2. m_current_list' \in [Banks -> Entry \union {None}] /\ m_data_ready' \in [Banks -> Time]
    BY <1>1, <1>2 DEF TypeOK, Time
  <2> QED
    BY <2>1, <2>2, <1>1 DEF DramInv, TypeInv, TypeOK, busVars
<1>4. ASSUME NEW d \in Banks
      PROVE  BankInv(d)'
  <2>0. BankInv(d)
    BY DEF DramInv
  <2>1. CASE d # b
    <3>1. SameBank(d)
      BY <2>1, <1>1, <1>2 DEF SameBank, TypeOK
    <3> QED
      BY <3>1, <2>0, <1>1, BankSame
  <2>2. CASE d = b
    <3>1. m_buffer'[b] \subseteq m_buffer[b] /\ m_current_list'[b] = None /\ m_data_ready'[b] = Never
      BY <1>1, <1>2 DEF TypeOK
    <3>2. \A x : EntryOK(b, x) => EntryOK(b, x)'
      BY <1>1 DEF EntryOK
    <3>3. QueueOK(b)'
      BY <3>1, <3>2, <2>0, <2>2 DEF BankInv, QueueOK
    <3>4. InState(b, "DATA_WAIT") /\ m_data_avail[b] = Never
      BY <2>0, <2>2, <1>1 DEF BankInv, WaitsOK, Reached, InState
    <3>5. WaitsOK(b)'
      BY <3>1, <3>4, <1>1, NoneNoEntry DEF WaitsOK, InState
    <3> QED
      BY <3>1, <3>3, <3>5, <2>2 DEF BankInv, CurrentOK, OrderOK
  <2> QED
    BY <2>1, <2>2
<1>5. BandwidthKept'
  BY <1>1 DEF DramInv, BandwidthKept, busVars
<1> QED
  BY <1>3, <1>4, <1>5 DEF DramInv

\* the banks that start an entry, and those that go on with a command
Starting == {b \in Banks : m_current_list[b] = None /\ m_buffer[b] # {}}
Resuming == {b \in Banks : InState(b, "CMD_WAIT") /\ Reached(m_bank_ready[b])}

LEMMA BankStarts ==
  ASSUME NEW b \in Starting, TypeOK, BankInv(b), m_cycle' = m_cycle, phase # "check",
         m_buffer'[b] = m_buffer[b] \ {schedule(b)},
         m_current_list'[b] = [schedule(b) EXCEPT !.state = "CMD"],
         m_data_avail'[b] = m_data_avail[b], m_data_ready'[b] = m_data_ready[b]
  PROVE  /\ schedule(b) \in m_buffer[b]
         /\ Restated(schedule(b), m_current_list'[b], "CMD")
         /\ BankInv(b)'
<1>1. b \in Banks /\ m_current_list[b] = None /\ m_buffer[b] # {}
  BY DEF Starting
<1> PICK e, f : e = schedule(b) /\ f = m_current_list'[b]
  OBVIOUS
<1>2. /\ e \in m_buffer[b]
      /\ \A x \in m_buffer[b] : x = e \/ Before(b, e, x)
  BY <1>1, ScheduleFirst DEF BankInv, QueueOK, TypeOK
<1>3. EntryOK(b, e) /\ e \in Entry
  BY <1>2 DEF BankInv, QueueOK, EntryOK
<1>4. f = [e EXCEPT !.state = "CMD"]
  OBVIOUS
<1>5. f.state = "CMD" /\ Restated(e, f, "CMD")
  BY <1>3, <1>4, EntryRestated DEF Entry
<1>6. \A x : EntryOK(b, x) => EntryOK(b, x)'
  BY DEF EntryOK
<1>7. QueueOK(b)'
  BY <1>6 DEF BankInv, QueueOK
<1>8. EntryOK(b, f)'
  BY <1>3, <1>5 DEF EntryOK, Restated
<1>9. CurrentOK(b)'
  BY <1>5, <1>8 DEF CurrentOK, InState
<1>10. WaitsOK(b)'
  <2>1. m_data_avail[b] = Never /\ m_data_ready[b] = Never
    BY <1>1, NoneNoEntry DEF BankInv, WaitsOK, InState
  <2> QED
    BY <2>1, <1>5 DEF WaitsOK, InState
<1>11. OrderOK(b)'
  <2> SUFFICES ASSUME NEW x \in m_buffer'[b], x.req.type = "WB", x.req.addr = f.req.addr
               PROVE  f.timestamp < x.timestamp
    BY DEF OrderOK
  <2>1. x \in m_buffer[b] /\ x # e
    OBVIOUS
  <2>2. Before(b, e, x) /\ EntryOK(b, x) /\ x.req.addr = e.req.addr /\ f.timestamp = e.timestamp
    BY <2>1, <1>2, <1>5 DEF BankInv, QueueOK, Restated
  <2>3. OpenRow(b, e) = OpenRow(b, x) /\ ~ Prefetch(x)
    BY <2>2, <1>3 DEF EntryOK, OpenRow, Prefetch
  <2> QED
    BY <2>2, <2>3 DEF Before, Prefetch, OpenRow
<1> QED
  BY <1>1, <1>2, <1>5, <1>7, <1>9, <1>10, <1>11 DEF BankInv

LEMMA BankResumes ==
  ASSUME NEW b \in Resuming, TypeOK, BankInv(b), m_cycle' = m_cycle, phase # "check",
         m_buffer'[b] = m_buffer[b],
         m_current_list'[b] = [m_current_list[b] EXCEPT !.state = "CMD"],
         m_data_avail'[b] = m_data_avail[b], m_data_ready'[b] = m_data_ready[b]
  PROVE  /\ m_current_list[b] # None
         /\ Restated(m_current_list[b], m_current_list'[b], "CMD")
         /\ BankInv(b)'
<1>1. b \in Banks /\ InState(b, "CMD_WAIT")
  BY DEF Resuming
<1> PICK e, f : e = m_current_list[b] /\ f = m_current_list'[b]
  OBVIOUS
<1>2. e \in Entry /\ e # None
  BY <1>1, NoneNoEntry DEF TypeOK, InState
<1>3. f = [e EXCEPT !.state = "CMD"]
  OBVIOUS
<1>4. f.state = "CMD" /\ Restated(e, f, "CMD")
  BY <1>2, <1>3, EntryRestated DEF Entry
<1>5. QueueOK(b)' /\ CurrentOK(b)' /\ OrderOK(b)'
  BY <1>1, <1>2, <1>4, BankRestated
<1>6. WaitsOK(b)'
  <2>1. m_data_avail[b] = Never /\ m_data_ready[b] = Never
    BY <1>1 DEF BankInv, WaitsOK, InState
  <2> QED
    BY <2>1, <1>4 DEF WaitsOK, InState
<1> QED
  BY <1>2, <1>4, <1>5, <1>6 DEF BankInv

\* what bank_schedule_new does to one bank
LEMMA NewPerBank ==
  ASSUME DramInv, bank_schedule_new, NEW b \in Banks
  PROVE  /\ b \in Starting =>
              /\ schedule(b) \in m_buffer[b] /\ m_current_list[b] = None
              /\ m_buffer'[b] = m_buffer[b] \ {schedule(b)}
              /\ Restated(schedule(b), m_current_list'[b], "CMD")
         /\ b \notin Starting => m_buffer'[b] = m_buffer[b]
         /\ b \in Resuming =>
              /\ m_current_list[b] # None
              /\ Restated(m_current_list[b], m_current_list'[b], "CMD")
         /\ b \notin Starting \union Resuming => SameBank(b)
         /\ BankInv(b)'
<1>1. /\ m_buffer' = [d \in Banks |->
            IF d \in Starting THEN m_buffer[d] \ {schedule(d)} ELSE m_buffer[d]]
      /\ m_current_list' = [d \in Banks |->
            IF d \in Starting THEN [schedule(d) EXCEPT !.state = "CMD"]
            ELSE IF d \in Resuming THEN [m_current_list[d] EXCEPT !.state = "CMD"]
            ELSE m_current_list[d]]
      /\ m_bank_ready' = [d \in Banks |->
            IF d \in Starting \union Resuming THEN Never ELSE m_bank_ready[d]]
      /\ UNCHANGED <<m_cycle, m_data_avail, m_data_ready, m_current_rid>> /\ phase = "new"
  BY DEF bank_schedule_new, Starting, Resuming
<1>2. BankInv(b) /\ TypeOK
  BY DEF DramInv, TypeInv
<1>3. CASE b \in Starting
  <2>1. /\ m_buffer'[b] = m_buffer[b] \ {schedule(b)}
        /\ m_current_list'[b] = [schedule(b) EXCEPT !.state = "CMD"]
    BY <1>1, <1>3
  <2>2. m_current_list[b] = None /\ b \notin Resuming
    BY <1>3, NoneNoEntry DEF Starting, Resuming, InState
  <2> QED
    BY <2>1, <2>2, <1>1, <1>2, <1>3, BankStarts
<1>4. CASE b \in Resuming /\ b \notin Starting
  <2>1. /\ m_buffer'[b] = m_buffer[b]
        /\ m_current_list'[b] = [m_current_list[b] EXCEPT !.state = "CMD"]
    BY <1>1, <1>4
  <2> QED
    BY <2>1, <1>1, <1>2, <1>4, BankResumes
<1>5. CASE b \notin Resuming /\ b \notin Starting
  <2>1. SameBank(b)
    BY <1>1, <1>5 DEF SameBank
  <2> QED
    BY <2>1, <1>1, <1>2, <1>5, BankSame DEF SameBank
<1> QED
  BY <1>3, <1>4, <1>5

LEMMA DramNew == ASSUME DramInv, bank_schedule_new PROVE DramInv'
<1>1. /\ UNCHANGED <<knob, m_cycle, net, issued, busVars, m_current_rid, m_data_avail,
                     m_data_ready>>
      /\ phase' = "receive"
  BY DEF bank_schedule_new, netVars, Goto
<1>2. TypeOK
  BY DEF DramInv, TypeInv
<1>3. /\ m_buffer' = [d \in Banks |-> m_buffer'[d]]
      /\ m_current_list' = [d \in Banks |-> m_current_list'[d]]
      /\ m_bank_ready' \in [Banks -> Time] /\ m_bank_timestamp' \in [Banks -> Nat]
  BY <1>2 DEF bank_schedule_new, TypeOK, Time
<1>4. ASSUME NEW b \in Banks
      PROVE  m_buffer'[b] \subseteq Entry /\ m_current_list'[b] \in Entry \union {None}
  <2>1. m_buffer[b] \subseteq Entry /\ m_current_list[b] \in Entry \union {None}
    BY <1>2 DEF TypeOK
  <2>2. CASE b \in Starting
    BY <2>1, <2>2, NewPerBank DEF Restated
  <2>3. CASE b \in Resuming
    BY <2>1, <2>3, NewPerBank DEF Restated
  <2>4. CASE b \notin Starting \union Resuming
    BY <2>1, <2>4, NewPerBank DEF SameBank
  <2> QED
    BY <2>2, <2>3, <2>4
<1>5. m_buffer' \in [Banks -> SUBSET Entry] /\ m_current_list' \in [Banks -> Entry \union {None}]
  BY <1>3, <1>4
<1>6. TypeInv'
  BY <1>1, <1>3, <1>5 DEF DramInv, TypeInv, TypeOK, busVars, Phases
<1>7. BandwidthKept'
  BY <1>1 DEF DramInv, BandwidthKept, busVars
<1> QED
  BY <1>6, <1>7, NewPerBank DEF DramInv

LEMMA DramReceive == ASSUME DramInv, receive PROVE DramInv'
<1> PICK r, b, F : r = Head(net) /\ b = BankOf(r.addr) /\ F = Flushed(b)
  OBVIOUS
<1>1. /\ UNCHANGED <<knob, m_cycle, issued, busVars, m_current_list, m_current_rid, m_bank_ready,
                     m_data_avail, m_data_ready, m_bank_timestamp>>
      /\ phase = "receive" /\ phase' = "check" /\ net # <<>> /\ net' = Tail(net)
      /\ m_buffer' = [m_buffer EXCEPT ![b] = (@ \ F) \union {NewEntry(r)}]
  BY DEF receive, Goto, Insertable
<1>2. TypeOK /\ net \in Seq(Requests) /\ m_cycle \in Nat
  BY DEF DramInv, TypeInv, TypeOK
<1>3. r \in Requests /\ net' \in Seq(Requests)
  BY <1>1, <1>2
<1>4. b \in Banks /\ RowOf(r.addr) \in Nat
  BY <1>3, RequestTypes
<1> PICK n : n = NewEntry(r)
  OBVIOUS
<1>5. /\ n \in Entry /\ n.state = "INIT" /\ n.req = r /\ n.rid = RowOf(r.addr)
      /\ n.timestamp = m_cycle
  BY <1>2, <1>3, <1>4 DEF NewEntry, Entry
<1>6. m_buffer'[b] = (m_buffer[b] \ F) \union {n}
  BY <1>1, <1>2, <1>4 DEF TypeOK
<1>7. TypeInv'
  <2>1. m_buffer' \in [Banks -> SUBSET Entry]
    BY <1>1, <1>2, <1>4, <1>5 DEF TypeOK
  <2> QED
    BY <2>1, <1>1, <1>3 DEF DramInv, TypeInv, TypeOK, busVars, Phases
<1>8. ASSUME NEW d \in Banks
      PROVE  BankInv(d)'
  <2>0. BankInv(d)
    BY DEF DramInv
  <2>1. CASE d # b
    <3>1. SameBank(d)
      BY <2>1, <1>1, <1>2, <1>4 DEF SameBank, TypeOK
    <3> QED
      BY <3>1, <2>0, <1>1, BankSame
  <2>2. CASE d = b
    <3>1. \A x : EntryOK(b, x) => EntryOK(b, x)' /\ x.timestamp < m_cycle /\ x.timestamp \in Nat
      BY <1>1 DEF EntryOK, Entry
    <3>2. EntryOK(b, n)'
      BY <1>1, <1>2, <1>5 DEF EntryOK
    <3>3. QueueOK(b)'
      <4>1. /\ \A e \in m_buffer[b] : EntryOK(b, e) /\ e.state = "INIT"
            /\ \A e, f \in m_buffer[b] : e.timestamp = f.timestamp => e = f
        BY <2>0, <2>2 DEF BankInv, QueueOK
      <4>2. \A e \in m_buffer[b] : EntryOK(b, e)' /\ e.timestamp # n.timestamp
        <5>1. n.timestamp = m_cycle /\ m_cycle \in Nat
          BY <1>2, <1>5
        <5>2. \A x, y \in Nat : x < y => x # y
          OBVIOUS
        <5> QED
          BY <5>1, <5>2, <4>1, <3>1
      <4>3. \A e \in m_buffer'[b] : EntryOK(b, e)' /\ e.state = "INIT"
        BY <4>1, <4>2, <3>2, <1>5, <1>6, Zenon
      <4>4. \A e, f \in m_buffer'[b] : e.timestamp = f.timestamp => e = f
        <5>1. \A e \in m_buffer'[b] : e \in m_buffer[b] \/ e = n
          BY <1>6
        <5> QED
          BY <5>1, <4>1, <4>2
      <4> QED
        BY <4>3, <4>4 DEF QueueOK
    <3>4. CurrentOK(b)'
      BY <3>1, <2>0, <2>2, <1>1 DEF BankInv, CurrentOK, InState
    <3>5. WaitsOK(b)'
      BY <2>0, <2>2, <1>1 DEF BankInv, WaitsOK, InState
    <3>6. OrderOK(b)'
      BY <3>1, <2>0, <2>2, <1>1, <1>5, <1>6 DEF BankInv, OrderOK, CurrentOK
    <3> QED
      BY <3>3, <3>4, <3>5, <3>6, <2>2 DEF BankInv
  <2> QED
    BY <2>1, <2>2
<1>9. BandwidthKept'
  BY <1>1 DEF DramInv, BandwidthKept, busVars
<1> QED
  BY <1>7, <1>8, <1>9 DEF DramInv

LEMMA DramInvStep == DramInv /\ [Next]_vars => DramInv'
<1> SUFFICES ASSUME DramInv, [Next]_vars PROVE DramInv'
  OBVIOUS
<1>1. CASE UNCHANGED vars \/ Finished
  BY <1>1, DramFinished DEF Finished
<1>2. CASE \E k \in Kinds : Arrive(k)
  BY <1>2, DramArrive
<1>3. CASE \/ send \/ delay_packet \/ channel_schedule_ends
           \/ bank_schedule_complete_ends \/ receive_nothing
  BY <1>3, DramQuiet
<1>4. CASE channel_schedule_cmd
  BY <1>4, DramCmd
<1>5. CASE \E c \in Channels : channel_schedule_data(c)
  BY <1>5, DramData
<1>6. CASE \E b \in Banks : bank_schedule_complete(b)
  BY <1>6, DramComplete
<1>7. CASE bank_schedule_new
  BY <1>7, DramNew
<1>8. CASE receive
  BY <1>8, DramReceive
<1>9. CASE progress_check
  BY <1>9, DramProgress
<1> QED
  BY <1>1, <1>2, <1>3, <1>4, <1>5, <1>6, <1>7, <1>8, <1>9 DEF Next

LEMMA DramInvAlways == Spec => []DramInv
BY DramInvInit, DramInvStep, PTL DEF Spec

\* Banks move data only for the row that is open, after the column access, and the
\* deadline a bank waits for is set: the ASSERTs of dram_ctrl.cc on m_state hold.
THEOREM BanksAlwaysObeyProtocol == Spec => []BanksObeyProtocol
<1>1. ASSUME DramInv, NEW b \in Banks
      PROVE  /\ ~ InState(b, "INIT")
             /\ \A e \in m_buffer[b] : e.state = "INIT" /\ BankOf(e.req.addr) = b
             /\ WaitsOK(b)
  <2>1. QueueOK(b) /\ CurrentOK(b) /\ WaitsOK(b)
    BY <1>1, Zenon DEF DramInv, BankInv
  <2>2. ~ InState(b, "INIT")
    BY <2>1 DEF CurrentOK, InState, None
  <2>3. \A e \in m_buffer[b] : e.state = "INIT" /\ BankOf(e.req.addr) = b
    BY <2>1, Zenon DEF QueueOK, EntryOK
  <2> QED
    BY <2>1, <2>2, <2>3
<1>2. DramInv => BanksObeyProtocol
  BY <1>1, Zenon DEF DramInv, TypeInv, WaitsOK, BanksObeyProtocol
<1> QED
  BY <1>2, DramInvAlways, PTL

\* The data bus of every channel carries exactly its width, whatever sizes its
\* transfers have and however acquire_data_bus splits a cycle among them.
THEOREM BandwidthAlwaysKept == Spec => []BandwidthKept
<1>1. DramInv => BandwidthKept
  BY DEF DramInv
<1> QED
  BY <1>1, DramInvAlways, PTL

\* Under FCFS and FR-FCFS, with or without merging, a request that came after a
\* write-back of the same line is not taken into service before it.
THEOREM ReadsAlwaysFollowWritebacks == Spec => []ReadsFollowWritebacks
<1>1. DramInv => ReadsFollowWritebacks
  BY DEF DramInv, BankInv, OrderOK, ReadsFollowWritebacks
<1> QED
  BY <1>1, DramInvAlways, PTL
=============================================================================
