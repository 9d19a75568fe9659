----------------------------- MODULE RingProofs -----------------------------
(***************************************************************************)
(* Why the escape channels of the ring (stage_vca_pick_winner of           *)
(* network_ring.cc) cannot deadlock, for every ring size: the channels of  *)
(* one direction have an order that every packet follows upwards.          *)
(***************************************************************************)
EXTENDS RingTopology, TLAPS

Escape == {NumVC - 2, NumVC - 1}

\* the place of the escape channel vc of router r among those of direction dir:
\* first the channels of packets that still have to pass the wrap-around link
Rank(dir, r, vc) ==
  IF dir = RIGHT
  THEN IF vc = NumVC - 1 THEN r ELSE NumRouter + r
  ELSE IF vc = NumVC - 2 THEN NumRouter - 1 - r ELSE 2 * NumRouter - 1 - r

\* A head always finds an escape channel it may ask for, whatever its destination.
THEOREM EscapeOffered ==
  ASSUME NEW r \in Routers, NEW dst \in Routers, NumVC >= 2
  PROVE  \E vc \in Escape : vc \in VCs /\ Admits(r, dst, vc)
<1>1. r \in Int /\ dst \in Int /\ NumVC \in Int
  BY SizeAssumption DEF Routers
<1>2. CASE r <= dst
  <2>1. NumVC - 2 \in VCs /\ Admits(r, dst, NumVC - 2)
    BY <1>1, <1>2 DEF VCs, Admits
  <2> QED
    BY <2>1 DEF Escape
<1>3. CASE ~(r <= dst)
  <2>1. NumVC - 1 \in VCs /\ Admits(r, dst, NumVC - 1) /\ r >= dst
    BY <1>1, <1>3 DEF VCs, Admits
  <2> QED
    BY <2>1 DEF Escape
<1> QED
  BY <1>2, <1>3

\* A packet that holds an escape channel and asks for one at the next router asks
\* for a channel of higher rank.  So the packets that wait for each other's escape
\* channels, in one direction, never form a cycle.
THEOREM EscapeChannelsOrdered ==
  ASSUME NEW dir \in {LEFT, RIGHT}, NEW r \in Routers, NEW dst \in Routers,
         NEW vc \in Escape, NEW wc \in Escape, NumVC >= 2,
         r # dst, Admits(r, dst, vc),
         RingLink[<<r, dir>>] # dst, Admits(RingLink[<<r, dir>>], dst, wc)
  PROVE  Rank(dir, r, vc) < Rank(dir, RingLink[<<r, dir>>], wc)
<1> DEFINE n == RingLink[<<r, dir>>]
<1>1. /\ r \in 0 .. NumRouter - 1 /\ dst \in 0 .. NumRouter - 1
      /\ NumRouter \in Nat \ {0} /\ NumVC \in Nat
  BY SizeAssumption DEF Routers
<1>2. n = IF dir = LEFT THEN (r - 1 + NumRouter) % NumRouter ELSE (r + 1) % NumRouter
  BY <1>1 DEF RingLink, LEFT, RIGHT
<1>3. n = IF dir = LEFT THEN (IF r = 0 THEN NumRouter - 1 ELSE r - 1)
                        ELSE (IF r = NumRouter - 1 THEN 0 ELSE r + 1)
  <2>1. (r + 1) % NumRouter = IF r = NumRouter - 1 THEN 0 ELSE r + 1
    BY <1>1
  <2>2. (r - 1 + NumRouter) % NumRouter = IF r = 0 THEN NumRouter - 1 ELSE r - 1
    BY <1>1
  <2> QED
    BY <1>2, <2>1, <2>2
<1>4. /\ vc = NumVC - 2 => r < dst
      /\ vc = NumVC - 1 => r > dst
      /\ vc = NumVC - 2 \/ vc = NumVC - 1
  BY <1>1 DEF Admits, Escape
<1>5. /\ wc = NumVC - 2 => n <= dst
      /\ wc = NumVC - 1 => n >= dst
      /\ wc = NumVC - 2 \/ wc = NumVC - 1
      /\ n # dst
  BY <1>1 DEF Admits, Escape
<1> HIDE DEF n
<1>6. Rank(dir, r, vc) < Rank(dir, n, wc)
  BY <1>1, <1>3, <1>4, <1>5 DEF Rank, LEFT, RIGHT
<1> QED
  BY <1>6 DEF n
=============================================================================
