---------------------------- MODULE RingTopology ----------------------------
(***************************************************************************)
(* The ring of network_ring.cc: each router is linked to the previous and  *)
(* the next one, a packet goes the shorter way round, and the last two     *)
(* virtual channels are the escape channels of Duato's protocol.           *)
(*                                                                         *)
(* m_dir is fixed by the first stage_rc of a head, in the source router,   *)
(* so the direction is a function of source and destination.               *)
(***************************************************************************)
EXTENDS Router

RingPorts == 3

RingLink ==
  [l \in (0 .. NumRouter - 1) \X {1, 2} |->
     IF l[2] = LEFT THEN (l[1] - 1 + NumRouter) % NumRouter ELSE (l[1] + 1) % NumRouter]

Direction(src, dst) ==
  LET left == IF src > dst THEN src - dst ELSE src - dst + NumRouter
      right == IF src > dst THEN dst - src + NumRouter ELSE dst - src
  IN  IF left < right THEN LEFT ELSE RIGHT

\* the escape channels are kept free and nobody is let in
AdmitsNoEscape(r, dst, vc) == vc < NumVC - 2
\* the channels a router lets a packet for dst take
Admits(r, dst, vc) ==
  CASE vc = NumVC - 2 -> r <= dst
    [] vc = NumVC - 1 -> r >= dst
    [] OTHER -> TRUE

RingRoutes(r, p, vc) ==
  IF ~Admits(r, Dst[p], vc) THEN {}
  ELSE IF r = Dst[p] THEN {LocalPort} ELSE {Direction(Src[p], Dst[p])}
=============================================================================
