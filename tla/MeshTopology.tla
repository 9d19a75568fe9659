---------------------------- MODULE MeshTopology ----------------------------
(***************************************************************************)
(* The mesh of network_mesh.cc: the routers fill a square row by row, each *)
(* is linked to its neighbours, and a packet moves towards its destination *)
(* in either dimension; on the last virtual channel, the escape channel,   *)
(* first along its row and then along its column.                          *)
(***************************************************************************)
EXTENDS Router

MeshPorts == 5
Directions == {LEFT, RIGHT, UP, DOWN}

\* init() adds routers of no type until their number is a square.
Square(w) == w \in Nat \ {0} /\ NumRouter = w * w

Column(w, r) == r % w
Row(w, r) == r \div w

HasLink(w, r, d) ==
  \/ d = UP /\ Row(w, r) > 0
  \/ d = DOWN /\ Row(w, r) < w - 1
  \/ d = LEFT /\ Column(w, r) # 0
  \/ d = RIGHT /\ Column(w, r) # w - 1

Neighbour(w, r, d) ==
  CASE d = UP -> r - w
    [] d = DOWN -> r + w
    [] d = LEFT -> r - 1
    [] d = RIGHT -> r + 1

MeshLink(w) ==
  [l \in {l \in Routers \X Directions : HasLink(w, l[1], l[2])} |-> Neighbour(w, l[1], l[2])]

\* m_route[port][vc][0]: every direction that brings a packet nearer
Adaptive(w, r, dst) ==
  {d \in Directions : \/ d = LEFT /\ Column(w, r) > Column(w, dst)
                      \/ d = RIGHT /\ Column(w, r) < Column(w, dst)
                      \/ d = UP /\ Row(w, r) > Row(w, dst)
                      \/ d = DOWN /\ Row(w, r) < Row(w, dst)}

\* m_route[port][vc][1]: along the row as long as the column is another one
EscapeRoute(w, r, dst) ==
  LET along == Adaptive(w, r, dst) \intersect {LEFT, RIGHT}
  IN IF along # {} THEN along ELSE Adaptive(w, r, dst)

\* stage_vca_pick_winner looks into m_route[port][vc][ovc / (m_num_vc - 1)].
MeshRoutes(w, r, dst, vc) ==
  IF r = dst THEN {LocalPort}
  ELSE IF vc \div (NumVC - 1) = 0 THEN Adaptive(w, r, dst) ELSE EscapeRoute(w, r, dst)
=============================================================================
