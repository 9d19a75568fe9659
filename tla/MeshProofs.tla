----------------------------- MODULE MeshProofs -----------------------------
(***************************************************************************)
(* The mesh is a topology for Router: its links are symmetric and its      *)
(* routes follow them, whatever its size, so that what RouterProofs proves *)
(* of credits and buffers holds on it.  Packets come nearer with every hop *)
(* and the escape channels cannot wait for each other in a cycle.          *)
(***************************************************************************)
EXTENDS MeshTopology, TLAPS

-----------------------------------------------------------------------------
(* Rows and columns of a router.                                           *)

LEMMA Divided ==
  ASSUME NEW w \in Nat \ {0}, NEW r \in Nat
  PROVE  r \div w \in Nat /\ r % w \in 0 .. w - 1 /\ r = w * (r \div w) + (r % w)
  OBVIOUS

LEMMA Scaled ==
  ASSUME NEW w \in Nat \ {0}, NEW a \in Int, NEW b \in Int, a < b
  PROVE  w * a + w <= w * b
  OBVIOUS

LEMMA Recovered ==
  ASSUME NEW w \in Nat \ {0}, NEW q \in Nat, NEW x \in 0 .. w - 1
  PROVE  (w * q + x) \div w = q /\ (w * q + x) % w = x
<1> DEFINE r == w * q + x
           p == r \div w
           y == r % w
<1>1. r \in Nat /\ r = w * q + x
  OBVIOUS
<1>2. p \in Nat /\ y \in 0 .. w - 1 /\ r = w * p + y
  BY <1>1, Divided
<1> HIDE DEF r, p, y
<1>3. ~(p < q)
  BY <1>1, <1>2, Scaled
<1>4. ~(q < p)
  BY <1>1, <1>2, Scaled
<1>5. p = q /\ y = x
  BY <1>1, <1>2, <1>3, <1>4
<1> QED
  BY <1>5 DEF r, p, y

\* A router is given by its row and its column, both within the square.
LEMMA Placed ==
  ASSUME NEW w, Square(w), NEW r \in Routers
  PROVE  /\ Column(w, r) \in 0 .. w - 1 /\ Row(w, r) \in 0 .. w - 1
         /\ r = w * Row(w, r) + Column(w, r)
<1> DEFINE x == Column(w, r)
           y == Row(w, r)
<1>1. w \in Nat \ {0} /\ r \in Nat /\ r < w * w
  BY SizeAssumption DEF Square, Routers
<1>2. y \in Nat /\ x \in 0 .. w - 1 /\ r = w * y + x
  BY <1>1, Divided DEF Column, Row
<1> HIDE DEF x, y
<1>3. ~(w - 1 < y)
  <2>1. ASSUME w - 1 < y PROVE w * (w - 1) + w <= w * y
    BY <1>1, <1>2, <2>1, Scaled
  <2>2. w * (w - 1) + w = w * w
    BY <1>1
  <2> QED
    BY <1>1, <1>2, <2>1, <2>2
<1> QED
  BY <1>2, <1>3, <1>1 DEF x, y

\* The router of a row and a column.
LEMMA RouterAt ==
  ASSUME NEW w, Square(w), NEW x \in 0 .. w - 1, NEW y \in 0 .. w - 1
  PROVE  /\ w * y + x \in Routers
         /\ Column(w, w * y + x) = x /\ Row(w, w * y + x) = y
<1>1. w \in Nat \ {0} /\ NumRouter = w * w
  BY DEF Square
<1>2. w * y + w <= w * w
  BY <1>1, Scaled
<1>3. w * y \in Nat
  BY <1>1
<1>4. w * y + x \in Routers
  <2> DEFINE z == w * y
             s == w * w
  <2>1. z \in Nat /\ s \in Nat /\ z + w <= s /\ NumRouter = s
    BY <1>1, <1>2, <1>3
  <2> HIDE DEF z, s
  <2>2. z + x \in 0 .. NumRouter - 1
    BY <1>1, <2>1
  <2> QED
    BY <2>2 DEF Routers, z
<1>5. y \in Nat
  BY <1>1
<1>6. (w * y + x) \div w = y /\ (w * y + x) % w = x
  BY <1>1, <1>5, Recovered
<1> QED
  BY <1>4, <1>6 DEF Column, Row

\* What a hop in a direction does to the row and the column.
StepColumn(d) == IF d = RIGHT THEN 1 ELSE IF d = LEFT THEN 0 - 1 ELSE 0
StepRow(d) == IF d = DOWN THEN 1 ELSE IF d = UP THEN 0 - 1 ELSE 0

LEMMA Moved ==
  ASSUME NEW w, Square(w), NEW r \in Routers, NEW d \in Directions, HasLink(w, r, d)
  PROVE  LET n == Neighbour(w, r, d) IN
         /\ n \in Routers
         /\ Column(w, n) = Column(w, r) + StepColumn(d)
         /\ Row(w, n) = Row(w, r) + StepRow(d)
<1> DEFINE x == Column(w, r)
           y == Row(w, r)
           n == Neighbour(w, r, d)
           nx == x + StepColumn(d)
           ny == y + StepRow(d)
<1>1. x \in 0 .. w - 1 /\ y \in 0 .. w - 1 /\ r = w * y + x
  BY Placed
<1>2. w \in Nat \ {0}
  BY DEF Square
<1>3. nx \in 0 .. w - 1 /\ ny \in 0 .. w - 1
  <2>1. /\ d = UP => y > 0
        /\ d = DOWN => y < w - 1
        /\ d = LEFT => x # 0
        /\ d = RIGHT => x # w - 1
    BY DEF HasLink, LEFT, RIGHT, UP, DOWN
  <2> HIDE DEF x, y
  <2> QED
    BY <1>1, <1>2, <2>1 DEF StepColumn, StepRow, Directions, LEFT, RIGHT, UP, DOWN
<1>4. n = w * ny + nx
  <2>1. CASE d = UP
    <3>1. n = r - w /\ nx = x /\ ny = y - 1
      BY <1>1, <2>1 DEF Neighbour, StepColumn, StepRow, LEFT, RIGHT, UP, DOWN
    <3>2. w * (y - 1) = w * y - w
      BY <1>1, <1>2
    <3> QED
      BY <1>1, <1>2, <3>1, <3>2
  <2>2. CASE d = DOWN
    <3>1. n = r + w /\ nx = x /\ ny = y + 1
      BY <1>1, <2>2 DEF Neighbour, StepColumn, StepRow, LEFT, RIGHT, UP, DOWN
    <3>2. w * (y + 1) = w * y + w
      BY <1>1, <1>2
    <3> QED
      BY <1>1, <1>2, <3>1, <3>2
  <2>3. CASE d \in {LEFT, RIGHT}
    <3>1. n = r + StepColumn(d) /\ ny = y /\ StepColumn(d) \in Int
      BY <1>1, <1>2, <2>3 DEF Neighbour, StepColumn, StepRow, LEFT, RIGHT, UP, DOWN
    <3> QED
      BY <1>1, <1>2, <3>1
  <2> QED
    BY <2>1, <2>2, <2>3 DEF Directions
<1> HIDE DEF nx, ny, n
<1>5. n \in Routers /\ Column(w, n) = nx /\ Row(w, n) = ny
  BY <1>3, <1>4, RouterAt
<1> QED
  BY <1>5 DEF n, nx, ny

-----------------------------------------------------------------------------
(* The topology that init() builds satisfies what Router assumes of one:
   both ends of a link name each other (LinkAssumption).                    *)
THEOREM MeshLinksSymmetric ==
  ASSUME NEW w, Square(w), NumPort = MeshPorts
  PROVE  /\ DOMAIN MeshLink(w) \subseteq Routers \X (Ports \ {LocalPort})
         /\ \A l \in DOMAIN MeshLink(w) :
              LET far == <<MeshLink(w)[l], Opposite[l[2]]>>
              IN  far \in DOMAIN MeshLink(w) /\ MeshLink(w)[far] = l[1]
<1>1. DOMAIN MeshLink(w) = {l \in Routers \X Directions : HasLink(w, l[1], l[2])}
  BY DEF MeshLink
<1>2. Directions \subseteq Ports \ {LocalPort}
  BY DEF Directions, Ports, LocalPort, LEFT, RIGHT, UP, DOWN, MeshPorts
<1>3. ASSUME NEW l \in DOMAIN MeshLink(w)
      PROVE  LET far == <<MeshLink(w)[l], Opposite[l[2]]>>
             IN  far \in DOMAIN MeshLink(w) /\ MeshLink(w)[far] = l[1]
  <2> DEFINE r == l[1]
             d == l[2]
             n == Neighbour(w, r, d)
             o == Opposite[d]
  <2>1. r \in Routers /\ d \in Directions /\ HasLink(w, r, d) /\ MeshLink(w)[l] = n
    BY <1>1, <1>3 DEF MeshLink
  <2>2. /\ n \in Routers
        /\ Column(w, n) = Column(w, r) + StepColumn(d)
        /\ Row(w, n) = Row(w, r) + StepRow(d)
    BY <2>1, Moved
  <2>3. o = IF d = LEFT THEN RIGHT ELSE IF d = RIGHT THEN LEFT ELSE IF d = UP THEN DOWN ELSE UP
    BY <2>1 DEF Opposite, Directions, LocalPort, LEFT, RIGHT, UP, DOWN
  <2>4. o \in Directions
    BY <2>1, <2>3 DEF Directions
  <2> HIDE DEF r, d
  <2>5. /\ w \in Nat \ {0}
        /\ Column(w, r) \in 0 .. w - 1 /\ Row(w, r) \in 0 .. w - 1 /\ r \in Int
    <3>1. Column(w, r) \in 0 .. w - 1 /\ Row(w, r) \in 0 .. w - 1
      BY <2>1, Placed
    <3>2. w \in Nat \ {0} /\ r \in Int
      BY <2>1, SizeAssumption DEF Square, Routers
    <3> QED
      BY <3>1, <3>2
  <2>6. HasLink(w, n, o)
    <3>1. CASE d = LEFT \/ d = RIGHT
      BY <3>1, <2>2, <2>3, <2>5 DEF HasLink, StepColumn, LEFT, RIGHT, UP, DOWN
    <3>2. CASE d = UP \/ d = DOWN
      BY <3>2, <2>2, <2>3, <2>5 DEF HasLink, StepRow, LEFT, RIGHT, UP, DOWN
    <3> QED
      BY <2>1, <3>1, <3>2 DEF Directions
  <2>7. Neighbour(w, n, o) = r
    BY <2>1, <2>3, <2>5 DEF Neighbour, Directions, LEFT, RIGHT, UP, DOWN
  <2> HIDE DEF n, o
  <2>8. <<n, o>> \in DOMAIN MeshLink(w)
    BY <1>1, <2>2, <2>4, <2>6
  <2>9. MeshLink(w)[<<n, o>>] = r
    BY <1>1, <2>7, <2>8 DEF MeshLink
  <2> QED
    BY <2>1, <2>8, <2>9 DEF r, d, o
<1> QED
  BY <1>1, <1>2, <1>3

\* A direction that brings a packet nearer has a link.
LEMMA NearerLinked ==
  ASSUME NEW w, Square(w), NEW r \in Routers, NEW dst \in Routers, NEW d \in Adaptive(w, r, dst)
  PROVE  d \in Directions /\ HasLink(w, r, d)
<1>1. /\ w \in Nat \ {0}
      /\ Column(w, r) \in 0 .. w - 1 /\ Row(w, r) \in 0 .. w - 1
      /\ Column(w, dst) \in 0 .. w - 1 /\ Row(w, dst) \in 0 .. w - 1
  BY Placed DEF Square
<1> QED
  BY <1>1 DEF Adaptive, HasLink, LEFT, RIGHT, UP, DOWN

LEMMA RoutesNearer ==
  ASSUME NEW w, NEW r, NEW dst, r # dst, NEW vc
  PROVE  MeshRoutes(w, r, dst, vc) \subseteq Adaptive(w, r, dst)
  BY DEF MeshRoutes, EscapeRoute

(* stage_rc offers every head a way, and a way that has a link
   (RoutesAssumption), on each virtual channel.                             *)
THEOREM MeshRoutesLinked ==
  ASSUME NEW w, Square(w), NEW r \in Routers, NEW dst \in Routers, NEW vc \in VCs
  PROVE  /\ MeshRoutes(w, r, dst, vc) # {}
         /\ \A o \in MeshRoutes(w, r, dst, vc) : o = LocalPort \/ <<r, o>> \in DOMAIN MeshLink(w)
<1>1. CASE r = dst
  BY <1>1 DEF MeshRoutes
<1>2. CASE r # dst
  <2>1. Adaptive(w, r, dst) # {}
    <3>1. /\ Column(w, r) \in Int /\ Row(w, r) \in Int /\ r = w * Row(w, r) + Column(w, r)
          /\ Column(w, dst) \in Int /\ Row(w, dst) \in Int
          /\ dst = w * Row(w, dst) + Column(w, dst)
      BY Placed
    <3>2. Column(w, r) # Column(w, dst) \/ Row(w, r) # Row(w, dst)
      BY <1>2, <3>1
    <3>3. \/ Column(w, r) > Column(w, dst) \/ Column(w, r) < Column(w, dst)
          \/ Row(w, r) > Row(w, dst) \/ Row(w, r) < Row(w, dst)
      BY <3>1, <3>2
    <3> QED
      BY <3>3 DEF Adaptive, Directions
  <2>2. MeshRoutes(w, r, dst, vc) # {}
    BY <1>2, <2>1 DEF MeshRoutes, EscapeRoute
  <2>3. ASSUME NEW o \in MeshRoutes(w, r, dst, vc) PROVE <<r, o>> \in DOMAIN MeshLink(w)
    <3>1. o \in Directions /\ HasLink(w, r, o)
      BY <1>2, <2>3, RoutesNearer, NearerLinked
    <3> QED
      BY <3>1 DEF MeshLink
  <2> QED
    BY <2>2, <2>3
<1> QED
  BY <1>1, <1>2

-----------------------------------------------------------------------------
Gap(a, b) == IF a < b THEN b - a ELSE a - b
Distance(w, r, dst) == Gap(Column(w, r), Column(w, dst)) + Gap(Row(w, r), Row(w, dst))

(* A hop along any way that stage_rc offers brings the packet one router
   nearer, and never does the next router offer the way back, which
   stage_vca_pick_winner would not grant (ii == oport).                     *)
THEOREM MeshRoutesApproach ==
  ASSUME NEW w, Square(w), NEW r \in Routers, NEW dst \in Routers, r # dst,
         NEW vc \in VCs, NEW d \in MeshRoutes(w, r, dst, vc), NEW wc \in VCs
  PROVE  LET n == MeshLink(w)[<<r, d>>] IN
         /\ Distance(w, n, dst) = Distance(w, r, dst) - 1
         /\ Opposite[d] \notin MeshRoutes(w, n, dst, wc)
<1> DEFINE n == Neighbour(w, r, d)
           x == Column(w, r)
           y == Row(w, r)
           xd == Column(w, dst)
           yd == Row(w, dst)
<1>1. d \in Adaptive(w, r, dst)
  BY RoutesNearer
<1>2. d \in Directions /\ HasLink(w, r, d)
  BY <1>1, NearerLinked
<1>3. MeshLink(w)[<<r, d>>] = n
  BY <1>2 DEF MeshLink
<1>4. Column(w, n) = x + StepColumn(d) /\ Row(w, n) = y + StepRow(d)
  BY <1>2, Moved
<1>5. x \in Int /\ y \in Int /\ xd \in Int /\ yd \in Int
  BY Placed
<1>6. \/ d = LEFT /\ x > xd
      \/ d = RIGHT /\ x < xd
      \/ d = UP /\ y > yd
      \/ d = DOWN /\ y < yd
  BY <1>1 DEF Adaptive
<1> HIDE DEF n, x, y, xd, yd
<1>7. Distance(w, n, dst) = Distance(w, r, dst) - 1
  <2>1. /\ Distance(w, n, dst) = Gap(x + StepColumn(d), xd) + Gap(y + StepRow(d), yd)
        /\ Distance(w, r, dst) = Gap(x, xd) + Gap(y, yd)
    BY <1>4 DEF Distance, x, y, xd, yd
  <2>2. CASE d = LEFT \/ d = RIGHT
    BY <1>5, <1>6, <2>1, <2>2 DEF Gap, StepColumn, StepRow, LEFT, RIGHT, UP, DOWN
  <2>3. CASE d = UP \/ d = DOWN
    BY <1>5, <1>6, <2>1, <2>3 DEF Gap, StepColumn, StepRow, LEFT, RIGHT, UP, DOWN
  <2> QED
    BY <1>6, <2>2, <2>3
<1>8. Opposite[d] \notin MeshRoutes(w, n, dst, wc)
  <2>1. Opposite[d] = IF d = LEFT THEN RIGHT ELSE IF d = RIGHT THEN LEFT
                      ELSE IF d = UP THEN DOWN ELSE UP
    BY <1>6 DEF Opposite, LocalPort, LEFT, RIGHT, UP, DOWN
  <2>2. Opposite[d] # LocalPort
    BY <2>1 DEF LocalPort, LEFT, RIGHT, UP, DOWN
  <2>3. MeshRoutes(w, n, dst, wc) \subseteq {LocalPort} \union Adaptive(w, n, dst)
    BY DEF MeshRoutes, EscapeRoute
  <2>4. Opposite[d] \notin Adaptive(w, n, dst)
    <3>1. \A o \in Adaptive(w, n, dst) :
            \/ o = LEFT /\ x + StepColumn(d) > xd
            \/ o = RIGHT /\ x + StepColumn(d) < xd
            \/ o = UP /\ y + StepRow(d) > yd
            \/ o = DOWN /\ y + StepRow(d) < yd
      BY <1>4 DEF Adaptive, xd, yd
    <3>2. CASE d = LEFT \/ d = RIGHT
      BY <1>5, <1>6, <2>1, <3>1, <3>2 DEF StepColumn, LEFT, RIGHT, UP, DOWN
    <3>3. CASE d = UP \/ d = DOWN
      BY <1>5, <1>6, <2>1, <3>1, <3>3 DEF StepRow, LEFT, RIGHT, UP, DOWN
    <3> QED
      BY <1>6, <3>2, <3>3
  <2> QED
    BY <2>2, <2>3, <2>4
<1> QED
  BY <1>3, <1>7, <1>8

\* The place of the escape channel of router r in direction d among all: first
\* those along the rows, then those along the columns.
EscapeRank(w, r, d) ==
  IF d = RIGHT THEN Column(w, r)
  ELSE IF d = LEFT THEN w - 1 - Column(w, r)
  ELSE IF d = DOWN THEN w + Row(w, r)
  ELSE w + (w - 1 - Row(w, r))

(* A packet that holds the escape channel of a link and asks for the one of
   the next link asks for a channel of higher rank: the waits for escape
   channels, of packets in all directions, form no cycle.                   *)
THEOREM MeshEscapeOrdered ==
  ASSUME NEW w, Square(w), NEW r \in Routers, NEW dst \in Routers,
         NEW d \in EscapeRoute(w, r, dst), NEW e \in EscapeRoute(w, MeshLink(w)[<<r, d>>], dst)
  PROVE  EscapeRank(w, r, d) < EscapeRank(w, MeshLink(w)[<<r, d>>], e)
<1> DEFINE n == Neighbour(w, r, d)
           x == Column(w, r)
           y == Row(w, r)
           xd == Column(w, dst)
           yd == Row(w, dst)
           nx == Column(w, n)
           ny == Row(w, n)
<1>1. d \in Adaptive(w, r, dst)
  BY DEF EscapeRoute
<1>2. d \in Directions /\ HasLink(w, r, d)
  BY <1>1, NearerLinked
<1>3. MeshLink(w)[<<r, d>>] = n
  BY <1>2 DEF MeshLink
<1>4. n \in Routers /\ nx = x + StepColumn(d) /\ ny = y + StepRow(d)
  BY <1>2, Moved
<1>5. /\ x \in 0 .. w - 1 /\ y \in 0 .. w - 1 /\ xd \in Int /\ yd \in Int
      /\ nx \in 0 .. w - 1 /\ ny \in 0 .. w - 1
  BY <1>4, Placed
<1>6. w \in Nat
  BY DEF Square
<1> HIDE DEF n
<1>7. \/ d = LEFT /\ x > xd
      \/ d = RIGHT /\ x < xd
      \/ d = UP /\ y > yd /\ ~(x > xd) /\ ~(x < xd)
      \/ d = DOWN /\ y < yd /\ ~(x > xd) /\ ~(x < xd)
  BY DEF EscapeRoute, Adaptive, Directions, LEFT, RIGHT, UP, DOWN
<1>8. \/ e = LEFT /\ nx > xd
      \/ e = RIGHT /\ nx < xd
      \/ e = UP /\ ny > yd /\ ~(nx > xd) /\ ~(nx < xd)
      \/ e = DOWN /\ ny < yd /\ ~(nx > xd) /\ ~(nx < xd)
  BY <1>3 DEF EscapeRoute, Adaptive, Directions, LEFT, RIGHT, UP, DOWN
<1>9. /\ EscapeRank(w, r, d) = IF d = RIGHT THEN x ELSE IF d = LEFT THEN w - 1 - x
                               ELSE IF d = DOWN THEN w + y ELSE w + (w - 1 - y)
      /\ EscapeRank(w, n, e) = IF e = RIGHT THEN nx ELSE IF e = LEFT THEN w - 1 - nx
                               ELSE IF e = DOWN THEN w + ny ELSE w + (w - 1 - ny)
  BY DEF EscapeRank
<1> HIDE DEF x, y, xd, yd, nx, ny
<1> SUFFICES EscapeRank(w, r, d) < EscapeRank(w, n, e)
  BY <1>3
<1>10. CASE d = LEFT \/ d = RIGHT
  BY <1>4, <1>5, <1>6, <1>7, <1>8, <1>9, <1>10 DEF StepColumn, StepRow, LEFT, RIGHT, UP, DOWN
<1>11. CASE d = UP \/ d = DOWN
  BY <1>4, <1>5, <1>6, <1>7, <1>8, <1>9, <1>11 DEF StepColumn, StepRow, LEFT, RIGHT, UP, DOWN
<1> QED
  BY <1>7, <1>10, <1>11
=============================================================================
