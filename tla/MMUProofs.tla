----------------------------- MODULE MMUProofs -----------------------------
(***************************************************************************)
(* Proofs about the MMU: the page table, the free frames, the replacement  *)
(* unit, the TLB and the fault buffers agree in every reachable state, for *)
(* every number of frames, TLB entries, pages and uops and all latencies.  *)
(***************************************************************************)
EXTENDS MMU, NatLemmas, FiniteSetTheorems, TLAPS

-----------------------------------------------------------------------------
(* Recency lists *)

Elems(list) == {list[i] : i \in DOMAIN list}

\* the list holds the pages of T, each once
Lists(list, T) == list \in Seq(Pages) /\ NoRepetition(list) /\ Elems(list) = T

\* attach() puts a page that is not in the list into it.
LEMMA AttachLists ==
    ASSUME NEW list, NEW T, Lists(list, T), NEW page \in Pages, page \notin T
    PROVE  /\ Lists(Attach(list, page), T \cup {page})
           /\ Len(Attach(list, page)) = Len(list) + 1
<1> DEFINE new == Attach(list, page)
<1>1. /\ list \in Seq(Pages)
      /\ Len(list) \in Nat
      /\ DOMAIN list = 1 .. Len(list)
      /\ \A i \in 1 .. Len(list) : list[i] \in Pages
    BY DEF Lists
<1>2. /\ new \in Seq(Pages)
      /\ Len(new) = Len(list) + 1
      /\ DOMAIN new = 1 .. Len(list) + 1
    BY <1>1 DEF Attach
<1>3. /\ new[1] = page
      /\ \A i \in 2 .. Len(list) + 1 : new[i] = list[i - 1]
    BY <1>1 DEF Attach
<1>4. \A i \in 1 .. Len(list) : list[i] # page
    BY <1>1 DEF Lists, Elems
<1>5. NoRepetition(new)
  <2> SUFFICES ASSUME NEW i \in 1 .. Len(list) + 1, NEW j \in 1 .. Len(list) + 1,
                      new[i] = new[j]
               PROVE  i = j
      BY <1>2 DEF NoRepetition
  <2> HIDE DEF new
  <2>1. CASE i = 1
      BY <2>1, <1>1, <1>3, <1>4
  <2>2. CASE j = 1
      BY <2>2, <1>1, <1>3, <1>4
  <2>3. CASE i # 1 /\ j # 1
    <3>1. i - 1 \in DOMAIN list /\ j - 1 \in DOMAIN list
        BY <2>3, <1>1
    <3>2. list[i - 1] = list[j - 1]
        BY <2>3, <1>1, <1>3
    <3> QED BY <3>1, <3>2, <1>1 DEF Lists, NoRepetition
  <2> QED BY <2>1, <2>2, <2>3
<1>6. Elems(new) = Elems(list) \cup {page}
  <2> HIDE DEF new
  <2>1. ASSUME NEW i \in DOMAIN new PROVE new[i] \in Elems(list) \cup {page}
    <3>1. CASE i = 1
        BY <3>1, <1>3
    <3>2. CASE i # 1
      <4>1. i - 1 \in DOMAIN list /\ new[i] = list[i - 1]
          BY <3>2, <1>1, <1>2, <1>3
      <4> QED BY <4>1 DEF Elems
    <3> QED BY <3>1, <3>2
  <2>2. ASSUME NEW i \in DOMAIN list PROVE list[i] \in Elems(new)
    <3>1. i + 1 \in DOMAIN new /\ new[i + 1] = list[i]
        BY <1>1, <1>2, <1>3
    <3> QED BY <3>1 DEF Elems
  <2>3. page \in Elems(new)
    <3>1. 1 \in DOMAIN new
        BY <1>1, <1>2
    <3> QED BY <3>1, <1>3 DEF Elems
  <2> QED BY <2>1, <2>2, <2>3 DEF Elems
<1> QED BY <1>2, <1>5, <1>6 DEF Lists

\* detach() takes a page that is in the list out of it.
LEMMA DetachLists ==
    ASSUME NEW list, NEW T, Lists(list, T), NEW page \in T
    PROVE  /\ Lists(Detach(list, page), T \ {page})
           /\ Len(Detach(list, page)) = Len(list) - 1
<1> DEFINE k == CHOOSE i \in DOMAIN list : list[i] = page
           new == Detach(list, page)
<1>1. /\ list \in Seq(Pages)
      /\ Len(list) \in Nat
      /\ DOMAIN list = 1 .. Len(list)
      /\ \A i \in 1 .. Len(list) : list[i] \in Pages
    BY DEF Lists
<1>2. k \in 1 .. Len(list) /\ list[k] = page
    BY <1>1 DEF Lists, Elems
<1>3. /\ DOMAIN new = 1 .. Len(list) - 1
      /\ \A i \in 1 .. Len(list) - 1 :
             new[i] = IF i < k THEN list[i] ELSE list[i + 1]
    BY DEF Detach
<1>4. new = [i \in 1 .. Len(list) - 1 |-> IF i < k THEN list[i] ELSE list[i + 1]]
    BY DEF Detach
<1> HIDE DEF k, new
<1>5. /\ new \in Seq(Pages)
      /\ Len(new) = Len(list) - 1
  <2>1. \A i \in 1 .. Len(list) - 1 : (IF i < k THEN list[i] ELSE list[i + 1]) \in Pages
      BY <1>1, <1>2
  <2> QED BY <1>1, <1>2, <1>4, <2>1
<1>6. ASSUME NEW i \in 1 .. Len(list) - 1
      PROVE  \E m \in 1 .. Len(list) : /\ m # k /\ new[i] = list[m]
                                       /\ m = IF i < k THEN i ELSE i + 1
    BY <1>1, <1>2, <1>3
<1>7. \A i, j \in 1 .. Len(list) : list[i] = list[j] => i = j
    BY <1>1 DEF Lists, NoRepetition
<1>8. NoRepetition(new)
  <2> SUFFICES ASSUME NEW i \in 1 .. Len(list) - 1, NEW j \in 1 .. Len(list) - 1,
                      new[i] = new[j]
               PROVE  i = j
      BY <1>3 DEF NoRepetition
  <2>1. PICK m \in 1 .. Len(list) : new[i] = list[m] /\ m = IF i < k THEN i ELSE i + 1
      BY <1>6
  <2>2. PICK n \in 1 .. Len(list) : new[j] = list[n] /\ n = IF j < k THEN j ELSE j + 1
      BY <1>6
  <2>3. m = n
      BY <2>1, <2>2, <1>7
  <2> QED BY <2>1, <2>2, <2>3, <1>2
<1>9. Elems(new) = Elems(list) \ {page}
  <2>1. ASSUME NEW i \in DOMAIN new PROVE new[i] \in Elems(list) \ {page}
    <3>1. PICK m \in 1 .. Len(list) : m # k /\ new[i] = list[m]
        BY <1>3, <1>6
    <3>2. list[m] # page
        BY <3>1, <1>2, <1>7
    <3> QED BY <3>1, <3>2, <1>1 DEF Elems
  <2>2. ASSUME NEW m \in DOMAIN list, list[m] # page PROVE list[m] \in Elems(new)
    <3>1. CASE m < k
      <4>1. m \in DOMAIN new /\ new[m] = list[m]
          BY <3>1, <1>1, <1>2, <1>3
      <4> QED BY <4>1 DEF Elems
    <3>2. CASE m > k
      <4>1. m - 1 \in DOMAIN new /\ new[m - 1] = list[m]
          BY <3>2, <1>1, <1>2, <1>3
      <4> QED BY <4>1 DEF Elems
    <3> QED BY <3>1, <3>2, <2>2, <1>1, <1>2
  <2> QED BY <2>1, <2>2 DEF Elems
<1> QED BY <1>5, <1>8, <1>9 DEF Lists, new

\* update() keeps the pages of the list.
LEMMA MoveToFrontLists ==
    ASSUME NEW list, NEW T, Lists(list, T), NEW page \in T, T \subseteq Pages
    PROVE  /\ Lists(MoveToFront(list, page), T)
           /\ Len(MoveToFront(list, page)) = Len(list)
<1>1. /\ Lists(Detach(list, page), T \ {page})
      /\ Len(Detach(list, page)) = Len(list) - 1
    BY DetachLists
<1>2. /\ Lists(Attach(Detach(list, page), page), (T \ {page}) \cup {page})
      /\ Len(Attach(Detach(list, page), page)) = Len(list) - 1 + 1
    BY <1>1, AttachLists
<1>3. (T \ {page}) \cup {page} = T
    OBVIOUS
<1>4. Len(list) - 1 + 1 = Len(list)
  <2>1. Len(list) \in Nat
      BY DEF Lists
  <2> QED BY <2>1
<1> QED BY <1>2, <1>3, <1>4 DEF MoveToFront

\* getVictim() takes the last page out of the list.
LEMMA DropVictimLists ==
    ASSUME NEW list, NEW T, Lists(list, T), T # {}
    PROVE  /\ Victim(list) \in T
           /\ Lists(DropVictim(list), T \ {Victim(list)})
           /\ Len(DropVictim(list)) = Len(list) - 1
<1> DEFINE n == Len(list)
           new == DropVictim(list)
<1>1. /\ list \in Seq(Pages)
      /\ n \in Nat
      /\ DOMAIN list = 1 .. n
      /\ \A i \in 1 .. n : list[i] \in Pages
    BY DEF Lists
<1>2. n \in 1 .. n
  <2>1. PICK i \in DOMAIN list : TRUE
      BY DEF Lists, Elems
  <2> QED BY <2>1, <1>1
<1>3. /\ new \in Seq(Pages)
      /\ Len(new) = n - 1
      /\ DOMAIN new = 1 .. n - 1
      /\ \A i \in 1 .. n - 1 : new[i] = list[i]
    BY <1>1, <1>2 DEF DropVictim
<1>4. \A i, j \in 1 .. n : list[i] = list[j] => i = j
    BY <1>1 DEF Lists, NoRepetition
<1>5. Victim(list) = list[n]
    BY DEF Victim
<1> HIDE DEF n, new
<1>6. NoRepetition(new)
    BY <1>1, <1>3, <1>4 DEF NoRepetition
<1>7. Elems(new) = Elems(list) \ {list[n]}
  <2>1. ASSUME NEW i \in DOMAIN new PROVE new[i] \in Elems(list) \ {list[n]}
    <3>1. i \in DOMAIN list /\ new[i] = list[i] /\ i # n
        BY <1>1, <1>2, <1>3
    <3>2. list[i] # list[n]
        BY <3>1, <1>1, <1>2, <1>4
    <3> QED BY <3>1, <3>2 DEF Elems
  <2>2. ASSUME NEW i \in DOMAIN list, list[i] # list[n] PROVE list[i] \in Elems(new)
    <3>1. i \in DOMAIN new /\ new[i] = list[i]
        BY <2>2, <1>1, <1>2, <1>3
    <3> QED BY <3>1 DEF Elems
  <2> QED BY <2>1, <2>2 DEF Elems
<1>8. list[n] \in Elems(list)
    BY <1>1, <1>2 DEF Elems
<1> QED BY <1>3, <1>5, <1>6, <1>7, <1>8 DEF Lists, n, new

-----------------------------------------------------------------------------
(* Page table, free frames and replacement unit *)

USE NumFramesAssumption, PagesAssumption, TLBEntriesAssumption

MappedIn(pt) == {p \in Pages : pt[p] # NoFrame}

\* the tables that describe the memory agree
MapOK(pt, free, remaining, start, list) ==
    /\ pt \in [Pages -> Frames \cup {NoFrame}]
    /\ free \subseteq Frames
    /\ remaining = Cardinality(free)
    /\ start \in Frames
    /\ \A p, q \in MappedIn(pt) : pt[p] = pt[q] => p = q
    /\ free = Frames \ {pt[p] : p \in MappedIn(pt)}
    /\ Lists(list, MappedIn(pt))
    /\ Len(list) + remaining = NumFrames

\* the TLB holds translations of the page table
TLBOK(pt, list, frame) ==
    /\ frame \in [Pages -> Frames \cup {NoFrame}]
    /\ Lists(list, {p \in Pages : frame[p] # NoFrame})
    /\ Len(list) <= TLBEntries
    /\ \A p \in Pages : frame[p] # NoFrame => pt[p] = frame[p]

\* The frames are finite, so MMU::initialize can count the free ones.
LEMMA FramesFinite ==
    ASSUME NEW free, free \subseteq Frames
    PROVE  IsFiniteSet(free) /\ Cardinality(free) \in Nat
<1>1. IsFiniteSet(Frames)
    BY FS_Interval DEF Frames
<1>2. IsFiniteSet(free)
    BY <1>1, FS_Subset
<1> QED BY <1>2, FS_CardinalityType

\* The value that stands for no frame is none.
LEMMA NoFrameNotFrame == NoFrame \notin Frames
BY DEF NoFrame, Frames

\* Mapping an unmapped page to a free frame keeps the tables in agreement; the
\* replacement unit has a free entry for it.
LEMMA AllocateMap ==
    ASSUME NEW pt, NEW free, NEW remaining, NEW start, NEW list,
           MapOK(pt, free, remaining, start, list),
           NEW page \in Pages, pt[page] = NoFrame, NEW frame \in free
    PROVE  MapOK([pt EXCEPT ![page] = frame], free \ {frame}, remaining - 1, frame,
                 ReplacementInsert(list, page))
<1> DEFINE new == [pt EXCEPT ![page] = frame]
<1>1. frame \in Frames /\ frame # NoFrame
    BY NoFrameNotFrame DEF MapOK
<1>2. /\ new \in [Pages -> Frames \cup {NoFrame}]
      /\ new[page] = frame
      /\ \A p \in Pages \ {page} : new[p] = pt[p]
    BY <1>1 DEF MapOK
<1>3. MappedIn(new) = MappedIn(pt) \cup {page}
    BY <1>1, <1>2 DEF MappedIn
<1>4. page \notin MappedIn(pt)
    BY DEF MappedIn
<1>5. /\ \A p \in MappedIn(pt) : pt[p] # frame /\ new[p] = pt[p]
      /\ MappedIn(pt) \subseteq Pages
    BY <1>2, <1>4 DEF MapOK, MappedIn
<1> HIDE DEF new
<1>6. \A p, q \in MappedIn(new) : new[p] = new[q] => p = q
    BY <1>2, <1>3, <1>5 DEF MapOK
<1>7. free \ {frame} = Frames \ {new[p] : p \in MappedIn(new)}
    BY <1>2, <1>3, <1>5 DEF MapOK
<1>8. /\ IsFiniteSet(free)
      /\ Cardinality(free) \in Nat
      /\ Cardinality(free \ {frame}) = Cardinality(free) - 1
      /\ Cardinality(free \ {frame}) \in Nat
  <2>1. IsFiniteSet(free) /\ Cardinality(free) \in Nat
      BY FramesFinite DEF MapOK
  <2>2. Cardinality(free \ {frame}) = Cardinality(free) - 1
      BY <2>1, FS_RemoveElement
  <2>3. Cardinality(free \ {frame}) \in Nat
      BY FramesFinite DEF MapOK
  <2> QED BY <2>1, <2>2, <2>3
<1>9. Len(list) \in Nat
    BY DEF MapOK, Lists
<1>10. Len(list) < NumFrames
    BY <1>8, <1>9 DEF MapOK
<1>11. /\ ReplacementInsert(list, page) = Attach(list, page)
       /\ Lists(Attach(list, page), MappedIn(pt) \cup {page})
       /\ Len(Attach(list, page)) = Len(list) + 1
    BY <1>4, <1>10, AttachLists DEF MapOK, ReplacementInsert
<1>12. Len(ReplacementInsert(list, page)) + (remaining - 1) = NumFrames
    BY <1>8, <1>9, <1>11 DEF MapOK
<1>13. remaining - 1 = Cardinality(free \ {frame}) /\ free \ {frame} \subseteq Frames
    BY <1>8 DEF MapOK
<1> QED BY <1>1, <1>2, <1>3, <1>6, <1>7, <1>11, <1>12, <1>13 DEF MapOK, new

\* Evicting the victim of the replacement unit when no frame is free keeps the
\* tables in agreement; there is a victim, and it is mapped.
LEMMA EvictMap ==
    ASSUME NEW pt, NEW free, NEW remaining, NEW start, NEW list,
           MapOK(pt, free, remaining, start, list), ~(remaining > 0)
    PROVE  /\ Victim(list) \in MappedIn(pt)
           /\ MapOK([pt EXCEPT ![Victim(list)] = NoFrame], free \cup {pt[Victim(list)]},
                    remaining + 1, pt[Victim(list)], DropVictim(list))
<1> DEFINE v == Victim(list)
           new == [pt EXCEPT ![v] = NoFrame]
<1>1. /\ IsFiniteSet(free)
      /\ Cardinality(free) = 0
    BY FramesFinite DEF MapOK
<1>2. free = {}
    BY <1>1, FS_EmptySet
<1>3. MappedIn(pt) # {}
  <2>1. 0 \in Frames
      BY DEF Frames
  <2> QED BY <2>1, <1>2 DEF MapOK
<1>4. /\ v \in MappedIn(pt)
      /\ Lists(DropVictim(list), MappedIn(pt) \ {v})
      /\ Len(DropVictim(list)) = Len(list) - 1
    BY <1>3, DropVictimLists DEF MapOK
<1> HIDE DEF v
<1>5. v \in Pages /\ pt[v] \in Frames /\ pt[v] # NoFrame
    BY <1>4 DEF MapOK, MappedIn
<1>6. /\ new \in [Pages -> Frames \cup {NoFrame}]
      /\ new[v] = NoFrame
      /\ \A p \in Pages \ {v} : new[p] = pt[p]
    BY <1>5 DEF MapOK
<1>7. /\ MappedIn(new) = MappedIn(pt) \ {v}
      /\ \A p \in MappedIn(new) : p \in MappedIn(pt) /\ new[p] = pt[p] /\ pt[p] # pt[v]
    BY <1>4, <1>5, <1>6 DEF MappedIn, MapOK
<1> HIDE DEF new
<1>8. \A p, q \in MappedIn(new) : new[p] = new[q] => p = q
    BY <1>7 DEF MapOK
<1>9. free \cup {pt[v]} = Frames \ {new[p] : p \in MappedIn(new)}
    BY <1>2, <1>4, <1>5, <1>7 DEF MapOK
<1>10. Cardinality(free \cup {pt[v]}) = remaining + 1
  <2>1. Cardinality(free \cup {pt[v]}) = Cardinality(free) + 1
      BY <1>1, <1>2, FS_AddElement
  <2> QED BY <2>1, <1>1 DEF MapOK
<1>11. Len(DropVictim(list)) + (remaining + 1) = NumFrames
  <2>1. Len(list) \in Nat /\ remaining = 0 /\ Len(list) + remaining = NumFrames
      BY <1>1 DEF MapOK, Lists
  <2> QED BY <2>1, <1>4
<1>12. free \cup {pt[v]} \subseteq Frames
    BY <1>2, <1>5
<1>13. MapOK(new, free \cup {pt[v]}, remaining + 1, pt[v], DropVictim(list))
    BY <1>4, <1>5, <1>6, <1>7, <1>8, <1>9, <1>10, <1>11, <1>12 DEF MapOK
<1> QED BY <1>4, <1>13 DEF new, v

\* A page that was not mapped has no TLB entry, so mapping it disturbs none.
LEMMA AllocateTLB ==
    ASSUME NEW pt, NEW list, NEW frame, TLBOK(pt, list, frame),
           pt \in [Pages -> Frames \cup {NoFrame}],
           NEW page \in Pages, pt[page] = NoFrame, NEW f \in Frames
    PROVE  TLBOK([pt EXCEPT ![page] = f], list, frame)
BY DEF TLBOK

\* TLB::invalidate of an evicted page leaves no translation of it.
LEMMA EvictTLB ==
    ASSUME NEW pt, TLBOK(pt, tlb_list, tlb_frame),
           pt \in [Pages -> Frames \cup {NoFrame}],
           NEW page \in Pages, TLBInvalidate(page)
    PROVE  TLBOK([pt EXCEPT ![page] = NoFrame], tlb_list', tlb_frame')
<1> DEFINE T == {p \in Pages : tlb_frame[p] # NoFrame}
<1>1. CASE tlb_frame[page] = NoFrame
    BY <1>1 DEF TLBInvalidate, TLBOK, tlbVars
<1>2. CASE tlb_frame[page] # NoFrame
  <2>1. /\ tlb_list' = Detach(tlb_list, page)
        /\ tlb_frame' = [tlb_frame EXCEPT ![page] = NoFrame]
      BY <1>2 DEF TLBInvalidate
  <2>2. page \in T /\ Lists(tlb_list, T)
      BY <1>2 DEF TLBOK
  <2> HIDE DEF T
  <2>3. /\ Lists(Detach(tlb_list, page), T \ {page})
        /\ Len(Detach(tlb_list, page)) = Len(tlb_list) - 1
      BY <2>2, DetachLists
  <2>4. {p \in Pages : tlb_frame'[p] # NoFrame} = T \ {page}
      BY <2>1 DEF TLBOK, T
  <2>5. Len(tlb_list) \in Nat /\ Len(tlb_list) <= TLBEntries
      BY <2>2 DEF TLBOK, Lists
  <2>6. Len(tlb_list') <= TLBEntries
      BY <2>1, <2>3, <2>5
  <2>7. tlb_frame' \in [Pages -> Frames \cup {NoFrame}]
      BY <2>1 DEF TLBOK
  <2>8. \A p \in Pages : tlb_frame'[p] # NoFrame => [pt EXCEPT ![page] = NoFrame][p] = tlb_frame'[p]
      BY <2>1 DEF TLBOK
  <2> QED BY <2>1, <2>3, <2>4, <2>6, <2>7, <2>8 DEF TLBOK
<1> QED BY <1>1, <1>2

\* A TLB hit moves the entry to the front.
LEMMA TouchTLB ==
    ASSUME NEW pt, NEW list, NEW frame, TLBOK(pt, list, frame),
           NEW page \in Pages, frame[page] # NoFrame
    PROVE  TLBOK(pt, MoveToFront(list, page), frame)
<1> DEFINE T == {p \in Pages : frame[p] # NoFrame}
<1>1. page \in T /\ Lists(list, T) /\ T \subseteq Pages
    BY DEF TLBOK
<1> HIDE DEF T
<1>2. Lists(MoveToFront(list, page), T) /\ Len(MoveToFront(list, page)) = Len(list)
    BY <1>1, MoveToFrontLists
<1> QED BY <1>2 DEF TLBOK, T

\* TLB::insert of a mapped page, over the LRU entry when the TLB is full.
LEMMA InsertTLB ==
    ASSUME NEW pt, TLBOK(pt, tlb_list, tlb_frame),
           NEW page \in Pages, tlb_frame[page] = NoFrame,
           pt[page] \in Frames, TLBInsert(page, pt[page])
    PROVE  TLBOK(pt, tlb_list', tlb_frame')
<1> DEFINE T == {p \in Pages : tlb_frame[p] # NoFrame}
           v == Victim(tlb_list)
<1>1. /\ page \notin T /\ Lists(tlb_list, T)
      /\ Len(tlb_list) \in Nat /\ Len(tlb_list) <= TLBEntries
      /\ pt[page] # NoFrame
      /\ tlb_frame \in [Pages -> Frames \cup {NoFrame}]
    BY NoFrameNotFrame DEF TLBOK, Lists
<1>2. CASE Len(tlb_list) < TLBEntries
  <2>1. /\ tlb_list' = Attach(tlb_list, page)
        /\ tlb_frame' = [tlb_frame EXCEPT ![page] = pt[page]]
      BY <1>2 DEF TLBInsert
  <2>2. {p \in Pages : tlb_frame'[p] # NoFrame} = T \cup {page}
      BY <2>1, <1>1
  <2> HIDE DEF T
  <2>3. Lists(tlb_list', T \cup {page}) /\ Len(tlb_list') = Len(tlb_list) + 1
      BY <2>1, <1>1, AttachLists
  <2>4. Len(tlb_list') <= TLBEntries
      BY <2>3, <1>1, <1>2
  <2>5. /\ tlb_frame' \in [Pages -> Frames \cup {NoFrame}]
        /\ \A p \in Pages : tlb_frame'[p] # NoFrame => pt[p] = tlb_frame'[p]
      BY <2>1, <1>1 DEF TLBOK
  <2> QED BY <2>2, <2>3, <2>4, <2>5 DEF TLBOK
<1>3. CASE ~(Len(tlb_list) < TLBEntries)
  <2>1. /\ tlb_list' = Attach(DropVictim(tlb_list), page)
        /\ tlb_frame' = [tlb_frame EXCEPT ![v] = NoFrame, ![page] = pt[page]]
      BY <1>3 DEF TLBInsert
  <2>2. T # {}
    <3>1. 1 \in DOMAIN tlb_list
        BY <1>1, <1>3 DEF Lists
    <3> QED BY <3>1, <1>1 DEF Lists, Elems
  <2>3. T \subseteq Pages
      OBVIOUS
  <2> HIDE DEF T, v
  <2>4. /\ v \in T
        /\ Lists(DropVictim(tlb_list), T \ {v})
        /\ Len(DropVictim(tlb_list)) = Len(tlb_list) - 1
      BY <2>2, <1>1, DropVictimLists DEF v
  <2>5. /\ Lists(tlb_list', (T \ {v}) \cup {page})
        /\ Len(tlb_list') = Len(tlb_list) - 1 + 1
      BY <2>1, <2>4, <1>1, AttachLists
  <2>6. /\ v \in Pages /\ v # page
        /\ \A p \in Pages : tlb_frame'[p] = IF p = page THEN pt[page]
                                            ELSE IF p = v THEN NoFrame ELSE tlb_frame[p]
      BY <2>1, <2>3, <2>4, <1>1
  <2>7. {p \in Pages : tlb_frame'[p] # NoFrame} = (T \ {v}) \cup {page}
      BY <2>6, <1>1 DEF T
  <2>8. Len(tlb_list') <= TLBEntries
      BY <2>5, <1>1
  <2>9. tlb_frame' \in [Pages -> Frames \cup {NoFrame}]
      BY <2>1, <1>1
  <2>10. \A p \in Pages : tlb_frame'[p] # NoFrame => pt[p] = tlb_frame'[p]
      BY <2>6 DEF TLBOK
  <2> QED BY <2>5, <2>7, <2>8, <2>9, <2>10 DEF TLBOK
<1> QED BY <1>2, <1>3

-----------------------------------------------------------------------------
(* The inductive invariant *)

USE FaultBufferAssumption, LatencyAssumption, UopsAssumption

MMUInv ==
    /\ TypeOK
    /\ MapOK(page_table, free_frames, free_frames_remaining, frame_to_allocate, replacement)
    /\ TLBOK(page_table, tlb_list, tlb_frame)
    /\ FaultsResolvable

\* MMU::initialize establishes the invariant: every frame free, every table empty.
LEMMA MMUInvInit == Init => MMUInv
<1> SUFFICES ASSUME Init PROVE MMUInv
    OBVIOUS
<1>1. TypeOK
  <2>1. 0 \in Frames /\ NumFrames \in Int
      BY DEF Frames
  <2>2. /\ replacement \in Seq(Pages) /\ tlb_list \in Seq(Pages)
        /\ walk_queue \in Seq([page : Pages, wait : Nat])
      BY DEF Init
  <2>3. /\ num_walks \in [Parents -> Int] /\ child_done \in [Parents -> Nat]
        /\ transfer_wait \in Nat /\ event_wait \in Nat
      BY DEF Init
  <2> QED BY <2>1, <2>2, <2>3, Zenon DEF Init, TypeOK
<1>2. Mapped = {} /\ MappedIn(page_table) = {} /\ {p \in Pages : tlb_frame[p] # NoFrame} = {}
    BY DEF Init, Mapped, MappedIn
<1>3. Lists(<<>>, {})
    BY DEF Lists, NoRepetition, Elems
<1>4. Cardinality(Frames) = NumFrames
    BY FS_Interval DEF Frames
<1>5. MapOK(page_table, free_frames, free_frames_remaining, frame_to_allocate, replacement)
  <2>1. Len(<<>>) + NumFrames = NumFrames
      OBVIOUS
  <2>2. Frames = Frames \ {page_table[p] : p \in MappedIn(page_table)}
      BY <1>2
  <2>3. \A p, q \in MappedIn(page_table) : page_table[p] = page_table[q] => p = q
      BY <1>2
  <2>4. /\ free_frames = Frames /\ free_frames_remaining = NumFrames
        /\ replacement = <<>>
      BY DEF Init
  <2>5. Lists(replacement, MappedIn(page_table))
      BY <1>2, <1>3, <2>4, Zenon
  <2> QED BY <1>1, <1>4, <2>1, <2>2, <2>3, <2>4, <2>5, Zenon DEF MapOK, TypeOK
<1>6. TLBOK(page_table, tlb_list, tlb_frame)
  <2>1. Len(<<>>) <= TLBEntries
      OBVIOUS
  <2> QED BY <1>1, <1>2, <1>3, <2>1 DEF Init, TLBOK, TypeOK
<1>7. FaultsResolvable
    BY <1>2 DEF Init, FaultsResolvable
<1> QED BY <1>1, <1>5, <1>6, <1>7 DEF MMUInv

\* Making room for the next transfer keeps the tables in agreement, and leaves
\* a free frame.
LEMMA PrepareTransferStep ==
    ASSUME NEW pt, NEW free, NEW remaining, NEW start, NEW list,
           MapOK(pt, free, remaining, start, list),
           TLBOK(pt, tlb_list, tlb_frame),
           PrepareTransfer(pt, free, remaining, start, list)
    PROVE  /\ MapOK(page_table', free_frames', free_frames_remaining', frame_to_allocate',
                    replacement')
           /\ TLBOK(page_table', tlb_list', tlb_frame')
           /\ MappedIn(page_table') \subseteq MappedIn(pt)
           /\ free_frames_remaining' > 0
           /\ event_wait' \in Nat
<1>1. CASE remaining > 0
    BY <1>1 DEF PrepareTransfer, tlbVars
<1>2. CASE ~(remaining > 0)
  <2>1. /\ event_wait' = EvictionLatency + FaultLatency
        /\ page_table' = [pt EXCEPT ![Victim(list)] = NoFrame]
        /\ free_frames' = free \cup {pt[Victim(list)]}
        /\ free_frames_remaining' = remaining + 1
        /\ frame_to_allocate' = pt[Victim(list)]
        /\ replacement' = DropVictim(list)
        /\ TLBInvalidate(Victim(list))
      BY <1>2 DEF PrepareTransfer
  <2>2. /\ Victim(list) \in MappedIn(pt)
        /\ MapOK(page_table', free_frames', free_frames_remaining', frame_to_allocate',
                 replacement')
      BY <1>2, <2>1, EvictMap
  <2>3. pt \in [Pages -> Frames \cup {NoFrame}] /\ Victim(list) \in Pages
      BY <2>2 DEF MapOK, MappedIn
  <2>4. TLBOK(page_table', tlb_list', tlb_frame')
      BY <2>1, <2>3, EvictTLB
  <2>5. MappedIn(page_table') \subseteq MappedIn(pt)
      BY <2>1, <2>3 DEF MappedIn
  <2>6. free_frames_remaining' > 0
    <3>1. remaining \in Nat
        BY FramesFinite DEF MapOK
    <3> QED BY <3>1, <2>1
  <2>7. event_wait' \in Nat
      BY <2>1
  <2> QED BY <2>2, <2>4, <2>5, <2>6, <2>7
<1> QED BY <1>1, <1>2

\* the circular search finds a free frame
LEMMA NextFreeFrameIsFree ==
    ASSUME free_frames \subseteq Frames, free_frames # {}, frame_to_allocate \in Frames
    PROVE  NextFreeFrame \in free_frames
<1> DEFINE Ahead(f) == (f - frame_to_allocate) % NumFrames
           S == {Ahead(f) : f \in free_frames}
<1>1. \A f \in free_frames : Ahead(f) \in Nat
    BY DEF Frames
<1> HIDE DEF Ahead
<1>2. S \subseteq Nat /\ S # {}
    BY <1>1
<1> HIDE DEF S
<1>3. PICK k \in S : \A j \in S : k <= j
    BY <1>2, SmallestExists
<1>4. \E f \in free_frames : \A g \in free_frames : Ahead(f) <= Ahead(g)
    BY <1>3 DEF S
<1> QED BY <1>4 DEF NextFreeFrame, Ahead

\* The front of the processing buffer is a page of the batch.
LEMMA FirstFaultIsFault ==
    ASSUME fault_buffer_processing \subseteq Pages, fault_buffer_processing # {}
    PROVE  FirstFault \in fault_buffer_processing
<1>1. fault_buffer_processing \subseteq Nat
    OBVIOUS
<1>2. \E p \in fault_buffer_processing : \A q \in fault_buffer_processing : p <= q
    BY <1>1, SmallestExists
<1> QED BY <1>2 DEF FirstFault

\* the tables of the map and the TLB, which most actions leave alone
tableVars == <<mapVars, replacement, tlbVars>>

\* A step that leaves page table, TLB, recency lists and faults alone keeps the invariant on them.
LEMMA TablesUnchanged ==
    ASSUME MMUInv, UNCHANGED tableVars
    PROVE  /\ MapOK(page_table', free_frames', free_frames_remaining', frame_to_allocate',
                    replacement')
           /\ TLBOK(page_table', tlb_list', tlb_frame')
           /\ Mapped' = Mapped
BY DEF MMUInv, tableVars, mapVars, tlbVars, Mapped

-----------------------------------------------------------------------------
(* Every action preserves the invariant *)

\* the fault buffers, and what the batch promises
buffers == <<fault_buffer, fault_buffer_processing, batch_processing,
             first_transfer_started>>

\* Without a resolved page the fault buffers stay as they are.
LEMMA NothingResolved ==
    ASSUME MMUInv, UNCHANGED <<tableVars, buffers>>, TypeOK'
    PROVE  MMUInv'
<1>1. FaultsResolvable'
    BY DEF MMUInv, FaultsResolvable, tableVars, mapVars, buffers, Mapped
<1> QED BY <1>1, TablesUnchanged DEF MMUInv

\* handle_page_faults with no batch and no fault.
LEMMA StepFaultsIdle == MMUInv /\ FaultsIdle => MMUInv'
<1> SUFFICES ASSUME MMUInv, FaultsIdle PROVE MMUInv'
    OBVIOUS
<1>1. TypeOK'
    BY DEF MMUInv, FaultsIdle, TypeOK, EnterRetryLoop, mapVars, tlbVars, walkVars, faultVars,
           batchVars, coreVars
<1> QED BY <1>1, NothingResolved DEF FaultsIdle, tableVars, buffers, faultVars, batchVars

\* begin_batch_processing moves the fault buffer into the batch.
LEMMA StepFaultsBegin == MMUInv /\ FaultsBegin => MMUInv'
<1> SUFFICES ASSUME MMUInv, FaultsBegin PROVE MMUInv'
    OBVIOUS
<1>1. TypeOK'
    BY DEF MMUInv, FaultsBegin, BeginBatch, TypeOK, EnterRetryLoop, mapVars, tlbVars, walkVars,
           coreVars
<1>2. UNCHANGED tableVars
    BY DEF FaultsBegin, tableVars
<1>3. FaultsResolvable'
  <2>1. /\ fault_buffer' = {} /\ fault_buffer_processing' = fault_buffer
        /\ batch_processing' = TRUE /\ first_transfer_started' = FALSE
        /\ fault_buffer # {}
      BY DEF FaultsBegin, BeginBatch
  <2> QED BY <2>1, <1>2, TablesUnchanged DEF MMUInv, FaultsResolvable
<1> QED BY <1>1, <1>2, <1>3, TablesUnchanged DEF MMUInv

\* The first transfer of a batch evicts a page when no frame is free.
LEMMA StepFaultsFirstTransfer == MMUInv /\ FaultsFirstTransfer => MMUInv'
<1> SUFFICES ASSUME MMUInv, FaultsFirstTransfer PROVE MMUInv'
    OBVIOUS
<1>1. /\ MapOK(page_table', free_frames', free_frames_remaining', frame_to_allocate',
               replacement')
      /\ TLBOK(page_table', tlb_list', tlb_frame')
      /\ MappedIn(page_table') \subseteq MappedIn(page_table)
      /\ free_frames_remaining' > 0
      /\ event_wait' \in Nat
    BY PrepareTransferStep DEF MMUInv, FaultsFirstTransfer
<1>2. free_frames_remaining' \in Int
    BY <1>1, FramesFinite DEF MapOK
<1>3. TypeOK'
    BY <1>1, <1>2 DEF MMUInv, FaultsFirstTransfer, TypeOK, MapOK, TLBOK, Lists, EnterRetryLoop,
           walkVars, faultVars, coreVars
<1>4. FaultsResolvable'
  <2>1. Mapped' \subseteq Mapped
      BY <1>1 DEF Mapped, MappedIn
  <2>2. UNCHANGED <<fault_buffer, fault_buffer_processing, batch_processing>>
      BY DEF FaultsFirstTransfer, faultVars
  <2> QED BY <2>1, <2>2, <1>1 DEF MMUInv, FaultsResolvable
<1> QED BY <1>1, <1>3, <1>4 DEF MMUInv

\* A finished transfer maps its page and prepares the next one.
LEMMA StepFaultsTransferDone == MMUInv /\ FaultsTransferDone => MMUInv'
<1> SUFFICES ASSUME MMUInv, FaultsTransferDone PROVE MMUInv'
    OBVIOUS
<1> DEFINE page == FirstFault
           frame == NextFreeFrame
           pt == [page_table EXCEPT ![page] = frame]
           free == free_frames \ {frame}
           remaining == free_frames_remaining - 1
           list == ReplacementInsert(replacement, page)
           rest == fault_buffer_processing \ {page}
           buffer == StillFaulting(page)
           uops == [fault_uops EXCEPT ![page] = {}]
<1>1. /\ batch_processing /\ first_transfer_started
      /\ fault_buffer_processing # {} /\ fault_buffer_processing \subseteq Pages
      /\ free_frames_remaining > 0
    BY DEF MMUInv, FaultsTransferDone, FaultsResolvable, TypeOK
<1>2. page \in fault_buffer_processing /\ page \in Pages
    BY <1>1, FirstFaultIsFault
<1>3. page_table[page] = NoFrame
    BY <1>1, <1>2 DEF MMUInv, FaultsResolvable, Mapped
<1>4. free_frames # {}
  <2>1. free_frames_remaining = Cardinality(free_frames)
      BY DEF MMUInv, MapOK
  <2>2. Cardinality({}) = 0
      BY FS_EmptySet
  <2> QED BY <2>1, <2>2, <1>1
<1>5. frame \in free_frames /\ frame \in Frames
    BY <1>4, NextFreeFrameIsFree DEF MMUInv, TypeOK
<1>6. MapOK(pt, free, remaining, frame, list)
    BY <1>2, <1>3, <1>5, AllocateMap DEF MMUInv
<1>7. TLBOK(pt, tlb_list, tlb_frame)
    BY <1>2, <1>3, <1>5, AllocateTLB DEF MMUInv, TypeOK
<1>8. MappedIn(pt) \subseteq Mapped \cup {page}
    BY <1>2, <1>5 DEF MappedIn, Mapped, MMUInv, TypeOK
<1>9. /\ retry_queue' \subseteq Uops /\ todo' \subseteq Uops
      /\ pc' = "retry" /\ cur' = cur
      /\ UNCHANGED <<walkVars, fault_retry_queue, paddr, num_walks, fault_parents, coreVars>>
    BY <1>2 DEF MMUInv, TypeOK, FaultsTransferDone, Waiters, EnterRetryLoop
<1>10. /\ uops \in [Pages -> SUBSET Uops]
       /\ [fault_uops_processing EXCEPT ![page] = {}] \in [Pages -> SUBSET Uops]
       /\ buffer \subseteq fault_buffer /\ page \notin buffer
    BY <1>2 DEF MMUInv, TypeOK, StillFaulting
<1>11. CASE rest # {}
  <2>1. /\ PrepareTransfer(pt, free, remaining, frame, list)
        /\ fault_buffer_processing' = rest
        /\ fault_uops_processing' = [fault_uops_processing EXCEPT ![page] = {}]
        /\ fault_buffer' = buffer
        /\ fault_uops' = uops
        /\ UNCHANGED <<batch_processing, first_transfer_started, transfer_wait>>
      BY <1>11 DEF FaultsTransferDone
  <2> HIDE DEF page, frame, pt, free, remaining, list, buffer, uops
  <2>2. /\ MapOK(page_table', free_frames', free_frames_remaining', frame_to_allocate',
                 replacement')
        /\ TLBOK(page_table', tlb_list', tlb_frame')
        /\ MappedIn(page_table') \subseteq MappedIn(pt)
        /\ free_frames_remaining' > 0
        /\ event_wait' \in Nat
      BY <2>1, <1>6, <1>7, PrepareTransferStep
  <2>3. free_frames_remaining' \in Int
      BY <2>2, FramesFinite DEF MapOK
  <2>4. TypeOK'
      BY <2>1, <2>2, <2>3, <1>9, <1>10 DEF MMUInv, TypeOK, MapOK, TLBOK, Lists, walkVars, coreVars
  <2>5. FaultsResolvable'
    <3>1. Mapped' \subseteq Mapped \cup {page}
        BY <2>2, <1>8 DEF Mapped, MappedIn
    <3> QED BY <3>1, <2>1, <2>2, <1>1, <1>10, <1>11 DEF MMUInv, FaultsResolvable
  <2> QED BY <2>2, <2>4, <2>5 DEF MMUInv
<1>12. CASE rest = {}
  <2>1. /\ page_table' = pt
        /\ free_frames' = free
        /\ free_frames_remaining' = remaining
        /\ frame_to_allocate' = frame
        /\ replacement' = list
        /\ UNCHANGED tlbVars
        /\ \/ buffer # {} /\ BeginBatch(buffer, uops)
           \/ /\ buffer = {}
              /\ fault_buffer_processing' = {}
              /\ fault_uops_processing' = [fault_uops_processing EXCEPT ![page] = {}]
              /\ fault_buffer' = buffer
              /\ fault_uops' = uops
              /\ batch_processing' = FALSE
              /\ first_transfer_started' = FALSE
              /\ transfer_wait' = 0
              /\ event_wait' = 0
      BY <1>12 DEF FaultsTransferDone
  <2> HIDE DEF page, frame, pt, free, remaining, list, buffer, uops
  <2>2. /\ MapOK(page_table', free_frames', free_frames_remaining', frame_to_allocate',
                 replacement')
        /\ TLBOK(page_table', tlb_list', tlb_frame')
      BY <2>1, <1>6, <1>7 DEF tlbVars
  <2>3. free_frames_remaining' \in Int
      BY <2>2, FramesFinite DEF MapOK
  <2>4. /\ fault_buffer' = {}
        /\ fault_buffer_processing' = buffer
        /\ batch_processing' \in BOOLEAN /\ (batch_processing' <=> buffer # {})
        /\ first_transfer_started' = FALSE
        /\ transfer_wait' \in Nat /\ event_wait' \in Nat
        /\ fault_uops' \in [Pages -> SUBSET Uops]
        /\ fault_uops_processing' \in [Pages -> SUBSET Uops]
    <3>1. CASE buffer # {} /\ BeginBatch(buffer, uops)
        BY <3>1, <1>10 DEF BeginBatch
    <3>2. CASE buffer = {}
      <4>1. /\ fault_buffer_processing' = {}
            /\ fault_uops_processing' = [fault_uops_processing EXCEPT ![page] = {}]
            /\ fault_buffer' = buffer
            /\ fault_uops' = uops
            /\ batch_processing' = FALSE
            /\ first_transfer_started' = FALSE
            /\ transfer_wait' = 0
            /\ event_wait' = 0
          BY <3>2, <2>1, Zenon
      <4>2. transfer_wait' \in Nat /\ event_wait' \in Nat
          BY <4>1
      <4> QED BY <3>2, <4>1, <4>2, <1>10, Zenon
    <3> QED BY <3>1, <3>2, <2>1
  <2>5. TypeOK'
      BY <2>2, <2>3, <2>4, <1>9, <1>10 DEF MMUInv, TypeOK, MapOK, TLBOK, Lists, walkVars, coreVars
  <2>6. FaultsResolvable'
    <3>1. Mapped' \subseteq Mapped \cup {page}
        BY <2>1, <1>8 DEF Mapped, MappedIn
    <3>2. buffer \cap Mapped' = {}
        BY <3>1, <1>10 DEF MMUInv, FaultsResolvable
    <3> QED BY <3>2, <2>4 DEF FaultsResolvable
  <2> QED BY <2>2, <2>5, <2>6 DEF MMUInv
<1> QED BY <1>11, <1>12

\* dcu_c::access touches nothing but the recency of the TLB
LEMMA StepAccess ==
    ASSUME MMUInv, NEW u \in Uops, NEW outcome \in Outcomes, Access(u, outcome)
    PROVE  /\ TLBOK(page_table, tlb_list', tlb_frame')
           /\ walk_queue' \in Seq([page : Pages, wait : Nat])
           /\ walk_page' \in [Pages -> SUBSET Uops]
           /\ num_walks' \in [Parents -> Int]
           /\ paddr' \in [Uops -> Frames \cup {NoFrame}]
           /\ in_memory' \subseteq Uops
<1> DEFINE page == PageOf[u]
           translated == paddr[u] # NoFrame
           known == translated \/ tlb_frame[page] # NoFrame
<1>1. page \in Pages /\ ParentOf[u] \in Parents \cup {NoParent}
    OBVIOUS
<1>2. CASE outcome = "tlb_miss"
  <2>1. EnqueueWalk(u) /\ UNCHANGED <<tlbVars, paddr, in_memory>>
      BY <1>2 DEF Access
  <2>2. walk_queue' \in Seq([page : Pages, wait : Nat])
    <3> DEFINE W == [page : Pages, wait : Nat]
               w == [page |-> page, wait |-> WalkLatency]
    <3>1. walk_queue \in Seq(W) /\ w \in W
        BY <1>1 DEF MMUInv, TypeOK
    <3>2. walk_queue' = IF walk_page[page] # {} THEN walk_queue ELSE Append(walk_queue, w)
        BY <2>1 DEF EnqueueWalk
    <3> HIDE DEF W, w
    <3>3. Append(walk_queue, w) \in Seq(W)
        BY ONLY <3>1
    <3>4. walk_queue' \in Seq(W)
        BY ONLY <3>1, <3>2, <3>3
    <3> QED BY <3>4 DEF W
  <2>3. walk_page' \in [Pages -> SUBSET Uops]
      BY <2>1, <1>1 DEF EnqueueWalk, MMUInv, TypeOK
  <2>4. num_walks' \in [Parents -> Int]
    <3>1. num_walks' = IF ParentOf[u] = NoParent THEN num_walks
                       ELSE [num_walks EXCEPT ![ParentOf[u]] = @ + 1]
        BY <2>1 DEF EnqueueWalk
    <3>2. num_walks \in [Parents -> Int]
        BY DEF MMUInv, TypeOK
    <3> QED BY <3>1, <3>2, <1>1
  <2> QED BY <2>1, <2>2, <2>3, <2>4 DEF MMUInv, TypeOK, tlbVars
<1>3. CASE outcome # "tlb_miss"
  <2>1. /\ known
        /\ tlb_list' = IF translated THEN tlb_list ELSE MoveToFront(tlb_list, page)
        /\ paddr' = IF translated THEN paddr ELSE [paddr EXCEPT ![u] = tlb_frame[page]]
        /\ in_memory' = IF outcome = "miss" THEN in_memory \cup {u} ELSE in_memory
        /\ UNCHANGED <<tlb_frame, walkVars, num_walks>>
      BY <1>3 DEF Access
  <2>2. TLBOK(page_table, tlb_list', tlb_frame')
    <3>1. CASE translated
        BY <3>1, <2>1 DEF MMUInv
    <3>2. CASE ~translated
        BY <3>2, <2>1, <1>1, TouchTLB DEF MMUInv
    <3> QED BY <3>1, <3>2
  <2>3. paddr' \in [Uops -> Frames \cup {NoFrame}]
      BY <2>1, <1>1 DEF MMUInv, TypeOK
  <2> QED BY <2>1, <2>2, <2>3 DEF MMUInv, TypeOK, walkVars
<1> QED BY <1>2, <1>3

\* an action of the cores or of the retry loop, built around access()
LEMMA OnlyAccess ==
    ASSUME MMUInv, TLBOK(page_table, tlb_list', tlb_frame'),
           UNCHANGED <<mapVars, replacement, buffers>>, TypeOK'
    PROVE  MMUInv'
<1>1. FaultsResolvable'
    BY DEF MMUInv, FaultsResolvable, mapVars, buffers, Mapped
<1> QED BY <1>1 DEF MMUInv, mapVars

\* Completing a child keeps the parents' counters typed.
LEMMA CountChildTypes ==
    ASSUME TypeOK, NEW u \in Uops, ParentOf[u] # NoParent, CountChild(u)
    PROVE  child_done' \in [Parents -> Nat] /\ done' \subseteq Uops \cup Parents
<1>1. ParentOf[u] \in Parents
    OBVIOUS
<1> QED BY <1>1 DEF TypeOK, CountChild

\* A retried dcache access.
LEMMA StepRetryAccess == ASSUME NEW u \in Uops PROVE MMUInv /\ RetryAccess(u) => MMUInv'
<1> SUFFICES ASSUME MMUInv, RetryAccess(u) PROVE MMUInv'
    OBVIOUS
<1>1. PICK outcome \in Outcomes :
          /\ Access(u, outcome)
          /\ retry_queue' = IF outcome = "denied" THEN retry_queue ELSE retry_queue \ {u}
          /\ IF outcome = "hit" /\ ParentOf[u] # NoParent
             THEN CountChild(u) ELSE UNCHANGED <<child_done, done>>
    BY DEF RetryAccess
<1>2. /\ todo' = todo \ {u}
      /\ UNCHANGED <<mapVars, replacement, fault_retry_queue, faultVars, batchVars,
                     fault_parents, unissued, pc, cur>>
    BY DEF RetryAccess
<1>3. child_done' \in [Parents -> Nat] /\ done' \subseteq Uops \cup Parents
    BY <1>1, CountChildTypes DEF MMUInv, TypeOK
<1>4. retry_queue' \subseteq Uops
    BY <1>1 DEF MMUInv, TypeOK
<1>5. TypeOK'
    BY <1>1, <1>2, <1>3, <1>4, StepAccess DEF MMUInv, TypeOK, TLBOK, Lists, mapVars, faultVars, batchVars
<1> QED BY <1>1, <1>2, <1>5, StepAccess, OnlyAccess DEF buffers, faultVars, batchVars

\* run_a_cycle leaves the retry loop.
LEMMA StepRetryLoopEnds == MMUInv /\ RetryLoopEnds => MMUInv'
<1> SUFFICES ASSUME MMUInv, RetryLoopEnds PROVE MMUInv'
    OBVIOUS
<1>1. TypeOK'
    BY DEF MMUInv, RetryLoopEnds, TypeOK, mapVars, tlbVars, walkVars, faultVars, batchVars, coreVars
<1> QED BY <1>1, NothingResolved DEF RetryLoopEnds, tableVars, buffers, faultVars, batchVars

\* run_a_cycle leaves the loop over resolved faults.
LEMMA StepFaultRetryLoopEnds == MMUInv /\ FaultRetryLoopEnds => MMUInv'
<1> SUFFICES ASSUME MMUInv, FaultRetryLoopEnds PROVE MMUInv'
    OBVIOUS
<1>1. TypeOK'
    BY DEF MMUInv, FaultRetryLoopEnds, TypeOK, mapVars, tlbVars, walkVars, faultVars, batchVars,
           coreVars
<1> QED BY <1>1, NothingResolved DEF FaultRetryLoopEnds, tableVars, buffers, faultVars, batchVars

\* run_a_cycle ends and the latencies count down.
LEMMA StepCycleEnds == MMUInv /\ CycleEnds => MMUInv'
<1> SUFFICES ASSUME MMUInv, CycleEnds PROVE MMUInv'
    OBVIOUS
<1>1. \A n \in Nat : Countdown(n) \in Nat
    BY DEF Countdown
<1>2. walk_queue' \in Seq([page : Pages, wait : Nat])
  <2> DEFINE W == [page : Pages, wait : Nat]
             Tick(w) == [w EXCEPT !.wait = Countdown(@)]
  <2>1. /\ walk_queue' = [i \in DOMAIN walk_queue |-> Tick(walk_queue[i])]
        /\ walk_queue \in Seq(W)
      BY DEF CycleEnds, MMUInv, TypeOK
  <2>2. \A w \in W : Tick(w) \in W
      BY <1>1
  <2> HIDE DEF W, Tick
  <2>3. walk_queue' \in Seq(W)
      BY <2>1, <2>2
  <2> QED BY <2>3 DEF W
<1>3. transfer_wait' \in Nat /\ event_wait' \in Nat
    BY <1>1 DEF CycleEnds, MMUInv, TypeOK
<1>4. TypeOK'
    BY <1>2, <1>3 DEF MMUInv, CycleEnds, TypeOK, mapVars, tlbVars, faultVars, coreVars
<1> QED BY <1>4, NothingResolved DEF CycleEnds, tableVars, buffers, faultVars, batchVars

\* a page table walk, found in both loops of run_a_cycle
LEMMA StepWalk ==
    ASSUME MMUInv, NEW u \in Uops, Walk(u), UNCHANGED <<mapVars, batchVars>>
    PROVE  /\ MapOK(page_table', free_frames', free_frames_remaining', frame_to_allocate',
                    replacement')
           /\ TLBOK(page_table', tlb_list', tlb_frame')
           /\ FaultsResolvable'
           /\ retry_queue' \subseteq Uops /\ fault_retry_queue' \subseteq Uops
           /\ fault_buffer' \subseteq Pages
           /\ fault_uops' \in [Pages -> SUBSET Uops]
           /\ paddr' \in [Uops -> Frames \cup {NoFrame}]
           /\ num_walks' \in [Parents -> Int]
           /\ fault_parents' \in [Threads -> SUBSET Parents]
<1> DEFINE page == PageOf[u]
           p == ParentOf[u]
<1>1. page \in Pages /\ p \in Parents \cup {NoParent}
    OBVIOUS
<1>2. Mapped' = Mapped
    BY DEF Mapped, mapVars
<1>3. num_walks \in [Parents -> Int]
    BY DEF MMUInv, TypeOK
<1>4. CASE WalkHit(u)
  <2>1. page_table[page] # NoFrame /\ page \in MappedIn(page_table)
      BY <1>1, <1>4 DEF WalkHit, MappedIn
  <2>2. page_table[page] \in Frames
      BY <2>1, <1>1 DEF MMUInv, TypeOK
  <2>3. TLBOK(page_table, tlb_list', tlb_frame')
    <3>1. CASE tlb_frame[page] # NoFrame
      <4>1. tlb_list' = MoveToFront(tlb_list, page) /\ tlb_frame' = tlb_frame
          BY <3>1, <1>4 DEF WalkHit
      <4> QED BY <3>1, <4>1, <1>1, TouchTLB DEF MMUInv
    <3>2. CASE tlb_frame[page] = NoFrame
      <4>1. TLBInsert(page, page_table[page])
          BY <3>2, <1>4 DEF WalkHit
      <4> QED BY <3>2, <4>1, <1>1, <2>2, InsertTLB DEF MMUInv
    <3> QED BY <3>1, <3>2
  <2>4. /\ Lists(replacement', MappedIn(page_table))
        /\ Len(replacement') = Len(replacement)
    <3>1. Lists(replacement, MappedIn(page_table)) /\ MappedIn(page_table) \subseteq Pages
        BY DEF MMUInv, MapOK, MappedIn
    <3>2. replacement' = MoveToFront(replacement, page)
        BY <1>4 DEF WalkHit
    <3> QED BY <3>1, <3>2, <2>1, MoveToFrontLists
  <2>5. MapOK(page_table', free_frames', free_frames_remaining', frame_to_allocate', replacement')
      BY <2>4 DEF MMUInv, MapOK, mapVars
  <2>6. num_walks' \in [Parents -> Int]
    <3>1. num_walks' = IF p # NoParent /\ num_walks[p] # 0
                       THEN [num_walks EXCEPT ![p] = @ - 1] ELSE num_walks
        BY <1>4 DEF WalkHit
    <3> QED BY <3>1, <1>1, <1>3
  <2>7. FaultsResolvable'
      BY <1>2, <1>4 DEF WalkHit, MMUInv, FaultsResolvable, mapVars, batchVars, faultVars
  <2>8. paddr' \in [Uops -> Frames \cup {NoFrame}]
      BY <1>4, <2>2 DEF WalkHit, MMUInv, TypeOK
  <2> QED BY <1>4, <2>3, <2>5, <2>6, <2>7, <2>8 DEF WalkHit, MMUInv, TypeOK, mapVars, faultVars
<1>5. CASE WalkFaultLater(u)
  <2>1. FaultsResolvable'
      BY <1>2, <1>5 DEF WalkFaultLater, MMUInv, FaultsResolvable, mapVars, batchVars, faultVars
  <2> QED BY <1>5, <2>1 DEF WalkFaultLater, MMUInv, TypeOK, mapVars, tlbVars, faultVars
<1>6. CASE WalkFault(u)
  <2>1. /\ page \notin Mapped
        /\ fault_buffer' = fault_buffer \cup {page}
        /\ fault_uops' = [fault_uops EXCEPT ![page] = @ \cup {u}]
        /\ UNCHANGED <<replacement, tlbVars, retry_queue, fault_retry_queue, paddr>>
      BY <1>6 DEF WalkFault, Mapped
  <2>2. FaultsResolvable'
      BY <2>1, <1>2 DEF MMUInv, FaultsResolvable, mapVars, batchVars
  <2>3. num_walks' \in [Parents -> Int]
    <3>1. num_walks' = IF p = NoParent THEN num_walks ELSE [num_walks EXCEPT ![p] = @ - 1]
        BY <1>6 DEF WalkFault
    <3> QED BY <3>1, <1>1, <1>3
  <2>4. fault_parents' \in [Threads -> SUBSET Parents]
    <3>1. CASE p = NoParent
        BY <3>1, <1>6 DEF WalkFault, MMUInv, TypeOK
    <3>2. CASE p # NoParent
      <4>1. p \in Parents /\ ThreadOf[p] \in Threads
          BY <3>2, <1>1
      <4>2. fault_parents' = [fault_parents EXCEPT ![ThreadOf[p]] =
                                 IF num_walks[p] - 1 # 0 THEN @ \cup {p} ELSE {}]
          BY <3>2, <1>6 DEF WalkFault
      <4> QED BY <4>1, <4>2 DEF MMUInv, TypeOK
    <3> QED BY <3>1, <3>2
  <2>5. fault_uops' \in [Pages -> SUBSET Uops] /\ fault_buffer' \subseteq Pages
      BY <2>1, <1>1 DEF MMUInv, TypeOK
  <2> QED BY <2>1, <2>2, <2>3, <2>4, <2>5 DEF MMUInv, TypeOK, mapVars, tlbVars
<1> QED BY <1>4, <1>5, <1>6 DEF Walk

\* A uop whose fault is resolved walks the table again.
LEMMA StepFaultRetry == ASSUME NEW u \in Uops PROVE MMUInv /\ FaultRetry(u) => MMUInv'
<1> SUFFICES ASSUME MMUInv, FaultRetry(u) PROVE MMUInv'
    OBVIOUS
<1>1. /\ Walk(u)
      /\ UNCHANGED <<mapVars, walkVars, batchVars, coreVars, pc, cur>>
      /\ todo' = todo \ {u}
    BY DEF FaultRetry
<1>2. TypeOK'
    BY <1>1, StepWalk DEF MMUInv, TypeOK, MapOK, TLBOK, Lists, mapVars, walkVars, batchVars, coreVars
<1> QED BY <1>1, <1>2, StepWalk DEF MMUInv

\* A page table walk, with a hit or a fault.
LEMMA StepWalkPage == ASSUME NEW u \in Uops PROVE MMUInv /\ WalkPage(u) => MMUInv'
<1> SUFFICES ASSUME MMUInv, WalkPage(u) PROVE MMUInv'
    OBVIOUS
<1>1. /\ Walk(u)
      /\ UNCHANGED <<mapVars, batchVars, coreVars, pc, todo, cur>>
    BY DEF WalkPage
<1>2. walk_page' \in [Pages -> SUBSET Uops]
  <2>1. walk_page' = [walk_page EXCEPT ![Head(walk_queue).page] = @ \ {u}]
      BY DEF WalkPage
  <2> QED BY <2>1 DEF MMUInv, TypeOK
<1>3. walk_queue' \in Seq([page : Pages, wait : Nat])
  <2> DEFINE W == [page : Pages, wait : Nat]
  <2>1. walk_queue \in Seq(W) /\ walk_queue # <<>>
      BY DEF WalkPage, WalkDue, MMUInv, TypeOK
  <2>2. walk_queue' \in {Tail(walk_queue), walk_queue}
      BY DEF WalkPage
  <2> HIDE DEF W
  <2>3. walk_queue' \in Seq(W)
      BY <2>1, <2>2
  <2> QED BY <2>3 DEF W
<1>4. TypeOK'
    BY <1>1, <1>2, <1>3, StepWalk DEF MMUInv, TypeOK, MapOK, TLBOK, Lists, mapVars, batchVars, coreVars
<1> QED BY <1>1, <1>4, StepWalk DEF MMUInv

\* exec starts the children of a parent.
LEMMA StepExecBegins == ASSUME NEW p \in Parents PROVE MMUInv /\ ExecBegins(p) => MMUInv'
<1> SUFFICES ASSUME MMUInv, ExecBegins(p) PROVE MMUInv'
    OBVIOUS
<1>1. num_walks' \in [Parents -> Int] /\ todo' \subseteq Uops
  <2>1. num_walks \in [Parents -> Int] /\ unissued \subseteq Uops
      BY DEF MMUInv, TypeOK
  <2>2. num_walks' = [num_walks EXCEPT ![p] = 0]
      BY DEF ExecBegins
  <2>3. num_walks' \in [Parents -> Int]
      BY ONLY <2>1, <2>2
  <2>4. todo' \subseteq Uops
      BY <2>1 DEF ExecBegins, Children
  <2> QED BY <2>3, <2>4
<1>2. TypeOK'
    BY <1>1 DEF MMUInv, ExecBegins, TypeOK, mapVars, tlbVars, walkVars, faultVars, batchVars, coreVars
<1> QED BY <1>2, NothingResolved DEF ExecBegins, tableVars, buffers, faultVars, batchVars

\* exec issues one child.
LEMMA StepExecChild == ASSUME NEW u \in Uops PROVE MMUInv /\ ExecChild(u) => MMUInv'
<1> SUFFICES ASSUME MMUInv, ExecChild(u) PROVE MMUInv'
    OBVIOUS
<1>1. PICK outcome \in Outcomes :
          /\ Access(u, outcome)
          /\ unissued' = IF outcome = "denied" THEN unissued ELSE unissued \ {u}
          /\ child_done' = IF outcome = "hit" THEN [child_done EXCEPT ![cur] = @ + 1]
                           ELSE child_done
    BY DEF ExecChild
<1>2. /\ todo' = todo \ {u}
      /\ UNCHANGED <<mapVars, replacement, retry_queue, fault_retry_queue, faultVars,
                     batchVars, fault_parents, done, pc, cur>>
    BY DEF ExecChild
<1>3. child_done' \in [Parents -> Nat] /\ unissued' \subseteq Uops
  <2>1. cur \in Parents /\ child_done \in [Parents -> Nat] /\ unissued \subseteq Uops
      BY DEF ExecChild, MMUInv, TypeOK
  <2>2. [child_done EXCEPT ![cur] = @ + 1] \in [Parents -> Nat]
      BY ONLY <2>1
  <2>3. child_done' \in {child_done, [child_done EXCEPT ![cur] = @ + 1]}
      BY <1>1
  <2>4. child_done' \in [Parents -> Nat]
      BY ONLY <2>1, <2>2, <2>3
  <2>5. unissued' \subseteq Uops
      BY <1>1, <2>1
  <2> QED BY <2>4, <2>5
<1>4. TypeOK'
    BY <1>1, <1>2, <1>3, StepAccess DEF MMUInv, TypeOK, TLBOK, Lists, mapVars, faultVars, batchVars
<1> QED BY <1>1, <1>2, <1>4, StepAccess, OnlyAccess DEF buffers, faultVars, batchVars

\* exec has issued what it could of a parent.
LEMMA StepExecEnds == MMUInv /\ ExecEnds => MMUInv'
<1> SUFFICES ASSUME MMUInv, ExecEnds PROVE MMUInv'
    OBVIOUS
<1>1. done' \subseteq Uops \cup Parents
  <2>1. done' \in {done, done \cup {cur}}
      BY DEF ExecEnds
  <2>2. pc = "exec"
      BY DEF ExecEnds
  <2> QED BY <2>1, <2>2 DEF MMUInv, TypeOK
<1>2. TypeOK'
    BY <1>1 DEF MMUInv, ExecEnds, TypeOK, mapVars, tlbVars, walkVars, faultVars, batchVars
<1> QED BY <1>2, NothingResolved DEF ExecEnds, tableVars, buffers, faultVars, batchVars

\* exec issues a uop without parent.
LEMMA StepExecSingle == ASSUME NEW u \in Uops PROVE MMUInv /\ ExecSingle(u) => MMUInv'
<1> SUFFICES ASSUME MMUInv, ExecSingle(u) PROVE MMUInv'
    OBVIOUS
<1>1. PICK outcome \in Outcomes :
          /\ Access(u, outcome)
          /\ unissued' = IF outcome = "denied" THEN unissued ELSE unissued \ {u}
          /\ done' = IF outcome = "hit" THEN done \cup {u} ELSE done
    BY DEF ExecSingle
<1>2. UNCHANGED <<mapVars, replacement, retry_queue, fault_retry_queue, faultVars,
                  batchVars, fault_parents, child_done, pc, todo, cur>>
    BY DEF ExecSingle
<1>3. done' \subseteq Uops \cup Parents /\ unissued' \subseteq Uops
    BY <1>1 DEF MMUInv, TypeOK
<1>4. TypeOK'
    BY <1>1, <1>2, <1>3, StepAccess DEF MMUInv, TypeOK, TLBOK, Lists, mapVars, faultVars, batchVars
<1> QED BY <1>1, <1>2, <1>4, StepAccess, OnlyAccess DEF buffers, faultVars, batchVars

\* A dcache miss is filled.
LEMMA StepFillDone == ASSUME NEW u \in Uops PROVE MMUInv /\ FillDone(u) => MMUInv'
<1> SUFFICES ASSUME MMUInv, FillDone(u) PROVE MMUInv'
    OBVIOUS
<1>1. child_done' \in [Parents -> Nat] /\ done' \subseteq Uops \cup Parents
    BY CountChildTypes DEF FillDone, MMUInv, TypeOK
<1>2. TypeOK'
    BY <1>1 DEF MMUInv, FillDone, TypeOK, mapVars, tlbVars, walkVars, faultVars, batchVars
<1> QED BY <1>2, NothingResolved DEF FillDone, tableVars, buffers, faultVars, batchVars

\* The clock of the simulation advances.
LEMMA StepNextCycle == MMUInv /\ NextCycle => MMUInv'
<1> SUFFICES ASSUME MMUInv, NextCycle PROVE MMUInv'
    OBVIOUS
<1>1. TypeOK'
    BY DEF MMUInv, NextCycle, TypeOK, mapVars, tlbVars, walkVars, faultVars, batchVars, coreVars
<1> QED BY <1>1, NothingResolved DEF NextCycle, tableVars, buffers, faultVars, batchVars

\* Nothing happens.
LEMMA StepStutter == MMUInv /\ UNCHANGED vars => MMUInv'
<1> SUFFICES ASSUME MMUInv, UNCHANGED vars PROVE MMUInv'
    OBVIOUS
<1>1. TypeOK'
    BY DEF MMUInv, vars, TypeOK, mapVars, tlbVars, walkVars, faultVars, batchVars, coreVars
<1> QED BY <1>1, NothingResolved DEF vars, tableVars, buffers, faultVars, batchVars

\* The inductive invariant of the MMU holds in every reachable state.
LEMMA MMUInvAlways == Spec => []MMUInv
<1>1. MMUInv /\ [Next]_vars => MMUInv'
    BY StepFaultsIdle, StepFaultsBegin, StepFaultsFirstTransfer, StepFaultsTransferDone,
       StepRetryAccess, StepRetryLoopEnds, StepFaultRetry, StepFaultRetryLoopEnds,
       StepWalkPage, StepCycleEnds, StepExecBegins, StepExecChild, StepExecEnds,
       StepExecSingle, StepFillDone, StepNextCycle, StepStutter DEF Next
<1> QED BY <1>1, MMUInvInit, PTL DEF Spec

-----------------------------------------------------------------------------
(* Theorems *)

\* No frame ever backs two pages, and m_free_frames and m_free_frames_remaining
\* say exactly which and how many frames are free, whatever is evicted when.
THEOREM FramesAlwaysExact == Spec => [](TypeOK /\ FramesExact)
<1>1. MMUInv => TypeOK /\ FramesExact
    BY DEF MMUInv, MapOK, FramesExact, Mapped, MappedIn
<1> QED BY <1>1, MMUInvAlways, PTL

\* TLB::translate never returns a frame other than the page table's.
THEOREM TLBAlwaysCoherent == Spec => []TLBCoherent
<1>1. MMUInv => TLBCoherent
    BY DEF MMUInv, TLBOK, TLBCoherent
<1> QED BY <1>1, MMUInvAlways, PTL

\* The assertions of ReplacementUnit and TLB about what their tables hold are
\* never violated.
THEOREM RecencyListsAlwaysExact == Spec => []RecencyListsExact
<1>1. MMUInv => RecencyListsExact
    BY DEF MMUInv, MapOK, TLBOK, Lists, Elems, RecencyListsExact, Mapped, MappedIn
<1> QED BY <1>1, MMUInvAlways, PTL

\* "a free page is gauranteed" when a transfer completes, and the page it
\* brings in is never already in the page table.
THEOREM FaultsAlwaysResolvable == Spec => []FaultsResolvable
<1>1. MMUInv => FaultsResolvable
    BY DEF MMUInv
<1> QED BY <1>1, MMUInvAlways, PTL
=============================================================================
