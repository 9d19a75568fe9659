------------------------------ MODULE LRUList ------------------------------
(***************************************************************************)
(* The recency list that TLB (tlb.cc) and MMU::ReplacementUnit (mmu.cc)    *)
(* both build from a doubly linked list between m_head and m_tail, a hash  *)
(* table and a vector of free entries.  The list is a sequence of page     *)
(* numbers without repetitions, most recently used first; the free entries *)
(* are those the list does not hold.                                       *)
(***************************************************************************)
EXTENDS Naturals, Sequences

\* m_table.find(page) != m_table.end()
Found(list, page) == \E i \in DOMAIN list : list[i] = page

\* detach(node)
Detach(list, page) ==
    LET k == CHOOSE i \in DOMAIN list : list[i] = page
    IN  [i \in 1 .. Len(list) - 1 |-> IF i < k THEN list[i] ELSE list[i + 1]]

\* attach(node): behind m_head, the MRU position
Attach(list, page) ==
    [i \in 1 .. Len(list) + 1 |-> IF i = 1 THEN page ELSE list[i - 1]]

\* detach(node); attach(node)
MoveToFront(list, page) == Attach(Detach(list, page), page)

\* m_tail->prev, the LRU position
Victim(list) == list[Len(list)]

DropVictim(list) == [i \in 1 .. Len(list) - 1 |-> list[i]]

NoRepetition(list) == \A i, j \in DOMAIN list : list[i] = list[j] => i = j
=============================================================================
