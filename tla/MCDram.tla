------------------------------- MODULE MCDram -------------------------------
(***************************************************************************)
(* TLC instance of DramCtrl: two banks share one channel, the buffer of a  *)
(* bank holds two requests, rows conflict, and the kinds of requests make  *)
(* merging, flushing of prefetches and splitting of bus cycles happen.     *)
(***************************************************************************)
EXTENDS DramCtrl

A == INSTANCE DramAddress

\* two banks and rows of two addresses
MCSystem == [new |-> FALSE, mcs |-> 1, row |-> 1, bank |-> 1, shift |-> 2, xor |-> TRUE]
MCBankOf(a) == A!bid(MCSystem, a)
MCRowOf(a) == A!rid(MCSystem, a)

MCKinds == {[type |-> "DFETCH", addr |-> 0, size |-> 3, acc |-> FALSE],
            [type |-> "WB",     addr |-> 0, size |-> 3, acc |-> FALSE],
            [type |-> "DPRF",   addr |-> 6, size |-> 1, acc |-> TRUE],
            [type |-> "DFETCH", addr |-> 2, size |-> 1, acc |-> TRUE]}

MCKnobs == {[policy |-> "FCFS", merge |-> FALSE, partition |-> TRUE, extra |-> 0],
            [policy |-> "FRFCFS", merge |-> FALSE, partition |-> FALSE, extra |-> 0],
            [policy |-> "FRFCFS", merge |-> TRUE, partition |-> TRUE, extra |-> 1]}

(* The memory systems whose address parsing is tested. *)
MCSystems == {m \in [new : BOOLEAN, mcs : 1 .. 5, row : {1}, bank : {1, 2}, shift : {4, 5}, xor : BOOLEAN] :
                A!PowerOfTwo(m.mcs) \/ (m.new /\ ~ m.xor)}

(* Two addresses of one controller never share bank, row and column, so a  *)
(* row hit is a hit of the right row (insert_new_req's address parsing     *)
(* against the controller set_cache_id picks).  This holds for a power of  *)
(* two of controllers, and for other numbers under the new interleaving    *)
(* without the permutation of banks.  The shifts and masks are fixed when  *)
(* the controller is made, so they are tested before its first cycle: the  *)
(* 64 addresses have 64 places.                                            *)
RowsDistinct == m_cycle = 0 =>
  \A m \in MCSystems :
    Cardinality({<<A!McOf(m, a), A!bid(m, a), A!rid(m, a), A!cid(m, a)>> : a \in 0 .. 63}) = 64
=============================================================================
