---------------------------- MODULE DramAddress ----------------------------
(***************************************************************************)
(* How an address is cut up: the controller that set_cache_id sends it to  *)
(* and the bank, row and column that insert_new_req finds there.  A memory *)
(* system m has the fields                                                 *)
(*   new       KNOB_NEW_INTERLEAVING_..., else KNOB_DEFAULT_INTERLEAVING   *)
(*   mcs       KNOB_DRAM_NUM_MC                                            *)
(*   row, bank log2 of KNOB_DRAM_ROWBUFFER_SIZE and KNOB_DRAM_NUM_BANKS    *)
(*   shift     m_bid_xor_shift                                             *)
(*   xor       KNOB_DRAM_BANK_XOR_INDEX                                    *)
(***************************************************************************)
EXTENDS Integers, Bitwise

log2_int(n) == CHOOSE i \in 0 .. n : 2^i <= n /\ n < 2^(i + 1)
PowerOfTwo(n) == 2^log2_int(n) = n

Shr(a, n) == a \div 2^n
Low(a, n) == a % 2^n

\* m_cache_id[MEM_MC] of l2_decoupled_network_c::set_cache_id, interleaved by
\* m_dram_interleave_factor
McOf(m, a) ==
  LET above == Shr(a, IF m.new THEN m.row ELSE m.row + m.bank)
  IN  IF PowerOfTwo(m.mcs) THEN Low(above, log2_int(m.mcs)) ELSE above % m.mcs

\* the constructor's m_bid_shift
BidShiftAlways(m) == m.row + log2_int(m.mcs)
BidShift(m) == IF m.new /\ PowerOfTwo(m.mcs) THEN m.row + log2_int(m.mcs) ELSE m.row

\* what is left of the address above the column
BankAndRow(m, a) ==
  IF PowerOfTwo(m.mcs) THEN Shr(a, BidShift(m)) ELSE Shr(a, BidShift(m)) \div m.mcs

cid(m, a) == Low(a, m.row)
rid(m, a) == Shr(BankAndRow(m, a), m.bank)
bid(m, a) ==
  LET plain == Low(BankAndRow(m, a), m.bank)
  IN  IF m.xor THEN plain ^^ Low(Shr(a, m.shift), m.bank) ELSE plain
=============================================================================
