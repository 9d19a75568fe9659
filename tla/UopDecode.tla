------------------------------ MODULE UopDecode ------------------------------
(***************************************************************************)
(* The decoders: the uops that convert_pinuop_to_t_uop makes of a record   *)
(* of the trace, for the five formats of trace, and the cache of decoded   *)
(* instructions they share (m_inst_info_hash).                             *)
(*                                                                         *)
(* A record of the trace (trace_info_*_s) has the fields                   *)
(*   pc     m_instruction_addr            ld    m_num_ld, m_is_load        *)
(*   op     what the decoder tells apart  st    m_has_st, or a store       *)
(*   dst    m_num_dest_regs               cf    m_cf_type                  *)
(* and those that TraceReader reads; the registers an instruction reads    *)
(* are "src" and those it writes "d1", "d2".                               *)
(***************************************************************************)
EXTENDS Integers, Sequences, SequencesExt

Loads == {"ld", "ld2"}
MemKinds == Loads \union {"st", "pf"}

Uop(kind, srcs, dsts) == [kind |-> kind, srcs |-> srcs, dsts |-> dsts, bar |-> "none"]
Dests(n) == SubSeq(<<"d1", "d2", "d3", "d4">>, 1, n)
Bare(kind) == <<Uop(kind, {}, <<>>)>>
Only(cond, uops) == IF cond THEN uops ELSE <<>>
OrElse(uops, others) == IF uops = <<>> THEN others ELSE uops

\* An access of memory is one uop, or two when two places are loaded.
LoadUops(pi, kind, dests) ==
  Only(pi.ld > 0, <<Uop(kind, {"src"}, dests)>>)
    \o Only(pi.ld = 2, <<Uop(IF kind = "ld" THEN "ld2" ELSE kind, {"src"}, dests)>>)
AluUop(pi) == Only(pi.dst > 0, <<Uop("alu", {"src"}, Dests(pi.dst))>>)
StoreUop(pi) == Only(pi.st, <<Uop("st", {"src"}, <<>>)>>)
BranchUop(pi) == Only(pi.cf, <<Uop("cf", {"src"}, <<>>)>>)

Has(uops, kinds) == \E i \in DOMAIN uops : uops[i].kind \in kinds

-----------------------------------------------------------------------------
(* The registers that tie the uops of an instruction together: a load gives
   its value to the others through TR_REG_TMP0, and what an ALU uop computes
   goes to the store and the branch through the registers it writes.        *)
TmpNeeded(uops) == Has(uops, {"ld"}) /\ Has(uops, {"alu", "st", "cf"})

Linked(uops, pi) ==
  LET tmp(cond) == IF cond /\ TmpNeeded(uops) THEN {"tmp"} ELSE {}
      alu == Has(uops, {"alu"})
      Link(u) ==
        [u EXCEPT
          !.srcs = @ \union CASE u.kind \in {"st", "cf"} -> IF alu THEN Range(Dests(pi.dst)) ELSE tmp(TRUE)
                              [] OTHER -> tmp(u.kind = "alu"),
          !.dsts = @ \o SetToSeq(tmp(u.kind \in Loads))]
  IN [i \in DOMAIN uops |-> Link(uops[i])]

\* A barrier is marked on the last uop, unless that one accesses memory.
Barred(uops, cond) ==
  IF cond /\ Last(uops).kind \notin MemKinds
  THEN [uops EXCEPT ![Len(uops)].bar = "fetch"] ELSE uops

-----------------------------------------------------------------------------
(* cpu_decoder_c.  Only a move writes its registers with the load itself.  *)
X86Parts(pi) ==
  LET move == pi.op = "xfer"
      moved == move /\ pi.ld > 0
      parts == LoadUops(pi, IF pi.op = "prefetch" THEN "pf" ELSE "ld",
                        IF move THEN Dests(pi.dst) ELSE <<>>)
                 \o Only(~moved, AluUop(pi)) \o StoreUop(pi) \o BranchUop(pi)
  IN OrElse(parts, Bare(IF pi.op = "fence" THEN "fence" ELSE "nop"))

X86Decode(pi) == Barred(Linked(X86Parts(pi), pi), pi.op = "system")

(* a64_decoder_c.  A load that acquires has a fence behind it, a store that
   releases one before it, and other instructions name no registers.        *)
A64Loads(pi) ==
  LET loads == LoadUops(pi, IF pi.op = "prefetch" THEN "pf" ELSE "ld", Dests(pi.dst))
  IN IF pi.op = "acquire" /\ loads # <<>> THEN [loads EXCEPT ![1].bar = "acquire"] ELSE loads

A64Fences(pi) ==
  Only(pi.ld = 1 /\ pi.op = "acquire", Bare("acq_fence"))
    \o Only(pi.ld = 0 /\ pi.op = "release", Bare("rel_fence"))

A64Stores(pi) ==
  IF pi.op = "release" /\ pi.st THEN [StoreUop(pi) EXCEPT ![1].bar = "release"] ELSE StoreUop(pi)

A64Parts(pi) ==
  OrElse(A64Loads(pi) \o A64Fences(pi) \o A64Stores(pi) \o BranchUop(pi),
         Bare(IF pi.op = "fence" THEN "fence" ELSE "op"))

A64Decode(pi) == Linked(A64Parts(pi), pi)

(* igpu_decoder_c.  The number of registers that a load writes is not set:
   it is what the slot of the uop array held, old.                          *)
IgpuLoads(pi, old) ==
  Only(pi.ld > 0, <<Uop("ld", {"src"}, Dests(old))>>)
    \o Only(pi.ld = 2, <<Uop("ld2", {"src"}, Dests(pi.dst))>>)

IgpuParts(pi, old) ==
  OrElse(IgpuLoads(pi, old) \o Only(pi.ld = 0, AluUop(pi)) \o StoreUop(pi) \o BranchUop(pi),
         Bare("nop"))

IgpuDecode(pi, old) == Linked(IgpuParts(pi, old), pi)

(* gpu_decoder_c and nvbit_decoder_c: an instruction accesses memory once.  *)
PtxLoads(pi) == LoadUops(pi, "ld", Dests(pi.dst))

PtxParts(pi) ==
  OrElse(PtxLoads(pi) \o Only(pi.ld = 0, AluUop(pi))
           \o StoreUop(pi) \o BranchUop(pi), Bare("nop"))

PtxDecode(pi) == Barred(Linked(PtxParts(pi), pi), pi.op = "barrier")

NvbitLoads(pi) == LoadUops(pi, "ld", Dests(pi.dst))

NvbitParts(pi) ==
  OrElse(NvbitLoads(pi) \o Only(pi.ld = 0, AluUop(pi))
           \o StoreUop(pi) \o BranchUop(pi), Bare("nop"))

NvbitDecode(pi) == Barred(Linked(NvbitParts(pi), pi), pi.op = "barrier")

Decode(isa, pi, old) ==
  CASE isa = "x86" -> X86Decode(pi)
    [] isa = "a64" -> A64Decode(pi)
    [] isa = "igpu" -> IgpuDecode(pi, old)
    [] isa = "ptx" -> PtxDecode(pi)
    [] isa = "nvbit" -> NvbitDecode(pi)

-----------------------------------------------------------------------------
(* convert_t_uop_to_info: an entry of the cache keeps one destination.     *)
Kept(uops) == [i \in DOMAIN uops |-> [uops[i] EXCEPT !.dsts = SubSeq(@, 1, IF @ = <<>> THEN 0 ELSE 1)]]


\* The uops of an instruction, and what the cache holds of it afterwards:
\* entry is what it held before, <<>> when the instruction is new.
Looked(isa, pi, old, entry) ==
  LET uops == Decode(isa, pi, old) IN
  IF entry = <<>> THEN [uops |-> uops, entry |-> Kept(uops)]
  ELSE [uops |-> entry, entry |-> entry]

\* A string operation (x86) of no length becomes a nop, in the cache as well;
\* a longer one is repeated, piece by piece, behind the last uop (eom).
Repeated(pi, found) ==
  IF pi.op # "string" THEN [uops |-> found.uops, entry |-> found.entry, eom |-> Len(found.uops)]
  ELSE IF pi.size = 0 THEN [uops |-> Bare("nop"), entry |-> Bare("nop"), eom |-> 1]
  ELSE [uops |-> FlattenSeq([i \in 1 .. pi.size |-> found.uops]), entry |-> found.entry,
        eom |-> Len(found.uops)]

==============================================================================
