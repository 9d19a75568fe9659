------------------------------ MODULE MCCpuCore ------------------------------
(***************************************************************************)
(* Instances of CpuCore: short programs that fill the reorder buffer, the  *)
(* queues, the store buffer and the write buffer, with fences between      *)
(* memory operations, under each scheduler and each setting of the         *)
(* memory-ordering knobs.                                                  *)
(***************************************************************************)
EXTENDS CpuCore

Uop(type, reads, writes, addr, size) ==
  [type |-> type, reads |-> reads, writes |-> writes, addr |-> addr, size |-> size,
   bar |-> "none", mispredicted |-> FALSE]
Op(type, reads, writes) == Uop(type, reads, writes, 0, 0)
Fence(type) == Op(type, {}, {})
Branch(reads) == [Op("BR", reads, {}) EXCEPT !.mispredicted = TRUE]
Load(reads, writes, addr, size) == Uop("LD", reads, writes, addr, size)
Store(reads, addr, size) == Uop("ST", reads, {}, addr, size)

Knobs(s, f, a, b, o) ==
  [sched |-> s, fence |-> f, acqrel |-> a, wb |-> b, fifo |-> o]

\* Producers, consumers, two mispredicted branches of a group, and a load that
\* overlaps two stores of its quadword.
Compute == <<Op("FP", {}, {"s"}), Op("INT", {}, {"r"}), Branch({"r"}), Branch({}),
             Store({"r"}, 0, 8), Store({"s"}, 4, 2), Load({}, {"r"}, 0, 8),
             Op("INT", {"r"}, {})>>

\* Memory operations on both sides of a fence, in queues of their own.
Fenced == <<Store({}, 0, 4), Fence("FULL"), Load({}, {"r"}, 8, 4), Op("INT", {"r"}, {"s"}),
            Fence("FULL"), Store({"s"}, 0, 4)>>

\* Stores to one address that overtake each other in the write buffer, and
\* fences that keep some of them from doing so.
Stores == <<Store({}, 0, 4), Fence("ACQ"), Fence("FULL"), Store({}, 0, 4),
            [Store({}, 0, 4) EXCEPT !.bar = "rel"]>>
Mixed == <<Fence("REL"), Store({}, 0, 4), Fence("FULL"),
           [Load({}, {"r"}, 8, 4) EXCEPT !.bar = "acq"], Fence("FULL"), Store({"r"}, 0, 4)>>

MCSetups ==
  {[prog |-> Compute, knobs |-> Knobs(s, FALSE, FALSE, s = "ooo", FALSE)] :
     s \in {"ooo", "io"}}
  \cup {[prog |-> Fenced, knobs |-> Knobs(s, TRUE, FALSE, b, b)] :
     s \in {"ooo", "io"}, b \in BOOLEAN}
  \cup {[prog |-> p, knobs |-> Knobs("ooo", TRUE, TRUE, TRUE, f)] :
     p \in {Stores, Mixed}, f \in BOOLEAN}

\* The store after a fence does not wait for the one before it.
OneFence == <<Store({}, 0, 4), Fence("FULL"), Store({}, 4, 4)>>
OrderSetups == {[prog |-> OneFence, knobs |-> Knobs("ooo", TRUE, TRUE, TRUE, FALSE)]}

MCFirstVersions == {[version |-> 0, last |-> 0, reset |-> 0]}
Garbage == {[version |-> 3, last |-> 0, reset |-> 0]}
MCCapacity == [lb |-> 1, sb |-> 2, int |-> 1, fp |-> 1]
MCAllocQSize == [gen |-> 2, mem |-> 1, fp |-> 1]
MCSchedSize == [gen |-> 1, mem |-> 2, fp |-> 1]
MCSchedRate == [gen |-> 1, mem |-> 1, fp |-> 1]
MCMaxPort == [gen |-> 1, mem |-> 1, fp |-> 1]
==============================================================================
