--------------------------- MODULE MCTraceReader ---------------------------
EXTENDS TraceReader

MCPerRecord == 2
Junk == [i \in 1 .. MCPerRecord |-> 40]

Inst(pc, op) == [pc |-> pc, op |-> op, ld |-> 0, st |-> FALSE, cf |-> FALSE, dst |-> 0, size |-> 0,
                 kids |-> 0, child |-> FALSE, va |-> 0, addrs |-> Junk]
Op(pc) == Inst(pc, "op")
Writes(r, n) == [r EXCEPT !.dst = n]
Load(r, n) == [r EXCEPT !.ld = n]
Store(r) == [r EXCEPT !.st = TRUE]
Branch(r) == [r EXCEPT !.cf = TRUE]
String(pc, n) == Store(Load([Inst(pc, "string") EXCEPT !.size = n], 1))

\* Traces of up to seven records that repeat a few instructions: the borders
\* of chunks fall everywhere, and each instruction is met again in the cache.
Run(insts, n) == [i \in 1 .. n |-> insts[((i - 1) % Len(insts)) + 1]]
Setting(i, traces, n) == [isa |-> i, traces |-> traces, limit |-> n]
NoLimit == 1000

X86Insts(pc) ==
  {Op(pc), Inst(pc, "fence"), Inst(pc, "system"), Load(Inst(pc, "prefetch"), 2), String(pc, 2),
   Writes(Load(Inst(pc, "xfer"), 2), 2), Store(Load(Inst(pc, "xfer"), 1)), Branch(Writes(Op(pc), 1)),
   Branch(Load(Op(pc), 2)), Branch(Store(Writes(Load(Op(pc), 1), 2))), Store(Load(Op(pc), 1))}
A64Insts(pc) ==
  {Writes(Op(pc), 1), Writes(Load(Inst(pc, "acquire"), 1), 1), Store(Inst(pc, "release")), Branch(Op(pc)),
   Inst(pc, "fence"), Writes(Load(Op(pc), 2), 2), Store(Load(Op(pc), 1))}

Cpu ==
  {Setting("x86", <<Run(<<a, b>>, n)>>, NoLimit) : a \in X86Insts(1), b \in X86Insts(2), n \in {1, 3, 4, 7}}
    \union {Setting("a64", <<Run(<<a, b>>, n)>>, NoLimit) : a \in A64Insts(1), b \in A64Insts(2), n \in {2, 4, 5}}
Emptied == {Setting("x86", <<Run(<<String(1, i), String(1, j), Op(2)>>, 6)>>, NoLimit) : i, j \in 0 .. 2}
Shared == {Setting("x86", <<Run(<<a, String(2, 1)>>, 4), Run(<<String(2, n), a>>, 3)>>, NoLimit) :
             a \in X86Insts(1), n \in 0 .. 1}
Limited == {Setting("x86", <<Run(<<a, Op(2)>>, 6)>>, n) : a \in X86Insts(1), n \in 1 .. 3}

\* A warp of four threads, two addresses to a record.
Address(a, b) == [Inst(9, "address") EXCEPT !.addrs = <<a, b>>]
Access(pc, va) == [Writes(Load(Inst(pc, "mem"), 1), 1) EXCEPT !.va = va]
Scattered(pc) == <<Access(pc, 4), Address(7, 0), Address(5, 40)>>
Gathered(pc) == <<[Store(Inst(pc, "mem")) EXCEPT !.va = 0], Address(7, 8), Address(0, 40)>>
PtxTails == {<<Op(5)>>, <<Op(5), Op(6)>>}
PtxHeads == {<<>>, <<Op(1)>>, <<Op(1), Inst(2, "barrier")>>, <<Op(1), Op(2), Writes(Op(3), 1)>>}
PtxBodies == {Scattered(4), Scattered(4) \o Gathered(7), Scattered(4) \o <<Op(8)>> \o Scattered(4)}
Ptx == {Setting("ptx", <<h \o b \o e>>, NoLimit) : h \in PtxHeads, b \in PtxBodies, e \in PtxTails}
         \union {Setting("ptx", <<h \o b \o e>>, n) : h \in PtxHeads, b \in PtxBodies,
                                                      e \in PtxTails, n \in 1 .. 4}

\* Accesses of NVBit traces with none, one, two or all the children there can be.
Child(r) == [r EXCEPT !.child = TRUE]
Parent(pc, n) == LET r == Load(Inst(pc, "mem"), 1) IN <<r>> \o [i \in 1 .. n |-> Child(r)]
NvHeads == {<<>>, <<Op(1)>>, <<Op(1), Op(2)>>}
NvBodies == {Parent(4, n) : n \in 0 .. 3} \union {Parent(4, m) \o Parent(7, n) : m, n \in 0 .. 2}
NvTails == {<<Op(5), Op(6)>>, <<Op(5), Op(6), Op(8)>>}
Nvbit == {Setting("nvbit", <<h \o b \o e>>, NoLimit) : h \in NvHeads, b \in NvBodies, e \in NvTails}

Sends(pc, n) == LET r == [Writes(Load(Inst(pc, "mem"), 1), 1) EXCEPT !.kids = n] IN
                <<r>> \o [i \in 1 .. n |-> Child([r EXCEPT !.kids = 0])]
IgBodies == {Sends(4, n) : n \in 0 .. 2} \union {Sends(4, m) \o Sends(7, n) : m, n \in 0 .. 2}
Igpu == {Setting("igpu", <<h \o b \o e>>, NoLimit) : h \in NvHeads, b \in IgBodies,
           e \in {<<Op(5)>>} \union NvTails}

\* Traces that end right behind the children of an access.
NvbitShort == {Setting("nvbit", <<h \o b \o <<Op(5)>>>>, NoLimit) : h \in NvHeads, b \in NvBodies}

MCSetups == Cpu \union Emptied \union Shared \union Limited \union Ptx \union Nvbit \union Igpu
==============================================================================
