------------------------------ MODULE MCGpuCore ------------------------------
EXTENDS GpuCore

Uop(type, deps) == [type |-> type, deps |-> deps, miss |-> FALSE, far |-> FALSE]
Alu == Uop("alu", {})
After(i) == Uop("alu", {i})
IAdd == Uop("iadd", {})
FAdd == Uop("fadd", {})
Bar == Uop("bar", {})
Br == Uop("br", {})
Sfu == Uop("sfu", {})
St == Uop("st", {})
Ld == [Uop("ld", {}) EXCEPT !.far = TRUE]
Missing(u) == [u EXCEPT !.miss = TRUE]

Warp(block, uops) == [block |-> block, uops |-> uops]

\* Three warps and two places: the third, of another block or of the block of
\* the second, takes the buffer of the first that ends.
Loads == <<Warp(0, <<Ld, After(1)>>), Warp(1, <<Missing(St)>>), Warp(2, <<Sfu>>)>>
Misses == <<Warp(0, <<Missing(Ld), Sfu>>), Warp(1, <<Sfu, Ld>>)>>
Synced == <<Warp(0, <<IAdd, Bar, FAdd>>), Warp(0, <<Bar, Br, FAdd>>)>>
Dispatched == <<Warp(0, <<IAdd>>), Warp(1, <<Bar, Bar, Alu>>), Warp(1, <<Bar, Bar>>)>>

MCSetups == {[warps |-> Loads, knobs |-> [miss |-> TRUE, br |-> TRUE, loads |-> TRUE]],
             [warps |-> Misses, knobs |-> [miss |-> FALSE, br |-> FALSE, loads |-> FALSE]],
             [warps |-> Synced, knobs |-> [miss |-> FALSE, br |-> TRUE, loads |-> FALSE]],
             [warps |-> Synced, knobs |-> [miss |-> FALSE, br |-> FALSE, loads |-> FALSE]],
             [warps |-> Dispatched, knobs |-> [miss |-> FALSE, br |-> TRUE, loads |-> TRUE]]}

MCCapacity == [r \in Resources |-> 1]
==============================================================================
