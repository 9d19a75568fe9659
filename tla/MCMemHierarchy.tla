--------------------------- MODULE MCMemHierarchy ---------------------------
(***************************************************************************)
(* Two cores and two lines.  Core 0 loads x, fetches instructions from it, *)
(* stores to y and prefetches it; core 1 stores to x and y, where it may   *)
(* promote the prefetch of core 0, and in the end stores to x as a GPU and *)
(* loads it.  Every cache holds one line, so that x and y evict each       *)
(* other.                                                                  *)
(***************************************************************************)
EXTENDS MemHierarchy

CONSTANTS x, y,                     \* lines
          a, b, e, i, p, d, g, h    \* accesses

MCUopCore == [u \in Uops |-> IF u \in {d, e, g, h} THEN 1 ELSE 0]
MCUopLine == [u \in Uops |-> IF u \in {b, e, p} THEN y ELSE x]
MCUopKind == [u \in Uops |-> CASE u \in {a, h} -> "load" [] u \in {b, e, d} -> "store"
                               [] u = p -> "hw_prefetch" [] u = i -> "ifetch"
                               [] u = g -> "gpu_store"]
MCAfter == [u \in Uops |-> CASE u = e -> {a, i} [] u \in {i, p, b} -> {d}
                             [] u = g -> Uops \ {g, h} [] u = h -> Uops \ {h}
                             [] OTHER -> {}]
MCInSize == [l \in 2 .. 4 |-> IF l = 2 THEN 1 ELSE 4]
MCWays == [l \in 1 .. 4 |-> 1]
====
