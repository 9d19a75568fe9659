------------------------------- MODULE MCMMU -------------------------------
(***************************************************************************)
(* TLC instances of MMU.  Three pages compete for two frames (or one), and *)
(* the TLB is smaller than the working set, so that evictions, re-faults   *)
(* and stale TLB entries are possible.                                     *)
(***************************************************************************)
EXTENDS MMU

MCPages == {0, 1, 2}

\* two instructions of one thread, one with two accesses, and a single uop
MCUops == {"a0", "a1", "b0", "s"}
MCParents == {"A", "B"}
MCThreads == {"t"}
MCThreadOf == [p \in MCParents |-> "t"]
MCParentOf == [u \in MCUops |-> CASE u \in {"a0", "a1"} -> "A" [] u = "b0" -> "B"
                                  [] OTHER -> NoParent]
MCPageOf == [u \in MCUops |-> CASE u \in {"a0", "s"} -> 0 [] u = "a1" -> 1
                                [] u = "b0" -> 2]
=============================================================================
