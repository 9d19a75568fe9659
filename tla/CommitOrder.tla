----------------------------- MODULE CommitOrder -----------------------------
(***************************************************************************)
(* What the retirement stage and the write buffer of a CPU core promise to *)
(* the program: uops commit one at a time in program order, a store that   *)
(* commits may wait in a buffer, and the buffer makes its stores final in  *)
(* an order the knobs restrict.  CpuCore implements this specification.    *)
(***************************************************************************)
EXTENDS Integers, FiniteSets

VARIABLES
  prog,       \* the program: a sequence of uops
  knobs,      \* KNOB_FENCE_ENABLE, _ACQ_REL, _USE_WB, _WB_FIFO, the scheduler
  committed,  \* number of uops that have committed
  buffer      \* committed stores that are not final

orderVars == <<prog, knobs, committed, buffer>>

IsFence(u) == prog[u].type \in {"FULL", "ACQ", "REL"}
IsMem(u) == prog[u].type \in {"LD", "ST"}

\* A full fence between stores t and s gives s a newer version.
Newer(t, s) == \E f \in t .. s : prog[f].type = "FULL"

\* The order in which stores of the buffer may become final: all in program
\* order, a release store after those before it, and, if versions keep the
\* order, a store after those of an older version.
MayDrain(S) ==
  \A s \in S, t \in buffer :
    /\ t < s
    /\ \/ knobs.fifo
       \/ knobs.acqrel /\ prog[s].bar = "rel"
       \/ knobs.acqrel /\ knobs.fence /\ Newer(t, s)
    => t \in S

OrderInit == committed = 0 /\ buffer = {}

Commit ==
  LET u == committed + 1 IN
  /\ u \in DOMAIN prog
  /\ IsFence(u) /\ knobs.fence /\ ~knobs.acqrel => buffer = {}
  /\ committed' = u
  /\ buffer' = IF knobs.wb /\ prog[u].type = "ST" THEN buffer \cup {u} ELSE buffer
  /\ UNCHANGED <<prog, knobs>>

Drain(S) ==
  /\ MayDrain(S)
  /\ buffer' = buffer \ S
  /\ UNCHANGED <<prog, knobs, committed>>

OrderNext == Commit \/ \E S \in (SUBSET buffer) \ {{}} : Drain(S)

OrderSpec == OrderInit /\ [][OrderNext]_orderVars
==============================================================================
