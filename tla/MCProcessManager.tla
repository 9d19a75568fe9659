-------------------------- MODULE MCProcessManager --------------------------
(* Small instances of ProcessManager.  A thread is [block, start]; an x86  *)
(* application has one kernel, its blocks do not matter.                   *)
EXTENDS ProcessManager

T(b, s) == [block |-> b, start |-> s]

X86(n, threads) ==
  [acc |-> FALSE, max_block |-> 0,
   kernels |-> <<[length |-> n, threads |-> threads]>>]
Gpu(kernels) == [acc |-> TRUE, max_block |-> 1, kernels |-> kernels]

(* Threads that start with the first and with the second instruction       *)
X86Burst == X86(1, <<T(0, 0), T(0, 1), T(0, 1)>>)
X86Late == X86(2, <<T(0, 0), T(0, 2)>>)

OneWarp == [length |-> 1, threads |-> <<T(0, 0)>>]
TwoBlocks == [length |-> 1, threads |-> <<T(0, 0), T(0, 0), T(1, 0)>>]
ThreeBlocks == [length |-> 1, threads |-> <<T(0, 0), T(1, 0), T(2, 0)>>]

(* A warp that joins a block already started, and one in a block of its own *)
LateWarps == [length |-> 1, threads |-> <<T(0, 0), T(0, 1), T(1, 1)>>]

(* A warp that comes when its block is no longer the one being fetched     *)
TooLate == [length |-> 1, threads |-> <<T(0, 0), T(1, 0), T(0, 1)>>]

(* The knobs as the files under params/ set them, with a limit             *)
Usual == [limit |-> 2, repeat |-> FALSE, repeats |-> 0, max_insts |-> 9,
          blocks |-> 0, cycles |-> FALSE, total |-> FALSE]

Run(apps, k) == [apps |-> apps, knobs |-> k]

MixedGpus == {1, 2, 3}

(* An x86 core and three GPU cores, shared by                              *)
MCSetups ==
  { \* an x86 application that spawns threads, a GPU application of two
    \* kernels and a short one, repeated until all have finished;
    Run(<<X86Burst, Gpu(<<TwoBlocks, LateWarps>>), Gpu(<<OneWarp>>)>>,
        [Usual EXCEPT !.repeat = TRUE]),
    \* two GPU applications of which the first takes all cores, with and
    \* without repetition;
    Run(<<Gpu(<<TwoBlocks>>), Gpu(<<OneWarp>>)>>, [Usual EXCEPT !.limit = 0]),
    Run(<<Gpu(<<TwoBlocks>>), Gpu(<<OneWarp>>)>>,
        [Usual EXCEPT !.limit = 0, !.repeat = TRUE]),
    \* two blocks on one core, the first of which gets a warp later, alone and
    \* beside an application that is repeated;
    Run(<<X86Late, [Gpu(<<TooLate>>) EXCEPT !.max_block = 2]>>,
        [Usual EXCEPT !.limit = 1]),
    Run(<<X86Late, [Gpu(<<TooLate>>) EXCEPT !.max_block = 2]>>,
        [Usual EXCEPT !.limit = 1, !.repeat = TRUE]),
    \* a GPU application as application 0, that is given the core left in the
    \* pool, and one whose second kernel takes that core;
    Run(<<Gpu(<<ThreeBlocks>>), Gpu(<<OneWarp, OneWarp>>)>>,
        [Usual EXCEPT !.limit = 1]),
    \* threads cut short by KNOB_MAX_INSTS before they spawn others, kernels
    \* by KNOB_BLOCKS_TO_SIMULATE, GPU applications repeated twice;
    Run(<<X86Late, Gpu(<<TwoBlocks>>)>>,
        [Usual EXCEPT !.repeat = TRUE, !.repeats = 2, !.max_insts = 1,
                      !.blocks = 1]),
    \* a simulation without instructions, and one that KNOB_SIM_CYCLE_COUNT
    \* or KNOB_MAX_INSTS1 ends.
    Run(<<X86Burst, Gpu(<<OneWarp>>)>>, [Usual EXCEPT !.max_insts = 0]),
    Run(<<X86Burst, Gpu(<<OneWarp, OneWarp>>)>>,
        [Usual EXCEPT !.repeat = TRUE, !.cycles = TRUE, !.total = TRUE]) }

=============================================================================
