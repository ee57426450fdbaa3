------------------------------ MODULE KernelFit -------------------------------
(***************************************************************************)
(* How many blocks of how many threads a kernel over n indexes gets, and   *)
(* which of the indexes each thread passes over: the kernel_fit.cc of      *)
(* sxt/algorithm/reduction and sxt/algorithm/iteration, and the loops of   *)
(* the kernels that rely on them.                                          *)
(***************************************************************************)
EXTENDS IndexRange, Sequences

CONSTANTS
  Warp,           \* the threads of a warp: 32
  BlockSizes,     \* block_size_t: the powers of two up to 128
  MaxWarpBlocks,  \* most blocks of a warp each that a small reduction gets: 16
  FitTiers        \* the larger reductions: from which n on they get which dimensions

KernelDims == [num_blocks : Nat \ {0}, block_size : BlockSizes]

(* Block sizes are powers of two, none left out.  A block of a reduction   *)
(* passes over two indexes per thread at a time: the tiers leave none of   *)
(* its threads without.                                                    *)
ASSUME FitAssumption ==
  /\ BlockSizes \subseteq Nat \ {0}
  /\ 1 \in BlockSizes /\ Warp \in BlockSizes
  /\ \A j, k \in BlockSizes : j < k => 2 * j \in BlockSizes /\ 2 * j <= k
  /\ MaxWarpBlocks \in Nat \ {0}
  /\ FitTiers \in Seq([from : Nat, dims : KernelDims])
  /\ \A i \in 1 .. Len(FitTiers) :
       2 * FitTiers[i].dims.num_blocks * FitTiers[i].dims.block_size <= FitTiers[i].from

-----------------------------------------------------------------------------
(* Reductions *)

(* The dimensions of a reduction by a single block, with less than a warp  *)
SmallDims(n) ==
  [num_blocks |-> 1,
   block_size |-> CHOOSE s \in BlockSizes :
                    /\ s = 1 \/ 2 * s <= n
                    /\ \A t \in BlockSizes : t = 1 \/ 2 * t <= n => t <= s]

FitReductionKernel(n) ==
  LET Reached == {i \in 1 .. Len(FitTiers) : FitTiers[i].from <= n}
  IN  IF n < 2 * Warp THEN SmallDims(n)
      ELSE IF Reached = {}
      THEN [num_blocks |-> AtMost(MaxWarpBlocks, n \div (2 * Warp)), block_size |-> Warp]
      ELSE FitTiers[CHOOSE i \in Reached : \A j \in Reached : j <= i].dims

(* thread_reduce: the thread begins at index, and passes over that index   *)
(* and the one a block further on in every step that begins below n        *)
FirstIndex(dims, block, thread) == block * (2 * dims.block_size) + thread

Visited(n, dims, block, thread) ==
  LET step == 2 * dims.block_size * dims.num_blocks
      index == FirstIndex(dims, block, thread)
  IN  {i \in 0 .. n - 1 :
         \E j \in 0 .. n \div step :
           i \in {index + j * step, index + j * step + dims.block_size}}

(* What thread_reduce asserts of its arguments: "we assume the size of the *)
(* reduction has been normalized"                                          *)
Normalized(n, dims, block, thread) ==
  FirstIndex(dims, block, thread) + dims.block_size < n \/ (dims.block_size = 1 /\ n > 0)

-----------------------------------------------------------------------------
(* Loops over indexes, with the numbers of the code *)

Dims(num_blocks, block_size) == [num_blocks |-> num_blocks, block_size |-> block_size]

FitIterationKernel(n) ==
  IF n <= 4 THEN Dims(n, 1)
  ELSE IF n <= 8 THEN Dims(2, 4)
  ELSE IF n <= 16 THEN Dims(2, 8)
  ELSE IF n <= 32 THEN Dims(2, 16)
  ELSE IF n <= 64 THEN Dims(2, 32)
  ELSE IF n <= 32 * 32 THEN Dims(DivideUp(n, 32), 32)
  ELSE IF n <= 128 * 64 THEN Dims(DivideUp(n, 64), 64)
  ELSE LET num_iters == DivideUp(n, 128 * 256) * 128 IN Dims(DivideUp(n, num_iters), 128)

(* for_each_kernel: the indexes of a block, and those of one of its threads *)
BlockStride(n, dims) == DivideUp(n, dims.num_blocks * dims.block_size) * dims.block_size

BlockIndexes(n, dims, block) ==
  LET k == BlockStride(n, dims) IN block * k .. AtMost(n, block * k + k) - 1

ThreadIndexes(n, dims, block, thread) ==
  {i \in BlockIndexes(n, dims, block) :
     \E j \in 0 .. n : i = block * BlockStride(n, dims) + thread + j * dims.block_size}

(* "every block should be active" *)
EveryBlockActive(n, dims) ==
  \A block \in 0 .. dims.num_blocks - 1 : BlockIndexes(n, dims, block) # {}

===============================================================================
