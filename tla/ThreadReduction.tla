--------------------------- MODULE ThreadReduction ----------------------------
(***************************************************************************)
(* Sums computed by blocks of GPU threads in shared memory, with           *)
(* sxt/algorithm/reduction's thread_reduce: the multiproducts of           *)
(* sxt/multiexp/multiproduct_gpu (and reduce, which is one of a single     *)
(* product), and the round polynomials of a sumcheck proof (partial_sum    *)
(* and reduce_sums of sxt/proof/sumcheck).                                 *)
(*                                                                         *)
(* The threads of a block run in any order between two barriers.  The      *)
(* blocks of a grid share nothing that one of them writes; they are run    *)
(* one after the other here.  What is added up is kept as a formal sum,    *)
(* the set of its terms: a term is an index of a product.                  *)
(***************************************************************************)
EXTENDS KernelFit, FiniteSets, SequencesExt

CONSTANT
  Reductions  \* the calls

VARIABLES
  reducing,  \* the call under way, or NoReduction
  kernel,    \* the kernel it has launched, with its grid of blocks and its data
  block,     \* the block that runs, from 0
  width,     \* thread -> to how many cells its thread has reduced the block's cells
  shared,    \* the cells of the block's shared memory
  out,       \* what the blocks have written
  sums       \* what the call has returned

reductionVars == <<reducing, kernel, block, width, shared, out, sums>>

NoReduction == [kind |-> "none"]
NoKernel == [blocks |-> <<>>]

-----------------------------------------------------------------------------
(* Formal sums *)

(* A term that no sum should have: of memory nobody has written yet, or of *)
(* an operand that add_inplace has used up                                 *)
Broken == <<>>
Spoiled == {Broken}

(* A sum that gets a term twice is spoiled, too *)
Added(x, y) == IF x \cap y = {} THEN x \cup y ELSE x \cup y \cup Spoiled

AllAdded(S, summand(_)) ==
  LET terms == UNION {summand(i) : i \in S}
  IN  IF \A i, j \in S : i # j => summand(i) \cap summand(j) = {}
      THEN terms ELSE terms \cup Spoiled

-----------------------------------------------------------------------------
(* Grids *)

(* fill_block_descriptors: the blocks of reductions of these sizes, one    *)
(* after the other, each with the place of its reduction                   *)
BlockDescriptors(sizes) ==
  LET NumBlocks(p) == FitReductionKernel(sizes[p]).num_blocks
      Descriptor(p) ==
        [block_offset |-> SumFunction([q \in 1 .. p - 1 |-> NumBlocks(q)]),
         index_first |-> SumFunction([q \in 1 .. p - 1 |-> sizes[q]]),
         n |-> sizes[p],
         dims |-> FitReductionKernel(sizes[p])]
  IN  FlattenSeq([p \in 1 .. Len(sizes) |-> [b \in 1 .. NumBlocks(p) |-> Descriptor(p)]])

(* compute_multiproduct and reduce: product p has an index of its own for  *)
(* each of its terms                                                       *)
Multiproduct(sizes) ==
  [kernel |-> "multiproduct", blocks |-> BlockDescriptors(sizes),
   data |-> FlattenSeq([p \in 1 .. Len(sizes) |-> [i \in 1 .. sizes[p] |-> {<<p, i - 1>>}]])]

(* partial_sum: every product of MLEs has its own row of blocks, over the  *)
(* same n pairs of evaluations                                             *)
PartialSum(terms, n) ==
  LET sizes == [p \in 1 .. Len(terms) |-> n]
  IN  [Multiproduct(sizes) EXCEPT !.kernel = "partial_sum"]

(* reduce_sums: the partial sums of every coefficient, one coefficient     *)
(* after the other                                                         *)
ReduceSums(partials, coefficients) ==
  LET n == Len(partials) \div coefficients
  IN  [kernel |-> "reduce_sums", blocks |-> BlockDescriptors([c \in 1 .. coefficients |-> n]),
       data |-> partials]

Descriptor == kernel.blocks[block + 1]
BlockSize == Descriptor.dims.block_size
Threads == 0 .. BlockSize - 1

(* The number of values a grid writes: a block of partial_sum writes all   *)
(* the coefficients of its product                                         *)
OutSize(grid, coefficients) ==
  IF grid.kernel = "partial_sum" THEN Len(grid.blocks) * coefficients ELSE Len(grid.blocks)

(* A block begins with no thread run and its memory uninitialised *)
BeginBlock(grid, b) ==
  LET size == grid.blocks[b + 1].dims.block_size
  IN  /\ block' = b
      /\ width' = [t \in 0 .. size - 1 |-> 2 * size]
      /\ shared' = [cell \in 0 .. 2 * size - 1 |-> Spoiled]

LaunchGrid(grid, coefficients) ==
  /\ kernel' = grid
  /\ out' = [at \in 1 .. OutSize(grid, coefficients) |-> Spoiled]
  /\ BeginBlock(grid, 0)

-----------------------------------------------------------------------------
(* thread_reduce *)

(* The thread adds up the indexes it visits, in its own cell and with the  *)
(* cell one block further on for the next summand                          *)
Load(t) ==
  /\ width[t] = 2 * BlockSize
  /\ LET d == Descriptor
         first == block - d.block_offset
         sum == AllAdded(Visited(d.n, d.dims, first, t), LAMBDA i : kernel.data[d.index_first + i + 1])
     IN  shared' = [shared EXCEPT
           ![t] = IF Normalized(d.n, d.dims, first, t) THEN sum ELSE Spoiled,
           ![t + BlockSize] = Spoiled]
  /\ width' = [width EXCEPT ![t] = BlockSize]
  /\ UNCHANGED <<reducing, kernel, block, out, sums>>

(* The widths to which a block is reduced, by threads below the width *)
Widths == {k \in BlockSizes : k <= BlockSize}

Active(t, k) == t < k

(* What a thread has done when it comes to the barrier before width k *)
Arrived(t, k) == \A j \in Widths : j > k /\ Active(t, j) => width[t] <= j

(* __syncthreads() before and between the widths of more than a warp, and  *)
(* __syncwarp() in warp_reduce, where only the first warp is left          *)
Participants(k) == IF 2 * k > Warp THEN Threads ELSE 0 .. AtMost(BlockSize, Warp) - 1

BugNoBarrierInWarp(k) == 2 * k > Warp => \A u \in Participants(k) : Arrived(u, k)

BarrierPassed(k) == k < BlockSize => \A u \in Participants(k) : Arrived(u, k)

(* One halving of the width: accumulate_inplace may use up its second      *)
(* operand                                                                 *)
Accumulate(t, k) ==
  /\ width[t] = 2 * k
  /\ k < BlockSize /\ Active(t, k) /\ BarrierPassed(k)
  /\ shared' = [shared EXCEPT ![t] = Added(@, shared[t + k]), ![t + k] = Spoiled]
  /\ width' = [width EXCEPT ![t] = k]
  /\ UNCHANGED <<reducing, kernel, block, out, sums>>

(* A thread that has reduced as far as it should, and has written its part *)
(* of the result                                                           *)
Written == 0

Reduced(t) == BarrierPassed(1) /\ (Active(t, 1) => width[t] = 1) /\ width[t] # Written

(* The first thread writes the result of the block *)
WriteSum ==
  /\ kernel.kernel # "partial_sum"
  /\ Reduced(0)
  /\ out' = [out EXCEPT ![block + 1] = shared[0]]
  /\ width' = [width EXCEPT ![0] = Written]
  /\ UNCHANGED <<reducing, kernel, block, shared, sums>>

(* partial_sum_kernel: the first cell is a polynomial; every thread writes *)
(* some of its coefficients, as soon as thread_reduce has returned to it.  *)
(* Coefficients beyond the product's degree are zero.                      *)
Writers == {t \in Threads : t < reducing.coefficients}

WriteCoefficients(t) ==
  /\ kernel.kernel = "partial_sum"
  /\ t \in Writers /\ Reduced(t)
  /\ LET num_terms == reducing.terms[block \div Descriptor.dims.num_blocks + 1]
         output_step == Len(kernel.blocks)
         Mine == {i \in 0 .. reducing.coefficients - 1 : i % BlockSize = t}
         Value(i) == IF i < num_terms + 1 THEN shared[0] ELSE {}
     IN  out' = [at \in DOMAIN out |->
           IF \E i \in Mine : at = output_step * i + block + 1
           THEN Value((at - block - 1) \div output_step) ELSE out[at]]
  /\ width' = [width EXCEPT ![t] = Written]
  /\ UNCHANGED <<reducing, kernel, block, shared, sums>>

BlockWritten ==
  IF kernel.kernel = "partial_sum" THEN \A t \in Writers : width[t] = Written
  ELSE width[0] = Written

-----------------------------------------------------------------------------
(* Calls *)

BeginReduction(c) ==
  /\ reducing = NoReduction
  /\ reducing' = c
  /\ IF c.kind = "sum" THEN LaunchGrid(PartialSum(c.terms, c.n), c.coefficients)
     ELSE LaunchGrid(Multiproduct(c.sizes), 0)
  /\ UNCHANGED sums

NextBlock ==
  /\ reducing # NoReduction /\ sums = <<>>
  /\ BlockWritten /\ block + 1 < Len(kernel.blocks)
  /\ BeginBlock(kernel, block + 1)
  /\ UNCHANGED <<reducing, kernel, out, sums>>

GridWritten == sums = <<>> /\ BlockWritten /\ block + 1 = Len(kernel.blocks)

(* The partial sums stay on the GPU, where reduce_sums adds them up *)
ReducePartials ==
  /\ reducing # NoReduction /\ GridWritten /\ kernel.kernel = "partial_sum"
  /\ LaunchGrid(ReduceSums(out, reducing.coefficients), reducing.coefficients)
  /\ UNCHANGED <<reducing, sums>>

(* complete_multiproduct and its likes in reduce and reduce_sums: the host *)
(* adds up the results of the blocks of each product                       *)
BlockSums(grid, results) ==
  LET Firsts == {b \in 1 .. Len(grid.blocks) : grid.blocks[b].block_offset = b - 1}
      FirstOf(p) == CHOOSE b \in Firsts : Cardinality({c \in Firsts : c < b}) = p - 1
  IN  [p \in 1 .. Cardinality(Firsts) |->
         AllAdded(FirstOf(p) .. FirstOf(p) + grid.blocks[FirstOf(p)].dims.num_blocks - 1,
                  LAMBDA b : results[b])]

Complete ==
  /\ reducing # NoReduction /\ GridWritten /\ kernel.kernel # "partial_sum"
  /\ sums' = BlockSums(kernel, out)
  /\ UNCHANGED <<reducing, kernel, block, width, shared, out>>

ReductionIdle ==
  /\ reducing = NoReduction /\ kernel = NoKernel
  /\ block = 0 /\ width = <<>> /\ shared = <<>> /\ out = <<>> /\ sums = <<>>

ReductionReturned == sums # <<>>

ThreadStep ==
  /\ reducing # NoReduction
  /\ \/ \E t \in Threads : Load(t)
     \/ \E t \in Threads, k \in Widths : Accumulate(t, k)
     \/ WriteSum
     \/ \E t \in Threads : WriteCoefficients(t)

ReductionStep == ThreadStep \/ NextBlock \/ ReducePartials \/ Complete

ReductionSpec ==
  ReductionIdle /\ [][(\E c \in Reductions : BeginReduction(c)) \/ ReductionStep]_reductionVars

-----------------------------------------------------------------------------
(* Properties *)

(* The products of a multiproduct have each of their terms once, whatever  *)
(* the order of the threads, and so have the coefficients of a sum.        *)
Expected ==
  IF reducing.kind = "sum"
  THEN [c \in 1 .. reducing.coefficients |->
          {p \in 1 .. Len(reducing.terms) : c - 1 <= reducing.terms[p]} \X (0 .. reducing.n - 1)]
  ELSE [p \in 1 .. Len(reducing.sizes) |-> {p} \X (0 .. reducing.sizes[p] - 1)]

(* What a multiproduct, a reduction or a sumcheck sum on the GPU returns   *)
(* has every index of every product exactly once, in whatever order the    *)
(* threads of its blocks run between two barriers (thread_reduce).         *)
SumsCorrect == ReductionReturned => sums = Expected

(* The GPU's sum for a round of a sumcheck proof is the sum of the MLEs'   *)
(* products, as the tests of sum_gpu require it (partial_sum_kernel).      *)
PartialSumCorrect == ReductionReturned /\ reducing.kind = "sum" => sums = Expected

===============================================================================
