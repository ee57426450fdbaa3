-------------------------- MODULE MCThreadReduction ---------------------------
(* Instances of ThreadReduction for TLC, with warps of four threads: blocks *)
(* of every size from one thread to four warps, as in the code.             *)
EXTENDS ThreadReduction

MCFitTiers ==
  <<[from |-> 16, dims |-> [num_blocks |-> 2, block_size |-> 4]],
    [from |-> 24, dims |-> [num_blocks |-> 1, block_size |-> 8]],
    [from |-> 33, dims |-> [num_blocks |-> 1, block_size |-> 16]]>>

(* The tiers of the code, for warps of 32: they are as FitAssumption asks. *)
CodeFitTiers ==
  <<[from |-> 131073, dims |-> [num_blocks |-> 16, block_size |-> 64]],
    [from |-> 204495, dims |-> [num_blocks |-> 32, block_size |-> 64]],
    [from |-> 787277, dims |-> [num_blocks |-> 32, block_size |-> 128]],
    [from |-> 2383497, dims |-> [num_blocks |-> 128, block_size |-> 128]]>>

ASSUME CodeFits ==
  \A i \in 1 .. Len(CodeFitTiers) :
    2 * CodeFitTiers[i].dims.num_blocks * CodeFitTiers[i].dims.block_size <= CodeFitTiers[i].from

(* Products of less than a warp, of one and several blocks of a warp, and  *)
(* of blocks of two warps; the blocks of one call have different sizes     *)
MCMultiproducts ==
  {[kind |-> "multiproduct", sizes |-> <<n>>] : n \in 1 .. 25}
    \cup {[kind |-> "multiproduct", sizes |-> s] : s \in {<<1, 8, 3>>, <<17, 2>>, <<5, 5, 1, 9>>}}

(* Products of four warps *)
MCLargeMultiproducts == {[kind |-> "multiproduct", sizes |-> <<37>>]}

(* Sums by a single thread, and by more *)
MCSums(sizes) ==
  {[kind |-> "sum", terms |-> terms, coefficients |-> 3, n |-> n] :
     terms \in {<<1>>, <<1, 2>>, <<2, 1, 2>>}, n \in sizes}

MCSingleThreadSums == MCSums(1 .. 3)
MCLargeSums == MCSums({4, 9})

MCReductions == MCMultiproducts \cup MCLargeMultiproducts \cup MCSingleThreadSums
===============================================================================
