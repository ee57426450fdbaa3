---------------------------- MODULE GeneratorCache ----------------------------
(***************************************************************************)
(* The generators of commitments and proofs, sxt/seqcommit/generator.      *)
(* Generator i of ristretto255 is a function of i.  The first ones, and    *)
(* the sums of the first 0, 1, 2, ... of them, are kept in two tables that *)
(* are filled once for the life of the process; what the tables do not     *)
(* hold is computed when it is asked for, by the host or on the GPU.       *)
(***************************************************************************)
EXTENDS GroupSums, Sequences

CONSTANT GeneratorBlock  \* block_size of gpu_generator.cc

GeneratorAssumption == GeneratorBlock \in Nat \ {0}

VARIABLES
  precomputed_generators_v,      \* generators 0, 1, ...
  precomputed_one_commitments_v  \* the sum of the first 0, 1, ... of them

cacheVars == <<precomputed_generators_v, precomputed_one_commitments_v>>

CachesEmpty == precomputed_generators_v = <<>> /\ precomputed_one_commitments_v = <<>>

-----------------------------------------------------------------------------
(* Generators n of them from offset on, as a span that is written in place *)

cpu_get_generators(n, offset) == [i \in 1 .. n |-> Generator(i - 1 + offset)]

(* One thread per generator in blocks of GeneratorBlock threads; memory    *)
(* that no thread writes is copied back as it was.                         *)
gpu_get_generators(n, offset) ==
  LET num_blocks == (n + GeneratorBlock - 1) \div GeneratorBlock
      rows == {thread + block * GeneratorBlock :
                 thread \in 0 .. GeneratorBlock - 1, block \in 0 .. num_blocks - 1}
  IN  [i \in 1 .. n |-> IF i - 1 \in rows THEN Generator(i - 1 + offset) ELSE Uninitialized]

Compute(n, offset, use_gpu) ==
  IF use_gpu THEN gpu_get_generators(n, offset) ELSE cpu_get_generators(n, offset)

(***************************************************************************)
(* Definitions named Bug... are slips one could make in the definition     *)
(* that follows them.  No specification uses them; they show that the      *)
(* properties would notice.                                                *)
(***************************************************************************)
BugRestFromOffset(cache, n, offset, use_gpu) ==
  IF Len(cache) >= n + offset THEN SubSeq(cache, offset + 1, offset + n)
  ELSE SubSeq(cache, offset + 1, Len(cache))
         \o Compute(n - Len(SubSeq(cache, offset + 1, Len(cache))), offset, use_gpu)

(* get_precomputed_generators: all from the table, or those it has and the *)
(* rest computed behind them, or all computed.                             *)
get_precomputed_generators(cache, n, offset, use_gpu) ==
  IF Len(cache) >= n + offset THEN SubSeq(cache, offset + 1, offset + n)
  ELSE IF Len(cache) > offset
       THEN SubSeq(cache, offset + 1, Len(cache))
              \o Compute(n + offset - Len(cache), Len(cache), use_gpu)
       ELSE Compute(n, offset, use_gpu)

-----------------------------------------------------------------------------
(* Sums of the first generators *)

(* cpu_get_one_commitments: entry i is the sum of what comes before it *)
cpu_get_one_commitments(cache, n) ==
  LET generators == get_precomputed_generators(cache, n, 0, FALSE)
  IN  [i \in 1 .. n |-> SumFrom(1, i - 1, LAMBDA g : generators[g])]

(* cpu_get_one_commit: n generators from offset on, added to prev_commit *)
cpu_get_one_commit(prev_commit, n, offset) ==
  LET generators == get_precomputed_generators(precomputed_generators_v, n, offset, FALSE)
  IN  Plus(prev_commit, SumFrom(1, n, LAMBDA g : generators[g]))

BugOneCommitAfterTable(n) ==
  LET size == Len(precomputed_one_commitments_v)
  IN  IF size > n THEN precomputed_one_commitments_v[n + 1]
      ELSE IF size = 0 THEN cpu_get_one_commit(Zero, n, 0)
      ELSE cpu_get_one_commit(precomputed_one_commitments_v[size], n - size, size)

(* get_precomputed_one_commit: the last entry of the table, entry size - 1, *)
(* is the sum of as many generators.                                       *)
get_precomputed_one_commit(n) ==
  LET size == Len(precomputed_one_commitments_v)
  IN  IF size > n THEN precomputed_one_commitments_v[n + 1]
      ELSE IF size = 0 THEN cpu_get_one_commit(Zero, n, 0)
      ELSE cpu_get_one_commit(precomputed_one_commitments_v[size], n - (size - 1), size - 1)

-----------------------------------------------------------------------------
(* init_precomputed_components: a table that has entries is left alone. *)

KeepOrFill(table, n, filled) == IF table # <<>> \/ n = 0 THEN table ELSE filled

InitPrecomputedComponents(n, use_gpu) ==
  /\ precomputed_generators_v' =
       KeepOrFill(precomputed_generators_v, n, Compute(n, 0, use_gpu))
  /\ precomputed_one_commitments_v' =
       KeepOrFill(precomputed_one_commitments_v, n,
                  cpu_get_one_commitments(precomputed_generators_v', n))
===============================================================================
