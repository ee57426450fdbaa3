------------------------------ MODULE IndexRange ------------------------------
(***************************************************************************)
(* Splitting a range of indexes into chunks: sxt/base/iterator/split.cc    *)
(* and index_range_iterator.h, with the roundings of sxt/base/num.         *)
(***************************************************************************)
EXTENDS Integers

DivideUp(a, b) == (a + b - 1) \div b

RoundUp(a, multiple) == DivideUp(a, multiple) * multiple

(* 1 << k *)
PowerOf2(k) ==
  LET power[i \in 0 .. k] == IF i = 0 THEN 1 ELSE 2 * power[i - 1]
  IN  power[k]

(* ceil_log2 *)
CeilLog2(n) == CHOOSE k \in 0 .. n : PowerOf2(k) >= n /\ (k = 0 \/ PowerOf2(k - 1) < n)

AtLeast(low, x) == IF x < low THEN low ELSE x
AtMost(high, x) == IF x > high THEN high ELSE x

(* split_options *)
SplitOptions ==
  [min_chunk_size : Nat, max_chunk_size : Nat \ {0}, split_factor : Nat \ {0}]

(* The size of a chunk: an even share within the bounds, rounded up *)
ChunkStep(size, multiple, options) ==
  LET even == AtLeast(1, DivideUp(size, options.split_factor))
      wanted == AtMost(options.max_chunk_size, AtLeast(options.min_chunk_size, even))
  IN  RoundUp(wanted, multiple)

NumChunks(a, b, step) == DivideUp(b - a, step)

ChunkAt(a, b, step, i) ==
  [a |-> a + i * step, b |-> AtMost(b, a + i * step + step)]

(* split: the chunks of [a, b), numbered from 0 *)
Split(a, b, multiple, options) ==
  LET step == ChunkStep(b - a, multiple, options)
  IN  [i \in 0 .. NumChunks(a, b, step) - 1 |-> ChunkAt(a, b, step, i)]

===============================================================================
