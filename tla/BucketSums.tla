------------------------------ MODULE BucketSums ------------------------------
(***************************************************************************)
(* The kernels of the two bucket methods, sxt/multiexp/bucket_method and   *)
(* bucket_method2, for exponents of element_num_bytes bytes.  For every    *)
(* byte of the exponents, a digit, the generators whose exponent has the   *)
(* same digit d > 0 are added up in bucket d - 1; a digit is worth the sum *)
(* of d times its bucket d - 1.                                            *)
(***************************************************************************)
EXTENDS IndexRange, GroupSums, Sequences, FiniteSetsExt, SequencesExt

CONSTANTS
  ElementBytes,  \* bytes of the exponents the bucket methods take (32 in the code)
  MaxBlocks,     \* blocks of bucket_accumulate (192 in the code)
  SortThreads    \* threads of multiproduct_table_kernel (128 in the code)

ASSUME BucketAssumption ==
  {ElementBytes, MaxBlocks, SortThreads} \subseteq Nat \ {0}

NumBuckets == PowerOf2(ByteBits) - 1
Buckets == 0 .. NumBuckets - 1
Groups == 0 .. ElementBytes - 1

Digit(data, i, group) == data[i * ElementBytes + group + 1]

-----------------------------------------------------------------------------
(* bucket_method *)

(***************************************************************************)
(* Definitions named Bug... are slips one could make in the definition     *)
(* that follows them.  No specification uses them; they show that the      *)
(* properties of AsyncMultiexp would notice.                               *)
(***************************************************************************)
BugEqualBlocks(data, rng, block, group, bucket) ==
  LET n == rng.b - rng.a
      per_block == n \div AtMost(MaxBlocks, n)
      first == block * per_block
  IN  SumFrom(first, AtMost(n, first + per_block) - 1,
              LAMBDA i : IF Digit(data, rng.a + i, group) = bucket + 1
                         THEN Generator(rng.a + i) ELSE Zero)

(* bucket_accumulate: the generators of rng are cut into num_blocks equal  *)
(* parts, of which the last ones can be short or empty                     *)
PartialBucket(data, rng, block, group, bucket) ==
  LET n == rng.b - rng.a
      per_block == DivideUp(n, AtMost(MaxBlocks, n))
      first == block * per_block
  IN  SumFrom(first, AtMost(n, first + per_block) - 1,
              LAMBDA i : IF Digit(data, rng.a + i, group) = bucket + 1
                         THEN Generator(rng.a + i) ELSE Zero)

(* accumulate_buckets_impl for one chunk: bucket_accumulate, and then      *)
(* combine_partial_bucket_sums over the blocks.  datas are the exponents   *)
(* of the outputs.                                                         *)
ChunkBuckets(datas, rng) ==
  [o \in DOMAIN datas |-> [group \in Groups |-> [bucket \in Buckets |->
     SumFrom(0, AtMost(MaxBlocks, rng.b - rng.a) - 1,
             LAMBDA block : PartialBucket(datas[o], rng, block, group, bucket))]]]

(* segmented_left_fold_partial_bucket_sums: partials[slot] of the chunks *)
FoldBuckets(partials, num_chunks) ==
  [o \in DOMAIN partials[0] |-> [group \in Groups |-> [bucket \in Buckets |->
     SumFrom(0, num_chunks - 1, LAMBDA slot : partials[slot][o][group][bucket])]]]

DoubledTimes(x, times) ==
  LET after[k \in 0 .. times] == IF k = 0 THEN x ELSE Twice(after[k - 1])
  IN  after[times]

(* combine_bucket_groups: the buckets of the same digit value, the groups  *)
(* from the last one down                                                  *)
CombinedGroups(buckets, bucket) ==
  LET from[group \in Groups] ==
        IF group = ElementBytes - 1 THEN buckets[group][bucket]
        ELSE Plus(DoubledTimes(from[group + 1], ByteBits), buckets[group][bucket])
  IN  from[0]

(* combine_buckets_impl: t holds the sum of the buckets passed, and is     *)
(* added to sum at every bucket                                            *)
CombineBuckets(buckets) ==
  LET down[i \in Buckets] ==
        IF i = NumBuckets - 1
        THEN [t |-> buckets[i], sum |-> buckets[i]]
        ELSE LET t == Plus(down[i + 1].t, buckets[i])
             IN  [t |-> t, sum |-> Plus(down[i + 1].sum, t)]
  IN  down[0].sum

(* multiexponentiate, after accumulate_buckets *)
BucketResult(bucket_sums) ==
  [o \in DOMAIN bucket_sums |->
     LET reduced == [bucket \in Buckets |-> CombinedGroups(bucket_sums[o], bucket)]
     IN  CombineBuckets(reduced)]

-----------------------------------------------------------------------------
(* bucket_method2 *)

(* The zeros counted without the padding *)
BugPaddingNotZeros(data, n, group) ==
  LET size == RoundUp(n, SortThreads)
      key == [i \in 0 .. size - 1 |-> IF i < n THEN Digit(data, i, group) ELSE 0]
      rank == [i \in DOMAIN key |-> Cardinality({j \in DOMAIN key :
                 key[j] < key[i] \/ (key[j] = key[i] /\ j < i)})]
      zeros == Cardinality({i \in 0 .. n - 1 : key[i] = 0})
  IN  [counts |-> [bucket \in Buckets |->
                     Cardinality({i \in DOMAIN key : key[i] = bucket + 1})],
       indexes |-> [k \in 0 .. size - zeros - 1 |->
                      LET i == CHOOSE j \in DOMAIN key : rank[j] = zeros + k
                      IN  IF i < n THEN i ELSE 0]]

(* multiproduct_table_kernel: the digits of a group, filled up with zeros  *)
(* to ItemsPerThread for every thread, are sorted with their indexes;      *)
(* counts[d] entries have digit d.  The indexes behind the counts[0] zeros *)
(* are written, which are n - counts[0] plus the padding.                  *)
Sorted(data, n, group) ==
  LET size == RoundUp(n, SortThreads)
      key == [i \in 0 .. size - 1 |-> IF i < n THEN Digit(data, i, group) ELSE 0]
      rank == [i \in DOMAIN key |-> Cardinality({j \in DOMAIN key :
                 key[j] < key[i] \/ (key[j] = key[i] /\ j < i)})]
      zeros == Cardinality({i \in DOMAIN key : key[i] = 0})
  IN  [counts |-> [bucket \in Buckets |->
                     Cardinality({i \in DOMAIN key : key[i] = bucket + 1})],
       indexes |-> [k \in 0 .. size - zeros - 1 |->
                      LET i == CHOOSE j \in DOMAIN key : rank[j] = zeros + k
                      IN  IF i < n THEN i ELSE 0]]

(* make_multiproduct_table sums the counts up; sum_bucket adds the         *)
(* generators between two of those sums                                    *)
SortedBuckets(data, n, group) ==
  LET table == Sorted(data, n, group)
      prefix[bucket \in Buckets] ==
        table.counts[bucket] + (IF bucket = 0 THEN 0 ELSE prefix[bucket - 1])
  IN  [bucket \in Buckets |->
         SumFrom(IF bucket = 0 THEN 0 ELSE prefix[bucket - 1], prefix[bucket] - 1,
                 LAMBDA k : Generator(table.indexes[k]))]

(* reduction_kernel with reduce_digits_rest: the digits from the top, the  *)
(* running sums of combine_buckets_impl continued in the same accumulator  *)
ReducedDigits(sums) ==
  LET Rest(group, reduction) ==
        LET down[i \in Buckets] ==
              IF i = NumBuckets - 1
              THEN [t |-> sums[group][i], reduction |-> Plus(reduction, sums[group][i])]
              ELSE LET t == Plus(down[i + 1].t, sums[group][i])
                   IN  [t |-> t, reduction |-> Plus(down[i + 1].reduction, t)]
        IN  down[0].reduction
      from[group \in Groups] ==
        Rest(group, IF group = ElementBytes - 1 THEN Zero
                    ELSE DoubledTimes(from[group + 1], ByteBits))
  IN  from[0]

(* mtxbk2::multiexponentiate for one output of length n *)
SortedResult(data, n) ==
  ReducedDigits([group \in Groups |-> SortedBuckets(data, n, group)])

===============================================================================
