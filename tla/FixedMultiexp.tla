----------------------------- MODULE FixedMultiexp -----------------------------
(***************************************************************************)
(* Multiexponentiations of fixed generators, sxt/multiexp/pippenger2: a    *)
(* table holds the sum of every subset of every group of window_width      *)
(* generators.  The bit at the same place of every scalar selects subsets, *)
(* their sum is the product of that place, and an output is put together   *)
(* from the products of its bits by doubling and adding.                   *)
(*                                                                         *)
(* On the GPU the generators are split into chunks, which concurrent_for_  *)
(* each hands to the devices in their order; the products of a chunk are   *)
(* copied to host memory at the place the counter chunk_index has when     *)
(* they are ready, and combine_reduce adds the chunks, splitting the       *)
(* outputs in turn.  The host version does everything at once.             *)
(*                                                                         *)
(* A call gives the bits of every output (output_bit_table), the lengths   *)
(* of the outputs (all the same unless the call is "vlen") and the         *)
(* scalars: for every generator the bits of all outputs, packed and padded *)
(* to whole bytes.  The versions for scalars of element_num_bytes whole    *)
(* bytes are those with equal widths of so many bytes.                     *)
(***************************************************************************)
EXTENDS IndexRange, GroupSums, Sequences, FiniteSets

CONSTANTS
  WindowWidth,     \* accessor.window_width()
  ProductSplit,    \* the split_options of async_multiexponentiate
  ReductionSplit,  \* the split_options of combine_reduce
  FixedCalls       \* calls: kind ("same" or "vlen"), where ("gpu" or "host"),
                   \*   widths, lengths (of the outputs) and scalars

VARIABLES
  fixed,             \* the call, <<>> before it
  at,                \* of every chunk: "waiting", "running", "copying" or "done"
  chunk_index,       \* the counter the chunks share
  slot,              \* chunk -> its place in partial_products
  partial_products,  \* the products of the chunks, in host memory
  res                \* output -> the result, as a sequence

fixedVars == <<fixed, at, chunk_index, slot, partial_products, res>>

-----------------------------------------------------------------------------
(* The arguments of a call *)

NumOutputs(call) == Len(call.widths)

(* bit_table_partial_sums: the products before those of output o + 1 *)
BitsUpTo(call, o) == Total(1 .. o, LAMBDA i : call.widths[i])

NumProducts(call) == BitsUpTo(call, NumOutputs(call))

NumOutputBytes(call) == DivideUp(NumProducts(call), ByteBits)

(* make_scalars_span: the scalars reach as far as the longest output *)
Length(call) == Len(call.scalars) \div NumOutputBytes(call)

(* The table has a group.  Scalars are bytes, of as many generators as the *)
(* longest output at least; equal lengths are those of the scalars.        *)
ASSUME FixedAssumption ==
  /\ WindowWidth \in Nat \ {0} /\ NumGens > 0
  /\ ProductSplit \in SplitOptions /\ ReductionSplit \in SplitOptions
  /\ \A call \in FixedCalls :
       /\ call # <<>> /\ call.kind \in {"same", "vlen"}
       /\ call.widths \in Seq(Nat \ {0}) /\ call.lengths \in Seq(Nat)
       /\ call.scalars \in Seq(0 .. PowerOf2(ByteBits) - 1)
       /\ Len(call.widths) = Len(call.lengths)
       /\ Len(call.widths) > 0 => Length(call) <= NumGens
       /\ \A o \in 1 .. Len(call.lengths) :
            /\ call.lengths[o] <= Length(call)
            /\ call.kind = "same" => call.lengths[o] = Length(call)
            /\ o > 1 => call.lengths[o - 1] <= call.lengths[o]

Bit(byte, i) == (byte \div PowerOf2(i)) % 2

-----------------------------------------------------------------------------
(* The table of sums *)

(* The generators, filled up to whole groups with the identity *)
PaddedGenerator(g) == IF g < NumGens THEN Generator(g) ELSE Zero

LowestBit(mask) == CHOOSE t \in {PowerOf2(i) : i \in 0 .. WindowWidth - 1} :
                     mask % (2 * t) = t

(* The sums of one group: an entry of several bits from that without its   *)
(* lowest bit and that of the lowest bit alone                             *)
TableSlice(group) ==
  LET sums[mask \in 0 .. PowerOf2(WindowWidth) - 1] ==
        IF mask = 0 THEN Zero
        ELSE LET t == LowestBit(mask) IN
             IF mask = t
             THEN PaddedGenerator(group * WindowWidth +
                    CHOOSE i \in 0 .. WindowWidth - 1 : t = PowerOf2(i))
             ELSE Plus(sums[mask - t], sums[t])
  IN  sums

NumGroups == DivideUp(NumGens, WindowWidth)

Table == [group \in 0 .. NumGroups - 1 |-> TableSlice(group)]

-----------------------------------------------------------------------------
(* The products *)

(* compute_partition_index: the bit bit_offset of the bytes of a group of  *)
(* generators, Step bytes apart in the scalars from start on               *)
PartitionIndex(scalars, start, Step, n, bit_offset) ==
  Total(0 .. AtMost(n, WindowWidth) - 1,
        LAMBDA i : Bit(scalars[start + i * Step + 1], bit_offset) * PowerOf2(i))

(* partition_product_kernel for n generators from first, the start of a    *)
(* group: always one entry, then one for every further group               *)
PartitionProduct(call, first, product_index, n) ==
  LET Step == NumOutputBytes(call)
      byte_index == product_index \div ByteBits
      Entry(k) ==
        Table[first \div WindowWidth + k]
             [PartitionIndex(call.scalars, (first + k * WindowWidth) * Step + byte_index, Step,
                             n - k * WindowWidth, product_index % ByteBits)]
  IN  SumFrom(0, AtLeast(1, DivideUp(n, WindowWidth)) - 1, Entry)

(***************************************************************************)
(* Definitions named Bug... are slips one could make in the definition     *)
(* that follows them.  No specification uses them; they show that the      *)
(* properties below would notice.                                          *)
(***************************************************************************)
BugLengthsFromStart(call, first, length) ==
  [p \in 0 .. NumProducts(call) - 1 |->
     AtMost(length, call.lengths[CHOOSE o \in 1 .. NumOutputs(call) :
       BitsUpTo(call, o - 1) <= p /\ p < BitsUpTo(call, o)])]

(* compute_product_length_table: the lengths, within the chunk, of the     *)
(* products from the first output on that is longer than first             *)
ProductLengths(call, first, length) ==
  LET Reaching == {o \in 1 .. NumOutputs(call) : call.lengths[o] > first}
      output_first == IF Reaching = {} THEN NumOutputs(call) + 1
                      ELSE CHOOSE o \in Reaching : \A u \in Reaching : o <= u
      Before == BitsUpTo(call, output_first - 1)
      OutputOf(p) == CHOOSE o \in 1 .. NumOutputs(call) :
                       BitsUpTo(call, o - 1) <= p /\ p < BitsUpTo(call, o)
  IN  [p \in 0 .. NumProducts(call) - Before - 1 |->
         AtMost(length, call.lengths[OutputOf(Before + p)] - first)]

(* async_partition_product and, for "vlen", async_partition_product_chunk: *)
(* the products of outputs that end before the chunk are identities        *)
ChunkProducts(call, chunk) ==
  LET lengths == ProductLengths(call, chunk.a, chunk.b - chunk.a)
      Missing == NumProducts(call) - Cardinality(DOMAIN lengths)
  IN  [p \in 0 .. NumProducts(call) - 1 |->
         IF call.kind = "same"
         THEN PartitionProduct(call, chunk.a, p, chunk.b - chunk.a)
         ELSE IF p < Missing THEN Zero
         ELSE PartitionProduct(call, chunk.a, p, lengths[p - Missing])]

(* The host's partition_product for "vlen": product_index is the counter   *)
(* of the loop and moves on by num_products - num_slice_products in its    *)
(* body, so that only every (Missing + 1)th product is computed            *)
HostProducts(call) ==
  LET lengths == ProductLengths(call, 0, Length(call))
      Missing == NumProducts(call) - Cardinality(DOMAIN lengths)
  IN  IF call.kind = "same"
      THEN [p \in 0 .. NumProducts(call) - 1 |->
              PartitionProduct(call, 0, p, Length(call))]
      ELSE [p \in 0 .. NumProducts(call) - 1 |->
              IF p < Missing THEN Zero
              ELSE IF (p - Missing) % (Missing + 1) = 0
              THEN PartitionProduct(call, 0, p, lengths[p - Missing])
              ELSE Uninitialized]

-----------------------------------------------------------------------------
(* From products to outputs *)

(* reduce_output and reduce_products *)
ReduceProducts(call, products) ==
  [o \in 1 .. NumOutputs(call) |->
     Horner(products, BitsUpTo(call, o - 1), BitsUpTo(call, o) - 1)]

(* combine_reduce_output: as reduce_output, with the sum of the slice      *)
(* partials in place of a product, num_partials apart.  The outputs of     *)
(* outs are a chunk, of the partials only their slices have been copied.   *)
CombineReduceChunk(call, partials, reduction_size, outs) ==
  LET partials_offset == BitsUpTo(call, outs.a)
      num_partials == BitsUpTo(call, outs.b) - partials_offset
      \* strided_copy_host_to_device
      slices == [i \in 0 .. num_partials * reduction_size - 1 |->
                   partials[(i \div num_partials) * NumProducts(call)
                            + partials_offset + (i % num_partials)]]
      combined == [p \in partials_offset .. partials_offset + num_partials - 1 |->
                     SumFrom(0, reduction_size - 1,
                             LAMBDA r : slices[p - partials_offset + r * num_partials])]
  IN  [o \in outs.a + 1 .. outs.b |->
         Horner(combined, BitsUpTo(call, o - 1), BitsUpTo(call, o) - 1)]

-----------------------------------------------------------------------------
(* async_multiexponentiate *)

FixedIdle ==
  /\ fixed = <<>> /\ at = <<>> /\ chunk_index = 0 /\ slot = <<>>
  /\ partial_products = <<>> /\ res = <<>>

FixedReturned == fixed # <<>> /\ Len(res) = NumOutputs(fixed)
              /\ \A o \in DOMAIN res : res[o] # <<>>

ProductChunks(call) == Split(0, Length(call), WindowWidth, ProductSplit)

OutputChunks(call) == Split(0, NumOutputs(call), 1, ReductionSplit)

WholeRange(n) == [a |-> 0, b |-> n]

(* A call on the host returns at once; one on the GPU returns at once if   *)
(* there is no output, and takes one step for a single chunk, whose        *)
(* products stay on the device, where the outputs are not split either.    *)
FixedCall(call) ==
  LET outs == WholeRange(NumOutputs(call))
      single == ChunkProducts(call, WholeRange(Length(call)))
      chunks == ProductChunks(call)
      num_chunks == Cardinality(DOMAIN chunks)
      Direct(result) ==
        /\ res' = result
        /\ UNCHANGED <<at, chunk_index, slot, partial_products>>
  IN  /\ fixed = <<>>
      /\ fixed' = call
      /\ \/ /\ NumOutputs(call) = 0
            /\ Direct(<<>>)
         \/ /\ NumOutputs(call) > 0 /\ call.where = "host"
            /\ Direct(ReduceProducts(call, HostProducts(call)))
         \/ /\ NumOutputs(call) > 0 /\ call.where = "gpu" /\ num_chunks = 1
            /\ Direct(CombineReduceChunk(call, single, 1, outs))
         \/ /\ NumOutputs(call) > 0 /\ call.where = "gpu" /\ num_chunks > 1
            /\ at' = [c \in DOMAIN chunks |-> "waiting"]
            /\ partial_products' = [i \in 0 .. NumProducts(call) * num_chunks - 1 |->
                                      Uninitialized]
            /\ res' = [o \in 1 .. NumOutputs(call) |-> <<>>]
            /\ UNCHANGED <<chunk_index, slot>>

(* The next chunk is given a device: its buffers are allocated, the table  *)
(* and the scalars of its generators are on their way.                     *)
LaunchChunk(c) ==
  /\ c \in DOMAIN at /\ at[c] = "waiting"
  /\ \A d \in 0 .. c - 1 : at[d] # "waiting"
  /\ at' = [at EXCEPT ![c] = "running"]
  /\ UNCHANGED <<fixed, chunk_index, slot, partial_products, res>>

(* The products are ready: the copy to the place chunk_index says begins,  *)
(* and the counter moves on before the chunk waits for the copy.           *)
ProductsReady(c) ==
  /\ c \in DOMAIN at /\ at[c] = "running"
  /\ slot' = [d \in DOMAIN slot \union {c} |-> IF d = c THEN chunk_index ELSE slot[d]]
  /\ chunk_index' = chunk_index + 1
  /\ at' = [at EXCEPT ![c] = "copying"]
  /\ UNCHANGED <<fixed, partial_products, res>>

(* The counter read when the copy arrives instead of when it begins *)
BugPlaceAfterWait(c) ==
  /\ c \in DOMAIN at /\ at[c] = "copying"
  /\ LET products == ChunkProducts(fixed, ProductChunks(fixed)[c])
         first == NumProducts(fixed) * (chunk_index - 1)
     IN  partial_products' =
           [i \in DOMAIN partial_products |->
              IF i \in first .. first + NumProducts(fixed) - 1
              THEN products[i - first] ELSE partial_products[i]]
  /\ at' = [at EXCEPT ![c] = "done"]
  /\ UNCHANGED <<fixed, chunk_index, slot, res>>

CopyDone(c) ==
  /\ c \in DOMAIN at /\ at[c] = "copying"
  /\ LET products == ChunkProducts(fixed, ProductChunks(fixed)[c])
         first == NumProducts(fixed) * slot[c]
     IN  partial_products' =
           [i \in DOMAIN partial_products |->
              IF i \in first .. first + NumProducts(fixed) - 1
              THEN products[i - first] ELSE partial_products[i]]
  /\ at' = [at EXCEPT ![c] = "done"]
  /\ UNCHANGED <<fixed, chunk_index, slot, res>>

(* combine_reduce, a chunk of the outputs.  The chunks run concurrently;   *)
(* each writes the results of its own outputs.                             *)
CombineOutputs(k) ==
  /\ fixed # <<>> /\ at # <<>>
  /\ \A c \in DOMAIN at : at[c] = "done"
  /\ k \in DOMAIN OutputChunks(fixed)
  /\ LET outs == OutputChunks(fixed)[k]
         reduction_size == Cardinality(DOMAIN partial_products) \div NumProducts(fixed)
         sums == CombineReduceChunk(fixed, partial_products, reduction_size, outs)
     IN  /\ res[outs.a + 1] = <<>>
         /\ res' = [o \in DOMAIN res |-> IF o \in DOMAIN sums THEN sums[o] ELSE res[o]]
  /\ UNCHANGED <<fixed, at, chunk_index, slot, partial_products>>

FixedChunkStep ==
  \/ \E c \in DOMAIN at : LaunchChunk(c) \/ ProductsReady(c) \/ CopyDone(c)
  \/ \E k \in DOMAIN res : CombineOutputs(k - 1)

FixedNext == (\E call \in FixedCalls : FixedCall(call)) \/ FixedChunkStep

FixedSpec == FixedIdle /\ [][FixedNext]_fixedVars

-----------------------------------------------------------------------------
(* Properties *)

(* What a multiexponentiation is: the generators of an output, each taken  *)
(* as often as the bits of its scalar say                                  *)
FixedResult(call, o) ==
  Weighted(LAMBDA g :
    IF g >= call.lengths[o] THEN 0
    ELSE Total(0 .. call.widths[o] - 1,
           LAMBDA j :
             LET p == BitsUpTo(call, o - 1) + j
             IN  Bit(call.scalars[g * NumOutputBytes(call) + p \div ByteBits + 1],
                     p % ByteBits) * PowerOf2(j)))

(* A chunk whose copy is done has its products at its place, whatever      *)
(* places the counter gives to the others, which are copied while it waits *)
(* or after it: nothing writes there any more.                             *)
ProductsKept ==
  \A c \in DOMAIN at : at[c] = "done" =>
    \A p \in 0 .. NumProducts(fixed) - 1 :
      partial_products[NumProducts(fixed) * slot[c] + p]
        = ChunkProducts(fixed, ProductChunks(fixed)[c])[p]

(* Every call but a host one of varying lengths computes the               *)
(* multiexponentiations of the scalars: chunks that finish in any order    *)
(* and take their places with a shared counter, a last chunk and a last    *)
(* group of generators that are not full, bits of an output that share     *)
(* bytes with its neighbours', outputs that end before a chunk begins, and *)
(* outputs combined in chunks change nothing of the result.                *)
FixedBaseCorrect ==
  FixedReturned /\ (fixed.kind = "same" \/ fixed.where = "gpu")
    => \A o \in DOMAIN res : res[o] = FixedResult(fixed, o)

(* "Host version of async_multiexponentiate.": the host computes the same  *)
(* varying-length multiexponentiations as the GPU does.                    *)
HostVaryingLengths ==
  FixedReturned /\ fixed.kind = "vlen" /\ fixed.where = "host"
    => \A o \in DOMAIN res : res[o] = FixedResult(fixed, o)

===============================================================================
