----------------------------- MODULE AsyncMultiexp -----------------------------
(***************************************************************************)
(* async_compute_multiexponentiation of sxt/multiexp/curve: exponents of   *)
(* many bytes and one length are left to one of the bucket methods,        *)
(* everything else is done bit by bit.                                     *)
(*                                                                         *)
(*   sorted   bucket_method2: the outputs are split over the devices       *)
(*   buckets  bucket_method: some outputs at a time, whose generators are  *)
(*            split over the devices; a chunk is given the next place for  *)
(*            its bucket sums when it is launched                          *)
(*   bits     the generators are split over the devices; every output of   *)
(*            every chunk adds its products to those found so far as soon  *)
(*            as it has them                                               *)
(*                                                                         *)
(* concurrent_for_each launches the chunks in their order, they finish in  *)
(* any.  What a chunk reads between its steps (generators, exponents) is   *)
(* not written by anybody, so that a chunk's computation is one step.      *)
(***************************************************************************)
EXTENDS BucketSums, BitProducts

CONSTANTS
  NumDevices,        \* basdv::get_num_devices()
  MinSortedLength,   \* 256 in bucket_method2
  MaxSortedLength,   \* max_multiexponentiation_length_v
  MinBucketLength,   \* min_length, 10000 in bucket_method
  MaxOutputChunk,    \* max_output_chunk, 8 in bucket_method
  MinChunk,          \* 2^10 in accumulate_buckets_impl and async_compute_multiexponentiation
  MaxChunk,          \* 2^20 there
  AsyncCalls         \* the exponents of a call, a sequence of exponent sequences

ASSUME AsyncAssumption ==
  /\ {NumDevices, MaxOutputChunk, MinChunk, MaxChunk, MinBucketLength} \subseteq Nat \ {0}
  /\ \A exponents \in AsyncCalls :
       /\ exponents \in Seq(ExponentSequences)
       /\ \A o \in 1 .. Len(exponents) :
            /\ Len(exponents[o].data) = exponents[o].n * exponents[o].element_nbytes
            /\ exponents[o].is_signed => exponents[o].element_nbytes < ElementBytes

VARIABLES
  request,              \* the exponents of the call, its result and the method, None before
  task,                 \* of every chunk of the current loop: the outputs it has still to do,
                        \*   NotLaunched before it has been given a device
  next_place,           \* bucket_method: the place of the next chunk
  place,                \* bucket_method: chunk -> its place
  partial_bucket_sums,  \* bucket_method: place -> the bucket sums of a chunk
  or_alls,              \* bits: output -> the bits found so far
  bit_products          \* bits: output -> their products

asyncVars == <<request, task, next_place, place, partial_bucket_sums, or_alls, bit_products>>

None == <<>>

NotLaunched == {0}

Outputs == DOMAIN request.exponents

-----------------------------------------------------------------------------
(* Which method, and how it splits its work *)

Lengths(exponents) == {exponents[o].n : o \in DOMAIN exponents}

(* The conditions both try_multiexponentiate share: without any output     *)
(* min_n and max_n differ                                                  *)
BucketsApply(exponents) ==
  /\ \A o \in DOMAIN exponents : exponents[o].element_nbytes = ElementBytes
  /\ Cardinality(Lengths(exponents)) = 1

SortedApplies(exponents) ==
  /\ BucketsApply(exponents)
  /\ \A n \in Lengths(exponents) : MinSortedLength <= n /\ n <= MaxSortedLength

Method(exponents) ==
  IF SortedApplies(exponents) THEN "sorted"
  ELSE IF BucketsApply(exponents) /\ \A n \in Lengths(exponents) : n >= MinBucketLength
  THEN "buckets"
  ELSE "bits"

(* The chunks of generators for a number of outputs, in bucket_method and  *)
(* in async_compute_multiexponentiation                                    *)
GeneratorChunks(n, num_outputs) ==
  LET most == IF num_outputs = 0 THEN MaxChunk ELSE DivideUp(MaxChunk, num_outputs)
      least == IF num_outputs = 0 THEN MinChunk ELSE AtMost(most, MinChunk * num_outputs)
  IN  Split(0, n, 1, [min_chunk_size |-> least, max_chunk_size |-> most,
                      split_factor |-> NumDevices])

SortedChunks(num_outputs) ==
  Split(0, num_outputs, 1,
        [min_chunk_size |-> 1, max_chunk_size |-> num_outputs, split_factor |-> NumDevices])

(* The outputs of bucket_method's loop over output chunks, from first on *)
OutputsFrom(first) ==
  first + 1 .. AtMost(Len(request.exponents), first + MaxOutputChunk)

(* What the tasks of the current loop are *)
CurrentChunks ==
  CASE request.method = "sorted"  -> SortedChunks(Len(request.exponents))
    [] request.method = "buckets" ->
         GeneratorChunks(request.exponents[1].n, Cardinality(OutputsFrom(request.first)))
    [] OTHER -> GeneratorChunks(NumGens, Len(request.exponents))

-----------------------------------------------------------------------------
AsyncIdle ==
  /\ request = None /\ task = <<>> /\ next_place = 0 /\ place = <<>>
  /\ partial_bucket_sums = <<>> /\ or_alls = <<>> /\ bit_products = <<>>

Waiting(chunks) == [c \in DOMAIN chunks |-> NotLaunched]

(* async_compute_multiexponentiation, up to its first loop over chunks *)
AsyncCall(exponents) ==
  /\ request = None
  /\ request' = [exponents |-> exponents, method |-> Method(exponents), first |-> 0,
                 res |-> [o \in DOMAIN exponents |-> None], returned |-> FALSE]
  /\ task' = Waiting(CurrentChunks')
  /\ or_alls' = [o \in DOMAIN exponents |-> {}]
  /\ bit_products' = [o \in DOMAIN exponents |-> <<>>]
  /\ UNCHANGED <<next_place, place, partial_bucket_sums>>

IsNext(c) == c \in DOMAIN task /\ task[c] = NotLaunched /\ \A d \in 0 .. c - 1 : task[d] # NotLaunched

(* A chunk is given a device and starts.  In bucket_method it takes the    *)
(* next place, with i++; bit by bit, it starts all outputs that are longer *)
(* than the generators before the chunk.                                   *)
Launch(c) ==
  /\ request # None /\ IsNext(c)
  /\ LET rng == CurrentChunks[c] IN
     task' = [task EXCEPT ![c] =
                CASE request.method = "sorted"  -> rng.a + 1 .. rng.b
                  [] request.method = "buckets" -> OutputsFrom(request.first)
                  [] OTHER -> {o \in Outputs : rng.a < request.exponents[o].n}]
  /\ IF request.method = "buckets"
     THEN /\ next_place' = next_place + 1
          /\ place' = [d \in DOMAIN place \union {c} |-> IF d = c THEN next_place ELSE place[d]]
     ELSE UNCHANGED <<next_place, place>>
  /\ UNCHANGED <<request, partial_bucket_sums, or_alls, bit_products>>

Running(c) == c \in DOMAIN task /\ task[c] \notin {NotLaunched, {}}

(* mtxbk2::multiexponentiate for the outputs of a chunk *)
SortedDone(c) ==
  /\ request # None /\ request.method = "sorted" /\ Running(c)
  /\ request' = [request EXCEPT !.res = [o \in Outputs |->
       IF o \in task[c] THEN SortedResult(request.exponents[o].data, request.exponents[o].n)
       ELSE @[o]]]
  /\ task' = [task EXCEPT ![c] = {}]
  /\ UNCHANGED <<next_place, place, partial_bucket_sums, or_alls, bit_products>>

(* accumulate_buckets_impl of a chunk: the sums are copied to its place *)
AccumulateDone(c) ==
  /\ request # None /\ request.method = "buckets" /\ Running(c)
  /\ LET sums == ChunkBuckets([o \in task[c] |-> request.exponents[o].data], CurrentChunks[c])
     IN  partial_bucket_sums' =
           [p \in DOMAIN partial_bucket_sums \union {place[c]} |->
              IF p = place[c] THEN sums ELSE partial_bucket_sums[p]]
  /\ task' = [task EXCEPT ![c] = {}]
  /\ UNCHANGED <<request, next_place, place, or_alls, bit_products>>

(* async_compute_multiexponentiation_impl of one output of a chunk; fold_  *)
(* multiproducts reads and writes what is there when the products arrive   *)
Fold(c, o) ==
  /\ request # None /\ request.method = "bits" /\ Running(c) /\ o \in task[c]
  /\ LET rng == CurrentChunks[c]
         n == AtMost(rng.b - rng.a, request.exponents[o].n - rng.a)
         or_all_p == ChunkBits(request.exponents[o], rng.a, n)
         products_p == ChunkBitProducts(request.exponents[o], rng.a, n)
     IN  IF or_all_p = {} THEN UNCHANGED <<or_alls, bit_products>>
         ELSE /\ bit_products' = [bit_products EXCEPT ![o] =
                   FoldMultiproducts(or_alls[o], @, or_all_p, products_p)]
              /\ or_alls' = [or_alls EXCEPT ![o] = @ \union or_all_p]
  /\ task' = [task EXCEPT ![c] = @ \ {o}]
  /\ UNCHANGED <<request, next_place, place, partial_bucket_sums>>

LoopDone == request # None /\ ~request.returned /\ \A c \in DOMAIN task : task[c] = {}

(* The end of an output chunk of bucket_method: the places are folded, the *)
(* results of its outputs written, and the next output chunk begins.  With *)
(* a single chunk there is one place, which is the sum.                    *)
CombineBucketSums ==
  /\ LoopDone /\ request.method = "buckets" /\ request.first < Len(request.exponents)
  /\ LET result == BucketResult(FoldBuckets(partial_bucket_sums, Cardinality(DOMAIN task)))
     IN  request' = [request EXCEPT !.first = @ + MaxOutputChunk,
                       !.res = [o \in Outputs |-> IF o \in DOMAIN result THEN result[o] ELSE @[o]]]
  /\ task' = IF request'.first < Len(request.exponents) THEN Waiting(CurrentChunks') ELSE <<>>
  /\ next_place' = 0 /\ place' = <<>> /\ partial_bucket_sums' = <<>>
  /\ UNCHANGED <<or_alls, bit_products>>

(* The call returns; bit by bit, the products are combined first *)
AsyncReturn ==
  /\ LoopDone /\ (request.method = "buckets" => request.first >= Len(request.exponents))
  /\ request' = [request EXCEPT !.returned = TRUE,
                   !.res = IF request.method = "bits"
                           THEN [o \in Outputs |-> CombineMultiproducts(or_alls[o], bit_products[o])]
                           ELSE @]
  /\ UNCHANGED <<task, next_place, place, partial_bucket_sums, or_alls, bit_products>>

AsyncStep ==
  \/ \E c \in DOMAIN task :
       \/ Launch(c) \/ SortedDone(c) \/ AccumulateDone(c)
       \/ \E o \in DOMAIN or_alls : Fold(c, o)
  \/ CombineBucketSums
  \/ AsyncReturn

AsyncNext == (\E exponents \in AsyncCalls : AsyncCall(exponents)) \/ AsyncStep

AsyncSpec == AsyncIdle /\ [][AsyncNext]_asyncVars

-----------------------------------------------------------------------------
(* Properties *)

AsyncReturned == request # None /\ request.returned

Correct == \A o \in Outputs : request.res[o] = ExponentSum(request.exponents[o])

(* Each of the three methods computes the multiexponentiations.            *)
(* bucket_method: bucket sums of chunks that finish in any order and take  *)
(* their places with i++, generators that do not fill the blocks, outputs  *)
(* done some at a time.  bucket_method2: zeros that pad the keys to be     *)
(* sorted take part in no sum, the running sums carry over from one digit  *)
(* to the next.  The general method: products are folded in whatever order *)
(* chunks and outputs finish, into sequences that grow when a chunk brings *)
(* bits nobody had before; exponents of several sizes, signed ones         *)
(* included, and outputs that end before a chunk.                          *)
AsyncCorrect == AsyncReturned => Correct

===============================================================================
