# A TLA+ model of Blitzar

Blitzar (C++20 and CUDA) computes the expensive parts of zero-knowledge proofs
on one or several GPUs: multiexponentiations, Pedersen commitments, sumcheck
proofs and inner product proofs. This directory models the parts of it whose
correctness depends on order: the cooperative scheduler, its promises and
coroutines, the staging of copies to a device, the division of a range over the
devices, the algorithms for multiexponentiation, the sums that blocks of GPU
threads compute in shared memory, the arithmetic of fields and curves below
them, the transcript, and the two interactive proofs that are built from them. TLC checks the
models on small instances; TLAPS proves the central results for every value of
the constants.

`PROJECT.json` maps every definition to the lines of source it stands for, lists
the runs, the properties each one checks, the theorems, and every hazard of the
code with the properties that watch it. Paths below are relative to
`src/sxt/` unless they start with `cbindings/`.

1. [The system](#the-system)
2. [Plan](#plan)
3. [Modules and the code](#modules-and-the-code)
4. [Runs, bounds and what they show](#runs-bounds-and-what-they-show)
5. [Fairness](#fairness)
6. [What is proved](#what-is-proved)
7. [Disagreements between the code and its documents](#disagreements-between-the-code-and-its-documents)
8. [What is only model-checked and what is not modelled](#what-is-only-model-checked-and-what-is-not-modelled)

## The system

A call of the C interface (`cbindings/*.cc`) goes to the backend chosen at
initialisation. The GPU backend starts one coroutine for the request, calls
`get_scheduler().run()` and takes the value of the coroutine's future when that
returns (`cbindings/backend/gpu_backend.cc`). Everything below happens on this
one thread. The GPUs run concurrently with it, and the program learns of their
progress only by polling CUDA events. So the interleavings that matter are not
those of threads, but the orders in which GPU work completes, the coroutines
that each completion resumes, and what those do nested inside the scheduler's
loop.

| Component | State | Operations | Interacts with | What is hard | What makes it correct |
|---|---|---|---|---|---|
| GPU scheduler (`execution/schedule`) | list of active events, list of pending requests, active count per device | `schedule` (event or request), `await_available_device`, `run` | resumes client coroutines from its loop; they schedule more | the lists change under the loop that walks them; a count goes down after the continuation has run | no event or request lost, counts exact, requests answered as soon as a device is free and with a least loaded one, everything scheduled is invoked |
| promises, futures, continuations, coroutines (`execution/async`) | pairs of objects that hold each other's address; the result's storage; a continuation | make, move, assign, destroy, `then`, `co_await`, `make_ready` | every component uses them | both ends move; continuations run nested inside `make_ready` and touch other pairs | no stale address, each continuation owned and run once, each result delivered once |
| chunked work (`execution/device/for_each.cc`) | loops, chunks, two contexts per device, active device of the thread | `concurrent_for_each`, `for_each_device` | asks the scheduler for devices; calls client code with a context by reference | chunks complete in any order and read reused contexts later; guards of the active device live across suspensions | every chunk done once and on its device, the loops return, devices not oversubscribed |
| staged copies (`execution/device/to_device_copier.cc`, `base/device/pinned_buffer_pool.cc`) | pinned buffers and the thread's pool of them, position in the destination | `copy` | stream, scheduler (waits for an event) | a buffer given up too early is overwritten while the GPU reads it; ends of buffers | the device holds the caller's bytes; a buffer has one owner |
| sumcheck (`proof/sumcheck`) | workspace of folded evaluations, partial results, cached product table | `prove_sum`, `sum`, `fold`, `verify_sumcheck_no_evaluation` | `for_each_device`, streams, transcript | odd lengths; pieces of both halves; change of driver in the middle; order of copies and kernels on several streams | round polynomials as defined, completeness, a wrong sum needs a lucky challenge |
| inner product proof (`proof/inner_product`) | workspace of folded vectors and generators | `prove_inner_product`, `verify_inner_product`, `commit_to_fold`, `fold`, expected commitment | multiexponentiation, transcript, `transform` | lengths that are no power of two; exponents computed partly on the host and partly on the device | the verifier accepts exactly the true values, whichever driver either side uses |
| transcript (`proof/transcript`) | STROBE state, position, flags | append, challenge | both proofs | positions at the end of a block | a challenge is bound to everything before it |
| streams and computation handles (`base/device`, `execution/device`) | free list of streams, streams owned by a computation | acquire, release, `await_and_own_stream` | scheduler, asynchronous allocations | a stream returns to the pool with work in flight | a stream is owned once; release after the work that uses it is ordered |
| fixed generators (`multiexp/pippenger2`) | table of partition sums, partial products, a counter shared by the chunks | `multiexponentiate` (host, GPU; equal and varying lengths) | `concurrent_for_each`, the C interface | partial products in order of completion; ragged last chunks and groups; outputs of different widths and lengths | equals the plain sum of multiples |
| bucket methods (`multiexp/bucket_method`, `bucket_method2`) | bucket sums of chunks, sorted tables of digits | `try_multiexponentiate` | `concurrent_for_each`, sumcheck and commitments through `multiexp/curve` | places taken while other chunks run; padding of sorted keys | the same |
| any exponents (`multiexp/curve`, `pippenger`, `pippenger_multiprod`, `index`) | products per bit, tables of indexes | `async_compute_multiexponentiation`, `compute_multiexponentiation` | `concurrent_for_each` (GPU); nothing (host) | products folded in any order; on the host a recursion in place | the same |
| sums on the GPU (`algorithm/reduction`, `multiexp/multiproduct_gpu`, `proof/sumcheck/sum_gpu.h`) | shared memory of a block, results of the blocks | `reduce`, `compute_multiproduct`, `partial_sum`, `reduce_sums` | multiexponentiation, sumcheck | the threads of a block read each other's cells; reads without a test for the end | every term once, in any order of the threads between barriers |
| loops on the GPU (`algorithm/iteration`) | none | `for_each`, `transform` | `concurrent_for_each` | the last block | every block active, every index once |
| division of ranges (`base/iterator`) | none | `split` | everything that uses several devices | ends, options, multiples | the chunks cover the range |
| generators and commitments (`seqcommit`) | cache of precomputed generators | read, compute | multiexponentiation | a request partly inside the cache | the same generator for an index whatever the cache |
| fields (`base/field`, `field*`, `scalar25`) | none | arithmetic on words, conversions | curves, proofs | carries from word to word, one subtraction of the modulus; `field51` does not carry after sums, `scalar25` rounds | the one reduced form of what the field gives |
| curves (`curve*`, `ristretto`) | none | add, double, negate, scalar multiplication, conversions, encodings | everything above | outputs that are inputs, coordinates reused for intermediate results, the identity, signs of roots | coordinates of what the group gives, one encoding per element |
| C interface (`cbindings`) | the backend, initialised once | init, commitments, proofs | all of it | requests before initialisation | arguments validated, one backend |
| memory (`memory`) | allocations | managed arrays, pooled and asynchronous resources | streams | asynchronous frees | one owner |
| base utilities, bindings for Rust, examples, benchmarks | none | | | | |

The hazards in `PROJECT.json` say where in the code each of these bites.

## Plan

The most important behaviour first: everything else runs on the scheduler.

| | Modules | Status |
|---|---|---|
| 1 | `Scheduler`, its abstraction `DevicePool`, `SchedulerProofs` | modelled, refinement and safety proved |
| 2 | `PromiseFuture`, `PromiseFutureProofs` | modelled, safety proved |
| 3 | `ConcurrentForEach` (composed with `Scheduler`; proofs in `SchedulerProofs`) | modelled, safety proved |
| 4 | `ToDeviceCopier` (proofs in `DeviceWorkProofs`, with `DataLemmas`) | modelled, safety proved |
| 5 | `ForEachDevice`, `SumcheckChunks` (composed with it), `DeviceWorkProofs` | modelled, safety proved |
| 6 | `SumcheckProtocol`, `SumcheckProtocolProofs`, `InnerProduct`, `InnerProductProofs` | modelled; soundness and completeness of sumcheck, and what the inner product's rounds keep and its verifier decides, proved |
| 7 | `Transcript` | modelled and checked, with the proof protocols |
| 8 | `IndexRange` (proofs in `MultiexpProofs`) | modelled and proved |
| 9 | `FixedMultiexp`, `GroupSums`, `MultiexpProofs` | modelled and checked; the places of products and the results proved |
| 10 | `BucketSums`, `BitProducts`, `AsyncMultiexp`, `AsyncProofs` | modelled; the results of all methods proved |
| 11 | `Multiproduct`, `HostMultiexp` | modelled and checked |
| 12 | `KernelFit`, `ThreadReduction` (proofs in `MultiexpProofs`) | modelled and checked; what a multiproduct or reduction returns is proved |
| 13 | `LimbField`, `WeierstrassPoints`, `EdwardsFormulas`, `EdwardsPoints` (`MCArithmetic`) | modelled and checked |
| 14 | `ScalarLimbs`, `RistrettoFormulas`, `RistrettoPoints`, `CarriedField`, `CarriedPoints` | modelled and checked |
| 15 | `GeneratorCache`, `CInterface` | modelled and checked, with the proof protocols |
| 16 | `StreamPool`: free list, computation handles, one owner per stream | later |

Liveness under fairness, `ENABLED`, and the results of `RECURSIVE` operators stay with TLC.

Abstract specifications: `DevicePool` for the scheduler; for each proof system
and multiexponentiation the definition of what is computed, as operators
(`SumAt`, `TrueProduct`, `TrueCommit`, `FixedResult`, `ExponentSum`), and for the
curves the group law (`GroupSum`).

## Modules and the code

A definition whose name begins with `Bug` is a slip one could make in the
definition after it. No specification uses it. With the slip in its place the
property that `PROJECT.json` lists with it fails, so each property is known to
notice at least one plausible error. `MC...` modules only give values to
constants.

### Scheduler, DevicePool, MCScheduler

`Scheduler` is `active_scheduler.cc`, `pending_scheduler.cc` and `scheduler.cc`.
The intrusive lists are the sequences `active` and `pending`, head first (both
are pushed on the front). `counts` is `active_counts_`. The loop of
`active_scheduler::run` is a program counter, `pc`, with the two locals that
survive a call of client code: `cursor`, the list node the inner loop has
reached, and `cur`, the event being invoked.

* `PollHeadReady` unlinks the head and invokes it. `ScanReady` invokes an event
  that stays linked behind `cursor`. `InvokeReturn`, `Grant`, `GrantReturn` and
  `DrainDone...` are `on_event_done`, which hands the freed slots to waiters;
  `DrainDoneScan` then unlinks whatever stands behind `cursor`.
* Client code runs at `outside` (before and after `run()`), at `invoke` and at
  `grant`. There any client step may happen any number of times: scheduling an
  event (`ScheduleEvent`), asking for a device (`AwaitDeviceReady`,
  `AwaitDevicePending`). This is the model's generality: what holds here holds
  for every client that does not call `run()` from a continuation.
* `Complete` is the GPU.

`DevicePool` is what the rest of the program may rely on: a load per device, a
set of waiting requests, answers. It has no lists, no polling and no stack. In
`Scheduler`, `Pool` instantiates it with `load <- counts`,
`waiting <- ToSet(pending)`, `answer <- granted`. `Finish` has the guard that
matters to clients: no computation is retired while a waiter could be served.

### ConcurrentForEach, MCConcurrentForEach

`concurrent_for_each` on top of `Scheduler` (EXTENDS): the arbitrary client is
replaced by loops and their chunks. A loop asks for a device for every chunk,
launches it there and goes on; at the end it awaits all futures in order. A
chunk is a number of computations one after the other on its device, as the
functions passed by the multiexponentiation, inner product and transform code
are. `running` names the coroutine that client code is executing, so a
scheduler step waits until that coroutine has suspended. The module's next-state
relation conjoins the scheduler's own actions. `OneWakerEach` ties the loops to
the scheduler's two lists: whatever is suspended has exactly one thing that will
resume it, its waiter, its event or a chunk that has not returned.

### PromiseFuture

`promise.h`, `promise_future_base.cc`, `future.h`, `future_state.h`,
`continuation.h`, `future_state_utility.h`, `leaf_continuation.h`, `awaiter.h`,
`coroutine_promise.h`. An object is a name with a record of its C++ members
(`future`, `state`, `cont` of a promise; `promise`, `ready`, `value` of a
future and its state). A task is a heap-allocated continuation or a coroutine
frame. `stack` is the nesting of `run_and_dispose` calls, so client steps inside
a continuation happen with outer calls still unfinished. Clients make, move,
assign, destroy, continue, await and resolve in any order within the
preconditions that the code asserts. `status` and `received` are history
variables.

A continuation takes the address of its result's state before it calls the
client's function and writes the value there after the function has returned
(`continuation.h:47`, `future_state_utility.h:35`), while `make_ready` marks the
state that the promise points at by then. So a frame of the stack that runs such
a function has that address in `state`, and `Finish` writes the value to it
(`Emplaced`) and readiness to `promise[t].state` (`MakeReadyOver`). Both are the
same as long as nobody moves, assigns, continues, awaits or destroys the future
of that result while the function runs. Whether clients leave it alone is the
constant `ResultsLeftAlone`: with `TRUE` the three safety properties hold, with
`FALSE` the value can go astray (`ReadyHasValue`; see the disagreements below).

### ToDeviceCopier

The loop of `to_device_copier::copy` with its two buffers (`active`, `alt`), the
pool's free list, and the GPU carrying out transfers (`Transfer`) at any time.
Bytes are pairs of a copier and a position, so a byte from the wrong place or
the wrong copier is recognised. Several copiers share the pool; a copier gives
its buffers back when it has delivered everything.

### ForEachDevice, SumcheckChunks

`ForEachDevice` is `for_each_device` and `for_each_device_impl`: one coroutine
per device, two contexts each, a shared future per chunk (`waiters`), and the
active device of the thread with the device each awaiter saved. Coroutines
resumed by a completion are a stack, `runq`, since a coroutine resumes its
waiters nested in itself. The client function is a chunk that loads, waits for
`alt_future` or does not (`awaitsAlt`), and computes.

`SumcheckChunks` extends it with what `sum_gpu` and `fold_gpu` do in a chunk:
look up the product table in the `device_cache`, launch a kernel on the chunk's
stream, add the partial result. A stream's operations are carried out in order,
those of different streams in any order. The arithmetic is left to
`SumcheckProtocol`.

### SumcheckProtocol

`prove_sum` with the CPU driver, the single-GPU driver and the chunked driver,
and `verify_sumcheck_no_evaluation`, over the integers modulo a small prime.
The workspace is the flat array of the code with its stride `n`. The chunked
driver's `sum` and `fold` are one action per chunk (`SumChunk`, `FoldChunk`) in
any order, with the pieces copied out of both halves as `copy_partial_mles`
does, and `FoldEnd` decides when a single GPU takes over. A challenge is any
field element; the verifier draws the prover's as long as it has appended the
same. The verifier is given the prover's proof or one that differs in one
scalar, any claimed sum, and one wrong degree.

### InnerProduct

`prove_inner_product` and `verify_inner_product` with the CPU or GPU driver on
either side. Scalars are integers modulo a small prime. A group element is the
function of its coefficients with respect to `Q` and the generators, which
makes elements equal only when they are so for generators nobody knows a
relation of. `FoldGenerator` is the double-and-add over the joint bits of both
scalars (`decompose_generator_fold`), `GExponents` and `GExponentsDevice` (the
host's last rounds, then `GExponentsPartial`) are the two ways to compute the
verifier's exponents, `VerificationExponents` chooses between them, and
`ExpectedCommitment` is what they make of the generators, `Q` and the proof. A driver's call is one
action, whose asynchronous parts write to disjoint places. The verifier is
given what is true, or all but one of product, commitment, final scalar and
length of the proof.

A zero challenge is excluded: it has no inverse, and the code draws it with
probability about 2^-252.

### Transcript

`transcript.cc` on `strobe128.cc`, byte by byte, for two parties. The Keccak
permutation is a formal symbol: the state is the list of blocks that have been
permuted together with what has been added to or written over the output since,
so two outputs are equal only if all blocks before them are. `history` is what
the party has done. `ChallengesBind` says that equal bytes drawn mean equal
histories, and so do equal states.

`MCProtocols` extends both proof systems and the transcripts, whose names differ
for that: a behaviour is one proof of either kind, what two parties do with
transcripts, or a sequence of calls of the C interface.

### IndexRange, GroupSums

`IndexRange` is `basit::split` with the iterator it returns: options, the size
of a step, and the chunks as a function of their number, with the roundings and
logarithms of `base/num` that other modules share. `GroupSums` is what all
multiexponentiations compute in: an element of a group is the function of its
coefficients in front of the generators, and memory that nothing has been
written to is a generator of its own, `Junk`, that no correct result contains.
So an equation that holds in the model holds in every group, and use of
uninitialised memory shows.

### FixedMultiexp

The calls of `multiexp/pippenger2` with a table of partition sums. Data are
operators: `Table` (`partition_table.h`), `PartitionIndex` and
`PartitionProduct` (`partition_product.h`), `ProductLengths`
(`variable_length_computation.cc`), `CombineReduceChunk` (`combine_reduce.h`),
`HostProducts` (the host's partition product for varying lengths, with the loop
counter that moves inside the body). Control is actions: `FixedCall` with its
early returns, then per chunk `LaunchChunk`, `ProductsReady`, which reads and
advances the counter `chunk_index` after a suspension, and `CopyDone`;
`CombineOutputs` per chunk of outputs.

### BucketSums, BitProducts, AsyncMultiexp

`AsyncMultiexp` is `async_compute_multiexponentiation`: the choice between the
methods (`Method`), the chunks on their devices (`Launch`, `SortedDone`,
`AccumulateDone`, `Fold`), the rounds of outputs of `bucket_method`
(`CombineBucketSums`) and the return. `BucketSums` holds the kernels of
`bucket_method` and `bucket_method2` with their blocks, threads, padding and
running sums. `BitProducts` holds the decomposition of exponents into bits with
the counts and offsets of its blocks, `fold_multiproducts` and
`combine_multiproducts`. Every element of a result's sequence of products
belongs to a bit that occurs; the sequence grows when a chunk brings a bit
nobody had, which is what `Fold` interleaves.

### Multiproduct, HostMultiexp

`Multiproduct` is `compute_multiproduct` of `multiexp/pippenger_multiprod`: sums
of given inputs, computed in the array that holds the inputs. A row of the
table (`Row`) has its inactive and its active indexes; pruning makes inputs
inactive and moves finished rows to the front (`PruneRows`), inputs are replaced
by sums of partitions or pairs (`PartitionInputs`, `ClumpInputs`), outputs are
clumped in turn and solved by recursion on the rest of the array
(`ReduceClumped`), and what remains is added up (`NaiveMultiproduct`). Heaps and
spans of the index tables are sets and sequences; the numbers of partitions and
clumps (`PartitionMarkers`, `ClumpMarker`, `UnpackClumpMarker` with its rounded
square root) are those of the code. `HostMultiexp` makes the table from the
exponents, calls it and combines the outputs, the signed ones merged in place
(`MergeSigned`). A host call is sequential, hence two actions.

### KernelFit, ThreadReduction

`KernelFit` has the dimensions that `fit_reduction_kernel` and
`fit_iteration_kernel` choose, and the indexes that a thread of such a grid
passes over. The tiers of large reductions are a constant (`FitTiers`), of which
`FitAssumption` asks what the code's numbers satisfy: `CodeFits` in
`MCThreadReduction` has TLC evaluate that for the code's own (`CodeFitTiers`).

`ThreadReduction` is a grid whose blocks sum up terms with `thread_reduce`: the
multiproducts of `multiproduct_gpu`, whose blocks have different sizes and
offsets (`reduce` is one of a single product), and `partial_sum` followed by
`reduce_sums`. What a thread adds up without looking at others' cells is one
action (`Load`), and each halving of the width is one (`Accumulate`), which may
not happen before everybody who takes part in the barrier in front of it has
done what comes before (`BarrierPassed`); between barriers the threads act in any
order. Blocks share nothing that one of them writes, so they come one after the
other. A sum is the set of its terms; a term added twice, uninitialised memory
and the second operand of an `accumulate_inplace` (which may change it) spoil it.
`WriteCoefficients` is the end of `partial_sum_kernel`, which has no barrier in
front.

### LimbField, ScalarLimbs, WeierstrassPoints, EdwardsPoints

The values that the other modules treat as formal sums or as integers modulo a
prime are arrays of words and tuples of coordinates in the code. Each of these
modules is a machine whose variables hold such values. A step is one operation of
the code, with the outputs that are inputs which callers may use, and beside each
value goes what it stands for (`integer`, `residue`, `meant`).

`LimbField` is `field25`: `mac`, `adc` and `sbb` on words, the Montgomery
reduction (`reduce`), products and squares row by row, the conversions,
inversion by a power, and the comparisons. The number and width of the words and
the modulus are constants. `Chain` is a run of operations on words, each with the
carry of the one before. `field12` and `fieldgk` do the same with their own.

`ScalarLimbs` is `scalar25`, the integers modulo the order `L` of a group, in
signed limbs. `L` is 2^252 less a small `Rest`, so `reduce_impl` folds the limbs
from the 12th on into lower ones (`FoldUpper`, `FoldMiddle`, `FoldTop`), with
rounded carries between (`CarryRounded`, even and odd limbs in turn) and plain
ones at the end. `muladd` does a round of carries of its own before. The code has
12 limbs of 21 bits below `L`, of which the rest takes six; the model has
`2 * Half` and `Half`, and folds and carries in the same order. `neg` and
`complement` are reductions of the difference to a multiple of `L`; `inv` is the
code's chain of products.

`WeierstrassPoints` is `curve_bng1` on top of a field of integers. `Sum` works on
coordinates that are overwritten while they are read, as `add_inplace` does: `same`
says that both summands are one variable, which no caller does and which would
give a wrong sum. `curve_g1` and `curve_gk` have the same formulas with another
`mul_by_3b`. `EdwardsFormulas` is `curve21` in its four kinds of coordinates, with
the scalar multiplication by signed digits, over any field, which is given by its
operations; `EdwardsPoints` uses it with `IntegerField`. `add_inplace` uses up its second
summand (`Spoiled`). `fill_exponent` reduces a scalar of 2^255 or more modulo the
prime order; on a point outside the subgroup of that order this gives another
point, whose difference the ristretto encoding does not show, so `ScalarMultiply`
leaves that case out.

### RistrettoFormulas, RistrettoPoints, CarriedField, CarriedPoints, MCArithmetic

`RistrettoFormulas` has the encoding (`encode`, `decode`) and the two maps from
bytes to points, the one to ristretto (`apply_elligator`) and the older one to
the whole curve (`form_point`), again over any field. `RistrettoPoints` adds a
variable that holds an encoding to the variables of `EdwardsPoints`, so that
points and encodings of them take turns. `EncodingsKept` relates them to the group
that is encoded, the multiples of a point up to those of the eight that are
encoded alike.

`CarriedField` is `field51`: `add` leaves limbs that hold more than their bits,
`sub`, `mul` and `sq` carry, and everything is cut off at the width of a word
(`Word`) or of two (`Wide`) where the code's types do so. The exponentiations go
through the bits of the exponent instead of the code's chains of squares and
products. `CarriedPoints` is a machine in which one point goes through the
operations of curve and encoding in words, and through the same formulas in
integers. `WordsKept` says that both stay the same.

`MCArithmetic` chooses one of these six machines. `MCMultiexp` composes the calls
of all kinds with these machines; a behaviour is
one call of one of them, or what one machine does.

### GeneratorCache, CInterface

`GeneratorCache` is `sqcgn`: the two tables of a process, filled once by
`InitPrecomputedComponents` (the second from the first), and what they make of a
request: all from the table, the table's part and the rest computed behind it, or
all computed, by the host or a grid of the GPU. Generators are formal, so a
result tells which generators are in it.

`CInterface` is `cbindings` with both backends. A call is a record of its
arguments; every call is an action that answers it with what it returns, with an
error code, or with the end of the process, where the code asserts. `StartProcess`
begins another process, with an environment of its own (`BLITZAR_BACKEND`, the
devices, the window width), that finds the file of a handle and the proof of the
last one. What a call computes is taken from the modules of the computation: a
multiexponentiation is its sum (`Product`), a proof remembers the statement it
proves (`Statement`), and a handle's table is read the way `FixedMultiexp` does
(`OutputProduct`). `CallsAnswered` compares every answer with the header's promise.

## Runs, bounds and what they show

| Run | Instance | States | Shows |
|---|---|---|---|
| `scheduler` | 2 devices, target 1, 4 events, 3 requests, taken in order | 193,646 | the polling loop keeps its list, counts and queue intact under every client and completion order; events are invoked, requests answered; `DevicePool` is implemented, its fairness included |
| `concurrent_for_each` | 2 loops, 2 devices, target 1, 3 chunks of 2 steps | 19,488 | both loops return, `run()` does not return before them, load bounded by the target, every suspended loop or chunk has exactly one waker |
| `promise_future` | 2 promises, 3 futures, 3 tasks, 4 results, symmetric; `ResultsLeftAlone` | 40,049 | no stale address (`PointersAgree`), no lost, leaked or repeated continuation (`TasksOwned`), each value received once and as it was sent (`ValuesKept`) |
| `sumcheck_chunks` | 2 devices, 8 chunks, with and without waiting for `alt_future` | 173,198 | contexts stable, chunks on their devices, each counted once, all return |
| `proof_protocols` | inner product: order 7; lengths 1 to 5; both drivers. Sumcheck: order 3; 1, 3 and 5 evaluations; three drivers. Transcripts: rate 5, 2 labels, 3 messages, challenges of 1 and 2 bytes, 3 operations a party. Interface: 6 environments, tables of 0, 2 and 5 generators, windows of 1 to 3 | 490,604 | commitment kept in every round, verifier accepts exactly the true values; round polynomials, folding, completeness, soundness up to luck; a challenge is bound to its history; every call of the interface gets what its header promises, in any sequence of calls and processes |
| `multiexponentiation` | 5 generators, bytes of 2 bits, windows of 2, 2 devices, up to 3 outputs; on the host 20 generators; sums by blocks of 1 to 16 threads, warps of 4; arithmetic modulo 47, 263, 7, 13, 29 and 4093; 2 copiers, buffers of 2 bytes, up to 6 bytes each | 223,200 | every method returns the plain sum of multiples; products stay where they were put; a GPU sum has each term once; words, limbs, points and encodings are what field and group give; of the staged copies, the device gets the caller's bytes and no buffer is reused under a transfer |
| `for_each_device_caller` | 2 devices, 6 chunks | | violation: the caller's active device is not restored |
| `promise_future_touched` | 1 promise, 3 futures, 2 tasks, 2 results; not `ResultsLeftAlone` | | violation: a future becomes ready without a value |
| `sumcheck_chunks_table` | 1 device, 2 chunks | | violation: a kernel may read the product table before it is copied |
| `multiexponentiation_host_lengths` | as `multiexponentiation` | | violation: the host leaves products of varying lengths uncomputed |
| `partial_sum` | warps of 4, sums of 4 and 9 pairs, 3 coefficients | | violation: a coefficient may be written before its sum is complete |
| `c_interface_spans` | as `proof_protocols`, an unsigned of 3 bits | | violation: rows of a large array of scalars are left out |

Why these bounds are enough to meet the interesting cases:

* *Scheduler.* Two devices distinguish an idle one and a tie. Four events give a
  list in which the scan has a predecessor, an invoked node, a successor, and
  nodes that are pushed on the front meanwhile. With target 1, two events leave
  requests waiting and two more can be scheduled while those are answered; three
  requests make the pending list a real stack. Clients take events and requests
  in the order of their numbers (`InOrder`), which loses nothing, since their
  names are all the same to the scheduler; a symmetry set would not do for the
  liveness properties. A least loaded device is always an idle one at target 1:
  that `GrantsLeastLoaded` compares loads as it should above that rests on its
  theorem, which like those below is for every number of devices and every target.
* *ConcurrentForEach.* With target 1 and two loops of three chunks, loops queue
  behind each other on every device, and two steps per chunk make a resumed
  chunk launch before its completed computation is discounted, the one case
  where a device exceeds the target.
* *PromiseFuture.* Three tasks nest a continuation in a coroutine in another
  continuation; two promises and three futures allow a move on either side while
  both ends are live. Each result is promised once. For the violation one
  promise suffices, with a coroutine that waits for it and a continuation whose
  function resolves it.
* *ToDeviceCopier.* Six bytes fill three buffers of two, so the third refill has
  to wait; sizes 0 to 6 end inside and exactly at the end of a buffer. Two
  copiers hand buffers to each other through the pool. `MaxHandles` is 4: each
  copier holds at most two, so the bound is never what stops one. The copiers
  share nothing with the computations of `multiexponentiation`, and are one of
  the cases that run begins with.
* *SumcheckChunks.* Eight chunks on two devices use each of a device's two
  contexts twice when the chunks are divided equally; when one device is slow the
  other takes more.
* *SumcheckProtocol.* Lengths 1, 3 and 5 are those with no pair, with one
  unpaired element of two, and with three of four; the chunked driver is run
  with chunks of one index, and with two chunks a round and a change to a single
  GPU at 2. Order 3 makes lucky challenges frequent, so both sides of
  `WrongSumNeedsLuck` occur. The sum claimed is every element of the field.
* *InnerProduct.* Length 5 leaves three of four elements without a pair. The code's thresholds for
  exponents on the GPU (5 host rounds, used from 6 rounds on) are the constants
  `HostRounds` and `MinDeviceRounds`, here 1 and 2, so that proofs of length 3
  and more take that path and the device does two rounds of its own at
  length 5. Order 7 gives three bits, so all four digits of a decomposition and
  leading zeros occur.
* *Transcript.* With a rate of 5 every operation crosses the end of a block
  somewhere: three operations are up to 6 blocks, and messages of 0 to 2 bytes
  and labels of 1 and 2 shift what follows to every position. Bytes are chosen
  to look like lengths, flags and padding, and one label is the beginning of the
  other, so a length left out of the framing makes two histories collide.
* *Multiexponentiation.* Five generators with windows of two leave a group of
  one at the end, and chunks of at most two generators make three chunks of
  which the last is not full, in all orders of completion. Widths such as
  1, 2 and `<<2, 1, 3>>` put an output's bits into two bytes, lengths from 0
  to 5 end outputs before, in and after a chunk. For the bucket methods the
  thresholds (`MinBucketLength`, `MaxSortedLength`...) are small enough for
  every branch of `Method`, and two outputs at a time with three outputs need a
  second round. Exponents of one and two bytes, signed and unsigned, of lengths
  0 to 5 take the bitwise method.
* *HostMultiexp.* All exponents of three and two bytes, signed and unsigned,
  exercise pruning, clumps of one and two and the merge; lengths up to 14 the
  recursion; partitions need at least twelve inputs that several outputs share,
  which those of 18 and 20 terms have. The longer exponents are chosen, not
  exhaustive.

* *ThreadReduction.* With warps of 4, blocks of 1 and 2 threads are less than a
  warp, 4 is one, 8 and 16 several, so both kinds of barrier and the change from
  one to the other occur, twice for the largest. Products of 1 to 25 and of 37
  terms have last steps with both, one or none of a thread's two indexes; calls
  of several products have blocks of different sizes behind each other. Sums of
  a sumcheck round are checked where a block has one thread, with products of
  different degrees and several rows; with more threads they are the violation.
  The proofs lift the bounds for a block.
* *LimbField.* Four words as in the code, of two bits: 47 is to 2^8 what the
  modulus of field25 is to 2^256 (its upper two bits are zero), and every pair of
  residues is reached, so every carry that two operands can cause with these
  words happens. Encodings at and above the modulus are read, too.
* *WeierstrassPoints, EdwardsPoints.* The curves have 13 and 12 points: on the
  first no point is its own opposite but the identity, the second has a subgroup
  of three, as the formulas and the code's use of them require. `Bn254Points` and
  `Curve21Points` list the points, and TLC checks the lists against the equations
  (`MCBn254Assumption`, `MCCurve21Assumption`). All pairs of points meet, with
  many of their coordinates. Scalars have no bit, few, and the uppermost; digits of
  both signs.
* *ScalarLimbs.* Four limbs of two bits below 263, which like the code's order is
  a power of two and a little more, with digits of both signs in the rest. 2^8
  is near enough to the order for every fold and every carry to decide some
  result. Scalars up to 511 come in, two variables meet, and wide numbers are
  next to multiples of the order and far from them.
* *RistrettoPoints.* A curve of 24 points over 29 elements. 29 is 5 modulo 8 as
  the code's prime is, so -1 has a root and the exponents with eighths apply.
  Three elements have eight points each; every number below 29 is hashed.
* *CarriedPoints.* Three limbs of four bits modulo 4093. In words of 11 bits two
  factors may exceed their limbs by 2^3.8 together before a product is lost
  (seven bits above a limb, less the three limbs times a `Fold` of three); in
  `field51` it is 2^6.4 (13 bits, less five limbs times 19). So the code has more
  room than the instance, which just has enough: with words of 10 bits TLC finds
  wrong coordinates. `CarriedCalls` is 3: what an operation returns comes out of
  products, which are carried, so longer chains make no larger limbs.

* *CInterface.* The environments have each backend forced, left to the caller and
  refused for each reason, and windows of 1 to 3. With tables of no, two and five
  generators, requests of up to six lie inside the table, across its end, at its
  end and behind it. Handles hold five points, which leave a group of one in
  windows of two, and are used with 1 to 7 rows, so also with more than there are
  points. Processes follow each other without bound, so every handle and proof
  meets every environment. An `unsigned` of 16 bits counts all of this; with 3
  bits (`c_interface_spans`) four rows of two bytes are too many.

Deadlock is checked in the scheduler and `ConcurrentForEach` runs, where the
program can always go on (the backend may call `run()` again), and in the
multiexponentiation runs, where only a call that has returned may stay as it is.
The others stop:
all results are used up, all bytes delivered, the round or the verdict is done.
That they get there is a liveness property where the schedule is in question
(`CopyReturns`, `Completes`, `LoopsReturn`).

## Fairness

* `Scheduler`, `ConcurrentForEach`: weak fairness of the thread (a thread inside
  `run()` goes on), of `run()` being called once work is submitted (every entry
  of the GPU backend does so), and of each computation completing (a kernel that
  was launched finishes). Nothing obliges a client to submit anything. Requests
  and events are finite in number, as they are in one call of the library;
  under an endless supply of new requests the pending stack could pass over an
  old one for ever, so `WaitersGranted` depends on this.
* `ToDeviceCopier`: weak fairness of transfers; strong fairness of each copier's
  step, because the model's callers may call `copy()` with no bytes as often as
  they like, while real callers make finitely many calls and the scheduler
  polls all events in turn.
* `ForEachDevice`, `SumcheckChunks`: weak fairness of every coroutine's step and
  of every operation of every stream.
* `PromiseFuture`, `SumcheckProtocol`, `InnerProduct`, `Transcript`, the
  multiexponentiations and the arithmetic have safety properties only and no fairness. That a
  multiexponentiation returns follows from the absence of deadlocks: no step
  can be repeated, and every state but the last has a next one.

## What is proved

The proofs hold for any number of devices, any target, any finite set of events
and any set of requests (`SchedulerAssumption`), and any set of loops with any
number of chunks and at least one step per chunk (`ConcurrentForEachAssumption`,
which also says that events and requests are named by loop, chunk and step),
and any sets of promises, futures, tasks and results that differ from each other
and from the null pointer (`PromiseFutureAssumption`). What is proved of promises
and futures is proved of clients that leave the future of a continuation's result
alone while its function runs (`ResultsLeftAlone`).

`Scheduler`'s `TypeOK`, `NoWaiterLost` and `ScanPositionLinked`, `ForEachDevice`'s
`NotOversubscribed` and `ToDeviceCopier`'s `BytesAccounted` are in no run: they
are proved, as parts of the invariants below or consequences of them.

### SchedulerProofs

None of the safety properties is inductive alone. The counts stay natural
numbers because they count outstanding events; that holds because the list holds
each outstanding event once; that holds because the node the scan unlinks is
the one it has invoked; and that holds because client code only pushes on the
front, in front of `cursor`. So they are proved together, as

    IInv == TypeOK /\ StackOK /\ NoEventLost /\ NoWaiterLost
              /\ ScanPositionLinked /\ CountsMatchEvents /\ Saturated

where `StackOK` says what the place in the loop implies for `cur` and `cursor`.
`InitIInv` and `IInvStep` show that it is inductive; there is one lemma per
conjunct, with one step per action. The module begins with lemmas about lists
without repetition: pushing on the front, removing an element, and where the
other elements are afterwards. From `IInv` follow

* each conjunct (`TypeCorrect`, `AlwaysSaturated`, `CountsCorrect`,
  `EventsKept`, `WaitersKept`, `ScanCorrect`);
* `NoneStranded`: when `run()` is about to return nobody waits for a device.
  With the active list empty all counts are 0, hence below the target, and
  `Saturated` leaves no waiter;
* `InvokedOnce` and `GrantsCorrect`, the two action properties. That
  `on_event_done` hands out a least loaded device although it never looks at
  the others follows from `Saturated`: the others are at their target;
* `Refinement`: every step of `Scheduler` is a step of `DevicePool` or leaves
  its variables unchanged. (Its fairness is checked by TLC only.)

### SchedulerProofs, the loops of ConcurrentForEach

That the loops use the scheduler properly, and what the scheduler promises them,
need each other, so the inductive invariant is `FInv`: `IInv` with

* `RunningOK`: which coroutine runs, given where the thread is;
* `GrantOK`: a loop about to launch holds a device that is still below its
  target, since nothing else runs between the grant and the launch;
* `BoundOK`: a device is above its target by at most the event being retired;
* `WaitersOK`: the unanswered requests are those that loops are suspended on;
* `LaunchedOK`, `JoiningOK`, `ChunksAlive`: chunks are launched in order, a
  loop waits only for one that has not returned, and such a chunk is running or
  has an event in the scheduler;
* `EventsOK`: a chunk waits for one event at most, and for none while it runs or
  when it is done, so nothing resumes it twice;
* `LoopsOK`, the types.

`StepOfScheduler` shows that every step is one of `Scheduler`'s, so `IInvStep`
gives `IInv'` at no cost. `ForEachInvariance` says that `FInv` is kept. The
results are `NeverOversubscribed`, `OneWakerAlways` (every suspended coroutine has
one waker), and `RunReturnsWithResults`: `run()` returns only when every loop that was started
has returned, so the backend, which takes the value of the future without asking
whether it is ready, finds one. In its proof a loop left over would be suspended
on a device, against `NoneStranded`, or on a chunk, which `ChunksAlive` says has
an event in the list that is empty.

### PromiseFutureProofs

`PointersAgree`, `TasksOwned` and `ValuesKept`, for any number of objects, any
depth of nested continuations, and whatever client code does between any two
steps, but for touching the future of the result that a running function is to
give (`ResultsLeftAlone`). None is inductive: that a moved future may tell its promise the new
address depends on the promise being alive; that depends on the promise of a
suspended task not being reached any other way; and that on the task being
owned once. So they are proved together, from

    ObjectsOK == TypeOK /\ ObjectsAgree /\ StorageOK /\ PromisesOK /\ FuturesOK
                   /\ StackOK /\ TasksOK /\ ReceivedOK
    IInv == ObjectsOK /\ AddressesOK

`StorageOK` is the heart: a pending promise writes its result either into the
future that it and nobody else points at, or into the task that continues it,
in which case it has no future, or the one in the task (an awaiter). Every
hand-over of the code (`future::then`, the leaf continuation of a future that
goes while its promise is pending, `await_suspend`) moves a promise from the first
case to the second, with all three pointers at once. `PromisesOK` and
`FuturesOK` say that a result has one promise and one future, `StackOK` that a
task whose `run_and_dispose` is active waits for nothing and has a pending
promise until it is disposed of, `TasksOK` that a task has one owner (the frame
on the stack, or the promise it continues), and `ReceivedOK` that a result a
consumer has taken is in no future any more. `AddressesOK` says that the address
a running continuation has taken is still its promise's state. Only `Finish` needs
it to keep `ObjectsOK`, because the value it writes and the readiness it sets must
meet in one state; and only it needs `ResultsLeftAlone`, since every step that
re-aims a promise is a client's step on its future. There is one lemma per action
and part, with one step per conjunct of `ObjectsOK`. The actions that unlink or destroy a future
do it through the same operators, so what those do (`ElementsOfStack`, the
lemmas on the head frame, on moves and on dying objects) is stated once in
front. `TasksOwned` counts with cardinalities what `TasksOK` says one by one;
the last lemmas translate.

### DeviceWorkProofs

*Chunks.* About `for_each_device`, for any numbers of devices and chunks, however the
chunks finish: `ContextStable`, `NotOversubscribed` (stated for chunks that await `alt_future`)
and `ChunkOnItsDevice`; about
a round of sumcheck on it: `EarlierCopySeen` and `EachChunkCountedOnce`.
A step of a round is a step of `for_each_device` or leaves it alone
(`RoundStep`), so the round's invariant includes that of the loops.

The two contexts of a device are written while chunks hold references to them,
so the invariant `FInv` says for each device which chunks may still be running
and which context they hold. In the loop of `for_each_device_impl` it is only the
latest chunk, whose context is `ctx`, and whose future is in `*ctx_p`
(`InLoop`); while the loop awaits `ctx_p->alt_future` it is also the new chunk,
whose context is `*ctx_p` (`Awaiting`). `ProgressOK` ties the loops to what is
launched, so that all of them having returned means that all chunks are done.
`WaitsOK`: who waits for a chunk, who is on the stack because its chunk is done,
and that the awaiter of a suspended chunk holds its device. That two chunks
never compute on one device follows: the later would have waited for the
earlier. For the round, `RInv` adds that a chunk past its lookup finds a table in
the cache (`CacheOK`), that a done chunk's kernel has run, behind the copy if it
made it, and that the result is the count of done chunks (`ResultOK`). A kernel
that meets an unfinished copy then was launched before the chunk that made it,
which is all of the defect that `sumcheck_chunks_table` shows.

*Copies.* `OneOwner`, `InFlightIntact`, `BytesAccounted` and `Delivered`, for any set of
copiers, size of the pinned buffers and sizes of the destinations, in whatever
order the streams get to their copies. The inductive invariant `CopyIInv` says, for
every place of `copy()`, how many bytes are behind `dst_`, in `active_buffer_`
and in `alt_buffer_`, which transfers may still be in the copier's stream (none
when `alt_buffer_` is about to be filled again: that is what the wait for the
stream is for), and that the bytes of source, buffers, transfers and device
memory are consecutive. Buffers of different copiers are told apart through
their owners, which is why one copier's step leaves the others' invariant alone.

### DataLemmas

`DataLemmas` has the facts about lists used at their head that
`DeviceWorkProofs`, `SchedulerProofs` and `PromiseFutureProofs` use, and
those on division, loops and sums over finite sets that
`SumcheckProtocolProofs`, `InnerProductProofs`, `MultiexpProofs` and `AsyncProofs`
use, with congruence modulo a number. What a fold or a recursive
function computes is proved by induction over the *set* of numbers, or of finite
sets, of which a statement holds (`NatSetInduction`, `FiniteSetInduction`): a
fold over a finite set exists and is determined by its steps (`FoldExists`,
`FoldUnique`), so any element of a sum can be taken off first (`SumOut`), sums
can be split (`SumUnion`) and renamed (`SumReindex`); a loop's values exist
(`LoopExists`) and are those of any other that keeps in step with it
(`LoopsAgree`).

### SumcheckProtocolProofs

`WrongSumNeedsLuck`, `RoundPolynomialCorrect` and `ProofAccepted`, for every
prime field, every problem (any number of evaluations, MLEs, products and
multipliers), driver and options (`SumcheckAssumption`, which is what the callers
see to). The run's verifier is
given proofs that differ from the prover's in one scalar; `AnyProofNeedsLuck` is
about `AnyProofSpec`, where it is given any proof of the right length, with
either of the degrees.

For soundness the inductive invariant is `Inv == TypeInv /\ SoundOK`. `TypeInv`
relates the variables of prover and verifier:

* `RoundOK`: there is a challenge for every round that is over, and the last
  round is that of the last variable;
* `WorkspaceOK`: the array holds whole MLEs for the variables that are left, and
  is split by its middle into a full half and one not longer (`mid <= n <= 2 mid`,
  of which the code asserts one part). After a fold, the middle of the new array
  does the same for one variable fewer (`NextWorkspace`);
* `ChunksOK`: the chunks are ranges of the first half that are not empty, and a
  chunked fold writes an array of `mid` elements per MLE;
* `PolysOK`: the polynomials are field elements, one polynomial per variable;
* `VerifierOK`: a verifier that goes on has read as many polynomials as it has
  challenges, in a proof of the prover's dimensions.

So all places that `sum`, `fold`, `copy_partial_mles` and the verifier index are
inside their arrays: that is what one lemma per action shows (`SumChunkTypes`,
`FoldChunkTypes`, ...), with `PartialMlesIs` for the pieces and `ExpandIs` for the
in-place products, whose closed form is `TimesLinearIs`.

`SoundOK` is what a round hands to the next: while a wrong sum has not been
refuted, what the verifier expects is not the true sum behind its challenges, or
one of them was lucky. A round keeps it (`VerifyRoundSound`): what it compares is
the given polynomial's value at 0 plus that at 1 (`SumOfEnds`, by Horner's rule and
the sum of the coefficients), the true sum is the sum of the true polynomial's
values there (`SumOfHalves`: the corners of the cube by their first coordinate,
which is the upper bit of the index), so the two polynomials differ at 0 or at
1; and then the challenge is a point where they differ, or it is lucky. With all
variables set the true sum is the value (`SumOfAll`), which is what the caller
compares. That a polynomial of low degree has few lucky points, and the
transcript's challenges are hard to predict, is not part of it.

Completeness needs more: neither `RoundPolynomialCorrect`, which speaks of the end
of `sum`, nor `ProofAccepted`, which speaks of the end of the verifier, says what
holds between. `FullInv` adds `ValuesOK` and `HonestOK` to `Inv`:

* `MlesOK`: in a round the array holds the values of the MLEs at the challenges so
  far and the corners behind them, with zeros behind its end;
* `SummedOK`: while chunks are summed, the coefficients written so far have, at
  every value, the sum over the indexes of the chunks that are done, each once;
* `FoldedOK`: while chunks are folded, the new array is right at those indexes;
* `PolyOK`: every round that is summed has the polynomial of its partial sum;
* `HonestOK`: a verifier that was given the prover's proof, its degree and the
  true sum has the prover's challenges, expects the true partial sum, and has not
  rejected.

The steps of `sum` come down to the arithmetic of the code. `partial_expand_products`
multiplies coefficients in place (`EvaluateTimesLinear`), so `expand_products` makes
a polynomial that has at `x` the product of what `fold` would write with the
challenge `x` (`FoldIsLine`, `EvaluateProduct`), also for a pair whose upper element
is missing, which is taken for zero; a round adds these up (`EvaluateRound`).
`fold` sets the next coordinate of an MLE because the MLE is linear in it
(`MleAtLine`, `FoldIsMle`), and at the corners an MLE is its evaluations
(`MleAtCorner`), so the polynomial of a round at `x` is the sum over the cube
behind the challenges and `x` (`RoundSum`). A chunk's copy pairs the elements that
the whole array pairs (`ChunkFold`: three cases, for a chunk below, across and
above the place where the second half ends), the chunks of a split cover every
index once (`SplitCovers`), and adding coefficients modulo `P` adds values
(`EvaluateAdds`), so chunks may finish in any order. After the last fold one
element per MLE is left, and the change to a single GPU in between keeps the array
and its stride. The verifier then compares equal numbers in each round
(`HonestRoundIs`), which is `ProofsAccepted`.

TLC has checked `TypeInv`, `SoundOK`, `ValuesOK` and `HonestOK` on instances like
that of `proof_protocols`.

### InnerProductProofs

`CommitmentAlwaysKept` and `VerifierAlwaysDecides` are `CommitmentKept` and
`VerifierDecides` for every prime order, any set of problems of any lengths, any
number of bits of a scalar that its order fits in, any number of rounds done on
the host and any mix of drivers (`InnerProductAssumption`, which says no more
than the code's assertions and that the order is prime). The problem, the
challenges but 0 and the wrong arguments are arbitrary; that the verifier
sees all but one of its arguments right is part of `VerifierDecides`, as in the
model.

The proof looks at one coefficient of the group elements at a time. For the
coefficient `k` the commitment to `a`, `b` and `g` is the product of `a`, padded
with zeros, and a vector of weights: the coefficients of `g`, and for that of
`Q` also `b` (`CommitmentIs`). A fold takes halves of `a` and the weights
together with a challenge and its inverse, the other way round for the weights,
whatever the shorter upper halves are (`FoldScalarsIs`, `FoldGeneratorIs`: adding
and doubling along the bits of both scalars is multiplying by them). So two facts are kept,
for each coefficient:

* `Committed`: the product of `a` with the weights is that of the caller's
  vectors, corrected by the published cross terms (`DotOfFolded`);
* `Scaled`: any exponents in which a bit of the index stands for the square of a
  challenge have the product with the weights that they had with the caller's,
  times the inverses of the challenges so far (`DotOfSquared`).

`RoundKept` says both of the vectors at the start of a round, with the lengths
they may have, and `FinalKept` of the scalar that is left after the last one. They are
conjuncts of `Invariant`, with where the prover is (`Lists`, `Prover`) and which
of the prover's challenges the verifier has drawn (`Running`). `CommitmentKept`
follows from `Committed` with what `Corrected` computes (`CorrectionsAre`). For
the verifier, both ways to compute exponents give such exponents, beginning with the
final scalar it was given times all inverses (`VerificationExponentsAre`, in
which the GPU's goes on from the host's and does the last round again). With
`Scaled` and `Committed`, the commitment it computes differs from the true one
in the coefficient `k` by the difference of that scalar to the true one, times the weight that is
left (`ExpectedIs`). If the scalar is right, it is the true one, and
what it is compared with determines the product or the commitment, if the other
is right (`GivenDetermines`). If it is wrong, the coefficient of the first generator
tells: the weight left for it is the product of the inverses, and that can be
cancelled (`ExpectedIsTruth`). That scalars but 0 have inverses is proved from the order being prime
(`InverseIs`).

`Invariant` speaks of all exponents and all integers, so TLC cannot check it; it
has checked the two properties.

### MultiexpProofs

*Splits.* `SplitCovers`: for every range and all options, the chunks of `split` are not
empty, follow each other without gap or overlap from the start of the range to
its end, each begins a multiple of `chunk_multiple` behind the start, and there
are none exactly if the range is empty. It rests on bounds for `divide_up` and
on the step being a positive multiple of `chunk_multiple`.

*Places of products.* `FixedProductsKept` is `[]ProductsKept` for any number of generators, chunks and
outputs and any order of completion: while other chunks are copied to their
places, a chunk's products stay. The invariant is `AtWork`: the counter is the
number of chunks that have taken a place, those places are below the counter and
different from each other, and the products of a chunk whose copy is done are
there. That slices of different places do not overlap, and lie inside the array,
is arithmetic (`SlicesDisjoint`, `SliceInside`); that a place is below the
number of chunks follows from the counter being the size of a subset
(`PlacesBounded`).

*Results.* `FixedBaseResults` is `[]FixedBaseCorrect` for any generators, window,
widths and lengths of the outputs, options of the splits, and order in which the
chunks finish: whatever is in `res` when a call returns is what the scalars say.
Two formal sums are equal if their coefficients are, so the proof follows the
coefficient of one generator `g` through the code:

* *table*: an entry has `g` once if the entry's index has the bit of `g`'s place in
  the group (`TableIs`). `compute_partition_values` takes the entry without the
  lowest bit and adds that of the lowest bit; `LowestBitIs` says that this takes
  away one bit and leaves the others (`BitsAround`);
* *index*: `compute_partition_index` sets the bits of the scalars' bytes, and
  none behind the last generator of a group that is not full (`IndexIs`, with
  `BinarySum`: a sum of different powers of two has their bits);
* *product*: `g` is in one group (`GroupOf`), so a product has it as often as its
  scalar's bit says, if it is among the product's generators (`ProductIs`);
* *chunk*: outputs in order of their lengths are what makes
  `compute_product_length_table` right: the products it leaves out are those of
  outputs that end before the chunk, and the others end where their output or the
  chunk does (`LengthsAre`, `ChunkProductsAre`);
* *sum of chunks*: `g` is in one chunk (`SplitPartitions`), which has one place
  among the partial products, and every place has a chunk: as many places are
  taken as there are chunks (`AllPlaced`, from `AtWork`). So the place does not
  matter (`PlacedSum`), nor does the copying of an output chunk's slices to the
  device (`CombineIs`);
* *output*: doubling and adding from the top weighs the products with the powers of two
  (`HornerIs`), which is the definition (`OutputIs`).

The invariant is `FixedInv /\ ResultsInv`: a result is not there yet or right.
Host calls of varying lengths are left out because they are wrong
(`multiexponentiation_host_lengths`).

Assumed of calls (`FixedAssumption`, which TLC evaluates for the calls of the run):
the options of the splits are valid, the window is at least 1, there is a
generator, widths are positive (`reduce_output` begins with the last product of an output),
scalars are bytes, of no more generators than the table has, and the outputs'
lengths are at most the number of scalars, equal to it in a call of equal lengths, and
in ascending order (`cbindings/blitzar_api.h:726`).

*Grids and blocks.* `ReductionFits`: for every number of indexes, `fit_reduction_kernel` leaves every
thread of every block the two indexes that `thread_reduce` reads without a test
(or one, to a block of one thread). For a reduction by less than a warp this is
the choice of the largest power of two that twice fits; for the tiers it is
`FitAssumption`. `VisitedOnce`: for any dimensions the threads of a grid together
pass over every index, and no two over the same: an index determines the step,
the block and the thread as digits (`Division`, `VisitPlace`). `EachIndexOnce` is
the same for `fit_iteration_kernel` and `for_each_kernel`, with the code's
numbers, and says that no block is idle, as the kernel asserts
(`LastBlockActive`).

`BlockSum`: from a block's beginning, in whatever order its threads act between
barriers, what it writes is the sum of what its threads have visited, every term
once, for any power of two of threads and any warp. The invariant is `BlockInv`.
Its heart is `CellsOK`: a cell whose thread has reached width `k`, and has not
been used by another, holds exactly the terms of the threads that are congruent
to it modulo `k`. It is kept because a thread halves its width only when the
thread that owns the other cell has come to the same width, which is what the
barrier says (`BarriersOK`: nobody is two widths ahead of a thread that takes part),
and because the residues modulo `2k` of `t` and `t + k` are disjoint and make up
the residue of `t` modulo `k` (`ResidueFacts`). At width 1 that is all threads.
Assumed: blocks of powers of two (`FitAssumption`), and that a block begins in
`BlockBegun`, with disjoint terms: `VisitedOnce` is what makes them so.

`ReductionsCorrect` is `SumsCorrect` for every multiproduct and every `reduce`, of
any number of products of any sizes from 1 (which `thread_reduce` asserts). The
invariant is `ReductionInv`: the block that runs keeps `BlockInv`, and the blocks
before it have written their terms (`EarlierBlocks`). The rest is about the list
of blocks that `fill_block_descriptors` makes: where a product's blocks lie in it
(`BeforeIs`, `FlattenIs`, `GridIs`), that two blocks of a product share no term and
all of them together have its terms (`TermsAre`, `BlocksOfProduct`), and that
`complete_multiproduct` finds the first block of each product by its offset
(`StartFound`). Sums of sumcheck rounds may be among the calls, and the theorem
says nothing of them: it is false of `partial_sum_kernel` (run `partial_sum`), and
that it holds when a single thread writes is only model-checked.

### AsyncProofs

`AsyncResults` is `[]AsyncCorrect`: whatever
`async_compute_multiexponentiation` returns is what its exponents say, by each of
the three methods, for any generators, exponents, devices, bounds of chunks and
numbers of threads and blocks, in whatever order the chunks finish. Two formal
sums are equal if their coefficients are, so here too the lemmas follow one
generator.

*What a device computes of a chunk* is a function, and the lemmas say what it is:

* *`bucket_method`*: a block's threads pass over its generators, each index is
  in one block, also in the last that is not full (`BlockFound`), so a chunk's
  bucket is the sum of its generators with that digit (`ChunkBucketsAre`);
* *`bucket_method2`*: the digits with their padding are sorted, and a digit's
  entries lie between the counts of the smaller ones and its own (`PlacesSorted`,
  `LessIs`): the padding is behind the first count, and no entry of the table is of
  it (`SortedIs`). So the buckets are those of all generators
  (`SortedBucketsAre`);
* *bits*: the decomposition writes an exponent's index at the offset of its
  block and bit, behind those of the block with that bit before it. Ordered by
  bit, block and position, the offsets are ranks (`RankIs`, `RankOfClass`): every
  bit of every exponent has one place and every place one of them
  (`IndexesAre`), the places of a bit follow each other (`SlicesAre`), so the
  product of a bit is the sum of the generators that have it, with
  their signs (`ChunkProductsHold`).

*What is made of it*: combining groups and adding buckets from the top weighs
each generator with its digits (`RunningSumsAdded`, `PlacesAdded`, `BucketResultIs`),
and `reduce_digits_rest`, which begins every digit from the doubled sum of those
above, does as well (`ReducedDigitsAre`). For the bits, an exponent is the sum of
its bits, and a negative one minus the bits of its absolute value
(`BitsOfExponent`); bits that nobody has, which have no product, count for
nothing (`CombineHolds`). Folding in the products of further generators, into a
sequence that grows, adds the two bit by bit (`FoldHolds`).

*While chunks run* the invariant `AsyncInv` (`AsyncInvariance`) says what is in the
arrays, by method:

* *sorted* (`SortedHeld`): the outputs of the chunks that are done are right;
* *buckets* (`BucketsHeld`): chunks have taken the places in their order, and at
  the place of a chunk that is done there are its sums; the outputs of
  earlier output chunks are right. Places are different, so a sum
  that is written leaves the others (`BucketsAccumulated`), and at the end of a
  loop every place has its sums (`OutputsReduced`);
* *bits* (`ProductsHeld`): an output has the products of exactly the generators
  of the chunks that are done with it. A chunk that begins behind the end of an output
  has none of its generators, and is done with it from its launch on
  (`ProductsLaunched`); the others add theirs once (`GeneratorsDone`).

A chunk's range is not empty and every generator is in one (`ChunksDivide`, from
`SplitPartitions`), so when all chunks are done all generators are there.

Assumed of calls (`AsyncAssumption`, evaluated by TLC for the calls of the run):
exponents are of no more generators than there are, their data have the length
they say, and signed ones are narrower than the width of the bucket methods
(`multiexp/base/exponent_sequence.h:40`: "if signed, then element_nbytes must be
<= 16"; the bucket methods, which take 32 bytes, do not look at signs); all
numbers of devices, threads, blocks and bounds are positive.

## Disagreements between the code and its documents

* `for_each_device` takes an `active_device_guard` before it launches and keeps
  it until it returns (`execution/device/for_each.cc:95`). When it suspends, its
  caller goes on under the device of the last launch, the caller's awaiter saves
  that device, and puts it back at the end. A coroutine that awaits
  `for_each_device` so continues on another device than it started on, against
  "coroutines restore the active device" (`execution/async/coroutine.t.cc:52`).
  Run `for_each_device_caller`. The chunked sumcheck driver then takes its
  cached table from whatever device is active
  (`proof/sumcheck/chunked_gpu_driver.h:61`), which works because that device is
  one that ran a chunk.
* `device_cache::lookup` enqueues the copy of the product table on the stream of
  the chunk that asks first and gives the device pointer to the other chunks at
  once (`proof/sumcheck/device_cache.h:66`). Chunks are resumed in the order in
  which their own copies complete, so it may be the second chunk of a device
  that asks first; the first chunk does not wait for it and its kernel, on
  another stream, may run before the table has arrived. Run
  `sumcheck_chunks_table`. `EarlierCopySeen` in `sumcheck_chunks` is the part
  that does hold: a table copied for an earlier chunk has arrived.

* `continuation::run_and_dispose` evaluates `promise_p_.state()` before it calls the
  client's function (`execution/async/continuation.h:47`), and the value is
  emplaced at that address after the function has returned
  (`future_state_utility.h:35`, `:45`). A function that moves, assigns, continues,
  awaits or destroys the future of its own result, itself or through a coroutine
  that it resumes, re-aims the promise but not the address: the value goes into
  a state that was moved from or destroyed, and `make_ready` makes ready one that
  has none, against its assertion "value not set" (`future_state.h:41`; a debug
  build stops there). Run `promise_future_touched`. The library's two callers of
  `then` (`multiexp/multiproduct_gpu/multiproduct.h:94`,
  `algorithm/reduction/reduction.h:77`) have functions that touch no future.

* The host's partition product for outputs of varying lengths adds
  `num_products - num_slice_products` to its loop counter inside the body
  (`multiexp/pippenger2/variable_length_partition_product.h:145`). When the
  shortest outputs have length zero and more than one bit follows, only some of
  the following products are computed; the others are uninitialised memory. It
  is the "Host version of async_multiexponentiate."
  (`variable_length_multiexponentiation.h:193`), whose GPU counterpart computes
  all of them. Run `multiexponentiation_host_lengths`.

* `partial_sum_kernel` has its threads write one coefficient each of the block's
  sum as soon as `thread_reduce` has returned to them
  (`proof/sumcheck/sum_gpu.h:110`). The sum's last step is thread 0's addition of
  the second cell to the first, behind the last `__syncwarp()`
  (`algorithm/reduction/warp_reduction.h:64`), so nothing orders the other
  threads' reads behind it and coefficients 1 and up may lack half of the
  block's sum. `sum_gpu.t.cc:121` requires the whole sum, with a single pair
  of evaluations per thread block, where one thread writes everything. A warp
  that happens to run in lock-step hides it. Run `partial_sum`. The other
  kernels let the thread that added write (`SumsCorrect`, `BlockSum`).

* The array of scalars of a multiexponentiation with equal lengths is given a
  size of `element_num_bytes * num_outputs * n` bytes, a product of `unsigned`
  numbers (`cbindings/backend/cpu_backend.cc:223` and `:240`, `gpu_backend.cc:266`
  and `:284`), and the number of rows is divided back out of it. From 2^32 bytes
  on the product wraps, and the results are computed from fewer scalars, in
  the worst case none, against the "contiguous multi-dimension `num_outputs` by
  `n` array" of `cbindings/blitzar_api.h:663`. `make_scalars_span`, for varying
  lengths, computes in `size_t` and is tested for values "that would overflow a
  32-bit integer" (`computational_backend_utility.t.cc:47`). Run
  `c_interface_spans`.

* `sxt_curve25519_get_one_commit` asserts that its `one_commit` is not null
  (`cbindings/get_one_commit.cc:35`), so the process ends, where the header lists
  this among the "Invalid input parameters, which generate error code"
  (`cbindings/blitzar_api.h:473`). The model aborts as the code does, and
  `HasPromise` leaves this call out.

Things met on the way that are harmless: `chunk_index` is read after a
suspension in `multiexp/pippenger2/multiexponentiation.h:115-128`, so partial
products are stored in order of completion, and they are only summed;
`multiexp/index/partition_marker_utility.cc:35` shifts an `int` by up to the size
of a partition, less one, which reaches 31 only when there are more than 2^31
outputs times inputs, a table of gigabytes; the
bucket methods do not look at `is_signed`, which nobody sets for 32-byte
exponents; the first
device of `execution/device/active_device_guard.cc:27-34` is assigned twice;
`verification_kernel.cc` repeats the host's last round with the same result; the
assertion at `proof/sumcheck/cpu_driver.h:75` is not reached when n = 1;
`cbindings/blitzar_api.h:440` declares `sxt_ristretto255_get_generators` with the
offset before the number, while the same comment's formula (line 413), the
definition and its callers put the number first; the operations on encodings
(`ristretto/operation/add.cc:30`) do not look at whether an encoding was one.

## What is only model-checked and what is not modelled

Liveness (`EventsInvoked`, `WaitersGranted`, `LoopsReturn`, `CopyReturns`,
`Completes`; `EventsInvoked` for a finite set of events, so it does not exclude that
an endless supply of ready events at the head of the list keeps the rest from
being polled), the fairness part of `ImplementsPool`, and everything in
`Transcript` (`ChallengesBind`), the caches and the C interface (`CallsAnswered`),
the arithmetic (`FieldKept`, `PointsKept`, `EncodingsKept`) and the host's
multiexponentiation by tables of products (`HostCorrect`) is checked by TLC on the
instances above and not proved.
Liveness needs `ENABLED`, which the prover does not know. `Transcript` is made of
bitwise operations and the host's multiexponentiation of a `RECURSIVE` operator,
which it does not know either. The arithmetic is polynomial identities modulo a
prime, for which it has no procedure; TLC compares all elements of small fields.
The caches and the C interface are within its reach, and have not been proved.
What is defined by sums and recursive functions can be proved about with
`DataLemmas`, as in `SumcheckProtocolProofs`, `InnerProductProofs` and `AsyncProofs`.

Assumed throughout: clients keep to the asserted preconditions; `run()` is not
called from a continuation (nothing in the code detects it); CUDA operations do
not fail (the code aborts when one does); a stream carries out its operations in
order; allocations succeed. A call of the fixed multiexponentiation on the GPU
has at least one generator: with none there are no chunks, and `combine_reduce`
divides by their number.

Not modelled, with the reasons in `PROJECT.json`:

* *Keccak*: a fixed permutation, of which the transcript needs only that nobody
  finds collisions.
* *The bytes of `scalar25` and `field51`*: how loads and shifts cut 32 bytes into
  limbs of 21 or 51 bits does not shrink to a smaller width. Numbers are cut into
  limbs by division.
* *Conversions of several points at once, encodings of `curve_g1`*: loops over
  the conversions of one, and flags in spare bits of a coordinate.
* *cub's searches and sorts* (`runlength_count`, the radix sort of
  `bucket_method2`): library code whose result the models take as specified.
* *A grid that runs several blocks at once*: blocks write different places, and
  read nothing that another writes.
* *The strobe's `key`, the reduction of a challenge to a scalar, 32-bit
  lengths*: `key` is called by a test only; a length is one byte in the model.
* *The naive product solver, radixes shorter
  than an exponent*: no state, or not chosen by any caller.
* *The callback of a sumcheck's transcript, hashing to a generator, the recording
  of a call's arguments*: what they do is the caller's, fixed, or for benchmarks.
* *Stream pool, device memory*: planned, see above. What they do to the scheduler is within the arbitrary
  client of `Scheduler`.
* *Logging, assertions, random generators, file access, Rust bindings, examples
  and benchmarks*: no protocol of their own.
