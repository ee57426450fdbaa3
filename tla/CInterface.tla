------------------------------ MODULE CInterface ------------------------------
(***************************************************************************)
(* The C interface, cbindings, and the two backends it passes calls on to, *)
(* sxt/cbindings/backend.  What the backends compute is stated by other    *)
(* modules; this one is about what a call makes of its arguments and of    *)
(* what calls before it have left behind: the backend chosen by sxt_init,  *)
(* the tables of generators, a handle and its file, a proof.               *)
(*                                                                         *)
(* A process makes one call after the other.  An assertion that fails, or  *)
(* a panic, ends it.  Another process has its own environment; what it     *)
(* finds is the file and the proof.                                        *)
(*                                                                         *)
(* Pointers are what they point to, and the name of a parameter stands for *)
(* it being null.  Points are given by the numbers of their generators.    *)
(***************************************************************************)
EXTENDS GeneratorCache, IndexRange

CONSTANTS
  Environments,     \* of processes: BLITZAR_BACKEND, whether the driver supports
                    \*   the CUDA version, the devices, the window width
  Calls,            \* arguments of calls, with the name of the operation
  UnsignedBits,     \* bits of an unsigned (32 in the code)
  MaxElementBytes   \* of an exponent (32 in the code)

VARIABLES
  environment,  \* of the process
  backend,      \* the pointer backend of backend.cc: "none", "cpu" or "gpu"
  handle,       \* an sxt_multiexp_handle, None before and after
  file,         \* a handle written to a file, None before
  proof,        \* an inner product proof, None before
  reply         \* the last call, how it ended, and what it returned

interfaceVars == <<environment, backend, handle, file, proof, reply, cacheVars>>

None == <<>>

Returned(values) == [outcome |-> "returned", values |-> values]
Failed == [outcome |-> "failed", values |-> <<>>]
Aborted == [outcome |-> "aborted", values |-> <<>>]

Alive == reply.result.outcome # "aborted"

(* A reply also remembers what the call was about, for the properties. *)
AnswerAbout(about, call, result) == reply' = [call |-> call, result |-> result, about |-> about]

Answer(call, result) == AnswerAbout(None, call, result)

(* get_backend asserts that there is one *)
WithBackend(result) == IF backend = "none" THEN Aborted ELSE result

use_gpu == backend = "gpu"

(* The largest value(i) for i in 1 .. n, at least 0 *)
Longest(n, value(_)) ==
  MapThenFoldSet(AtLeast, 0, value, LAMBDA S : CHOOSE i \in S : TRUE, 1 .. n)

-----------------------------------------------------------------------------
(* backend.cc *)

(* The variable of the environment overrides the configuration. *)
ChosenBackend(config) ==
  IF environment.BLITZAR_BACKEND = "unset" THEN config.backend ELSE environment.BLITZAR_BACKEND

InitResult(config) ==
  IF \/ config.null = "config"
     \/ backend # "none"
     \/ environment.BLITZAR_BACKEND \notin {"unset", "cpu", "gpu"}
     \/ ChosenBackend(config) = "gpu" /\ (~environment.supported \/ environment.devices = 0)
  THEN Aborted
  ELSE IF ChosenBackend(config) \in {"cpu", "gpu"} THEN Returned(<<>>)
  ELSE Failed

sxt_init(config) ==
  LET result == InitResult(config) IN
  /\ IF result.outcome = "returned"
     THEN /\ backend' = ChosenBackend(config)
          /\ InitPrecomputedComponents(config.num_precomputed_generators,
                                       ChosenBackend(config) = "gpu")
     ELSE UNCHANGED <<backend, cacheVars>>
  /\ Answer(config, result)
  /\ UNCHANGED <<environment, handle, file, proof>>

(* Leaves the tables of generators as they are *)
reset_backend_for_testing(call) ==
  /\ backend' = "none"
  /\ Answer(call, Returned(<<>>))
  /\ UNCHANGED <<environment, handle, file, proof, cacheVars>>

-----------------------------------------------------------------------------
(* Calls that change nothing: generators, commitments and sums *)

generators_of(n, offset) == get_precomputed_generators(precomputed_generators_v, n, offset, use_gpu)

GetGeneratorsResult(call) ==
  WithBackend(IF call.n = 0 THEN Returned(<<>>)
              ELSE IF call.null = "generators" THEN Failed
              ELSE Returned(generators_of(call.n, call.offset)))

GetOneCommitResult(call) ==
  WithBackend(IF call.null = "one_commit" THEN Aborted
              ELSE Returned(<<get_precomputed_one_commit(call.n)>>))

Times(k, x) == [g \in DOMAIN x |-> k * x[g]]

(* What a multiexponentiation returns: see HostMultiexp and AsyncMultiexp *)
Product(exponents, points) ==
  SumFrom(1, Len(exponents), LAMBDA i : Times(exponents[i], points[i]))

Points(numbers) == [i \in 1 .. Len(numbers) |-> Generator(numbers[i])]

(***************************************************************************)
(* process_compute_pedersen_commitments.  Only for curve25519 null         *)
(* generators stand for those of the tables, and nothing is asked of a     *)
(* call without sequences.  populate_exponent_sequence checks these.       *)
(***************************************************************************)
PedersenResult(call) ==
  LET sequences == call.sequences
      num_generators == Longest(Len(sequences), LAMBDA i : Len(sequences[i].exponents))
      span == IF call.null = "generators" THEN generators_of(num_generators, call.offset)
              ELSE SubSeq(Points(call.generators), 1, num_generators)
  IN  IF sequences = <<>> THEN Returned(<<>>)
      ELSE IF \/ call.null \in {"commitments", "descriptors"}
              \/ call.null = "data" /\ num_generators > 0
              \/ call.null = "generators" /\ call.curve # "curve25519"
              \/ \E i \in 1 .. Len(sequences) :
                   sequences[i].element_nbytes \notin 1 .. MaxElementBytes
           THEN Aborted
      ELSE WithBackend(Returned([i \in 1 .. Len(sequences) |->
                                   Product(sequences[i].exponents, span)]))

(***************************************************************************)
(* prove_sumcheck.  prove_sum takes the sizes of the spans it is given     *)
(* apart again: the rounds, the length of a polynomial and the number of   *)
(* MLEs.  It asserts what it needs of them, and n * num_mles is unsigned.  *)
(***************************************************************************)
SumcheckResult(call) ==
  LET num_variables == AtLeast(1, CeilLog2(call.n))
      polynomials == (call.round_degree + 1) * num_variables
      mles == (call.n * call.num_mles) % 2 ^ UnsignedBits
      polynomial_length == polynomials \div num_variables
      num_mles == mles \div call.n
  IN  WithBackend(IF \/ call.field \notin {"scalar25519", "grumpkin"}
                     \/ call.n = 0 \/ polynomial_length < 2 \/ mles # call.n * num_mles
                  THEN Aborted
                  ELSE Returned(<<num_variables, polynomial_length, num_mles>>))

CallWithoutEffect(call) ==
  /\ \/ call.operation = "get_generators" /\ Answer(call, GetGeneratorsResult(call))
     \/ call.operation = "get_one_commit" /\ Answer(call, GetOneCommitResult(call))
     \/ call.operation = "pedersen" /\ Answer(call, PedersenResult(call))
     \/ call.operation = "prove_sumcheck" /\ Answer(call, SumcheckResult(call))
  /\ UNCHANGED <<environment, backend, handle, file, proof, cacheVars>>

-----------------------------------------------------------------------------
(* Inner product proofs *)

(***************************************************************************)
(* A proof is for the generators, the point Q and the vector b it was made *)
(* with, and for one value of <a, G> + <a, b> Q.  That a verifier accepts  *)
(* it for these, and but for luck for nothing else, is InnerProduct's.     *)
(***************************************************************************)
InnerProductBase(n, offset) ==
  LET np == 2 ^ CeilLog2(n)
      span == generators_of(np + 1, offset)
  IN  [g_vector |-> SubSeq(span, 1, np), q_value |-> span[np + 1]]

Dot(a, b) == Total(1 .. Len(a), LAMBDA i : a[i] * b[i])

Statement(a_commit, product, base) == Plus(a_commit, Times(product, base.q_value))

(* check_prove_inner_product_input and check_verify_inner_product_input: a *)
(* proof for one element has no points                                     *)
InputsMissing(call, n, needed) ==
  call.null \in needed \/ n = 0 \/ (n # 1 /\ call.null \in {"l_vector", "r_vector"})

prove_inner_product(call) ==
  LET n == Len(call.a_vector)
      base == InnerProductBase(n, call.offset)
      result == IF InputsMissing(call, n, {"transcript", "ap_value", "b_vector", "a_vector"})
                THEN Aborted ELSE WithBackend(Returned(<<>>))
  IN  /\ Answer(call, result)
      /\ proof' = IF result.outcome = "aborted" THEN proof
                  ELSE [base |-> base, b_vector |-> call.b_vector,
                        statement |-> Statement(Product(call.a_vector, base.g_vector),
                                                Dot(call.a_vector, call.b_vector), base),
                        of |-> call]
      /\ UNCHANGED <<environment, backend, handle, file, cacheVars>>

VerifyResult(call) ==
  LET n == Len(call.b_vector)
      base == InnerProductBase(n, call.offset)
  IN  IF InputsMissing(call, n, {"transcript", "ap_value", "product", "a_commit", "b_vector"})
      THEN Aborted
      ELSE WithBackend(Returned(<<
             /\ proof.base = base /\ proof.b_vector = call.b_vector
             /\ proof.statement = Statement(call.a_commit, call.product, base)>>))

(* The vector of the proof, the commitment to the other one, and a product *)
(* that may be wrong                                                       *)
verify_inner_product(call) ==
  /\ proof # None
  /\ LET a == proof.of.a_vector IN
       AnswerAbout(proof.of, call, VerifyResult(
         [null |-> call.null, offset |-> call.offset, b_vector |-> proof.of.b_vector,
          product |-> Dot(a, proof.of.b_vector) + call.error,
          a_commit |-> SumFrom(1, Len(a), LAMBDA i :
                         Times(a[i], Generator(proof.of.offset + i - 1)))]))
  /\ UNCHANGED <<environment, backend, handle, file, proof, cacheVars>>

-----------------------------------------------------------------------------
(* Handles: window_width and table are those of the accessor; the points   *)
(* it was made of are remembered for the properties                        *)

Bit(x, i) == (x \div 2 ^ i) % 2

(* make_in_memory_partition_table_accessor: for every group of             *)
(* window_width points, the last filled up, the sums of its subsets        *)
PartitionTable(points, window_width) ==
  LET size == 2 ^ window_width
      Point(i) == IF i < Len(points) THEN points[i + 1] ELSE Zero
      Entry(group, mask) ==
        SumFrom(0, window_width - 1,
                LAMBDA j : Times(Bit(mask, j), Point(group * window_width + j)))
  IN  [e \in 1 .. DivideUp(Len(points), window_width) * size |->
         Entry((e - 1) \div size, (e - 1) % size)]

Curves == {"curve25519", "bls12_381", "bn254", "grumpkin"}

HandleOperation(call, result, new_handle) ==
  /\ Answer(call, result)
  /\ handle' = IF result.outcome = "returned" THEN new_handle ELSE handle
  /\ UNCHANGED <<environment, backend, proof, cacheVars>>

(* The width is that of the environment, 0 if it cannot be used. *)
sxt_multiexp_handle_new(call) ==
  /\ handle = None /\ UNCHANGED file
  /\ HandleOperation(call,
       WithBackend(IF call.curve \notin Curves \/ environment.window_width = 0
                   THEN Aborted ELSE Returned(<<>>)),
       [window_width |-> environment.window_width, points |-> Points(call.generators),
        table |-> PartitionTable(Points(call.generators), environment.window_width)])

(***************************************************************************)
(* BugWidthOfEnvironment, as every definition named Bug..., is a slip one  *)
(* could make in what follows it, to show that the properties notice.      *)
(***************************************************************************)
BugWidthOfEnvironment(call) ==
  /\ handle = None /\ UNCHANGED file
  /\ HandleOperation(call, WithBackend(IF file = None THEN Aborted ELSE Returned(<<>>)),
       [window_width |-> environment.window_width, points |-> file.points, table |-> file.table])

(* The width and the table as they are in the file, which is for the curve *)
sxt_multiexp_handle_new_from_file(call) ==
  /\ handle = None /\ UNCHANGED file
  /\ HandleOperation(call, WithBackend(IF file = None THEN Aborted ELSE Returned(<<>>)), file)

sxt_multiexp_handle_write_to_file(call) ==
  /\ handle # None
  /\ HandleOperation(call, WithBackend(Returned(<<>>)), handle)
  /\ file' = IF backend = "none" THEN file ELSE handle

sxt_multiexp_handle_free(call) ==
  /\ handle # None /\ UNCHANGED file
  /\ HandleOperation(call, Returned(<<>>), None)

-----------------------------------------------------------------------------
(***************************************************************************)
(* Multiexponentiations with a handle.  Every generator has a row of       *)
(* scalars, whole bytes with the bits of all outputs; for "fixed" the      *)
(* outputs have the same number of whole bytes.  A call gives the widths   *)
(* of the outputs in bits and their lengths, the same but for "vlen".      *)
(***************************************************************************)
NumOutputs(call) == Len(call.widths)

BitsUpTo(call, o) == Total(1 .. o, LAMBDA i : call.widths[i])

RowBytes(call) == DivideUp(BitsUpTo(call, NumOutputs(call)), ByteBits)

LongestOutput(call) == Longest(NumOutputs(call), LAMBDA o : call.lengths[o])

ScalarBit(call, row, bit) ==
  Bit(call.scalars[row * RowBytes(call) + bit \div ByteBits + 1], bit % ByteBits)

(* The span of scalars, in bytes: a product of unsigned numbers, for "vlen" *)
(* (make_scalars_span) one of size_t                                        *)
SpanBytes(call) ==
  LET bytes == RowBytes(call) * LongestOutput(call)
  IN  IF call.operation = "vlen" THEN bytes ELSE bytes % 2 ^ UnsignedBits

Rows(call) == SpanBytes(call) \div RowBytes(call)

(* What partition_product and combine_reduce come to (see FixedMultiexp):  *)
(* one bit of the scalars of a group selects an entry of the group's table *)
OutputProduct(call, o) ==
  LET width == handle.window_width
      rows == IF call.operation = "vlen" THEN call.lengths[o] ELSE Rows(call)
      Index(group, bit) ==
        Total(group * width .. AtMost(rows, (group + 1) * width) - 1,
              LAMBDA row : ScalarBit(call, row, bit) * 2 ^ (row - group * width))
      Entry(group, bit) == handle.table[group * 2 ^ width + Index(group, bit) + 1]
      products == [bit \in BitsUpTo(call, o - 1) .. BitsUpTo(call, o) - 1 |->
                     SumFrom(0, DivideUp(rows, width) - 1, LAMBDA group : Entry(group, bit))]
  IN  Horner(products, BitsUpTo(call, o - 1), BitsUpTo(call, o) - 1)

(* Asserted are positive widths and ascending lengths, for "vlen", and a   *)
(* table with as many groups; without rows combine_reduce divides by zero. *)
FixedResult(call) ==
  IF \/ /\ call.operation = "vlen"
        /\ \E o \in 1 .. NumOutputs(call) :
             call.widths[o] = 0 \/ (o > 1 /\ call.lengths[o] < call.lengths[o - 1])
     \/ DivideUp(Rows(call), handle.window_width) * 2 ^ handle.window_width > Len(handle.table)
     \/ use_gpu /\ Rows(call) = 0
  THEN Aborted
  ELSE Returned([o \in 1 .. NumOutputs(call) |-> OutputProduct(call, o)])

fixed_multiexponentiation(call) ==
  /\ handle # None
  /\ AnswerAbout(handle.points, call, WithBackend(FixedResult(call)))
  /\ UNCHANGED <<environment, backend, handle, file, proof, cacheVars>>

-----------------------------------------------------------------------------
(* Processes *)

NoReply == [call |-> [operation |-> "none"], result |-> Returned(<<>>), about |-> None]

InterfaceIdle ==
  /\ environment = None /\ backend = "none" /\ CachesEmpty
  /\ handle = None /\ file = None /\ proof = None /\ reply = NoReply

(* A process starts, after the last one has ended or was ended. *)
StartProcess ==
  /\ environment' \in Environments
  /\ backend' = "none" /\ handle' = None /\ reply' = NoReply
  /\ precomputed_generators_v' = <<>> /\ precomputed_one_commitments_v' = <<>>
  /\ UNCHANGED <<file, proof>>

InterfaceCall(call) ==
  \/ call.operation = "init" /\ sxt_init(call)
  \/ call.operation = "reset" /\ reset_backend_for_testing(call)
  \/ CallWithoutEffect(call)
  \/ call.operation = "prove" /\ prove_inner_product(call)
  \/ call.operation = "verify" /\ verify_inner_product(call)
  \/ call.operation = "new" /\ sxt_multiexp_handle_new(call)
  \/ call.operation = "new_from_file" /\ sxt_multiexp_handle_new_from_file(call)
  \/ call.operation = "write" /\ sxt_multiexp_handle_write_to_file(call)
  \/ call.operation = "free" /\ sxt_multiexp_handle_free(call)
  \/ call.operation \in {"fixed", "packed", "vlen"} /\ fixed_multiexponentiation(call)

InterfaceNext ==
  \/ StartProcess
  \/ environment # None /\ Alive /\ \E call \in Calls : InterfaceCall(call)

InterfaceSpec == InterfaceIdle /\ [][InterfaceNext]_interfaceVars

-----------------------------------------------------------------------------
(* Properties *)

(* The integer in the bits of an output in a row of scalars *)
Scalar(call, row, o) ==
  Total(0 .. call.widths[o] - 1,
        LAMBDA b : ScalarBit(call, row, BitsUpTo(call, o - 1) + b) * 2 ^ b)

Promised(call, about) ==
  CASE call.operation = "get_generators" ->
         IF call.n > 0 /\ call.null = "generators" THEN Failed
         ELSE Returned([i \in 1 .. call.n |-> Generator(call.offset + i - 1)])
    [] call.operation = "get_one_commit" -> Returned(<<SumFrom(0, call.n - 1, Generator)>>)
    [] call.operation = "pedersen" ->
         LET g(j) == Generator(IF call.null = "generators" THEN call.offset + j - 1
                               ELSE call.generators[j])
         IN  Returned([i \in 1 .. Len(call.sequences) |->
               LET a == call.sequences[i].exponents
               IN  SumFrom(1, Len(a), LAMBDA j : Times(a[j], g(j)))])
    [] call.operation = "prove_sumcheck" ->
         Returned(<<AtLeast(1, CeilLog2(call.n)), call.round_degree + 1, call.num_mles>>)
    [] call.operation = "verify" -> Returned(<<call.error = 0 /\ call.offset = about.offset>>)
    [] call.operation \in {"fixed", "packed", "vlen"} ->
         Returned([o \in 1 .. NumOutputs(call) |->
           SumFrom(0, call.lengths[o] - 1,
                   LAMBDA row : Times(Scalar(call, row, o), about[row + 1]))])

(***************************************************************************)
(* Arguments for which a result is promised.  Not among them: a null       *)
(* one_commit, which the header gives an error code and the code aborts;   *)
(* empty outputs of varying lengths, which are a finding about the host.   *)
(***************************************************************************)
HasPromise(call, about) ==
  CASE call.operation = "get_generators" -> TRUE
    [] call.operation = "get_one_commit" -> call.null = "nothing"
    [] call.operation = "pedersen" ->
         /\ call.null = "nothing" \/ (call.null = "generators" /\ call.curve = "curve25519")
         /\ \A i \in 1 .. Len(call.sequences) :
              call.sequences[i].element_nbytes \in 1 .. MaxElementBytes
    [] call.operation = "prove_sumcheck" ->
         call.n > 0 /\ call.round_degree > 0 /\ call.field \in {"scalar25519", "grumpkin"}
    [] call.operation = "verify" -> call.null = "nothing"
    [] call.operation \in {"fixed", "packed", "vlen"} ->
         /\ LongestOutput(call) <= Len(about)
         /\ \A o \in 1 .. NumOutputs(call) :
              /\ call.widths[o] > 0 /\ call.lengths[o] > 0
              /\ o > 1 => call.lengths[o - 1] <= call.lengths[o]
    [] OTHER -> FALSE

(***************************************************************************)
(* What blitzar_api.h promises of a call holds for either backend, however *)
(* many generators are in the tables, however they got there, and whatever *)
(* was called before, in this process or in one that has ended: a proof is *)
(* accepted, a handle is as good as the one that was written to the file,  *)
(* by a process with another backend, other tables or another width.       *)
(***************************************************************************)
CallsAnswered ==
  backend # "none" /\ HasPromise(reply.call, reply.about) =>
    reply.result = Promised(reply.call, reply.about)

(***************************************************************************)
(* The same for the multiexponentiations with equal lengths: "`scalars`    *)
(* specifies a contiguous multi-dimension `num_outputs` by `n` array", all *)
(* of which the results are to be computed from, however large it is.      *)
(***************************************************************************)
WholeArraysUsed == reply.call.operation \in {"fixed", "packed"} => CallsAnswered
===============================================================================
