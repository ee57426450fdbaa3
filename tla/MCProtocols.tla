----------------------------- MODULE MCProtocols ------------------------------
(* Model-checking instances of the two protocols, InnerProduct and         *)
(* SumcheckProtocol, of the transcripts whose challenges they take for     *)
(* granted, and of the interface they are called through: a behaviour is   *)
(* one proof and its verification, what two parties do with their          *)
(* transcripts, or the calls of processes that run one after the other.    *)
EXTENDS SumcheckProtocol, InnerProduct, Transcript

CONSTANT UnsignedBits  \* of the interface

-----------------------------------------------------------------------------
(* Transcripts *)

(* Bytes that look like lengths, flags or padding; one label begins with   *)
(* the other                                                               *)
MCStrobeLabel == <<1>>
MCLabels == {<<2>>, <<2, 1>>}
MCMessages == {<<>>, <<4>>, <<1, 18>>}

-----------------------------------------------------------------------------
(* Sums, over a field of three elements *)

Arrays(size, values) == [0 .. size - 1 -> values]

(***************************************************************************)
(* One evaluation of one MLE, squared; three evaluations of two MLEs, in a *)
(* sum of a product and a single term with another multiplier; and five    *)
(* evaluations, hence three rounds, with polynomials longer than needed.   *)
(***************************************************************************)
MCSumProblems ==
  {[n |-> 1, mles |-> m, products |-> <<[mult |-> 1, terms |-> <<0, 0>>]>>, length |-> 3] :
     m \in Arrays(1, 0 .. 2)}
  \cup
  {[n |-> 3, mles |-> m,
    products |-> <<[mult |-> 2, terms |-> <<0, 1>>], [mult |-> 1, terms |-> <<1>>]>>,
    length |-> 3] : m \in Arrays(6, {1, 2})}
  \cup
  {[n |-> 5, mles |-> m, products |-> <<[mult |-> 2, terms |-> <<0>>]>>, length |-> 2] :
     m \in Arrays(5, {1, 2})}

(***************************************************************************)
(* The CPU or a single GPU from the start; chunks of one index; two chunks *)
(* in every round, until the workspace has at most 2 elements.             *)
(***************************************************************************)
MCSumDrivers ==
  {[chunked |-> FALSE, cutoff |-> 0, options |-> <<>>],
   [chunked |-> TRUE, cutoff |-> 0, options |-> [min |-> 1, max |-> 1, factor |-> 1]],
   [chunked |-> TRUE, cutoff |-> 2, options |-> [min |-> 1, max |-> 3, factor |-> 1]]}

ASSUME MCSumcheckAssumption == SumcheckAssumption

-----------------------------------------------------------------------------
(* Inner products, over a field of seven *)

(***************************************************************************)
(* Lengths 1 to 4 with all vectors of two values, of which zero is one for *)
(* the shorter ones; and length 5, which takes three rounds.               *)
(***************************************************************************)
MCInnerProblems ==
  UNION {[a : [1 .. n -> {0, 3}], b : [1 .. n -> {1, 5}]] : n \in {1, 2}}
  \cup [a : [1 .. 3 -> {2, 3}], b : {<<1, 5, 1>>, <<4, 0, 6>>}]
  \cup [a : {<<1, 2, 3, 4>>, <<0, 6, 0, 5>>}, b : {<<6, 5, 4, 3>>, <<1, 0, 1, 1>>}]
  \cup {[a |-> <<1, 2, 3, 4, 5>>, b |-> <<6, 0, 5, 4, 2>>]}

ASSUME MCInnerProductAssumption == InnerProductAssumption

-----------------------------------------------------------------------------
(* Calls of the C interface *)

(* Either backend can be had, forced or refused; widths 1 to 3, and none *)
MCEnvironments ==
  {[BLITZAR_BACKEND |-> "unset", supported |-> TRUE, devices |-> 1, window_width |-> 2],
   [BLITZAR_BACKEND |-> "cpu", supported |-> FALSE, devices |-> 0, window_width |-> 3],
   [BLITZAR_BACKEND |-> "gpu", supported |-> TRUE, devices |-> 2, window_width |-> 1],
   [BLITZAR_BACKEND |-> "unset", supported |-> TRUE, devices |-> 0, window_width |-> 0],
   [BLITZAR_BACKEND |-> "gpu", supported |-> FALSE, devices |-> 1, window_width |-> 2],
   [BLITZAR_BACKEND |-> "other", supported |-> TRUE, devices |-> 1, window_width |-> 2]}

MCSetupCalls ==
  [operation : {"init"}, null : {"nothing"}, backend : {"cpu", "gpu", "other"},
   num_precomputed_generators : {0, 2, 5}]
  \cup {[operation |-> "init", null |-> "config"]}
  \cup [operation : {"reset", "write", "free", "new_from_file"}]
  \cup [operation : {"new"}, curve : {"bn254", "other"}, generators : {<<1, 4, 2, 0, 6>>}]

(* Inside the tables, across their end and behind it *)
MCGeneratorCalls ==
  {[operation |-> "get_generators", n |-> r[1], offset |-> r[2], null |-> "nothing"] :
     r \in {<<0, 0>>, <<1, 1>>, <<3, 0>>, <<3, 1>>, <<2, 5>>, <<6, 1>>}}
  \cup [operation : {"get_generators"}, n : {0, 3}, offset : {0}, null : {"generators"}]
  \cup [operation : {"get_one_commit"}, n : {0, 1, 2, 4, 5, 6}, null : {"nothing"}]
  \cup [operation : {"get_one_commit"}, n : {1}, null : {"one_commit"}]

MCPedersen(curve, null, offset, sequences) ==
  [operation |-> "pedersen", curve |-> curve, null |-> null, offset |-> offset,
   generators |-> <<6, 3, 0>>, sequences |-> sequences]

MCPedersenCalls ==
  LET Exponents(nbytes, e) == [element_nbytes |-> nbytes, exponents |-> e]
      two == <<Exponents(1, <<2, -1>>), Exponents(2, <<1, 0, 3>>)>>
  IN  {MCPedersen("curve25519", "generators", offset, two) : offset \in {0, 1, 4}}
      \cup {MCPedersen(curve, null, 0, s) :
              curve \in {"curve25519", "grumpkin"},
              null \in {"nothing", "generators", "data"},
              s \in {<<>>, two, <<Exponents(1, <<>>)>>}}
      \cup {MCPedersen("bls12_381", "nothing", 0, <<Exponents(nbytes, <<1>>)>>) :
              nbytes \in {0, 2, 3}}

MCProofCalls ==
  {[operation |-> "prove", null |-> "nothing", offset |-> 1,
    a_vector |-> <<1, 3, 2>>, b_vector |-> <<2, 1, 4>>],
   [operation |-> "prove", null |-> "l_vector", offset |-> 0,
    a_vector |-> <<2>>, b_vector |-> <<5>>],
   [operation |-> "prove", null |-> "nothing", offset |-> 0, a_vector |-> <<>>, b_vector |-> <<>>]}
  \cup [operation : {"verify"}, null : {"nothing", "l_vector"}, offset : {0, 1}, error : {0, 1}]
  \cup [operation : {"prove_sumcheck"}, field : {"scalar25519", "other"}, n : {0, 1, 3, 4},
        num_mles : {2}, round_degree : {0, 2}]

(* Outputs of one and two bytes of two bits, packed ones, and lengths up   *)
(* to more than there are generators                                       *)
MCFixed(operation, widths, lengths, k) ==
  [operation |-> operation, widths |-> widths, lengths |-> lengths,
   scalars |-> [i \in 1 .. 2 * lengths[Len(lengths)] |-> (k * i + i \div 3) % 4]]

MCFixedCalls ==
  {MCFixed("fixed", w, [o \in 1 .. Len(w) |-> n], 1) : w \in {<<4>>, <<2, 2>>}, n \in {1, 4, 5, 7}}
  \cup {MCFixed("packed", <<1, 2>>, <<n, n>>, 3) : n \in {2, 5}}
  \cup {MCFixed("vlen", w, l, 3) : w \in {<<2, 1>>, <<0, 3>>}, l \in {<<1, 4>>, <<3, 2>>, <<3, 5>>}}

VARIABLES environment, backend, handle, file, inner, reply,
          precomputed_generators_v, precomputed_one_commitments_v

interfaceVars == <<environment, backend, handle, file, inner, reply,
                   precomputed_generators_v, precomputed_one_commitments_v>>

Interface == INSTANCE CInterface WITH
  NumGens <- 8, ByteBits <- 2, GeneratorBlock <- 2, MaxElementBytes <- 2,
  Environments <- MCEnvironments, proof <- inner,
  Calls <- MCSetupCalls \cup MCGeneratorCalls \cup MCPedersenCalls \cup MCProofCalls
             \cup MCFixedCalls

ASSUME MCInterfaceAssumption == Interface!GeneratorAssumption

(* The properties of the interface, as CInterface states them *)
CallsAnswered == Interface!CallsAnswered
WholeArraysUsed == Interface!WholeArraysUsed

-----------------------------------------------------------------------------

MCInit == Init /\ TranscriptsIdle /\ InnerInit /\ Interface!InterfaceIdle

MCNext ==
  \/ /\ TranscriptsIdle /\ InnerInit /\ Interface!InterfaceIdle
     /\ Next /\ UNCHANGED <<transcriptVars, innerVars, interfaceVars>>
  \/ /\ problem = None /\ InnerInit /\ Interface!InterfaceIdle
     /\ TranscriptNext /\ UNCHANGED <<vars, innerVars, interfaceVars>>
  \/ /\ problem = None /\ TranscriptsIdle /\ Interface!InterfaceIdle
     /\ InnerNext /\ UNCHANGED <<vars, transcriptVars, interfaceVars>>
  \/ /\ problem = None /\ TranscriptsIdle /\ InnerInit
     /\ Interface!InterfaceNext /\ UNCHANGED <<vars, transcriptVars, innerVars>>

MCSpec == MCInit /\ [][MCNext]_<<vars, transcriptVars, innerVars, interfaceVars>>
===============================================================================
