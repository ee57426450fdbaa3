------------------------------ MODULE HostMultiexp -----------------------------
(***************************************************************************)
(* compute_multiexponentiation on the host: the exponents' bits make a     *)
(* multiproduct (sxt/multiexp/pippenger), its outputs are combined         *)
(* (sxt/multiexp/curve).  The radix is as long as the largest exponent, so *)
(* that an exponent has one digit, which is the exponent.                  *)
(***************************************************************************)
EXTENDS BitProducts, Multiproduct

CONSTANT HostCalls  \* the exponents of a call, a sequence of exponent sequences

VARIABLE host  \* the exponents of the call, its products and its result

HostIdle == host = <<>>

-----------------------------------------------------------------------------
(* exponent_aggregates *)

(* A signed sequence has two outputs: its positive and negative terms *)
SignedOutputs(exponents) ==
  FlattenSeq([s \in DOMAIN exponents |->
    LET of(negative) == [sequence |-> exponents[s], is_negative |-> negative]
    IN  IF exponents[s].is_signed THEN <<of(FALSE), of(TRUE)>> ELSE <<of(FALSE)>>])

OutputTerms(output, bit) ==
  {t \in 0 .. output.sequence.n - 1 :
     HasBit(output.sequence, t, bit) /\ IsNegative(output.sequence, t) = output.is_negative}

OutputOrAll(output) ==
  {bit \in 0 .. NumBits(output.sequence) - 1 : OutputTerms(output, bit) # {}}

(* The terms that are not zero in every sequence *)
NonzeroTerms(exponents) ==
  UNION {UNION {OutputTerms(output, bit) : bit \in OutputOrAll(output)}
           : output \in ToSet(SignedOutputs(exponents))}

-----------------------------------------------------------------------------
(* make_multiproduct_table: a row for each bit of an output, with the      *)
(* places of its terms among those that are not zero                       *)
MultiproductTable(exponents) ==
  LET nonzero == NonzeroTerms(exponents)
      outputs == SignedOutputs(exponents)
      rows == FlattenSeq([o \in DOMAIN outputs |->
                LET bits == Ascending(OutputOrAll(outputs[o]))
                IN  [b \in DOMAIN bits |->
                       Ascending({PlaceIn(nonzero, t) : t \in OutputTerms(outputs[o], bits[b])})]])
  IN  [k \in DOMAIN rows |-> Row(k - 1, rows[k])]

(* pippenger_multiproduct_solver: one array with a place for each entry of *)
(* the table, at its start the generators of the nonzero terms             *)
SolverArray(exponents) ==
  LET terms == Ascending(NonzeroTerms(exponents))
      table == MultiproductTable(exponents)
  IN  [k \in 1 .. Total(DOMAIN table, LAMBDA r : Len(table[r].active)) |->
         IF k <= Len(terms) THEN Generator(terms[k]) ELSE Uninitialized]

Solve(exponents) ==
  ComputeMultiproduct(SolverArray(exponents), MultiproductTable(exponents),
                      Cardinality(NonzeroTerms(exponents)))

-----------------------------------------------------------------------------
(* combine_multiproducts *)

(* The products of a signed sequence, from input_index on: those of the    *)
(* bits of pos, then of neg, become those of both.  They are written over  *)
(* the ones they are made of; only those of pos have been put aside.       *)
MergeSigned(products, input_index, pos, neg) ==
  LET negated == [k \in DOMAIN products |->
                    IF k > input_index + Cardinality(pos)
                       /\ k <= input_index + Cardinality(pos) + Cardinality(neg)
                    THEN Minus(products[k]) ELSE products[k]]
      Merged(array, bit) ==
        LET p == products[input_index + PlaceIn(pos, bit) + 1]
            n == array[input_index + Cardinality(pos) + PlaceIn(neg, bit) + 1]
        IN  [array EXCEPT ![input_index + PlaceIn(pos \union neg, bit) + 1] =
               IF bit \in pos \intersect neg THEN Plus(p, n) ELSE IF bit \in pos THEN p ELSE n]
      written == FoldLeft(Merged, negated, Ascending(pos \union neg))
  IN  [k \in 1 .. Cardinality(pos \union neg) |-> written[input_index + k]]

OrAllOf(sequence, negative) ==
  OutputOrAll([sequence |-> sequence, is_negative |-> negative])

HostResult(exponents, products) ==
  LET Count(s) == Cardinality(OrAllOf(exponents[s], FALSE)) + Cardinality(OrAllOf(exponents[s], TRUE))
      InputIndex(s) == Total(1 .. s - 1, Count)
      Result(s) ==
        LET pos == OrAllOf(exponents[s], FALSE)
            neg == OrAllOf(exponents[s], TRUE)
        IN  CombineMultiproducts(pos \union neg,
              IF exponents[s].is_signed THEN MergeSigned(products, InputIndex(s), pos, neg)
              ELSE SubSeq(products, InputIndex(s) + 1, InputIndex(s) + Cardinality(pos)))
  IN  [s \in DOMAIN exponents |-> Result(s)]

-----------------------------------------------------------------------------
HostMultiproduct(exponents) ==
  /\ host = <<>>
  /\ host' = [exponents |-> exponents, products |-> Solve(exponents), res |-> <<>>,
              returned |-> FALSE]

HostCombine ==
  /\ host # <<>> /\ ~ host.returned
  /\ host' = [host EXCEPT !.res = HostResult(host.exponents, host.products), !.returned = TRUE]

HostReturned == host # <<>> /\ host.returned

HostNext == (\E exponents \in HostCalls : HostMultiproduct(exponents)) \/ HostCombine

-----------------------------------------------------------------------------
(* Properties *)

(* The host computes the multiexponentiations, and never writes behind the *)
(* array of the solver, in which inputs, sums of some of them and results  *)
(* replace each other at every level of the recursion: for exponents with  *)
(* inputs in common or not, of several lengths, signed or not.             *)
HostCorrect ==
  /\ host # <<>> => Len(host.products) = Len(SolverArray(host.exponents))
  /\ HostReturned => \A s \in DOMAIN host.exponents :
                       host.res[s] = ExponentSum(host.exponents[s])

===============================================================================
