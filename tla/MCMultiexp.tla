------------------------------ MODULE MCMultiexp -------------------------------
(* Instances of the multiexponentiations for TLC, and of the reductions by *)
(* which they and sumcheck proofs add up: one call of one of them, or some *)
(* operations of the fields and curves they compute with, or some copies   *)
(* of host data to the device                                              *)
EXTENDS FixedMultiexp, AsyncMultiexp, MCThreadReduction, MCArithmetic, ToDeviceCopier

(* Bytes of two bits that differ from each other, in a way k changes *)
Bytes(count, k) == [b \in 1 .. count |-> (k * b + b \div 3 + k \div 4) % 4]

-----------------------------------------------------------------------------
(* Calls of fixed generators *)

OutputWidths == {<<1>>, <<3>>, <<2, 2>>, <<1, 2>>, <<2, 1, 3>>}

OutputLengths(kind, outputs) ==
  IF kind = "same" THEN {[o \in 1 .. outputs |-> n] : n \in 1 .. NumGens}
  ELSE {l \in [1 .. outputs -> 0 .. NumGens] :
          l[outputs] > 0 /\ \A o \in 2 .. outputs : l[o - 1] <= l[o]}

WithScalars(kind, where, widths, lengths, k) ==
  LET row == DivideUp(Total(DOMAIN widths, LAMBDA o : widths[o]), ByteBits)
  IN  [kind |-> kind, where |-> where, widths |-> widths, lengths |-> lengths,
       scalars |-> Bytes(row * lengths[Len(lengths)], k)]

MCFixedCalls ==
  UNION {UNION {UNION {
    {WithScalars(kind, where, w, l, k) : l \in OutputLengths(kind, Len(w)), k \in {1, 3, 6}}
      : kind \in {"same", "vlen"}} : where \in {"gpu", "host"}} : w \in OutputWidths}
  \union {[kind |-> "same", where |-> "gpu", widths |-> <<>>, lengths |-> <<>>, scalars |-> <<>>]}

MCProductSplit == [min_chunk_size |-> 1, max_chunk_size |-> 2, split_factor |-> 2]
MCReductionSplit == [min_chunk_size |-> 1, max_chunk_size |-> 1024, split_factor |-> 2]

-----------------------------------------------------------------------------
(* Calls of any generators *)

Exponents(n, bytes, signed, k) ==
  [n |-> n, element_nbytes |-> bytes, is_signed |-> signed, data |-> Bytes(n * bytes, k)]

MCAsyncCalls ==
  {<<>>}
  \* equal lengths of whole elements: the bucket methods, or too short for them
  \union {[o \in 1 .. outputs |-> Exponents(n, ElementBytes, FALSE, k + o)] :
            outputs \in 1 .. 3, n \in 1 .. NumGens, k \in 1 .. 2}
  \* anything else
  \union {<<Exponents(n, 1, signed, k), Exponents(m, bytes, FALSE, 3)>> :
            n \in 0 .. NumGens, m \in {2, NumGens}, bytes \in 1 .. 2, signed \in BOOLEAN,
            k \in {0, 2, 3}}

-----------------------------------------------------------------------------
(* Calls on the host, which have generators of their own: all exponents of *)
(* three and two bytes, and longer ones, among them some with enough terms *)
(* that several outputs have in common to be partitioned first.            *)
HostGens == 20

MCHostCalls ==
  LET Given(signed, data) ==
        [n |-> Len(data), element_nbytes |-> 1, is_signed |-> signed, data |-> data]
  IN  {<<Given(signed, d), Given(FALSE, e)>> :
         signed \in BOOLEAN, d \in [1 .. 3 -> 0 .. 3], e \in [1 .. 2 -> 0 .. 3]}
      \union {<<Exponents(n, bytes, signed, k), Exponents(m, 1, FALSE, 2)>> :
                n \in {0, 8, 14}, m \in {4, 14}, bytes \in 1 .. 2, signed \in BOOLEAN, k \in 1 .. 3}
      \union {<<Exponents(n, 1, signed, k), Exponents(m, 1, FALSE, j), Exponents(m, 1, TRUE, j + 4)>> :
                n \in {18, 20}, m \in {17, 20}, signed \in BOOLEAN, k \in 1 .. 3, j \in {2, 3}}

VARIABLE host

Host == INSTANCE HostMultiexp WITH NumGens <- HostGens, HostCalls <- MCHostCalls

(* compute_multiexponentiation on the host returns the products of its     *)
(* exponents, as HostMultiexp states it.                                   *)
HostCorrect == Host!HostCorrect

-----------------------------------------------------------------------------
(* A call that has returned stays so, and so do copiers that have all they *)
(* were made for: any other state without a successor would be a deadlock. *)
Init == FixedIdle /\ AsyncIdle /\ Host!HostIdle /\ ReductionIdle /\ ArithmeticInit /\ CopyInit

(* There are no copiers but those of nothing. *)
NoCopies == \A c \in Copiers : size[c] = 0

CopiesMade == ~NoCopies /\ \A c \in Copiers : pc[c] = "idle" /\ left[c] = 0

FixedAlone == AsyncIdle /\ Host!HostIdle /\ ReductionIdle /\ ArithmeticIdle /\ NoCopies
AsyncAlone == FixedIdle /\ Host!HostIdle /\ ReductionIdle /\ ArithmeticIdle /\ NoCopies
HostAlone == FixedIdle /\ AsyncIdle /\ ReductionIdle /\ ArithmeticIdle /\ NoCopies
ReductionAlone == FixedIdle /\ AsyncIdle /\ Host!HostIdle /\ ArithmeticIdle /\ NoCopies
ArithmeticAlone == FixedIdle /\ AsyncIdle /\ Host!HostIdle /\ ReductionIdle /\ NoCopies

Next ==
  \/ /\ FixedAlone
     /\ FixedChunkStep \/ (FixedIdle /\ \E fixedCall \in FixedCalls : FixedCall(fixedCall))
     /\ UNCHANGED <<asyncVars, host, reductionVars, arithmeticVars, copyVars>>
  \/ /\ AsyncAlone
     /\ AsyncStep \/ (AsyncIdle /\ \E exponents \in AsyncCalls : AsyncCall(exponents))
     /\ UNCHANGED <<fixedVars, host, reductionVars, arithmeticVars, copyVars>>
  \/ /\ HostAlone /\ Host!HostNext
     /\ UNCHANGED <<fixedVars, asyncVars, reductionVars, arithmeticVars, copyVars>>
  \/ /\ ReductionAlone
     /\ ReductionStep \/ (ReductionIdle /\ \E reduction \in Reductions : BeginReduction(reduction))
     /\ UNCHANGED <<fixedVars, asyncVars, host, arithmeticVars, copyVars>>
  \/ /\ ArithmeticAlone /\ ArithmeticStep
     /\ UNCHANGED <<fixedVars, asyncVars, host, reductionVars, copyVars>>
  \/ /\ CopyNext
     /\ UNCHANGED <<fixedVars, asyncVars, host, reductionVars, arithmeticVars>>
  \/ /\ FixedReturned \/ AsyncReturned \/ Host!HostReturned \/ ReductionReturned \/ CopiesMade
     /\ UNCHANGED <<fixedVars, asyncVars, host, reductionVars, arithmeticVars, copyVars>>

Spec ==
  /\ Init
  /\ [][Next]_<<fixedVars, asyncVars, host, reductionVars, arithmeticVars, copyVars>>
  /\ CopyFairness
===============================================================================
