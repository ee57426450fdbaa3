----------------------------- MODULE InnerProduct -----------------------------
(***************************************************************************)
(* The inner product argument of sxt/proof/inner_product: prove_inner_     *)
(* product and verify_inner_product, each with the CPU or the GPU driver.  *)
(*                                                                         *)
(* In every round the prover commits to the two cross terms of the halves  *)
(* of its vectors, draws a challenge and folds the vectors in half.  The   *)
(* first round reads the caller's vectors and writes the workspace's, the  *)
(* others fold those in place.  Vectors whose length is no power of two    *)
(* are as if they were padded with zeros, the generators are given for the *)
(* full length.                                                            *)
(*                                                                         *)
(* Scalars are the integers modulo a small prime.  A group element is the  *)
(* function of its coefficients with respect to Q and the generators, so   *)
(* that two are equal only if they must be.  Commitments are kept as group *)
(* elements: their encoding is one-to-one.  A challenge is any scalar but  *)
(* 0, the same for both sides as long as both have appended the same.      *)
(***************************************************************************)
EXTENDS IndexRange, Sequences, FiniteSets, FiniteSetsExt, SequencesExt, Functions

CONSTANTS
  Order,            \* the order of the group and of the scalars' field
  MaxBits,          \* s25cn::max_bits_v, the bits of a scalar
  HostRounds,       \* rounds of the exponents computed on the host (5 in the code)
  MinDeviceRounds,  \* rounds from which the GPU computes exponents (6 in the code)
  InnerProblems,    \* arguments of prove_inner_product: [a, b], of the same length
  InnerDrivers      \* a subset of {"cpu", "gpu"}

VARIABLES
  innerProblem,  \* the arguments of prove_inner_product, NotCalled before it is called
  innerDriver,   \* the driver it was given
  innerPc,       \* where prove_inner_product is
  innerWs,       \* the workspace: round_index, a_vector, b_vector and g_vector
  lr,            \* the proof: the l_value and r_value of every round
  xs,            \* the challenges drawn
  ap,            \* ap_value
  innerVerifier  \* verify_inner_product: its arguments and locals

innerProverVars == <<innerProblem, innerDriver, innerPc, innerWs, lr, xs, ap>>
innerVars == <<innerProverVars, innerVerifier>>

NotCalled == <<>>

Scalars == 0 .. Order - 1

-----------------------------------------------------------------------------
(* Vectors, numbered from 0 as in the code *)

Vector(size, value(_)) == [i \in 0 .. size - 1 |-> value(i)]
Size(v) == Cardinality(DOMAIN v)
Subspan(v, first, size) == Vector(size, LAMBDA i : v[first + i])
FromSeq(s) == Vector(Len(s), LAMBDA i : s[i + 1])

NumRounds == CeilLog2(Len(innerProblem.a))
PaddedSize == PowerOf2(NumRounds)

(***************************************************************************)
(* The order is prime, scalars are reduced and have at most MaxBits bits;  *)
(* the host does a round, and fewer than the GPU is used for; the vectors  *)
(* have an element and the same length.                                    *)
(***************************************************************************)
InnerProductAssumption ==
  /\ Order \in Nat /\ Order > 1 /\ \A d \in 2 .. Order - 1 : Order % d # 0
  /\ MaxBits \in Nat /\ Order <= PowerOf2(MaxBits)
  /\ HostRounds \in Nat \ {0} /\ MinDeviceRounds \in Nat /\ MinDeviceRounds > HostRounds
  /\ \A p \in InnerProblems :
       p.a \in Seq(Scalars) /\ p.b \in Seq(Scalars) /\ p.a # <<>> /\ Len(p.a) = Len(p.b)
  /\ InnerDrivers \subseteq {"cpu", "gpu"}

-----------------------------------------------------------------------------
(* Scalars and group elements *)

InverseOf(x) == CHOOSE y \in Scalars : (x * y) % Order = 1

Basis == 0 .. PaddedSize
Plus(g, h) == [k \in Basis |-> (g[k] + h[k]) % Order]
Times(x, g) == [k \in Basis |-> (x * g[k]) % Order]
Identity == [k \in Basis |-> 0]
Q == [k \in Basis |-> IF k = 0 THEN 1 ELSE 0]
Generators == Vector(PaddedSize, LAMBDA i : [k \in Basis |-> IF k = i + 1 THEN 1 ELSE 0])

(* Both take the shorter of their arguments' lengths. *)
ScalarProduct(u, v) ==
  SumFunction(Vector(AtMost(Size(u), Size(v)), LAMBDA i : u[i] * v[i])) % Order
Multiexponentiate(g, x) ==
  [k \in Basis |-> ScalarProduct(x, [i \in DOMAIN g |-> g[i][k]])]

-----------------------------------------------------------------------------
(* Folding (fold.cc and generator_fold.cc) *)

BitOf(x, i) == (x \div PowerOf2(i)) % 2

(***************************************************************************)
(* Definitions named Bug... are slips one could make in the definition     *)
(* that follows them.  No specification uses them; they show that the      *)
(* properties below would notice.                                          *)
(***************************************************************************)
BugUnpairedKept(v, low, high, mid) ==
  Vector(mid, LAMBDA i : IF i < Size(v) - mid THEN (low * v[i] + high * v[mid + i]) % Order ELSE v[i])

(* The pairs, then the elements whose pair is padding. *)
FoldScalars(v, low, high, mid) ==
  Vector(mid, LAMBDA i :
    IF i < Size(v) - mid THEN (low * v[i] + high * v[mid + i]) % Order ELSE (low * v[i]) % Order)

(* For every bit which of the two scalars has it, without leading zeros. *)
Decomposition(low, high) ==
  LET bits == Vector(MaxBits, LAMBDA i : BitOf(low, i) + 2 * BitOf(high, i))
      size == Max({0} \cup {i + 1 : i \in {j \in 0 .. MaxBits - 1 : bits[j] # 0}})
  IN Subspan(bits, 0, size)

(* Doubling and adding from the highest bit: low * gLow + high * gHigh. *)
FoldGenerator(bits, gLow, gHigh) ==
  LET term(d) == IF d = 1 THEN gLow ELSE IF d = 2 THEN gHigh ELSE Plus(gLow, gHigh)
      last == Size(bits) - 1
      from[i \in 0 .. last] ==
        IF i = last THEN term(bits[i])
        ELSE LET doubled == Plus(from[i + 1], from[i + 1])
             IN IF bits[i] = 0 THEN doubled ELSE Plus(doubled, term(bits[i]))
  IN IF Size(bits) = 0 THEN Identity ELSE from[0]

FoldGenerators(g, low, high, mid) ==
  Vector(mid, LAMBDA i : FoldGenerator(Decomposition(low, high), g[i], g[mid + i]))

-----------------------------------------------------------------------------
(* The prover *)

InnerInit ==
  /\ innerProblem = NotCalled
  /\ innerDriver = NotCalled
  /\ innerPc = "idle"
  /\ innerWs = NotCalled
  /\ lr = NotCalled
  /\ xs = NotCalled
  /\ ap = NotCalled
  /\ innerVerifier = NotCalled

(***************************************************************************)
(* prove_inner_product is called: init_transcript; a single element is its *)
(* own proof; otherwise make_workspace, whose vectors have half the size   *)
(* and hold nothing yet.                                                   *)
(***************************************************************************)
ProveInnerProduct(p, d) ==
  /\ innerPc = "idle"
  /\ innerProblem' = p
  /\ innerDriver' = d
  /\ IF Len(p.a) = 1
     THEN /\ ap' = p.a[1]
          /\ innerPc' = "returned"
          /\ UNCHANGED innerWs
     ELSE /\ innerWs' = [round_index |-> 0, a |-> NotCalled, b |-> NotCalled, g |-> NotCalled]
          /\ innerPc' = "commit"
          /\ UNCHANGED ap
  /\ UNCHANGED <<lr, xs, innerVerifier>>

(* The vectors of the round: the caller's in the first one. *)
Input ==
  IF innerWs.round_index = 0
  THEN [a |-> FromSeq(innerProblem.a), b |-> FromSeq(innerProblem.b), g |-> Generators]
  ELSE [a |-> innerWs.a, b |-> innerWs.b, g |-> innerWs.g]

MidOf(v) == Size(v.g) \div 2

BugCommitOwnHalves ==
  /\ innerPc = "commit"
  /\ LET v == Input
         mid == MidOf(v)
         low(u) == Subspan(u, 0, mid)
         high(u) == Subspan(u, mid, Size(u) - mid)
         commit(g, x, y) == Plus(Multiexponentiate(g, x), Times(ScalarProduct(x, y), Q))
     IN lr' = Append(lr, [l |-> commit(high(v.g), low(v.a), low(v.b)),
                          r |-> commit(low(v.g), high(v.a), high(v.b))])
  /\ innerPc' = "challenge"
  /\ UNCHANGED <<innerProblem, innerDriver, innerWs, xs, ap, innerVerifier>>

(* drv.commit_to_fold: the cross terms of the halves, which may be shorter above. *)
CommitToFold ==
  /\ innerPc = "commit"
  /\ LET v == Input
         mid == MidOf(v)
         low(u) == Subspan(u, 0, mid)
         high(u) == Subspan(u, mid, Size(u) - mid)
         commit(g, x, y) == Plus(Multiexponentiate(g, x), Times(ScalarProduct(x, y), Q))
     IN lr' = Append(lr, [l |-> commit(high(v.g), low(v.a), high(v.b)),
                          r |-> commit(low(v.g), high(v.a), low(v.b))])
  /\ innerPc' = "challenge"
  /\ UNCHANGED <<innerProblem, innerDriver, innerWs, xs, ap, innerVerifier>>

(* compute_round_challenge: the transcript has not been asked this before. *)
DrawChallenge(x) ==
  /\ innerPc = "challenge"
  /\ xs' = Append(xs, x)
  /\ innerPc' = "fold"
  /\ UNCHANGED <<innerProblem, innerDriver, innerWs, lr, ap, innerVerifier>>

(***************************************************************************)
(* drv.fold: the CPU driver leaves b and g as they are when a single       *)
(* element is left.  The loop ends when one is.                            *)
(***************************************************************************)
Fold ==
  /\ innerPc = "fold"
  /\ LET v == Input
         mid == MidOf(v)
         x == Last(xs)
         short == innerDriver = "cpu" /\ mid = 1
     IN /\ innerWs' = [round_index |-> innerWs.round_index + 1,
                       a |-> FoldScalars(v.a, x, InverseOf(x), mid),
                       b |-> IF short THEN innerWs.b ELSE FoldScalars(v.b, InverseOf(x), x, mid),
                       g |-> IF short THEN innerWs.g ELSE FoldGenerators(v.g, InverseOf(x), x, mid)]
        /\ innerPc' = IF mid = 1 THEN "finish" ELSE "commit"
  /\ UNCHANGED <<innerProblem, innerDriver, lr, xs, ap, innerVerifier>>

ProveInnerProductReturns ==
  /\ innerPc = "finish"
  /\ ap' = innerWs.a[0]
  /\ innerWs' = NotCalled
  /\ innerDriver' = NotCalled
  /\ innerPc' = "returned"
  /\ UNCHANGED <<innerProblem, lr, xs, innerVerifier>>

-----------------------------------------------------------------------------
(* The verifier *)

(* The a exponents behind the first a are the square times those. *)
DoubledExponents(e, a, square) ==
  [i \in DOMAIN e |-> IF i \in a .. 2 * a - 1 THEN (square * e[i - a]) % Order ELSE e[i]]

BugAscendingSquares(first, sq) ==
  LET size == Size(sq)
      after[k \in 0 .. size] ==
        IF k = 0 THEN Vector(PowerOf2(size), LAMBDA i : IF i = 0 THEN first ELSE 0)
        ELSE DoubledExponents(after[k - 1], PowerOf2(k - 1), sq[k - 1])
  IN after[size]

(***************************************************************************)
(* compute_g_exponents: from the one exponent that is known, every square  *)
(* doubles the number of those that are, the last one first.               *)
(***************************************************************************)
GExponents(first, sq) ==
  LET size == Size(sq)
      after[k \in 0 .. size] ==
        IF k = 0 THEN Vector(PowerOf2(size), LAMBDA i : IF i = 0 THEN first ELSE 0)
        ELSE DoubledExponents(after[k - 1], PowerOf2(k - 1), sq[size - k])
  IN after[size]

(* async_compute_g_exponents_partial: the squares are those of the round round_first and before. *)
GExponentsPartial(g, sq, round_first) ==
  LET size == Size(sq)
      after[k \in 0 .. size] ==
        IF k = 0 THEN g
        ELSE DoubledExponents(after[k - 1], PowerOf2(round_first + k - 2), sq[size - k])
  IN after[size]

(***************************************************************************)
(* On the GPU the host does the last rounds, and the device goes on from   *)
(* there; it does the host's last round again.                             *)
(***************************************************************************)
GExponentsDevice(first, sq) ==
  LET rest == Size(sq) - HostRounds
      host == GExponents(first, Subspan(sq, rest, HostRounds))
      g == Vector(PowerOf2(Size(sq)), LAMBDA i : IF i < Size(host) THEN host[i] ELSE 0)
  IN GExponentsPartial(g, Subspan(sq, 0, rest + 1), HostRounds)

(* compute_lr_exponents_part1: the inverse of the product of all challenges *)
AllInverse(x) ==
  LET allinv[k \in 0 .. Len(x)] ==
        IF k = 0 THEN 1 ELSE (allinv[k - 1] * InverseOf(x[k])) % Order
  IN allinv[Len(x)]

Squares(x) == Vector(Len(x), LAMBDA i : (x[i + 1] * x[i + 1]) % Order)

(* compute_verification_exponents: those of the generators *)
VerificationExponents(d, x, value) ==
  LET first == (AllInverse(x) * value) % Order
  IN IF d = "gpu" /\ Len(x) >= MinDeviceRounds
     THEN GExponentsDevice(first, Squares(x)) ELSE GExponents(first, Squares(x))

(* What a round takes off: the exponents of its l_value and r_value are negated. *)
LrTerm(proof, x, i) ==
  LET inv == InverseOf(x[i])
  IN Plus(Times(-(x[i] * x[i]), proof[i].l), Times(-(inv * inv), proof[i].r))

(* The commitment that the exponents make, of Q, the generators and the proof *)
ExpectedCommitment(d, proof, x, value) ==
  LET g == VerificationExponents(d, x, value)
      sum[k \in 0 .. Len(x)] ==
        IF k = 0
        THEN Plus(Multiexponentiate(Generators, g), Times(ScalarProduct(g, FromSeq(innerProblem.b)), Q))
        ELSE Plus(sum[k - 1], LrTerm(proof, x, k))
  IN sum[Len(x)]

(***************************************************************************)
(* verify_inner_product is called: a proof of the wrong length is not even *)
(* looked at; otherwise init_transcript.                                   *)
(***************************************************************************)
VerifyInnerProduct(d, product, commit, proof, value) ==
  /\ innerPc = "returned"
  /\ innerVerifier = NotCalled
  /\ innerVerifier' = [driver |-> d, product |-> product, commit |-> commit, proof |-> proof,
                       value |-> value, xs |-> <<>>,
                       result |-> IF Len(proof) = NumRounds THEN "running" ELSE "rejected"]
  /\ UNCHANGED innerProverVars

(* What is appended is the prover's, hence so is the challenge. *)
VerifyChallenge ==
  LET k == Len(innerVerifier.xs) IN
  /\ innerVerifier # NotCalled
  /\ innerVerifier.result = "running"
  /\ k < NumRounds
  /\ innerVerifier' = [innerVerifier EXCEPT !.xs = Append(@, xs[k + 1])]
  /\ UNCHANGED innerProverVars

Decide ==
  /\ innerVerifier # NotCalled
  /\ innerVerifier.result = "running"
  /\ Len(innerVerifier.xs) = NumRounds
  /\ LET v == innerVerifier
         given == Plus(Times(v.product, Q), v.commit)
     IN innerVerifier' = [v EXCEPT !.result =
          IF given = ExpectedCommitment(v.driver, v.proof, v.xs, v.value)
          THEN "accepted" ELSE "rejected"]
  /\ UNCHANGED innerProverVars

-----------------------------------------------------------------------------

TrueProduct == ScalarProduct(FromSeq(innerProblem.a), FromSeq(innerProblem.b))
TrueCommit == Multiexponentiate(Generators, FromSeq(innerProblem.a))

(* The verifier gets what is true, or all but one of them is. *)
VerifyCalled ==
  /\ innerPc = "returned"
  /\ \E d \in InnerDrivers :
       \/ \E c \in Scalars : VerifyInnerProduct(d, c, TrueCommit, lr, ap)
       \/ \E i \in 0 .. PaddedSize - 1 :
            VerifyInnerProduct(d, TrueProduct, Plus(TrueCommit, Generators[i]), lr, ap)
       \/ \E c \in Scalars : VerifyInnerProduct(d, TrueProduct, TrueCommit, lr, c)
       \/ lr # <<>> /\ VerifyInnerProduct(d, TrueProduct, TrueCommit, Front(lr), ap)

InnerNext ==
  \/ \E p \in InnerProblems, d \in InnerDrivers : ProveInnerProduct(p, d)
  \/ CommitToFold
  \/ \E x \in Scalars \ {0} : DrawChallenge(x)
  \/ Fold
  \/ ProveInnerProductReturns
  \/ VerifyCalled
  \/ VerifyChallenge
  \/ Decide

InnerSpec == InnerInit /\ [][InnerNext]_innerVars

-----------------------------------------------------------------------------
(* Properties *)

(* The commitment of the caller's vectors, and what k rounds add to it *)
Corrected(k) ==
  LET square(i) == xs[i] * xs[i]
      inverse(i) == InverseOf(xs[i]) * InverseOf(xs[i])
      sum[i \in 0 .. k] ==
        IF i = 0 THEN Plus(TrueCommit, Times(TrueProduct, Q))
        ELSE Plus(sum[i - 1], Plus(Times(square(i), lr[i].l), Times(inverse(i), lr[i].r)))
  IN sum[k]

(***************************************************************************)
(* At the start of a round the vectors that are left have the commitment   *)
(* of the caller's, corrected by what the prover has published: nothing is *)
(* lost where a vector is shorter than its padding, or folded in place.    *)
(***************************************************************************)
CommitmentKept ==
  innerPc = "commit" =>
    LET v == Input
    IN Plus(Multiexponentiate(v.g, v.a), Times(ScalarProduct(v.a, v.b), Q)) = Corrected(Len(xs))

(***************************************************************************)
(* With either driver on either side, the verifier accepts the proof for   *)
(* the true product and commitment, and rejects it when the product, the   *)
(* commitment, the final scalar or the length of the proof is another one. *)
(***************************************************************************)
VerifierDecides ==
  innerVerifier # NotCalled /\ innerVerifier.result # "running" =>
    (innerVerifier.result = "accepted" <=>
       /\ innerVerifier.product = TrueProduct
       /\ innerVerifier.commit = TrueCommit
       /\ innerVerifier.value = ap
       /\ innerVerifier.proof = lr)
=============================================================================
