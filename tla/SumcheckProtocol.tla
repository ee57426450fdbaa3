-------------------------- MODULE SumcheckProtocol --------------------------
(***************************************************************************)
(* The sumcheck protocol of sxt/proof/sumcheck: prove_sum with one of its  *)
(* drivers, and verify_sumcheck_no_evaluation on the proof or on one that  *)
(* differs from it.                                                        *)
(*                                                                         *)
(* The prover keeps the evaluations of its multilinear polynomials (MLEs)  *)
(* in one flat array with stride n, of which the driver sums products and  *)
(* which it folds in half after every challenge.  The chunked driver does  *)
(* both piecewise, on pieces that it copies together from both halves of   *)
(* the array, in any order (SumcheckChunks is about how they overlap), and *)
(* falls back to a single GPU once the array is small enough.              *)
(*                                                                         *)
(* The field is the integers modulo a small prime.  A challenge is what    *)
(* the transcript was not asked for before: any value, the same for both   *)
(* sides as long as both have appended the same.                           *)
(***************************************************************************)
EXTENDS IndexRange, Sequences, FiniteSets, FiniteSetsExt, SequencesExt

CONSTANTS
  P,         \* the order of the field
  Problems,  \* arguments of prove_sum: [n, mles, products, length]
  Drivers    \* [chunked, cutoff, options]: the driver and its parameters

VARIABLES
  problem,  \* the arguments of prove_sum, None before it is called
  driver,   \* the driver it was given, None when it has returned
  pc,       \* where prove_sum is
  ws,       \* the workspace: mles, n, num_variables, and whether a single GPU has it
  round,    \* round_index
  todo,     \* chunks of the driver's operation that have not finished
  fresh,    \* counter = 0 in sum_gpu: no chunk of the sum has finished
  mlesP,    \* mles_p, what a fold has written
  polys,    \* polynomials, round after round in one array
  point,    \* evaluation_point
  verifier  \* verify_sumcheck_no_evaluation: its arguments and locals

proverVars == <<problem, driver, pc, ws, round, todo, fresh, mlesP, polys, point>>
vars == <<proverVars, verifier>>

None == <<>>

F == 0 .. P - 1

-----------------------------------------------------------------------------
(* Arithmetic of the protocol (polynomial_utility.h) *)

NumVariables(n) == Max({CeilLog2(n), 1})

Mid(w) == PowerOf2(w.nv - 1)

(***************************************************************************)
(* Definitions named Bug... are slips one could make in the definition     *)
(* that follows them.  No specification uses them; they show that the      *)
(* properties below would notice.                                          *)
(***************************************************************************)
BugConstantAddedOnce(p, first, len) ==
  SumFunction([i \in 0 .. len - 1 |-> p[first + i]]) % P

(* f(0) + f(1) for the coefficients p[first], ..., p[first + len - 1] *)
SumPolynomial01(p, first, len) ==
  (p[first] + SumFunction([i \in 0 .. len - 1 |-> p[first + i]])) % P

(* Horner's rule: the last k coefficients are done. *)
EvaluatePolynomial(p, first, len, x) ==
  LET value[k \in 0 .. len] ==
        IF k = 0 THEN 0 ELSE (value[k - 1] * x + p[first + len - k]) % P
  IN value[len]

(***************************************************************************)
(* The in-place product of p, of degree i, with a + b X: c_prev holds the  *)
(* coefficient that the loop has already overwritten.                      *)
(***************************************************************************)
TimesLinear(p, i, a, b) ==
  LET after[k \in 0 .. i] ==
        IF k = 0 THEN [p |-> [p EXCEPT ![0] = (@ * a) % P], prev |-> p[0]]
        ELSE [p |-> [after[k - 1].p EXCEPT ![k] = (@ * a + after[k - 1].prev * b) % P],
              prev |-> after[k - 1].p[k]]
  IN [k \in 0 .. i + 1 |-> IF k = i + 1 THEN (after[i].prev * b) % P ELSE after[i].p[k]]

(***************************************************************************)
(* expand_products, and partial_expand_products when index + split has no  *)
(* element: the product over the terms of the lines through the values at  *)
(* X = 0 and at X = 1.                                                     *)
(***************************************************************************)
ExpandProducts(mles, n, split, index, terms) ==
  LET A(t) == mles[terms[t] * n + index]
      B(t) == ((IF index + split < n THEN mles[terms[t] * n + index + split] ELSE 0) - A(t)) % P
      product[t \in 1 .. Len(terms)] ==
        IF t = 1 THEN [k \in 0 .. 1 |-> IF k = 0 THEN A(1) ELSE B(1)]
        ELSE TimesLinear(product[t - 1], t - 1, A(t), B(t))
  IN product[Len(terms)]

(* The sum of the products at the indexes below split, coefficient by coefficient. *)
SumOfProducts(mles, n, split) ==
  LET coefficient(index, product, k) ==
        IF k <= Len(product.terms)
        THEN product.mult * ExpandProducts(mles, n, split, index, product.terms)[k]
        ELSE 0
  IN [k \in 0 .. problem.length - 1 |->
        SumFunction([index \in 0 .. split - 1 |->
          SumFunction([i \in 1 .. Len(problem.products) |->
                         coefficient(index, problem.products[i], k)])]) % P]

BugUnpairedNotScaled(mles, index, n, split, first, r) ==
  IF index + split < n
  THEN (mles[first + index] * (1 - r) + mles[first + index + split] * r) % P
  ELSE mles[first + index]

(* The value at r of the line through an element and its pair, if it has one. *)
FoldElement(mles, index, n, split, first, r) ==
  (mles[first + index] * (1 - r)
     + (IF index + split < n THEN mles[first + index + split] * r ELSE 0)) % P

-----------------------------------------------------------------------------
(* Pieces of the array *)

NumMles(w) == Cardinality(DOMAIN w.mles) \div w.n

Smaller(i, j) == IF i < j THEN i ELSE j
Larger(i, j) == IF i < j THEN j ELSE i

(***************************************************************************)
(* What the callers see to: the array has whole MLEs, of field elements;   *)
(* the products are of MLEs there are, and at most of the degree that the  *)
(* polynomials are long for; and chunks have at least one index.           *)
(***************************************************************************)
SumcheckAssumption ==
  /\ P \in Nat /\ P > 1 /\ \A d \in 2 .. P - 1 : P % d # 0
  /\ \A p \in Problems :
       /\ p.n \in Nat \ {0} /\ p.length \in Nat \ {0, 1} /\ NumMles(p) \in Nat
       /\ p.mles \in [0 .. NumMles(p) * p.n - 1 -> F]
       /\ p.products \in Seq([mult : F, terms : Seq(0 .. NumMles(p) - 1)])
       /\ \A i \in 1 .. Len(p.products) :
            Len(p.products[i].terms) \in 1 .. p.length - 1
  /\ \A d \in Drivers :
       d.chunked => /\ d.options.min \in Nat \ {0} /\ d.options.max \in Nat \ {0}
                    /\ d.options.factor \in Nat \ {0}

(* basit::split of 0 .. delta: ranges of one step, the last one cut off *)
ChunksOf(delta, options) ==
  LET step == Smaller(Larger(Larger(DivideUp(delta, options.factor), 1), options.min), options.max)
  IN {[a |-> k * step, b |-> Smaller(k * step + step, delta)] :
        k \in 0 .. DivideUp(delta, step) - 1}

(* copy_partial_mles: of every MLE the range, and the pairs it has behind it *)
PartialMles(w, c) ==
  LET part1 == c.b - c.a
      ap == Smaller(Mid(w) + c.a, w.n)
      part2 == Smaller(Mid(w) + c.b, w.n) - ap
      length == part1 + part2
      source(m, i) == w.n * m + (IF i < part1 THEN c.a + i ELSE ap + i - part1)
  IN [np |-> length,
      mles |-> [j \in 0 .. length * NumMles(w) - 1 |->
                  w.mles[source(j \div length, j % length)]]]

-----------------------------------------------------------------------------

Init ==
  /\ problem = None
  /\ driver = None
  /\ pc = "idle"
  /\ ws = None
  /\ round = 0
  /\ todo = {}
  /\ fresh = FALSE
  /\ mlesP = None
  /\ polys = None
  /\ point = None
  /\ verifier = None

(***************************************************************************)
(* prove_sum is called: transcript.init(num_variables, length - 1), and    *)
(* make_workspace.  The polynomials are the caller's memory; 1 stands for  *)
(* what it held before.                                                    *)
(***************************************************************************)
ProveSum(p, d) ==
  /\ pc = "idle"
  /\ problem' = p
  /\ driver' = d
  /\ ws' = [mles |-> p.mles, n |-> p.n, nv |-> NumVariables(p.n),
            single |-> ~d.chunked \/ Cardinality(DOMAIN p.mles) <= d.cutoff]
  /\ polys' = [i \in 0 .. NumVariables(p.n) * p.length - 1 |-> 1]
  /\ pc' = "sum"
  /\ UNCHANGED <<round, todo, fresh, mlesP, point, verifier>>

WritePolynomial(value) ==
  polys' = [i \in DOMAIN polys |->
              IF i \div problem.length = round THEN value[i % problem.length] ELSE polys[i]]

(* drv.sum on the CPU or on a single GPU *)
SumWhole ==
  /\ pc = "sum"
  /\ ws.single
  /\ WritePolynomial(SumOfProducts(ws.mles, ws.n, Mid(ws)))
  /\ pc' = "challenge"
  /\ UNCHANGED <<problem, driver, ws, round, todo, fresh, mlesP, point, verifier>>

SumSplit ==
  /\ pc = "sum"
  /\ ~ws.single
  /\ todo' = ChunksOf(Mid(ws), driver.options)
  /\ fresh' = TRUE
  /\ pc' = "summing"
  /\ UNCHANGED <<problem, driver, ws, round, mlesP, polys, point, verifier>>

(* A chunk's part of the sum: the first one to finish assigns, the others add. *)
SumChunk(c) ==
  /\ pc = "summing"
  /\ c \in todo
  /\ LET part == PartialMles(ws, c)
         sum == SumOfProducts(part.mles, part.np, c.b - c.a)
     IN WritePolynomial([k \in DOMAIN sum |->
          IF fresh THEN sum[k] ELSE (polys[round * problem.length + k] + sum[k]) % P])
  /\ fresh' = FALSE
  /\ todo' = todo \ {c}
  /\ pc' = IF todo' = {} THEN "challenge" ELSE "summing"
  /\ UNCHANGED <<problem, driver, ws, round, mlesP, point, verifier>>

(* transcript.round_challenge: the transcript has not been asked this before. *)
RoundChallenge(r) ==
  /\ pc = "challenge"
  /\ point' = Append(point, r)
  /\ pc' = IF round + 1 < NumVariables(problem.n) THEN "fold" ELSE "finish"
  /\ UNCHANGED <<problem, driver, ws, round, todo, fresh, mlesP, polys, verifier>>

DrawnChallenge == point[round + 1]

(* drv.fold on the CPU or on a single GPU *)
FoldWhole ==
  /\ pc = "fold"
  /\ ws.single
  /\ ws' = [ws EXCEPT
       !.mles = [j \in 0 .. Mid(ws) * NumMles(ws) - 1 |->
                   FoldElement(ws.mles, j % Mid(ws), ws.n, Mid(ws), ws.n * (j \div Mid(ws)),
                               DrawnChallenge)],
       !.n = Mid(ws),
       !.nv = @ - 1]
  /\ round' = round + 1
  /\ pc' = "sum"
  /\ UNCHANGED <<problem, driver, todo, fresh, mlesP, polys, point, verifier>>

FoldSplit ==
  /\ pc = "fold"
  /\ ~ws.single
  /\ todo' = ChunksOf(Mid(ws), driver.options)
  /\ mlesP' = [j \in 0 .. Mid(ws) * NumMles(ws) - 1 |-> 1]
  /\ pc' = "folding"
  /\ UNCHANGED <<problem, driver, ws, round, fresh, polys, point, verifier>>

(* fold_impl: the chunk is folded in place and copied to its place in mles_p. *)
FoldChunk(c) ==
  /\ pc = "folding"
  /\ c \in todo
  /\ LET part == PartialMles(ws, c)
         mid == Mid(ws)
     IN mlesP' = [j \in DOMAIN mlesP |->
          IF j % mid \in c.a .. c.b - 1
          THEN FoldElement(part.mles, (j % mid) - c.a, part.np, c.b - c.a,
                           part.np * (j \div mid), DrawnChallenge)
          ELSE mlesP[j]]
  /\ todo' = todo \ {c}
  /\ UNCHANGED <<problem, driver, pc, ws, round, fresh, polys, point, verifier>>

(* The workspace is updated; a single GPU takes over when it is small enough. *)
FoldEnd ==
  /\ pc = "folding"
  /\ todo = {}
  /\ ws' = [mles |-> mlesP, n |-> Mid(ws), nv |-> ws.nv - 1,
            single |-> Cardinality(DOMAIN mlesP) <= driver.cutoff]
  /\ mlesP' = None
  /\ round' = round + 1
  /\ pc' = "sum"
  /\ UNCHANGED <<problem, driver, todo, fresh, polys, point, verifier>>

(* prove_sum returns: its locals are gone. *)
ProverReturns ==
  /\ pc = "finish"
  /\ pc' = "returned"
  /\ driver' = None
  /\ ws' = None
  /\ UNCHANGED <<problem, round, todo, fresh, mlesP, polys, point, verifier>>

-----------------------------------------------------------------------------
(* The verifier *)

(***************************************************************************)
(* verify_sumcheck_no_evaluation is called: with the right dimensions it   *)
(* calls transcript.init(num_variables, degree) and starts its rounds.     *)
(***************************************************************************)
Verify(claim, proof, degree) ==
  /\ pc = "returned"
  /\ verifier = None
  /\ LET nv == Len(point) IN
       verifier' = [claim |-> claim, expected |-> claim, proof |-> proof, degree |-> degree,
                    point |-> <<>>,
                    result |-> IF Cardinality(DOMAIN proof) = (degree + 1) * nv
                               THEN "running" ELSE "rejected"]
  /\ UNCHANGED proverVars

(* Both sides have appended the same values, up to the polynomial of this round. *)
SameTranscript(proof, degree, k) ==
  /\ degree + 1 = problem.length
  /\ \A i \in 0 .. (degree + 1) * (k + 1) - 1 : proof[i] = polys[i]

BugChecksFirstSumOnly(r) ==
  LET v == verifier
      len == v.degree + 1
      k == Len(v.point)
  IN /\ v # None
     /\ v.result = "running"
     /\ k > 0 \/ v.expected = SumPolynomial01(v.proof, len * k, len)
     /\ SameTranscript(v.proof, v.degree, k) => r = point[k + 1]
     /\ verifier' = [v EXCEPT !.point = Append(@, r),
                              !.expected = EvaluatePolynomial(v.proof, len * k, len, r),
                              !.result = IF k + 1 = Len(point) THEN "accepted" ELSE @]
     /\ UNCHANGED proverVars

(* A round whose sum is the expected one: on with the polynomial's value at r. *)
VerifyRound(r) ==
  LET v == verifier
      len == v.degree + 1
      k == Len(v.point)
  IN /\ v # None
     /\ v.result = "running"
     /\ v.expected = SumPolynomial01(v.proof, len * k, len)
     /\ SameTranscript(v.proof, v.degree, k) => r = point[k + 1]
     /\ verifier' = [v EXCEPT !.point = Append(@, r),
                              !.expected = EvaluatePolynomial(v.proof, len * k, len, r),
                              !.result = IF k + 1 = Len(point) THEN "accepted" ELSE @]
     /\ UNCHANGED proverVars

VerifyFails ==
  LET v == verifier
      len == v.degree + 1
  IN /\ v # None
     /\ v.result = "running"
     /\ v.expected # SumPolynomial01(v.proof, len * Len(v.point), len)
     /\ verifier' = [v EXCEPT !.result = "rejected"]
     /\ UNCHANGED proverVars

-----------------------------------------------------------------------------

(* The proof, and what it becomes when one of its scalars is another one. *)
Proofs == {polys} \cup {[polys EXCEPT ![i] = c] : i \in DOMAIN polys, c \in F}

Next ==
  \/ \E p \in Problems, d \in Drivers : ProveSum(p, d)
  \/ SumWhole
  \/ SumSplit
  \/ \E c \in todo : SumChunk(c)
  \/ \E r \in F : RoundChallenge(r)
  \/ FoldWhole
  \/ FoldSplit
  \/ \E c \in todo : FoldChunk(c)
  \/ FoldEnd
  \/ ProverReturns
  \/ \E claim \in F, proof \in Proofs : Verify(claim, proof, problem.length - 1)
  \/ \E claim \in F : Verify(claim, polys, problem.length)
  \/ \E r \in F : VerifyRound(r)
  \/ VerifyFails

Spec == Init /\ [][Next]_vars

-----------------------------------------------------------------------------
(* Properties *)

(* Bit j of the index of an evaluation, the first variable being the highest. *)
Bit(i, j, nv) == (i \div PowerOf2(nv - j)) % 2

(* The product of the elements of a sequence *)
ProductOf(s) ==
  LET product[k \in 0 .. Len(s)] == IF k = 0 THEN 1 ELSE (s[k] * product[k - 1]) % P
  IN product[Len(s)]

(* The weight of evaluation i at x: 1 where x has the bits of i, 0 at other corners. *)
Weight(i, x) ==
  ProductOf([j \in 1 .. Len(x) |-> IF Bit(i, j, Len(x)) = 1 THEN x[j] ELSE 1 - x[j]])

(* The value at x of the multilinear polynomial with evaluations 0 .. n - 1. *)
MleAt(m, x) ==
  SumFunction([i \in 0 .. problem.n - 1 |-> problem.mles[m * problem.n + i] * Weight(i, x)]) % P

(* The value at x of the polynomial whose sum is proved. *)
ValueAt(x) ==
  SumFunction([i \in 1 .. Len(problem.products) |->
    LET terms == problem.products[i].terms
    IN problem.products[i].mult * ProductOf([t \in 1 .. Len(terms) |-> MleAt(terms[t], x)])]) % P

(* Its sum over the corners of the cube whose first coordinates are x. *)
SumAt(x) ==
  LET rest == NumVariables(problem.n) - Len(x)
  IN SumFunction([i \in 0 .. PowerOf2(rest) - 1 |->
                    ValueAt(x \o [j \in 1 .. rest |-> Bit(i, j, rest)])]) % P

(***************************************************************************)
(* Whatever the driver and however it cuts the work, the polynomial of a   *)
(* round is the sum over the remaining variables, as a function of the     *)
(* next one, at the challenges drawn before: also when n is not a power    *)
(* of two, n = 1, and after the change to a single GPU.  For that the      *)
(* workspace holds, at the start of a round, the evaluations of every MLE  *)
(* with its first variables set to the challenges, in its first half what  *)
(* the missing elements of an odd length were padded to.                   *)
(***************************************************************************)
RoundPolynomialCorrect ==
  /\ pc = "challenge" =>
       \A x \in F :
         EvaluatePolynomial(polys, round * problem.length, problem.length, x)
           = SumAt(Append(point, x))
  /\ pc = "sum" =>
       /\ round + ws.nv = NumVariables(problem.n)
       /\ \A m \in 0 .. NumMles(ws) - 1, i \in 0 .. PowerOf2(ws.nv) - 1 :
            (IF i < ws.n THEN ws.mles[m * ws.n + i] ELSE 0)
              = MleAt(m, point \o [j \in 1 .. ws.nv |-> Bit(i, j, ws.nv)])

Verdict == verifier # None /\ verifier.result # "running"

(***************************************************************************)
(* The verifier accepts what the prover made for the true sum, has drawn   *)
(* the same evaluation point and expects the true value there.             *)
(***************************************************************************)
ProofAccepted ==
  /\ Verdict
  /\ verifier.proof = polys
  /\ verifier.degree + 1 = problem.length
  /\ verifier.claim = SumAt(<<>>)
  => /\ verifier.result = "accepted"
     /\ verifier.point = point
     /\ verifier.expected = ValueAt(point)

(***************************************************************************)
(* A wrong sum is accepted, with the true value expected at the evaluation *)
(* point, only if some round's challenge happened to be a point where the  *)
(* proof's polynomial meets the true one although they differ.  This is    *)
(* why the caller may rely on the verifier and one evaluation.             *)
(***************************************************************************)
WrongSumNeedsLuck ==
  Verdict /\ verifier.result = "accepted" /\ verifier.claim # SumAt(<<>>)
    /\ verifier.expected = ValueAt(verifier.point)
  => \E k \in 1 .. Len(point) :
       LET before == SubSeq(verifier.point, 1, k - 1)
           len == verifier.degree + 1
           given(x) == EvaluatePolynomial(verifier.proof, len * (k - 1), len, x)
       IN /\ \E x \in F : given(x) # SumAt(Append(before, x))
          /\ given(verifier.point[k]) = SumAt(Append(before, verifier.point[k]))
=============================================================================
