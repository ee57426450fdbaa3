------------------------ MODULE SumcheckProtocolProofs ------------------------
(***************************************************************************)
(* The sumcheck protocol, for every prime field, problem and driver: the   *)
(* arrays, rounds and chunks of the prover keep their shape, the verifier  *)
(* accepts a wrong sum by accident only, the prover's polynomials are the  *)
(* true partial sums, and the verifier accepts them.                       *)
(*                                                                         *)
(* Soundness follows the textbook: the sum over the corners of the cube    *)
(* behind a point is the sum over the two halves (SumOfHalves), what the   *)
(* verifier compares is the sum of the polynomial's values at 0 and at 1   *)
(* (SumOfEnds), and the sum with all variables set is the value            *)
(* (SumOfAll).  Between rounds, SoundOK carries the argument.              *)
(*                                                                         *)
(* Completeness goes from the code's arithmetic to the MLEs: the value at  *)
(* x of what sum computes is what the products add up to in the array      *)
(* folded at x (EvaluateRound); a fold sets the next coordinate of every   *)
(* MLE (MleAtLine, FoldIsMle); chunks read the elements that the whole     *)
(* array pairs (ChunkFold) and cover every index once (SplitCovers).       *)
(* Between steps, ValuesOK and HonestOK carry the argument.                *)
(***************************************************************************)
EXTENDS SumcheckProtocol, DataLemmas

-----------------------------------------------------------------------------
(* Powers of two, and the bits of an index *)

(* 1 << 0 is 1, and 1 << (k + 1) twice 1 << k, never 0. *)
LEMMA PowerStep ==
  /\ PowerOf2(0) = 1
  /\ \A k \in Nat : PowerOf2(k) \in Nat \ {0} /\ PowerOf2(k + 1) = 2 * PowerOf2(k)
BY DoubledStep DEF PowerOf2, Doubled

(* Shifting by i + k multiplies the shifts by i and by k. *)
LEMMA PowerSum ==
  ASSUME NEW i \in Nat, NEW k \in Nat
  PROVE  PowerOf2(i + k) = PowerOf2(i) * PowerOf2(k)
BY DoubledSum DEF PowerOf2, Doubled

(* A bit is 0 or 1. *)
LEMMA BitType ==
  ASSUME NEW i \in Nat, NEW r \in Nat, NEW j \in 1 .. r
  PROVE  Bit(i, j, r) \in {0, 1}
<1>1. r - j \in Nat
  OBVIOUS
<1>2. PowerOf2(r - j) \in Nat \ {0}
  BY <1>1, PowerStep
<1>3. (i \div PowerOf2(r - j)) \in Int
  BY <1>2, DivisionRange
<1> QED BY <1>3, SMT DEF Bit

(* The bits of a number in the lower half, and of the one as far behind the middle *)
LEMMA BitsOfHalves ==
  ASSUME NEW r \in Nat, NEW i \in 0 .. PowerOf2(r) - 1, NEW b \in {0, 1}
  PROVE  /\ b * PowerOf2(r) + i \in 0 .. PowerOf2(r + 1) - 1
         /\ Bit(b * PowerOf2(r) + i, 1, r + 1) = b
         /\ \A j \in 1 .. r : Bit(b * PowerOf2(r) + i, j + 1, r + 1) = Bit(i, j, r)
<1> DEFINE half == PowerOf2(r)
<1>1. half \in Nat \ {0} /\ PowerOf2(r + 1) = 2 * half
  BY PowerStep
<1>2. i \in 0 .. half - 1
  OBVIOUS
<1>3. ((b * half + i) \div half) = b
  BY <1>1, <1>2, DivisionIs
<1>4. Bit(b * half + i, 1, r + 1) = b
  <2>1. (r + 1) - 1 = r
    OBVIOUS
  <2>2. (b % 2) = b
    BY SMT
  <2> QED BY <1>3, <2>1, <2>2 DEF Bit
<1>5. ASSUME NEW j \in 1 .. r
      PROVE  Bit(b * half + i, j + 1, r + 1) = Bit(i, j, r)
  <2> DEFINE q == PowerOf2(r - j)
             c == PowerOf2(j - 1)
             d == i \div q
  <2>1. r - j \in Nat /\ j - 1 \in Nat /\ (r + 1) - (j + 1) = r - j
        /\ r = ((j - 1) + 1) + (r - j)
    OBVIOUS
  <2>2. q \in Nat \ {0} /\ c \in Nat /\ PowerOf2((j - 1) + 1) = 2 * c
    BY <2>1, PowerStep
  <2>3. half = PowerOf2((j - 1) + 1) * q
    <3>1. (j - 1) + 1 \in Nat
      OBVIOUS
    <3> QED BY <2>1, <3>1, PowerSum
  <2>4. d \in Int
    BY <2>2, DivisionRange
  <2> HIDE DEF half, q, c, d
  <2>5. b * half + i = (2 * (b * c)) * q + i
    BY <1>1, <2>2, <2>3, SMTT(30)
  <2>6. b * c \in Int /\ 2 * (b * c) \in Int
    BY <2>2, SMT
  <2>7. (((2 * (b * c)) * q + i) \div q) = 2 * (b * c) + d
    BY <2>2, <2>6, DivisionAdds DEF d
  <2>8. ((2 * (b * c) + d) % 2) = (d % 2)
    <3>1. 2 * (b * c) = (b * c) * 2
      BY <2>6
    <3> QED BY <2>4, <2>6, <3>1, DivisionAdds
  <2> QED BY <2>1, <2>5, <2>7, <2>8 DEF Bit, q, d
<1>6. b * half + i \in 0 .. 2 * half - 1
  BY <1>1
<1> QED BY <1>1, <1>4, <1>5, <1>6

-----------------------------------------------------------------------------
(* The number of variables of n evaluations *)

(* ceil_log2(n) is the least k with n <= 1 << k: there is one. *)
LEMMA CeilLog2Is ==
  ASSUME NEW n \in Nat \ {0}
  PROVE  /\ CeilLog2(n) \in 0 .. n /\ PowerOf2(CeilLog2(n)) >= n
         /\ CeilLog2(n) = 0 \/ PowerOf2(CeilLog2(n) - 1) < n
<1> DEFINE Fits(c) == PowerOf2(c) >= n /\ (c = 0 \/ PowerOf2(c - 1) < n)
<1>3. PICK c \in 0 .. n : Fits(c)
  <2>1. \A k : Doubled(k) = PowerOf2(k)
    BY DEF PowerOf2, Doubled
  <2> QED BY <2>1, LogExists
<1>4. CeilLog2(n) = CHOOSE k \in 0 .. n : Fits(k)
  BY DEF CeilLog2
<1> HIDE DEF Fits
<1>5. CeilLog2(n) \in 0 .. n /\ Fits(CeilLog2(n))
  BY <1>3, <1>4
<1> QED BY <1>5 DEF Fits

(* The middle of the array is the least power of two that leaves at most as much behind it. *)
LEMMA NumVariablesIs ==
  ASSUME NEW n \in Nat \ {0}
  PROVE  /\ NumVariables(n) \in Nat \ {0}
         /\ PowerOf2(NumVariables(n) - 1) <= n /\ n <= 2 * PowerOf2(NumVariables(n) - 1)
<1> DEFINE c == CeilLog2(n)
           S == {c, 1}
<1>1. c \in 0 .. n /\ PowerOf2(c) >= n /\ (c = 0 \/ PowerOf2(c - 1) < n)
  BY CeilLog2Is
<1> HIDE DEF c
<1>2. NumVariables(n) \in S /\ \A k \in S : NumVariables(n) >= k
  <2>1. NumVariables(n) = CHOOSE x \in S : \A y \in S : x >= y
    BY DEF NumVariables, Max, c
  <2>2. \E x \in S : \A y \in S : x >= y
    <3>1. CASE c = 0
      BY <3>1
    <3>2. CASE c # 0
      <4>1. c >= 1
        BY <1>1, <3>2
      <4> QED BY <1>1, <4>1
    <3> QED BY <3>1, <3>2
  <2> HIDE DEF S
  <2> QED BY <2>1, <2>2
<1>3. CASE c = 0
  <2>1. NumVariables(n) = 1
    BY <1>2, <1>3
  <2> QED BY <1>1, <1>3, <2>1, PowerStep
<1>4. CASE c # 0
  <2>1. NumVariables(n) = c /\ c - 1 \in Nat
    BY <1>1, <1>2, <1>4
  <2>2. PowerOf2((c - 1) + 1) = 2 * PowerOf2(c - 1) /\ PowerOf2(c - 1) \in Nat
    BY <2>1, PowerStep
  <2>3. (c - 1) + 1 = c
    BY <1>1
  <2> QED BY <1>1, <1>4, <2>1, <2>2, <2>3
<1> QED BY <1>3, <1>4

-----------------------------------------------------------------------------
(* Products of a sequence's elements *)

(* ProductOf multiplies one element after the other into what it has. *)
LEMMA ProductIs ==
  ASSUME NEW s \in Seq(Int), P \in Nat, P > 1
  PROVE  \E r \in [0 .. Len(s) -> Int] :
           /\ ProductOf(s) = r[Len(s)]
           /\ r[0] = 1 /\ \A k \in 1 .. Len(s) : r[k] = (s[k] * r[k - 1]) % P
<1> DEFINE n == Len(s)
           step == [i \in 1 .. n |-> [v \in Int |-> (s[i] * v) % P]]
<1>0. n \in Nat /\ \A i \in 1 .. n : s[i] \in Int
  OBVIOUS
<1> HIDE DEF n
<1>1. step \in [1 .. n -> [Int -> Int]] /\ 1 \in Int
  <2>1. \A i \in 1 .. n, v \in Int : s[i] * v \in Int
    BY <1>0, SMT
  <2>2. \A a \in Int : (a % P) \in Int
    BY ModRange
  <2>3. \A i \in 1 .. n, v \in Int : ((s[i] * v) % P) \in Int
    BY <2>1, <2>2
  <2> QED BY <2>3
<1>2. \A i \in 1 .. n, v \in Int : step[i][v] = (s[i] * v) % P
  OBVIOUS
<1> HIDE DEF step
<1>3. PICK r \in [0 .. n -> Int] : IsLoop(r, n, 1, step)
  BY <1>0, <1>1, LoopExists
<1>4. r[0] = 1 /\ \A i \in 1 .. n : r[i] = step[i][r[i - 1]]
  BY <1>3 DEF IsLoop
<1>5. \A i \in 1 .. n : i - 1 \in 0 .. n /\ i \in 0 .. n /\ i # 0
  BY <1>0
<1>6. \A i \in 1 .. n : r[i] = (s[i] * r[i - 1]) % P
  BY <1>2, <1>4, <1>5
<1> DEFINE Body(t, i) == IF i = 0 THEN 1 ELSE (s[i] * t[i - 1]) % P
           product == CHOOSE t : t = [i \in 0 .. n |-> Body(t, i)]
<1>7. ProductOf(s) = product[n]
  BY DEF ProductOf, n
<1>8. ASSUME NEW i \in 0 .. n PROVE r[i] = Body(r, i)
  <2>1. CASE i = 0
    BY <1>4, <2>1
  <2>2. CASE i # 0
    <3>1. i \in 1 .. n
      BY <1>0, <2>2
    <3> QED BY <1>6, <2>2, <3>1
  <2> QED BY <2>1, <2>2
<1>9. r = [i \in 0 .. n |-> Body(r, i)]
  <2> HIDE DEF Body
  <2> QED BY <1>3, <1>8
<1>10. product = [i \in 0 .. n |-> Body(product, i)]
  BY <1>9
<1> HIDE DEF product
<1>11. product[0] = 1
  BY <1>0, <1>10
<1>12. \A i \in 1 .. n : product[i] = (s[i] * product[i - 1]) % P
  BY <1>5, <1>10
<1> HIDE DEF Body
<1>13. InStep(product, r, n)
  BY <1>4, <1>6, <1>11, <1>12 DEF InStep
<1>14. product[n] = r[n]
  BY <1>0, <1>13, LoopsAgree DEF Agree
<1> QED BY <1>4, <1>6, <1>7, <1>14 DEF n

(* A product of integers is an integer. *)
LEMMA ProductType ==
  ASSUME NEW s \in Seq(Int), P \in Nat, P > 1
  PROVE  ProductOf(s) \in Int
<1>1. PICK r \in [0 .. Len(s) -> Int] : ProductOf(s) = r[Len(s)]
  BY ProductIs
<1>2. Len(s) \in 0 .. Len(s)
  OBVIOUS
<1> QED BY <1>1, <1>2

-----------------------------------------------------------------------------
(* The values of the polynomial whose sum is proved *)

(* What SumcheckAssumption says of the problem of the call *)
LEMMA ProblemIs ==
  ASSUME SumcheckAssumption, problem \in Problems
  PROVE  /\ P \in Nat /\ P > 1
         /\ problem.n \in Nat \ {0} /\ problem.length \in Nat \ {0, 1}
         /\ NumMles(problem) \in Nat
         /\ problem.mles \in [0 .. NumMles(problem) * problem.n - 1 -> F]
         /\ problem.products \in Seq([mult : F, terms : Seq(0 .. NumMles(problem) - 1)])
         /\ \A i \in 1 .. Len(problem.products) :
              Len(problem.products[i].terms) \in 1 .. problem.length - 1
BY DEF SumcheckAssumption

(* A problem has a variable. *)
LEMMA DimensionIs ==
  ASSUME SumcheckAssumption, problem \in Problems
  PROVE  NumVariables(problem.n) \in Nat \ {0}
<1>1. problem.n \in Nat \ {0}
  BY ProblemIs
<1> QED BY <1>1, NumVariablesIs

(* An element of a sequence over S is in S. *)
LEMMA ElementOf ==
  ASSUME NEW S, NEW s \in Seq(S), NEW i \in 1 .. Len(s)
  PROVE  s[i] \in S
OBVIOUS

(* Remainders modulo P are field elements, and field elements their own remainders. *)
LEMMA InField ==
  ASSUME SumcheckAssumption
  PROVE  /\ P \in Nat /\ P > 1 /\ 0 \in F /\ 1 \in F /\ F \subseteq Int
         /\ \A a \in Int : (a % P) \in F
         /\ \A a \in F : (a % P) = a
<1>1. P \in Nat /\ P > 1
  BY DEF SumcheckAssumption
<1>2. \A a \in Int : (a % P) \in F
  BY <1>1, ModRange DEF F
<1>3. \A a \in F : (a % P) = a
  BY <1>1, ModSmall DEF F
<1> QED BY <1>1, <1>2, <1>3 DEF F

(* The weight of an evaluation at a point is an integer. *)
LEMMA WeightType ==
  ASSUME SumcheckAssumption, NEW i \in Nat, NEW x \in Seq(F)
  PROVE  Weight(i, x) \in Int
<1> DEFINE s == [j \in 1 .. Len(x) |-> IF Bit(i, j, Len(x)) = 1 THEN x[j] ELSE 1 - x[j]]
<1>1. \A j \in 1 .. Len(x) : x[j] \in Int
  BY InField
<1>2. \A j \in 1 .. Len(x) : s[j] \in Int
  BY <1>1
<1>3. s \in Seq(Int)
  BY <1>2
<1> HIDE DEF s
<1>4. ProductOf(s) \in Int
  BY <1>3, InField, ProductType
<1> QED BY <1>4 DEF Weight, s

(* A sum of integers over an interval is an integer. *)
LEMMA SumIsInt ==
  ASSUME NEW a \in Int, NEW b \in Int, NEW f \in [a .. b -> Int]
  PROVE  SumFunction(f) \in Int
<1>1. IsFiniteSet(a .. b)
  BY FS_Interval
<1>2. SumFunctionOnSet(f, a .. b) \in Int
  BY <1>1, SumType
<1> QED BY <1>2 DEF SumFunction

(* The place of element i of MLE m in an array of MLEs *)
LEMMA PlaceOfElement ==
  ASSUME NEW count \in Nat, NEW n \in Nat, NEW m \in 0 .. count - 1, NEW i \in 0 .. n - 1
  PROVE  m * n + i \in 0 .. count * n - 1
<1>1. (count - 1 - m) * n \in Nat
  BY SMTT(30)
<1>2. m * n \in Nat /\ count * n = (count - 1 - m) * n + m * n + n
  BY SMTT(30)
<1> QED BY <1>1, <1>2, SMT

(* An MLE has a field element as its value at every point. *)
LEMMA MleAtType ==
  ASSUME SumcheckAssumption, problem \in Problems,
         NEW m \in 0 .. NumMles(problem) - 1, NEW x \in Seq(F)
  PROVE  MleAt(m, x) \in F
<1> DEFINE n == problem.n
           f == [i \in 0 .. n - 1 |-> problem.mles[m * n + i] * Weight(i, x)]
<1>1. n \in Nat /\ NumMles(problem) \in Nat
      /\ problem.mles \in [0 .. NumMles(problem) * n - 1 -> F]
  BY ProblemIs
<1> HIDE DEF n
<1>2. ASSUME NEW i \in 0 .. n - 1 PROVE f[i] \in Int
  <2>1. m * n + i \in 0 .. NumMles(problem) * n - 1
    BY <1>1, PlaceOfElement
  <2>2. problem.mles[m * n + i] \in Int
    BY <1>1, <2>1, InField
  <2>3. Weight(i, x) \in Int
    BY <1>1, WeightType
  <2>4. problem.mles[m * n + i] * Weight(i, x) \in Int
    BY <2>2, <2>3, SMT
  <2> QED BY <2>4
<1>3. f \in [0 .. n - 1 -> Int]
  <2> DEFINE e(i) == problem.mles[m * n + i] * Weight(i, x)
  <2>1. \A i \in 0 .. n - 1 : e(i) \in Int
    BY <1>2
  <2> HIDE DEF e
  <2>2. [i \in 0 .. n - 1 |-> e(i)] \in [0 .. n - 1 -> Int]
    BY <2>1
  <2> QED BY <2>2 DEF e
<1> HIDE DEF f
<1>4. SumFunction(f) \in Int
  BY <1>1, <1>3, SumIsInt
<1>5. MleAt(m, x) = SumFunction(f) % P
  BY DEF MleAt, f, n
<1> QED BY <1>4, <1>5, InField

(* So has the polynomial whose sum is proved. *)
LEMMA ValueAtType ==
  ASSUME SumcheckAssumption, problem \in Problems, NEW x \in Seq(F)
  PROVE  ValueAt(x) \in F
<1> DEFINE ps == problem.products
           e(i) == ps[i].mult * ProductOf([t \in 1 .. Len(ps[i].terms) |-> MleAt(ps[i].terms[t], x)])
           f == [i \in 1 .. Len(ps) |-> e(i)]
<1>1. ASSUME NEW i \in 1 .. Len(ps) PROVE e(i) \in Int
  <2> DEFINE terms == ps[i].terms
             s == [t \in 1 .. Len(terms) |-> MleAt(terms[t], x)]
  <2>1. ps[i] \in [mult : F, terms : Seq(0 .. NumMles(problem) - 1)]
    BY ProblemIs, ElementOf
  <2>2. ps[i].mult \in Int /\ terms \in Seq(0 .. NumMles(problem) - 1)
    BY <2>1, InField
  <2> HIDE DEF terms
  <2>3. \A t \in 1 .. Len(terms) : terms[t] \in 0 .. NumMles(problem) - 1
    BY <2>2, ElementOf
  <2>4. \A t \in 1 .. Len(terms) : MleAt(terms[t], x) \in Int
    BY <2>3, MleAtType, InField
  <2>5. s \in Seq(Int)
    BY <2>2, <2>4
  <2> HIDE DEF s
  <2>6. ProductOf(s) \in Int
    BY <2>5, InField, ProductType
  <2>7. ps[i].mult * ProductOf(s) \in Int
    BY <2>2, <2>6, SMT
  <2> QED BY <2>7 DEF s, terms
<1>2. Len(ps) \in Nat
  BY ProblemIs
<1>3. ValueAt(x) = SumFunction(f) % P
  BY DEF ValueAt
<1> HIDE DEF e
<1>4. f \in [1 .. Len(ps) -> Int]
  BY <1>1
<1> HIDE DEF f
<1>5. SumFunction(f) \in Int
  BY <1>2, <1>4, SumIsInt
<1> QED BY <1>3, <1>5, InField

(* They are those of the same problem after a step. *)
LEMMA SameProblem ==
  ASSUME problem' = problem, NEW x
  PROVE  ValueAt(x)' = ValueAt(x) /\ SumAt(x)' = SumAt(x)
<1>1. ASSUME NEW m, NEW y PROVE MleAt(m, y)' = MleAt(m, y)
  BY DEF MleAt
<1>2. ASSUME NEW y PROVE ValueAt(y)' = ValueAt(y)
  BY <1>1 DEF ValueAt
<1>3. SumAt(x)' = SumAt(x)
  BY <1>2 DEF SumAt
<1> QED BY <1>2, <1>3

-----------------------------------------------------------------------------
(* The sum over the corners of the cube *)

(* The remainder of a sum is that of the sum of the remainders. *)
LEMMA ModOfSum ==
  ASSUME NEW m \in Nat \ {0}, NEW a \in Int, NEW b \in Int
  PROVE  ((a + b) % m) = (((a % m) + (b % m)) % m)
<1> DEFINE c == a % m
           d == b % m
<1>1. c \in Int /\ d \in Int
  BY ModRange
<1>2. Congruent(a, c, m) /\ Congruent(b, d, m)
  BY CongruentRemainder
<1> HIDE DEF c, d
<1>3. Congruent(a + b, c + d, m)
  BY <1>1, <1>2, CongruentSum
<1>4. a + b \in Int /\ c + d \in Int
  BY <1>1
<1>5. ((a + b) % m) = ((c + d) % m)
  BY <1>3, <1>4, CongruentMod
<1> QED BY <1>5 DEF c, d

(* Sequences with the same elements are the same. *)
LEMMA SequencesEqual ==
  ASSUME NEW S, NEW s \in Seq(S), NEW t \in Seq(S), Len(s) = Len(t),
         \A j \in 1 .. Len(s) : s[j] = t[j]
  PROVE  s = t
OBVIOUS

(* The elements of a concatenation *)
LEMMA ConcatElements ==
  ASSUME NEW S, NEW s \in Seq(S), NEW t \in Seq(S)
  PROVE  /\ s \o t \in Seq(S) /\ Len(s \o t) = Len(s) + Len(t)
         /\ \A j \in 1 .. Len(s) : (s \o t)[j] = s[j]
         /\ \A j \in 1 .. Len(t) : (s \o t)[Len(s) + j] = t[j]
OBVIOUS

(* The corner of index i, of a cube of that dimension *)
Corner(i, dimension) == [j \in 1 .. dimension |-> Bit(i, j, dimension)]

(* A corner is a point. *)
LEMMA CornerType ==
  ASSUME SumcheckAssumption, NEW i \in Nat, NEW d \in Nat
  PROVE  Corner(i, d) \in Seq(F) /\ Len(Corner(i, d)) = d
<1>1. \A j \in 1 .. d : Bit(i, j, d) \in F
  BY BitType, InField
<1> QED BY <1>1 DEF Corner

(* The corners in the half b of the cube behind x are those of the cube behind <<x, b>>. *)
LEMMA CornerOfHalf ==
  ASSUME SumcheckAssumption, NEW x \in Seq(F), NEW r \in Nat,
         NEW i \in 0 .. PowerOf2(r) - 1, NEW b \in {0, 1}
  PROVE  x \o Corner(b * PowerOf2(r) + i, r + 1) = Append(x, b) \o Corner(i, r)
<1> DEFINE I == b * PowerOf2(r) + i
           u == Corner(I, r + 1)
           v == Corner(i, r)
           n == Len(x)
<1>1. PowerOf2(r) \in Nat
  BY PowerStep
<1>2. I \in Nat /\ i \in Nat
  BY <1>1
<1>3. u \in Seq(F) /\ Len(u) = r + 1 /\ v \in Seq(F) /\ Len(v) = r /\ b \in F /\ n \in Nat
  <2>1. r + 1 \in Nat
    OBVIOUS
  <2>2. u \in Seq(F) /\ Len(u) = r + 1
    <3> HIDE DEF I
    <3> QED BY <1>2, <2>1, CornerType
  <2>3. v \in Seq(F) /\ Len(v) = r
    BY <1>2, CornerType
  <2> HIDE DEF u, v
  <2>4. b \in F
    BY InField
  <2>5. n \in Nat
    OBVIOUS
  <2> QED BY <2>2, <2>3, <2>4, <2>5
<1>4. u[1] = b /\ \A j \in 1 .. r : u[j + 1] = v[j]
  <2>1. Bit(I, 1, r + 1) = b /\ \A j \in 1 .. r : Bit(I, j + 1, r + 1) = Bit(i, j, r)
    BY BitsOfHalves
  <2>2. 1 \in 1 .. r + 1 /\ \A j \in 1 .. r : j + 1 \in 1 .. r + 1
    OBVIOUS
  <2> HIDE DEF I
  <2> QED BY <2>1, <2>2 DEF Corner
<1> HIDE DEF u, v
<1> DEFINE y == x \o u
           w == Append(x, b)
           z == w \o v
<1>5. w \in Seq(F) /\ Len(w) = n + 1 /\ w[n + 1] = b /\ \A j \in 1 .. n : w[j] = x[j]
  BY <1>3
<1>6. /\ Len(y) = n + (r + 1)
      /\ \A j \in 1 .. n : y[j] = x[j]
      /\ \A j \in 1 .. r + 1 : y[n + j] = u[j]
  BY <1>3
<1> HIDE DEF w
<1>7. /\ Len(z) = (n + 1) + r
      /\ \A j \in 1 .. n + 1 : z[j] = w[j]
      /\ \A j \in 1 .. r : z[(n + 1) + j] = v[j]
  <2>1. /\ Len(w \o v) = Len(w) + Len(v)
        /\ \A j \in 1 .. Len(w) : (w \o v)[j] = w[j]
        /\ \A j \in 1 .. Len(v) : (w \o v)[Len(w) + j] = v[j]
    <3>1. w \in Seq(F) /\ v \in Seq(F)
      BY <1>3, <1>5
    <3> QED BY <3>1, ConcatElements
  <2> QED BY <1>3, <1>5, <2>1
<1>8. y \in Seq(F) /\ z \in Seq(F)
  BY <1>3, <1>5
<1> HIDE DEF y, z
<1>9. ASSUME NEW j \in 1 .. n + (r + 1) PROVE y[j] = z[j]
  <2>1. CASE j \in 1 .. n
    BY <1>3, <1>5, <1>6, <1>7, <2>1
  <2>2. CASE j = n + 1
    <3>1. 1 \in 1 .. r + 1 /\ n + 1 \in 1 .. n + 1
      BY <1>3
    <3>2. y[n + 1] = u[1]
      BY <1>6, <3>1
    <3>3. z[n + 1] = w[n + 1]
      BY <1>7, <3>1
    <3> QED BY <1>4, <1>5, <2>2, <3>2, <3>3
  <2>3. CASE j \notin 1 .. n /\ j # n + 1
    <3> DEFINE k == j - (n + 1)
    <3>1. k \in 1 .. r /\ k + 1 \in 1 .. r + 1 /\ n + (k + 1) = j /\ (n + 1) + k = j
      BY <1>3, <2>3
    <3> HIDE DEF k
    <3>2. y[j] = u[k + 1]
      BY <1>6, <3>1
    <3>3. z[j] = v[k]
      BY <1>7, <3>1
    <3> QED BY <1>4, <3>1, <3>2, <3>3
  <2> QED BY <2>1, <2>2, <2>3
<1>10. n + (r + 1) = (n + 1) + r
  BY <1>3
<1>11. y = z
  BY <1>6, <1>7, <1>8, <1>9, <1>10, SequencesEqual
<1> QED BY <1>11 DEF y, z, u, v, w

(* The values at the corners of the cube behind x, which is of that dimension *)
Values(x, d) == [i \in 0 .. PowerOf2(d) - 1 |-> ValueAt(x \o Corner(i, d))]

(* The values at the corners are field elements. *)
LEMMA ValuesType ==
  ASSUME SumcheckAssumption, problem \in Problems, NEW x \in Seq(F), NEW d \in Nat
  PROVE  /\ PowerOf2(d) \in Nat \ {0}
         /\ Values(x, d) \in [0 .. PowerOf2(d) - 1 -> F]
         /\ SumFunction(Values(x, d)) \in Int
<1>1. PowerOf2(d) \in Nat \ {0}
  BY PowerStep
<1>2. ASSUME NEW i \in 0 .. PowerOf2(d) - 1 PROVE ValueAt(x \o Corner(i, d)) \in F
  <2>1. Corner(i, d) \in Seq(F)
    BY <1>1, CornerType
  <2>2. x \o Corner(i, d) \in Seq(F)
    BY <2>1, ConcatElements
  <2> QED BY <2>2, ValueAtType
<1>3. Values(x, d) \in [0 .. PowerOf2(d) - 1 -> F]
  BY <1>2 DEF Values
<1>4. Values(x, d) \in [0 .. PowerOf2(d) - 1 -> Int]
  <2>1. F \subseteq Int
    BY InField
  <2> QED BY <1>3, <2>1
<1>5. PowerOf2(d) - 1 \in Int /\ 0 \in Int
  BY <1>1
<1>6. SumFunction(Values(x, d)) \in Int
  BY <1>4, <1>5, SumIsInt
<1> QED BY <1>1, <1>3, <1>6

(* SumAt is the sum of the values at the corners that are left. *)
LEMMA SumAtIs ==
  ASSUME SumcheckAssumption, problem \in Problems, NEW x \in Seq(F),
         NEW d \in Nat, Len(x) + d = NumVariables(problem.n)
  PROVE  SumAt(x) = SumFunction(Values(x, d)) % P
<1>1. NumVariables(problem.n) - Len(x) = d
  BY DimensionIs
<1> QED BY <1>1 DEF SumAt, Values, Corner

(* It is a field element. *)
LEMMA SumAtType ==
  ASSUME SumcheckAssumption, problem \in Problems, NEW x \in Seq(F),
         Len(x) <= NumVariables(problem.n)
  PROVE  SumAt(x) \in F
<1> DEFINE d == NumVariables(problem.n) - Len(x)
<1>1. d \in Nat /\ Len(x) + d = NumVariables(problem.n)
  BY DimensionIs
<1> HIDE DEF d
<1>2. SumAt(x) = SumFunction(Values(x, d)) % P
  BY <1>1, SumAtIs
<1>3. SumFunction(Values(x, d)) \in Int
  BY <1>1, ValuesType
<1> QED BY <1>2, <1>3, InField

(* With all variables set, the sum is the value. *)
LEMMA SumOfAll ==
  ASSUME SumcheckAssumption, problem \in Problems, NEW x \in Seq(F),
         Len(x) = NumVariables(problem.n)
  PROVE  SumAt(x) = ValueAt(x)
<1>1. Len(x) + 0 = NumVariables(problem.n) /\ 0 \in Nat
  OBVIOUS
<1> DEFINE f == Values(x, 0)
<1>2. SumAt(x) = SumFunction(f) % P
  BY <1>1, SumAtIs
<1>3. f \in [0 .. 0 -> F]
  <2>1. PowerOf2(0) - 1 = 0
    BY PowerStep
  <2> QED BY <1>1, <2>1, ValuesType
<1>4. f[0] = ValueAt(x)
  <2>1. 0 \in 0 .. PowerOf2(0) - 1
    BY PowerStep
  <2>2. x \o Corner(0, 0) = x
    <3>1. Corner(0, 0) \in Seq(F) /\ Len(Corner(0, 0)) = 0
      BY CornerType
    <3>2. Corner(0, 0) = << >>
      BY <3>1
    <3> QED BY <3>2
  <2> QED BY <2>1, <2>2 DEF Values
<1> HIDE DEF f
<1>5. SumFunction(f) = f[0]
  <2>1. f \in [0 .. 0 -> Int] /\ 0 .. 0 = {0} /\ 0 \in 0 .. 0
    BY <1>3, InField
  <2>2. SumFunctionOnSet(f, {0}) = f[0]
    BY <2>1, SumOne
  <2> QED BY <2>1, <2>2 DEF SumFunction
<1>6. ValueAt(x) \in F
  BY ValueAtType
<1> QED BY <1>2, <1>4, <1>5, <1>6, InField

(* The sum over the corners behind x is that over those behind <<x, 0>> and <<x, 1>>. *)
LEMMA SumOfHalves ==
  ASSUME SumcheckAssumption, problem \in Problems, NEW x \in Seq(F),
         Len(x) < NumVariables(problem.n)
  PROVE  SumAt(x) = (SumAt(Append(x, 0)) + SumAt(Append(x, 1))) % P
<1> DEFINE r == NumVariables(problem.n) - Len(x) - 1
           half == PowerOf2(r)
           f == Values(x, r + 1)
           g(b) == Values(Append(x, b), r)
           Half(b) == {b * half + i : i \in 0 .. half - 1}
<1>1. r \in Nat /\ r + 1 \in Nat /\ Len(x) + (r + 1) = NumVariables(problem.n)
  BY DimensionIs
<1> HIDE DEF r
<1>2. half \in Nat \ {0} /\ PowerOf2(r + 1) = 2 * half
  BY <1>1, PowerStep
<1>3. f \in [0 .. 2 * half - 1 -> F] /\ SumAt(x) = SumFunction(f) % P
  BY <1>1, <1>2, ValuesType, SumAtIs
<1>4. ASSUME NEW b \in {0, 1}
      PROVE  /\ g(b) \in [0 .. half - 1 -> F] /\ SumFunction(g(b)) \in Int
             /\ SumAt(Append(x, b)) = SumFunction(g(b)) % P
             /\ IsFiniteSet(Half(b)) /\ SumFunctionOnSet(f, Half(b)) = SumFunction(g(b))
  <2>1. b \in F /\ Append(x, b) \in Seq(F)
    <3>1. b \in F
      BY InField
    <3> QED BY <3>1
  <2>2. Len(Append(x, b)) + r = NumVariables(problem.n)
    BY <1>1, <2>1
  <2> DEFINE y == Append(x, b)
  <2>3. y \in Seq(F) /\ Len(y) + r = NumVariables(problem.n)
    BY <2>1, <2>2
  <2> HIDE DEF y
  <2>4. /\ Values(y, r) \in [0 .. half - 1 -> F] /\ SumFunction(Values(y, r)) \in Int
        /\ SumAt(y) = SumFunction(Values(y, r)) % P
    BY <1>1, <2>3, ValuesType, SumAtIs
  <2> DEFINE h == [i \in 0 .. half - 1 |-> b * half + i]
             v == Values(y, r)
  <2>5. ASSUME NEW i \in 0 .. half - 1
        PROVE  b * half + i \in 0 .. 2 * half - 1 /\ v[i] = f[b * half + i]
    <3>1. b * half + i \in 0 .. PowerOf2(r + 1) - 1
      BY <1>1, BitsOfHalves
    <3>2. x \o Corner(b * half + i, r + 1) = y \o Corner(i, r)
      BY <1>1, CornerOfHalf DEF y
    <3> HIDE DEF half
    <3>3. f[b * half + i] = ValueAt(x \o Corner(b * half + i, r + 1))
      BY <3>1 DEF Values
    <3>4. v[i] = ValueAt(y \o Corner(i, r))
      BY DEF Values, half
    <3> QED BY <1>2, <3>1, <3>2, <3>3, <3>4
  <2> HIDE DEF v, f, half
  <2>6. h \in [0 .. half - 1 -> 0 .. 2 * half - 1]
    BY <2>5
  <2>7. \A i, j \in 0 .. half - 1 : h[i] = h[j] => i = j
    BY <1>2
  <2>8. \A i \in 0 .. half - 1 : v[i] = f[h[i]]
    BY <2>5
  <2>9. Half(b) = ImageOf(h, 0 .. half - 1)
    BY DEF ImageOf
  <2> HIDE DEF h, Half
  <2>10. /\ v \in [0 .. half - 1 -> Int] /\ f \in [0 .. 2 * half - 1 -> Int]
         /\ 0 .. half - 1 \in SUBSET (0 .. half - 1) /\ IsFiniteSet(0 .. half - 1)
    <3>1. F \subseteq Int
      BY InField
    <3>2. IsFiniteSet(0 .. half - 1)
      BY <1>2, FS_Interval
    <3>3. v \in [0 .. half - 1 -> F]
      BY <2>4 DEF v
    <3> QED BY <1>3, <3>1, <3>2, <3>3
  <2>11. /\ IsFiniteSet(ImageOf(h, 0 .. half - 1))
         /\ SumFunctionOnSet(v, 0 .. half - 1) = SumFunctionOnSet(f, ImageOf(h, 0 .. half - 1))
    <3> DEFINE T == 0 .. half - 1
               E == 0 .. 2 * half - 1
    <3>1. /\ v \in [T -> Int] /\ f \in [E -> Int] /\ T \in SUBSET T /\ IsFiniteSet(T)
          /\ Renamed(v, f, h, T, E)
      BY <2>6, <2>7, <2>8, <2>10 DEF Renamed
    <3> HIDE DEF T, E
    <3>2. /\ IsFiniteSet(ImageOf(h, T))
          /\ SumFunctionOnSet(v, T) = SumFunctionOnSet(f, ImageOf(h, T))
      BY <3>1, SumReindex
    <3> QED BY <3>2 DEF T
  <2>12. SumFunction(v) = SumFunctionOnSet(v, 0 .. half - 1)
    BY <2>10 DEF SumFunction
  <2> QED BY <2>4, <2>9, <2>11, <2>12 DEF v, y
<1> HIDE DEF f, g
<1>5. SumFunction(f) = SumFunction(g(0)) + SumFunction(g(1))
  <2>1. Half(0) \cup Half(1) = 0 .. 2 * half - 1 /\ Half(0) \cap Half(1) = {}
    <3>1. ASSUME NEW i \in 0 .. 2 * half - 1 PROVE i \in Half(0) \cup Half(1)
      <4>1. CASE i < half
        <5>1. i \in 0 .. half - 1 /\ i = 0 * half + i
          BY <1>2, <4>1
        <5> QED BY <5>1
      <4>2. CASE ~ (i < half)
        <5>1. i - half \in 0 .. half - 1 /\ i = 1 * half + (i - half)
          BY <1>2, <4>2
        <5> QED BY <5>1
      <4> QED BY <4>1, <4>2
    <3>2. \A i \in 0 .. half - 1 : 0 * half + i = i /\ 1 * half + i = half + i
      BY <1>2
    <3> HIDE DEF half
    <3> QED BY <1>2, <3>1, <3>2
  <2>2. f \in [0 .. 2 * half - 1 -> Int]
    <3>1. F \subseteq Int
      BY InField
    <3> QED BY <1>3, <3>1
  <2>3. IsFiniteSet(Half(0)) /\ IsFiniteSet(Half(1))
    BY <1>4
  <2>4. SumFunction(f) = SumFunctionOnSet(f, Half(0) \cup Half(1))
    BY <2>1, <2>2 DEF SumFunction
  <2> HIDE DEF Half, half
  <2>5. Half(0) \in SUBSET (0 .. 2 * half - 1) /\ Half(1) \in SUBSET (0 .. 2 * half - 1)
    BY <2>1
  <2>6. SumFunctionOnSet(f, Half(0) \cup Half(1))
          = SumFunctionOnSet(f, Half(0)) + SumFunctionOnSet(f, Half(1))
    <3> DEFINE D == 0 .. 2 * half - 1
               A == Half(0)
               B == Half(1)
    <3>1. f \in [D -> Int] /\ A \in SUBSET D /\ B \in SUBSET D
          /\ IsFiniteSet(A) /\ IsFiniteSet(B) /\ A \cap B = {}
      BY <2>1, <2>2, <2>3, <2>5
    <3> HIDE DEF D, A, B
    <3>2. SumFunctionOnSet(f, A \cup B) = SumFunctionOnSet(f, A) + SumFunctionOnSet(f, B)
      BY <3>1, SumUnion
    <3> QED BY <3>2 DEF A, B
  <2> QED BY <1>4, <2>4, <2>6
<1>6. SumFunction(g(0)) \in Int /\ SumFunction(g(1)) \in Int
  BY <1>4
<1>7. (SumFunction(g(0)) + SumFunction(g(1))) % P
        = ((SumFunction(g(0)) % P) + (SumFunction(g(1)) % P)) % P
  <2>1. P \in Nat \ {0}
    BY InField
  <2> QED BY <1>6, <2>1, ModOfSum
<1>8. SumAt(Append(x, 0)) = SumFunction(g(0)) % P /\ SumAt(Append(x, 1)) = SumFunction(g(1)) % P
  BY <1>4
<1> QED BY <1>3, <1>5, <1>7, <1>8

-----------------------------------------------------------------------------
(* A polynomial's value and the sum of its values at 0 and 1 *)

(* A remainder can be taken of a summand first. *)
LEMMA ModOfPartialSum ==
  ASSUME NEW m \in Nat \ {0}, NEW a \in Int, NEW b \in Int
  PROVE  (((a % m) + b) % m) = ((a + b) % m)
<1> DEFINE c == a % m
<1>1. c \in Int
  BY ModRange
<1>2. Congruent(c, a, m) /\ Congruent(b, b, m)
  BY CongruentRemainder
<1> HIDE DEF c
<1>3. Congruent(c + b, a + b, m)
  BY <1>1, <1>2, CongruentSum
<1>4. c + b \in Int /\ a + b \in Int
  BY <1>1
<1>5. ((c + b) % m) = ((a + b) % m)
  BY <1>3, <1>4, CongruentMod
<1> QED BY <1>5 DEF c

(* The coefficients of a polynomial are where they are looked for. *)
Coefficients(p, first, len) == \A i \in 0 .. len - 1 : p[first + i] \in Int

(* r[k] is what Horner's rule has after k coefficients. *)
IsHorner(r, p, first, len, x) ==
  r[0] = 0 /\ \A k \in 1 .. len : r[k] = (r[k - 1] * x + p[first + len - k]) % P

(* evaluate_polynomial goes through the values of Horner's rule. *)
LEMMA EvaluateIs ==
  ASSUME SumcheckAssumption, NEW p, NEW first \in Nat, NEW len \in Nat, NEW x \in Int,
         Coefficients(p, first, len)
  PROVE  \E r \in [0 .. len -> F] :
           EvaluatePolynomial(p, first, len, x) = r[len] /\ IsHorner(r, p, first, len, x)
<1> DEFINE e(k, v) == (v * x + p[first + len - k]) % P
           step == [k \in 1 .. len |-> [v \in F |-> e(k, v)]]
<1>1. ASSUME NEW k \in 1 .. len, NEW v \in F PROVE e(k, v) \in F
  <2>1. len - k \in 0 .. len - 1 /\ first + len - k = first + (len - k)
    OBVIOUS
  <2>2. p[first + len - k] \in Int
    BY <2>1 DEF Coefficients
  <2>3. v * x \in Int
    <3>1. v \in Int
      BY InField
    <3> QED BY <3>1, SMT
  <2>4. v * x + p[first + len - k] \in Int
    BY <2>2, <2>3
  <2> QED BY <2>4, InField
<1> HIDE DEF e
<1>2. step \in [1 .. len -> [F -> F]] /\ 0 \in F
  BY <1>1, InField
<1>3. \A k \in 1 .. len, v \in F : step[k][v] = e(k, v)
  OBVIOUS
<1> HIDE DEF step
<1>4. PICK r \in [0 .. len -> F] : IsLoop(r, len, 0, step)
  BY <1>2, LoopExists
<1>5. \A k \in 1 .. len : k - 1 \in 0 .. len /\ k \in 0 .. len /\ k # 0
  OBVIOUS
<1>6. r[0] = 0 /\ \A k \in 1 .. len : r[k] = e(k, r[k - 1])
  BY <1>3, <1>4, <1>5 DEF IsLoop
<1> DEFINE Body(t, k) == IF k = 0 THEN 0 ELSE e(k, t[k - 1])
           value == CHOOSE t : t = [k \in 0 .. len |-> Body(t, k)]
<1>7. EvaluatePolynomial(p, first, len, x) = value[len]
  BY DEF EvaluatePolynomial, e
<1>8. ASSUME NEW k \in 0 .. len PROVE r[k] = Body(r, k)
  <2>1. CASE k = 0
    BY <1>6, <2>1
  <2>2. CASE k # 0
    <3>1. k \in 1 .. len
      BY <2>2
    <3> QED BY <1>6, <2>2, <3>1
  <2> QED BY <2>1, <2>2
<1>9. r = [k \in 0 .. len |-> Body(r, k)]
  <2> HIDE DEF Body
  <2> QED BY <1>4, <1>8
<1>10. value = [k \in 0 .. len |-> Body(value, k)]
  BY <1>9
<1> HIDE DEF value
<1>11. value[0] = 0
  BY <1>10
<1>12. \A k \in 1 .. len : value[k] = e(k, value[k - 1])
  BY <1>5, <1>10
<1> HIDE DEF Body
<1>13. InStep(value, r, len)
  BY <1>6, <1>11, <1>12 DEF InStep
<1>14. value[len] = r[len]
  BY <1>13, LoopsAgree DEF Agree
<1> QED BY <1>4, <1>6, <1>7, <1>14 DEF e, IsHorner

(* It returns a field element. *)
LEMMA EvaluateType ==
  ASSUME SumcheckAssumption, NEW p, NEW first \in Nat, NEW len \in Nat, NEW x \in Int,
         Coefficients(p, first, len)
  PROVE  EvaluatePolynomial(p, first, len, x) \in F
<1>1. PICK r \in [0 .. len -> F] : EvaluatePolynomial(p, first, len, x) = r[len]
  BY EvaluateIs
<1>2. len \in 0 .. len
  OBVIOUS
<1> QED BY <1>1, <1>2

(* sum_polynomial_01 returns the sum of the polynomial's values at 0 and at 1. *)
LEMMA SumOfEnds ==
  ASSUME SumcheckAssumption, NEW p, NEW first \in Nat, NEW len \in Nat \ {0},
         Coefficients(p, first, len)
  PROVE  SumPolynomial01(p, first, len)
           = (EvaluatePolynomial(p, first, len, 0) + EvaluatePolynomial(p, first, len, 1)) % P
<1> DEFINE c == [i \in 0 .. len - 1 |-> p[first + i]]
           S(k) == len - k .. len - 1
           sum == [k \in 0 .. len |-> SumFunctionOnSet(c, S(k)) % P]
<1>0. P \in Nat \ {0} /\ len \in Nat
  BY InField
<1>1. c \in [0 .. len - 1 -> Int]
  BY DEF Coefficients
<1>2. SumPolynomial01(p, first, len) = (c[0] + SumFunction(c)) % P /\ c[0] \in Int
  <2>0. 0 \in 0 .. len - 1 /\ first + 0 = first
    OBVIOUS
  <2>1. c[0] = p[first + 0] /\ first + 0 = first /\ c[0] \in Int
    BY <1>1, <2>0
  <2>2. SumPolynomial01(p, first, len) = (p[first] + SumFunction(c)) % P
    BY DEF SumPolynomial01
  <2> HIDE DEF c
  <2> QED BY <2>1, <2>2
<1>3. \A k \in 1 .. len : c[len - k] = p[first + len - k]
  <2>1. \A k \in 1 .. len : len - k \in 0 .. len - 1 /\ first + (len - k) = first + len - k
    OBVIOUS
  <2> QED BY <2>1
<1> HIDE DEF c
<1>8. ASSUME NEW x \in Int
      PROVE  \E r \in [0 .. len -> F] :
               EvaluatePolynomial(p, first, len, x) = r[len] /\ IsHorner(r, p, first, len, x)
  BY <1>0, EvaluateIs
<1>4. EvaluatePolynomial(p, first, len, 0) = (c[0] % P)
  <2>1. PICK r \in [0 .. len -> F] :
          EvaluatePolynomial(p, first, len, 0) = r[len] /\ IsHorner(r, p, first, len, 0)
    BY <1>8
  <2>9. r[0] = 0 /\ \A k \in 1 .. len : r[k] = (r[k - 1] * 0 + p[first + len - k]) % P
    BY <2>1 DEF IsHorner
  <2>2. len \in 1 .. len /\ len - len = 0 /\ len - 1 \in 0 .. len
    OBVIOUS
  <2>3. r[len] = (r[len - 1] * 0 + c[0]) % P
    BY <1>3, <2>9, <2>2
  <2>4. r[len - 1] \in Int
    BY <2>1, <2>2, InField
  <2>5. r[len - 1] * 0 + c[0] = c[0]
    BY <1>2, <2>4
  <2> QED BY <2>1, <2>3, <2>5
<1>5. EvaluatePolynomial(p, first, len, 1) = (SumFunction(c) % P)
  <2>1. PICK r \in [0 .. len -> F] :
          EvaluatePolynomial(p, first, len, 1) = r[len] /\ IsHorner(r, p, first, len, 1)
    BY <1>8
  <2>9. r[0] = 0 /\ \A k \in 1 .. len : r[k] = (r[k - 1] * 1 + p[first + len - k]) % P
    BY <2>1 DEF IsHorner
  <2>2. sum[0] = 0
    <3>1. S(0) = {}
      OBVIOUS
    <3>2. SumFunctionOnSet(c, S(0)) = 0
      BY <1>1, <3>1, SumEmpty
    <3>3. (0 % P) = 0
      BY InField
    <3> QED BY <3>2, <3>3
  <2>3. ASSUME NEW k \in 1 .. len, r[k - 1] = sum[k - 1] PROVE r[k] = sum[k]
    <3> DEFINE T == S(k - 1)
               y == len - k
               before == SumFunctionOnSet(c, T)
    <3>1. /\ T \in SUBSET (0 .. len - 1) /\ y \in 0 .. len - 1 /\ y \notin T /\ S(k) = T \cup {y}
          /\ k - 1 \in 0 .. len /\ k \in 0 .. len
      OBVIOUS
    <3>2. IsFiniteSet(T)
      BY FS_Interval
    <3>3. sum[k - 1] = before % P /\ sum[k] = SumFunctionOnSet(c, T \cup {y}) % P
      BY <3>1
    <3> HIDE DEF T, sum, y
    <3>4. SumFunctionOnSet(c, T \cup {y}) = c[y] + before /\ before \in Int /\ c[y] \in Int
      <4> DEFINE D == 0 .. len - 1
      <4>1. c \in [D -> Int] /\ T \in SUBSET D /\ y \in D
        BY <1>1, <3>1
      <4> HIDE DEF D
      <4>2. c[y] \in Int /\ y \notin T
        BY <4>1, <3>1
      <4>3. before \in Int
        BY <3>2, <4>1, SumType
      <4>4. SumFunctionOnSet(c, T \cup {y}) = c[y] + SumFunctionOnSet(c, T)
        BY <3>2, <4>1, <4>2, SumIn
      <4> QED BY <4>2, <4>3, <4>4
    <3> HIDE DEF before
    <3>5. r[k] = (r[k - 1] * 1 + c[y]) % P
      BY <1>3, <2>9 DEF y
    <3>6. (before % P) \in Int
      BY <3>4, <1>0, ModRange
    <3>7. r[k] = ((before % P) + c[y]) % P
      <4>1. r[k - 1] * 1 + c[y] = (before % P) + c[y]
        BY <2>3, <3>3, <3>6
      <4> QED BY <3>5, <4>1
    <3>8. ((before % P) + c[y]) % P = (before + c[y]) % P
      BY <1>0, <3>4, ModOfPartialSum
    <3>9. before + c[y] = c[y] + before
      BY <3>4
    <3> QED BY <3>3, <3>4, <3>7, <3>8, <3>9
  <2>4. InStep(r, sum, len)
    <3> HIDE DEF sum
    <3> QED BY <2>9, <2>2, <2>3 DEF InStep
  <2>5. r[len] = sum[len]
    <3> HIDE DEF sum
    <3> QED BY <1>0, <2>4, LoopsAgree DEF Agree
  <2>6. S(len) = 0 .. len - 1 /\ len \in 0 .. len
    OBVIOUS
  <2>7. sum[len] = SumFunctionOnSet(c, 0 .. len - 1) % P
    BY <2>6
  <2>8. SumFunction(c) = SumFunctionOnSet(c, 0 .. len - 1)
    BY <1>1 DEF SumFunction
  <2> QED BY <2>1, <2>5, <2>7, <2>8
<1>6. SumFunction(c) \in Int
  BY <1>1, <1>0, SumIsInt
<1>7. ((c[0] + SumFunction(c)) % P) = (((c[0] % P) + (SumFunction(c) % P)) % P)
  BY <1>0, <1>2, <1>6, ModOfSum
<1> QED BY <1>2, <1>4, <1>5, <1>7

(* A loop whose values after k rounds are of their own type *)
LEMMA TypedLoopExists ==
  ASSUME NEW n \in Nat, NEW V, NEW base \in V[0], NEW step,
         \A k \in 1 .. n : \A v \in V[k - 1] : step[k][v] \in V[k]
  PROVE  \E r : /\ \A k \in 0 .. n : r[k] \in V[k]
                /\ IsLoop(r, n, base, step)
<1> DEFINE W == UNION {V[k] : k \in 0 .. n}
           s == [k \in 1 .. n |-> [v \in W |-> IF v \in V[k - 1] THEN step[k][v] ELSE base]]
<1>1. 0 \in 0 .. n /\ \A k \in 1 .. n : k \in 0 .. n /\ k - 1 \in 0 .. n
  OBVIOUS
<1>2. base \in W /\ \A k \in 0 .. n : V[k] \subseteq W
  BY <1>1
<1>3. \A k \in 1 .. n : \A v \in V[k - 1] : step[k][v] \in W
  BY <1>1, <1>2
<1> HIDE DEF W
<1>4. s \in [1 .. n -> [W -> W]]
  BY <1>2, <1>3
<1>5. \A k \in 1 .. n, v \in W : v \in V[k - 1] => s[k][v] = step[k][v]
  OBVIOUS
<1> HIDE DEF s
<1>6. PICK r \in [0 .. n -> W] : IsLoop(r, n, base, s)
  BY <1>2, <1>4, LoopExists
<1>7. r[0] = base /\ \A k \in 1 .. n : r[k] = s[k][r[k - 1]]
  BY <1>6 DEF IsLoop
<1> DEFINE G == {k \in 0 .. n : r[k] \in V[k]}
<1>8. 0 \in G
  BY <1>1, <1>7
<1>9. ASSUME NEW k \in 1 .. n, k - 1 \in G PROVE k \in G
  <2>1. r[k - 1] \in V[k - 1] /\ r[k - 1] \in W
    BY <1>1, <1>6, <1>9
  <2>2. r[k] = step[k][r[k - 1]]
    BY <1>5, <1>7, <2>1
  <2> QED BY <1>1, <2>1, <2>2
<1> HIDE DEF G
<1>10. \A k \in 0 .. n : k \in G
  BY <1>8, <1>9, BoundedInduction
<1>11. \A k \in 0 .. n : r[k] \in V[k]
  BY <1>10 DEF G
<1>12. \A k \in 1 .. n : r[k] = step[k][r[k - 1]]
  BY <1>1, <1>5, <1>6, <1>7, <1>11
<1> QED BY <1>7, <1>11, <1>12 DEF IsLoop

(* The product of a polynomial of degree i with a + b X *)
LEMMA TimesLinearIs ==
  ASSUME SumcheckAssumption, NEW i \in Nat, NEW p \in [0 .. i -> F], NEW a \in F, NEW b \in F
  PROVE  /\ TimesLinear(p, i, a, b) \in [0 .. i + 1 -> F]
         /\ TimesLinear(p, i, a, b)[0] = (p[0] * a) % P
         /\ TimesLinear(p, i, a, b)[i + 1] = (p[i] * b) % P
         /\ \A k \in 1 .. i : TimesLinear(p, i, a, b)[k] = (p[k] * a + p[k - 1] * b) % P
<1> DEFINE done(k) == IF k = 0 THEN (p[0] * a) % P ELSE (p[k] * a + p[k - 1] * b) % P
           r == [k \in 0 .. i |-> [p |-> [j \in 0 .. i |-> IF j <= k THEN done(j) ELSE p[j]],
                                  prev |-> p[k]]]
           Body(t, k) ==
             IF k = 0 THEN [p |-> [p EXCEPT ![0] = (@ * a) % P], prev |-> p[0]]
             ELSE [p |-> [t[k - 1].p EXCEPT ![k] = (@ * a + t[k - 1].prev * b) % P],
                   prev |-> t[k - 1].p[k]]
           after == CHOOSE t : t = [k \in 0 .. i |-> Body(t, k)]
           result == [k \in 0 .. i + 1 |-> IF k = i + 1 THEN (after[i].prev * b) % P ELSE after[i].p[k]]
<1>1. TimesLinear(p, i, a, b) = result
  BY DEF TimesLinear
<1>2. \A k \in 0 .. i : p[k] \in Int /\ p[k] \in F
  BY InField
<1>3. a \in Int /\ b \in Int /\ \A c \in Int : (c % P) \in F
  BY InField
<1>4. ASSUME NEW k \in 0 .. i PROVE done(k) \in F
  <2>1. CASE k = 0
    <3>1. p[0] * a \in Int
      BY <1>2, <1>3, <2>1, SMT
    <3> QED BY <1>3, <2>1, <3>1
  <2>2. CASE k # 0
    <3>1. k - 1 \in 0 .. i
      BY <2>2
    <3>2. p[k] * a \in Int /\ p[k - 1] * b \in Int
      BY <1>2, <1>3, <3>1, SMT
    <3>3. p[k] * a + p[k - 1] * b \in Int
      BY <3>2
    <3> QED BY <1>3, <2>2, <3>3
  <2> QED BY <2>1, <2>2
<1>5. /\ \A k \in 1 .. i : done(k) = (p[k] * a + p[k - 1] * b) % P
      /\ done(0) = (p[0] * a) % P
  OBVIOUS
<1> HIDE DEF done
<1>6. \A k \in 0 .. i : /\ r[k].prev = p[k]
                        /\ r[k].p = [j \in 0 .. i |-> IF j <= k THEN done(j) ELSE p[j]]
  OBVIOUS
<1>7. ASSUME NEW k \in 0 .. i PROVE r[k] = Body(r, k)
  <2> DEFINE Partial(m) == [j \in 0 .. i |-> IF j <= m THEN done(j) ELSE p[j]]
  <2>0. r[k] = [p |-> Partial(k), prev |-> p[k]]
    OBVIOUS
  <2>1. CASE k = 0
    <3>1. [p EXCEPT ![0] = (@ * a) % P] = Partial(0)
      <4>1. 0 \in 0 .. i
        OBVIOUS
      <4>2. [p EXCEPT ![0] = (@ * a) % P] = [j \in 0 .. i |-> IF j = 0 THEN done(0) ELSE p[j]]
        BY <1>5, <4>1
      <4>3. \A j \in 0 .. i : (j <= 0) <=> (j = 0)
        OBVIOUS
      <4> QED BY <4>2, <4>3
    <3> HIDE DEF Partial, r
    <3> QED BY <2>0, <2>1, <3>1
  <2>2. CASE k # 0
    <3>1. k - 1 \in 0 .. i /\ k \in 1 .. i
      BY <2>2
    <3>2. r[k - 1].prev = p[k - 1] /\ r[k - 1].p = Partial(k - 1)
      BY <1>6, <3>1
    <3>3. Partial(k - 1)[k] = p[k]
      BY <3>1
    <3>4. [Partial(k - 1) EXCEPT ![k] = (@ * a + p[k - 1] * b) % P] = Partial(k)
      <4>1. [Partial(k - 1) EXCEPT ![k] = (@ * a + p[k - 1] * b) % P]
              = [j \in 0 .. i |-> IF j = k THEN done(k) ELSE Partial(k - 1)[j]]
        <5> DEFINE q == Partial(k - 1)
        <5>1. q = [j \in 0 .. i |-> q[j]] /\ q[k] = p[k]
          BY <3>3
        <5> HIDE DEF q
        <5>2. [q EXCEPT ![k] = (@ * a + p[k - 1] * b) % P]
                = [j \in 0 .. i |-> IF j = k THEN done(k) ELSE q[j]]
          BY <1>5, <3>1, <5>1
        <5> QED BY <5>2 DEF q
      <4>2. ASSUME NEW j \in 0 .. i
            PROVE  (IF j = k THEN done(k) ELSE Partial(k - 1)[j]) = (IF j <= k THEN done(j) ELSE p[j])
        BY <3>1
      <4> QED BY <4>1, <4>2
    <3> HIDE DEF Partial, r
    <3> QED BY <2>0, <2>2, <3>2, <3>3, <3>4
  <2> QED BY <2>1, <2>2
<1>8. r = [k \in 0 .. i |-> r[k]]
  OBVIOUS
<1> HIDE DEF r
<1>9. r = [k \in 0 .. i |-> Body(r, k)]
  <2> HIDE DEF Body
  <2> QED BY <1>7, <1>8
<1>10. after = [k \in 0 .. i |-> Body(after, k)]
  BY <1>9
<1> HIDE DEF after
<1>11. /\ after[0] = r[0]
       /\ \A k \in 1 .. i : after[k - 1] = r[k - 1] => after[k] = r[k]
  <2>1. after[0] = Body(after, 0) /\ r[0] = Body(r, 0)
    <3>1. 0 \in 0 .. i
      OBVIOUS
    <3> HIDE DEF Body
    <3> QED BY <1>7, <1>10, <3>1
  <2>2. after[0] = r[0]
    BY <2>1
  <2>3. ASSUME NEW k \in 1 .. i, after[k - 1] = r[k - 1] PROVE after[k] = r[k]
    <3>1. k \in 0 .. i /\ k # 0
      OBVIOUS
    <3>2. after[k] = Body(after, k) /\ r[k] = Body(r, k)
      <4> HIDE DEF Body
      <4> QED BY <1>7, <1>10, <3>1
    <3> QED BY <2>3, <3>1, <3>2
  <2> QED BY <2>2, <2>3
<1>12. InStep(after, r, i)
  BY <1>11 DEF InStep
<1>13. after[i] = r[i]
  BY <1>12, LoopsAgree DEF Agree
<1>14. i \in 0 .. i
  OBVIOUS
<1>15. /\ after[i].prev = p[i]
       /\ after[i].p = [j \in 0 .. i |-> IF j <= i THEN done(j) ELSE p[j]]
  BY <1>6, <1>13, <1>14
<1>16. \A k \in 0 .. i : after[i].p[k] = done(k)
  BY <1>15
<1>17. p[i] * b \in Int
  BY <1>2, <1>3, <1>14, SMT
<1>18. /\ result[i + 1] = (p[i] * b) % P
       /\ \A k \in 0 .. i : result[k] = done(k)
       /\ \A k \in 0 .. i + 1 : result[k] \in F
  <2>1. i + 1 \in 0 .. i + 1 /\ \A k \in 0 .. i : k \in 0 .. i + 1 /\ k # i + 1
    OBVIOUS
  <2>2. result[i + 1] = (p[i] * b) % P /\ ((p[i] * b) % P) \in F
    BY <1>3, <1>15, <1>17, <2>1
  <2>3. \A k \in 0 .. i : result[k] = done(k)
    BY <1>16, <2>1
  <2> HIDE DEF result
  <2>4. \A k \in 0 .. i + 1 : k \in 0 .. i \/ k = i + 1
    OBVIOUS
  <2> QED BY <1>4, <2>2, <2>3, <2>4
<1>19. result \in [0 .. i + 1 -> F]
  <2>1. result = [k \in 0 .. i + 1 |-> result[k]]
    OBVIOUS
  <2> HIDE DEF result
  <2> QED BY <1>18, <2>1
<1> HIDE DEF result
<1>20. 0 \in 0 .. i /\ \A k \in 1 .. i : k \in 0 .. i
  OBVIOUS
<1> QED BY <1>1, <1>5, <1>18, <1>19, <1>20

(* What expand_products goes through: the product of the first lines *)
IsExpansion(r, count, a, b) ==
  /\ r[1] = [k \in 0 .. 1 |-> IF k = 0 THEN a[1] ELSE b[1]]
  /\ \A t \in 2 .. count : r[t] = TimesLinear(r[t - 1], t - 1, a[t], b[t])

(* The value of a line at X = 0, and what it gains until X = 1 *)
LineStart(mles, n, index, terms) == [t \in 1 .. Len(terms) |-> mles[terms[t] * n + index]]
LineSlope(mles, n, split, index, terms) ==
  [t \in 1 .. Len(terms) |->
     ((IF index + split < n THEN mles[terms[t] * n + index + split] ELSE 0)
        - mles[terms[t] * n + index]) % P]

(* The values that the lines start from and their slopes are field elements. *)
LEMMA LinesType ==
  ASSUME SumcheckAssumption, NEW count \in Nat, NEW n \in Nat,
         NEW mles \in [0 .. count * n - 1 -> F], NEW split \in Nat, NEW index \in 0 .. n - 1,
         NEW terms \in Seq(0 .. count - 1)
  PROVE  /\ LineStart(mles, n, index, terms) \in [1 .. Len(terms) -> F]
         /\ LineSlope(mles, n, split, index, terms) \in [1 .. Len(terms) -> F]
<1> DEFINE len == Len(terms)
           low(t) == mles[terms[t] * n + index]
           high(t) == IF index + split < n THEN mles[terms[t] * n + index + split] ELSE 0
<1>1. ASSUME NEW t \in 1 .. len PROVE low(t) \in F /\ high(t) \in F
  <2>1. terms[t] \in 0 .. count - 1
    BY ElementOf
  <2>2. terms[t] * n + index \in 0 .. count * n - 1
    BY <2>1, PlaceOfElement
  <2>3. low(t) \in F
    BY <2>2
  <2>4. CASE index + split < n
    <3>1. index + split \in 0 .. n - 1
      BY <2>4
    <3>2. terms[t] * n + (index + split) \in 0 .. count * n - 1
      BY <2>1, <3>1, PlaceOfElement
    <3>3. terms[t] * n + (index + split) = terms[t] * n + index + split
      <4>1. terms[t] * n \in Int
        BY <2>1, SMT
      <4> QED BY <4>1
    <3> QED BY <2>3, <2>4, <3>2, <3>3
  <2>5. CASE ~ (index + split < n)
    BY <2>3, <2>5, InField
  <2> QED BY <2>4, <2>5
<1> HIDE DEF low, high
<1>2. ASSUME NEW t \in 1 .. len PROVE ((high(t) - low(t)) % P) \in F
  <2>1. high(t) \in Int /\ low(t) \in Int
    BY <1>1, InField
  <2>2. high(t) - low(t) \in Int
    BY <2>1
  <2> QED BY <2>2, InField
<1>3. /\ [t \in 1 .. len |-> low(t)] \in [1 .. len -> F]
      /\ [t \in 1 .. len |-> (high(t) - low(t)) % P] \in [1 .. len -> F]
  BY <1>1, <1>2
<1> QED BY <1>3 DEF LineStart, LineSlope, low, high

(* r[t] is the product of the lines of the first t terms, and expand_products returns the last. *)
IsExpandedTo(r, mles, n, split, index, terms) ==
  /\ \A t \in 1 .. Len(terms) : r[t] \in [0 .. t -> F]
  /\ IsExpansion(r, Len(terms), LineStart(mles, n, index, terms),
                 LineSlope(mles, n, split, index, terms))
  /\ ExpandProducts(mles, n, split, index, terms) = r[Len(terms)]

(* expand_products multiplies the lines of the terms, one after the other. *)
LEMMA ExpandIs ==
  ASSUME SumcheckAssumption, NEW count \in Nat, NEW n \in Nat,
         NEW mles \in [0 .. count * n - 1 -> F], NEW split \in Nat, NEW index \in 0 .. n - 1,
         NEW terms \in Seq(0 .. count - 1), Len(terms) >= 1
  PROVE  \E r : IsExpandedTo(r, mles, n, split, index, terms)
<1> DEFINE len == Len(terms)
           a == LineStart(mles, n, index, terms)
           b == LineSlope(mles, n, split, index, terms)
           first == [k \in 0 .. 1 |-> IF k = 0 THEN a[1] ELSE b[1]]
           V == [k \in 0 .. len - 1 |-> [0 .. k + 1 -> F]]
           step == [k \in 1 .. len - 1 |-> [v \in V[k - 1] |-> TimesLinear(v, k, a[k + 1], b[k + 1])]]
           Body(t, i) == IF i = 1 THEN first ELSE TimesLinear(t[i - 1], i - 1, a[i], b[i])
           product == CHOOSE t : t = [i \in 1 .. len |-> Body(t, i)]
<1>1. a \in [1 .. len -> F] /\ b \in [1 .. len -> F]
  BY LinesType
<1>2. ExpandProducts(mles, n, split, index, terms) = product[len]
  <2> DEFINE low(t) == mles[terms[t] * n + index]
             slope(t) == ((IF index + split < n THEN mles[terms[t] * n + index + split] ELSE 0)
                            - low(t)) % P
             given(t, i) == IF i = 1 THEN [k \in 0 .. 1 |-> IF k = 0 THEN low(1) ELSE slope(1)]
                            ELSE TimesLinear(t[i - 1], i - 1, low(i), slope(i))
  <2>1. ExpandProducts(mles, n, split, index, terms)
          = (CHOOSE t : t = [i \in 1 .. len |-> given(t, i)])[len]
    BY DEF ExpandProducts
  <2>2. \A i \in 1 .. len : a[i] = low(i) /\ b[i] = slope(i)
    BY DEF LineStart, LineSlope
  <2>3. 1 \in 1 .. len
    OBVIOUS
  <2> HIDE DEF a, b, low, slope
  <2>4. ASSUME NEW t PROVE [i \in 1 .. len |-> given(t, i)] = [i \in 1 .. len |-> Body(t, i)]
    <3>1. \A i \in 1 .. len : given(t, i) = Body(t, i)
      BY <2>2, <2>3
    <3> HIDE DEF given, Body
    <3> QED BY <3>1
  <2> HIDE DEF given, Body
  <2>5. (CHOOSE t : t = [i \in 1 .. len |-> given(t, i)]) = (CHOOSE t : t = [i \in 1 .. len |-> Body(t, i)])
    BY <2>4
  <2> QED BY <2>1, <2>5
<1> HIDE DEF a, b
<1>3. len \in Nat /\ len - 1 \in Nat /\ 1 \in 1 .. len /\ len \in 1 .. len
  OBVIOUS
<1> HIDE DEF len
<1>4. V[0] = [0 .. 1 -> F]
  BY <1>3
<1>5. first \in V[0]
  BY <1>1, <1>3, <1>4
<1>6. ASSUME NEW k \in 1 .. len - 1, NEW v \in V[k - 1]
      PROVE  /\ k + 1 \in 1 .. len
             /\ step[k][v] = TimesLinear(v, k, a[k + 1], b[k + 1]) /\ step[k][v] \in V[k]
  <2>1. k \in Nat /\ k - 1 \in 0 .. len - 1 /\ k \in 0 .. len - 1 /\ (k - 1) + 1 = k /\ k + 1 \in 1 .. len
    BY <1>3
  <2>2. V[k - 1] = [0 .. k -> F] /\ V[k] = [0 .. k + 1 -> F]
    BY <2>1
  <2>3. step[k][v] = TimesLinear(v, k, a[k + 1], b[k + 1])
    OBVIOUS
  <2> HIDE DEF V, step
  <2>4. v \in [0 .. k -> F] /\ a[k + 1] \in F /\ b[k + 1] \in F
    BY <1>1, <2>1, <2>2
  <2>5. TimesLinear(v, k, a[k + 1], b[k + 1]) \in [0 .. k + 1 -> F]
    BY <2>1, <2>4, TimesLinearIs
  <2> QED BY <2>1, <2>2, <2>3, <2>5
<1> HIDE DEF V, step, first
<1>7. PICK q : (\A k \in 0 .. len - 1 : q[k] \in V[k]) /\ IsLoop(q, len - 1, first, step)
  BY <1>3, <1>5, <1>6, TypedLoopExists
<1>8. q[0] = first
  BY <1>7 DEF IsLoop
<1>9. ASSUME NEW k \in 1 .. len - 1
      PROVE  q[k] = TimesLinear(q[k - 1], k, a[k + 1], b[k + 1])
  <2>1. k - 1 \in 0 .. len - 1
    BY <1>3
  <2>2. q[k - 1] \in V[k - 1] /\ q[k] = step[k][q[k - 1]]
    BY <1>7, <2>1 DEF IsLoop
  <2> QED BY <1>6, <2>2
<1> DEFINE r == [t \in 1 .. len |-> q[t - 1]]
<1>10. ASSUME NEW t \in 1 .. len PROVE r[t] = Body(r, t) /\ r[t] \in [0 .. t -> F]
  <2>1. r[t] = q[t - 1] /\ t - 1 \in 0 .. len - 1 /\ (t - 1) + 1 = t
    BY <1>3
  <2>2. r[t] \in [0 .. t -> F]
    BY <1>7, <2>1 DEF V
  <2>3. CASE t = 1
    BY <1>8, <2>1, <2>2, <2>3
  <2>4. CASE t # 1
    <3>1. t - 1 \in 1 .. len - 1 /\ t - 1 \in 1 .. len
      BY <1>3, <2>4
    <3>2. r[t - 1] = q[(t - 1) - 1]
      BY <3>1
    <3> HIDE DEF r
    <3>3. q[t - 1] = TimesLinear(q[(t - 1) - 1], t - 1, a[(t - 1) + 1], b[(t - 1) + 1])
      BY <1>9, <3>1
    <3> QED BY <2>1, <2>2, <2>4, <3>2, <3>3
  <2> QED BY <2>3, <2>4
<1>11. r = [i \in 1 .. len |-> r[i]]
  OBVIOUS
<1> HIDE DEF r
<1>12. r = [i \in 1 .. len |-> Body(r, i)]
  <2> HIDE DEF Body
  <2> QED BY <1>10, <1>11
<1>13. product = [i \in 1 .. len |-> Body(product, i)]
  BY <1>12
<1> HIDE DEF product
<1> DEFINE u == [k \in 0 .. len - 1 |-> product[k + 1]]
           v == [k \in 0 .. len - 1 |-> r[k + 1]]
<1>14. InStep(u, v, len - 1)
  <2>1. \A k \in 0 .. len - 1 : u[k] = product[k + 1] /\ v[k] = r[k + 1]
    OBVIOUS
  <2> HIDE DEF u, v
  <2>2. u[0] = v[0]
    <3>1. 0 \in 0 .. len - 1 /\ 0 + 1 = 1
      BY <1>3
    <3>2. product[1] = Body(product, 1) /\ r[1] = Body(r, 1)
      <4> HIDE DEF Body
      <4> QED BY <1>3, <1>10, <1>13
    <3>3. product[1] = r[1]
      BY <3>2
    <3> QED BY <2>1, <3>1, <3>3
  <2>3. ASSUME NEW k \in 1 .. len - 1, u[k - 1] = v[k - 1] PROVE u[k] = v[k]
    <3>1. k \in 0 .. len - 1 /\ k - 1 \in 0 .. len - 1 /\ k + 1 \in 1 .. len /\ k + 1 # 1
          /\ (k - 1) + 1 = k /\ (k + 1) - 1 = k
      BY <1>3
    <3>2. product[k] = r[k]
      BY <2>1, <2>3, <3>1
    <3>3. product[k + 1] = Body(product, k + 1) /\ r[k + 1] = Body(r, k + 1)
      <4> HIDE DEF Body
      <4> QED BY <1>10, <1>13, <3>1
    <3>4. product[k + 1] = r[k + 1]
      BY <3>1, <3>2, <3>3
    <3> QED BY <2>1, <3>1, <3>4
  <2> QED BY <2>2, <2>3 DEF InStep
<1>15. u[len - 1] = v[len - 1]
  <2>1. len - 1 \in 0 .. len - 1
    BY <1>3
  <2> HIDE DEF u, v
  <2> QED BY <1>3, <1>14, <2>1, LoopsAgree DEF Agree
<1>16. product[len] = r[len]
  <2>1. len - 1 \in 0 .. len - 1 /\ (len - 1) + 1 = len
    BY <1>3
  <2> QED BY <1>15, <2>1
<1>17. IsExpansion(r, len, a, b)
  <2>1. r[1] = first
    BY <1>3, <1>10
  <2>2. \A t \in 2 .. len : t \in 1 .. len /\ t # 1
    OBVIOUS
  <2>3. \A t \in 2 .. len : r[t] = TimesLinear(r[t - 1], t - 1, a[t], b[t])
    BY <1>10, <2>2
  <2> QED BY <2>1, <2>3 DEF IsExpansion, first
<1> QED BY <1>2, <1>10, <1>16, <1>17 DEF len, a, b, IsExpandedTo

(* It returns the coefficients of a polynomial of as high a degree as there are terms. *)
LEMMA ExpandType ==
  ASSUME SumcheckAssumption, NEW count \in Nat, NEW n \in Nat,
         NEW mles \in [0 .. count * n - 1 -> F], NEW split \in Nat, NEW index \in 0 .. n - 1,
         NEW terms \in Seq(0 .. count - 1), Len(terms) >= 1
  PROVE  ExpandProducts(mles, n, split, index, terms) \in [0 .. Len(terms) -> F]
<1>1. PICK r : IsExpandedTo(r, mles, n, split, index, terms)
  BY ExpandIs
<1>2. Len(terms) \in 1 .. Len(terms)
  OBVIOUS
<1> QED BY <1>1, <1>2 DEF IsExpandedTo

(* The sum of the products of the array's elements is of field elements, one per coefficient. *)
LEMMA SumOfProductsType ==
  ASSUME SumcheckAssumption, problem \in Problems, NEW n \in Nat,
         NEW mles \in [0 .. NumMles(problem) * n - 1 -> F], NEW split \in 0 .. n
  PROVE  SumOfProducts(mles, n, split) \in [0 .. problem.length - 1 -> F]
<1> DEFINE ps == problem.products
           count == NumMles(problem)
           c(index, product, k) ==
             IF k <= Len(product.terms)
             THEN product.mult * ExpandProducts(mles, n, split, index, product.terms)[k]
             ELSE 0
           g(index, k) == [i \in 1 .. Len(ps) |-> c(index, ps[i], k)]
           f(k) == [index \in 0 .. split - 1 |-> SumFunction(g(index, k))]
<1>1. ps \in Seq([mult : F, terms : Seq(0 .. count - 1)]) /\ count \in Nat /\ Len(ps) \in Nat
  BY ProblemIs
<1>2. problem.length \in Nat
  BY ProblemIs
<1>3. ASSUME NEW k \in 0 .. problem.length - 1, NEW index \in 0 .. split - 1,
             NEW i \in 1 .. Len(ps)
      PROVE  c(index, ps[i], k) \in Int
  <2> DEFINE terms == ps[i].terms
  <2>1. ps[i] \in [mult : F, terms : Seq(0 .. count - 1)]
    BY <1>1, ElementOf
  <2>2. ps[i].mult \in Int /\ terms \in Seq(0 .. count - 1) /\ Len(terms) >= 1
    <3>1. ps[i].mult \in F /\ terms \in Seq(0 .. count - 1)
      BY <2>1
    <3>2. Len(terms) \in 1 .. problem.length - 1
      BY ProblemIs DEF terms
    <3>3. F \subseteq Int
      BY InField
    <3> HIDE DEF terms, count, ps
    <3>4. ps[i].mult \in Int
      BY <3>1, <3>3
    <3>5. Len(terms) >= 1
      BY <1>2, <3>2
    <3> QED BY <3>1, <3>4, <3>5
  <2> HIDE DEF terms, count
  <2>3. index \in 0 .. n - 1 /\ split \in Nat /\ k \in Nat
    BY <1>2
  <2>4. mles \in [0 .. count * n - 1 -> F]
    BY DEF count
  <2>7. ExpandProducts(mles, n, split, index, terms) \in [0 .. Len(terms) -> F]
    BY <1>1, <2>2, <2>3, <2>4, ExpandType
  <2>8. CASE k <= Len(terms)
    <3>1. k \in 0 .. Len(terms)
      BY <2>2, <2>3, <2>8
    <3>2. ExpandProducts(mles, n, split, index, terms)[k] \in Int
      BY <2>7, <3>1, InField
    <3>3. ps[i].mult * ExpandProducts(mles, n, split, index, terms)[k] \in Int
      BY <2>2, <3>2, SMT
    <3> QED BY <2>8, <3>3 DEF terms
  <2>9. CASE ~ (k <= Len(terms))
    BY <2>9 DEF terms
  <2> QED BY <2>8, <2>9
<1>4. SumOfProducts(mles, n, split)
        = [k \in 0 .. problem.length - 1 |-> SumFunction(f(k)) % P]
  BY DEF SumOfProducts
<1> HIDE DEF c, ps
<1>5. ASSUME NEW k \in 0 .. problem.length - 1 PROVE (SumFunction(f(k)) % P) \in F
  <2>1. ASSUME NEW index \in 0 .. split - 1 PROVE SumFunction(g(index, k)) \in Int
    <3>1. g(index, k) \in [1 .. Len(ps) -> Int]
      BY <1>3
    <3>2. 1 \in Int /\ Len(ps) \in Int
      BY <1>1
    <3> HIDE DEF g
    <3> QED BY <3>1, <3>2, SumIsInt
  <2> HIDE DEF g
  <2>2. f(k) \in [0 .. split - 1 -> Int]
    BY <2>1
  <2> HIDE DEF f
  <2>3. split - 1 \in Int /\ 0 \in Int
    OBVIOUS
  <2>4. SumFunction(f(k)) \in Int
    BY <2>2, <2>3, SumIsInt
  <2> QED BY <2>4, InField
<1> HIDE DEF f
<1> QED BY <1>4, <1>5

-----------------------------------------------------------------------------
(* Folding, and the pieces of the array *)

(* A folded element is a field element, whether or not it had a pair. *)
LEMMA FoldElementType ==
  ASSUME SumcheckAssumption, NEW count \in Nat, NEW n \in Nat,
         NEW mles \in [0 .. count * n - 1 -> F], NEW split \in Nat, NEW index \in 0 .. n - 1,
         NEW m \in 0 .. count - 1, NEW r \in F
  PROVE  FoldElement(mles, index, n, split, n * m, r) \in F
<1> DEFINE high == IF index + split < n THEN mles[n * m + index + split] * r ELSE 0
<1>1. m * n + index \in 0 .. count * n - 1
  BY PlaceOfElement
<1>2. m * n = n * m /\ n * m \in Int
  BY SMT
<1>3. mles[n * m + index] \in Int /\ r \in Int
  BY <1>1, <1>2, InField
<1>4. high \in Int
  <2>1. CASE index + split < n
    <3>1. index + split \in 0 .. n - 1
      BY <2>1
    <3>2. m * n + (index + split) \in 0 .. count * n - 1
      BY <3>1, PlaceOfElement
    <3>3. m * n + (index + split) = n * m + index + split
      BY <1>2
    <3>4. mles[n * m + index + split] \in Int
      BY <3>2, <3>3, InField
    <3>5. mles[n * m + index + split] * r \in Int
      BY <1>3, <3>4, SMT
    <3> QED BY <2>1, <3>5
  <2>2. CASE ~ (index + split < n)
    BY <2>2
  <2> QED BY <2>1, <2>2
<1>5. FoldElement(mles, index, n, split, n * m, r)
        = (mles[n * m + index] * (1 - r) + high) % P
  BY DEF FoldElement
<1> HIDE DEF high
<1>6. mles[n * m + index] * (1 - r) \in Int
  <2>1. 1 - r \in Int
    BY <1>3
  <2> QED BY <1>3, <2>1, SMT
<1>7. mles[n * m + index] * (1 - r) + high \in Int
  BY <1>4, <1>6
<1> QED BY <1>5, <1>7, InField

(* An array of count MLEs with n elements each *)
LEMMA NumMlesIs ==
  ASSUME NEW count \in Nat, NEW w, w.n \in Nat \ {0}, NEW S,
         w.mles \in [0 .. count * w.n - 1 -> S]
  PROVE  NumMles(w) = count
<1> DEFINE n == w.n
<1>1. n \in Nat \ {0} /\ count * n \in Nat
  BY SMT
<1>2. DOMAIN w.mles = 0 .. count * n - 1
  OBVIOUS
<1> HIDE DEF n
<1>3. Cardinality(0 .. count * n - 1) = count * n
  <2> DEFINE top == count * n
  <2>1. top \in Nat
    BY <1>1
  <2> HIDE DEF top
  <2>2. 0 \in Int /\ top - 1 \in Int
    BY <2>1
  <2>3. Cardinality(0 .. top - 1) = IF 0 > top - 1 THEN 0 ELSE (top - 1) - 0 + 1
    BY <2>2, FS_Interval
  <2>4. Cardinality(0 .. top - 1) = top
    BY <2>1, <2>3
  <2> QED BY <2>4 DEF top
<1>4. ((count * n + 0) \div n) = count
  <2>1. 0 \in 0 .. n - 1
    BY <1>1
  <2> QED BY <1>1, <2>1, DivisionIs
<1>5. count * n + 0 = count * n
  BY <1>1
<1>6. NumMles(w) = (count * n) \div n
  BY <1>2, <1>3 DEF NumMles, n
<1> QED BY <1>4, <1>5, <1>6

(* A range of indexes below mid with something in it *)
Ranges(mid) == {c \in [a : Nat, b : Nat] : c.a < c.b /\ c.b <= mid}

(* The chunks of the first half are ranges of it, none of them empty. *)
LEMMA SplitIs ==
  ASSUME NEW delta \in Nat, NEW options,
         options.min \in Nat \ {0}, options.max \in Nat \ {0}, options.factor \in Nat \ {0}
  PROVE  ChunksOf(delta, options) \subseteq Ranges(delta)
<1> DEFINE d == DivideUp(delta, options.factor)
           step == Smaller(Larger(Larger(d, 1), options.min), options.max)
           count == DivideUp(delta, step)
<1>1. d \in Int
  <2>1. delta + options.factor - 1 \in Int
    OBVIOUS
  <2> QED BY <2>1, DivisionRange DEF DivideUp
<1> HIDE DEF d
<1>2. step \in Nat \ {0}
  BY <1>1 DEF Smaller, Larger
<1> HIDE DEF step
<1>3. count \in Int /\ count * step <= delta + step - 1
  <2> DEFINE x == delta + step - 1
  <2>1. x \in Int
    BY <1>2
  <2> HIDE DEF x
  <2>2. (x \div step) \in Int /\ (x % step) \in 0 .. step - 1 /\ x = (x \div step) * step + (x % step)
    BY <1>2, <2>1, DivisionRange
  <2>3. count = (x \div step)
    BY DEF DivideUp, x
  <2> DEFINE q == x \div step
             y == x % step
  <2>4. q \in Int /\ y \in Nat /\ x = q * step + y
    BY <1>2, <2>2
  <2> HIDE DEF q, y, count
  <2>5. q * step <= x
    BY <1>2, <2>1, <2>4, SMTT(30)
  <2> QED BY <2>3, <2>4, <2>5 DEF q, x
<1> HIDE DEF count
<1>4. ASSUME NEW k \in 0 .. count - 1
      PROVE  [a |-> k * step, b |-> Smaller(k * step + step, delta)] \in Ranges(delta)
  <2>1. k * step \in Nat /\ (k + 1) * step <= count * step
    <3>1. k * step \in Nat
      BY <1>2, SMT
    <3>2. (count - (k + 1)) * step \in Nat
      <4>1. count - (k + 1) \in Nat
        BY <1>3
      <4> QED BY <1>2, <4>1, SMT
    <3>3. count * step = (count - (k + 1)) * step + (k + 1) * step
      BY <1>2, <1>3, SMTT(30)
    <3>4. (k + 1) * step \in Nat
      BY <1>2, SMT
    <3> QED BY <3>1, <3>2, <3>3, <3>4
  <2>2. (k + 1) * step = k * step + step
    BY <1>2, SMTT(30)
  <2> DEFINE l == k * step
  <2>3. l \in Nat /\ l + step <= delta + step - 1
    BY <1>2, <1>3, <2>1, <2>2, SMTT(30)
  <2> HIDE DEF l
  <2>4. l < delta /\ Smaller(l + step, delta) \in Nat /\ l < Smaller(l + step, delta)
        /\ Smaller(l + step, delta) <= delta
    BY <1>2, <2>3 DEF Smaller
  <2>5. [a |-> l, b |-> Smaller(l + step, delta)] \in Ranges(delta)
    BY <2>3, <2>4 DEF Ranges
  <2> QED BY <2>5 DEF l
<1>5. ChunksOf(delta, options)
        = {[a |-> k * step, b |-> Smaller(k * step + step, delta)] : k \in 0 .. count - 1}
  BY DEF ChunksOf, step, count, d
<1> QED BY <1>4, <1>5

(* A piece has the elements of the range, and as many or fewer from behind the middle. *)
LEMMA PartialMlesIs ==
  ASSUME NEW count \in Nat, NEW w, w.n \in Nat \ {0}, w.mles \in [0 .. count * w.n - 1 -> F],
         Mid(w) \in Nat, Mid(w) <= w.n, NEW c \in Ranges(Mid(w))
  PROVE  /\ PartialMles(w, c).np \in Nat \ {0}
         /\ c.b - c.a \in 0 .. PartialMles(w, c).np
         /\ PartialMles(w, c).mles \in [0 .. count * PartialMles(w, c).np - 1 -> F]
<1> DEFINE n == w.n
           part1 == c.b - c.a
           ap == Smaller(Mid(w) + c.a, n)
           part2 == Smaller(Mid(w) + c.b, n) - ap
           length == part1 + part2
           source(m, i) == n * m + (IF i < part1 THEN c.a + i ELSE ap + i - part1)
           mles == [j \in 0 .. length * NumMles(w) - 1 |-> w.mles[source(j \div length, j % length)]]
<1>1. PartialMles(w, c) = [np |-> length, mles |-> mles]
  BY DEF PartialMles
<1>2. /\ n \in Nat \ {0} /\ Mid(w) \in Nat /\ Mid(w) <= n
      /\ c.a \in Nat /\ c.b \in Nat /\ c.a < c.b /\ c.b <= Mid(w)
  BY DEF Ranges
<1>3. /\ part1 \in Nat \ {0} /\ c.a + part1 <= n
      /\ ap \in Nat /\ part2 \in Nat /\ ap + part2 <= n
  <2>1. part1 \in Nat \ {0} /\ c.a + part1 = c.b /\ c.b <= n
    BY <1>2
  <2> DEFINE u == Mid(w) + c.a
             v == Mid(w) + c.b
  <2>2. u \in Nat /\ v \in Nat /\ u <= v
    BY <1>2
  <2> HIDE DEF u, v, n
  <2>3. ap \in Nat /\ ap <= Smaller(v, n) /\ Smaller(v, n) \in Nat /\ Smaller(v, n) <= n
    BY <1>2, <2>2 DEF Smaller, u, v
  <2> HIDE DEF ap
  <2>4. part2 \in Nat /\ ap + part2 <= n
    BY <1>2, <2>3 DEF v
  <2> QED BY <2>1, <2>3, <2>4 DEF n
<1>4. length \in Nat \ {0} /\ part1 <= length
  BY <1>3
<1>5. NumMles(w) = count
  BY NumMlesIs
<1>6. ASSUME NEW m \in 0 .. count - 1, NEW i \in 0 .. length - 1
      PROVE  source(m, i) \in 0 .. count * n - 1
  <2> DEFINE k == IF i < part1 THEN c.a + i ELSE ap + i - part1
  <2>1. k \in 0 .. n - 1
    <3> HIDE DEF ap, part1, part2, n
    <3>1. CASE i < part1
      BY <1>2, <1>3, <3>1, SMTT(30)
    <3>2. CASE ~ (i < part1)
      BY <1>2, <1>3, <3>2
    <3> QED BY <3>1, <3>2
  <2> HIDE DEF k
  <2>2. m * n + k \in 0 .. count * n - 1
    BY <1>2, <2>1, PlaceOfElement
  <2>3. n * m = m * n
    BY <1>2, SMT
  <2> QED BY <2>2, <2>3 DEF k
<1> HIDE DEF source, length, part1, n
<1>7. length * count = count * length
  BY <1>4, SMT
<1>8. ASSUME NEW j \in 0 .. count * length - 1
      PROVE  w.mles[source(j \div length, j % length)] \in F
  <2>1. (j \div length) \in 0 .. count - 1
    BY <1>4, DivisionBelow
  <2>2. j \in Int
    BY <1>4
  <2>3. (j % length) \in 0 .. length - 1
    BY <1>4, <2>2, ModRange
  <2>4. source(j \div length, j % length) \in 0 .. count * n - 1
    BY <1>6, <2>1, <2>3
  <2> QED BY <2>4 DEF n
<1>9. mles \in [0 .. count * length - 1 -> F]
  <2> DEFINE e(j) == w.mles[source(j \div length, j % length)]
  <2>1. \A j \in 0 .. count * length - 1 : e(j) \in F
    BY <1>8
  <2>2. mles = [j \in 0 .. count * length - 1 |-> e(j)]
    BY <1>5, <1>7
  <2> HIDE DEF e, mles
  <2> QED BY <2>1, <2>2
<1> HIDE DEF mles
<1>10. PartialMles(w, c).np = length /\ PartialMles(w, c).mles = mles
  BY <1>1
<1>11. c.b - c.a \in 0 .. length
  BY <1>3, <1>4 DEF part1
<1> QED BY <1>4, <1>9, <1>10, <1>11

-----------------------------------------------------------------------------
(* What holds between the variables *)

NV == NumVariables(problem.n)

(* An array of every MLE with n elements *)
Arrays(n) == [0 .. NumMles(problem) * n - 1 -> F]

Rounds == {"sum", "summing", "challenge", "fold", "folding"}

(* A problem and a driver there are; before the call nothing has been drawn or verified. *)
CallOK ==
  /\ pc \in Rounds \cup {"idle", "finish", "returned"}
  /\ pc # "idle" => problem \in Problems
  /\ pc \in Rounds => driver \in Drivers
  /\ pc = "idle" => round = 0 /\ point = << >>

(* Rounds and challenges are in step, and the last round is the one of the last variable. *)
RoundOK ==
  pc # "idle" =>
    /\ round \in Nat /\ round < NV /\ point \in Seq(F)
    /\ Len(point) = IF pc \in {"sum", "summing", "challenge"} THEN round ELSE round + 1
    /\ pc \in {"fold", "folding"} => round + 1 < NV
    /\ pc \in {"finish", "returned"} => round + 1 = NV

(* The polynomials are field elements, one polynomial per variable. *)
PolysOK == pc # "idle" => polys \in [0 .. NV * problem.length - 1 -> F]

(***************************************************************************)
(* The workspace is for the variables that are left, and the middle splits *)
(* it: its first half is full, and what is behind it not longer.           *)
(***************************************************************************)
WorkspaceOK ==
  pc \in Rounds =>
    /\ ws \in [mles : Arrays(ws.n), n : Nat \ {0}, nv : Nat \ {0}, single : BOOLEAN]
    /\ ws.nv = NV - round
    /\ Mid(ws) <= ws.n /\ ws.n <= 2 * Mid(ws)
    /\ ws.single \/ driver.chunked

(* Chunks are of the first half; what is folded goes to as many elements. *)
ChunksOK ==
  /\ pc \in {"summing", "folding"} => todo \subseteq Ranges(Mid(ws)) /\ driver.chunked
  /\ pc = "folding" => mlesP \in Arrays(Mid(ws))

(***************************************************************************)
(* The verifier is called once the prover has returned; while it goes on,  *)
(* the proof has the dimensions of the problem, and each of its rounds is  *)
(* one of the prover's.                                                    *)
(***************************************************************************)
VerifierOK ==
  verifier # None =>
    /\ pc = "returned"
    /\ verifier \in [claim : F, expected : F, proof : [0 .. NV * problem.length - 1 -> F],
                     degree : Nat, point : Seq(F), result : {"running", "accepted", "rejected"}]
    /\ verifier.result # "rejected" => verifier.degree + 1 = problem.length
    /\ verifier.result = "running" => Len(verifier.point) < NV
    /\ verifier.result = "accepted" => Len(verifier.point) = NV

TypeInv == CallOK /\ RoundOK /\ PolysOK /\ WorkspaceOK /\ ChunksOK /\ VerifierOK

-----------------------------------------------------------------------------

(* What the driver relies on in every round: the array is whole, and split by its middle. *)
LEMMA MidIs ==
  ASSUME SumcheckAssumption, TypeInv, pc \in Rounds
  PROVE  /\ Mid(ws) \in Nat \ {0} /\ Mid(ws) <= ws.n /\ ws.n <= 2 * Mid(ws)
         /\ ws.n \in Nat \ {0} /\ ws.mles \in Arrays(ws.n)
         /\ NumMles(ws) = NumMles(problem) /\ NumMles(problem) \in Nat
<1>1. /\ ws.n \in Nat \ {0} /\ ws.nv \in Nat \ {0} /\ ws.mles \in Arrays(ws.n)
      /\ Mid(ws) <= ws.n /\ ws.n <= 2 * Mid(ws) /\ problem \in Problems
  BY DEF TypeInv, WorkspaceOK, CallOK, Rounds
<1>2. ws.nv - 1 \in Nat
  BY <1>1
<1>3. Mid(ws) \in Nat \ {0}
  BY <1>2, PowerStep DEF Mid
<1>4. NumMles(problem) \in Nat
  BY <1>1, ProblemIs
<1>5. NumMles(ws) = NumMles(problem)
  BY <1>1, <1>4, NumMlesIs DEF Arrays
<1> QED BY <1>1, <1>3, <1>4, <1>5

(* Before the call nothing is there yet. *)
LEMMA InitTypes ==
  ASSUME SumcheckAssumption, Init
  PROVE  TypeInv
BY DEF Init, TypeInv, CallOK, RoundOK, PolysOK, WorkspaceOK, ChunksOK, VerifierOK, Rounds, None

(* The first round is on the problem's own array. *)
LEMMA ProveSumTypes ==
  ASSUME SumcheckAssumption, TypeInv, NEW p \in Problems, NEW d \in Drivers, ProveSum(p, d)
  PROVE  TypeInv'
<1>1. /\ pc = "idle" /\ problem' = p /\ driver' = d /\ pc' = "sum"
      /\ ws' = [mles |-> p.mles, n |-> p.n, nv |-> NumVariables(p.n),
                single |-> ~d.chunked \/ Cardinality(DOMAIN p.mles) <= d.cutoff]
      /\ polys' = [i \in 0 .. NumVariables(p.n) * p.length - 1 |-> 1]
      /\ round' = round /\ point' = point /\ verifier' = verifier
  BY DEF ProveSum
<1>2. round = 0 /\ point = << >> /\ verifier = None
  BY <1>1 DEF TypeInv, CallOK, VerifierOK
<1>3. p.n \in Nat \ {0} /\ p.mles \in [0 .. NumMles(p) * p.n - 1 -> F]
  BY DEF SumcheckAssumption
<1>4. /\ NumVariables(p.n) \in Nat \ {0}
      /\ PowerOf2(NumVariables(p.n) - 1) <= p.n /\ p.n <= 2 * PowerOf2(NumVariables(p.n) - 1)
  BY <1>3, NumVariablesIs
<1>5. CallOK'
  BY <1>1 DEF CallOK, Rounds
<1>6. RoundOK'
  BY <1>1, <1>2, <1>4 DEF RoundOK, NV
<1>7. PolysOK'
  BY <1>1, InField DEF PolysOK, NV
<1>8. WorkspaceOK'
  <2>1. ws'.mles = p.mles /\ ws'.n = p.n /\ ws'.nv = NumVariables(p.n)
    BY <1>1
  <2>2. ws' \in [mles : Arrays(ws.n)', n : Nat \ {0}, nv : Nat \ {0}, single : BOOLEAN]
    BY <1>1, <1>3, <1>4, <2>1 DEF Arrays
  <2>3. Mid(ws)' = PowerOf2(NumVariables(p.n) - 1)
    BY <2>1 DEF Mid
  <2>4. ws'.single \/ driver'.chunked
    BY <1>1
  <2>5. ws'.nv = NV' - round'
    BY <1>1, <1>2, <1>4, <2>1 DEF NV
  <2> QED BY <1>4, <2>1, <2>2, <2>3, <2>4, <2>5 DEF WorkspaceOK
<1>9. ChunksOK'
  BY <1>1 DEF ChunksOK
<1>10. VerifierOK'
  BY <1>1, <1>2 DEF VerifierOK
<1> QED BY <1>5, <1>6, <1>7, <1>8, <1>9, <1>10 DEF TypeInv

(* Where a round's polynomial is written, and what else stays *)
LEMMA WriteTypes ==
  ASSUME SumcheckAssumption, TypeInv, pc \in Rounds,
         NEW value \in [0 .. problem.length - 1 -> F], WritePolynomial(value),
         problem' = problem
  PROVE  polys' \in [0 .. NV * problem.length - 1 -> F]
<1>1. polys \in [0 .. NV * problem.length - 1 -> F] /\ problem \in Problems
  BY DEF TypeInv, CallOK, PolysOK, Rounds
<1>2. problem.length \in Nat \ {0}
  BY <1>1, ProblemIs
<1>3. \A i \in 0 .. NV * problem.length - 1 : (i % problem.length) \in 0 .. problem.length - 1
  <2>1. \A i \in Int : (i % problem.length) \in 0 .. problem.length - 1
    BY <1>2, ModRange
  <2> QED BY <2>1
<1>4. \A i \in 0 .. NV * problem.length - 1 :
        (IF i \div problem.length = round THEN value[i % problem.length] ELSE polys[i]) \in F
  BY <1>1, <1>3
<1> QED BY <1>1, <1>4 DEF WritePolynomial

(* sum on a single GPU, or on the CPU, writes one polynomial of the round. *)
LEMMA SumWholeTypes ==
  ASSUME SumcheckAssumption, TypeInv, SumWhole
  PROVE  TypeInv'
<1>1. /\ pc = "sum" /\ pc' = "challenge" /\ problem' = problem /\ driver' = driver /\ ws' = ws
      /\ round' = round /\ point' = point /\ verifier' = verifier
      /\ WritePolynomial(SumOfProducts(ws.mles, ws.n, Mid(ws)))
  BY DEF SumWhole
<1>2. pc \in Rounds /\ problem \in Problems
  BY <1>1 DEF Rounds, TypeInv, CallOK
<1>3. /\ Mid(ws) \in 0 .. ws.n /\ ws.n \in Nat
      /\ ws.mles \in [0 .. NumMles(problem) * ws.n - 1 -> F]
  BY <1>2, MidIs DEF Arrays
<1>4. SumOfProducts(ws.mles, ws.n, Mid(ws)) \in [0 .. problem.length - 1 -> F]
  BY <1>2, <1>3, SumOfProductsType
<1>5. polys' \in [0 .. NV * problem.length - 1 -> F]
  BY <1>1, <1>2, <1>4, WriteTypes
<1>6. PolysOK'
  BY <1>1, <1>5 DEF PolysOK, NV
<1>7. CallOK' /\ RoundOK'
  BY <1>1 DEF TypeInv, CallOK, RoundOK, Rounds, NV
<1>8. WorkspaceOK'
  BY <1>1 DEF TypeInv, WorkspaceOK, Rounds, NV, Arrays
<1>9. ChunksOK' /\ VerifierOK'
  BY <1>1 DEF TypeInv, ChunksOK, VerifierOK
<1> QED BY <1>6, <1>7, <1>8, <1>9 DEF TypeInv

(* The driver's options are those of a driver that works in chunks. *)
LEMMA SplitTypes ==
  ASSUME SumcheckAssumption, TypeInv, pc \in Rounds, ~ ws.single
  PROVE  ChunksOf(Mid(ws), driver.options) \subseteq Ranges(Mid(ws)) /\ driver.chunked
<1>1. driver \in Drivers /\ driver.chunked
  BY DEF TypeInv, CallOK, WorkspaceOK, Rounds
<1>2. /\ driver.options.min \in Nat \ {0} /\ driver.options.max \in Nat \ {0}
      /\ driver.options.factor \in Nat \ {0}
  BY <1>1 DEF SumcheckAssumption
<1>3. Mid(ws) \in Nat
  BY MidIs
<1> QED BY <1>1, <1>2, <1>3, SplitIs

(* The chunked sum starts with ranges of the first half. *)
LEMMA SumSplitTypes ==
  ASSUME SumcheckAssumption, TypeInv, SumSplit
  PROVE  TypeInv'
<1>1. /\ pc = "sum" /\ pc' = "summing" /\ problem' = problem /\ driver' = driver /\ ws' = ws
      /\ round' = round /\ point' = point /\ verifier' = verifier /\ polys' = polys /\ ~ ws.single
      /\ todo' = ChunksOf(Mid(ws), driver.options)
  BY DEF SumSplit
<1>2. pc \in Rounds
  BY <1>1 DEF Rounds
<1>3. ChunksOK'
  BY <1>1, <1>2, SplitTypes DEF ChunksOK
<1>4. CallOK' /\ RoundOK' /\ PolysOK'
  BY <1>1 DEF TypeInv, CallOK, RoundOK, PolysOK, Rounds, NV
<1>5. WorkspaceOK'
  BY <1>1 DEF TypeInv, WorkspaceOK, Rounds, NV, Arrays
<1>6. VerifierOK'
  BY <1>1 DEF TypeInv, VerifierOK
<1> QED BY <1>3, <1>4, <1>5, <1>6 DEF TypeInv

(* A chunk adds its coefficients to those of the round, which stay in their place. *)
LEMMA SumChunkTypes ==
  ASSUME SumcheckAssumption, TypeInv, NEW c \in todo, SumChunk(c)
  PROVE  TypeInv'
<1> DEFINE part == PartialMles(ws, c)
           sum == SumOfProducts(part.mles, part.np, c.b - c.a)
           value == [k \in DOMAIN sum |->
                       IF fresh THEN sum[k] ELSE (polys[round * problem.length + k] + sum[k]) % P]
<1>1. /\ pc = "summing" /\ problem' = problem /\ driver' = driver /\ ws' = ws
      /\ round' = round /\ point' = point /\ verifier' = verifier
      /\ todo' = todo \ {c} /\ pc' = IF todo' = {} THEN "challenge" ELSE "summing"
      /\ WritePolynomial(value)
  BY DEF SumChunk
<1>2. /\ pc \in Rounds /\ problem \in Problems
      /\ c \in Ranges(Mid(ws)) /\ todo \subseteq Ranges(Mid(ws))
      /\ driver.chunked
  BY <1>1 DEF Rounds, TypeInv, CallOK, ChunksOK
<1>3. /\ part.np \in Nat \ {0} /\ c.b - c.a \in 0 .. part.np
      /\ part.mles \in [0 .. NumMles(problem) * part.np - 1 -> F]
  BY <1>2, MidIs, PartialMlesIs DEF Arrays
<1> HIDE DEF part
<1>4. sum \in [0 .. problem.length - 1 -> F]
  BY <1>2, <1>3, SumOfProductsType
<1> HIDE DEF sum
<1>5. ASSUME NEW k \in 0 .. problem.length - 1
      PROVE  (IF fresh THEN sum[k] ELSE (polys[round * problem.length + k] + sum[k]) % P) \in F
  <2>1. /\ polys \in [0 .. NV * problem.length - 1 -> F] /\ round \in Nat /\ round < NV
        /\ problem.length \in Nat /\ NV \in Nat
    BY <1>1, <1>2, ProblemIs, DimensionIs DEF TypeInv, PolysOK, RoundOK, NV
  <2>2. round \in 0 .. NV - 1
    BY <2>1
  <2>3. round * problem.length + k \in 0 .. NV * problem.length - 1
    BY <2>1, <2>2, PlaceOfElement
  <2>4. polys[round * problem.length + k] \in Int /\ sum[k] \in Int /\ sum[k] \in F
    BY <1>4, <2>1, <2>3, InField
  <2>5. polys[round * problem.length + k] + sum[k] \in Int
    BY <2>4
  <2> QED BY <2>4, <2>5, InField
<1>6. value \in [0 .. problem.length - 1 -> F]
  BY <1>4, <1>5
<1> HIDE DEF value
<1>7. polys' \in [0 .. NV * problem.length - 1 -> F]
  BY <1>1, <1>2, <1>6, WriteTypes
<1>8. PolysOK'
  BY <1>1, <1>7 DEF PolysOK, NV
<1>9. pc' \in {"summing", "challenge"}
  BY <1>1
<1>10. CallOK' /\ RoundOK'
  BY <1>1, <1>9 DEF TypeInv, CallOK, RoundOK, Rounds, NV
<1>11. WorkspaceOK'
  BY <1>1, <1>9 DEF TypeInv, WorkspaceOK, Rounds, NV, Arrays
<1>12. ChunksOK'
  BY <1>1, <1>2, <1>9 DEF ChunksOK
<1>13. VerifierOK'
  BY <1>1 DEF TypeInv, VerifierOK
<1> QED BY <1>8, <1>10, <1>11, <1>12, <1>13 DEF TypeInv

(* The challenge of a round joins the point; the last round folds nothing. *)
LEMMA RoundChallengeTypes ==
  ASSUME SumcheckAssumption, TypeInv, NEW r \in F, RoundChallenge(r)
  PROVE  TypeInv'
<1>1. /\ pc = "challenge" /\ problem' = problem /\ driver' = driver /\ ws' = ws
      /\ round' = round /\ point' = Append(point, r) /\ verifier' = verifier /\ polys' = polys
      /\ pc' = IF round + 1 < NumVariables(problem.n) THEN "fold" ELSE "finish"
  BY DEF RoundChallenge
<1>2. problem \in Problems /\ point \in Seq(F) /\ Len(point) = round /\ round \in Nat /\ round < NV
      /\ verifier = None
  BY <1>1 DEF TypeInv, CallOK, RoundOK, VerifierOK
<1>3. NV \in Nat /\ NV' = NV
  BY <1>1, <1>2, DimensionIs DEF NV
<1>4. point' \in Seq(F) /\ Len(point') = round + 1
  BY <1>1, <1>2
<1>5. pc' \in {"fold", "finish"} /\ (pc' = "fold" => round + 1 < NV) /\ (pc' = "finish" => round + 1 = NV)
  BY <1>1, <1>2, <1>3 DEF NV
<1>6. RoundOK'
  BY <1>1, <1>2, <1>3, <1>4, <1>5 DEF RoundOK
<1>7. CallOK' /\ PolysOK'
  BY <1>1, <1>5 DEF TypeInv, CallOK, PolysOK, Rounds, NV
<1>8. WorkspaceOK'
  BY <1>1, <1>5 DEF TypeInv, WorkspaceOK, Rounds, NV, Arrays
<1>9. ChunksOK' /\ VerifierOK'
  BY <1>1, <1>2, <1>5 DEF ChunksOK, VerifierOK
<1> QED BY <1>6, <1>7, <1>8, <1>9 DEF TypeInv

(* Half of the elements are left, for one variable fewer. *)
LEMMA NextWorkspace ==
  ASSUME SumcheckAssumption, TypeInv, pc \in {"fold", "folding"},
         problem' = problem, driver' = driver, round' = round + 1, pc' = "sum",
         NEW mles \in Arrays(Mid(ws)), NEW single \in BOOLEAN, single \/ driver.chunked,
         ws' = [mles |-> mles, n |-> Mid(ws), nv |-> ws.nv - 1, single |-> single]
  PROVE  WorkspaceOK'
<1>1. /\ ws.nv \in Nat \ {0} /\ ws.nv = NV - round /\ problem \in Problems
      /\ round \in Nat /\ round + 1 < NV
  BY DEF TypeInv, CallOK, WorkspaceOK, RoundOK, Rounds
<1>2. NV \in Nat /\ NV' = NV
  BY <1>1, DimensionIs DEF NV
<1>3. ws.nv - 1 \in Nat \ {0} /\ ws.nv - 1 = NV - (round + 1)
  BY <1>1, <1>2
<1>4. ws'.nv = ws.nv - 1 /\ ws'.n = Mid(ws) /\ ws'.mles = mles /\ ws'.single = single
  OBVIOUS
<1>5. Mid(ws) \in Nat \ {0}
  BY MidIs DEF Rounds
<1>6. Mid(ws) = 2 * Mid(ws)' /\ Mid(ws)' \in Nat
  <2>1. (ws.nv - 1) - 1 \in Nat /\ ((ws.nv - 1) - 1) + 1 = ws.nv - 1
    BY <1>1, <1>3
  <2> DEFINE k == (ws.nv - 1) - 1
  <2>2. k \in Nat /\ k + 1 = ws.nv - 1
    BY <2>1
  <2>3. Mid(ws)' = PowerOf2(k)
    BY <1>4 DEF Mid
  <2> HIDE DEF k
  <2>4. PowerOf2(k + 1) = 2 * PowerOf2(k) /\ PowerOf2(k) \in Nat
    BY <2>2, PowerStep
  <2>5. Mid(ws) = PowerOf2(k + 1)
    BY <2>2 DEF Mid
  <2> QED BY <2>3, <2>4, <2>5
<1>7. Arrays(ws.n)' = Arrays(Mid(ws))
  BY <1>4 DEF Arrays
<1>8. ws' \in [mles : Arrays(ws.n)', n : Nat \ {0}, nv : Nat \ {0}, single : BOOLEAN]
  BY <1>3, <1>5, <1>7
<1>9. ws'.single \/ driver'.chunked
  BY <1>4
<1>10. Mid(ws)' <= ws'.n /\ ws'.n <= 2 * Mid(ws)'
  BY <1>4, <1>5, <1>6
<1> QED BY <1>2, <1>3, <1>4, <1>8, <1>9, <1>10 DEF WorkspaceOK

(* The next round is that of the next variable. *)
LEMMA NextRound ==
  ASSUME SumcheckAssumption, TypeInv, pc \in {"fold", "folding"},
         problem' = problem, driver' = driver, round' = round + 1, pc' = "sum",
         polys' = polys, point' = point, verifier' = verifier, WorkspaceOK'
  PROVE  TypeInv'
<1>1. /\ round \in Nat /\ round + 1 < NV /\ Len(point) = round + 1 /\ point \in Seq(F)
      /\ verifier = None
  BY DEF TypeInv, RoundOK, VerifierOK
<1>2. RoundOK'
  BY <1>1 DEF RoundOK, NV
<1>3. CallOK' /\ PolysOK'
  BY DEF TypeInv, CallOK, PolysOK, Rounds, NV
<1>4. ChunksOK' /\ VerifierOK'
  BY <1>1 DEF ChunksOK, VerifierOK
<1> QED BY <1>2, <1>3, <1>4 DEF TypeInv

(* A fold uses the challenge of its round. *)
LEMMA ChallengeIs ==
  ASSUME TypeInv, pc \in {"fold", "folding"}
  PROVE  DrawnChallenge \in F
<1>1. point \in Seq(F) /\ round + 1 \in 1 .. Len(point)
  BY DEF TypeInv, RoundOK
<1> QED BY <1>1, ElementOf DEF DrawnChallenge

(* An element of the folded array, by its MLE and its place there *)
LEMMA PlaceIs ==
  ASSUME NEW count \in Nat, NEW mid \in Nat \ {0}, NEW j \in 0 .. count * mid - 1
  PROVE  (j \div mid) \in 0 .. count - 1 /\ (j % mid) \in 0 .. mid - 1
<1>1. (j \div mid) \in 0 .. count - 1
  BY DivisionBelow
<1>2. j \in Int
  <2>1. count * mid \in Nat
    BY SMT
  <2> QED BY <2>1
<1> QED BY <1>1, <1>2, ModRange

(* fold on a single GPU, or on the CPU, leaves an array for one variable fewer. *)
LEMMA FoldWholeTypes ==
  ASSUME SumcheckAssumption, TypeInv, FoldWhole
  PROVE  TypeInv'
<1> DEFINE mid == Mid(ws)
           e(j) == FoldElement(ws.mles, j % mid, ws.n, mid, ws.n * (j \div mid), DrawnChallenge)
           mles == [j \in 0 .. mid * NumMles(ws) - 1 |-> e(j)]
<1>1. /\ pc = "fold" /\ pc' = "sum" /\ problem' = problem /\ driver' = driver /\ ws.single
      /\ round' = round + 1 /\ point' = point /\ verifier' = verifier /\ polys' = polys
      /\ ws' = [ws EXCEPT !.mles = mles, !.n = mid, !.nv = @ - 1]
  BY DEF FoldWhole
<1>2. /\ mid \in Nat \ {0} /\ mid <= ws.n /\ ws.n \in Nat \ {0} /\ ws.mles \in Arrays(ws.n)
      /\ NumMles(ws) = NumMles(problem) /\ NumMles(problem) \in Nat
  BY <1>1, MidIs DEF Rounds
<1>3. mid * NumMles(ws) = NumMles(problem) * mid
  BY <1>2, SMT
<1> HIDE DEF mid
<1>4. ASSUME NEW j \in 0 .. NumMles(problem) * mid - 1 PROVE e(j) \in F
  <2>1. (j \div mid) \in 0 .. NumMles(problem) - 1 /\ (j % mid) \in 0 .. mid - 1
    BY <1>2, PlaceIs
  <2>2. (j % mid) \in 0 .. ws.n - 1
    BY <1>2, <2>1
  <2>3. DrawnChallenge \in F
    BY <1>1, ChallengeIs
  <2>4. ws.mles \in [0 .. NumMles(problem) * ws.n - 1 -> F] /\ ws.n \in Nat /\ mid \in Nat
    BY <1>2 DEF Arrays
  <2> QED BY <1>2, <2>1, <2>2, <2>3, <2>4, FoldElementType
<1>5. mles \in Arrays(mid)
  <2> HIDE DEF e
  <2>1. [j \in 0 .. NumMles(problem) * mid - 1 |-> e(j)] \in [0 .. NumMles(problem) * mid - 1 -> F]
    BY <1>4
  <2> QED BY <1>3, <2>1 DEF Arrays
<1> HIDE DEF mles
<1>6. ws \in [mles : Arrays(ws.n), n : Nat \ {0}, nv : Nat \ {0}, single : BOOLEAN]
  BY <1>1 DEF TypeInv, WorkspaceOK, Rounds
<1>7. ws' = [mles |-> mles, n |-> mid, nv |-> ws.nv - 1, single |-> ws.single]
  BY <1>1, <1>6
<1>8. WorkspaceOK'
  <2>1. ws.single \in BOOLEAN
    BY <1>6
  <2> QED BY <1>1, <1>5, <1>7, <2>1, NextWorkspace DEF mid
<1> QED BY <1>1, <1>8, NextRound

(* The chunked fold starts with ranges of the first half and room for as many elements. *)
LEMMA FoldSplitTypes ==
  ASSUME SumcheckAssumption, TypeInv, FoldSplit
  PROVE  TypeInv'
<1>1. /\ pc = "fold" /\ pc' = "folding" /\ problem' = problem /\ driver' = driver /\ ws' = ws
      /\ round' = round /\ point' = point /\ verifier' = verifier /\ polys' = polys /\ ~ ws.single
      /\ todo' = ChunksOf(Mid(ws), driver.options)
      /\ mlesP' = [j \in 0 .. Mid(ws) * NumMles(ws) - 1 |-> 1]
  BY DEF FoldSplit
<1>2. pc \in Rounds
  BY <1>1 DEF Rounds
<1>3. todo' \subseteq Ranges(Mid(ws))' /\ driver'.chunked
  BY <1>1, <1>2, SplitTypes
<1>4. mlesP' \in Arrays(Mid(ws))'
  <2>1. Mid(ws) * NumMles(ws) = NumMles(problem) * Mid(ws)
    <3>1. Mid(ws) \in Nat /\ NumMles(ws) = NumMles(problem) /\ NumMles(problem) \in Nat
      BY <1>2, MidIs
    <3> QED BY <3>1, SMT
  <2>2. 1 \in F
    BY InField
  <2> QED BY <1>1, <2>1, <2>2 DEF Arrays
<1>5. ChunksOK'
  BY <1>3, <1>4 DEF ChunksOK
<1>6. CallOK' /\ RoundOK' /\ PolysOK'
  BY <1>1 DEF TypeInv, CallOK, RoundOK, PolysOK, Rounds, NV
<1>7. WorkspaceOK'
  BY <1>1 DEF TypeInv, WorkspaceOK, Rounds, NV, Arrays
<1>8. VerifierOK'
  BY <1>1 DEF TypeInv, VerifierOK
<1> QED BY <1>5, <1>6, <1>7, <1>8 DEF TypeInv

(* A chunk writes the elements of its range, in every MLE. *)
LEMMA FoldChunkTypes ==
  ASSUME SumcheckAssumption, TypeInv, NEW c \in todo, FoldChunk(c)
  PROVE  TypeInv'
<1> DEFINE part == PartialMles(ws, c)
           mid == Mid(ws)
           e(j) == FoldElement(part.mles, (j % mid) - c.a, part.np, c.b - c.a,
                               part.np * (j \div mid), DrawnChallenge)
<1>1. /\ pc = "folding" /\ pc' = pc /\ problem' = problem /\ driver' = driver /\ ws' = ws
      /\ round' = round /\ point' = point /\ verifier' = verifier /\ polys' = polys
      /\ todo' = todo \ {c}
      /\ mlesP' = [j \in DOMAIN mlesP |-> IF j % mid \in c.a .. c.b - 1 THEN e(j) ELSE mlesP[j]]
  BY DEF FoldChunk
<1>2. /\ pc \in Rounds /\ c \in Ranges(mid) /\ todo \subseteq Ranges(mid)
      /\ mlesP \in [0 .. NumMles(problem) * mid - 1 -> F] /\ driver.chunked
  BY <1>1 DEF Rounds, TypeInv, ChunksOK, Arrays
<1>3. /\ part.np \in Nat \ {0} /\ c.b - c.a \in 0 .. part.np
      /\ part.mles \in [0 .. NumMles(problem) * part.np - 1 -> F]
      /\ mid \in Nat \ {0} /\ NumMles(problem) \in Nat
  BY <1>2, MidIs, PartialMlesIs DEF Arrays
<1>4. c.a \in Nat /\ c.b \in Nat
  BY <1>2 DEF Ranges
<1> HIDE DEF part, mid
<1>5. ASSUME NEW j \in 0 .. NumMles(problem) * mid - 1, j % mid \in c.a .. c.b - 1
      PROVE  e(j) \in F
  <2>1. (j \div mid) \in 0 .. NumMles(problem) - 1 /\ (j % mid) \in 0 .. mid - 1
    BY <1>3, PlaceIs
  <2>2. (j % mid) - c.a \in 0 .. part.np - 1 /\ c.b - c.a \in Nat /\ part.np \in Nat
    <3> DEFINE i == j % mid
    <3>1. i \in c.a .. c.b - 1 /\ i \in Nat
      BY <1>5, <2>1
    <3> HIDE DEF i
    <3>2. c.b - c.a \in Nat /\ c.b - c.a <= part.np /\ part.np \in Nat
      BY <1>3
    <3>3. c.a <= i /\ i <= c.b - 1
      BY <1>4, <3>1
    <3>4. i - c.a \in 0 .. part.np - 1
      BY <1>4, <3>1, <3>2, <3>3
    <3> QED BY <3>2, <3>4 DEF i
  <2>3. DrawnChallenge \in F
    BY <1>1, ChallengeIs
  <2> QED BY <1>3, <2>1, <2>2, <2>3, FoldElementType
<1> HIDE DEF e
<1>6. mlesP' \in [0 .. NumMles(problem) * mid - 1 -> F]
  BY <1>1, <1>2, <1>5
<1>7. ChunksOK'
  BY <1>1, <1>2, <1>6 DEF ChunksOK, Arrays, mid
<1>8. CallOK' /\ RoundOK' /\ PolysOK'
  BY <1>1 DEF TypeInv, CallOK, RoundOK, PolysOK, Rounds, NV
<1>9. WorkspaceOK'
  BY <1>1 DEF TypeInv, WorkspaceOK, Rounds, NV, Arrays
<1>10. VerifierOK'
  BY <1>1 DEF TypeInv, VerifierOK
<1> QED BY <1>7, <1>8, <1>9, <1>10 DEF TypeInv

(* When the last chunk has finished, mles_p is the array of the next round. *)
LEMMA FoldEndTypes ==
  ASSUME SumcheckAssumption, TypeInv, FoldEnd
  PROVE  TypeInv'
<1> DEFINE single == Cardinality(DOMAIN mlesP) <= driver.cutoff
<1>1. /\ pc = "folding" /\ pc' = "sum" /\ problem' = problem /\ driver' = driver
      /\ round' = round + 1 /\ point' = point /\ verifier' = verifier /\ polys' = polys
      /\ ws' = [mles |-> mlesP, n |-> Mid(ws), nv |-> ws.nv - 1, single |-> single]
  BY DEF FoldEnd
<1>2. mlesP \in Arrays(Mid(ws))
  BY <1>1 DEF TypeInv, ChunksOK
<1>3. driver.chunked
  BY <1>1 DEF TypeInv, ChunksOK
<1>4. single \in BOOLEAN
  OBVIOUS
<1> HIDE DEF single
<1>5. WorkspaceOK'
  BY <1>1, <1>2, <1>3, <1>4, NextWorkspace
<1> QED BY <1>1, <1>5, NextRound

(* prove_sum returns after as many rounds as there are variables. *)
LEMMA ProverReturnsTypes ==
  ASSUME SumcheckAssumption, TypeInv, ProverReturns
  PROVE  TypeInv'
<1>1. /\ pc = "finish" /\ pc' = "returned" /\ problem' = problem
      /\ round' = round /\ point' = point /\ verifier' = verifier /\ polys' = polys
  BY DEF ProverReturns
<1>2. CallOK' /\ RoundOK' /\ PolysOK'
  BY <1>1 DEF TypeInv, CallOK, RoundOK, PolysOK, Rounds, NV
<1>3. WorkspaceOK' /\ ChunksOK' /\ VerifierOK'
  BY <1>1 DEF TypeInv, WorkspaceOK, ChunksOK, VerifierOK, Rounds
<1> QED BY <1>2, <1>3 DEF TypeInv

(* What the verifier's steps leave alone is the prover's. *)
LEMMA ProverKept ==
  ASSUME TypeInv, UNCHANGED proverVars, VerifierOK'
  PROVE  TypeInv'
<1>1. /\ problem' = problem /\ driver' = driver /\ pc' = pc /\ ws' = ws /\ round' = round
      /\ todo' = todo /\ mlesP' = mlesP /\ polys' = polys /\ point' = point
  BY DEF proverVars
<1>2. CallOK' /\ RoundOK' /\ PolysOK'
  BY <1>1 DEF TypeInv, CallOK, RoundOK, PolysOK, NV
<1>3. WorkspaceOK' /\ ChunksOK'
  BY <1>1 DEF TypeInv, WorkspaceOK, ChunksOK, NV, Arrays
<1> QED BY <1>2, <1>3 DEF TypeInv

(***************************************************************************)
(* The verifier called with any proof of the right length, for either of   *)
(* the degrees: more than Next lets it be called with.                     *)
(***************************************************************************)
VerifyAny ==
  \E claim \in F, proof \in [DOMAIN polys -> F], degree \in {problem.length - 1, problem.length} :
    Verify(claim, proof, degree)

AnyProofNext == Next \/ VerifyAny

AnyProofSpec == Init /\ [][AnyProofNext]_vars

(* The proofs that Next uses are among these. *)
LEMMA ProofsAreArrays ==
  ASSUME SumcheckAssumption, TypeInv, pc = "returned"
  PROVE  Proofs \subseteq [DOMAIN polys -> F] /\ polys \in [DOMAIN polys -> F]
<1>1. polys \in [0 .. NV * problem.length - 1 -> F]
  BY DEF TypeInv, PolysOK
<1>2. \A i \in DOMAIN polys, c \in F : [polys EXCEPT ![i] = c] \in [DOMAIN polys -> F]
  BY <1>1
<1> QED BY <1>1, <1>2 DEF Proofs

(* The dimensions of a proof: those of the problem, or it is rejected. *)
LEMMA VerifyTypes ==
  ASSUME SumcheckAssumption, TypeInv, NEW claim \in F,
         NEW proof \in [DOMAIN polys -> F], NEW degree \in {problem.length - 1, problem.length},
         Verify(claim, proof, degree)
  PROVE  TypeInv'
<1> DEFINE len == problem.length
           result == IF Cardinality(DOMAIN proof) = (degree + 1) * Len(point)
                     THEN "running" ELSE "rejected"
<1>1. /\ pc = "returned" /\ UNCHANGED proverVars
      /\ verifier' = [claim |-> claim, expected |-> claim, proof |-> proof, degree |-> degree,
                      point |-> <<>>, result |-> result]
  BY DEF Verify
<1>2. /\ problem \in Problems /\ polys \in [0 .. NV * len - 1 -> F]
      /\ Len(point) = NV
  BY <1>1 DEF TypeInv, CallOK, RoundOK, PolysOK
<1>3. len \in Nat \ {0, 1} /\ NV \in Nat \ {0}
  BY <1>2, ProblemIs, DimensionIs DEF NV
<1>4. proof \in [0 .. NV * len - 1 -> F] /\ degree \in Nat
  <2>1. degree = len - 1 \/ degree = len
    OBVIOUS
  <2> HIDE DEF len
  <2> QED BY <1>2, <1>3, <2>1
<1>5. Cardinality(DOMAIN proof) = NV * len
  <2> DEFINE top == NV * len
  <2>1. top \in Nat /\ DOMAIN proof = 0 .. top - 1
    <3>1. NV * len \in Nat
      BY <1>3, SMT
    <3> QED BY <1>4, <3>1
  <2> HIDE DEF top
  <2>2. 0 \in Int /\ top - 1 \in Int
    BY <2>1
  <2>3. Cardinality(0 .. top - 1) = IF 0 > top - 1 THEN 0 ELSE (top - 1) - 0 + 1
    BY <2>2, FS_Interval
  <2>4. Cardinality(0 .. top - 1) = top
    BY <2>1, <2>3
  <2> QED BY <2>1, <2>4 DEF top
<1>6. degree # len - 1 => result = "rejected"
  <2>1. ASSUME degree = len, NV * len = (degree + 1) * NV PROVE FALSE
    <3>1. (degree + 1) * NV = NV * len + NV
      BY <1>3, <2>1, SMTT(30)
    <3>2. NV * len \in Nat
      BY <1>3, SMT
    <3> QED BY <1>3, <2>1, <3>1, <3>2
  <2>2. degree # len - 1 => degree = len
    OBVIOUS
  <2> QED BY <1>2, <1>5, <2>1, <2>2
<1> HIDE DEF result
<1>7. result \in {"running", "rejected"}
  BY DEF result
<1>8. /\ verifier'.result = result /\ verifier'.degree = degree /\ verifier'.point = << >>
      /\ verifier' \in [claim : F, expected : F, proof : [0 .. NV * len - 1 -> F],
                        degree : Nat, point : Seq(F), result : {"running", "accepted", "rejected"}]
  BY <1>1, <1>4, <1>7
<1>9. VerifierOK'
  <2>1. problem' = problem /\ pc' = "returned" /\ NV' = NV
    BY <1>1 DEF proverVars, NV
  <2>2. result # "rejected" => degree + 1 = len
    BY <1>3, <1>6
  <2>3. Len(verifier'.point) < NV
    BY <1>3, <1>8
  <2> QED BY <1>7, <1>8, <2>1, <2>2, <2>3 DEF VerifierOK
<1> QED BY <1>1, <1>9, ProverKept

(* A proof that is rejected stays so. *)
LEMMA VerifyFailsTypes ==
  ASSUME TypeInv, VerifyFails
  PROVE  TypeInv'
<1>1. verifier # None /\ UNCHANGED proverVars /\ verifier' = [verifier EXCEPT !.result = "rejected"]
  BY DEF VerifyFails
<1>2. /\ pc = "returned"
      /\ verifier \in [claim : F, expected : F, proof : [0 .. NV * problem.length - 1 -> F],
                       degree : Nat, point : Seq(F), result : {"running", "accepted", "rejected"}]
  BY <1>1 DEF TypeInv, VerifierOK
<1>3. /\ verifier' \in [claim : F, expected : F, proof : [0 .. NV * problem.length - 1 -> F],
                        degree : Nat, point : Seq(F), result : {"running", "accepted", "rejected"}]
      /\ verifier'.result = "rejected"
  BY <1>1, <1>2
<1>4. problem' = problem /\ pc' = pc
  BY <1>1 DEF proverVars
<1>5. VerifierOK'
  BY <1>2, <1>3, <1>4 DEF VerifierOK, NV
<1> QED BY <1>1, <1>5, ProverKept

(* A round of the verifier that goes on: where it reads the proof, and what it keeps. *)
LEMMA VerifyRoundIs ==
  ASSUME SumcheckAssumption, TypeInv, NEW r \in F, VerifyRound(r)
  PROVE  /\ problem \in Problems /\ problem' = problem
         /\ problem.length \in Nat \ {0, 1} /\ verifier.degree + 1 = problem.length
         /\ verifier # None /\ verifier.result = "running"
         /\ verifier.point \in Seq(F) /\ Len(verifier.point) < NV /\ Len(point) = NV
         /\ \A k \in 0 .. Len(verifier.point) :
              /\ problem.length * k \in Nat
              /\ Coefficients(verifier.proof, problem.length * k, problem.length)
         /\ verifier.expected = SumPolynomial01(verifier.proof,
                                  problem.length * Len(verifier.point), problem.length)
         /\ UNCHANGED proverVars
         /\ verifier' = [verifier EXCEPT
              !.point = Append(@, r),
              !.expected = EvaluatePolynomial(verifier.proof,
                             problem.length * Len(verifier.point), problem.length, r),
              !.result = IF Len(verifier.point) + 1 = Len(point) THEN "accepted" ELSE @]
<1>1. verifier # None /\ verifier.result = "running" /\ UNCHANGED proverVars
  BY DEF VerifyRound
<1>2. /\ pc = "returned" /\ verifier.degree + 1 = problem.length /\ Len(verifier.point) < NV
      /\ verifier.point \in Seq(F) /\ verifier.proof \in [0 .. NV * problem.length - 1 -> F]
  BY <1>1 DEF TypeInv, VerifierOK
<1>3. problem \in Problems /\ Len(point) = NV
  BY <1>2 DEF TypeInv, CallOK, RoundOK
<1>4. problem.length \in Nat \ {0, 1} /\ NV \in Nat \ {0}
  BY <1>3, ProblemIs, DimensionIs DEF NV
<1>5. ASSUME NEW k \in 0 .. Len(verifier.point)
      PROVE  problem.length * k \in Nat /\ Coefficients(verifier.proof, problem.length * k, problem.length)
  <2>1. Len(verifier.point) \in Nat
    BY <1>2
  <2>2. k \in 0 .. NV - 1 /\ k \in Nat
    BY <1>2, <1>4, <2>1
  <2>3. problem.length * k = k * problem.length /\ problem.length * k \in Nat
    BY <1>4, <2>2, SMT
  <2>4. \A i \in 0 .. problem.length - 1 : k * problem.length + i \in 0 .. NV * problem.length - 1
    BY <1>4, <2>2, PlaceOfElement
  <2>5. \A i \in 0 .. problem.length - 1 : verifier.proof[k * problem.length + i] \in Int
    BY <1>2, <2>4, InField
  <2> QED BY <2>3, <2>5 DEF Coefficients
<1>6. problem' = problem
  BY <1>1 DEF proverVars
<1>7. /\ verifier.expected = SumPolynomial01(verifier.proof,
                               problem.length * Len(verifier.point), problem.length)
      /\ verifier' = [verifier EXCEPT
           !.point = Append(@, r),
           !.expected = EvaluatePolynomial(verifier.proof,
                          problem.length * Len(verifier.point), problem.length, r),
           !.result = IF Len(verifier.point) + 1 = Len(point) THEN "accepted" ELSE @]
  BY <1>2 DEF VerifyRound
<1> QED BY <1>1, <1>2, <1>3, <1>4, <1>5, <1>6, <1>7

(* A round of the verifier reads one polynomial and joins its challenge to the point. *)
LEMMA VerifyRoundTypes ==
  ASSUME SumcheckAssumption, TypeInv, NEW r \in F, VerifyRound(r)
  PROVE  TypeInv'
<1> DEFINE v == verifier
           len == problem.length
           k == Len(v.point)
           value == EvaluatePolynomial(v.proof, len * k, len, r)
           result == IF k + 1 = Len(point) THEN "accepted" ELSE v.result
<1>1. /\ problem \in Problems /\ problem' = problem /\ len \in Nat \ {0, 1}
      /\ v.degree + 1 = len /\ v # None /\ v.result = "running"
      /\ v.point \in Seq(F) /\ k < NV /\ Len(point) = NV /\ UNCHANGED proverVars
  BY VerifyRoundIs
<1>2. v' = [v EXCEPT !.point = Append(@, r), !.expected = value, !.result = result]
  BY VerifyRoundIs
<1>3. value \in F
  <2>1. k \in 0 .. k /\ r \in Int /\ len \in Nat
    <3>1. k \in Nat /\ len \in Nat
      BY <1>1
    <3>2. r \in Int
      BY InField
    <3> HIDE DEF k
    <3> QED BY <3>1, <3>2
  <2>2. len * k \in Nat /\ Coefficients(v.proof, len * k, len)
    BY <2>1, VerifyRoundIs
  <2> QED BY <2>1, <2>2, EvaluateType
<1> HIDE DEF value
<1>4. /\ pc = "returned"
      /\ v \in [claim : F, expected : F, proof : [0 .. NV * len - 1 -> F],
                degree : Nat, point : Seq(F), result : {"running", "accepted", "rejected"}]
  BY <1>1 DEF TypeInv, VerifierOK
<1>5. Append(v.point, r) \in Seq(F) /\ Len(Append(v.point, r)) = k + 1 /\ k \in Nat
  BY <1>1
<1>6. result \in {"running", "accepted"} /\ (result = "accepted" <=> k + 1 = Len(point))
  BY <1>1
<1>7. NV \in Nat /\ NV' = NV
  BY <1>1, DimensionIs DEF NV
<1> HIDE DEF result
<1>8. /\ v' \in [claim : F, expected : F, proof : [0 .. NV * len - 1 -> F],
                 degree : Nat, point : Seq(F), result : {"running", "accepted", "rejected"}]
      /\ v'.result = result /\ v'.degree = v.degree /\ Len(v'.point) = k + 1
  BY <1>2, <1>3, <1>4, <1>5, <1>6
<1>9. (result = "running" => k + 1 < NV) /\ (result = "accepted" => k + 1 = NV)
  BY <1>1, <1>5, <1>6, <1>7
<1>10. pc' = "returned"
  BY <1>1, <1>4 DEF proverVars
<1>11. VerifierOK'
  BY <1>1, <1>7, <1>8, <1>9, <1>10 DEF VerifierOK
<1> QED BY <1>1, <1>11, ProverKept

-----------------------------------------------------------------------------
(* The verifier's argument *)

(* The value at x of the proof's polynomial for the round after k challenges *)
Given(k, x) ==
  EvaluatePolynomial(verifier.proof, (verifier.degree + 1) * k, verifier.degree + 1, x)

(* The k-th challenge is a point where that polynomial and the true one meet by accident. *)
LuckyAt(k) ==
  LET before == SubSeq(verifier.point, 1, k - 1)
  IN /\ \E x \in F : Given(k - 1, x) # SumAt(Append(before, x))
     /\ Given(k - 1, verifier.point[k]) = SumAt(Append(before, verifier.point[k]))

Lucky == \E k \in 1 .. Len(verifier.point) : LuckyAt(k)

(* While a wrong sum has not been refuted, what is expected is wrong, or there was luck. *)
SoundOK ==
  verifier # None /\ verifier.result # "rejected" /\ verifier.claim # SumAt(<< >>)
    => Lucky \/ verifier.expected # SumAt(verifier.point)

(* Appending leaves the earlier elements, and prefixes, as they were. *)
LEMMA PrefixesKept ==
  ASSUME NEW S, NEW s \in Seq(S), NEW e \in S
  PROVE  /\ SubSeq(Append(s, e), 1, Len(s)) = s
         /\ \A k \in 0 .. Len(s) : SubSeq(Append(s, e), 1, k) = SubSeq(s, 1, k)
         /\ \A k \in 1 .. Len(s) : Append(s, e)[k] = s[k]
         /\ Append(s, e)[Len(s) + 1] = e
<1>1. \A k \in 0 .. Len(s) : SubSeq(Append(s, e), 1, k) = SubSeq(s, 1, k)
  OBVIOUS
<1>2. SubSeq(Append(s, e), 1, Len(s)) = s
  OBVIOUS
<1> QED BY <1>1, <1>2

(* Earlier luck lasts: the proof and the earlier challenges stay. *)
LEMMA LuckLasts ==
  ASSUME NEW r \in F, verifier.point \in Seq(F), problem' = problem,
         verifier'.point = Append(verifier.point, r),
         verifier'.proof = verifier.proof, verifier'.degree = verifier.degree, Lucky
  PROVE  Lucky'
<1>1. PICK k \in 1 .. Len(verifier.point) : LuckyAt(k)
  BY DEF Lucky
<1> DEFINE s == verifier.point
<1>2. k \in 1 .. Len(Append(s, r)) /\ k - 1 \in 0 .. Len(s)
  OBVIOUS
<1>3. SubSeq(Append(s, r), 1, k - 1) = SubSeq(s, 1, k - 1) /\ Append(s, r)[k] = s[k]
  BY <1>2, PrefixesKept
<1>4. \A x : Given(k - 1, x)' = Given(k - 1, x) /\ SumAt(x)' = SumAt(x)
  BY SameProblem DEF Given
<1>5. LuckyAt(k)'
  BY <1>1, <1>3, <1>4 DEF LuckyAt
<1> QED BY <1>2, <1>5 DEF Lucky

(***************************************************************************)
(* A round keeps the statement.  If what was expected is wrong, the given  *)
(* polynomial differs from the true one at 0 or at 1, for both sums over   *)
(* the halves are of the same form; so it is wrong at the challenge too,   *)
(* or the challenge is a point where the two meet by accident.             *)
(***************************************************************************)
LEMMA VerifyRoundSound ==
  ASSUME SumcheckAssumption, TypeInv, SoundOK, NEW r \in F, VerifyRound(r)
  PROVE  SoundOK'
<1> DEFINE v == verifier
           len == problem.length
           s == v.point
           k == Len(s)
           g(x) == EvaluatePolynomial(v.proof, len * k, len, x)
<1>1. /\ problem \in Problems /\ problem' = problem /\ len \in Nat \ {0, 1}
      /\ v.degree + 1 = len /\ v # None /\ v.result = "running"
      /\ s \in Seq(F) /\ k < NV /\ v.expected = SumPolynomial01(v.proof, len * k, len)
  BY VerifyRoundIs
<1>2. k \in Nat /\ len * k \in Nat /\ Coefficients(v.proof, len * k, len) /\ len \in Nat \ {0}
  <2>1. k \in 0 .. k /\ k \in Nat
    BY <1>1
  <2>2. len * k \in Nat /\ Coefficients(v.proof, len * k, len)
    BY <2>1, VerifyRoundIs
  <2> QED BY <1>1, <2>1, <2>2
<1>3. verifier \in [claim : F, expected : F, proof : [0 .. NV * len - 1 -> F],
                    degree : Nat, point : Seq(F), result : {"running", "accepted", "rejected"}]
  BY <1>1 DEF TypeInv, VerifierOK
<1>4. /\ v'.point = Append(s, r) /\ v'.expected = g(r) /\ v'.proof = v.proof
      /\ v'.degree = v.degree /\ v'.claim = v.claim
  BY <1>3, VerifyRoundIs, ZenonT(30)
<1>5. \A x : SumAt(x)' = SumAt(x)
  BY <1>1, SameProblem
<1> SUFFICES ASSUME v.claim # SumAt(<< >>)
             PROVE  Lucky' \/ g(r) # SumAt(Append(s, r))
  BY <1>4, <1>5 DEF SoundOK
<1>6. CASE Lucky
  BY <1>1, <1>4, <1>6, LuckLasts
<1>7. CASE ~ Lucky
  <2>1. v.expected # SumAt(s)
    BY <1>1, <1>7 DEF SoundOK
  <2>2. v.expected = (g(0) + g(1)) % P
    BY <1>1, <1>2, SumOfEnds
  <2>3. SumAt(s) = (SumAt(Append(s, 0)) + SumAt(Append(s, 1))) % P
    BY <1>1, SumOfHalves DEF NV
  <2>4. PICK b \in F : g(b) # SumAt(Append(s, b))
    <3>1. 0 \in F /\ 1 \in F
      BY InField
    <3> HIDE DEF g
    <3> QED BY <2>1, <2>2, <2>3, <3>1
  <2>5. ASSUME g(r) = SumAt(Append(s, r)) PROVE Lucky'
    <3>1. PICK i \in Nat, j \in Nat : i = k /\ j = i + 1
      BY <1>2
    <3>2. /\ j \in 1 .. Len(Append(s, r)) /\ j - 1 = i
          /\ SubSeq(Append(s, r), 1, i) = s /\ Append(s, r)[j] = r
      BY <1>1, <1>2, <3>1, PrefixesKept
    <3>3. ASSUME NEW x PROVE Given(i, x)' = g(x)
      BY <1>1, <1>4, <3>1 DEF Given
    <3> HIDE DEF g, s
    <3>4. LuckyAt(j)'
      BY <1>4, <1>5, <2>4, <2>5, <3>2, <3>3 DEF LuckyAt
    <3> QED BY <1>4, <3>2, <3>4 DEF Lucky
  <2> QED BY <2>5
<1> QED BY <1>6, <1>7

(* A step that leaves the verifier running where it is leaves the statement alone. *)
LEMMA SoundKept ==
  ASSUME SoundOK, problem' = problem, verifier' = verifier
  PROVE  SoundOK'
<1>1. \A x : SumAt(x)' = SumAt(x)
  BY SameProblem
<1>2. \A k, x : Given(k, x)' = Given(k, x)
  BY DEF Given
<1>3. \A k : LuckyAt(k)' = LuckyAt(k)
  BY <1>1, <1>2 DEF LuckyAt
<1>4. Lucky' = Lucky
  BY <1>3 DEF Lucky
<1> QED BY <1>1, <1>4 DEF SoundOK

Inv == TypeInv /\ SoundOK

(* Every step of prover or verifier keeps types and statement. *)
LEMMA StepKeepsInv ==
  ASSUME SumcheckAssumption, Inv, [AnyProofNext]_vars
  PROVE  Inv'
<1>0. TypeInv /\ SoundOK
  BY DEF Inv
<1>1. CASE UNCHANGED vars
  <2>1. UNCHANGED proverVars /\ verifier' = verifier /\ problem' = problem
    BY <1>1 DEF vars, proverVars
  <2>2. VerifierOK'
    BY <1>0, <2>1 DEF TypeInv, VerifierOK, proverVars, NV
  <2>3. TypeInv'
    BY <1>0, <2>1, <2>2, ProverKept
  <2> QED BY <1>0, <2>1, <2>3, SoundKept DEF Inv
<1>2. ASSUME NEW p \in Problems, NEW d \in Drivers, ProveSum(p, d) PROVE Inv'
  <2>1. TypeInv'
    BY <1>0, <1>2, ProveSumTypes
  <2>2. verifier' = None
    BY <1>0, <1>2 DEF ProveSum, TypeInv, VerifierOK
  <2> QED BY <2>1, <2>2 DEF Inv, SoundOK
<1>3. ASSUME SumWhole \/ SumSplit \/ (\E c \in todo : SumChunk(c)) \/ (\E r \in F : RoundChallenge(r))
             \/ FoldWhole \/ FoldSplit \/ (\E c \in todo : FoldChunk(c)) \/ FoldEnd \/ ProverReturns
      PROVE  Inv'
  <2>1. problem' = problem /\ verifier' = verifier
    BY <1>3 DEF SumWhole, SumSplit, SumChunk, RoundChallenge, FoldWhole, FoldSplit, FoldChunk,
                FoldEnd, ProverReturns
  <2>2. TypeInv'
    BY <1>0, <1>3, SumWholeTypes, SumSplitTypes, SumChunkTypes, RoundChallengeTypes,
       FoldWholeTypes, FoldSplitTypes, FoldChunkTypes, FoldEndTypes, ProverReturnsTypes
  <2> QED BY <1>0, <2>1, <2>2, SoundKept DEF Inv
<1>4. ASSUME NEW claim \in F, NEW proof \in [DOMAIN polys -> F],
             NEW degree \in {problem.length - 1, problem.length}, Verify(claim, proof, degree)
      PROVE  Inv'
  <2>1. TypeInv'
    BY <1>0, <1>4, VerifyTypes
  <2>2. verifier'.claim = claim /\ verifier'.expected = claim /\ verifier'.point = << >> /\ problem' = problem
    BY <1>4 DEF Verify, proverVars
  <2>3. SoundOK'
    BY <2>2, SameProblem DEF SoundOK
  <2> QED BY <2>1, <2>3 DEF Inv
<1>5. ASSUME NEW r \in F, VerifyRound(r) PROVE Inv'
  BY <1>0, <1>5, VerifyRoundTypes, VerifyRoundSound DEF Inv
<1>6. CASE VerifyFails
  <2>1. TypeInv'
    BY <1>0, <1>6, VerifyFailsTypes
  <2>2. verifier'.result = "rejected"
    <3>1. verifier # None /\ verifier' = [verifier EXCEPT !.result = "rejected"]
      BY <1>6 DEF VerifyFails
    <3>2. verifier \in [claim : F, expected : F, proof : [0 .. NV * problem.length - 1 -> F],
                        degree : Nat, point : Seq(F), result : {"running", "accepted", "rejected"}]
      BY <1>0, <3>1 DEF TypeInv, VerifierOK
    <3> QED BY <3>1, <3>2
  <2> QED BY <2>1, <2>2 DEF Inv, SoundOK
<1>7. CASE VerifyAny
  BY <1>4, <1>7 DEF VerifyAny
<1>8. ASSUME NEW claim \in F, NEW proof, NEW degree,
             \/ proof \in Proofs /\ degree = problem.length - 1
             \/ proof = polys /\ degree = problem.length,
             Verify(claim, proof, degree)
      PROVE  VerifyAny
  <2>1. pc = "returned"
    BY <1>8 DEF Verify
  <2> QED BY <1>0, <1>8, <2>1, ProofsAreArrays DEF VerifyAny
<1>9. CASE Next
  BY <1>2, <1>3, <1>5, <1>6, <1>7, <1>8, <1>9 DEF Next
<1> QED BY <1>1, <1>7, <1>9 DEF AnyProofNext

(***************************************************************************)
(* Throughout prove_sum and verify_sumcheck_no_evaluation, whatever the    *)
(* field, the problem, the driver and the proof: the workspace, the folded *)
(* arrays, the chunks and the polynomials keep their shape (every index    *)
(* that they are used with is in range), rounds and challenges stay in     *)
(* step, and the verifier's state fits the claim.                          *)
(***************************************************************************)
THEOREM AnyProofInvariance ==
  ASSUME SumcheckAssumption
  PROVE  AnyProofSpec => []Inv
<1>1. Init => Inv
  <2> SUFFICES ASSUME Init PROVE Inv
    OBVIOUS
  <2>1. TypeInv
    BY InitTypes
  <2> QED BY <2>1 DEF Inv, SoundOK, Init
<1>2. Inv /\ [AnyProofNext]_vars => Inv'
  BY StepKeepsInv
<1> QED BY <1>1, <1>2, PTL DEF AnyProofSpec

(* Spec's proofs are among any, so the same holds of it. *)
THEOREM Invariance ==
  ASSUME SumcheckAssumption
  PROVE  Spec => []Inv
<1>1. [Next]_vars => [AnyProofNext]_vars
  BY DEF AnyProofNext
<1>2. Spec => AnyProofSpec
  BY <1>1, PTL DEF Spec, AnyProofSpec
<1> QED BY <1>2, AnyProofInvariance, PTL

(* At the end, the invariant is the verifier's claim. *)
LEMMA InvGivesSoundness ==
  ASSUME SumcheckAssumption, Inv
  PROVE  WrongSumNeedsLuck
<1> SUFFICES ASSUME verifier # None, verifier.result = "accepted",
                    verifier.claim # SumAt(<< >>), verifier.expected = ValueAt(verifier.point)
             PROVE  \E k \in 1 .. Len(point) : LuckyAt(k)
  BY DEF WrongSumNeedsLuck, LuckyAt, Given, Verdict
<1>1. TypeInv /\ SoundOK
  BY DEF Inv
<1>2. /\ pc = "returned" /\ Len(verifier.point) = NV /\ verifier.point \in Seq(F)
  BY <1>1 DEF TypeInv, VerifierOK
<1>3. problem \in Problems /\ Len(point) = NV
  BY <1>1, <1>2 DEF TypeInv, CallOK, RoundOK
<1>4. SumAt(verifier.point) = ValueAt(verifier.point)
  BY <1>2, <1>3, SumOfAll DEF NV
<1>5. Lucky
  BY <1>1, <1>4 DEF SoundOK
<1> QED BY <1>2, <1>3, <1>5 DEF Lucky

(***************************************************************************)
(* verify_sumcheck_no_evaluation is sound: a proof of a wrong sum that it  *)
(* accepts with the right evaluation has a round whose challenge is a      *)
(* point where the given polynomial and the true one meet by accident.     *)
(***************************************************************************)
THEOREM WrongSumsAlwaysNeedLuck ==
  ASSUME SumcheckAssumption
  PROVE  Spec => []WrongSumNeedsLuck
BY InvGivesSoundness, Invariance, PTL

(* The same for any proof of the right length, not only the prover's and   *)
(* those that verify_sumcheck_no_evaluation is given in Next.              *)
THEOREM AnyProofNeedsLuck ==
  ASSUME SumcheckAssumption
  PROVE  AnyProofSpec => []WrongSumNeedsLuck
BY InvGivesSoundness, AnyProofInvariance, PTL

-----------------------------------------------------------------------------
(* Sums of weighted terms, and the value of a sum of polynomials *)

(* Weighted sums of polynomials: the coefficients of p are those of the   *)
(* c[u], times weight[u], up to multiples of P                             *)
IsWeighted(p, first, len, c, weight, D) ==
  \A k \in 0 .. len - 1 :
    Congruent(p[first + k], SumFunction([u \in D |-> weight[u] * c[u][k]]), P)

(* The polynomials c[u] have len coefficients, and total[u] is the weighted *)
(* value of c[u].                                                          *)
ArePolynomials(c, len, D) == \A u \in D : c[u] \in [0 .. len - 1 -> Int]
AreValues(total, c, weight, len, x, D) ==
  total = [u \in D |-> weight[u] * EvaluatePolynomial(c[u], 0, len, x)]

(* The value of a sum of polynomials is the sum of their values. *)
LEMMA EvaluateSum ==
  ASSUME SumcheckAssumption, NEW p, NEW first \in Nat, NEW len \in Nat, NEW x \in Int,
         Coefficients(p, first, len), NEW D, IsFiniteSet(D), NEW weight \in [D -> Int],
         NEW c, ArePolynomials(c, len, D), IsWeighted(p, first, len, c, weight, D),
         NEW total, AreValues(total, c, weight, len, x, D)
  PROVE  Congruent(EvaluatePolynomial(p, first, len, x), SumFunction(total), P)
<1>0. \A u \in D : c[u] \in [0 .. len - 1 -> Int]
  BY DEF ArePolynomials
<1>3. P \in Nat \ {0} /\ F \subseteq Int
  <2>1. P \in Nat /\ P > 1 /\ F \subseteq Int
    BY InField
  <2> QED BY <2>1
<1>1. PICK r \in [0 .. len -> F] :
        EvaluatePolynomial(p, first, len, x) = r[len] /\ IsHorner(r, p, first, len, x)
  BY EvaluateIs
<1> DEFINE horner(u, k) ==
             (CHOOSE s \in [0 .. len -> F] : /\ EvaluatePolynomial(c[u], 0, len, x) = s[len]
                                             /\ IsHorner(s, c[u], 0, len, x))[k]
           parts(k) == [u \in D |-> weight[u] * horner(u, k)]
           G == {k \in 0 .. len : Congruent(r[k], SumFunction(parts(k)), P)}
<1>2. ASSUME NEW u \in D
      PROVE  /\ \A k \in 0 .. len : horner(u, k) \in Int
             /\ EvaluatePolynomial(c[u], 0, len, x) = horner(u, len)
             /\ horner(u, 0) = 0
             /\ \A k \in 1 .. len : horner(u, k) = (horner(u, k - 1) * x + c[u][len - k]) % P
  <2>1. Coefficients(c[u], 0, len)
    BY <1>0 DEF Coefficients
  <2>2. \E s \in [0 .. len -> F] : /\ EvaluatePolynomial(c[u], 0, len, x) = s[len]
                                   /\ IsHorner(s, c[u], 0, len, x)
    BY <2>1, EvaluateIs
  <2>3. PICK s : /\ s = CHOOSE t \in [0 .. len -> F] :
                            /\ EvaluatePolynomial(c[u], 0, len, x) = t[len]
                            /\ IsHorner(t, c[u], 0, len, x)
                 /\ s \in [0 .. len -> F]
                 /\ EvaluatePolynomial(c[u], 0, len, x) = s[len]
                 /\ IsHorner(s, c[u], 0, len, x)
    BY <2>2
  <2>4. \A k : horner(u, k) = s[k]
    BY <2>3
  <2> HIDE DEF horner
  <2>5. \A k \in 1 .. len : s[k] = (s[k - 1] * x + c[u][len - k]) % P
    <3>1. \A k \in 1 .. len : 0 + len - k = len - k
      OBVIOUS
    <3> QED BY <2>3, <3>1 DEF IsHorner
  <2>6. F \subseteq Int
    BY InField
  <2> QED BY <2>3, <2>4, <2>5, <2>6, ZenonT(30) DEF IsHorner
<1> HIDE DEF horner
<1>4. \A k \in 0 .. len : parts(k) \in [D -> Int] /\ SumFunction(parts(k)) \in Int
  <2> SUFFICES ASSUME NEW k \in 0 .. len
               PROVE  parts(k) \in [D -> Int] /\ SumFunction(parts(k)) \in Int
    OBVIOUS
  <2>1. \A u \in D : weight[u] * horner(u, k) \in Int
    <3> SUFFICES ASSUME NEW u \in D PROVE weight[u] * horner(u, k) \in Int
      OBVIOUS
    <3>1. horner(u, k) \in Int /\ weight[u] \in Int
      BY <1>2
    <3> QED BY <3>1
  <2>2. parts(k) \in [D -> Int]
    BY <2>1
  <2> HIDE DEF parts
  <2> QED BY <2>2, SumType DEF SumFunction
<1>5. 0 \in G
  <2>1. parts(0) \in [D -> Int] /\ \A u \in D : parts(0)[u] = 0
    <3>1. \A u \in D : weight[u] * horner(u, 0) = 0
      BY <1>2
    <3> QED BY <3>1
  <2>3. SumFunction(parts(0)) = 0
    <3> HIDE DEF parts
    <3> QED BY <2>1, SumOfZeros
  <2>4. r[0] = 0 /\ 0 \in 0 .. len
    BY <1>1 DEF IsHorner
  <2>5. Congruent(0, 0, P)
    BY <1>3, CongruentRemainder
  <2> HIDE DEF parts
  <2> QED BY <2>3, <2>4, <2>5
<1>6. ASSUME NEW k \in 1 .. len, k - 1 \in G PROVE k \in G
  <2> DEFINE j == len - k
             f == parts(k - 1)
             g == [u \in D |-> weight[u] * c[u][j]]
  <2>1. j \in 0 .. len - 1 /\ k - 1 \in 0 .. len /\ k \in 0 .. len
    OBVIOUS
  <2>2. \A u \in D : weight[u] \in Int /\ c[u][j] \in Int /\ weight[u] * c[u][j] \in Int
    <3> SUFFICES ASSUME NEW u \in D
                 PROVE  weight[u] \in Int /\ c[u][j] \in Int /\ weight[u] * c[u][j] \in Int
      OBVIOUS
    <3>1. weight[u] \in Int /\ c[u][j] \in Int
      BY <1>0, <2>1
    <3> QED BY <3>1
  <2>3. f \in [D -> Int] /\ g \in [D -> Int] /\ parts(k) \in [D -> Int]
    BY <1>4, <2>1, <2>2
  <2>4. LinearIn(parts(k), f, g, x, D, P)
    <3> SUFFICES ASSUME NEW u \in D
                 PROVE  Congruent(parts(k)[u], f[u] * x + g[u], P)
      BY DEF LinearIn
    <3>1. PICK w, a, b, d : w = weight[u] /\ a = horner(u, k - 1) /\ b = c[u][j] /\ d = horner(u, k)
      OBVIOUS
    <3>2. w \in Int /\ a \in Int /\ b \in Int /\ d \in Int
      BY <1>2, <2>1, <2>2, <3>1
    <3>3. d = (a * x + b) % P
      BY <1>2, <3>1
    <3>4. a * x + b \in Int
      BY <3>2, SMT
    <3>5. Congruent(d, a * x + b, P)
      BY <1>3, <3>3, <3>4, CongruentRemainder
    <3>6. Congruent(w * d, w * (a * x + b), P)
      BY <1>3, <3>2, <3>4, <3>5, CongruentProduct, CongruentRemainder
    <3>7. w * (a * x + b) = (w * a) * x + w * b
      BY <3>2, SMT
    <3>8. parts(k)[u] = w * d /\ f[u] = w * a /\ g[u] = w * b
      BY <3>1
    <3> QED BY <3>6, <3>7, <3>8
  <2>5. Congruent(p[first + j], SumFunction(g), P)
    BY <2>1 DEF IsWeighted
  <2>6. p[first + j] \in Int /\ SumFunction(g) \in Int
    BY <2>1, <2>3, SumType DEF Coefficients, SumFunction
  <2>7. r[k] = (r[k - 1] * x + p[first + j]) % P
    <3>1. first + len - k = first + j
      OBVIOUS
    <3> QED BY <1>1, <3>1 DEF IsHorner
  <2>8. Congruent(r[k - 1], SumFunction(f), P)
    BY <1>6
  <2>9. r[k - 1] \in Int /\ r[k] \in Int /\ SumFunction(f) \in Int /\ SumFunction(parts(k)) \in Int
    BY <1>1, <1>3, <1>4, <2>1
  <2> HIDE DEF f, g, parts, j
  <2>10. Congruent(r[k], SumFunction(f) * x + SumFunction(g), P)
    BY <1>3, <2>5, <2>6, <2>7, <2>8, <2>9, CongruentLinear
  <2>11. Congruent(SumFunction(parts(k)), SumFunction(f) * x + SumFunction(g), P)
    BY <1>3, <2>3, <2>4, SumLinear
  <2>12. SumFunction(f) * x + SumFunction(g) \in Int
    BY <2>6, <2>9
  <2>13. Congruent(SumFunction(f) * x + SumFunction(g), SumFunction(parts(k)), P)
    BY <1>3, <2>9, <2>11, <2>12, CongruentEquivalence
  <2>14. Congruent(SumFunction(f) * x + SumFunction(g), r[k], P)
    BY <1>3, <2>9, <2>10, <2>12, CongruentEquivalence
  <2> QED BY <1>3, <2>1, <2>9, <2>10, <2>12, <2>13, CongruentEquivalence
<1>7. len \in G
  <2> HIDE DEF G
  <2>1. \A k \in 0 .. len : k \in G
    BY <1>5, <1>6, BoundedInduction
  <2> QED BY <2>1
<1>8. parts(len) = [u \in D |-> weight[u] * EvaluatePolynomial(c[u], 0, len, x)]
  BY <1>2
<1> QED BY <1>1, <1>7, <1>8 DEF AreValues

-----------------------------------------------------------------------------
(* expand_products: multiplying with a linear polynomial *)

(* Sorting the terms of a sum of products *)
LEMMA Distribute ==
  ASSUME NEW a \in Int, NEW b \in Int, NEW c \in Int, NEW e \in Int, NEW g \in Int, NEW x \in Int
  PROVE  /\ (a * e + b * g) * x + c * a = a * (e * x + c) + (b * x) * g
         /\ \A d \in Int : (a * e + b * g) * x + (c * a + d * b) = a * (e * x + c) + b * (g * x + d)
         /\ (a + b * x) * g = a * g + (b * x) * g
<1>1. /\ (a * e) * x = a * (e * x) /\ (b * g) * x = b * (g * x) /\ (b * x) * g = (b * g) * x
      /\ c * a = a * c
  BY SMT
<1>2. \A u, v, w \in Int : (u + v) * w = u * w + v * w /\ w * (u + v) = w * u + w * v
  BY SMT
<1>3. /\ a * e \in Int /\ b * g \in Int /\ e * x \in Int /\ g * x \in Int /\ b * x \in Int
      /\ a * c \in Int /\ (a * e) * x \in Int /\ (b * g) * x \in Int
  BY SMT
<1>4. (a * e + b * g) * x = (a * e) * x + (b * g) * x
  BY <1>2, <1>3
<1>5. a * (e * x + c) = a * (e * x) + a * c
  BY <1>2, <1>3
<1>6. (a + b * x) * g = a * g + (b * x) * g
  BY <1>2, <1>3
<1>7. ASSUME NEW d \in Int
      PROVE  (a * e + b * g) * x + (c * a + d * b) = a * (e * x + c) + b * (g * x + d)
  <2>1. d * b = b * d /\ b * d \in Int
    BY SMT
  <2>2. b * (g * x + d) = b * (g * x) + b * d
    BY <1>2, <1>3
  <2> QED BY <1>1, <1>3, <1>4, <1>5, <2>1, <2>2
<1>8. (a * e + b * g) * x + c * a = a * (e * x + c) + (b * x) * g
  BY <1>1, <1>3, <1>4, <1>5
<1> QED BY <1>6, <1>7, <1>8

(* Multiplying with a + b X multiplies the value at x with a + b x. *)
LEMMA EvaluateTimesLinear ==
  ASSUME SumcheckAssumption, NEW i \in Nat, NEW p \in [0 .. i -> F], NEW a \in F, NEW b \in F,
         NEW x \in Int
  PROVE  Congruent(EvaluatePolynomial(TimesLinear(p, i, a, b), 0, i + 2, x),
                   (a + b * x) * EvaluatePolynomial(p, 0, i + 1, x), P)
<1>1. P \in Nat \ {0} /\ F \subseteq Int
  <2>1. P \in Nat /\ P > 1 /\ F \subseteq Int
    BY InField
  <2> QED BY <2>1
<1>2. PICK t : t = TimesLinear(p, i, a, b)
  OBVIOUS
<1>3. /\ t \in [0 .. i + 1 -> F] /\ t[0] = (p[0] * a) % P /\ t[i + 1] = (p[i] * b) % P
      /\ \A k \in 1 .. i : t[k] = (p[k] * a + p[k - 1] * b) % P
  BY <1>2, TimesLinearIs, ZenonT(30)
<1>4. /\ i + 1 \in Nat /\ i + 2 \in Nat /\ 0 \in Nat
      /\ Coefficients(p, 0, i + 1) /\ Coefficients(t, 0, i + 2)
  <2>1. \A k \in 0 .. (i + 1) - 1 : 0 + k \in 0 .. i
    OBVIOUS
  <2>2. \A k \in 0 .. (i + 2) - 1 : 0 + k \in 0 .. i + 1
    OBVIOUS
  <2>3. (\A k \in 0 .. i : p[k] \in Int) /\ (\A k \in 0 .. i + 1 : t[k] \in Int)
    BY <1>1, <1>3
  <2> QED BY <2>1, <2>2, <2>3 DEF Coefficients
<1>5. PICK r \in [0 .. i + 1 -> F] :
        EvaluatePolynomial(p, 0, i + 1, x) = r[i + 1] /\ IsHorner(r, p, 0, i + 1, x)
  BY <1>4, EvaluateIs
<1>6. PICK q \in [0 .. i + 2 -> F] :
        EvaluatePolynomial(t, 0, i + 2, x) = q[i + 2] /\ IsHorner(q, t, 0, i + 2, x)
  BY <1>4, EvaluateIs
<1>7. r[0] = 0 /\ \A k \in 1 .. i + 1 : r[k] = (r[k - 1] * x + p[i + 1 - k]) % P
  <2>1. \A k \in 1 .. i + 1 : 0 + (i + 1) - k = i + 1 - k
    OBVIOUS
  <2> QED BY <1>5, <2>1 DEF IsHorner
<1>8. q[0] = 0 /\ \A k \in 1 .. i + 2 : q[k] = (q[k - 1] * x + t[i + 2 - k]) % P
  <2>1. \A k \in 1 .. i + 2 : 0 + (i + 2) - k = i + 2 - k
    OBVIOUS
  <2> QED BY <1>6, <2>1 DEF IsHorner
<1>9. a \in Int /\ b \in Int /\ (\A k \in 0 .. i + 1 : r[k] \in Int) /\ (\A k \in 0 .. i : p[k] \in Int)
      /\ (\A k \in 0 .. i + 2 : q[k] \in Int)
  BY <1>1
<1> DEFINE G == {k \in 0 .. i : Congruent(q[k + 1], a * r[k] + b * r[k + 1], P)}
(* What is congruent to q[k] when the next coefficient is added *)
<1>10. ASSUME NEW k \in 0 .. i + 1, NEW u \in Int, NEW v \in Int, Congruent(q[k], u, P),
              t[i + 1 - k] = v % P
       PROVE  Congruent(q[k + 1], u * x + v, P)
  <2>1. q[k + 1] = (q[k] * x + t[i + 1 - k]) % P
    <3>1. k + 1 \in 1 .. i + 2 /\ (k + 1) - 1 = k /\ i + 2 - (k + 1) = i + 1 - k
      OBVIOUS
    <3> QED BY <1>8, <3>1
  <2>2. Congruent(v % P, v, P) /\ (v % P) \in Int
    <3>1. Congruent(v % P, v, P)
      BY <1>1, <1>10, CongruentRemainder
    <3>2. (v % P) \in 0 .. P - 1
      BY <1>1, <1>10, ModRange
    <3> QED BY <1>1, <3>1, <3>2
  <2>3. q[k] \in Int
    BY <1>9
  <2> QED BY <1>1, <1>10, <2>1, <2>2, <2>3, CongruentLinear
<1>11. 0 \in G
  <2>1. Congruent(q[0], 0, P)
    BY <1>1, <1>8, CongruentRemainder
  <2>2. p[i] * b \in Int
    BY <1>9
  <2>3. Congruent(q[0 + 1], 0 * x + p[i] * b, P)
    BY <1>3, <1>10, <2>1, <2>2
  <2>4. p[i] \in F /\ p[i] \in Int
    BY <1>9
  <2>5. r[1] = p[i]
    <3>1. r[1] = (r[0] * x + p[i]) % P
      <4>1. 1 \in 1 .. i + 1 /\ 1 - 1 = 0 /\ i + 1 - 1 = i
        OBVIOUS
      <4> QED BY <1>7, <4>1
    <3>2. r[0] * x + p[i] = p[i]
      BY <1>7, <2>4
    <3> QED BY <2>4, <3>1, <3>2, InField
  <2>6. 0 * x + p[i] * b = a * r[0] + b * r[0 + 1]
    BY <1>7, <1>9, <2>4, <2>5, SMT
  <2> QED BY <2>3, <2>6
<1>12. ASSUME NEW k \in 1 .. i, k - 1 \in G PROVE k \in G
  <2>1. k - 1 \in 0 .. i /\ Congruent(q[k], a * r[k - 1] + b * r[k], P)
    <3>1. (k - 1) + 1 = k
      OBVIOUS
    <3> QED BY <1>12, <3>1
  <2>2. PICK c, d, e, g, h : c = p[i + 1 - k] /\ d = p[i - k] /\ e = r[k - 1] /\ g = r[k] /\ h = r[k + 1]
    OBVIOUS
  <2>3. c \in Int /\ d \in Int /\ e \in Int /\ g \in Int /\ h \in Int
    <3>1. /\ i + 1 - k \in 0 .. i /\ i - k \in 0 .. i
          /\ k - 1 \in 0 .. i + 1 /\ k \in 0 .. i + 1 /\ k + 1 \in 0 .. i + 1
      OBVIOUS
    <3> QED BY <1>9, <2>2, <3>1
  <2>4. g = (e * x + c) % P /\ h = (g * x + d) % P
    <3>1. k \in 1 .. i + 1 /\ k + 1 \in 1 .. i + 1 /\ (k + 1) - 1 = k /\ i + 1 - (k + 1) = i - k
      OBVIOUS
    <3> QED BY <1>7, <2>2, <3>1
  <2>5. t[i + 1 - k] = (c * a + d * b) % P
    <3>1. i + 1 - k \in 1 .. i /\ (i + 1 - k) - 1 = i - k
      OBVIOUS
    <3> QED BY <1>3, <2>2, <3>1
  <2>6. a * e + b * g \in Int /\ c * a + d * b \in Int /\ e * x + c \in Int /\ g * x + d \in Int
    BY <1>9, <2>3
  <2>7. Congruent(q[k + 1], (a * e + b * g) * x + (c * a + d * b), P)
    <3>1. k \in 0 .. i + 1 /\ Congruent(q[k], a * e + b * g, P)
      BY <2>1, <2>2
    <3> QED BY <1>10, <2>5, <2>6, <3>1
  <2>8. (a * e + b * g) * x + (c * a + d * b) = a * (e * x + c) + b * (g * x + d)
    BY <1>9, <2>3, Distribute
  <2>9. Congruent(e * x + c, g, P) /\ Congruent(g * x + d, h, P)
    BY <1>1, <2>4, <2>6, CongruentRemainder
  <2>10. Congruent(a * (e * x + c), a * g, P) /\ Congruent(b * (g * x + d), b * h, P)
    BY <1>1, <1>9, <2>3, <2>6, <2>9, CongruentProduct, CongruentRemainder
  <2>11. a * (e * x + c) \in Int /\ b * (g * x + d) \in Int /\ a * g \in Int /\ b * h \in Int
    BY <1>9, <2>3, <2>6
  <2>12. Congruent(a * (e * x + c) + b * (g * x + d), a * g + b * h, P)
    BY <1>1, <2>10, <2>11, CongruentSum
  <2>13. q[k + 1] \in Int /\ a * g + b * h \in Int /\ (a * e + b * g) * x + (c * a + d * b) \in Int
    <3>1. k + 1 \in 0 .. i + 2
      OBVIOUS
    <3>2. q[k + 1] \in Int
      BY <1>9, <3>1
    <3>3. a * g + b * h \in Int /\ a * (e * x + c) + b * (g * x + d) \in Int
      BY <2>11
    <3> QED BY <2>8, <3>2, <3>3
  <2>14. Congruent(q[k + 1], a * g + b * h, P)
    BY <1>1, <2>7, <2>8, <2>12, <2>13, CongruentEquivalence
  <2> QED BY <2>2, <2>14
<1>13. i \in G
  <2> HIDE DEF G
  <2>1. \A k \in 0 .. i : k \in G
    BY <1>11, <1>12, BoundedInduction
  <2> QED BY <2>1
<1>14. PICK c, e, g : c = p[0] /\ e = r[i] /\ g = r[i + 1]
  OBVIOUS
<1>15. c \in Int /\ e \in Int /\ g \in Int /\ g = (e * x + c) % P
  <2>1. /\ i + 1 \in 1 .. i + 1 /\ (i + 1) - 1 = i /\ i + 1 - (i + 1) = 0
        /\ i \in 0 .. i + 1 /\ i + 1 \in 0 .. i + 1 /\ 0 \in 0 .. i
    OBVIOUS
  <2> QED BY <1>7, <1>9, <1>14, <2>1
<1>16. a * e + b * g \in Int /\ c * a \in Int /\ e * x + c \in Int
  BY <1>9, <1>15
<1>17. Congruent(q[i + 2], (a * e + b * g) * x + c * a, P)
  <2>1. i + 1 \in 0 .. i + 1 /\ i + 1 - (i + 1) = 0 /\ (i + 1) + 1 = i + 2
    OBVIOUS
  <2>2. Congruent(q[i + 1], a * e + b * g, P)
    BY <1>13, <1>14
  <2>3. t[i + 1 - (i + 1)] = (c * a) % P
    BY <1>3, <1>14, <2>1
  <2>4. Congruent(q[(i + 1) + 1], (a * e + b * g) * x + c * a, P)
    BY <1>10, <1>16, <2>1, <2>2, <2>3
  <2> QED BY <2>1, <2>4
<1>18. (a * e + b * g) * x + c * a = a * (e * x + c) + (b * x) * g
  <2>1. a \in Int /\ b \in Int /\ c \in Int /\ e \in Int /\ g \in Int
    BY <1>9, <1>15
  <2> QED BY <2>1, Distribute
<1>19. (a + b * x) * g = a * g + (b * x) * g
  BY <1>9, <1>15, Distribute
<1>20. Congruent(a * (e * x + c), a * g, P)
  BY <1>1, <1>9, <1>15, <1>16, CongruentProduct, CongruentRemainder
<1>21. a * (e * x + c) \in Int /\ a * g \in Int /\ (b * x) * g \in Int
  <2>1. b * x \in Int /\ a \in Int /\ g \in Int
    BY <1>9, <1>15
  <2> HIDE <1>15
  <2> QED BY <1>16, <2>1
<1>22. Congruent(a * (e * x + c) + (b * x) * g, a * g + (b * x) * g, P)
  BY <1>1, <1>20, <1>21, CongruentSum, CongruentRemainder
<1>23. q[i + 2] \in Int /\ a * (e * x + c) + (b * x) * g \in Int /\ a * g + (b * x) * g \in Int
  <2>1. i + 2 \in 0 .. i + 2
    OBVIOUS
  <2> QED BY <1>9, <1>21, <2>1, SMTT(30)
<1>24. Congruent(q[i + 2], a * (e * x + c) + (b * x) * g, P)
  BY <1>17, <1>18
<1>25. Congruent(q[i + 2], a * g + (b * x) * g, P)
  BY <1>1, <1>22, <1>23, <1>24, CongruentEquivalence
<1> QED BY <1>2, <1>5, <1>6, <1>14, <1>19, <1>25

(* A polynomial with zeros for its highest coefficients has the same value. *)
LEMMA EvaluatePadded ==
  ASSUME SumcheckAssumption, NEW p, NEW q, NEW len \in Nat, NEW n \in Nat, len <= n, NEW x \in Int,
         Coefficients(p, 0, len), Coefficients(q, 0, n),
         \A k \in 0 .. n - 1 : q[k] = IF k < len THEN p[k] ELSE 0
  PROVE  EvaluatePolynomial(q, 0, n, x) = EvaluatePolynomial(p, 0, len, x)
<1>1. P \in Nat \ {0} /\ F \subseteq Int /\ 0 \in F
  <2>1. P \in Nat /\ P > 1 /\ F \subseteq Int /\ 0 \in F
    BY InField
  <2> QED BY <2>1
<1>2. PICK r \in [0 .. len -> F] :
        EvaluatePolynomial(p, 0, len, x) = r[len] /\ IsHorner(r, p, 0, len, x)
  BY EvaluateIs
<1>3. PICK s \in [0 .. n -> F] :
        EvaluatePolynomial(q, 0, n, x) = s[n] /\ IsHorner(s, q, 0, n, x)
  BY EvaluateIs
<1> DEFINE pad == n - len
           Z == {k \in 0 .. pad : s[k] = 0}
           G == {k \in 0 .. len : s[pad + k] = r[k]}
<1>4. pad \in Nat /\ pad + len = n
  OBVIOUS
<1>5. \A k \in 0 .. pad : k \in Z
  <2>1. 0 \in Z
    BY <1>3, <1>4 DEF IsHorner
  <2>2. ASSUME NEW k \in 1 .. pad, k - 1 \in Z PROVE k \in Z
    <3>1. n - k \in 0 .. n - 1 /\ ~ (n - k < len) /\ 0 + n - k = n - k /\ k \in 1 .. n
      OBVIOUS
    <3>2. q[0 + n - k] = 0
      BY <3>1
    <3>3. s[k] = (s[k - 1] * x + q[0 + n - k]) % P
      BY <1>3, <3>1 DEF IsHorner
    <3>4. s[k - 1] * x + q[0 + n - k] = 0
      BY <2>2, <3>2
    <3>5. (0 % P) = 0
      BY <1>1, InField
    <3> QED BY <3>3, <3>4, <3>5
  <2> HIDE DEF Z, pad
  <2> QED BY <1>4, <2>1, <2>2, BoundedInduction
<1>6. \A k \in 0 .. len : k \in G
  <2>1. 0 \in G
    <3>1. pad \in Z
      BY <1>4, <1>5
    <3> QED BY <1>2, <1>4, <3>1 DEF IsHorner
  <2>2. ASSUME NEW k \in 1 .. len, k - 1 \in G PROVE k \in G
    <3>1. /\ pad + k \in 1 .. n /\ (pad + k) - 1 = pad + (k - 1)
          /\ 0 + n - (pad + k) = len - k /\ 0 + len - k = len - k
          /\ len - k \in 0 .. n - 1 /\ len - k < len
      OBVIOUS
    <3>2. s[pad + k] = (s[(pad + k) - 1] * x + q[0 + n - (pad + k)]) % P
      BY <1>3, <3>1 DEF IsHorner
    <3>3. r[k] = (r[k - 1] * x + p[0 + len - k]) % P
      BY <1>2 DEF IsHorner
    <3>4. q[len - k] = p[len - k]
      BY <3>1
    <3>5. s[pad + (k - 1)] = r[k - 1]
      BY <2>2
    <3>6. s[pad + k] = r[k]
      BY <3>1, <3>2, <3>3, <3>4, <3>5
    <3> QED BY <3>6
  <2> HIDE DEF G
  <2> QED BY <2>1, <2>2, BoundedInduction
<1>7. len \in G
  BY <1>6
<1> QED BY <1>2, <1>3, <1>4, <1>7

-----------------------------------------------------------------------------
(* expand_products: the value at a challenge is the product of the folds *)

(* A polynomial of degree 1 *)
LEMMA EvaluateLine ==
  ASSUME SumcheckAssumption, NEW a \in F, NEW b \in F, NEW x \in Int
  PROVE  EvaluatePolynomial([k \in 0 .. 1 |-> IF k = 0 THEN a ELSE b], 0, 2, x) = (b * x + a) % P
<1>1. PICK p : p = [k \in 0 .. 1 |-> IF k = 0 THEN a ELSE b]
  OBVIOUS
<1>2. p[0] = a /\ p[1] = b /\ F \subseteq Int
  BY <1>1, InField
<1>3. Coefficients(p, 0, 2)
  <2>1. \A k \in 0 .. 2 - 1 : p[0 + k] = a \/ p[0 + k] = b
    BY <1>1
  <2> QED BY <1>2, <2>1 DEF Coefficients
<1>4. PICK r \in [0 .. 2 -> F] : EvaluatePolynomial(p, 0, 2, x) = r[2] /\ IsHorner(r, p, 0, 2, x)
  <2>1. 2 \in Nat /\ 0 \in Nat
    OBVIOUS
  <2> QED BY <1>3, <2>1, EvaluateIs
<1>5. r[1] = b
  <2>1. r[0] = 0 /\ r[1] = (r[0] * x + p[1]) % P
    <3>1. 1 \in 1 .. 2 /\ 1 - 1 = 0 /\ 0 + 2 - 1 = 1
      OBVIOUS
    <3> QED BY <1>4, <3>1 DEF IsHorner
  <2>2. r[0] * x + p[1] = b
    BY <1>2, <2>1
  <2> QED BY <2>1, <2>2, InField
<1>6. r[2] = (r[1] * x + p[0]) % P
  <2>1. 2 \in 1 .. 2 /\ 2 - 1 = 1 /\ 0 + 2 - 2 = 0
    OBVIOUS
  <2> QED BY <1>4, <2>1 DEF IsHorner
<1> QED BY <1>1, <1>2, <1>4, <1>5, <1>6

(* The value of a product of lines is the product of their values. *)
LEMMA EvaluateExpanded ==
  ASSUME SumcheckAssumption, NEW count \in Nat, NEW n \in Nat,
         NEW mles \in [0 .. count * n - 1 -> F], NEW split \in Nat, NEW index \in 0 .. n - 1,
         NEW terms \in Seq(0 .. count - 1), Len(terms) >= 1, NEW x \in Int,
         NEW s \in Seq(Int), Len(s) = Len(terms),
         \A t \in 1 .. Len(terms) :
           Congruent(s[t], LineStart(mles, n, index, terms)[t]
                             + LineSlope(mles, n, split, index, terms)[t] * x, P)
  PROVE  Congruent(EvaluatePolynomial(ExpandProducts(mles, n, split, index, terms), 0, Len(terms) + 1, x),
                   ProductOf(s), P)
<1>1. P \in Nat \ {0} /\ F \subseteq Int /\ P \in Nat /\ P > 1
  <2>1. P \in Nat /\ P > 1 /\ F \subseteq Int
    BY InField
  <2> QED BY <2>1
<1>2. PICK len, a, b : /\ len = Len(terms)
                       /\ a = LineStart(mles, n, index, terms)
                       /\ b = LineSlope(mles, n, split, index, terms)
  OBVIOUS
<1>3. len \in Nat \ {0} /\ a \in [1 .. len -> F] /\ b \in [1 .. len -> F]
  <2>1. len \in Nat \ {0}
    BY <1>2
  <2>2. a \in [1 .. len -> F] /\ b \in [1 .. len -> F]
    BY <1>2, LinesType
  <2> QED BY <2>1, <2>2
<1>4. \A t \in 1 .. len : /\ s[t] \in Int /\ a[t] \in F /\ b[t] \in F /\ a[t] \in Int /\ b[t] \in Int
                          /\ Congruent(s[t], a[t] + b[t] * x, P)
  <2>1. \A t \in 1 .. len : s[t] \in Int /\ Congruent(s[t], a[t] + b[t] * x, P)
    BY <1>2
  <2> QED BY <1>1, <1>3, <2>1
<1>5. PICK r : IsExpandedTo(r, mles, n, split, index, terms)
  BY ExpandIs
<1>6. /\ \A t \in 1 .. len : r[t] \in [0 .. t -> F]
      /\ r[1] = [k \in 0 .. 1 |-> IF k = 0 THEN a[1] ELSE b[1]]
      /\ \A t \in 2 .. len : r[t] = TimesLinear(r[t - 1], t - 1, a[t], b[t])
      /\ ExpandProducts(mles, n, split, index, terms) = r[len]
  BY <1>2, <1>5 DEF IsExpandedTo, IsExpansion
<1>7. PICK w \in [0 .. len -> Int] :
        /\ ProductOf(s) = w[len]
        /\ w[0] = 1 /\ \A k \in 1 .. len : w[k] = (s[k] * w[k - 1]) % P
  <2>1. \E w \in [0 .. Len(s) -> Int] :
          /\ ProductOf(s) = w[Len(s)]
          /\ w[0] = 1 /\ \A k \in 1 .. Len(s) : w[k] = (s[k] * w[k - 1]) % P
    BY <1>1, ProductIs
  <2>2. Len(s) = len
    BY <1>2
  <2> QED BY <2>1, <2>2
<1> DEFINE value(t) == EvaluatePolynomial(r[t], 0, t + 1, x)
           G == {t \in 0 .. len - 1 : Congruent(value(t + 1), w[t + 1], P)}
<1>8. \A t \in 1 .. len : value(t) \in Int
  <2> SUFFICES ASSUME NEW t \in 1 .. len PROVE value(t) \in Int
    OBVIOUS
  <2>1. Coefficients(r[t], 0, t + 1)
    <3>1. \A k \in 0 .. (t + 1) - 1 : 0 + k \in 0 .. t
      OBVIOUS
    <3> QED BY <1>1, <1>6, <3>1 DEF Coefficients
  <2>2. t + 1 \in Nat /\ 0 \in Nat
    OBVIOUS
  <2>3. value(t) \in F
    BY <2>1, <2>2, EvaluateType
  <2> QED BY <1>1, <2>3
(* s[t] w[t - 1] is congruent to the next product *)
<1>9. ASSUME NEW t \in 1 .. len, NEW v \in Int, NEW u \in Int, Congruent(u, w[t - 1], P),
             Congruent(v, (a[t] + b[t] * x) * u, P)
      PROVE  Congruent(v, w[t], P)
  <2>1. PICK c, d : c = a[t] + b[t] * x /\ d = w[t - 1]
    OBVIOUS
  <2>2. c \in Int /\ d \in Int /\ s[t] \in Int
    <3>1. t - 1 \in 0 .. len
      BY <1>3
    <3>2. b[t] * x \in Int /\ a[t] \in Int /\ s[t] \in Int
      BY <1>4
    <3>3. w[t - 1] \in Int
      BY <1>7, <3>1
    <3> QED BY <2>1, <3>2, <3>3
  <2>3. Congruent(c, s[t], P)
    BY <1>1, <1>4, <2>1, <2>2, CongruentEquivalence
  <2>4. Congruent(c * u, s[t] * d, P)
    BY <1>1, <1>9, <2>1, <2>2, <2>3, CongruentProduct
  <2>5. s[t] * d \in Int /\ c * u \in Int /\ w[t] = (s[t] * d) % P
    <3>1. w[t] = (s[t] * w[t - 1]) % P
      BY <1>7
    <3>2. s[t] * d \in Int /\ c * u \in Int
      BY <2>2
    <3> QED BY <2>1, <3>1, <3>2
  <2>6. Congruent(s[t] * d, w[t], P)
    BY <1>1, <2>5, CongruentRemainder
  <2>7. w[t] \in Int
    <3>1. t \in 0 .. len
      BY <1>3
    <3> QED BY <1>7, <3>1
  <2>8. Congruent(c * u, w[t], P)
    BY <1>1, <2>4, <2>5, <2>6, <2>7, CongruentEquivalence
  <2> QED BY <1>1, <1>9, <2>1, <2>5, <2>7, <2>8, CongruentEquivalence
<1>10. 0 \in G
  <2>1. 1 \in 1 .. len
    BY <1>3
  <2>2. value(1) = (b[1] * x + a[1]) % P
    <3>1. 1 + 1 = 2
      OBVIOUS
    <3> QED BY <1>4, <1>6, <2>1, <3>1, EvaluateLine
  <2>3. b[1] * x + a[1] = (a[1] + b[1] * x) * 1 /\ b[1] * x + a[1] \in Int
    <3>1. b[1] * x \in Int /\ a[1] \in Int
      BY <1>4, <2>1
    <3> QED BY <3>1
  <2>4. Congruent(value(1), (a[1] + b[1] * x) * 1, P)
    BY <1>1, <2>2, <2>3, CongruentRemainder
  <2>5. Congruent(1, w[1 - 1], P)
    <3>1. 1 - 1 = 0
      OBVIOUS
    <3>2. Congruent(1, 1, P)
      BY <1>1, CongruentRemainder
    <3> QED BY <1>7, <3>1, <3>2
  <2>6. value(1) \in Int
    BY <1>8, <2>1
  <2> HIDE DEF value
  <2>7. Congruent(value(1), w[1], P)
    BY <1>9, <2>1, <2>4, <2>5, <2>6
  <2>8. 0 + 1 = 1 /\ 0 \in 0 .. len - 1
    BY <1>3
  <2> QED BY <2>7, <2>8
<1>11. ASSUME NEW t \in 1 .. len - 1, t - 1 \in G PROVE t \in G
  <2>1. /\ t \in 0 .. len - 1 /\ t + 1 \in 2 .. len /\ t + 1 \in 1 .. len /\ t \in 1 .. len /\ t \in Nat
        /\ (t - 1) + 1 = t /\ (t + 1) - 1 = t /\ (t + 1) + 1 = t + 2
    BY <1>3
  <2>2. r[t + 1] = TimesLinear(r[t], t, a[t + 1], b[t + 1])
    BY <1>6, <2>1
  <2>3. r[t] \in [0 .. t -> F] /\ a[t + 1] \in F /\ b[t + 1] \in F
    BY <1>4, <1>6, <2>1
  <2>4. Congruent(EvaluatePolynomial(TimesLinear(r[t], t, a[t + 1], b[t + 1]), 0, t + 2, x),
                  (a[t + 1] + b[t + 1] * x) * EvaluatePolynomial(r[t], 0, t + 1, x), P)
    BY <2>1, <2>3, EvaluateTimesLinear
  <2>5. Congruent(value(t + 1), (a[t + 1] + b[t + 1] * x) * value(t), P)
    BY <2>1, <2>2, <2>4
  <2>6. Congruent(value(t), w[t], P)
    <3> HIDE DEF value
    <3> QED BY <1>11, <2>1
  <2>7. value(t) \in Int /\ value(t + 1) \in Int
    BY <1>8, <2>1
  <2> HIDE DEF value
  <2>8. Congruent(value(t + 1), w[t + 1], P)
    BY <1>9, <2>1, <2>5, <2>6, <2>7
  <2> QED BY <2>1, <2>8
<1>12. len - 1 \in G
  <2> HIDE DEF G
  <2>1. len - 1 \in Nat
    BY <1>3
  <2>2. \A t \in 0 .. len - 1 : t \in G
    BY <1>10, <1>11, <2>1, BoundedInduction
  <2> QED BY <2>1, <2>2
<1>13. (len - 1) + 1 = len
  BY <1>3
<1> QED BY <1>2, <1>6, <1>7, <1>12, <1>13

(* Folding an element is taking the value of its line. *)
LEMMA FoldIsLine ==
  ASSUME SumcheckAssumption, NEW a \in F, NEW b \in F, NEW x \in Int
  PROVE  Congruent((a * (1 - x) + b * x) % P, a + ((b - a) % P) * x, P)
<1>1. P \in Nat \ {0} /\ a \in Int /\ b \in Int
  <2>1. P \in Nat /\ P > 1 /\ F \subseteq Int
    BY InField
  <2> QED BY <2>1
<1>2. PICK d : d = b - a
  OBVIOUS
<1>3. d \in Int /\ (d % P) \in Int
  <2>1. d \in Int
    BY <1>1, <1>2
  <2>2. (d % P) \in 0 .. P - 1
    BY <1>1, <2>1, ModRange
  <2> QED BY <1>1, <2>1, <2>2
<1>4. a * (1 - x) + b * x = a + d * x
  <2>1. a * (1 - x) = a - a * x
    BY <1>1, SMT
  <2>2. d * x = b * x - a * x
    BY <1>1, <1>2, SMT
  <2>3. a * x \in Int /\ b * x \in Int
    BY <1>1
  <2> QED BY <1>1, <2>1, <2>2, <2>3
<1>5. Congruent(d * x, (d % P) * x, P)
  BY <1>1, <1>3, CongruentProduct, CongruentRemainder
<1>6. d * x \in Int /\ (d % P) * x \in Int
  BY <1>3
<1>7. Congruent(a + d * x, a + (d % P) * x, P)
  BY <1>1, <1>5, <1>6, CongruentSum, CongruentRemainder
<1>8. PICK e, g : e = a + d * x /\ g = a + (d % P) * x
  OBVIOUS
<1>9. e \in Int /\ g \in Int
  BY <1>1, <1>6, <1>8
<1>10. Congruent(e % P, e, P) /\ (e % P) \in Int
  <2>1. (e % P) \in 0 .. P - 1
    BY <1>1, <1>9, ModRange
  <2> QED BY <1>1, <1>9, <2>1, CongruentRemainder
<1>11. Congruent(e, e % P, P)
  BY <1>1, <1>9, CongruentRemainder
<1>12. Congruent(e % P, g, P)
  BY <1>1, <1>7, <1>8, <1>9, <1>10, <1>11, CongruentEquivalence
<1> QED BY <1>2, <1>4, <1>8, <1>12

(* The MLEs of a product, folded at the challenge x *)
FoldedTerms(mles, n, split, index, terms, x) ==
  [t \in 1 .. Len(terms) |-> FoldElement(mles, index, n, split, n * terms[t], x)]

(* expand_products makes a polynomial whose value at x is the product of   *)
(* what fold makes of the MLEs with x for the challenge.                   *)
LEMMA EvaluateProduct ==
  ASSUME SumcheckAssumption, NEW count \in Nat, NEW n \in Nat,
         NEW mles \in [0 .. count * n - 1 -> F], NEW split \in Nat, NEW index \in 0 .. n - 1,
         NEW terms \in Seq(0 .. count - 1), Len(terms) >= 1, NEW x \in F
  PROVE  /\ FoldedTerms(mles, n, split, index, terms, x) \in Seq(F)
         /\ Congruent(EvaluatePolynomial(ExpandProducts(mles, n, split, index, terms), 0,
                                         Len(terms) + 1, x),
                      ProductOf(FoldedTerms(mles, n, split, index, terms, x)), P)
<1>1. F \subseteq Int /\ 0 \in F /\ x \in Int
  BY InField
<1>2. PICK len, s, a, b : /\ len = Len(terms)
                          /\ s = FoldedTerms(mles, n, split, index, terms, x)
                          /\ a = LineStart(mles, n, index, terms)
                          /\ b = LineSlope(mles, n, split, index, terms)
  OBVIOUS
<1>3. len \in Nat
  BY <1>2
<1>4. ASSUME NEW t \in 1 .. len
      PROVE  s[t] \in F /\ Congruent(s[t], a[t] + b[t] * x, P)
  <2>1. terms[t] \in 0 .. count - 1 /\ terms[t] \in Int
    <3>1. terms[t] \in 0 .. count - 1
      BY <1>2, ElementOf
    <3> QED BY <3>1
  <2>2. PICK m : m = terms[t]
    OBVIOUS
  <2>3. PICK low, high : /\ low = mles[m * n + index]
                         /\ high = IF index + split < n THEN mles[m * n + index + split] ELSE 0
    OBVIOUS
  <2>4. low \in F
    BY <2>1, <2>2, <2>3, PlaceOfElement
  <2>5. high \in F
    <3>1. CASE index + split < n
      <4>1. index + split \in 0 .. n - 1
        BY <3>1
      <4>2. m * n + (index + split) \in 0 .. count * n - 1
        BY <2>1, <2>2, <4>1, PlaceOfElement
      <4>3. m * n + (index + split) = m * n + index + split
        <5>1. m * n \in Int
          BY <2>1, <2>2
        <5> QED BY <5>1
      <4> QED BY <2>3, <3>1, <4>2, <4>3
    <3>2. CASE ~ (index + split < n)
      BY <1>1, <2>3, <3>2
    <3> QED BY <3>1, <3>2
  <2>6. n * m = m * n
    BY <2>1, <2>2
  <2>7. s[t] = (low * (1 - x) + high * x) % P
    <3>1. s[t] = FoldElement(mles, index, n, split, n * m, x)
      BY <1>2, <2>2 DEF FoldedTerms
    <3>2. (IF index + split < n THEN mles[n * m + index + split] * x ELSE 0) = high * x
      <4>1. CASE index + split < n
        BY <2>3, <2>6, <4>1
      <4>2. CASE ~ (index + split < n)
        <5>1. high = 0
          BY <2>3, <4>2
        <5> QED BY <1>1, <4>2, <5>1
      <4> QED BY <4>1, <4>2
    <3> QED BY <2>3, <2>6, <3>1, <3>2 DEF FoldElement
  <2>8. a[t] = low /\ b[t] = (high - low) % P
    BY <1>2, <2>2, <2>3 DEF LineStart, LineSlope
  <2>9. Congruent(s[t], a[t] + b[t] * x, P)
    BY <1>1, <2>4, <2>5, <2>7, <2>8, FoldIsLine
  <2>10. s[t] \in F
    <3>1. low \in Int /\ high \in Int
      BY <1>1, <2>4, <2>5
    <3>2. low * (1 - x) + high * x \in Int
      <4>1. 1 - x \in Int
        BY <1>1
      <4>2. low * (1 - x) \in Int /\ high * x \in Int
        BY <1>1, <3>1, <4>1
      <4> QED BY <4>2
    <3> QED BY <2>7, <3>2, InField
  <2> QED BY <2>9, <2>10
<1>5. s = [t \in 1 .. len |-> s[t]]
  BY <1>2 DEF FoldedTerms
<1>6. s \in Seq(F) /\ s \in Seq(Int) /\ Len(s) = len
  <2>1. \A t \in 1 .. len : s[t] \in F /\ s[t] \in Int
    BY <1>1, <1>4
  <2>2. [t \in 1 .. len |-> s[t]] \in [1 .. len -> F] /\ [t \in 1 .. len |-> s[t]] \in [1 .. len -> Int]
    BY <2>1
  <2>3. s \in [1 .. len -> F] /\ s \in [1 .. len -> Int]
    BY <1>5, <2>2
  <2> QED BY <1>3, <2>3
<1>7. Congruent(EvaluatePolynomial(ExpandProducts(mles, n, split, index, terms), 0, len + 1, x),
                ProductOf(s), P)
  <2>1. \A t \in 1 .. Len(terms) :
           Congruent(s[t], LineStart(mles, n, index, terms)[t]
                             + LineSlope(mles, n, split, index, terms)[t] * x, P)
    BY <1>2, <1>4
  <2> QED BY <1>1, <1>2, <1>6, <2>1, EvaluateExpanded
<1> QED BY <1>2, <1>6, <1>7

(* What the products add up to at one index, folded at the challenge x *)
FoldedProduct(mles, n, split, index, i, x) ==
  problem.products[i].mult
    * ProductOf(FoldedTerms(mles, n, split, index, problem.products[i].terms, x))
FoldedSum(mles, n, split, index, x) ==
  SumFunction([i \in 1 .. Len(problem.products) |-> FoldedProduct(mles, n, split, index, i, x)])

(* What a product contributes to the coefficients of a round *)
ProductPart(mles, n, split, index, i) ==
  [k \in 0 .. problem.length - 1 |->
     IF k <= Len(problem.products[i].terms)
     THEN ExpandProducts(mles, n, split, index, problem.products[i].terms)[k] ELSE 0]

(* What a product contributes is integers, and at x they have the          *)
(* product's value.                                                        *)
LEMMA ProductPartIs ==
  ASSUME SumcheckAssumption, problem \in Problems, NEW n \in Nat,
         NEW mles \in [0 .. NumMles(problem) * n - 1 -> F], NEW split \in Nat,
         NEW index \in 0 .. n - 1, NEW i \in 1 .. Len(problem.products), NEW x \in F
  PROVE  /\ problem.products[i].mult \in Int
         /\ ProductPart(mles, n, split, index, i) \in [0 .. problem.length - 1 -> Int]
         /\ FoldedProduct(mles, n, split, index, i, x) \in Int
         /\ EvaluatePolynomial(ProductPart(mles, n, split, index, i), 0, problem.length, x) \in Int
         /\ Congruent(problem.products[i].mult
                        * EvaluatePolynomial(ProductPart(mles, n, split, index, i), 0, problem.length, x),
                      FoldedProduct(mles, n, split, index, i, x), P)
<1>1. PICK ps, count, terms, length, mult :
        /\ ps = problem.products /\ count = NumMles(problem) /\ terms = ps[i].terms
        /\ length = problem.length /\ mult = ps[i].mult
  OBVIOUS
<1>2. /\ ps \in Seq([mult : F, terms : Seq(0 .. count - 1)]) /\ count \in Nat
      /\ length \in Nat /\ Len(terms) \in 1 .. length - 1
  BY <1>1, ProblemIs
<1>3. ps[i] \in [mult : F, terms : Seq(0 .. count - 1)]
  BY <1>1, <1>2, ElementOf
<1>4. /\ mult \in F /\ terms \in Seq(0 .. count - 1) /\ Len(terms) >= 1 /\ Len(terms) \in Nat
      /\ Len(terms) < length
  <2>1. mult \in F /\ terms \in Seq(0 .. count - 1)
    BY <1>1, <1>3
  <2>2. Len(terms) \in Nat
    BY <2>1
  <2> QED BY <1>2, <2>1, <2>2
<1>5. P \in Nat \ {0} /\ F \subseteq Int /\ mult \in Int /\ x \in Int /\ 0 \in F
  <2>1. P \in Nat /\ P > 1 /\ F \subseteq Int /\ 0 \in F
    BY InField
  <2> QED BY <1>4, <2>1
<1>6. PICK e, s, q : /\ e = ExpandProducts(mles, n, split, index, terms)
                     /\ s = FoldedTerms(mles, n, split, index, terms, x)
                     /\ q = ProductPart(mles, n, split, index, i)
  OBVIOUS
<1>7. mles \in [0 .. count * n - 1 -> F]
  BY <1>1
<1>8. e \in [0 .. Len(terms) -> F]
  BY <1>2, <1>4, <1>6, <1>7, ExpandType
<1>9. s \in Seq(F) /\ Congruent(EvaluatePolynomial(e, 0, Len(terms) + 1, x), ProductOf(s), P)
  BY <1>2, <1>4, <1>6, <1>7, EvaluateProduct
<1>10. s \in Seq(Int)
  <2>1. s = [t \in 1 .. Len(terms) |-> FoldElement(mles, index, n, split, n * terms[t], x)]
    BY <1>6 DEF FoldedTerms
  <2>2. Len(s) = Len(terms)
    BY <1>4, <2>1
  <2>3. \A t \in 1 .. Len(s) : s[t] \in F
    BY <1>9, ElementOf
  <2>4. \A t \in 1 .. Len(terms) : s[t] \in Int
    BY <1>5, <2>2, <2>3
  <2>5. s = [t \in 1 .. Len(terms) |-> s[t]]
    BY <2>1
  <2>6. s \in [1 .. Len(terms) -> Int]
    BY <2>4, <2>5
  <2> QED BY <1>4, <2>6
<1>11. ProductOf(s) \in Int
  BY <1>10, InField, ProductType
<1>12. q = [k \in 0 .. length - 1 |-> IF k <= Len(terms) THEN e[k] ELSE 0]
  BY <1>1, <1>6 DEF ProductPart
<1>13. \A k \in 0 .. length - 1 : q[k] = (IF k < Len(terms) + 1 THEN e[k] ELSE 0) /\ q[k] \in F
  <2> SUFFICES ASSUME NEW k \in 0 .. length - 1
               PROVE  q[k] = (IF k < Len(terms) + 1 THEN e[k] ELSE 0) /\ q[k] \in F
    OBVIOUS
  <2>1. q[k] = IF k <= Len(terms) THEN e[k] ELSE 0
    BY <1>12
  <2>2. k <= Len(terms) <=> k < Len(terms) + 1
    BY <1>2, <1>4
  <2>3. k <= Len(terms) => e[k] \in F
    <3>1. k \in Nat
      BY <1>2
    <3> QED BY <1>4, <1>8, <3>1
  <2> QED BY <1>5, <2>1, <2>2, <2>3
<1>14. q \in [0 .. length - 1 -> Int]
  BY <1>5, <1>12, <1>13
<1>15. /\ Len(terms) + 1 \in Nat /\ Len(terms) + 1 <= length /\ 0 \in Nat
       /\ Coefficients(e, 0, Len(terms) + 1) /\ Coefficients(q, 0, length)
  <2>1. \A k \in 0 .. (Len(terms) + 1) - 1 : 0 + k \in 0 .. Len(terms)
    BY <1>4
  <2>2. \A k \in 0 .. Len(terms) : e[k] \in Int
    BY <1>5, <1>8
  <2>3. Coefficients(e, 0, Len(terms) + 1)
    BY <2>1, <2>2 DEF Coefficients
  <2>4. \A k \in 0 .. length - 1 : 0 + k = k
    OBVIOUS
  <2>5. Coefficients(q, 0, length)
    BY <1>14, <2>4 DEF Coefficients
  <2> QED BY <1>2, <1>4, <2>3, <2>5
<1>16. EvaluatePolynomial(q, 0, length, x) = EvaluatePolynomial(e, 0, Len(terms) + 1, x)
  BY <1>2, <1>5, <1>13, <1>15, EvaluatePadded
<1>17. EvaluatePolynomial(q, 0, length, x) \in Int
  BY <1>2, <1>5, <1>15, EvaluateType
<1>18. Congruent(mult * EvaluatePolynomial(q, 0, length, x), mult * ProductOf(s), P)
  BY <1>5, <1>9, <1>11, <1>16, <1>17, CongruentProduct, CongruentRemainder
<1>19. FoldedProduct(mles, n, split, index, i, x) = mult * ProductOf(s)
  BY <1>1, <1>6 DEF FoldedProduct
<1>20. mult * ProductOf(s) \in Int
  BY <1>5, <1>11
<1> QED BY <1>1, <1>5, <1>6, <1>14, <1>17, <1>18, <1>19, <1>20

-----------------------------------------------------------------------------
(* The coefficients of a round *)

(* The coefficients of a round at one index *)
IndexPart(mles, n, split, index) ==
  [k \in 0 .. problem.length - 1 |->
     SumFunction([i \in 1 .. Len(problem.products) |->
                    problem.products[i].mult * ProductPart(mles, n, split, index, i)[k]])]

(* What an index contributes is integers, and at x they have the index's   *)
(* value.                                                                  *)
LEMMA IndexPartIs ==
  ASSUME SumcheckAssumption, problem \in Problems, NEW n \in Nat,
         NEW mles \in [0 .. NumMles(problem) * n - 1 -> F], NEW split \in Nat,
         NEW index \in 0 .. n - 1, NEW x \in F
  PROVE  /\ IndexPart(mles, n, split, index) \in [0 .. problem.length - 1 -> Int]
         /\ FoldedSum(mles, n, split, index, x) \in Int
         /\ EvaluatePolynomial(IndexPart(mles, n, split, index), 0, problem.length, x) \in Int
         /\ Congruent(EvaluatePolynomial(IndexPart(mles, n, split, index), 0, problem.length, x),
                      FoldedSum(mles, n, split, index, x), P)
<1>1. PICK D, length, part, weight, c, q :
        /\ D = 1 .. Len(problem.products) /\ length = problem.length
        /\ part = [i \in D |-> FoldedProduct(mles, n, split, index, i, x)]
        /\ weight = [i \in D |-> problem.products[i].mult]
        /\ c = [i \in D |-> ProductPart(mles, n, split, index, i)]
        /\ q = IndexPart(mles, n, split, index)
  OBVIOUS
<1>2. P \in Nat \ {0} /\ F \subseteq Int /\ x \in Int /\ length \in Nat /\ 0 \in Nat
  <2>1. P \in Nat /\ P > 1 /\ F \subseteq Int
    BY InField
  <2> QED BY <1>1, <2>1, ProblemIs
<1>3. IsFiniteSet(D) /\ 1 \in Int /\ Len(problem.products) \in Int
  <2>1. Len(problem.products) \in Nat
    BY ProblemIs
  <2>2. IsFiniteSet(1 .. Len(problem.products))
    BY <2>1, FS_Interval
  <2> QED BY <1>1, <2>1, <2>2
<1>4. ASSUME NEW i \in D
      PROVE  /\ weight[i] \in Int /\ c[i] \in [0 .. length - 1 -> Int] /\ part[i] \in Int
             /\ EvaluatePolynomial(c[i], 0, length, x) \in Int
             /\ Congruent(weight[i] * EvaluatePolynomial(c[i], 0, length, x), part[i], P)
  <2>1. /\ weight[i] = problem.products[i].mult /\ c[i] = ProductPart(mles, n, split, index, i)
        /\ part[i] = FoldedProduct(mles, n, split, index, i, x) /\ i \in 1 .. Len(problem.products)
    BY <1>1
  <2> QED BY <1>1, <2>1, ProductPartIs
<1>5. /\ weight \in [D -> Int] /\ c \in [D -> [0 .. length - 1 -> Int]] /\ part \in [D -> Int]
  <2>1. \A i \in D : weight[i] \in Int /\ c[i] \in [0 .. length - 1 -> Int] /\ part[i] \in Int
    BY <1>4
  <2>2. weight = [i \in D |-> weight[i]] /\ c = [i \in D |-> c[i]] /\ part = [i \in D |-> part[i]]
    BY <1>1
  <2> QED BY <2>1, <2>2
<1>6. \A k \in 0 .. length - 1 :
        q[k] = SumFunction([i \in D |-> weight[i] * c[i][k]]) /\ q[k] \in Int
  <2> SUFFICES ASSUME NEW k \in 0 .. length - 1
               PROVE  q[k] = SumFunction([i \in D |-> weight[i] * c[i][k]]) /\ q[k] \in Int
    OBVIOUS
  <2>1. q[k] = SumFunction([i \in D |-> problem.products[i].mult * ProductPart(mles, n, split, index, i)[k]])
    BY <1>1 DEF IndexPart
  <2>2. [i \in D |-> problem.products[i].mult * ProductPart(mles, n, split, index, i)[k]]
          = [i \in D |-> weight[i] * c[i][k]]
    BY <1>1
  <2>3. \A i \in D : weight[i] * c[i][k] \in Int
    <3> SUFFICES ASSUME NEW i \in D PROVE weight[i] * c[i][k] \in Int
      OBVIOUS
    <3>1. weight[i] \in Int /\ c[i][k] \in Int
      BY <1>4
    <3> QED BY <3>1
  <2>4. [i \in D |-> weight[i] * c[i][k]] \in [1 .. Len(problem.products) -> Int]
    BY <1>1, <2>3
  <2>5. SumFunction([i \in D |-> weight[i] * c[i][k]]) \in Int
    BY <1>3, <2>4, SumIsInt
  <2> QED BY <2>1, <2>2, <2>5
<1>7. q \in [0 .. length - 1 -> Int]
  <2>1. q = [k \in 0 .. length - 1 |-> q[k]]
    BY <1>1 DEF IndexPart
  <2> QED BY <1>6, <2>1
<1>8. Coefficients(q, 0, length)
  <2>1. \A k \in 0 .. length - 1 : 0 + k = k
    OBVIOUS
  <2> QED BY <1>6, <2>1 DEF Coefficients
<1>9. IsWeighted(q, 0, length, c, weight, D)
  <2> SUFFICES ASSUME NEW k \in 0 .. length - 1
               PROVE  Congruent(q[0 + k], SumFunction([i \in D |-> weight[i] * c[i][k]]), P)
    BY DEF IsWeighted
  <2>1. 0 + k = k
    OBVIOUS
  <2>2. Congruent(q[k], q[k], P)
    BY <1>2, <1>6, CongruentRemainder
  <2> QED BY <1>6, <2>1, <2>2
<1>10. PICK g : g = [i \in D |-> weight[i] * EvaluatePolynomial(c[i], 0, length, x)]
  OBVIOUS
<1>11. Congruent(EvaluatePolynomial(q, 0, length, x), SumFunction(g), P)
  <2>1. ArePolynomials(c, length, D) /\ AreValues(g, c, weight, length, x, D)
    BY <1>4, <1>10 DEF ArePolynomials, AreValues
  <2> QED BY <1>2, <1>3, <1>5, <1>8, <1>9, <2>1, EvaluateSum
<1>12. g \in [D -> Int] /\ \A i \in D : Congruent(g[i], part[i], P)
  <2>1. \A i \in D : weight[i] * EvaluatePolynomial(c[i], 0, length, x) \in Int
    <3> SUFFICES ASSUME NEW i \in D PROVE weight[i] * EvaluatePolynomial(c[i], 0, length, x) \in Int
      OBVIOUS
    <3>1. weight[i] \in Int /\ EvaluatePolynomial(c[i], 0, length, x) \in Int
      BY <1>4
    <3> QED BY <3>1
  <2> QED BY <1>4, <1>10, <2>1
<1>13. Congruent(SumFunction(g), SumFunction(part), P)
  BY <1>2, <1>3, <1>5, <1>12, SumCongruent
<1>14. SumFunction(g) \in Int /\ SumFunction(part) \in Int
  <2>1. g \in [1 .. Len(problem.products) -> Int] /\ part \in [1 .. Len(problem.products) -> Int]
    BY <1>1, <1>5, <1>12
  <2> QED BY <1>3, <2>1, SumIsInt
<1>15. EvaluatePolynomial(q, 0, length, x) \in Int
  BY <1>2, <1>8, EvaluateType
<1>16. Congruent(EvaluatePolynomial(q, 0, length, x), SumFunction(part), P)
  BY <1>2, <1>11, <1>13, <1>14, <1>15, CongruentEquivalence
<1>17. FoldedSum(mles, n, split, index, x) = SumFunction(part)
  BY <1>1 DEF FoldedSum
<1> QED BY <1>1, <1>7, <1>14, <1>15, <1>16, <1>17

(* The value at x of the polynomial of a round is what the products add up *)
(* to when the array is folded at the challenge x.                         *)
LEMMA EvaluateRound ==
  ASSUME SumcheckAssumption, problem \in Problems, NEW n \in Nat,
         NEW mles \in [0 .. NumMles(problem) * n - 1 -> F], NEW split \in 0 .. n, NEW x \in F
  PROVE  Congruent(EvaluatePolynomial(SumOfProducts(mles, n, split), 0, problem.length, x),
                   SumFunction([index \in 0 .. split - 1 |-> FoldedSum(mles, n, split, index, x)]), P)
<1>1. PICK D, length, total, weight, c, q :
        /\ D = 0 .. split - 1 /\ length = problem.length
        /\ total = [index \in D |-> FoldedSum(mles, n, split, index, x)]
        /\ weight = [index \in D |-> 1]
        /\ c = [index \in D |-> IndexPart(mles, n, split, index)]
        /\ q = SumOfProducts(mles, n, split)
  OBVIOUS
<1>2. P \in Nat \ {0} /\ F \subseteq Int /\ x \in Int /\ length \in Nat /\ 0 \in Nat
  <2>1. P \in Nat /\ P > 1 /\ F \subseteq Int
    BY InField
  <2> QED BY <1>1, <2>1, ProblemIs
<1>3. IsFiniteSet(D) /\ 0 \in Int /\ split - 1 \in Int /\ split \in Nat
  BY <1>1, FS_Interval
<1>4. ASSUME NEW u \in D
      PROVE  /\ weight[u] = 1 /\ c[u] \in [0 .. length - 1 -> Int] /\ total[u] \in Int
             /\ EvaluatePolynomial(c[u], 0, length, x) \in Int
             /\ Congruent(EvaluatePolynomial(c[u], 0, length, x), total[u], P)
  <2>1. /\ weight[u] = 1 /\ c[u] = IndexPart(mles, n, split, u)
        /\ total[u] = FoldedSum(mles, n, split, u, x) /\ u \in 0 .. n - 1
    BY <1>1
  <2> QED BY <1>1, <1>3, <2>1, IndexPartIs
<1>5. /\ weight \in [D -> Int] /\ c \in [D -> [0 .. length - 1 -> Int]] /\ total \in [D -> Int]
  <2>1. \A u \in D : c[u] \in [0 .. length - 1 -> Int] /\ total[u] \in Int
    BY <1>4
  <2>2. c = [u \in D |-> c[u]] /\ total = [u \in D |-> total[u]]
    BY <1>1
  <2> QED BY <1>1, <2>1, <2>2
<1>6. q \in [0 .. length - 1 -> F]
  BY <1>1, SumOfProductsType
<1>7. \A k \in 0 .. length - 1 :
        q[k] = SumFunction([u \in D |-> weight[u] * c[u][k]]) % P
  <2> SUFFICES ASSUME NEW k \in 0 .. length - 1
               PROVE  q[k] = SumFunction([u \in D |-> weight[u] * c[u][k]]) % P
    OBVIOUS
  <2> DEFINE coefficient(index, product) ==
               IF k <= Len(product.terms)
               THEN product.mult * ExpandProducts(mles, n, split, index, product.terms)[k]
               ELSE 0
             row(index) == [i \in 1 .. Len(problem.products) |-> coefficient(index, problem.products[i])]
  <2>1. q[k] = SumFunction([index \in 0 .. split - 1 |-> SumFunction(row(index))]) % P
    BY <1>1 DEF SumOfProducts
  <2>2. ASSUME NEW u \in D
        PROVE  SumFunction(row(u)) = weight[u] * c[u][k]
    <3>1. ASSUME NEW i \in 1 .. Len(problem.products)
          PROVE  coefficient(u, problem.products[i])
                   = problem.products[i].mult * ProductPart(mles, n, split, u, i)[k]
      <4>1. problem.products[i].mult \in Int
        <5>1. u \in 0 .. n - 1
          BY <1>1
        <5> QED BY <1>3, <5>1, ProductPartIs
      <4>2. ProductPart(mles, n, split, u, i)[k]
              = IF k <= Len(problem.products[i].terms)
                THEN ExpandProducts(mles, n, split, u, problem.products[i].terms)[k] ELSE 0
        BY <1>1 DEF ProductPart
      <4>3. problem.products[i].mult * 0 = 0
        BY <4>1
      <4> QED BY <4>2, <4>3
    <3> HIDE DEF coefficient
    <3>2. row(u) = [i \in 1 .. Len(problem.products) |->
                      problem.products[i].mult * ProductPart(mles, n, split, u, i)[k]]
      BY <3>1
    <3>3. c[u][k] = SumFunction(row(u))
      <4>1. c[u] = IndexPart(mles, n, split, u)
        BY <1>1
      <4> QED BY <1>1, <3>2, <4>1 DEF IndexPart
    <3>4. c[u][k] \in Int /\ weight[u] = 1
      BY <1>4
    <3> HIDE DEF row
    <3> QED BY <3>3, <3>4
  <2> HIDE DEF row
  <2>3. [index \in 0 .. split - 1 |-> SumFunction(row(index))] = [u \in D |-> weight[u] * c[u][k]]
    BY <1>1, <2>2
  <2> QED BY <2>1, <2>3
<1>8. Coefficients(q, 0, length)
  <2>1. \A k \in 0 .. length - 1 : 0 + k = k
    OBVIOUS
  <2> QED BY <1>2, <1>6, <2>1 DEF Coefficients
<1>9. IsWeighted(q, 0, length, c, weight, D)
  <2> SUFFICES ASSUME NEW k \in 0 .. length - 1
               PROVE  Congruent(q[0 + k], SumFunction([u \in D |-> weight[u] * c[u][k]]), P)
    BY DEF IsWeighted
  <2>1. 0 + k = k
    OBVIOUS
  <2>2. \A u \in D : weight[u] * c[u][k] \in Int
    <3> SUFFICES ASSUME NEW u \in D PROVE weight[u] * c[u][k] \in Int
      OBVIOUS
    <3>1. weight[u] = 1 /\ c[u][k] \in Int
      BY <1>4
    <3> QED BY <3>1
  <2>3. PICK f : f = [u \in D |-> weight[u] * c[u][k]]
    OBVIOUS
  <2>4. f \in [0 .. split - 1 -> Int]
    BY <1>1, <2>2, <2>3
  <2>5. SumFunction(f) \in Int
    BY <1>3, <2>4, SumIsInt
  <2>6. Congruent(SumFunction(f) % P, SumFunction(f), P)
    BY <1>2, <2>5, CongruentRemainder
  <2> QED BY <1>7, <2>1, <2>3, <2>6
<1>10. PICK g : g = [u \in D |-> weight[u] * EvaluatePolynomial(c[u], 0, length, x)]
  OBVIOUS
<1>11. Congruent(EvaluatePolynomial(q, 0, length, x), SumFunction(g), P)
  <2>1. ArePolynomials(c, length, D) /\ AreValues(g, c, weight, length, x, D)
    BY <1>4, <1>10 DEF ArePolynomials, AreValues
  <2> QED BY <1>2, <1>3, <1>5, <1>8, <1>9, <2>1, EvaluateSum
<1>12. g \in [D -> Int] /\ \A u \in D : Congruent(g[u], total[u], P)
  <2>1. \A u \in D : /\ weight[u] * EvaluatePolynomial(c[u], 0, length, x) \in Int
                     /\ weight[u] * EvaluatePolynomial(c[u], 0, length, x)
                          = EvaluatePolynomial(c[u], 0, length, x)
    <3> SUFFICES ASSUME NEW u \in D
                 PROVE  /\ weight[u] * EvaluatePolynomial(c[u], 0, length, x) \in Int
                        /\ weight[u] * EvaluatePolynomial(c[u], 0, length, x)
                             = EvaluatePolynomial(c[u], 0, length, x)
      OBVIOUS
    <3>1. weight[u] = 1 /\ EvaluatePolynomial(c[u], 0, length, x) \in Int
      BY <1>4
    <3> QED BY <3>1
  <2> QED BY <1>4, <1>10, <2>1
<1>13. Congruent(SumFunction(g), SumFunction(total), P)
  BY <1>2, <1>3, <1>5, <1>12, SumCongruent
<1>14. SumFunction(g) \in Int /\ SumFunction(total) \in Int
  <2>1. g \in [0 .. split - 1 -> Int] /\ total \in [0 .. split - 1 -> Int]
    BY <1>1, <1>5, <1>12
  <2> QED BY <1>3, <2>1, SumIsInt
<1>15. EvaluatePolynomial(q, 0, length, x) \in Int
  <2>1. EvaluatePolynomial(q, 0, length, x) \in F
    BY <1>2, <1>8, EvaluateType
  <2> QED BY <1>2, <2>1
<1>16. Congruent(EvaluatePolynomial(q, 0, length, x), SumFunction(total), P)
  BY <1>2, <1>11, <1>13, <1>14, <1>15, CongruentEquivalence
<1> QED BY <1>1, <1>16

-----------------------------------------------------------------------------
(* A multilinear extension on a line *)

(* Remainders of products in a weighted sum *)
LEMMA CongruentPair ==
  ASSUME NEW m \in Nat \ {0}, NEW a \in Int, NEW b \in Int, NEW c \in Int, NEW d \in Int
  PROVE  /\ (a % m) \in Int /\ (b % m) \in Int
         /\ Congruent(c * a + d * b, c * (a % m) + d * (b % m), m)
<1>1. (a % m) \in 0 .. m - 1 /\ (b % m) \in 0 .. m - 1
  BY ModRange
<1>2. (a % m) \in Int /\ (b % m) \in Int
  BY <1>1
<1>3. PICK e, g : e = (a % m) /\ g = (b % m)
  OBVIOUS
<1>4. Congruent(a, e, m) /\ Congruent(b, g, m) /\ Congruent(c, c, m) /\ Congruent(d, d, m)
  BY <1>3, CongruentRemainder
<1>5. Congruent(c * a, c * e, m) /\ Congruent(d * b, d * g, m)
  BY <1>2, <1>3, <1>4, CongruentProduct
<1>6. c * a \in Int /\ c * e \in Int /\ d * b \in Int /\ d * g \in Int
  BY <1>2, <1>3
<1>7. Congruent(c * a + d * b, c * e + d * g, m)
  BY <1>5, <1>6, CongruentSum
<1> QED BY <1>2, <1>3, <1>7

(* Multiplying a weighted sum *)
LEMMA ScaledPair ==
  ASSUME NEW c \in Int, NEW d \in Int, NEW s \in Int, NEW a \in Int, NEW b \in Int
  PROVE  /\ s * (c * a + d * b) = c * (s * a) + d * (s * b)
         /\ (c * a + d * b) * s = c * (a * s) + d * (b * s)
<1>1. /\ s * (c * a) = c * (s * a) /\ s * (d * b) = d * (s * b)
      /\ (c * a) * s = c * (a * s) /\ (d * b) * s = d * (b * s)
  BY SMT
<1>2. c * a \in Int /\ d * b \in Int
  BY SMT
<1>3. \A u, v, w \in Int : (u + v) * w = u * w + v * w /\ w * (u + v) = w * u + w * v
  BY SMT
<1>4. s * (c * a + d * b) = s * (c * a) + s * (d * b) /\ (c * a + d * b) * s = (c * a) * s + (d * b) * s
  BY <1>2, <1>3
<1> QED BY <1>1, <1>4

(* Sequences that differ at place k only, where s is the sum of u and v *)
SumsAt(s, u, v, k, c, d) ==
  /\ Len(u) = Len(s) /\ Len(v) = Len(s)
  /\ \A j \in 1 .. Len(s) : j # k => u[j] = s[j] /\ v[j] = s[j]
  /\ s[k] = c * u[k] + d * v[k]

(* A product is linear in each of its factors. *)
LEMMA ProductLinear ==
  ASSUME P \in Nat, P > 1, NEW s \in Seq(Int), NEW u \in Seq(Int), NEW v \in Seq(Int),
         NEW k \in 1 .. Len(s), NEW c \in Int, NEW d \in Int, SumsAt(s, u, v, k, c, d)
  PROVE  Congruent(ProductOf(s), c * ProductOf(u) + d * ProductOf(v), P)
<1>1. PICK len : len = Len(s)
  OBVIOUS
<1>2. /\ len \in Nat /\ k \in 1 .. len /\ Len(u) = len /\ Len(v) = len
      /\ \A j \in 1 .. len : j # k => u[j] = s[j] /\ v[j] = s[j]
      /\ s[k] = c * u[k] + d * v[k]
      /\ \A j \in 1 .. len : s[j] \in Int /\ u[j] \in Int /\ v[j] \in Int
  <2>1. len \in Nat /\ k \in 1 .. len /\ Len(u) = len /\ Len(v) = len
    BY <1>1 DEF SumsAt
  <2>2. \A j \in 1 .. len : s[j] \in Int /\ u[j] \in Int /\ v[j] \in Int
    <3>1. s \in [1 .. len -> Int] /\ u \in [1 .. len -> Int] /\ v \in [1 .. len -> Int]
      BY <1>1, <2>1
    <3> QED BY <3>1
  <2>3. /\ \A j \in 1 .. len : j # k => u[j] = s[j] /\ v[j] = s[j]
        /\ s[k] = c * u[k] + d * v[k]
    BY <1>1 DEF SumsAt
  <2> QED BY <2>1, <2>2, <2>3
<1>3. PICK r \in [0 .. len -> Int] :
        /\ ProductOf(s) = r[len] /\ r[0] = 1 /\ \A j \in 1 .. len : r[j] = (s[j] * r[j - 1]) % P
  BY <1>1, ProductIs
<1>4. PICK ru \in [0 .. len -> Int] :
        /\ ProductOf(u) = ru[len] /\ ru[0] = 1 /\ \A j \in 1 .. len : ru[j] = (u[j] * ru[j - 1]) % P
  <2>1. \E w \in [0 .. Len(u) -> Int] :
          /\ ProductOf(u) = w[Len(u)] /\ w[0] = 1 /\ \A j \in 1 .. Len(u) : w[j] = (u[j] * w[j - 1]) % P
    BY ProductIs
  <2> QED BY <1>2, <2>1
<1>5. PICK rv \in [0 .. len -> Int] :
        /\ ProductOf(v) = rv[len] /\ rv[0] = 1 /\ \A j \in 1 .. len : rv[j] = (v[j] * rv[j - 1]) % P
  <2>1. \E w \in [0 .. Len(v) -> Int] :
          /\ ProductOf(v) = w[Len(v)] /\ w[0] = 1 /\ \A j \in 1 .. Len(v) : w[j] = (v[j] * w[j - 1]) % P
    BY ProductIs
  <2> QED BY <1>2, <2>1
<1>6. P \in Nat \ {0}
  OBVIOUS
<1> DEFINE G == {j \in 0 .. len : IF j < k THEN ru[j] = r[j] /\ rv[j] = r[j]
                                  ELSE Congruent(r[j], c * ru[j] + d * rv[j], P)}
<1>7. 0 \in G
  BY <1>2, <1>3, <1>4, <1>5
<1>8. ASSUME NEW j \in 1 .. len, j - 1 \in G PROVE j \in G
  <2>1. /\ r[j] = (s[j] * r[j - 1]) % P /\ ru[j] = (u[j] * ru[j - 1]) % P
        /\ rv[j] = (v[j] * rv[j - 1]) % P
    BY <1>3, <1>4, <1>5
  <2>2. r[j - 1] \in Int /\ ru[j - 1] \in Int /\ rv[j - 1] \in Int
        /\ s[j] \in Int /\ u[j] \in Int /\ v[j] \in Int
    <3>1. j - 1 \in 0 .. len
      BY <1>2
    <3> QED BY <1>2, <3>1
  <2>3. PICK e, a, b, f, g, h : /\ e = r[j - 1] /\ a = ru[j - 1] /\ b = rv[j - 1]
                                /\ f = s[j] /\ g = u[j] /\ h = v[j]
    OBVIOUS
  <2>4. e \in Int /\ a \in Int /\ b \in Int /\ f \in Int /\ g \in Int /\ h \in Int
    BY <2>2, <2>3
  <2>5. g * a \in Int /\ h * b \in Int /\ f * e \in Int
    BY <2>4
  (* when the product is the weighted sum, so are the remainders *)
  <2>6. Congruent(f * e, c * (g * a) + d * (h * b), P)
          => Congruent(r[j], c * ru[j] + d * rv[j], P)
    <3> SUFFICES ASSUME Congruent(f * e, c * (g * a) + d * (h * b), P)
                 PROVE  Congruent((f * e) % P, c * ((g * a) % P) + d * ((h * b) % P), P)
      BY <2>1, <2>3
    <3>1. PICK y, z, w : y = f * e /\ z = g * a /\ w = h * b
      OBVIOUS
    <3>2. y \in Int /\ z \in Int /\ w \in Int
      BY <2>5, <3>1
    <3>3. /\ (z % P) \in Int /\ (w % P) \in Int
          /\ Congruent(c * z + d * w, c * (z % P) + d * (w % P), P)
      BY <1>6, <3>2, CongruentPair
    <3>4. (y % P) \in Int /\ Congruent(y % P, y, P)
      <4>1. (y % P) \in 0 .. P - 1
        BY <1>6, <3>2, ModRange
      <4>2. (y % P) \in Int
        BY <1>6, <4>1
      <4> QED BY <1>6, <3>2, <4>2, CongruentRemainder
    <3>5. c * z + d * w \in Int /\ c * (z % P) + d * (w % P) \in Int
      <4>1. c * z \in Int /\ d * w \in Int
        BY <3>2
      <4>2. c * (z % P) \in Int /\ d * (w % P) \in Int
        BY <3>3
      <4> QED BY <4>1, <4>2
    <3>6. Congruent(y, c * z + d * w, P)
      BY <3>1
    <3>7. Congruent(y, c * (z % P) + d * (w % P), P)
      <4>1. Congruent(c * z + d * w, y, P)
        BY <1>6, <3>2, <3>5, <3>6, CongruentEquivalence
      <4> QED BY <1>6, <3>2, <3>3, <3>5, <3>6, CongruentEquivalence
    <3>8. Congruent(y, y % P, P)
      BY <1>6, <3>2, CongruentRemainder
    <3>9. Congruent(y % P, c * (z % P) + d * (w % P), P)
      BY <1>6, <3>2, <3>4, <3>5, <3>7, <3>8, CongruentEquivalence
    <3> QED BY <3>1, <3>9
  <2>7. CASE j < k
    <3>1. a = e /\ b = e /\ g = f /\ h = f
      <4>1. j - 1 < k /\ j # k
        BY <2>7
      <4>2. ru[j - 1] = r[j - 1] /\ rv[j - 1] = r[j - 1]
        BY <1>8, <4>1
      <4> QED BY <1>2, <2>3, <4>1, <4>2
    <3>2. ru[j] = r[j] /\ rv[j] = r[j]
      BY <2>1, <2>3, <3>1
    <3>3. j \in 0 .. len
      BY <1>2
    <3> QED BY <2>7, <3>2, <3>3
  <2>8. CASE j = k
    <3>1. a = e /\ b = e
      <4>1. j - 1 < k
        BY <1>2, <2>8
      <4> QED BY <1>8, <2>3, <4>1
    <3>2. f = c * g + d * h
      BY <1>2, <2>3, <2>8
    <3>3. f * e = c * (g * a) + d * (h * b)
      <4>1. (c * g + d * h) * e = c * (g * e) + d * (h * e)
        BY <2>4, ScaledPair
      <4> QED BY <3>1, <3>2, <4>1
    <3>4. Congruent(f * e, c * (g * a) + d * (h * b), P)
      <4>1. Congruent(f * e, f * e, P)
        BY <1>6, <2>5, CongruentRemainder
      <4> QED BY <3>3, <4>1
    <3>5. j \in 0 .. len /\ ~ (j < k)
      BY <1>2, <2>8
    <3> QED BY <2>6, <3>4, <3>5
  <2>9. CASE j > k
    <3>1. g = f /\ h = f
      <4>1. j # k
        BY <1>2, <2>9
      <4> QED BY <1>2, <2>3, <4>1
    <3>2. Congruent(e, c * a + d * b, P)
      <4>1. ~ (j - 1 < k)
        BY <1>2, <2>9
      <4> QED BY <1>8, <2>3, <4>1
    <3>3. c * a + d * b \in Int
      <4>1. c * a \in Int /\ d * b \in Int
        BY <2>4
      <4> QED BY <4>1
    <3>4. Congruent(f * e, f * (c * a + d * b), P)
      <4>1. Congruent(f, f, P)
        BY <1>6, <2>4, CongruentRemainder
      <4> QED BY <1>6, <2>4, <3>2, <3>3, <4>1, CongruentProduct
    <3>5. f * (c * a + d * b) = c * (f * a) + d * (f * b)
      BY <2>4, ScaledPair
    <3>6. Congruent(f * e, c * (g * a) + d * (h * b), P)
      BY <3>1, <3>4, <3>5
    <3>7. j \in 0 .. len /\ ~ (j < k)
      BY <1>2, <2>9
    <3> QED BY <2>6, <3>6, <3>7
  <2>10. j < k \/ j = k \/ j > k
    BY <1>2
  <2> QED BY <2>7, <2>8, <2>9, <2>10
<1>9. len \in G
  <2> HIDE DEF G
  <2>1. \A j \in 0 .. len : j \in G
    BY <1>2, <1>7, <1>8, BoundedInduction
  <2> QED BY <1>2, <2>1
<1>10. ~ (len < k)
  BY <1>2
<1> QED BY <1>3, <1>4, <1>5, <1>9, <1>10

(* The factors of an evaluation's weight *)
WeightFactors(i, x) == [j \in 1 .. Len(x) |-> IF Bit(i, j, Len(x)) = 1 THEN x[j] ELSE 1 - x[j]]

(* Each factor of a weight is an integer, and there is one for each        *)
(* coordinate.                                                             *)
LEMMA FactorsType ==
  ASSUME SumcheckAssumption, NEW i \in Nat, NEW x \in Seq(F)
  PROVE  /\ WeightFactors(i, x) \in Seq(Int) /\ Len(WeightFactors(i, x)) = Len(x)
         /\ \A j \in 1 .. Len(x) :
              WeightFactors(i, x)[j] = IF Bit(i, j, Len(x)) = 1 THEN x[j] ELSE 1 - x[j]
         /\ Weight(i, x) = ProductOf(WeightFactors(i, x))
<1>1. \A j \in 1 .. Len(x) : x[j] \in Int
  BY InField
<1>2. \A j \in 1 .. Len(x) : (IF Bit(i, j, Len(x)) = 1 THEN x[j] ELSE 1 - x[j]) \in Int
  BY <1>1
<1>3. WeightFactors(i, x) \in Seq(Int)
  BY <1>2 DEF WeightFactors
<1>4. Len(WeightFactors(i, x)) = Len(x)
  BY DEF WeightFactors
<1> QED BY <1>3, <1>4 DEF WeightFactors, Weight

(* A point with b for the coordinate behind x *)
LEMMA PointWith ==
  ASSUME SumcheckAssumption, NEW x \in Seq(F), NEW y \in Seq(F), NEW b \in F
  PROVE  /\ Append(x, b) \o y \in Seq(F) /\ Len(Append(x, b) \o y) = Len(x) + 1 + Len(y)
         /\ (Append(x, b) \o y)[Len(x) + 1] = b
         /\ \A j \in 1 .. Len(x) : (Append(x, b) \o y)[j] = x[j]
         /\ \A j \in 1 .. Len(y) : (Append(x, b) \o y)[Len(x) + 1 + j] = y[j]
<1>1. PICK w : w = Append(x, b)
  OBVIOUS
<1>2. /\ w \in Seq(F) /\ Len(w) = Len(x) + 1 /\ w[Len(x) + 1] = b
      /\ \A j \in 1 .. Len(x) : w[j] = x[j]
  BY <1>1
<1>3. /\ w \o y \in Seq(F) /\ Len(w \o y) = Len(w) + Len(y)
      /\ \A j \in 1 .. Len(w) : (w \o y)[j] = w[j]
      /\ \A j \in 1 .. Len(y) : (w \o y)[Len(w) + j] = y[j]
  <2> HIDE DEF F
  <2>1. w \in Seq(F)
    BY <1>2
  <2> QED BY ONLY <2>1, y \in Seq(F), ConcatElements
<1>4. Len(x) \in Nat /\ (\A j \in 1 .. Len(x) : j \in 1 .. Len(w)) /\ Len(x) + 1 \in 1 .. Len(w)
  BY <1>2
<1> QED BY <1>1, <1>2, <1>3, <1>4

(* The weight of an evaluation is linear in each coordinate. *)
LEMMA WeightLine ==
  ASSUME SumcheckAssumption, NEW i \in Nat, NEW x \in Seq(F), NEW y \in Seq(F), NEW r \in F
  PROVE  Congruent(Weight(i, Append(x, r) \o y),
                   (1 - r) * Weight(i, Append(x, 0) \o y) + r * Weight(i, Append(x, 1) \o y), P)
<1>1. P \in Nat /\ P > 1 /\ 0 \in F /\ 1 \in F /\ F \subseteq Int /\ r \in Int /\ 1 - r \in Int
  <2>1. P \in Nat /\ P > 1 /\ 0 \in F /\ 1 \in F /\ F \subseteq Int
    BY InField
  <2>2. r \in Int
    BY <2>1
  <2> QED BY <2>1, <2>2
<1>2. PICK k, len, z, u, v : /\ k = Len(x) + 1 /\ len = Len(x) + 1 + Len(y)
                             /\ z = Append(x, r) \o y /\ u = Append(x, 0) \o y
                             /\ v = Append(x, 1) \o y
  OBVIOUS
<1>3. k \in 1 .. len /\ len \in Nat
  BY <1>2
<1>4. /\ z \in Seq(F) /\ Len(z) = len /\ z[k] = r
      /\ u \in Seq(F) /\ Len(u) = len /\ u[k] = 0
      /\ v \in Seq(F) /\ Len(v) = len /\ v[k] = 1
  BY <1>1, <1>2, PointWith
<1>5. \A j \in 1 .. len : j # k => u[j] = z[j] /\ v[j] = z[j]
  <2> SUFFICES ASSUME NEW j \in 1 .. len, j # k PROVE u[j] = z[j] /\ v[j] = z[j]
    OBVIOUS
  <2>1. CASE j < k
    <3>1. j \in 1 .. Len(x)
      BY <1>2, <2>1
    <3> QED BY <1>1, <1>2, <3>1, PointWith
  <2>2. CASE j > k
    <3>1. PICK h : h = j - k
      OBVIOUS
    <3>2. h \in 1 .. Len(y) /\ j = Len(x) + 1 + h
      BY <1>2, <2>2, <3>1
    <3>3. z[Len(x) + 1 + h] = y[h] /\ u[Len(x) + 1 + h] = y[h] /\ v[Len(x) + 1 + h] = y[h]
      BY <1>1, <1>2, <3>2, PointWith
    <3> QED BY <3>2, <3>3
  <2> QED BY <1>3, <2>1, <2>2
<1>6. PICK s, su, sv : s = WeightFactors(i, z) /\ su = WeightFactors(i, u) /\ sv = WeightFactors(i, v)
  OBVIOUS
<1>7. /\ s \in Seq(Int) /\ Len(s) = len /\ Weight(i, z) = ProductOf(s)
      /\ \A j \in 1 .. len : s[j] = IF Bit(i, j, len) = 1 THEN z[j] ELSE 1 - z[j]
  <2>1. z \in Seq(F) /\ Len(z) = len
    BY <1>4
  <2>2. /\ s \in Seq(Int) /\ Len(s) = Len(z) /\ Weight(i, z) = ProductOf(s)
        /\ \A j \in 1 .. Len(z) : s[j] = IF Bit(i, j, Len(z)) = 1 THEN z[j] ELSE 1 - z[j]
    BY <1>6, <2>1, FactorsType
  <2> QED BY <2>1, <2>2
<1>8. /\ su \in Seq(Int) /\ Len(su) = len /\ Weight(i, u) = ProductOf(su)
      /\ \A j \in 1 .. len : su[j] = IF Bit(i, j, len) = 1 THEN u[j] ELSE 1 - u[j]
  <2>1. u \in Seq(F) /\ Len(u) = len
    BY <1>4
  <2>2. /\ su \in Seq(Int) /\ Len(su) = Len(u) /\ Weight(i, u) = ProductOf(su)
        /\ \A j \in 1 .. Len(u) : su[j] = IF Bit(i, j, Len(u)) = 1 THEN u[j] ELSE 1 - u[j]
    BY <1>6, <2>1, FactorsType
  <2> QED BY <2>1, <2>2
<1>9. /\ sv \in Seq(Int) /\ Len(sv) = len /\ Weight(i, v) = ProductOf(sv)
      /\ \A j \in 1 .. len : sv[j] = IF Bit(i, j, len) = 1 THEN v[j] ELSE 1 - v[j]
  <2>1. v \in Seq(F) /\ Len(v) = len
    BY <1>4
  <2>2. /\ sv \in Seq(Int) /\ Len(sv) = Len(v) /\ Weight(i, v) = ProductOf(sv)
        /\ \A j \in 1 .. Len(v) : sv[j] = IF Bit(i, j, Len(v)) = 1 THEN v[j] ELSE 1 - v[j]
    BY <1>6, <2>1, FactorsType
  <2> QED BY <2>1, <2>2
<1>10. s[k] = (1 - r) * su[k] + r * sv[k]
  <2>1. CASE Bit(i, k, len) = 1
    <3>1. s[k] = r /\ su[k] = 0 /\ sv[k] = 1
      BY <1>3, <1>4, <1>7, <1>8, <1>9, <2>1
    <3> QED BY <1>1, <3>1
  <2>2. CASE Bit(i, k, len) # 1
    <3>1. s[k] = 1 - r /\ su[k] = 1 /\ sv[k] = 0
      BY <1>3, <1>4, <1>7, <1>8, <1>9, <2>2
    <3> QED BY <1>1, <3>1
  <2> QED BY <2>1, <2>2
<1>11. SumsAt(s, su, sv, k, 1 - r, r)
  <2>1. \A j \in 1 .. len : j # k => su[j] = s[j] /\ sv[j] = s[j]
    BY <1>5, <1>7, <1>8, <1>9
  <2> QED BY <1>7, <1>8, <1>9, <1>10, <2>1 DEF SumsAt
<1>12. k \in 1 .. Len(s)
  BY <1>3, <1>7
<1>13. Congruent(ProductOf(s), (1 - r) * ProductOf(su) + r * ProductOf(sv), P)
  BY <1>1, <1>7, <1>8, <1>9, <1>11, <1>12, ProductLinear
<1> QED BY <1>2, <1>7, <1>8, <1>9, <1>13

(* What is at place i of an MLE's sum *)
LEMMA MleTermType ==
  ASSUME SumcheckAssumption, problem \in Problems, NEW m \in 0 .. NumMles(problem) - 1,
         NEW x \in Seq(F), NEW i \in 0 .. problem.n - 1
  PROVE  /\ problem.mles[m * problem.n + i] \in F /\ problem.mles[m * problem.n + i] \in Int
         /\ i \in Nat /\ Weight(i, x) \in Int
         /\ problem.mles[m * problem.n + i] * Weight(i, x) \in Int
<1>1. PICK n : n = problem.n
  OBVIOUS
<1>2. n \in Nat /\ NumMles(problem) \in Nat
      /\ problem.mles \in [0 .. NumMles(problem) * n - 1 -> F]
  BY <1>1, ProblemIs
<1>3. i \in 0 .. n - 1 /\ i \in Nat
  BY <1>1, <1>2
<1>4. m * n + i \in 0 .. NumMles(problem) * n - 1
  BY <1>2, <1>3, PlaceOfElement
<1>5. problem.mles[m * n + i] \in F /\ F \subseteq Int
  BY <1>2, <1>4, InField
<1>6. Weight(i, x) \in Int
  BY <1>3, WeightType
<1>7. problem.mles[m * n + i] \in Int
  BY <1>5
<1>8. problem.mles[m * n + i] * Weight(i, x) \in Int
  BY <1>6, <1>7
<1> QED BY <1>1, <1>3, <1>5, <1>6, <1>7, <1>8

(* The sum of an MLE before the remainder is taken *)
MleTerms(m, x) == [i \in 0 .. problem.n - 1 |-> problem.mles[m * problem.n + i] * Weight(i, x)]

(* What an MLE's sum is taken over is finite and its terms are integers. *)
LEMMA MleTermsType ==
  ASSUME SumcheckAssumption, problem \in Problems, NEW m \in 0 .. NumMles(problem) - 1,
         NEW x \in Seq(F)
  PROVE  /\ MleTerms(m, x) \in [0 .. problem.n - 1 -> Int]
         /\ SumFunction(MleTerms(m, x)) \in Int
         /\ MleAt(m, x) = SumFunction(MleTerms(m, x)) % P
<1>1. \A i \in 0 .. problem.n - 1 : problem.mles[m * problem.n + i] * Weight(i, x) \in Int
  BY MleTermType
<1>2. MleTerms(m, x) \in [0 .. problem.n - 1 -> Int]
  BY <1>1 DEF MleTerms
<1>3. problem.n - 1 \in Int /\ 0 \in Int
  BY ProblemIs
<1>4. SumFunction(MleTerms(m, x)) \in Int
  BY <1>2, <1>3, SumIsInt
<1> QED BY <1>2, <1>4 DEF MleAt, MleTerms

(* The value of an MLE is linear in each coordinate. *)
LEMMA MleAtLine ==
  ASSUME SumcheckAssumption, problem \in Problems, NEW m \in 0 .. NumMles(problem) - 1,
         NEW x \in Seq(F), NEW y \in Seq(F), NEW r \in F
  PROVE  MleAt(m, Append(x, r) \o y)
           = (MleAt(m, Append(x, 0) \o y) * (1 - r) + MleAt(m, Append(x, 1) \o y) * r) % P
<1>1. P \in Nat \ {0} /\ 0 \in F /\ 1 \in F /\ F \subseteq Int /\ r \in Int /\ 1 - r \in Int
  <2>1. P \in Nat /\ P > 1 /\ 0 \in F /\ 1 \in F /\ F \subseteq Int
    BY InField
  <2>2. r \in Int
    BY <2>1
  <2> QED BY <2>1, <2>2
<1>2. PICK z, u, v, D : /\ z = Append(x, r) \o y /\ u = Append(x, 0) \o y
                        /\ v = Append(x, 1) \o y /\ D = 0 .. problem.n - 1
  OBVIOUS
<1>3. z \in Seq(F) /\ u \in Seq(F) /\ v \in Seq(F)
  BY <1>1, <1>2, PointWith
<1>4. PICK f, g, h, k : /\ h = MleTerms(m, z) /\ f = MleTerms(m, u) /\ g = MleTerms(m, v)
                        /\ k = [i \in D |-> g[i] * r]
  OBVIOUS
<1>5. /\ h \in [D -> Int] /\ SumFunction(h) \in Int /\ MleAt(m, z) = SumFunction(h) % P
      /\ f \in [D -> Int] /\ SumFunction(f) \in Int /\ MleAt(m, u) = SumFunction(f) % P
      /\ g \in [D -> Int] /\ SumFunction(g) \in Int /\ MleAt(m, v) = SumFunction(g) % P
  BY <1>2, <1>3, <1>4, MleTermsType
<1>6. k \in [D -> Int] /\ IsFiniteSet(D)
  <2>1. \A i \in D : g[i] * r \in Int
    <3> SUFFICES ASSUME NEW i \in D PROVE g[i] * r \in Int
      OBVIOUS
    <3>1. g[i] \in Int
      BY <1>5
    <3> QED BY <1>1, <3>1
  <2>2. PICK e : e = problem.n - 1
    OBVIOUS
  <2>3. IsFiniteSet(D)
    <3>1. e \in Int /\ 0 \in Int
      BY <2>2, ProblemIs
    <3>2. IsFiniteSet(0 .. e)
      BY <3>1, FS_Interval
    <3> QED BY <1>2, <2>2, <3>2
  <2> QED BY <1>4, <2>1, <2>3
<1>7. LinearIn(h, f, k, 1 - r, D, P)
  <2> SUFFICES ASSUME NEW i \in D
               PROVE  Congruent(h[i], f[i] * (1 - r) + k[i], P)
    BY DEF LinearIn
  <2>1. PICK a, w, wu, wv : /\ a = problem.mles[m * problem.n + i] /\ w = Weight(i, z)
                            /\ wu = Weight(i, u) /\ wv = Weight(i, v)
    OBVIOUS
  <2>2. a \in Int /\ w \in Int /\ wu \in Int /\ wv \in Int /\ i \in Nat
    BY <1>2, <1>3, <2>1, MleTermType
  <2>3. Congruent(w, (1 - r) * wu + r * wv, P)
    BY <1>2, <2>1, <2>2, WeightLine
  <2>4. (1 - r) * wu + r * wv \in Int
    <3>1. (1 - r) * wu \in Int /\ r * wv \in Int
      BY <1>1, <2>2
    <3> QED BY <3>1
  <2>5. Congruent(a * w, a * ((1 - r) * wu + r * wv), P)
    <3>1. Congruent(a, a, P)
      BY <1>1, <2>2, CongruentRemainder
    <3> QED BY <1>1, <2>2, <2>3, <2>4, <3>1, CongruentProduct
  <2>6. a * ((1 - r) * wu + r * wv) = (1 - r) * (a * wu) + r * (a * wv)
    BY <1>1, <2>2, ScaledPair
  <2>7. /\ (1 - r) * (a * wu) = (a * wu) * (1 - r)
        /\ r * (a * wv) = (a * wv) * r
    <3>1. a * wu \in Int /\ a * wv \in Int
      BY <2>2
    <3> QED BY <1>1, <3>1
  <2>8. h[i] = a * w /\ f[i] = a * wu /\ k[i] = (a * wv) * r
    BY <1>2, <1>4, <2>1 DEF MleTerms
  <2> QED BY <2>5, <2>6, <2>7, <2>8
<1>8. Congruent(SumFunction(h), SumFunction(f) * (1 - r) + SumFunction(k), P)
  BY <1>1, <1>5, <1>6, <1>7, SumLinear
<1>9. SumFunction(k) \in Int /\ Congruent(SumFunction(k), SumFunction(g) * r, P)
  <2>1. PICK o : o = [i \in D |-> 0]
    OBVIOUS
  <2>2. o \in [D -> Int] /\ SumFunction(o) = 0
    BY <1>6, <2>1, SumOfZeros
  <2>3. LinearIn(k, g, o, r, D, P)
    <3> SUFFICES ASSUME NEW i \in D
                 PROVE  Congruent(k[i], g[i] * r + o[i], P)
      BY DEF LinearIn
    <3>1. k[i] = g[i] * r /\ o[i] = 0 /\ k[i] \in Int
      BY <1>4, <1>6, <2>1
    <3>2. g[i] * r + o[i] = k[i]
      BY <3>1
    <3> QED BY <1>1, <3>1, <3>2, CongruentRemainder
  <2>4. Congruent(SumFunction(k), SumFunction(g) * r + SumFunction(o), P)
    BY <1>1, <1>5, <1>6, <2>2, <2>3, SumLinear
  <2>5. SumFunction(k) \in Int
    BY <1>6, SumType DEF SumFunction
  <2>6. SumFunction(g) * r \in Int
    BY <1>1, <1>5
  <2>7. SumFunction(g) * r + SumFunction(o) = SumFunction(g) * r
    BY <2>2, <2>6
  <2> QED BY <2>4, <2>5, <2>7
<1>10. PICK a, b, c, e : a = SumFunction(f) /\ b = SumFunction(g) /\ c = SumFunction(h) /\ e = SumFunction(k)
  OBVIOUS
<1>11. a \in Int /\ b \in Int /\ c \in Int /\ e \in Int
  BY <1>5, <1>9, <1>10
<1>12. a * (1 - r) \in Int /\ b * r \in Int
  BY <1>1, <1>11
<1>13. Congruent(c, a * (1 - r) + e, P) /\ Congruent(e, b * r, P)
  BY <1>8, <1>9, <1>10
<1>14. Congruent(a * (1 - r) + e, a * (1 - r) + b * r, P)
  <2>1. Congruent(a * (1 - r), a * (1 - r), P)
    BY <1>1, <1>12, CongruentRemainder
  <2> QED BY <1>1, <1>11, <1>12, <1>13, <2>1, CongruentSum
<1>15. /\ (a % P) \in Int /\ (b % P) \in Int
       /\ Congruent((1 - r) * a + r * b, (1 - r) * (a % P) + r * (b % P), P)
  BY <1>1, <1>11, CongruentPair
<1>16. /\ (1 - r) * a = a * (1 - r) /\ r * b = b * r
       /\ (1 - r) * (a % P) = (a % P) * (1 - r) /\ r * (b % P) = (b % P) * r
       /\ (a % P) * (1 - r) \in Int /\ (b % P) * r \in Int
  <2>1. (1 - r) * a = a * (1 - r) /\ r * b = b * r
    BY <1>1, <1>11
  <2>2. PICK a1, b1 : a1 = (a % P) /\ b1 = (b % P)
    OBVIOUS
  <2>3. a1 \in Int /\ b1 \in Int
    BY <1>15, <2>2
  <2>4. /\ (1 - r) * a1 = a1 * (1 - r) /\ r * b1 = b1 * r
        /\ a1 * (1 - r) \in Int /\ b1 * r \in Int
    BY <1>1, <2>3
  <2> QED BY <2>1, <2>2, <2>4
<1>17. Congruent(a * (1 - r) + b * r, (a % P) * (1 - r) + (b % P) * r, P)
  BY <1>15, <1>16
<1>18. PICK t1, t2, t3 : /\ t1 = a * (1 - r) + e /\ t2 = a * (1 - r) + b * r
                         /\ t3 = (a % P) * (1 - r) + (b % P) * r
  OBVIOUS
<1>19. t1 \in Int /\ t2 \in Int /\ t3 \in Int
  BY <1>11, <1>12, <1>16, <1>18
<1>20. Congruent(c, t1, P) /\ Congruent(t1, t2, P) /\ Congruent(t2, t3, P)
  BY <1>13, <1>14, <1>17, <1>18
<1>21. (c % P) = (t1 % P) /\ (t1 % P) = (t2 % P) /\ (t2 % P) = (t3 % P)
  BY <1>1, <1>11, <1>19, <1>20, CongruentMod
<1> QED BY <1>2, <1>5, <1>10, <1>18, <1>21

-----------------------------------------------------------------------------
(* A multilinear extension at the corners of the cube *)

(* Every index below 2^(r + 1) is the top bit and an index below 2^r. *)
LEMMA HalfOf ==
  ASSUME NEW r \in Nat, NEW i \in 0 .. PowerOf2(r + 1) - 1
  PROVE  \E b \in {0, 1}, h \in 0 .. PowerOf2(r) - 1 : i = b * PowerOf2(r) + h
<1>1. PICK q : q = PowerOf2(r)
  OBVIOUS
<1>2. q \in Nat \ {0} /\ PowerOf2(r + 1) = 2 * q
  BY <1>1, PowerStep
<1>3. i \in Int /\ 0 <= i /\ i < 2 * q
  BY <1>2
<1>4. CASE i < q
  <2>1. i \in 0 .. q - 1 /\ i = 0 * q + i
    BY <1>2, <1>3, <1>4
  <2> QED BY <1>1, <2>1
<1>5. CASE i >= q
  <2>1. i - q \in 0 .. q - 1 /\ i = 1 * q + (i - q)
    BY <1>2, <1>3, <1>5
  <2> QED BY <1>1, <2>1
<1> QED BY <1>2, <1>3, <1>4, <1>5

(* Indexes with the same bits *)
SameBits(i, u, d) == \A j \in 1 .. d : Bit(i, j, d) = Bit(u, j, d)

(* Indexes with the same d bits are the same. *)
LEMMA CornersDiffer ==
  ASSUME NEW d \in Nat, NEW i \in 0 .. PowerOf2(d) - 1, NEW u \in 0 .. PowerOf2(d) - 1,
         SameBits(i, u, d)
  PROVE  i = u
<1> DEFINE G == {r \in Nat : \A a, b \in 0 .. PowerOf2(r) - 1 : SameBits(a, b, r) => a = b}
<1>1. 0 \in G
  BY PowerStep
<1>2. ASSUME NEW r \in Nat, r \in G PROVE r + 1 \in G
  <2> SUFFICES ASSUME NEW a \in 0 .. PowerOf2(r + 1) - 1, NEW b \in 0 .. PowerOf2(r + 1) - 1,
                      SameBits(a, b, r + 1)
               PROVE  a = b
    OBVIOUS
  <2>1. PICK a1 \in {0, 1}, a2 \in 0 .. PowerOf2(r) - 1 : a = a1 * PowerOf2(r) + a2
    BY HalfOf
  <2>2. PICK b1 \in {0, 1}, b2 \in 0 .. PowerOf2(r) - 1 : b = b1 * PowerOf2(r) + b2
    BY HalfOf
  <2>3. Bit(a, 1, r + 1) = a1 /\ \A j \in 1 .. r : Bit(a, j + 1, r + 1) = Bit(a2, j, r)
    BY <2>1, BitsOfHalves
  <2>4. Bit(b, 1, r + 1) = b1 /\ \A j \in 1 .. r : Bit(b, j + 1, r + 1) = Bit(b2, j, r)
    BY <2>2, BitsOfHalves
  <2>5. a1 = b1
    <3>1. 1 \in 1 .. r + 1
      OBVIOUS
    <3> QED BY <2>3, <2>4, <3>1 DEF SameBits
  <2>6. SameBits(a2, b2, r)
    <3> SUFFICES ASSUME NEW j \in 1 .. r PROVE Bit(a2, j, r) = Bit(b2, j, r)
      BY DEF SameBits
    <3>1. j + 1 \in 1 .. r + 1
      OBVIOUS
    <3> QED BY <2>3, <2>4, <3>1 DEF SameBits
  <2>7. a2 = b2
    BY <1>2, <2>6
  <2> QED BY <2>1, <2>2, <2>5, <2>7
<1> HIDE DEF G
<1>3. Nat \subseteq G
  BY <1>1, <1>2, NatSetInduction
<1>4. d \in G
  BY <1>3
<1> QED BY <1>4 DEF G

(* A product of ones is one. *)
LEMMA ProductOfOnes ==
  ASSUME P \in Nat, P > 1, NEW s \in Seq(Int), \A k \in 1 .. Len(s) : s[k] = 1
  PROVE  ProductOf(s) = 1
<1>1. PICK r \in [0 .. Len(s) -> Int] :
        /\ ProductOf(s) = r[Len(s)]
        /\ r[0] = 1 /\ \A k \in 1 .. Len(s) : r[k] = (s[k] * r[k - 1]) % P
  BY ProductIs
<1> DEFINE G == {k \in 0 .. Len(s) : r[k] = 1}
<1>2. 0 \in G
  BY <1>1
<1>3. ASSUME NEW k \in 1 .. Len(s), k - 1 \in G PROVE k \in G
  <2>1. r[k] = (1 * 1) % P
    BY <1>1, <1>3
  <2>2. ((1 * 1) % P) = 1
    <3>1. P \in Nat \ {0} /\ 1 \in 0 .. P - 1
      OBVIOUS
    <3>2. (1 % P) = 1
      BY <3>1, ModSmall
    <3> QED BY <3>2
  <2> QED BY <2>1, <2>2
<1> HIDE DEF G
<1>4. \A k \in 0 .. Len(s) : k \in G
  <2>1. Len(s) \in Nat
    OBVIOUS
  <2> QED BY ONLY <1>2, <1>3, <2>1, BoundedInduction
<1>5. Len(s) \in G
  BY <1>4
<1> QED BY <1>1, <1>5 DEF G

(* A product with a zero among its factors is zero. *)
LEMMA ProductWithZero ==
  ASSUME P \in Nat, P > 1, NEW s \in Seq(Int), NEW z \in 1 .. Len(s), s[z] = 0
  PROVE  ProductOf(s) = 0
<1>1. PICK r \in [0 .. Len(s) -> Int] :
        /\ ProductOf(s) = r[Len(s)]
        /\ r[0] = 1 /\ \A k \in 1 .. Len(s) : r[k] = (s[k] * r[k - 1]) % P
  BY ProductIs
<1>2. (0 % P) = 0
  <2>1. P \in Nat \ {0} /\ 0 \in 0 .. P - 1
    OBVIOUS
  <2> QED BY <2>1, ModSmall
<1> DEFINE G == {k \in 0 .. Len(s) : k >= z => r[k] = 0}
<1>3. 0 \in G
  OBVIOUS
<1>4. ASSUME NEW k \in 1 .. Len(s), k - 1 \in G PROVE k \in G
  <2>1. s[k] \in Int /\ r[k - 1] \in Int
    <3>1. s[k] \in Int
      BY ElementOf
    <3>2. k - 1 \in 0 .. Len(s)
      OBVIOUS
    <3> QED BY <3>1, <3>2
  <2>2. CASE k < z
    BY <2>2
  <2>3. CASE k = z
    <3>1. s[k] * r[k - 1] = 0
      BY <2>1, <2>3
    <3> QED BY <1>1, <1>2, <3>1
  <2>4. CASE k > z
    <3>1. r[k - 1] = 0
      BY <1>4, <2>4
    <3>2. s[k] * r[k - 1] = 0
      BY <2>1, <3>1
    <3> QED BY <1>1, <1>2, <3>2
  <2> QED BY <2>2, <2>3, <2>4
<1> HIDE DEF G
<1>5. \A k \in 0 .. Len(s) : k \in G
  <2>1. Len(s) \in Nat
    OBVIOUS
  <2> QED BY ONLY <1>3, <1>4, <2>1, BoundedInduction
<1>6. Len(s) \in G
  BY <1>5
<1> QED BY <1>1, <1>6 DEF G

(* At corner u the weight of evaluation i is 1 when i is u, and 0 otherwise. *)
LEMMA WeightAtCorner ==
  ASSUME SumcheckAssumption, NEW d \in Nat,
         NEW i \in 0 .. PowerOf2(d) - 1, NEW u \in 0 .. PowerOf2(d) - 1
  PROVE  Weight(i, Corner(u, d)) = IF i = u THEN 1 ELSE 0
<1>1. P \in Nat /\ P > 1 /\ i \in Nat /\ u \in Nat
  BY InField, PowerStep
<1>2. PICK x, s : x = Corner(u, d) /\ s = WeightFactors(i, x)
  OBVIOUS
<1>3. x \in Seq(F) /\ Len(x) = d /\ \A j \in 1 .. d : x[j] = Bit(u, j, d)
  BY <1>1, <1>2, CornerType DEF Corner
<1>4. /\ s \in Seq(Int) /\ Len(s) = d /\ Weight(i, x) = ProductOf(s)
      /\ \A j \in 1 .. d : s[j] = IF Bit(i, j, d) = 1 THEN x[j] ELSE 1 - x[j]
  <2>1. /\ s \in Seq(Int) /\ Len(s) = Len(x) /\ Weight(i, x) = ProductOf(s)
        /\ \A j \in 1 .. Len(x) : s[j] = IF Bit(i, j, Len(x)) = 1 THEN x[j] ELSE 1 - x[j]
    BY <1>1, <1>2, <1>3, FactorsType
  <2> QED BY <1>3, <2>1
<1>5. \A j \in 1 .. d : s[j] = IF Bit(i, j, d) = Bit(u, j, d) THEN 1 ELSE 0
  <2> SUFFICES ASSUME NEW j \in 1 .. d
               PROVE  s[j] = IF Bit(i, j, d) = Bit(u, j, d) THEN 1 ELSE 0
    OBVIOUS
  <2>1. Bit(i, j, d) \in {0, 1} /\ Bit(u, j, d) \in {0, 1}
    BY <1>1, BitType
  <2> QED BY <1>3, <1>4, <2>1
<1>6. CASE i = u
  <2>1. \A j \in 1 .. Len(s) : s[j] = 1
    BY <1>4, <1>5, <1>6
  <2>2. ProductOf(s) = 1
    BY <1>1, <1>4, <2>1, ProductOfOnes
  <2> QED BY <1>2, <1>4, <1>6, <2>2
<1>7. CASE i # u
  <2>1. ~ SameBits(i, u, d)
    BY <1>7, CornersDiffer
  <2>2. PICK z \in 1 .. d : Bit(i, z, d) # Bit(u, z, d)
    BY <2>1 DEF SameBits
  <2>3. s[z] = 0 /\ z \in 1 .. Len(s)
    BY <1>4, <1>5, <2>2
  <2>4. ProductOf(s) = 0
    BY <1>1, <1>4, <2>3, ProductWithZero
  <2> QED BY <1>2, <1>4, <1>7, <2>4
<1> QED BY <1>6, <1>7

(* At a corner an MLE has the evaluation of that index. *)
LEMMA MleAtCorner ==
  ASSUME SumcheckAssumption, problem \in Problems, NEW m \in 0 .. NumMles(problem) - 1,
         NEW u \in 0 .. PowerOf2(NV) - 1
  PROVE  MleAt(m, Corner(u, NV))
           = IF u < problem.n THEN problem.mles[m * problem.n + u] ELSE 0
<1>1. PICK n, d, x, D : n = problem.n /\ d = NV /\ x = Corner(u, d) /\ D = 0 .. n - 1
  OBVIOUS
<1>2. n \in Nat \ {0} /\ d \in Nat \ {0} /\ u \in Nat
      /\ PowerOf2(d) \in Nat \ {0} /\ n <= PowerOf2(d) /\ P \in Nat /\ P > 1
  <2>1. n \in Nat \ {0} /\ P \in Nat /\ P > 1
    BY <1>1, ProblemIs
  <2>2. d \in Nat \ {0} /\ n <= 2 * PowerOf2(d - 1)
    BY <1>1, <2>1, NumVariablesIs DEF NV
  <2>3. d - 1 \in Nat /\ d - 1 + 1 = d
    BY <2>2
  <2>4. PowerOf2(d) = 2 * PowerOf2(d - 1) /\ PowerOf2(d) \in Nat \ {0}
    BY <2>2, <2>3, PowerStep
  <2>5. u \in Nat
    BY <1>1, <2>4
  <2> QED BY <2>1, <2>2, <2>4, <2>5
<1>3. x \in Seq(F)
  BY <1>1, <1>2, CornerType
<1>4. PICK f : f = MleTerms(m, x)
  OBVIOUS
<1>5. f \in [D -> Int] /\ SumFunction(f) \in Int /\ MleAt(m, x) = SumFunction(f) % P
  BY <1>1, <1>3, <1>4, MleTermsType
<1>6. IsFiniteSet(D)
  <2>1. PICK e : e = n - 1
    OBVIOUS
  <2>2. e \in Int /\ 0 \in Int
    BY <1>2, <2>1
  <2>3. IsFiniteSet(0 .. e)
    BY <2>2, FS_Interval
  <2> QED BY <1>1, <2>1, <2>3
<1>7. \A i \in D : f[i] = IF i = u THEN problem.mles[m * n + i] ELSE 0
  <2> SUFFICES ASSUME NEW i \in D PROVE f[i] = IF i = u THEN problem.mles[m * n + i] ELSE 0
    OBVIOUS
  <2>1. f[i] = problem.mles[m * n + i] * Weight(i, x)
    BY <1>1, <1>4 DEF MleTerms
  <2>2. problem.mles[m * n + i] \in Int
    BY <1>1, <1>3, MleTermType
  <2>3. i \in 0 .. PowerOf2(d) - 1 /\ u \in 0 .. PowerOf2(d) - 1
    BY <1>1, <1>2
  <2>4. Weight(i, x) = IF i = u THEN 1 ELSE 0
    BY <1>1, <1>2, <2>3, WeightAtCorner
  <2> QED BY <2>1, <2>2, <2>4
<1>8. CASE u < n
  <2>1. u \in D
    BY <1>1, <1>2, <1>8
  <2>2. \A i \in D : i # u => f[i] = 0
    BY <1>7
  <2>3. SumFunction(f) = f[u]
    BY <1>5, <1>6, <2>1, <2>2, SumOfOneElement
  <2>4. f[u] = problem.mles[m * n + u]
    BY <1>7, <2>1
  <2>5. problem.mles[m * n + u] \in F
    BY <1>1, <1>3, <2>1, MleTermType
  <2>6. (problem.mles[m * n + u] % P) = problem.mles[m * n + u]
    BY <2>5, InField
  <2> QED BY <1>1, <1>5, <1>8, <2>3, <2>4, <2>6
<1>9. CASE ~ (u < n)
  <2>1. \A i \in D : f[i] = 0
    <3> SUFFICES ASSUME NEW i \in D PROVE f[i] = 0
      OBVIOUS
    <3>1. i # u
      BY <1>1, <1>2, <1>9
    <3> QED BY <1>7, <3>1
  <2>2. SumFunction(f) = 0
    BY <1>5, <1>6, <2>1, SumOfZeros
  <2>3. (0 % P) = 0
    BY InField
  <2> QED BY <1>1, <1>5, <1>9, <2>2, <2>3
<1> QED BY <1>8, <1>9

-----------------------------------------------------------------------------
(* fold and sum, when the array holds the MLEs *)

(* The array has, for every MLE, its values at x and the corners behind it. *)
HoldsMles(mles, n, nv, x) ==
  \A m \in 0 .. NumMles(problem) - 1, i \in 0 .. PowerOf2(nv) - 1 :
    (IF i < n THEN mles[m * n + i] ELSE 0) = MleAt(m, x \o Corner(i, nv))

(* The array prove_sum is called with holds the MLEs of the problem. *)
LEMMA CallHoldsMles ==
  ASSUME SumcheckAssumption, problem \in Problems
  PROVE  HoldsMles(problem.mles, problem.n, NV, << >>)
<1> SUFFICES ASSUME NEW m \in 0 .. NumMles(problem) - 1, NEW i \in 0 .. PowerOf2(NV) - 1
             PROVE  (IF i < problem.n THEN problem.mles[m * problem.n + i] ELSE 0)
                      = MleAt(m, << >> \o Corner(i, NV))
  BY DEF HoldsMles
<1>1. NV \in Nat
  BY DimensionIs DEF NV
<1>2. i \in Nat
  <2>1. PowerOf2(NV) \in Nat
    BY <1>1, PowerStep
  <2> QED BY <2>1
<1>3. Corner(i, NV) \in Seq(F)
  BY <1>1, <1>2, CornerType
<1>4. << >> \o Corner(i, NV) = Corner(i, NV)
  BY <1>3
<1> QED BY <1>4, MleAtCorner

(* fold writes at place i of MLE m the MLE's value with the challenge for  *)
(* its next coordinate, when the array holds the MLEs before.              *)
LEMMA FoldIsMle ==
  ASSUME SumcheckAssumption, problem \in Problems, NEW n \in Nat \ {0}, NEW mles \in Arrays(n),
         NEW d \in Nat, PowerOf2(d) <= n, NEW x \in Seq(F), HoldsMles(mles, n, d + 1, x),
         NEW m \in 0 .. NumMles(problem) - 1, NEW i \in 0 .. PowerOf2(d) - 1, NEW r \in F
  PROVE  /\ i \in 0 .. n - 1
         /\ FoldElement(mles, i, n, PowerOf2(d), n * m, r)
              = MleAt(m, Append(x, r) \o Corner(i, d))
<1>1. PICK mid, y : mid = PowerOf2(d) /\ y = Corner(i, d)
  OBVIOUS
<1>2. mid \in Nat \ {0} /\ PowerOf2(d + 1) = 2 * mid /\ mid <= n
  BY <1>1, PowerStep
<1>3. i \in Nat /\ i < mid /\ i \in 0 .. n - 1
  BY <1>1, <1>2
<1>4. y \in Seq(F)
  BY <1>1, <1>3, CornerType
<1>5. NumMles(problem) \in Nat
  BY ProblemIs
<1>6. m \in Nat
  BY <1>5
<1>7. mles[m * n + i] = MleAt(m, Append(x, 0) \o y)
  <2>1. i \in 0 .. PowerOf2(d + 1) - 1
    BY <1>2, <1>3
  <2>2. (IF i < n THEN mles[m * n + i] ELSE 0) = MleAt(m, x \o Corner(i, d + 1))
    BY <2>1 DEF HoldsMles
  <2>3. x \o Corner(0 * PowerOf2(d) + i, d + 1) = Append(x, 0) \o Corner(i, d)
    BY CornerOfHalf
  <2>4. 0 * PowerOf2(d) + i = i
    BY <1>1, <1>2, <1>3
  <2>5. i < n
    BY <1>2, <1>3
  <2> QED BY <1>1, <2>2, <2>3, <2>4, <2>5
<1>8. (IF i + mid < n THEN mles[m * n + (i + mid)] ELSE 0) = MleAt(m, Append(x, 1) \o y)
  <2>1. i + mid \in 0 .. PowerOf2(d + 1) - 1
    BY <1>2, <1>3
  <2>2. (IF i + mid < n THEN mles[m * n + (i + mid)] ELSE 0) = MleAt(m, x \o Corner(i + mid, d + 1))
    BY <2>1 DEF HoldsMles
  <2>3. x \o Corner(1 * PowerOf2(d) + i, d + 1) = Append(x, 1) \o Corner(i, d)
    BY CornerOfHalf
  <2>4. 1 * PowerOf2(d) + i = i + mid
    BY <1>1, <1>2, <1>3
  <2> QED BY <1>1, <2>2, <2>3, <2>4
<1>9. MleAt(m, Append(x, r) \o y)
        = (MleAt(m, Append(x, 0) \o y) * (1 - r) + MleAt(m, Append(x, 1) \o y) * r) % P
  BY <1>4, MleAtLine
<1>10. n * m + i = m * n + i /\ n * m + i + mid = m * n + (i + mid)
  BY <1>2, <1>3, <1>6
<1>11. r \in Int
  BY InField
<1>12. PICK b : b = MleAt(m, Append(x, 1) \o y)
  OBVIOUS
<1>13. (IF i + mid < n THEN mles[m * n + (i + mid)] * r ELSE 0) = b * r
  <2>1. CASE i + mid < n
    BY <1>8, <1>12, <2>1
  <2>2. CASE ~ (i + mid < n)
    <3>1. b = 0 /\ 0 * r = 0
      BY <1>8, <1>11, <1>12, <2>2
    <3> QED BY <2>2, <3>1
  <2> QED BY <2>1, <2>2
<1>14. FoldElement(mles, i, n, mid, n * m, r)
         = (mles[m * n + i] * (1 - r)
             + (IF i + mid < n THEN mles[m * n + (i + mid)] * r ELSE 0)) % P
  BY <1>10 DEF FoldElement
<1>15. FoldElement(mles, i, n, mid, n * m, r) = (mles[m * n + i] * (1 - r) + b * r) % P
  BY <1>13, <1>14
<1> QED BY <1>1, <1>3, <1>7, <1>9, <1>12, <1>15

(* After fold the shorter array holds the MLEs with one more coordinate set. *)
LEMMA FoldedHoldsMles ==
  ASSUME SumcheckAssumption, problem \in Problems, NEW n \in Nat \ {0}, NEW mles \in Arrays(n),
         NEW d \in Nat, PowerOf2(d) <= n, NEW x \in Seq(F), HoldsMles(mles, n, d + 1, x),
         NEW r \in F, NEW folded,
         \A m \in 0 .. NumMles(problem) - 1, i \in 0 .. PowerOf2(d) - 1 :
           folded[m * PowerOf2(d) + i] = FoldElement(mles, i, n, PowerOf2(d), n * m, r)
  PROVE  HoldsMles(folded, PowerOf2(d), d, Append(x, r))
<1> SUFFICES ASSUME NEW m \in 0 .. NumMles(problem) - 1, NEW i \in 0 .. PowerOf2(d) - 1
             PROVE  (IF i < PowerOf2(d) THEN folded[m * PowerOf2(d) + i] ELSE 0)
                      = MleAt(m, Append(x, r) \o Corner(i, d))
  BY DEF HoldsMles
<1>1. PowerOf2(d) \in Nat
  BY PowerStep
<1>2. i < PowerOf2(d)
  BY <1>1
<1>3. FoldElement(mles, i, n, PowerOf2(d), n * m, r) = MleAt(m, Append(x, r) \o Corner(i, d))
  BY FoldIsMle
<1> QED BY <1>2, <1>3

(* What the products add up to at one index of the folded array is the     *)
(* polynomial's value at that corner.                                      *)
LEMMA FoldedValue ==
  ASSUME SumcheckAssumption, problem \in Problems, NEW n \in Nat \ {0}, NEW mles \in Arrays(n),
         NEW d \in Nat, PowerOf2(d) <= n, NEW x \in Seq(F), HoldsMles(mles, n, d + 1, x),
         NEW i \in 0 .. PowerOf2(d) - 1, NEW r \in F
  PROVE  (FoldedSum(mles, n, PowerOf2(d), i, r) % P) = ValueAt(Append(x, r) \o Corner(i, d))
<1>1. PICK y : y = Append(x, r) \o Corner(i, d)
  OBVIOUS
<1>2. problem.products \in Seq([mult : F, terms : Seq(0 .. NumMles(problem) - 1)])
  BY ProblemIs
<1>3. \A k \in 1 .. Len(problem.products) :
        FoldedProduct(mles, n, PowerOf2(d), i, k, r)
          = problem.products[k].mult
              * ProductOf([t \in 1 .. Len(problem.products[k].terms)
                             |-> MleAt(problem.products[k].terms[t], y)])
  <2> SUFFICES ASSUME NEW k \in 1 .. Len(problem.products)
               PROVE  FoldedProduct(mles, n, PowerOf2(d), i, k, r)
                        = problem.products[k].mult
                            * ProductOf([t \in 1 .. Len(problem.products[k].terms)
                                           |-> MleAt(problem.products[k].terms[t], y)])
    OBVIOUS
  <2>1. PICK terms : terms = problem.products[k].terms
    OBVIOUS
  <2>2. terms \in Seq(0 .. NumMles(problem) - 1)
    <3>1. problem.products[k] \in [mult : F, terms : Seq(0 .. NumMles(problem) - 1)]
      BY <1>2, ElementOf
    <3> QED BY <2>1, <3>1
  <2>3. \A t \in 1 .. Len(terms) :
          FoldElement(mles, i, n, PowerOf2(d), n * terms[t], r) = MleAt(terms[t], y)
    <3> SUFFICES ASSUME NEW t \in 1 .. Len(terms)
                 PROVE  FoldElement(mles, i, n, PowerOf2(d), n * terms[t], r) = MleAt(terms[t], y)
      OBVIOUS
    <3>1. terms[t] \in 0 .. NumMles(problem) - 1
      BY <2>2, ElementOf
    <3> QED BY <1>1, <3>1, FoldIsMle
  <2>4. FoldedTerms(mles, n, PowerOf2(d), i, terms, r) = [t \in 1 .. Len(terms) |-> MleAt(terms[t], y)]
    BY <2>3 DEF FoldedTerms
  <2> QED BY <2>1, <2>4 DEF FoldedProduct
<1>4. FoldedSum(mles, n, PowerOf2(d), i, r)
        = SumFunction([k \in 1 .. Len(problem.products) |->
            problem.products[k].mult
              * ProductOf([t \in 1 .. Len(problem.products[k].terms)
                             |-> MleAt(problem.products[k].terms[t], y)])])
  <2>1. [k \in 1 .. Len(problem.products) |-> FoldedProduct(mles, n, PowerOf2(d), i, k, r)]
          = [k \in 1 .. Len(problem.products) |->
              problem.products[k].mult
                * ProductOf([t \in 1 .. Len(problem.products[k].terms)
                               |-> MleAt(problem.products[k].terms[t], y)])]
    BY <1>3
  <2> QED BY <2>1 DEF FoldedSum
<1> QED BY <1>1, <1>4 DEF ValueAt

(* What a driver is to write for a round, evaluated at r. *)
FoldedSums(mles, n, split, r) ==
  [index \in 0 .. split - 1 |-> FoldedSum(mles, n, split, index, r)]

(* The sums at the indexes of the first half are finitely many integers. *)
LEMMA FoldedSumsAre ==
  ASSUME SumcheckAssumption, problem \in Problems, NEW n \in Nat \ {0}, NEW mles \in Arrays(n),
         NEW split \in 0 .. n, NEW r \in F
  PROVE  /\ IsFiniteSet(0 .. split - 1)
         /\ FoldedSums(mles, n, split, r) \in [0 .. split - 1 -> Int]
         /\ SumFunction(FoldedSums(mles, n, split, r)) \in Int
<1>1. PICK e : e = split - 1
  OBVIOUS
<1>2. e \in Int /\ 0 \in Int
  BY <1>1
<1>3. \A index \in 0 .. e : FoldedSum(mles, n, split, index, r) \in Int
  <2> SUFFICES ASSUME NEW index \in 0 .. e PROVE FoldedSum(mles, n, split, index, r) \in Int
    OBVIOUS
  <2>1. index \in 0 .. n - 1 /\ split \in Nat /\ n \in Nat
    BY <1>1
  <2> QED BY <2>1, IndexPartIs DEF Arrays
<1>4. FoldedSums(mles, n, split, r) \in [0 .. e -> Int]
  BY <1>1, <1>3 DEF FoldedSums
<1>5. IsFiniteSet(0 .. e)
  BY <1>2, FS_Interval
<1>6. SumFunction(FoldedSums(mles, n, split, r)) \in Int
  BY <1>2, <1>4, SumIsInt
<1> QED BY <1>1, <1>4, <1>5, <1>6

(* All the indexes of the first half together, folded at r, give the sum   *)
(* of the polynomial over the cube that is left, with r for the next       *)
(* coordinate.                                                             *)
LEMMA RoundSum ==
  ASSUME SumcheckAssumption, problem \in Problems, NEW n \in Nat \ {0}, NEW mles \in Arrays(n),
         NEW d \in Nat, PowerOf2(d) <= n, NEW x \in Seq(F), HoldsMles(mles, n, d + 1, x),
         Len(x) + d + 1 = NumVariables(problem.n), NEW r \in F
  PROVE  (SumFunction(FoldedSums(mles, n, PowerOf2(d), r)) % P) = SumAt(Append(x, r))
<1>1. PICK split, f, g : /\ split = PowerOf2(d) /\ f = FoldedSums(mles, n, split, r)
                         /\ g = Values(Append(x, r), d)
  OBVIOUS
<1>2. split \in Nat \ {0} /\ split \in 0 .. n /\ P \in Nat \ {0}
  <2>1. split \in Nat \ {0}
    BY <1>1, PowerStep
  <2>2. P \in Nat /\ P > 1
    BY InField
  <2> QED BY <1>1, <2>1, <2>2
<1>3. /\ IsFiniteSet(0 .. split - 1) /\ f \in [0 .. split - 1 -> Int] /\ SumFunction(f) \in Int
  BY <1>1, <1>2, FoldedSumsAre
<1>4. Append(x, r) \in Seq(F) /\ Len(Append(x, r)) + d = NumVariables(problem.n)
  BY DEF F
<1>5. g \in [0 .. split - 1 -> F] /\ SumFunction(g) \in Int
  BY <1>1, <1>4, ValuesType
<1>6. SumAt(Append(x, r)) = SumFunction(g) % P
  BY <1>1, <1>4, SumAtIs
<1>7. g \in [0 .. split - 1 -> Int]
  BY <1>5, InField
<1>8. \A u \in 0 .. split - 1 : Congruent(f[u], g[u], P)
  <2> SUFFICES ASSUME NEW u \in 0 .. split - 1 PROVE Congruent(f[u], g[u], P)
    OBVIOUS
  <2>1. f[u] = FoldedSum(mles, n, PowerOf2(d), u, r)
    BY <1>1 DEF FoldedSums
  <2>2. g[u] = ValueAt(Append(x, r) \o Corner(u, d))
    BY <1>1 DEF Values
  <2>3. (FoldedSum(mles, n, PowerOf2(d), u, r) % P) = ValueAt(Append(x, r) \o Corner(u, d))
    BY <1>1, FoldedValue
  <2>4. (f[u] % P) = g[u]
    BY <2>1, <2>2, <2>3
  <2>5. g[u] \in F /\ g[u] \in Int /\ f[u] \in Int
    BY <1>3, <1>5, <1>7
  <2>6. (g[u] % P) = g[u]
    BY <2>5, InField
  <2>7. (f[u] % P) = (g[u] % P)
    BY <2>4, <2>6
  <2> QED BY <1>2, <2>5, <2>7, CongruentMod
<1>9. Congruent(SumFunction(f), SumFunction(g), P)
  BY <1>2, <1>3, <1>7, <1>8, SumCongruent
<1>10. (SumFunction(f) % P) = (SumFunction(g) % P)
  BY <1>2, <1>3, <1>5, <1>9, CongruentMod
<1> QED BY <1>1, <1>6, <1>10

(* The polynomial that sum computes has at r the value that the indexes of *)
(* the first half add up to.                                               *)
LEMMA RoundIsSum ==
  ASSUME SumcheckAssumption, problem \in Problems, NEW n \in Nat \ {0}, NEW mles \in Arrays(n),
         NEW split \in 0 .. n, NEW r \in F
  PROVE  Congruent(EvaluatePolynomial(SumOfProducts(mles, n, split), 0, problem.length, r),
                   SumFunction(FoldedSums(mles, n, split, r)), P)
BY EvaluateRound DEF FoldedSums, Arrays

-----------------------------------------------------------------------------
(* Chunks: adding polynomials, copying pieces of the array *)

(* Two arrays with the same coefficients at different places *)
SameCoefficients(p, first, q, start, len) ==
  \A i \in 0 .. len - 1 : p[first + i] = q[start + i]

(* Evaluation depends on the coefficients alone, not on the array or the   *)
(* place they are read from.                                               *)
LEMMA EvaluateSame ==
  ASSUME SumcheckAssumption, NEW p, NEW q, NEW first \in Nat, NEW start \in Nat, NEW len \in Nat,
         NEW x \in Int, Coefficients(p, first, len), Coefficients(q, start, len),
         SameCoefficients(p, first, q, start, len)
  PROVE  EvaluatePolynomial(p, first, len, x) = EvaluatePolynomial(q, start, len, x)
<1>1. PICK r \in [0 .. len -> F] :
        EvaluatePolynomial(p, first, len, x) = r[len] /\ IsHorner(r, p, first, len, x)
  BY EvaluateIs
<1>2. PICK s \in [0 .. len -> F] :
        EvaluatePolynomial(q, start, len, x) = s[len] /\ IsHorner(s, q, start, len, x)
  BY EvaluateIs
<1>3. ASSUME NEW k \in 1 .. len, r[k - 1] = s[k - 1] PROVE r[k] = s[k]
  <2>1. r[k] = (r[k - 1] * x + p[first + len - k]) % P
    BY <1>1 DEF IsHorner
  <2>2. s[k] = (s[k - 1] * x + q[start + len - k]) % P
    BY <1>2 DEF IsHorner
  <2>3. PICK i : i = len - k
    OBVIOUS
  <2>4. i \in 0 .. len - 1 /\ first + len - k = first + i /\ start + len - k = start + i
    BY <2>3
  <2>5. p[first + i] = q[start + i]
    BY <2>4 DEF SameCoefficients
  <2> QED BY <1>3, <2>1, <2>2, <2>4, <2>5
<1>4. r[0] = s[0]
  BY <1>1, <1>2 DEF IsHorner
<1>5. InStep(r, s, len)
  BY <1>3, <1>4 DEF InStep
<1>6. r[len] = s[len]
  BY <1>5, LoopsAgree DEF Agree
<1> QED BY <1>1, <1>2, <1>6

(* (a x + b) + (c x + d) = (a + c) x + (b + d) *)
LEMMA AddLinear ==
  ASSUME NEW a \in Int, NEW b \in Int, NEW c \in Int, NEW d \in Int, NEW x \in Int
  PROVE  (a + c) * x + (b + d) = (a * x + b) + (c * x + d)
OBVIOUS

(* Adding coefficients modulo P adds the values modulo P. *)
LEMMA EvaluateAdds ==
  ASSUME SumcheckAssumption, NEW p, NEW q, NEW s, NEW first \in Nat, NEW len \in Nat, NEW x \in Int,
         Coefficients(p, first, len), Coefficients(q, 0, len),
         \A i \in 0 .. len - 1 : s[first + i] = (p[first + i] + q[i]) % P
  PROVE  Congruent(EvaluatePolynomial(s, first, len, x),
                   EvaluatePolynomial(p, first, len, x) + EvaluatePolynomial(q, 0, len, x), P)
<1>1. P \in Nat \ {0} /\ F \subseteq Int
  <2>1. P \in Nat /\ P > 1 /\ F \subseteq Int
    BY InField
  <2> QED BY <2>1
<1>2. \A i \in 0 .. len - 1 :
        p[first + i] \in Int /\ q[i] \in Int /\ s[first + i] \in Int
        /\ Congruent(s[first + i], p[first + i] + q[i], P)
  <2> SUFFICES ASSUME NEW i \in 0 .. len - 1
               PROVE  p[first + i] \in Int /\ q[i] \in Int /\ s[first + i] \in Int
                      /\ Congruent(s[first + i], p[first + i] + q[i], P)
    OBVIOUS
  <2>1. p[first + i] \in Int /\ q[0 + i] \in Int
    BY DEF Coefficients
  <2>2. q[0 + i] = q[i]
    OBVIOUS
  <2>3. PICK t : t = p[first + i] + q[i]
    OBVIOUS
  <2>4. t \in Int /\ s[first + i] = t % P
    BY <2>1, <2>2, <2>3
  <2>5. (t % P) \in F
    BY <2>4, InField
  <2>6. Congruent(t % P, t, P)
    BY <1>1, <2>4, CongruentRemainder
  <2> QED BY <1>1, <2>1, <2>2, <2>3, <2>4, <2>5, <2>6
<1>3. Coefficients(s, first, len)
  BY <1>2 DEF Coefficients
<1>4. PICK a \in [0 .. len -> F] :
        EvaluatePolynomial(p, first, len, x) = a[len] /\ IsHorner(a, p, first, len, x)
  BY EvaluateIs
<1>5. PICK b \in [0 .. len -> F] :
        EvaluatePolynomial(q, 0, len, x) = b[len] /\ IsHorner(b, q, 0, len, x)
  BY EvaluateIs
<1>6. PICK c \in [0 .. len -> F] :
        EvaluatePolynomial(s, first, len, x) = c[len] /\ IsHorner(c, s, first, len, x)
  BY <1>3, EvaluateIs
<1> DEFINE G == {k \in 0 .. len : Congruent(c[k], a[k] + b[k], P)}
<1>7. 0 \in G
  <2>1. a[0] = 0 /\ b[0] = 0 /\ c[0] = 0
    BY <1>4, <1>5, <1>6 DEF IsHorner
  <2>2. Congruent(0, 0, P)
    BY <1>1, CongruentRemainder
  <2> QED BY <2>1, <2>2
<1>8. ASSUME NEW k \in 1 .. len, k - 1 \in G PROVE k \in G
  <2>1. PICK i, a0, b0, c0, u, v, w : /\ i = len - k /\ a0 = a[k - 1] /\ b0 = b[k - 1] /\ c0 = c[k - 1]
                                      /\ u = p[first + i] /\ v = q[i] /\ w = s[first + i]
    OBVIOUS
  <2>2. /\ i \in 0 .. len - 1 /\ k - 1 \in 0 .. len /\ 0 + len - k = i
        /\ first + len - k = first + i
    BY <2>1
  <2>3. u \in Int /\ v \in Int /\ w \in Int /\ Congruent(w, u + v, P)
    BY <1>2, <2>1, <2>2
  <2>4. a0 \in Int /\ b0 \in Int /\ c0 \in Int
    BY <1>1, <1>4, <1>5, <1>6, <2>1, <2>2
  <2>5. Congruent(c0, a0 + b0, P)
    BY <1>8, <2>1
  <2>6. /\ a[k] = (a0 * x + u) % P
        /\ b[k] = (b0 * x + v) % P
        /\ c[k] = (c0 * x + w) % P
    BY <1>4, <1>5, <1>6, <2>1, <2>2 DEF IsHorner
  <2>7. Congruent(c[k], (a0 + b0) * x + (u + v), P)
    <3>1. a0 + b0 \in Int /\ u + v \in Int
      BY <2>3, <2>4
    <3> QED BY <1>1, <2>3, <2>4, <2>5, <2>6, <3>1, CongruentLinear
  <2>8. PICK ya, yb : ya = a0 * x + u /\ yb = b0 * x + v
    OBVIOUS
  <2>9. ya \in Int /\ yb \in Int /\ (a0 + b0) * x + (u + v) = ya + yb
    <3>1. a0 * x \in Int /\ b0 * x \in Int
      BY <2>4
    <3>2. (a0 + b0) * x + (u + v) = (a0 * x + u) + (b0 * x + v)
      BY <2>3, <2>4, AddLinear
    <3> QED BY <2>3, <2>8, <3>1, <3>2, SMTT(30)
  <2>10. a[k] \in Int /\ b[k] \in Int /\ c[k] \in Int
    <3>1. k \in 0 .. len
      OBVIOUS
    <3> QED BY <1>1, <1>4, <1>5, <1>6, <3>1
  <2>11. Congruent(a[k], ya, P) /\ Congruent(b[k], yb, P)
    BY <1>1, <2>6, <2>8, <2>9, CongruentRemainder
  <2>12. Congruent(a[k] + b[k], ya + yb, P)
    BY <1>1, <2>9, <2>10, <2>11, CongruentSum
  <2>13. Congruent(c[k], ya + yb, P)
    BY <2>7, <2>9
  <2>14. Congruent(ya + yb, a[k] + b[k], P)
    <3>1. ya + yb \in Int /\ a[k] + b[k] \in Int
      BY <2>9, <2>10
    <3> QED BY <1>1, <2>12, <3>1, CongruentEquivalence
  <2>15. Congruent(c[k], a[k] + b[k], P)
    <3>1. ya + yb \in Int /\ a[k] + b[k] \in Int
      BY <2>9, <2>10
    <3> QED BY <1>1, <2>10, <2>13, <2>14, <3>1, CongruentEquivalence
  <2> QED BY <2>15
<1> HIDE DEF G
<1>9. \A k \in 0 .. len : k \in G
  BY ONLY <1>7, <1>8, len \in Nat, BoundedInduction
<1>10. len \in G
  BY <1>9
<1> QED BY <1>4, <1>5, <1>6, <1>10 DEF G

(* At place h of a piece of MLE m is what is at the place it was copied from. *)
PairedAlike(w, c, m, h, r) ==
  FoldElement(PartialMles(w, c).mles, h, PartialMles(w, c).np, c.b - c.a,
              PartialMles(w, c).np * m, r)
    = FoldElement(w.mles, c.a + h, w.n, Mid(w), w.n * m, r)

(* What a piece pairs is what the array pairs. *)
LEMMA ChunkFold ==
  ASSUME SumcheckAssumption, NEW count \in Nat, NEW w, w.n \in Nat \ {0},
         w.mles \in [0 .. count * w.n - 1 -> F],
         Mid(w) \in Nat, Mid(w) <= w.n, NEW c \in Ranges(Mid(w)),
         NEW m \in 0 .. count - 1, NEW h \in 0 .. c.b - c.a - 1, NEW r
  PROVE  /\ c.a + h \in 0 .. Mid(w) - 1
         /\ PairedAlike(w, c, m, h, r)
<1>1. PICK n, mid, a, b, part1, ap, part2, length :
        /\ n = w.n /\ mid = Mid(w) /\ a = c.a /\ b = c.b /\ part1 = b - a
        /\ ap = Smaller(mid + a, n) /\ part2 = Smaller(mid + b, n) - ap /\ length = part1 + part2
  OBVIOUS
<1>2. /\ n \in Nat \ {0} /\ mid \in Nat /\ mid <= n /\ a \in Nat /\ b \in Nat /\ a < b /\ b <= mid
      /\ h \in Nat /\ h < part1 /\ part1 \in Nat /\ m \in Nat
  <2>1. n \in Nat \ {0} /\ mid \in Nat /\ mid <= n
    BY <1>1
  <2>2. a \in Nat /\ b \in Nat /\ a < b /\ b <= mid
    BY <1>1 DEF Ranges
  <2>3. h \in 0 .. part1 - 1
    BY <1>1
  <2>4. part1 \in Nat /\ h \in Nat /\ h < part1
    <3>1. part1 = b - a
      BY <1>1
    <3> QED BY ONLY <2>2, <2>3, <3>1
  <2>5. m \in Nat
    BY count \in Nat, m \in 0 .. count - 1
  <2> QED BY <2>1, <2>2, <2>4, <2>5
<1>3. ap \in Nat /\ part2 \in Nat /\ length \in Nat \ {0}
  <2>1. /\ ap = IF mid + a < n THEN mid + a ELSE n
        /\ part2 = (IF mid + b < n THEN mid + b ELSE n) - ap
        /\ length = part1 + part2 /\ part1 = b - a
    BY <1>1 DEF Smaller
  <2> QED BY ONLY <1>2, <2>1
<1>5. /\ ap = IF mid + a < n THEN mid + a ELSE n
      /\ part2 = (IF mid + b < n THEN mid + b ELSE n) - ap
      /\ length = part1 + part2 /\ part1 = b - a
  BY <1>1 DEF Smaller
<1>4. NumMles(w) = count
  BY NumMlesIs
<1>6. /\ PartialMles(w, c).np = length
      /\ PartialMles(w, c).mles = [j \in 0 .. length * count - 1 |->
           w.mles[n * (j \div length)
                    + (IF (j % length) < part1 THEN a + (j % length) ELSE ap + (j % length) - part1)]]
  BY <1>1, <1>4 DEF PartialMles
<1>7. ASSUME NEW v \in 0 .. length - 1
      PROVE  PartialMles(w, c).mles[length * m + v]
               = w.mles[n * m + (IF v < part1 THEN a + v ELSE ap + v - part1)]
  <2>1. PICK j : j = m * length + v
    OBVIOUS
  <2>2. j \in 0 .. count * length - 1
    BY <1>3, <2>1, PlaceOfElement
  <2>3. length * m = m * length /\ count * length = length * count
    BY <1>2, <1>3
  <2>4. (j \div length) = m /\ (j % length) = v
    <3>1. m \in Int
      BY <1>2
    <3> QED BY <1>3, <2>1, <3>1, DivisionIs
  <2>5. length * m + v = j /\ j \in 0 .. length * count - 1
    BY <2>1, <2>2, <2>3
  <2> QED BY <1>6, <2>4, <2>5
<1>8. h \in 0 .. length - 1 /\ PartialMles(w, c).mles[length * m + h] = w.mles[n * m + (a + h)]
  <2>1. h \in 0 .. length - 1
    BY <1>1, <1>2, <1>3
  <2> QED BY <1>2, <1>7, <2>1
<1>9. h + part1 < length <=> a + h + mid < n
  <2>1. CASE mid + a < n
    BY ONLY <1>2, <1>5, <2>1
  <2>2. CASE ~ (mid + a < n)
    BY ONLY <1>2, <1>5, <2>2
  <2> QED BY <2>1, <2>2
<1>10. ASSUME h + part1 < length
       PROVE  PartialMles(w, c).mles[length * m + (h + part1)] = w.mles[n * m + (a + h + mid)]
  <2>1. h + part1 \in 0 .. length - 1 /\ ~ (h + part1 < part1)
    BY <1>2, <1>3, <1>10
  <2>2. PartialMles(w, c).mles[length * m + (h + part1)] = w.mles[n * m + (ap + (h + part1) - part1)]
    BY <1>7, <2>1
  <2>3. ap = mid + a
    BY ONLY <1>2, <1>5, <1>9, <1>10
  <2>4. ap + (h + part1) - part1 = a + h + mid
    BY <1>2, <2>3
  <2> QED BY <2>2, <2>4
<1>11. PICK x, y : x = length * m /\ y = n * m
  OBVIOUS
<1>12. x \in Nat /\ y \in Nat
  BY <1>2, <1>3, <1>11
<1>13. /\ x + h + part1 = x + (h + part1)
       /\ y + (a + h) + mid = y + (a + h + mid)
  BY <1>2, <1>12
<1>14. PICK mles : mles = PartialMles(w, c).mles
  OBVIOUS
<1>15. FoldElement(mles, h, length, part1, x, r) = FoldElement(w.mles, a + h, n, mid, y, r)
  <2>1. mles[x + h] = w.mles[y + (a + h)]
    BY <1>8, <1>11, <1>14
  <2>2. (IF h + part1 < length THEN mles[x + h + part1] * r ELSE 0)
          = (IF a + h + mid < n THEN w.mles[y + (a + h) + mid] * r ELSE 0)
    <3>1. CASE h + part1 < length
      BY <1>9, <1>10, <1>11, <1>13, <1>14, <3>1
    <3>2. CASE ~ (h + part1 < length)
      BY <1>9, <3>2
    <3> QED BY <3>1, <3>2
  <2> QED BY <2>1, <2>2 DEF FoldElement
<1>16. a + h \in 0 .. mid - 1
  BY ONLY <1>2, <1>5
<1> QED BY <1>1, <1>6, <1>11, <1>14, <1>15, <1>16 DEF PairedAlike

(* The products add up to the same at place h of a piece and at place a +  *)
(* h of the array it was copied from.                                      *)
LEMMA ChunkFoldedSum ==
  ASSUME SumcheckAssumption, problem \in Problems, NEW w, w.n \in Nat \ {0}, w.mles \in Arrays(w.n),
         Mid(w) \in Nat, Mid(w) <= w.n, NEW c \in Ranges(Mid(w)),
         NEW h \in 0 .. c.b - c.a - 1, NEW r
  PROVE  FoldedSum(PartialMles(w, c).mles, PartialMles(w, c).np, c.b - c.a, h, r)
           = FoldedSum(w.mles, w.n, Mid(w), c.a + h, r)
<1>1. PICK part, count : part = PartialMles(w, c) /\ count = NumMles(problem)
  OBVIOUS
<1>2. count \in Nat /\ problem.products \in Seq([mult : F, terms : Seq(0 .. count - 1)])
  BY <1>1, ProblemIs
<1>3. w.mles \in [0 .. count * w.n - 1 -> F]
  BY <1>1 DEF Arrays
<1>4. ASSUME NEW i \in 1 .. Len(problem.products)
      PROVE  FoldedProduct(part.mles, part.np, c.b - c.a, h, i, r)
               = FoldedProduct(w.mles, w.n, Mid(w), c.a + h, i, r)
  <2>1. PICK terms : terms = problem.products[i].terms
    OBVIOUS
  <2>2. terms \in Seq(0 .. count - 1)
    <3>1. problem.products[i] \in [mult : F, terms : Seq(0 .. count - 1)]
      BY <1>2, ElementOf
    <3> QED BY <2>1, <3>1
  <2>3. \A t \in 1 .. Len(terms) :
          FoldElement(part.mles, h, part.np, c.b - c.a, part.np * terms[t], r)
            = FoldElement(w.mles, c.a + h, w.n, Mid(w), w.n * terms[t], r)
    <3> SUFFICES ASSUME NEW t \in 1 .. Len(terms)
                 PROVE  FoldElement(part.mles, h, part.np, c.b - c.a, part.np * terms[t], r)
                          = FoldElement(w.mles, c.a + h, w.n, Mid(w), w.n * terms[t], r)
      OBVIOUS
    <3>1. terms[t] \in 0 .. count - 1
      BY <2>2, ElementOf
    <3>2. PICK m : m = terms[t]
      OBVIOUS
    <3>3. m \in 0 .. count - 1
      BY <3>1, <3>2
    <3>4. PairedAlike(w, c, m, h, r)
      BY <1>2, <1>3, <3>3, ChunkFold
    <3> QED BY <1>1, <3>2, <3>4 DEF PairedAlike
  <2>4. FoldedTerms(part.mles, part.np, c.b - c.a, h, terms, r)
          = FoldedTerms(w.mles, w.n, Mid(w), c.a + h, terms, r)
    BY <2>3 DEF FoldedTerms
  <2> QED BY <2>1, <2>4 DEF FoldedProduct
<1>5. [i \in 1 .. Len(problem.products) |-> FoldedProduct(part.mles, part.np, c.b - c.a, h, i, r)]
        = [i \in 1 .. Len(problem.products) |-> FoldedProduct(w.mles, w.n, Mid(w), c.a + h, i, r)]
  BY <1>4
<1> QED BY <1>1, <1>5 DEF FoldedSum

(* What a chunk adds up to is what its indexes add up to in the array. *)
LEMMA ChunkSum ==
  ASSUME SumcheckAssumption, problem \in Problems, NEW w, w.n \in Nat \ {0}, w.mles \in Arrays(w.n),
         Mid(w) \in Nat, Mid(w) <= w.n, NEW c \in Ranges(Mid(w)), NEW r \in F
  PROVE  SumFunction(FoldedSums(PartialMles(w, c).mles, PartialMles(w, c).np, c.b - c.a, r))
           = SumFunctionOnSet(FoldedSums(w.mles, w.n, Mid(w), r), c.a .. c.b - 1)
<1>1. PICK part, count, a, len, mid, f, g :
        /\ part = PartialMles(w, c) /\ count = NumMles(problem) /\ a = c.a /\ len = c.b - c.a
        /\ mid = Mid(w)
        /\ f = FoldedSums(part.mles, part.np, len, r) /\ g = FoldedSums(w.mles, w.n, mid, r)
  OBVIOUS
<1>2. /\ a \in Nat /\ len \in Nat \ {0} /\ a + len = c.b /\ a + len <= mid /\ mid \in Nat
      /\ count \in Nat
  <2>1. c.a \in Nat /\ c.b \in Nat /\ c.a < c.b /\ c.b <= mid
    BY <1>1 DEF Ranges
  <2>2. count \in Nat
    BY <1>1, ProblemIs
  <2> QED BY <1>1, <2>1, <2>2
<1>3. part.np \in Nat \ {0} /\ len \in 0 .. part.np /\ part.mles \in Arrays(part.np)
  BY <1>1, <1>2, PartialMlesIs DEF Arrays
<1>4. f \in [0 .. len - 1 -> Int] /\ IsFiniteSet(0 .. len - 1)
  BY <1>1, <1>3, FoldedSumsAre
<1>5. g \in [0 .. mid - 1 -> Int]
  <2>1. mid \in 0 .. w.n
    BY <1>1, <1>2
  <2> QED BY <1>1, <2>1, FoldedSumsAre
<1>6. PICK s : s = [h \in 0 .. len - 1 |-> a + h]
  OBVIOUS
<1>7. s \in [0 .. len - 1 -> 0 .. mid - 1] /\ \A h \in 0 .. len - 1 : s[h] = a + h
  BY ONLY <1>2, <1>6
<1>8. \A h \in 0 .. len - 1 : f[h] = g[s[h]]
  <2> SUFFICES ASSUME NEW h \in 0 .. len - 1 PROVE f[h] = g[s[h]]
    OBVIOUS
  <2>1. f[h] = FoldedSum(part.mles, part.np, len, h, r)
    BY <1>1 DEF FoldedSums
  <2>2. g[s[h]] = FoldedSum(w.mles, w.n, mid, a + h, r)
    BY <1>1, <1>7 DEF FoldedSums
  <2>3. FoldedSum(part.mles, part.np, len, h, r) = FoldedSum(w.mles, w.n, mid, a + h, r)
    BY <1>1, ChunkFoldedSum
  <2> QED BY <2>1, <2>2, <2>3
<1>9. \A u, v \in 0 .. len - 1 : s[u] = s[v] => u = v
  BY ONLY <1>2, <1>7
<1>10. Renamed(f, g, s, 0 .. len - 1, 0 .. mid - 1)
  BY <1>7, <1>8, <1>9 DEF Renamed
<1>11. SumFunctionOnSet(f, 0 .. len - 1) = SumFunctionOnSet(g, ImageOf(s, 0 .. len - 1))
  <2>1. PICK T : T = 0 .. len - 1
    OBVIOUS
  <2>2. f \in [T -> Int] /\ IsFiniteSet(T) /\ Renamed(f, g, s, T, 0 .. mid - 1)
    BY <1>4, <1>10, <2>1
  <2>3. SumFunctionOnSet(f, T) = SumFunctionOnSet(g, ImageOf(s, T))
    <3>1. T \in SUBSET T
      OBVIOUS
    <3>2. PICK E : E = 0 .. mid - 1
      OBVIOUS
    <3>3. g \in [E -> Int] /\ Renamed(f, g, s, T, E)
      BY <1>5, <2>2, <3>2
    <3> QED BY ONLY <2>2, <3>1, <3>3, SumReindex
  <2> QED BY <2>1, <2>3
<1>12. ImageOf(s, 0 .. len - 1) = a .. a + len - 1
  <2>1. \A u \in a .. a + len - 1 : u - a \in 0 .. len - 1 /\ s[u - a] = u
    BY ONLY <1>2, <1>7
  <2>2. \A u \in 0 .. len - 1 : s[u] \in a .. a + len - 1
    BY ONLY <1>2, <1>7
  <2> QED BY <2>1, <2>2 DEF ImageOf
<1>13. SumFunction(f) = SumFunctionOnSet(f, 0 .. len - 1)
  BY <1>4 DEF SumFunction
<1> QED BY <1>1, <1>2, <1>11, <1>12, <1>13

(* No index is in two chunks. *)
Disjoint(chunks) ==
  \A c, e \in chunks : \A u \in c.a .. c.b - 1 : u \in e.a .. e.b - 1 => c = e

(* The ranges of a split are those of all indexes, and each index is in one of them. *)
LEMMA SplitCovers ==
  ASSUME NEW delta \in Nat, NEW options,
         options.min \in Nat \ {0}, options.max \in Nat \ {0}, options.factor \in Nat \ {0}
  PROVE  /\ \A u \in 0 .. delta - 1 : \E c \in ChunksOf(delta, options) : u \in c.a .. c.b - 1
         /\ Disjoint(ChunksOf(delta, options))
<1>1. PICK d, step, count :
        /\ d = DivideUp(delta, options.factor)
        /\ step = Smaller(Larger(Larger(d, 1), options.min), options.max)
        /\ count = DivideUp(delta, step)
  OBVIOUS
<1>2. d \in Int
  <2>1. delta + options.factor - 1 \in Int
    OBVIOUS
  <2> QED BY <1>1, <2>1, DivisionRange DEF DivideUp
<1>3. step \in Nat \ {0}
  BY <1>1, <1>2 DEF Smaller, Larger
<1>4. ChunksOf(delta, options)
        = {[a |-> k * step, b |-> Smaller(k * step + step, delta)] : k \in 0 .. count - 1}
  BY <1>1 DEF ChunksOf
<1>5. ASSUME NEW k, NEW u \in k * step .. Smaller(k * step + step, delta) - 1, k \in Int
      PROVE  k = (u \div step)
  <2>1. PICK l : l = k * step
    OBVIOUS
  <2>2. l \in Int
    BY <1>3, <1>5, <2>1
  <2>3. Smaller(l + step, delta) \in Int /\ Smaller(l + step, delta) <= l + step
    BY <1>3, <2>2 DEF Smaller
  <2>4. u \in l .. Smaller(l + step, delta) - 1
    BY <1>5, <2>1
  <2>5. u - l \in 0 .. step - 1 /\ u = l + (u - l)
    BY ONLY <1>3, <2>2, <2>3, <2>4
  <2>6. PICK h : h = u - l
    OBVIOUS
  <2>7. h \in 0 .. step - 1 /\ u = k * step + h
    BY <2>1, <2>5, <2>6
  <2> QED BY <1>3, <1>5, <2>7, DivisionIs
<1>6. \A u \in 0 .. delta - 1 : \E c \in ChunksOf(delta, options) : u \in c.a .. c.b - 1
  <2> SUFFICES ASSUME NEW u \in 0 .. delta - 1
               PROVE  \E c \in ChunksOf(delta, options) : u \in c.a .. c.b - 1
    OBVIOUS
  <2>1. PICK k, h, l : k = (u \div step) /\ h = (u % step) /\ l = k * step
    OBVIOUS
  <2>2. u \in Int
    OBVIOUS
  <2>3. k \in Int /\ h \in 0 .. step - 1 /\ u = k * step + h
    BY <1>3, <2>1, <2>2, DivisionRange
  <2>4. l \in Int
    BY <1>3, <2>1, <2>3
  <2>5. l <= u /\ u < l + step
    BY ONLY <1>3, <2>1, <2>3, <2>4
  <2>6. k \in Nat
    <3>1. CASE k < 0
      <4>1. PICK e : e = - 1 - k
        OBVIOUS
      <4>2. e \in Nat /\ k = - 1 - e
        BY <2>3, <3>1, <4>1
      <4>3. e * step \in Nat
        BY <1>3, <4>2
      <4>4. l = - step - e * step
        BY <1>3, <2>1, <4>2
      <4> QED BY <1>3, <2>5, <4>3, <4>4
    <3> QED BY <2>3, <3>1
  <2>7. k \in 0 .. count - 1
    <3>1. PICK x, q, y : x = delta + step - 1 /\ q = (x \div step) /\ y = (x % step)
      OBVIOUS
    <3>2. x \in Int
      BY <1>3, <3>1
    <3>3. q \in Int /\ y \in 0 .. step - 1 /\ x = q * step + y
      BY <1>3, <3>1, <3>2, DivisionRange
    <3>4. q = count
      BY <1>1, <3>1 DEF DivideUp
    <3>5. PICK z, e : z = q * step /\ e = k - q
      OBVIOUS
    <3>6. z \in Int /\ e \in Int /\ l = z + e * step /\ e * step \in Int
      BY <1>3, <2>1, <2>3, <3>3, <3>5
    <3>7. l < z
      BY ONLY <1>3, <2>4, <2>5, <3>1, <3>3, <3>5, <3>6, u \in 0 .. delta - 1, delta \in Nat
    <3>8. e * step < 0
      BY ONLY <2>4, <3>6, <3>7
    <3>9. e < 0
      <4>1. CASE e >= 0
        <5>1. e * step \in Nat
          BY <1>3, <3>6, <4>1
        <5> QED BY <3>8, <5>1
      <4> QED BY <3>6, <4>1
    <3>10. k < q
      BY ONLY <2>3, <3>3, <3>5, <3>9
    <3> QED BY ONLY <2>6, <3>3, <3>4, <3>10
  <2>8. PICK c : c = [a |-> l, b |-> Smaller(l + step, delta)]
    OBVIOUS
  <2>9. c \in ChunksOf(delta, options)
    BY <1>4, <2>1, <2>7, <2>8
  <2>10. u \in l .. Smaller(l + step, delta) - 1
    BY <1>3, <2>4, <2>5 DEF Smaller
  <2>11. u \in c.a .. c.b - 1
    BY <2>8, <2>10
  <2> QED BY <2>9, <2>11
<1>7. Disjoint(ChunksOf(delta, options))
  <2> SUFFICES ASSUME NEW c \in ChunksOf(delta, options), NEW e \in ChunksOf(delta, options),
                      NEW u \in c.a .. c.b - 1, u \in e.a .. e.b - 1
               PROVE  c = e
    BY DEF Disjoint
  <2>1. PICK k \in 0 .. count - 1 : c = [a |-> k * step, b |-> Smaller(k * step + step, delta)]
    BY <1>4
  <2>2. PICK g \in 0 .. count - 1 : e = [a |-> g * step, b |-> Smaller(g * step + step, delta)]
    BY <1>4
  <2>3. u \in k * step .. Smaller(k * step + step, delta) - 1
    BY <2>1
  <2>4. u \in g * step .. Smaller(g * step + step, delta) - 1
    BY <2>2
  <2>5. k \in Int /\ g \in Int
    OBVIOUS
  <2>6. k = (u \div step) /\ g = (u \div step)
    BY <1>5, <2>3, <2>4, <2>5
  <2> QED BY <2>1, <2>2, <2>6
<1> QED BY <1>6, <1>7

-----------------------------------------------------------------------------
(* The values of the protocol: arrays and polynomials are the true ones *)

(* Indexes of the first half that a chunk has still to work on *)
Left == {u \in 0 .. Mid(ws) - 1 : \E c \in todo : u \in c.a .. c.b - 1}

(* The challenges before those of this round *)
Drawn == SubSeq(point, 1, round)

(* In a round the workspace holds the MLEs with the challenges so far. *)
MlesOK == pc \in Rounds => HoldsMles(ws.mles, ws.n, ws.nv, Drawn)

(* At every value the polynomial of this round is what the indexes of done *)
(* add up to.                                                              *)
SumsUpTo(done) ==
  \A x \in F :
    Congruent(EvaluatePolynomial(polys, problem.length * round, problem.length, x),
              SumFunctionOnSet(FoldedSums(ws.mles, ws.n, Mid(ws), x), done), P)

(* While chunks are summed the polynomial covers the indexes of the        *)
(* finished ones, once each.                                               *)
SummedOK ==
  pc = "summing" =>
    /\ Disjoint(todo)
    /\ fresh => Left = 0 .. Mid(ws) - 1
    /\ ~ fresh => SumsUpTo((0 .. Mid(ws) - 1) \ Left)

(* While chunks are folded the new array is right at the indexes of the    *)
(* finished ones.                                                          *)
FoldedOK ==
  pc = "folding" =>
    \A m \in 0 .. NumMles(problem) - 1, i \in (0 .. Mid(ws) - 1) \ Left :
      mlesP[m * Mid(ws) + i] = FoldElement(ws.mles, i, ws.n, Mid(ws), ws.n * m, DrawnChallenge)

(* How many rounds have their polynomial *)
Summed == IF pc \in {"sum", "summing"} THEN round ELSE round + 1

(* The polynomial of round k is the sum of the problem's polynomial over   *)
(* the cube behind the challenges before it and x.                         *)
PolyIs(k) ==
  \A x \in F :
    EvaluatePolynomial(polys, problem.length * k, problem.length, x)
      = SumAt(Append(SubSeq(point, 1, k), x))

(* Each finished round has its polynomial. *)
PolyOK == pc # "idle" => \A k \in 0 .. Summed - 1 : PolyIs(k)

(* The values prover and drivers work on are the true ones. *)
ValuesOK == MlesOK /\ SummedOK /\ FoldedOK /\ PolyOK

(* What an array holds, and its folded sums, depend on no variable but     *)
(* problem.                                                                *)
LEMMA SameMles ==
  ASSUME problem' = problem
  PROVE  /\ \A mles, n, nv, x : HoldsMles(mles, n, nv, x)' <=> HoldsMles(mles, n, nv, x)
         /\ \A mles, n, split, x : FoldedSums(mles, n, split, x)' = FoldedSums(mles, n, split, x)
<1>1. ASSUME NEW m, NEW y PROVE MleAt(m, y)' = MleAt(m, y)
  BY DEF MleAt
<1>2. \A mles, n, nv, x : HoldsMles(mles, n, nv, x)' <=> HoldsMles(mles, n, nv, x)
  BY <1>1 DEF HoldsMles
<1>3. ASSUME NEW mles, NEW n, NEW split, NEW index, NEW i, NEW x
      PROVE  FoldedProduct(mles, n, split, index, i, x)' = FoldedProduct(mles, n, split, index, i, x)
  BY DEF FoldedProduct
<1>4. ASSUME NEW mles, NEW n, NEW split, NEW index, NEW x
      PROVE  FoldedSum(mles, n, split, index, x)' = FoldedSum(mles, n, split, index, x)
  BY <1>3 DEF FoldedSum
<1>5. \A mles, n, split, x : FoldedSums(mles, n, split, x)' = FoldedSums(mles, n, split, x)
  BY <1>4 DEF FoldedSums
<1> QED BY <1>2, <1>5

(* What the variables are while there are rounds *)
LEMMA RoundIs ==
  ASSUME SumcheckAssumption, TypeInv, pc \in Rounds
  PROVE  /\ problem \in Problems /\ problem.length \in Nat \ {0, 1} /\ NV \in Nat \ {0}
         /\ round \in Nat /\ round < NV /\ point \in Seq(F)
         /\ polys \in [0 .. NV * problem.length - 1 -> F]
         /\ Drawn \in Seq(F) /\ Len(Drawn) = round
         /\ \E d \in Nat : /\ ws.nv = d + 1 /\ Mid(ws) = PowerOf2(d)
                           /\ Len(Drawn) + d + 1 = NV
<1>1. problem \in Problems /\ pc # "idle"
  BY DEF TypeInv, CallOK, Rounds
<1>2. problem.length \in Nat \ {0, 1} /\ NV \in Nat \ {0}
  BY <1>1, ProblemIs, DimensionIs DEF NV
<1>3. /\ round \in Nat /\ round < NV /\ point \in Seq(F) /\ round <= Len(point)
      /\ polys \in [0 .. NV * problem.length - 1 -> F]
  BY <1>1 DEF TypeInv, RoundOK, PolysOK
<1>4. Drawn \in Seq(F) /\ Len(Drawn) = round
  <2>1. \A j \in 1 .. round : point[j] \in F
    BY <1>3
  <2> HIDE DEF F
  <2> QED BY <1>3, <2>1 DEF Drawn
<1>5. ws.nv = NV - round
  BY DEF TypeInv, WorkspaceOK
<1>6. PICK d : d = ws.nv - 1
  OBVIOUS
<1>7. d \in Nat /\ ws.nv = d + 1 /\ round + d + 1 = NV
  BY <1>2, <1>3, <1>5, <1>6
<1>8. Mid(ws) = PowerOf2(d)
  BY <1>6 DEF Mid
<1> QED BY <1>1, <1>2, <1>3, <1>4, <1>7, <1>8

(* prove_sum writes the coefficients of this round and leaves those of the *)
(* rounds before it.                                                       *)
LEMMA WritesRound ==
  ASSUME SumcheckAssumption, TypeInv, pc \in Rounds,
         NEW value \in [0 .. problem.length - 1 -> F], WritePolynomial(value), NEW x \in Int
  PROVE  /\ \A k \in 0 .. round - 1 :
              EvaluatePolynomial(polys', problem.length * k, problem.length, x)
                = EvaluatePolynomial(polys, problem.length * k, problem.length, x)
         /\ EvaluatePolynomial(polys', problem.length * round, problem.length, x)
              = EvaluatePolynomial(value, 0, problem.length, x)
         /\ \A i \in 0 .. problem.length - 1 :
              polys'[problem.length * round + i] = value[i]
<1>1. PICK len, top : len = problem.length /\ top = NV
  OBVIOUS
<1>2. /\ len \in Nat \ {0} /\ top \in Nat /\ round \in Nat /\ round < top
      /\ polys \in [0 .. top * len - 1 -> F] /\ value \in [0 .. len - 1 -> F] /\ F \subseteq Int
  BY <1>1, RoundIs, InField
<1>3. polys' = [i \in 0 .. top * len - 1 |-> IF i \div len = round THEN value[i % len] ELSE polys[i]]
  BY <1>1, <1>2 DEF WritePolynomial
<1>4. ASSUME NEW k \in 0 .. round, NEW i \in 0 .. len - 1
      PROVE  /\ len * k + i \in 0 .. top * len - 1
             /\ polys'[len * k + i] = IF k = round THEN value[i] ELSE polys[len * k + i]
  <2>1. k \in 0 .. top - 1 /\ k \in Nat
    BY <1>2
  <2>2. PICK j : j = k * len + i
    OBVIOUS
  <2>3. j \in 0 .. top * len - 1
    BY <1>2, <2>1, <2>2, PlaceOfElement
  <2>4. (j \div len) = k /\ (j % len) = i
    <3>1. k \in Int
      BY <2>1
    <3> QED BY <1>2, <2>2, <3>1, DivisionIs
  <2>5. len * k + i = j
    BY <1>2, <2>1, <2>2
  <2> QED BY <1>3, <2>3, <2>4, <2>5
<1>5. ASSUME NEW k \in 0 .. round
      PROVE  len * k \in Nat /\ Coefficients(polys, len * k, len) /\ Coefficients(polys', len * k, len)
  <2>1. len * k \in Nat
    BY <1>2
  <2>2. \A i \in 0 .. len - 1 : polys[len * k + i] \in F /\ value[i] \in F
    BY <1>2, <1>4
  <2>3. \A i \in 0 .. len - 1 : polys'[len * k + i] \in F
    BY <1>4, <2>2
  <2> QED BY <1>2, <2>1, <2>2, <2>3 DEF Coefficients
<1>6. Coefficients(value, 0, len)
  <2>1. \A i \in 0 .. len - 1 : value[i] \in Int /\ 0 + i = i
    <3> SUFFICES ASSUME NEW i \in 0 .. len - 1 PROVE value[i] \in Int /\ 0 + i = i
      OBVIOUS
    <3>1. value[i] \in F
      BY <1>2
    <3>2. value[i] \in Int
      BY <1>2, <3>1
    <3>3. 0 + i = i
      OBVIOUS
    <3> QED BY <3>2, <3>3
  <2> QED BY <2>1 DEF Coefficients
<1>7. ASSUME NEW k \in 0 .. round - 1
      PROVE  EvaluatePolynomial(polys', len * k, len, x) = EvaluatePolynomial(polys, len * k, len, x)
  <2>1. k \in 0 .. round /\ k # round
    BY <1>2
  <2>2. \A i \in 0 .. len - 1 : polys'[len * k + i] = polys[len * k + i]
    BY <1>4, <2>1
  <2>3. len * k \in Nat /\ len \in Nat /\ Coefficients(polys, len * k, len) /\ Coefficients(polys', len * k, len)
    BY <1>2, <1>5, <2>1
  <2>4. PICK p, q, first : p = polys' /\ q = polys /\ first = len * k
    OBVIOUS
  <2>5. /\ first \in Nat /\ len \in Nat /\ Coefficients(p, first, len) /\ Coefficients(q, first, len)
        /\ \A i \in 0 .. len - 1 : p[first + i] = q[first + i]
    BY <2>2, <2>3, <2>4
  <2>6. EvaluatePolynomial(p, first, len, x) = EvaluatePolynomial(q, first, len, x)
    <3>1. x \in Int /\ SameCoefficients(p, first, q, first, len)
      BY <2>5 DEF SameCoefficients
    <3> QED BY <2>5, <3>1, EvaluateSame
  <2> QED BY <2>4, <2>6
<1>8. round \in 0 .. round
  BY <1>2
<1>9. \A i \in 0 .. len - 1 : polys'[len * round + i] = value[i]
  BY <1>4, <1>8
<1>10. EvaluatePolynomial(polys', len * round, len, x) = EvaluatePolynomial(value, 0, len, x)
  <2>1. PICK p, first : p = polys' /\ first = len * round
    OBVIOUS
  <2>2. /\ first \in Nat /\ len \in Nat /\ Coefficients(p, first, len)
        /\ \A i \in 0 .. len - 1 : p[first + i] = value[0 + i]
    BY <1>2, <1>5, <1>8, <1>9, <2>1
  <2>3. EvaluatePolynomial(p, first, len, x) = EvaluatePolynomial(value, 0, len, x)
    <3>1. x \in Int /\ SameCoefficients(p, first, value, 0, len)
      BY <2>2 DEF SameCoefficients
    <3> QED BY <1>6, <2>2, <3>1, EvaluateSame
  <2> QED BY <2>1, <2>3
<1> QED BY <1>1, <1>7, <1>9, <1>10

(* A round without its polynomial gets one that is the sum at every value. *)
LEMMA RoundGetsPolynomial ==
  ASSUME SumcheckAssumption, TypeInv, ValuesOK, pc \in {"sum", "summing"},
         problem' = problem, round' = round, point' = point, pc' \in {"sum", "summing", "challenge"},
         NEW value \in [0 .. problem.length - 1 -> F], WritePolynomial(value),
         pc' = "challenge" =>
           \A x \in F : Congruent(EvaluatePolynomial(value, 0, problem.length, x),
                                  SumFunction(FoldedSums(ws.mles, ws.n, Mid(ws), x)), P)
  PROVE  PolyOK'
<1>1. pc \in Rounds
  BY DEF Rounds
<1>2. /\ problem \in Problems /\ problem.length \in Nat \ {0, 1} /\ round \in Nat
      /\ Drawn \in Seq(F) /\ point \in Seq(F) /\ Len(point) = round
  BY <1>1, RoundIs DEF TypeInv, RoundOK
<1>3. PICK d \in Nat : ws.nv = d + 1 /\ Mid(ws) = PowerOf2(d) /\ Len(Drawn) + d + 1 = NV
  BY <1>1, RoundIs
<1>4. \A x : SumAt(x)' = SumAt(x)
  BY SameProblem
<1>5. F \subseteq Int /\ P \in Nat \ {0}
  <2>1. P \in Nat /\ P > 1 /\ F \subseteq Int
    BY InField
  <2> QED BY <2>1
<1>6. ASSUME NEW k \in 0 .. round - 1 PROVE PolyIs(k)'
  <2>1. k \in 0 .. Summed - 1 /\ pc # "idle"
    BY DEF Summed
  <2>2. PolyIs(k)
    BY <2>1 DEF ValuesOK, PolyOK
  <2>3. ASSUME NEW x \in F
        PROVE  EvaluatePolynomial(polys', problem.length * k, problem.length, x)
                 = SumAt(Append(SubSeq(point, 1, k), x))
    <3>1. x \in Int
      BY <1>5
    <3>2. EvaluatePolynomial(polys', problem.length * k, problem.length, x)
            = EvaluatePolynomial(polys, problem.length * k, problem.length, x)
      BY <1>1, <1>6, <3>1, WritesRound
    <3> QED BY <2>2, <3>2 DEF PolyIs
  <2> QED BY <1>4, <2>3 DEF PolyIs
<1>7. ASSUME pc' = "challenge" PROVE PolyIs(round)'
  <2>1. ASSUME NEW x \in F
        PROVE  EvaluatePolynomial(polys', problem.length * round, problem.length, x)
                 = SumAt(Append(Drawn, x))
    <3>1. x \in Int
      BY <1>5
    <3>2. EvaluatePolynomial(polys', problem.length * round, problem.length, x)
            = EvaluatePolynomial(value, 0, problem.length, x)
      BY <1>1, <3>1, WritesRound
    <3>3. PICK e, s, n, mid, mles :
            /\ e = EvaluatePolynomial(value, 0, problem.length, x)
            /\ n = ws.n /\ mid = Mid(ws) /\ mles = ws.mles
            /\ s = SumFunction(FoldedSums(mles, n, mid, x))
      OBVIOUS
    <3>4. Congruent(e, s, P)
      <4>1. Congruent(EvaluatePolynomial(value, 0, problem.length, x),
                      SumFunction(FoldedSums(ws.mles, ws.n, Mid(ws), x)), P)
        BY <1>7
      <4>2. s = SumFunction(FoldedSums(ws.mles, ws.n, Mid(ws), x))
        BY <3>3
      <4> QED BY <3>3, <4>1, <4>2
    <3>5. e \in F /\ e \in Int
      <4>1. Coefficients(value, 0, problem.length)
        BY <1>2, <1>5, SMTT(30) DEF Coefficients
      <4>2. e \in F
        BY <1>2, <3>1, <3>3, <4>1, EvaluateType
      <4> QED BY <1>5, <4>2
    <3>6. n \in Nat \ {0} /\ mles \in Arrays(n) /\ mid <= n /\ mid \in 0 .. n
      BY <1>1, <3>3, MidIs
    <3>7. s \in Int
      BY <1>2, <3>3, <3>6, FoldedSumsAre
    <3>8. (s % P) = SumAt(Append(Drawn, x))
      <4>1. HoldsMles(mles, n, d + 1, Drawn)
        BY <1>1, <1>3, <3>3 DEF ValuesOK, MlesOK
      <4>2. Len(Drawn) + d + 1 = NumVariables(problem.n)
        BY <1>3 DEF NV
      <4>3. mid = PowerOf2(d)
        BY <1>3, <3>3
      <4> QED BY <1>2, <3>3, <3>6, <4>1, <4>2, <4>3, RoundSum
    <3>9. (e % P) = (s % P)
      BY <1>5, <3>4, <3>5, <3>7, CongruentMod
    <3>10. (e % P) = e
      BY <3>5, InField
    <3> QED BY <3>2, <3>3, <3>8, <3>9, <3>10
  <2> QED BY <1>4, <2>1 DEF PolyIs, Drawn
<1>8. CASE pc' = "challenge"
  <2>1. Summed' = round + 1
    BY <1>8 DEF Summed
  <2>2. \A k \in 0 .. round : k \in 0 .. round - 1 \/ k = round
    BY <1>2
  <2>3. \A k \in 0 .. round : PolyIs(k)'
    BY <1>6, <1>7, <1>8, <2>2
  <2>4. (round + 1) - 1 = round
    BY <1>2
  <2> QED BY <2>1, <2>3, <2>4 DEF PolyOK
<1>9. CASE pc' # "challenge"
  <2>1. Summed' = round
    BY <1>9 DEF Summed
  <2> QED BY <1>6, <2>1 DEF PolyOK
<1> QED BY <1>8, <1>9

-----------------------------------------------------------------------------
(* Each step of the prover keeps the values *)

(* CallHoldsMles, for the state after prove_sum's call. *)
LEMMA CallHoldsMlesNext ==
  ASSUME SumcheckAssumption, (problem \in Problems)'
  PROVE  HoldsMles(problem.mles, problem.n, NV, << >>)'
BY CallHoldsMles, PTL

(* prove_sum's call begins with an array that holds the problem's MLEs. *)
LEMMA ProveSumValues ==
  ASSUME SumcheckAssumption, TypeInv, NEW p \in Problems, NEW d \in Drivers, ProveSum(p, d)
  PROVE  ValuesOK'
<1>1. /\ pc = "idle" /\ problem' = p /\ pc' = "sum" /\ round' = round /\ point' = point
      /\ ws' = [mles |-> p.mles, n |-> p.n, nv |-> NumVariables(p.n),
                single |-> ~d.chunked \/ Cardinality(DOMAIN p.mles) <= d.cutoff]
  BY DEF ProveSum
<1>2. round = 0 /\ point = << >>
  BY <1>1 DEF TypeInv, CallOK
<1>3. ws'.mles = problem'.mles /\ ws'.n = problem'.n /\ ws'.nv = NV'
  BY <1>1 DEF NV
<1>4. Drawn' = << >>
  BY <1>1, <1>2 DEF Drawn
<1>5. HoldsMles(problem.mles, problem.n, NV, << >>)'
  BY <1>1, CallHoldsMlesNext
<1>6. MlesOK'
  BY <1>3, <1>4, <1>5 DEF MlesOK
<1>7. PolyOK'
  <2>1. Summed' = 0
    BY <1>1, <1>2 DEF Summed
  <2> QED BY <2>1 DEF PolyOK
<1>8. SummedOK' /\ FoldedOK'
  BY <1>1 DEF SummedOK, FoldedOK
<1> QED BY <1>6, <1>7, <1>8 DEF ValuesOK

(* The rounds before keep their polynomials when only the point grows. *)
LEMMA PolyKept ==
  ASSUME TypeInv, PolyOK, pc # "idle", pc' # "idle", problem' = problem, polys' = polys,
         Summed' = Summed,
         point' = point \/ \E r \in F : point' = Append(point, r) /\ Summed <= Len(point) + 1
  PROVE  PolyOK'
<1>1. point \in Seq(F) /\ Summed \in Nat
  BY DEF TypeInv, RoundOK, Summed
<1>2. \A x : SumAt(x)' = SumAt(x)
  BY SameProblem
<1>3. ASSUME NEW k \in 0 .. Summed - 1 PROVE SubSeq(point', 1, k) = SubSeq(point, 1, k)
  <2>1. CASE point' = point
    BY <2>1
  <2>2. ASSUME NEW r \in F, point' = Append(point, r), Summed <= Len(point) + 1
        PROVE  SubSeq(point', 1, k) = SubSeq(point, 1, k)
    <3>1. k \in 0 .. Len(point)
      BY <1>1, <2>2
    <3> QED BY <1>1, <2>2, <3>1, PrefixesKept
  <2> QED BY <2>1, <2>2
<1>4. ASSUME NEW k \in 0 .. Summed - 1 PROVE PolyIs(k)'
  <2>1. PolyIs(k)
    BY DEF PolyOK
  <2>2. SubSeq(point', 1, k) = SubSeq(point, 1, k)
    BY <1>3
  <2> QED BY <1>2, <2>1, <2>2 DEF PolyIs
<1> QED BY <1>4 DEF PolyOK

(* A step that leaves workspace and problem alone *)
LEMMA MlesKept ==
  ASSUME MlesOK, pc \in Rounds, problem' = problem, ws' = ws, Drawn' = Drawn
  PROVE  MlesOK'
BY SameMles DEF MlesOK

(* cpu_driver::sum and gpu_driver::sum keep the values correct. *)
LEMMA SumWholeValues ==
  ASSUME SumcheckAssumption, TypeInv, ValuesOK, SumWhole
  PROVE  ValuesOK'
<1>1. /\ pc = "sum" /\ pc' = "challenge" /\ problem' = problem /\ ws' = ws
      /\ round' = round /\ point' = point
      /\ WritePolynomial(SumOfProducts(ws.mles, ws.n, Mid(ws)))
  BY DEF SumWhole
<1>2. pc \in Rounds /\ problem \in Problems
  BY <1>1, RoundIs DEF Rounds
<1>3. Mid(ws) \in 0 .. ws.n /\ ws.n \in Nat \ {0} /\ ws.mles \in Arrays(ws.n)
  BY <1>2, MidIs
<1>4. SumOfProducts(ws.mles, ws.n, Mid(ws)) \in [0 .. problem.length - 1 -> F]
  BY <1>2, <1>3, SumOfProductsType DEF Arrays
<1>5. \A x \in F :
        Congruent(EvaluatePolynomial(SumOfProducts(ws.mles, ws.n, Mid(ws)), 0, problem.length, x),
                  SumFunction(FoldedSums(ws.mles, ws.n, Mid(ws), x)), P)
  BY <1>2, <1>3, RoundIsSum
<1>6. PICK value : value = SumOfProducts(ws.mles, ws.n, Mid(ws))
  OBVIOUS
<1>7. PolyOK'
  BY <1>1, <1>4, <1>5, <1>6, RoundGetsPolynomial
<1>8. Drawn' = Drawn
  BY <1>1 DEF Drawn
<1>9. MlesOK'
  BY <1>1, <1>2, <1>8, MlesKept DEF ValuesOK
<1>10. SummedOK' /\ FoldedOK'
  BY <1>1 DEF SummedOK, FoldedOK
<1> QED BY <1>7, <1>9, <1>10 DEF ValuesOK

(* split leaves every index of the first half to exactly one chunk. *)
LEMMA SplitLeaves ==
  ASSUME SumcheckAssumption, TypeInv, pc \in Rounds, ~ ws.single
  PROVE  /\ Disjoint(ChunksOf(Mid(ws), driver.options))
         /\ \A u \in 0 .. Mid(ws) - 1 :
              \E c \in ChunksOf(Mid(ws), driver.options) : u \in c.a .. c.b - 1
<1>1. driver \in Drivers /\ driver.chunked
  BY DEF TypeInv, CallOK, WorkspaceOK, Rounds
<1>2. /\ driver.options.min \in Nat \ {0} /\ driver.options.max \in Nat \ {0}
      /\ driver.options.factor \in Nat \ {0}
  BY <1>1 DEF SumcheckAssumption
<1>3. Mid(ws) \in Nat
  BY MidIs
<1> QED BY <1>2, <1>3, SplitCovers

(* sum_gpu's split keeps the values correct: all indexes are still to be   *)
(* summed.                                                                 *)
LEMMA SumSplitValues ==
  ASSUME SumcheckAssumption, TypeInv, ValuesOK, SumSplit
  PROVE  ValuesOK'
<1>1. /\ pc = "sum" /\ pc' = "summing" /\ problem' = problem /\ ws' = ws /\ fresh' = TRUE
      /\ round' = round /\ point' = point /\ polys' = polys /\ ~ ws.single
      /\ todo' = ChunksOf(Mid(ws), driver.options)
  BY DEF SumSplit
<1>2. pc \in Rounds
  BY <1>1 DEF Rounds
<1>3. Mid(ws)' = Mid(ws)
  BY <1>1 DEF Mid
<1>4. Disjoint(todo)' /\ Left' = 0 .. Mid(ws)' - 1
  <2>1. Disjoint(todo)'
    BY <1>1, <1>2, SplitLeaves DEF Disjoint
  <2>2. Left' = {u \in 0 .. Mid(ws) - 1 : \E c \in todo' : u \in c.a .. c.b - 1}
    BY <1>3 DEF Left
  <2>3. \A u \in 0 .. Mid(ws) - 1 : \E c \in todo' : u \in c.a .. c.b - 1
    BY <1>1, <1>2, SplitLeaves
  <2>4. Left' = 0 .. Mid(ws) - 1
    BY <2>2, <2>3
  <2> QED BY <1>3, <2>1, <2>4
<1>5. SummedOK'
  BY <1>1, <1>4 DEF SummedOK
<1>6. Drawn' = Drawn
  BY <1>1 DEF Drawn
<1>7. MlesOK'
  BY <1>1, <1>2, <1>6, MlesKept DEF ValuesOK
<1>8. PolyOK'
  <2>1. Summed' = Summed
    BY <1>1 DEF Summed
  <2> QED BY <1>1, <2>1, PolyKept DEF ValuesOK
<1>9. FoldedOK'
  BY <1>1 DEF FoldedOK
<1> QED BY <1>5, <1>7, <1>8, <1>9 DEF ValuesOK

(* Drawing the challenge keeps the values correct: the point it extends is *)
(* that of the next round's array.                                         *)
LEMMA RoundChallengeValues ==
  ASSUME SumcheckAssumption, TypeInv, ValuesOK, NEW r \in F, RoundChallenge(r)
  PROVE  ValuesOK'
<1>1. /\ pc = "challenge" /\ problem' = problem /\ ws' = ws
      /\ round' = round /\ point' = Append(point, r) /\ polys' = polys
      /\ pc' \in {"fold", "finish"}
  BY DEF RoundChallenge
<1>2. point \in Seq(F) /\ Len(point) = round /\ round \in Nat /\ pc \in Rounds
  BY <1>1 DEF TypeInv, RoundOK, Rounds
<1>3. Drawn' = Drawn
  <2>1. round \in 0 .. Len(point)
    BY <1>2
  <2>2. SubSeq(Append(point, r), 1, round) = SubSeq(point, 1, round)
    BY <1>2, <2>1, PrefixesKept
  <2> QED BY <1>1, <2>2 DEF Drawn
<1>4. MlesOK'
  BY <1>1, <1>2, <1>3, MlesKept DEF ValuesOK
<1>5. PolyOK'
  <2>1. Summed' = Summed /\ Summed <= Len(point) + 1
    BY <1>1, <1>2 DEF Summed
  <2> QED BY <1>1, <2>1, PolyKept DEF ValuesOK
<1>6. SummedOK' /\ FoldedOK'
  BY <1>1 DEF SummedOK, FoldedOK
<1> QED BY <1>4, <1>5, <1>6 DEF ValuesOK

(* fold_gpu's split keeps the values correct: no index is folded yet. *)
LEMMA FoldSplitValues ==
  ASSUME SumcheckAssumption, TypeInv, ValuesOK, FoldSplit
  PROVE  ValuesOK'
<1>1. /\ pc = "fold" /\ pc' = "folding" /\ problem' = problem /\ ws' = ws
      /\ round' = round /\ point' = point /\ polys' = polys /\ ~ ws.single
      /\ todo' = ChunksOf(Mid(ws), driver.options)
  BY DEF FoldSplit
<1>2. pc \in Rounds
  BY <1>1 DEF Rounds
<1>3. Mid(ws)' = Mid(ws)
  BY <1>1 DEF Mid
<1>4. (0 .. Mid(ws)' - 1) \ Left' = {}
  <2>1. Left' = {u \in 0 .. Mid(ws) - 1 : \E c \in todo' : u \in c.a .. c.b - 1}
    BY <1>3 DEF Left
  <2>2. \A u \in 0 .. Mid(ws) - 1 : \E c \in todo' : u \in c.a .. c.b - 1
    BY <1>1, <1>2, SplitLeaves
  <2> QED BY <1>3, <2>1, <2>2
<1>5. FoldedOK'
  BY <1>4 DEF FoldedOK
<1>6. Drawn' = Drawn
  BY <1>1 DEF Drawn
<1>7. MlesOK'
  BY <1>1, <1>2, <1>6, MlesKept DEF ValuesOK
<1>8. PolyOK'
  <2>1. Summed' = Summed
    BY <1>1 DEF Summed
  <2> QED BY <1>1, <2>1, PolyKept DEF ValuesOK
<1>9. SummedOK'
  BY <1>1 DEF SummedOK
<1> QED BY <1>5, <1>7, <1>8, <1>9 DEF ValuesOK

(* Returning from prove_sum keeps the values correct. *)
LEMMA ProverReturnsValues ==
  ASSUME SumcheckAssumption, TypeInv, ValuesOK, ProverReturns
  PROVE  ValuesOK'
<1>1. /\ pc = "finish" /\ pc' = "returned" /\ problem' = problem
      /\ round' = round /\ point' = point /\ polys' = polys
  BY DEF ProverReturns
<1>2. PolyOK'
  <2>1. Summed' = Summed
    BY <1>1 DEF Summed
  <2> QED BY <1>1, <2>1, PolyKept DEF ValuesOK
<1>3. MlesOK' /\ SummedOK' /\ FoldedOK'
  BY <1>1 DEF MlesOK, SummedOK, FoldedOK, Rounds
<1> QED BY <1>2, <1>3 DEF ValuesOK

(* The folded array is that of the next round. *)
LEMMA NextRoundValues ==
  ASSUME SumcheckAssumption, TypeInv, ValuesOK, pc \in {"fold", "folding"},
         problem' = problem, round' = round + 1, pc' = "sum", polys' = polys, point' = point,
         ws'.n = Mid(ws), ws'.nv = ws.nv - 1,
         \A m \in 0 .. NumMles(problem) - 1, i \in 0 .. Mid(ws) - 1 :
           ws'.mles[m * Mid(ws) + i]
             = FoldElement(ws.mles, i, ws.n, Mid(ws), ws.n * m, DrawnChallenge)
  PROVE  ValuesOK'
<1>1. pc \in Rounds
  BY DEF Rounds
<1>2. /\ problem \in Problems /\ round \in Nat /\ Drawn \in Seq(F)
      /\ point \in Seq(F) /\ Len(point) = round + 1
  BY <1>1, RoundIs DEF TypeInv, RoundOK
<1>3. PICK d \in Nat : ws.nv = d + 1 /\ Mid(ws) = PowerOf2(d) /\ Len(Drawn) + d + 1 = NV
  BY <1>1, RoundIs
<1>4. /\ ws.n \in Nat \ {0} /\ ws.mles \in Arrays(ws.n) /\ Mid(ws) <= ws.n
  BY <1>1, MidIs
<1>5. DrawnChallenge \in F
  BY ChallengeIs
<1>6. HoldsMles(ws.mles, ws.n, d + 1, Drawn)
  BY <1>1, <1>3 DEF ValuesOK, MlesOK
<1>7. PICK n, mles, mid, folded, r :
        n = ws.n /\ mles = ws.mles /\ mid = Mid(ws) /\ folded = ws'.mles /\ r = DrawnChallenge
  OBVIOUS
<1>8. HoldsMles(folded, PowerOf2(d), d, Append(Drawn, r))
  <2>1. \A m \in 0 .. NumMles(problem) - 1, i \in 0 .. PowerOf2(d) - 1 :
          folded[m * PowerOf2(d) + i] = FoldElement(mles, i, n, PowerOf2(d), n * m, r)
    BY <1>3, <1>7
  <2>2. /\ n \in Nat \ {0} /\ mles \in Arrays(n) /\ PowerOf2(d) <= n /\ r \in F
        /\ HoldsMles(mles, n, d + 1, Drawn)
    BY <1>3, <1>4, <1>5, <1>6, <1>7
  <2> QED BY <1>2, <2>1, <2>2, FoldedHoldsMles
<1>9. Drawn' = Append(Drawn, r)
  <2>1. Drawn' = point
    BY <1>2 DEF Drawn
  <2>2. point[round + 1] = r
    BY <1>7 DEF DrawnChallenge
  <2>3. point = Append(SubSeq(point, 1, round), point[round + 1])
    <3>1. PICK s, t : s = point /\ t = Append(SubSeq(point, 1, round), point[round + 1])
      OBVIOUS
    <3>2. s \in Seq(F) /\ Len(s) = round + 1 /\ \A j \in 1 .. round + 1 : s[j] \in F
      BY <1>2, <3>1
    <3>3. /\ SubSeq(s, 1, round) \in Seq(F) /\ Len(SubSeq(s, 1, round)) = round
          /\ \A j \in 1 .. round : SubSeq(s, 1, round)[j] = s[j]
      <4> HIDE DEF F
      <4> QED BY <1>2, <3>2
    <3>4. /\ t \in Seq(F) /\ Len(t) = round + 1 /\ t[round + 1] = s[round + 1]
          /\ \A j \in 1 .. round : t[j] = s[j]
      BY <1>2, <3>1, <3>2, <3>3
    <3>5. \A j \in 1 .. Len(s) : s[j] = t[j]
      BY <1>2, <3>2, <3>4
    <3>6. s = t
      BY <3>2, <3>4, <3>5, SequencesEqual
    <3> QED BY <3>1, <3>6
  <2> QED BY <2>1, <2>2, <2>3 DEF Drawn
<1>10. MlesOK'
  <2>1. ws'.n = PowerOf2(d) /\ ws'.nv = d /\ ws'.mles = folded
    BY <1>3, <1>7
  <2> QED BY <1>8, <1>9, <2>1, SameMles DEF MlesOK
<1>11. PolyOK'
  <2>1. Summed' = Summed
    BY DEF Summed
  <2> QED BY <2>1, PolyKept DEF ValuesOK
<1>12. SummedOK' /\ FoldedOK'
  BY DEF SummedOK, FoldedOK
<1> QED BY <1>10, <1>11, <1>12 DEF ValuesOK

(* cpu_driver::fold and gpu_driver::fold keep the values correct. *)
LEMMA FoldWholeValues ==
  ASSUME SumcheckAssumption, TypeInv, ValuesOK, FoldWhole
  PROVE  ValuesOK'
<1>1. PICK mid, mles :
        /\ mid = Mid(ws)
        /\ mles = [j \in 0 .. mid * NumMles(ws) - 1 |->
             FoldElement(ws.mles, j % mid, ws.n, mid, ws.n * (j \div mid), DrawnChallenge)]
  OBVIOUS
<1>2. /\ pc = "fold" /\ pc' = "sum" /\ problem' = problem
      /\ round' = round + 1 /\ point' = point /\ polys' = polys
      /\ ws' = [ws EXCEPT !.mles = mles, !.n = mid, !.nv = @ - 1]
  BY <1>1 DEF FoldWhole
<1>3. pc \in Rounds
  BY <1>2 DEF Rounds
<1>4. /\ mid \in Nat \ {0} /\ NumMles(ws) = NumMles(problem) /\ NumMles(problem) \in Nat
      /\ ws.n \in Nat
  BY <1>1, <1>3, MidIs
<1>5. ws \in [mles : Arrays(ws.n), n : Nat \ {0}, nv : Nat \ {0}, single : BOOLEAN]
  BY <1>3 DEF TypeInv, WorkspaceOK
<1>6. ws'.n = Mid(ws) /\ ws'.nv = ws.nv - 1 /\ ws'.mles = mles
  BY <1>1, <1>2, <1>5
<1>7. ASSUME NEW m \in 0 .. NumMles(problem) - 1, NEW i \in 0 .. mid - 1
      PROVE  mles[m * mid + i] = FoldElement(ws.mles, i, ws.n, mid, ws.n * m, DrawnChallenge)
  <2>1. PICK j : j = m * mid + i
    OBVIOUS
  <2>2. j \in 0 .. NumMles(problem) * mid - 1
    BY <1>4, <2>1, PlaceOfElement
  <2>3. mid * NumMles(ws) = NumMles(problem) * mid
    BY <1>4, SMT
  <2>4. (j \div mid) = m /\ (j % mid) = i
    <3>1. m \in Int
      BY <1>4
    <3> QED BY <1>4, <2>1, <3>1, DivisionIs
  <2>5. mles[j] = FoldElement(ws.mles, j % mid, ws.n, mid, ws.n * (j \div mid), DrawnChallenge)
    BY <1>1, <2>2, <2>3
  <2> QED BY <2>1, <2>4, <2>5
<1>8. \A m \in 0 .. NumMles(problem) - 1, i \in 0 .. Mid(ws) - 1 :
        ws'.mles[m * Mid(ws) + i]
          = FoldElement(ws.mles, i, ws.n, Mid(ws), ws.n * m, DrawnChallenge)
  BY <1>1, <1>6, <1>7
<1> QED BY <1>2, <1>6, <1>8, NextRoundValues

(* The end of a chunked fold keeps the values correct: every index has     *)
(* been folded.                                                            *)
LEMMA FoldEndValues ==
  ASSUME SumcheckAssumption, TypeInv, ValuesOK, FoldEnd
  PROVE  ValuesOK'
<1>1. /\ pc = "folding" /\ pc' = "sum" /\ problem' = problem /\ todo = {}
      /\ round' = round + 1 /\ point' = point /\ polys' = polys
      /\ ws'.n = Mid(ws) /\ ws'.nv = ws.nv - 1 /\ ws'.mles = mlesP
  BY DEF FoldEnd
<1>2. Left = {}
  BY <1>1 DEF Left
<1>3. \A m \in 0 .. NumMles(problem) - 1, i \in 0 .. Mid(ws) - 1 :
        mlesP[m * Mid(ws) + i]
          = FoldElement(ws.mles, i, ws.n, Mid(ws), ws.n * m, DrawnChallenge)
  <2>1. (0 .. Mid(ws) - 1) \ Left = 0 .. Mid(ws) - 1
    BY <1>2
  <2> QED BY <1>1, <2>1 DEF ValuesOK, FoldedOK
<1> QED BY <1>1, <1>3, NextRoundValues

(* Folding a chunk, in any order, writes what fold of the whole array      *)
(* writes there.                                                           *)
LEMMA FoldChunkValues ==
  ASSUME SumcheckAssumption, TypeInv, ValuesOK, NEW c \in todo, FoldChunk(c)
  PROVE  ValuesOK'
<1>1. PICK part, mid, r : part = PartialMles(ws, c) /\ mid = Mid(ws) /\ r = DrawnChallenge
  OBVIOUS
<1>2. /\ pc = "folding" /\ pc' = pc /\ problem' = problem /\ ws' = ws /\ todo' = todo \ {c}
      /\ round' = round /\ point' = point /\ polys' = polys
      /\ mlesP' = [j \in DOMAIN mlesP |->
           IF j % mid \in c.a .. c.b - 1
           THEN FoldElement(part.mles, (j % mid) - c.a, part.np, c.b - c.a, part.np * (j \div mid), r)
           ELSE mlesP[j]]
  BY <1>1 DEF FoldChunk
<1>3. pc \in Rounds /\ c \in Ranges(mid) /\ mlesP \in Arrays(mid)
  BY <1>1, <1>2 DEF Rounds, TypeInv, ChunksOK
<1>4. /\ mid \in Nat \ {0} /\ NumMles(problem) \in Nat /\ ws.n \in Nat \ {0} /\ mid <= ws.n
      /\ ws.mles \in [0 .. NumMles(problem) * ws.n - 1 -> F]
  BY <1>1, <1>3, MidIs DEF Arrays
<1>5. DOMAIN mlesP = 0 .. NumMles(problem) * mid - 1
  BY <1>3 DEF Arrays
<1>6. Mid(ws)' = mid /\ DrawnChallenge' = r /\ Drawn' = Drawn
  BY <1>1, <1>2 DEF Mid, DrawnChallenge, Drawn
<1>7. ASSUME NEW m \in 0 .. NumMles(problem) - 1, NEW i \in 0 .. mid - 1
      PROVE  mlesP'[m * mid + i]
               = IF i \in c.a .. c.b - 1 THEN FoldElement(ws.mles, i, ws.n, mid, ws.n * m, r)
                 ELSE mlesP[m * mid + i]
  <2>1. PICK j : j = m * mid + i
    OBVIOUS
  <2>2. j \in 0 .. NumMles(problem) * mid - 1
    BY <1>4, <2>1, PlaceOfElement
  <2>3. (j \div mid) = m /\ (j % mid) = i
    <3>1. m \in Int
      BY <1>4
    <3> QED BY <1>4, <2>1, <3>1, DivisionIs
  <2>4. mlesP'[j] = IF i \in c.a .. c.b - 1
                    THEN FoldElement(part.mles, i - c.a, part.np, c.b - c.a, part.np * m, r)
                    ELSE mlesP[j]
    BY <1>2, <1>5, <2>2, <2>3
  <2>5. ASSUME i \in c.a .. c.b - 1
        PROVE  FoldElement(part.mles, i - c.a, part.np, c.b - c.a, part.np * m, r)
                 = FoldElement(ws.mles, i, ws.n, mid, ws.n * m, r)
    <3>1. PICK h : h = i - c.a
      OBVIOUS
    <3>2. c.a \in Nat /\ c.b \in Nat
      BY <1>3 DEF Ranges
    <3>3. h \in 0 .. c.b - c.a - 1 /\ c.a + h = i
      BY <2>5, <3>1, <3>2
    <3>4. PairedAlike(ws, c, m, h, r)
      BY <1>1, <1>3, <1>4, <3>3, ChunkFold
    <3> QED BY <1>1, <3>1, <3>3, <3>4 DEF PairedAlike
  <2> QED BY <2>1, <2>4, <2>5
<1>8. FoldedOK'
  <2> SUFFICES ASSUME NEW m \in (0 .. NumMles(problem) - 1)', NEW i \in ((0 .. Mid(ws) - 1) \ Left)'
               PROVE  (mlesP[m * Mid(ws) + i]
                         = FoldElement(ws.mles, i, ws.n, Mid(ws), ws.n * m, DrawnChallenge))'
    BY DEF FoldedOK
  <2> SUFFICES mlesP'[m * mid + i] = FoldElement(ws.mles, i, ws.n, mid, ws.n * m, r)
    BY <1>2, <1>6
  <2>0. m \in 0 .. NumMles(problem) - 1 /\ i \in 0 .. mid - 1 /\ i \notin Left'
    BY <1>2, <1>6
  <2>1. Left' = {u \in 0 .. mid - 1 : \E e \in todo \ {c} : u \in e.a .. e.b - 1}
    BY <1>2, <1>6 DEF Left
  <2>2. Left = {u \in 0 .. mid - 1 : \E e \in todo : u \in e.a .. e.b - 1}
    BY <1>1 DEF Left
  <2>3. CASE i \in c.a .. c.b - 1
    BY <1>7, <2>0, <2>3
  <2>4. CASE i \notin c.a .. c.b - 1
    <3>1. i \notin Left
      BY <2>0, <2>1, <2>2, <2>4
    <3>2. mlesP[m * mid + i] = FoldElement(ws.mles, i, ws.n, mid, ws.n * m, r)
      BY <1>1, <1>2, <2>0, <3>1 DEF ValuesOK, FoldedOK
    <3> QED BY <1>7, <2>0, <2>4, <3>2
  <2> QED BY <2>3, <2>4
<1>9. MlesOK'
  BY <1>2, <1>3, <1>6, MlesKept DEF ValuesOK
<1>10. PolyOK'
  <2>1. Summed' = Summed
    BY <1>2 DEF Summed
  <2> QED BY <1>2, <2>1, PolyKept DEF ValuesOK
<1>11. SummedOK'
  BY <1>2 DEF SummedOK
<1> QED BY <1>8, <1>9, <1>10, <1>11 DEF ValuesOK

(* The finished chunks of a sum, and this one *)
LEMMA ChunkAdds ==
  ASSUME SumcheckAssumption, TypeInv, ValuesOK, NEW c \in todo, SumChunk(c)
  PROVE  \E value \in [0 .. problem.length - 1 -> F] :
           /\ WritePolynomial(value)
           /\ \A x \in F :
                Congruent(EvaluatePolynomial(value, 0, problem.length, x),
                          SumFunctionOnSet(FoldedSums(ws.mles, ws.n, Mid(ws), x),
                                           (0 .. Mid(ws) - 1) \ Left'), P)
<1>1. PICK part, mid, sum, value, len, D, R :
        /\ part = PartialMles(ws, c) /\ mid = Mid(ws)
        /\ sum = SumOfProducts(part.mles, part.np, c.b - c.a)
        /\ value = [k \in DOMAIN sum |->
                      IF fresh THEN sum[k] ELSE (polys[round * problem.length + k] + sum[k]) % P]
        /\ len = problem.length /\ D = 0 .. mid - 1 /\ R = c.a .. c.b - 1
  OBVIOUS
<1>2. /\ pc = "summing" /\ problem' = problem /\ ws' = ws /\ todo' = todo \ {c}
      /\ WritePolynomial(value)
  BY <1>1 DEF SumChunk
<1>3. /\ pc \in Rounds /\ problem \in Problems /\ c \in Ranges(mid) /\ todo \subseteq Ranges(mid)
      /\ len \in Nat \ {0, 1} /\ round \in Nat /\ round < NV /\ NV \in Nat
      /\ polys \in [0 .. NV * len - 1 -> F]
  <2>1. pc \in Rounds
    BY <1>2 DEF Rounds
  <2> QED BY <1>1, <1>2, <2>1, RoundIs DEF TypeInv, ChunksOK
<1>4. /\ mid \in Nat \ {0} /\ mid <= ws.n /\ ws.n \in Nat \ {0} /\ ws.mles \in Arrays(ws.n)
      /\ NumMles(problem) \in Nat
  BY <1>1, <1>3, MidIs
<1>5. c.a \in Nat /\ c.b \in Nat /\ c.a < c.b /\ c.b <= mid
  BY <1>3 DEF Ranges
<1>6. part.np \in Nat \ {0} /\ c.b - c.a \in 0 .. part.np /\ part.mles \in Arrays(part.np)
  BY <1>1, <1>3, <1>4, PartialMlesIs DEF Arrays
<1>7. sum \in [0 .. len - 1 -> F]
  BY <1>1, <1>3, <1>6, SumOfProductsType DEF Arrays
<1>8. F \subseteq Int /\ P \in Nat \ {0}
  <2>1. P \in Nat /\ P > 1 /\ F \subseteq Int
    BY InField
  <2> QED BY <2>1
<1>9. /\ Left = {u \in D : \E e \in todo : u \in e.a .. e.b - 1}
      /\ Left' = {u \in D : \E e \in todo \ {c} : u \in e.a .. e.b - 1}
  <2>1. Mid(ws)' = mid
    BY <1>1, <1>2 DEF Mid
  <2> QED BY <1>1, <1>2, <2>1 DEF Left
<1>10. R \subseteq D /\ R \subseteq Left /\ Left' = Left \ R
  <2>1. R \subseteq D
    BY <1>1, <1>4, <1>5
  <2>2. R \subseteq Left
    BY <1>1, <1>9, <2>1
  <2>3. Disjoint(todo)
    BY <1>2 DEF ValuesOK, SummedOK
  <2>4. ASSUME NEW u \in R PROVE u \notin Left'
    <3>1. \A e \in todo : u \in e.a .. e.b - 1 => c = e
      BY <1>1, <2>3 DEF Disjoint
    <3> QED BY <1>9, <3>1
  <2>5. ASSUME NEW u \in Left, u \notin R PROVE u \in Left'
    BY <1>1, <1>9, <2>5
  <2> QED BY <1>9, <2>2, <2>4, <2>5
<1>11. /\ IsFiniteSet(D) /\ IsFiniteSet(R) /\ IsFiniteSet(D \ Left)
  <2>1. PICK e : e = mid - 1
    OBVIOUS
  <2>2. 0 \in Int /\ e \in Int
    BY <1>4, <2>1
  <2>3. IsFiniteSet(0 .. e)
    BY <2>2, FS_Interval
  <2>4. IsFiniteSet(D)
    BY <1>1, <2>1, <2>3
  <2> QED BY <1>10, <2>4, FS_Subset
<1>12. value \in [0 .. len - 1 -> F]
       /\ \A k \in 0 .. len - 1 :
            /\ polys[len * round + k] \in Int /\ sum[k] \in F
            /\ value[k] = IF fresh THEN sum[k] ELSE (polys[len * round + k] + sum[k]) % P
  <2>1. ASSUME NEW k \in 0 .. len - 1
        PROVE  /\ polys[len * round + k] \in Int /\ sum[k] \in F
               /\ round * len + k = len * round + k
               /\ (IF fresh THEN sum[k] ELSE (polys[len * round + k] + sum[k]) % P) \in F
    <3>1. round \in 0 .. NV - 1 /\ len \in Nat
      BY <1>3
    <3>2. round * len + k \in 0 .. NV * len - 1
      BY <1>3, <3>1, PlaceOfElement
    <3>3. round * len + k = len * round + k
      BY <1>3
    <3>4. polys[len * round + k] \in F
      BY <1>3, <3>2, <3>3
    <3>5. sum[k] \in F
      BY <1>7
    <3>6. polys[len * round + k] \in Int /\ sum[k] \in Int
      BY <1>8, <3>4, <3>5
    <3>7. polys[len * round + k] + sum[k] \in Int
      BY <3>6
    <3>8. ((polys[len * round + k] + sum[k]) % P) \in F
      BY <3>7, InField
    <3> QED BY <3>3, <3>5, <3>6, <3>8
  <2>2. value = [k \in 0 .. len - 1 |->
                   IF fresh THEN sum[k] ELSE (polys[len * round + k] + sum[k]) % P]
    <3>1. DOMAIN sum = 0 .. len - 1
      BY <1>7
    <3> QED BY <1>1, <2>1, <3>1
  <2> QED BY <2>1, <2>2
<1>13. ASSUME NEW x \in F
       PROVE  Congruent(EvaluatePolynomial(value, 0, len, x),
                        SumFunctionOnSet(FoldedSums(ws.mles, ws.n, mid, x), D \ Left'), P)
  <2>1. PICK g, e, s, total, before :
          /\ g = FoldedSums(ws.mles, ws.n, mid, x)
          /\ e = EvaluatePolynomial(sum, 0, len, x)
          /\ s = SumFunctionOnSet(g, R)
          /\ total = EvaluatePolynomial(value, 0, len, x)
          /\ before = EvaluatePolynomial(polys, len * round, len, x)
    OBVIOUS
  <2>2. g \in [D -> Int] /\ s \in Int
    <3>1. mid \in 0 .. ws.n
      BY <1>4
    <3>2. g \in [D -> Int]
      BY <1>1, <1>3, <1>4, <2>1, <3>1, FoldedSumsAre
    <3> QED BY <1>10, <1>11, <2>1, <3>2, SumType
  <2>3. x \in Int
    BY <1>8
  <2>4. Coefficients(sum, 0, len) /\ Coefficients(polys, len * round, len) /\ len * round \in Nat
    <3>1. \A k \in 0 .. len - 1 : 0 + k = k
      OBVIOUS
    <3>2. \A k \in 0 .. len - 1 : sum[k] \in Int /\ polys[len * round + k] \in Int
      BY <1>8, <1>12
    <3>3. len * round \in Nat
      BY <1>3
    <3> QED BY <3>1, <3>2, <3>3 DEF Coefficients
  <2>5. e \in Int /\ before \in Int
    <3>1. len \in Nat
      BY <1>3
    <3>2. e \in F /\ before \in F
      BY <2>1, <2>3, <2>4, <3>1, EvaluateType
    <3> QED BY <1>8, <3>2
  <2>6. Congruent(e, s, P)
    <3>1. Congruent(e, SumFunction(FoldedSums(part.mles, part.np, c.b - c.a, x)), P)
      BY <1>1, <1>3, <1>6, <2>1, RoundIsSum
    <3>2. SumFunction(FoldedSums(part.mles, part.np, c.b - c.a, x)) = s
      BY <1>1, <1>3, <1>4, <2>1, ChunkSum
    <3> QED BY <3>1, <3>2
  <2>7. CASE fresh
    <3>1. \A k \in 0 .. len - 1 : value[k] = sum[k]
      BY <1>12, <2>7
    <3>2. value = sum
      <4>1. PICK K : K = 0 .. len - 1
        OBVIOUS
      <4>2. value \in [K -> F] /\ sum \in [K -> F] /\ \A k \in K : value[k] = sum[k]
        BY <1>7, <1>12, <3>1, <4>1
      <4> QED BY ONLY <4>2
    <3>3. Left = D
      BY <1>1, <1>2, <2>7 DEF ValuesOK, SummedOK
    <3>4. D \ Left' = R
      BY <1>10, <3>3
    <3> QED BY <2>1, <2>6, <3>2, <3>4
  <2>8. CASE ~ fresh
    <3>1. PICK done : done = SumFunctionOnSet(g, D \ Left)
      OBVIOUS
    <3>2. done \in Int
      BY <1>11, <2>2, <3>1, SumType
    <3>3. Congruent(before, done, P)
      BY <1>1, <1>2, <2>1, <2>8, <3>1 DEF ValuesOK, SummedOK, SumsUpTo
    <3>4. Congruent(total, before + e, P)
      <4>1. PICK p, q, first : p = polys /\ q = polys' /\ first = len * round
        OBVIOUS
      <4>2. \A k \in 0 .. len - 1 : q[first + k] = value[k]
        BY <1>1, <1>2, <1>3, <1>12, <2>3, <4>1, WritesRound
      <4>3. \A k \in 0 .. len - 1 : q[first + k] = (p[first + k] + sum[k]) % P
        BY <1>12, <2>8, <4>1, <4>2
      <4>4. len \in Nat /\ first \in Nat /\ Coefficients(p, first, len)
        BY <1>3, <2>4, <4>1
      <4>5. Congruent(EvaluatePolynomial(q, first, len, x),
                      EvaluatePolynomial(p, first, len, x) + EvaluatePolynomial(sum, 0, len, x), P)
        BY <2>3, <2>4, <4>3, <4>4, EvaluateAdds
      <4>6. EvaluatePolynomial(q, first, len, x) = total
        BY <1>1, <1>2, <1>3, <1>12, <2>1, <2>3, <4>1, WritesRound
      <4> QED BY <2>1, <4>1, <4>5, <4>6
    <3>5. SumFunctionOnSet(g, D \ Left') = done + s
      <4>1. D \ Left' = (D \ Left) \cup R /\ (D \ Left) \cap R = {}
        BY <1>10
      <4>2. D \ Left \in SUBSET D /\ R \in SUBSET D
        BY <1>10
      <4>3. SumFunctionOnSet(g, (D \ Left) \cup R)
              = SumFunctionOnSet(g, D \ Left) + SumFunctionOnSet(g, R)
        BY <1>11, <2>2, <4>1, <4>2, SumUnion
      <4> QED BY <2>1, <3>1, <4>1, <4>3
    <3>6. Congruent(before + e, done + s, P)
      BY <1>8, <2>2, <2>5, <2>6, <3>2, <3>3, CongruentSum
    <3>7. total \in Int
      <4>1. Coefficients(value, 0, len)
        <5>1. \A k \in 0 .. len - 1 : 0 + k = k
          OBVIOUS
        <5>2. \A k \in 0 .. len - 1 : value[k] \in F
          BY <1>12
        <5> QED BY <1>8, <5>1, <5>2 DEF Coefficients
      <4>2. total \in F
        <5>1. len \in Nat /\ 0 \in Nat
          BY <1>3
        <5> QED BY <2>1, <2>3, <4>1, <5>1, EvaluateType
      <4> QED BY <1>8, <4>2
    <3>8. Congruent(total, done + s, P)
      <4>1. before + e \in Int /\ done + s \in Int
        BY <2>2, <2>5, <3>2
      <4> QED BY <1>8, <3>4, <3>6, <3>7, <4>1, CongruentEquivalence
    <3> QED BY <2>1, <3>5, <3>8
  <2> QED BY <2>7, <2>8
<1> QED BY <1>1, <1>2, <1>12, <1>13

(* Adding a chunk's polynomial, in any order, keeps the values correct. *)
LEMMA SumChunkValues ==
  ASSUME SumcheckAssumption, TypeInv, ValuesOK, NEW c \in todo, SumChunk(c)
  PROVE  ValuesOK'
<1>1. /\ pc = "summing" /\ problem' = problem /\ ws' = ws /\ todo' = todo \ {c} /\ fresh' = FALSE
      /\ round' = round /\ point' = point
      /\ pc' = IF todo' = {} THEN "challenge" ELSE "summing"
  BY DEF SumChunk
<1>2. /\ pc \in Rounds
  BY <1>1 DEF Rounds
<1>3. PICK value \in [0 .. problem.length - 1 -> F] :
        /\ WritePolynomial(value)
        /\ \A x \in F :
             Congruent(EvaluatePolynomial(value, 0, problem.length, x),
                       SumFunctionOnSet(FoldedSums(ws.mles, ws.n, Mid(ws), x),
                                        (0 .. Mid(ws) - 1) \ Left'), P)
  BY ChunkAdds
<1>4. Mid(ws)' = Mid(ws) /\ Drawn' = Drawn
  BY <1>1 DEF Mid, Drawn
<1>5. MlesOK'
  BY <1>1, <1>2, <1>4, MlesKept DEF ValuesOK
<1>6. FoldedOK'
  BY <1>1 DEF FoldedOK
<1>7. PolyOK'
  <2>1. ASSUME pc' = "challenge", NEW x \in F
        PROVE  Congruent(EvaluatePolynomial(value, 0, problem.length, x),
                         SumFunction(FoldedSums(ws.mles, ws.n, Mid(ws), x)), P)
    <3>1. Left' = {}
      <4>1. todo' = {}
        BY <1>1, <2>1
      <4> QED BY <4>1 DEF Left
    <3>2. (0 .. Mid(ws) - 1) \ Left' = 0 .. Mid(ws) - 1
      BY <3>1
    <3>3. DOMAIN FoldedSums(ws.mles, ws.n, Mid(ws), x) = 0 .. Mid(ws) - 1
      BY DEF FoldedSums
    <3>4. SumFunction(FoldedSums(ws.mles, ws.n, Mid(ws), x))
            = SumFunctionOnSet(FoldedSums(ws.mles, ws.n, Mid(ws), x), 0 .. Mid(ws) - 1)
      BY <3>3 DEF SumFunction
    <3> QED BY <1>3, <3>2, <3>4
  <2>2. pc' \in {"sum", "summing", "challenge"}
    BY <1>1
  <2> QED BY <1>1, <1>3, <2>1, <2>2, RoundGetsPolynomial
<1>8. SummedOK'
  <2> SUFFICES ASSUME pc' = "summing" PROVE Disjoint(todo') /\ SumsUpTo((0 .. Mid(ws) - 1) \ Left)'
    BY <1>1 DEF SummedOK, Disjoint
  <2>1. Disjoint(todo')
    BY <1>1 DEF ValuesOK, SummedOK, Disjoint
  <2>2. F \subseteq Int
    BY InField
  <2>3. ASSUME NEW x \in F
        PROVE  Congruent(EvaluatePolynomial(polys', problem.length * round, problem.length, x),
                         SumFunctionOnSet(FoldedSums(ws.mles, ws.n, Mid(ws), x),
                                          (0 .. Mid(ws) - 1) \ Left'), P)
    <3>1. x \in Int
      BY <2>2
    <3>2. EvaluatePolynomial(polys', problem.length * round, problem.length, x)
            = EvaluatePolynomial(value, 0, problem.length, x)
      BY <1>2, <1>3, <3>1, WritesRound
    <3> QED BY <1>3, <3>2
  <2>4. \A x : FoldedSums(ws.mles, ws.n, Mid(ws), x)' = FoldedSums(ws.mles, ws.n, Mid(ws), x)
    BY <1>1, <1>4, SameMles
  <2>5. SumsUpTo((0 .. Mid(ws) - 1) \ Left)'
    BY <1>1, <1>4, <2>3, <2>4 DEF SumsUpTo
  <2> QED BY <2>1, <2>5
<1> QED BY <1>5, <1>6, <1>7, <1>8 DEF ValuesOK

-----------------------------------------------------------------------------
(* An honest proof is accepted *)

(* A verifier with the prover's proof and the true sum follows the prover. *)
HonestOK ==
  verifier # None /\ verifier.proof = polys /\ verifier.degree + 1 = problem.length
    /\ verifier.claim = SumAt(<< >>)
  => /\ verifier.result # "rejected"
     /\ Len(verifier.point) <= NV
     /\ verifier.point = SubSeq(point, 1, Len(verifier.point))
     /\ verifier.expected = SumAt(verifier.point)

(* The verifier's steps leave the prover's values alone. *)
LEMMA ValuesKept ==
  ASSUME TypeInv, ValuesOK, UNCHANGED proverVars
  PROVE  ValuesOK'
<1>1. /\ problem' = problem /\ pc' = pc /\ ws' = ws /\ round' = round /\ todo' = todo
      /\ fresh' = fresh /\ mlesP' = mlesP /\ polys' = polys /\ point' = point
  BY DEF proverVars
<1>2. Drawn' = Drawn /\ Mid(ws)' = Mid(ws) /\ Left' = Left /\ Summed' = Summed
      /\ DrawnChallenge' = DrawnChallenge
  BY <1>1 DEF Drawn, Mid, Left, Summed, DrawnChallenge
<1>3. MlesOK'
  BY <1>1, <1>2, SameMles DEF ValuesOK, MlesOK
<1>4. \A x : FoldedSums(ws.mles, ws.n, Mid(ws), x)' = FoldedSums(ws.mles, ws.n, Mid(ws), x)
  BY <1>1, <1>2, SameMles
<1>5. SumsUpTo((0 .. Mid(ws) - 1) \ Left)' <=> SumsUpTo((0 .. Mid(ws) - 1) \ Left)
  BY <1>1, <1>2, <1>4 DEF SumsUpTo
<1>6. SummedOK'
  BY <1>1, <1>2, <1>5 DEF ValuesOK, SummedOK, Disjoint
<1>7. FoldedOK'
  BY <1>1, <1>2 DEF ValuesOK, FoldedOK
<1>8. PolyOK'
  <2>1. CASE pc = "idle"
    BY <1>1, <2>1 DEF PolyOK
  <2>2. CASE pc # "idle"
    BY <1>1, <1>2, <2>2, PolyKept DEF ValuesOK
  <2> QED BY <2>1, <2>2
<1> QED BY <1>3, <1>6, <1>7, <1>8 DEF ValuesOK

(* After prove_sum, what is known of the polynomials it returned *)
LEMMA ReturnedIs ==
  ASSUME SumcheckAssumption, TypeInv, pc = "returned"
  PROVE  /\ problem \in Problems /\ problem.length \in Nat \ {0, 1} /\ NV \in Nat \ {0}
         /\ point \in Seq(F) /\ Len(point) = NV /\ Summed = NV
         /\ polys \in [0 .. NV * problem.length - 1 -> F]
         /\ \A k \in 0 .. NV - 1 : /\ problem.length * k \in Nat
                                   /\ Coefficients(polys, problem.length * k, problem.length)
<1>1. /\ problem \in Problems /\ point \in Seq(F) /\ Len(point) = NV /\ Summed = NV
      /\ polys \in [0 .. NV * problem.length - 1 -> F]
  BY DEF TypeInv, CallOK, RoundOK, PolysOK, Summed
<1>2. problem.length \in Nat \ {0, 1} /\ NV \in Nat \ {0}
  BY <1>1, ProblemIs, DimensionIs DEF NV
<1>3. ASSUME NEW k \in 0 .. NV - 1
      PROVE  problem.length * k \in Nat /\ Coefficients(polys, problem.length * k, problem.length)
  <2>1. k \in Nat
    BY <1>2
  <2>2. problem.length * k = k * problem.length /\ problem.length * k \in Nat
    BY <1>2, <2>1, SMT
  <2>3. \A i \in 0 .. problem.length - 1 : k * problem.length + i \in 0 .. NV * problem.length - 1
    BY <1>2, PlaceOfElement
  <2>4. \A i \in 0 .. problem.length - 1 : polys[k * problem.length + i] \in Int
    BY <1>1, <2>3, InField
  <2> QED BY <2>2, <2>4 DEF Coefficients
<1> QED BY <1>1, <1>2, <1>3

(* A call of the verifier with the prover's proof, its degree and the true *)
(* sum starts out right.                                                   *)
LEMMA VerifyHonest ==
  ASSUME SumcheckAssumption, TypeInv, NEW claim \in F, NEW proof \in [DOMAIN polys -> F],
         NEW degree \in {problem.length - 1, problem.length}, Verify(claim, proof, degree)
  PROVE  HonestOK'
<1>1. pc = "returned" /\ problem' = problem /\ polys' = polys /\ point' = point
  BY DEF Verify, proverVars
<1>2. /\ problem.length \in Nat \ {0, 1} /\ NV \in Nat \ {0}
      /\ point \in Seq(F) /\ Len(point) = NV
      /\ polys \in [0 .. NV * problem.length - 1 -> F]
  BY <1>1, ReturnedIs
<1>3. /\ verifier'.claim = claim /\ verifier'.expected = claim /\ verifier'.proof = proof
      /\ verifier'.degree = degree /\ verifier'.point = << >>
      /\ verifier'.result = IF Cardinality(DOMAIN proof) = (degree + 1) * Len(point)
                            THEN "running" ELSE "rejected"
  BY DEF Verify
<1>4. Cardinality(DOMAIN proof) = problem.length * NV
  <2>1. PICK n : n = NV * problem.length
    OBVIOUS
  <2>2. n \in Nat
    BY <1>2, <2>1
  <2>3. DOMAIN proof = 0 .. n - 1
    BY <1>2, <2>1
  <2>4. Cardinality(0 .. n - 1) = n
    <3>1. PICK e : e = n - 1
      OBVIOUS
    <3>2. 0 \in Int /\ e \in Int
      BY <2>2, <3>1
    <3>3. Cardinality(0 .. e) = IF 0 > e THEN 0 ELSE e - 0 + 1
      BY <3>2, FS_Interval
    <3> QED BY <2>2, <3>1, <3>3
  <2>5. n = problem.length * NV
    BY <1>2, <2>1
  <2> QED BY <2>3, <2>4, <2>5
<1>5. degree + 1 = problem.length => verifier'.result = "running"
  BY <1>2, <1>3, <1>4
<1>6. \A x : SumAt(x)' = SumAt(x)
  BY <1>1, SameProblem
<1>7. /\ Len(<< >>) = 0 /\ Len(<< >>) <= NV
      /\ << >> = SubSeq(point, 1, Len(<< >>))
  BY <1>2
<1>8. NV' = NV
  BY <1>1 DEF NV
<1> QED BY <1>1, <1>3, <1>5, <1>6, <1>7, <1>8 DEF HonestOK

(* The part of the point up to a challenge, and the challenge *)
LEMMA PrefixGrows ==
  ASSUME NEW S, NEW s \in Seq(S), NEW k \in 0 .. Len(s) - 1
  PROVE  /\ SubSeq(s, 1, k) \in Seq(S) /\ Len(SubSeq(s, 1, k)) = k
         /\ Append(SubSeq(s, 1, k), s[k + 1]) = SubSeq(s, 1, k + 1)
<1>1. k \in Nat /\ k + 1 \in 1 .. Len(s) /\ k <= Len(s)
  OBVIOUS
<1>2. \A j \in 1 .. k + 1 : s[j] \in S
  BY <1>1
<1>3. SubSeq(s, 1, k) \in Seq(S) /\ Len(SubSeq(s, 1, k)) = k
  BY <1>1, <1>2
<1>4. PICK a, b : a = Append(SubSeq(s, 1, k), s[k + 1]) /\ b = SubSeq(s, 1, k + 1)
  OBVIOUS
<1>5. b \in Seq(S) /\ Len(b) = k + 1 /\ \A j \in 1 .. k + 1 : b[j] = s[j]
  BY <1>1, <1>2, <1>4
<1>6. a \in Seq(S) /\ Len(a) = k + 1
  BY <1>1, <1>2, <1>3, <1>4
<1>7. \A j \in 1 .. k + 1 : a[j] = s[j]
  BY <1>1, <1>2, <1>3, <1>4
<1>8. \A j \in 1 .. Len(a) : a[j] = b[j]
  BY <1>5, <1>6, <1>7
<1>9. a = b
  BY <1>5, <1>6, <1>8, SequencesEqual
<1> QED BY <1>3, <1>4, <1>9

(* What the verifier sees of an honest proof in its next round *)
LEMMA HonestRoundIs ==
  ASSUME SumcheckAssumption, TypeInv, ValuesOK, pc = "returned", NEW k \in 0 .. NV - 1
  PROVE  LET before == SubSeq(point, 1, k)
         IN /\ before \in Seq(F)
            /\ SumPolynomial01(polys, problem.length * k, problem.length) = SumAt(before)
            /\ \A x \in F : EvaluatePolynomial(polys, problem.length * k, problem.length, x)
                              = SumAt(Append(before, x))
<1>1. PICK s, len : s = SubSeq(point, 1, k) /\ len = problem.length
  OBVIOUS
<1>2. /\ problem \in Problems /\ len \in Nat \ {0} /\ NV \in Nat \ {0}
      /\ point \in Seq(F) /\ Len(point) = NV /\ Summed = NV
      /\ len * k \in Nat /\ Coefficients(polys, len * k, len)
  BY <1>1, ReturnedIs
<1>3. s \in Seq(F) /\ Len(s) = k
  <2>1. k \in 0 .. Len(point) - 1
    BY <1>2
  <2> QED BY <1>1, <1>2, <2>1, PrefixGrows
<1>4. \A x \in F : EvaluatePolynomial(polys, len * k, len, x) = SumAt(Append(s, x))
  <2>1. PolyIs(k)
    BY <1>2 DEF ValuesOK, PolyOK
  <2> QED BY <1>1, <2>1 DEF PolyIs
<1>5. SumPolynomial01(polys, len * k, len) = SumAt(s)
  <2>1. 0 \in F /\ 1 \in F
    BY InField
  <2>2. SumPolynomial01(polys, len * k, len)
          = (EvaluatePolynomial(polys, len * k, len, 0)
               + EvaluatePolynomial(polys, len * k, len, 1)) % P
    BY <1>2, SumOfEnds
  <2>3. Len(s) < NumVariables(problem.n)
    BY <1>2, <1>3 DEF NV
  <2>4. SumAt(s) = (SumAt(Append(s, 0)) + SumAt(Append(s, 1))) % P
    BY <1>2, <1>3, <2>3, SumOfHalves
  <2> QED BY <1>4, <2>1, <2>2, <2>4
<1> QED BY <1>1, <1>3, <1>4, <1>5

(* A round of the verifier with the prover's proof keeps it on the         *)
(* prover's point and expecting the true sum.                              *)
LEMMA VerifyRoundHonest ==
  ASSUME SumcheckAssumption, TypeInv, ValuesOK, HonestOK, NEW r \in F, VerifyRound(r)
  PROVE  HonestOK'
<1>1. PICK k, len, s : k = Len(verifier.point) /\ len = problem.length /\ s = verifier.point
  OBVIOUS
<1>2. /\ problem \in Problems /\ problem' = problem /\ len \in Nat \ {0, 1}
      /\ verifier.degree + 1 = len /\ verifier # None /\ verifier.result = "running"
      /\ s \in Seq(F) /\ k < NV /\ Len(point) = NV /\ UNCHANGED proverVars
  BY <1>1, VerifyRoundIs
<1>3. pc = "returned"
  BY <1>2 DEF TypeInv, VerifierOK
<1>4. polys' = polys /\ point' = point /\ NV' = NV
  BY <1>2 DEF proverVars, NV
<1>5. verifier \in [claim : F, expected : F, proof : [0 .. NV * len - 1 -> F],
                    degree : Nat, point : Seq(F), result : {"running", "accepted", "rejected"}]
  BY <1>1, <1>2 DEF TypeInv, VerifierOK
<1>6. /\ verifier'.point = Append(s, r)
      /\ verifier'.expected = EvaluatePolynomial(verifier.proof, len * k, len, r)
      /\ verifier'.proof = verifier.proof /\ verifier'.degree = verifier.degree
      /\ verifier'.claim = verifier.claim /\ verifier'.result \in {"running", "accepted"}
  <2>1. verifier' = [verifier EXCEPT
          !.point = Append(s, r),
          !.expected = EvaluatePolynomial(verifier.proof, len * k, len, r),
          !.result = IF k + 1 = Len(point) THEN "accepted" ELSE verifier.result]
    BY <1>1, VerifyRoundIs
  <2>2. /\ verifier'.point = Append(s, r)
        /\ verifier'.expected = EvaluatePolynomial(verifier.proof, len * k, len, r)
        /\ verifier'.proof = verifier.proof /\ verifier'.degree = verifier.degree
        /\ verifier'.claim = verifier.claim
    BY <1>5, <2>1
  <2>3. verifier'.result = IF k + 1 = Len(point) THEN "accepted" ELSE verifier.result
    BY <1>5, <2>1
  <2> QED BY <1>2, <2>2, <2>3
<1>7. \A x : SumAt(x)' = SumAt(x)
  BY <1>2, SameProblem
<1> SUFFICES ASSUME verifier.proof = polys, verifier.claim = SumAt(<< >>)
             PROVE  /\ Len(Append(s, r)) <= NV
                    /\ Append(s, r) = SubSeq(point, 1, Len(Append(s, r)))
                    /\ EvaluatePolynomial(polys, len * k, len, r) = SumAt(Append(s, r))
  BY <1>4, <1>6, <1>7 DEF HonestOK
<1>8. s = SubSeq(point, 1, k)
  BY <1>1, <1>2 DEF HonestOK
<1>9. /\ k \in 0 .. NV - 1 /\ k \in 0 .. Len(point) - 1 /\ point \in Seq(F)
      /\ Len(Append(s, r)) = k + 1 /\ k + 1 <= NV
  <2>1. k \in Nat /\ NV \in Nat /\ point \in Seq(F)
    BY <1>1, <1>2, <1>3, ReturnedIs
  <2>2. Len(Append(s, r)) = Len(s) + 1
    BY <1>2
  <2> QED BY <1>1, <1>2, <2>1, <2>2
<1>10. r = point[k + 1]
  <2>1. SameTranscript(verifier.proof, verifier.degree, k)
    BY <1>1, <1>2 DEF SameTranscript
  <2> QED BY <1>1, <2>1 DEF VerifyRound
<1>11. Append(s, r) = SubSeq(point, 1, k + 1)
  BY <1>8, <1>9, <1>10, PrefixGrows
<1>12. EvaluatePolynomial(polys, len * k, len, r) = SumAt(Append(s, r))
  BY <1>1, <1>3, <1>8, <1>9, HonestRoundIs
<1> QED BY <1>9, <1>11, <1>12

(* The verifier rejects in no round of the prover's proof: the true        *)
(* polynomial's values at 0 and 1 are the sum it expects.                  *)
LEMMA VerifyFailsHonest ==
  ASSUME SumcheckAssumption, TypeInv, ValuesOK, HonestOK, VerifyFails
  PROVE  HonestOK'
<1>1. /\ verifier # None /\ verifier.result = "running" /\ UNCHANGED proverVars
      /\ verifier' = [verifier EXCEPT !.result = "rejected"]
      /\ verifier.expected # SumPolynomial01(verifier.proof,
           (verifier.degree + 1) * Len(verifier.point), verifier.degree + 1)
  BY DEF VerifyFails
<1>2. /\ pc = "returned" /\ problem' = problem /\ polys' = polys
  BY <1>1 DEF TypeInv, VerifierOK, proverVars
<1>3. /\ verifier \in [claim : F, expected : F, proof : [0 .. NV * problem.length - 1 -> F],
                    degree : Nat, point : Seq(F), result : {"running", "accepted", "rejected"}]
      /\ Len(verifier.point) < NV /\ verifier.degree + 1 = problem.length
  BY <1>1 DEF TypeInv, VerifierOK
<1>4. /\ verifier'.proof = verifier.proof /\ verifier'.degree = verifier.degree
      /\ verifier'.claim = verifier.claim
  BY <1>1, <1>3
<1>5. \A x : SumAt(x)' = SumAt(x)
  BY <1>2, SameProblem
<1> SUFFICES ASSUME verifier.proof = polys, verifier.claim = SumAt(<< >>)
             PROVE  FALSE
  BY <1>2, <1>4, <1>5 DEF HonestOK
<1>6. PICK k : k = Len(verifier.point)
  OBVIOUS
<1>7. verifier.point = SubSeq(point, 1, k) /\ verifier.expected = SumAt(verifier.point)
  BY <1>1, <1>3, <1>6 DEF HonestOK
<1>8. k \in 0 .. NV - 1
  <2>1. NV \in Nat
    BY <1>2, ReturnedIs
  <2> QED BY <1>3, <1>6, <2>1
<1>9. SumPolynomial01(polys, problem.length * k, problem.length) = SumAt(SubSeq(point, 1, k))
  BY <1>2, <1>8, HonestRoundIs
<1> QED BY <1>1, <1>3, <1>6, <1>7, <1>9

(* The inductive invariant of the whole protocol *)
FullInv == Inv /\ ValuesOK /\ HonestOK

(* Every step of prover, drivers and verifier, whatever proof the verifier *)
(* is given, keeps the invariant.                                          *)
LEMMA StepKeepsFullInv ==
  ASSUME SumcheckAssumption, FullInv, [AnyProofNext]_vars
  PROVE  FullInv'
<1>0. TypeInv /\ Inv /\ ValuesOK /\ HonestOK
  BY DEF FullInv, Inv
<1>1. Inv'
  BY <1>0, StepKeepsInv
<1>2. CASE UNCHANGED vars
  <2>1. UNCHANGED proverVars /\ verifier' = verifier /\ problem' = problem /\ polys' = polys
        /\ point' = point
    BY <1>2 DEF vars, proverVars
  <2>2. ValuesOK'
    BY <1>0, <2>1, ValuesKept
  <2>3. \A x : SumAt(x)' = SumAt(x)
    BY <2>1, SameProblem
  <2>4. HonestOK'
    BY <1>0, <2>1, <2>3 DEF HonestOK, NV
  <2> QED BY <1>1, <2>2, <2>4 DEF FullInv
<1>3. ASSUME NEW p \in Problems, NEW d \in Drivers, ProveSum(p, d) PROVE FullInv'
  <2>1. ValuesOK'
    BY <1>0, <1>3, ProveSumValues
  <2>2. verifier' = None
    BY <1>0, <1>3 DEF ProveSum, TypeInv, VerifierOK
  <2> QED BY <1>1, <2>1, <2>2 DEF FullInv, HonestOK
<1>4. ASSUME SumWhole \/ SumSplit \/ (\E c \in todo : SumChunk(c)) \/ (\E r \in F : RoundChallenge(r))
             \/ FoldWhole \/ FoldSplit \/ (\E c \in todo : FoldChunk(c)) \/ FoldEnd \/ ProverReturns
      PROVE  FullInv'
  <2>1. ValuesOK'
    BY <1>0, <1>4, SumWholeValues, SumSplitValues, SumChunkValues, RoundChallengeValues,
       FoldWholeValues, FoldSplitValues, FoldChunkValues, FoldEndValues, ProverReturnsValues
  <2>2. verifier' = verifier /\ pc # "returned"
    BY <1>4 DEF SumWhole, SumSplit, SumChunk, RoundChallenge, FoldWhole, FoldSplit, FoldChunk,
                FoldEnd, ProverReturns
  <2>3. verifier' = None
    BY <1>0, <2>2 DEF TypeInv, VerifierOK
  <2> QED BY <1>1, <2>1, <2>3 DEF FullInv, HonestOK
<1>5. ASSUME NEW claim \in F, NEW proof \in [DOMAIN polys -> F],
             NEW degree \in {problem.length - 1, problem.length}, Verify(claim, proof, degree)
      PROVE  FullInv'
  <2>1. UNCHANGED proverVars
    BY <1>5 DEF Verify
  <2>2. ValuesOK'
    BY <1>0, <2>1, ValuesKept
  <2>3. HonestOK'
    BY <1>0, <1>5, VerifyHonest
  <2> QED BY <1>1, <2>2, <2>3 DEF FullInv
<1>6. ASSUME NEW r \in F, VerifyRound(r) PROVE FullInv'
  <2>1. UNCHANGED proverVars
    BY <1>6 DEF VerifyRound
  <2>2. ValuesOK'
    BY <1>0, <2>1, ValuesKept
  <2>3. HonestOK'
    BY <1>0, <1>6, VerifyRoundHonest
  <2> QED BY <1>1, <2>2, <2>3 DEF FullInv
<1>7. CASE VerifyFails
  <2>1. UNCHANGED proverVars
    BY <1>7 DEF VerifyFails
  <2>2. ValuesOK'
    BY <1>0, <2>1, ValuesKept
  <2>3. HonestOK'
    BY <1>0, <1>7, VerifyFailsHonest
  <2> QED BY <1>1, <2>2, <2>3 DEF FullInv
<1>8. CASE VerifyAny
  BY <1>5, <1>8 DEF VerifyAny
<1>9. ASSUME NEW claim \in F, NEW proof, NEW degree,
             \/ proof \in Proofs /\ degree = problem.length - 1
             \/ proof = polys /\ degree = problem.length,
             Verify(claim, proof, degree)
      PROVE  VerifyAny
  <2>1. pc = "returned"
    BY <1>9 DEF Verify
  <2> QED BY <1>0, <1>9, <2>1, ProofsAreArrays DEF VerifyAny
<1>10. CASE Next
  BY <1>3, <1>4, <1>6, <1>7, <1>8, <1>9, <1>10 DEF Next
<1> QED BY <1>2, <1>8, <1>10 DEF AnyProofNext

(***************************************************************************)
(* prove_sum, the drivers' sum and fold and verify_sumcheck_no_evaluation  *)
(* keep the invariant, whatever proof of the right length the verifier is  *)
(* given: arrays hold the MLEs at the challenges so far, every round has   *)
(* the polynomial of its partial sum, and a verifier with that proof and   *)
(* the true sum does not reject it.                                        *)
(***************************************************************************)
THEOREM AnyProofCorrectness ==
  ASSUME SumcheckAssumption
  PROVE  AnyProofSpec => []FullInv
<1>1. Init => FullInv
  <2> SUFFICES ASSUME Init PROVE FullInv
    OBVIOUS
  <2>1. Inv
    <3>1. TypeInv
      BY InitTypes
    <3> QED BY <3>1 DEF Inv, SoundOK, Init
  <2>2. ValuesOK /\ HonestOK
    BY DEF Init, ValuesOK, MlesOK, SummedOK, FoldedOK, PolyOK, HonestOK, Rounds
  <2> QED BY <2>1, <2>2 DEF FullInv
<1>2. FullInv /\ [AnyProofNext]_vars => FullInv'
  BY StepKeepsFullInv
<1> QED BY <1>1, <1>2, PTL DEF AnyProofSpec

(* The invariant says that every round's polynomial is the partial sum and *)
(* the arrays hold the MLEs.                                               *)
LEMMA FullInvGivesRounds ==
  ASSUME SumcheckAssumption, FullInv
  PROVE  RoundPolynomialCorrect
<1>1. TypeInv /\ ValuesOK
  BY DEF FullInv, Inv
<1>2. ASSUME pc = "challenge", NEW x \in F
      PROVE  EvaluatePolynomial(polys, round * problem.length, problem.length, x)
               = SumAt(Append(point, x))
  <2>1. pc \in Rounds
    BY <1>2 DEF Rounds
  <2>2. round \in Nat /\ point \in Seq(F) /\ Len(point) = round /\ problem.length \in Nat
    BY <1>1, <1>2, <2>1, RoundIs DEF TypeInv, RoundOK
  <2>3. round \in 0 .. Summed - 1
    BY <1>2, <2>2 DEF Summed
  <2>4. PolyIs(round)
    BY <1>1, <1>2, <2>3 DEF ValuesOK, PolyOK
  <2>5. SubSeq(point, 1, round) = point
    BY <2>2
  <2>6. problem.length * round = round * problem.length
    BY <2>2, SMT
  <2> QED BY <2>4, <2>5, <2>6 DEF PolyIs
<1>3. ASSUME pc = "sum"
      PROVE  /\ round + ws.nv = NumVariables(problem.n)
             /\ \A m \in 0 .. NumMles(ws) - 1, i \in 0 .. PowerOf2(ws.nv) - 1 :
                  (IF i < ws.n THEN ws.mles[m * ws.n + i] ELSE 0)
                    = MleAt(m, point \o [j \in 1 .. ws.nv |-> Bit(i, j, ws.nv)])
  <2>1. pc \in Rounds
    BY <1>3 DEF Rounds
  <2>2. round \in Nat /\ point \in Seq(F) /\ Len(point) = round /\ NV \in Nat
    BY <1>1, <1>3, <2>1, RoundIs DEF TypeInv, RoundOK
  <2>3. ws.nv = NV - round /\ NumMles(ws) = NumMles(problem)
    BY <1>1, <2>1, MidIs DEF TypeInv, WorkspaceOK
  <2>4. Drawn = point
    BY <2>2 DEF Drawn
  <2>5. HoldsMles(ws.mles, ws.n, ws.nv, point)
    BY <1>1, <2>1, <2>4 DEF ValuesOK, MlesOK
  <2> QED BY <2>2, <2>3, <2>5 DEF HoldsMles, Corner, NV
<1> QED BY <1>2, <1>3 DEF RoundPolynomialCorrect

(* The invariant says that a finished verification of an honest proof has  *)
(* accepted it at the prover's point.                                      *)
LEMMA FullInvGivesAcceptance ==
  ASSUME SumcheckAssumption, FullInv
  PROVE  ProofAccepted
<1>1. TypeInv /\ HonestOK
  BY DEF FullInv, Inv
<1> SUFFICES ASSUME verifier # None, verifier.result # "running", verifier.proof = polys,
                    verifier.degree + 1 = problem.length, verifier.claim = SumAt(<< >>)
             PROVE  /\ verifier.result = "accepted" /\ verifier.point = point
                    /\ verifier.expected = ValueAt(point)
  BY DEF ProofAccepted, Verdict
<1>2. /\ verifier.result # "rejected"
      /\ verifier.point = SubSeq(point, 1, Len(verifier.point))
      /\ verifier.expected = SumAt(verifier.point)
  BY <1>1 DEF HonestOK
<1>3. pc = "returned" /\ verifier.result = "accepted" /\ Len(verifier.point) = NV
  BY <1>1, <1>2 DEF TypeInv, VerifierOK
<1>4. problem \in Problems /\ point \in Seq(F) /\ Len(point) = NV
  BY <1>1, <1>3, ReturnedIs
<1>5. verifier.point = point
  BY <1>2, <1>3, <1>4
<1>6. SumAt(point) = ValueAt(point)
  BY <1>4, SumOfAll DEF NV
<1> QED BY <1>2, <1>3, <1>5, <1>6

(***************************************************************************)
(* prove_sum is correct: for every prime field, problem and driver, whole  *)
(* or in chunks that finish in any order, and with the change of driver in *)
(* the middle, the polynomial that sum writes for a round is the sum of    *)
(* the products over the cube behind the challenges, and fold leaves the   *)
(* MLEs at those challenges in the workspace.                              *)
(***************************************************************************)
THEOREM RoundPolynomialsCorrect ==
  ASSUME SumcheckAssumption
  PROVE  Spec => []RoundPolynomialCorrect
<1>1. [Next]_vars => [AnyProofNext]_vars
  BY DEF AnyProofNext
<1>2. Spec => AnyProofSpec
  BY <1>1, PTL DEF Spec, AnyProofSpec
<1> QED BY <1>2, AnyProofCorrectness, FullInvGivesRounds, PTL

(***************************************************************************)
(* The protocol is complete: verify_sumcheck_no_evaluation accepts what    *)
(* prove_sum returns, with the sum over the cube for the claim, and ends   *)
(* with prove_sum's evaluation point and the polynomial's value there.     *)
(***************************************************************************)
THEOREM ProofsAccepted ==
  ASSUME SumcheckAssumption
  PROVE  Spec => []ProofAccepted
<1>1. [Next]_vars => [AnyProofNext]_vars
  BY DEF AnyProofNext
<1>2. Spec => AnyProofSpec
  BY <1>1, PTL DEF Spec, AnyProofSpec
<1> QED BY <1>2, AnyProofCorrectness, FullInvGivesAcceptance, PTL

=============================================================================
