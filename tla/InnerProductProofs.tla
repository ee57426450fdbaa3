-------------------------- MODULE InnerProductProofs --------------------------
(***************************************************************************)
(* The inner product argument, for every prime order, set of problems,     *)
(* number of rounds done on the host and driver (InnerProductAssumption).  *)
(*                                                                         *)
(* One coefficient k of the group elements at a time, the commitment to    *)
(* the vectors a, b and g is the product of a with weights: the            *)
(* coefficients of g, plus b where k is that of Q.  Folding folds a one    *)
(* way and the weights the other way.  Two facts survive it:               *)
(*                                                                         *)
(*  - Committed: the product of a and the weights is the caller's, and the *)
(*    published cross terms times the squares of the challenges;           *)
(*  - Scaled: exponents that repeat with the square of a challenge have,   *)
(*    with the weights left, the product they had with the first weights,  *)
(*    times the inverses of the challenges.                                *)
(*                                                                         *)
(* The first is CommitmentKept.  After the last round a and the weights    *)
(* are one number each, and both facts together say that the commitment    *)
(* the verifier computes is the true one exactly if it was given the final *)
(* scalar.  The coefficient of the first generator decides that: its       *)
(* weight is a product of inverses, which can be cancelled.                *)
(***************************************************************************)
EXTENDS InnerProduct, DataLemmas

-----------------------------------------------------------------------------
(* The scalars, a prime field *)

(* The order is a number above 1, and scalars are natural numbers *)
LEMMA OrderIs ==
  ASSUME InnerProductAssumption
  PROVE  Order \in Nat \ {0} /\ Order > 1 /\ 0 \in Scalars /\ 1 \in Scalars /\ Scalars \subseteq Int
BY DEF InnerProductAssumption, Scalars

(* Every scalar but 0 has an inverse: the least positive remainder of its multiples divides it. *)
LEMMA InverseIs ==
  ASSUME InnerProductAssumption, NEW x \in Scalars \ {0}
  PROVE  InverseOf(x) \in Scalars /\ ((x * InverseOf(x)) % Order) = 1
<1>1. Order \in Nat \ {0} /\ Order > 1 /\ x \in 1 .. Order - 1
  BY OrderIs DEF Scalars
<1> DEFINE Reached == {d \in 1 .. Order - 1 : \E y \in Int : Congruent(x * y, d, Order)}
<1>2. Reached \in SUBSET Nat /\ Reached # {}
  <2>1. x * 1 = x
    BY <1>1
  <2>2. x \in Int /\ 1 \in Int
    BY <1>1
  <2>3. Congruent(x, x, Order)
    BY <1>1, <2>2, CongruentRemainder
  <2>4. Congruent(x * 1, x, Order)
    BY <2>1, <2>3
  <2>5. x \in Reached
    BY <1>1, <2>2, <2>4
  <2> QED BY <2>5
<1>3. PICK d \in Reached : \A e \in Reached : d <= e
  <2> HIDE DEF Reached
  <2>1. PICK d \in Reached : \A e \in Reached : ~ (<<e, d>> \in OpToRel(<, Nat))
    BY <1>2, NatLessThanWellFounded, WFMin
  <2>2. \A e \in Reached : ~ (e < d)
    BY <1>2, <2>1 DEF OpToRel
  <2>3. \A e \in Reached : e \in Int /\ d \in Int
    BY <1>2
  <2>4. \A e \in Reached : d <= e
    BY <2>2, <2>3
  <2> QED BY <2>4
<1>4. PICK y \in Int : Congruent(x * y, d, Order)
  OBVIOUS
<1>5. d \in 1 .. Order - 1 /\ x \in Int /\ Order \in Int
  BY <1>1
<1> DEFINE q == Order \div d
           r == Order % d
<1>6. q \in Int /\ r \in 0 .. d - 1 /\ Order = q * d + r
  BY <1>1, <1>5, DivisionRange
<1> HIDE DEF q
<1>7. r = 0
  <2>1. PICK k \in Int : x * y = d + k * Order
    BY <1>4 DEF Congruent
  <2> DEFINE z == (-q) * y
  <2>2. z \in Int
    BY <1>4, <1>6, SMT
  <2>3. x * z = (-q) * (x * y)
    BY <1>4, <1>5, <1>6, SMT
  <2>4. x * z = r + (-1 - q * k) * Order
    <3>1. (-q) * (x * y) = (-q) * (d + k * Order)
      BY <2>1
    <3>2. (-q) * (d + k * Order) = (-q) * d + ((-q) * k) * Order
      BY <1>1, <1>5, <1>6, <2>1, SMT
    <3>3. (-q) * d = r - Order
      BY <1>1, <1>5, <1>6, SMT
    <3>4. (-1 - q * k) * Order = ((-q) * k) * Order - Order
      BY <1>1, <1>5, <1>6, <2>1, SMT
    <3> HIDE DEF r, z
    <3> QED BY <1>1, <1>5, <1>6, <2>1, <2>3, <3>1, <3>2, <3>3, <3>4, SMT
  <2>5. -1 - q * k \in Int
    BY <1>6, <2>1, SMT
  <2>6. Congruent(x * z, r, Order)
    BY <2>4, <2>5 DEF Congruent
  <2>7. r # 0 => r \in Reached
    <3>1. r # 0 => r \in 1 .. Order - 1
      BY <1>5, <1>6
    <3> HIDE DEF r, z
    <3> QED BY <2>2, <2>6, <3>1
  <2>8. r < d
    BY <1>5, <1>6
  <2> HIDE DEF r, Reached
  <2> QED BY <1>3, <1>5, <1>6, <2>7, <2>8
<1>8. d = 1
  <2>1. ~ (d \in 2 .. Order - 1)
    BY <1>7 DEF InnerProductAssumption
  <2> QED BY <1>5, <2>1
<1>9. \E z \in Scalars : ((x * z) % Order) = 1
  <2> DEFINE z == y % Order
  <2>1. z \in Scalars /\ z \in Int /\ Congruent(z, y, Order)
    <3>1. (y % Order) \in 0 .. Order - 1
      BY <1>1, <1>4, ModRange
    <3>2. z \in Scalars /\ z \in Int
      BY <3>1 DEF Scalars
    <3> QED BY <1>1, <1>4, <3>2, CongruentRemainder
  <2> HIDE DEF z
  <2>2. Congruent(x * z, x * y, Order)
    BY <1>1, <1>4, <1>5, <2>1, CongruentProduct, CongruentRemainder
  <2>3. x * z \in Int /\ x * y \in Int
    BY <1>4, <1>5, <2>1
  <2>4. Congruent(x * z, 1, Order)
    BY <1>1, <1>4, <1>8, <2>2, <2>3, CongruentEquivalence
  <2>5. ((x * z) % Order) = (1 % Order)
    <3> DEFINE w == x * z
    <3>1. w \in Int /\ 1 \in Int /\ Congruent(w, 1, Order)
      BY <2>3, <2>4
    <3> HIDE DEF w
    <3>2. (w % Order) = (1 % Order)
      BY <1>1, <3>1, CongruentMod
    <3> QED BY <3>2 DEF w
  <2>6. (1 % Order) = 1
    BY <1>1, ModSmall
  <2> QED BY <2>1, <2>5, <2>6
<1> QED BY <1>9 DEF InverseOf

-----------------------------------------------------------------------------
(* The rounds of a problem *)

(* 1 << 0 is 1, and 1 << (k + 1) twice 1 << k, never 0. *)
LEMMA PowerStep ==
  /\ \A k : PowerOf2(k) = Doubled(k)
  /\ PowerOf2(0) = 1
  /\ \A k \in Nat : PowerOf2(k) \in Nat \ {0} /\ PowerOf2(k + 1) = 2 * PowerOf2(k)
<1>1. \A k : PowerOf2(k) = Doubled(k)
  BY DEF PowerOf2, Doubled
<1> QED BY <1>1, DoubledStep

(* The least k with n <= 1 << k: there is one. *)
LEMMA CeilLog2Is ==
  ASSUME NEW n \in Nat \ {0}
  PROVE  /\ CeilLog2(n) \in 0 .. n /\ PowerOf2(CeilLog2(n)) >= n
         /\ CeilLog2(n) = 0 \/ PowerOf2(CeilLog2(n) - 1) < n
<1> DEFINE Fits(c) == PowerOf2(c) >= n /\ (c = 0 \/ PowerOf2(c - 1) < n)
<1>1. PICK c \in 0 .. n : Fits(c)
  BY PowerStep, LogExists
<1>2. CeilLog2(n) = CHOOSE k \in 0 .. n : Fits(k)
  BY DEF CeilLog2
<1> HIDE DEF Fits
<1>3. CeilLog2(n) \in 0 .. n /\ Fits(CeilLog2(n))
  BY <1>1, <1>2
<1> QED BY <1>3 DEF Fits

RoundsOf(p) == CeilLog2(Len(p.a))

(* The vectors are longer than half of the power of two they are padded to. *)
LEMMA RoundsAre ==
  ASSUME InnerProductAssumption, NEW p \in InnerProblems
  PROVE  /\ p.a \in Seq(Scalars) /\ p.b \in Seq(Scalars) /\ Len(p.a) = Len(p.b) /\ Len(p.a) \in Nat \ {0}
         /\ RoundsOf(p) \in Nat
         /\ Len(p.a) <= PowerOf2(RoundsOf(p))
         /\ RoundsOf(p) = 0 <=> Len(p.a) = 1
         /\ RoundsOf(p) # 0 => PowerOf2(RoundsOf(p) - 1) < Len(p.a)
<1>1. p.a \in Seq(Scalars) /\ p.b \in Seq(Scalars) /\ Len(p.a) = Len(p.b) /\ p.a # <<>>
  BY DEF InnerProductAssumption
<1>2. Len(p.a) \in Nat \ {0}
  BY <1>1, EmptySeq, LenProperties
<1> DEFINE n == Len(p.a)
           c == CeilLog2(n)
<1>3. c \in 0 .. n /\ PowerOf2(c) >= n /\ (c = 0 \/ PowerOf2(c - 1) < n)
  <2>1. n \in Nat \ {0}
    BY <1>2
  <2> HIDE DEF n
  <2> QED BY <2>1, CeilLog2Is
<1>4. c \in Nat /\ n \in Nat \ {0}
  BY <1>2, <1>3
<1> HIDE DEF n, c
<1>5. PowerOf2(c) \in Nat
  BY <1>4, PowerStep
<1>6. c = 0 => n = 1
  BY <1>3, <1>4, PowerStep
<1>7. n = 1 => c = 0
  <2>1. SUFFICES ASSUME n = 1, c # 0 PROVE FALSE
    OBVIOUS
  <2>2. PowerOf2(c - 1) < 1 /\ c - 1 \in Nat
    BY <1>3, <1>4, <2>1
  <2>3. PowerOf2(c - 1) \in Nat \ {0}
    BY <2>2, PowerStep
  <2> QED BY <2>2, <2>3
<1> QED BY <1>1, <1>2, <1>3, <1>4, <1>5, <1>6, <1>7 DEF RoundsOf, n, c

(* The elements that are left after r rounds, and the middle of them *)
LEMMA RoundHalves ==
  ASSUME NEW n \in Nat, NEW r \in 0 .. n
  PROVE  /\ PowerOf2(n - r) \in Nat \ {0}
         /\ r < n => /\ PowerOf2(n - r - 1) \in Nat \ {0}
                     /\ PowerOf2(n - r) = 2 * PowerOf2(n - r - 1)
         /\ PowerOf2(n - r) = 1 => r = n
<1>1. PowerOf2(n - r) \in Nat \ {0}
  <2>1. n - r \in Nat
    OBVIOUS
  <2> QED BY <2>1, PowerStep
<1>2. ASSUME r < n
      PROVE  PowerOf2(n - r - 1) \in Nat \ {0} /\ PowerOf2(n - r) = 2 * PowerOf2(n - r - 1)
  <2>1. n - r - 1 \in Nat /\ (n - r - 1) + 1 = n - r
    BY <1>2
  <2> QED BY <2>1, PowerStep
<1>3. ASSUME PowerOf2(n - r) = 1 PROVE r = n
  <2>1. ~ (r < n)
    BY <1>2, <1>3, SMT
  <2> QED BY <2>1
<1> QED BY <1>1, <1>2, <1>3

-----------------------------------------------------------------------------
(* Vectors and their products *)

(* A vector padded with zeros, or cut off, to n elements *)
Padded(v, n) == [i \in 0 .. n - 1 |-> IF i \in DOMAIN v THEN v[i] ELSE 0]

(* The product of the first n elements *)
Dot(f, g, n) == SumFunction([i \in 0 .. n - 1 |-> f[i] * g[i]])

(* The number of elements, numbered from 0 *)
LEMMA SizeIs ==
  ASSUME NEW n \in Nat, NEW v, DOMAIN v = 0 .. n - 1
  PROVE  Size(v) = n
<1>1. Cardinality(0 .. n - 1) = IF 0 > n - 1 THEN 0 ELSE (n - 1) - 0 + 1
  <2>1. 0 \in Int /\ n - 1 \in Int
    OBVIOUS
  <2> QED BY <2>1, FS_Interval
<1> QED BY <1>1 DEF Size

(* The indices below n are finite *)
LEMMA IndicesFinite ==
  ASSUME NEW n \in Nat, NEW k \in Nat
  PROVE  IsFiniteSet(k .. n - 1)
<1>1. k \in Int /\ n - 1 \in Int
  OBVIOUS
<1> QED BY <1>1, FS_Interval

(* Padded vectors are vectors *)
LEMMA PaddedType ==
  ASSUME NEW a \in Nat, NEW v \in [0 .. a - 1 -> Int], NEW n \in Nat
  PROVE  /\ Padded(v, n) \in [0 .. n - 1 -> Int]
         /\ \A i \in 0 .. n - 1 : Padded(v, n)[i] = IF i < a THEN v[i] ELSE 0
         /\ \A i \in 0 .. n - 1 : ~ (i < a) => Padded(v, n)[i] = 0
         /\ a = n => Padded(v, n) = v
<1>1. \A i \in 0 .. n - 1 : Padded(v, n)[i] = IF i < a THEN v[i] ELSE 0
  BY DEF Padded
<1>2. \A i \in 0 .. n - 1 : i < a => i \in 0 .. a - 1
  OBVIOUS
<1>3. Padded(v, n) \in [0 .. n - 1 -> Int]
  BY <1>2 DEF Padded
<1>4. a = n => Padded(v, n) = v
  BY DEF Padded
<1> QED BY <1>1, <1>3, <1>4

(* A product of numbers is a number *)
LEMMA DotType ==
  ASSUME NEW n \in Nat, NEW f \in [0 .. n - 1 -> Int], NEW g \in [0 .. n - 1 -> Int]
  PROVE  /\ Dot(f, g, n) \in Int
         /\ [i \in 0 .. n - 1 |-> f[i] * g[i]] \in [0 .. n - 1 -> Int]
<1>1. [i \in 0 .. n - 1 |-> f[i] * g[i]] \in [0 .. n - 1 -> Int]
  <2>1. \A i \in 0 .. n - 1 : f[i] * g[i] \in Int
    <3> TAKE i \in 0 .. n - 1
    <3>1. f[i] \in Int /\ g[i] \in Int
      OBVIOUS
    <3> QED BY <3>1
  <2> QED BY <2>1
<1>2. IsFiniteSet(0 .. n - 1)
  BY IndicesFinite
<1> QED BY <1>1, <1>2, SumType DEF Dot, SumFunction

(* A vector with one entry that is not zero, at most *)
OnlyAt(g, j, n) == \A i \in 0 .. n - 1 : i # j => g[i] = 0

(* The product with it *)
LEMMA DotOfOne ==
  ASSUME NEW n \in Nat, NEW f \in [0 .. n - 1 -> Int], NEW g \in [0 .. n - 1 -> Int],
         NEW j \in 0 .. n - 1, OnlyAt(g, j, n)
  PROVE  Dot(f, g, n) = f[j] * g[j]
<1>0. PICK D : D = 0 .. n - 1
  OBVIOUS
<1> DEFINE h == [i \in D |-> f[i] * g[i]]
<1>1. h \in [D -> Int] /\ j \in D
  BY <1>0, DotType
<1>2. IsFiniteSet(D)
  BY <1>0, IndicesFinite
<1>3. \A i \in D : i # j => h[i] = 0
  <2> TAKE i \in D
  <2> HAVE i # j
  <2>1. h[i] = f[i] * g[i] /\ g[i] = 0 /\ f[i] \in Int
    BY <1>0 DEF OnlyAt
  <2> QED BY <2>1
<1>4. h[j] = f[j] * g[j]
  BY <1>1
<1>5. SumFunction(h) = h[j]
  <2> HIDE DEF h
  <2> QED BY ONLY <1>1, <1>2, <1>3, SumOfOneElement
<1> QED BY <1>0, <1>4, <1>5 DEF Dot, h

(* h is t where t is defined, and 0 elsewhere *)
IsPart(t, L, h, D) == (\A i \in L : h[i] = t[i]) /\ \A i \in D \ L : h[i] = 0

(* Terms that are 0 do not count. *)
LEMMA SumOfPart ==
  ASSUME NEW D, IsFiniteSet(D), NEW L \in SUBSET D, NEW h \in [D -> Int], NEW t \in [L -> Int],
         IsPart(t, L, h, D)
  PROVE  SumFunction(t) = SumFunction(h)
<1> DEFINE U == D \ L
           z == [i \in U |-> 0]
<1>1. IsFiniteSet(L) /\ IsFiniteSet(U) /\ U \in SUBSET D /\ L \cap U = {} /\ L \cup U = D
  BY FS_Subset
<1>2. z \in [U -> Int] /\ SumFunction(z) = SumFunctionOnSet(z, U) /\ SumFunction(z) = 0
  <2>1. z \in [U -> Int] /\ \A i \in U : z[i] = 0
    OBVIOUS
  <2> HIDE DEF U, z
  <2> QED BY <1>1, <2>1, SumOfZeros DEF SumFunction
<1>3. SumFunctionOnSet(h, L \cup U) = SumFunctionOnSet(h, L) + SumFunctionOnSet(h, U)
  <2> HIDE DEF U, z
  <2> QED BY <1>1, SumUnion
<1>4. SumFunctionOnSet(h, L) = SumFunctionOnSet(t, L)
  BY <1>1, SumSame DEF IsPart
<1>5. SumFunctionOnSet(h, U) = SumFunctionOnSet(z, U)
  <2>1. (\A i \in U : h[i] = z[i]) /\ U \subseteq U /\ U \subseteq D
    BY DEF IsPart
  <2>2. h \in [D -> Int] /\ z \in [U -> Int] /\ IsFiniteSet(U)
    BY <1>1, <1>2
  <2> HIDE DEF U, z
  <2> QED BY ONLY <2>1, <2>2, SumSame
<1>6. SumFunctionOnSet(t, L) \in Int
  BY <1>1, SumType
<1>7. SumFunction(t) = SumFunctionOnSet(t, L) /\ SumFunction(h) = SumFunctionOnSet(h, D)
  BY DEF SumFunction
<1>8. SumFunctionOnSet(h, D) = SumFunctionOnSet(h, L \cup U)
  BY <1>1, Zenon
<1>9. SumFunctionOnSet(h, U) = 0 /\ SumFunctionOnSet(h, L) = SumFunction(t)
  BY <1>2, <1>4, <1>5, <1>7, Zenon
<1>10. SumFunction(h) = SumFunctionOnSet(h, L) + SumFunctionOnSet(h, U)
  BY <1>3, <1>7, <1>8, Zenon
<1>11. SumFunctionOnSet(h, L) \in Int
  BY <1>4, <1>6, Zenon
<1> QED BY ONLY <1>9, <1>10, <1>11

(* The scalar product is that of the vectors padded to any length not below the shorter one. *)
LEMMA ScalarProductIs ==
  ASSUME NEW a \in Nat, NEW b \in Nat, NEW u \in [0 .. a - 1 -> Int], NEW v \in [0 .. b - 1 -> Int],
         NEW n \in Nat, n >= a \/ n >= b
  PROVE  ScalarProduct(u, v) = Dot(Padded(u, n), Padded(v, n), n) % Order
<1> DEFINE s == AtMost(a, b)
           t == [i \in 0 .. s - 1 |-> u[i] * v[i]]
           h == [i \in 0 .. n - 1 |-> Padded(u, n)[i] * Padded(v, n)[i]]
<1>1. s \in Nat /\ s <= n /\ s <= a /\ s <= b /\ (s = a \/ s = b)
  BY DEF AtMost
<1>2. Padded(u, n) \in [0 .. n - 1 -> Int] /\ Padded(v, n) \in [0 .. n - 1 -> Int]
  BY PaddedType
<1>3. h \in [0 .. n - 1 -> Int]
  BY <1>2, DotType
<1>4. t \in [0 .. s - 1 -> Int]
  <2>1. \A i \in 0 .. s - 1 : u[i] * v[i] \in Int
    <3> TAKE i \in 0 .. s - 1
    <3>1. i \in 0 .. a - 1 /\ i \in 0 .. b - 1
      BY <1>1
    <3>2. u[i] \in Int /\ v[i] \in Int
      BY <3>1
    <3> QED BY <3>2
  <2> QED BY <2>1
<1>5. \A i \in 0 .. s - 1 : h[i] = t[i]
  <2> TAKE i \in 0 .. s - 1
  <2>1. i \in 0 .. n - 1 /\ i \in 0 .. a - 1 /\ i \in 0 .. b - 1
    BY <1>1
  <2>2. Padded(u, n)[i] = u[i] /\ Padded(v, n)[i] = v[i]
    BY <2>1 DEF Padded
  <2> QED BY <2>1, <2>2
<1>6. \A i \in (0 .. n - 1) \ (0 .. s - 1) : h[i] = 0
  <2> TAKE i \in (0 .. n - 1) \ (0 .. s - 1)
  <2>1. i \in 0 .. n - 1 /\ ((~ (i < a)) \/ ~ (i < b))
    BY <1>1
  <2>2. (~ (i < a) => Padded(u, n)[i] = 0) /\ (~ (i < b) => Padded(v, n)[i] = 0)
    <3>1. (i \in 0 .. a - 1 => i < a) /\ (i \in 0 .. b - 1 => i < b)
      BY <1>1
    <3> QED BY <2>1, <3>1 DEF Padded
  <2>3. Padded(u, n)[i] \in Int /\ Padded(v, n)[i] \in Int
    BY <1>2, <2>1
  <2>4. Padded(u, n)[i] * Padded(v, n)[i] = 0
    BY <2>1, <2>2, <2>3
  <2> QED BY <2>1, <2>4
<1>7. IsFiniteSet(0 .. n - 1) /\ 0 .. s - 1 \in SUBSET (0 .. n - 1)
  <2>1. 0 \in Nat
    OBVIOUS
  <2> QED BY <1>1, <2>1, IndicesFinite
<1>8. SumFunction(t) = SumFunction(h)
  <2> DEFINE D == 0 .. n - 1
             L == 0 .. s - 1
  <2>1. /\ h \in [D -> Int] /\ t \in [L -> Int] /\ IsFiniteSet(D) /\ L \in SUBSET D
        /\ IsPart(t, L, h, D)
    BY <1>3, <1>4, <1>5, <1>6, <1>7 DEF IsPart
  <2> HIDE DEF s, t, h, D, L
  <2> QED BY <2>1, SumOfPart, SMTT(30)
<1>9. ScalarProduct(u, v) = SumFunction(t) % Order
  <2>1. Size(u) = a /\ Size(v) = b
    BY SizeIs
  <2> QED BY <2>1 DEF ScalarProduct, Vector, s, t
<1> QED BY <1>8, <1>9 DEF Dot

(* The halves of a vector *)
Lower(f, m) == [i \in 0 .. m - 1 |-> f[i]]
Upper(f, m) == [i \in 0 .. m - 1 |-> f[m + i]]

(* Halves of a vector of numbers are vectors of numbers. *)
LEMMA HalvesType ==
  ASSUME NEW m \in Nat, NEW S, NEW f \in [0 .. 2 * m - 1 -> S]
  PROVE  Lower(f, m) \in [0 .. m - 1 -> S] /\ Upper(f, m) \in [0 .. m - 1 -> S]
<1>1. \A i \in 0 .. m - 1 : i \in 0 .. 2 * m - 1 /\ m + i \in 0 .. 2 * m - 1
  OBVIOUS
<1> QED BY <1>1 DEF Lower, Upper

(* A product is the sum of the products of the halves. *)
LEMMA DotOfHalves ==
  ASSUME NEW m \in Nat, NEW f \in [0 .. 2 * m - 1 -> Int], NEW g \in [0 .. 2 * m - 1 -> Int]
  PROVE  Dot(f, g, 2 * m) = Dot(Lower(f, m), Lower(g, m), m) + Dot(Upper(f, m), Upper(g, m), m)
<1> DEFINE D == 0 .. 2 * m - 1
           E == 0 .. m - 1
           U == m .. 2 * m - 1
           h == [i \in D |-> f[i] * g[i]]
           lo == [i \in E |-> Lower(f, m)[i] * Lower(g, m)[i]]
           hi == [i \in E |-> Upper(f, m)[i] * Upper(g, m)[i]]
           next == [i \in E |-> m + i]
<1>1. h \in [D -> Int] /\ lo \in [E -> Int] /\ hi \in [E -> Int]
  <2>1. /\ Lower(f, m) \in [E -> Int] /\ Lower(g, m) \in [E -> Int]
        /\ Upper(f, m) \in [E -> Int] /\ Upper(g, m) \in [E -> Int]
    BY HalvesType
  <2>2. 2 * m \in Nat
    OBVIOUS
  <2> QED BY <2>1, <2>2, DotType, SMTT(30)
<1>2. /\ IsFiniteSet(D) /\ IsFiniteSet(E) /\ IsFiniteSet(U)
      /\ E \in SUBSET D /\ U \in SUBSET D /\ E \cap U = {} /\ E \cup U = D
  <2>1. 0 \in Nat /\ 2 * m \in Nat
    OBVIOUS
  <2>2. IsFiniteSet(D) /\ IsFiniteSet(E) /\ IsFiniteSet(U)
    BY <2>1, IndicesFinite
  <2> QED BY <2>2
<1>3. Renamed(hi, h, next, E, D) /\ ImageOf(next, E) = U
  <2>1. next \in [E -> D] /\ \A i, j \in E : next[i] = next[j] => i = j
    OBVIOUS
  <2>2. \A i \in E : hi[i] = h[next[i]]
    BY DEF Upper
  <2>3. ImageOf(next, E) = U
    <3>1. \A i \in E : next[i] \in U
      OBVIOUS
    <3>2. ASSUME NEW j \in U PROVE \E i \in E : j = next[i]
      <4>1. j - m \in E /\ next[j - m] = j
        OBVIOUS
      <4> QED BY <4>1
    <3> HIDE DEF next, E, U
    <3> QED BY <3>1, <3>2 DEF ImageOf
  <2> HIDE DEF next, E, U, D, h, hi
  <2> QED BY <2>1, <2>2, <2>3 DEF Renamed
<1>4. \A i \in E : h[i] = lo[i]
  <2>1. \A i \in E : Lower(f, m)[i] = f[i] /\ Lower(g, m)[i] = g[i]
    BY DEF Lower
  <2> QED BY <1>2, <2>1
<1>5. DOMAIN h = D /\ DOMAIN lo = E /\ DOMAIN hi = E
  OBVIOUS
<1>6. Dot(f, g, 2 * m) = SumFunction(h)
  BY DEF Dot
<1>7. /\ Dot(Lower(f, m), Lower(g, m), m) = SumFunction(lo)
      /\ Dot(Upper(f, m), Upper(g, m), m) = SumFunction(hi)
  BY DEF Dot
<1> HIDE DEF D, E, U, h, lo, hi, next
<1>8. SumFunctionOnSet(h, E \cup U) = SumFunctionOnSet(h, E) + SumFunctionOnSet(h, U)
  <2>1. /\ h \in [D -> Int] /\ E \in SUBSET D /\ U \in SUBSET D
        /\ IsFiniteSet(E) /\ IsFiniteSet(U) /\ E \cap U = {}
    BY <1>1, <1>2
  <2> QED BY ONLY <2>1, SumUnion
<1>9. SumFunctionOnSet(h, E) = SumFunctionOnSet(lo, E)
  <2>1. /\ h \in [D -> Int] /\ lo \in [E -> Int] /\ E \subseteq D /\ E \subseteq E
        /\ IsFiniteSet(E)
    BY <1>1, <1>2
  <2> QED BY ONLY <1>4, <2>1, SumSame
<1>10. SumFunctionOnSet(hi, E) = SumFunctionOnSet(h, U)
  <2>1. h \in [D -> Int] /\ hi \in [E -> Int] /\ IsFiniteSet(E) /\ E \in SUBSET E
    BY <1>1, <1>2
  <2>2. Renamed(hi, h, next, E, D)
    BY <1>3
  <2>3. SumFunctionOnSet(hi, E) = SumFunctionOnSet(h, ImageOf(next, E))
    BY ONLY <2>1, <2>2, SumReindex
  <2> QED BY <1>3, <2>3
<1>11. SumFunction(h) = SumFunction(lo) + SumFunction(hi)
  BY <1>2, <1>5, <1>8, <1>9, <1>10, Zenon DEF SumFunction
<1> QED BY <1>6, <1>7, <1>11

-----------------------------------------------------------------------------
(* What a fold does to products *)

(* h is the sum of p, q, and the weighted r and s. *)
FourTerms(h, p, q, r, s, x, y, D, m) ==
  \A i \in D : Congruent(h[i], (p[i] + q[i]) + (r[i] * x + s[i] * y), m)

(* So are the sums. *)
LEMMA SumOfFour ==
  ASSUME NEW m \in Nat \ {0}, NEW D, IsFiniteSet(D), NEW p \in [D -> Int], NEW q \in [D -> Int],
         NEW r \in [D -> Int], NEW s \in [D -> Int], NEW h \in [D -> Int],
         NEW x \in Int, NEW y \in Int, FourTerms(h, p, q, r, s, x, y, D, m)
  PROVE  Congruent(SumFunction(h),
                   (SumFunction(p) + SumFunction(q)) + (SumFunction(r) * x + SumFunction(s) * y), m)
<1> DEFINE e == [i \in D |-> p[i] * 1 + q[i]]
           g == [i \in D |-> s[i] * y + e[i]]
<1>1. e \in [D -> Int] /\ g \in [D -> Int]
  <2>1. \A i \in D : p[i] \in Int /\ q[i] \in Int /\ s[i] \in Int
    OBVIOUS
  <2>2. \A i \in D : s[i] * y \in Int
    BY <2>1
  <2> QED BY <2>1, <2>2
<1>2. LinearIn(e, p, q, 1, D, m)
  <2>1. \A i \in D : e[i] \in Int /\ e[i] = p[i] * 1 + q[i]
    BY <1>1
  <2> HIDE DEF e
  <2>2. \A i \in D : Congruent(e[i], e[i], m)
    BY <2>1, CongruentRemainder
  <2> QED BY <2>1, <2>2 DEF LinearIn
<1>3. LinearIn(g, s, e, y, D, m)
  <2>1. \A i \in D : g[i] \in Int /\ g[i] = s[i] * y + e[i]
    BY <1>1
  <2> HIDE DEF g, e
  <2>2. \A i \in D : Congruent(g[i], g[i], m)
    BY <2>1, CongruentRemainder
  <2> QED BY <2>1, <2>2 DEF LinearIn
<1>4. LinearIn(h, r, g, x, D, m)
  <2>1. ASSUME NEW i \in D PROVE r[i] * x + g[i] = (p[i] + q[i]) + (r[i] * x + s[i] * y)
    <3>1. p[i] \in Int /\ q[i] \in Int /\ r[i] \in Int /\ s[i] \in Int
      OBVIOUS
    <3>2. r[i] * x \in Int /\ s[i] * y \in Int
      BY <3>1
    <3>3. g[i] = s[i] * y + (p[i] * 1 + q[i])
      OBVIOUS
    <3> HIDE DEF g
    <3> QED BY <3>1, <3>2, <3>3
  <2> HIDE DEF g
  <2> QED BY <2>1 DEF FourTerms, LinearIn
<1> HIDE DEF e, g
<1>5. PICK a, b, c, d, se, sg, sh :
        /\ a = SumFunction(p) /\ b = SumFunction(q) /\ c = SumFunction(r) /\ d = SumFunction(s)
        /\ se = SumFunction(e) /\ sg = SumFunction(g) /\ sh = SumFunction(h)
  OBVIOUS
<1>6. a \in Int /\ b \in Int /\ c \in Int /\ d \in Int /\ se \in Int /\ sg \in Int /\ sh \in Int
  BY <1>1, <1>5, SumType DEF SumFunction
<1>7. Congruent(se, a * 1 + b, m)
  <2>1. 1 \in Int
    OBVIOUS
  <2> QED BY <1>1, <1>2, <1>5, <2>1, SumLinear
<1>8. Congruent(sg, d * y + se, m)
  BY <1>1, <1>3, <1>5, SumLinear
<1>9. Congruent(sh, c * x + sg, m)
  BY <1>1, <1>4, <1>5, SumLinear
<1>10. d * y \in Int /\ c * x \in Int
  BY <1>6
<1>11. PICK i, j, k \in Int : se = a * 1 + b + i * m /\ sg = d * y + se + j * m /\ sh = c * x + sg + k * m
  BY <1>7, <1>8, <1>9 DEF Congruent
<1>12. sh = (a + b) + (c * x + d * y) + (i + j + k) * m
  <2>1. (i + j + k) * m = i * m + j * m + k * m
    BY <1>11, SMT
  <2>2. i * m \in Int /\ j * m \in Int /\ k * m \in Int
    BY <1>11
  <2> QED BY <1>6, <1>10, <1>11, <2>1, <2>2
<1>13. Congruent(sh, (a + b) + (c * x + d * y), m)
  <2> DEFINE n == i + j + k
             t == (a + b) + (c * x + d * y)
  <2>1. n \in Int /\ sh = t + n * m
    BY <1>11, <1>12
  <2> HIDE DEF n, t
  <2>2. Congruent(sh, t, m)
    BY <2>1 DEF Congruent
  <2> QED BY <2>2 DEF t
<1> QED BY <1>5, <1>13

(* The product of two folded elements *)
LEMMA FoldedTerm ==
  ASSUME NEW m \in Nat \ {0}, NEW x \in Int, NEW y \in Int, Congruent(x * y, 1, m),
         NEW a \in Int, NEW b \in Int, NEW c \in Int, NEW d \in Int, NEW e \in Int, NEW f \in Int,
         Congruent(e, x * a + y * b, m), Congruent(f, y * c + x * d, m)
  PROVE  Congruent(e * f, (a * c + b * d) + ((a * d) * (x * x) + (b * c) * (y * y)), m)
<1> DEFINE t == x * a + y * b
           u == y * c + x * d
           w == (a * c + b * d) + ((a * d) * (x * x) + (b * c) * (y * y))
<1>1. PICK k \in Int : x * y = 1 + k * m
  BY DEF Congruent
<1>2. t * u = w + ((a * c + b * d) * k) * m
  <2>1. t * u = (a * c + b * d) * (x * y) + ((a * d) * (x * x) + (b * c) * (y * y))
    BY SMT
  <2>2. (a * c + b * d) * (1 + k * m) = (a * c + b * d) + ((a * c + b * d) * k) * m
    BY <1>1, SMT
  <2>3. a * c + b * d \in Int /\ (a * d) * (x * x) + (b * c) * (y * y) \in Int
        /\ ((a * c + b * d) * k) * m \in Int
    BY <1>1, SMT
  <2> QED BY <1>1, <2>1, <2>2, <2>3
<1>3. t \in Int /\ u \in Int /\ w \in Int /\ (a * c + b * d) * k \in Int
  BY <1>1, SMT
<1> HIDE DEF t, u, w
<1>4. Congruent(t * u, w, m)
  BY <1>2, <1>3 DEF Congruent
<1>5. Congruent(e * f, t * u, m)
  BY <1>3, CongruentProduct DEF t, u
<1>6. e * f \in Int /\ t * u \in Int
  BY <1>3
<1>7. Congruent(e * f, w, m)
  BY <1>3, <1>4, <1>5, <1>6, CongruentEquivalence
<1> QED BY <1>7 DEF w

(* f is x times the lower half of g and y times the upper one. *)
Folded(f, g, x, y, m) ==
  \A i \in 0 .. m - 1 : Congruent(f[i], x * Lower(g, m)[i] + y * Upper(g, m)[i], Order)

(***************************************************************************)
(* When two vectors are folded with inverse scalars, their product is what *)
(* it was, plus the weighted cross terms of the halves.                    *)
(***************************************************************************)
LEMMA DotOfFolded ==
  ASSUME Order \in Nat \ {0}, NEW m \in Nat, NEW x \in Int, NEW y \in Int, Congruent(x * y, 1, Order),
         NEW a \in [0 .. 2 * m - 1 -> Int], NEW w \in [0 .. 2 * m - 1 -> Int],
         NEW e \in [0 .. m - 1 -> Int], NEW f \in [0 .. m - 1 -> Int],
         Folded(e, a, x, y, m), Folded(f, w, y, x, m)
  PROVE  Congruent(Dot(e, f, m),
                   Dot(a, w, 2 * m) + (Dot(Lower(a, m), Upper(w, m), m) * (x * x)
                                       + Dot(Upper(a, m), Lower(w, m), m) * (y * y)), Order)
<1> DEFINE D == 0 .. m - 1
           al == Lower(a, m)
           ah == Upper(a, m)
           wl == Lower(w, m)
           wh == Upper(w, m)
           term(u, v) == [i \in D |-> u[i] * v[i]]
           p == term(al, wl)
           q == term(ah, wh)
           r == term(al, wh)
           s == term(ah, wl)
           h == term(e, f)
<1>1. al \in [D -> Int] /\ ah \in [D -> Int] /\ wl \in [D -> Int] /\ wh \in [D -> Int]
  BY HalvesType
<1>2. IsFiniteSet(D)
  <2>1. 0 \in Nat
    OBVIOUS
  <2> QED BY <2>1, IndicesFinite
<1>3. \A u, v \in [D -> Int] : term(u, v) \in [D -> Int] /\ Dot(u, v, m) = SumFunction(term(u, v))
  <2> TAKE u, v \in [D -> Int]
  <2>1. term(u, v) \in [D -> Int]
    BY DotType
  <2>2. Dot(u, v, m) = SumFunction(term(u, v))
    BY DEF Dot
  <2> QED BY <2>1, <2>2
<1>4. \A u, v \in [D -> Int], i \in D : term(u, v)[i] = u[i] * v[i]
  OBVIOUS
<1>5. e \in [D -> Int] /\ f \in [D -> Int]
  OBVIOUS
<1>6. \A i \in D : /\ Congruent(e[i], x * al[i] + y * ah[i], Order)
                   /\ Congruent(f[i], y * wl[i] + x * wh[i], Order)
  BY DEF Folded
<1>7. Dot(a, w, 2 * m) = Dot(al, wl, m) + Dot(ah, wh, m)
  BY DotOfHalves
<1> HIDE DEF al, ah, wl, wh, D, term
<1>8. FourTerms(h, p, q, r, s, x * x, y * y, D, Order)
  <2> SUFFICES ASSUME NEW i \in D
               PROVE  Congruent(h[i], (p[i] + q[i]) + (r[i] * (x * x) + s[i] * (y * y)), Order)
    BY DEF FourTerms
  <2>1. /\ al[i] \in Int /\ ah[i] \in Int /\ wl[i] \in Int /\ wh[i] \in Int
        /\ e[i] \in Int /\ f[i] \in Int
    BY <1>1, <1>5
  <2>2. Congruent(e[i], x * al[i] + y * ah[i], Order) /\ Congruent(f[i], y * wl[i] + x * wh[i], Order)
    BY <1>6
  <2>3. Congruent(e[i] * f[i], (al[i] * wl[i] + ah[i] * wh[i])
                               + ((al[i] * wh[i]) * (x * x) + (ah[i] * wl[i]) * (y * y)), Order)
    BY <2>1, <2>2, FoldedTerm
  <2>4. /\ h[i] = e[i] * f[i] /\ p[i] = al[i] * wl[i] /\ q[i] = ah[i] * wh[i]
        /\ r[i] = al[i] * wh[i] /\ s[i] = ah[i] * wl[i]
    BY <1>1, <1>4, <1>5
  <2> QED BY <2>3, <2>4
<1>9. /\ p \in [D -> Int] /\ q \in [D -> Int] /\ r \in [D -> Int] /\ s \in [D -> Int]
      /\ h \in [D -> Int] /\ x * x \in Int /\ y * y \in Int
  <2>1. p \in [D -> Int] /\ q \in [D -> Int] /\ r \in [D -> Int] /\ s \in [D -> Int]
    BY <1>1, <1>3
  <2>2. h \in [D -> Int]
    BY <1>3, <1>5
  <2>3. x * x \in Int /\ y * y \in Int
    OBVIOUS
  <2> HIDE DEF p, q, r, s, h
  <2> QED BY <2>1, <2>2, <2>3
<1>10. /\ Dot(al, wl, m) = SumFunction(p) /\ Dot(ah, wh, m) = SumFunction(q)
       /\ Dot(al, wh, m) = SumFunction(r) /\ Dot(ah, wl, m) = SumFunction(s)
       /\ Dot(e, f, m) = SumFunction(h)
  BY <1>1, <1>3, <1>5
<1> HIDE DEF p, q, r, s, h
<1>11. Congruent(SumFunction(h), (SumFunction(p) + SumFunction(q))
                                 + (SumFunction(r) * (x * x) + SumFunction(s) * (y * y)), Order)
  BY <1>2, <1>8, <1>9, SumOfFour
<1> QED BY <1>7, <1>10, <1>11 DEF al, ah, wl, wh

(* An exponent that is the square times another one, at a folded element *)
LEMMA SquareTerm ==
  ASSUME NEW m \in Nat \ {0}, NEW x \in Int, NEW y \in Int, Congruent(x * y, 1, m),
         NEW a \in Int, NEW b \in Int, NEW c \in Int, NEW d \in Int, NEW f \in Int,
         Congruent(b, (x * x) * a, m), Congruent(f, y * c + x * d, m)
  PROVE  Congruent(a * f, (0 + 0) + ((a * c) * y + (b * d) * y), m)
<1> DEFINE t == a * (y * c + x * d)
           u == (0 + 0) + ((a * c) * y + (b * d) * y)
<1>1. PICK i, k \in Int : x * y = 1 + i * m /\ b = (x * x) * a + k * m
  BY DEF Congruent
<1>2. u = t + (i * (a * (x * d)) + k * (d * y)) * m
  <2>1. (b * d) * y = ((x * x) * a + k * m) * (d * y)
    BY <1>1, SMT
  <2>2. ((x * x) * a + k * m) * (d * y) = (x * y) * (a * (x * d)) + (k * (d * y)) * m
    BY <1>1, SMT
  <2>3. (1 + i * m) * (a * (x * d)) = a * (x * d) + (i * (a * (x * d))) * m
    BY <1>1, SMT
  <2>4. a * (y * c + x * d) = (a * c) * y + a * (x * d)
    BY SMT
  <2>5. (i * (a * (x * d)) + k * (d * y)) * m = (i * (a * (x * d))) * m + (k * (d * y)) * m
    BY <1>1, SMT
  <2>6. /\ (a * c) * y \in Int /\ a * (x * d) \in Int /\ (i * (a * (x * d))) * m \in Int
        /\ (k * (d * y)) * m \in Int
    BY <1>1, SMT
  <2> QED BY <1>1, <2>1, <2>2, <2>3, <2>4, <2>5, <2>6
<1>3. t \in Int /\ u \in Int /\ i * (a * (x * d)) + k * (d * y) \in Int /\ y * c + x * d \in Int
  BY <1>1, SMT
<1>4. Congruent(a * f, t, m)
  <2> DEFINE v == y * c + x * d
  <2>1. v \in Int /\ Congruent(f, v, m)
    BY <1>3
  <2> HIDE DEF v
  <2>2. Congruent(a * f, a * v, m)
    BY <2>1, CongruentProduct, CongruentRemainder
  <2> QED BY <2>2 DEF v
<1> DEFINE j == i * (a * (x * d)) + k * (d * y)
<1>5. j \in Int /\ u = t + j * m
  BY <1>2, <1>3
<1> HIDE DEF t, u, j
<1>6. Congruent(u, t, m)
  BY <1>3, <1>5 DEF Congruent
<1>7. a * f \in Int
  OBVIOUS
<1>8. Congruent(t, u, m)
  BY <1>3, <1>6, CongruentEquivalence
<1>9. Congruent(a * f, u, m)
  BY <1>3, <1>4, <1>7, <1>8, CongruentEquivalence
<1> QED BY <1>9 DEF u

(* The upper half of f is the square of x times the lower one. *)
Squared(f, x, m) == \A i \in 0 .. m - 1 : Congruent(Upper(f, m)[i], (x * x) * Lower(f, m)[i], Order)

(***************************************************************************)
(* The product of such a vector with a folded one is that with the whole   *)
(* one, times the inverse.                                                 *)
(***************************************************************************)
LEMMA DotOfSquared ==
  ASSUME Order \in Nat \ {0}, NEW m \in Nat, NEW x \in Int, NEW y \in Int, Congruent(x * y, 1, Order),
         NEW a \in [0 .. 2 * m - 1 -> Int], NEW w \in [0 .. 2 * m - 1 -> Int],
         NEW f \in [0 .. m - 1 -> Int], Squared(a, x, m), Folded(f, w, y, x, m)
  PROVE  Congruent(Dot(Lower(a, m), f, m), Dot(a, w, 2 * m) * y, Order)
<1> DEFINE D == 0 .. m - 1
           al == Lower(a, m)
           ah == Upper(a, m)
           wl == Lower(w, m)
           wh == Upper(w, m)
           term(u, v) == [i \in D |-> u[i] * v[i]]
           z == [i \in D |-> 0]
           r == term(al, wl)
           s == term(ah, wh)
           h == term(al, f)
<1>1. al \in [D -> Int] /\ ah \in [D -> Int] /\ wl \in [D -> Int] /\ wh \in [D -> Int]
  BY HalvesType
<1>2. IsFiniteSet(D)
  <2>1. 0 \in Nat
    OBVIOUS
  <2> QED BY <2>1, IndicesFinite
<1>3. \A u, v \in [D -> Int] : term(u, v) \in [D -> Int] /\ Dot(u, v, m) = SumFunction(term(u, v))
  <2> TAKE u, v \in [D -> Int]
  <2>1. term(u, v) \in [D -> Int]
    BY DotType
  <2>2. Dot(u, v, m) = SumFunction(term(u, v))
    BY DEF Dot
  <2> QED BY <2>1, <2>2
<1>4. \A u, v \in [D -> Int], i \in D : term(u, v)[i] = u[i] * v[i]
  OBVIOUS
<1>5. f \in [D -> Int] /\ z \in [D -> Int] /\ \A i \in D : z[i] = 0
  OBVIOUS
<1>6. \A i \in D : /\ Congruent(ah[i], (x * x) * al[i], Order)
                   /\ Congruent(f[i], y * wl[i] + x * wh[i], Order)
  BY DEF Folded, Squared
<1>7. Dot(a, w, 2 * m) = Dot(al, wl, m) + Dot(ah, wh, m)
  BY DotOfHalves
<1> HIDE DEF al, ah, wl, wh, D, term, z
<1>8. FourTerms(h, z, z, r, s, y, y, D, Order)
  <2> SUFFICES ASSUME NEW i \in D
               PROVE  Congruent(h[i], (z[i] + z[i]) + (r[i] * y + s[i] * y), Order)
    BY DEF FourTerms
  <2>1. al[i] \in Int /\ ah[i] \in Int /\ wl[i] \in Int /\ wh[i] \in Int /\ f[i] \in Int
    BY <1>1, <1>5
  <2>2. Congruent(ah[i], (x * x) * al[i], Order) /\ Congruent(f[i], y * wl[i] + x * wh[i], Order)
    BY <1>6
  <2>3. Congruent(al[i] * f[i], (0 + 0) + ((al[i] * wl[i]) * y + (ah[i] * wh[i]) * y), Order)
    BY <2>1, <2>2, SquareTerm
  <2>4. h[i] = al[i] * f[i] /\ z[i] = 0 /\ r[i] = al[i] * wl[i] /\ s[i] = ah[i] * wh[i]
    BY <1>1, <1>4, <1>5
  <2> QED BY <2>3, <2>4
<1>9. r \in [D -> Int] /\ s \in [D -> Int] /\ h \in [D -> Int]
  BY <1>1, <1>3, <1>5
<1>10. /\ Dot(al, wl, m) = SumFunction(r) /\ Dot(ah, wh, m) = SumFunction(s)
       /\ Dot(al, f, m) = SumFunction(h)
  BY <1>1, <1>3, <1>5
<1>11. SumFunction(z) = 0
  BY <1>2, <1>5, SumOfZeros
<1> HIDE DEF r, s, h
<1>12. Congruent(SumFunction(h), (SumFunction(z) + SumFunction(z))
                                 + (SumFunction(r) * y + SumFunction(s) * y), Order)
  BY <1>2, <1>5, <1>8, <1>9, SumOfFour
<1>13. (0 + 0) + (SumFunction(r) * y + SumFunction(s) * y) = (SumFunction(r) + SumFunction(s)) * y
  <2>1. SumFunction(r) \in Int /\ SumFunction(s) \in Int
    BY <1>2, <1>9, SumType DEF SumFunction
  <2> QED BY <2>1, SMT
<1> QED BY <1>7, <1>10, <1>11, <1>12, <1>13 DEF al, ah, wl, wh

-----------------------------------------------------------------------------
(* Folding the scalars *)

(* Inverse scalars, as congruences *)
LEMMA InverseCongruent ==
  ASSUME InnerProductAssumption, NEW x \in Scalars \ {0}
  PROVE  /\ InverseOf(x) \in Scalars /\ InverseOf(x) \in Int /\ x \in Int
         /\ Congruent(x * InverseOf(x), 1, Order) /\ Congruent(InverseOf(x) * x, 1, Order)
<1> DEFINE y == InverseOf(x)
<1>1. y \in Scalars /\ ((x * y) % Order) = 1
  BY InverseIs
<1>2. Order \in Nat \ {0} /\ Order > 1 /\ x \in Int /\ y \in Int
  BY <1>1, OrderIs
<1> HIDE DEF y
<1> DEFINE t == x * y
<1>3. t \in Int /\ (t % Order) = 1
  BY <1>1, <1>2
<1>4. y * x = t
  BY <1>2
<1> HIDE DEF t
<1>5. (1 % Order) = 1
  BY <1>2, ModSmall
<1>6. Congruent(t, 1, Order)
  <2>1. 1 \in Int
    OBVIOUS
  <2> QED BY <1>2, <1>3, <1>5, <2>1, CongruentMod
<1> QED BY <1>1, <1>2, <1>4, <1>6 DEF t, y

(* A remainder is a scalar, and congruent to what it is of. *)
LEMMA ReducedIs ==
  ASSUME InnerProductAssumption, NEW a \in Int
  PROVE  (a % Order) \in Scalars /\ (a % Order) \in Int /\ Congruent(a % Order, a, Order)
<1>1. Order \in Nat \ {0}
  BY OrderIs
<1>2. (a % Order) \in 0 .. Order - 1
  BY <1>1, ModRange
<1>3. (a % Order) \in Scalars /\ (a % Order) \in Int
  BY <1>2 DEF Scalars
<1> QED BY <1>1, <1>3, CongruentRemainder

(* The elements without a pair are folded with a 0. *)
LEMMA FoldScalarsIs ==
  ASSUME InnerProductAssumption, NEW low \in Int, NEW high \in Int, NEW m \in Nat,
         NEW s \in m .. 2 * m, NEW v \in [0 .. s - 1 -> Int]
  PROVE  /\ FoldScalars(v, low, high, m) \in [0 .. m - 1 -> Scalars]
         /\ Folded(FoldScalars(v, low, high, m), Padded(v, 2 * m), low, high, m)
<1> DEFINE f == FoldScalars(v, low, high, m)
           p == Padded(v, 2 * m)
<1>1. s \in Nat /\ 2 * m \in Nat /\ s \in Int /\ m <= s /\ s <= 2 * m
  OBVIOUS
<1>2. Size(v) = s
  BY <1>1, SizeIs
<1>3. \A i \in 0 .. m - 1 : f[i] = IF i < s - m THEN (low * v[i] + high * v[m + i]) % Order
                                   ELSE (low * v[i]) % Order
  BY <1>2 DEF FoldScalars, Vector
<1>4. f = [i \in 0 .. m - 1 |-> f[i]]
  BY DEF FoldScalars, Vector
<1> HIDE DEF f
<1>5. ASSUME NEW i \in 0 .. m - 1
      PROVE  /\ f[i] \in Scalars
             /\ Congruent(f[i], low * Lower(p, m)[i] + high * Upper(p, m)[i], Order)
  <2>1. i \in 0 .. s - 1 /\ i \in 0 .. 2 * m - 1 /\ m + i \in 0 .. 2 * m - 1
    BY <1>1
  <2>2. v[i] \in Int
    BY <2>1
  <2>3. p[i] = v[i]
    BY <2>1 DEF Padded
  <2>4. Lower(p, m)[i] = p[i] /\ Upper(p, m)[i] = p[m + i]
    BY DEF Lower, Upper
  <2>5. CASE i < s - m
    <3>1. m + i \in 0 .. s - 1
      BY <1>1, <2>5
    <3>2. v[m + i] \in Int /\ p[m + i] = v[m + i]
      BY <2>1, <3>1 DEF Padded
    <3> DEFINE t == low * v[i] + high * v[m + i]
    <3>3. t \in Int
      BY <2>2, <3>2
    <3> HIDE DEF p
    <3>4. f[i] = t % Order /\ t = low * Lower(p, m)[i] + high * Upper(p, m)[i]
      BY <1>3, <2>3, <2>4, <2>5, <3>2
    <3> HIDE DEF t
    <3> QED BY <3>3, <3>4, ReducedIs
  <2>6. CASE ~ (i < s - m)
    <3>1. ~ (m + i \in 0 .. s - 1)
      BY <1>1, <2>6
    <3>2. p[m + i] = 0
      BY <2>1, <3>1 DEF Padded
    <3> DEFINE t == low * v[i]
    <3>3. t \in Int /\ t = t + high * 0
      BY <2>2
    <3> HIDE DEF p
    <3>4. f[i] = t % Order
      BY <1>3, <2>6
    <3>5. t + high * 0 = low * Lower(p, m)[i] + high * Upper(p, m)[i]
      BY <2>3, <2>4, <3>2
    <3> HIDE DEF t
    <3> QED BY <3>3, <3>4, <3>5, ReducedIs
  <2> QED BY <2>5, <2>6
<1> HIDE DEF p
<1>6. f \in [0 .. m - 1 -> Scalars]
  BY <1>4, <1>5
<1> QED BY <1>5, <1>6 DEF Folded, f, p

-----------------------------------------------------------------------------
(* Group elements *)

Elements == [Basis -> Scalars]

(* Adding and multiplying elements *)
LEMMA ElementsAre ==
  ASSUME InnerProductAssumption
  PROVE  /\ \A g, h : Plus(g, h) = [k \in Basis |-> (g[k] + h[k]) % Order]
         /\ \A g, h \in Elements :
              /\ Plus(g, h) \in Elements
              /\ \A k \in Basis : /\ g[k] \in Int /\ h[k] \in Int /\ Plus(g, h)[k] \in Int
                                  /\ Congruent(Plus(g, h)[k], g[k] + h[k], Order)
         /\ Identity \in Elements /\ Q \in Elements
<1>1. Order \in Nat \ {0} /\ 0 \in Scalars /\ 1 \in Scalars /\ Scalars \subseteq Int
  BY OrderIs
<1>2. ASSUME NEW g \in Elements, NEW h \in Elements, NEW k \in Basis
      PROVE  /\ g[k] \in Int /\ h[k] \in Int
             /\ ((g[k] + h[k]) % Order) \in Scalars /\ ((g[k] + h[k]) % Order) \in Int
             /\ Congruent((g[k] + h[k]) % Order, g[k] + h[k], Order)
  <2>1. g[k] \in Int /\ h[k] \in Int
    BY <1>1 DEF Elements
  <2> DEFINE t == g[k] + h[k]
  <2>2. t \in Int
    BY <2>1
  <2> HIDE DEF t
  <2>3. (t % Order) \in Scalars /\ (t % Order) \in Int /\ Congruent(t % Order, t, Order)
    BY <2>2, ReducedIs
  <2> QED BY <2>1, <2>3 DEF t
<1>3. \A g, h : Plus(g, h) = [k \in Basis |-> (g[k] + h[k]) % Order]
  BY DEF Plus
<1>4. \A g, h \in Elements : Plus(g, h) \in Elements
  BY <1>2, <1>3 DEF Elements
<1>5. \A g, h \in Elements, k \in Basis : Plus(g, h)[k] = (g[k] + h[k]) % Order
  BY <1>3
<1>6. Identity \in Elements /\ Q \in Elements
  BY <1>1 DEF Identity, Q, Elements
<1> QED BY <1>2, <1>3, <1>4, <1>5, <1>6

(* What a bit of each scalar stands for *)
TermOf(d, gLow, gHigh) == IF d = 1 THEN gLow ELSE IF d = 2 THEN gHigh ELSE Plus(gLow, gHigh)

(* Doubling and adding, from the last bit to the first *)
IsFoldLoop(f, bits, last, gLow, gHigh) ==
  /\ f[last] = TermOf(bits[last], gLow, gHigh)
  /\ \A i \in 0 .. last - 1 :
       f[i] = IF bits[i] = 0 THEN Plus(f[i + 1], f[i + 1])
              ELSE Plus(Plus(f[i + 1], f[i + 1]), TermOf(bits[i], gLow, gHigh))

(* fold_generators goes through such values. *)
LEMMA FoldGeneratorLoop ==
  ASSUME InnerProductAssumption, NEW last \in Nat, NEW bits \in [0 .. last -> 0 .. 3],
         NEW gLow \in Elements, NEW gHigh \in Elements
  PROVE  \E f \in [0 .. last -> Elements] :
           FoldGenerator(bits, gLow, gHigh) = f[0] /\ IsFoldLoop(f, bits, last, gLow, gHigh)
<1> DEFINE term(d) == TermOf(d, gLow, gHigh)
           next(i, v) == IF bits[i] = 0 THEN Plus(v, v) ELSE Plus(Plus(v, v), term(bits[i]))
           step == [k \in 1 .. last |-> [v \in Elements |-> next(last - k, v)]]
<1>1. \A d : term(d) \in Elements
  BY ElementsAre DEF TermOf
<1> HIDE DEF term
<1>2. \A i, v : v \in Elements => next(i, v) \in Elements
  BY <1>1, ElementsAre
<1> HIDE DEF next
<1>3. step \in [1 .. last -> [Elements -> Elements]]
  BY <1>2
<1>4. \A k \in 1 .. last, v \in Elements : step[k][v] = next(last - k, v)
  OBVIOUS
<1> HIDE DEF step
<1>5. PICK r \in [0 .. last -> Elements] : IsLoop(r, last, term(bits[last]), step)
  BY <1>1, <1>3, LoopExists
<1>6. r[0] = term(bits[last]) /\ \A k \in 1 .. last : r[k] = next(last - k, r[k - 1])
  BY <1>4, <1>5 DEF IsLoop
<1> DEFINE Body(t, i) == IF i = last THEN term(bits[i]) ELSE next(i, t[i + 1])
           from == CHOOSE t : t = [i \in 0 .. last |-> Body(t, i)]
           known == [i \in 0 .. last |-> r[last - i]]
<1>7. FoldGenerator(bits, gLow, gHigh) = from[0]
  <2>1. Size(bits) = last + 1 /\ Size(bits) # 0 /\ Size(bits) - 1 = last
    <3>1. DOMAIN bits = 0 .. (last + 1) - 1 /\ last + 1 \in Nat
      OBVIOUS
    <3>2. Size(bits) = last + 1
      BY <3>1, SizeIs
    <3> QED BY <3>2
  <2> QED BY <2>1 DEF FoldGenerator, next, term, TermOf
<1>8. ASSUME NEW i \in 0 .. last PROVE known[i] = Body(known, i)
  <2>1. CASE i = last
    <3>1. last - i = 0
      BY <2>1
    <3> QED BY <1>6, <2>1, <3>1
  <2>2. CASE i # last
    <3>1. /\ last - i \in 1 .. last /\ (last - i) - 1 = last - (i + 1) /\ last - (last - i) = i
          /\ i + 1 \in 0 .. last
      BY <2>2
    <3>2. known[i] = r[last - i] /\ known[i + 1] = r[(last - i) - 1]
      BY <3>1
    <3> QED BY <1>6, <2>2, <3>1, <3>2
  <2> QED BY <2>1, <2>2
<1>9. known = [i \in 0 .. last |-> Body(known, i)]
  <2> HIDE DEF Body
  <2> QED BY <1>8
<1>10. from = [i \in 0 .. last |-> Body(from, i)]
  <2> HIDE DEF known
  <2> QED BY <1>9
<1> HIDE DEF from
<1>11. from[last] = term(bits[last]) /\ \A i \in 0 .. last - 1 : from[i] = next(i, from[i + 1])
  <2>1. last \in 0 .. last /\ \A i \in 0 .. last - 1 : i \in 0 .. last /\ i # last
    OBVIOUS
  <2> QED BY <1>10, <2>1
<1>12. from \in [0 .. last -> Elements]
  <2> DEFINE G == {k \in 0 .. last : from[last - k] \in Elements}
  <2>1. 0 \in G
    BY <1>1, <1>11
  <2>2. ASSUME NEW k \in 1 .. last, k - 1 \in G PROVE k \in G
    <3>1. last - k \in 0 .. last - 1 /\ (last - k) + 1 = last - (k - 1)
      OBVIOUS
    <3>2. from[last - k] = next(last - k, from[(last - k) + 1])
      BY <1>11, <3>1
    <3>3. from[(last - k) + 1] \in Elements
      BY <2>2, <3>1
    <3> QED BY <1>2, <3>2, <3>3
  <2> HIDE DEF G
  <2>3. \A k \in 0 .. last : k \in G
    BY <2>1, <2>2, BoundedInduction
  <2>4. ASSUME NEW i \in 0 .. last PROVE from[i] \in Elements
    <3>1. last - i \in 0 .. last /\ last - (last - i) = i
      OBVIOUS
    <3> QED BY <2>3, <3>1 DEF G
  <2> QED BY <1>10, <2>4
<1>13. IsFoldLoop(from, bits, last, gLow, gHigh)
  BY <1>11 DEF IsFoldLoop, next, term
<1> QED BY <1>7, <1>12, <1>13

(* What is left of a scalar above a bit *)
Above(x, i) == x \div PowerOf2(i)

(* Bit by bit, from what is left above *)
LEMMA BitIs ==
  ASSUME NEW x \in Nat, NEW i \in Nat
  PROVE  /\ BitOf(x, i) \in 0 .. 1
         /\ Above(x, i) \in Nat /\ Above(x, i) = 2 * Above(x, i + 1) + BitOf(x, i)
<1> DEFINE q == PowerOf2(i)
           d == PowerOf2(i + 1)
           h == x \div d
           r == x % d
           c == r \div q
           s == r % q
<1>1. q \in Nat \ {0} /\ d \in Nat \ {0} /\ d = 2 * q
  BY PowerStep
<1> HIDE DEF q, d
<1>2. h \in Int /\ r \in 0 .. d - 1 /\ x = h * d + r
  <2>1. x \in Int
    OBVIOUS
  <2> QED BY ONLY <1>1, <2>1, DivisionRange
<1>3. r \in Int /\ r \in 0 .. 2 * q - 1
  BY <1>1, <1>2
<1> HIDE DEF h, r
<1>4. c \in Int /\ s \in 0 .. q - 1 /\ r = c * q + s
  BY <1>1, <1>3, DivisionRange
<1>5. c \in 0 .. 1
  <2>1. 2 \in Nat /\ 2 - 1 = 1
    OBVIOUS
  <2>2. c \in 0 .. 2 - 1
    BY <1>1, <1>3, <2>1, DivisionBelow
  <2> QED BY <2>1, <2>2
<1> HIDE DEF c, s
<1>6. h >= 0
  <2>1. SUFFICES ASSUME h <= -1 PROVE FALSE
    BY <1>2
  <2>2. h * d <= -1 * d
    BY <1>1, <1>2, <2>1, SMT
  <2>3. h * d \in Int
    BY <1>1, <1>2
  <2> QED BY <1>1, <1>2, <2>2, <2>3
<1>7. x = (2 * h + c) * q + s
  <2>1. h * (2 * q) = (2 * h) * q
    BY <1>1, <1>2, SMT
  <2>2. (2 * h + c) * q = (2 * h) * q + c * q
    BY <1>1, <1>2, <1>5, SMT
  <2>3. (2 * h) * q \in Int /\ c * q \in Int
    BY <1>1, <1>2, <1>5
  <2> QED BY <1>1, <1>2, <1>4, <1>5, <2>1, <2>2, <2>3
<1>8. 2 * h + c \in Int /\ 2 * h + c \in Nat /\ s \in Int
  BY <1>2, <1>4, <1>5, <1>6
<1>9. (x \div q) = 2 * h + c
  <2> DEFINE t == 2 * h + c
  <2>1. t \in Int /\ x = t * q + s
    BY <1>7, <1>8
  <2> HIDE DEF t
  <2>2. (x \div q) = t
    BY <1>1, <1>4, <2>1, DivisionIs
  <2> QED BY <2>2 DEF t
<1>10. ((2 * h + c) % 2) = c
  BY <1>2, <1>5, SMT
<1>11. Above(x, i) = 2 * h + c /\ Above(x, i + 1) = h /\ BitOf(x, i) = c
  BY <1>9, <1>10 DEF Above, BitOf, q, d, h
<1> QED BY <1>5, <1>8, <1>11

(* Nothing is left of a scalar above the last of its bits. *)
LEMMA AboveAll ==
  ASSUME NEW n \in Nat, NEW x \in Nat, x < PowerOf2(n), NEW k \in 0 .. n,
         \A i \in k .. n - 1 : BitOf(x, i) = 0
  PROVE  Above(x, k) = 0
<1> DEFINE G == {j \in 0 .. n - k : Above(x, n - j) = 0}
<1>1. 0 \in G
  <2>1. n - 0 = n /\ n - k \in Nat
    OBVIOUS
  <2> DEFINE q == PowerOf2(n)
  <2>2. q \in Nat \ {0} /\ x \in 0 .. q - 1 /\ x = 0 * q + x /\ 0 \in Int
    BY PowerStep
  <2> HIDE DEF q
  <2>3. (x \div q) = 0
    BY <2>2, DivisionIs
  <2> QED BY <2>1, <2>3 DEF Above, q
<1>2. ASSUME NEW j \in 1 .. n - k, j - 1 \in G PROVE j \in G
  <2>1. n - j \in Nat /\ n - j \in k .. n - 1 /\ (n - j) + 1 = n - (j - 1) /\ j \in 0 .. n - k
    OBVIOUS
  <2>2. Above(x, n - j) = 2 * Above(x, (n - j) + 1) + BitOf(x, n - j)
    BY <2>1, BitIs
  <2>3. Above(x, (n - j) + 1) = 0 /\ BitOf(x, n - j) = 0
    BY <1>2, <2>1
  <2> QED BY <2>1, <2>2, <2>3
<1> HIDE DEF G
<1>3. n - k \in Nat /\ n - k \in 0 .. n - k /\ n - (n - k) = k
  OBVIOUS
<1>4. n - k \in G
  BY <1>1, <1>2, <1>3, BoundedInduction
<1> QED BY <1>3, <1>4 DEF G

(* The bits of two scalars, without the places where neither has one at the end *)
IsDecomposition(bits, size, low, high) ==
  /\ size \in Nat
  /\ bits \in [0 .. size - 1 -> 0 .. 3]
  /\ \A i \in 0 .. size - 1 : bits[i] = BitOf(low, i) + 2 * BitOf(high, i)
  /\ Above(low, size) = 0 /\ Above(high, size) = 0
  /\ size # 0 => bits[size - 1] # 0

(* decompose_generator_fold finds them. *)
LEMMA DecompositionIs ==
  ASSUME InnerProductAssumption, NEW low \in Scalars, NEW high \in Scalars
  PROVE  \E size \in Nat : IsDecomposition(Decomposition(low, high), size, low, high)
<1>1. /\ low \in Nat /\ high \in Nat /\ MaxBits \in Nat
      /\ low < PowerOf2(MaxBits) /\ high < PowerOf2(MaxBits)
  <2>1. Order \in Nat /\ MaxBits \in Nat /\ Order <= PowerOf2(MaxBits)
    BY DEF InnerProductAssumption
  <2>2. PowerOf2(MaxBits) \in Nat
    BY <2>1, PowerStep
  <2> QED BY <2>1, <2>2 DEF Scalars
<1> DEFINE all == Vector(MaxBits, LAMBDA i : BitOf(low, i) + 2 * BitOf(high, i))
           places == {i + 1 : i \in {j \in 0 .. MaxBits - 1 : all[j] # 0}}
           S == {0} \cup places
           size == Max(S)
<1>2. \A i \in 0 .. MaxBits - 1 :
        /\ all[i] = BitOf(low, i) + 2 * BitOf(high, i)
        /\ all[i] \in 0 .. 3
        /\ all[i] = 0 => BitOf(low, i) = 0 /\ BitOf(high, i) = 0
  <2> TAKE i \in 0 .. MaxBits - 1
  <2>1. i \in Nat
    BY <1>1
  <2>2. BitOf(low, i) \in 0 .. 1 /\ BitOf(high, i) \in 0 .. 1
    BY <1>1, <2>1, BitIs
  <2>3. all[i] = BitOf(low, i) + 2 * BitOf(high, i)
    BY DEF Vector
  <2> HIDE DEF all
  <2> QED BY <2>2, <2>3
<1> HIDE DEF all
<1>3. S \in SUBSET (0 .. MaxBits) /\ S # {}
  BY <1>1
<1>4. size \in S /\ \A j \in S : j <= size
  <2>1. \E x \in S : \A y \in S : y <= x
    <3> HIDE DEF S
    <3> QED BY <1>1, <1>3, GreatestExists
  <2>2. \E x \in S : \A y \in S : x >= y
    BY <1>3, <2>1
  <2>3. size \in S /\ \A y \in S : size >= y
    <3> HIDE DEF S
    <3> QED BY <2>2 DEF Max
  <2> HIDE DEF size
  <2> QED BY <1>3, <2>3
<1>5. size \in 0 .. MaxBits
  BY <1>3, <1>4
<1>6. \A i \in size .. MaxBits - 1 : BitOf(low, i) = 0 /\ BitOf(high, i) = 0
  <2> SUFFICES ASSUME NEW i \in size .. MaxBits - 1 PROVE all[i] = 0
    BY <1>1, <1>2, <1>5
  <2>1. i \in 0 .. MaxBits - 1 /\ ~ (i + 1 <= size)
    BY <1>1, <1>5
  <2>2. all[i] # 0 => i + 1 \in S
    BY <2>1
  <2> HIDE DEF S, size
  <2> QED BY <1>4, <2>1, <2>2
<1>7. size # 0 => all[size - 1] # 0
  <2> SUFFICES ASSUME size # 0 PROVE all[size - 1] # 0
    OBVIOUS
  <2>1. size \in places
    <3> HIDE DEF size, places
    <3> QED BY <1>4
  <2>2. PICK i \in 0 .. MaxBits - 1 : all[i] # 0 /\ size = i + 1
    BY <2>1
  <2> HIDE DEF size
  <2>3. size - 1 = i
    BY <2>2
  <2> QED BY <2>2, <2>3
<1>8. Decomposition(low, high) = [i \in 0 .. size - 1 |-> all[0 + i]]
  BY DEF Decomposition, Subspan, Vector, all
<1> HIDE DEF size, S, places
<1>9. \A i \in 0 .. size - 1 : 0 + i = i /\ i \in 0 .. MaxBits - 1
  BY <1>1, <1>5
<1>10. Decomposition(low, high) = [i \in 0 .. size - 1 |-> all[i]]
  BY <1>8, <1>9
<1>11. Above(low, size) = 0 /\ Above(high, size) = 0
  BY <1>1, <1>5, <1>6, AboveAll
<1>12. size # 0 => size - 1 \in 0 .. size - 1
  BY <1>5
<1>13. size \in Nat
  BY <1>5
<1> DEFINE bits == Decomposition(low, high)
<1>14. bits \in [0 .. size - 1 -> 0 .. 3] /\ \A i \in 0 .. size - 1 : bits[i] = all[i]
  BY <1>2, <1>9, <1>10
<1> HIDE DEF bits
<1>15. IsDecomposition(bits, size, low, high)
  BY <1>2, <1>7, <1>9, <1>11, <1>12, <1>13, <1>14 DEF IsDecomposition
<1> QED BY <1>13, <1>15 DEF bits

(* Nothing is cut off a scalar above none of its bits. *)
LEMMA AboveNone ==
  ASSUME NEW x \in Nat
  PROVE  Above(x, 0) = x
<1>1. 1 \in Nat \ {0} /\ 0 \in 0 .. 1 - 1 /\ x \in Int /\ x = x * 1 + 0
  OBVIOUS
<1>2. ((x * 1 + 0) \div 1) = x
  BY ONLY <1>1, DivisionIs
<1> QED BY <1>1, <1>2, PowerStep DEF Above

(* e is a combination of g and h: a times the one and b times the other. *)
Combined(e, a, g, b, h) == \A k \in Basis : Congruent(e[k], a * g[k] + b * h[k], Order)

(* The bits of the two scalars at a place, as multiples *)
LEMMA TermIs ==
  ASSUME InnerProductAssumption, NEW g \in Elements, NEW h \in Elements,
         NEW a \in 0 .. 1, NEW b \in 0 .. 1, a + 2 * b # 0
  PROVE  TermOf(a + 2 * b, g, h) \in Elements /\ Combined(TermOf(a + 2 * b, g, h), a, g, b, h)
<1>1. ASSUME NEW k \in Basis
      PROVE  Congruent(TermOf(a + 2 * b, g, h)[k], a * g[k] + b * h[k], Order)
  <2>1. g[k] \in Int /\ h[k] \in Int /\ Congruent(Plus(g, h)[k], g[k] + h[k], Order) /\ Order \in Nat \ {0}
    BY ElementsAre, OrderIs
  <2>2. CASE a = 1 /\ b = 0
    <3>1. a * g[k] + b * h[k] = g[k] /\ TermOf(a + 2 * b, g, h) = g
      BY <2>1, <2>2 DEF TermOf
    <3> QED BY <2>1, <3>1, CongruentRemainder
  <2>3. CASE a = 0 /\ b = 1
    <3>1. a * g[k] + b * h[k] = h[k] /\ TermOf(a + 2 * b, g, h) = h
      BY <2>1, <2>3 DEF TermOf
    <3> QED BY <2>1, <3>1, CongruentRemainder
  <2>4. CASE a = 1 /\ b = 1
    <3>1. a * g[k] + b * h[k] = g[k] + h[k] /\ TermOf(a + 2 * b, g, h) = Plus(g, h)
      BY <2>1, <2>4 DEF TermOf
    <3> QED BY <2>1, <3>1
  <2> QED BY <2>2, <2>3, <2>4
<1>2. TermOf(a + 2 * b, g, h) \in Elements
  BY ElementsAre DEF TermOf
<1> QED BY <1>1, <1>2 DEF Combined

(* A step of doubling and adding, for one coefficient *)
LEMMA DoubleAndAdd ==
  ASSUME NEW m \in Nat \ {0}, NEW a \in Int, NEW b \in Int, NEW c \in Int, NEW d \in Int,
         NEW g \in Int, NEW h \in Int, NEW v \in Int, NEW s \in Int, NEW t \in Int, NEW u \in Int,
         Congruent(v, a * g + b * h, m), Congruent(s, v + v, m), Congruent(t, c * g + d * h, m),
         Congruent(u, s + t, m)
  PROVE  Congruent(u, (2 * a + c) * g + (2 * b + d) * h, m)
<1> DEFINE w == a * g + b * h
           z == c * g + d * h
           all == (2 * a + c) * g + (2 * b + d) * h
<1>1. w \in Int /\ z \in Int /\ all \in Int
  OBVIOUS
<1>2. all = (w + w) + z
  BY SMT
<1>3. Congruent(v, w, m) /\ Congruent(t, z, m)
  OBVIOUS
<1> HIDE DEF w, z, all
<1>4. Congruent(v + v, w + w, m)
  BY <1>1, <1>3, CongruentSum
<1>5. Congruent(s, w + w, m)
  <2>1. v + v \in Int /\ w + w \in Int
    BY <1>1
  <2> QED BY <1>4, <2>1, CongruentEquivalence
<1>6. Congruent(s + t, (w + w) + z, m)
  <2>1. w + w \in Int
    BY <1>1
  <2> QED BY <1>1, <1>3, <1>5, <2>1, CongruentSum
<1>7. Congruent(u, (w + w) + z, m)
  <2>1. s + t \in Int /\ (w + w) + z \in Int
    BY <1>1
  <2> QED BY <1>6, <2>1, CongruentEquivalence
<1> QED BY <1>2, <1>7 DEF all

(* Doubling and adding folds the generators as multiplying them would. *)
LEMMA FoldGeneratorIs ==
  ASSUME InnerProductAssumption, NEW low \in Scalars, NEW high \in Scalars, NEW g \in Elements, NEW h \in Elements
  PROVE  /\ FoldGenerator(Decomposition(low, high), g, h) \in Elements
         /\ Combined(FoldGenerator(Decomposition(low, high), g, h), low, g, high, h)
<1>1. PICK size \in Nat : IsDecomposition(Decomposition(low, high), size, low, high)
  BY DecompositionIs
<1>2. PICK bits : bits = Decomposition(low, high)
  OBVIOUS
<1>3. /\ bits \in [0 .. size - 1 -> 0 .. 3]
      /\ \A i \in 0 .. size - 1 : bits[i] = BitOf(low, i) + 2 * BitOf(high, i)
      /\ Above(low, size) = 0 /\ Above(high, size) = 0
      /\ size # 0 => bits[size - 1] # 0
  BY <1>1, <1>2 DEF IsDecomposition
<1>4. low \in Nat /\ high \in Nat /\ Order \in Nat \ {0}
  BY OrderIs DEF Scalars
<1>5. Above(low, 0) = low /\ Above(high, 0) = high
  BY <1>4, AboveNone
<1>6. \A k \in Basis : g[k] \in Int /\ h[k] \in Int
  BY ElementsAre
<1>7. CASE size = 0
  <2>1. FoldGenerator(bits, g, h) = Identity
    <3>1. DOMAIN bits = 0 .. 0 - 1 /\ 0 \in Nat
      BY <1>3, <1>7
    <3>2. Size(bits) = 0
      BY <3>1, SizeIs
    <3> QED BY <3>2 DEF FoldGenerator
  <2>2. low = 0 /\ high = 0
    BY <1>3, <1>5, <1>7
  <2>3. ASSUME NEW k \in Basis PROVE Congruent(Identity[k], low * g[k] + high * h[k], Order)
    <3>1. Identity[k] = 0 /\ low * g[k] + high * h[k] = 0 /\ 0 \in Int
      BY <1>6, <2>2 DEF Identity
    <3> QED BY <1>4, <3>1, CongruentRemainder
  <2> QED BY <1>2, <2>1, <2>3, ElementsAre DEF Combined
<1>8. CASE size # 0
  <2> DEFINE last == size - 1
  <2>1. last \in Nat /\ size = last + 1 /\ bits \in [0 .. last -> 0 .. 3]
    BY <1>3, <1>8
  <2> HIDE DEF last
  <2>2. PICK f \in [0 .. last -> Elements] :
          FoldGenerator(bits, g, h) = f[0] /\ IsFoldLoop(f, bits, last, g, h)
    BY <2>1, FoldGeneratorLoop
  <2> DEFINE Holds(i) == Combined(f[i], Above(low, i), g, Above(high, i), h)
             H == {k \in 0 .. last : Holds(last - k)}
  <2>3. ASSUME NEW i \in 0 .. last
        PROVE  /\ BitOf(low, i) \in 0 .. 1 /\ BitOf(high, i) \in 0 .. 1
               /\ Above(low, i) \in Nat /\ Above(low, i) = 2 * Above(low, i + 1) + BitOf(low, i)
               /\ Above(high, i) \in Nat /\ Above(high, i) = 2 * Above(high, i + 1) + BitOf(high, i)
               /\ bits[i] = BitOf(low, i) + 2 * BitOf(high, i)
               /\ Above(low, i + 1) \in Nat /\ Above(high, i + 1) \in Nat
    <3>1. i \in Nat /\ i + 1 \in Nat /\ i \in 0 .. size - 1
      BY <2>1
    <3> QED BY <1>3, <1>4, <3>1, BitIs
  <2>4. 0 \in H
    <3>1. last \in 0 .. last /\ last - 0 = last /\ 0 \in 0 .. last /\ last + 1 = size
          /\ last = size - 1
      BY <2>1
    <3>2. /\ f[last] = TermOf(bits[last], g, h) /\ bits[last] # 0
          /\ bits[last] = BitOf(low, last) + 2 * BitOf(high, last)
      BY <1>3, <1>8, <2>2, <2>3, <3>1 DEF IsFoldLoop
    <3>4. BitOf(low, last) \in 0 .. 1 /\ BitOf(high, last) \in 0 .. 1
      BY <2>3, <3>1
    <3>3. Above(low, last) = BitOf(low, last) /\ Above(high, last) = BitOf(high, last)
      <4>1. /\ Above(low, last) = 2 * Above(low, last + 1) + BitOf(low, last)
            /\ Above(high, last) = 2 * Above(high, last + 1) + BitOf(high, last)
        BY <2>3, <3>1
      <4>2. Above(low, last + 1) = 0 /\ Above(high, last + 1) = 0
        BY <1>3, <3>1
      <4> QED BY <3>4, <4>1, <4>2
    <3>5. Combined(f[last], BitOf(low, last), g, BitOf(high, last), h)
      BY <3>2, <3>4, TermIs
    <3> QED BY <3>1, <3>3, <3>5
  <2>5. ASSUME NEW j \in 1 .. last, j - 1 \in H PROVE j \in H
    <3> DEFINE i == last - j
    <3>1. i \in 0 .. last - 1 /\ i \in 0 .. last /\ i + 1 = last - (j - 1) /\ i + 1 \in 0 .. last
      BY <2>1
    <3> HIDE DEF i
    <3>2. Holds(i + 1)
      BY <2>5, <3>1
    <3>3. f[i] = IF bits[i] = 0 THEN Plus(f[i + 1], f[i + 1])
                 ELSE Plus(Plus(f[i + 1], f[i + 1]), TermOf(bits[i], g, h))
      BY <2>2, <3>1 DEF IsFoldLoop
    <3>4. f[i + 1] \in Elements /\ Plus(f[i + 1], f[i + 1]) \in Elements /\ f[i] \in Elements
      BY <2>2, <3>1, ElementsAre
    <3>5. PICK a, b, c, d : a = Above(low, i + 1) /\ b = Above(high, i + 1)
                            /\ c = BitOf(low, i) /\ d = BitOf(high, i)
      OBVIOUS
    <3>6. /\ a \in Nat /\ b \in Nat /\ c \in 0 .. 1 /\ d \in 0 .. 1 /\ bits[i] = c + 2 * d
          /\ Above(low, i) = 2 * a + c /\ Above(high, i) = 2 * b + d
      BY <2>3, <3>1, <3>5
    <3>7. ASSUME NEW k \in Basis
          PROVE  Congruent(f[i][k], (2 * a + c) * g[k] + (2 * b + d) * h[k], Order)
      <4> DEFINE v == f[i + 1][k]
                 s == Plus(f[i + 1], f[i + 1])[k]
                 t == IF bits[i] = 0 THEN 0 ELSE TermOf(bits[i], g, h)[k]
                 u == f[i][k]
      <4>1. Congruent(v, a * g[k] + b * h[k], Order)
        BY <3>2, <3>5 DEF Combined
      <4>2. v \in Int /\ s \in Int /\ u \in Int /\ Congruent(s, v + v, Order) /\ g[k] \in Int /\ h[k] \in Int
        BY <1>6, <3>4, ElementsAre
      <4>3. t \in Int /\ Congruent(t, c * g[k] + d * h[k], Order) /\ Congruent(u, s + t, Order)
        <5>1. CASE bits[i] = 0
          <6>1. c = 0 /\ d = 0
            BY <3>6, <5>1
          <6>2. t = 0 /\ c * g[k] + d * h[k] = 0 /\ u = s /\ s + t = s
            BY <3>3, <4>2, <5>1, <6>1
          <6> HIDE DEF t, u, s, v
          <6>3. Congruent(0, 0, Order) /\ Congruent(s, s, Order)
            <7>1. 0 \in Int
              OBVIOUS
            <7> QED BY <1>4, <4>2, <7>1, CongruentRemainder
          <6> QED BY <6>2, <6>3
        <5>2. CASE bits[i] # 0
          <6>1. TermOf(bits[i], g, h) \in Elements /\ Combined(TermOf(bits[i], g, h), c, g, d, h)
            BY <3>6, <5>2, TermIs
          <6>2. f[i] = Plus(Plus(f[i + 1], f[i + 1]), TermOf(bits[i], g, h))
            BY <3>3, <5>2
          <6>3. TermOf(bits[i], g, h)[k] \in Int /\ Congruent(u, s + TermOf(bits[i], g, h)[k], Order)
            BY <3>4, <6>1, <6>2, ElementsAre
          <6>4. t = TermOf(bits[i], g, h)[k]
            BY <5>2
          <6> QED BY <6>1, <6>3, <6>4 DEF Combined
        <5> QED BY <5>1, <5>2
      <4>4. a \in Int /\ b \in Int /\ c \in Int /\ d \in Int
        BY <3>6
      <4>5. PICK gk, hk : gk = g[k] /\ hk = h[k]
        OBVIOUS
      <4>6. gk \in Int /\ hk \in Int /\ Congruent(v, a * gk + b * hk, Order)
            /\ Congruent(t, c * gk + d * hk, Order)
        BY <4>1, <4>2, <4>3, <4>5
      <4> HIDE DEF v, s, t, u
      <4>7. Congruent(u, (2 * a + c) * gk + (2 * b + d) * hk, Order)
        BY <1>4, <4>2, <4>3, <4>4, <4>6, DoubleAndAdd
      <4> QED BY <4>5, <4>7 DEF u
    <3>8. Holds(i)
      BY <3>6, <3>7 DEF Combined
    <3> QED BY <3>8 DEF i
  <2> HIDE DEF H
  <2>6. \A k \in 0 .. last : k \in H
    BY <2>1, <2>4, <2>5, BoundedInduction
  <2>7. Holds(0)
    <3>1. last \in 0 .. last /\ last - last = 0
      BY <2>1
    <3> QED BY <2>6, <3>1 DEF H
  <2>8. f[0] \in Elements
    <3>1. 0 \in 0 .. last
      BY <2>1
    <3> QED BY <2>2, <3>1
  <2> QED BY <1>2, <1>5, <2>2, <2>7, <2>8
<1> QED BY <1>7, <1>8

-----------------------------------------------------------------------------
(* Commitments, one coefficient at a time *)

(* The coefficient of Q *)
Unit(k) == IF k = 0 THEN 1 ELSE 0

(***************************************************************************)
(* What an element of a counts in the coefficient k of the commitment to   *)
(* it: its generator's coefficient and, in that of Q, its partner in b     *)
(***************************************************************************)
Weights(b, g, k, n) == [i \in 0 .. n - 1 |-> g[i][k] + Unit(k) * Padded(b, n)[i]]

(* Vectors of group elements *)
IsVectorOf(g, n) == n \in Nat /\ g \in [0 .. n - 1 -> Elements]

(* Weights are numbers. *)
LEMMA WeightsType ==
  ASSUME InnerProductAssumption, NEW n \in Nat, NEW g, IsVectorOf(g, n),
         NEW s \in Nat, NEW b \in [0 .. s - 1 -> Int], NEW k \in Basis
  PROVE  /\ Weights(b, g, k, n) \in [0 .. n - 1 -> Int]
         /\ \A i \in 0 .. n - 1 : g[i][k] \in Int /\ Padded(b, n)[i] \in Int
         /\ Unit(k) \in Int
<1>1. Unit(k) \in Int
  BY DEF Unit
<1>2. \A i \in 0 .. n - 1 : g[i] \in Elements
  BY DEF IsVectorOf
<1>3. \A i \in 0 .. n - 1 : g[i][k] \in Int
  BY <1>2, ElementsAre
<1>4. \A i \in 0 .. n - 1 : Padded(b, n)[i] \in Int
  BY PaddedType
<1>5. \A i \in 0 .. n - 1 : Unit(k) * Padded(b, n)[i] \in Int
  BY <1>1, <1>4
<1>6. \A i \in 0 .. n - 1 : g[i][k] + Unit(k) * Padded(b, n)[i] \in Int
  BY <1>3, <1>5
<1> QED BY <1>1, <1>3, <1>4, <1>6 DEF Weights

(* The coefficient of what a driver commits to *)
LEMMA CommitmentIs ==
  ASSUME InnerProductAssumption, NEW n \in Nat, NEW g, IsVectorOf(g, n),
         NEW r \in Nat, NEW a \in [0 .. r - 1 -> Int],
         NEW s \in Nat, NEW b \in [0 .. s - 1 -> Int], s <= n \/ r <= n
  PROVE  /\ Multiexponentiate(g, a) \in Elements
         /\ Plus(Multiexponentiate(g, a), Times(ScalarProduct(a, b), Q)) \in Elements
         /\ \A k \in Basis :
              Congruent(Plus(Multiexponentiate(g, a), Times(ScalarProduct(a, b), Q))[k],
                        Dot(Padded(a, n), Weights(b, g, k, n), n), Order)
<1> DEFINE col(k) == [i \in DOMAIN g |-> g[i][k]]
           e == Multiexponentiate(g, a)
           p == ScalarProduct(a, b)
           f == Times(p, Q)
           A == Padded(a, n)
           B == Padded(b, n)
<1>1. Order \in Nat \ {0}
  BY OrderIs
<1>2. A \in [0 .. n - 1 -> Int] /\ B \in [0 .. n - 1 -> Int]
  BY PaddedType
<1>3. \A k \in Basis : col(k) \in [0 .. n - 1 -> Int] /\ Padded(col(k), n) = col(k)
  <2> TAKE k \in Basis
  <2>1. DOMAIN g = 0 .. n - 1 /\ \A i \in 0 .. n - 1 : g[i][k] \in Int
    BY WeightsType DEF IsVectorOf
  <2>2. col(k) \in [0 .. n - 1 -> Int]
    BY <2>1
  <2> HIDE DEF col
  <2> QED BY <2>2, PaddedType
<1>4. ASSUME NEW k \in Basis
      PROVE  /\ e[k] = Dot(A, col(k), n) % Order /\ e[k] \in Scalars /\ e[k] \in Int
             /\ Dot(A, col(k), n) \in Int /\ Congruent(e[k], Dot(A, col(k), n), Order)
  <2>1. e[k] = ScalarProduct(a, col(k))
    BY DEF Multiexponentiate
  <2> HIDE DEF e, col
  <2>2. e[k] = Dot(A, Padded(col(k), n), n) % Order
    <3>1. n >= n
      OBVIOUS
    <3> QED BY <1>3, <2>1, <3>1, ScalarProductIs
  <2>3. Dot(A, col(k), n) \in Int
    BY <1>2, <1>3, DotType
  <2> QED BY <1>3, <2>2, <2>3, ReducedIs
<1>5. p = Dot(A, B, n) % Order /\ p \in Scalars /\ p \in Int /\ Dot(A, B, n) \in Int /\ Congruent(p, Dot(A, B, n), Order)
  <2>1. n >= r \/ n >= s
    OBVIOUS
  <2>2. p = Dot(A, B, n) % Order
    BY <2>1, ScalarProductIs
  <2>3. Dot(A, B, n) \in Int
    BY <1>2, DotType
  <2> HIDE DEF p, A, B
  <2> QED BY <2>2, <2>3, ReducedIs
<1>6. e \in Elements
  <2>1. e = [k \in Basis |-> ScalarProduct(a, col(k))]
    BY DEF Multiexponentiate
  <2>2. \A k \in Basis : e[k] \in Scalars
    BY <1>4
  <2> HIDE DEF e, col
  <2>3. e = [k \in Basis |-> e[k]]
    BY <2>1
  <2> QED BY <2>2, <2>3 DEF Elements
<1>7. f \in Elements /\ \A k \in Basis : Congruent(f[k], p * Unit(k), Order)
  <2>1. f = [k \in Basis |-> (p * Unit(k)) % Order]
    <3>1. \A k \in Basis : Q[k] = Unit(k)
      BY DEF Q, Unit
    <3> HIDE DEF p
    <3> QED BY <3>1 DEF Times
  <2>2. ASSUME NEW k \in Basis
        PROVE  ((p * Unit(k)) % Order) \in Scalars /\ Congruent((p * Unit(k)) % Order, p * Unit(k), Order)
    <3> DEFINE t == p * Unit(k)
    <3>1. t \in Int
      BY <1>5 DEF Unit
    <3> HIDE DEF t
    <3>2. (t % Order) \in Scalars /\ Congruent(t % Order, t, Order)
      BY <3>1, ReducedIs
    <3> QED BY <3>2 DEF t
  <2> HIDE DEF f, p
  <2> QED BY <2>1, <2>2 DEF Elements
<1> HIDE DEF e, p, f, col, A, B
<1>8. ASSUME NEW k \in Basis
      PROVE  Congruent(Plus(e, f)[k], Dot(A, Weights(b, g, k, n), n), Order)
  <2> DEFINE D == 0 .. n - 1
             W == Weights(b, g, k, n)
             u == Unit(k)
             h1 == [i \in D |-> A[i] * col(k)[i]]
             h2 == [i \in D |-> A[i] * B[i]]
             h == [i \in D |-> A[i] * W[i]]
  <2>1. W \in [D -> Int] /\ u \in Int /\ col(k) \in [D -> Int]
    BY <1>3, WeightsType
  <2>2. \A i \in D : W[i] = col(k)[i] + u * B[i]
    BY DEF Weights, B, col, IsVectorOf
  <2>3. h1 \in [D -> Int] /\ h2 \in [D -> Int] /\ h \in [D -> Int]
    <3> HIDE DEF W, u
    <3> QED BY <1>2, <2>1, DotType, SMTT(30)
  <2>4. /\ Dot(A, col(k), n) = SumFunction(h1) /\ Dot(A, B, n) = SumFunction(h2)
        /\ Dot(A, W, n) = SumFunction(h)
    BY DEF Dot
  <2>5. LinearIn(h, h2, h1, u, D, Order)
    <3> SUFFICES ASSUME NEW i \in D PROVE Congruent(h[i], h2[i] * u + h1[i], Order)
      BY DEF LinearIn
    <3> HIDE DEF W, u
    <3>1. A[i] \in Int /\ B[i] \in Int /\ col(k)[i] \in Int
      BY <1>2, <2>1
    <3>2. A[i] * (col(k)[i] + u * B[i]) = (A[i] * B[i]) * u + A[i] * col(k)[i]
      BY <2>1, <3>1, SMTT(30)
    <3>3. h[i] = h2[i] * u + h1[i] /\ h[i] \in Int
      BY <2>2, <2>3, <3>2
    <3> HIDE DEF h, h1, h2
    <3> QED BY <1>1, <3>3, CongruentRemainder
  <2>6. IsFiniteSet(D)
    <3>1. 0 \in Nat
      OBVIOUS
    <3> QED BY <3>1, IndicesFinite
  <2> HIDE DEF h, h1, h2, W, u, D
  <2>7. Congruent(SumFunction(h), SumFunction(h2) * u + SumFunction(h1), Order)
    BY <1>1, <2>1, <2>3, <2>5, <2>6, SumLinear
  <2>8. PICK x, y, z, ek, fk, s1 :
          /\ x = SumFunction(h1) /\ y = SumFunction(h2) /\ z = SumFunction(h)
          /\ ek = e[k] /\ fk = f[k] /\ s1 = Plus(e, f)[k]
    OBVIOUS
  <2>9. /\ x \in Int /\ y \in Int /\ z \in Int /\ ek \in Int /\ fk \in Int /\ s1 \in Int
        /\ Congruent(s1, ek + fk, Order)
    <3>1. z \in Int
      BY <2>3, <2>6, <2>8, SumType DEF SumFunction
    <3>2. x \in Int /\ y \in Int
      BY <1>4, <1>5, <2>4, <2>8
    <3> QED BY <1>6, <1>7, <2>8, <3>1, <3>2, ElementsAre
  <2>10. Congruent(ek, x, Order) /\ Congruent(p, y, Order) /\ Congruent(fk, p * u, Order) /\ Congruent(z, y * u + x, Order)
    BY <1>4, <1>5, <1>7, <2>4, <2>7, <2>8 DEF u
  <2>11. Congruent(p * u, y * u, Order)
    BY <1>1, <1>5, <2>1, <2>9, <2>10, CongruentProduct, CongruentRemainder
  <2>12. p * u \in Int /\ y * u \in Int
    BY <1>5, <2>1, <2>9
  <2>13. Congruent(fk, y * u, Order)
    BY <1>1, <2>9, <2>10, <2>11, <2>12, CongruentEquivalence
  <2>14. Congruent(ek + fk, x + y * u, Order)
    BY <1>1, <2>9, <2>10, <2>12, <2>13, CongruentSum
  <2>15. x + y * u = y * u + x /\ x + y * u \in Int /\ ek + fk \in Int
    BY <2>9, <2>12
  <2>16. Congruent(y * u + x, z, Order) /\ Congruent(s1, y * u + x, Order)
    BY <1>1, <2>9, <2>10, <2>14, <2>15, CongruentEquivalence
  <2>17. Congruent(s1, z, Order)
    BY <1>1, <2>9, <2>15, <2>16, CongruentEquivalence
  <2> QED BY <2>4, <2>8, <2>17 DEF W
<1>9. Plus(e, f) \in Elements
  BY <1>6, <1>7, ElementsAre
<1> QED BY <1>6, <1>8, <1>9 DEF e, f, p, A

(* The lower and the upper half of a vector that is at least half as long as its padding *)
LowHalf(v, m) == Subspan(v, 0, m)
HighHalf(v, m) == Subspan(v, m, Size(v) - m)

(* They are the halves of the padded vector. *)
LEMMA HalvesArePadded ==
  ASSUME NEW m \in Nat, NEW s \in m .. 2 * m, NEW v \in [0 .. s - 1 -> Int]
  PROVE  /\ LowHalf(v, m) \in [0 .. m - 1 -> Int] /\ HighHalf(v, m) \in [0 .. (s - m) - 1 -> Int]
         /\ s - m \in Nat /\ s - m <= m
         /\ Padded(LowHalf(v, m), m) = Lower(Padded(v, 2 * m), m)
         /\ Padded(HighHalf(v, m), m) = Upper(Padded(v, 2 * m), m)
<1>1. s \in Nat /\ m <= s /\ s <= 2 * m /\ s - m \in Nat /\ s - m <= m
  OBVIOUS
<1>2. Size(v) = s
  BY <1>1, SizeIs
<1>3. LowHalf(v, m) = [i \in 0 .. m - 1 |-> v[0 + i]]
  BY DEF LowHalf, Subspan, Vector
<1>4. HighHalf(v, m) = [i \in 0 .. (s - m) - 1 |-> v[m + i]]
  BY <1>2 DEF HighHalf, Subspan, Vector
<1>5. \A i \in 0 .. m - 1 : 0 + i = i /\ i \in 0 .. s - 1 /\ i \in 0 .. 2 * m - 1 /\ m + i \in 0 .. 2 * m - 1
  BY <1>1
<1>6. \A i \in 0 .. (s - m) - 1 : m + i \in 0 .. s - 1 /\ i \in 0 .. m - 1
  BY <1>1
<1>7. LowHalf(v, m) \in [0 .. m - 1 -> Int] /\ HighHalf(v, m) \in [0 .. (s - m) - 1 -> Int]
  BY <1>3, <1>4, <1>5, <1>6
<1>8. ASSUME NEW i \in 0 .. m - 1 PROVE Padded(LowHalf(v, m), m)[i] = Lower(Padded(v, 2 * m), m)[i]
  <2>1. Padded(LowHalf(v, m), m)[i] = v[i]
    BY <1>3, <1>5 DEF Padded
  <2>2. Padded(v, 2 * m)[i] = v[i]
    BY <1>5 DEF Padded
  <2> QED BY <2>1, <2>2 DEF Lower
<1>9. ASSUME NEW i \in 0 .. m - 1 PROVE Padded(HighHalf(v, m), m)[i] = Upper(Padded(v, 2 * m), m)[i]
  <2>1. Upper(Padded(v, 2 * m), m)[i] = Padded(v, 2 * m)[m + i]
    BY DEF Upper
  <2>2. i \in 0 .. (s - m) - 1 <=> m + i \in 0 .. s - 1
    BY <1>1
  <2>3. CASE i \in 0 .. (s - m) - 1
    <3>1. Padded(HighHalf(v, m), m)[i] = v[m + i]
      BY <1>4, <2>3 DEF Padded
    <3>2. Padded(v, 2 * m)[m + i] = v[m + i]
      BY <1>5, <2>2, <2>3 DEF Padded
    <3> QED BY <2>1, <3>1, <3>2
  <2>4. CASE ~ (i \in 0 .. (s - m) - 1)
    <3>1. Padded(HighHalf(v, m), m)[i] = 0
      BY <1>4, <2>4 DEF Padded
    <3>2. Padded(v, 2 * m)[m + i] = 0
      BY <1>5, <2>2, <2>4 DEF Padded
    <3> QED BY <2>1, <3>1, <3>2
  <2> QED BY <2>3, <2>4
<1>10. Padded(LowHalf(v, m), m) = Lower(Padded(v, 2 * m), m)
  BY <1>8 DEF Padded, Lower
<1>11. Padded(HighHalf(v, m), m) = Upper(Padded(v, 2 * m), m)
  BY <1>9 DEF Padded, Upper
<1> QED BY <1>1, <1>7, <1>10, <1>11

(* The halves of the generators are whole, and the weights of the halves are the halves of the weights. *)
LEMMA HalvesOfWeights ==
  ASSUME InnerProductAssumption, NEW m \in Nat, NEW g, IsVectorOf(g, 2 * m),
         NEW s \in m .. 2 * m, NEW b \in [0 .. s - 1 -> Int], NEW k \in Basis
  PROVE  /\ IsVectorOf(LowHalf(g, m), m) /\ IsVectorOf(HighHalf(g, m), m)
         /\ Weights(LowHalf(b, m), LowHalf(g, m), k, m) = Lower(Weights(b, g, k, 2 * m), m)
         /\ Weights(HighHalf(b, m), HighHalf(g, m), k, m) = Upper(Weights(b, g, k, 2 * m), m)
<1>1. g \in [0 .. 2 * m - 1 -> Elements] /\ Size(g) = 2 * m /\ 2 * m - m = m
  <2>1. g \in [0 .. 2 * m - 1 -> Elements] /\ 2 * m \in Nat
    BY DEF IsVectorOf
  <2> QED BY <2>1, SizeIs
<1>2. LowHalf(g, m) = [i \in 0 .. m - 1 |-> g[0 + i]] /\ HighHalf(g, m) = [i \in 0 .. m - 1 |-> g[m + i]]
  BY <1>1 DEF LowHalf, HighHalf, Subspan, Vector
<1>3. \A i \in 0 .. m - 1 : 0 + i = i /\ i \in 0 .. 2 * m - 1 /\ m + i \in 0 .. 2 * m - 1
  OBVIOUS
<1>4. IsVectorOf(LowHalf(g, m), m) /\ IsVectorOf(HighHalf(g, m), m)
  BY <1>1, <1>2, <1>3 DEF IsVectorOf
<1>5. /\ Padded(LowHalf(b, m), m) = Lower(Padded(b, 2 * m), m)
      /\ Padded(HighHalf(b, m), m) = Upper(Padded(b, 2 * m), m)
  BY HalvesArePadded
<1>6. /\ \A i \in 0 .. m - 1 : /\ Padded(LowHalf(b, m), m)[i] = Padded(b, 2 * m)[i]
                               /\ Padded(HighHalf(b, m), m)[i] = Padded(b, 2 * m)[m + i]
      /\ \A i \in 0 .. m - 1 : LowHalf(g, m)[i] = g[i] /\ HighHalf(g, m)[i] = g[m + i]
  BY <1>2, <1>3, <1>5 DEF Lower, Upper
<1>7. /\ \A i \in 0 .. m - 1 : Lower(Weights(b, g, k, 2 * m), m)[i] = g[i][k] + Unit(k) * Padded(b, 2 * m)[i]
      /\ \A i \in 0 .. m - 1 : Upper(Weights(b, g, k, 2 * m), m)[i] = g[m + i][k] + Unit(k) * Padded(b, 2 * m)[m + i]
  BY <1>3 DEF Weights, Lower, Upper
<1>8. Weights(LowHalf(b, m), LowHalf(g, m), k, m) = Lower(Weights(b, g, k, 2 * m), m)
  <2>1. \A i \in 0 .. m - 1 : Weights(LowHalf(b, m), LowHalf(g, m), k, m)[i] = g[i][k] + Unit(k) * Padded(b, 2 * m)[i]
    BY <1>6 DEF Weights
  <2> QED BY <1>7, <2>1 DEF Weights, Lower
<1>9. Weights(HighHalf(b, m), HighHalf(g, m), k, m) = Upper(Weights(b, g, k, 2 * m), m)
  <2>1. \A i \in 0 .. m - 1 : Weights(HighHalf(b, m), HighHalf(g, m), k, m)[i]
                                = g[m + i][k] + Unit(k) * Padded(b, 2 * m)[m + i]
    BY <1>6 DEF Weights
  <2> QED BY <1>7, <2>1 DEF Weights, Upper
<1> QED BY <1>4, <1>8, <1>9

(* Folding the generators and b folds the weights. *)
LEMMA WeightsFolded ==
  ASSUME InnerProductAssumption, NEW m \in Nat, NEW g, IsVectorOf(g, 2 * m),
         NEW s \in m .. 2 * m, NEW b \in [0 .. s - 1 -> Int], NEW low \in Scalars, NEW high \in Scalars
  PROVE  /\ IsVectorOf(FoldGenerators(g, low, high, m), m)
         /\ \A k \in Basis :
              Folded(Weights(FoldScalars(b, low, high, m), FoldGenerators(g, low, high, m), k, m),
                     Weights(b, g, k, 2 * m), low, high, m)
<1> DEFINE G == FoldGenerators(g, low, high, m)
           B == FoldScalars(b, low, high, m)
           p == Padded(b, 2 * m)
<1>0. low \in Int /\ high \in Int /\ Scalars \subseteq Int /\ Order \in Nat \ {0} /\ 2 * m \in Nat /\ s \in Nat
  BY OrderIs
<1>1. \A i \in 0 .. m - 1 : i \in 0 .. 2 * m - 1 /\ m + i \in 0 .. 2 * m - 1
  OBVIOUS
<1>2. \A i \in 0 .. m - 1 : g[i] \in Elements /\ g[m + i] \in Elements
  BY <1>1 DEF IsVectorOf
<1>3. G = [i \in 0 .. m - 1 |-> FoldGenerator(Decomposition(low, high), g[i], g[m + i])]
  BY DEF FoldGenerators, Vector
<1>4. \A i \in 0 .. m - 1 : G[i] \in Elements /\ Combined(G[i], low, g[i], high, g[m + i])
  BY <1>2, <1>3, FoldGeneratorIs
<1>5. IsVectorOf(G, m)
  BY <1>3, <1>4 DEF IsVectorOf
<1>6. B \in [0 .. m - 1 -> Scalars] /\ Folded(B, p, low, high, m)
  BY <1>0, FoldScalarsIs
<1>7. B \in [0 .. m - 1 -> Int]
  BY <1>0, <1>6
<1> HIDE DEF G, B
<1>8. Padded(B, m) = B
  BY <1>7, PaddedType
<1>9. ASSUME NEW k \in Basis
      PROVE  Folded(Weights(B, G, k, m), Weights(b, g, k, 2 * m), low, high, m)
  <2> DEFINE W == Weights(b, g, k, 2 * m)
             V == Weights(B, G, k, m)
             u == Unit(k)
  <2>1. \A i \in 0 .. 2 * m - 1 : g[i][k] \in Int /\ p[i] \in Int
    BY <1>0, WeightsType
  <2>2. u \in Int
    BY DEF Unit
  <2>3. ASSUME NEW i \in 0 .. m - 1
        PROVE  Congruent(V[i], low * Lower(W, m)[i] + high * Upper(W, m)[i], Order)
    <3>1. PICK a, c, d, e, x, y :
            a = g[i][k] /\ c = p[i] /\ d = g[m + i][k] /\ e = p[m + i] /\ x = G[i][k] /\ y = B[i]
      OBVIOUS
    <3>2. a \in Int /\ c \in Int /\ d \in Int /\ e \in Int
      BY <1>1, <2>1, <3>1
    <3>3. x \in Int /\ Congruent(x, low * a + high * d, Order)
      BY <1>4, <3>1, ElementsAre DEF Combined
    <3>4. y \in Int /\ Congruent(y, low * c + high * e, Order)
      BY <1>6, <1>7, <3>1 DEF Folded, Lower, Upper
    <3>5. V[i] = x + u * y
      BY <1>8, <3>1 DEF Weights
    <3>6. Lower(W, m)[i] = a + u * c /\ Upper(W, m)[i] = d + u * e
      BY <1>1, <3>1 DEF Weights, Lower, Upper
    <3>7. PICK i1, i2 \in Int : x = (low * a + high * d) + i1 * Order /\ y = (low * c + high * e) + i2 * Order
      BY <3>3, <3>4 DEF Congruent
    <3>8. low * (a + u * c) + high * (d + u * e) = (low * a + high * d) + u * (low * c + high * e)
      BY <1>0, <2>2, <3>2, SMT
    <3>9. x + u * y = (low * (a + u * c) + high * (d + u * e)) + (i1 + u * i2) * Order
      <4> DEFINE q == low * a + high * d
                 r == low * c + high * e
      <4>1. q \in Int /\ r \in Int
        BY <1>0, <3>2
      <4>2. x = q + i1 * Order /\ y = r + i2 * Order /\ low * (a + u * c) + high * (d + u * e) = q + u * r
        BY <3>7, <3>8
      <4> HIDE DEF q, r, u
      <4>3. u * (r + i2 * Order) = u * r + (u * i2) * Order
        BY <1>0, <2>2, <3>7, <4>1, SMT
      <4>4. (i1 + u * i2) * Order = i1 * Order + (u * i2) * Order
        BY <1>0, <2>2, <3>7, SMT
      <4>5. u * r \in Int /\ i1 * Order \in Int /\ (u * i2) * Order \in Int
        BY <1>0, <2>2, <3>7, <4>1
      <4> QED BY <4>1, <4>2, <4>3, <4>4, <4>5
    <3>10. i1 + u * i2 \in Int
      BY <2>2, <3>7
    <3> HIDE DEF V, W, u
    <3> QED BY <3>5, <3>6, <3>9, <3>10 DEF Congruent
  <2> HIDE DEF V, W
  <2> QED BY <2>3 DEF Folded, V, W
<1> QED BY <1>5, <1>9 DEF G, B

-----------------------------------------------------------------------------
(* What the rounds keep, for one coefficient *)

(* A value, and what r rounds add to it: the published coefficients, times the squares *)
IsCorrections(c, base, x, l, r, k) ==
  /\ \A j \in 0 .. r : c[j] \in Int
  /\ Congruent(c[0], base, Order)
  /\ \A j \in 1 .. r :
       Congruent(c[j], c[j - 1] + (l[j].l[k] * (x[j] * x[j])
                                   + l[j].r[k] * (InverseOf(x[j]) * InverseOf(x[j]))), Order)

(* The products of the first inverses of the challenges *)
IsInverses(s, x, r) ==
  /\ \A j \in 0 .. r : s[j] \in Int
  /\ Congruent(s[0], 1, Order)
  /\ \A j \in 1 .. r : Congruent(s[j], s[j - 1] * InverseOf(x[j]), Order)

(* Exponents as the verifier computes them, for the challenges of the first r rounds *)
IsExponents(e, x, n, r) == \A j \in 1 .. r : Squared(e, x[j], PowerOf2(n - j))

(* The vector a has the commitment it began with, corrected. *)
Committed(a, w, base, x, l, n, r, k) ==
  \A c : IsCorrections(c, base, x, l, r, k) => Congruent(Dot(a, w, PowerOf2(n - r)), c[r], Order)

(* Exponents have the product with the weights that they began with, scaled. *)
Scaled(w, first, x, n, r) ==
  \A e \in [0 .. PowerOf2(n) - 1 -> Int] : \A s :
    IsExponents(e, x, n, r) /\ IsInverses(s, x, r) =>
      Congruent(Dot(Lower(e, PowerOf2(n - r)), w, PowerOf2(n - r)), s[r] * Dot(e, first, PowerOf2(n)), Order)

(* Before the first round nothing has been added nor scaled. *)
LEMMA TrackedFirst ==
  ASSUME InnerProductAssumption, NEW n \in Nat, NEW a \in [0 .. PowerOf2(n) - 1 -> Int],
         NEW w \in [0 .. PowerOf2(n) - 1 -> Int], NEW x, NEW l, NEW k
  PROVE  /\ Committed(a, w, Dot(a, w, PowerOf2(n)), x, l, n, 0, k)
         /\ Scaled(w, w, x, n, 0)
<1>1. PICK N : N = PowerOf2(n)
  OBVIOUS
<1>2. N \in Nat /\ n - 0 = n /\ Order \in Nat \ {0} /\ 0 \in 0 .. 0
  BY <1>1, PowerStep, OrderIs
<1>3. Dot(a, w, N) \in Int
  BY <1>1, <1>2, DotType
<1>4. Committed(a, w, Dot(a, w, N), x, l, n, 0, k)
  <2> SUFFICES ASSUME NEW c, IsCorrections(c, Dot(a, w, N), x, l, 0, k)
               PROVE  Congruent(Dot(a, w, N), c[0], Order)
    BY <1>1, <1>2 DEF Committed
  <2>1. c[0] \in Int /\ Congruent(c[0], Dot(a, w, N), Order)
    BY <1>2 DEF IsCorrections
  <2> QED BY <1>2, <1>3, <2>1, CongruentEquivalence
<1>5. Scaled(w, w, x, n, 0)
  <2> SUFFICES ASSUME NEW e \in [0 .. N - 1 -> Int], NEW s, IsInverses(s, x, 0)
               PROVE  Congruent(Dot(Lower(e, N), w, N), s[0] * Dot(e, w, N), Order)
    BY <1>1, <1>2 DEF Scaled
  <2>1. Lower(e, N) = e
    BY DEF Lower
  <2>2. s[0] \in Int /\ Congruent(s[0], 1, Order)
    BY <1>2 DEF IsInverses
  <2>3. Dot(e, w, N) \in Int
    BY <1>1, <1>2, DotType
  <2> DEFINE d == Dot(e, w, N)
             t == s[0]
  <2>4. d \in Int /\ t \in Int /\ Congruent(t, 1, Order) /\ 1 \in Int
    BY <2>2, <2>3
  <2> HIDE DEF d, t
  <2>5. Congruent(t * d, 1 * d, Order)
    BY <1>2, <2>4, CongruentProduct, CongruentRemainder
  <2>6. 1 * d = d /\ t * d \in Int
    BY <2>4
  <2>7. Congruent(d, t * d, Order)
    BY <1>2, <2>4, <2>5, <2>6, CongruentEquivalence
  <2> QED BY <2>1, <2>7 DEF d, t
<1> QED BY <1>1, <1>4, <1>5

(* A value with two weighted terms added *)
Adds(u, t, p, x, q, y, m) == Congruent(u, t + (p * x + q * y), m)

(* The cross terms are added to both sides. *)
LEMMA CorrectedSum ==
  ASSUME NEW m \in Nat \ {0}, NEW p \in Int, NEW q \in Int, NEW t \in Int, NEW u \in Int,
         NEW a \in Int, NEW b \in Int, NEW c \in Int, NEW d \in Int, NEW x \in Int, NEW y \in Int,
         Adds(u, t, p, x, q, y, m), Adds(d, c, a, x, b, y, m),
         Congruent(t, c, m), Congruent(a, p, m), Congruent(b, q, m)
  PROVE  Congruent(u, d, m)
<1>1. p * x \in Int /\ q * y \in Int /\ a * x \in Int /\ b * y \in Int
  OBVIOUS
<1>2. Congruent(a * x, p * x, m) /\ Congruent(b * y, q * y, m)
  BY CongruentProduct, CongruentRemainder
<1>3. PICK e, f, g, h : e = a * x /\ f = b * y /\ g = p * x /\ h = q * y
  OBVIOUS
<1>4. e \in Int /\ f \in Int /\ g \in Int /\ h \in Int /\ e + f \in Int /\ g + h \in Int
  BY <1>1, <1>3
<1>5. Congruent(e + f, g + h, m)
  BY <1>2, <1>3, <1>4, CongruentSum
<1>6. Congruent(c, t, m) /\ Congruent(g + h, e + f, m)
  BY <1>4, <1>5, CongruentEquivalence
<1>7. Congruent(t + (g + h), c + (e + f), m)
  BY <1>4, <1>6, CongruentSum
<1>8. t + (g + h) \in Int /\ c + (e + f) \in Int
  BY <1>4
<1>9. Congruent(u, t + (g + h), m) /\ Congruent(d, c + (e + f), m)
  BY <1>3 DEF Adds
<1>10. Congruent(u, c + (e + f), m) /\ Congruent(c + (e + f), d, m)
  BY <1>7, <1>8, <1>9, CongruentEquivalence
<1> QED BY <1>8, <1>10, CongruentEquivalence

(* A fold adds its cross terms to the commitment. *)
LEMMA CommittedFold ==
  ASSUME InnerProductAssumption, NEW n \in Nat, NEW r \in 0 .. n - 1, NEW m, m = PowerOf2(n - r - 1),
         NEW a \in [0 .. 2 * m - 1 -> Int], NEW w \in [0 .. 2 * m - 1 -> Int],
         NEW d \in [0 .. m - 1 -> Int], NEW v \in [0 .. m - 1 -> Int],
         NEW base, NEW x, x[r + 1] \in Scalars \ {0}, NEW l, NEW k,
         l[r + 1].l[k] \in Int, l[r + 1].r[k] \in Int,
         Congruent(l[r + 1].l[k], Dot(Lower(a, m), Upper(w, m), m), Order),
         Congruent(l[r + 1].r[k], Dot(Upper(a, m), Lower(w, m), m), Order),
         Folded(d, a, x[r + 1], InverseOf(x[r + 1]), m), Folded(v, w, InverseOf(x[r + 1]), x[r + 1], m),
         Committed(a, w, base, x, l, n, r, k)
  PROVE  Committed(d, v, base, x, l, n, r + 1, k)
<1>1. PICK xr, yr : xr = x[r + 1] /\ yr = InverseOf(x[r + 1])
  OBVIOUS
<1>2. xr \in Int /\ yr \in Int /\ Congruent(xr * yr, 1, Order) /\ Order \in Nat \ {0}
  BY <1>1, InverseCongruent, OrderIs
<1>3. /\ m \in Nat /\ PowerOf2(n - r) = 2 * m /\ n - (r + 1) = n - r - 1 /\ 2 * m \in Nat
      /\ r \in 0 .. n /\ r + 1 \in 1 .. r + 1 /\ r + 1 \in 0 .. r + 1 /\ r \in 0 .. r /\ (r + 1) - 1 = r
  <2>1. r \in 0 .. n /\ r < n
    OBVIOUS
  <2>2. m \in Nat /\ PowerOf2(n - r) = 2 * m
    BY <2>1, RoundHalves
  <2> QED BY <2>1, <2>2
<1>4. PICK p, q, lk, rk, t, u :
        /\ p = Dot(Lower(a, m), Upper(w, m), m) /\ q = Dot(Upper(a, m), Lower(w, m), m)
        /\ lk = l[r + 1].l[k] /\ rk = l[r + 1].r[k]
        /\ t = Dot(a, w, 2 * m) /\ u = Dot(d, v, m)
  OBVIOUS
<1>5. p \in Int /\ q \in Int /\ lk \in Int /\ rk \in Int /\ t \in Int /\ u \in Int
  <2>1. /\ Lower(a, m) \in [0 .. m - 1 -> Int] /\ Upper(a, m) \in [0 .. m - 1 -> Int]
        /\ Lower(w, m) \in [0 .. m - 1 -> Int] /\ Upper(w, m) \in [0 .. m - 1 -> Int]
    BY <1>3, HalvesType
  <2> QED BY <1>3, <1>4, <2>1, DotType
<1>6. Congruent(u, t + (p * (xr * xr) + q * (yr * yr)), Order)
  <2>1. Folded(d, a, xr, yr, m) /\ Folded(v, w, yr, xr, m)
    BY <1>1
  <2> QED BY <1>2, <1>3, <1>4, <2>1, DotOfFolded
<1> SUFFICES ASSUME NEW c, IsCorrections(c, base, x, l, r + 1, k)
             PROVE  Congruent(u, c[r + 1], Order)
  BY <1>3, <1>4 DEF Committed
<1>7. /\ c[r] \in Int /\ c[r + 1] \in Int
      /\ Congruent(c[r + 1], c[r] + (lk * (xr * xr) + rk * (yr * yr)), Order)
  <2>1. c[r] \in Int /\ c[r + 1] \in Int
    BY <1>3 DEF IsCorrections
  <2>2. \A j \in 1 .. r + 1 :
          Congruent(c[j], c[j - 1] + (l[j].l[k] * (x[j] * x[j])
                                      + l[j].r[k] * (InverseOf(x[j]) * InverseOf(x[j]))), Order)
    BY DEF IsCorrections
  <2>3. Congruent(c[r + 1], c[(r + 1) - 1] + (lk * (xr * xr) + rk * (yr * yr)), Order)
    BY <1>1, <1>3, <1>4, <2>2
  <2> QED BY <1>3, <2>1, <2>3
<1>8. Congruent(t, c[r], Order)
  <2>1. IsCorrections(c, base, x, l, r, k)
    <3>1. \A j \in 0 .. r : j \in 0 .. r + 1
      BY <1>3
    <3>2. \A j \in 1 .. r : j \in 1 .. r + 1
      BY <1>3
    <3> QED BY <3>1, <3>2 DEF IsCorrections
  <2> QED BY <1>3, <1>4, <2>1 DEF Committed
<1>9. Congruent(lk, p, Order) /\ Congruent(rk, q, Order)
  BY <1>4
<1>10. PICK c0, c1, xx, yy : c0 = c[r] /\ c1 = c[r + 1] /\ xx = xr * xr /\ yy = yr * yr
  OBVIOUS
<1>11. xx \in Int /\ yy \in Int /\ c0 \in Int /\ c1 \in Int
  BY <1>2, <1>7, <1>10
<1>12. Adds(u, t, p, xx, q, yy, Order) /\ Adds(c1, c0, lk, xx, rk, yy, Order) /\ Congruent(t, c0, Order)
  BY <1>6, <1>7, <1>8, <1>10 DEF Adds
<1>13. Congruent(u, c1, Order)
  BY ONLY <1>2, <1>5, <1>9, <1>11, <1>12, CorrectedSum
<1> QED BY <1>10, <1>13

(* Powers of two grow. *)
LEMMA PowerGrows ==
  ASSUME NEW n \in Nat, NEW r \in 0 .. n
  PROVE  PowerOf2(n) \in Nat \ {0} /\ PowerOf2(n - r) \in Nat \ {0} /\ PowerOf2(n - r) <= PowerOf2(n)
<1>1. n - r \in Nat /\ r \in Nat /\ r + (n - r) = n
  OBVIOUS
<1>2. PICK a, b, c : a = PowerOf2(r) /\ b = PowerOf2(n - r) /\ c = PowerOf2(n)
  OBVIOUS
<1>3. a \in Nat \ {0} /\ b \in Nat \ {0} /\ c \in Nat \ {0}
  BY <1>1, <1>2, PowerStep
<1>4. c = a * b
  BY <1>1, <1>2, PowerStep, DoubledSum
<1>5. b <= a * b
  BY <1>3, SMT
<1> QED BY <1>2, <1>3, <1>4, <1>5

(* What an inverse scales *)
LEMMA ScaledProduct ==
  ASSUME NEW m \in Nat \ {0}, NEW u \in Int, NEW t \in Int, NEW s \in Int, NEW z \in Int,
         NEW d \in Int, NEW y \in Int,
         Congruent(u, t * y, m), Congruent(t, s * d, m), Congruent(z, s * y, m)
  PROVE  Congruent(u, z * d, m)
<1>1. PICK p, q, r, o : p = t * y /\ q = s * d /\ r = s * y /\ o = z * d
  OBVIOUS
<1>2. p \in Int /\ q \in Int /\ r \in Int /\ o \in Int /\ q * y \in Int /\ r * d \in Int
  BY <1>1
<1>3. Congruent(y, y, m) /\ Congruent(d, d, m)
  BY CongruentRemainder
<1>4. Congruent(t, q, m) /\ Congruent(z, r, m) /\ Congruent(u, p, m)
  BY <1>1
<1>5. Congruent(p, q * y, m) /\ Congruent(o, r * d, m)
  BY <1>1, <1>2, <1>3, <1>4, CongruentProduct
<1>6. q * y = r * d
  <2>1. (s * d) * y = (s * y) * d
    BY SMT
  <2> QED BY <1>1, <2>1
<1>7. Congruent(r * d, o, m) /\ Congruent(p, r * d, m)
  BY <1>2, <1>5, <1>6, CongruentEquivalence
<1>8. Congruent(p, o, m)
  BY <1>2, <1>7, CongruentEquivalence
<1> QED BY <1>1, <1>2, <1>4, <1>8, CongruentEquivalence

(* A fold scales the product of the exponents by the inverse of its challenge. *)
LEMMA ScaledFold ==
  ASSUME InnerProductAssumption, NEW n \in Nat, NEW r \in 0 .. n - 1, NEW m, m = PowerOf2(n - r - 1),
         NEW w \in [0 .. 2 * m - 1 -> Int], NEW v \in [0 .. m - 1 -> Int],
         NEW first \in [0 .. PowerOf2(n) - 1 -> Int], NEW x, x[r + 1] \in Scalars \ {0},
         Folded(v, w, InverseOf(x[r + 1]), x[r + 1], m), Scaled(w, first, x, n, r)
  PROVE  Scaled(v, first, x, n, r + 1)
<1>1. PICK xr, yr : xr = x[r + 1] /\ yr = InverseOf(x[r + 1])
  OBVIOUS
<1>2. xr \in Int /\ yr \in Int /\ Congruent(xr * yr, 1, Order) /\ Order \in Nat \ {0}
  BY <1>1, InverseCongruent, OrderIs
<1>3. PICK N : N = PowerOf2(n)
  OBVIOUS
<1>4. /\ m \in Nat /\ PowerOf2(n - r) = 2 * m /\ n - (r + 1) = n - r - 1 /\ 2 * m \in Nat
      /\ N \in Nat /\ 2 * m <= N
      /\ r + 1 \in 1 .. r + 1 /\ r + 1 \in 0 .. r + 1 /\ r \in 0 .. r + 1 /\ (r + 1) - 1 = r /\ r \in Nat
  <2>1. r \in 0 .. n /\ r < n /\ r \in Nat
    OBVIOUS
  <2>2. m \in Nat /\ PowerOf2(n - r) = 2 * m
    BY <2>1, RoundHalves
  <2>3. N \in Nat /\ PowerOf2(n - r) <= N
    BY <1>3, <2>1, PowerGrows
  <2>4. 2 * m <= N
    BY <2>2, <2>3
  <2> QED BY <2>1, <2>2, <2>3, <2>4
<1> SUFFICES ASSUME NEW e \in [0 .. N - 1 -> Int], NEW s, IsExponents(e, x, n, r + 1), IsInverses(s, x, r + 1)
             PROVE  Congruent(Dot(Lower(e, m), v, m), s[r + 1] * Dot(e, first, N), Order)
  BY <1>3, <1>4 DEF Scaled
<1>5. PICK a : a = Lower(e, 2 * m)
  OBVIOUS
<1>6. a \in [0 .. 2 * m - 1 -> Int] /\ \A i \in 0 .. 2 * m - 1 : a[i] = e[i]
  <2>1. \A i \in 0 .. 2 * m - 1 : i \in 0 .. N - 1
    BY <1>4, SMTT(30)
  <2> QED BY <1>5, <2>1 DEF Lower
<1>7. \A i \in 0 .. m - 1 : i \in 0 .. 2 * m - 1 /\ m + i \in 0 .. 2 * m - 1
  BY ONLY <1>4, SMT
<1>8. Squared(a, xr, m)
  <2>1. Squared(e, x[r + 1], PowerOf2(n - (r + 1)))
    BY <1>4 DEF IsExponents
  <2>2. Squared(e, xr, m)
    BY <1>1, <1>4, <2>1
  <2>3. \A i \in 0 .. m - 1 : Upper(e, m)[i] = Upper(a, m)[i] /\ Lower(e, m)[i] = Lower(a, m)[i]
    BY <1>6, <1>7 DEF Upper, Lower
  <2> QED BY <2>2, <2>3 DEF Squared
<1>9. Lower(a, m) = Lower(e, m)
  BY <1>6, <1>7 DEF Lower
<1>10. Congruent(Dot(Lower(e, m), v, m), Dot(a, w, 2 * m) * yr, Order)
  <2>1. Folded(v, w, yr, xr, m)
    BY <1>1
  <2> QED BY <1>2, <1>4, <1>6, <1>8, <1>9, <2>1, DotOfSquared
<1>11. PICK s0, s1, d, t, u :
         /\ s0 = s[r] /\ s1 = s[r + 1] /\ d = Dot(e, first, N) /\ t = Dot(a, w, 2 * m)
         /\ u = Dot(Lower(e, m), v, m)
  OBVIOUS
<1>12. s0 \in Int /\ s1 \in Int /\ d \in Int /\ t \in Int /\ u \in Int
  <2>1. s0 \in Int /\ s1 \in Int
    BY <1>4, <1>11 DEF IsInverses
  <2>2. Lower(a, m) \in [0 .. m - 1 -> Int]
    BY <1>4, <1>6, HalvesType
  <2>3. t \in Int /\ u \in Int
    BY <1>4, <1>6, <1>9, <1>11, <2>2, DotType
  <2>4. d \in Int
    BY <1>3, <1>4, <1>11, DotType
  <2> QED BY <2>1, <2>3, <2>4
<1>13. Congruent(s1, s0 * yr, Order)
  BY <1>1, <1>4, <1>11 DEF IsInverses
<1>14. Congruent(t, s0 * d, Order)
  <2>1. \A j \in 1 .. r : j \in 1 .. r + 1
    BY <1>4
  <2>2. \A j \in 0 .. r : j \in 0 .. r + 1
    BY <1>4
  <2>3. IsExponents(e, x, n, r)
    BY <2>1 DEF IsExponents
  <2>4. IsInverses(s, x, r)
    BY <2>1, <2>2 DEF IsInverses
  <2> QED BY <1>3, <1>4, <1>5, <1>11, <2>3, <2>4 DEF Scaled
<1>15. Congruent(u, t * yr, Order)
  BY <1>10, <1>11
<1>16. Congruent(u, s1 * d, Order)
  BY ONLY <1>2, <1>12, <1>13, <1>14, <1>15, ScaledProduct
<1> QED BY <1>11, <1>16

-----------------------------------------------------------------------------
(* The rounds of a problem *)

BasisOf(p) == 0 .. PowerOf2(RoundsOf(p))
ElementsOf(p) == [BasisOf(p) -> Scalars]

(* What prove_inner_product starts from *)
CallerVectors(p) ==
  [a |-> FromSeq(p.a), b |-> FromSeq(p.b),
   g |-> [i \in 0 .. PowerOf2(RoundsOf(p)) - 1 |-> [k \in BasisOf(p) |-> IF k = i + 1 THEN 1 ELSE 0]]]

(* The weights of the caller's vectors, and the coefficient of their commitment *)
FirstWeights(p, k) == Weights(CallerVectors(p).b, CallerVectors(p).g, k, PowerOf2(RoundsOf(p)))
Start(p, k) ==
  Dot(Padded(CallerVectors(p).a, PowerOf2(RoundsOf(p))), FirstWeights(p, k), PowerOf2(RoundsOf(p)))

(* Vectors of s scalars, and whole ones of n elements *)
AreVectors(p, v, s, n) ==
  /\ v.a \in [0 .. s - 1 -> Scalars] /\ v.b \in [0 .. s - 1 -> Scalars]
  /\ v.g \in [0 .. n - 1 -> ElementsOf(p)]

(* What holds of a and the weights after r rounds *)
Kept(p, x, l, r, a, w, k) ==
  /\ Committed(a, w, Start(p, k), x, l, RoundsOf(p), r, k)
  /\ Scaled(w, FirstWeights(p, k), x, RoundsOf(p), r)

(* What holds of the vectors of round r: b and a are longer than their half. *)
RoundKept(p, x, l, r, v) ==
  LET N == PowerOf2(RoundsOf(p) - r) IN
  \E s \in PowerOf2(RoundsOf(p) - r - 1) .. N :
    /\ AreVectors(p, v, s, N)
    /\ \A k \in BasisOf(p) : Kept(p, x, l, r, Padded(v.a, N), Weights(v.b, v.g, k, N), k)

(* The one scalar that is left, times the weight that is left, is the commitment. *)
FinalKept(p, x, l, a) ==
  /\ a \in Scalars
  /\ \A k \in BasisOf(p) : \E w \in Int :
       /\ \A c : IsCorrections(c, Start(p, k), x, l, RoundsOf(p), k) => Congruent(a * w, c[RoundsOf(p)], Order)
       /\ \A e \in [0 .. PowerOf2(RoundsOf(p)) - 1 -> Int] : \A s :
            IsExponents(e, x, RoundsOf(p), RoundsOf(p)) /\ IsInverses(s, x, RoundsOf(p)) =>
              Congruent(e[0] * w, s[RoundsOf(p)] * Dot(e, FirstWeights(p, k), PowerOf2(RoundsOf(p))), Order)

(* The weights are numbers, whoever's vectors they are of. *)
LEMMA NumberWeights ==
  ASSUME InnerProductAssumption, NEW p \in InnerProblems, NEW n \in Nat,
         NEW g \in [0 .. n - 1 -> ElementsOf(p)], NEW s \in Nat, NEW b \in [0 .. s - 1 -> Scalars],
         NEW k \in BasisOf(p)
  PROVE  Weights(b, g, k, n) \in [0 .. n - 1 -> Int]
<1>1. Unit(k) \in Int /\ Scalars \subseteq Int
  BY OrderIs DEF Unit
<1>2. \A i \in 0 .. n - 1 : g[i][k] \in Int
  BY <1>1 DEF ElementsOf
<1>3. b \in [0 .. s - 1 -> Int]
  BY <1>1
<1>4. \A i \in 0 .. n - 1 : Padded(b, n)[i] \in Int
  BY <1>3, PaddedType
<1>5. \A i \in 0 .. n - 1 : Unit(k) * Padded(b, n)[i] \in Int
  BY <1>1, <1>4
<1>6. \A i \in 0 .. n - 1 : g[i][k] + Unit(k) * Padded(b, n)[i] \in Int
  BY <1>2, <1>5
<1> QED BY <1>6 DEF Weights

(* What the caller gives *)
LEMMA CallerVectorsAre ==
  ASSUME InnerProductAssumption, NEW p \in InnerProblems
  PROVE  LET N == PowerOf2(RoundsOf(p)) IN
         /\ Len(p.a) \in Nat \ {0} /\ N \in Nat \ {0} /\ Len(p.a) <= N
         /\ AreVectors(p, CallerVectors(p), Len(p.a), N)
         /\ CallerVectors(p).a[0] = p.a[1]
         /\ Padded(CallerVectors(p).a, N) \in [0 .. N - 1 -> Int]
         /\ \A k \in BasisOf(p) : FirstWeights(p, k) \in [0 .. N - 1 -> Int] /\ Start(p, k) \in Int
<1> DEFINE N == PowerOf2(RoundsOf(p))
           z == Len(p.a)
           v == CallerVectors(p)
<1>1. /\ p.a \in Seq(Scalars) /\ p.b \in Seq(Scalars) /\ Len(p.b) = z /\ z \in Nat \ {0}
      /\ RoundsOf(p) \in Nat /\ z <= N
  BY RoundsAre
<1>2. N \in Nat \ {0}
  BY <1>1, PowerStep
<1>3. 0 \in Scalars /\ 1 \in Scalars /\ Scalars \subseteq Int
  BY OrderIs
<1>4. \A i \in 0 .. z - 1 : i + 1 \in 1 .. z
  BY <1>1
<1>5. v.a = [i \in 0 .. z - 1 |-> p.a[i + 1]] /\ v.b = [i \in 0 .. z - 1 |-> p.b[i + 1]]
  BY <1>1 DEF CallerVectors, FromSeq, Vector
<1>6. v.a \in [0 .. z - 1 -> Scalars] /\ v.b \in [0 .. z - 1 -> Scalars]
  BY <1>1, <1>4, <1>5
<1>7. v.g = [i \in 0 .. N - 1 |-> [k \in BasisOf(p) |-> IF k = i + 1 THEN 1 ELSE 0]]
  BY DEF CallerVectors
<1>8. v.g \in [0 .. N - 1 -> ElementsOf(p)]
  BY <1>3, <1>7 DEF ElementsOf
<1>9. AreVectors(p, v, z, N)
  BY <1>6, <1>8 DEF AreVectors
<1>10. v.a[0] = p.a[1]
  <2>1. 0 \in 0 .. z - 1 /\ 0 + 1 = 1
    BY <1>1
  <2> QED BY <1>5, <2>1
<1>11. Padded(v.a, N) \in [0 .. N - 1 -> Int]
  <2>1. v.a \in [0 .. z - 1 -> Int] /\ z \in Nat /\ N \in Nat
    BY <1>1, <1>2, <1>3, <1>6
  <2> QED BY <2>1, PaddedType
<1>12. ASSUME NEW k \in BasisOf(p) PROVE FirstWeights(p, k) \in [0 .. N - 1 -> Int]
  BY <1>1, <1>2, <1>6, <1>8, NumberWeights DEF FirstWeights
<1>13. ASSUME NEW k \in BasisOf(p) PROVE Start(p, k) \in Int
  BY <1>2, <1>11, <1>12, DotType DEF Start
<1> QED BY <1>1, <1>2, <1>9, <1>10, <1>11, <1>12, <1>13

(* The weight of a single scalar *)
OneWeight(p, x, l, a) ==
  \A k \in BasisOf(p) : \E f \in [0 .. 0 -> Int] : Kept(p, x, l, RoundsOf(p), a, f, k)

(* Vectors of length 1 are a scalar and its weight. *)
LEMMA LastScalar ==
  ASSUME InnerProductAssumption, NEW p \in InnerProblems, NEW x, NEW l, NEW a \in [0 .. 0 -> Scalars],
         OneWeight(p, x, l, a)
  PROVE  FinalKept(p, x, l, a[0])
<1>1. PICK n, N : n = RoundsOf(p) /\ N = PowerOf2(n)
  OBVIOUS
<1>2. n \in Nat /\ n - n = 0 /\ N \in Nat \ {0} /\ PowerOf2(n - n) = 1 /\ Scalars \subseteq Int /\ a[0] \in Scalars
  <2>1. n \in Nat
    BY <1>1, RoundsAre
  <2> QED BY <1>1, <2>1, PowerStep, OrderIs
<1>3. a \in [0 .. 0 -> Int]
  BY <1>2
<1>4. ASSUME NEW k \in BasisOf(p)
      PROVE  \E w \in Int :
               /\ \A c : IsCorrections(c, Start(p, k), x, l, n, k) => Congruent(a[0] * w, c[n], Order)
               /\ \A e \in [0 .. N - 1 -> Int] : \A s :
                    IsExponents(e, x, n, n) /\ IsInverses(s, x, n) =>
                      Congruent(e[0] * w, s[n] * Dot(e, FirstWeights(p, k), N), Order)
  <2>1. PICK f \in [0 .. 0 -> Int] : Kept(p, x, l, n, a, f, k)
    BY <1>1 DEF OneWeight
  <2>2. ASSUME NEW e \in [0 .. 0 -> Int] PROVE Dot(e, f, 1) = e[0] * f[0] /\ Lower(e, 1) = e
    <3>1. 1 \in Nat /\ 1 - 1 = 0 /\ 0 \in 0 .. 1 - 1 /\ \A i \in 0 .. 1 - 1 : i = 0
      OBVIOUS
    <3>2. e \in [0 .. 1 - 1 -> Int] /\ f \in [0 .. 1 - 1 -> Int] /\ OnlyAt(f, 0, 1)
      BY <2>1, <3>1 DEF OnlyAt
    <3>3. e = [i \in 0 .. 1 - 1 |-> e[i]]
      BY <3>1
    <3>4. PICK one, zero : one = 1 /\ zero = 0
      OBVIOUS
    <3>5. /\ one \in Nat /\ zero \in 0 .. one - 1 /\ OnlyAt(f, zero, one)
          /\ e \in [0 .. one - 1 -> Int] /\ f \in [0 .. one - 1 -> Int]
      BY <3>1, <3>2, <3>4
    <3>6. Dot(e, f, one) = e[zero] * f[zero]
      BY <3>5, DotOfOne
    <3>7. Dot(e, f, 1) = e[0] * f[0]
      BY <3>4, <3>6
    <3> QED BY <3>3, <3>7 DEF Lower
  <2>3. Committed(a, f, Start(p, k), x, l, n, n, k) /\ Scaled(f, FirstWeights(p, k), x, n, n)
    BY <1>1, <2>1 DEF Kept
  <2>4. f[0] \in Int
    BY <2>1
  <2>5. \A c : IsCorrections(c, Start(p, k), x, l, n, k) => Congruent(a[0] * f[0], c[n], Order)
    BY <1>2, <1>3, <2>2, <2>3 DEF Committed
  <2>6. ASSUME NEW e \in [0 .. N - 1 -> Int], NEW s, IsExponents(e, x, n, n), IsInverses(s, x, n)
        PROVE  Congruent(e[0] * f[0], s[n] * Dot(e, FirstWeights(p, k), N), Order)
    <3>1. PICK d : d = Lower(e, 1)
      OBVIOUS
    <3>2. d \in [0 .. 0 -> Int] /\ d[0] = e[0]
      <4>1. 0 .. 1 - 1 = 0 .. 0 /\ \A i \in 0 .. 0 : i \in 0 .. N - 1
        BY <1>2
      <4> QED BY <3>1, <4>1 DEF Lower
    <3>3. Dot(d, f, 1) = e[0] * f[0]
      BY <2>2, <3>2
    <3>4. Congruent(Dot(d, f, 1), s[n] * Dot(e, FirstWeights(p, k), N), Order)
      BY <1>1, <1>2, <2>3, <2>6, <3>1 DEF Scaled
    <3> QED BY <3>3, <3>4
  <2> QED BY <2>4, <2>5, <2>6
<1> QED BY <1>1, <1>2, <1>4 DEF FinalKept

(* The first round has the caller's vectors. *)
LEMMA FirstRound ==
  ASSUME InnerProductAssumption, NEW p \in InnerProblems, NEW x, NEW l
  PROVE  /\ RoundsOf(p) # 0 => RoundKept(p, x, l, 0, CallerVectors(p))
         /\ RoundsOf(p) = 0 => FinalKept(p, x, l, p.a[1])
<1>1. PICK n, N, v, z : n = RoundsOf(p) /\ N = PowerOf2(n) /\ v = CallerVectors(p) /\ z = Len(p.a)
  OBVIOUS
<1>2. /\ z \in Nat \ {0} /\ N \in Nat \ {0} /\ z <= N /\ AreVectors(p, v, z, N) /\ v.a[0] = p.a[1]
      /\ Padded(v.a, N) \in [0 .. N - 1 -> Int]
      /\ \A k \in BasisOf(p) : FirstWeights(p, k) \in [0 .. N - 1 -> Int] /\ Start(p, k) \in Int
  BY <1>1, CallerVectorsAre
<1>3. n \in Nat /\ n - 0 = n /\ n - 0 - 1 = n - 1 /\ (n # 0 => PowerOf2(n - 1) < z) /\ (n = 0 => z = 1)
  BY <1>1, RoundsAre
<1>4. Order \in Nat \ {0} /\ Scalars \subseteq Int
  BY OrderIs
<1>5. ASSUME NEW k \in BasisOf(p)
      PROVE  Kept(p, x, l, 0, Padded(v.a, N), Weights(v.b, v.g, k, N), k)
  <2>1. Weights(v.b, v.g, k, N) = FirstWeights(p, k)
    BY <1>1 DEF FirstWeights
  <2>2. Start(p, k) = Dot(Padded(v.a, N), FirstWeights(p, k), N)
    BY <1>1 DEF Start
  <2>3. /\ Committed(Padded(v.a, N), FirstWeights(p, k), Dot(Padded(v.a, N), FirstWeights(p, k), N), x, l, n, 0, k)
        /\ Scaled(FirstWeights(p, k), FirstWeights(p, k), x, n, 0)
    BY <1>1, <1>2, <1>3, TrackedFirst
  <2> QED BY <1>1, <2>1, <2>2, <2>3 DEF Kept
<1>6. CASE n # 0
  <2>1. z \in PowerOf2(n - 1) .. N
    <3>1. n - 1 \in Nat
      BY <1>3, <1>6
    <3>2. PowerOf2(n - 1) \in Nat
      BY <3>1, PowerStep
    <3> QED BY <1>2, <1>3, <1>6, <3>2
  <2>2. RoundKept(p, x, l, 0, v)
    BY <1>1, <1>2, <1>3, <1>5, <2>1 DEF RoundKept
  <2> QED BY <1>1, <1>6, <2>2
<1>7. CASE n = 0
  <2>1. N = 1 /\ z = 1
    BY <1>1, <1>3, <1>7, PowerStep
  <2>2. v.a \in [0 .. 0 -> Int] /\ v.a[0] \in Scalars /\ Padded(v.a, 1) = v.a
    <3>1. v.a \in [0 .. 1 - 1 -> Scalars] /\ 1 - 1 = 0
      BY <1>2, <2>1 DEF AreVectors
    <3>2. v.a \in [0 .. 1 - 1 -> Int]
      BY <1>4, <3>1
    <3>3. DOMAIN v.a = 0 .. 1 - 1 /\ v.a = [i \in DOMAIN v.a |-> v.a[i]]
      BY <3>2
    <3>4. Padded(v.a, 1) = v.a
      BY <3>3 DEF Padded
    <3> QED BY <3>1, <3>2, <3>4
  <2>3. OneWeight(p, x, l, v.a)
    <3>1. \A k \in BasisOf(p) : FirstWeights(p, k) \in [0 .. 0 -> Int] /\ Weights(v.b, v.g, k, N) = FirstWeights(p, k)
      <4>1. \A k \in BasisOf(p) : FirstWeights(p, k) \in [0 .. 1 - 1 -> Int] /\ 1 - 1 = 0
        BY <1>2, <2>1
      <4>2. \A k \in BasisOf(p) : Weights(v.b, v.g, k, N) = FirstWeights(p, k)
        BY <1>1 DEF FirstWeights
      <4> QED BY <4>1, <4>2
    <3> QED BY <1>1, <1>5, <1>7, <2>1, <2>2, <3>1 DEF OneWeight
  <2>4. v.a \in [0 .. 0 -> Scalars]
    <3>1. v.a \in [0 .. 1 - 1 -> Scalars] /\ 1 - 1 = 0
      BY <1>2, <2>1 DEF AreVectors
    <3> QED BY <3>1
  <2>5. FinalKept(p, x, l, p.a[1])
    BY <1>2, <2>3, <2>4, LastScalar
  <2> QED BY <1>1, <1>7, <2>5
<1> QED BY <1>1, <1>6, <1>7

(* The names of the module, for the problem it is about *)
LEMMA ProblemIs ==
  /\ NumRounds = RoundsOf(innerProblem) /\ PaddedSize = PowerOf2(RoundsOf(innerProblem))
  /\ Basis = BasisOf(innerProblem) /\ Elements = ElementsOf(innerProblem)
  /\ Generators = CallerVectors(innerProblem).g
  /\ FromSeq(innerProblem.a) = CallerVectors(innerProblem).a /\ FromSeq(innerProblem.b) = CallerVectors(innerProblem).b
<1>1. NumRounds = RoundsOf(innerProblem)
  BY DEF NumRounds, RoundsOf
<1>2. PaddedSize = PowerOf2(RoundsOf(innerProblem))
  BY <1>1 DEF PaddedSize
<1>3. Basis = BasisOf(innerProblem)
  BY <1>2 DEF Basis, BasisOf
<1>4. Elements = ElementsOf(innerProblem)
  BY <1>3 DEF Elements, ElementsOf
<1>5. Generators = CallerVectors(innerProblem).g
  BY <1>2, <1>3 DEF Generators, Vector, CallerVectors
<1>6. FromSeq(innerProblem.a) = CallerVectors(innerProblem).a /\ FromSeq(innerProblem.b) = CallerVectors(innerProblem).b
  BY DEF CallerVectors
<1> QED BY <1>1, <1>2, <1>3, <1>4, <1>5, <1>6

(* The commitment that a driver makes, of vectors and of a whole problem *)
CommitTo(g, x, y) == Plus(Multiexponentiate(g, x), Times(ScalarProduct(x, y), Q))

(* The cross terms of the halves of the vectors of round r *)
AreCrossTerms(p, r, v, t) ==
  LET N == PowerOf2(RoundsOf(p) - r)
      m == PowerOf2(RoundsOf(p) - r - 1) IN
  /\ t.l \in ElementsOf(p) /\ t.r \in ElementsOf(p)
  /\ \A k \in BasisOf(p) :
       LET a == Padded(v.a, N)
           w == Weights(v.b, v.g, k, N) IN
       /\ Congruent(t.l[k], Dot(Lower(a, m), Upper(w, m), m), Order)
       /\ Congruent(t.r[k], Dot(Upper(a, m), Lower(w, m), m), Order)

(* The sizes of a round, and its vectors *)
LEMMA VectorsOfRound ==
  ASSUME InnerProductAssumption, NEW p \in InnerProblems, NEW r \in 0 .. RoundsOf(p) - 1,
         NEW x, NEW l, NEW v, RoundKept(p, x, l, r, v)
  PROVE  LET m == PowerOf2(RoundsOf(p) - r - 1) IN
         /\ RoundsOf(p) \in Nat /\ r \in 0 .. RoundsOf(p) /\ r < RoundsOf(p)
         /\ m \in Nat \ {0} /\ PowerOf2(RoundsOf(p) - r) = 2 * m
         /\ \E s \in m .. 2 * m :
              /\ AreVectors(p, v, s, 2 * m)
              /\ \A k \in BasisOf(p) : Kept(p, x, l, r, Padded(v.a, 2 * m), Weights(v.b, v.g, k, 2 * m), k)
<1>1. RoundsOf(p) \in Nat
  BY RoundsAre
<1>2. r \in 0 .. RoundsOf(p) /\ r < RoundsOf(p)
  BY <1>1
<1>3. PICK m : m = PowerOf2(RoundsOf(p) - r - 1)
  OBVIOUS
<1>4. m \in Nat \ {0} /\ PowerOf2(RoundsOf(p) - r) = 2 * m
  BY <1>1, <1>2, <1>3, RoundHalves
<1>5. PICK s \in m .. 2 * m :
        /\ AreVectors(p, v, s, 2 * m)
        /\ \A k \in BasisOf(p) : Kept(p, x, l, r, Padded(v.a, 2 * m), Weights(v.b, v.g, k, 2 * m), k)
  BY <1>3, <1>4 DEF RoundKept
<1> QED BY <1>1, <1>2, <1>3, <1>4, <1>5

(* commit_to_fold publishes the cross terms. *)
LEMMA CommitToHalves ==
  ASSUME InnerProductAssumption, innerProblem \in InnerProblems, NEW r \in 0 .. RoundsOf(innerProblem) - 1,
         NEW x, NEW l, NEW v, RoundKept(innerProblem, x, l, r, v), NEW m, m = MidOf(v)
  PROVE  /\ m = PowerOf2(RoundsOf(innerProblem) - r - 1)
         /\ AreCrossTerms(innerProblem, r, v,
              [l |-> CommitTo(HighHalf(v.g, m), LowHalf(v.a, m), HighHalf(v.b, m)),
               r |-> CommitTo(LowHalf(v.g, m), HighHalf(v.a, m), LowHalf(v.b, m))])
<1>1. PICK h : h = PowerOf2(RoundsOf(innerProblem) - r - 1)
  OBVIOUS
<1>2. /\ h \in Nat \ {0} /\ PowerOf2(RoundsOf(innerProblem) - r) = 2 * h
      /\ \E s \in h .. 2 * h : AreVectors(innerProblem, v, s, 2 * h)
  BY <1>1, VectorsOfRound
<1>3. PICK s \in h .. 2 * h : AreVectors(innerProblem, v, s, 2 * h)
  BY <1>2
<1>4. Order \in Nat \ {0} /\ Scalars \subseteq Int
  BY OrderIs
<1>5. /\ v.a \in [0 .. s - 1 -> Scalars] /\ v.b \in [0 .. s - 1 -> Scalars] /\ v.g \in [0 .. 2 * h - 1 -> ElementsOf(innerProblem)]
      /\ Elements = ElementsOf(innerProblem) /\ Basis = BasisOf(innerProblem)
  BY <1>3, ProblemIs DEF AreVectors
<1>6. /\ v.a \in [0 .. s - 1 -> Int] /\ v.b \in [0 .. s - 1 -> Int] /\ IsVectorOf(v.g, 2 * h)
      /\ 2 * h \in Nat /\ h \in Nat /\ s \in Nat
  <2>1. 2 * h \in Nat /\ h \in Nat /\ s \in Nat
    BY <1>2
  <2>2. v.a \in [0 .. s - 1 -> Int] /\ v.b \in [0 .. s - 1 -> Int]
    BY <1>4, <1>5
  <2>3. v.g \in [0 .. 2 * h - 1 -> Elements]
    BY <1>5
  <2> QED BY <2>1, <2>2, <2>3 DEF IsVectorOf
<1>7. m = h
  <2>1. Size(v.g) = 2 * h
    BY <1>5, <1>6, SizeIs
  <2>2. ((2 * h) \div 2) = h
    BY <1>6
  <2> QED BY <2>1, <2>2 DEF MidOf
<1>8. /\ LowHalf(v.a, h) \in [0 .. h - 1 -> Int] /\ HighHalf(v.a, h) \in [0 .. (s - h) - 1 -> Int]
      /\ LowHalf(v.b, h) \in [0 .. h - 1 -> Int] /\ HighHalf(v.b, h) \in [0 .. (s - h) - 1 -> Int]
      /\ s - h \in Nat /\ s - h <= h
      /\ Padded(LowHalf(v.a, h), h) = Lower(Padded(v.a, 2 * h), h)
      /\ Padded(HighHalf(v.a, h), h) = Upper(Padded(v.a, 2 * h), h)
  BY <1>6, HalvesArePadded
<1>9. ASSUME NEW k \in Basis
      PROVE  /\ IsVectorOf(LowHalf(v.g, h), h) /\ IsVectorOf(HighHalf(v.g, h), h)
             /\ Weights(LowHalf(v.b, h), LowHalf(v.g, h), k, h) = Lower(Weights(v.b, v.g, k, 2 * h), h)
             /\ Weights(HighHalf(v.b, h), HighHalf(v.g, h), k, h) = Upper(Weights(v.b, v.g, k, 2 * h), h)
  BY <1>6, HalvesOfWeights
<1>10. IsVectorOf(LowHalf(v.g, h), h) /\ IsVectorOf(HighHalf(v.g, h), h)
  <2>1. 0 \in Basis
    BY RoundsAre, PowerStep, ProblemIs DEF BasisOf
  <2> QED BY <1>9, <2>1
<1> DEFINE L == CommitTo(HighHalf(v.g, h), LowHalf(v.a, h), HighHalf(v.b, h))
           R == CommitTo(LowHalf(v.g, h), HighHalf(v.a, h), LowHalf(v.b, h))
<1>11. /\ L \in Elements
       /\ \A k \in Basis : Congruent(L[k], Dot(Padded(LowHalf(v.a, h), h),
                                                Weights(HighHalf(v.b, h), HighHalf(v.g, h), k, h), h), Order)
  BY <1>6, <1>8, <1>10, CommitmentIs DEF CommitTo
<1>12. /\ R \in Elements
       /\ \A k \in Basis : Congruent(R[k], Dot(Padded(HighHalf(v.a, h), h),
                                                Weights(LowHalf(v.b, h), LowHalf(v.g, h), k, h), h), Order)
  <2>1. h <= h
    BY <1>6
  <2> QED BY <1>6, <1>8, <1>10, <2>1, CommitmentIs DEF CommitTo
<1> HIDE DEF L, R
<1>13. AreCrossTerms(innerProblem, r, v, [l |-> L, r |-> R])
  <2> DEFINE t == [l |-> L, r |-> R]
  <2>1. t.l = L /\ t.r = R
    OBVIOUS
  <2> HIDE DEF t
  <2>2. t.l \in ElementsOf(innerProblem) /\ t.r \in ElementsOf(innerProblem)
    BY <1>5, <1>11, <1>12, <2>1
  <2>3. ASSUME NEW k \in BasisOf(innerProblem)
        PROVE  /\ Congruent(t.l[k], Dot(Lower(Padded(v.a, 2 * h), h), Upper(Weights(v.b, v.g, k, 2 * h), h), h), Order)
               /\ Congruent(t.r[k], Dot(Upper(Padded(v.a, 2 * h), h), Lower(Weights(v.b, v.g, k, 2 * h), h), h), Order)
    <3>1. k \in Basis
      BY <1>5
    <3>2. Congruent(L[k], Dot(Lower(Padded(v.a, 2 * h), h), Upper(Weights(v.b, v.g, k, 2 * h), h), h), Order)
      BY <1>8, <1>9, <1>11, <3>1
    <3>3. Congruent(R[k], Dot(Upper(Padded(v.a, 2 * h), h), Lower(Weights(v.b, v.g, k, 2 * h), h), h), Order)
      BY <1>8, <1>9, <1>12, <3>1
    <3> QED BY <2>1, <3>2, <3>3
  <2>4. AreCrossTerms(innerProblem, r, v, t)
    BY <1>1, <1>2, <2>2, <2>3 DEF AreCrossTerms
  <2> QED BY <2>4 DEF t
<1> QED BY <1>1, <1>7, <1>13 DEF L, R

(* A fold keeps the commitment, with what was published for the round. *)
LEMMA FoldKeeps ==
  ASSUME InnerProductAssumption, innerProblem \in InnerProblems, NEW r \in 0 .. RoundsOf(innerProblem) - 1,
         NEW x, NEW l, NEW v, RoundKept(innerProblem, x, l, r, v), AreCrossTerms(innerProblem, r, v, l[r + 1]),
         x[r + 1] \in Scalars \ {0}, NEW m, m = PowerOf2(RoundsOf(innerProblem) - r - 1)
  PROVE  LET low == x[r + 1]
             high == InverseOf(x[r + 1])
             a == FoldScalars(v.a, low, high, m)
             b == FoldScalars(v.b, high, low, m)
             g == FoldGenerators(v.g, high, low, m) IN
         /\ a \in [0 .. m - 1 -> Scalars] /\ b \in [0 .. m - 1 -> Scalars] /\ g \in [0 .. m - 1 -> ElementsOf(innerProblem)]
         /\ \A k \in BasisOf(innerProblem) : Kept(innerProblem, x, l, r + 1, a, Weights(b, g, k, m), k)
<1>1. PICK n, low, high : n = RoundsOf(innerProblem) /\ low = x[r + 1] /\ high = InverseOf(x[r + 1])
  OBVIOUS
<1>2. PICK a, b, g : /\ a = FoldScalars(v.a, low, high, m) /\ b = FoldScalars(v.b, high, low, m)
                     /\ g = FoldGenerators(v.g, high, low, m)
  OBVIOUS
<1>3. /\ m \in Nat \ {0} /\ PowerOf2(n - r) = 2 * m /\ n \in Nat /\ r \in 0 .. n - 1
      /\ \E s \in m .. 2 * m :
           /\ AreVectors(innerProblem, v, s, 2 * m)
           /\ \A k \in BasisOf(innerProblem) :
                Kept(innerProblem, x, l, r, Padded(v.a, 2 * m), Weights(v.b, v.g, k, 2 * m), k)
  BY <1>1, VectorsOfRound
<1>4. PICK s \in m .. 2 * m :
        /\ AreVectors(innerProblem, v, s, 2 * m)
        /\ \A k \in BasisOf(innerProblem) :
             Kept(innerProblem, x, l, r, Padded(v.a, 2 * m), Weights(v.b, v.g, k, 2 * m), k)
  BY <1>3
<1>5. Order \in Nat \ {0} /\ Scalars \subseteq Int /\ low \in Scalars /\ high \in Scalars /\ low \in Int /\ high \in Int
  BY <1>1, OrderIs, InverseCongruent
<1>6. 2 * m \in Nat /\ m \in Nat /\ s \in Nat
  BY <1>3
<1>7. /\ v.a \in [0 .. s - 1 -> Int] /\ v.b \in [0 .. s - 1 -> Int] /\ IsVectorOf(v.g, 2 * m)
      /\ Elements = ElementsOf(innerProblem) /\ Basis = BasisOf(innerProblem)
  <2>1. v.a \in [0 .. s - 1 -> Scalars] /\ v.b \in [0 .. s - 1 -> Scalars] /\ v.g \in [0 .. 2 * m - 1 -> ElementsOf(innerProblem)]
    BY <1>4 DEF AreVectors
  <2>2. Elements = ElementsOf(innerProblem) /\ Basis = BasisOf(innerProblem)
    BY ProblemIs
  <2>3. v.g \in [0 .. 2 * m - 1 -> Elements]
    BY <2>1, <2>2
  <2>4. v.a \in [0 .. s - 1 -> Int] /\ v.b \in [0 .. s - 1 -> Int]
    BY <1>5, <2>1
  <2> QED BY <1>6, <2>2, <2>3, <2>4 DEF IsVectorOf
<1>8. a \in [0 .. m - 1 -> Scalars] /\ Folded(a, Padded(v.a, 2 * m), low, high, m)
  BY <1>2, <1>5, <1>6, <1>7, FoldScalarsIs
<1>9. b \in [0 .. m - 1 -> Scalars]
  BY <1>2, <1>5, <1>6, <1>7, FoldScalarsIs
<1>10. /\ IsVectorOf(g, m)
       /\ \A k \in Basis : Folded(Weights(b, g, k, m), Weights(v.b, v.g, k, 2 * m), high, low, m)
  BY <1>2, <1>5, <1>6, <1>7, WeightsFolded
<1>11. g \in [0 .. m - 1 -> ElementsOf(innerProblem)]
  BY <1>7, <1>10 DEF IsVectorOf
<1>12. ASSUME NEW k \in BasisOf(innerProblem)
       PROVE  Kept(innerProblem, x, l, r + 1, a, Weights(b, g, k, m), k)
  <2>1. PICK d, w, y : d = Padded(v.a, 2 * m) /\ w = Weights(v.b, v.g, k, 2 * m) /\ y = Weights(b, g, k, m)
    OBVIOUS
  <2>2. k \in Basis
    BY <1>7
  <2>3. d \in [0 .. 2 * m - 1 -> Int]
    BY <1>6, <1>7, <2>1, PaddedType
  <2>4. w \in [0 .. 2 * m - 1 -> Int]
    BY <1>6, <1>7, <2>1, <2>2, WeightsType
  <2>5. a \in [0 .. m - 1 -> Int] /\ b \in [0 .. m - 1 -> Int]
    BY <1>5, <1>8, <1>9
  <2>6. y \in [0 .. m - 1 -> Int]
    BY <1>6, <1>10, <2>1, <2>2, <2>5, WeightsType
  <2>7. /\ l[r + 1].l[k] \in Int /\ l[r + 1].r[k] \in Int
        /\ Congruent(l[r + 1].l[k], Dot(Lower(d, m), Upper(w, m), m), Order)
        /\ Congruent(l[r + 1].r[k], Dot(Upper(d, m), Lower(w, m), m), Order)
    <3>1. l[r + 1].l \in ElementsOf(innerProblem) /\ l[r + 1].r \in ElementsOf(innerProblem)
      BY DEF AreCrossTerms
    <3>2. l[r + 1].l[k] \in Int /\ l[r + 1].r[k] \in Int
      BY <1>5, <3>1 DEF ElementsOf
    <3> QED BY <1>1, <1>3, <2>1, <3>2 DEF AreCrossTerms
  <2>8. Committed(d, w, Start(innerProblem, k), x, l, n, r, k) /\ Scaled(w, FirstWeights(innerProblem, k), x, n, r)
    BY <1>1, <1>4, <2>1 DEF Kept
  <2>9. m = PowerOf2(n - r - 1)
    BY <1>1
  <2>10. Folded(a, d, x[r + 1], InverseOf(x[r + 1]), m) /\ Folded(y, w, InverseOf(x[r + 1]), x[r + 1], m)
    BY <1>1, <1>8, <1>10, <2>1, <2>2
  <2>11. Committed(a, y, Start(innerProblem, k), x, l, n, r + 1, k)
    BY <1>3, <2>3, <2>4, <2>5, <2>6, <2>7, <2>8, <2>9, <2>10, CommittedFold
  <2>12. FirstWeights(innerProblem, k) \in [0 .. PowerOf2(n) - 1 -> Int]
    BY <1>1, CallerVectorsAre
  <2>13. Scaled(y, FirstWeights(innerProblem, k), x, n, r + 1)
    BY <1>3, <2>4, <2>6, <2>8, <2>9, <2>10, <2>12, ScaledFold
  <2> QED BY <1>1, <2>1, <2>11, <2>13 DEF Kept
<1> QED BY <1>1, <1>2, <1>8, <1>9, <1>11, <1>12

(* What holds for every coefficient after a fold *)
AllKept(p, x, l, r, a, b, g, m) == \A k \in BasisOf(p) : Kept(p, x, l, r, a, Weights(b, g, k, m), k)

(* Where a fold leads: to the next round, or to the final scalar *)
LEMMA AfterFold ==
  ASSUME InnerProductAssumption, NEW p \in InnerProblems, NEW r \in 0 .. RoundsOf(p) - 1,
         NEW m, m = PowerOf2(RoundsOf(p) - r - 1), NEW x, NEW l,
         NEW a \in [0 .. m - 1 -> Scalars], NEW b \in [0 .. m - 1 -> Scalars], NEW g \in [0 .. m - 1 -> ElementsOf(p)],
         AllKept(p, x, l, r + 1, a, b, g, m)
  PROVE  /\ m = 1 <=> r + 1 = RoundsOf(p)
         /\ m # 1 => RoundKept(p, x, l, r + 1, [a |-> a, b |-> b, g |-> g])
         /\ m = 1 => FinalKept(p, x, l, a[0])
<1>1. PICK n : n = RoundsOf(p)
  OBVIOUS
<1>2. n \in Nat /\ r \in 0 .. n - 1
  BY <1>1, RoundsAre
<1>3. /\ n - r - 1 = n - (r + 1) /\ r + 1 \in 0 .. n /\ m = PowerOf2(n - (r + 1)) /\ m \in Nat \ {0}
      /\ r + 1 = n => n - (r + 1) = 0
  <2>1. n - r - 1 = n - (r + 1) /\ r + 1 \in 0 .. n
    BY <1>2
  <2>2. r + 1 = n => n - (r + 1) = 0
    BY <1>2
  <2> QED BY <1>1, <1>2, <2>1, <2>2, RoundHalves
<1>4. m = 1 <=> r + 1 = n
  BY <1>2, <1>3, RoundHalves, PowerStep
<1>5. Scalars \subseteq Int
  BY OrderIs
<1>6. Padded(a, m) = a
  <2>1. a \in [0 .. m - 1 -> Int] /\ m \in Nat
    BY <1>3, <1>5
  <2> QED BY <2>1, PaddedType
<1>7. ASSUME m # 1, NEW v, v = [a |-> a, b |-> b, g |-> g] PROVE RoundKept(p, x, l, r + 1, v)
  <2>1. AreVectors(p, v, m, m)
    BY <1>7 DEF AreVectors
  <2>2. m \in PowerOf2(n - (r + 1) - 1) .. m
    <3>1. r + 1 < n
      BY <1>2, <1>4, <1>7
    <3>2. PowerOf2(n - (r + 1) - 1) \in Nat \ {0} /\ m = 2 * PowerOf2(n - (r + 1) - 1)
      BY <1>2, <1>3, <3>1, RoundHalves
    <3> QED BY <3>2
  <2>3. \A k \in BasisOf(p) : Kept(p, x, l, r + 1, Padded(v.a, m), Weights(v.b, v.g, k, m), k)
    BY <1>6, <1>7 DEF AllKept
  <2> QED BY <1>1, <1>3, <2>1, <2>2, <2>3 DEF RoundKept
<1>8. ASSUME m = 1 PROVE FinalKept(p, x, l, a[0])
  <2>1. a \in [0 .. 0 -> Scalars]
    <3>1. 1 - 1 = 0
      OBVIOUS
    <3> QED BY <1>8, <3>1
  <2>2. ASSUME NEW k \in BasisOf(p)
        PROVE  \E f \in [0 .. 0 -> Int] : Kept(p, x, l, n, a, f, k)
    <3>1. Weights(b, g, k, m) \in [0 .. m - 1 -> Int]
      BY <1>3, NumberWeights
    <3>2. Weights(b, g, k, m) \in [0 .. 0 -> Int]
      <4>1. 1 - 1 = 0
        OBVIOUS
      <4> QED BY <1>8, <3>1, <4>1
    <3>3. Kept(p, x, l, n, a, Weights(b, g, k, m), k)
      BY <1>4, <1>8 DEF AllKept
    <3> QED BY <3>2, <3>3
  <2>3. OneWeight(p, x, l, a)
    BY <1>1, <2>2 DEF OneWeight
  <2> QED BY <2>1, <2>3, LastScalar
<1> QED BY <1>1, <1>4, <1>7, <1>8

(* Lists that begin the same *)
SameUpTo(x, y, r) == \A j \in 1 .. r : x[j] = y[j]

(* What is published later does not matter. *)
LEMMA KeptByPrefix ==
  ASSUME NEW p, NEW r, NEW v, NEW x, NEW y, NEW l, NEW o,
         SameUpTo(x, y, r), SameUpTo(l, o, r), RoundKept(p, x, l, r, v)
  PROVE  RoundKept(p, y, o, r, v)
<1>1. ASSUME NEW n, NEW a, NEW w, NEW base, NEW k, Committed(a, w, base, x, l, n, r, k)
      PROVE  Committed(a, w, base, y, o, n, r, k)
  <2> SUFFICES ASSUME NEW c, IsCorrections(c, base, y, o, r, k)
               PROVE  Congruent(Dot(a, w, PowerOf2(n - r)), c[r], Order)
    BY DEF Committed
  <2>1. IsCorrections(c, base, x, l, r, k)
    BY Zenon DEF IsCorrections, SameUpTo
  <2> QED BY <1>1, <2>1 DEF Committed
<1>2. ASSUME NEW n, NEW w, NEW first, Scaled(w, first, x, n, r)
      PROVE  Scaled(w, first, y, n, r)
  <2> SUFFICES ASSUME NEW e \in [0 .. PowerOf2(n) - 1 -> Int], NEW s, IsExponents(e, y, n, r), IsInverses(s, y, r)
               PROVE  Congruent(Dot(Lower(e, PowerOf2(n - r)), w, PowerOf2(n - r)), s[r] * Dot(e, first, PowerOf2(n)), Order)
    BY DEF Scaled
  <2>1. IsExponents(e, x, n, r)
    BY Zenon DEF IsExponents, SameUpTo
  <2>2. IsInverses(s, x, r)
    BY Zenon DEF IsInverses, SameUpTo
  <2> QED BY <1>2, <2>1, <2>2 DEF Scaled
<1>3. \A a, w, k : Kept(p, x, l, r, a, w, k) => Kept(p, y, o, r, a, w, k)
  BY <1>1, <1>2 DEF Kept
<1> QED BY <1>3 DEF RoundKept

-----------------------------------------------------------------------------
(* What the rounds add up to *)

(* What is published in a round *)
RoundTerms(p) == [l : ElementsOf(p), r : ElementsOf(p)]

(* Multiples and inverses of elements *)
LEMMA TimesIs ==
  ASSUME InnerProductAssumption, NEW x \in Int, NEW g \in Elements
  PROVE  /\ Times(x, g) \in Elements
         /\ \A k \in Basis : g[k] \in Int /\ Times(x, g)[k] \in Int /\ Congruent(Times(x, g)[k], x * g[k], Order)
<1>1. Scalars \subseteq Int
  BY OrderIs
<1>2. Times(x, g) = [k \in Basis |-> (x * g[k]) % Order]
  BY DEF Times
<1>3. ASSUME NEW k \in Basis
      PROVE  /\ g[k] \in Int /\ ((x * g[k]) % Order) \in Scalars /\ ((x * g[k]) % Order) \in Int
             /\ Congruent((x * g[k]) % Order, x * g[k], Order)
  <2>1. g[k] \in Int
    BY <1>1 DEF Elements
  <2>2. PICK y : y = x * g[k]
    OBVIOUS
  <2>3. y \in Int
    BY <2>1, <2>2
  <2>4. (y % Order) \in Scalars /\ (y % Order) \in Int /\ Congruent(y % Order, y, Order)
    BY <2>3, ReducedIs
  <2> QED BY <2>1, <2>2, <2>4
<1>4. Times(x, g) \in Elements
  BY <1>2, <1>3 DEF Elements
<1> QED BY <1>2, <1>3, <1>4

(* Equal coefficients make equal elements. *)
LEMMA SameElement ==
  ASSUME InnerProductAssumption, NEW g \in Elements, NEW h \in Elements,
         \A k \in Basis : Congruent(g[k], h[k], Order)
  PROVE  g = h
<1>1. Order \in Nat \ {0} /\ Scalars \subseteq Int
  BY OrderIs
<1>2. ASSUME NEW k \in Basis PROVE g[k] = h[k]
  <2>1. g[k] \in Scalars /\ h[k] \in Scalars /\ g[k] \in Int /\ h[k] \in Int
    BY <1>1 DEF Elements
  <2>2. PICK a, b : a = g[k] /\ b = h[k]
    OBVIOUS
  <2>3. a \in 0 .. Order - 1 /\ b \in 0 .. Order - 1 /\ a \in Int /\ b \in Int /\ Congruent(a, b, Order)
    BY <2>1, <2>2 DEF Scalars
  <2>4. (a % Order) = (b % Order)
    BY <1>1, <2>3, CongruentMod
  <2>5. (a % Order) = a /\ (b % Order) = b
    BY <1>1, <2>3, ModSmall
  <2> QED BY <2>2, <2>4, <2>5
<1> QED BY <1>2 DEF Elements

(* The two terms of a round *)
Added(i) ==
  Plus(Times(xs[i] * xs[i], lr[i].l), Times(InverseOf(xs[i]) * InverseOf(xs[i]), lr[i].r))

(* They are an element, with the coefficients of the corrections. *)
LEMMA AddedIs ==
  ASSUME InnerProductAssumption, innerProblem \in InnerProblems,
         xs \in Seq(Scalars \ {0}), lr \in Seq(RoundTerms(innerProblem)), NEW i \in 1 .. Len(xs), i \in 1 .. Len(lr)
  PROVE  /\ Added(i) \in Elements
         /\ \A k \in Basis :
              /\ lr[i].l[k] \in Int /\ lr[i].r[k] \in Int /\ Added(i)[k] \in Int
              /\ Congruent(Added(i)[k], lr[i].l[k] * (xs[i] * xs[i])
                                        + lr[i].r[k] * (InverseOf(xs[i]) * InverseOf(xs[i])), Order)
<1>1. PICK x, y, g, h : x = xs[i] /\ y = InverseOf(xs[i]) /\ g = lr[i].l /\ h = lr[i].r
  OBVIOUS
<1>2. x \in Int /\ y \in Int
  <2>1. xs[i] \in Scalars \ {0}
    OBVIOUS
  <2> QED BY <1>1, <2>1, InverseCongruent
<1>3. g \in Elements /\ h \in Elements
  <2>1. lr[i] \in RoundTerms(innerProblem)
    OBVIOUS
  <2>2. Elements = ElementsOf(innerProblem)
    BY ProblemIs
  <2> QED BY <1>1, <2>1, <2>2 DEF RoundTerms
<1>4. PICK xx, yy : xx = x * x /\ yy = y * y
  OBVIOUS
<1>5. xx \in Int /\ yy \in Int
  BY <1>2, <1>4
<1>6. PICK u, v, t : u = Times(xx, g) /\ v = Times(yy, h) /\ t = Plus(u, v)
  OBVIOUS
<1>7. /\ u \in Elements /\ v \in Elements
      /\ \A k \in Basis : /\ g[k] \in Int /\ h[k] \in Int
                          /\ Congruent(u[k], xx * g[k], Order) /\ Congruent(v[k], yy * h[k], Order)
  BY <1>3, <1>5, <1>6, TimesIs
<1>8. /\ t \in Elements
      /\ \A k \in Basis : /\ u[k] \in Int /\ v[k] \in Int /\ t[k] \in Int
                          /\ Congruent(t[k], u[k] + v[k], Order)
  BY <1>6, <1>7, ElementsAre
<1>9. Added(i) = t
  BY <1>1, <1>4, <1>6 DEF Added
<1>10. ASSUME NEW k \in Basis PROVE Congruent(t[k], g[k] * xx + h[k] * yy, Order)
  <2>1. PICK a, b, c, d, e : a = g[k] /\ b = h[k] /\ c = u[k] /\ d = v[k] /\ e = t[k]
    OBVIOUS
  <2>2. /\ a \in Int /\ b \in Int /\ c \in Int /\ d \in Int /\ e \in Int
        /\ Congruent(c, xx * a, Order) /\ Congruent(d, yy * b, Order) /\ Congruent(e, c + d, Order)
    BY <1>7, <1>8, <2>1
  <2>3. xx * a = a * xx /\ yy * b = b * yy
    BY <1>5, <2>2, SMT
  <2>4. PICK o, p : o = a * xx /\ p = b * yy
    OBVIOUS
  <2>5. o \in Int /\ p \in Int /\ Congruent(c, o, Order) /\ Congruent(d, p, Order)
    BY <1>5, <2>2, <2>3, <2>4
  <2>6. Order \in Nat \ {0} /\ c + d \in Int /\ o + p \in Int
    BY <2>2, <2>5, OrderIs
  <2>7. Congruent(c + d, o + p, Order)
    BY ONLY <2>2, <2>5, <2>6, CongruentSum
  <2>8. Congruent(e, o + p, Order)
    BY ONLY <2>2, <2>6, <2>7, CongruentEquivalence
  <2> QED BY <2>1, <2>4, <2>8
<1> QED BY <1>1, <1>4, <1>7, <1>8, <1>9, <1>10

(* Sums of what the rounds add *)
IsCorrectedSum(f, base, k) ==
  f[0] = base /\ \A i \in 1 .. k : f[i] = Plus(f[i - 1], Added(i))

(* Corrected goes through them. *)
LEMMA CorrectedLoop ==
  ASSUME InnerProductAssumption, innerProblem \in InnerProblems, NEW k \in Nat,
         Plus(TrueCommit, Times(TrueProduct, Q)) \in Elements, \A i \in 1 .. k : Added(i) \in Elements
  PROVE  \E f \in [0 .. k -> Elements] :
           Corrected(k) = f[k] /\ IsCorrectedSum(f, Plus(TrueCommit, Times(TrueProduct, Q)), k)
<1> DEFINE base == Plus(TrueCommit, Times(TrueProduct, Q))
           next(i, v) == Plus(v, Added(i))
           step == [i \in 1 .. k |-> [v \in Elements |-> next(i, v)]]
<1>1. \A i \in 1 .. k, v \in Elements : next(i, v) \in Elements
  BY ElementsAre
<1>2. base \in Elements
  OBVIOUS
<1>3. step \in [1 .. k -> [Elements -> Elements]]
  <2> HIDE DEF next
  <2> QED BY <1>1
<1>4. \A i \in 1 .. k, v \in Elements : step[i][v] = next(i, v)
  OBVIOUS
<1> HIDE DEF step
<1>5. PICK r \in [0 .. k -> Elements] : IsLoop(r, k, base, step)
  <2> HIDE DEF base
  <2> QED BY <1>2, <1>3, LoopExists
<1>6. \A i \in 1 .. k : i - 1 \in 0 .. k /\ i \in 0 .. k /\ i # 0
  OBVIOUS
<1>7. r[0] = base /\ \A i \in 1 .. k : r[i] = next(i, r[i - 1])
  <2> HIDE DEF base, next
  <2> QED BY <1>4, <1>5, <1>6 DEF IsLoop
<1> DEFINE Body(t, i) == IF i = 0 THEN base ELSE next(i, t[i - 1])
           sum == CHOOSE t : t = [i \in 0 .. k |-> Body(t, i)]
<1>8. Corrected(k) = sum[k]
  BY DEF Corrected, Added
<1> HIDE DEF base, next
<1>9. ASSUME NEW i \in 0 .. k PROVE r[i] = Body(r, i)
  <2>1. CASE i = 0
    BY <1>7, <2>1
  <2>2. CASE i # 0
    <3>1. i \in 1 .. k
      BY <2>2
    <3> QED BY <1>7, <2>2, <3>1
  <2> QED BY <2>1, <2>2
<1>10. r = [i \in 0 .. k |-> Body(r, i)]
  <2> HIDE DEF Body
  <2> QED BY <1>5, <1>9
<1>11. sum = [i \in 0 .. k |-> Body(sum, i)]
  BY <1>10
<1> HIDE DEF sum
<1>12. sum[0] = base
  BY <1>11
<1>13. \A i \in 1 .. k : sum[i] = next(i, sum[i - 1])
  BY <1>6, <1>11
<1> HIDE DEF Body
<1>14. InStep(sum, r, k)
  BY <1>7, <1>12, <1>13 DEF InStep
<1>15. \A i \in 0 .. k : sum[i] = r[i]
  BY <1>14, LoopsAgree DEF Agree
<1>16. k \in 0 .. k
  OBVIOUS
<1>17. IsCorrectedSum(r, base, k)
  BY <1>7 DEF IsCorrectedSum, next
<1> QED BY <1>5, <1>8, <1>15, <1>16, <1>17 DEF base

(* The commitment of the caller's vectors *)
LEMMA StartIs ==
  ASSUME InnerProductAssumption, innerProblem \in InnerProblems
  PROVE  /\ TrueCommit \in Elements
         /\ Plus(TrueCommit, Times(TrueProduct, Q)) \in Elements
         /\ \A k \in Basis : Congruent(Plus(TrueCommit, Times(TrueProduct, Q))[k], Start(innerProblem, k), Order)
<1>1. PICK N, z, v : N = PowerOf2(RoundsOf(innerProblem)) /\ z = Len(innerProblem.a) /\ v = CallerVectors(innerProblem)
  OBVIOUS
<1>2. z \in Nat /\ N \in Nat /\ z <= N /\ AreVectors(innerProblem, v, z, N)
  BY <1>1, CallerVectorsAre
<1>3. Scalars \subseteq Int /\ Elements = ElementsOf(innerProblem)
  BY OrderIs, ProblemIs
<1>4. v.a \in [0 .. z - 1 -> Scalars] /\ v.b \in [0 .. z - 1 -> Scalars] /\ v.g \in [0 .. N - 1 -> Elements]
  BY <1>2, <1>3 DEF AreVectors
<1>5. v.a \in [0 .. z - 1 -> Int] /\ v.b \in [0 .. z - 1 -> Int]
  BY <1>3, <1>4
<1>6. IsVectorOf(v.g, N)
  BY <1>2, <1>4 DEF IsVectorOf
<1>7. TrueCommit = Multiexponentiate(v.g, v.a) /\ TrueProduct = ScalarProduct(v.a, v.b)
  BY <1>1, ProblemIs DEF TrueCommit, TrueProduct
<1>8. /\ Multiexponentiate(v.g, v.a) \in Elements
      /\ Plus(Multiexponentiate(v.g, v.a), Times(ScalarProduct(v.a, v.b), Q)) \in Elements
      /\ \A k \in Basis :
           Congruent(Plus(Multiexponentiate(v.g, v.a), Times(ScalarProduct(v.a, v.b), Q))[k],
                     Dot(Padded(v.a, N), Weights(v.b, v.g, k, N), N), Order)
  BY <1>2, <1>5, <1>6, CommitmentIs
<1>9. \A k : Start(innerProblem, k) = Dot(Padded(v.a, N), Weights(v.b, v.g, k, N), N)
  BY <1>1 DEF Start, FirstWeights
<1> QED BY <1>7, <1>8, <1>9

(* Lists as long as the rounds *)
Published(k) ==
  /\ xs \in Seq(Scalars \ {0}) /\ lr \in Seq(RoundTerms(innerProblem))
  /\ k \in 0 .. Len(xs) /\ k \in 0 .. Len(lr)

(* The corrected sums, one coefficient at a time *)
LEMMA CorrectionsAre ==
  ASSUME InnerProductAssumption, innerProblem \in InnerProblems, NEW r \in Nat, Published(r)
  PROVE  \E f \in [0 .. r -> Elements] :
           /\ Corrected(r) = f[r]
           /\ \A k \in Basis : IsCorrections([j \in 0 .. r |-> f[j][k]], Start(innerProblem, k), xs, lr, r, k)
<1>1. PICK base : base = Plus(TrueCommit, Times(TrueProduct, Q))
  OBVIOUS
<1>2. base \in Elements /\ \A k \in Basis : Congruent(base[k], Start(innerProblem, k), Order)
  BY <1>1, StartIs
<1>3. xs \in Seq(Scalars \ {0}) /\ lr \in Seq(RoundTerms(innerProblem)) /\ \A i \in 1 .. r : i \in 1 .. Len(xs) /\ i \in 1 .. Len(lr)
  BY DEF Published
<1>4. \A i \in 1 .. r :
        /\ Added(i) \in Elements
        /\ \A k \in Basis :
             /\ lr[i].l[k] \in Int /\ lr[i].r[k] \in Int /\ Added(i)[k] \in Int
             /\ Congruent(Added(i)[k], lr[i].l[k] * (xs[i] * xs[i])
                                       + lr[i].r[k] * (InverseOf(xs[i]) * InverseOf(xs[i])), Order)
  BY <1>3, AddedIs
<1>5. PICK f \in [0 .. r -> Elements] : Corrected(r) = f[r] /\ IsCorrectedSum(f, base, r)
  BY <1>1, <1>2, <1>4, CorrectedLoop
<1>6. Order \in Nat \ {0} /\ Scalars \subseteq Int
  BY OrderIs
<1>7. ASSUME NEW k \in Basis
      PROVE  IsCorrections([j \in 0 .. r |-> f[j][k]], Start(innerProblem, k), xs, lr, r, k)
  <2> DEFINE c == [j \in 0 .. r |-> f[j][k]]
  <2>1. \A j \in 0 .. r : c[j] = f[j][k] /\ c[j] \in Int
    BY <1>5, <1>6 DEF Elements
  <2>2. 0 \in 0 .. r /\ Congruent(c[0], Start(innerProblem, k), Order)
    <3>1. 0 \in 0 .. r
      OBVIOUS
    <3>2. f[0] = base
      BY <1>5 DEF IsCorrectedSum
    <3> QED BY <1>2, <2>1, <3>1, <3>2
  <2>3. ASSUME NEW j \in 1 .. r
        PROVE  Congruent(c[j], c[j - 1] + (lr[j].l[k] * (xs[j] * xs[j])
                                           + lr[j].r[k] * (InverseOf(xs[j]) * InverseOf(xs[j]))), Order)
    <3>1. j \in 0 .. r /\ j - 1 \in 0 .. r
      OBVIOUS
    <3>2. PICK a, b, d, e, o :
            /\ a = f[j - 1] /\ b = Added(j) /\ d = f[j]
            /\ e = c[j - 1]
            /\ o = lr[j].l[k] * (xs[j] * xs[j]) + lr[j].r[k] * (InverseOf(xs[j]) * InverseOf(xs[j]))
      OBVIOUS
    <3>3. a \in Elements /\ b \in Elements /\ d = Plus(a, b)
      BY <1>4, <1>5, <3>1, <3>2 DEF IsCorrectedSum
    <3>4. a[k] \in Int /\ b[k] \in Int /\ d[k] \in Int /\ Congruent(d[k], a[k] + b[k], Order)
      BY <3>3, ElementsAre
    <3>5. Congruent(b[k], o, Order) /\ o \in Int
      <4>1. PICK s, t, y, z : s = xs[j] /\ t = InverseOf(xs[j]) /\ y = lr[j].l[k] /\ z = lr[j].r[k]
        OBVIOUS
      <4>2. s \in Int /\ t \in Int
        <5>1. xs[j] \in Scalars \ {0}
          BY <1>3
        <5> QED BY <4>1, <5>1, InverseCongruent
      <4>3. y \in Int /\ z \in Int /\ Congruent(b[k], o, Order)
        BY <1>4, <3>2, <4>1
      <4>4. o = y * (s * s) + z * (t * t)
        BY <3>2, <4>1
      <4>5. y * (s * s) \in Int /\ z * (t * t) \in Int
        BY <4>2, <4>3
      <4> QED BY <4>3, <4>4, <4>5
    <3>6. Congruent(a[k] + b[k], a[k] + o, Order)
      BY <1>6, <3>4, <3>5, CongruentSum, CongruentRemainder
    <3>7. PICK ak, bk, dk : ak = a[k] /\ bk = b[k] /\ dk = d[k]
      OBVIOUS
    <3>8. ak + bk \in Int /\ ak + o \in Int /\ dk \in Int /\ Congruent(dk, ak + bk, Order) /\ Congruent(ak + bk, ak + o, Order)
      BY <3>4, <3>5, <3>6, <3>7
    <3>9. Congruent(dk, ak + o, Order)
      BY ONLY <1>6, <3>8, CongruentEquivalence
    <3>10. c[j] = dk /\ c[j - 1] = ak
      BY <2>1, <3>1, <3>2, <3>7
    <3> QED BY <3>2, <3>9, <3>10
  <2> HIDE DEF c
  <2>4. IsCorrections(c, Start(innerProblem, k), xs, lr, r, k)
    BY <2>1, <2>2, <2>3 DEF IsCorrections
  <2> QED BY <2>4 DEF c
<1> QED BY <1>5, <1>7

(* What is kept is the corrected commitment. *)
LEMMA KeptIsCorrected ==
  ASSUME InnerProductAssumption, innerProblem \in InnerProblems, NEW r \in 0 .. RoundsOf(innerProblem) - 1, Published(r),
         NEW v, RoundKept(innerProblem, xs, lr, r, v)
  PROVE  CommitTo(v.g, v.a, v.b) = Corrected(r)
<1>1. PICK n, m : n = RoundsOf(innerProblem) /\ m = PowerOf2(n - r - 1)
  OBVIOUS
<1>2. /\ n \in Nat /\ m \in Nat \ {0} /\ PowerOf2(n - r) = 2 * m
      /\ \E s \in m .. 2 * m :
           /\ AreVectors(innerProblem, v, s, 2 * m)
           /\ \A k \in BasisOf(innerProblem) :
                Kept(innerProblem, xs, lr, r, Padded(v.a, 2 * m), Weights(v.b, v.g, k, 2 * m), k)
  BY <1>1, VectorsOfRound
<1>3. PICK s \in m .. 2 * m :
        /\ AreVectors(innerProblem, v, s, 2 * m)
        /\ \A k \in BasisOf(innerProblem) :
             Kept(innerProblem, xs, lr, r, Padded(v.a, 2 * m), Weights(v.b, v.g, k, 2 * m), k)
  BY <1>2
<1>4. Order \in Nat \ {0} /\ Scalars \subseteq Int /\ Elements = ElementsOf(innerProblem) /\ Basis = BasisOf(innerProblem)
  BY OrderIs, ProblemIs
<1>5. 2 * m \in Nat /\ s \in Nat /\ s <= 2 * m /\ r \in Nat /\ r \in 0 .. r
  BY <1>2
<1>6. v.a \in [0 .. s - 1 -> Int] /\ v.b \in [0 .. s - 1 -> Int] /\ IsVectorOf(v.g, 2 * m)
  <2>1. v.a \in [0 .. s - 1 -> Scalars] /\ v.b \in [0 .. s - 1 -> Scalars] /\ v.g \in [0 .. 2 * m - 1 -> Elements]
    BY <1>3, <1>4 DEF AreVectors
  <2>2. v.a \in [0 .. s - 1 -> Int] /\ v.b \in [0 .. s - 1 -> Int]
    BY <1>4, <2>1
  <2> QED BY <1>5, <2>1, <2>2 DEF IsVectorOf
<1>7. /\ CommitTo(v.g, v.a, v.b) \in Elements
      /\ \A k \in Basis : Congruent(CommitTo(v.g, v.a, v.b)[k],
                                    Dot(Padded(v.a, 2 * m), Weights(v.b, v.g, k, 2 * m), 2 * m), Order)
  BY <1>5, <1>6, CommitmentIs DEF CommitTo
<1>8. PICK f \in [0 .. r -> Elements] :
        /\ Corrected(r) = f[r]
        /\ \A k \in Basis : IsCorrections([j \in 0 .. r |-> f[j][k]], Start(innerProblem, k), xs, lr, r, k)
  BY <1>5, CorrectionsAre
<1>9. PICK g, h : g = CommitTo(v.g, v.a, v.b) /\ h = f[r]
  OBVIOUS
<1>10. g \in Elements /\ h \in Elements
  BY <1>5, <1>7, <1>8, <1>9
<1>11. ASSUME NEW k \in Basis PROVE Congruent(g[k], h[k], Order)
  <2>1. PICK t, c : /\ t = Dot(Padded(v.a, 2 * m), Weights(v.b, v.g, k, 2 * m), 2 * m)
                    /\ c = [j \in 0 .. r |-> f[j][k]]
    OBVIOUS
  <2>2. Committed(Padded(v.a, 2 * m), Weights(v.b, v.g, k, 2 * m), Start(innerProblem, k), xs, lr, n, r, k)
    BY <1>1, <1>3, <1>4 DEF Kept
  <2>3. Congruent(t, c[r], Order) /\ c[r] = h[k]
    BY <1>2, <1>5, <1>8, <1>9, <2>1, <2>2 DEF Committed
  <2>4. Congruent(g[k], t, Order)
    BY <1>7, <1>9, <2>1
  <2>5. Padded(v.a, 2 * m) \in [0 .. 2 * m - 1 -> Int]
    BY <1>5, <1>6, PaddedType
  <2>6. Weights(v.b, v.g, k, 2 * m) \in [0 .. 2 * m - 1 -> Int]
    BY <1>5, <1>6, WeightsType
  <2>7. t \in Int
    BY <1>5, <2>1, <2>5, <2>6, DotType
  <2>8. PICK gk, hk : gk = g[k] /\ hk = h[k]
    OBVIOUS
  <2>9. gk \in Int /\ hk \in Int
    BY <1>4, <1>10, <2>8 DEF Elements, ElementsOf
  <2>10. Congruent(gk, hk, Order)
    BY <1>4, <2>3, <2>4, <2>7, <2>8, <2>9, CongruentEquivalence
  <2> QED BY <2>8, <2>10
<1>12. g = h
  BY <1>10, <1>11, SameElement
<1> QED BY <1>8, <1>9, <1>12

-----------------------------------------------------------------------------
(* The verifier's exponents *)

(* The bits below k, each standing for its own challenge *)
Spread(e, q, k) == \A i \in 0 .. k - 1 : Squared(e, q[i], PowerOf2(i))

Exponents(n) == [0 .. PowerOf2(n) - 1 -> Scalars]

(* Doubling keeps exponents in the field. *)
LEMMA DoubledType ==
  ASSUME InnerProductAssumption, NEW n \in Nat, NEW e \in Exponents(n), NEW a \in Nat, NEW square \in Scalars
  PROVE  DoubledExponents(e, a, square) \in Exponents(n)
<1>1. PICK N : N = PowerOf2(n)
  OBVIOUS
<1>2. e \in [0 .. N - 1 -> Scalars] /\ N \in Nat /\ Scalars \subseteq Int
  BY <1>1, PowerStep, OrderIs DEF Exponents
<1>3. DOMAIN e = 0 .. N - 1
  BY <1>2
<1>4. DoubledExponents(e, a, square)
        = [i \in 0 .. N - 1 |-> IF i \in a .. 2 * a - 1 THEN (square * e[i - a]) % Order ELSE e[i]]
  BY <1>3 DEF DoubledExponents
<1>5. ASSUME NEW i \in 0 .. N - 1, i \in a .. 2 * a - 1 PROVE ((square * e[i - a]) % Order) \in Scalars
  <2>1. i - a \in 0 .. N - 1
    BY <1>2, <1>5
  <2>2. PICK y : y = square * e[i - a]
    OBVIOUS
  <2>3. square \in Int /\ e[i - a] \in Int
    BY <1>2, <2>1
  <2>4. y \in Int
    BY <2>2, <2>3
  <2> QED BY <2>2, <2>4, ReducedIs
<1>6. DoubledExponents(e, a, square) \in [0 .. N - 1 -> Scalars]
  BY <1>2, <1>4, <1>5
<1> QED BY <1>1, <1>6 DEF Exponents

(* Each doubling adds the next bit. *)
LEMMA DoubledSpread ==
  ASSUME InnerProductAssumption, NEW n \in Nat, NEW i \in 0 .. n - 1, NEW e \in Exponents(n), NEW q,
         NEW square \in Scalars, q[i] \in Int, Congruent(square, q[i] * q[i], Order), Spread(e, q, i)
  PROVE  LET d == DoubledExponents(e, PowerOf2(i), square) IN
         d \in Exponents(n) /\ d[0] = e[0] /\ Spread(d, q, i + 1)
<1>1. PICK N, a, d, x : N = PowerOf2(n) /\ a = PowerOf2(i) /\ d = DoubledExponents(e, a, square) /\ x = q[i]
  OBVIOUS
<1>2. /\ i \in Nat /\ N \in Nat \ {0} /\ a \in Nat \ {0} /\ 2 * a <= N
      /\ Order \in Nat \ {0} /\ Scalars \subseteq Int /\ x \in Int /\ Congruent(square, x * x, Order)
  <2>1. i \in Nat /\ i + 1 \in 0 .. n /\ n - (i + 1) \in 0 .. n /\ n - (n - (i + 1)) = i + 1
    OBVIOUS
  <2>2. PowerOf2(i + 1) <= PowerOf2(n)
    BY <2>1, PowerGrows
  <2>3. PowerOf2(i + 1) = 2 * a /\ a \in Nat \ {0} /\ N \in Nat \ {0}
    BY <1>1, <2>1, PowerStep
  <2> QED BY <1>1, <2>1, <2>2, <2>3, OrderIs
<1>3. e \in [0 .. N - 1 -> Scalars]
  BY <1>1 DEF Exponents
<1>4. d = [j \in 0 .. N - 1 |-> IF j \in a .. 2 * a - 1 THEN (square * e[j - a]) % Order ELSE e[j]] /\ d \in Exponents(n)
  <2>1. a \in Nat
    BY <1>2
  <2>2. d \in Exponents(n)
    BY <1>1, <2>1, DoubledType
  <2>3. DOMAIN e = 0 .. N - 1
    BY <1>3
  <2>4. d = [j \in 0 .. N - 1 |-> IF j \in a .. 2 * a - 1 THEN (square * e[j - a]) % Order ELSE e[j]]
    BY <1>1, <2>3 DEF DoubledExponents
  <2> QED BY <2>2, <2>4
<1>5. \A j \in 0 .. a - 1 : j \in 0 .. N - 1 /\ a + j \in 0 .. N - 1 /\ d[j] = e[j] /\ d[a + j] = (square * e[j]) % Order
  <2>1. \A j \in 0 .. a - 1 : /\ j \in 0 .. N - 1 /\ a + j \in 0 .. N - 1 /\ j \notin a .. 2 * a - 1
                              /\ a + j \in a .. 2 * a - 1 /\ (a + j) - a = j
    BY <1>2
  <2> QED BY <1>4, <2>1
<1>6. ASSUME NEW t \in 0 .. i - 1 PROVE Squared(d, q[t], PowerOf2(t))
  <2>1. PICK b : b = PowerOf2(t)
    OBVIOUS
  <2>2. b \in Nat /\ 2 * b <= a
    <3>1. t \in Nat /\ t + 1 \in 0 .. i /\ i - (t + 1) \in 0 .. i /\ i - (i - (t + 1)) = t + 1
      BY <1>2
    <3>2. PowerOf2(t + 1) <= PowerOf2(i)
      BY <1>2, <3>1, PowerGrows
    <3> QED BY <1>1, <2>1, <3>1, <3>2, PowerStep
  <2>3. \A j \in 0 .. b - 1 : j \in 0 .. a - 1 /\ b + j \in 0 .. a - 1
    BY <1>2, <2>2
  <2>4. \A j \in 0 .. b - 1 : Upper(d, b)[j] = Upper(e, b)[j] /\ Lower(d, b)[j] = Lower(e, b)[j]
    BY <1>5, <2>3 DEF Upper, Lower
  <2>5. Squared(e, q[t], b)
    BY <2>1 DEF Spread
  <2>6. Squared(d, q[t], b)
    BY <2>4, <2>5 DEF Squared
  <2> QED BY <2>1, <2>6
<1>7. Squared(d, x, a)
  <2> SUFFICES ASSUME NEW j \in 0 .. a - 1
               PROVE  Congruent(d[a + j], (x * x) * d[j], Order)
    BY DEF Squared, Upper, Lower
  <2>1. PICK y, z, s : y = e[j] /\ z = square * y /\ s = x * x
    OBVIOUS
  <2>2. y \in Int /\ square \in Int /\ s \in Int
    BY <1>2, <1>3, <1>5, <2>1
  <2>3. z \in Int /\ s * y \in Int
    BY <2>1, <2>2
  <2>4. Congruent(z, s * y, Order)
    BY <1>2, <2>1, <2>2, CongruentProduct, CongruentRemainder
  <2>5. (z % Order) \in Int /\ Congruent(z % Order, z, Order)
    BY <2>3, ReducedIs
  <2>6. Congruent(z % Order, s * y, Order)
    BY <1>2, <2>3, <2>4, <2>5, CongruentEquivalence
  <2> QED BY <1>5, <2>1, <2>6
<1>8. d[0] = e[0]
  BY <1>2, <1>5
<1>9. Spread(d, q, i + 1)
  <2> SUFFICES ASSUME NEW t \in 0 .. (i + 1) - 1 PROVE Squared(d, q[t], PowerOf2(t))
    BY DEF Spread
  <2>1. CASE t = i
    BY <1>1, <1>7, <2>1
  <2>2. CASE t # i
    <3>1. t \in 0 .. i - 1
      BY <1>2, <2>2
    <3> QED BY <1>6, <3>1
  <2> QED BY <2>1, <2>2
<1> QED BY <1>1, <1>4, <1>8, <1>9

(* The loop of compute_g_exponents *)
IsDoubling(f, first, sq, n) ==
  /\ f[0] = [i \in 0 .. PowerOf2(n) - 1 |-> IF i = 0 THEN first ELSE 0]
  /\ \A k \in 1 .. n : f[k] = DoubledExponents(f[k - 1], PowerOf2(k - 1), sq[n - k])

LEMMA ExponentsLoop ==
  ASSUME InnerProductAssumption, NEW n \in Nat, NEW first \in Scalars, NEW sq \in [0 .. n - 1 -> Scalars]
  PROVE  \E f \in [0 .. n -> Exponents(n)] : GExponents(first, sq) = f[n] /\ IsDoubling(f, first, sq, n)
<1> DEFINE base == [i \in 0 .. PowerOf2(n) - 1 |-> IF i = 0 THEN first ELSE 0]
           next(k, v) == DoubledExponents(v, PowerOf2(k - 1), sq[n - k])
           step == [k \in 1 .. n |-> [v \in Exponents(n) |-> next(k, v)]]
<1>1. \A k \in 1 .. n, v \in Exponents(n) : next(k, v) \in Exponents(n)
  <2> TAKE k \in 1 .. n, v \in Exponents(n)
  <2>1. n - k \in 0 .. n - 1 /\ k - 1 \in Nat
    OBVIOUS
  <2>2. sq[n - k] \in Scalars /\ PowerOf2(k - 1) \in Nat
    BY <2>1, PowerStep
  <2> QED BY <2>2, DoubledType
<1>2. base \in Exponents(n)
  BY OrderIs DEF Exponents
<1>0. Size(sq) = n
  BY SizeIs
<1> HIDE DEF base
<1>3. step \in [1 .. n -> [Exponents(n) -> Exponents(n)]]
  <2> HIDE DEF next
  <2> QED BY <1>1
<1>4. \A k \in 1 .. n, v \in Exponents(n) : step[k][v] = next(k, v)
  OBVIOUS
<1> HIDE DEF step
<1>5. PICK r \in [0 .. n -> Exponents(n)] : IsLoop(r, n, base, step)
  BY <1>2, <1>3, LoopExists
<1>6. \A k \in 1 .. n : k - 1 \in 0 .. n /\ k \in 0 .. n /\ k # 0
  OBVIOUS
<1>7. r[0] = base /\ \A k \in 1 .. n : r[k] = next(k, r[k - 1])
  <2> HIDE DEF next
  <2> QED BY <1>4, <1>5, <1>6 DEF IsLoop
<1> DEFINE Body(t, k) == IF k = 0 THEN base ELSE next(k, t[k - 1])
           value == CHOOSE t : t = [k \in 0 .. n |-> Body(t, k)]
<1>8. GExponents(first, sq) = value[n]
  BY <1>0 DEF GExponents, Vector, base
<1> HIDE DEF next
<1>9. ASSUME NEW k \in 0 .. n PROVE r[k] = Body(r, k)
  <2>1. CASE k = 0
    BY <1>7, <2>1
  <2>2. CASE k # 0
    <3>1. k \in 1 .. n
      BY <2>2
    <3> QED BY <1>7, <2>2, <3>1
  <2> QED BY <2>1, <2>2
<1>10. r = [k \in 0 .. n |-> Body(r, k)]
  <2> HIDE DEF Body
  <2> QED BY <1>5, <1>9
<1>11. value = [k \in 0 .. n |-> Body(value, k)]
  BY <1>10
<1> HIDE DEF value
<1>12. value[0] = base
  BY <1>11
<1>13. \A k \in 1 .. n : value[k] = next(k, value[k - 1])
  BY <1>6, <1>11
<1> HIDE DEF Body
<1>14. InStep(value, r, n)
  BY <1>7, <1>12, <1>13 DEF InStep
<1>15. n \in 0 .. n /\ \A k \in 0 .. n : value[k] = r[k]
  BY <1>14, LoopsAgree DEF Agree
<1> QED BY <1>5, <1>7, <1>8, <1>15 DEF base, next, IsDoubling

(* Squares of the numbers that the bits stand for, the last one first *)
AreSquares(sq, q, n) == \A i \in 0 .. n - 1 : q[i] \in Int /\ Congruent(sq[n - 1 - i], q[i] * q[i], Order)

(* compute_g_exponents *)
LEMMA GExponentsAre ==
  ASSUME InnerProductAssumption, NEW n \in Nat, NEW first \in Scalars, NEW sq \in [0 .. n - 1 -> Scalars],
         NEW q, AreSquares(sq, q, n)
  PROVE  LET g == GExponents(first, sq) IN g \in Exponents(n) /\ g[0] = first /\ Spread(g, q, n)
<1>1. PICK f \in [0 .. n -> Exponents(n)] : GExponents(first, sq) = f[n] /\ IsDoubling(f, first, sq, n)
  BY ExponentsLoop
<1> DEFINE G == {k \in 0 .. n : f[k][0] = first /\ Spread(f[k], q, k)}
<1>2. 0 \in G
  <2>1. f[0] = [i \in 0 .. PowerOf2(n) - 1 |-> IF i = 0 THEN first ELSE 0]
    BY <1>1 DEF IsDoubling
  <2>2. 0 \in 0 .. PowerOf2(n) - 1
    <3>1. PowerOf2(n) \in Nat \ {0}
      BY PowerStep
    <3> QED BY <3>1
  <2>3. Spread(f[0], q, 0)
    BY DEF Spread
  <2>4. f[0][0] = first /\ 0 \in 0 .. n
    BY <2>1, <2>2
  <2> QED BY <2>3, <2>4
<1>3. ASSUME NEW k \in 1 .. n, k - 1 \in G PROVE k \in G
  <2>1. PICK i, e, s : i = k - 1 /\ e = f[k - 1] /\ s = sq[n - k]
    OBVIOUS
  <2>2. i \in 0 .. n - 1 /\ i + 1 = k /\ n - 1 - i = n - k /\ n - k \in 0 .. n - 1 /\ k - 1 \in 0 .. n
    BY <2>1
  <2>3. e \in Exponents(n) /\ s \in Scalars /\ e[0] = first /\ Spread(e, q, i)
    BY <1>1, <1>3, <2>1, <2>2
  <2>4. q[i] \in Int /\ Congruent(s, q[i] * q[i], Order)
    <3>1. Congruent(sq[n - 1 - i], q[i] * q[i], Order) /\ q[i] \in Int
      BY <2>2 DEF AreSquares
    <3> QED BY <2>1, <2>2, <3>1
  <2>5. f[k] = DoubledExponents(e, PowerOf2(i), s)
    BY <1>1, <2>1 DEF IsDoubling
  <2>6. f[k][0] = e[0] /\ Spread(f[k], q, i + 1)
    BY <2>2, <2>3, <2>4, <2>5, DoubledSpread
  <2> QED BY <2>2, <2>3, <2>6
<1> HIDE DEF G
<1>4. \A k \in 0 .. n : k \in G
  BY <1>2, <1>3, BoundedInduction
<1>5. n \in 0 .. n
  OBVIOUS
<1> QED BY <1>1, <1>4, <1>5 DEF G

(* The loop on the device, from exponents it is given *)
IsPartialDoubling(f, g, sq, s, h) ==
  f[0] = g /\ \A k \in 1 .. s : f[k] = DoubledExponents(f[k - 1], PowerOf2(h + k - 2), sq[s - k])

LEMMA PartialLoop ==
  ASSUME InnerProductAssumption, NEW n \in Nat, NEW s \in Nat, NEW h \in Nat \ {0},
         NEW g \in Exponents(n), NEW sq \in [0 .. s - 1 -> Scalars]
  PROVE  \E f \in [0 .. s -> Exponents(n)] :
           GExponentsPartial(g, sq, h) = f[s] /\ IsPartialDoubling(f, g, sq, s, h)
<1> DEFINE base == g
           next(k, v) == DoubledExponents(v, PowerOf2(h + k - 2), sq[s - k])
           step == [k \in 1 .. s |-> [v \in Exponents(n) |-> next(k, v)]]
<1>1. \A k \in 1 .. s, v \in Exponents(n) : next(k, v) \in Exponents(n)
  <2> TAKE k \in 1 .. s, v \in Exponents(n)
  <2>1. s - k \in 0 .. s - 1 /\ h + k - 2 \in Nat
    OBVIOUS
  <2>2. sq[s - k] \in Scalars /\ PowerOf2(h + k - 2) \in Nat
    BY <2>1, PowerStep
  <2> QED BY <2>2, DoubledType
<1>2. base \in Exponents(n)
  OBVIOUS
<1>0. Size(sq) = s
  BY SizeIs
<1> HIDE DEF base
<1>3. step \in [1 .. s -> [Exponents(n) -> Exponents(n)]]
  <2> HIDE DEF next
  <2> QED BY <1>1
<1>4. \A k \in 1 .. s, v \in Exponents(n) : step[k][v] = next(k, v)
  OBVIOUS
<1> HIDE DEF step
<1>5. PICK r \in [0 .. s -> Exponents(n)] : IsLoop(r, s, base, step)
  BY <1>2, <1>3, LoopExists
<1>6. \A k \in 1 .. s : k - 1 \in 0 .. s /\ k \in 0 .. s /\ k # 0
  OBVIOUS
<1>7. r[0] = base /\ \A k \in 1 .. s : r[k] = next(k, r[k - 1])
  <2> HIDE DEF next
  <2> QED BY <1>4, <1>5, <1>6 DEF IsLoop
<1> DEFINE Body(t, k) == IF k = 0 THEN base ELSE next(k, t[k - 1])
           value == CHOOSE t : t = [k \in 0 .. s |-> Body(t, k)]
<1>8. GExponentsPartial(g, sq, h) = value[s]
  BY <1>0 DEF GExponentsPartial, base
<1> HIDE DEF next
<1>9. ASSUME NEW k \in 0 .. s PROVE r[k] = Body(r, k)
  <2>1. CASE k = 0
    BY <1>7, <2>1
  <2>2. CASE k # 0
    <3>1. k \in 1 .. s
      BY <2>2
    <3> QED BY <1>7, <2>2, <3>1
  <2> QED BY <2>1, <2>2
<1>10. r = [k \in 0 .. s |-> Body(r, k)]
  <2> HIDE DEF Body
  <2> QED BY <1>5, <1>9
<1>11. value = [k \in 0 .. s |-> Body(value, k)]
  BY <1>10
<1> HIDE DEF value
<1>12. value[0] = base
  BY <1>11
<1>13. \A k \in 1 .. s : value[k] = next(k, value[k - 1])
  BY <1>6, <1>11
<1> HIDE DEF Body
<1>14. InStep(value, r, s)
  BY <1>7, <1>12, <1>13 DEF InStep
<1>15. s \in 0 .. s /\ \A k \in 0 .. s : value[k] = r[k]
  BY <1>14, LoopsAgree DEF Agree
<1> QED BY <1>5, <1>7, <1>8, <1>15 DEF base, next, IsPartialDoubling

(* The GPU computes the same exponents. *)
LEMMA DeviceExponentsAre ==
  ASSUME InnerProductAssumption, NEW n \in Nat, n > HostRounds, NEW first \in Scalars, NEW sq \in [0 .. n - 1 -> Scalars],
         NEW q, AreSquares(sq, q, n)
  PROVE  LET g == GExponentsDevice(first, sq) IN g \in Exponents(n) /\ g[0] = first /\ Spread(g, q, n)
<1>1. PICK rest, s, H, late, early, host, N, M :
        /\ rest = n - HostRounds /\ s = rest + 1 /\ H = HostRounds
        /\ late = Subspan(sq, rest, H) /\ early = Subspan(sq, 0, s) /\ host = GExponents(first, late)
        /\ N = PowerOf2(n) /\ M = PowerOf2(H)
  OBVIOUS
<1>2. H \in Nat \ {0} /\ rest \in Nat \ {0} /\ s \in Nat /\ n = rest + H /\ rest + H <= n /\ 0 + s <= n /\ s <= n
  <2>1. HostRounds \in Nat \ {0}
    BY DEF InnerProductAssumption
  <2> QED BY <1>1, <2>1
<1>3. /\ late \in [0 .. H - 1 -> Scalars] /\ \A i \in 0 .. H - 1 : late[i] = sq[rest + i]
      /\ early \in [0 .. s - 1 -> Scalars] /\ \A i \in 0 .. s - 1 : early[i] = sq[i]
  <2>1. late = [i \in 0 .. H - 1 |-> sq[rest + i]] /\ early = [i \in 0 .. s - 1 |-> sq[0 + i]]
    BY <1>1 DEF Subspan, Vector
  <2>2. \A i \in 0 .. H - 1 : rest + i \in 0 .. n - 1
    BY <1>2
  <2>3. \A i \in 0 .. s - 1 : 0 + i = i /\ i \in 0 .. n - 1
    BY <1>2
  <2> QED BY <2>1, <2>2, <2>3
<1>4. host \in Exponents(H) /\ host[0] = first /\ Spread(host, q, H)
  <2>1. AreSquares(late, q, H)
    <3> SUFFICES ASSUME NEW i \in 0 .. H - 1
                 PROVE  q[i] \in Int /\ Congruent(late[H - 1 - i], q[i] * q[i], Order)
      BY DEF AreSquares
    <3>1. H - 1 - i \in 0 .. H - 1 /\ rest + (H - 1 - i) = n - 1 - i /\ i \in 0 .. n - 1
      BY <1>2
    <3>2. q[i] \in Int /\ Congruent(sq[n - 1 - i], q[i] * q[i], Order)
      BY <3>1 DEF AreSquares
    <3> QED BY <1>3, <3>1, <3>2
  <2> QED BY <1>1, <1>2, <1>3, <2>1, GExponentsAre
<1>5. N \in Nat \ {0} /\ M \in Nat \ {0} /\ M <= N
  <2>1. rest \in 0 .. n /\ n - rest = H
    BY <1>2
  <2> QED BY <1>1, <2>1, PowerGrows
<1>6. PICK g : g = [i \in 0 .. N - 1 |-> IF i < M THEN host[i] ELSE 0]
  OBVIOUS
<1>7. g \in Exponents(n) /\ \A i \in 0 .. M - 1 : g[i] = host[i]
  <2>1. host \in [0 .. M - 1 -> Scalars]
    BY <1>1, <1>4 DEF Exponents
  <2>2. \A i \in 0 .. N - 1 : i < M => i \in 0 .. M - 1
    BY <1>5
  <2>3. \A i \in 0 .. M - 1 : i \in 0 .. N - 1 /\ i < M
    BY <1>5
  <2>4. g \in [0 .. N - 1 -> Scalars]
    BY <1>6, <2>1, <2>2, OrderIs
  <2> QED BY <1>1, <1>6, <2>3, <2>4 DEF Exponents
<1>8. GExponentsDevice(first, sq) = GExponentsPartial(g, early, H)
  <2>1. Size(sq) = n
    BY SizeIs
  <2>2. DOMAIN host = 0 .. M - 1 /\ M \in Nat
    BY <1>1, <1>4, <1>5 DEF Exponents
  <2>3. Size(host) = M
    BY <2>2, SizeIs
  <2> DEFINE r == Size(sq) - HostRounds
             u == GExponents(first, Subspan(sq, r, HostRounds))
             w == [i \in 0 .. PowerOf2(Size(sq)) - 1 |-> IF i < Size(u) THEN u[i] ELSE 0]
  <2>4. GExponentsDevice(first, sq) = GExponentsPartial(w, Subspan(sq, 0, r + 1), HostRounds)
    BY Zenon DEF GExponentsDevice, Vector
  <2>5. r = rest /\ u = host /\ PowerOf2(Size(sq)) = N
    BY <1>1, <2>1
  <2> HIDE DEF r, u
  <2>6. w = g
    BY <1>6, <2>3, <2>5
  <2>7. Subspan(sq, 0, r + 1) = early /\ HostRounds = H
    BY <1>1, <2>5
  <2> HIDE DEF w
  <2> QED BY <2>4, <2>6, <2>7
<1>9. PICK f \in [0 .. s -> Exponents(n)] :
        GExponentsPartial(g, early, H) = f[s] /\ IsPartialDoubling(f, g, early, s, H)
  BY <1>2, <1>3, <1>7, PartialLoop
<1>10. f[0][0] = first /\ Spread(f[0], q, H)
  <2>1. f[0] = g
    BY <1>9 DEF IsPartialDoubling
  <2>2. ASSUME NEW t \in 0 .. H - 1 PROVE Squared(g, q[t], PowerOf2(t))
    <3>1. PICK b : b = PowerOf2(t)
      OBVIOUS
    <3>2. b \in Nat /\ 2 * b <= M
      <4>1. t \in Nat /\ t + 1 \in 0 .. H /\ H - (t + 1) \in 0 .. H /\ H - (H - (t + 1)) = t + 1
        BY <1>2
      <4>2. PowerOf2(t + 1) <= PowerOf2(H)
        BY <1>2, <4>1, PowerGrows
      <4> QED BY <1>1, <3>1, <4>1, <4>2, PowerStep
    <3>3. \A j \in 0 .. b - 1 : j \in 0 .. M - 1 /\ b + j \in 0 .. M - 1
      BY <1>5, <3>2
    <3>4. \A j \in 0 .. b - 1 : Upper(g, b)[j] = Upper(host, b)[j] /\ Lower(g, b)[j] = Lower(host, b)[j]
      BY <1>7, <3>3 DEF Upper, Lower
    <3>5. Squared(host, q[t], b)
      BY <1>4, <3>1 DEF Spread
    <3>6. Squared(g, q[t], b)
      BY <3>4, <3>5 DEF Squared
    <3> QED BY <3>1, <3>6
  <2>3. 0 \in 0 .. M - 1
    BY <1>5
  <2> QED BY <1>4, <1>7, <2>1, <2>2, <2>3 DEF Spread
<1> DEFINE G == {k \in 0 .. s : f[k][0] = first /\ Spread(f[k], q, H + k - 1)}
<1>11. 0 \in G
  <2>1. \A i \in 0 .. (H + 0 - 1) - 1 : i \in 0 .. H - 1
    BY <1>2
  <2>2. Spread(f[0], q, H + 0 - 1)
    BY <1>10, <2>1 DEF Spread
  <2>3. 0 \in 0 .. s
    BY <1>2
  <2> QED BY <1>10, <2>2, <2>3
<1>12. ASSUME NEW k \in 1 .. s, k - 1 \in G PROVE k \in G
  <2>1. PICK i, e, y : i = H + k - 2 /\ e = f[k - 1] /\ y = early[s - k]
    OBVIOUS
  <2>2. /\ i \in 0 .. n - 1 /\ i + 1 = H + k - 1 /\ n - 1 - i = s - k /\ s - k \in 0 .. s - 1
        /\ k - 1 \in 0 .. s /\ k \in 0 .. s /\ H + (k - 1) - 1 = i
    BY <1>1, <1>2, <2>1
  <2>3. e \in Exponents(n) /\ e[0] = first /\ Spread(e, q, i)
    BY <1>9, <1>12, <2>1, <2>2
  <2>4. y \in Scalars /\ y = sq[n - 1 - i]
    BY <1>3, <2>1, <2>2
  <2>5. q[i] \in Int /\ Congruent(y, q[i] * q[i], Order)
    BY <2>2, <2>4 DEF AreSquares
  <2>6. f[k] = DoubledExponents(e, PowerOf2(i), y)
    BY <1>9, <2>1 DEF IsPartialDoubling
  <2>7. f[k][0] = e[0] /\ Spread(f[k], q, i + 1)
    BY <2>2, <2>3, <2>4, <2>5, <2>6, DoubledSpread
  <2> QED BY <2>2, <2>3, <2>7
<1> HIDE DEF G
<1>13. \A k \in 0 .. s : k \in G
  BY <1>2, <1>11, <1>12, BoundedInduction
<1>14. s \in 0 .. s /\ H + s - 1 = n
  BY <1>1, <1>2
<1> QED BY <1>8, <1>9, <1>13, <1>14 DEF G

(* The inverse of the product of the challenges *)
LEMMA AllInverseIs ==
  ASSUME InnerProductAssumption, NEW x \in Seq(Scalars \ {0}), NEW n \in Nat, n = Len(x)
  PROVE  \E r \in [0 .. n -> Scalars] :
           /\ AllInverse(x) = r[n]
           /\ r[0] = 1 /\ \A k \in 1 .. n : r[k] = (r[k - 1] * InverseOf(x[k])) % Order
<1> DEFINE base == 1
           next(k, v) == (v * InverseOf(x[k])) % Order
           step == [k \in 1 .. n |-> [v \in Scalars |-> next(k, v)]]
<1>1. \A k \in 1 .. n, v \in Scalars : next(k, v) \in Scalars
  <2> TAKE k \in 1 .. n, v \in Scalars
  <2>1. x[k] \in Scalars \ {0}
    OBVIOUS
  <2>2. PICK y : y = v * InverseOf(x[k])
    OBVIOUS
  <2>3. v \in Int /\ InverseOf(x[k]) \in Int
    BY <2>1, InverseCongruent, OrderIs
  <2>4. y \in Int
    BY <2>2, <2>3
  <2> QED BY <2>2, <2>4, ReducedIs
<1>2. base \in Scalars
  BY OrderIs
<1> HIDE DEF base
<1>3. step \in [1 .. n -> [Scalars -> Scalars]]
  <2> HIDE DEF next
  <2> QED BY <1>1
<1>4. \A k \in 1 .. n, v \in Scalars : step[k][v] = next(k, v)
  OBVIOUS
<1> HIDE DEF step
<1>5. PICK r \in [0 .. n -> Scalars] : IsLoop(r, n, base, step)
  BY <1>2, <1>3, LoopExists
<1>6. \A k \in 1 .. n : k - 1 \in 0 .. n /\ k \in 0 .. n /\ k # 0
  OBVIOUS
<1>7. r[0] = base /\ \A k \in 1 .. n : r[k] = next(k, r[k - 1])
  <2> HIDE DEF next
  <2> QED BY <1>4, <1>5, <1>6 DEF IsLoop
<1> DEFINE Body(t, k) == IF k = 0 THEN base ELSE next(k, t[k - 1])
           value == CHOOSE t : t = [k \in 0 .. n |-> Body(t, k)]
<1>8. AllInverse(x) = value[n]
  BY DEF AllInverse, base
<1> HIDE DEF next
<1>9. ASSUME NEW k \in 0 .. n PROVE r[k] = Body(r, k)
  <2>1. CASE k = 0
    BY <1>7, <2>1
  <2>2. CASE k # 0
    <3>1. k \in 1 .. n
      BY <2>2
    <3> QED BY <1>7, <2>2, <3>1
  <2> QED BY <2>1, <2>2
<1>10. r = [k \in 0 .. n |-> Body(r, k)]
  <2> HIDE DEF Body
  <2> QED BY <1>5, <1>9
<1>11. value = [k \in 0 .. n |-> Body(value, k)]
  BY <1>10
<1> HIDE DEF value
<1>12. value[0] = base
  BY <1>11
<1>13. \A k \in 1 .. n : value[k] = next(k, value[k - 1])
  BY <1>6, <1>11
<1> HIDE DEF Body
<1>14. InStep(value, r, n)
  BY <1>7, <1>12, <1>13 DEF InStep
<1>15. n \in 0 .. n /\ \A k \in 0 .. n : value[k] = r[k]
  BY <1>14, LoopsAgree DEF Agree
<1> QED BY <1>5, <1>7, <1>8, <1>15 DEF base, next

(* It can be cancelled. *)
Cancels(s) == \E y \in Int : Congruent(s * y, 1, Order)

LEMMA CancelsStep ==
  ASSUME NEW m \in Nat \ {0}, NEW s \in Int, NEW x \in Int, NEW y \in Int, NEW z \in Int, NEW t \in Int,
         Congruent(s * y, 1, m), Congruent(z * x, 1, m), Congruent(t, s * z, m)
  PROVE  Congruent(t * (y * x), 1, m)
<1>1. PICK a, b, c, d, e : a = s * y /\ b = z * x /\ c = s * z /\ d = y * x /\ e = t * d
  OBVIOUS
<1>2. /\ a \in Int /\ b \in Int /\ c \in Int /\ d \in Int /\ e \in Int /\ c * d \in Int /\ a * b \in Int
      /\ Congruent(a, 1, m) /\ Congruent(b, 1, m) /\ Congruent(t, c, m)
  BY <1>1
<1>3. Congruent(e, c * d, m)
  BY <1>1, <1>2, CongruentProduct, CongruentRemainder
<1>4. c * d = a * b
  <2>1. (s * z) * (y * x) = (s * y) * (z * x)
    BY SMT
  <2> QED BY <1>1, <2>1
<1>5. Congruent(a * b, 1 * 1, m) /\ 1 * 1 = 1
  BY <1>2, CongruentProduct
<1>6. Congruent(e, 1, m)
  BY <1>2, <1>3, <1>4, <1>5, CongruentEquivalence
<1> QED BY <1>1, <1>6

(* The inverses, as the rounds have them *)
LEMMA InversesAre ==
  ASSUME InnerProductAssumption, NEW x \in Seq(Scalars \ {0}), NEW n \in Nat, n = Len(x)
  PROVE  \E r \in [0 .. n -> Scalars] : AllInverse(x) = r[n] /\ IsInverses(r, x, n) /\ Cancels(r[n])
<1>1. PICK r \in [0 .. n -> Scalars] :
        /\ AllInverse(x) = r[n]
        /\ r[0] = 1 /\ \A k \in 1 .. n : r[k] = (r[k - 1] * InverseOf(x[k])) % Order
  BY AllInverseIs
<1>2. Order \in Nat \ {0} /\ Scalars \subseteq Int
  BY OrderIs
<1>3. \A k \in 0 .. n : r[k] \in Int
  BY <1>2
<1>4. ASSUME NEW k \in 1 .. n
      PROVE  /\ x[k] \in Int /\ InverseOf(x[k]) \in Int /\ Congruent(InverseOf(x[k]) * x[k], 1, Order)
             /\ Congruent(r[k], r[k - 1] * InverseOf(x[k]), Order)
  <2>1. x[k] \in Scalars \ {0}
    OBVIOUS
  <2>2. x[k] \in Int /\ InverseOf(x[k]) \in Int /\ Congruent(InverseOf(x[k]) * x[k], 1, Order)
    BY <2>1, InverseCongruent
  <2>3. PICK y : y = r[k - 1] * InverseOf(x[k])
    OBVIOUS
  <2>4. k - 1 \in 0 .. n
    OBVIOUS
  <2>5. y \in Int
    BY <1>3, <2>2, <2>3, <2>4
  <2>6. Congruent(y % Order, y, Order)
    BY <2>5, ReducedIs
  <2> QED BY <1>1, <2>2, <2>3, <2>6
<1>5. IsInverses(r, x, n)
  <2>1. Congruent(r[0], 1, Order)
    BY <1>1, <1>2, CongruentRemainder
  <2> QED BY <1>3, <1>4, <2>1 DEF IsInverses
<1> DEFINE G == {k \in 0 .. n : Cancels(r[k])}
<1>6. 0 \in G
  <2>1. Congruent(1 * 1, 1, Order)
    BY <1>2, CongruentRemainder
  <2> QED BY <1>1, <2>1 DEF Cancels
<1>7. ASSUME NEW k \in 1 .. n, k - 1 \in G PROVE k \in G
  <2>1. PICK s, t, z, u : s = r[k - 1] /\ t = r[k] /\ z = InverseOf(x[k]) /\ u = x[k]
    OBVIOUS
  <2>2. k - 1 \in 0 .. n /\ k \in 0 .. n
    OBVIOUS
  <2>3. s \in Int /\ t \in Int /\ z \in Int /\ u \in Int /\ Congruent(z * u, 1, Order) /\ Congruent(t, s * z, Order)
    BY <1>3, <1>4, <2>1, <2>2
  <2>4. PICK y \in Int : Congruent(s * y, 1, Order)
    BY <1>7, <2>1 DEF Cancels
  <2>5. Congruent(t * (y * u), 1, Order) /\ y * u \in Int
    BY <1>2, <2>3, <2>4, CancelsStep
  <2>6. Cancels(t)
    BY <2>5 DEF Cancels
  <2> QED BY <2>1, <2>2, <2>6
<1> HIDE DEF G
<1>8. \A k \in 0 .. n : k \in G
  BY <1>6, <1>7, BoundedInduction
<1>9. n \in 0 .. n
  OBVIOUS
<1> QED BY <1>1, <1>5, <1>8, <1>9 DEF G

(* The exponents, from either driver, with any first one *)
LEMMA SquaresAre ==
  ASSUME InnerProductAssumption, NEW x \in Seq(Scalars \ {0}), NEW n \in Nat, n = Len(x),
         NEW q, q = [i \in 0 .. n - 1 |-> x[n - i]]
  PROVE  /\ Squares(x) \in [0 .. n - 1 -> Scalars]
         /\ AreSquares(Squares(x), q, n)
         /\ \A e : Spread(e, q, n) => IsExponents(e, x, n, n)
<1>1. Squares(x) = [i \in 0 .. n - 1 |-> (x[i + 1] * x[i + 1]) % Order]
  BY DEF Squares, Vector
<1>2. ASSUME NEW i \in 1 .. n
      PROVE  x[i] \in Int /\ ((x[i] * x[i]) % Order) \in Scalars /\ Congruent((x[i] * x[i]) % Order, x[i] * x[i], Order)
  <2>1. x[i] \in Scalars \ {0}
    OBVIOUS
  <2>2. PICK y, z : y = x[i] /\ z = y * y
    OBVIOUS
  <2>3. y \in Int /\ z \in Int
    <3>1. y \in Int
      BY <2>1, <2>2, OrderIs
    <3> QED BY <2>2, <3>1
  <2>4. (z % Order) \in Scalars /\ Congruent(z % Order, z, Order)
    BY <2>3, ReducedIs
  <2> QED BY <2>2, <2>3, <2>4
<1>3. \A i \in 0 .. n - 1 : i + 1 \in 1 .. n
  OBVIOUS
<1>4. Squares(x) \in [0 .. n - 1 -> Scalars]
  BY <1>1, <1>2, <1>3
<1>5. AreSquares(Squares(x), q, n)
  <2> SUFFICES ASSUME NEW i \in 0 .. n - 1
               PROVE  q[i] \in Int /\ Congruent(Squares(x)[n - 1 - i], q[i] * q[i], Order)
    BY DEF AreSquares
  <2>1. n - i \in 1 .. n /\ n - 1 - i \in 0 .. n - 1 /\ (n - 1 - i) + 1 = n - i
    OBVIOUS
  <2>2. q[i] = x[n - i] /\ Squares(x)[n - 1 - i] = (x[n - i] * x[n - i]) % Order
    BY <1>1, <2>1
  <2> QED BY <1>2, <2>1, <2>2
<1>6. ASSUME NEW e, Spread(e, q, n) PROVE IsExponents(e, x, n, n)
  <2> SUFFICES ASSUME NEW j \in 1 .. n PROVE Squared(e, x[j], PowerOf2(n - j))
    BY DEF IsExponents
  <2>1. n - j \in 0 .. n - 1 /\ n - (n - j) = j
    OBVIOUS
  <2>2. q[n - j] = x[j]
    BY <2>1
  <2>3. Squared(e, q[n - j], PowerOf2(n - j))
    BY <1>6, <2>1 DEF Spread
  <2> QED BY <2>2, <2>3
<1> QED BY <1>4, <1>5, <1>6

LEMMA VerificationExponentsAre ==
  ASSUME InnerProductAssumption, NEW x \in Seq(Scalars \ {0}), NEW n \in Nat, n = Len(x), NEW value \in Scalars, NEW d
  PROVE  LET X == VerificationExponents(d, x, value)
             Y == GExponents(1, Squares(x)) IN
         /\ X \in Exponents(n) /\ X[0] = (AllInverse(x) * value) % Order /\ IsExponents(X, x, n, n)
         /\ Y \in Exponents(n) /\ Y[0] = 1 /\ IsExponents(Y, x, n, n)
<1>1. PICK q, sq, first : /\ q = [i \in 0 .. n - 1 |-> x[n - i]] /\ sq = Squares(x)
                          /\ first = (AllInverse(x) * value) % Order
  OBVIOUS
<1>2. sq \in [0 .. n - 1 -> Scalars] /\ AreSquares(sq, q, n) /\ \A e : Spread(e, q, n) => IsExponents(e, x, n, n)
  BY <1>1, SquaresAre
<1>3. first \in Scalars /\ 1 \in Scalars
  <2>1. AllInverse(x) \in Int /\ value \in Int
    <3>1. n \in 0 .. n
      OBVIOUS
    <3>2. AllInverse(x) \in Scalars
      BY <3>1, AllInverseIs
    <3> QED BY <3>2, OrderIs
  <2>2. PICK y : y = AllInverse(x) * value
    OBVIOUS
  <2>3. y \in Int
    BY <2>1, <2>2
  <2> QED BY <1>1, <2>2, <2>3, ReducedIs, OrderIs
<1>4. LET Y == GExponents(1, sq) IN Y \in Exponents(n) /\ Y[0] = 1 /\ Spread(Y, q, n)
  BY <1>2, <1>3, GExponentsAre
<1>5. LET X == GExponents(first, sq) IN X \in Exponents(n) /\ X[0] = first /\ Spread(X, q, n)
  BY <1>2, <1>3, GExponentsAre
<1>6. CASE d = "gpu" /\ Len(x) >= MinDeviceRounds
  <2>1. n > HostRounds
    BY <1>6 DEF InnerProductAssumption
  <2>2. LET X == GExponentsDevice(first, sq) IN X \in Exponents(n) /\ X[0] = first /\ Spread(X, q, n)
    BY <1>2, <1>3, <2>1, DeviceExponentsAre
  <2>3. VerificationExponents(d, x, value) = GExponentsDevice(first, sq)
    BY <1>1, <1>6 DEF VerificationExponents
  <2> QED BY <1>1, <1>2, <1>4, <2>2, <2>3
<1>7. CASE ~ (d = "gpu" /\ Len(x) >= MinDeviceRounds)
  <2>1. VerificationExponents(d, x, value) = GExponents(first, sq)
    BY <1>1, <1>7 DEF VerificationExponents
  <2> QED BY <1>1, <1>2, <1>4, <1>5, <2>1
<1> QED BY <1>6, <1>7

-----------------------------------------------------------------------------
(* The commitment that the verifier computes *)

(* What a round takes off *)
LEMMA LrTermIs ==
  ASSUME InnerProductAssumption, innerProblem \in InnerProblems,
         xs \in Seq(Scalars \ {0}), lr \in Seq(RoundTerms(innerProblem)), NEW i \in 1 .. Len(xs), i \in 1 .. Len(lr)
  PROVE  /\ LrTerm(lr, xs, i) \in Elements
         /\ \A k \in Basis :
              /\ LrTerm(lr, xs, i)[k] \in Int
              /\ Congruent(LrTerm(lr, xs, i)[k] + Added(i)[k], 0, Order)
<1>1. PICK x, y, g, h : x = xs[i] /\ y = InverseOf(xs[i]) /\ g = lr[i].l /\ h = lr[i].r
  OBVIOUS
<1>2. x \in Int /\ y \in Int
  <2>1. xs[i] \in Scalars \ {0}
    OBVIOUS
  <2> QED BY <1>1, <2>1, InverseCongruent
<1>3. g \in Elements /\ h \in Elements
  <2>1. lr[i] \in RoundTerms(innerProblem)
    OBVIOUS
  <2>2. Elements = ElementsOf(innerProblem)
    BY ProblemIs
  <2> QED BY <1>1, <2>1, <2>2 DEF RoundTerms
<1>4. PICK xx, yy : xx = -(x * x) /\ yy = -(y * y)
  OBVIOUS
<1>5. xx \in Int /\ yy \in Int
  <2>1. x * x \in Int /\ y * y \in Int
    BY <1>2
  <2> QED BY <1>4, <2>1
<1>6. PICK u, v, t : u = Times(xx, g) /\ v = Times(yy, h) /\ t = Plus(u, v)
  OBVIOUS
<1>7. /\ u \in Elements /\ v \in Elements
      /\ \A k \in Basis : /\ g[k] \in Int /\ h[k] \in Int
                          /\ Congruent(u[k], xx * g[k], Order) /\ Congruent(v[k], yy * h[k], Order)
  BY <1>3, <1>5, <1>6, TimesIs
<1>8. /\ t \in Elements
      /\ \A k \in Basis : /\ u[k] \in Int /\ v[k] \in Int /\ t[k] \in Int
                          /\ Congruent(t[k], u[k] + v[k], Order)
  BY <1>6, <1>7, ElementsAre
<1>9. LrTerm(lr, xs, i) = t
  BY <1>1, <1>4, <1>6 DEF LrTerm
<1>10. ASSUME NEW k \in Basis PROVE Congruent(t[k] + Added(i)[k], 0, Order)
  <2>1. PICK a, b, c, d, e, q : a = g[k] /\ b = h[k] /\ c = u[k] /\ d = v[k] /\ e = t[k] /\ q = Added(i)[k]
    OBVIOUS
  <2>2. /\ a \in Int /\ b \in Int /\ c \in Int /\ d \in Int /\ e \in Int
        /\ Congruent(c, xx * a, Order) /\ Congruent(d, yy * b, Order) /\ Congruent(e, c + d, Order)
    BY <1>7, <1>8, <2>1
  <2>3. q \in Int /\ Congruent(q, a * (x * x) + b * (y * y), Order)
    BY <1>1, <2>1, AddedIs
  <2>4. PICK o, p, z, w : o = xx * a /\ p = yy * b /\ z = a * (x * x) /\ w = b * (y * y)
    OBVIOUS
  <2>5. o \in Int /\ p \in Int /\ z \in Int /\ w \in Int /\ o + p \in Int /\ z + w \in Int /\ c + d \in Int
    <3>1. z \in Int /\ w \in Int
      <4>1. x * x \in Int /\ y * y \in Int
        BY <1>2
      <4> QED BY <2>2, <2>4, <4>1, SMTT(30)
    <3>2. o \in Int /\ p \in Int
      BY <1>5, <2>2, <2>4
    <3> QED BY <2>2, <3>1, <3>2
  <2>6. o = -z /\ p = -w
    <3>1. (-(x * x)) * a = -(a * (x * x)) /\ (-(y * y)) * b = -(b * (y * y))
      BY <1>2, <2>2, SMT
    <3> QED BY <1>4, <2>4, <3>1
  <2>7. Order \in Nat \ {0}
    BY OrderIs
  <2>8. Congruent(c, o, Order) /\ Congruent(d, p, Order) /\ Congruent(q, z + w, Order)
    BY <2>2, <2>3, <2>4
  <2>9. Congruent(c + d, o + p, Order)
    BY ONLY <2>2, <2>5, <2>7, <2>8, CongruentSum
  <2>10. Congruent(e, o + p, Order)
    BY ONLY <2>2, <2>5, <2>7, <2>9, CongruentEquivalence
  <2>11. Congruent(e + q, (o + p) + (z + w), Order)
    BY ONLY <2>2, <2>3, <2>5, <2>7, <2>8, <2>10, CongruentSum
  <2>12. (o + p) + (z + w) = 0
    BY <2>5, <2>6
  <2> QED BY <2>1, <2>11, <2>12
<1>11. \A k \in Basis : t[k] \in Int
  BY <1>8
<1> QED BY <1>9, <1>8, <1>10, <1>11

(* The sums of compute_expected_commitment *)
IsExpectedSum(f, g, k) ==
  /\ f[0] = Plus(Multiexponentiate(Generators, g), Times(ScalarProduct(g, FromSeq(innerProblem.b)), Q))
  /\ \A i \in 1 .. k : f[i] = Plus(f[i - 1], LrTerm(lr, xs, i))

LEMMA ExpectedLoop ==
  ASSUME InnerProductAssumption, innerProblem \in InnerProblems, NEW d, NEW final, NEW n \in Nat, n = Len(xs),
         NEW g, g = VerificationExponents(d, xs, final),
         Plus(Multiexponentiate(Generators, g), Times(ScalarProduct(g, FromSeq(innerProblem.b)), Q)) \in Elements,
         \A i \in 1 .. n : LrTerm(lr, xs, i) \in Elements
  PROVE  \E f \in [0 .. n -> Elements] : ExpectedCommitment(d, lr, xs, final) = f[n] /\ IsExpectedSum(f, g, n)
<1> DEFINE base == Plus(Multiexponentiate(Generators, g), Times(ScalarProduct(g, FromSeq(innerProblem.b)), Q))
           next(k, v) == Plus(v, LrTerm(lr, xs, k))
           step == [k \in 1 .. n |-> [v \in Elements |-> next(k, v)]]
<1>1. \A k \in 1 .. n, v \in Elements : next(k, v) \in Elements
  BY ElementsAre
<1>2. base \in Elements
  BY DEF base
<1> HIDE DEF base
<1>3. step \in [1 .. n -> [Elements -> Elements]]
  <2> HIDE DEF next
  <2> QED BY <1>1
<1>4. \A k \in 1 .. n, v \in Elements : step[k][v] = next(k, v)
  OBVIOUS
<1> HIDE DEF step
<1>5. PICK r \in [0 .. n -> Elements] : IsLoop(r, n, base, step)
  BY <1>2, <1>3, LoopExists
<1>6. \A k \in 1 .. n : k - 1 \in 0 .. n /\ k \in 0 .. n /\ k # 0
  OBVIOUS
<1>7. r[0] = base /\ \A k \in 1 .. n : r[k] = next(k, r[k - 1])
  <2> HIDE DEF next
  <2> QED BY <1>4, <1>5, <1>6 DEF IsLoop
<1> DEFINE Body(t, k) == IF k = 0 THEN base ELSE next(k, t[k - 1])
           value == CHOOSE t : t = [k \in 0 .. n |-> Body(t, k)]
<1>8. ExpectedCommitment(d, lr, xs, final) = value[n]
  BY Zenon DEF ExpectedCommitment, base
<1> HIDE DEF next
<1>9. ASSUME NEW k \in 0 .. n PROVE r[k] = Body(r, k)
  <2>1. CASE k = 0
    BY <1>7, <2>1
  <2>2. CASE k # 0
    <3>1. k \in 1 .. n
      BY <2>2
    <3> QED BY <1>7, <2>2, <3>1
  <2> QED BY <2>1, <2>2
<1>10. r = [k \in 0 .. n |-> Body(r, k)]
  <2> HIDE DEF Body
  <2> QED BY <1>5, <1>9
<1>11. value = [k \in 0 .. n |-> Body(value, k)]
  BY <1>10
<1> HIDE DEF value
<1>12. value[0] = base
  BY <1>11
<1>13. \A k \in 1 .. n : value[k] = next(k, value[k - 1])
  BY <1>6, <1>11
<1> HIDE DEF Body
<1>14. InStep(value, r, n)
  BY <1>7, <1>12, <1>13 DEF InStep
<1>15. n \in 0 .. n /\ \A k \in 0 .. n : value[k] = r[k]
  BY <1>14, LoopsAgree DEF Agree
<1> QED BY <1>5, <1>7, <1>8, <1>15 DEF base, next, IsExpectedSum

(* What one sum takes off, the other adds. *)
LEMMA BalanceStep ==
  ASSUME NEW m \in Nat \ {0}, NEW e \in Int, NEW c \in Int, NEW t \in Int, NEW a \in Int,
         NEW e1 \in Int, NEW c1 \in Int, NEW z \in Int,
         Congruent(e1, e + t, m), Congruent(c1, c + a, m), Congruent(t + a, 0, m), Congruent(e + c, z, m)
  PROVE  Congruent(e1 + c1, z, m)
<1>1. e + t \in Int /\ c + a \in Int /\ t + a \in Int /\ e + c \in Int /\ e1 + c1 \in Int /\ 0 \in Int
  OBVIOUS
<1>2. Congruent(e1 + c1, (e + t) + (c + a), m)
  BY <1>1, CongruentSum
<1>3. Congruent((e + c) + (t + a), z + 0, m)
  BY <1>1, CongruentSum
<1>4. (e + t) + (c + a) = (e + c) + (t + a) /\ z + 0 = z /\ (e + c) + (t + a) \in Int
  OBVIOUS
<1> QED BY <1>1, <1>2, <1>3, <1>4, CongruentEquivalence

(* The expected commitment and the corrected one add up to what they begin with. *)
LEMMA BalancedSum ==
  ASSUME InnerProductAssumption, innerProblem \in InnerProblems, NEW n \in Nat, Published(n), NEW g,
         NEW f \in [0 .. n -> Elements], IsExpectedSum(f, g, n),
         NEW k \in Basis, NEW c, IsCorrections(c, Start(innerProblem, k), xs, lr, n, k),
         NEW D \in Int, Congruent(f[0][k], D, Order)
  PROVE  Congruent(f[n][k] + c[n], D + Start(innerProblem, k), Order)
<1>1. PICK S : S = Start(innerProblem, k)
  OBVIOUS
<1>2. Order \in Nat \ {0} /\ S \in Int /\ D + S \in Int
  BY <1>1, CallerVectorsAre, ProblemIs, OrderIs
<1>3. /\ \A j \in 0 .. n : c[j] \in Int
      /\ Congruent(c[0], S, Order)
      /\ \A j \in 1 .. n :
           Congruent(c[j], c[j - 1] + (lr[j].l[k] * (xs[j] * xs[j])
                                       + lr[j].r[k] * (InverseOf(xs[j]) * InverseOf(xs[j]))), Order)
  BY <1>1 DEF IsCorrections
<1>4. \A j \in 0 .. n : f[j] \in Elements /\ f[j][k] \in Int
  BY OrderIs DEF Elements
<1> DEFINE G == {j \in 0 .. n : Congruent(f[j][k] + c[j], D + S, Order)}
<1>5. 0 \in G
  <2>1. PICK d, u : d = f[0][k] /\ u = c[0]
    OBVIOUS
  <2>2. d \in Int /\ u \in Int /\ Congruent(d, D, Order) /\ Congruent(u, S, Order) /\ 0 \in 0 .. n
    BY <1>3, <1>4, <2>1
  <2>3. Congruent(d + u, D + S, Order)
    BY ONLY <1>2, <2>2, CongruentSum
  <2> QED BY <2>1, <2>2, <2>3
<1>6. ASSUME NEW j \in 1 .. n, j - 1 \in G PROVE j \in G
  <2>1. PICK e, u, t, a, e1, u1, o :
          /\ e = f[j - 1][k] /\ u = c[j - 1] /\ t = LrTerm(lr, xs, j)[k] /\ a = Added(j)[k]
          /\ e1 = f[j][k] /\ u1 = c[j]
          /\ o = lr[j].l[k] * (xs[j] * xs[j]) + lr[j].r[k] * (InverseOf(xs[j]) * InverseOf(xs[j]))
    OBVIOUS
  <2>2. j - 1 \in 0 .. n /\ j \in 0 .. n
    OBVIOUS
  <2>3. j \in 1 .. Len(xs) /\ j \in 1 .. Len(lr) /\ xs \in Seq(Scalars \ {0}) /\ lr \in Seq(RoundTerms(innerProblem))
    BY DEF Published
  <2>4. LrTerm(lr, xs, j) \in Elements /\ t \in Int /\ Congruent(t + a, 0, Order)
    BY <2>1, <2>3, LrTermIs
  <2>5. a \in Int /\ Congruent(a, o, Order) /\ o \in Int
    <3>1. a \in Int /\ Congruent(a, o, Order) /\ lr[j].l[k] \in Int /\ lr[j].r[k] \in Int
      BY <2>1, <2>3, AddedIs
    <3>2. PICK s, v, y, z : s = xs[j] /\ v = InverseOf(xs[j]) /\ y = lr[j].l[k] /\ z = lr[j].r[k]
      OBVIOUS
    <3>3. s \in Int /\ v \in Int
      <4>1. xs[j] \in Scalars \ {0}
        BY <2>3
      <4> QED BY <3>2, <4>1, InverseCongruent
    <3>4. y * (s * s) \in Int /\ z * (v * v) \in Int
      BY <3>1, <3>2, <3>3, SMTT(30)
    <3>5. o = y * (s * s) + z * (v * v)
      BY <2>1, <3>2
    <3> QED BY <3>1, <3>4, <3>5
  <2>6. e \in Int /\ u \in Int /\ e1 \in Int /\ u1 \in Int
    BY <1>3, <1>4, <2>1, <2>2
  <2>7. Congruent(e1, e + t, Order)
    <3>1. f[j] = Plus(f[j - 1], LrTerm(lr, xs, j))
      BY DEF IsExpectedSum
    <3>2. PICK x, y : x = f[j - 1] /\ y = LrTerm(lr, xs, j)
      OBVIOUS
    <3>3. x \in Elements /\ y \in Elements
      BY <1>4, <2>2, <2>4, <3>2
    <3>4. Congruent(Plus(x, y)[k], x[k] + y[k], Order)
      BY <3>3, ElementsAre
    <3> QED BY <2>1, <3>1, <3>2, <3>4
  <2>8. Congruent(u1, u + a, Order)
    <3>1. Congruent(u1, u + o, Order)
      BY <1>3, <2>1
    <3>2. Congruent(o, a, Order) /\ Congruent(u, u, Order)
      BY <1>2, <2>5, <2>6, CongruentEquivalence, CongruentRemainder
    <3>3. u + o \in Int /\ u + a \in Int
      BY <2>5, <2>6
    <3>4. Congruent(u + o, u + a, Order)
      BY ONLY <1>2, <2>5, <2>6, <3>2, CongruentSum
    <3> QED BY ONLY <1>2, <2>6, <3>1, <3>3, <3>4, CongruentEquivalence
  <2>9. Congruent(e + u, D + S, Order)
    BY <1>6, <2>1
  <2>10. Congruent(e1 + u1, D + S, Order)
    BY ONLY <1>2, <2>4, <2>5, <2>6, <2>7, <2>8, <2>9, BalanceStep
  <2> QED BY <2>1, <2>2, <2>10
<1> HIDE DEF G
<1>7. \A j \in 0 .. n : j \in G
  BY <1>5, <1>6, BoundedInduction
<1>8. n \in 0 .. n
  OBVIOUS
<1> QED BY <1>1, <1>7, <1>8 DEF G

(* What can be cancelled is. *)
LEMMA CancelFactor ==
  ASSUME InnerProductAssumption, NEW s \in Int, Cancels(s), NEW a \in Int, NEW b \in Int,
         Congruent(s * a, s * b, Order)
  PROVE  Congruent(a, b, Order)
<1>1. PICK y \in Int : Congruent(s * y, 1, Order)
  BY DEF Cancels
<1>2. PICK u, v, w : u = s * a /\ v = s * b /\ w = s * y
  OBVIOUS
<1>3. /\ Order \in Nat \ {0} /\ u \in Int /\ v \in Int /\ w \in Int /\ Congruent(u, v, Order) /\ Congruent(w, 1, Order)
      /\ Congruent(y, y, Order) /\ Congruent(a, a, Order) /\ Congruent(b, b, Order)
  BY <1>1, <1>2, OrderIs, CongruentRemainder
<1>4. Congruent(u * y, v * y, Order) /\ Congruent(w * a, 1 * a, Order) /\ Congruent(w * b, 1 * b, Order)
  BY <1>3, CongruentProduct
<1>5. u * y = w * a /\ v * y = w * b
  <2>1. (s * a) * y = (s * y) * a /\ (s * b) * y = (s * y) * b
    BY SMT
  <2> QED BY <1>2, <2>1
<1>6. PICK p, q : p = w * a /\ q = w * b
  OBVIOUS
<1>7. p \in Int /\ q \in Int /\ Congruent(p, q, Order) /\ Congruent(p, a, Order) /\ Congruent(q, b, Order)
  <2>1. 1 * a = a /\ 1 * b = b /\ w * a \in Int /\ w * b \in Int
    BY <1>3
  <2> QED BY <1>4, <1>5, <1>6, <2>1
<1>8. Congruent(a, p, Order) /\ Congruent(p, b, Order)
  BY ONLY <1>3, <1>7, CongruentEquivalence
<1> QED BY ONLY <1>3, <1>7, <1>8, CongruentEquivalence

(* The product of the exponents and the weights, if the final scalar were value *)
LEMMA ScaledBack ==
  ASSUME InnerProductAssumption, NEW s \in Int, Cancels(s), NEW value \in Int, NEW w \in Int, NEW D \in Int,
         NEW e \in Int, Congruent(e, s * value, Order), Congruent(e * w, s * D, Order)
  PROVE  Congruent(D, value * w, Order)
<1>1. PICK u, v, z : u = s * value /\ v = e * w /\ z = value * w
  OBVIOUS
<1>2. Order \in Nat \ {0} /\ u \in Int /\ v \in Int /\ z \in Int /\ Congruent(e, u, Order) /\ Congruent(w, w, Order)
  BY <1>1, OrderIs, CongruentRemainder
<1>3. Congruent(v, u * w, Order)
  BY <1>1, <1>2, CongruentProduct
<1>4. u * w = s * z
  <2>1. (s * value) * w = s * (value * w)
    BY SMT
  <2> QED BY <1>1, <2>1
<1>5. PICK p, q : p = s * z /\ q = s * D
  OBVIOUS
<1>6. p \in Int /\ q \in Int /\ Congruent(v, p, Order) /\ Congruent(v, q, Order)
  BY <1>1, <1>2, <1>3, <1>4, <1>5
<1>7. Congruent(q, v, Order)
  BY ONLY <1>2, <1>6, CongruentEquivalence
<1>8. Congruent(q, p, Order)
  BY ONLY <1>2, <1>6, <1>7, CongruentEquivalence
<1>9. Congruent(s * D, s * z, Order)
  BY <1>5, <1>8
<1>10. Congruent(D, z, Order)
  BY <1>2, <1>9, CancelFactor
<1> QED BY <1>1, <1>10

(* What the expected commitment lacks is what value lacks of the final scalar. *)
Differs(e, start, a, value, w) == Congruent(e + a * w, start + value * w, Order)

LEMMA ExpectedIs ==
  ASSUME InnerProductAssumption, innerProblem \in InnerProblems, NEW n, n = RoundsOf(innerProblem), n = Len(xs), Published(n),
         NEW a, FinalKept(innerProblem, xs, lr, a), NEW value \in Scalars, NEW d
  PROVE  /\ ExpectedCommitment(d, lr, xs, value) \in Elements
         /\ \E s \in Int :
              /\ Cancels(s)
              /\ \A k \in Basis : \E w \in Int :
                   /\ Differs(ExpectedCommitment(d, lr, xs, value)[k], Start(innerProblem, k), a, value, w)
                   /\ k = 1 => Congruent(w, s, Order)
<1>1. PICK N, X, Y, z, v, E : /\ N = PowerOf2(n) /\ X = VerificationExponents(d, xs, value)
                              /\ Y = GExponents(1, Squares(xs)) /\ z = Len(innerProblem.a)
                              /\ v = CallerVectors(innerProblem) /\ E = ExpectedCommitment(d, lr, xs, value)
  OBVIOUS
<1>2. /\ z \in Nat /\ N \in Nat \ {0} /\ z <= N /\ AreVectors(innerProblem, v, z, N)
      /\ \A k \in Basis : FirstWeights(innerProblem, k) \in [0 .. N - 1 -> Int] /\ Start(innerProblem, k) \in Int
  BY <1>1, CallerVectorsAre, ProblemIs
<1>3. Order \in Nat \ {0} /\ Scalars \subseteq Int /\ n \in Nat /\ value \in Int /\ a \in Int
  <2>1. Order \in Nat \ {0} /\ Scalars \subseteq Int /\ n \in Nat
    BY RoundsAre, OrderIs
  <2>2. a \in Scalars
    BY DEF FinalKept
  <2> QED BY <2>1, <2>2
<1>4. xs \in Seq(Scalars \ {0}) /\ lr \in Seq(RoundTerms(innerProblem)) /\ \A i \in 1 .. n : i \in 1 .. Len(xs) /\ i \in 1 .. Len(lr)
  BY DEF Published
<1>5. /\ X \in Exponents(n) /\ X[0] = (AllInverse(xs) * value) % Order /\ IsExponents(X, xs, n, n)
      /\ Y \in Exponents(n) /\ Y[0] = 1 /\ IsExponents(Y, xs, n, n)
  BY <1>1, <1>3, <1>4, VerificationExponentsAre
<1>6. X \in [0 .. N - 1 -> Int] /\ Y \in [0 .. N - 1 -> Int]
  BY <1>1, <1>3, <1>5 DEF Exponents
<1>7. PICK r \in [0 .. n -> Scalars] : AllInverse(xs) = r[n] /\ IsInverses(r, xs, n) /\ Cancels(r[n])
  BY <1>3, <1>4, InversesAre
<1>8. PICK s : s = r[n]
  OBVIOUS
<1>9. s \in Int /\ Cancels(s)
  BY <1>3, <1>7, <1>8
<1>10. X[0] \in Int /\ Congruent(X[0], s * value, Order)
  <2>1. PICK y : y = s * value
    OBVIOUS
  <2>2. y \in Int
    BY <1>3, <1>9, <2>1
  <2> QED BY <1>5, <1>7, <1>8, <2>1, <2>2, ReducedIs
<1>11. /\ v.b \in [0 .. z - 1 -> Int] /\ IsVectorOf(Generators, N) /\ Generators = v.g /\ FromSeq(innerProblem.b) = v.b
  <2>1. v.b \in [0 .. z - 1 -> Scalars] /\ v.g \in [0 .. N - 1 -> Elements] /\ Generators = v.g /\ FromSeq(innerProblem.b) = v.b
    BY <1>1, <1>2, ProblemIs DEF AreVectors
  <2> QED BY <1>2, <1>3, <2>1 DEF IsVectorOf
<1>12. PICK B : B = Plus(Multiexponentiate(Generators, X), Times(ScalarProduct(X, FromSeq(innerProblem.b)), Q))
  OBVIOUS
<1>13. /\ B \in Elements
       /\ \A k \in Basis : Congruent(B[k], Dot(X, FirstWeights(innerProblem, k), N), Order)
  <2>1. /\ B \in Elements
        /\ \A k \in Basis : Congruent(B[k], Dot(Padded(X, N), Weights(v.b, v.g, k, N), N), Order)
    BY <1>2, <1>6, <1>11, <1>12, CommitmentIs
  <2>2. Padded(X, N) = X
    BY <1>2, <1>6, PaddedType
  <2>3. \A k : Weights(v.b, v.g, k, N) = FirstWeights(innerProblem, k)
    BY <1>1 DEF FirstWeights
  <2> QED BY <2>1, <2>2, <2>3
<1>14. PICK f \in [0 .. n -> Elements] : E = f[n] /\ IsExpectedSum(f, X, n)
  <2>1. \A i \in 1 .. n : LrTerm(lr, xs, i) \in Elements
    BY <1>4, LrTermIs
  <2> QED BY <1>1, <1>3, <1>12, <1>13, <2>1, ExpectedLoop
<1>15. E \in Elements /\ f[0] = B
  <2>1. n \in 0 .. n
    BY <1>3
  <2> QED BY <1>12, <1>14, <2>1 DEF IsExpectedSum
<1>16. PICK h : \A k \in Basis : IsCorrections([j \in 0 .. n |-> h[j][k]], Start(innerProblem, k), xs, lr, n, k)
  BY <1>3, CorrectionsAre
<1>17. ASSUME NEW k \in Basis
       PROVE  \E w \in Int : Differs(E[k], Start(innerProblem, k), a, value, w) /\ (k = 1 => Congruent(w, s, Order))
  <2>1. k \in BasisOf(innerProblem)
    BY ProblemIs
  <2>2. PICK w \in Int :
          /\ \A c : IsCorrections(c, Start(innerProblem, k), xs, lr, n, k) => Congruent(a * w, c[n], Order)
          /\ \A e \in [0 .. N - 1 -> Int] : \A t :
               IsExponents(e, xs, n, n) /\ IsInverses(t, xs, n) =>
                 Congruent(e[0] * w, t[n] * Dot(e, FirstWeights(innerProblem, k), N), Order)
    BY <1>1, <2>1 DEF FinalKept
  <2>3. PICK D, S, c : /\ D = Dot(X, FirstWeights(innerProblem, k), N) /\ S = Start(innerProblem, k)
                       /\ c = [j \in 0 .. n |-> h[j][k]]
    OBVIOUS
  <2>4. D \in Int /\ S \in Int
    BY <1>2, <1>6, <2>3, DotType
  <2>5. Congruent(D, value * w, Order)
    <3>1. Congruent(X[0] * w, s * D, Order)
      BY <1>5, <1>6, <1>7, <1>8, <2>2, <2>3
    <3> QED BY <1>3, <1>9, <1>10, <2>4, <3>1, ScaledBack
  <2>6. IsCorrections(c, S, xs, lr, n, k)
    BY <1>16, <2>3
  <2>7. Congruent(a * w, c[n], Order) /\ c[n] \in Int
    <3>1. n \in 0 .. n
      BY <1>3
    <3>2. Congruent(a * w, c[n], Order)
      BY <2>2, <2>3, <2>6
    <3> QED BY <2>6, <3>1, <3>2 DEF IsCorrections
  <2>8. Congruent(E[k] + c[n], D + S, Order)
    BY <1>3, <1>13, <1>14, <1>15, <2>3, <2>4, <2>6, BalancedSum
  <2>9. Congruent(E[k] + a * w, S + value * w, Order)
    <3>1. PICK e, u, y, g : e = E[k] /\ u = a * w /\ y = c[n] /\ g = value * w
      OBVIOUS
    <3>2. e \in Int /\ u \in Int /\ y \in Int /\ g \in Int
      <4>1. e \in Int
        BY <1>3, <1>15, <3>1 DEF Elements
      <4> QED BY <1>3, <2>2, <2>7, <3>1, <4>1
    <3>3. e + u \in Int /\ e + y \in Int /\ D + S \in Int /\ g + S \in Int /\ g + S = S + g
      BY <2>4, <3>2
    <3>4. Congruent(u, y, Order) /\ Congruent(D, g, Order) /\ Congruent(e + y, D + S, Order)
      BY <2>5, <2>7, <2>8, <3>1
    <3>5. Congruent(e, e, Order) /\ Congruent(S, S, Order)
      BY <1>3, <2>4, <3>2, CongruentRemainder
    <3>6. Congruent(e + u, e + y, Order) /\ Congruent(D + S, g + S, Order)
      BY ONLY <1>3, <2>4, <3>2, <3>4, <3>5, CongruentSum
    <3>7. Congruent(e + u, D + S, Order)
      BY ONLY <1>3, <3>3, <3>4, <3>6, CongruentEquivalence
    <3>8. Congruent(e + u, g + S, Order)
      BY ONLY <1>3, <3>3, <3>6, <3>7, CongruentEquivalence
    <3> QED BY <3>1, <3>3, <3>8
  <2>10. ASSUME k = 1 PROVE Congruent(w, s, Order)
    <3>1. PICK W : W = FirstWeights(innerProblem, 1)
      OBVIOUS
    <3>2. W \in [0 .. N - 1 -> Int] /\ 0 \in 0 .. N - 1
      BY <1>2, <2>10, <3>1
    <3>3. \A i \in 0 .. N - 1 : W[i] = IF i = 0 THEN 1 ELSE 0
      <4>1. Unit(1) = 0
        BY DEF Unit
      <4>2. \A i \in 0 .. N - 1 : W[i] = v.g[i][1] + 0 * Padded(v.b, N)[i]
        BY <1>1, <3>1, <4>1 DEF FirstWeights, Weights
      <4>3. ASSUME NEW i \in 0 .. N - 1 PROVE v.g[i][1] = IF i = 0 THEN 1 ELSE 0
        <5>1. v.g[i] = [q \in BasisOf(innerProblem) |-> IF q = i + 1 THEN 1 ELSE 0]
          BY <1>1 DEF CallerVectors
        <5>2. 1 \in BasisOf(innerProblem)
          BY <2>1, <2>10
        <5>3. v.g[i][1] = IF 1 = i + 1 THEN 1 ELSE 0
          BY <5>1, <5>2
        <5> QED BY <5>3
      <4>4. \A i \in 0 .. N - 1 : Padded(v.b, N)[i] \in Int
        <5>1. PICK b : b = v.b
          OBVIOUS
        <5>2. b \in [0 .. z - 1 -> Int] /\ z \in Nat /\ N \in Nat
          BY <1>2, <1>11, <5>1
        <5>3. Padded(b, N) \in [0 .. N - 1 -> Int]
          BY ONLY <5>2, PaddedType
        <5> QED BY <5>1, <5>3
      <4>5. ASSUME NEW i \in 0 .. N - 1 PROVE W[i] = IF i = 0 THEN 1 ELSE 0
        <5>1. PICK y, u : y = Padded(v.b, N)[i] /\ u = v.g[i][1]
          OBVIOUS
        <5>2. y \in Int /\ W[i] = u + 0 * y /\ u = IF i = 0 THEN 1 ELSE 0
          BY <4>2, <4>3, <4>4, <5>1
        <5> QED BY <5>2
      <4> QED BY <4>5
    <3>4. OnlyAt(W, 0, N)
      BY <3>3 DEF OnlyAt
    <3>5. Dot(Y, W, N) = Y[0] * W[0]
      BY <1>2, <1>6, <3>2, <3>4, DotOfOne
    <3>6. Dot(Y, W, N) = 1
      BY <1>5, <3>2, <3>3, <3>5
    <3>7. Congruent(Y[0] * w, s * Dot(Y, W, N), Order)
      BY <1>5, <1>6, <1>7, <1>8, <2>2, <2>10, <3>1
    <3>8. 1 * w = w /\ s * 1 = s
      BY <1>9, <2>2
    <3> QED BY <1>5, <3>6, <3>7, <3>8
  <2> QED BY <2>2, <2>3, <2>9, <2>10 DEF Differs
<1> QED BY <1>1, <1>9, <1>15, <1>17

-----------------------------------------------------------------------------
(* What the verifier compares *)

GivenOf(product, commit) == Plus(Times(product, Q), commit)
Truth == Plus(TrueCommit, Times(TrueProduct, Q))

(* A term that both sides have can be taken off. *)
LEMMA CancelTerm ==
  ASSUME NEW m \in Nat \ {0}, NEW a \in Int, NEW b \in Int, NEW c \in Int, NEW d \in Int,
         Congruent(a + c, b + d, m), Congruent(c, d, m)
  PROVE  Congruent(a, b, m)
<1>1. PICK k \in Int : a + c = (b + d) + k * m
  BY DEF Congruent
<1>2. PICK l \in Int : c = d + l * m
  BY DEF Congruent
<1>3. a = b + (k - l) * m
  <2>1. PICK o, p, q : o = k * m /\ p = l * m /\ q = (k - l) * m
    OBVIOUS
  <2>2. o \in Int /\ p \in Int /\ q \in Int
    BY <1>1, <1>2, <2>1
  <2>3. q = o - p
    <3>1. (k - l) * m = k * m - l * m
      BY <1>1, <1>2, SMT
    <3> QED BY <2>1, <3>1
  <2> QED BY <1>1, <1>2, <2>1, <2>2, <2>3
<1>4. k - l \in Int
  BY <1>1, <1>2
<1> QED BY <1>3, <1>4 DEF Congruent

(* Congruent scalars are equal. *)
LEMMA SameScalar ==
  ASSUME InnerProductAssumption, NEW a \in Scalars, NEW b \in Scalars, Congruent(a, b, Order)
  PROVE  a = b
<1>1. Order \in Nat \ {0} /\ a \in 0 .. Order - 1 /\ b \in 0 .. Order - 1 /\ a \in Int /\ b \in Int
  BY OrderIs DEF Scalars
<1>2. (a % Order) = (b % Order)
  BY <1>1, CongruentMod
<1>3. (a % Order) = a /\ (b % Order) = b
  BY <1>1, ModSmall
<1> QED BY <1>2, <1>3

(* The true product is a scalar. *)
LEMMA TrueProductIs ==
  ASSUME InnerProductAssumption, innerProblem \in InnerProblems
  PROVE  TrueProduct \in Scalars
<1>1. PICK N, z, v : N = PowerOf2(RoundsOf(innerProblem)) /\ z = Len(innerProblem.a) /\ v = CallerVectors(innerProblem)
  OBVIOUS
<1>2. z \in Nat /\ N \in Nat /\ z <= N /\ AreVectors(innerProblem, v, z, N)
  BY <1>1, CallerVectorsAre
<1>3. v.a \in [0 .. z - 1 -> Int] /\ v.b \in [0 .. z - 1 -> Int]
  <2>1. v.a \in [0 .. z - 1 -> Scalars] /\ v.b \in [0 .. z - 1 -> Scalars] /\ Scalars \subseteq Int
    BY <1>2, OrderIs DEF AreVectors
  <2> QED BY <2>1
<1>4. PICK a, b : a = v.a /\ b = v.b
  OBVIOUS
<1>5. PICK y : y = Dot(Padded(a, N), Padded(b, N), N)
  OBVIOUS
<1>6. ScalarProduct(a, b) = y % Order
  BY <1>2, <1>3, <1>4, <1>5, ScalarProductIs
<1>7. y \in Int
  <2>1. Padded(a, N) \in [0 .. N - 1 -> Int] /\ Padded(b, N) \in [0 .. N - 1 -> Int]
    BY <1>2, <1>3, <1>4, PaddedType
  <2> QED BY <1>2, <1>5, <2>1, DotType
<1>8. TrueProduct = ScalarProduct(a, b)
  BY <1>1, <1>4, ProblemIs DEF TrueProduct
<1> QED BY <1>6, <1>7, <1>8, ReducedIs

(* The coefficients of what the verifier is given *)
LEMMA GivenIs ==
  ASSUME InnerProductAssumption, NEW product \in Scalars, NEW commit \in Elements
  PROVE  /\ GivenOf(product, commit) \in Elements
         /\ GivenOf(product, commit) = Plus(commit, Times(product, Q))
         /\ \A k \in Basis :
              Times(product, Q)[k] \in Int /\ Congruent(Times(product, Q)[k], product * Unit(k), Order)
<1>1. product \in Int /\ Q \in Elements
  BY OrderIs, ElementsAre
<1>2. PICK g : g = Times(product, Q)
  OBVIOUS
<1>3. /\ g \in Elements
      /\ \A k \in Basis : g[k] \in Int /\ Congruent(g[k], product * Q[k], Order)
  BY <1>1, <1>2, TimesIs
<1>4. \A k \in Basis : Q[k] = Unit(k)
  BY DEF Q, Unit
<1>5. ASSUME NEW k \in Basis PROVE g[k] + commit[k] = commit[k] + g[k]
  <2>1. PICK x, y : x = g[k] /\ y = commit[k]
    OBVIOUS
  <2>2. x \in Int /\ y \in Int
    BY <1>3, <2>1, ElementsAre
  <2> QED BY <2>1, <2>2
<1>6. Plus(g, commit) = Plus(commit, g)
  BY <1>5 DEF Plus
<1>7. Plus(g, commit) \in Elements
  BY <1>3, ElementsAre
<1> QED BY <1>2, <1>3, <1>4, <1>6, <1>7 DEF GivenOf

(* What is given determines the commitment or the product, if the other one is true. *)
LEMMA GivenDetermines ==
  ASSUME InnerProductAssumption, innerProblem \in InnerProblems, NEW product \in Scalars, NEW commit \in Elements,
         product = TrueProduct \/ commit = TrueCommit, GivenOf(product, commit) = Truth
  PROVE  product = TrueProduct /\ commit = TrueCommit
<1>1. PICK p, g : p = TrueProduct /\ g = TrueCommit
  OBVIOUS
<1>2. p \in Scalars /\ g \in Elements /\ Truth = GivenOf(p, g) /\ Order \in Nat \ {0} /\ Scalars \subseteq Int
  BY <1>1, TrueProductIs, StartIs, GivenIs, OrderIs DEF Truth
<1>3. PICK u, v : u = Times(product, Q) /\ v = Times(p, Q)
  OBVIOUS
<1>4. /\ u \in Elements /\ v \in Elements
      /\ \A k \in Basis : /\ Congruent(u[k], product * Unit(k), Order) /\ Congruent(v[k], p * Unit(k), Order)
                          /\ u[k] \in Int /\ v[k] \in Int /\ commit[k] \in Int /\ g[k] \in Int
  <2>1. product \in Int /\ p \in Int /\ Q \in Elements
    BY <1>2, ElementsAre
  <2>2. u \in Elements /\ v \in Elements
    BY <1>3, <2>1, TimesIs
  <2>3. \A k \in Basis : commit[k] \in Int /\ g[k] \in Int
    BY <1>2, ElementsAre
  <2> QED BY <1>2, <1>3, <2>2, <2>3, GivenIs
<1>5. ASSUME NEW k \in Basis PROVE Congruent(u[k] + commit[k], v[k] + g[k], Order)
  <2>1. PICK e, x, y : e = Plus(u, commit)[k] /\ x = u[k] + commit[k] /\ y = v[k] + g[k]
    OBVIOUS
  <2>2. Plus(u, commit) = Plus(v, g)
    BY <1>2, <1>3 DEF GivenOf
  <2>3. e \in Int /\ Congruent(e, x, Order) /\ Congruent(e, y, Order) /\ x \in Int /\ y \in Int
    <3>1. Congruent(Plus(u, commit)[k], x, Order) /\ Plus(u, commit)[k] \in Int /\ Congruent(Plus(v, g)[k], y, Order)
      BY <1>2, <1>4, <2>1, ElementsAre
    <3>2. x \in Int /\ y \in Int
      BY <1>4, <2>1
    <3> QED BY <2>1, <2>2, <3>1, <3>2
  <2>4. Congruent(x, e, Order)
    BY ONLY <1>2, <2>3, CongruentEquivalence
  <2>5. Congruent(x, y, Order)
    BY ONLY <1>2, <2>3, <2>4, CongruentEquivalence
  <2> QED BY <2>1, <2>5
<1>6. CASE product = TrueProduct
  <2>1. ASSUME NEW k \in Basis PROVE Congruent(commit[k], g[k], Order)
    <3>1. PICK x, c, d : x = u[k] /\ c = commit[k] /\ d = g[k]
      OBVIOUS
    <3>2. x \in Int /\ c \in Int /\ d \in Int /\ v[k] = x
      BY <1>1, <1>3, <1>4, <1>6, <3>1
    <3>3. Congruent(x + c, x + d, Order) /\ x + c = c + x /\ x + d = d + x
      BY <1>5, <3>1, <3>2
    <3>4. Congruent(x, x, Order) /\ Congruent(c + x, d + x, Order)
      BY <1>2, <3>2, <3>3, CongruentRemainder
    <3>5. Congruent(c, d, Order)
      BY ONLY <1>2, <3>2, <3>4, CancelTerm
    <3> QED BY <3>1, <3>5
  <2>2. commit = g
    BY <1>2, <2>1, SameElement
  <2> QED BY <1>1, <1>6, <2>2
<1>7. CASE commit = TrueCommit
  <2>1. 0 \in Basis /\ Unit(0) = 1
    <3>1. PICK N : N = PowerOf2(RoundsOf(innerProblem))
      OBVIOUS
    <3>2. N \in Nat \ {0}
      BY <3>1, CallerVectorsAre
    <3>3. BasisOf(innerProblem) = 0 .. N
      BY <3>1 DEF BasisOf
    <3> QED BY <3>2, <3>3, ProblemIs DEF Unit
  <2>2. PICK x, y, c : x = u[0] /\ y = v[0] /\ c = commit[0]
    OBVIOUS
  <2>3. x \in Int /\ y \in Int /\ c \in Int /\ g[0] = c
    BY <1>1, <1>4, <1>7, <2>1, <2>2
  <2>4. Congruent(x + c, y + c, Order) /\ Congruent(c, c, Order)
    BY <1>2, <1>5, <2>1, <2>2, <2>3, CongruentRemainder
  <2>5. Congruent(x, y, Order)
    BY ONLY <1>2, <2>3, <2>4, CancelTerm
  <2>6. product \in Int /\ p \in Int /\ product * 1 = product /\ p * 1 = p
    <3>1. product \in Int /\ p \in Int
      BY <1>2
    <3> QED BY <3>1
  <2>7. Congruent(x, product, Order) /\ Congruent(y, p, Order)
    BY <1>4, <2>1, <2>2, <2>6
  <2>8. Congruent(product, x, Order)
    BY ONLY <1>2, <2>3, <2>6, <2>7, CongruentEquivalence
  <2>9. Congruent(product, y, Order)
    BY ONLY <1>2, <2>3, <2>5, <2>6, <2>8, CongruentEquivalence
  <2>10. Congruent(product, p, Order)
    BY ONLY <1>2, <2>3, <2>6, <2>7, <2>9, CongruentEquivalence
  <2> QED BY <1>1, <1>2, <1>7, <2>10, SameScalar
<1> QED BY <1>6, <1>7

(* The expected commitment is the true one exactly if the final scalar is. *)
LEMMA ExpectedIsTruth ==
  ASSUME InnerProductAssumption, innerProblem \in InnerProblems, NEW n, n = RoundsOf(innerProblem), n = Len(xs), Published(n),
         NEW a, FinalKept(innerProblem, xs, lr, a), NEW value \in Scalars, NEW d
  PROVE  ExpectedCommitment(d, lr, xs, value) = Truth <=> value = a
<1>1. PICK E : E = ExpectedCommitment(d, lr, xs, value)
  OBVIOUS
<1>2. PICK s \in Int :
        /\ Cancels(s)
        /\ \A k \in Basis : \E w \in Int :
             Differs(E[k], Start(innerProblem, k), a, value, w) /\ (k = 1 => Congruent(w, s, Order))
  BY <1>1, ExpectedIs
<1>3. E \in Elements
  BY <1>1, ExpectedIs
<1>4. Truth \in Elements /\ \A k \in Basis : Congruent(Truth[k], Start(innerProblem, k), Order)
  BY StartIs DEF Truth
<1>5. Order \in Nat \ {0} /\ Scalars \subseteq Int /\ a \in Scalars
  BY OrderIs DEF FinalKept
<1>6. ASSUME NEW k \in Basis PROVE E[k] \in Int /\ Truth[k] \in Int /\ Start(innerProblem, k) \in Int
  <2>1. Start(innerProblem, k) \in Int
    BY CallerVectorsAre, ProblemIs
  <2> QED BY <1>3, <1>4, <1>5, <2>1 DEF Elements
<1>7. ASSUME value = a PROVE E = Truth
  <2>1. ASSUME NEW k \in Basis PROVE Congruent(E[k], Truth[k], Order)
    <3>1. PICK w \in Int : Differs(E[k], Start(innerProblem, k), a, value, w)
      BY <1>2
    <3>2. PICK e, u, S, y : e = E[k] /\ u = Truth[k] /\ S = Start(innerProblem, k) /\ y = a * w
      OBVIOUS
    <3>3. e \in Int /\ u \in Int /\ S \in Int /\ y \in Int
      <4>1. a \in Int
        BY <1>5
      <4> QED BY <1>6, <3>1, <3>2, <4>1
    <3>4. Congruent(e + y, S + y, Order) /\ Congruent(y, y, Order) /\ Congruent(u, S, Order)
      BY <1>4, <1>5, <1>7, <3>1, <3>2, <3>3, CongruentRemainder DEF Differs
    <3>5. Congruent(e, S, Order)
      BY ONLY <1>5, <3>3, <3>4, CancelTerm
    <3>6. Congruent(S, u, Order)
      BY ONLY <1>5, <3>3, <3>4, CongruentEquivalence
    <3>7. Congruent(e, u, Order)
      BY ONLY <1>5, <3>3, <3>5, <3>6, CongruentEquivalence
    <3> QED BY <3>2, <3>7
  <2> QED BY <1>3, <1>4, <2>1, SameElement
<1>8. ASSUME E = Truth PROVE value = a
  <2>1. 1 \in Basis
    <3>1. PICK N : N = PowerOf2(RoundsOf(innerProblem))
      OBVIOUS
    <3>2. N \in Nat \ {0}
      BY <3>1, CallerVectorsAre
    <3>3. BasisOf(innerProblem) = 0 .. N
      BY <3>1 DEF BasisOf
    <3> QED BY <3>2, <3>3, ProblemIs
  <2>2. PICK w \in Int : Differs(E[1], Start(innerProblem, 1), a, value, w) /\ Congruent(w, s, Order)
    BY <1>2, <2>1
  <2>3. PICK u, S, x, y : u = Truth[1] /\ S = Start(innerProblem, 1) /\ x = a * w /\ y = value * w
    OBVIOUS
  <2>4. u \in Int /\ S \in Int /\ x \in Int /\ y \in Int /\ a \in Int /\ value \in Int
    <3>1. a \in Int /\ value \in Int
      BY <1>5
    <3> QED BY <1>6, <2>1, <2>2, <2>3, <3>1
  <2>5. Congruent(u + x, S + y, Order) /\ Congruent(u, S, Order) /\ u + x = x + u /\ S + y = y + S
    BY <1>4, <1>8, <2>1, <2>2, <2>3, <2>4 DEF Differs
  <2>6. Congruent(x, y, Order)
    <3>1. Congruent(x + u, y + S, Order)
      BY <2>5
    <3> QED BY ONLY <1>5, <2>4, <2>5, <3>1, CancelTerm
  <2>7. PICK p, q : p = s * a /\ q = s * value
    OBVIOUS
  <2>8. p \in Int /\ q \in Int
    BY <1>2, <2>4, <2>7
  <2>9. Congruent(x, p, Order) /\ Congruent(y, q, Order)
    <3>1. Congruent(a, a, Order) /\ Congruent(value, value, Order)
      BY <1>5, <2>4, CongruentRemainder
    <3>2. Congruent(w * a, s * a, Order) /\ Congruent(w * value, s * value, Order)
      BY <1>2, <1>5, <2>2, <2>4, <3>1, CongruentProduct
    <3>3. w * a = a * w /\ w * value = value * w
      BY <2>2, <2>4, SMT
    <3> QED BY <2>3, <2>7, <3>2, <3>3
  <2>10. Congruent(p, x, Order)
    BY ONLY <1>5, <2>4, <2>8, <2>9, CongruentEquivalence
  <2>11. Congruent(p, y, Order)
    BY ONLY <1>5, <2>4, <2>6, <2>8, <2>10, CongruentEquivalence
  <2>12. Congruent(p, q, Order)
    BY ONLY <1>5, <2>4, <2>8, <2>9, <2>11, CongruentEquivalence
  <2>13. Congruent(a, value, Order)
    BY <1>2, <2>4, <2>7, <2>12, CancelFactor
  <2> QED BY <1>5, <2>13, SameScalar
<1> QED BY <1>1, <1>7, <1>8

-----------------------------------------------------------------------------
(* The prover's invariant *)

(* The vectors of the round *)
InputOf(p, w) == IF w.round_index = 0 THEN CallerVectors(p) ELSE [a |-> w.a, b |-> w.b, g |-> w.g]

(***************************************************************************)
(* Before the call nothing is published, and after it lists of what the    *)
(* rounds make; nobody verifies a proof that has not been returned.        *)
(***************************************************************************)
Lists ==
  /\ innerPc \in {"idle", "commit", "challenge", "fold", "finish", "returned"}
  /\ innerPc # "returned" => innerVerifier = NotCalled
  /\ innerPc = "idle" => lr = <<>> /\ xs = <<>>
  /\ innerPc # "idle" => innerProblem \in InnerProblems /\ lr \in Seq(RoundTerms(innerProblem)) /\ xs \in Seq(Scalars \ {0})

(* Round r has its vectors, with what was published before it and, after commit_to_fold, its cross terms. *)
InRound(p, w, l, x, at, r) ==
  /\ r \in 0 .. RoundsOf(p) - 1 /\ w.round_index = r
  /\ Len(x) = IF at = "fold" THEN r + 1 ELSE r
  /\ Len(l) = IF at = "commit" THEN r ELSE r + 1
  /\ RoundKept(p, x, l, r, InputOf(p, w))
  /\ at # "commit" => AreCrossTerms(p, r, InputOf(p, w), l[r + 1])

(* All rounds are done, and a is the scalar that is left. *)
AllDone(p, l, x, a) == Len(x) = RoundsOf(p) /\ Len(l) = RoundsOf(p) /\ FinalKept(p, x, l, a)

Prover ==
  /\ innerPc \in {"commit", "challenge", "fold"} => InRound(innerProblem, innerWs, lr, xs, innerPc, innerWs.round_index)
  /\ innerPc = "finish" => AllDone(innerProblem, lr, xs, innerWs.a[0])
  /\ innerPc = "returned" => AllDone(innerProblem, lr, xs, ap)

(* A list is the beginning of what is appended to it. *)
LEMMA AppendedIs ==
  ASSUME NEW S, NEW s \in Seq(S), NEW t \in S
  PROVE  /\ Append(s, t) \in Seq(S) /\ Len(Append(s, t)) = Len(s) + 1 /\ Append(s, t)[Len(s) + 1] = t
         /\ Last(Append(s, t)) = t
         /\ SameUpTo(s, Append(s, t), Len(s))
<1>1. /\ Append(s, t) \in Seq(S) /\ Len(Append(s, t)) = Len(s) + 1 /\ Append(s, t)[Len(s) + 1] = t
      /\ \A i \in 1 .. Len(s) : Append(s, t)[i] = s[i]
  OBVIOUS
<1> QED BY <1>1 DEF SameUpTo, Last

(* The input of a round *)
LEMMA InputIs == Input = InputOf(innerProblem, innerWs)
<1>1. CallerVectors(innerProblem) = [a |-> FromSeq(innerProblem.a), b |-> FromSeq(innerProblem.b), g |-> Generators]
  <2>1. Generators = CallerVectors(innerProblem).g
    BY ProblemIs
  <2>2. CallerVectors(innerProblem).g = [i \in 0 .. PowerOf2(RoundsOf(innerProblem)) - 1 |->
                                      [k \in BasisOf(innerProblem) |-> IF k = i + 1 THEN 1 ELSE 0]]
    BY DEF CallerVectors
  <2> QED BY <2>1, <2>2 DEF CallerVectors
<1> QED BY <1>1 DEF Input, InputOf

(* The call *)
LEMMA CallKeeps ==
  ASSUME InnerProductAssumption, Lists, NEW p \in InnerProblems, NEW d, ProveInnerProduct(p, d)
  PROVE  Lists' /\ Prover'
<1>1. /\ innerPc = "idle" /\ innerProblem' = p /\ lr' = lr /\ xs' = xs /\ innerVerifier' = innerVerifier
      /\ lr = <<>> /\ xs = <<>> /\ innerVerifier = NotCalled
  BY DEF ProveInnerProduct, Lists
<1>2. lr' \in Seq(RoundTerms(p)) /\ xs' \in Seq(Scalars \ {0}) /\ Len(lr') = 0 /\ Len(xs') = 0
  BY <1>1
<1>3. innerPc' \in {"commit", "returned"} /\ (innerPc' = "returned" <=> Len(p.a) = 1)
  BY DEF ProveInnerProduct
<1>4. Lists'
  BY <1>1, <1>2, <1>3 DEF Lists
<1>5. RoundsOf(p) \in Nat /\ (RoundsOf(p) = 0 <=> Len(p.a) = 1)
  <2>1. PICK n : n = RoundsOf(p)
    OBVIOUS
  <2>2. /\ n \in Nat /\ Len(p.a) \in Nat \ {0} /\ (n # 0 => PowerOf2(n - 1) < Len(p.a)) /\ (n = 0 => Len(p.a) = 1)
    BY <2>1, RoundsAre
  <2>3. ASSUME n # 0 PROVE Len(p.a) # 1
    <3>1. n - 1 \in Nat
      BY <2>2, <2>3
    <3>2. PICK m, z : m = PowerOf2(n - 1) /\ z = Len(p.a)
      OBVIOUS
    <3>3. m \in Nat \ {0}
      BY <3>1, <3>2, PowerStep
    <3>4. m < z /\ z \in Nat
      BY <2>2, <2>3, <3>2
    <3>5. z # 1
      BY ONLY <3>3, <3>4
    <3> QED BY <3>2, <3>5
  <2> QED BY <2>1, <2>2, <2>3
<1>6. CASE innerPc' = "returned"
  <2>1. RoundsOf(p) = 0 /\ ap' = p.a[1]
    BY <1>3, <1>5, <1>6 DEF ProveInnerProduct
  <2>2. FinalKept(p, xs', lr', p.a[1])
    BY <2>1, FirstRound
  <2> QED BY <1>1, <1>2, <1>4, <1>6, <2>1, <2>2 DEF Prover, AllDone
<1>7. CASE innerPc' = "commit"
  <2>1. RoundsOf(p) # 0 /\ innerWs' = [round_index |-> 0, a |-> NotCalled, b |-> NotCalled, g |-> NotCalled]
    BY <1>3, <1>5, <1>7 DEF ProveInnerProduct
  <2>2. RoundKept(p, xs', lr', 0, CallerVectors(p))
    BY <2>1, FirstRound
  <2>3. innerWs'.round_index = 0 /\ InputOf(p, innerWs') = CallerVectors(p)
    BY <2>1 DEF InputOf
  <2>4. InRound(p, innerWs', lr', xs', innerPc', 0)
    BY <1>2, <1>5, <1>7, <2>1, <2>2, <2>3 DEF InRound
  <2> QED BY <1>1, <1>4, <1>7, <2>3, <2>4 DEF Prover
<1> QED BY <1>3, <1>6, <1>7

(* commit_to_fold *)
LEMMA CommitKeeps ==
  ASSUME InnerProductAssumption, Lists, Prover, CommitToFold
  PROVE  Lists' /\ Prover'
<1>1. PICK r, n, v, m, t :
        /\ r = innerWs.round_index /\ n = RoundsOf(innerProblem) /\ v = Input /\ m = MidOf(Input)
        /\ t = [l |-> CommitTo(HighHalf(v.g, m), LowHalf(v.a, m), HighHalf(v.b, m)),
                r |-> CommitTo(LowHalf(v.g, m), HighHalf(v.a, m), LowHalf(v.b, m))]
  OBVIOUS
<1>2. /\ innerPc = "commit" /\ innerPc' = "challenge" /\ innerProblem' = innerProblem /\ innerWs' = innerWs /\ xs' = xs /\ ap' = ap /\ innerVerifier' = innerVerifier
      /\ lr' = Append(lr, t)
  BY <1>1 DEF CommitToFold, CommitTo, HighHalf, LowHalf
<1>3. innerProblem \in InnerProblems /\ lr \in Seq(RoundTerms(innerProblem)) /\ xs \in Seq(Scalars \ {0})
  BY <1>2 DEF Lists
<1>4. InRound(innerProblem, innerWs, lr, xs, "commit", r)
  BY <1>1, <1>2 DEF Prover
<1>5. /\ r \in 0 .. RoundsOf(innerProblem) - 1 /\ Len(xs) = r /\ Len(lr) = r /\ v = InputOf(innerProblem, innerWs)
      /\ RoundKept(innerProblem, xs, lr, r, v)
  BY <1>1, <1>4, InputIs DEF InRound
<1>6. AreCrossTerms(innerProblem, r, v, t)
  BY <1>1, <1>3, <1>5, CommitToHalves
<1>7. t \in RoundTerms(innerProblem)
  <2>1. t.l \in ElementsOf(innerProblem) /\ t.r \in ElementsOf(innerProblem)
    BY <1>6 DEF AreCrossTerms
  <2>2. t = [l |-> t.l, r |-> t.r]
    BY <1>1
  <2> QED BY <2>1, <2>2 DEF RoundTerms
<1>8. lr' \in Seq(RoundTerms(innerProblem)) /\ Len(lr') = r + 1 /\ lr'[r + 1] = t /\ SameUpTo(lr, lr', r)
  BY <1>2, <1>3, <1>5, <1>7, AppendedIs
<1>9. RoundKept(innerProblem, xs, lr', r, v)
  <2>1. SameUpTo(xs, xs, r)
    BY DEF SameUpTo
  <2> QED BY <1>5, <1>8, <2>1, KeptByPrefix
<1>10. InRound(innerProblem, innerWs, lr', xs, "challenge", r)
  BY <1>1, <1>5, <1>6, <1>8, <1>9 DEF InRound
<1> QED BY <1>1, <1>2, <1>3, <1>8, <1>10 DEF Lists, Prover

(* The challenge *)
LEMMA ChallengeKeeps ==
  ASSUME InnerProductAssumption, Lists, Prover, NEW x \in Scalars \ {0}, DrawChallenge(x)
  PROVE  Lists' /\ Prover'
<1>1. PICK r : r = innerWs.round_index
  OBVIOUS
<1>2. /\ innerPc = "challenge" /\ innerPc' = "fold" /\ innerProblem' = innerProblem /\ innerWs' = innerWs /\ lr' = lr /\ ap' = ap /\ innerVerifier' = innerVerifier
      /\ xs' = Append(xs, x)
  BY DEF DrawChallenge
<1>3. innerProblem \in InnerProblems /\ lr \in Seq(RoundTerms(innerProblem)) /\ xs \in Seq(Scalars \ {0})
  BY <1>2 DEF Lists
<1>4. InRound(innerProblem, innerWs, lr, xs, "challenge", r)
  BY <1>1, <1>2 DEF Prover
<1>5. Len(xs) = r /\ RoundKept(innerProblem, xs, lr, r, InputOf(innerProblem, innerWs))
  BY <1>4 DEF InRound
<1>6. xs' \in Seq(Scalars \ {0}) /\ Len(xs') = r + 1 /\ SameUpTo(xs, xs', r)
  BY <1>2, <1>3, <1>5, AppendedIs
<1>7. RoundKept(innerProblem, xs', lr, r, InputOf(innerProblem, innerWs))
  <2>1. SameUpTo(lr, lr, r)
    BY DEF SameUpTo
  <2> QED BY <1>5, <1>6, <2>1, KeptByPrefix
<1>8. InRound(innerProblem, innerWs, lr, xs', "fold", r)
  BY <1>4, <1>6, <1>7 DEF InRound
<1> QED BY <1>1, <1>2, <1>3, <1>6, <1>8 DEF Lists, Prover

(* drv.fold *)
LEMMA FoldRoundKeeps ==
  ASSUME InnerProductAssumption, Lists, Prover, Fold
  PROVE  Lists' /\ Prover'
<1>1. PICK r, n, v, m, x, y :
        /\ r = innerWs.round_index /\ n = RoundsOf(innerProblem) /\ v = Input /\ m = MidOf(Input)
        /\ x = xs[r + 1] /\ y = InverseOf(x)
  OBVIOUS
<1>2. /\ innerPc = "fold" /\ innerProblem' = innerProblem /\ lr' = lr /\ xs' = xs /\ ap' = ap /\ innerVerifier' = innerVerifier
  BY DEF Fold
<1>3. innerProblem \in InnerProblems /\ lr \in Seq(RoundTerms(innerProblem)) /\ xs \in Seq(Scalars \ {0})
  BY <1>2 DEF Lists
<1>4. InRound(innerProblem, innerWs, lr, xs, "fold", r)
  BY <1>1, <1>2 DEF Prover
<1>5. /\ r \in 0 .. RoundsOf(innerProblem) - 1 /\ Len(xs) = r + 1 /\ Len(lr) = r + 1 /\ v = InputOf(innerProblem, innerWs)
      /\ RoundKept(innerProblem, xs, lr, r, v) /\ AreCrossTerms(innerProblem, r, v, lr[r + 1])
  BY <1>1, <1>4, InputIs DEF InRound
<1>6. m = PowerOf2(RoundsOf(innerProblem) - r - 1) /\ m \in Nat
  <2>1. n \in Nat
    BY <1>1, <1>3, RoundsAre
  <2>2. n - r - 1 \in Nat
    BY <1>1, <1>5, <2>1
  <2>3. m = PowerOf2(RoundsOf(innerProblem) - r - 1)
    BY <1>1, <1>3, <1>5, CommitToHalves
  <2> QED BY <1>1, <2>2, <2>3, PowerStep
<1>7. x \in Scalars \ {0} /\ Last(xs) = x /\ r \in Nat
  BY <1>1, <1>3, <1>5 DEF Last
<1>8. PICK a, b, g : a = FoldScalars(v.a, x, y, m) /\ b = FoldScalars(v.b, y, x, m) /\ g = FoldGenerators(v.g, y, x, m)
  OBVIOUS
<1>9. /\ a \in [0 .. m - 1 -> Scalars] /\ b \in [0 .. m - 1 -> Scalars] /\ g \in [0 .. m - 1 -> ElementsOf(innerProblem)]
      /\ AllKept(innerProblem, xs, lr, r + 1, a, b, g, m)
  BY <1>1, <1>3, <1>5, <1>6, <1>7, <1>8, FoldKeeps DEF AllKept
<1>10. /\ m = 1 <=> r + 1 = RoundsOf(innerProblem)
       /\ m # 1 => RoundKept(innerProblem, xs, lr, r + 1, [a |-> a, b |-> b, g |-> g])
       /\ m = 1 => FinalKept(innerProblem, xs, lr, a[0])
  BY <1>3, <1>5, <1>6, <1>9, AfterFold
<1>11. /\ innerWs'.round_index = r + 1 /\ innerWs'.a = a
       /\ m # 1 => innerWs'.b = b /\ innerWs'.g = g
       /\ innerPc' = IF m = 1 THEN "finish" ELSE "commit"
  BY <1>1, <1>7, <1>8 DEF Fold
<1>12. Lists'
  BY <1>2, <1>3, <1>11 DEF Lists
<1>13. CASE m = 1
  <2>1. AllDone(innerProblem, lr, xs, innerWs'.a[0])
    BY <1>5, <1>10, <1>11, <1>13 DEF AllDone
  <2> QED BY <1>2, <1>11, <1>12, <1>13, <2>1 DEF Prover
<1>14. CASE m # 1
  <2>1. InputOf(innerProblem, innerWs') = [a |-> a, b |-> b, g |-> g]
    BY <1>7, <1>11, <1>14 DEF InputOf
  <2>2. RoundKept(innerProblem, xs, lr, r + 1, InputOf(innerProblem, innerWs'))
    BY <1>10, <1>14, <2>1
  <2>3. r + 1 \in 0 .. RoundsOf(innerProblem) - 1
    <3>1. n \in Nat
      BY <1>1, <1>3, RoundsAre
    <3> QED BY <1>1, <1>5, <1>10, <1>14, <3>1
  <2>4. InRound(innerProblem, innerWs', lr, xs, "commit", r + 1)
    BY <1>5, <1>11, <2>2, <2>3 DEF InRound
  <2> QED BY <1>2, <1>11, <1>12, <1>14, <2>4 DEF Prover
<1> QED BY <1>13, <1>14

(* The return *)
LEMMA ReturnKeeps ==
  ASSUME InnerProductAssumption, Lists, Prover, ProveInnerProductReturns
  PROVE  Lists' /\ Prover'
<1>1. /\ innerPc = "finish" /\ innerPc' = "returned" /\ innerProblem' = innerProblem /\ lr' = lr /\ xs' = xs /\ ap' = innerWs.a[0]
      /\ innerVerifier' = innerVerifier
  BY DEF ProveInnerProductReturns
<1>2. AllDone(innerProblem, lr, xs, innerWs.a[0])
  BY <1>1 DEF Prover
<1> QED BY <1>1, <1>2 DEF Lists, Prover

-----------------------------------------------------------------------------
(* The verifier's invariant *)

(* A verifier that looks at the proof *)
Verifiers ==
  [driver : InnerDrivers, product : Scalars, commit : ElementsOf(innerProblem), proof : {lr}, value : Scalars,
   xs : Seq(Scalars \ {0}), result : {"running"}]

(* All but one of what it was given is true. *)
AllButOne(product, commit, value) ==
  \/ product = TrueProduct /\ commit = TrueCommit
  \/ value = ap /\ (product = TrueProduct \/ commit = TrueCommit)

(* Its challenges are the first ones of the prover. *)
Running ==
  innerVerifier # NotCalled /\ innerVerifier.result = "running" =>
    /\ innerPc = "returned"
    /\ innerVerifier \in Verifiers
    /\ AllButOne(innerVerifier.product, innerVerifier.commit, innerVerifier.value)
    /\ Len(innerVerifier.xs) <= RoundsOf(innerProblem)
    /\ SameUpTo(innerVerifier.xs, xs, Len(innerVerifier.xs))

Invariant == Lists /\ Prover /\ Running /\ VerifierDecides

(* Sequences that agree everywhere are equal. *)
LEMMA SameSequence ==
  ASSUME NEW S, NEW s \in Seq(S), NEW t \in Seq(S), Len(s) = Len(t), SameUpTo(s, t, Len(s))
  PROVE  s = t
BY DEF SameUpTo

(* Before the proof is returned nobody verifies it. *)
LEMMA NotYet ==
  ASSUME Running, VerifierDecides, UNCHANGED innerVerifier, innerVerifier = NotCalled
  PROVE  Running' /\ VerifierDecides'
BY DEF Running, VerifierDecides

(* Names that are about the problem only *)
LEMMA SameProblem ==
  ASSUME UNCHANGED innerProblem
  PROVE  TrueProduct' = TrueProduct /\ TrueCommit' = TrueCommit
<1>1. Basis' = Basis /\ PaddedSize' = PaddedSize
  BY DEF Basis, PaddedSize, NumRounds
<1>2. Generators' = Generators
  BY <1>1 DEF Generators, Vector
<1>3. TrueProduct' = TrueProduct
  BY DEF TrueProduct
<1>4. TrueCommit' = TrueCommit
  BY <1>1, <1>2 DEF TrueCommit, Multiexponentiate
<1> QED BY <1>3, <1>4

(* What the verifier does leaves the prover's part as it is. *)
LEMMA ProverStays ==
  ASSUME Lists, Prover, UNCHANGED innerProverVars, innerPc = "returned"
  PROVE  Lists' /\ Prover'
BY DEF Lists, Prover, innerProverVars

(* The verifier's call *)
LEMMA VerifyKeeps ==
  ASSUME InnerProductAssumption, Lists, Prover, VerifyCalled
  PROVE  Running' /\ VerifierDecides'
<1>1. /\ innerPc = "returned" /\ innerVerifier = NotCalled /\ UNCHANGED innerProverVars
  BY DEF VerifyCalled, VerifyInnerProduct
<1>2. /\ innerPc' = "returned" /\ innerProblem' = innerProblem /\ lr' = lr /\ xs' = xs /\ ap' = ap
      /\ TrueProduct' = TrueProduct /\ TrueCommit' = TrueCommit
  BY <1>1, SameProblem DEF innerProverVars
<1>3. PICK n : n = RoundsOf(innerProblem)
  OBVIOUS
<1>4. /\ innerProblem \in InnerProblems /\ lr \in Seq(RoundTerms(innerProblem)) /\ xs \in Seq(Scalars \ {0})
      /\ Len(lr) = n /\ ap \in Scalars /\ n \in Nat /\ NumRounds = n
  <2>1. innerProblem \in InnerProblems /\ lr \in Seq(RoundTerms(innerProblem)) /\ xs \in Seq(Scalars \ {0})
    BY <1>1 DEF Lists
  <2>2. AllDone(innerProblem, lr, xs, ap)
    BY <1>1 DEF Prover
  <2>3. Len(lr) = n /\ ap \in Scalars
    BY <1>3, <2>2 DEF AllDone, FinalKept
  <2> QED BY <1>3, <2>1, <2>3, RoundsAre, ProblemIs
<1>5. /\ TrueProduct \in Scalars /\ TrueCommit \in ElementsOf(innerProblem)
      /\ \A i \in 0 .. PaddedSize - 1 : Plus(TrueCommit, Generators[i]) \in ElementsOf(innerProblem)
  <2>1. Elements = ElementsOf(innerProblem)
    BY ProblemIs
  <2>2. TrueCommit \in Elements /\ TrueProduct \in Scalars
    BY <1>4, StartIs, TrueProductIs
  <2>3. PICK N : N = PowerOf2(RoundsOf(innerProblem))
    OBVIOUS
  <2>4. Generators \in [0 .. N - 1 -> Elements] /\ PaddedSize = N
    BY <1>4, <2>1, <2>3, CallerVectorsAre, ProblemIs DEF AreVectors
  <2>5. ASSUME NEW i \in 0 .. PaddedSize - 1 PROVE Plus(TrueCommit, Generators[i]) \in Elements
    <3>1. Generators[i] \in Elements
      BY <2>4
    <3> QED BY <2>2, <3>1, ElementsAre
  <2> QED BY <2>1, <2>2, <2>5
<1>6. ASSUME NEW d \in InnerDrivers, NEW c \in Scalars, NEW g \in ElementsOf(innerProblem), NEW v \in Scalars,
             AllButOne(c, g, v), VerifyInnerProduct(d, c, g, lr, v)
      PROVE  Running' /\ VerifierDecides'
  <2>1. innerVerifier' = [driver |-> d, product |-> c, commit |-> g, proof |-> lr, value |-> v, xs |-> <<>>,
                     result |-> "running"]
    BY <1>4, <1>6 DEF VerifyInnerProduct
  <2>2. <<>> \in Seq(Scalars \ {0}) /\ Len(<<>>) = 0
    OBVIOUS
  <2>3. innerVerifier' \in Verifiers'
    BY <1>2, <2>1, <2>2 DEF Verifiers
  <2>4. AllButOne(c, g, v)'
    BY <1>2, <1>6 DEF AllButOne
  <2>5. SameUpTo(<<>>, xs', 0)
    BY DEF SameUpTo
  <2>6. /\ innerVerifier'.product = c /\ innerVerifier'.commit = g /\ innerVerifier'.value = v /\ innerVerifier'.xs = <<>>
        /\ innerVerifier'.result = "running"
    BY <2>1
  <2> QED BY <1>2, <1>3, <1>4, <2>2, <2>3, <2>4, <2>5, <2>6 DEF Running, VerifierDecides, AllButOne
<1>7. ASSUME NEW d \in InnerDrivers, lr # <<>>, VerifyInnerProduct(d, TrueProduct, TrueCommit, Front(lr), ap)
      PROVE  Running' /\ VerifierDecides'
  <2>1. Len(Front(lr)) # n
    <3>1. Len(Front(lr)) = Len(lr) - 1
      BY <1>4, <1>7 DEF Front
    <3> QED BY <1>4, <3>1
  <2>2. innerVerifier'.result = "rejected" /\ innerVerifier'.proof = Front(lr)
    BY <1>4, <1>7, <2>1 DEF VerifyInnerProduct
  <2>3. Front(lr) # lr
    BY <1>4, <2>1
  <2> QED BY <1>2, <2>2, <2>3 DEF Running, VerifierDecides
<1>8. PICK d \in InnerDrivers :
        \/ \E c \in Scalars : VerifyInnerProduct(d, c, TrueCommit, lr, ap)
        \/ \E i \in 0 .. PaddedSize - 1 : VerifyInnerProduct(d, TrueProduct, Plus(TrueCommit, Generators[i]), lr, ap)
        \/ \E c \in Scalars : VerifyInnerProduct(d, TrueProduct, TrueCommit, lr, c)
        \/ lr # <<>> /\ VerifyInnerProduct(d, TrueProduct, TrueCommit, Front(lr), ap)
  BY DEF VerifyCalled
<1>9. \A c, g, v : AllButOne(c, g, v) <=>
        \/ c = TrueProduct /\ g = TrueCommit
        \/ v = ap /\ (c = TrueProduct \/ g = TrueCommit)
  BY DEF AllButOne
<1>10. CASE \E c \in Scalars : VerifyInnerProduct(d, c, TrueCommit, lr, ap)
  <2>1. PICK c \in Scalars : VerifyInnerProduct(d, c, TrueCommit, lr, ap)
    BY <1>10
  <2>2. AllButOne(c, TrueCommit, ap)
    BY <1>9
  <2> QED BY <1>4, <1>5, <1>6, <2>1, <2>2
<1>11. CASE \E i \in 0 .. PaddedSize - 1 : VerifyInnerProduct(d, TrueProduct, Plus(TrueCommit, Generators[i]), lr, ap)
  <2>1. PICK i \in 0 .. PaddedSize - 1 : VerifyInnerProduct(d, TrueProduct, Plus(TrueCommit, Generators[i]), lr, ap)
    BY <1>11
  <2>2. AllButOne(TrueProduct, Plus(TrueCommit, Generators[i]), ap)
    BY <1>9
  <2> QED BY <1>4, <1>5, <1>6, <2>1, <2>2
<1>12. CASE \E c \in Scalars : VerifyInnerProduct(d, TrueProduct, TrueCommit, lr, c)
  <2>1. PICK c \in Scalars : VerifyInnerProduct(d, TrueProduct, TrueCommit, lr, c)
    BY <1>12
  <2>2. AllButOne(TrueProduct, TrueCommit, c)
    BY <1>9
  <2> QED BY <1>4, <1>5, <1>6, <2>1, <2>2
<1>13. CASE lr # <<>> /\ VerifyInnerProduct(d, TrueProduct, TrueCommit, Front(lr), ap)
  BY <1>7, <1>13
<1> QED BY <1>8, <1>10, <1>11, <1>12, <1>13

(* A round of the verifier *)
LEMMA VerifyChallengeKeeps ==
  ASSUME InnerProductAssumption, Lists, Prover, Running, VerifyChallenge
  PROVE  Running' /\ VerifierDecides'
<1>1. innerVerifier # NotCalled /\ innerVerifier.result = "running" /\ UNCHANGED innerProverVars
  BY DEF VerifyChallenge
<1>2. /\ innerPc = "returned" /\ innerVerifier \in Verifiers
      /\ AllButOne(innerVerifier.product, innerVerifier.commit, innerVerifier.value)
      /\ Len(innerVerifier.xs) <= RoundsOf(innerProblem) /\ SameUpTo(innerVerifier.xs, xs, Len(innerVerifier.xs))
  BY <1>1 DEF Running
<1>3. /\ innerPc' = innerPc /\ innerProblem' = innerProblem /\ lr' = lr /\ xs' = xs /\ ap' = ap
      /\ TrueProduct' = TrueProduct /\ TrueCommit' = TrueCommit
  BY <1>1, SameProblem DEF innerProverVars
<1>4. PICK n, s, k, t : n = RoundsOf(innerProblem) /\ s = innerVerifier.xs /\ k = Len(innerVerifier.xs) /\ t = xs[k + 1]
  OBVIOUS
<1>5. /\ xs \in Seq(Scalars \ {0}) /\ s \in Seq(Scalars \ {0}) /\ k = Len(s) /\ k \in Nat /\ n \in Nat
      /\ Len(xs) = n /\ NumRounds = n /\ k < n
  <2>1. innerProblem \in InnerProblems /\ xs \in Seq(Scalars \ {0})
    BY <1>2 DEF Lists
  <2>2. s \in Seq(Scalars \ {0})
    BY <1>2, <1>4 DEF Verifiers
  <2>3. AllDone(innerProblem, lr, xs, ap)
    BY <1>2 DEF Prover
  <2>4. n \in Nat /\ NumRounds = n /\ Len(xs) = n
    BY <1>4, <2>1, <2>3, RoundsAre, ProblemIs DEF AllDone
  <2>5. k < n
    BY <1>4, <2>4 DEF VerifyChallenge
  <2> QED BY <1>4, <2>1, <2>2, <2>4, <2>5
<1>6. t \in Scalars \ {0}
  <2>1. k + 1 \in 1 .. Len(xs)
    BY <1>5
  <2> QED BY <1>4, <1>5, <2>1
<1>7. innerVerifier' = [innerVerifier EXCEPT !.xs = Append(s, t)]
  BY <1>4 DEF VerifyChallenge
<1>8. /\ Append(s, t) \in Seq(Scalars \ {0}) /\ Len(Append(s, t)) = k + 1 /\ Append(s, t)[k + 1] = t
      /\ SameUpTo(s, Append(s, t), k)
  BY <1>5, <1>6, AppendedIs
<1>9. SameUpTo(Append(s, t), xs, k + 1)
  <2> SUFFICES ASSUME NEW j \in 1 .. k + 1 PROVE Append(s, t)[j] = xs[j]
    BY DEF SameUpTo
  <2>1. CASE j = k + 1
    BY <1>4, <1>8, <2>1
  <2>2. CASE j # k + 1
    <3>1. j \in 1 .. k
      BY <1>5, <2>2
    <3>2. s[j] = xs[j] /\ s[j] = Append(s, t)[j]
      BY <1>2, <1>4, <1>8, <3>1 DEF SameUpTo
    <3> QED BY <3>2
  <2> QED BY <2>1, <2>2
<1>10. /\ innerVerifier'.product = innerVerifier.product /\ innerVerifier'.commit = innerVerifier.commit
       /\ innerVerifier'.value = innerVerifier.value /\ innerVerifier'.xs = Append(s, t) /\ innerVerifier'.result = "running"
       /\ innerVerifier' \in Verifiers
  BY <1>2, <1>7, <1>8 DEF Verifiers
<1>11. innerVerifier' \in Verifiers'
  BY <1>3, <1>10 DEF Verifiers
<1>12. AllButOne(innerVerifier'.product, innerVerifier'.commit, innerVerifier'.value)
  BY <1>2, <1>10
<1>13. AllButOne(innerVerifier.product, innerVerifier.commit, innerVerifier.value)'
  BY <1>3, <1>12 DEF AllButOne
<1>14. Len(innerVerifier'.xs) <= RoundsOf(innerProblem') /\ SameUpTo(innerVerifier'.xs, xs', Len(innerVerifier'.xs))
  BY <1>3, <1>4, <1>5, <1>8, <1>9, <1>10
<1> QED BY <1>2, <1>3, <1>10, <1>11, <1>13, <1>14 DEF Running, VerifierDecides

(* The verifier's answer *)
LEMMA DecideKeeps ==
  ASSUME InnerProductAssumption, Lists, Prover, Running, Decide
  PROVE  Running' /\ VerifierDecides'
<1>1. innerVerifier # NotCalled /\ innerVerifier.result = "running" /\ UNCHANGED innerProverVars
  BY DEF Decide
<1>2. /\ innerPc = "returned" /\ innerVerifier \in Verifiers
      /\ AllButOne(innerVerifier.product, innerVerifier.commit, innerVerifier.value)
      /\ SameUpTo(innerVerifier.xs, xs, Len(innerVerifier.xs))
  BY <1>1 DEF Running
<1>3. /\ innerProblem' = innerProblem /\ lr' = lr /\ ap' = ap /\ TrueProduct' = TrueProduct /\ TrueCommit' = TrueCommit
  BY <1>1, SameProblem DEF innerProverVars
<1>4. PICK n, d, c, g, v, E :
        /\ n = RoundsOf(innerProblem) /\ d = innerVerifier.driver /\ c = innerVerifier.product /\ g = innerVerifier.commit
        /\ v = innerVerifier.value /\ E = ExpectedCommitment(d, lr, xs, v)
  OBVIOUS
<1>5. /\ innerProblem \in InnerProblems /\ lr \in Seq(RoundTerms(innerProblem)) /\ xs \in Seq(Scalars \ {0})
      /\ Len(xs) = n /\ Len(lr) = n /\ FinalKept(innerProblem, xs, lr, ap) /\ n \in Nat /\ NumRounds = n
  <2>1. innerProblem \in InnerProblems /\ lr \in Seq(RoundTerms(innerProblem)) /\ xs \in Seq(Scalars \ {0})
    BY <1>2 DEF Lists
  <2>2. AllDone(innerProblem, lr, xs, ap)
    BY <1>2 DEF Prover
  <2> QED BY <1>4, <2>1, <2>2, RoundsAre, ProblemIs DEF AllDone
<1>6. c \in Scalars /\ g \in Elements /\ v \in Scalars /\ innerVerifier.proof = lr /\ innerVerifier.xs \in Seq(Scalars \ {0})
  BY <1>2, <1>4, ProblemIs DEF Verifiers
<1>7. innerVerifier.xs = xs
  <2>1. Len(innerVerifier.xs) = Len(xs)
    BY <1>5 DEF Decide
  <2> QED BY <1>2, <1>5, <1>6, <2>1, SameSequence
<1>8. Published(n)
  BY <1>5 DEF Published
<1>9. E = Truth <=> v = ap
  BY <1>4, <1>5, <1>6, <1>8, ExpectedIsTruth
<1>10. GivenOf(c, g) = E <=> c = TrueProduct /\ g = TrueCommit /\ v = ap
  <2>1. c = TrueProduct /\ g = TrueCommit => GivenOf(c, g) = Truth
    <3>1. GivenOf(c, g) = Plus(g, Times(c, Q))
      BY <1>6, GivenIs
    <3> QED BY <3>1 DEF Truth
  <2>2. ASSUME c = TrueProduct \/ g = TrueCommit, GivenOf(c, g) = Truth PROVE c = TrueProduct /\ g = TrueCommit
    BY <1>5, <1>6, <2>2, GivenDetermines
  <2>3. \/ c = TrueProduct /\ g = TrueCommit
        \/ v = ap /\ (c = TrueProduct \/ g = TrueCommit)
    BY <1>2, <1>4 DEF AllButOne
  <2> QED BY <1>9, <2>1, <2>2, <2>3
<1>11. innerVerifier' = [innerVerifier EXCEPT !.result = IF GivenOf(c, g) = E THEN "accepted" ELSE "rejected"]
  BY <1>4, <1>6, <1>7 DEF Decide, GivenOf
<1>12. /\ innerVerifier'.product = c /\ innerVerifier'.commit = g /\ innerVerifier'.value = v /\ innerVerifier'.proof = lr
       /\ innerVerifier'.result = IF GivenOf(c, g) = E THEN "accepted" ELSE "rejected"
  BY <1>2, <1>4, <1>6, <1>11 DEF Verifiers
<1>13. innerVerifier'.result # "running" /\ (innerVerifier'.result = "accepted" <=> GivenOf(c, g) = E)
  BY <1>12
<1>14. Running'
  BY <1>13 DEF Running
<1>15. VerifierDecides'
  BY <1>3, <1>10, <1>12, <1>13 DEF VerifierDecides
<1> QED BY <1>14, <1>15

-----------------------------------------------------------------------------
(* The theorems *)

(* The invariant holds before the call. *)
LEMMA InvariantStarts ==
  ASSUME InnerProductAssumption, InnerInit
  PROVE  Invariant
BY DEF InnerInit, NotCalled, Invariant, Lists, Prover, Running, VerifierDecides

(* Every step keeps it. *)
LEMMA InvariantKept ==
  ASSUME InnerProductAssumption, Invariant, [InnerNext]_innerVars
  PROVE  Invariant'
<1> USE DEF Invariant
<1>1. CASE \E p \in InnerProblems, d \in InnerDrivers : ProveInnerProduct(p, d)
  <2>1. PICK p \in InnerProblems, d \in InnerDrivers : ProveInnerProduct(p, d)
    BY <1>1
  <2>2. innerVerifier = NotCalled /\ UNCHANGED innerVerifier
    BY <2>1 DEF ProveInnerProduct, Lists
  <2> QED BY <2>1, <2>2, CallKeeps, NotYet
<1>2. CASE CommitToFold
  <2>1. innerVerifier = NotCalled /\ UNCHANGED innerVerifier
    BY <1>2 DEF CommitToFold, Lists
  <2> QED BY <1>2, <2>1, CommitKeeps, NotYet
<1>3. CASE \E x \in Scalars \ {0} : DrawChallenge(x)
  <2>1. PICK x \in Scalars \ {0} : DrawChallenge(x)
    BY <1>3
  <2>2. innerVerifier = NotCalled /\ UNCHANGED innerVerifier
    BY <2>1 DEF DrawChallenge, Lists
  <2> QED BY <2>1, <2>2, ChallengeKeeps, NotYet
<1>4. CASE Fold
  <2>1. innerVerifier = NotCalled /\ UNCHANGED innerVerifier
    BY <1>4 DEF Fold, Lists
  <2> QED BY <1>4, <2>1, FoldRoundKeeps, NotYet
<1>5. CASE ProveInnerProductReturns
  <2>1. innerVerifier = NotCalled /\ UNCHANGED innerVerifier
    BY <1>5 DEF ProveInnerProductReturns, Lists
  <2> QED BY <1>5, <2>1, ReturnKeeps, NotYet
<1>6. CASE VerifyCalled
  <2>1. UNCHANGED innerProverVars /\ innerPc = "returned"
    BY <1>6 DEF VerifyCalled, VerifyInnerProduct
  <2> QED BY <1>6, <2>1, ProverStays, VerifyKeeps
<1>7. CASE VerifyChallenge
  <2>1. UNCHANGED innerProverVars /\ innerPc = "returned"
    BY <1>7 DEF VerifyChallenge, Running
  <2> QED BY <1>7, <2>1, ProverStays, VerifyChallengeKeeps
<1>8. CASE Decide
  <2>1. UNCHANGED innerProverVars /\ innerPc = "returned"
    BY <1>8 DEF Decide, Running
  <2> QED BY <1>8, <2>1, ProverStays, DecideKeeps
<1>9. CASE UNCHANGED innerVars
  <2>1. UNCHANGED <<innerProverVars, innerVerifier>> /\ TrueProduct' = TrueProduct /\ TrueCommit' = TrueCommit
    BY <1>9, SameProblem DEF innerVars, innerProverVars
  <2>2. Lists' /\ Prover'
    BY <2>1 DEF Lists, Prover, innerProverVars
  <2>3. Running' /\ VerifierDecides'
    BY <2>1 DEF Running, Verifiers, AllButOne, VerifierDecides, innerProverVars
  <2> QED BY <2>2, <2>3
<1> QED BY <1>1, <1>2, <1>3, <1>4, <1>5, <1>6, <1>7, <1>8, <1>9 DEF InnerNext

(* What it says of the commitment *)
LEMMA InvariantKeepsCommitment ==
  ASSUME InnerProductAssumption, Invariant
  PROVE  CommitmentKept
<1> SUFFICES ASSUME innerPc = "commit"
             PROVE  CommitTo(Input.g, Input.a, Input.b) = Corrected(Len(xs))
  BY DEF CommitmentKept, CommitTo
<1>1. PICK r, v : r = innerWs.round_index /\ v = Input
  OBVIOUS
<1>2. InRound(innerProblem, innerWs, lr, xs, "commit", r)
  BY <1>1 DEF Invariant, Prover
<1>3. /\ r \in 0 .. RoundsOf(innerProblem) - 1 /\ Len(xs) = r /\ Len(lr) = r
      /\ RoundKept(innerProblem, xs, lr, r, v)
  BY <1>1, <1>2, InputIs DEF InRound
<1>4. innerProblem \in InnerProblems /\ Published(r)
  <2>1. innerProblem \in InnerProblems /\ lr \in Seq(RoundTerms(innerProblem)) /\ xs \in Seq(Scalars \ {0})
    BY DEF Invariant, Lists
  <2>2. r \in 0 .. Len(xs) /\ r \in 0 .. Len(lr)
    BY <1>3, <2>1
  <2> QED BY <2>1, <2>2 DEF Published
<1> QED BY <1>1, <1>3, <1>4, KeptIsCorrected

(* The invariant, in every state *)
THEOREM InnerProductInvariance ==
  ASSUME InnerProductAssumption
  PROVE  InnerSpec => []Invariant
<1>1. InnerInit => Invariant
  BY InvariantStarts
<1>2. Invariant /\ [InnerNext]_innerVars => Invariant'
  BY InvariantKept
<1> QED BY <1>1, <1>2, PTL DEF InnerSpec

(***************************************************************************)
(* The vectors that are left at the start of a round have the commitment   *)
(* of the caller's, corrected by what prove_inner_product has published.   *)
(***************************************************************************)
THEOREM CommitmentAlwaysKept ==
  ASSUME InnerProductAssumption
  PROVE  InnerSpec => []CommitmentKept
<1>1. Invariant => CommitmentKept
  BY InvariantKeepsCommitment
<1> QED BY <1>1, InnerProductInvariance, PTL

(***************************************************************************)
(* verify_inner_product accepts what prove_inner_product returns, from     *)
(* either driver and with either, and rejects it when it is given another  *)
(* product, commitment, final scalar or number of rounds.                  *)
(***************************************************************************)
THEOREM VerifierAlwaysDecides ==
  ASSUME InnerProductAssumption
  PROVE  InnerSpec => []VerifierDecides
<1>1. Invariant => VerifierDecides
  BY DEF Invariant
<1> QED BY <1>1, InnerProductInvariance, PTL
=============================================================================
