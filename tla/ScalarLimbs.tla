------------------------------ MODULE ScalarLimbs ------------------------------
(* The scalars of sxt/scalar25, modulo the order L of a group: 2^252 and a   *)
(* rest of half as many bits. Products are worked out in limbs of 21 bits,   *)
(* which become negative on the way, and come down to one reduced scalar.    *)
(* A scalar that is stored is the number its bytes spell. A machine has      *)
(* variables, and calls operations on them and on scalars that callers       *)
(* bring, which need not be reduced.                                         *)
EXTENDS Integers, Sequences, TLC

CONSTANTS
  LimbBits,      \* bits of a limb; 21 in the code
  Half,          \* half of the limbs of a scalar; 6 in the code
  Rest,          \* what a multiple of 2^252 leaves: 666643, 470296, ... in the code
  ExtraBits,     \* bits of 32 bytes behind the last limb; 4 in the code
  Scalars,       \* variables that hold scalars
  Brought,       \* scalars that callers bring
  Wide           \* numbers of 64 bytes that callers bring

Base == 2 ^ LimbBits
Limbs == 2 * Half
ScalarBits == Limbs * LimbBits + ExtraBits

(* L is 2^252 less the rest, whose digits have a sign.                      *)
Order ==
  LET rest[j \in 0 .. Half] == IF j = 0 THEN 0 ELSE rest[j - 1] + Rest[j] * Base ^ (j - 1)
  IN  Base ^ Limbs - rest[Half]

ScalarAssumption ==
  /\ LimbBits \in Nat \ {0} /\ Half \in Nat \ {0} /\ Half % 2 = 0
  /\ DOMAIN Rest = 1 .. Half
  /\ \A j \in 1 .. Half : -Base \div 2 <= Rest[j] /\ Rest[j] <= Base \div 2
  /\ Order > Base ^ Limbs
  /\ \A d \in 2 .. Order - 1 : Order % d # 0
  /\ Brought \subseteq 0 .. 2 ^ ScalarBits - 1
  /\ Wide \subseteq 0 .. 2 ^ (2 * ScalarBits) - 1

-----------------------------------------------------------------------------
(* Limbs. Only the last takes what is above its 21 bits.                    *)

LimbWise(f(_)) ==
  LET from[i \in 0 .. 2 * Limbs - 1] ==
        i :> f(i) @@ IF i = 2 * Limbs - 1 THEN <<>> ELSE from[i + 1]
  IN  from[0]

(* f(0) + ... + f(n - 1)                                                    *)
SumBelow(n, f(_)) ==
  LET from[k \in 0 .. n] == IF k = n THEN 0 ELSE f(k) + from[k + 1]
  IN  from[0]

LimbsOf(x, last) ==
  LimbWise(LAMBDA i :
    IF i > last THEN 0
    ELSE (x \div Base ^ i) % (IF i = last THEN 2 ^ (2 * ScalarBits) ELSE Base))

(* Limbs first to last come in again below, times the rest.                 *)
Folded(s, first, last) ==
  LimbWise(LAMBDA i :
    s[i] + SumBelow(Half, LAMBDA j :
             LET k == i - j + Limbs
             IN  IF k \in first .. last THEN s[k] * Rest[j + 1] ELSE 0))

Cleared(s, i) == [s EXCEPT ![i] = 0]

(* Carry out of every second limb what leaves less than half of a base, of  *)
(* either sign.                                                             *)
Rounded(n) == (n + Base \div 2) \div Base
CarryRounded(s, is) ==
  LimbWise(LAMBDA i :
    s[i] - (IF i \in is THEN Base * Rounded(s[i]) ELSE 0)
         + (IF i - 1 \in is THEN Rounded(s[i - 1]) ELSE 0))

Even(a, b) == {i \in a .. b : i % 2 = 0}
Odd(a, b) == {i \in a .. b : i % 2 = 1}

(* Carry from limb to limb, out of the first ones.                          *)
CarryUp(s, first) ==
  LET carried[i \in 0 .. first] ==
        IF i = 0 THEN s
        ELSE LET t == carried[i - 1]
             IN  [t EXCEPT ![i - 1] = t[i - 1] % Base, ![i] = t[i] + t[i - 1] \div Base]
  IN  carried[first]

(* The bytes of the limbs, of which those below the last fill their bits    *)
Packed(s) ==
  SumBelow(Limbs, LAMBDA i :
    (s[i] % (IF i = Limbs - 1 THEN 2 ^ (LimbBits + ExtraBits) ELSE Base)) * Base ^ i)

-----------------------------------------------------------------------------
(* Reduction *)

FoldUpper(s) == Folded(s, 3 * Half, 4 * Half - 1)

CarryUpper(s) ==
  CarryRounded(CarryRounded(s, Even(Half, 3 * Half - 2)), Odd(Half + 1, 3 * Half - 3))

FoldMiddle(s) == Cleared(Folded(s, Limbs, 3 * Half - 1), Limbs)

CarryLower(s) ==
  CarryRounded(CarryRounded(s, Even(0, Limbs - 2)), Odd(1, Limbs - 1))

FoldTop(s) == Folded(s, Limbs, Limbs)

reduce_impl(s) ==
  LET lower == CarryLower(FoldMiddle(CarryUpper(FoldUpper(s))))
      positive == CarryUp(Cleared(FoldTop(lower), Limbs), Limbs)
  IN  Packed(CarryUp(FoldTop(positive), Limbs - 1))

reduce33(x, byte32) == reduce_impl(LimbsOf(x + byte32 * 2 ^ ScalarBits, Limbs))
reduce32(x) == reduce33(x, 0)
reduce64(x) == reduce_impl(LimbsOf(x, 2 * Limbs - 1))

-----------------------------------------------------------------------------
(* Operations *)

Products(a, b, c) ==
  LET A == LimbsOf(a, Limbs - 1)
      B == LimbsOf(b, Limbs - 1)
      C == LimbsOf(c, Limbs - 1)
  IN  LimbWise(LAMBDA i :
        C[i] + SumBelow(Limbs, LAMBDA j : IF i - j \in 0 .. Limbs - 1 THEN A[j] * B[i - j] ELSE 0))

CarryProducts(s) ==
  CarryRounded(CarryRounded(s, Even(0, 2 * Limbs - 2)), Odd(1, 2 * Limbs - 3))

muladd(a, b, c) == reduce_impl(CarryProducts(Products(a, b, c)))

mul(a, b) ==
  LET product[x, y \in Nat] == reduce_impl(CarryProducts(Products(x, y, 0)))
  IN  product[a, b]

(* The bytes of the sum, and the one bit that does not fit in them          *)
add(x, y) ==
  LET sum == x + y
  IN  reduce33(sum % 2 ^ ScalarBits, sum \div 2 ^ ScalarBits)

(* What is subtracted from a multiple of L which is above it                *)
Opposite(x, multiple) == reduce64(Order * 2 ^ ScalarBits + multiple - x)

neg(x) == Opposite(x, 0)
complement(x) == Opposite(x, 1)

sub(x, y) == add(x, neg(y))

is_zero(x) == reduce32(x) = 0

(* The power of Order - 2, by squares and products for its bits             *)
inv(x) ==
  LET powers[k \in 0 .. ScalarBits] ==
        IF k = 0 THEN <<1>>
        ELSE LET before == powers[k - 1]
                 square == mul(before[k], before[k])
             IN  Append(before, IF ((Order - 2) \div 2 ^ (ScalarBits - k)) % 2 = 1
                                THEN mul(square, x) ELSE square)
  IN  powers[ScalarBits][ScalarBits + 1]

-----------------------------------------------------------------------------
(* The machine *)

VARIABLES
  scalar,    \* the scalar in every variable
  residue    \* the integer modulo L that every variable stands for

scalarVars == <<scalar, residue>>

ScalarInit ==
  /\ scalar = [h \in Scalars |-> 0]
  /\ residue = [h \in Scalars |-> 0]

Assign(h, s, n) ==
  /\ scalar' = [scalar EXCEPT ![h] = s]
  /\ residue' = [residue EXCEPT ![h] = n % Order]

Reduce(h, x) == Assign(h, reduce32(x), x)
ReduceWide(h, x) == Assign(h, reduce64(x), x)
Add(h, f, y) == Assign(h, add(scalar[f], y), residue[f] + y)
Sub(h, f, y) == Assign(h, sub(scalar[f], y), residue[f] - y)
SubFrom(h, x, f) == Assign(h, sub(x, scalar[f]), x - residue[f])
Mul(h, f, y) == Assign(h, mul(scalar[f], y), residue[f] * y)
Square(h, f) == Assign(h, mul(scalar[f], scalar[f]), residue[f] * residue[f])
MulAdd(h, x, y, f) == Assign(h, muladd(x, y, scalar[f]), x * y + residue[f])
Neg(h, f) == Assign(h, neg(scalar[f]), -residue[f])
Complement(h, f) == Assign(h, complement(scalar[f]), 1 - residue[f])


Inv(h, f) ==
  /\ ~is_zero(scalar[f])
  /\ \E n \in 1 .. Order - 1 : (n * residue[f]) % Order = 1 /\ Assign(h, inv(scalar[f]), n)

ScalarNext ==
  \E h \in Scalars :
    \/ \E x \in Wide : ReduceWide(h, x)
    \/ \E x \in Brought : Reduce(h, x)
    \/ \E f \in Scalars :
         \/ \E y \in Brought :
              \/ Add(h, f, y) \/ Sub(h, f, y) \/ SubFrom(h, y, f) \/ Mul(h, f, y)
              \/ \E x \in Brought : MulAdd(h, x, y, f)
         \/ Square(h, f)
         \/ Neg(h, f)
         \/ Complement(h, f)
         \/ Inv(h, f)

-----------------------------------------------------------------------------
(* Properties *)

(***************************************************************************)
(* Whatever the operations called, and on scalars that need not be         *)
(* reduced, each leaves the one scalar below L that the arithmetic modulo  *)
(* L gives: operator== compares bytes. The number is subtracted from twice *)
(* as a multiple of 2^252, and comes out below L only since rounded        *)
(* carries left it within half of 2^252 around zero.                       *)
(***************************************************************************)
ScalarsKept ==
  /\ scalar = residue
  /\ \A h \in Scalars : is_zero(scalar[h]) <=> residue[h] = 0
  /\ \A x \in Brought : is_zero(x) <=> x % Order = 0
===============================================================================
