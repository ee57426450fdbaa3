------------------------------ MODULE CarriedField -----------------------------
(* The field of sxt/field51: five limbs of 51 bits in words of 64, modulo    *)
(* 2^255 - 19. Sums are not carried, and a limb may hold more than its bits  *)
(* for some operations; products and differences carry. What overflows a     *)
(* word is lost.                                                            *)
EXTENDS Integers, Sequences

CONSTANTS
  LimbBits,   \* bits of a limb; 51 in the code
  Limbs,      \* limbs of an element; 5 in the code
  Fold,       \* what the modulus is below a power of the base; 19 in the code
  WordBits    \* bits of a word; 64 in the code

Base == 2 ^ LimbBits
Prime == Base ^ Limbs - Fold

CarriedFieldAssumption ==
  /\ LimbBits \in Nat \ {0} /\ Limbs \in Nat \ (0 .. 2) /\ Fold \in 1 .. Base - 1
  /\ WordBits > LimbBits
  /\ \A d \in 2 .. Prime - 1 : Prime % d # 0

Elements == [1 .. Limbs -> 0 .. 2 ^ WordBits - 1]

Word(n) == n % 2 ^ WordBits
Wide(n) == n % 2 ^ (2 * WordBits)

-----------------------------------------------------------------------------
(* Limbs *)

(* f(1), ..., f(Limbs), and their sum, each worked out                      *)
LimbWise(f(_)) ==
  LET upTo[k \in 0 .. Limbs] == IF k = 0 THEN <<>> ELSE Append(upTo[k - 1], f(k))
  IN  upTo[Limbs]

Summed(f(_)) ==
  LET upTo[k \in 0 .. Limbs] == IF k = 0 THEN 0 ELSE Wide(upTo[k - 1] + f(k))
  IN  upTo[Limbs]

(* What the first limbs have above their bits goes on to the next one,      *)
CarryUp(t, first, Width(_), Passed(_)) ==
  LET carried[i \in 0 .. first] ==
        IF i = 0 THEN t
        ELSE LET s == carried[i - 1]
             IN  [s EXCEPT ![i] = s[i] % Base,
                           ![i + 1] = Width(s[i + 1] + Passed(s[i] \div Base))]
  IN  carried[first]

(* and from the last, as it is worth Fold there, to the first.              *)
CarryAround(t, Width(_)) ==
  [t EXCEPT ![Limbs] = t[Limbs] % Base,
            ![1] = Width(t[1] + Fold * Word(t[Limbs] \div Base))]

CarryAll(t, Width(_)) == CarryAround(CarryUp(t, Limbs - 1, Width, Width), Width)

-----------------------------------------------------------------------------
(* Reduction and bytes *)

(* Limbs of a multiple of what is Fold below a power of the base            *)
Filler(i, multiple) == multiple * (Base - (IF i = 1 THEN Fold ELSE 1))

(* The limbs end up with the one number below the modulus: Fold is added,   *)
(* so that a number above the modulus loses its top bit, and is taken off   *)
(* again.                                                                   *)
Reduced(f) ==
  LET t == CarryAll(CarryAll(f, Wide), Wide)
      u == CarryAll([t EXCEPT ![1] = @ + Fold], Wide)
      v == CarryUp(LimbWise(LAMBDA i : u[i] + Filler(i, 1)), Limbs - 1, Wide, Wide)
  IN  [v EXCEPT ![Limbs] = @ % Base]

reduce(f) == LET h[x \in Elements] == Reduced(x) IN h[f]

(* The bytes of an element, as the number they spell                        *)
to_bytes(f) ==
  LET s[t \in Elements] == Summed(LAMBDA i : t[i] * Base ^ (i - 1))
  IN  s[reduce(f)]

from_bytes(s) == LimbWise(LAMBDA i : (s \div Base ^ (i - 1)) % Base)

equal(lhs, rhs) == reduce(lhs) = reduce(rhs)

is_zero(e) == to_bytes(e) = 0
is_negative(f) == to_bytes(f) % 2 = 1

-----------------------------------------------------------------------------
(* Operations *)

zero_v == from_bytes(0)
one_v == from_bytes(1)

add(f, g) ==
  LET h[x, y \in Elements] == LimbWise(LAMBDA i : Word(x[i] + y[i]))
  IN  h[f, g]

(* Slip: limbs of g that hold more than those of twice the modulus          *)
BugNotCarried(f, g) == LimbWise(LAMBDA i : Word(f[i] + Filler(i, 2) - g[i]))

Difference(f, g) ==
  LET h == CarryAll(g, Word)
  IN  LimbWise(LAMBDA i : Word(Word(f[i] + Filler(i, 2)) - h[i]))

sub(f, g) == LET h[x, y \in Elements] == Difference(x, y) IN h[f, g]

neg(f) == sub(zero_v, f)

(* The limbs of a product. What a carry does not hold is lost.              *)
Settled(r, Passed(_)) ==
  CarryUp(CarryAround(CarryUp(r, Limbs - 1, Wide, Passed), Word), 2, Word, Word)

(* What limb j contributes to limb i of a product times limb Other(i, j),   *)
(* once more times Fold when their places add up to more than there are     *)
Other(i, j) == IF j <= i THEN i + 1 - j ELSE i + 1 - j + Limbs
Around(i, j) == IF j <= i THEN 1 ELSE Fold

Products(f, g) == LimbWise(LAMBDA i : Summed(LAMBDA j : Around(i, j) * f[j] * g[Other(i, j)]))

mul(f, g) == LET h[x, y \in Elements] == Settled(Products(x, y), Word) IN h[f, g]

(* Two different limbs have one product. The multiple of the lower one has  *)
(* the given width.                                                         *)
Squares(f, Width(_)) ==
  LET term(i, j, k) ==
        IF j > k THEN 0 ELSE Width((IF j = k THEN 1 ELSE 2) * Around(i, j) * f[j]) * f[k]
  IN  LimbWise(LAMBDA i : Summed(LAMBDA j : term(i, j, Other(i, j))))

sq(f) == LET h[x \in Elements] == Settled(Squares(x, Wide), Word) IN h[f]

sq2(f) ==
  LET doubled(r) == LimbWise(LAMBDA i : Wide(2 * r[i]))
      h[x \in Elements] == Settled(doubled(Squares(x, Word)), Wide)
  IN  h[f]

mul32(f, n) ==
  LET product == LimbWise(LAMBDA i : f[i] * n)
  IN  CarryAround(CarryUp(product, Limbs - 1, Wide, Word), Word)

(* f to the power of n, by squares and products for the bits of n. The code *)
(* goes through its chains of squares and products for the two powers below.*)
Power(f, n) ==
  LET last == Limbs * LimbBits
      powers[k \in 0 .. last] ==
        IF k = 0 THEN <<one_v>>
        ELSE LET before == powers[k - 1]
                 square == sq(before[k])
             IN  Append(before, IF (n \div 2 ^ (last - k)) % 2 = 1 THEN mul(f, square) ELSE square)
  IN  powers[last][last + 1]

invert(z) == Power(z, Prime - 2)
pow22523(z) == Power(z, (Prime - 5) \div 8)
===============================================================================
