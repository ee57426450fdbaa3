------------------------------- MODULE LimbField -------------------------------
(* The prime field of sxt/field25, over which the bn254 curve is defined.   *)
(* An element x is kept in Montgomery form, x * R modulo p, as an array of  *)
(* words, and every operation carries from word to word and subtracts p at  *)
(* most once. A machine whose registers hold elements calls the operations  *)
(* in any order, with outputs that are inputs where the code allows it.     *)
EXTENDS Integers, Sequences

CONSTANTS
  WordBits,     \* bits of a word; 64 in the code
  Limbs,        \* words of an element; 4 in the code
  Prime,        \* the modulus
  Registers,    \* variables that hold elements
  Encodings     \* what callers read with from_bytes

Word == 2 ^ WordBits
R == Word ^ Limbs

(* The top two bits of the modulus of field25 are zero, and it is odd.      *)
LimbFieldAssumption ==
  /\ WordBits \in Nat \ {0} /\ Limbs \in Nat \ {0, 1}
  /\ Prime \in Nat /\ Prime > 2 /\ 4 * Prime < R
  /\ \A d \in 2 .. Prime - 1 : Prime % d # 0
  /\ Encodings \subseteq 0 .. R - 1

-----------------------------------------------------------------------------
(* Constants. Word i of an array of the code is element i + 1 here.         *)

LimbsOf(n) ==
  LET words[k \in 0 .. Limbs] ==
        IF k = 0 THEN <<>> ELSE Append(words[k - 1], (n \div Word ^ (k - 1)) % Word)
  IN  words[Limbs]

Elements == [1 .. Limbs -> 0 .. Word - 1]

p_v == LimbsOf(Prime)
r_v == LimbsOf(R % Prime)
r2_v == LimbsOf((R * R) % Prime)
inv_v == CHOOSE k \in 0 .. Word - 1 : (k * Prime) % Word = Word - 1

-----------------------------------------------------------------------------
(* Words *)

Carried(n) == [ret |-> n % Word, carry |-> n \div Word]

mac(a, b, c, carry) == Carried(a + b * c + carry)

(* Slip: what the carry that comes in makes overflow is not carried out.    *)
BugCarryIn(a, b, c) == [ret |-> (a + b + c) % Word, carry |-> (a + b) \div Word]

adc(a, b, c) == Carried(a + b + c)

(* The difference wraps around in two words. The upper one, all ones or     *)
(* zero, is the borrow, of which the next subtraction takes the top bit.    *)
TopBit(w) == w \div (Word \div 2)
sbb(a, b, borrow) == Carried((a - (b + TopBit(borrow))) % (Word * Word))

(* One operation after another on the words from 1 to n, each with the      *)
(* carry of the one before: their results and the last carry                *)
Chain(n, op(_, _)) ==
  LET done[k \in 0 .. n] ==
        IF k = 0 THEN [ret |-> <<>>, carry |-> 0]
        ELSE LET before == done[k - 1]
                 s == op(k, before.carry)
             IN  [ret |-> Append(before.ret, s.ret), carry |-> s.carry]
  IN  done[n]

Difference(x, y) == Chain(Limbs, LAMBDA k, borrow : sbb(x[k], y[k], borrow))

(* Add a * x to t, from the word behind the first n on.                     *)
AddRow(t, n, a, x) ==
  LET row == Chain(Len(x), LAMBDA k, carry : mac(t[n + k], a, x[k], carry))
  IN  [t |-> SubSeq(t, 1, n) \o row.ret \o SubSeq(t, n + Len(x) + 1, Len(t)),
       carry |-> row.carry]

-----------------------------------------------------------------------------
(* Reduction *)

subtract_p(a) ==
  LET s == Difference(a, p_v)
  IN  IF s.carry = 0 THEN s.ret ELSE a

is_below_modulus(h) == Difference(h, p_v).carry % 2 = 1

(* Each row clears a word of t. What it carries out is added to the word    *)
(* above it, with what that addition carried out for the row before.        *)
reduce(t) ==
  LET cleared[k \in 0 .. Limbs] ==
        IF k = 0 THEN [t |-> t, high |-> 0]
        ELSE LET before == cleared[k - 1]
                 row == AddRow(before.t, k - 1, (before.t[k] * inv_v) % Word, p_v)
                 s == adc(row.t[k + Limbs], before.high, row.carry)
             IN  [t |-> [row.t EXCEPT ![k + Limbs] = s.ret], high |-> s.carry]
  IN  subtract_p(SubSeq(cleared[Limbs].t, Limbs + 1, 2 * Limbs))

-----------------------------------------------------------------------------
(* Operations *)

Zeros(n) == LimbsOf(0) \o SubSeq(LimbsOf(0), 1, n - Limbs)

(* Rows of products, the k-th of f[k] with the given words of g, each       *)
(* ending in a word of t that is still zero                                 *)
Rows(last, f, Factor(_), At(_)) ==
  LET added[k \in 0 .. last] ==
        IF k = 0 THEN Zeros(2 * Limbs)
        ELSE LET row == AddRow(added[k - 1], At(k), f[k], Factor(k))
             IN  [row.t EXCEPT ![k + Limbs] = row.carry]
  IN  added[last]

Product(f, g) == Rows(Limbs, f, LAMBDA k : g, LAMBDA k : k - 1)

mul(f, g) == reduce(Product(f, g))

to_montgomery_form(s) == reduce(Product(s, r2_v))

from_montgomery_form(h) == reduce(h \o LimbsOf(0))

(* The product of two different words is computed once, and doubled by a    *)
(* shift of all words, before the squares of the words are added.           *)
square(f) ==
  LET cross == Rows(Limbs - 1, f, LAMBDA k : SubSeq(f, k + 1, Limbs), LAMBDA k : 2 * k - 1)
      Doubled(i) == ((2 * cross[i]) % Word) + IF i = 1 THEN 0 ELSE TopBit(cross[i - 1])
      Diagonal(i, carry) ==
        IF i % 2 = 1 THEN mac(Doubled(i), f[(i + 1) \div 2], f[(i + 1) \div 2], carry)
        ELSE adc(Doubled(i), 0, carry)
  IN  reduce(Chain(2 * Limbs, Diagonal).ret)

add(f, g) == subtract_p(Chain(Limbs, LAMBDA k, carry : adc(f[k], g[k], carry)).ret)

(* Zero is masked: p - 0 would not be below p.                              *)
neg(f) == IF \A k \in DOMAIN f : f[k] = 0 THEN f ELSE Difference(p_v, f).ret

sub(f, g) == add(f, neg(g))

(* From the highest bit of g on; left is the number of bits still to come. *)
pow_vartime(f, g) ==
  LET Bit(j) == (g[(j \div WordBits) + 1] \div 2 ^ (j % WordBits)) % 2
      power[left \in 0 .. WordBits * Limbs, res \in Elements] ==
        IF left = 0 THEN res
        ELSE LET squared == square(res)
             IN  power[left - 1, IF Bit(left - 1) = 1 THEN mul(f, squared) ELSE squared]
  IN  power[WordBits * Limbs, r_v]

invert(f) == pow_vartime(f, LimbsOf(Prime - 2))

-----------------------------------------------------------------------------
(* Properties of an element *)

is_zero(e) == from_montgomery_form(e) = LimbsOf(0)

lexicographically_largest(e) ==
  Difference(from_montgomery_form(e), LimbsOf((Prime + 1) \div 2)).carry % 2 = 0

-----------------------------------------------------------------------------
(* The machine *)

VARIABLES
  element,   \* the words of every register
  integer    \* the integer modulo p that every register stands for

limbVars == <<element, integer>>

LimbInit ==
  /\ element = [r \in Registers |-> LimbsOf(0)]
  /\ integer = [r \in Registers |-> 0]

Assign(h, words, n) ==
  /\ element' = [element EXCEPT ![h] = words]
  /\ integer' = [integer EXCEPT ![h] = n % Prime]

FromBytes(h, s) == Assign(h, to_montgomery_form(LimbsOf(s)), s)
Mul(h, f, g) == Assign(h, mul(element[f], element[g]), integer[f] * integer[g])
Square(h, f) == Assign(h, square(element[f]), integer[f] * integer[f])
Add(h, f, g) == Assign(h, add(element[f], element[g]), integer[f] + integer[g])
Sub(h, f, g) == Assign(h, sub(element[f], element[g]), integer[f] - integer[g])
Neg(h, f) == Assign(h, neg(element[f]), -integer[f])

(* The inverse of zero is zero.                                             *)
Reciprocal(n) == CHOOSE m \in 0 .. Prime - 1 : IF n = 0 THEN m = 0 ELSE (m * n) % Prime = 1

Invert(h, f) == Assign(h, invert(element[f]), Reciprocal(integer[f]))

LimbNext ==
  \E h \in Registers :
    \/ \E s \in Encodings : FromBytes(h, s)
    \/ \E f \in Registers :
         \/ \E g \in Registers : Mul(h, f, g) \/ Add(h, f, g) \/ Sub(h, f, g)
         \/ Square(h, f)
         \/ Neg(h, f)
         \/ Invert(h, f)

-----------------------------------------------------------------------------
(* Properties *)

(***************************************************************************)
(* Whatever the operations called, each register holds the one reduced     *)
(* Montgomery form of the integer the arithmetic of the field gives:       *)
(* operator== compares words, the curve formulas take operands below p,    *)
(* and is_zero, to_bytes, from_bytes's below_modulus and                   *)
(* lexicographically_largest answer as for that integer. A carry or a      *)
(* borrow lost between words, or a subtraction of p too few, breaks it for *)
(* few operands only.                                                      *)
(***************************************************************************)
FieldKept ==
  \A r \in Registers :
    LET e == element[r]
        n == integer[r]
    IN  /\ e = LimbsOf((n * R) % Prime)
        /\ from_montgomery_form(e) = LimbsOf(n)
        /\ is_zero(e) <=> n = 0
        /\ lexicographically_largest(e) <=> n > (Prime - 1) \div 2
        /\ \A k \in 0 .. (R - 1 - n) \div Prime :
             is_below_modulus(LimbsOf(n + k * Prime)) <=> k = 0
===============================================================================
