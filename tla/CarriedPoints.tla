----------------------------- MODULE CarriedPoints -----------------------------
(* Points of sxt/curve21 and encodings of sxt/ristretto in the words of      *)
(* sxt/field51. A caller goes through some operations on one point; the      *)
(* same formulas compute with integers beside it.                           *)
EXTENDS CarriedField

CONSTANTS
  D, A,                                          \* of the curve and of its Montgomery form
  sqrtm1_v, sqrtadm1_v, invsqrtamd, sqrtam2_v,   \* roots, as in RistrettoFormulas
  Given,        \* compact points [X, Y, T] that the caller brings, in integers
  Scalars,      \* what it multiplies with
  Nibbles,      \* digits of four bits in a scalar; 64 in the code
  Hashed,       \* bytes that it maps to points
  MaxCalls      \* bound on the operations on a point

Words == INSTANCE EdwardsFormulas WITH d_v <- from_bytes(D)
WordsRistretto == INSTANCE RistrettoFormulas WITH
  d_v <- from_bytes(D), sqrtm1_v <- from_bytes(sqrtm1_v), sqrtadm1_v <- from_bytes(sqrtadm1_v),
  invsqrtamd <- from_bytes(invsqrtamd), sqrtam2_v <- from_bytes(sqrtam2_v), A_32 <- A

Z == INSTANCE IntegerField WITH Modulus <- Prime
Exact == INSTANCE EdwardsFormulas WITH
  add <- Z!add, sub <- Z!sub, mul <- Z!mul, sq <- Z!sq, sq2 <- Z!sq2, neg <- Z!neg,
  invert <- Z!invert, equal <- Z!equal, zero_v <- Z!zero_v, one_v <- Z!one_v, d_v <- D
ExactRistretto == INSTANCE RistrettoFormulas WITH
  add <- Z!add, sub <- Z!sub, mul <- Z!mul, mul32 <- Z!mul32, sq <- Z!sq, sq2 <- Z!sq2,
  neg <- Z!neg, invert <- Z!invert, pow22523 <- Z!pow22523, equal <- Z!equal,
  is_zero <- Z!is_zero, is_negative <- Z!is_negative, to_bytes <- Z!to_bytes,
  from_bytes <- Z!from_bytes, zero_v <- Z!zero_v, one_v <- Z!one_v, d_v <- D, A_32 <- A

CarriedPointsAssumption ==
  /\ CarriedFieldAssumption
  /\ Prime % 8 = 5
  /\ Z!sq(sqrtm1_v) = Z!neg(1)
  /\ Z!sq(sqrtadm1_v) = Z!sub(Z!neg(D), 1) /\ Z!mul(Z!sq(invsqrtamd), Z!sub(Z!neg(1), D)) = 1
  /\ Z!mul(Z!neg(D), A + 2) = Z!sub(A, 2) /\ Z!sq(sqrtam2_v) = Z!neg(A + 2)
  /\ \A e \in Given :
       /\ Z!sub(Z!sq(e.Y), Z!sq(e.X)) = Z!add(1, Z!mul(D, Z!mul(Z!sq(e.X), Z!sq(e.Y))))
       /\ e.T = Z!mul(e.X, e.Y)

-----------------------------------------------------------------------------
(* The machine *)

VARIABLES
  point,    \* the coordinates in words
  exact,    \* the coordinates in integers
  calls     \* operations so far

carriedVars == <<point, exact, calls>>

CarriedInit == point = Words!identity /\ exact = Exact!identity /\ calls = 0

Becomes(p, e) ==
  /\ calls < MaxCalls /\ calls' = calls + 1
  /\ point' = p /\ exact' = e

InWords(e) == [c \in DOMAIN e |-> from_bytes(e[c])]

Load(e) ==
  /\ calls = 0
  /\ Becomes(Words!from_compact_element(InWords(e)), Exact!from_compact_element(e))

FormRistrettoPoint(r) ==
  /\ calls = 0
  /\ Becomes(WordsRistretto!apply_elligator(from_bytes(r)), ExactRistretto!apply_elligator(Z!from_bytes(r)))

FormPoint(r, x_sign) ==
  /\ calls = 0
  /\ Becomes(Words!clear_cofactor(WordsRistretto!form_point(r, x_sign).point),
             Exact!clear_cofactor(ExactRistretto!form_point(r, x_sign).point))

Add(e) ==
  Becomes(Words!Sum(point, Words!from_compact_element(InWords(e))),
          Exact!Sum(exact, Exact!from_compact_element(e)))

AddSelf == Becomes(Words!Sum(point, point), Exact!Sum(exact, exact))

(* The sum in place takes either of the two as the one that it uses up.     *)
AddInplace(e) ==
  LET q == Words!from_compact_element(InWords(e))
      qe == Exact!from_compact_element(e)
  IN  \/ Becomes(Words!InplaceSum(point, q), Exact!InplaceSum(exact, qe))
      \/ Becomes(Words!InplaceSum(q, point), Exact!InplaceSum(qe, exact))

Double == Becomes(Words!Twice(point), Exact!Twice(exact))

Neg == Becomes(Words!Opposite(point), Exact!Opposite(exact))

ScalarMultiply(a) ==
  Becomes(Words!scalar_multiply255(point, a, Nibbles), Exact!scalar_multiply255(exact, a, Nibbles))

(* A point is stored, as a compact one or as its encoding, and read again.  *)
Store ==
  Becomes(Words!from_compact_element(Words!to_compact_element(point)),
          Exact!from_compact_element(Exact!to_compact_element(exact)))

Compress ==
  Becomes(WordsRistretto!decode(WordsRistretto!encode(point)).point,
          ExactRistretto!decode(ExactRistretto!encode(exact)).point)

(* The caller is done with the point.                                       *)
Drop ==
  /\ calls = MaxCalls
  /\ point' = Words!identity /\ exact' = Exact!identity /\ calls' = 0

CarriedNext ==
  \/ \E e \in Given : Load(e) \/ Add(e) \/ AddInplace(e)
  \/ \E r \in Hashed : FormRistrettoPoint(r) \/ \E x_sign \in BOOLEAN : FormPoint(r, x_sign)
  \/ \E a \in Scalars : ScalarMultiply(a)
  \/ AddSelf \/ Double \/ Neg \/ Store \/ Compress
  \/ Drop

-----------------------------------------------------------------------------
(* Properties *)

(***************************************************************************)
(* Whatever operations a point has been through, its words stand for the   *)
(* coordinates that exact arithmetic gives: the formulas feed sums of sums *)
(* that were not carried into products and differences, and no limb or     *)
(* partial product on the way outgrows its word. The encoding, which takes *)
(* parities and roots of such words, is the exact one, too.                *)
(***************************************************************************)
WordsKept ==
  /\ \A c \in DOMAIN exact : to_bytes(point[c]) = exact[c]
  /\ WordsRistretto!encode(point) = ExactRistretto!encode(exact)
===============================================================================
