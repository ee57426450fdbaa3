---------------------------- MODULE RistrettoPoints ----------------------------
(* The group of sxt/ristretto: points of sxt/curve21 that are twice another *)
(* and differ by one of order four or less count as one element, which has  *)
(* one encoding. A machine computes with points and with an encoding.       *)
EXTENDS EdwardsPoints

CONSTANTS
  sqrtm1_v, sqrtadm1_v, invsqrtamd, sqrtam2_v,   \* constants of the field
  A_32,                                          \* the A of the Montgomery form
  Hashed                                         \* field elements that callers map to points

Ristretto == INSTANCE RistrettoFormulas WITH d_v <- D, Prime <- Modulus

RistrettoAssumption ==
  /\ PointsAssumption
  /\ Modulus % 8 = 5 /\ Order = 8 * PrimeOrder /\ PrimeOrder % 2 = 1
  /\ sq(sqrtm1_v) = neg(1)
  /\ sq(sqrtadm1_v) = sub(neg(D), 1) /\ mul(sq(invsqrtamd), sub(neg(1), D)) = 1
  /\ mul(neg(D), A_32 + 2) = sub(A_32, 2) /\ sq(sqrtam2_v) = neg(A_32 + 2)
  /\ Hashed \subseteq Field
  /\ \A k \in Given : k % 2 = 0

-----------------------------------------------------------------------------
(* The elements of the group, by the least factor of their points           *)
ElementOf(k) == k % (2 * PrimeOrder)

(* The factor of coordinates; what is no point has none.                    *)
FactorOf(p) ==
  LET factors == {k \in DOMAIN Points : p.Z # 0 /\ to_compact_element(p) = Compact(k)}
  IN  IF factors = {} THEN Spoiled ELSE CHOOSE k \in factors : TRUE

EncodingOf(k) == Ristretto!encode(from_compact_element(Compact(k)))

-----------------------------------------------------------------------------
(* The machine *)

VARIABLES
  encoding,   \* the bytes of a compressed element
  element     \* the element that they stand for

ristrettoVars == <<point, meant, encoding, element>>

RistrettoInit ==
  /\ EdwardsInit
  /\ encoding = 0 /\ element = 0

form_ristretto_point(r0, r1) ==
  Sum(Ristretto!apply_elligator(r1), Ristretto!apply_elligator(r0))

Form(h, p, k) == Assign(h, p, k) /\ UNCHANGED <<encoding, element>>

(* Callers form points before they compute with any.                        *)
FormRistrettoPoint(h, r0, r1) ==
  LET p == form_ristretto_point(r0, r1)
  IN  RistrettoInit /\ Form(h, p, FactorOf(p))

(* The point that random bytes give. Without a root the program stops.      *)
FormPoint(h, r, x_sign) ==
  LET formed == Ristretto!form_point(r, x_sign)
      p == clear_cofactor(formed.point)
  IN  RistrettoInit /\ Form(h, p, IF formed.exists THEN FactorOf(p) ELSE Spoiled)

compress(p) ==
  /\ encoding' = Ristretto!encode(point[p])
  /\ element' = ElementOf(meant[p])
  /\ UNCHANGED edwardsVars

decompress(h) ==
  LET p == Ristretto!decode(encoding).point
  IN  Form(h, p, FactorOf(p))

(* Sums and multiples of encodings. A scalar is reduced whatever the point. *)
AddEncoding(k) ==
  /\ encoding' = Ristretto!encode(Sum(Ristretto!decode(encoding).point,
                                      Ristretto!decode(EncodingOf(k)).point))
  /\ element' = ElementOf(element + k)
  /\ UNCHANGED edwardsVars

ScalarMultiplyEncoding(a) ==
  /\ encoding' = Ristretto!encode(
       scalar_multiply255(Ristretto!decode(encoding).point, fill_exponent(a), Nibbles))
  /\ element' = ElementOf(a * element)
  /\ UNCHANGED edwardsVars

RistrettoNext ==
  \/ EdwardsNext /\ UNCHANGED <<encoding, element>>
  \/ \E h \in Variables :
       \/ \E r0, r1 \in Hashed : FormRistrettoPoint(h, r0, r1)
       \/ \E r \in Hashed, x_sign \in BOOLEAN : FormPoint(h, r, x_sign)
       \/ compress(h)
       \/ decompress(h)
  \/ \E k \in Given : AddEncoding(k)
  \/ \E a \in Scalars : ScalarMultiplyEncoding(a)

-----------------------------------------------------------------------------
(* Properties *)

(***************************************************************************)
(* Every element of the group has one encoding, whichever of its points    *)
(* and of their coordinates are encoded, and the bytes taken are these     *)
(* encodings, so that what is computed with encodings agrees with the      *)
(* group: commitments are compared as bytes, and sums of partial           *)
(* commitments come in any coordinates. What is mapped to a point gives    *)
(* one of the group: the root that form_point panics without exists.       *)
(***************************************************************************)
EncodingsKept ==
  /\ \A v \in Variables :
       /\ Usable(v) /\ meant[v] % 2 = 0
       /\ point[v].Z # 0 /\ to_compact_element(point[v]) = Compact(meant[v])
       /\ Ristretto!encode(point[v]) = EncodingOf(ElementOf(meant[v]))
  /\ encoding = EncodingOf(element)
  /\ \A s \in 0 .. 2 * Modulus :
       IF Ristretto!accepted(s)
       THEN LET k == FactorOf(Ristretto!decode(s).point)
            IN  k % 2 = 0 /\ (ElementOf(k) = element <=> s = encoding)
       ELSE s # encoding
===============================================================================
