--------------------------- MODULE WeierstrassPoints ---------------------------
(* The points of sxt/curve_bng1, y^2 = x^3 + 3 over the prime field of      *)
(* LimbField, in projective coordinates (X : Y : Z). A machine whose        *)
(* variables hold points calls the operations that multiexponentiations are *)
(* made of, with the outputs that are inputs which the code allows.         *)
EXTENDS Integers, FiniteSets

CONSTANTS
  Modulus,     \* the field has the integers below it
  Points,      \* all points [x, y]: the multiples of one, by their factor
  Variables,   \* variables that hold points
  Given,       \* factors of the points that callers bring
  Scalars,     \* what callers multiply with
  ScalarBits   \* bits of a scalar; 256 in the code

Field == 0 .. Modulus - 1

f \oplus g == (f + g) % Modulus
f \ominus g == (f - g) % Modulus
f \otimes g == (f * g) % Modulus

b_v == 3

(* Slip: the factor of curve_g1, whose b is 4                               *)
BugFactorOfG1(p) == (12 * p) % Modulus

mul_by_3b(p) == LET p2 == p \oplus p
                    p4 == p2 \oplus p2
                IN  (p4 \oplus p4) \oplus p

(* invert also answers whether the result is zero.                          *)
invert(f) == IF f = 0 THEN 0 ELSE CHOOSE g \in Field : f \otimes g = 1

-----------------------------------------------------------------------------
(* Forms of a point *)

identity == [X |-> 0, Y |-> 1, Z |-> 0]
affine_identity == [X |-> 0, Y |-> 1, infinity |-> TRUE]

(* The X of the compact identity has an upper word of ones, which no        *)
(* element of the field has.                                                *)
Marker == Modulus
compact_identity == [X |-> Marker, Y |-> 1]

is_identity(p) == p.Z = 0

to_element_affine(p) ==
  LET z_inv == invert(p.Z)
  IN  IF z_inv = 0 THEN affine_identity
      ELSE [X |-> p.X \otimes z_inv, Y |-> p.Y \otimes z_inv, infinity |-> FALSE]

to_element_p2(a) == [X |-> a.X, Y |-> a.Y, Z |-> IF a.infinity THEN 0 ELSE 1]

to_compact_element(p) ==
  LET z_inv == invert(p.Z)
  IN  IF z_inv = 0 THEN compact_identity
      ELSE [X |-> p.X \otimes z_inv, Y |-> p.Y \otimes z_inv]

from_compact_element(e) ==
  IF e.X = Marker THEN [X |-> 0, Y |-> e.Y, Z |-> 0] ELSE [X |-> e.X, Y |-> e.Y, Z |-> 1]

Equal(lhs, rhs) ==
  \/ is_identity(lhs) /\ is_identity(rhs)
  \/ /\ ~is_identity(lhs) /\ ~is_identity(rhs)
     /\ lhs.X \otimes rhs.Z = rhs.X \otimes lhs.Z
     /\ lhs.Y \otimes rhs.Z = rhs.Y \otimes lhs.Z

is_on_curve(p) ==
  LET Cube(f) == (f \otimes f) \otimes f
  IN  \/ (p.Y \otimes p.Y) \otimes p.Z = Cube(p.X) \oplus (b_v \otimes Cube(p.Z))
      \/ p.Z = 0

-----------------------------------------------------------------------------
(* Formulas *)

(* What both additions do once they have X1*X2, Y1*Y2, 3b*Z1*Z2 and the     *)
(* sums X1*Y2 + X2*Y1, Y1*Z2 + Y2*Z1 and 3b*(X1*Z2 + X2*Z1)                 *)
CompleteSum(xx, yy, bzz, xy, yz, bxz) ==
  LET xx3 == (xx \oplus xx) \oplus xx
      z3 == yy \oplus bzz
      t1 == yy \ominus bzz
  IN  [X |-> (xy \otimes t1) \ominus (yz \otimes bxz),
       Y |-> (t1 \otimes z3) \oplus (bxz \otimes xx3),
       Z |-> (z3 \otimes yz) \oplus (xx3 \otimes xy)]

(* The coordinates of p hold intermediate results: when q is p itself, the  *)
(* code reads a q.X that it has replaced by p.X + p.Z.                      *)
Sum(p, q, same) ==
  LET t0 == p.X \otimes q.X
      t1 == p.Y \otimes q.Y
      t2 == p.Z \otimes q.Z
      px_pz == p.X \oplus p.Z
      qx == IF same THEN px_pz ELSE q.X
      t3 == ((p.X \oplus p.Y) \otimes (q.X \oplus q.Y)) \ominus (t0 \oplus t1)
      t4 == ((p.Y \oplus p.Z) \otimes (q.Y \oplus q.Z)) \ominus (t1 \oplus t2)
      py == (px_pz \otimes (qx \oplus q.Z)) \ominus (t0 \oplus t2)
  IN  CompleteSum(t0, t1, mul_by_3b(t2), t3, t4, mul_by_3b(py))

MixedSum(p, q) ==
  LET t0 == p.X \otimes q.X
      t1 == p.Y \otimes q.Y
      t3 == ((q.X \oplus q.Y) \otimes (p.X \oplus p.Y)) \ominus (t0 \oplus t1)
      t4 == (q.Y \otimes p.Z) \oplus p.Y
      y3 == (q.X \otimes p.Z) \oplus p.X
  IN  CompleteSum(t0, t1, mul_by_3b(p.Z), t3, t4, mul_by_3b(y3))

Twice(p) ==
  LET t0 == p.Y \otimes p.Y
      t0_2 == t0 \oplus t0
      t0_4 == t0_2 \oplus t0_2
      z3 == t0_4 \oplus t0_4
      t2 == mul_by_3b(p.Z \otimes p.Z)
      d == t0 \ominus ((t2 \oplus t2) \oplus t2)
      x3 == d \otimes (p.X \otimes p.Y)
  IN  [X |-> x3 \oplus x3,
       Y |-> (t2 \otimes z3) \oplus (d \otimes (t0 \oplus t2)),
       Z |-> (p.Y \otimes p.Z) \otimes z3]

-----------------------------------------------------------------------------
(* Operations on the variables of m. A result is stored before the          *)
(* identities are considered, so that an input which is the output then     *)
(* holds the result.                                                        *)

add_inplace(m, p, q) == [m EXCEPT ![p] = Sum(m[p], m[q], p = q)]

add(m, h, p, q) == add_inplace([m EXCEPT ![h] = m[p]], h, q)

add_mixed(m, h, p, q) ==
  LET stored == [m EXCEPT ![h] = MixedSum(m[p], q)]
  IN  IF q.infinity THEN [stored EXCEPT ![h] = stored[p]] ELSE stored

double_element(m, h, p) ==
  LET stored == [m EXCEPT ![h] = Twice(m[p])]
  IN  IF is_identity(stored[p]) THEN [stored EXCEPT ![h] = identity] ELSE stored

neg(m, r, p) == [m EXCEPT ![r] = [m[p] EXCEPT !.Y = 0 \ominus @]]

cneg(m, r, b) == IF b THEN neg(m, r, r) ELSE m

(* The accumulator is a variable of its own. The uppermost bit is never the *)
(* first, and a scalar without another bit gives the identity.              *)
scalar_multiply255(m, h, p, q) ==
  LET Bit(j) == (q \div 2 ^ j) % 2 = 1
      ones == {j \in 0 .. ScalarBits - 2 : Bit(j)}
      first_one == CHOOSE j \in ones : \A i \in ones : i <= j
      acc[j \in 0 .. first_one + 1] ==
        IF j = first_one + 1 THEN [acc |-> identity, p |-> m[p]]
        ELSE LET doubled == double_element(acc[j + 1], "acc", "acc")
             IN  IF Bit(j) THEN add(doubled, "acc", "acc", "p") ELSE doubled
  IN  [m EXCEPT ![h] = IF ones = {} THEN identity ELSE acc[0].acc]

-----------------------------------------------------------------------------
(* The group, by chords and tangents *)

Infinity == [x |-> Modulus, y |-> Modulus]

Chord(a, b) ==
  LET slope == IF a = b THEN (3 * a.x * a.x) \otimes invert((2 * a.y) % Modulus)
               ELSE (b.y - a.y) \otimes invert(b.x \ominus a.x)
      x == (slope * slope - a.x - b.x) % Modulus
  IN  [x |-> x, y |-> (slope * (a.x - x) - a.y) % Modulus]

GroupSum(a, b) ==
  IF a = Infinity THEN b
  ELSE IF b = Infinity THEN a
  ELSE IF a.x = b.x /\ (a.y + b.y) % Modulus = 0 THEN Infinity
  ELSE Chord(a, b)

Order == Cardinality(DOMAIN Points)

(* None but the identity is its own negative.                               *)
PointsAssumption ==
  /\ DOMAIN Points = 0 .. Order - 1 /\ Order % 2 = 1
  /\ Points[0] = Infinity
  /\ {Points[k] : k \in 1 .. Order - 1} =
       {a \in [x : Field, y : Field] : (a.y * a.y - a.x * a.x * a.x - b_v) % Modulus = 0}
  /\ \A k \in DOMAIN Points : Points[(k + 1) % Order] = GroupSum(Points[k], Points[1])
  /\ Given \subseteq DOMAIN Points
  /\ Scalars \subseteq 0 .. 2 ^ ScalarBits - 1

Affine(k) ==
  LET a == Points[k]
  IN  IF a = Infinity THEN affine_identity ELSE [X |-> a.x, Y |-> a.y, infinity |-> FALSE]

Compact(k) ==
  LET a == Points[k]
  IN  IF a = Infinity THEN compact_identity ELSE [X |-> a.x, Y |-> a.y]

-----------------------------------------------------------------------------
(* The machine *)

VARIABLES
  point,    \* the coordinates in every variable
  meant     \* the factor of the point that every variable stands for

pointVars == <<point, meant>>

PointsInit ==
  /\ point = [v \in Variables |-> identity]
  /\ meant = [v \in Variables |-> 0]

Means(h, k) == meant' = [meant EXCEPT ![h] = k % Order]

(* Generators arrive affine or compact.                                     *)
FromAffine(h, k) ==
  /\ point' = [point EXCEPT ![h] = to_element_p2(Affine(k))]
  /\ Means(h, k)

FromCompact(h, k) ==
  /\ point' = [point EXCEPT ![h] = from_compact_element(Compact(k))]
  /\ Means(h, k)

(* Nobody adds a variable to itself in place, or adds into the second       *)
(* summand.                                                                 *)
AddInplace(p, q) ==
  /\ p # q
  /\ point' = add_inplace(point, p, q)
  /\ Means(p, meant[p] + meant[q])

Add(h, p, q) ==
  /\ h # q
  /\ point' = add(point, h, p, q)
  /\ Means(h, meant[p] + meant[q])

(* Only tests call this one, and add an affine identity into a variable     *)
(* other than p.                                                            *)
AddMixed(h, p, k) ==
  /\ h = p => ~Affine(k).infinity
  /\ point' = add_mixed(point, h, p, Affine(k))
  /\ Means(h, meant[p] + k)

Double(h, p) ==
  /\ point' = double_element(point, h, p)
  /\ Means(h, 2 * meant[p])

Neg(r, p) ==
  /\ point' = neg(point, r, p)
  /\ Means(r, -meant[p])

Cneg(r, b) ==
  /\ point' = cneg(point, r, b)
  /\ Means(r, IF b THEN -meant[r] ELSE meant[r])

ScalarMultiply(h, p, q) ==
  /\ point' = scalar_multiply255(point, h, p, q)
  /\ Means(h, (q % 2 ^ (ScalarBits - 1)) * meant[p])

PointsNext ==
  \E h \in Variables :
    \/ \E k \in Given : FromAffine(h, k) \/ FromCompact(h, k)
    \/ \E b \in BOOLEAN : Cneg(h, b)
    \/ \E p \in Variables :
         \/ \E k \in Given : AddMixed(h, p, k)
         \/ \E q \in Variables : Add(h, p, q)
         \/ AddInplace(h, p)
         \/ Double(h, p)
         \/ Neg(h, p)
         \/ \E q \in Scalars : ScalarMultiply(h, p, q)

-----------------------------------------------------------------------------
(* Properties *)

(***************************************************************************)
(* However the operations follow each other, every variable holds one of   *)
(* the coordinates of the point which the group law gives, so that affine  *)
(* and compact results, operator== and is_on_curve are right. One formula  *)
(* serves sums, doubles, opposites and the identity: a sign, a factor or a *)
(* coordinate overwritten too early goes wrong for some of them, or for    *)
(* points whose Z is not one.                                              *)
(***************************************************************************)
PointsKept ==
  \A v \in Variables :
    /\ to_element_affine(point[v]) = Affine(meant[v])
    /\ to_compact_element(point[v]) = Compact(meant[v])
    /\ is_on_curve(point[v])
    /\ \A w \in Variables : Equal(point[v], point[w]) <=> meant[v] = meant[w]
===============================================================================
