----------------------------- MODULE EdwardsPoints -----------------------------
(* The points of sxt/curve21, whose formulas compute with integers here. A  *)
(* machine whose variables hold points calls the operations in any order.   *)
EXTENDS IntegerField, FiniteSets

CONSTANTS
  D,           \* the d of the curve, not a square
  Points,      \* all points [x, y]: the multiples of one, by their factor
  PrimeOrder,  \* the order of the subgroup that scalars are reduced for
  Variables,   \* variables that hold points
  Given,       \* factors of the points that callers bring
  Scalars,     \* what callers multiply with
  Nibbles      \* digits of four bits in a scalar; 64 in the code

INSTANCE EdwardsFormulas WITH d_v <- D

-----------------------------------------------------------------------------
(* Scalars *)

(* The last digit has to be below 8.                                        *)
TooLong(a) == a >= 8 * 16 ^ (Nibbles - 1)

fill_exponent(a) == IF TooLong(a) THEN a % PrimeOrder ELSE a

-----------------------------------------------------------------------------
(* The group *)

(* The addition law of the curve                                            *)
GroupSum(a, b) ==
  LET xy == mul(a.x, b.y)
      yx == mul(a.y, b.x)
      w == mul(D, mul(xy, yx))
  IN  [x |-> mul(add(xy, yx), invert(add(1, w))),
       y |-> mul(add(mul(a.y, b.y), mul(a.x, b.x)), invert(sub(1, w)))]

Order == Cardinality(DOMAIN Points)

PointsAssumption ==
  /\ \A f \in Field : sq(f) # D
  /\ DOMAIN Points = 0 .. Order - 1
  /\ {Points[k] : k \in DOMAIN Points} =
       {a \in [x : Field, y : Field] :
          (a.y * a.y - a.x * a.x - 1 - D * a.x * a.x * a.y * a.y) % Modulus = 0}
  /\ \A k \in DOMAIN Points : Points[(k + 1) % Order] = GroupSum(Points[k], Points[1])
  /\ Order % PrimeOrder = 0
  /\ Given \subseteq DOMAIN Points
  /\ Scalars \subseteq 0 .. 16 ^ Nibbles - 1

Compact(k) ==
  LET a == Points[k]
  IN  [X |-> a.x, Y |-> a.y, T |-> mul(a.x, a.y)]

-----------------------------------------------------------------------------
(* The machine *)

VARIABLES
  point,    \* the coordinates in every variable
  meant     \* the factor of the point that it stands for, or Spoiled

edwardsVars == <<point, meant>>

Spoiled == -1
NoPoint == [X |-> 0, Y |-> 0, Z |-> 0, T |-> 0]
Usable(v) == meant[v] # Spoiled

EdwardsInit ==
  /\ point = [v \in Variables |-> identity]
  /\ meant = [v \in Variables |-> 0]

Assign(h, p, k) ==
  /\ point' = [point EXCEPT ![h] = p]
  /\ meant' = [meant EXCEPT ![h] = k % Order]

FromCompact(h, k) == Assign(h, from_compact_element(Compact(k)), k)

Add(h, p, q) ==
  /\ Usable(p) /\ Usable(q)
  /\ Assign(h, Sum(point[p], point[q]), meant[p] + meant[q])

(* The caller gives up the second summand.                                  *)
AddInplace(p, q) ==
  /\ Usable(p) /\ Usable(q) /\ p # q
  /\ point' = [point EXCEPT ![p] = InplaceSum(point[p], point[q]), ![q] = NoPoint]
  /\ meant' = [meant EXCEPT ![p] = (meant[p] + meant[q]) % Order, ![q] = Spoiled]

Double(h, p) == Usable(p) /\ Assign(h, Twice(point[p]), 2 * meant[p])

Neg(r, p) == Usable(p) /\ Assign(r, Opposite(point[p]), -meant[p])

Cneg(r, b) ==
  /\ Usable(r)
  /\ IF b THEN Assign(r, Opposite(point[r]), -meant[r]) ELSE UNCHANGED edwardsVars

(* A reduced scalar gives another point, unless p is of prime order: the    *)
(* difference is of an order that a ristretto encoding does not show.       *)
ScalarMultiply(h, p, a) ==
  /\ Usable(p)
  /\ TooLong(a) => (PrimeOrder * meant[p]) % Order = 0
  /\ Assign(h, scalar_multiply255(point[p], fill_exponent(a), Nibbles), a * meant[p])

EdwardsNext ==
  \E h \in Variables :
    \/ \E k \in Given : FromCompact(h, k)
    \/ \E b \in BOOLEAN : Cneg(h, b)
    \/ \E p \in Variables :
         \/ \E q \in Variables : Add(h, p, q)
         \/ AddInplace(h, p)
         \/ Double(h, p)
         \/ Neg(h, p)
         \/ \E a \in Scalars : ScalarMultiply(h, p, a)

-----------------------------------------------------------------------------
(* Properties *)

(***************************************************************************)
(* However the operations follow each other, every variable that was not   *)
(* given up holds coordinates of the point which the addition law gives,   *)
(* with a T that agrees with them: the next addition multiplies it, while  *)
(* doublings, operator== and the conversions do not look at it, so that a  *)
(* wrong one is only seen one operation later.                             *)
(***************************************************************************)
EdwardsKept ==
  \A v \in Variables :
    Usable(v) =>
      /\ point[v].Z # 0
      /\ to_compact_element(point[v]) = Compact(meant[v])
      /\ mul(point[v].T, point[v].Z) = mul(point[v].X, point[v].Y)
      /\ \A w \in Variables :
           Usable(w) => (Equal(point[v], point[w]) <=> meant[v] = meant[w])
===============================================================================
