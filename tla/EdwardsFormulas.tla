---------------------------- MODULE EdwardsFormulas ----------------------------
(* The formulas of sxt/curve21, for points of -x^2 + y^2 = 1 + d*x^2*y^2 in  *)
(* extended coordinates with x = X/Z, y = Y/Z and x*y = T/Z, over any        *)
(* implementation of the field                                              *)
EXTENDS Integers

CONSTANTS
  add(_, _), sub(_, _), mul(_, _), sq(_), sq2(_), neg(_), invert(_), equal(_, _),
  zero_v, one_v, d_v

-----------------------------------------------------------------------------
(* Forms of a point. In the completed one x = X/Z and y = Y/T.              *)

identity == [X |-> zero_v, Y |-> one_v, Z |-> one_v, T |-> zero_v]
identity_cached == [YplusX |-> one_v, YminusX |-> one_v, Z |-> one_v, T2d |-> zero_v]

d2_v == add(d_v, d_v)

to_element_cached(p) ==
  [YplusX |-> add(p.Y, p.X), YminusX |-> sub(p.Y, p.X), Z |-> p.Z, T2d |-> mul(p.T, d2_v)]

(* What has no T is to be doubled.                                          *)
to_element_p2(p) == [X |-> mul(p.X, p.T), Y |-> mul(p.Y, p.Z), Z |-> mul(p.Z, p.T)]

to_element_p3(p) ==
  [X |-> mul(p.X, p.T), Y |-> mul(p.Y, p.Z), Z |-> mul(p.Z, p.T), T |-> mul(p.X, p.Y)]

to_compact_element(p) ==
  LET Z_inv == invert(p.Z)
      Xp == mul(p.X, Z_inv)
      Yp == mul(p.Y, Z_inv)
  IN  [X |-> Xp, Y |-> Yp, T |-> mul(Xp, Yp)]

from_compact_element(e) == [X |-> e.X, Y |-> e.Y, Z |-> one_v, T |-> e.T]

Equal(lhs, rhs) ==
  /\ equal(mul(lhs.X, rhs.Z), mul(rhs.X, lhs.Z))
  /\ equal(mul(lhs.Y, rhs.Z), mul(rhs.Y, lhs.Z))

-----------------------------------------------------------------------------
(* Sums, doubles and opposites *)

add_p1p1(p, q) ==
  LET plus == mul(add(p.Y, p.X), q.YplusX)
      minus == mul(sub(p.Y, p.X), q.YminusX)
      t == mul(q.T2d, p.T)
      zz == mul(p.Z, q.Z)
      t0 == add(zz, zz)
  IN  [X |-> sub(plus, minus), Y |-> add(plus, minus), Z |-> add(t0, t), T |-> sub(t0, t)]

double_p1p1(p) ==
  LET xx == sq(p.X)
      yy == sq(p.Y)
      sum == add(yy, xx)
      difference == sub(yy, xx)
  IN  [X |-> sub(sq(add(p.X, p.Y)), sum), Y |-> sum, Z |-> difference,
       T |-> sub(sq2(p.Z), difference)]

Sum(p, q) == to_element_p3(add_p1p1(p, to_element_cached(q)))
Twice(p) == to_element_p3(double_p1p1(p))

Opposite(p) == [p EXCEPT !.X = neg(@), !.T = neg(@)]

(* The sum in place works out Y - X as 2 * Y - (Y + X), as it has stored    *)
(* Y + X over X. It uses up q, where it leaves no point.                    *)
InplaceSum(p, q) ==
  LET qx == add(q.Y, q.X)
      qy == sub(add(q.Y, q.Y), qx)
      qt == mul(q.T, d2_v)
      px == add(p.Y, p.X)
      minus == mul(sub(add(p.Y, p.Y), px), qy)
      t == mul(qt, p.T)
      plus == mul(px, qx)
      zz == mul(p.Z, q.Z)
      t0 == add(zz, zz)
  IN  to_element_p3([X |-> sub(plus, minus), Y |-> add(plus, minus),
                     Z |-> add(t0, t), T |-> sub(t0, t)])

(* Three doublings, of which only the last computes a T                     *)
Double3(p) == double_p1p1(to_element_p2(double_p1p1(to_element_p2(double_p1p1(p)))))

clear_cofactor(p3) == to_element_p3(Double3(p3))

-----------------------------------------------------------------------------
(* Scalar multiplication, with a number of nibbles; 64 in the code          *)

(* The digits from -8 to 8 whose sum, times powers of 16, is a; the first   *)
(* is digit 0. All but the last pass on a carry of 0 or 1.                  *)
SignedDigits(a, nibbles) ==
  LET nibble(i) == (a \div 16 ^ i) % 16
      carry[i \in 0 .. nibbles - 1] ==
        IF i = 0 THEN 0 ELSE (nibble(i - 1) + carry[i - 1] + 8) \div 16
  IN  [i \in 0 .. nibbles - 1 |->
         nibble(i) + carry[i] - IF i = nibbles - 1 THEN 0 ELSE 16 * carry[i + 1]]

(* p, 2p, ..., 8p                                                           *)
Multiples(p) ==
  LET pi[k \in 1 .. 8] ==
        IF k = 1 THEN p
        ELSE IF k % 2 = 0 THEN Twice(pi[k \div 2]) ELSE Sum(p, pi[k - 1])
  IN  pi

cmov8(pi, b) ==
  LET t == IF b = 0 THEN identity_cached
           ELSE to_element_cached(pi[IF b < 0 THEN -b ELSE b])
  IN  IF b < 0
      THEN [t EXCEPT !.YplusX = t.YminusX, !.YminusX = t.YplusX, !.T2d = neg(@)]
      ELSE t

scalar_multiply255(p, a, nibbles) ==
  LET pi == Multiples(p)
      e == SignedDigits(a, nibbles)
      h[i \in 0 .. nibbles] ==
        IF i = nibbles THEN identity
        ELSE LET r == add_p1p1(h[i + 1], cmov8(pi, e[i]))
             IN  IF i = 0 THEN to_element_p3(r)
                 ELSE to_element_p3(double_p1p1(to_element_p2(Double3(to_element_p2(r)))))
  IN  h[0]
===============================================================================
