--------------------------- MODULE RistrettoFormulas ---------------------------
(* Encodings of points of sxt/curve21 by sxt/ristretto, one for the points   *)
(* that differ by one of order four or less, and the maps from field        *)
(* elements to points, over any implementation of the field                 *)
EXTENDS Integers

CONSTANTS
  add(_, _), sub(_, _), mul(_, _), mul32(_, _), sq(_), sq2(_), neg(_), invert(_), pow22523(_),
  equal(_, _), is_zero(_), is_negative(_), to_bytes(_), from_bytes(_),
  zero_v, one_v, d_v,
  sqrtm1_v,      \* square roots of -1, of -d - 1, of one over it, and of -A - 2
  sqrtadm1_v,
  invsqrtamd,
  sqrtam2_v,
  A_32,          \* the A of the birationally equivalent curve y^2 = x^3 + A*x^2 + x
  Prime          \* the modulus

onemsqd_v == sub(one_v, sq(d_v))
sqdmone_v == sq(sub(d_v, one_v))

cneg(f, b) == IF b THEN neg(f) ELSE f

abs(f) == cneg(f, is_negative(f))

-----------------------------------------------------------------------------
(* Square roots *)

(* The root of u / v that is not negative, or that of u / v times a root of *)
(* -1 when u / v is not a square. One root is 0 if u or v is.               *)
compute_sqrt_ratio_m1(u, v) ==
  LET v3 == mul(sq(v), v)
      power == pow22523(mul(mul(sq(v3), u), v))
      x == mul(mul(power, v3), u)
      vxx == mul(sq(x), v)
      has_m_root == is_zero(sub(vxx, u))
      has_p_root == is_zero(add(vxx, u))
      has_f_root == is_zero(add(vxx, mul(u, sqrtm1_v)))
  IN  [x |-> abs(IF has_p_root \/ has_f_root THEN mul(x, sqrtm1_v) ELSE x),
       was_square |-> has_m_root \/ has_p_root]

-----------------------------------------------------------------------------
(* Encodings *)

(* Bytes are taken if they are those of a number below the modulus that is  *)
(* not negative.                                                            *)
is_canonical(s) == s < Prime /\ s % 2 = 0

encode(p) ==
  LET u1 == mul(add(p.Z, p.Y), sub(p.Z, p.Y))
      u2 == mul(p.X, p.Y)
      inv_sqrt == compute_sqrt_ratio_m1(one_v, mul(u1, sq(u2))).x
      den1 == mul(inv_sqrt, u1)
      den2 == mul(inv_sqrt, u2)
      z_inv == mul(mul(den1, den2), p.T)
      rotate == is_negative(mul(p.T, z_inv))
      x == IF rotate THEN mul(p.Y, sqrtm1_v) ELSE p.X
      y == IF rotate THEN mul(p.X, sqrtm1_v) ELSE p.Y
      den_inv == IF rotate THEN mul(den1, invsqrtamd) ELSE den2
  IN  to_bytes(abs(mul(den_inv, sub(p.Z, cneg(y, is_negative(mul(x, z_inv)))))))

(* What is not an encoding gives an error, and a point that is none, which  *)
(* the callers in sxt/ristretto do not look at.                             *)
decode(s) ==
  LET s_ == from_bytes(s)
      ss == sq(s_)
      u1 == sub(one_v, ss)
      u2 == add(one_v, ss)
      u2u2 == sq(u2)
      v == sub(neg(mul(d_v, sq(u1))), u2u2)
      root == compute_sqrt_ratio_m1(one_v, mul(v, u2u2))
      half == mul(root.x, u2)
      sx == mul(half, s_)
      X == abs(add(sx, sx))
      Y == mul(u1, mul(mul(root.x, half), v))
      T == mul(X, Y)
  IN  [point |-> [X |-> X, Y |-> Y, Z |-> one_v, T |-> T],
       valid |-> root.was_square /\ ~is_negative(T) /\ ~is_zero(Y)]

accepted(s) == is_canonical(s) /\ decode(s).valid

-----------------------------------------------------------------------------
(* Maps to points *)

apply_elligator(t) ==
  LET r == mul(sqrtm1_v, sq(t))
      u == mul(add(r, one_v), onemsqd_v)
      v == mul(sub(neg(one_v), mul(r, d_v)), add(r, d_v))
      root == compute_sqrt_ratio_m1(u, v)
      s == IF root.was_square THEN root.x ELSE neg(abs(mul(root.x, t)))
      c == IF root.was_square THEN neg(one_v) ELSE r
      n == sub(mul(mul(sub(r, one_v), c), sqdmone_v), v)
      w0 == mul(add(s, s), v)
      w1 == mul(n, sqrtadm1_v)
      ss == sq(s)
      w2 == sub(one_v, ss)
      w3 == add(one_v, ss)
  IN  [X |-> mul(w0, w3), Y |-> mul(w2, w1), Z |-> mul(w1, w3), T |-> mul(w0, w2)]

(* The map to the curve y^2 = x^3 + A*x^2 + x, where the root must exist    *)
OnMontgomery(x) ==
  LET x2 == sq(x)
  IN  add(add(mul(x, x2), x), mul32(x2, A_32))

notsquare(x) == is_zero(add(mul(sq(sq(pow22523(x))), sq(x)), one_v))

sqrt(x2) ==
  LET p_root == mul(pow22523(x2), x2)
      m_root == mul(p_root, sqrtm1_v)
      x == IF is_zero(sub(x2, sq(m_root))) THEN m_root ELSE p_root
  IN  [x |-> x, exists |-> is_zero(sub(sq(x), x2))]

curve21_elligator(r) ==
  LET x1 == neg(mul32(invert(add(sq2(r), one_v)), A_32))
      x == IF notsquare(OnMontgomery(x1)) THEN sub(neg(x1), from_bytes(A_32))
           ELSE sub(x1, zero_v)
      y == sqrt(OnMontgomery(x))
  IN  [x |-> x, y |-> y.x, exists |-> y.exists]

mont_to_ed(x, y) ==
  LET x_plus_one == add(x, one_v)
      x_plus_one_y_inv == invert(mul(x_plus_one, y))
      yed == mul(mul(x_plus_one_y_inv, y), sub(x, one_v))
  IN  [X |-> mul(mul(mul(x, sqrtam2_v), x_plus_one_y_inv), x_plus_one),
       Y |-> IF is_zero(x_plus_one_y_inv) THEN one_v ELSE yed]

(* Before the cofactor is cleared. The sign comes with the bytes.           *)
form_point(r, x_sign) ==
  LET m == curve21_elligator(from_bytes(r))
      e == mont_to_ed(m.x, m.y)
      X == cneg(e.X, is_negative(e.X) # x_sign)
  IN  [point |-> [X |-> X, Y |-> e.Y, Z |-> one_v, T |-> mul(X, e.Y)], exists |-> m.exists]
===============================================================================
