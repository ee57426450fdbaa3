----------------------------- MODULE IntegerField ------------------------------
(* The prime field as integers below the modulus: what the words of         *)
(* sxt/field51 stand for. The names are those of its operations.            *)
EXTENDS Integers

CONSTANT Modulus

Field == 0 .. Modulus - 1

zero_v == 0
one_v == 1

add(f, g) == (f + g) % Modulus
sub(f, g) == (f - g) % Modulus
mul(f, g) == (f * g) % Modulus
sq(f) == mul(f, f)
sq2(f) == add(sq(f), sq(f))
mul32(f, n) == mul(f, n)
neg(f) == sub(0, f)
invert(f) == IF f = 0 THEN 0 ELSE CHOOSE g \in Field : mul(f, g) = 1

(* f to the power of (Modulus - 5) / 8                                      *)
pow22523(f) ==
  LET power[n \in 0 .. Modulus] ==
        IF n = 0 THEN 1
        ELSE IF n % 2 = 0 THEN sq(power[n \div 2]) ELSE mul(f, power[n - 1])
  IN  power[(Modulus - 5) \div 8]

equal(f, g) == f = g
is_zero(f) == f = 0
is_negative(f) == f % 2 = 1

(* The bytes of an element, as the number they spell                        *)
to_bytes(f) == f
from_bytes(s) == s % Modulus
===============================================================================
