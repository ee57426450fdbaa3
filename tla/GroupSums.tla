------------------------------ MODULE GroupSums -------------------------------
(***************************************************************************)
(* Elements of a group as formal sums of generators: the function of the   *)
(* coefficients.  Nothing relates two generators, so two sums are equal    *)
(* only if they are equal in every group with any generators.  Memory that *)
(* nothing has written to holds the extra generator Junk.                  *)
(*                                                                         *)
(* The curves of sxt/curve21, curve_g1, curve_bng1 and curve_gk enter      *)
(* through what the concept bascrv::element asks of them (base/curve/      *)
(* element.h): identity, add, add_inplace, double_element and neg.         *)
(***************************************************************************)
EXTENDS Integers, Functions

CONSTANTS
  NumGens,  \* the generators are 0 .. NumGens - 1
  ByteBits  \* bits of a byte of the scalars (8 in the code)

ASSUME GroupAssumption == NumGens \in Nat /\ ByteBits \in Nat \ {0}

(* The sum of value(x), an integer, for x in the finite set S *)
Total(S, value(_)) == SumFunction([x \in S |-> value(x)])

Junk == -1

Zero == [g \in Junk .. NumGens - 1 |-> 0]

Generator(g) == [Zero EXCEPT ![g] = 1]

Uninitialized == Generator(Junk)

Plus(x, y) == [g \in DOMAIN x |-> x[g] + y[g]]

Twice(x) == [g \in DOMAIN x |-> 2 * x[g]]

Minus(x) == [g \in DOMAIN x |-> -x[g]]

(* The sum of term(i) for i from first to last, an empty sum is Zero *)
SumFrom(first, last, term(_)) ==
  FoldFunction(Plus, Zero, [i \in first .. last |-> term(i)])

(* The sum of weight(g) times the generator g *)
Weighted(weight(_)) == [g \in DOMAIN Zero |-> IF g = Junk THEN 0 ELSE weight(g)]

(* 2^(last-first) x[last] + ... + x[first]: from the top, double and add *)
Horner(x, first, last) ==
  LET from[i \in first .. last] ==
        IF i = last THEN x[i] ELSE Plus(Twice(from[i + 1]), x[i])
  IN  from[first]

===============================================================================
