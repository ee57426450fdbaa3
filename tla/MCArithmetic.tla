----------------------------- MODULE MCArithmetic ------------------------------
(* Small instances of the fields and of the curves that multiexponentiations *)
(* compute with. A behaviour is a sequence of operations of one of them.    *)
EXTENDS Integers, Sequences

CONSTANTS
  TwoVariables,
  \* Four words of two bits. The modulus is to 2^8 what that of field25 is
  \* to 2^256. Encodings are below, at and above it.
  FieldWordBits, FieldLimbs, FieldPrime, FieldEncodings,
  \* Four limbs of two bits and one bit behind them. 2^8 is close enough to
  \* the order 263 that every step of a reduction matters. Scalars up to 511.
  ScalarLimbBits, ScalarHalf, ScalarExtraBits, ScalarBrought,
  \* y^2 = x^3 + 3 modulo 7 has 13 points. Scalars without a bit, with few,
  \* and with the uppermost.
  Bn254Modulus, Bn254Points, Bn254Given, Bn254Scalars, Bn254ScalarBits,
  \* -x^2 + y^2 = 1 + 5*x^2*y^2 modulo 13 has 12 points, a subgroup of three
  \* among them. Scalars with digits of both signs, and one too long.
  Curve21Modulus, Curve21D, Curve21Points, Curve21PrimeOrder, Curve21Given, Curve21Scalars,
  Curve21Nibbles,
  \* -x^2 + y^2 = 1 + 12*x^2*y^2 modulo 29 has 24 points: three elements of
  \* the group that is encoded, eight points for each
  RistrettoModulus, RistrettoD, RistrettoA, RistrettoPoints, RistrettoPrimeOrder,
  RistrettoGiven, RistrettoSqrtm1, RistrettoSqrtadm1, RistrettoInvsqrtamd, RistrettoSqrtam2,
  \* Three limbs of four bits, modulo 2^12 - 3, in words of 11 bits: a word
  \* has room for seven bits above a limb, and needs them
  CarriedLimbBits, CarriedLimbs, CarriedFold, CarriedWordBits, CarriedD, CarriedA,
  CarriedSqrtm1, CarriedSqrtadm1, CarriedInvsqrtamd, CarriedSqrtam2, CarriedScalars,
  CarriedHashed, CarriedCalls

VARIABLES
  arithmetic,   \* which of them, or "none" before it is chosen
  words, integers,
  scalars, residues,
  bnPoint, bnMeant,
  c21Point, c21Meant,
  rsPoint, rsMeant, rsEncoding, rsElement,
  carriedPoint, carriedExact, carriedCalls

field25Vars == <<words, integers>>
scalar25Vars == <<scalars, residues>>
bn254Vars == <<bnPoint, bnMeant>>
curve21Vars == <<c21Point, c21Meant>>
ristrettoVars == <<rsPoint, rsMeant, rsEncoding, rsElement>>
carriedVars == <<carriedPoint, carriedExact, carriedCalls>>
arithmeticVars ==
  <<arithmetic, field25Vars, scalar25Vars, bn254Vars, curve21Vars, ristrettoVars, carriedVars>>

(* The multiples of the first factors. What is no point stands first for    *)
(* the infinite one of bn254.                                               *)
ByFactor(multiples) == [k \in 0 .. Len(multiples) - 1 |-> multiples[k + 1]]

At(x, y) == [x |-> x, y |-> y]

MCBn254Points ==
  ByFactor(<<At(7, 7), At(1, 2), At(6, 3), At(2, 2), At(4, 5), At(3, 3), At(5, 3),
             At(5, 4), At(3, 4), At(4, 2), At(2, 5), At(6, 4), At(1, 5)>>)

MCCurve21Points ==
  ByFactor(<<At(0, 1), At(2, 6), At(4, 3), At(5, 0), At(4, 10), At(2, 7), At(0, 12),
             At(11, 7), At(9, 10), At(8, 0), At(9, 3), At(11, 6)>>)

MCRistrettoPoints ==
  ByFactor(<<At(0, 1), At(1, 10), At(21, 16), At(10, 25), At(18, 9), At(4, 17),
             At(12, 0), At(4, 12), At(18, 20), At(10, 4), At(21, 13), At(1, 19),
             At(0, 28), At(28, 19), At(8, 13), At(19, 4), At(11, 20), At(25, 12),
             At(17, 0), At(25, 17), At(11, 9), At(19, 25), At(8, 16), At(28, 10)>>)

(* The order 2^8 + 7 is 2^8 less a rest of 1 - 2 * 4.                       *)
MCScalarRest == <<1, -2>>

(* Numbers next to multiples of the order, and between them                 *)
MCScalarWide ==
  {0, 1, 65535} \union
  UNION {{263 * k - 1, 263 * k, 263 * k + 130} : k \in {1, 2, 3, 4, 83, 249, 256, 511, 512, 996}}

MCCarriedGiven == {[X |-> 4, Y |-> 664, T |-> 2656], [X |-> 6, Y |-> 445, T |-> 2670]}

Field25 == INSTANCE LimbField WITH
  WordBits <- FieldWordBits, Limbs <- FieldLimbs, Prime <- FieldPrime,
  Encodings <- FieldEncodings, Registers <- TwoVariables, element <- words, integer <- integers

Scalar25 == INSTANCE ScalarLimbs WITH
  LimbBits <- ScalarLimbBits, Half <- ScalarHalf, Rest <- MCScalarRest,
  ExtraBits <- ScalarExtraBits, Scalars <- {1}, Brought <- ScalarBrought,
  Wide <- MCScalarWide, scalar <- scalars, residue <- residues

Bn254 == INSTANCE WeierstrassPoints WITH
  Modulus <- Bn254Modulus, Points <- Bn254Points, Given <- Bn254Given,
  Scalars <- Bn254Scalars, ScalarBits <- Bn254ScalarBits, Variables <- TwoVariables,
  point <- bnPoint, meant <- bnMeant

Curve21 == INSTANCE EdwardsPoints WITH
  Modulus <- Curve21Modulus, D <- Curve21D, Points <- Curve21Points,
  PrimeOrder <- Curve21PrimeOrder, Given <- Curve21Given, Scalars <- Curve21Scalars,
  Nibbles <- Curve21Nibbles, Variables <- TwoVariables, point <- c21Point, meant <- c21Meant

Ristretto == INSTANCE RistrettoPoints WITH
  Modulus <- RistrettoModulus, D <- RistrettoD, Points <- RistrettoPoints,
  PrimeOrder <- RistrettoPrimeOrder, Given <- RistrettoGiven, Scalars <- Curve21Scalars,
  Nibbles <- Curve21Nibbles, Variables <- {1}, Hashed <- 0 .. RistrettoModulus - 1,
  sqrtm1_v <- RistrettoSqrtm1, sqrtadm1_v <- RistrettoSqrtadm1,
  invsqrtamd <- RistrettoInvsqrtamd, sqrtam2_v <- RistrettoSqrtam2, A_32 <- RistrettoA,
  point <- rsPoint, meant <- rsMeant, encoding <- rsEncoding, element <- rsElement

Carried == INSTANCE CarriedPoints WITH
  LimbBits <- CarriedLimbBits, Limbs <- CarriedLimbs, Fold <- CarriedFold,
  WordBits <- CarriedWordBits, D <- CarriedD, A <- CarriedA, Given <- MCCarriedGiven,
  Scalars <- CarriedScalars, Nibbles <- Curve21Nibbles, Hashed <- CarriedHashed,
  MaxCalls <- CarriedCalls, sqrtm1_v <- CarriedSqrtm1, sqrtadm1_v <- CarriedSqrtadm1,
  invsqrtamd <- CarriedInvsqrtamd, sqrtam2_v <- CarriedSqrtam2,
  point <- carriedPoint, exact <- carriedExact, calls <- carriedCalls

ASSUME MCFieldAssumption == Field25!LimbFieldAssumption
ASSUME MCScalarAssumption == Scalar25!ScalarAssumption
ASSUME MCBn254Assumption == Bn254!PointsAssumption
ASSUME MCCurve21Assumption == Curve21!PointsAssumption
ASSUME MCRistrettoAssumption == Ristretto!RistrettoAssumption
ASSUME MCCarriedAssumption == Carried!CarriedPointsAssumption

-----------------------------------------------------------------------------
(* The field of field25 and the scalars of scalar25 compute what the        *)
(* modules state: words and limbs hold what the integers are.               *)
FieldKept ==
  /\ arithmetic = "field25" => Field25!FieldKept
  /\ arithmetic = "scalar25" => Scalar25!ScalarsKept

(* Points of curve_bng1 and of curve21 are those of the addition law,       *)
(* however their coordinates came about.                                    *)
PointsKept ==
  /\ arithmetic = "bn254" => Bn254!PointsKept
  /\ arithmetic = "curve21" => Curve21!EdwardsKept

(* Elements of ristretto have one encoding each, and words of field51 that  *)
(* are not carried hold the coordinates and encodings that are exact.       *)
EncodingsKept ==
  /\ arithmetic = "ristretto" => Ristretto!EncodingsKept
  /\ arithmetic = "carried" => Carried!WordsKept

-----------------------------------------------------------------------------
ArithmeticInit ==
  /\ arithmetic = "none"
  /\ Field25!LimbInit /\ Scalar25!ScalarInit /\ Bn254!PointsInit
  /\ Curve21!EdwardsInit /\ Ristretto!RistrettoInit /\ Carried!CarriedInit

ArithmeticIdle == arithmetic = "none"

ArithmeticStep ==
  \/ /\ ArithmeticIdle
     /\ arithmetic' \in {"field25", "scalar25", "bn254", "curve21", "ristretto", "carried"}
     /\ UNCHANGED <<field25Vars, scalar25Vars, bn254Vars, curve21Vars, ristrettoVars, carriedVars>>
  \/ /\ arithmetic = "field25" /\ Field25!LimbNext
     /\ UNCHANGED <<arithmetic, scalar25Vars, bn254Vars, curve21Vars, ristrettoVars, carriedVars>>
  \/ /\ arithmetic = "scalar25" /\ Scalar25!ScalarNext
     /\ UNCHANGED <<arithmetic, field25Vars, bn254Vars, curve21Vars, ristrettoVars, carriedVars>>
  \/ /\ arithmetic = "bn254" /\ Bn254!PointsNext
     /\ UNCHANGED <<arithmetic, field25Vars, scalar25Vars, curve21Vars, ristrettoVars, carriedVars>>
  \/ /\ arithmetic = "curve21" /\ Curve21!EdwardsNext
     /\ UNCHANGED <<arithmetic, field25Vars, scalar25Vars, bn254Vars, ristrettoVars, carriedVars>>
  \/ /\ arithmetic = "ristretto" /\ Ristretto!RistrettoNext
     /\ UNCHANGED <<arithmetic, field25Vars, scalar25Vars, bn254Vars, curve21Vars, carriedVars>>
  \/ /\ arithmetic = "carried" /\ Carried!CarriedNext
     /\ UNCHANGED <<arithmetic, field25Vars, scalar25Vars, bn254Vars, curve21Vars, ristrettoVars>>
===============================================================================
