------------------------------ MODULE BitProducts ------------------------------
(***************************************************************************)
(* The general multiexponentiation of sxt/multiexp/curve on the GPU, for   *)
(* exponents of any size, signed or not.  The exponents of a chunk are     *)
(* decomposed into the generators of every bit, whose sums are the bit's   *)
(* product.  Only the products of bits that some exponent has are kept: a  *)
(* sequence of products goes with the set of its bits, the or of all       *)
(* exponents.                                                              *)
(***************************************************************************)
EXTENDS IndexRange, GroupSums, Sequences, FiniteSetsExt

CONSTANT
  CountBlocks  \* most blocks of count_exponent_bits (128 in the code)

ASSUME BitAssumption == CountBlocks \in Nat \ {0}

(* An exponent sequence has n elements of element_nbytes bytes each, the   *)
(* lowest byte first, in data                                              *)
ExponentSequences ==
  [n : 0 .. NumGens, element_nbytes : Nat \ {0}, is_signed : BOOLEAN,
   data : Seq(0 .. PowerOf2(ByteBits) - 1)]

NumBits(exponents) == ByteBits * exponents.element_nbytes

Unsigned(exponents, i) ==
  Total(0 .. exponents.element_nbytes - 1,
        LAMBDA k : exponents.data[i * exponents.element_nbytes + k + 1] * PowerOf2(ByteBits * k))

IsNegative(exponents, i) ==
  exponents.is_signed /\ Unsigned(exponents, i) >= PowerOf2(NumBits(exponents) - 1)

(* abs_to_unsigned: the lowest number is its own absolute value *)
AbsToUnsigned(exponents, i) ==
  IF IsNegative(exponents, i) THEN PowerOf2(NumBits(exponents)) - Unsigned(exponents, i)
  ELSE Unsigned(exponents, i)

HasBit(exponents, i, bit) == (AbsToUnsigned(exponents, i) \div PowerOf2(bit)) % 2 = 1

-----------------------------------------------------------------------------
(* compute_multiproduct_decomposition *)

(* The blocks of count_exponent_bits, as many as are not empty *)
NumCountBlocks(n) ==
  LET iterations == DivideUp(n, AtMost(CountBlocks, n)) IN DivideUp(n, iterations)

(* The elements first .. first + n - 1 of the sequence that a block of     *)
(* count_kernel and decomposition_kernel passes over and that have the bit *)
BlockMembers(exponents, first, n, block, bit) ==
  LET k == DivideUp(n, NumCountBlocks(n))
  IN  {i \in k * block .. AtMost(n, k * block + k) - 1 : HasBit(exponents, first + i, bit)}

(* The sum of the counts of the blocks before (bit, block), the bits       *)
(* one after the other                                                     *)
Offset(exponents, first, n, block, bit) ==
  LET Blocks == 0 .. NumCountBlocks(n) - 1
      Before == {p \in (0 .. NumBits(exponents) - 1) \X Blocks :
                   p[1] < bit \/ (p[1] = bit /\ p[2] < block)}
  IN  Total(Before, LAMBDA p : Cardinality(BlockMembers(exponents, first, n, p[2], p[1])))

ProductSize(exponents, first, n, bit) ==
  Total(0 .. NumCountBlocks(n) - 1,
        LAMBDA block : Cardinality(BlockMembers(exponents, first, n, block, bit)))

(* decompose_exponent_bits: every block writes its members from its        *)
(* offset on, with the sign of the exponent                                *)
Indexes(exponents, first, n) ==
  LET Bits == 0 .. NumBits(exponents) - 1
      Blocks == 0 .. NumCountBlocks(n) - 1
      Written == UNION {UNION {
        LET members == BlockMembers(exponents, first, n, block, bit)
            at == Offset(exponents, first, n, block, bit)
        IN  {[at |-> at + Cardinality({j \in members : j < i}),
              index |-> i, is_neg |-> IsNegative(exponents, first + i)] : i \in members}
        : block \in Blocks} : bit \in Bits}
  IN  [at \in {w.at : w \in Written} |-> CHOOSE w \in Written : w.at = at]

(* async_compute_multiexponentiation_impl without its last step: the bits  *)
(* that occur, or_all_p, and their products, of the slices of the indexes  *)
(* one after the other                                                     *)
ChunkBits(exponents, first, n) ==
  {bit \in 0 .. NumBits(exponents) - 1 : ProductSize(exponents, first, n, bit) > 0}

ChunkBitProducts(exponents, first, n) ==
  LET or_all_p == ChunkBits(exponents, first, n)
      indexes == Indexes(exponents, first, n)
      BitAt(p) == CHOOSE b \in or_all_p : Cardinality({c \in or_all_p : c < b}) = p - 1
      IndexFirst(p) == Total(1 .. p - 1, LAMBDA q : ProductSize(exponents, first, n, BitAt(q)))
      Mapped(at) == LET g == Generator(first + indexes[at].index)
                    IN  IF indexes[at].is_neg THEN Minus(g) ELSE g
  IN  [p \in 1 .. Cardinality(or_all_p) |->
         SumFrom(IndexFirst(p),
                 IndexFirst(p) + ProductSize(exponents, first, n, BitAt(p)) - 1, Mapped)]

-----------------------------------------------------------------------------
(* Products with the sets of their bits *)

(* The product of a bit of or_all, at its place among them *)
ProductOf(or_all, products, bit) == products[Cardinality({b \in or_all : b <= bit})]

(***************************************************************************)
(* Definitions named Bug... are slips one could make in the definition     *)
(* that follows them.  No specification uses them; they show that the      *)
(* properties of AsyncMultiexp would notice.                               *)
(***************************************************************************)
BugFirstComeFirstKept(or_all, products, or_all_p, products_p) ==
  LET or_all_pp == or_all \union or_all_p
      Folded(bit) == IF bit \in or_all THEN ProductOf(or_all, products, bit)
                     ELSE ProductOf(or_all_p, products_p, bit)
  IN  [p \in 1 .. Cardinality(or_all_pp) |->
         Folded(CHOOSE bit \in or_all_pp :
                  Cardinality({b \in or_all_pp : b <= bit}) = p)]

(* fold_multiproducts: the products of both, added where both have the bit *)
FoldMultiproducts(or_all, products, or_all_p, products_p) ==
  LET or_all_pp == or_all \union or_all_p
      Folded(bit) ==
        IF bit \in or_all \intersect or_all_p
        THEN Plus(ProductOf(or_all, products, bit), ProductOf(or_all_p, products_p, bit))
        ELSE IF bit \in or_all THEN ProductOf(or_all, products, bit)
        ELSE ProductOf(or_all_p, products_p, bit)
  IN  [p \in 1 .. Cardinality(or_all_pp) |->
         Folded(CHOOSE bit \in or_all_pp :
                  Cardinality({b \in or_all_pp : b <= bit}) = p)]

(* combine_multiproducts for one output, with doubling_reduce: from the    *)
(* highest bit that occurs down                                            *)
CombineMultiproducts(or_all, products) ==
  IF or_all = {} THEN Zero
  ELSE LET top == Max(or_all)
           from[bit \in 0 .. top] ==
             IF bit = top THEN products[Len(products)]
             ELSE IF bit \in or_all
             THEN Plus(Twice(from[bit + 1]), ProductOf(or_all, products, bit))
             ELSE Twice(from[bit + 1])
       IN  from[0]

(* What a multiexponentiation of an exponent sequence is *)
ExponentSum(exponents) ==
  Weighted(LAMBDA g :
    IF g >= exponents.n THEN 0
    ELSE IF IsNegative(exponents, g) THEN - AbsToUnsigned(exponents, g)
    ELSE AbsToUnsigned(exponents, g))

===============================================================================
