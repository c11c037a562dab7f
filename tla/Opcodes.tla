------------------------------ MODULE Opcodes ------------------------------
(***************************************************************************)
(* The opcodes of kernel/module.h, and how values are kept: a byte has     *)
(* ByteBits bits, an i32 four bytes, an i64 eight.  An i32 is a word, a    *)
(* number from 0; an i64 is its high and its low word.                     *)
(***************************************************************************)
EXTENDS Integers, Sequences

CONSTANT ByteBits

ASSUME ByteAssumption == ByteBits \in Nat \ {0}

I32 == \h7f
I64 == \h7e

Unreachable == \h00
Nop         == \h01
End         == \h0b
Return      == \h0f
Drop        == \h1a
LocalGet    == \h20
LocalSet    == \h21
GlobalGet   == \h23
GlobalSet   == \h24
I32Load     == \h28
I64Load     == \h29
I32Load8_s  == \h2c
I32Load8_u  == \h2d
I32Load16_u == \h2f
I32Store    == \h36
I64Store    == \h37
I32Store8   == \h3a
I32Const    == \h41
I64Const    == \h42
I32Eqz      == \h45
I32Eq       == \h46
I32Ne       == \h47
I32Lt_s     == \h48
I32Gt_s     == \h4a
I32Gt_u     == \h4b
I32Ge_s     == \h4e
I32Add      == \h6a
I32Sub      == \h6b
I32Mul      == \h6c
I32Div_s    == \h6d
I32Rem_s    == \h6f
I32And      == \h71
I32Or       == \h72
I32Xor      == \h73
I32Shl      == \h74
I32Shr_s    == \h75

Loads     == {I32Load, I64Load, I32Load8_s, I32Load8_u, I32Load16_u}
Stores    == {I32Store, I64Store, I32Store8}
Indexed   == {LocalGet, LocalSet, GlobalGet, GlobalSet}
Consts    == {I32Const, I64Const}
Divisions == {I32Div_s, I32Rem_s}
Binaries  == {I32Eq, I32Ne, I32Lt_s, I32Gt_s, I32Gt_u, I32Ge_s, I32Add, I32Sub, I32Mul,
              I32And, I32Or, I32Xor, I32Shl, I32Shr_s} \cup Divisions

\* block, loop, if, br, br_if, br_table and call, which have instructions, labels or a function.
Control == {\h02, \h03, \h04, \h0c, \h0d, \h0e, \h10}

\* The others the parser has a case for.
Known == Loads \cup Stores \cup Indexed \cup Consts \cup Binaries
         \cup {I32Eqz, Drop, End, Unreachable, Nop, Return}

----------------------------------------------------------------------------
Base  == 2^ByteBits
Width == 4 * ByteBits
Limit == 2^Width

Word(n)  == n % Limit
Words(n) == <<(n \div Limit) % Limit, n % Limit>>
Int32(n) == IF Word(n) < Limit \div 2 THEN Word(n) ELSE Word(n) - Limit
Int8(b)  == IF b < Base \div 2 THEN b ELSE b - Base
Least    == -(Limit \div 2)

\* What the k-th byte counts, the n low bytes of a word, little endian, and the number bytes s make.
Weight(k)   == 2^(ByteBits * (k - 1))
Bytes(w, n) == [k \in 1..n |-> (w \div Weight(k)) % Base]
Number(s) ==
    LET upTo[k \in 0..Len(s)] == IF k = 0 THEN 0 ELSE upTo[k - 1] + s[k] * Weight(k) IN upTo[Len(s)]

\* The bits of an int that are set, and the number that has the bits s.
Ones(n) == {k \in 0..(Width - 1) : (n \div 2^k) % 2 = 1}
Mask(s) ==
    LET upTo[k \in 0..Width] == IF k = 0 THEN 0 ELSE upTo[k - 1] + (IF k - 1 \in s THEN 2^(k - 1) ELSE 0) IN upTo[Width]

\* Division that rounds toward 0.
Abs(n) == IF n < 0 THEN -n ELSE n
Quotient(a, b) == IF (a < 0) = (b < 0) THEN Abs(a) \div Abs(b) ELSE -(Abs(a) \div Abs(b))
=============================================================================
