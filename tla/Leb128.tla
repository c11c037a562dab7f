------------------------------- MODULE Leb128 -------------------------------
(***************************************************************************)
(* The LEB128 decoders of kernel/buffer.c, byte by byte.  A word is the    *)
(* set of its bits that are 1.  `byte & 0b1111111` and ~0 are ints, so     *)
(* they are shifted in IntBits bits, extended with their sign, and only    *)
(* then or-ed to the result of LongBits bits.  A shift by IntBits or more  *)
(* is undefined in C; the shift instructions the compiler emits take the   *)
(* count modulo IntBits.  An encoding cut off by the end of the buffer     *)
(* reads like one that ends with a byte 0 (readbyte).                      *)
(***************************************************************************)
EXTENDS Integers, Sequences

CONSTANTS
    Group,        \* 7: the bits of a byte without its continuation bit
    IntBits,      \* 32
    LongBits,     \* 64
    Inputs        \* the encodings, each the sequence of its groups

Int0  == 0..(IntBits - 1)
Long0 == 0..(LongBits - 1)
Low   == 0..(Group - 1)

ASSUME LebAssumption ==
    /\ Group \in Nat \ {0} /\ IntBits \in Nat /\ LongBits \in Nat
    /\ Group < IntBits /\ IntBits < LongBits
    /\ Inputs \subseteq Seq(SUBSET Low) \ {<<>>}

VARIABLES
    input,        \* the number in the buffer; every byte but the last has the continuation bit
    signed,       \* readi64_LEB128, not readu64_LEB128
    cursor, result, shift,
    done          \* it has returned result

vars == <<input, signed, cursor, result, shift, done>>

Init ==
    /\ input \in Inputs
    /\ signed \in BOOLEAN
    /\ cursor = 0 /\ result = {} /\ shift = 0
    /\ done = FALSE

\* An int with the bits of x, shifted by n, as a long.
Shl(x, n) ==
    LET y == {b + (n % IntBits) : b \in x} \cap Int0
    IN IF IntBits - 1 \in y THEN y \cup IntBits..(LongBits - 1) ELSE y

\* The shift counts the continuation bit.
Bug_ReadByte(byte) ==
    /\ shift' = shift + Group + 1
    /\ result' = result \cup Shl(byte, shift)

\* The loop up to its test.
ReadByte(byte) ==
    /\ shift' = shift + Group
    /\ result' = result \cup Shl(byte, shift)

\* The last byte is taken for a negative one when it is not 0.
Bug_Negative(byte) == byte # {}

Negative(byte) == Group - 1 \in byte

NextByte ==
    /\ ~done /\ cursor + 1 < Len(input)
    /\ cursor' = cursor + 1
    /\ ReadByte(input[cursor'])
    /\ UNCHANGED <<input, signed, done>>

LastByte ==
    LET byte == input[cursor + 1]
        n == shift + Group
    IN
    /\ ~done /\ cursor + 1 = Len(input)
    /\ cursor' = cursor + 1
    /\ IF signed /\ Negative(byte)
       THEN /\ shift' = n
            /\ result' = result \cup Shl(byte, shift) \cup Shl(Int0, n)
       ELSE ReadByte(byte)
    /\ done' = TRUE
    /\ UNCHANGED <<input, signed>>

Next == NextByte \/ LastByte
Spec == Init /\ [][Next]_vars

----------------------------------------------------------------------------
(* What the decoders return, against what LEB128 means: group j holds the  *)
(* bits from Group * (j - 1) on, and the top bit of the last one is the    *)
(* sign.                                                                   *)

Number(k) == UNION {{Group * (j - 1) + b : b \in input[j]} : j \in 1..k}
Unsigned  == Number(Len(input))
Signed    == Unsigned \cup
                IF Group - 1 \in input[Len(input)] THEN (Group * Len(input))..(LongBits - 1) ELSE {}

(* readu64_LEB128 (buffer.c:64-73), which its callers cut to 32 bits, is   *)
(* right for every number of 32 bits, however long its encoding.           *)
UnsignedRight == done /\ ~signed /\ Unsigned \subseteq Int0 => result \cap Int0 = Unsigned

(* readi64_LEB128 (buffer.c:75-88) is right for encodings shorter than an  *)
(* int, and for numbers that are not negative and fit an int.              *)
SignedRight ==
    done /\ signed =>
        /\ Group * Len(input) < IntBits => result = Signed
        /\ Signed \subseteq 0..(IntBits - 2) => result = Signed

(* "LEB128" (buffer.c:63): readi64_LEB128 is right for every i32.const.    *)
ConstantsRight ==
    done /\ signed /\ (IntBits - 1)..(LongBits - 1) \subseteq Signed
        /\ Group * Len(input) < IntBits + Group
        => result = Signed
=============================================================================
