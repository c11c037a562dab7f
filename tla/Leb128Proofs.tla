---------------------------- MODULE Leb128Proofs ----------------------------
(***************************************************************************)
(* The decoders of kernel/buffer.c for every width of groups, ints and     *)
(* longs, and encodings of any length.  While no sign has been extended    *)
(* the result is the number read so far, as far as that fits an int.       *)
(***************************************************************************)
EXTENDS Leb128, TLAPS

TypeInv ==
    /\ input \in Inputs
    /\ signed \in BOOLEAN
    /\ done \in BOOLEAN
    /\ cursor \in 0..Len(input)
    /\ shift = Group * cursor
    /\ done <=> cursor = Len(input)

\* No sign was extended.
NotExtended == ~done \/ ~signed \/ ~Negative(input[Len(input)])

Exact ==
    NotExtended /\ Number(cursor) \subseteq 0..(IntBits - 2) => result = Number(cursor)

LowBits ==
    NotExtended /\ Number(cursor) \subseteq Int0 => result \cap Int0 = Number(cursor)

Extended ==
    ~NotExtended /\ Group * Len(input) < IntBits => result = Signed

IInv == TypeInv /\ Exact /\ LowBits /\ Extended

----------------------------------------------------------------------------
Moved(x, n) == {b + n : b \in x}

(* A shift by less than an int is one by that many bits.                   *)
LEMMA ModLemma ==
    ASSUME NEW n \in Nat, n < IntBits
    PROVE  n % IntBits = n
  BY LebAssumption

(* What a group adds to the number read so far.                            *)
LEMMA NumberStep ==
    ASSUME input \in Inputs, NEW k \in Nat, k + 1 <= Len(input)
    PROVE  Number(k + 1) = Number(k) \cup Moved(input[k + 1], Group * k)
<1>1. input \in Seq(SUBSET Low)
  BY LebAssumption
<1>2. 1..(k + 1) = (1..k) \cup {k + 1}
  BY SMT
<1>3. Group * ((k + 1) - 1) = Group * k
  BY LebAssumption
<1>4. {Group * ((k + 1) - 1) + b : b \in input[k + 1]} = Moved(input[k + 1], Group * k)
  <2>1. input[k + 1] \subseteq Int
    BY <1>1, LebAssumption DEF Low
  <2>2. Group * k \in Int
    BY LebAssumption
  <2>. QED BY <1>3, <2>1, <2>2 DEF Moved
<1>. QED BY <1>2, <1>4 DEF Number

(* The bits of the first k groups are below Group * k.                     *)
LEMMA NumberBound ==
    ASSUME input \in Inputs, NEW k \in 0..Len(input)
    PROVE  Number(k) \subseteq 0..(Group * k - 1)
<1>1. input \in Seq(SUBSET Low)
  BY LebAssumption
<1>2. SUFFICES ASSUME NEW j \in 1..k, NEW b \in input[j]
               PROVE  Group * (j - 1) + b \in 0..(Group * k - 1)
  BY DEF Number
<1>3. b \in 0..(Group - 1)
  BY <1>1 DEF Low
<1>4. Group * (j - 1) >= 0 /\ Group * (j - 1) + Group = Group * j /\ Group * j <= Group * k
      /\ Group * (j - 1) \in Int /\ Group * k \in Int
  <2>1. Group * (k - j) >= 0 /\ Group * (k - j) = Group * k - Group * j
    BY LebAssumption
  <2>. QED BY <2>1, LebAssumption
<1>. QED BY <1>3, <1>4, LebAssumption

(* A shifted group that fits an int without its sign keeps all its bits.   *)
LEMMA ShlExact ==
    ASSUME NEW x \in SUBSET Nat, NEW n \in Nat, Moved(x, n) \subseteq 0..(IntBits - 2)
    PROVE  Shl(x, n) = Moved(x, n)
<1>1. CASE x = {}
  BY <1>1, LebAssumption DEF Shl, Moved, Int0
<1>2. CASE x # {}
  <2>1. n % IntBits = n
    <3>1. PICK b \in x : TRUE
      BY <1>2
    <3>2. b + n \in 0..(IntBits - 2)
      BY DEF Moved
    <3>. QED BY <3>2, ModLemma, LebAssumption
  <2>2. Moved(x, n) \cap Int0 = Moved(x, n) /\ IntBits - 1 \notin Moved(x, n)
    BY LebAssumption DEF Int0
  <2>. QED BY <2>1, <2>2 DEF Shl, Moved
<1>. QED BY <1>1, <1>2

(* With its sign, as far as the int reaches.                               *)
LEMMA ShlLow ==
    ASSUME NEW x \in SUBSET Nat, NEW n \in Nat, Moved(x, n) \subseteq Int0
    PROVE  Shl(x, n) \cap Int0 = Moved(x, n)
<1>1. CASE x = {}
  BY <1>1, LebAssumption DEF Shl, Moved, Int0
<1>2. CASE x # {}
  <2>1. n % IntBits = n
    <3>1. PICK b \in x : TRUE
      BY <1>2
    <3>2. b + n \in 0..(IntBits - 1)
      BY DEF Moved, Int0
    <3>. QED BY <3>2, ModLemma, LebAssumption
  <2>2. Moved(x, n) \cap Int0 = Moved(x, n)
    OBVIOUS
  <2>3. (IntBits..(LongBits - 1)) \cap Int0 = {}
    BY LebAssumption DEF Int0
  <2>. QED BY <2>1, <2>2, <2>3 DEF Shl, Moved
<1>. QED BY <1>1, <1>2

(* ~0 shifted by less than an int is every bit from there on.              *)
LEMMA ShlOnes ==
    ASSUME NEW n \in Nat, n < IntBits
    PROVE  Shl(Int0, n) = n..(LongBits - 1)
<1>1. n % IntBits = n
  BY ModLemma
<1>2. {b + n : b \in Int0} \cap Int0 = n..(IntBits - 1)
  <2>1. ASSUME NEW c \in n..(IntBits - 1)
        PROVE  c \in {b + n : b \in Int0}
    <3>1. c - n \in Int0 /\ c = (c - n) + n
      BY LebAssumption DEF Int0
    <3>. QED BY <3>1
  <2>. QED BY <2>1, LebAssumption DEF Int0
<1>3. IntBits - 1 \in n..(IntBits - 1)
  BY LebAssumption
<1>4. (n..(IntBits - 1)) \cup IntBits..(LongBits - 1) = n..(LongBits - 1)
  BY LebAssumption
<1>. QED BY <1>1, <1>2, <1>3, <1>4 DEF Shl

(* Reading a group keeps the result the number read so far.                *)
LEMMA ReadLemma ==
    ASSUME TypeInv, cursor < Len(input), Exact, LowBits, NotExtended,
           NEW r, r = result \cup Shl(input[cursor + 1], shift)
    PROVE  /\ Number(cursor + 1) \subseteq 0..(IntBits - 2) => r = Number(cursor + 1)
           /\ Number(cursor + 1) \subseteq Int0 => r \cap Int0 = Number(cursor + 1)
<1>. DEFINE byte == input[cursor + 1]
<1>1. byte \in SUBSET Nat /\ cursor \in Nat /\ shift \in Nat /\ shift = Group * cursor
  <2>1. input \in Seq(SUBSET Low)
    BY LebAssumption DEF TypeInv
  <2>2. cursor \in Nat /\ cursor + 1 \in 1..Len(input)
    BY <2>1 DEF TypeInv
  <2>. QED BY <2>1, <2>2, LebAssumption DEF TypeInv, Low
<1>2. Number(cursor + 1) = Number(cursor) \cup Moved(byte, shift)
  BY <1>1, NumberStep, LebAssumption DEF TypeInv
<1>3. ASSUME Number(cursor + 1) \subseteq 0..(IntBits - 2)
      PROVE  r = Number(cursor + 1)
  BY <1>1, <1>2, <1>3, ShlExact DEF Exact
<1>4. ASSUME Number(cursor + 1) \subseteq Int0
      PROVE  r \cap Int0 = Number(cursor + 1)
  BY <1>1, <1>2, <1>4, ShlLow DEF LowBits
<1>. QED BY <1>3, <1>4

----------------------------------------------------------------------------
(* The invariant holds before the first byte.                              *)
THEOREM InitInv == Init => IInv
<1>. SUFFICES ASSUME Init PROVE IInv
  OBVIOUS
<1>1. input \in Seq(SUBSET Low) /\ input # <<>>
  BY LebAssumption DEF Init
<1>2. Len(input) \in Nat \ {0}
  BY <1>1
<1>3. Group * 0 = 0
  BY LebAssumption
<1>4. TypeInv
  <2>1. cursor \in 0..Len(input) /\ (done <=> cursor = Len(input))
    BY <1>2 DEF Init
  <2>. QED BY <1>3, <2>1 DEF Init, TypeInv
<1>5. Number(0) = {}
  BY DEF Number
<1>. QED BY <1>4, <1>5 DEF Init, IInv, Exact, LowBits, Extended, NotExtended

(* A byte with the continuation bit.                                       *)
LEMMA NextByteInv == IInv /\ NextByte => IInv'
<1>. SUFFICES ASSUME IInv, NextByte PROVE IInv'
  OBVIOUS
<1>1. cursor + 1 < Len(input) /\ cursor \in Nat /\ Len(input) \in Nat
  <2>1. input \in Seq(SUBSET Low)
    BY LebAssumption DEF IInv, TypeInv
  <2>. QED BY <2>1 DEF NextByte, IInv, TypeInv
<1>2. /\ UNCHANGED <<input, signed, done>> /\ ~done
      /\ cursor' = cursor + 1 /\ shift' = shift + Group
      /\ result' = result \cup Shl(input[cursor + 1], shift)
  BY DEF NextByte, ReadByte
<1>3. TypeInv'
  <2>1. Group * (cursor + 1) = Group * cursor + Group
    BY <1>1, LebAssumption
  <2>2. cursor' \in 0..Len(input') /\ (done' <=> cursor' = Len(input'))
    BY <1>1, <1>2
  <2>. QED BY <1>2, <2>1, <2>2 DEF IInv, TypeInv
<1>4. /\ Number(cursor + 1) \subseteq 0..(IntBits - 2) => result' = Number(cursor + 1)
      /\ Number(cursor + 1) \subseteq Int0 => result' \cap Int0 = Number(cursor + 1)
  BY <1>1, <1>2, ReadLemma DEF IInv, NotExtended
<1>5. Number(cursor)' = Number(cursor + 1)
  BY <1>2 DEF Number
<1>6. Exact' /\ LowBits'
  BY <1>4, <1>5 DEF Exact, LowBits
<1>7. Extended'
  BY <1>2 DEF Extended, NotExtended
<1>. QED BY <1>3, <1>6, <1>7 DEF IInv

(* The byte without it, and the sign.                                      *)
LEMMA LastByteInv == IInv /\ LastByte => IInv'
<1>. SUFFICES ASSUME IInv, LastByte PROVE IInv'
  OBVIOUS
<1>. DEFINE byte == input[cursor + 1]
            n    == shift + Group
<1>1. input \in Seq(SUBSET Low) /\ cursor \in Nat /\ cursor + 1 = Len(input) /\ Len(input) \in Nat
  <2>1. input \in Seq(SUBSET Low)
    BY LebAssumption DEF IInv, TypeInv
  <2>. QED BY <2>1 DEF LastByte, IInv, TypeInv
<1>2. UNCHANGED <<input, signed>> /\ ~done /\ done' /\ done' = TRUE /\ cursor' = cursor + 1
  BY DEF LastByte
<1>3. shift' = n /\ n = Group * Len(input) /\ n \in Nat
  <2>1. shift' = n
    BY DEF LastByte, ReadByte
  <2>2. Group * (cursor + 1) = Group * cursor + Group /\ Group * (cursor + 1) \in Nat
    BY <1>1, LebAssumption
  <2>. QED BY <2>1, <2>2, <1>1 DEF IInv, TypeInv
<1>4. TypeInv'
  <2>1. cursor' \in 0..Len(input') /\ (done' <=> cursor' = Len(input'))
    BY <1>1, <1>2
  <2>. QED BY <1>1, <1>2, <1>3, <2>1 DEF IInv, TypeInv
<1>5. Number(cursor)' = Number(cursor + 1)
  BY <1>2 DEF Number
<1>. DEFINE r == result \cup Shl(byte, shift)
<1>6. /\ Number(cursor + 1) \subseteq 0..(IntBits - 2) => r = Number(cursor + 1)
      /\ Number(cursor + 1) \subseteq Int0 => r \cap Int0 = Number(cursor + 1)
  <2>1. TypeInv /\ Exact /\ LowBits /\ NotExtended /\ cursor < Len(input)
    BY <1>1, <1>2 DEF IInv, NotExtended
  <2>2. r = result \cup Shl(input[cursor + 1], shift)
    OBVIOUS
  <2>. HIDE DEF r
  <2>. QED BY <2>1, <2>2, ReadLemma
<1>7. CASE signed /\ Negative(byte)
  <2>1. ~NotExtended'
    BY <1>1, <1>2, <1>7 DEF NotExtended
  <2>2. result' = r \cup Shl(Int0, n)
    BY <1>7 DEF LastByte
  <2>3. ASSUME Group * Len(input) < IntBits PROVE result' = Signed
    <3>1. Shl(Int0, n) = (Group * Len(input))..(LongBits - 1)
      BY <1>3, <2>3, ShlOnes
    <3>2. Number(cursor + 1) \subseteq 0..(IntBits - 2)
      <4>1. Number(Len(input)) \subseteq 0..(Group * Len(input) - 1)
        BY <1>1, NumberBound DEF IInv, TypeInv
      <4>. QED BY <1>1, <1>3, <2>3, <4>1, LebAssumption
    <3>3. r = Unsigned
      BY <1>1, <1>6, <3>2 DEF Unsigned
    <3>. QED BY <1>1, <1>7, <2>2, <3>1, <3>3 DEF Signed, Negative
  <2>4. Signed' = Signed
    BY <1>2 DEF Signed, Unsigned, Number
  <2>5. Extended'
    BY <1>2, <2>3, <2>4 DEF Extended
  <2>. QED BY <1>4, <2>1, <2>5 DEF IInv, Exact, LowBits
<1>8. CASE ~(signed /\ Negative(byte))
  <2>1. NotExtended'
    BY <1>1, <1>2, <1>8 DEF NotExtended, Negative
  <2>2. result' = r
    BY <1>8 DEF LastByte, ReadByte
  <2>3. Exact' /\ LowBits'
    BY <1>5, <1>6, <2>2 DEF Exact, LowBits
  <2>. QED BY <1>4, <2>1, <2>3 DEF IInv, Extended
<1>. QED BY <1>7, <1>8

(* The invariant: without an extension of the sign the result is what was  *)
(* read, and with one it is the number if the encoding fits an int.        *)
THEOREM Invariant == Spec => []IInv
<1>1. IInv /\ UNCHANGED vars => IInv'
  <2>. SUFFICES ASSUME IInv, UNCHANGED vars
                PROVE  IInv'
    OBVIOUS
  <2>1. TypeInv'
    BY DEF IInv, TypeInv, vars
  <2>2. Exact'
    BY DEF IInv, Exact, NotExtended, Number, Negative, vars
  <2>3. LowBits'
    BY DEF IInv, LowBits, NotExtended, Number, Negative, vars
  <2>4. Extended'
    BY DEF IInv, Extended, NotExtended, Number, Signed, Unsigned, Negative, vars
  <2>. QED BY <2>1, <2>2, <2>3, <2>4 DEF IInv
<1>2. IInv /\ [Next]_vars => IInv'
  BY <1>1, NextByteInv, LastByteInv DEF Next
<1>. QED BY InitInv, <1>2, PTL DEF Spec

(* readu64_LEB128 (buffer.c:64-73), which its callers cut to an int, is    *)
(* right for every number of an int's width.                               *)
THEOREM UnsignedIsRight == Spec => []UnsignedRight
<1>1. IInv => UnsignedRight
  BY DEF IInv, TypeInv, LowBits, NotExtended, UnsignedRight, Unsigned
<1>. QED BY <1>1, Invariant, PTL

(* readi64_LEB128 (buffer.c:75-88) is right for encodings shorter than an  *)
(* int, and for numbers that are not negative and fit an int.              *)
THEOREM SignedIsRight == Spec => []SignedRight
<1>1. IInv => SignedRight
  <2>. SUFFICES ASSUME IInv, done, signed
                PROVE  /\ Group * Len(input) < IntBits => result = Signed
                       /\ Signed \subseteq 0..(IntBits - 2) => result = Signed
    BY DEF SignedRight
  <2>. DEFINE n    == Len(input)
              last == input[n]
  <2>1. input \in Seq(SUBSET Low) /\ input # <<>> /\ n \in Nat \ {0} /\ cursor = n
    BY LebAssumption DEF IInv, TypeInv
  <2>2. CASE Negative(last)
    <3>1. ~NotExtended
      BY <2>2 DEF NotExtended
    <3>2. ~(Signed \subseteq 0..(IntBits - 2))
      <4>1. CASE Group * n < LongBits
        <5>1. LongBits - 1 \in (Group * n)..(LongBits - 1)
          BY <4>1, <2>1, LebAssumption
        <5>2. LongBits - 1 \in Signed
          BY <2>2, <5>1 DEF Signed, Negative
        <5>. QED BY <5>2, LebAssumption
      <4>2. CASE ~(Group * n < LongBits)
        <5>1. Group * (n - 1) + (Group - 1) = Group * n - 1 /\ Group * n \in Int
          BY <2>1, LebAssumption
        <5>2. Group * n - 1 \in Signed
          BY <2>1, <2>2, <5>1 DEF Signed, Unsigned, Number, Negative
        <5>. QED BY <4>2, <5>1, <5>2, LebAssumption
      <4>. QED BY <4>1, <4>2
    <3>. QED BY <3>1, <3>2 DEF IInv, Extended
  <2>3. CASE ~Negative(last)
    <3>1. NotExtended
      BY <2>3 DEF NotExtended
    <3>2. Signed = Number(n)
      BY <2>3 DEF Signed, Unsigned, Negative
    <3>3. Number(n) \subseteq 0..(Group * n - 1)
      BY <2>1, NumberBound DEF IInv, TypeInv
    <3>4. Group * n < IntBits => Number(n) \subseteq 0..(IntBits - 2)
      <4>1. Group * n \in Int
        BY <2>1, LebAssumption
      <4>. QED BY <3>3, <4>1, LebAssumption
    <3>. QED BY <2>1, <3>1, <3>2, <3>4 DEF IInv, Exact
  <2>. QED BY <2>2, <2>3
<1>. QED BY <1>1, Invariant, PTL
=============================================================================
