---------------------------- MODULE StoreProofs ----------------------------
(***************************************************************************)
(* A loaded module runs as WASM says: Instance implements WasmStore for    *)
(* every set of supported modules.  The words on the stack of kernel/vm.c  *)
(* are the values WASM has there, from the entry to the end or to the      *)
(* first trap.                                                             *)
(***************************************************************************)
EXTENDS InstanceProofs

----------------------------------------------------------------------------
(* Words, bits and what the operators compute of them.                     *)

Word32 == 0..(Limit - 1)
Byte   == 0..(Base - 1)

(* The names of WasmStore for what Opcodes names too.                      *)
LEMMA SameNumbers ==
    /\ S!Base = Base /\ S!Width = Width /\ S!Limit = Limit
    /\ \A k : S!Weight(k) = Weight(k)
    /\ \A n : S!Word(n) = Word(n) /\ S!Words(n) = Words(n)
    /\ \A a, b : S!Quotient(a, b) = Quotient(a, b)
    /\ \A s : S!Number(s) = Number(s)
    /\ S!Places = 0..(Width - 1)
    /\ \A w, k : S!Bit(w, k) = BitOf(w, k)
  <1>1. S!Base = Base /\ S!Width = Width /\ S!Limit = Limit
    BY DEF S!Base, Base, S!Width, Width, S!Limit, Limit
  <1>2. /\ \A k : S!Weight(k) = Weight(k)
        /\ \A w, k : S!Bit(w, k) = BitOf(w, k)
    BY DEF S!Weight, Weight, S!Bit, BitOf
  <1>3. /\ \A n : S!Word(n) = Word(n) /\ S!Words(n) = Words(n)
        /\ S!Places = 0..(Width - 1)
    BY ONLY <1>1 DEF S!Word, Word, S!Words, Words, S!Places
  <1>4. \A a, b : S!Quotient(a, b) = Quotient(a, b)
    BY ONLY TRUE DEF S!Quotient, Quotient, S!Abs, Abs
  <1>5. \A s : S!Number(s) = Number(s)
    BY ONLY TRUE DEF S!Number, Number, S!Weight, Weight
  <1> QED
    BY ONLY <1>1, <1>2, <1>3, <1>4, <1>5

(* A word is its own word, and the ints are those of 4 * ByteBits bits.    *)
LEMMA SignedFacts ==
    /\ 2^(Width - 1) \in Nat \ {0} /\ Limit = 2 * 2^(Width - 1) /\ Limit \div 2 = 2^(Width - 1)
    /\ \A n \in Int : Word(n) \in Word32
    /\ \A n, k \in Int : Word(n + k * Limit) = Word(n)
    /\ \A w \in Word32 :
          /\ Word(w) = w /\ Int32(w) \in Int
          /\ Int32(w) = IF w < 2^(Width - 1) THEN w ELSE w - Limit
          /\ Word(Int32(w)) = w
          /\ -(2^(Width - 1)) <= Int32(w) /\ Int32(w) < 2^(Width - 1)
          /\ S!Signed(w) = Int32(w)
  <1>1. PICK i \in Nat : i = Width - 1 /\ Width = i + 1
    BY WidthFacts
  <1>2. PICK h \in Nat \ {0} : h = 2^(Width - 1) /\ Limit = 2 * h
    <2>1. 2^i \in Nat \ {0} /\ 2^(i + 1) = 2 * 2^i
      BY Powers
    <2> QED
      BY ONLY <1>1, <2>1 DEF Limit
  <1>3. Limit \div 2 = h /\ Limit \in Nat \ {0}
    BY ONLY <1>2, h \in Nat \ {0}
  <1>4. PICK l \in Nat \ {0} : l = Limit
    BY ONLY <1>3
  <1>5. \A n \in Int : Word(n) \in 0..(l - 1)
    <2>1. \A n \in Int : n % l \in 0..(l - 1)
      OBVIOUS
    <2> QED
      BY ONLY <1>4, <2>1 DEF Word
  <1>6. \A n, k \in Int : Word(n + k * l) = Word(n)
    BY ONLY <1>4, ModShift, l \in Nat \ {0} DEF Word
  <1>7. ASSUME NEW w \in 0..(l - 1)
        PROVE  /\ Word(w) = w /\ Int32(w) \in Int
               /\ Int32(w) = IF w < h THEN w ELSE w - l
               /\ Word(Int32(w)) = w
               /\ -h <= Int32(w) /\ Int32(w) < h
    <2>1. Word(w) = w
      BY ONLY <1>4, SmallModulo, l \in Nat \ {0}, w \in 0..(l - 1) DEF Word
    <2>2. Int32(w) = IF w < h THEN w ELSE w - l
      BY ONLY <1>3, <1>4, <2>1 DEF Int32
    <2>3. Int32(w) \in Int /\ -h <= Int32(w) /\ Int32(w) < h
      BY ONLY <1>2, <1>4, <2>2, h \in Nat \ {0}, w \in 0..(l - 1)
    <2>4. Word(w - l) = w
      <3>1. w - l = w + (-1) * l /\ -1 \in Int /\ w \in Int
        OBVIOUS
      <3> QED
        BY ONLY <1>6, <2>1, <3>1
    <2> QED
      BY ONLY <2>1, <2>2, <2>3, <2>4
  <1>8. \A w : S!Signed(w) = IF w >= Limit \div 2 THEN w - Limit ELSE w
    BY SameNumbers DEF S!Signed
  <1>9. \A w \in 0..(l - 1) : S!Signed(w) = Int32(w)
    <2>1. \A w \in 0..(l - 1) : w >= h <=> ~(w < h)
      BY ONLY h \in Nat \ {0}
    <2> QED
      BY ONLY <1>3, <1>4, <1>7, <1>8, <2>1
  <1> QED
    BY ONLY <1>2, <1>3, <1>4, <1>5, <1>6, <1>7, <1>9 DEF Word32

\* Bits that make a word.
IsBits(b) == \A k \in 0..(Width - 1) : b[k] \in {0, 1}
Counted(b) == [k \in 1..Width |-> b[k - 1] * 2^(k - 1)]

(* The word that bits make is a sum.                                       *)
LEMMA BitSums ==
    ASSUME NEW b, IsBits(b)
    PROVE  \E u : Sums(Width, Counted(b), u) /\ S!Bits(b) = u[Width]
  <1> DEFINE w == Counted(b)
             u == CHOOSE f : f = [k \in 0..Width |->
                    IF k = 0 THEN 0 ELSE f[k - 1] + b[k - 1] * 2^(k - 1)]
             v == CHOOSE f : f = [k \in 0..Width |-> IF k = 0 THEN 0 ELSE f[k - 1] + w[k]]
  <1>1. Width \in Nat
    BY WidthFacts
  <1>2. ASSUME NEW k \in 1..Width PROVE w[k] \in Nat
    <2>1. k - 1 \in Nat /\ k - 1 \in 0..(Width - 1)
      BY <1>1
    <2>2. PICK p \in Nat : p = 2^(k - 1)
      BY ONLY <2>1, Powers
    <2>3. b[k - 1] = 0 \/ b[k - 1] = 1
      BY ONLY <2>1, IsBits(b) DEF IsBits
    <2>4. 0 * p = 0 /\ 1 * p = p
      OBVIOUS
    <2>5. w[k] = b[k - 1] * p
      BY ONLY <2>2, k \in 1..Width DEF Counted
    <2> QED
      BY ONLY <2>3, <2>4, <2>5, p \in Nat
  <1>3. \A f : [k \in 0..Width |-> IF k = 0 THEN 0 ELSE f[k - 1] + b[k - 1] * 2^(k - 1)]
                 = [k \in 0..Width |-> IF k = 0 THEN 0 ELSE f[k - 1] + w[k]]
    <2>1. \A k \in 0..Width : k = 0 \/ k \in 1..Width
      BY <1>1
    <2>2. \A k \in 1..Width : w[k] = b[k - 1] * 2^(k - 1)
      BY DEF Counted
    <2> HIDE DEF w
    <2> QED
      BY ONLY <2>1, <2>2
  <1>4. u = v
    <2> HIDE DEF w
    <2> QED
      BY ONLY <1>3 DEF u, v
  <1>5. S!Bits(b) = u[Width]
    <2>1. S!Width = Width
      BY SameNumbers
    <2> QED
      BY ONLY <2>1 DEF S!Bits
  <1> HIDE DEF w
  <1>6. Sums(Width, w, v)
    BY ONLY <1>1, <1>2, SumNat DEF v
  <1> HIDE DEF u, v
  <1>7. S!Bits(b) = v[Width]
    BY ONLY <1>4, <1>5
  <1> QED
    BY ONLY <1>6, <1>7 DEF w

(* It is a word.                                                           *)
LEMMA BitsWord ==
    ASSUME NEW b, IsBits(b)
    PROVE  S!Bits(b) \in Word32
  <1>1. PICK u : Sums(Width, Counted(b), u) /\ S!Bits(b) = u[Width]
    BY BitSums
  <1>2. PICK n \in Nat : n = Width
    BY WidthFacts
  <1>3. /\ u[0] = 0 /\ \A k \in 1..n : u[k] = u[k - 1] + b[k - 1] * 2^(k - 1)
        /\ \A k \in 0..n : u[k] \in Nat
    BY ONLY <1>1, <1>2 DEF Sums, Counted
  <1> DEFINE P == {k \in Nat : k <= n => u[k] < 2^k}
  <1>4. 0 \in P
    BY <1>3, Powers
  <1>5. ASSUME NEW k \in P PROVE k + 1 \in P
    <2>1. CASE k + 1 <= n
      <3>1. k \in 0..n /\ k + 1 \in 1..n /\ (k + 1) - 1 = k /\ k \in 0..(n - 1) /\ u[k] < 2^k
        BY <2>1
      <3>2. PICK p \in Nat \ {0} : p = 2^k /\ 2^(k + 1) = 2 * p
        BY ONLY <3>1, Powers, k \in P DEF P
      <3>3. b[k] = 0 \/ b[k] = 1
        BY ONLY <1>2, <3>1, IsBits(b) DEF IsBits
      <3>4. 0 * p = 0 /\ 1 * p = p
        OBVIOUS
      <3>5. u[k + 1] = u[k] + b[k] * p /\ u[k] \in Nat
        BY ONLY <1>3, <3>1, <3>2
      <3>6. u[k + 1] < 2 * p
        BY ONLY <3>1, <3>2, <3>3, <3>4, <3>5, p \in Nat \ {0}
      <3> QED
        BY ONLY <3>1, <3>2, <3>6, k \in P DEF P
    <2> QED
      BY <2>1
  <1>6. P \in SUBSET Nat
    OBVIOUS
  <1> HIDE DEF P
  <1>7. n \in P /\ n \in 0..n /\ n <= n
    BY <1>4, <1>5, <1>6, SetInduction
  <1>8. u[n] < 2^n /\ u[n] \in Nat
    BY ONLY <1>3, <1>7 DEF P
  <1>9. PICK l \in Nat : l = 2^n
    BY Powers
  <1> QED
    BY ONLY <1>1, <1>2, <1>8, <1>9, l \in Nat DEF Word32, Limit

(* A word is made of its bits.                                             *)
LEMMA WordBits ==
    ASSUME NEW x \in Int, NEW b, \A k \in 0..(Width - 1) : b[k] = BitOf(x, k)
    PROVE  IsBits(b) /\ Word(x) = S!Bits(b)
  <1>1. \A k \in Nat : BitOf(x, k) \in {0, 1}
    <2> SUFFICES ASSUME NEW k \in Nat PROVE BitOf(x, k) \in {0, 1}
      OBVIOUS
    <2>1. PICK d \in Int : d = x \div 2^k
      <3>1. PICK p \in Nat \ {0} : p = 2^k
        BY Powers
      <3> QED
        BY <3>1
    <2> QED
      BY ONLY <2>1, d \in Int DEF BitOf
  <1>2. PICK n \in Nat : n = Width
    BY WidthFacts
  <1>3. IsBits(b)
    <2>1. \A k \in 0..(n - 1) : k \in Nat
      OBVIOUS
    <2> QED
      BY ONLY <1>1, <1>2, <2>1, \A k \in 0..(Width - 1) : b[k] = BitOf(x, k) DEF IsBits
  <1>4. PICK u : Sums(Width, Counted(b), u) /\ S!Bits(b) = u[Width]
    BY <1>3, BitSums
  <1>5. u[0] = 0 /\ \A k \in 1..n : u[k] = u[k - 1] + b[k - 1] * 2^(k - 1)
    BY ONLY <1>2, <1>4 DEF Sums, Counted
  <1> DEFINE P == {k \in Nat : k <= n => u[k] = x % 2^k}
  <1>6. 0 \in P
    <2>1. x % 1 = 0
      OBVIOUS
    <2> QED
      BY ONLY <1>5, <2>1, Powers
  <1>7. ASSUME NEW k \in P PROVE k + 1 \in P
    <2>1. CASE k + 1 <= n
      <3>1. k \in Nat /\ k + 1 \in 1..n /\ (k + 1) - 1 = k /\ k \in 0..(n - 1) /\ u[k] = x % 2^k
        BY <2>1
      <3>2. u[k + 1] = u[k] + b[k] * 2^k
        BY ONLY <1>5, <3>1
      <3>3. b[k] = BitOf(x, k)
        BY ONLY <1>2, <3>1, \A i \in 0..(Width - 1) : b[i] = BitOf(x, i)
      <3>4. x % 2^(k + 1) = (x % 2^k) + BitOf(x, k) * 2^k
        BY ONLY <3>1, x \in Int, NextBit
      <3> QED
        BY ONLY <3>1, <3>2, <3>3, <3>4
    <2> QED
      BY <2>1
  <1>8. P \in SUBSET Nat
    OBVIOUS
  <1> HIDE DEF P
  <1>9. n \in P /\ n <= n
    BY <1>6, <1>7, <1>8, SetInduction
  <1>10. u[n] = x % 2^n
    BY ONLY <1>9 DEF P
  <1> QED
    BY ONLY <1>2, <1>3, <1>4, <1>10 DEF Word, Limit

(* A set of places makes the word with these bits.                         *)
LEMMA MaskBits ==
    ASSUME NEW s, NEW b, \A k \in 0..(Width - 1) : b[k] = IF k \in s THEN 1 ELSE 0
    PROVE  IsBits(b) /\ Mask(s) = S!Bits(b)
  <1>1. PICK n \in Nat : n = Width
    BY WidthFacts
  <1>2. IsBits(b)
    BY DEF IsBits
  <1>3. PICK u : Sums(Width, Counted(b), u) /\ S!Bits(b) = u[Width]
    BY <1>2, BitSums
  <1>4. PICK v : Sums(Width, [k \in 1..Width |-> IF k - 1 \in s THEN 2^(k - 1) ELSE 0], v) /\ Mask(s) = v[Width]
    BY MaskSums
  <1>5. ASSUME NEW k \in 1..n PROVE b[k - 1] * 2^(k - 1) = IF k - 1 \in s THEN 2^(k - 1) ELSE 0
    <2>1. k - 1 \in 0..(n - 1) /\ k - 1 \in Nat
      OBVIOUS
    <2>2. PICK p \in Nat : p = 2^(k - 1)
      BY ONLY <2>1, Powers
    <2>3. 0 * p = 0 /\ 1 * p = p
      OBVIOUS
    <2>4. b[k - 1] = IF k - 1 \in s THEN 1 ELSE 0
      BY ONLY <1>1, <2>1, \A i \in 0..(Width - 1) : b[i] = IF i \in s THEN 1 ELSE 0
    <2> QED
      BY ONLY <2>2, <2>3, <2>4
  <1>6. Alike(n, u, v)
    BY ONLY <1>1, <1>3, <1>4, <1>5 DEF Sums, Counted, Alike
  <1>7. n \in 0..n
    OBVIOUS
  <1>8. u[n] = v[n]
    BY ONLY <1>6, <1>7, SameRun, n \in Nat
  <1> QED
    BY ONLY <1>1, <1>2, <1>3, <1>4, <1>8

(* A bit is 0 or 1.                                                        *)
LEMMA BitIs == \A x \in Int, k \in Nat : BitOf(x, k) \in {0, 1}
  <1> SUFFICES ASSUME NEW x \in Int, NEW k \in Nat PROVE BitOf(x, k) \in {0, 1}
    OBVIOUS
  <1>1. PICK p \in Nat \ {0} : p = 2^k
    BY Powers
  <1>2. PICK d \in Int : d = x \div p
    OBVIOUS
  <1> QED
    BY ONLY <1>1, <1>2, d \in Int DEF BitOf

(* The bits of an int are those of its word.                               *)
LEMMA IntBits ==
    ASSUME NEW w \in Word32
    PROVE  /\ \A k \in 0..(Width - 1) : BitOf(Int32(w), k) = BitOf(w, k)
           /\ Ones(Int32(w)) = {k \in 0..(Width - 1) : BitOf(w, k) = 1}
  <1>1. Word(Int32(w)) = w /\ Int32(w) \in Int
    BY SignedFacts
  <1>2. PICK n \in Nat : n = Width
    BY WidthFacts
  <1>3. w = Int32(w) % 2^n
    BY ONLY <1>1, <1>2 DEF Word, Limit
  <1>4. \A k \in 0..(n - 1) : BitOf(Int32(w), k) = BitOf(w, k)
    BY ONLY <1>1, <1>3, LowBits, n \in Nat
  <1> QED
    BY ONLY <1>2, <1>4 DEF Ones, BitOf

(* What is calculated on the bits of ints is what is on those of words.    *)
LEMMA BitwiseIs ==
    ASSUME NEW a \in Word32, NEW b \in Word32
    PROVE  LET l == Ones(Int32(a)) r == Ones(Int32(b)) IN
           /\ Word(Mask(l \cap r)) = S!Bits([k \in S!Places |-> S!Bit(a, k) * S!Bit(b, k)])
           /\ Word(Mask(l \cup r)) = S!Bits([k \in S!Places |-> IF S!Bit(a, k) + S!Bit(b, k) = 0 THEN 0 ELSE 1])
           /\ Word(Mask((l \cup r) \ (l \cap r))) = S!Bits([k \in S!Places |-> (S!Bit(a, k) + S!Bit(b, k)) % 2])
  <1>1. PICK n \in Nat : n = Width
    BY WidthFacts
  <1>2. PICK l, r : l = Ones(Int32(a)) /\ r = Ones(Int32(b))
    OBVIOUS
  <1>3. \A k \in 0..(n - 1) : (k \in l <=> BitOf(a, k) = 1) /\ (k \in r <=> BitOf(b, k) = 1)
    BY ONLY <1>1, <1>2, IntBits, a \in Word32, b \in Word32
  <1>4. \A k \in 0..(n - 1) : BitOf(a, k) \in {0, 1} /\ BitOf(b, k) \in {0, 1}
    <2>1. a \in Int /\ b \in Int
      BY DEF Word32
    <2>2. \A k \in 0..(n - 1) : k \in Nat
      OBVIOUS
    <2> QED
      BY ONLY <2>1, <2>2, BitIs
  <1>5. S!Places = 0..(n - 1) /\ \A w, k : S!Bit(w, k) = BitOf(w, k)
    BY ONLY <1>1, SameNumbers
  <1> DEFINE f == [k \in S!Places |-> S!Bit(a, k) * S!Bit(b, k)]
             g == [k \in S!Places |-> IF S!Bit(a, k) + S!Bit(b, k) = 0 THEN 0 ELSE 1]
             h == [k \in S!Places |-> (S!Bit(a, k) + S!Bit(b, k)) % 2]
  <1>6. ASSUME NEW k \in 0..(n - 1)
        PROVE  /\ f[k] = IF k \in l \cap r THEN 1 ELSE 0
               /\ g[k] = IF k \in l \cup r THEN 1 ELSE 0
               /\ h[k] = IF k \in (l \cup r) \ (l \cap r) THEN 1 ELSE 0
    <2>1. PICK x \in {0, 1}, y \in {0, 1} : x = BitOf(a, k) /\ y = BitOf(b, k)
      BY ONLY <1>4, k \in 0..(n - 1)
    <2>2. f[k] = x * y /\ (g[k] = IF x + y = 0 THEN 0 ELSE 1) /\ h[k] = (x + y) % 2
      BY ONLY <1>5, <2>1, k \in 0..(n - 1)
    <2>3. (k \in l <=> x = 1) /\ (k \in r <=> y = 1)
      BY ONLY <1>3, <2>1, k \in 0..(n - 1)
    <2> HIDE DEF f, g, h
    <2>4. x * y = (IF x = 1 /\ y = 1 THEN 1 ELSE 0) /\ (x + y) % 2 = IF x # y THEN 1 ELSE 0
      BY ONLY x \in {0, 1}, y \in {0, 1}
    <2> QED
      BY ONLY <2>2, <2>3, <2>4, x \in {0, 1}, y \in {0, 1}
  <1> HIDE DEF f, g, h
  <1>7. \A s, c : (\A k \in 0..(n - 1) : c[k] = IF k \in s THEN 1 ELSE 0) => Word(Mask(s)) = S!Bits(c)
    <2> SUFFICES ASSUME NEW s, NEW c, \A k \in 0..(n - 1) : c[k] = IF k \in s THEN 1 ELSE 0
                 PROVE  Word(Mask(s)) = S!Bits(c)
      OBVIOUS
    <2>1. IsBits(c) /\ Mask(s) = S!Bits(c)
      BY ONLY <1>1, MaskBits, \A k \in 0..(n - 1) : c[k] = IF k \in s THEN 1 ELSE 0
    <2>2. S!Bits(c) \in Word32
      BY ONLY <2>1, BitsWord
    <2> QED
      BY ONLY <2>1, <2>2, SignedFacts
  <1>8. /\ Word(Mask(l \cap r)) = S!Bits(f) /\ Word(Mask(l \cup r)) = S!Bits(g)
        /\ Word(Mask((l \cup r) \ (l \cap r))) = S!Bits(h)
    BY ONLY <1>6, <1>7
  <1> QED
    BY ONLY <1>2, <1>8 DEF f, g, h

(* And so are shifts.                                                      *)
LEMMA ShiftsAre ==
    ASSUME NEW a \in Word32, NEW s \in 0..(Width - 1)
    PROVE  /\ Word(Int32(a) * 2^s) = S!Bits([k \in S!Places |-> IF k < s THEN 0 ELSE S!Bit(a, k - s)])
           /\ Word(Int32(a) \div 2^s)
                = S!Bits([k \in S!Places |-> S!Bit(a, IF k + s < S!Width THEN k + s ELSE S!Width - 1)])
  <1>1. PICK n \in Nat \ {0} : n = Width
    BY WidthFacts
  <1>2. PICK x \in Int : x = Int32(a)
    BY SignedFacts
  <1>3. -(2^(n - 1)) <= x /\ x < 2^(n - 1)
    BY ONLY <1>1, <1>2, SignedFacts, a \in Word32
  <1>4. \A k \in 0..(n - 1) : BitOf(x, k) = BitOf(a, k)
    BY ONLY <1>1, <1>2, IntBits, a \in Word32
  <1>5. S!Places = 0..(n - 1) /\ S!Width = n /\ \A w, k : S!Bit(w, k) = BitOf(w, k)
    BY ONLY <1>1, SameNumbers
  <1>6. PICK p \in Nat \ {0} : p = 2^s
    BY ONLY Powers, <1>1, s \in 0..(Width - 1)
  <1>7. s \in Nat /\ n - 1 \in Nat /\ n - 1 \in 0..(n - 1) /\ \A k \in 0..(n - 1) : k \in Nat
    BY ONLY <1>1, s \in 0..(Width - 1), n \in Nat \ {0}
  <1> DEFINE f == [k \in S!Places |-> IF k < s THEN 0 ELSE S!Bit(a, k - s)]
             g == [k \in S!Places |-> S!Bit(a, IF k + s < S!Width THEN k + s ELSE S!Width - 1)]
  <1>8. \A k \in 0..(n - 1) : f[k] = BitOf(x * 2^s, k)
    <2> SUFFICES ASSUME NEW k \in 0..(n - 1) PROVE f[k] = BitOf(x * 2^s, k)
      OBVIOUS
    <2>1. BitOf(x * 2^s, k) = IF k < s THEN 0 ELSE BitOf(x, k - s)
      BY ONLY <1>7, ShiftedUp, x \in Int, k \in 0..(n - 1)
    <2>2. ~(k < s) => k - s \in 0..(n - 1)
      BY ONLY <1>7, k \in 0..(n - 1), n \in Nat \ {0}
    <2>3. f[k] = IF k < s THEN 0 ELSE BitOf(a, k - s)
      BY ONLY <1>5, k \in 0..(n - 1)
    <2> QED
      BY ONLY <1>4, <2>1, <2>2, <2>3
  <1>9. \A k \in 0..(n - 1) : g[k] = BitOf(x \div 2^s, k)
    <2> SUFFICES ASSUME NEW k \in 0..(n - 1) PROVE g[k] = BitOf(x \div 2^s, k)
      OBVIOUS
    <2>1. BitOf(x \div 2^s, k) = BitOf(x, k + s)
      BY ONLY <1>7, ShiftedDown, x \in Int, k \in 0..(n - 1)
    <2>2. g[k] = BitOf(a, IF k + s < n THEN k + s ELSE n - 1)
      BY ONLY <1>5, k \in 0..(n - 1)
    <2>3. CASE k + s < n
      <3>1. k + s \in 0..(n - 1)
        BY ONLY <1>7, <2>3, k \in 0..(n - 1), n \in Nat \ {0}
      <3> QED
        BY ONLY <1>4, <2>1, <2>2, <2>3, <3>1
    <2>4. CASE ~(k + s < n)
      <3>1. k + s \in Nat /\ k + s >= n - 1
        BY ONLY <1>7, <2>4, k \in 0..(n - 1), n \in Nat \ {0}
      <3>2. BitOf(x, k + s) = BitOf(x, n - 1)
        BY ONLY <1>3, <1>7, <3>1, SignBits, x \in Int
      <3> QED
        BY ONLY <1>4, <1>7, <2>1, <2>2, <2>4, <3>2
    <2> QED
      BY ONLY <2>3, <2>4
  <1> HIDE DEF f, g
  <1>10. x * p \in Int /\ x \div p \in Int
    OBVIOUS
  <1>11. Word(x * 2^s) = S!Bits(f) /\ Word(x \div 2^s) = S!Bits(g)
    BY ONLY <1>1, <1>6, <1>8, <1>9, <1>10, WordBits
  <1> QED
    BY ONLY <1>2, <1>11 DEF f, g

\* The relations, and what is calculated, on words.
Relations == {I32Eq, I32Ne, I32Lt_s, I32Gt_s, I32Gt_u, I32Ge_s}

(* The sum, difference and product of ints.                                *)
LEMMA ArithmeticIs ==
    ASSUME NEW a \in Word32, NEW b \in Word32
    PROVE  /\ Word(Int32(a) + Int32(b)) = (a + b) % Limit
           /\ Word(Int32(a) - Int32(b)) = (a + Limit - b) % Limit
           /\ Word(Int32(a) * Int32(b)) = (a * b) % Limit
  <1>1. PICK l \in Nat \ {0} : l = Limit
    BY WidthFacts
  <1>2. \A w \in Word32 : w \in Int /\ \E i \in Int : Int32(w) = w + i * l
    <2> SUFFICES ASSUME NEW w \in Word32 PROVE w \in Int /\ \E i \in Int : Int32(w) = w + i * l
      OBVIOUS
    <2>1. w \in Int /\ (Int32(w) = w \/ Int32(w) = w - l)
      BY <1>1, SignedFacts DEF Word32
    <2>2. w = w + 0 * l /\ w - l = w + (-1) * l
      BY <2>1
    <2> QED
      BY <2>1, <2>2
  <1>3. PICK i \in Int : Int32(a) = a + i * l
    BY <1>2
  <1>4. PICK j \in Int : Int32(b) = b + j * l
    BY <1>2
  <1>5. PICK x \in Int, y \in Int : x = a /\ y = b
    BY <1>2
  <1>6. \A n, k \in Int : Word(n + k * l) = n % l
    BY ONLY <1>1, SignedFacts DEF Word
  <1>7. (x + i * l) + (y + j * l) = (x + y) + (i + j) * l
    BY ONLY x \in Int, y \in Int, i \in Int, j \in Int, l \in Nat \ {0}
  <1>8. (x + i * l) - (y + j * l) = (x + l - y) + (i - j - 1) * l
    BY ONLY x \in Int, y \in Int, i \in Int, j \in Int, l \in Nat \ {0}
  <1>9. (x + i * l) * (y + j * l) = x * y + (i * y + j * x + (i * j) * l) * l
    BY ONLY x \in Int, y \in Int, i \in Int, j \in Int, l \in Nat \ {0}
  <1>10. x + y \in Int /\ x + l - y \in Int /\ x * y \in Int
         /\ i + j \in Int /\ i - j - 1 \in Int /\ i * y + j * x + (i * j) * l \in Int
    OBVIOUS
  <1>11. /\ Word((x + i * l) + (y + j * l)) = (x + y) % l
         /\ Word((x + i * l) - (y + j * l)) = (x + l - y) % l
         /\ Word((x + i * l) * (y + j * l)) = (x * y) % l
    BY ONLY <1>6, <1>7, <1>8, <1>9, <1>10
  <1> QED
    BY ONLY <1>1, <1>3, <1>4, <1>5, <1>11

(* The two write relations alike.                                          *)
LEMMA HoldsIs ==
    ASSUME NEW a \in Word32, NEW b \in Word32, NEW op \in Relations
    PROVE  Computed(op, Int32(a), Int32(b)) = IF S!Holds(op, a, b) THEN 1 ELSE 0
  <1>1. PICK x \in Int, y \in Int : x = Int32(a) /\ y = Int32(b) /\ S!Signed(a) = x /\ S!Signed(b) = y
    BY SignedFacts
  <1>2. Word(x) = a /\ Word(y) = b
    BY <1>1, SignedFacts
  <1>3. /\ x = y <=> a = b
        /\ Word(x) > Word(y) <=> a > b
    BY ONLY <1>1, <1>2
  <1>4. Computed(op, x, y) = CASE op = I32Eq -> Truth(x = y) [] op = I32Ne -> Truth(x # y)
                   [] op = I32Lt_s -> Truth(x < y) [] op = I32Gt_s -> Truth(x > y)
                   [] op = I32Gt_u -> Truth(Word(x) > Word(y)) [] op = I32Ge_s -> Truth(x >= y)
    BY ONLY op \in Relations DEF Relations, Computed, I32Eq, I32Ne, I32Lt_s, I32Gt_s, I32Gt_u, I32Ge_s, I32Add, I32Sub, I32Mul, I32And, I32Or,
           I32Xor, I32Shl, I32Shr_s, I32Div_s, I32Rem_s
  <1>5. /\ op = I32Eq => (S!Holds(op, a, b) <=> a = b)
        /\ op = I32Ne => (S!Holds(op, a, b) <=> a # b)
        /\ op = I32Gt_u => (S!Holds(op, a, b) <=> a > b)
        /\ op = I32Lt_s => (S!Holds(op, a, b) <=> x < y)
        /\ op = I32Gt_s => (S!Holds(op, a, b) <=> x > y)
        /\ op = I32Ge_s => (S!Holds(op, a, b) <=> x >= y)
    BY ONLY <1>1 DEF S!Holds, I32Eq, I32Ne, I32Lt_s, I32Gt_s, I32Gt_u, I32Ge_s,
       S!I32Eq, S!I32Ne, S!I32Lt_s, S!I32Gt_s, S!I32Gt_u, S!I32Ge_s
  <1> QED
    BY ONLY <1>1, <1>3, <1>4, <1>5, op \in Relations DEF Relations, Truth, I32Eq, I32Ne, I32Lt_s, I32Gt_s, I32Gt_u, I32Ge_s

(* And everything else that is computed of two ints.                       *)
LEMMA CalculatedIs ==
    ASSUME NEW a \in Word32, NEW b \in Word32, NEW op \in Binaries \ Relations
    PROVE  Word(Computed(op, Int32(a), Int32(b))) = S!Calculated(op, a, b)
  <1>1. PICK x, y : x = Int32(a) /\ y = Int32(b)
    OBVIOUS
  <1>2. S!Signed(a) = x /\ S!Signed(b) = y /\ Word(y) = b
    BY <1>1, SignedFacts
  <1> DEFINE shift == b % Width
             both == Ones(x) \cap Ones(y)
             any == Ones(x) \cup Ones(y)
             C == CASE op = I32Add -> x + y [] op = I32Sub -> x - y [] op = I32Mul -> x * y
                    [] op = I32And -> Mask(both) [] op = I32Or -> Mask(any) [] op = I32Xor -> Mask(any \ both)
                    [] op = I32Shl -> x * 2^shift [] op = I32Shr_s -> x \div 2^shift
                    [] op = I32Div_s -> Quotient(x, y) [] op = I32Rem_s -> x - y * Quotient(x, y)
             fAnd == [k \in S!Places |-> S!Bit(a, k) * S!Bit(b, k)]
             fOr  == [k \in S!Places |-> IF S!Bit(a, k) + S!Bit(b, k) = 0 THEN 0 ELSE 1]
             fXor == [k \in S!Places |-> (S!Bit(a, k) + S!Bit(b, k)) % 2]
             fShl == [k \in S!Places |-> IF k < shift THEN 0 ELSE S!Bit(a, k - shift)]
             fShr == [k \in S!Places |-> S!Bit(a, IF k + shift < S!Width THEN k + shift ELSE S!Width - 1)]
             D == CASE op = I32Add -> (a + b) % Limit [] op = I32Sub -> (a + Limit - b) % Limit
                    [] op = I32Mul -> (a * b) % Limit
                    [] op = I32Div_s -> Quotient(x, y) % Limit [] op = I32Rem_s -> (x - y * Quotient(x, y)) % Limit
                    [] op = I32And -> S!Bits(fAnd) [] op = I32Or -> S!Bits(fOr) [] op = I32Xor -> S!Bits(fXor)
                    [] op = I32Shl -> S!Bits(fShl) [] op = I32Shr_s -> S!Bits(fShr)
  <1>3. op \in {I32Add, I32Sub, I32Mul, I32And, I32Or, I32Xor, I32Shl, I32Shr_s, I32Div_s, I32Rem_s}
    BY DEF Binaries, Relations, Divisions
  <1>4. Computed(op, x, y) = C
    BY ONLY <1>2, <1>3 DEF Computed, I32Eq, I32Ne, I32Lt_s, I32Gt_s, I32Gt_u, I32Ge_s, I32Add, I32Sub, I32Mul, I32And, I32Or,
           I32Xor, I32Shl, I32Shr_s, I32Div_s, I32Rem_s
  <1>5. S!Shift(b) = shift
    BY SameNumbers DEF S!Shift
  <1>6. S!Calculated(op, a, b) = D
    BY ONLY <1>2, <1>3, <1>5, SameNumbers DEF S!Calculated,
       I32Add, I32Sub, I32Mul, I32And, I32Or, I32Xor, I32Shl, I32Shr_s, I32Div_s, I32Rem_s,
       S!I32Add, S!I32Sub, S!I32Mul, S!I32And, S!I32Or, S!I32Xor, S!I32Shl, S!I32Shr_s, S!I32Div_s, S!I32Rem_s
  <1>7. shift \in 0..(Width - 1)
    <2>1. PICK n \in Nat \ {0} : n = Width
      BY WidthFacts
    <2>2. b \in Int
      BY DEF Word32
    <2>3. b % n \in 0..(n - 1)
      BY ONLY <2>2, n \in Nat \ {0}
    <2> QED
      BY ONLY <2>1, <2>3
  <1>8. /\ Word(Mask(both)) = S!Bits(fAnd) /\ Word(Mask(any)) = S!Bits(fOr) /\ Word(Mask(any \ both)) = S!Bits(fXor)
    BY ONLY <1>1, BitwiseIs, a \in Word32, b \in Word32
  <1>9. /\ Word(x * 2^shift) = S!Bits(fShl) /\ Word(x \div 2^shift) = S!Bits(fShr)
    <2> HIDE DEF shift
    <2> QED
      BY ONLY <1>1, <1>7, ShiftsAre, a \in Word32
  <1>10. Word(x + y) = (a + b) % Limit /\ Word(x - y) = (a + Limit - b) % Limit /\ Word(x * y) = (a * b) % Limit
    BY ONLY <1>1, ArithmeticIs, a \in Word32, b \in Word32
  <1>11. \A n : Word(n) = n % Limit
    BY DEF Word
  <1>12. Word(C) = D
    <2> HIDE DEF shift, both, any, fAnd, fOr, fXor, fShl, fShr
    <2> QED
      BY ONLY <1>3, <1>8, <1>9, <1>10, <1>11
         DEF C, D, I32Add, I32Sub, I32Mul, I32And, I32Or, I32Xor, I32Shl, I32Shr_s, I32Div_s, I32Rem_s
  <1> HIDE DEF C, D
  <1> QED
    BY ONLY <1>1, <1>4, <1>6, <1>12

(* A byte counts as much as all that is below it and one more.             *)
LEMMA Weights ==
    /\ Weight(1) = 1 /\ Weight(5) = Limit
    /\ \A k \in Nat \ {0} : Weight(k + 1) = Base * Weight(k)
    /\ \A k \in 1..5 : Weight(k) <= Limit
    /\ Base <= Limit
  <1>1. PICK b \in Nat \ {0} : b = ByteBits
    BY ByteAssumption
  <1>2. Weight(1) = 1
    <2>1. b * (1 - 1) = 0
      OBVIOUS
    <2> QED
      BY ONLY <1>1, <2>1, Powers DEF Weight
  <1>3. Weight(5) = Limit
    <2>1. b * (5 - 1) = 4 * b
      OBVIOUS
    <2> QED
      BY ONLY <1>1, <2>1 DEF Weight, Limit, Width
  <1>4. ASSUME NEW k \in Nat \ {0} PROVE Weight(k + 1) = Base * Weight(k)
    <2>1. PICK c \in Nat : c = b * (k - 1)
      OBVIOUS
    <2>2. b * ((k + 1) - 1) = b + c
      BY <2>1
    <2>3. 2^(b + c) = 2^b * 2^c
      BY PowerAdd
    <2> QED
      BY ONLY <1>1, <2>1, <2>2, <2>3 DEF Weight, Base
  <1>5. PICK a \in Nat \ {0} : a = Base
    BY WidthFacts
  <1>6. ASSUME NEW k \in Nat \ {0} PROVE Weight(k) <= Weight(k + 1) /\ Weight(k) \in Nat
    <2>1. PICK w \in Nat \ {0} : w = Weight(k)
      BY WidthFacts
    <2>2. w <= a * w
      OBVIOUS
    <2> QED
      BY ONLY <1>4, <1>5, <2>1, <2>2, k \in Nat \ {0}
  <1>7. Weight(1) <= Weight(2) /\ Weight(2) <= Weight(3) /\ Weight(3) <= Weight(4) /\ Weight(4) <= Weight(5)
        /\ Weight(1) \in Nat /\ Weight(2) \in Nat /\ Weight(3) \in Nat /\ Weight(4) \in Nat /\ Weight(5) \in Nat
    <2>1. /\ 1 \in Nat \ {0} /\ 2 \in Nat \ {0} /\ 3 \in Nat \ {0} /\ 4 \in Nat \ {0} /\ 5 \in Nat \ {0}
          /\ 1 + 1 = 2 /\ 2 + 1 = 3 /\ 3 + 1 = 4 /\ 4 + 1 = 5
      OBVIOUS
    <2> QED
      BY ONLY <1>6, <2>1
  <1>8. \A k \in 1..5 : Weight(k) <= Limit
    <2>1. \A k \in 1..5 : k = 1 \/ k = 2 \/ k = 3 \/ k = 4 \/ k = 5
      OBVIOUS
    <2> QED
      BY ONLY <1>3, <1>7, <2>1
  <1>9. Weight(2) = Base
    <2>1. Weight(1 + 1) = Base * Weight(1) /\ 1 + 1 = 2
      BY ONLY <1>4, 1 \in Nat \ {0}
    <2> QED
      BY ONLY <1>2, <1>5, <2>1, a \in Nat \ {0}
  <1> QED
    BY ONLY <1>2, <1>3, <1>4, <1>8, <1>9, 2 \in 1..5

(* Four bytes make a word.                                                 *)
LEMMA NumberWord ==
    ASSUME NEW s \in Seq(Byte), Len(s) <= 4
    PROVE  Number(s) \in Word32
  <1>1. PICK n \in 0..4 : n = Len(s)
    <2>1. Len(s) \in Nat
      BY ONLY s \in Seq(Byte)
    <2>2. PICK x \in Nat : x = Len(s)
      BY ONLY <2>1
    <2>3. x <= 4
      BY ONLY <2>2, Len(s) <= 4
    <2>4. x \in 0..4
      BY ONLY <2>3, x \in Nat
    <2> QED
      BY ONLY <2>2, <2>4
  <1>2. PICK a \in Nat \ {0} : a = Base
    BY WidthFacts
  <1>3. \A k \in 1..n : s[k] \in 0..(a - 1)
    <2>1. \A k \in 1..n : s[k] \in Byte
      BY ONLY <1>1, s \in Seq(Byte)
    <2> QED
      BY ONLY <1>2, <2>1 DEF Byte
  <1>4. s \in Seq(Nat)
    <2>1. \A k \in 1..n : s[k] \in Nat
      BY ONLY <1>2, <1>3
    <2>2. s = [k \in 1..n |-> s[k]]
      BY ONLY <1>1, s \in Seq(Byte)
    <2>3. PICK t : t = [k \in 1..n |-> s[k]]
      OBVIOUS
    <2>4. t \in [1..n -> Nat]
      BY ONLY <2>1, <2>3
    <2> QED
      BY ONLY <2>2, <2>3, <2>4, n \in 0..4
  <1>5. PICK u : Sums(Len(s), [k \in 1..Len(s) |-> s[k] * Weight(k)], u) /\ Number(s) = u[Len(s)]
    BY <1>4, NumberSums
  <1>6. u[0] = 0 /\ (\A k \in 1..n : u[k] = u[k - 1] + s[k] * Weight(k)) /\ \A k \in 0..n : u[k] \in Nat
    BY ONLY <1>1, <1>5 DEF Sums
  <1> DEFINE P == {k \in Nat : k <= n => u[k] < Weight(k + 1)}
  <1>7. 0 \in P
    BY ONLY <1>6, Weights
  <1>8. ASSUME NEW k \in P PROVE k + 1 \in P
    <2>1. CASE k + 1 <= n
      <3>1. k \in Nat /\ k \in 0..n /\ k + 1 \in 1..n /\ (k + 1) - 1 = k /\ u[k] < Weight(k + 1) /\ k + 1 \in Nat \ {0}
        BY <2>1
      <3>2. PICK w \in Nat \ {0} : w = Weight(k + 1) /\ Weight(k + 1 + 1) = a * w
        BY ONLY <1>2, <3>1, WidthFacts, Weights
      <3>3. PICK x \in Nat, y \in 0..(a - 1) : x = u[k] /\ y = s[k + 1] /\ x < w
        BY ONLY <1>3, <1>6, <3>1, <3>2
      <3>4. x + y * w < a * w
        <4>1. y * w <= (a - 1) * w
          OBVIOUS
        <4>2. (a - 1) * w = a * w - w
          OBVIOUS
        <4>3. y * w \in Nat /\ a * w \in Nat
          OBVIOUS
        <4>4. PICK c \in Nat, e \in Nat : c = y * w /\ e = a * w
          BY ONLY <4>3
        <4>5. c <= e - w
          BY ONLY <4>1, <4>2, <4>4
        <4>6. x + c < e
          BY ONLY <3>3, <4>5, x \in Nat, w \in Nat \ {0}, c \in Nat, e \in Nat
        <4> QED
          BY ONLY <4>4, <4>6
      <3>5. u[k + 1] = x + y * w
        BY ONLY <1>6, <3>1, <3>2, <3>3
      <3> QED
        BY ONLY <3>1, <3>2, <3>4, <3>5 DEF P
    <2> QED
      BY <2>1
  <1>9. P \in SUBSET Nat
    OBVIOUS
  <1> HIDE DEF P
  <1>10. n \in P /\ n \in 0..n /\ n <= n
    BY <1>7, <1>8, <1>9, SetInduction
  <1>11. u[n] < Weight(n + 1) /\ u[n] \in Nat /\ n + 1 \in 1..5
    BY ONLY <1>6, <1>10, n \in 0..4 DEF P
  <1>12. PICK w \in Nat, l \in Nat : w = Weight(n + 1) /\ l = Limit /\ w <= l
    <2>1. n + 1 \in Nat \ {0}
      OBVIOUS
    <2> QED
      BY ONLY <1>11, <2>1, WidthFacts, Weights
  <1>13. u[n] \in 0..(l - 1)
    BY ONLY <1>11, <1>12, w \in Nat, l \in Nat
  <1> QED
    BY ONLY <1>1, <1>5, <1>12, <1>13 DEF Word32

(* A byte that is extended.                                                *)
LEMMA ExtendedByte ==
    ASSUME NEW b \in Byte
    PROVE  /\ Word(Int8(b)) = IF b >= S!Base \div 2 THEN b + S!Limit - S!Base ELSE b
           /\ Word(Int8(b)) \in Word32
  <1>1. PICK a \in Nat \ {0}, l \in Nat \ {0} : a = Base /\ l = Limit /\ a <= l
    BY WidthFacts, Weights
  <1>2. PICK x \in 0..(a - 1) : x = b
    BY <1>1 DEF Byte
  <1>3. a \div 2 \in Nat
    OBVIOUS
  <1>4. CASE x < a \div 2
    <2>1. Int8(b) = x /\ x \in 0..(l - 1)
      BY ONLY <1>1, <1>2, <1>4, x \in 0..(a - 1), a \in Nat \ {0}, l \in Nat \ {0} DEF Int8
    <2>2. Word(x) = x /\ x \in Word32
      BY ONLY <1>1, <2>1, SignedFacts DEF Word32
    <2>3. ~(x >= a \div 2)
      BY <1>3, <1>4
    <2> QED
      BY ONLY <1>1, <1>2, <2>1, <2>2, <2>3, SameNumbers
  <1>5. CASE ~(x < a \div 2)
    <2>1. Int8(b) = x - a
      BY ONLY <1>1, <1>2, <1>5 DEF Int8
    <2>2. x + l - a \in 0..(l - 1) /\ (x + l - a) + (-1) * l = x - a /\ x + l - a \in Int /\ -1 \in Int
      BY <1>1
    <2>3. x + l - a \in Word32
      BY ONLY <1>1, <2>2 DEF Word32
    <2>4. Word(x - a) = x + l - a
      BY ONLY <1>1, <2>2, <2>3, SignedFacts
    <2>5. x >= a \div 2
      BY <1>3, <1>5
    <2> QED
      BY ONLY <1>1, <1>2, <2>1, <2>3, <2>4, <2>5, SameNumbers
  <1> QED
    BY ONLY <1>4, <1>5

----------------------------------------------------------------------------
(* The words of the stack and the values they are; memory and types.       *)

\* vs are the values of types ts that the words s are.
Represents(vs, s, ts) ==
    /\ ts \in Seq(Nat) /\ vs \in Seq(Seq(Word32)) /\ Len(vs) = Len(ts)
    /\ \A k \in 1..Len(ts) : Len(vs[k]) = M!Wide(ts[k])
    /\ s = FlattenSeq(vs)

(* A value is one word or two.                                             *)
LEMMA WideIs == \A t : M!Wide(t) \in {1, 2}
  BY DEF M!Wide

(* What is cut out of a beginning.                                         *)
LEMMA CutFront ==
    ASSUME NEW X, NEW r \in Seq(X), NEW s \in Seq(X), NEW a \in Nat, NEW b \in Nat, b <= Len(r)
    PROVE  SubSeq(r \o s, a + 1, b) = SubSeq(r, a + 1, b)
  <1>1. PICK n \in Nat : n = Len(r)
    OBVIOUS
  <1>2. PICK k \in Nat : k = Len(s)
    OBVIOUS
  <1>3. \A i \in 1..(n + k) : (r \o s)[i] = IF i <= n THEN r[i] ELSE s[i - n]
    BY ONLY <1>1, <1>2, ConcatIndex, r \in Seq(X), s \in Seq(X)
  <1>4. \A i \in (a + 1)..b : (r \o s)[i] = r[i]
    <2>1. \A i \in (a + 1)..b : i \in 1..(n + k) /\ i <= n
      BY ONLY <1>1, b <= Len(r), a \in Nat, b \in Nat, n \in Nat, k \in Nat
    <2> QED
      BY ONLY <1>3, <2>1
  <1>5. PICK t : t = r \o s
    OBVIOUS
  <1>6. SubSeq(t, a + 1, b) = [i \in 1..((b - a)) |-> t[i + a]] /\ SubSeq(r, a + 1, b) = [i \in 1..(b - a) |-> r[i + a]]
    <2>1. (b - (a + 1)) + 1 = b - a /\ \A i \in 1..(b - a) : i + (a + 1) - 1 = i + a
      BY ONLY a \in Nat, b \in Nat
    <2>2. \A q \in Seq(X) : SubSeq(q, a + 1, b) = [i \in 1..(b - a) |-> q[i + a]]
      BY ONLY <2>1, a \in Nat, b \in Nat
    <2>3. t \in Seq(X)
      BY ONLY <1>5, r \in Seq(X), s \in Seq(X)
    <2> QED
      BY ONLY <2>2, <2>3, r \in Seq(X)
  <1>7. \A i \in 1..(b - a) : t[i + a] = r[i + a]
    <2>1. \A i \in 1..(b - a) : i + a \in (a + 1)..b
      BY ONLY a \in Nat, b \in Nat
    <2> QED
      BY ONLY <1>4, <1>5, <2>1
  <1> QED
    BY ONLY <1>5, <1>6, <1>7

(* What is cut off is the second of two.                                   *)
LEMMA CutBack ==
    ASSUME NEW X, NEW r \in Seq(X), NEW s \in Seq(X)
    PROVE  /\ SubSeq(r \o s, Len(r) + 1, Len(r) + Len(s)) = s
           /\ SubSeq(r \o s, 1, Len(r)) = r
  OBVIOUS

(* The words in front of each value.                                       *)
LEMMA ValuesSums ==
    ASSUME NEW s, NEW ts \in Seq(Nat)
    PROVE  \E u : /\ Sums(Len(ts), [k \in 1..Len(ts) |-> M!Wide(ts[k])], u)
                  /\ Values(s, ts) = IF u[Len(ts)] # Len(s) THEN <<"none">>
                                     ELSE [k \in DOMAIN ts |-> SubSeq(s, u[k - 1] + 1, u[k])]
  <1> DEFINE w == [k \in 1..Len(ts) |-> M!Wide(ts[k])]
             u == CHOOSE f : f = [k \in 0..Len(ts) |-> IF k = 0 THEN 0 ELSE f[k - 1] + M!Wide(ts[k])]
             v == CHOOSE f : f = [k \in 0..Len(ts) |-> IF k = 0 THEN 0 ELSE f[k - 1] + w[k]]
             R(f) == IF f[Len(ts)] # Len(s) THEN <<"none">>
                     ELSE [k \in DOMAIN ts |-> SubSeq(s, f[k - 1] + 1, f[k])]
  <1>1. Len(ts) \in Nat
    OBVIOUS
  <1>2. \A k \in 1..Len(ts) : w[k] \in Nat
    BY WideIs
  <1>3. \A f : [k \in 0..Len(ts) |-> IF k = 0 THEN 0 ELSE f[k - 1] + M!Wide(ts[k])]
                 = [k \in 0..Len(ts) |-> IF k = 0 THEN 0 ELSE f[k - 1] + w[k]]
    <2>1. \A k \in 0..Len(ts) : k = 0 \/ k \in 1..Len(ts)
      BY <1>1
    <2>2. \A k \in 1..Len(ts) : w[k] = M!Wide(ts[k])
      OBVIOUS
    <2> HIDE DEF w
    <2> QED
      BY ONLY <2>1, <2>2
  <1>4. u = v
    <2> HIDE DEF w
    <2> QED
      BY ONLY <1>3 DEF u, v
  <1>5. Values(s, ts) = R(u)
    BY ONLY TRUE DEF Values
  <1> HIDE DEF w
  <1>6. Sums(Len(ts), w, v)
    BY ONLY <1>1, <1>2, SumNat DEF v
  <1> HIDE DEF u, v
  <1>7. Values(s, ts) = R(v)
    BY ONLY <1>4, <1>5
  <1> QED
    BY ONLY <1>6, <1>7 DEF w

(* Values are found in the words they are.                                 *)
LEMMA ValuesUnique ==
    ASSUME NEW vs, NEW s, NEW ts, Represents(vs, s, ts)
    PROVE  Values(s, ts) = vs
  <1>1. PICK n \in Nat : n = Len(ts)
    BY DEF Represents
  <1>2. PICK X : X = Word32
    OBVIOUS
  <1>3. /\ ts \in Seq(Nat) /\ vs \in Seq(Seq(X)) /\ Len(vs) = n /\ DOMAIN ts = 1..n
        /\ \A k \in 1..n : Len(vs[k]) = M!Wide(ts[k]) /\ vs[k] \in Seq(X)
    <2>1. ts \in Seq(Nat) /\ vs \in Seq(Seq(X)) /\ Len(vs) = n
      BY ONLY <1>1, <1>2, Represents(vs, s, ts) DEF Represents
    <2>2. \A k \in 1..n : vs[k] \in Seq(X)
      BY ONLY <2>1
    <2>3. DOMAIN ts = 1..n
      BY ONLY <1>1, <2>1
    <2> QED
      BY ONLY <1>1, <2>1, <2>2, <2>3, Represents(vs, s, ts) DEF Represents
  <1>4. PICK u : /\ Sums(n, [k \in 1..n |-> M!Wide(ts[k])], u)
                 /\ Values(s, ts) = IF u[n] # Len(s) THEN <<"none">>
                                    ELSE [k \in DOMAIN ts |-> SubSeq(s, u[k - 1] + 1, u[k])]
    <2>1. PICK u : /\ Sums(Len(ts), [k \in 1..Len(ts) |-> M!Wide(ts[k])], u)
                   /\ Values(s, ts) = IF u[Len(ts)] # Len(s) THEN <<"none">>
                                      ELSE [k \in DOMAIN ts |-> SubSeq(s, u[k - 1] + 1, u[k])]
      <3>1. ts \in Seq(Nat)
        BY ONLY <1>3
      <3> QED
        BY ONLY <3>1, ValuesSums
    <2> QED
      BY ONLY <1>1, <2>1
  <1>5. /\ u[0] = 0 /\ (\A k \in 1..n : u[k] = u[k - 1] + Len(vs[k])) /\ \A k \in 0..n : u[k] \in Nat
    BY ONLY <1>3, <1>4 DEF Sums
  <1> DEFINE F(k) == FlattenSeq(SubSeq(vs, 1, k))
             Found(k) == /\ F(k) \in Seq(X) /\ Len(F(k)) = u[k]
                         /\ \A j \in 1..k : u[j] <= u[k] /\ vs[j] = SubSeq(F(k), u[j - 1] + 1, u[j])
             P == {k \in Nat : k <= n => Found(k)}
  <1>6. 0 \in P
    <2>1. SubSeq(vs, 1, 0) = <<>> /\ <<>> \in Seq(X) /\ Len(<<>>) = 0
      BY <1>3
    <2>2. F(0) = <<>>
      BY ONLY <2>1, FlattenEmpty
    <2>3. \A j \in 1..0 : FALSE
      OBVIOUS
    <2> HIDE DEF F
    <2> QED
      BY ONLY <1>5, <2>1, <2>2, <2>3
  <1>7. ASSUME NEW k \in P PROVE k + 1 \in P
    <2>1. CASE k + 1 <= n
      <3>1. k \in Nat /\ k <= n /\ k \in 0..n /\ k + 1 \in 1..n /\ (k + 1) - 1 = k
        BY <2>1
      <3>2. PICK v : v = vs[k + 1]
        OBVIOUS
      <3>3. v \in Seq(X)
        BY ONLY <1>3, <3>1, <3>2
      <3>4. SubSeq(vs, 1, k + 1) = Append(SubSeq(vs, 1, k), v) /\ SubSeq(vs, 1, k) \in Seq(Seq(X))
        BY ONLY <1>3, <3>1, <3>2, n \in Nat
      <3>5. PICK f, g : f = F(k) /\ g = F(k + 1)
        OBVIOUS
      <3>6. f \in Seq(X) /\ Len(f) = u[k] /\ \A j \in 1..k : u[j] <= u[k] /\ vs[j] = SubSeq(f, u[j - 1] + 1, u[j])
        BY ONLY <3>1, <3>5, k \in P
      <3>7. g = f \o v
        BY ONLY <3>3, <3>4, <3>5, FlattenSnoc
      <3>8. g \in Seq(X) /\ Len(g) = Len(f) + Len(v) /\ Len(v) \in Nat
        <4>1. f \in Seq(X)
          BY ONLY <3>6
        <4>2. \A Y : \A a, b \in Seq(Y) : a \o b \in Seq(Y) /\ Len(a \o b) = Len(a) + Len(b) /\ Len(b) \in Nat
          OBVIOUS
        <4> QED
          BY ONLY <3>3, <3>7, <4>1, <4>2
      <3>9. u[k + 1] = u[k] + Len(v) /\ u[k] \in Nat
        BY ONLY <1>5, <3>1, <3>2
      <3>10. v = SubSeq(g, u[k] + 1, u[k + 1])
        <4>1. SubSeq(f \o v, Len(f) + 1, Len(f) + Len(v)) = v
          BY ONLY <3>3, <3>6, CutBack
        <4> QED
          BY ONLY <3>6, <3>7, <3>9, <4>1
      <3>11. ASSUME NEW j \in 1..k PROVE u[j] <= u[k + 1] /\ vs[j] = SubSeq(g, u[j - 1] + 1, u[j])
        <4>1. j \in 0..n /\ j - 1 \in 0..n
          BY ONLY <3>1, j \in 1..k, n \in Nat
        <4>2. u[j] \in Nat /\ u[j - 1] \in Nat /\ u[j] <= u[k] /\ vs[j] = SubSeq(f, u[j - 1] + 1, u[j])
          <5>1. u[j] \in Nat /\ u[j - 1] \in Nat
            BY ONLY <1>5, <4>1
          <5>2. u[j] <= u[k] /\ vs[j] = SubSeq(f, u[j - 1] + 1, u[j])
            BY ONLY <3>6, j \in 1..k
          <5> QED
            BY ONLY <5>1, <5>2
        <4>3. SubSeq(g, u[j - 1] + 1, u[j]) = SubSeq(f, u[j - 1] + 1, u[j])
          <5>1. PICK a \in Nat, b \in Nat : a = u[j - 1] /\ b = u[j] /\ b <= Len(f)
            BY ONLY <3>6, <4>2
          <5>2. SubSeq(f \o v, a + 1, b) = SubSeq(f, a + 1, b)
            <6>1. f \in Seq(X) /\ b <= Len(f)
              BY ONLY <3>6, <5>1
            <6> QED
              BY ONLY <3>3, <6>1, CutFront, a \in Nat, b \in Nat
          <5> QED
            BY ONLY <3>7, <5>1, <5>2
        <4>4. u[j] <= u[k + 1]
          <5>1. PICK a \in Nat, b \in Nat, c \in Nat : a = u[j] /\ b = u[k] /\ c = Len(v)
            BY ONLY <3>8, <3>9, <4>2
          <5> QED
            BY ONLY <3>9, <4>2, <5>1, a \in Nat, b \in Nat, c \in Nat
        <4> QED
          BY ONLY <4>2, <4>3, <4>4
      <3>12. \A j \in 1..(k + 1) : j = k + 1 \/ j \in 1..k
        BY ONLY <3>1
      <3>13. \A j \in 1..(k + 1) : u[j] <= u[k + 1] /\ vs[j] = SubSeq(g, u[j - 1] + 1, u[j])
        <4>1. u[k + 1] <= u[k + 1]
          BY ONLY <3>8, <3>9
        <4> QED
          BY ONLY <3>1, <3>2, <3>10, <3>11, <3>12, <4>1
      <3>14. Len(g) = u[k + 1]
        BY ONLY <3>6, <3>8, <3>9
      <3>15. Found(k + 1)
        BY ONLY <3>5, <3>8, <3>13, <3>14
      <3> HIDE DEF Found
      <3> QED
        BY ONLY <3>1, <3>15
    <2> HIDE DEF Found
    <2> QED
      BY <2>1
  <1>8. P \in SUBSET Nat
    OBVIOUS
  <1> HIDE DEF P, Found
  <1>9. n \in P /\ n <= n
    BY <1>6, <1>7, <1>8, SetInduction
  <1>10. Found(n)
    BY ONLY <1>9 DEF P
  <1>11. F(n) = s
    <2>1. SubSeq(vs, 1, n) = vs
      BY ONLY <1>3
    <2> QED
      BY ONLY <2>1, Represents(vs, s, ts) DEF Represents
  <1> HIDE DEF F
  <1>12. Len(s) = u[n] /\ \A j \in 1..n : vs[j] = SubSeq(s, u[j - 1] + 1, u[j])
    BY ONLY <1>10, <1>11 DEF Found
  <1>13. Values(s, ts) = [k \in 1..n |-> vs[k]]
    BY ONLY <1>3, <1>4, <1>12
  <1>14. vs = [k \in 1..n |-> vs[k]]
    BY ONLY <1>3
  <1> QED
    BY ONLY <1>13, <1>14

(* An empty stack has no values.                                           *)
LEMMA RepEmpty == Represents(<<>>, <<>>, <<>>)
  <1>1. <<>> \in Seq(Nat) /\ <<>> \in Seq(Seq(Word32)) /\ \A k \in 1..Len(<<>>) : FALSE
    OBVIOUS
  <1> QED
    BY ONLY <1>1, FlattenEmpty DEF Represents

(* A value more.                                                           *)
LEMMA RepPush ==
    ASSUME NEW vs, NEW s, NEW ts, Represents(vs, s, ts), NEW v \in Seq(Word32), NEW t \in Nat, Len(v) = M!Wide(t)
    PROVE  Represents(vs \o <<v>>, s \o v, Append(ts, t))
  <1>1. PICK X : X = Seq(Word32)
    OBVIOUS
  <1>2. /\ ts \in Seq(Nat) /\ vs \in Seq(X) /\ Len(vs) = Len(ts) /\ v \in X
        /\ \A k \in 1..Len(ts) : Len(vs[k]) = M!Wide(ts[k])
        /\ s = FlattenSeq(vs)
    BY ONLY <1>1, Represents(vs, s, ts), v \in Seq(Word32) DEF Represents
  <1>3. PICK n \in Nat : n = Len(ts)
    BY ONLY <1>2
  <1>4. PICK us, rs : us = Append(vs, v) /\ rs = Append(ts, t)
    OBVIOUS
  <1>5. us \in Seq(X) /\ Len(us) = n + 1 /\ us[n + 1] = v /\ \A k \in 1..n : us[k] = vs[k]
    BY ONLY <1>2, <1>3, <1>4
  <1>6. rs \in Seq(Nat) /\ Len(rs) = n + 1 /\ rs[n + 1] = t /\ \A k \in 1..n : rs[k] = ts[k]
    <2>1. ts \in Seq(Nat)
      BY ONLY <1>2
    <2> QED
      BY ONLY <2>1, <1>3, <1>4, t \in Nat
  <1>7. \A k \in 1..(n + 1) : k = n + 1 \/ k \in 1..n
    BY ONLY n \in Nat
  <1>8. \A k \in 1..(n + 1) : Len(us[k]) = M!Wide(rs[k])
    BY ONLY <1>2, <1>3, <1>5, <1>6, <1>7, Len(v) = M!Wide(t)
  <1>9. FlattenSeq(us) = s \o v
    <2>1. vs \in Seq(Seq(Word32))
      BY ONLY <1>1, <1>2
    <2> QED
      BY ONLY <1>2, <1>4, <2>1, FlattenSnoc, v \in Seq(Word32)
  <1>10. us = vs \o <<v>>
    <2>1. \A Y : \A a \in Seq(Y), e \in Y : a \o <<e>> = Append(a, e)
      OBVIOUS
    <2> QED
      BY ONLY <1>2, <1>4, <2>1
  <1> QED
    BY ONLY <1>1, <1>4, <1>5, <1>6, <1>8, <1>9, <1>10 DEF Represents

\* vs are w and v, the words of v the last of s.
Splits(vs, s, ts, w, q, v, t, rs) ==
    /\ w = SubSeq(vs, 1, Len(vs) - 1) /\ v = vs[Len(vs)] /\ t = ts[Len(ts)] /\ rs = SubSeq(ts, 1, Len(ts) - 1)
    /\ vs = Append(w, v) /\ ts = Append(rs, t) /\ rs \in Seq(Nat) /\ t \in Nat
    /\ Represents(w, q, rs) /\ s = q \o v /\ q \in Seq(Word32)
    /\ v \in Seq(Word32) /\ Len(v) = M!Wide(t) /\ Len(w) = Len(vs) - 1

(* The value on top.                                                       *)
LEMMA RepPop ==
    ASSUME NEW vs, NEW s, NEW ts, Represents(vs, s, ts), ts # <<>>
    PROVE  \E w, q, v, t, rs : Splits(vs, s, ts, w, q, v, t, rs)
  <1>1. PICK X : X = Seq(Word32)
    OBVIOUS
  <1>2. /\ ts \in Seq(Nat) /\ vs \in Seq(X) /\ Len(vs) = Len(ts)
        /\ \A k \in 1..Len(ts) : Len(vs[k]) = M!Wide(ts[k])
        /\ s = FlattenSeq(vs)
    BY ONLY <1>1, Represents(vs, s, ts) DEF Represents
  <1>3. PICK n \in Nat : n + 1 = Len(ts)
    <2>1. ts \in Seq(Nat)
      BY ONLY <1>2
    <2>2. Len(ts) \in Nat /\ Len(ts) # 0
      BY ONLY <2>1, ts # <<>>
    <2>3. \A i \in Nat : i # 0 => i - 1 \in Nat /\ (i - 1) + 1 = i
      OBVIOUS
    <2> QED
      BY ONLY <2>2, <2>3
  <1>4. (n + 1) - 1 = n /\ n + 1 \in 1..(n + 1) /\ \A k \in 1..n : k \in 1..(n + 1)
    BY ONLY n \in Nat
  <1>5. PICK w, v, t, rs : w = SubSeq(vs, 1, n) /\ v = vs[n + 1] /\ t = ts[n + 1] /\ rs = SubSeq(ts, 1, n)
    OBVIOUS
  <1>6. \A Y : \A f \in Seq(Y) : Len(f) = n + 1 =>
            /\ SubSeq(f, 1, n) \in Seq(Y) /\ f[n + 1] \in Y /\ f = Append(SubSeq(f, 1, n), f[n + 1])
            /\ Len(SubSeq(f, 1, n)) = n /\ \A k \in 1..n : SubSeq(f, 1, n)[k] = f[k]
    BY ONLY n \in Nat
  <1>7. w \in Seq(X) /\ v \in X /\ vs = Append(w, v) /\ Len(w) = n /\ \A k \in 1..n : w[k] = vs[k]
    BY ONLY <1>2, <1>3, <1>5, <1>6
  <1>8. rs \in Seq(Nat) /\ t \in Nat /\ ts = Append(rs, t) /\ Len(rs) = n /\ \A k \in 1..n : rs[k] = ts[k]
    BY ONLY <1>2, <1>3, <1>5, <1>6
  <1>9. PICK q : q = FlattenSeq(w)
    OBVIOUS
  <1>10. s = q \o v
    BY ONLY <1>1, <1>2, <1>7, <1>9, FlattenSnoc
  <1>11. Len(v) = M!Wide(t)
    BY ONLY <1>2, <1>3, <1>4, <1>5
  <1>12. q \in Seq(Word32)
    BY ONLY <1>1, <1>7, <1>9, FlattenType
  <1>13. Represents(w, q, rs)
    <2>1. \A k \in 1..n : Len(w[k]) = M!Wide(rs[k])
      BY ONLY <1>2, <1>3, <1>4, <1>7, <1>8
    <2> QED
      BY ONLY <1>1, <1>7, <1>8, <1>9, <2>1 DEF Represents
  <1>14. /\ w = SubSeq(vs, 1, Len(vs) - 1) /\ v = vs[Len(vs)] /\ t = ts[Len(ts)] /\ rs = SubSeq(ts, 1, Len(ts) - 1)
         /\ Len(w) = Len(vs) - 1
    BY ONLY <1>2, <1>3, <1>4, <1>5, <1>7
  <1> QED
    BY ONLY <1>1, <1>7, <1>8, <1>10, <1>11, <1>12, <1>13, <1>14 DEF Splits

(* How words are taken from a stack and put on it.                         *)
LEMMA StackWords ==
    ASSUME NEW s \in Seq(Word32)
    PROVE  /\ \A a \in Word32 : readi32(s \o <<a>>) = a /\ After32(s \o <<a>>) = s
           /\ \A a, b \in Word32 : readi64(s \o <<a, b>>) = <<a, b>> /\ After64(s \o <<a, b>>) = s
           /\ \A a \in Word32 : writei32(s, a) = IF Len(s \o <<a>>) > StackSize THEN s ELSE s \o <<a>>
           /\ \A a, b \in Word32 : writei64(s, <<a, b>>) = IF Len(s \o <<a, b>>) > StackSize THEN s ELSE s \o <<a, b>>
  <1>1. PICK X : X = Word32
    OBVIOUS
  <1>2. PICK n \in Nat : n = Len(s)
    OBVIOUS
  <1>3. ASSUME NEW a \in X
        PROVE  /\ readi32(s \o <<a>>) = a /\ After32(s \o <<a>>) = s
               /\ writei32(s, a) = IF Len(s \o <<a>>) > StackSize THEN s ELSE s \o <<a>>
    <2>1. PICK t : t = s \o <<a>>
      OBVIOUS
    <2>2. s \in Seq(X)
      BY ONLY <1>1, s \in Seq(Word32)
    <2>3. t = Append(s, a) /\ t # <<>> /\ t[Len(t)] = a /\ SubSeq(t, 1, Len(t) - 1) = s /\ Len(t) = n + 1
      BY ONLY <1>2, <2>1, <2>2, a \in X
    <2> QED
      BY ONLY <1>2, <2>1, <2>3 DEF readi32, After32, Popped, writei32
  <1>4. ASSUME NEW a \in X, NEW b \in X
        PROVE  /\ readi64(s \o <<a, b>>) = <<a, b>> /\ After64(s \o <<a, b>>) = s
               /\ writei64(s, <<a, b>>) = IF Len(s \o <<a, b>>) > StackSize THEN s ELSE s \o <<a, b>>
    <2>1. PICK t : t = s \o <<a, b>>
      OBVIOUS
    <2>2. s \in Seq(X)
      BY ONLY <1>1, s \in Seq(Word32)
    <2>3. Len(t) = n + 2 /\ t[n + 1] = a /\ t[n + 2] = b /\ SubSeq(t, 1, n) = s
      BY ONLY <1>2, <2>1, <2>2, a \in X, b \in X
    <2>4. ~(n + 2 < 2) /\ (n + 2) - 1 = n + 1 /\ (n + 2) - 2 = n
      BY ONLY n \in Nat
    <2> QED
      BY ONLY <1>2, <2>1, <2>3, <2>4 DEF readi64, After64, Popped, writei64
  <1> QED
    BY ONLY <1>1, <1>3, <1>4

(* The names of WasmStore for the instructions.                            *)
LEMMA SameKinds ==
    /\ S!End = End /\ S!Drop = Drop /\ S!I32Eqz = I32Eqz
    /\ S!LocalGet = LocalGet /\ S!LocalSet = LocalSet /\ S!GlobalGet = GlobalGet /\ S!GlobalSet = GlobalSet
    /\ S!I32Const = I32Const /\ S!I64Const = I64Const
    /\ S!I64Load = I64Load /\ S!I32Load8_s = I32Load8_s /\ S!I64Store = I64Store
    /\ S!Loads = Loads /\ S!Stores = Stores /\ S!Indexed = Indexed /\ S!Consts = Consts
    /\ S!Divisions = Divisions /\ S!Binaries = Binaries /\ S!Relations = Relations
    /\ S!I32 = I32 /\ S!I64 = I64
  <1>1. /\ S!End = End /\ S!Drop = Drop /\ S!I32Eqz = I32Eqz
        /\ S!LocalGet = LocalGet /\ S!LocalSet = LocalSet /\ S!GlobalGet = GlobalGet /\ S!GlobalSet = GlobalSet
        /\ S!I32Const = I32Const /\ S!I64Const = I64Const /\ S!I32 = I32 /\ S!I64 = I64
    BY ONLY TRUE DEF S!End, End, S!Drop, Drop, S!I32Eqz, I32Eqz, S!LocalGet, LocalGet, S!LocalSet, LocalSet,
       S!GlobalGet, GlobalGet, S!GlobalSet, GlobalSet, S!I32Const, I32Const, S!I64Const, I64Const,
       S!I32, I32, S!I64, I64
  <1>2. /\ S!I32Load = I32Load /\ S!I64Load = I64Load /\ S!I32Load8_s = I32Load8_s /\ S!I32Load8_u = I32Load8_u
        /\ S!I32Load16_u = I32Load16_u /\ S!I32Store = I32Store /\ S!I64Store = I64Store /\ S!I32Store8 = I32Store8
    BY ONLY TRUE DEF S!I32Load, I32Load, S!I64Load, I64Load, S!I32Load8_s, I32Load8_s, S!I32Load8_u, I32Load8_u,
       S!I32Load16_u, I32Load16_u, S!I32Store, I32Store, S!I64Store, I64Store, S!I32Store8, I32Store8
  <1>3. /\ S!I32Eq = I32Eq /\ S!I32Ne = I32Ne /\ S!I32Lt_s = I32Lt_s /\ S!I32Gt_s = I32Gt_s /\ S!I32Gt_u = I32Gt_u
        /\ S!I32Ge_s = I32Ge_s /\ S!I32Add = I32Add /\ S!I32Sub = I32Sub /\ S!I32Mul = I32Mul /\ S!I32And = I32And
        /\ S!I32Or = I32Or /\ S!I32Xor = I32Xor /\ S!I32Shl = I32Shl /\ S!I32Shr_s = I32Shr_s
        /\ S!I32Div_s = I32Div_s /\ S!I32Rem_s = I32Rem_s
    BY ONLY TRUE DEF S!I32Eq, I32Eq, S!I32Ne, I32Ne, S!I32Lt_s, I32Lt_s, S!I32Gt_s, I32Gt_s, S!I32Gt_u, I32Gt_u,
       S!I32Ge_s, I32Ge_s, S!I32Add, I32Add, S!I32Sub, I32Sub, S!I32Mul, I32Mul, S!I32And, I32And, S!I32Or, I32Or,
       S!I32Xor, I32Xor, S!I32Shl, I32Shl, S!I32Shr_s, I32Shr_s, S!I32Div_s, I32Div_s, S!I32Rem_s, I32Rem_s
  <1> QED
    BY ONLY <1>1, <1>2, <1>3 DEF S!Loads, Loads, S!Stores, Stores, S!Indexed, Indexed, S!Consts, Consts,
       S!Divisions, Divisions, S!Binaries, Binaries, S!Relations, Relations

(* An access is as wide for WASM as for the embedder.                      *)
LEMMA SameSize == \A op : S!Width8(op) = Size(op)
  BY DEF S!Width8, Size, S!I32Load, I32Load, S!I32Store, I32Store, S!I64Load, I64Load, S!I64Store, I64Store,
         S!I32Load16_u, I32Load16_u

(* Bytes from the middle of memory.                                        *)
LEMMA CutMiddle ==
    ASSUME NEW X, NEW s \in Seq(X), NEW ea \in Nat, NEW n \in Nat, ea + n <= Len(s)
    PROVE  /\ SubSeq(s, ea + 1, ea + n) \in Seq(X) /\ Len(SubSeq(s, ea + 1, ea + n)) = n
           /\ \A k \in 1..n : SubSeq(s, ea + 1, ea + n)[k] = s[ea + k]
           /\ \A k \in 0..n : SubSeq(SubSeq(s, ea + 1, ea + n), 1, k) = SubSeq(s, ea + 1, ea + k)
  <1>1. ea + 1 \in 1..(Len(s) + 1) /\ ea + n \in 0..Len(s) /\ (ea + n) - (ea + 1) + 1 = n
    OBVIOUS
  <1>2. SubSeq(s, ea + 1, ea + n) \in Seq(X)
    BY <1>1
  <1>3. Len(SubSeq(s, ea + 1, ea + n)) = n
    BY <1>1
  <1>4. \A k \in 1..n : SubSeq(s, ea + 1, ea + n)[k] = s[ea + k]
    <2>1. \A k \in 1..n : k + (ea + 1) - 1 = ea + k
      OBVIOUS
    <2> QED
      BY ONLY <1>1, <2>1, s \in Seq(X), ea \in Nat, n \in Nat
  <1>5. ASSUME NEW k \in 0..n PROVE SubSeq(SubSeq(s, ea + 1, ea + n), 1, k) = SubSeq(s, ea + 1, ea + k)
    <2>1. PICK t : t = SubSeq(s, ea + 1, ea + n)
      OBVIOUS
    <2>2. t \in Seq(X) /\ Len(t) = n /\ \A j \in 1..n : t[j] = s[ea + j]
      BY ONLY <1>2, <1>3, <1>4, <2>1
    <2>3. SubSeq(t, 1, k) = [j \in 1..k |-> t[j]]
      BY ONLY <2>2, k \in 0..n, n \in Nat
    <2>4. SubSeq(s, ea + 1, ea + k) = [j \in 1..k |-> s[ea + j]]
      <3>1. (ea + k) - (ea + 1) + 1 = k /\ \A j \in 1..k : j + (ea + 1) - 1 = ea + j
        BY ONLY k \in 0..n, ea \in Nat, n \in Nat
      <3> QED
        BY ONLY <3>1, s \in Seq(X), ea \in Nat, n \in Nat, k \in 0..n
    <2>5. \A j \in 1..k : t[j] = s[ea + j]
      BY ONLY <2>2, k \in 0..n, n \in Nat
    <2> QED
      BY ONLY <2>1, <2>3, <2>4, <2>5
  <1> QED
    BY ONLY <1>2, <1>3, <1>4, <1>5

(* What is loaded is what WASM says.                                       *)
LEMMA LoadedIs ==
    ASSUME NEW op \in Loads, NEW s \in Seq(Word32), NEW ea \in Nat, NEW r \in Seq(Byte), ea + Size(op) <= Len(r),
           storeBar.mem = r, S!Effective = ea, NEW v, v = S!LoadedValue(op)
    PROVE  /\ v \in Seq(Word32) /\ Len(v) = IF op = I64Load THEN 2 ELSE 1
           /\ Loaded(op, s, SubSeq(r, ea + 1, ea + Size(op))) = IF Len(s \o v) > StackSize THEN s ELSE s \o v
  <1>1. \A n : S!Read(n) = SubSeq(r, ea + 1, ea + n)
    BY ONLY storeBar.mem = r, S!Effective = ea DEF S!Read
  <1>2. PICK n \in Nat : n = Size(op)
    BY SizeFacts
  <1>3. PICK b : b = SubSeq(r, ea + 1, ea + n)
    OBVIOUS
  <1>4. b \in Seq(Byte) /\ Len(b) = n /\ \A k \in 0..n : SubSeq(b, 1, k) = S!Read(k)
    <2>1. ea + n <= Len(r)
      BY ONLY <1>2, ea + Size(op) <= Len(r)
    <2>2. /\ b \in Seq(Byte) /\ Len(b) = n
          /\ \A k \in 0..n : SubSeq(b, 1, k) = SubSeq(r, ea + 1, ea + k)
      BY ONLY <1>3, <2>1, CutMiddle, r \in Seq(Byte), ea \in Nat, n \in Nat
    <2> QED
      BY ONLY <1>1, <2>2
  <1>5. \A x : x \in Word32 => <<x>> \in Seq(Word32) /\ Len(<<x>>) = 1
    OBVIOUS
  <1>6. S!LoadedValue(op) =
          CASE op = I64Load    -> <<Number(SubSeq(S!Read(8), 5, 8)), Number(S!Read(4))>>
            [] op = I32Load8_s -> <<IF S!Read(1)[1] >= S!Base \div 2 THEN S!Read(1)[1] + S!Limit - S!Base ELSE S!Read(1)[1]>>
            [] OTHER           -> <<Number(S!Read(n))>>
    BY ONLY <1>2, SameKinds, SameNumbers, SameSize DEF S!LoadedValue
  <1>7. CASE op = I64Load
    <2>1. n = 8
      BY ONLY <1>2, <1>7, SizeFacts
    <2>2. b = S!Read(8) /\ SubSeq(b, 1, 4) = S!Read(4)
      BY ONLY <1>1, <1>3, <1>4, <2>1, 4 \in 0..8
    <2>3. SubSeq(b, 4 + 1, 4 + 4) \in Seq(Byte) /\ Len(SubSeq(b, 4 + 1, 4 + 4)) = 4
          /\ SubSeq(b, 0 + 1, 0 + 4) \in Seq(Byte) /\ Len(SubSeq(b, 0 + 1, 0 + 4)) = 4
      <3>1. 4 \in Nat /\ 0 \in Nat /\ 4 + 4 <= Len(b) /\ 0 + 4 <= Len(b)
        BY ONLY <1>4, <2>1
      <3> QED
        BY ONLY <1>4, <3>1, CutMiddle
    <2>4. 4 + 1 = 5 /\ 4 + 4 = 8 /\ 0 + 1 = 1 /\ 0 + 4 = 4 /\ 4 <= 4
      OBVIOUS
    <2>5. PICK x \in Word32, y \in Word32 : x = Number(SubSeq(b, 5, 8)) /\ y = Number(SubSeq(b, 1, 4))
      BY ONLY <2>3, <2>4, NumberWord
    <2>6. v = <<x, y>>
      <3>1. v = <<Number(SubSeq(S!Read(8), 5, 8)), Number(S!Read(4))>>
        BY ONLY <1>6, <1>7, v = S!LoadedValue(op) DEF I64Load, I32Load8_s
      <3> QED
        BY ONLY <2>2, <2>5, <3>1
    <2>7. v \in Seq(Word32) /\ Len(v) = 2
      <3>1. \A X : \A a, c \in X : <<a, c>> \in Seq(X) /\ Len(<<a, c>>) = 2
        OBVIOUS
      <3> QED
        BY ONLY <2>6, <3>1, x \in Word32, y \in Word32
    <2>8. Loaded(op, s, b) = writei64(s, v)
      BY ONLY <1>7, <2>5, <2>6 DEF Loaded, I64Load, I32Load8_s
    <2>9. writei64(s, v) = IF Len(s \o v) > StackSize THEN s ELSE s \o v
      BY ONLY <2>6, s \in Seq(Word32), StackWords, x \in Word32, y \in Word32
    <2> QED
      BY ONLY <1>2, <1>3, <1>7, <2>7, <2>8, <2>9
  <1>8. ASSUME NEW x \in Word32, v = <<x>>, op # I64Load, Loaded(op, s, b) = writei32(s, x)
        PROVE  /\ v \in Seq(Word32) /\ Len(v) = IF op = I64Load THEN 2 ELSE 1
               /\ Loaded(op, s, b) = IF Len(s \o v) > StackSize THEN s ELSE s \o v
    <2>1. writei32(s, x) = IF Len(s \o <<x>>) > StackSize THEN s ELSE s \o <<x>>
      BY ONLY s \in Seq(Word32), StackWords, x \in Word32
    <2> QED
      BY ONLY <1>5, <1>8, <2>1
  <1>9. CASE op = I32Load8_s
    <2>1. n = 1 /\ op # I64Load
      BY ONLY <1>2, <1>9 DEF Size, I32Load8_s, I32Load, I32Store, I64Load, I64Store, I32Load16_u
    <2>2. b = S!Read(1) /\ b[1] \in Byte
      <3>1. b[1] \in Byte
        BY ONLY <1>4, <2>1
      <3> QED
        BY ONLY <1>1, <1>3, <2>1, <3>1
    <2>3. PICK x \in Word32 : x = Word(Int8(b[1])) /\ v = <<x>>
      BY ONLY <1>6, <1>9, <2>1, <2>2, ExtendedByte, v = S!LoadedValue(op)
    <2>4. Loaded(op, s, b) = writei32(s, x)
      BY ONLY <1>9, <2>1, <2>3 DEF Loaded
    <2> QED
      BY ONLY <1>2, <1>3, <1>8, <2>1, <2>3, <2>4
  <1>10. CASE op # I64Load /\ op # I32Load8_s
    <2>1. n <= 4
      BY ONLY <1>2, <1>10, op \in Loads DEF Size, Loads, I32Load8_s, I32Load, I32Store, I64Load, I64Store, I32Load16_u,
         I32Load8_u
    <2>2. PICK x \in Word32 : x = Number(b)
      BY ONLY <1>4, <2>1, NumberWord
    <2>3. v = <<x>>
      BY ONLY <1>1, <1>3, <1>6, <1>10, <2>2, v = S!LoadedValue(op)
    <2>4. Loaded(op, s, b) = writei32(s, x)
      BY ONLY <1>10, <2>2 DEF Loaded
    <2> QED
      BY ONLY <1>2, <1>3, <1>8, <1>10, <2>3, <2>4
  <1> QED
    BY ONLY <1>7, <1>9, <1>10

(* The bytes of a word.                                                    *)
LEMMA BytesAre ==
    ASSUME NEW w \in Word32, NEW n \in Nat
    PROVE  Bytes(w, n) \in Seq(Byte) /\ Len(Bytes(w, n)) = n
           /\ \A k \in 1..n : Bytes(w, n)[k] = (w \div Weight(k)) % Base /\ Bytes(w, n)[k] \in Byte
  <1>1. PICK b \in Nat \ {0} : b = Base
    BY WidthFacts
  <1>2. PICK x \in Nat : x = w
    BY DEF Word32
  <1>3. ASSUME NEW k \in 1..n PROVE (w \div Weight(k)) % Base \in Byte
    <2>1. PICK a \in Nat \ {0} : a = Weight(k)
      BY WidthFacts
    <2>2. x \div a \in Int
      OBVIOUS
    <2>3. (x \div a) % b \in 0..(b - 1)
      BY ONLY <2>2, b \in Nat \ {0}
    <2> QED
      BY ONLY <1>1, <1>2, <2>1, <2>3 DEF Byte
  <1>4. PICK t : t = Bytes(w, n)
    OBVIOUS
  <1>5. t = [k \in 1..n |-> (w \div Weight(k)) % Base]
    BY ONLY <1>4 DEF Bytes
  <1>6. t \in [1..n -> Byte]
    BY ONLY <1>3, <1>5
  <1>7. \A X : \A f \in [1..n -> X] : f \in Seq(X) /\ Len(f) = n /\ \A k \in 1..n : f[k] \in X
    OBVIOUS
  <1> QED
    BY ONLY <1>4, <1>5, <1>6, <1>7

(* What is stored is what WASM says.                                       *)
LEMMA StoredIs ==
    ASSUME NEW op \in Stores, NEW v \in Seq(Word32), Len(v) = IF op = I64Store THEN 2 ELSE 1, S!Arg(0) = v,
           NEW bytes, bytes = IF op = I64Store THEN Bytes(v[2], 4) \o Bytes(v[1], 4) ELSE Bytes(v[1], Size(op))
    PROVE  \A k \in 1..Size(op) : bytes[k] = S!StoredByte(op, k) /\ bytes[k] \in Byte
  <1>1. v[1] \in Word32 /\ (op = I64Store => v[2] \in Word32)
    BY ONLY v \in Seq(Word32), Len(v) = IF op = I64Store THEN 2 ELSE 1
  <1>2. \A k : S!StoredByte(op, k) =
            LET w == IF k > 4 THEN v[1] ELSE v[Len(v)] IN (w \div Weight(((k - 1) % 4) + 1)) % Base
    BY ONLY S!Arg(0) = v, SameNumbers DEF S!StoredByte
  <1>3. \A k \in 1..4 : ~(k > 4) /\ ((k - 1) % 4) + 1 = k
    OBVIOUS
  <1>4. \A k \in 5..8 : k > 4 /\ ((k - 1) % 4) + 1 = k - 4 /\ k - 4 \in 1..4
    OBVIOUS
  <1>5. CASE op = I64Store
    <2>1. PICK a \in Word32, c \in Word32 : a = v[1] /\ c = v[2]
      BY ONLY <1>1, <1>5
    <2>2. PICK x, y : x = Bytes(c, 4) /\ y = Bytes(a, 4)
      OBVIOUS
    <2>3. /\ x \in Seq(Byte) /\ Len(x) = 4 /\ \A k \in 1..4 : x[k] = (c \div Weight(k)) % Base /\ x[k] \in Byte
          /\ y \in Seq(Byte) /\ Len(y) = 4 /\ \A k \in 1..4 : y[k] = (a \div Weight(k)) % Base /\ y[k] \in Byte
      BY ONLY <2>2, BytesAre, 4 \in Nat, a \in Word32, c \in Word32
    <2>4. bytes = x \o y
      BY ONLY <1>5, <2>1, <2>2, bytes = IF op = I64Store THEN Bytes(v[2], 4) \o Bytes(v[1], 4) ELSE Bytes(v[1], Size(op))
    <2>5. \A k \in 1..8 : bytes[k] = IF k <= 4 THEN x[k] ELSE y[k - 4]
      <3>1. \A k \in 1..(4 + 4) : (x \o y)[k] = IF k <= 4 THEN x[k] ELSE y[k - 4]
        <4>1. x \in Seq(Byte) /\ y \in Seq(Byte) /\ Len(x) = 4 /\ Len(y) = 4
          BY ONLY <2>3
        <4>2. \A k \in 1..(Len(x) + Len(y)) : (x \o y)[k] = IF k <= Len(x) THEN x[k] ELSE y[k - Len(x)]
          BY ONLY <4>1, ConcatIndex
        <4> QED
          BY ONLY <4>1, <4>2
      <3>2. 4 + 4 = 8
        OBVIOUS
      <3> QED
        BY ONLY <2>4, <3>1, <3>2
    <2>6. \A k \in 1..4 : bytes[k] = S!StoredByte(op, k) /\ bytes[k] \in Byte
      <3>1. \A k \in 1..4 : k \in 1..8 /\ k <= 4
        OBVIOUS
      <3>2. Len(v) = 2
        BY ONLY <1>5, Len(v) = IF op = I64Store THEN 2 ELSE 1
      <3> QED
        BY ONLY <1>2, <1>3, <2>1, <2>3, <2>5, <3>1, <3>2
    <2>7. \A k \in 5..8 : bytes[k] = S!StoredByte(op, k) /\ bytes[k] \in Byte
      <3>1. \A k \in 5..8 : k \in 1..8 /\ ~(k <= 4)
        OBVIOUS
      <3> QED
        BY ONLY <1>2, <1>4, <2>1, <2>3, <2>5, <3>1
    <2>8. Size(op) = 8 /\ \A k \in 1..8 : k \in 1..4 \/ k \in 5..8
      <3>1. \A k \in 1..8 : k \in 1..4 \/ k \in 5..8
        OBVIOUS
      <3> QED
        BY ONLY <1>5, <3>1, SizeFacts
    <2> QED
      BY ONLY <2>6, <2>7, <2>8
  <1>6. CASE op # I64Store
    <2>1. PICK n \in Nat : n = Size(op) /\ n <= 4
      BY ONLY <1>6, op \in Stores DEF Stores, Size, I32Store, I32Store8, I64Store, I32Load, I64Load, I32Load16_u
    <2>2. PICK a \in Word32 : a = v[1] /\ a = v[Len(v)]
      BY ONLY <1>1, <1>6, Len(v) = IF op = I64Store THEN 2 ELSE 1
    <2>3. bytes = Bytes(a, n)
      BY ONLY <1>6, <2>1, <2>2, bytes = IF op = I64Store THEN Bytes(v[2], 4) \o Bytes(v[1], 4) ELSE Bytes(v[1], Size(op))
    <2>4. \A k \in 1..n : bytes[k] = (a \div Weight(k)) % Base /\ bytes[k] \in Byte
      BY ONLY <2>3, BytesAre, n \in Nat, a \in Word32
    <2>5. \A k \in 1..n : k \in 1..4
      BY ONLY <2>1
    <2> QED
      BY ONLY <1>2, <1>3, <2>1, <2>2, <2>4, <2>5
  <1> QED
    BY ONLY <1>5, <1>6

(* The names of WasmModule for the instructions.                           *)
LEMMA ModuleKinds ==
    /\ M!End = End /\ M!Drop = Drop /\ M!I32Eqz = I32Eqz
    /\ M!LocalGet = LocalGet /\ M!LocalSet = LocalSet /\ M!GlobalGet = GlobalGet /\ M!GlobalSet = GlobalSet
    /\ M!I32Const = I32Const /\ M!I64Const = I64Const /\ M!I64Load = I64Load /\ M!I64Store = I64Store
    /\ M!Loads = Loads /\ M!Stores = Stores /\ M!Indexed = Indexed /\ M!Consts = Consts /\ M!Binaries = Binaries
    /\ M!I32 = I32 /\ M!I64 = I64 /\ M!Known = Known
  <1>1. /\ M!End = End /\ M!Drop = Drop /\ M!I32Eqz = I32Eqz
        /\ M!LocalGet = LocalGet /\ M!LocalSet = LocalSet /\ M!GlobalGet = GlobalGet /\ M!GlobalSet = GlobalSet
        /\ M!I32Const = I32Const /\ M!I64Const = I64Const /\ M!I32 = I32 /\ M!I64 = I64
    BY ONLY TRUE DEF M!End, End, M!Drop, Drop, M!I32Eqz, I32Eqz, M!LocalGet, LocalGet, M!LocalSet, LocalSet,
       M!GlobalGet, GlobalGet, M!GlobalSet, GlobalSet, M!I32Const, I32Const, M!I64Const, I64Const,
       M!I32, I32, M!I64, I64
  <1>2. /\ M!I32Load = I32Load /\ M!I64Load = I64Load /\ M!I32Load8_s = I32Load8_s /\ M!I32Load8_u = I32Load8_u
        /\ M!I32Load16_u = I32Load16_u /\ M!I32Store = I32Store /\ M!I64Store = I64Store /\ M!I32Store8 = I32Store8
    BY ONLY TRUE DEF M!I32Load, I32Load, M!I64Load, I64Load, M!I32Load8_s, I32Load8_s, M!I32Load8_u, I32Load8_u,
       M!I32Load16_u, I32Load16_u, M!I32Store, I32Store, M!I64Store, I64Store, M!I32Store8, I32Store8
  <1>3. /\ M!I32Eq = I32Eq /\ M!I32Ne = I32Ne /\ M!I32Lt_s = I32Lt_s /\ M!I32Gt_s = I32Gt_s /\ M!I32Gt_u = I32Gt_u
        /\ M!I32Ge_s = I32Ge_s /\ M!I32Add = I32Add /\ M!I32Sub = I32Sub /\ M!I32Mul = I32Mul /\ M!I32And = I32And
        /\ M!I32Or = I32Or /\ M!I32Xor = I32Xor /\ M!I32Shl = I32Shl /\ M!I32Shr_s = I32Shr_s
        /\ M!I32Div_s = I32Div_s /\ M!I32Rem_s = I32Rem_s
    BY ONLY TRUE DEF M!I32Eq, I32Eq, M!I32Ne, I32Ne, M!I32Lt_s, I32Lt_s, M!I32Gt_s, I32Gt_s, M!I32Gt_u, I32Gt_u,
       M!I32Ge_s, I32Ge_s, M!I32Add, I32Add, M!I32Sub, I32Sub, M!I32Mul, I32Mul, M!I32And, I32And, M!I32Or, I32Or,
       M!I32Xor, I32Xor, M!I32Shl, I32Shl, M!I32Shr_s, I32Shr_s, M!I32Div_s, I32Div_s, M!I32Rem_s, I32Rem_s
  <1>4. /\ M!Loads = Loads /\ M!Stores = Stores /\ M!Indexed = Indexed /\ M!Consts = Consts /\ M!Binaries = Binaries
    BY ONLY <1>1, <1>2, <1>3 DEF M!Loads, Loads, M!Stores, Stores, M!Indexed, Indexed, M!Consts, Consts,
       M!Divisions, Divisions, M!Binaries, Binaries
  <1>5. M!Unreachable = Unreachable /\ M!Nop = Nop /\ M!Return = Return
    BY ONLY TRUE DEF M!Unreachable, Unreachable, M!Nop, Nop, M!Return, Return
  <1>6. M!Known = Known
    BY ONLY <1>1, <1>4, <1>5 DEF M!Known, Known
  <1> QED
    BY ONLY <1>1, <1>2, <1>4, <1>6

\* The types of the values of a supported program, its instructions, and what of the operand types ts
\* each of them needs.
ValueTypes == {I32, I64}
Straights  == Loads \cup Stores \cup Indexed \cup Consts \cup Binaries \cup {I32Eqz, Drop, End}
Top(ts, j) == ts[Len(ts) - j]
Needs(p, f, c, ts) ==
    /\ Len(ts) >= M!Takes(c.op)
    /\ c.op \in Loads \cup Binaries \cup {I32Eqz, Drop} => Top(ts, 0) = I32
    /\ c.op \in Stores \cup Binaries => Top(ts, 1) = I32
    /\ c.op \in Stores    => Top(ts, 0) = IF c.op = I64Store THEN I64 ELSE I32
    /\ c.op = LocalSet   => Top(ts, 0) = f.locals[c.n + 1]
    /\ c.op = GlobalSet  => Top(ts, 0) = I32

\* f is the entry of a supported program p.
Enters(p, k, f) == p \in Modules /\ M!Supported(p) /\ k = M!EntryIndex(p) /\ Runs(p, k, f)

(* Its values are numbers, its globals one word.                           *)
LEMMA EntersTypes ==
    ASSUME NEW p, NEW k, NEW f, Enters(p, k, f)
    PROVE  /\ \A i \in DOMAIN f.locals : f.locals[i] \in ValueTypes
           /\ \A i \in DOMAIN Items(p.globalsec) : Items(p.globalsec)[i].ty = I32
           /\ \A i \in 1..Len(f.codes) :
                 /\ Within(p, f, f.codes[i]) /\ f.codes[i].op \in Straights
                 /\ f.codes[i].op \in {GlobalGet, GlobalSet} => p.globalsec[f.codes[i].n + 1].ty = I32
  <1>1. p \in Modules /\ M!Supported(p) /\ Runs(p, k, f) /\ k = M!EntryIndex(p)
    BY ONLY Enters(p, k, f) DEF Enters
  <1>2. f.locals = M!LocalTypes(p, k) /\ f.codes = p.codesec[k].expr /\ f.codes \in Seq(Format!Instruction)
    BY ONLY <1>1 DEF Runs, Sound
  <1>3. \A i \in DOMAIN f.locals : f.locals[i] \in ValueTypes
    BY ONLY <1>1, <1>2, ModuleKinds DEF M!Supported, M!ToSet, ValueTypes
  <1>4. \A g \in M!ToSet(M!Items(p.globalsec)) : g.ty = I32
    BY ONLY <1>1, ModuleKinds DEF M!Supported
  <1>5. \A i \in DOMAIN Items(p.globalsec) : Items(p.globalsec)[i].ty = I32
    BY ONLY <1>4, SameItems DEF M!ToSet
  <1>6. \A i \in 1..Len(f.codes) : Within(p, f, f.codes[i])
    BY ONLY <1>1, ValidBody
  <1>7. \A i \in DOMAIN f.codes : f.codes[i].op \in Straights
    <2>1. M!Entry(p).expr = f.codes
      BY ONLY <1>1, <1>2 DEF M!Entry
    <2>2. M!Straight = Straights
      BY ONLY ModuleKinds DEF M!Straight, Straights
    <2> QED
      BY ONLY <1>1, <2>1, <2>2 DEF M!Supported
  <1>8. DOMAIN f.codes = 1..Len(f.codes)
    BY ONLY <1>2
  <1>9. ASSUME NEW i \in 1..Len(f.codes), f.codes[i].op \in {GlobalGet, GlobalSet}
        PROVE  p.globalsec[f.codes[i].n + 1].ty = I32
    <2>1. f.codes[i].n + 1 \in 1..Len(Items(p.globalsec))
      BY ONLY <1>6, <1>9, i \in 1..Len(f.codes) DEF Within
    <2>2. p.globalsec # NULL
      <3>1. Len(<<>>) = 0 /\ \A x \in 1..0 : FALSE
        OBVIOUS
      <3> QED
        BY ONLY <2>1, <3>1 DEF Items
    <2>3. Items(p.globalsec) = p.globalsec
      BY ONLY <2>2 DEF Items
    <2>4. DOMAIN Items(p.globalsec) = 1..Len(Items(p.globalsec))
      <3>1. p.globalsec \in Seq(GlobalInits)
        BY ONLY <1>1, <2>2, ModulesAssumption, ModuleTypes DEF Optional
      <3> QED
        BY ONLY <2>3, <3>1
    <2> QED
      BY ONLY <1>5, <2>1, <2>3, <2>4
  <1> QED
    BY ONLY <1>3, <1>5, <1>6, <1>7, <1>8, <1>9

\* T are the types of the operands after each instruction of the k-th body.
Typed(p, k, f, T) ==
    /\ T[0] = <<>>
    /\ \A i \in 1..Len(f.codes) :
          /\ T[i - 1] \in Seq(ValueTypes) /\ M!Gives(p, k, f.codes[i]) \in Seq(ValueTypes)
          /\ T[i] = SubSeq(T[i - 1], 1, Len(T[i - 1]) - M!Takes(f.codes[i].op)) \o M!Gives(p, k, f.codes[i])
          /\ Needs(p, f, f.codes[i], T[i - 1])

(* OperandTypes are.                                                       *)
LEMMA TypesAre ==
    ASSUME NEW p, NEW k, NEW f, Enters(p, k, f), NEW T, T = M!OperandTypes(p, k)
    PROVE  Typed(p, k, f, T)
  <1>1. /\ p \in Modules /\ M!Supported(p) /\ k = M!EntryIndex(p) /\ f.codes = p.codesec[k].expr
        /\ f.locals = M!LocalTypes(p, k) /\ f.codes \in Seq(Format!Instruction)
        /\ k \in 1..Len(p.codesec) /\ p.codesec # NULL
    BY ONLY Enters(p, k, f) DEF Enters, Runs, Sound
  <1>2. PICK s : s = f.codes
    OBVIOUS
  <1>3. PICK n \in Nat : n = Len(s) /\ DOMAIN s = 1..n
    BY ONLY <1>1, <1>2
  <1>4. \A i \in 1..n : /\ Within(p, f, s[i]) /\ s[i].op \in Straights
                        /\ s[i].op \in {GlobalGet, GlobalSet} => p.globalsec[s[i].n + 1].ty = I32
    BY ONLY <1>2, <1>3, EntersTypes, Enters(p, k, f)
  <1>5. ASSUME NEW i \in 1..n PROVE M!Gives(p, k, s[i]) \in Seq(ValueTypes)
    <2>1. PICK c : c = s[i]
      OBVIOUS
    <2>2. c.op = LocalGet => f.locals[c.n + 1] \in ValueTypes
      BY ONLY <1>4, <2>1, EntersTypes, Enters(p, k, f), i \in 1..n DEF Within
    <2>3. c.op = GlobalGet => p.globalsec[c.n + 1].ty = I32
      BY ONLY <1>4, <2>1, i \in 1..n
    <2>4. \A x \in ValueTypes : <<x>> \in Seq(ValueTypes)
      OBVIOUS
    <2>5. <<>> \in Seq(ValueTypes) /\ I32 \in ValueTypes /\ I64 \in ValueTypes
      BY DEF ValueTypes
    <2>6. M!Gives(p, k, c) =
            CASE c.op \in {I64Const, I64Load} -> <<I64>>
              [] c.op = LocalGet              -> <<f.locals[c.n + 1]>>
              [] c.op = GlobalGet             -> <<p.globalsec[c.n + 1].ty>>
              [] c.op \in Stores \cup {LocalSet, GlobalSet, Drop, End} -> <<>>
              [] OTHER                        -> <<I32>>
      BY ONLY <1>1, ModuleKinds DEF M!Gives
    <2>7. M!Gives(p, k, c) \in Seq(ValueTypes)
      BY ONLY <2>2, <2>3, <2>4, <2>5, <2>6 DEF I64Const, I64Load, LocalGet, GlobalGet, Stores, LocalSet, GlobalSet,
         Drop, End, I32Store, I64Store, I32Store8
    <2> QED
      BY ONLY <2>1, <2>7
  <1> DEFINE Z == Seq(ValueTypes)
             next(i, z) == SubSeq(z, 1, Len(z) - M!Takes(s[i].op)) \o M!Gives(p, k, s[i])
             g == [i \in 1..n |-> [z \in Z |-> next(i, z)]]
             step(h, i) == IF i = 0 THEN <<>> ELSE next(i, h[i - 1])
  <1>6. \A op : M!Takes(op) \in 0..2
    BY DEF M!Takes
  <1>7. ASSUME NEW i \in 1..n, NEW z \in Z PROVE next(i, z) \in Z
    <2>1. PICK x, y : x = M!Takes(s[i].op) /\ y = M!Gives(p, k, s[i])
      OBVIOUS
    <2>2. x \in 0..2 /\ y \in Z
      BY ONLY <1>5, <1>6, <2>1, i \in 1..n
    <2>3. \A X : \A t \in Seq(X) : \A j \in Int : j <= Len(t) => SubSeq(t, 1, j) \in Seq(X)
      <3> SUFFICES ASSUME NEW X, NEW t \in Seq(X), NEW j \in Int, j <= Len(t) PROVE SubSeq(t, 1, j) \in Seq(X)
        OBVIOUS
      <3>1. SubSeq(t, 1, j) = [l \in 1..j |-> t[l]]
        OBVIOUS
      <3>2. CASE j >= 0
        BY <3>2
      <3>3. CASE j < 0
        <4>1. 1..j = {} /\ 1..0 = {}
          BY <3>3
        <4>2. [l \in 1..j |-> t[l]] = [l \in 1..0 |-> t[l]]
          BY ONLY <4>1
        <4>3. [l \in 1..0 |-> t[l]] = <<>>
          OBVIOUS
        <4>4. <<>> \in Seq(X)
          OBVIOUS
        <4> QED
          BY ONLY <3>1, <4>2, <4>3, <4>4
      <3> QED
        BY <3>2, <3>3
    <2>4. SubSeq(z, 1, Len(z) - x) \in Z
      <3>1. Len(z) - x \in Int /\ Len(z) - x <= Len(z)
        BY ONLY <2>2, z \in Z
      <3> QED
        BY ONLY <2>3, <3>1, z \in Z
    <2>5. \A X : \A a, b \in Seq(X) : a \o b \in Seq(X)
      OBVIOUS
    <2> QED
      BY ONLY <2>1, <2>2, <2>4, <2>5
  <1> HIDE DEF next, Z
  <1>8. g \in [1..n -> [Z -> Z]] /\ \A i \in 1..n, z \in Z : g[i][z] = next(i, z)
    BY ONLY <1>7 DEF g
  <1> HIDE DEF g
  <1>9. <<>> \in Z
    BY DEF Z
  <1>10. PICK f0 : Iterates(f0, Z, n, <<>>, g)
    BY ONLY n \in Nat, <1>8, <1>9, Iterate
  <1>11. f0 \in [0..n -> Z] /\ f0[0] = <<>> /\ \A i \in 1..n : f0[i] = next(i, f0[i - 1])
    <2>1. f0 \in [0..n -> Z] /\ f0[0] = <<>> /\ \A i \in 1..n : f0[i] = g[i][f0[i - 1]]
      BY ONLY <1>10 DEF Iterates
    <2>2. \A i \in 1..n : f0[i - 1] \in Z
      BY ONLY n \in Nat, <2>1
    <2> QED
      BY ONLY <1>8, <2>1, <2>2
  <1>12. f0 = [i \in 0..n |-> step(f0, i)]
    <2>1. \A i \in 0..n : f0[i] = step(f0, i)
      <3>1. \A i \in 0..n : i = 0 \/ i \in 1..n
        OBVIOUS
      <3> QED
        BY ONLY <1>11, <3>1
    <2>2. f0 = [i \in 0..n |-> f0[i]]
      BY ONLY <1>11
    <2> QED
      BY ONLY <2>1, <2>2
  <1>13. T = CHOOSE h : h = [i \in 0..n |-> step(h, i)]
    <2>1. p.codesec[k].expr = s
      BY ONLY <1>1, <1>2
    <2>2. T = CHOOSE h : h = [i \in 0..Len(s) |-> IF i = 0 THEN <<>>
                ELSE SubSeq(h[i - 1], 1, Len(h[i - 1]) - M!Takes(s[i].op)) \o M!Gives(p, k, s[i])]
      BY ONLY <2>1, T = M!OperandTypes(p, k) DEF M!OperandTypes
    <2> QED
      BY ONLY <1>3, <2>2 DEF next
  <1>14. T = [i \in 0..n |-> step(T, i)]
    BY ONLY <1>12, <1>13
  <1>15. T[0] = <<>> /\ \A i \in 1..n : T[i] = next(i, T[i - 1])
    BY ONLY n \in Nat, <1>14
  <1> DEFINE P == {i \in Nat : i <= n => T[i] \in Z}
  <1>16. 0 \in P
    BY ONLY <1>9, <1>15
  <1>17. ASSUME NEW i \in P PROVE i + 1 \in P
    <2>1. CASE i + 1 <= n
      <3>1. i \in Nat /\ T[i] \in Z /\ i + 1 \in 1..n /\ (i + 1) - 1 = i
        BY ONLY n \in Nat, <2>1, i \in P
      <3> QED
        BY ONLY <1>7, <1>15, <3>1
    <2>2. CASE ~(i + 1 <= n)
      BY ONLY <2>2, i \in P
    <2> QED
      BY ONLY <2>1, <2>2
  <1>18. P \in SUBSET Nat
    OBVIOUS
  <1> HIDE DEF P
  <1>19. P = Nat
    BY ONLY <1>16, <1>17, <1>18, SetInduction
  <1>20. \A i \in 1..n : T[i - 1] \in Z
    <2>1. \A i \in 1..n : i - 1 \in Nat /\ i - 1 <= n
      OBVIOUS
    <2> QED
      BY ONLY <1>19, <2>1 DEF P
  <1>21. ASSUME NEW i \in 1..n PROVE Needs(p, f, s[i], T[i - 1])
    <2>1. M!Valid(p) /\ p \in Format!Writable
      BY ONLY <1>1, ValidAssumption, ModulesAssumption
    <2>2. k \in DOMAIN M!Items(p.codesec)
      <3>1. p.codesec \in Seq(Bodies)
        BY ONLY <1>1, <2>1, ModuleTypes DEF Optional
      <3> QED
        BY ONLY <1>1, <3>1 DEF M!Items
    <2>3. \A c \in M!ToSet(s) : c.op \in M!Straight
      <3>1. M!Straight = Straights
        BY ONLY ModuleKinds DEF M!Straight, Straights
      <3> QED
        BY ONLY <1>3, <1>4, <3>1 DEF M!ToSet
    <2>4. M!Fits(p, k, s[i], T[i - 1])
      BY ONLY <1>1, <1>2, <1>3, <2>1, <2>2, <2>3, i \in 1..n, T = M!OperandTypes(p, k) DEF M!Valid
    <2>5. s[i].op = Drop => Top(T[i - 1], 0) = I32
      <3>1. M!Entry(p).expr = s
        BY ONLY <1>1, <1>2 DEF M!Entry
      <3>2. s[i].op = M!Drop => T[i - 1][Len(T[i - 1])] = M!I32
        BY ONLY <1>1, <1>3, <3>1, i \in 1..n, T = M!OperandTypes(p, k) DEF M!Supported
      <3>3. Len(T[i - 1]) - 0 = Len(T[i - 1])
        BY ONLY <1>20, i \in 1..n DEF Z
      <3> QED
        BY ONLY <3>2, <3>3, ModuleKinds DEF Top
    <2>6. s[i].op = GlobalSet => p.globalsec[s[i].n + 1].ty = I32
      BY ONLY <1>4, i \in 1..n
    <2>7. /\ Len(T[i - 1]) >= M!Takes(s[i].op)
          /\ s[i].op \in Loads \cup Binaries \cup {I32Eqz} => Top(T[i - 1], 0) = I32
          /\ s[i].op \in Stores \cup Binaries => Top(T[i - 1], 1) = I32
          /\ s[i].op \in Stores   => Top(T[i - 1], 0) = IF s[i].op = I64Store THEN I64 ELSE I32
          /\ s[i].op = LocalSet   => Top(T[i - 1], 0) = f.locals[s[i].n + 1]
          /\ s[i].op = GlobalSet  => Top(T[i - 1], 0) = p.globalsec[s[i].n + 1].ty
      BY ONLY <1>1, <2>4, ModuleKinds DEF M!Fits, Top
    <2> QED
      BY ONLY <2>5, <2>6, <2>7 DEF Needs
  <1> QED
    BY ONLY <1>2, <1>3, <1>5, <1>15, <1>20, <1>21 DEF Z, next, Typed

----------------------------------------------------------------------------
(* Where a program runs as WASM says, and what a step must lead to.        *)

(* An instruction is of one kind.                                          *)
LEMMA KindsApart ==
    /\ \A x \in {End, Drop, I32Eqz, LocalGet, GlobalGet, LocalSet, GlobalSet} : x \notin Consts \cup Loads \cup Stores \cup Binaries
    /\ \A x \in Consts : x \notin Loads \cup Stores \cup Binaries
    /\ \A x \in Loads : x \notin Stores \cup Binaries
    /\ \A x \in Stores : x \notin Binaries
    /\ End # Drop /\ End # I32Eqz /\ End # LocalGet /\ End # GlobalGet /\ End # LocalSet /\ End # GlobalSet
    /\ Drop # I32Eqz /\ Drop # LocalGet /\ Drop # GlobalGet /\ Drop # LocalSet /\ Drop # GlobalSet
    /\ I32Eqz # LocalGet /\ I32Eqz # GlobalGet /\ I32Eqz # LocalSet /\ I32Eqz # GlobalSet
    /\ LocalGet # GlobalGet /\ LocalGet # LocalSet /\ LocalGet # GlobalSet
    /\ GlobalGet # LocalSet /\ GlobalGet # GlobalSet /\ LocalSet # GlobalSet
    /\ Relations \subseteq Binaries /\ Divisions \subseteq Binaries /\ I64Const \in Consts /\ I32Const \in Consts
    /\ I64Const # I32Const /\ I64Load \in Loads /\ I64Store \in Stores /\ Divisions \cap Relations = {}
  BY DEF End, Consts, Drop, LocalGet, LocalSet, GlobalGet, GlobalSet, Loads, Stores, I32Eqz, Binaries, Divisions,
     I32Const, I64Const, I32Load, I64Load, I32Load8_s, I32Load8_u, I32Load16_u, I32Store, I64Store, I32Store8,
     I32Eq, I32Ne, I32Lt_s, I32Gt_s, I32Gt_u, I32Ge_s, I32Add, I32Sub, I32Mul, I32And, I32Or, I32Xor, I32Shl,
     I32Shr_s, I32Div_s, I32Rem_s, Relations

\* Memory after a store.
Stored32(op, r) ==
    [a \in DOMAIN r |-> IF a - S!Effective \in 1..S!Width8(op) THEN S!StoredByte(op, a - S!Effective) ELSE r[a]]

(* What WASM says of an instruction.                                       *)
LEMMA StepArms ==
    ASSUME NEW c, c = S!Instr
    PROVE  /\ c.op = End => S!Step = [storeBar EXCEPT !.status = "returned"]
           /\ c.op \in Consts => S!Step = S!Ahead(0, <<S!Value(IF c.op = I64Const THEN I64 ELSE I32, c.n)>>)
           /\ c.op = Drop => S!Step = S!Ahead(1, <<>>)
           /\ c.op = LocalGet => S!Step = S!Ahead(0, <<storeBar.locals[c.n + 1]>>)
           /\ c.op = GlobalGet => S!Step = S!Ahead(0, <<storeBar.globals[c.n + 1]>>)
           /\ c.op = LocalSet => S!Step = [S!Ahead(1, <<>>) EXCEPT !.locals[c.n + 1] = S!Arg(0)]
           /\ c.op = GlobalSet => S!Step = [S!Ahead(1, <<>>) EXCEPT !.globals[c.n + 1] = S!Arg(0)]
           /\ c.op \in Loads => S!Step = S!Ahead(1, <<S!LoadedValue(c.op)>>)
           /\ c.op \in Stores => S!Step = [S!Ahead(2, <<>>) EXCEPT !.mem = Stored32(c.op, S!Ahead(2, <<>>).mem)]
           /\ c.op = I32Eqz => S!Step = S!Ahead(1, <<<<IF S!Word1(0) = 0 THEN 1 ELSE 0>>>>)
           /\ c.op \in Relations =>
                 S!Step = S!Ahead(2, <<<<IF S!Holds(c.op, S!Word1(1), S!Word1(0)) THEN 1 ELSE 0>>>>)
           /\ c.op \in Binaries \ Relations => S!Step = S!Ahead(2, <<<<S!Calculated(c.op, S!Word1(1), S!Word1(0))>>>>)
  <1> DEFINE n == c.n + 1
             op == c.op
             xEnd == [storeBar EXCEPT !.status = "returned"]
             xConst == S!Ahead(0, <<S!Value(IF op = I64Const THEN I64 ELSE I32, c.n)>>)
             xDrop == S!Ahead(1, <<>>)
             xLocalGet == S!Ahead(0, <<storeBar.locals[n]>>)
             xGlobalGet == S!Ahead(0, <<storeBar.globals[n]>>)
             xLocalSet == [S!Ahead(1, <<>>) EXCEPT !.locals[n] = S!Arg(0)]
             xGlobalSet == [S!Ahead(1, <<>>) EXCEPT !.globals[n] = S!Arg(0)]
             xLoad == S!Ahead(1, <<S!LoadedValue(op)>>)
             xStore == [S!Ahead(2, <<>>) EXCEPT !.mem =
                    [a \in DOMAIN @ |-> IF a - S!Effective \in 1..S!Width8(op)
                                        THEN S!StoredByte(op, a - S!Effective) ELSE @[a]]]
             xEqz == S!Ahead(1, <<<<IF S!Word1(0) = 0 THEN 1 ELSE 0>>>>)
             xRelation == S!Ahead(2, <<<<IF S!Holds(op, S!Word1(1), S!Word1(0)) THEN 1 ELSE 0>>>>)
             xOther == S!Ahead(2, <<<<S!Calculated(op, S!Word1(1), S!Word1(0))>>>>)
  <1>1. S!Step = CASE op = End -> xEnd
                   [] op \in Consts -> xConst
                   [] op = Drop -> xDrop
                   [] op = LocalGet -> xLocalGet
                   [] op = GlobalGet -> xGlobalGet
                   [] op = LocalSet -> xLocalSet
                   [] op = GlobalSet -> xGlobalSet
                   [] op \in Loads -> xLoad
                   [] op \in Stores -> xStore
                   [] op = I32Eqz -> xEqz
                   [] op \in Relations -> xRelation
                   [] OTHER -> xOther
    BY ONLY c = S!Instr, SameKinds DEF S!Step
  <1>3. xStore = [S!Ahead(2, <<>>) EXCEPT !.mem = Stored32(op, S!Ahead(2, <<>>).mem)]
    BY ONLY TRUE DEF Stored32
  <1> HIDE DEF xEnd, xConst, xDrop, xLocalGet, xGlobalGet, xLocalSet, xGlobalSet, xLoad, xStore, xEqz, xRelation, xOther
  <1>2. /\ op = End => S!Step = xEnd
        /\ op \in Consts => S!Step = xConst
        /\ op = Drop => S!Step = xDrop
        /\ op = LocalGet => S!Step = xLocalGet
        /\ op = GlobalGet => S!Step = xGlobalGet
        /\ op = LocalSet => S!Step = xLocalSet
        /\ op = GlobalSet => S!Step = xGlobalSet
        /\ op \in Loads => S!Step = xLoad
        /\ op \in Stores => S!Step = xStore
        /\ op = I32Eqz => S!Step = xEqz
        /\ op \in Relations => S!Step = xRelation
        /\ op \in Binaries \ Relations => S!Step = xOther
    BY ONLY <1>1, KindsApart
  <1> QED
    BY ONLY <1>2, <1>3 DEF xEnd, xConst, xDrop, xLocalGet, xGlobalGet, xLocalSet, xGlobalSet, xLoad, xEqz, xRelation, xOther

\* The types of the operands after each instruction of _start.
TypesOf(p) == M!OperandTypes(p, M!EntryIndex(p))

\* The store of a program that is before its pc-th instruction.
StoreAt(pc, ops, me, gs, ls) ==
    [status |-> "running", pc |-> pc, ops |-> ops, mem |-> me, globals |-> gs, locals |-> ls]

\* What _start works on: bytes and words.
Words32(n) == {g \in Seq([ty : {I32}, val : Word32]) : Len(g) = n}
Bytes32 == {r \in Seq(Byte) : Len(r) = M!Memory(written)}
Store32 ==
    /\ mem \in Bytes32
    /\ globals \in Words32(Len(Items(written.globalsec)))
    /\ DOMAIN locals = DOMAIN Function.locals
    /\ \A i \in DOMAIN locals : locals[i] \in Word32 \X Word32

\* A supported program that runs, with operands vs.
RunsWith(vs) ==
    /\ at = "run_vm" /\ ~trapped
    /\ Enters(written, M!EntryIndex(written), Function) /\ ip \in 1..Len(Function.codes)
    /\ Represents(vs, stack, TypesOf(written)[ip - 1])
    /\ Store32

(* Its store.                                                              *)
LEMMA BarIs ==
    ASSUME NEW vs, RunsWith(vs)
    PROVE  /\ storeBar = StoreAt(ip, vs, mem, globalsBar, localsBar)
           /\ S!Instr = Now
           /\ \A j : S!Arg(j) = vs[Len(vs) - j]
           /\ \A n, us : S!Ahead(n, us) =
                 StoreAt(ip + 1, SubSeq(vs, 1, Len(vs) - n) \o us, mem, globalsBar, localsBar)
  <1>1. Operands = vs
    BY ONLY RunsWith(vs), ValuesUnique DEF RunsWith, Operands, TypesOf
  <1>2. storeBar = StoreAt(ip, vs, mem, globalsBar, localsBar)
    BY ONLY <1>1, RunsWith(vs) DEF RunsWith, storeBar, StoreAt
  <1>3. storeBar.pc = ip /\ storeBar.ops = vs
    BY ONLY <1>2 DEF StoreAt
  <1>4. S!Instr = Now
    <2>1. Function.codes = written.codesec[M!EntryIndex(written)].expr
      BY ONLY RunsWith(vs) DEF RunsWith, Enters, Runs
    <2>2. S!Entry(written) = written.codesec[S!EntryIndex(written)]
      BY ONLY TRUE DEF S!Entry
    <2>3. S!EntryIndex(written) = M!EntryIndex(written)
      BY ONLY TRUE DEF S!EntryIndex, M!EntryIndex, S!Exported, M!Exported, S!Items, M!Items, S!ToSet, M!ToSet
    <2> QED
      BY ONLY <1>3, <2>1, <2>2, <2>3 DEF S!Instr, Now
  <1>5. \A j : S!Arg(j) = vs[Len(vs) - j]
    BY ONLY <1>3 DEF S!Arg
  <1>6. \A n, us : S!Ahead(n, us) =
                 StoreAt(ip + 1, SubSeq(vs, 1, Len(vs) - n) \o us, mem, globalsBar, localsBar)
    <2> SUFFICES ASSUME NEW n, NEW us
                 PROVE  S!Ahead(n, us) = StoreAt(ip + 1, SubSeq(vs, 1, Len(vs) - n) \o us, mem, globalsBar, localsBar)
      OBVIOUS
    <2>1. S!Ahead(n, us) = [storeBar EXCEPT !.pc = @ + 1, !.ops = SubSeq(@, 1, Len(@) - n) \o us]
      BY ONLY TRUE DEF S!Ahead
    <2>2. PICK r : r = SubSeq(vs, 1, Len(vs) - n) \o us
      OBVIOUS
    <2>3. S!Ahead(n, us) = [storeBar EXCEPT !.pc = ip + 1, !.ops = r]
      BY ONLY <1>3, <2>1, <2>2
    <2> QED
      BY ONLY <1>2, <2>2, <2>3 DEF StoreAt
  <1> QED
    BY ONLY <1>2, <1>4, <1>5, <1>6

\* What an instruction leads to: its operands, and what else it changes.
LeadsTo(us) ==
    /\ Forth /\ written' = written /\ m' = m /\ funcs' = funcs
    /\ Represents(us, stack', TypesOf(written)[ip])
    /\ S!Step = StoreAt(ip + 1, us, mem', globalsBar', localsBar')
    /\ mem' \in Bytes32 /\ globals' \in Words32(Len(Items(written.globalsec)))
    /\ DOMAIN locals' = DOMAIN Function.locals
    /\ \A i \in DOMAIN locals' : locals'[i] \in Word32 \X Word32

(* Then it is what WASM says, and the program runs on.                     *)
LEMMA BarThen ==
    ASSUME NEW vs, RunsWith(vs), NEW us, LeadsTo(us), ~trapped', ip + 1 \in 1..Len(Function.codes)
    PROVE  storeBar' = S!Step /\ RunsWith(us)'
  <1>1. at' = "run_vm" /\ ip' = ip + 1 /\ written' = written /\ m' = m /\ funcs' = funcs
    BY ONLY RunsWith(vs), LeadsTo(us) DEF RunsWith, LeadsTo, Forth
  <1>2. Function' = Function
    BY ONLY <1>1, SameFunction
  <1>3. ip \in Nat /\ (ip + 1) - 1 = ip
    BY ONLY RunsWith(vs) DEF RunsWith
  <1>4. Represents(us, stack, TypesOf(written)[ip - 1])'
    <2>1. TypesOf(written)' = TypesOf(written)
      BY ONLY <1>1
    <2>2. Represents(us, stack', TypesOf(written)[ip])
      BY ONLY LeadsTo(us) DEF LeadsTo
    <2>3. Represents(us, stack', TypesOf(written)'[ip' - 1])
      BY ONLY <1>1, <1>3, <2>1, <2>2
    <2> QED
      BY ONLY <2>3
  <1>5. RunsWith(us)'
    <2>1. Enters(written, M!EntryIndex(written), Function)'
      BY ONLY <1>1, <1>2, RunsWith(vs) DEF RunsWith
    <2>2. Store32'
      BY ONLY <1>1, <1>2, LeadsTo(us) DEF LeadsTo, Store32, Bytes32
    <2>3. (ip \in 1..Len(Function.codes))'
      BY ONLY <1>1, <1>2, ip + 1 \in 1..Len(Function.codes)
    <2> QED
      BY ONLY <1>1, <1>4, <2>1, <2>2, <2>3, ~trapped' DEF RunsWith
  <1>6. Operands' = us
    <2>1. Values(stack', TypesOf(written)'[ip' - 1]) = us
      BY ONLY <1>4, ValuesUnique
    <2> QED
      BY ONLY <2>1 DEF Operands, TypesOf
  <1>7. storeBar' = StoreAt(ip + 1, us, mem', globalsBar', localsBar')
    BY ONLY <1>1, <1>6, ~trapped' DEF storeBar, StoreAt
  <1> QED
    BY ONLY <1>5, <1>7, LeadsTo(us) DEF LeadsTo

\* The operand v on top of vs, which are the words s of types ts, and what is below it.
TopIs(vs, s, ts, w, q, v) ==
    /\ w = SubSeq(vs, 1, Len(vs) - 1) /\ v = vs[Len(vs)] /\ v \in Seq(Word32) /\ q \in Seq(Word32)
    /\ Represents(w, q, SubSeq(ts, 1, Len(ts) - 1)) /\ s = q \o v
WordTop(vs, s, ts, w, q, a) ==
    a \in Word32 /\ TopIs(vs, s, ts, w, q, <<a>>) /\ readi32(s) = a /\ After32(s) = q
PairTop(vs, s, ts, w, q, a, b) ==
    a \in Word32 /\ b \in Word32 /\ TopIs(vs, s, ts, w, q, <<a, b>>) /\ readi64(s) = <<a, b>> /\ After64(s) = q

(* An i32 on top is a word, an i64 a pair of them.                         *)
LEMMA TopWord ==
    ASSUME NEW vs, NEW s, NEW ts, Represents(vs, s, ts), Len(ts) >= 1
    PROVE  /\ Top(ts, 0) = I32 => \E w, q, a : WordTop(vs, s, ts, w, q, a)
           /\ Top(ts, 0) = I64 => \E w, q, a, b : PairTop(vs, s, ts, w, q, a, b)
  <1>1. ts \in Seq(Nat)
    BY ONLY Represents(vs, s, ts) DEF Represents
  <1>2. ts # <<>> /\ Top(ts, 0) = ts[Len(ts)]
    <2>1. Len(ts) - 0 = Len(ts) /\ (ts = <<>> => Len(ts) = 0)
      BY ONLY <1>1
    <2> QED
      BY ONLY <2>1, Len(ts) >= 1 DEF Top
  <1>2a. PICK w, q, v, t, rs : Splits(vs, s, ts, w, q, v, t, rs)
    <2>1. ts # <<>>
      BY ONLY <1>2
    <2> QED
      BY ONLY <2>1, Represents(vs, s, ts), RepPop
  <1>3. /\ w = SubSeq(vs, 1, Len(vs) - 1) /\ v = vs[Len(vs)] /\ t = ts[Len(ts)] /\ rs = SubSeq(ts, 1, Len(ts) - 1)
        /\ vs = Append(w, v) /\ ts = Append(rs, t) /\ rs \in Seq(Nat) /\ t \in Nat
        /\ Represents(w, q, rs) /\ s = q \o v /\ q \in Seq(Word32)
        /\ v \in Seq(Word32) /\ Len(v) = M!Wide(t) /\ Len(w) = Len(vs) - 1
    BY ONLY <1>2a DEF Splits
  <1>4. TopIs(vs, s, ts, w, q, v)
    BY ONLY <1>3 DEF TopIs
  <1>5. \A X : \A f \in Seq(X) : /\ Len(f) = 1 => \E a \in X : f = <<a>>
                                 /\ Len(f) = 2 => \E a, b \in X : f = <<a, b>>
    <2> SUFFICES ASSUME NEW X, NEW f \in Seq(X)
                 PROVE  /\ Len(f) = 1 => \E a \in X : f = <<a>>
                        /\ Len(f) = 2 => \E a, b \in X : f = <<a, b>>
      OBVIOUS
    <2>1. ASSUME Len(f) = 1 PROVE \E a \in X : f = <<a>>
      <3>1. f[1] \in X /\ f = <<f[1]>>
        BY <2>1
      <3> QED
        BY ONLY <3>1
    <2>2. ASSUME Len(f) = 2 PROVE \E a, b \in X : f = <<a, b>>
      <3>1. f[1] \in X /\ f[2] \in X /\ f = <<f[1], f[2]>>
        BY <2>2
      <3> QED
        BY ONLY <3>1
    <2> QED
      BY ONLY <2>1, <2>2
  <1>6. ASSUME Top(ts, 0) = I32 PROVE \E a : WordTop(vs, s, ts, w, q, a)
    <2>1. Len(v) = 1
      <3>1. t = I32
        BY ONLY <1>2, <1>3, <1>6
      <3>2. M!Wide(I32) = 1
        BY ONLY ModuleKinds DEF M!Wide, I32, I64
      <3> QED
        BY ONLY <1>3, <3>1, <3>2
    <2>2. PICK a \in Word32 : v = <<a>>
      BY ONLY <1>3, <1>5, <2>1
    <2>3. readi32(s) = a /\ After32(s) = q
      BY ONLY <1>3, <2>2, StackWords
    <2> QED
      BY ONLY <1>4, <2>2, <2>3, a \in Word32 DEF WordTop
  <1>7. ASSUME Top(ts, 0) = I64 PROVE \E a, b : PairTop(vs, s, ts, w, q, a, b)
    <2>1. Len(v) = 2
      <3>1. t = I64
        BY ONLY <1>2, <1>3, <1>7
      <3>2. M!Wide(I64) = 2
        BY ONLY ModuleKinds DEF M!Wide, I32, I64
      <3> QED
        BY ONLY <1>3, <3>1, <3>2
    <2>2. PICK a \in Word32, b \in Word32 : v = <<a, b>>
      BY ONLY <1>3, <1>5, <2>1
    <2>3. readi64(s) = <<a, b>> /\ After64(s) = q
      BY ONLY <1>3, <2>2, StackWords
    <2> QED
      BY ONLY <1>4, <2>2, <2>3, a \in Word32, b \in Word32 DEF PairTop
  <1> QED
    BY ONLY <1>6, <1>7

(* What is below the operand on top.                                       *)
LEMMA BelowTop ==
    ASSUME NEW vs, NEW s, NEW ts, Represents(vs, s, ts), Len(ts) >= 2, NEW w, w = SubSeq(vs, 1, Len(vs) - 1),
           NEW rs, rs = SubSeq(ts, 1, Len(ts) - 1)
    PROVE  /\ Len(rs) >= 1 /\ Top(rs, 0) = Top(ts, 1)
           /\ w[Len(w)] = vs[Len(vs) - 1]
           /\ SubSeq(w, 1, Len(w) - 1) = SubSeq(vs, 1, Len(vs) - 2)
           /\ SubSeq(rs, 1, Len(rs) - 1) = SubSeq(ts, 1, Len(ts) - 2)
  <1>1. PICK X : vs \in Seq(X) /\ Len(vs) = Len(ts) /\ ts \in Seq(Nat)
    BY ONLY Represents(vs, s, ts) DEF Represents
  <1>2. \A Y : \A f \in Seq(Y) : Len(f) >= 2 =>
            LET g == SubSeq(f, 1, Len(f) - 1) IN
            /\ Len(g) = Len(f) - 1 /\ g[Len(g)] = f[Len(f) - 1] /\ Len(g) >= 1
            /\ SubSeq(g, 1, Len(g) - 1) = SubSeq(f, 1, Len(f) - 2)
    <2> SUFFICES ASSUME NEW Y, NEW f \in Seq(Y), Len(f) >= 2, NEW g, g = SubSeq(f, 1, Len(f) - 1)
                 PROVE  /\ Len(g) = Len(f) - 1 /\ g[Len(g)] = f[Len(f) - 1] /\ Len(g) >= 1
                        /\ SubSeq(g, 1, Len(g) - 1) = SubSeq(f, 1, Len(f) - 2)
      OBVIOUS
    <2>1. Len(g) = Len(f) - 1 /\ Len(g) >= 1 /\ g \in Seq(Y)
      OBVIOUS
    <2>2. g[Len(g)] = f[Len(f) - 1]
      BY <2>1
    <2>3. SubSeq(g, 1, Len(g) - 1) = SubSeq(f, 1, Len(f) - 2)
      <3>0. PICK l \in Nat : l = Len(f) /\ l >= 2 /\ l - 1 = Len(g)
        BY ONLY <2>1, f \in Seq(Y), Len(f) >= 2
      <3>1. PICK j \in Nat : j = Len(f) - 2 /\ j + 1 = Len(f) - 1 /\ j = Len(g) - 1 /\ j + 2 = Len(f)
        <4>1. l - 2 \in Nat /\ (l - 2) + 1 = l - 1 /\ l - 2 = (l - 1) - 1 /\ (l - 2) + 2 = l
          BY ONLY <3>0
        <4> QED
          BY ONLY <3>0, <4>1
      <3>2. 0 + (j + 1) <= Len(f) /\ 0 \in Nat /\ j + 1 \in Nat /\ j \in 0..(j + 1) /\ 0 + 1 = 1 /\ 0 + (j + 1) = j + 1
            /\ 0 + j = j
        BY <3>1
      <3>3. SubSeq(SubSeq(f, 0 + 1, 0 + (j + 1)), 1, j) = SubSeq(f, 0 + 1, 0 + j)
        BY ONLY <3>2, CutMiddle, f \in Seq(Y)
      <3> QED
        BY ONLY <3>1, <3>2, <3>3, g = SubSeq(f, 1, Len(f) - 1)
    <2> QED
      BY ONLY <2>1, <2>2, <2>3
  <1>3. Len(vs) >= 2
    BY ONLY <1>1, Len(ts) >= 2
  <1>4. Len(rs) = Len(ts) - 1 /\ rs[Len(rs)] = ts[Len(ts) - 1] /\ Len(rs) >= 1
        /\ SubSeq(rs, 1, Len(rs) - 1) = SubSeq(ts, 1, Len(ts) - 2)
    BY ONLY <1>1, <1>2, Len(ts) >= 2, rs = SubSeq(ts, 1, Len(ts) - 1)
  <1>5. w[Len(w)] = vs[Len(vs) - 1] /\ SubSeq(w, 1, Len(w) - 1) = SubSeq(vs, 1, Len(vs) - 2)
    BY ONLY <1>1, <1>2, <1>3, w = SubSeq(vs, 1, Len(vs) - 1)
  <1>6. Top(rs, 0) = Top(ts, 1)
    <2>1. Len(rs) - 0 = Len(rs)
      <3>1. Len(ts) \in Nat
        BY ONLY <1>1
      <3> QED
        BY ONLY <1>4, <3>1
    <2> QED
      BY ONLY <1>4, <2>1 DEF Top
  <1> QED
    BY ONLY <1>4, <1>5, <1>6

----------------------------------------------------------------------------
(* What an instruction takes and leaves, and the constants.                *)

(* How many operands each kind of instruction takes.                       *)
LEMMA TakesAre ==
    \A op : /\ op \in Stores \cup Binaries => M!Takes(op) = 2
            /\ op \in Loads \cup {I32Eqz, Drop, LocalSet, GlobalSet} => M!Takes(op) = 1
            /\ op \in Consts \cup {LocalGet, GlobalGet, End} => M!Takes(op) = 0
            /\ M!Takes(op) \in Nat
  <1> SUFFICES ASSUME NEW op
               PROVE  /\ op \in Stores \cup Binaries => M!Takes(op) = 2
                      /\ op \in Loads \cup {I32Eqz, Drop, LocalSet, GlobalSet} => M!Takes(op) = 1
                      /\ op \in Consts \cup {LocalGet, GlobalGet, End} => M!Takes(op) = 0
                      /\ M!Takes(op) \in Nat
    OBVIOUS
  <1>1. M!Takes(op) = CASE op \in Stores \cup Binaries -> 2
                        [] op \in Loads \cup {I32Eqz, Drop, LocalSet, GlobalSet} -> 1
                        [] OTHER -> 0
    BY ONLY ModuleKinds DEF M!Takes
  <1>2. /\ op \in Stores \cup Binaries => M!Takes(op) = 2
        /\ op \in Loads \cup {I32Eqz, Drop, LocalSet, GlobalSet} => M!Takes(op) = 1
        /\ op \in Consts \cup {LocalGet, GlobalGet, End} => M!Takes(op) = 0
    BY ONLY <1>1, KindsApart
  <1>3. M!Takes(op) \in Nat
    BY DEF M!Takes
  <1> QED
    BY ONLY <1>2, <1>3

(* The types of what each kind of instruction gives.                       *)
LEMMA GivesAre ==
    ASSUME NEW p, NEW k, NEW f, Enters(p, k, f), NEW i \in 1..Len(f.codes), NEW c, c = f.codes[i]
    PROVE  /\ c.op \in Consts => M!Gives(p, k, c) = <<IF c.op = I64Const THEN I64 ELSE I32>>
           /\ c.op = LocalGet => M!Gives(p, k, c) = <<f.locals[c.n + 1]>>
           /\ c.op = GlobalGet => M!Gives(p, k, c) = <<I32>>
           /\ c.op \in Loads => M!Gives(p, k, c) = <<IF c.op = I64Load THEN I64 ELSE I32>>
           /\ c.op \in Binaries \cup {I32Eqz} => M!Gives(p, k, c) = <<I32>>
           /\ c.op \in Stores \cup {LocalSet, GlobalSet, Drop} => M!Gives(p, k, c) = <<>>
  <1>1. M!Gives(p, k, c) =
            CASE c.op \in {I64Const, I64Load} -> <<I64>>
              [] c.op = LocalGet              -> <<f.locals[c.n + 1]>>
              [] c.op = GlobalGet             -> <<p.globalsec[c.n + 1].ty>>
              [] c.op \in Stores \cup {LocalSet, GlobalSet, Drop, End} -> <<>>
              [] OTHER                        -> <<I32>>
    BY ONLY ModuleKinds, Enters(p, k, f) DEF M!Gives, Enters, Runs
  <1>2. c.op = GlobalGet => p.globalsec[c.n + 1].ty = I32
    BY ONLY EntersTypes, Enters(p, k, f), i \in 1..Len(f.codes), c = f.codes[i]
  <1> QED
    BY ONLY <1>1, <1>2, KindsApart

\* The types of the operands that an instruction of _start finds.
Before32 == TypesOf(written)[ip - 1]

\* w and q are what n operands leave.
Rest(vs, n, w, q) ==
    /\ w = SubSeq(vs, 1, Len(vs) - n)
    /\ Represents(w, q, SubSeq(Before32, 1, Len(Before32) - n))

(* What runs is a program, with types.                                     *)
LEMMA RunsTypes ==
    ASSUME NEW vs, RunsWith(vs)
    PROVE  /\ Before32 \in Seq(ValueTypes) /\ Represents(vs, stack, Before32) /\ Len(vs) = Len(Before32)
           /\ TypesOf(written)[ip] = SubSeq(Before32, 1, Len(Before32) - M!Takes(Now.op))
                                     \o M!Gives(written, M!EntryIndex(written), Now)
           /\ Needs(written, Function, Now, Before32)
           /\ Within(written, Function, Now) /\ Now.op \in Straights
           /\ Enters(written, M!EntryIndex(written), Function) /\ Now = Function.codes[ip]
           /\ ip \in 1..Len(Function.codes)
  <1>1. Enters(written, M!EntryIndex(written), Function) /\ ip \in 1..Len(Function.codes)
    BY ONLY RunsWith(vs) DEF RunsWith
  <1>2. Represents(vs, stack, Before32)
    BY ONLY RunsWith(vs) DEF RunsWith, Before32
  <1>3. Now = Function.codes[ip]
    BY ONLY TRUE DEF Now
  <1>4. /\ TypesOf(written)[ip - 1] \in Seq(ValueTypes)
        /\ TypesOf(written)[ip] = SubSeq(TypesOf(written)[ip - 1], 1, Len(TypesOf(written)[ip - 1]) - M!Takes(Now.op))
                                  \o M!Gives(written, M!EntryIndex(written), Now)
        /\ Needs(written, Function, Now, TypesOf(written)[ip - 1])
    <2>1. PICK T : T = M!OperandTypes(written, M!EntryIndex(written))
      OBVIOUS
    <2>2. TypesOf(written) = T
      BY ONLY <2>1 DEF TypesOf
    <2>3. PICK k, f : k = M!EntryIndex(written) /\ f = Function
      OBVIOUS
    <2>4. Enters(written, k, f) /\ T = M!OperandTypes(written, k)
      BY ONLY <1>1, <2>1, <2>3
    <2>5. /\ T[ip - 1] \in Seq(ValueTypes)
          /\ T[ip] = SubSeq(T[ip - 1], 1, Len(T[ip - 1]) - M!Takes(f.codes[ip].op)) \o M!Gives(written, k, f.codes[ip])
          /\ Needs(written, f, f.codes[ip], T[ip - 1])
      <3>1. ip \in 1..Len(f.codes)
        BY ONLY <1>1, <2>3
      <3>2. PICK i : i = ip
        OBVIOUS
      <3>3. PICK p : p = written
        OBVIOUS
      <3>4. Enters(p, k, f) /\ T = M!OperandTypes(p, k) /\ i \in 1..Len(f.codes)
        BY ONLY <2>4, <3>1, <3>2, <3>3
      <3>5. Typed(p, k, f, T)
        BY ONLY <3>4, TypesAre
      <3> QED
        BY ONLY <3>2, <3>3, <3>4, <3>5 DEF Typed
    <2> QED
      BY ONLY <1>3, <2>2, <2>3, <2>5
  <1>5. Within(written, Function, Now) /\ Now.op \in Straights
    BY ONLY <1>1, <1>3, EntersTypes
  <1>6. Len(vs) = Len(Before32)
    BY ONLY <1>2 DEF Represents
  <1> QED
    BY ONLY <1>1, <1>2, <1>3, <1>4, <1>5, <1>6 DEF Before32

(* Nothing taken, everything is left.                                      *)
LEMMA Rest0 ==
    ASSUME NEW vs, RunsWith(vs)
    PROVE  Rest(vs, 0, vs, stack)
  <1>1. Represents(vs, stack, Before32)
    BY ONLY RunsTypes, RunsWith(vs)
  <1>2. vs \in Seq(Seq(Word32)) /\ Before32 \in Seq(Nat)
    BY ONLY <1>1 DEF Represents
  <1>3. \A X : \A s \in Seq(X) : SubSeq(s, 1, Len(s) - 0) = s
    OBVIOUS
  <1> QED
    BY ONLY <1>1, <1>2, <1>3 DEF Rest

(* What is left, and a value.                                              *)
LEMMA RestPush ==
    ASSUME NEW vs, RunsWith(vs), NEW w, NEW q, Rest(vs, M!Takes(Now.op), w, q),
           NEW v \in Seq(Word32), NEW t \in Nat, Len(v) = M!Wide(t),
           M!Gives(written, M!EntryIndex(written), Now) = <<t>>
    PROVE  Represents(w \o <<v>>, q \o v, TypesOf(written)[ip])
  <1>1. PICK rs : rs = SubSeq(Before32, 1, Len(Before32) - M!Takes(Now.op))
    OBVIOUS
  <1>2. Represents(w, q, rs)
    BY ONLY <1>1, Rest(vs, M!Takes(Now.op), w, q) DEF Rest
  <1>3. TypesOf(written)[ip] = rs \o <<t>>
    BY ONLY <1>1, RunsTypes, RunsWith(vs), M!Gives(written, M!EntryIndex(written), Now) = <<t>>
  <1>4. rs \o <<t>> = Append(rs, t)
    <2>1. rs \in Seq(Nat)
      BY ONLY <1>2 DEF Represents
    <2> QED
      BY ONLY <2>1, t \in Nat
  <1> QED
    BY ONLY <1>2, <1>3, <1>4, RepPush, v \in Seq(Word32), t \in Nat, Len(v) = M!Wide(t)

(* What is left, and nothing.                                              *)
LEMMA RestOnly ==
    ASSUME NEW vs, RunsWith(vs), NEW w, NEW q, Rest(vs, M!Takes(Now.op), w, q),
           M!Gives(written, M!EntryIndex(written), Now) = <<>>
    PROVE  Represents(w, q, TypesOf(written)[ip]) /\ w \o <<>> = w
  <1>1. PICK rs : rs = SubSeq(Before32, 1, Len(Before32) - M!Takes(Now.op))
    OBVIOUS
  <1>2. Represents(w, q, rs)
    BY ONLY <1>1, Rest(vs, M!Takes(Now.op), w, q) DEF Rest
  <1>3. TypesOf(written)[ip] = rs \o <<>>
    BY ONLY <1>1, RunsTypes, RunsWith(vs), M!Gives(written, M!EntryIndex(written), Now) = <<>>
  <1>4. \A X : \A s \in Seq(X) : s \o <<>> = s
    OBVIOUS
  <1>5. rs \in Seq(Nat) /\ w \in Seq(Seq(Word32))
    BY ONLY <1>2 DEF Represents
  <1> QED
    BY ONLY <1>2, <1>3, <1>4, <1>5

(* Values that WASM keeps fit on the stack.                                *)
LEMMA NoOverflow ==
    ASSUME ~S!Traps, NEW w, NEW q, NEW v \in Seq(Word32), NEW ts, Represents(w, q, ts), NEW st, S!Step = st,
           st.ops = w \o <<v>>
    PROVE  ~(Len(q \o v) > StackSize)
  <1>1. ~(Len(S!FlattenSeq(S!Step.ops)) > StackSize)
    BY ONLY ~S!Traps DEF S!Traps, S!Overflows
  <1>2. \A s : S!FlattenSeq(s) = FlattenSeq(s)
    BY ONLY TRUE DEF S!FlattenSeq, FlattenSeq
  <1>3. w \in Seq(Seq(Word32)) /\ q = FlattenSeq(w)
    BY ONLY Represents(w, q, ts) DEF Represents
  <1>4. FlattenSeq(Append(w, v)) = q \o v
    BY ONLY <1>3, FlattenSnoc, v \in Seq(Word32)
  <1>5. w \o <<v>> = Append(w, v)
    <2>1. \A Y : \A a \in Seq(Y), e \in Y : a \o <<e>> = Append(a, e)
      OBVIOUS
    <2> QED
      BY ONLY <1>3, <2>1, v \in Seq(Word32)
  <1> QED
    BY ONLY <1>1, <1>2, <1>4, <1>5, S!Step = st, st.ops = w \o <<v>>

(* An instruction that leaves the stack s, and memory alone.               *)
LEMMA PushFacts ==
    ASSUME NEW s, Push(s), UNCHANGED <<globals, mem, locals>>
    PROVE  /\ Forth /\ written' = written /\ m' = m /\ funcs' = funcs /\ stack' = s /\ Function' = Function
           /\ globalsBar' = globalsBar /\ localsBar' = localsBar /\ mem' = mem
  <1>1. Forth /\ written' = written /\ m' = m /\ funcs' = funcs /\ stack' = s
    BY ONLY Push(s) DEF Push, Forth, loadVars
  <1>2. Function' = Function
    BY ONLY <1>1, SameFunction
  <1>3. globalsBar' = globalsBar
    BY ONLY UNCHANGED <<globals, mem, locals>> DEF globalsBar
  <1>4. localsBar' = localsBar
    BY ONLY <1>2, UNCHANGED <<globals, mem, locals>> DEF localsBar
  <1> QED
    BY ONLY <1>1, <1>2, <1>3, <1>4, UNCHANGED <<globals, mem, locals>>

(* A value that an instruction gives is the one WASM says.                 *)
LEMMA PushLeads ==
    ASSUME NEW vs, RunsWith(vs), ~S!Traps, NEW n, n = M!Takes(Now.op), NEW w, NEW q, Rest(vs, n, w, q),
           NEW v \in Seq(Word32), NEW t \in Nat, Len(v) = M!Wide(t),
           M!Gives(written, M!EntryIndex(written), Now) = <<t>>, S!Step = S!Ahead(n, <<v>>),
           NEW s, s = (IF Len(q \o v) > StackSize THEN q ELSE q \o v), Push(s), UNCHANGED <<globals, mem, locals>>
    PROVE  LeadsTo(w \o <<v>>)
  <1>1. PICK us : us = w \o <<v>>
    OBVIOUS
  <1>2. Represents(us, q \o v, TypesOf(written)[ip])
    BY ONLY <1>1, RestPush, RunsWith(vs), Rest(vs, n, w, q), n = M!Takes(Now.op), v \in Seq(Word32), t \in Nat,
       Len(v) = M!Wide(t), M!Gives(written, M!EntryIndex(written), Now) = <<t>>
  <1>3. S!Step = StoreAt(ip + 1, us, mem, globalsBar, localsBar)
    <2>1. S!Ahead(n, <<v>>) = StoreAt(ip + 1, SubSeq(vs, 1, Len(vs) - n) \o <<v>>, mem, globalsBar, localsBar)
      BY ONLY BarIs, RunsWith(vs)
    <2> QED
      BY ONLY <1>1, <2>1, Rest(vs, n, w, q), S!Step = S!Ahead(n, <<v>>) DEF Rest
  <1>4. s = q \o v
    <2>1. StoreAt(ip + 1, us, mem, globalsBar, localsBar).ops = w \o <<v>>
      BY ONLY <1>1 DEF StoreAt
    <2>2. \E ts : Represents(w, q, ts)
      BY ONLY Rest(vs, n, w, q) DEF Rest
    <2>3. ~(Len(q \o v) > StackSize)
      BY ONLY <1>3, <2>1, <2>2, NoOverflow, ~S!Traps, v \in Seq(Word32)
    <2> QED
      BY ONLY <2>3, s = (IF Len(q \o v) > StackSize THEN q ELSE q \o v)
  <1>5. /\ Forth /\ written' = written /\ m' = m /\ funcs' = funcs /\ stack' = s
        /\ globalsBar' = globalsBar /\ localsBar' = localsBar /\ mem' = mem /\ globals' = globals /\ locals' = locals
    BY ONLY PushFacts, Push(s), UNCHANGED <<globals, mem, locals>>
  <1>6. Store32
    BY ONLY RunsWith(vs) DEF RunsWith
  <1> QED
    BY ONLY <1>1, <1>2, <1>3, <1>4, <1>5, <1>6 DEF LeadsTo, Store32

(* A value that an instruction drops.                                      *)
LEMMA DropLeads ==
    ASSUME NEW vs, RunsWith(vs), NEW n, n = M!Takes(Now.op), NEW w, NEW q, Rest(vs, n, w, q),
           M!Gives(written, M!EntryIndex(written), Now) = <<>>
    PROVE  /\ Represents(w, q, TypesOf(written)[ip])
           /\ S!Ahead(n, <<>>) = StoreAt(ip + 1, w, mem, globalsBar, localsBar)
  <1>1. Represents(w, q, TypesOf(written)[ip]) /\ w \o <<>> = w
    BY ONLY RestOnly, RunsWith(vs), Rest(vs, n, w, q), n = M!Takes(Now.op),
       M!Gives(written, M!EntryIndex(written), Now) = <<>>
  <1>2. S!Ahead(n, <<>>) = StoreAt(ip + 1, SubSeq(vs, 1, Len(vs) - n) \o <<>>, mem, globalsBar, localsBar)
    BY ONLY BarIs, RunsWith(vs)
  <1> QED
    BY ONLY <1>1, <1>2, Rest(vs, n, w, q) DEF Rest

(* The words of a number, and how many a value has.                        *)
LEMMA ValueIs ==
    /\ \A n : S!Value(I64, n) = Words(n) /\ S!Value(I32, n) = <<Word(n)>>
    /\ I32 # I64 /\ M!Wide(I32) = 1 /\ M!Wide(I64) = 2 /\ I32 \in Nat /\ I64 \in Nat
    /\ \A a \in Word32 : <<a>> \in Seq(Word32) /\ Len(<<a>>) = 1
    /\ \A a, b \in Word32 : <<a, b>> \in Seq(Word32) /\ Len(<<a, b>>) = 2
    /\ \A n \in Int : \E a, b \in Word32 : Words(n) = <<a, b>>
  <1>1. I32 # I64 /\ M!Wide(I32) = 1 /\ M!Wide(I64) = 2 /\ I32 \in Nat /\ I64 \in Nat
    BY ONLY ModuleKinds DEF M!Wide, I32, I64
  <1>2. \A n : S!Value(I64, n) = Words(n) /\ S!Value(I32, n) = <<Word(n)>>
    <2>1. \A n : S!Value(I64, n) = S!Words(n) /\ S!Value(I32, n) = <<S!Word(n)>>
      BY ONLY <1>1, SameKinds DEF S!Value
    <2> QED
      BY ONLY <2>1, SameNumbers
  <1>3. \A X : /\ \A a \in X : <<a>> \in Seq(X) /\ Len(<<a>>) = 1
               /\ \A a, b \in X : <<a, b>> \in Seq(X) /\ Len(<<a, b>>) = 2
    OBVIOUS
  <1>4. ASSUME NEW n \in Int PROVE \E a, b \in Word32 : Words(n) = <<a, b>>
    <2>1. Words(n) = <<Word(n \div Limit), Word(n)>>
      BY ONLY TRUE DEF Words, Word
    <2>2. n \div Limit \in Int
      <3>1. PICK l \in Nat \ {0} : l = Limit
        BY ONLY WidthFacts
      <3>2. n \div l \in Int
        OBVIOUS
      <3> QED
        BY ONLY <3>1, <3>2
    <2> QED
      BY ONLY <2>1, <2>2, SignedFacts, n \in Int
  <1> QED
    BY ONLY <1>1, <1>2, <1>3, <1>4

(* A constant.                                                             *)
LEMMA ConstLeads ==
    ASSUME NEW vs, RunsWith(vs), ~S!Traps, Const
    PROVE  \E us : LeadsTo(us)
  <1>1. PICK c : c = Now
    OBVIOUS
  <1>2. c.op \in Consts /\ c \in Format!Instruction
    BY ONLY <1>1, Const, RunsTypes, RunsWith(vs) DEF Const, At, Within
  <1>3. PICK t : t = (IF c.op = I64Const THEN I64 ELSE I32)
    OBVIOUS
  <1>4. PICK v : v = S!Value(t, c.n)
    OBVIOUS
  <1>5. S!Step = S!Ahead(0, <<v>>)
    BY ONLY <1>1, <1>2, <1>3, <1>4, BarIs, StepArms, RunsWith(vs)
  <1>6. /\ v \in Seq(Word32) /\ Len(v) = M!Wide(t) /\ t \in Nat
        /\ Constant(stack, <<c>>) = IF Len(stack \o v) > StackSize THEN stack ELSE stack \o v
    <2>1. stack \in Seq(Word32)
      <3>1. Represents(vs, stack, Before32)
        BY ONLY RunsTypes, RunsWith(vs)
      <3> QED
        BY ONLY <3>1, FlattenType DEF Represents
    <2>2. c.n \in Int
      BY ONLY <1>2, <1>1, RunsTypes, RunsWith(vs) DEF Format!Instruction
    <2>3. <<c>>[1] = c
      OBVIOUS
    <2>4. CASE c.op = I64Const
      <3>1. v = Words(c.n)
        BY ONLY <1>3, <1>4, <2>4, ValueIs
      <3>2. PICK a \in Word32, b \in Word32 : Words(c.n) = <<a, b>>
        BY ONLY <2>2, ValueIs
      <3>3. Constant(stack, <<c>>) = writei64(stack, Words(c.n))
        BY ONLY <2>3, <2>4, KindsApart DEF Constant
      <3>4. writei64(stack, <<a, b>>) = IF Len(stack \o <<a, b>>) > StackSize THEN stack ELSE stack \o <<a, b>>
        BY ONLY <2>1, StackWords, a \in Word32, b \in Word32
      <3>5. v \in Seq(Word32) /\ Len(v) = M!Wide(t) /\ t \in Nat
        BY ONLY <1>3, <2>4, <3>1, <3>2, ValueIs
      <3> QED
        BY ONLY <3>1, <3>2, <3>3, <3>4, <3>5
    <2>5. CASE c.op # I64Const
      <3>1. v = <<Word(c.n)>>
        BY ONLY <1>3, <1>4, <2>5, ValueIs
      <3>2. PICK a \in Word32 : Word(c.n) = a
        BY ONLY <2>2, SignedFacts
      <3>3. Constant(stack, <<c>>) = writei32(stack, Word(c.n))
        BY ONLY <1>2, <2>3, <2>5, KindsApart DEF Constant, Consts
      <3>4. writei32(stack, a) = IF Len(stack \o <<a>>) > StackSize THEN stack ELSE stack \o <<a>>
        BY ONLY <2>1, StackWords
      <3>5. v \in Seq(Word32) /\ Len(v) = M!Wide(t) /\ t \in Nat
        BY ONLY <1>3, <2>5, <3>1, <3>2, ValueIs
      <3> QED
        BY ONLY <3>1, <3>2, <3>3, <3>4, <3>5
    <2> QED
      BY ONLY <2>4, <2>5
  <1>7. M!Gives(written, M!EntryIndex(written), Now) = <<t>> /\ M!Takes(Now.op) = 0
    BY ONLY <1>1, <1>2, <1>3, RunsTypes, RunsWith(vs), GivesAre, TakesAre
  <1>8. Push(Constant(stack, <<c>>)) /\ UNCHANGED <<globals, mem, locals>>
    BY ONLY <1>1, Const DEF Const
  <1> QED
    BY ONLY <1>5, <1>6, <1>7, <1>8, Rest0, PushLeads, RunsWith(vs), ~S!Traps

----------------------------------------------------------------------------
(* The operands on top, and the instructions that read a variable.         *)

\* A word, or two of them, that are the last operand, and a word before the last.
Word0(vs, w, q, a) ==
    /\ a \in Word32 /\ q \in Seq(Word32) /\ Rest(vs, 1, w, q)
    /\ readi32(stack) = a /\ After32(stack) = q /\ S!Arg(0) = <<a>>
Pair0(vs, w, q, a, b) ==
    /\ a \in Word32 /\ b \in Word32 /\ q \in Seq(Word32) /\ Rest(vs, 1, w, q)
    /\ readi64(stack) = <<a, b>> /\ After64(stack) = q /\ S!Arg(0) = <<a, b>>
Second(vs, r, w, q, c) ==
    /\ c \in Word32 /\ q \in Seq(Word32) /\ Rest(vs, 2, w, q)
    /\ readi32(r) = c /\ After32(r) = q /\ S!Arg(1) = <<c>>

(* The last operand.                                                       *)
LEMMA LastIs ==
    ASSUME NEW vs, RunsWith(vs), Len(Before32) >= 1
    PROVE  /\ Top(Before32, 0) = I32 => \E w, q, a : Word0(vs, w, q, a)
           /\ Top(Before32, 0) = I64 => \E w, q, a, b : Pair0(vs, w, q, a, b)
  <1>1. PICK ts : ts = Before32
    OBVIOUS
  <1>2. Represents(vs, stack, ts) /\ Len(ts) >= 1
    BY ONLY <1>1, RunsTypes, RunsWith(vs), Len(Before32) >= 1
  <1>3. S!Arg(0) = vs[Len(vs)]
    <2>1. S!Arg(0) = vs[Len(vs) - 0]
      BY ONLY BarIs, RunsWith(vs)
    <2>2. Len(vs) - 0 = Len(vs)
      BY ONLY <1>2 DEF Represents
    <2> QED
      BY ONLY <2>1, <2>2
  <1>4. ASSUME NEW w, NEW q, NEW v, TopIs(vs, stack, ts, w, q, v)
        PROVE  Rest(vs, 1, w, q) /\ S!Arg(0) = v /\ q \in Seq(Word32)
    BY ONLY <1>1, <1>3, <1>4 DEF TopIs, Rest
  <1>5. ASSUME Top(ts, 0) = I32 PROVE \E w, q, a : Word0(vs, w, q, a)
    <2>1. PICK w, q, a : WordTop(vs, stack, ts, w, q, a)
      BY ONLY <1>2, <1>5, TopWord
    <2>2. Word0(vs, w, q, a)
      BY ONLY <1>4, <2>1 DEF WordTop, Word0
    <2> QED
      BY ONLY <2>2
  <1>6. ASSUME Top(ts, 0) = I64 PROVE \E w, q, a, b : Pair0(vs, w, q, a, b)
    <2>1. PICK w, q, a, b : PairTop(vs, stack, ts, w, q, a, b)
      BY ONLY <1>2, <1>6, TopWord
    <2>2. Pair0(vs, w, q, a, b)
      BY ONLY <1>4, <2>1 DEF PairTop, Pair0
    <2> QED
      BY ONLY <2>2
  <1> QED
    BY ONLY <1>1, <1>5, <1>6

(* The operand before it.                                                  *)
LEMMA SecondIs ==
    ASSUME NEW vs, RunsWith(vs), Len(Before32) >= 2, Top(Before32, 1) = I32, NEW x, NEW r, Rest(vs, 1, x, r)
    PROVE  \E w, q, c : Second(vs, r, w, q, c)
  <1>1. PICK ts : ts = Before32
    OBVIOUS
  <1>2. Represents(vs, stack, ts) /\ Len(ts) >= 2
    BY ONLY <1>1, RunsTypes, RunsWith(vs), Len(Before32) >= 2
  <1>3. PICK rs : rs = SubSeq(ts, 1, Len(ts) - 1)
    OBVIOUS
  <1>4. x = SubSeq(vs, 1, Len(vs) - 1) /\ Represents(x, r, rs)
    BY ONLY <1>1, <1>3, Rest(vs, 1, x, r) DEF Rest
  <1>5. /\ Len(rs) >= 1 /\ Top(rs, 0) = Top(ts, 1)
        /\ x[Len(x)] = vs[Len(vs) - 1]
        /\ SubSeq(x, 1, Len(x) - 1) = SubSeq(vs, 1, Len(vs) - 2)
        /\ SubSeq(rs, 1, Len(rs) - 1) = SubSeq(ts, 1, Len(ts) - 2)
    BY ONLY <1>2, <1>3, <1>4, BelowTop
  <1>6. Top(rs, 0) = I32
    BY ONLY <1>1, <1>5, Top(Before32, 1) = I32
  <1>7. PICK w, q, c : WordTop(x, r, rs, w, q, c)
    BY ONLY <1>4, <1>5, <1>6, TopWord
  <1>8. S!Arg(1) = vs[Len(vs) - 1]
    BY ONLY BarIs, RunsWith(vs)
  <1>9. /\ c \in Word32 /\ readi32(r) = c /\ After32(r) = q /\ q \in Seq(Word32)
        /\ w = SubSeq(x, 1, Len(x) - 1) /\ <<c>> = x[Len(x)]
        /\ Represents(w, q, SubSeq(rs, 1, Len(rs) - 1))
    BY ONLY <1>7 DEF WordTop, TopIs
  <1>10. Rest(vs, 2, w, q)
    BY ONLY <1>1, <1>5, <1>9 DEF Rest
  <1>11. Second(vs, r, w, q, c)
    BY ONLY <1>5, <1>8, <1>9, <1>10 DEF Second
  <1> QED
    BY ONLY <1>11

(* Operands are there.                                                     *)
LEMMA OperandsThere ==
    ASSUME NEW vs, RunsWith(vs)
    PROVE  /\ Now.op \in Stores \cup Binaries => Len(Before32) >= 2 /\ Top(Before32, 1) = I32
           /\ Now.op \in Loads \cup Stores \cup Binaries \cup {I32Eqz, Drop, LocalSet, GlobalSet} => Len(Before32) >= 1
           /\ Now.op \in Loads \cup Binaries \cup {I32Eqz, Drop} => Top(Before32, 0) = I32
           /\ Now.op \in Stores => Top(Before32, 0) = IF Now.op = I64Store THEN I64 ELSE I32
           /\ Now.op = LocalSet => Top(Before32, 0) = Function.locals[Now.n + 1]
           /\ Now.op = GlobalSet => Top(Before32, 0) = I32
  <1>1. Needs(written, Function, Now, Before32) /\ Len(Before32) \in Nat
    <2>1. Before32 \in Seq(ValueTypes) /\ Needs(written, Function, Now, Before32)
      BY ONLY RunsTypes, RunsWith(vs)
    <2> QED
      BY ONLY <2>1
  <1>2. \A n \in Nat : n >= 2 => n >= 1
    OBVIOUS
  <1>3. /\ Now.op \in Stores \cup Binaries => Len(Before32) >= 2
        /\ Now.op \in Loads \cup {I32Eqz, Drop, LocalSet, GlobalSet} => Len(Before32) >= 1
    BY ONLY <1>1, TakesAre DEF Needs
  <1> QED
    BY ONLY <1>1, <1>2, <1>3 DEF Needs

(* drop.                                                                   *)
LEMMA DropTopLeads ==
    ASSUME NEW vs, RunsWith(vs), ~S!Traps, DropTop
    PROVE  \E us : LeadsTo(us)
  <1>1. Now.op = Drop /\ Push(After32(stack)) /\ UNCHANGED <<globals, mem, locals>>
    BY ONLY DropTop DEF DropTop, At
  <1>2. PICK w, q, a : Word0(vs, w, q, a)
    BY ONLY <1>1, LastIs, OperandsThere, RunsWith(vs)
  <1>3. Rest(vs, 1, w, q) /\ After32(stack) = q
    BY ONLY <1>2 DEF Word0
  <1>4. M!Takes(Now.op) = 1 /\ M!Gives(written, M!EntryIndex(written), Now) = <<>>
    BY ONLY <1>1, RunsTypes, RunsWith(vs), GivesAre, TakesAre
  <1>5. Represents(w, q, TypesOf(written)[ip]) /\ S!Ahead(1, <<>>) = StoreAt(ip + 1, w, mem, globalsBar, localsBar)
    BY ONLY <1>3, <1>4, DropLeads, RunsWith(vs)
  <1>6. S!Step = S!Ahead(1, <<>>)
    BY ONLY <1>1, BarIs, StepArms, RunsWith(vs)
  <1>7. /\ Forth /\ written' = written /\ m' = m /\ funcs' = funcs /\ stack' = q
        /\ globalsBar' = globalsBar /\ localsBar' = localsBar /\ mem' = mem /\ globals' = globals /\ locals' = locals
    BY ONLY <1>1, <1>3, PushFacts
  <1>8. Store32
    BY ONLY RunsWith(vs) DEF RunsWith
  <1>9. LeadsTo(w)
    BY ONLY <1>5, <1>6, <1>7, <1>8 DEF LeadsTo, Store32
  <1> QED
    BY ONLY <1>9

(* local.get.                                                              *)
LEMMA GetLocalLeads ==
    ASSUME NEW vs, RunsWith(vs), ~S!Traps, GetLocal
    PROVE  \E us : LeadsTo(us)
  <1>1. PICK n, t, x : n = Now.n + 1 /\ t = Function.locals[n] /\ x = locals[n]
    OBVIOUS
  <1>2. Now.op = LocalGet /\ UNCHANGED <<globals, mem, locals>>
    BY ONLY GetLocal DEF GetLocal, At
  <1>3. n \in DOMAIN Function.locals /\ t \in ValueTypes
    BY ONLY <1>1, <1>2, RunsTypes, RunsWith(vs), EntersTypes DEF Within
  <1>4. x \in Word32 \X Word32 /\ n \in DOMAIN locals
    BY ONLY <1>1, <1>3, RunsWith(vs) DEF RunsWith, Store32
  <1>5. PICK a \in Word32, b \in Word32 : x = <<a, b>>
    BY ONLY <1>4
  <1>6. PICK v : v = IF t = I64 THEN x ELSE <<b>>
    OBVIOUS
  <1>7. localsBar[n] = v
    <2>1. localsBar[n] = IF t = I64 THEN x ELSE <<x[2]>>
      BY ONLY <1>1, <1>4 DEF localsBar
    <2>2. x[2] = b
      BY ONLY <1>5
    <2> QED
      BY ONLY <1>6, <2>1, <2>2
  <1>8. S!Step = S!Ahead(0, <<v>>)
    <2>1. S!Step = S!Ahead(0, <<storeBar.locals[Now.n + 1]>>) /\ storeBar = StoreAt(ip, vs, mem, globalsBar, localsBar)
      BY ONLY <1>2, BarIs, StepArms, RunsWith(vs)
    <2>2. storeBar.locals = localsBar
      BY ONLY <2>1 DEF StoreAt
    <2> QED
      BY ONLY <1>1, <1>7, <2>1, <2>2
  <1>9. stack \in Seq(Word32)
    <2>1. Represents(vs, stack, Before32)
      BY ONLY RunsTypes, RunsWith(vs)
    <2> QED
      BY ONLY <2>1, FlattenType DEF Represents
  <1>10. PICK s : Push(s) /\ s = IF t = I32 THEN writei32(stack, x[2]) ELSE writei64(stack, x)
    <2>1. Push(IF t = I32 THEN writei32(stack, x[2]) ELSE writei64(stack, x))
      <3>1. CASE t = I32
        <4>1. Push(writei32(stack, x[2]))
          BY ONLY <1>1, <3>1, GetLocal DEF GetLocal, I32, I64
        <4> QED
          BY ONLY <3>1, <4>1
      <3>2. CASE t = I64
        <4>1. Push(writei64(stack, x)) /\ t # I32
          BY ONLY <1>1, <3>2, GetLocal DEF GetLocal, I32, I64
        <4> QED
          BY ONLY <4>1
      <3> QED
        BY ONLY <1>3, <3>1, <3>2 DEF ValueTypes
    <2> QED
      BY ONLY <2>1
  <1>11. s = IF Len(stack \o v) > StackSize THEN stack ELSE stack \o v
    <2>1. writei32(stack, b) = IF Len(stack \o <<b>>) > StackSize THEN stack ELSE stack \o <<b>>
      BY ONLY <1>9, StackWords
    <2>2. writei64(stack, <<a, b>>) = IF Len(stack \o <<a, b>>) > StackSize THEN stack ELSE stack \o <<a, b>>
      BY ONLY <1>9, StackWords
    <2> QED
      BY ONLY <1>3, <1>5, <1>6, <1>10, <2>1, <2>2, ValueIs DEF ValueTypes
  <1>12. v \in Seq(Word32) /\ Len(v) = M!Wide(t) /\ t \in Nat
    BY ONLY <1>3, <1>5, <1>6, ValueIs DEF ValueTypes
  <1>13. M!Gives(written, M!EntryIndex(written), Now) = <<t>> /\ M!Takes(Now.op) = 0
    BY ONLY <1>1, <1>2, RunsTypes, RunsWith(vs), GivesAre, TakesAre
  <1> QED
    BY ONLY <1>2, <1>8, <1>10, <1>11, <1>12, <1>13, Rest0, PushLeads, RunsWith(vs), ~S!Traps

(* global.get.                                                             *)
LEMMA GetGlobalLeads ==
    ASSUME NEW vs, RunsWith(vs), ~S!Traps, GetGlobal
    PROVE  \E us : LeadsTo(us)
  <1>1. PICK n, g : n = Now.n + 1 /\ g = globals[n]
    OBVIOUS
  <1>2. Now.op = GlobalGet /\ UNCHANGED <<globals, mem, locals>>
    BY ONLY GetGlobal DEF GetGlobal, At
  <1>3. n \in 1..Len(Items(written.globalsec))
    BY ONLY <1>1, <1>2, RunsTypes, RunsWith(vs) DEF Within
  <1>4. g.ty = I32 /\ g.val \in Word32 /\ n \in DOMAIN globals
    <2>1. globals \in Seq([ty : {I32}, val : Word32]) /\ Len(globals) = Len(Items(written.globalsec))
      BY ONLY RunsWith(vs) DEF RunsWith, Store32, Words32
    <2>2. g \in [ty : {I32}, val : Word32] /\ n \in DOMAIN globals
      <3>1. \A X : \A f \in Seq(X) : \A k \in 1..Len(f) : f[k] \in X /\ k \in DOMAIN f
        OBVIOUS
      <3> QED
        BY ONLY <1>1, <1>3, <2>1, <3>1
    <2> QED
      BY ONLY <2>2
  <1>5. PICK a \in Word32 : a = g.val
    BY ONLY <1>4
  <1>6. globalsBar[n] = <<a>>
    BY ONLY <1>1, <1>4, <1>5 DEF globalsBar
  <1>7. S!Step = S!Ahead(0, <<<<a>>>>)
    <2>1. S!Step = S!Ahead(0, <<storeBar.globals[Now.n + 1]>>) /\ storeBar = StoreAt(ip, vs, mem, globalsBar, localsBar)
      BY ONLY <1>2, BarIs, StepArms, RunsWith(vs)
    <2>2. storeBar.globals = globalsBar
      BY ONLY <2>1 DEF StoreAt
    <2> QED
      BY ONLY <1>1, <1>6, <2>1, <2>2
  <1>8. stack \in Seq(Word32)
    <2>1. Represents(vs, stack, Before32)
      BY ONLY RunsTypes, RunsWith(vs)
    <2> QED
      BY ONLY <2>1, FlattenType DEF Represents
  <1>9. PICK s : s = writei32(stack, a)
    OBVIOUS
  <1>10. s = IF Len(stack \o <<a>>) > StackSize THEN stack ELSE stack \o <<a>>
    BY ONLY <1>8, <1>9, StackWords
  <1>11. Push(s)
    <2>1. Push(writei32(stack, g.val))
      BY ONLY <1>1, <1>4, GetGlobal DEF GetGlobal, I32, I64
    <2> QED
      BY ONLY <1>5, <1>9, <2>1
  <1>12. <<a>> \in Seq(Word32) /\ Len(<<a>>) = M!Wide(I32) /\ I32 \in Nat
    BY ONLY ValueIs, a \in Word32
  <1>13. M!Gives(written, M!EntryIndex(written), Now) = <<I32>> /\ M!Takes(Now.op) = 0
    BY ONLY <1>2, RunsTypes, RunsWith(vs), GivesAre, TakesAre
  <1> QED
    BY ONLY <1>2, <1>7, <1>10, <1>11, <1>12, <1>13, Rest0, PushLeads, RunsWith(vs), ~S!Traps

----------------------------------------------------------------------------
(* The instructions that write, compute and reach the memory.              *)

(* Push keeps what is not data.                                            *)
LEMMA PushOnly ==
    ASSUME NEW s, Push(s)
    PROVE  Forth /\ written' = written /\ m' = m /\ funcs' = funcs /\ stack' = s /\ Function' = Function
  <1>1. Forth /\ written' = written /\ m' = m /\ funcs' = funcs /\ stack' = s
    BY ONLY Push(s) DEF Push, Forth, loadVars
  <1> QED
    BY ONLY <1>1, SameFunction

(* An i32 becomes an int64_t with it as low word.                          *)
LEMMA ExtendIs ==
    ASSUME NEW a \in Word32
    PROVE  \E h \in Word32 : Extend(a) = <<h, a>>
  <1>1. Int32(a) \in Int /\ Word(Int32(a)) = a
    BY ONLY SignedFacts, a \in Word32
  <1>2. PICK i \in Int : i = Int32(a)
    BY ONLY <1>1
  <1>3. PICK h \in Word32, l \in Word32 : Words(i) = <<h, l>>
    BY ONLY ValueIs
  <1>4. l = Word(i)
    BY ONLY <1>3 DEF Words, Word
  <1> QED
    BY ONLY <1>1, <1>2, <1>3, <1>4 DEF Extend

(* local.set.                                                              *)
LEMMA SetLocalLeads ==
    ASSUME NEW vs, RunsWith(vs), ~S!Traps, SetLocal
    PROVE  \E us : LeadsTo(us)
  <1>1. PICK n, t : n = Now.n + 1 /\ t = Function.locals[n]
    OBVIOUS
  <1>2. /\ Now.op = LocalSet /\ UNCHANGED <<globals, mem>>
        /\ t = I32 => locals' = [locals EXCEPT ![n] = Extend(readi32(stack))] /\ Push(After32(stack))
        /\ t = I64 => locals' = [locals EXCEPT ![n] = readi64(stack)] /\ Push(After64(stack))
    BY ONLY <1>1, SetLocal DEF SetLocal, At, I32, I64
  <1>3. n \in DOMAIN Function.locals /\ t \in ValueTypes
    BY ONLY <1>1, <1>2, RunsTypes, RunsWith(vs), EntersTypes DEF Within
  <1>4. DOMAIN locals = DOMAIN Function.locals /\ \A i \in DOMAIN locals : locals[i] \in Word32 \X Word32
    BY ONLY RunsWith(vs) DEF RunsWith, Store32
  <1>5. M!Takes(Now.op) = 1 /\ M!Gives(written, M!EntryIndex(written), Now) = <<>>
    <2>1. Now.op = LocalSet
      BY ONLY <1>2
    <2> QED
      BY ONLY <2>1, RunsTypes, RunsWith(vs), GivesAre, TakesAre
  <1>6. Len(Before32) >= 1 /\ Top(Before32, 0) = t
    BY ONLY <1>1, <1>2, OperandsThere, RunsWith(vs)
  <1>7. S!Step = [S!Ahead(1, <<>>) EXCEPT !.locals[n] = S!Arg(0)]
    BY ONLY <1>1, <1>2, BarIs, StepArms, RunsWith(vs)
  <1>8. ASSUME NEW w, NEW q, NEW v, NEW x \in Word32 \X Word32, Rest(vs, 1, w, q), S!Arg(0) = v,
               locals' = [locals EXCEPT ![n] = x], v = (IF t = I64 THEN x ELSE <<x[2]>>), Push(q)
        PROVE  LeadsTo(w)
    <2>1. Represents(w, q, TypesOf(written)[ip]) /\ S!Ahead(1, <<>>) = StoreAt(ip + 1, w, mem, globalsBar, localsBar)
      BY ONLY <1>5, <1>8, DropLeads, RunsWith(vs)
    <2>2. S!Step = StoreAt(ip + 1, w, mem, globalsBar, [localsBar EXCEPT ![n] = v])
      BY ONLY <1>7, <1>8, <2>1 DEF StoreAt
    <2>3. Forth /\ written' = written /\ m' = m /\ funcs' = funcs /\ stack' = q /\ Function' = Function
      BY ONLY <1>8, PushOnly
    <2>4. localsBar' = [localsBar EXCEPT ![n] = v]
      <3>1. DOMAIN locals' = DOMAIN locals /\ locals'[n] = x /\ \A i \in DOMAIN locals : i # n => locals'[i] = locals[i]
        BY ONLY <1>3, <1>4, <1>8
      <3>2. PICK F : F = Function.locals
        OBVIOUS
      <3>3. localsBar' = [k \in DOMAIN locals |-> IF F[k] = I64 THEN locals'[k] ELSE <<locals'[k][2]>>]
        BY ONLY <2>3, <3>1, <3>2 DEF localsBar
      <3>4. localsBar = [k \in DOMAIN locals |-> IF F[k] = I64 THEN locals[k] ELSE <<locals[k][2]>>]
        BY ONLY <3>2 DEF localsBar
      <3>5. v = IF F[n] = I64 THEN x ELSE <<x[2]>>
        BY ONLY <1>1, <1>8, <3>2
      <3> QED
        BY ONLY <3>1, <3>3, <3>4, <3>5
    <2>5. globalsBar' = globalsBar /\ mem' = mem /\ globals' = globals
      BY ONLY <1>2 DEF globalsBar
    <2>6. DOMAIN locals' = DOMAIN Function.locals /\ \A i \in DOMAIN locals' : locals'[i] \in Word32 \X Word32
      BY ONLY <1>3, <1>4, <1>8
    <2>7. Store32
      BY ONLY RunsWith(vs) DEF RunsWith
    <2> QED
      BY ONLY <2>1, <2>2, <2>3, <2>4, <2>5, <2>6, <2>7 DEF LeadsTo, Store32
  <1>9. CASE t = I32
    <2>1. PICK w, q, a : Word0(vs, w, q, a)
      BY ONLY <1>6, <1>9, LastIs, RunsWith(vs)
    <2>2. a \in Word32 /\ Rest(vs, 1, w, q) /\ readi32(stack) = a /\ After32(stack) = q /\ S!Arg(0) = <<a>>
      BY ONLY <2>1 DEF Word0
    <2>3. PICK h \in Word32 : Extend(a) = <<h, a>>
      BY ONLY <2>2, ExtendIs
    <2>4. PICK x : x = <<h, a>>
      OBVIOUS
    <2>5. x \in Word32 \X Word32 /\ x[2] = a
      BY ONLY <2>2, <2>4, h \in Word32
    <2>6. <<a>> = IF t = I64 THEN x ELSE <<x[2]>>
      BY ONLY <1>9, <2>5, ValueIs
    <2>7. locals' = [locals EXCEPT ![n] = x] /\ Push(q)
      BY ONLY <1>2, <1>9, <2>2, <2>3, <2>4
    <2>8. LeadsTo(w)
      BY ONLY <1>8, <2>2, <2>5, <2>6, <2>7
    <2> QED
      BY ONLY <2>8
  <1>10. CASE t = I64
    <2>1. PICK w, q, a, b : Pair0(vs, w, q, a, b)
      BY ONLY <1>6, <1>10, LastIs, RunsWith(vs)
    <2>2. /\ a \in Word32 /\ b \in Word32 /\ Rest(vs, 1, w, q) /\ readi64(stack) = <<a, b>>
          /\ After64(stack) = q /\ S!Arg(0) = <<a, b>>
      BY ONLY <2>1 DEF Pair0
    <2>3. PICK x : x = <<a, b>>
      OBVIOUS
    <2>4. x \in Word32 \X Word32
      BY ONLY <2>2, <2>3
    <2>5. x = IF t = I64 THEN x ELSE <<x[2]>>
      BY ONLY <1>10
    <2>6. locals' = [locals EXCEPT ![n] = x] /\ Push(q)
      BY ONLY <1>2, <1>10, <2>2, <2>3, ValueIs
    <2>7. LeadsTo(w)
      BY ONLY <1>8, <2>2, <2>3, <2>4, <2>5, <2>6
    <2> QED
      BY ONLY <2>7
  <1> QED
    BY ONLY <1>3, <1>9, <1>10 DEF ValueTypes

(* global.set.                                                             *)
LEMMA SetGlobalLeads ==
    ASSUME NEW vs, RunsWith(vs), ~S!Traps, SetGlobal
    PROVE  \E us : LeadsTo(us)
  <1>1. PICK n : n = Now.n + 1
    OBVIOUS
  <1>2. PICK G, k : G = [ty : {I32}, val : Word32] /\ k = Len(Items(written.globalsec))
    OBVIOUS
  <1>3. globals \in Seq(G) /\ Len(globals) = k
    BY ONLY <1>2, RunsWith(vs) DEF RunsWith, Store32, Words32
  <1>4. Now.op = GlobalSet
    BY ONLY SetGlobal DEF SetGlobal, At
  <1>5. n \in 1..k
    BY ONLY <1>1, <1>2, <1>4, RunsTypes, RunsWith(vs) DEF Within
  <1>6. \A X : \A f \in Seq(X) : /\ \A i \in 1..Len(f) : f[i] \in X /\ i \in DOMAIN f
                                 /\ \A i \in 1..Len(f), x \in X : /\ [f EXCEPT ![i] = x] \in Seq(X)
                                                                  /\ Len([f EXCEPT ![i] = x]) = Len(f)
    OBVIOUS
  <1>7. globals[n] \in G /\ n \in DOMAIN globals
    BY ONLY <1>3, <1>5, <1>6
  <1>8. /\ UNCHANGED <<mem, locals>> /\ globals' = [globals EXCEPT ![n].val = readi32(stack)] /\ Push(After32(stack))
    <2>1. globals[n].ty = I32
      BY ONLY <1>2, <1>7
    <2> QED
      BY ONLY <1>1, <2>1, SetGlobal DEF SetGlobal, I32, I64
  <1>9. M!Takes(Now.op) = 1 /\ M!Gives(written, M!EntryIndex(written), Now) = <<>>
    BY ONLY <1>4, RunsTypes, RunsWith(vs), GivesAre, TakesAre
  <1>10. PICK w, q, a : Word0(vs, w, q, a)
    BY ONLY <1>4, OperandsThere, LastIs, RunsWith(vs)
  <1>11. a \in Word32 /\ Rest(vs, 1, w, q) /\ readi32(stack) = a /\ After32(stack) = q /\ S!Arg(0) = <<a>>
    BY ONLY <1>10 DEF Word0
  <1>12. S!Step = [S!Ahead(1, <<>>) EXCEPT !.globals[n] = S!Arg(0)]
    BY ONLY <1>1, <1>4, BarIs, StepArms, RunsWith(vs)
  <1>13. Represents(w, q, TypesOf(written)[ip]) /\ S!Ahead(1, <<>>) = StoreAt(ip + 1, w, mem, globalsBar, localsBar)
    BY ONLY <1>9, <1>11, DropLeads, RunsWith(vs)
  <1>14. S!Step = StoreAt(ip + 1, w, mem, [globalsBar EXCEPT ![n] = <<a>>], localsBar)
    BY ONLY <1>11, <1>12, <1>13 DEF StoreAt
  <1>15. Forth /\ written' = written /\ m' = m /\ funcs' = funcs /\ stack' = q /\ Function' = Function
    BY ONLY <1>8, <1>11, PushOnly
  <1>16. localsBar' = localsBar /\ mem' = mem /\ locals' = locals
    BY ONLY <1>8, <1>15 DEF localsBar
  <1>17. globals' = [globals EXCEPT ![n] = [globals[n] EXCEPT !.val = a]]
    BY ONLY <1>8, <1>11
  <1>18. globalsBar' = [globalsBar EXCEPT ![n] = <<a>>]
    <2>1. [globals[n] EXCEPT !.val = a].val = a
      BY ONLY <1>2, <1>7
    <2>2. DOMAIN globals' = DOMAIN globals /\ globals'[n].val = a
          /\ \A i \in DOMAIN globals : i # n => globals'[i] = globals[i]
      BY ONLY <1>7, <1>17, <2>1
    <2> QED
      BY ONLY <2>2, <1>7 DEF globalsBar
  <1>19. globals' \in Seq(G) /\ Len(globals') = k
    <2>1. [globals[n] EXCEPT !.val = a] \in G
      BY ONLY <1>2, <1>7, <1>11
    <2> QED
      BY ONLY <1>3, <1>5, <1>6, <1>17, <2>1
  <1>20. Store32
    BY ONLY RunsWith(vs) DEF RunsWith
  <1>21. LeadsTo(w)
    <2>1. globals' \in Words32(Len(Items(written.globalsec)))
      BY ONLY <1>2, <1>19 DEF Words32
    <2> QED
      BY ONLY <1>13, <1>14, <1>15, <1>16, <1>18, <1>20, <2>1 DEF LeadsTo, Store32
  <1> QED
    BY ONLY <1>21

(* The truths are words.                                                   *)
LEMMA TruthIs == 0 \in Word32 /\ 1 \in Word32 /\ Word(0) = 0 /\ Word(1) = 1
  <1>1. Limit = 2 * 2^(Width - 1) /\ 2^(Width - 1) \in Nat \ {0}
    BY ONLY SignedFacts
  <1>2. PICK h \in Nat \ {0} : h = 2^(Width - 1) /\ Limit = 2 * h
    BY ONLY <1>1
  <1>3. 0 \in 0..(2 * h - 1) /\ 1 \in 0..(2 * h - 1)
    OBVIOUS
  <1>4. 0 \in Word32 /\ 1 \in Word32
    BY ONLY <1>2, <1>3 DEF Word32
  <1> QED
    BY ONLY <1>4, SignedFacts

(* i32.eqz.                                                                *)
LEMMA EqzLeads ==
    ASSUME NEW vs, RunsWith(vs), ~S!Traps, Eqz
    PROVE  \E us : LeadsTo(us)
  <1>1. Now.op = I32Eqz /\ UNCHANGED <<globals, mem, locals>>
        /\ Push(writei32(After32(stack), Truth(readi32(stack) = 0)))
    BY ONLY Eqz DEF Eqz, At
  <1>2. PICK w, q, a : Word0(vs, w, q, a)
    BY ONLY <1>1, OperandsThere, LastIs, RunsWith(vs)
  <1>3. /\ a \in Word32 /\ q \in Seq(Word32) /\ Rest(vs, 1, w, q) /\ readi32(stack) = a /\ After32(stack) = q
        /\ S!Arg(0) = <<a>>
    BY ONLY <1>2 DEF Word0
  <1>4. PICK x \in Word32 : x = (IF a = 0 THEN 1 ELSE 0)
    BY ONLY TruthIs
  <1>5. S!Step = S!Ahead(1, <<<<x>>>>)
    <2>1. S!Word1(0) = a
      <3>1. <<a>>[1] = a
        OBVIOUS
      <3> QED
        BY ONLY <1>3, <3>1 DEF S!Word1
    <2> QED
      BY ONLY <1>1, <1>4, <2>1, BarIs, StepArms, RunsWith(vs)
  <1>6. PICK s : s = writei32(q, x)
    OBVIOUS
  <1>7. Push(s)
    BY ONLY <1>1, <1>3, <1>4, <1>6 DEF Truth
  <1>8. s = IF Len(q \o <<x>>) > StackSize THEN q ELSE q \o <<x>>
    BY ONLY <1>3, <1>6, StackWords, x \in Word32
  <1>9. <<x>> \in Seq(Word32) /\ Len(<<x>>) = M!Wide(I32) /\ I32 \in Nat
    BY ONLY ValueIs, x \in Word32
  <1>10. M!Gives(written, M!EntryIndex(written), Now) = <<I32>> /\ M!Takes(Now.op) = 1
    BY ONLY <1>1, RunsTypes, RunsWith(vs), GivesAre, TakesAre
  <1> QED
    BY ONLY <1>1, <1>3, <1>5, <1>7, <1>8, <1>9, <1>10, PushLeads, RunsWith(vs), ~S!Traps

(* A division without a result traps.                                      *)
LEMMA UndividedTraps ==
    ASSUME NEW vs, RunsWith(vs), Now.op \in Divisions, Undivided
    PROVE  S!Traps
  <1>1. PICK w, q, b : Word0(vs, w, q, b)
    BY ONLY Now.op \in Divisions, KindsApart, OperandsThere, LastIs, RunsWith(vs)
  <1>2. b \in Word32 /\ Rest(vs, 1, w, q) /\ readi32(stack) = b /\ After32(stack) = q /\ S!Arg(0) = <<b>>
    BY ONLY <1>1 DEF Word0
  <1>3. PICK x, r, a : Second(vs, q, x, r, a)
    BY ONLY <1>2, Now.op \in Divisions, KindsApart, OperandsThere, SecondIs, RunsWith(vs)
  <1>4. a \in Word32 /\ readi32(q) = a /\ S!Arg(1) = <<a>>
    BY ONLY <1>3 DEF Second
  <1>5. \A y : <<y>>[1] = y
    OBVIOUS
  <1>6. S!Word1(0) = b /\ S!Word1(1) = a
    BY ONLY <1>2, <1>4, <1>5 DEF S!Word1
  <1>7. Rhs = Int32(b) /\ Lhs = Int32(a)
    BY ONLY <1>2, <1>4 DEF Rhs, Lhs
  <1>8. Word(Int32(b)) = b /\ Word(Int32(a)) = a /\ Word(0) = 0
    BY ONLY <1>2, <1>4, SignedFacts, TruthIs
  <1>9. Word(-1) = Limit - 1 /\ Word(Least) = Limit \div 2
    <2>1. PICK h \in Nat \ {0} : h = 2^(Width - 1) /\ Limit = 2 * h /\ Limit \div 2 = h
      BY ONLY SignedFacts
    <2>2. \A n \in Int : Word(n + 1 * Limit) = Word(n)
      BY ONLY SignedFacts
    <2>3. \A n \in Word32 : Word(n) = n
      BY ONLY SignedFacts
    <2>4. -1 + 1 * (2 * h) = 2 * h - 1 /\ -h + 1 * (2 * h) = h /\ 2 * h - 1 \in 0..(2 * h - 1) /\ h \in 0..(2 * h - 1)
          /\ -h \in Int
      OBVIOUS
    <2>5. -1 + 1 * Limit = Limit - 1 /\ -h + 1 * Limit = h /\ Limit - 1 \in Word32 /\ h \in Word32
      BY ONLY <2>1, <2>4 DEF Word32
    <2>6. Word(-1) = Word(Limit - 1) /\ Word(-h) = Word(h)
      BY ONLY <2>2, <2>4, <2>5
    <2> QED
      BY ONLY <2>1, <2>3, <2>5, <2>6 DEF Least
  <1>10. b = 0 \/ (b = Limit - 1 /\ a = Limit \div 2)
    BY ONLY <1>7, <1>8, <1>9, Undivided DEF Undivided
  <1>11. S!NotDivided
    BY ONLY <1>6, <1>10, Now.op \in Divisions, BarIs, RunsWith(vs), SameKinds, SameNumbers DEF S!NotDivided
  <1> QED
    BY ONLY <1>11 DEF S!Traps

(* An instruction that computes.                                           *)
LEMMA BinopLeads ==
    ASSUME NEW vs, RunsWith(vs), ~S!Traps, Binop
    PROVE  \E us : LeadsTo(us)
  <1>1. PICK op : op = Now.op
    OBVIOUS
  <1>2. op \in Binaries /\ UNCHANGED <<globals, mem, locals>>
        /\ Push(writei32(After32(After32(stack)), Word(Computed(op, Lhs, Rhs))))
    BY ONLY <1>1, Binop DEF Binop, At, Result
  <1>3. PICK w, q, b : Word0(vs, w, q, b)
    BY ONLY <1>1, <1>2, OperandsThere, LastIs, RunsWith(vs)
  <1>4. b \in Word32 /\ Rest(vs, 1, w, q) /\ readi32(stack) = b /\ After32(stack) = q /\ S!Arg(0) = <<b>>
    BY ONLY <1>3 DEF Word0
  <1>5. PICK x, r, a : Second(vs, q, x, r, a)
    BY ONLY <1>1, <1>2, <1>4, OperandsThere, SecondIs, RunsWith(vs)
  <1>6. a \in Word32 /\ r \in Seq(Word32) /\ Rest(vs, 2, x, r) /\ readi32(q) = a /\ After32(q) = r /\ S!Arg(1) = <<a>>
    BY ONLY <1>5 DEF Second
  <1>7. \A y : <<y>>[1] = y
    OBVIOUS
  <1>8. S!Word1(0) = b /\ S!Word1(1) = a
    BY ONLY <1>4, <1>6, <1>7 DEF S!Word1
  <1>9. Rhs = Int32(b) /\ Lhs = Int32(a)
    BY ONLY <1>4, <1>6 DEF Rhs, Lhs
  <1>10. PICK v : v = Word(Computed(op, Int32(a), Int32(b)))
    OBVIOUS
  <1>11. v \in Word32 /\ S!Step = S!Ahead(2, <<<<v>>>>)
    <2>1. CASE op \in Relations
      <3>1. Computed(op, Int32(a), Int32(b)) = IF S!Holds(op, a, b) THEN 1 ELSE 0
        BY ONLY <1>4, <1>6, <2>1, HoldsIs
      <3>2. v = IF S!Holds(op, a, b) THEN 1 ELSE 0
        BY ONLY <1>10, <3>1, TruthIs
      <3>3. S!Step = S!Ahead(2, <<<<IF S!Holds(op, a, b) THEN 1 ELSE 0>>>>)
        BY ONLY <1>1, <1>8, <2>1, BarIs, StepArms, RunsWith(vs)
      <3> QED
        BY ONLY <3>2, <3>3, TruthIs
    <2>2. CASE op \in Binaries \ Relations
      <3>1. v = S!Calculated(op, a, b)
        BY ONLY <1>4, <1>6, <1>10, <2>2, CalculatedIs
      <3>2. S!Step = S!Ahead(2, <<<<S!Calculated(op, a, b)>>>>)
        BY ONLY <1>1, <1>8, <2>2, BarIs, StepArms, RunsWith(vs)
      <3>3. Computed(op, Int32(a), Int32(b)) \in Int
        <4>1. op \in Divisions => Int32(b) # 0
          BY ONLY <1>1, <1>9, Binop DEF Binop, Undivided
        <4>2. Int32(a) \in Int /\ Int32(b) \in Int
          BY ONLY <1>4, <1>6, SignedFacts
        <4> QED
          BY ONLY <1>2, <4>1, <4>2, ComputedInt
      <3>4. v \in Word32
        BY ONLY <1>10, <3>3, SignedFacts
      <3> QED
        BY ONLY <3>1, <3>2, <3>4
    <2> QED
      BY ONLY <1>2, <2>1, <2>2
  <1>12. PICK s : s = writei32(r, v)
    OBVIOUS
  <1>13. Push(s)
    BY ONLY <1>2, <1>4, <1>6, <1>9, <1>10, <1>12
  <1>14. s = IF Len(r \o <<v>>) > StackSize THEN r ELSE r \o <<v>>
    BY ONLY <1>6, <1>11, <1>12, StackWords
  <1>15. <<v>> \in Seq(Word32) /\ Len(<<v>>) = M!Wide(I32) /\ I32 \in Nat
    BY ONLY ValueIs, <1>11
  <1>16. M!Gives(written, M!EntryIndex(written), Now) = <<I32>> /\ M!Takes(Now.op) = 2
    BY ONLY <1>1, <1>2, RunsTypes, RunsWith(vs), GivesAre, TakesAre
  <1> QED
    BY ONLY <1>2, <1>6, <1>11, <1>13, <1>14, <1>15, <1>16, PushLeads, RunsWith(vs), ~S!Traps

(* What WASM lets through is in memory, and goes through.                  *)
LEMMA InBounds ==
    ASSUME NEW vs, RunsWith(vs), ~S!Traps, Now.op \in Loads \cup Stores, NEW a \in Word32,
           a = S!Word1(IF Now.op \in Stores THEN 1 ELSE 0), NEW ea, ea = Address(a), NEW n, n = Size(Now.op)
    PROVE  ea \in Nat /\ S!Effective = ea /\ ea + n <= Len(mem) /\ Through(ea, n) = {TRUE} /\ InMem(ea, n)
  <1>1. S!Instr = Now
    BY ONLY BarIs, RunsWith(vs)
  <1>2. S!Effective = a + Now.n
    BY ONLY <1>1, SameKinds, a = S!Word1(IF Now.op \in Stores THEN 1 ELSE 0) DEF S!Effective
  <1>3. storeBar.mem = mem
    <2>1. storeBar = StoreAt(ip, vs, mem, globalsBar, localsBar)
      BY ONLY BarIs, RunsWith(vs)
    <2> QED
      BY ONLY <2>1 DEF StoreAt
  <1>4. ~(a + Now.n + n > Len(mem))
    <2>1. ~S!OutOfBounds
      BY ONLY ~S!Traps DEF S!Traps
    <2> QED
      BY ONLY <1>1, <1>2, <1>3, <2>1, SameKinds, SameSize, Now.op \in Loads \cup Stores, n = Size(Now.op)
         DEF S!OutOfBounds
  <1>5. Now \in Format!Instruction /\ Now.n >= 0
    BY ONLY RunsTypes, RunsWith(vs), Now.op \in Loads \cup Stores DEF Within
  <1>6. PICK i \in Nat : i = Now.n
    <2>1. Now.n \in Int
      BY ONLY <1>5 DEF Format!Instruction
    <2> QED
      BY ONLY <1>5, <2>1
  <1>7. PICK j \in Nat \ {0} : j = n
    <2>1. n \in {1, 2, 4, 8}
      BY ONLY SizeFacts, n = Size(Now.op)
    <2> QED
      BY ONLY <2>1
  <1>8. PICK h \in Nat \ {0} : h = 2^(Width - 1) /\ Limit = 2 * h /\ Limit \div 2 = h
    BY ONLY SignedFacts
  <1>9. PICK l \in Nat : l = Len(mem) /\ l < h
    <2>1. mem \in Seq(Byte) /\ Len(mem) = M!Memory(written)
      BY ONLY RunsWith(vs) DEF RunsWith, Store32, Bytes32
    <2>2. M!Memory(written) < Limit \div 2
      <3>1. M!Limit = Limit
        BY ONLY TRUE DEF M!Limit, Limit, M!Width, Width
      <3>2. M!Memory(written) < M!Limit \div 2
        BY ONLY RunsWith(vs) DEF RunsWith, Enters, M!Supported
      <3> QED
        BY ONLY <3>1, <3>2
    <2>3. Len(mem) \in Nat
      BY ONLY <2>1
    <2> QED
      BY ONLY <1>8, <2>1, <2>2, <2>3
  <1>10. PICK x \in Nat : x = a
    BY ONLY a \in Word32 DEF Word32
  <1>11. x + i + j <= l /\ x + i < h /\ x + i \in 0..(2 * h - 1) /\ x + i \in Nat /\ ~(x + i + j >= h) /\ x + i >= 0
    <2>1. ~(x + i + j > l)
      BY ONLY <1>4, <1>6, <1>7, <1>9, <1>10
    <2> QED
      BY ONLY <1>9, <2>1, x \in Nat, i \in Nat, j \in Nat \ {0}, h \in Nat \ {0}, l \in Nat
  <1>12. ea = x + i
    <2>1. x + i \in Word32
      BY ONLY <1>8, <1>11 DEF Word32
    <2>2. Int32(x + i) = x + i
      BY ONLY <1>8, <1>11, <2>1, SignedFacts
    <2> QED
      BY ONLY <1>6, <1>10, <2>2, ea = Address(a) DEF Address
  <1> QED
    BY ONLY <1>2, <1>6, <1>7, <1>8, <1>9, <1>10, <1>11, <1>12 DEF Through, InMem

(* An instruction that loads.                                              *)
LEMMA LoadLeads ==
    ASSUME NEW vs, RunsWith(vs), ~S!Traps, Load
    PROVE  \E us : LeadsTo(us)
  <1>1. PICK op, n : op = Now.op /\ n = Size(op)
    OBVIOUS
  <1>2. op \in Loads
    BY ONLY <1>1, Load DEF Load, At
  <1>3. PICK w, q, a : Word0(vs, w, q, a)
    BY ONLY <1>1, <1>2, OperandsThere, LastIs, RunsWith(vs)
  <1>4. /\ a \in Word32 /\ q \in Seq(Word32) /\ Rest(vs, 1, w, q) /\ readi32(stack) = a /\ After32(stack) = q
        /\ S!Arg(0) = <<a>>
    BY ONLY <1>3 DEF Word0
  <1>5. PICK ea : ea = Address(a)
    OBVIOUS
  <1>6. ea \in Nat /\ S!Effective = ea /\ ea + n <= Len(mem) /\ Through(ea, n) = {TRUE} /\ InMem(ea, n)
    <2>1. op \notin Stores
      BY ONLY <1>2, KindsApart
    <2>2. <<a>>[1] = a
      OBVIOUS
    <2>3. a = S!Word1(IF Now.op \in Stores THEN 1 ELSE 0)
      BY ONLY <1>1, <1>4, <2>1, <2>2 DEF S!Word1
    <2>4. Now.op \in Loads \cup Stores
      BY ONLY <1>1, <1>2
    <2>5. n = Size(Now.op)
      BY ONLY <1>1
    <2>6. a \in Word32
      BY ONLY <1>4
    <2> QED
      BY ONLY <1>5, <2>3, <2>4, <2>5, <2>6, InBounds, RunsWith(vs), ~S!Traps
  <1>7. PICK s : s = Loaded(op, q, SubSeq(mem, ea + 1, ea + n))
    OBVIOUS
  <1>8. Push(s) /\ UNCHANGED <<globals, mem, locals>>
    <2>1. \E through \in Through(ea, n) :
            IF through /\ ~InMem(ea, n) THEN Stray
            ELSE /\ Push(Loaded(op, q, IF through THEN SubSeq(mem, ea + 1, ea + n) ELSE [k \in 1..n |-> 0]))
                 /\ UNCHANGED <<globals, mem, locals>>
      BY ONLY <1>1, <1>4, <1>5, Load DEF Load
    <2> QED
      BY ONLY <1>6, <1>7, <2>1
  <1>9. PICK v : v = S!LoadedValue(op)
    OBVIOUS
  <1>10. /\ v \in Seq(Word32) /\ Len(v) = IF op = I64Load THEN 2 ELSE 1
         /\ s = IF Len(q \o v) > StackSize THEN q ELSE q \o v
    <2>1. storeBar.mem = mem
      <3>1. storeBar = StoreAt(ip, vs, mem, globalsBar, localsBar)
        BY ONLY BarIs, RunsWith(vs)
      <3> QED
        BY ONLY <3>1 DEF StoreAt
    <2>2. mem \in Seq(Byte)
      BY ONLY RunsWith(vs) DEF RunsWith, Store32, Bytes32
    <2>3. PICK r : r = mem
      OBVIOUS
    <2>4. r \in Seq(Byte) /\ ea + Size(op) <= Len(r) /\ storeBar.mem = r
      BY ONLY <1>1, <1>6, <2>1, <2>2, <2>3
    <2>5. /\ v \in Seq(Word32) /\ Len(v) = IF op = I64Load THEN 2 ELSE 1
          /\ Loaded(op, q, SubSeq(r, ea + 1, ea + Size(op))) = IF Len(q \o v) > StackSize THEN q ELSE q \o v
      <3>1. q \in Seq(Word32)
        BY ONLY <1>4
      <3>2. ea \in Nat
        BY ONLY <1>6
      <3>3. S!Effective = ea
        BY ONLY <1>6
      <3>4. r \in Seq(Byte)
        BY ONLY <2>4
      <3>5. ea + Size(op) <= Len(r)
        BY ONLY <2>4
      <3>6. storeBar.mem = r
        BY ONLY <2>4
      <3> QED
        BY ONLY <1>2, <1>9, <3>1, <3>2, <3>3, <3>4, <3>5, <3>6, LoadedIs
    <2> QED
      BY ONLY <1>1, <1>7, <2>3, <2>5
  <1>11. PICK t : t = (IF op = I64Load THEN I64 ELSE I32)
    OBVIOUS
  <1>12. t \in Nat /\ Len(v) = M!Wide(t)
    BY ONLY <1>10, <1>11, ValueIs
  <1>13. M!Gives(written, M!EntryIndex(written), Now) = <<t>> /\ M!Takes(Now.op) = 1
    BY ONLY <1>1, <1>2, <1>11, RunsTypes, RunsWith(vs), GivesAre, TakesAre
  <1>14. S!Step = S!Ahead(1, <<v>>)
    BY ONLY <1>1, <1>2, <1>9, BarIs, StepArms, RunsWith(vs)
  <1> QED
    BY ONLY <1>4, <1>8, <1>10, <1>12, <1>13, <1>14, PushLeads, RunsWith(vs), ~S!Traps

(* An instruction that stores.                                             *)
LEMMA StoreLeads ==
    ASSUME NEW vs, RunsWith(vs), ~S!Traps, Store
    PROVE  \E us : LeadsTo(us)
  <1>1. PICK op, n : op = Now.op /\ n = Size(op)
    OBVIOUS
  <1>2. op \in Stores
    BY ONLY <1>1, Store DEF Store, At
  <1>3. PICK below : below = IF op = I64Store THEN After64(stack) ELSE After32(stack)
    OBVIOUS
  <1>4. PICK bytes : bytes = IF op = I64Store THEN Bytes(readi64(stack)[2], 4) \o Bytes(readi64(stack)[1], 4)
                                              ELSE Bytes(readi32(stack), n)
    OBVIOUS
  <1>5. PICK x, v : /\ Rest(vs, 1, x, below) /\ S!Arg(0) = v /\ v \in Seq(Word32)
                    /\ Len(v) = IF op = I64Store THEN 2 ELSE 1
                    /\ bytes = IF op = I64Store THEN Bytes(v[2], 4) \o Bytes(v[1], 4) ELSE Bytes(v[1], n)
    <2>1. Len(Before32) >= 1 /\ Top(Before32, 0) = IF op = I64Store THEN I64 ELSE I32
      BY ONLY <1>1, <1>2, OperandsThere, RunsWith(vs)
    <2>2. CASE op = I64Store
      <3>1. PICK x, q, a, b : Pair0(vs, x, q, a, b)
        BY ONLY <2>1, <2>2, LastIs, RunsWith(vs)
      <3>2. /\ a \in Word32 /\ b \in Word32 /\ Rest(vs, 1, x, q) /\ readi64(stack) = <<a, b>>
            /\ After64(stack) = q /\ S!Arg(0) = <<a, b>>
        BY ONLY <3>1 DEF Pair0
      <3>3. <<a, b>> \in Seq(Word32) /\ Len(<<a, b>>) = 2
        BY ONLY <3>2, ValueIs
      <3> QED
        BY ONLY <1>3, <1>4, <2>2, <3>2, <3>3
    <2>3. CASE op # I64Store
      <3>1. PICK x, q, a : Word0(vs, x, q, a)
        BY ONLY <2>1, <2>3, LastIs, RunsWith(vs)
      <3>2. a \in Word32 /\ Rest(vs, 1, x, q) /\ readi32(stack) = a /\ After32(stack) = q /\ S!Arg(0) = <<a>>
        BY ONLY <3>1 DEF Word0
      <3>3. <<a>> \in Seq(Word32) /\ Len(<<a>>) = 1 /\ <<a>>[1] = a
        BY ONLY <3>2, ValueIs
      <3> QED
        BY ONLY <1>3, <1>4, <2>3, <3>2, <3>3
    <2> QED
      BY ONLY <2>2, <2>3
  <1>6. PICK w, q, a : Second(vs, below, w, q, a)
    <2>1. Rest(vs, 1, x, below) /\ Now.op \in Stores \cup Binaries
      BY ONLY <1>1, <1>2, <1>5
    <2>2. Len(Before32) >= 2 /\ Top(Before32, 1) = I32
      BY ONLY <2>1, OperandsThere, RunsWith(vs)
    <2> QED
      BY ONLY <2>1, <2>2, SecondIs, RunsWith(vs)
  <1>7. a \in Word32 /\ Rest(vs, 2, w, q) /\ readi32(below) = a /\ After32(below) = q /\ S!Arg(1) = <<a>>
    BY ONLY <1>6 DEF Second
  <1>8. PICK ea : ea = Address(a)
    OBVIOUS
  <1>9. ea \in Nat /\ S!Effective = ea /\ ea + n <= Len(mem) /\ Through(ea, n) = {TRUE} /\ InMem(ea, n)
    <2>1. <<a>>[1] = a
      OBVIOUS
    <2>2. a = S!Word1(IF Now.op \in Stores THEN 1 ELSE 0)
      BY ONLY <1>1, <1>2, <1>7, <2>1 DEF S!Word1
    <2>3. Now.op \in Loads \cup Stores
      BY ONLY <1>1, <1>2
    <2>4. n = Size(Now.op)
      BY ONLY <1>1
    <2>5. a \in Word32
      BY ONLY <1>7
    <2> QED
      BY ONLY <1>8, <2>2, <2>3, <2>4, <2>5, InBounds, RunsWith(vs), ~S!Traps
  <1>10. \A k \in 1..n : bytes[k] = S!StoredByte(op, k) /\ bytes[k] \in Byte
    <2>1. v \in Seq(Word32)
      BY ONLY <1>5
    <2>2. Len(v) = IF op = I64Store THEN 2 ELSE 1
      BY ONLY <1>5
    <2>3. S!Arg(0) = v
      BY ONLY <1>5
    <2>4. bytes = IF op = I64Store THEN Bytes(v[2], 4) \o Bytes(v[1], 4) ELSE Bytes(v[1], Size(op))
      BY ONLY <1>1, <1>5
    <2>5. \A k \in 1..Size(op) : bytes[k] = S!StoredByte(op, k) /\ bytes[k] \in Byte
      BY ONLY <1>2, <2>1, <2>2, <2>3, <2>4, StoredIs
    <2> QED
      BY ONLY <1>1, <2>5
  <1>11. /\ Push(q) /\ UNCHANGED <<globals, locals>>
         /\ mem' = [k \in DOMAIN mem |-> IF k - ea \in 1..n THEN bytes[k - ea] ELSE mem[k]]
    <2>1. \E through \in Through(ea, n) :
            IF through /\ ~InMem(ea, n) THEN Stray
            ELSE /\ Push(After32(below))
                 /\ mem' = [k \in DOMAIN mem |-> IF through /\ k - ea \in 1..n THEN bytes[k - ea] ELSE mem[k]]
                 /\ UNCHANGED <<globals, locals>>
      <3> DEFINE wide == Now.op = I64Store
                 c == readi64(stack)
                 lower == IF wide THEN After64(stack) ELSE After32(stack)
                 address == Address(readi32(lower))
                 size == Size(Now.op)
                 words == IF wide THEN Bytes(c[2], 4) \o Bytes(c[1], 4) ELSE Bytes(readi32(stack), size)
      <3>1. \E through \in Through(address, size) :
              IF through /\ ~InMem(address, size) THEN Stray
              ELSE /\ Push(After32(lower))
                   /\ mem' = [k \in DOMAIN mem |-> IF through /\ k - address \in 1..size THEN words[k - address] ELSE mem[k]]
                   /\ UNCHANGED <<globals, locals>>
        BY ONLY Store DEF Store
      <3>2. lower = below /\ size = n /\ words = bytes
        BY ONLY <1>1, <1>3, <1>4
      <3> HIDE DEF lower, size, words
      <3>3. address = ea
        BY ONLY <1>7, <1>8, <3>2
      <3> HIDE DEF address
      <3> QED
        BY ONLY <3>1, <3>2, <3>3
    <2>2. /\ Push(After32(below))
          /\ mem' = [k \in DOMAIN mem |-> IF TRUE /\ k - ea \in 1..n THEN bytes[k - ea] ELSE mem[k]]
          /\ UNCHANGED <<globals, locals>>
      BY ONLY <1>9, <2>1
    <2> QED
      BY ONLY <1>7, <2>2
  <1>12. M!Takes(Now.op) = 2 /\ M!Gives(written, M!EntryIndex(written), Now) = <<>>
    BY ONLY <1>1, <1>2, RunsTypes, RunsWith(vs), GivesAre, TakesAre
  <1>13. Represents(w, q, TypesOf(written)[ip]) /\ S!Ahead(2, <<>>) = StoreAt(ip + 1, w, mem, globalsBar, localsBar)
    BY ONLY <1>7, <1>12, DropLeads, RunsWith(vs)
  <1>14. S!Step = StoreAt(ip + 1, w, mem', globalsBar, localsBar)
    <2>1. S!Step = [S!Ahead(2, <<>>) EXCEPT !.mem = Stored32(op, S!Ahead(2, <<>>).mem)]
      BY ONLY <1>1, <1>2, BarIs, StepArms, RunsWith(vs)
    <2>2. S!Effective = ea /\ S!Width8(op) = n
      BY ONLY <1>1, <1>9, SameSize
    <2>3. S!Ahead(2, <<>>).mem = mem
      BY ONLY <1>13 DEF StoreAt
    <2>4. PICK r : r = [k \in DOMAIN mem |-> IF k - ea \in 1..n THEN S!StoredByte(op, k - ea) ELSE mem[k]]
      OBVIOUS
    <2>5. S!Step = StoreAt(ip + 1, w, r, globalsBar, localsBar)
      <3>1. Stored32(op, mem) = r
        BY ONLY <2>2, <2>4 DEF Stored32
      <3> QED
        BY ONLY <1>13, <2>1, <2>3, <3>1 DEF StoreAt
    <2>6. mem' = r
      BY ONLY <1>10, <1>11, <2>4
    <2> QED
      BY ONLY <2>5, <2>6
  <1>15. mem' \in Bytes32
    <2>1. PICK X, j : X = Byte /\ j = M!Memory(written)
      OBVIOUS
    <2>2. PICK r : r = mem
      OBVIOUS
    <2>3. r \in Seq(X) /\ Len(r) = j
      BY ONLY <2>1, <2>2, RunsWith(vs) DEF RunsWith, Store32, Bytes32
    <2>4. PICK l \in Nat : l = Len(r) /\ DOMAIN r = 1..l
      BY ONLY <2>3
    <2>5. \A k \in 1..l : r[k] \in X
      BY ONLY <2>3, <2>4
    <2>6. PICK t : t = mem'
      OBVIOUS
    <2>7. t = [k \in 1..l |-> IF k - ea \in 1..n THEN bytes[k - ea] ELSE r[k]]
      BY ONLY <1>11, <2>2, <2>4, <2>6
    <2>8. t \in [1..l -> X]
      BY ONLY <1>10, <2>1, <2>5, <2>7
    <2>9. t \in Seq(X) /\ Len(t) = l
      BY ONLY <2>8, l \in Nat
    <2> QED
      BY ONLY <2>1, <2>3, <2>4, <2>6, <2>9 DEF Bytes32
  <1>16. Forth /\ written' = written /\ m' = m /\ funcs' = funcs /\ stack' = q /\ Function' = Function
    BY ONLY <1>11, PushOnly
  <1>17. globalsBar' = globalsBar /\ localsBar' = localsBar /\ globals' = globals /\ locals' = locals
    BY ONLY <1>11, <1>16 DEF globalsBar, localsBar
  <1>18. Store32
    BY ONLY RunsWith(vs) DEF RunsWith
  <1>19. LeadsTo(w)
    BY ONLY <1>13, <1>14, <1>15, <1>16, <1>17, <1>18 DEF LeadsTo, Store32
  <1> QED
    BY ONLY <1>19

----------------------------------------------------------------------------
(* One call of invoke_i, and what a module starts from.                    *)

(* A supported program has none of the instructions that are no straight   *)
(* code.                                                                   *)
LEMMA OnlyStraight ==
    ASSUME NEW vs, RunsWith(vs)
    PROVE  ~TaskExit /\ ~DoNothing /\ ~At({Return})
  <1>1. Now.op \in Straights
    BY ONLY RunsWith(vs), RunsTypes
  <1>2. \A x \in Straights : x \notin {Unreachable, Nop, Return}
    BY DEF Straights, Unreachable, Nop, Return, Loads, Stores, Indexed, Consts, Binaries, Divisions, I32Eqz, Drop, End,
       LocalGet, LocalSet, GlobalGet, GlobalSet, I32Const, I64Const, I32Load, I64Load, I32Load8_s, I32Load8_u,
       I32Load16_u, I32Store, I64Store, I32Store8, I32Eq, I32Ne, I32Lt_s, I32Gt_s, I32Gt_u, I32Ge_s, I32Add, I32Sub,
       I32Mul, I32And, I32Or, I32Xor, I32Shl, I32Shr_s, I32Div_s, I32Rem_s
  <1> QED
    BY ONLY <1>1, <1>2 DEF TaskExit, DoNothing, At

(* What a supported program does next is what WASM says, while nothing     *)
(* traps.                                                                  *)
LEMMA InvokeLeads ==
    ASSUME NEW vs, RunsWith(vs), ~S!Traps, invoke_i, ~EndOrReturn
    PROVE  \E us : LeadsTo(us)
  <1>1. ~DivideFault /\ ~DivideAnyway
    <2>1. DivideFault \/ DivideAnyway => Now.op \in Divisions /\ Undivided
      BY ONLY TRUE DEF DivideFault, DivideAnyway, At
    <2> QED
      BY ONLY <2>1, UndividedTraps, RunsWith(vs), ~S!Traps
  <1>2. \/ Const \/ DropTop \/ GetLocal \/ SetLocal \/ GetGlobal \/ SetGlobal \/ Load \/ Store \/ Eqz \/ Binop
    <2>1. ~TaskExit /\ ~DoNothing
      BY ONLY RunsWith(vs), OnlyStraight
    <2> QED
      BY ONLY <1>1, <2>1, invoke_i, ~EndOrReturn DEF invoke_i
  <1>3. Const => \E us : LeadsTo(us)
    BY ONLY RunsWith(vs), ~S!Traps, ConstLeads
  <1>4. DropTop => \E us : LeadsTo(us)
    BY ONLY RunsWith(vs), ~S!Traps, DropTopLeads
  <1>5. GetLocal => \E us : LeadsTo(us)
    BY ONLY RunsWith(vs), ~S!Traps, GetLocalLeads
  <1>6. SetLocal => \E us : LeadsTo(us)
    BY ONLY RunsWith(vs), ~S!Traps, SetLocalLeads
  <1>7. GetGlobal => \E us : LeadsTo(us)
    BY ONLY RunsWith(vs), ~S!Traps, GetGlobalLeads
  <1>8. SetGlobal => \E us : LeadsTo(us)
    BY ONLY RunsWith(vs), ~S!Traps, SetGlobalLeads
  <1>9. Load => \E us : LeadsTo(us)
    BY ONLY RunsWith(vs), ~S!Traps, LoadLeads
  <1>10. Store => \E us : LeadsTo(us)
    BY ONLY RunsWith(vs), ~S!Traps, StoreLeads
  <1>11. Eqz => \E us : LeadsTo(us)
    BY ONLY RunsWith(vs), ~S!Traps, EqzLeads
  <1>12. Binop => \E us : LeadsTo(us)
    BY ONLY RunsWith(vs), ~S!Traps, BinopLeads
  <1> QED
    BY ONLY <1>2, <1>3, <1>4, <1>5, <1>6, <1>7, <1>8, <1>9, <1>10, <1>11, <1>12

(* It runs on, or it has returned.                                         *)
LEMMA RunsOn ==
    ASSUME NEW vs, RunsWith(vs), ~S!Traps, invoke_i, ~trapped'
    PROVE  /\ storeBar' = S!Step /\ storeBar.status = "running"
           /\ at' = "returned" \/ \E us : RunsWith(us)'
  <1>1. storeBar = StoreAt(ip, vs, mem, globalsBar, localsBar) /\ S!Instr = Now
    BY ONLY BarIs, RunsWith(vs)
  <1>2. storeBar.status = "running"
    BY ONLY <1>1 DEF StoreAt
  <1>3. Runs(written, M!EntryIndex(written), Function) /\ ip \in 1..Len(Function.codes)
    BY ONLY RunsWith(vs) DEF RunsWith, Enters
  <1>4. CASE EndOrReturn
    <2>1. /\ at' = "returned" /\ written' = written /\ m' = m /\ funcs' = funcs /\ ip' = ip /\ stack' = stack
          /\ globals' = globals /\ mem' = mem /\ locals' = locals /\ Now.op = End
      <3>1. ~At({Return})
        BY ONLY RunsWith(vs), OnlyStraight
      <3> QED
        BY ONLY <1>4, <3>1 DEF EndOrReturn, Stop, At, loadVars, dataVars
    <2>2. Function' = Function
      BY ONLY <2>1, SameFunction
    <2>3. globalsBar' = globalsBar /\ localsBar' = localsBar /\ Operands' = Operands
      BY ONLY <2>1, <2>2 DEF globalsBar, localsBar, Operands
    <2>4. Operands = vs
      BY ONLY RunsWith(vs), ValuesUnique DEF RunsWith, Operands, TypesOf
    <2>5. storeBar' = [status |-> "returned", pc |-> ip, ops |-> vs, mem |-> mem, globals |-> globalsBar,
                       locals |-> localsBar]
      BY ONLY <2>1, <2>3, <2>4, ~trapped' DEF storeBar
    <2>6. S!Step = [storeBar EXCEPT !.status = "returned"]
      BY ONLY <1>1, <2>1, StepArms
    <2>7. S!Step = storeBar'
      BY ONLY <1>1, <2>5, <2>6 DEF StoreAt
    <2> QED
      BY ONLY <1>2, <2>1, <2>7
  <1>5. CASE ~EndOrReturn
    <2>1. PICK us : LeadsTo(us)
      BY ONLY <1>5, InvokeLeads, RunsWith(vs), ~S!Traps, invoke_i
    <2>2. at' = at /\ at = "run_vm"
      BY ONLY <2>1, RunsWith(vs) DEF LeadsTo, Forth, RunsWith
    <2>3. Now.op # End
      BY ONLY <2>2, WhereTo, invoke_i DEF Enders
    <2>4. ip + 1 \in 1..Len(Function.codes)
      <3>1. Function.codes \in Seq(Format!Instruction) /\ Function.codes[Len(Function.codes)].op = End
        BY ONLY <1>3 DEF Runs, Sound
      <3>2. ip # Len(Function.codes)
        BY ONLY <2>3, <3>1 DEF Now
      <3> QED
        BY ONLY <1>3, <3>1, <3>2
    <2>5. storeBar' = S!Step /\ RunsWith(us)'
      BY ONLY <2>1, <2>4, BarThen, RunsWith(vs), ~trapped'
    <2> QED
      BY ONLY <1>2, <2>5
  <1> QED
    BY ONLY <1>4, <1>5

\* n writers one after the other, the k-th writing b[k] to the places c[k]; the last of some of them.
Overwrites(n, I, z, c, b, u) ==
    /\ u[0] = [i \in I |-> z]
    /\ \A k \in 1..n : u[k] = [i \in DOMAIN u[k - 1] |-> IF i \in c[k] THEN b[k][i] ELSE u[k - 1][i]]
Latest(s) == CHOOSE k \in s : \A j \in s : j <= k

(* What is written last stays.                                             *)
LEMMA LastWriter ==
    ASSUME NEW n \in Nat, NEW I, NEW z, NEW c, NEW b, NEW u, Overwrites(n, I, z, c, b, u)
    PROVE  u[n] = [i \in I |-> IF {k \in 1..n : i \in c[k]} = {} THEN z ELSE b[Latest({k \in 1..n : i \in c[k]})][i]]
  <1> DEFINE Over(m1, i) == {k \in 1..m1 : i \in c[k]}
             byte(m1, i) == IF Over(m1, i) = {} THEN z ELSE b[Latest(Over(m1, i))][i]
             P == {k \in Nat : k <= n => u[k] = [i \in I |-> byte(k, i)]}
  <1>1. 0 \in P
    <2>1. \A i : Over(0, i) = {}
      OBVIOUS
    <2> HIDE DEF Over
    <2> QED
      BY ONLY <2>1, Overwrites(n, I, z, c, b, u) DEF Overwrites
  <1>2. ASSUME NEW k \in Nat, k <= n => u[k] = [i \in I |-> byte(k, i)], k + 1 <= n
        PROVE  u[k + 1] = [i \in I |-> byte(k + 1, i)]
    <2>0. k \in Nat /\ k + 1 \in Nat
      OBVIOUS
    <2>1. u[k] = [i \in I |-> byte(k, i)] /\ k + 1 \in 1..n /\ (k + 1) - 1 = k
      BY ONLY <1>2, k \in Nat, n \in Nat
    <2>2. u[k + 1] = [i \in I |-> IF i \in c[k + 1] THEN b[k + 1][i] ELSE byte(k, i)]
      <3> HIDE DEF byte
      <3>1. DOMAIN u[k] = I /\ \A i \in I : u[k][i] = byte(k, i)
        BY ONLY <2>1
      <3>2. u[k + 1] = [i \in DOMAIN u[(k + 1) - 1] |-> IF i \in c[k + 1] THEN b[k + 1][i] ELSE u[(k + 1) - 1][i]]
        BY ONLY <2>1, Overwrites(n, I, z, c, b, u) DEF Overwrites
      <3> QED
        BY ONLY <2>1, <3>1, <3>2
    <2>3. ASSUME NEW i \in I PROVE byte(k + 1, i) = IF i \in c[k + 1] THEN b[k + 1][i] ELSE byte(k, i)
      <3>1. PICK s : s = Over(k + 1, i)
        OBVIOUS
      <3>2. CASE i \in c[k + 1]
        <4>1. k + 1 \in s /\ \A j \in s : j <= k + 1 /\ j \in Nat
          BY ONLY <2>0, <3>1, <3>2
        <4>2. Latest(s) = k + 1
          <5>1. \A j \in s : (\A l \in s : l <= j) => j = k + 1
            BY ONLY <2>0, <4>1
          <5>2. \A l \in s : l <= k + 1
            BY ONLY <4>1
          <5> QED
            BY ONLY <4>1, <5>1, <5>2 DEF Latest
        <4> HIDE DEF Over
        <4>3. s # {}
          BY ONLY <4>1
        <4> QED
          BY ONLY <3>1, <3>2, <4>2, <4>3
      <3>3. CASE i \notin c[k + 1]
        <4>1. s = Over(k, i)
          <5>1. \A j : j \in 1..(k + 1) <=> j \in 1..k \/ j = k + 1
            BY ONLY <2>0
          <5> QED
            BY ONLY <3>1, <3>3, <5>1
        <4> HIDE DEF Over
        <4> QED
          BY ONLY <3>1, <3>3, <4>1
      <3> QED
        BY ONLY <3>2, <3>3
    <2> HIDE DEF byte
    <2> QED
      BY ONLY <2>2, <2>3
  <1>3. \A k \in P : k + 1 \in P
    <2> HIDE DEF byte
    <2> QED
      BY ONLY <1>2 DEF P
  <1>3a. P \in SUBSET Nat
    OBVIOUS
  <1> HIDE DEF P
  <1>4. P = Nat
    BY ONLY <1>1, <1>3, <1>3a, SetInduction
  <1>5. u[n] = [i \in I |-> byte(n, i)]
    <2>1. n \in P /\ n <= n
      BY ONLY <1>4, n \in Nat
    <2> HIDE DEF byte
    <2> QED
      BY ONLY <2>1 DEF P
  <1> QED
    BY ONLY <1>5

\* What a supported program starts with.
StartGlobals(p) ==
    [k \in 1..Len(Items(p.globalsec)) |-> [ty |-> I32, val |-> Word(Items(p.globalsec)[k].expr[1].n)]]
StartMemory(p)  == [k \in 1..M!Memory(p) |-> M!InitialByte(p, k - 1)]

(* A constant on an empty stack is read back.                              *)
LEMMA ConstantOnEmpty ==
    ASSUME NEW e, e[1].n \in Int, e[1].op = I32Const
    PROVE  readi32(Constant(<<>>, e)) = Word(e[1].n) /\ After32(Constant(<<>>, e)) = <<>>
  <1>1. PICK a \in Word32 : a = Word(e[1].n)
    BY ONLY SignedFacts, e[1].n \in Int
  <1>2. <<>> \in Seq(Word32) /\ Len(<<>> \o <<a>>) = 1
    OBVIOUS
  <1>3. ~(1 > StackSize)
    <2>1. <<>> \in Room
      BY StackAssumption DEF Room
    <2>2. Len(<<>>) = 0
      OBVIOUS
    <2>3. StackSize \in Nat /\ 0 < StackSize
      BY ONLY <2>1, <2>2, StackAssumption DEF Room
    <2> QED
      BY ONLY <2>3
  <1>4. Constant(<<>>, e) = <<>> \o <<a>>
    <2>1. Constant(<<>>, e) = writei32(<<>>, a)
      BY ONLY <1>1, e[1].op = I32Const DEF Constant
    <2>2. writei32(<<>>, a) = IF Len(<<>> \o <<a>>) > StackSize THEN <<>> ELSE <<>> \o <<a>>
      BY ONLY <1>2, StackWords, a \in Word32
    <2> QED
      BY ONLY <1>2, <1>3, <2>1, <2>2
  <1> QED
    BY ONLY <1>1, <1>2, <1>4, StackWords, a \in Word32

(* The globals of a supported program.                                     *)
LEMMA SupportedGlobals ==
    ASSUME NEW p \in Modules, M!Supported(p), Items(p.globalsec) \in Seq(GlobalInits), NEW gs, gs = Items(p.globalsec)
    PROVE  \A k \in 1..Len(gs) : gs[k].ty = I32 /\ gs[k].expr[1].op = I32Const /\ gs[k].expr[1].n \in Int
  <1> SUFFICES ASSUME NEW k \in 1..Len(gs), NEW g, g = gs[k]
               PROVE  g.ty = I32 /\ g.expr[1].op = I32Const /\ g.expr[1].n \in Int
    OBVIOUS
  <1>1. g \in GlobalInits /\ k \in DOMAIN gs
    <2>1. gs \in Seq(GlobalInits)
      BY ONLY Items(p.globalsec) \in Seq(GlobalInits), gs = Items(p.globalsec)
    <2> QED
      BY ONLY <2>1, g = gs[k], k \in 1..Len(gs)
  <1>2. g \in M!ToSet(M!Items(p.globalsec))
    BY ONLY <1>1, SameItems, g = gs[k], gs = Items(p.globalsec) DEF M!ToSet
  <1>3. g.ty = M!I32
    BY ONLY <1>2, M!Supported(p) DEF M!Supported
  <1>4. M!Valid(p)
    BY ValidAssumption
  <1>5. g.expr[1].op = M!I32Const
    <2>1. <<g.ty, g.expr[1].op>> \in {<<M!I32, M!I32Const>>, <<M!I64, M!I64Const>>}
      BY ONLY <1>2, <1>4 DEF M!Valid
    <2>2. M!I32 # M!I64
      BY ONLY TRUE DEF M!I32, M!I64
    <2> QED
      BY ONLY <1>3, <2>1, <2>2
  <1>6. g.expr[1].n \in Int
    <2>1. g.expr \in Format!Constexpr
      BY ONLY <1>1 DEF GlobalInits
    <2>2. g.expr[1] \in Format!Instruction
      BY ONLY <2>1 DEF Format!Constexpr
    <2> QED
      BY ONLY <2>2 DEF Format!Instruction
  <1> QED
    BY ONLY <1>3, <1>5, <1>6, ModuleKinds

(* create_context makes them, and leaves nothing on the stack.             *)
LEMMA GlobalsStart ==
    ASSUME NEW p \in Modules, p = written, M!Supported(p), Filled(m, p, 14), InitGlobals, stack = <<>>
    PROVE  stack' = <<>> /\ globals' = StartGlobals(p)
  <1>1. PICK gs : gs = Items(p.globalsec)
    OBVIOUS
  <1>2. gs \in Seq(GlobalInits)
    BY ONLY <1>1, p \in Modules, p = written, Filled(m, p, 14), InitGlobals, stack = <<>>, GlobalsStep
  <1>3. PICK u : /\ Evaluating(gs, <<>>, u) /\ stack' = u[Len(gs)]
                 /\ globals' = [k \in 1..Len(gs) |-> [ty |-> gs[k].ty, val |-> readi32(Constant(u[k - 1], gs[k].expr))]]
    BY ONLY <1>1, p \in Modules, p = written, Filled(m, p, 14), InitGlobals, stack = <<>>, GlobalsStep
  <1>4. \A k \in 1..Len(gs) : gs[k].ty = I32 /\ gs[k].expr[1].op = I32Const /\ gs[k].expr[1].n \in Int
    BY ONLY <1>1, <1>2, p \in Modules, M!Supported(p), SupportedGlobals
  <1>5. PICK n \in Nat : n = Len(gs)
    BY ONLY <1>2
  <1>6. u[0] = <<>> /\ \A k \in 1..n : u[k] = After32(Constant(u[k - 1], gs[k].expr))
    BY ONLY <1>3, <1>5 DEF Evaluating
  <1> DEFINE P == {k \in Nat : k <= n => u[k] = <<>>}
  <1>7. 0 \in P
    BY ONLY <1>6
  <1>8. ASSUME NEW k \in P PROVE k + 1 \in P
    <2>1. CASE k + 1 <= n
      <3>1. k \in Nat /\ u[k] = <<>> /\ k + 1 \in 1..n /\ (k + 1) - 1 = k
        BY ONLY n \in Nat, <2>1, k \in P
      <3>2. u[k + 1] = After32(Constant(<<>>, gs[k + 1].expr))
        BY ONLY <1>6, <3>1
      <3>3. After32(Constant(<<>>, gs[k + 1].expr)) = <<>>
        BY ONLY <1>4, <1>5, <3>1, ConstantOnEmpty
      <3> QED
        BY ONLY <3>1, <3>2, <3>3
    <2>2. CASE ~(k + 1 <= n)
      BY ONLY <2>2, k \in P
    <2> QED
      BY ONLY <2>1, <2>2
  <1>9. P \in SUBSET Nat
    OBVIOUS
  <1> HIDE DEF P
  <1>10. P = Nat
    BY ONLY <1>7, <1>8, <1>9, SetInduction
  <1>11. u[n] = <<>> /\ \A k \in 1..n : u[k - 1] = <<>>
    <2>1. \A k \in 0..n : u[k] = <<>>
      BY ONLY <1>10, n \in Nat DEF P
    <2> QED
      BY ONLY <2>1, n \in Nat
  <1>12. \A k \in 1..n : readi32(Constant(u[k - 1], gs[k].expr)) = Word(gs[k].expr[1].n)
    BY ONLY <1>4, <1>5, <1>11, ConstantOnEmpty
  <1> QED
    BY ONLY <1>1, <1>3, <1>4, <1>5, <1>11, <1>12 DEF StartGlobals

(* The segments of a supported program.                                    *)
LEMMA SupportedData ==
    ASSUME NEW p \in Modules, M!Supported(p), NEW ds, ds = Items(p.datasec)
    PROVE  /\ ds \in Seq(ByteData) /\ OfKind0(ds)
           /\ \A k \in 1..Len(ds) :
                 /\ ds[k] \in ToSet(ds) /\ ds[k].kind = 0 /\ ds[k].data \in Seq(Byte)
                 /\ ds[k].expr[1].op = I32Const /\ ds[k].expr[1].n \in Int
                 /\ M!Begin(ds[k]) \in Int /\ M!Begin(ds[k]) >= 0
                 /\ M!Begin(ds[k]) + Len(ds[k].data) <= M!Memory(p)
  <1>1. p \in Format!Writable /\ M!Valid(p)
    BY ModulesAssumption, ValidAssumption
  <1>2. ds \in Seq(ByteData)
    <2>1. <<>> \in Seq(ByteData)
      OBVIOUS
    <2>2. Optional(p.datasec, ByteData)
      BY ONLY <1>1, ModuleTypes
    <2> QED
      BY ONLY <2>1, <2>2, ds = Items(p.datasec) DEF Items, Optional
  <1>3. M!ToSet(M!Items(p.datasec)) = ToSet(ds)
    BY ONLY SameItems, ds = Items(p.datasec) DEF M!ToSet, ToSet
  <1>4. \A d \in ToSet(ds) : d.kind = 0 /\ M!Begin(d) >= 0 /\ M!Begin(d) + Len(d.data) <= M!Memory(p)
    BY ONLY <1>3, M!Supported(p) DEF M!Supported
  <1>5. \A d \in ToSet(ds) : d.expr[1].op = I32Const
    <2>1. \A d \in M!ToSet(M!Items(p.datasec)) : d.kind = 0 => d.expr[1].op = M!I32Const
      BY ONLY <1>1 DEF M!Valid
    <2> QED
      BY ONLY <1>3, <1>4, <2>1, ModuleKinds
  <1>6. \A k \in 1..Len(ds) : ds[k] \in ToSet(ds) /\ ds[k] \in ByteData
    BY ONLY <1>2 DEF ToSet
  <1>7. \A d \in ByteData : d.kind = 0 => d.data \in Seq(Byte) /\ d.expr[1].n \in Int
    <2>1. \A d \in ByteData : d.kind = 0 => d.data \in Seq(Byte) /\ d.expr \in Format!Constexpr
      BY ONLY TRUE DEF ByteData, Byte
    <2>2. ASSUME NEW e \in Format!Constexpr PROVE e[1].n \in Int
      <3>1. e[1] \in Format!Instruction
        BY e \in Format!Constexpr DEF Format!Constexpr
      <3> QED
        BY ONLY <3>1 DEF Format!Instruction
    <2> QED
      BY ONLY <2>1, <2>2
  <1>8. \A k \in 1..Len(ds) : M!Begin(ds[k]) \in Int
    BY ONLY <1>4, <1>6, <1>7, SameBegin, WordFacts
  <1>9. OfKind0(ds)
    BY ONLY <1>4 DEF OfKind0
  <1> QED
    BY ONLY <1>2, <1>4, <1>5, <1>6, <1>7, <1>8, <1>9

(* They go where the module says.                                          *)
LEMMA OffsetIs ==
    ASSUME stack = <<>>, NEW d, d.expr[1].op = I32Const, d.expr[1].n \in Int
    PROVE  Offset(d) = M!Begin(d)
  <1>1. readi32(Constant(<<>>, d.expr)) = Word(d.expr[1].n)
    BY ONLY ConstantOnEmpty, d.expr[1].op = I32Const, d.expr[1].n \in Int
  <1>2. Int32(Word(d.expr[1].n)) = Int32(d.expr[1].n)
    BY ONLY WordFacts, d.expr[1].n \in Int
  <1> QED
    BY ONLY <1>1, <1>2, SameBegin, stack = <<>> DEF Offset

\* The segments of p that have a byte at address i - 1.
Covering(p, i) == {k \in DOMAIN Items(p.datasec) : i - M!Begin(Items(p.datasec)[k]) \in DOMAIN Items(p.datasec)[k].data}

(* Numbers up to n have a greatest.                                        *)
LEMMA GreatestIs ==
    ASSUME NEW n \in Nat, NEW s, s \subseteq 1..n, s # {}
    PROVE  \E k \in s : \A j \in s : j <= k
  <1> DEFINE P == {i \in Nat : \A t : t \subseteq 1..i /\ t # {} => \E k \in t : \A j \in t : j <= k}
  <1>1. 0 \in P
    <2>1. \A j \in 1..0 : FALSE
      OBVIOUS
    <2> QED
      BY ONLY <2>1
  <1>2. ASSUME NEW i \in P PROVE i + 1 \in P
    <2>1. i \in Nat /\ i + 1 \in Nat
      BY ONLY i \in P
    <2>2. ASSUME NEW t, t \subseteq 1..(i + 1), t # {} PROVE \E k \in t : \A j \in t : j <= k
      <3>1. CASE i + 1 \in t
        <4>1. \A j \in t : j <= i + 1
          BY ONLY <2>1, <2>2
        <4> QED
          BY ONLY <3>1, <4>1
      <3>2. CASE i + 1 \notin t
        <4>1. t \subseteq 1..i
          BY ONLY <2>1, <2>2, <3>2
        <4> QED
          BY ONLY <2>2, <4>1, i \in P
      <3> QED
        BY ONLY <3>1, <3>2
    <2> QED
      BY ONLY <2>1, <2>2
  <1>3. P \in SUBSET Nat
    OBVIOUS
  <1> HIDE DEF P
  <1>4. P = Nat
    BY ONLY <1>1, <1>2, <1>3, SetInduction
  <1> QED
    BY ONLY <1>4, n \in Nat, s \subseteq 1..n, s # {} DEF P

(* The byte that the module says is there.                                 *)
LEMMA StartByte ==
    ASSUME NEW p \in Modules, M!Supported(p), NEW i \in Nat
    PROVE  /\ M!InitialByte(p, i - 1) =
                 IF Covering(p, i) = {} THEN 0
                 ELSE LET d == Items(p.datasec)[Latest(Covering(p, i))] IN d.data[i - M!Begin(d)]
           /\ M!InitialByte(p, i - 1) \in Byte
  <1>1. PICK ds : ds = Items(p.datasec)
    OBVIOUS
  <1>2. /\ ds \in Seq(ByteData)
        /\ \A k \in 1..Len(ds) : ds[k].data \in Seq(Byte) /\ M!Begin(ds[k]) \in Int
    BY ONLY <1>1, SupportedData, p \in Modules, M!Supported(p)
  <1>3. PICK a : a = i - 1
    OBVIOUS
  <1>3a. ds = M!Items(p.datasec)
    BY ONLY <1>1, SameItems
  <1> DEFINE over == {k \in DOMAIN ds : a >= M!Begin(ds[k]) /\ a < M!Begin(ds[k]) + Len(ds[k].data)}
  <1>4. M!InitialByte(p, a) =
            IF over = {} THEN 0
            ELSE LET k == CHOOSE l \in over : \A j \in over : j <= l IN ds[k].data[a - M!Begin(ds[k]) + 1]
    <2>1. PICK es : es = M!Items(p.datasec)
      OBVIOUS
    <2> DEFINE above == {k \in DOMAIN es : a >= M!Begin(es[k]) /\ a < M!Begin(es[k]) + Len(es[k].data)}
    <2>2. M!InitialByte(p, a) =
            IF above = {} THEN 0
            ELSE LET k == CHOOSE l \in above : \A j \in above : j <= l IN es[k].data[a - M!Begin(es[k]) + 1]
      BY ONLY <2>1 DEF M!InitialByte
    <2> QED
      BY ONLY <1>3a, <2>1, <2>2
  <1>5. over = Covering(p, i)
    <2>1. DOMAIN ds = 1..Len(ds)
      BY ONLY <1>2
    <2>2. ASSUME NEW k \in 1..Len(ds)
          PROVE  (a >= M!Begin(ds[k]) /\ a < M!Begin(ds[k]) + Len(ds[k].data))
                    <=> i - M!Begin(ds[k]) \in DOMAIN ds[k].data
      <3>1. PICK b \in Int : b = M!Begin(ds[k])
        BY ONLY <1>2, k \in 1..Len(ds)
      <3>2. PICK n \in Nat : n = Len(ds[k].data) /\ DOMAIN ds[k].data = 1..n
        BY ONLY <1>2, k \in 1..Len(ds)
      <3>3. (a >= b /\ a < b + n) <=> i - b \in 1..n
        BY ONLY <1>3, i \in Nat, b \in Int, n \in Nat
      <3> QED
        BY ONLY <3>1, <3>2, <3>3
    <2> QED
      BY ONLY <1>1, <2>1, <2>2 DEF Covering
  <1>6. PICK s : s = over
    OBVIOUS
  <1> HIDE DEF over
  <1>7. M!InitialByte(p, a) =
            IF s = {} THEN 0 ELSE LET k == Latest(s) IN ds[k].data[a - M!Begin(ds[k]) + 1]
    BY ONLY <1>4, <1>6 DEF Latest
  <1>8. ASSUME s # {}
        PROVE  LET d == ds[Latest(s)] IN
               /\ d.data[a - M!Begin(d) + 1] = d.data[i - M!Begin(d)]
               /\ d.data[i - M!Begin(d)] \in Byte
    <2>1. \A k \in s : k \in 1..Len(ds)
      BY ONLY <1>1, <1>2, <1>5, <1>6 DEF Covering
    <2>2. Latest(s) \in s
      <3>1. \A k \in s : k \in Int
        BY ONLY <2>1
      <3>2. s \subseteq 1..Len(ds) /\ Len(ds) \in Nat
        BY ONLY <1>2, <2>1
      <3>3. \E k \in s : \A j \in s : j <= k
        BY ONLY <1>8, <3>2, GreatestIs
      <3> QED
        BY ONLY <3>3 DEF Latest
    <2>3. PICK d : d = ds[Latest(s)]
      OBVIOUS
    <2>4. M!Begin(d) \in Int /\ i - M!Begin(d) \in DOMAIN d.data /\ d.data \in Seq(Byte)
      BY ONLY <1>1, <1>2, <1>5, <1>6, <2>1, <2>2, <2>3 DEF Covering
    <2>5. a - M!Begin(d) + 1 = i - M!Begin(d)
      BY ONLY <1>3, <2>4, i \in Nat
    <2>6. d.data[i - M!Begin(d)] \in Byte
      BY ONLY <2>4
    <2> QED
      BY ONLY <2>3, <2>5, <2>6
  <1>9. 0 \in Byte
    <2>1. PICK b \in Nat \ {0} : b = Base
      BY ONLY WidthFacts
    <2> QED
      BY ONLY <2>1 DEF Byte
  <1> QED
    BY ONLY <1>1, <1>3, <1>5, <1>6, <1>7, <1>8, <1>9

(* Linear memory has a size.                                               *)
LEMMA MemoryNat ==
    ASSUME NEW p \in Modules, p.memsec # <<>>
    PROVE  M!Memory(p) \in Nat
  <1>1. Optional(p.memsec, MemoryTypes)
    BY ONLY p \in Modules, ModulesAssumption, ModuleTypes
  <1>2. M!Memory(p) = IF p.memsec = NULL THEN 0 ELSE PageBytes * p.memsec[1].min
    BY ONLY p.memsec # <<>> DEF M!Memory
  <1>3. CASE p.memsec = NULL
    BY ONLY <1>2, <1>3
  <1>4. CASE p.memsec # NULL
    <2>1. p.memsec \in Seq(MemoryTypes)
      BY ONLY <1>1, <1>4 DEF Optional
    <2>2. 1 \in 1..Len(p.memsec)
      BY ONLY <2>1, p.memsec # <<>>
    <2>3. p.memsec[1] \in MemoryTypes
      BY ONLY <2>1, <2>2, Elements
    <2>4. PICK a \in Nat, b \in Nat : a = PageBytes /\ b = p.memsec[1].min
      <3>1. p.memsec[1].min \in Nat
        BY ONLY <2>3 DEF MemoryTypes
      <3> QED
        BY ONLY <3>1, PageAssumption
    <2>5. a * b \in Nat
      OBVIOUS
    <2> QED
      BY ONLY <1>2, <1>4, <2>4, <2>5
  <1> QED
    BY ONLY <1>3, <1>4

(* create_context makes the memory of a supported program.                 *)
LEMMA MemoryStart ==
    ASSUME NEW p \in Modules, p = written, M!Supported(p), Filled(m, p, 14), InitMem, stack = <<>>
    PROVE  mem' = StartMemory(p) /\ mem' \in Bytes32
  <1>1. PICK ds : ds = Items(p.datasec)
    OBVIOUS
  <1>2. /\ ds \in Seq(ByteData) /\ OfKind0(ds)
        /\ \A k \in 1..Len(ds) :
              /\ ds[k].kind = 0 /\ ds[k].data \in Seq(Byte) /\ ds[k].expr[1].op = I32Const /\ ds[k].expr[1].n \in Int
              /\ M!Begin(ds[k]) \in Int /\ M!Begin(ds[k]) >= 0
    BY ONLY <1>1, SupportedData, p \in Modules, M!Supported(p)
  <1>3. p.memsec # <<>> /\ p \in Format!Writable
    BY ONLY ModulesAssumption, p \in Modules, M!Supported(p) DEF M!Supported
  <1>4. m.memsec = p.memsec /\ m.datasec = p.datasec /\ Optional(p.memsec, MemoryTypes)
    BY ONLY <1>1, <1>2, <1>3, Filled(m, p, 14), FilledFacts, ModuleTypes
  <1>5. PICK z0 : z0 = IF m.memsec = NULL THEN <<>> ELSE [k \in 1..(PageBytes * m.memsec[1].min) |-> 0]
    OBVIOUS
  <1>6. PICK ss : ss = Segments
    OBVIOUS
  <1>7. PICK u : mem' = u[Len(ss)] /\ Filling(ss, z0, u)
    BY ONLY <1>1, <1>2, <1>3, <1>5, <1>6, p \in Modules, p = written, Filled(m, p, 14), InitMem, MemoryStep
  <1>8. M!Memory(p) = IF p.memsec = NULL THEN 0 ELSE PageBytes * p.memsec[1].min
    BY ONLY <1>3 DEF M!Memory
  <1>9. ASSUME NEW k \in 1..M!Memory(p), M!Memory(p) \in Nat PROVE M!InitialByte(p, k - 1) \in Byte
    <2>1. k \in Nat
      BY ONLY <1>9
    <2> QED
      BY ONLY <2>1, StartByte, p \in Modules, M!Supported(p)
  <1>10. \A X : \A n \in Nat : \A f \in [1..n -> X] : f \in Seq(X) /\ Len(f) = n
    OBVIOUS
  <1>11. CASE p.memsec = NULL
    <2>1. M!Memory(p) = 0
      BY ONLY <1>8, <1>11
    <2>2. ss = <<>> /\ z0 = <<>>
      BY ONLY <1>4, <1>5, <1>6, <1>11 DEF Segments
    <2>3. Len(<<>>) = 0
      OBVIOUS
    <2>4. mem' = <<>>
      BY ONLY <1>7, <2>2, <2>3 DEF Filling
    <2>5. \A f : <<>> = [k \in 1..0 |-> f[k]]
      OBVIOUS
    <2>6. StartMemory(p) = <<>>
      <3>1. PICK f : f = StartMemory(p)
        OBVIOUS
      <3>2. f = [k \in 1..0 |-> f[k]]
        BY ONLY <2>1, <3>1 DEF StartMemory
      <3> QED
        BY ONLY <2>5, <3>1, <3>2
    <2>7. <<>> \in Seq(Byte)
      OBVIOUS
    <2> QED
      BY ONLY <2>1, <2>3, <2>4, <2>6, <2>7, p = written DEF Bytes32
  <1>12. CASE p.memsec # NULL
    <2>1. PICK n \in Nat : n = M!Memory(p)
      BY ONLY <1>3, p \in Modules, MemoryNat
    <2>2. z0 = [k \in 1..n |-> 0] /\ ss = ds
      BY ONLY <1>1, <1>4, <1>5, <1>6, <1>8, <1>12, <2>1 DEF Segments
    <2>3. PICK j \in Nat : j = Len(ds) /\ DOMAIN ds = 1..j
      BY ONLY <1>2
    <2> DEFINE c == [k \in 1..j |-> {i \in 1..n : i - M!Begin(ds[k]) \in DOMAIN ds[k].data}]
               b == [k \in 1..j |-> [i \in 1..n |-> ds[k].data[i - M!Begin(ds[k])]]]
    <2>4. \A k \in 1..j : Offset(ds[k]) = M!Begin(ds[k])
      BY ONLY <1>2, <2>3, OffsetIs, stack = <<>>
    <2>5. u[0] = [i \in 1..n |-> 0]
      BY ONLY <1>7, <2>2 DEF Filling
    <2>6. \A k \in 1..j : u[k] = [i \in DOMAIN u[k - 1] |->
                 IF i - M!Begin(ds[k]) \in DOMAIN ds[k].data THEN ds[k].data[i - M!Begin(ds[k])] ELSE u[k - 1][i]]
      <3> SUFFICES ASSUME NEW k \in 1..j
                   PROVE  u[k] = [i \in DOMAIN u[k - 1] |->
                 IF i - M!Begin(ds[k]) \in DOMAIN ds[k].data THEN ds[k].data[i - M!Begin(ds[k])] ELSE u[k - 1][i]]
        OBVIOUS
      <3>1. u[k] = [i \in DOMAIN u[k - 1] |->
                 IF ds[k].kind = 0 /\ i - Offset(ds[k]) \in DOMAIN ds[k].data
                 THEN ds[k].data[i - Offset(ds[k])] ELSE u[k - 1][i]]
        BY ONLY <1>7, <2>2, <2>3, k \in 1..j DEF Filling
      <3>2. ds[k].kind = 0 /\ Offset(ds[k]) = M!Begin(ds[k])
        BY ONLY <1>2, <2>3, <2>4, k \in 1..j
      <3> QED
        BY ONLY <3>1, <3>2
    <2>6a. \A k \in 1..j : DOMAIN u[k] = DOMAIN u[k - 1]
      BY ONLY <2>6
    <2>7. \A k \in 0..j : DOMAIN u[k] = 1..n
      <3> DEFINE P == {k \in Nat : k <= j => DOMAIN u[k] = 1..n}
      <3>1. 0 \in P
        BY ONLY <2>5
      <3>2. ASSUME NEW k \in P PROVE k + 1 \in P
        <4>1. CASE k + 1 <= j
          <5>1. k \in Nat /\ DOMAIN u[k] = 1..n /\ k + 1 \in 1..j /\ (k + 1) - 1 = k
            BY ONLY j \in Nat, <4>1, k \in P
          <5> QED
            BY ONLY <2>6a, <5>1
        <4>2. CASE ~(k + 1 <= j)
          BY ONLY <4>2, k \in P
        <4> QED
          BY ONLY <4>1, <4>2
      <3>3. P \in SUBSET Nat
        OBVIOUS
      <3> HIDE DEF P
      <3>4. P = Nat
        BY ONLY <3>1, <3>2, <3>3, SetInduction
      <3> QED
        BY ONLY <3>4, j \in Nat DEF P
    <2>8. \A k \in 1..j : u[k] = [i \in DOMAIN u[k - 1] |-> IF i \in c[k] THEN b[k][i] ELSE u[k - 1][i]]
      <3> SUFFICES ASSUME NEW k \in 1..j
                   PROVE  u[k] = [i \in DOMAIN u[k - 1] |-> IF i \in c[k] THEN b[k][i] ELSE u[k - 1][i]]
        OBVIOUS
      <3>1. DOMAIN u[k - 1] = 1..n
        BY ONLY <2>7, j \in Nat, k \in 1..j
      <3>2. \A i \in 1..n : (i \in c[k] <=> i - M!Begin(ds[k]) \in DOMAIN ds[k].data)
                            /\ b[k][i] = ds[k].data[i - M!Begin(ds[k])]
        BY ONLY k \in 1..j
      <3> HIDE DEF b, c
      <3> QED
        BY ONLY <2>6, <3>1, <3>2, k \in 1..j
    <2> DEFINE over(i) == {k \in 1..j : i \in c[k]}
    <2>9. u[j] = [i \in 1..n |-> IF over(i) = {} THEN 0 ELSE b[Latest(over(i))][i]]
      <3> HIDE DEF b, c
      <3> QED
        <4>1. Overwrites(j, 1..n, 0, c, b, u)
          BY ONLY <2>5, <2>8 DEF Overwrites
        <4> QED
          BY ONLY <4>1, LastWriter, j \in Nat
    <2>10. ASSUME NEW i \in 1..n
           PROVE  (IF over(i) = {} THEN 0 ELSE b[Latest(over(i))][i]) = M!InitialByte(p, i - 1)
      <3>1. over(i) = Covering(p, i)
        BY ONLY <1>1, <2>3, i \in 1..n DEF Covering
      <3>2. PICK s : s = over(i)
        OBVIOUS
      <3> HIDE DEF over
      <3>3. M!InitialByte(p, i - 1) = IF s = {} THEN 0 ELSE LET d == ds[Latest(s)] IN d.data[i - M!Begin(d)]
        <4>1. i \in Nat
          BY ONLY i \in 1..n
        <4> QED
          BY ONLY <1>1, <3>1, <3>2, <4>1, StartByte, p \in Modules, M!Supported(p)
      <3>4. ASSUME s # {} PROVE b[Latest(s)][i] = ds[Latest(s)].data[i - M!Begin(ds[Latest(s)])]
        <4>1. s \subseteq 1..j
          BY ONLY <2>3, <3>1, <3>2, <1>1 DEF Covering
        <4>2. \E k \in s : \A l \in s : l <= k
          BY ONLY <3>4, <4>1, GreatestIs, j \in Nat
        <4>3. Latest(s) \in 1..j
          BY ONLY <4>1, <4>2 DEF Latest
        <4> QED
          BY ONLY <4>3, i \in 1..n
      <3> HIDE DEF b
      <3> QED
        BY ONLY <3>2, <3>3, <3>4
    <2> HIDE DEF b, c, over
    <2>11. mem' = StartMemory(p)
      BY ONLY <1>7, <2>1, <2>2, <2>3, <2>9, <2>10 DEF StartMemory
    <2>12. StartMemory(p) \in [1..n -> Byte]
      BY ONLY <1>9, <2>1, n \in Nat DEF StartMemory
    <2> QED
      BY ONLY <1>10, <2>1, <2>11, <2>12, n \in Nat, p = written DEF Bytes32
  <1> QED
    BY ONLY <1>11, <1>12

----------------------------------------------------------------------------
(* The invariant, and the refinement.                                      *)

(* WasmStore and WasmModule say the same of a module.                      *)
LEMMA SameModules ==
    /\ \A p : /\ S!EntryIndex(p) = M!EntryIndex(p) /\ S!Memory(p) = M!Memory(p)
              /\ S!Supported(p) = M!Supported(p)
    /\ \A p, k : S!LocalTypes(p, k) = M!LocalTypes(p, k) /\ S!InitialByte(p, k) = M!InitialByte(p, k)
    /\ \A s : S!Items(s) = Items(s)
  <1>1. \A s : S!Items(s) = Items(s) /\ M!Items(s) = Items(s) /\ S!ToSet(s) = M!ToSet(s)
    BY ONLY TRUE DEF S!Items, M!Items, Items, S!ToSet, M!ToSet
  <1>2. \A d : S!Begin(d) = M!Begin(d)
    BY ONLY TRUE DEF S!Begin, M!Begin, S!Int32, M!Int32, S!Word, M!Word, S!Limit, M!Limit, S!Width, M!Width
  <1>3. \A p : S!Exported(p) = M!Exported(p)
    BY ONLY TRUE DEF S!Exported, M!Exported, S!Items, M!Items, S!ToSet, M!ToSet
  <1>4. \A p : S!EntryIndex(p) = M!EntryIndex(p)
    BY ONLY TRUE DEF S!EntryIndex, M!EntryIndex, S!Exported, M!Exported, S!Items, M!Items, S!ToSet, M!ToSet
  <1>5. \A p : S!Memory(p) = M!Memory(p)
    BY ONLY TRUE DEF S!Memory, M!Memory
  <1>6. \A p, k : S!LocalTypes(p, k) = M!LocalTypes(p, k)
    BY ONLY TRUE DEF S!LocalTypes, M!LocalTypes, S!FlattenSeq, M!FlattenSeq
  <1>7. \A p, k : S!InitialByte(p, k) = M!InitialByte(p, k)
    BY ONLY TRUE DEF S!InitialByte, M!InitialByte, S!Begin, M!Begin, S!Int32, M!Int32, S!Word, M!Word,
       S!Limit, M!Limit, S!Width, M!Width, S!Items, M!Items
  <1>8. \A p : S!Supported(p) = M!Supported(p)
    <2>1. \A p, k : S!OperandTypes(p, k) = M!OperandTypes(p, k)
      BY ONLY TRUE DEF S!OperandTypes, M!OperandTypes, S!Takes, M!Takes, S!Gives, M!Gives, S!LocalTypes, M!LocalTypes,
       S!FlattenSeq, M!FlattenSeq,
       S!End, M!End, S!Drop, M!Drop, S!I32Eqz, M!I32Eqz, S!LocalGet, M!LocalGet, S!LocalSet, M!LocalSet,
       S!GlobalGet, M!GlobalGet, S!GlobalSet, M!GlobalSet, S!I32Const, M!I32Const, S!I64Const, M!I64Const,
       S!I32, M!I32, S!I64, M!I64, S!I32Load, M!I32Load, S!I64Load, M!I64Load, S!I32Load8_s, M!I32Load8_s,
       S!I32Load8_u, M!I32Load8_u, S!I32Load16_u, M!I32Load16_u, S!I32Store, M!I32Store, S!I64Store,
       M!I64Store, S!I32Store8, M!I32Store8, S!I32Eq, M!I32Eq, S!I32Ne, M!I32Ne, S!I32Lt_s, M!I32Lt_s,
       S!I32Gt_s, M!I32Gt_s, S!I32Gt_u, M!I32Gt_u, S!I32Ge_s, M!I32Ge_s, S!I32Add, M!I32Add, S!I32Sub,
       M!I32Sub, S!I32Mul, M!I32Mul, S!I32And, M!I32And, S!I32Or, M!I32Or, S!I32Xor, M!I32Xor, S!I32Shl,
       M!I32Shl, S!I32Shr_s, M!I32Shr_s, S!I32Div_s, M!I32Div_s, S!I32Rem_s, M!I32Rem_s, S!Loads, M!Loads,
       S!Stores, M!Stores, S!Indexed, M!Indexed, S!Consts, M!Consts, S!Divisions, M!Divisions, S!Binaries,
       M!Binaries
    <2>2. S!Straight = M!Straight /\ S!Drop = M!Drop /\ S!I32 = M!I32 /\ S!I64 = M!I64
      BY ONLY SameKinds, ModuleKinds DEF S!Straight, M!Straight
    <2>3. \A p : S!Entry(p) = M!Entry(p)
      BY ONLY <1>4 DEF S!Entry, M!Entry
    <2>4. S!Limit = M!Limit
      BY ONLY TRUE DEF S!Limit, M!Limit, S!Width, M!Width
    <2>5. S!Known = M!Known
      <3>1. S!Unreachable = M!Unreachable /\ S!Nop = M!Nop /\ S!Return = M!Return
        BY ONLY TRUE DEF S!Unreachable, M!Unreachable, S!Nop, M!Nop, S!Return, M!Return
      <3> QED
        BY ONLY <3>1, SameKinds, ModuleKinds DEF S!Known, M!Known
    <2> QED
      BY ONLY <1>1, <1>2, <1>3, <1>4, <1>5, <1>6, <2>1, <2>2, <2>3, <2>4, <2>5 DEF S!Supported, M!Supported
  <1> QED
    BY ONLY <1>1, <1>4, <1>5, <1>6, <1>7, <1>8

(* It is read to its end, and all it is made of is there.                  *)
LEMMA ReadWhole ==
    ASSUME NEW p \in Modules, p = written, M!Supported(p), LoadInv, RunInv'
    PROVE  ~Misread /\ ~ParseUnsupported /\ ~CreateMemFault /\ ~CreateFuncsFault
  <1>1. /\ \A d \in ToSet(Items(p.importsec)) : d.kind = 0
        /\ \A d \in ToSet(Items(p.datasec)) : d.kind = 0
        /\ \A f \in ToSet(Items(p.codesec)) : \A c \in ToSet(f.expr) : c.op \in Known
        /\ p.memsec # <<>> /\ p \in Format!Writable
    BY ONLY M!Supported(p), SameItems, ModuleKinds, p \in Modules, ModulesAssumption DEF M!Supported, M!ToSet, ToSet
  <1>2. ~Misread
    <2>1. ~Hides(p.importsec) /\ ~Hides(p.datasec)
      BY ONLY <1>1 DEF Hides, ToSet
    <2> QED
      BY ONLY <2>1, p = written DEF Misread, Hidden
  <1>3. ~ParseUnsupported
    <2>1. ParseUnsupported => at' = "unsupported" /\ written' = written
      BY ONLY TRUE DEF ParseUnsupported, Stop
    <2>2. ParseUnsupported => MeetsUnknown(p.codesec)
      BY ONLY <2>1, RunInv', p = written DEF RunInv, FaultsOnlyThere
    <2>3. ASSUME MeetsUnknown(p.codesec) PROVE FALSE
      <3>1. PICK k \in DOMAIN Items(p.codesec) : Unknown(p.codesec[k])
        BY ONLY <2>3 DEF MeetsUnknown
      <3>2. p.codesec[k] \in ToSet(Items(p.codesec))
        BY ONLY <3>1 DEF ToSet, Items
      <3>3. PICK f : f = p.codesec[k]
        OBVIOUS
      <3>4. PICK j \in DOMAIN f.expr : f.expr[j].op \notin Known
        BY ONLY <3>1, <3>3 DEF Unknown
      <3>5. f.expr[j] \in ToSet(f.expr)
        BY ONLY <3>4 DEF ToSet
      <3> QED
        BY ONLY <1>1, <3>2, <3>3, <3>4, <3>5
    <2> QED
      BY ONLY <2>2, <2>3
  <1>4. ~CreateMemFault
    <2>1. CreateMemFault => at = "create_mem" /\ m.memsec = <<>>
      BY ONLY TRUE DEF CreateMemFault
    <2>2. at = "create_mem" => m.memsec = p.memsec
      BY ONLY <1>1, LoadInv, FilledFacts, p = written DEF LoadInv
    <2> QED
      BY ONLY <1>1, <2>1, <2>2
  <1>5. ~CreateFuncsFault
    <2>1. CreateFuncsFault => at = "create_funcs" /\ Untyped
      BY ONLY TRUE DEF CreateFuncsFault
    <2>2. at = "create_funcs" => Filled(m, p, 14)
      BY ONLY LoadInv, p = written DEF LoadInv
    <2> QED
      BY ONLY <1>1, <2>1, <2>2, p \in Modules, UntypedImport
  <1> QED
    BY ONLY <1>2, <1>3, <1>4, <1>5

(* A supported program has an exported _start.                             *)
LEMMA NothingMissing ==
    ASSUME NEW p \in Modules, p = written, M!Supported(p), Filled(m, p, 14), CreateNothing
    PROVE  FALSE
  <1>1. p.funcsec # NULL /\ M!Exported(p) # {}
    BY ONLY M!Supported(p) DEF M!Supported
  <1>2. m.funcsec = p.funcsec
    BY ONLY p \in Modules, ModulesAssumption, Filled(m, p, 14), FilledFacts
  <1>3. Starts # {}
    BY ONLY <1>1, p \in Modules, p = written, Filled(m, p, 14), OneStart
  <1> QED
    BY ONLY <1>1, <1>2, <1>3, CreateNothing DEF CreateNothing

(* Its segments do not leave its memory.                                   *)
LEMMA NothingStray ==
    ASSUME NEW p \in Modules, p = written, M!Supported(p), Filled(m, p, 14), InitMemStray, stack = <<>>
    PROVE  FALSE
  <1>1. PICK ds : ds = Items(p.datasec)
    OBVIOUS
  <1>2. PICK a \in Targets : a < 0 \/ a = Greatest
    BY ONLY InitMemStray DEF InitMemStray
  <1>3. stack \in Room
    BY ONLY StackAssumption, stack = <<>> DEF Room
  <1>4. PICK d \in ToSet(Items(p.datasec)) : M!Begin(d) < 0 \/ M!Begin(d) + Len(d.data) >= Limit \div 2
    BY ONLY <1>2, <1>3, p \in Modules, Filled(m, p, 14), SegmentStray
  <1>5. PICK k : k \in 1..Len(ds) /\ d = ds[k]
    <2>1. ds \in Seq(ByteData)
      BY ONLY <1>1, p \in Modules, M!Supported(p), SupportedData
    <2> QED
      BY ONLY <1>1, <1>4, <2>1 DEF ToSet
  <1>6. M!Begin(d) \in Int /\ M!Begin(d) >= 0 /\ d.data \in Seq(Byte) /\ M!Begin(d) + Len(d.data) <= M!Memory(p)
    BY ONLY <1>1, <1>5, p \in Modules, M!Supported(p), SupportedData
  <1>7. p.memsec # <<>> /\ M!Memory(p) < M!Limit \div 2
    BY ONLY M!Supported(p) DEF M!Supported
  <1>8. PICK n \in Nat : n = M!Memory(p)
    BY ONLY <1>7, p \in Modules, MemoryNat
  <1>9. PICK h \in Int : h = Limit \div 2 /\ n < h
    <2>1. M!Limit = Limit
      BY ONLY TRUE DEF M!Limit, M!Width, Limit, Width
    <2>2. PICK h \in Int : h = Limit \div 2
      BY WidthFacts
    <2> QED
      BY ONLY <1>7, <1>8, <2>1, <2>2
  <1>10. PICK b \in Int, j \in Nat : b = M!Begin(d) /\ j = Len(d.data)
    BY ONLY <1>6
  <1>11. b >= 0 /\ b + j <= n /\ (b < 0 \/ b + j >= h)
    BY ONLY <1>4, <1>6, <1>8, <1>9, <1>10
  <1> QED
    BY ONLY <1>9, <1>11, b \in Int, j \in Nat, n \in Nat, h \in Int

(* The globals it starts with are words, and what WASM says.               *)
LEMMA StartWords ==
    ASSUME NEW p \in Modules, p = written, M!Supported(p), globals = StartGlobals(p)
    PROVE  /\ globals \in Words32(Len(Items(written.globalsec)))
           /\ globalsBar = [k \in DOMAIN S!Items(p.globalsec) |-> S!Value(S!I32, p.globalsec[k].expr[1].n)]
  <1>1. PICK gs : gs = Items(p.globalsec)
    OBVIOUS
  <1>2. gs \in Seq(GlobalInits)
    <2>1. <<>> \in Seq(GlobalInits)
      OBVIOUS
    <2>2. Optional(p.globalsec, GlobalInits)
      BY ONLY p \in Modules, ModulesAssumption, ModuleTypes
    <2> QED
      BY ONLY <1>1, <2>1, <2>2 DEF Items, Optional
  <1>3. PICK n \in Nat : n = Len(gs) /\ DOMAIN gs = 1..n
    BY ONLY <1>2
  <1>4. \A k \in 1..n : gs[k].expr[1].n \in Int
    BY ONLY <1>1, <1>2, <1>3, p \in Modules, M!Supported(p), SupportedGlobals
  <1>5. \A k \in 1..n : Word(gs[k].expr[1].n) \in Word32
    BY ONLY <1>4, SignedFacts
  <1>6. globals = [k \in 1..n |-> [ty |-> I32, val |-> Word(gs[k].expr[1].n)]]
    BY ONLY <1>1, <1>3, globals = StartGlobals(p) DEF StartGlobals
  <1>7. globals \in [1..n -> [ty : {I32}, val : Word32]]
    BY ONLY <1>5, <1>6
  <1>8. \A X : \A i \in Nat : \A f \in [1..i -> X] : f \in Seq(X) /\ Len(f) = i
    OBVIOUS
  <1>9. globals \in Words32(n)
    BY ONLY <1>7, <1>8, n \in Nat DEF Words32
  <1>10. globalsBar = [k \in 1..n |-> <<Word(gs[k].expr[1].n)>>]
    BY ONLY <1>6 DEF globalsBar
  <1>11. DOMAIN S!Items(p.globalsec) = 1..n
    BY ONLY <1>1, <1>3, SameModules
  <1>12. ASSUME NEW k \in 1..n PROVE S!Value(S!I32, p.globalsec[k].expr[1].n) = <<Word(gs[k].expr[1].n)>>
    <2>1. p.globalsec = gs
      <3>1. Len(<<>>) = 0 /\ \A i \in 1..0 : FALSE
        OBVIOUS
      <3> QED
        BY ONLY <1>1, <1>3, <3>1, k \in 1..n DEF Items
    <2>2. S!I32 = I32
      BY ONLY SameKinds
    <2> QED
      BY ONLY <2>1, <2>2, ValueIs
  <1> QED
    BY ONLY <1>1, <1>3, <1>9, <1>10, <1>11, <1>12, p = written

(* It starts as WASM says.                                                 *)
LEMMA StartsRight ==
    ASSUME NEW p \in Modules, p = written, M!Supported(p), Filled(m, p, 14), Begun, CreateFuncs, ~trapped',
           stack = <<>>, globals = StartGlobals(p), mem = StartMemory(p), mem \in Bytes32
    PROVE  RunsWith(<<>>)' /\ storeBar' = S!Instantiated(p)
  <1>1. PICK f : f = Functions[Export.idx + 1]
    OBVIOUS
  <1>2. /\ written' = written /\ m' = m /\ funcs' = Functions /\ ip' = 1 /\ stack' = stack
        /\ globals' = globals /\ mem' = mem /\ locals' = [k \in DOMAIN f.locals |-> <<0, 0>>]
        /\ at' = IF f.imported THEN "fault" ELSE "run_vm"
    BY ONLY <1>1, CreateFuncs DEF CreateFuncs, loadVars
  <1>3. Function' = f
    <2>1. Starts' = Starts
      BY ONLY <1>2 DEF Starts
    <2>2. Export' = Export
      BY ONLY <1>2, <2>1 DEF Export
    <2> QED
      BY ONLY <1>1, <1>2, <2>2 DEF Function
  <1>4. PICK k : k = M!EntryIndex(p)
    OBVIOUS
  <1>5. ~f.imported /\ Runs(p, k, f)
    <2>1. f.imported => Export.idx < Len(Items(p.importsec))
      BY ONLY <1>1, p \in Modules, p = written, Filled(m, p, 14), Begun, TheEntry
    <2>2. M!Exported(p) = {Export} /\ Export.idx \in Nat
      BY ONLY p \in Modules, p = written, Filled(m, p, 14), Begun, OneStart DEF Begun
    <2>3. Export.idx >= Len(Items(p.importsec))
      BY ONLY <2>2, M!Supported(p), SameItems DEF M!Supported
    <2>4. Len(Items(p.importsec)) \in Nat
      <3>1. Items(m.importsec) \in Seq(ImportsRead) /\ m.importsec = p.importsec
        BY ONLY p \in Modules, ModulesAssumption, Filled(m, p, 14), FilledFacts
      <3> QED
        BY ONLY <3>1
    <2>5. ~f.imported
      <3>1. PICK i \in Nat, j \in Nat : i = Export.idx /\ j = Len(Items(p.importsec))
        BY ONLY <2>2, <2>4
      <3> QED
        BY ONLY <2>1, <2>3, <3>1, i \in Nat, j \in Nat
    <2> QED
      BY ONLY <1>1, <1>4, <2>5, p \in Modules, p = written, Filled(m, p, 14), Begun, TheEntry
  <1>6. Enters(p, k, f)
    BY ONLY <1>4, <1>5, p \in Modules, M!Supported(p) DEF Enters
  <1>7. TypesOf(p)[0] = <<>>
    <2>1. PICK T : T = M!OperandTypes(p, k)
      OBVIOUS
    <2>2. T[0] = <<>>
      BY ONLY <1>6, <2>1, TypesAre DEF Typed
    <2> QED
      BY ONLY <1>4, <2>1, <2>2 DEF TypesOf
  <1>8. Represents(<<>>, stack, TypesOf(written)[ip - 1])'
    <2>1. TypesOf(written)' = TypesOf(p)
      BY ONLY <1>2, p = written
    <2>2. ip' - 1 = 0 /\ stack' = <<>>
      BY ONLY <1>2, stack = <<>>
    <2>3. Represents(<<>>, stack', TypesOf(written)'[ip' - 1])
      BY ONLY <1>7, <2>1, <2>2, RepEmpty
    <2> QED
      BY ONLY <2>3
  <1>9. /\ globals \in Words32(Len(Items(written.globalsec)))
        /\ globalsBar = [i \in DOMAIN S!Items(p.globalsec) |-> S!Value(S!I32, p.globalsec[i].expr[1].n)]
    BY ONLY p \in Modules, p = written, M!Supported(p), globals = StartGlobals(p), StartWords
  <1>10. \A i \in DOMAIN f.locals : locals'[i] = <<0, 0>> /\ <<0, 0>> \in Word32 \X Word32
    BY ONLY <1>2, TruthIs
  <1>11. Store32'
    <2>1. mem' \in Bytes32'
      BY ONLY <1>2, mem \in Bytes32 DEF Bytes32
    <2>2. globals' \in Words32(Len(Items(written'.globalsec)))
      BY ONLY <1>2, <1>9
    <2>3. DOMAIN locals' = DOMAIN Function'.locals
      BY ONLY <1>2, <1>3
    <2> QED
      BY ONLY <1>3, <1>10, <2>1, <2>2, <2>3 DEF Store32
  <1>12. at' = "run_vm"
    BY ONLY <1>2, <1>5
  <1>13. RunsWith(<<>>)'
    <2>1. Enters(written, M!EntryIndex(written), Function)'
      BY ONLY <1>2, <1>3, <1>4, <1>6, p = written
    <2>2. (ip \in 1..Len(Function.codes))'
      <3>1. 1 \in 1..Len(f.codes)
        BY ONLY <1>5 DEF Runs, Sound
      <3> QED
        BY ONLY <1>2, <1>3, <3>1
    <2> QED
      BY ONLY <1>8, <1>11, <1>12, <2>1, <2>2, ~trapped' DEF RunsWith
  <1>14. Operands' = <<>>
    <2>1. Values(stack', TypesOf(written)'[ip' - 1]) = <<>>
      BY ONLY <1>8, ValuesUnique
    <2> QED
      BY ONLY <2>1 DEF Operands, TypesOf
  <1>15. PICK ls : ls = f.locals
    OBVIOUS
  <1>16. localsBar' = [i \in DOMAIN ls |-> IF ls[i] = I64 THEN <<0, 0>> ELSE <<0>>]
    <2>1. locals' = [i \in DOMAIN ls |-> <<0, 0>>]
      BY ONLY <1>2, <1>15
    <2>2. \A i \in DOMAIN ls : locals'[i] = <<0, 0>> /\ <<locals'[i][2]>> = <<0>>
      BY ONLY <2>1
    <2>3. localsBar' = [i \in DOMAIN locals' |-> IF ls[i] = I64 THEN locals'[i] ELSE <<locals'[i][2]>>]
      BY ONLY <1>3, <1>15 DEF localsBar
    <2> QED
      BY ONLY <2>1, <2>2, <2>3
  <1>17. \A i \in DOMAIN ls : S!Value(ls[i], 0) = IF ls[i] = I64 THEN <<0, 0>> ELSE <<0>>
    <2>1. \A i \in DOMAIN ls : ls[i] = I32 \/ ls[i] = I64
      BY ONLY <1>6, <1>15, EntersTypes DEF ValueTypes
    <2>2. Words(0) = <<0, 0>>
      <3>1. 0 \div Limit = 0
        <4>1. PICK l \in Nat \ {0} : l = Limit
          BY ONLY WidthFacts
        <4> QED
          BY ONLY <4>1
      <3>2. Words(0) = <<Word(0 \div Limit), Word(0)>>
        BY ONLY TRUE DEF Words, Word
      <3> QED
        BY ONLY <3>1, <3>2, TruthIs
    <2>3. S!Value(I64, 0) = <<0, 0>> /\ S!Value(I32, 0) = <<0>> /\ I32 # I64
      BY ONLY <2>2, ValueIs, TruthIs
    <2> QED
      BY ONLY <2>1, <2>3
  <1>18. S!LocalTypes(p, S!EntryIndex(p)) = ls
    BY ONLY <1>4, <1>5, <1>15, SameModules DEF Runs
  <1>19. mem' = [i \in 1..S!Memory(p) |-> S!InitialByte(p, i - 1)]
    BY ONLY <1>2, mem = StartMemory(p), SameModules DEF StartMemory
  <1>20. localsBar' = [i \in DOMAIN ls |-> S!Value(ls[i], 0)]
    BY ONLY <1>16, <1>17
  <1>21. globalsBar' = [i \in DOMAIN S!Items(p.globalsec) |-> S!Value(S!I32, p.globalsec[i].expr[1].n)]
    <2>1. globalsBar' = globalsBar
      BY ONLY <1>2 DEF globalsBar
    <2> QED
      BY ONLY <1>9, <2>1
  <1>22. storeBar' = StoreAt(1, <<>>, mem', globalsBar', localsBar')
    BY ONLY <1>2, <1>12, <1>14, ~trapped' DEF storeBar, StoreAt
  <1>23. S!Instantiated(p) = StoreAt(1, <<>>, mem', globalsBar', localsBar')
    BY ONLY <1>18, <1>19, <1>20, <1>21 DEF S!Instantiated, StoreAt
  <1> QED
    BY ONLY <1>13, <1>22, <1>23

\* A program that has not trapped is supported, starts with what WASM says and then runs.
StoreInv ==
    ~trapped =>
        /\ M!Supported(written) /\ at \notin {"fault", "stray", "misread", "unsupported"}
        /\ at \in {"new_module", "create_mem", "create_funcs"} => stack = <<>>
        /\ at \in {"create_mem", "create_funcs"} => globals = StartGlobals(written)
        /\ at = "create_funcs" => mem = StartMemory(written) /\ mem \in Bytes32
        /\ at = "run_vm" => \E vs : RunsWith(vs)

(* While a program is loaded its store is too.                             *)
LEMMA BarLoading ==
    /\ ~trapped /\ at \in {"new_module", "create_mem", "create_funcs"} => storeBar = [status |-> "loading"]
    /\ ~trapped' /\ at' \in {"new_module", "create_mem", "create_funcs"} => storeBar' = [status |-> "loading"]
    /\ trapped => storeBar = S!Undefined
    /\ trapped' => storeBar' = S!Undefined
  BY DEF storeBar, S!Undefined

(* A step that changes nothing leaves the store as it is.                  *)
LEMMA BarSame ==
    ASSUME UNCHANGED <<vars, trapped>>
    PROVE  storeBar' = storeBar /\ (StoreInv => StoreInv')
  <1>1. /\ written' = written /\ at' = at /\ m' = m /\ funcs' = funcs /\ stack' = stack /\ ip' = ip
        /\ globals' = globals /\ mem' = mem /\ locals' = locals /\ trapped' = trapped
    BY DEF vars, loadVars, dataVars
  <1>2. Function' = Function
    BY ONLY <1>1, SameFunction
  <1>3. globalsBar' = globalsBar /\ localsBar' = localsBar /\ Operands' = Operands
    BY ONLY <1>1, <1>2 DEF globalsBar, localsBar, Operands
  <1>4. storeBar' = storeBar
    BY ONLY <1>1, <1>3 DEF storeBar
  <1>5. Store32' = Store32 /\ Bytes32' = Bytes32
    BY ONLY <1>1, <1>2 DEF Store32, Bytes32
  <1>6. ASSUME NEW vs, RunsWith(vs) PROVE RunsWith(vs)'
    <2>1. TypesOf(written)' = TypesOf(written)
      BY ONLY <1>1
    <2>2. Enters(written, M!EntryIndex(written), Function)'
      BY ONLY <1>1, <1>2, RunsWith(vs) DEF RunsWith
    <2>3. (ip \in 1..Len(Function.codes))'
      BY ONLY <1>1, <1>2, RunsWith(vs) DEF RunsWith
    <2>4. Represents(vs, stack', TypesOf(written)'[ip' - 1])
      BY ONLY <1>1, <2>1, RunsWith(vs) DEF RunsWith
    <2>5. Represents(vs, stack, TypesOf(written)[ip - 1])'
      BY ONLY <2>4
    <2> QED
      BY ONLY <1>1, <1>5, <2>2, <2>3, <2>5, RunsWith(vs) DEF RunsWith
  <1>7. StoreInv => StoreInv'
    BY ONLY <1>1, <1>5, <1>6 DEF StoreInv
  <1> QED
    BY ONLY <1>4, <1>7

(* A step of the program is one of WASM, or none.                          *)
LEMMA StoreStep ==
    ASSUME LoadInv, LoadInv', RunInv, RunInv', StoreInv, RefinementNext
    PROVE  StoreInv' /\ (S!Next \/ UNCHANGED <<written, storeBar>>)
  <1>1. PICK p : p = written
    OBVIOUS
  <1>2. p \in Modules /\ (at \notin {"new_module", "misread", "unsupported"} => Filled(m, p, 14)) /\ Next
    BY ONLY <1>1, LoadInv, RefinementNext DEF LoadInv, RefinementNext
  <1>3. trapped' = (trapped \/ (at = "run_vm" /\ S!Traps))
    BY ONLY RefinementNext DEF RefinementNext
  <1>4. written' = written
    BY ONLY <1>2, WhereTo DEF Next, ReadSection, Misread, ParseUnsupported, CreateNothing, InitGlobals, InitMem,
       InitMemStray, CreateMemFault, CreateFuncs, CreateFuncsFault, Stray, Stop, loadVars
  <1>5. CASE trapped
    <2>1. trapped'
      BY ONLY <1>3, <1>5
    <2> QED
      BY ONLY <1>4, <1>5, <2>1, BarLoading DEF StoreInv
  <1>6. CASE ~trapped /\ at = "run_vm"
    <2>1. PICK vs : RunsWith(vs)
      BY ONLY <1>6, StoreInv DEF StoreInv
    <2>2. invoke_i /\ M!Supported(p)
      BY ONLY <1>1, <1>2, <1>6, StoreInv
         DEF Next, ReadSection, Misread, ParseUnsupported, CreateNothing, InitGlobals, InitMem, InitMemStray,
             CreateMemFault, CreateFuncs, CreateFuncsFault, StoreInv
    <2>3. storeBar.status = "running"
      BY ONLY <2>1, BarIs DEF StoreAt
    <2>4. CASE S!Traps
      <3>1. trapped'
        BY ONLY <1>3, <1>6, <2>4
      <3>2. StoreInv' /\ storeBar' = S!Undefined
        BY ONLY <3>1, BarLoading DEF StoreInv
      <3> QED
        BY ONLY <1>4, <2>3, <2>4, <3>2 DEF S!Next, S!Execute
    <2>5. CASE ~S!Traps
      <3>1. ~trapped'
        BY ONLY <1>3, <1>6, <2>5
      <3>2. storeBar' = S!Step /\ (at' = "returned" \/ \E us : RunsWith(us)')
        BY ONLY <2>1, <2>2, <2>5, <3>1, RunsOn
      <3>3. StoreInv'
        <4>1. at' = "returned" \/ (at' = "run_vm" /\ \E us : RunsWith(us)')
          BY ONLY <3>2 DEF RunsWith
        <4> QED
          BY ONLY <1>1, <1>4, <2>2, <4>1 DEF StoreInv
      <3> QED
        BY ONLY <1>4, <2>3, <2>5, <3>2, <3>3 DEF S!Next, S!Execute
    <2> QED
      BY ONLY <2>4, <2>5
  <1>7. CASE ~trapped /\ at # "run_vm"
    <2>1. ~trapped'
      BY ONLY <1>3, <1>7
    <2>2. /\ M!Supported(p) /\ at \notin {"fault", "stray", "misread", "unsupported"}
          /\ at \in {"new_module", "create_mem", "create_funcs"} => stack = <<>>
          /\ at \in {"create_mem", "create_funcs"} => globals = StartGlobals(p)
          /\ at = "create_funcs" => mem = StartMemory(p) /\ mem \in Bytes32
      BY ONLY <1>1, <1>7, StoreInv DEF StoreInv
    <2>3. M!Supported(p)
      BY ONLY <2>2
    <2>4. Bytes32' = Bytes32
      BY ONLY <1>4 DEF Bytes32
    <2>5. ASSUME at \in {"new_module", "create_mem", "create_funcs"}, at' \in {"new_module", "create_mem", "create_funcs"}
          PROVE  UNCHANGED <<written, storeBar>>
      BY ONLY <1>4, <1>7, <2>1, <2>5, BarLoading
    <2>6. CASE ReadSection
      <3>1. at = "new_module" /\ at' = "new_module" /\ stack' = stack
        BY ONLY <2>6 DEF ReadSection, dataVars
      <3>2. StoreInv'
        BY ONLY <1>1, <1>4, <2>2, <3>1 DEF StoreInv
      <3> QED
        BY ONLY <2>5, <3>1, <3>2
    <2>7. CASE CreateNothing
      <3>1. at' = "fault" /\ m' = m
        BY ONLY <2>7 DEF CreateNothing, Stop, loadVars
      <3>2. Filled(m, p, 14)
        BY ONLY <1>1, <1>4, <3>1, LoadInv' DEF LoadInv
      <3> QED
        BY ONLY <1>1, <1>2, <2>3, <2>7, <3>2, NothingMissing
    <2>8. CASE InitGlobals
      <3>1. at = "new_module" /\ at' = "create_mem" /\ m' = m
        BY ONLY <2>8 DEF InitGlobals, loadVars
      <3>2. Filled(m, p, 14)
        BY ONLY <1>1, <1>4, <3>1, LoadInv' DEF LoadInv
      <3>3. stack = <<>>
        BY ONLY <2>2, <3>1
      <3>4. stack' = <<>> /\ globals' = StartGlobals(p)
        BY ONLY <1>1, <1>2, <2>3, <2>8, <3>2, <3>3, GlobalsStart
      <3>5. StoreInv'
        BY ONLY <1>1, <1>4, <2>2, <3>1, <3>4 DEF StoreInv
      <3> QED
        BY ONLY <2>5, <3>1, <3>5
    <2>9. CASE InitMem
      <3>1. at = "create_mem" /\ at' = "create_funcs" /\ stack' = stack /\ globals' = globals
        BY ONLY <2>9 DEF InitMem
      <3>2. Filled(m, p, 14)
        BY ONLY <1>2, <3>1
      <3>3. stack = <<>> /\ globals = StartGlobals(p)
        BY ONLY <2>2, <3>1
      <3>4. mem' = StartMemory(p) /\ mem' \in Bytes32
        BY ONLY <1>1, <1>2, <2>3, <2>9, <3>2, <3>3, MemoryStart
      <3>5. StoreInv'
        BY ONLY <1>1, <1>4, <2>2, <2>4, <3>1, <3>3, <3>4 DEF StoreInv
      <3> QED
        BY ONLY <2>5, <3>1, <3>5
    <2>10. CASE InitMemStray
      <3>1. at = "create_mem"
        BY ONLY <2>10 DEF InitMemStray
      <3>2. Filled(m, p, 14) /\ stack = <<>>
        BY ONLY <1>2, <2>2, <3>1
      <3> QED
        BY ONLY <1>1, <1>2, <2>3, <2>10, <3>2, NothingStray
    <2>11. CASE CreateFuncs
      <3>1. at = "create_funcs"
        BY ONLY <2>11 DEF CreateFuncs
      <3>2. Filled(m, p, 14) /\ Begun
        BY ONLY <1>2, <3>1, RunInv DEF RunInv
      <3>3. stack = <<>> /\ globals = StartGlobals(p) /\ mem = StartMemory(p) /\ mem \in Bytes32
        BY ONLY <2>2, <3>1
      <3>4. RunsWith(<<>>)' /\ storeBar' = S!Instantiated(p)
        BY ONLY <1>1, <1>2, <2>1, <2>3, <2>11, <3>2, <3>3, StartsRight
      <3>5. storeBar.status = "loading"
        BY ONLY <1>7, <3>1, BarLoading
      <3>6. at' = "run_vm"
        BY ONLY <3>4 DEF RunsWith
      <3>7. StoreInv'
        BY ONLY <1>1, <1>4, <2>3, <3>4, <3>6 DEF StoreInv
      <3> QED
        BY ONLY <1>1, <1>4, <3>4, <3>5, <3>7 DEF S!Next, S!Instantiate
    <2>12. ~invoke_i
      BY ONLY <1>7, WhereTo
    <2>13. ~Misread /\ ~ParseUnsupported /\ ~CreateMemFault /\ ~CreateFuncsFault
      BY ONLY <1>1, <1>2, <2>3, LoadInv, RunInv', ReadWhole
    <2> QED
      BY ONLY <1>2, <2>6, <2>7, <2>8, <2>9, <2>10, <2>11, <2>12, <2>13 DEF Next
  <1> QED
    BY ONLY <1>5, <1>6, <1>7

(* create_context makes the globals, the linear memory and the functions   *)
(* the module says, and each invoke_i of _start computes, loads and stores *)
(* what WASM says, until the program traps or ends (vm.c:753-863,          *)
(* vm.c:464-732, buffer.c:29-200).                                         *)
THEOREM StoreImplemented == RefinementSpec => ImplementsStore
  <1>1. RefinementInit => StoreInv /\ S!Init
    <2> SUFFICES ASSUME RefinementInit PROVE StoreInv /\ S!Init
      OBVIOUS
    <2>1. at = "new_module" /\ stack = <<>> /\ trapped = ~M!Supported(written)
      BY ONLY RefinementInit DEF RefinementInit, Init
    <2>2. StoreInv
      BY ONLY <2>1 DEF StoreInv
    <2>3. S!Supported(written) = M!Supported(written)
      BY ONLY SameModules
    <2>4. S!Init
      BY ONLY <2>1, <2>3, BarLoading DEF S!Init
    <2> QED
      BY ONLY <2>2, <2>4
  <1>2. LoadInv /\ LoadInv' /\ RunInv /\ RunInv' /\ StoreInv /\ [RefinementNext]_<<vars, trapped>>
            => StoreInv' /\ [S!Next]_<<written, storeBar>>
    <2> SUFFICES ASSUME LoadInv, LoadInv', RunInv, RunInv', StoreInv, [RefinementNext]_<<vars, trapped>>
                 PROVE  StoreInv' /\ [S!Next]_<<written, storeBar>>
      OBVIOUS
    <2>1. CASE RefinementNext
      BY ONLY <2>1, LoadInv, LoadInv', RunInv, RunInv', StoreInv, StoreStep
    <2>2. CASE UNCHANGED <<vars, trapped>>
      <3>1. written' = written
        BY ONLY <2>2 DEF vars
      <3> QED
        BY ONLY <2>2, <3>1, StoreInv, BarSame
    <2> QED
      BY ONLY <2>1, <2>2, [RefinementNext]_<<vars, trapped>>
  <1> QED
    BY <1>1, <1>2, LoadInvariant, FaultsCorrect, PTL DEF RefinementSpec, ImplementsStore, S!Spec
=============================================================================
