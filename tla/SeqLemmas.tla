----------------------------- MODULE SeqLemmas -----------------------------
(***************************************************************************)
(* Sequences without duplicates as the kernel uses them for its lists:     *)
(* what pushing at the back, popping the tail and removing an element do   *)
(* to the elements; the quotients and bits of ints; and the induction that *)
(* the other proofs use.                                                   *)
(***************************************************************************)
EXTENDS Integers, Sequences, SequencesExt, FiniteSetTheorems, WellFoundedInduction, TLAPS

(* Induction over a set of naturals.                                       *)
LEMMA SetInduction ==
    ASSUME NEW P \in SUBSET Nat, 0 \in P, \A k \in P : k + 1 \in P
    PROVE  P = Nat
  <1> DEFINE R == OpToRel(<, Nat)
  <1>1. IsWellFoundedOn(R, Nat)
    BY NatLessThanWellFounded
  <1>2. \A x, y \in Nat : y < x => <<y, x>> \in R
    BY Zenon DEF OpToRel
  <1> HIDE DEF R
  <1> SUFFICES ASSUME Nat \ P # {} PROVE FALSE
    OBVIOUS
  <1>3. PICK x \in Nat \ P : \A y \in Nat \ P : ~(<<y, x>> \in R)
    BY <1>1, WFMin
  <1>4. x # 0 /\ x \in Nat
    OBVIOUS
  <1>5. x - 1 \in Nat /\ x - 1 < x /\ (x - 1) + 1 = x
    BY <1>4
  <1>6. x - 1 \in P
    BY <1>2, <1>3, <1>5
  <1> QED
    BY <1>5, <1>6

ST == INSTANCE SequenceTheorems

(* The elements of a list are the values at its places.                    *)
LEMMA ElementsSeq ==
    ASSUME NEW S, NEW s \in Seq(S)
    PROVE  /\ Len(s) \in Nat
           /\ DOMAIN s = 1..Len(s)
           /\ \A i \in 1..Len(s) : s[i] \in S
           /\ \A e : e \in ToSet(s) <=> \E i \in 1..Len(s) : s[i] = e
           /\ ToSet(s) \subseteq S
  <1>1. Len(s) \in Nat /\ DOMAIN s = 1..Len(s) /\ \A i \in 1..Len(s) : s[i] \in S
    OBVIOUS
  <1> QED
    BY <1>1 DEF ToSet

(* An empty list holds nothing, and a list that holds nothing is empty.    *)
LEMMA EmptyList ==
    ASSUME NEW S
    PROVE  /\ <<>> \in Seq(S)
           /\ IsInjective(<<>>)
           /\ ToSet(<<>>) = {}
           /\ \A s \in Seq(S) : s # <<>> => Last(s) \in ToSet(s)
  <1>1. <<>> \in Seq(S) /\ DOMAIN <<>> = {}
    OBVIOUS
  <1>2. IsInjective(<<>>) /\ ToSet(<<>>) = {}
    BY <1>1 DEF IsInjective, ToSet
  <1>3. ASSUME NEW s \in Seq(S), s # <<>> PROVE Last(s) \in ToSet(s)
    <2>1. Len(s) \in 1..Len(s)
      BY <1>3
    <2> QED
      BY <2>1, ElementsSeq DEF Last
  <1> QED
    BY <1>1, <1>2, <1>3

(* list_push_back of an element that is not in the list (list.c:15).       *)
LEMMA PushSeq ==
    ASSUME NEW S, NEW s \in Seq(S), NEW e \in S, IsInjective(s), e \notin ToSet(s)
    PROVE  /\ Append(s, e) \in Seq(S)
           /\ IsInjective(Append(s, e))
           /\ ToSet(Append(s, e)) = ToSet(s) \cup {e}
           /\ Append(s, e) # <<>>
           /\ Last(Append(s, e)) = e
           /\ Front(Append(s, e)) = s
  <1> DEFINE r == Append(s, e)
  <1>1. /\ r \in Seq(S) /\ Len(r) = Len(s) + 1 /\ r[Len(s) + 1] = e /\ r # <<>>
        /\ \A i \in 1..Len(s) : r[i] = s[i]
    OBVIOUS
  <1>2. DOMAIN s = 1..Len(s) /\ DOMAIN r = 1..(Len(s) + 1) /\ Len(s) \in Nat
    BY <1>1, ElementsSeq
  <1> HIDE DEF r
  <1>3. IsInjective(r)
    <2> SUFFICES ASSUME NEW i \in 1..(Len(s) + 1), NEW j \in 1..(Len(s) + 1), r[i] = r[j]
                 PROVE  i = j
      BY <1>2 DEF IsInjective
    <2>1. \A k \in 1..Len(s) : s[k] # e
      BY ElementsSeq
    <2>2. \A k, l \in 1..Len(s) : s[k] = s[l] => k = l
      BY <1>2 DEF IsInjective
    <2> QED
      BY <1>1, <1>2, <2>1, <2>2
  <1>4. ToSet(r) = ToSet(s) \cup {e}
    <2>1. \A x : x \in ToSet(r) <=> \E i \in 1..(Len(s) + 1) : r[i] = x
      BY <1>1, ElementsSeq
    <2>2. \A x : x \in ToSet(s) <=> \E i \in 1..Len(s) : s[i] = x
      BY ElementsSeq
    <2>3. \A i \in 1..(Len(s) + 1) : i \in 1..Len(s) \/ i = Len(s) + 1
      BY <1>2
    <2>4. \A i \in 1..Len(s) : i \in 1..(Len(s) + 1)
      BY <1>2
    <2>5. Len(s) + 1 \in 1..(Len(s) + 1)
      BY <1>2
    <2>6. ASSUME NEW x PROVE x \in ToSet(r) <=> x \in ToSet(s) \cup {e}
      BY <1>1, <2>1, <2>2, <2>3, <2>4, <2>5
    <2> QED
      BY <2>6
  <1>5. Front(r) = s
    <2>1. Front(r) \in Seq(S) /\ Len(Front(r)) = Len(s) /\ \A i \in 1..Len(s) : Front(r)[i] = r[i]
      BY <1>1, <1>2 DEF Front
    <2> QED
      BY <1>1, <2>1, ST!SeqEqual
  <1>6. Last(r) = e
    BY <1>1 DEF Last
  <1> QED
    BY <1>1, <1>3, <1>4, <1>5, <1>6 DEF r

(* list_pop_tail (list.c:52).                                              *)
LEMMA PopSeq ==
    ASSUME NEW S, NEW s \in Seq(S), IsInjective(s), s # <<>>
    PROVE  /\ Front(s) \in Seq(S)
           /\ IsInjective(Front(s))
           /\ Last(s) \in S
           /\ Last(s) \in ToSet(s)
           /\ ToSet(Front(s)) = ToSet(s) \ {Last(s)}
  <1> DEFINE r == Front(s)
             n == Len(s)
  <1>1. n \in Nat \ {0} /\ DOMAIN s = 1..n
    OBVIOUS
  <1>2. r \in Seq(S) /\ Len(r) = n - 1 /\ \A i \in 1..(n - 1) : r[i] = s[i]
    BY <1>1 DEF Front
  <1>3. DOMAIN r = 1..(n - 1)
    BY <1>2
  <1> HIDE DEF r, n
  <1>4. \A k, l \in 1..n : s[k] = s[l] => k = l
    BY <1>1 DEF IsInjective
  <1>5. IsInjective(r)
    BY <1>1, <1>2, <1>3, <1>4 DEF IsInjective
  <1>6. ToSet(r) = ToSet(s) \ {s[n]}
    <2>1. \A x : x \in ToSet(r) <=> \E i \in 1..(n - 1) : r[i] = x
      BY <1>2, ElementsSeq
    <2>2. \A x : x \in ToSet(s) <=> \E i \in 1..n : s[i] = x
      BY ElementsSeq DEF n
    <2>3. ASSUME NEW x \in ToSet(r) PROVE x \in ToSet(s) \ {s[n]}
      <3>1. PICK i \in 1..(n - 1) : r[i] = x
        BY <2>1, <2>3
      <3>2. i \in 1..n /\ n \in 1..n /\ i # n
        BY <1>1
      <3> QED
        BY <3>1, <3>2, <1>2, <1>4, <2>2
    <2>4. ASSUME NEW x \in ToSet(s), x # s[n] PROVE x \in ToSet(r)
      <3>1. PICK i \in 1..n : s[i] = x
        BY <2>2, <2>4
      <3>2. i \in 1..(n - 1)
        BY <3>1, <2>4, <1>1
      <3> QED
        BY <3>1, <3>2, <1>2, <2>1
    <2> QED
      BY <2>3, <2>4
  <1>7. Last(s) = s[n] /\ s[n] \in S /\ s[n] \in ToSet(s)
    <2>1. n \in 1..n
      BY <1>1
    <2> QED
      BY <1>1, <2>1, ElementsSeq DEF Last, n
  <1> QED
    BY <1>2, <1>5, <1>6, <1>7 DEF r

(* list_remove of the element at place i (list.c:23).                      *)
LEMMA RemoveSeq ==
    ASSUME NEW S, NEW s \in Seq(S), IsInjective(s), NEW i \in DOMAIN s
    PROVE  /\ RemoveAt(s, i) \in Seq(S)
           /\ IsInjective(RemoveAt(s, i))
           /\ ToSet(RemoveAt(s, i)) = ToSet(s) \ {s[i]}
  <1> DEFINE a == SubSeq(s, 1, i - 1)
             b == SubSeq(s, i + 1, Len(s))
             r == RemoveAt(s, i)
             n == Len(s)
  <1>1. n \in Nat /\ DOMAIN s = 1..n /\ i \in 1..n
    BY ElementsSeq
  <1>2. a \in Seq(S) /\ Len(a) = i - 1 /\ \A j \in 1..(i - 1) : a[j] = s[j]
    BY <1>1
  <1>3. b \in Seq(S) /\ Len(b) = n - i /\ \A j \in 1..(n - i) : b[j] = s[i + j]
    BY <1>1
  <1>4. r = a \o b
    BY DEF RemoveAt
  <1> HIDE DEF a, b, r, n
  <1>5. r \in Seq(S) /\ Len(r) = n - 1
    <2>1. (i - 1) + (n - i) = n - 1
      BY <1>1
    <2> QED
      BY <2>1, <1>2, <1>3, <1>4, ST!ConcatProperties
  <1>6. \A j \in 1..(n - 1) : r[j] = IF j <= i - 1 THEN a[j] ELSE b[j - (i - 1)]
    <2>1. Len(a) + Len(b) = n - 1
      BY <1>1, <1>2, <1>3
    <2>2. \A j \in 1..(Len(a) + Len(b)) :
             (a \o b)[j] = IF j <= Len(a) THEN a[j] ELSE b[j - Len(a)]
      BY <1>2, <1>3, ST!ConcatProperties
    <2> QED
      BY <2>1, <2>2, <1>2, <1>4
  <1>7. \A j \in 1..(n - 1) : r[j] = IF j < i THEN s[j] ELSE s[j + 1]
    <2> SUFFICES ASSUME NEW j \in 1..(n - 1)
                 PROVE  r[j] = IF j < i THEN s[j] ELSE s[j + 1]
      OBVIOUS
    <2>1. CASE j < i
      BY <2>1, <1>1, <1>2, <1>6
    <2>2. CASE j >= i
      <3>1. j - (i - 1) \in 1..(n - i) /\ i + (j - (i - 1)) = j + 1
        BY <2>2, <1>1
      <3>2. r[j] = b[j - (i - 1)] /\ b[j - (i - 1)] = s[j + 1]
        <4>1. ~(j <= i - 1) /\ ~(j < i)
          BY <2>2, <1>1
        <4>2. r[j] = b[j - (i - 1)]
          BY <4>1, <1>6
        <4> QED
          BY <4>2, <3>1, <1>3
      <3> QED
        BY <2>2, <3>2, <1>1
    <2> QED
      BY <2>1, <2>2, <1>1
  <1>8. \A k, l \in 1..n : s[k] = s[l] => k = l
    BY <1>1 DEF IsInjective
  <1>9. DOMAIN r = 1..(n - 1)
    BY <1>5
  <1>10. IsInjective(r)
    <2> SUFFICES ASSUME NEW k \in 1..(n - 1), NEW l \in 1..(n - 1), r[k] = r[l]
                 PROVE  k = l
      BY <1>9 DEF IsInjective
    <2> DEFINE up(j) == IF j < i THEN j ELSE j + 1
    <2>1. r[k] = s[up(k)] /\ r[l] = s[up(l)]
      BY <1>7
    <2>2. up(k) \in 1..n /\ up(l) \in 1..n
      BY <1>1
    <2>3. up(k) = up(l)
      BY <2>1, <2>2, <1>8
    <2> QED
      BY <2>3, <1>1
  <1>11. \A x : x \in ToSet(r) <=> \E j \in 1..(n - 1) : r[j] = x
    BY <1>5, ElementsSeq
  <1>12. \A x : x \in ToSet(s) <=> \E j \in 1..n : s[j] = x
    BY ElementsSeq DEF n
  <1>13. ASSUME NEW x \in ToSet(r) PROVE x \in ToSet(s) /\ x # s[i]
    <2>1. PICK j \in 1..(n - 1) : r[j] = x
      BY <1>11, <1>13
    <2>2. CASE j < i
      BY <2>1, <2>2, <1>1, <1>7, <1>8, <1>12
    <2>3. CASE j >= i
      BY <2>1, <2>3, <1>1, <1>7, <1>8, <1>12
    <2> QED
      BY <2>2, <2>3, <1>1
  <1>14. ASSUME NEW x \in ToSet(s), x # s[i] PROVE x \in ToSet(r)
    <2>1. PICK j \in 1..n : s[j] = x
      BY <1>12, <1>14
    <2>2. CASE j < i
      BY <2>1, <2>2, <1>1, <1>7, <1>11
    <2>3. CASE j > i
      <3>1. j - 1 \in 1..(n - 1) /\ ~(j - 1 < i) /\ (j - 1) + 1 = j
        BY <2>3, <1>1
      <3> QED
        BY <2>1, <3>1, <1>7, <1>11
    <2> QED
      BY <2>1, <2>2, <2>3, <1>1, <1>14
  <1>15. ToSet(r) = ToSet(s) \ {s[i]}
    BY <1>13, <1>14
  <1> QED
    BY <1>5, <1>10, <1>15 DEF r

----------------------------------------------------------------------------
(* Quotients, powers of two and the bits of an int.                        *)

(* A quotient and a remainder in range are the ones.                       *)
LEMMA DivUnique ==
    ASSUME NEW p \in Nat \ {0}, NEW x \in Int, NEW q \in Int, NEW r \in 0..(p - 1), x = q * p + r
    PROVE  x \div p = q /\ x % p = r
  <1>1. PICK d \in Int, e \in Int : d = x \div p /\ e = x % p
    OBVIOUS
  <1>2. e \in 0..(p - 1) /\ x = p * d + e
    BY <1>1
  <1>3. PICK k \in Int : k = d - q
    OBVIOUS
  <1>4. p * d = p * q + p * k
    BY <1>3
  <1>5. p * k = r - e
    BY <1>2, <1>4
  <1>6. ~(k >= 1)
    <2>1. k >= 1 => p * k >= p
      OBVIOUS
    <2> QED
      BY <1>2, <1>5, <2>1
  <1>7. ~(k <= -1)
    <2>1. k <= -1 => p * k <= -p
      OBVIOUS
    <2> QED
      BY <1>2, <1>5, <2>1
  <1>8. k = 0
    BY <1>6, <1>7
  <1> QED
    BY <1>1, <1>3, <1>5, <1>8

(* Adding multiples of the divisor.                                        *)
LEMMA ModShift ==
    ASSUME NEW p \in Nat \ {0}, NEW x \in Int, NEW k \in Int
    PROVE  (x + k * p) \div p = x \div p + k /\ (x + k * p) % p = x % p
  <1>1. PICK d \in Int, e \in 0..(p - 1) : d = x \div p /\ e = x % p /\ x = d * p + e
    OBVIOUS
  <1>2. (d + k) * p = d * p + k * p
    OBVIOUS
  <1>3. PICK y \in Int : y = x + k * p
    OBVIOUS
  <1>4. y = (d + k) * p + e /\ d + k \in Int
    BY <1>1, <1>2, <1>3
  <1>5. y \div p = d + k /\ y % p = e
    BY ONLY <1>4, DivUnique, p \in Nat \ {0}, y \in Int, e \in 0..(p - 1)
  <1> QED
    BY ONLY <1>1, <1>3, <1>5

(* Dividing twice.                                                         *)
LEMMA DivDiv ==
    ASSUME NEW p \in Nat \ {0}, NEW q \in Nat \ {0}, NEW x \in Int
    PROVE  (x \div p) \div q = x \div (p * q) /\ p * q \in Nat \ {0}
  <1>1. PICK d \in Int, e \in 0..(p - 1) : d = x \div p /\ x = d * p + e
    OBVIOUS
  <1>2. PICK c \in Int, f \in 0..(q - 1) : c = d \div q /\ d = c * q + f
    OBVIOUS
  <1>3. PICK n \in Nat : n = p * q
    OBVIOUS
  <1>4. n # 0
    BY <1>3
  <1>5. d * p = c * n + f * p
    <2>1. d * p = (c * q + f) * p
      BY <1>2
    <2>2. (c * q + f) * p = c * (p * q) + f * p
      OBVIOUS
    <2> QED
      BY <1>3, <2>1, <2>2
  <1>6. f * p + e \in 0..(n - 1)
    <2>1. f * p >= 0 /\ f * p <= (q - 1) * p
      OBVIOUS
    <2>2. (q - 1) * p = n - p
      BY <1>3
    <2>3. f * p \in Int
      OBVIOUS
    <2> QED
      BY <2>1, <2>2, <2>3
  <1>7. x = c * n + (f * p + e)
    BY <1>1, <1>5
  <1>8. x \div n = c
    BY ONLY <1>4, <1>6, <1>7, DivUnique, n \in Nat, x \in Int, c \in Int
  <1> QED
    BY ONLY <1>1, <1>2, <1>3, <1>4, <1>8, n \in Nat

(* The powers of two.                                                      *)
LEMMA Powers == 2^0 = 1 /\ \A n \in Nat : 2^n \in Nat \ {0} /\ 2^(n + 1) = 2 * 2^n
  <1>1. ASSUME NEW n \in Nat PROVE IsFiniteSet(1..n) /\ Cardinality(1..n) = n
    <2>1. 1 \in Int /\ n \in Int /\ IF 1 > n THEN n = 0 ELSE n - 1 + 1 = n
      OBVIOUS
    <2> QED
      BY ONLY <2>1, FS_Interval
  <1>2. ASSUME NEW n \in Nat
        PROVE  /\ IsFiniteSet(SUBSET (1..n)) /\ Cardinality(SUBSET (1..n)) = 2^n /\ 2^n \in Nat \ {0}
    <2>1. IsFiniteSet(SUBSET (1..n)) /\ Cardinality(SUBSET (1..n)) = 2^n
      BY ONLY <1>1, n \in Nat, FS_SUBSET
    <2>2. {} \in SUBSET (1..n)
      OBVIOUS
    <2> QED
      BY ONLY <2>1, <2>2, FS_CardinalityType, FS_EmptySet
  <1>3. 2^0 = 1
    <2>1. SUBSET (1..0) = {{}}
      OBVIOUS
    <2>2. Cardinality({{}}) = 1
      BY ONLY FS_Singleton
    <2>3. Cardinality(SUBSET (1..0)) = 2^0
      BY ONLY <1>2, 0 \in Nat
    <2> QED
      BY ONLY <2>1, <2>2, <2>3
  <1>4. ASSUME NEW n \in Nat PROVE 2^(n + 1) = 2 * 2^n
    <2> DEFINE A == SUBSET (1..n)
               B == {s \in SUBSET (1..(n + 1)) : n + 1 \in s}
               f == [s \in A |-> s \cup {n + 1}]
    <2>1. A \cup B = SUBSET (1..(n + 1)) /\ A \cap B = {}
      <3>1. 1..(n + 1) = (1..n) \cup {n + 1} /\ n + 1 \notin 1..n
        OBVIOUS
      <3> QED
        BY <3>1
    <2>2. f \in Bijection(A, B)
      <3>1. \A s \in A : f[s] \in B
        OBVIOUS
      <3>2. \A s, t \in A : f[s] = f[t] => s = t
        <4>1. \A s \in A : n + 1 \notin s
          OBVIOUS
        <4>2. \A s \in A : s = f[s] \ {n + 1}
          BY <4>1
        <4> QED
          BY ONLY <4>2
      <3>3. \A t \in B : \E s \in A : f[s] = t
        <4>1. ASSUME NEW t \in B PROVE \E s \in A : f[s] = t
          <5>1. 1..(n + 1) = (1..n) \cup {n + 1}
            OBVIOUS
          <5>2. t \ {n + 1} \in A /\ t = (t \ {n + 1}) \cup {n + 1}
            BY <5>1
          <5>3. f[t \ {n + 1}] = t
            BY <5>2
          <5> QED
            BY <5>2, <5>3
        <4> QED
          BY <4>1
      <3>4. f \in [A -> B]
        BY ONLY <3>1 DEF f
      <3> HIDE DEF f, A, B
      <3> QED
        BY ONLY <3>2, <3>3, <3>4 DEF Bijection, Injection, Surjection, IsInjective
    <2>3. IsFiniteSet(A) /\ Cardinality(A) = 2^n
      BY ONLY <1>2, n \in Nat
    <2> HIDE DEF f, A, B
    <2>4. IsFiniteSet(B) /\ Cardinality(B) = 2^n
      <3>1. ExistsBijection(A, B)
        BY ONLY <2>2 DEF ExistsBijection
      <3> QED
        BY ONLY <2>3, <3>1, FS_Bijection
    <2>5. Cardinality(A \cup B) = Cardinality(A) + Cardinality(B) - Cardinality(A \cap B)
      BY ONLY <2>3, <2>4, FS_Union
    <2>6. Cardinality(A \cap B) = 0
      BY ONLY <2>1, FS_EmptySet
    <2>7. Cardinality(A \cup B) = 2^(n + 1)
      <3>1. n + 1 \in Nat
        OBVIOUS
      <3> QED
        BY ONLY <1>2, <2>1, <3>1
    <2>8. 2^n \in Nat
      BY ONLY <1>2, n \in Nat
    <2> QED
      BY ONLY <2>3, <2>4, <2>5, <2>6, <2>7, <2>8
  <1> QED
    BY ONLY <1>2, <1>3, <1>4

(* A power of a sum.                                                       *)
LEMMA PowerAdd == \A m, n \in Nat : 2^(m + n) = 2^m * 2^n
  <1> SUFFICES ASSUME NEW m \in Nat PROVE \A n \in Nat : 2^(m + n) = 2^m * 2^n
    OBVIOUS
  <1> DEFINE P == {n \in Nat : 2^(m + n) = 2^m * 2^n}
  <1>1. 0 \in P
    BY Powers
  <1>2. ASSUME NEW n \in P PROVE n + 1 \in P
    <2>1. n \in Nat /\ m + n \in Nat /\ m + (n + 1) = (m + n) + 1
      OBVIOUS
    <2>2. PICK a \in Nat, b \in Nat : a = 2^m /\ b = 2^n
      BY Powers, <2>1
    <2>3. 2^(m + (n + 1)) = 2 * (a * b) /\ 2^(n + 1) = 2 * b
      <3>1. 2^((m + n) + 1) = 2 * 2^(m + n) /\ 2^(n + 1) = 2 * 2^n
        BY ONLY <2>1, Powers
      <3>2. 2^(m + n) = 2^m * 2^n
        OBVIOUS
      <3> QED
        BY ONLY <2>1, <2>2, <3>1, <3>2
    <2>4. 2 * (a * b) = a * (2 * b)
      BY ONLY a \in Nat, b \in Nat
    <2> QED
      BY <2>1, <2>2, <2>3, <2>4
  <1>3. P \in SUBSET Nat
    OBVIOUS
  <1> HIDE DEF P
  <1>4. P = Nat
    BY <1>1, <1>2, <1>3, SetInduction
  <1> QED
    BY <1>4 DEF P

\* The k-th bit of an int.
BitOf(x, k) == (x \div 2^k) % 2

(* Cutting an int off keeps the bits below the cut.                        *)
LEMMA LowBits ==
    ASSUME NEW x \in Int, NEW n \in Nat, NEW k \in 0..(n - 1)
    PROVE  BitOf(x % 2^n, k) = BitOf(x, k)
  <1>1. PICK i \in Nat : n = k + 1 + i
    <2>1. n - k - 1 \in Nat /\ n = k + 1 + (n - k - 1)
      OBVIOUS
    <2> QED
      BY <2>1
  <1>2. PICK a \in Nat \ {0}, c \in Nat \ {0}, l \in Nat \ {0} : a = 2^k /\ c = 2^i /\ l = 2^n
    BY Powers
  <1>3. l = 2 * a * c
    <2>1. 2^(k + 1) = 2 * 2^k /\ 2^((k + 1) + i) = 2^(k + 1) * 2^i
      BY Powers, PowerAdd
    <2> QED
      BY ONLY <1>1, <1>2, <2>1
  <1>4. PICK d \in Int, r \in 0..(l - 1) : d = x \div l /\ r = x % l /\ x = d * l + r
    OBVIOUS
  <1>5. PICK e \in Int : e = d * c
    OBVIOUS
  <1>6. x = r + (e * 2) * a
    <2>1. d * (2 * a * c) = ((d * c) * 2) * a
      OBVIOUS
    <2>2. d * l = (e * 2) * a
      BY ONLY <1>3, <1>5, <2>1
    <2>3. PICK y \in Int : y = (e * 2) * a
      OBVIOUS
    <2>4. x = y + r
      BY ONLY <1>4, <2>2, <2>3
    <2> QED
      BY ONLY <2>3, <2>4, y \in Int, r \in 0..(l - 1)
  <1>7. x \div a = (r \div a) + e * 2
    <2>1. e * 2 \in Int /\ r \in Int
      OBVIOUS
    <2> QED
      BY ONLY <1>6, <2>1, a \in Nat \ {0}, ModShift
  <1>8. (x \div a) % 2 = (r \div a) % 2
    <2>1. r \div a \in Int /\ 2 \in Nat \ {0}
      OBVIOUS
    <2> QED
      BY ONLY <1>7, <2>1, e \in Int, ModShift
  <1> QED
    BY ONLY <1>2, <1>4, <1>8 DEF BitOf

(* One more bit of an int.                                                 *)
LEMMA NextBit ==
    ASSUME NEW x \in Int, NEW n \in Nat
    PROVE  x % 2^(n + 1) = (x % 2^n) + BitOf(x, n) * 2^n
  <1>1. PICK p \in Nat \ {0} : p = 2^n /\ 2^(n + 1) = 2 * p
    BY Powers
  <1>2. PICK a \in Int, r \in 0..(p - 1) : a = x \div p /\ r = x % p /\ x = a * p + r
    OBVIOUS
  <1>3. PICK b \in Int, c \in 0..1 : c = a % 2 /\ a = 2 * b + c
    <2>1. a % 2 \in 0..1 /\ a = 2 * (a \div 2) + (a % 2) /\ a \div 2 \in Int
      OBVIOUS
    <2> QED
      BY <2>1
  <1>4. x = b * (2 * p) + (c * p + r)
    <2>1. (2 * b + c) * p = b * (2 * p) + c * p
      OBVIOUS
    <2>2. PICK y \in Int, z \in Int : y = c * p /\ z = b * (2 * p)
      OBVIOUS
    <2>3. a * p = z + y
      BY ONLY <1>3, <2>1, <2>2
    <2>4. x = (z + y) + r
      BY ONLY <1>2, <2>3
    <2> QED
      BY ONLY <2>2, <2>4, r \in 0..(p - 1), y \in Int, z \in Int
  <1>5. c * p + r \in 0..(2 * p - 1) /\ 2 * p \in Nat \ {0}
    <2>1. c = 0 \/ c = 1
      OBVIOUS
    <2> QED
      BY <2>1
  <1>6. x % (2 * p) = c * p + r
    BY ONLY <1>4, <1>5, x \in Int, b \in Int, DivUnique
  <1>7. c * p + r = r + c * p
    OBVIOUS
  <1> QED
    BY ONLY <1>1, <1>2, <1>3, <1>6, <1>7 DEF BitOf

(* The bits of an int times a power of two.                                *)
LEMMA ShiftedUp ==
    ASSUME NEW x \in Int, NEW s \in Nat, NEW k \in Nat
    PROVE  BitOf(x * 2^s, k) = IF k < s THEN 0 ELSE BitOf(x, k - s)
  <1>1. PICK p \in Nat \ {0} : p = 2^s
    BY Powers
  <1>2. CASE k < s
    <2>1. PICK i \in Nat : s = k + 1 + i
      <3>1. s - k - 1 \in Nat /\ s = k + 1 + (s - k - 1)
        BY <1>2
      <3> QED
        BY <3>1
    <2>2. PICK a \in Nat \ {0}, c \in Nat \ {0} : a = 2^k /\ c = 2^i
      BY Powers
    <2>3. p = 2 * a * c
      <3>1. 2^(k + 1) = 2 * 2^k /\ 2^((k + 1) + i) = 2^(k + 1) * 2^i
        BY Powers, PowerAdd
      <3> QED
        BY ONLY <1>1, <2>1, <2>2, <3>1
    <2>4. PICK e \in Int : e = x * c
      OBVIOUS
    <2>5. x * p = 0 + (e * 2) * a
      <3>1. x * (2 * a * c) = ((x * c) * 2) * a
        OBVIOUS
      <3>2. ((x * c) * 2) * a = 0 + ((x * c) * 2) * a
        OBVIOUS
      <3> QED
        BY ONLY <2>3, <2>4, <3>1, <3>2
    <2>6. 0 \div a = 0
      <3>1. 0 = 0 * a + 0 /\ 0 \in 0..(a - 1)
        OBVIOUS
      <3> QED
        BY <3>1, DivUnique
    <2>7. (x * p) \div a = 0 + e * 2
      <3>1. e * 2 \in Int
        OBVIOUS
      <3> QED
        BY ONLY <2>5, <2>6, <3>1, 0 \in Int, a \in Nat \ {0}, ModShift
    <2>8. (0 + e * 2) % 2 = 0
      BY ONLY e \in Int
    <2> QED
      BY ONLY <1>1, <1>2, <2>2, <2>7, <2>8 DEF BitOf
  <1>3. CASE ~(k < s)
    <2>1. PICK i \in Nat : i = k - s /\ k = s + i
      BY <1>3
    <2>2. PICK a \in Nat \ {0} : a = 2^i
      BY Powers
    <2>3. 2^k = p * a
      BY ONLY <1>1, <2>1, <2>2, s \in Nat, i \in Nat, PowerAdd
    <2>4. x * p \in Int /\ x * p = x * p + 0 /\ 0 \in 0..(p - 1)
      OBVIOUS
    <2>5. (x * p) \div p = x
      BY ONLY <2>4, x \in Int, p \in Nat \ {0}, DivUnique
    <2>6. (x * p) \div (p * a) = x \div a
      BY ONLY <2>4, <2>5, DivDiv, p \in Nat \ {0}, a \in Nat \ {0}
    <2> QED
      BY ONLY <1>1, <1>3, <2>1, <2>2, <2>3, <2>6 DEF BitOf
  <1> QED
    BY <1>2, <1>3

(* The bits of an int divided by a power of two.                           *)
LEMMA ShiftedDown ==
    ASSUME NEW x \in Int, NEW s \in Nat, NEW k \in Nat
    PROVE  BitOf(x \div 2^s, k) = BitOf(x, k + s)
  <1>1. PICK p \in Nat \ {0}, a \in Nat \ {0} : p = 2^s /\ a = 2^k
    BY Powers
  <1>2. (x \div p) \div a = x \div (p * a)
    BY ONLY DivDiv, x \in Int, p \in Nat \ {0}, a \in Nat \ {0}
  <1>3. 2^(k + s) = a * p /\ a * p = p * a
    BY ONLY PowerAdd, <1>1, s \in Nat, k \in Nat, p \in Nat \ {0}, a \in Nat \ {0}
  <1> QED
    BY ONLY <1>1, <1>2, <1>3 DEF BitOf

(* Above a small int all bits are its sign.                                *)
LEMMA SignBits ==
    ASSUME NEW n \in Nat, NEW x \in Int, -(2^n) <= x, x < 2^n, NEW k \in Nat, k >= n
    PROVE  BitOf(x, k) = BitOf(x, n)
  <1>1. ASSUME NEW j \in Nat, j >= n PROVE x \div 2^j = IF x < 0 THEN -1 ELSE 0
    <2>1. PICK i \in Nat : j = n + i
      <3>1. j - n \in Nat /\ j = n + (j - n)
        BY <1>1
      <3> QED
        BY <3>1
    <2>2. PICK p \in Nat \ {0}, a \in Nat \ {0}, b \in Nat \ {0} : p = 2^n /\ a = 2^j /\ b = 2^i
      BY Powers
    <2>3. a = p * b
      BY ONLY <2>1, <2>2, n \in Nat, i \in Nat, PowerAdd
    <2>4. a >= p
      BY <2>3
    <2>5. -a <= x /\ x < a
      BY <2>2, <2>4
    <2>6. CASE x < 0
      <3>1. x = (-1) * a + (x + a) /\ x + a \in 0..(a - 1) /\ -1 \in Int
        BY <2>5, <2>6
      <3>2. x \div a = -1
        BY ONLY <3>1, DivUnique, x \in Int, a \in Nat \ {0}
      <3> QED
        BY ONLY <2>2, <2>6, <3>2
    <2>7. CASE ~(x < 0)
      <3>1. x = 0 * a + x /\ x \in 0..(a - 1)
        BY <2>5, <2>7
      <3>2. x \div a = 0
        BY ONLY <3>1, DivUnique, x \in Int, 0 \in Int, a \in Nat \ {0}
      <3> QED
        BY ONLY <2>2, <2>7, <3>2
    <2> QED
      BY <2>6, <2>7
  <1>2. n >= n
    OBVIOUS
  <1>3. x \div 2^k = x \div 2^n
    BY ONLY <1>1, <1>2, n \in Nat, k \in Nat, k >= n
  <1> QED
    BY ONLY <1>3 DEF BitOf
=============================================================================
