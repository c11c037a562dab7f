---------------------------- MODULE InstanceProofs ----------------------------
(***************************************************************************)
(* Proofs about Instance, for any modules that can be written and are      *)
(* valid: new_module reads back what was written, and from there to the    *)
(* end of _start a program faults only in a division and strays from its   *)
(* memory only with an address in the upper half of the address space.     *)
(***************************************************************************)
EXTENDS InstanceRefinement, SeqLemmas

----------------------------------------------------------------------------
(* Sequences                                                               *)

(* Putting sequences together does not depend on the order of doing it.    *)
LEMMA ConcatAssoc ==
    ASSUME NEW X, NEW r \in Seq(X), NEW s \in Seq(X), NEW t \in Seq(X)
    PROVE  /\ r \o s \in Seq(X)
           /\ (r \o s) \o t = r \o (s \o t)
           /\ <<>> \o s = s /\ s \o <<>> = s
           /\ Len(r \o s) = Len(r) + Len(s)
  OBVIOUS

(* The same, alone.                                                        *)
LEMMA Assoc ==
    ASSUME NEW X, NEW r \in Seq(X), NEW s \in Seq(X), NEW t \in Seq(X)
    PROVE  (r \o s) \o t = r \o (s \o t)
  OBVIOUS

(* Appending to a sequence behind another one.                             *)
LEMMA ConcatSnoc ==
    ASSUME NEW X, NEW r \in Seq(X), NEW s \in Seq(X), NEW x \in X
    PROVE  r \o Append(s, x) = Append(r \o s, x) /\ r \o s \in Seq(X)
  OBVIOUS

(* The items of two sequences put together.                                *)
LEMMA ConcatIndex ==
    ASSUME NEW X, NEW r \in Seq(X), NEW s \in Seq(X)
    PROVE  \A i \in 1..(Len(r) + Len(s)) : (r \o s)[i] = IF i <= Len(r) THEN r[i] ELSE s[i - Len(r)]
  OBVIOUS

\* f and g begin with the same, and go on from the same to the same.
Alike(n, f, g) == f[0] = g[0] /\ \A i \in 1..n : f[i - 1] = g[i - 1] => f[i] = g[i]

(* A recursion over the first naturals has one solution at most.           *)
LEMMA SameRun ==
    ASSUME NEW n \in Nat, NEW f, NEW g, Alike(n, f, g)
    PROVE  \A i \in 0..n : f[i] = g[i]
  <1> USE DEF Alike
  <1> DEFINE P == {i \in Nat : i <= n => f[i] = g[i]}
  <1>1. 0 \in P
    OBVIOUS
  <1>2. ASSUME NEW i \in P PROVE i + 1 \in P
    <2>1. CASE i + 1 <= n
      <3>1. i + 1 \in 1..n /\ (i + 1) - 1 = i /\ i <= n
        BY <2>1
      <3> QED
        BY <3>1
    <2> QED
      BY <2>1
  <1>3. P \in SUBSET Nat
    OBVIOUS
  <1> HIDE DEF P
  <1>4. P = Nat
    BY <1>1, <1>2, <1>3, SetInduction
  <1> QED
    BY <1>4 DEF P

Flattening(ss, f) ==
    f = [i \in 1..Len(ss) |-> IF i = 1 THEN ss[i] ELSE f[i - 1] \o ss[i]]

(* The recursion of FlattenSeq has a solution.                             *)
LEMMA FlattenExists ==
    ASSUME NEW X, NEW ss \in Seq(Seq(X))
    PROVE  \E f : Flattening(ss, f)
  <1> DEFINE part(f, n) == f = [i \in 1..n |-> IF i = 1 THEN ss[i] ELSE f[i - 1] \o ss[i]]
             P == {n \in Nat : \E f : part(f, n)}
  <1>1. 0 \in P
    <2>1. part([i \in 1..0 |-> 0], 0)
      OBVIOUS
    <2> QED
      BY <2>1
  <1>2. ASSUME NEW n \in P PROVE n + 1 \in P
    <2>1. PICK f : part(f, n)
      OBVIOUS
    <2> DEFINE g == [i \in 1..(n + 1) |-> IF i <= n THEN f[i] ELSE IF i = 1 THEN ss[i] ELSE f[i - 1] \o ss[i]]
    <2>2. ASSUME NEW i \in 1..(n + 1)
          PROVE  g[i] = IF i = 1 THEN ss[i] ELSE g[i - 1] \o ss[i]
      <3>1. CASE i <= n
        <4>1. i \in 1..n /\ (i # 1 => i - 1 \in 1..(n + 1) /\ i - 1 <= n)
          BY <3>1
        <4>2. g[i] = f[i] /\ (i # 1 => g[i - 1] = f[i - 1])
          BY <4>1
        <4>3. f[i] = IF i = 1 THEN ss[i] ELSE f[i - 1] \o ss[i]
          BY <2>1, <4>1
        <4> QED
          BY <4>2, <4>3
      <3>2. CASE ~(i <= n)
        <4>1. i = n + 1 /\ (i # 1 => i - 1 \in 1..(n + 1) /\ i - 1 <= n)
          BY <3>2
        <4> QED
          BY <4>1
      <3> QED
        BY <3>1, <3>2
    <2>3. g = [i \in 1..(n + 1) |-> g[i]]
      OBVIOUS
    <2> HIDE DEF g
    <2>4. part(g, n + 1)
      BY <2>2, <2>3
    <2> HIDE DEF part
    <2>5. n + 1 \in Nat /\ \E h : part(h, n + 1)
      BY <2>4
    <2> QED
      BY ONLY <2>5
  <1>3. P \in SUBSET Nat
    OBVIOUS
  <1> HIDE DEF P
  <1>4. P = Nat
    BY <1>1, <1>2, <1>3, SetInduction
  <1>5. Len(ss) \in P
    BY <1>4
  <1> QED
    BY <1>5 DEF P, Flattening

(* The empty sequence is flat.                                             *)
LEMMA FlattenEmpty == FlattenSeq(<<>>) = <<>>
  BY DEF FlattenSeq

(* What FlattenSeq is.                                                     *)
LEMMA FlattenSolves ==
    ASSUME NEW X, NEW ss \in Seq(Seq(X)), ss # <<>>
    PROVE  \E f : Flattening(ss, f) /\ FlattenSeq(ss) = f[Len(ss)]
  <1> DEFINE f == CHOOSE f : Flattening(ss, f)
  <1>1. Flattening(ss, f)
    BY FlattenExists
  <1>2. Len(ss) # 0
    OBVIOUS
  <1>3. FlattenSeq(ss) = f[Len(ss)]
    BY <1>2 DEF FlattenSeq, Flattening
  <1> QED
    BY <1>1, <1>3

(* The flattening of a longer sequence.                                    *)
LEMMA FlattenSnoc ==
    ASSUME NEW X, NEW ss \in Seq(Seq(X)), NEW e \in Seq(X)
    PROVE  FlattenSeq(Append(ss, e)) = FlattenSeq(ss) \o e
  <1> DEFINE tt == Append(ss, e)
             n == Len(ss)
  <1>1. tt \in Seq(Seq(X)) /\ tt # <<>> /\ Len(tt) = n + 1 /\ n \in Nat /\ tt[n + 1] = e
        /\ \A i \in 1..n : tt[i] = ss[i]
    BY ElementsSeq
  <1>2. PICK g : Flattening(tt, g) /\ FlattenSeq(tt) = g[n + 1]
    BY <1>1, FlattenSolves
  <1>3. \A i \in 1..(n + 1) : g[i] = IF i = 1 THEN tt[i] ELSE g[i - 1] \o tt[i]
    BY <1>1, <1>2 DEF Flattening
  <1>4. CASE ss = <<>>
    <2>1. n = 0 /\ FlattenSeq(ss) = <<>>
      BY <1>4, FlattenEmpty
    <2>2. g[1] = e
      BY <1>1, <1>3, <2>1
    <2> QED
      BY <1>2, <2>1, <2>2
  <1>5. CASE ss # <<>>
    <2>1. PICK f : Flattening(ss, f) /\ FlattenSeq(ss) = f[n]
      BY <1>5, FlattenSolves
    <2>2. \A i \in 1..n : f[i] = IF i = 1 THEN ss[i] ELSE f[i - 1] \o ss[i]
      BY <2>1 DEF Flattening
    <2> DEFINE F == [i \in 0..n |-> IF i = 0 THEN <<>> ELSE f[i]]
               G == [i \in 0..n |-> IF i = 0 THEN <<>> ELSE g[i]]
    <2>3. ASSUME NEW i \in 1..n, F[i - 1] = G[i - 1] PROVE F[i] = G[i]
      <3>1. i \in 1..(n + 1) /\ tt[i] = ss[i] /\ F[i] = f[i] /\ G[i] = g[i]
        BY <1>1
      <3>2. CASE i = 1
        BY <1>3, <2>2, <3>1, <3>2
      <3>3. CASE i # 1
        <4>1. i - 1 \in 0..n /\ i - 1 # 0
          BY <3>3
        <4>2. f[i - 1] = g[i - 1]
          BY <2>3, <4>1
        <4> QED
          BY <1>3, <2>2, <3>1, <3>3, <4>2
      <3> QED
        BY <3>2, <3>3
    <2>4. F[0] = G[0]
      OBVIOUS
    <2>5. n \in 0..n /\ n # 0 /\ n + 1 \in 1..(n + 1) /\ n + 1 # 1 /\ (n + 1) - 1 = n
      BY <1>1, <1>5
    <2>6. F[n] = f[n] /\ G[n] = g[n]
      BY <2>5
    <2> HIDE DEF F, G
    <2>9. Alike(n, F, G)
      BY <2>3, <2>4 DEF Alike
    <2>7. f[n] = g[n]
      BY <1>1, <2>5, <2>6, <2>9, SameRun
    <2>8. g[n + 1] = g[n] \o e
      BY <1>1, <1>3, <2>5
    <2> QED
      BY <1>2, <2>1, <2>7, <2>8
  <1> QED
    BY <1>4, <1>5

(* What two steps of an induction over sequences show of all of them.      *)
LEMMA PrefixInduction ==
    ASSUME NEW X, NEW P, NEW s \in Seq(X), SubSeq(s, 1, 0) \in P,
           \A k \in 0..(Len(s) - 1) : SubSeq(s, 1, k) \in P => Append(SubSeq(s, 1, k), s[k + 1]) \in P
    PROVE  s \in P
  <1> DEFINE Q == {k \in Nat : k <= Len(s) => SubSeq(s, 1, k) \in P}
  <1>1. 0 \in Q
    OBVIOUS
  <1>2. ASSUME NEW k \in Q PROVE k + 1 \in Q
    <2>1. CASE k + 1 <= Len(s)
      <3>1. k \in 0..(Len(s) - 1) /\ k <= Len(s)
        BY <2>1
      <3>2. SubSeq(s, 1, k + 1) = Append(SubSeq(s, 1, k), s[k + 1])
        BY <2>1
      <3>3. SubSeq(s, 1, k) \in P
        BY ONLY <3>1, k \in Q
      <3>4. SubSeq(s, 1, k + 1) \in P
        BY ONLY <3>1, <3>2, <3>3,
           \A i \in 0..(Len(s) - 1) : SubSeq(s, 1, i) \in P => Append(SubSeq(s, 1, i), s[i + 1]) \in P
      <3> QED
        BY <3>4
    <2> QED
      BY <2>1
  <1>3. Q \in SUBSET Nat
    OBVIOUS
  <1> HIDE DEF Q
  <1>4. Q = Nat
    BY <1>1, <1>2, <1>3, SetInduction
  <1>5. Len(s) \in Nat /\ SubSeq(s, 1, Len(s)) = s
    OBVIOUS
  <1>6. SubSeq(s, 1, Len(s)) \in P
    BY ONLY <1>4, <1>5 DEF Q
  <1> QED
    BY ONLY <1>5, <1>6

(* What is flat consists of the elements of the elements.                  *)
LEMMA FlattenType ==
    ASSUME NEW X, NEW ss \in Seq(Seq(X))
    PROVE  FlattenSeq(ss) \in Seq(X)
  <1> DEFINE P == {t \in Seq(Seq(X)) : FlattenSeq(t) \in Seq(X)}
  <1>1. SubSeq(ss, 1, 0) \in P
    <2>1. SubSeq(ss, 1, 0) = <<>> /\ <<>> \in Seq(Seq(X)) /\ <<>> \in Seq(X)
      OBVIOUS
    <2> QED
      BY ONLY <2>1, FlattenEmpty
  <1>2. ASSUME NEW k \in 0..(Len(ss) - 1), SubSeq(ss, 1, k) \in P
        PROVE  Append(SubSeq(ss, 1, k), ss[k + 1]) \in P
    <2>1. ss[k + 1] \in Seq(X)
      OBVIOUS
    <2> DEFINE t == SubSeq(ss, 1, k)
    <2>2. t \in Seq(Seq(X)) /\ FlattenSeq(t) \in Seq(X)
      BY <1>2
    <2> HIDE DEF t
    <2>3. FlattenSeq(Append(t, ss[k + 1])) = FlattenSeq(t) \o ss[k + 1]
      BY <2>1, <2>2, FlattenSnoc
    <2>4. FlattenSeq(t) \o ss[k + 1] \in Seq(X) /\ Append(t, ss[k + 1]) \in Seq(Seq(X))
      BY <2>1, <2>2
    <2> QED
      BY ONLY <2>3, <2>4 DEF t
  <1> HIDE DEF P
  <1>3. ss \in P
    BY <1>1, <1>2, PrefixInduction
  <1> QED
    BY <1>3 DEF P

(* The flattening of a sequence with one more at its front.                *)
LEMMA FlattenCons ==
    ASSUME NEW X, NEW ss \in Seq(Seq(X)), NEW e \in Seq(X)
    PROVE  FlattenSeq(<<e>> \o ss) = e \o FlattenSeq(ss)
  <1> DEFINE P == {t \in Seq(Seq(X)) : FlattenSeq(<<e>> \o t) = e \o FlattenSeq(t)}
  <1>1. SubSeq(ss, 1, 0) \in P
    <2>1. SubSeq(ss, 1, 0) = <<>> /\ <<e>> \o <<>> = Append(<<>>, e) /\ <<>> \in Seq(Seq(X))
      OBVIOUS
    <2>2. FlattenSeq(Append(<<>>, e)) = <<>> \o e
      BY <2>1, FlattenSnoc, FlattenEmpty
    <2>3. <<>> \o e = e /\ e \o <<>> = e
      OBVIOUS
    <2> QED
      BY ONLY <2>1, <2>2, <2>3, FlattenEmpty
  <1>2. ASSUME NEW k \in 0..(Len(ss) - 1), SubSeq(ss, 1, k) \in P
        PROVE  Append(SubSeq(ss, 1, k), ss[k + 1]) \in P
    <2> DEFINE t == SubSeq(ss, 1, k)
    <2>1. ss[k + 1] \in Seq(X) /\ t \in Seq(Seq(X))
      OBVIOUS
    <2> HIDE DEF t
    <2>2. FlattenSeq(Append(t, ss[k + 1])) = FlattenSeq(t) \o ss[k + 1]
      BY <2>1, FlattenSnoc
    <2>3. <<e>> \o Append(t, ss[k + 1]) = Append(<<e>> \o t, ss[k + 1]) /\ <<e>> \o t \in Seq(Seq(X))
      <3>1. <<e>> \in Seq(Seq(X))
        OBVIOUS
      <3>2. PICK Y : Y = Seq(X)
        OBVIOUS
      <3>3. <<e>> \in Seq(Y) /\ t \in Seq(Y) /\ ss[k + 1] \in Y
        BY ONLY <2>1, <3>1, <3>2
      <3>4. <<e>> \o Append(t, ss[k + 1]) = Append(<<e>> \o t, ss[k + 1]) /\ <<e>> \o t \in Seq(Y)
        BY ONLY <3>3, ConcatSnoc
      <3> QED
        BY ONLY <3>2, <3>4
    <2>4. FlattenSeq(Append(<<e>> \o t, ss[k + 1])) = FlattenSeq(<<e>> \o t) \o ss[k + 1]
      BY <2>1, <2>3, FlattenSnoc
    <2>5. FlattenSeq(<<e>> \o t) = e \o FlattenSeq(t)
      BY <1>2 DEF t
    <2>6. FlattenSeq(t) \in Seq(X)
      BY <2>1, FlattenType
    <2>7. (e \o FlattenSeq(t)) \o ss[k + 1] = e \o (FlattenSeq(t) \o ss[k + 1])
      <3>1. PICK u \in Seq(X) : u = FlattenSeq(t)
        BY ONLY <2>6
      <3>2. PICK v \in Seq(X) : v = ss[k + 1]
        BY ONLY <2>1
      <3>3. (e \o u) \o v = e \o (u \o v)
        OBVIOUS
      <3> QED
        BY ONLY <3>1, <3>2, <3>3
    <2>8. Append(t, ss[k + 1]) \in Seq(Seq(X))
      BY <2>1
    <2> QED
      BY <2>2, <2>3, <2>4, <2>5, <2>7, <2>8 DEF t
  <1> HIDE DEF P
  <1>3. ss \in P
    BY <1>1, <1>2, PrefixInduction
  <1> QED
    BY <1>3 DEF P

----------------------------------------------------------------------------
(* Reading from a buffer                                                   *)

Buffers    == Seq(Int)
Then(p, r) == p \o r

(* Buffers can be put together in any order.                               *)
LEMMA ThenFacts ==
    /\ \A p, q \in Buffers : Then(p, q) \in Buffers
    /\ \A p, q, r \in Buffers : Then(Then(p, q), r) = Then(p, Then(q, r))
    /\ \A p \in Buffers : Then(<<>>, p) = p /\ Then(p, <<>>) = p
    /\ <<>> \in Buffers
  BY DEF Buffers, Then

(* What is read of a buffer that begins with p.                            *)
LEMMA ReadFront ==
    \A p, r \in Buffers :
        /\ Skip(Then(p, r), Len(p)) = r
        /\ \A i \in 1..Len(p) : Token(Then(p, r), i) = p[i]
        /\ eof(Then(p, r)) => p = <<>> /\ r = <<>>
  <1> SUFFICES ASSUME NEW p \in Buffers, NEW r \in Buffers
               PROVE  /\ Skip(Then(p, r), Len(p)) = r
                      /\ \A i \in 1..Len(p) : Token(Then(p, r), i) = p[i]
                      /\ eof(Then(p, r)) => p = <<>> /\ r = <<>>
    OBVIOUS
  <1>1. p \in Seq(Int) /\ r \in Seq(Int) /\ Then(p, r) = p \o r
    BY DEF Buffers, Then
  <1>2. p \o r \in Seq(Int) /\ Len(p \o r) = Len(p) + Len(r)
    BY <1>1
  <1>3. Skip(p \o r, Len(p)) = r
    BY <1>1 DEF Skip
  <1>4. \A i \in 1..Len(p) : Token(p \o r, i) = p[i]
    BY <1>1 DEF Token
  <1>5. eof(p \o r) => Len(p) = 0 /\ Len(r) = 0
    BY <1>1, <1>2 DEF eof
  <1>6. eof(p \o r) => p = <<>> /\ r = <<>>
    BY <1>1, <1>5
  <1> QED
    BY ONLY <1>1, <1>3, <1>4, <1>6

(* What is read of a buffer that begins with one token.                    *)
LEMMA ReadToken ==
    \A p, r \in Buffers : Len(p) = 1 => Token(Then(p, r), 1) = p[1] /\ Skip(Then(p, r), 1) = r
  <1> SUFFICES ASSUME NEW p \in Buffers, NEW r \in Buffers, Len(p) = 1
               PROVE  Token(Then(p, r), 1) = p[1] /\ Skip(Then(p, r), 1) = r
    OBVIOUS
  <1>1. \A i \in 1..Len(p) : Token(Then(p, r), i) = p[i]
    BY ReadFront
  <1>2. Skip(Then(p, r), Len(p)) = r
    BY ReadFront
  <1>3. 1 \in 1..1
    OBVIOUS
  <1> QED
    BY ONLY <1>1, <1>2, <1>3, Len(p) = 1

\* What the elements of ws from the k-th on make together.
Left(ws, k) == FlattenSeq(SubSeq(ws, k, Len(ws)))

(* They are the k-th and then those after it.                              *)
LEMMA LeftStep ==
    ASSUME NEW ws \in Seq(Buffers)
    PROVE  /\ \A k \in 1..(Len(ws) + 1) : Left(ws, k) \in Buffers
           /\ \A k \in 1..Len(ws) : Left(ws, k) = Then(ws[k], Left(ws, k + 1))
           /\ Left(ws, 1) = FlattenSeq(ws)
           /\ Left(ws, Len(ws) + 1) = <<>>
  <1>1. ASSUME NEW k \in 1..(Len(ws) + 1) PROVE Left(ws, k) \in Buffers
    <2>1. SubSeq(ws, k, Len(ws)) \in Seq(Seq(Int))
      BY DEF Buffers
    <2> QED
      BY <2>1, FlattenType DEF Left, Buffers
  <1>2. ASSUME NEW k \in 1..Len(ws) PROVE Left(ws, k) = Then(ws[k], Left(ws, k + 1))
    <2>1. SubSeq(ws, k + 1, Len(ws)) \in Seq(Seq(Int)) /\ ws[k] \in Seq(Int)
      BY DEF Buffers
    <2>2. SubSeq(ws, k, Len(ws)) = <<ws[k]>> \o SubSeq(ws, k + 1, Len(ws))
      OBVIOUS
    <2> QED
      BY <2>1, <2>2, FlattenCons DEF Left, Then
  <1>3. SubSeq(ws, 1, Len(ws)) = ws /\ SubSeq(ws, Len(ws) + 1, Len(ws)) = <<>>
    OBVIOUS
  <1> QED
    BY <1>1, <1>2, <1>3, FlattenEmpty DEF Left

\* A vector of which ws are the elements, and what is left of it and of r after it before each
\* element is read.
Vector(ws) == Then(<<Len(ws)>>, FlattenSeq(ws))
Reading(ws, r, rest) ==
    /\ Token(Then(Vector(ws), r), 1) = Len(ws)
    /\ Skip(Then(Vector(ws), r), 1) = rest[1]
    /\ rest[1] = Then(FlattenSeq(ws), r)
    /\ \A i \in 1..Len(ws) : rest[i + 1] \in Buffers /\ rest[i] = Then(ws[i], rest[i + 1])
    /\ rest[Len(ws) + 1] = r

(* A number is a buffer.                                                   *)
LEMMA OneToken == \A e \in Int : <<e>> \in Buffers /\ Len(<<e>>) = 1 /\ <<e>>[1] = e
  BY DEF Buffers

(* A vector can be read.                                                   *)
LEMMA VectorFacts ==
    ASSUME NEW ws \in Seq(Buffers), NEW r \in Buffers
    PROVE  Vector(ws) \in Buffers /\ \E rest : Reading(ws, r, rest)
  <1> DEFINE n == Len(ws)
             rest == [i \in 1..(n + 1) |-> Then(Left(ws, i), r)]
             p == <<n>>
             f == FlattenSeq(ws)
  <1>1. n \in Nat /\ \A i \in 1..n : ws[i] \in Buffers
    OBVIOUS
  <1>2. p \in Buffers /\ Len(p) = 1 /\ p[1] = n
    BY ONLY <1>1, OneToken
  <1>3. /\ \A i \in 1..(n + 1) : Left(ws, i) \in Buffers
        /\ \A i \in 1..n : Left(ws, i) = Then(ws[i], Left(ws, i + 1))
        /\ Left(ws, 1) = f /\ Left(ws, n + 1) = <<>>
    BY LeftStep
  <1>4. Vector(ws) = Then(p, f)
    BY DEF Vector
  <1> HIDE DEF f, p, n
  <1>5. 1 \in 1..(n + 1) /\ n + 1 \in 1..(n + 1) /\ \A i \in 1..n : i + 1 \in 1..(n + 1) /\ i \in 1..(n + 1)
    BY ONLY <1>1
  <1>6. f \in Buffers
    BY ONLY <1>3, <1>5
  <1>7. Vector(ws) \in Buffers /\ Then(f, r) \in Buffers /\ Then(Vector(ws), r) = Then(p, Then(f, r))
    BY ONLY <1>2, <1>4, <1>6, r \in Buffers, ThenFacts
  <1>8. Token(Then(p, Then(f, r)), 1) = n /\ Skip(Then(p, Then(f, r)), 1) = Then(f, r)
    BY ONLY <1>2, <1>7, ReadToken
  <1>12. \A i \in 1..(n + 1) : rest[i] = Then(Left(ws, i), r)
    OBVIOUS
  <1> HIDE DEF rest
  <1>9. rest[1] = Then(f, r) /\ rest[n + 1] = r
    BY ONLY <1>3, <1>5, <1>12, r \in Buffers, ThenFacts
  <1>10. ASSUME NEW i \in 1..n PROVE rest[i + 1] \in Buffers /\ rest[i] = Then(ws[i], rest[i + 1])
    <2>1. PICK t \in Buffers : t = Left(ws, i + 1)
      BY ONLY <1>3, <1>5, i \in 1..n
    <2>2. PICK w \in Buffers : w = ws[i]
      BY ONLY <1>1, i \in 1..n
    <2>3. rest[i + 1] = Then(t, r) /\ rest[i] = Then(Then(w, t), r)
      BY ONLY <1>3, <1>5, <1>12, <2>1, <2>2, i \in 1..n
    <2>4. Then(Then(w, t), r) = Then(w, Then(t, r)) /\ Then(t, r) \in Buffers
      BY ONLY t \in Buffers, w \in Buffers, r \in Buffers, ThenFacts
    <2> QED
      BY ONLY <2>2, <2>3, <2>4
  <1>11. Reading(ws, r, rest)
    BY ONLY <1>7, <1>8, <1>9, <1>10 DEF Reading, n, f
  <1> QED
    BY ONLY <1>7, <1>11

(* The two parts of what a parser gives.                                   *)
LEMMA ParsedFields == \A v, b : Parsed(v, b).val = v /\ Parsed(v, b).buf = b
  BY DEF Parsed

\* What parse_vec has after each element of s.
Progress(s, rest) == [i \in 0..Len(s) |-> Parsed(SubSeq(s, 1, i), rest[i + 1])]

Progressing(n, s, rest, f) ==
    /\ f = [i \in 0..n |-> f[i]]
    /\ f[0] = Parsed(<<>>, rest[1])
    /\ \A i \in 1..n : /\ f[i - 1].buf = rest[i]
                       /\ f[i] = Parsed(Append(f[i - 1].val, s[i]), rest[i + 1])
    /\ f[n] = Parsed(s, rest[n + 1])

(* Each element read makes the progress that is due.                       *)
LEMMA ProgressStep ==
    ASSUME NEW X, NEW s \in Seq(X), NEW rest
    PROVE  Progressing(Len(s), s, rest, Progress(s, rest))
  <1> DEFINE n == Len(s)
             f == Progress(s, rest)
  <1>1. n \in Nat /\ SubSeq(s, 1, 0) = <<>> /\ SubSeq(s, 1, n) = s
    OBVIOUS
  <1>2. \A i \in 1..n : Append(SubSeq(s, 1, i - 1), s[i]) = SubSeq(s, 1, i)
    OBVIOUS
  <1>3. f = [i \in 0..n |-> Parsed(SubSeq(s, 1, i), rest[i + 1])]
    BY DEF Progress
  <1> DEFINE q == [i \in 0..n |-> SubSeq(s, 1, i)]
  <1>4. \A i \in 0..n : q[i] = SubSeq(s, 1, i)
    OBVIOUS
  <1>6. f = [i \in 0..n |-> Parsed(q[i], rest[i + 1])]
    BY <1>3
  <1> HIDE DEF q, n, f
  <1>9. 0 \in 0..n /\ n \in 0..n /\ \A i \in 1..n : i \in 0..n /\ i - 1 \in 0..n
    BY ONLY <1>1
  <1>5. q[0] = <<>> /\ q[n] = s /\ \A i \in 1..n : Append(q[i - 1], s[i]) = q[i]
    BY ONLY <1>1, <1>2, <1>4, <1>9
  <1>7. f[0] = Parsed(<<>>, rest[1]) /\ f[n] = Parsed(s, rest[n + 1])
    BY ONLY <1>1, <1>5, <1>6
  <1>8. ASSUME NEW i \in 1..n
        PROVE  f[i - 1].buf = rest[i] /\ f[i] = Parsed(Append(f[i - 1].val, s[i]), rest[i + 1])
    <2>1. i \in 0..n /\ i - 1 \in 0..n /\ (i - 1) + 1 = i
      BY ONLY <1>1, i \in 1..n
    <2>2. f[i - 1] = Parsed(q[i - 1], rest[i]) /\ f[i] = Parsed(q[i], rest[i + 1])
      BY ONLY <1>6, <2>1
    <2>3. f[i - 1].buf = rest[i] /\ f[i - 1].val = q[i - 1]
      BY ONLY <2>2 DEF Parsed
    <2>4. Append(q[i - 1], s[i]) = q[i]
      BY ONLY <1>5, i \in 1..n
    <2> QED
      BY ONLY <2>2, <2>3, <2>4
  <1>10. f = [i \in 0..n |-> f[i]]
    BY ONLY <1>6
  <1> QED
    BY ONLY <1>7, <1>8, <1>10 DEF Progressing, n, f

(* What reads each element of s in its turn reads s.                       *)
LEMMA ReadsAll ==
    ASSUME NEW X, NEW s \in Seq(X), NEW rest, NEW f, f[0] = Parsed(<<>>, rest[1]),
           \A i \in 1..Len(s) :
              f[i - 1].buf = rest[i] => f[i] = Parsed(Append(f[i - 1].val, s[i]), rest[i + 1])
    PROVE  f[Len(s)] = Parsed(s, rest[Len(s) + 1])
  <1> DEFINE n == Len(s)
  <1>1. PICK f0 : f0 = Progress(s, rest)
    OBVIOUS
  <1>2. Progressing(n, s, rest, f0)
    BY <1>1, ProgressStep
  <1>3. n \in Nat
    OBVIOUS
  <1>4. ASSUME NEW i \in 1..n, f[i - 1] = f0[i - 1] PROVE f[i] = f0[i]
    <2>1. f0[i - 1].buf = rest[i] /\ f0[i] = Parsed(Append(f0[i - 1].val, s[i]), rest[i + 1])
      BY ONLY <1>2, i \in 1..n DEF Progressing
    <2>2. f[i - 1].buf = rest[i] => f[i] = Parsed(Append(f[i - 1].val, s[i]), rest[i + 1])
      OBVIOUS
    <2> QED
      BY ONLY <1>4, <2>1, <2>2
  <1>5. f[0] = f0[0]
    BY ONLY <1>2, f[0] = Parsed(<<>>, rest[1]) DEF Progressing
  <1> HIDE DEF n
  <1>6. Alike(n, f, f0)
    BY ONLY <1>4, <1>5 DEF Alike
  <1>7. \A i \in 0..n : f[i] = f0[i]
    BY ONLY <1>3, <1>6, SameRun
  <1>8. n \in 0..n
    BY ONLY <1>3
  <1>9. f[n] = Parsed(s, rest[n + 1])
    BY ONLY <1>2, <1>7, <1>8 DEF Progressing
  <1> QED
    BY <1>9 DEF n

(* A number as a token.                                                    *)
LEMMA TokenIndex == \A e \in Int : Format!Index(e) \in Buffers
  BY OneToken DEF Format!Index

(* A number.                                                               *)
LEMMA ReadIndex == \A e \in Int, r \in Buffers : parse_typeidx(Then(Format!Index(e), r)) = Parsed(e, r)
  <1> SUFFICES ASSUME NEW e \in Int, NEW r \in Buffers
               PROVE  parse_typeidx(Then(Format!Index(e), r)) = Parsed(e, r)
    OBVIOUS
  <1>1. PICK p \in Buffers : p = <<e>> /\ Len(p) = 1 /\ p[1] = e
    BY OneToken
  <1>2. Format!Index(e) = p
    BY <1>1 DEF Format!Index
  <1>3. Token(Then(p, r), 1) = e /\ Skip(Then(p, r), 1) = r
    <2>1. 1 \in 1..1
      OBVIOUS
    <2> QED
      BY ONLY <1>1, <2>1, r \in Buffers, ReadFront
  <1> QED
    BY <1>2, <1>3 DEF parse_typeidx

(* A vector of numbers.                                                    *)
LEMMA ReadIndexes ==
    ASSUME NEW s \in Seq(Int), NEW r \in Buffers
    PROVE  /\ Format!Vec(Format!Index, s) \in Buffers
           /\ parse_vec(parse_typeidx, Then(Format!Vec(Format!Index, s), r)) = Parsed(s, r)
  <1> DEFINE n == Len(s)
             ws == [k \in DOMAIN s |-> Format!Index(s[k])]
  <1>1. n \in Nat /\ \A k \in 1..n : s[k] \in Int
    OBVIOUS
  <1>2. \A k \in 1..n : Format!Index(s[k]) \in Buffers
    BY ONLY <1>1, r \in Buffers, TokenIndex
  <1>3. ws = [k \in 1..n |-> Format!Index(s[k])]
    OBVIOUS
  <1>4. Format!Vec(Format!Index, s) = Then(<<n>>, FlattenSeq(ws))
    BY DEF Format!Vec, Format!FlattenSeq, FlattenSeq, Then
  <1> HIDE DEF ws, n
  <1>5. ws \in Seq(Buffers) /\ Len(ws) = n /\ \A k \in 1..n : ws[k] = Format!Index(s[k])
    BY ONLY <1>1, <1>2, <1>3
  <1>6. Format!Vec(Format!Index, s) = Vector(ws)
    BY ONLY <1>4, <1>5 DEF Vector
  <1>7. PICK rest : Reading(ws, r, rest)
    BY <1>5, VectorFacts
  <1> DEFINE b == Then(Vector(ws), r)
             step(f, i) ==
                IF i = 0 THEN Parsed(<<>>, Skip(b, 1))
                ELSE LET q == f[i - 1]  e == parse_typeidx(q.buf) IN Parsed(Append(q.val, e.val), e.buf)
             f1 == CHOOSE f : f = [i \in 0..Token(b, 1) |-> step(f, i)]
  <1>8. Token(b, 1) = n /\ Skip(b, 1) = rest[1] /\ rest[n + 1] = r
        /\ \A i \in 1..n : rest[i] = Then(Format!Index(s[i]), rest[i + 1]) /\ rest[i + 1] \in Buffers
    BY ONLY <1>5, <1>7 DEF Reading
  <1>9. parse_vec(parse_typeidx, b) = f1[n]
    BY ONLY <1>8 DEF parse_vec
  <1>10. \A i \in 1..n : parse_typeidx(rest[i]) = Parsed(s[i], rest[i + 1])
    BY ONLY <1>1, <1>8, ReadIndex
  <1> HIDE DEF b, f1
  <1>11. PICK f0 : f0 = Progress(s, rest)
    OBVIOUS
  <1>12. Progressing(n, s, rest, f0)
    BY <1>11, ProgressStep DEF n
  <1>13. \A i \in 0..n : f0[i] = step(f0, i)
    <2>1. ASSUME NEW i \in 1..n PROVE f0[i] = step(f0, i)
      <3>1. i # 0
        BY ONLY <1>1, i \in 1..n
      <3>2. f0[i - 1].buf = rest[i] /\ f0[i] = Parsed(Append(f0[i - 1].val, s[i]), rest[i + 1])
        BY ONLY <1>12, i \in 1..n DEF Progressing
      <3>3. parse_typeidx(rest[i]).val = s[i] /\ parse_typeidx(rest[i]).buf = rest[i + 1]
        BY ONLY <1>10, i \in 1..n, ParsedFields
      <3> QED
        BY ONLY <3>1, <3>2, <3>3
    <2>2. f0[0] = step(f0, 0)
      BY ONLY <1>8, <1>12 DEF Progressing
    <2>3. \A i \in 0..n : i = 0 \/ i \in 1..n
      BY ONLY <1>1
    <2> QED
      BY ONLY <2>1, <2>2, <2>3
  <1> HIDE DEF step
  <1>14. f1 = [i \in 0..n |-> step(f1, i)]
    <2>1. f0 = [i \in 0..n |-> step(f0, i)]
      BY ONLY <1>12, <1>13 DEF Progressing
    <2> QED
      BY ONLY <1>8, <2>1 DEF f1
  <1>15. f1[0] = Parsed(<<>>, rest[1])
    <2>1. 0 \in 0..n /\ step(f1, 0) = Parsed(<<>>, rest[1])
      BY ONLY <1>1, <1>8 DEF step
    <2> QED
      BY ONLY <1>14, <2>1
  <1>16. \A i \in 1..n : f1[i - 1].buf = rest[i] => f1[i] = Parsed(Append(f1[i - 1].val, s[i]), rest[i + 1])
    <2> SUFFICES ASSUME NEW i \in 1..n, f1[i - 1].buf = rest[i]
                 PROVE  f1[i] = Parsed(Append(f1[i - 1].val, s[i]), rest[i + 1])
      OBVIOUS
    <2>1. i \in 0..n /\ i # 0
      BY ONLY <1>1, i \in 1..n
    <2>2. parse_typeidx(rest[i]).val = s[i] /\ parse_typeidx(rest[i]).buf = rest[i + 1]
      BY ONLY <1>10, i \in 1..n, ParsedFields
    <2>3. step(f1, i) = Parsed(Append(f1[i - 1].val, s[i]), rest[i + 1])
      BY ONLY f1[i - 1].buf = rest[i], <2>1, <2>2 DEF step
    <2> QED
      BY ONLY <1>14, <2>1, <2>3
  <1>17. f1[n] = Parsed(s, rest[n + 1])
    BY <1>15, <1>16, ReadsAll DEF n
  <1>18. Vector(ws) \in Buffers
    BY <1>5, VectorFacts
  <1> QED
    BY ONLY <1>6, <1>8, <1>9, <1>17, <1>18 DEF b

(* What is read of a buffer that begins with two tokens.                   *)
LEMMA ReadTwo ==
    ASSUME NEW a \in Int, NEW b \in Int, NEW r \in Buffers
    PROVE  /\ <<a, b>> \in Buffers
           /\ Token(Then(<<a, b>>, r), 1) = a
           /\ Token(Then(<<a, b>>, r), 2) = b
           /\ Skip(Then(<<a, b>>, r), 2) = r
  <1>1. PICK p : p = <<a, b>>
    OBVIOUS
  <1>2. p \in Buffers /\ Len(p) = 2 /\ p[1] = a /\ p[2] = b
    BY ONLY <1>1, a \in Int, b \in Int DEF Buffers
  <1>3. Skip(Then(p, r), Len(p)) = r /\ \A i \in 1..Len(p) : Token(Then(p, r), i) = p[i]
    BY ONLY <1>2, r \in Buffers, ReadFront
  <1>4. 1 \in 1..2 /\ 2 \in 1..2
    OBVIOUS
  <1> QED
    BY ONLY <1>1, <1>2, <1>3, <1>4

(* The same of three.                                                      *)
LEMMA ReadThree ==
    ASSUME NEW a \in Int, NEW b \in Int, NEW c \in Int, NEW r \in Buffers
    PROVE  /\ <<a, b, c>> \in Buffers
           /\ Token(Then(<<a, b, c>>, r), 1) = a
           /\ Token(Then(<<a, b, c>>, r), 2) = b
           /\ Token(Then(<<a, b, c>>, r), 3) = c
           /\ Skip(Then(<<a, b, c>>, r), 3) = r
  <1>1. PICK p : p = <<a, b, c>>
    OBVIOUS
  <1>2. p \in Buffers /\ Len(p) = 3 /\ p[1] = a /\ p[2] = b /\ p[3] = c
    BY ONLY <1>1, a \in Int, b \in Int, c \in Int DEF Buffers
  <1>3. Skip(Then(p, r), Len(p)) = r /\ \A i \in 1..Len(p) : Token(Then(p, r), i) = p[i]
    BY ONLY <1>2, r \in Buffers, ReadFront
  <1>4. 1 \in 1..3 /\ 2 \in 1..3 /\ 3 \in 1..3
    OBVIOUS
  <1> QED
    BY ONLY <1>1, <1>2, <1>3, <1>4

----------------------------------------------------------------------------
(* Instructions                                                            *)

(* The format and the parser mean the same opcodes.                        *)
LEMMA SameOpcodes ==
    /\ Format!Loads = Loads /\ Format!Stores = Stores
    /\ Format!Indexed = Indexed /\ Format!Consts = Consts /\ Format!End = End
  BY DEF Format!Loads, Loads, Format!Stores, Stores, Format!Indexed, Indexed, Format!Consts, Consts,
         Format!End, End, Format!I32Load, I32Load, Format!I64Load, I64Load, Format!I32Load8_s, I32Load8_s,
         Format!I32Load8_u, I32Load8_u, Format!I32Load16_u, I32Load16_u, Format!I32Store, I32Store,
         Format!I64Store, I64Store, Format!I32Store8, I32Store8, Format!LocalGet, LocalGet,
         Format!LocalSet, LocalSet, Format!GlobalGet, GlobalGet, Format!GlobalSet, GlobalSet,
         Format!I32Const, I32Const, Format!I64Const, I64Const

(* No opcode is of two kinds.                                              *)
LEMMA Kinds == \A op : op \in Loads \cup Stores => op \notin Indexed \cup Consts /\ op # End
  BY DEF Loads, Stores, Indexed, Consts, End, I32Load, I64Load, I32Load8_s, I32Load8_u, I32Load16_u,
         I32Store, I64Store, I32Store8, LocalGet, LocalSet, GlobalGet, GlobalSet, I32Const, I64Const

(* No constant ends an expression.                                         *)
LEMMA ConstIsNoEnd == End \notin Consts
  BY DEF Consts, End, I32Const, I64Const

(* An instruction is read as it was written.                               *)
LEMMA ReadInstr ==
    \A c \in Format!Instruction, r \in Buffers :
        /\ Format!Instr(c) \in Buffers
        /\ Format!Instr(c) # <<>>
        /\ parse_instr(Then(Format!Instr(c), r)) = Parsed(c, r)
  <1> SUFFICES ASSUME NEW c \in Format!Instruction, NEW r \in Buffers
               PROVE  /\ Format!Instr(c) \in Buffers
                      /\ Format!Instr(c) # <<>>
                      /\ parse_instr(Then(Format!Instr(c), r)) = Parsed(c, r)
    OBVIOUS
  <1>1. /\ c.op \in Int /\ c.n \in Int /\ c = [op |-> c.op, n |-> c.n]
        /\ c.op \in Loads \cup Stores \cup Indexed \cup Consts \/ c.n = 0
    BY SameOpcodes DEF Format!Instruction
  <1>2. PICK o \in Int : o = c.op
    BY <1>1
  <1>3. PICK n \in Int : n = c.n
    BY <1>1
  <1>4. CASE o \in Loads \cup Stores
    <2>1. Format!Instr(c) = <<o, 0, n>>
      BY <1>2, <1>3, <1>4, SameOpcodes, Kinds DEF Format!Instr
    <2>2. <<o, 0, n>> \in Buffers /\ Token(Then(<<o, 0, n>>, r), 1) = o
          /\ Token(Then(<<o, 0, n>>, r), 3) = n /\ Skip(Then(<<o, 0, n>>, r), 3) = r
      <3>1. 0 \in Int
        OBVIOUS
      <3> QED
        BY ONLY <3>1, o \in Int, n \in Int, r \in Buffers, ReadThree
    <2>3. parse_instr(Then(<<o, 0, n>>, r)) = Parsed([op |-> o, n |-> n], r)
      BY ONLY <1>4, <2>2, Kinds DEF parse_instr
    <2>4. <<o, 0, n>> # <<>>
      OBVIOUS
    <2> QED
      BY ONLY <1>1, <1>2, <1>3, <2>1, <2>2, <2>3, <2>4
  <1>5. CASE o \notin Loads \cup Stores /\ o \in Indexed \cup Consts
    <2>1. Format!Instr(c) = <<o, n>>
      BY <1>2, <1>3, <1>5, SameOpcodes, Kinds DEF Format!Instr
    <2>2. <<o, n>> \in Buffers /\ Token(Then(<<o, n>>, r), 1) = o
          /\ Token(Then(<<o, n>>, r), 2) = n /\ Skip(Then(<<o, n>>, r), 2) = r
      BY ONLY o \in Int, n \in Int, r \in Buffers, ReadTwo
    <2>3. parse_instr(Then(<<o, n>>, r)) = Parsed([op |-> o, n |-> n], r)
      BY ONLY <1>5, <2>2, Kinds DEF parse_instr
    <2>4. <<o, n>> # <<>>
      OBVIOUS
    <2> QED
      BY ONLY <1>1, <1>2, <1>3, <2>1, <2>2, <2>3, <2>4
  <1>6. CASE o \notin Loads \cup Stores /\ o \notin Indexed \cup Consts
    <2>1. Format!Instr(c) = <<o>> /\ n = 0
      BY <1>1, <1>2, <1>3, <1>6, SameOpcodes DEF Format!Instr
    <2>2. <<o>> \in Buffers /\ Len(<<o>>) = 1 /\ <<o>>[1] = o
      BY ONLY o \in Int, OneToken
    <2>3. Token(Then(<<o>>, r), 1) = o /\ Skip(Then(<<o>>, r), 1) = r
      BY ONLY <2>2, r \in Buffers, ReadToken
    <2>4. parse_instr(Then(<<o>>, r)) = Parsed([op |-> o, n |-> 0], r)
      BY ONLY <1>6, <2>3 DEF parse_instr
    <2>5. <<o>> # <<>>
      OBVIOUS
    <2> QED
      BY ONLY <1>1, <1>2, <1>3, <2>1, <2>2, <2>4, <2>5
  <1> QED
    BY <1>4, <1>5, <1>6

\* What is left of the instructions s and of r after them before each of them is read.
Unread(s, r, rest) ==
    /\ rest[1] = Then(Format!Expr(s), r)
    /\ \A i \in 1..Len(s) : rest[i + 1] \in Buffers /\ rest[i] = Then(Format!Instr(s[i]), rest[i + 1])
    /\ rest[Len(s) + 1] = r

(* Instructions can be read.                                               *)
LEMMA UnreadExists ==
    ASSUME NEW s \in Seq(Format!Instruction), NEW r \in Buffers
    PROVE  Format!Expr(s) \in Buffers /\ \E rest : Unread(s, r, rest)
  <1> DEFINE n == Len(s)
             ws == [k \in DOMAIN s |-> Format!Instr(s[k])]
  <1>1. n \in Nat /\ \A k \in 1..n : s[k] \in Format!Instruction
    OBVIOUS
  <1>2. \A k \in 1..n : Format!Instr(s[k]) \in Buffers
    BY ONLY <1>1, r \in Buffers, ReadInstr
  <1>3. ws = [k \in 1..n |-> Format!Instr(s[k])]
    OBVIOUS
  <1>4. Format!Expr(s) = FlattenSeq(ws)
    BY DEF Format!Expr, Format!FlattenSeq, FlattenSeq
  <1> HIDE DEF ws, n
  <1>5. ws \in Seq(Buffers) /\ Len(ws) = n /\ \A k \in 1..n : ws[k] = Format!Instr(s[k])
    BY ONLY <1>1, <1>2, <1>3
  <1>6. PICK rest : Reading(ws, r, rest)
    BY <1>5, VectorFacts
  <1>7. Unread(s, r, rest)
    BY ONLY <1>4, <1>5, <1>6 DEF Unread, Reading, n
  <1>8. FlattenSeq(ws) \in Buffers
    <2>1. ws \in Seq(Seq(Int))
      BY <1>5 DEF Buffers
    <2> QED
      BY <2>1, FlattenType DEF Buffers
  <1> QED
    BY ONLY <1>4, <1>7, <1>8

(* The first k instructions are read as they were written.                 *)
LEMMA PastReads ==
    ASSUME NEW s \in Seq(Format!Instruction), NEW r \in Buffers, NEW rest, Unread(s, r, rest)
    PROVE  /\ \A k \in 0..Len(s) : Past(rest[1], k) = rest[k + 1]
           /\ \A k \in 1..Len(s) : Nth(rest[1], k) = s[k]
  <1> DEFINE n == Len(s)
  <1>1. n \in Nat /\ \A k \in 1..n : s[k] \in Format!Instruction
    OBVIOUS
  <1>2. \A k \in 1..n : rest[k + 1] \in Buffers /\ rest[k] = Then(Format!Instr(s[k]), rest[k + 1])
    BY DEF Unread
  <1> HIDE DEF n
  <1>3. \A k \in 1..n : parse_instr(rest[k]) = Parsed(s[k], rest[k + 1])
    BY ONLY <1>1, <1>2, ReadInstr
  <1>4. ASSUME NEW k \in 0..n PROVE Past(rest[1], k) = rest[k + 1]
    <2> DEFINE step(f, j) == IF j = 0 THEN rest[1] ELSE parse_instr(f[j - 1]).buf
               f0 == [j \in 0..k |-> rest[j + 1]]
               f1 == CHOOSE f : f = [j \in 0..k |-> step(f, j)]
    <2>1. k \in Nat /\ \A j \in 1..k : j \in 1..n /\ j - 1 \in 0..k /\ (j - 1) + 1 = j /\ j # 0 /\ j \in 0..k
      BY ONLY <1>1, k \in 0..n
    <2>2. \A j \in 0..k : f0[j] = step(f0, j)
      <3>1. ASSUME NEW j \in 1..k PROVE f0[j] = step(f0, j)
        <4>1. f0[j - 1] = rest[j] /\ f0[j] = rest[j + 1]
          BY ONLY <2>1, j \in 1..k
        <4>2. parse_instr(rest[j]).buf = rest[j + 1]
          BY ONLY <1>3, <2>1, j \in 1..k, ParsedFields
        <4> HIDE DEF f0
        <4> QED
          BY ONLY <2>1, <4>1, <4>2, j \in 1..k
      <3>2. f0[0] = step(f0, 0)
        BY ONLY <2>1
      <3>3. \A j \in 0..k : j = 0 \/ j \in 1..k
        BY ONLY <2>1
      <3> QED
        BY ONLY <3>1, <3>2, <3>3
    <2>3. f0 = [j \in 0..k |-> f0[j]]
      OBVIOUS
    <2>4. Past(rest[1], k) = f1[k]
      BY DEF Past
    <2>5. f0[k] = rest[k + 1]
      BY ONLY <2>1
    <2> HIDE DEF step, f0, f1
    <2>6. f1 = [j \in 0..k |-> step(f1, j)]
      <3>1. f0 = [j \in 0..k |-> step(f0, j)]
        BY ONLY <2>2, <2>3
      <3> QED
        BY ONLY <3>1 DEF f1
    <2>7. Alike(k, f1, f0)
      <3>1. f1[0] = f0[0]
        <4>1. 0 \in 0..k /\ step(f1, 0) = step(f0, 0)
          BY ONLY <2>1 DEF step
        <4> QED
          BY ONLY <2>2, <2>6, <4>1
      <3>2. ASSUME NEW j \in 1..k, f1[j - 1] = f0[j - 1] PROVE f1[j] = f0[j]
        <4>1. j \in 0..k /\ step(f1, j) = step(f0, j)
          BY ONLY <2>1, <3>2 DEF step
        <4> QED
          BY ONLY <2>2, <2>6, <4>1
      <3> QED
        BY ONLY <3>1, <3>2 DEF Alike
    <2>8. \A j \in 0..k : f1[j] = f0[j]
      BY ONLY <2>1, <2>7, SameRun
    <2>9. k \in 0..k
      BY ONLY <2>1
    <2> QED
      BY ONLY <2>4, <2>5, <2>8, <2>9
  <1>5. ASSUME NEW k \in 1..n PROVE Nth(rest[1], k) = s[k]
    <2>1. k - 1 \in 0..n /\ (k - 1) + 1 = k
      BY ONLY <1>1, k \in 1..n
    <2>2. Past(rest[1], k - 1) = rest[k]
      BY ONLY <1>4, <2>1
    <2>3. parse_instr(rest[k]).val = s[k]
      BY ONLY <1>3, k \in 1..n, ParsedFields
    <2> QED
      BY ONLY <2>2, <2>3 DEF Nth
  <1> QED
    BY ONLY <1>4, <1>5 DEF n

(* Instructions take no fewer tokens than there are of them.               *)
LEMMA UnreadLength ==
    ASSUME NEW s \in Seq(Format!Instruction), NEW r \in Buffers, NEW rest, Unread(s, r, rest)
    PROVE  Len(s) <= Len(rest[1]) /\ Len(rest[1]) \in Nat /\ \A k \in 1..Len(s) : ~eof(rest[k])
  <1> DEFINE n == Len(s)
             P == {i \in Nat : i <= n => Len(rest[1]) >= Len(rest[i + 1]) + i}
  <1>1. n \in Nat /\ \A k \in 1..n : s[k] \in Format!Instruction
    OBVIOUS
  <1>2. /\ rest[1] = Then(Format!Expr(s), r) /\ rest[n + 1] = r
        /\ \A k \in 1..n : rest[k + 1] \in Buffers /\ rest[k] = Then(Format!Instr(s[k]), rest[k + 1])
    BY DEF Unread
  <1>3. Format!Expr(s) \in Buffers
    BY UnreadExists
  <1> HIDE DEF n
  <1>4. rest[1] \in Buffers
    BY ONLY <1>2, <1>3, r \in Buffers, ThenFacts
  <1>5. \A p \in Buffers : Len(p) \in Nat /\ (p # <<>> => Len(p) >= 1)
    BY DEF Buffers
  <1>6. \A p, q \in Buffers : Len(Then(p, q)) = Len(p) + Len(q)
    BY DEF Buffers, Then
  <1>7. ASSUME NEW k \in 1..n PROVE Len(rest[k]) >= Len(rest[k + 1]) + 1 /\ Len(rest[k]) \in Nat /\ ~eof(rest[k])
    <2>1. PICK p \in Buffers : p = Format!Instr(s[k]) /\ p # <<>>
      BY ONLY <1>1, k \in 1..n, r \in Buffers, ReadInstr
    <2>2. PICK q \in Buffers : q = rest[k + 1] /\ rest[k] = Then(p, q)
      BY ONLY <1>2, <2>1, k \in 1..n
    <2>3. Len(Then(p, q)) = Len(p) + Len(q) /\ Len(p) \in Nat /\ Len(q) \in Nat /\ Len(p) >= 1
      BY ONLY <1>5, <1>6, <2>1, p \in Buffers, q \in Buffers
    <2>4. ~eof(Then(p, q))
      BY ONLY <2>1, p \in Buffers, q \in Buffers, ReadFront
    <2> QED
      BY ONLY <2>2, <2>3, <2>4
  <1>8. \A k \in 0..n : rest[k + 1] \in Buffers
    <2>1. \A k \in 0..n : k = 0 \/ k \in 1..n
      BY ONLY <1>1
    <2> QED
      BY ONLY <1>2, <1>4, <2>1
  <1>9. 0 \in P
    <2>1. Len(rest[1]) \in Nat
      BY ONLY <1>4, <1>5
    <2> QED
      BY ONLY <2>1
  <1>10. ASSUME NEW i \in P PROVE i + 1 \in P
    <2>1. CASE i + 1 <= n
      <3>1. PICK j : j = i + 1
        OBVIOUS
      <3>2. j \in 1..n /\ i <= n /\ i \in 0..n /\ i \in Nat
        BY ONLY <1>1, <2>1, <3>1, i \in P
      <3>3. PICK x \in Nat : x = Len(rest[1])
        BY ONLY <1>4, <1>5
      <3>4. PICK y \in Nat : y = Len(rest[j])
        BY ONLY <1>5, <1>8, <3>1, <3>2
      <3>5. PICK z \in Nat : z = Len(rest[j + 1])
        BY ONLY <1>2, <1>5, <3>2
      <3>6. x >= y + i
        BY ONLY <3>1, <3>2, <3>3, <3>4, i \in P
      <3>7. y >= z + 1
        BY ONLY <1>7, <3>2, <3>4, <3>5
      <3>8. x >= z + j /\ j \in Nat
        BY ONLY <3>1, <3>2, <3>6, <3>7
      <3> QED
        BY ONLY <3>1, <3>3, <3>5, <3>8
    <2>2. CASE ~(i + 1 <= n)
      BY ONLY <2>2, i \in P
    <2> QED
      BY ONLY <2>1, <2>2
  <1>11. P \in SUBSET Nat
    OBVIOUS
  <1> HIDE DEF P
  <1>12. P = Nat
    BY ONLY <1>9, <1>10, <1>11, SetInduction
  <1>13. Len(rest[1]) >= Len(rest[n + 1]) + n
    <2>1. n \in P
      BY ONLY <1>1, <1>12
    <2>2. n <= n
      BY ONLY <1>1
    <2> QED
      BY ONLY <2>1, <2>2 DEF P
  <1>14. Len(rest[1]) \in Nat /\ Len(rest[n + 1]) \in Nat
    BY ONLY <1>2, <1>4, <1>5, r \in Buffers
  <1>15. n <= Len(rest[1])
    BY ONLY <1>1, <1>13, <1>14
  <1> QED
    BY ONLY <1>7, <1>14, <1>15 DEF n

(* A constant expression is read up to its End.                            *)
LEMMA ReadExpr ==
    ASSUME NEW s \in Format!Constexpr, NEW r \in Buffers
    PROVE  Format!Expr(s) \in Buffers /\ parse_expr(Then(Format!Expr(s), r)) = Parsed(s, r)
  <1>1. s \in Seq(Format!Instruction) /\ Len(s) = 2 /\ s[1].op \in Consts /\ s[2].op = End
    BY SameOpcodes DEF Format!Constexpr
  <1>2. s[1].op # End
    BY <1>1, ConstIsNoEnd
  <1>3. PICK rest : Unread(s, r, rest)
    BY <1>1, UnreadExists
  <1>4. PICK b : b = rest[1]
    OBVIOUS
  <1>5. b = Then(Format!Expr(s), r) /\ rest[3] = r
    BY ONLY <1>1, <1>3, <1>4 DEF Unread
  <1>6. Nth(b, 1) = s[1] /\ Nth(b, 2) = s[2] /\ Past(b, 2) = r
    <2>1. 1 \in 1..2 /\ 2 \in 1..2 /\ 2 \in 0..2 /\ 2 + 1 = 3
      OBVIOUS
    <2>2. /\ \A k \in 0..Len(s) : Past(rest[1], k) = rest[k + 1]
          /\ \A k \in 1..Len(s) : Nth(rest[1], k) = s[k]
      BY <1>1, <1>3, PastReads
    <2> QED
      BY ONLY <1>1, <1>4, <1>5, <2>1, <2>2
  <1>7. Len(b) \in Nat /\ 2 <= Len(b)
    BY <1>1, <1>3, <1>4, UnreadLength
  <1> DEFINE First(k) == Nth(b, k).op = End /\ \A j \in 1..(k - 1) : Nth(b, j).op # End
             n == CHOOSE k \in 1..Len(b) : First(k)
  <1>8. First(2) /\ 2 \in 1..Len(b)
    <2>1. \A j \in 1..(2 - 1) : j = 1
      OBVIOUS
    <2> QED
      BY ONLY <1>1, <1>2, <1>6, <1>7, <2>1
  <1>9. ASSUME NEW k \in 1..Len(b), First(k) PROVE k = 2
    <2>1. k # 1
      BY ONLY <1>2, <1>6, <1>9
    <2>2. k > 2 => 2 \in 1..(k - 1)
      BY ONLY <1>7, k \in 1..Len(b)
    <2>3. ~(k > 2)
      BY ONLY <1>1, <1>6, <1>9, <2>2
    <2> QED
      BY ONLY <1>7, <2>1, <2>3, k \in 1..Len(b)
  <1>10. parse_expr(b) = Parsed([k \in 1..n |-> Nth(b, k)], Past(b, n))
    BY DEF parse_expr
  <1> HIDE DEF First
  <1>11. n = 2
    BY ONLY <1>8, <1>9
  <1> HIDE DEF n
  <1>12. [k \in 1..2 |-> Nth(b, k)] = s
    <2>1. \A k \in 1..2 : k = 1 \/ k = 2
      OBVIOUS
    <2>2. s = [k \in 1..2 |-> s[k]]
      BY <1>1
    <2>3. \A k \in 1..2 : Nth(b, k) = s[k]
      BY ONLY <1>6, <2>1
    <2> QED
      BY ONLY <2>2, <2>3
  <1>13. Format!Expr(s) \in Buffers
    BY <1>1, UnreadExists
  <1> QED
    BY ONLY <1>5, <1>6, <1>10, <1>11, <1>12, <1>13

----------------------------------------------------------------------------
(* What sections consist of                                                *)

(* Two tokens are one and one.                                             *)
LEMMA TwoTokens == \A a, b \in Int : <<a, b>> \in Buffers /\ <<a, b>> = Then(<<a>>, <<b>>)
  <1> SUFFICES ASSUME NEW a \in Int, NEW b \in Int PROVE <<a, b>> \in Buffers /\ <<a, b>> = Then(<<a>>, <<b>>)
    OBVIOUS
  <1>1. <<a, b>> \in Seq(Int)
    OBVIOUS
  <1>2. <<a, b>> = <<a>> \o <<b>>
    <2>1. /\ <<a>> \o <<b>> \in Seq(Int) /\ Len(<<a>> \o <<b>>) = 2
          /\ (<<a>> \o <<b>>)[1] = a /\ (<<a>> \o <<b>>)[2] = b
      OBVIOUS
    <2>2. Len(<<a, b>>) = 2 /\ <<a, b>>[1] = a /\ <<a, b>>[2] = b /\ \A i \in 1..2 : i = 1 \/ i = 2
      OBVIOUS
    <2> QED
      BY <1>1, <2>1, <2>2, ST!SeqEqual
  <1> QED
    BY ONLY <1>1, <1>2 DEF Buffers, Then

(* Sequences of numbers are buffers.                                       *)
LEMMA NumbersAreBuffers == \A s \in Seq(Nat) : s \in Seq(Int) /\ s \in Buffers
  BY DEF Buffers

(* The flattening of sequences of one element each.                        *)
LEMMA FlattenUnits ==
    ASSUME NEW s \in Seq(Int)
    PROVE  FlattenSeq([k \in DOMAIN s |-> <<s[k]>>]) = s
  <1> DEFINE units(t) == [k \in DOMAIN t |-> <<t[k]>>]
             P == {t \in Seq(Int) : FlattenSeq(units(t)) = t}
  <1>1. \A t \in Seq(Int) : units(t) \in Seq(Seq(Int))
    <2> SUFFICES ASSUME NEW t \in Seq(Int) PROVE units(t) \in Seq(Seq(Int))
      OBVIOUS
    <2>1. Len(t) \in Nat /\ DOMAIN t = 1..Len(t) /\ \A k \in 1..Len(t) : t[k] \in Int
      OBVIOUS
    <2>2. \A x \in Int : <<x>> \in Seq(Int)
      OBVIOUS
    <2>3. units(t) = [k \in 1..Len(t) |-> <<t[k]>>] /\ \A k \in 1..Len(t) : <<t[k]>> \in Seq(Int)
      BY ONLY <2>1, <2>2
    <2> HIDE DEF units
    <2> QED
      BY ONLY <2>1, <2>3
  <1>2. \A t \in Seq(Int), e \in Int : units(Append(t, e)) = Append(units(t), <<e>>)
    <2> SUFFICES ASSUME NEW t \in Seq(Int), NEW e \in Int
                 PROVE  units(Append(t, e)) = Append(units(t), <<e>>)
      OBVIOUS
    <2>1. Len(t) \in Nat /\ DOMAIN t = 1..Len(t)
      OBVIOUS
    <2>2. units(Append(t, e)) = [k \in 1..(Len(t) + 1) |-> <<Append(t, e)[k]>>]
      OBVIOUS
    <2>3. Append(units(t), <<e>>) = [k \in 1..(Len(t) + 1) |-> Append(units(t), <<e>>)[k]]
      OBVIOUS
    <2>4. ASSUME NEW k \in 1..(Len(t) + 1) PROVE <<Append(t, e)[k]>> = Append(units(t), <<e>>)[k]
      <3>1. CASE k = Len(t) + 1
        BY <2>1, <3>1
      <3>2. CASE k # Len(t) + 1
        <4>1. k \in 1..Len(t)
          BY <2>1, <3>2
        <4>2. Append(t, e)[k] = t[k] /\ Append(units(t), <<e>>)[k] = units(t)[k] /\ units(t)[k] = <<t[k]>>
          BY <2>1, <4>1
        <4> QED
          BY <4>2
      <3> QED
        BY <3>1, <3>2
    <2> HIDE DEF units
    <2> QED
      BY ONLY <2>2, <2>3, <2>4
  <1>3. units(<<>>) = <<>> /\ <<>> \in Seq(Int)
    OBVIOUS
  <1> HIDE DEF units
  <1>4. SubSeq(s, 1, 0) \in P
    <2>1. SubSeq(s, 1, 0) = <<>>
      OBVIOUS
    <2> QED
      BY ONLY <1>3, <2>1, FlattenEmpty
  <1>5. ASSUME NEW k \in 0..(Len(s) - 1), SubSeq(s, 1, k) \in P
        PROVE  Append(SubSeq(s, 1, k), s[k + 1]) \in P
    <2>1. PICK t \in Seq(Int) : t = SubSeq(s, 1, k) /\ FlattenSeq(units(t)) = t
      BY <1>5
    <2>2. PICK e \in Int : e = s[k + 1]
      OBVIOUS
    <2>3. <<e>> \in Seq(Int) /\ Append(t, e) = t \o <<e>> /\ Append(t, e) \in Seq(Int)
      BY <2>1
    <2>4. FlattenSeq(Append(units(t), <<e>>)) = FlattenSeq(units(t)) \o <<e>>
      BY <1>1, <2>1, <2>3, FlattenSnoc
    <2>5. FlattenSeq(units(Append(t, e))) = Append(t, e)
      BY ONLY <1>2, <2>1, <2>3, <2>4, t \in Seq(Int), e \in Int
    <2>6. Append(t, e) \in P
      BY ONLY <2>3, <2>5
    <2> QED
      BY ONLY <2>1, <2>2, <2>6
  <1> HIDE DEF P
  <1>6. s \in P
    BY <1>4, <1>5, PrefixInduction
  <1> QED
    BY <1>6 DEF P, units

(* A name, and a string.                                                   *)
LEMMA ReadName ==
    \A s \in Seq(Int), r \in Buffers :
        /\ Format!Name(s) \in Buffers
        /\ readname(Then(Format!Name(s), r)) = Parsed(s, r)
        /\ parse_vec(parse_valtype, Then(Format!Name(s), r)) = Parsed(s, r)
  <1> SUFFICES ASSUME NEW s \in Seq(Int), NEW r \in Buffers
               PROVE  /\ Format!Name(s) \in Buffers
                      /\ readname(Then(Format!Name(s), r)) = Parsed(s, r)
                      /\ parse_vec(parse_valtype, Then(Format!Name(s), r)) = Parsed(s, r)
    OBVIOUS
  <1>1. \A b : readname(b) = parse_vec(parse_typeidx, b) /\ parse_vec(parse_valtype, b) = parse_vec(parse_typeidx, b)
    BY DEF readname, parse_vec, parse_valtype
  <1>2. Format!Vec(Format!Index, s) = <<Len(s)>> \o FlattenSeq([k \in DOMAIN s |-> <<s[k]>>])
    BY DEF Format!Vec, Format!FlattenSeq, FlattenSeq, Format!Index
  <1>3. FlattenSeq([k \in DOMAIN s |-> <<s[k]>>]) = s
    BY FlattenUnits
  <1>4. Format!Name(s) = Format!Vec(Format!Index, s)
    BY ONLY <1>2, <1>3 DEF Format!Name
  <1>5. /\ Format!Vec(Format!Index, s) \in Buffers
        /\ parse_vec(parse_typeidx, Then(Format!Vec(Format!Index, s), r)) = Parsed(s, r)
    BY ReadIndexes
  <1> QED
    BY ONLY <1>1, <1>4, <1>5

\* The elements of each section; of segments those as they can be written, those of them that are
\* active, and what is read of any.
Types         == [rt1 : Seq(Nat), rt2 : Seq(Nat)]
ImportsRead   == [mod : Seq(Nat), nm : Seq(Nat), kind : Nat, idx : Nat]
MemoryTypes   == {t \in [kind : {0, 1}, min : Nat, max : Nat] : t.kind = 0 => t.max = 0}
GlobalInits   == [ty : Nat, m : Nat, expr : Format!Constexpr]
Exports       == [name : Seq(Nat), kind : Nat, idx : Nat]
LocalGroups   == [num : Nat, ty : Nat]
Bodies        == [locals : Seq(LocalGroups), expr : Seq(Format!Instruction)]
AnyData       == {d \in [kind : Nat, expr : Seq(Format!Instruction), data : Seq(Int)] :
                     d.kind = 0 => d.expr \in Format!Constexpr /\ d.data \in Seq(Nat)}
ActiveData    == [kind : {0}, expr : Format!Constexpr, data : Seq(Nat)]
SegmentsRead  == {d \in [kind : Nat, expr : Seq(Format!Instruction), data : Seq(Nat)] :
                     d.kind = 0 => d \in ActiveData}

\* What is read of an import and of a segment, and what becomes of a segment.
ImportHead(e) == Format!Name(e.mod) \o Format!Name(e.nm) \o <<e.kind, e.idx>>
DataHead(e)   == IF e.kind = 0 THEN Format!Data(e) ELSE <<e.kind>>
Kept(e)       == IF e.kind = 0 THEN e ELSE [kind |-> e.kind, expr |-> <<>>, data |-> <<>>]

(* The type of a function.                                                 *)
LEMMA ReadType ==
    \A e \in Types, r \in Buffers :
        Format!Type(e) \in Buffers /\ parse_functype(Then(Format!Type(e), r)) = Parsed(e, r)
  <1> SUFFICES ASSUME NEW e \in Types, NEW r \in Buffers
               PROVE  Format!Type(e) \in Buffers /\ parse_functype(Then(Format!Type(e), r)) = Parsed(e, r)
    OBVIOUS
  <1>1. e.rt1 \in Seq(Nat) /\ e.rt2 \in Seq(Nat) /\ e = [rt1 |-> e.rt1, rt2 |-> e.rt2]
    BY DEF Types
  <1>2. PICK x \in Buffers : x = e.rt1 /\ x \in Seq(Int) /\ Len(x) \in Int
    BY <1>1, NumbersAreBuffers
  <1>3. PICK y \in Buffers : y = e.rt2 /\ y \in Seq(Int) /\ Len(y) \in Int
    BY <1>1, NumbersAreBuffers
  <1>4. PICK a \in Buffers : a = Format!Name(x)
    BY ONLY <1>2, r \in Buffers, ReadName
  <1>5. PICK b \in Buffers : b = Format!Name(y)
    BY ONLY <1>3, r \in Buffers, ReadName
  <1>6. PICK c : c = \h60
    OBVIOUS
  <1>7. c \in Int /\ <<c>> \in Buffers /\ Len(<<c>>) = 1
    BY <1>6, OneToken
  <1>8. Format!Type(e) = Then(<<c>>, Then(a, b))
    <2>1. PICK i \in Int : i = Len(x)
      BY ONLY <1>2
    <2>2. PICK j \in Int : j = Len(y)
      BY ONLY <1>3
    <2>3. Format!Type(e) = Then(Then(Then(<<c, i>>, x), <<j>>), y) /\ a = Then(<<i>>, x) /\ b = Then(<<j>>, y)
      BY ONLY <1>2, <1>3, <1>4, <1>5, <1>6, <2>1, <2>2 DEF Format!Type, Format!Name, Then
    <2>4. PICK k \in Buffers : k = <<i>>
      BY ONLY i \in Int, OneToken
    <2>5. PICK l \in Buffers : l = <<j>>
      BY ONLY j \in Int, OneToken
    <2>6. PICK d \in Buffers : d = <<c>>
      BY ONLY <1>7
    <2>8. d \in Buffers /\ <<c, i>> = Then(d, k)
      <3>1. <<c, i>> = Then(<<c>>, <<i>>)
        BY ONLY <1>7, i \in Int, TwoTokens
      <3>2. Then(<<c>>, <<i>>) = Then(d, k)
        BY ONLY <2>4, <2>6, Zenon
      <3> QED
        BY ONLY <2>6, <3>1, <3>2, Zenon
    <2>7. Then(Then(Then(Then(d, k), x), l), y) = Then(d, Then(Then(k, x), Then(l, y)))
      <3>1. PICK u : u = Then(k, x)
        OBVIOUS
      <3>2. u \in Buffers /\ Then(Then(d, k), x) = Then(d, u)
        BY ONLY <2>8, <3>1, k \in Buffers, x \in Buffers, ThenFacts
      <3>3. Then(Then(Then(d, u), l), y) = Then(d, Then(u, Then(l, y)))
        BY ONLY <2>8, <3>2, l \in Buffers, y \in Buffers, ThenFacts
      <3> QED
        BY ONLY <3>1, <3>2, <3>3
    <2> QED
      BY ONLY <2>3, <2>4, <2>5, <2>6, <2>7, <2>8
  <1>9. PICK d \in Buffers : d = <<c>> /\ Len(d) = 1
    BY ONLY <1>7
  <1>10. Then(Then(d, Then(a, b)), r) = Then(d, Then(a, Then(b, r))) /\ Then(b, r) \in Buffers
         /\ Then(a, Then(b, r)) \in Buffers /\ Then(d, Then(a, b)) \in Buffers
    BY ONLY d \in Buffers, a \in Buffers, b \in Buffers, r \in Buffers, ThenFacts
  <1>11. Skip(Then(d, Then(a, Then(b, r))), 1) = Then(a, Then(b, r))
    BY ONLY <1>9, <1>10, d \in Buffers, ReadToken
  <1>12. parse_vec(parse_valtype, Then(a, Then(b, r))) = Parsed(x, Then(b, r))
    BY ONLY <1>2, <1>4, <1>10, ReadName
  <1>13. parse_vec(parse_valtype, Then(b, r)) = Parsed(y, r)
    BY ONLY <1>3, <1>5, r \in Buffers, ReadName
  <1>14. parse_functype(Then(d, Then(a, Then(b, r)))) = Parsed([rt1 |-> x, rt2 |-> y], r)
    BY ONLY <1>11, <1>12, <1>13, ParsedFields DEF parse_functype
  <1> QED
    BY ONLY <1>1, <1>2, <1>3, <1>8, <1>9, <1>10, <1>14

(* An import, as far as it is read.                                        *)
LEMMA ReadImport ==
    \A e \in ImportsRead, r \in Buffers :
        ImportHead(e) \in Buffers /\ parse_import(Then(ImportHead(e), r)) = Parsed(e, r)
  <1> SUFFICES ASSUME NEW e \in ImportsRead, NEW r \in Buffers
               PROVE  ImportHead(e) \in Buffers /\ parse_import(Then(ImportHead(e), r)) = Parsed(e, r)
    OBVIOUS
  <1>1. /\ e.mod \in Seq(Nat) /\ e.nm \in Seq(Nat) /\ e.kind \in Int /\ e.idx \in Int
        /\ e = [mod |-> e.mod, nm |-> e.nm, kind |-> e.kind, idx |-> e.idx]
    BY DEF ImportsRead
  <1>2. PICK x \in Seq(Int) : x = e.mod
    BY <1>1, NumbersAreBuffers
  <1>3. PICK y \in Seq(Int) : y = e.nm
    BY <1>1, NumbersAreBuffers
  <1>4. PICK a \in Buffers : a = Format!Name(x)
    BY ONLY <1>2, x \in Seq(Int), r \in Buffers, ReadName
  <1>5. PICK b \in Buffers : b = Format!Name(y)
    BY ONLY <1>3, y \in Seq(Int), r \in Buffers, ReadName
  <1>6. PICK i \in Int : i = e.idx
    BY <1>1
  <1>14. PICK d \in Int : d = e.kind
    BY <1>1
  <1>7. /\ <<d, i>> \in Buffers
        /\ Token(Then(<<d, i>>, r), 1) = d /\ Token(Then(<<d, i>>, r), 2) = i /\ Skip(Then(<<d, i>>, r), 2) = r
    BY ReadTwo
  <1>8. PICK p \in Buffers : p = <<d, i>>
    BY ONLY <1>7
  <1>9. ImportHead(e) = Then(a, Then(b, p))
    <2>1. ImportHead(e) = Then(Then(a, b), p)
      BY ONLY <1>2, <1>3, <1>4, <1>5, <1>6, <1>8, <1>14 DEF ImportHead, Then
    <2>2. Then(Then(a, b), p) = Then(a, Then(b, p))
      BY ONLY a \in Buffers, b \in Buffers, p \in Buffers, ThenFacts
    <2> QED
      BY ONLY <2>1, <2>2
  <1>10. /\ Then(a, Then(b, p)) \in Buffers /\ Then(p, r) \in Buffers /\ Then(b, Then(p, r)) \in Buffers
         /\ Then(Then(a, Then(b, p)), r) = Then(a, Then(b, Then(p, r)))
    BY ONLY a \in Buffers, b \in Buffers, p \in Buffers, r \in Buffers, ThenFacts
  <1>11. readname(Then(a, Then(b, Then(p, r)))) = Parsed(x, Then(b, Then(p, r)))
    BY ONLY <1>4, <1>10, x \in Seq(Int), ReadName
  <1>12. readname(Then(b, Then(p, r))) = Parsed(y, Then(p, r))
    BY ONLY <1>5, <1>10, y \in Seq(Int), ReadName
  <1>13. parse_import(Then(a, Then(b, Then(p, r)))) = Parsed([mod |-> x, nm |-> y, kind |-> d, idx |-> i], r)
    BY ONLY <1>7, <1>8, <1>11, <1>12, ParsedFields DEF parse_import
  <1> QED
    BY ONLY <1>1, <1>2, <1>3, <1>6, <1>9, <1>10, <1>13, <1>14

(* A memory.                                                               *)
LEMMA ReadMem ==
    \A e \in MemoryTypes, r \in Buffers :
        Format!Mem(e) \in Buffers /\ parse_mem(Then(Format!Mem(e), r)) = Parsed(e, r)
  <1> SUFFICES ASSUME NEW e \in MemoryTypes, NEW r \in Buffers
               PROVE  Format!Mem(e) \in Buffers /\ parse_mem(Then(Format!Mem(e), r)) = Parsed(e, r)
    OBVIOUS
  <1>1. /\ e.kind \in {0, 1} /\ e.min \in Int /\ e.max \in Int
        /\ e.kind = 0 => e.max = 0
        /\ e = [kind |-> e.kind, min |-> e.min, max |-> e.max]
    BY DEF MemoryTypes
  <1>2. PICK a \in Int : a = e.min
    BY <1>1
  <1>3. PICK b \in Int : b = e.max
    BY <1>1
  <1>4. CASE e.kind = 0
    <2>1. Format!Mem(e) = <<0, a>>
      <3>1. Format!Mem(e) = <<0, a>> \o <<>>
        BY <1>2, <1>4 DEF Format!Mem
      <3>2. <<0, a>> \o <<>> = <<0, a>>
        OBVIOUS
      <3> QED
        BY ONLY <3>1, <3>2
    <2>2. /\ <<0, a>> \in Buffers
          /\ Token(Then(<<0, a>>, r), 1) = 0 /\ Token(Then(<<0, a>>, r), 2) = a /\ Skip(Then(<<0, a>>, r), 2) = r
      BY ReadTwo
    <2>3. parse_mem(Then(<<0, a>>, r)) = Parsed([kind |-> 0, min |-> a, max |-> 0], r)
      BY ONLY <2>2 DEF parse_mem
    <2>4. e = [kind |-> 0, min |-> a, max |-> 0]
      BY <1>1, <1>2, <1>4
    <2> QED
      BY ONLY <2>1, <2>2, <2>3, <2>4
  <1>5. CASE e.kind = 1
    <2>1. Format!Mem(e) = <<1, a, b>>
      <3>1. Format!Mem(e) = <<1, a>> \o <<b>>
        BY <1>2, <1>3, <1>5 DEF Format!Mem
      <3>2. <<1, a>> \o <<b>> = <<1, a, b>>
        <4>1. /\ <<1, a>> \o <<b>> \in Seq(Int) /\ Len(<<1, a>> \o <<b>>) = 3
              /\ (<<1, a>> \o <<b>>)[1] = 1 /\ (<<1, a>> \o <<b>>)[2] = a /\ (<<1, a>> \o <<b>>)[3] = b
          OBVIOUS
        <4>2. /\ <<1, a, b>> \in Seq(Int) /\ Len(<<1, a, b>>) = 3
              /\ <<1, a, b>>[1] = 1 /\ <<1, a, b>>[2] = a /\ <<1, a, b>>[3] = b
          OBVIOUS
        <4>3. \A i \in 1..3 : i = 1 \/ i = 2 \/ i = 3
          OBVIOUS
        <4> QED
          BY <4>1, <4>2, <4>3, ST!SeqEqual
      <3> QED
        BY ONLY <3>1, <3>2
    <2>2. /\ <<1, a, b>> \in Buffers
          /\ Token(Then(<<1, a, b>>, r), 1) = 1 /\ Token(Then(<<1, a, b>>, r), 2) = a
          /\ Token(Then(<<1, a, b>>, r), 3) = b /\ Skip(Then(<<1, a, b>>, r), 3) = r
      BY ReadThree
    <2>3. parse_mem(Then(<<1, a, b>>, r)) = Parsed([kind |-> 1, min |-> a, max |-> b], r)
      BY ONLY <2>2 DEF parse_mem
    <2>4. e = [kind |-> 1, min |-> a, max |-> b]
      BY <1>1, <1>2, <1>3, <1>5
    <2> QED
      BY ONLY <2>1, <2>2, <2>3, <2>4
  <1> QED
    BY ONLY <1>1, <1>4, <1>5

(* A global.                                                               *)
LEMMA ReadGlobal ==
    \A e \in GlobalInits, r \in Buffers :
        Format!Global(e) \in Buffers /\ parse_global(Then(Format!Global(e), r)) = Parsed(e, r)
  <1> SUFFICES ASSUME NEW e \in GlobalInits, NEW r \in Buffers
               PROVE  Format!Global(e) \in Buffers /\ parse_global(Then(Format!Global(e), r)) = Parsed(e, r)
    OBVIOUS
  <1>1. e.ty \in Int /\ e.m \in Int /\ e.expr \in Format!Constexpr /\ e = [ty |-> e.ty, m |-> e.m, expr |-> e.expr]
    BY DEF GlobalInits
  <1>2. PICK a \in Int : a = e.ty
    BY <1>1
  <1>3. PICK b \in Int : b = e.m
    BY <1>1
  <1>4. PICK s \in Format!Constexpr : s = e.expr
    BY ONLY <1>1
  <1>5. PICK x \in Buffers : x = Format!Expr(s) /\ parse_expr(Then(x, r)) = Parsed(s, r)
    BY ReadExpr
  <1>6. Then(x, r) \in Buffers
    BY ONLY x \in Buffers, r \in Buffers, ThenFacts
  <1>7. /\ <<a, b>> \in Buffers
        /\ Token(Then(<<a, b>>, Then(x, r)), 1) = a /\ Token(Then(<<a, b>>, Then(x, r)), 2) = b
        /\ Skip(Then(<<a, b>>, Then(x, r)), 2) = Then(x, r)
    BY ONLY <1>6, a \in Int, b \in Int, ReadTwo
  <1>8. PICK p \in Buffers : p = <<a, b>>
    BY ONLY <1>7
  <1>9. Format!Global(e) = Then(p, x)
    BY ONLY <1>2, <1>3, <1>4, <1>5, <1>8 DEF Format!Global, Then
  <1>10. Then(p, x) \in Buffers /\ Then(Then(p, x), r) = Then(p, Then(x, r))
    BY ONLY p \in Buffers, x \in Buffers, r \in Buffers, ThenFacts
  <1>11. parse_global(Then(p, Then(x, r))) = Parsed([ty |-> a, m |-> b, expr |-> s], r)
    BY ONLY <1>5, <1>7, <1>8, ParsedFields DEF parse_global
  <1> QED
    BY ONLY <1>1, <1>2, <1>3, <1>4, <1>9, <1>10, <1>11

(* An export.                                                              *)
LEMMA ReadExport ==
    \A e \in Exports, r \in Buffers :
        Format!Export(e) \in Buffers /\ parse_export(Then(Format!Export(e), r)) = Parsed(e, r)
  <1> SUFFICES ASSUME NEW e \in Exports, NEW r \in Buffers
               PROVE  Format!Export(e) \in Buffers /\ parse_export(Then(Format!Export(e), r)) = Parsed(e, r)
    OBVIOUS
  <1>1. e.name \in Seq(Nat) /\ e.kind \in Int /\ e.idx \in Int /\ e = [name |-> e.name, kind |-> e.kind, idx |-> e.idx]
    BY DEF Exports
  <1>2. PICK a \in Int : a = e.kind
    BY <1>1
  <1>3. PICK b \in Int : b = e.idx
    BY <1>1
  <1>4. PICK s \in Seq(Int) : s = e.name
    BY <1>1, NumbersAreBuffers
  <1>5. PICK x \in Buffers : x = Format!Name(s)
    BY ONLY s \in Seq(Int), r \in Buffers, ReadName
  <1>6. /\ <<a, b>> \in Buffers
        /\ Token(Then(<<a, b>>, r), 1) = a /\ Token(Then(<<a, b>>, r), 2) = b /\ Skip(Then(<<a, b>>, r), 2) = r
    BY ONLY a \in Int, b \in Int, r \in Buffers, ReadTwo
  <1>7. PICK p \in Buffers : p = <<a, b>>
    BY ONLY <1>6
  <1>8. Format!Export(e) = Then(x, p)
    BY ONLY <1>2, <1>3, <1>4, <1>5, <1>7 DEF Format!Export, Then
  <1>9. Then(x, p) \in Buffers /\ Then(Then(x, p), r) = Then(x, Then(p, r)) /\ Then(p, r) \in Buffers
    BY ONLY p \in Buffers, x \in Buffers, r \in Buffers, ThenFacts
  <1>10. readname(Then(x, Then(p, r))) = Parsed(s, Then(p, r))
    BY ONLY <1>5, <1>9, s \in Seq(Int), ReadName
  <1>11. parse_export(Then(x, Then(p, r))) = Parsed([name |-> s, kind |-> a, idx |-> b], r)
    BY ONLY <1>6, <1>7, <1>10, ParsedFields DEF parse_export
  <1> QED
    BY ONLY <1>1, <1>2, <1>3, <1>4, <1>8, <1>9, <1>11

(* Locals of one type.                                                     *)
LEMMA ReadLocal ==
    \A e \in LocalGroups, r \in Buffers :
        Format!Local(e) \in Buffers /\ parse_locals(Then(Format!Local(e), r)) = Parsed(e, r)
  <1> SUFFICES ASSUME NEW e \in LocalGroups, NEW r \in Buffers
               PROVE  Format!Local(e) \in Buffers /\ parse_locals(Then(Format!Local(e), r)) = Parsed(e, r)
    OBVIOUS
  <1>1. e.num \in Int /\ e.ty \in Int /\ e = [num |-> e.num, ty |-> e.ty]
    BY DEF LocalGroups
  <1>2. PICK a \in Int : a = e.num
    BY <1>1
  <1>3. PICK b \in Int : b = e.ty
    BY <1>1
  <1>4. /\ <<a, b>> \in Buffers
        /\ Token(Then(<<a, b>>, r), 1) = a /\ Token(Then(<<a, b>>, r), 2) = b /\ Skip(Then(<<a, b>>, r), 2) = r
    BY ONLY a \in Int, b \in Int, r \in Buffers, ReadTwo
  <1>5. Format!Local(e) = <<a, b>>
    BY ONLY <1>2, <1>3 DEF Format!Local
  <1>6. parse_locals(Then(<<a, b>>, r)) = Parsed([num |-> a, ty |-> b], r)
    BY ONLY <1>4 DEF parse_locals
  <1> QED
    BY ONLY <1>1, <1>2, <1>3, <1>4, <1>5, <1>6

(* A segment that is active.                                               *)
LEMMA ReadActive ==
    \A e \in ActiveData, r \in Buffers :
        Format!Data(e) \in Buffers /\ parse_data(Then(Format!Data(e), r)) = Parsed(e, r)
  <1> SUFFICES ASSUME NEW e \in ActiveData, NEW r \in Buffers
               PROVE  Format!Data(e) \in Buffers /\ parse_data(Then(Format!Data(e), r)) = Parsed(e, r)
    OBVIOUS
  <1>1. /\ e.kind = 0 /\ e.expr \in Format!Constexpr /\ e.data \in Seq(Nat)
        /\ e = [kind |-> 0, expr |-> e.expr, data |-> e.data]
    BY DEF ActiveData
  <1>2. PICK s \in Format!Constexpr : s = e.expr
    BY ONLY <1>1
  <1>3. PICK t \in Seq(Int) : t = e.data
    BY <1>1, NumbersAreBuffers
  <1>4. PICK y \in Buffers : y = Format!Name(t) /\ parse_vec(parse_valtype, Then(y, r)) = Parsed(t, r)
    BY ONLY t \in Seq(Int), r \in Buffers, ReadName
  <1>5. PICK z \in Buffers : z = Then(y, r)
    BY ONLY y \in Buffers, r \in Buffers, ThenFacts
  <1>12. PICK x : x = Format!Expr(s)
    OBVIOUS
  <1>6. x \in Buffers /\ parse_expr(Then(x, z)) = Parsed(s, z)
    BY ONLY <1>12, z \in Buffers, s \in Format!Constexpr, ReadExpr
  <1>13. PICK p : p = <<0>>
    OBVIOUS
  <1>7. p \in Buffers /\ Len(p) = 1 /\ p[1] = 0
    <2>1. 0 \in Int
      OBVIOUS
    <2> QED
      BY ONLY <1>13, <2>1, OneToken
  <1>8. Format!Data(e) = Then(Then(p, x), y)
    BY ONLY <1>1, <1>2, <1>3, <1>4, <1>12, <1>13 DEF Format!Data, Then
  <1>9. /\ Then(Then(p, x), y) \in Buffers /\ Then(x, Then(y, r)) \in Buffers
        /\ Then(Then(Then(p, x), y), r) = Then(p, Then(x, Then(y, r)))
    BY ONLY <1>7, <1>6, y \in Buffers, r \in Buffers, ThenFacts
  <1>10. /\ Token(Then(p, Then(x, Then(y, r))), 1) = 0
         /\ Skip(Then(p, Then(x, Then(y, r))), 1) = Then(x, Then(y, r))
    BY ONLY <1>7, <1>9, ReadToken
  <1>11. parse_data(Then(p, Then(x, Then(y, r)))) = Parsed([kind |-> 0, expr |-> s, data |-> t], r)
    BY ONLY <1>4, <1>5, <1>6, <1>10, ParsedFields DEF parse_data
  <1> QED
    BY ONLY <1>1, <1>2, <1>3, <1>8, <1>9, <1>11

(* A segment, as far as it is read.                                        *)
LEMMA ReadData ==
    \A e \in AnyData, r \in Buffers :
        DataHead(e) \in Buffers /\ parse_data(Then(DataHead(e), r)) = Parsed(Kept(e), r)
  <1> SUFFICES ASSUME NEW e \in AnyData, NEW r \in Buffers
               PROVE  DataHead(e) \in Buffers /\ parse_data(Then(DataHead(e), r)) = Parsed(Kept(e), r)
    OBVIOUS
  <1>1. CASE e.kind = 0
    <2>1. e \in ActiveData
      BY <1>1 DEF AnyData, ActiveData
    <2> QED
      BY ONLY <1>1, <2>1, r \in Buffers, ReadActive DEF DataHead, Kept
  <1>2. CASE e.kind # 0
    <2>1. PICK i \in Int : i = e.kind
      BY DEF AnyData
    <2>2. PICK p : p = <<i>>
      OBVIOUS
    <2>3. p \in Buffers /\ Len(p) = 1 /\ p[1] = i
      BY ONLY <2>2, i \in Int, OneToken
    <2>4. Token(Then(p, r), 1) = i /\ Skip(Then(p, r), 1) = r
      BY ONLY <2>3, r \in Buffers, ReadToken
    <2>5. DataHead(e) = p /\ Kept(e) = [kind |-> i, expr |-> <<>>, data |-> <<>>]
      BY ONLY <1>2, <2>1, <2>2 DEF DataHead, Kept
    <2>6. parse_data(Then(p, r)) = Parsed([kind |-> i, expr |-> <<>>, data |-> <<>>], r)
      BY ONLY <1>2, <2>1, <2>4 DEF parse_data
    <2> QED
      BY ONLY <2>3, <2>5, <2>6
  <1> QED
    BY ONLY <1>1, <1>2

(* What is kept of a segment.                                              *)
LEMMA KeptType == \A e \in AnyData : Kept(e) \in SegmentsRead
  <1> SUFFICES ASSUME NEW e \in AnyData PROVE Kept(e) \in SegmentsRead
    OBVIOUS
  <1>1. CASE e.kind = 0
    <2>1. Kept(e) = e
      BY ONLY <1>1 DEF Kept
    <2>2. e \in ActiveData /\ e \in [kind : Nat, expr : Seq(Format!Instruction), data : Seq(Nat)]
      BY <1>1 DEF AnyData, ActiveData
    <2> QED
      BY ONLY <2>1, <2>2 DEF SegmentsRead
  <1>2. CASE e.kind # 0
    <2>1. Kept(e) = [kind |-> e.kind, expr |-> <<>>, data |-> <<>>]
      BY ONLY <1>2 DEF Kept
    <2>2. e.kind \in Nat
      BY DEF AnyData
    <2>3. \A X : <<>> \in Seq(X)
      OBVIOUS
    <2>4. [kind |-> e.kind, expr |-> <<>>, data |-> <<>>] \in [kind : Nat, expr : Seq(Format!Instruction), data : Seq(Nat)]
      BY ONLY <2>2, <2>3
    <2> QED
      BY ONLY <1>2, <2>1, <2>4 DEF SegmentsRead
  <1> QED
    BY ONLY <1>1, <1>2

(* The locals of a function.                                               *)
LEMMA ReadLocals ==
    ASSUME NEW s \in Seq(LocalGroups), NEW r \in Buffers
    PROVE  /\ Format!Vec(Format!Local, s) \in Buffers
           /\ parse_vec(parse_locals, Then(Format!Vec(Format!Local, s), r)) = Parsed(s, r)
  <1> DEFINE n == Len(s)
             ws == [k \in DOMAIN s |-> Format!Local(s[k])]
  <1>1. n \in Nat /\ \A k \in 1..n : s[k] \in LocalGroups
    OBVIOUS
  <1>2. \A k \in 1..n : Format!Local(s[k]) \in Buffers
    BY ONLY <1>1, r \in Buffers, ReadLocal
  <1>3. ws = [k \in 1..n |-> Format!Local(s[k])]
    OBVIOUS
  <1>4. Format!Vec(Format!Local, s) = Then(<<n>>, FlattenSeq(ws))
    BY DEF Format!Vec, Format!FlattenSeq, FlattenSeq, Then
  <1> HIDE DEF ws, n
  <1>5. ws \in Seq(Buffers) /\ Len(ws) = n /\ \A k \in 1..n : ws[k] = Format!Local(s[k])
    BY ONLY <1>1, <1>2, <1>3
  <1>6. Format!Vec(Format!Local, s) = Vector(ws)
    BY ONLY <1>4, <1>5 DEF Vector
  <1>7. PICK rest : Reading(ws, r, rest)
    BY <1>5, VectorFacts
  <1> DEFINE b == Then(Vector(ws), r)
             step(f, i) ==
                IF i = 0 THEN Parsed(<<>>, Skip(b, 1))
                ELSE LET q == f[i - 1]  e == parse_locals(q.buf) IN Parsed(Append(q.val, e.val), e.buf)
             f1 == CHOOSE f : f = [i \in 0..Token(b, 1) |-> step(f, i)]
  <1>8. Token(b, 1) = n /\ Skip(b, 1) = rest[1] /\ rest[n + 1] = r
        /\ \A i \in 1..n : rest[i] = Then(Format!Local(s[i]), rest[i + 1]) /\ rest[i + 1] \in Buffers
    BY ONLY <1>5, <1>7 DEF Reading
  <1>9. parse_vec(parse_locals, b) = f1[n]
    BY ONLY <1>8 DEF parse_vec
  <1>10. \A i \in 1..n : parse_locals(rest[i]) = Parsed(s[i], rest[i + 1])
    BY ONLY <1>1, <1>8, ReadLocal
  <1> HIDE DEF b, f1
  <1>11. PICK f0 : f0 = Progress(s, rest)
    OBVIOUS
  <1>12. Progressing(n, s, rest, f0)
    BY <1>11, ProgressStep DEF n
  <1>13. \A i \in 0..n : f0[i] = step(f0, i)
    <2>1. ASSUME NEW i \in 1..n PROVE f0[i] = step(f0, i)
      <3>1. i # 0
        BY ONLY <1>1, i \in 1..n
      <3>2. f0[i - 1].buf = rest[i] /\ f0[i] = Parsed(Append(f0[i - 1].val, s[i]), rest[i + 1])
        BY ONLY <1>12, i \in 1..n DEF Progressing
      <3>3. parse_locals(rest[i]).val = s[i] /\ parse_locals(rest[i]).buf = rest[i + 1]
        BY ONLY <1>10, i \in 1..n, ParsedFields
      <3> QED
        BY ONLY <3>1, <3>2, <3>3
    <2>2. f0[0] = step(f0, 0)
      BY ONLY <1>8, <1>12 DEF Progressing
    <2>3. \A i \in 0..n : i = 0 \/ i \in 1..n
      BY ONLY <1>1
    <2> QED
      BY ONLY <2>1, <2>2, <2>3
  <1> HIDE DEF step
  <1>14. f1 = [i \in 0..n |-> step(f1, i)]
    <2>1. f0 = [i \in 0..n |-> step(f0, i)]
      BY ONLY <1>12, <1>13 DEF Progressing
    <2> QED
      BY ONLY <1>8, <2>1 DEF f1
  <1>15. f1[0] = Parsed(<<>>, rest[1])
    <2>1. 0 \in 0..n /\ step(f1, 0) = Parsed(<<>>, rest[1])
      BY ONLY <1>1, <1>8 DEF step
    <2> QED
      BY ONLY <1>14, <2>1
  <1>16. \A i \in 1..n : f1[i - 1].buf = rest[i] => f1[i] = Parsed(Append(f1[i - 1].val, s[i]), rest[i + 1])
    <2> SUFFICES ASSUME NEW i \in 1..n, f1[i - 1].buf = rest[i]
                 PROVE  f1[i] = Parsed(Append(f1[i - 1].val, s[i]), rest[i + 1])
      OBVIOUS
    <2>1. i \in 0..n /\ i # 0
      BY ONLY <1>1, i \in 1..n
    <2>2. parse_locals(rest[i]).val = s[i] /\ parse_locals(rest[i]).buf = rest[i + 1]
      BY ONLY <1>10, i \in 1..n, ParsedFields
    <2>3. step(f1, i) = Parsed(Append(f1[i - 1].val, s[i]), rest[i + 1])
      BY ONLY f1[i - 1].buf = rest[i], <2>1, <2>2 DEF step
    <2> QED
      BY ONLY <1>14, <2>1, <2>3
  <1>17. f1[n] = Parsed(s, rest[n + 1])
    BY <1>15, <1>16, ReadsAll DEF n
  <1>18. Vector(ws) \in Buffers
    BY <1>5, VectorFacts
  <1> QED
    BY ONLY <1>6, <1>8, <1>9, <1>17, <1>18 DEF b

(* What is framed by its length.                                           *)
LEMMA ReadSub == \A c, r \in Buffers : readbuffer(Then(c, r), Len(c)) = [new |-> c, buf |-> r] /\ Len(c) \in Int
  <1> SUFFICES ASSUME NEW c \in Buffers, NEW r \in Buffers
               PROVE  readbuffer(Then(c, r), Len(c)) = [new |-> c, buf |-> r] /\ Len(c) \in Int
    OBVIOUS
  <1>1. c \in Seq(Int) /\ r \in Seq(Int) /\ Then(c, r) = c \o r /\ Len(c) \in Nat /\ Len(r) \in Nat
    BY DEF Buffers, Then
  <1>2. Len(c \o r) = Len(c) + Len(r) /\ SubSeq(c \o r, 1, Len(c)) = c
    BY <1>1
  <1>3. Skip(Then(c, r), Len(c)) = r
    BY ReadFront
  <1>4. ~(Len(c) > Len(c \o r))
    BY ONLY <1>1, <1>2
  <1>5. readbuffer(Then(c, r), Len(c)) = [new |-> c, buf |-> r]
    BY ONLY <1>1, <1>2, <1>3, <1>4 DEF readbuffer
  <1>6. Len(c) \in Int
    BY ONLY <1>1
  <1> QED
    BY ONLY <1>5, <1>6

(* A function: instructions are read to the end of its buffer.             *)
LEMMA ReadFunc ==
    ASSUME NEW l \in Seq(LocalGroups), NEW s \in Seq(Format!Instruction)
    PROVE  parse_func(Then(Format!Vec(Format!Local, l), Format!Expr(s))) = [locals |-> l, expr |-> s]
  <1>1. <<>> \in Buffers
    BY ThenFacts
  <1>2. PICK rest : Unread(s, <<>>, rest)
    BY <1>1, UnreadExists
  <1>3. PICK b : b = Format!Expr(s)
    OBVIOUS
  <1>4. b \in Buffers
    BY <1>1, <1>3, UnreadExists
  <1>5. rest[1] = b /\ rest[Len(s) + 1] = <<>>
    BY ONLY <1>2, <1>3, <1>4, ThenFacts DEF Unread
  <1>6. PICK a : a = Then(Format!Vec(Format!Local, l), b)
    OBVIOUS
  <1>7. parse_vec(parse_locals, a) = Parsed(l, b)
    BY <1>4, <1>6, ReadLocals
  <1> DEFINE c == parse_vec(parse_locals, a).buf
             k0 == Len(s)
             First(k) == eof(Past(c, k)) /\ \A j \in 0..(k - 1) : ~eof(Past(c, j))
             n == CHOOSE k \in 0..Len(c) : First(k)
  <1>18. parse_func(a) = [locals |-> parse_vec(parse_locals, a).val, expr |-> [k \in 1..n |-> Nth(c, k)]]
    BY DEF parse_func
  <1>19. parse_vec(parse_locals, a).val = l /\ c = b
    BY ONLY <1>7, ParsedFields
  <1> HIDE DEF c
  <1>8. /\ \A k \in 0..k0 : Past(b, k) = rest[k + 1]
        /\ \A k \in 1..k0 : Nth(b, k) = s[k]
    BY <1>1, <1>2, <1>5, PastReads
  <1>9. k0 <= Len(b) /\ Len(b) \in Nat /\ \A k \in 1..k0 : ~eof(rest[k])
    BY <1>1, <1>2, <1>5, UnreadLength
  <1>10. k0 \in Nat /\ s = [k \in 1..k0 |-> s[k]]
    OBVIOUS
  <1> HIDE DEF k0
  <1>12. eof(Past(b, k0))
    <2>1. k0 \in 0..k0
      BY ONLY <1>10
    <2>2. Past(b, k0) = <<>>
      BY ONLY <1>5, <1>8, <2>1 DEF k0
    <2> QED
      BY ONLY <2>2 DEF eof
  <1>13. \A j \in 0..(k0 - 1) : ~eof(Past(b, j))
    <2> SUFFICES ASSUME NEW j \in 0..(k0 - 1) PROVE ~eof(Past(b, j))
      OBVIOUS
    <2>1. j \in 0..k0 /\ j + 1 \in 1..k0
      BY ONLY <1>10, j \in 0..(k0 - 1)
    <2> QED
      BY ONLY <1>8, <1>9, <2>1
  <1>14. First(k0) /\ k0 \in 0..Len(b)
    BY ONLY <1>9, <1>10, <1>12, <1>13, <1>19
  <1>15. ASSUME NEW k \in 0..Len(b), First(k) PROVE k = k0
    <2>1. k > k0 => k0 \in 0..(k - 1)
      BY ONLY <1>9, <1>10, k \in 0..Len(b)
    <2>2. k < k0 => k \in 0..(k0 - 1)
      BY ONLY <1>9, <1>10, k \in 0..Len(b)
    <2>3. ~(k > k0) /\ ~(k < k0)
      BY ONLY <1>12, <1>13, <1>15, <1>19, <2>1, <2>2
    <2> QED
      BY ONLY <1>9, <1>10, <2>3, k \in 0..Len(b)
  <1> HIDE DEF First
  <1>16. n = k0
    BY ONLY <1>14, <1>15, <1>19
  <1> HIDE DEF n
  <1>17. [k \in 1..k0 |-> Nth(b, k)] = s
    BY ONLY <1>8, <1>10
  <1> QED
    BY ONLY <1>3, <1>6, <1>16, <1>17, <1>18, <1>19

(* The body of a function, framed by its length.                           *)
LEMMA ReadCode ==
    \A e \in Bodies, r \in Buffers :
        Format!Code(e) \in Buffers /\ parse_code(Then(Format!Code(e), r)) = Parsed(e, r)
  <1> SUFFICES ASSUME NEW e \in Bodies, NEW r \in Buffers
               PROVE  Format!Code(e) \in Buffers /\ parse_code(Then(Format!Code(e), r)) = Parsed(e, r)
    OBVIOUS
  <1>1. /\ e.locals \in Seq(LocalGroups) /\ e.expr \in Seq(Format!Instruction)
        /\ e = [locals |-> e.locals, expr |-> e.expr]
    BY DEF Bodies
  <1>2. PICK l \in Seq(LocalGroups) : l = e.locals
    BY ONLY <1>1
  <1>3. PICK s \in Seq(Format!Instruction) : s = e.expr
    BY ONLY <1>1
  <1>4. PICK x : x = Format!Vec(Format!Local, l)
    OBVIOUS
  <1>5. PICK y : y = Format!Expr(s)
    OBVIOUS
  <1>6. x \in Buffers
    BY <1>4, ReadLocals
  <1>7. y \in Buffers
    BY <1>5, UnreadExists
  <1>8. PICK body : body = Then(x, y)
    OBVIOUS
  <1>9. body \in Buffers
    BY ONLY <1>6, <1>7, <1>8, ThenFacts
  <1>10. parse_func(body) = [locals |-> l, expr |-> s]
    BY <1>4, <1>5, <1>8, ReadFunc
  <1>11. PICK n \in Int : n = Len(body)
    BY ONLY <1>9, ReadSub
  <1>12. PICK p : p = <<n>>
    OBVIOUS
  <1>13. p \in Buffers /\ Len(p) = 1 /\ p[1] = n
    BY ONLY <1>12, n \in Int, OneToken
  <1>14. Format!Code(e) = Then(p, body)
    BY ONLY <1>2, <1>3, <1>4, <1>5, <1>8, <1>11, <1>12 DEF Format!Code, Then
  <1>15. /\ Then(p, body) \in Buffers /\ Then(body, r) \in Buffers
         /\ Then(Then(p, body), r) = Then(p, Then(body, r))
    BY ONLY <1>9, <1>13, r \in Buffers, ThenFacts
  <1>16. Token(Then(p, Then(body, r)), 1) = n /\ Skip(Then(p, Then(body, r)), 1) = Then(body, r)
    BY ONLY <1>13, <1>15, ReadToken
  <1>17. readbuffer(Then(body, r), n) = [new |-> body, buf |-> r]
    BY ONLY <1>9, <1>11, r \in Buffers, ReadSub
  <1>18. parse_code(Then(p, Then(body, r))) = Parsed([locals |-> l, expr |-> s], r)
    BY ONLY <1>10, <1>16, <1>17 DEF parse_code
  <1> QED
    BY ONLY <1>1, <1>2, <1>3, <1>14, <1>15, <1>18

(* The types.                                                              *)
LEMMA ReadTypes ==
    ASSUME NEW s \in Seq(Types), NEW r \in Buffers
    PROVE  /\ Format!Vec(Format!Type, s) \in Buffers
           /\ parse_vec(parse_functype, Then(Format!Vec(Format!Type, s), r)) = Parsed(s, r)
  <1> DEFINE n == Len(s)
             ws == [k \in DOMAIN s |-> Format!Type(s[k])]
  <1>1. n \in Nat /\ \A k \in 1..n : s[k] \in Types
    OBVIOUS
  <1>2. \A k \in 1..n : Format!Type(s[k]) \in Buffers
    BY ONLY <1>1, r \in Buffers, ReadType
  <1>3. ws = [k \in 1..n |-> Format!Type(s[k])]
    OBVIOUS
  <1>4. Format!Vec(Format!Type, s) = Then(<<n>>, FlattenSeq(ws))
    BY DEF Format!Vec, Format!FlattenSeq, FlattenSeq, Then
  <1> HIDE DEF ws, n
  <1>5. ws \in Seq(Buffers) /\ Len(ws) = n /\ \A k \in 1..n : ws[k] = Format!Type(s[k])
    BY ONLY <1>1, <1>2, <1>3
  <1>6. Format!Vec(Format!Type, s) = Vector(ws)
    BY ONLY <1>4, <1>5 DEF Vector
  <1>7. PICK rest : Reading(ws, r, rest)
    BY <1>5, VectorFacts
  <1> DEFINE b == Then(Vector(ws), r)
             step(f, i) ==
                IF i = 0 THEN Parsed(<<>>, Skip(b, 1))
                ELSE LET q == f[i - 1]  e == parse_functype(q.buf) IN Parsed(Append(q.val, e.val), e.buf)
             f1 == CHOOSE f : f = [i \in 0..Token(b, 1) |-> step(f, i)]
  <1>8. Token(b, 1) = n /\ Skip(b, 1) = rest[1] /\ rest[n + 1] = r
        /\ \A i \in 1..n : rest[i] = Then(Format!Type(s[i]), rest[i + 1]) /\ rest[i + 1] \in Buffers
    BY ONLY <1>5, <1>7 DEF Reading
  <1>9. parse_vec(parse_functype, b) = f1[n]
    BY ONLY <1>8 DEF parse_vec
  <1>10. \A i \in 1..n : parse_functype(rest[i]) = Parsed(s[i], rest[i + 1])
    BY ONLY <1>1, <1>8, ReadType
  <1> HIDE DEF b, f1
  <1>11. PICK f0 : f0 = Progress(s, rest)
    OBVIOUS
  <1>12. Progressing(n, s, rest, f0)
    BY <1>11, ProgressStep DEF n
  <1>13. \A i \in 0..n : f0[i] = step(f0, i)
    <2>1. ASSUME NEW i \in 1..n PROVE f0[i] = step(f0, i)
      <3>1. i # 0
        BY ONLY <1>1, i \in 1..n
      <3>2. f0[i - 1].buf = rest[i] /\ f0[i] = Parsed(Append(f0[i - 1].val, s[i]), rest[i + 1])
        BY ONLY <1>12, i \in 1..n DEF Progressing
      <3>3. parse_functype(rest[i]).val = s[i] /\ parse_functype(rest[i]).buf = rest[i + 1]
        BY ONLY <1>10, i \in 1..n, ParsedFields
      <3> QED
        BY ONLY <3>1, <3>2, <3>3
    <2>2. f0[0] = step(f0, 0)
      BY ONLY <1>8, <1>12 DEF Progressing
    <2>3. \A i \in 0..n : i = 0 \/ i \in 1..n
      BY ONLY <1>1
    <2> QED
      BY ONLY <2>1, <2>2, <2>3
  <1> HIDE DEF step
  <1>14. f1 = [i \in 0..n |-> step(f1, i)]
    <2>1. f0 = [i \in 0..n |-> step(f0, i)]
      BY ONLY <1>12, <1>13 DEF Progressing
    <2> QED
      BY ONLY <1>8, <2>1 DEF f1
  <1>15. f1[0] = Parsed(<<>>, rest[1])
    <2>1. 0 \in 0..n /\ step(f1, 0) = Parsed(<<>>, rest[1])
      BY ONLY <1>1, <1>8 DEF step
    <2> QED
      BY ONLY <1>14, <2>1
  <1>16. \A i \in 1..n : f1[i - 1].buf = rest[i] => f1[i] = Parsed(Append(f1[i - 1].val, s[i]), rest[i + 1])
    <2> SUFFICES ASSUME NEW i \in 1..n, f1[i - 1].buf = rest[i]
                 PROVE  f1[i] = Parsed(Append(f1[i - 1].val, s[i]), rest[i + 1])
      OBVIOUS
    <2>1. i \in 0..n /\ i # 0
      BY ONLY <1>1, i \in 1..n
    <2>2. parse_functype(rest[i]).val = s[i] /\ parse_functype(rest[i]).buf = rest[i + 1]
      BY ONLY <1>10, i \in 1..n, ParsedFields
    <2>3. step(f1, i) = Parsed(Append(f1[i - 1].val, s[i]), rest[i + 1])
      BY ONLY f1[i - 1].buf = rest[i], <2>1, <2>2 DEF step
    <2> QED
      BY ONLY <1>14, <2>1, <2>3
  <1>17. f1[n] = Parsed(s, rest[n + 1])
    BY <1>15, <1>16, ReadsAll DEF n
  <1>18. Vector(ws) \in Buffers
    BY <1>5, VectorFacts
  <1> QED
    BY ONLY <1>6, <1>8, <1>9, <1>17, <1>18 DEF b

(* The imports, if all are of functions.                                   *)
LEMMA ReadImports ==
    ASSUME NEW s \in Seq(ImportsRead), NEW r \in Buffers
    PROVE  /\ Format!Vec(ImportHead, s) \in Buffers
           /\ parse_vec(parse_import, Then(Format!Vec(ImportHead, s), r)) = Parsed(s, r)
  <1> DEFINE n == Len(s)
             ws == [k \in DOMAIN s |-> ImportHead(s[k])]
  <1>1. n \in Nat /\ \A k \in 1..n : s[k] \in ImportsRead
    OBVIOUS
  <1>2. \A k \in 1..n : ImportHead(s[k]) \in Buffers
    BY ONLY <1>1, r \in Buffers, ReadImport
  <1>3. ws = [k \in 1..n |-> ImportHead(s[k])]
    OBVIOUS
  <1>4. Format!Vec(ImportHead, s) = Then(<<n>>, FlattenSeq(ws))
    BY DEF Format!Vec, Format!FlattenSeq, FlattenSeq, Then
  <1> HIDE DEF ws, n
  <1>5. ws \in Seq(Buffers) /\ Len(ws) = n /\ \A k \in 1..n : ws[k] = ImportHead(s[k])
    BY ONLY <1>1, <1>2, <1>3
  <1>6. Format!Vec(ImportHead, s) = Vector(ws)
    BY ONLY <1>4, <1>5 DEF Vector
  <1>7. PICK rest : Reading(ws, r, rest)
    BY <1>5, VectorFacts
  <1> DEFINE b == Then(Vector(ws), r)
             step(f, i) ==
                IF i = 0 THEN Parsed(<<>>, Skip(b, 1))
                ELSE LET q == f[i - 1]  e == parse_import(q.buf) IN Parsed(Append(q.val, e.val), e.buf)
             f1 == CHOOSE f : f = [i \in 0..Token(b, 1) |-> step(f, i)]
  <1>8. Token(b, 1) = n /\ Skip(b, 1) = rest[1] /\ rest[n + 1] = r
        /\ \A i \in 1..n : rest[i] = Then(ImportHead(s[i]), rest[i + 1]) /\ rest[i + 1] \in Buffers
    BY ONLY <1>5, <1>7 DEF Reading
  <1>9. parse_vec(parse_import, b) = f1[n]
    BY ONLY <1>8 DEF parse_vec
  <1>10. \A i \in 1..n : parse_import(rest[i]) = Parsed(s[i], rest[i + 1])
    BY ONLY <1>1, <1>8, ReadImport
  <1> HIDE DEF b, f1
  <1>11. PICK f0 : f0 = Progress(s, rest)
    OBVIOUS
  <1>12. Progressing(n, s, rest, f0)
    BY <1>11, ProgressStep DEF n
  <1>13. \A i \in 0..n : f0[i] = step(f0, i)
    <2>1. ASSUME NEW i \in 1..n PROVE f0[i] = step(f0, i)
      <3>1. i # 0
        BY ONLY <1>1, i \in 1..n
      <3>2. f0[i - 1].buf = rest[i] /\ f0[i] = Parsed(Append(f0[i - 1].val, s[i]), rest[i + 1])
        BY ONLY <1>12, i \in 1..n DEF Progressing
      <3>3. parse_import(rest[i]).val = s[i] /\ parse_import(rest[i]).buf = rest[i + 1]
        BY ONLY <1>10, i \in 1..n, ParsedFields
      <3> QED
        BY ONLY <3>1, <3>2, <3>3
    <2>2. f0[0] = step(f0, 0)
      BY ONLY <1>8, <1>12 DEF Progressing
    <2>3. \A i \in 0..n : i = 0 \/ i \in 1..n
      BY ONLY <1>1
    <2> QED
      BY ONLY <2>1, <2>2, <2>3
  <1> HIDE DEF step
  <1>14. f1 = [i \in 0..n |-> step(f1, i)]
    <2>1. f0 = [i \in 0..n |-> step(f0, i)]
      BY ONLY <1>12, <1>13 DEF Progressing
    <2> QED
      BY ONLY <1>8, <2>1 DEF f1
  <1>15. f1[0] = Parsed(<<>>, rest[1])
    <2>1. 0 \in 0..n /\ step(f1, 0) = Parsed(<<>>, rest[1])
      BY ONLY <1>1, <1>8 DEF step
    <2> QED
      BY ONLY <1>14, <2>1
  <1>16. \A i \in 1..n : f1[i - 1].buf = rest[i] => f1[i] = Parsed(Append(f1[i - 1].val, s[i]), rest[i + 1])
    <2> SUFFICES ASSUME NEW i \in 1..n, f1[i - 1].buf = rest[i]
                 PROVE  f1[i] = Parsed(Append(f1[i - 1].val, s[i]), rest[i + 1])
      OBVIOUS
    <2>1. i \in 0..n /\ i # 0
      BY ONLY <1>1, i \in 1..n
    <2>2. parse_import(rest[i]).val = s[i] /\ parse_import(rest[i]).buf = rest[i + 1]
      BY ONLY <1>10, i \in 1..n, ParsedFields
    <2>3. step(f1, i) = Parsed(Append(f1[i - 1].val, s[i]), rest[i + 1])
      BY ONLY f1[i - 1].buf = rest[i], <2>1, <2>2 DEF step
    <2> QED
      BY ONLY <1>14, <2>1, <2>3
  <1>17. f1[n] = Parsed(s, rest[n + 1])
    BY <1>15, <1>16, ReadsAll DEF n
  <1>18. Vector(ws) \in Buffers
    BY <1>5, VectorFacts
  <1> QED
    BY ONLY <1>6, <1>8, <1>9, <1>17, <1>18 DEF b

(* The memories.                                                           *)
LEMMA ReadMems ==
    ASSUME NEW s \in Seq(MemoryTypes), NEW r \in Buffers
    PROVE  /\ Format!Vec(Format!Mem, s) \in Buffers
           /\ parse_vec(parse_mem, Then(Format!Vec(Format!Mem, s), r)) = Parsed(s, r)
  <1> DEFINE n == Len(s)
             ws == [k \in DOMAIN s |-> Format!Mem(s[k])]
  <1>1. n \in Nat /\ \A k \in 1..n : s[k] \in MemoryTypes
    OBVIOUS
  <1>2. \A k \in 1..n : Format!Mem(s[k]) \in Buffers
    BY ONLY <1>1, r \in Buffers, ReadMem
  <1>3. ws = [k \in 1..n |-> Format!Mem(s[k])]
    OBVIOUS
  <1>4. Format!Vec(Format!Mem, s) = Then(<<n>>, FlattenSeq(ws))
    BY DEF Format!Vec, Format!FlattenSeq, FlattenSeq, Then
  <1> HIDE DEF ws, n
  <1>5. ws \in Seq(Buffers) /\ Len(ws) = n /\ \A k \in 1..n : ws[k] = Format!Mem(s[k])
    BY ONLY <1>1, <1>2, <1>3
  <1>6. Format!Vec(Format!Mem, s) = Vector(ws)
    BY ONLY <1>4, <1>5 DEF Vector
  <1>7. PICK rest : Reading(ws, r, rest)
    BY <1>5, VectorFacts
  <1> DEFINE b == Then(Vector(ws), r)
             step(f, i) ==
                IF i = 0 THEN Parsed(<<>>, Skip(b, 1))
                ELSE LET q == f[i - 1]  e == parse_mem(q.buf) IN Parsed(Append(q.val, e.val), e.buf)
             f1 == CHOOSE f : f = [i \in 0..Token(b, 1) |-> step(f, i)]
  <1>8. Token(b, 1) = n /\ Skip(b, 1) = rest[1] /\ rest[n + 1] = r
        /\ \A i \in 1..n : rest[i] = Then(Format!Mem(s[i]), rest[i + 1]) /\ rest[i + 1] \in Buffers
    BY ONLY <1>5, <1>7 DEF Reading
  <1>9. parse_vec(parse_mem, b) = f1[n]
    BY ONLY <1>8 DEF parse_vec
  <1>10. \A i \in 1..n : parse_mem(rest[i]) = Parsed(s[i], rest[i + 1])
    BY ONLY <1>1, <1>8, ReadMem
  <1> HIDE DEF b, f1
  <1>11. PICK f0 : f0 = Progress(s, rest)
    OBVIOUS
  <1>12. Progressing(n, s, rest, f0)
    BY <1>11, ProgressStep DEF n
  <1>13. \A i \in 0..n : f0[i] = step(f0, i)
    <2>1. ASSUME NEW i \in 1..n PROVE f0[i] = step(f0, i)
      <3>1. i # 0
        BY ONLY <1>1, i \in 1..n
      <3>2. f0[i - 1].buf = rest[i] /\ f0[i] = Parsed(Append(f0[i - 1].val, s[i]), rest[i + 1])
        BY ONLY <1>12, i \in 1..n DEF Progressing
      <3>3. parse_mem(rest[i]).val = s[i] /\ parse_mem(rest[i]).buf = rest[i + 1]
        BY ONLY <1>10, i \in 1..n, ParsedFields
      <3> QED
        BY ONLY <3>1, <3>2, <3>3
    <2>2. f0[0] = step(f0, 0)
      BY ONLY <1>8, <1>12 DEF Progressing
    <2>3. \A i \in 0..n : i = 0 \/ i \in 1..n
      BY ONLY <1>1
    <2> QED
      BY ONLY <2>1, <2>2, <2>3
  <1> HIDE DEF step
  <1>14. f1 = [i \in 0..n |-> step(f1, i)]
    <2>1. f0 = [i \in 0..n |-> step(f0, i)]
      BY ONLY <1>12, <1>13 DEF Progressing
    <2> QED
      BY ONLY <1>8, <2>1 DEF f1
  <1>15. f1[0] = Parsed(<<>>, rest[1])
    <2>1. 0 \in 0..n /\ step(f1, 0) = Parsed(<<>>, rest[1])
      BY ONLY <1>1, <1>8 DEF step
    <2> QED
      BY ONLY <1>14, <2>1
  <1>16. \A i \in 1..n : f1[i - 1].buf = rest[i] => f1[i] = Parsed(Append(f1[i - 1].val, s[i]), rest[i + 1])
    <2> SUFFICES ASSUME NEW i \in 1..n, f1[i - 1].buf = rest[i]
                 PROVE  f1[i] = Parsed(Append(f1[i - 1].val, s[i]), rest[i + 1])
      OBVIOUS
    <2>1. i \in 0..n /\ i # 0
      BY ONLY <1>1, i \in 1..n
    <2>2. parse_mem(rest[i]).val = s[i] /\ parse_mem(rest[i]).buf = rest[i + 1]
      BY ONLY <1>10, i \in 1..n, ParsedFields
    <2>3. step(f1, i) = Parsed(Append(f1[i - 1].val, s[i]), rest[i + 1])
      BY ONLY f1[i - 1].buf = rest[i], <2>1, <2>2 DEF step
    <2> QED
      BY ONLY <1>14, <2>1, <2>3
  <1>17. f1[n] = Parsed(s, rest[n + 1])
    BY <1>15, <1>16, ReadsAll DEF n
  <1>18. Vector(ws) \in Buffers
    BY <1>5, VectorFacts
  <1> QED
    BY ONLY <1>6, <1>8, <1>9, <1>17, <1>18 DEF b

(* The globals.                                                            *)
LEMMA ReadGlobals ==
    ASSUME NEW s \in Seq(GlobalInits), NEW r \in Buffers
    PROVE  /\ Format!Vec(Format!Global, s) \in Buffers
           /\ parse_vec(parse_global, Then(Format!Vec(Format!Global, s), r)) = Parsed(s, r)
  <1> DEFINE n == Len(s)
             ws == [k \in DOMAIN s |-> Format!Global(s[k])]
  <1>1. n \in Nat /\ \A k \in 1..n : s[k] \in GlobalInits
    OBVIOUS
  <1>2. \A k \in 1..n : Format!Global(s[k]) \in Buffers
    BY ONLY <1>1, r \in Buffers, ReadGlobal
  <1>3. ws = [k \in 1..n |-> Format!Global(s[k])]
    OBVIOUS
  <1>4. Format!Vec(Format!Global, s) = Then(<<n>>, FlattenSeq(ws))
    BY DEF Format!Vec, Format!FlattenSeq, FlattenSeq, Then
  <1> HIDE DEF ws, n
  <1>5. ws \in Seq(Buffers) /\ Len(ws) = n /\ \A k \in 1..n : ws[k] = Format!Global(s[k])
    BY ONLY <1>1, <1>2, <1>3
  <1>6. Format!Vec(Format!Global, s) = Vector(ws)
    BY ONLY <1>4, <1>5 DEF Vector
  <1>7. PICK rest : Reading(ws, r, rest)
    BY <1>5, VectorFacts
  <1> DEFINE b == Then(Vector(ws), r)
             step(f, i) ==
                IF i = 0 THEN Parsed(<<>>, Skip(b, 1))
                ELSE LET q == f[i - 1]  e == parse_global(q.buf) IN Parsed(Append(q.val, e.val), e.buf)
             f1 == CHOOSE f : f = [i \in 0..Token(b, 1) |-> step(f, i)]
  <1>8. Token(b, 1) = n /\ Skip(b, 1) = rest[1] /\ rest[n + 1] = r
        /\ \A i \in 1..n : rest[i] = Then(Format!Global(s[i]), rest[i + 1]) /\ rest[i + 1] \in Buffers
    BY ONLY <1>5, <1>7 DEF Reading
  <1>9. parse_vec(parse_global, b) = f1[n]
    BY ONLY <1>8 DEF parse_vec
  <1>10. \A i \in 1..n : parse_global(rest[i]) = Parsed(s[i], rest[i + 1])
    BY ONLY <1>1, <1>8, ReadGlobal
  <1> HIDE DEF b, f1
  <1>11. PICK f0 : f0 = Progress(s, rest)
    OBVIOUS
  <1>12. Progressing(n, s, rest, f0)
    BY <1>11, ProgressStep DEF n
  <1>13. \A i \in 0..n : f0[i] = step(f0, i)
    <2>1. ASSUME NEW i \in 1..n PROVE f0[i] = step(f0, i)
      <3>1. i # 0
        BY ONLY <1>1, i \in 1..n
      <3>2. f0[i - 1].buf = rest[i] /\ f0[i] = Parsed(Append(f0[i - 1].val, s[i]), rest[i + 1])
        BY ONLY <1>12, i \in 1..n DEF Progressing
      <3>3. parse_global(rest[i]).val = s[i] /\ parse_global(rest[i]).buf = rest[i + 1]
        BY ONLY <1>10, i \in 1..n, ParsedFields
      <3> QED
        BY ONLY <3>1, <3>2, <3>3
    <2>2. f0[0] = step(f0, 0)
      BY ONLY <1>8, <1>12 DEF Progressing
    <2>3. \A i \in 0..n : i = 0 \/ i \in 1..n
      BY ONLY <1>1
    <2> QED
      BY ONLY <2>1, <2>2, <2>3
  <1> HIDE DEF step
  <1>14. f1 = [i \in 0..n |-> step(f1, i)]
    <2>1. f0 = [i \in 0..n |-> step(f0, i)]
      BY ONLY <1>12, <1>13 DEF Progressing
    <2> QED
      BY ONLY <1>8, <2>1 DEF f1
  <1>15. f1[0] = Parsed(<<>>, rest[1])
    <2>1. 0 \in 0..n /\ step(f1, 0) = Parsed(<<>>, rest[1])
      BY ONLY <1>1, <1>8 DEF step
    <2> QED
      BY ONLY <1>14, <2>1
  <1>16. \A i \in 1..n : f1[i - 1].buf = rest[i] => f1[i] = Parsed(Append(f1[i - 1].val, s[i]), rest[i + 1])
    <2> SUFFICES ASSUME NEW i \in 1..n, f1[i - 1].buf = rest[i]
                 PROVE  f1[i] = Parsed(Append(f1[i - 1].val, s[i]), rest[i + 1])
      OBVIOUS
    <2>1. i \in 0..n /\ i # 0
      BY ONLY <1>1, i \in 1..n
    <2>2. parse_global(rest[i]).val = s[i] /\ parse_global(rest[i]).buf = rest[i + 1]
      BY ONLY <1>10, i \in 1..n, ParsedFields
    <2>3. step(f1, i) = Parsed(Append(f1[i - 1].val, s[i]), rest[i + 1])
      BY ONLY f1[i - 1].buf = rest[i], <2>1, <2>2 DEF step
    <2> QED
      BY ONLY <1>14, <2>1, <2>3
  <1>17. f1[n] = Parsed(s, rest[n + 1])
    BY <1>15, <1>16, ReadsAll DEF n
  <1>18. Vector(ws) \in Buffers
    BY <1>5, VectorFacts
  <1> QED
    BY ONLY <1>6, <1>8, <1>9, <1>17, <1>18 DEF b

(* The exports.                                                            *)
LEMMA ReadExports ==
    ASSUME NEW s \in Seq(Exports), NEW r \in Buffers
    PROVE  /\ Format!Vec(Format!Export, s) \in Buffers
           /\ parse_vec(parse_export, Then(Format!Vec(Format!Export, s), r)) = Parsed(s, r)
  <1> DEFINE n == Len(s)
             ws == [k \in DOMAIN s |-> Format!Export(s[k])]
  <1>1. n \in Nat /\ \A k \in 1..n : s[k] \in Exports
    OBVIOUS
  <1>2. \A k \in 1..n : Format!Export(s[k]) \in Buffers
    BY ONLY <1>1, r \in Buffers, ReadExport
  <1>3. ws = [k \in 1..n |-> Format!Export(s[k])]
    OBVIOUS
  <1>4. Format!Vec(Format!Export, s) = Then(<<n>>, FlattenSeq(ws))
    BY DEF Format!Vec, Format!FlattenSeq, FlattenSeq, Then
  <1> HIDE DEF ws, n
  <1>5. ws \in Seq(Buffers) /\ Len(ws) = n /\ \A k \in 1..n : ws[k] = Format!Export(s[k])
    BY ONLY <1>1, <1>2, <1>3
  <1>6. Format!Vec(Format!Export, s) = Vector(ws)
    BY ONLY <1>4, <1>5 DEF Vector
  <1>7. PICK rest : Reading(ws, r, rest)
    BY <1>5, VectorFacts
  <1> DEFINE b == Then(Vector(ws), r)
             step(f, i) ==
                IF i = 0 THEN Parsed(<<>>, Skip(b, 1))
                ELSE LET q == f[i - 1]  e == parse_export(q.buf) IN Parsed(Append(q.val, e.val), e.buf)
             f1 == CHOOSE f : f = [i \in 0..Token(b, 1) |-> step(f, i)]
  <1>8. Token(b, 1) = n /\ Skip(b, 1) = rest[1] /\ rest[n + 1] = r
        /\ \A i \in 1..n : rest[i] = Then(Format!Export(s[i]), rest[i + 1]) /\ rest[i + 1] \in Buffers
    BY ONLY <1>5, <1>7 DEF Reading
  <1>9. parse_vec(parse_export, b) = f1[n]
    BY ONLY <1>8 DEF parse_vec
  <1>10. \A i \in 1..n : parse_export(rest[i]) = Parsed(s[i], rest[i + 1])
    BY ONLY <1>1, <1>8, ReadExport
  <1> HIDE DEF b, f1
  <1>11. PICK f0 : f0 = Progress(s, rest)
    OBVIOUS
  <1>12. Progressing(n, s, rest, f0)
    BY <1>11, ProgressStep DEF n
  <1>13. \A i \in 0..n : f0[i] = step(f0, i)
    <2>1. ASSUME NEW i \in 1..n PROVE f0[i] = step(f0, i)
      <3>1. i # 0
        BY ONLY <1>1, i \in 1..n
      <3>2. f0[i - 1].buf = rest[i] /\ f0[i] = Parsed(Append(f0[i - 1].val, s[i]), rest[i + 1])
        BY ONLY <1>12, i \in 1..n DEF Progressing
      <3>3. parse_export(rest[i]).val = s[i] /\ parse_export(rest[i]).buf = rest[i + 1]
        BY ONLY <1>10, i \in 1..n, ParsedFields
      <3> QED
        BY ONLY <3>1, <3>2, <3>3
    <2>2. f0[0] = step(f0, 0)
      BY ONLY <1>8, <1>12 DEF Progressing
    <2>3. \A i \in 0..n : i = 0 \/ i \in 1..n
      BY ONLY <1>1
    <2> QED
      BY ONLY <2>1, <2>2, <2>3
  <1> HIDE DEF step
  <1>14. f1 = [i \in 0..n |-> step(f1, i)]
    <2>1. f0 = [i \in 0..n |-> step(f0, i)]
      BY ONLY <1>12, <1>13 DEF Progressing
    <2> QED
      BY ONLY <1>8, <2>1 DEF f1
  <1>15. f1[0] = Parsed(<<>>, rest[1])
    <2>1. 0 \in 0..n /\ step(f1, 0) = Parsed(<<>>, rest[1])
      BY ONLY <1>1, <1>8 DEF step
    <2> QED
      BY ONLY <1>14, <2>1
  <1>16. \A i \in 1..n : f1[i - 1].buf = rest[i] => f1[i] = Parsed(Append(f1[i - 1].val, s[i]), rest[i + 1])
    <2> SUFFICES ASSUME NEW i \in 1..n, f1[i - 1].buf = rest[i]
                 PROVE  f1[i] = Parsed(Append(f1[i - 1].val, s[i]), rest[i + 1])
      OBVIOUS
    <2>1. i \in 0..n /\ i # 0
      BY ONLY <1>1, i \in 1..n
    <2>2. parse_export(rest[i]).val = s[i] /\ parse_export(rest[i]).buf = rest[i + 1]
      BY ONLY <1>10, i \in 1..n, ParsedFields
    <2>3. step(f1, i) = Parsed(Append(f1[i - 1].val, s[i]), rest[i + 1])
      BY ONLY f1[i - 1].buf = rest[i], <2>1, <2>2 DEF step
    <2> QED
      BY ONLY <1>14, <2>1, <2>3
  <1>17. f1[n] = Parsed(s, rest[n + 1])
    BY <1>15, <1>16, ReadsAll DEF n
  <1>18. Vector(ws) \in Buffers
    BY <1>5, VectorFacts
  <1> QED
    BY ONLY <1>6, <1>8, <1>9, <1>17, <1>18 DEF b

(* The functions.                                                          *)
LEMMA ReadCodes ==
    ASSUME NEW s \in Seq(Bodies), NEW r \in Buffers
    PROVE  /\ Format!Vec(Format!Code, s) \in Buffers
           /\ parse_vec(parse_code, Then(Format!Vec(Format!Code, s), r)) = Parsed(s, r)
  <1> DEFINE n == Len(s)
             ws == [k \in DOMAIN s |-> Format!Code(s[k])]
  <1>1. n \in Nat /\ \A k \in 1..n : s[k] \in Bodies
    OBVIOUS
  <1>2. \A k \in 1..n : Format!Code(s[k]) \in Buffers
    BY ONLY <1>1, r \in Buffers, ReadCode
  <1>3. ws = [k \in 1..n |-> Format!Code(s[k])]
    OBVIOUS
  <1>4. Format!Vec(Format!Code, s) = Then(<<n>>, FlattenSeq(ws))
    BY DEF Format!Vec, Format!FlattenSeq, FlattenSeq, Then
  <1> HIDE DEF ws, n
  <1>5. ws \in Seq(Buffers) /\ Len(ws) = n /\ \A k \in 1..n : ws[k] = Format!Code(s[k])
    BY ONLY <1>1, <1>2, <1>3
  <1>6. Format!Vec(Format!Code, s) = Vector(ws)
    BY ONLY <1>4, <1>5 DEF Vector
  <1>7. PICK rest : Reading(ws, r, rest)
    BY <1>5, VectorFacts
  <1> DEFINE b == Then(Vector(ws), r)
             step(f, i) ==
                IF i = 0 THEN Parsed(<<>>, Skip(b, 1))
                ELSE LET q == f[i - 1]  e == parse_code(q.buf) IN Parsed(Append(q.val, e.val), e.buf)
             f1 == CHOOSE f : f = [i \in 0..Token(b, 1) |-> step(f, i)]
  <1>8. Token(b, 1) = n /\ Skip(b, 1) = rest[1] /\ rest[n + 1] = r
        /\ \A i \in 1..n : rest[i] = Then(Format!Code(s[i]), rest[i + 1]) /\ rest[i + 1] \in Buffers
    BY ONLY <1>5, <1>7 DEF Reading
  <1>9. parse_vec(parse_code, b) = f1[n]
    BY ONLY <1>8 DEF parse_vec
  <1>10. \A i \in 1..n : parse_code(rest[i]) = Parsed(s[i], rest[i + 1])
    BY ONLY <1>1, <1>8, ReadCode
  <1> HIDE DEF b, f1
  <1>11. PICK f0 : f0 = Progress(s, rest)
    OBVIOUS
  <1>12. Progressing(n, s, rest, f0)
    BY <1>11, ProgressStep DEF n
  <1>13. \A i \in 0..n : f0[i] = step(f0, i)
    <2>1. ASSUME NEW i \in 1..n PROVE f0[i] = step(f0, i)
      <3>1. i # 0
        BY ONLY <1>1, i \in 1..n
      <3>2. f0[i - 1].buf = rest[i] /\ f0[i] = Parsed(Append(f0[i - 1].val, s[i]), rest[i + 1])
        BY ONLY <1>12, i \in 1..n DEF Progressing
      <3>3. parse_code(rest[i]).val = s[i] /\ parse_code(rest[i]).buf = rest[i + 1]
        BY ONLY <1>10, i \in 1..n, ParsedFields
      <3> QED
        BY ONLY <3>1, <3>2, <3>3
    <2>2. f0[0] = step(f0, 0)
      BY ONLY <1>8, <1>12 DEF Progressing
    <2>3. \A i \in 0..n : i = 0 \/ i \in 1..n
      BY ONLY <1>1
    <2> QED
      BY ONLY <2>1, <2>2, <2>3
  <1> HIDE DEF step
  <1>14. f1 = [i \in 0..n |-> step(f1, i)]
    <2>1. f0 = [i \in 0..n |-> step(f0, i)]
      BY ONLY <1>12, <1>13 DEF Progressing
    <2> QED
      BY ONLY <1>8, <2>1 DEF f1
  <1>15. f1[0] = Parsed(<<>>, rest[1])
    <2>1. 0 \in 0..n /\ step(f1, 0) = Parsed(<<>>, rest[1])
      BY ONLY <1>1, <1>8 DEF step
    <2> QED
      BY ONLY <1>14, <2>1
  <1>16. \A i \in 1..n : f1[i - 1].buf = rest[i] => f1[i] = Parsed(Append(f1[i - 1].val, s[i]), rest[i + 1])
    <2> SUFFICES ASSUME NEW i \in 1..n, f1[i - 1].buf = rest[i]
                 PROVE  f1[i] = Parsed(Append(f1[i - 1].val, s[i]), rest[i + 1])
      OBVIOUS
    <2>1. i \in 0..n /\ i # 0
      BY ONLY <1>1, i \in 1..n
    <2>2. parse_code(rest[i]).val = s[i] /\ parse_code(rest[i]).buf = rest[i + 1]
      BY ONLY <1>10, i \in 1..n, ParsedFields
    <2>3. step(f1, i) = Parsed(Append(f1[i - 1].val, s[i]), rest[i + 1])
      BY ONLY f1[i - 1].buf = rest[i], <2>1, <2>2 DEF step
    <2> QED
      BY ONLY <1>14, <2>1, <2>3
  <1>17. f1[n] = Parsed(s, rest[n + 1])
    BY <1>15, <1>16, ReadsAll DEF n
  <1>18. Vector(ws) \in Buffers
    BY <1>5, VectorFacts
  <1> QED
    BY ONLY <1>6, <1>8, <1>9, <1>17, <1>18 DEF b

(* The segments, as far as they are read.                                  *)
LEMMA ReadDatas ==
    ASSUME NEW s \in Seq(AnyData), NEW r \in Buffers, NEW v, v = [k \in DOMAIN s |-> Kept(s[k])]
    PROVE  /\ Format!Vec(DataHead, s) \in Buffers
           /\ parse_vec(parse_data, Then(Format!Vec(DataHead, s), r)) = Parsed(v, r)
  <1> DEFINE n == Len(s)
             ws == [k \in DOMAIN s |-> DataHead(s[k])]
  <1>1. n \in Nat /\ \A k \in 1..n : s[k] \in AnyData
    OBVIOUS
  <1>19. v \in Seq(SegmentsRead) /\ Len(v) = n /\ \A k \in 1..n : v[k] = Kept(s[k])
    <2>1. \A k \in 1..n : Kept(s[k]) \in SegmentsRead
      BY ONLY <1>1, KeptType
    <2>2. v = [k \in 1..n |-> Kept(s[k])]
      OBVIOUS
    <2> HIDE DEF n
    <2> QED
      BY ONLY <1>1, <2>1, <2>2
  <1>2. \A k \in 1..n : DataHead(s[k]) \in Buffers
    BY ONLY <1>1, r \in Buffers, ReadData
  <1>3. ws = [k \in 1..n |-> DataHead(s[k])]
    OBVIOUS
  <1>4. Format!Vec(DataHead, s) = Then(<<n>>, FlattenSeq(ws))
    BY DEF Format!Vec, Format!FlattenSeq, FlattenSeq, Then
  <1> HIDE DEF ws, n
  <1>5. ws \in Seq(Buffers) /\ Len(ws) = n /\ \A k \in 1..n : ws[k] = DataHead(s[k])
    BY ONLY <1>1, <1>2, <1>3
  <1>6. Format!Vec(DataHead, s) = Vector(ws)
    BY ONLY <1>4, <1>5 DEF Vector
  <1>7. PICK rest : Reading(ws, r, rest)
    BY <1>5, VectorFacts
  <1> DEFINE b == Then(Vector(ws), r)
             step(f, i) ==
                IF i = 0 THEN Parsed(<<>>, Skip(b, 1))
                ELSE LET q == f[i - 1]  e == parse_data(q.buf) IN Parsed(Append(q.val, e.val), e.buf)
             f1 == CHOOSE f : f = [i \in 0..Token(b, 1) |-> step(f, i)]
  <1>8. Token(b, 1) = n /\ Skip(b, 1) = rest[1] /\ rest[n + 1] = r
        /\ \A i \in 1..n : rest[i] = Then(DataHead(s[i]), rest[i + 1]) /\ rest[i + 1] \in Buffers
    BY ONLY <1>5, <1>7 DEF Reading
  <1>9. parse_vec(parse_data, b) = f1[n]
    BY ONLY <1>8 DEF parse_vec
  <1>10. \A i \in 1..n : parse_data(rest[i]) = Parsed(v[i], rest[i + 1])
    BY ONLY <1>1, <1>8, <1>19, ReadData
  <1> HIDE DEF b, f1
  <1>11. PICK f0 : f0 = Progress(v, rest)
    OBVIOUS
  <1>12. Progressing(n, v, rest, f0)
    BY ONLY <1>11, <1>19, ProgressStep
  <1>13. \A i \in 0..n : f0[i] = step(f0, i)
    <2>1. ASSUME NEW i \in 1..n PROVE f0[i] = step(f0, i)
      <3>1. i # 0
        BY ONLY <1>1, i \in 1..n
      <3>2. f0[i - 1].buf = rest[i] /\ f0[i] = Parsed(Append(f0[i - 1].val, v[i]), rest[i + 1])
        BY ONLY <1>12, i \in 1..n DEF Progressing
      <3>3. parse_data(rest[i]).val = v[i] /\ parse_data(rest[i]).buf = rest[i + 1]
        BY ONLY <1>10, i \in 1..n, ParsedFields
      <3> QED
        BY ONLY <3>1, <3>2, <3>3
    <2>2. f0[0] = step(f0, 0)
      BY ONLY <1>8, <1>12 DEF Progressing
    <2>3. \A i \in 0..n : i = 0 \/ i \in 1..n
      BY ONLY <1>1
    <2> QED
      BY ONLY <2>1, <2>2, <2>3
  <1> HIDE DEF step
  <1>14. f1 = [i \in 0..n |-> step(f1, i)]
    <2>1. f0 = [i \in 0..n |-> step(f0, i)]
      BY ONLY <1>12, <1>13 DEF Progressing
    <2> QED
      BY ONLY <1>8, <2>1 DEF f1
  <1>15. f1[0] = Parsed(<<>>, rest[1])
    <2>1. 0 \in 0..n /\ step(f1, 0) = Parsed(<<>>, rest[1])
      BY ONLY <1>1, <1>8 DEF step
    <2> QED
      BY ONLY <1>14, <2>1
  <1>16. \A i \in 1..n : f1[i - 1].buf = rest[i] => f1[i] = Parsed(Append(f1[i - 1].val, v[i]), rest[i + 1])
    <2> SUFFICES ASSUME NEW i \in 1..n, f1[i - 1].buf = rest[i]
                 PROVE  f1[i] = Parsed(Append(f1[i - 1].val, v[i]), rest[i + 1])
      OBVIOUS
    <2>1. i \in 0..n /\ i # 0
      BY ONLY <1>1, i \in 1..n
    <2>2. parse_data(rest[i]).val = v[i] /\ parse_data(rest[i]).buf = rest[i + 1]
      BY ONLY <1>10, i \in 1..n, ParsedFields
    <2>3. step(f1, i) = Parsed(Append(f1[i - 1].val, v[i]), rest[i + 1])
      BY ONLY f1[i - 1].buf = rest[i], <2>1, <2>2 DEF step
    <2> QED
      BY ONLY <1>14, <2>1, <2>3
  <1>17. f1[n] = Parsed(v, rest[n + 1])
    BY ONLY <1>15, <1>16, <1>19, ReadsAll
  <1>18. Vector(ws) \in Buffers
    BY <1>5, VectorFacts
  <1> QED
    BY ONLY <1>6, <1>8, <1>9, <1>17, <1>18 DEF b

----------------------------------------------------------------------------
(* Recursion                                                               *)

Iterates(f, Z, n, z0, g) == f \in [0..n -> Z] /\ f[0] = z0 /\ \A i \in 1..n : f[i] = g[i][f[i - 1]]

(* A recursion over the first naturals has a solution.                     *)
LEMMA Iterate ==
    ASSUME NEW Z, NEW z0 \in Z, NEW n \in Nat, NEW g \in [1..n -> [Z -> Z]]
    PROVE  \E f : Iterates(f, Z, n, z0, g)
  <1> DEFINE upTo(f, k) == f \in [0..k -> Z] /\ f[0] = z0 /\ \A i \in 1..k : f[i] = g[i][f[i - 1]]
             P == {k \in Nat : k <= n => \E f : upTo(f, k)}
  <1>1. 0 \in P
    <2>1. upTo([i \in 0..0 |-> z0], 0)
      OBVIOUS
    <2> QED
      BY <2>1
  <1>2. ASSUME NEW k \in P PROVE k + 1 \in P
    <2>1. CASE k + 1 <= n
      <3>1. k \in Nat /\ k <= n /\ k + 1 \in 1..n
        BY <2>1
      <3>2. PICK f : upTo(f, k)
        BY <3>1
      <3> DEFINE h == [i \in 0..(k + 1) |-> IF i <= k THEN f[i] ELSE g[i][f[i - 1]]]
      <3>3. f[k] \in Z /\ (k + 1) - 1 = k /\ g[k + 1] \in [Z -> Z]
        BY <3>1, <3>2
      <3>4. h \in [0..(k + 1) -> Z]
        <4>1. ASSUME NEW i \in 0..(k + 1) PROVE h[i] \in Z
          <5>1. CASE i <= k
            BY <3>1, <3>2, <5>1
          <5>2. CASE ~(i <= k)
            <6>1. i = k + 1
              BY <3>1, <5>2
            <6>2. h[i] = g[k + 1][f[k]]
              BY <3>1, <3>3, <5>2, <6>1
            <6> QED
              BY <3>3, <6>2
          <5> QED
            BY <5>1, <5>2
        <4> QED
          BY <4>1
      <3>5. h[0] = z0
        BY <3>1, <3>2
      <3>6. ASSUME NEW i \in 1..(k + 1) PROVE h[i] = g[i][h[i - 1]]
        <4>1. i \in 0..(k + 1) /\ i - 1 \in 0..(k + 1) /\ i - 1 <= k
          BY <3>1
        <4>2. h[i - 1] = f[i - 1]
          BY <4>1
        <4>3. CASE i <= k
          <5>1. i \in 1..k /\ h[i] = f[i]
            BY <4>1, <4>3
          <5> QED
            BY <3>2, <4>2, <5>1
        <4>4. CASE ~(i <= k)
          BY <4>1, <4>2, <4>4
        <4> QED
          BY <4>3, <4>4
      <3> HIDE DEF h
      <3>7. upTo(h, k + 1)
        BY <3>4, <3>5, <3>6
      <3> HIDE DEF upTo
      <3> QED
        BY <3>1, <3>7
    <2>2. CASE ~(k + 1 <= n)
      BY <2>2
    <2> QED
      BY <2>1, <2>2
  <1>3. P \in SUBSET Nat
    OBVIOUS
  <1> HIDE DEF P
  <1>4. P = Nat
    BY <1>1, <1>2, <1>3, SetInduction
  <1>5. n \in P /\ n <= n
    BY <1>4
  <1> QED
    BY <1>5 DEF P, Iterates

----------------------------------------------------------------------------
(* The sections of a module                                                *)

\* A section with this content.
Frame(id, c) == Then(<<id, Len(c)>>, c)
Framed(t, id, c) == id \in Int /\ c \in Buffers /\ t = Frame(id, c)

(* A section is read whole.                                                *)
LEMMA ReadFrame ==
    ASSUME NEW t, NEW id, NEW c, NEW r \in Buffers, Framed(t, id, c)
    PROVE  /\ t \in Buffers /\ t # <<>> /\ ~eof(Then(t, r))
           /\ Token(Then(t, r), 1) = id
           /\ readbuffer(Skip(Then(t, r), 2), Token(Then(t, r), 2)) = [new |-> c, buf |-> r]
  <1>1. id \in Int /\ c \in Buffers
    BY DEF Framed
  <1>2. PICK n \in Int : n = Len(c)
    BY ONLY <1>1, r \in Buffers, ReadSub
  <1>3. PICK p : p = <<id, n>>
    OBVIOUS
  <1>4. t = Then(p, c)
    BY ONLY <1>2, <1>3, Framed(t, id, c) DEF Framed, Frame
  <1>5. PICK b : b = Then(c, r)
    OBVIOUS
  <1>6. b \in Buffers
    BY ONLY <1>1, <1>5, r \in Buffers, ThenFacts
  <1>7. p \in Buffers /\ Token(Then(p, b), 1) = id /\ Token(Then(p, b), 2) = n /\ Skip(Then(p, b), 2) = b
    BY ONLY <1>1, <1>3, <1>6, n \in Int, ReadTwo
  <1>8. t \in Buffers /\ Then(t, r) = Then(p, b)
    BY ONLY <1>1, <1>4, <1>5, <1>7, r \in Buffers, ThenFacts
  <1>9. readbuffer(b, n) = [new |-> c, buf |-> r]
    BY ONLY <1>1, <1>2, <1>5, r \in Buffers, ReadSub
  <1>10. p # <<>>
    BY ONLY <1>3
  <1>11. ~eof(Then(p, b)) /\ ~eof(Then(p, c))
    BY ONLY <1>1, <1>6, <1>7, <1>10, ReadFront
  <1>12. t # <<>>
    BY ONLY <1>4, <1>11 DEF eof
  <1> QED
    BY ONLY <1>7, <1>8, <1>9, <1>11, <1>12

(* What is read of the content of a section, nothing being after it.       *)
LEMMA Whole == \A c \in Buffers : Then(c, <<>>) = c
  BY ThenFacts

\* Segments of bytes.
ByteData == {d \in [kind : Nat, expr : Seq(Format!Instruction), data : Seq(Int)] :
                d.kind = 0 => d.expr \in Format!Constexpr /\ d.data \in Seq(0..(Base - 1))}
Optional(s, X) == s = NULL \/ s \in Seq(X)

(* What the sections of a module that can be written consist of.           *)
LEMMA ModuleTypes ==
    ASSUME NEW p \in Format!Writable
    PROVE  /\ Optional(p.typesec, Types) /\ Optional(p.importsec, ImportsRead) /\ Optional(p.funcsec, Nat)
           /\ Optional(p.memsec, MemoryTypes) /\ Optional(p.globalsec, GlobalInits)
           /\ Optional(p.exportsec, Exports) /\ Optional(p.codesec, Bodies) /\ Optional(p.datasec, AnyData)
           /\ Optional(p.datasec, ByteData)
  <1>1. /\ Optional(p.typesec, Types) /\ Optional(p.importsec, ImportsRead) /\ Optional(p.funcsec, Nat)
        /\ Optional(p.memsec, MemoryTypes) /\ Optional(p.globalsec, GlobalInits)
        /\ Optional(p.exportsec, Exports) /\ Optional(p.codesec, Bodies)
    BY DEF Format!Writable, Format!Section0, Optional, Types, ImportsRead, MemoryTypes, GlobalInits, Exports,
           Bodies, LocalGroups
  <1> DEFINE D == {d \in [kind : Nat, expr : Seq(Format!Instruction), data : Seq(Int)] :
                      d.kind = 0 => d.expr \in Format!Constexpr /\ d.data \in Seq(0..(Format!Base - 1))}
  <1>2. p.datasec = NULL \/ p.datasec \in Seq(D)
    BY DEF Format!Writable, Format!Section0
  <1>3. D = ByteData
    <2>1. PICK b : b = Format!Base
      OBVIOUS
    <2>2. b = Base
      BY ONLY <2>1 DEF Format!Base, Base
    <2> QED
      BY ONLY <2>1, <2>2 DEF ByteData
  <1> HIDE DEF D
  <1>4. Optional(p.datasec, ByteData)
    BY ONLY <1>2, <1>3 DEF Optional
  <1>5. \A Y, Z : Y \subseteq Z => \A s \in Seq(Y) : s \in Seq(Z)
    OBVIOUS
  <1>6. \A s \in Seq(0..(Base - 1)) : s \in Seq(Nat)
    <2>1. \A b : 0..b \subseteq Nat
      OBVIOUS
    <2> QED
      BY ONLY <1>5, <2>1
  <1>7. ByteData \subseteq AnyData
    BY ONLY <1>6 DEF ByteData, AnyData
  <1>8. Optional(p.datasec, AnyData)
    BY ONLY <1>4, <1>7, <1>5 DEF Optional
  <1> QED
    BY ONLY <1>1, <1>4, <1>8

(* The type section.                                                       *)
LEMMA TypeSection ==
    ASSUME NEW s, Optional(s, Types)
    PROVE  /\ s = NULL => Format!Section(1, Format!Type, s) = <<>>
           /\ s # NULL => \E c : /\ Framed(Format!Section(1, Format!Type, s), 1, c)
                                 /\ parse_vec(parse_functype, c).val = s
  <1>1. s = NULL => Format!Section(1, Format!Type, s) = <<>>
    BY DEF Format!Section
  <1>2. ASSUME s # NULL
        PROVE  \E c : Framed(Format!Section(1, Format!Type, s), 1, c) /\ parse_vec(parse_functype, c).val = s
    <2>1. s \in Seq(Types)
      BY <1>2 DEF Optional
    <2>2. PICK c : c = Format!Vec(Format!Type, s)
      OBVIOUS
    <2>3. Format!Section(1, Format!Type, s) = Frame(1, c)
      BY ONLY <1>2, <2>2 DEF Format!Section, Frame, Then
    <2>4. <<>> \in Buffers
      BY ThenFacts
    <2>5. c \in Buffers /\ parse_vec(parse_functype, Then(c, <<>>)) = Parsed(s, <<>>)
      BY ONLY <2>1, <2>2, <2>4, ReadTypes
    <2>6. parse_vec(parse_functype, c).val = s
      BY ONLY <2>5, Whole, ParsedFields
    <2>7. 1 \in Int
      OBVIOUS
    <2> QED
      BY ONLY <2>3, <2>5, <2>6, <2>7 DEF Framed
  <1> QED
    BY ONLY <1>1, <1>2

(* The function section.                                                   *)
LEMMA FuncSection ==
    ASSUME NEW s, Optional(s, Int)
    PROVE  /\ s = NULL => Format!Section(3, Format!Index, s) = <<>>
           /\ s # NULL => \E c : /\ Framed(Format!Section(3, Format!Index, s), 3, c)
                                 /\ parse_vec(parse_typeidx, c).val = s
  <1>1. s = NULL => Format!Section(3, Format!Index, s) = <<>>
    BY DEF Format!Section
  <1>2. ASSUME s # NULL
        PROVE  \E c : Framed(Format!Section(3, Format!Index, s), 3, c) /\ parse_vec(parse_typeidx, c).val = s
    <2>1. s \in Seq(Int)
      BY <1>2 DEF Optional
    <2>2. PICK c : c = Format!Vec(Format!Index, s)
      OBVIOUS
    <2>3. Format!Section(3, Format!Index, s) = Frame(3, c)
      BY ONLY <1>2, <2>2 DEF Format!Section, Frame, Then
    <2>4. <<>> \in Buffers
      BY ThenFacts
    <2>5. c \in Buffers /\ parse_vec(parse_typeidx, Then(c, <<>>)) = Parsed(s, <<>>)
      BY ONLY <2>1, <2>2, <2>4, ReadIndexes
    <2>6. parse_vec(parse_typeidx, c).val = s
      BY ONLY <2>5, Whole, ParsedFields
    <2>7. 3 \in Int
      OBVIOUS
    <2> QED
      BY ONLY <2>3, <2>5, <2>6, <2>7 DEF Framed
  <1> QED
    BY ONLY <1>1, <1>2

(* The memory section.                                                     *)
LEMMA MemSection ==
    ASSUME NEW s, Optional(s, MemoryTypes)
    PROVE  /\ s = NULL => Format!Section(5, Format!Mem, s) = <<>>
           /\ s # NULL => \E c : /\ Framed(Format!Section(5, Format!Mem, s), 5, c)
                                 /\ parse_vec(parse_mem, c).val = s
  <1>1. s = NULL => Format!Section(5, Format!Mem, s) = <<>>
    BY DEF Format!Section
  <1>2. ASSUME s # NULL
        PROVE  \E c : Framed(Format!Section(5, Format!Mem, s), 5, c) /\ parse_vec(parse_mem, c).val = s
    <2>1. s \in Seq(MemoryTypes)
      BY <1>2 DEF Optional
    <2>2. PICK c : c = Format!Vec(Format!Mem, s)
      OBVIOUS
    <2>3. Format!Section(5, Format!Mem, s) = Frame(5, c)
      BY ONLY <1>2, <2>2 DEF Format!Section, Frame, Then
    <2>4. <<>> \in Buffers
      BY ThenFacts
    <2>5. c \in Buffers /\ parse_vec(parse_mem, Then(c, <<>>)) = Parsed(s, <<>>)
      BY ONLY <2>1, <2>2, <2>4, ReadMems
    <2>6. parse_vec(parse_mem, c).val = s
      BY ONLY <2>5, Whole, ParsedFields
    <2>7. 5 \in Int
      OBVIOUS
    <2> QED
      BY ONLY <2>3, <2>5, <2>6, <2>7 DEF Framed
  <1> QED
    BY ONLY <1>1, <1>2

(* The global section.                                                     *)
LEMMA GlobalSection ==
    ASSUME NEW s, Optional(s, GlobalInits)
    PROVE  /\ s = NULL => Format!Section(6, Format!Global, s) = <<>>
           /\ s # NULL => \E c : /\ Framed(Format!Section(6, Format!Global, s), 6, c)
                                 /\ parse_vec(parse_global, c).val = s
  <1>1. s = NULL => Format!Section(6, Format!Global, s) = <<>>
    BY DEF Format!Section
  <1>2. ASSUME s # NULL
        PROVE  \E c : Framed(Format!Section(6, Format!Global, s), 6, c) /\ parse_vec(parse_global, c).val = s
    <2>1. s \in Seq(GlobalInits)
      BY <1>2 DEF Optional
    <2>2. PICK c : c = Format!Vec(Format!Global, s)
      OBVIOUS
    <2>3. Format!Section(6, Format!Global, s) = Frame(6, c)
      BY ONLY <1>2, <2>2 DEF Format!Section, Frame, Then
    <2>4. <<>> \in Buffers
      BY ThenFacts
    <2>5. c \in Buffers /\ parse_vec(parse_global, Then(c, <<>>)) = Parsed(s, <<>>)
      BY ONLY <2>1, <2>2, <2>4, ReadGlobals
    <2>6. parse_vec(parse_global, c).val = s
      BY ONLY <2>5, Whole, ParsedFields
    <2>7. 6 \in Int
      OBVIOUS
    <2> QED
      BY ONLY <2>3, <2>5, <2>6, <2>7 DEF Framed
  <1> QED
    BY ONLY <1>1, <1>2

(* The export section.                                                     *)
LEMMA ExportSection ==
    ASSUME NEW s, Optional(s, Exports)
    PROVE  /\ s = NULL => Format!Section(7, Format!Export, s) = <<>>
           /\ s # NULL => \E c : /\ Framed(Format!Section(7, Format!Export, s), 7, c)
                                 /\ parse_vec(parse_export, c).val = s
  <1>1. s = NULL => Format!Section(7, Format!Export, s) = <<>>
    BY DEF Format!Section
  <1>2. ASSUME s # NULL
        PROVE  \E c : Framed(Format!Section(7, Format!Export, s), 7, c) /\ parse_vec(parse_export, c).val = s
    <2>1. s \in Seq(Exports)
      BY <1>2 DEF Optional
    <2>2. PICK c : c = Format!Vec(Format!Export, s)
      OBVIOUS
    <2>3. Format!Section(7, Format!Export, s) = Frame(7, c)
      BY ONLY <1>2, <2>2 DEF Format!Section, Frame, Then
    <2>4. <<>> \in Buffers
      BY ThenFacts
    <2>5. c \in Buffers /\ parse_vec(parse_export, Then(c, <<>>)) = Parsed(s, <<>>)
      BY ONLY <2>1, <2>2, <2>4, ReadExports
    <2>6. parse_vec(parse_export, c).val = s
      BY ONLY <2>5, Whole, ParsedFields
    <2>7. 7 \in Int
      OBVIOUS
    <2> QED
      BY ONLY <2>3, <2>5, <2>6, <2>7 DEF Framed
  <1> QED
    BY ONLY <1>1, <1>2

(* The code section.                                                       *)
LEMMA CodeSection ==
    ASSUME NEW s, Optional(s, Bodies)
    PROVE  /\ s = NULL => Format!Section(10, Format!Code, s) = <<>>
           /\ s # NULL => \E c : /\ Framed(Format!Section(10, Format!Code, s), 10, c)
                                 /\ parse_vec(parse_code, c).val = s
  <1>1. s = NULL => Format!Section(10, Format!Code, s) = <<>>
    BY DEF Format!Section
  <1>2. ASSUME s # NULL
        PROVE  \E c : Framed(Format!Section(10, Format!Code, s), 10, c) /\ parse_vec(parse_code, c).val = s
    <2>1. s \in Seq(Bodies)
      BY <1>2 DEF Optional
    <2>2. PICK c : c = Format!Vec(Format!Code, s)
      OBVIOUS
    <2>3. Format!Section(10, Format!Code, s) = Frame(10, c)
      BY ONLY <1>2, <2>2 DEF Format!Section, Frame, Then
    <2>4. <<>> \in Buffers
      BY ThenFacts
    <2>5. c \in Buffers /\ parse_vec(parse_code, Then(c, <<>>)) = Parsed(s, <<>>)
      BY ONLY <2>1, <2>2, <2>4, ReadCodes
    <2>6. parse_vec(parse_code, c).val = s
      BY ONLY <2>5, Whole, ParsedFields
    <2>7. 10 \in Int
      OBVIOUS
    <2> QED
      BY ONLY <2>3, <2>5, <2>6, <2>7 DEF Framed
  <1> QED
    BY ONLY <1>1, <1>2

\* Imports of functions only, segments active only.
OfKind0(s) == \A d \in ToSet(s) : d.kind = 0

(* Segments that are all active.                                           *)
LEMMA Kind0 == \A s \in Seq(AnyData) : OfKind0(s) => s \in Seq(ActiveData)
  <1> SUFFICES ASSUME NEW s \in Seq(AnyData), OfKind0(s) PROVE s \in Seq(ActiveData)
    OBVIOUS
  <1>1. \A i \in 1..Len(s) : s[i] \in AnyData /\ s[i].kind = 0
    BY ElementsSeq DEF OfKind0
  <1>2. \A e \in AnyData : e.kind = 0 => e \in ActiveData
    BY DEF AnyData, ActiveData
  <1>3. Len(s) \in Nat /\ s = [i \in 1..Len(s) |-> s[i]]
    OBVIOUS
  <1>4. \A i \in 1..Len(s) : s[i] \in ActiveData
    BY ONLY <1>1, <1>2
  <1> QED
    BY ONLY <1>3, <1>4

(* Of vectors whose elements are the same but for what is behind the last. *)
LEMMA Headed ==
    ASSUME NEW n \in Nat, NEW ws \in Seq(Buffers), NEW hs \in Seq(Buffers), Len(ws) = n, Len(hs) = n,
           \A k \in 1..n : k < n => ws[k] = hs[k],
           n > 0 => \E t \in Buffers : ws[n] = Then(hs[n], t)
    PROVE  \E t \in Buffers : Vector(ws) = Then(Vector(hs), t)
  <1>1. Vector(hs) \in Buffers
    BY ThenFacts, VectorFacts
  <1>2. CASE n = 0
    <2>1. ws = hs
      BY <1>2
    <2> QED
      BY ONLY <1>1, <2>1, ThenFacts
  <1>3. CASE n > 0
    <2>1. PICK t \in Buffers : ws[n] = Then(hs[n], t)
      BY <1>3
    <2> DEFINE front == SubSeq(ws, 1, n - 1)
    <2>2. PICK x, h : x = ws[n] /\ h = hs[n]
      OBVIOUS
    <2>3. x \in Buffers /\ h \in Buffers /\ front \in Seq(Buffers)
      BY <1>3, <2>2
    <2>4. ws = Append(front, x)
      BY <1>3, <2>2
    <2>5. hs = Append(front, h)
      <3>1. \A k \in 1..(n - 1) : front[k] = hs[k]
        BY <1>3
      <3> QED
        BY <1>3, <2>2, <3>1
    <2> HIDE DEF front
    <2>6. PICK f : f = FlattenSeq(front)
      OBVIOUS
    <2>7. f \in Buffers
      BY ONLY <2>3, <2>6, FlattenType DEF Buffers
    <2>8. FlattenSeq(ws) = Then(f, x) /\ FlattenSeq(hs) = Then(f, h)
      BY ONLY <2>3, <2>4, <2>5, <2>6, FlattenSnoc DEF Buffers, Then
    <2>9. PICK p \in Buffers : p = <<n>>
      <3>1. n \in Int
        OBVIOUS
      <3> QED
        BY ONLY <3>1, OneToken
    <2>10. Vector(ws) = Then(p, Then(f, Then(h, t))) /\ Vector(hs) = Then(p, Then(f, h))
      BY ONLY <2>1, <2>2, <2>8, <2>9, Len(ws) = n, Len(hs) = n DEF Vector
    <2>11. Then(Then(p, Then(f, h)), t) = Then(p, Then(f, Then(h, t)))
      BY ONLY <2>3, <2>7, p \in Buffers, t \in Buffers, ThenFacts
    <2> QED
      BY ONLY <2>10, <2>11, t \in Buffers
  <1> QED
    BY <1>2, <1>3

(* Only what is no function has something behind what is read of it.       *)
LEMMA ImportTail ==
    \A e \in ImportsRead :
        \E t \in Buffers : Format!Import(e) = Then(ImportHead(e), t) /\ (e.kind = 0 => Format!Import(e) = ImportHead(e))
  <1> SUFFICES ASSUME NEW e \in ImportsRead
               PROVE  \E t \in Buffers : /\ Format!Import(e) = Then(ImportHead(e), t)
                                         /\ e.kind = 0 => Format!Import(e) = ImportHead(e)
    OBVIOUS
  <1>1. PICK t : t = IF e.kind = 0 THEN <<>> ELSE <<1>>
    OBVIOUS
  <1>2. <<>> \in Buffers /\ 1 \in Int
    BY ThenFacts
  <1>3. t \in Buffers
    BY ONLY <1>1, <1>2, OneToken
  <1>4. Format!Import(e) = Then(ImportHead(e), t)
    BY ONLY <1>1 DEF Format!Import, ImportHead, Then
  <1>5. ImportHead(e) \in Buffers
    BY ONLY <1>2, e \in ImportsRead, ReadImport
  <1> QED
    BY ONLY <1>1, <1>3, <1>4, <1>5, ThenFacts

(* Only what is not active has.                                            *)
LEMMA DataTail ==
    \A e \in AnyData :
        \E t \in Buffers : Format!Data(e) = Then(DataHead(e), t) /\ (e.kind = 0 => Format!Data(e) = DataHead(e))
  <1> SUFFICES ASSUME NEW e \in AnyData
               PROVE  \E t \in Buffers : /\ Format!Data(e) = Then(DataHead(e), t)
                                         /\ e.kind = 0 => Format!Data(e) = DataHead(e)
    OBVIOUS
  <1>1. <<>> \in Buffers
    BY ThenFacts
  <1>2. DataHead(e) \in Buffers
    BY ONLY <1>1, e \in AnyData, ReadData
  <1>3. CASE e.kind = 0
    BY ONLY <1>1, <1>2, <1>3, ThenFacts DEF DataHead
  <1>4. CASE e.kind # 0
    <2>1. e.expr \in Seq(Format!Instruction) /\ e.data \in Seq(Int)
      BY DEF AnyData
    <2>2. PICK p, x, y : p = <<e.kind>> /\ x = Format!Expr(e.expr) /\ y = Format!Name(e.data)
      OBVIOUS
    <2>3. x \in Buffers
      BY ONLY <1>1, <2>1, <2>2, UnreadExists
    <2>4. y \in Buffers
      BY ONLY <1>1, <2>1, <2>2, ReadName
    <2>5. DataHead(e) = p
      BY ONLY <1>4, <2>2 DEF DataHead
    <2>6. Format!Data(e) = Then(Then(p, x), y)
      BY ONLY <2>2 DEF Format!Data, Then
    <2>7. p \in Buffers /\ Then(x, y) \in Buffers
      BY ONLY <1>2, <2>3, <2>4, <2>5, ThenFacts
    <2>8. Format!Data(e) = Then(DataHead(e), Then(x, y))
      BY ONLY <2>3, <2>4, <2>5, <2>6, <2>7, ThenFacts
    <2> QED
      BY ONLY <1>4, <2>7, <2>8
  <1> QED
    BY ONLY <1>3, <1>4

(* The import section, if it hides nothing.                                *)
LEMMA ImportSection ==
    ASSUME NEW s, Optional(s, ImportsRead)
    PROVE  /\ s = NULL => Format!Section(2, Format!Import, s) = <<>>
           /\ s # NULL => \E c : /\ Framed(Format!Section(2, Format!Import, s), 2, c)
                                 /\ ~Hides(s) => parse_vec(parse_import, c).val = s
  <1>1. s = NULL => Format!Section(2, Format!Import, s) = <<>>
    BY DEF Format!Section
  <1>2. ASSUME s # NULL
        PROVE  \E c : /\ Framed(Format!Section(2, Format!Import, s), 2, c)
                      /\ ~Hides(s) => parse_vec(parse_import, c).val = s
    <2>1. s \in Seq(ImportsRead)
      BY <1>2 DEF Optional
    <2> DEFINE ws == [k \in DOMAIN s |-> Format!Import(s[k])]
               hs == [k \in DOMAIN s |-> ImportHead(s[k])]
               n == Len(s)
    <2>2. PICK c : c = Format!Vec(Format!Import, s)
      OBVIOUS
    <2>3. Format!Section(2, Format!Import, s) = Frame(2, c)
      BY ONLY <1>2, <2>2 DEF Format!Section, Frame, Then
    <2>4. c = Then(<<n>>, FlattenSeq(ws)) /\ Format!Vec(ImportHead, s) = Then(<<n>>, FlattenSeq(hs))
      BY ONLY <2>2 DEF Format!Vec, Format!FlattenSeq, FlattenSeq, Then
    <2>5. /\ n \in Nat /\ \A k \in 1..n : s[k] \in ImportsRead
          /\ ws = [k \in 1..n |-> Format!Import(s[k])] /\ hs = [k \in 1..n |-> ImportHead(s[k])]
      BY <2>1
    <2>6. DOMAIN s = 1..n
      BY <2>1
    <2>7. Items(s) = s
      BY ONLY <1>2 DEF Items
    <2> HIDE DEF ws, hs, n
    <2>8. <<>> \in Buffers
      BY ThenFacts
    <2>9. \A k \in 1..n : /\ ImportHead(s[k]) \in Buffers
                          /\ \E t \in Buffers : Format!Import(s[k]) = Then(ImportHead(s[k]), t)
                          /\ s[k].kind = 0 => Format!Import(s[k]) = ImportHead(s[k])
      BY ONLY <2>5, <2>8, ReadImport, ImportTail
    <2>10. \A k \in 1..n : Format!Import(s[k]) \in Buffers
      BY ONLY <2>9, ThenFacts
    <2>11. /\ ws \in Seq(Buffers) /\ Len(ws) = n /\ \A k \in 1..n : ws[k] = Format!Import(s[k])
           /\ hs \in Seq(Buffers) /\ Len(hs) = n /\ \A k \in 1..n : hs[k] = ImportHead(s[k])
      BY ONLY <2>5, <2>9, <2>10
    <2>12. c = Vector(ws) /\ Format!Vec(ImportHead, s) = Vector(hs)
      BY ONLY <2>4, <2>11 DEF Vector
    <2>13. c \in Buffers
      BY ONLY <2>8, <2>11, <2>12, VectorFacts
    <2>14. ASSUME ~Hides(s) PROVE parse_vec(parse_import, c).val = s
      <3>1. \A k \in 1..n : k < n => s[k].kind = 0
        <4>1. n = Len(Items(s)) /\ DOMAIN Items(s) = 1..n
          BY ONLY <2>6, <2>7 DEF n
        <4> QED
          BY ONLY <2>7, <2>14, <4>1 DEF Hides
      <3>2. \A k \in 1..n : k < n => ws[k] = hs[k]
        BY ONLY <2>9, <2>11, <3>1
      <3>3. n > 0 => \E t \in Buffers : ws[n] = Then(hs[n], t)
        <4>1. n > 0 => n \in 1..n
          BY ONLY <2>5
        <4> QED
          BY ONLY <2>9, <2>11, <4>1
      <3>4. PICK t \in Buffers : Vector(ws) = Then(Vector(hs), t)
        BY ONLY <2>5, <2>11, <3>2, <3>3, Headed
      <3>5. parse_vec(parse_import, Then(Format!Vec(ImportHead, s), t)) = Parsed(s, t)
        BY ONLY <2>1, t \in Buffers, ReadImports
      <3> QED
        BY ONLY <2>12, <3>4, <3>5, ParsedFields
    <2>15. 2 \in Int
      OBVIOUS
    <2>16. Framed(Format!Section(2, Format!Import, s), 2, c)
      BY ONLY <2>3, <2>13, <2>15 DEF Framed
    <2> QED
      BY ONLY <2>14, <2>16
  <1> QED
    BY ONLY <1>1, <1>2

(* The data section, if it hides nothing.                                  *)
LEMMA DataSection ==
    ASSUME NEW s, Optional(s, AnyData)
    PROVE  /\ s = NULL => Format!Section(11, Format!Data, s) = <<>>
           /\ s # NULL => \E c : /\ Framed(Format!Section(11, Format!Data, s), 11, c)
                                 /\ ~Hides(s) => parse_vec(parse_data, c).val = [k \in DOMAIN s |-> Kept(s[k])]
  <1>1. s = NULL => Format!Section(11, Format!Data, s) = <<>>
    BY DEF Format!Section
  <1>2. ASSUME s # NULL
        PROVE  \E c : /\ Framed(Format!Section(11, Format!Data, s), 11, c)
                      /\ ~Hides(s) => parse_vec(parse_data, c).val = [k \in DOMAIN s |-> Kept(s[k])]
    <2>1. s \in Seq(AnyData)
      BY <1>2 DEF Optional
    <2> DEFINE ws == [k \in DOMAIN s |-> Format!Data(s[k])]
               hs == [k \in DOMAIN s |-> DataHead(s[k])]
               n == Len(s)
    <2>2. PICK c : c = Format!Vec(Format!Data, s)
      OBVIOUS
    <2>3. Format!Section(11, Format!Data, s) = Frame(11, c)
      BY ONLY <1>2, <2>2 DEF Format!Section, Frame, Then
    <2>4. c = Then(<<n>>, FlattenSeq(ws)) /\ Format!Vec(DataHead, s) = Then(<<n>>, FlattenSeq(hs))
      BY ONLY <2>2 DEF Format!Vec, Format!FlattenSeq, FlattenSeq, Then
    <2>5. /\ n \in Nat /\ \A k \in 1..n : s[k] \in AnyData
          /\ ws = [k \in 1..n |-> Format!Data(s[k])] /\ hs = [k \in 1..n |-> DataHead(s[k])]
      BY <2>1
    <2>6. DOMAIN s = 1..n
      BY <2>1
    <2>7. Items(s) = s
      BY ONLY <1>2 DEF Items
    <2> HIDE DEF ws, hs, n
    <2>8. <<>> \in Buffers
      BY ThenFacts
    <2>9. \A k \in 1..n : /\ DataHead(s[k]) \in Buffers
                          /\ \E t \in Buffers : Format!Data(s[k]) = Then(DataHead(s[k]), t)
                          /\ s[k].kind = 0 => Format!Data(s[k]) = DataHead(s[k])
      BY ONLY <2>5, <2>8, ReadData, DataTail
    <2>10. \A k \in 1..n : Format!Data(s[k]) \in Buffers
      BY ONLY <2>9, ThenFacts
    <2>11. /\ ws \in Seq(Buffers) /\ Len(ws) = n /\ \A k \in 1..n : ws[k] = Format!Data(s[k])
           /\ hs \in Seq(Buffers) /\ Len(hs) = n /\ \A k \in 1..n : hs[k] = DataHead(s[k])
      BY ONLY <2>5, <2>9, <2>10
    <2>12. c = Vector(ws) /\ Format!Vec(DataHead, s) = Vector(hs)
      BY ONLY <2>4, <2>11 DEF Vector
    <2>13. c \in Buffers
      BY ONLY <2>8, <2>11, <2>12, VectorFacts
    <2>14. ASSUME ~Hides(s) PROVE parse_vec(parse_data, c).val = [k \in DOMAIN s |-> Kept(s[k])]
      <3>1. \A k \in 1..n : k < n => s[k].kind = 0
        <4>1. n = Len(Items(s)) /\ DOMAIN Items(s) = 1..n
          BY ONLY <2>6, <2>7 DEF n
        <4> QED
          BY ONLY <2>7, <2>14, <4>1 DEF Hides
      <3>2. \A k \in 1..n : k < n => ws[k] = hs[k]
        BY ONLY <2>9, <2>11, <3>1
      <3>3. n > 0 => \E t \in Buffers : ws[n] = Then(hs[n], t)
        <4>1. n > 0 => n \in 1..n
          BY ONLY <2>5
        <4> QED
          BY ONLY <2>9, <2>11, <4>1
      <3>4. PICK t \in Buffers : Vector(ws) = Then(Vector(hs), t)
        BY ONLY <2>5, <2>11, <3>2, <3>3, Headed
      <3>5. PICK v : v = [k \in DOMAIN s |-> Kept(s[k])]
        OBVIOUS
      <3>6. parse_vec(parse_data, Then(Format!Vec(DataHead, s), t)) = Parsed(v, t)
        BY ONLY <2>1, <3>5, t \in Buffers, ReadDatas
      <3> QED
        BY ONLY <2>12, <3>4, <3>5, <3>6, ParsedFields
    <2>15. 11 \in Int
      OBVIOUS
    <2>16. Framed(Format!Section(11, Format!Data, s), 11, c)
      BY ONLY <2>3, <2>13, <2>15 DEF Framed
    <2> QED
      BY ONLY <2>14, <2>16
  <1> QED
    BY ONLY <1>1, <1>2

----------------------------------------------------------------------------
(* new_module                                                              *)

\* What m has of p when the sections in front of the k-th are read: a section
\* that stands at this place, the imports, and the segments.
Has(x, w, place, k) == x = IF place < k THEN w ELSE NULL
KeptOf(w) == IF w = NULL THEN NULL ELSE [k \in DOMAIN w |-> Kept(w[k])]
Filled(q, p, k) ==
    /\ q = [typesec |-> q.typesec, importsec |-> q.importsec, funcsec |-> q.funcsec, memsec |-> q.memsec,
            globalsec |-> q.globalsec, exportsec |-> q.exportsec, codesec |-> q.codesec, datasec |-> q.datasec]
    /\ Has(q.typesec, p.typesec, 1, k) /\ Has(q.importsec, p.importsec, 2, k)
    /\ Has(q.funcsec, p.funcsec, 4, k) /\ Has(q.memsec, p.memsec, 6, k) /\ Has(q.globalsec, p.globalsec, 7, k)
    /\ Has(q.exportsec, p.exportsec, 8, k) /\ Has(q.codesec, p.codesec, 11, k)
    /\ Has(q.datasec, KeptOf(p.datasec), 12, k)

\* Section id of p hides nothing.
Clear(p, id) == (id = 2 => ~Hides(p.importsec)) /\ (id = 11 => ~Hides(p.datasec))

\* t is the k-th section: it is not there, or it is read if it hides nothing.
Advances(q, p, k, t) ==
    /\ t \in Buffers
    /\ t = <<>> => Filled(q, p, k + 1)
    /\ t # <<>> => \E id, c : Framed(t, id, c) /\ (Clear(p, id) => Filled(parse_section(q, id, c), p, k + 1))

(* A section that is there is not empty.                                   *)
LEMMA FramedFacts ==
    /\ \A t, id, c : Framed(t, id, c) => t \in Buffers /\ t # <<>>
    /\ <<>> \in Buffers
  BY ReadFrame, ThenFacts

(* An unknown section is passed over.                                      *)
LEMMA UnknownSection ==
    ASSUME NEW p, NEW id \in {0, 4, 8, 9}, p.others \in BOOLEAN
    PROVE  /\ ~p.others => Format!Other(p, id) = <<>>
           /\ p.others => \E c : Framed(Format!Other(p, id), id, c)
           /\ \A q, c : parse_section(q, id, c) = q
  <1>1. ~p.others => Format!Other(p, id) = <<>>
    BY DEF Format!Other
  <1>2. ASSUME p.others PROVE \E c : Framed(Format!Other(p, id), id, c)
    <2>1. PICK c : c = <<1, 3>>
      OBVIOUS
    <2>2. c \in Buffers /\ Len(c) = 2 /\ c \in Seq(Int) /\ c[1] = 1 /\ c[2] = 3
      BY <2>1 DEF Buffers
    <2>3. Format!Other(p, id) = <<id, 2, 1, 3>>
      BY <1>2 DEF Format!Other
    <2>4. <<id, 2, 1, 3>> = <<id, 2>> \o c
      <3>1. /\ <<id, 2>> \o <<1, 3>> \in Seq(Int) /\ Len(<<id, 2>> \o <<1, 3>>) = 4
            /\ (<<id, 2>> \o <<1, 3>>)[1] = id /\ (<<id, 2>> \o <<1, 3>>)[2] = 2
            /\ (<<id, 2>> \o <<1, 3>>)[3] = 1 /\ (<<id, 2>> \o <<1, 3>>)[4] = 3
        OBVIOUS
      <3>2. /\ <<id, 2, 1, 3>> \in Seq(Int) /\ Len(<<id, 2, 1, 3>>) = 4
            /\ <<id, 2, 1, 3>>[1] = id /\ <<id, 2, 1, 3>>[2] = 2
            /\ <<id, 2, 1, 3>>[3] = 1 /\ <<id, 2, 1, 3>>[4] = 3
        OBVIOUS
      <3>3. \A i \in 1..4 : i = 1 \/ i = 2 \/ i = 3 \/ i = 4
        OBVIOUS
      <3> QED
        BY <2>1, <3>1, <3>2, <3>3, ST!SeqEqual
    <2>5. id \in Int
      OBVIOUS
    <2>6. Frame(id, c) = <<id, 2>> \o c
      BY ONLY <2>2 DEF Frame, Then
    <2> QED
      BY ONLY <2>2, <2>3, <2>4, <2>5, <2>6 DEF Framed
  <1>3. \A q, c : parse_section(q, id, c) = q
    BY DEF parse_section
  <1> QED
    BY ONLY <1>1, <1>2, <1>3

(* At the type section.                                                    *)
LEMMA AtTypes ==
    ASSUME NEW p \in Format!Writable, NEW q, Filled(q, p, 1)
    PROVE  Advances(q, p, 1, Format!Section(1, Format!Type, p.typesec))
  <1>1. PICK s : s = p.typesec
    OBVIOUS
  <1>2. Optional(s, Types)
    BY <1>1, ModuleTypes
  <1>3. PICK t : t = Format!Section(1, Format!Type, s)
    OBVIOUS
  <1>4. s = NULL => t = <<>>
    BY ONLY <1>2, <1>3, TypeSection
  <1>5. s # NULL => \E c : Framed(t, 1, c) /\ parse_vec(parse_functype, c).val = s
    BY ONLY <1>2, <1>3, TypeSection
  <1>6. CASE s = NULL
    <2>1. Filled(q, p, 1 + 1)
      BY ONLY <1>1, <1>6, Filled(q, p, 1) DEF Filled, Has
    <2> QED
      BY ONLY <1>1, <1>3, <1>4, <1>6, <2>1, FramedFacts DEF Advances
  <1>7. CASE s # NULL
    <2>1. PICK c : Framed(t, 1, c) /\ parse_vec(parse_functype, c).val = s
      BY ONLY <1>5, <1>7
    <2>2. parse_section(q, 1, c) = [q EXCEPT !.typesec = s]
      BY ONLY <2>1 DEF parse_section
    <2>3. Filled([q EXCEPT !.typesec = s], p, 1 + 1)
      BY ONLY <1>1, Filled(q, p, 1) DEF Filled, Has
    <2> QED
      BY ONLY <1>1, <1>3, <2>1, <2>2, <2>3, FramedFacts DEF Advances
  <1> QED
    BY ONLY <1>6, <1>7

(* At the function section.                                                *)
LEMMA AtFuncs ==
    ASSUME NEW p \in Format!Writable, NEW q, Filled(q, p, 4)
    PROVE  Advances(q, p, 4, Format!Section(3, Format!Index, p.funcsec))
  <1>1. PICK s : s = p.funcsec
    OBVIOUS
  <1>2. Optional(s, Int)
    BY <1>1, ModuleTypes, NumbersAreBuffers DEF Optional
  <1>3. PICK t : t = Format!Section(3, Format!Index, s)
    OBVIOUS
  <1>4. s = NULL => t = <<>>
    BY ONLY <1>2, <1>3, FuncSection
  <1>5. s # NULL => \E c : Framed(t, 3, c) /\ parse_vec(parse_typeidx, c).val = s
    BY ONLY <1>2, <1>3, FuncSection
  <1>6. CASE s = NULL
    <2>1. Filled(q, p, 4 + 1)
      BY ONLY <1>1, <1>6, Filled(q, p, 4) DEF Filled, Has
    <2> QED
      BY ONLY <1>1, <1>3, <1>4, <1>6, <2>1, FramedFacts DEF Advances
  <1>7. CASE s # NULL
    <2>1. PICK c : Framed(t, 3, c) /\ parse_vec(parse_typeidx, c).val = s
      BY ONLY <1>5, <1>7
    <2>2. parse_section(q, 3, c) = [q EXCEPT !.funcsec = s]
      BY ONLY <2>1 DEF parse_section
    <2>3. Filled([q EXCEPT !.funcsec = s], p, 4 + 1)
      BY ONLY <1>1, Filled(q, p, 4) DEF Filled, Has
    <2> QED
      BY ONLY <1>1, <1>3, <2>1, <2>2, <2>3, FramedFacts DEF Advances
  <1> QED
    BY ONLY <1>6, <1>7

(* At the memory section.                                                  *)
LEMMA AtMems ==
    ASSUME NEW p \in Format!Writable, NEW q, Filled(q, p, 6)
    PROVE  Advances(q, p, 6, Format!Section(5, Format!Mem, p.memsec))
  <1>1. PICK s : s = p.memsec
    OBVIOUS
  <1>2. Optional(s, MemoryTypes)
    BY <1>1, ModuleTypes
  <1>3. PICK t : t = Format!Section(5, Format!Mem, s)
    OBVIOUS
  <1>4. s = NULL => t = <<>>
    BY ONLY <1>2, <1>3, MemSection
  <1>5. s # NULL => \E c : Framed(t, 5, c) /\ parse_vec(parse_mem, c).val = s
    BY ONLY <1>2, <1>3, MemSection
  <1>6. CASE s = NULL
    <2>1. Filled(q, p, 6 + 1)
      BY ONLY <1>1, <1>6, Filled(q, p, 6) DEF Filled, Has
    <2> QED
      BY ONLY <1>1, <1>3, <1>4, <1>6, <2>1, FramedFacts DEF Advances
  <1>7. CASE s # NULL
    <2>1. PICK c : Framed(t, 5, c) /\ parse_vec(parse_mem, c).val = s
      BY ONLY <1>5, <1>7
    <2>2. parse_section(q, 5, c) = [q EXCEPT !.memsec = s]
      BY ONLY <2>1 DEF parse_section
    <2>3. Filled([q EXCEPT !.memsec = s], p, 6 + 1)
      BY ONLY <1>1, Filled(q, p, 6) DEF Filled, Has
    <2> QED
      BY ONLY <1>1, <1>3, <2>1, <2>2, <2>3, FramedFacts DEF Advances
  <1> QED
    BY ONLY <1>6, <1>7

(* At the global section.                                                  *)
LEMMA AtGlobals ==
    ASSUME NEW p \in Format!Writable, NEW q, Filled(q, p, 7)
    PROVE  Advances(q, p, 7, Format!Section(6, Format!Global, p.globalsec))
  <1>1. PICK s : s = p.globalsec
    OBVIOUS
  <1>2. Optional(s, GlobalInits)
    BY <1>1, ModuleTypes
  <1>3. PICK t : t = Format!Section(6, Format!Global, s)
    OBVIOUS
  <1>4. s = NULL => t = <<>>
    BY ONLY <1>2, <1>3, GlobalSection
  <1>5. s # NULL => \E c : Framed(t, 6, c) /\ parse_vec(parse_global, c).val = s
    BY ONLY <1>2, <1>3, GlobalSection
  <1>6. CASE s = NULL
    <2>1. Filled(q, p, 7 + 1)
      BY ONLY <1>1, <1>6, Filled(q, p, 7) DEF Filled, Has
    <2> QED
      BY ONLY <1>1, <1>3, <1>4, <1>6, <2>1, FramedFacts DEF Advances
  <1>7. CASE s # NULL
    <2>1. PICK c : Framed(t, 6, c) /\ parse_vec(parse_global, c).val = s
      BY ONLY <1>5, <1>7
    <2>2. parse_section(q, 6, c) = [q EXCEPT !.globalsec = s]
      BY ONLY <2>1 DEF parse_section
    <2>3. Filled([q EXCEPT !.globalsec = s], p, 7 + 1)
      BY ONLY <1>1, Filled(q, p, 7) DEF Filled, Has
    <2> QED
      BY ONLY <1>1, <1>3, <2>1, <2>2, <2>3, FramedFacts DEF Advances
  <1> QED
    BY ONLY <1>6, <1>7

(* At the export section.                                                  *)
LEMMA AtExports ==
    ASSUME NEW p \in Format!Writable, NEW q, Filled(q, p, 8)
    PROVE  Advances(q, p, 8, Format!Section(7, Format!Export, p.exportsec))
  <1>1. PICK s : s = p.exportsec
    OBVIOUS
  <1>2. Optional(s, Exports)
    BY <1>1, ModuleTypes
  <1>3. PICK t : t = Format!Section(7, Format!Export, s)
    OBVIOUS
  <1>4. s = NULL => t = <<>>
    BY ONLY <1>2, <1>3, ExportSection
  <1>5. s # NULL => \E c : Framed(t, 7, c) /\ parse_vec(parse_export, c).val = s
    BY ONLY <1>2, <1>3, ExportSection
  <1>6. CASE s = NULL
    <2>1. Filled(q, p, 8 + 1)
      BY ONLY <1>1, <1>6, Filled(q, p, 8) DEF Filled, Has
    <2> QED
      BY ONLY <1>1, <1>3, <1>4, <1>6, <2>1, FramedFacts DEF Advances
  <1>7. CASE s # NULL
    <2>1. PICK c : Framed(t, 7, c) /\ parse_vec(parse_export, c).val = s
      BY ONLY <1>5, <1>7
    <2>2. parse_section(q, 7, c) = [q EXCEPT !.exportsec = s]
      BY ONLY <2>1 DEF parse_section
    <2>3. Filled([q EXCEPT !.exportsec = s], p, 8 + 1)
      BY ONLY <1>1, Filled(q, p, 8) DEF Filled, Has
    <2> QED
      BY ONLY <1>1, <1>3, <2>1, <2>2, <2>3, FramedFacts DEF Advances
  <1> QED
    BY ONLY <1>6, <1>7

(* At the code section.                                                    *)
LEMMA AtCodes ==
    ASSUME NEW p \in Format!Writable, NEW q, Filled(q, p, 11)
    PROVE  Advances(q, p, 11, Format!Section(10, Format!Code, p.codesec))
  <1>1. PICK s : s = p.codesec
    OBVIOUS
  <1>2. Optional(s, Bodies)
    BY <1>1, ModuleTypes
  <1>3. PICK t : t = Format!Section(10, Format!Code, s)
    OBVIOUS
  <1>4. s = NULL => t = <<>>
    BY ONLY <1>2, <1>3, CodeSection
  <1>5. s # NULL => \E c : Framed(t, 10, c) /\ parse_vec(parse_code, c).val = s
    BY ONLY <1>2, <1>3, CodeSection
  <1>6. CASE s = NULL
    <2>1. Filled(q, p, 11 + 1)
      BY ONLY <1>1, <1>6, Filled(q, p, 11) DEF Filled, Has
    <2> QED
      BY ONLY <1>1, <1>3, <1>4, <1>6, <2>1, FramedFacts DEF Advances
  <1>7. CASE s # NULL
    <2>1. PICK c : Framed(t, 10, c) /\ parse_vec(parse_code, c).val = s
      BY ONLY <1>5, <1>7
    <2>2. parse_section(q, 10, c) = [q EXCEPT !.codesec = s]
      BY ONLY <2>1 DEF parse_section
    <2>3. Filled([q EXCEPT !.codesec = s], p, 11 + 1)
      BY ONLY <1>1, Filled(q, p, 11) DEF Filled, Has
    <2> QED
      BY ONLY <1>1, <1>3, <2>1, <2>2, <2>3, FramedFacts DEF Advances
  <1> QED
    BY ONLY <1>6, <1>7

(* At the import section.                                                  *)
LEMMA AtImports ==
    ASSUME NEW p \in Format!Writable, NEW q, Filled(q, p, 2)
    PROVE  Advances(q, p, 2, Format!Section(2, Format!Import, p.importsec))
  <1>1. PICK s : s = p.importsec
    OBVIOUS
  <1>2. Optional(s, ImportsRead)
    BY <1>1, ModuleTypes
  <1>3. PICK t : t = Format!Section(2, Format!Import, s)
    OBVIOUS
  <1>4. s = NULL => t = <<>>
    BY ONLY <1>2, <1>3, ImportSection
  <1>5. s # NULL => \E c : Framed(t, 2, c) /\ (~Hides(s) => parse_vec(parse_import, c).val = s)
    BY ONLY <1>2, <1>3, ImportSection
  <1>6. CASE s = NULL
    <2>1. Filled(q, p, 2 + 1)
      BY ONLY <1>1, <1>6, Filled(q, p, 2) DEF Filled, Has
    <2> QED
      BY ONLY <1>1, <1>3, <1>4, <1>6, <2>1, FramedFacts DEF Advances
  <1>7. CASE s # NULL
    <2>1. PICK c : Framed(t, 2, c) /\ (~Hides(s) => parse_vec(parse_import, c).val = s)
      BY ONLY <1>5, <1>7
    <2>2. ASSUME Clear(p, 2) PROVE Filled(parse_section(q, 2, c), p, 2 + 1)
      <3>1. parse_vec(parse_import, c).val = s
        BY ONLY <1>1, <2>1, <2>2 DEF Clear
      <3>2. parse_section(q, 2, c) = [q EXCEPT !.importsec = s]
        BY ONLY <3>1 DEF parse_section
      <3>3. Filled([q EXCEPT !.importsec = s], p, 2 + 1)
        BY ONLY <1>1, Filled(q, p, 2) DEF Filled, Has
      <3> QED
        BY ONLY <3>2, <3>3
    <2> QED
      BY ONLY <1>1, <1>3, <2>1, <2>2, FramedFacts DEF Advances
  <1> QED
    BY ONLY <1>6, <1>7

(* At the data section.                                                    *)
LEMMA AtDatas ==
    ASSUME NEW p \in Format!Writable, NEW q, Filled(q, p, 12)
    PROVE  Advances(q, p, 12, Format!Section(11, Format!Data, p.datasec))
  <1>1. PICK s : s = p.datasec
    OBVIOUS
  <1>2. Optional(s, AnyData)
    BY <1>1, ModuleTypes
  <1>3. PICK t : t = Format!Section(11, Format!Data, s)
    OBVIOUS
  <1>4. s = NULL => t = <<>>
    BY ONLY <1>2, <1>3, DataSection
  <1>5. s # NULL => \E c : /\ Framed(t, 11, c)
                           /\ ~Hides(s) => parse_vec(parse_data, c).val = [k \in DOMAIN s |-> Kept(s[k])]
    BY ONLY <1>2, <1>3, DataSection
  <1>6. CASE s = NULL
    <2>1. KeptOf(s) = NULL
      BY ONLY <1>6 DEF KeptOf
    <2>2. Filled(q, p, 12 + 1)
      BY ONLY <1>1, <2>1, Filled(q, p, 12) DEF Filled, Has
    <2> QED
      BY ONLY <1>1, <1>3, <1>4, <1>6, <2>2, FramedFacts DEF Advances
  <1>7. CASE s # NULL
    <2>1. PICK c : /\ Framed(t, 11, c)
                   /\ ~Hides(s) => parse_vec(parse_data, c).val = [k \in DOMAIN s |-> Kept(s[k])]
      BY ONLY <1>5, <1>7
    <2>2. ASSUME Clear(p, 11) PROVE Filled(parse_section(q, 11, c), p, 12 + 1)
      <3>1. PICK v : v = KeptOf(s)
        OBVIOUS
      <3>2. parse_vec(parse_data, c).val = v
        BY ONLY <1>1, <1>7, <2>1, <2>2, <3>1 DEF Clear, KeptOf
      <3>3. parse_section(q, 11, c) = [q EXCEPT !.datasec = v]
        BY ONLY <3>2 DEF parse_section
      <3>4. Filled([q EXCEPT !.datasec = v], p, 12 + 1)
        BY ONLY <1>1, <3>1, Filled(q, p, 12) DEF Filled, Has
      <3> QED
        BY ONLY <3>3, <3>4
    <2> QED
      BY ONLY <1>1, <1>3, <2>1, <2>2, FramedFacts DEF Advances
  <1> QED
    BY ONLY <1>6, <1>7

(* At a section that is not known.                                         *)
LEMMA AtOthers ==
    ASSUME NEW p \in Format!Writable, NEW q, NEW k \in {3, 5, 9, 10, 13}, NEW id \in {0, 4, 8, 9}, Filled(q, p, k)
    PROVE  Advances(q, p, k, Format!Other(p, id))
  <1>1. p.others \in BOOLEAN
    BY DEF Format!Writable
  <1>2. PICK t : t = Format!Other(p, id)
    OBVIOUS
  <1>3. /\ ~p.others => t = <<>>
        /\ p.others => \E c : Framed(t, id, c)
        /\ \A r, c : parse_section(r, id, c) = r
    BY <1>1, <1>2, UnknownSection
  <1>4. Filled(q, p, k + 1)
    <2>1. \A j \in {1, 2, 4, 6, 7, 8, 11, 12} : j < k <=> j < k + 1
      OBVIOUS
    <2> QED
      BY ONLY <2>1, Filled(q, p, k) DEF Filled, Has
  <1>5. CASE p.others
    <2>1. PICK c : Framed(t, id, c)
      BY ONLY <1>3, <1>5
    <2>2. Filled(parse_section(q, id, c), p, k + 1)
      BY ONLY <1>3, <1>4
    <2> QED
      BY ONLY <1>2, <2>1, <2>2, FramedFacts DEF Advances
  <1>6. CASE ~p.others
    BY ONLY <1>2, <1>3, <1>4, <1>6, FramedFacts DEF Advances
  <1> QED
    BY ONLY <1>1, <1>5, <1>6

(* At any section.                                                         *)
LEMMA AtSection ==
    ASSUME NEW p \in Format!Writable, NEW q, NEW k \in 1..13, Filled(q, p, k)
    PROVE  Advances(q, p, k, Format!Sections(p)[k])
  <1>1. /\ Format!Sections(p)[1] = Format!Section(1, Format!Type, p.typesec)
        /\ Format!Sections(p)[2] = Format!Section(2, Format!Import, p.importsec)
        /\ Format!Sections(p)[3] = Format!Other(p, 0)
        /\ Format!Sections(p)[4] = Format!Section(3, Format!Index, p.funcsec)
        /\ Format!Sections(p)[5] = Format!Other(p, 4)
        /\ Format!Sections(p)[6] = Format!Section(5, Format!Mem, p.memsec)
        /\ Format!Sections(p)[7] = Format!Section(6, Format!Global, p.globalsec)
        /\ Format!Sections(p)[8] = Format!Section(7, Format!Export, p.exportsec)
        /\ Format!Sections(p)[9] = Format!Other(p, 8)
        /\ Format!Sections(p)[10] = Format!Other(p, 9)
        /\ Format!Sections(p)[11] = Format!Section(10, Format!Code, p.codesec)
        /\ Format!Sections(p)[12] = Format!Section(11, Format!Data, p.datasec)
        /\ Format!Sections(p)[13] = Format!Other(p, 0)
    BY DEF Format!Sections
  <1>2. k \in {3, 5, 9, 10, 13} \/ k = 1 \/ k = 2 \/ k = 4 \/ k = 6 \/ k = 7 \/ k = 8 \/ k = 11 \/ k = 12
    OBVIOUS
  <1>3. CASE k \in {3, 5, 9, 10, 13}
    <2>1. \E id \in {0, 4, 8, 9} : Format!Sections(p)[k] = Format!Other(p, id)
      BY ONLY <1>1, <1>3
    <2> QED
      BY <1>3, <2>1, AtOthers
  <1>4. CASE k = 1
    BY <1>1, <1>4, AtTypes
  <1>5. CASE k = 2
    BY <1>1, <1>5, AtImports
  <1>6. CASE k = 4
    BY <1>1, <1>6, AtFuncs
  <1>7. CASE k = 6
    BY <1>1, <1>7, AtMems
  <1>8. CASE k = 7
    BY <1>1, <1>8, AtGlobals
  <1>9. CASE k = 8
    BY <1>1, <1>9, AtExports
  <1>10. CASE k = 11
    BY <1>1, <1>10, AtCodes
  <1>11. CASE k = 12
    BY <1>1, <1>11, AtDatas
  <1> QED
    BY ONLY <1>2, <1>3, <1>4, <1>5, <1>6, <1>7, <1>8, <1>9, <1>10, <1>11

(* There is something to have been filled, wherever one is.                *)
LEMMA FilledExists ==
    ASSUME NEW p, NEW k \in 1..14
    PROVE  \E q : Filled(q, p, k)
  <1> DEFINE q == [typesec   |-> IF 1 < k THEN p.typesec ELSE NULL,
                   importsec |-> IF 2 < k THEN p.importsec ELSE NULL,
                   funcsec   |-> IF 4 < k THEN p.funcsec ELSE NULL,
                   memsec    |-> IF 6 < k THEN p.memsec ELSE NULL,
                   globalsec |-> IF 7 < k THEN p.globalsec ELSE NULL,
                   exportsec |-> IF 8 < k THEN p.exportsec ELSE NULL,
                   codesec   |-> IF 11 < k THEN p.codesec ELSE NULL,
                   datasec   |-> IF 12 < k THEN KeptOf(p.datasec) ELSE NULL]
  <1>1. Filled(q, p, k)
    BY DEF Filled, Has
  <1> QED
    BY ONLY <1>1

(* The sections of a module are buffers.                                   *)
LEMMA SectionsAre ==
    ASSUME NEW p \in Format!Writable
    PROVE  Format!Sections(p) \in Seq(Buffers) /\ Len(Format!Sections(p)) = 13
  <1>1. Len(Format!Sections(p)) = 13 /\ Format!Sections(p) = [k \in 1..13 |-> Format!Sections(p)[k]]
    BY DEF Format!Sections
  <1>2. ASSUME NEW k \in 1..13 PROVE Format!Sections(p)[k] \in Buffers
    <2>1. PICK q : Filled(q, p, k)
      <3>1. k \in 1..14
        OBVIOUS
      <3> QED
        BY <3>1, FilledExists
    <2> QED
      BY <2>1, AtSection DEF Advances
  <1> QED
    BY ONLY <1>1, <1>2

\* The k-th section of p is next.
AtSections(q, b, p, k) == b = Left(Format!Sections(p), k) /\ Filled(q, p, k)

(* There is a section that is there, or the buffer is at its end.          *)
LEMMA Forward ==
    ASSUME NEW p \in Format!Writable, NEW q, NEW b, NEW k0 \in 1..14, AtSections(q, b, p, k0)
    PROVE  \/ AtSections(q, b, p, 14) /\ b = <<>>
           \/ \E k \in 1..13 : AtSections(q, b, p, k) /\ Format!Sections(p)[k] # <<>>
  <1> DEFINE ws == Format!Sections(p)
  <1>1. ws \in Seq(Buffers) /\ Len(ws) = 13
    BY SectionsAre
  <1> HIDE DEF ws
  <1>2. /\ \A k \in 1..14 : Left(ws, k) \in Buffers
        /\ \A k \in 1..13 : Left(ws, k) = Then(ws[k], Left(ws, k + 1))
        /\ Left(ws, 14) = <<>>
    <2>1. /\ \A j \in 1..(Len(ws) + 1) : Left(ws, j) \in Buffers
          /\ \A j \in 1..Len(ws) : Left(ws, j) = Then(ws[j], Left(ws, j + 1))
          /\ Left(ws, Len(ws) + 1) = <<>>
      BY ONLY <1>1, LeftStep
    <2>2. 13 + 1 = 14
      OBVIOUS
    <2> QED
      BY ONLY <1>1, <2>1, <2>2
  <1> DEFINE At_(k) == AtSections(q, b, p, k)
  <1>3. ASSUME NEW k \in 1..13, At_(k), ws[k] = <<>> PROVE At_(k + 1)
    <2>1. Advances(q, p, k, ws[k])
      BY <1>3, AtSection DEF AtSections, ws
    <2>2. Filled(q, p, k + 1)
      BY ONLY <1>3, <2>1 DEF Advances
    <2>3. k + 1 \in 1..14
      OBVIOUS
    <2>4. Left(ws, k) = Left(ws, k + 1)
      BY ONLY <1>2, <1>3, <2>3, k \in 1..13, ThenFacts
    <2> QED
      BY ONLY <1>3, <2>2, <2>4 DEF AtSections, ws
  <1>4. At_(k0)
    OBVIOUS
  <1> HIDE DEF At_
  <1>5. ASSUME \A k \in 1..13 : At_(k) => ws[k] = <<>> PROVE At_(14)
    <2>1. \A k \in 1..13 : At_(k) => At_(k + 1)
      BY ONLY <1>3, <1>5
    <2> DEFINE P == {j \in Nat : k0 + j <= 14 => At_(k0 + j)}
    <2>2. 0 \in P
      BY ONLY <1>4, k0 \in 1..14
    <2>3. ASSUME NEW j \in P PROVE j + 1 \in P
      <3>1. CASE k0 + (j + 1) <= 14
        <4>1. PICK i : i = k0 + j
          OBVIOUS
        <4>2. i \in 1..13 /\ k0 + j <= 14 /\ k0 + (j + 1) = i + 1 /\ j \in Nat
          BY ONLY <3>1, <4>1, k0 \in 1..14, j \in P
        <4>3. At_(i)
          BY ONLY <4>1, <4>2, j \in P
        <4> QED
          BY ONLY <2>1, <4>2, <4>3
      <3>2. CASE ~(k0 + (j + 1) <= 14)
        BY ONLY <3>2, j \in P
      <3> QED
        BY ONLY <3>1, <3>2
    <2>4. P \in SUBSET Nat
      OBVIOUS
    <2> HIDE DEF P
    <2>5. P = Nat
      BY ONLY <2>2, <2>3, <2>4, SetInduction
    <2>6. 14 - k0 \in Nat /\ k0 + (14 - k0) = 14
      OBVIOUS
    <2>7. 14 - k0 \in P
      BY ONLY <2>5, <2>6
    <2>8. k0 + (14 - k0) <= 14 => At_(k0 + (14 - k0))
      BY ONLY <2>7 DEF P
    <2> QED
      BY ONLY <2>6, <2>8
  <1>6. At_(14) => b = <<>>
    BY ONLY <1>2 DEF At_, AtSections, ws
  <1> QED
    BY ONLY <1>5, <1>6 DEF At_, ws

(* The section that is next is read, if it hides nothing.                  *)
LEMMA SectionStep ==
    ASSUME NEW p \in Format!Writable, NEW q, NEW b, NEW k \in 1..13, AtSections(q, b, p, k),
           Format!Sections(p)[k] # <<>>
    PROVE  /\ ~eof(b)
           /\ LET sec == readbuffer(Skip(b, 2), Token(b, 2))
              IN Clear(p, Token(b, 1)) => AtSections(parse_section(q, Token(b, 1), sec.new), sec.buf, p, k + 1)
  <1> DEFINE ws == Format!Sections(p)
  <1>1. ws \in Seq(Buffers) /\ Len(ws) = 13
    BY SectionsAre
  <1>2. Advances(q, p, k, ws[k])
    BY AtSection DEF AtSections
  <1> HIDE DEF ws
  <1>3. Left(ws, k) = Then(ws[k], Left(ws, k + 1)) /\ Left(ws, k + 1) \in Buffers
    <2>2. /\ \A j \in 1..(Len(ws) + 1) : Left(ws, j) \in Buffers
          /\ \A j \in 1..Len(ws) : Left(ws, j) = Then(ws[j], Left(ws, j + 1))
          /\ Left(ws, Len(ws) + 1) = <<>>
      BY ONLY <1>1, LeftStep
    <2>1. k \in 1..13 /\ k + 1 \in 1..(13 + 1)
      OBVIOUS
    <2> QED
      BY ONLY <1>1, <2>1, <2>2
  <1>4. PICK r \in Buffers : r = Left(ws, k + 1)
    BY ONLY <1>3
  <1>5. PICK t : t = ws[k]
    OBVIOUS
  <1>6. t # <<>> /\ b = Then(t, r)
    BY ONLY <1>3, <1>4, <1>5, AtSections(q, b, p, k), Format!Sections(p)[k] # <<>> DEF AtSections, ws
  <1>7. PICK id, c : Framed(t, id, c) /\ (Clear(p, id) => Filled(parse_section(q, id, c), p, k + 1))
    BY ONLY <1>2, <1>5, <1>6 DEF Advances
  <1>8. /\ ~eof(b) /\ Token(b, 1) = id
        /\ readbuffer(Skip(b, 2), Token(b, 2)) = [new |-> c, buf |-> r]
    BY ONLY <1>6, <1>7, r \in Buffers, ReadFrame
  <1> QED
    BY ONLY <1>4, <1>7, <1>8 DEF AtSections, ws

\* What is there of the segments w, and of those that are active what was written.
ItemsKept(x, w) ==
    /\ DOMAIN Items(x) = DOMAIN Items(w)
    /\ \A k \in DOMAIN Items(w) : x[k].kind = w[k].kind /\ (w[k].kind = 0 => x[k] = w[k])

(* It is what is made of them.                                             *)
LEMMA KeptItems ==
    ASSUME NEW p \in Format!Writable, NEW q, Filled(q, p, 14)
    PROVE  ItemsKept(q.datasec, p.datasec) /\ Items(q.datasec) \in Seq(SegmentsRead)
  <1>1. PICK w : w = p.datasec
    OBVIOUS
  <1>2. PICK x : x = q.datasec
    OBVIOUS
  <1>3. x = KeptOf(w) /\ Optional(w, AnyData)
    BY <1>1, <1>2, ModuleTypes DEF Filled, Has
  <1>4. CASE w = NULL
    BY ONLY <1>1, <1>2, <1>3, <1>4 DEF KeptOf, ItemsKept, Items
  <1>5. CASE w # NULL
    <2>1. w \in Seq(AnyData) /\ x = [k \in DOMAIN w |-> Kept(w[k])]
      BY ONLY <1>3, <1>5 DEF KeptOf, Optional
    <2>2. PICK n \in Nat : n = Len(w)
      BY ONLY <2>1
    <2>3. DOMAIN w = 1..n /\ \A k \in 1..n : w[k] \in AnyData
      BY ONLY <2>1, <2>2
    <2>4. \A k \in 1..n : Kept(w[k]) \in SegmentsRead
      BY ONLY <2>3, KeptType
    <2>5. x \in Seq(SegmentsRead) /\ DOMAIN x = 1..n /\ \A k \in 1..n : x[k] = Kept(w[k])
      BY ONLY <2>1, <2>3, <2>4
    <2>6. x # NULL
      <3>1. PICK R : R = [kind : Nat, expr : Seq(Format!Instruction), data : Seq(Nat)]
        OBVIOUS
      <3>2. SegmentsRead \subseteq R
        BY ONLY <3>1 DEF SegmentsRead
      <3>3. x \in Seq(R)
        BY ONLY <2>5, <3>2
      <3>4. NULL \notin Seq(R)
        BY <3>1, NullAssumption
      <3> QED
        BY ONLY <3>3, <3>4
    <2>7. Items(x) = x /\ Items(w) = w
      BY ONLY <1>5, <2>6 DEF Items
    <2>8. \A k \in 1..n : x[k].kind = w[k].kind /\ (w[k].kind = 0 => x[k] = w[k])
      BY ONLY <2>5 DEF Kept
    <2> QED
      BY ONLY <1>1, <1>2, <2>3, <2>5, <2>7, <2>8 DEF ItemsKept
  <1> QED
    BY ONLY <1>4, <1>5

\* What the loop of new_module keeps.
LoadInv ==
    /\ written \in Modules
    /\ IF at = "new_module" THEN \E k \in 1..14 : AtSections(m, buf, written, k)
                            ELSE at \notin {"misread", "unsupported"} => Filled(m, written, 14)

(* It holds before the first section.                                      *)
LEMMA LoadInit == Init => LoadInv
  <1> SUFFICES ASSUME Init PROVE LoadInv
    OBVIOUS
  <1>1. written \in Modules /\ at = "new_module" /\ m = NoSections /\ buf = Skip(Format!Binary(written), 2)
    BY DEF Init
  <1>2. PICK p : p = written
    OBVIOUS
  <1>3. p \in Format!Writable
    BY <1>1, <1>2, ModulesAssumption
  <1>4. PICK ws : ws = Format!Sections(p)
    OBVIOUS
  <1>5. ws \in Seq(Buffers)
    BY <1>3, <1>4, SectionsAre
  <1>6. Left(ws, 1) = FlattenSeq(ws) /\ Left(ws, 1) \in Buffers
    BY <1>5, LeftStep
  <1>7. Format!Binary(p) = Then(Format!Magic, FlattenSeq(ws))
    BY ONLY <1>4 DEF Format!Binary, Format!FlattenSeq, FlattenSeq, Then
  <1>8. PICK a : a = Format!Magic
    OBVIOUS
  <1>9. a = <<0, 1>>
    BY ONLY <1>8 DEF Format!Magic
  <1>10. 0 \in Int /\ 1 \in Int
    OBVIOUS
  <1>11. Skip(Then(a, Left(ws, 1)), 2) = Left(ws, 1)
    BY ONLY <1>6, <1>9, <1>10, ReadTwo
  <1>12. Filled(NoSections, p, 1)
    BY ONLY TRUE DEF Filled, Has, NoSections
  <1>13. AtSections(m, buf, p, 1)
    BY ONLY <1>1, <1>2, <1>4, <1>6, <1>7, <1>8, <1>11, <1>12 DEF AtSections
  <1>14. 1 \in 1..14
    OBVIOUS
  <1> QED
    BY ONLY <1>1, <1>2, <1>13, <1>14 DEF LoadInv

(* A section that hides nothing is read, and one that is there is next.    *)
LEMMA SectionRead ==
    ASSUME LoadInv, at = "new_module", ~eof(buf), ~Hidden
    PROVE  \E k \in 1..14 : AtSections(NextModule, NextSection.buf, written, k)
  <1>1. PICK p : p = written
    OBVIOUS
  <1>2. p \in Format!Writable
    BY <1>1, ModulesAssumption DEF LoadInv
  <1>3. PICK q : q = m
    OBVIOUS
  <1>4. PICK b : b = buf
    OBVIOUS
  <1>5. PICK k0 \in 1..14 : AtSections(q, b, p, k0)
    BY ONLY <1>1, <1>3, <1>4, LoadInv, at = "new_module" DEF LoadInv
  <1>6. eof(<<>>)
    BY DEF eof
  <1>7. PICK k \in 1..13 : AtSections(q, b, p, k) /\ Format!Sections(p)[k] # <<>>
    BY ONLY <1>2, <1>4, <1>5, <1>6, ~eof(buf), Forward
  <1>8. PICK sec : sec = readbuffer(Skip(b, 2), Token(b, 2))
    OBVIOUS
  <1>9. Clear(p, Token(b, 1))
    BY ONLY <1>1, <1>4, ~Hidden DEF Hidden, Clear
  <1>10. AtSections(parse_section(q, Token(b, 1), sec.new), sec.buf, p, k + 1)
    BY ONLY <1>2, <1>7, <1>8, <1>9, SectionStep
  <1>11. NextModule = parse_section(q, Token(b, 1), sec.new) /\ NextSection.buf = sec.buf
    BY ONLY <1>3, <1>4, <1>8 DEF NextModule, NextSection
  <1>12. k + 1 \in 1..14
    OBVIOUS
  <1> QED
    BY ONLY <1>1, <1>10, <1>11, <1>12

(* Every step keeps it.                                                    *)
LEMMA LoadStep == LoadInv /\ [Next]_vars => LoadInv'
  <1> SUFFICES ASSUME LoadInv, [Next]_vars PROVE LoadInv'
    OBVIOUS
  <1>1. PICK p : p = written
    OBVIOUS
  <1>2. p \in Modules /\ p \in Format!Writable
    BY <1>1, ModulesAssumption DEF LoadInv
  <1>3. PICK q : q = m
    OBVIOUS
  <1>4. PICK b : b = buf
    OBVIOUS
  <1>5. ASSUME at = "new_module"
        PROVE  \/ AtSections(q, b, p, 14) /\ b = <<>>
               \/ \E k \in 1..13 : AtSections(q, b, p, k) /\ Format!Sections(p)[k] # <<>>
    <2>1. PICK k \in 1..14 : AtSections(q, b, p, k)
      BY ONLY <1>1, <1>3, <1>4, <1>5, LoadInv DEF LoadInv
    <2> QED
      BY ONLY <1>2, <2>1, Forward
  <1>6. ASSUME at = "new_module", eof(buf) PROVE Filled(m, written, 14)
    <2>1. CASE AtSections(q, b, p, 14)
      BY ONLY <1>1, <1>3, <2>1 DEF AtSections
    <2>2. ASSUME NEW k \in 1..13, AtSections(q, b, p, k), Format!Sections(p)[k] # <<>> PROVE FALSE
      BY ONLY <1>2, <1>4, <1>6, <2>2, SectionStep
    <2> QED
      BY ONLY <1>5, <1>6, <2>1, <2>2
  <1>7. CASE ReadSection
    <2>1. /\ at = "new_module" /\ ~eof(buf) /\ ~Hidden /\ written' = written /\ at' = at
          /\ m' = NextModule /\ buf' = NextSection.buf
      BY ONLY <1>7 DEF ReadSection
    <2>2. PICK k \in 1..14 : AtSections(NextModule, NextSection.buf, written, k)
      BY ONLY <2>1, LoadInv, SectionRead
    <2> QED
      BY ONLY <2>1, <2>2, LoadInv DEF LoadInv
  <1>8. CASE CreateNothing \/ InitGlobals
    <2>1. at = "new_module" /\ eof(buf) /\ written' = written /\ m' = m /\ at' # "new_module"
      BY ONLY <1>8 DEF CreateNothing, InitGlobals, Stop, loadVars
    <2> QED
      BY ONLY <1>1, <1>2, <1>6, <2>1 DEF LoadInv
  <1>9. CASE UNCHANGED vars
    BY ONLY <1>9, LoadInv DEF LoadInv, vars, loadVars
  <1>12. CASE Misread \/ ParseUnsupported
    <2>1. written' = written /\ at' \in {"misread", "unsupported"}
      BY ONLY <1>12 DEF Misread, ParseUnsupported, Stop
    <2> QED
      BY ONLY <2>1, LoadInv DEF LoadInv
  <1>10. CASE InitMem \/ InitMemStray \/ CreateMemFault \/ CreateFuncs \/ CreateFuncsFault
    <2>1. at \in {"create_mem", "create_funcs"} /\ written' = written /\ m' = m /\ at' # "new_module"
      BY ONLY <1>10 DEF InitMem, InitMemStray, CreateMemFault, CreateFuncs, CreateFuncsFault, Stray, Stop, loadVars
    <2> QED
      BY ONLY <2>1, LoadInv DEF LoadInv
  <1>11. CASE invoke_i
    <2>1. at = "run_vm" /\ written' = written /\ m' = m /\ at' # "new_module"
      BY ONLY <1>11 DEF invoke_i, EndOrReturn, TaskExit, DoNothing, Const, DropTop, GetLocal, SetLocal, GetGlobal,
         SetGlobal, Load, Store, Eqz, Binop, DivideFault, DivideAnyway, Result, Push, Stray, Stop, At, loadVars
    <2> QED
      BY ONLY <2>1, LoadInv DEF LoadInv
  <1> QED
    BY <1>7, <1>8, <1>9, <1>10, <1>11, <1>12 DEF Next

(* The loop of new_module keeps what it has read and what is left to read. *)
THEOREM LoadInvariant == RefinementSpec => []LoadInv
  <1>1. RefinementInit => LoadInv
    BY LoadInit DEF RefinementInit
  <1>2. LoadInv /\ [RefinementNext]_<<vars, trapped>> => LoadInv'
    BY LoadStep DEF RefinementNext
  <1> QED
    BY <1>1, <1>2, PTL DEF RefinementSpec

(* What new_module builds is the module that was written, whichever of its *)
(* sections there are and whatever unknown ones stand between them, if it  *)
(* is built at all: of a passive segment only that it is there             *)
(* (module.c:445-500).                                                     *)
THEOREM ParsedCorrect == RefinementSpec => []ParsedAsWritten
  <1>1. LoadInv => ParsedAsWritten
    <2> SUFFICES ASSUME LoadInv, at \notin {"new_module", "misread", "unsupported"}
                 PROVE  /\ \A sec \in DOMAIN m \ {"datasec"} : m[sec] = written[sec]
                        /\ DOMAIN Items(m.datasec) = DOMAIN Items(written.datasec)
                        /\ \A k \in DOMAIN Items(written.datasec) :
                              written.datasec[k].kind = 0 => m.datasec[k] = written.datasec[k]
      BY DEF ParsedAsWritten
    <2>1. Filled(m, written, 14)
      BY DEF LoadInv
    <2>2. /\ m.typesec = written.typesec /\ m.importsec = written.importsec /\ m.funcsec = written.funcsec
          /\ m.memsec = written.memsec /\ m.globalsec = written.globalsec /\ m.exportsec = written.exportsec
          /\ m.codesec = written.codesec
      BY ONLY <2>1 DEF Filled, Has
    <2>3. DOMAIN m = {"typesec", "importsec", "funcsec", "memsec", "globalsec", "exportsec", "codesec", "datasec"}
      BY ONLY <2>1 DEF Filled
    <2>4. ItemsKept(m.datasec, written.datasec)
      BY <2>1, KeptItems, ModulesAssumption DEF LoadInv
    <2> QED
      BY ONLY <2>2, <2>3, <2>4 DEF ItemsKept
  <1> QED
    BY <1>1, LoadInvariant, PTL

----------------------------------------------------------------------------
(* The entry of a program, and its faults                                  *)

(* One array after another.                                                *)
LEMMA ConcatAt ==
    ASSUME NEW k \in Nat, NEW n \in Nat, NEW f, NEW g, f = [i \in 1..k |-> f[i]], g = [i \in 1..n |-> g[i]]
    PROVE  \A i \in 1..(k + n) : (f \o g)[i] = IF i <= k THEN f[i] ELSE g[i - k]
  <1> DEFINE X == {f[i] : i \in 1..k} \cup {g[i] : i \in 1..n}
  <1>1. (\A i \in 1..k : f[i] \in X) /\ (\A i \in 1..n : g[i] \in X)
    OBVIOUS
  <1> HIDE DEF X
  <1>2. f \in Seq(X) /\ g \in Seq(X) /\ Len(f) = k /\ Len(g) = n
    BY <1>1
  <1>3. \A i \in 1..(Len(f) + Len(g)) : (f \o g)[i] = IF i <= Len(f) THEN f[i] ELSE g[i - Len(f)]
    BY ONLY <1>2, ConcatIndex
  <1> QED
    BY ONLY <1>2, <1>3

\* What validation promises of a body.
Sound(p, s) == s \in Seq(Format!Instruction) /\ s # <<>> /\ s[Len(s)].op = End

\* The k-th function of p runs.
Runs(p, k, f) ==
    /\ k \in 1..Len(p.codesec) /\ p.codesec # NULL
    /\ f.codes = p.codesec[k].expr
    /\ f.locals = M!LocalTypes(p, k)
    /\ Sound(p, f.codes)

\* The program has been given a _start.
Begun == m.funcsec # NULL /\ Starts # {}

\* What holds of the entry.
RunInv ==
    /\ at \in {"create_mem", "create_funcs"} => Begun
    /\ at = "run_vm" => Runs(written, M!EntryIndex(written), Function) /\ ip \in 1..Len(Function.codes)
    /\ FaultsOnlyThere

(* A module has the same sections for the standard and for the parser.     *)
LEMMA SameItems == \A s : M!Items(s) = Items(s)
  BY DEF M!Items, Items

(* The sections of p are those in q, but for passive segments.             *)
LEMMA FilledFacts ==
    ASSUME NEW p \in Format!Writable, NEW q, Filled(q, p, 14)
    PROVE  /\ q.typesec = p.typesec /\ q.importsec = p.importsec /\ q.funcsec = p.funcsec
           /\ q.memsec = p.memsec /\ q.globalsec = p.globalsec /\ q.exportsec = p.exportsec
           /\ q.codesec = p.codesec
           /\ Items(q.importsec) \in Seq(ImportsRead)
           /\ OfKind0(Items(p.datasec)) => q.datasec = p.datasec
  <1>1. /\ q.typesec = p.typesec /\ q.importsec = p.importsec /\ q.funcsec = p.funcsec
        /\ q.memsec = p.memsec /\ q.globalsec = p.globalsec /\ q.exportsec = p.exportsec
        /\ q.codesec = p.codesec /\ q.datasec = KeptOf(p.datasec)
    BY ONLY Filled(q, p, 14) DEF Filled, Has
  <1>2. <<>> \in Seq(ImportsRead)
    OBVIOUS
  <1>3. Items(q.importsec) \in Seq(ImportsRead)
    BY ONLY <1>1, <1>2, p \in Format!Writable, ModuleTypes DEF Optional, Items
  <1>4. ASSUME OfKind0(Items(p.datasec)) PROVE q.datasec = p.datasec
    <2>1. PICK w : w = p.datasec
      OBVIOUS
    <2>2. Optional(w, AnyData)
      BY <2>1, ModuleTypes
    <2>3. CASE w = NULL
      BY ONLY <1>1, <2>1, <2>3 DEF KeptOf
    <2>4. CASE w # NULL
      <3>1. Items(w) = w /\ w \in Seq(AnyData)
        BY ONLY <2>2, <2>4 DEF Items, Optional
      <3>2. \A i \in 1..Len(w) : w[i].kind = 0
        BY ONLY <1>4, <2>1, <3>1, ElementsSeq DEF OfKind0
      <3>3. w = [k \in DOMAIN w |-> w[k]] /\ DOMAIN w = 1..Len(w)
        BY ONLY <3>1
      <3>4. w = [k \in DOMAIN w |-> Kept(w[k])]
        BY ONLY <3>2, <3>3 DEF Kept
      <3> QED
        BY ONLY <1>1, <2>1, <2>4, <3>4 DEF KeptOf
    <2> QED
      BY ONLY <2>3, <2>4
  <1> QED
    BY ONLY <1>1, <1>3, <1>4

(* The exported _start that create_context finds is the only one.          *)
LEMMA OneStart ==
    ASSUME NEW p \in Modules, p = written, Filled(m, p, 14)
    PROVE  /\ Starts = {} => M!Exported(p) = {}
           /\ Starts # {} => /\ M!Exported(p) = {Export}
                             /\ Export.idx \in Nat
                             /\ Export.idx < Len(Items(p.importsec)) + Len(Items(p.funcsec))
  <1>1. p \in Format!Writable /\ M!Valid(p)
    BY ModulesAssumption, ValidAssumption
  <1>2. m.exportsec = p.exportsec /\ Optional(p.exportsec, Exports)
    BY <1>1, FilledFacts, ModuleTypes
  <1>3. CASE p.exportsec = NULL
    <2>1. Starts = {}
      BY ONLY <1>2, <1>3 DEF Starts
    <2>2. M!Items(p.exportsec) = <<>>
      BY ONLY <1>3 DEF M!Items
    <2>3. M!Exported(p) = {}
      BY <2>2, EmptyList DEF M!Exported, M!ToSet, ToSet
    <2> QED
      BY ONLY <2>1, <2>3
  <1>4. CASE p.exportsec # NULL
    <2>1. PICK s : s = p.exportsec
      OBVIOUS
    <2>2. s \in Seq(Exports) /\ M!Items(p.exportsec) = s /\ m.exportsec = s /\ s # NULL
      BY ONLY <1>2, <1>4, <2>1 DEF Optional, M!Items
    <2>3. Starts = {k \in DOMAIN s : s[k].kind = 0 /\ s[k].name = Start}
      BY ONLY <2>2 DEF Starts
    <2>4. M!Exported(p) = {e \in {s[k] : k \in DOMAIN s} : e.kind = 0 /\ e.name = Start}
      BY ONLY <2>2 DEF M!Exported, M!ToSet
    <2>5. \A j, k \in DOMAIN s : s[j].name = s[k].name => j = k
      BY ONLY <1>1, <2>1, <2>2 DEF M!Valid
    <2>6. \A e \in {s[k] : k \in DOMAIN s} : e.kind = 0 => e.idx < Len(Items(p.importsec)) + Len(Items(p.funcsec))
      BY ONLY <1>1, <2>2, SameItems DEF M!Valid, M!ToSet
    <2>7. Starts = {} => M!Exported(p) = {}
      BY ONLY <2>3, <2>4
    <2>8. ASSUME NEW k \in Starts
          PROVE  /\ M!Exported(p) = {Export} /\ Export.idx \in Nat
                 /\ Export.idx < Len(Items(p.importsec)) + Len(Items(p.funcsec))
      <3>1. k \in DOMAIN s /\ s[k].kind = 0 /\ s[k].name = Start /\ s[k] \in Exports
        BY ONLY <2>2, <2>3, k \in Starts
      <3>2. \A j \in Starts : j = k
        BY ONLY <2>3, <2>5, <3>1
      <3>3. k <= k
        <4>1. k \in Nat
          BY ONLY <2>2, <3>1
        <4> QED
          BY ONLY <4>1
      <3>4. (CHOOSE i \in Starts : \A j \in Starts : i <= j) = k
        BY ONLY <3>2, <3>3, k \in Starts
      <3>5. Export = s[k]
        BY ONLY <2>2, <3>4 DEF Export
      <3>6. M!Exported(p) = {s[k]}
        BY ONLY <2>4, <2>5, <3>1
      <3>7. s[k].idx \in Nat
        BY ONLY <3>1 DEF Exports
      <3>8. s[k].idx < Len(Items(p.importsec)) + Len(Items(p.funcsec))
        BY ONLY <2>6, <3>1
      <3> QED
        BY ONLY <3>5, <3>6, <3>7, <3>8
    <2> QED
      BY ONLY <2>7, <2>8
  <1> QED
    BY ONLY <1>3, <1>4

(* The function that _start is: imported, or one of the module's.          *)
LEMMA TheEntry ==
    ASSUME NEW p \in Modules, p = written, Filled(m, p, 14), Begun, NEW f, f = Functions[Export.idx + 1]
    PROVE  /\ f.imported => Export.idx < Len(Items(p.importsec))
           /\ ~f.imported => Runs(p, M!EntryIndex(p), f)
  <1>1. p \in Format!Writable /\ M!Valid(p)
    BY ModulesAssumption, ValidAssumption
  <1>2. Export.idx \in Nat /\ Export.idx < Len(Items(p.importsec)) + Len(Items(p.funcsec))
    BY OneStart DEF Begun
  <1>3. /\ m.typesec = p.typesec /\ m.funcsec = p.funcsec /\ m.codesec = p.codesec /\ p.funcsec # NULL
        /\ Items(m.importsec) \in Seq(ImportsRead) /\ Len(Items(m.importsec)) = Len(Items(p.importsec))
    BY <1>1, FilledFacts DEF Begun, Items
  <1>4. Items(p.funcsec) = p.funcsec /\ p.funcsec \in Seq(Nat)
    BY ONLY <1>1, <1>3, ModuleTypes DEF Items, Optional
  <1>5. PICK i \in Nat : i = Len(Items(p.importsec))
    BY ONLY <1>3
  <1>6. PICK n \in Nat : n = Len(p.funcsec)
    BY ONLY <1>4
  <1>7. DOMAIN Items(m.importsec) = 1..i /\ DOMAIN m.funcsec = 1..n
    BY ONLY <1>3, <1>4, <1>5, <1>6
  <1>8. Imported = [k \in 1..i |-> create_imported_func(m.importsec[k])]
    BY ONLY <1>7 DEF Imported
  <1>9. Defined = [k \in 1..n |-> create_defined_func(k)]
    BY ONLY <1>7 DEF Defined
  <1>10. PICK a, b : a = Imported /\ b = Defined
    OBVIOUS
  <1>11. a = [k \in 1..i |-> a[k]] /\ b = [k \in 1..n |-> b[k]]
    BY ONLY <1>8, <1>9, <1>10
  <1>12. PICK e : e = Export.idx
    OBVIOUS
  <1>17. e \in Nat
    BY ONLY <1>2, <1>12
  <1>13. e + 1 \in 1..(i + n)
    <2>1. e < i + n
      BY ONLY <1>2, <1>4, <1>5, <1>6, <1>12
    <2> QED
      BY ONLY <1>17, <2>1, i \in Nat, n \in Nat
  <1>14. f = IF e + 1 <= i THEN a[e + 1] ELSE b[(e + 1) - i]
    <2>1. f = (a \o b)[e + 1]
      BY ONLY <1>10, <1>12, f = Functions[Export.idx + 1] DEF Functions
    <2>2. \A j \in 1..(i + n) : (a \o b)[j] = IF j <= i THEN a[j] ELSE b[j - i]
      BY ONLY <1>11, ConcatAt, i \in Nat, n \in Nat
    <2> QED
      BY ONLY <1>13, <2>1, <2>2
  <1>15. CASE e + 1 <= i
    <2>1. e + 1 \in 1..i
      BY ONLY <1>15, <1>17, i \in Nat
    <2>2. f = create_imported_func(m.importsec[e + 1])
      BY ONLY <1>8, <1>10, <1>14, <1>15, <2>1
    <2>3. f.imported
      BY ONLY <2>2 DEF create_imported_func
    <2>4. e < i
      BY ONLY <1>15, <1>17, i \in Nat
    <2> QED
      BY ONLY <1>5, <1>12, <2>3, <2>4
  <1>16. CASE ~(e + 1 <= i)
    <2>1. PICK k : k = (e + 1) - i
      OBVIOUS
    <2>2. k \in 1..n
      BY ONLY <1>13, <1>16, <2>1, <1>17, i \in Nat, n \in Nat
    <2>3. f = create_defined_func(k)
      BY ONLY <1>9, <1>10, <1>14, <1>16, <2>1, <2>2
    <2>4. ~f.imported /\ f.codes = p.codesec[k].expr
      BY ONLY <1>3, <2>3 DEF create_defined_func
    <2>5. f.locals = M!LocalTypes(p, k)
      <3>1. PICK g : g = p.codesec[k].locals
        OBVIOUS
      <3>2. PICK x : x = [j \in DOMAIN g |-> [l \in 1..g[j].num |-> g[j].ty]]
        OBVIOUS
      <3>3. M!FlattenSeq(x) = FlattenSeq(x)
        BY ONLY TRUE DEF M!FlattenSeq, FlattenSeq
      <3>4. f.locals = p.typesec[p.funcsec[k] + 1].rt1 \o FlattenSeq(x)
        BY ONLY <1>3, <2>3, <3>1, <3>2 DEF create_defined_func
      <3>5. M!LocalTypes(p, k) = p.typesec[p.funcsec[k] + 1].rt1 \o M!FlattenSeq(x)
        BY ONLY <3>1, <3>2 DEF M!LocalTypes
      <3> QED
        BY ONLY <3>3, <3>4, <3>5
    <2>6. Len(M!Items(p.codesec)) = n
      BY ONLY <1>1, <1>4, <1>6, SameItems DEF M!Valid
    <2>7. p.codesec # NULL /\ M!Items(p.codesec) = p.codesec
      <3>1. n # 0
        BY ONLY <2>2, n \in Nat
      <3>2. Len(<<>>) = 0
        OBVIOUS
      <3> QED
        BY ONLY <2>6, <3>1, <3>2 DEF M!Items
    <2>8. p.codesec \in Seq(Bodies)
      BY ONLY <1>1, <2>7, ModuleTypes DEF Optional
    <2>9. k \in DOMAIN p.codesec /\ p.codesec[k] \in Bodies /\ k \in 1..Len(p.codesec)
      BY ONLY <2>2, <2>6, <2>7, <2>8
    <2>10. p.codesec[k].expr \in Seq(Format!Instruction)
      BY ONLY <2>9 DEF Bodies
    <2>11. p.codesec[k].expr # <<>> /\ p.codesec[k].expr[Len(p.codesec[k].expr)].op = M!End
      BY ONLY <1>1, <2>7, <2>9 DEF M!Valid
    <2>12. M!End = End
      BY ONLY TRUE DEF M!End, End
    <2>13. Runs(p, k, f)
      BY ONLY <2>4, <2>5, <2>7, <2>9, <2>10, <2>11, <2>12 DEF Runs, Sound
    <2>14. k = M!EntryIndex(p)
      <3>1. M!Exported(p) = {Export}
        BY OneStart DEF Begun
      <3>2. (CHOOSE x \in M!Exported(p) : TRUE) = Export
        BY ONLY <3>1
      <3>3. PICK x : x = CHOOSE y \in M!Exported(p) : TRUE
        OBVIOUS
      <3>4. M!EntryIndex(p) = x.idx + 1 - Len(M!Items(p.importsec))
        BY ONLY <3>3 DEF M!EntryIndex
      <3>5. M!Items(p.importsec) = Items(p.importsec) /\ x = Export
        BY ONLY <3>2, <3>3, SameItems
      <3> QED
        BY ONLY <1>5, <1>12, <1>17, <2>1, <3>4, <3>5, i \in Nat
    <2> QED
      BY ONLY <2>4, <2>13, <2>14
  <1> QED
    BY ONLY <1>15, <1>16

(* The function that runs is what it was, if nothing it depends on is      *)
(* written.                                                                *)
LEMMA SameFunction ==
    ASSUME m' = m, funcs' = funcs
    PROVE  Function' = Function /\ (Begun' <=> Begun) /\ Export' = Export
  <1>1. Starts' = Starts
    BY DEF Starts
  <1>2. Export' = Export
    BY <1>1 DEF Export
  <1>3. Function' = Function
    BY <1>2 DEF Function
  <1> QED
    BY <1>1, <1>2, <1>3 DEF Begun

\* What ends a function.
Enders == {End, Return, Unreachable}

(* No other instruction does.                                              *)
LEMMA EndIsEnd ==
    \A op \in Consts \cup {Nop} \cup {Drop} \cup {LocalGet} \cup {LocalSet} \cup {GlobalGet} \cup {GlobalSet}
              \cup Loads \cup Stores \cup {I32Eqz} \cup Binaries \cup Divisions :
        op \notin Enders
  BY DEF Enders, End, Return, Unreachable, Nop, Consts, Drop, LocalGet, LocalSet, GlobalGet, GlobalSet, Loads, Stores,
     I32Eqz, Binaries, Divisions, I32Const, I64Const, I32Load, I64Load, I32Load8_s, I32Load8_u, I32Load16_u, I32Store,
     I64Store, I32Store8, I32Eq, I32Ne, I32Lt_s, I32Gt_s, I32Gt_u, I32Ge_s, I32Add, I32Sub, I32Mul, I32And, I32Or,
     I32Xor, I32Shl, I32Shr_s, I32Div_s, I32Rem_s

\* What an instruction does to where the program is.
Forth == at' = at /\ ip' = ip + 1

(* An instruction goes on to the next one, or the program ends, leaves its *)
(* memory, or faults at a division.                                        *)
LEMMA WhereTo ==
    invoke_i => /\ at = "run_vm" /\ written' = written /\ m' = m /\ funcs' = funcs
                /\ \/ Forth /\ Now.op \notin Enders
                   \/ at' \in {"returned", "task_exit", "stray"}
                   \/ at' = "fault" /\ UNCHANGED <<stack, ip>> /\ Now.op \in Divisions /\ Undivided
  <1> DEFINE G == /\ at = "run_vm" /\ written' = written /\ m' = m /\ funcs' = funcs
                  /\ \/ Forth /\ Now.op \notin Enders
                     \/ at' \in {"returned", "task_exit", "stray"}
                     \/ at' = "fault" /\ UNCHANGED <<stack, ip>> /\ Now.op \in Divisions /\ Undivided
             Pushed == at' = at /\ ip' = ip + 1 /\ UNCHANGED <<written, loadVars, funcs>>
  <1>1. ASSUME NEW s, Push(s) PROVE Pushed
    BY ONLY <1>1 DEF Push, Pushed
  <1>2. ASSUME NEW ops, At(ops), \A op \in ops : op \notin Enders, Pushed PROVE G
    BY ONLY <1>2 DEF At, G, Pushed, Forth, loadVars
  <1>3. ASSUME NEW ops, At(ops), Stray PROVE G
    BY ONLY <1>3 DEF At, G, Stray, Stop, loadVars
  <1> HIDE DEF G, Pushed
  <1>4. EndOrReturn \/ TaskExit => G
    BY ONLY TRUE DEF EndOrReturn, TaskExit, Stop, At, G, loadVars
  <1>18. DoNothing => G
    BY ONLY <1>1, <1>2, EndIsEnd DEF DoNothing
  <1>5. Const => G
    BY ONLY <1>1, <1>2, EndIsEnd DEF Const
  <1>6. DropTop => G
    BY ONLY <1>1, <1>2, EndIsEnd DEF DropTop
  <1>7. GetLocal => G
    BY ONLY <1>1, <1>2, EndIsEnd DEF GetLocal
  <1>8. SetLocal => G
    <2>1. ASSUME SetLocal PROVE At({LocalSet}) /\ Pushed
      <3>1. Function.locals[Now.n + 1] = I32 \/ Function.locals[Now.n + 1] = I64
            \/ ~(Function.locals[Now.n + 1] = I32 \/ Function.locals[Now.n + 1] = I64)
        OBVIOUS
      <3> QED
        BY ONLY <1>1, <2>1, <3>1 DEF SetLocal
    <2> QED
      BY ONLY <1>2, <2>1, EndIsEnd
  <1>9. GetGlobal => G
    BY ONLY <1>1, <1>2, EndIsEnd DEF GetGlobal
  <1>10. SetGlobal => G
    <2>1. ASSUME SetGlobal PROVE At({GlobalSet}) /\ Pushed
      BY ONLY <1>1, <2>1 DEF SetGlobal
    <2> QED
      BY ONLY <1>2, <2>1, EndIsEnd
  <1>11. Load => G
    <2>1. Load => At(Loads) /\ (Stray \/ Pushed)
      BY ONLY <1>1 DEF Load
    <2> QED
      BY ONLY <1>2, <1>3, <2>1, EndIsEnd
  <1>12. Store => G
    <2>1. Store => At(Stores) /\ (Stray \/ Pushed)
      BY ONLY <1>1 DEF Store
    <2> QED
      BY ONLY <1>2, <1>3, <2>1, EndIsEnd
  <1>13. Eqz => G
    BY ONLY <1>1, <1>2, EndIsEnd DEF Eqz
  <1>14. Binop => G
    BY ONLY <1>1, <1>2, EndIsEnd DEF Binop, Result
  <1>15. DivideFault => G
    BY ONLY TRUE DEF DivideFault, Stop, At, G, loadVars, dataVars
  <1>16. DivideAnyway => G
    BY ONLY <1>1, <1>2, EndIsEnd DEF DivideAnyway, Result
  <1>17. invoke_i => G
    BY ONLY <1>4, <1>5, <1>6, <1>7, <1>8, <1>9, <1>10, <1>11, <1>12, <1>13, <1>14, <1>15, <1>16, <1>18 DEF invoke_i
  <1> QED
    BY ONLY <1>17 DEF G

(* The values on the stack decide whether a division has a result.         *)
LEMMA SameDivision == stack' = stack => (Undivided' <=> Undivided)
  BY DEF Undivided, Rhs, Lhs, Int32, Word, readi32, After32, Popped

(* Only an import that is no function has no type.                         *)
LEMMA UntypedImport ==
    ASSUME NEW p \in Modules, Filled(m, p, 14), Untyped
    PROVE  \E d \in ToSet(Items(p.importsec)) : d.kind # 0 /\ d.idx + 1 \notin DOMAIN Items(p.typesec)
  <1>1. p \in Format!Writable /\ M!Valid(p)
    BY ModulesAssumption, ValidAssumption
  <1>2. m.importsec = p.importsec /\ m.typesec = p.typesec
    BY ONLY <1>1, Filled(m, p, 14), FilledFacts
  <1>3. PICK i \in DOMAIN Items(p.importsec) : p.importsec[i].idx + 1 \notin DOMAIN Items(p.typesec)
    BY ONLY <1>2, Untyped DEF Untyped
  <1>4. PICK d : d = p.importsec[i]
    OBVIOUS
  <1>5. d \in ToSet(Items(p.importsec))
    BY ONLY <1>3, <1>4 DEF ToSet, Items
  <1>6. d.kind = 0 => d.idx + 1 \in DOMAIN Items(p.typesec)
    BY ONLY <1>1, <1>5, SameItems DEF M!Valid, M!ToSet, ToSet
  <1> QED
    BY ONLY <1>3, <1>4, <1>5, <1>6

(* Every step keeps what holds of the entry.                               *)
LEMMA RunStep == LoadInv /\ LoadInv' /\ RunInv /\ [Next]_vars => RunInv'
  <1> SUFFICES ASSUME LoadInv, LoadInv', RunInv, [Next]_vars PROVE RunInv'
    OBVIOUS
  <1>1. PICK p : p = written
    OBVIOUS
  <1>2. p \in Modules
    BY <1>1 DEF LoadInv
  <1>4. CASE UNCHANGED vars
    <2>1. /\ written' = written /\ at' = at /\ m' = m /\ funcs' = funcs /\ stack' = stack /\ ip' = ip
      BY ONLY <1>4 DEF vars, loadVars, dataVars
    <2>2. Function' = Function /\ (Begun' <=> Begun) /\ (Undivided' <=> Undivided)
      BY ONLY <2>1, SameFunction, SameDivision
    <2>3. Now' = Now
      BY ONLY <2>1, <2>2 DEF Now
    <2>4. FaultsOnlyThere'
      BY ONLY <2>1, <2>2, <2>3, RunInv DEF RunInv, FaultsOnlyThere
    <2> QED
      BY ONLY <2>1, <2>2, <2>4, RunInv DEF RunInv
  <1>5. CASE ReadSection
    <2>1. at' = "new_module"
      BY ONLY <1>5 DEF ReadSection
    <2> QED
      BY ONLY <2>1 DEF RunInv, FaultsOnlyThere
  <1>6. CASE CreateNothing
    <2>1. /\ at' = "fault" /\ written' = written /\ m' = m
          /\ m.funcsec = NULL \/ Starts = {}
      BY ONLY <1>6 DEF CreateNothing, Stop, loadVars
    <2>2. Filled(m, p, 14)
      BY ONLY <1>1, <2>1, LoadInv' DEF LoadInv
    <2>3. p.funcsec = NULL \/ M!Exported(p) = {}
      BY ONLY <1>1, <1>2, <2>1, <2>2, FilledFacts, OneStart, ModulesAssumption
    <2> QED
      BY ONLY <1>1, <2>1, <2>3 DEF RunInv, FaultsOnlyThere
  <1>7. CASE InitGlobals
    <2>1. at' = "create_mem" /\ m' = m /\ funcs' = funcs /\ Begun
      BY ONLY <1>7 DEF InitGlobals, loadVars, Begun
    <2>2. Begun'
      BY ONLY <2>1, SameFunction
    <2> QED
      BY ONLY <2>1, <2>2 DEF RunInv, FaultsOnlyThere
  <1>8. CASE InitMem
    <2>1. at = "create_mem" /\ at' = "create_funcs" /\ m' = m /\ funcs' = funcs
      BY ONLY <1>8 DEF InitMem, loadVars
    <2>2. Begun'
      BY ONLY <2>1, SameFunction, RunInv DEF RunInv
    <2> QED
      BY ONLY <2>1, <2>2 DEF RunInv, FaultsOnlyThere
  <1>9. CASE InitMemStray
    <2>1. at' = "stray"
      BY ONLY <1>9 DEF InitMemStray, Stray, Stop
    <2> QED
      BY ONLY <2>1 DEF RunInv, FaultsOnlyThere
  <1>10. CASE CreateFuncs
    <2>1. PICK f : f = Functions[Export.idx + 1]
      OBVIOUS
    <2>2. /\ at = "create_funcs" /\ written' = written /\ m' = m /\ funcs' = Functions /\ ip' = 1
          /\ at' = IF f.imported THEN "fault" ELSE "run_vm"
      BY ONLY <1>10, <2>1 DEF CreateFuncs, loadVars
    <2>3. Begun
      BY ONLY <2>2, RunInv DEF RunInv
    <2>4. Filled(m, p, 14)
      BY ONLY <1>1, <2>2, LoadInv DEF LoadInv
    <2>5. Export' = Export
      <3>1. Starts' = Starts
        BY ONLY <2>2 DEF Starts
      <3> QED
        BY ONLY <2>2, <3>1 DEF Export
    <2>6. Function' = f
      BY ONLY <2>1, <2>2, <2>5 DEF Function
    <2>7. CASE f.imported
      <3>1. Export.idx < Len(Items(p.importsec))
        BY ONLY <1>1, <1>2, <2>1, <2>3, <2>4, <2>7, TheEntry
      <3>2. M!Exported(p) = {Export}
        BY ONLY <1>1, <1>2, <2>3, <2>4, OneStart DEF Begun
      <3>3. \A e \in M!Exported(p) : e.idx < Len(Items(p.importsec))
        BY ONLY <3>1, <3>2
      <3> QED
        BY ONLY <1>1, <2>2, <2>7, <3>3 DEF RunInv, FaultsOnlyThere
    <2>8. CASE ~f.imported
      <3>1. Runs(p, M!EntryIndex(p), f)
        BY ONLY <1>1, <1>2, <2>1, <2>3, <2>4, <2>8, TheEntry
      <3>2. 1 \in 1..Len(f.codes)
        BY ONLY <3>1 DEF Runs, Sound
      <3> QED
        BY ONLY <1>1, <2>2, <2>6, <2>8, <3>1, <3>2 DEF RunInv, FaultsOnlyThere
    <2> QED
      BY ONLY <2>7, <2>8
  <1>11. CASE invoke_i
    <2>1. /\ at = "run_vm" /\ written' = written /\ m' = m /\ funcs' = funcs
          /\ \/ Forth /\ Now.op \notin Enders
             \/ at' \in {"returned", "task_exit", "stray"}
             \/ at' = "fault" /\ UNCHANGED <<stack, ip>> /\ Now.op \in Divisions /\ Undivided
      BY ONLY <1>11, WhereTo
    <2>2. Function' = Function
      BY ONLY <2>1, SameFunction
    <2>3. Runs(p, M!EntryIndex(p), Function) /\ ip \in 1..Len(Function.codes)
      BY ONLY <1>1, <2>1, RunInv DEF RunInv
    <2>4. CASE Forth /\ Now.op \notin Enders
      <3>1. Function.codes \in Seq(Format!Instruction) /\ Function.codes[Len(Function.codes)].op = End
        BY ONLY <2>3 DEF Runs, Sound
      <3>2. ip # Len(Function.codes)
        BY ONLY <2>4, <3>1 DEF Now, Enders
      <3>3. ip + 1 \in 1..Len(Function.codes)
        BY ONLY <2>3, <3>1, <3>2
      <3> QED
        BY ONLY <1>1, <2>1, <2>2, <2>3, <2>4, <3>3 DEF RunInv, FaultsOnlyThere, Forth
    <2>5. CASE at' \in {"returned", "task_exit", "stray"}
      BY ONLY <2>5 DEF RunInv, FaultsOnlyThere
    <2>6. CASE at' = "fault" /\ UNCHANGED <<stack, ip>> /\ Now.op \in Divisions /\ Undivided
      <3>1. Now' = Now /\ Undivided'
        BY ONLY <2>2, <2>6, SameDivision DEF Now
      <3>2. ip \in DOMAIN Function.codes
        BY ONLY <2>3 DEF Runs, Sound
      <3> QED
        BY ONLY <2>2, <2>6, <3>1, <3>2 DEF RunInv, FaultsOnlyThere
    <2> QED
      BY ONLY <2>1, <2>4, <2>5, <2>6
  <1>12. CASE Misread
    <2>1. at' = "misread" /\ written' = written /\ Hidden
      BY ONLY <1>12 DEF Misread, Stop
    <2>2. Hides(p.importsec) \/ Hides(p.datasec)
      BY ONLY <1>1, <2>1 DEF Hidden
    <2> QED
      BY ONLY <1>1, <2>1, <2>2 DEF RunInv, FaultsOnlyThere
  <1>13. CASE ParseUnsupported
    <2>1. /\ at' = "unsupported" /\ written' = written /\ MeetsUnknown(NextModule.codesec)
          /\ at = "new_module" /\ ~eof(buf) /\ ~Hidden
      BY ONLY <1>13 DEF ParseUnsupported, Stop
    <2>2. PICK k \in 1..14 : AtSections(NextModule, NextSection.buf, written, k)
      BY ONLY <2>1, LoadInv, SectionRead
    <2>3. NextModule.codesec = p.codesec \/ NextModule.codesec = NULL
      BY ONLY <1>1, <2>2 DEF AtSections, Filled, Has
    <2>4. ~MeetsUnknown(NULL)
      BY DEF MeetsUnknown, Items
    <2>5. MeetsUnknown(p.codesec)
      BY ONLY <2>1, <2>3, <2>4
    <2> QED
      BY ONLY <1>1, <2>1, <2>5 DEF RunInv, FaultsOnlyThere
  <1>14. CASE CreateMemFault
    <2>1. at' = "fault" /\ written' = written /\ at = "create_mem" /\ m.memsec = <<>>
      BY ONLY <1>14 DEF CreateMemFault, Stop
    <2>2. Filled(m, p, 14)
      BY ONLY <1>1, <2>1, LoadInv DEF LoadInv
    <2>3. p.memsec = <<>>
      BY ONLY <1>2, <2>1, <2>2, FilledFacts, ModulesAssumption
    <2> QED
      BY ONLY <1>1, <2>1, <2>3 DEF RunInv, FaultsOnlyThere
  <1>15. CASE CreateFuncsFault
    <2>1. at' = "fault" /\ written' = written /\ at = "create_funcs" /\ Untyped
      BY ONLY <1>15 DEF CreateFuncsFault, Stop
    <2>2. Filled(m, p, 14)
      BY ONLY <1>1, <2>1, LoadInv DEF LoadInv
    <2>3. \E d \in ToSet(Items(p.importsec)) : d.kind # 0 /\ d.idx + 1 \notin DOMAIN Items(p.typesec)
      BY ONLY <1>2, <2>1, <2>2, UntypedImport
    <2> QED
      BY ONLY <1>1, <2>1, <2>3 DEF RunInv, FaultsOnlyThere
  <1> QED
    BY <1>4, <1>5, <1>6, <1>7, <1>8, <1>9, <1>10, <1>11, <1>12, <1>13, <1>14, <1>15 DEF Next

(* launch_vm_task faults in the kernel only when there is no function or   *)
(* no exported _start with code, when an import or a segment hides what is *)
(* behind it, when the memory section is empty or an import that is no     *)
(* function begins with a number no type has, and run_vm only when a       *)
(* division has no result; the parser exits the task only at an            *)
(* instruction it does not know; until then the program is in the code of  *)
(* its _start (task.c:60, module.c:176-178, module.c:247-312, vm.c:22,     *)
(* vm.c:755-774, vm.c:821, vm.c:687, vm.c:695).                            *)
THEOREM FaultsCorrect == RefinementSpec => []RunInv /\ []FaultsOnlyThere
  <1>1. RefinementInit => RunInv
    BY DEF RefinementInit, Init, RunInv, FaultsOnlyThere
  <1>2. LoadInv /\ LoadInv' /\ RunInv /\ [RefinementNext]_<<vars, trapped>> => RunInv'
    BY RunStep DEF RefinementNext
  <1>3. RunInv => FaultsOnlyThere
    BY DEF RunInv
  <1> QED
    BY <1>1, <1>2, <1>3, LoadInvariant, PTL DEF RefinementSpec

----------------------------------------------------------------------------
(* Numbers and words                                                       *)

(* A word has a number of bits, and bytes their weights.                   *)
LEMMA WidthFacts ==
    /\ Width \in Nat \ {0} /\ Limit \in Nat \ {0} /\ Base \in Nat \ {0}
    /\ \A k \in Nat \ {0} : Weight(k) \in Nat \ {0}
  <1>1. Width \in Nat \ {0}
    BY ByteAssumption DEF Width
  <1>2. Limit \in Nat \ {0} /\ Base \in Nat \ {0}
    BY <1>1, ByteAssumption, Powers DEF Limit, Base
  <1>3. ASSUME NEW k \in Nat \ {0} PROVE Weight(k) \in Nat \ {0}
    <2>1. PICK i \in Nat : i = k - 1
      OBVIOUS
    <2>2. PICK b \in Nat : b = ByteBits
      BY ByteAssumption
    <2>3. b * i \in Nat
      BY ONLY b \in Nat, i \in Nat
    <2>4. Weight(k) = 2^(b * i)
      BY ONLY <2>1, <2>2 DEF Weight
    <2> QED
      BY ONLY <2>3, <2>4, Powers
  <1> QED
    BY ONLY <1>1, <1>2, <1>3

(* What is small is its own remainder.                                     *)
LEMMA SmallModulo ==
    ASSUME NEW l \in Nat \ {0}, NEW x \in 0..(l - 1)
    PROVE  x % l = x
  OBVIOUS

(* Words are numbers, and an int is the same taken from its word.          *)
LEMMA WordFacts ==
    /\ \A n \in Int : Word(n) \in Nat /\ Int32(n) \in Int /\ Words(n) \in Nat \X Nat
    /\ \A n \in Int : Int32(Word(n)) = Int32(n)
    /\ \A n \in Nat : n < Limit \div 2 => Int32(n) = n
    /\ \A n \in Int : Int32(n) < Limit
  <1>1. PICK l \in Nat \ {0} : l = Limit
    BY WidthFacts
  <1>2. \A n \in Int : n % l \in 0..(l - 1) /\ n \div l \in Int
    OBVIOUS
  <1>3. \A n \in Int : Word(n) \in 0..(l - 1)
    BY ONLY <1>1, <1>2 DEF Word
  <1>4. \A x \in 0..(l - 1) : Word(x) = x
    BY ONLY <1>1, SmallModulo, l \in Nat \ {0} DEF Word
  <1>5. \A n \in Int : Word(Word(n)) = Word(n)
    BY ONLY <1>3, <1>4
  <1>6. l \div 2 \in 0..l
    OBVIOUS
  <1>7. \A n \in Int : Word(n) \in Nat /\ Int32(n) \in Int /\ Int32(n) < l
    BY ONLY <1>1, <1>3, <1>6, l \in Nat \ {0} DEF Int32
  <1>8. \A n \in Int : Words(n) \in Nat \X Nat
    <2>1. \A n \in Int : (n \div l) % l \in Nat /\ n % l \in Nat
      BY ONLY <1>2, l \in Nat \ {0}
    <2> QED
      BY ONLY <1>1, <2>1 DEF Words
  <1>9. \A n \in Int : Int32(Word(n)) = Int32(n)
    BY ONLY <1>5 DEF Int32
  <1>10. \A n \in Nat : n < l \div 2 => Int32(n) = n
    <2>1. \A n \in Nat : n < l \div 2 => n \in 0..(l - 1)
      BY ONLY <1>6, l \in Nat \ {0}
    <2> QED
      BY ONLY <1>1, <1>4, <2>1 DEF Int32
  <1> QED
    BY ONLY <1>1, <1>7, <1>8, <1>9, <1>10

\* The u[k] are the sums of the first k of n numbers w.
Sums(n, w, u) ==
    /\ u[0] = 0
    /\ \A k \in 1..n : u[k] = u[k - 1] + w[k]
    /\ \A k \in 0..n : u[k] \in Nat

(* A sum of naturals is one, and so are its parts.                         *)
LEMMA SumNat ==
    ASSUME NEW n \in Nat, NEW w, \A k \in 1..n : w[k] \in Nat, NEW u,
           u = CHOOSE f : f = [k \in 0..n |-> IF k = 0 THEN 0 ELSE f[k - 1] + w[k]]
    PROVE  Sums(n, w, u)
  <1> DEFINE g == [k \in 1..n |-> [z \in Nat |-> z + w[k]]]
             step(f, k) == IF k = 0 THEN 0 ELSE f[k - 1] + w[k]
  <1>1. g \in [1..n -> [Nat -> Nat]]
    OBVIOUS
  <1>2. \A k \in 1..n, z \in Nat : g[k][z] = z + w[k]
    OBVIOUS
  <1> HIDE DEF g
  <1>3. 0 \in Nat
    OBVIOUS
  <1>4. PICK f0 : Iterates(f0, Nat, n, 0, g)
    BY ONLY <1>1, <1>3, Iterate
  <1>5. f0 \in [0..n -> Nat] /\ f0[0] = 0 /\ \A k \in 1..n : f0[k] = f0[k - 1] + w[k]
    <2>1. f0 \in [0..n -> Nat] /\ f0[0] = 0 /\ \A k \in 1..n : f0[k] = g[k][f0[k - 1]]
      BY ONLY <1>4 DEF Iterates
    <2>2. \A k \in 1..n : f0[k - 1] \in Nat
      BY ONLY <2>1
    <2> QED
      BY ONLY <1>2, <2>1, <2>2
  <1>6. f0 = [k \in 0..n |-> step(f0, k)]
    <2>1. \A k \in 0..n : f0[k] = step(f0, k)
      <3>1. \A k \in 0..n : k = 0 \/ k \in 1..n
        OBVIOUS
      <3> QED
        BY ONLY <1>5, <3>1
    <2>2. f0 = [k \in 0..n |-> f0[k]]
      BY ONLY <1>5
    <2> QED
      BY ONLY <2>1, <2>2
  <1>7. u = [k \in 0..n |-> step(u, k)]
    BY ONLY <1>6, u = CHOOSE f : f = [k \in 0..n |-> IF k = 0 THEN 0 ELSE f[k - 1] + w[k]]
  <1>8. u[0] = 0 /\ \A k \in 1..n : u[k] = u[k - 1] + w[k]
    BY ONLY <1>7
  <1> DEFINE P == {k \in Nat : k <= n => u[k] \in Nat}
  <1>9. 0 \in P
    BY ONLY <1>8
  <1>10. ASSUME NEW k \in P PROVE k + 1 \in P
    <2>1. CASE k + 1 <= n
      <3>1. k \in Nat /\ u[k] \in Nat /\ k + 1 \in 1..n /\ (k + 1) - 1 = k
        BY <2>1
      <3>2. u[k + 1] = u[k] + w[k + 1] /\ w[k + 1] \in Nat
        BY ONLY <1>8, <3>1, \A j \in 1..n : w[j] \in Nat
      <3> QED
        BY <3>1, <3>2
    <2>2. CASE ~(k + 1 <= n)
      BY <2>2
    <2> QED
      BY <2>1, <2>2
  <1>11. P \in SUBSET Nat
    OBVIOUS
  <1> HIDE DEF P
  <1>12. P = Nat
    BY ONLY <1>9, <1>10, <1>11, SetInduction
  <1>13. \A k \in 0..n : k \in P /\ k <= n
    BY ONLY <1>12, n \in Nat
  <1>14. \A k \in 0..n : u[k] \in Nat
    BY ONLY <1>13 DEF P
  <1> QED
    BY ONLY <1>8, <1>14 DEF Sums

(* The number bytes make.                                                  *)
LEMMA NumberSums ==
    ASSUME NEW s \in Seq(Nat)
    PROVE  \E u : Sums(Len(s), [k \in 1..Len(s) |-> s[k] * Weight(k)], u) /\ Number(s) = u[Len(s)]
  <1> DEFINE w == [k \in 1..Len(s) |-> s[k] * Weight(k)]
             u == CHOOSE f : f = [k \in 0..Len(s) |-> IF k = 0 THEN 0 ELSE f[k - 1] + s[k] * Weight(k)]
             v == CHOOSE f : f = [k \in 0..Len(s) |-> IF k = 0 THEN 0 ELSE f[k - 1] + w[k]]
  <1>1. Len(s) \in Nat /\ \A k \in 1..Len(s) : s[k] \in Nat
    OBVIOUS
  <1>2. ASSUME NEW k \in 1..Len(s) PROVE w[k] \in Nat
    <2>1. PICK a \in Nat, b \in Nat : a = s[k] /\ b = Weight(k)
      <3>1. k \in Nat \ {0}
        BY <1>1
      <3> QED
        BY ONLY <1>1, <3>1, WidthFacts, k \in 1..Len(s)
    <2>2. a * b \in Nat
      BY ONLY a \in Nat, b \in Nat
    <2> QED
      BY <2>1, <2>2
  <1>3. \A f : [k \in 0..Len(s) |-> IF k = 0 THEN 0 ELSE f[k - 1] + s[k] * Weight(k)]
                 = [k \in 0..Len(s) |-> IF k = 0 THEN 0 ELSE f[k - 1] + w[k]]
    <2>1. \A k \in 0..Len(s) : k = 0 \/ k \in 1..Len(s)
      BY <1>1
    <2>2. \A k \in 1..Len(s) : w[k] = s[k] * Weight(k)
      OBVIOUS
    <2> HIDE DEF w
    <2> QED
      BY ONLY <2>1, <2>2
  <1>4. u = v
    <2> HIDE DEF w
    <2> QED
      BY ONLY <1>3 DEF u, v
  <1>5. Number(s) = u[Len(s)]
    BY DEF Number
  <1> HIDE DEF w
  <1>6. Sums(Len(s), w, v)
    BY ONLY <1>1, <1>2, SumNat DEF v
  <1> HIDE DEF u, v
  <1>7. Number(s) = v[Len(s)]
    BY ONLY <1>4, <1>5
  <1> QED
    BY ONLY <1>6, <1>7 DEF w

(* It is a number.                                                         *)
LEMMA NumberNat == \A s \in Seq(Nat) : Number(s) \in Nat
  <1> SUFFICES ASSUME NEW s \in Seq(Nat) PROVE Number(s) \in Nat
    OBVIOUS
  <1>1. PICK u : Sums(Len(s), [k \in 1..Len(s) |-> s[k] * Weight(k)], u) /\ Number(s) = u[Len(s)]
    BY NumberSums
  <1>2. Len(s) \in 0..Len(s)
    OBVIOUS
  <1> QED
    BY ONLY <1>1, <1>2 DEF Sums

(* The number bits make.                                                   *)
LEMMA MaskSums ==
    ASSUME NEW s
    PROVE  \E u : Sums(Width, [k \in 1..Width |-> IF k - 1 \in s THEN 2^(k - 1) ELSE 0], u) /\ Mask(s) = u[Width]
  <1> DEFINE w == [k \in 1..Width |-> IF k - 1 \in s THEN 2^(k - 1) ELSE 0]
             u == CHOOSE f : f = [k \in 0..Width |->
                    IF k = 0 THEN 0 ELSE f[k - 1] + (IF k - 1 \in s THEN 2^(k - 1) ELSE 0)]
             v == CHOOSE f : f = [k \in 0..Width |-> IF k = 0 THEN 0 ELSE f[k - 1] + w[k]]
  <1>1. Width \in Nat
    BY WidthFacts
  <1>2. ASSUME NEW k \in 1..Width PROVE w[k] \in Nat
    <2>1. k - 1 \in Nat
      BY <1>1
    <2>2. 2^(k - 1) \in Nat
      BY ONLY <2>1, Powers
    <2> QED
      BY ONLY <2>2, k \in 1..Width
  <1>3. \A f : [k \in 0..Width |-> IF k = 0 THEN 0 ELSE f[k - 1] + (IF k - 1 \in s THEN 2^(k - 1) ELSE 0)]
                 = [k \in 0..Width |-> IF k = 0 THEN 0 ELSE f[k - 1] + w[k]]
    <2>1. \A k \in 0..Width : k = 0 \/ k \in 1..Width
      BY <1>1
    <2>2. \A k \in 1..Width : w[k] = IF k - 1 \in s THEN 2^(k - 1) ELSE 0
      OBVIOUS
    <2> HIDE DEF w
    <2> QED
      BY ONLY <2>1, <2>2
  <1>4. u = v
    <2> HIDE DEF w
    <2> QED
      BY ONLY <1>3 DEF u, v
  <1>5. Mask(s) = u[Width]
    BY DEF Mask
  <1> HIDE DEF w
  <1>6. Sums(Width, w, v)
    BY ONLY <1>1, <1>2, SumNat DEF v
  <1> HIDE DEF u, v
  <1>7. Mask(s) = v[Width]
    BY ONLY <1>4, <1>5
  <1> QED
    BY ONLY <1>6, <1>7 DEF w

(* It is a number.                                                         *)
LEMMA MaskNat == \A s : Mask(s) \in Nat
  <1> SUFFICES ASSUME NEW s PROVE Mask(s) \in Nat
    OBVIOUS
  <1>1. PICK u : Sums(Width, [k \in 1..Width |-> IF k - 1 \in s THEN 2^(k - 1) ELSE 0], u) /\ Mask(s) = u[Width]
    BY MaskSums
  <1>2. Width \in 0..Width
    BY WidthFacts
  <1> QED
    BY ONLY <1>1, <1>2 DEF Sums

(* What is computed is a number, unless it is a division without a result. *)
LEMMA ComputedInt ==
    ASSUME NEW op \in Binaries, NEW lhs \in Int, NEW rhs \in Int, op \in Divisions => rhs # 0
    PROVE  Computed(op, lhs, rhs) \in Int
  <1>2. PICK j \in Nat : j = Word(rhs) % Width
    BY WidthFacts, WordFacts
  <1>3. PICK a \in Nat \ {0} : a = 2^(Word(rhs) % Width)
    BY ONLY <1>2, j \in Nat, Powers
  <1>4. lhs * a \in Int /\ lhs \div a \in Int
    OBVIOUS
  <1>5. ASSUME rhs # 0 PROVE Quotient(lhs, rhs) \in Int
    <2>1. PICK i \in Nat : i = Abs(lhs)
      BY DEF Abs
    <2>2. PICK k \in Nat \ {0} : k = Abs(rhs)
      BY <1>5 DEF Abs
    <2>3. i \div k \in Int
      OBVIOUS
    <2> QED
      BY ONLY <2>1, <2>2, <2>3 DEF Quotient
  <1>6. ASSUME rhs # 0 PROVE lhs - rhs * Quotient(lhs, rhs) \in Int
    <2>1. PICK i \in Int : i = Quotient(lhs, rhs)
      BY <1>5, <1>6
    <2>2. lhs - rhs * i \in Int
      OBVIOUS
    <2> QED
      BY ONLY <2>1, <2>2
  <1>7. /\ lhs + rhs \in Int /\ lhs - rhs \in Int /\ lhs * rhs \in Int
    OBVIOUS
  <1>8. CASE op \in {I32Eq, I32Ne, I32Lt_s, I32Gt_s, I32Gt_u, I32Ge_s}
    BY ONLY <1>8
       DEF Computed, Truth, I32Eq, I32Ne, I32Lt_s, I32Gt_s, I32Gt_u, I32Ge_s, I32Add, I32Sub, I32Mul, I32And, I32Or,
           I32Xor, I32Shl, I32Shr_s, I32Div_s, I32Rem_s
  <1>9. CASE op \in {I32Add, I32Sub, I32Mul}
    BY ONLY <1>7, <1>9
       DEF Computed, I32Eq, I32Ne, I32Lt_s, I32Gt_s, I32Gt_u, I32Ge_s, I32Add, I32Sub, I32Mul, I32And, I32Or,
           I32Xor, I32Shl, I32Shr_s, I32Div_s, I32Rem_s
  <1>10. CASE op \in {I32And, I32Or, I32Xor}
    <2>1. \A s : Mask(s) \in Int
      BY MaskNat
    <2> QED
      BY ONLY <1>10, <2>1
         DEF Computed, I32Eq, I32Ne, I32Lt_s, I32Gt_s, I32Gt_u, I32Ge_s, I32Add, I32Sub, I32Mul, I32And, I32Or,
           I32Xor, I32Shl, I32Shr_s, I32Div_s, I32Rem_s
  <1>11. CASE op \in {I32Shl, I32Shr_s}
    BY ONLY <1>3, <1>4, <1>11
       DEF Computed, I32Eq, I32Ne, I32Lt_s, I32Gt_s, I32Gt_u, I32Ge_s, I32Add, I32Sub, I32Mul, I32And, I32Or,
           I32Xor, I32Shl, I32Shr_s, I32Div_s, I32Rem_s
  <1>12. CASE op \in Divisions
    BY ONLY <1>5, <1>6, <1>12, op \in Divisions => rhs # 0
       DEF Computed, I32Eq, I32Ne, I32Lt_s, I32Gt_s, I32Gt_u, I32Ge_s, I32Add, I32Sub, I32Mul, I32And, I32Or,
           I32Xor, I32Shl, I32Shr_s, I32Div_s, I32Rem_s, Divisions
  <1> QED
    BY ONLY <1>8, <1>9, <1>10, <1>11, <1>12, op \in Binaries DEF Binaries

(* The operand stack keeps numbers.                                        *)
LEMMA StackFacts ==
    ASSUME NEW s \in Seq(Nat)
    PROVE  /\ readi32(s) \in Nat /\ After32(s) \in Seq(Nat)
           /\ readi64(s) \in Nat \X Nat /\ After64(s) \in Seq(Nat)
           /\ \A v \in Nat : writei32(s, v) \in Seq(Nat)
           /\ \A v \in Nat \X Nat : writei64(s, v) \in Seq(Nat)
  <1>1. readi32(s) \in Nat
    BY DEF readi32
  <1>2. ASSUME NEW n \in 1..2, n <= Len(s) PROVE Popped(s, n) \in Seq(Nat) /\ Len(Popped(s, n)) = Len(s) - n
    <2>1. 1 \in Nat \ {0} /\ Len(s) - n \in 0..Len(s)
      BY <1>2
    <2>2. SubSeq(s, 1, Len(s) - n) \in Seq(Nat)
      BY <2>1
    <2>3. Len(SubSeq(s, 1, Len(s) - n)) = Len(s) - n
      BY <2>1
    <2> QED
      BY ONLY <2>2, <2>3 DEF Popped
  <1>3. After32(s) \in Seq(Nat)
    <2>1. s # <<>> => Len(s) >= 1
      OBVIOUS
    <2> QED
      BY <1>2, <2>1 DEF After32
  <1>4. readi64(s) \in Nat \X Nat
    BY DEF readi64
  <1>5. After64(s) \in Seq(Nat)
    <2>1. ~(Len(s) < 2) => 2 <= Len(s)
      OBVIOUS
    <2> QED
      BY <1>2, <2>1 DEF After64
  <1>6. \A v \in Nat : writei32(s, v) \in Seq(Nat)
    BY DEF writei32
  <1>7. ASSUME NEW v \in Nat \X Nat PROVE writei64(s, v) \in Seq(Nat)
    <2>1. v \in Seq(Nat)
      <3>1. PICK a \in Nat, b \in Nat : v = <<a, b>>
        OBVIOUS
      <3> QED
        BY ONLY <3>1, a \in Nat, b \in Nat
    <2>2. s \o v \in Seq(Nat)
      BY ONLY <2>1, s \in Seq(Nat)
    <2> QED
      BY ONLY <2>2, s \in Seq(Nat) DEF writei64
  <1> QED
    BY <1>1, <1>3, <1>4, <1>5, <1>6, <1>7

\* The operand stack has numbers, and room for one more.
Room == {s \in Seq(Nat) : Len(s) < StackSize}

(* A beginning has the length it is cut to.                                *)
LEMMA TakenLen == \A s \in Seq(Nat) : \A n \in 0..Len(s) : Len(SubSeq(s, 1, n)) = n
  OBVIOUS

(* A constant is put on the stack, and taken from it as an i32.            *)
LEMMA ConstantFacts ==
    ASSUME NEW s \in Seq(Nat), NEW expr, expr[1].n \in Int
    PROVE  /\ Constant(s, expr) \in Seq(Nat) /\ readi32(Constant(s, expr)) \in Nat
           /\ s \in Room => After32(Constant(s, expr)) \in Room
           /\ s \in Room /\ expr[1].op = I32Const => readi32(Constant(s, expr)) = Word(expr[1].n)
  <1>1. PICK w : w = Word(expr[1].n)
    OBVIOUS
  <1>2. PICK v : v = Words(expr[1].n)
    OBVIOUS
  <1>3. w \in Nat /\ v \in Nat \X Nat
    BY <1>1, <1>2, WordFacts
  <1>4. PICK t : t = Constant(s, expr)
    OBVIOUS
  <1>5. t = IF expr[1].op = I32Const THEN writei32(s, w) ELSE writei64(s, v)
    BY ONLY <1>1, <1>2, <1>4 DEF Constant
  <1>6. t \in Seq(Nat)
    BY ONLY <1>3, <1>5, StackFacts, s \in Seq(Nat)
  <1>7. readi32(t) \in Nat /\ After32(t) \in Seq(Nat)
    BY ONLY <1>6, StackFacts
  <1>8. Len(After32(t)) = IF t = <<>> THEN 0 ELSE Len(t) - 1
    <2>1. CASE t = <<>>
      BY ONLY <2>1 DEF After32
    <2>2. CASE t # <<>>
      <3>1. 1 \in Nat \ {0} /\ Len(t) - 1 \in 0..Len(t) /\ Len(t) \in Nat
        BY ONLY <1>6, <2>2
      <3>2. Len(SubSeq(t, 1, Len(t) - 1)) = Len(t) - 1
        BY ONLY <1>6, <3>1, TakenLen
      <3> QED
        BY ONLY <2>2, <3>2 DEF After32, Popped
    <2> QED
      BY ONLY <2>1, <2>2
  <1>9. ASSUME s \in Room PROVE After32(t) \in Room
    <2>1. Len(s) \in Nat /\ Len(s) < StackSize /\ StackSize \in Nat
      BY ONLY <1>9, StackAssumption DEF Room
    <2>2. Len(Append(s, w)) = Len(s) + 1
      BY ONLY <1>3, s \in Seq(Nat)
    <2>3. Len(s \o v) = Len(s) + 2
      <3>1. PICK a \in Nat, b \in Nat : v = <<a, b>>
        BY ONLY <1>3
      <3> QED
        BY ONLY <3>1, s \in Seq(Nat), a \in Nat, b \in Nat
    <2>4. t = s \/ t = Append(s, w) \/ (t = s \o v /\ Len(s) + 2 <= StackSize)
      <3>1. writei32(s, w) \in {s, Append(s, w)}
        BY ONLY TRUE DEF writei32
      <3>2. writei64(s, v) = s \/ (writei64(s, v) = s \o v /\ Len(s) + 2 <= StackSize)
        BY ONLY <2>1 DEF writei64
      <3> QED
        BY ONLY <1>5, <3>1, <3>2
    <2>5. Len(t) - 1 < StackSize
      BY ONLY <2>1, <2>2, <2>3, <2>4
    <2>6. 0 < StackSize
      BY ONLY <2>1
    <2> QED
      BY ONLY <1>7, <1>8, <2>5, <2>6 DEF Room
  <1>10. ASSUME s \in Room, expr[1].op = I32Const PROVE readi32(t) = w
    <2>1. Len(s) \in Nat /\ Len(s) < StackSize /\ StackSize \in Nat
      BY ONLY <1>10, StackAssumption DEF Room
    <2>2. t = Append(s, w)
      BY ONLY <1>5, <1>10, <2>1 DEF writei32
    <2>3. t # <<>> /\ t[Len(t)] = w
      <3>1. Len(Append(s, w)) = Len(s) + 1 /\ Append(s, w)[Len(s) + 1] = w
        BY ONLY <1>3, s \in Seq(Nat)
      <3>2. Append(s, w) # <<>>
        BY ONLY <2>1, <3>1
      <3> QED
        BY ONLY <2>2, <3>1, <3>2
    <2> QED
      BY ONLY <2>3 DEF readi32
  <1> QED
    BY ONLY <1>1, <1>4, <1>6, <1>7, <1>9, <1>10

\* ctx->globals, n of them.
Globals(n) == {g \in Seq([ty : Nat, val : Nat]) : Len(g) = n}

\* What the stack is after each global, and memory after each segment.
Evaluating(gs, z0, u) == u[0] = z0 /\ \A k \in 1..Len(gs) : u[k] = After32(Constant(u[k - 1], gs[k].expr))
Filling(ds, z0, u) ==
    /\ u[0] = z0
    /\ \A k \in 1..Len(ds) : u[k] = [i \in DOMAIN u[k - 1] |->
                 IF ds[k].kind = 0 /\ i - Offset(ds[k]) \in DOMAIN ds[k].data
                 THEN ds[k].data[i - Offset(ds[k])] ELSE u[k - 1][i]]

(* Globals are numbers, and the stack has room when they are made.         *)
LEMMA GlobalsMade ==
    ASSUME NEW gs \in Seq(GlobalInits), NEW z0 \in Room, NEW u,
           u = CHOOSE f : f = [k \in 0..Len(gs) |->
                 IF k = 0 THEN z0 ELSE After32(Constant(f[k - 1], gs[k].expr))]
    PROVE  /\ Evaluating(gs, z0, u) /\ u[Len(gs)] \in Room
           /\ [k \in 1..Len(gs) |-> [ty |-> gs[k].ty, val |-> readi32(Constant(u[k - 1], gs[k].expr))]]
                \in Globals(Len(gs))
  <1> DEFINE next(k, z) == After32(Constant(z, gs[k].expr))
             g == [k \in 1..Len(gs) |-> [z \in Room |-> next(k, z)]]
             step(f, k) == IF k = 0 THEN z0 ELSE next(k, f[k - 1])
  <1>1. Len(gs) \in Nat /\ \A k \in 1..Len(gs) : gs[k] \in GlobalInits
    OBVIOUS
  <1>2. \A k \in 1..Len(gs) : gs[k].ty \in Nat /\ gs[k].expr[1].n \in Int
    <2>1. \A e \in GlobalInits : e.ty \in Nat /\ e.expr[1].n \in Int
      <3> SUFFICES ASSUME NEW e \in GlobalInits PROVE e.ty \in Nat /\ e.expr[1].n \in Int
        OBVIOUS
      <3>1. e.ty \in Nat /\ e.expr \in Format!Constexpr
        BY DEF GlobalInits
      <3>2. e.expr[1] \in Format!Instruction
        BY ONLY <3>1 DEF Format!Constexpr
      <3> QED
        BY ONLY <3>1, <3>2 DEF Format!Instruction
    <2> QED
      BY ONLY <1>1, <2>1
  <1>3. \A z \in Room : z \in Seq(Nat)
    BY DEF Room
  <1>4. \A k \in 1..Len(gs), z \in Room : next(k, z) \in Room /\ readi32(Constant(z, gs[k].expr)) \in Nat
    BY ONLY <1>2, <1>3, ConstantFacts
  <1> HIDE DEF next
  <1>5. g \in [1..Len(gs) -> [Room -> Room]] /\ \A k \in 1..Len(gs), z \in Room : g[k][z] = next(k, z)
    BY ONLY <1>4 DEF g
  <1> HIDE DEF g
  <1>6. PICK f0 : Iterates(f0, Room, Len(gs), z0, g)
    BY ONLY <1>1, <1>5, z0 \in Room, Iterate
  <1>7. f0 \in [0..Len(gs) -> Room] /\ f0[0] = z0 /\ \A k \in 1..Len(gs) : f0[k] = next(k, f0[k - 1])
    <2>1. f0 \in [0..Len(gs) -> Room] /\ f0[0] = z0 /\ \A k \in 1..Len(gs) : f0[k] = g[k][f0[k - 1]]
      BY ONLY <1>6 DEF Iterates
    <2>2. \A k \in 1..Len(gs) : f0[k - 1] \in Room
      BY ONLY <1>1, <2>1
    <2> QED
      BY ONLY <1>5, <2>1, <2>2
  <1>8. f0 = [k \in 0..Len(gs) |-> step(f0, k)]
    <2>1. \A k \in 0..Len(gs) : f0[k] = step(f0, k)
      <3>1. \A k \in 0..Len(gs) : k = 0 \/ k \in 1..Len(gs)
        BY ONLY <1>1
      <3> QED
        BY ONLY <1>7, <3>1
    <2>2. f0 = [k \in 0..Len(gs) |-> f0[k]]
      BY ONLY <1>7
    <2> QED
      BY ONLY <2>1, <2>2
  <1>9. u = [k \in 0..Len(gs) |-> step(u, k)]
    BY ONLY <1>8, u = CHOOSE f : f = [k \in 0..Len(gs) |->
              IF k = 0 THEN z0 ELSE After32(Constant(f[k - 1], gs[k].expr))] DEF next
  <1>10. u[0] = z0 /\ \A k \in 1..Len(gs) : u[k] = next(k, u[k - 1])
    BY ONLY <1>1, <1>9
  <1> DEFINE P == {k \in Nat : k <= Len(gs) => u[k] \in Room}
  <1>11. 0 \in P
    BY ONLY <1>10, z0 \in Room
  <1>12. ASSUME NEW k \in P PROVE k + 1 \in P
    <2>1. CASE k + 1 <= Len(gs)
      <3>1. k \in Nat /\ u[k] \in Room /\ k + 1 \in 1..Len(gs) /\ (k + 1) - 1 = k
        BY ONLY <1>1, <2>1, k \in P
      <3> QED
        BY ONLY <1>4, <1>10, <3>1
    <2>2. CASE ~(k + 1 <= Len(gs))
      BY ONLY <2>2, k \in P
    <2> QED
      BY ONLY <2>1, <2>2
  <1>13. P \in SUBSET Nat
    OBVIOUS
  <1> HIDE DEF P
  <1>14. P = Nat
    BY ONLY <1>11, <1>12, <1>13, SetInduction
  <1>15. \A k \in 0..Len(gs) : u[k] \in Room
    BY ONLY <1>1, <1>14 DEF P
  <1>16. \A k \in 1..Len(gs) : u[k - 1] \in Room
    BY ONLY <1>1, <1>15
  <1>17. [k \in 1..Len(gs) |-> [ty |-> gs[k].ty, val |-> readi32(Constant(u[k - 1], gs[k].expr))]]
            \in [1..Len(gs) -> [ty : Nat, val : Nat]]
    BY ONLY <1>2, <1>4, <1>16
  <1>18. \A f \in [1..Len(gs) -> [ty : Nat, val : Nat]] : f \in Globals(Len(gs))
    <2>1. \A X : \A n \in Nat : \A f \in [1..n -> X] : f \in Seq(X) /\ Len(f) = n
      OBVIOUS
    <2> QED
      BY ONLY <1>1, <2>1 DEF Globals
  <1>19. u[Len(gs)] \in Room
    BY ONLY <1>1, <1>15
  <1>20. Evaluating(gs, z0, u)
    BY ONLY <1>10 DEF next, Evaluating
  <1> QED
    BY ONLY <1>17, <1>18, <1>19, <1>20

(* What is copied from segments into numbers is numbers.                   *)
LEMMA MemoryMade ==
    ASSUME NEW ds \in Seq(SegmentsRead), NEW z0 \in Seq(Nat), NEW n \in Nat, n = Len(ds), NEW u,
           u = CHOOSE f : f = [k \in 0..n |-> IF k = 0 THEN z0
                 ELSE [i \in DOMAIN f[k - 1] |->
                         IF ds[k].kind = 0 /\ i - Offset(ds[k]) \in DOMAIN ds[k].data
                         THEN ds[k].data[i - Offset(ds[k])] ELSE f[k - 1][i]]]
    PROVE  u[n] \in Seq(Nat) /\ Filling(ds, z0, u)
  <1> DEFINE next(k, z) == [i \in DOMAIN z |->
                         IF ds[k].kind = 0 /\ i - Offset(ds[k]) \in DOMAIN ds[k].data
                         THEN ds[k].data[i - Offset(ds[k])] ELSE z[i]]
             Z == Seq(Nat)
             g == [k \in 1..n |-> [z \in Z |-> next(k, z)]]
             step(f, k) == IF k = 0 THEN z0 ELSE next(k, f[k - 1])
  <1>1. \A k \in 1..n : ds[k] \in SegmentsRead
    OBVIOUS
  <1>2. \A k \in 1..n : ds[k].data \in Seq(Nat)
    BY ONLY <1>1 DEF SegmentsRead
  <1>3. \A k \in 1..n : \A i : i \in DOMAIN ds[k].data => ds[k].data[i] \in Nat
    BY ONLY <1>2
  <1>4. ASSUME NEW k \in 1..n, NEW z \in Z PROVE next(k, z) \in Z
    <2>1. \A i \in DOMAIN z : z[i] \in Nat
      OBVIOUS
    <2>2. \A i \in DOMAIN z : next(k, z)[i] \in Nat
      BY ONLY <1>3, <2>1, k \in 1..n
    <2>3. DOMAIN next(k, z) = 1..Len(z) /\ Len(z) \in Nat
      OBVIOUS
    <2>4. next(k, z) = [i \in DOMAIN z |-> next(k, z)[i]]
      OBVIOUS
    <2> HIDE DEF next
    <2>5. next(k, z) \in [1..Len(z) -> Nat]
      BY ONLY <2>2, <2>3, <2>4
    <2>6. \A j \in Nat : \A f \in [1..j -> Nat] : f \in Seq(Nat)
      OBVIOUS
    <2> QED
      BY ONLY <2>3, <2>5, <2>6 DEF Z
  <1> HIDE DEF next, Z
  <1>5. g \in [1..n -> [Z -> Z]] /\ \A k \in 1..n, z \in Z : g[k][z] = next(k, z)
    BY ONLY <1>4 DEF g
  <1> HIDE DEF g
  <1>13. z0 \in Z
    BY DEF Z
  <1>6. PICK f0 : Iterates(f0, Z, n, z0, g)
    BY ONLY n \in Nat, <1>5, <1>13, Iterate
  <1>7. f0 \in [0..n -> Z] /\ f0[0] = z0 /\ \A k \in 1..n : f0[k] = next(k, f0[k - 1])
    <2>1. f0 \in [0..n -> Z] /\ f0[0] = z0 /\ \A k \in 1..n : f0[k] = g[k][f0[k - 1]]
      BY ONLY <1>6 DEF Iterates
    <2>2. \A k \in 1..n : f0[k - 1] \in Z
      BY ONLY n \in Nat, <2>1
    <2> QED
      BY ONLY <1>5, <2>1, <2>2
  <1>8. f0 = [k \in 0..n |-> step(f0, k)]
    <2>1. \A k \in 0..n : f0[k] = step(f0, k)
      <3>1. \A k \in 0..n : k = 0 \/ k \in 1..n
        OBVIOUS
      <3> QED
        BY ONLY <1>7, <3>1
    <2>2. f0 = [k \in 0..n |-> f0[k]]
      BY ONLY <1>7
    <2> QED
      BY ONLY <2>1, <2>2
  <1>9. u = [k \in 0..n |-> step(u, k)]
    BY ONLY <1>8, u = CHOOSE f : f = [k \in 0..n |-> IF k = 0 THEN z0
                 ELSE [i \in DOMAIN f[k - 1] |->
                         IF ds[k].kind = 0 /\ i - Offset(ds[k]) \in DOMAIN ds[k].data
                         THEN ds[k].data[i - Offset(ds[k])] ELSE f[k - 1][i]]] DEF next
  <1>10. u[0] = z0 /\ \A k \in 1..n : u[k] = next(k, u[k - 1])
    BY ONLY n \in Nat, <1>9
  <1> DEFINE P == {k \in Nat : k <= n => u[k] \in Z}
  <1>11. 0 \in P
    BY ONLY <1>10, <1>13
  <1>12. ASSUME NEW k \in P PROVE k + 1 \in P
    <2>1. CASE k + 1 <= n
      <3>1. k \in Nat /\ u[k] \in Z /\ k + 1 \in 1..n /\ (k + 1) - 1 = k
        BY ONLY n \in Nat, <2>1, k \in P
      <3> QED
        BY ONLY <1>4, <1>10, <3>1
    <2>2. CASE ~(k + 1 <= n)
      BY ONLY <2>2, k \in P
    <2> QED
      BY ONLY <2>1, <2>2
  <1>14. P \in SUBSET Nat
    OBVIOUS
  <1> HIDE DEF P
  <1>15. P = Nat
    BY ONLY <1>11, <1>12, <1>14, SetInduction
  <1>16. n <= n
    BY ONLY n \in Nat
  <1>17. Filling(ds, z0, u)
    BY ONLY <1>10, n = Len(ds) DEF next, Filling
  <1>18. u[n] \in Seq(Nat)
    BY ONLY n \in Nat, <1>15, <1>16 DEF P, Z
  <1> QED
    BY ONLY <1>17, <1>18

\* What holds of the instructions of a function f of p, n being an index.
Within(p, f, c) ==
    /\ c \in Format!Instruction
    /\ c.op \in {LocalGet, LocalSet} => c.n + 1 \in DOMAIN f.locals
    /\ c.op \in {GlobalGet, GlobalSet} => c.n + 1 \in 1..Len(Items(p.globalsec))
    /\ c.op \in Loads \cup Stores => c.n >= 0 /\ p.memsec \notin {NULL, <<>>}

(* Validation has looked at each of them.                                  *)
LEMMA ValidBody ==
    ASSUME NEW p \in Modules, NEW k, NEW f, Runs(p, k, f), NEW i \in 1..Len(f.codes)
    PROVE  Within(p, f, f.codes[i])
  <1>1. p \in Format!Writable /\ M!Valid(p)
    BY ModulesAssumption, ValidAssumption
  <1>2. PICK s : s = f.codes
    OBVIOUS
  <1>3. /\ s \in Seq(Format!Instruction) /\ s = p.codesec[k].expr /\ p.codesec # NULL
        /\ k \in 1..Len(p.codesec) /\ f.locals = M!LocalTypes(p, k) /\ i \in 1..Len(s)
    BY ONLY <1>2, Runs(p, k, f), i \in 1..Len(f.codes) DEF Runs, Sound
  <1>4. k \in DOMAIN M!Items(p.codesec)
    <2>1. p.codesec \in Seq(Bodies)
      BY ONLY <1>1, <1>3, ModuleTypes DEF Optional
    <2> QED
      BY ONLY <1>3, <2>1 DEF M!Items
  <1>5. PICK c : c = s[i]
    OBVIOUS
  <1>6. c \in Format!Instruction /\ c \in M!ToSet(s)
    BY ONLY <1>3, <1>5 DEF M!ToSet
  <1>7. /\ c.op \in {M!LocalGet, M!LocalSet} => c.n + 1 \in DOMAIN M!LocalTypes(p, k)
        /\ c.op \in {M!GlobalGet, M!GlobalSet} => c.n + 1 \in DOMAIN M!Items(p.globalsec)
        /\ c.op \in M!Loads \cup M!Stores => c.n >= 0 /\ p.memsec \notin {NULL, <<>>}
    BY ONLY <1>1, <1>3, <1>4, <1>6 DEF M!Valid
  <1>8. /\ M!LocalGet = LocalGet /\ M!LocalSet = LocalSet /\ M!GlobalGet = GlobalGet /\ M!GlobalSet = GlobalSet
        /\ M!Loads = Loads /\ M!Stores = Stores
    BY ONLY TRUE DEF M!LocalGet, LocalGet, M!LocalSet, LocalSet, M!GlobalGet, GlobalGet, M!GlobalSet, GlobalSet,
       M!Loads, Loads, M!Stores, Stores, M!I32Load, I32Load, M!I64Load, I64Load, M!I32Load8_s, I32Load8_s,
       M!I32Load8_u, I32Load8_u, M!I32Load16_u, I32Load16_u, M!I32Store, I32Store, M!I64Store, I64Store,
       M!I32Store8, I32Store8
  <1>9. DOMAIN M!Items(p.globalsec) = 1..Len(Items(p.globalsec))
    <2>1. Items(p.globalsec) \in Seq(GlobalInits)
      <3>1. <<>> \in Seq(GlobalInits)
        OBVIOUS
      <3> QED
        BY ONLY <1>1, <3>1, ModuleTypes DEF Items, Optional
    <2> QED
      BY ONLY <2>1, SameItems
  <1> QED
    BY ONLY <1>2, <1>3, <1>5, <1>6, <1>7, <1>8, <1>9 DEF Within

----------------------------------------------------------------------------
(* Where a program strays                                                  *)

(* A sequence has elements.                                                *)
LEMMA Elements ==
    ASSUME NEW X, NEW s \in Seq(X)
    PROVE  /\ \A k \in DOMAIN s : s[k] \in X
           /\ \A k \in 1..Len(s) : s[k] \in X
  OBVIOUS

(* The segments there are, and those of them that are active.              *)
LEMMA SegmentsAre ==
    ASSUME NEW p \in Modules, Filled(m, p, 14)
    PROVE  /\ Segments \in Seq(SegmentsRead)
           /\ \A d \in ToSet(Segments) :
                 d.kind = 0 => d \in ActiveData /\ d \in ToSet(Items(p.datasec)) /\ d.expr[1].op = I32Const
  <1>1. p \in Format!Writable /\ M!Valid(p)
    BY ModulesAssumption, ValidAssumption
  <1>2. PICK x, w : x = m.datasec /\ w = p.datasec
    OBVIOUS
  <1>3. ItemsKept(x, w) /\ Items(x) \in Seq(SegmentsRead)
    BY ONLY <1>1, <1>2, Filled(m, p, 14), KeptItems
  <1>4. Segments = <<>> \/ Segments = Items(x)
    BY ONLY <1>2 DEF Segments
  <1>5. <<>> \in Seq(SegmentsRead) /\ ToSet(<<>>) = {}
    BY EmptyList DEF ToSet
  <1>6. ASSUME NEW d \in ToSet(Items(x)), d.kind = 0
        PROVE  d \in ActiveData /\ d \in ToSet(Items(w)) /\ d.expr[1].op = I32Const
    <2>1. PICK k \in DOMAIN Items(x) : d = Items(x)[k]
      BY ONLY d \in ToSet(Items(x)) DEF ToSet
    <2>2. d \in SegmentsRead
      BY ONLY <1>3, <2>1, Elements
    <2>3. x # NULL /\ w # NULL
      <3>1. ToSet(<<>>) = {}
        BY ONLY <1>5
      <3>2. DOMAIN <<>> = {}
        OBVIOUS
      <3> QED
        BY ONLY <1>3, <2>1, <3>2 DEF ItemsKept, Items
    <2>4. Items(x) = x /\ Items(w) = w
      BY ONLY <2>3 DEF Items
    <2>5. k \in DOMAIN w /\ d = w[k]
      BY ONLY <1>3, <1>6, <2>1, <2>4 DEF ItemsKept
    <2>6. d \in ActiveData
      BY ONLY <1>6, <2>2 DEF SegmentsRead
    <2>7. d \in ToSet(Items(w))
      BY ONLY <2>4, <2>5 DEF ToSet
    <2>8. \A e \in M!ToSet(M!Items(p.datasec)) : e.kind = 0 => e.expr[1].op = M!I32Const
      BY ONLY <1>1 DEF M!Valid
    <2>9. M!ToSet(M!Items(p.datasec)) = ToSet(Items(w))
      BY ONLY <1>2, SameItems DEF M!ToSet, ToSet
    <2> QED
      BY ONLY <1>6, <2>6, <2>7, <2>8, <2>9 DEF M!I32Const, I32Const
  <1> QED
    BY ONLY <1>2, <1>3, <1>4, <1>5, <1>6

(* Two names of the same.                                                  *)
LEMMA SameBegin == \A d : M!Begin(d) = Int32(d.expr[1].n)
  BY DEF M!Begin, M!Int32, Int32, M!Word, Word, M!Limit, Limit, M!Width, Width

(* A segment that is in the lower half of the address space stays there.   *)
LEMMA SegmentStray ==
    ASSUME NEW p \in Modules, Filled(m, p, 14), stack \in Room,
           NEW a \in Targets, a < 0 \/ a = Greatest
    PROVE  \E d \in ToSet(Items(p.datasec)) :
              d.kind = 0 /\ (M!Begin(d) < 0 \/ M!Begin(d) + Len(d.data) >= Limit \div 2)
  <1>1. PICK d \in ToSet(Segments) : d.kind = 0 /\ \E k \in DOMAIN d.data : a = Int32(Offset(d) + k - 1)
    BY ONLY a \in Targets DEF Targets
  <1>2. PICK k : k \in DOMAIN d.data /\ a = Int32(Offset(d) + k - 1)
    BY ONLY <1>1
  <1>3. d \in ActiveData /\ d \in ToSet(Items(p.datasec)) /\ d.expr[1].op = I32Const
    BY ONLY <1>1, d \in ToSet(Segments), p \in Modules, Filled(m, p, 14), SegmentsAre
  <1>4. d.data \in Seq(Nat) /\ d.expr[1].n \in Int
    <2>1. d.data \in Seq(Nat) /\ d.expr \in Format!Constexpr
      BY ONLY <1>3 DEF ActiveData
    <2>2. d.expr[1] \in Format!Instruction
      BY ONLY <2>1 DEF Format!Constexpr
    <2> QED
      BY ONLY <2>1, <2>2 DEF Format!Instruction
  <1>5. PICK b : b = M!Begin(d)
    OBVIOUS
  <1>6. b = Offset(d) /\ b \in Int
    <2>1. stack \in Seq(Nat)
      BY DEF Room
    <2>2. readi32(Constant(stack, d.expr)) = Word(d.expr[1].n)
      BY ONLY <1>3, <1>4, <2>1, stack \in Room, ConstantFacts
    <2> QED
      BY ONLY <1>4, <1>5, <2>2, SameBegin, WordFacts DEF Offset
  <1>7. PICK n \in Nat : n = Len(d.data)
    BY ONLY <1>4
  <1>8. k \in 1..n
    BY ONLY <1>2, <1>4, <1>7
  <1>9. PICK h \in Int : h = Limit \div 2
    BY WidthFacts
  <1>10. CASE b >= 0 /\ b + n < h
    <2>1. PICK x : x = b + k - 1
      OBVIOUS
    <2>2. x \in Nat /\ x < h - 1
      BY ONLY <1>6, <1>8, <1>10, <2>1, n \in Nat, h \in Int
    <2>3. x < Limit \div 2
      BY ONLY <1>9, <2>2, h \in Int
    <2>4. a = x
      BY ONLY <1>2, <1>6, <2>1, <2>2, <2>3, WordFacts
    <2>5. Greatest = h - 1
      BY ONLY <1>9 DEF Greatest
    <2> QED
      BY ONLY <2>2, <2>4, <2>5, h \in Int, a < 0 \/ a = Greatest
  <1>11. CASE ~(b >= 0 /\ b + n < h)
    <2>1. b < 0 \/ b + n >= h
      BY ONLY <1>6, <1>11, n \in Nat, h \in Int
    <2> QED
      BY ONLY <1>1, <1>3, <1>5, <1>7, <1>9, <2>1
  <1> QED
    BY ONLY <1>10, <1>11

(* An access that is in the lower half of the address space is in memory.  *)
LEMMA AccessStray ==
    ASSUME NEW r \in Nat, NEW i \in Nat, NEW n \in Nat, NEW ea, ea = Int32(r + i),
           NEW through \in Through(ea, n), through, ~InMem(ea, n)
    PROVE  r + i + n >= Limit \div 2
  <1>1. PICK h \in Int : h = Limit \div 2
    BY WidthFacts
  <1>2. CASE r + i + n < h
    <2>1. r + i \in Nat /\ r + i < Limit \div 2
      BY ONLY <1>1, <1>2, r \in Nat, i \in Nat, n \in Nat, h \in Int
    <2>2. ea = r + i
      BY ONLY <2>1, WordFacts, ea = Int32(r + i)
    <2>3. ea >= 0 /\ ~(ea + n >= Limit \div 2)
      BY ONLY <1>1, <1>2, <2>1, <2>2, r \in Nat, i \in Nat, n \in Nat, h \in Int
    <2>4. through = (ea + n <= Len(mem))
      BY ONLY <2>3, through \in Through(ea, n) DEF Through
    <2> QED
      BY ONLY <2>3, <2>4, through, ~InMem(ea, n) DEF InMem
  <1> QED
    BY ONLY <1>1, <1>2, r \in Nat, i \in Nat, n \in Nat, h \in Int

\* Everything the program works on is numbers.
Numbers ==
    /\ stack \in Seq(Nat)
    /\ globals \in Globals(Len(Items(written.globalsec)))
    /\ mem \in Seq(Nat)
    /\ DOMAIN locals = DOMAIN Function.locals
    /\ \A k \in DOMAIN locals : locals[k] \in Nat \X Nat

(* How many bytes there are to an access.                                  *)
LEMMA SizeFacts == \A op : Size(op) \in {1, 2, 4, 8} /\ (op \in {I64Load, I64Store} => Size(op) = 8)
  BY DEF Size, I32Load, I32Store, I64Load, I64Store, I32Load16_u

\* Where _start would have to read or write.
AccessAbove ==
    \/ Now.op \in Loads /\ readi32(stack) + Now.n + Size(Now.op) >= Limit \div 2
    \/ Now.op \in Stores /\
          readi32(IF Now.op = I64Store THEN After64(stack) ELSE After32(stack)) + Now.n + Size(Now.op) >= Limit \div 2

(* _start strays by an access in the upper half.                           *)
LEMMA StartStray ==
    ASSUME Numbers, Within(written, Function, Now), invoke_i, at' = "stray"
    PROVE  AccessAbove /\ UNCHANGED <<stack, ip>>
  <1>1. PICK c : c = Now
    OBVIOUS
  <1>2. c.n \in Int /\ (c.op \in Loads \cup Stores => c.n \in Nat)
    BY <1>1 DEF Within, Format!Instruction
  <1>3. stack \in Seq(Nat)
    BY DEF Numbers
  <1>4. Size(c.op) \in Nat
    BY SizeFacts
  <1>5. CASE Load
    <2>1. PICK ea, n : ea = Address(readi32(stack)) /\ n = Size(c.op)
      OBVIOUS
    <2>2. at = "run_vm" /\ c.op \in Loads
      BY ONLY <1>1, <1>5 DEF Load, At
    <2>3. PICK through \in Through(ea, n) : through /\ ~InMem(ea, n) /\ Stray
      <3>1. \E through \in Through(ea, n) :
              IF through /\ ~InMem(ea, n) THEN Stray ELSE at' = at
        BY ONLY <1>1, <1>5, <2>1 DEF Load, Push
      <3> QED
        BY ONLY <2>2, <3>1, at' = "stray"
    <2>4. ea = Int32(readi32(stack) + c.n) /\ readi32(stack) \in Nat
      BY ONLY <1>1, <1>3, <2>1, StackFacts DEF Address
    <2>5. readi32(stack) + c.n + n >= Limit \div 2
      BY ONLY <1>2, <1>4, <2>1, <2>2, <2>3, <2>4, AccessStray
    <2> QED
      BY ONLY <1>1, <2>1, <2>2, <2>3, <2>5 DEF AccessAbove, Stray, Stop, dataVars
  <1>6. CASE Store
    <2>1. PICK below : below = IF c.op = I64Store THEN After64(stack) ELSE After32(stack)
      OBVIOUS
    <2>2. PICK ea, n : ea = Address(readi32(below)) /\ n = Size(c.op)
      OBVIOUS
    <2>3. at = "run_vm" /\ c.op \in Stores
      BY ONLY <1>1, <1>6 DEF Store, At
    <2>4. PICK through \in Through(ea, n) : through /\ ~InMem(ea, n) /\ Stray
      <3>1. \E through \in Through(ea, n) :
              IF through /\ ~InMem(ea, n) THEN Stray ELSE at' = at
        BY ONLY <1>1, <1>6, <2>1, <2>2 DEF Store, Push
      <3> QED
        BY ONLY <2>3, <3>1, at' = "stray"
    <2>5. below \in Seq(Nat)
      BY ONLY <1>3, <2>1, StackFacts
    <2>6. ea = Int32(readi32(below) + c.n) /\ readi32(below) \in Nat
      BY ONLY <1>1, <2>2, <2>5, StackFacts DEF Address
    <2>7. readi32(below) + c.n + n >= Limit \div 2
      BY ONLY <1>2, <1>4, <2>2, <2>3, <2>4, <2>6, AccessStray
    <2> QED
      BY ONLY <1>1, <2>1, <2>2, <2>3, <2>4, <2>7 DEF AccessAbove, Stray, Stop, dataVars
  <1>7. CASE invoke_i /\ ~Load /\ ~Store
    <2>1. at' \in {at, "returned", "task_exit", "fault"} /\ at = "run_vm"
      BY ONLY <1>7 DEF invoke_i, EndOrReturn, TaskExit, DoNothing, Const, DropTop, GetLocal, SetLocal, GetGlobal,
         SetGlobal, Eqz, Binop, DivideFault, DivideAnyway, Result, Push, Stop, At
    <2> QED
      BY ONLY <2>1, at' = "stray"
  <1> QED
    BY ONLY <1>5, <1>6, <1>7, invoke_i

(* A word makes bytes.                                                     *)
LEMMA BytesNat ==
    \A w \in Nat, n \in Nat :
        Bytes(w, n) \in Seq(Nat) /\ Len(Bytes(w, n)) = n /\ \A k \in 1..n : Bytes(w, n)[k] \in Nat
  <1> SUFFICES ASSUME NEW w \in Nat, NEW n \in Nat
               PROVE  Bytes(w, n) \in Seq(Nat) /\ Len(Bytes(w, n)) = n /\ \A k \in 1..n : Bytes(w, n)[k] \in Nat
    OBVIOUS
  <1>1. PICK b \in Nat \ {0} : b = Base
    BY WidthFacts
  <1>2. ASSUME NEW k \in 1..n PROVE (w \div Weight(k)) % b \in Nat
    <2>1. PICK a \in Nat \ {0} : a = Weight(k)
      BY WidthFacts
    <2>2. w \div a \in Int
      OBVIOUS
    <2>3. (w \div a) % b \in Nat
      BY ONLY <2>2, b \in Nat \ {0}
    <2> QED
      BY ONLY <2>1, <2>3
  <1>3. Bytes(w, n) = [k \in 1..n |-> (w \div Weight(k)) % b]
    BY ONLY <1>1 DEF Bytes
  <1>4. Bytes(w, n) \in [1..n -> Nat]
    BY ONLY <1>2, <1>3
  <1>5. \A f \in [1..n -> Nat] : f \in Seq(Nat) /\ Len(f) = n /\ \A k \in 1..n : f[k] \in Nat
    OBVIOUS
  <1> QED
    BY ONLY <1>4, <1>5

(* What is taken from the middle is as long as what is asked for.          *)
LEMMA Middle ==
    ASSUME NEW s \in Seq(Nat), NEW ea \in Nat, NEW n \in Nat, ea + n <= Len(s)
    PROVE  SubSeq(s, ea + 1, ea + n) \in Seq(Nat) /\ Len(SubSeq(s, ea + 1, ea + n)) = n
  <1>1. ea + 1 \in 1..(Len(s) + 1) /\ ea + n \in 0..Len(s)
    OBVIOUS
  <1>2. SubSeq(s, ea + 1, ea + n) \in Seq(Nat)
    BY <1>1
  <1>3. Len(SubSeq(s, ea + 1, ea + n)) = IF ea + 1 <= ea + n THEN (ea + n) - (ea + 1) + 1 ELSE 0
    BY <1>1
  <1> QED
    BY ONLY <1>2, <1>3, ea \in Nat, n \in Nat

(* What is loaded is numbers.                                              *)
LEMMA LoadedNat ==
    ASSUME NEW op, NEW s \in Seq(Nat), NEW bytes \in Seq(Nat), Len(bytes) = Size(op)
    PROVE  Loaded(op, s, bytes) \in Seq(Nat)
  <1>1. CASE op = I64Load
    <2>1. Len(bytes) = 8
      BY ONLY <1>1, SizeFacts, Len(bytes) = Size(op)
    <2>2. SubSeq(bytes, 5, 8) \in Seq(Nat) /\ SubSeq(bytes, 1, 4) \in Seq(Nat)
      <3>1. 4 \in Nat /\ 0 \in Nat /\ 4 + 1 = 5 /\ 4 + 4 = 8 /\ 0 + 1 = 1 /\ 0 + 4 = 4 /\ 8 <= 8 /\ 4 <= 8
        OBVIOUS
      <3>2. SubSeq(bytes, 4 + 1, 4 + 4) \in Seq(Nat) /\ SubSeq(bytes, 0 + 1, 0 + 4) \in Seq(Nat)
        BY ONLY <2>1, <3>1, bytes \in Seq(Nat), Middle
      <3> QED
        BY ONLY <3>1, <3>2
    <2>3. Number(SubSeq(bytes, 5, 8)) \in Nat /\ Number(SubSeq(bytes, 1, 4)) \in Nat
      BY ONLY <2>2, NumberNat
    <2>4. <<Number(SubSeq(bytes, 5, 8)), Number(SubSeq(bytes, 1, 4))>> \in Nat \X Nat
      BY ONLY <2>3
    <2>5. writei64(s, <<Number(SubSeq(bytes, 5, 8)), Number(SubSeq(bytes, 1, 4))>>) \in Seq(Nat)
      BY ONLY <2>4, s \in Seq(Nat), StackFacts
    <2> QED
      BY ONLY <1>1, <2>5 DEF Loaded, I64Load, I32Load8_s
  <1>2. CASE op = I32Load8_s
    <2>1. PICK x \in Nat : x = bytes[1]
      <3>1. Len(bytes) >= 1
        BY ONLY SizeFacts, Len(bytes) = Size(op)
      <3> QED
        BY ONLY <3>1, bytes \in Seq(Nat)
    <2>2. PICK b \in Nat : b = Base
      BY WidthFacts
    <2>3. Int8(x) \in Int
      BY ONLY <2>2, x \in Nat, b \in Nat DEF Int8
    <2>4. writei32(s, Word(Int8(x))) \in Seq(Nat)
      BY ONLY <2>3, WordFacts, StackFacts, s \in Seq(Nat)
    <2> QED
      BY ONLY <1>2, <2>1, <2>4 DEF Loaded, I64Load, I32Load8_s
  <1>3. CASE op # I64Load /\ op # I32Load8_s
    <2>1. writei32(s, Number(bytes)) \in Seq(Nat)
      BY ONLY NumberNat, StackFacts, s \in Seq(Nat), bytes \in Seq(Nat)
    <2> QED
      BY ONLY <1>3, <2>1 DEF Loaded
  <1> QED
    BY ONLY <1>1, <1>2, <1>3

\* Everything is numbers after an instruction.
NumbersThen ==
    /\ stack' \in Seq(Nat)
    /\ globals' \in Globals(Len(Items(written.globalsec)))
    /\ mem' \in Seq(Nat)
    /\ DOMAIN locals' = DOMAIN Function.locals
    /\ \A k \in DOMAIN locals' : locals'[k] \in Nat \X Nat

(* If only the stack changes.                                              *)
LEMMA StackOnly == Numbers /\ UNCHANGED <<globals, mem, locals>> /\ stack' \in Seq(Nat) => NumbersThen
  BY DEF Numbers, NumbersThen

(* Two words are twice as many bytes.                                      *)
LEMMA TwiceAsMany ==
    ASSUME NEW f \in Seq(Nat), NEW g \in Seq(Nat), NEW n \in Nat, Len(f) = n, Len(g) = n
    PROVE  \A k \in 1..(n + n) : (f \o g)[k] \in Nat
  <1>1. f = [i \in 1..n |-> f[i]] /\ g = [i \in 1..n |-> g[i]]
    OBVIOUS
  <1>2. \A k \in 1..(n + n) : (f \o g)[k] = IF k <= n THEN f[k] ELSE g[k - n]
    BY ONLY <1>1, ConcatAt, n \in Nat
  <1>3. (\A k \in 1..Len(f) : f[k] \in Nat) /\ \A k \in 1..Len(g) : g[k] \in Nat
    OBVIOUS
  <1>4. \A k \in 1..(n + n) : IF k <= n THEN k \in 1..n ELSE k - n \in 1..n
    OBVIOUS
  <1> QED
    BY ONLY <1>2, <1>3, <1>4, Len(f) = n, Len(g) = n

(* Loads and stores.                                                       *)
LEMMA AccessNumbers ==
    ASSUME Numbers, Within(written, Function, Now), Load \/ Store, at' # "stray"
    PROVE  NumbersThen
  <1> DEFINE c == Now
             n == Size(c.op)
  <1>1. c = Now
    OBVIOUS
  <1>2. c.op \in Loads \cup Stores
    BY DEF Load, Store, At
  <1>3. c.n \in Nat
    BY ONLY <1>1, <1>2, Within(written, Function, Now) DEF Within, Format!Instruction
  <1>4. stack \in Seq(Nat) /\ mem \in Seq(Nat)
    BY ONLY Numbers DEF Numbers
  <1>5. n \in Nat /\ n = Size(c.op)
    BY SizeFacts
  <1> HIDE DEF c, n
  <1>6. CASE Load
    <2>1. PICK ea : ea = Address(readi32(stack))
      OBVIOUS
    <2>2. ea \in Int
      <3>1. readi32(stack) \in Nat
        BY ONLY <1>4, StackFacts
      <3>2. readi32(stack) + c.n \in Int
        BY ONLY <1>3, <3>1
      <3> QED
        BY ONLY <1>1, <2>1, <3>2, WordFacts DEF Address
    <2>3. PICK through :
             /\ through => InMem(ea, n)
             /\ Push(Loaded(c.op, After32(stack), IF through THEN SubSeq(mem, ea + 1, ea + n) ELSE [k \in 1..n |-> 0]))
             /\ UNCHANGED <<globals, mem, locals>>
      <3>2. ~Stray
        BY ONLY at' # "stray" DEF Stray, Stop
      <3>3. \E through \in Through(ea, n) :
              IF through /\ ~InMem(ea, n) THEN Stray
              ELSE /\ Push(Loaded(c.op, After32(stack), IF through THEN SubSeq(mem, ea + 1, ea + n) ELSE [k \in 1..n |-> 0]))
                   /\ UNCHANGED <<globals, mem, locals>>
        BY ONLY <1>6, <2>1 DEF Load, c, n
      <3> QED
        BY ONLY <3>2, <3>3
    <2>4. PICK bytes : bytes = IF through THEN SubSeq(mem, ea + 1, ea + n) ELSE [k \in 1..n |-> 0]
      OBVIOUS
    <2>5. bytes \in Seq(Nat) /\ Len(bytes) = n
      <3>1. CASE through
        <4>1. ea \in Nat /\ ea + n <= Len(mem)
          BY ONLY <2>2, <2>3, <3>1 DEF InMem
        <4> QED
          BY ONLY <1>4, <2>4, <3>1, <4>1, Middle, <1>5
      <3>2. CASE ~through
        <4>1. [k \in 1..n |-> 0] \in Seq(Nat) /\ Len([k \in 1..n |-> 0]) = n
          BY ONLY <1>5
        <4> QED
          BY ONLY <2>4, <3>2, <4>1
      <3> QED
        BY ONLY <3>1, <3>2
    <2>6. stack' = Loaded(c.op, After32(stack), bytes)
      BY ONLY <2>3, <2>4 DEF Push
    <2>7. After32(stack) \in Seq(Nat)
      BY ONLY <1>4, StackFacts
    <2>8. stack' \in Seq(Nat)
      BY ONLY <1>5, <2>5, <2>6, <2>7, LoadedNat
    <2> QED
      BY ONLY <2>3, <2>8, Numbers, StackOnly
  <1>7. CASE Store
    <2> DEFINE v     == readi64(stack)
               below == IF c.op = I64Store THEN After64(stack) ELSE After32(stack)
               ea    == Address(readi32(below))
               bytes == IF c.op = I64Store THEN Bytes(v[2], 4) \o Bytes(v[1], 4) ELSE Bytes(readi32(stack), n)
    <2>2. v = readi64(stack)
      OBVIOUS
    <2>3. below = IF c.op = I64Store THEN After64(stack) ELSE After32(stack)
      OBVIOUS
    <2>4. ea = Address(readi32(below))
      OBVIOUS
    <2>5. bytes = IF c.op = I64Store THEN Bytes(v[2], 4) \o Bytes(v[1], 4) ELSE Bytes(readi32(stack), n)
      OBVIOUS
    <2> HIDE DEF v, below, ea, bytes
    <2>6. below \in Seq(Nat) /\ After32(below) \in Seq(Nat) /\ readi32(below) \in Nat /\ readi32(stack) \in Nat
      <3>1. below \in Seq(Nat)
        BY ONLY <1>4, <2>3, StackFacts
      <3> QED
        BY ONLY <1>4, <3>1, StackFacts
    <2>7. ea \in Int
      <3>1. readi32(below) + c.n \in Int
        BY ONLY <1>3, <2>6
      <3> QED
        BY ONLY <1>1, <2>4, <3>1, WordFacts DEF Address
    <2>8. \A k \in 1..n : bytes[k] \in Nat
      <3>1. CASE c.op = I64Store
        <4>1. v[1] \in Nat /\ v[2] \in Nat
          BY ONLY <1>4, <2>2, StackFacts
        <4>2. PICK x, y : x = Bytes(v[2], 4) /\ y = Bytes(v[1], 4)
          OBVIOUS
        <4>3. x \in Seq(Nat) /\ y \in Seq(Nat) /\ Len(x) = 4 /\ Len(y) = 4
          BY ONLY <4>1, <4>2, BytesNat, 4 \in Nat
        <4>4. \A k \in 1..8 : (x \o y)[k] \in Nat
          <5>1. 4 \in Nat /\ 1..(4 + 4) = 1..8
            OBVIOUS
          <5> QED
            BY ONLY <4>3, <5>1, TwiceAsMany
        <4>6. bytes = x \o y
          BY ONLY <2>5, <3>1, <4>2
        <4>5. n = 8
          BY ONLY <1>5, <3>1, SizeFacts
        <4> QED
          BY ONLY <4>4, <4>5, <4>6
      <3>2. CASE ~(c.op = I64Store)
        BY ONLY <2>5, <2>6, <3>2, BytesNat, <1>5
      <3> QED
        BY ONLY <3>1, <3>2
    <2>9. PICK through :
             /\ Push(After32(below))
             /\ mem' = [k \in DOMAIN mem |-> IF through /\ k - ea \in 1..n THEN bytes[k - ea] ELSE mem[k]]
             /\ UNCHANGED <<globals, locals>>
      <3>2. ~Stray
        BY ONLY at' # "stray" DEF Stray, Stop
      <3>3. \E through \in Through(ea, n) :
              IF through /\ ~InMem(ea, n) THEN Stray
              ELSE /\ Push(After32(below))
                   /\ mem' = [k \in DOMAIN mem |-> IF through /\ k - ea \in 1..n THEN bytes[k - ea] ELSE mem[k]]
                   /\ UNCHANGED <<globals, locals>>
        BY ONLY <1>7 DEF Store, c, n, v, below, ea, bytes
      <3> QED
        BY ONLY <3>2, <3>3
    <2>10. mem' \in Seq(Nat)
      <3>1. Len(mem) \in Nat /\ DOMAIN mem = 1..Len(mem) /\ \A k \in 1..Len(mem) : mem[k] \in Nat
        BY ONLY <1>4
      <3>2. mem' \in [1..Len(mem) -> Nat]
        BY ONLY <2>8, <2>9, <3>1
      <3>3. \A j \in Nat : \A f \in [1..j -> Nat] : f \in Seq(Nat)
        OBVIOUS
      <3> QED
        BY ONLY <3>1, <3>2, <3>3
    <2>11. stack' \in Seq(Nat)
      BY ONLY <2>6, <2>9 DEF Push
    <2> QED
      BY ONLY <2>9, <2>10, <2>11, Numbers DEF Numbers, NumbersThen
  <1> QED
    BY ONLY <1>6, <1>7, Load \/ Store

(* An instruction makes numbers of numbers.                                *)
LEMMA NumbersStep ==
    ASSUME Numbers, Within(written, Function, Now), invoke_i, Forth
    PROVE  NumbersThen
  <1>1. PICK c : c = Now
    OBVIOUS
  <1>2. c.n \in Int
    BY <1>1 DEF Within, Format!Instruction
  <1>3. PICK s : s = stack
    OBVIOUS
  <1>4. s \in Seq(Nat) /\ at' = at
    BY <1>3 DEF Numbers, Forth
  <1>5. /\ readi32(s) \in Nat /\ After32(s) \in Seq(Nat) /\ readi64(s) \in Nat \X Nat /\ After64(s) \in Seq(Nat)
        /\ \A v \in Nat : writei32(s, v) \in Seq(Nat)
        /\ \A v \in Nat \X Nat : writei64(s, v) \in Seq(Nat)
    BY ONLY <1>4, StackFacts
  <1>6. ASSUME NEW t, Push(t) PROVE stack' = t
    BY ONLY <1>6 DEF Push
  <1>7. ASSUME NEW t \in Seq(Nat), Push(t), UNCHANGED <<globals, mem, locals>> PROVE NumbersThen
    BY ONLY <1>6, <1>7, Numbers, StackOnly
  <1>8. \A w \in Nat : Extend(w) \in Nat \X Nat
    BY WordFacts DEF Extend
  <1>9. CASE Const
    <2>1. Constant(s, <<c>>) \in Seq(Nat)
      <3>1. <<c>>[1].n \in Int
        BY ONLY <1>2
      <3> QED
        BY ONLY <1>4, <3>1, ConstantFacts
    <2> QED
      BY ONLY <1>1, <1>3, <1>7, <1>9, <2>1 DEF Const
  <1>10. CASE DropTop
    BY ONLY <1>3, <1>5, <1>7, <1>10 DEF DropTop
  <1>11. CASE GetLocal
    <2>1. PICK v : v = locals[c.n + 1]
      OBVIOUS
    <2>2. c.op = LocalGet
      BY ONLY <1>1, <1>11 DEF GetLocal, At
    <2>3. v \in Nat \X Nat
      BY ONLY <1>1, <2>1, <2>2, Numbers, Within(written, Function, Now) DEF Numbers, Within
    <2>4. v[2] \in Nat
      BY ONLY <2>3
    <2>5. PICK t : t = CASE Function.locals[c.n + 1] = I32 -> writei32(s, v[2])
                         [] Function.locals[c.n + 1] = I64 -> writei64(s, v)
                         [] OTHER -> s
      OBVIOUS
    <2>6. t \in Seq(Nat)
      BY ONLY <1>4, <1>5, <2>3, <2>4, <2>5
    <2> QED
      BY ONLY <1>1, <1>3, <1>7, <1>11, <2>1, <2>5, <2>6 DEF GetLocal
  <1>12. CASE SetLocal
    <2>1. UNCHANGED <<globals, mem>>
      BY ONLY <1>12 DEF SetLocal
    <2>2. \E v \in Nat \X Nat, t \in Seq(Nat) : locals' = [locals EXCEPT ![c.n + 1] = v] /\ stack' = t
      <3>1. CASE Function.locals[c.n + 1] = I32
        <4>1. locals' = [locals EXCEPT ![c.n + 1] = Extend(readi32(s))] /\ Push(After32(s))
          BY ONLY <1>1, <1>3, <1>12, <3>1 DEF SetLocal, I32, I64
        <4>2. Extend(readi32(s)) \in Nat \X Nat
          BY ONLY <1>5, <1>8
        <4> QED
          BY ONLY <1>5, <1>6, <4>1, <4>2
      <3>2. CASE Function.locals[c.n + 1] = I64
        <4>1. locals' = [locals EXCEPT ![c.n + 1] = readi64(s)] /\ Push(After64(s))
          BY ONLY <1>1, <1>3, <1>12, <3>2 DEF SetLocal, I32, I64
        <4> QED
          BY ONLY <1>5, <1>6, <4>1
      <3>3. CASE Function.locals[c.n + 1] \notin {I32, I64}
        <4>1. locals' = [locals EXCEPT ![c.n + 1] = <<0, 0>>] /\ Push(s)
          BY ONLY <1>1, <1>3, <1>12, <3>3 DEF SetLocal
        <4>2. <<0, 0>> \in Nat \X Nat
          OBVIOUS
        <4> QED
          BY ONLY <1>4, <1>6, <4>1, <4>2
      <3> QED
        BY ONLY <3>1, <3>2, <3>3
    <2>3. DOMAIN locals' = DOMAIN locals /\ \A k \in DOMAIN locals : locals'[k] \in Nat \X Nat
      BY ONLY <2>2, Numbers DEF Numbers
    <2> QED
      BY ONLY <2>1, <2>2, <2>3, Numbers DEF Numbers, NumbersThen
  <1> DEFINE G == [ty : Nat, val : Nat]
  <1>13. PICK n : n = Len(Items(written.globalsec))
    OBVIOUS
  <1>14. globals \in Seq(G) /\ Len(globals) = n
    BY ONLY <1>13, Numbers DEF Numbers, Globals
  <1>15. CASE GetGlobal
    <2>1. PICK g : g = globals[c.n + 1]
      OBVIOUS
    <2>2. c.op = GlobalGet
      BY ONLY <1>1, <1>15 DEF GetGlobal, At
    <2>3. g.val \in Nat
      <3>1. c.n + 1 \in 1..Len(globals)
        BY ONLY <1>1, <1>13, <1>14, <2>2, Within(written, Function, Now) DEF Within
      <3> QED
        <4>1. g \in G
          BY ONLY <1>14, <2>1, <3>1, Elements
        <4> QED
          BY ONLY <4>1
    <2>4. PICK t : t = CASE g.ty = I32 -> writei32(s, g.val)
                         [] g.ty = I64 -> writei64(s, Extend(g.val))
                         [] OTHER -> s
      OBVIOUS
    <2>5. t \in Seq(Nat)
      BY ONLY <1>4, <1>5, <1>8, <2>3, <2>4
    <2> QED
      BY ONLY <1>1, <1>3, <1>7, <1>15, <2>1, <2>4, <2>5 DEF GetGlobal
  <1>16. CASE SetGlobal
    <2>1. UNCHANGED <<mem, locals>>
      BY ONLY <1>16 DEF SetGlobal
    <2>2. \E v \in Nat, t \in Seq(Nat) : globals' = [globals EXCEPT ![c.n + 1].val = v] /\ stack' = t
      <3>1. CASE globals[c.n + 1].ty = I32
        <4>1. globals' = [globals EXCEPT ![c.n + 1].val = readi32(s)] /\ Push(After32(s))
          BY ONLY <1>1, <1>3, <1>16, <3>1 DEF SetGlobal, I32, I64
        <4> QED
          BY ONLY <1>5, <1>6, <4>1
      <3>3. CASE globals[c.n + 1].ty \notin {I32, I64}
        <4>1. globals' = [globals EXCEPT ![c.n + 1].val = 0] /\ Push(s)
          BY ONLY <1>1, <1>3, <1>16, <3>3 DEF SetGlobal
        <4>2. 0 \in Nat
          OBVIOUS
        <4> QED
          BY ONLY <1>4, <1>6, <4>1, <4>2
      <3>2. CASE globals[c.n + 1].ty = I64
        <4>1. globals' = [globals EXCEPT ![c.n + 1].val = readi64(s)[2]] /\ Push(After64(s))
          BY ONLY <1>1, <1>3, <1>16, <3>2 DEF SetGlobal, I32, I64
        <4>2. readi64(s)[2] \in Nat
          BY ONLY <1>5
        <4> QED
          BY ONLY <1>5, <1>6, <4>1, <4>2
      <3> QED
        BY ONLY <3>1, <3>2, <3>3
    <2>3. PICK v \in Nat : globals' = [globals EXCEPT ![c.n + 1].val = v]
      BY ONLY <2>2
    <2>4. \A k \in DOMAIN globals : globals[k] \in G
      BY ONLY <1>14, Elements
    <2>5. \A g \in G : [g EXCEPT !.val = v] \in G
      OBVIOUS
    <2>6. \A k \in DOMAIN globals : globals'[k] \in G
      <3>1. ASSUME NEW k \in DOMAIN globals PROVE globals'[k] \in G
        <4>1. CASE k = c.n + 1
          <5>1. globals'[k] = [globals[k] EXCEPT !.val = v]
            BY ONLY <2>3, <4>1, k \in DOMAIN globals
          <5> QED
            BY ONLY <2>4, <2>5, <5>1, k \in DOMAIN globals
        <4>2. CASE k # c.n + 1
          <5>1. globals'[k] = globals[k]
            BY ONLY <2>3, <4>2, k \in DOMAIN globals
          <5> QED
            BY ONLY <2>4, <5>1, k \in DOMAIN globals
        <4> QED
          BY ONLY <4>1, <4>2
      <3> QED
        BY ONLY <3>1
    <2>7. DOMAIN globals' = 1..Len(globals) /\ globals' = [k \in DOMAIN globals |-> globals'[k]] /\ Len(globals) \in Nat
      <3>1. \A X : \A f \in Seq(X) : DOMAIN f = 1..Len(f) /\ Len(f) \in Nat
        OBVIOUS
      <3>2. DOMAIN globals = 1..Len(globals) /\ Len(globals) \in Nat
        BY ONLY <1>14, <3>1
      <3>3. DOMAIN globals' = DOMAIN globals /\ globals' = [k \in DOMAIN globals |-> globals'[k]]
        BY ONLY <2>3
      <3> QED
        BY ONLY <3>2, <3>3
    <2>8. globals' \in [1..Len(globals) -> G]
      BY ONLY <1>14, <2>6, <2>7
    <2>9. \A X : \A j \in Nat : \A f \in [1..j -> X] : f \in Seq(X) /\ Len(f) = j
      OBVIOUS
    <2>10. globals' \in Globals(n)
      BY ONLY <1>14, <2>7, <2>8, <2>9 DEF Globals
    <2> QED
      BY ONLY <1>13, <2>1, <2>2, <2>10, Numbers DEF Numbers, NumbersThen
  <1>17. CASE Load \/ Store
    <2>1. at' # "stray"
      BY ONLY <1>4, <1>17 DEF Load, Store, At
    <2> QED
      BY ONLY <1>17, <2>1, Numbers, Within(written, Function, Now), AccessNumbers
  <1>18. CASE Eqz
    <2>1. Truth(readi32(s) = 0) \in Nat
      BY DEF Truth
    <2>2. writei32(After32(s), Truth(readi32(s) = 0)) \in Seq(Nat)
      BY ONLY <1>5, <2>1, StackFacts
    <2> QED
      BY ONLY <1>3, <1>7, <1>18, <2>2 DEF Eqz
  <1>19. ASSUME NEW x \in Int, Result(x) PROVE NumbersThen
    <2>1. Word(x) \in Nat
      BY ONLY <1>19, WordFacts
    <2>2. After32(After32(s)) \in Seq(Nat)
      BY ONLY <1>5, StackFacts
    <2>3. writei32(After32(After32(s)), Word(x)) \in Seq(Nat)
      BY ONLY <2>1, <2>2, StackFacts
    <2> QED
      BY ONLY <1>3, <1>7, <1>19, <2>3 DEF Result
  <1>20. Lhs \in Int /\ Rhs \in Int
    <2>1. readi32(s) \in Int /\ readi32(After32(s)) \in Int
      BY ONLY <1>5, StackFacts
    <2> QED
      BY ONLY <1>3, <2>1, WordFacts DEF Lhs, Rhs
  <1>21. CASE Binop
    <2>1. c.op \in Binaries /\ (c.op \in Divisions => Rhs # 0) /\ Result(Computed(c.op, Lhs, Rhs))
      BY ONLY <1>1, <1>21 DEF Binop, At, Undivided
    <2>2. Computed(c.op, Lhs, Rhs) \in Int
      BY ONLY <1>20, <2>1, ComputedInt
    <2> QED
      BY ONLY <1>19, <2>1, <2>2
  <1>22. CASE DivideAnyway
    <2>1. (IF Rhs = 0 THEN IF c.op = I32Div_s THEN -1 ELSE Lhs ELSE IF c.op = I32Div_s THEN Lhs ELSE 0) \in Int
      BY ONLY <1>20
    <2> QED
      BY ONLY <1>1, <1>19, <1>22, <2>1 DEF DivideAnyway
  <1>23. CASE EndOrReturn \/ TaskExit \/ DivideFault
    BY ONLY <1>4, <1>23 DEF EndOrReturn, TaskExit, DivideFault, Stop, At
  <1>24. CASE DoNothing
    BY ONLY <1>3, <1>4, <1>7, <1>24 DEF DoNothing
  <1> QED
    BY ONLY <1>9, <1>10, <1>11, <1>12, <1>15, <1>16, <1>17, <1>18, <1>21, <1>22, <1>23, <1>24, invoke_i DEF invoke_i

\* What the program works on.
ValInv ==
    /\ at = "new_module" => stack = <<>>
    /\ at = "create_mem" => stack \in Room
    /\ at \in {"create_mem", "create_funcs"} => globals \in Globals(Len(Items(written.globalsec)))
    /\ at = "create_funcs" => stack \in Seq(Nat) /\ mem \in Seq(Nat)
    /\ at = "run_vm" => Numbers
    /\ StraysOnlyAbove

(* Globals are made of what the module says.                               *)
LEMMA GlobalsStep ==
    ASSUME NEW p \in Modules, p = written, Filled(m, p, 14), InitGlobals, stack = <<>>
    PROVE  /\ stack' \in Room /\ globals' \in Globals(Len(Items(p.globalsec)))
           /\ Items(p.globalsec) \in Seq(GlobalInits)
           /\ \E u : /\ Evaluating(Items(p.globalsec), <<>>, u) /\ stack' = u[Len(Items(p.globalsec))]
                    /\ globals' = [k \in 1..Len(Items(p.globalsec)) |->
                                     [ty  |-> Items(p.globalsec)[k].ty,
                                      val |-> readi32(Constant(u[k - 1], Items(p.globalsec)[k].expr))]]
  <1>1. p \in Format!Writable
    BY ModulesAssumption
  <1>2. PICK gs : gs = Items(m.globalsec)
    OBVIOUS
  <1>3. gs \in Seq(GlobalInits) /\ gs = Items(p.globalsec)
    <2>1. m.globalsec = p.globalsec /\ Optional(p.globalsec, GlobalInits)
      BY ONLY <1>1, Filled(m, p, 14), FilledFacts, ModuleTypes
    <2>2. <<>> \in Seq(GlobalInits)
      OBVIOUS
    <2> QED
      BY ONLY <1>2, <2>1, <2>2 DEF Optional, Items
  <1>4. <<>> \in Room
    BY StackAssumption DEF Room
  <1>5. PICK z0 : z0 = stack
    OBVIOUS
  <1> DEFINE u == CHOOSE f : f = [k \in 0..Len(gs) |-> IF k = 0 THEN z0 ELSE After32(Constant(f[k - 1], gs[k].expr))]
  <1>6. /\ stack' = u[Len(gs)]
        /\ globals' = [k \in 1..Len(gs) |-> [ty |-> gs[k].ty, val |-> readi32(Constant(u[k - 1], gs[k].expr))]]
    BY ONLY <1>2, <1>5, InitGlobals DEF InitGlobals
  <1>7. z0 \in Room
    BY ONLY <1>4, <1>5, stack = <<>>
  <1>8. /\ Evaluating(gs, z0, u) /\ u[Len(gs)] \in Room
        /\ [k \in 1..Len(gs) |-> [ty |-> gs[k].ty, val |-> readi32(Constant(u[k - 1], gs[k].expr))]] \in Globals(Len(gs))
    BY ONLY <1>3, <1>7, GlobalsMade
  <1> HIDE DEF u
  <1>9. z0 = <<>>
    BY ONLY <1>5, stack = <<>>
  <1> QED
    BY ONLY <1>3, <1>6, <1>8, <1>9

(* Linear memory is made of what the module says.                          *)
LEMMA MemoryStep ==
    ASSUME NEW p \in Modules, p = written, Filled(m, p, 14), InitMem
    PROVE  /\ mem' \in Seq(Nat) /\ Segments \in Seq(SegmentsRead)
           /\ \E u : /\ mem' = u[Len(Segments)]
                    /\ Filling(Segments, IF m.memsec = NULL THEN <<>> ELSE [k \in 1..(PageBytes * m.memsec[1].min) |-> 0], u)
  <1>1. p \in Format!Writable
    BY ModulesAssumption
  <1>2. PICK ds : ds = Segments
    OBVIOUS
  <1>3. ds \in Seq(SegmentsRead)
    BY ONLY <1>2, p \in Modules, Filled(m, p, 14), SegmentsAre
  <1>4. PICK z0 : z0 = IF m.memsec = NULL THEN <<>> ELSE [k \in 1..(PageBytes * m.memsec[1].min) |-> 0]
    OBVIOUS
  <1>5. z0 \in Seq(Nat)
    <2>1. m.memsec = p.memsec /\ Optional(p.memsec, MemoryTypes)
      BY ONLY <1>1, Filled(m, p, 14), FilledFacts, ModuleTypes
    <2>2. CASE m.memsec = NULL
      <3>1. <<>> \in Seq(Nat)
        OBVIOUS
      <3> QED
        BY ONLY <1>4, <2>2, <3>1
    <2>3. CASE m.memsec # NULL
      <3>1. m.memsec \in Seq(MemoryTypes) /\ m.memsec # <<>>
        BY ONLY <2>1, <2>3, InitMem DEF InitMem, Optional
      <3>2. 1 \in 1..Len(m.memsec)
        BY ONLY <3>1
      <3>3. m.memsec[1] \in MemoryTypes
        BY ONLY <3>1, <3>2, Elements
      <3>4. PICK a \in Nat, b \in Nat : a = PageBytes /\ b = m.memsec[1].min
        <4>1. m.memsec[1].min \in Nat
          BY ONLY <3>3 DEF MemoryTypes
        <4> QED
          BY ONLY <4>1, PageAssumption
      <3>5. PICK n \in Nat : n = a * b
        OBVIOUS
      <3>6. [k \in 1..n |-> 0] \in Seq(Nat)
        BY ONLY n \in Nat
      <3>7. z0 = [k \in 1..n |-> 0]
        BY ONLY <1>4, <2>3, <3>4, <3>5
      <3> QED
        BY ONLY <3>6, <3>7
    <2> QED
      BY ONLY <2>2, <2>3
  <1>6. PICK n \in Nat : n = Len(ds)
    BY ONLY <1>3
  <1> DEFINE next(k, z) == [i \in DOMAIN z |->
                              IF ds[k].kind = 0 /\ i - Offset(ds[k]) \in DOMAIN ds[k].data
                              THEN ds[k].data[i - Offset(ds[k])] ELSE z[i]]
             u == CHOOSE f : f = [k \in 0..n |-> IF k = 0 THEN z0 ELSE next(k, f[k - 1])]
  <1>7. mem' = u[n]
    BY ONLY <1>2, <1>4, <1>6, InitMem DEF InitMem
  <1>8. u[n] \in Seq(Nat) /\ Filling(ds, z0, u)
    BY ONLY <1>3, <1>5, <1>6, n \in Nat, MemoryMade
  <1> HIDE DEF u, next
  <1> QED
    BY ONLY <1>2, <1>3, <1>4, <1>6, <1>7, <1>8

(* Every step keeps what the program works on.                             *)
LEMMA ValStep == LoadInv /\ RunInv /\ ValInv /\ [Next]_vars => ValInv'
  <1> SUFFICES ASSUME LoadInv, RunInv, ValInv, [Next]_vars, written' = written
               PROVE  ValInv'
    <2>1. LoadInv /\ [Next]_vars => written' = written
      BY ONLY WhereTo DEF Next, ReadSection, Misread, ParseUnsupported, CreateNothing, InitGlobals, InitMem,
         InitMemStray, CreateMemFault, CreateFuncs, CreateFuncsFault, Stray, Stop, vars, loadVars
    <2> QED
      BY <2>1
  <1>1. PICK p : p = written
    OBVIOUS
  <1>2. p \in Modules
    BY <1>1 DEF LoadInv
  <1>3. at \notin {"new_module", "misread", "unsupported"} => Filled(m, p, 14)
    BY <1>1 DEF LoadInv
  <1>4. /\ at = "new_module" => stack = <<>>
        /\ at = "create_mem" => stack \in Room
        /\ at \in {"create_mem", "create_funcs"} => globals \in Globals(Len(Items(p.globalsec)))
        /\ at = "create_funcs" => stack \in Seq(Nat) /\ mem \in Seq(Nat)
        /\ at = "run_vm" => Numbers
        /\ StraysOnlyAbove
    BY <1>1 DEF ValInv
  <1>5. CASE UNCHANGED vars
    <2>1. /\ at' = at /\ m' = m /\ funcs' = funcs /\ stack' = stack /\ ip' = ip
          /\ globals' = globals /\ mem' = mem /\ locals' = locals
      BY ONLY <1>5 DEF vars, loadVars, dataVars
    <2>2. Function' = Function
      BY ONLY <2>1, SameFunction
    <2>3. Now' = Now
      BY ONLY <2>1, <2>2 DEF Now
    <2>4. Numbers' = Numbers
      BY ONLY <2>1, <2>2, written' = written DEF Numbers
    <2>5. StraysOnlyAbove'
      BY ONLY <1>4, <2>1, <2>3, written' = written DEF StraysOnlyAbove
    <2> QED
      BY ONLY <1>1, <1>4, <2>1, <2>4, <2>5, written' = written DEF ValInv
  <1>6. CASE ReadSection \/ Misread \/ ParseUnsupported \/ CreateNothing
    <2>1. stack' = stack /\ at' \in {"new_module", "misread", "unsupported", "fault"} /\ at = "new_module"
      BY ONLY <1>6 DEF ReadSection, Misread, ParseUnsupported, CreateNothing, Stop, dataVars
    <2>2. StraysOnlyAbove'
      BY ONLY <2>1 DEF StraysOnlyAbove
    <2> QED
      BY ONLY <1>4, <2>1, <2>2 DEF ValInv
  <1>7. CASE InitGlobals
    <2>1. at = "new_module" /\ at' = "create_mem" /\ m' = m
      BY ONLY <1>7 DEF InitGlobals, loadVars
    <2>2. Filled(m, p, 14)
      BY <1>1, <1>7, <2>1, LoadStep DEF LoadInv, Next
    <2>3. stack' \in Room /\ globals' \in Globals(Len(Items(p.globalsec)))
      BY ONLY <1>1, <1>2, <1>4, <1>7, <2>1, <2>2, GlobalsStep
    <2>4. StraysOnlyAbove'
      BY ONLY <2>1 DEF StraysOnlyAbove
    <2> QED
      BY ONLY <1>1, <2>1, <2>3, <2>4, written' = written DEF ValInv
  <1>8. CASE InitMem
    <2>1. at = "create_mem" /\ at' = "create_funcs" /\ stack' = stack /\ globals' = globals
      BY ONLY <1>8 DEF InitMem
    <2>2. Filled(m, p, 14)
      BY ONLY <1>3, <2>1
    <2>3. mem' \in Seq(Nat)
      BY ONLY <1>1, <1>2, <1>8, <2>2, MemoryStep
    <2>4. StraysOnlyAbove'
      BY ONLY <2>1 DEF StraysOnlyAbove
    <2>5. stack \in Seq(Nat)
      BY ONLY <1>4, <2>1 DEF Room
    <2> QED
      BY ONLY <1>1, <1>4, <2>1, <2>3, <2>4, <2>5, written' = written DEF ValInv
  <1>9. CASE InitMemStray
    <2>1. at = "create_mem" /\ at' = "stray"
      BY ONLY <1>9 DEF InitMemStray, Stray, Stop
    <2>2. PICK a \in Targets : a < 0 \/ a = Greatest
      BY ONLY <1>9 DEF InitMemStray
    <2>3. \E d \in ToSet(Items(p.datasec)) :
            d.kind = 0 /\ (M!Begin(d) < 0 \/ M!Begin(d) + Len(d.data) >= Limit \div 2)
      BY ONLY <1>2, <1>3, <1>4, <2>1, <2>2, SegmentStray
    <2>4. StraysOnlyAbove'
      BY ONLY <1>1, <2>3, written' = written DEF StraysOnlyAbove
    <2> QED
      BY ONLY <2>1, <2>4 DEF ValInv
  <1>10. CASE CreateFuncs
    <2>1. /\ at = "create_funcs" /\ m' = m /\ funcs' = Functions /\ stack' = stack /\ globals' = globals
          /\ mem' = mem /\ locals' = [k \in DOMAIN Functions[Export.idx + 1].locals |-> <<0, 0>>]
          /\ at' \in {"fault", "run_vm"}
      BY ONLY <1>10 DEF CreateFuncs, loadVars
    <2>2. Function' = Functions[Export.idx + 1]
      <3>1. Starts' = Starts
        BY ONLY <2>1 DEF Starts
      <3>2. Export' = Export
        BY ONLY <2>1, <3>1 DEF Export
      <3> QED
        BY ONLY <2>1, <3>2 DEF Function
    <2>3. DOMAIN locals' = DOMAIN Function'.locals /\ \A k \in DOMAIN locals' : locals'[k] \in Nat \X Nat
      BY ONLY <2>1, <2>2
    <2>4. Numbers'
      BY ONLY <1>1, <1>4, <2>1, <2>3, written' = written DEF Numbers
    <2>5. StraysOnlyAbove'
      BY ONLY <2>1 DEF StraysOnlyAbove
    <2> QED
      BY ONLY <2>1, <2>4, <2>5 DEF ValInv
  <1>12. CASE CreateMemFault \/ CreateFuncsFault
    <2>1. at' = "fault"
      BY ONLY <1>12 DEF CreateMemFault, CreateFuncsFault, Stop
    <2> QED
      BY ONLY <2>1 DEF ValInv, StraysOnlyAbove
  <1>11. CASE invoke_i
    <2>1. /\ at = "run_vm" /\ m' = m /\ funcs' = funcs
          /\ Forth \/ at' \in {"returned", "task_exit", "stray", "fault"}
      BY ONLY <1>11, WhereTo
    <2>2. Function' = Function
      BY ONLY <2>1, SameFunction
    <2>3. Within(written, Function, Now)
      <3>1. PICK k : Runs(p, k, Function) /\ ip \in 1..Len(Function.codes)
        BY ONLY <1>1, <2>1, RunInv DEF RunInv
      <3> QED
        BY ONLY <1>1, <1>2, <3>1, ValidBody DEF Now
    <2>4. Numbers
      BY ONLY <1>4, <2>1
    <2>5. CASE Forth
      <3>1. NumbersThen
        BY ONLY <1>11, <2>3, <2>4, <2>5, NumbersStep
      <3>2. Numbers'
        BY ONLY <2>2, <3>1, written' = written DEF Numbers, NumbersThen
      <3>3. at' = "run_vm"
        BY ONLY <2>1, <2>5 DEF Forth
      <3> QED
        BY ONLY <3>2, <3>3 DEF ValInv, StraysOnlyAbove
    <2>6. CASE at' \in {"returned", "task_exit", "fault"}
      BY ONLY <2>6 DEF ValInv, StraysOnlyAbove
    <2>7. CASE at' = "stray"
      <3>1. AccessAbove /\ UNCHANGED <<stack, ip>>
        BY ONLY <1>11, <2>3, <2>4, <2>7, StartStray
      <3>2. Now' = Now
        BY ONLY <2>2, <3>1 DEF Now
      <3>3. AccessAbove'
        BY ONLY <3>1, <3>2 DEF AccessAbove
      <3> QED
        BY ONLY <2>7, <3>3 DEF ValInv, StraysOnlyAbove, AccessAbove
    <2> QED
      BY ONLY <2>1, <2>5, <2>6, <2>7
  <1> QED
    BY <1>5, <1>6, <1>7, <1>8, <1>9, <1>10, <1>11, <1>12 DEF Next

(* The int comparisons of buffer.c:150-200 keep every access of a program  *)
(* in its linear memory whose address is in the lower half of the address  *)
(* space; all it works on is numbers.                                      *)
THEOREM StraysCorrect == RefinementSpec => []ValInv /\ []StraysOnlyAbove
  <1>1. RefinementInit => ValInv
    BY DEF RefinementInit, Init, ValInv, StraysOnlyAbove
  <1>2. LoadInv /\ RunInv /\ ValInv /\ [RefinementNext]_<<vars, trapped>> => ValInv'
    BY ValStep DEF RefinementNext
  <1>3. ValInv => StraysOnlyAbove
    BY DEF ValInv, StraysOnlyAbove
  <1> QED
    BY <1>1, <1>2, <1>3, LoadInvariant, FaultsCorrect, PTL DEF RefinementSpec
=============================================================================
