---------------------------- MODULE SwitchProofs ----------------------------
(***************************************************************************)
(* Proofs about Switch: pointers that make a ring stand for the sequence   *)
(* of its elements, each operation of list.c does to that sequence what    *)
(* its name says, and what the kernel does to its run queue, its sender    *)
(* queues and its page lists keeps them rings that share no node.  On      *)
(* that and on what the stacks hold stands the refinement: each step of    *)
(* Switch is one of Coroutines.                                            *)
(***************************************************************************)
EXTENDS SwitchRefinement, SeqLemmas, FiniteSetTheorems, WellFoundedInduction

----------------------------------------------------------------------------
(* Recursion over naturals                                                 *)

(* A set of naturals has a smallest element.                               *)
LEMMA Smallest ==
    ASSUME NEW S \in SUBSET Nat, S # {}
    PROVE  \E i \in S : \A j \in S : i <= j
  <1> DEFINE R == OpToRel(<, Nat)
  <1>1. IsWellFoundedOn(R, Nat)
    BY NatLessThanWellFounded
  <1>2. \A x, y \in Nat : y < x => <<y, x>> \in R
    BY Zenon DEF OpToRel
  <1> HIDE DEF R
  <1>3. PICK x \in S : \A y \in S : ~(<<y, x>> \in R)
    BY <1>1, WFMin
  <1>4. \A y \in S : ~(y < x)
    BY <1>2, <1>3
  <1> QED
    BY <1>4

\* g holds what n steps from a make.
Steps(S, step, a, n, g) ==
    /\ g \in [0..n -> S]
    /\ g[0] = a
    /\ \A k \in 0..n : k < n => g[k + 1] = step[g[k]]

(* Two runs of the same steps agree as far as both go.                     *)
LEMMA StepsAgree ==
    ASSUME NEW S, NEW step, NEW a, NEW m \in Nat, NEW n \in Nat, NEW g, NEW h,
           Steps(S, step, a, m, g), Steps(S, step, a, n, h)
    PROVE  \A k \in Nat : k <= m /\ k <= n => g[k] = h[k]
  <1> DEFINE P == {k \in Nat : k <= m /\ k <= n => g[k] = h[k]}
  <1>1. 0 \in P
    BY DEF Steps
  <1>2. ASSUME NEW k \in P PROVE k + 1 \in P
    <2>1. CASE k + 1 <= m /\ k + 1 <= n
      <3>1. k \in 0..m /\ k < m /\ k \in 0..n /\ k < n
        BY <2>1
      <3>2. g[k + 1] = step[g[k]] /\ h[k + 1] = step[h[k]] /\ g[k] = h[k]
        BY <3>1 DEF Steps
      <3> QED
        BY <3>2
    <2> QED
      BY <2>1
  <1>3. P \in SUBSET Nat
    OBVIOUS
  <1> HIDE DEF P
  <1>4. P = Nat
    BY <1>1, <1>2, <1>3, SetInduction
  <1> QED
    BY <1>4 DEF P

(* Steps can be made as often as one likes.                                *)
LEMMA StepsExist ==
    ASSUME NEW S, NEW step \in [S -> S], NEW a \in S
    PROVE  \A n \in Nat : \E g : Steps(S, step, a, n, g)
  <1> DEFINE P == {n \in Nat : \E g : Steps(S, step, a, n, g)}
  <1>1. 0 \in P
    <2>1. Steps(S, step, a, 0, [k \in 0..0 |-> a])
      BY DEF Steps
    <2> QED
      BY <2>1
  <1>2. ASSUME NEW n \in P PROVE n + 1 \in P
    <2>1. PICK g : Steps(S, step, a, n, g)
      OBVIOUS
    <2> DEFINE h == [k \in 0..(n + 1) |-> IF k <= n THEN g[k] ELSE step[g[n]]]
    <2>2. \A k \in 0..n : g[k] \in S
      BY <2>1 DEF Steps
    <2>3. \A k \in 0..(n + 1) : k <= n => k \in 0..n
      OBVIOUS
    <2>4. n \in 0..n /\ 0 \in 0..n /\ 0 \in 0..(n + 1) /\ 0 <= n
      OBVIOUS
    <2>5. h \in [0..(n + 1) -> S]
      BY <2>2, <2>3, <2>4
    <2>6. h[0] = a
      BY <2>1, <2>4 DEF Steps
    <2>7. ASSUME NEW k \in 0..(n + 1), k < n + 1 PROVE h[k + 1] = step[h[k]]
      <3>1. k \in 0..n /\ k + 1 \in 0..(n + 1) /\ h[k] = g[k]
        BY <2>7
      <3>2. CASE k = n
        BY <3>1, <3>2
      <3>3. CASE k < n
        <4>1. h[k + 1] = g[k + 1]
          BY <3>1, <3>3
        <4> QED
          BY <4>1, <3>1, <3>3, <2>1 DEF Steps
      <3> QED
        BY <3>1, <3>2, <3>3
    <2>8. Steps(S, step, a, n + 1, h)
      BY <2>5, <2>6, <2>7 DEF Steps
    <2> QED
      BY <2>8
  <1>3. P \in SUBSET Nat
    OBVIOUS
  <1> HIDE DEF P
  <1>4. P = Nat
    BY <1>1, <1>2, <1>3, SetInduction
  <1> QED
    BY <1>4 DEF P

\* g[n] is what n steps from a make.
Iterates(S, step, a, g) ==
    /\ g \in [Nat -> S]
    /\ g[0] = a
    /\ \A k \in Nat : g[k + 1] = step[g[k]]

(* Hence there is a function of what the n-th step makes.                  *)
LEMMA Iteration ==
    ASSUME NEW S, NEW step \in [S -> S], NEW a \in S
    PROVE  \E g : Iterates(S, step, a, g)
  <1> DEFINE run(n) == CHOOSE g : Steps(S, step, a, n, g)
             g == [n \in Nat |-> run(n)[n]]
  <1>1. ASSUME NEW n \in Nat PROVE Steps(S, step, a, n, run(n))
    BY StepsExist
  <1> HIDE DEF run
  <1>2. ASSUME NEW n \in Nat PROVE g[n] \in S
    <2>1. n \in 0..n
      OBVIOUS
    <2> QED
      BY <1>1, <2>1 DEF Steps
  <1>3. g[0] = a
    BY <1>1 DEF Steps
  <1>4. ASSUME NEW k \in Nat PROVE g[k + 1] = step[g[k]]
    <2>1. k \in 0..(k + 1) /\ k < k + 1 /\ k + 1 \in Nat /\ k <= k /\ k <= k + 1
      OBVIOUS
    <2>2. run(k + 1)[k + 1] = step[run(k + 1)[k]]
      BY <1>1, <2>1 DEF Steps
    <2>3. run(k + 1)[k] = run(k)[k]
      BY <1>1, <2>1, StepsAgree
    <2> QED
      BY <2>1, <2>2, <2>3
  <1>5. Iterates(S, step, a, g)
    BY <1>2, <1>3, <1>4 DEF Iterates
  <1> QED
    BY <1>5

----------------------------------------------------------------------------
(* Rings of pointers                                                       *)

Heap(N) == [next : [N -> N \cup {NULL}], prev : [N -> N \cup {NULL}]]

\* The nodes of a list by place: the header in front of the first element and behind the last.
At(l, s, i) == IF i \in 1..Len(s) THEN s[i] ELSE l

\* The pointers of h make a list of header l and elements s.
Ring(h, l, s) ==
    /\ IsInjective(s) /\ l \notin ToSet(s)
    /\ \A i \in 0..Len(s) : h.next[At(l, s, i)] = At(l, s, i + 1) /\ h.prev[At(l, s, i + 1)] = At(l, s, i)

\* The places of a list with header l are different.
LEMMA PlaceFacts ==
    ASSUME NEW N, NEW l \in N, NEW s \in Seq(N), IsInjective(s), l \notin ToSet(s)
    PROVE  /\ Len(s) \in Nat
           /\ At(l, s, 0) = l /\ At(l, s, Len(s) + 1) = l
           /\ \A i \in 1..Len(s) : At(l, s, i) = s[i] /\ s[i] \in ToSet(s) /\ s[i] # l
           /\ \A i \in Nat : At(l, s, i) \in N /\ At(l, s, i) \in {l} \cup ToSet(s)
           /\ \A i, j \in 0..Len(s) : At(l, s, i) = At(l, s, j) => i = j
           /\ \A i, j \in 1..(Len(s) + 1) : At(l, s, i) = At(l, s, j) => i = j
  <1>1. /\ Len(s) \in Nat /\ DOMAIN s = 1..Len(s)
        /\ \A i \in 1..Len(s) : s[i] \in N /\ s[i] \in ToSet(s) /\ s[i] # l
    BY ElementsSeq
  <1>2. \A i, j \in 1..Len(s) : s[i] = s[j] => i = j
    BY <1>1 DEF IsInjective
  <1>3. At(l, s, 0) = l /\ At(l, s, Len(s) + 1) = l
    BY <1>1 DEF At
  <1>4. \A i \in 1..Len(s) : At(l, s, i) = s[i]
    BY DEF At
  <1>5. \A i \in Nat : At(l, s, i) \in N /\ At(l, s, i) \in {l} \cup ToSet(s)
    BY <1>1 DEF At
  <1>6. ASSUME NEW i \in 0..Len(s), NEW j \in 0..Len(s), At(l, s, i) = At(l, s, j) PROVE i = j
    <2>1. (i = 0 \/ i \in 1..Len(s)) /\ (j = 0 \/ j \in 1..Len(s))
      BY <1>1
    <2> QED
      BY <2>1, <1>1, <1>2, <1>3, <1>4, <1>6
  <1>7. ASSUME NEW i \in 1..(Len(s) + 1), NEW j \in 1..(Len(s) + 1), At(l, s, i) = At(l, s, j) PROVE i = j
    <2>1. (i = Len(s) + 1 \/ i \in 1..Len(s)) /\ (j = Len(s) + 1 \/ j \in 1..Len(s))
      BY <1>1
    <2> QED
      BY <2>1, <1>1, <1>2, <1>3, <1>4, <1>7
  <1> QED
    BY <1>1, <1>3, <1>4, <1>5, <1>6, <1>7

(* A list of which no node is written stays.                               *)
LEMMA RingSame ==
    ASSUME NEW N, NEW l \in N, NEW s \in Seq(N), NEW h, NEW g, Ring(h, l, s),
           \A x \in {l} \cup ToSet(s) : g.next[x] = h.next[x] /\ g.prev[x] = h.prev[x]
    PROVE  Ring(g, l, s)
  <1>1. /\ Len(s) \in Nat
        /\ \A i \in Nat : At(l, s, i) \in {l} \cup ToSet(s)
    BY PlaceFacts DEF Ring
  <1>2. ASSUME NEW i \in 0..Len(s)
        PROVE  g.next[At(l, s, i)] = At(l, s, i + 1) /\ g.prev[At(l, s, i + 1)] = At(l, s, i)
    <2>1. i \in Nat /\ i + 1 \in Nat
      BY <1>1
    <2>2. At(l, s, i) \in {l} \cup ToSet(s) /\ At(l, s, i + 1) \in {l} \cup ToSet(s)
      BY <1>1, <2>1
    <2> QED
      BY <2>2 DEF Ring
  <1> QED
    BY <1>2 DEF Ring

(* The nodes of a list are linked; the ends of the list.                   *)
LEMMA RingFacts ==
    ASSUME NEW N, NULL \notin N, NEW l \in N, NEW s \in Seq(N), NEW h, Ring(h, l, s)
    PROVE  /\ \A x \in {l} \cup ToSet(s) : h.next[x] # NULL /\ h.prev[x] # NULL
           /\ list_head(h, l) = IF s = <<>> THEN NULL ELSE s[1]
           /\ list_tail(h, l) = IF s = <<>> THEN NULL ELSE s[Len(s)]
           /\ h.next[l] = At(l, s, 1) /\ h.prev[l] = At(l, s, Len(s))
           /\ s = <<>> => At(l, s, 1) = l /\ At(l, s, Len(s)) = l
           /\ s # <<>> => At(l, s, 1) # l /\ At(l, s, Len(s)) # l /\ Len(s) \in 1..Len(s)
  <1>1. /\ Len(s) \in Nat /\ At(l, s, 0) = l /\ At(l, s, Len(s) + 1) = l
        /\ \A i \in 1..Len(s) : At(l, s, i) = s[i] /\ s[i] # l
        /\ \A i \in Nat : At(l, s, i) \in N
    BY PlaceFacts DEF Ring
  <1>2. \A i \in 0..Len(s) : h.next[At(l, s, i)] = At(l, s, i + 1) /\ h.prev[At(l, s, i + 1)] = At(l, s, i)
    BY DEF Ring
  <1>3. \A i \in 0..Len(s) : h.next[At(l, s, i)] # NULL /\ h.prev[At(l, s, i + 1)] # NULL
    BY <1>1, <1>2
  <1>4. 0 \in 0..Len(s) /\ Len(s) \in 0..Len(s) /\ 0 + 1 = 1
    BY <1>1
  <1>5. h.next[l] = At(l, s, 1) /\ h.prev[l] = At(l, s, Len(s))
    BY <1>1, <1>2, <1>4
  <1>6. ASSUME NEW x \in {l} \cup ToSet(s) PROVE h.next[x] # NULL /\ h.prev[x] # NULL
    <2>1. CASE x = l
      BY <2>1, <1>1, <1>3, <1>4
    <2>2. CASE x \in ToSet(s)
      <3>1. PICK i \in 1..Len(s) : s[i] = x
        BY <2>2, ElementsSeq
      <3>2. PICK j \in 0..Len(s) : j + 1 = i
        <4>1. i - 1 \in 0..Len(s) /\ (i - 1) + 1 = i
          BY <1>1
        <4> QED
          BY <4>1
      <3>3. i \in 0..Len(s)
        BY <1>1
      <3> QED
        BY <3>1, <3>2, <3>3, <1>1, <1>3
    <2> QED
      BY <2>1, <2>2
  <1>7. CASE s = <<>>
    <2>1. Len(s) = 0 /\ 1 \notin 1..Len(s) /\ Len(s) \notin 1..Len(s)
      BY <1>7
    <2> QED
      BY <2>1, <1>5, <1>6, <1>7 DEF list_head, list_tail, At
  <1>8. CASE s # <<>>
    <2>1. 1 \in 1..Len(s) /\ Len(s) \in 1..Len(s)
      BY <1>1, <1>8, ST!EmptySeq
    <2> QED
      BY <2>1, <1>1, <1>5, <1>6, <1>8 DEF list_head, list_tail
  <1> QED
    BY <1>7, <1>8

\* Only the nodes in X are written.
Apart(N, h, g, X) == \A x \in N \ X : g.next[x] = h.next[x] /\ g.prev[x] = h.prev[x]

\* The heap g is h but for the next pointers of a and b and the prev pointers of c and d,
\* the former of two that are the same.
Written(N, h, g, a, x, b, y, c, z, d, w) ==
    /\ g \in Heap(N)
    /\ \A i \in N : g.next[i] = IF i = a THEN x ELSE IF i = b THEN y ELSE h.next[i]
    /\ \A i \in N : g.prev[i] = IF i = c THEN z ELSE IF i = d THEN w ELSE h.prev[i]

(* What the assignments of list_insert and list_remove leave.              *)
LEMMA InsertHeap ==
    ASSUME NEW N, NEW h \in Heap(N), NEW p \in N, NEW n \in N, NEW e \in N
    PROVE  Written(N, h, list_insert(h, p, n, e), p, e, e, n, n, e, e, p)
  <1> DEFINE g == list_insert(h, p, n, e)
  <1>1. g \in Heap(N)
    BY DEF Heap, list_insert
  <1>2. g.next = [h.next EXCEPT ![e] = n, ![p] = e]
    BY DEF Heap, list_insert
  <1>3. g.prev = [h.prev EXCEPT ![e] = p, ![n] = e]
    BY DEF Heap, list_insert
  <1>4. h.next \in [N -> N \cup {NULL}] /\ h.prev \in [N -> N \cup {NULL}]
    BY DEF Heap
  <1> HIDE DEF g
  <1>5. Written(N, h, g, p, e, e, n, n, e, e, p)
    BY <1>1, <1>2, <1>3, <1>4 DEF Written
  <1> QED
    BY <1>5 DEF g

(* Joining two elements writes one next and one prev.                      *)
LEMMA JoinHeap ==
    ASSUME NEW N, NEW h \in Heap(N), NEW a \in N, NEW x \in N, NEW b \in N, NEW y \in N
    PROVE  Written(N, h, [h EXCEPT !.next[a] = x, !.prev[b] = y], a, x, a, x, b, y, b, y)
  <1> DEFINE g == [h EXCEPT !.next[a] = x, !.prev[b] = y]
  <1>1. g \in Heap(N)
    BY DEF Heap
  <1>2. g.next = [h.next EXCEPT ![a] = x]
    BY DEF Heap
  <1>3. g.prev = [h.prev EXCEPT ![b] = y]
    BY DEF Heap
  <1>4. h.next \in [N -> N \cup {NULL}] /\ h.prev \in [N -> N \cup {NULL}]
    BY DEF Heap
  <1> HIDE DEF g
  <1>5. Written(N, h, g, a, x, a, x, b, y, b, y)
    BY <1>1, <1>2, <1>3, <1>4 DEF Written
  <1> QED
    BY <1>5 DEF g

(* list_elem_init writes the two links of an element.                      *)
LEMMA ClearHeap ==
    ASSUME NEW N, NEW h \in Heap(N), NEW e \in N
    PROVE  Written(N, h, list_elem_init(h, e), e, NULL, e, NULL, e, NULL, e, NULL)
  <1> DEFINE g == list_elem_init(h, e)
  <1>1. g \in Heap(N)
    BY DEF Heap, list_elem_init
  <1>2. g.next = [h.next EXCEPT ![e] = NULL]
    BY DEF Heap, list_elem_init
  <1>3. g.prev = [h.prev EXCEPT ![e] = NULL]
    BY DEF Heap, list_elem_init
  <1>4. h.next \in [N -> N \cup {NULL}] /\ h.prev \in [N -> N \cup {NULL}]
    BY DEF Heap
  <1> HIDE DEF g
  <1>5. Written(N, h, g, e, NULL, e, NULL, e, NULL, e, NULL)
    BY <1>1, <1>2, <1>3, <1>4 DEF Written
  <1> QED
    BY <1>5 DEF g

(* LIST_INIT writes the two links of a header.                             *)
LEMMA InitHeap ==
    ASSUME NEW N, NEW h \in Heap(N), NEW l \in N
    PROVE  Written(N, h, LIST_INIT(h, l), l, l, l, l, l, l, l, l)
  <1> DEFINE g == LIST_INIT(h, l)
  <1>1. g \in Heap(N)
    BY DEF Heap, LIST_INIT
  <1>2. g.next = [h.next EXCEPT ![l] = l]
    BY DEF Heap, LIST_INIT
  <1>3. g.prev = [h.prev EXCEPT ![l] = l]
    BY DEF Heap, LIST_INIT
  <1>4. h.next \in [N -> N \cup {NULL}] /\ h.prev \in [N -> N \cup {NULL}]
    BY DEF Heap
  <1> HIDE DEF g
  <1>5. Written(N, h, g, l, l, l, l, l, l, l, l)
    BY <1>1, <1>2, <1>3, <1>4 DEF Written
  <1> QED
    BY <1>5 DEF g

(* list_push_back of an element that is not in the list (list.c:15).       *)
LEMMA PushRing ==
    ASSUME NEW N, NULL \notin N, NEW l \in N, NEW s \in Seq(N), NEW h \in Heap(N), Ring(h, l, s),
           NEW e \in N, e # l, e \notin ToSet(s)
    PROVE  /\ list_push_back(h, l, e) \in Heap(N)
           /\ Ring(list_push_back(h, l, e), l, Append(s, e))
           /\ Apart(N, h, list_push_back(h, l, e), {l, e} \cup ToSet(s))
  <1> DEFINE r == Append(s, e)
             g == list_push_back(h, l, e)
             n == Len(s)
             p == At(l, s, n)
  <1>1. /\ n \in Nat
        /\ At(l, s, 0) = l /\ At(l, s, n + 1) = l
        /\ \A i \in 1..n : At(l, s, i) = s[i] /\ s[i] \in ToSet(s) /\ s[i] # l
        /\ \A i \in Nat : At(l, s, i) \in N /\ At(l, s, i) \in {l} \cup ToSet(s)
        /\ \A i, j \in 0..n : At(l, s, i) = At(l, s, j) => i = j
        /\ \A i, j \in 1..(n + 1) : At(l, s, i) = At(l, s, j) => i = j
    BY PlaceFacts DEF Ring
  <1>2. p \in N /\ p \in {l} \cup ToSet(s) /\ h.prev[l] = p
    BY <1>1, RingFacts
  <1>3. h.next \in [N -> N \cup {NULL}] /\ h.prev \in [N -> N \cup {NULL}]
    BY DEF Heap
  <1>4. g = list_insert(h, p, l, e)
    BY <1>2 DEF list_push_back
  <1> HIDE DEF g, p
  <1>5. Written(N, h, g, p, e, e, l, l, e, e, p)
    BY <1>2, <1>4, InsertHeap
  <1>6. /\ g \in Heap(N)
        /\ \A x \in N : g.next[x] = IF x = p THEN e ELSE IF x = e THEN l ELSE h.next[x]
        /\ \A x \in N : g.prev[x] = IF x = l THEN e ELSE IF x = e THEN p ELSE h.prev[x]
    BY <1>5 DEF Written
  <1>7. Apart(N, h, g, {l, e} \cup ToSet(s))
    BY <1>2, <1>6 DEF Apart
  <1>8. IsInjective(r) /\ ToSet(r) = ToSet(s) \cup {e} /\ r \in Seq(N)
    BY PushSeq DEF Ring
  <1>9. Len(r) = n + 1 /\ r[n + 1] = e /\ \A i \in 1..n : r[i] = s[i]
    OBVIOUS
  <1> HIDE DEF r
  <1>10. /\ \A i \in 0..n : At(l, r, i) = At(l, s, i)
         /\ At(l, r, n + 1) = e /\ At(l, r, (n + 1) + 1) = l
    <2>1. ASSUME NEW i \in 0..n PROVE At(l, r, i) = At(l, s, i)
      <3>1. i \in 1..(n + 1) <=> i \in 1..n
        BY <1>1
      <3> QED
        BY <3>1, <1>9 DEF At
    <2>2. n + 1 \in 1..(n + 1) /\ (n + 1) + 1 \notin 1..(n + 1)
      BY <1>1
    <2> QED
      BY <2>1, <2>2, <1>9 DEF At
  <1> HIDE DEF n
  <1>11. \A i \in 0..n : h.next[At(l, s, i)] = At(l, s, i + 1) /\ h.prev[At(l, s, i + 1)] = At(l, s, i)
    BY DEF Ring, n
  <1>12. ASSUME NEW i \in 0..(n + 1)
         PROVE  g.next[At(l, r, i)] = At(l, r, i + 1) /\ g.prev[At(l, r, i + 1)] = At(l, r, i)
    <2>1. CASE i < n
      <3>1. i \in 0..n /\ n \in 0..n /\ i + 1 \in 0..n /\ i + 1 \in 1..n /\ i # n
        BY <2>1, <1>1
      <3>2. At(l, s, i) \in N /\ At(l, s, i) # e /\ At(l, s, i + 1) \in N /\ At(l, s, i + 1) # e
        BY <3>1, <1>1
      <3>3. At(l, s, i) # p /\ At(l, s, i + 1) # l
        BY <3>1, <1>1 DEF p
      <3> QED
        BY <3>1, <3>2, <3>3, <1>6, <1>10, <1>11
    <2>2. CASE i = n
      <3>1. n \in 0..n
        BY <1>1
      <3> QED
        BY <2>2, <3>1, <1>2, <1>6, <1>10 DEF p
    <2>3. CASE i = n + 1
      BY <2>3, <1>2, <1>6, <1>10
    <2> QED
      BY <2>1, <2>2, <2>3, <1>1
  <1>13. Ring(g, l, r)
    <2>1. l \notin ToSet(r)
      BY <1>8 DEF Ring
    <2> QED
      BY <2>1, <1>8, <1>9, <1>12 DEF Ring
  <1> QED
    BY <1>6, <1>7, <1>13 DEF g, r

\* In g the neighbours of the element at place i are joined.
Joined(N, h, g, l, s, i) ==
    /\ \A x \in N \ {s[i]} : g.next[x] = IF x = At(l, s, i - 1) THEN At(l, s, i + 1) ELSE h.next[x]
    /\ \A x \in N \ {s[i]} : g.prev[x] = IF x = At(l, s, i + 1) THEN At(l, s, i - 1) ELSE h.prev[x]

\* The sequence r is s without the element at place i.
Without(s, i, r) ==
    /\ Len(r) = Len(s) - 1
    /\ \A j \in 1..(Len(s) - 1) : r[j] = IF j < i THEN s[j] ELSE s[j + 1]

(* The neighbours of the element at place i are joined, and the rest of    *)
(* the list is a list.                                                     *)
LEMMA JoinRing ==
    ASSUME NEW N, NEW l \in N, NEW s \in Seq(N), NEW h, Ring(h, l, s), NEW i \in 1..Len(s),
           NEW g, Joined(N, h, g, l, s, i),
           NEW r \in Seq(N), Without(s, i, r), IsInjective(r), l \notin ToSet(r)
    PROVE  Ring(g, l, r)
  <1> DEFINE n == Len(s)
  <1>1. /\ n \in Nat
        /\ At(l, s, 0) = l /\ At(l, s, n + 1) = l
        /\ \A j \in 1..n : At(l, s, j) = s[j] /\ s[j] # l
        /\ \A j \in Nat : At(l, s, j) \in N
        /\ \A j, k \in 0..n : At(l, s, j) = At(l, s, k) => j = k
        /\ \A j, k \in 1..(n + 1) : At(l, s, j) = At(l, s, k) => j = k
    BY PlaceFacts DEF Ring
  <1>2. \A j \in 0..n : h.next[At(l, s, j)] = At(l, s, j + 1) /\ h.prev[At(l, s, j + 1)] = At(l, s, j)
    BY DEF Ring
  <1>9. Len(r) = n - 1 /\ \A j \in 1..(n - 1) : r[j] = IF j < i THEN s[j] ELSE s[j + 1]
    BY DEF Without
  <1>3. ASSUME NEW j \in 0..n PROVE At(l, r, j) = IF j < i THEN At(l, s, j) ELSE At(l, s, j + 1)
    <2>1. CASE j \in 1..(n - 1)
      <3>1. j \in 1..n /\ j + 1 \in 1..n
        BY <2>1, <1>1
      <3> QED
        BY <2>1, <3>1, <1>9 DEF At
    <2>2. CASE j = 0
      <3>1. 0 \notin 1..Len(r) /\ 0 < i
        BY <1>9, <1>1
      <3> QED
        BY <2>2, <3>1, <1>1 DEF At
    <2>3. CASE j = n
      <3>1. n \notin 1..Len(r) /\ ~(n < i)
        BY <1>9, <1>1
      <3> QED
        BY <2>3, <3>1, <1>1 DEF At
    <2> QED
      BY <2>1, <2>2, <2>3, <1>1
  <1> HIDE DEF n
  <1>4. i \in 1..n /\ i \in Nat
    BY <1>1 DEF n
  <1>5. PICK a \in 0..n : a = i - 1 /\ a + 1 = i
    <2>1. i - 1 \in 0..n /\ (i - 1) + 1 = i
      BY <1>1, <1>4
    <2> QED
      BY <2>1
  <1>6. PICK b \in 1..(n + 1) : b = i + 1 /\ b \in Nat
    BY <1>1, <1>4
  <1>7. /\ \A x \in N \ {At(l, s, i)} : g.next[x] = IF x = At(l, s, a) THEN At(l, s, b) ELSE h.next[x]
        /\ \A x \in N \ {At(l, s, i)} : g.prev[x] = IF x = At(l, s, b) THEN At(l, s, a) ELSE h.prev[x]
    BY <1>1, <1>4, <1>5, <1>6 DEF Joined
  <1>8. ASSUME NEW j \in 0..(n - 1)
        PROVE  g.next[At(l, r, j)] = At(l, r, j + 1) /\ g.prev[At(l, r, j + 1)] = At(l, r, j)
    <2>1. j \in 0..n /\ j + 1 \in 0..n /\ j + 1 \in 1..n /\ j + 1 \in Nat
      BY <1>1
    <2>2. CASE j < a
      <3>1. j < i /\ j + 1 < i /\ j # a /\ j # i /\ j + 1 # i /\ j + 1 # b /\ i \in 0..n /\ i \in 1..(n + 1) /\ j + 1 \in 1..(n + 1)
        BY <2>1, <2>2, <1>1, <1>4, <1>5, <1>6
      <3>2. At(l, s, j) \in N /\ At(l, s, j + 1) \in N
        BY <2>1, <1>1
      <3>3. At(l, s, j) # At(l, s, a) /\ At(l, s, j) # At(l, s, i)
        BY <2>1, <3>1, <1>1
      <3>4. At(l, s, j + 1) # At(l, s, b) /\ At(l, s, j + 1) # At(l, s, i)
        BY <2>1, <3>1, <1>1
      <3>5. At(l, r, j) = At(l, s, j) /\ At(l, r, j + 1) = At(l, s, j + 1)
        BY <2>1, <3>1, <1>3
      <3> QED
        BY <2>1, <3>2, <3>3, <3>4, <3>5, <1>2, <1>7
    <2>3. CASE j = a
      <3>1. j < i /\ ~(j + 1 < i) /\ (j + 1) + 1 = b /\ i \in 0..n /\ a # i /\ i \in 1..(n + 1) /\ b # i
        BY <2>3, <1>1, <1>4, <1>5, <1>6
      <3>2. At(l, r, j) = At(l, s, a) /\ At(l, r, j + 1) = At(l, s, b)
        BY <2>1, <2>3, <3>1, <1>3
      <3>3. At(l, s, a) \in N /\ At(l, s, b) \in N /\ At(l, s, a) # At(l, s, i) /\ At(l, s, b) # At(l, s, i)
        BY <3>1, <1>1, <1>5, <1>6
      <3> QED
        BY <3>2, <3>3, <1>7
    <2>4. CASE j > a
      <3>1. PICK c \in 0..n : c = j + 1 /\ ~(j < i) /\ ~(j + 1 < i) /\ c # a /\ c # i
        BY <2>1, <2>4, <1>5
      <3>2. /\ c + 1 = (j + 1) + 1 /\ c + 1 # b /\ c + 1 # i /\ c + 1 \in 1..(n + 1) /\ c + 1 \in Nat /\ c \in Nat
            /\ i \in 0..n /\ i \in 1..(n + 1)
        BY <2>4, <3>1, <1>1, <1>4, <1>5, <1>6
      <3>3. At(l, r, j) = At(l, s, c) /\ At(l, r, j + 1) = At(l, s, c + 1)
        BY <2>1, <3>1, <3>2, <1>3
      <3>4. At(l, s, c) \in N /\ At(l, s, c) # At(l, s, a) /\ At(l, s, c) # At(l, s, i)
        BY <3>1, <3>2, <1>1
      <3>5. At(l, s, c + 1) \in N /\ At(l, s, c + 1) # At(l, s, b) /\ At(l, s, c + 1) # At(l, s, i)
        BY <3>2, <1>1
      <3> QED
        BY <3>1, <3>3, <3>4, <3>5, <1>2, <1>7
    <2> QED
      BY <2>1, <2>2, <2>3, <2>4, <1>5
  <1> QED
    BY <1>9, <1>8 DEF Ring, n

(* The places of a sequence without its i-th element.                      *)
LEMMA RemovePlaces ==
    ASSUME NEW N, NEW s \in Seq(N), NEW i \in 1..Len(s)
    PROVE  Without(s, i, RemoveAt(s, i))
  <1> DEFINE a == SubSeq(s, 1, i - 1)
             b == SubSeq(s, i + 1, Len(s))
             r == RemoveAt(s, i)
             n == Len(s)
  <1>1. n \in Nat /\ i \in 1..n
    BY ElementsSeq
  <1>2. a \in Seq(N) /\ Len(a) = i - 1 /\ \A j \in 1..(i - 1) : a[j] = s[j]
    BY <1>1
  <1>3. b \in Seq(N) /\ Len(b) = n - i /\ \A j \in 1..(n - i) : b[j] = s[i + j]
    BY <1>1
  <1>4. r = a \o b
    BY DEF RemoveAt
  <1> HIDE DEF a, b, r, n
  <1>5. (i - 1) + (n - i) = n - 1
    BY <1>1
  <1>6. /\ Len(r) = n - 1
        /\ \A j \in 1..(n - 1) : r[j] = IF j <= i - 1 THEN a[j] ELSE b[j - (i - 1)]
    <2>1. Len(r) = Len(a) + Len(b)
          /\ \A j \in 1..(Len(a) + Len(b)) : r[j] = IF j <= Len(a) THEN a[j] ELSE b[j - Len(a)]
      BY <1>2, <1>3, <1>4, ST!ConcatProperties
    <2>2. Len(a) + Len(b) = n - 1
      BY <1>2, <1>3, <1>5
    <2> QED
      BY <2>1, <2>2, <1>2
  <1>7. ASSUME NEW j \in 1..(n - 1) PROVE r[j] = IF j < i THEN s[j] ELSE s[j + 1]
    <2>1. CASE j < i
      <3>1. j <= i - 1 /\ j \in 1..(i - 1)
        BY <2>1, <1>1
      <3> QED
        BY <2>1, <3>1, <1>2, <1>6
    <2>2. CASE j >= i
      <3>1. j - (i - 1) \in 1..(n - i) /\ i + (j - (i - 1)) = j + 1 /\ ~(j <= i - 1) /\ ~(j < i)
        BY <2>2, <1>1
      <3> QED
        BY <3>1, <1>3, <1>6
    <2> QED
      BY <2>1, <2>2, <1>1
  <1> QED
    BY <1>6, <1>7 DEF n, r, Without

(* list_remove of a node with neighbours (list.c:23).                      *)
LEMMA RemoveHeap ==
    ASSUME NEW N, NULL \notin N, NEW h \in Heap(N), NEW e \in N,
           NEW a \in N, NEW b \in N, h.prev[e] = a, h.next[e] = b
    PROVE  Written(N, h, list_remove(h, e), e, NULL, a, b, e, NULL, b, a)
  <1> DEFINE g == list_remove(h, e)
             j == [h EXCEPT !.next[a] = b, !.prev[b] = a]
  <1>1. g = list_elem_init(j, e)
    BY DEF list_remove, list_is_linked
  <1>2. Written(N, h, j, a, b, a, b, b, a, b, a)
    <2>1. h \in Heap(N) /\ a \in N /\ b \in N
      OBVIOUS
    <2> QED
      BY ONLY <2>1, JoinHeap
  <1> HIDE DEF j, g
  <1>3. j \in Heap(N)
    BY <1>2 DEF Written
  <1>4. Written(N, j, g, e, NULL, e, NULL, e, NULL, e, NULL)
    BY <1>1, <1>3, ClearHeap
  <1>5. Written(N, h, g, e, NULL, a, b, e, NULL, b, a)
    <2>1. ASSUME NEW i \in N PROVE g.next[i] = IF i = e THEN NULL ELSE IF i = a THEN b ELSE h.next[i]
      BY <1>2, <1>4 DEF Written
    <2>2. ASSUME NEW i \in N PROVE g.prev[i] = IF i = e THEN NULL ELSE IF i = b THEN a ELSE h.prev[i]
      BY <1>2, <1>4 DEF Written
    <2> QED
      BY <2>1, <2>2, <1>4 DEF Written
  <1> QED
    BY <1>5 DEF g

(* list_remove of the element at place i of a list.                        *)
LEMMA RemoveRing ==
    ASSUME NEW N, NULL \notin N, NEW l \in N, NEW s \in Seq(N), NEW h \in Heap(N), Ring(h, l, s),
           NEW i \in 1..Len(s)
    PROVE  /\ list_remove(h, s[i]) \in Heap(N)
           /\ Ring(list_remove(h, s[i]), l, RemoveAt(s, i))
           /\ Apart(N, h, list_remove(h, s[i]), {l} \cup ToSet(s))
           /\ list_remove(h, s[i]).next[s[i]] = NULL
  <1> DEFINE e == s[i]
             n == Len(s)
             a == At(l, s, i - 1)
             b == At(l, s, i + 1)
             g == list_remove(h, e)
             r == RemoveAt(s, i)
  <1>1. /\ n \in Nat /\ DOMAIN s = 1..n
        /\ \A j \in 1..n : At(l, s, j) = s[j] /\ s[j] \in ToSet(s)
        /\ \A j \in Nat : At(l, s, j) \in N /\ At(l, s, j) \in {l} \cup ToSet(s)
    BY PlaceFacts, ElementsSeq DEF Ring
  <1>2. i - 1 \in 0..n /\ i - 1 \in Nat /\ i \in 0..n /\ i + 1 \in Nat /\ i \in Nat /\ (i - 1) + 1 = i
    BY <1>1
  <1>3. e \in N /\ a \in N /\ b \in N
    BY <1>1, <1>2
  <1>4. e \in {l} \cup ToSet(s) /\ a \in {l} \cup ToSet(s) /\ b \in {l} \cup ToSet(s)
    BY <1>1, <1>2
  <1>5. h.next[e] = b /\ h.prev[e] = a
    <2>1. h.next[At(l, s, i)] = At(l, s, i + 1) /\ h.prev[At(l, s, (i - 1) + 1)] = At(l, s, i - 1)
      BY <1>2 DEF Ring
    <2> QED
      BY <2>1, <1>1, <1>2
  <1> HIDE DEF a, b, e, n, g
  <1>6. Written(N, h, g, e, NULL, a, b, e, NULL, b, a)
    BY <1>3, <1>5, RemoveHeap DEF g
  <1>7. /\ g \in Heap(N)
        /\ \A x \in N : g.next[x] = IF x = e THEN NULL ELSE IF x = a THEN b ELSE h.next[x]
        /\ \A x \in N : g.prev[x] = IF x = e THEN NULL ELSE IF x = b THEN a ELSE h.prev[x]
    BY <1>6 DEF Written
  <1>8. Apart(N, h, g, {l} \cup ToSet(s)) /\ g.next[e] = NULL
    BY <1>3, <1>4, <1>7 DEF Apart
  <1>9. r \in Seq(N) /\ IsInjective(r) /\ ToSet(r) = ToSet(s) \ {e}
    BY <1>1, RemoveSeq DEF Ring, e, n
  <1>10. Without(s, i, r)
    BY RemovePlaces
  <1>11. Ring(g, l, r)
    <2>1. l \notin ToSet(r)
      BY <1>9 DEF Ring
    <2>2. Joined(N, h, g, l, s, i)
      BY <1>7 DEF e, a, b, Joined
    <2> HIDE DEF r
    <2> QED
      BY <2>1, <2>2, <1>9, <1>10, JoinRing
  <1> QED
    BY <1>7, <1>8, <1>11 DEF e, g

(* list_pop_tail of a list that is not empty (list.c:51).                  *)
LEMMA PopRing ==
    ASSUME NEW N, NULL \notin N, NEW l \in N, NEW s \in Seq(N), NEW h \in Heap(N), Ring(h, l, s), s # <<>>
    PROVE  /\ list_pop_tail(h, l) \in Heap(N)
           /\ Ring(list_pop_tail(h, l), l, Front(s))
           /\ Apart(N, h, list_pop_tail(h, l), {l} \cup ToSet(s))
           /\ \A x \in N : list_pop_tail(h, l).next[x] # NULL <=> h.next[x] # NULL
  <1> DEFINE n == Len(s)
             a == At(l, s, n - 1)
             g == list_pop_tail(h, l)
             r == Front(s)
  <1>1. n \in 1..n /\ h.prev[l] = s[n] /\ s[n] # l
    <2>1. n \in 1..n /\ h.prev[l] = At(l, s, n)
      BY RingFacts
    <2> QED
      BY <2>1, PlaceFacts DEF Ring
  <1>2. /\ n \in Nat /\ At(l, s, n) = s[n] /\ At(l, s, n + 1) = l
        /\ \A j \in Nat : At(l, s, j) \in N /\ At(l, s, j) \in {l} \cup ToSet(s)
        /\ \A j, k \in 0..n : At(l, s, j) = At(l, s, k) => j = k
    BY <1>1, PlaceFacts DEF Ring
  <1>3. n - 1 \in Nat /\ n - 1 \in 0..n /\ n \in 0..n /\ n - 1 # n /\ (n - 1) + 1 = n
    BY <1>1, <1>2
  <1>4. a \in N /\ a \in {l} \cup ToSet(s) /\ a # s[n]
    BY <1>2, <1>3
  <1>5. h.next[s[n]] = l /\ h.prev[s[n]] = a
    <2>1. h.next[At(l, s, n)] = At(l, s, n + 1) /\ h.prev[At(l, s, (n - 1) + 1)] = At(l, s, n - 1)
      BY <1>3 DEF Ring
    <2> QED
      BY <2>1, <1>2, <1>3
  <1> HIDE DEF a, n
  <1>6. g = [h EXCEPT !.next[a] = l, !.prev[l] = a]
    BY <1>1, <1>5 DEF list_pop_tail
  <1>7. Written(N, h, g, a, l, a, l, l, a, l, a)
    <2>1. Written(N, h, [h EXCEPT !.next[a] = l, !.prev[l] = a], a, l, a, l, l, a, l, a)
      BY <1>4, JoinHeap
    <2> HIDE DEF g
    <2> QED
      BY ONLY <2>1, <1>6
  <1> HIDE DEF g
  <1>8. /\ g \in Heap(N)
        /\ \A x \in N : g.next[x] = IF x = a THEN l ELSE h.next[x]
        /\ \A x \in N : g.prev[x] = IF x = l THEN a ELSE h.prev[x]
    BY <1>7 DEF Written
  <1>9. Apart(N, h, g, {l} \cup ToSet(s))
    BY <1>4, <1>8 DEF Apart
  <1>10. r \in Seq(N) /\ IsInjective(r) /\ ToSet(r) \subseteq ToSet(s)
    BY PopSeq DEF Ring
  <1>11. Without(s, n, r)
    <2>1. Len(r) = n - 1 /\ \A j \in 1..(n - 1) : r[j] = s[j]
      <3>1. PICK m \in Nat : m = n - 1 /\ m + 1 = n
        BY <1>3
      <3>2. r = SubSeq(s, 1, m) /\ \A j \in 1..m : j \in 1..Len(s)
        BY <1>2, <3>1 DEF Front, n
      <3>3. Len(SubSeq(s, 1, m)) = m /\ \A j \in 1..m : SubSeq(s, 1, m)[j] = s[j]
        BY <3>1, <3>2, ST!SubSeqProperties DEF n
      <3> QED
        BY <3>1, <3>2, <3>3
    <2>2. \A j \in 1..(n - 1) : j < n
      BY <1>2
    <2> HIDE DEF r
    <2> QED
      BY <2>1, <2>2 DEF Without, n
  <1>12. Joined(N, h, g, l, s, n)
    BY <1>2, <1>8 DEF Joined, a
  <1>13. Ring(g, l, r)
    <2>1. l \notin ToSet(r)
      BY <1>10 DEF Ring
    <2>2. n \in 1..Len(s)
      BY <1>1 DEF n
    <2> HIDE DEF r
    <2> QED
      BY <2>1, <2>2, <1>10, <1>11, <1>12, JoinRing
  <1>14. \A x \in N : g.next[x] # NULL <=> h.next[x] # NULL
    BY <1>4, <1>8, RingFacts
  <1> QED
    BY <1>8, <1>9, <1>13, <1>14 DEF g

(* LIST_INIT (list.h:15).                                                  *)
LEMMA EmptyRing ==
    ASSUME NEW N, NEW l \in N, NEW h \in Heap(N)
    PROVE  /\ LIST_INIT(h, l) \in Heap(N)
           /\ Ring(LIST_INIT(h, l), l, <<>>)
           /\ Apart(N, h, LIST_INIT(h, l), {l})
  <1> DEFINE g == LIST_INIT(h, l)
  <1>1. Written(N, h, g, l, l, l, l, l, l, l, l)
    BY InitHeap
  <1> HIDE DEF g
  <1>2. g \in Heap(N) /\ g.next[l] = l /\ g.prev[l] = l /\ Apart(N, h, g, {l})
    BY <1>1 DEF Written, Apart
  <1>3. IsInjective(<<>>) /\ ToSet(<<>>) = {} /\ Len(<<>>) = 0
    BY EmptyList
  <1>4. \A i : At(l, <<>>, i) = l
    BY <1>3 DEF At
  <1>5. Ring(g, l, <<>>)
    BY <1>2, <1>3, <1>4 DEF Ring
  <1> QED
    BY <1>2, <1>5 DEF g

(* list_elem_init (list.c:3).                                              *)
LEMMA ClearNode ==
    ASSUME NEW N, NEW e \in N, NEW h \in Heap(N)
    PROVE  /\ list_elem_init(h, e) \in Heap(N)
           /\ Apart(N, h, list_elem_init(h, e), {e})
           /\ list_elem_init(h, e).next[e] = NULL
  <1> DEFINE g == list_elem_init(h, e)
  <1>1. Written(N, h, g, e, NULL, e, NULL, e, NULL, e, NULL)
    BY ClearHeap
  <1> HIDE DEF g
  <1>2. g \in Heap(N) /\ g.next[e] = NULL /\ Apart(N, h, g, {e})
    BY <1>1 DEF Written, Apart
  <1> QED
    BY <1>2 DEF g

----------------------------------------------------------------------------
(* The loops over a list                                                   *)

(* The end of a sequence, element by element.                              *)
LEMMA TailFrom ==
    ASSUME NEW N, NEW s \in Seq(N)
    PROVE  /\ SubSeq(s, Len(s) + 1, Len(s)) = <<>> /\ SubSeq(s, 1, Len(s)) = s
           /\ \A j \in 1..Len(s) : <<s[j]>> \o SubSeq(s, j + 1, Len(s)) = SubSeq(s, j, Len(s))
  <1>1. Len(s) \in Nat /\ \A i \in 1..Len(s) : s[i] \in N
    BY ElementsSeq
  <1>2. SubSeq(s, Len(s) + 1, Len(s)) = <<>>
    BY <1>1, ST!SubSeqEmpty
  <1>3. SubSeq(s, 1, Len(s)) = s
    BY <1>1, ST!SubSeqFull
  <1>4. ASSUME NEW j \in 1..Len(s)
        PROVE  <<s[j]>> \o SubSeq(s, j + 1, Len(s)) = SubSeq(s, j, Len(s))
    <2> DEFINE n == Len(s)
               a == <<s[j]>>
               b == SubSeq(s, j + 1, n)
               c == SubSeq(s, j, n)
    <2>1. /\ \A i \in (j + 1)..n : s[i] \in N
          /\ \A i \in j..n : s[i] \in N
          /\ j \in Int /\ j + 1 \in Int /\ n \in Int /\ j <= n
      BY <1>1
    <2>2. /\ b \in Seq(N) /\ Len(b) = n - j
          /\ \A i \in 1..(n - j) : b[i] = s[j + i]
      <3>1. b \in Seq(N) /\ Len(b) = IF j + 1 <= n THEN n - (j + 1) + 1 ELSE 0
        BY <2>1, ST!SubSeqProperties
      <3>2. \A i \in 1..(n - (j + 1) + 1) : b[i] = s[(j + 1) + i - 1]
        BY <2>1, ST!SubSeqProperties
      <3>3. \A i \in 1..(n - j) : i \in 1..(n - (j + 1) + 1) /\ (j + 1) + i - 1 = j + i
        BY <2>1
      <3> HIDE DEF b, n
      <3>4. Len(b) = n - j
        BY <2>1, <3>1
      <3> QED
        BY <3>1, <3>2, <3>3, <3>4
    <2>3. /\ c \in Seq(N) /\ Len(c) = (n - j) + 1
          /\ \A i \in 1..((n - j) + 1) : c[i] = s[j + i - 1]
      <3>1. c \in Seq(N) /\ Len(c) = IF j <= n THEN n - j + 1 ELSE 0
        BY <2>1, ST!SubSeqProperties
      <3>2. \A i \in 1..(n - j + 1) : c[i] = s[j + i - 1]
        BY <2>1, ST!SubSeqProperties
      <3> QED
        BY <2>1, <3>1, <3>2
    <2>4. a \in Seq(N) /\ Len(a) = 1 /\ a[1] = s[j]
      BY <1>1
    <2> HIDE DEF a, b, c, n
    <2>5. /\ a \o b \in Seq(N) /\ Len(a \o b) = 1 + (n - j)
          /\ \A i \in 1..(1 + (n - j)) : (a \o b)[i] = IF i <= 1 THEN a[i] ELSE b[i - 1]
      <3>1. /\ a \o b \in Seq(N) /\ Len(a \o b) = Len(a) + Len(b)
            /\ \A i \in 1..(Len(a) + Len(b)) : (a \o b)[i] = IF i <= Len(a) THEN a[i] ELSE b[i - Len(a)]
        BY <2>2, <2>4, ST!ConcatProperties
      <3> QED
        BY <3>1, <2>2, <2>4
    <2>6. 1 + (n - j) = (n - j) + 1
      BY <2>1
    <2>7. ASSUME NEW i \in 1..((n - j) + 1) PROVE (a \o b)[i] = c[i]
      <3>1. CASE i = 1
        <4>1. j + 1 - 1 = j
          BY <2>1
        <4> QED
          BY <3>1, <4>1, <2>3, <2>4, <2>5, <2>6
      <3>2. CASE i # 1
        <4>1. i - 1 \in 1..(n - j) /\ j + (i - 1) = j + i - 1 /\ ~(i <= 1)
          BY <3>2, <2>1
        <4>2. (a \o b)[i] = b[i - 1]
          BY <4>1, <2>5, <2>6
        <4>3. b[i - 1] = s[j + (i - 1)]
          BY <4>1, <2>2
        <4> QED
          BY <4>1, <4>2, <4>3, <2>3
      <3> QED
        BY <3>1, <3>2
    <2>8. Len(a \o b) = Len(c)
      BY <2>3, <2>5, <2>6
    <2>9. \A i \in 1..Len(a \o b) : (a \o b)[i] = c[i]
      BY <2>5, <2>6, <2>7
    <2>10. a \o b = c
      BY <2>3, <2>5, <2>8, <2>9, ST!SeqEqual
    <2> QED
      BY <2>10 DEF a, b, c, n
  <1> QED
    BY <1>2, <1>3, <1>4

(* A list has no more elements than there are nodes.                       *)
LEMMA LengthBound ==
    ASSUME NEW N, IsFiniteSet(N), NEW s \in Seq(N), IsInjective(s)
    PROVE  Cardinality(N) \in Nat /\ Len(s) \in Nat /\ Len(s) <= Cardinality(N)
  <1>1. Len(s) \in Nat /\ DOMAIN s = 1..Len(s) /\ Cardinality(N) \in Nat
    BY ElementsSeq, FS_CardinalityType
  <1>2. SUFFICES ASSUME Cardinality(N) < Len(s) PROVE FALSE
    BY <1>1
  <1>3. IsFiniteSet(1..Len(s)) /\ Cardinality(1..Len(s)) = Len(s)
    <2>1. PICK n \in Nat : n = Len(s)
      BY <1>1
    <2>2. /\ IsFiniteSet(1..n)
          /\ Cardinality(1..n) = IF 1 > n THEN 0 ELSE n - 1 + 1
      BY FS_Interval
    <2>3. Cardinality(1..n) = n
      BY <2>2
    <2> QED
      BY <2>1, <2>2, <2>3
  <1>4. s \in [1..Len(s) -> N]
    OBVIOUS
  <1>5. \E x, y \in 1..Len(s) : x # y /\ s[x] = s[y]
    BY <1>2, <1>3, <1>4, FS_PigeonHole
  <1> QED
    BY <1>1, <1>5 DEF IsInjective

\* The links f lead from l through s and back.
Leads(f, l, s) ==
    /\ IsInjective(s) /\ l \notin ToSet(s)
    /\ \A i \in 0..Len(s) : f[At(l, s, i)] = At(l, s, i + 1)

\* The elements of a list from e on, seen through at most k links.
Loop(N, f, l, from) ==
    \A k \in Nat : from[k] = [e \in N \cup {NULL} |->
        IF k = 0 \/ e \in {l, NULL} THEN <<>> ELSE <<e>> \o from[k - 1][f[e]]]

(* The recursion of Walk is defined.                                       *)
LEMMA WalkLoop ==
    ASSUME NEW N, NEW l \in N, NEW f \in [N -> N \cup {NULL}]
    PROVE  \E from : Loop(N, f, l, from) /\ Walk(f, l) = from[Cardinality(N)][f[l]]
  <1> DEFINE E == N \cup {NULL}
             S == [E -> Seq(N)]
             over(g) == [e \in E |-> IF e \in {l, NULL} THEN <<>> ELSE <<e>> \o g[f[e]]]
             step == [g \in S |-> over(g)]
             a == [e \in E |-> <<>>]
             c == Cardinality(N)
  <1>1. a \in S
    OBVIOUS
  <1>2. ASSUME NEW g \in S PROVE over(g) \in S
    <2>1. ASSUME NEW e \in E, e \notin {l, NULL} PROVE <<e>> \o g[f[e]] \in Seq(N)
      <3>1. e \in N /\ <<e>> \in Seq(N)
        BY <2>1
      <3>2. f[e] \in E
        BY <3>1
      <3>3. g[f[e]] \in Seq(N)
        BY <3>2
      <3> QED
        BY <3>1, <3>3, ST!ConcatProperties
    <2> QED
      BY <2>1
  <1>3. step \in [S -> S]
    BY <1>2
  <1>4. \A g \in S : step[g] = over(g)
    OBVIOUS
  <1>5. DOMAIN f = N
    OBVIOUS
  <1>6. PICK g \in [Nat -> S] : g[0] = a /\ \A k \in Nat : g[k + 1] = step[g[k]]
    <2> HIDE DEF step, a, S
    <2>1. PICK g : Iterates(S, step, a, g)
      BY <1>1, <1>3, Iteration
    <2> QED
      BY <2>1 DEF Iterates
  <1> DEFINE turn(h, k) == [e \in DOMAIN f \cup {NULL} |->
                              IF k = 0 \/ e \in {l, NULL} THEN <<>> ELSE <<e>> \o h[k - 1][f[e]]]
             from == CHOOSE h : h = [k \in Nat |-> turn(h, k)]
  <1>7. Walk(f, l) = from[c][f[l]]
    BY <1>5 DEF Walk
  <1>8. ASSUME NEW k \in Nat PROVE g[k] = turn(g, k)
    <2>1. CASE k = 0
      BY <2>1, <1>5, <1>6
    <2>2. CASE k # 0
      <3>1. k - 1 \in Nat /\ (k - 1) + 1 = k
        BY <2>2
      <3>2. g[k] = step[g[k - 1]] /\ g[k - 1] \in S
        BY <3>1, <1>6
      <3>3. g[k] = over(g[k - 1])
        BY <3>2, <1>4
      <3> QED
        BY <2>2, <3>3, <1>5
    <2> QED
      BY <2>1, <2>2
  <1> HIDE DEF turn
  <1>9. g = [k \in Nat |-> turn(g, k)]
    BY <1>8
  <1>10. from = [k \in Nat |-> turn(from, k)]
    BY <1>9
  <1> HIDE DEF from
  <1>11. \A k \in Nat : from[k] = turn(from, k)
    BY <1>10
  <1>12. Loop(N, f, l, from)
    BY <1>5, <1>11 DEF Loop, turn
  <1> QED
    BY <1>7, <1>12

(* A header that is not linked has no elements.                            *)
LEMMA WalkUnlinked ==
    ASSUME NEW N, IsFiniteSet(N), NEW l \in N, NEW f \in [N -> N \cup {NULL}], f[l] = NULL
    PROVE  Walk(f, l) = <<>>
  <1>1. PICK from : Loop(N, f, l, from) /\ Walk(f, l) = from[Cardinality(N)][f[l]]
    BY WalkLoop
  <1>2. Cardinality(N) \in Nat
    BY FS_CardinalityType
  <1> QED
    BY <1>1, <1>2 DEF Loop

(* The elements that Walk finds.                                           *)
LEMMA WalkLeads ==
    ASSUME NEW N, NULL \notin N, IsFiniteSet(N), NEW l \in N, NEW s \in Seq(N),
           NEW f \in [N -> N \cup {NULL}], Leads(f, l, s)
    PROVE  Walk(f, l) = s
  <1> DEFINE n == Len(s)
             E == N \cup {NULL}
             c == Cardinality(N)
  <1>0. /\ n \in Nat /\ At(l, s, n + 1) = l /\ At(l, s, 0) = l
        /\ \A j \in 1..n : At(l, s, j) = s[j] /\ s[j] # l
    BY PlaceFacts DEF Leads
  <1>5. f[l] = At(l, s, 1)
    BY <1>0 DEF Leads
  <1>7. PICK from : Loop(N, f, l, from) /\ Walk(f, l) = from[c][f[l]]
    BY WalkLoop
  <1> DEFINE turn(h, k) == [e \in E |-> IF k = 0 \/ e \in {l, NULL} THEN <<>> ELSE <<e>> \o h[k - 1][f[e]]]
  <1>11. \A k \in Nat : from[k] = turn(from, k)
    BY <1>7 DEF Loop
  <1> HIDE DEF turn
  <1> DEFINE P == {k \in Nat : \A j \in 1..(n + 1) : (n + 1) - j <= k => from[k][At(l, s, j)] = SubSeq(s, j, n)}
  <1>12. /\ n \in Nat /\ At(l, s, n + 1) = l
         /\ \A j \in 1..n : At(l, s, j) = s[j] /\ s[j] # l /\ s[j] \in E \ {l, NULL}
    <2>1. \A j \in 1..n : s[j] \in N
      BY ElementsSeq
    <2> QED
      BY <2>1, <1>0
  <1>13. \A k \in Nat : from[k][l] = <<>>
    BY <1>5, <1>11 DEF turn
  <1>14. SubSeq(s, n + 1, n) = <<>>
    BY TailFrom
  <1> HIDE DEF E
  <1>15. 0 \in P
    <2> HIDE DEF n
    <2>1. \A j \in 1..(n + 1) : (n + 1) - j <= 0 => j = n + 1
      BY <1>12
    <2> QED
      BY <2>1, <1>12, <1>13, <1>14
  <1>16. ASSUME NEW k \in P PROVE k + 1 \in P
    <2> SUFFICES ASSUME NEW j \in 1..(n + 1), (n + 1) - j <= k + 1
                 PROVE  from[k + 1][At(l, s, j)] = SubSeq(s, j, n)
      OBVIOUS
    <2> HIDE DEF n
    <2>1. CASE j = n + 1
      BY <2>1, <1>12, <1>13, <1>14
    <2>2. CASE j \in 1..n
      <3>1. j + 1 \in 1..(n + 1) /\ (n + 1) - (j + 1) <= k /\ j \in 0..n
        BY <2>2, <1>12
      <3>2. from[k][At(l, s, j + 1)] = SubSeq(s, j + 1, n)
        BY <3>1
      <3>3. f[s[j]] = At(l, s, j + 1)
        BY <2>2, <3>1, <1>12 DEF Leads, n
      <3>4. k + 1 \in Nat /\ k + 1 # 0 /\ (k + 1) - 1 = k
        OBVIOUS
      <3>5. from[k + 1] = turn(from, k + 1)
        BY <3>4, <1>11
      <3>6. turn(from, k + 1)[s[j]] = <<s[j]>> \o from[k][f[s[j]]]
        BY <2>2, <3>4, <1>5, <1>12 DEF turn, E
      <3>7. <<s[j]>> \o SubSeq(s, j + 1, n) = SubSeq(s, j, n)
        BY <2>2, TailFrom DEF n
      <3> QED
        BY <2>2, <3>2, <3>3, <3>5, <3>6, <3>7, <1>12
    <2> QED
      BY <2>1, <2>2, <1>12
  <1>17. P = Nat
    <2>1. P \in SUBSET Nat
      OBVIOUS
    <2> HIDE DEF P
    <2> QED
      BY <2>1, <1>15, <1>16, SetInduction
  <1>18. c \in Nat /\ n <= c
    BY LengthBound DEF Leads
  <1>19. 1 \in 1..(n + 1) /\ (n + 1) - 1 <= c
    BY <1>12, <1>18
  <1>20. from[c][At(l, s, 1)] = SubSeq(s, 1, n)
    BY <1>17, <1>18, <1>19
  <1> QED
    BY <1>5, <1>7, <1>20, TailFrom

(* A sequence backwards.                                                   *)
LEMMA ReverseFacts ==
    ASSUME NEW N, NEW l \in N, NEW s \in Seq(N), IsInjective(s), l \notin ToSet(s)
    PROVE  /\ Reverse(s) \in Seq(N) /\ Len(Reverse(s)) = Len(s)
           /\ IsInjective(Reverse(s)) /\ ToSet(Reverse(s)) = ToSet(s)
           /\ \A i \in 0..Len(s) : At(l, Reverse(s), i) = At(l, s, (Len(s) - i) + 1)
           /\ \A i \in 0..Len(s) : At(l, Reverse(s), i + 1) = At(l, s, Len(s) - i)
  <1> DEFINE n == Len(s)
             r == Reverse(s)
  <1>1. /\ n \in Nat /\ DOMAIN s = 1..n
        /\ \A i \in 1..n : s[i] \in N
        /\ \A e : e \in ToSet(s) <=> \E i \in 1..n : s[i] = e
    BY ElementsSeq
  <1>2. r = [i \in 1..n |-> s[(n - i) + 1]]
    BY DEF Reverse
  <1> HIDE DEF n, r
  <1>3. \A i \in 1..n : (n - i) + 1 \in 1..n /\ (n - ((n - i) + 1)) + 1 = i
    BY <1>1
  <1>4. r \in Seq(N) /\ Len(r) = n /\ \A i \in 1..n : r[i] = s[(n - i) + 1]
    BY <1>1, <1>2, <1>3
  <1>5. DOMAIN r = 1..n /\ \A e : e \in ToSet(r) <=> \E i \in 1..n : r[i] = e
    <2>1. DOMAIN r = 1..Len(r) /\ \A e : e \in ToSet(r) <=> \E i \in 1..Len(r) : r[i] = e
      BY <1>4, ElementsSeq
    <2> QED
      BY <2>1, <1>4
  <1>6. \A i, j \in 1..n : s[i] = s[j] => i = j
    BY <1>1 DEF IsInjective
  <1>7. ASSUME NEW i \in 1..n, NEW j \in 1..n, r[i] = r[j] PROVE i = j
    <2>1. PICK a \in 1..n, b \in 1..n : a = (n - i) + 1 /\ b = (n - j) + 1
      BY <1>3
    <2>2. s[a] = s[b]
      BY <2>1, <1>4, <1>7
    <2>3. a = b
      BY <2>2, <1>6
    <2> QED
      BY <2>1, <2>3, <1>1
  <1>8. IsInjective(r)
    BY <1>5, <1>7 DEF IsInjective
  <1>9. ToSet(r) = ToSet(s)
    <2>1. ASSUME NEW e \in ToSet(r) PROVE e \in ToSet(s)
      BY <1>1, <1>3, <1>4, <1>5
    <2>2. ASSUME NEW e \in ToSet(s) PROVE e \in ToSet(r)
      <3>1. PICK i \in 1..n : s[i] = e
        BY <1>1
      <3>2. r[(n - i) + 1] = e
        BY <3>1, <1>3, <1>4
      <3> QED
        BY <3>2, <1>3, <1>5
    <2> QED
      BY <2>1, <2>2
  <1>10. ASSUME NEW i \in 0..(n + 1) PROVE At(l, r, i) = At(l, s, (n - i) + 1)
    <2>1. CASE i \in 1..n
      BY <2>1, <1>3, <1>4 DEF At, n
    <2>2. CASE i \notin 1..n
      <3>1. (n - i) + 1 \notin 1..n
        BY <2>2, <1>1
      <3> QED
        BY <2>2, <3>1, <1>4 DEF At, n
    <2> QED
      BY <2>1, <2>2
  <1>11. \A i \in 0..n : i \in 0..(n + 1) /\ i + 1 \in 0..(n + 1) /\ (n - (i + 1)) + 1 = n - i
    BY <1>1
  <1>12. /\ \A i \in 0..n : At(l, r, i) = At(l, s, (n - i) + 1)
         /\ \A i \in 0..n : At(l, r, i + 1) = At(l, s, n - i)
    BY <1>10, <1>11
  <1> QED
    BY <1>4, <1>8, <1>9, <1>12 DEF n, r

(* What the loops go through: the next pointers lead through the elements  *)
(* in order, the prev pointers backwards.                                  *)
LEMMA WalkRing ==
    ASSUME NEW N, NULL \notin N, IsFiniteSet(N), NEW l \in N, NEW s \in Seq(N), NEW h \in Heap(N), Ring(h, l, s)
    PROVE  Walk(h.next, l) = s /\ Walk(h.prev, l) = Reverse(s)
  <1> DEFINE n == Len(s)
             r == Reverse(s)
  <1>1. h.next \in [N -> N \cup {NULL}] /\ h.prev \in [N -> N \cup {NULL}]
    BY DEF Heap
  <1>2. IsInjective(s) /\ l \notin ToSet(s) /\ n \in Nat
    BY ElementsSeq DEF Ring
  <1>3. Leads(h.next, l, s)
    BY DEF Leads, Ring
  <1>4. /\ r \in Seq(N) /\ Len(r) = n /\ IsInjective(r) /\ ToSet(r) = ToSet(s)
        /\ \A i \in 0..n : At(l, r, i) = At(l, s, (n - i) + 1) /\ At(l, r, i + 1) = At(l, s, n - i)
    BY <1>2, ReverseFacts
  <1>5. \A i \in 0..n : h.prev[At(l, s, i + 1)] = At(l, s, i)
    BY DEF Ring
  <1> HIDE DEF n, r
  <1>6. ASSUME NEW i \in 0..n PROVE h.prev[At(l, r, i)] = At(l, r, i + 1)
    <2>1. n - i \in 0..n
      BY <1>2
    <2> QED
      BY <2>1, <1>4, <1>5
  <1>7. Leads(h.prev, l, r)
    BY <1>2, <1>4, <1>6 DEF Leads
  <1>8. Walk(h.next, l) = s
    BY <1>1, <1>3, WalkLeads
  <1>9. Walk(h.prev, l) = r
    BY <1>1, <1>4, <1>7, WalkLeads
  <1> QED
    BY <1>8, <1>9 DEF r

(* Heaps that are the same at every node.                                  *)
LEMMA SameHeap ==
    ASSUME NEW N, NEW g \in Heap(N), NEW h \in Heap(N),
           \A x \in N : g.next[x] = h.next[x] /\ g.prev[x] = h.prev[x]
    PROVE  g = h
  <1>1. g.next = h.next
    BY DEF Heap
  <1>2. g.prev = h.prev
    BY DEF Heap
  <1> QED
    BY <1>1, <1>2 DEF Heap

\* The heap after the first k elements of a list were removed from it.
Gone(s, k) == {s[i] : i \in 1..k}
Freed(N, h, l, s, k) ==
    [next |-> [x \in N |-> IF x \in Gone(s, k) THEN NULL ELSE IF x = l THEN At(l, s, k + 1) ELSE h.next[x]],
     prev |-> [x \in N |-> IF x \in Gone(s, k) THEN NULL ELSE IF x = At(l, s, k + 1) THEN l ELSE h.prev[x]]]

(* What one turn of the loop in pfree_by_list does.                        *)
LEMMA FreeStep ==
    ASSUME NEW N, NULL \notin N, NEW l \in N, NEW s \in Seq(N), NEW h \in Heap(N), Ring(h, l, s)
    PROVE  /\ \A k \in 0..Len(s) : Freed(N, h, l, s, k) \in Heap(N)
           /\ Freed(N, h, l, s, 0) = h
           /\ \A k \in 0..Len(s) : k < Len(s) =>
                 /\ At(l, s, k + 1) # l
                 /\ Freed(N, h, l, s, k).next[At(l, s, k + 1)] = At(l, s, (k + 1) + 1)
                 /\ At(l, s, (k + 1) + 1) # NULL
                 /\ list_remove(Freed(N, h, l, s, k), At(l, s, k + 1)) = Freed(N, h, l, s, k + 1)
  <1> DEFINE n == Len(s)
             F(k) == Freed(N, h, l, s, k)
  <1>1. /\ n \in Nat
        /\ At(l, s, 0) = l /\ At(l, s, n + 1) = l
        /\ \A j \in 1..n : At(l, s, j) = s[j] /\ s[j] # l
        /\ \A j \in Nat : At(l, s, j) \in N
        /\ \A j, k \in 1..(n + 1) : At(l, s, j) = At(l, s, k) => j = k
    BY PlaceFacts DEF Ring
  <1>2. \A j \in 0..n : h.next[At(l, s, j)] = At(l, s, j + 1) /\ h.prev[At(l, s, j + 1)] = At(l, s, j)
    BY DEF Ring
  <1>3. h.next \in [N -> N \cup {NULL}] /\ h.prev \in [N -> N \cup {NULL}]
    BY DEF Heap
  <1> HIDE DEF n
  <1>4. ASSUME NEW k \in 0..n
        PROVE  /\ F(k) \in Heap(N)
               /\ \A x \in N : F(k).next[x] = IF x \in Gone(s, k) THEN NULL ELSE IF x = l THEN At(l, s, k + 1) ELSE h.next[x]
               /\ \A x \in N : F(k).prev[x] = IF x \in Gone(s, k) THEN NULL ELSE IF x = At(l, s, k + 1) THEN l ELSE h.prev[x]
    <2>1. At(l, s, k + 1) \in N
      BY <1>1
    <2> QED
      BY <2>1, <1>3 DEF Freed, Heap
  <1> HIDE DEF F
  <1>5. F(0) = h
    <2>1. Gone(s, 0) = {}
      BY DEF Gone
    <2>2. 0 \in 0..n /\ 0 + 1 = 1
      BY <1>1
    <2>3. h.next[l] = At(l, s, 1) /\ h.prev[At(l, s, 1)] = l
      BY <2>2, <1>1, <1>2
    <2>4. F(0) \in Heap(N) /\ \A x \in N : F(0).next[x] = h.next[x] /\ F(0).prev[x] = h.prev[x]
      BY <2>1, <2>2, <2>3, <1>4
    <2> QED
      BY <2>4, SameHeap
  <1>6. ASSUME NEW k \in 0..n, k < n
        PROVE  /\ At(l, s, k + 1) # l
               /\ F(k).next[At(l, s, k + 1)] = At(l, s, (k + 1) + 1)
               /\ At(l, s, (k + 1) + 1) # NULL
               /\ list_remove(F(k), At(l, s, k + 1)) = F(k + 1)
    <2> DEFINE e == At(l, s, k + 1)
               b == At(l, s, (k + 1) + 1)
               g == list_remove(F(k), e)
    <2>1. /\ k + 1 \in 1..n /\ k + 1 \in 0..n /\ (k + 1) + 1 \in Nat /\ k + 1 \in Nat
          /\ k + 1 \in 1..(n + 1) /\ (k + 1) + 1 \in 1..(n + 1) /\ (k + 1) + 1 # k + 1
      BY <1>1, <1>6
    <2>2. e \in N /\ b \in N /\ e = s[k + 1] /\ e # l /\ b # e /\ b # NULL
      BY <2>1, <1>1
    <2>3. Gone(s, k + 1) = Gone(s, k) \cup {e}
      <3>1. \A i \in 1..(k + 1) : i \in 1..k \/ i = k + 1
        BY <1>1
      <3>2. (\A i \in 1..k : i \in 1..(k + 1)) /\ k + 1 \in 1..(k + 1)
        BY <1>1
      <3> QED
        BY <2>2, <3>1, <3>2 DEF Gone
    <2>4. e \notin Gone(s, k) /\ b \notin Gone(s, k + 1) /\ l \notin Gone(s, k + 1)
      <3>1. ASSUME NEW i \in 1..k PROVE s[i] # e
        <4>1. i \in 1..n /\ i \in 1..(n + 1) /\ i # k + 1
          BY <2>1, <1>1
        <4> QED
          BY <4>1, <2>1, <1>1
      <3>2. ASSUME NEW i \in 1..(k + 1) PROVE s[i] # b /\ s[i] # l
        <4>1. i \in 1..n /\ i \in 1..(n + 1) /\ i # (k + 1) + 1
          BY <2>1, <1>1
        <4> QED
          BY <4>1, <2>1, <1>1
      <3> QED
        BY <3>1, <3>2 DEF Gone
    <2>5. h.next[e] = b /\ h.prev[e] = At(l, s, k)
      BY <2>1, <1>2
    <2> HIDE DEF e, b, g
    <2>6. F(k) \in Heap(N) /\ F(k).next[e] = b /\ F(k).prev[e] = l
      BY <2>2, <2>4, <2>5, <1>4 DEF e
    <2>7. Written(N, F(k), g, e, NULL, l, b, e, NULL, b, l)
      BY <2>2, <2>6, RemoveHeap DEF g
    <2>8. /\ g \in Heap(N)
          /\ \A x \in N : g.next[x] = IF x = e THEN NULL ELSE IF x = l THEN b ELSE F(k).next[x]
          /\ \A x \in N : g.prev[x] = IF x = e THEN NULL ELSE IF x = b THEN l ELSE F(k).prev[x]
      BY <2>7 DEF Written
    <2>9. F(k + 1) \in Heap(N)
      BY <2>1, <1>4
    <2>10. /\ \A x \in N : F(k).next[x] = IF x \in Gone(s, k) THEN NULL ELSE IF x = l THEN e ELSE h.next[x]
           /\ \A x \in N : F(k).prev[x] = IF x \in Gone(s, k) THEN NULL ELSE IF x = e THEN l ELSE h.prev[x]
      BY <1>4 DEF e
    <2>11. /\ \A x \in N : F(k + 1).next[x] = IF x \in Gone(s, k + 1) THEN NULL ELSE IF x = l THEN b ELSE h.next[x]
           /\ \A x \in N : F(k + 1).prev[x] = IF x \in Gone(s, k + 1) THEN NULL ELSE IF x = b THEN l ELSE h.prev[x]
      BY <2>1, <1>4 DEF b
    <2>12. \A x \in N : g.next[x] = F(k + 1).next[x]
      BY <2>2, <2>3, <2>4, <2>8, <2>10, <2>11
    <2>13. \A x \in N : g.prev[x] = F(k + 1).prev[x]
      BY <2>2, <2>3, <2>4, <2>8, <2>10, <2>11
    <2>14. g = F(k + 1)
      BY <2>8, <2>9, <2>12, <2>13, SameHeap
    <2> QED
      BY <2>2, <2>6, <2>14 DEF e, b, g
  <1> QED
    BY <1>4, <1>5, <1>6 DEF F, n

(* pfree_by_list empties the list and unlinks its elements (memory.c).     *)
LEMMA FreeRing ==
    ASSUME NEW N, NULL \notin N, IsFiniteSet(N), NEW l \in N, NEW s \in Seq(N), NEW h \in Heap(N), Ring(h, l, s)
    PROVE  /\ pfree_by_list(h, l) \in Heap(N)
           /\ Ring(pfree_by_list(h, l), l, <<>>)
           /\ Apart(N, h, pfree_by_list(h, l), {l} \cup ToSet(s))
           /\ \A x \in ToSet(s) : pfree_by_list(h, l).next[x] = NULL
  <1> DEFINE n == Len(s)
             F(k) == Freed(N, h, l, s, k)
  <1>4. /\ \A k \in 0..n : F(k) \in Heap(N)
        /\ F(0) = h
        /\ \A k \in 0..n : k < n =>
              /\ At(l, s, k + 1) # l
              /\ F(k).next[At(l, s, k + 1)] = At(l, s, (k + 1) + 1)
              /\ At(l, s, (k + 1) + 1) # NULL
              /\ list_remove(F(k), At(l, s, k + 1)) = F(k + 1)
    <2>1. \A k \in 0..n : F(k) \in Heap(N)
      BY FreeStep
    <2>2. F(0) = h
      BY FreeStep
    <2>3. ASSUME NEW k \in 0..n, k < n
          PROVE  /\ At(l, s, k + 1) # l
                 /\ F(k).next[At(l, s, k + 1)] = At(l, s, (k + 1) + 1)
                 /\ At(l, s, (k + 1) + 1) # NULL
                 /\ list_remove(F(k), At(l, s, k + 1)) = F(k + 1)
      BY <2>3, FreeStep
    <2> QED
      BY <2>1, <2>2, <2>3
  <1> DEFINE c == Cardinality(N)
             turn(f, k) == IF k = 0 THEN [h |-> h, elem |-> h.next[l]]
                           ELSE IF f[k - 1].elem = l \/ f[k - 1].h.next[f[k - 1].elem] = NULL THEN f[k - 1]
                           ELSE [h |-> list_remove(f[k - 1].h, f[k - 1].elem), elem |-> f[k - 1].h.next[f[k - 1].elem]]
             loop == CHOOSE f : f = [k \in 0..c |-> turn(f, k)]
             done(k) == IF k < n THEN k ELSE n
             seen == [k \in 0..c |-> [h |-> F(done(k)), elem |-> At(l, s, done(k) + 1)]]
  <1>1. /\ n \in Nat /\ c \in Nat /\ n <= c
        /\ At(l, s, n + 1) = l
    BY LengthBound, PlaceFacts DEF Ring
  <1>2. DOMAIN h.next = N
    BY DEF Heap
  <1>3. pfree_by_list(h, l) = loop[c].h
    BY <1>2 DEF pfree_by_list, LIST_FOR_EACH, pfree
  <1>5. h.next[l] = At(l, s, 1)
    BY RingFacts
  <1> HIDE DEF F, n
  <1>6. ASSUME NEW k \in 0..c PROVE seen[k] = turn(seen, k)
    <2>1. CASE k = 0
      <3>1. done(0) = 0 /\ 0 + 1 = 1
        BY <1>1
      <3> QED
        BY <2>1, <3>1, <1>4, <1>5
    <2>2. CASE k # 0
      <3>1. PICK j \in 0..c : j = k - 1 /\ j + 1 = k
        <4>1. k - 1 \in 0..c /\ (k - 1) + 1 = k
          BY <2>2, <1>1
        <4> QED
          BY <4>1
      <3>2. seen[j].h = F(done(j)) /\ seen[j].elem = At(l, s, done(j) + 1)
        OBVIOUS
      <3>3. CASE j < n
        <4>1. done(j) = j /\ done(k) = j + 1 /\ j \in 0..n
          BY <3>1, <3>3, <1>1
        <4>2. seen[j].h = F(j) /\ seen[j].elem = At(l, s, j + 1)
          BY <3>2, <4>1
        <4>3. /\ At(l, s, j + 1) # l
              /\ F(j).next[At(l, s, j + 1)] = At(l, s, (j + 1) + 1)
              /\ At(l, s, (j + 1) + 1) # NULL
              /\ list_remove(F(j), At(l, s, j + 1)) = F(j + 1)
          BY <3>3, <4>1, <1>4
        <4>4. seen[k] = [h |-> F(j + 1), elem |-> At(l, s, (j + 1) + 1)]
          BY <4>1
        <4> HIDE DEF seen
        <4>5. turn(seen, k) = [h |-> F(j + 1), elem |-> At(l, s, (j + 1) + 1)]
          BY <2>2, <3>1, <4>2, <4>3
        <4> QED
          BY <4>4, <4>5
      <3>4. CASE ~(j < n)
        <4>1. done(j) = n /\ done(k) = n
          BY <3>1, <3>4, <1>1
        <4>2. seen[j].elem = l /\ seen[k] = seen[j]
          BY <3>2, <4>1, <1>1
        <4> HIDE DEF seen
        <4>3. turn(seen, k) = seen[j]
          BY <2>2, <3>1, <4>2
        <4> QED
          BY <4>2, <4>3
      <3> QED
        BY <3>3, <3>4
    <2> QED
      BY <2>1, <2>2
  <1> HIDE DEF turn
  <1>7. seen = [k \in 0..c |-> turn(seen, k)]
    BY <1>6
  <1>8. loop = [k \in 0..c |-> turn(loop, k)]
    BY <1>7
  <1>9. \A k \in 0..c : loop[k] = turn(loop, k) /\ seen[k] = turn(seen, k)
    BY <1>7, <1>8
  <1> HIDE DEF loop, seen
  <1> DEFINE P == {k \in Nat : k <= c => loop[k] = seen[k]}
  <1>10. 0 \in P
    <2>1. 0 \in 0..c
      BY <1>1
    <2>2. turn(loop, 0) = turn(seen, 0)
      BY DEF turn
    <2> QED
      BY <2>1, <2>2, <1>9
  <1>11. ASSUME NEW k \in P PROVE k + 1 \in P
    <2> SUFFICES ASSUME k + 1 <= c PROVE loop[k + 1] = seen[k + 1]
      OBVIOUS
    <2>1. k + 1 \in 0..c /\ (k + 1) - 1 = k /\ k + 1 # 0 /\ k <= c
      BY <1>1
    <2>2. loop[k] = seen[k]
      BY <2>1
    <2>3. turn(loop, k + 1) = turn(seen, k + 1)
      BY <2>1, <2>2 DEF turn
    <2> QED
      BY <2>1, <2>3, <1>9
  <1>12. P = Nat
    <2>1. P \in SUBSET Nat
      OBVIOUS
    <2> HIDE DEF P
    <2> QED
      BY <2>1, <1>10, <1>11, SetInduction
  <1>13. loop[c] = seen[c] /\ done(c) = n
    BY <1>1, <1>12
  <1> DEFINE g == F(n)
  <1>14. pfree_by_list(h, l) = g
    <2>1. c \in 0..c
      BY <1>1
    <2> QED
      BY <2>1, <1>3, <1>13 DEF seen
  <1>15. Gone(s, n) = ToSet(s) /\ l \notin ToSet(s)
    <2>1. \A x : x \in ToSet(s) <=> \E i \in 1..n : s[i] = x
      BY ElementsSeq DEF n
    <2> QED
      BY <2>1 DEF Gone, Ring
  <1>16. /\ g \in Heap(N)
         /\ \A x \in N : g.next[x] = IF x \in ToSet(s) THEN NULL ELSE IF x = l THEN l ELSE h.next[x]
         /\ \A x \in N : g.prev[x] = IF x \in ToSet(s) THEN NULL ELSE IF x = l THEN l ELSE h.prev[x]
    <2>1. n \in 0..n
      BY <1>1
    <2>2. g \in Heap(N)
      BY <2>1, <1>4
    <2> QED
      BY <2>2, <1>1, <1>15 DEF F, Freed
  <1> HIDE DEF g
  <1>17. /\ \A x \in N \ ({l} \cup ToSet(s)) : g.next[x] = h.next[x] /\ g.prev[x] = h.prev[x]
         /\ g.next[l] = l /\ g.prev[l] = l
         /\ \A x \in ToSet(s) : g.next[x] = NULL
    BY <1>15, <1>16, ElementsSeq
  <1>18. Ring(g, l, <<>>)
    <2>1. IsInjective(<<>>) /\ ToSet(<<>>) = {} /\ Len(<<>>) = 0
      BY EmptyList
    <2>2. \A i : At(l, <<>>, i) = l
      BY <2>1 DEF At
    <2> QED
      BY <2>1, <2>2, <1>17 DEF Ring
  <1> QED
    BY <1>14, <1>16, <1>17, <1>18 DEF Apart

----------------------------------------------------------------------------
(* The lists of the kernel                                                 *)

NextNodes == {next(t) : t \in Task}
WaitNodes == {waitqueue_next(t) : t \in Task}
LinkNodes == {link(p) : p \in Page}

(* Different fields are different nodes.                                   *)
LEMMA NodeFacts ==
    /\ Node = Headers \cup NextNodes \cup WaitNodes \cup LinkNodes
    /\ Headers \cap (NextNodes \cup WaitNodes \cup LinkNodes) = {}
    /\ NextNodes \cap WaitNodes = {} /\ NextNodes \cap LinkNodes = {} /\ WaitNodes \cap LinkNodes = {}
    /\ \A t : next(t)[2] = t /\ waitqueue_next(t)[2] = t /\ link(t)[2] = t
    /\ \A t, u : senders(t) # pages(u) /\ senders(t) # runqueue /\ pages(t) # runqueue
    /\ \A t, u : (senders(t) = senders(u) => t = u) /\ (pages(t) = pages(u) => t = u)
    /\ \A t \in Task : senders(t) \in Headers /\ pages(t) \in Headers
    /\ runqueue \in Headers
    /\ \A t \in Task : next(t) \in Node /\ waitqueue_next(t) \in Node
    /\ \A p \in Page : link(p) \in Node
    /\ Headers \subseteq Node
  <1>1. Node = Headers \cup NextNodes \cup WaitNodes \cup LinkNodes
    BY DEF Node, NextNodes, WaitNodes, LinkNodes
  <1>2. \A t, u : /\ next(t) # waitqueue_next(u) /\ next(t) # link(u) /\ waitqueue_next(t) # link(u)
                  /\ senders(t) # pages(u) /\ senders(t) # runqueue /\ pages(t) # runqueue
                  /\ senders(t) # next(u) /\ senders(t) # waitqueue_next(u) /\ senders(t) # link(u)
                  /\ pages(t) # next(u) /\ pages(t) # waitqueue_next(u) /\ pages(t) # link(u)
                  /\ runqueue # next(u) /\ runqueue # waitqueue_next(u) /\ runqueue # link(u)
    BY DEF next, waitqueue_next, link, senders, pages, runqueue
  <1>3. \A t : next(t)[2] = t /\ waitqueue_next(t)[2] = t /\ link(t)[2] = t /\ senders(t)[2] = t /\ pages(t)[2] = t
    BY DEF next, waitqueue_next, link, senders, pages
  <1>4. Headers \cap (NextNodes \cup WaitNodes \cup LinkNodes) = {}
    BY <1>2 DEF Headers, NextNodes, WaitNodes, LinkNodes
  <1>5. NextNodes \cap WaitNodes = {} /\ NextNodes \cap LinkNodes = {} /\ WaitNodes \cap LinkNodes = {}
    BY <1>2 DEF NextNodes, WaitNodes, LinkNodes
  <1>6. \A t, u : (senders(t) = senders(u) => t = u) /\ (pages(t) = pages(u) => t = u)
    BY <1>3
  <1>7. /\ \A t \in Task : senders(t) \in Headers /\ pages(t) \in Headers
        /\ runqueue \in Headers
    BY DEF Headers
  <1>8. /\ \A t \in Task : next(t) \in Node /\ waitqueue_next(t) \in Node
        /\ \A p \in Page : link(p) \in Node
        /\ Headers \subseteq Node
    BY DEF Node
  <1> QED
    BY <1>1, <1>2, <1>3, <1>4, <1>5, <1>6, <1>7, <1>8

(* There are finitely many nodes, so that the loops end.                   *)
LEMMA NodesFinite ==
    IsFiniteSet(Node)
  <1>1. IsFiniteSet(Task) /\ IsFiniteSet(Page)
    BY SwitchAssumption, FS_Interval DEF Task, Page
  <1>2. IsFiniteSet({next(t) : t \in Task})
    <2> DEFINE f == [t \in Task |-> next(t)]
    <2>1. f \in Surjection(Task, {next(t) : t \in Task})
      BY DEF Surjection
    <2> QED
      BY <1>1, <2>1, FS_Surjection
  <1>3. IsFiniteSet({waitqueue_next(t) : t \in Task})
    <2> DEFINE f == [t \in Task |-> waitqueue_next(t)]
    <2>1. f \in Surjection(Task, {waitqueue_next(t) : t \in Task})
      BY DEF Surjection
    <2> QED
      BY <1>1, <2>1, FS_Surjection
  <1>4. IsFiniteSet({senders(t) : t \in Task})
    <2> DEFINE f == [t \in Task |-> senders(t)]
    <2>1. f \in Surjection(Task, {senders(t) : t \in Task})
      BY DEF Surjection
    <2> QED
      BY <1>1, <2>1, FS_Surjection
  <1>5. IsFiniteSet({pages(t) : t \in Task})
    <2> DEFINE f == [t \in Task |-> pages(t)]
    <2>1. f \in Surjection(Task, {pages(t) : t \in Task})
      BY DEF Surjection
    <2> QED
      BY <1>1, <2>1, FS_Surjection
  <1>6. IsFiniteSet({link(p) : p \in Page})
    <2> DEFINE f == [p \in Page |-> link(p)]
    <2>1. f \in Surjection(Page, {link(p) : p \in Page})
      BY DEF Surjection
    <2> QED
      BY <1>1, <2>1, FS_Surjection
  <1>7. IsFiniteSet({runqueue})
    BY FS_Singleton
  <1>8. IsFiniteSet(Headers)
    BY <1>4, <1>5, <1>7, FS_Union DEF Headers
  <1> QED
    BY <1>2, <1>3, <1>6, <1>8, FS_Union DEF Node

----------------------------------------------------------------------------
(* The lists of the kernel                                                 *)

\* The nodes that a list may hold.
Kind(l) == IF l = runqueue THEN NextNodes ELSE IF \E t \in Task : l = senders(t) THEN WaitNodes ELSE LinkNodes

\* Each list that was set up is a ring, of nodes that are in no other; and a waitqueue_next or
\* a link that is linked is in one.
Lists(h, L) ==
    /\ h \in Heap(Node) /\ L \in [Headers -> Seq(Node)]
    /\ \A l \in Headers : ToSet(L[l]) \subseteq Kind(l)
    /\ \A l \in Headers : list_is_linked(h, l) => Ring(h, l, L[l])
    /\ \A l \in Headers : ~list_is_linked(h, l) => L[l] = <<>>
    /\ \A l, k \in Headers : l # k => ToSet(L[l]) \cap ToSet(L[k]) = {}
    /\ \A x \in WaitNodes \cup LinkNodes : list_is_linked(h, x) => \E l \in Headers : x \in ToSet(L[l])

\* The lists that are set up in g are those of h and l.
SetUp(h, g, l) == \A k \in Headers : list_is_linked(g, k) <=> k = l \/ list_is_linked(h, k)

(* The kinds are no headers, and the kind of each header.                  *)
LEMMA KindFacts ==
    /\ \A l \in Headers : Kind(l) \subseteq Node \ Headers
    /\ Kind(runqueue) = NextNodes
    /\ \A t \in Task : Kind(senders(t)) = WaitNodes /\ Kind(pages(t)) = LinkNodes
    /\ NULL \notin Node /\ IsFiniteSet(Node)
  <1>1. \A l \in Headers : Kind(l) \subseteq Node \ Headers
    BY NodeFacts DEF Kind
  <1>2. Kind(runqueue) = NextNodes
    BY DEF Kind
  <1>3. \A t \in Task : Kind(senders(t)) = WaitNodes /\ Kind(pages(t)) = LinkNodes
    BY NodeFacts DEF Kind
  <1> QED
    BY <1>1, <1>2, <1>3, NodesFinite, SwitchAssumption

(* One list changes: only its nodes are written, what it gains is in no    *)
(* other list, and what it loses is unlinked.                              *)
LEMMA ListsChange ==
    ASSUME NEW h, NEW L, Lists(h, L), NEW l \in Headers, NEW g \in Heap(Node), NEW s \in Seq(Node),
           ToSet(s) \subseteq Kind(l), Ring(g, l, s),
           Apart(Node, h, g, {l} \cup ToSet(L[l]) \cup ToSet(s)),
           \A k \in Headers \ {l} : ToSet(s) \cap ToSet(L[k]) = {},
           \A x \in ToSet(L[l]) \ ToSet(s) : x \in NextNodes \/ g.next[x] = NULL
    PROVE  Lists(g, [L EXCEPT ![l] = s]) /\ SetUp(h, g, l)
  <1> DEFINE M == [L EXCEPT ![l] = s]
             X == {l} \cup ToSet(L[l]) \cup ToSet(s)
  <1>1. /\ L \in [Headers -> Seq(Node)] /\ h \in Heap(Node)
        /\ \A k \in Headers : ToSet(L[k]) \subseteq Kind(k) /\ Kind(k) \cap Headers = {}
        /\ \A k, m \in Headers : k # m => ToSet(L[k]) \cap ToSet(L[m]) = {}
        /\ Headers \subseteq Node /\ NULL \notin Node
    BY KindFacts, NodeFacts DEF Lists
  <1>2. M \in [Headers -> Seq(Node)] /\ M[l] = s /\ \A k \in Headers \ {l} : M[k] = L[k]
    BY <1>1
  <1> HIDE DEF M
  <1>3. \A x \in Node \ X : g.next[x] = h.next[x] /\ g.prev[x] = h.prev[x]
    BY DEF Apart
  <1>4. \A k \in Headers \ {l} : k \notin X /\ \A x \in ToSet(L[k]) : x \notin X
    BY <1>1
  <1>5. ASSUME NEW k \in Headers \ {l} PROVE list_is_linked(g, k) <=> list_is_linked(h, k)
    BY <1>1, <1>3, <1>4 DEF list_is_linked
  <1>6. list_is_linked(g, l)
    <2>1. g.next[l] # NULL
      BY <1>1, RingFacts
    <2> QED
      BY <2>1 DEF list_is_linked
  <1>7. ASSUME NEW k \in Headers \ {l}, list_is_linked(g, k) PROVE Ring(g, k, M[k])
    <2>1. Ring(h, k, L[k])
      BY <1>5, <1>7 DEF Lists
    <2>2. L[k] \in Seq(Node) /\ k \in Node
      BY <1>1
    <2>3. ToSet(L[k]) \subseteq Node
      BY <2>2, ElementsSeq
    <2>4. \A x \in {k} \cup ToSet(L[k]) : g.next[x] = h.next[x] /\ g.prev[x] = h.prev[x]
      BY <1>3, <1>4, <2>2, <2>3
    <2>5. Ring(g, k, L[k])
      BY <2>1, <2>2, <2>4, RingSame
    <2> QED
      BY <1>2, <2>5
  <1>8. \A k \in Headers : ToSet(M[k]) \subseteq Kind(k)
    BY <1>1, <1>2
  <1>9. \A k \in Headers : list_is_linked(g, k) => Ring(g, k, M[k])
    BY <1>2, <1>7
  <1>10. \A k \in Headers : ~list_is_linked(g, k) => M[k] = <<>>
    BY <1>2, <1>5, <1>6 DEF Lists
  <1>11. \A k, m \in Headers : k # m => ToSet(M[k]) \cap ToSet(M[m]) = {}
    <2> SUFFICES ASSUME NEW k \in Headers, NEW m \in Headers, k # m PROVE ToSet(M[k]) \cap ToSet(M[m]) = {}
      OBVIOUS
    <2>1. CASE k = l
      BY <2>1, <1>2
    <2>2. CASE m = l
      BY <2>2, <1>2
    <2>3. CASE k # l /\ m # l
      BY <2>3, <1>1, <1>2
    <2> QED
      BY <2>1, <2>2, <2>3
  <1>12. ASSUME NEW x \in WaitNodes \cup LinkNodes, list_is_linked(g, x)
         PROVE  \E k \in Headers : x \in ToSet(M[k])
    <2>1. x \in Node /\ x \notin NextNodes /\ x \notin Headers
      BY NodeFacts
    <2>2. CASE x \in ToSet(s)
      BY <2>2, <1>2
    <2>3. CASE x \notin ToSet(s)
      <3>1. x \notin ToSet(L[l])
        BY <2>1, <2>3, <1>12 DEF list_is_linked
      <3>2. list_is_linked(h, x)
        BY <2>1, <2>3, <3>1, <1>3, <1>12 DEF list_is_linked
      <3>3. PICK k \in Headers : x \in ToSet(L[k])
        BY <3>2 DEF Lists
      <3> QED
        BY <3>1, <3>3, <1>2
    <2> QED
      BY <2>2, <2>3
  <1>13. Lists(g, M)
    BY <1>2, <1>8, <1>9, <1>10, <1>11, <1>12 DEF Lists
  <1>14. SetUp(h, g, l)
    BY <1>5, <1>6 DEF SetUp
  <1> QED
    BY <1>13, <1>14 DEF M

\* The same lists are set up.
AsBefore(h, g) == \A k \in Headers : list_is_linked(g, k) <=> list_is_linked(h, k)

\* The node e is in no list.
Absent(L, e) == \A k \in Headers : e \notin ToSet(L[k])

(* A node that is not linked is in no list.                                *)
LEMMA UnlinkedAbsent ==
    ASSUME NEW h, NEW L, Lists(h, L), NEW e, ~list_is_linked(h, e)
    PROVE  Absent(L, e)
  <1> SUFFICES ASSUME NEW k \in Headers, e \in ToSet(L[k]) PROVE FALSE
    BY DEF Absent
  <1>1. k \in Node /\ L[k] \in Seq(Node) /\ NULL \notin Node
    BY KindFacts, NodeFacts DEF Lists
  <1>2. L[k] # <<>>
    BY EmptyList
  <1>3. Ring(h, k, L[k])
    BY <1>2 DEF Lists
  <1>4. \A x \in {k} \cup ToSet(L[k]) : h.next[x] # NULL
    BY <1>1, <1>3, RingFacts
  <1> QED
    BY <1>4 DEF list_is_linked

\* What the push of e does to the lists.
Pushed(h, L, l, e) ==
    LET g == list_push_back(h, l, e)
        M == [L EXCEPT ![l] = Append(L[l], e)]
    IN /\ Lists(g, M) /\ AsBefore(h, g)
       /\ M[l] = Append(L[l], e) /\ ToSet(M[l]) = ToSet(L[l]) \cup {e}
       /\ \A k \in Headers \ {l} : M[k] = L[k]

(* list_push_back of an element that is in no list.                        *)
LEMMA PushList ==
    ASSUME NEW h, NEW L, Lists(h, L), NEW l \in Headers, list_is_linked(h, l),
           NEW e \in Kind(l), Absent(L, e)
    PROVE  Pushed(h, L, l, e)
  <1> DEFINE g == list_push_back(h, l, e)
             s == Append(L[l], e)
  <1>1. /\ h \in Heap(Node) /\ L[l] \in Seq(Node) /\ Ring(h, l, L[l]) /\ IsInjective(L[l])
        /\ l \in Node /\ e \in Node /\ e # l /\ NULL \notin Node /\ e \notin ToSet(L[l])
    <2>1. h \in Heap(Node) /\ L[l] \in Seq(Node) /\ Ring(h, l, L[l])
      BY DEF Lists
    <2>2. l \in Node /\ e \in Node /\ e # l /\ NULL \notin Node
      BY KindFacts, NodeFacts
    <2>3. e \notin ToSet(L[l])
      BY DEF Absent
    <2> QED
      BY <2>1, <2>2, <2>3 DEF Ring
  <1>2. g \in Heap(Node) /\ Ring(g, l, s) /\ Apart(Node, h, g, {l, e} \cup ToSet(L[l]))
    BY <1>1, PushRing
  <1>3. s \in Seq(Node) /\ ToSet(s) = ToSet(L[l]) \cup {e}
    BY <1>1, PushSeq
  <1> HIDE DEF g, s
  <1>4. Apart(Node, h, g, {l} \cup ToSet(L[l]) \cup ToSet(s))
    BY <1>2, <1>3 DEF Apart
  <1>5. ToSet(s) \subseteq Kind(l) /\ \A k \in Headers \ {l} : ToSet(s) \cap ToSet(L[k]) = {}
    BY <1>3 DEF Lists, Absent
  <1>6. ToSet(L[l]) \ ToSet(s) = {}
    BY <1>3
  <1>7. Lists(g, [L EXCEPT ![l] = s]) /\ SetUp(h, g, l)
    BY <1>2, <1>3, <1>4, <1>5, <1>6, ListsChange
  <1>8. AsBefore(h, g)
    BY <1>7 DEF AsBefore, SetUp
  <1> DEFINE M == [L EXCEPT ![l] = s]
  <1>9. L \in [Headers -> Seq(Node)]
    BY DEF Lists
  <1>10. M[l] = s /\ \A k \in Headers \ {l} : M[k] = L[k]
    BY <1>9
  <1> QED
    BY <1>3, <1>7, <1>8, <1>10 DEF Pushed, g, s

(* list_pop_tail of the run queue.                                         *)
LEMMA PopList ==
    ASSUME NEW h, NEW L, Lists(h, L), list_is_linked(h, runqueue), L[runqueue] # <<>>
    PROVE  /\ Lists(list_pop_tail(h, runqueue), [L EXCEPT ![runqueue] = Front(L[runqueue])])
           /\ AsBefore(h, list_pop_tail(h, runqueue))
           /\ ToSet(Front(L[runqueue])) = ToSet(L[runqueue]) \ {Last(L[runqueue])}
           /\ Last(L[runqueue]) \in ToSet(L[runqueue])
           /\ list_tail(h, runqueue) = Last(L[runqueue])
  <1> DEFINE l == runqueue
             g == list_pop_tail(h, l)
             s == Front(L[l])
  <1>1. /\ h \in Heap(Node) /\ L[l] \in Seq(Node) /\ Ring(h, l, L[l]) /\ IsInjective(L[l])
        /\ l \in Node /\ l \in Headers /\ NULL \notin Node /\ ToSet(L[l]) \subseteq NextNodes
    BY KindFacts, NodeFacts DEF Lists, Ring
  <1>2. g \in Heap(Node) /\ Ring(g, l, s) /\ Apart(Node, h, g, {l} \cup ToSet(L[l]))
    BY <1>1, PopRing
  <1>3. s \in Seq(Node) /\ ToSet(s) = ToSet(L[l]) \ {Last(L[l])} /\ Last(L[l]) \in ToSet(L[l])
    BY <1>1, PopSeq
  <1>4. list_tail(h, l) = Last(L[l])
    BY <1>1, RingFacts DEF Last
  <1> HIDE DEF g, s, l
  <1>5. {l} \cup ToSet(L[l]) \cup ToSet(s) = {l} \cup ToSet(L[l])
    BY <1>3
  <1>6. Apart(Node, h, g, {l} \cup ToSet(L[l]) \cup ToSet(s))
    BY <1>2, <1>5
  <1>7. ToSet(s) \subseteq Kind(l) /\ \A k \in Headers \ {l} : ToSet(s) \cap ToSet(L[k]) = {}
    BY <1>1, <1>3 DEF Lists
  <1>8. \A x \in ToSet(L[l]) \ ToSet(s) : x \in NextNodes
    BY <1>1
  <1>9. Lists(g, [L EXCEPT ![l] = s]) /\ SetUp(h, g, l)
    BY <1>1, <1>2, <1>3, <1>6, <1>7, <1>8, ListsChange
  <1>10. AsBefore(h, g)
    BY <1>9 DEF AsBefore, SetUp, l
  <1> QED
    BY <1>3, <1>4, <1>9, <1>10 DEF g, s, l

(* list_remove of the element at place i of a list.                        *)
LEMMA RemoveList ==
    ASSUME NEW h, NEW L, Lists(h, L), NEW l \in Headers, list_is_linked(h, l), NEW i \in 1..Len(L[l])
    PROVE  /\ Lists(list_remove(h, L[l][i]), [L EXCEPT ![l] = RemoveAt(L[l], i)])
           /\ AsBefore(h, list_remove(h, L[l][i]))
           /\ ToSet(RemoveAt(L[l], i)) = ToSet(L[l]) \ {L[l][i]}
  <1> DEFINE e == L[l][i]
             g == list_remove(h, e)
             s == RemoveAt(L[l], i)
  <1>1. /\ h \in Heap(Node) /\ L[l] \in Seq(Node) /\ Ring(h, l, L[l]) /\ IsInjective(L[l])
        /\ l \in Node /\ NULL \notin Node /\ ToSet(L[l]) \subseteq Kind(l)
    BY KindFacts, NodeFacts DEF Lists, Ring
  <1>2. g \in Heap(Node) /\ Ring(g, l, s) /\ Apart(Node, h, g, {l} \cup ToSet(L[l])) /\ g.next[e] = NULL
    BY <1>1, RemoveRing
  <1>3. s \in Seq(Node) /\ ToSet(s) = ToSet(L[l]) \ {e}
    BY <1>1, RemoveSeq, ElementsSeq
  <1> HIDE DEF g, s, e
  <1>4. {l} \cup ToSet(L[l]) \cup ToSet(s) = {l} \cup ToSet(L[l])
    BY <1>3
  <1>5. Apart(Node, h, g, {l} \cup ToSet(L[l]) \cup ToSet(s))
    BY <1>2, <1>4
  <1>6. ToSet(s) \subseteq Kind(l) /\ \A k \in Headers \ {l} : ToSet(s) \cap ToSet(L[k]) = {}
    BY <1>1, <1>3 DEF Lists
  <1>7. \A x \in ToSet(L[l]) \ ToSet(s) : g.next[x] = NULL
    BY <1>2, <1>3
  <1>8. Lists(g, [L EXCEPT ![l] = s]) /\ SetUp(h, g, l)
    BY <1>1, <1>2, <1>3, <1>5, <1>6, <1>7, ListsChange
  <1>9. AsBefore(h, g)
    BY <1>8 DEF AsBefore, SetUp
  <1> QED
    BY <1>3, <1>8, <1>9 DEF g, s, e

(* pfree_by_list.                                                          *)
LEMMA FreeList ==
    ASSUME NEW h, NEW L, Lists(h, L), NEW l \in Headers, list_is_linked(h, l)
    PROVE  /\ Lists(pfree_by_list(h, l), [L EXCEPT ![l] = <<>>])
           /\ AsBefore(h, pfree_by_list(h, l))
  <1> DEFINE g == pfree_by_list(h, l)
             s == <<>>
  <1>1. /\ h \in Heap(Node) /\ L[l] \in Seq(Node) /\ Ring(h, l, L[l])
        /\ l \in Node /\ NULL \notin Node /\ IsFiniteSet(Node)
    BY KindFacts, NodeFacts DEF Lists
  <1>2. /\ g \in Heap(Node) /\ Ring(g, l, s) /\ Apart(Node, h, g, {l} \cup ToSet(L[l]))
        /\ \A x \in ToSet(L[l]) : g.next[x] = NULL
    BY <1>1, FreeRing
  <1>3. s \in Seq(Node) /\ ToSet(s) = {}
    BY EmptyList
  <1> HIDE DEF g, s
  <1>4. {l} \cup ToSet(L[l]) \cup ToSet(s) = {l} \cup ToSet(L[l])
    BY <1>3
  <1>5. Apart(Node, h, g, {l} \cup ToSet(L[l]) \cup ToSet(s))
    BY <1>2, <1>4
  <1>6. Lists(g, [L EXCEPT ![l] = s]) /\ SetUp(h, g, l)
    BY <1>1, <1>2, <1>3, <1>5, ListsChange
  <1>7. AsBefore(h, g)
    BY <1>6 DEF AsBefore, SetUp
  <1> QED
    BY <1>6, <1>7 DEF g, s

(* LIST_INIT of a list that has no elements.                               *)
LEMMA InitList ==
    ASSUME NEW h, NEW L, Lists(h, L), NEW l \in Headers, L[l] = <<>>
    PROVE  Lists(LIST_INIT(h, l), L) /\ SetUp(h, LIST_INIT(h, l), l)
  <1> DEFINE g == LIST_INIT(h, l)
             s == <<>>
  <1>1. h \in Heap(Node) /\ l \in Node /\ L \in [Headers -> Seq(Node)]
    BY NodeFacts DEF Lists
  <1>2. g \in Heap(Node) /\ Ring(g, l, s) /\ Apart(Node, h, g, {l})
    BY <1>1, EmptyRing
  <1>3. s \in Seq(Node) /\ ToSet(s) = {}
    BY EmptyList
  <1>4. L[l] = s /\ [L EXCEPT ![l] = s] = L
    BY <1>1
  <1> HIDE DEF g, s
  <1>5. {l} \cup ToSet(L[l]) \cup ToSet(s) = {l}
    BY <1>3, <1>4
  <1>6. Apart(Node, h, g, {l} \cup ToSet(L[l]) \cup ToSet(s))
    BY <1>2, <1>5
  <1>7. Lists(g, [L EXCEPT ![l] = s]) /\ SetUp(h, g, l)
    BY <1>2, <1>3, <1>4, <1>6, ListsChange
  <1> QED
    BY <1>4, <1>7 DEF g

(* list_elem_init of an element that is in no list.                        *)
LEMMA ClearList ==
    ASSUME NEW h, NEW L, Lists(h, L), NEW e \in Node \ Headers, Absent(L, e)
    PROVE  Lists(list_elem_init(h, e), L) /\ AsBefore(h, list_elem_init(h, e))
  <1> DEFINE g == list_elem_init(h, e)
  <1>1. /\ h \in Heap(Node) /\ L \in [Headers -> Seq(Node)]
        /\ Headers \subseteq Node
    BY NodeFacts DEF Lists
  <1>2. g \in Heap(Node) /\ Apart(Node, h, g, {e}) /\ g.next[e] = NULL
    BY <1>1, ClearNode
  <1> HIDE DEF g
  <1>3. \A x \in Node \ {e} : g.next[x] = h.next[x] /\ g.prev[x] = h.prev[x]
    BY <1>2 DEF Apart
  <1>4. AsBefore(h, g)
    BY <1>1, <1>3 DEF AsBefore, list_is_linked
  <1>5. ASSUME NEW k \in Headers, list_is_linked(g, k) PROVE Ring(g, k, L[k])
    <2>1. Ring(h, k, L[k]) /\ L[k] \in Seq(Node) /\ k \in Node
      BY <1>1, <1>4, <1>5 DEF Lists, AsBefore
    <2>2. \A x \in {k} \cup ToSet(L[k]) : x \in Node \ {e}
      BY <2>1, ElementsSeq DEF Absent
    <2> QED
      BY <2>1, <2>2, <1>3, RingSame
  <1>6. \A k \in Headers : ~list_is_linked(g, k) => L[k] = <<>>
    BY <1>4 DEF Lists, AsBefore
  <1>7. \A x \in WaitNodes \cup LinkNodes : list_is_linked(g, x) => \E k \in Headers : x \in ToSet(L[k])
    <2>1. \A x \in WaitNodes \cup LinkNodes : x \in Node
      BY NodeFacts
    <2> QED
      BY <2>1, <1>2, <1>3 DEF Lists, list_is_linked
  <1>8. Lists(g, L)
    BY <1>2, <1>5, <1>6, <1>7 DEF Lists
  <1> QED
    BY <1>4, <1>8 DEF g

----------------------------------------------------------------------------
(* The inductive invariant                                                 *)

\* The states s of the tasks, with x those that have exited, fit the lists L of the heap h.
Fits(h, L, s, x) ==
    /\ s \in [Task -> {"unused", "runnable", "blocked"}] /\ x \subseteq Task
    /\ s[Idle] = "runnable" /\ Idle \notin x
    /\ list_is_linked(h, runqueue) /\ list_is_linked(h, pages(Idle))
    /\ \A t \in Task \ {Idle} : s[t] # "unused" => list_is_linked(h, senders(t)) /\ list_is_linked(h, pages(t))
    /\ \A t \in Task : s[t] = "unused" \/ t \in x => L[senders(t)] = <<>>
    /\ \A t \in Task : s[t] = "unused" => L[pages(t)] = <<>>
    /\ \A t \in Task : next(t) \in ToSet(L[runqueue]) => s[t] = "runnable" /\ t \notin x
    /\ \A t, d \in Task : waitqueue_next(t) \in ToSet(L[senders(d)]) => s[t] = "blocked"
    /\ \A t \in x : s[t] = "runnable"

\* Task c does not wait for the CPU.
Off(L, c) == c \in Task /\ next(c) \notin ToSet(L[runqueue])

\* L are the lists of the heap h, for tasks in the states s, x of them exited, with c on the CPU.
Kernel(h, L, s, x, c) == Lists(h, L) /\ Fits(h, L, s, x) /\ Off(L, c) /\ s[c] = "runnable"

KernelInv == \E L : Kernel(links, L, state, exited, current)

\* L with e at the end of l, without the element at place i of l, and with l empty.
Behind(L, l, e)  == [L EXCEPT ![l] = Append(L[l], e)]
Lacking(L, l, i) == [L EXCEPT ![l] = RemoveAt(L[l], i)]
Emptied(L, l)    == [L EXCEPT ![l] = <<>>]

\* The lists after task_switch, and who has the CPU.
Taken(L) == IF L[runqueue] = <<>> THEN L ELSE [L EXCEPT ![runqueue] = Front(L[runqueue])]
Chosen(L, s, c) ==
    IF L[runqueue] # <<>> THEN container(Last(L[runqueue])) ELSE IF s[c] = "runnable" THEN c ELSE Idle

(* What the state of a task says of the lists its nodes are in.            *)
LEMMA FitsFacts ==
    ASSUME NEW h, NEW L, NEW s, NEW x, Lists(h, L), Fits(h, L, s, x)
    PROVE  /\ Idle \in Task
           /\ \A t \in Task : s[t] # "blocked" => Absent(L, waitqueue_next(t))
           /\ \A t \in Task : s[t] # "runnable" => Absent(L, next(t))
           /\ \A c \in Task : Off(L, c) => Absent(L, next(c))
           /\ \A p \in Page : ~list_is_linked(h, link(p)) => Absent(L, link(p))
           /\ \A t \in Task : s[t] # "unused" => list_is_linked(h, pages(t))
           /\ \A e \in ToSet(L[runqueue]) : e[2] \in Task /\ next(e[2]) = e
           /\ \A d \in Task : \A e \in ToSet(L[senders(d)]) : e[2] \in Task /\ waitqueue_next(e[2]) = e
  <1>1. \A l \in Headers : ToSet(L[l]) \subseteq Kind(l)
    BY DEF Lists
  <1>2. \A l \in Headers : l = runqueue \/ (\E t \in Task : l = senders(t)) \/ Kind(l) = LinkNodes
    BY DEF Kind
  <1>3. \A e \in NextNodes : e[2] \in Task /\ next(e[2]) = e
    BY NodeFacts DEF NextNodes
  <1>4. \A e \in WaitNodes : e[2] \in Task /\ waitqueue_next(e[2]) = e
    BY NodeFacts DEF WaitNodes
  <1>5. \A t \in Task : next(t) \in NextNodes /\ waitqueue_next(t) \in WaitNodes
    BY DEF NextNodes, WaitNodes
  <1>6. Idle \in Task
    BY SwitchAssumption DEF Idle, Task
  <1>7. ASSUME NEW t \in Task, s[t] # "blocked", NEW k \in Headers PROVE waitqueue_next(t) \notin ToSet(L[k])
    <2>1. CASE k = runqueue
      BY <2>1, <1>1, <1>5, KindFacts, NodeFacts
    <2>2. CASE \E d \in Task : k = senders(d)
      BY <2>2, <1>7 DEF Fits
    <2>3. CASE Kind(k) = LinkNodes
      BY <2>3, <1>1, <1>5, NodeFacts
    <2> QED
      BY <2>1, <2>2, <2>3, <1>2
  <1>8. ASSUME NEW t \in Task, next(t) \notin ToSet(L[runqueue]), NEW k \in Headers PROVE next(t) \notin ToSet(L[k])
    <2>1. CASE k = runqueue
      BY <2>1, <1>8
    <2>2. CASE \E d \in Task : k = senders(d)
      BY <2>2, <1>1, <1>5, KindFacts, NodeFacts
    <2>3. CASE Kind(k) = LinkNodes
      BY <2>3, <1>1, <1>5, NodeFacts
    <2> QED
      BY <2>1, <2>2, <2>3, <1>2
  <1>9. \A t \in Task : s[t] # "runnable" => \A k \in Headers : next(t) \notin ToSet(L[k])
    BY <1>8 DEF Fits
  <1>10. \A c \in Task : Off(L, c) => \A k \in Headers : next(c) \notin ToSet(L[k])
    BY <1>8 DEF Off
  <1>11. \A p \in Page : ~list_is_linked(h, link(p)) => Absent(L, link(p))
    BY UnlinkedAbsent
  <1>12. \A t \in Task : s[t] # "unused" => list_is_linked(h, pages(t))
    BY DEF Fits
  <1>13. \A e \in ToSet(L[runqueue]) : e[2] \in Task /\ next(e[2]) = e
    BY <1>1, <1>3, KindFacts, NodeFacts
  <1>14. \A d \in Task : \A e \in ToSet(L[senders(d)]) : e[2] \in Task /\ waitqueue_next(e[2]) = e
    BY <1>1, <1>4, KindFacts, NodeFacts
  <1> QED
    BY <1>6, <1>7, <1>9, <1>10, <1>11, <1>12, <1>13, <1>14 DEF Absent

(* task_switch takes the CPU from a task that does not wait for it and     *)
(* gives it to a runnable one that no longer does.                         *)
LEMMA SwitchTakes ==
    ASSUME NEW STATE h, NEW L, NEW STATE s, Lists(h, L), Fits(h, L, s, exited'), Off(L, current), task_switch(h, s)
    PROVE  Kernel(links', Taken(L), state', exited', current') /\ current' = Chosen(L, s, current)
  <1> DEFINE q == L[runqueue]
             M == IF q = <<>> THEN L ELSE [L EXCEPT ![runqueue] = Front(q)]
             g == list_pop_tail(h, runqueue)
  <1>1. /\ links' = g /\ state' = s /\ current' = Scheduled(h, s)
        /\ list_is_linked(h, runqueue) /\ Idle \in Task /\ current \in Task
        /\ \A e \in ToSet(q) : e[2] \in Task /\ next(e[2]) = e
        /\ q \in Seq(Node) /\ L \in [Headers -> Seq(Node)] /\ runqueue \in Headers
    <2>1. Idle \in Task /\ \A e \in ToSet(q) : e[2] \in Task /\ next(e[2]) = e
      BY FitsFacts
    <2> QED
      BY <2>1, NodeFacts DEF task_switch, Fits, Off, Lists
  <1>2. /\ runqueue \in Node /\ NULL \notin Node /\ h \in Heap(Node) /\ Ring(h, runqueue, q)
    BY <1>1, KindFacts, NodeFacts DEF Lists
  <1>3. /\ Lists(g, M) /\ AsBefore(h, g)
        /\ \A l \in Headers \ {runqueue} : M[l] = L[l]
        /\ ToSet(M[runqueue]) \subseteq ToSet(q)
    <2>1. CASE q = <<>>
      <3>1. list_tail(h, runqueue) = NULL /\ h.prev[runqueue] = runqueue
        BY <2>1, <1>1, <1>2, RingFacts
      <3>2. g = h
        BY <3>1 DEF list_pop_tail
      <3> QED
        BY <2>1, <3>2 DEF AsBefore
    <2>2. CASE q # <<>>
      <3>1. /\ Lists(g, [L EXCEPT ![runqueue] = Front(q)]) /\ AsBefore(h, g)
            /\ ToSet(Front(q)) = ToSet(q) \ {Last(q)}
        BY <2>2, <1>1, PopList
      <3> HIDE DEF q, g
      <3> QED
        BY <2>2, <3>1, <1>1
    <2> QED
      BY <2>1, <2>2
  <1>4. Off(M, current') /\ s[current'] = "runnable" /\ current' = Chosen(L, s, current)
    <2>1. CASE q = <<>>
      <3>1. list_tail(h, runqueue) = NULL
        BY <2>1, <1>1, <1>2, RingFacts
      <3>2. ToSet(q) = {}
        BY <2>1, EmptyList
      <3> QED
        BY <2>1, <3>1, <3>2, <1>1 DEF Scheduled, Off, Fits, Chosen
    <2>2. CASE q # <<>>
      <3>1. /\ ToSet(Front(q)) = ToSet(q) \ {Last(q)}
            /\ Last(q) \in ToSet(q)
            /\ list_tail(h, runqueue) = Last(q)
        BY <2>2, <1>1, PopList
      <3>2. Last(q) # NULL
        BY <3>1, <1>1, <1>2, ElementsSeq
      <3>3. current' = Last(q)[2]
        BY <3>1, <3>2, <1>1 DEF Scheduled, container
      <3>4. M[runqueue] = Front(q)
        BY <2>2, <1>1
      <3> HIDE DEF M
      <3>5. current' \in Task /\ next(current') = Last(q)
        BY <3>1, <3>3, <1>1
      <3>6. current' = Chosen(L, s, current)
        BY <2>2, <3>3 DEF Chosen, container
      <3>7. Off(M, current')
        BY <3>1, <3>4, <3>5 DEF Off
      <3>8. s[current'] = "runnable"
        BY <3>1, <3>5 DEF Fits
      <3> QED
        BY <3>6, <3>7, <3>8
    <2> QED
      BY <2>1, <2>2
  <1> HIDE DEF M, g
  <1>5. Fits(g, M, s, exited')
    <2>1. \A t \in Task : senders(t) \in Headers \ {runqueue} /\ pages(t) \in Headers \ {runqueue}
      BY NodeFacts
    <2>2. \A t \in Task : M[senders(t)] = L[senders(t)] /\ M[pages(t)] = L[pages(t)]
      BY <2>1, <1>3
    <2> QED
      BY <2>1, <2>2, <1>1, <1>3 DEF Fits, AsBefore
  <1>6. Lists(links', M) /\ Fits(links', M, state', exited') /\ Off(M, current') /\ state'[current'] = "runnable"
    BY <1>1, <1>3, <1>4, <1>5
  <1>7. M = Taken(L)
    BY DEF M, Taken
  <1> QED
    BY <1>4, <1>6, <1>7 DEF Kernel

\* The lists that kernel_main sets up.
InitLists == [l \in Headers |-> IF l = pages(Idle) THEN <<link(1)>> ELSE <<>>]

(* Kernel_main sets up the run queue and the pages of the idle task.       *)
LEMMA InitKernel ==
    Init => Kernel(links, InitLists, state, exited, current)
  <1> SUFFICES ASSUME Init PROVE Kernel(links, InitLists, state, exited, current)
    OBVIOUS
  <1> DEFINE none == [n \in Node |-> NULL]
             zero == [prev |-> none, next |-> none]
             L == [l \in Headers |-> <<>>]
             h1 == LIST_INIT(zero, runqueue)
             h2 == LIST_INIT(h1, pages(Idle))
             h3 == list_push_back(h2, pages(Idle), link(1))
             M == [L EXCEPT ![pages(Idle)] = Append(L[pages(Idle)], link(1))]
  <1>1. Idle \in Task /\ 1 \in Page
    BY SwitchAssumption DEF Idle, Task, Page
  <1>2. /\ runqueue \in Headers /\ pages(Idle) \in Headers /\ pages(Idle) # runqueue
        /\ \A t \in Task : senders(t) # pages(Idle) /\ senders(t) \in Headers /\ pages(t) \in Headers
        /\ \A t \in Task : pages(t) = pages(Idle) => t = Idle
        /\ link(1) \in Kind(pages(Idle))
    BY <1>1, NodeFacts, KindFacts DEF LinkNodes
  <1>3. L \in [Headers -> Seq(Node)] /\ ToSet(<<>>) = {} /\ <<>> \in Seq(Node)
    <2>1. <<>> \in Seq(Node) /\ ToSet(<<>>) = {}
      BY EmptyList
    <2> QED
      BY <2>1
  <1>4. Lists(zero, L)
    <2>1. zero \in Heap(Node)
      BY DEF Heap
    <2>2. \A n \in Node : ~list_is_linked(zero, n)
      BY DEF list_is_linked
    <2>3. \A l \in Headers : L[l] = <<>>
      OBVIOUS
    <2> HIDE DEF L, zero
    <2>4. Headers \subseteq Node /\ WaitNodes \subseteq Node /\ LinkNodes \subseteq Node
      BY NodeFacts
    <2> QED
      BY <2>1, <2>2, <2>3, <2>4, <1>3 DEF Lists
  <1>5. \A l \in Headers : L[l] = <<>>
    OBVIOUS
  <1> HIDE DEF L, zero
  <1>6. Lists(h1, L) /\ SetUp(zero, h1, runqueue)
    BY <1>2, <1>4, <1>5, InitList
  <1> HIDE DEF h1
  <1>7. Lists(h2, L) /\ SetUp(h1, h2, pages(Idle))
    BY <1>2, <1>5, <1>6, InitList
  <1> HIDE DEF h2
  <1>8. list_is_linked(h2, pages(Idle)) /\ list_is_linked(h2, runqueue)
    BY <1>2, <1>6, <1>7 DEF SetUp
  <1>9. Absent(L, link(1))
    BY <1>3, <1>5 DEF Absent
  <1>10. Pushed(h2, L, pages(Idle), link(1))
    BY <1>2, <1>7, <1>8, <1>9, PushList
  <1>11. links = h3
    BY DEF Init, h3, h2, h1, zero
  <1>12. /\ Lists(h3, M) /\ AsBefore(h2, h3)
         /\ \A l \in Headers \ {pages(Idle)} : M[l] = <<>>
    BY <1>5, <1>10 DEF Pushed
  <1>18. M = InitLists
    <2>1. Append(L[pages(Idle)], link(1)) = <<link(1)>>
      <3>1. L[pages(Idle)] = <<>>
        BY <1>2, <1>5
      <3> QED
        BY <3>1
    <2>2. M = [l \in Headers |-> IF l = pages(Idle) THEN <<link(1)>> ELSE L[l]]
      BY <1>3, <2>1
    <2> QED
      BY <1>5, <2>2 DEF InitLists
  <1> HIDE DEF M, h3
  <1>13. /\ state = [t \in Task |-> IF t = Idle THEN "runnable" ELSE "unused"]
         /\ exited = {} /\ current = Idle
    BY DEF Init
  <1>14. \A t \in Task : M[senders(t)] = <<>> /\ (t # Idle => M[pages(t)] = <<>>) /\ M[runqueue] = <<>>
    BY <1>2, <1>12
  <1>15. list_is_linked(h3, pages(Idle)) /\ list_is_linked(h3, runqueue)
    BY <1>2, <1>8, <1>12 DEF AsBefore
  <1>16. Fits(h3, M, state, exited)
    BY <1>1, <1>3, <1>13, <1>14, <1>15 DEF Fits
  <1>17. Off(M, current) /\ state[current] = "runnable"
    BY <1>1, <1>3, <1>13, <1>14 DEF Off
  <1> QED
    BY <1>11, <1>12, <1>16, <1>17, <1>18 DEF Kernel

\* vm_create makes task t with page p.
Made(image, t, p) ==
    /\ state[t] = "unused" /\ FirstFree(p)
    /\ LET lists == LIST_INIT(LIST_INIT(links, pages(t)), senders(t))
           elems == list_elem_init(list_elem_init(lists, next(t)), waitqueue_next(t))
       IN links' = task_resume(Allocated(elems, p), t)
    /\ stacks' = [stacks EXCEPT ![t] = arch_vm_init(image)]
    /\ state' = [state EXCEPT ![t] = "runnable"]
    /\ UNCHANGED <<exited, current, regs, pc, launched, arch>>

(* vm_create makes the first unused task, if there is one and a page.      *)
LEMMA CreateMakes ==
    ASSUME NEW image, vm_create(image)
    PROVE  \E t \in Task, p \in Page : Made(image, t, p)
  <1>1. PICK t \in Task, p \in Page :
            /\ state[t] = "unused" /\ FirstFree(p)
            /\ LET lists == LIST_INIT(LIST_INIT(links, pages(t)), senders(t))
                   elems == list_elem_init(list_elem_init(lists, next(t)), waitqueue_next(t))
               IN links' = task_resume(Allocated(elems, p), t)
            /\ stacks' = [stacks EXCEPT ![t] = arch_vm_init(image)]
            /\ state' = [state EXCEPT ![t] = "runnable"]
    BY DEF vm_create
  <1>2. UNCHANGED <<exited, current, regs, pc, launched, arch>>
    BY DEF vm_create
  <1>3. Made(image, t, p)
    BY ONLY <1>1, <1>2 DEF Made
  <1> QED
    BY <1>3

(* vm_create sets up the lists of the first unused task and queues it.     *)
LEMMA CreateStep ==
    ASSUME NEW L, Kernel(links, L, state, exited, current), NEW image, NEW t \in Task, NEW p \in Page,
           Made(image, t, p)
    PROVE  Kernel(links', Behind(Behind(L, pages(current), link(p)), runqueue, next(t)), state', exited', current')
  <1>1. Lists(links, L) /\ Fits(links, L, state, exited) /\ Off(L, current) /\ state[current] = "runnable"
    BY DEF Kernel
  <1>3. exited' = exited /\ current' = current
    BY DEF Made
  <1> DEFINE h1 == LIST_INIT(links, pages(t))
             h2 == LIST_INIT(h1, senders(t))
             h3 == list_elem_init(h2, next(t))
             h4 == list_elem_init(h3, waitqueue_next(t))
             h5 == list_push_back(h4, pages(current), link(p))
             h6 == list_push_back(h5, runqueue, next(t))
             M == [L EXCEPT ![pages(current)] = Append(L[pages(current)], link(p))]
             K == [M EXCEPT ![runqueue] = Append(M[runqueue], next(t))]
  <1>4. links' = h6 /\ state' = [state EXCEPT ![t] = "runnable"] /\ state[t] = "unused" /\ ~list_is_linked(links, link(p))
    BY DEF Made, task_resume, Allocated, FirstFree
  <1>5. /\ t # Idle /\ t # current /\ current \in Task /\ t \notin exited
        /\ L[senders(t)] = <<>> /\ L[pages(t)] = <<>>
        /\ list_is_linked(links, runqueue)
        /\ state \in [Task -> {"unused", "runnable", "blocked"}]
    BY <1>1, <1>4 DEF Fits, Off
  <1>6. /\ Idle \in Task
        /\ Absent(L, waitqueue_next(t)) /\ Absent(L, next(t)) /\ Absent(L, link(p))
        /\ list_is_linked(links, pages(current))
    BY <1>1, <1>4, <1>5, FitsFacts
  <1>7. /\ runqueue \in Headers
        /\ \A u \in Task : senders(u) \in Headers /\ pages(u) \in Headers
        /\ \A u, v \in Task : senders(u) # pages(v) /\ senders(u) # runqueue /\ pages(u) # runqueue
        /\ \A u, v \in Task : senders(u) = senders(v) => u = v
        /\ \A u, v \in Task : pages(u) = pages(v) => u = v
        /\ next(t) \in Node \ Headers /\ waitqueue_next(t) \in Node \ Headers
        /\ link(p) \in Kind(pages(current)) /\ next(t) \in Kind(runqueue) /\ next(t) # link(p)
        /\ \A u \in Task : next(u) = next(t) => u = t
        /\ \A u, v \in Task : waitqueue_next(u) # next(v)
    <2>1. next(t) \in NextNodes /\ waitqueue_next(t) \in WaitNodes /\ link(p) \in LinkNodes
      BY DEF NextNodes, WaitNodes, LinkNodes
    <2>2. \A u, v \in Task : waitqueue_next(u) # next(v)
      BY DEF waitqueue_next, next
    <2> QED
      BY <1>5, <2>1, <2>2, NodeFacts, KindFacts
  <1>8. L \in [Headers -> Seq(Node)]
    BY <1>1 DEF Lists
  <1>9. Lists(h1, L) /\ SetUp(links, h1, pages(t))
    BY <1>1, <1>5, <1>7, InitList
  <1> HIDE DEF h1
  <1>10. Lists(h2, L) /\ SetUp(h1, h2, senders(t))
    BY <1>5, <1>7, <1>9, InitList
  <1> HIDE DEF h2
  <1>11. Lists(h3, L) /\ AsBefore(h2, h3)
    BY <1>6, <1>7, <1>10, ClearList
  <1> HIDE DEF h3
  <1>12. Lists(h4, L) /\ AsBefore(h3, h4)
    BY <1>6, <1>7, <1>11, ClearList
  <1> HIDE DEF h4
  <1>13. /\ \A k \in Headers : list_is_linked(links, k) => list_is_linked(h4, k)
         /\ list_is_linked(h4, pages(t)) /\ list_is_linked(h4, senders(t))
    BY <1>7, <1>9, <1>10, <1>11, <1>12 DEF SetUp, AsBefore
  <1>14. pages(current) \in Headers /\ list_is_linked(h4, pages(current))
    BY <1>5, <1>6, <1>7, <1>13
  <1>15. Pushed(h4, L, pages(current), link(p))
    <2>1. link(p) \in Kind(pages(current)) /\ Absent(L, link(p)) /\ Lists(h4, L)
      BY <1>6, <1>7, <1>12
    <2> QED
      BY ONLY <2>1, <1>14, PushList
  <1>16. /\ Lists(h5, M) /\ AsBefore(h4, h5)
         /\ ToSet(M[pages(current)]) = ToSet(L[pages(current)]) \cup {link(p)}
         /\ \A k \in Headers \ {pages(current)} : M[k] = L[k]
    BY <1>15 DEF Pushed
  <1> HIDE DEF h5, M
  <1>17. Absent(M, next(t))
    BY <1>6, <1>7, <1>16 DEF Absent
  <1>18. list_is_linked(h5, runqueue)
    BY <1>5, <1>7, <1>13, <1>16 DEF AsBefore
  <1>19. Pushed(h5, M, runqueue, next(t))
    <2>1. runqueue \in Headers /\ next(t) \in Kind(runqueue) /\ Lists(h5, M)
      BY <1>7, <1>16
    <2> QED
      BY ONLY <2>1, <1>17, <1>18, PushList
  <1>20. /\ Lists(h6, K) /\ AsBefore(h5, h6)
         /\ ToSet(K[runqueue]) = ToSet(M[runqueue]) \cup {next(t)}
         /\ \A k \in Headers \ {runqueue} : K[k] = M[k]
    BY <1>19 DEF Pushed
  <1> HIDE DEF h6, K
  <1>22. /\ ToSet(K[runqueue]) = ToSet(L[runqueue]) \cup {next(t)}
         /\ \A u \in Task : K[senders(u)] = L[senders(u)]
         /\ \A u \in Task : u # current => K[pages(u)] = L[pages(u)]
    BY <1>5, <1>7, <1>16, <1>20
  <1>23. /\ \A k \in Headers : list_is_linked(links, k) => list_is_linked(h6, k)
         /\ list_is_linked(h6, pages(t)) /\ list_is_linked(h6, senders(t))
    BY <1>7, <1>13, <1>16, <1>20 DEF AsBefore
  <1>24. state'[t] = "runnable" /\ \A u \in Task \ {t} : state'[u] = state[u]
    BY <1>4, <1>5
  <1>25. Fits(h6, K, state', exited)
    <2>1. state' \in [Task -> {"unused", "runnable", "blocked"}] /\ state'[Idle] = "runnable"
      BY <1>1, <1>4, <1>5, <1>6, <1>24 DEF Fits
    <2>2. list_is_linked(h6, runqueue) /\ list_is_linked(h6, pages(Idle))
      BY <1>1, <1>6, <1>7, <1>23 DEF Fits
    <2>3. \A u \in Task \ {Idle} : state'[u] # "unused" => list_is_linked(h6, senders(u)) /\ list_is_linked(h6, pages(u))
      BY <1>1, <1>7, <1>23, <1>24 DEF Fits
    <2>4. \A u \in Task : state'[u] = "unused" \/ u \in exited => K[senders(u)] = <<>>
      BY <1>1, <1>22, <1>24 DEF Fits
    <2>5. \A u \in Task : state'[u] = "unused" => K[pages(u)] = <<>>
      BY <1>1, <1>5, <1>22, <1>24 DEF Fits
    <2>6. \A u \in Task : next(u) \in ToSet(K[runqueue]) => state'[u] = "runnable" /\ u \notin exited
      BY <1>1, <1>5, <1>7, <1>22, <1>24 DEF Fits
    <2>7. \A u, d \in Task : waitqueue_next(u) \in ToSet(K[senders(d)]) => state'[u] = "blocked"
      BY <1>1, <1>4, <1>22, <1>24 DEF Fits
    <2>8. \A u \in exited : state'[u] = "runnable"
      BY <1>1, <1>4, <1>24 DEF Fits
    <2> QED
      BY <2>1, <2>2, <2>3, <2>4, <2>5, <2>6, <2>7, <2>8, <1>1 DEF Fits
  <1>26. Off(K, current) /\ state'[current] = "runnable"
    BY <1>1, <1>5, <1>7, <1>22, <1>24 DEF Off
  <1>27. K = Behind(Behind(L, pages(current), link(p)), runqueue, next(t))
    BY DEF K, M, Behind
  <1> QED
    BY <1>3, <1>4, <1>20, <1>25, <1>26, <1>27 DEF Kernel

(* palloc puts a free page on the list of the current task.                *)
LEMMA AllocStep ==
    ASSUME NEW L, Kernel(links, L, state, exited, current), palloc,
           NEW p \in Page, FirstFree(p), links' = Allocated(links, p)
    PROVE  Kernel(links', Behind(L, pages(current), link(p)), state', exited', current')
  <1>1. Lists(links, L) /\ Fits(links, L, state, exited) /\ Off(L, current) /\ state[current] = "runnable"
    BY DEF Kernel
  <1>3. exited' = exited /\ current' = current /\ state' = state
    BY DEF palloc
  <1> DEFINE l == pages(current)
             g == list_push_back(links, l, link(p))
             M == [L EXCEPT ![l] = Append(L[l], link(p))]
  <1>4. links' = g /\ ~list_is_linked(links, link(p))
    BY DEF Allocated, FirstFree
  <1>5. Idle \in Task /\ Absent(L, link(p)) /\ list_is_linked(links, l) /\ current \in Task
    BY <1>1, <1>4, FitsFacts DEF Off
  <1>6. l \in Headers /\ link(p) \in Kind(l)
    BY <1>5, NodeFacts, KindFacts DEF LinkNodes
  <1>7. Pushed(links, L, l, link(p))
    BY <1>1, <1>5, <1>6, PushList
  <1>9. Lists(g, M) /\ AsBefore(links, g) /\ \A k \in Headers \ {l} : M[k] = L[k]
    BY <1>7 DEF Pushed
  <1>10. /\ runqueue \in Headers /\ runqueue # l
         /\ \A t \in Task : senders(t) \in Headers /\ pages(t) \in Headers /\ senders(t) # l
         /\ \A t \in Task \ {current} : pages(t) # l
    BY <1>5, NodeFacts
  <1>11. /\ M[runqueue] = L[runqueue]
         /\ \A t \in Task : M[senders(t)] = L[senders(t)]
         /\ \A t \in Task \ {current} : M[pages(t)] = L[pages(t)]
    BY <1>9, <1>10
  <1> HIDE DEF M, g, l
  <1>12. Fits(g, M, state, exited)
    <2>1. list_is_linked(g, runqueue) /\ list_is_linked(g, pages(Idle))
      BY <1>1, <1>5, <1>9, <1>10 DEF Fits, AsBefore
    <2>2. \A t \in Task \ {Idle} :
             state[t] # "unused" => list_is_linked(g, senders(t)) /\ list_is_linked(g, pages(t))
      BY <1>1, <1>9, <1>10 DEF Fits, AsBefore
    <2>3. \A t \in Task : state[t] = "unused" => M[pages(t)] = <<>>
      BY <1>1, <1>11 DEF Fits
    <2>4. \A t \in Task : state[t] = "unused" \/ t \in exited => M[senders(t)] = <<>>
      BY <1>1, <1>11 DEF Fits
    <2>5. \A t, d \in Task : waitqueue_next(t) \in ToSet(M[senders(d)]) => state[t] = "blocked"
      BY <1>1, <1>11 DEF Fits
    <2>6. \A t \in Task : next(t) \in ToSet(M[runqueue]) => state[t] = "runnable" /\ t \notin exited
      BY <1>1, <1>11 DEF Fits
    <2> QED
      BY <1>1, <2>1, <2>2, <2>3, <2>4, <2>5, <2>6 DEF Fits
  <1>13. Off(M, current)
    BY <1>1, <1>11 DEF Off
  <1>14. M = Behind(L, pages(current), link(p))
    BY DEF M, l, Behind
  <1> QED
    BY <1>1, <1>3, <1>4, <1>9, <1>12, <1>13, <1>14 DEF Kernel

(* task_resume of a task that waits to receive, and the change of its      *)
(* state.                                                                  *)
LEMMA ResumeFits ==
    ASSUME NEW h, NEW L, NEW s, NEW x, Lists(h, L), Fits(h, L, s, x),
           NEW d \in Task, s[d] = "blocked", Absent(L, waitqueue_next(d)),
           NEW c \in Task, Off(L, c), c # d
    PROVE  LET M == Behind(L, runqueue, next(d))
           IN /\ Lists(task_resume(h, d), M)
              /\ Fits(task_resume(h, d), M, [s EXCEPT ![d] = "runnable"], x)
              /\ Off(M, c)
  <1> DEFINE g == list_push_back(h, runqueue, next(d))
             M == [L EXCEPT ![runqueue] = Append(L[runqueue], next(d))]
             r == [s EXCEPT ![d] = "runnable"]
  <1>1. /\ Idle \in Task /\ Absent(L, next(d)) /\ list_is_linked(h, runqueue)
        /\ runqueue \in Headers /\ next(d) \in Kind(runqueue)
    BY FitsFacts, NodeFacts, KindFacts DEF Fits, NextNodes
  <1>2. Pushed(h, L, runqueue, next(d))
    BY <1>1, PushList
  <1>4. /\ Lists(g, M) /\ AsBefore(h, g)
        /\ ToSet(M[runqueue]) = ToSet(L[runqueue]) \cup {next(d)}
        /\ \A k \in Headers \ {runqueue} : M[k] = L[k]
    BY <1>2 DEF Pushed
  <1>5. \A t \in Task : senders(t) \in Headers \ {runqueue} /\ pages(t) \in Headers \ {runqueue}
    BY NodeFacts
  <1>6. s \in [Task -> {"unused", "runnable", "blocked"}]
    BY DEF Fits
  <1>7. r \in [Task -> {"unused", "runnable", "blocked"}] /\ r[d] = "runnable" /\ \A t \in Task \ {d} : r[t] = s[t]
    BY <1>6
  <1>8. \A t \in Task : next(t) = next(d) => t = d
    BY NodeFacts
  <1> HIDE DEF g, M, r
  <1>10. \A t \in Task : M[senders(t)] = L[senders(t)] /\ M[pages(t)] = L[pages(t)]
    BY <1>4, <1>5
  <1>11. \A t \in Task : r[t] = "unused" => s[t] = "unused"
    BY <1>7
  <1>12. Fits(g, M, r, x)
    <2>1. r[Idle] = "runnable" /\ list_is_linked(g, runqueue) /\ list_is_linked(g, pages(Idle))
      BY <1>1, <1>4, <1>5, <1>7 DEF Fits, AsBefore
    <2>2. \A t \in Task \ {Idle} : r[t] # "unused" => list_is_linked(g, senders(t)) /\ list_is_linked(g, pages(t))
      BY <1>4, <1>5, <1>7 DEF Fits, AsBefore
    <2>3. \A t \in Task : r[t] = "unused" \/ t \in x => M[senders(t)] = <<>>
      BY <1>10, <1>11 DEF Fits
    <2>4. \A t \in Task : r[t] = "unused" => M[pages(t)] = <<>>
      BY <1>10, <1>11 DEF Fits
    <2>5. \A t \in Task : next(t) \in ToSet(M[runqueue]) => r[t] = "runnable" /\ t \notin x
      BY <1>4, <1>7, <1>8 DEF Fits
    <2>6. \A t, e \in Task : waitqueue_next(t) \in ToSet(M[senders(e)]) => r[t] = "blocked"
      BY <1>5, <1>7, <1>10 DEF Fits, Absent
    <2>7. \A t \in x : r[t] = "runnable"
      BY <1>7 DEF Fits
    <2> QED
      BY <1>7, <2>1, <2>2, <2>3, <2>4, <2>5, <2>6, <2>7 DEF Fits
  <1>13. Off(M, c)
    BY <1>4, <1>8 DEF Off
  <1> QED
    BY <1>4, <1>12, <1>13 DEF g, M, r, task_resume, Behind

(* ipc_send to a task that is ready wakes it.                              *)
LEMMA SendReadyStep ==
    ASSUME NEW L, Kernel(links, L, state, exited, current), NEW d \in Task, SendReady(d)
    PROVE  Kernel(links', Behind(L, runqueue, next(d)), state', exited', current')
  <1>1. Lists(links, L) /\ Fits(links, L, state, exited) /\ Off(L, current) /\ state[current] = "runnable"
    BY DEF Kernel
  <1>2. /\ state[d] = "blocked" /\ d # current /\ ~list_is_linked(links, waitqueue_next(d))
        /\ links' = task_resume(links, d) /\ state' = [state EXCEPT ![d] = "runnable"]
        /\ exited' = exited /\ current' = current
    BY DEF SendReady, Reachable, Receiving
  <1>3. Absent(L, waitqueue_next(d))
    BY <1>1, <1>2, UnlinkedAbsent
  <1> DEFINE M == Behind(L, runqueue, next(d))
  <1>4. current \in Task /\ state[current] = "runnable"
    BY <1>1 DEF Off
  <1>5. Lists(links', M) /\ Fits(links', M, state', exited) /\ Off(M, current)
    BY <1>1, <1>2, <1>3, <1>4, ResumeFits
  <1> HIDE DEF M
  <1>6. state'[current] = "runnable"
    BY <1>1, <1>2, <1>4 DEF Fits
  <1> QED
    BY <1>2, <1>5, <1>6 DEF Kernel, M

(* A task that leaves the CPU may block.                                   *)
LEMMA BlockFits ==
    ASSUME NEW h, NEW L, NEW s, NEW x, Fits(h, L, s, x),
           NEW c \in Task, c # Idle, c \notin x, s[c] # "unused", Off(L, c)
    PROVE  Fits(h, L, [s EXCEPT ![c] = "blocked"], x)
  <1> DEFINE r == [s EXCEPT ![c] = "blocked"]
  <1>1. s \in [Task -> {"unused", "runnable", "blocked"}]
    BY DEF Fits
  <1>2. r \in [Task -> {"unused", "runnable", "blocked"}] /\ r[c] = "blocked" /\ \A t \in Task \ {c} : r[t] = s[t]
    BY <1>1
  <1>3. Idle \in Task
    BY SwitchAssumption DEF Idle, Task
  <1> HIDE DEF r
  <1>4. \A t \in Task : (r[t] = "unused" => s[t] = "unused") /\ (r[t] # "unused" => s[t] # "unused")
    BY <1>2
  <1>5. \A t \in Task : next(t) \in ToSet(L[runqueue]) => r[t] = "runnable" /\ t \notin x
    BY <1>2 DEF Fits, Off
  <1>6. \A t, d \in Task : waitqueue_next(t) \in ToSet(L[senders(d)]) => r[t] = "blocked"
    BY <1>2 DEF Fits
  <1>7. r[Idle] = "runnable" /\ \A t \in x : r[t] = "runnable"
    BY <1>2, <1>3 DEF Fits
  <1>8. Fits(h, L, r, x)
    BY <1>2, <1>4, <1>5, <1>6, <1>7 DEF Fits
  <1> QED
    BY <1>8 DEF r

(* A blocked task may be queued to send to a task that has not exited.     *)
LEMMA QueueFits ==
    ASSUME NEW h, NEW L, NEW s, NEW x, Lists(h, L), Fits(h, L, s, x),
           NEW c \in Task, s[c] = "blocked", Absent(L, waitqueue_next(c)), Off(L, c),
           NEW d \in Task, d # Idle, s[d] # "unused", d \notin x
    PROVE  LET M == Behind(L, senders(d), waitqueue_next(c))
           IN /\ Lists(list_push_back(h, senders(d), waitqueue_next(c)), M)
              /\ Fits(list_push_back(h, senders(d), waitqueue_next(c)), M, s, x)
              /\ Off(M, c)
  <1> DEFINE l == senders(d)
             e == waitqueue_next(c)
             g == list_push_back(h, l, e)
             M == [L EXCEPT ![l] = Append(L[l], e)]
  <1>1. /\ l \in Headers /\ l # runqueue /\ runqueue \in Headers
        /\ \A t \in Task : senders(t) \in Headers /\ pages(t) \in Headers /\ pages(t) # l
        /\ \A t \in Task \ {d} : senders(t) # l
        /\ \A t \in Task : waitqueue_next(t) = e => t = c
    BY NodeFacts
  <1>2. e \in Kind(l) /\ list_is_linked(h, l) /\ Idle \in Task
    <2>1. e \in Kind(l)
      BY KindFacts DEF WaitNodes
    <2>2. Idle \in Task
      BY SwitchAssumption DEF Idle, Task
    <2> QED
      BY <2>1, <2>2 DEF Fits
  <1> HIDE DEF l, e
  <1>4. Pushed(h, L, l, e)
    <2>1. Lists(h, L) /\ Absent(L, e)
      BY DEF e
    <2> QED
      BY ONLY <2>1, <1>1, <1>2, PushList
  <1>5. /\ Lists(g, M) /\ AsBefore(h, g)
        /\ ToSet(M[l]) = ToSet(L[l]) \cup {e}
        /\ \A k \in Headers \ {l} : M[k] = L[k]
    BY <1>4 DEF Pushed
  <1> HIDE DEF M, g
  <1>6. /\ M[runqueue] = L[runqueue]
        /\ \A t \in Task : M[pages(t)] = L[pages(t)]
        /\ \A t \in Task \ {d} : M[senders(t)] = L[senders(t)]
        /\ ToSet(M[senders(d)]) = ToSet(L[senders(d)]) \cup {e}
    BY <1>1, <1>5 DEF l
  <1>7. \A t \in Task : s[t] = "unused" \/ t \in x => M[senders(t)] = <<>>
    BY <1>6 DEF Fits
  <1>8. \A t, u \in Task : waitqueue_next(t) \in ToSet(M[senders(u)]) => s[t] = "blocked"
    <2> SUFFICES ASSUME NEW t \in Task, NEW u \in Task, waitqueue_next(t) \in ToSet(M[senders(u)]) PROVE s[t] = "blocked"
      OBVIOUS
    <2>1. waitqueue_next(t) \in ToSet(L[senders(u)]) \/ waitqueue_next(t) = e
      BY <1>6
    <2> QED
      BY <2>1, <1>1 DEF Fits
  <1>9. list_is_linked(g, runqueue) /\ list_is_linked(g, pages(Idle))
    BY <1>1, <1>2, <1>5 DEF Fits, AsBefore
  <1>10. \A t \in Task \ {Idle} : s[t] # "unused" => list_is_linked(g, senders(t)) /\ list_is_linked(g, pages(t))
    BY <1>1, <1>5 DEF Fits, AsBefore
  <1>11. Fits(g, M, s, x)
    BY <1>6, <1>7, <1>8, <1>9, <1>10 DEF Fits
  <1>12. Off(M, c)
    BY <1>6 DEF Off
  <1> QED
    BY <1>5, <1>11, <1>12 DEF g, M, l, e, Behind

(* ipc_send to a task that is not ready queues the sender.                 *)
LEMMA SendQueueStep ==
    ASSUME NEW L, Kernel(links, L, state, exited, current), NEW d \in Task, SendQueue(d)
    PROVE  LET M == Behind(L, senders(d), waitqueue_next(current))
           IN /\ Kernel(links', Taken(M), state', exited', current')
              /\ current' = Chosen(M, [state EXCEPT ![current] = "blocked"], current)
  <1>1. Lists(links, L) /\ Fits(links, L, state, exited) /\ Off(L, current) /\ state[current] = "runnable"
    BY DEF Kernel
  <1> DEFINE r == [state EXCEPT ![current] = "blocked"]
             g == list_push_back(links, senders(d), waitqueue_next(current))
             M == Behind(L, senders(d), waitqueue_next(current))
  <1>2. /\ current # Idle /\ current \notin exited /\ d # Idle /\ state[d] # "unused" /\ d \notin exited
        /\ exited' = exited /\ d # current
        /\ task_switch(g, r)
    BY DEF SendQueue, Runs, Reachable
  <1>3. current \in Task /\ state[current] # "unused" /\ Absent(L, waitqueue_next(current))
    <2>1. current \in Task /\ state[current] # "blocked" /\ state[current] # "unused"
      BY <1>1 DEF Off
    <2> QED
      BY <1>1, <2>1, FitsFacts
  <1>4. Fits(links, L, r, exited)
    BY <1>1, <1>2, <1>3, BlockFits
  <1>5. r[current] = "blocked" /\ r[d] # "unused"
    BY <1>1, <1>2, <1>3 DEF Fits
  <1> HIDE DEF r
  <1>6. Lists(g, M) /\ Fits(g, M, r, exited) /\ Off(M, current)
    BY <1>1, <1>2, <1>3, <1>4, <1>5, QueueFits
  <1> HIDE DEF g, M
  <1>7. Fits(g, M, r, exited')
    BY <1>2, <1>6
  <1>8. Kernel(links', Taken(M), state', exited', current') /\ current' = Chosen(M, r, current)
    BY <1>2, <1>6, <1>7, SwitchTakes
  <1> QED
    BY <1>8 DEF M, r

(* ipc_receive finds a sender by walking its queue (list.c, ipc.c:66), and *)
(* removes and resumes it.                                                 *)
LEMMA DequeueFits ==
    ASSUME NEW h, NEW L, NEW s, NEW x, Lists(h, L), Fits(h, L, s, x),
           NEW c \in Task, Off(L, c), s[c] = "runnable", list_is_linked(h, senders(c)),
           NEW i \in 1..Len(L[senders(c)]), NEW d, d = container(L[senders(c)][i])
    PROVE  /\ d \in Task /\ d # c /\ s[d] = "blocked"
           /\ LET M == Behind(Lacking(L, senders(c), i), runqueue, next(d))
              IN /\ Lists(task_resume(list_remove(h, waitqueue_next(d)), d), M)
                 /\ Fits(task_resume(list_remove(h, waitqueue_next(d)), d), M, [s EXCEPT ![d] = "runnable"], x)
                 /\ Off(M, c)
  <1> DEFINE l == senders(c)
             e == L[l][i]
             g == list_remove(h, e)
             M == [L EXCEPT ![l] = RemoveAt(L[l], i)]
  <1>1. l \in Headers /\ l # runqueue /\ runqueue \in Headers /\ L \in [Headers -> Seq(Node)]
    BY NodeFacts DEF Lists
  <1>2. e \in ToSet(L[l])
    BY <1>1, ElementsSeq
  <1>3. d \in Task /\ waitqueue_next(d) = e /\ s[d] = "blocked" /\ d # c
    <2>1. e[2] \in Task /\ waitqueue_next(e[2]) = e
      BY <1>2, FitsFacts
    <2>2. e[2] = d
      BY DEF container
    <2> QED
      BY <2>1, <2>2, <1>2 DEF Fits
  <1>4. /\ Lists(g, M) /\ AsBefore(h, g)
        /\ ToSet(RemoveAt(L[l], i)) = ToSet(L[l]) \ {e}
    <2>1. Lists(h, L) /\ list_is_linked(h, l)
      OBVIOUS
    <2>2. l \in Headers /\ i \in 1..Len(L[l])
      BY <1>1
    <2> HIDE DEF l
    <2> QED
      BY ONLY <2>1, <2>2, RemoveList
  <1>5. M[l] = RemoveAt(L[l], i) /\ \A k \in Headers \ {l} : M[k] = L[k]
    BY <1>1
  <1>6. /\ \A t \in Task : senders(t) \in Headers /\ pages(t) \in Headers /\ pages(t) # l
        /\ \A t \in Task : t # c => senders(t) # l
    BY NodeFacts
  <1> HIDE DEF g, M, e
  <1>7. ToSet(M[l]) = ToSet(L[l]) \ {e}
    BY <1>4, <1>5
  <1>8. Absent(M, waitqueue_next(d))
    <2>1. \A k \in Headers \ {l} : e \notin ToSet(L[k])
      BY <1>1, <1>2 DEF Lists
    <2> QED
      BY <2>1, <1>3, <1>5, <1>7 DEF Absent
  <1>9. Off(M, c)
    BY <1>1, <1>5 DEF Off
  <1>10. Fits(g, M, s, x)
    <2>1. list_is_linked(g, runqueue) /\ list_is_linked(g, pages(Idle))
      BY <1>1, <1>4, <1>6, FitsFacts DEF Fits, AsBefore
    <2>2. \A t \in Task \ {Idle} : s[t] # "unused" => list_is_linked(g, senders(t)) /\ list_is_linked(g, pages(t))
      BY <1>4, <1>6 DEF Fits, AsBefore
    <2>3. \A t \in Task : s[t] = "unused" \/ t \in x => M[senders(t)] = <<>>
      <3>1. ToSet(<<>>) = {}
        BY EmptyList
      <3>2. \A t \in Task : s[t] = "unused" \/ t \in x => senders(t) # l
        BY <3>1, <1>2 DEF Fits
      <3> QED
        BY <3>2, <1>5, <1>6 DEF Fits
    <2>4. \A t \in Task : s[t] = "unused" => M[pages(t)] = <<>>
      BY <1>5, <1>6 DEF Fits
    <2>5. M[runqueue] = L[runqueue]
      BY <1>1, <1>5
    <2>6. \A t, u \in Task : waitqueue_next(t) \in ToSet(M[senders(u)]) => s[t] = "blocked"
      <3> SUFFICES ASSUME NEW t \in Task, NEW u \in Task, waitqueue_next(t) \in ToSet(M[senders(u)]) PROVE s[t] = "blocked"
        OBVIOUS
      <3>1. waitqueue_next(t) \in ToSet(L[senders(u)])
        BY <1>5, <1>6, <1>7
      <3> QED
        BY <3>1 DEF Fits
    <2> QED
      BY <2>1, <2>2, <2>3, <2>4, <2>5, <2>6 DEF Fits
  <1> DEFINE K == Behind(M, runqueue, next(d))
  <1>11. /\ Lists(task_resume(g, d), K)
         /\ Fits(task_resume(g, d), K, [s EXCEPT ![d] = "runnable"], x)
         /\ Off(K, c)
    <2>1. Lists(g, M) /\ Fits(g, M, s, x) /\ Off(M, c) /\ Absent(M, waitqueue_next(d)) /\ s[d] = "blocked"
      BY <1>3, <1>4, <1>8, <1>9, <1>10
    <2>2. d \in Task /\ c \in Task /\ c # d
      BY <1>3
    <2> QED
      BY <2>1, <2>2, ResumeFits
  <1>12. g = list_remove(h, waitqueue_next(d))
    BY <1>3 DEF g
  <1>13. M = Lacking(L, senders(c), i)
    BY DEF M, Lacking
  <1> QED
    BY <1>3, <1>11, <1>12, <1>13

\* The places of the senders in a queue that ipc_receive takes, and the first of them.
Matching(queue, src) == {i \in DOMAIN queue : src \in {IPC_ANY, container(queue[i])}}
Foremost(S)          == CHOOSE i \in S : \A j \in S : i <= j

(* Without a sender that matches, ipc_receive waits; else it takes the     *)
(* first from its queue, and what it walks is the queue.                   *)
LEMMA ReceiveStep ==
    ASSUME NEW L, Kernel(links, L, state, exited, current), NEW src, ipc_receive(src)
    PROVE  LET matching == Matching(L[senders(current)], src)
               i        == Foremost(matching)
               sender   == container(L[senders(current)][i])
               M        == Behind(Lacking(L, senders(current), i), runqueue, next(sender))
               r        == [state EXCEPT ![sender] = "runnable", ![current] = "blocked"]
           IN /\ matching = {} => /\ Kernel(links', Taken(L), state', exited', current')
                                  /\ current' = Chosen(L, [state EXCEPT ![current] = "blocked"], current)
                                  /\ task_switch(links, [state EXCEPT ![current] = "blocked"])
              /\ matching # {} => /\ i \in 1..Len(L[senders(current)])
                                  /\ sender \in Task /\ sender # current /\ state[sender] = "blocked"
                                  /\ Kernel(links', Taken(M), state', exited', current')
                                  /\ current' = Chosen(M, r, current)
                                  /\ task_switch(task_resume(list_remove(links, waitqueue_next(sender)), sender), r)
  <1>1. Lists(links, L) /\ Fits(links, L, state, exited) /\ Off(L, current) /\ state[current] = "runnable"
    BY DEF Kernel
  <1> DEFINE queue    == L[senders(current)]
             matching == Matching(queue, src)
             least    == Foremost(matching)
             sender   == container(queue[least])
             h        == task_resume(list_remove(links, waitqueue_next(sender)), sender)
  <1>2. current # Idle /\ current \notin exited /\ exited' = exited /\ current \in Task
    BY <1>1 DEF ipc_receive, Runs, Off
  <1>3. /\ senders(current) \in Headers /\ senders(current) \in Node
        /\ list_is_linked(links, senders(current))
        /\ state \in [Task -> {"unused", "runnable", "blocked"}]
    BY <1>1, <1>2, NodeFacts DEF Fits
  <1>4. Walk(links.next, senders(current)) = queue
    <2>1. /\ Ring(links, senders(current), L[senders(current)])
          /\ links \in Heap(Node) /\ L[senders(current)] \in Seq(Node)
      BY <1>1, <1>3 DEF Lists
    <2>2. NULL \notin Node /\ IsFiniteSet(Node)
      BY KindFacts
    <2> QED
      BY <2>1, <2>2, <1>3, WalkRing
  <1>5. DOMAIN queue = 1..Len(queue) /\ DOMAIN queue \in SUBSET Nat
    <2>1. queue \in Seq(Node)
      BY <1>1, <1>3 DEF Lists
    <2> HIDE DEF queue
    <2> QED
      BY <2>1
  <1>8. /\ matching = {} => task_switch(links, [state EXCEPT ![current] = "blocked"])
        /\ matching # {} => task_switch(h, [state EXCEPT ![sender] = "runnable", ![current] = "blocked"])
    <2> HIDE DEF queue
    <2> QED
      BY <1>4 DEF ipc_receive, Matching, Foremost
  <1> HIDE DEF queue
  <1>6. ASSUME matching = {}
        PROVE  /\ Kernel(links', Taken(L), state', exited', current')
               /\ current' = Chosen(L, [state EXCEPT ![current] = "blocked"], current)
    <2> DEFINE r == [state EXCEPT ![current] = "blocked"]
    <2>1. Fits(links, L, r, exited)
      BY <1>1, <1>2, BlockFits
    <2>2. task_switch(links, r)
      BY <1>6, <1>8
    <2> HIDE DEF r
    <2>3. Fits(links, L, r, exited')
      BY <2>1, <1>2
    <2>4. Kernel(links', Taken(L), state', exited', current') /\ current' = Chosen(L, r, current)
      BY <2>2, <2>3, <1>1, SwitchTakes
    <2> QED
      BY <2>4 DEF r
  <1> DEFINE M == Behind(Lacking(L, senders(current), least), runqueue, next(sender))
  <1>7. ASSUME matching # {}
        PROVE  /\ least \in 1..Len(queue)
               /\ sender \in Task /\ sender # current /\ state[sender] = "blocked"
               /\ Kernel(links', Taken(M), state', exited', current')
               /\ current' = Chosen(M, [state EXCEPT ![sender] = "runnable", ![current] = "blocked"], current)
    <2>1. least \in matching
      <3>1. matching \in SUBSET Nat
        BY <1>5 DEF Matching
      <3> HIDE DEF matching
      <3>2. \E i \in matching : \A j \in matching : i <= j
        BY <3>1, <1>7, Smallest
      <3> QED
        BY <3>2 DEF Foremost
    <2>2. least \in 1..Len(queue)
      BY <2>1, <1>5 DEF Matching
    <2>3. task_switch(h, [state EXCEPT ![sender] = "runnable", ![current] = "blocked"])
      BY <1>7, <1>8
    <2> HIDE DEF matching, least, sender
    <2>4. /\ sender \in Task /\ sender # current /\ state[sender] = "blocked"
          /\ Lists(h, M) /\ Fits(h, M, [state EXCEPT ![sender] = "runnable"], exited) /\ Off(M, current)
      <3>1. Lists(links, L) /\ Fits(links, L, state, exited) /\ Off(L, current) /\ state[current] = "runnable"
        BY <1>1
      <3>2. list_is_linked(links, senders(current)) /\ current \in Task
        BY <1>2, <1>3
      <3>3. least \in 1..Len(L[senders(current)]) /\ sender = container(L[senders(current)][least])
        BY <2>2 DEF sender, queue
      <3> QED
        BY <3>1, <3>2, <3>3, DequeueFits
    <2> DEFINE s == [state EXCEPT ![sender] = "runnable"]
               r == [s EXCEPT ![current] = "blocked"]
    <2>6. s[current] # "unused"
      BY <2>4, <1>1, <1>2, <1>3
    <2>7. r = [state EXCEPT ![sender] = "runnable", ![current] = "blocked"]
      OBVIOUS
    <2> HIDE DEF s, h, M
    <2>8. Fits(h, M, r, exited)
      BY <2>4, <2>6, <1>2, BlockFits DEF s
    <2> HIDE DEF r
    <2>9. Fits(h, M, r, exited') /\ task_switch(h, r)
      BY <2>3, <2>7, <2>8, <1>2
    <2>10. Kernel(links', Taken(M), state', exited', current') /\ current' = Chosen(M, r, current)
      BY <2>4, <2>9, SwitchTakes
    <2> QED
      BY <2>2, <2>4, <2>7, <2>10
  <1> QED
    BY <1>6, <1>7, <1>8 DEF queue

(* The switch of kernel_main.                                              *)
LEMMA BootStep ==
    ASSUME NEW L, Kernel(links, L, state, exited, current), BootSwitch
    PROVE  Kernel(links', Taken(L), state', exited', current') /\ current' = Chosen(L, state, current)
  <1>1. Lists(links, L) /\ Fits(links, L, state, exited) /\ Off(L, current) /\ state[current] = "runnable"
    BY DEF Kernel
  <1>2. exited' = exited /\ task_switch(links, state)
    BY DEF BootSwitch
  <1>3. Fits(links, L, state, exited')
    BY <1>1, <1>2
  <1> QED
    BY <1>1, <1>2, <1>3, SwitchTakes

(* A task that exits leaves the CPU for good, with nobody in its queue.    *)
LEMMA ExitStep ==
    ASSUME NEW L, Kernel(links, L, state, exited, current), task_exit
    PROVE  Kernel(links', Taken(L), state', exited', current') /\ current' = Chosen(L, state, current)
  <1>1. Lists(links, L) /\ Fits(links, L, state, exited) /\ Off(L, current) /\ state[current] = "runnable"
    BY DEF Kernel
  <1>2. /\ current # Idle /\ list_head(links, senders(current)) = NULL
        /\ exited' = exited \cup {current} /\ task_switch(links, state) /\ current \in Task
    BY <1>1 DEF task_exit, Off
  <1>3. L[senders(current)] = <<>>
    <2>1. senders(current) \in Headers /\ senders(current) \in Node /\ list_is_linked(links, senders(current))
      BY <1>1, <1>2, NodeFacts DEF Fits
    <2>2. /\ Ring(links, senders(current), L[senders(current)])
          /\ L[senders(current)] \in Seq(Node) /\ NULL \notin Node
      BY <2>1, <1>1, KindFacts DEF Lists
    <2>3. list_head(links, senders(current)) = IF L[senders(current)] = <<>> THEN NULL ELSE L[senders(current)][1]
      BY <2>1, <2>2, RingFacts
    <2>4. L[senders(current)] # <<>> => L[senders(current)][1] \in Node
      BY <2>2
    <2> QED
      BY <2>2, <2>3, <2>4, <1>2
  <1>4. Fits(links, L, state, exited')
    <2>1. \A t \in Task : next(t) \in ToSet(L[runqueue]) => state[t] = "runnable" /\ t \notin exited'
      BY <1>1, <1>2 DEF Fits, Off
    <2>2. \A t \in Task : state[t] = "unused" \/ t \in exited' => L[senders(t)] = <<>>
      BY <1>1, <1>2, <1>3 DEF Fits
    <2>3. exited' \subseteq Task /\ Idle \notin exited' /\ \A t \in exited' : state[t] = "runnable"
      BY <1>1, <1>2 DEF Fits
    <2> QED
      BY <1>1, <2>1, <2>2, <2>3 DEF Fits
  <1> QED
    BY <1>1, <1>2, <1>4, SwitchTakes

(* task_destroy frees the pages of a task that has exited.                 *)
LEMMA DestroyStep ==
    ASSUME NEW L, Kernel(links, L, state, exited, current), NEW t \in Task, task_destroy(t)
    PROVE  Kernel(links', Emptied(L, pages(t)), state', exited', current')
  <1>1. Lists(links, L) /\ Fits(links, L, state, exited) /\ Off(L, current) /\ state[current] = "runnable"
    BY DEF Kernel
  <1> DEFINE l == pages(t)
             g == pfree_by_list(links, l)
             M == [L EXCEPT ![l] = <<>>]
             r == [state EXCEPT ![t] = "unused"]
             x == exited \ {t}
  <1>2. /\ t \in exited /\ current \notin exited /\ links' = g /\ state' = r /\ exited' = x /\ current' = current
    BY DEF task_destroy, Runs
  <1>3. t # Idle /\ t # current /\ state[t] = "runnable" /\ L[senders(t)] = <<>>
    BY <1>1, <1>2 DEF Fits
  <1>4. /\ l \in Headers /\ runqueue \in Headers /\ l # runqueue /\ Idle \in Task
        /\ \A u \in Task : senders(u) \in Headers /\ pages(u) \in Headers /\ senders(u) # l
        /\ \A u \in Task : u # t => pages(u) # l
    BY <1>1, NodeFacts, FitsFacts
  <1>5. list_is_linked(links, l) /\ L \in [Headers -> Seq(Node)]
    BY <1>1, <1>3 DEF Fits, Lists
  <1>6. Lists(g, M) /\ AsBefore(links, g)
    BY <1>1, <1>4, <1>5, FreeList
  <1>7. M[l] = <<>> /\ \A k \in Headers \ {l} : M[k] = L[k]
    BY <1>4, <1>5
  <1> HIDE DEF g, M
  <1>8. state \in [Task -> {"unused", "runnable", "blocked"}]
    BY <1>1 DEF Fits
  <1>9. r \in [Task -> {"unused", "runnable", "blocked"}] /\ r[t] = "unused" /\ \A u \in Task \ {t} : r[u] = state[u]
    BY <1>8
  <1> HIDE DEF r
  <1>10. M[runqueue] = L[runqueue] /\ \A u \in Task : M[senders(u)] = L[senders(u)]
    BY <1>4, <1>7
  <1>11. \A u \in Task : M[pages(u)] = IF u = t THEN <<>> ELSE L[pages(u)]
    BY <1>4, <1>7
  <1>12. Fits(g, M, r, x)
    <2>1. /\ r[Idle] = "runnable" /\ x \subseteq Task /\ Idle \notin x
          /\ list_is_linked(g, runqueue) /\ list_is_linked(g, pages(Idle))
      BY <1>1, <1>3, <1>4, <1>6, <1>9 DEF Fits, AsBefore
    <2>2. \A u \in Task \ {Idle} : r[u] # "unused" => list_is_linked(g, senders(u)) /\ list_is_linked(g, pages(u))
      BY <1>1, <1>4, <1>6, <1>9 DEF Fits, AsBefore
    <2>3. \A u \in Task : r[u] = "unused" \/ u \in x => M[senders(u)] = <<>>
      BY <1>1, <1>3, <1>9, <1>10 DEF Fits
    <2>4. \A u \in Task : r[u] = "unused" => M[pages(u)] = <<>>
      BY <1>1, <1>9, <1>11 DEF Fits
    <2>5. \A u \in Task : next(u) \in ToSet(M[runqueue]) => r[u] = "runnable" /\ u \notin x
      BY <1>1, <1>2, <1>9, <1>10 DEF Fits
    <2>6. \A u, d \in Task : waitqueue_next(u) \in ToSet(M[senders(d)]) => r[u] = "blocked"
      BY <1>1, <1>3, <1>9, <1>10 DEF Fits
    <2>7. \A u \in x : r[u] = "runnable"
      BY <1>1, <1>9 DEF Fits
    <2> QED
      BY <1>9, <2>1, <2>2, <2>3, <2>4, <2>5, <2>6, <2>7 DEF Fits
  <1>13. Off(M, current) /\ r[current] = "runnable"
    BY <1>1, <1>3, <1>9, <1>10 DEF Off
  <1>14. M = Emptied(L, pages(t))
    BY DEF M, Emptied
  <1> QED
    BY <1>2, <1>6, <1>12, <1>13, <1>14 DEF Kernel

(* Every step keeps the invariant.                                         *)
LEMMA KernelStep ==
    ASSUME KernelInv, [Next]_vars
    PROVE  KernelInv'
  <1>0. PICK L : Kernel(links, L, state, exited, current)
    BY DEF KernelInv
  <1>1. SUFFICES \E M : Kernel(links', M, state', exited', current')
    BY DEF KernelInv
  <1>2. CASE UNCHANGED <<links, state, exited, current>>
    BY <1>0, <1>2
  <1>3. CASE BootSwitch
    BY <1>0, <1>3, BootStep
  <1>4. CASE palloc
    <2>1. PICK p \in Page : FirstFree(p) /\ links' = Allocated(links, p)
      BY <1>4 DEF palloc
    <2> QED
      BY <1>0, <1>4, <2>1, AllocStep
  <1>5. CASE task_exit
    BY <1>0, <1>5, ExitStep
  <1>6. ASSUME NEW image \in Image, vm_create(image) PROVE \E M : Kernel(links', M, state', exited', current')
    <2>1. PICK t \in Task, p \in Page : Made(image, t, p)
      BY <1>6, CreateMakes
    <2> QED
      BY <1>0, <2>1, CreateStep
  <1>7. ASSUME NEW t \in Task, SendReady(t) PROVE \E M : Kernel(links', M, state', exited', current')
    BY <1>0, <1>7, SendReadyStep
  <1>8. ASSUME NEW t \in Task, SendQueue(t) PROVE \E M : Kernel(links', M, state', exited', current')
    BY <1>0, <1>8, SendQueueStep
  <1>9. ASSUME NEW t \in Task, task_destroy(t) PROVE \E M : Kernel(links', M, state', exited', current')
    BY <1>0, <1>9, DestroyStep
  <1>10. ASSUME NEW src \in Task \cup {IPC_ANY}, ipc_receive(src)
         PROVE  \E M : Kernel(links', M, state', exited', current')
    BY <1>0, <1>10, ReceiveStep
  <1>11. Work \/ arch_vm_entry \/ UNCHANGED vars => UNCHANGED <<links, state, exited, current>>
    BY DEF Work, arch_vm_entry, vars
  <1> QED
    BY <1>2, <1>3, <1>4, <1>5, <1>6, <1>7, <1>8, <1>9, <1>10, <1>11 DEF Next

(* The kernel's lists are lists, and the state of each task agrees with    *)
(* those it is in (list.c, task.c, ipc.c).                                 *)
THEOREM KernelInvariant ==
    Spec => []KernelInv
  <1>1. KernelInv /\ [Next]_vars => KernelInv'
    BY KernelStep
  <1>2. Init => KernelInv
    BY InitKernel DEF KernelInv
  <1> QED
    BY <1>1, <1>2, PTL DEF Spec

(* Walk finds the elements of each list.                                   *)
LEMMA WalkLists ==
    ASSUME NEW h, NEW L, Lists(h, L), NEW l \in Headers
    PROVE  /\ Walk(h.next, l) = L[l]
           /\ list_is_linked(h, l) => Walk(h.prev, l) = Reverse(L[l])
  <1>1. /\ l \in Node /\ NULL \notin Node /\ IsFiniteSet(Node)
        /\ h \in Heap(Node) /\ L[l] \in Seq(Node) /\ h.next \in [Node -> Node \cup {NULL}]
    BY KindFacts, NodeFacts DEF Lists, Heap
  <1>2. CASE list_is_linked(h, l)
    <2>1. Ring(h, l, L[l])
      BY <1>2 DEF Lists
    <2> QED
      BY <1>1, <2>1, WalkRing
  <1>3. CASE ~list_is_linked(h, l)
    <2>1. L[l] = <<>> /\ h.next[l] = NULL
      BY <1>3 DEF Lists, list_is_linked
    <2>2. Walk(h.next, l) = <<>>
      BY <1>1, <2>1, WalkUnlinked
    <2> QED
      BY <1>3, <2>1, <2>2
  <1> QED
    BY <1>2, <1>3

(* The two directions of every list agree, and no node is on two lists.    *)
THEOREM ListsMirroredAlways ==
    Spec => []ListsMirrored
  <1>1. KernelInv => ListsMirrored
    <2> SUFFICES ASSUME KernelInv PROVE ListsMirrored
      OBVIOUS
    <2>1. PICK L : Lists(links, L)
      BY DEF KernelInv, Kernel
    <2>2. \A l \in Headers : Walk(links.next, l) = L[l]
      BY <2>1, WalkLists
    <2>3. \A l \in Headers : list_is_linked(links, l) => Walk(links.prev, l) = Reverse(L[l])
      BY <2>1, WalkLists
    <2>4. \A l, k \in Headers : l # k => ToSet(L[l]) \cap ToSet(L[k]) = {}
      BY <2>1 DEF Lists
    <2> QED
      BY <2>2, <2>3, <2>4 DEF ListsMirrored
  <1> QED
    BY <1>1, KernelInvariant, PTL

(* The tasks in a list, from the nodes in it.                              *)
LEMMA EntryFacts ==
    ASSUME NEW l \in Headers, NEW s \in Seq(Node), Walk(links.next, l) = s, NEW t
    PROVE  t \in ToSet(Entries(l)) <=> \E e \in ToSet(s) : e[2] = t
  <1>1. Entries(l) = [i \in 1..Len(s) |-> s[i][2]]
    BY ElementsSeq DEF Entries, container
  <1>2. DOMAIN Entries(l) = 1..Len(s) /\ \A i \in 1..Len(s) : Entries(l)[i] = s[i][2]
    BY <1>1
  <1>3. t \in ToSet(Entries(l)) <=> \E i \in 1..Len(s) : s[i][2] = t
    BY <1>2 DEF ToSet
  <1> QED
    BY <1>3, ElementsSeq

(* The state of a task is that of the queue it is in.                      *)
THEOREM LinkedAsStateSaysAlways ==
    Spec => []LinkedAsStateSays
  <1>1. KernelInv => LinkedAsStateSays
    <2> SUFFICES ASSUME KernelInv PROVE LinkedAsStateSays
      OBVIOUS
    <2>1. PICK L : Lists(links, L) /\ Fits(links, L, state, exited) /\ Off(L, current)
      BY DEF KernelInv, Kernel
    <2>2. /\ \A e \in ToSet(L[runqueue]) : e[2] \in Task /\ next(e[2]) = e
          /\ \A d \in Task : \A e \in ToSet(L[senders(d)]) : e[2] \in Task /\ waitqueue_next(e[2]) = e
      BY <2>1, FitsFacts
    <2>3. /\ runqueue \in Headers /\ \A d \in Task : senders(d) \in Headers
          /\ \A t : next(t)[2] = t /\ waitqueue_next(t)[2] = t
      BY NodeFacts
    <2>4. L \in [Headers -> Seq(Node)]
      BY <2>1 DEF Lists
    <2>5. \A l \in Headers : Walk(links.next, l) = L[l] /\ L[l] \in Seq(Node)
      BY <2>1, <2>4, WalkLists
    <2>6. ASSUME NEW t \in Task
          PROVE  t \in ToSet(Entries(runqueue)) <=> next(t) \in ToSet(L[runqueue])
      <3>1. t \in ToSet(Entries(runqueue)) <=> \E e \in ToSet(L[runqueue]) : e[2] = t
        BY <2>3, <2>5, EntryFacts
      <3> QED
        BY <3>1, <2>2, <2>3
    <2>7. ASSUME NEW t \in Task, NEW d \in Task
          PROVE  t \in ToSet(Entries(senders(d))) <=> waitqueue_next(t) \in ToSet(L[senders(d)])
      <3>1. t \in ToSet(Entries(senders(d))) <=> \E e \in ToSet(L[senders(d)]) : e[2] = t
        BY <2>3, <2>5, EntryFacts
      <3> QED
        BY <3>1, <2>2, <2>3
    <2>8. ASSUME NEW t \in Task, list_is_linked(links, waitqueue_next(t))
          PROVE  \E d \in Task : waitqueue_next(t) \in ToSet(L[senders(d)])
      <3>1. waitqueue_next(t) \in WaitNodes
        BY DEF WaitNodes
      <3>2. PICK l \in Headers : waitqueue_next(t) \in ToSet(L[l])
        BY <3>1, <2>1, <2>8 DEF Lists
      <3>3. waitqueue_next(t) \in Kind(l)
        BY <3>2, <2>1 DEF Lists
      <3>4. PICK d \in Task : l = senders(d)
        BY <3>1, <3>3, NodeFacts DEF Kind
      <3> QED
        BY <3>2, <3>4
    <2>9. ASSUME NEW t \in Task, NEW d \in Task, waitqueue_next(t) \in ToSet(L[senders(d)])
          PROVE  list_is_linked(links, waitqueue_next(t))
      BY <2>1, <2>3, <2>9, UnlinkedAbsent DEF Absent
    <2>10. \A t \in Task : next(t) \in ToSet(L[runqueue]) => state[t] = "runnable" /\ t # current
      BY <2>1 DEF Fits, Off
    <2>11. \A t, d \in Task : waitqueue_next(t) \in ToSet(L[senders(d)]) => state[t] = "blocked"
      BY <2>1 DEF Fits
    <2> QED
      BY <2>6, <2>7, <2>8, <2>9, <2>10, <2>11 DEF LinkedAsStateSays
  <1> QED
    BY <1>1, KernelInvariant, PTL

----------------------------------------------------------------------------
(* The lists as Coroutines has them                                        *)

\* The tasks or pages that the nodes in s are fields of.
Tasks(s) == [i \in DOMAIN s |-> container(s[i])]

ReadyOf(L)   == Tasks(L[runqueue])
WaitingOf(L) == [t \in Task |-> Tasks(L[senders(t)])]
OwnedOf(L)   == [t \in Task |-> Tasks(L[pages(t)])]

(* What is done to the nodes is done to the structs they are fields of.    *)
LEMMA TasksFacts ==
    ASSUME NEW S, NEW s \in Seq(S)
    PROVE  /\ Len(Tasks(s)) = Len(s) /\ DOMAIN Tasks(s) = DOMAIN s
           /\ \A i \in DOMAIN s : Tasks(s)[i] = container(s[i])
           /\ s = <<>> <=> Tasks(s) = <<>>
           /\ \A e \in S : Tasks(Append(s, e)) = Append(Tasks(s), container(e))
           /\ s # <<>> => Tasks(Front(s)) = Front(Tasks(s)) /\ Last(Tasks(s)) = container(Last(s))
           /\ \A i \in 1..Len(s) : Tasks(RemoveAt(s, i)) = RemoveAt(Tasks(s), i)
  <1> DEFINE T == {container(e) : e \in S}
             q == Tasks(s)
  <1>1. /\ Len(s) \in Nat /\ DOMAIN s = 1..Len(s)
        /\ \A i \in 1..Len(s) : s[i] \in S
    OBVIOUS
  <1>2. q \in Seq(T) /\ Len(q) = Len(s) /\ DOMAIN q = 1..Len(s) /\ \A i \in 1..Len(s) : q[i] = container(s[i])
    <2>1. q = [i \in 1..Len(s) |-> container(s[i])]
      BY <1>1 DEF Tasks
    <2>2. q \in [1..Len(s) -> T]
      BY <1>1, <2>1
    <2> QED
      BY <1>1, <2>1, <2>2, ST!SeqDef
  <1>3. s = <<>> <=> q = <<>>
    <2>1. s = <<>> <=> Len(s) = 0
      BY ST!EmptySeq
    <2> HIDE DEF q, T
    <2>2. q = <<>> <=> Len(q) = 0
      BY <1>2, ST!EmptySeq
    <2> QED
      BY <2>1, <2>2, <1>2
  <1>4. ASSUME NEW e \in S PROVE Tasks(Append(s, e)) = Append(q, container(e))
    <2>1. /\ Append(s, e) \in Seq(S) /\ DOMAIN Append(s, e) = 1..(Len(s) + 1)
          /\ \A i \in 1..(Len(s) + 1) : Append(s, e)[i] = IF i = Len(s) + 1 THEN e ELSE s[i]
      OBVIOUS
    <2>2. container(e) \in T
      OBVIOUS
    <2> HIDE DEF q, T
    <2>3. /\ Append(q, container(e)) \in Seq(T) /\ DOMAIN Append(q, container(e)) = 1..(Len(s) + 1)
          /\ \A i \in 1..(Len(s) + 1) :
                Append(q, container(e))[i] = IF i = Len(s) + 1 THEN container(e) ELSE q[i]
      BY <1>2, <2>2
    <2>4. \A i \in 1..(Len(s) + 1) : i = Len(s) + 1 \/ i \in 1..Len(s)
      BY <1>1
    <2> DEFINE a == Append(s, e)
               b == Append(q, container(e))
    <2>5. \A i \in 1..(Len(s) + 1) : container(a[i]) = b[i]
      BY <1>2, <2>1, <2>3, <2>4
    <2>6. DOMAIN a = 1..(Len(s) + 1) /\ b = [i \in 1..(Len(s) + 1) |-> b[i]]
      <3>1. DOMAIN a = 1..(Len(s) + 1)
        BY <2>1
      <3>2. b \in Seq(T) /\ DOMAIN b = 1..(Len(s) + 1)
        BY <2>3
      <3> HIDE DEF b
      <3> QED
        BY <3>1, <3>2
    <2> HIDE DEF a, b
    <2>7. Tasks(a) = b
      <3>1. Tasks(a) = [i \in 1..(Len(s) + 1) |-> container(a[i])]
        BY ONLY <2>6 DEF Tasks
      <3>2. [i \in 1..(Len(s) + 1) |-> container(a[i])] = [i \in 1..(Len(s) + 1) |-> b[i]]
        BY ONLY <2>5
      <3> QED
        BY ONLY <3>1, <3>2, <2>6
    <2> QED
      BY <2>7 DEF a, b
  <1>5. ASSUME s # <<>> PROVE Tasks(Front(s)) = Front(q) /\ Last(q) = container(Last(s))
    <2>1. Len(s) - 1 \in Nat /\ Len(s) \in 1..Len(s) /\ \A i \in 1..(Len(s) - 1) : i \in 1..Len(s)
      BY <1>1, <1>5, ST!EmptySeq
    <2>2. /\ DOMAIN Front(s) = 1..(Len(s) - 1)
          /\ \A i \in 1..(Len(s) - 1) : Front(s)[i] = s[i]
      BY <1>1, <2>1 DEF Front
    <2> HIDE DEF q, T
    <2>3. /\ Front(q) \in Seq(T) /\ DOMAIN Front(q) = 1..(Len(s) - 1)
          /\ \A i \in 1..(Len(s) - 1) : Front(q)[i] = q[i]
      BY <1>2, <2>1 DEF Front
    <2>4. Front(q) = [i \in 1..(Len(s) - 1) |-> Front(q)[i]]
      BY <2>3
    <2>5. Tasks(Front(s)) = Front(q)
      BY <1>2, <2>1, <2>2, <2>3, <2>4 DEF Tasks
    <2>6. Last(q) = container(Last(s))
      BY <1>2, <2>1 DEF Last
    <2> QED
      BY <2>5, <2>6
  <1>6. ASSUME NEW i \in 1..Len(s) PROVE Tasks(RemoveAt(s, i)) = RemoveAt(q, i)
    <2> DEFINE n == Len(s)
    <2>1. /\ n \in Nat /\ i \in Nat /\ i - 1 \in Nat /\ n - 1 \in Nat
          /\ \A j \in 1..(n - 1) : j \in 1..n /\ j + 1 \in 1..n
      BY <1>1
    <2>2. /\ RemoveAt(s, i) \in Seq(S) /\ DOMAIN RemoveAt(s, i) = 1..(n - 1)
          /\ \A j \in 1..(n - 1) : RemoveAt(s, i)[j] = IF j < i THEN s[j] ELSE s[j + 1]
      <3>1. RemoveAt(s, i) \in Seq(S)
        BY <2>1 DEF RemoveAt
      <3> QED
        BY <3>1, RemovePlaces DEF Without
    <2> HIDE DEF q, T
    <2>3. /\ RemoveAt(q, i) \in Seq(T) /\ DOMAIN RemoveAt(q, i) = 1..(n - 1)
          /\ \A j \in 1..(n - 1) : RemoveAt(q, i)[j] = IF j < i THEN q[j] ELSE q[j + 1]
      <3>1. RemoveAt(q, i) \in Seq(T) /\ q \in Seq(T) /\ i \in 1..Len(q) /\ Len(q) = n
        BY <1>2, <2>1 DEF RemoveAt
      <3> QED
        BY <3>1, RemovePlaces DEF Without
    <2>4. RemoveAt(q, i) = [j \in 1..(n - 1) |-> RemoveAt(q, i)[j]]
      BY <2>3
    <2> QED
      BY <1>2, <2>1, <2>2, <2>3, <2>4 DEF Tasks
  <1> QED
    BY <1>1, <1>2, <1>3, <1>4, <1>5, <1>6

(* The lists of Coroutines are those that the kernel's pointers make.      *)
LEMMA Views ==
    ASSUME NEW L, Lists(links, L)
    PROVE  readyBar = ReadyOf(L) /\ waitingBar = WaitingOf(L) /\ ownedBar = OwnedOf(L)
  <1>1. \A l \in Headers : Walk(links.next, l) = L[l]
    BY WalkLists
  <1>2. runqueue \in Headers /\ \A t \in Task : senders(t) \in Headers /\ pages(t) \in Headers
    BY NodeFacts
  <1>3. \A l \in Headers : Entries(l) = Tasks(L[l])
    BY <1>1 DEF Entries, Tasks
  <1> QED
    BY <1>2, <1>3 DEF readyBar, waitingBar, ownedBar, ReadyOf, WaitingOf, OwnedOf

(* The same after a step.                                                  *)
LEMMA ViewsNext ==
    ASSUME NEW L, Lists(links', L)
    PROVE  readyBar' = ReadyOf(L) /\ waitingBar' = WaitingOf(L) /\ ownedBar' = OwnedOf(L)
  <1>1. \A l \in Headers : Walk(links'.next, l) = L[l]
    BY WalkLists
  <1>2. runqueue \in Headers /\ \A t \in Task : senders(t) \in Headers /\ pages(t) \in Headers
    BY NodeFacts
  <1>3. \A l \in Headers : Entries(l)' = Tasks(L[l])
    BY <1>1 DEF Entries, Tasks
  <1>4. readyBar' = Entries(runqueue)' /\ waitingBar' = [t \in Task |-> Entries(senders(t))']
    BY DEF readyBar, waitingBar
  <1>5. ownedBar' = [t \in Task |-> Entries(pages(t))']
    BY DEF ownedBar
  <1> QED
    BY <1>2, <1>3, <1>4, <1>5 DEF ReadyOf, WaitingOf, OwnedOf

(* The headers are different, and a struct is found from its link.         *)
LEMMA HeaderFacts ==
    /\ runqueue \in Headers
    /\ \A t \in Task : /\ senders(t) \in Headers /\ senders(t) # runqueue
                       /\ pages(t) \in Headers /\ pages(t) # runqueue
                       /\ next(t) \in Node /\ container(next(t)) = t
                       /\ waitqueue_next(t) \in Node /\ container(waitqueue_next(t)) = t
    /\ \A t, u \in Task : /\ senders(t) # pages(u)
                          /\ senders(t) = senders(u) => t = u
                          /\ pages(t) = pages(u) => t = u
    /\ \A p \in Page : link(p) \in Node /\ container(link(p)) = p
  <1>1. \A t \in Task : container(next(t)) = t /\ container(waitqueue_next(t)) = t
    BY DEF container, next, waitqueue_next
  <1>2. \A p \in Page : link(p) \in Node /\ container(link(p)) = p
    BY DEF container, link, Node
  <1>3. \A t \in Task : next(t) \in Node /\ waitqueue_next(t) \in Node
    BY DEF Node
  <1> QED
    BY <1>1, <1>2, <1>3, NodeFacts

(* A push at the end of the run queue.                                     *)
LEMMA BehindReady ==
    ASSUME NEW L \in [Headers -> Seq(Node)], NEW t \in Task
    PROVE  LET M == Behind(L, runqueue, next(t))
           IN /\ M \in [Headers -> Seq(Node)]
              /\ ReadyOf(M) = Append(ReadyOf(L), t) /\ WaitingOf(M) = WaitingOf(L) /\ OwnedOf(M) = OwnedOf(L)
  <1> DEFINE M == Behind(L, runqueue, next(t))
  <1>1. L[runqueue] \in Seq(Node) /\ Append(L[runqueue], next(t)) \in Seq(Node)
    BY HeaderFacts
  <1>2. M \in [Headers -> Seq(Node)]
    BY <1>1 DEF Behind
  <1>3. M[runqueue] = Append(L[runqueue], next(t)) /\ \A l \in Headers \ {runqueue} : M[l] = L[l]
    BY HeaderFacts DEF Behind
  <1> HIDE DEF M
  <1>4. ReadyOf(M) = Append(ReadyOf(L), t)
    BY <1>1, <1>3, TasksFacts, HeaderFacts DEF ReadyOf
  <1>5. WaitingOf(M) = WaitingOf(L) /\ OwnedOf(M) = OwnedOf(L)
    BY <1>3, HeaderFacts DEF WaitingOf, OwnedOf
  <1> QED
    BY <1>2, <1>4, <1>5 DEF M

(* A push at the end of a sender queue.                                    *)
LEMMA BehindWaiting ==
    ASSUME NEW L \in [Headers -> Seq(Node)], NEW d \in Task, NEW t \in Task
    PROVE  LET M == Behind(L, senders(d), waitqueue_next(t))
           IN /\ M \in [Headers -> Seq(Node)]
              /\ ReadyOf(M) = ReadyOf(L) /\ OwnedOf(M) = OwnedOf(L)
              /\ WaitingOf(M) = [WaitingOf(L) EXCEPT ![d] = Append(@, t)]
  <1> DEFINE l == senders(d)
             e == waitqueue_next(t)
             M == Behind(L, l, e)
  <1>0. l \in Headers /\ e \in Node /\ container(e) = t
    BY HeaderFacts
  <1>1. L[l] \in Seq(Node) /\ Append(L[l], e) \in Seq(Node)
    BY <1>0
  <1>2. M \in [Headers -> Seq(Node)]
    BY <1>1 DEF Behind
  <1>3. M[l] = Append(L[l], e) /\ \A k \in Headers \ {l} : M[k] = L[k]
    BY <1>0 DEF Behind
  <1> HIDE DEF M
  <1>4. ReadyOf(M) = ReadyOf(L) /\ OwnedOf(M) = OwnedOf(L)
    BY <1>3, HeaderFacts DEF ReadyOf, OwnedOf
  <1>5. Tasks(M[l]) = Append(Tasks(L[l]), t)
    BY <1>0, <1>1, <1>3, TasksFacts
  <1>6. \A u \in Task \ {d} : M[senders(u)] = L[senders(u)]
    BY <1>3, HeaderFacts
  <1>7. WaitingOf(M) = [WaitingOf(L) EXCEPT ![d] = Append(Tasks(L[l]), t)]
    BY <1>5, <1>6 DEF WaitingOf
  <1>8. WaitingOf(L)[d] = Tasks(L[l])
    BY DEF WaitingOf
  <1> QED
    BY <1>2, <1>4, <1>7, <1>8 DEF M

(* A push at the end of a page list.                                       *)
LEMMA BehindOwned ==
    ASSUME NEW L \in [Headers -> Seq(Node)], NEW t \in Task, NEW p \in Page
    PROVE  LET M == Behind(L, pages(t), link(p))
           IN /\ M \in [Headers -> Seq(Node)]
              /\ ReadyOf(M) = ReadyOf(L) /\ WaitingOf(M) = WaitingOf(L)
              /\ OwnedOf(M) = [OwnedOf(L) EXCEPT ![t] = Append(@, p)]
  <1> DEFINE l == pages(t)
             e == link(p)
             M == Behind(L, l, e)
  <1>0. l \in Headers /\ e \in Node /\ container(e) = p
    BY HeaderFacts
  <1>1. L[l] \in Seq(Node) /\ Append(L[l], e) \in Seq(Node)
    BY <1>0
  <1>2. M \in [Headers -> Seq(Node)]
    BY <1>1 DEF Behind
  <1>3. M[l] = Append(L[l], e) /\ \A k \in Headers \ {l} : M[k] = L[k]
    BY <1>0 DEF Behind
  <1> HIDE DEF M
  <1>4. ReadyOf(M) = ReadyOf(L) /\ WaitingOf(M) = WaitingOf(L)
    BY <1>3, HeaderFacts DEF ReadyOf, WaitingOf
  <1>5. Tasks(M[l]) = Append(Tasks(L[l]), p)
    BY <1>0, <1>1, <1>3, TasksFacts
  <1>6. \A u \in Task \ {t} : M[pages(u)] = L[pages(u)]
    BY <1>3, HeaderFacts
  <1>7. OwnedOf(M) = [OwnedOf(L) EXCEPT ![t] = Append(Tasks(L[l]), p)]
    BY <1>5, <1>6 DEF OwnedOf
  <1>8. OwnedOf(L)[t] = Tasks(L[l])
    BY DEF OwnedOf
  <1> QED
    BY <1>2, <1>4, <1>7, <1>8 DEF M

(* The first sender that matches leaves its queue.                         *)
LEMMA LackingWaiting ==
    ASSUME NEW L \in [Headers -> Seq(Node)], NEW d \in Task, NEW i \in 1..Len(L[senders(d)])
    PROVE  LET M == Lacking(L, senders(d), i)
           IN /\ M \in [Headers -> Seq(Node)]
              /\ ReadyOf(M) = ReadyOf(L) /\ OwnedOf(M) = OwnedOf(L)
              /\ WaitingOf(M) = [WaitingOf(L) EXCEPT ![d] = RemoveAt(@, i)]
  <1> DEFINE l == senders(d)
             M == Lacking(L, l, i)
  <1>0. l \in Headers
    BY HeaderFacts
  <1>1. L[l] \in Seq(Node)
    BY <1>0
  <1>9. RemoveAt(L[l], i) \in Seq(Node)
    BY <1>1 DEF RemoveAt
  <1>2. M \in [Headers -> Seq(Node)]
    BY <1>9 DEF Lacking
  <1>3. M[l] = RemoveAt(L[l], i) /\ \A k \in Headers \ {l} : M[k] = L[k]
    BY <1>0 DEF Lacking
  <1> HIDE DEF M
  <1>4. ReadyOf(M) = ReadyOf(L) /\ OwnedOf(M) = OwnedOf(L)
    BY <1>3, HeaderFacts DEF ReadyOf, OwnedOf
  <1>5. Tasks(M[l]) = RemoveAt(Tasks(L[l]), i)
    BY <1>1, <1>3, TasksFacts
  <1>6. \A u \in Task \ {d} : M[senders(u)] = L[senders(u)]
    BY <1>3, HeaderFacts
  <1>7. WaitingOf(M) = [WaitingOf(L) EXCEPT ![d] = RemoveAt(Tasks(L[l]), i)]
    BY <1>5, <1>6 DEF WaitingOf
  <1>8. WaitingOf(L)[d] = Tasks(L[l])
    BY DEF WaitingOf
  <1> QED
    BY <1>2, <1>4, <1>7, <1>8 DEF M

(* All pages of a task are freed.                                          *)
LEMMA EmptiedOwned ==
    ASSUME NEW L \in [Headers -> Seq(Node)], NEW t \in Task
    PROVE  LET M == Emptied(L, pages(t))
           IN /\ ReadyOf(M) = ReadyOf(L) /\ WaitingOf(M) = WaitingOf(L)
              /\ OwnedOf(M) = [OwnedOf(L) EXCEPT ![t] = <<>>]
  <1> DEFINE l == pages(t)
             M == Emptied(L, l)
  <1>0. l \in Headers
    BY HeaderFacts
  <1>3. M[l] = <<>> /\ \A k \in Headers \ {l} : M[k] = L[k]
    BY <1>0 DEF Emptied
  <1> HIDE DEF M
  <1>4. ReadyOf(M) = ReadyOf(L) /\ WaitingOf(M) = WaitingOf(L)
    BY <1>3, HeaderFacts DEF ReadyOf, WaitingOf
  <1>5. Tasks(M[l]) = <<>>
    BY <1>3, TasksFacts, EmptyList
  <1>6. \A u \in Task \ {t} : M[pages(u)] = L[pages(u)]
    BY <1>3, HeaderFacts
  <1>7. OwnedOf(M) = [OwnedOf(L) EXCEPT ![t] = <<>>]
    BY <1>5, <1>6 DEF OwnedOf
  <1> QED
    BY <1>4, <1>7 DEF M

(* task_switch takes the last from the run queue.                          *)
LEMMA TakenReady ==
    ASSUME NEW L \in [Headers -> Seq(Node)], NEW s, NEW c
    PROVE  /\ ReadyOf(Taken(L)) = IF ReadyOf(L) = <<>> THEN ReadyOf(L) ELSE Front(ReadyOf(L))
           /\ WaitingOf(Taken(L)) = WaitingOf(L) /\ OwnedOf(Taken(L)) = OwnedOf(L)
           /\ Chosen(L, s, c) = IF ReadyOf(L) # <<>> THEN Last(ReadyOf(L))
                                ELSE IF s[c] = "runnable" THEN c ELSE Idle
  <1> DEFINE q == L[runqueue]
  <1>1. q \in Seq(Node)
    BY HeaderFacts
  <1>2. ReadyOf(L) = <<>> <=> q = <<>>
    BY <1>1, TasksFacts DEF ReadyOf
  <1>3. CASE q = <<>>
    BY <1>2, <1>3 DEF Taken, Chosen
  <1>4. CASE q # <<>>
    <2>1. Tasks(Front(q)) = Front(Tasks(q)) /\ Last(Tasks(q)) = container(Last(q))
      BY <1>1, <1>4, TasksFacts
    <2>2. Taken(L) = [L EXCEPT ![runqueue] = Front(q)]
      BY <1>4 DEF Taken
    <2>3. Taken(L)[runqueue] = Front(q) /\ \A k \in Headers \ {runqueue} : Taken(L)[k] = L[k]
      BY <2>2, HeaderFacts
    <2>4. ReadyOf(Taken(L)) = Front(ReadyOf(L))
      BY <2>1, <2>3 DEF ReadyOf
    <2>5. WaitingOf(Taken(L)) = WaitingOf(L) /\ OwnedOf(Taken(L)) = OwnedOf(L)
      BY <2>3, HeaderFacts DEF WaitingOf, OwnedOf
    <2>6. Chosen(L, s, c) = Last(ReadyOf(L))
      BY <1>4, <2>1 DEF Chosen, ReadyOf
    <2> QED
      BY <1>2, <1>4, <2>4, <2>5, <2>6
  <1> QED
    BY <1>3, <1>4

----------------------------------------------------------------------------
(* Registers and stacks                                                    *)

\* What a word is.
Words == STRING \cup {"ra", "kernel", "arch_vm_entry", "frame", "0"}

\* The words of a frame by place.
RiscvOrder(i) == IF i = 1 THEN "ra" ELSE Saved[i - 1]
X86Order(i)   == IF i = Depth THEN "ra" ELSE Saved[Depth - i]

\* The sequence c is e before s, or e after s.
Before(e, s, c) == c = [i \in 1..(Len(s) + 1) |-> IF i = 1 THEN e ELSE s[i - 1]]
After(e, s, c)  == c = [i \in 1..(Len(s) + 1) |-> IF i = Len(s) + 1 THEN e ELSE s[i]]

(* A sequence with one element more.                                       *)
LEMMA OneMore ==
    ASSUME NEW S, NEW e \in S, NEW s \in Seq(S)
    PROVE  /\ <<e>> \o s \in Seq(S) /\ Before(e, s, <<e>> \o s)
           /\ s \o <<e>> \in Seq(S) /\ After(e, s, s \o <<e>>)
  <1> DEFINE u == <<e>>
             a == u \o s
             b == s \o u
             n == Len(s)
  <1>1. u \in Seq(S) /\ Len(u) = 1 /\ u[1] = e /\ n \in Nat
    OBVIOUS
  <1> HIDE DEF u
  <1>2. /\ a \in Seq(S) /\ Len(a) = Len(u) + Len(s)
        /\ \A i \in 1..(Len(u) + Len(s)) : a[i] = IF i <= Len(u) THEN u[i] ELSE s[i - Len(u)]
    BY <1>1, ST!ConcatProperties
  <1>3. /\ b \in Seq(S) /\ Len(b) = Len(s) + Len(u)
        /\ \A i \in 1..(Len(s) + Len(u)) : b[i] = IF i <= Len(s) THEN s[i] ELSE u[i - Len(s)]
    BY <1>1, ST!ConcatProperties
  <1> HIDE DEF a, b, n
  <1>4. Len(u) + Len(s) = n + 1 /\ Len(s) + Len(u) = n + 1
    BY <1>1 DEF n
  <1>5. DOMAIN a = 1..(n + 1) /\ DOMAIN b = 1..(n + 1)
    BY <1>2, <1>3, <1>4
  <1>6. \A i \in 1..(n + 1) : a[i] = IF i = 1 THEN e ELSE s[i - 1]
    BY <1>1, <1>2, <1>4
  <1>7. \A i \in 1..(n + 1) : b[i] = IF i = n + 1 THEN e ELSE s[i]
    <2> SUFFICES ASSUME NEW i \in 1..(n + 1) PROVE b[i] = IF i = n + 1 THEN e ELSE s[i]
      OBVIOUS
    <2>1. CASE i = n + 1
      <3>1. ~(i <= n) /\ i - n = 1
        BY <2>1, <1>1
      <3> QED
        BY <2>1, <3>1, <1>1, <1>3, <1>4 DEF n
    <2>2. CASE i <= n
      <3>1. i # n + 1
        BY <2>2, <1>1
      <3> QED
        BY <2>2, <3>1, <1>3, <1>4 DEF n
    <2> QED
      BY <2>1, <2>2, <1>1
  <1>8. a = [i \in 1..(n + 1) |-> a[i]] /\ b = [i \in 1..(n + 1) |-> b[i]]
    <2>1. a \in Seq(S) /\ b \in Seq(S)
      BY <1>2, <1>3
    <2> QED
      BY ONLY <2>1, <1>5
  <1>9. a = [i \in 1..(n + 1) |-> IF i = 1 THEN e ELSE s[i - 1]]
    BY <1>6, <1>8
  <1>10. b = [i \in 1..(n + 1) |-> IF i = n + 1 THEN e ELSE s[i]]
    BY <1>7, <1>8
  <1> QED
    BY <1>2, <1>3, <1>9, <1>10 DEF Before, After, a, b, u, n

(* What is pushed on the stack and what is popped, word by word.           *)
LEMMA OrderFacts ==
    /\ Depth \in Nat \ {0} /\ Depth - 1 = Len(Saved)
    /\ <<"ra">> \o Saved \in Seq(Words) /\ <<"ra">> \o Saved = [i \in 1..Depth |-> RiscvOrder(i)]
    /\ SaveX86 = [i \in 1..Depth |-> X86Order(i)]
    /\ LoadX86 = [i \in 1..Depth |-> X86Order(i)]
    /\ FreshRiscv32 = [i \in 1..Depth |-> IF i = 1 THEN "arch_vm_entry" ELSE "0"]
    /\ FreshX86 = [i \in 1..Depth |-> IF i = Depth THEN "arch_vm_entry" ELSE "0"]
  <1> DEFINE n == Len(Saved)
             a == <<"ra">> \o Saved
             r == Reverse(Saved)
  <1>1. Saved \in Seq(Words) /\ n \in Nat /\ DOMAIN Saved = 1..n
    BY SwitchAssumption DEF Words
  <1>2. Depth = n + 1 /\ Depth \in Nat \ {0} /\ Depth - 1 = n
    BY <1>1 DEF Depth
  <1>3. "ra" \in Words /\ "0" \in Words /\ "arch_vm_entry" \in Words
    BY DEF Words
  <1>4. a \in Seq(Words) /\ a = [i \in 1..Depth |-> RiscvOrder(i)]
    <2>1. a \in Seq(Words) /\ Before("ra", Saved, a)
      BY <1>1, <1>3, OneMore
    <2> HIDE DEF a
    <2>2. a = [i \in 1..(n + 1) |-> IF i = 1 THEN "ra" ELSE Saved[i - 1]]
      BY <2>1 DEF Before
    <2> QED
      BY <2>1, <2>2, <1>2 DEF RiscvOrder
  <1>5. r \in Seq(Words) /\ Len(r) = n /\ \A i \in 1..n : r[i] = Saved[Depth - i]
    BY <1>1, <1>2 DEF Reverse
  <1> HIDE DEF a, r, n
  <1>6. r \o <<"ra">> = [i \in 1..Depth |-> IF i = Depth THEN "ra" ELSE r[i]]
    <2>1. After("ra", r, r \o <<"ra">>)
      BY <1>3, <1>5, OneMore
    <2> QED
      BY <2>1, <1>2, <1>5 DEF After
  <1>7. \A i \in 1..Depth : i = Depth \/ i \in 1..n
    BY <1>1, <1>2
  <1>8. LoadX86 = [i \in 1..Depth |-> X86Order(i)]
    BY <1>5, <1>6, <1>7 DEF LoadX86, X86Order, r
  <1>9. SaveX86 = [i \in 1..Depth |-> X86Order(i)]
    <2>1. Len(a) = Depth
      BY <1>2, <1>4
    <2>2. Reverse(a) = [i \in 1..Depth |-> a[(Depth - i) + 1]]
      BY <2>1 DEF Reverse
    <2>3. \A i \in 1..Depth : /\ (Depth - i) + 1 \in 1..Depth
                              /\ (Depth - i) + 1 = 1 <=> i = Depth
                              /\ ((Depth - i) + 1) - 1 = Depth - i
      BY <1>2
    <2>4. \A i \in 1..Depth : a[(Depth - i) + 1] = X86Order(i)
      BY <2>3, <1>4 DEF RiscvOrder, X86Order
    <2> QED
      BY <2>2, <2>4 DEF SaveX86, a
  <1>10. Zeros \in Seq(Words) /\ Len(Zeros) = n /\ \A i \in 1..n : Zeros[i] = "0"
    <2>1. Zeros = [i \in 1..n |-> "0"]
      BY <1>1 DEF Zeros
    <2>2. n \in Nat
      BY <1>1
    <2> HIDE DEF n
    <2> QED
      BY <2>1, <2>2, <1>3
  <1>11. /\ FreshRiscv32 = [i \in 1..Depth |-> IF i = 1 THEN "arch_vm_entry" ELSE Zeros[i - 1]]
         /\ FreshX86 = [i \in 1..Depth |-> IF i = Depth THEN "arch_vm_entry" ELSE Zeros[i]]
    <2>1. Before("arch_vm_entry", Zeros, FreshRiscv32) /\ After("arch_vm_entry", Zeros, FreshX86)
      BY <1>3, <1>10, OneMore DEF FreshRiscv32, FreshX86
    <2> QED
      BY <2>1, <1>2, <1>10 DEF Before, After
  <1>12. \A i \in 1..Depth : i # 1 => i - 1 \in 1..n
    BY <1>1, <1>2
  <1>13. /\ FreshRiscv32 = [i \in 1..Depth |-> IF i = 1 THEN "arch_vm_entry" ELSE "0"]
         /\ FreshX86 = [i \in 1..Depth |-> IF i = Depth THEN "arch_vm_entry" ELSE "0"]
    BY <1>7, <1>10, <1>11, <1>12
  <1> QED
    BY <1>2, <1>4, <1>8, <1>9, <1>13 DEF a, n

\* The order o of the words of a frame, and the frame f of a new task.
Ordered(o, f) ==
    /\ \A i \in 1..Depth : o[i] \in {"ra"} \cup Register
    /\ \A w \in {"ra"} \cup Register : \E i \in 1..Depth : o[i] = w
    /\ f \in [1..Depth -> Words]
    /\ \A i \in 1..Depth : f[i] = IF o[i] = "ra" THEN "arch_vm_entry" ELSE "0"

(* On every architecture a frame has each register once, is read as it was *)
(* written, and that of a new task has the address of arch_vm_entry where  *)
(* the return address is read.                                             *)
LEMMA ArchFacts ==
    ASSUME NEW a \in Arch
    PROVE  Save[a] = Load[a] /\ Ordered(Load[a], Fresh[a])
  <1>1. /\ Saved \in Seq(STRING) /\ Depth \in Nat \ {0} /\ Depth - 1 = Len(Saved)
        /\ DOMAIN Saved = 1..(Depth - 1) /\ a \in {"riscv32", "riscv64", "x86_64"} /\ "ra" \notin Register
    BY SwitchAssumption, OrderFacts
  <1>2. \A i \in 1..(Depth - 1) : Saved[i] \in Register
    BY <1>1 DEF Register, ToSet
  <1>3. \A r \in Register : \E i \in 1..(Depth - 1) : Saved[i] = r
    BY <1>1 DEF Register, ToSet
  <1>4. \A i \in 1..Depth : i # 1 => i - 1 \in 1..(Depth - 1) /\ RiscvOrder(i) \in Register
    BY <1>1, <1>2 DEF RiscvOrder
  <1>5. \A i \in 1..Depth : i # Depth => Depth - i \in 1..(Depth - 1) /\ X86Order(i) \in Register
    BY <1>1, <1>2 DEF X86Order
  <1>6. 1 \in 1..Depth /\ Depth \in 1..Depth /\ RiscvOrder(1) = "ra" /\ X86Order(Depth) = "ra"
    BY <1>1 DEF RiscvOrder, X86Order
  <1>7. "0" \in Words /\ "arch_vm_entry" \in Words
    BY DEF Words
  <1>8. Ordered([i \in 1..Depth |-> RiscvOrder(i)], [i \in 1..Depth |-> IF i = 1 THEN "arch_vm_entry" ELSE "0"])
    <2> DEFINE o == [i \in 1..Depth |-> RiscvOrder(i)]
               f == [i \in 1..Depth |-> IF i = 1 THEN "arch_vm_entry" ELSE "0"]
    <2>1. \A i \in 1..Depth : o[i] = RiscvOrder(i) /\ f[i] = IF i = 1 THEN "arch_vm_entry" ELSE "0"
      OBVIOUS
    <2>2. f \in [1..Depth -> Words]
      BY <1>7
    <2> HIDE DEF o, f
    <2>3. ASSUME NEW r \in Register PROVE \E i \in 1..Depth : o[i] = r
      <3>1. PICK j \in 1..(Depth - 1) : Saved[j] = r
        BY <1>3
      <3>2. j + 1 \in 1..Depth /\ j + 1 # 1 /\ (j + 1) - 1 = j
        BY <1>1
      <3> QED
        BY <2>1, <3>1, <3>2 DEF RiscvOrder
    <2>4. \A i \in 1..Depth : o[i] = "ra" <=> i = 1
      BY <2>1, <1>1, <1>4, <1>6
    <2>5. \A i \in 1..Depth : o[i] \in {"ra"} \cup Register
      BY <2>1, <1>4, <1>6
    <2> QED
      BY <2>1, <2>2, <2>3, <2>4, <2>5, <1>6 DEF Ordered, o, f
  <1>9. Ordered([i \in 1..Depth |-> X86Order(i)], [i \in 1..Depth |-> IF i = Depth THEN "arch_vm_entry" ELSE "0"])
    <2> DEFINE o == [i \in 1..Depth |-> X86Order(i)]
               f == [i \in 1..Depth |-> IF i = Depth THEN "arch_vm_entry" ELSE "0"]
    <2>1. \A i \in 1..Depth : o[i] = X86Order(i) /\ f[i] = IF i = Depth THEN "arch_vm_entry" ELSE "0"
      OBVIOUS
    <2>2. f \in [1..Depth -> Words]
      BY <1>7
    <2> HIDE DEF o, f
    <2>3. ASSUME NEW r \in Register PROVE \E i \in 1..Depth : o[i] = r
      <3>1. PICK j \in 1..(Depth - 1) : Saved[j] = r
        BY <1>3
      <3>2. Depth - j \in 1..Depth /\ Depth - j # Depth /\ Depth - (Depth - j) = j
        BY <1>1
      <3> QED
        BY <2>1, <3>1, <3>2 DEF X86Order
    <2>4. \A i \in 1..Depth : o[i] = "ra" <=> i = Depth
      BY <2>1, <1>1, <1>5, <1>6
    <2>5. \A i \in 1..Depth : o[i] \in {"ra"} \cup Register
      BY <2>1, <1>5, <1>6
    <2> QED
      BY <2>1, <2>2, <2>3, <2>4, <2>5, <1>6 DEF Ordered, o, f
  <1>10. CASE a \in {"riscv32", "riscv64"}
    <2>1. /\ Save[a] = <<"ra">> \o Saved /\ Load[a] = <<"ra">> \o Saved
          /\ Fresh[a] = FreshRiscv32
      BY <1>10 DEF Save, Load, Fresh, SaveRiscv32, SaveRiscv64, LoadRiscv32, LoadRiscv64, FreshRiscv32, FreshRiscv64
    <2>2. Load[a] = [i \in 1..Depth |-> RiscvOrder(i)]
      BY <2>1, OrderFacts
    <2>3. Fresh[a] = [i \in 1..Depth |-> IF i = 1 THEN "arch_vm_entry" ELSE "0"]
      BY <2>1, OrderFacts
    <2> QED
      BY <2>1, <2>2, <2>3, <1>8
  <1>11. CASE a = "x86_64"
    <2>1. Save[a] = SaveX86 /\ Load[a] = LoadX86 /\ Fresh[a] = FreshX86
      BY <1>11 DEF Save, Load, Fresh
    <2> QED
      BY <2>1, <1>9, OrderFacts
  <1> QED
    BY <1>1, <1>10, <1>11

(* A word is read from a place of the frame.                               *)
LEMMA WordPlace ==
    ASSUME arch \in Arch, NEW w \in {"ra"} \cup Register
    PROVE  \E i \in 1..Depth : Load[arch][i] = w /\ \A s : Word(s, w) = s[i]
  <1> DEFINE i == CHOOSE j \in 1..Depth : Load[arch][j] = w
  <1>1. \E j \in 1..Depth : Load[arch][j] = w
    BY ArchFacts DEF Ordered
  <1>2. i \in 1..Depth /\ Load[arch][i] = w
    BY <1>1
  <1>3. \A s : Word(s, w) = s[i]
    BY DEF Word
  <1> HIDE DEF i
  <1> QED
    BY <1>2, <1>3

(* A part of a sequence, the whole of it, and what is empty.               *)
LEMMA SubSeqFacts ==
    ASSUME NEW S, NEW s \in Seq(S), NEW m \in Nat, NEW n \in Nat, 1 <= m, n <= Len(s), m <= n + 1
    PROVE  /\ SubSeq(s, m, n) \in Seq(S) /\ Len(SubSeq(s, m, n)) = (n - m) + 1
           /\ \A i \in 1..((n - m) + 1) : SubSeq(s, m, n)[i] = s[(m + i) - 1]
           /\ m = 1 /\ n = Len(s) => SubSeq(s, m, n) = s
           /\ m = n + 1 => SubSeq(s, m, n) = <<>>
  <1> DEFINE q == SubSeq(s, m, n)
  <1>1. /\ q \in Seq(S) /\ Len(q) = (n - m) + 1
        /\ \A i \in 1..((n - m) + 1) : q[i] = s[(m + i) - 1]
    OBVIOUS
  <1> HIDE DEF q
  <1>2. ASSUME m = 1, n = Len(s) PROVE q = s
    <2>1. Len(q) = Len(s) /\ Len(s) \in Nat
      BY <1>1, <1>2
    <2>2. \A i \in 1..Len(s) : q[i] = s[i]
      BY <1>1, <1>2
    <2>3. DOMAIN q = 1..Len(s) /\ DOMAIN s = 1..Len(s)
      BY <1>1, <2>1
    <2>4. q = [i \in 1..Len(s) |-> q[i]] /\ s = [i \in 1..Len(s) |-> s[i]]
      BY <1>1, <2>3
    <2> QED
      BY <2>2, <2>4
  <1>3. m = n + 1 => q = <<>>
    BY <1>1, ST!EmptySeq
  <1> QED
    BY <1>1, <1>2, <1>3 DEF q

(* A frame on a stack: its words are read from it, the rest is below it.   *)
LEMMA FrameOn ==
    ASSUME arch \in Arch, NEW u \in [1..Depth -> Words], NEW s \in Seq(Words)
    PROVE  LET f == u \o s
           IN /\ f \in Seq(Words) /\ Len(f) = Depth + Len(s)
              /\ \A w \in {"ra"} \cup Register : \E i \in 1..Depth : Load[arch][i] = w /\ Word(f, w) = u[i]
              /\ SubSeq(f, Depth + 1, Len(f)) = s
  <1> DEFINE f == u \o s
  <1>1. Depth \in Nat \ {0}
    BY OrderFacts
  <1>5. u \in Seq(Words) /\ Len(u) = Depth
    <2>1. Depth \in Nat
      BY <1>1
    <2> QED
      BY <2>1
  <1>6. f \in Seq(Words) /\ Len(f) = Depth + Len(s) /\ Len(s) \in Nat
    <2>1. f \in Seq(Words) /\ Len(f) = Len(u) + Len(s)
      BY <1>5, ST!ConcatProperties
    <2> QED
      BY <2>1, <1>5
  <1>7. \A i \in 1..(Depth + Len(s)) : f[i] = IF i <= Depth THEN u[i] ELSE s[i - Depth]
    BY <1>5, ST!ConcatProperties
  <1> HIDE DEF f
  <1>8. \A i \in 1..Depth : f[i] = u[i]
    BY <1>1, <1>6, <1>7
  <1>10. ASSUME NEW w \in {"ra"} \cup Register PROVE \E i \in 1..Depth : Load[arch][i] = w /\ Word(f, w) = u[i]
    <2>1. PICK i \in 1..Depth : Load[arch][i] = w /\ \A q : Word(q, w) = q[i]
      BY WordPlace
    <2> QED
      BY <2>1, <1>8
  <1>11. SubSeq(f, Depth + 1, Len(f)) = s
    <2> DEFINE q == SubSeq(f, Depth + 1, Len(f))
               n == Len(s)
    <2>1. /\ Depth + 1 \in Nat /\ Len(f) \in Nat /\ 1 <= Depth + 1 /\ Depth + 1 <= Len(f) + 1
          /\ (Len(f) - (Depth + 1)) + 1 = n
      BY <1>1, <1>6
    <2>2. q \in Seq(Words) /\ Len(q) = n /\ \A i \in 1..n : q[i] = f[((Depth + 1) + i) - 1]
      BY <2>1, <1>6, SubSeqFacts
    <2> HIDE DEF q
    <2>3. \A i \in 1..n : q[i] = s[i]
      <3> SUFFICES ASSUME NEW i \in 1..n PROVE q[i] = s[i]
        OBVIOUS
      <3>1. /\ ((Depth + 1) + i) - 1 = Depth + i /\ Depth + i \in 1..(Depth + Len(s))
            /\ ~(Depth + i <= Depth) /\ (Depth + i) - Depth = i
        BY <1>1, <1>6
      <3> QED
        BY <3>1, <2>2, <1>7
    <2>4. q = [i \in 1..n |-> q[i]] /\ s = [i \in 1..n |-> s[i]]
      <3>1. DOMAIN q = 1..n /\ DOMAIN s = 1..n
        BY <2>2
      <3> QED
        BY <3>1, <2>2
    <2> QED
      BY <2>3, <2>4 DEF q
  <1> QED
    BY <1>6, <1>10, <1>11 DEF f

(* The frame that arch_context_switch pushes has the registers and the     *)
(* address in the kernel, and the stack is below it.                       *)
LEMMA FramePushed ==
    ASSUME arch \in Arch, NEW g \in [Register -> Words], NEW s \in Seq(Words)
    PROVE  LET f == [i \in 1..Depth |-> IF Save[arch][i] = "ra" THEN "kernel" ELSE g[Save[arch][i]]] \o s
           IN /\ f \in Seq(Words) /\ Len(f) = Depth + Len(s)
              /\ Word(f, "ra") = "kernel" /\ \A r \in Register : Word(f, r) = g[r]
              /\ SubSeq(f, Depth + 1, Len(f)) = s
  <1> DEFINE o == Load[arch]
             u == [i \in 1..Depth |-> IF Save[arch][i] = "ra" THEN "kernel" ELSE g[Save[arch][i]]]
             f == u \o s
  <1>1. Save[arch] = o /\ Ordered(o, Fresh[arch]) /\ "ra" \notin Register
    BY ArchFacts, SwitchAssumption
  <1> HIDE DEF o
  <1>2. \A i \in 1..Depth : o[i] \in {"ra"} \cup Register
    BY <1>1 DEF Ordered
  <1>3. \A i \in 1..Depth : u[i] = IF o[i] = "ra" THEN "kernel" ELSE g[o[i]]
    BY <1>1
  <1>4. u \in [1..Depth -> Words]
    <2>1. "kernel" \in Words
      BY DEF Words
    <2> QED
      BY <1>1, <1>2, <2>1
  <1> HIDE DEF u
  <1>5. /\ f \in Seq(Words) /\ Len(f) = Depth + Len(s) /\ SubSeq(f, Depth + 1, Len(f)) = s
        /\ \A w \in {"ra"} \cup Register : \E i \in 1..Depth : o[i] = w /\ Word(f, w) = u[i]
    BY <1>4, FrameOn DEF o
  <1> HIDE DEF f
  <1>6. Word(f, "ra") = "kernel" /\ \A r \in Register : Word(f, r) = g[r]
    <2>1. Word(f, "ra") = "kernel"
      <3>1. PICK i \in 1..Depth : o[i] = "ra" /\ Word(f, "ra") = u[i]
        BY ONLY <1>5
      <3> QED
        BY ONLY <3>1, <1>3
    <2>2. ASSUME NEW r \in Register PROVE Word(f, r) = g[r]
      <3>1. PICK i \in 1..Depth : o[i] = r /\ Word(f, r) = u[i]
        BY ONLY <1>5, r \in Register
      <3>2. o[i] # "ra"
        BY <3>1, <1>1
      <3> QED
        BY ONLY <3>1, <3>2, <1>3
    <2> QED
      BY <2>1, <2>2
  <1> QED
    BY <1>5, <1>6 DEF f, u

(* The stack that arch_vm_init makes: zero for every register, the address *)
(* of arch_vm_entry, and the image and its size.                           *)
LEMMA FrameFresh ==
    ASSUME arch \in Arch, NEW m \in Seq(Words), Len(m) = 2
    PROVE  LET f == arch_vm_init(m)
           IN /\ f \in Seq(Words) /\ Len(f) = Depth + 2
              /\ Word(f, "ra") = "arch_vm_entry" /\ \A r \in Register : Word(f, r) = "0"
              /\ SubSeq(f, Len(f) - 1, Len(f)) = m
              /\ SubSeq(f, Depth + 1, Len(f) - 2) = <<>>
  <1> DEFINE o == Load[arch]
             u == Fresh[arch]
             f == u \o m
  <1>1. Ordered(o, u) /\ "ra" \notin Register /\ Depth \in Nat \ {0}
    BY ArchFacts, OrderFacts, SwitchAssumption
  <1> HIDE DEF o, u
  <1>2. u \in [1..Depth -> Words] /\ \A i \in 1..Depth : u[i] = IF o[i] = "ra" THEN "arch_vm_entry" ELSE "0"
    BY <1>1 DEF Ordered
  <1>3. /\ f \in Seq(Words) /\ Len(f) = Depth + 2 /\ SubSeq(f, Depth + 1, Len(f)) = m
        /\ \A w \in {"ra"} \cup Register : \E i \in 1..Depth : o[i] = w /\ Word(f, w) = u[i]
    BY <1>2, FrameOn DEF o
  <1> HIDE DEF f
  <1>4. Word(f, "ra") = "arch_vm_entry" /\ \A r \in Register : Word(f, r) = "0"
    <2>1. Word(f, "ra") = "arch_vm_entry"
      <3>1. PICK i \in 1..Depth : o[i] = "ra" /\ Word(f, "ra") = u[i]
        BY ONLY <1>3
      <3> QED
        BY ONLY <3>1, <1>2
    <2>2. ASSUME NEW r \in Register PROVE Word(f, r) = "0"
      <3>1. PICK i \in 1..Depth : o[i] = r /\ Word(f, r) = u[i]
        BY ONLY <1>3, r \in Register
      <3>2. o[i] # "ra"
        BY <3>1, <1>1
      <3> QED
        BY ONLY <3>1, <3>2, <1>2
    <2> QED
      BY <2>1, <2>2
  <1>5. Len(f) - 1 = Depth + 1 /\ Len(f) - 2 = Depth
    BY <1>1, <1>3
  <1>6. SubSeq(f, Depth + 1, Depth) = <<>>
    <2>1. Depth + 1 \in Nat /\ Depth \in Nat /\ 1 <= Depth + 1 /\ Depth <= Len(f) /\ Depth + 1 <= Depth + 1
      BY <1>1, <1>3
    <2> QED
      BY <2>1, <1>3, SubSeqFacts
  <1>7. SubSeq(f, Len(f) - 1, Len(f)) = m
    BY <1>3, <1>5
  <1> QED
    BY <1>3, <1>4, <1>5, <1>6, <1>7 DEF f, u, arch_vm_init

(* What arch_context_switch leaves of the stack it pops a frame from.      *)
LEMMA FramePopped ==
    ASSUME NEW s \in Seq(Words), Len(s) >= Depth
    PROVE  LET q == SubSeq(s, Depth + 1, Len(s))
           IN /\ q \in Seq(Words) /\ Len(q) = Len(s) - Depth
              /\ SubSeq(q, 1, Len(q)) = q
              /\ Len(s) = Depth + 2 => /\ SubSeq(q, 1, Len(q) - 2) = <<>>
                                      /\ SubSeq(s, Depth + 1, Len(s) - 2) = <<>>
                                      /\ SubSeq(q, Len(q) - 1, Len(q)) = q
                                      /\ SubSeq(s, Len(s) - 1, Len(s)) = q
  <1> DEFINE q == SubSeq(s, Depth + 1, Len(s))
  <1>1. Depth \in Nat \ {0} /\ Len(s) \in Nat
    BY OrderFacts
  <1>2. Depth + 1 \in Nat /\ 1 <= Depth + 1 /\ Depth + 1 <= Len(s) + 1 /\ (Len(s) - (Depth + 1)) + 1 = Len(s) - Depth
    BY <1>1
  <1>3. q \in Seq(Words) /\ Len(q) = Len(s) - Depth
    <2> DEFINE m == Depth + 1
               n == Len(s)
    <2>1. m \in Nat /\ n \in Nat /\ 1 <= m /\ n <= Len(s) /\ m <= n + 1 /\ (n - m) + 1 = Len(s) - Depth
      BY <1>1, <1>2
    <2>2. q = SubSeq(s, m, n)
      OBVIOUS
    <2> HIDE DEF m, n, q
    <2>3. SubSeq(s, m, n) \in Seq(Words) /\ Len(SubSeq(s, m, n)) = (n - m) + 1
      BY ONLY s \in Seq(Words), <2>1, SubSeqFacts
    <2> QED
      BY <2>1, <2>2, <2>3
  <1>4. Len(s) = Depth + 2 => SubSeq(s, Len(s) - 1, Len(s)) = q
    BY <1>1
  <1>5. Len(s) = Depth + 2 => SubSeq(s, Depth + 1, Len(s) - 2) = <<>>
    <2>1. Len(s) = Depth + 2 => Len(s) - 2 = Depth
      BY <1>1
    <2> QED
      BY <2>1, <1>1, <1>2, SubSeqFacts
  <1> HIDE DEF q
  <1>6. SubSeq(q, 1, Len(q)) = q
    <2>1. Len(q) \in Nat /\ 1 <= Len(q) + 1 /\ 1 <= 1 /\ Len(q) <= Len(q)
      BY <1>1, <1>3
    <2> QED
      BY <2>1, <1>3, SubSeqFacts
  <1>7. Len(s) = Depth + 2 => Len(q) = 2 /\ Len(q) - 2 = 0 /\ Len(q) - 1 = 1
    BY <1>1, <1>3
  <1>8. Len(s) = Depth + 2 => SubSeq(q, 1, Len(q) - 2) = <<>>
    <2>1. Len(q) = 2 => SubSeq(q, 1, 0) = <<>>
      BY <1>3, SubSeqFacts
    <2> QED
      BY <2>1, <1>7
  <1> QED
    BY <1>3, <1>4, <1>5, <1>6, <1>7, <1>8 DEF q

\* The stacks S of the tasks in U: with c on the CPU at k, each other has a frame, and a new one
\* its image and size on top of it.
Sound(S, U, c, k) ==
    /\ S \in [Task -> Seq(Words)]
    /\ \A t \in U \ {c} : Len(S[t]) >= Depth
    /\ \A t \in U \ {c} : Word(S[t], "ra") = "arch_vm_entry" => Len(S[t]) = Depth + 2
    /\ k = "arch_vm_entry" => Len(S[c]) = 2

Used(s) == {t \in Task : s[t] # "unused"}

StackInv ==
    /\ arch \in Arch /\ regs \in [Register -> Words] /\ launched \in [Task -> Seq(Words)]
    /\ Sound(stacks, Used(state), current, pc)
    /\ \A t \in Used(state) : IsFresh(t) => state[t] = "runnable" /\ t \notin exited

\* The tasks as Coroutines has them are the same as before.
SameTasks ==
    /\ \A t \in Task : IsFresh(t)' <=> IsFresh(t)
    /\ regsBar' = regsBar /\ framesBar' = framesBar /\ imageBar' = imageBar

(* The frame of a task is read alike as long as the machine is the same.   *)
LEMMA BarsNext ==
    ASSUME arch' = arch
    PROVE  /\ \A t \in Task : IsFresh(t)' <=> IF t = current' THEN pc' = "arch_vm_entry"
                                             ELSE Len(stacks'[t]) > Depth /\ Word(stacks'[t], "ra") = "arch_vm_entry"
           /\ regsBar' = [t \in Task |->
                 IF t = current' THEN regs'
                 ELSE [r \in Register |-> IF Len(stacks'[t]) < Depth THEN "0" ELSE Word(stacks'[t], r)]]
           /\ framesBar' = [t \in Task |->
                 SubSeq(stacks'[t], IF t = current' THEN 1 ELSE Depth + 1,
                        Len(stacks'[t]) - (IF IsFresh(t)' THEN 2 ELSE 0))]
           /\ imageBar' = [t \in Task |->
                 IF IsFresh(t)' THEN SubSeq(stacks'[t], Len(stacks'[t]) - 1, Len(stacks'[t])) ELSE launched'[t]]
  <1>1. \A s, r : Word(s, r) = s[CHOOSE i \in 1..Depth : Load[arch'][i] = r]
    BY DEF Word
  <1>2. \A t \in Task : IsFresh(t)' <=> IF t = current' THEN pc' = "arch_vm_entry"
                                       ELSE Len(stacks'[t]) > Depth /\ Word(stacks'[t], "ra") = "arch_vm_entry"
    BY <1>1 DEF IsFresh, Word
  <1>3. regsBar' = [t \in Task |->
           IF t = current' THEN regs'
           ELSE [r \in Register |-> IF Len(stacks'[t]) < Depth THEN "0" ELSE Word(stacks'[t], r)]]
    BY <1>1 DEF regsBar, Word
  <1> QED
    BY <1>2, <1>3 DEF framesBar, imageBar

(* arch_context_switch: the registers of the task that leaves the CPU are  *)
(* in its frame, those of the next are as its frame had them, and a new    *)
(* task is at arch_vm_entry with its image and size on the stack.          *)
LEMMA ContextSwitch ==
    ASSUME StackInv, pc = "kernel", current \in Task,
           NEW n \in Used(state), n # current, arch_context_switch(current, n),
           current' = n, arch' = arch, launched' = launched
    PROVE  /\ SameTasks
           /\ regs' \in [Register -> Words]
           /\ Sound(stacks', Used(state) \cup {current}, current', pc')
  <1>0. PICK c \in Task : c = current
    OBVIOUS
  <1> DEFINE f == [i \in 1..Depth |-> IF Save[arch][i] = "ra" THEN "kernel" ELSE regs[Save[arch][i]]] \o stacks[c]
             s == stacks[n]
             q == SubSeq(s, Depth + 1, Len(s))
  <1>1. /\ arch \in Arch /\ regs \in [Register -> Words] /\ stacks \in [Task -> Seq(Words)]
        /\ n \in Task /\ Depth \in Nat \ {0} /\ stacks[c] \in Seq(Words) /\ s \in Seq(Words)
        /\ Len(stacks[c]) \in Nat /\ Len(s) \in Nat /\ Used(state) \subseteq Task
        /\ n \in Used(state) \ {c}
    BY <1>0, OrderFacts DEF StackInv, Sound, Used
  <1>2. /\ \A t \in Used(state) \ {c} : Len(stacks[t]) >= Depth
        /\ \A t \in Used(state) \ {c} : Word(stacks[t], "ra") = "arch_vm_entry" => Len(stacks[t]) = Depth + 2
    BY <1>0 DEF StackInv, Sound
  <1>3. /\ f \in Seq(Words) /\ Len(f) = Depth + Len(stacks[c])
        /\ Word(f, "ra") = "kernel" /\ \A r \in Register : Word(f, r) = regs[r]
        /\ SubSeq(f, Depth + 1, Len(f)) = stacks[c]
    BY <1>1, FramePushed
  <1>4. /\ q \in Seq(Words) /\ Len(q) = Len(s) - Depth
        /\ SubSeq(q, 1, Len(q)) = q
        /\ Len(s) = Depth + 2 => /\ SubSeq(q, 1, Len(q) - 2) = <<>>
                                /\ SubSeq(s, Depth + 1, Len(s) - 2) = <<>>
                                /\ SubSeq(q, Len(q) - 1, Len(q)) = q
                                /\ SubSeq(s, Len(s) - 1, Len(s)) = q
    BY <1>1, <1>2, FramePopped
  <1>5. /\ stacks' = [stacks EXCEPT ![c] = f, ![n] = q]
        /\ regs' = [r \in Register |-> Word(s, r)]
        /\ pc' = Word(s, "ra")
    BY <1>0, <1>1 DEF arch_context_switch
  <1>6. SubSeq(stacks[c], 1, Len(stacks[c])) = stacks[c]
    <2>1. 1 <= Len(stacks[c]) + 1 /\ 1 <= 1 /\ Len(stacks[c]) <= Len(stacks[c])
      BY <1>1
    <2> QED
      BY <2>1, <1>1, SubSeqFacts
  <1> HIDE DEF f, q
  <1>7. /\ stacks'[c] = f /\ stacks'[n] = q /\ \A t \in Task \ {c, n} : stacks'[t] = stacks[t]
        /\ stacks' \in [Task -> Seq(Words)]
    BY <1>0, <1>1, <1>3, <1>4, <1>5
  <1>8. regs' \in [Register -> Words]
    <2> SUFFICES ASSUME NEW r \in Register PROVE Word(s, r) \in Words
      BY <1>5
    <2>1. PICK i \in 1..Depth : Load[arch][i] = r /\ \A x : Word(x, r) = x[i]
      BY <1>1, WordPlace
    <2>2. i \in 1..Len(s)
      BY <1>1, <1>2
    <2> QED
      BY <2>1, <2>2, <1>1
  <1>9. \A t \in Task : IsFresh(t)' <=> IF t = n THEN pc' = "arch_vm_entry"
                                       ELSE Len(stacks'[t]) > Depth /\ Word(stacks'[t], "ra") = "arch_vm_entry"
    BY BarsNext
  <1>10. /\ ~IsFresh(c) /\ ~IsFresh(c)'
         /\ IsFresh(n) <=> Word(s, "ra") = "arch_vm_entry"
         /\ IsFresh(n)' <=> Word(s, "ra") = "arch_vm_entry"
         /\ IsFresh(n) => Len(s) = Depth + 2
    <2>1. ~IsFresh(c)
      BY <1>0 DEF IsFresh
    <2>2. ~IsFresh(c)'
      <3>1. c # n /\ c \in Task /\ Word(stacks'[c], "ra") = "kernel"
        BY <1>1, <1>3, <1>7
      <3> QED
        BY <3>1, <1>9
    <2>3. Word(s, "ra") = "arch_vm_entry" => Len(s) = Depth + 2
      BY <1>1, <1>2
    <2>4. IsFresh(n) <=> Word(s, "ra") = "arch_vm_entry"
      BY <2>3, <1>0, <1>1 DEF IsFresh
    <2> QED
      BY <2>1, <2>2, <2>3, <2>4, <1>1, <1>5, <1>9
  <1>11. \A t \in Task \ {c, n} : IsFresh(t)' <=> IsFresh(t)
    BY <1>0, <1>7, <1>9 DEF IsFresh
  <1>12. \A t \in Task : IsFresh(t)' <=> IsFresh(t)
    BY <1>10, <1>11
  <1>13. regsBar' = regsBar
    <2>1. regsBar' = [t \in Task |->
             IF t = n THEN regs'
             ELSE [r \in Register |-> IF Len(stacks'[t]) < Depth THEN "0" ELSE Word(stacks'[t], r)]]
      BY BarsNext
    <2>2. ~(Len(f) < Depth) /\ ~(Len(s) < Depth)
      BY <1>1, <1>2, <1>3
    <2>3. regs' = [r \in Register |-> IF Len(s) < Depth THEN "0" ELSE Word(s, r)]
      BY <2>2, <1>5
    <2>4. [r \in Register |-> IF Len(f) < Depth THEN "0" ELSE Word(f, r)] = regs
      BY <2>2, <1>1, <1>3
    <2>5. regsBar = [t \in Task |->
             IF t = c THEN regs
             ELSE [r \in Register |-> IF Len(stacks[t]) < Depth THEN "0" ELSE Word(stacks[t], r)]]
      BY <1>0 DEF regsBar
    <2>6. c # n
      BY <1>0
    <2>7. ASSUME NEW t \in Task PROVE regsBar'[t] = regsBar[t]
      <3>1. CASE t = c
        BY <3>1, <2>1, <2>4, <2>5, <2>6, <1>7
      <3>2. CASE t = n
        BY <3>2, <2>1, <2>3, <2>5, <2>6
      <3>3. CASE t \in Task \ {c, n}
        BY <3>3, <2>1, <2>5, <1>7
      <3> QED
        BY <3>1, <3>2, <3>3
    <2> QED
      BY <2>1, <2>5, <2>7
  <1>14. framesBar' = framesBar
    <2>1. framesBar' = [t \in Task |->
             SubSeq(stacks'[t], IF t = n THEN 1 ELSE Depth + 1,
                    Len(stacks'[t]) - (IF IsFresh(t)' THEN 2 ELSE 0))]
      BY BarsNext
    <2>2. SubSeq(f, Depth + 1, Len(f) - 0) = SubSeq(stacks[c], 1, Len(stacks[c]) - 0)
      <3>1. Len(f) - 0 = Len(f) /\ Len(stacks[c]) - 0 = Len(stacks[c])
        BY <1>1, <1>3
      <3> QED
        BY <3>1, <1>3, <1>6
    <2>3. SubSeq(q, 1, Len(q) - (IF IsFresh(n) THEN 2 ELSE 0))
             = SubSeq(s, Depth + 1, Len(s) - (IF IsFresh(n) THEN 2 ELSE 0))
      <3>1. CASE IsFresh(n)
        BY <3>1, <1>4, <1>10
      <3>2. CASE ~IsFresh(n)
        <4>1. Len(q) - 0 = Len(q) /\ Len(s) - 0 = Len(s)
          BY <1>1, <1>4
        <4> QED
          BY <3>2, <4>1, <1>4 DEF q
      <3> QED
        BY <3>1, <3>2
    <2>4. framesBar = [t \in Task |->
             SubSeq(stacks[t], IF t = c THEN 1 ELSE Depth + 1, Len(stacks[t]) - (IF IsFresh(t) THEN 2 ELSE 0))]
      BY <1>0 DEF framesBar
    <2>5. c # n
      BY <1>0
    <2>6. ASSUME NEW t \in Task PROVE framesBar'[t] = framesBar[t]
      <3>1. CASE t = c
        BY <3>1, <2>1, <2>2, <2>4, <2>5, <1>7, <1>10
      <3>2. CASE t = n
        BY <3>2, <2>1, <2>3, <2>4, <2>5, <1>7, <1>12
      <3>3. CASE t \in Task \ {c, n}
        BY <3>3, <2>1, <2>4, <1>7, <1>12
      <3> QED
        BY <3>1, <3>2, <3>3
    <2> QED
      BY <2>1, <2>4, <2>6
  <1>15. imageBar' = imageBar
    <2>1. imageBar' = [t \in Task |->
             IF IsFresh(t)' THEN SubSeq(stacks'[t], Len(stacks'[t]) - 1, Len(stacks'[t])) ELSE launched'[t]]
      BY BarsNext
    <2>2. IsFresh(n) => SubSeq(q, Len(q) - 1, Len(q)) = SubSeq(s, Len(s) - 1, Len(s))
      BY <1>4, <1>10
    <2> QED
      BY <2>1, <2>2, <1>7, <1>10, <1>12 DEF imageBar
  <1>16. Sound(stacks', Used(state) \cup {c}, n, pc')
    <2>1. \A t \in (Used(state) \cup {c}) \ {n} : t = c \/ (t \in Used(state) \ {c} /\ t \in Task \ {c, n})
      BY <1>1
    <2>2. Len(f) >= Depth
      BY <1>1, <1>3
    <2>3. \A t \in (Used(state) \cup {c}) \ {n} : Len(stacks'[t]) >= Depth
      BY <2>1, <2>2, <1>2, <1>7
    <2>4. \A t \in (Used(state) \cup {c}) \ {n} : Word(stacks'[t], "ra") = "arch_vm_entry" => Len(stacks'[t]) = Depth + 2
      BY <2>1, <1>2, <1>3, <1>7
    <2>5. pc' = "arch_vm_entry" => Len(stacks'[n]) = 2
      <3>1. pc' = "arch_vm_entry" => Len(s) = Depth + 2
        BY <1>0, <1>2, <1>5
      <3> QED
        BY <3>1, <1>1, <1>4, <1>7
    <2> QED
      BY <2>3, <2>4, <2>5, <1>7 DEF Sound
  <1> QED
    BY <1>0, <1>8, <1>12, <1>13, <1>14, <1>15, <1>16 DEF SameTasks

(* task_switch keeps what each task has, the one that leaves the CPU and   *)
(* the one that gets it included.                                          *)
LEMMA SwitchKeeps ==
    ASSUME StackInv, pc = "kernel", current \in Used(state), NEW STATE h, NEW STATE s, task_switch(h, s),
           current' \in Used(state), arch' = arch, launched' = launched
    PROVE  /\ SameTasks
           /\ regs' \in [Register -> Words]
           /\ Sound(stacks', Used(state), current', pc')
  <1>1. PICK n \in Used(state) : n = current'
    OBVIOUS
  <1>2. current \in Task
    BY DEF Used
  <1>3. CASE n = current
    <2>1. regs' = regs /\ pc' = pc /\ stacks' = stacks /\ current' = current
      BY <1>1, <1>3 DEF task_switch
    <2>2. \A t \in Task : IsFresh(t)' <=> IsFresh(t)
      BY <2>1, BarsNext DEF IsFresh
    <2>3. regsBar' = regsBar
      BY <2>1, BarsNext DEF regsBar
    <2>4. framesBar' = framesBar /\ imageBar' = imageBar
      BY <2>1, <2>2, BarsNext DEF framesBar, imageBar
    <2>5. regs \in [Register -> Words] /\ Sound(stacks, Used(state), current, pc)
      BY DEF StackInv
    <2> QED
      BY <2>1, <2>2, <2>3, <2>4, <2>5 DEF SameTasks
  <1>4. CASE n # current
    <2>1. arch_context_switch(current, n)
      BY <1>1, <1>4 DEF task_switch
    <2>2. /\ SameTasks
          /\ regs' \in [Register -> Words]
          /\ Sound(stacks', Used(state) \cup {current}, current', pc')
      BY <1>1, <1>2, <1>4, <2>1, ContextSwitch
    <2>3. Used(state) \cup {current} = Used(state)
      OBVIOUS
    <2> QED
      BY <2>2, <2>3
  <1> QED
    BY <1>3, <1>4

(* The invariant after a step, from what it says of the new values.        *)
LEMMA StackNext ==
    ASSUME StackInv, arch' = arch, launched' \in [Task -> Seq(Words)], regs' \in [Register -> Words],
           Sound(stacks', Used(state'), current', pc'),
           \A t \in Used(state') : IsFresh(t)' => state'[t] = "runnable" /\ t \notin exited'
    PROVE  StackInv'
  <1>1. \A s, r : Word(s, r) = s[CHOOSE i \in 1..Depth : Load[arch'][i] = r]
    BY DEF Word
  <1>2. Used(state)' = Used(state')
    BY DEF Used
  <1>3. Sound(stacks, Used(state), current, pc)'
    BY <1>1, <1>2 DEF Sound, Word
  <1>4. arch' \in Arch
    BY DEF StackInv
  <1> QED
    BY <1>2, <1>3, <1>4 DEF StackInv

(* A task_switch keeps the invariant when the task that leaves the CPU     *)
(* blocks or exits and another becomes runnable.                           *)
LEMMA SwitchInv ==
    ASSUME StackInv, pc = "kernel", current \in Used(state), NEW STATE h, NEW STATE s, task_switch(h, s),
           current' \in Used(state), arch' = arch, launched' = launched,
           Used(s) = Used(state), \A t \in Used(state) \ {current} : s[t] \in {state[t], "runnable"},
           exited' \subseteq exited \cup {current}
    PROVE  SameTasks /\ StackInv'
  <1>1. /\ SameTasks
        /\ regs' \in [Register -> Words]
        /\ Sound(stacks', Used(state), current', pc')
    BY SwitchKeeps
  <1>2. state' = s
    BY DEF task_switch
  <1>3. ASSUME NEW t \in Used(state), IsFresh(t)' PROVE s[t] = "runnable" /\ t \notin exited'
    <2>1. IsFresh(t) /\ t \in Task
      BY <1>1, <1>3 DEF SameTasks, Used
    <2>2. t # current
      BY <2>1 DEF IsFresh
    <2>3. state[t] = "runnable" /\ t \notin exited
      BY <2>1 DEF StackInv
    <2> QED
      BY <2>2, <2>3
  <1>4. launched' \in [Task -> Seq(Words)]
    BY DEF StackInv
  <1>5. Used(state') = Used(state)
    BY <1>2
  <1> QED
    BY <1>1, <1>2, <1>3, <1>4, <1>5, StackNext

----------------------------------------------------------------------------
(* Each step of Switch is one of Coroutines                                *)

(* What Kernel says of the tasks.                                          *)
LEMMA KernelFacts ==
    ASSUME NEW h, NEW L, NEW s, NEW x, NEW c, Kernel(h, L, s, x, c)
    PROVE  /\ Lists(h, L) /\ L \in [Headers -> Seq(Node)]
           /\ c \in Task /\ c \in Used(s) /\ s[c] = "runnable" /\ Idle \in Task
           /\ s \in [Task -> {"unused", "runnable", "blocked"}]
           /\ x \subseteq Task /\ \A t \in x : s[t] = "runnable"
  <1>1. Idle \in Task
    BY SwitchAssumption DEF Idle, Task
  <1> QED
    BY <1>1 DEF Kernel, Fits, Off, Lists, Used

\* The life of a task in state s.
Life(s, x, f) == IF x THEN "exited" ELSE IF s = "runnable" /\ f THEN "fresh" ELSE s

(* The lives of the tasks before a step and after it.                      *)
LEMMA Lives ==
    /\ lifeBar = [t \in Task |-> Life(state[t], t \in exited, IsFresh(t))]
    /\ lifeBar' = [t \in Task |-> Life(state'[t], t \in exited', IsFresh(t)')]
  BY DEF lifeBar, Life

(* What Coroutines sees of the scheduler's part of task_switch.            *)
LEMMA YieldMaps ==
    ASSUME NEW L \in [Headers -> Seq(Node)], Lists(links', Taken(L)), NEW s, current' = Chosen(L, s, current)
    PROVE  /\ s[current] = "runnable" => C!Yield(ReadyOf(L), TRUE)
           /\ s[current] # "runnable" => C!Yield(ReadyOf(L), FALSE)
           /\ waitingBar' = WaitingOf(L) /\ ownedBar' = OwnedOf(L)
  <1>1. readyBar' = ReadyOf(Taken(L)) /\ waitingBar' = WaitingOf(Taken(L)) /\ ownedBar' = OwnedOf(Taken(L))
    BY ViewsNext
  <1>2. /\ ReadyOf(Taken(L)) = IF ReadyOf(L) = <<>> THEN ReadyOf(L) ELSE Front(ReadyOf(L))
        /\ WaitingOf(Taken(L)) = WaitingOf(L) /\ OwnedOf(Taken(L)) = OwnedOf(L)
        /\ Chosen(L, s, current) = IF ReadyOf(L) # <<>> THEN Last(ReadyOf(L))
                                   ELSE IF s[current] = "runnable" THEN current ELSE Idle
    BY TakenReady
  <1>3. readyBar' = IF ReadyOf(L) = <<>> THEN ReadyOf(L) ELSE Front(ReadyOf(L))
    BY <1>1, <1>2
  <1>4. current' = IF ReadyOf(L) # <<>> THEN Last(ReadyOf(L)) ELSE IF s[current] = "runnable" THEN current ELSE Idle
    BY <1>2
  <1>5. ASSUME s[current] = "runnable" PROVE C!Yield(ReadyOf(L), TRUE)
    <2>1. current' = IF ReadyOf(L) # <<>> THEN Last(ReadyOf(L)) ELSE current
      BY <1>4, <1>5
    <2> QED
      BY ONLY <1>3, <2>1 DEF C!Yield, C!Front, C!Last, Front, Last
  <1>6. ASSUME s[current] # "runnable" PROVE C!Yield(ReadyOf(L), FALSE)
    <2>1. current' = IF ReadyOf(L) # <<>> THEN Last(ReadyOf(L)) ELSE Idle
      BY <1>4, <1>6
    <2> QED
      BY ONLY <1>3, <2>1 DEF C!Yield, C!Front, C!Last, Front, Last
  <1> QED
    BY <1>1, <1>2, <1>5, <1>6

(* The task_switch of kernel_main.                                         *)
LEMMA PauseMaps ==
    ASSUME NEW L, Kernel(links, L, state, exited, current), StackInv, BootSwitch
    PROVE  StackInv' /\ C!Pause
  <1>1. Kernel(links', Taken(L), state', exited', current') /\ current' = Chosen(L, state, current)
    BY BootStep
  <1>2. /\ pc = "kernel" /\ task_switch(links, state) /\ exited' = exited
        /\ launched' = launched /\ arch' = arch /\ state' = state
    BY DEF BootSwitch, Runs, task_switch
  <1>3. /\ Lists(links, L) /\ L \in [Headers -> Seq(Node)] /\ current \in Used(state) /\ state[current] = "runnable"
        /\ Lists(links', Taken(L)) /\ current' \in Used(state)
    BY <1>1, <1>2, KernelFacts
  <1>4. SameTasks /\ StackInv'
    BY <1>2, <1>3, SwitchInv
  <1>5. lifeBar' = lifeBar
    BY <1>2, <1>4, Lives DEF SameTasks, Life
  <1>6. /\ readyBar = ReadyOf(L) /\ waitingBar = WaitingOf(L) /\ ownedBar = OwnedOf(L)
        /\ C!Yield(readyBar, TRUE) /\ waitingBar' = waitingBar /\ ownedBar' = ownedBar
    BY <1>1, <1>3, YieldMaps, Views
  <1> QED
    BY <1>4, <1>5, <1>6 DEF C!Pause, SameTasks

(* The task_switch of task_exit.                                           *)
LEMMA ExitMaps ==
    ASSUME NEW L, Kernel(links, L, state, exited, current), StackInv, task_exit
    PROVE  StackInv' /\ C!Exit
  <1>1. Kernel(links', Taken(L), state', exited', current') /\ current' = Chosen(L, state, current)
    BY ExitStep
  <1>2. /\ pc = "kernel" /\ task_switch(links, state) /\ exited' = exited \cup {current}
        /\ launched' = launched /\ arch' = arch /\ state' = state
    BY DEF task_exit, Runs, task_switch
  <1>3. /\ Lists(links, L) /\ L \in [Headers -> Seq(Node)] /\ current \in Used(state) /\ state[current] = "runnable"
        /\ Lists(links', Taken(L)) /\ current' \in Used(state) /\ current \in Task
    BY <1>1, <1>2, KernelFacts
  <1>4. SameTasks /\ StackInv'
    BY <1>2, <1>3, SwitchInv
  <1>5. lifeBar' = [lifeBar EXCEPT ![current] = "exited"]
    BY <1>2, <1>3, <1>4, Lives DEF SameTasks, Life
  <1>6. /\ readyBar = ReadyOf(L) /\ waitingBar = WaitingOf(L) /\ ownedBar = OwnedOf(L)
        /\ C!Yield(readyBar, TRUE) /\ waitingBar' = waitingBar /\ ownedBar' = ownedBar
    BY <1>1, <1>3, YieldMaps, Views
  <1> QED
    BY <1>4, <1>5, <1>6 DEF C!Exit, SameTasks

(* The task_switch of ipc_send.                                            *)
LEMMA QueueMaps ==
    ASSUME NEW L, Kernel(links, L, state, exited, current), StackInv, NEW d \in Task, SendQueue(d)
    PROVE  StackInv' /\ C!Queue(d)
  <1> DEFINE M == Behind(L, senders(d), waitqueue_next(current))
             g == list_push_back(links, senders(d), waitqueue_next(current))
             r == [state EXCEPT ![current] = "blocked"]
  <1>1. Kernel(links', Taken(M), state', exited', current') /\ current' = Chosen(M, r, current)
    BY SendQueueStep
  <1>2. /\ pc = "kernel" /\ task_switch(g, r) /\ exited' = exited /\ current \notin exited
        /\ launched' = launched /\ arch' = arch /\ state' = r
    BY DEF SendQueue, Runs, task_switch
  <1>3. /\ Lists(links, L) /\ L \in [Headers -> Seq(Node)] /\ current \in Used(state) /\ state[current] = "runnable"
        /\ Lists(links', Taken(M)) /\ current' \in Used(state') /\ current \in Task
        /\ state \in [Task -> {"unused", "runnable", "blocked"}]
    BY <1>1, KernelFacts
  <1>4. /\ M \in [Headers -> Seq(Node)] /\ ReadyOf(M) = ReadyOf(L) /\ OwnedOf(M) = OwnedOf(L)
        /\ WaitingOf(M) = [WaitingOf(L) EXCEPT ![d] = Append(@, current)]
    BY <1>3, BehindWaiting
  <1> HIDE DEF M, g
  <1>5. r[current] = "blocked" /\ \A t \in Task \ {current} : r[t] = state[t]
    BY <1>3
  <1> HIDE DEF r
  <1>6. Used(r) = Used(state)
    BY <1>3, <1>5 DEF Used
  <1>7. SameTasks /\ StackInv'
    <2>1. \A t \in Used(state) \ {current} : r[t] \in {state[t], "runnable"}
      BY <1>5 DEF Used
    <2>2. current' \in Used(state) /\ exited' \subseteq exited \cup {current}
      BY <1>2, <1>3, <1>6
    <2> QED
      BY <1>2, <1>3, <1>6, <2>1, <2>2, SwitchInv
  <1>8. lifeBar' = [lifeBar EXCEPT ![current] = "blocked"]
    BY <1>2, <1>3, <1>5, <1>7, Lives DEF SameTasks, Life
  <1>9. readyBar = ReadyOf(L) /\ waitingBar = WaitingOf(L) /\ ownedBar = OwnedOf(L)
    BY <1>3, Views
  <1>10. C!Yield(ReadyOf(M), FALSE) /\ waitingBar' = WaitingOf(M) /\ ownedBar' = OwnedOf(M)
    <2>1. r[current] # "runnable"
      BY <1>5
    <2> QED
      BY <2>1, <1>1, <1>3, <1>4, YieldMaps
  <1> QED
    BY <1>4, <1>7, <1>8, <1>9, <1>10 DEF C!Queue, SameTasks

(* ipc_receive waits, or takes the first sender that matches.              *)
LEMMA ReceiveMaps ==
    ASSUME NEW L, Kernel(links, L, state, exited, current), StackInv, NEW src, ipc_receive(src)
    PROVE  StackInv' /\ C!Receive(src)
  <1> DEFINE q        == L[senders(current)]
             matching == Matching(q, src)
             i        == Foremost(matching)
             sender   == container(q[i])
             N        == Lacking(L, senders(current), i)
             M        == Behind(N, runqueue, next(sender))
             g        == task_resume(list_remove(links, waitqueue_next(sender)), sender)
             b        == [state EXCEPT ![current] = "blocked"]
             r        == [state EXCEPT ![sender] = "runnable", ![current] = "blocked"]
  <1>1. /\ matching = {} => /\ Kernel(links', Taken(L), state', exited', current')
                            /\ current' = Chosen(L, b, current)
                            /\ task_switch(links, b)
        /\ matching # {} => /\ i \in 1..Len(q) /\ sender \in Task /\ sender # current
                            /\ state[sender] = "blocked"
                            /\ Kernel(links', Taken(M), state', exited', current')
                            /\ current' = Chosen(M, r, current)
                            /\ task_switch(g, r)
    BY ReceiveStep
  <1>2. /\ pc = "kernel" /\ exited' = exited /\ current \notin exited /\ launched' = launched /\ arch' = arch
        /\ regs' = regs' /\ state \in [Task -> {"unused", "runnable", "blocked"}]
        /\ Lists(links, L) /\ L \in [Headers -> Seq(Node)] /\ current \in Used(state) /\ current \in Task
        /\ exited \subseteq Task /\ \A t \in exited : state[t] = "runnable"
    BY KernelFacts DEF ipc_receive, Runs
  <1>3. readyBar = ReadyOf(L) /\ waitingBar = WaitingOf(L) /\ ownedBar = OwnedOf(L)
    BY <1>2, Views
  <1>4. q \in Seq(Node) /\ waitingBar[current] = Tasks(q)
    <2>1. senders(current) \in Headers
      BY <1>2, HeaderFacts
    <2> QED
      BY <2>1, <1>2, <1>3 DEF WaitingOf
  <1> HIDE DEF q
  <1>5. {j \in DOMAIN waitingBar[current] : src \in {IPC_ANY, waitingBar[current][j]}} = matching
    BY <1>4, TasksFacts DEF Matching
  <1>6. i \in 1..Len(q) => waitingBar[current][i] = sender
    BY <1>4, TasksFacts
  <1>7. i = CHOOSE j \in matching : \A k \in matching : j <= k
    BY DEF Foremost
  <1> HIDE DEF matching, i, sender, g
  <1>8. CASE matching = {}
    <2>1. /\ Kernel(links', Taken(L), state', exited', current') /\ current' = Chosen(L, b, current)
          /\ task_switch(links, b)
      BY <1>1, <1>8
    <2>2. b[current] = "blocked" /\ \A t \in Task \ {current} : b[t] = state[t]
      BY <1>2
    <2> HIDE DEF b
    <2>3. Lists(links', Taken(L)) /\ state' = b /\ current' \in Used(b)
      BY <2>1, KernelFacts DEF task_switch
    <2>4. Used(b) = Used(state) /\ \A t \in Used(state) \ {current} : b[t] \in {state[t], "runnable"}
      BY <1>2, <2>2 DEF Used
    <2>5. SameTasks /\ StackInv'
      BY <1>2, <2>1, <2>3, <2>4, SwitchInv
    <2>6. lifeBar' = [lifeBar EXCEPT ![current] = "blocked"]
      BY <1>2, <2>2, <2>3, <2>5, Lives DEF SameTasks, Life
    <2>7. C!Yield(readyBar, FALSE) /\ waitingBar' = waitingBar /\ ownedBar' = ownedBar
      BY <1>2, <1>3, <2>1, <2>2, <2>3, YieldMaps
    <2> QED
      BY <1>5, <1>8, <2>5, <2>6, <2>7 DEF C!Receive, SameTasks
  <1>9. CASE matching # {}
    <2>1. /\ i \in 1..Len(q) /\ sender \in Task /\ sender # current
          /\ Kernel(links', Taken(M), state', exited', current') /\ current' = Chosen(M, r, current)
          /\ task_switch(g, r)
      BY <1>1, <1>9
    <2>2. /\ r[current] = "blocked" /\ r[sender] = "runnable"
          /\ \A t \in Task \ {current, sender} : r[t] = state[t]
      BY <1>2, <2>1
    <2>3. N \in [Headers -> Seq(Node)] /\ ReadyOf(N) = ReadyOf(L) /\ OwnedOf(N) = OwnedOf(L)
          /\ WaitingOf(N) = [WaitingOf(L) EXCEPT ![current] = RemoveAt(@, i)]
      BY <1>2, <2>1, LackingWaiting DEF q
    <2> HIDE DEF N, r
    <2>4. M \in [Headers -> Seq(Node)] /\ ReadyOf(M) = Append(ReadyOf(L), sender) /\ OwnedOf(M) = OwnedOf(L)
          /\ WaitingOf(M) = [WaitingOf(L) EXCEPT ![current] = RemoveAt(@, i)]
      BY <2>1, <2>3, BehindReady
    <2> HIDE DEF M
    <2>5. Lists(links', Taken(M)) /\ state' = r /\ current' \in Used(r)
      BY <2>1, KernelFacts DEF task_switch
    <2>6. state[sender] = "blocked"
      BY <1>1, <1>9
    <2>7. Used(r) = Used(state) /\ \A t \in Used(state) \ {current} : r[t] \in {state[t], "runnable"}
      BY <1>2, <2>1, <2>2, <2>6 DEF Used
    <2>8. SameTasks /\ StackInv'
      BY <1>2, <2>1, <2>5, <2>7, SwitchInv
    <2>9. ~IsFresh(sender)
      BY <2>1, <2>6 DEF StackInv, Used
    <2>10. lifeBar' = [lifeBar EXCEPT ![current] = "blocked", ![sender] = "runnable"]
      BY <1>2, <2>1, <2>2, <2>5, <2>6, <2>8, <2>9, Lives DEF SameTasks, Life
    <2>11. C!Yield(ReadyOf(M), FALSE) /\ waitingBar' = WaitingOf(M) /\ ownedBar' = OwnedOf(M)
      BY <2>1, <2>2, <2>4, <2>5, YieldMaps
    <2>12. /\ C!Yield(Append(readyBar, sender), FALSE) /\ ownedBar' = ownedBar
           /\ waitingBar' = [waitingBar EXCEPT ![current] = C!RemoveAt(@, i)]
      BY <1>3, <2>4, <2>11 DEF C!RemoveAt, RemoveAt
    <2>13. waitingBar[current][i] = sender
      BY <1>6, <2>1
    <2>14. regsBar' = regsBar /\ framesBar' = framesBar /\ imageBar' = imageBar
      BY <2>8 DEF SameTasks
    <2>15. C!Receive(src)
      BY ONLY <1>5, <1>7, <1>9, <2>10, <2>12, <2>13, <2>14 DEF C!Receive
    <2> QED
      BY <2>8, <2>15
  <1> QED
    BY <1>8, <1>9

(* The lists are the same as before.                                       *)
LEMMA SameLists ==
    ASSUME NEW L, Lists(links, L), links' = links
    PROVE  readyBar' = readyBar /\ waitingBar' = waitingBar /\ ownedBar' = ownedBar
  <1>1. Lists(links', L)
    OBVIOUS
  <1> QED
    BY <1>1, Views, ViewsNext

(* A step that leaves CPU and stacks alone.                                *)
LEMMA StillTasks ==
    ASSUME StackInv, UNCHANGED <<current, regs, pc, stacks, launched, arch>>, Used(state') \subseteq Used(state),
           \A t \in Used(state') : IsFresh(t) => state'[t] = "runnable" /\ t \notin exited'
    PROVE  SameTasks /\ StackInv'
  <1>1. regs' = regs /\ pc' = pc /\ stacks' = stacks /\ current' = current /\ arch' = arch /\ launched' = launched
    OBVIOUS
  <1>2. \A t \in Task : IsFresh(t)' <=> IsFresh(t)
    BY <1>1, BarsNext DEF IsFresh
  <1>3. regsBar' = regsBar
    BY <1>1, BarsNext DEF regsBar
  <1>4. framesBar' = framesBar /\ imageBar' = imageBar
    BY <1>1, <1>2, BarsNext DEF framesBar, imageBar
  <1>5. Sound(stacks', Used(state'), current', pc')
    <2>1. Sound(stacks, Used(state), current, pc)
      BY DEF StackInv
    <2> QED
      BY <1>1, <2>1 DEF Sound
  <1>6. regs' \in [Register -> Words] /\ launched' \in [Task -> Seq(Words)]
    BY <1>1 DEF StackInv
  <1>7. \A t \in Used(state') : IsFresh(t)' => state'[t] = "runnable" /\ t \notin exited'
    BY <1>2 DEF Used
  <1>8. StackInv'
    BY <1>1, <1>5, <1>6, <1>7, StackNext
  <1> QED
    BY <1>2, <1>3, <1>4, <1>8 DEF SameTasks

(* A page that is not linked is free, and a task whose waitqueue_next is   *)
(* not linked waits for nobody.                                            *)
LEMMA FreeFacts ==
    ASSUME NEW L, Lists(links, L)
    PROVE  /\ \A p \in Page : ~list_is_linked(links, link(p)) => p \in C!Free
           /\ \A t \in Task : ~list_is_linked(links, waitqueue_next(t)) => ~C!Waiting(t)
  <1>1. /\ L \in [Headers -> Seq(Node)] /\ waitingBar = WaitingOf(L) /\ ownedBar = OwnedOf(L)
        /\ \A l \in Headers : ToSet(L[l]) \subseteq Kind(l)
    BY Views DEF Lists
  <1>2. ASSUME NEW p \in Page, ~list_is_linked(links, link(p)), NEW t \in Task, p \in ToSet(ownedBar[t]) PROVE FALSE
    <2>1. pages(t) \in Headers /\ Kind(pages(t)) = LinkNodes
      BY HeaderFacts, KindFacts
    <2> DEFINE s == L[pages(t)]
    <2>2. s \in Seq(Node) /\ ownedBar[t] = Tasks(s) /\ ToSet(s) \subseteq LinkNodes /\ link(p) \notin ToSet(s)
      BY <1>1, <1>2, <2>1, UnlinkedAbsent DEF OwnedOf, Absent
    <2> HIDE DEF s
    <2>3. PICK i \in DOMAIN s : container(s[i]) = p
      BY <1>2, <2>2, TasksFacts DEF ToSet
    <2>4. s[i] \in ToSet(s)
      BY DEF ToSet
    <2>5. PICK q \in Page : s[i] = link(q)
      BY <2>2, <2>4 DEF LinkNodes
    <2>6. q = p
      BY <2>3, <2>5, HeaderFacts
    <2> QED
      BY <2>2, <2>4, <2>5, <2>6
  <1>3. ASSUME NEW t \in Task, ~list_is_linked(links, waitqueue_next(t)), NEW d \in Task, t \in ToSet(waitingBar[d])
        PROVE  FALSE
    <2>1. senders(d) \in Headers /\ Kind(senders(d)) = WaitNodes
      BY HeaderFacts, KindFacts
    <2> DEFINE s == L[senders(d)]
    <2>2. s \in Seq(Node) /\ waitingBar[d] = Tasks(s) /\ ToSet(s) \subseteq WaitNodes /\ waitqueue_next(t) \notin ToSet(s)
      BY <1>1, <1>3, <2>1, UnlinkedAbsent DEF WaitingOf, Absent
    <2> HIDE DEF s
    <2>3. PICK i \in DOMAIN s : container(s[i]) = t
      BY <1>3, <2>2, TasksFacts DEF ToSet
    <2>4. s[i] \in ToSet(s)
      BY DEF ToSet
    <2>5. PICK u \in Task : s[i] = waitqueue_next(u)
      BY <2>2, <2>4 DEF WaitNodes
    <2>6. u = t
      BY <2>3, <2>5, HeaderFacts
    <2> QED
      BY <2>2, <2>4, <2>5, <2>6
  <1> QED
    BY <1>2, <1>3 DEF C!Free, C!Waiting, C!ToSet, ToSet

(* palloc.                                                                 *)
LEMMA AllocateMaps ==
    ASSUME NEW L, Kernel(links, L, state, exited, current), StackInv, palloc
    PROVE  StackInv' /\ C!Allocate
  <1>1. PICK p \in Page : FirstFree(p) /\ links' = Allocated(links, p)
    BY DEF palloc
  <1> DEFINE M == Behind(L, pages(current), link(p))
  <1>2. Kernel(links', M, state', exited', current')
    BY <1>1, AllocStep
  <1>3. /\ state' = state /\ exited' = exited
        /\ UNCHANGED <<current, regs, pc, stacks, launched, arch>>
    BY DEF palloc
  <1>4. Lists(links, L) /\ L \in [Headers -> Seq(Node)] /\ current \in Task /\ Lists(links', M)
    BY <1>2, KernelFacts
  <1>5. SameTasks /\ StackInv'
    <2>1. \A t \in Used(state') : IsFresh(t) => state'[t] = "runnable" /\ t \notin exited'
      BY <1>3 DEF StackInv
    <2>2. Used(state') \subseteq Used(state)
      BY <1>3
    <2> QED
      BY <1>3, <2>1, <2>2, StillTasks
  <1>6. lifeBar' = lifeBar
    BY <1>3, <1>5, Lives DEF SameTasks, Life
  <1>7. p \in C!Free
    BY <1>1, <1>4, FreeFacts DEF FirstFree
  <1>8. /\ ReadyOf(M) = ReadyOf(L) /\ WaitingOf(M) = WaitingOf(L)
        /\ OwnedOf(M) = [OwnedOf(L) EXCEPT ![current] = Append(@, p)]
    BY <1>4, BehindOwned
  <1> HIDE DEF M
  <1>9. readyBar' = readyBar /\ waitingBar' = waitingBar /\ ownedBar' = [ownedBar EXCEPT ![current] = Append(@, p)]
    BY <1>4, <1>8, Views, ViewsNext
  <1>10. /\ current' = current /\ regsBar' = regsBar /\ framesBar' = framesBar /\ imageBar' = imageBar
    BY <1>3, <1>5 DEF SameTasks
  <1>11. C!Allocate
    BY ONLY <1>6, <1>7, <1>9, <1>10 DEF C!Allocate
  <1> QED
    BY <1>5, <1>11

(* ipc_send wakes a task that receives.                                    *)
LEMMA WakeMaps ==
    ASSUME NEW L, Kernel(links, L, state, exited, current), StackInv, NEW d \in Task, SendReady(d)
    PROVE  StackInv' /\ C!Wake(d)
  <1> DEFINE M == Behind(L, runqueue, next(d))
  <1>1. Kernel(links', M, state', exited', current')
    BY SendReadyStep
  <1>2. /\ state[d] = "blocked" /\ ~list_is_linked(links, waitqueue_next(d)) /\ d \notin exited
        /\ state' = [state EXCEPT ![d] = "runnable"] /\ exited' = exited
        /\ UNCHANGED <<current, regs, pc, stacks, launched, arch>>
    BY DEF SendReady, Reachable, Receiving
  <1>3. /\ Lists(links, L) /\ L \in [Headers -> Seq(Node)] /\ current \in Task /\ Lists(links', M)
        /\ state \in [Task -> {"unused", "runnable", "blocked"}]
    BY <1>1, KernelFacts
  <1>4. state'[d] = "runnable" /\ \A t \in Task \ {d} : state'[t] = state[t]
    BY <1>2, <1>3
  <1>5. ~IsFresh(d)
    BY <1>2 DEF StackInv, Used
  <1>6. SameTasks /\ StackInv'
    <2>1. Used(state') = Used(state)
      BY <1>2, <1>4 DEF Used
    <2>2. \A t \in Used(state') : IsFresh(t) => state'[t] = "runnable" /\ t \notin exited'
      BY <1>2, <1>4, <1>5, <2>1 DEF StackInv, Used
    <2> QED
      BY <1>2, <2>1, <2>2, StillTasks
  <1>7. lifeBar' = [lifeBar EXCEPT ![d] = "runnable"]
    BY <1>2, <1>4, <1>5, <1>6, Lives DEF SameTasks, Life
  <1>8. lifeBar[d] = "blocked" /\ ~C!Waiting(d)
    BY <1>2, <1>3, FreeFacts, Lives DEF Life
  <1>9. ReadyOf(M) = Append(ReadyOf(L), d) /\ WaitingOf(M) = WaitingOf(L) /\ OwnedOf(M) = OwnedOf(L)
    BY <1>3, BehindReady
  <1> HIDE DEF M
  <1>10. readyBar' = Append(readyBar, d) /\ waitingBar' = waitingBar /\ ownedBar' = ownedBar
    BY <1>3, <1>9, Views, ViewsNext
  <1>11. /\ current' = current /\ regsBar' = regsBar /\ framesBar' = framesBar /\ imageBar' = imageBar
    BY <1>2, <1>6 DEF SameTasks
  <1>12. C!Wake(d)
    BY ONLY <1>7, <1>8, <1>10, <1>11 DEF C!Wake
  <1> QED
    BY <1>6, <1>12

(* task_destroy.                                                           *)
LEMMA DestroyMaps ==
    ASSUME NEW L, Kernel(links, L, state, exited, current), StackInv, NEW t \in Task, task_destroy(t)
    PROVE  StackInv' /\ C!Destroy(t)
  <1> DEFINE M == Emptied(L, pages(t))
  <1>1. Kernel(links', M, state', exited', current')
    BY DestroyStep
  <1>2. /\ t \in exited /\ state' = [state EXCEPT ![t] = "unused"] /\ exited' = exited \ {t}
        /\ UNCHANGED <<current, regs, pc, stacks, launched, arch>>
    BY DEF task_destroy
  <1>3. /\ Lists(links, L) /\ L \in [Headers -> Seq(Node)] /\ Lists(links', M)
        /\ state \in [Task -> {"unused", "runnable", "blocked"}]
    BY <1>1, KernelFacts
  <1>4. state'[t] = "unused" /\ \A u \in Task \ {t} : state'[u] = state[u]
    BY <1>2, <1>3
  <1>5. SameTasks /\ StackInv'
    <2>1. Used(state') \subseteq Used(state) /\ t \notin Used(state')
      BY <1>4 DEF Used
    <2>2. \A u \in Used(state') : IsFresh(u) => state'[u] = "runnable" /\ u \notin exited'
      BY <1>2, <1>4, <2>1 DEF StackInv, Used
    <2> QED
      BY <1>2, <2>1, <2>2, StillTasks
  <1>6. lifeBar' = [lifeBar EXCEPT ![t] = "unused"]
    BY <1>2, <1>4, <1>5, Lives DEF SameTasks, Life
  <1>7. lifeBar[t] = "exited"
    BY <1>2, Lives DEF Life
  <1>8. ReadyOf(M) = ReadyOf(L) /\ WaitingOf(M) = WaitingOf(L) /\ OwnedOf(M) = [OwnedOf(L) EXCEPT ![t] = <<>>]
    BY <1>3, EmptiedOwned
  <1> HIDE DEF M
  <1>9. readyBar' = readyBar /\ waitingBar' = waitingBar /\ ownedBar' = [ownedBar EXCEPT ![t] = <<>>]
    BY <1>3, <1>8, Views, ViewsNext
  <1>10. /\ current' = current /\ regsBar' = regsBar /\ framesBar' = framesBar /\ imageBar' = imageBar
    BY <1>2, <1>5 DEF SameTasks
  <1>11. C!Destroy(t)
    BY ONLY <1>6, <1>7, <1>9, <1>10 DEF C!Destroy
  <1> QED
    BY <1>5, <1>11

(* Compiled code uses registers and stack.                                 *)
LEMMA WorkMaps ==
    ASSUME NEW L, Kernel(links, L, state, exited, current), StackInv, Work
    PROVE  StackInv' /\ C!Compute
  <1>0. PICK c \in Task : c = current
    BY KernelFacts
  <1>1. PICK r \in Regs : regs' = r /\ stacks' = [stacks EXCEPT ![c] = <<"frame">> \o stacks[c]]
    BY <1>0 DEF Work
  <1> DEFINE f == <<"frame">> \o stacks[c]
  <1>2. /\ pc = "kernel" /\ pc' = "kernel"
        /\ UNCHANGED <<links, state, exited, current, launched, arch>>
    BY DEF Work, Runs
  <1>3. /\ Lists(links, L) /\ stacks \in [Task -> Seq(Words)] /\ stacks[c] \in Seq(Words) /\ r \in [Register -> Words]
        /\ launched' \in [Task -> Seq(Words)]
    BY <1>0, <1>2, KernelFacts, SwitchAssumption DEF StackInv, Sound, Words
  <1>4. f \in Seq(Words)
    <2>1. "frame" \in Words
      BY DEF Words
    <2> QED
      BY <1>3, <2>1, OneMore
  <1>5. \A s \in Seq(Words) : SubSeq(s, 1, Len(s) - 0) = s
    <2> SUFFICES ASSUME NEW s \in Seq(Words) PROVE SubSeq(s, 1, Len(s) - 0) = s
      OBVIOUS
    <2>1. Len(s) \in Nat /\ 1 <= 1 /\ Len(s) <= Len(s) /\ 1 <= Len(s) + 1 /\ Len(s) - 0 = Len(s)
      OBVIOUS
    <2> QED
      BY <2>1, SubSeqFacts
  <1> HIDE DEF f
  <1>6. stacks'[c] = f /\ stacks' \in [Task -> Seq(Words)] /\ \A t \in Task \ {c} : stacks'[t] = stacks[t]
    BY <1>1, <1>3, <1>4 DEF f
  <1>7. (\A t \in Task : IsFresh(t)' <=> IsFresh(t)) /\ ~IsFresh(c) /\ ~IsFresh(c)'
    BY <1>0, <1>2, <1>6, BarsNext DEF IsFresh
  <1>8. regsBar' = [regsBar EXCEPT ![current] = r]
    <2>1. regsBar' = [t \in Task |->
             IF t = c THEN r
             ELSE [x \in Register |-> IF Len(stacks'[t]) < Depth THEN "0" ELSE Word(stacks'[t], x)]]
      BY <1>0, <1>1, <1>2, BarsNext
    <2>2. regsBar = [t \in Task |->
             IF t = c THEN regs
             ELSE [x \in Register |-> IF Len(stacks[t]) < Depth THEN "0" ELSE Word(stacks[t], x)]]
      BY <1>0 DEF regsBar
    <2>3. \A t \in Task \ {c} : regsBar'[t] = regsBar[t]
      BY <2>1, <2>2, <1>6
    <2>4. regsBar'[c] = r
      BY <2>1
    <2> QED
      BY <2>1, <2>2, <2>3, <2>4, <1>0
  <1>9. framesBar' = [framesBar EXCEPT ![current] = <<"frame">> \o @]
    <2>1. framesBar' = [t \in Task |->
             SubSeq(stacks'[t], IF t = c THEN 1 ELSE Depth + 1, Len(stacks'[t]) - (IF IsFresh(t)' THEN 2 ELSE 0))]
      BY <1>0, <1>2, BarsNext
    <2>2. framesBar = [t \in Task |->
             SubSeq(stacks[t], IF t = c THEN 1 ELSE Depth + 1, Len(stacks[t]) - (IF IsFresh(t) THEN 2 ELSE 0))]
      BY <1>0 DEF framesBar
    <2>3. framesBar'[c] = f /\ framesBar[c] = stacks[c]
      BY <2>1, <2>2, <1>3, <1>4, <1>5, <1>6, <1>7
    <2>4. \A t \in Task \ {c} : framesBar'[t] = framesBar[t]
      BY <2>1, <2>2, <1>6, <1>7
    <2>5. framesBar'[c] = <<"frame">> \o framesBar[c]
      BY <2>3 DEF f
    <2> HIDE DEF f
    <2> QED
      BY <2>1, <2>2, <2>4, <2>5, <1>0
  <1>10. imageBar' = imageBar
    BY <1>2, <1>6, <1>7, BarsNext DEF imageBar
  <1>11. lifeBar' = lifeBar
    BY <1>2, <1>7, Lives DEF Life
  <1>12. StackInv'
    <2>1. Sound(stacks', Used(state'), current', pc')
      BY <1>0, <1>2, <1>6 DEF StackInv, Sound, Used
    <2>2. \A t \in Used(state') : IsFresh(t)' => state'[t] = "runnable" /\ t \notin exited'
      BY <1>2, <1>7 DEF StackInv, Used
    <2>3. arch' = arch /\ regs' \in [Register -> Words]
      BY <1>1, <1>2, <1>3
    <2> QED
      BY <2>1, <2>2, <2>3, <1>3, StackNext
  <1>13. readyBar' = readyBar /\ waitingBar' = waitingBar /\ ownedBar' = ownedBar /\ current' = current
    BY <1>2, <1>3, SameLists
  <1>14. C!Compute
    BY ONLY r \in Regs, <1>8, <1>9, <1>10, <1>11, <1>13 DEF C!Compute
  <1> QED
    BY <1>12, <1>14

(* A new task has the CPU for the first time.                              *)
LEMMA StartMaps ==
    ASSUME NEW L, Kernel(links, L, state, exited, current), StackInv, arch_vm_entry
    PROVE  StackInv' /\ C!Start
  <1>0. PICK c \in Task : c = current
    BY KernelFacts
  <1> DEFINE s == stacks[c]
             q == SubSeq(s, 3, Len(s))
  <1>1. /\ pc = "arch_vm_entry" /\ pc' = "kernel"
        /\ launched' = [launched EXCEPT ![c] = SubSeq(s, 1, 2)] /\ stacks' = [stacks EXCEPT ![c] = q]
        /\ UNCHANGED <<links, state, exited, current, regs, arch>>
    BY <1>0 DEF arch_vm_entry
  <1>2. /\ Lists(links, L) /\ stacks \in [Task -> Seq(Words)] /\ s \in Seq(Words) /\ Len(s) = 2
        /\ launched \in [Task -> Seq(Words)] /\ c \in Used(state)
        /\ regs \in [Register -> Words]
    BY <1>0, <1>1, KernelFacts DEF StackInv, Sound
  <1>3. /\ q = <<>> /\ SubSeq(s, 1, Len(s) - 2) = <<>> /\ SubSeq(s, 1, 2) \in Seq(Words)
        /\ SubSeq(s, Len(s) - 1, Len(s)) = SubSeq(s, 1, 2)
    <2>1. s \in Seq(Words) /\ Len(s) = 2
      BY <1>2
    <2> HIDE DEF s
    <2>2. Len(s) - 2 = 0 /\ Len(s) - 1 = 1
      BY <2>1
    <2>3. SubSeq(s, 3, 2) = <<>>
      BY ONLY <2>1, SubSeqFacts
    <2>4. SubSeq(s, 1, 0) = <<>>
      BY ONLY <2>1, SubSeqFacts
    <2>5. SubSeq(s, 1, 2) \in Seq(Words)
      BY ONLY <2>1
    <2> QED
      BY <2>1, <2>2, <2>3, <2>4, <2>5
  <1> HIDE DEF q
  <1>4. q \in Seq(Words) /\ Len(q) = 0 /\ SubSeq(q, 1, Len(q) - 0) = <<>>
    <2>1. q \in Seq(Words) /\ Len(q) = 0 /\ Len(q) - 0 = 0
      BY <1>3
    <2>2. SubSeq(q, 1, 0) = <<>>
      BY ONLY <2>1, SubSeqFacts
    <2> QED
      BY <2>1, <2>2
  <1>15. current' = c /\ arch' = arch
    BY <1>0, <1>1
  <1>5. /\ stacks'[c] = q /\ stacks' \in [Task -> Seq(Words)] /\ \A t \in Task \ {c} : stacks'[t] = stacks[t]
        /\ launched'[c] = SubSeq(s, 1, 2) /\ launched' \in [Task -> Seq(Words)]
        /\ \A t \in Task \ {c} : launched'[t] = launched[t]
    BY <1>1, <1>2, <1>3, <1>4
  <1>6. IsFresh(c) /\ ~IsFresh(c)' /\ \A t \in Task \ {c} : IsFresh(t)' <=> IsFresh(t)
    BY <1>0, <1>1, <1>5, BarsNext DEF IsFresh
  <1>7. state[c] = "runnable" /\ c \notin exited
    BY <1>2, <1>6 DEF StackInv
  <1>8. lifeBar[current] = "fresh" /\ lifeBar' = [lifeBar EXCEPT ![current] = "runnable"]
    BY <1>0, <1>1, <1>6, <1>7, Lives DEF Life
  <1>9. regsBar' = regsBar
    <2>1. regsBar' = [t \in Task |->
             IF t = c THEN regs
             ELSE [x \in Register |-> IF Len(stacks'[t]) < Depth THEN "0" ELSE Word(stacks'[t], x)]]
      BY <1>1, <1>15, BarsNext
    <2>2. regsBar = [t \in Task |->
             IF t = c THEN regs
             ELSE [x \in Register |-> IF Len(stacks[t]) < Depth THEN "0" ELSE Word(stacks[t], x)]]
      BY <1>0 DEF regsBar
    <2>3. \A t \in Task : regsBar'[t] = regsBar[t]
      BY <2>1, <2>2, <1>5
    <2> QED
      BY <2>1, <2>2, <2>3
  <1>10. framesBar' = framesBar
    <2>1. framesBar' = [t \in Task |->
             SubSeq(stacks'[t], IF t = c THEN 1 ELSE Depth + 1, Len(stacks'[t]) - (IF IsFresh(t)' THEN 2 ELSE 0))]
      BY <1>15, BarsNext
    <2>2. framesBar = [t \in Task |->
             SubSeq(stacks[t], IF t = c THEN 1 ELSE Depth + 1, Len(stacks[t]) - (IF IsFresh(t) THEN 2 ELSE 0))]
      BY <1>0 DEF framesBar
    <2>3. framesBar'[c] = <<>> /\ framesBar[c] = <<>>
      BY <2>1, <2>2, <1>3, <1>4, <1>5, <1>6
    <2>4. \A t \in Task \ {c} : framesBar'[t] = framesBar[t]
      BY <2>1, <2>2, <1>5, <1>6
    <2>5. \A t \in Task : framesBar'[t] = framesBar[t]
      BY <2>3, <2>4
    <2> QED
      BY <2>1, <2>2, <2>5
  <1>11. imageBar' = imageBar
    <2>1. imageBar' = [t \in Task |->
             IF IsFresh(t)' THEN SubSeq(stacks'[t], Len(stacks'[t]) - 1, Len(stacks'[t])) ELSE launched'[t]]
      BY <1>1, BarsNext
    <2>2. imageBar'[c] = SubSeq(s, 1, 2) /\ imageBar[c] = SubSeq(s, 1, 2)
      BY <2>1, <1>3, <1>5, <1>6 DEF imageBar
    <2>3. \A t \in Task \ {c} : imageBar'[t] = imageBar[t]
      BY <2>1, <1>5, <1>6 DEF imageBar
    <2>4. \A t \in Task : imageBar'[t] = imageBar[t]
      BY <2>2, <2>3
    <2> QED
      BY <2>1, <2>4 DEF imageBar
  <1>12. StackInv'
    <2>1. Sound(stacks', Used(state'), current', pc')
      BY <1>0, <1>1, <1>5 DEF StackInv, Sound, Used
    <2>2. \A t \in Used(state') : IsFresh(t)' => state'[t] = "runnable" /\ t \notin exited'
      BY <1>1, <1>6 DEF StackInv, Used
    <2>3. arch' = arch /\ regs' \in [Register -> Words]
      BY <1>1, <1>2
    <2> QED
      BY <2>1, <2>2, <2>3, <1>5, StackNext
  <1>13. readyBar' = readyBar /\ waitingBar' = waitingBar /\ ownedBar' = ownedBar /\ current' = current
    BY <1>1, <1>2, SameLists
  <1>14. C!Start
    BY ONLY <1>8, <1>9, <1>10, <1>11, <1>13 DEF C!Start
  <1> QED
    BY <1>12, <1>14

(* vm_create: the new task is as arch_vm_init makes it, with image and     *)
(* size on the stack, a page goes to whoever makes it, and it is queued.   *)
LEMMA CreateMaps ==
    ASSUME NEW L, Kernel(links, L, state, exited, current), StackInv, NEW m \in Image,
           NEW t \in Task, NEW p \in Page, Made(m, t, p)
    PROVE  StackInv' /\ C!Create(t, m)
  <1>0. PICK c \in Task : c = current
    BY KernelFacts
  <1> DEFINE N == Behind(L, pages(c), link(p))
             M == Behind(N, runqueue, next(t))
             f == arch_vm_init(m)
  <1>1. Kernel(links', M, state', exited', current')
    BY <1>0, CreateStep
  <1>2. /\ state[t] = "unused" /\ ~list_is_linked(links, link(p))
        /\ stacks' = [stacks EXCEPT ![t] = f] /\ state' = [state EXCEPT ![t] = "runnable"]
        /\ UNCHANGED <<exited, current, regs, pc, launched, arch>>
    BY DEF Made, FirstFree
  <1>3. /\ Lists(links, L) /\ L \in [Headers -> Seq(Node)] /\ Lists(links', M)
        /\ state \in [Task -> {"unused", "runnable", "blocked"}] /\ exited \subseteq Task
        /\ t \notin exited /\ t # c /\ L[pages(t)] = <<>>
    BY <1>0, <1>1, <1>2, KernelFacts DEF Kernel, Fits
  <1>4. /\ arch \in Arch /\ regs \in [Register -> Words] /\ launched \in [Task -> Seq(Words)]
        /\ stacks \in [Task -> Seq(Words)] /\ m \in Seq(Words) /\ Len(m) = 2
        /\ Depth \in Nat \ {0}
    BY SwitchAssumption, OrderFacts DEF StackInv, Sound, Words
  <1>5. /\ f \in Seq(Words) /\ Len(f) = Depth + 2
        /\ Word(f, "ra") = "arch_vm_entry" /\ \A r \in Register : Word(f, r) = "0"
        /\ SubSeq(f, Len(f) - 1, Len(f)) = m
        /\ SubSeq(f, Depth + 1, Len(f) - 2) = <<>>
    BY <1>4, FrameFresh
  <1> HIDE DEF f
  <1>6. stacks'[t] = f /\ stacks' \in [Task -> Seq(Words)] /\ \A u \in Task \ {t} : stacks'[u] = stacks[u]
    BY <1>2, <1>4, <1>5
  <1>7. state'[t] = "runnable" /\ \A u \in Task \ {t} : state'[u] = state[u]
    BY <1>2, <1>3
  <1>8. arch' = arch /\ current' = c
    BY <1>0, <1>2
  <1>9. Len(f) > Depth /\ ~(Len(f) < Depth) /\ Len(f) >= Depth
    BY <1>4, <1>5
  <1>10. IsFresh(t)' /\ \A u \in Task \ {t} : IsFresh(u)' <=> IsFresh(u)
    BY <1>0, <1>2, <1>3, <1>5, <1>6, <1>8, <1>9, BarsNext DEF IsFresh
  <1>11. lifeBar[t] = "unused" /\ lifeBar' = [lifeBar EXCEPT ![t] = "fresh"]
    BY <1>2, <1>3, <1>7, <1>10, Lives DEF Life
  <1>12. regsBar' = [regsBar EXCEPT ![t] = [r \in Register |-> "0"]]
    <2>1. regsBar' = [u \in Task |->
             IF u = c THEN regs
             ELSE [x \in Register |-> IF Len(stacks'[u]) < Depth THEN "0" ELSE Word(stacks'[u], x)]]
      BY <1>2, <1>8, BarsNext
    <2>2. regsBar = [u \in Task |->
             IF u = c THEN regs
             ELSE [x \in Register |-> IF Len(stacks[u]) < Depth THEN "0" ELSE Word(stacks[u], x)]]
      BY <1>0 DEF regsBar
    <2>3. \A u \in Task \ {t} : regsBar'[u] = regsBar[u]
      BY <2>1, <2>2, <1>6
    <2>4. regsBar'[t] = [x \in Register |-> "0"]
      BY <2>1, <1>3, <1>5, <1>6, <1>9
    <2> QED
      BY <2>1, <2>2, <2>3, <2>4
  <1>13. framesBar' = [framesBar EXCEPT ![t] = <<>>]
    <2>1. framesBar' = [u \in Task |->
             SubSeq(stacks'[u], IF u = c THEN 1 ELSE Depth + 1, Len(stacks'[u]) - (IF IsFresh(u)' THEN 2 ELSE 0))]
      BY <1>8, BarsNext
    <2>2. framesBar = [u \in Task |->
             SubSeq(stacks[u], IF u = c THEN 1 ELSE Depth + 1, Len(stacks[u]) - (IF IsFresh(u) THEN 2 ELSE 0))]
      BY <1>0 DEF framesBar
    <2>3. \A u \in Task \ {t} : framesBar'[u] = framesBar[u]
      BY <2>1, <2>2, <1>6, <1>10
    <2>4. framesBar'[t] = <<>>
      BY <2>1, <1>3, <1>5, <1>6, <1>10
    <2> QED
      BY <2>1, <2>2, <2>3, <2>4
  <1>14. imageBar' = [imageBar EXCEPT ![t] = m]
    <2>1. imageBar' = [u \in Task |->
             IF IsFresh(u)' THEN SubSeq(stacks'[u], Len(stacks'[u]) - 1, Len(stacks'[u])) ELSE launched[u]]
      BY <1>2, <1>8, BarsNext
    <2>2. \A u \in Task \ {t} : imageBar'[u] = imageBar[u]
      BY <2>1, <1>6, <1>10 DEF imageBar
    <2>3. imageBar'[t] = m
      BY <2>1, <1>5, <1>6, <1>10
    <2> QED
      BY <2>1, <2>2, <2>3 DEF imageBar
  <1>15. StackInv'
    <2>1. \A u \in Used(state') : u = t \/ (u \in Used(state) /\ u # t)
      BY <1>7 DEF Used
    <2>2. Sound(stacks', Used(state'), current', pc')
      <3>1. Sound(stacks, Used(state), c, pc)
        BY <1>0 DEF StackInv
      <3>2. \A u \in Used(state') \ {c} : Len(stacks'[u]) >= Depth
        BY <2>1, <3>1, <1>6, <1>9 DEF Sound, Used
      <3>3. \A u \in Used(state') \ {c} : Word(stacks'[u], "ra") = "arch_vm_entry" => Len(stacks'[u]) = Depth + 2
        BY <2>1, <3>1, <1>5, <1>6 DEF Sound, Used
      <3>4. pc' = "arch_vm_entry" => Len(stacks'[c]) = 2
        BY <3>1, <1>2, <1>3, <1>6 DEF Sound
      <3> QED
        BY <3>2, <3>3, <3>4, <1>6, <1>8 DEF Sound
    <2>3. \A u \in Used(state') : IsFresh(u)' => state'[u] = "runnable" /\ u \notin exited'
      <3>1. \A u \in Used(state) : IsFresh(u) => state[u] = "runnable" /\ u \notin exited
        BY DEF StackInv
      <3> QED
        BY <2>1, <3>1, <1>2, <1>3, <1>7, <1>10 DEF Used
    <2> QED
      BY <2>2, <2>3, <1>2, <1>4, <1>8, StackNext
  <1>16. p \in C!Free
    BY <1>2, <1>3, FreeFacts
  <1>17. /\ ReadyOf(M) = Append(ReadyOf(L), t) /\ WaitingOf(M) = WaitingOf(L)
         /\ OwnedOf(M) = [OwnedOf(L) EXCEPT ![c] = Append(@, p)]
    <2>1. /\ N \in [Headers -> Seq(Node)]
          /\ ReadyOf(N) = ReadyOf(L) /\ WaitingOf(N) = WaitingOf(L)
          /\ OwnedOf(N) = [OwnedOf(L) EXCEPT ![c] = Append(@, p)]
      BY <1>3, BehindOwned
    <2> HIDE DEF N
    <2> QED
      BY <2>1, BehindReady
  <1> HIDE DEF M
  <1>18. [ownedBar EXCEPT ![t] = <<>>] = ownedBar
    <2>1. ownedBar = OwnedOf(L)
      BY <1>3, Views
    <2>2. Tasks(L[pages(t)]) = <<>>
      BY <1>3, TasksFacts, EmptyList
    <2>3. OwnedOf(L)[t] = <<>>
      BY <2>2 DEF OwnedOf
    <2> QED
      BY <2>1, <2>3 DEF OwnedOf
  <1>19. /\ readyBar' = Append(readyBar, t) /\ waitingBar' = waitingBar
         /\ ownedBar' = [[ownedBar EXCEPT ![t] = <<>>] EXCEPT ![current] = Append(@, p)]
    <2>1. ownedBar' = [ownedBar EXCEPT ![current] = Append(@, p)]
      BY <1>0, <1>3, <1>17, Views, ViewsNext
    <2>2. readyBar' = Append(readyBar, t) /\ waitingBar' = waitingBar
      BY <1>3, <1>17, Views, ViewsNext
    <2> QED
      BY ONLY <2>1, <2>2, <1>18
  <1>20. current' = current
    BY <1>2
  <1>21. C!Create(t, m)
    BY ONLY <1>11, <1>12, <1>13, <1>14, <1>16, <1>19, <1>20 DEF C!Create
  <1> QED
    BY <1>15, <1>21

(* kernel_main starts as Coroutines does: idle has the CPU and one page.   *)
LEMMA InitMaps ==
    ASSUME Init
    PROVE  StackInv /\ C!Init
  <1>1. /\ current = Idle /\ pc = "kernel" /\ exited = {} /\ arch \in Arch
        /\ state = [t \in Task |-> IF t = Idle THEN "runnable" ELSE "unused"]
        /\ regs = [r \in Register |-> "0"]
        /\ stacks = [t \in Task |-> <<>>] /\ launched = [t \in Task |-> <<>>]
    BY DEF Init
  <1>2. Kernel(links, InitLists, state, exited, current)
    BY InitKernel
  <1>3. Lists(links, InitLists) /\ Idle \in Task /\ Depth \in Nat \ {0}
    BY <1>2, KernelFacts, OrderFacts
  <1>4. "0" \in Words /\ <<>> \in Seq(Words) /\ Len(<<>>) = 0
    BY DEF Words
  <1>5. \A t \in Task : ~IsFresh(t)
    BY <1>1, <1>3, <1>4 DEF IsFresh
  <1>6. StackInv
    <2>1. Used(state) \ {current} = {}
      BY <1>1 DEF Used
    <2>2. Sound(stacks, Used(state), current, pc)
      BY <2>1, <1>1, <1>4 DEF Sound
    <2>3. regs \in [Register -> Words] /\ launched \in [Task -> Seq(Words)]
      BY <1>1, <1>4
    <2> QED
      BY <2>2, <2>3, <1>1, <1>5 DEF StackInv, Used
  <1>7. lifeBar = [t \in Task |-> IF t = Idle THEN "runnable" ELSE "unused"]
    BY <1>1, <1>5, Lives DEF Life
  <1>8. regsBar = [t \in Task |-> [r \in Register |-> "0"]]
    BY <1>1, <1>3, <1>4 DEF regsBar
  <1>9. framesBar = [t \in Task |-> <<>>]
    <2>1. SubSeq(<<>>, 1, 0) = <<>> /\ SubSeq(<<>>, Depth + 1, 0) = <<>>
      BY <1>3
    <2> QED
      BY <2>1, <1>1, <1>4, <1>5 DEF framesBar
  <1>10. imageBar = [t \in Task |-> <<>>]
    BY <1>1, <1>5 DEF imageBar
  <1>11. readyBar = ReadyOf(InitLists) /\ waitingBar = WaitingOf(InitLists) /\ ownedBar = OwnedOf(InitLists)
    BY <1>3, Views
  <1>12. Tasks(<<>>) = <<>>
    BY TasksFacts, EmptyList
  <1>13. readyBar = <<>> /\ waitingBar = [t \in Task |-> <<>>]
    BY <1>3, <1>11, <1>12, HeaderFacts DEF InitLists, ReadyOf, WaitingOf
  <1>14. 1 \in Page /\ ownedBar = [t \in Task |-> IF t = Idle THEN <<1>> ELSE <<>>]
    <2>1. 1 \in Page
      BY SwitchAssumption DEF Page
    <2>2. Tasks(<<link(1)>>) = <<1>>
      BY DEF Tasks, container, link
    <2>3. InitLists[pages(Idle)] = <<link(1)>> /\ \A t \in Task \ {Idle} : InitLists[pages(t)] = <<>>
      BY <1>3, HeaderFacts DEF InitLists
    <2> QED
      BY <2>1, <2>2, <2>3, <1>3, <1>11, <1>12 DEF OwnedOf
  <1>15. C!Init
    BY ONLY <1>1, <1>7, <1>8, <1>9, <1>10, <1>13, <1>14 DEF C!Init
  <1> QED
    BY <1>6, <1>15

(* Every step is one of Coroutines, or changes nothing there.              *)
LEMMA StepMaps ==
    ASSUME KernelInv, StackInv, [Next]_vars
    PROVE  StackInv' /\ [C!Next]_(C!vars)
  <1>0. PICK L : Kernel(links, L, state, exited, current)
    BY DEF KernelInv
  <1>1. CASE UNCHANGED vars
    <2>1. /\ links' = links /\ state' = state /\ exited' = exited
          /\ UNCHANGED <<current, regs, pc, stacks, launched, arch>>
      BY <1>1 DEF vars
    <2>2. SameTasks /\ StackInv'
      <3>1. \A t \in Used(state') : IsFresh(t) => state'[t] = "runnable" /\ t \notin exited'
        BY <2>1 DEF StackInv
      <3>2. Used(state') \subseteq Used(state)
        BY <2>1
      <3> QED
        BY <2>1, <3>1, <3>2, StillTasks
    <2>3. lifeBar' = lifeBar
      BY <2>1, <2>2, Lives DEF SameTasks, Life
    <2>4. readyBar' = readyBar /\ waitingBar' = waitingBar /\ ownedBar' = ownedBar
      BY <1>0, <2>1, KernelFacts, SameLists
    <2> QED
      BY <2>1, <2>2, <2>3, <2>4 DEF C!vars, SameTasks
  <1>2. CASE Work
    BY <1>0, <1>2, WorkMaps DEF C!Next
  <1>3. CASE arch_vm_entry
    BY <1>0, <1>3, StartMaps DEF C!Next
  <1>4. CASE BootSwitch
    BY <1>0, <1>4, PauseMaps DEF C!Next
  <1>5. CASE palloc
    BY <1>0, <1>5, AllocateMaps DEF C!Next
  <1>6. CASE task_exit
    BY <1>0, <1>6, ExitMaps DEF C!Next
  <1>7. ASSUME NEW image \in Image, vm_create(image) PROVE StackInv' /\ C!Next
    <2>1. PICK t \in Task, p \in Page : Made(image, t, p)
      BY <1>7, CreateMakes
    <2> QED
      BY <1>0, <2>1, CreateMaps DEF C!Next
  <1>8. ASSUME NEW t \in Task, SendReady(t) PROVE StackInv' /\ C!Next
    BY <1>0, <1>8, WakeMaps DEF C!Next
  <1>9. ASSUME NEW t \in Task, SendQueue(t) PROVE StackInv' /\ C!Next
    BY <1>0, <1>9, QueueMaps DEF C!Next
  <1>10. ASSUME NEW t \in Task, task_destroy(t) PROVE StackInv' /\ C!Next
    BY <1>0, <1>10, DestroyMaps DEF C!Next
  <1>11. ASSUME NEW src \in Task \cup {IPC_ANY}, ipc_receive(src) PROVE StackInv' /\ C!Next
    BY <1>0, <1>11, ReceiveMaps DEF C!Next
  <1> QED
    BY <1>1, <1>2, <1>3, <1>4, <1>5, <1>6, <1>7, <1>8, <1>9, <1>10, <1>11 DEF Next

(* task_switch looks to its caller as if nothing had happened: each task   *)
(* finds its registers and stack as it left them and a new one its image   *)
(* and size, on each architecture, and the pointers of list.c behave as    *)
(* the sequences that Ipc takes them for (task.c, list.c, ipc.c).          *)
THEOREM SwitchImplementsCoroutines ==
    Spec => ImplementsCoroutines
  <1>1. Init => KernelInv /\ StackInv /\ C!Init
    BY InitKernel, InitMaps DEF KernelInv
  <1>2. KernelInv /\ StackInv /\ [Next]_vars => KernelInv' /\ StackInv' /\ [C!Next]_(C!vars)
    BY KernelStep, StepMaps
  <1> QED
    BY <1>1, <1>2, PTL DEF Spec, ImplementsCoroutines, C!Spec
=============================================================================
