---------------------------- MODULE InterpProofs ----------------------------
(***************************************************************************)
(* Proofs about Parser and Interp, for any well-formed modules: the lists  *)
(* the parser builds are the nesting of the code, no instruction leads out *)
(* of its list, the blocks and the frames stay together, and nothing but a *)
(* recursion links one of them twice.                                      *)
(***************************************************************************)
EXTENDS Interp, SeqLemmas, FiniteSetTheorems, WellFoundedInduction

----------------------------------------------------------------------------
(* The lists that parse_func and parse_instr build                         *)

Instruction == [op : STRING, x : Nat]

\* parse_instr is past n, or at least past its op.
Read(n) == n[1] < func \/ (n[1] = func /\ n[2] < cursor)

\* What lists of instructions always are: those of o are behind o in its function, in order,
\* and in no other list.
Good(l) ==
    /\ l \in [Node -> Seq(Node)]
    /\ \A o \in Node : \A i \in 1..Len(l[o]) :
          /\ l[o][i][1] = o[1] /\ o[2] < l[o][i][2]
          /\ \A j \in 1..Len(l[o]) : i < j => l[o][i][2] < l[o][j][2]
    /\ \A o, p \in Node : \A m \in Node : m \in ToSet(l[o]) /\ m \in ToSet(l[p]) => o = p

ParserTypeOK ==
    /\ code \in Programs
    /\ func \in 1..(Len(code) + 1) /\ cursor \in Nat \ {0}
    /\ open \in Seq(Node)
    /\ Parsed => open = <<>>
    /\ ~Parsed => cursor <= Len(code[func]) + 1

\* The blocks under way are in the function under way, from the outermost to the innermost.
OpenInv ==
    /\ \A k \in 1..Len(open) :
          open[k][1] = func /\ open[k][2] \in 1..(cursor - 1) /\ Op(open[k]) \in Openers
    /\ \A k, l \in 1..Len(open) : k < l => open[k][2] < open[l][2]

\* No more blocks are under way than began and have not ended.
BalanceInv ==
    ~Parsed => LET s == code[func] IN
        /\ cursor <= Len(s) => Len(open) + Count(s, {"end"}, 1, cursor - 1) <= Count(s, Openers, 1, cursor - 1)
        /\ cursor > Len(s) => open = <<>>

Underway(o) == o \in ToSet(open) \/ (~Parsed /\ o = Body(func) /\ cursor <= Len(code[func]))

ListInv ==
    /\ Good(list)
    /\ \A o \in Node : \A n \in ToSet(list[o]) : Read(n) /\ n \notin ToSet(open)
    /\ \A k \in 1..Len(open) : \A n \in ToSet(list[Owner(k - 1)]) : n[2] < open[k][2]
    /\ \A n \in Node : n[2] # 0 /\ Read(n) => n \in ToSet(open) \/ \E o \in Node : n \in ToSet(list[o])
    /\ \A o \in Node : list[o] # <<>> /\ ~Underway(o) => Op(Last(list[o])) = "end"

\* The blocks that n is in, its own end's among them.
Around(n) ==
    {j \in 1..(n[2] - 1) : code[n[1]][j].op \in Openers /\ n[2] <= Match(code[n[1]], j)}

\* The blocks that what is in the list of o is in.
Within(o) == IF o[2] = 0 THEN {} ELSE Around(o) \cup {o[2]}

\* Where a block under way began, more was begun than has ended ever since.
SurplusInv ==
    ~Parsed => LET s == code[func] IN
        /\ \A k \in 1..Len(open) :
              /\ Count(s, Openers, open[k][2], cursor - 1)
                    = Count(s, {"end"}, open[k][2], cursor - 1) + (Len(open) - k + 1)
              /\ \A m \in open[k][2]..(cursor - 1) :
                    Count(s, Openers, open[k][2], m) > Count(s, {"end"}, open[k][2], m)
        /\ \A j \in 1..(cursor - 1) :
              s[j].op \in Openers /\ <<func, j>> \notin ToSet(open) => Match(s, j) < cursor

NestInv ==
    /\ SurplusInv
    /\ \A k \in 1..Len(open) : Around(open[k]) = {open[l][2] : l \in 1..(k - 1)}
    /\ \A o \in Node : \A n \in ToSet(list[o]) : Around(n) = Within(o)

ParserInv == ParserTypeOK /\ OpenInv /\ BalanceInv /\ ListInv /\ NestInv

----------------------------------------------------------------------------
(* Sequences and counting                                                  *)

(* What is left without the last element.                                  *)
LEMMA FrontSeq ==
    ASSUME NEW S, NEW s \in Seq(S), s # <<>>
    PROVE  /\ Len(s) \in Nat \ {0}
           /\ Front(s) \in Seq(S) /\ Len(Front(s)) = Len(s) - 1
           /\ \A i \in 1..(Len(s) - 1) : Front(s)[i] = s[i]
  <1>1. Len(s) \in Nat \ {0}
    BY ST!EmptySeq
  <1>2. PICK n \in Nat : n = Len(s) - 1 /\ n + 1 = Len(s)
    <2>1. Len(s) - 1 \in Nat /\ (Len(s) - 1) + 1 = Len(s)
      BY <1>1
    <2> QED
      BY <2>1
  <1>3. Front(s) = SubSeq(s, 1, n) /\ \A i \in 1..n : i \in 1..Len(s) /\ s[i] \in S
    BY <1>1, <1>2 DEF Front
  <1>4. /\ SubSeq(s, 1, n) \in Seq(S) /\ Len(SubSeq(s, 1, n)) = n
        /\ \A i \in 1..n : SubSeq(s, 1, n)[i] = s[i]
    BY <1>3, ST!SubSeqProperties
  <1> QED
    BY <1>1, <1>2, <1>3, <1>4

(* A nonempty set of naturals has a least element.                         *)
LEMMA Least ==
    ASSUME NEW S \in SUBSET Nat, NEW e \in S
    PROVE  Min(S) \in S /\ \A y \in S : Min(S) <= y
  <1> DEFINE R == OpToRel(<, Nat)
  <1>1. IsWellFoundedOn(R, Nat)
    BY NatLessThanWellFounded
  <1>2. \A x, y \in Nat : y < x => <<y, x>> \in R
    BY Zenon DEF OpToRel
  <1> HIDE DEF R
  <1>3. PICK x \in S : \A y \in S : ~(<<y, x>> \in R)
    BY <1>1, WFMin
  <1>4. \A y \in S : ~(y < x)
    BY <1>2, <1>3
  <1>5. \A y \in S : x <= y
    BY <1>4
  <1> QED
    BY <1>5 DEF Min

(* How many there are up to one more.                                      *)
LEMMA CountStep ==
    ASSUME NEW s, NEW ops, NEW i \in Nat \ {0}, NEW j \in Nat, i <= j + 1
    PROVE  /\ Count(s, ops, i, j) \in Nat
           /\ Count(s, ops, i, j + 1) = Count(s, ops, i, j) + (IF s[j + 1].op \in ops THEN 1 ELSE 0)
  <1> DEFINE S == {k \in i..j : s[k].op \in ops}
             T == {k \in i..(j + 1) : s[k].op \in ops}
  <1>1. IsFiniteSet(i..j)
    BY FS_Interval
  <1>2. IsFiniteSet(S) /\ Cardinality(S) \in Nat
    BY <1>1, FS_Subset, FS_CardinalityType
  <1>3. j + 1 \notin S
    OBVIOUS
  <1>4. T = IF s[j + 1].op \in ops THEN S \cup {j + 1} ELSE S
    OBVIOUS
  <1> HIDE DEF S, T
  <1>5. Cardinality(T) = Cardinality(S) + (IF s[j + 1].op \in ops THEN 1 ELSE 0)
    <2>1. Cardinality(S \cup {j + 1}) = Cardinality(S) + 1
      BY <1>2, <1>3, FS_AddElement
    <2> QED
      BY <1>2, <1>4, <2>1
  <1> QED
    BY <1>2, <1>5 DEF Count, S, T

(* A block matches somewhere.                                              *)
LEMMA MatchType ==
    ASSUME NEW s, Len(s) \in Nat, NEW j \in Nat
    PROVE  Match(s, j) \in Nat
  <1>1. \A y \in {k \in (j + 1)..Len(s) : Count(s, Openers, j, k) = Count(s, {"end"}, j, k)} \cup {Len(s) + 1} :
           y \in Nat
    OBVIOUS
  <1> QED
    BY <1>1, Least DEF Match

(* A block whose end is at e matches there.                                *)
LEMMA MatchClosed ==
    ASSUME NEW s, Len(s) \in Nat, NEW j \in 1..Len(s), NEW e \in (j + 1)..Len(s),
           Count(s, Openers, j, e) = Count(s, {"end"}, j, e),
           \A m \in j..(e - 1) : Count(s, Openers, j, m) > Count(s, {"end"}, j, m)
    PROVE  Match(s, j) = e
  <1> DEFINE S == {k \in (j + 1)..Len(s) : Count(s, Openers, j, k) = Count(s, {"end"}, j, k)} \cup {Len(s) + 1}
  <1>1. S \in SUBSET Nat /\ e \in S
    OBVIOUS
  <1>2. \A y \in S : e <= y
    <2>1. ASSUME NEW y \in S, y < e PROVE FALSE
      <3>1. y \in j..(e - 1) /\ Count(s, Openers, j, y) = Count(s, {"end"}, j, y)
        BY <2>1
      <3>2. Count(s, Openers, j, y) \in Nat
        BY <3>1, CountStep
      <3> QED
        BY <3>1, <3>2
    <2> QED
      BY <1>1, <2>1
  <1>3. Match(s, j) = Min(S)
    BY DEF Match
  <1> HIDE DEF S
  <1>4. Min(S) \in S /\ Min(S) <= e
    BY <1>1, Least
  <1>5. Min(S) \in Nat /\ e <= Min(S)
    BY <1>1, <1>2, <1>4
  <1> QED
    BY <1>3, <1>4, <1>5

(* One that has not ended in front of c matches at c or behind.            *)
LEMMA MatchOpen ==
    ASSUME NEW s, Len(s) \in Nat, NEW j \in 1..Len(s), NEW c \in (j + 1)..(Len(s) + 1),
           \A m \in j..(c - 1) : Count(s, Openers, j, m) > Count(s, {"end"}, j, m)
    PROVE  c <= Match(s, j)
  <1> DEFINE S == {k \in (j + 1)..Len(s) : Count(s, Openers, j, k) = Count(s, {"end"}, j, k)} \cup {Len(s) + 1}
  <1>1. S \in SUBSET Nat /\ Len(s) + 1 \in S
    OBVIOUS
  <1>2. \A y \in S : c <= y
    <2>1. ASSUME NEW y \in S, y < c PROVE FALSE
      <3>1. y \in j..(c - 1) /\ Count(s, Openers, j, y) = Count(s, {"end"}, j, y)
        BY <2>1
      <3>2. Count(s, Openers, j, y) \in Nat
        BY <3>1, CountStep
      <3> QED
        BY <3>1, <3>2
    <2> QED
      BY <1>1, <2>1
  <1>3. Match(s, j) = Min(S)
    BY DEF Match
  <1> HIDE DEF S
  <1> QED
    BY <1>1, <1>2, <1>3, Least

----------------------------------------------------------------------------
(* Modules and lists                                                       *)

(* What ProgramAssumption says of a module.                                *)
LEMMA CodeFacts ==
    ASSUME code \in Programs
    PROVE  /\ code \in Seq(Seq(Instruction)) /\ DOMAIN code = 1..Len(code) /\ Len(code) \in Nat
           /\ Start \in DOMAIN code
           /\ \A f \in DOMAIN code :
                /\ code[f] \in Seq(Instruction) /\ Len(code[f]) \in Nat \ {0}
                /\ DOMAIN code[f] = 1..Len(code[f])
                /\ code[f][Len(code[f])].op = "end"
                /\ Count(code[f], {"end"}, 1, Len(code[f])) = Count(code[f], Openers, 1, Len(code[f])) + 1
                /\ \A i \in 1..(Len(code[f]) - 1) :
                      Count(code[f], {"end"}, 1, i) <= Count(code[f], Openers, 1, i)
  <1>1. code \in Seq(Seq(Instruction)) /\ Start \in DOMAIN code
    BY ProgramAssumption DEF Instruction
  <1>2. DOMAIN code = 1..Len(code) /\ Len(code) \in Nat
    BY <1>1
  <1>3. ASSUME NEW f \in DOMAIN code
        PROVE  /\ code[f] \in Seq(Instruction) /\ Len(code[f]) \in Nat \ {0}
               /\ DOMAIN code[f] = 1..Len(code[f])
               /\ code[f][Len(code[f])].op = "end"
               /\ Count(code[f], {"end"}, 1, Len(code[f])) = Count(code[f], Openers, 1, Len(code[f])) + 1
               /\ \A i \in 1..(Len(code[f]) - 1) :
                      Count(code[f], {"end"}, 1, i) <= Count(code[f], Openers, 1, i)
    <2>1. WellFormed(code[f], f)
      BY ProgramAssumption
    <2>2. code[f] \in Seq(Instruction) /\ code[f] # <<>>
      BY <1>1, <1>2, <2>1 DEF WellFormed
    <2>3. Len(code[f]) \in Nat \ {0} /\ DOMAIN code[f] = 1..Len(code[f])
      BY <2>2
    <2>4. \A i \in 1..(Len(code[f]) - 1) : NestedAt(code[f], i, Result(f)) /\ i < Len(code[f])
      BY <2>1, <2>3 DEF WellFormed
    <2>5. \A i \in 1..(Len(code[f]) - 1) : Count(code[f], {"end"}, 1, i) <= Count(code[f], Openers, 1, i)
      BY <2>4 DEF NestedAt
    <2> QED
      BY <2>1, <2>2, <2>3, <2>5 DEF WellFormed
  <1> QED
    BY <1>1, <1>2, <1>3

(* The instructions, and Body(f), which is none.                           *)
LEMMA NodeFacts ==
    /\ \A n \in Node : n[1] \in DOMAIN code /\ n[2] \in 0..Len(code[n[1]]) /\ n = <<n[1], n[2]>>
    /\ \A f \in DOMAIN code : \A i \in 0..Len(code[f]) : <<f, i>> \in Node
  BY DEF Node

(* The elements of the lists.                                              *)
LEMMA GoodFacts ==
    ASSUME NEW l, Good(l), NEW o \in Node
    PROVE  /\ l[o] \in Seq(Node) /\ Len(l[o]) \in Nat
           /\ \A m : m \in ToSet(l[o]) <=> \E i \in 1..Len(l[o]) : l[o][i] = m
           /\ \A m \in ToSet(l[o]) : m \in Node /\ m[1] = o[1] /\ o[2] < m[2]
           /\ l[o] = <<>> => ToSet(l[o]) = {}
  <1>1. l[o] \in Seq(Node)
    BY DEF Good
  <1>2. /\ Len(l[o]) \in Nat /\ \A i \in 1..Len(l[o]) : l[o][i] \in Node
        /\ \A m : m \in ToSet(l[o]) <=> \E i \in 1..Len(l[o]) : l[o][i] = m
    BY <1>1, ElementsSeq
  <1>3. \A i \in 1..Len(l[o]) : l[o][i][1] = o[1] /\ o[2] < l[o][i][2]
    BY DEF Good
  <1>4. l[o] = <<>> => ToSet(l[o]) = {}
    BY EmptyList
  <1> QED
    BY <1>1, <1>2, <1>3, <1>4

\* n may come next in the list of o.
Addable(l, o, n) ==
    /\ n[1] = o[1] /\ o[2] < n[2]
    /\ \A m \in ToSet(l[o]) : m[2] < n[2]
    /\ \A p \in Node : n \notin ToSet(l[p])

Added(l, o, n) == [l EXCEPT ![o] = Append(@, n)]

(* What an instruction at the end of a list does to the lists.             *)
LEMMA AddGood ==
    ASSUME code \in Programs, NEW l, Good(l), NEW o \in Node, NEW n \in Node, Addable(l, o, n)
    PROVE  /\ Good(Added(l, o, n))
           /\ ToSet(Added(l, o, n)[o]) = ToSet(l[o]) \cup {n}
           /\ Last(Added(l, o, n)[o]) = n
           /\ \A p \in Node \ {o} : Added(l, o, n)[p] = l[p]
  <1>0. /\ n[1] = o[1] /\ o[2] < n[2]
        /\ \A m \in ToSet(l[o]) : m[2] < n[2]
        /\ \A p \in Node : n \notin ToSet(l[p])
    BY DEF Addable
  <1> DEFINE r == [l EXCEPT ![o] = Append(@, n)]
             k == Len(l[o])
  <1>1. l \in [Node -> Seq(Node)] /\ l[o] \in Seq(Node) /\ k \in Nat
    BY GoodFacts DEF Good
  <1>2. r[o] = Append(l[o], n) /\ \A p \in Node \ {o} : r[p] = l[p]
    BY <1>1
  <1>3. /\ r[o] \in Seq(Node) /\ Len(r[o]) = k + 1 /\ r[o][k + 1] = n
        /\ \A i \in 1..k : r[o][i] = l[o][i]
    BY <1>1, <1>2
  <1>4. r \in [Node -> Seq(Node)]
    BY <1>1, <1>2, <1>3
  <1>5. \A m : m \in ToSet(l[o]) <=> \E i \in 1..k : l[o][i] = m
    BY GoodFacts
  <1> HIDE DEF r, k
  <1>6. ToSet(r[o]) = ToSet(l[o]) \cup {n}
    <2>1. \A m : m \in ToSet(r[o]) <=> \E i \in 1..(k + 1) : r[o][i] = m
      BY <1>3, ElementsSeq
    <2>3. ASSUME NEW m \in ToSet(r[o]) PROVE m \in ToSet(l[o]) \cup {n}
      <3>1. PICK i \in 1..(k + 1) : r[o][i] = m
        BY <2>1, <2>3
      <3>2. i = k + 1 \/ i \in 1..k
        BY <1>1
      <3> QED
        BY <3>1, <3>2, <1>3, <1>5
    <2>4. ASSUME NEW m \in ToSet(l[o]) PROVE m \in ToSet(r[o])
      <3>1. PICK i \in 1..k : l[o][i] = m
        BY <1>5, <2>4
      <3>2. i \in 1..(k + 1) /\ r[o][i] = m
        BY <3>1, <1>1, <1>3
      <3> QED
        BY <3>2, <2>1
    <2>5. n \in ToSet(r[o])
      <3>1. k + 1 \in 1..(k + 1)
        BY <1>1
      <3> QED
        BY <3>1, <1>3, <2>1
    <2> QED
      BY <2>3, <2>4, <2>5
  <1>7. ASSUME NEW p \in Node, NEW i \in 1..Len(r[p])
        PROVE  /\ r[p][i][1] = p[1] /\ p[2] < r[p][i][2]
               /\ \A j \in 1..Len(r[p]) : i < j => r[p][i][2] < r[p][j][2]
    <2>1. CASE p # o
      <3>1. r[p] = l[p]
        BY <2>1, <1>2
      <3>2. \A a \in 1..Len(l[p]) : /\ l[p][a][1] = p[1] /\ p[2] < l[p][a][2]
                                    /\ \A j \in 1..Len(l[p]) : a < j => l[p][a][2] < l[p][j][2]
        BY DEF Good
      <3> QED
        BY <1>7, <3>1, <3>2
    <2>2. CASE p = o
      <3>1. ASSUME NEW a \in 1..k
            PROVE  /\ l[o][a][1] = o[1] /\ o[2] < l[o][a][2] /\ l[o][a][2] < n[2]
                   /\ \A b \in 1..k : a < b => l[o][a][2] < l[o][b][2]
        <4>1. l[o][a] \in ToSet(l[o])
          BY <1>5
        <4> QED
          BY <1>0, <4>1 DEF Good, k
      <3>2. i \in Nat /\ (i \in 1..k \/ i = k + 1)
        BY <2>2, <1>1, <1>3
      <3>3. ASSUME NEW j \in 1..(k + 1), i < j PROVE r[o][i][2] < r[o][j][2]
        <4>1. i \in 1..k /\ (j \in 1..k \/ j = k + 1)
          BY <3>2, <3>3, <1>1
        <4> QED
          BY <4>1, <3>1, <3>3, <1>3
      <3>4. r[o][i][1] = o[1] /\ o[2] < r[o][i][2]
        BY <1>0, <3>1, <3>2, <1>3
      <3> QED
        BY <2>2, <3>3, <3>4, <1>3
    <2> QED
      BY <2>1, <2>2
  <1>8. ASSUME NEW p \in Node, NEW q \in Node, NEW m \in Node, m \in ToSet(r[p]), m \in ToSet(r[q])
        PROVE  p = q
    <2>1. \A a \in Node : m \in ToSet(r[a]) => m \in ToSet(l[a]) \/ (a = o /\ m = n)
      BY <1>2, <1>6
    <2>2. \A a, b \in Node : m \in ToSet(l[a]) /\ m \in ToSet(l[b]) => a = b
      BY DEF Good
    <2> QED
      BY <1>0, <1>8, <2>1, <2>2
  <1>9. Good(r)
    BY <1>4, <1>7, <1>8 DEF Good
  <1>10. Last(r[o]) = n
    BY <1>3 DEF Last
  <1> QED
    BY <1>2, <1>6, <1>9, <1>10 DEF r, Added

----------------------------------------------------------------------------
(* Where the parser is                                                     *)

(* The blocks under way, and where their instructions go.                  *)
LEMMA OpenFacts ==
    ASSUME ParserTypeOK, OpenInv
    PROVE  /\ Len(open) \in Nat
           /\ \A n : n \in ToSet(open) <=> \E k \in 1..Len(open) : open[k] = n
           /\ \A k \in 1..Len(open) : open[k] \in Node /\ open[k] = <<func, open[k][2]>>
           /\ \A n \in ToSet(open) : n \in Node /\ n[1] = func /\ n[2] \in 1..(cursor - 1)
  <1>1. open \in Seq(Node)
    BY DEF ParserTypeOK
  <1>2. /\ Len(open) \in Nat /\ \A k \in 1..Len(open) : open[k] \in Node
        /\ \A n : n \in ToSet(open) <=> \E k \in 1..Len(open) : open[k] = n
    BY <1>1, ElementsSeq
  <1>3. \A k \in 1..Len(open) : open[k][1] = func /\ open[k][2] \in 1..(cursor - 1)
    BY DEF OpenInv
  <1>4. \A k \in 1..Len(open) : open[k] = <<func, open[k][2]>>
    BY <1>2, <1>3, NodeFacts
  <1> QED
    BY <1>2, <1>3, <1>4

(* Where the calls under way put what they read.                           *)
LEMMA OwnerFacts ==
    ASSUME ParserTypeOK, OpenInv, Reading
    PROVE  /\ func \in DOMAIN code /\ func \in Nat /\ cursor \in 1..Len(code[func])
           /\ <<func, cursor>> \in Node /\ Body(func) \in Node
           /\ \A k \in 0..Len(open) : /\ Owner(k) \in Node /\ Owner(k)[1] = func
                                      /\ Owner(k)[2] \in 0..(cursor - 1)
                                      /\ Owner(k)[2] = 0 <=> k = 0
           /\ \A k, l \in 0..Len(open) : k < l => Owner(k)[2] < Owner(l)[2]
  <1>1. /\ code \in Programs /\ func \in DOMAIN code /\ func \in Nat /\ cursor \in Nat \ {0}
        /\ cursor <= Len(code[func])
    BY DEF ParserTypeOK, Reading
  <1>2. DOMAIN code = 1..Len(code) /\ Len(code[func]) \in Nat
    BY <1>1, CodeFacts
  <1>3. <<func, cursor>> \in Node /\ Body(func) \in Node
    BY <1>1, <1>2, NodeFacts DEF Body
  <1>4. Owner(0) = <<func, 0>> /\ \A k \in 1..Len(open) : Owner(k) = open[k]
    BY OpenFacts DEF Owner, Body
  <1>5. /\ \A k \in 1..Len(open) : open[k] \in Node /\ open[k][1] = func /\ open[k][2] \in 1..(cursor - 1)
        /\ \A k, l \in 1..Len(open) : k < l => open[k][2] < open[l][2]
    BY OpenFacts DEF OpenInv
  <1>6. \A k \in 0..Len(open) : k = 0 \/ k \in 1..Len(open)
    BY OpenFacts
  <1>7. \A k \in 0..Len(open) : /\ Owner(k) \in Node /\ Owner(k)[1] = func
                                /\ Owner(k)[2] \in 0..(cursor - 1)
                                /\ Owner(k)[2] = 0 <=> k = 0
    BY <1>1, <1>3, <1>4, <1>5, <1>6 DEF Body
  <1>8. \A k, l \in 0..Len(open) : k < l => Owner(k)[2] < Owner(l)[2]
    <2> SUFFICES ASSUME NEW k \in 0..Len(open), NEW l \in 0..Len(open), k < l
                 PROVE  Owner(k)[2] < Owner(l)[2]
      OBVIOUS
    <2>1. l \in 1..Len(open)
      BY OpenFacts
    <2> QED
      BY <2>1, <1>4, <1>5, <1>6
  <1> QED
    BY <1>1, <1>2, <1>3, <1>7, <1>8

(* The same, seen from the one that is counted last.                       *)
LEMMA CountAt ==
    ASSUME NEW s, NEW ops, NEW i \in Nat \ {0}, NEW n \in Nat, i <= n
    PROVE  /\ Count(s, ops, i, n - 1) \in Nat
           /\ Count(s, ops, i, n) = Count(s, ops, i, n - 1) + (IF s[n].op \in ops THEN 1 ELSE 0)
  <1>1. PICK j \in Nat : j + 1 = n /\ n - 1 = j
    <2>1. n - 1 \in Nat /\ (n - 1) + 1 = n
      OBVIOUS
    <2> QED
      BY <2>1
  <1> QED
    BY <1>1, CountStep

(* Nothing is counted where nothing is.                                    *)
LEMMA CountNone ==
    ASSUME NEW s, NEW ops, NEW i \in Nat \ {0}
    PROVE  Count(s, ops, i, i - 1) = 0
  <1>1. {k \in i..(i - 1) : s[k].op \in ops} = {}
    OBVIOUS
  <1> QED
    BY <1>1, FS_EmptySet DEF Count

(* The end of a function is read with no block under way, whatever else    *)
(* it has had.                                                             *)
LEMMA AloneAtEnd ==
    ASSUME ParserTypeOK, OpenInv, BalanceInv, Reading, open # <<>>
    PROVE  cursor < Len(code[func])
  <1> DEFINE s == code[func]
             n == Len(s)
  <1>1. /\ code \in Programs /\ func \in DOMAIN code /\ cursor \in 1..n
        /\ Len(open) \in Nat /\ Len(open) # 0
    <2>1. open \in Seq(Node)
      BY DEF ParserTypeOK
    <2> QED
      BY <2>1, OwnerFacts, ST!EmptySeq DEF ParserTypeOK
  <1>2. n \in Nat \ {0} /\ s[n].op = "end" /\ Count(s, {"end"}, 1, n) = Count(s, Openers, 1, n) + 1
    BY <1>1, CodeFacts
  <1>3. /\ Count(s, {"end"}, 1, n) = Count(s, {"end"}, 1, n - 1) + 1
        /\ Count(s, Openers, 1, n) = Count(s, Openers, 1, n - 1)
        /\ Count(s, {"end"}, 1, n - 1) \in Nat /\ Count(s, Openers, 1, n - 1) \in Nat
    <2>1. s[n].op \in {"end"} /\ s[n].op \notin Openers
      BY <1>2 DEF Openers
    <2> HIDE DEF s, n
    <2> QED
      BY <1>2, <2>1, CountAt
  <1>4. Len(open) + Count(s, {"end"}, 1, cursor - 1) <= Count(s, Openers, 1, cursor - 1)
    BY <1>1 DEF BalanceInv, Parsed
  <1>5. cursor # n
    BY <1>1, <1>2, <1>3, <1>4
  <1> QED
    BY <1>1, <1>2, <1>5

(* The next instruction is in the blocks that are under way.               *)
LEMMA AroundHere ==
    ASSUME ParserTypeOK, OpenInv, SurplusInv, Reading
    PROVE  Around(<<func, cursor>>) = {open[k][2] : k \in 1..Len(open)}
  <1> DEFINE s == code[func]
  <1>1. /\ func \in DOMAIN code /\ cursor \in 1..Len(s) /\ Len(s) \in Nat /\ ~Parsed
        /\ \A k \in 1..Len(open) : open[k][2] \in 1..(cursor - 1) /\ s[open[k][2]].op \in Openers
    <2>1. \A k \in 1..Len(open) :
             open[k][1] = func /\ open[k][2] \in 1..(cursor - 1) /\ Op(open[k]) \in Openers
      BY DEF OpenInv
    <2> QED
      BY <2>1, OwnerFacts, CodeFacts DEF ParserTypeOK, Parsed, Op
  <1>2. ASSUME NEW k \in 1..Len(open) PROVE cursor <= Match(s, open[k][2])
    <2>1. \A m \in open[k][2]..(cursor - 1) :
                    Count(s, Openers, open[k][2], m) > Count(s, {"end"}, open[k][2], m)
      BY <1>1 DEF SurplusInv
    <2>2. open[k][2] \in 1..Len(s) /\ cursor \in (open[k][2] + 1)..(Len(s) + 1)
      BY <1>1
    <2> QED
      BY <1>1, <2>1, <2>2, MatchOpen
  <1>3. ASSUME NEW j \in 1..(cursor - 1), s[j].op \in Openers, cursor <= Match(s, j)
        PROVE  \E k \in 1..Len(open) : j = open[k][2]
    <2>1. ~(Match(s, j) < cursor)
      BY <1>1, <1>3, MatchType
    <2>2. <<func, j>> \in ToSet(open)
      BY <1>1, <1>3, <2>1 DEF SurplusInv
    <2> QED
      BY <2>2, OpenFacts
  <1>4. Around(<<func, cursor>>) = {j \in 1..(cursor - 1) : s[j].op \in Openers /\ cursor <= Match(s, j)}
    BY DEF Around
  <1> QED
    BY <1>1, <1>2, <1>3, <1>4

----------------------------------------------------------------------------
(* The steps of the parser                                                 *)

(* Nothing has been read.                                                  *)
LEMMA ParserInitInv == ParserInit => ParserInv
  <1> SUFFICES ASSUME ParserInit PROVE ParserInv
    OBVIOUS
  <1>1. /\ code \in Programs /\ func = 1 /\ cursor = 1 /\ open = <<>>
        /\ list = [n \in Node |-> <<>>]
    BY DEF ParserInit
  <1>2. /\ DOMAIN code = 1..Len(code) /\ Len(code) \in Nat /\ 1 \in DOMAIN code
        /\ Len(code[1]) \in Nat \ {0}
    BY <1>1, CodeFacts DEF Start
  <1>3. open \in Seq(Node) /\ Len(open) = 0 /\ ToSet(open) = {}
    BY <1>1, EmptyList, ST!EmptySeq
  <1>4. ParserTypeOK /\ OpenInv
    BY <1>1, <1>2, <1>3 DEF ParserTypeOK, OpenInv, Parsed
  <1>5. BalanceInv
    <2>1. Count(code[1], {"end"}, 1, 1 - 1) = 0 /\ Count(code[1], Openers, 1, 1 - 1) = 0
      BY CountNone
    <2> QED
      BY <1>1, <1>2, <1>3, <2>1 DEF BalanceInv
  <1>6. ListInv
    <2>1. \A o \in Node : list[o] = <<>> /\ Len(list[o]) = 0 /\ ToSet(list[o]) = {}
      BY <1>1, EmptyList, ST!EmptySeq
    <2>2. list \in [Node -> Seq(Node)]
      BY <1>1, EmptyList
    <2>3. Good(list)
      BY <2>1, <2>2 DEF Good
    <2>4. \A n \in Node : n[2] # 0 => ~Read(n)
      BY <1>1, <1>2, NodeFacts DEF Read
    <2> QED
      BY <1>3, <2>1, <2>3, <2>4 DEF ListInv
  <1>7. NestInv
    <2>1. \A o \in Node : ToSet(list[o]) = {}
      BY <1>1, EmptyList
    <2>2. SurplusInv
      BY <1>1, <1>3 DEF SurplusInv
    <2> QED
      BY <1>3, <2>1, <2>2 DEF NestInv
  <1> QED
    BY <1>4, <1>5, <1>6, <1>7 DEF ParserInv

(* The code stays, and what is known of it.                                *)
LEMMA CodeStays ==
    ASSUME code' = code
    PROVE  /\ Node' = Node
           /\ \A n : Op(n)' = Op(n) /\ Around(n)' = Around(n) /\ Within(n)' = Within(n)
           /\ \A l : Good(l)' = Good(l)
  <1>1. Node' = Node
    BY DEF Node
  <1>2. \A n : Around(n)' = Around(n)
    BY DEF Around
  <1>3. \A n : Within(n)' = Within(n)
    BY <1>2 DEF Within
  <1>4. \A l : Good(l)' = Good(l)
    BY <1>1 DEF Good
  <1> QED
    BY <1>1, <1>2, <1>3, <1>4 DEF Op

(* A block begins.                                                         *)
LEMMA ParseBlockStep ==
    ASSUME ParserInv, ParseBlock
    PROVE  ParserInv'
  <1> DEFINE n == <<func, cursor>>
             s == code[func]
             k == Len(open)
  <1>1. /\ ParserTypeOK /\ OpenInv /\ BalanceInv /\ ListInv
        /\ Reading /\ s[cursor].op \in Openers
        /\ cursor' = cursor + 1 /\ open' = Append(open, n)
        /\ code' = code /\ func' = func /\ list' = list
    BY DEF ParserInv, ParseBlock, Op
  <1>2. /\ n \in Node /\ func \in DOMAIN code /\ func \in Nat /\ cursor \in 1..Len(s)
        /\ code \in Programs /\ ~Parsed
    BY <1>1, OwnerFacts DEF ParserTypeOK, Parsed
  <1>3. cursor < Len(s) /\ Len(s) \in Nat /\ DOMAIN code = 1..Len(code) /\ Len(code) \in Nat
    <2>1. s[Len(s)].op = "end" /\ Len(s) \in Nat /\ "end" \notin Openers
      BY <1>2, CodeFacts DEF Openers
    <2> QED
      BY <1>1, <1>2, <2>1, CodeFacts
  <1>4. /\ k \in Nat /\ open' \in Seq(Node) /\ Len(open') = k + 1 /\ open'[k + 1] = n
        /\ \A i \in 1..k : open'[i] = open[i]
        /\ \A i \in 1..Len(open') : i \in 1..k \/ i = k + 1
    <2>1. open \in Seq(Node)
      BY <1>1 DEF ParserTypeOK
    <2>2. k \in Nat /\ open' \in Seq(Node) /\ Len(open') = k + 1 /\ open'[k + 1] = n
          /\ \A i \in 1..k : open'[i] = open[i]
      BY <1>1, <1>2, <2>1
    <2> QED
      BY <2>2
  <1>5. ToSet(open') = ToSet(open) \cup {n}
    <2>1. \A m : m \in ToSet(open') <=> \E i \in 1..Len(open') : open'[i] = m
      <3> DEFINE r == open'
      <3>1. r \in Seq(Node)
        BY <1>4
      <3> HIDE DEF r, n, k
      <3>2. \A m : m \in ToSet(r) <=> \E i \in 1..Len(r) : r[i] = m
        BY <3>1, ElementsSeq
      <3> QED
        BY <3>2 DEF r
    <2>4. \A m : m \in ToSet(open) <=> \E i \in 1..k : open[i] = m
      BY <1>1, OpenFacts
    <2>2. \A i \in 1..k : i \in 1..Len(open')
      BY <1>4
    <2>3. k + 1 \in 1..Len(open')
      BY <1>4
    <2> HIDE DEF n, k
    <2> QED
      BY <1>4, <2>1, <2>2, <2>3, <2>4
  <1>6. ParserTypeOK'
    BY <1>1, <1>2, <1>3, <1>4, CodeStays DEF ParserTypeOK, Parsed
  <1>7. OpenInv'
    <2>1. \A i \in 1..k : /\ open[i][1] = func /\ open[i][2] \in 1..(cursor - 1) /\ Op(open[i]) \in Openers
      BY <1>1 DEF OpenInv
    <2>2. Op(n) \in Openers
      BY <1>1 DEF Op
    <2>3. \A i \in 1..Len(open') :
             open'[i][1] = func /\ open'[i][2] \in 1..cursor /\ Op(open'[i]) \in Openers
      <3> SUFFICES ASSUME NEW i \in 1..Len(open')
                   PROVE  open'[i][1] = func /\ open'[i][2] \in 1..cursor /\ Op(open'[i]) \in Openers
        OBVIOUS
      <3>1. n[1] = func /\ n[2] = cursor
        OBVIOUS
      <3> HIDE DEF n, k, s
      <3>2. CASE i \in 1..k
        BY <1>2, <1>4, <2>1, <3>2
      <3>3. CASE i = k + 1
        BY <1>2, <1>4, <2>2, <3>1, <3>3
      <3> QED
        BY <1>4, <3>2, <3>3
    <2>4. \A i, j \in 1..Len(open') : i < j => open'[i][2] < open'[j][2]
      <3> SUFFICES ASSUME NEW i \in 1..Len(open'), NEW j \in 1..Len(open'), i < j
                   PROVE  open'[i][2] < open'[j][2]
        OBVIOUS
      <3>1. i \in 1..k /\ (j \in 1..k \/ j = k + 1)
        BY <1>4
      <3>2. CASE j \in 1..k
        BY <1>1, <1>4, <3>1, <3>2 DEF OpenInv
      <3>3. CASE j = k + 1
        BY <1>4, <1>2, <2>1, <3>1, <3>3
      <3> QED
        BY <3>1, <3>2, <3>3
    <2>5. (cursor + 1) - 1 = cursor
      BY <1>2
    <2> QED
      BY <1>1, <2>3, <2>4, <2>5, CodeStays DEF OpenInv
  <1>8. BalanceInv'
    <2>1. /\ Count(s, {"end"}, 1, cursor) = Count(s, {"end"}, 1, cursor - 1)
          /\ Count(s, Openers, 1, cursor) = Count(s, Openers, 1, cursor - 1) + 1
          /\ Count(s, {"end"}, 1, cursor - 1) \in Nat /\ Count(s, Openers, 1, cursor - 1) \in Nat
      <3>1. s[cursor].op \notin {"end"}
        BY <1>1 DEF Openers
      <3> HIDE DEF s
      <3> QED
        BY <1>1, <1>2, <3>1, CountAt
    <2>2. k + Count(s, {"end"}, 1, cursor - 1) <= Count(s, Openers, 1, cursor - 1)
      BY <1>1, <1>2 DEF BalanceInv
    <2>3. (cursor + 1) - 1 = cursor /\ ~(cursor + 1 > Len(s))
      BY <1>2, <1>3
    <2>4. (k + 1) + Count(s, {"end"}, 1, cursor) <= Count(s, Openers, 1, cursor)
      BY <1>4, <2>1, <2>2
    <2> QED
      BY <1>1, <1>4, <2>3, <2>4 DEF BalanceInv
  <1>9. ListInv'
    <2>1. /\ Good(list)
          /\ \A o \in Node : \A m \in ToSet(list[o]) : m \in Node /\ m[1] = o[1] /\ Read(m) /\ m \notin ToSet(open)
      BY <1>1, GoodFacts DEF ListInv
    <2>2. ~Read(n) /\ (\A m \in Node : Read(m) => Read(m)')
          /\ \A m \in Node : Read(m)' => Read(m) \/ m = n
      <3>1. ~Read(n)
        BY <1>2 DEF Read
      <3>2. \A m \in Node : m[1] \in Nat /\ m[2] \in Nat /\ m = <<m[1], m[2]>>
        BY <1>2, <1>3, CodeFacts, NodeFacts
      <3> QED
        BY <1>1, <1>2, <3>1, <3>2 DEF Read
    <2>3. \A o \in Node : \A m \in ToSet(list[o]) : Read(m)' /\ m \notin ToSet(open')
      BY <1>5, <2>1, <2>2
    <2>4. \A i \in 0..k : Owner(i)' = Owner(i)
      <3>1. \A i \in 0..k : i = 0 \/ i \in 1..k
        BY <1>4
      <3> QED
        BY <1>1, <1>4, <3>1 DEF Owner, Body
    <2>5. ASSUME NEW i \in 1..Len(open'), NEW m \in ToSet(list[Owner(i - 1)])
          PROVE  m[2] < open'[i][2]
      <3>1. CASE i \in 1..k
        BY <1>1, <1>4, <2>5, <3>1 DEF ListInv
      <3>2. CASE i = k + 1
        <4>1. Owner(k) \in Node /\ Owner(k)[1] = func /\ i - 1 = k
          BY <1>1, <1>4, <3>2, OwnerFacts
        <4>2. m[1] = func /\ Read(m)
          BY <2>1, <2>5, <4>1
        <4>3. m[2] < cursor
          BY <1>2, <4>2 DEF Read
        <4> QED
          BY <1>4, <3>2, <4>3
      <3> QED
        BY <1>4, <3>1, <3>2
    <2>6. ASSUME NEW i \in 1..Len(open') PROVE Owner(i - 1)' = Owner(i - 1)
      <3>1. i - 1 \in 0..k
        BY <1>4
      <3> QED
        BY <2>4, <3>1 DEF Owner
    <2>7. \A m \in Node : m[2] # 0 /\ Read(m)' => m \in ToSet(open') \/ \E o \in Node : m \in ToSet(list[o])
      BY <1>1, <1>5, <2>2 DEF ListInv
    <2>8. \A o \in Node : Underway(o) => Underway(o)'
      <3>1. ~Parsed' /\ Body(func)' = Body(func) /\ cursor' <= Len(code'[func'])
        BY <1>1, <1>2, <1>3 DEF Parsed, Body
      <3> HIDE DEF n, s, k
      <3> QED
        BY <1>2, <1>5, <3>1 DEF Underway
    <2>9. \A o \in Node : list[o] # <<>> /\ ~Underway(o)' => Op(Last(list[o])) = "end"
      BY <1>1, <2>8 DEF ListInv
    <2> HIDE DEF n, s, k
    <2> QED
      BY <1>1, <2>1, <2>3, <2>5, <2>6, <2>7, <2>9, CodeStays DEF ListInv
  <1>10. NestInv'
    <2>1. NestInv /\ SurplusInv
      BY DEF ParserInv, NestInv
    <2>2. SurplusInv'
      <3>1. \A i \in 1..k : open[i][2] \in Nat \ {0} /\ open[i][2] < cursor
        <4>1. \A i \in 1..k : open[i][2] \in 1..(cursor - 1)
          BY <1>1 DEF OpenInv
        <4>2. cursor \in Nat
          BY <1>2
        <4> HIDE DEF k
        <4> QED
          BY <4>1, <4>2
      <3>2. \A j \in 1..cursor :
              /\ Count(s, Openers, j, cursor - 1) \in Nat /\ Count(s, {"end"}, j, cursor - 1) \in Nat
              /\ Count(s, Openers, j, cursor) = Count(s, Openers, j, cursor - 1) + 1
              /\ Count(s, {"end"}, j, cursor) = Count(s, {"end"}, j, cursor - 1)
        <4>1. s[cursor].op \notin {"end"}
          BY <1>1 DEF Openers
        <4> HIDE DEF s
        <4> QED
          BY <1>1, <1>2, <4>1, CountAt
      <3>3. ASSUME NEW i \in 1..(k + 1)
            PROVE  /\ Count(s, Openers, open'[i][2], cursor)
                         = Count(s, {"end"}, open'[i][2], cursor) + ((k + 1) - i + 1)
                   /\ \A m \in open'[i][2]..cursor :
                         Count(s, Openers, open'[i][2], m) > Count(s, {"end"}, open'[i][2], m)
        <4>1. CASE i \in 1..k
          <5> DEFINE j == open[i][2]
          <5>1. /\ Count(s, Openers, j, cursor - 1) = Count(s, {"end"}, j, cursor - 1) + (k - i + 1)
                /\ \A m \in j..(cursor - 1) : Count(s, Openers, j, m) > Count(s, {"end"}, j, m)
            <6>1. ~Parsed /\ i \in 1..Len(open)
              BY <1>2, <4>1
            <6> QED
              BY ONLY <2>1, <6>1 DEF SurplusInv
          <5>2. j \in 1..cursor /\ open'[i][2] = j
            BY <1>2, <1>4, <3>1, <4>1
          <5> HIDE DEF j, s
          <5>3. Count(s, Openers, j, cursor) = Count(s, {"end"}, j, cursor) + ((k + 1) - i + 1)
            BY <1>4, <3>2, <5>1, <5>2
          <5>4. Count(s, Openers, j, cursor) > Count(s, {"end"}, j, cursor)
            <6>1. Count(s, {"end"}, j, cursor) \in Nat
              BY <3>2, <5>2
            <6>2. ((k + 1) - i + 1) \in Nat /\ (k + 1) - i + 1 >= 1
              BY <1>4, <4>1
            <6> HIDE DEF k
            <6> QED
              BY <5>3, <6>1, <6>2
          <5>5. \A m \in j..cursor : m \in j..(cursor - 1) \/ m = cursor
            BY <1>2, <5>2
          <5> QED
            BY <5>1, <5>2, <5>3, <5>4, <5>5
        <4>2. CASE i = k + 1
          <5>1. open'[i][2] = cursor /\ (k + 1) - i + 1 = 1
            BY <1>4, <4>2
          <5>2. Count(s, Openers, cursor, cursor - 1) = 0 /\ Count(s, {"end"}, cursor, cursor - 1) = 0
            BY <1>2, CountNone
          <5>3. cursor \in 1..cursor /\ \A m \in cursor..cursor : m = cursor
            BY <1>2
          <5>4. Count(s, Openers, cursor, cursor) = 1 /\ Count(s, {"end"}, cursor, cursor) = 0
            BY <3>2, <5>2, <5>3
          <5> QED
            BY <5>1, <5>3, <5>4
        <4> QED
          BY <1>4, <4>1, <4>2
      <3>4. ASSUME NEW j \in 1..cursor, s[j].op \in Openers, <<func, j>> \notin ToSet(open')
            PROVE  Match(s, j) < cursor + 1
        <4>1. j \in 1..(cursor - 1) /\ <<func, j>> \notin ToSet(open)
          BY <1>2, <1>5, <3>4
        <4>2. Match(s, j) < cursor
          BY <1>2, <2>1, <3>4, <4>1 DEF SurplusInv
        <4>3. Match(s, j) \in Nat
          <5>1. j \in Nat
            BY <4>1
          <5> HIDE DEF s
          <5> QED
            BY <1>3, <5>1, MatchType
        <4> QED
          BY <1>2, <4>2, <4>3
      <3>5. (cursor + 1) - 1 = cursor
        BY <1>2
      <3> HIDE DEF s, k, n
      <3> QED
        BY <1>1, <1>4, <3>3, <3>4, <3>5 DEF SurplusInv, s
    <2>3. ASSUME NEW i \in 1..Len(open') PROVE Around(open'[i]) = {open'[l][2] : l \in 1..(i - 1)}
      <3>1. {open'[l][2] : l \in 1..(i - 1)} = {open[l][2] : l \in 1..(i - 1)}
        <4>1. \A l \in 1..(i - 1) : open'[l] = open[l]
          BY <1>4
        <4> HIDE DEF k, n
        <4> QED
          BY <4>1
      <3>2. CASE i \in 1..k
        <4>1. Around(open[i]) = {open[l][2] : l \in 1..(i - 1)}
          BY <2>1, <3>2 DEF NestInv
        <4>2. open'[i] = open[i]
          BY <1>4, <3>2
        <4> HIDE DEF k, n
        <4> QED
          BY <3>1, <4>1, <4>2
      <3>3. CASE i = k + 1
        <4>1. Around(n) = {open[l][2] : l \in 1..k}
          BY <1>1, <2>1, AroundHere
        <4>2. open'[i] = n /\ i - 1 = k
          BY <1>4, <3>3
        <4> HIDE DEF k, n
        <4> QED
          BY <3>1, <4>1, <4>2
      <3> QED
        BY <1>4, <3>2, <3>3
    <2> QED
      BY <1>1, <2>1, <2>2, <2>3, CodeStays DEF NestInv
  <1> QED
    BY <1>6, <1>7, <1>8, <1>9, <1>10 DEF ParserInv

(* What is in the lists when the parser reads the next instruction.        *)
LEMMA HereFacts ==
    ASSUME ParserTypeOK, OpenInv, ListInv, Reading
    PROVE  /\ \A o \in Node : \A m \in ToSet(list[o]) :
                 m \in Node /\ m[1] = o[1] /\ Read(m) /\ m \notin ToSet(open) /\ m # <<func, cursor>>
           /\ \A k \in 0..Len(open) : \A m \in ToSet(list[Owner(k)]) : m[2] < cursor
           /\ <<func, cursor>> \notin ToSet(open)
           /\ \A m \in Node : m[1] < func \/ (m[1] = func /\ m[2] < cursor + 1)
                                  <=> Read(m) \/ m = <<func, cursor>>
  <1>1. /\ func \in DOMAIN code /\ func \in Nat /\ cursor \in 1..Len(code[func]) /\ code \in Programs
        /\ \A k \in 0..Len(open) : Owner(k) \in Node /\ Owner(k)[1] = func
    BY OwnerFacts DEF ParserTypeOK
  <1>2. DOMAIN code \subseteq Nat /\ \A f \in DOMAIN code : Len(code[f]) \in Nat
    BY <1>1, CodeFacts
  <1>3. ~Read(<<func, cursor>>)
    BY <1>1, <1>2 DEF Read
  <1>4. \A o \in Node : \A m \in ToSet(list[o]) :
           m \in Node /\ m[1] = o[1] /\ Read(m) /\ m \notin ToSet(open) /\ m # <<func, cursor>>
    <2>1. Good(list) /\ \A o \in Node : \A m \in ToSet(list[o]) : Read(m) /\ m \notin ToSet(open)
      BY DEF ListInv
    <2>2. \A o \in Node : \A m \in ToSet(list[o]) : m \in Node /\ m[1] = o[1]
      BY <2>1, GoodFacts
    <2> QED
      BY <1>3, <2>1, <2>2
  <1>5. \A k \in 0..Len(open) : \A m \in ToSet(list[Owner(k)]) : m[2] < cursor
    BY <1>1, <1>2, <1>4 DEF Read
  <1>6. <<func, cursor>> \notin ToSet(open)
    <2>1. \A m \in ToSet(open) : m[2] \in 1..(cursor - 1)
      BY OpenFacts
    <2> QED
      BY <1>1, <1>2, <2>1
  <1>7. \A m \in Node : m[1] < func \/ (m[1] = func /\ m[2] < cursor + 1)
                            <=> Read(m) \/ m = <<func, cursor>>
    <2>1. \A m \in Node : m[1] \in Nat /\ m[2] \in Nat /\ m = <<m[1], m[2]>>
      BY <1>2, NodeFacts
    <2> QED
      BY <1>1, <1>2, <2>1 DEF Read
  <1> QED
    BY <1>4, <1>5, <1>6, <1>7

(* What is in the list of a block under way is in it and in those around.  *)
LEMMA WithinOwner ==
    ASSUME ParserTypeOK, OpenInv, NestInv, Reading, NEW k \in 0..Len(open)
    PROVE  Within(Owner(k)) = {open[l][2] : l \in 1..k}
  <1>1. CASE k = 0
    <2>1. Owner(k)[2] = 0 /\ 1..k = {}
      BY <1>1, OwnerFacts
    <2> QED
      BY <2>1 DEF Within
  <1>2. CASE k # 0
    <2>1. k \in 1..Len(open) /\ Owner(k) = open[k] /\ open[k][2] # 0 /\ Len(open) \in Nat
      BY <1>2, OpenFacts, OwnerFacts DEF Owner
    <2>2. Around(open[k]) = {open[l][2] : l \in 1..(k - 1)}
      BY <2>1 DEF NestInv
    <2>3. \A l : l \in 1..k <=> l \in 1..(k - 1) \/ l = k
      BY <2>1
    <2>4. {open[l][2] : l \in 1..k} = {open[l][2] : l \in 1..(k - 1)} \cup {open[k][2]}
      BY <2>3
    <2> QED
      BY <2>1, <2>2, <2>4 DEF Within
  <1> QED
    BY <1>1, <1>2

(* An instruction that ends no block.                                      *)
LEMMA ParsePlainStep ==
    ASSUME ParserInv, ParseInstr, ~Ends(<<func, cursor>>)
    PROVE  ParserInv'
  <1> DEFINE n == <<func, cursor>>
             s == code[func]
             k == Len(open)
             o == Owner(k)
  <1>1. /\ ParserTypeOK /\ OpenInv /\ BalanceInv /\ ListInv
        /\ Reading /\ s[cursor].op \notin Openers
        /\ cursor' = cursor + 1 /\ open' = open
        /\ code' = code /\ func' = func /\ list' = [list EXCEPT ![o] = Append(@, n)]
    BY DEF ParserInv, ParseInstr, Op
  <1>2. /\ n \in Node /\ func \in DOMAIN code /\ func \in Nat /\ cursor \in 1..Len(s)
        /\ code \in Programs /\ ~Parsed
    BY <1>1, OwnerFacts DEF ParserTypeOK, Parsed
  <1>3. /\ Len(s) \in Nat /\ DOMAIN code = 1..Len(code) /\ Len(code) \in Nat /\ s[Len(s)].op = "end"
        /\ k \in Nat
    BY <1>1, <1>2, CodeFacts, OpenFacts
  <1>4. open = <<>> \/ s[cursor].op # "end"
    BY <1>2 DEF Ends, Op
  <1>5. open = <<>> \/ cursor < Len(s)
    BY <1>1, AloneAtEnd
  <1>6. /\ o \in Node /\ o[1] = func /\ o[2] < cursor
        /\ \A i \in 0..k : Owner(i) \in Node /\ Owner(i)[1] = func
        /\ \A i, j \in 0..k : i < j => Owner(i)[2] < Owner(j)[2]
    <2>1. k \in 0..k
      BY <1>3
    <2>2. o[2] \in 0..(cursor - 1)
      BY <1>1, <2>1, OwnerFacts
    <2>3. /\ \A i \in 0..k : Owner(i) \in Node /\ Owner(i)[1] = func
          /\ \A i, j \in 0..k : i < j => Owner(i)[2] < Owner(j)[2]
      BY <1>1, OwnerFacts
    <2>4. o \in Node /\ o[1] = func
      BY <2>1, <2>3
    <2>5. o[2] < cursor
      BY <1>2, <2>2
    <2> QED
      BY <2>3, <2>4, <2>5
  <1>7. open = <<>> => k = 0 /\ o = Body(func)
    BY EmptyList DEF Owner
  <1>8. /\ Good(list')
        /\ ToSet(list'[o]) = ToSet(list[o]) \cup {n} /\ Last(list'[o]) = n
        /\ \A p \in Node \ {o} : list'[p] = list[p]
    <2>1. /\ \A m \in ToSet(list[o]) : m[2] < cursor
          /\ \A p \in Node : n \notin ToSet(list[p])
      BY <1>1, <1>3, HereFacts
    <2>2. n[1] = o[1] /\ o[2] < n[2] /\ \A m \in ToSet(list[o]) : m[2] < n[2]
      BY <1>6, <2>1
    <2>3. Good(list)
      BY <1>1 DEF ListInv
    <2> HIDE DEF n, o
    <2>4. Addable(list, o, n)
      BY <2>1, <2>2 DEF Addable
    <2>5. list' = Added(list, o, n)
      BY <1>1 DEF Added
    <2>6. code \in Programs /\ o \in Node /\ n \in Node
      BY <1>2, <1>6
    <2> QED
      BY ONLY <2>3, <2>4, <2>5, <2>6, AddGood
  <1>9. \A m \in Node : Read(m)' <=> Read(m) \/ m = n
    BY <1>1, HereFacts DEF Read
  <1>10. ParserTypeOK'
    BY <1>1, <1>2, <1>3, CodeStays DEF ParserTypeOK, Parsed
  <1>11. OpenInv'
    <2>1. \A i \in 1..k : open[i][2] \in 1..(cursor + 1 - 1)
      <3>1. \A i \in 1..k : open[i][2] \in 1..(cursor - 1)
        BY <1>1 DEF OpenInv
      <3> HIDE DEF k
      <3> QED
        BY <1>2, <3>1
    <2>2. /\ \A i \in 1..k : open[i][1] = func /\ Op(open[i]) \in Openers
          /\ \A i, j \in 1..k : i < j => open[i][2] < open[j][2]
      BY <1>1 DEF OpenInv
    <2>3. \A i \in 1..k : Op(open[i])' = Op(open[i])
      BY <1>1 DEF Op
    <2>4. cursor' - 1 = cursor + 1 - 1
      BY <1>1, <1>2
    <2> HIDE DEF n, s, o
    <2> QED
      BY <1>1, <2>1, <2>2, <2>3, <2>4 DEF OpenInv
  <1>12. BalanceInv'
    <2>1. /\ Count(s, {"end"}, 1, cursor) = Count(s, {"end"}, 1, cursor - 1) + (IF s[cursor].op \in {"end"} THEN 1 ELSE 0)
          /\ Count(s, Openers, 1, cursor) = Count(s, Openers, 1, cursor - 1)
          /\ Count(s, {"end"}, 1, cursor - 1) \in Nat /\ Count(s, Openers, 1, cursor - 1) \in Nat
      <3> HIDE DEF s
      <3> QED
        BY <1>1, <1>2, CountAt
    <2>2. (cursor + 1) - 1 = cursor /\ (cursor + 1 > Len(s) <=> cursor = Len(s))
      BY <1>2, <1>3
    <2>3. ASSUME cursor + 1 <= Len(s)
          PROVE  k + Count(s, {"end"}, 1, cursor) <= Count(s, Openers, 1, cursor)
      <3>1. CASE s[cursor].op = "end"
        <4>1. Count(s, {"end"}, 1, cursor) <= Count(s, Openers, 1, cursor)
          <5>1. cursor \in 1..(Len(s) - 1)
            BY <1>2, <1>3, <2>3
          <5> QED
            BY <1>2, <5>1, CodeFacts
        <4>2. k = 0 /\ Count(s, {"end"}, 1, cursor) \in Nat
          BY <1>4, <1>7, <2>1, <3>1
        <4> QED
          BY <4>1, <4>2
      <3>2. CASE s[cursor].op # "end"
        <4>1. k + Count(s, {"end"}, 1, cursor - 1) <= Count(s, Openers, 1, cursor - 1)
          BY <1>1, <1>2 DEF BalanceInv
        <4>2. Count(s, {"end"}, 1, cursor) = Count(s, {"end"}, 1, cursor - 1)
          BY <2>1, <3>2
        <4> QED
          BY <2>1, <4>1, <4>2
      <3> QED
        BY <3>1, <3>2
    <2>4. ASSUME cursor + 1 > Len(s) PROVE open = <<>>
      BY <1>2, <1>3, <1>5, <2>4
    <2> QED
      BY <1>1, <2>2, <2>3, <2>4 DEF BalanceInv
  <1>13. ListInv'
    <2>1. \A p \in Node : \A m \in ToSet(list'[p]) : Read(m)' /\ m \notin ToSet(open)
      <3>1. \A p \in Node : \A m \in ToSet(list'[p]) : m = n \/ m \in ToSet(list[p])
        BY <1>8
      <3>2. \A p \in Node : \A m \in ToSet(list[p]) : m \in Node /\ Read(m) /\ m \notin ToSet(open)
        BY <1>1, HereFacts
      <3>3. n \notin ToSet(open)
        BY <1>1, HereFacts
      <3> HIDE DEF n
      <3> QED
        BY <1>2, <1>9, <3>1, <3>2, <3>3
    <2>2. ASSUME NEW i \in 1..k, NEW m \in ToSet(list'[Owner(i - 1)]) PROVE m[2] < open[i][2]
      <3>1. i - 1 \in 0..k /\ k \in 0..k /\ i - 1 < k
        BY <1>3
      <3>2. Owner(i - 1) \in Node /\ Owner(i - 1) # o /\ Owner(i - 1)[2] \in Nat
        <4>1. Owner(i - 1) \in Node /\ Owner(i - 1)[2] < Owner(k)[2]
          BY <1>6, <3>1
        <4>2. Owner(i - 1)[2] \in 0..(cursor - 1) /\ Owner(k)[2] \in 0..(cursor - 1)
          BY <1>1, <3>1, OwnerFacts
        <4>3. Owner(i - 1)[2] \in Nat /\ Owner(i - 1)[2] # Owner(k)[2]
          BY <4>1, <4>2
        <4> QED
          BY <4>1, <4>3
      <3>3. list'[Owner(i - 1)] = list[Owner(i - 1)]
        BY <1>8, <3>2
      <3> QED
        BY <1>1, <2>2, <3>3 DEF ListInv
    <2>3. \A i \in 1..k : Owner(i - 1)' = Owner(i - 1)
      BY <1>1 DEF Owner, Body
    <2>4. \A m \in Node : m[2] # 0 /\ Read(m)' => m \in ToSet(open) \/ \E p \in Node : m \in ToSet(list'[p])
      <3>1. \A m \in Node : m[2] # 0 /\ Read(m) => m \in ToSet(open) \/ \E p \in Node : m \in ToSet(list[p])
        BY <1>1 DEF ListInv
      <3>2. \A p \in Node : \A m \in ToSet(list[p]) : m \in ToSet(list'[p])
        BY <1>8
      <3> QED
        BY <1>6, <1>8, <1>9, <3>1, <3>2
    <2>5. ASSUME NEW p \in Node, list'[p] # <<>>, ~Underway(p)'
          PROVE  Op(Last(list'[p])) = "end"
      <3>1. p \notin ToSet(open) /\ (p = Body(func) => cursor = Len(s))
        BY <1>1, <1>2, <1>3, <2>5 DEF Underway, Parsed, Body
      <3>2. CASE p = o
        <4>1. open = <<>>
          <5>1. ASSUME open # <<>> PROVE FALSE
            <6>1. k # 0
              BY <1>1, <5>1, ST!EmptySeq DEF ParserTypeOK
            <6>2. k \in 1..k /\ o = open[k]
              BY <1>3, <6>1 DEF Owner
            <6> QED
              BY <1>1, <3>1, <3>2, <6>2, OpenFacts
          <5> QED
            BY <5>1
        <4>2. cursor = Len(s)
          BY <1>7, <3>1, <3>2, <4>1
        <4> QED
          BY <1>3, <1>8, <3>2, <4>2 DEF Op
      <3>3. CASE p # o
        <4>1. list'[p] = list[p]
          BY <1>8, <3>3
        <4>2. ~Underway(p)
          <5>1. p # Body(func)
            BY <1>5, <1>7, <3>1, <3>3
          <5> QED
            BY <3>1, <5>1 DEF Underway
        <4> QED
          BY <1>1, <2>5, <4>1, <4>2 DEF ListInv
      <3> QED
        BY <3>2, <3>3
    <2>6. \A p : Op(p)' = Op(p)
      BY <1>1, CodeStays
    <2> HIDE DEF n, s, o, k
    <2> QED
      BY <1>1, <1>8, <2>1, <2>2, <2>3, <2>4, <2>5, <2>6, CodeStays DEF ListInv, k
  <1>14. NestInv'
    <2>1. NestInv /\ SurplusInv
      BY DEF ParserInv, NestInv
    <2>2. SurplusInv'
      <3>1. ASSUME NEW i \in 1..k
            PROVE  /\ Count(s, Openers, open[i][2], cursor)
                         = Count(s, {"end"}, open[i][2], cursor) + (k - i + 1)
                   /\ \A m \in open[i][2]..cursor :
                         Count(s, Openers, open[i][2], m) > Count(s, {"end"}, open[i][2], m)
        <4> DEFINE j == open[i][2]
        <4>1. /\ Count(s, Openers, j, cursor - 1) = Count(s, {"end"}, j, cursor - 1) + (k - i + 1)
              /\ \A m \in j..(cursor - 1) : Count(s, Openers, j, m) > Count(s, {"end"}, j, m)
          BY <2>1, <1>2 DEF SurplusInv
        <4>2. j \in 1..(cursor - 1) /\ cursor \in Nat
          BY <1>1, <1>2 DEF OpenInv
        <4>3. s[cursor].op \notin {"end"}
          <5>1. open # <<>>
            BY EmptyList
          <5> QED
            BY <1>4, <5>1
        <4> HIDE DEF j, s, k
        <4>4. /\ Count(s, Openers, j, cursor) = Count(s, Openers, j, cursor - 1)
              /\ Count(s, {"end"}, j, cursor) = Count(s, {"end"}, j, cursor - 1)
              /\ Count(s, Openers, j, cursor - 1) > Count(s, {"end"}, j, cursor - 1)
          BY <1>1, <4>1, <4>2, <4>3, CountAt
        <4>5. \A m \in j..cursor : m \in j..(cursor - 1) \/ m = cursor
          BY <4>2
        <4> QED
          BY <4>1, <4>4, <4>5 DEF j
      <3>2. ASSUME NEW j \in 1..cursor, s[j].op \in Openers, <<func, j>> \notin ToSet(open)
            PROVE  Match(s, j) < cursor + 1
        <4>1. j \in 1..(cursor - 1)
          BY <1>1, <1>2, <3>2
        <4>2. Match(s, j) < cursor
          BY <1>2, <2>1, <3>2, <4>1 DEF SurplusInv
        <4>3. Match(s, j) \in Nat
          <5>1. j \in Nat
            BY <4>1
          <5> HIDE DEF s
          <5> QED
            BY <1>3, <5>1, MatchType
        <4> QED
          BY <1>2, <4>2, <4>3
      <3>3. (cursor + 1) - 1 = cursor
        BY <1>2
      <3> HIDE DEF s, k, n
      <3> QED
        BY <1>1, <3>1, <3>2, <3>3 DEF SurplusInv, s, k
    <2>3. ASSUME NEW p \in Node, NEW m \in ToSet(list'[p]) PROVE Around(m) = Within(p)
      <3>1. CASE m \in ToSet(list[p])
        BY <2>1, <3>1 DEF NestInv
      <3>2. CASE m \notin ToSet(list[p])
        <4>1. p = o /\ m = n
          BY <1>8, <2>3, <3>2
        <4>2. Within(o) = {open[l][2] : l \in 1..k}
          BY <1>1, <1>3, <2>1, WithinOwner
        <4>3. Around(n) = {open[l][2] : l \in 1..k}
          BY <1>1, <2>1, AroundHere
        <4> HIDE DEF n, o, k
        <4> QED
          BY <4>1, <4>2, <4>3
      <3> QED
        BY <3>1, <3>2
    <2>4. \A i \in 1..k : Around(open[i]) = {open[l][2] : l \in 1..(i - 1)}
      BY <2>1 DEF NestInv
    <2>5. Node' = Node /\ \A m : Around(m)' = Around(m) /\ Within(m)' = Within(m)
      BY <1>1, CodeStays
    <2> HIDE DEF n, s, o
    <2> QED
      BY <1>1, <2>2, <2>3, <2>4, <2>5 DEF NestInv
  <1> QED
    BY <1>10, <1>11, <1>12, <1>13, <1>14 DEF ParserInv

(* The end of a block: it is in the block, and the block is complete.      *)
LEMMA ParseEndsStep ==
    ASSUME ParserInv, ParseInstr, Ends(<<func, cursor>>)
    PROVE  ParserInv'
  <1>0. PICK n, s, k, p, o : /\ n = <<func, cursor>> /\ s = code[func]
                             /\ k = Len(open) /\ p = Owner(k) /\ o = Owner(k - 1)
    OBVIOUS
  <1> DEFINE r == Added(list, p, n)
  <1>1. /\ ParserTypeOK /\ OpenInv /\ BalanceInv /\ ListInv
        /\ Reading /\ s[cursor].op \notin Openers /\ s[cursor].op = "end" /\ open # <<>>
        /\ cursor' = cursor + 1 /\ open' = Front(open)
        /\ code' = code /\ func' = func
        /\ list' = [list EXCEPT ![p] = Append(@, n), ![o] = Append(@, p)]
    BY <1>0 DEF ParserInv, ParseInstr, Op, Ends
  <1>2. /\ n \in Node /\ func \in DOMAIN code /\ func \in Nat /\ cursor \in 1..Len(s)
        /\ code \in Programs /\ ~Parsed
    BY <1>0, <1>1, OwnerFacts DEF ParserTypeOK, Parsed
  <1>3. /\ Len(s) \in Nat /\ DOMAIN code = 1..Len(code) /\ Len(code) \in Nat
        /\ k \in Nat /\ open \in Seq(Node)
    BY <1>0, <1>1, <1>2, CodeFacts, OpenFacts DEF ParserTypeOK
  <1>4. k # 0 /\ k \in 1..k /\ k - 1 \in 0..k /\ k \in 0..k
    <2>1. k # 0
      BY <1>0, <1>1, <1>3, ST!EmptySeq
    <2> QED
      BY <1>3, <2>1
  <1>5. cursor < Len(s)
    BY <1>0, <1>1, AloneAtEnd
  <1>6. /\ p \in Node /\ p[1] = func /\ p[2] \in 1..(cursor - 1) /\ p = open[k] /\ p \in ToSet(open)
        /\ o \in Node /\ o[1] = func /\ o[2] < p[2]
        /\ \A i \in 0..k : Owner(i) \in Node /\ Owner(i)[1] = func /\ Owner(i)[2] \in Nat
        /\ \A i, j \in 0..k : i < j => Owner(i)[2] < Owner(j)[2]
    <2>1. /\ \A i \in 0..k : Owner(i) \in Node /\ Owner(i)[1] = func /\ Owner(i)[2] \in 0..(cursor - 1)
          /\ \A i, j \in 0..k : i < j => Owner(i)[2] < Owner(j)[2]
      BY <1>0, <1>1, OwnerFacts
    <2>2. p = open[k]
      BY <1>4, <1>0 DEF Owner
    <2>3. p \in ToSet(open) /\ p[2] \in 1..(cursor - 1)
      BY <1>0, <1>1, <1>4, <2>2, OpenFacts
    <2>4. k - 1 < k
      BY <1>3
    <2>5. o \in Node /\ o[1] = func /\ p \in Node /\ p[1] = func
      BY <1>0, <1>4, <2>1
    <2>6. o[2] < p[2]
      BY <1>0, <1>4, <2>1, <2>4
    <2>7. \A i \in 0..k : Owner(i)[2] \in Nat
      BY <2>1
    <2> QED
      BY <2>1, <2>2, <2>3, <2>5, <2>6, <2>7
  <1>7. /\ \A q \in Node : \A m \in ToSet(list[q]) :
             m \in Node /\ Read(m) /\ m \notin ToSet(open) /\ m # n
        /\ \A i \in 0..k : \A m \in ToSet(list[Owner(i)]) : m[2] < cursor
        /\ n \notin ToSet(open)
        /\ \A m \in Node : Read(m)' <=> Read(m) \/ m = n
    <2>1. \A m \in Node : Read(m)' <=> Read(m) \/ m = n
      BY <1>0, <1>1, HereFacts DEF Read
    <2> QED
      BY <1>0, <1>1, <2>1, HereFacts
  <1>8. /\ Good(list)
        /\ \A i \in 1..k : \A m \in ToSet(list[Owner(i - 1)]) : m[2] < open[i][2]
        /\ \A m \in Node : m[2] # 0 /\ Read(m) => m \in ToSet(open) \/ \E q \in Node : m \in ToSet(list[q])
        /\ \A q \in Node : list[q] # <<>> /\ ~Underway(q) => Op(Last(list[q])) = "end"
    BY <1>0, <1>1 DEF ListInv
  <1>9. Good(r) /\ ToSet(r[p]) = ToSet(list[p]) \cup {n} /\ Last(r[p]) = n
        /\ \A q \in Node \ {p} : r[q] = list[q]
    <2>1. Addable(list, p, n)
      <3>1. n[1] = func /\ n[2] = cursor /\ p[2] < cursor
        BY <1>0, <1>2, <1>6
      <3>2. \A m \in ToSet(list[p]) : m[2] < cursor
        BY <1>0, <1>4, <1>7
      <3> QED
        BY <1>6, <1>7, <3>1, <3>2 DEF Addable
    <2>2. code \in Programs /\ Good(list) /\ p \in Node /\ n \in Node
      BY <1>2, <1>6, <1>8
    <2> QED
      BY ONLY <2>1, <2>2, AddGood
  <1>10. o # p /\ o \in Node \ {p} /\ p # n
    <2>1. o[2] # p[2] /\ p[2] # cursor /\ n[2] = cursor
      <3>1. p[2] \in Nat /\ o[2] < p[2] /\ o[2] \in Nat /\ p[2] < cursor /\ cursor \in Nat
        BY <1>0, <1>2, <1>4, <1>6
      <3> QED
        BY <1>0, <3>1
    <2> QED
      BY <1>6, <2>1
  <1>11. /\ Good(list')
         /\ ToSet(list'[p]) = ToSet(list[p]) \cup {n} /\ Last(list'[p]) = n
         /\ ToSet(list'[o]) = ToSet(list[o]) \cup {p}
         /\ \A q \in Node : q # o /\ q # p => list'[q] = list[q]
    <2>1. Addable(r, o, p)
      <3>1. \A m \in ToSet(list[o]) : m[2] < p[2]
        BY <1>0, <1>4, <1>6, <1>8
      <3>2. \A q \in Node : p \notin ToSet(list[q])
        BY <1>6, <1>7
      <3> HIDE DEF r
      <3>3. \A q \in Node : p \notin ToSet(r[q])
        BY <1>9, <1>10, <3>2
      <3>4. r[o] = list[o]
        BY <1>9, <1>10
      <3> QED
        BY <1>6, <3>1, <3>3, <3>4 DEF Addable
    <2>2. list' = Added(r, o, p)
      <3> QED
        BY <1>1, <1>10 DEF Added
    <2> HIDE DEF r
    <2>3. /\ Good(list') /\ ToSet(list'[o]) = ToSet(r[o]) \cup {p}
          /\ \A q \in Node \ {o} : list'[q] = r[q]
      <3>1. code \in Programs /\ Good(r) /\ o \in Node /\ p \in Node
        BY <1>2, <1>6, <1>9
      <3> QED
        BY ONLY <2>1, <2>2, <3>1, AddGood
    <2>4. list'[p] = r[p] /\ r[o] = list[o]
      BY <1>6, <1>9, <1>10, <2>3
    <2> QED
      BY <1>9, <2>3, <2>4
  <1>12. /\ open' \in Seq(Node) /\ Len(open') = k - 1
         /\ \A i \in 1..(k - 1) : open'[i] = open[i] /\ i \in 1..k
         /\ \A i \in 1..Len(open') : i \in 1..(k - 1)
    <2>1. open' \in Seq(Node) /\ Len(open') = k - 1 /\ \A i \in 1..(k - 1) : open'[i] = open[i]
      BY <1>0, <1>1, <1>3, FrontSeq
    <2> QED
      BY <1>3, <2>1
  <1>13. \A m : m \in ToSet(open') <=> m \in ToSet(open) /\ m # p
    <2>1. \A m : m \in ToSet(open) <=> \E i \in 1..k : open[i] = m
      BY <1>0, <1>1, OpenFacts
    <2>2. \A m : m \in ToSet(open') <=> \E i \in 1..(k - 1) : open[i] = m
      <3> DEFINE t == open'
      <3>1. t \in Seq(Node)
        BY <1>12
      <3> HIDE DEF t
      <3>2. \A m : m \in ToSet(t) <=> \E i \in 1..Len(t) : t[i] = m
        BY <3>1, ElementsSeq
      <3> QED
        BY <1>12, <3>2 DEF t
    <2>3. \A i \in 1..(k - 1) : open[i] # p
      <3>1. \A i \in 1..(k - 1) : i \in 1..k /\ i < k
        BY <1>3
      <3>2. \A i, j \in 1..k : i < j => open[i][2] < open[j][2]
        BY <1>0, <1>1 DEF OpenInv
      <3>3. \A i \in 1..(k - 1) : open[i][2] < p[2]
        BY <1>4, <1>6, <3>1, <3>2
      <3> QED
        BY <1>6, <3>3
    <2>4. \A i \in 1..k : i = k \/ i \in 1..(k - 1)
      BY <1>3
    <2> QED
      BY <1>6, <1>12, <2>1, <2>2, <2>3, <2>4
  <1>14. ParserTypeOK'
    BY <1>0, <1>1, <1>2, <1>3, <1>12, CodeStays DEF ParserTypeOK, Parsed
  <1>15. OpenInv'
    <2>1. \A i \in 1..k : /\ open[i][1] = func /\ open[i][2] \in 1..(cursor - 1) /\ Op(open[i]) \in Openers
      BY <1>0, <1>1 DEF OpenInv
    <2>2. \A i, j \in 1..k : i < j => open[i][2] < open[j][2]
      BY <1>0, <1>1 DEF OpenInv
    <2>3. cursor' - 1 = cursor /\ \A x \in 1..(cursor - 1) : x \in 1..cursor
      BY <1>1, <1>2
    <2>4. \A m : Op(m)' = Op(m)
      BY <1>1, CodeStays
    <2> HIDE DEF r
    <2>5. \A i \in 1..Len(open') :
             open'[i][1] = func /\ open'[i][2] \in 1..cursor /\ Op(open'[i]) \in Openers
      BY <1>12, <2>1, <2>3
    <2>6. \A i, j \in 1..Len(open') : i < j => open'[i][2] < open'[j][2]
      BY <1>12, <2>2
    <2> QED
      BY <1>1, <2>3, <2>4, <2>5, <2>6 DEF OpenInv
  <1>16. BalanceInv'
    <2>1. /\ Count(s, {"end"}, 1, cursor - 1) \in Nat /\ Count(s, Openers, 1, cursor - 1) \in Nat
          /\ Count(s, {"end"}, 1, cursor) <= Count(s, {"end"}, 1, cursor - 1) + 1
          /\ Count(s, Openers, 1, cursor) = Count(s, Openers, 1, cursor - 1)
          /\ Count(s, {"end"}, 1, cursor) \in Nat
      <3>1. /\ Count(s, {"end"}, 1, cursor)
                 = Count(s, {"end"}, 1, cursor - 1) + (IF s[cursor].op \in {"end"} THEN 1 ELSE 0)
            /\ Count(s, Openers, 1, cursor) = Count(s, Openers, 1, cursor - 1)
            /\ Count(s, {"end"}, 1, cursor - 1) \in Nat /\ Count(s, Openers, 1, cursor - 1) \in Nat
        BY <1>1, <1>2, CountAt
      <3> QED
        BY <3>1
    <2>2. k + Count(s, {"end"}, 1, cursor - 1) <= Count(s, Openers, 1, cursor - 1)
      BY <1>0, <1>1, <1>2, <1>3, <1>5 DEF BalanceInv
    <2>3. cursor' - 1 = cursor /\ ~(cursor' > Len(s))
      BY <1>1, <1>2, <1>3, <1>5
    <2>4. Len(open') + Count(s, {"end"}, 1, cursor) <= Count(s, Openers, 1, cursor)
      <3> QED
        BY <1>3, <1>12, <2>1, <2>2
    <2> QED
      BY <1>0, <1>1, <2>3, <2>4 DEF BalanceInv
  <1>17. ListInv'
    <2>1. \A i \in 0..(k - 2) : /\ i \in 0..k /\ Owner(i)' = Owner(i)
                               /\ Owner(i) # o /\ Owner(i) # p
      <3> SUFFICES ASSUME NEW i \in 0..(k - 2)
                   PROVE  i \in 0..k /\ Owner(i)' = Owner(i) /\ Owner(i) # o /\ Owner(i) # p
        OBVIOUS
      <3>1. i \in 0..k /\ i < k - 1 /\ i < k /\ (i = 0 \/ i \in 1..(k - 1))
        BY <1>3
      <3>2. Owner(i)' = Owner(i)
        BY <1>1, <1>12, <3>1, <1>0 DEF Owner, Body
      <3>3. Owner(i)[2] < Owner(k)[2] /\ Owner(i)[2] < Owner(k - 1)[2]
        BY <1>4, <1>6, <3>1
      <3>4. Owner(i)[2] \in Nat /\ Owner(k)[2] \in Nat /\ Owner(k - 1)[2] \in Nat
        BY <1>4, <1>6, <3>1
      <3> QED
        BY <1>0, <3>1, <3>2, <3>3, <3>4
    <2>2. \A q \in Node : \A m \in ToSet(list'[q]) : m = n \/ m = p \/ m \in ToSet(list[q])
      <3> QED
        BY <1>6, <1>11
    <2>3. Read(p) /\ Read(n)' /\ n \notin ToSet(open') /\ p \notin ToSet(open')
      <3>1. Read(p)
        <4>1. p[2] < cursor
          BY <1>2, <1>6
        <4> QED
          BY <1>6, <4>1 DEF Read
      <3> QED
        BY <1>2, <1>7, <1>13, <3>1
    <2>4. \A q \in Node : \A m \in ToSet(list'[q]) : Read(m)' /\ m \notin ToSet(open')
      <3> QED
        BY <1>6, <1>7, <1>13, <2>2, <2>3
    <2>5. ASSUME NEW i \in 1..(k - 1), NEW m \in ToSet(list'[Owner(i - 1)]) PROVE m[2] < open[i][2]
      <3>1. i - 1 \in 0..(k - 2) /\ i \in 1..k
        BY <1>3
      <3>2. list'[Owner(i - 1)] = list[Owner(i - 1)]
        BY <1>6, <1>11, <2>1, <3>1
      <3> QED
        BY <1>8, <2>5, <3>1, <3>2
    <2>6. ASSUME NEW i \in 1..(k - 1) PROVE Owner(i - 1)' = Owner(i - 1)
      <3>1. i - 1 \in 0..(k - 2)
        BY <1>3
      <3> QED
        BY <2>1, <3>1, <1>0 DEF Owner
    <2>7. ASSUME NEW m \in Node, m[2] # 0, Read(m)'
          PROVE  m \in ToSet(open') \/ \E q \in Node : m \in ToSet(list'[q])
      <3>1. CASE m = n \/ m = p
        BY <1>6, <1>11, <3>1
      <3>2. CASE m # n /\ m # p
        <4>1. m \in ToSet(open) \/ \E q \in Node : m \in ToSet(list[q])
          BY <1>7, <1>8, <2>7, <3>2
        <4>2. \A q \in Node : m \in ToSet(list[q]) => m \in ToSet(list'[q])
          BY <1>11
        <4> QED
          BY <1>13, <3>2, <4>1, <4>2
      <3> QED
        BY <3>1, <3>2
    <2>8. Underway(o)'
      <3>1. CASE k - 1 = 0
        <4>1. o = Body(func)
          BY <3>1, <1>0 DEF Owner
        <4>2. cursor' <= Len(s)
          BY <1>1, <1>2, <1>3, <1>5
        <4>3. ~Parsed' /\ Body(func)' = Body(func)
          BY <1>1, <1>2 DEF Parsed, Body
        <4> QED
          BY <1>0, <1>1, <4>1, <4>2, <4>3 DEF Underway
      <3>2. CASE k - 1 # 0
        <4>1. k - 1 \in 1..k /\ o = open[k - 1]
          BY <1>3, <1>4, <3>2, <1>0 DEF Owner
        <4>2. o \in ToSet(open)
          BY <1>0, <1>1, <4>1, OpenFacts
        <4>3. o \in ToSet(open')
          <5> QED
            BY <1>10, <1>13, <4>2
        <4> QED
          BY <4>3 DEF Underway
      <3> QED
        BY <3>1, <3>2
    <2>9. ASSUME NEW q \in Node, list'[q] # <<>>, ~Underway(q)'
          PROVE  Op(Last(list'[q])) = "end"
      <3>1. q # o
        BY <2>8, <2>9
      <3>2. CASE q = p
        <4>1. Last(list'[q]) = n
          BY <1>11, <3>2
        <4>2. Op(n) = "end"
          BY <1>0, <1>1 DEF Op
        <4> QED
          BY <4>1, <4>2
      <3>3. CASE q # p
        <4>1. list'[q] = list[q]
          BY <1>11, <3>1, <3>3
        <4>2. ~Underway(q)
          <5>1. q \notin ToSet(open)
            <6> QED
              BY <1>13, <2>9, <3>3 DEF Underway
          <5>2. q # Body(func)
            <6>1. cursor' <= Len(s)
              BY <1>1, <1>2, <1>3, <1>5
            <6> QED
              BY <1>0, <1>1, <1>2, <2>9, <6>1 DEF Underway, Parsed, Body
          <5> QED
            BY <5>1, <5>2 DEF Underway
        <4> QED
          BY <1>8, <2>9, <4>1, <4>2
      <3> QED
        BY <3>2, <3>3
    <2>10. \A q : Op(q)' = Op(q)
      BY <1>1, CodeStays
    <2>11. Node' = Node /\ Good(list)'
      <3>1. \A l : Good(l)' = Good(l)
        BY <1>1, CodeStays
      <3> QED
        BY <1>1, <1>11, CodeStays DEF Good
    <2>12. \A i \in 1..Len(open') : i \in 1..(k - 1) /\ open'[i] = open[i]
      BY <1>12
    <2> HIDE DEF r
    <2> QED
      BY <2>4, <2>5, <2>6, <2>7, <2>9, <2>10, <2>11, <2>12 DEF ListInv
  <1>18. NestInv'
    <2>1. NestInv /\ SurplusInv
      BY DEF ParserInv, NestInv
    <2>2. s[cursor].op = "end"
      BY <1>1
    <2>3. \A i \in 1..k : open[i][2] \in 1..(cursor - 1)
      BY <1>0, <1>1 DEF OpenInv
    <2>4. \A j \in 1..cursor :
            /\ Count(s, Openers, j, cursor - 1) \in Nat /\ Count(s, {"end"}, j, cursor - 1) \in Nat
            /\ Count(s, Openers, j, cursor) = Count(s, Openers, j, cursor - 1)
            /\ Count(s, {"end"}, j, cursor) = Count(s, {"end"}, j, cursor - 1) + 1
      <3>1. s[cursor].op \in {"end"}
        BY <2>2
      <3> QED
        BY <1>1, <1>2, <3>1, CountAt
    <2>5. \A i \in 1..k :
            /\ Count(s, Openers, open[i][2], cursor - 1)
                   = Count(s, {"end"}, open[i][2], cursor - 1) + (k - i + 1)
            /\ \A m \in open[i][2]..(cursor - 1) :
                   Count(s, Openers, open[i][2], m) > Count(s, {"end"}, open[i][2], m)
      BY <1>0, <1>2, <2>1 DEF SurplusInv
    <2>6. ASSUME NEW i \in 1..(k - 1)
          PROVE  /\ Count(s, Openers, open[i][2], cursor)
                       = Count(s, {"end"}, open[i][2], cursor) + ((k - 1) - i + 1)
                 /\ \A m \in open[i][2]..cursor :
                       Count(s, Openers, open[i][2], m) > Count(s, {"end"}, open[i][2], m)
      <3>1. PICK j : j = open[i][2]
        OBVIOUS
      <3>2. j \in 1..cursor /\ j \in Nat /\ i \in 1..k /\ cursor \in Nat /\ (k - 1) - i + 1 >= 1
            /\ (k - i + 1) = (k - 1) - i + 1 + 1 /\ (k - 1) - i + 1 \in Nat
        BY <1>2, <1>3, <2>3, <3>1
      <3>3. /\ Count(s, Openers, j, cursor - 1) = Count(s, {"end"}, j, cursor - 1) + (k - i + 1)
            /\ \A m \in j..(cursor - 1) : Count(s, Openers, j, m) > Count(s, {"end"}, j, m)
        BY <2>5, <3>1, <3>2
      <3>4. PICK d \in Nat : d = (k - 1) - i + 1 /\ d >= 1 /\ k - i + 1 = d + 1
        BY <3>2
      <3>5. Count(s, Openers, j, cursor) = Count(s, {"end"}, j, cursor) + d
        BY <2>4, <3>2, <3>3, <3>4
      <3>6. Count(s, Openers, j, cursor) > Count(s, {"end"}, j, cursor)
        BY <2>4, <3>2, <3>4, <3>5
      <3>7. \A m \in j..cursor : m \in j..(cursor - 1) \/ m = cursor
        BY <3>2
      <3> QED
        BY <3>1, <3>3, <3>4, <3>5, <3>6, <3>7
    <2>7. Match(s, p[2]) = cursor
      <3>1. PICK j : j = p[2]
        OBVIOUS
      <3>2. j = open[k][2] /\ j \in 1..Len(s) /\ cursor \in (j + 1)..Len(s) /\ j \in 1..cursor
        <4>1. j \in 1..(cursor - 1)
          BY <1>6, <3>1
        <4>2. cursor \in 1..Len(s) /\ Len(s) \in Nat
          BY <1>2, <1>3
        <4> QED
          BY <1>6, <3>1, <4>1, <4>2
      <3>5. k - k + 1 = 1
        BY <1>3
      <3>3. /\ Count(s, Openers, j, cursor - 1) = Count(s, {"end"}, j, cursor - 1) + 1
            /\ \A m \in j..(cursor - 1) : Count(s, Openers, j, m) > Count(s, {"end"}, j, m)
        BY <1>4, <2>5, <3>2, <3>5
      <3>4. Count(s, Openers, j, cursor) = Count(s, {"end"}, j, cursor)
        BY <2>4, <3>2, <3>3
      <3> QED
        BY <1>3, <3>1, <3>2, <3>3, <3>4, MatchClosed
    <2>8. SurplusInv'
      <3>1. ASSUME NEW j \in 1..cursor, s[j].op \in Openers, <<func, j>> \notin ToSet(open')
            PROVE  Match(s, j) < cursor + 1
        <4>1. j \in 1..(cursor - 1) /\ j \in Nat
          BY <1>1, <1>2, <3>1
        <4>2. CASE <<func, j>> = p
          BY <1>2, <2>7, <4>2
        <4>3. CASE <<func, j>> # p
          <5>1. Match(s, j) < cursor
            BY <1>0, <1>2, <1>13, <2>1, <3>1, <4>1, <4>3 DEF SurplusInv
          <5>2. Match(s, j) \in Nat
            BY <1>3, <4>1, MatchType
          <5> QED
            BY <1>2, <5>1, <5>2
        <4> QED
          BY <4>2, <4>3
      <3>2. cursor' - 1 = cursor
        BY <1>1, <1>2
      <3>3. \A i \in 1..Len(open') : i \in 1..(k - 1) /\ open'[i] = open[i]
        BY <1>12
      <3>4. \A i \in 1..Len(open') : Len(open') - i + 1 = (k - 1) - i + 1
        BY <1>12
      <3>5. code'[func'] = s /\ cursor' = cursor + 1 /\ func' = func
        BY <1>0, <1>1
      <3> QED
        BY <2>6, <3>1, <3>2, <3>3, <3>4, <3>5 DEF SurplusInv
    <2>9. ASSUME NEW i \in 1..Len(open') PROVE Around(open'[i]) = {open'[l][2] : l \in 1..(i - 1)}
      <3>1. i \in 1..(k - 1) /\ i \in 1..k /\ open'[i] = open[i]
        BY <1>12
      <3>2. Around(open[i]) = {open[l][2] : l \in 1..(i - 1)}
        BY <1>0, <2>1, <3>1 DEF NestInv
      <3>3. \A l \in 1..(i - 1) : open'[l] = open[l]
        <4>1. \A l \in 1..(i - 1) : l \in 1..(k - 1)
          BY <1>3, <3>1
        <4> QED
          BY <1>12, <4>1
      <3>4. {open'[l][2] : l \in 1..(i - 1)} = {open[l][2] : l \in 1..(i - 1)}
        BY <3>3
      <3> QED
        BY <3>1, <3>2, <3>4
    <2>10. Around(n) = Within(p)
      <3>1. Around(n) = {open[l][2] : l \in 1..Len(open)}
        BY <1>0, <1>1, <2>1, AroundHere
      <3>2. Within(p) = {open[l][2] : l \in 1..k}
        BY <1>0, <1>1, <1>4, <2>1, WithinOwner
      <3> QED
        BY <1>0, <3>1, <3>2
    <2>11. Around(p) = Within(o)
      <3>1. Around(p) = {open[l][2] : l \in 1..(k - 1)}
        BY <1>0, <1>4, <1>6, <2>1 DEF NestInv
      <3>2. Within(o) = {open[l][2] : l \in 1..(k - 1)}
        BY <1>0, <1>1, <1>4, <2>1, WithinOwner
      <3> QED
        BY <3>1, <3>2
    <2>12. ASSUME NEW q \in Node, NEW m \in ToSet(list'[q]) PROVE Around(m) = Within(q)
      <3>1. CASE m \in ToSet(list[q])
        BY <2>1, <3>1 DEF NestInv
      <3>2. CASE m \notin ToSet(list[q])
        <4>1. (q = p /\ m = n) \/ (q = o /\ m = p)
          BY <1>11, <2>12, <3>2
        <4> QED
          BY <2>10, <2>11, <4>1
      <3> QED
        BY <3>1, <3>2
    <2>13. Node' = Node /\ \A m : Around(m)' = Around(m) /\ Within(m)' = Within(m)
      BY <1>1, CodeStays
    <2> QED
      BY <2>8, <2>9, <2>12, <2>13 DEF NestInv
  <1> QED
    BY <1>14, <1>15, <1>16, <1>17, <1>18 DEF ParserInv

(* A function is complete.                                                 *)
LEMMA ParseNextFuncStep ==
    ASSUME ParserInv, ParseNextFunc
    PROVE  ParserInv'
  <1>0. PICK s : s = code[func]
    OBVIOUS
  <1>1. /\ ParserTypeOK /\ OpenInv /\ BalanceInv /\ ListInv
        /\ func \in DOMAIN code /\ cursor > Len(s)
        /\ func' = func + 1 /\ cursor' = 1
        /\ code' = code /\ open' = open /\ list' = list
    BY <1>0 DEF ParserInv, ParseNextFunc
  <1>2. /\ code \in Programs /\ func \in Nat /\ cursor \in Nat /\ ~Parsed /\ open = <<>>
        /\ DOMAIN code = 1..Len(code) /\ Len(code) \in Nat
        /\ \A f \in DOMAIN code : Len(code[f]) \in Nat \ {0}
    <2>1. code \in Programs /\ func \in Nat /\ cursor \in Nat /\ ~Parsed
      BY <1>1 DEF ParserTypeOK, Parsed
    <2>2. open = <<>>
      BY <1>0, <1>1, <2>1 DEF BalanceInv
    <2> QED
      BY <2>1, <2>2, CodeFacts
  <1>3. Len(open) = 0 /\ open \in Seq(Node) /\ ToSet(open) = {}
    BY <1>2, EmptyList, ST!EmptySeq
  <1>4. ParserTypeOK'
    BY <1>1, <1>2, <1>3, CodeStays DEF ParserTypeOK, Parsed
  <1>5. OpenInv'
    BY <1>1, <1>3 DEF OpenInv
  <1>6. BalanceInv'
    <2>1. \A t : Count(t, {"end"}, 1, 1 - 1) = 0 /\ Count(t, Openers, 1, 1 - 1) = 0
      BY CountNone
    <2> QED
      BY <1>1, <1>2, <1>3, <2>1 DEF BalanceInv
  <1>7. ListInv'
    <2>1. /\ Good(list)
          /\ \A o \in Node : \A m \in ToSet(list[o]) : m \in Node /\ Read(m)
          /\ \A m \in Node : m[2] # 0 /\ Read(m) => \E o \in Node : m \in ToSet(list[o])
          /\ \A o \in Node : list[o] # <<>> => Op(Last(list[o])) = "end"
      <3>1. /\ Good(list) /\ \A o \in Node : \A m \in ToSet(list[o]) : Read(m)
            /\ \A m \in Node : m[2] # 0 /\ Read(m) => m \in ToSet(open) \/ \E o \in Node : m \in ToSet(list[o])
            /\ \A o \in Node : list[o] # <<>> /\ ~Underway(o) => Op(Last(list[o])) = "end"
        BY <1>1 DEF ListInv
      <3>2. \A o \in Node : ~Underway(o)
        BY <1>0, <1>1, <1>2, <1>3 DEF Underway
      <3>3. \A o \in Node : \A m \in ToSet(list[o]) : m \in Node
        BY <3>1, GoodFacts
      <3> QED
        BY <1>3, <3>1, <3>2, <3>3
    <2>2. \A m \in Node : m[1] \in Nat /\ m[2] \in Nat /\ m[2] <= Len(code[m[1]])
      BY <1>2, NodeFacts
    <2>3. \A m \in Node : Read(m) => Read(m)'
      BY <1>1, <1>2, <2>2 DEF Read
    <2>4. \A m \in Node : m[2] # 0 /\ Read(m)' => Read(m)
      <3> SUFFICES ASSUME NEW m \in Node, m[2] # 0, Read(m)' PROVE Read(m)
        OBVIOUS
      <3>1. m[1] < func + 1 \/ (m[1] = func + 1 /\ m[2] < 1)
        BY <1>1 DEF Read
      <3>2. m[1] < func \/ m[1] = func
        BY <1>2, <2>2, <3>1
      <3>3. m[1] = func => m[2] < cursor
        BY <1>0, <1>1, <1>2, <2>2
      <3> QED
        BY <3>2, <3>3 DEF Read
    <2>5. Node' = Node /\ (\A m : Op(m)' = Op(m)) /\ Good(list)'
      BY <1>1, <2>1, CodeStays DEF Good
    <2>6. \A o \in Node : \A m \in ToSet(list[o]) : Read(m)'
      BY <2>1, <2>3
    <2>7. \A m \in Node : m[2] # 0 /\ Read(m)' => \E o \in Node : m \in ToSet(list[o])
      BY <2>1, <2>4
    <2> QED
      BY <1>1, <1>3, <2>1, <2>5, <2>6, <2>7 DEF ListInv
  <1>8. NestInv'
    <2>1. NestInv
      BY DEF ParserInv
    <2>2. SurplusInv'
      BY <1>1, <1>3 DEF SurplusInv
    <2>3. Node' = Node /\ \A m : Around(m)' = Around(m) /\ Within(m)' = Within(m)
      BY <1>1, CodeStays
    <2> QED
      BY <1>1, <1>3, <2>1, <2>2, <2>3 DEF NestInv
  <1> QED
    BY <1>4, <1>5, <1>6, <1>7, <1>8 DEF ParserInv

(* A step of the parser, or none.                                          *)
LEMMA ParserStepInv == ParserInv /\ [Parse]_parseVars => ParserInv'
  <1> SUFFICES ASSUME ParserInv, [Parse]_parseVars PROVE ParserInv'
    OBVIOUS
  <1>1. CASE ParseBlock
    BY <1>1, ParseBlockStep
  <1>2. CASE ParseInstr
    BY <1>2, ParsePlainStep, ParseEndsStep
  <1>3. CASE ParseNextFunc
    BY <1>3, ParseNextFuncStep
  <1>4. CASE UNCHANGED parseVars
    <2>1. code' = code /\ func' = func /\ cursor' = cursor /\ open' = open /\ list' = list
      BY <1>4 DEF parseVars
    <2>2. /\ Node' = Node /\ Good(list)' = Good(list)
          /\ \A n : Op(n)' = Op(n) /\ Around(n)' = Around(n) /\ Within(n)' = Within(n)
      BY <2>1, CodeStays
    <2>3. ParserTypeOK' /\ OpenInv' /\ BalanceInv'
      BY <2>1, <2>2 DEF ParserInv, ParserTypeOK, OpenInv, BalanceInv, Parsed
    <2>4. ListInv'
      <3>1. /\ \A o : Underway(o)' = Underway(o) /\ Read(o)' = Read(o)
            /\ \A k : Owner(k)' = Owner(k)
        BY <2>1 DEF Underway, Read, Owner, Body, Parsed
      <3> QED
        BY <2>1, <2>2, <3>1 DEF ParserInv, ListInv
    <2>5. NestInv'
      BY <2>1, <2>2 DEF ParserInv, NestInv, SurplusInv, Parsed
    <2> QED
      BY <2>3, <2>4, <2>5 DEF ParserInv
  <1> QED
    BY <1>1, <1>2, <1>3, <1>4 DEF Parse

----------------------------------------------------------------------------
(* The lists of a module that has been parsed                              *)

(* Every instruction is in one list, in order, and a list ends with an end. *)
LEMMA ParsedLists ==
    ASSUME ParserInv, Parsed
    PROVE  /\ code \in Programs /\ Good(list)
           /\ \A n \in Node : n[2] # 0 => \E o \in Node : n \in ToSet(list[o])
           /\ \A o \in Node : list[o] # <<>> => Op(Last(list[o])) = "end"
  <1>1. /\ ParserTypeOK /\ ListInv /\ code \in Programs /\ open = <<>> /\ func \in 1..(Len(code) + 1)
        /\ func \notin DOMAIN code
    BY DEF ParserInv, ParserTypeOK, Parsed
  <1>2. DOMAIN code = 1..Len(code) /\ Len(code) \in Nat
    BY <1>1, CodeFacts
  <1>3. \A n \in Node : Read(n)
    <2>1. \A n \in Node : n[1] \in 1..Len(code)
      BY <1>2, NodeFacts
    <2>2. func = Len(code) + 1
      BY <1>1, <1>2
    <2> QED
      BY <1>2, <2>1, <2>2 DEF Read
  <1>4. ToSet(open) = {}
    BY <1>1, EmptyList
  <1>5. \A n \in Node : n[2] # 0 => \E o \in Node : n \in ToSet(list[o])
    BY <1>1, <1>3, <1>4 DEF ListInv
  <1>6. \A o \in Node : list[o] # <<>> => Op(Last(list[o])) = "end"
    BY <1>1, <1>4 DEF ListInv, Underway
  <1>7. Good(list)
    BY <1>1 DEF ListInv
  <1> QED
    BY <1>1, <1>5, <1>6, <1>7

(* What is in a list is directly inside its block.                         *)
LEMMA ParentOfList ==
    ASSUME ParserInv, NEW o \in Node, NEW n \in ToSet(list[o])
    PROVE  Parent(code[n[1]], n[2]) = o[2]
  <1>1. Around(n) = Within(o) /\ o[2] \in Nat
    <2>1. code \in Programs /\ NestInv
      BY DEF ParserInv, ParserTypeOK
    <2>2. o[1] \in DOMAIN code /\ o[2] \in 0..Len(code[o[1]])
      BY NodeFacts
    <2>3. Len(code[o[1]]) \in Nat
      BY <2>1, <2>2, CodeFacts
    <2> QED
      BY <2>1, <2>2, <2>3 DEF NestInv
  <1>2. Parent(code[n[1]], n[2]) = IF Around(n) = {} THEN 0 ELSE Max(Around(n))
    BY DEF Parent, Around
  <1>3. CASE o[2] = 0
    BY <1>1, <1>2, <1>3 DEF Within
  <1>4. CASE o[2] # 0
    <2>1. PICK A : A = Around(o) \cup {o[2]}
      OBVIOUS
    <2>2. Around(n) = A /\ A # {}
      BY <1>1, <1>4, <2>1 DEF Within
    <2>3. o[2] \in A /\ \A y \in A : o[2] >= y /\ y \in Nat
      BY <1>1, <2>1 DEF Around
    <2>4. \A x \in A : (\A y \in A : x >= y) => x = o[2]
      BY <1>1, <2>3
    <2>5. Max(A) = o[2]
      BY <2>3, <2>4 DEF Max
    <2> QED
      BY <1>2, <2>2, <2>5
  <1> QED
    BY <1>3, <1>4

(* The lists are the nesting of the code.                                  *)
LEMMA ListsAreNesting ==
    ASSUME ParserInv, Parsed, NEW n \in Node
    PROVE  /\ ToSet(list[n]) = {m \in Node : m[1] = n[1] /\ m[2] # 0 /\ Parent(code[n[1]], m[2]) = n[2]}
           /\ \A i, j \in DOMAIN list[n] : i < j => list[n][i][2] < list[n][j][2]
  <1>1. Good(list) /\ \A m \in Node : m[2] # 0 => \E o \in Node : m \in ToSet(list[o])
    BY ParsedLists
  <1>2. n[2] \in Nat /\ \A m \in Node : m[2] \in Nat
    <2>1. code \in Programs
      BY ParsedLists
    <2> QED
      BY <2>1, NodeFacts, CodeFacts
  <1>3. ASSUME NEW m \in ToSet(list[n])
        PROVE  m \in Node /\ m[1] = n[1] /\ m[2] # 0 /\ Parent(code[n[1]], m[2]) = n[2]
    <2>1. m \in Node /\ m[1] = n[1] /\ n[2] < m[2]
      BY <1>1, GoodFacts
    <2> QED
      BY <1>2, <2>1, ParentOfList
  <1>4. ASSUME NEW m \in Node, m[1] = n[1], m[2] # 0, Parent(code[n[1]], m[2]) = n[2]
        PROVE  m \in ToSet(list[n])
    <2>1. PICK o \in Node : m \in ToSet(list[o])
      BY <1>1, <1>4
    <2>2. m[1] = o[1] /\ o[2] = n[2]
      BY <1>1, <1>4, <2>1, GoodFacts, ParentOfList
    <2>3. o = n
      BY <1>4, <2>2, NodeFacts
    <2> QED
      BY <2>1, <2>3
  <1>5. \A i, j \in DOMAIN list[n] : i < j => list[n][i][2] < list[n][j][2]
    <2>1. list[n] \in Seq(Node)
      BY <1>1, GoodFacts
    <2>2. DOMAIN list[n] = 1..Len(list[n])
      BY <2>1
    <2> QED
      BY <1>1, <2>2 DEF Good
  <1> QED
    BY <1>3, <1>4, <1>5

----------------------------------------------------------------------------
(* run_vm and invoke_i                                                     *)

\* The list that the i-th block, or the next instruction after the last, is in.
Into(b, i) ==
    IF i = 1 THEN Body(Start)
    ELSE IF Op(b[i - 1]) = "call" THEN Body(X(b[i - 1])) ELSE b[i - 1]

\* What may be among the blocks.
Entry(n) == Op(n) \in Openers \cup {"call"} /\ (Op(n) = "call" => X(n) \in DOMAIN code)

Chained(b) ==
    /\ b \in Seq(Node)
    /\ \A i \in 1..Len(b) : Entry(b[i]) /\ b[i] \in ToSet(list[Into(b, i)])

CallsOf(b, i) == {j \in 1..i : Op(b[j]) = "call"}

\* The instruction n may become a block, and what the blocks are then.
Enterable(b, n) == Chained(b) /\ n \in Node /\ n \in ToSet(list[Into(b, Len(b) + 1)]) /\ Entry(n)
Entered(b, n) == Append(b, n)

\* The blocks that are left when the innermost ones are.
Outer(b, k) == SubSeq(b, 1, k)

\* The frames are those of the calls among the blocks.
Framed(c, b) ==
    /\ c \in Seq(DOMAIN code)
    /\ Len(c) = 1 + Cardinality(CallsOf(b, Len(b)))
    /\ c[1] = Start
    /\ \A i \in CallsOf(b, Len(b)) : c[1 + Cardinality(CallsOf(b, i))] = X(b[i])

\* Each function leads to those that are called after it.
Led(c) == \A k, l \in 1..Len(c) : k < l => c[l] \in Reached(code, c[k])

Stops == {"parsing", "unsupported", "no", "task_exit", "relinked", "no block"}

PathOK(p, b, c, t) ==
    /\ t \in Stops
    /\ p \in Node \cup {Null}
    /\ t \in {"parsing", "unsupported"} => p = Null /\ b = <<>> /\ c = <<>>
    /\ t \notin {"parsing", "unsupported"} =>
          /\ Parsed /\ Chained(b)
          /\ c \in Seq(DOMAIN code) /\ Len(c) >= 1 + Cardinality(CallsOf(b, Len(b)))
    /\ t = "no" /\ p # Null => p \in ToSet(list[Into(b, Len(b) + 1)])

FrameOK(b, c, t) == t \notin {"parsing", "unsupported", "no block"} => Framed(c, b) /\ Led(c)

BreakOK(t) ==
    /\ t = "relinked" => Recursive(code)
    /\ t = "no block" => ~Supported(code, StackSize)

\* p, b, c, t for ip, blocks, calls, stop.
RunOK(p, b, c, t) == PathOK(p, b, c, t) /\ FrameOK(b, c, t) /\ BreakOK(t)

Stored(s) == s \in Seq(Val) /\ Len(s) <= StackSize

StoreInv == local \in [DOMAIN code -> [0..1 -> Val]] /\ Stored(stack)

InterpInv == ParserInv /\ RunOK(ip, blocks, calls, stop) /\ StoreInv

----------------------------------------------------------------------------
(* Sequences of blocks                                                     *)

(* From one to the next, as far as N + 1.                                  *)
LEMMA OneByOne ==
    ASSUME NEW S, NEW N \in Nat, 1 \in S, \A i \in 1..N : i \in S => i + 1 \in S
    PROVE  \A i \in 1..(N + 1) : i \in S
  <1> SUFFICES ASSUME NEW e \in 1..(N + 1), e \notin S PROVE FALSE
    OBVIOUS
  <1>1. PICK T : T = {i \in 1..(N + 1) : i \notin S}
    OBVIOUS
  <1>2. T \in SUBSET Nat /\ e \in T
    BY <1>1
  <1>3. PICK m : m \in T /\ \A y \in T : m <= y
    BY <1>2, Least
  <1>4. m \in 1..(N + 1) /\ m \notin S /\ m # 1
    BY <1>1, <1>3
  <1>5. PICK j \in 1..N : j + 1 = m
    <2>1. m - 1 \in 1..N /\ (m - 1) + 1 = m
      BY <1>4
    <2> QED
      BY <2>1
  <1>6. j \notin T
    BY <1>2, <1>3, <1>5
  <1> QED
    BY <1>1, <1>4, <1>5, <1>6

(* The body of a function is a node, but no instruction; there is no other *)
(* pair like Null or Wild.                                                 *)
LEMMA NoNodes ==
    ASSUME code \in Programs
    PROVE  /\ \A f \in DOMAIN code : Body(f) \in Node /\ Body(f)[1] = f /\ Body(f)[2] = 0
           /\ Null \notin Node /\ Wild \notin Node /\ Null # Wild
           /\ \A n \in Node : n[2] \in Nat
  <1>1. DOMAIN code = 1..Len(code) /\ \A f \in DOMAIN code : Len(code[f]) \in Nat
    BY CodeFacts
  <1>2. \A n \in Node : n[1] \in DOMAIN code /\ n[2] \in 0..Len(code[n[1]])
    BY NodeFacts
  <1>3. \A f \in DOMAIN code : <<f, 0>> \in Node
    BY <1>1, NodeFacts
  <1> QED
    BY <1>1, <1>2, <1>3 DEF Body, Null, Wild

(* The lists that the blocks are in.                                       *)
LEMMA IntoFacts ==
    ASSUME ParserInv, NEW b, Chained(b)
    PROVE  /\ Len(b) \in Nat /\ \A i \in 1..Len(b) : b[i] \in Node
           /\ \A i \in 1..(Len(b) + 1) : Into(b, i) \in Node
           /\ \A i \in 1..Len(b) : Into(b, i + 1) = IF Op(b[i]) = "call" THEN Body(X(b[i])) ELSE b[i]
           /\ Into(b, 1) = Body(Start)
  <1>1. Len(b) \in Nat /\ \A i \in 1..Len(b) : b[i] \in Node /\ Entry(b[i])
    BY DEF Chained
  <1>2. \A i \in 1..Len(b) : Into(b, i + 1) = IF Op(b[i]) = "call" THEN Body(X(b[i])) ELSE b[i]
    <2> SUFFICES ASSUME NEW i \in 1..Len(b)
                 PROVE  Into(b, i + 1) = IF Op(b[i]) = "call" THEN Body(X(b[i])) ELSE b[i]
      OBVIOUS
    <2>1. i + 1 # 1 /\ (i + 1) - 1 = i
      BY <1>1
    <2> QED
      BY <2>1 DEF Into
  <1>3. Into(b, 1) = Body(Start)
    BY DEF Into
  <1>4. code \in Programs /\ Start \in DOMAIN code
    BY CodeFacts DEF ParserInv, ParserTypeOK
  <1>5. \A i \in 1..Len(b) : Into(b, i + 1) \in Node
    BY <1>1, <1>2, <1>4, NoNodes DEF Entry
  <1>6. ASSUME NEW i \in 1..(Len(b) + 1) PROVE Into(b, i) \in Node
    <2>1. CASE i = 1
      BY <1>3, <1>4, <2>1, NoNodes
    <2>2. CASE i # 1
      <3>1. i - 1 \in 1..Len(b) /\ (i - 1) + 1 = i
        BY <1>1, <2>2
      <3> QED
        BY <1>5, <3>1
    <2> QED
      BY <2>1, <2>2
  <1> QED
    BY <1>1, <1>2, <1>3, <1>6

(* Counting the calls.                                                     *)
LEMMA CallsFacts ==
    ASSUME NEW b, NEW i \in Nat
    PROVE  /\ IsFiniteSet(CallsOf(b, i)) /\ Cardinality(CallsOf(b, i)) \in 0..i
           /\ CallsOf(b, 0) = {} /\ Cardinality(CallsOf(b, 0)) = 0
           /\ CallsOf(b, i + 1) = IF Op(b[i + 1]) = "call" THEN CallsOf(b, i) \cup {i + 1} ELSE CallsOf(b, i)
           /\ Cardinality(CallsOf(b, i + 1)) = Cardinality(CallsOf(b, i)) + (IF Op(b[i + 1]) = "call" THEN 1 ELSE 0)
           /\ \A j \in 0..i : /\ CallsOf(b, j) \subseteq CallsOf(b, i)
                              /\ Cardinality(CallsOf(b, j)) \in Nat
                              /\ Cardinality(CallsOf(b, j)) <= Cardinality(CallsOf(b, i))
  <1>1. \A j \in Nat : /\ IsFiniteSet(CallsOf(b, j)) /\ Cardinality(CallsOf(b, j)) \in Nat
                       /\ Cardinality(CallsOf(b, j)) <= j
    <2> SUFFICES ASSUME NEW j \in Nat
                 PROVE  /\ IsFiniteSet(CallsOf(b, j)) /\ Cardinality(CallsOf(b, j)) \in Nat
                        /\ Cardinality(CallsOf(b, j)) <= j
      OBVIOUS
    <2>1. IsFiniteSet(1..j) /\ Cardinality(1..j) = j
      <3>1. IsFiniteSet(1..j) /\ Cardinality(1..j) = IF 1 > j THEN 0 ELSE j - 1 + 1
        BY FS_Interval
      <3> QED
        BY <3>1
    <2>2. CallsOf(b, j) \subseteq 1..j
      BY DEF CallsOf
    <2> QED
      BY <2>1, <2>2, FS_Subset, FS_CardinalityType
  <1>2. CallsOf(b, 0) = {}
    BY DEF CallsOf
  <1>3. i + 1 \notin CallsOf(b, i)
    BY DEF CallsOf
  <1>4. CallsOf(b, i + 1) = IF Op(b[i + 1]) = "call" THEN CallsOf(b, i) \cup {i + 1} ELSE CallsOf(b, i)
    BY DEF CallsOf
  <1>5. Cardinality(CallsOf(b, i) \cup {i + 1}) = Cardinality(CallsOf(b, i)) + 1
    BY <1>1, <1>3, FS_AddElement
  <1>6. \A j \in 0..i : CallsOf(b, j) \subseteq CallsOf(b, i)
    BY DEF CallsOf
  <1>7. \A j \in 0..i : Cardinality(CallsOf(b, j)) <= Cardinality(CallsOf(b, i))
    BY <1>1, <1>6, FS_Subset
  <1> QED
    BY <1>1, <1>2, <1>4, <1>5, <1>6, <1>7, FS_EmptySet

(* The blocks that are left are what they were.                            *)
LEMMA PrefixFacts ==
    ASSUME ParserInv, NEW b, Chained(b), NEW k \in 0..Len(b)
    PROVE  /\ Chained(Outer(b, k)) /\ Len(Outer(b, k)) = k
           /\ \A i \in 1..k : Outer(b, k)[i] = b[i]
           /\ \A i \in 1..(k + 1) : Into(Outer(b, k), i) = Into(b, i)
           /\ \A i \in 0..k : CallsOf(Outer(b, k), i) = CallsOf(b, i)
  <1>0. PICK r : r = Outer(b, k) /\ r = SubSeq(b, 1, k)
    BY DEF Outer
  <1>1. b \in Seq(Node) /\ Len(b) \in Nat /\ \A i \in 1..Len(b) : b[i] \in Node
    BY IntoFacts DEF Chained
  <1>2. r \in Seq(Node) /\ Len(r) = k /\ \A i \in 1..k : r[i] = b[i]
    <2>1. \A i \in 1..k : i \in 1..Len(b) /\ b[i] \in Node
      BY <1>1
    <2>2. /\ SubSeq(b, 1, k) \in Seq(Node)
          /\ Len(SubSeq(b, 1, k)) = IF 1 <= k THEN k - 1 + 1 ELSE 0
          /\ \A i \in 1..(k - 1 + 1) : SubSeq(b, 1, k)[i] = b[1 + i - 1]
      BY <2>1, ST!SubSeqProperties
    <2>3. k - 1 + 1 = k /\ \A i \in 1..k : 1 + i - 1 = i
      BY <1>1
    <2> QED
      BY <1>0, <2>2, <2>3, <1>1
  <1>3. ASSUME NEW i \in 1..(k + 1) PROVE Into(r, i) = Into(b, i)
    <2>1. CASE i = 1
      BY <2>1 DEF Into
    <2>2. CASE i # 1
      <3>1. i - 1 \in 1..k
        BY <1>1, <2>2
      <3>2. r[i - 1] = b[i - 1]
        BY <1>2, <3>1
      <3> QED
        BY <3>2 DEF Into
    <2> QED
      BY <2>1, <2>2
  <1>4. \A i \in 0..k : CallsOf(r, i) = CallsOf(b, i)
    <2>1. \A i \in 0..k : \A j \in 1..i : r[j] = b[j]
      BY <1>1, <1>2
    <2> QED
      BY <2>1 DEF CallsOf
  <1>5. Chained(r)
    <2>1. \A i \in 1..k : i \in 1..Len(b) /\ i \in 1..(k + 1)
      BY <1>1
    <2>2. \A i \in 1..Len(b) : Entry(b[i]) /\ b[i] \in ToSet(list[Into(b, i)])
      BY DEF Chained
    <2> QED
      BY <1>2, <1>3, <2>1, <2>2 DEF Chained
  <1> QED
    BY <1>0, <1>2, <1>3, <1>4, <1>5

(* One block more.                                                         *)
LEMMA AppendFacts ==
    ASSUME ParserInv, NEW b, NEW n, Enterable(b, n)
    PROVE  /\ Chained(Entered(b, n)) /\ Len(Entered(b, n)) = Len(b) + 1
           /\ Into(Entered(b, n), Len(Entered(b, n)) + 1) = IF Op(n) = "call" THEN Body(X(n)) ELSE n
           /\ \A i \in 0..Len(b) : CallsOf(Entered(b, n), i) = CallsOf(b, i)
           /\ CallsOf(Entered(b, n), Len(Entered(b, n)))
                 = IF Op(n) = "call" THEN CallsOf(b, Len(b)) \cup {Len(b) + 1} ELSE CallsOf(b, Len(b))
           /\ Entered(b, n)[Len(b) + 1] = n /\ \A i \in 1..Len(b) : Entered(b, n)[i] = b[i]
  <1>0. Chained(b) /\ n \in Node /\ n \in ToSet(list[Into(b, Len(b) + 1)]) /\ Entry(n)
    BY DEF Enterable
  <1>1. PICK k, r : k = Len(b) /\ r = Entered(b, n)
    OBVIOUS
  <1>2. b \in Seq(Node) /\ k \in Nat
    BY <1>0, <1>1, IntoFacts DEF Chained
  <1>3. r \in Seq(Node) /\ Len(r) = k + 1 /\ r[k + 1] = n /\ \A i \in 1..k : r[i] = b[i]
    BY <1>0, <1>1, <1>2 DEF Entered
  <1>4. ASSUME NEW i \in 1..(k + 1) PROVE Into(r, i) = Into(b, i)
    <2>1. CASE i = 1
      BY <2>1 DEF Into
    <2>2. CASE i # 1
      <3>1. i - 1 \in 1..k
        BY <1>2, <2>2
      <3>2. r[i - 1] = b[i - 1]
        BY <1>3, <3>1
      <3> QED
        BY <3>2 DEF Into
    <2> QED
      BY <2>1, <2>2
  <1>5. \A i \in 0..k : CallsOf(r, i) = CallsOf(b, i)
    <2>1. \A i \in 0..k : \A j \in 1..i : r[j] = b[j]
      BY <1>2, <1>3
    <2> QED
      BY <2>1 DEF CallsOf
  <1>6. CallsOf(r, k + 1) = IF Op(n) = "call" THEN CallsOf(b, k) \cup {k + 1} ELSE CallsOf(b, k)
    <2>1. CallsOf(r, k + 1) = IF Op(r[k + 1]) = "call" THEN CallsOf(r, k) \cup {k + 1} ELSE CallsOf(r, k)
      BY <1>2, CallsFacts
    <2>2. k \in 0..k
      BY <1>2
    <2> QED
      BY <1>3, <1>5, <2>1, <2>2
  <1>7. Chained(r)
    <2>1. \A i \in 1..k : Entry(b[i]) /\ b[i] \in ToSet(list[Into(b, i)])
      BY <1>0, <1>1 DEF Chained
    <2>2. n \in ToSet(list[Into(b, k + 1)]) /\ Entry(n)
      BY <1>0, <1>1
    <2>3. \A i \in 1..(k + 1) : i \in 1..k \/ i = k + 1
      BY <1>2
    <2>4. \A i \in 1..(k + 1) : Entry(r[i]) /\ r[i] \in ToSet(list[Into(r, i)])
      BY <1>3, <1>4, <2>1, <2>2, <2>3
    <2> QED
      BY <1>3, <2>4 DEF Chained
  <1>8. Into(r, k + 2) = IF Op(n) = "call" THEN Body(X(n)) ELSE n
    <2>1. k + 2 # 1 /\ (k + 2) - 1 = k + 1
      BY <1>2
    <2> QED
      BY <1>3, <2>1 DEF Into
  <1>9. (k + 1) + 1 = k + 2
    BY <1>2
  <1> QED
    BY <1>1, <1>3, <1>5, <1>6, <1>7, <1>8, <1>9

----------------------------------------------------------------------------
(* Following the lists                                                     *)

(* An instruction that ends no list has a next one behind it.              *)
LEMMA NextFacts ==
    ASSUME ParserInv, Parsed, NEW o \in Node, NEW n \in ToSet(list[o]), Op(n) # "end"
    PROVE  Next(n) \in ToSet(list[o]) /\ Next(n) \in Node
  <1>1. /\ Good(list)
        /\ list[o] # <<>> => Op(Last(list[o])) = "end"
    BY ParsedLists
  <1>2. DOMAIN list = Node /\ list[o] \in Seq(Node) /\ Len(list[o]) \in Nat /\ n \in Node
    <2>1. DOMAIN list = Node
      BY <1>1 DEF Good
    <2> QED
      BY <1>1, <2>1, GoodFacts
  <1>3. DOMAIN list[o] = 1..Len(list[o])
    BY <1>2
  <1>4. \A m : m \in ToSet(list[o]) <=> \E i \in 1..Len(list[o]) : list[o][i] = m
    BY <1>1, GoodFacts
  <1>5. (CHOOSE m \in DOMAIN list : n \in ToSet(list[m])) = o
    <2>1. \A m \in Node : n \in ToSet(list[m]) => m = o
      BY <1>1, <1>2 DEF Good
    <2> QED
      BY <1>2, <2>1
  <1>6. PICK i \in 1..Len(list[o]) : list[o][i] = n
    BY <1>4
  <1>7. (CHOOSE j \in DOMAIN list[o] : list[o][j] = n) = i
    <2>1. ASSUME NEW j \in 1..Len(list[o]), list[o][j] = n PROVE j = i
      <3>1. i < j => list[o][i][2] < list[o][j][2]
        BY <1>1 DEF Good
      <3>2. j < i => list[o][j][2] < list[o][i][2]
        BY <1>1 DEF Good
      <3>3. n[2] \in Nat
        BY <1>2, NoNodes, ParsedLists
      <3>4. ~(i < j) /\ ~(j < i)
        BY <1>6, <2>1, <3>1, <3>2, <3>3
      <3> QED
        BY <3>4
    <2> QED
      BY <1>3, <1>6, <2>1
  <1>8. i < Len(list[o])
    <2>1. i # Len(list[o])
      <3>1. list[o] # <<>>
        BY <1>6, ST!EmptySeq, <1>2
      <3> QED
        BY <1>1, <1>6, <3>1 DEF Last
    <2> QED
      BY <1>2, <2>1
  <1>9. Next(n) = list[o][i + 1]
    BY <1>5, <1>7, <1>8 DEF Next
  <1>10. i + 1 \in 1..Len(list[o])
    BY <1>2, <1>8
  <1> QED
    BY <1>2, <1>4, <1>9, <1>10, ElementsSeq

(* The first one of a list, if there is one.                               *)
LEMMA FirstFacts ==
    ASSUME ParserInv, Parsed, NEW o \in Node
    PROVE  First(list[o]) = Null \/ (First(list[o]) \in ToSet(list[o]) /\ First(list[o]) \in Node)
  <1>1. list[o] \in Seq(Node)
    BY ParsedLists, GoodFacts
  <1>2. CASE list[o] # <<>>
    <2>1. Len(list[o]) \in Nat \ {0} /\ Head(list[o]) = list[o][1]
      BY <1>1, <1>2, ST!EmptySeq
    <2> QED
      BY <1>1, <1>2, <2>1, ElementsSeq DEF First
  <1> QED
    BY <1>2 DEF First

----------------------------------------------------------------------------
(* What nesting means for the blocks                                       *)

(* The innermost blocks are those that an instruction is in, and none of   *)
(* these is a call.                                                        *)
LEMMA DepthFacts ==
    ASSUME ParserInv, NEW b, Chained(b), NEW i \in 1..(Len(b) + 1)
    PROVE  /\ Cardinality(Within(Into(b, i))) \in 0..(i - 1)
           /\ \A l \in (i - Cardinality(Within(Into(b, i))))..(i - 1) : Op(b[l]) # "call"
  <1>1. PICK S : S = {j \in 1..(Len(b) + 1) :
                        /\ IsFiniteSet(Within(Into(b, j)))
                        /\ Cardinality(Within(Into(b, j))) \in 0..(j - 1)
                        /\ \A l \in (j - Cardinality(Within(Into(b, j))))..(j - 1) : Op(b[l]) # "call"}
    OBVIOUS
  <1>2. /\ Len(b) \in Nat /\ Into(b, 1) = Body(Start)
        /\ \A j \in 1..(Len(b) + 1) : Into(b, j) \in Node
        /\ \A j \in 1..Len(b) : /\ b[j] \in Node /\ b[j] \in ToSet(list[Into(b, j)]) /\ Entry(b[j])
                                /\ Into(b, j + 1) = IF Op(b[j]) = "call" THEN Body(X(b[j])) ELSE b[j]
    BY IntoFacts DEF Chained
  <1>3. code \in Programs /\ NestInv /\ Good(list) /\ Start \in DOMAIN code
    BY CodeFacts DEF ParserInv, ParserTypeOK, ListInv
  <1>4. ASSUME NEW j \in 1..(Len(b) + 1), NEW f \in DOMAIN code, Into(b, j) = Body(f) PROVE j \in S
    <2>1. Within(Into(b, j)) = {}
      BY <1>3, <1>4, NoNodes DEF Within
    <2>2. IsFiniteSet(Within(Into(b, j))) /\ Cardinality(Within(Into(b, j))) = 0
      BY <2>1, FS_EmptySet
    <2>3. 0 \in 0..(j - 1) /\ (j - 0)..(j - 1) = {}
      BY <1>2
    <2> QED
      BY <1>1, <2>2, <2>3
  <1>5. ASSUME NEW j \in 1..Len(b), j \in S PROVE j + 1 \in S
    <2>1. j + 1 \in 1..(Len(b) + 1)
      BY <1>2
    <2>2. CASE Op(b[j]) = "call"
      BY <1>2, <1>4, <2>1, <2>2 DEF Entry
    <2>3. CASE Op(b[j]) # "call"
      <3>1. PICK d : d = Cardinality(Within(Into(b, j)))
        OBVIOUS
      <3>2. /\ IsFiniteSet(Within(Into(b, j))) /\ d \in 0..(j - 1)
            /\ \A l \in (j - d)..(j - 1) : Op(b[l]) # "call"
        BY <1>1, <1>5, <3>1
      <3>3. Around(b[j]) = Within(Into(b, j))
        BY <1>2, <1>3 DEF NestInv
      <3>4. b[j][2] # 0 /\ b[j][2] \in Nat
        <4>1. Into(b, j)[2] < b[j][2] /\ Into(b, j)[2] \in Nat /\ b[j][2] \in Nat
          BY <1>2, <1>3, GoodFacts, NoNodes
        <4> QED
          BY <4>1
      <3>5. Within(Into(b, j + 1)) = Within(Into(b, j)) \cup {b[j][2]} /\ b[j][2] \notin Within(Into(b, j))
        <4>1. b[j][2] \notin Around(b[j])
          BY <3>4 DEF Around
        <4>2. Into(b, j + 1) = b[j]
          BY <1>2, <2>3
        <4> QED
          BY <3>3, <3>4, <4>1, <4>2 DEF Within
      <3>6. IsFiniteSet(Within(Into(b, j + 1))) /\ Cardinality(Within(Into(b, j + 1))) = d + 1
        <4>1. PICK W, x : W = Within(Into(b, j)) /\ x = b[j][2]
          OBVIOUS
        <4>2. IsFiniteSet(W) /\ x \notin W
          BY <3>2, <3>5, <4>1
        <4>3. IsFiniteSet(W \cup {x}) /\ Cardinality(W \cup {x}) = Cardinality(W) + 1
          BY <4>2, FS_AddElement
        <4> QED
          BY <3>1, <3>5, <4>1, <4>3
      <3>7. d + 1 \in 0..((j + 1) - 1)
        BY <3>2
      <3>8. \A l \in ((j + 1) - (d + 1))..((j + 1) - 1) : Op(b[l]) # "call"
        <4>1. \A l \in ((j + 1) - (d + 1))..((j + 1) - 1) : l \in (j - d)..(j - 1) \/ l = j
          BY <3>2
        <4> QED
          BY <2>3, <3>2, <4>1
      <3> QED
        BY <1>1, <2>1, <3>6, <3>7, <3>8
    <2> QED
      BY <2>2, <2>3
  <1>6. 1 \in S
    <2>1. 1 \in 1..(Len(b) + 1)
      BY <1>2
    <2> QED
      BY <1>2, <1>3, <1>4, <2>1
  <1>7. i \in S
    BY <1>2, <1>5, <1>6, OneByOne
  <1> QED
    BY <1>1, <1>7

(* What comes after a block without a call between them is behind it.      *)
LEMMA AscendingFacts ==
    ASSUME ParserInv, NEW b, Chained(b), NEW i \in 1..(Len(b) + 1),
           NEW k \in 1..(i - 1), \A l \in k..(i - 1) : Op(b[l]) # "call"
    PROVE  b[k][2] <= Into(b, i)[2]
  <1>1. PICK S : S = {j \in 1..(Len(b) + 1) :
                        j > k /\ (\A l \in k..(j - 1) : Op(b[l]) # "call") => b[k][2] <= Into(b, j)[2]}
    OBVIOUS
  <1>2. /\ Len(b) \in Nat
        /\ \A j \in 1..(Len(b) + 1) : Into(b, j) \in Node
        /\ \A j \in 1..Len(b) : /\ b[j] \in Node /\ b[j] \in ToSet(list[Into(b, j)])
                                /\ Into(b, j + 1) = IF Op(b[j]) = "call" THEN Body(X(b[j])) ELSE b[j]
    BY IntoFacts DEF Chained
  <1>3. code \in Programs /\ Good(list)
    BY DEF ParserInv, ParserTypeOK, ListInv
  <1>4. 1 \in S
    BY <1>1, <1>2
  <1>5. ASSUME NEW j \in 1..Len(b), j \in S PROVE j + 1 \in S
    <2>1. j + 1 \in 1..(Len(b) + 1) /\ j \in Nat /\ k \in Nat /\ k \in 1..Len(b)
      BY <1>2
    <2>2. SUFFICES ASSUME j + 1 > k, \A l \in k..((j + 1) - 1) : Op(b[l]) # "call"
                   PROVE  b[k][2] <= Into(b, j + 1)[2]
      BY <1>1, <2>1
    <2>3. j \in k..((j + 1) - 1) /\ \A l \in k..(j - 1) : l \in k..((j + 1) - 1)
      BY <2>1, <2>2
    <2>4. Into(b, j + 1) = b[j]
      BY <1>2, <2>2, <2>3
    <2>5. b[k][2] \in Nat /\ b[j][2] \in Nat /\ Into(b, j)[2] \in Nat
      BY <1>2, <1>3, <2>1, NoNodes
    <2>6. CASE j = k
      BY <2>4, <2>5, <2>6
    <2>7. CASE j # k
      <3>1. j > k /\ \A l \in k..(j - 1) : Op(b[l]) # "call"
        BY <2>1, <2>2, <2>3, <2>7
      <3>2. b[k][2] <= Into(b, j)[2]
        BY <1>1, <1>5, <3>1
      <3>3. Into(b, j)[2] < b[j][2]
        BY <1>2, <1>3, GoodFacts
      <3> QED
        BY <2>4, <2>5, <3>2, <3>3
    <2> QED
      BY <2>6, <2>7
  <1>6. i \in S
    BY <1>2, <1>4, <1>5, OneByOne
  <1> QED
    BY <1>1, <1>2, <1>6

(* The blocks between two calls are in the function of the first.          *)
LEMMA FunctionFacts ==
    ASSUME ParserInv, NEW b, Chained(b), NEW c, Framed(c, b), NEW i \in 1..(Len(b) + 1)
    PROVE  Into(b, i)[1] = c[1 + Cardinality(CallsOf(b, i - 1))]
  <1>1. PICK S : S = {j \in 1..(Len(b) + 1) : Into(b, j)[1] = c[1 + Cardinality(CallsOf(b, j - 1))]}
    OBVIOUS
  <1>2. /\ Len(b) \in Nat /\ Into(b, 1) = Body(Start)
        /\ \A j \in 1..(Len(b) + 1) : Into(b, j) \in Node
        /\ \A j \in 1..Len(b) : /\ b[j] \in Node /\ b[j] \in ToSet(list[Into(b, j)]) /\ Entry(b[j])
                                /\ Into(b, j + 1) = IF Op(b[j]) = "call" THEN Body(X(b[j])) ELSE b[j]
    BY IntoFacts DEF Chained
  <1>3. code \in Programs /\ Good(list) /\ Start \in DOMAIN code
    BY CodeFacts DEF ParserInv, ParserTypeOK, ListInv
  <1>4. 1 \in S
    <2>1. Cardinality(CallsOf(b, 1 - 1)) = 0
      <3>1. 0 \in Nat /\ 1 - 1 = 0
        OBVIOUS
      <3>2. Cardinality(CallsOf(b, 0)) = 0
        BY <3>1, CallsFacts
      <3> QED
        BY <3>1, <3>2
    <2>2. Into(b, 1)[1] = Start
      BY <1>2, <1>3, NoNodes
    <2>3. 1 \in 1..(Len(b) + 1)
      BY <1>2
    <2> QED
      BY <1>1, <2>1, <2>2, <2>3 DEF Framed
  <1>5. ASSUME NEW j \in 1..Len(b), j \in S PROVE j + 1 \in S
    <2>1. j + 1 \in 1..(Len(b) + 1) /\ (j + 1) - 1 = j
      BY <1>2
    <2>2. PICK m \in Nat : m + 1 = j /\ m = j - 1
      <3>1. j - 1 \in Nat /\ (j - 1) + 1 = j
        BY <1>2
      <3> QED
        BY <3>1
    <2>3. CASE Op(b[j]) = "call"
      <3>1. j \in CallsOf(b, Len(b))
        BY <2>3 DEF CallsOf
      <3>2. c[1 + Cardinality(CallsOf(b, j))] = X(b[j])
        BY <3>1 DEF Framed
      <3>3. Into(b, j + 1)[1] = X(b[j])
        BY <1>2, <1>3, <2>3, NoNodes DEF Entry
      <3> QED
        BY <1>1, <2>1, <3>2, <3>3
    <2>4. CASE Op(b[j]) # "call"
      <3>1. CallsOf(b, m + 1) = CallsOf(b, m)
        BY <2>2, <2>4, CallsFacts
      <3>2. Into(b, j + 1) = b[j] /\ b[j][1] = Into(b, j)[1]
        BY <1>2, <1>3, <2>4, GoodFacts
      <3>3. Into(b, j)[1] = c[1 + Cardinality(CallsOf(b, j - 1))]
        BY <1>1, <1>5
      <3> QED
        BY <1>1, <2>1, <2>2, <3>1, <3>2, <3>3
    <2> QED
      BY <2>3, <2>4
  <1>6. i \in S
    BY <1>2, <1>4, <1>5, OneByOne
  <1> QED
    BY <1>1, <1>6

----------------------------------------------------------------------------
(* Functions that lead to others                                           *)

(* What is called is reached, and what that calls.                         *)
LEMMA ReachedFacts ==
    ASSUME NEW f \in DOMAIN code
    PROVE  /\ Callees(code, f) \subseteq Reached(code, f)
           /\ \A g \in Reached(code, f) : g \in DOMAIN code /\ Callees(code, g) \subseteq Reached(code, f)
  <1>1. \A g \in Reached(code, f) : g \in DOMAIN code
    BY DEF Reached
  <1>2. \A g : Callees(code, g) \subseteq DOMAIN code
    BY DEF Callees
  <1>3. \A g \in Reached(code, f) : \A S \in SUBSET DOMAIN code :
           Callees(code, f) \subseteq S /\ (\A h \in S : Callees(code, h) \subseteq S) => g \in S
    BY DEF Reached
  <1>4. ASSUME NEW g \in Callees(code, f) PROVE g \in Reached(code, f)
    BY <1>2, <1>4 DEF Reached
  <1>5. ASSUME NEW g \in Reached(code, f), NEW h \in Callees(code, g) PROVE h \in Reached(code, f)
    <2>1. ASSUME NEW S \in SUBSET DOMAIN code, Callees(code, f) \subseteq S,
                 \A e \in S : Callees(code, e) \subseteq S
          PROVE  h \in S
      <3>1. g \in S
        BY <1>3, <2>1
      <3> QED
        BY <1>5, <2>1, <3>1
    <2>2. h \in DOMAIN code
      BY <1>2, <1>5
    <2> QED
      BY <2>1, <2>2 DEF Reached
  <1> QED
    BY <1>1, <1>4, <1>5

(* A call is of one of the callees.                                        *)
LEMMA CalleeFacts ==
    ASSUME code \in Programs, NEW n \in Node, n[2] # 0, Op(n) = "call"
    PROVE  /\ X(n) \in DOMAIN code \cup {0}
           /\ X(n) # 0 => X(n) \in Callees(code, n[1])
  <1>1. n[1] \in DOMAIN code /\ n[2] \in DOMAIN code[n[1]] /\ code[n[1]] \in Seq(Instruction)
    <2>1. n[1] \in DOMAIN code /\ n[2] \in 0..Len(code[n[1]])
      BY NodeFacts
    <2>2. /\ code[n[1]] \in Seq(Instruction) /\ Len(code[n[1]]) \in Nat
          /\ DOMAIN code[n[1]] = 1..Len(code[n[1]])
      BY <2>1, CodeFacts
    <2> QED
      BY <2>1, <2>2
  <1>2. PICK r : r = code[n[1]][n[2]]
    OBVIOUS
  <1>3. r \in Instruction
    BY <1>1, <1>2
  <1>4. r.op = "call" /\ r.x = X(n)
    BY <1>2 DEF Op, X
  <1>5. X(n) \in DOMAIN code \cup {0}
    <2>1. r.op = "call" => r.x \in DOMAIN code \cup {0}
      BY ONLY code \in Programs, <1>1, <1>2, ProgramAssumption
    <2> QED
      BY <1>4, <2>1
  <1>6. r = [op |-> "call", x |-> X(n)]
    BY <1>3, <1>4 DEF Instruction
  <1> QED
    BY <1>1, <1>2, <1>5, <1>6 DEF Callees

(* If a function is among the frames twice, it calls itself.               *)
LEMMA TwiceIsRecursive ==
    ASSUME NEW c \in Seq(DOMAIN code), Led(c), NEW k \in 1..Len(c), NEW l \in 1..Len(c), k < l, c[k] = c[l]
    PROVE  Recursive(code)
  <1>1. c[k] \in DOMAIN code /\ c[l] \in Reached(code, c[k])
    BY DEF Led
  <1> QED
    BY <1>1 DEF Recursive

----------------------------------------------------------------------------
(* The moves of the interpreter                                            *)

(* Where the next instruction is.                                          *)
LEMMA HereIs ==
    ASSUME ParserInv, NEW p, NEW b, NEW c, RunOK(p, b, c, "no"), p # Null
    PROVE  /\ code \in Programs /\ Good(list) /\ Parsed /\ Chained(b) /\ Len(b) \in Nat
           /\ c \in Seq(DOMAIN code) /\ Len(c) >= 1 + Cardinality(CallsOf(b, Len(b)))
           /\ Into(b, Len(b) + 1) \in Node /\ p \in ToSet(list[Into(b, Len(b) + 1)])
           /\ p \in Node /\ p[2] # 0 /\ p[1] = Into(b, Len(b) + 1)[1]
           /\ Into(b, Len(b) + 1)[2] < p[2]
           /\ Framed(c, b) /\ Led(c)
  <1>1. /\ Parsed /\ Chained(b) /\ c \in Seq(DOMAIN code) /\ Len(c) >= 1 + Cardinality(CallsOf(b, Len(b)))
        /\ p \in ToSet(list[Into(b, Len(b) + 1)])
    BY DEF RunOK, PathOK
  <1>2. Framed(c, b) /\ Led(c)
    BY DEF RunOK, FrameOK
  <1>3. Len(b) \in Nat /\ Into(b, Len(b) + 1) \in Node
    <2>1. Len(b) \in Nat /\ \A i \in 1..(Len(b) + 1) : Into(b, i) \in Node
      BY <1>1, IntoFacts
    <2>2. Len(b) + 1 \in 1..(Len(b) + 1)
      BY <2>1
    <2> QED
      BY <2>1, <2>2
  <1>4. code \in Programs /\ Good(list)
    BY <1>1, ParsedLists
  <1>5. p \in Node /\ p[1] = Into(b, Len(b) + 1)[1] /\ Into(b, Len(b) + 1)[2] < p[2]
    BY <1>1, <1>3, <1>4, GoodFacts
  <1>6. Into(b, Len(b) + 1)[2] \in Nat /\ p[2] \in Nat
    BY <1>3, <1>4, <1>5, NoNodes
  <1> QED
    BY <1>1, <1>2, <1>3, <1>4, <1>5, <1>6

(* On to the next instruction of the list.                                 *)
LEMMA MoveNext ==
    ASSUME ParserInv, NEW p, NEW b, NEW c, RunOK(p, b, c, "no"), p # Null, Op(p) # "end"
    PROVE  RunOK(Next(p), b, c, "no")
  <1>1. Next(p) \in ToSet(list[Into(b, Len(b) + 1)]) /\ Next(p) \in Node
    BY HereIs, NextFacts
  <1> QED
    BY <1>1 DEF RunOK, PathOK, FrameOK, BreakOK

(* Nothing more is executed.                                               *)
LEMMA MoveNowhere ==
    ASSUME ParserInv, NEW p, NEW b, NEW c, RunOK(p, b, c, "no")
    PROVE  RunOK(Null, b, c, "no") /\ RunOK(p, b, c, "task_exit")
  BY DEF RunOK, PathOK, FrameOK, BreakOK, Stops

(* Into a block.                                                           *)
LEMMA MoveEnter ==
    ASSUME ParserInv, NEW p, NEW b, NEW c, RunOK(p, b, c, "no"), p # Null, Op(p) \in Openers
    PROVE  RunOK(First(list[p]), Entered(b, p), c, "no") /\ RunOK(Null, Entered(b, p), c, "no")
  <1>1. PICK r : r = Entered(b, p)
    OBVIOUS
  <1>2. Op(p) # "call"
    BY DEF Openers
  <1>3. p \in Node /\ Parsed /\ Len(b) \in Nat /\ c \in Seq(DOMAIN code)
    BY HereIs
  <1>4. /\ Chained(r) /\ Len(r) = Len(b) + 1 /\ Into(r, Len(r) + 1) = p
        /\ \A i \in 0..Len(b) : CallsOf(r, i) = CallsOf(b, i)
        /\ CallsOf(r, Len(r)) = CallsOf(b, Len(b))
        /\ \A i \in 1..Len(b) : r[i] = b[i]
    <2>1. Entry(p)
      BY <1>2 DEF Entry
    <2>2. Enterable(b, p)
      BY <2>1, HereIs DEF Enterable
    <2>3. /\ Chained(r) /\ Len(r) = Len(b) + 1
          /\ Into(r, Len(r) + 1) = IF Op(p) = "call" THEN Body(X(p)) ELSE p
          /\ \A i \in 0..Len(b) : CallsOf(r, i) = CallsOf(b, i)
          /\ CallsOf(r, Len(r)) = IF Op(p) = "call" THEN CallsOf(b, Len(b)) \cup {Len(b) + 1} ELSE CallsOf(b, Len(b))
          /\ \A i \in 1..Len(b) : r[i] = b[i]
      BY <1>1, <2>2, AppendFacts
    <2> QED
      BY <1>2, <2>3
  <1>5. First(list[p]) = Null \/ (First(list[p]) \in ToSet(list[p]) /\ First(list[p]) \in Node)
    BY <1>3, FirstFacts
  <1>6. Framed(c, r) /\ Led(c)
    <2>1. Framed(c, b) /\ Led(c)
      BY HereIs
    <2>2. \A i \in CallsOf(b, Len(b)) : i \in 0..Len(b) /\ i \in 1..Len(b)
      BY <1>3 DEF CallsOf
    <2>3. \A i \in CallsOf(r, Len(r)) : c[1 + Cardinality(CallsOf(r, i))] = X(r[i])
      BY <1>4, <2>1, <2>2 DEF Framed
    <2> QED
      BY <1>4, <2>1, <2>3 DEF Framed
  <1>7. FrameOK(r, c, "no")
    BY <1>6 DEF FrameOK
  <1>8. Len(c) >= 1 + Cardinality(CallsOf(r, Len(r)))
    BY <1>4, HereIs
  <1>9. ASSUME NEW q, q = Null \/ (q \in ToSet(list[p]) /\ q \in Node) PROVE PathOK(q, r, c, "no")
    BY <1>3, <1>4, <1>8, <1>9 DEF PathOK, Stops
  <1>10. BreakOK("no")
    BY DEF BreakOK
  <1> QED
    BY <1>1, <1>5, <1>7, <1>9, <1>10 DEF RunOK

(* Out of blocks of which none is a call.                                  *)
LEMMA MoveOut ==
    ASSUME ParserInv, NEW p, NEW b, NEW c, RunOK(p, b, c, "no"), p # Null,
           NEW k \in 0..Len(b), \A l \in (k + 1)..Len(b) : Op(b[l]) # "call",
           NEW q, q = Null \/ (q \in Node /\ q \in ToSet(list[Into(b, k + 1)]))
    PROVE  RunOK(q, Outer(b, k), c, "no")
  <1>1. PICK r, n : r = Outer(b, k) /\ n = Len(b)
    OBVIOUS
  <1>2. /\ Parsed /\ Chained(b) /\ n \in Nat /\ c \in Seq(DOMAIN code)
        /\ Len(c) >= 1 + Cardinality(CallsOf(b, n)) /\ k \in Nat /\ k \in 0..n /\ n \in 0..n
    BY <1>1, HereIs
  <1>3. /\ Chained(r) /\ Len(r) = k
        /\ \A i \in 1..k : r[i] = b[i]
        /\ \A i \in 1..(k + 1) : Into(r, i) = Into(b, i)
        /\ \A i \in 0..k : CallsOf(r, i) = CallsOf(b, i)
    BY <1>1, <1>2, PrefixFacts
  <1>4. /\ Cardinality(CallsOf(b, k)) \in Nat /\ Cardinality(CallsOf(b, n)) \in Nat
        /\ Cardinality(CallsOf(b, k)) <= Cardinality(CallsOf(b, n))
    BY <1>2, CallsFacts
  <1>5. CallsOf(r, k) = CallsOf(b, k) /\ Into(r, k + 1) = Into(b, k + 1)
    BY <1>2, <1>3
  <1>6. PathOK(q, r, c, "no")
    <2>1. Len(c) >= 1 + Cardinality(CallsOf(r, Len(r)))
      <3>1. Len(c) \in Nat
        BY <1>2
      <3> QED
        BY <1>2, <1>3, <1>4, <1>5, <3>1
    <2>2. q # Null => q \in ToSet(list[Into(r, Len(r) + 1)])
      BY <1>3, <1>5
    <2> QED
      BY <1>2, <1>3, <2>1, <2>2 DEF PathOK, Stops
  <1>7. Framed(c, r) /\ Led(c)
    <2>1. Framed(c, b) /\ Led(c)
      BY HereIs
    <2>2. CallsOf(b, n) = CallsOf(b, k)
      <3>1. \A l \in (k + 1)..n : Op(b[l]) # "call"
        BY <1>1
      <3> QED
        BY <1>2, <3>1 DEF CallsOf
    <2>3. \A i \in CallsOf(b, k) : i \in 0..k /\ i \in 1..k
      BY <1>2 DEF CallsOf
    <2>4. \A i \in CallsOf(r, k) : c[1 + Cardinality(CallsOf(r, i))] = X(r[i])
      BY <1>1, <1>3, <1>5, <2>1, <2>2, <2>3 DEF Framed
    <2> QED
      BY <1>1, <1>3, <1>5, <2>1, <2>2, <2>4 DEF Framed
  <1> QED
    BY <1>1, <1>6, <1>7 DEF RunOK, FrameOK, BreakOK

(* Out of the innermost block, and of the frame if that is a call.         *)
LEMMA MoveEnd ==
    ASSUME ParserInv, NEW p, NEW b, NEW c, RunOK(p, b, c, "no"), p # Null, b # <<>>
    PROVE  RunOK(Next(Last(b)), Front(b), IF Op(Last(b)) = "call" THEN Front(c) ELSE c, "no")
  <1>1. /\ Parsed /\ Chained(b) /\ b \in Seq(Node) /\ c \in Seq(DOMAIN code)
        /\ Len(c) >= 1 + Cardinality(CallsOf(b, Len(b)))
    BY HereIs DEF Chained
  <1>2. PICK n \in Nat : n + 1 = Len(b) /\ n = Len(b) - 1
    <2>1. Len(b) \in Nat \ {0}
      BY <1>1, ST!EmptySeq
    <2>2. Len(b) - 1 \in Nat /\ (Len(b) - 1) + 1 = Len(b)
      BY <2>1
    <2> QED
      BY <2>2
  <1>3. PICK r, q : r = Outer(b, n) /\ q = Last(b)
    OBVIOUS
  <1>4. Front(b) = r
    BY <1>2, <1>3 DEF Front, Outer
  <1>5. q = b[n + 1] /\ q \in ToSet(list[Into(b, n + 1)]) /\ Entry(q)
    <2>1. Len(b) \in 1..Len(b)
      BY <1>2
    <2> QED
      BY <1>1, <1>2, <1>3, <2>1 DEF Last, Chained
  <1>6. Into(b, n + 1) \in Node /\ n \in 0..Len(b) /\ n + 1 \in 1..(Len(b) + 1)
    <2>1. n \in 0..Len(b) /\ n + 1 \in 1..(Len(b) + 1)
      BY <1>2
    <2> QED
      BY <1>1, <2>1, IntoFacts
  <1>7. Next(q) \in Node /\ Next(q) \in ToSet(list[Into(b, n + 1)])
    <2>1. Op(q) # "end"
      BY <1>5 DEF Entry, Openers
    <2> QED
      BY <1>1, <1>5, <1>6, <2>1, NextFacts
  <1>8. CASE Op(q) # "call"
    <2>1. \A l \in (n + 1)..Len(b) : Op(b[l]) # "call"
      BY <1>2, <1>5, <1>8
    <2>2. RunOK(Next(q), r, c, "no")
      BY <1>3, <1>6, <1>7, <2>1, MoveOut
    <2> QED
      BY <1>3, <1>4, <1>8, <2>2
  <1>9. CASE Op(q) = "call"
    <2>1. /\ Chained(r) /\ Len(r) = n
          /\ \A i \in 1..n : r[i] = b[i]
          /\ \A i \in 1..(n + 1) : Into(r, i) = Into(b, i)
          /\ \A i \in 0..n : CallsOf(r, i) = CallsOf(b, i)
      BY <1>1, <1>3, <1>6, PrefixFacts
    <2>2. PICK k \in Nat : k = Cardinality(CallsOf(b, n))
      <3>1. Cardinality(CallsOf(b, n)) \in 0..n
        BY CallsFacts
      <3> QED
        BY <3>1
    <2>3. /\ Cardinality(CallsOf(b, n + 1)) = k + 1
          /\ CallsOf(b, n + 1) = CallsOf(b, n) \cup {n + 1}
          /\ \A j \in 0..n : Cardinality(CallsOf(b, j)) \in Nat /\ Cardinality(CallsOf(b, j)) <= k
      BY <1>5, <1>9, <2>2, CallsFacts
    <2>4. Len(c) \in Nat /\ Len(c) >= k + 2 /\ c # <<>>
      <3>1. Len(c) \in Nat /\ Len(c) >= k + 2
        BY <1>1, <1>2, <2>3
      <3> QED
        BY <1>1, <3>1, ST!EmptySeq
    <2>5. PICK d : d = Front(c)
      OBVIOUS
    <2>6. /\ d \in Seq(DOMAIN code) /\ Len(d) = Len(c) - 1
          /\ \A i \in 1..(Len(c) - 1) : d[i] = c[i]
      BY <1>1, <2>4, <2>5, FrontSeq
    <2>7. CallsOf(r, n) = CallsOf(b, n) /\ Into(r, n + 1) = Into(b, n + 1)
      BY <1>2, <2>1
    <2>8. PathOK(Next(q), r, d, "no")
      <3>1. Len(d) >= 1 + Cardinality(CallsOf(r, Len(r)))
        BY <2>1, <2>2, <2>4, <2>6, <2>7
      <3>2. Next(q) \in ToSet(list[Into(r, Len(r) + 1)])
        BY <1>7, <2>1, <2>7
      <3> QED
        BY <1>1, <1>7, <2>1, <2>6, <3>1, <3>2 DEF PathOK, Stops
    <2>9. Framed(d, r) /\ Led(d)
      <3>1. Framed(c, b) /\ Led(c)
        BY HereIs
      <3>2. Len(c) = k + 2 /\ c[1] = Start /\ Len(d) = 1 + k /\ d[1] = Start
        <4>1. Len(c) = k + 2 /\ c[1] = Start
          BY <1>2, <2>3, <3>1 DEF Framed
        <4> QED
          BY <2>4, <2>6, <4>1
      <3>3. ASSUME NEW i \in CallsOf(b, n)
            PROVE  d[1 + Cardinality(CallsOf(b, i))] = X(b[i]) /\ i \in 0..n /\ i \in 1..n
        <4>1. i \in 0..n /\ i \in 1..n
          BY DEF CallsOf
        <4>2. c[1 + Cardinality(CallsOf(b, i))] = X(b[i])
          BY <1>2, <2>3, <3>1 DEF Framed
        <4>3. 1 + Cardinality(CallsOf(b, i)) \in 1..(Len(c) - 1)
          BY <2>3, <3>2, <4>1
        <4> QED
          BY <2>6, <4>1, <4>2, <4>3
      <3>4. \A i \in CallsOf(r, n) : d[1 + Cardinality(CallsOf(r, i))] = X(r[i])
        BY <2>1, <2>7, <3>3
      <3>5. Framed(d, r)
        BY <2>1, <2>2, <2>6, <2>7, <3>2, <3>4 DEF Framed
      <3>6. Led(d)
        <4>1. \A i \in 1..Len(d) : i \in 1..Len(c) /\ d[i] = c[i]
          BY <2>4, <2>6
        <4> QED
          BY <3>1, <4>1 DEF Led
      <3> QED
        BY <3>5, <3>6
    <2>10. RunOK(Next(q), r, d, "no")
      BY <2>8, <2>9 DEF RunOK, FrameOK, BreakOK
    <2> QED
      BY <1>3, <1>4, <1>9, <2>5, <2>10
  <1> QED
    BY <1>8, <1>9

(* Into a function of the module.                                          *)
LEMMA MoveCall ==
    ASSUME ParserInv, NEW p, NEW b, NEW c, RunOK(p, b, c, "no"), p # Null, Op(p) = "call", X(p) # 0
    PROVE  RunOK(First(list[Body(X(p))]), Entered(b, p), Append(c, X(p)), "no")
  <1>1. PICK r, n, f, d : r = Entered(b, p) /\ n = Len(b) /\ f = X(p) /\ d = Append(c, f)
    OBVIOUS
  <1>2. /\ Parsed /\ Chained(b) /\ n \in Nat /\ c \in Seq(DOMAIN code)
        /\ Len(c) >= 1 + Cardinality(CallsOf(b, n))
        /\ code \in Programs /\ p \in Node /\ p[2] # 0 /\ p[1] = Into(b, n + 1)[1]
    BY <1>1, HereIs
  <1>3. f \in DOMAIN code /\ f \in Callees(code, p[1])
    BY <1>1, <1>2, CalleeFacts
  <1>4. /\ Chained(r) /\ Len(r) = n + 1 /\ Into(r, Len(r) + 1) = Body(f)
        /\ \A i \in 0..n : CallsOf(r, i) = CallsOf(b, i)
        /\ CallsOf(r, n + 1) = CallsOf(b, n) \cup {n + 1}
        /\ r[n + 1] = p /\ \A i \in 1..n : r[i] = b[i]
    <2>1. Enterable(b, p)
      BY <1>1, <1>3, HereIs DEF Enterable, Entry
    <2> QED
      BY <1>1, <2>1, AppendFacts
  <1>5. First(list[Body(f)]) = Null
           \/ (First(list[Body(f)]) \in ToSet(list[Body(f)]) /\ First(list[Body(f)]) \in Node)
    <2>1. Body(f) \in Node
      BY <1>2, <1>3, NoNodes
    <2> QED
      BY <1>2, <2>1, FirstFacts
  <1>6. PICK k \in Nat : k = Cardinality(CallsOf(b, n))
    <2>1. Cardinality(CallsOf(b, n)) \in 0..n
      BY <1>2, CallsFacts
    <2> QED
      BY <2>1
  <1>7. /\ Cardinality(CallsOf(r, n + 1)) = k + 1
        /\ \A j \in 0..n : Cardinality(CallsOf(b, j)) \in Nat /\ Cardinality(CallsOf(b, j)) <= k
    <2>1. IsFiniteSet(CallsOf(b, n)) /\ \A j \in 0..n : Cardinality(CallsOf(b, j)) \in Nat /\ Cardinality(CallsOf(b, j)) <= k
      BY <1>2, <1>6, CallsFacts
    <2>2. PICK S : S = CallsOf(b, n)
      OBVIOUS
    <2>3. n + 1 \notin S
      BY <1>2, <2>2 DEF CallsOf
    <2>4. Cardinality(S \cup {n + 1}) = Cardinality(S) + 1
      BY <2>1, <2>2, <2>3, FS_AddElement
    <2> QED
      BY <1>4, <1>6, <2>1, <2>2, <2>4
  <1>8. /\ d \in Seq(DOMAIN code) /\ Len(c) \in Nat /\ Len(d) = Len(c) + 1
        /\ d[Len(c) + 1] = f /\ \A i \in 1..Len(c) : d[i] = c[i]
    BY <1>1, <1>2, <1>3
  <1>9. PathOK(First(list[Body(f)]), r, d, "no")
    <2>1. Len(d) >= 1 + Cardinality(CallsOf(r, Len(r)))
      BY <1>2, <1>4, <1>6, <1>7, <1>8
    <2> QED
      BY <1>2, <1>4, <1>5, <1>8, <2>1 DEF PathOK, Stops
  <1>10. Framed(d, r) /\ Led(d)
    <2>1. Framed(c, b) /\ Led(c)
      BY HereIs
    <2>2. Len(c) = k + 1 /\ d[1] = Start
      <3>1. Len(c) = k + 1 /\ c[1] = Start
        BY <1>1, <1>6, <1>8, <2>1 DEF Framed
      <3> QED
        BY <1>8, <3>1
    <2>3. ASSUME NEW i \in CallsOf(b, n)
          PROVE  d[1 + Cardinality(CallsOf(b, i))] = X(b[i]) /\ i \in 0..n /\ i \in 1..n
      <3>1. i \in 0..n /\ i \in 1..n
        BY DEF CallsOf
      <3>2. c[1 + Cardinality(CallsOf(b, i))] = X(b[i])
        BY <1>1, <2>1 DEF Framed
      <3>3. 1 + Cardinality(CallsOf(b, i)) \in 1..Len(c)
        BY <1>7, <2>2, <3>1
      <3> QED
        BY <1>8, <3>1, <3>2, <3>3
    <2>4. \A i \in CallsOf(r, n + 1) : d[1 + Cardinality(CallsOf(r, i))] = X(r[i])
      <3>1. \A i \in CallsOf(b, n) : d[1 + Cardinality(CallsOf(r, i))] = X(r[i])
        BY <1>4, <2>3
      <3>2. d[1 + Cardinality(CallsOf(r, n + 1))] = X(r[n + 1])
        <4>1. 1 + (k + 1) = Len(c) + 1
          BY <2>2
        <4> QED
          BY <1>1, <1>4, <1>7, <1>8, <4>1
      <3> QED
        BY <1>4, <3>1, <3>2
    <2>5. Framed(d, r)
      BY <1>4, <1>7, <1>8, <2>2, <2>4 DEF Framed
    <2>6. Led(d)
      <3>1. p[1] = c[Len(c)]
        <4>1. n + 1 \in 1..(Len(b) + 1) /\ (n + 1) - 1 = n
          BY <1>1, <1>2
        <4>2. Into(b, n + 1)[1] = c[1 + Cardinality(CallsOf(b, n))]
          BY <1>2, <2>1, <4>1, FunctionFacts
        <4>3. 1 + k = Len(c)
          BY <2>2
        <4> QED
          BY <1>2, <1>6, <4>2, <4>3
      <3>2. ASSUME NEW j \in 1..Len(c) PROVE f \in Reached(code, c[j])
        <4>1. c[j] \in DOMAIN code
          BY <1>2
        <4>2. CASE j = Len(c)
          BY <1>3, <3>1, <4>1, <4>2, ReachedFacts
        <4>3. CASE j # Len(c)
          <5>1. j < Len(c) /\ Len(c) \in 1..Len(c)
            BY <1>8, <4>3
          <5>2. c[Len(c)] \in Reached(code, c[j])
            BY <2>1, <5>1 DEF Led
          <5> QED
            BY <1>3, <3>1, <4>1, <5>2, ReachedFacts
        <4> QED
          BY <4>2, <4>3
      <3>3. ASSUME NEW i \in 1..Len(d), NEW j \in 1..Len(d), i < j PROVE d[j] \in Reached(code, d[i])
        <4>1. i \in 1..Len(c) /\ (j \in 1..Len(c) \/ j = Len(c) + 1)
          BY <1>8, <3>3
        <4>2. CASE j \in 1..Len(c)
          BY <1>8, <2>1, <3>3, <4>1, <4>2 DEF Led
        <4>3. CASE j = Len(c) + 1
          BY <1>8, <3>2, <4>1, <4>3
        <4> QED
          BY <4>1, <4>2, <4>3
      <3> QED
        BY <3>3 DEF Led
    <2> QED
      BY <2>5, <2>6
  <1> QED
    BY <1>1, <1>9, <1>10 DEF RunOK, FrameOK, BreakOK

(* A block or a function is met that has not been left.                    *)
LEMMA MoveRelink ==
    ASSUME ParserInv, NEW p, NEW b, NEW c, RunOK(p, b, c, "no"), p # Null,
           p \in ToSet(b) \/ (Op(p) = "call" /\ X(p) # 0 /\ X(p) \in ToSet(c))
    PROVE  RunOK(p, b, c, "relinked")
  <1>1. PICK n : n = Len(b)
    OBVIOUS
  <1>2. /\ Parsed /\ Chained(b) /\ b \in Seq(Node) /\ n \in Nat /\ c \in Seq(DOMAIN code)
        /\ code \in Programs /\ Good(list) /\ p \in Node /\ p[2] # 0 /\ p[1] = Into(b, n + 1)[1]
        /\ Into(b, n + 1) \in Node /\ Into(b, n + 1)[2] < p[2]
        /\ n + 1 \in 1..(Len(b) + 1) /\ (n + 1) - 1 = n
    <2>1. n + 1 \in 1..(Len(b) + 1) /\ (n + 1) - 1 = n
      BY <1>1, HereIs
    <2> QED
      BY <1>1, <2>1, HereIs DEF Chained
  <1>3. Recursive(code)
    <2>1. /\ Framed(c, b) /\ Led(c) /\ Len(c) = 1 + Cardinality(CallsOf(b, n))
          /\ p[1] = c[1 + Cardinality(CallsOf(b, n))]
      <3>1. Framed(c, b) /\ Led(c)
        BY HereIs
      <3>2. Into(b, n + 1)[1] = c[1 + Cardinality(CallsOf(b, (n + 1) - 1))]
        BY <1>2, <3>1, FunctionFacts
      <3> QED
        BY <1>1, <1>2, <3>1, <3>2 DEF Framed
    <2>2. CASE p \in ToSet(b)
      <3>1. PICK k \in 1..n : b[k] = p
        BY <1>1, <1>2, <2>2, ElementsSeq
      <3>2. PICK l \in k..n : Op(b[l]) = "call"
        <4>1. ASSUME \A l \in k..n : Op(b[l]) # "call" PROVE FALSE
          <5>1. k \in 1..((n + 1) - 1) /\ \A l \in k..((n + 1) - 1) : Op(b[l]) # "call"
            BY <1>2, <4>1
          <5>2. b[k][2] <= Into(b, n + 1)[2]
            BY <1>2, <5>1, AscendingFacts
          <5>3. p[2] \in Nat /\ Into(b, n + 1)[2] \in Nat
            BY <1>2, NoNodes
          <5> QED
            BY <1>2, <3>1, <5>2, <5>3
        <4> QED
          BY <4>1
      <3>3. PICK i \in Nat : i + 1 = k /\ i = k - 1
        <4>1. k - 1 \in Nat /\ (k - 1) + 1 = k
          OBVIOUS
        <4> QED
          BY <4>1
      <3>4. PICK m \in Nat : m + 1 = l
        <4>1. l - 1 \in Nat /\ (l - 1) + 1 = l
          OBVIOUS
        <4> QED
          BY <4>1
      <3>5. p[1] = c[1 + Cardinality(CallsOf(b, i))]
        <4>1. k \in 1..Len(b) /\ k \in 1..(Len(b) + 1)
          BY <1>1, <1>2
        <4>2. Into(b, k)[1] = c[1 + Cardinality(CallsOf(b, k - 1))]
          BY <1>2, <2>1, <4>1, FunctionFacts
        <4>3. b[k] \in ToSet(list[Into(b, k)]) /\ Into(b, k) \in Node
          BY <1>2, <4>1, IntoFacts DEF Chained
        <4>4. b[k][1] = Into(b, k)[1]
          BY <1>2, <4>3, GoodFacts
        <4> QED
          BY <3>1, <3>3, <4>2, <4>4
      <3>6. /\ Cardinality(CallsOf(b, i)) \in Nat /\ Cardinality(CallsOf(b, n)) \in Nat
            /\ Cardinality(CallsOf(b, i)) < Cardinality(CallsOf(b, n))
        <4>1. i \in 0..m /\ m \in 0..m /\ m + 1 \in 0..n /\ m + 1 \in Nat
          BY <1>2, <3>3, <3>4
        <4>2. /\ Cardinality(CallsOf(b, i)) \in Nat /\ Cardinality(CallsOf(b, m)) \in Nat
              /\ Cardinality(CallsOf(b, i)) <= Cardinality(CallsOf(b, m))
          BY <4>1, CallsFacts
        <4>3. Cardinality(CallsOf(b, m + 1)) = Cardinality(CallsOf(b, m)) + 1
          BY <3>2, <3>4, CallsFacts
        <4>4. Cardinality(CallsOf(b, m + 1)) <= Cardinality(CallsOf(b, n)) /\ Cardinality(CallsOf(b, n)) \in Nat
          <5>1. n \in 0..n
            BY <1>2
          <5> QED
            BY <1>2, <4>1, <5>1, CallsFacts
        <4> QED
          BY <4>2, <4>3, <4>4
      <3>7. PICK u, v : u = 1 + Cardinality(CallsOf(b, i)) /\ v = 1 + Cardinality(CallsOf(b, n))
        OBVIOUS
      <3>8. u \in 1..Len(c) /\ v \in 1..Len(c) /\ u < v /\ c[u] = c[v]
        <4>1. c[u] = c[v] /\ Len(c) = v
          BY <2>1, <3>5, <3>7
        <4>2. u \in Nat \ {0} /\ v \in Nat /\ u < v
          BY <3>6, <3>7
        <4> QED
          BY <4>1, <4>2
      <3> QED
        BY <1>2, <2>1, <3>8, TwiceIsRecursive
    <2>3. CASE Op(p) = "call" /\ X(p) # 0 /\ X(p) \in ToSet(c)
      <3>1. PICK u \in 1..Len(c) : c[u] = X(p)
        BY <1>2, <2>3, ElementsSeq
      <3>2. X(p) \in Callees(code, c[Len(c)])
        BY <1>2, <2>1, <2>3, CalleeFacts
      <3>3. c[u] \in DOMAIN code /\ Len(c) \in 1..Len(c)
        BY <1>2
      <3>4. X(p) \in Reached(code, c[u])
        <4>1. CASE u = Len(c)
          BY <3>2, <3>3, <4>1, ReachedFacts
        <4>2. CASE u # Len(c)
          <5>1. u < Len(c)
            BY <3>3, <4>2
          <5>2. c[Len(c)] \in Reached(code, c[u])
            BY <2>1, <3>3, <5>1 DEF Led
          <5> QED
            BY <3>2, <3>3, <5>2, ReachedFacts
        <4> QED
          BY <4>1, <4>2
      <3> QED
        BY <3>1, <3>3, <3>4 DEF Recursive
    <2> QED
      BY <2>2, <2>3
  <1> QED
    BY <1>3 DEF RunOK, PathOK, FrameOK, BreakOK, Stops

(* What is asked of a branch.                                              *)
LEMMA BranchFacts ==
    ASSUME code \in Programs, NEW p \in Node, p[2] # 0, Op(p) \in Branches
    PROVE  /\ X(p) \in Nat
           /\ Cardinality(Enclosing(code[p[1]], p[2])) \in Nat
           /\ X(p) <= Cardinality(Enclosing(code[p[1]], p[2]))
           /\ Cardinality(Enclosing(code[p[1]], p[2])) <= Cardinality(Around(p))
  <1>1. PICK f, i, s : f = p[1] /\ i = p[2] /\ s = code[f]
    OBVIOUS
  <1>2. /\ f \in DOMAIN code /\ i \in DOMAIN s /\ i \in 1..Len(s) /\ s \in Seq(Instruction) /\ Len(s) \in Nat
    <2>1. f \in DOMAIN code /\ i \in 0..Len(s)
      BY <1>1, NodeFacts
    <2>2. s \in Seq(Instruction) /\ Len(s) \in Nat /\ DOMAIN s = 1..Len(s)
      BY <1>1, <2>1, CodeFacts
    <2> QED
      BY <1>1, <2>1, <2>2
  <1>3. s[i].op \in Branches /\ s[i].x = X(p) /\ s[i] \in Instruction
    BY <1>1, <1>2 DEF Op, X
  <1>4. X(p) \in Nat
    BY <1>3 DEF Instruction
  <1>5. X(p) < Cardinality(Enclosing(s, i)) + (IF Result(f) = <<>> THEN 1 ELSE 0)
    <2>1. WellFormed(s, f)
      BY <1>1, <1>2, ProgramAssumption
    <2>2. NestedAt(s, i, Result(f))
      BY <1>2, <2>1 DEF WellFormed
    <2> QED
      BY <1>3, <2>2 DEF NestedAt
  <1>6. Enclosing(s, i) \subseteq Around(p) /\ Around(p) \subseteq 1..(i - 1)
    <2>1. \A j \in 1..(i - 1) : i < Match(s, j) => i <= Match(s, j)
      BY <1>2, MatchType
    <2> QED
      BY <1>1, <2>1 DEF Enclosing, Around
  <1>7. IsFiniteSet(Around(p))
    <2>1. IsFiniteSet(1..(i - 1))
      BY <1>2, FS_Interval
    <2> QED
      BY <1>6, <2>1, FS_Subset
  <1>8. /\ Cardinality(Enclosing(s, i)) \in Nat
        /\ Cardinality(Enclosing(s, i)) <= Cardinality(Around(p))
    BY <1>6, <1>7, FS_Subset, FS_CardinalityType
  <1> QED
    BY <1>1, <1>4, <1>5, <1>8

(* Code that is supported branches to blocks.                              *)
LEMMA SupportedFacts ==
    ASSUME code \in Programs, Supported(code, StackSize)
    PROVE  \A p \in Node : p[2] # 0 /\ Op(p) \in Branches => X(p) < Cardinality(Enclosing(code[p[1]], p[2]))
  <1>1. \A f \in DOMAIN code : \A i \in DOMAIN code[f] :
           code[f][i].op \in Branches => code[f][i].x < Cardinality(Enclosing(code[f], i))
    BY DEF Supported
  <1>2. ASSUME NEW p \in Node, p[2] # 0, Op(p) \in Branches
        PROVE  X(p) < Cardinality(Enclosing(code[p[1]], p[2]))
    <2>1. p[1] \in DOMAIN code /\ p[2] \in 0..Len(code[p[1]])
      BY NodeFacts
    <2>2. Len(code[p[1]]) \in Nat /\ DOMAIN code[p[1]] = 1..Len(code[p[1]])
      BY <2>1, CodeFacts
    <2>3. p[2] \in DOMAIN code[p[1]]
      BY <1>2, <2>1, <2>2
    <2> QED
      BY <1>1, <1>2, <2>1, <2>3 DEF Op, X
  <1> QED
    BY <1>2

(* Out of x blocks, and out of or again into the one that is then the      *)
(* innermost.                                                              *)
LEMMA MoveBranch ==
    ASSUME ParserInv, NEW p, NEW b, NEW c, RunOK(p, b, c, "no"), p # Null,
           Op(p) \in Branches, NEW x \in 0..X(p), NEW r, r = SubSeq(b, 1, Len(b) - x)
    PROVE  /\ r = <<>> => RunOK(p, r, c, "no block")
           /\ r # <<>> =>
                /\ Op(Last(r)) = "loop" => RunOK(First(list[Last(r)]), r, c, "no")
                /\ Op(Last(r)) = "block" => RunOK(Next(Last(r)), Front(r), c, "no")
                /\ RunOK(Null, r, c, "no")
  <1>1. PICK n : n = Len(b)
    OBVIOUS
  <1>2. /\ Parsed /\ Chained(b) /\ b \in Seq(Node) /\ n \in Nat /\ c \in Seq(DOMAIN code)
        /\ Len(c) >= 1 + Cardinality(CallsOf(b, n))
        /\ code \in Programs /\ Good(list) /\ p \in Node /\ p[2] # 0
        /\ Into(b, n + 1) \in Node /\ p \in ToSet(list[Into(b, n + 1)])
        /\ n + 1 \in 1..(Len(b) + 1) /\ (n + 1) - 1 = n
    <2>1. n + 1 \in 1..(Len(b) + 1) /\ (n + 1) - 1 = n
      BY <1>1, HereIs
    <2> QED
      BY <1>1, <2>1, HereIs DEF Chained
  <1>3. PICK e : e = Cardinality(Enclosing(code[p[1]], p[2]))
    OBVIOUS
  <1>4. X(p) \in Nat /\ e \in Nat /\ X(p) <= e /\ e <= Cardinality(Around(p)) /\ x \in Nat /\ x <= X(p)
    <2>1. X(p) \in Nat /\ e \in Nat /\ X(p) <= e /\ e <= Cardinality(Around(p))
      BY <1>2, <1>3, BranchFacts
    <2> QED
      BY <2>1
  <1>5. e <= n /\ \A l \in ((n + 1) - e)..n : Op(b[l]) # "call"
    <2>1. PICK d : d = Cardinality(Within(Into(b, n + 1)))
      OBVIOUS
    <2>2. d \in 0..n /\ \A l \in ((n + 1) - d)..n : Op(b[l]) # "call"
      <3>1. d \in 0..((n + 1) - 1) /\ \A l \in ((n + 1) - d)..((n + 1) - 1) : Op(b[l]) # "call"
        BY <1>2, <2>1, DepthFacts
      <3> QED
        BY <1>2, <3>1
    <2>3. Around(p) = Within(Into(b, n + 1))
      BY <1>2 DEF ParserInv, NestInv
    <2>4. e <= d
      BY <1>4, <2>1, <2>3
    <2>5. \A l \in ((n + 1) - e)..n : l \in ((n + 1) - d)..n
      BY <1>2, <1>4, <2>2, <2>4
    <2> QED
      BY <1>2, <1>4, <2>2, <2>4, <2>5
  <1>6. CASE x >= n
    <2>1. r = <<>> /\ r \in Seq(Node) /\ Len(r) = 0
      <3>1. \A i \in 1..(n - x) : b[i] \in Node
        BY <1>2, <1>4, <1>6
      <3>2. /\ SubSeq(b, 1, n - x) \in Seq(Node)
            /\ Len(SubSeq(b, 1, n - x)) = IF 1 <= n - x THEN n - x - 1 + 1 ELSE 0
        <4>1. n - x \in Int /\ 1 \in Int
          BY <1>2, <1>4
        <4> QED
          BY <3>1, <4>1, ST!SubSeqProperties
      <3>3. r \in Seq(Node) /\ Len(r) = 0
        BY <1>1, <1>2, <1>4, <1>6, <3>2
      <3> QED
        BY <3>3, ST!EmptySeq
    <2>2. ~Supported(code, StackSize)
      <3>1. ASSUME Supported(code, StackSize) PROVE FALSE
        <4>1. X(p) < e
          BY <1>2, <1>3, <3>1, SupportedFacts
        <4>2. e <= n
          BY <1>5
        <4> QED
          BY <1>2, <1>4, <1>6, <4>1, <4>2
      <3> QED
        BY <3>1
    <2>3. Chained(r) /\ Len(r) = 0
      BY <2>1 DEF Chained
    <2>4. Len(c) >= 1 + Cardinality(CallsOf(r, Len(r)))
      <3>1. Cardinality(CallsOf(r, 0)) = 0
        BY CallsFacts, 0 \in Nat
      <3>2. Cardinality(CallsOf(b, n)) \in 0..n
        BY <1>2, CallsFacts
      <3>3. Len(c) \in Nat
        BY <1>2
      <3> QED
        BY <1>2, <2>3, <3>1, <3>2, <3>3
    <2>5. PathOK(p, r, c, "no block")
      BY <1>2, <2>3, <2>4 DEF PathOK, Stops
    <2> QED
      BY <2>1, <2>2, <2>5 DEF RunOK, FrameOK, BreakOK
  <1>7. CASE x < n
    <2>1. PICK k \in Nat : k = n - x
      BY <1>2, <1>4, <1>7
    <2>2. k \in 0..Len(b) /\ k \in 1..Len(b) /\ k # 0 /\ k + 1 = (n + 1) - x
      BY <1>1, <1>2, <1>4, <1>7, <2>1
    <2>3. r = Outer(b, k)
      BY <1>1, <2>1 DEF Outer
    <2>4. Len(r) = k /\ r[k] = b[k] /\ r # <<>> /\ Last(r) = b[k]
      <3>1. Len(r) = k /\ \A i \in 1..k : r[i] = b[i]
        BY <1>2, <2>2, <2>3, PrefixFacts
      <3>2. k \in 1..k /\ r # <<>>
        <4>1. r \in Seq(Node)
          BY <1>2, <2>2, <2>3, PrefixFacts DEF Chained
        <4>2. r # <<>>
          BY <2>2, <3>1, <4>1, ST!EmptySeq
        <4>3. k \in 1..k
          BY <2>2
        <4> QED
          BY <4>2, <4>3
      <3> QED
        BY <3>1, <3>2 DEF Last
    <2>5. \A l \in (k + 1)..Len(b) : Op(b[l]) # "call"
      <3>1. ASSUME NEW l \in (k + 1)..Len(b) PROVE Op(b[l]) # "call"
        <4>1. l \in ((n + 1) - e)..n
          BY <1>1, <1>2, <1>4, <2>1, <2>2, <3>1
        <4> QED
          BY <1>5, <3>1, <4>1
      <3> QED
        BY <3>1
    <2>6. b[k] \in Node /\ Entry(b[k]) /\ b[k] \in ToSet(list[Into(b, k)])
          /\ Into(b, k) \in Node /\ Into(b, k + 1) = IF Op(b[k]) = "call" THEN Body(X(b[k])) ELSE b[k]
      <3>1. k \in 1..(Len(b) + 1)
        BY <1>1, <1>2, <2>2
      <3> QED
        BY <1>2, <2>2, <3>1, IntoFacts DEF Chained
    <2>7. RunOK(Null, r, c, "no")
      BY <2>2, <2>3, <2>5, MoveOut
    <2>8. CASE Op(b[k]) = "loop"
      <3>1. Into(b, k + 1) = b[k]
        BY <2>6, <2>8
      <3>2. PICK q : q = First(list[b[k]])
        OBVIOUS
      <3>3. q = Null \/ (q \in Node /\ q \in ToSet(list[Into(b, k + 1)]))
        BY <1>2, <2>6, <3>1, <3>2, FirstFacts
      <3>4. RunOK(q, r, c, "no")
        BY <2>2, <2>3, <2>5, <3>3, MoveOut
      <3> QED
        BY <2>4, <2>7, <2>8, <3>2, <3>4
    <2>9. CASE Op(b[k]) = "block"
      <3>1. PICK j \in Nat : j + 1 = k /\ j = k - 1
        <4>1. k - 1 \in Nat /\ (k - 1) + 1 = k
          BY <2>2
        <4> QED
          BY <4>1
      <3>2. Front(r) = Outer(b, j)
        <4>1. Front(r) = SubSeq(r, 1, j)
          BY <2>4, <3>1 DEF Front
        <4>2. Len(r) = k /\ \A i \in 1..k : r[i] = b[i]
          BY <1>2, <2>2, <2>3, PrefixFacts
        <4>3. r \in Seq(Node) /\ j \in 0..Len(b) /\ \A i \in 1..j : i \in 1..k
          BY <1>2, <2>2, <2>3, <3>1, PrefixFacts DEF Chained
        <4>4. Front(r) \in Seq(Node) /\ Len(Front(r)) = j /\ \A i \in 1..j : Front(r)[i] = r[i]
          BY <2>4, <3>1, <4>2, <4>3, FrontSeq
        <4>5. /\ Outer(b, j) \in Seq(Node) /\ Len(Outer(b, j)) = j
              /\ \A i \in 1..j : Outer(b, j)[i] = b[i]
          BY <1>2, <4>3, PrefixFacts DEF Chained
        <4>6. \A i \in 1..j : Front(r)[i] = Outer(b, j)[i]
          BY <4>2, <4>3, <4>4, <4>5
        <4> QED
          BY <4>4, <4>5, <4>6, ST!SeqEqual
      <3>3. PICK q : q = Next(b[k])
        OBVIOUS
      <3>4. q \in Node /\ q \in ToSet(list[Into(b, j + 1)])
        <4>1. Op(b[k]) # "end"
          BY <2>9
        <4> QED
          BY <1>2, <2>6, <3>1, <3>3, <4>1, NextFacts
      <3>5. j \in 0..Len(b)
        BY <1>1, <1>2, <2>2, <3>1
      <3>6. \A l \in (j + 1)..Len(b) : Op(b[l]) # "call"
        BY <1>1, <1>2, <2>2, <2>5, <2>9, <3>1
      <3>7. RunOK(q, Front(r), c, "no")
        BY <3>2, <3>4, <3>5, <3>6, MoveOut
      <3> QED
        BY <2>4, <2>7, <2>9, <3>3, <3>7
    <2> QED
      BY <2>4, <2>7, <2>8, <2>9
  <1>8. x >= n \/ x < n
    BY <1>2, <1>4
  <1> QED
    BY <1>6, <1>7, <1>8

----------------------------------------------------------------------------
(* The steps of the interpreter                                            *)

(* What the next instruction, the blocks and the frames then are.          *)
LEMMA RunStays ==
    ASSUME UNCHANGED parseVars, NEW p, NEW b, NEW c, NEW t, RunOK(p, b, c, t),
           ip' = p, blocks' = b, calls' = c, stop' = t
    PROVE  RunOK(ip, blocks, calls, stop)'
  <1>1. code' = code /\ list' = list /\ func' = func
    BY DEF parseVars
  <1>2. Node' = Node /\ (Parsed' <=> Parsed)
    BY <1>1 DEF Node, Parsed
  <1>3. Chained(blocks)' <=> Chained(b)
    BY <1>1, <1>2 DEF Chained, Entry, Into, Op, X, Body
  <1>4. (Len(calls) >= 1 + Cardinality(CallsOf(blocks, Len(blocks))))' <=> Len(c) >= 1 + Cardinality(CallsOf(b, Len(b)))
    BY <1>1 DEF CallsOf, Op
  <1>5. Framed(calls, blocks)' <=> Framed(c, b)
    BY <1>1 DEF Framed, CallsOf, Op, X
  <1>6. Led(calls)' <=> Led(c)
    BY <1>1 DEF Led
  <1>7. BreakOK(stop)' <=> BreakOK(t)
    BY <1>1, <1>2 DEF BreakOK
  <1>8. (ip \in ToSet(list[Into(blocks, Len(blocks) + 1)]))' <=> p \in ToSet(list[Into(b, Len(b) + 1)])
    BY <1>1 DEF Into, Op, X, Body
  <1>9. FrameOK(blocks, calls, stop)'
    BY <1>2, <1>5, <1>6 DEF RunOK, FrameOK
  <1>10. PathOK(ip, blocks, calls, stop)'
    BY <1>1, <1>2, <1>3, <1>4, <1>8 DEF RunOK, PathOK
  <1> QED
    BY <1>7, <1>9, <1>10 DEF RunOK

(* What the operand stack is after reading and writing.                    *)
LEMMA OperandFacts ==
    ASSUME NEW s, Stored(s)
    PROVE  /\ readi32(s) \in Val /\ Stored(After32(s)) /\ Stored(After64(s))
           /\ \A v \in Val : Stored(writei32(s, v))
           /\ \A v \in Val \X Val : Stored(writei64(s, v))
  <1>1. s \in Seq(Val) /\ Len(s) \in Nat /\ Len(s) <= StackSize
    BY DEF Stored
  <1>2. readi32(s) \in Val
    <2>1. CASE s = <<>>
      BY <2>1, ValAssumption DEF readi32
    <2>2. CASE s # <<>>
      <3>1. Len(s) \in 1..Len(s)
        BY <1>1, <2>2, ST!EmptySeq
      <3> QED
        BY <1>1, <2>2, <3>1 DEF readi32
    <2> QED
      BY <2>1, <2>2
  <1>3. ASSUME NEW n \in 1..2, Len(s) >= n PROVE Stored(Popped(s, n))
    <2>1. PICK m \in Nat : m = Len(s) - n
      BY <1>1, <1>3
    <2>2. \A i \in 1..m : s[i] \in Val
      BY <1>1, <2>1
    <2>3. SubSeq(s, 1, m) \in Seq(Val) /\ Len(SubSeq(s, 1, m)) = IF 1 <= m THEN m - 1 + 1 ELSE 0
      BY <2>2, ST!SubSeqProperties
    <2>4. Len(SubSeq(s, 1, m)) <= StackSize
      BY <1>1, <2>1, <2>3, StackAssumption
    <2> QED
      BY <2>1, <2>3, <2>4 DEF Popped, Stored
  <1>4. Stored(After32(s))
    <2>1. CASE s = <<>>
      BY <2>1 DEF After32
    <2>2. CASE s # <<>>
      <3>1. Len(s) >= 1
        BY <1>1, <2>2, ST!EmptySeq
      <3> QED
        BY <1>3, <2>2, <3>1 DEF After32
    <2> QED
      BY <2>1, <2>2
  <1>5. Stored(After64(s))
    <2>1. CASE Len(s) < 2
      BY <2>1 DEF After64
    <2>2. CASE ~(Len(s) < 2)
      <3>1. Len(s) >= 2
        BY <1>1, <2>2
      <3> QED
        BY <1>3, <2>2, <3>1 DEF After64
    <2> QED
      BY <2>1, <2>2
  <1>6. ASSUME NEW v \in Val PROVE Stored(writei32(s, v))
    <2>1. Append(s, v) \in Seq(Val) /\ Len(Append(s, v)) = Len(s) + 1
      BY <1>1
    <2> QED
      BY <1>1, <2>1, StackAssumption DEF writei32, Stored
  <1>7. ASSUME NEW v \in Val \X Val PROVE Stored(writei64(s, v))
    <2>1. v \in Seq(Val) /\ Len(v) = 2
      <3>1. PICK x \in Val, y \in Val : v = <<x, y>>
        OBVIOUS
      <3>2. <<x, y>> \in Seq(Val) /\ Len(<<x, y>>) = 2
        OBVIOUS
      <3> QED
        BY <3>1, <3>2
    <2>2. s \o v \in Seq(Val) /\ Len(s \o v) = Len(s) + 2
      <3>1. s \in Seq(Val) /\ v \in Seq(Val)
        BY <1>1, <2>1
      <3>2. s \o v \in Seq(Val) /\ Len(s \o v) = Len(s) + Len(v)
        BY ONLY <3>1, ST!ConcatProperties
      <3> QED
        BY <2>1, <3>2
    <2> QED
      BY <1>1, <2>2, StackAssumption DEF writei64, Stored
  <1> QED
    BY <1>2, <1>4, <1>5, <1>6, <1>7

(* The invariant after a step that reads no module.                        *)
LEMMA InvStays ==
    ASSUME InterpInv, UNCHANGED parseVars, RunOK(ip, blocks, calls, stop)',
           local' \in [DOMAIN code -> [0..1 -> Val]], Stored(stack')
    PROVE  InterpInv'
  <1>1. ParserInv'
    BY ParserStepInv DEF InterpInv
  <1>2. code' = code
    BY DEF parseVars
  <1>3. Stored(stack)' <=> Stored(stack')
    BY DEF Stored
  <1>4. StoreInv'
    BY <1>2, <1>3 DEF StoreInv
  <1> QED
    BY <1>1, <1>4 DEF InterpInv

(* Where the interpreter is before a step.                                 *)
LEMMA AtFacts ==
    ASSUME InterpInv, NEW ops, At(ops)
    PROVE  /\ ParserInv /\ RunOK(ip, blocks, calls, "no") /\ stop = "no"
           /\ ip # Null /\ Op(ip) \in ops
           /\ local \in [DOMAIN code -> [0..1 -> Val]] /\ Stored(stack)
  BY DEF InterpInv, At, StoreInv

(* An instruction is executed and nothing else moves.                      *)
LEMMA OperateStep ==
    ASSUME InterpInv, NEW ops, At(ops), "end" \notin ops,
           ip' = Next(ip), UNCHANGED <<parseVars, blocks, calls, stop>>,
           local' \in [DOMAIN code -> [0..1 -> Val]], Stored(stack')
    PROVE  InterpInv'
  <1>1. /\ ParserInv /\ RunOK(ip, blocks, calls, "no") /\ stop = "no"
        /\ ip # Null /\ Op(ip) \in ops
    BY AtFacts
  <1>2. Op(ip) # "end"
    BY <1>1
  <1>3. RunOK(Next(ip), blocks, calls, "no")
    BY <1>1, <1>2, MoveNext
  <1>4. RunOK(ip, blocks, calls, stop)'
    BY <1>1, <1>3, RunStays
  <1> QED
    BY <1>4, InvStays

(* The local that is read or written is one there is.                      *)
LEMMA LocalFacts ==
    ASSUME InterpInv, NEW ops, At(ops), ops \in SUBSET {"local.get", "local.set"}
    PROVE  Last(calls) \in DOMAIN code /\ X(ip) \in 0..1
  <1>1. ParserInv /\ RunOK(ip, blocks, calls, "no") /\ ip # Null /\ Op(ip) \in {"local.get", "local.set"}
    BY AtFacts
  <1>2. /\ code \in Programs /\ ip \in Node /\ ip[2] # 0
        /\ calls \in Seq(DOMAIN code) /\ Len(calls) >= 1 + Cardinality(CallsOf(blocks, Len(blocks)))
        /\ Len(blocks) \in Nat
    BY <1>1, HereIs
  <1>3. Len(calls) \in 1..Len(calls)
    <2>1. Cardinality(CallsOf(blocks, Len(blocks))) \in 0..Len(blocks)
      BY <1>2, CallsFacts
    <2>2. Len(calls) \in Nat
      BY <1>2
    <2> QED
      BY <1>2, <2>1, <2>2
  <1>4. Last(calls) \in DOMAIN code
    BY <1>2, <1>3 DEF Last
  <1>5. ip[1] \in DOMAIN code /\ ip[2] \in DOMAIN code[ip[1]]
    <2>1. ip[1] \in DOMAIN code /\ ip[2] \in 0..Len(code[ip[1]])
      BY <1>2, NodeFacts
    <2>2. Len(code[ip[1]]) \in Nat /\ DOMAIN code[ip[1]] = 1..Len(code[ip[1]])
      BY <1>2, <2>1, CodeFacts
    <2> QED
      BY <1>2, <2>1, <2>2
  <1>6. X(ip) \in 0..1
    BY <1>1, <1>2, <1>5, ProgramAssumption DEF Op, X
  <1> QED
    BY <1>4, <1>6

(* A branch.                                                               *)
LEMMA BranchStep ==
    ASSUME InterpInv, NEW ops, At(ops), ops \in SUBSET Branches, NEW x \in 0..X(ip), BranchIn(x),
           UNCHANGED <<parseVars, calls, local>>, Stored(stack')
    PROVE  InterpInv'
  <1>1. /\ ParserInv /\ RunOK(ip, blocks, calls, "no") /\ stop = "no"
        /\ ip # Null /\ Op(ip) \in Branches
        /\ local \in [DOMAIN code -> [0..1 -> Val]]
    BY AtFacts
  <1>2. calls' = calls /\ local' = local /\ UNCHANGED parseVars
    OBVIOUS
  <1>3. PICK r : r = SubSeq(blocks, 1, Len(blocks) - x)
    OBVIOUS
  <1>4. RunOK(ip, blocks, calls, stop)'
    <2>1. CASE blocks = <<>>
      <3>1. ip' = Null /\ blocks' = blocks /\ stop' = stop
        BY <2>1 DEF BranchIn
      <3>2. RunOK(Null, blocks, calls, "no")
        BY <1>1, MoveNowhere
      <3> QED
        BY <1>1, <1>2, <3>1, <3>2, RunStays
    <2>2. /\ r = <<>> => RunOK(ip, r, calls, "no block")
          /\ r # <<>> =>
                /\ Op(Last(r)) = "loop" => RunOK(First(list[Last(r)]), r, calls, "no")
                /\ Op(Last(r)) = "block" => RunOK(Next(Last(r)), Front(r), calls, "no")
                /\ RunOK(Null, r, calls, "no")
      BY <1>1, <1>3, MoveBranch
    <2>3. CASE blocks # <<>> /\ r = <<>>
      <3>1. ip' = ip /\ blocks' = r /\ stop' = "no block"
        BY <1>3, <2>3 DEF BranchIn
      <3> QED
        BY <1>2, <2>2, <2>3, <3>1, RunStays
    <2>4. CASE blocks # <<>> /\ r # <<>> /\ Op(Last(r)) = "loop"
      <3>1. ip' = First(list[Last(r)]) /\ blocks' = r /\ stop' = stop
        BY <1>3, <2>4 DEF BranchIn
      <3> QED
        BY <1>1, <1>2, <2>2, <2>4, <3>1, RunStays
    <2>5. CASE blocks # <<>> /\ r # <<>> /\ Op(Last(r)) = "block"
      <3>1. ip' = Next(Last(r)) /\ blocks' = Front(r) /\ stop' = stop
        BY <1>3, <2>5 DEF BranchIn
      <3> QED
        BY <1>1, <1>2, <2>2, <2>5, <3>1, RunStays
    <2>6. CASE blocks # <<>> /\ r # <<>> /\ Op(Last(r)) \notin {"loop", "block"}
      <3>1. ip' = Null /\ blocks' = r /\ stop' = stop
        BY <1>3, <2>6 DEF BranchIn
      <3> QED
        BY <1>1, <1>2, <2>2, <2>6, <3>1, RunStays
    <2> QED
      BY <2>1, <2>3, <2>4, <2>5, <2>6
  <1> QED
    BY <1>1, <1>2, <1>4, InvStays

(* The default of a branch is one of its labels.                           *)
LEMMA LabelFacts ==
    ASSUME InterpInv, NEW ops, At(ops), ops \in SUBSET Branches
    PROVE  X(ip) \in 0..X(ip)
  <1>1. ParserInv /\ RunOK(ip, blocks, calls, "no") /\ ip # Null /\ Op(ip) \in Branches
    BY AtFacts
  <1>2. code \in Programs /\ ip \in Node /\ ip[2] # 0
    BY <1>1, HereIs
  <1>3. X(ip) \in Nat
    BY <1>1, <1>2, BranchFacts
  <1> QED
    BY <1>3

(* The invariant holds before anything is parsed.                          *)
LEMMA InterpInitInv == InterpInit => InterpInv
  <1> SUFFICES ASSUME InterpInit PROVE InterpInv
    OBVIOUS
  <1>1. ParserInv
    BY ParserInitInv DEF InterpInit
  <1>2. RunOK(ip, blocks, calls, stop)
    <2>1. ip = Null /\ blocks = <<>> /\ calls = <<>> /\ stop = "parsing"
      BY DEF InterpInit
    <2> QED
      BY <2>1 DEF RunOK, PathOK, FrameOK, BreakOK, Stops
  <1>3. StoreInv
    <2>1. local = [f \in DOMAIN code |-> [x \in 0..1 |-> 0]] /\ stack = <<>>
      BY DEF InterpInit
    <2>2. <<>> \in Seq(Val) /\ Len(<<>>) = 0
      BY ST!EmptySeq
    <2> QED
      BY <2>1, <2>2, ValAssumption, StackAssumption DEF StoreInv, Stored
  <1> QED
    BY <1>1, <1>2, <1>3 DEF InterpInv

(* While the module is parsed nothing runs.                                *)
LEMMA ParseStep ==
    ASSUME InterpInv, Parse, UNCHANGED runVars
    PROVE  InterpInv'
  <1>1. ParserInv'
    BY ParserStepInv DEF InterpInv
  <1>2. code' = code
    BY DEF Parse, ParseBlock, ParseInstr, ParseNextFunc
  <1>3. /\ ip' = ip /\ blocks' = blocks /\ calls' = calls /\ local' = local
        /\ stack' = stack /\ stop' = stop
    BY DEF runVars
  <1>4. ~Parsed
    BY DEF Parse, ParseBlock, ParseInstr, ParseNextFunc, Reading, Parsed
  <1>5. stop \in {"parsing", "unsupported"} /\ ip = Null /\ blocks = <<>> /\ calls = <<>>
    BY <1>4 DEF InterpInv, RunOK, PathOK
  <1>6. RunOK(ip, blocks, calls, stop)'
    BY <1>3, <1>5 DEF RunOK, PathOK, FrameOK, BreakOK, Stops, Null
  <1>7. StoreInv'
    BY <1>2, <1>3 DEF InterpInv, StoreInv, Stored
  <1> QED
    BY <1>1, <1>6, <1>7 DEF InterpInv

(* The task exits while the module is parsed.                              *)
LEMMA ParseUnsupportedStep ==
    ASSUME InterpInv, ParseUnsupported
    PROVE  InterpInv'
  <1>1. /\ RunOK(ip, blocks, calls, "parsing")
        /\ local \in [DOMAIN code -> [0..1 -> Val]] /\ Stored(stack)
    BY DEF InterpInv, ParseUnsupported, StoreInv
  <1>2. /\ stop' = "unsupported" /\ UNCHANGED parseVars
        /\ ip' = ip /\ blocks' = blocks /\ calls' = calls /\ local' = local /\ stack' = stack
    BY DEF ParseUnsupported
  <1>3. RunOK(ip, blocks, calls, "unsupported")
    BY <1>1 DEF RunOK, PathOK, FrameOK, BreakOK, Stops
  <1>4. RunOK(ip, blocks, calls, stop)'
    BY <1>2, <1>3, RunStays
  <1> QED
    BY <1>1, <1>2, <1>4, InvStays

(* _start is entered.                                                      *)
LEMMA LaunchStep ==
    ASSUME InterpInv, Launch
    PROVE  InterpInv'
  <1>1. /\ ParserInv /\ Parsed /\ blocks = <<>>
        /\ local \in [DOMAIN code -> [0..1 -> Val]] /\ Stored(stack)
    BY DEF InterpInv, Launch, RunOK, PathOK, StoreInv
  <1>2. /\ calls' = <<Start>> /\ ip' = First(list[Body(Start)]) /\ stop' = "no"
        /\ UNCHANGED parseVars /\ blocks' = blocks /\ local' = local /\ stack' = stack
    BY DEF Launch
  <1>3. PICK q, b, c : q = First(list[Body(Start)]) /\ b = <<>> /\ c = <<Start>>
    OBVIOUS
  <1>4. Start \in DOMAIN code /\ Body(Start) \in Node
    <2>1. code \in Programs
      BY <1>1, ParsedLists
    <2> QED
      BY <2>1, CodeFacts, NoNodes
  <1>5. q = Null \/ (q \in ToSet(list[Body(Start)]) /\ q \in Node)
    BY <1>1, <1>3, <1>4, FirstFacts
  <1>6. b \in Seq(Node) /\ Len(b) = 0 /\ c \in Seq(DOMAIN code) /\ Len(c) = 1 /\ c[1] = Start
    BY <1>3, <1>4, ST!EmptySeq
  <1>7. CallsOf(b, Len(b)) = {} /\ Cardinality(CallsOf(b, Len(b))) = 0
    BY <1>6, 0 \in Nat, CallsFacts
  <1>8. Into(b, Len(b) + 1) = Body(Start)
    BY <1>6 DEF Into
  <1>9. Chained(b) /\ Framed(c, b) /\ Led(c)
    BY <1>6, <1>7 DEF Chained, Framed, Led
  <1>10. RunOK(q, b, c, "no")
    BY <1>1, <1>5, <1>6, <1>7, <1>8, <1>9 DEF RunOK, PathOK, FrameOK, BreakOK, Stops
  <1>11. RunOK(ip, blocks, calls, stop)'
    BY <1>1, <1>2, <1>3, <1>10, RunStays
  <1> QED
    BY <1>1, <1>2, <1>11, InvStays

(* The invariant holds after a step, whichever it is.                      *)
LEMMA InterpStepInv == InterpInv /\ [InterpNext]_interpVars => InterpInv'
  <1> SUFFICES ASSUME InterpInv, [InterpNext]_interpVars PROVE InterpInv'
    OBVIOUS
  <1>1. CASE Parse /\ UNCHANGED runVars
    BY <1>1, ParseStep
  <1>2. CASE ParseUnsupported \/ Launch
    BY <1>2, ParseUnsupportedStep, LaunchStep
  <1>3. ASSUME Relink, ParserInv, RunOK(ip, blocks, calls, "no"), stop = "no", ip # Null,
               local \in [DOMAIN code -> [0..1 -> Val]], Stored(stack),
               ip \in ToSet(blocks) \/ (Op(ip) = "call" /\ X(ip) # 0 /\ X(ip) \in ToSet(calls))
        PROVE  InterpInv'
    <2>1. RunOK(ip, blocks, calls, "relinked")
      BY <1>3, MoveRelink
    <2>2. /\ stop' = "relinked" /\ ip' = ip /\ blocks' = blocks /\ calls' = calls
          /\ UNCHANGED parseVars /\ local' = local /\ stack' = stack
      BY <1>3 DEF Relink
    <2>3. RunOK(ip, blocks, calls, stop)'
      BY <2>1, <2>2, RunStays
    <2> QED
      BY <1>3, <2>2, <2>3, InvStays
  <1>4. CASE BlockOrLoop
    <2>1. /\ ParserInv /\ RunOK(ip, blocks, calls, "no") /\ stop = "no"
          /\ ip # Null /\ Op(ip) \in {"block", "loop"}
          /\ local \in [DOMAIN code -> [0..1 -> Val]] /\ Stored(stack)
      BY <1>4, AtFacts DEF BlockOrLoop
    <2>2. CASE ip \in ToSet(blocks)
      BY <1>3, <1>4, <2>1, <2>2 DEF BlockOrLoop
    <2>3. CASE ip \notin ToSet(blocks)
      <3>1. /\ blocks' = Entered(blocks, ip) /\ ip' = First(list[ip])
            /\ UNCHANGED parseVars /\ calls' = calls /\ local' = local /\ stack' = stack /\ stop' = stop
        BY <1>4, <2>3 DEF BlockOrLoop, EnterBlock, Entered
      <3>2. Op(ip) \in Openers
        BY <2>1 DEF Openers
      <3>3. RunOK(First(list[ip]), Entered(blocks, ip), calls, "no")
        BY <2>1, <3>2, MoveEnter
      <3>4. RunOK(ip, blocks, calls, stop)'
        BY <2>1, <3>1, <3>3, RunStays
      <3> QED
        BY <2>1, <3>1, <3>4, InvStays
    <2> QED
      BY <2>2, <2>3
  <1>5. CASE If
    <2>1. /\ ParserInv /\ RunOK(ip, blocks, calls, "no") /\ stop = "no"
          /\ ip # Null /\ Op(ip) \in {"if"}
          /\ local \in [DOMAIN code -> [0..1 -> Val]] /\ Stored(stack)
      BY <1>5, AtFacts DEF If
    <2>2. CASE ip \in ToSet(blocks)
      BY <1>3, <1>5, <2>1, <2>2 DEF If
    <2>3. CASE ip \notin ToSet(blocks)
      <3>1. /\ blocks' = Entered(blocks, ip) /\ (ip' = First(list[ip]) \/ ip' = Null)
            /\ stack' = After32(stack)
            /\ UNCHANGED parseVars /\ calls' = calls /\ local' = local /\ stop' = stop
        BY <1>5, <2>3 DEF If, EnterBlock, Entered
      <3>2. Op(ip) \in Openers
        BY <2>1 DEF Openers
      <3>3. RunOK(First(list[ip]), Entered(blocks, ip), calls, "no") /\ RunOK(Null, Entered(blocks, ip), calls, "no")
        BY <2>1, <3>2, MoveEnter
      <3>4. RunOK(ip, blocks, calls, stop)'
        BY <2>1, <3>1, <3>3, RunStays
      <3>5. Stored(stack')
        BY <2>1, <3>1, OperandFacts
      <3> QED
        BY <2>1, <3>1, <3>4, <3>5, InvStays
    <2> QED
      BY <2>2, <2>3
  <1>6. CASE EndOrReturn
    <2>1. /\ ParserInv /\ RunOK(ip, blocks, calls, "no") /\ stop = "no"
          /\ ip # Null
          /\ local \in [DOMAIN code -> [0..1 -> Val]] /\ Stored(stack)
      BY <1>6, AtFacts DEF EndOrReturn
    <2>2. End /\ UNCHANGED parseVars /\ local' = local /\ stack' = stack /\ stop' = stop
      BY <1>6 DEF EndOrReturn
    <2>3. CASE blocks = <<>>
      <3>1. ip' = Null /\ blocks' = blocks /\ calls' = calls
        BY <2>2, <2>3 DEF End
      <3>2. RunOK(Null, blocks, calls, "no")
        BY <2>1, MoveNowhere
      <3>3. RunOK(ip, blocks, calls, stop)'
        BY <2>1, <2>2, <3>1, <3>2, RunStays
      <3> QED
        BY <2>1, <2>2, <3>3, InvStays
    <2>4. CASE blocks # <<>>
      <3>1. PICK d : d = IF Op(Last(blocks)) = "call" THEN Front(calls) ELSE calls
        OBVIOUS
      <3>2. ip' = Next(Last(blocks)) /\ blocks' = Front(blocks) /\ calls' = d
        BY <2>2, <2>4, <3>1 DEF End
      <3>3. RunOK(Next(Last(blocks)), Front(blocks), d, "no")
        BY <2>1, <2>4, <3>1, MoveEnd
      <3>4. RunOK(ip, blocks, calls, stop)'
        BY <2>1, <2>2, <3>2, <3>3, RunStays
      <3> QED
        BY <2>1, <2>2, <3>4, InvStays
    <2> QED
      BY <2>3, <2>4

  <1>7. CASE Branch
    <2>1. At({"br"}) /\ {"br"} \in SUBSET Branches
      BY <1>7 DEF Branch, Branches
    <2>2. BranchIn(X(ip)) /\ UNCHANGED <<parseVars, calls, local>> /\ stack' = stack
      BY <1>7 DEF Branch
    <2>3. Stored(stack') /\ X(ip) \in 0..X(ip)
      BY <2>1, <2>2, AtFacts, LabelFacts
    <2> QED
      BY <2>1, <2>2, <2>3, BranchStep
  <1>8. CASE BranchIf
    <2>1. At({"br_if"}) /\ {"br_if"} \in SUBSET Branches /\ "end" \notin {"br_if"}
      BY <1>8 DEF BranchIf, Branches
    <2>2. /\ BranchIn(X(ip)) \/ (ip' = Next(ip) /\ UNCHANGED <<blocks, stop>>)
          /\ UNCHANGED <<parseVars, calls, local>> /\ stack' = After32(stack)
      BY <1>8 DEF BranchIf
    <2>3. /\ Stored(stack') /\ X(ip) \in 0..X(ip)
          /\ local' \in [DOMAIN code -> [0..1 -> Val]]
      BY <2>1, <2>2, AtFacts, LabelFacts, OperandFacts
    <2>4. CASE BranchIn(X(ip))
      BY <2>1, <2>2, <2>3, <2>4, BranchStep
    <2>5. CASE ip' = Next(ip) /\ UNCHANGED <<blocks, stop>>
      BY <2>1, <2>2, <2>3, <2>5, OperateStep
    <2> QED
      BY <2>2, <2>4, <2>5
  <1>9. CASE BranchTable
    <2>1. At({"br_table"}) /\ {"br_table"} \in SUBSET Branches
      BY <1>9 DEF BranchTable, Branches
    <2>2. UNCHANGED <<parseVars, calls, local>> /\ stack' = After32(stack)
      BY <1>9 DEF BranchTable
    <2>3. PICK x \in 0..X(ip) : BranchIn(x)
      BY <1>9 DEF BranchTable
    <2>4. Stored(stack')
      BY <2>1, <2>2, AtFacts, OperandFacts
    <2> QED
      BY <2>1, <2>2, <2>3, <2>4, BranchStep
  <1>10. CASE Call
    <2>1. /\ ParserInv /\ RunOK(ip, blocks, calls, "no") /\ stop = "no"
          /\ ip # Null /\ Op(ip) = "call" /\ X(ip) # 0
          /\ local \in [DOMAIN code -> [0..1 -> Val]] /\ Stored(stack)
      BY <1>10, AtFacts DEF Call
    <2>2. CASE ip \in ToSet(blocks) \/ X(ip) \in ToSet(calls)
      BY <1>3, <1>10, <2>1, <2>2 DEF Call
    <2>3. CASE ~(ip \in ToSet(blocks) \/ X(ip) \in ToSet(calls))
      <3>1. /\ blocks' = Entered(blocks, ip) /\ ip' = First(list[Body(X(ip))])
            /\ calls' = Append(calls, X(ip))
            /\ UNCHANGED parseVars /\ stack' = After32(stack) /\ stop' = stop
            /\ local' = [local EXCEPT ![X(ip)][0] = readi32(stack)]
        BY <1>10, <2>3 DEF Call, EnterBlock, Entered
      <3>2. RunOK(First(list[Body(X(ip))]), Entered(blocks, ip), Append(calls, X(ip)), "no")
        BY <2>1, MoveCall
      <3>3. RunOK(ip, blocks, calls, stop)'
        BY <2>1, <3>1, <3>2, RunStays
      <3>4. Stored(stack') /\ readi32(stack) \in Val
        BY <2>1, <3>1, OperandFacts
      <3>5. local' \in [DOMAIN code -> [0..1 -> Val]]
        BY <2>1, <3>1, <3>4
      <3> QED
        BY <3>1, <3>3, <3>4, <3>5, InvStays
    <2> QED
      BY <2>2, <2>3
  <1>11. CASE CallExternal
    <2>1. /\ At({"call"}) /\ "end" \notin {"call"}
          /\ ip' = Next(ip) /\ UNCHANGED <<parseVars, blocks, calls, stop>> /\ local' = local
      BY <1>11 DEF CallExternal
    <2>2. PICK v \in Val : stack' = writei32(After32(stack), v)
      BY <1>11 DEF CallExternal
    <2>3. Stored(After32(stack)) /\ local' \in [DOMAIN code -> [0..1 -> Val]]
      BY <2>1, AtFacts, OperandFacts
    <2>4. Stored(stack')
      BY <2>2, <2>3, OperandFacts
    <2> QED
      BY <2>1, <2>3, <2>4, OperateStep
  <1>12. CASE Unreachable
    <2>1. /\ ParserInv /\ RunOK(ip, blocks, calls, "no") /\ stop = "no"
          /\ local \in [DOMAIN code -> [0..1 -> Val]] /\ Stored(stack)
      BY <1>12, AtFacts DEF Unreachable
    <2>2. /\ stop' = "task_exit" /\ ip' = ip /\ blocks' = blocks /\ calls' = calls
          /\ UNCHANGED parseVars /\ local' = local /\ stack' = stack
      BY <1>12 DEF Unreachable
    <2>3. RunOK(ip, blocks, calls, "task_exit")
      BY <2>1, MoveNowhere
    <2>4. RunOK(ip, blocks, calls, stop)'
      BY <2>2, <2>3, RunStays
    <2> QED
      BY <2>1, <2>2, <2>4, InvStays
  <1>13. ASSUME NEW ops, NEW s, Operate(ops, s), "end" \notin ops, Stored(s)
         PROVE  InterpInv'
    <2>1. /\ At(ops) /\ ip' = Next(ip) /\ UNCHANGED <<parseVars, blocks, calls, stop>>
          /\ local' = local /\ stack' = s
      BY <1>13 DEF Operate
    <2>2. local' \in [DOMAIN code -> [0..1 -> Val]]
      BY <2>1, AtFacts
    <2> QED
      BY <1>13, <2>1, <2>2, OperateStep
  <1>14. Stored(stack)
    BY DEF InterpInv, StoreInv
  <1>15. CASE LocalGet
    <2>1. Operate({"local.get"}, writei32(stack, local[Last(calls)][X(ip)]))
      BY <1>15 DEF LocalGet
    <2>2. At({"local.get"}) /\ {"local.get"} \in SUBSET {"local.get", "local.set"}
      BY <2>1 DEF Operate
    <2>3. Last(calls) \in DOMAIN code /\ X(ip) \in 0..1 /\ local \in [DOMAIN code -> [0..1 -> Val]]
      BY <2>2, LocalFacts, AtFacts
    <2>4. Stored(writei32(stack, local[Last(calls)][X(ip)]))
      BY <1>14, <2>3, OperandFacts
    <2> QED
      BY <1>13, <2>1, <2>4
  <1>16. CASE LocalSet
    <2>1. /\ At({"local.set"}) /\ {"local.set"} \in SUBSET {"local.get", "local.set"}
          /\ "end" \notin {"local.set"}
          /\ ip' = Next(ip) /\ UNCHANGED <<parseVars, blocks, calls, stop>>
          /\ local' = [local EXCEPT ![Last(calls)][X(ip)] = readi32(stack)] /\ stack' = After32(stack)
      BY <1>16 DEF LocalSet
    <2>2. Last(calls) \in DOMAIN code /\ X(ip) \in 0..1 /\ local \in [DOMAIN code -> [0..1 -> Val]]
      BY <2>1, LocalFacts, AtFacts
    <2>3. readi32(stack) \in Val /\ Stored(stack')
      BY <1>14, <2>1, OperandFacts
    <2>4. local' \in [DOMAIN code -> [0..1 -> Val]]
      BY <2>1, <2>2, <2>3
    <2> QED
      BY <2>1, <2>3, <2>4, OperateStep
  <1>17. CASE Const32
    <2>1. PICK v \in Val : Operate({"i32.const"}, writei32(stack, v))
      BY <1>17 DEF Const32
    <2>2. Stored(writei32(stack, v))
      BY <1>14, OperandFacts
    <2> QED
      BY <1>13, <2>1, <2>2
  <1>18. CASE Const64
    <2>1. PICK v \in Val \X Val : Operate({"i64.const"}, writei64(stack, v))
      BY <1>18 DEF Const64
    <2>2. Stored(writei64(stack, v))
      BY <1>14, OperandFacts
    <2> QED
      BY <1>13, <2>1, <2>2
  <1>19. Stored(After32(stack)) /\ Stored(After64(stack))
    BY <1>14, OperandFacts
  <1>20. Stored(After32(After32(stack))) /\ Stored(After32(After64(stack)))
    BY <1>19, OperandFacts
  <1>21. CASE Binary
    <2>1. PICK v \in Val : Operate({"i32.add"}, writei32(After32(After32(stack)), v))
      BY <1>21 DEF Binary
    <2>2. Stored(writei32(After32(After32(stack)), v))
      BY <1>20, OperandFacts
    <2> QED
      BY <1>13, <2>1, <2>2
  <1>22. CASE Load32
    <2>1. PICK v \in Val : Operate({"i32.load"}, writei32(After32(stack), v))
      BY <1>22 DEF Load32
    <2>2. Stored(writei32(After32(stack), v))
      BY <1>19, OperandFacts
    <2> QED
      BY <1>13, <2>1, <2>2
  <1>23. CASE Store32
    BY <1>13, <1>20, <1>23 DEF Store32
  <1>24. CASE Store64
    BY <1>13, <1>20, <1>24 DEF Store64
  <1>25. CASE Drop
    BY <1>13, <1>19, <1>25 DEF Drop
  <1>26. CASE UNCHANGED interpVars
    <2>1. UNCHANGED parseVars /\ ip' = ip /\ blocks' = blocks /\ calls' = calls
          /\ local' = local /\ stack' = stack /\ stop' = stop
      BY <1>26 DEF interpVars, runVars
    <2>2. RunOK(ip, blocks, calls, stop) /\ local \in [DOMAIN code -> [0..1 -> Val]]
      BY DEF InterpInv, StoreInv
    <2>3. RunOK(ip, blocks, calls, stop)'
      BY <2>1, <2>2, RunStays
    <2> QED
      BY <1>14, <2>1, <2>2, <2>3, InvStays
  <1> QED
    BY <1>1, <1>2, <1>4, <1>5, <1>6, <1>7, <1>8, <1>9, <1>10, <1>11, <1>12, <1>15, <1>16, <1>17, <1>18,
       <1>21, <1>22, <1>23, <1>24, <1>25, <1>26 DEF InterpNext

----------------------------------------------------------------------------
(* What the runs check                                                     *)

(* What the invariant says of the types.                                   *)
LEMMA InvTypes == InterpInv => InterpTypeOK
  <1> SUFFICES ASSUME InterpInv PROVE InterpTypeOK
    OBVIOUS
  <1>1. /\ code \in Programs /\ func \in 1..(Len(code) + 1) /\ cursor \in Nat /\ open \in Seq(Node)
        /\ list \in [Node -> Seq(Node)]
    BY DEF InterpInv, ParserInv, ParserTypeOK, ListInv, Good
  <1>2. func \in Nat
    BY <1>1, CodeFacts
  <1>3. /\ ip \in Node \cup {Null, Wild} /\ blocks \in Seq(Node) /\ calls \in Seq(DOMAIN code)
        /\ stop \in {"parsing", "unsupported", "no", "task_exit", "relinked", "no block"}
    BY ST!EmptySeq DEF InterpInv, RunOK, PathOK, Chained, Stops
  <1>4. local \in [DOMAIN code -> [0..1 -> Val]] /\ stack \in Seq(Val) /\ Len(stack) <= StackSize
    BY DEF InterpInv, StoreInv, Stored
  <1> QED
    BY <1>1, <1>2, <1>3, <1>4 DEF InterpTypeOK

(* What it says of the lists.                                              *)
LEMMA InvNested == InterpInv => ParsedAsNested
  <1> SUFFICES ASSUME InterpInv, Parsed, NEW n \in Node
               PROVE  /\ ToSet(list[n]) = {m \in Node : m[1] = n[1] /\ m[2] # 0 /\ Parent(code[n[1]], m[2]) = n[2]}
                      /\ \A i, j \in DOMAIN list[n] : i < j => list[n][i][2] < list[n][j][2]
    BY DEF ParsedAsNested
  <1> QED
    BY ListsAreNesting DEF InterpInv

(* What it says of the next instruction.                                   *)
LEMMA InvWild == InterpInv => NeverWild
  <1> SUFFICES ASSUME InterpInv PROVE NeverWild
    OBVIOUS
  <1>1. ip \in Node \cup {Null} /\ code \in Programs
    BY DEF InterpInv, RunOK, PathOK, ParserInv, ParserTypeOK
  <1> QED
    BY <1>1, NoNodes DEF NeverWild

(* What it says of how the interpreter breaks.                             *)
LEMMA InvBreaks == InterpInv => BreaksOnlyUnsupported
  <1> SUFFICES ASSUME InterpInv PROVE BreaksOnlyUnsupported
    OBVIOUS
  <1>1. BreakOK(stop)
    BY DEF InterpInv, RunOK
  <1> QED
    BY <1>1 DEF BreakOK, BreaksOnlyUnsupported

(* What it says of the frames.                                             *)
LEMMA InvFrames == InterpInv => FramesMatchCalls
  <1> SUFFICES ASSUME InterpInv, stop \in {"no", "task_exit"} PROVE FramesMatchCalls
    BY DEF FramesMatchCalls
  <1>1. Framed(calls, blocks)
    BY DEF InterpInv, RunOK, FrameOK
  <1>2. \A i : CallsIn(i) = CallsOf(blocks, i)
    BY DEF CallsIn, CallsOf
  <1>3. Head(calls) = calls[1]
    BY <1>1 DEF Framed
  <1> QED
    BY <1>1, <1>2, <1>3 DEF Framed, FramesMatchCalls

(* The invariant of the parser and the interpreter holds in every state,   *)
(* for any well-formed modules and any size of the stack.                  *)
THEOREM InterpInvariance == Spec => []InterpInv
  <1>1. InterpInit => InterpInv
    BY InterpInitInv
  <1>2. InterpInv /\ [InterpNext]_interpVars => InterpInv'
    BY InterpStepInv
  <1> QED
    BY <1>1, <1>2, PTL DEF Spec

(* The lists, the blocks, the frames, the locals and the operands keep     *)
(* their types; the operands never outgrow the stack.                      *)
THEOREM InterpTypeCorrect == Spec => []InterpTypeOK
  BY InterpInvariance, InvTypes, PTL

(* The lists of a module that parse_instr reads to its end are the nesting *)
(* of the code, whatever the code is (module.c:42-81).                     *)
THEOREM NestingCorrect == Spec => []ParsedAsNested
  BY InterpInvariance, InvNested, PTL

(* No instruction that is executed leads out of its list, whatever the     *)
(* code and whether it is supported or not (vm.c:383).                     *)
THEOREM NeverWildCorrect == Spec => []NeverWild
  BY InterpInvariance, InvWild, PTL

(* Only a recursion links a block or a frame that is linked, and only      *)
(* unsupported code branches out of all blocks (vm.c:78-155).              *)
THEOREM BreaksCorrect == Spec => []BreaksOnlyUnsupported
  BY InterpInvariance, InvBreaks, PTL

(* The calls among the blocks are the frames, in order (vm.c:96-181).      *)
THEOREM FramesCorrect == Spec => []FramesMatchCalls
  BY InterpInvariance, InvFrames, PTL
=============================================================================
