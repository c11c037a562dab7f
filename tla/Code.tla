-------------------------------- MODULE Code --------------------------------
(***************************************************************************)
(* The code section of a WASM module as the compiler writes it: for each   *)
(* function the flat sequence of its instructions.  Instructions are their *)
(* op of module.h, with x, the label, the function or the local, where     *)
(* they have one.  Function 0 is imported from the kernel.  _start takes   *)
(* and returns nothing, the others an i32, their local 0; local 1 is no    *)
(* parameter.  Blocks take and leave nothing.  An op                       *)
(* stands for all that take and push the same: "i32.const" for global.get, *)
(* "i32.load" for i32.eqz, "i32.add" for arithmetic and comparison.        *)
(***************************************************************************)
EXTENDS Naturals, FiniteSets, SequencesExt

Start     == 1                          \* the exported _start
Openers   == {"block", "loop", "if"}
Branches  == {"br", "br_if", "br_table"}
Leaves    == {"br", "br_table", "return", "unreachable"}

Count(s, ops, i, j) == Cardinality({k \in i..j : s[k].op \in ops})

\* The "end" that closes the opener at i.
Match(s, i) ==
    Min({k \in (i + 1)..Len(s) : Count(s, Openers, i, k) = Count(s, {"end"}, i, k)} \cup {Len(s) + 1})

\* The openers whose block position i is in.
Enclosing(s, i) == {j \in 1..(i - 1) : s[j].op \in Openers /\ i < Match(s, j)}

\* The block i is in, 0 for the function; a block's end is in it.
Parent(s, i) ==
    LET around == {j \in 1..(i - 1) : s[j].op \in Openers /\ i <= Match(s, j)}
    IN IF around = {} THEN 0 ELSE Max(around)

----------------------------------------------------------------------------
(* The types on the operand stack before each instruction, as their words, *)
(* 1 for an i32 and 2 for an i64.                                          *)

Unreached == <<0>>

Takes(t, c) ==
    CASE c.op \in {"if", "br_if", "br_table", "local.set", "call"} -> <<1>>
      [] c.op = "drop"      -> <<IF t = <<>> THEN 1 ELSE Last(t)>>
      [] c.op = "i32.load"  -> <<1>>
      [] c.op \in {"i32.add", "i32.store"} -> <<1, 1>>
      [] c.op = "i64.store" -> <<1, 2>>
      [] OTHER              -> <<>>

Gives(c) ==
    CASE c.op \in {"i32.const", "i32.load", "i32.add", "local.get", "call"} -> <<1>>
      [] c.op = "i64.const" -> <<2>>
      [] OTHER              -> <<>>

Kept(t, c) == SubSeq(t, 1, Len(t) - Len(Takes(t, c)))

\* The types after the next instruction, if T are those before each one so far.
NextTypes(s, T, c) ==
    LET i == Len(T)
        j == Parent(s, i)
    IN CASE c.op \in Leaves          -> Unreached
         [] c.op \in {"end", "else"} -> IF j = 0 THEN <<>> ELSE Kept(T[j], s[j])
         [] OTHER                    -> Kept(T[i], c) \o Gives(c)

Types(s) ==
    LET upTo[i \in 0..Len(s)] ==
            IF i = 0 THEN <<<<>>>> ELSE LET T == upTo[i - 1] IN Append(T, NextTypes(s, T, s[i]))
    IN upTo[Len(s)]

Words(t) == Len(t) + Cardinality({i \in DOMAIN t : t[i] = 2})

\* A validator accepts instruction i, and it can be reached.
TypedAt(s, i, result) ==
    LET T == Types(s)
        p == Parent(s, i)
        base == IF p = 0 THEN <<>> ELSE Kept(T[p], s[p])
        top(t) == T[i] # Unreached /\ IsSuffix(t, T[i]) /\ Len(T[i]) - Len(t) >= Len(base)
    IN CASE s[i].op \in {"end", "else"} -> T[i] \in {Unreached, base \o (IF p = 0 THEN result ELSE <<>>)}
         [] s[i].op = "return"          -> top(result)
         [] OTHER                       -> top(Takes(T[i], s[i]))

\* Blocks end inside the function; label x is one of the blocks around i, or the function,
\* but in a function with a result, which a branch to it would take along, one of the blocks.
NestedAt(s, i, result) ==
    /\ i < Len(s) => Count(s, {"end"}, 1, i) <= Count(s, Openers, 1, i)
    /\ s[i].op \in Branches => s[i].x < Cardinality(Enclosing(s, i)) + (IF result = <<>> THEN 1 ELSE 0)
    /\ s[i].op = "else" =>
        /\ Enclosing(s, i) # {}
        /\ s[Max(Enclosing(s, i))].op = "if"
        /\ \A j \in 1..(i - 1) :
              s[j].op = "else" => Enclosing(s, j) # Enclosing(s, i)

Result(f) == IF f = Start THEN <<>> ELSE <<1>>

\* Where s reads or writes the local that is no parameter.
Declared(s) == {i \in DOMAIN s : s[i].op \in {"local.get", "local.set"} /\ s[i].x = 1}

WellFormed(s, f) ==
    /\ s # <<>> /\ s[Len(s)].op = "end"
    /\ Count(s, {"end"}, 1, Len(s)) = Count(s, Openers, 1, Len(s)) + 1
    /\ \A i \in DOMAIN s : NestedAt(s, i, Result(f)) /\ TypedAt(s, i, Result(f))

----------------------------------------------------------------------------
(* The functions a call of f leads to.                                     *)

Callees(code, f) == {g \in DOMAIN code : \E i \in DOMAIN code[f] : code[f][i] = [op |-> "call", x |-> g]}
Reached(code, f) ==
    {g \in DOMAIN code : \A S \in SUBSET DOMAIN code :
        Callees(code, f) \subseteq S /\ (\A h \in S : Callees(code, h) \subseteq S) => g \in S}
Recursive(code) == \E f \in DOMAIN code : f \in Reached(code, f)

\* What the interpreter executes as WASM means it: a function that is called gives its local
\* 1 a value, outside of blocks, before anything else it does with it; no "if", "return" outside of blocks,
\* branches to blocks and not to the function, no values left behind by either, no drop of
\* an i64, no recursion, and no more operands than there is room for.
Supported(code, size) ==
    /\ ~Recursive(code)
    /\ \A f \in DOMAIN code \ {Start} :
        LET s == code[f] IN
        Declared(s) # {} => s[Min(Declared(s))].op = "local.set" /\ Enclosing(s, Min(Declared(s))) = {}
    /\ \A f \in DOMAIN code : \A i \in DOMAIN code[f] :
        LET s == code[f]
            T == Types(s)
            c == s[i]
            around == Enclosing(s, i)
        IN /\ c.op \notin {"if", "else"}
           /\ c.op = "return" => around = {} /\ T[i] = Result(f)
           /\ c.op \in Branches =>
                /\ c.x < Cardinality(around)
                /\ \A j \in around :
                    Cardinality({k \in around : k > j}) = c.x \/ (c.op = "br_table" /\ Cardinality({k \in around : k > j}) < c.x)
                        => Kept(T[i], c) = T[j]
           /\ c.op = "drop" => Last(T[i]) = 1
    /\ size >= FoldFunction(+, 0, [f \in DOMAIN code |-> LET T == Types(code[f]) IN Max({Words(T[i]) : i \in DOMAIN code[f]})])
=============================================================================
