------------------------------ MODULE Operands ------------------------------
(***************************************************************************)
(* The operand stack of a program: a buffer of kernel/buffer.c that        *)
(* newstack fills from its end.  It is a sequence of words, the top last;  *)
(* an i32 is one word, an i64 two, its low word on top.  What is read from *)
(* a stack that holds too little is 0, and what is written to one that has *)
(* no room is dropped; neither moves the cursor.                           *)
(***************************************************************************)
EXTENDS Naturals, Sequences

CONSTANT StackSize          \* in words

ASSUME StackAssumption == StackSize \in Nat \ {0}

Popped(s, n) == SubSeq(s, 1, Len(s) - n)

\* readi32: what it returns, and the stack it leaves.
readi32(s) == IF s = <<>> THEN 0 ELSE s[Len(s)]
After32(s) == IF s = <<>> THEN s ELSE Popped(s, 1)

\* readi64, which wants both words; an i64 is the pair of them.
readi64(s) == IF Len(s) < 2 THEN <<0, 0>> ELSE <<s[Len(s) - 1], s[Len(s)]>>
After64(s) == IF Len(s) < 2 THEN s ELSE Popped(s, 2)

writei32(s, v) == IF Len(s) + 1 > StackSize THEN s ELSE Append(s, v)
writei64(s, v) == IF Len(s) + 2 > StackSize THEN s ELSE s \o v
=============================================================================
