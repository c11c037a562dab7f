-------------------------------- MODULE Wasm --------------------------------
(***************************************************************************)
(* What the interpreter promises: structured control.  An activation of a  *)
(* function has its position in the code, its own locals, its own operands, *)
(* and the blocks it is in, each with the number of operands below it.  A  *)
(* branch to a block goes on behind its end, one to a loop at its          *)
(* beginning; both leave every block inside and its operands.              *)
(***************************************************************************)
EXTENDS Code

CONSTANT Val

VARIABLES
    code,
    acts          \* the activations, the running one last; empty when the program has ended

Activation(f, v) == [func |-> f, pc |-> 1, labels |-> <<>>, local |-> [x \in 0..1 |-> IF x = 0 THEN v ELSE 0], ops |-> <<>>]

Init == acts = <<Activation(Start, 0)>>

Top     == acts[Len(acts)]
Body    == code[Top.func]
Instr   == Body[Top.pc]
Callers == SubSeq(acts, 1, Len(acts) - 1)
Arg     == Top.ops[Len(Top.ops)]
Goto(a) == acts' = Append(Callers, a)

\* The next instruction, with n operands popped and those of s pushed.
Ahead(n, s) == [Top EXCEPT !.pc = @ + 1, !.ops = SubSeq(@, 1, Len(@) - n) \o s]

Enter ==
    /\ Instr.op \in {"block", "loop"}
    /\ Goto([Ahead(0, <<>>) EXCEPT !.labels = Append(@, [pos |-> Top.pc, height |-> Len(Top.ops)])])

Leave ==
    /\ Instr.op = "end" /\ Top.labels # <<>>
    /\ Goto([Ahead(0, <<>>) EXCEPT !.labels = Front(@)])

\* A branch to the x-th block, counted from the innermost, 0.
Branch(x) ==
    LET n == Len(Top.labels) - x
        target == Top.labels[n]
        loop == Body[target.pos].op = "loop"
    IN Goto([Top EXCEPT
            !.pc     = IF loop THEN target.pos + 1 ELSE Match(Body, target.pos) + 1,
            !.labels = SubSeq(@, 1, IF loop THEN n ELSE n - 1),
            !.ops    = SubSeq(@, 1, target.height)])

Jump ==
    \/ Instr.op = "br" /\ Branch(Instr.x)
    \/ Instr.op = "br_if" /\ IF Arg # 0 THEN Branch(Instr.x) ELSE Goto(Ahead(1, <<>>))
    \/ Instr.op = "br_table" /\ \E x \in 0..Instr.x : Branch(x)

\* A function of the module, or one of the kernel.
Call ==
    /\ Instr.op = "call"
    /\ IF Instr.x # 0 THEN acts' = Callers \o <<Ahead(1, <<>>), Activation(Instr.x, Arg)>>
       ELSE \E v \in Val : Goto(Ahead(1, <<v>>))

Return ==
    /\ Instr.op = "return" \/ (Instr.op = "end" /\ Top.labels = <<>>)
    /\ acts' = IF Top.func = Start THEN <<>>
               ELSE [Callers EXCEPT ![Len(Callers)].ops = Append(@, Arg)]

Plain ==
    \/ Instr.op = "i32.const" /\ \E v \in Val : Goto(Ahead(0, <<v>>))
    \/ Instr.op = "i64.const" /\ \E v \in Val \X Val : Goto(Ahead(0, <<v>>))
    \/ Instr.op = "i32.add"   /\ \E v \in Val : Goto(Ahead(2, <<v>>))
    \/ Instr.op = "i32.load"  /\ \E v \in Val : Goto(Ahead(1, <<v>>))
    \/ Instr.op \in {"i32.store", "i64.store"} /\ Goto(Ahead(2, <<>>))
    \/ Instr.op = "drop"      /\ Goto(Ahead(1, <<>>))
    \/ Instr.op = "local.get" /\ Goto(Ahead(0, <<Top.local[Instr.x]>>))
    \/ Instr.op = "local.set" /\ Goto([Ahead(1, <<>>) EXCEPT !.local[Instr.x] = Arg])

Trap == Instr.op = "unreachable" /\ acts' = <<>>

Next ==
    /\ acts # <<>>
    /\ Enter \/ Leave \/ Jump \/ Call \/ Return \/ Plain \/ Trap
    /\ UNCHANGED code

Spec == Init /\ [][Next]_<<code, acts>>
=============================================================================
