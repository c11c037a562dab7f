-------------------------- MODULE InterpRefinement --------------------------
(***************************************************************************)
(* The interpreter implements Wasm: the activations, out of ctx->blocks,   *)
(* ctx->call_stack and ctx->stack.  The calls among the blocks separate    *)
(* the blocks of one activation from those of the next, and the types of   *)
(* the operands at its position say how many words are its own.  A program *)
(* the interpreter does not support maps to one that does nothing.         *)
(***************************************************************************)
EXTENDS Interp

VARIABLES
    supported, types        \* of code: they stay what they are

RefinementInit ==
    /\ InterpInit
    /\ supported = Supported(code, StackSize)
    /\ types = [f \in DOMAIN code |-> Types(code[f])]

RefinementSpec ==
    RefinementInit /\ [][InterpNext /\ UNCHANGED <<supported, types>>]_<<interpVars, supported, types>>

codeBar == IF supported THEN code ELSE <<<<[op |-> "end", x |-> 0]>>>>

\* The place in `blocks` of the call the k-th frame made.
Cut(k) ==
    IF k = 0 THEN 0 ELSE IF k = Len(calls) THEN Len(blocks) + 1
    ELSE CHOOSE i \in DOMAIN blocks :
            Op(blocks[i]) = "call" /\ Cardinality({j \in 1..i : Op(blocks[j]) = "call"}) = k

\* The types of the k-th frame's operands; a caller's argument is gone.
TypesAt(k) ==
    LET T == types[calls[k]]
    IN IF k = Len(calls) THEN T[ip[2]] ELSE Kept(T[blocks[Cut(k)][2]], code[calls[k]][blocks[Cut(k)][2]])

\* The words of the first k frames.
Below(k) ==
    LET w[j \in 0..k] == IF j = 0 THEN 0 ELSE w[j - 1] + Words(TypesAt(j)) IN w[k]

\* A value of type t that ends at word n.
Value(t, n) == IF t = 1 THEN stack[n] ELSE <<stack[n - 1], stack[n]>>

opsBar(k) ==
    LET t == TypesAt(k)
    IN [i \in DOMAIN t |-> Value(t[i], Below(k - 1) + Words(SubSeq(t, 1, i)))]

\* The local 1 of a function is what the call before left until this call gives it a value.
localBar(f, pc) ==
    IF f # Start /\ \A i \in Declared(code[f]) : pc <= i THEN [local[f] EXCEPT ![1] = 0] ELSE local[f]

NoLocals == [x \in 0..1 |-> 0]

actsBar ==
    IF ~supported \/ stop = "parsing"
    THEN <<[func |-> Start, pc |-> 1, labels |-> <<>>, local |-> NoLocals, ops |-> <<>>]>>
    ELSE IF ip = Null \/ stop = "task_exit" THEN <<>>
    ELSE IF Len(stack) # Below(Len(calls)) THEN <<[func |-> 0, pc |-> 0, labels |-> <<>>, local |-> NoLocals, ops |-> <<>>]>>
    ELSE [k \in DOMAIN calls |->
            [func   |-> calls[k],
             pc     |-> IF k = Len(calls) THEN ip[2] ELSE blocks[Cut(k)][2] + 1,
             labels |-> [j \in 1..(Cut(k) - Cut(k - 1) - 1) |->
                            LET n == blocks[Cut(k - 1) + j][2]
                            IN [pos |-> n, height |-> Len(types[calls[k]][n])]],
             local  |-> localBar(calls[k], IF k = Len(calls) THEN ip[2] ELSE blocks[Cut(k)][2] + 1),
             ops    |-> opsBar(k)]]

W == INSTANCE Wasm WITH code <- codeBar, acts <- actsBar

(* Every invoke_i of a supported program is the step WASM defines for that *)
(* instruction (vm.c:96-181, vm.c:382-509, vm.c:916-934): blocks, loops,   *)
(* branches, calls, each call's own locals and its operands; and the        *)
(* program goes on until WASM says it has ended.                           *)
ImplementsWasm == W!Spec
=============================================================================
