------------------------------- MODULE Interp -------------------------------
(***************************************************************************)
(* The control of the interpreter (kernel/vm.c): ctx->blocks and           *)
(* ctx->call_stack, which link the instructions and functions themselves,  *)
(* the locals, which belong to a function and not to a call, and           *)
(* ctx->stack, the operands of all functions.  Each action is one          *)
(* invoke_i.  Each function has two locals, i32s; the results of           *)
(* arithmetic and what globals and linear memory hold are any values.      *)
(***************************************************************************)
EXTENDS Parser, Operands

CONSTANT Val

ASSUME ValAssumption == 0 \in Val

VARIABLES
    ip,           \* the argument of the next invoke_i
    blocks,       \* ctx->blocks
    calls,        \* ctx->call_stack
    local,        \* locals[...]->val of each function
    stack,        \* ctx->stack
    stop          \* why run_vm goes no further, or "no"

runVars == <<ip, blocks, calls, local, stack, stop>>
interpVars == <<parseVars, runVars>>

Null == <<0, 0>>
Wild == <<0, 1>>  \* a list header taken for an instruction

InterpInit ==
    /\ ParserInit
    /\ ip = Null
    /\ blocks = <<>>
    /\ calls = <<>>
    /\ local = [f \in DOMAIN code |-> [x \in 0..1 |-> 0]]
    /\ stack = <<>>
    /\ stop = "parsing"

\* list_head.
First(l) == IF l = <<>> THEN Null ELSE Head(l)

\* link.next of n.
Next(n) ==
    LET o == CHOOSE m \in DOMAIN list : n \in ToSet(list[m])
        i == CHOOSE j \in DOMAIN list[o] : list[o][j] = n
    IN IF i < Len(list[o]) THEN list[o][i + 1] ELSE Wild

\* create_context: the frame and the entry of _start.
Launch ==
    /\ Parsed /\ stop = "parsing"
    /\ calls' = <<Start>>
    /\ ip' = First(list[Body(Start)])
    /\ stop' = "no"
    /\ UNCHANGED <<parseVars, blocks, local, stack>>

\* parse_instr's default: the task exits while it reads the module.
ParseUnsupported ==
    /\ stop = "parsing"
    /\ Reading /\ Op(<<func, cursor>>) \in Unsupported
    /\ stop' = "unsupported"
    /\ UNCHANGED <<parseVars, ip, blocks, calls, local, stack>>

At(ops) == stop = "no" /\ ip \notin {Null, Wild} /\ Op(ip) \in ops

\* An element that is linked already is linked again: the model stops.
Relink == stop' = "relinked" /\ UNCHANGED <<parseVars, ip, blocks, calls, local, stack>>

EnterBlock == blocks' = Append(blocks, ip)

BlockOrLoop ==
    /\ At({"block", "loop"})
    /\ IF ip \in ToSet(blocks) THEN Relink
       ELSE /\ EnterBlock
            /\ ip' = First(list[ip])
            /\ UNCHANGED <<parseVars, calls, local, stack, stop>>

\* in2 was never initialised: its head is NULL and run_vm returns.
If ==
    /\ At({"if"})
    /\ IF ip \in ToSet(blocks) THEN Relink
       ELSE /\ EnterBlock
            /\ ip' = IF readi32(stack) # 0 THEN First(list[ip]) ELSE Null
            /\ stack' = After32(stack)
            /\ UNCHANGED <<parseVars, calls, local, stop>>

\* The end of the function forgets its frame.
Bug_End ==
    IF blocks = <<>> THEN ip' = Null /\ UNCHANGED <<blocks, calls>>
    ELSE /\ blocks' = Front(blocks)
         /\ ip' = Next(Last(blocks))
         /\ calls' = calls

\* The block is not left.
Bug_EndStays ==
    /\ ip' = IF blocks = <<>> THEN Null ELSE Next(Last(blocks))
    /\ UNCHANGED <<blocks, calls>>

\* end(): out of the innermost block, a call among them.
End ==
    IF blocks = <<>> THEN ip' = Null /\ UNCHANGED <<blocks, calls>>
    ELSE /\ blocks' = Front(blocks)
         /\ ip' = Next(Last(blocks))
         /\ calls' = IF Op(Last(blocks)) = "call" THEN Front(calls) ELSE calls

\* Return does what End does, in whatever block it is.
EndOrReturn ==
    /\ At({"end", "return"})
    /\ End
    /\ UNCHANGED <<parseVars, local, stack, stop>>

\* The loop is left as well.
Bug_BranchIn(x) ==
    LET rest == SubSeq(blocks, 1, Len(blocks) - x) IN
    IF blocks = <<>> THEN ip' = Null /\ UNCHANGED <<blocks, stop>>
    ELSE IF rest = <<>> THEN ip' = ip /\ blocks' = rest /\ stop' = "no block"
    ELSE CASE Op(Last(rest)) = "loop"  -> ip' = First(list[Last(rest)]) /\ blocks' = Front(rest) /\ UNCHANGED stop
           [] Op(Last(rest)) = "block" -> ip' = Next(Last(rest)) /\ blocks' = Front(rest) /\ UNCHANGED stop
           [] OTHER                    -> ip' = Null /\ blocks' = rest /\ UNCHANGED stop

\* branch_in(): x blocks are left without a look at what they are.  When none remains, the
\* op of a NULL block is read.
BranchIn(x) ==
    LET rest == SubSeq(blocks, 1, Len(blocks) - x) IN
    IF blocks = <<>> THEN ip' = Null /\ UNCHANGED <<blocks, stop>>
    ELSE IF rest = <<>> THEN ip' = ip /\ blocks' = rest /\ stop' = "no block"
    ELSE CASE Op(Last(rest)) = "loop"  -> ip' = First(list[Last(rest)]) /\ blocks' = rest /\ UNCHANGED stop
           [] Op(Last(rest)) = "block" -> ip' = Next(Last(rest)) /\ blocks' = Front(rest) /\ UNCHANGED stop
           [] OTHER                    -> ip' = Null /\ blocks' = rest /\ UNCHANGED stop

Branch ==
    /\ At({"br"})
    /\ BranchIn(X(ip))
    /\ UNCHANGED <<parseVars, calls, local, stack>>

BranchIf ==
    /\ At({"br_if"})
    /\ IF readi32(stack) # 0 THEN BranchIn(X(ip)) ELSE ip' = Next(ip) /\ UNCHANGED <<blocks, stop>>
    /\ stack' = After32(stack)
    /\ UNCHANGED <<parseVars, calls, local>>

\* Any label of the table, or the default.
BranchTable ==
    /\ At({"br_table"})
    /\ \E x \in 0..X(ip) : BranchIn(x)
    /\ stack' = After32(stack)
    /\ UNCHANGED <<parseVars, calls, local>>

\* invoke_f of a function of the module: its parameter is set, its other local stays.
Call ==
    /\ At({"call"}) /\ X(ip) # 0
    /\ IF ip \in ToSet(blocks) \/ X(ip) \in ToSet(calls) THEN Relink
       ELSE /\ EnterBlock
            /\ calls' = Append(calls, X(ip))
            /\ local' = [local EXCEPT ![X(ip)][0] = readi32(stack)]
            /\ stack' = After32(stack)
            /\ ip' = First(list[Body(X(ip))])
            /\ UNCHANGED <<parseVars, stop>>

\* The frame of a kernel function stays.
Bug_CallExternal ==
    /\ At({"call"}) /\ X(ip) = 0
    /\ \E v \in Val : stack' = writei32(After32(stack), v)
    /\ ip' = Next(ip)
    /\ calls' = Append(calls, 0)
    /\ UNCHANGED <<parseVars, blocks, local, stop>>

\* invoke_f of a kernel function: its block and its frame are entered and left again.
CallExternal ==
    /\ At({"call"}) /\ X(ip) = 0
    /\ \E v \in Val : stack' = writei32(After32(stack), v)
    /\ ip' = Next(ip)
    /\ UNCHANGED <<parseVars, blocks, calls, local, stop>>

\* An instruction that only leaves the operand stack s.
Operate(ops, s) ==
    /\ At(ops)
    /\ stack' = s
    /\ ip' = Next(ip)
    /\ UNCHANGED <<parseVars, blocks, calls, local, stop>>

\* The local of whatever frame is last.
LocalGet == Operate({"local.get"}, writei32(stack, local[Last(calls)][X(ip)]))

LocalSet ==
    /\ At({"local.set"})
    /\ local' = [local EXCEPT ![Last(calls)][X(ip)] = readi32(stack)]
    /\ stack' = After32(stack)
    /\ ip' = Next(ip)
    /\ UNCHANGED <<parseVars, blocks, calls, stop>>

Const32 == \E v \in Val : Operate({"i32.const"}, writei32(stack, v))
Const64 == \E v \in Val \X Val : Operate({"i64.const"}, writei64(stack, v))
Binary  == \E v \in Val : Operate({"i32.add"}, writei32(After32(After32(stack)), v))
Load32  == \E v \in Val : Operate({"i32.load"}, writei32(After32(stack), v))
Store32 == Operate({"i32.store"}, After32(After32(stack)))
Store64 == Operate({"i64.store"}, After32(After64(stack)))

\* Whatever the type of what is dropped.
Drop == Operate({"drop"}, After32(stack))

\* task_exit does not come back.
Unreachable ==
    /\ At({"unreachable"})
    /\ stop' = "task_exit"
    /\ UNCHANGED <<parseVars, ip, blocks, calls, local, stack>>

InterpNext ==
    \/ Parse /\ UNCHANGED runVars
    \/ ParseUnsupported \/ Launch
    \/ BlockOrLoop \/ If \/ EndOrReturn \/ Branch \/ BranchIf \/ BranchTable
    \/ Call \/ CallExternal \/ Unreachable
    \/ LocalGet \/ LocalSet \/ Const32 \/ Const64 \/ Load32 \/ Binary \/ Store32 \/ Store64 \/ Drop

Spec == InterpInit /\ [][InterpNext]_interpVars

----------------------------------------------------------------------------
(* What is true of the parser and the interpreter                          *)

InterpTypeOK ==
    /\ func \in Nat /\ cursor \in Nat
    /\ open \in Seq(Node)
    /\ list \in [Node -> Seq(Node)]
    /\ ip \in Node \cup {Null, Wild}
    /\ blocks \in Seq(Node)
    /\ calls \in Seq(DOMAIN code)
    /\ local \in [DOMAIN code -> [0..1 -> Val]]
    /\ stack \in Seq(Val) /\ Len(stack) <= StackSize
    /\ stop \in {"parsing", "unsupported", "no", "task_exit", "relinked", "no block"}

(* The lists module.c:42-81 builds are the nesting of the code: a list     *)
(* holds the instructions directly inside its block, in order, and ends    *)
(* with the block's end.                                                   *)
ParsedAsNested ==
    Parsed /\ stop = "parsing" =>
        \A n \in Node :
            /\ ToSet(list[n]) = {m \in Node : m[1] = n[1] /\ m[2] # 0 /\ Parent(code[n[1]], m[2]) = n[2]}
            /\ \A i, j \in DOMAIN list[n] : i < j => list[n][i][2] < list[n][j][2]

(* No instruction leads out of its list: the link of the last one, which   *)
(* is the list's header, is never taken for an instruction (vm.c:383).     *)
NeverWild == ip # Wild

(* A block or a frame is linked twice only when a function calls itself,   *)
(* directly or not (vm.c:78, vm.c:88), and a branch out of all blocks is   *)
(* only in code the interpreter does not support (vm.c:147-155).           *)
BreaksOnlyUnsupported ==
    /\ stop = "relinked" => Recursive(code)
    /\ stop = "no block" => ~Supported(code, StackSize)

\* The calls among the first i blocks.
CallsIn(i) == {j \in 1..i : Op(blocks[j]) = "call"}

(* The calls among the blocks are the frames, in order: end() pops both or *)
(* neither, and no branch pops a call (vm.c:96-181).                       *)
FramesMatchCalls ==
    stop \in {"no", "task_exit"} =>
        /\ Len(calls) = 1 + Cardinality(CallsIn(Len(blocks)))
        /\ Head(calls) = Start
        /\ \A i \in CallsIn(Len(blocks)) : calls[1 + Cardinality(CallsIn(i))] = X(blocks[i])
=============================================================================
