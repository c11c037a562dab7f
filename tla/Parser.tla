------------------------------- MODULE Parser -------------------------------
(***************************************************************************)
(* How kernel/module.c turns the code section into lists of instructions,  *)
(* one list for each function and one inside each block.  An instruction   *)
(* is the pair of its function and its position; list[<<f, 0>>] is f's     *)
(* expr, list[n] is n's block.in or If.in1.  parse_instr calls itself for  *)
(* what is inside a block: `open` are the calls under way.                 *)
(***************************************************************************)
EXTENDS Code

CONSTANT Programs           \* the modules that are parsed and run

ASSUME ProgramAssumption ==
    \A p \in Programs :
        /\ p \in Seq(Seq([op : STRING, x : Nat]))
        /\ Start \in DOMAIN p
        /\ \A f \in DOMAIN p : WellFormed(p[f], f)
        /\ \A f \in DOMAIN p : \A i \in DOMAIN p[f] :
            /\ p[f][i].op = "call" => p[f][i].x \in DOMAIN p \cup {0}
            /\ p[f][i].op \in {"local.get", "local.set"} => p[f][i].x \in 0..1

VARIABLES
    code,         \* the bytes of the code section
    func,         \* the function parse_codesec is at
    cursor,       \* the next instruction in its buffer
    open,
    list

parseVars == <<code, func, cursor, open, list>>

Node == UNION {{f} \X (0..Len(code[f])) : f \in DOMAIN code}
Op(n) == code[n[1]][n[2]].op
X(n)  == code[n[1]][n[2]].x
Body(f) == <<f, 0>>

ParserInit ==
    /\ code \in Programs
    /\ func = 1
    /\ cursor = 1
    /\ open = <<>>
    /\ list = [n \in Node |-> <<>>]

\* Where the k-th call under way, or parse_func, puts what it reads.
Owner(k) == IF k = 0 THEN Body(func) ELSE open[k]

Reading == func \in DOMAIN code /\ cursor <= Len(code[func])

\* A block: parse_instr goes on with what is inside.
ParseBlock ==
    LET n == <<func, cursor>> IN
    /\ Reading
    /\ Op(n) \in Openers
    /\ cursor' = cursor + 1
    /\ open' = Append(open, n)
    /\ UNCHANGED <<code, func, list>>

\* parse_instr has no case for these; "else" stands for all of them.  At one the task exits
\* while it reads the module, and the parser does not go on.
Unsupported == {"else"}

\* n ends the block under way.  No else gets as far as the comparisons with Else.
Ends(n) == open # <<>> /\ Op(n) = "end"

\* The end of a block is not put into its list.
Bug_ParseInstr ==
    LET n == <<func, cursor>>
        k == Len(open)
    IN
    /\ Reading
    /\ Op(n) \notin Openers \cup Unsupported
    /\ cursor' = cursor + 1
    /\ IF Ends(n)
       THEN /\ list' = [list EXCEPT ![Owner(k - 1)] = Append(@, Owner(k))]
            /\ open' = Front(open)
       ELSE /\ list' = [list EXCEPT ![Owner(k)] = Append(@, n)]
            /\ open' = open
    /\ UNCHANGED <<code, func>>

\* Anything else is complete when it is read, and may complete the block it is in.
ParseInstr ==
    LET n == <<func, cursor>>
        k == Len(open)
    IN
    /\ Reading
    /\ Op(n) \notin Openers \cup Unsupported
    /\ cursor' = cursor + 1
    /\ IF Ends(n)
       THEN /\ list' = [list EXCEPT ![Owner(k)] = Append(@, n), ![Owner(k - 1)] = Append(@, Owner(k))]
            /\ open' = Front(open)
       ELSE /\ list' = [list EXCEPT ![Owner(k)] = Append(@, n)]
            /\ open' = open
    /\ UNCHANGED <<code, func>>

ParseNextFunc ==
    /\ func \in DOMAIN code /\ cursor > Len(code[func])
    /\ func' = func + 1
    /\ cursor' = 1
    /\ UNCHANGED <<code, open, list>>

Parse  == ParseBlock \/ ParseInstr \/ ParseNextFunc
Parsed == func \notin DOMAIN code
=============================================================================
