----------------------------- MODULE WasmStore -----------------------------
(***************************************************************************)
(* What the WASM standard says of a module and of the straight code of its *)
(* _start: the store it starts with and what each instruction does to it.  *)
(* A value is the sequence of its words, low word last.  What traps in     *)
(* WASM is not promised by this embedder, nor are modules that are not     *)
(* Supported: their store is Undefined.                                    *)
(***************************************************************************)
EXTENDS WasmModule

CONSTANT StackSize

VARIABLES
    program,
    store

Undefined == [status |-> "undefined"]

Init == store = IF Supported(program) THEN [status |-> "loading"] ELSE Undefined

Instantiate ==
    /\ store.status = "loading"
    /\ store' = Instantiated(program)

----------------------------------------------------------------------------
Instr  == Entry(program).expr[store.pc]
Arg(k) == store.ops[Len(store.ops) - k]
Word1(k) == Arg(k)[1]

\* The store with n operands fewer, then the values vs more.
Ahead(n, vs) == [store EXCEPT !.pc = @ + 1, !.ops = SubSeq(@, 1, Len(@) - n) \o vs]

Width8(op) == CASE op \in {I32Load, I32Store} -> 4 [] op \in {I64Load, I64Store} -> 8
                [] op = I32Load16_u -> 2 [] OTHER -> 1

\* An address is not negative, and does not wrap.
Effective == Word1(IF Instr.op \in Stores THEN 1 ELSE 0) + Instr.n
OutOfBounds == Instr.op \in Loads \cup Stores /\ Effective + Width8(Instr.op) > Len(store.mem)
NotDivided ==
    Instr.op \in Divisions /\ (Word1(0) = 0 \/ (Word1(0) = Limit - 1 /\ Word1(1) = Limit \div 2))
Read(n) == SubSeq(store.mem, Effective + 1, Effective + n)
LoadedValue(op) ==
    CASE op = I64Load    -> <<Number(SubSeq(Read(8), 5, 8)), Number(Read(4))>>
      [] op = I32Load8_s -> <<IF Read(1)[1] >= Base \div 2 THEN Read(1)[1] + Limit - Base ELSE Read(1)[1]>>
      [] OTHER           -> <<Number(Read(Width8(op)))>>
StoredByte(op, k) ==
    LET w == IF k > 4 THEN Arg(0)[1] ELSE Arg(0)[Len(Arg(0))] IN (w \div Weight(((k - 1) % 4) + 1)) % Base

Signed(w) == IF w >= Limit \div 2 THEN w - Limit ELSE w
Holds(op, a, b) ==
    \/ op = I32Eq /\ a = b
    \/ op = I32Ne /\ a # b
    \/ op = I32Gt_u /\ a > b
    \/ op = I32Lt_s /\ Signed(a) < Signed(b)
    \/ op = I32Gt_s /\ Signed(a) > Signed(b)
    \/ op = I32Ge_s /\ Signed(a) >= Signed(b)
Relations == {I32Eq, I32Ne, I32Lt_s, I32Gt_s, I32Gt_u, I32Ge_s}

\* The k-th bit of a word, and the word that has the bits b.
Bit(w, k) == (w \div 2^k) % 2
Bits(b)   == LET upTo[k \in 0..Width] == IF k = 0 THEN 0 ELSE upTo[k - 1] + b[k - 1] * 2^(k - 1) IN upTo[Width]
Places    == 0..(Width - 1)

Shift(b) == b % Width

Calculated(op, a, b) ==
    CASE op = I32Add -> (a + b) % Limit
      [] op = I32Sub -> (a + Limit - b) % Limit
      [] op = I32Mul -> (a * b) % Limit
      [] op = I32Div_s -> Quotient(Signed(a), Signed(b)) % Limit
      [] op = I32Rem_s -> (Signed(a) - Signed(b) * Quotient(Signed(a), Signed(b))) % Limit
      [] op = I32And -> Bits([k \in Places |-> Bit(a, k) * Bit(b, k)])
      [] op = I32Or  -> Bits([k \in Places |-> IF Bit(a, k) + Bit(b, k) = 0 THEN 0 ELSE 1])
      [] op = I32Xor -> Bits([k \in Places |-> (Bit(a, k) + Bit(b, k)) % 2])
      [] op = I32Shl -> Bits([k \in Places |-> IF k < Shift(b) THEN 0 ELSE Bit(a, k - Shift(b))])
      [] op = I32Shr_s -> Bits([k \in Places |-> Bit(a, IF k + Shift(b) < Width THEN k + Shift(b) ELSE Width - 1)])

Step ==
    LET op == Instr.op n == Instr.n + 1 IN
    CASE op = End -> [store EXCEPT !.status = "returned"]
      [] op \in Consts -> Ahead(0, <<Value(IF op = I64Const THEN I64 ELSE I32, Instr.n)>>)
      [] op = Drop -> Ahead(1, <<>>)
      [] op = LocalGet  -> Ahead(0, <<store.locals[n]>>)
      [] op = GlobalGet -> Ahead(0, <<store.globals[n]>>)
      [] op = LocalSet  -> [Ahead(1, <<>>) EXCEPT !.locals[n] = Arg(0)]
      [] op = GlobalSet -> [Ahead(1, <<>>) EXCEPT !.globals[n] = Arg(0)]
      [] op \in Loads   -> Ahead(1, <<LoadedValue(op)>>)
      [] op \in Stores  ->
            [Ahead(2, <<>>) EXCEPT !.mem =
                [a \in DOMAIN @ |-> IF a - Effective \in 1..Width8(op) THEN StoredByte(op, a - Effective) ELSE @[a]]]
      [] op = I32Eqz    -> Ahead(1, <<<<IF Word1(0) = 0 THEN 1 ELSE 0>>>>)
      [] op \in Relations -> Ahead(2, <<<<IF Holds(op, Word1(1), Word1(0)) THEN 1 ELSE 0>>>>)
      [] OTHER -> Ahead(2, <<<<Calculated(op, Word1(1), Word1(0))>>>>)

Overflows == Len(FlattenSeq(Step.ops)) > StackSize
Traps == OutOfBounds \/ NotDivided \/ Overflows

Execute ==
    /\ store.status = "running"
    /\ store' = IF Traps THEN Undefined ELSE Step

Next == (Instantiate \/ Execute) /\ program' = program

Spec == Init /\ [][Next]_<<program, store>>
=============================================================================
