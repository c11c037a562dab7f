----------------------------- MODULE WasmModule -----------------------------
(***************************************************************************)
(* What the WASM standard says of a module: what _start finds when it      *)
(* begins.  A value is the sequence of its words, the low word last.       *)
(***************************************************************************)
EXTENDS Opcodes, SequencesExt

CONSTANTS PageBytes, Start, NULL

Items(sec)  == IF sec = NULL THEN <<>> ELSE sec
Exported(p) == {e \in ToSet(Items(p.exportsec)) : e.kind = 0 /\ e.name = Start}
EntryIndex(p) == (CHOOSE e \in Exported(p) : TRUE).idx + 1 - Len(Items(p.importsec))
Entry(p)    == p.codesec[EntryIndex(p)]

Wide(t)     == IF t = I64 THEN 2 ELSE 1
Value(t, n) == IF t = I64 THEN Words(n) ELSE <<Word(n)>>
Memory(p)   == IF p.memsec \in {NULL, <<>>} THEN 0 ELSE PageBytes * p.memsec[1].min
Begin(d)    == Int32(d.expr[1].n)

\* The types of the locals of the k-th function, parameters first.
LocalTypes(p, k) ==
    p.typesec[p.funcsec[k] + 1].rt1
    \o FlattenSeq([j \in DOMAIN p.codesec[k].locals |->
                      [l \in 1..p.codesec[k].locals[j].num |-> p.codesec[k].locals[j].ty]])

\* Straight code, how many operands an instruction takes, and the types of those it gives.
Straight == Loads \cup Stores \cup Indexed \cup Consts \cup Binaries \cup {I32Eqz, Drop, End}
Takes(op) ==
    CASE op \in Stores \cup Binaries                            -> 2
      [] op \in Loads \cup {I32Eqz, Drop, LocalSet, GlobalSet} -> 1
      [] OTHER                                                 -> 0
Gives(p, k, c) ==
    CASE c.op \in {I64Const, I64Load} -> <<I64>>
      [] c.op = LocalGet              -> <<LocalTypes(p, k)[c.n + 1]>>
      [] c.op = GlobalGet             -> <<p.globalsec[c.n + 1].ty>>
      [] c.op \in Stores \cup {LocalSet, GlobalSet, Drop, End} -> <<>>
      [] OTHER                        -> <<I32>>

\* The types of the operands after each instruction of the k-th function, the top last.
OperandTypes(p, k) ==
    LET s == p.codesec[k].expr
        after[j \in 0..Len(s)] ==
            IF j = 0 THEN <<>>
            ELSE SubSeq(after[j - 1], 1, Len(after[j - 1]) - Takes(s[j].op)) \o Gives(p, k, s[j])
    IN after

\* c finds the operands it takes.
Fits(p, k, c, ts) ==
    LET top(j) == ts[Len(ts) - j] IN
    /\ Len(ts) >= Takes(c.op)
    /\ c.op \in Loads \cup Binaries \cup {I32Eqz} => top(0) = I32
    /\ c.op \in Stores \cup Binaries => top(1) = I32
    /\ c.op \in Stores    => top(0) = IF c.op = I64Store THEN I64 ELSE I32
    /\ c.op = LocalSet   => top(0) = LocalTypes(p, k)[c.n + 1]
    /\ c.op = GlobalSet  => top(0) = p.globalsec[c.n + 1].ty

\* What validation promises of a module.
Valid(p) ==
    /\ \A j, k \in DOMAIN Items(p.exportsec) : p.exportsec[j].name = p.exportsec[k].name => j = k
    /\ \A e \in ToSet(Items(p.exportsec)) : e.kind = 0 => e.idx < Len(Items(p.importsec)) + Len(Items(p.funcsec))
    /\ \A d \in ToSet(Items(p.importsec)) : d.kind = 0 => d.idx + 1 \in DOMAIN Items(p.typesec)
    /\ \A d \in ToSet(Items(p.datasec)) : d.kind = 0 => d.expr[1].op = I32Const
    /\ \A g \in ToSet(Items(p.globalsec)) : <<g.ty, g.expr[1].op>> \in {<<I32, I32Const>>, <<I64, I64Const>>}
    /\ Len(Items(p.codesec)) = Len(Items(p.funcsec))
    /\ \A k \in DOMAIN Items(p.codesec) :
          /\ p.funcsec[k] + 1 \in DOMAIN Items(p.typesec)
          /\ LET s == p.codesec[k].expr IN
             /\ s # <<>> /\ s[Len(s)].op = End
             /\ \A c \in ToSet(s) :
                   /\ c.op \in {LocalGet, LocalSet} => c.n + 1 \in DOMAIN LocalTypes(p, k)
                   /\ c.op \in {GlobalGet, GlobalSet} => c.n + 1 \in DOMAIN Items(p.globalsec)
                   /\ c.op \in Loads \cup Stores => c.n >= 0 /\ p.memsec \notin {NULL, <<>>}
             /\ (\A c \in ToSet(s) : c.op \in Straight) =>
                   \A j \in DOMAIN s : Fits(p, k, s[j], OperandTypes(p, k)[j - 1])

\* A _start of the module itself, straight code that drops no i64; all imports functions, globals
\* i32, other values i32 or i64, less memory than half of the address space, segments active and
\* in bounds, nothing to run before _start, and no instruction the parser does not know.
Supported(p) ==
    /\ p.funcsec # NULL /\ p.memsec # <<>> /\ Exported(p) # {} /\ ~p.others
    /\ \A d \in ToSet(Items(p.importsec)) : d.kind = 0
    /\ \A f \in ToSet(Items(p.codesec)) : \A c \in ToSet(f.expr) : c.op \in Known
    /\ \A e \in Exported(p) : e.idx >= Len(Items(p.importsec))
    /\ \A g \in ToSet(Items(p.globalsec)) : g.ty = I32
    /\ Memory(p) < Limit \div 2
    /\ \A d \in ToSet(Items(p.datasec)) : d.kind = 0 /\ Begin(d) >= 0 /\ Begin(d) + Len(d.data) <= Memory(p)
    /\ LET k == EntryIndex(p)  s == Entry(p).expr IN
       /\ ToSet(LocalTypes(p, k)) \subseteq {I32, I64}
       /\ \A j \in DOMAIN s :
             /\ s[j].op \in Straight
             /\ s[j].op = Drop => LET ts == OperandTypes(p, k)[j - 1] IN ts[Len(ts)] = I32

\* Later segments over earlier ones.
InitialByte(p, a) ==
    LET ds   == Items(p.datasec)
        over == {k \in DOMAIN ds : a >= Begin(ds[k]) /\ a < Begin(ds[k]) + Len(ds[k].data)}
    IN IF over = {} THEN 0
       ELSE LET k == CHOOSE i \in over : \A j \in over : j <= i IN ds[k].data[a - Begin(ds[k]) + 1]

Instantiated(p) ==
    [status  |-> "running", pc |-> 1, ops |-> <<>>,
     mem     |-> [k \in 1..Memory(p) |-> InitialByte(p, k - 1)],
     globals |-> [k \in DOMAIN Items(p.globalsec) |-> Value(I32, p.globalsec[k].expr[1].n)],
     locals  |-> LET ts == LocalTypes(p, EntryIndex(p)) IN [k \in DOMAIN ts |-> Value(ts[k], 0)]]
=============================================================================
