----------------------------- MODULE InstanceMC -----------------------------
(* Modules with every combination of sections, and modules whose _start    *)
(* computes, loads and stores.  Bytes of two bits make words of eight.     *)
EXTENDS InstanceRefinement

MCStart == <<95>>
Else     == \h05
F32Add   == \h92
F32      == \h7d
Op(o)    == [op |-> o, n |-> 0]
C(o, n)  == [op |-> o, n |-> n]
Expr(n)  == <<C(I32Const, n), Op(End)>>
Type(p, r) == [rt1 |-> p, rt2 |-> r]
Bytes3   == <<1, 2, 3>>
Segment(n, s) == [kind |-> 0, expr |-> Expr(n), data |-> s]
Passive  == [kind |-> 1, expr |-> <<>>, data |-> <<1>>]
\* Its bytes are those of an active segment.
Buried   == [kind |-> 1, expr |-> <<>>, data |-> Format!Data(Segment(-2, <<1>>))]
Memory(n)  == <<[kind |-> 0, min |-> n, max |-> 0]>>
External(k, n) == [mod |-> <<1>>, nm |-> <<2, n>>, kind |-> k, idx |-> 0]
GlobalOf(t, n) == [ty |-> t, m |-> 1, expr |-> <<C(IF t = I64 THEN I64Const ELSE I32Const, n), Op(End)>>]
Export0(n) == [name |-> MCStart, kind |-> 0, idx |-> n]
Exports2(n) == <<[name |-> <<7, 8>>, kind |-> 2, idx |-> 0], Export0(n)>>

\* _start has two parameters and four locals, so that their order shows.
Frame(s) == [locals |-> <<[num |-> 2, ty |-> I32], [num |-> 2, ty |-> I64]>>, expr |-> s \o <<Op(End)>>]
Module(s) ==
    [typesec |-> <<Type(<<>>, <<>>), Type(<<I64>>, <<I32>>)>>, importsec |-> NULL, funcsec |-> <<0, 1>>,
     memsec |-> Memory(2), globalsec |-> <<GlobalOf(I32, 5)>>, exportsec |-> Exports2(0),
     codesec |-> <<Frame(s), Frame(<<C(I32Const, 1)>>)>>, datasec |-> <<Segment(0, <<3, 1, 0, 2>>), Segment(14, <<2, 3, 3>>)>>,
     others |-> FALSE]

\* A global of type i32, whose type is read as an index.
GlobalI32 == [External(3, 1) EXCEPT !.idx = I32]
Imports == {NULL, <<External(0, 1)>>, <<External(0, 1), External(0, 2)>>, <<External(0, 2), External(2, 1)>>,
            <<External(2, 1), External(0, 2)>>, <<GlobalI32>>}
Datas   == {NULL, <<>>, <<Segment(4, Bytes3), Segment(6, Bytes3)>>, <<Segment(8, Bytes3)>>, <<Segment(-2, Bytes3)>>, <<Segment(-2, <<>>)>>,
            <<Segment(124, Bytes3)>>, <<Segment(125, Bytes3)>>, <<Segment(126, Bytes3)>>,
            <<Passive, Segment(4, Bytes3)>>, <<Buried, Segment(4, Bytes3), Segment(4, Bytes3)>>,
            <<Segment(4, Bytes3), Passive>>}
Globals == {NULL, <<GlobalOf(I32, -1), GlobalOf(I32, 9)>>, <<GlobalOf(I64, 300), GlobalOf(I32, -1)>>}
FuncImports(i) == IF i = NULL THEN 0 ELSE Cardinality({k \in DOMAIN i : i[k].kind = 0})
Combined ==
    {[Module(s) EXCEPT !.importsec = i, !.memsec = n, !.globalsec = g, !.exportsec = x, !.datasec = d, !.others = o] :
        s \in {<<C(LocalGet, 0), C(LocalGet, 2), C(LocalSet, 3), C(LocalSet, 1)>>},
        i \in Imports, n \in {Memory(1), <<[kind |-> 1, min |-> 1, max |-> 3]>>}, g \in Globals,
        x \in {Exports2(0), Exports2(1), <<Export0(2)>>}, d \in Datas, o \in BOOLEAN}
Sections == {p \in Combined : p.exportsec[Len(p.exportsec)].idx < FuncImports(p.importsec) + 2}
Useless ==
    {[Module(<<>>) EXCEPT !.importsec = <<External(0, 1)>>, !.funcsec = NULL, !.codesec = NULL],
     [Module(<<>>) EXCEPT !.exportsec = NULL],
     [Module(<<>>) EXCEPT !.exportsec = <<Exports2(0)[1]>>],
     [Module(<<>>) EXCEPT !.memsec = NULL, !.datasec = NULL, !.globalsec = NULL],
     [Module(<<>>) EXCEPT !.memsec = <<>>, !.datasec = NULL], [Module(<<>>) EXCEPT !.memsec = <<>>]}

Consts6   == {-128, -1, 0, 1, 6, 127}
Addresses == {-128, -2, 0, 3, 13, 16, 17, 19, 20, 124}
Offsets   == {0, 3, 130}
Wide3     == {-1, 300, 27182}
Set(op)   == C(LocalSet, IF op \in {I64Load, I64Const} THEN 2 ELSE 0)
Computing == {<<C(I32Const, a), C(I32Const, b), Op(o), C(LocalSet, 0)>> : a \in Consts6, b \in Consts6, o \in Binaries}
Loading   == {<<C(I32Const, a), C(o, n), Set(o)>> : a \in Addresses, n \in Offsets, o \in Loads}
Storing   == {<<C(I32Const, a), C(I32Const, v), C(o, n), C(I32Const, 11), C(I64Load, 0), C(LocalSet, 2)>> :
                a \in Addresses, v \in {-2, 27}, n \in Offsets, o \in {I32Store, I32Store8}}
             \cup {<<C(I32Const, a), C(I64Const, v), C(I64Store, n), C(I32Const, 11), C(I64Load, 0), C(LocalSet, 3)>> :
                a \in Addresses, v \in Wide3, n \in Offsets}
Keeping   == {<<C(I32Const, a), C(GlobalSet, 0), C(GlobalGet, 0), C(GlobalGet, 0), Op(I32Sub), Op(I32Eqz),
                C(LocalSet, 1), C(LocalGet, 1), Op(Drop)>> : a \in Consts6}
             \cup {<<C(I64Const, v), C(LocalSet, 2), C(LocalGet, 3), C(LocalGet, 2), C(LocalSet, 3), C(LocalSet, 2)>> : v \in Wide3}
             \cup {<<C(I64Const, 1), C(I64Const, 2), C(I32Const, 3), Op(Drop), C(LocalSet, 2), C(LocalSet, 2)>>}
Other     == {<<Op(Nop), Op(Return), C(I32Const, 1)>>, <<Op(Nop), Op(Unreachable), C(I32Const, 1)>>,
              <<C(I32Const, 1), Op(F32Add), C(LocalSet, 0)>>, <<C(I32Const, 1), Op(Else)>>}
Floats    == {<<C(I32Const, 7), C(LocalGet, 0), C(LocalSet, 1), C(LocalSet, 2)>>}
Long      == {<<C(I64Const, 300), C(GlobalSet, 0), C(GlobalGet, 0), C(LocalSet, 2)>>}

MCModules ==
    Sections \cup Useless
    \cup {Module(s) : s \in Computing \cup Loading \cup Storing \cup Keeping}
    \cup {Module(s) : s \in Other}
    \cup {[Module(s) EXCEPT !.codesec[1].locals = <<[num |-> 2, ty |-> F32], [num |-> 1, ty |-> I32]>>] : s \in Floats}
    \cup {[Module(s) EXCEPT !.globalsec = <<GlobalOf(I64, 300)>>] : s \in Long}
=============================================================================
