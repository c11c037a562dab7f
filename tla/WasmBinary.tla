----------------------------- MODULE WasmBinary -----------------------------
(***************************************************************************)
(* The binary format of the WASM standard: the tokens a compiler writes    *)
(* for a module.  A module has the fields of struct module, each NULL or a *)
(* sequence, and `others`: it has a custom, a table, a start and an        *)
(* element section too.  What the description of an import that is no      *)
(* function has behind its first number is one token.  Blocks, branches    *)
(* and calls are not written: Parser and Interp have them.                 *)
(***************************************************************************)
EXTENDS Opcodes, SequencesExt

CONSTANT NULL

\* The modules that can be written.  A constant expression is one constant.
Section0(S) == {NULL} \cup Seq(S)
Instruction == {c \in [op : Nat \ Control, n : Int] : c.op \in Loads \cup Stores \cup Indexed \cup Consts \/ c.n = 0}
Constexpr   == {s \in Seq(Instruction) : Len(s) = 2 /\ s[1].op \in Consts /\ s[2].op = End}
Writable ==
    [typesec   : Section0([rt1 : Seq(Nat), rt2 : Seq(Nat)]),
     importsec : Section0([mod : Seq(Nat), nm : Seq(Nat), kind : Nat, idx : Nat]),
     funcsec   : Section0(Nat),
     memsec    : Section0({t \in [kind : {0, 1}, min : Nat, max : Nat] : t.kind = 0 => t.max = 0}),
     globalsec : Section0([ty : Nat, m : Nat, expr : Constexpr]),
     exportsec : Section0([name : Seq(Nat), kind : Nat, idx : Nat]),
     codesec   : Section0([locals : Seq([num : Nat, ty : Nat]), expr : Seq(Instruction)]),
     datasec   : Section0({d \in [kind : Nat, expr : Seq(Instruction), data : Seq(Int)] :
                              d.kind = 0 => d.expr \in Constexpr /\ d.data \in Seq(0..(Base - 1))}),
     others    : BOOLEAN]

Vec(write(_), s) == <<Len(s)>> \o FlattenSeq([k \in DOMAIN s |-> write(s[k])])

Name(s)    == <<Len(s)>> \o s
Type(t)    == <<\h60, Len(t.rt1)>> \o t.rt1 \o <<Len(t.rt2)>> \o t.rt2
Index(n)   == <<n>>
Import(d)  == Name(d.mod) \o Name(d.nm) \o <<d.kind, d.idx>> \o (IF d.kind = 0 THEN <<>> ELSE <<1>>)
Mem(m)     == <<m.kind, m.min>> \o (IF m.kind = 1 THEN <<m.max>> ELSE <<>>)
Export(e)  == Name(e.name) \o <<e.kind, e.idx>>
Local(v)   == <<v.num, v.ty>>

Instr(c) ==
    CASE c.op \in Loads \cup Stores   -> <<c.op, 0, c.n>>
      [] c.op \in Indexed \cup Consts -> <<c.op, c.n>>
      [] OTHER                        -> <<c.op>>

Expr(s)   == FlattenSeq([k \in DOMAIN s |-> Instr(s[k])])
Global(g) == <<g.ty, g.m>> \o Expr(g.expr)
Data(d)   == <<d.kind>> \o Expr(d.expr) \o Name(d.data)
Code(f)   == LET body == Vec(Local, f.locals) \o Expr(f.expr) IN <<Len(body)>> \o body

Section(id, write(_), s) ==
    IF s = NULL THEN <<>> ELSE LET c == Vec(write, s) IN <<id, Len(c)>> \o c
Other(w, id) == IF w.others THEN <<id, 2, 1, 3>> ELSE <<>>

Sections(w) ==
    <<Section(1, Type, w.typesec), Section(2, Import, w.importsec), Other(w, 0),
      Section(3, Index, w.funcsec), Other(w, 4), Section(5, Mem, w.memsec), Section(6, Global, w.globalsec),
      Section(7, Export, w.exportsec), Other(w, 8), Other(w, 9), Section(10, Code, w.codesec),
      Section(11, Data, w.datasec), Other(w, 0)>>

Magic == <<0, 1>>
Binary(w) == Magic \o FlattenSeq(Sections(w))
=============================================================================
