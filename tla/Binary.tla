------------------------------- MODULE Binary -------------------------------
(***************************************************************************)
(* From the bytes of a WASM module to struct module (kernel/module.c).  A  *)
(* buffer is what is left of it from its cursor on, a sequence of tokens:  *)
(* a token is a byte or a LEB128 number of any length (Leb128 has their    *)
(* decoding).  A parser takes a buffer and gives what it parsed and the    *)
(* buffer after it.  A vector is a sequence.  Blocks are Parser's matter:  *)
(* here the instructions are those that are complete with their operands.  *)
(* What becomes of a buffer that holds something else than what is parsed  *)
(* is Instance's matter.                                                   *)
(***************************************************************************)
EXTENDS Opcodes, SequencesExt

CONSTANT NULL

\* What reads past the end of a buffer gets 0 and moves no cursor.
Token(buf, i) == IF i <= Len(buf) THEN buf[i] ELSE 0
Skip(buf, n)  == SubSeq(buf, n + 1, Len(buf))

eof(buf) == buf = <<>>

readbuffer(buf, n) == IF n > Len(buf) THEN NULL ELSE [new |-> SubSeq(buf, 1, n), buf |-> Skip(buf, n)]

Parsed(val, buf) == [val |-> val, buf |-> buf]

parse_vec(parse(_), buf) ==
    LET upTo[i \in 0..Token(buf, 1)] ==
            IF i = 0 THEN Parsed(<<>>, Skip(buf, 1))
            ELSE LET r == upTo[i - 1]  e == parse(r.buf) IN Parsed(Append(r.val, e.val), e.buf)
    IN upTo[Token(buf, 1)]

parse_typeidx(buf) == Parsed(Token(buf, 1), Skip(buf, 1))
parse_valtype(buf) == parse_typeidx(buf)
readname(buf)      == parse_vec(parse_valtype, buf)

parse_functype(buf) ==
    LET rt1 == parse_vec(parse_valtype, Skip(buf, 1))
        rt2 == parse_vec(parse_valtype, rt1.buf)
    IN Parsed([rt1 |-> rt1.val, rt2 |-> rt2.val], rt2.buf)

----------------------------------------------------------------------------
(* Instructions: the op, and with it a constant, an index or an offset.    *)

parse_instr(buf) ==
    LET op == Token(buf, 1) IN
    CASE op \in Loads \cup Stores -> Parsed([op |-> op, n |-> Token(buf, 3)], Skip(buf, 3))
      [] op \in Indexed \cup Consts -> Parsed([op |-> op, n |-> Token(buf, 2)], Skip(buf, 2))
      [] OTHER                    -> Parsed([op |-> op, n |-> 0], Skip(buf, 1))

\* What is left of a buffer after n instructions, and the n-th of them.
Past(buf, n) == LET past[k \in 0..n] == IF k = 0 THEN buf ELSE parse_instr(past[k - 1]).buf IN past[n]
Nth(buf, n)  == parse_instr(Past(buf, n - 1)).val

\* A constant expression, up to its End: there is one, for nothing that is misread is parsed.
parse_expr(buf) ==
    LET n == CHOOSE k \in 1..Len(buf) : Nth(buf, k).op = End /\ \A j \in 1..(k - 1) : Nth(buf, j).op # End
    IN Parsed([k \in 1..n |-> Nth(buf, k)], Past(buf, n))

parse_locals(buf) == Parsed([num |-> Token(buf, 1), ty |-> Token(buf, 2)], Skip(buf, 2))

\* A function: its locals, and instructions to the end of its buffer.
parse_func(buf) ==
    LET locals == parse_vec(parse_locals, buf)
        past(k) == Past(locals.buf, k)
        n == CHOOSE k \in 0..Len(locals.buf) : eof(past(k)) /\ \A j \in 0..(k - 1) : ~eof(past(j))
    IN [locals |-> locals.val, expr |-> [k \in 1..n |-> Nth(locals.buf, k)]]

parse_code(buf) ==
    LET sub == readbuffer(Skip(buf, 1), Token(buf, 1)) IN Parsed(parse_func(sub.new), sub.buf)

----------------------------------------------------------------------------
(* The other sections                                                      *)

\* The two fields of exportdesc in the other order.
Bug_parse_export(buf) ==
    LET name == readname(buf)
    IN Parsed([name |-> name.val, kind |-> Token(name.buf, 2), idx |-> Token(name.buf, 1)], Skip(name.buf, 2))

parse_export(buf) ==
    LET name == readname(buf)
    IN Parsed([name |-> name.val, kind |-> Token(name.buf, 1), idx |-> Token(name.buf, 2)], Skip(name.buf, 2))

\* An import is read as a function's: its kind, and one index.
parse_import(buf) ==
    LET mod == readname(buf)
        nm  == readname(mod.buf)
    IN Parsed([mod |-> mod.val, nm |-> nm.val, kind |-> Token(nm.buf, 1), idx |-> Token(nm.buf, 2)], Skip(nm.buf, 2))

parse_mem(buf) ==
    IF Token(buf, 1) = 0
    THEN Parsed([kind |-> 0, min |-> Token(buf, 2), max |-> 0], Skip(buf, 2))
    ELSE Parsed([kind |-> Token(buf, 1), min |-> Token(buf, 2), max |-> Token(buf, 3)], Skip(buf, 3))

parse_global(buf) ==
    LET expr == parse_expr(Skip(buf, 2))
    IN Parsed([ty |-> Token(buf, 1), m |-> Token(buf, 2), expr |-> expr.val], expr.buf)

\* Of a segment that is not of kind 0 only the kind is read.
parse_data(buf) ==
    IF Token(buf, 1) # 0
    THEN Parsed([kind |-> Token(buf, 1), expr |-> <<>>, data |-> <<>>], Skip(buf, 1))
    ELSE LET expr == parse_expr(Skip(buf, 1))
             data == parse_vec(parse_valtype, expr.buf)
         IN Parsed([kind |-> 0, expr |-> expr.val, data |-> data.val], data.buf)

\* new_module before its loop.
NoSections == [typesec |-> NULL, importsec |-> NULL, funcsec |-> NULL, memsec |-> NULL,
               globalsec |-> NULL, exportsec |-> NULL, codesec |-> NULL, datasec |-> NULL]

\* The section with this id, in m; sections of any other id are ignored.
parse_section(m, id, sec) ==
    CASE id = 1  -> [m EXCEPT !.typesec   = parse_vec(parse_functype, sec).val]
      [] id = 2  -> [m EXCEPT !.importsec = parse_vec(parse_import, sec).val]
      [] id = 3  -> [m EXCEPT !.funcsec   = parse_vec(parse_typeidx, sec).val]
      [] id = 5  -> [m EXCEPT !.memsec    = parse_vec(parse_mem, sec).val]
      [] id = 6  -> [m EXCEPT !.globalsec = parse_vec(parse_global, sec).val]
      [] id = 7  -> [m EXCEPT !.exportsec = parse_vec(parse_export, sec).val]
      [] id = 10 -> [m EXCEPT !.codesec   = parse_vec(parse_code, sec).val]
      [] id = 11 -> [m EXCEPT !.datasec   = parse_vec(parse_data, sec).val]
      [] OTHER   -> m
=============================================================================
