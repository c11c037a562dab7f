------------------------------ MODULE InterpMC ------------------------------
(* Small modules of two functions.                                         *)
EXTENDS InterpRefinement

I(o)     == [op |-> o, x |-> 0]
J(o, n)  == [op |-> o, x |-> n]

\* Bounds: the instructions and the lengths of the two functions.
StartOps == {I("block"), I("loop"), I("if"), I("else"), I("br_if"), J("br", 1), I("drop"),
             I("i32.const"), I("i64.const"), J("call", 2), I("local.set"), I("end")}
StartLen == 6
Longer   == {<<I("i32.const"), I("block"), I("i32.const"), I("br"), I("end"), I("local.set"), I("end")>>,
             <<I("loop"), I("block"), I("i32.const"), J("br_if", 1), I("i32.const"), J("call", 2),
               I("br_if"), I("i64.const"), J("br", 1), I("end"), I("end"), I("end")>>,
             <<I("i32.const"), I("loop"), I("block"), I("i32.const"), J("call", 2), I("br_if"),
               J("br", 1), I("end"), I("end"), I("local.set"), I("end")>>}
Bodies   == {<<I("local.get"), I("end")>>,
             <<I("i32.const"), J("call", 2), I("end")>>,
             <<I("local.get"), I("call"), I("return"), I("end")>>,
             <<I("i32.const"), I("i32.const"), I("return"), I("end")>>,
             <<I("i64.const"), I("drop"), I("i32.const"), I("local.set"), I("local.get"), I("end")>>,
             <<J("local.get", 1), I("i32.const"), J("local.set", 1), I("end")>>,
             <<I("i32.const"), J("local.set", 1), I("local.get"), J("local.get", 1), I("i32.add"), I("end")>>,
             <<I("i32.const"), I("i64.const"), I("i64.store"), I("local.get"), I("end")>>,
             <<I("local.get"), I("i32.load"), I("i32.const"), I("i32.store"),
               I("local.get"), I("i32.const"), I("i32.add"), I("end")>>,
             <<I("block"), I("i32.const"), I("return"), I("end"), I("unreachable"), I("end")>>,
             <<I("loop"), I("local.get"), I("br_if"), I("block"), I("local.get"), J("br_table", 1),
               I("end"), I("end"), I("i32.const"), I("end")>>}

\* The ends that s lacks, and whether there is an operand to get rid of before the next.
Lacks(s)       == Count(s, Openers, 1, Len(s)) + 1 - Count(s, {"end"}, 1, Len(s))
HasOperands(s) == Lacks(s) > 0 /\ Types(s)[Len(s) + 1] \notin {<<>>, Unreached}

\* _start, instruction by instruction, and with it a function to call if it does.
MCPrograms ==
    LET P[n \in 0..StartLen] ==
            IF n = 0 THEN {<<>>}
            ELSE {s \in {Append(t, o) : t \in P[n - 1], o \in StartOps} :
                    /\ n + Lacks(s) <= StartLen
                    /\ \A i \in {n - 1, n} \ {0} : NestedAt(s, i, <<>>)
                    /\ TypedAt(s, n, <<>>)
                    /\ HasOperands(s) => n + Lacks(s) < StartLen}
        with(s) == IF \E i \in DOMAIN s : s[i] = J("call", 2) THEN Bodies ELSE {<<I("local.get"), I("end")>>}
    IN UNION {{<<s, b>> : b \in with(s)} : s \in {t \in Longer \cup UNION {P[n] : n \in 1..StartLen} : WellFormed(t, Start)}}
=============================================================================
