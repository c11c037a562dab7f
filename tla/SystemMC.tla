------------------------------ MODULE SystemMC ------------------------------
(* Values of the constants of System for TLC.                              *)
EXTENDS System

MCNames     == {"vm", "shell", "fs", "hello"}
MCBootNames == <<"vm", "shell", "fs">>

MCChars == ToSet(Hello) \cup ToSet(Exit) \cup {"x", NUL}

\* Commands, parts of them, and lines around the length of cmdline.
MCLines ==
    {Hello, Exit, <<>>, SubSeq(Hello, 1, 4), Append(Hello, "o"), Hello \o <<NUL, "x">>}
    \cup {[k \in 1..n |-> "x"] : n \in 6..9}
HelloAndExit == {Hello, Exit}
============================================================================
