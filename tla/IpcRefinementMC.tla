-------------------------- MODULE IpcRefinementMC --------------------------
(* Two servers, a shell and one slot for other tasks.                      *)
EXTENDS IpcRefinement

MCNames     == {"vm", "shell", "fs", "c"}
MCBootNames == <<"vm", "shell", "fs">>
MCPayload   == {[type |-> "m"]}
\* Bounds: no task registers a buffer, and one task is named "shell".
NoBuffer    == \A t \in Task : shared[t] = "null"
OneShell    == Cardinality({t \in Task : name[t] = "shell"}) <= 1
============================================================================
