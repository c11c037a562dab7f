------------------------------- MODULE IpcMC -------------------------------
(* Values of the constants of Ipc for TLC.                                 *)
EXTENDS Ipc

MCNames     == {"vm", "shell", "c"}
MCBootNames == <<"vm", "shell">>
MCPayload   == {[type |-> "m"]}
\* Bounds: how many tasks ever registered a buffer.
OneBuffer   == Cardinality({t \in Task : shared[t] # "null"}) <= 1
NoBuffer    == \A t \in Task : shared[t] = "null"
============================================================================
