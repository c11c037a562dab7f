--------------------------- MODULE IpcRefinement ---------------------------
(***************************************************************************)
(* ipc.c implements Rendezvous: what each task is offering, accepting and  *)
(* has not read, as functions of the kernel's state.                       *)
(***************************************************************************)
EXTENDS Ipc

NoSend == [to |-> 0]

sendingBar ==
    [t \in Task |->
        IF Sending(t)
        THEN [to |-> out[t].dst, msg |-> [src |-> name[t], body |-> out[t].body]]
        ELSE NoSend]

receivingBar ==
    [t \in Task |->
        IF Receiving(t) THEN IF waitFor[t] = ANY THEN Task ELSE {waitFor[t]} ELSE {}]

R == INSTANCE Rendezvous WITH
        Msg <- Message \ {NoMsg},
        sending <- sendingBar, receiving <- receivingBar, inbox <- message

(* Every step of well-behaved programs on ipc.c (ipc.c:38-107) is a step   *)
(* of the rendezvous or one it does not see: each message sent is taken    *)
(* once, by the task it was sent to, while that task accepts its sender.   *)
ImplementsRendezvous == R!Spec
============================================================================
