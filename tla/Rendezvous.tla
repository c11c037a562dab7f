----------------------------- MODULE Rendezvous -----------------------------
(***************************************************************************)
(* What ipc.c promises its users: synchronous message passing.  A sender   *)
(* waits until its receiver takes the message; a receiver names the        *)
(* senders it accepts; a message goes from one sender to the one receiver  *)
(* it was sent to, once, and is not replaced before it is read.  Queues,   *)
(* wake-ups and the scheduler are not visible here.                        *)
(***************************************************************************)
EXTENDS Integers

CONSTANTS Task, Msg, NoMsg, NoSend

VARIABLES
    sending,      \* the offer of a waiting sender, [to, msg], or NoSend
    receiving,    \* the senders a waiting receiver accepts, {} when it is not waiting
    inbox         \* the message a receiver has not read yet, or NoMsg

vars == <<sending, receiving, inbox>>

Init ==
    /\ sending = [t \in Task |-> NoSend]
    /\ receiving = [t \in Task |-> {}]
    /\ inbox = [t \in Task |-> NoMsg]

Free(t) == sending[t] = NoSend /\ receiving[t] = {} /\ inbox[t] = NoMsg

\* The receiver is there: the message passes at once.  Which message, the sender
\* chooses: any value of Msg.
SendNow(s, d) ==
    /\ Free(s)
    /\ s \in receiving[d]
    /\ inbox[d] = NoMsg
    /\ inbox'[d] \in Msg
    /\ inbox' = [inbox EXCEPT ![d] = inbox'[d]]
    /\ receiving' = [receiving EXCEPT ![d] = {}]
    /\ UNCHANGED sending

\* The receiver is not: the sender waits.
Offer(s, d) ==
    /\ Free(s)
    /\ s \notin receiving[d]
    /\ sending'[s] \in [to : {d}, msg : Msg]
    /\ sending' = [sending EXCEPT ![s] = sending'[s]]
    /\ UNCHANGED <<receiving, inbox>>

\* The offers r could accept.
Offers(r, accept) == {s \in accept : sending[s] # NoSend /\ sending[s].to = r}

\* Nothing acceptable is offered: the receiver waits.
Receive(r, accept) ==
    /\ Free(r)
    /\ accept # {}
    /\ Offers(r, accept) = {}
    /\ receiving' = [receiving EXCEPT ![r] = accept]
    /\ UNCHANGED <<sending, inbox>>

\* Something is: the receiver commits to one of the senders.
Commit(r, accept) ==
    /\ Free(r)
    /\ \E s \in Offers(r, accept) : receiving' = [receiving EXCEPT ![r] = {s}]
    /\ UNCHANGED <<sending, inbox>>

\* The offer passes to the receiver that committed to it.
Complete(s) ==
    /\ sending[s] # NoSend
    /\ LET d == sending[s].to IN
       /\ receiving[d] = {s}
       /\ inbox[d] = NoMsg
       /\ inbox' = [inbox EXCEPT ![d] = sending[s].msg]
       /\ receiving' = [receiving EXCEPT ![d] = {}]
    /\ sending' = [sending EXCEPT ![s] = NoSend]

Read(r) ==
    /\ inbox[r] # NoMsg
    /\ inbox' = [inbox EXCEPT ![r] = NoMsg]
    /\ UNCHANGED <<sending, receiving>>

Next ==
    \/ \E s, d \in Task : SendNow(s, d) \/ Offer(s, d)
    \/ \E r \in Task, accept \in {Task} \cup {{s} : s \in Task} :
          Receive(r, accept) \/ Commit(r, accept)
    \/ \E t \in Task : Complete(t) \/ Read(t)

Spec == Init /\ [][Next]_vars
============================================================================
