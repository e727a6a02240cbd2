------------------------- MODULE InOrderApplication -------------------------
(* What the cash pipeline promises to each role: the deliveries of a queue  *)
(* are executed one after the other, each once, and each is acknowledged    *)
(* after it was executed and before the next is.                            *)
EXTENDS Naturals

CONSTANT Consumers

VARIABLES
    queued,    \* deliveries in the queue
    executed,  \* per consumer: deliveries executed
    confirmed  \* per consumer: deliveries acknowledged

vars == <<queued, executed, confirmed>>

Init ==
    /\ queued = 0
    /\ executed = [c \in Consumers |-> 0]
    /\ confirmed = [c \in Consumers |-> 0]

Enqueue == queued' = queued + 1 /\ UNCHANGED <<executed, confirmed>>

Execute(c) ==
    /\ executed[c] = confirmed[c] /\ executed[c] < queued
    /\ executed' = [executed EXCEPT ![c] = @ + 1]
    /\ UNCHANGED <<queued, confirmed>>

Confirm(c) ==
    /\ confirmed[c] < executed[c]
    /\ confirmed' = [confirmed EXCEPT ![c] = @ + 1]
    /\ UNCHANGED <<queued, executed>>

Next == Enqueue \/ \E c \in Consumers : Execute(c) \/ Confirm(c)

Spec == Init /\ [][Next]_vars
=============================================================================
