------------------------------ MODULE Delivery ------------------------------
(***************************************************************************)
(* What a message dispatcher promises to the handlers behind it, whatever  *)
(* threads and queues it is made of: messages are handled at most once,    *)
(* handling begins in the order of sending, some may be lost, and after    *)
(* close nothing is handled and nothing is still being handled.            *)
(***************************************************************************)
EXTENDS Naturals

VARIABLES
    sent,           \* messages sent, numbered from 1
    begun,          \* the latest message whose handling has begun
    active,         \* the messages being handled
    open            \* close has not returned

vars == <<sent, begun, active, open>>

Init == sent = 0 /\ begun = 0 /\ active = {} /\ open = TRUE

Send == sent' = sent + 1 /\ UNCHANGED <<begun, active, open>>

Begin ==
    /\ open
    /\ \E i \in (begun + 1) .. sent : begun' = i /\ active' = active \cup {i}
    /\ UNCHANGED <<sent, open>>

End ==
    /\ \E i \in active : active' = active \ {i}
    /\ UNCHANGED <<sent, begun, open>>

Close == open /\ active = {} /\ open' = FALSE /\ UNCHANGED <<sent, begun, active>>

Next == Send \/ Begin \/ End \/ Close

Spec == Init /\ [][Next]_vars
=============================================================================
