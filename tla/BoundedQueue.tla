---------------------------- MODULE BoundedQueue ----------------------------
(***************************************************************************)
(* What a blocking queue promises, without threads, locks or waiting: it   *)
(* is open or closed, an open one takes items up to its limit, a closed    *)
(* one only gives them out, and whatever is in it may be thrown away.      *)
(***************************************************************************)
EXTENDS Naturals

CONSTANT Limits     \* the limits a queue may have; 0 is none

VARIABLES limit, count, open

vars == <<limit, count, open>>

Init ==
    /\ limit \in Limits
    /\ count = 0
    /\ open = TRUE

Put ==
    /\ open
    /\ limit = 0 \/ count < limit
    /\ count' = count + 1
    /\ UNCHANGED <<limit, open>>

Take ==
    /\ count > 0
    /\ count' = count - 1
    /\ UNCHANGED <<limit, open>>

Close == open' = FALSE /\ UNCHANGED <<limit, count>>

Discard == count' = 0 /\ UNCHANGED <<limit, open>>

Reopen == open' = TRUE /\ count' = 0 /\ UNCHANGED limit

Next == Put \/ Take \/ Close \/ Discard \/ Reopen

Spec == Init /\ [][Next]_vars
=============================================================================
