--------------------------- MODULE InputDelivery ---------------------------
(***************************************************************************)
(* What the reliable input channel promises, without sequence numbers,     *)
(* timers or packets.  Every event the controller accepts is outstanding   *)
(* until it is settled exactly once: acknowledged after it was applied,    *)
(* reported as failed, or given up because a later event was known to have *)
(* been applied.  The controlled side may apply an event any number of     *)
(* times and in any order, but only one that was accepted.                 *)
(***************************************************************************)
EXTENDS Naturals

CONSTANT Ids        \* the events, numbered in the order they are offered

VARIABLES outcome,  \* outcome[i]: what the sender knows about event i
          applied   \* the events the controlled side has applied

vars == <<outcome, applied>>

Settled == {"acked", "failed", "skipped"}
Outcomes == {"unsent", "rejected", "pending"} \cup Settled

Outstanding == {i \in Ids : outcome[i] = "pending"}
Accepted == {i \in Ids : outcome[i] \notin {"unsent", "rejected"}}

Init ==
    /\ outcome = [i \in Ids |-> "unsent"]
    /\ applied = {}

\* The event is accepted, or refused because the connection cannot send it.
Offer(i) ==
    /\ outcome[i] = "unsent"
    /\ \E o \in {"pending", "rejected"} : outcome' = [outcome EXCEPT ![i] = o]
    /\ UNCHANGED applied

Apply(i) ==
    /\ i \in Accepted
    /\ applied' = applied \cup {i}
    /\ UNCHANGED outcome

\* An event known to be applied confirms itself, if it is still outstanding,
\* and ends the wait for outstanding events that are older.
Confirm(i) ==
    /\ i \in applied
    /\ \E old \in SUBSET {j \in Outstanding : j < i} :
          outcome' = [j \in Ids |->
                        IF j \in old THEN "skipped"
                        ELSE IF j = i /\ j \in Outstanding THEN "acked"
                        ELSE outcome[j]]
    /\ UNCHANGED applied

\* Outstanding events the sender gives up on and counts as failed.
GiveUp ==
    /\ \E lost \in SUBSET Outstanding :
          outcome' = [j \in Ids |-> IF j \in lost THEN "failed" ELSE outcome[j]]
    /\ UNCHANGED applied

Next ==
    \/ \E i \in Ids : Offer(i) \/ Apply(i) \/ Confirm(i)
    \/ GiveUp

Spec == Init /\ [][Next]_vars
=============================================================================
