--------------------------- MODULE BlockingQueue ---------------------------
(***************************************************************************)
(* BlockingQueue (common/blocking_queue.h): a queue guarded by one mutex,  *)
(* with a condition variable for producers (not_full_cv_) and one for      *)
(* consumers (not_empty_cv_).                                              *)
(*                                                                         *)
(* A step is one critical section, from taking mutex_ to releasing or      *)
(* waiting; Stop notifies after it has released mutex_, so its two         *)
(* notify_all calls are steps of their own.  A thread whose wait ended, by *)
(* a notify, a timeout or spuriously, is "woken": it has yet to take the   *)
(* mutex again and to look at the predicate.  push_back, front and         *)
(* pop_front are the only accesses to the deque, so only its length        *)
(* matters here.                                                           *)
(*                                                                         *)
(* Push, PushTimeout and TryPush differ from Pop, PopTimeout and TryPop    *)
(* only in the condition they wait for and in whom they notify; an         *)
(* operation is named by the condition variable it waits on.               *)
(***************************************************************************)
EXTENDS Integers, FiniteSets

CONSTANTS
    Threads,
    Sizes,          \* the capacities a queue may be constructed with
    MaxItems        \* bound on the length of a queue without capacity

ASSUME QueueAssumption ==
    /\ IsFiniteSet(Threads)
    /\ Sizes \subseteq Nat
    /\ MaxItems \in Nat

Push == "not_full"
Pop == "not_empty"
Ops == {Push, Pop}
Other(op) == IF op = Push THEN Pop ELSE Push

VARIABLES
    max_size,       \* max_size_, 0 for no limit
    size,           \* queue_.size()
    stopped,        \* stopped_
    waiting,        \* waiting[op]: threads blocked on the condition variable
    woken,          \* woken[op]: threads about to return from that wait
    timed,          \* those of them in PushTimeout or PopTimeout
    notifying       \* notifying[op]: threads in Stop about to notify_all

vars == <<max_size, size, stopped, waiting, woken, timed, notifying>>

Nobody == [op \in Ops |-> {}]

Init ==
    /\ max_size \in Sizes
    /\ size = 0
    /\ stopped = FALSE
    /\ waiting = Nobody
    /\ woken = Nobody
    /\ timed = {}
    /\ notifying = Nobody

Idle(t) == \A op \in Ops : t \notin waiting[op] \cup woken[op] \cup notifying[op]

\* (Bug: the capacity is compared with <=.)
HasSpace_OffByOne == max_size = 0 \/ size <= max_size

HasSpace == max_size = 0 \/ size < max_size

\* (Bug: a producer that was waiting does not look at stopped_ again.)
Proceeds_NoStopCheck(op) == IF op = Push THEN HasSpace ELSE size > 0

\* The operation does its work.  A stopped queue takes nothing but is drained.
Proceeds(op) == IF op = Push THEN ~stopped /\ HasSpace ELSE size > 0

\* The predicate of the wait is false.
Blocks(op) == ~stopped /\ ~Proceeds(op)

\* notify_one on the other condition variable, when somebody waits there.
NotifyOne(op, awake) ==
    LET cv == Other(op)
    IN  \/ /\ waiting[cv] = {}
           /\ woken' = awake
           /\ UNCHANGED waiting
        \/ \E t \in waiting[cv] :
              /\ waiting' = [waiting EXCEPT ![cv] = @ \ {t}]
              /\ woken' = [awake EXCEPT ![cv] = @ \cup {t}]

\* push_back or pop_front, and the notification.
Perform(op, awake) ==
    /\ Proceeds(op)
    /\ size' = IF op = Push THEN size + 1 ELSE size - 1
    /\ NotifyOne(op, awake)

-----------------------------------------------------------------------------
\* An operation that returns false at once changes nothing: no step.  TryPush
\* and TryPop are Enter without the wait.
Enter(t, op) ==
    /\ Idle(t)
    /\ (op = Push /\ max_size = 0) => size < MaxItems
    /\ \/ Perform(op, woken) /\ UNCHANGED timed
       \/ /\ Blocks(op)
          /\ waiting' = [waiting EXCEPT ![op] = @ \cup {t}]
          /\ timed' \in {timed, timed \cup {t}}
          /\ UNCHANGED <<size, woken>>
    /\ UNCHANGED <<max_size, stopped, notifying>>

\* A timeout or a spurious wakeup: no notification is used up.
WakeUp(t, op) ==
    /\ t \in waiting[op]
    /\ waiting' = [waiting EXCEPT ![op] = @ \ {t}]
    /\ woken' = [woken EXCEPT ![op] = @ \cup {t}]
    /\ UNCHANGED <<max_size, size, stopped, timed, notifying>>

\* The thread has the mutex again: it does its work, or returns false because
\* the queue was stopped or its time is up, or waits on.
Resume(t, op) ==
    /\ t \in woken[op]
    /\ LET awake == [woken EXCEPT ![op] = @ \ {t}]
       IN  \/ Perform(op, awake) /\ timed' = timed \ {t}
           \/ /\ ~Proceeds(op)
              /\ stopped \/ t \in timed
              /\ woken' = awake
              /\ timed' = timed \ {t}
              /\ UNCHANGED <<size, waiting>>
           \/ /\ Blocks(op)
              /\ woken' = awake
              /\ waiting' = [waiting EXCEPT ![op] = @ \cup {t}]
              /\ UNCHANGED <<size, timed>>
    /\ UNCHANGED <<max_size, stopped, notifying>>

Stop(t) ==
    /\ Idle(t)
    /\ stopped' = TRUE
    /\ notifying' = [notifying EXCEPT ![Pop] = @ \cup {t}]
    /\ UNCHANGED <<max_size, size, waiting, woken, timed>>

\* (Bug: Stop wakes the consumers only.)
StillToNotify_ConsumersOnly(t, op) == [notifying EXCEPT ![op] = @ \ {t}]

\* not_empty_cv_ is notified first, not_full_cv_ after it.
StillToNotify(t, op) ==
    IF op = Pop THEN [notifying EXCEPT ![Pop] = @ \ {t}, ![Push] = @ \cup {t}]
                ELSE [notifying EXCEPT ![Push] = @ \ {t}]

StopNotifies(t, op) ==
    /\ t \in notifying[op]
    /\ waiting' = [waiting EXCEPT ![op] = {}]
    /\ woken' = [woken EXCEPT ![op] = @ \cup waiting[op]]
    /\ notifying' = StillToNotify(t, op)
    /\ UNCHANGED <<max_size, size, stopped, timed>>

\* (Bug: Clear wakes one producer only.)
Clear_NotifyOne(t) ==
    /\ Idle(t)
    /\ size' = 0
    /\ \E p \in waiting[Push] :
          /\ waiting' = [waiting EXCEPT ![Push] = @ \ {p}]
          /\ woken' = [woken EXCEPT ![Push] = @ \cup {p}]
    /\ UNCHANGED <<max_size, stopped, timed, notifying>>

Clear(t) ==
    /\ Idle(t)
    /\ size' = 0
    /\ waiting' = [waiting EXCEPT ![Push] = {}]
    /\ woken' = [woken EXCEPT ![Push] = @ \cup waiting[Push]]
    /\ UNCHANGED <<max_size, stopped, timed, notifying>>

\* Its comment asks for a queue that no other thread is using.
Reset ==
    /\ \A t \in Threads : Idle(t)
    /\ size' = 0
    /\ stopped' = FALSE
    /\ UNCHANGED <<max_size, waiting, woken, timed, notifying>>

Next ==
    \/ \E t \in Threads, op \in Ops :
          Enter(t, op) \/ WakeUp(t, op) \/ Resume(t, op) \/ StopNotifies(t, op)
    \/ \E t \in Threads : Stop(t) \/ Clear(t)
    \/ Reset

Spec == Init /\ [][Next]_vars

\* A thread that can take the mutex eventually does; nothing forces a thread
\* to begin an operation, and no wakeup comes without a notification.
FairSpec ==
    /\ Spec
    /\ \A t \in Threads, op \in Ops :
          WF_vars(Resume(t, op)) /\ WF_vars(StopNotifies(t, op))

-----------------------------------------------------------------------------
TypeOK ==
    /\ max_size \in Sizes
    /\ size \in Nat
    /\ stopped \in BOOLEAN
    /\ waiting \in [Ops -> SUBSET Threads]
    /\ woken \in [Ops -> SUBSET Threads]
    /\ timed \in SUBSET Threads
    /\ notifying \in [Ops -> SUBSET Threads]

\* Whatever threads slip in between a notification and the thread it woke, the
\* queue is one that takes items only while it is open and below its capacity,
\* and gives out what it holds: who waits, wakes or notifies cannot be seen.
Q == INSTANCE BoundedQueue
        WITH Limits <- Sizes, limit <- max_size, count <- size, open <- ~stopped

ImplementsQueue == Q!Spec

\* The queue never holds more than its capacity.
WithinCapacity == max_size > 0 => size <= max_size

\* Operations that could proceed now: free slots, or queued items.
Chances(op) == IF op = Push THEN max_size - size ELSE size

\* No wakeup is lost.  While a thread is blocked in an open queue, there are as
\* many threads on their way to the mutex as there are slots (or items) for
\* them; in a stopped queue a notify_all is still to come.
NoLostWakeup ==
    \A op \in Ops : waiting[op] # {} =>
        IF stopped
        THEN \E t \in Threads : \/ t \in notifying[op]
                                \/ op = Push /\ t \in notifying[Pop]
        ELSE Chances(op) <= Cardinality(woken[op])

\* Stop releases every blocked thread.
StopReleases ==
    \A t \in Threads : (stopped /\ ~Idle(t)) ~> Idle(t)
=============================================================================
