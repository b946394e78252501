------------------------ MODULE BlockingQueue_proofs ------------------------
(***************************************************************************)
(* The blocking queue is safe for any number of threads and any capacity.  *)
(***************************************************************************)
EXTENDS BlockingQueue, FiniteSetTheorems, TLAPS

\* A waiting thread is not also woken, and producers wait only for a capacity.
IInv ==
    /\ TypeOK
    /\ \A op \in Ops : waiting[op] \cap woken[op] = {}
    /\ waiting[Push] # {} => max_size > 0
    /\ WithinCapacity
    /\ NoLostWakeup

-----------------------------------------------------------------------------
\* Counting threads.
LEMMA CountThreads ==
    \A S \in SUBSET Threads :
        /\ Cardinality(S) \in Nat
        /\ \A t \in Threads : /\ t \notin S => Cardinality(S \cup {t}) = Cardinality(S) + 1
                              /\ t \in S => Cardinality(S \ {t}) = Cardinality(S) - 1
<1> TAKE S \in SUBSET Threads
<1>1. IsFiniteSet(S)
  BY QueueAssumption, FS_Subset
<1> QED BY <1>1, FS_CardinalityType, FS_AddElement, FS_RemoveElement

\* The two operations are each other's counterpart.
LEMMA OpsFacts ==
    /\ Push \in Ops /\ Pop \in Ops /\ Push # Pop
    /\ \A op \in Ops : op = Push \/ op = Pop
    /\ Other(Push) = Pop /\ Other(Pop) = Push
BY DEF Ops, Push, Pop, Other

\* A new queue is empty, open and unused.
LEMMA InitIInv == Init => IInv
<1> SUFFICES ASSUME Init PROVE IInv
  OBVIOUS
<1>1. Nobody \in [Ops -> SUBSET Threads] /\ \A op \in Ops : Nobody[op] = {}
  BY DEF Nobody
<1>2. TypeOK
  BY <1>1, QueueAssumption DEF Init, TypeOK
<1>3. \A op \in Ops : waiting[op] = {}
  BY <1>1 DEF Init
<1>4. WithinCapacity
  BY QueueAssumption DEF Init, WithinCapacity
<1> QED BY <1>2, <1>3, <1>4, OpsFacts DEF IInv, NoLostWakeup

\* An operation that does its work uses up one chance and, if it was woken,
\* one woken thread; the thread it notifies matches the chance it creates.
LEMMA PerformKeeps ==
    ASSUME IInv, NEW op \in Ops, NEW t \in Threads, NEW awake, Perform(op, awake),
           awake = woken \/ (t \in woken[op] /\ awake = [woken EXCEPT ![op] = @ \ {t}]),
           timed' \in SUBSET Threads,
           UNCHANGED <<max_size, stopped, notifying>>
    PROVE  IInv'
<1> USE OpsFacts
<1> DEFINE cv == Other(op)
<1>1. cv \in Ops /\ cv # op /\ \A o \in Ops : o = op \/ o = cv
  OBVIOUS
<1>2. /\ awake \in [Ops -> SUBSET Threads]
      /\ awake[cv] = woken[cv]
      /\ awake[op] \subseteq woken[op]
      /\ Cardinality(awake[op]) >= Cardinality(woken[op]) - 1
  <2>1. CASE awake = woken
    BY <1>1, <2>1, CountThreads DEF IInv, TypeOK
  <2>2. CASE t \in woken[op] /\ awake = [woken EXCEPT ![op] = @ \ {t}]
    BY <1>1, <2>2, CountThreads DEF IInv, TypeOK
  <2> QED BY <2>1, <2>2
<1> HIDE DEF cv
<1>3. \/ waiting[cv] = {} /\ woken' = awake /\ waiting' = waiting
      \/ \E p \in waiting[cv] :
            /\ waiting' = [waiting EXCEPT ![cv] = @ \ {p}]
            /\ woken' = [awake EXCEPT ![cv] = @ \cup {p}]
  BY DEF Perform, NotifyOne, cv
<1>4. /\ waiting' \in [Ops -> SUBSET Threads]
      /\ woken' \in [Ops -> SUBSET Threads]
      /\ waiting'[op] = waiting[op] /\ woken'[op] = awake[op]
      /\ waiting'[cv] \cap woken'[cv] = {}
      /\ waiting'[cv] \subseteq waiting[cv]
      /\ waiting'[cv] # {} => Cardinality(woken'[cv]) = Cardinality(woken[cv]) + 1
  <2>1. CASE waiting[cv] = {} /\ woken' = awake /\ waiting' = waiting
    BY <1>1, <1>2, <2>1 DEF IInv, TypeOK
  <2>2. ASSUME NEW p \in waiting[cv],
               waiting' = [waiting EXCEPT ![cv] = @ \ {p}],
               woken' = [awake EXCEPT ![cv] = @ \cup {p}]
        PROVE  <1>4!:
    <3>1. p \in Threads /\ p \notin woken[cv] /\ woken[cv] \in SUBSET Threads
      BY <1>1 DEF IInv, TypeOK
    <3>2. Cardinality(woken[cv] \cup {p}) = Cardinality(woken[cv]) + 1
      BY <3>1, CountThreads
    <3> QED BY <1>1, <1>2, <2>2, <3>1, <3>2 DEF IInv, TypeOK
  <2> QED BY <1>3, <2>1, <2>2
<1>5. /\ size \in Nat /\ max_size \in Nat /\ max_size' = max_size
      /\ size' = IF op = Push THEN size + 1 ELSE size - 1
      /\ op = Push => ~stopped /\ (max_size = 0 \/ size < max_size)
      /\ op = Pop => size > 0
  BY QueueAssumption DEF IInv, TypeOK, Perform, Proceeds, HasSpace
<1>6. TypeOK'
  BY <1>4, <1>5 DEF IInv, TypeOK
<1>7. WithinCapacity'
  BY <1>5 DEF IInv, WithinCapacity
<1>8. /\ \A o \in Ops : waiting'[o] \cap woken'[o] = {}
      /\ waiting'[Push] # {} => max_size' > 0
  BY <1>1, <1>2, <1>4 DEF IInv
<1>9. CASE stopped
  <2>1. \A o \in Ops : waiting'[o] # {} => waiting[o] # {}
    BY <1>1, <1>4
  <2> QED BY <1>6, <1>7, <1>8, <1>9, <2>1 DEF IInv, NoLostWakeup
<1>10. CASE ~stopped
  <2>1. waiting[op] # {} => Chances(op) <= Cardinality(woken[op])
    BY <1>10 DEF IInv, NoLostWakeup
  <2>2. waiting[cv] # {} => Chances(cv) <= Cardinality(woken[cv])
    BY <1>1, <1>10 DEF IInv, NoLostWakeup
  <2>3. /\ Cardinality(woken[op]) \in Nat /\ Cardinality(woken[cv]) \in Nat
        /\ Cardinality(awake[op]) \in Nat
    BY <1>1, <1>2, CountThreads DEF IInv, TypeOK
  <2>4. Chances(op)' = Chances(op) - 1 /\ Chances(cv)' = Chances(cv) + 1
        /\ Chances(op) \in Int /\ Chances(cv) \in Int
    BY <1>5 DEF Chances, cv
  <2>5. waiting'[op] # {} => Chances(op)' <= Cardinality(woken'[op])
    BY <1>2, <1>4, <2>1, <2>3, <2>4
  <2>6. waiting'[cv] # {} => Chances(cv)' <= Cardinality(woken'[cv])
    BY <1>4, <2>2, <2>3, <2>4
  <2>7. NoLostWakeup'
    BY <1>1, <1>10, <2>5, <2>6 DEF NoLostWakeup
  <2> QED BY <1>6, <1>7, <1>8, <2>7 DEF IInv
<1> QED BY <1>9, <1>10

\* A thread that blocks finds nothing to do: no chance is left to it.
LEMMA BlockKeeps ==
    ASSUME IInv, NEW op \in Ops, NEW t \in Threads, Blocks(op),
           waiting' = [waiting EXCEPT ![op] = @ \cup {t}],
           \/ t \notin woken[op] /\ woken' = woken
           \/ t \in woken[op] /\ woken' = [woken EXCEPT ![op] = @ \ {t}],
           timed' \in SUBSET Threads,
           UNCHANGED <<max_size, size, stopped, notifying>>
    PROVE  IInv'
<1> USE OpsFacts
<1>1. /\ size \in Nat /\ max_size \in Nat /\ ~stopped
      /\ op = Push => max_size > 0 /\ size >= max_size
      /\ op = Pop => size = 0
  BY QueueAssumption DEF IInv, TypeOK, Blocks, Proceeds, HasSpace
<1>2. Chances(op) <= 0 /\ Chances(op) \in Int
  BY <1>1 DEF Chances
<1>3. /\ waiting' \in [Ops -> SUBSET Threads]
      /\ woken' \in [Ops -> SUBSET Threads]
      /\ \A o \in Ops : waiting'[o] \cap woken'[o] = {}
      /\ \A o \in Ops \ {op} : waiting'[o] = waiting[o] /\ woken'[o] = woken[o]
  BY DEF IInv, TypeOK
<1>4. Cardinality(woken'[op]) \in Nat
  BY <1>3, CountThreads
<1>5. Chances(op)' = Chances(op) /\ \A o \in Ops : Chances(o)' = Chances(o)
  BY DEF Chances
<1>6. NoLostWakeup'
  BY <1>1, <1>2, <1>3, <1>4, <1>5 DEF IInv, NoLostWakeup
<1>7. waiting'[Push] # {} => max_size' > 0
  BY <1>1, <1>3 DEF IInv
<1>8. TypeOK' /\ WithinCapacity'
  BY <1>3 DEF IInv, TypeOK, WithinCapacity
<1> QED BY <1>3, <1>6, <1>7, <1>8 DEF IInv

\* A first critical section either does the work or blocks.
LEMMA EnterKeeps ==
    ASSUME IInv, NEW op \in Ops, NEW t \in Threads, Enter(t, op)
    PROVE  IInv'
<1>1. CASE Perform(op, woken) /\ UNCHANGED timed
  BY <1>1, PerformKeeps DEF Enter, IInv, TypeOK
<1>2. CASE /\ Blocks(op)
           /\ waiting' = [waiting EXCEPT ![op] = @ \cup {t}]
           /\ timed' \in {timed, timed \cup {t}}
           /\ UNCHANGED <<size, woken>>
  <2>1. t \notin woken[op] /\ timed' \in SUBSET Threads
    BY <1>2 DEF Enter, Idle, IInv, TypeOK
  <2> QED BY <1>2, <2>1, BlockKeeps DEF Enter
<1> QED BY <1>1, <1>2 DEF Enter

\* A wakeup without a notification only adds a woken thread.
LEMMA WakeUpKeeps ==
    ASSUME IInv, NEW op \in Ops, NEW t \in Threads, WakeUp(t, op)
    PROVE  IInv'
<1> USE OpsFacts
<1>1. /\ t \in waiting[op] /\ t \notin woken[op] /\ woken[op] \in SUBSET Threads
      /\ UNCHANGED <<max_size, size, stopped, timed, notifying>>
  BY DEF WakeUp, IInv, TypeOK
<1>2. /\ waiting' \in [Ops -> SUBSET Threads]
      /\ woken' \in [Ops -> SUBSET Threads]
      /\ \A o \in Ops : waiting'[o] \cap woken'[o] = {} /\ waiting'[o] \subseteq waiting[o]
      /\ \A o \in Ops \ {op} : woken'[o] = woken[o]
      /\ woken'[op] = woken[op] \cup {t}
  BY <1>1 DEF WakeUp, IInv, TypeOK
<1>3. /\ Cardinality(woken'[op]) = Cardinality(woken[op]) + 1
      /\ Cardinality(woken[op]) \in Nat
  BY <1>1, <1>2, CountThreads
<1>4. \A o \in Ops : Chances(o)' = Chances(o) /\ Chances(o) \in Int
  BY <1>1, QueueAssumption DEF Chances, IInv, TypeOK
<1>5. NoLostWakeup'
  <2> SUFFICES ASSUME NEW o \in Ops, waiting'[o] # {}
               PROVE  IF stopped
                      THEN \E p \in Threads : p \in notifying[o] \/ (o = Push /\ p \in notifying[Pop])
                      ELSE Chances(o) <= Cardinality(woken'[o])
    BY <1>1, <1>4 DEF NoLostWakeup
  <2>1. waiting[o] # {}
    BY <1>2
  <2>2. CASE stopped
    BY <2>1, <2>2 DEF IInv, NoLostWakeup
  <2>3. CASE ~stopped
    <3>1. Chances(o) <= Cardinality(woken[o])
      BY <2>1, <2>3 DEF IInv, NoLostWakeup
    <3>2. CASE o = op
      BY <1>3, <1>4, <2>3, <3>1, <3>2
    <3>3. CASE o # op
      BY <1>2, <2>3, <3>1, <3>3
    <3> QED BY <3>2, <3>3
  <2> QED BY <2>2, <2>3
<1>6. TypeOK' /\ WithinCapacity' /\ (waiting'[Push] # {} => max_size' > 0)
  BY <1>1, <1>2 DEF IInv, TypeOK, WithinCapacity
<1> QED BY <1>2, <1>5, <1>6 DEF IInv

\* A resumed thread does its work, waits on, or leaves a queue in which it
\* had no chance.
LEMMA ResumeKeeps ==
    ASSUME IInv, NEW op \in Ops, NEW t \in Threads, Resume(t, op)
    PROVE  IInv'
<1> USE OpsFacts
<1> DEFINE awake == [woken EXCEPT ![op] = @ \ {t}]
<1>1. t \in woken[op] /\ UNCHANGED <<max_size, stopped, notifying>>
  BY DEF Resume
<1>2. CASE Perform(op, awake) /\ timed' = timed \ {t}
  <2>1. timed' \in SUBSET Threads
    BY <1>2 DEF IInv, TypeOK
  <2> QED BY <1>1, <1>2, <2>1, PerformKeeps
<1>3. CASE /\ Blocks(op) /\ woken' = awake
           /\ waiting' = [waiting EXCEPT ![op] = @ \cup {t}]
           /\ UNCHANGED <<size, timed>>
  <2>1. timed' \in SUBSET Threads
    BY <1>3 DEF IInv, TypeOK
  <2> QED BY <1>1, <1>3, <2>1, BlockKeeps
<1>4. CASE /\ ~Proceeds(op) /\ woken' = awake /\ timed' = timed \ {t}
           /\ UNCHANGED <<size, waiting>>
  <2>1. /\ woken' \in [Ops -> SUBSET Threads]
        /\ \A o \in Ops \ {op} : woken'[o] = woken[o]
        /\ \A o \in Ops : woken'[o] \subseteq woken[o]
    BY <1>4 DEF IInv, TypeOK
  <2>2. (waiting[op] # {} /\ ~stopped) => (Chances(op) <= 0 /\ Chances(op) \in Int)
    BY <1>4, QueueAssumption DEF Chances, Proceeds, HasSpace, IInv, TypeOK
  <2>3. Cardinality(woken'[op]) \in Nat
    BY <2>1, CountThreads
  <2>4. \A o \in Ops : Chances(o)' = Chances(o)
    BY <1>1, <1>4 DEF Chances
  <2>5. NoLostWakeup'
    BY <1>1, <1>4, <2>1, <2>2, <2>3, <2>4 DEF IInv, NoLostWakeup
  <2>6. TypeOK' /\ WithinCapacity'
    BY <1>1, <1>4, <2>1 DEF IInv, TypeOK, WithinCapacity
  <2> QED BY <1>1, <1>4, <2>1, <2>5, <2>6 DEF IInv
<1> QED BY <1>2, <1>3, <1>4 DEF Resume

\* Stop and its notifications only empty the wait sets.
LEMMA StopKeeps ==
    ASSUME IInv, NEW t \in Threads, NEW op \in Ops, Stop(t) \/ StopNotifies(t, op)
    PROVE  IInv'
<1> USE OpsFacts
<1>1. CASE Stop(t)
  <2>1. /\ notifying' \in [Ops -> SUBSET Threads]
        /\ t \in notifying'[Pop] /\ stopped'
    BY <1>1 DEF Stop, IInv, TypeOK
  <2>2. NoLostWakeup'
    BY <2>1 DEF NoLostWakeup
  <2> QED BY <1>1, <2>1, <2>2 DEF Stop, IInv, TypeOK, WithinCapacity
<1>2. CASE StopNotifies(t, op)
  <2>1. /\ waiting' = [waiting EXCEPT ![op] = {}]
        /\ woken' = [woken EXCEPT ![op] = @ \cup waiting[op]]
        /\ UNCHANGED <<max_size, size, stopped, timed>>
        /\ t \in notifying[op]
    BY <1>2 DEF StopNotifies
  <2>2. /\ notifying' \in [Ops -> SUBSET Threads]
        /\ op = Pop => t \in notifying'[Push]
        /\ op = Push => notifying'[Pop] = notifying[Pop]
    BY <1>2 DEF StopNotifies, StillToNotify, IInv, TypeOK
  <2>3. TypeOK' /\ WithinCapacity'
    BY <2>1, <2>2 DEF IInv, TypeOK, WithinCapacity
  <2>4. /\ \A o \in Ops : waiting'[o] \cap woken'[o] = {}
        /\ waiting'[op] = {}
        /\ \A o \in Ops \ {op} : waiting'[o] = waiting[o] /\ woken'[o] = woken[o]
    BY <2>1 DEF IInv, TypeOK
  <2>5. \A o \in Ops : Chances(o)' = Chances(o)
    BY <2>1 DEF Chances
  <2>6. NoLostWakeup'
    BY <2>1, <2>2, <2>4, <2>5 DEF IInv, NoLostWakeup
  <2> QED BY <2>1, <2>3, <2>4, <2>6 DEF IInv
<1> QED BY <1>1, <1>2

\* Clear leaves nothing to consume and wakes every producer.
LEMMA ClearKeeps ==
    ASSUME IInv, NEW t \in Threads, Clear(t)
    PROVE  IInv'
<1> USE OpsFacts
<1>1. /\ size' = 0
      /\ waiting' = [waiting EXCEPT ![Push] = {}]
      /\ woken' = [woken EXCEPT ![Push] = @ \cup waiting[Push]]
      /\ UNCHANGED <<max_size, stopped, timed, notifying>>
  BY DEF Clear
<1>2. /\ \A o \in Ops : waiting'[o] \cap woken'[o] = {}
      /\ waiting'[Push] = {} /\ waiting'[Pop] = waiting[Pop] /\ woken'[Pop] = woken[Pop]
  BY <1>1 DEF IInv, TypeOK
<1>3. waiting' \in [Ops -> SUBSET Threads] /\ woken' \in [Ops -> SUBSET Threads]
  BY <1>1 DEF IInv, TypeOK
<1>4. TypeOK'
  BY <1>1, <1>3 DEF IInv, TypeOK
<1>5. WithinCapacity'
  BY <1>1, QueueAssumption DEF IInv, TypeOK, WithinCapacity
<1>6. Chances(Pop)' = 0 /\ Cardinality(woken'[Pop]) \in Nat
  BY <1>1, <1>3, CountThreads DEF Chances
<1>7. NoLostWakeup'
  BY <1>1, <1>2, <1>6 DEF IInv, NoLostWakeup
<1> QED BY <1>2, <1>4, <1>5, <1>7 DEF IInv

\* Reset requires that nobody is using the queue.
LEMMA ResetKeeps == ASSUME IInv, Reset PROVE IInv'
<1>1. \A op \in Ops : waiting[op] = {}
  BY DEF Reset, Idle, IInv, TypeOK
<1>2. TypeOK'
  BY DEF Reset, IInv, TypeOK
<1>3. WithinCapacity'
  BY QueueAssumption DEF Reset, IInv, TypeOK, WithinCapacity
<1> QED BY <1>1, <1>2, <1>3, OpsFacts DEF Reset, IInv, NoLostWakeup

\* The inductive invariant holds in every reachable state.
THEOREM IInvCorrect == Spec => []IInv
<1>1. IInv /\ [Next]_vars => IInv'
  <2> SUFFICES ASSUME IInv, [Next]_vars PROVE IInv'
    OBVIOUS
  <2>1. CASE UNCHANGED vars
    BY <2>1 DEF vars, IInv, TypeOK, WithinCapacity, NoLostWakeup, Chances
  <2> QED BY <2>1, EnterKeeps, WakeUpKeeps, ResumeKeeps, StopKeeps, ClearKeeps, ResetKeeps,
             OpsFacts DEF Next
<1> QED BY <1>1, InitIInv, PTL DEF Spec

\* The queue never holds more than its capacity, whoever races for a slot.
THEOREM CapacityRespected == Spec => []WithinCapacity
BY IInvCorrect, PTL DEF IInv

\* No thread stays blocked while a slot, an item or the end of the queue is
\* left unannounced to it.
THEOREM WakeupsNotLost == Spec => []NoLostWakeup
BY IInvCorrect, PTL DEF IInv

\* An operation that does its work puts an item in or takes one out.
LEMMA PerformIsPutOrTake ==
    ASSUME IInv, NEW op \in Ops, NEW awake, Perform(op, awake),
           UNCHANGED <<max_size, stopped>>
    PROVE  Q!Put \/ Q!Take
<1>1. CASE op = Push
  BY <1>1, OpsFacts DEF Perform, Proceeds, HasSpace, Q!Put
<1>2. CASE op = Pop
  BY <1>2, OpsFacts DEF Perform, Proceeds, Q!Take
<1> QED BY <1>1, <1>2, OpsFacts

\* For any number of threads and any capacity the queue implements the bounded
\* queue: it takes nothing when full or stopped, whoever was woken meanwhile.
THEOREM QueueImplements == Spec => ImplementsQueue
<1>1. Init => Q!Init
  BY DEF Init, Q!Init
<1>2. IInv /\ [Next]_vars => [Q!Next]_(Q!vars)
  <2> SUFFICES ASSUME IInv, [Next]_vars PROVE [Q!Next]_(Q!vars)
    OBVIOUS
  <2>1. ASSUME NEW t \in Threads, NEW op \in Ops, Enter(t, op)
        PROVE  [Q!Next]_(Q!vars)
    <3>1. UNCHANGED <<max_size, stopped>> /\ (Perform(op, woken) \/ size' = size)
      BY <2>1 DEF Enter
    <3> QED BY <3>1, PerformIsPutOrTake DEF Q!Next, Q!vars
  <2>2. ASSUME NEW t \in Threads, NEW op \in Ops, Resume(t, op)
        PROVE  [Q!Next]_(Q!vars)
    <3>1. /\ UNCHANGED <<max_size, stopped>>
          /\ Perform(op, [woken EXCEPT ![op] = @ \ {t}]) \/ size' = size
      BY <2>2 DEF Resume
    <3> QED BY <3>1, PerformIsPutOrTake DEF Q!Next, Q!vars
  <2>3. ASSUME NEW t \in Threads, NEW op \in Ops, WakeUp(t, op) \/ StopNotifies(t, op)
        PROVE  [Q!Next]_(Q!vars)
    BY <2>3 DEF WakeUp, StopNotifies, Q!vars
  <2>4. ASSUME NEW t \in Threads, Stop(t) PROVE Q!Close
    BY <2>4 DEF Stop, Q!Close
  <2>5. ASSUME NEW t \in Threads, Clear(t) PROVE Q!Discard
    BY <2>5 DEF Clear, Q!Discard
  <2>6. ASSUME Reset PROVE Q!Reopen
    BY <2>6 DEF Reset, Q!Reopen
  <2>7. CASE UNCHANGED vars
    BY <2>7 DEF vars, Q!vars
  <2> QED BY <2>1, <2>2, <2>3, <2>4, <2>5, <2>6, <2>7 DEF Next, Q!Next
<1> QED BY <1>1, <1>2, IInvCorrect, PTL DEF Spec, ImplementsQueue, Q!Spec
=============================================================================
