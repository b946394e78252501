---------------------------- MODULE Timer_proofs ----------------------------
(***************************************************************************)
(* Theorems about Timer, for any callers, timer threads and types.         *)
(***************************************************************************)
EXTENDS Timer, TLAPS

\* The vocabulary of one step, the same for every action.
LEMMA TypeInit == Init => TypeOK
  BY TimerAssumption DEF Init, TypeOK, Places, Waiting, Methods, Live

\* Leaving Start keeps the callers' places and methods well formed.
LEMMA StartOverType ==
    ASSUME TypeOK, NEW c \in Callers, StartOver(c)
    PROVE  /\ pc' \in [Callers -> Places]
           /\ op' \in [Callers -> Methods]
           /\ \A d \in Callers : pc'[d] = "unlock" => op'[d] = "SetInterval"
BY DEF TypeOK, StartOver, Goto, Places, Waiting, Methods

\* And so does leaving Stop, whatever comes next.
LEMMA StopOverType ==
    ASSUME TypeOK, NEW c \in Callers, NEW joinable \in BOOLEAN, StopOver(c, joinable)
    PROVE  /\ pc' \in [Callers -> Places]
           /\ op' \in [Callers -> Methods]
           /\ \A d \in Callers : pc'[d] = "unlock" => op'[d] = "SetInterval"
           /\ terminated' \in BOOLEAN /\ destroyed' \in BOOLEAN
BY DEF TypeOK, StopOver, Goto, Places, Waiting, Methods, ends

LEMMA TypeCallers ==
    ASSUME TypeOK, NEW c \in Callers,
           \/ \E m \in Methods \ {"none", "SetInterval"} : Call(c, m)
           \/ SetInterval(c)
           \/ \E t \in Types : SetType(c, t)
           \/ UnlockTwice(c)
           \/ StartExchange(c)
           \/ StartClear(c)
           \/ StartSpawn(c)
           \/ StopExchange(c)
           \/ StopFlag(c)
           \/ StopLooks(c)
           \/ StopJoins(c)
           \/ StopReset(c)
    PROVE  TypeOK'
  <1> USE TimerAssumption DEF TypeOK, Places, Waiting, InStart, InStop, Methods, Live,
        flags, thread, calls, ends, history, Goto, Joinable
  <1>1. ASSUME NEW m \in Methods \ {"none", "SetInterval"}, Call(c, m) PROVE TypeOK'
    BY <1>1 DEF Call, Usable
  <1>2. ASSUME SetInterval(c) PROVE TypeOK'
    BY <1>2 DEF Call, SetInterval, Usable
  <1>3. ASSUME NEW t \in Types, SetType(c, t) PROVE TypeOK'
    BY <1>3 DEF SetType
  <1>4. ASSUME UnlockTwice(c) PROVE TypeOK'
    BY <1>4 DEF UnlockTwice
  <1>5. ASSUME StartExchange(c) PROVE TypeOK'
    BY <1>5, StartOverType DEF StartExchange, Overlaps
  <1>6. ASSUME StartClear(c) PROVE TypeOK'
    BY <1>6 DEF StartClear, Cleared
  <1>7. ASSUME StartSpawn(c) PROVE TypeOK'
    <2>1. StartOver(c) /\ UNCHANGED <<should_stop, type, destroyed, history>>
      BY <1>7 DEF StartSpawn
    <2>2. /\ running' \in BOOLEAN /\ terminated' \in BOOLEAN
          /\ timer_thread' \in Threads \cup {Null, Joined}
          /\ tpc' \in [Threads -> Live \cup {"free", "ended"}]
          /\ config_mutex' = NoOne
      <3>1. CASE running' = FALSE /\ UNCHANGED <<timer_thread, tpc, terminated>>
        BY <1>7, <3>1 DEF StartSpawn
      <3>2. ASSUME NEW i \in Threads, timer_thread' = i, terminated' = Joinable,
                   tpc' = [tpc EXCEPT ![i] = "check"], running' = running
            PROVE  /\ running' \in BOOLEAN /\ terminated' \in BOOLEAN
                   /\ timer_thread' \in Threads
                   /\ tpc' \in [Threads -> Live \cup {"free", "ended"}]
        BY <3>2
      <3> QED BY <1>7, <3>1, <3>2 DEF StartSpawn
    <2>3. /\ pc' \in [Callers -> Places]
          /\ op' \in [Callers -> Methods]
          /\ \A d \in Callers : pc'[d] = "unlock" => op'[d] = "SetInterval"
      BY <2>1, StartOverType
    <2> QED BY <2>1, <2>2, <2>3
  <1>8. ASSUME StopExchange(c) PROVE TypeOK'
    <2>1. CASE running
      BY <1>8, <2>1 DEF StopExchange, Overlaps
    <2>2. CASE ~running
      <3>1. StopOver(c, Joinable) /\ Joinable \in BOOLEAN
        BY <1>8, <2>2 DEF StopExchange
      <3>2. /\ running' = FALSE
            /\ UNCHANGED <<raced, should_stop, type, timer_thread, tpc, config_mutex, selfEnded>>
        BY <1>8, <2>2 DEF StopExchange
      <3> HIDE DEF Joinable
      <3> QED BY <3>1, <3>2, StopOverType
    <2> QED BY <2>1, <2>2
  <1>9. ASSUME StopFlag(c) PROVE TypeOK'
    BY <1>9 DEF StopFlag, Requested
  <1>10. ASSUME StopLooks(c) PROVE TypeOK'
    BY <1>10 DEF StopLooks, Awaited
  <1>11. ASSUME StopJoins(c) PROVE TypeOK'
    BY <1>11 DEF StopJoins, Ended
  <1>12. ASSUME StopReset(c) PROVE TypeOK'
    BY <1>12 DEF StopReset, StopOver
  <1>13. QED
    BY <1>1, <1>2, <1>3, <1>4, <1>5, <1>6, <1>7, <1>8, <1>9, <1>10, <1>11, <1>12

LEMMA TypeThreads ==
    ASSUME TypeOK, NEW i \in Threads, ThreadStep(i)
    PROVE  TypeOK'
  <1> USE DEF TypeOK, Live, flags, calls, ends, history, ThreadGoto, AfterCallback
  <1>1. CASE Loop(i)
    BY <1>1 DEF Loop
  <1>2. CASE CallbackReturns(i)
    BY <1>2 DEF CallbackReturns
  <1>3. CASE CallbackStops(i)
    BY <1>3 DEF CallbackStops
  <1>4. CASE Exit(i)
    BY <1>4 DEF Exit
  <1>5. QED
    BY <1>1, <1>2, <1>3, <1>4 DEF ThreadStep

\* TypeOK is an invariant of the timer: flags, places and methods stay in
\* their vocabulary under any interleaving of callers and timer threads.
THEOREM TypeCorrect == Spec => []TypeOK
<1>1. TypeOK /\ [Next]_vars => TypeOK'
  <2> SUFFICES ASSUME TypeOK, [Next]_vars PROVE TypeOK'
    OBVIOUS
  <2>1. CASE UNCHANGED vars
    BY <2>1 DEF TypeOK, vars, flags, thread, calls, ends, history
  <2>2. CASE Next
    BY <2>2, TypeCallers, TypeThreads DEF Next
  <2> QED BY <2>1, <2>2
<1> QED BY TypeInit, <1>1, PTL DEF Spec

-----------------------------------------------------------------------------
\* A timer thread begins only when timer_thread_ holds no joinable thread, or
\* the process ends; it is given up only by a join that saw it end.
LEMMA OrphanStep ==
    ASSUME TypeOK, NoOrphanThread, [Next]_vars
    PROVE  NoOrphanThread'
<1> USE TimerAssumption
<1>1. CASE UNCHANGED thread /\ (terminated => terminated')
  BY <1>1 DEF NoOrphanThread, thread
<1>2. ASSUME NEW c \in Callers, StartSpawn(c) PROVE NoOrphanThread'
  <2>1. CASE terminated' = terminated /\ UNCHANGED thread
    BY <2>1 DEF NoOrphanThread, thread
  <2>2. ASSUME NEW i \in Threads, terminated' = Joinable, timer_thread' = i,
               tpc' = [tpc EXCEPT ![i] = "check"], ~terminated
        PROVE  NoOrphanThread'
    BY <2>2 DEF NoOrphanThread, TypeOK, Joinable
  <2> QED BY <1>2, <2>1, <2>2 DEF StartSpawn, thread
<1>3. ASSUME NEW c \in Callers, StopJoins(c) PROVE NoOrphanThread'
  BY <1>3 DEF StopJoins, NoOrphanThread, TypeOK, Ended, Joinable, ends
<1>4. ASSUME NEW c \in Callers, StopReset(c) PROVE NoOrphanThread'
  <2>1. CASE Joinable
    BY <1>4, <2>1 DEF StopReset, NoOrphanThread
  <2>2. CASE ~Joinable
    BY <1>4, <2>2 DEF StopReset, NoOrphanThread, Joinable
  <2> QED BY <2>1, <2>2
<1>5. ASSUME NEW i \in Threads, ThreadStep(i) PROVE NoOrphanThread'
  <2>1. /\ UNCHANGED <<timer_thread, terminated>>
        /\ tpc[i] # "free"
        /\ \A j \in Threads : tpc'[j] # "free" => tpc[j] # "free"
    BY <1>5 DEF ThreadStep, Loop, CallbackReturns, CallbackStops, Exit, ThreadGoto,
                AfterCallback, TypeOK, ends
  <2> QED BY <2>1 DEF NoOrphanThread
<1>6. ASSUME NEW c \in Callers,
             \/ \E m \in Methods \ {"none", "SetInterval"} : Call(c, m)
             \/ SetInterval(c)
             \/ \E t \in Types : SetType(c, t)
             \/ UnlockTwice(c) \/ StartExchange(c) \/ StartClear(c)
             \/ StopExchange(c) \/ StopFlag(c) \/ StopLooks(c)
      PROVE  UNCHANGED thread /\ (terminated => terminated')
  BY <1>6 DEF Call, SetInterval, SetType, UnlockTwice, StartExchange, StartClear,
              StopExchange, StopFlag, StopLooks, Usable, ends
<1>7. CASE UNCHANGED vars
  BY <1>1, <1>7 DEF vars, thread, ends
<1>8. CASE Next
  BY <1>1, <1>2, <1>3, <1>4, <1>5, <1>6, <1>8 DEF Next
<1> QED BY <1>7, <1>8

\* However many threads call Start and Stop, and however they interleave, two
\* timer threads never run the callback side by side, and none is left behind.
THEOREM NeverOrphaned == Spec => []NoOrphanThread
<1>1. Init => NoOrphanThread
  BY DEF Init, NoOrphanThread
<1> QED BY <1>1, OrphanStep, TypeCorrect, PTL DEF Spec

\* A Stop that got as far as its join returns with no timer thread at all.
THEOREM StopIsFinal == Spec => StopSilences
<1>1. TypeOK /\ NoOrphanThread /\ [Next]_vars =>
        [\A c \in Callers : (pc[c] = "reset" /\ pc'[c] # "reset" /\ ~terminated') =>
             \A i \in Threads : tpc'[i] = "free"]_vars
  <2> SUFFICES ASSUME TypeOK, NoOrphanThread, Next, NEW c \in Callers,
                      pc[c] = "reset", pc'[c] # "reset", ~terminated',
                      NEW i \in Threads
               PROVE  tpc'[i] = "free"
    OBVIOUS
  <2>1. StopReset(c)
    <3> USE DEF TypeOK, Goto
    <3>1. ASSUME NEW d \in Callers, d # c,
                 \/ \E m \in Methods \ {"none", "SetInterval"} : Call(d, m)
                 \/ SetInterval(d)
                 \/ \E t \in Types : SetType(d, t)
                 \/ UnlockTwice(d) \/ StartExchange(d) \/ StartClear(d)
                 \/ StartSpawn(d) \/ StopExchange(d) \/ StopFlag(d)
                 \/ StopLooks(d) \/ StopJoins(d) \/ StopReset(d)
          PROVE  pc'[c] = pc[c]
      BY <3>1 DEF Call, SetInterval, SetType, UnlockTwice, StartExchange, StartClear,
            StartSpawn, StopExchange, StopFlag, StopLooks, StopJoins, StopReset,
            StartOver, StopOver, calls
    <3>2. ASSUME NEW j \in Threads, ThreadStep(j) PROVE pc' = pc
      BY <3>2 DEF ThreadStep, Loop, CallbackReturns, CallbackStops, Exit, calls
    <3>3. ASSUME \/ \E m \in Methods \ {"none", "SetInterval"} : Call(c, m)
                 \/ SetInterval(c)
                 \/ \E t \in Types : SetType(c, t)
                 \/ UnlockTwice(c) \/ StartExchange(c) \/ StartClear(c)
                 \/ StartSpawn(c) \/ StopExchange(c) \/ StopFlag(c)
                 \/ StopLooks(c) \/ StopJoins(c)
          PROVE  FALSE
      BY <3>3 DEF Call, SetInterval, SetType, UnlockTwice, StartExchange, StartClear,
            StartSpawn, StopExchange, StopFlag, StopLooks, StopJoins, calls
    <3> QED BY <3>1, <3>2, <3>3 DEF Next
  <2>2. ~Joinable /\ ~terminated /\ tpc' = tpc
    BY <2>1 DEF StopReset
  <2> QED BY <2>2 DEF NoOrphanThread, Joinable
<1> QED BY <1>1, TypeCorrect, NeverOrphaned, PTL DEF Spec, StopSilences

-----------------------------------------------------------------------------
Busy == InStart \cup InStop

\* What overlapping calls and self-ended threads destroy: at most one caller
\* is between the exchange of running_ and its return, and running_ agrees
\* with timer_thread_ at every place of that call.
Serial ==
    (~terminated /\ ~raced /\ ~selfEnded) =>
        /\ \A c, d \in Callers : pc[c] \in Busy /\ pc[d] \in Busy => c = d
        /\ \A c \in Callers :
             /\ pc[c] \in InStart => running /\ ~Joinable
             /\ pc[c] \in {"flag", "join", "wait"} => ~running /\ Joinable
             /\ pc[c] = "reset" => ~running /\ ~Joinable
        /\ (\A c \in Callers : pc[c] \notin Busy) => (running <=> Joinable)

\* Whoever destroys the object is alone with it.
DestroyAlone ==
    \A c, d \in Callers : op[c] = "Destroy" /\ d # c => pc[d] = "idle"

TInv == TypeOK /\ TerminatesOnlyAs /\ Serial /\ DestroyAlone

LEMMA TInvInit == Init => TInv
<1> SUFFICES ASSUME Init PROVE TInv
  OBVIOUS
<1>1. TypeOK
  BY TypeInit
<1>2. TerminatesOnlyAs /\ Serial /\ DestroyAlone
  BY TimerAssumption
     DEF Init, TerminatesOnlyAs, Serial, DestroyAlone, Joinable, Busy, InStart, InStop
<1> QED BY <1>1, <1>2 DEF TInv

\* Only a caller that finds everyone idle becomes the destroyer, and from then
\* on nobody enters a method.
LEMMA AloneStep ==
    ASSUME TInv, NEW c \in Callers,
           \/ \E m \in Methods \ {"none", "SetInterval"} : Call(c, m)
           \/ SetInterval(c)
           \/ UnlockTwice(c) \/ StartExchange(c) \/ StartClear(c)
           \/ StartSpawn(c) \/ StopExchange(c) \/ StopFlag(c)
           \/ StopLooks(c) \/ StopJoins(c) \/ StopReset(c)
    PROVE  DestroyAlone'
<1> USE DEF TInv, TypeOK, DestroyAlone, Goto
<1>1. ASSUME NEW m \in Methods \ {"none"}, Call(c, m) PROVE DestroyAlone'
  BY <1>1 DEF Call, Usable
<1>2. CASE SetInterval(c)
  BY <1>1, <1>2 DEF SetInterval, Methods
<1>3. ASSUME pc[c] # "idle",
             \A d \in Callers \ {c} : pc'[d] = pc[d] /\ op'[d] = op[d],
             op'[c] = op[c] \/ op'[c] = "none"
      PROVE  DestroyAlone'
  BY <1>3
<1>4. CASE UnlockTwice(c)
  BY <1>4, <1>3 DEF UnlockTwice
<1>5. CASE StartExchange(c)
  BY <1>5, <1>3 DEF StartExchange, StartOver
<1>6. CASE StartClear(c)
  BY <1>6, <1>3 DEF StartClear
<1>7. CASE StartSpawn(c)
  <2>1. pc[c] # "idle" /\ StartOver(c)
    BY <1>7 DEF StartSpawn
  <2> QED BY <2>1, <1>3 DEF StartOver
<1>8. CASE StopExchange(c)
  BY <1>8, <1>3 DEF StopExchange, StopOver
<1>9. CASE StopFlag(c)
  BY <1>9, <1>3 DEF StopFlag
<1>10. CASE StopLooks(c)
  BY <1>10, <1>3 DEF StopLooks
<1>11. CASE StopJoins(c)
  BY <1>11, <1>3 DEF StopJoins
<1>12. CASE StopReset(c)
  BY <1>12, <1>3 DEF StopReset, StopOver
<1> QED BY <1>1, <1>2, <1>4, <1>5, <1>6, <1>7, <1>8, <1>9, <1>10, <1>11, <1>12

\* Start and Stop keep Serial, and end the process only when it is broken.
LEMMA SerialStart ==
    ASSUME TInv, NEW c \in Callers,
           StartExchange(c) \/ StartClear(c) \/ StartSpawn(c)
    PROVE  Serial' /\ TerminatesOnlyAs'
<1> USE TimerAssumption
    DEF TInv, TypeOK, Serial, TerminatesOnlyAs, Goto, Busy, InStart, InStop, Joinable
<1>1. CASE StartExchange(c)
  <2>1. CASE running
    BY <1>1, <2>1 DEF StartExchange, StartOver, ends, thread
  <2>2. CASE ~running
    <3>1. /\ pc[c] = "start" /\ pc'[c] = "clear" /\ running' = TRUE
          /\ \A d \in Callers \ {c} : pc'[d] = pc[d]
          /\ UNCHANGED <<timer_thread, terminated, selfEnded>>
      BY <1>1, <2>2 DEF StartExchange, ends, thread
    <3>2. /\ raced => raced'
          /\ ~raced' => \A d \in Callers \ {c} : pc[d] \notin Busy
      BY <1>1, <2>2 DEF StartExchange, Overlaps
    <3>3. (~terminated /\ ~raced' /\ ~selfEnded) =>
             ~Joinable /\ \A d \in Callers \ {c} : pc'[d] \notin Busy
      BY <3>1, <3>2, <2>2
    <3> QED BY <3>1, <3>2, <3>3
  <2> QED BY <2>1, <2>2
<1>2. CASE StartClear(c)
  BY <1>2 DEF StartClear, thread, ends, history
<1>3. CASE StartSpawn(c)
  <2>1. /\ pc[c] = "spawn" /\ ~terminated
        /\ pc'[c] \in {"unlock", "idle"}
        /\ \A d \in Callers \ {c} : pc'[d] = pc[d]
        /\ UNCHANGED history
    BY <1>3 DEF StartSpawn, StartOver
  <2>2. \/ terminated' = Joinable /\ timer_thread' \in Threads /\ running' = running
        \/ running' = FALSE /\ timer_thread' = timer_thread /\ terminated' = terminated
    BY <1>3 DEF StartSpawn, thread
  <2> QED BY <2>1, <2>2 DEF history
<1> QED BY <1>1, <1>2, <1>3

LEMMA SerialStop ==
    ASSUME TInv, NEW c \in Callers,
           StopExchange(c) \/ StopFlag(c) \/ StopLooks(c) \/ StopJoins(c) \/ StopReset(c)
    PROVE  Serial' /\ TerminatesOnlyAs'
<1> USE TimerAssumption
    DEF TInv, TypeOK, Serial, TerminatesOnlyAs, Goto, Busy, InStart, InStop, Joinable
<1>1. CASE StopExchange(c)
  <2>1. CASE running
    BY <1>1, <2>1, ZenonT(40) DEF StopExchange, Overlaps, ends, thread
  <2>2. CASE ~running
    <3>1. /\ pc[c] = "stop" /\ ~terminated
          /\ pc'[c] \in {"start", "idle"}
          /\ \A d \in Callers \ {c} : pc'[d] = pc[d]
          /\ UNCHANGED <<running, raced, selfEnded, timer_thread>>
      BY <1>1, <2>2 DEF StopExchange, StopOver, thread
    <3>2. CASE op[c] = "Destroy"
      <4>1. terminated' = Joinable
        BY <1>1, <2>2, <3>2 DEF StopExchange, StopOver
      <4>2. \A d \in Callers : pc[d] \notin Busy
        BY <3>1, <3>2 DEF DestroyAlone
      <4> QED BY <3>1, <4>1, <4>2, <2>2
    <3>3. CASE op[c] # "Destroy"
      <4>1. terminated' = terminated
        BY <1>1, <2>2, <3>3 DEF StopExchange, StopOver, ends
      <4> QED BY <3>1, <4>1
    <3> QED BY <3>2, <3>3
  <2> QED BY <2>1, <2>2
<1>2. CASE StopFlag(c)
  BY <1>2 DEF StopFlag, thread, ends, history
<1>3. CASE StopLooks(c)
  BY <1>3 DEF StopLooks, Awaited, flags, thread, ends, history
<1>4. CASE StopJoins(c)
  BY <1>4 DEF StopJoins, flags, ends, history
<1>5. CASE StopReset(c)
  <2>1. pc[c] = "reset" /\ ~terminated /\ timer_thread' = Null /\ UNCHANGED <<flags, history>>
    BY <1>5 DEF StopReset
  <2>2. CASE Joinable
    BY <1>5, <2>1, <2>2 DEF StopReset, history
  <2>3. CASE ~Joinable
    <3>1. /\ pc'[c] \in {"start", "idle"} /\ terminated' = FALSE
          /\ \A d \in Callers \ {c} : pc'[d] = pc[d]
      BY <1>5, <2>3 DEF StopReset, StopOver, ends
    <3> QED BY <2>1, <2>3, <3>1 DEF flags, history
  <2> QED BY <2>2, <2>3
<1> QED BY <1>1, <1>2, <1>3, <1>4, <1>5

LEMMA TInvStep == TInv /\ [Next]_vars => TInv'
<1> SUFFICES ASSUME TInv, [Next]_vars PROVE TInv'
  OBVIOUS
<1>1. TypeOK'
  BY TypeCallers, TypeThreads DEF TInv, TypeOK, Next, vars, flags, thread, calls, ends, history
<1>2. CASE UNCHANGED vars
  BY <1>1, <1>2 DEF TInv, TerminatesOnlyAs, Serial, DestroyAlone, Joinable,
                    vars, flags, thread, calls, ends, history
<1>3. ASSUME NEW c \in Callers,
             \/ \E m \in Methods \ {"none", "SetInterval"} : Call(c, m)
             \/ SetInterval(c) \/ UnlockTwice(c)
      PROVE  TInv'
  <2>1. /\ UNCHANGED <<flags, thread, ends, history>>
        /\ pc'[c] \in {"start", "stop", "idle"} /\ pc[c] \in {"idle", "unlock"}
        /\ \A d \in Callers \ {c} : pc'[d] = pc[d]
    BY <1>3 DEF Call, SetInterval, UnlockTwice, Goto, TInv, TypeOK
  <2>2. Serial' /\ TerminatesOnlyAs'
    BY <2>1 DEF TInv, Serial, TerminatesOnlyAs, Joinable, Busy, InStart, InStop,
                flags, thread, ends, history
  <2> QED BY <1>1, <1>3, <2>2, AloneStep DEF TInv
<1>4. ASSUME NEW c \in Callers, NEW t \in Types, SetType(c, t) PROVE TInv'
  BY <1>1, <1>4 DEF SetType, TInv, TerminatesOnlyAs, Serial, DestroyAlone, Joinable,
                    thread, calls, ends, history
<1>5. ASSUME NEW c \in Callers,
             \/ StartExchange(c) \/ StartClear(c) \/ StartSpawn(c) \/ StopExchange(c)
             \/ StopFlag(c) \/ StopLooks(c) \/ StopJoins(c) \/ StopReset(c)
      PROVE  TInv'
  BY <1>1, <1>5, AloneStep, SerialStart, SerialStop DEF TInv
<1>6. ASSUME NEW i \in Threads, ThreadStep(i) PROVE TInv'
  <2>1. /\ UNCHANGED <<pc, op, timer_thread, terminated>>
        /\ ~terminated
        /\ (~raced' /\ ~selfEnded') => ~raced /\ ~selfEnded /\ running' = running
    BY <1>6 DEF ThreadStep, Loop, CallbackReturns, CallbackStops, Exit, TInv, TypeOK,
                flags, calls, ends, history
  <2> QED BY <1>1, <2>1 DEF TInv, TerminatesOnlyAs, Serial, DestroyAlone, Joinable
<1> QED BY <1>2, <1>3, <1>4, <1>5, <1>6 DEF Next

\* A timer with one owner at a time and a thread that ends only when told to
\* never takes the process down, for any number of callers and threads.
THEOREM TerminatesRarely == Spec => []TerminatesOnlyAs
BY TInvInit, TInvStep, PTL DEF Spec, TInv

-----------------------------------------------------------------------------
Firing == Joinable /\ tpc[timer_thread] \in Live /\ (~should_stop \/ selfEnded)

\* What a self-ended thread leaves standing: one caller at a time is busy, it
\* has taken running_ away before it stops the thread, and before it spawns one
\* it has taken the stop request back.
Truthful ==
    (~terminated /\ ~raced) =>
        /\ \A c, d \in Callers : pc[c] \in Busy /\ pc[d] \in Busy => c = d
        /\ \A c \in Callers :
             /\ pc[c] \in InStop => ~running
             /\ pc[c] = "spawn" => ~should_stop \/ selfEnded
        /\ running /\ (\A c \in Callers : pc[c] \notin Busy) => Firing

\* A step of a caller that is not busy before nor after, and touches nothing.
LEMMA TruthKept ==
    ASSUME Truthful, NEW c \in Callers, pc[c] \notin Busy, pc'[c] \notin Busy,
           \A d \in Callers \ {c} : pc'[d] = pc[d],
           UNCHANGED <<running, should_stop, timer_thread, tpc, terminated, raced, selfEnded>>
    PROVE  Truthful'
BY DEF Truthful, Firing, Joinable, Busy, InStart, InStop

LEMMA TruthIdle ==
    ASSUME TypeOK, Truthful, NEW c \in Callers,
           \/ \E m \in Methods \ {"none", "SetInterval"} : Call(c, m)
           \/ SetInterval(c)
           \/ \E t \in Types : SetType(c, t)
           \/ UnlockTwice(c)
    PROVE  Truthful'
<1>1. /\ UNCHANGED <<running, should_stop, thread, ends, history>>
      /\ pc'[c] \notin Busy /\ pc[c] \notin Busy
      /\ \A d \in Callers \ {c} : pc'[d] = pc[d]
  BY DEF Call, SetInterval, SetType, UnlockTwice, Goto, TypeOK, flags, calls,
         Busy, InStart, InStop
<1> QED BY <1>1, TruthKept DEF thread, ends, history

LEMMA TruthStart ==
    ASSUME TypeOK, Truthful, NEW c \in Callers,
           StartExchange(c) \/ StartClear(c) \/ StartSpawn(c)
    PROVE  Truthful'
<1> USE TimerAssumption
    DEF TypeOK, Truthful, Firing, Goto, Busy, InStart, InStop, Joinable, Live
<1>1. CASE StartExchange(c)
  <2>1. CASE running
    BY <1>1, <2>1 DEF StartExchange, StartOver, ends, thread
  <2>2. CASE ~running
    <3>1. /\ pc'[c] = "clear"
          /\ \A d \in Callers \ {c} : pc'[d] = pc[d]
          /\ UNCHANGED <<terminated, selfEnded, should_stop>>
      BY <1>1, <2>2 DEF StartExchange, ends, thread
    <3>2. /\ raced => raced'
          /\ ~raced' => \A d \in Callers \ {c} : pc[d] \notin Busy
      BY <1>1, <2>2 DEF StartExchange, Overlaps
    <3> QED BY <3>1, <3>2
  <2> QED BY <2>1, <2>2
<1>2. CASE StartClear(c)
  BY <1>2 DEF StartClear, Cleared, thread, ends, history
<1>3. CASE StartSpawn(c)
  <2>1. /\ pc[c] = "spawn" /\ ~terminated
        /\ pc'[c] \in {"unlock", "idle"}
        /\ \A d \in Callers \ {c} : pc'[d] = pc[d]
        /\ UNCHANGED <<history, should_stop>>
    BY <1>3 DEF StartSpawn, StartOver
  <2>2. \/ /\ timer_thread' \in Threads /\ tpc'[timer_thread'] = "check"
           /\ running' = running
        \/ running' = FALSE
    BY <1>3 DEF StartSpawn, thread
  <2> QED BY <2>1, <2>2 DEF history
<1> QED BY <1>1, <1>2, <1>3

LEMMA TruthStop ==
    ASSUME TypeOK, Truthful, NEW c \in Callers,
           StopExchange(c) \/ StopFlag(c) \/ StopLooks(c) \/ StopJoins(c) \/ StopReset(c)
    PROVE  Truthful'
<1> USE TimerAssumption
    DEF TypeOK, Truthful, Firing, Goto, Busy, InStart, InStop, Joinable, Live
<1>1. CASE StopExchange(c)
  <2>1. CASE running
    BY <1>1, <2>1, ZenonT(40) DEF StopExchange, Overlaps, ends, thread
  <2>2. CASE ~running
    <3>1. /\ pc[c] = "stop" /\ ~terminated
          /\ pc'[c] \in {"start", "idle"}
          /\ \A d \in Callers \ {c} : pc'[d] = pc[d]
          /\ running' = FALSE /\ UNCHANGED <<raced, selfEnded, should_stop>>
      BY <1>1, <2>2 DEF StopExchange, StopOver
    <3> QED BY <3>1
  <2> QED BY <2>1, <2>2
<1>2. CASE StopFlag(c)
  BY <1>2 DEF StopFlag, thread, ends, history
<1>3. CASE StopLooks(c)
  BY <1>3 DEF StopLooks, Awaited, flags, thread, ends, history
<1>4. CASE StopJoins(c)
  BY <1>4 DEF StopJoins, flags, ends, history
<1>5. CASE StopReset(c)
  <2>1. /\ pc[c] = "reset" /\ ~terminated /\ UNCHANGED <<flags, history>>
        /\ terminated' \/ pc'[c] \in {"start", "idle"}
        /\ \A d \in Callers \ {c} : pc'[d] = pc[d]
    BY <1>5 DEF StopReset, StopOver
  <2> QED BY <2>1 DEF flags, history
<1> QED BY <1>1, <1>2, <1>3, <1>4, <1>5

\* A thread that ends by itself takes running_ with it.
LEMMA TruthThread ==
    ASSUME TypeOK, Truthful, NEW i \in Threads, ThreadStep(i)
    PROVE  Truthful'
<1> USE DEF TypeOK, Truthful, Firing, Joinable, Live, Busy, InStart, InStop
<1>1. /\ UNCHANGED <<pc, timer_thread, terminated>> /\ (raced => raced')
      /\ selfEnded => selfEnded'
      /\ should_stop' => should_stop \/ selfEnded'
      /\ running' => running /\ tpc'[i] \in Live
      /\ \A j \in Threads \ {i} : tpc'[j] = tpc[j]
  BY DEF ThreadStep, Loop, CallbackReturns, CallbackStops, Exit, ThreadGoto,
         AfterCallback, flags, calls, ends, history
<1> QED BY <1>1

LEMMA TruthStep == TypeOK /\ Truthful /\ [Next]_vars => Truthful'
<1> SUFFICES ASSUME TypeOK, Truthful, [Next]_vars PROVE Truthful'
  OBVIOUS
<1>1. CASE UNCHANGED vars
  BY <1>1 DEF Truthful, Firing, Joinable, vars, flags, thread, calls, ends, history
<1> QED BY <1>1, TruthIdle, TruthStart, TruthStop, TruthThread DEF Next

\* Between calls that do not overlap, running_ says what the timer does: set,
\* the thread that will fire is there, and no other; and cleared, none is,
\* unless a callback has stopped its own timer.
THEOREM RunningIsTrue == Spec => []IsRunningTruthful
<1>1. Init => Truthful
  BY DEF Init, Truthful, Busy, InStart, InStop
<1>2. TInv /\ NoOrphanThread /\ Truthful => IsRunningTruthful
  <2> SUFFICES ASSUME TInv, NoOrphanThread, Truthful, ~terminated, ~raced,
                      \A c \in Callers : pc[c] \in Waiting
               PROVE  /\ running => Firing
                      /\ ~selfEnded => (running <=> \E i \in Threads : tpc[i] \in Live)
    BY DEF IsRunningTruthful, Firing
  <2>1. \A c \in Callers : pc[c] \notin Busy
    BY DEF Busy, InStart, InStop, Waiting
  <2>2. running => Firing
    BY <2>1 DEF Truthful
  <2>3. ASSUME NEW i \in Threads, tpc[i] \in Live, ~selfEnded PROVE running
    <3>1. timer_thread = i
      BY <2>3 DEF NoOrphanThread, Live
    <3> QED BY <2>1, <2>3, <3>1 DEF TInv, Serial, Joinable
  <2>4. Joinable => timer_thread \in Threads
    BY DEF Joinable
  <2> QED BY <2>2, <2>3, <2>4 DEF Firing
<1> QED BY <1>1, <1>2, TruthStep, TInvInit, TInvStep, TypeCorrect, NeverOrphaned,
           PTL DEF Spec
=============================================================================
