------------------------------- MODULE Timer -------------------------------
(***************************************************************************)
(* Timer (common/timer.{h,cpp}): a thread that runs a callback every       *)
(* interval, or once, and the calls of Start, Stop, Restart, SetInterval,  *)
(* SetType and the destructor made by the threads that own the object.     *)
(*                                                                         *)
(* A step is what happens between two accesses to running_, should_stop_   *)
(* or timer_thread_ that another thread can tell apart.  timer_thread_ is  *)
(* a std::thread: assigning to it, or destroying it, while it is joinable  *)
(* calls std::terminate, which ends every thread of the process.           *)
(*                                                                         *)
(* Left out: the interval (a thread that sleeps stutters), the execution   *)
(* count and the times, which nothing branches on, and SetPrecision, which *)
(* is SetInterval with another field.  callback_ is set, once, before the  *)
(* first Start.                                                            *)
(***************************************************************************)
EXTENDS Integers, FiniteSets

CONSTANTS
    Callers,        \* threads that call the object's methods
    Threads,        \* identities of timer threads, used again after a join
    Types,          \* the TimerType values the owner uses
    NoOne,          \* mutex_ is free
    Null,           \* timer_thread_ holds no std::thread
    Joined          \* timer_thread_ holds one that is not joinable

ASSUME TimerAssumption ==
    /\ Threads # {} /\ Types # {}
    /\ Types \subseteq {"OneShot", "Repeating"}
    /\ {Null, Joined} \cap Threads = {}
    /\ Null # Joined
    /\ NoOne \notin Callers

VARIABLES
    config_mutex,   \* the caller that holds config_mutex_
    running, should_stop, type,
    timer_thread,
    tpc,            \* where each timer thread is; "free": never begun or joined
    pc,             \* where each caller is inside the method
    op,             \* the method each caller is in
    terminated,     \* std::terminate was called
    destroyed,
    \* history
    raced,          \* a Start and a Stop overlapped
    selfEnded       \* the timer thread ended, or was told to, without Stop's join

flags == <<running, should_stop, type>>
thread == <<timer_thread, tpc>>
calls == <<config_mutex, pc, op>>
ends == <<terminated, destroyed>>
history == <<raced, selfEnded>>
vars == <<flags, thread, calls, ends, history>>

Methods == {"none", "Start", "Stop", "Restart", "SetInterval", "Destroy"}
InStart == {"clear", "spawn"}
InStop == {"flag", "join", "wait", "reset"}
Waiting == {"idle", "start", "stop", "unlock"}

Init ==
    /\ config_mutex = NoOne
    /\ running = FALSE
    /\ should_stop = FALSE
    /\ type \in Types
    /\ timer_thread = Null
    /\ tpc = [i \in Threads |-> "free"]
    /\ pc = [c \in Callers |-> "idle"]
    /\ op = [c \in Callers |-> "none"]
    /\ terminated = FALSE
    /\ destroyed = FALSE
    /\ raced = FALSE
    /\ selfEnded = FALSE

\* The object may be used: nobody has destroyed it or is about to.
Usable == ~terminated /\ ~destroyed /\ \A c \in Callers : op[c] # "Destroy"

Joinable == timer_thread \in Threads

\* c wins running_.exchange while another caller is in the middle of a call.
Overlaps(c) == \E d \in Callers \ {c} : pc[d] \in InStart \cup InStop

Goto(c, place) == pc' = [pc EXCEPT ![c] = place]

\* c's Start is over.  SetInterval then runs ~lock_guard a second time.
StartOver(c) ==
    IF op[c] = "SetInterval"
    THEN Goto(c, "unlock") /\ UNCHANGED op
    ELSE Goto(c, "idle") /\ op' = [op EXCEPT ![c] = "none"]

\* c's Stop is over: it goes on to Start, or destroys the members, or returns.
StopOver(c, joinable) ==
    CASE op[c] \in {"Restart", "SetInterval"} ->
            Goto(c, "start") /\ UNCHANGED <<op, ends>>
      [] op[c] = "Destroy" ->
            /\ Goto(c, "idle")
            /\ op' = [op EXCEPT ![c] = "none"]
            /\ terminated' = joinable
            /\ destroyed' = TRUE
      [] OTHER ->
            /\ Goto(c, "idle")
            /\ op' = [op EXCEPT ![c] = "none"]
            /\ UNCHANGED ends

-----------------------------------------------------------------------------
(* A caller enters a method.                                               *)

Call(c, method) ==
    /\ Usable
    /\ pc[c] = "idle"
    /\ method = "Destroy" => \A d \in Callers : pc[d] = "idle"
    /\ op' = [op EXCEPT ![c] = method]
    /\ Goto(c, IF method = "Start" THEN "start" ELSE "stop")
    /\ UNCHANGED <<config_mutex, flags, thread, ends, history>>

\* It locks, and unlocks by hand before Restart when the timer is running.
\* When it is not running nothing but the interval changes: no step.
SetInterval(c) ==
    /\ config_mutex = NoOne
    /\ running
    /\ Call(c, "SetInterval")

SetType(c, t) ==
    /\ Usable
    /\ pc[c] = "idle"
    /\ config_mutex = NoOne
    /\ type' = t
    /\ UNCHANGED <<running, should_stop, thread, calls, ends, history>>

\* The second unlock of a mutex that is not held: nothing happens, or it is
\* taken from whoever holds it.
UnlockTwice(c) ==
    /\ ~terminated
    /\ pc[c] = "unlock"
    /\ config_mutex' \in {NoOne, config_mutex}
    /\ Goto(c, "idle")
    /\ op' = [op EXCEPT ![c] = "none"]
    /\ UNCHANGED <<flags, thread, ends, history>>

-----------------------------------------------------------------------------
(* Start.                                                                  *)

\* lock; running_.exchange(true)
StartExchange(c) ==
    /\ ~terminated
    /\ pc[c] = "start"
    /\ config_mutex = NoOne
    /\ IF running
       THEN StartOver(c) /\ UNCHANGED <<config_mutex, running, raced>>
       ELSE /\ running' = TRUE
            /\ config_mutex' = c
            /\ Goto(c, "clear")
            /\ raced' = (raced \/ Overlaps(c))
            /\ UNCHANGED op
    /\ UNCHANGED <<should_stop, type, thread, ends, selfEnded>>

\* (Bug: the stop request of the last run is still there.)
Cleared_Kept == should_stop

Cleared == FALSE

StartClear(c) ==
    /\ ~terminated
    /\ pc[c] = "clear"
    /\ should_stop' = Cleared
    /\ Goto(c, "spawn")
    /\ UNCHANGED <<running, type, thread, config_mutex, op, ends, history>>

\* timer_thread_ = make_unique<std::thread>(...), which may throw; unlock.
StartSpawn(c) ==
    /\ ~terminated
    /\ pc[c] = "spawn"
    /\ config_mutex' = NoOne
    /\ StartOver(c)
    /\ \/ \E i \in Threads :
            /\ tpc[i] = "free"
            /\ terminated' = Joinable
            /\ timer_thread' = i
            /\ tpc' = [tpc EXCEPT ![i] = "check"]
            /\ UNCHANGED running
       \/ /\ running' = FALSE
          /\ UNCHANGED <<thread, terminated>>
    /\ UNCHANGED <<should_stop, type, destroyed, history>>

-----------------------------------------------------------------------------
(* Stop.                                                                   *)

\* running_.exchange(false)
StopExchange(c) ==
    /\ ~terminated
    /\ pc[c] = "stop"
    /\ running' = FALSE
    /\ IF running
       THEN /\ Goto(c, "flag")
            /\ raced' = (raced \/ Overlaps(c))
            /\ UNCHANGED <<op, ends>>
       ELSE StopOver(c, Joinable) /\ UNCHANGED raced
    /\ UNCHANGED <<should_stop, type, thread, config_mutex, selfEnded>>

\* (Bug: the thread is not told.)
Requested_Forgotten == should_stop

Requested == TRUE

StopFlag(c) ==
    /\ ~terminated
    /\ pc[c] = "flag"
    /\ should_stop' = Requested
    /\ Goto(c, "join")
    /\ UNCHANGED <<running, type, thread, config_mutex, op, ends, history>>

\* (Bug: nobody waits for the thread.)
Awaited_Skipped == "reset"

Awaited == IF Joinable THEN "wait" ELSE "reset"

StopLooks(c) ==
    /\ ~terminated
    /\ pc[c] = "join"
    /\ Goto(c, Awaited)
    /\ UNCHANGED <<flags, thread, config_mutex, op, ends, history>>

\* (Bug: detach the thread instead of waiting for it.)
Ended_Detached(i) == i \in Threads

Ended(i) == tpc[i] = "ended"

\* timer_thread_->join() returns.
StopJoins(c) ==
    /\ ~terminated
    /\ pc[c] = "wait"
    /\ Joinable
    /\ Ended(timer_thread)
    /\ timer_thread' = Joined
    /\ tpc' = [tpc EXCEPT ![timer_thread] = IF @ = "ended" THEN "free" ELSE @]
    /\ Goto(c, "reset")
    /\ UNCHANGED <<flags, config_mutex, op, ends, history>>

\* timer_thread_.reset()
StopReset(c) ==
    /\ ~terminated
    /\ pc[c] = "reset"
    /\ timer_thread' = Null
    /\ IF Joinable
       THEN terminated' = TRUE /\ UNCHANGED <<pc, op, destroyed>>
       ELSE StopOver(c, FALSE)
    /\ UNCHANGED <<flags, tpc, config_mutex, history>>

-----------------------------------------------------------------------------
(* TimerThreadMain.                                                        *)

ThreadGoto(i, place) == tpc' = [tpc EXCEPT ![i] = place]

\* The loop's test, and the time has come or has not (then it sleeps: the
\* condition variable is local, so nothing but the time ends the sleep).
Loop(i) ==
    /\ ~terminated
    /\ tpc[i] = "check"
    /\ ThreadGoto(i, IF should_stop THEN "exit" ELSE "callback")
    /\ UNCHANGED <<flags, timer_thread, calls, ends, history>>

AfterCallback == IF type = "OneShot" THEN "exit" ELSE "check"

CallbackReturns(i) ==
    /\ ~terminated
    /\ tpc[i] = "callback"
    /\ ThreadGoto(i, AfterCallback)
    /\ UNCHANGED <<flags, timer_thread, calls, ends, history>>

\* The callback calls Stop().  join() of the calling thread throws; the
\* handler in ExecuteCallback swallows it, and timer_thread_ stays joinable.
CallbackStops(i) ==
    /\ ~terminated
    /\ tpc[i] = "callback"
    /\ running
    /\ running' = FALSE
    /\ should_stop' = TRUE
    /\ ThreadGoto(i, AfterCallback)
    /\ raced' = (raced \/ \E c \in Callers : pc[c] \in InStart \cup InStop)
    /\ selfEnded' = TRUE
    /\ UNCHANGED <<type, timer_thread, calls, ends>>

\* running_.store(false), and the function returns.
Exit(i) ==
    /\ ~terminated
    /\ tpc[i] = "exit"
    /\ running' = FALSE
    /\ selfEnded' = (selfEnded \/ running)
    /\ ThreadGoto(i, "ended")
    /\ UNCHANGED <<should_stop, type, timer_thread, calls, ends, raced>>

ThreadStep(i) == Loop(i) \/ CallbackReturns(i) \/ CallbackStops(i) \/ Exit(i)

Next ==
    \/ \E c \in Callers :
         \/ \E m \in Methods \ {"none", "SetInterval"} : Call(c, m)
         \/ SetInterval(c)
         \/ \E t \in Types : SetType(c, t)
         \/ UnlockTwice(c)
         \/ StartExchange(c)
         \/ StartClear(c)
         \/ StartSpawn(c)
         \/ StopExchange(c)
         \/ StopFlag(c)
         \/ StopLooks(c)
         \/ StopJoins(c)
         \/ StopReset(c)
    \/ \E i \in Threads : ThreadStep(i)

Spec == Init /\ [][Next]_vars

\* The operating system runs the timer thread, the callback returns, and a
\* join whose thread has ended returns.
FairSpec ==
    /\ Spec
    /\ \A i \in Threads : WF_vars(ThreadStep(i))
    /\ \A c \in Callers : WF_vars(StopJoins(c))

-----------------------------------------------------------------------------
Places == Waiting \cup InStart \cup InStop
Live == {"check", "callback", "exit"}

TypeOK ==
    /\ config_mutex \in Callers \cup {NoOne}
    /\ running \in BOOLEAN /\ should_stop \in BOOLEAN /\ type \in Types
    /\ timer_thread \in Threads \cup {Null, Joined}
    /\ tpc \in [Threads -> Live \cup {"free", "ended"}]
    /\ pc \in [Callers -> Places]
    /\ op \in [Callers -> Methods]
    /\ \A c \in Callers : pc[c] = "unlock" => op[c] = "SetInterval"
    /\ terminated \in BOOLEAN /\ destroyed \in BOOLEAN
    /\ raced \in BOOLEAN /\ selfEnded \in BOOLEAN

\* However the calls interleave, no timer thread outlives its std::thread:
\* while the process lives, each begun thread is the one timer_thread_ holds,
\* so there are never two of them running the callback.
NoOrphanThread ==
    ~terminated => \A i \in Threads : tpc[i] # "free" => timer_thread = i

\* std::terminate is called in two situations only: a Start and a Stop
\* overlapped, or the timer thread came to its end without a Stop that joins
\* it.  A timer that repeats and has one owner never ends the process.
TerminatesOnlyAs == terminated => raced \/ selfEnded

\* When calls do not overlap, running_ means what IsRunning reports: no call
\* under way, it is TRUE exactly while the thread that will fire is there.
\* (A thread that was told to stop by its own callback is the exception.)
IsRunningTruthful ==
    (~terminated /\ ~raced /\ \A c \in Callers : pc[c] \in Waiting) =>
        /\ running => Joinable /\ tpc[timer_thread] \in Live /\ (~should_stop \/ selfEnded)
        /\ ~selfEnded => (running <=> \E i \in Threads : tpc[i] \in Live)

\* A Stop that went as far as the join returns with the callback silent.
StopSilences ==
    [][\A c \in Callers : (pc[c] = "reset" /\ pc'[c] # "reset" /\ ~terminated') =>
            \A i \in Threads : tpc'[i] = "free"]_vars

\* Stop, and so the destructor, never waits for ever for a timer that only
\* one thread at a time starts and stops.
StopReturns ==
    \A c \in Callers :
        (pc[c] = "wait") ~> (pc[c] # "wait" \/ raced \/ terminated)
=============================================================================
