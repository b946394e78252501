--------------------------- MODULE ConfigWatchers ---------------------------
(***************************************************************************)
(* GlobalConfig (config/global_config.cpp) as the threads that use it see  *)
(* it: settings reached by dotted paths, readers and writers, and watchers *)
(* whose callbacks run inside Set, under the exclusive lock.               *)
(*                                                                         *)
(* Every call but Set is one critical section of mutex_ and one step.  Set *)
(* holds the lock while it calls the watchers of its key one by one.  The  *)
(* settings are one tree with two paths, "group" and "group.item": a Set   *)
(* of the first replaces what the second leads to.                         *)
(*                                                                         *)
(* Ids grow and watchers_ is appended to, so that the order of the vector  *)
(* is the order of the ids: watchers is a function of them.                *)
(***************************************************************************)
EXTENDS Naturals, FiniteSets, SequencesExt

CONSTANTS
    Threads,
    Leaves,         \* values that are not objects
    Default,        \* the leaf CreateDefaultConfig puts at "group.item"
    Absent,
    MaxCalls,       \* bound: calls that are made
    MaxWatchers     \* bound: watchers that are ever added

ASSUME WatchersAssumption ==
    /\ Default \in Leaves /\ Absent \notin Leaves
    /\ MaxCalls \in Nat /\ MaxWatchers \in Nat
    /\ IsFiniteSet(Threads)

Keys == {"group", "item"}
Ids == 1 .. MaxWatchers

\* A JSON value: a leaf, or an object with at most the member "item".
Leaf(v) == [object |-> FALSE, has |-> v]
Object(m) == [object |-> TRUE, has |-> m]
Nodes == {Leaf(v) : v \in Leaves} \cup {Object(m) : m \in Leaves \cup {Absent}}
Nothing == [object |-> FALSE, has |-> Absent]

\* What a callback does: return, or throw a std::exception, which Notify
\* swallows; throw something else; or call the same GlobalConfig.
Manners == {"returns", "throws_other", "enters"}

VARIABLES
    config,         \* config_: the node at "group"
    watchers,       \* watchers_: id -> [key, manner of the callback]
    next_watcher_id,
    pc,             \* what each thread is doing
    call,           \* the call it makes
    \* history
    calls,          \* calls made
    owed,           \* owed[w]: the values set at its key while w is registered
    told,           \* told[w]: the values its callback was given
    gone,           \* watchers whose Unwatch has returned
    silent,         \* keys changed with nobody told since their last Set
    escaped         \* an exception has left Set from a callback

history == <<calls, owed, told, gone, silent, escaped>>
vars == <<config, watchers, next_watcher_id, pc, call, history>>

NoCall == [op |-> "none"]

Registered == DOMAIN watchers

Init ==
    /\ config = Object(Default)
    /\ watchers = << >>
    /\ next_watcher_id = 1
    /\ pc = [t \in Threads |-> "idle"]
    /\ call = [t \in Threads |-> NoCall]
    /\ calls = 0
    /\ owed = [w \in Ids |-> <<>>]
    /\ told = [w \in Ids |-> <<>>]
    /\ gone = {}
    /\ silent = {}
    /\ escaped = FALSE

Goto(t, label) == pc' = [pc EXCEPT ![t] = label]

\* A Set is telling the watchers, or one of its callbacks never returns.
Telling(t) == pc[t] \in {"telling", "stuck"}

\* (Bug: NotifyWatchers runs after the lock was released.)
LockFree_Always == TRUE

\* The lock can be taken, shared or exclusively: nobody holds it for longer
\* than a step but a Set.
LockFree == \A t \in Threads : ~Telling(t)

\* GetValuePtr of the getters: what the path leads to.
Lookup(key, node) ==
    IF key = "group" THEN node
    ELSE IF node.object /\ node.has # Absent THEN Leaf(node.has)
    ELSE Nothing

\* GetValuePtr of Set creates what is missing as an empty object; a member of
\* something that is no object cannot be created: operator[] throws.
Reachable(key) == key = "group" \/ config.object
Found(key) ==
    IF Lookup(key, config) = Nothing THEN Object(Absent) ELSE Lookup(key, config)

\* (Bug: Set assigns to a copy of what the path leads to.)
Assigned_Copy(key, node) == config

\* The tree after the assignment through the pointer.
Assigned(key, node) == IF key = "group" THEN node ELSE Object(node.has)

-----------------------------------------------------------------------------
SetCalls ==
    [op : {"set"}, key : {"group"}, value : Nodes]
    \cup [op : {"set"}, key : {"item"}, value : {Leaf(v) : v \in Leaves}]

Calls ==
    SetCalls
    \cup [op : {"get"}, key : Keys]
    \cup [op : {"watch"}, key : Keys, manner : Manners]
    \cup [op : {"unwatch"}, id : Ids]
    \cup [op : {"reset", "load"}]

Adding == {t \in Threads : call[t].op = "watch"}

\* A thread calls; the first thing that happens is that it asks for the lock.
Begin(t) ==
    /\ pc[t] = "idle"
    /\ calls < MaxCalls
    /\ calls' = calls + 1
    /\ \E c \in Calls :
          /\ c.op = "watch" => next_watcher_id + Cardinality(Adding) <= MaxWatchers
          /\ c.op = "unwatch" => c.id < next_watcher_id
          /\ call' = [call EXCEPT ![t] = c]
    /\ Goto(t, "locking")
    /\ UNCHANGED <<config, watchers, next_watcher_id, owed, told, gone, silent, escaped>>

\* The thread t has the lock and is in the call op.
Inside(t, op) == pc[t] = "locking" /\ call[t].op = op /\ LockFree

Return(t) ==
    /\ Goto(t, "idle")
    /\ call' = [call EXCEPT ![t] = NoCall]

\* The getters, Get, Has, Dump and the lookup of Validate change nothing.
\* Validate runs its validator on a copy, after the lock.
Read(t) ==
    /\ Inside(t, "get")
    /\ Return(t)
    /\ UNCHANGED <<config, watchers, next_watcher_id, history>>

\* Set up to NotifyWatchers.
Set(t) ==
    /\ Inside(t, "set")
    /\ LET key == call[t].key
           node == call[t].value
       IN  IF ~Reachable(key)
           THEN /\ Return(t)
                /\ UNCHANGED <<config, owed, silent>>
           ELSE /\ config' = Assigned(key, node)
                /\ call' = [call EXCEPT ![t] =
                              [op |-> "set", key |-> key, value |-> node,
                               old |-> Found(key), at |-> 0]]
                /\ owed' = [w \in Ids |->
                              IF w \in Registered /\ watchers[w].key = key
                              THEN Append(owed[w], [old |-> Found(key), new |-> node])
                              ELSE owed[w]]
                /\ silent' = (silent \ {key})
                             \cup {k \in Keys \ {key} :
                                     Lookup(k, config') # Lookup(k, config)}
                /\ Goto(t, "telling")
    /\ UNCHANGED <<watchers, next_watcher_id, calls, told, gone, escaped>>

\* The watchers still to be told of the Set of t.
ToldNext(t) ==
    {w \in Registered : w > call[t].at /\ watchers[w].key = call[t].key}

NextTold(t) == CHOOSE w \in ToldNext(t) : \A u \in ToldNext(t) : w <= u

\* (Bug: an exception that leaves Set leaves the lock taken.)
Escape_Locked(t) == Goto(t, "stuck") /\ UNCHANGED call

\* The lock guards go out of scope with the exception.
Escape(t) == Return(t)

\* One round of the loop in NotifyWatchers.  A callback that calls the same
\* object asks for a lock its own thread has: it never returns, or the lock
\* throws a std::system_error, which is swallowed like any std::exception.
Notify(t) ==
    /\ pc[t] = "telling"
    /\ ToldNext(t) # {}
    /\ LET w == NextTold(t)
       IN  /\ told' = [told EXCEPT ![w] =
                         Append(@, [old |-> call[t].old, new |-> call[t].value])]
           /\ \/ /\ watchers[w].manner \in {"returns", "enters"}
                 /\ call' = [call EXCEPT ![t].at = w]
                 /\ UNCHANGED <<pc, escaped>>
              \/ /\ watchers[w].manner = "enters"
                 /\ Goto(t, "stuck")
                 /\ UNCHANGED <<call, escaped>>
              \/ /\ watchers[w].manner = "throws_other"
                 /\ Escape(t)
                 /\ escaped' = TRUE
    /\ UNCHANGED <<config, watchers, next_watcher_id, calls, owed, gone, silent>>

\* Every watcher was told: Set returns and with it goes the lock.
SetReturns(t) ==
    /\ pc[t] = "telling"
    /\ ToldNext(t) = {}
    /\ Return(t)
    /\ UNCHANGED <<config, watchers, next_watcher_id, history>>

Watch(t) ==
    /\ Inside(t, "watch")
    /\ next_watcher_id' = next_watcher_id + 1
    /\ watchers' = [w \in Registered \cup {next_watcher_id} |->
                       IF w = next_watcher_id
                       THEN [key |-> call[t].key, manner |-> call[t].manner]
                       ELSE watchers[w]]
    /\ Return(t)
    /\ UNCHANGED <<config, history>>

\* (Bug: what std::remove_if leaves at the end is not erased.)
Remaining_NotErased(id) == watchers

Remaining(id) == [w \in Registered \ {id} |-> watchers[w]]

Unwatch(t) ==
    /\ Inside(t, "unwatch")
    /\ watchers' = Remaining(call[t].id)
    /\ gone' = gone \cup {call[t].id}
    /\ Return(t)
    /\ UNCHANGED <<config, next_watcher_id, calls, owed, told, silent, escaped>>

\* ResetToDefaults, and Load of a file that is missing, holds other settings
\* or cannot be parsed; neither tells anybody.
Replace(t) ==
    /\ \/ Inside(t, "reset") /\ config' = Object(Default)
       \/ Inside(t, "load") /\ config' \in Nodes
    /\ silent' = silent \cup {k \in Keys : Lookup(k, config') # Lookup(k, config)}
    /\ Return(t)
    /\ UNCHANGED <<watchers, next_watcher_id, calls, owed, told, gone, escaped>>

Step(t) ==
    \/ Read(t) \/ Set(t) \/ Notify(t) \/ SetReturns(t)
    \/ Watch(t) \/ Unwatch(t) \/ Replace(t)

Next == \E t \in Threads : Begin(t) \/ Step(t)

Spec == Init /\ [][Next]_vars

\* A thread inside a call goes on when it can; nothing makes it call.  MaxCalls
\* stands in for a lock under which nobody waits for ever.
FairSpec == Spec /\ \A t \in Threads : WF_vars(Step(t))

-----------------------------------------------------------------------------
Changes == [old : Nodes, new : Nodes]

TypeOK ==
    /\ config \in Nodes
    /\ Registered \subseteq Ids
    /\ watchers \in [Registered -> [key : Keys, manner : Manners]]
    /\ next_watcher_id \in 1 .. MaxWatchers + 1
    /\ pc \in [Threads -> {"idle", "locking", "telling", "stuck"}]
    /\ calls \in 0 .. MaxCalls
    /\ owed \in [Ids -> Seq(Changes)] /\ told \in [Ids -> Seq(Changes)]
    /\ gone \subseteq Ids
    /\ silent \subseteq Keys
    /\ escaped \in BOOLEAN

\* Each watcher is told of every Set of its key, once, in the order in which
\* they took effect and with the value each one replaced: not of fewer, when
\* threads set at the same time or a callback throws, and not of others.  The
\* Set in progress aside, only an exception that is no std::exception, which
\* ends NotifyWatchers early, costs a watcher a change.
ToldEverySet ==
    escaped \/ \A w \in Ids :
        /\ IsPrefix(told[w], owed[w])
        /\ Len(owed[w]) <= Len(told[w]) + Cardinality({t \in Threads : Telling(t)})
        /\ (LockFree /\ w \in Registered) => told[w] = owed[w]

\* Once Unwatch has returned its callback is never called again, although a
\* Set of another thread may have been telling watchers at that moment.
NoneAfterUnwatch == [][\A w \in gone : told'[w] = told[w]]_vars

\* Between calls a watcher that was told of a change knows the setting, except
\* after a ResetToDefaults, a Load, or a Set of the path above or below its
\* own: these change the setting and tell nobody.
KnowsUnlessSilent ==
    (LockFree /\ ~escaped) =>
        \A w \in Registered :
            LET key == watchers[w].key
            IN  (told[w] # <<>> /\ key \notin silent)
                    => Last(told[w]).new = Lookup(key, config)

\* A callback has called the configuration that is calling it.
Reentered ==
    \E t \in Threads : /\ pc[t] = "stuck"
                       /\ ToldNext(t) # {} /\ watchers[NextTold(t)].manner = "enters"

\* Every call returns, whatever the watchers throw and whoever holds the lock,
\* unless a callback has called the configuration that is calling it: that Set
\* may never return, and then nobody gets the lock again.
CallsReturn == \A t \in Threads : (pc[t] # "idle") ~> (pc[t] = "idle" \/ Reentered)
=============================================================================
