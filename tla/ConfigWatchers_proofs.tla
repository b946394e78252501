----------------------- MODULE ConfigWatchers_proofs -----------------------
(***************************************************************************)
(* For any number of threads, calls and watchers, GlobalConfig tells each  *)
(* watcher of every Set of its key, and none after its Unwatch.            *)
(***************************************************************************)
EXTENDS ConfigWatchers, FiniteSetTheorems, SequenceTheorems, WellFoundedInduction, TLAPS

\* What a thread holds in its hands while its Set tells the watchers.
Tellings ==
    [op : {"set"}, key : Keys, value : Nodes, old : Nodes, at : 0 .. MaxWatchers]

\* The call of a thread suits what the thread is doing.
CallsFit ==
    /\ call = [t \in Threads |-> call[t]]
    /\ \A t \in Threads :
          /\ pc[t] = "idle" => call[t] = NoCall
          /\ pc[t] = "locking" =>
                /\ call[t] \in Calls
                /\ call[t].op = "unwatch" => call[t].id < next_watcher_id
          /\ Telling(t) => call[t] \in Tellings

\* Ids are not used twice, and those that may still be given out suffice.
IdsGrow ==
    /\ Registered \subseteq 1 .. next_watcher_id - 1
    /\ gone \subseteq 1 .. next_watcher_id - 1
    /\ gone \cap Registered = {}
    /\ next_watcher_id + Cardinality(Adding) <= MaxWatchers + 1
    /\ \A w \in Ids : w >= next_watcher_id => owed[w] = << >>

\* The lock is held by one thread.
Alone == \A t, u \in Threads : Telling(t) /\ Telling(u) => t = u

\* The watchers that the Set of t has not told: a stuck one has told the next.
Untold(t) ==
    IF pc[t] = "stuck" THEN ToldNext(t) \ {NextTold(t)} ELSE ToldNext(t)

Change(t) == [old |-> call[t].old, new |-> call[t].value]

\* A watcher lacks nothing but the change of the Set in progress, and that one
\* only until its turn has come.
Books ==
    ~escaped =>
        /\ LockFree => told = owed
        /\ \A t \in Threads : Telling(t) =>
              \A w \in Ids :
                 owed[w] = IF w \in Untold(t) THEN Append(told[w], Change(t)) ELSE told[w]

\* The last change of a key is the setting, unless it went in silence.
Knows ==
    \A w \in Registered :
        (owed[w] # << >> /\ watchers[w].key \notin silent)
            => Last(owed[w]).new = Lookup(watchers[w].key, config)

IInv == TypeOK /\ CallsFit /\ IdsGrow /\ Alone /\ Books /\ Knows

-----------------------------------------------------------------------------
(* Settings.                                                               *)

\* A JSON value is a leaf with a value, or an object.
LEMMA NodeShape ==
    ASSUME NEW n \in Nodes
    PROVE  /\ n = [object |-> n.object, has |-> n.has]
           /\ n.object = TRUE \/ n.object = FALSE
           /\ n.object => n.has \in Leaves \cup {Absent}
           /\ ~n.object => n.has \in Leaves
BY DEF Nodes, Leaf, Object

LEMMA LeafIsNode == \A v \in Leaves : Leaf(v) \in Nodes
BY DEF Nodes

LEMMA ObjectIsNode == \A m \in Leaves \cup {Absent} : Object(m) \in Nodes
BY DEF Nodes

\* What Set replaces is a JSON value, created when it was not there.
LEMMA FoundType ==
    ASSUME NEW key \in Keys, config \in Nodes
    PROVE  Found(key) \in Nodes
<1>1. Lookup(key, config) \in Nodes \cup {Nothing}
  BY NodeShape, LeafIsNode DEF Lookup, Keys
<1> QED BY <1>1, ObjectIsNode DEF Found

\* Set puts the value where the path leads.
LEMMA AssignedType ==
    ASSUME NEW c \in SetCalls
    PROVE  /\ c.op = "set" /\ c.key \in Keys /\ c.value \in Nodes
           /\ Assigned(c.key, c.value) \in Nodes
           /\ Lookup(c.key, Assigned(c.key, c.value)) = c.value
<1>1. CASE c \in [op : {"set"}, key : {"group"}, value : Nodes]
  BY <1>1 DEF Assigned, Lookup, Keys
<1>2. CASE c \in [op : {"set"}, key : {"item"}, value : {Leaf(v) : v \in Leaves}]
  <2>1. PICK v \in Leaves : c.value = Leaf(v)
    BY <1>2
  <2>2. /\ c.op = "set" /\ c.key = "item"
        /\ Assigned(c.key, c.value) = Object(v) /\ Object(v).object /\ Object(v).has = v
    BY <1>2, <2>1 DEF Assigned, Leaf, Object
  <2>3. v # Absent
    BY WatchersAssumption
  <2>4. Lookup(c.key, Assigned(c.key, c.value)) = c.value
    BY <2>1, <2>2, <2>3 DEF Lookup
  <2> QED BY <2>1, <2>2, <2>4, LeafIsNode, ObjectIsNode DEF Keys
<1> QED BY <1>1, <1>2 DEF SetCalls

-----------------------------------------------------------------------------
(* Watchers.                                                               *)

\* NotifyWatchers tells the oldest of those it has not told.
LEMMA NextIsOldest ==
    ASSUME NEW t \in Threads, Registered \subseteq Ids, ToldNext(t) # {}
    PROVE  /\ NextTold(t) \in ToldNext(t)
           /\ \A u \in ToldNext(t) : NextTold(t) <= u
<1> DEFINE below == {pair \in Nat \X Nat : pair[1] < pair[2]}
<1>1. ToldNext(t) \subseteq Nat
  <2>1. Ids \subseteq Nat
    BY WatchersAssumption DEF Ids
  <2> QED BY <2>1 DEF ToldNext
<1>2. IsWellFoundedOn(below, Nat)
  BY NatLessThanWellFounded DEF OpToRel
<1>3. PICK w \in ToldNext(t) : \A u \in ToldNext(t) : ~(<<u, w>> \in below)
  <2> HIDE DEF below
  <2> QED BY <1>1, <1>2, WFMin
<1>4. ASSUME NEW u \in ToldNext(t) PROVE w <= u
  <2>1. u \in Nat /\ w \in Nat
    BY <1>1
  <2>2. ~(u < w)
    BY <1>3, <2>1
  <2> QED BY <2>1, <2>2
<1> QED BY <1>4 DEF NextTold

\* What is left to tell depends on the watchers and on the thread's own call.
LEMMA UntoldSame ==
    ASSUME NEW t \in Threads,
           pc'[t] = pc[t], call'[t] = call[t], watchers' = watchers
    PROVE  Untold(t)' = Untold(t) /\ Change(t)' = Change(t)
BY DEF Untold, ToldNext, NextTold, Registered, Change

\* The threads about to add a watcher can be counted.
LEMMA AddingFinite == IsFiniteSet(Adding) /\ Cardinality(Adding) \in Nat
BY FS_Subset, FS_CardinalityType, WatchersAssumption DEF Adding

\* A thread that leaves the configuration leaves no trace in the calls.
LEMMA Returns ==
    ASSUME TypeOK, CallsFit, Alone, NEW t \in Threads, Return(t),
           next_watcher_id' \in Nat, next_watcher_id <= next_watcher_id'
    PROVE  /\ pc' \in [Threads -> {"idle", "locking", "telling", "stuck"}]
           /\ CallsFit' /\ Alone'
           /\ Adding' = Adding \ {t}
           /\ ~Telling(t)'
           /\ \A u \in Threads \ {t} : pc'[u] = pc[u] /\ call'[u] = call[u]
<1>1. /\ pc' \in [Threads -> {"idle", "locking", "telling", "stuck"}]
      /\ pc'[t] = "idle"
      /\ \A u \in Threads \ {t} : pc'[u] = pc[u]
  BY DEF Return, Goto, TypeOK
<1>2. /\ call' = [u \in Threads |-> call'[u]]
      /\ call'[t] = NoCall
      /\ \A u \in Threads \ {t} : call'[u] = call[u]
  BY DEF Return, CallsFit
<1>3. Alone' /\ ~Telling(t)'
  BY <1>1 DEF Alone, Telling
<1>4. Adding' = Adding \ {t}
  BY <1>2 DEF Adding, NoCall
<1>5. ASSUME NEW u \in Threads
      PROVE  /\ pc'[u] = "idle" => call'[u] = NoCall
             /\ pc'[u] = "locking" =>
                   /\ call'[u] \in Calls
                   /\ call'[u].op = "unwatch" => call'[u].id < next_watcher_id'
             /\ Telling(u)' => call'[u] \in Tellings
  <2>1. CASE u = t
    BY <2>1, <1>1, <1>2 DEF Telling
  <2>2. CASE u # t
    <3>1. pc'[u] = pc[u] /\ call'[u] = call[u]
      BY <2>2, <1>1, <1>2
    <3>2. ASSUME pc[u] = "locking", call[u].op = "unwatch"
          PROVE  call[u].id < next_watcher_id'
      <4>1. call[u] \in Calls /\ call[u].id < next_watcher_id
        BY <3>2 DEF CallsFit
      <4>2. call[u].id \in Nat
        BY <4>1, <3>2, WatchersAssumption DEF Calls, SetCalls, Ids
      <4>3. next_watcher_id \in Nat
        BY WatchersAssumption DEF TypeOK
      <4> QED BY <4>1, <4>2, <4>3
    <3> QED BY <3>1, <3>2 DEF CallsFit, Telling
  <2> QED BY <2>1, <2>2
<1> QED BY <1>1, <1>2, <1>3, <1>4, <1>5 DEF CallsFit

\* Whoever holds the lock is alone with it, and its account is even.
LEMMA FreeBooks ==
    ASSUME Books, LockFree, LockFree', told' = told, owed' = owed, escaped' = escaped
    PROVE  Books'
BY DEF Books, LockFree

\* A call that only returns.
LEMMA InsideReturns ==
    ASSUME IInv, NEW t \in Threads, pc[t] = "locking", LockFree, Return(t),
           next_watcher_id' \in Nat, next_watcher_id <= next_watcher_id',
           told' = told, owed' = owed, escaped' = escaped
    PROVE  /\ pc' \in [Threads -> {"idle", "locking", "telling", "stuck"}]
           /\ CallsFit' /\ Alone' /\ Books'
           /\ Adding' = Adding \ {t}
<1>1. /\ pc' \in [Threads -> {"idle", "locking", "telling", "stuck"}]
      /\ CallsFit' /\ Alone'
      /\ Adding' = Adding \ {t}
      /\ ~Telling(t)'
      /\ \A u \in Threads \ {t} : pc'[u] = pc[u] /\ call'[u] = call[u]
  BY Returns DEF IInv
<1>2. LockFree'
  BY <1>1 DEF LockFree, Telling
<1>3. Books'
  BY <1>2, FreeBooks DEF IInv
<1> QED BY <1>1, <1>3

\* Fewer threads about to add a watcher, no more ids in use.
LEMMA FewerAdding ==
    ASSUME NEW t \in Threads, TypeOK, IdsGrow, Adding' = Adding \ {t},
           next_watcher_id' = next_watcher_id
    PROVE  next_watcher_id' + Cardinality(Adding') <= MaxWatchers + 1
<1>1. /\ Cardinality(Adding') \in Nat /\ Cardinality(Adding) \in Nat
      /\ Cardinality(Adding') <= Cardinality(Adding)
  <2>1. IsFiniteSet(Adding) /\ Cardinality(Adding) \in Nat
    BY AddingFinite
  <2>2. /\ IsFiniteSet(Adding \ {t})
        /\ Cardinality(Adding \ {t})
              = IF t \in Adding THEN Cardinality(Adding) - 1 ELSE Cardinality(Adding)
    BY <2>1, FS_RemoveElement
  <2>3. Cardinality(Adding \ {t}) \in Nat
    BY <2>2, FS_CardinalityType
  <2> QED BY <2>1, <2>2, <2>3
<1>2. next_watcher_id \in Nat /\ MaxWatchers \in Nat
  BY WatchersAssumption DEF TypeOK
<1> QED BY <1>1, <1>2 DEF IdsGrow

-----------------------------------------------------------------------------
(* The steps.                                                              *)

LEMMA InitInv == Init => IInv
<1> SUFFICES ASSUME Init PROVE IInv
  OBVIOUS
<1>1. Registered = {} /\ watchers = [w \in {} |-> NoCall]
  BY DEF Init, Registered
<1>2. Adding = {}
  BY DEF Init, Adding, NoCall
<1>3. Cardinality(Adding) = 0
  BY <1>2, FS_EmptySet
<1>4. Default \in Leaves /\ config \in Nodes /\ MaxWatchers \in Nat /\ MaxCalls \in Nat
  BY WatchersAssumption, ObjectIsNode DEF Init
<1>5. owed \in [Ids -> Seq(Changes)] /\ told \in [Ids -> Seq(Changes)]
  BY DEF Init
<1>6. TypeOK
  <2>1. pc \in [Threads -> {"idle", "locking", "telling", "stuck"}]
    BY DEF Init
  <2>2. watchers \in [Registered -> [key : Keys, manner : Manners]] /\ Registered \subseteq Ids
    BY <1>1
  <2>3. next_watcher_id \in 1 .. MaxWatchers + 1 /\ calls \in 0 .. MaxCalls
    BY <1>4 DEF Init
  <2> QED BY <1>4, <1>5, <2>1, <2>2, <2>3 DEF Init, TypeOK
<1>7. CallsFit /\ Alone /\ LockFree
  BY DEF Init, CallsFit, Alone, LockFree, Telling
<1>8. IdsGrow
  BY <1>1, <1>3, <1>4 DEF Init, IdsGrow
<1>9. Books
  BY <1>7 DEF Init, Books, LockFree
<1>10. Knows
  BY <1>1 DEF Knows
<1> QED BY <1>6, <1>7, <1>8, <1>9, <1>10 DEF IInv

\* A thread that asks for the lock changes nothing for those that have it.
LEMMA BeginInv == ASSUME IInv, NEW t \in Threads, Begin(t) PROVE IInv'
<1>1. PICK c \in Calls :
        /\ c.op = "watch" => next_watcher_id + Cardinality(Adding) <= MaxWatchers
        /\ c.op = "unwatch" => c.id < next_watcher_id
        /\ call' = [call EXCEPT ![t] = c]
  BY DEF Begin
<1>2. /\ pc[t] = "idle" /\ calls < MaxCalls /\ calls' = calls + 1
      /\ pc' = [pc EXCEPT ![t] = "locking"]
      /\ UNCHANGED <<config, watchers, next_watcher_id, owed, told, gone, silent, escaped>>
  BY DEF Begin, Goto
<1>3. /\ pc'[t] = "locking" /\ call'[t] = c
      /\ \A u \in Threads \ {t} : pc'[u] = pc[u] /\ call'[u] = call[u]
      /\ call' = [u \in Threads |-> call'[u]]
  BY <1>1, <1>2 DEF IInv, TypeOK, CallsFit
<1>4. calls' \in 0 .. MaxCalls
  BY <1>2, WatchersAssumption DEF IInv, TypeOK
<1>5. TypeOK'
  BY <1>2, <1>4 DEF IInv, TypeOK, Registered
<1>6. CallsFit'
  BY <1>1, <1>2, <1>3 DEF IInv, CallsFit, Telling
<1>7. Alone' /\ (LockFree' <=> LockFree)
  BY <1>2, <1>3 DEF IInv, Alone, LockFree, Telling
<1>8. IdsGrow'
  <2>1. Adding' = IF c.op = "watch" THEN Adding \cup {t} ELSE Adding
    BY <1>2, <1>3 DEF IInv, CallsFit, Adding, NoCall
  <2>2. t \notin Adding
    BY <1>2 DEF IInv, CallsFit, Adding, NoCall
  <2>3. next_watcher_id + Cardinality(Adding') <= MaxWatchers + 1
    <3>1. CASE c.op = "watch"
      <4>1. Cardinality(Adding') = Cardinality(Adding) + 1
        BY <3>1, <2>1, <2>2, AddingFinite, FS_AddElement
      <4>2. next_watcher_id \in Nat /\ MaxWatchers \in Nat
        BY WatchersAssumption DEF IInv, TypeOK
      <4> QED BY <4>1, <4>2, <3>1, <1>1, AddingFinite
    <3>2. CASE c.op # "watch"
      BY <3>2, <2>1 DEF IInv, IdsGrow
    <3> QED BY <3>1, <3>2
  <2> QED BY <2>3, <1>2 DEF IInv, IdsGrow, Registered
<1>9. Books'
  <2>1. ASSUME NEW u \in Threads, Telling(u)'
        PROVE  Telling(u) /\ Untold(u)' = Untold(u) /\ Change(u)' = Change(u)
    BY <2>1, <1>2, <1>3, UntoldSame DEF Telling
  <2> QED BY <2>1, <1>2, <1>7 DEF IInv, Books
<1>10. Knows'
  BY <1>2 DEF IInv, Knows, Registered
<1> QED BY <1>5, <1>6, <1>7, <1>8, <1>9, <1>10 DEF IInv

LEMMA ReadInv == ASSUME IInv, NEW t \in Threads, Read(t) PROVE IInv'
<1>1. /\ pc[t] = "locking" /\ LockFree /\ Return(t)
      /\ UNCHANGED <<config, watchers, next_watcher_id, history>>
  BY DEF Read, Inside
<1>2. next_watcher_id \in Nat
  BY WatchersAssumption DEF IInv, TypeOK
<1>3. /\ pc' \in [Threads -> {"idle", "locking", "telling", "stuck"}]
      /\ CallsFit' /\ Alone' /\ Books'
      /\ Adding' = Adding \ {t}
  BY <1>1, <1>2, InsideReturns DEF history
<1>4. TypeOK'
  BY <1>1, <1>3 DEF IInv, TypeOK, Registered, history
<1>5. IdsGrow'
  BY <1>1, <1>3, FewerAdding DEF IInv, IdsGrow, Registered, history
<1>6. Knows'
  BY <1>1 DEF IInv, Knows, Registered, history
<1> QED BY <1>3, <1>4, <1>5, <1>6 DEF IInv

\* A new watcher has an id that nobody had, and is owed nothing.
LEMMA WatchInv == ASSUME IInv, NEW t \in Threads, Watch(t) PROVE IInv'
<1>1. /\ pc[t] = "locking" /\ call[t].op = "watch" /\ LockFree /\ Return(t)
      /\ next_watcher_id' = next_watcher_id + 1
      /\ watchers' = [w \in Registered \cup {next_watcher_id} |->
                        IF w = next_watcher_id
                        THEN [key |-> call[t].key, manner |-> call[t].manner]
                        ELSE watchers[w]]
      /\ UNCHANGED <<config, calls, owed, told, gone, silent, escaped>>
  BY DEF Watch, Inside, history
<1>2. next_watcher_id \in Nat /\ MaxWatchers \in Nat /\ next_watcher_id >= 1
  BY WatchersAssumption DEF IInv, TypeOK
<1>3. /\ pc' \in [Threads -> {"idle", "locking", "telling", "stuck"}]
      /\ CallsFit' /\ Alone' /\ Books'
      /\ Adding' = Adding \ {t}
  BY <1>1, <1>2, InsideReturns
<1>4. call[t].key \in Keys /\ call[t].manner \in Manners
  <2>1. call[t] \in Calls
    BY <1>1 DEF IInv, CallsFit
  <2> QED BY <2>1, <1>1 DEF Calls, SetCalls
<1>5. next_watcher_id' + Cardinality(Adding') <= MaxWatchers + 1
  <2>1. t \in Adding
    BY <1>1 DEF Adding
  <2>2. Cardinality(Adding') = Cardinality(Adding) - 1
    BY <2>1, <1>3, AddingFinite, FS_RemoveElement
  <2> QED BY <2>2, <1>1, <1>2, AddingFinite DEF IInv, IdsGrow
<1>6. Cardinality(Adding') \in Nat
  BY <1>3, AddingFinite, FS_RemoveElement, FS_CardinalityType
<1>7. next_watcher_id <= MaxWatchers
  BY <1>1, <1>2, <1>5, <1>6
<1>8. Registered' = Registered \cup {next_watcher_id}
  BY <1>1 DEF Registered
<1>9. next_watcher_id \in Ids
  BY <1>2, <1>7 DEF Ids
<1>10. next_watcher_id \notin Registered /\ next_watcher_id \notin gone
  BY <1>2 DEF IInv, IdsGrow
<1>11. TypeOK'
  <2>1. watchers' \in [Registered' -> [key : Keys, manner : Manners]]
    BY <1>1, <1>4, <1>8 DEF IInv, TypeOK
  <2>2. next_watcher_id' \in 1 .. MaxWatchers + 1
    BY <1>1, <1>2, <1>7
  <2> QED BY <1>1, <1>3, <1>8, <1>9, <2>1, <2>2 DEF IInv, TypeOK
<1>12. IdsGrow'
  <2> DEFINE old == 1 .. next_watcher_id - 1
  <2>0. /\ old \subseteq 1 .. next_watcher_id' - 1
        /\ next_watcher_id \in 1 .. next_watcher_id' - 1
        /\ Registered \subseteq old /\ gone \subseteq old
    <3>1. Registered \subseteq old /\ gone \subseteq old
      BY DEF IInv, IdsGrow
    <3>2. next_watcher_id' = next_watcher_id + 1
      BY <1>1
    <3> QED BY <3>1, <3>2, <1>2
  <2> HIDE DEF old
  <2>1. Registered' \subseteq 1 .. next_watcher_id' - 1
    BY <1>8, <2>0
  <2>2. gone' \subseteq 1 .. next_watcher_id' - 1
    BY <1>1, <2>0
  <2>3. gone' \cap Registered' = {}
    BY <1>1, <1>8, <1>10 DEF IInv, IdsGrow
  <2>4. ASSUME NEW w \in Ids, w >= next_watcher_id' PROVE owed'[w] = << >>
    BY <2>4, <1>1, <1>2 DEF IInv, IdsGrow, Ids
  <2> QED BY <2>1, <2>2, <2>3, <2>4, <1>5 DEF IdsGrow
<1>13. Knows'
  <2> SUFFICES ASSUME NEW w \in Registered', owed'[w] # << >>, watchers'[w].key \notin silent'
               PROVE  Last(owed'[w]).new = Lookup(watchers'[w].key, config')
    BY DEF Knows
  <2>1. w # next_watcher_id
    BY <1>1, <1>2, <1>9 DEF IInv, IdsGrow
  <2>2. w \in Registered /\ watchers'[w] = watchers[w]
    BY <2>1, <1>1, <1>8
  <2> QED BY <2>2, <1>1 DEF IInv, Knows, Lookup
<1> QED BY <1>3, <1>11, <1>12, <1>13 DEF IInv

LEMMA UnwatchInv == ASSUME IInv, NEW t \in Threads, Unwatch(t) PROVE IInv'
<1>1. /\ pc[t] = "locking" /\ call[t].op = "unwatch" /\ LockFree /\ Return(t)
      /\ watchers' = [w \in Registered \ {call[t].id} |-> watchers[w]]
      /\ gone' = gone \cup {call[t].id}
      /\ UNCHANGED <<config, next_watcher_id, calls, owed, told, silent, escaped>>
  BY DEF Unwatch, Inside, Remaining
<1>2. next_watcher_id \in Nat /\ MaxWatchers \in Nat
  BY WatchersAssumption DEF IInv, TypeOK
<1>3. /\ pc' \in [Threads -> {"idle", "locking", "telling", "stuck"}]
      /\ CallsFit' /\ Alone' /\ Books'
      /\ Adding' = Adding \ {t}
  BY <1>1, <1>2, InsideReturns
<1>4. call[t].id \in Ids /\ call[t].id < next_watcher_id
  <2>1. call[t] \in Calls /\ call[t].id < next_watcher_id
    BY <1>1 DEF IInv, CallsFit
  <2> QED BY <2>1, <1>1 DEF Calls, SetCalls
<1>5. Registered' = Registered \ {call[t].id}
  BY <1>1 DEF Registered
<1>6. TypeOK'
  <2>1. watchers' \in [Registered' -> [key : Keys, manner : Manners]]
    BY <1>1, <1>5 DEF IInv, TypeOK
  <2> QED BY <1>1, <1>3, <1>4, <1>5, <2>1 DEF IInv, TypeOK
<1>7. IdsGrow'
  <2>1. next_watcher_id' + Cardinality(Adding') <= MaxWatchers + 1
    BY <1>1, <1>3, FewerAdding DEF IInv
  <2>2. call[t].id \in 1 .. next_watcher_id - 1
    BY <1>2, <1>4 DEF Ids
  <2> QED BY <1>1, <1>5, <2>1, <2>2 DEF IInv, IdsGrow
<1>8. Knows'
  BY <1>1, <1>5 DEF IInv, Knows, Lookup
<1> QED BY <1>3, <1>6, <1>7, <1>8 DEF IInv

\* What ResetToDefaults and Load change they change in silence.
LEMMA ReplaceInv == ASSUME IInv, NEW t \in Threads, Replace(t) PROVE IInv'
<1>1. /\ pc[t] = "locking" /\ LockFree /\ Return(t)
      /\ silent' = silent \cup {k \in Keys : Lookup(k, config') # Lookup(k, config)}
      /\ UNCHANGED <<watchers, next_watcher_id, calls, owed, told, gone, escaped>>
  BY DEF Replace, Inside
<1>2. config' \in Nodes
  <2>1. Object(Default) \in Nodes
    BY ObjectIsNode, WatchersAssumption
  <2> QED BY <2>1 DEF Replace
<1>3. next_watcher_id \in Nat
  BY WatchersAssumption DEF IInv, TypeOK
<1>4. /\ pc' \in [Threads -> {"idle", "locking", "telling", "stuck"}]
      /\ CallsFit' /\ Alone' /\ Books'
      /\ Adding' = Adding \ {t}
  BY <1>1, <1>3, InsideReturns
<1>5. TypeOK'
  BY <1>1, <1>2, <1>4 DEF IInv, TypeOK, Registered
<1>6. IdsGrow'
  BY <1>1, <1>4, FewerAdding DEF IInv, IdsGrow, Registered
<1>7. Knows'
  <2> SUFFICES ASSUME NEW w \in Registered, owed[w] # << >>, watchers[w].key \notin silent'
               PROVE  Last(owed[w]).new = Lookup(watchers[w].key, config')
    BY <1>1 DEF Knows, Registered
  <2>1. watchers[w].key \in Keys
    BY DEF IInv, TypeOK
  <2>2. Lookup(watchers[w].key, config') = Lookup(watchers[w].key, config)
    BY <1>1, <2>1
  <2> QED BY <1>1, <2>2 DEF IInv, Knows
<1> QED BY <1>4, <1>5, <1>6, <1>7 DEF IInv

\* The change a Set makes is owed to the watchers of its key from then on.
LEMMA SetInv == ASSUME IInv, NEW t \in Threads, Set(t) PROVE IInv'
<1> DEFINE key == call[t].key
           node == call[t].value
           change == [old |-> Found(key), new |-> node]
<1>1. /\ pc[t] = "locking" /\ call[t].op = "set" /\ LockFree
      /\ UNCHANGED <<watchers, next_watcher_id, calls, told, gone, escaped>>
  BY DEF Set, Inside
<1>2. next_watcher_id \in Nat /\ MaxWatchers \in Nat
  BY WatchersAssumption DEF IInv, TypeOK
<1>3. CASE ~Reachable(key)
  <2>1. Return(t) /\ UNCHANGED <<config, owed, silent>>
    BY <1>3 DEF Set
  <2>2. /\ pc' \in [Threads -> {"idle", "locking", "telling", "stuck"}]
        /\ CallsFit' /\ Alone' /\ Books'
        /\ Adding' = Adding \ {t}
    BY <1>1, <1>2, <2>1, InsideReturns
  <2>3. TypeOK'
    BY <1>1, <2>1, <2>2 DEF IInv, TypeOK, Registered
  <2>4. IdsGrow'
    BY <1>1, <2>1, <2>2, FewerAdding DEF IInv, IdsGrow, Registered
  <2>5. Knows'
    BY <1>1, <2>1 DEF IInv, Knows, Registered
  <2> QED BY <2>2, <2>3, <2>4, <2>5 DEF IInv
<1>4. CASE Reachable(key)
  <2>1. /\ config' = Assigned(key, node)
        /\ call' = [call EXCEPT ![t] = [op |-> "set", key |-> key, value |-> node,
                                        old |-> Found(key), at |-> 0]]
        /\ owed' = [w \in Ids |-> IF w \in Registered /\ watchers[w].key = key
                                   THEN Append(owed[w], change) ELSE owed[w]]
        /\ silent' = (silent \ {key})
                     \cup {k \in Keys \ {key} : Lookup(k, config') # Lookup(k, config)}
        /\ pc' = [pc EXCEPT ![t] = "telling"]
    BY <1>4 DEF Set, Goto
  <2>2. call[t] \in SetCalls
    <3>1. call[t] \in Calls
      BY <1>1 DEF IInv, CallsFit
    <3> QED BY <3>1, <1>1 DEF Calls
  <2>3. /\ key \in Keys /\ node \in Nodes /\ config' \in Nodes
        /\ Lookup(key, config') = node
    BY <2>1, <2>2, AssignedType
  <2>4. Found(key) \in Nodes
    BY <2>3, FoundType DEF IInv, TypeOK
  <2>5. change \in Changes
    BY <2>3, <2>4 DEF Changes
  <2> HIDE DEF change
  <2>6. /\ pc'[t] = "telling"
        /\ call'[t] = [op |-> "set", key |-> key, value |-> node,
                       old |-> Found(key), at |-> 0]
        /\ \A u \in Threads \ {t} : pc'[u] = pc[u] /\ call'[u] = call[u]
        /\ call' = [u \in Threads |-> call'[u]]
        /\ pc' \in [Threads -> {"idle", "locking", "telling", "stuck"}]
    BY <2>1 DEF IInv, TypeOK, CallsFit
  <2>7. TypeOK'
    <3>1. owed' \in [Ids -> Seq(Changes)]
      BY <2>1, <2>5 DEF IInv, TypeOK
    <3>2. silent' \subseteq Keys
      BY <2>1 DEF IInv, TypeOK
    <3> QED BY <1>1, <2>3, <2>6, <3>1, <3>2 DEF IInv, TypeOK, Registered
  <2>8. CallsFit'
    <3>1. call'[t] \in Tellings
      BY <1>2, <2>3, <2>4, <2>6 DEF Tellings
    <3> QED BY <3>1, <1>1, <2>6 DEF IInv, CallsFit, Telling
  <2>9. \A u \in Threads : Telling(u)' <=> u = t
    BY <1>1, <2>6 DEF LockFree, Telling
  <2>10. Alone'
    BY <2>9 DEF Alone
  <2>11. IdsGrow'
    <3>1. Adding' = Adding \ {t}
      BY <1>1, <2>6 DEF Adding
    <3>2. next_watcher_id' + Cardinality(Adding') <= MaxWatchers + 1
      BY <3>1, <1>1, FewerAdding DEF IInv
    <3>3. ASSUME NEW w \in Ids, w >= next_watcher_id PROVE owed'[w] = << >>
      <4>1. w \notin Registered
        BY <3>3, <1>2 DEF IInv, IdsGrow, Ids
      <4> QED BY <4>1, <3>3, <2>1 DEF IInv, IdsGrow
    <3> QED BY <1>1, <3>2, <3>3 DEF IInv, IdsGrow, Registered
  <2>12. Books'
    <3> SUFFICES ASSUME ~escaped, NEW w \in Ids
                 PROVE  owed'[w] = IF w \in Untold(t)' THEN Append(told[w], Change(t)')
                                   ELSE told[w]
      BY <1>1, <2>9 DEF Books, LockFree
    <3>1. told = owed
      BY <1>1 DEF IInv, Books
    <3>2. Untold(t)' = {u \in Registered : u > 0 /\ watchers[u].key = key}
      BY <1>1, <2>6 DEF Untold, ToldNext, Registered
    <3>3. Change(t)' = change
      BY <2>6 DEF Change, change
    <3>4. w > 0
      BY DEF Ids
    <3> QED BY <2>1, <3>1, <3>2, <3>3, <3>4
  <2>13. Knows'
    <3> SUFFICES ASSUME NEW w \in Registered, owed'[w] # << >>,
                        watchers[w].key \notin silent'
                 PROVE  Last(owed'[w]).new = Lookup(watchers[w].key, config')
      BY <1>1 DEF Knows, Registered
    <3>1. w \in Ids /\ watchers[w].key \in Keys /\ owed[w] \in Seq(Changes)
      BY DEF IInv, TypeOK
    <3>2. CASE watchers[w].key = key
      <4>1. owed'[w] = Append(owed[w], change)
        BY <3>1, <3>2, <2>1
      <4>2. Last(owed'[w]) = change
        BY <4>1, <3>1, <2>5, AppendProperties DEF Last
      <4> QED BY <4>2, <3>2, <2>3 DEF change
    <3>3. CASE watchers[w].key # key
      <4>1. /\ owed'[w] = owed[w] /\ watchers[w].key \notin silent
            /\ Lookup(watchers[w].key, config') = Lookup(watchers[w].key, config)
        BY <3>1, <3>3, <2>1
      <4> QED BY <4>1 DEF IInv, Knows
    <3> QED BY <3>2, <3>3
  <2> QED BY <2>7, <2>8, <2>10, <2>11, <2>12, <2>13 DEF IInv
<1> QED BY <1>3, <1>4

\* A Set that returns has told everybody.
LEMMA SetReturnsInv == ASSUME IInv, NEW t \in Threads, SetReturns(t) PROVE IInv'
<1>1. /\ pc[t] = "telling" /\ ToldNext(t) = {} /\ Return(t)
      /\ UNCHANGED <<config, watchers, next_watcher_id, history>>
  BY DEF SetReturns
<1>2. next_watcher_id \in Nat
  BY WatchersAssumption DEF IInv, TypeOK
<1>3. /\ pc' \in [Threads -> {"idle", "locking", "telling", "stuck"}]
      /\ CallsFit' /\ Alone' /\ ~Telling(t)'
      /\ Adding' = Adding \ {t}
      /\ \A u \in Threads \ {t} : pc'[u] = pc[u] /\ call'[u] = call[u]
  BY <1>1, <1>2, Returns DEF IInv, history
<1>4. TypeOK'
  BY <1>1, <1>3 DEF IInv, TypeOK, Registered, history
<1>5. IdsGrow'
  BY <1>1, <1>3, FewerAdding DEF IInv, IdsGrow, Registered, history
<1>6. Knows'
  BY <1>1 DEF IInv, Knows, Registered, history
<1>7. Books'
  <2>1. Telling(t) /\ Untold(t) = {}
    BY <1>1 DEF Telling, Untold
  <2>2. ~escaped => told = owed
    BY <2>1 DEF IInv, TypeOK, Books
  <2>3. LockFree'
    BY <1>3, <2>1 DEF IInv, Alone, LockFree, Telling
  <2> QED BY <1>1, <2>2, <2>3 DEF Books, LockFree, history
<1> QED BY <1>3, <1>4, <1>5, <1>6, <1>7 DEF IInv

\* The watcher whose turn it is gets the change it is owed, unless it has been
\* robbed of an earlier one by an exception.
LEMMA NotifyInv == ASSUME IInv, NEW t \in Threads, Notify(t) PROVE IInv'
<1> DEFINE w == NextTold(t)
<1>1. /\ pc[t] = "telling" /\ ToldNext(t) # {}
      /\ told' = [told EXCEPT ![w] = Append(@, Change(t))]
      /\ UNCHANGED <<config, watchers, next_watcher_id, calls, owed, gone, silent>>
  BY DEF Notify, Change
<1>2. w \in ToldNext(t) /\ \A u \in ToldNext(t) : w <= u
  BY <1>1, NextIsOldest DEF IInv, TypeOK
<1>3. /\ w \in Registered /\ w \in Ids /\ w \in Nat /\ w <= MaxWatchers
      /\ w > call[t].at /\ watchers[w].key = call[t].key
      /\ Telling(t) /\ call[t] \in Tellings
  <2>1. w \in Registered /\ w > call[t].at /\ watchers[w].key = call[t].key
    BY <1>2 DEF ToldNext
  <2>2. w \in Ids
    BY <2>1 DEF IInv, TypeOK
  <2>3. w \in Nat /\ w <= MaxWatchers
    <3> HIDE DEF w
    <3> QED BY <2>2, WatchersAssumption DEF Ids
  <2>4. Telling(t) /\ call[t] \in Tellings
    BY <1>1 DEF IInv, CallsFit, Telling
  <2> QED BY <2>1, <2>2, <2>3, <2>4
<1>4. Change(t) \in Changes
  BY <1>3 DEF Tellings, Change, Changes
<1>5. /\ told' \in [Ids -> Seq(Changes)]
      /\ told'[w] = Append(told[w], Change(t))
      /\ \A u \in Ids \ {w} : told'[u] = told[u]
  BY <1>1, <1>3, <1>4 DEF IInv, TypeOK
<1> HIDE DEF w
<1>6. Knows'
  BY <1>1 DEF IInv, Knows, Registered
<1>7. \A u \in Threads \ {t} : ~Telling(u)
  BY <1>3 DEF IInv, Alone
<1>8. ASSUME pc'[t] \in {"telling", "stuck"},
             pc' \in [Threads -> {"idle", "locking", "telling", "stuck"}],
             escaped' = escaped, CallsFit',
             \A u \in Threads \ {t} : pc'[u] = pc[u] /\ call'[u] = call[u],
             call'[t].op = "set", Change(t)' = Change(t), Untold(t)' = ToldNext(t) \ {w}
      PROVE  IInv'
  <2>1. TypeOK'
    BY <1>1, <1>5, <1>8 DEF IInv, TypeOK, Registered
  <2>2. Adding' = Adding \ {t}
    BY <1>8 DEF Adding
  <2>3. IdsGrow'
    BY <1>1, <2>2, FewerAdding DEF IInv, IdsGrow, Registered
  <2>4. \A u \in Threads : Telling(u)' <=> u = t
    BY <1>7, <1>8 DEF Telling
  <2>5. Alone'
    BY <2>4 DEF Alone
  <2>6. Books'
    <3> SUFFICES ASSUME ~escaped, NEW u \in Ids
                 PROVE  owed[u] = IF u \in ToldNext(t) \ {w} THEN Append(told'[u], Change(t))
                                  ELSE told'[u]
      BY <1>1, <1>8, <2>4 DEF Books, LockFree
    <3>1. owed[u] = IF u \in ToldNext(t) THEN Append(told[u], Change(t)) ELSE told[u]
      BY <1>1, <1>3 DEF IInv, Books, Untold
    <3>2. CASE u = w
      BY <3>1, <3>2, <1>2, <1>5
    <3>3. CASE u # w
      BY <3>1, <3>3, <1>5
    <3> QED BY <3>2, <3>3
  <2> QED BY <1>6, <1>8, <2>1, <2>3, <2>5, <2>6 DEF IInv
\* The callback returns, or what it throws is swallowed.
<1>9. CASE call' = [call EXCEPT ![t].at = w] /\ UNCHANGED <<pc, escaped>>
  <2>1. /\ call'[t] = [call[t] EXCEPT !.at = w]
        /\ \A u \in Threads \ {t} : call'[u] = call[u]
        /\ call' = [u \in Threads |-> call'[u]]
    BY <1>9 DEF IInv, CallsFit
  <2>2. /\ call'[t] \in Tellings /\ call'[t].op = "set" /\ call'[t].at = w
        /\ call'[t].key = call[t].key
        /\ call'[t].old = call[t].old /\ call'[t].value = call[t].value
    BY <2>1, <1>3 DEF Tellings
  <2>3. CallsFit'
    BY <2>1, <2>2, <1>1, <1>9 DEF IInv, CallsFit, Telling
  <2>4. Change(t)' = Change(t)
    BY <2>2 DEF Change
  <2>5. Untold(t)' = ToldNext(t) \ {w}
    <3>1. Untold(t)' = {u \in Registered : u > w /\ watchers[u].key = call[t].key}
      BY <2>2, <1>1, <1>9 DEF Untold, ToldNext, Registered
    <3>2. ASSUME NEW u \in Registered, watchers[u].key = call[t].key
          PROVE  u > w <=> u > call[t].at /\ u # w
      <4>1. u \in Nat /\ call[t].at \in Nat
        <5>1. u \in Ids
          BY DEF IInv, TypeOK
        <5>2. call[t].at \in 0 .. MaxWatchers
          BY <1>3 DEF Tellings
        <5> QED BY <5>1, <5>2, WatchersAssumption DEF Ids
      <4>2. u > call[t].at => w <= u
        BY <3>2, <1>2 DEF ToldNext
      <4> QED BY <4>1, <4>2, <1>3
    <3> QED BY <3>1, <3>2 DEF ToldNext
  <2> QED BY <1>1, <1>8, <1>9, <2>1, <2>2, <2>3, <2>4, <2>5 DEF IInv, TypeOK
\* It has called the configuration and never comes back.
<1>10. CASE Goto(t, "stuck") /\ UNCHANGED <<call, escaped>>
  <2>1. /\ pc'[t] = "stuck"
        /\ \A u \in Threads \ {t} : pc'[u] = pc[u]
        /\ pc' \in [Threads -> {"idle", "locking", "telling", "stuck"}]
    BY <1>10 DEF Goto, IInv, TypeOK
  <2>2. CallsFit'
    BY <2>1, <1>1, <1>3, <1>10 DEF IInv, CallsFit, Telling
  <2>3. Change(t)' = Change(t) /\ call'[t].op = "set"
    BY <1>3, <1>10 DEF Change, Tellings
  <2>4. Untold(t)' = ToldNext(t) \ {w}
    BY <2>1, <1>1, <1>10 DEF Untold, ToldNext, NextTold, Registered, w
  <2> QED BY <1>8, <1>10, <2>1, <2>2, <2>3, <2>4
\* It throws what NotifyWatchers does not catch.
<1>11. CASE Return(t) /\ escaped' = TRUE
  <2>1. next_watcher_id \in Nat
    BY WatchersAssumption DEF IInv, TypeOK
  <2>2. /\ pc' \in [Threads -> {"idle", "locking", "telling", "stuck"}]
        /\ CallsFit' /\ Alone'
        /\ Adding' = Adding \ {t}
    BY <1>1, <1>11, <2>1, Returns DEF IInv
  <2>3. TypeOK'
    BY <1>1, <1>5, <1>11, <2>2 DEF IInv, TypeOK, Registered
  <2>4. IdsGrow'
    BY <1>1, <2>2, FewerAdding DEF IInv, IdsGrow, Registered
  <2> QED BY <1>6, <1>11, <2>2, <2>3, <2>4 DEF IInv, Books
<1> QED BY <1>9, <1>10, <1>11 DEF Notify, Escape, w

LEMMA StepInv == IInv /\ [Next]_vars => IInv'
<1> SUFFICES ASSUME IInv, [Next]_vars PROVE IInv'
  OBVIOUS
<1>1. CASE UNCHANGED vars
  <2> USE <1>1 DEF vars, history, IInv
  <2>1. TypeOK'
    BY DEF TypeOK, Registered
  <2>2. CallsFit'
    BY DEF CallsFit, Telling
  <2>3. IdsGrow'
    BY DEF IdsGrow, Registered, Adding
  <2>4. Alone' /\ (LockFree' <=> LockFree)
    BY DEF Alone, LockFree, Telling
  <2>5. Books'
    <3>1. \A t \in Threads :
            /\ Untold(t)' = Untold(t) /\ Change(t)' = Change(t)
            /\ Telling(t)' <=> Telling(t)
      BY UntoldSame DEF Telling
    <3> QED BY <2>4, <3>1 DEF Books
  <2>6. Knows'
    BY DEF Knows, Registered
  <2> QED BY <2>1, <2>2, <2>3, <2>4, <2>5, <2>6
<1>2. ASSUME NEW t \in Threads, Begin(t) \/ Step(t) PROVE IInv'
  BY <1>2, BeginInv, ReadInv, SetInv, NotifyInv, SetReturnsInv,
     WatchInv, UnwatchInv, ReplaceInv DEF Step
<1> QED BY <1>1, <1>2 DEF Next

-----------------------------------------------------------------------------
\* The inductive invariant: the lock is held by one thread, ids are not reused,
\* and each watcher was told of all it is owed but the change in progress.
THEOREM IInvCorrect == Spec => []IInv
BY InitInv, StepInv, PTL DEF Spec

\* The variables of the configuration and its watchers keep their types.
THEOREM TypeCorrect == Spec => []TypeOK
BY IInvCorrect, PTL DEF IInv

\* For any number of threads, calls and watchers, a watcher is told of every
\* Set of its key, once and in order.
THEOREM EverybodyTold == Spec => []ToldEverySet
<1>1. ASSUME IInv PROVE ToldEverySet
  <2> SUFFICES ASSUME ~escaped, NEW w \in Ids
               PROVE  /\ IsPrefix(told[w], owed[w])
                      /\ Len(owed[w])
                           <= Len(told[w]) + Cardinality({t \in Threads : Telling(t)})
                      /\ LockFree /\ w \in Registered => told[w] = owed[w]
    BY DEF ToldEverySet
  <2>1. told[w] \in Seq(Changes) /\ owed[w] \in Seq(Changes)
    BY <1>1 DEF IInv, TypeOK
  <2>2. IsFiniteSet({t \in Threads : Telling(t)})
    BY FS_Subset, WatchersAssumption
  <2>3. Cardinality({t \in Threads : Telling(t)}) \in Nat
    BY <2>2, FS_CardinalityType
  <2>4. CASE told[w] = owed[w]
    BY <2>1, <2>3, <2>4 DEF IsPrefix
  <2>5. CASE told[w] # owed[w]
    <3>1. PICK t \in Threads : Telling(t) /\ owed[w] = Append(told[w], Change(t))
      BY <1>1, <2>5 DEF IInv, Books, LockFree
    <3>2. Change(t) \in Changes
      BY <1>1, <3>1 DEF IInv, CallsFit, Tellings, Change, Changes
    <3>3. Len(owed[w]) = Len(told[w]) + 1 /\ IsPrefix(told[w], owed[w])
      BY <2>1, <3>1, <3>2 DEF IsPrefix
    <3>4. Cardinality({u \in Threads : Telling(u)}) # 0
      BY <2>2, <3>1, FS_EmptySet
    <3> QED BY <2>1, <2>3, <3>1, <3>3, <3>4 DEF LockFree
  <2> QED BY <2>4, <2>5
<1> QED BY <1>1, IInvCorrect, PTL

\* Once Unwatch has returned, its callback is never called again.
THEOREM UnwatchIsFinal == Spec => NoneAfterUnwatch
<1>1. ASSUME IInv, [Next]_vars PROVE [\A w \in gone : told'[w] = told[w]]_vars
  <2>1. ASSUME NEW t \in Threads, Notify(t), NEW w \in gone PROVE told'[w] = told[w]
    <3>1. NextTold(t) \in Registered
      BY <1>1, <2>1, NextIsOldest DEF Notify, IInv, TypeOK, ToldNext
    <3>2. w # NextTold(t)
      BY <1>1, <3>1 DEF IInv, IdsGrow
    <3> QED BY <1>1, <2>1, <3>2 DEF Notify, IInv, TypeOK
  <2>2. ASSUME NEW t \in Threads,
               \/ Begin(t) \/ Read(t) \/ Set(t) \/ SetReturns(t)
               \/ Watch(t) \/ Unwatch(t) \/ Replace(t)
        PROVE  told' = told
    BY <2>2 DEF Begin, Read, Set, SetReturns, Watch, Unwatch, Replace, history
  <2> QED BY <1>1, <2>1, <2>2 DEF Next, Step
<1> QED BY <1>1, IInvCorrect, PTL DEF Spec, NoneAfterUnwatch

\* Between calls, a watcher that was told of a change knows the setting, unless
\* it was changed in silence.
THEOREM WatchersKnow == Spec => []KnowsUnlessSilent
<1>1. IInv => KnowsUnlessSilent
  BY DEF IInv, Books, Knows, KnowsUnlessSilent
<1> QED BY <1>1, IInvCorrect, PTL
=============================================================================
