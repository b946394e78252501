------------------------ MODULE ConfigManager_proofs ------------------------
(***************************************************************************)
(* Theorems about ConfigManager, for any number of callers and of changes. *)
(* The invariant is in three parts that do not need each other: the types, *)
(* what is in the file, and what is scheduled.                             *)
(***************************************************************************)
EXTENDS ConfigManager, FiniteSetTheorems, TLAPS

\* The types, without the bound on the number of tasks.
Typed ==
    /\ config \in Versions
    /\ loaded \in BOOLEAN
    /\ policy \in Policies
    /\ save_pending \in BOOLEAN
    /\ tasks \in Nat
    /\ pc \in [Threads -> Labels]
    /\ \A t \in Callers : pc[t] \notin {"clear", "failed"}
    /\ pc[IO] \notin {"trigger", "arm", "cancel"}
    /\ text \in [Threads -> Versions]
    /\ file \in Versions \cup {Missing, Torn}
    /\ sets \in Versions
    /\ unsaved \in BOOLEAN
    /\ damaged \in BOOLEAN

\* Every task, and every caller that is about to post one, has a change of its
\* own that it goes back to.
Owed == {t \in Callers : pc[t] \in {"trigger", "arm"}}
Counted == tasks + Cardinality(Owed) <= sets

\* Who has the file open writes the settings as they are, and what another
\* thread has already written is the same.
FileInv ==
    /\ \A t \in Writing : text[t] = config
    /\ Writing # {} => file \in {Torn, config}
    /\ FileWhole
    /\ SavedMeansSame

IInv == Typed /\ lostBy \subseteq Ways /\ Counted /\ FileInv /\ LostOnlyAs

-----------------------------------------------------------------------------
LEMMA NoVersion == Missing \notin Versions /\ Torn \notin Versions /\ Missing # Torn
BY ConfigAssumption DEF Versions

LEMMA Bound == MaxSets \in Nat /\ 0 \in Versions
BY ConfigAssumption DEF Versions

LEMMA IOApart == \A t \in Callers : t # IO
BY ConfigAssumption

\* The initial states.
LEMMA InitInv == Init => IInv
<1> SUFFICES ASSUME Init PROVE IInv
  OBVIOUS
<1>1. Typed
  BY Bound, IOApart DEF Init, Typed, Labels, Threads
<1>2. Owed = {} /\ Cardinality({}) = 0
  BY FS_EmptySet DEF Init, Owed, Threads
<1>3. Counted
  <2>1. tasks + Cardinality(Owed) = 0 /\ sets = 0
    BY <1>2 DEF Init
  <2> QED BY <2>1 DEF Counted
<1>4. FileInv
  BY NoVersion DEF Init, FileInv, FileWhole, SavedMeansSame, Writing, Threads
<1>5. LostOnlyAs
  BY DEF Init, LostOnlyAs
<1>6. lostBy \subseteq Ways
  BY DEF Init
<1> QED BY <1>1, <1>3, <1>4, <1>5, <1>6 DEF IInv

-----------------------------------------------------------------------------
(* The types.                                                              *)

LEMMA TypedStep ==
    ASSUME Typed, [Next]_vars
    PROVE  Typed'
<1> USE IOApart DEF Typed, Threads, Labels, Goto
<1>1. ASSUME NEW t \in Callers, Set(t) PROVE Typed'
  BY <1>1, Bound DEF Set, Versions
<1>2. ASSUME NEW t \in Callers, Trigger(t) PROVE Typed'
  BY <1>2 DEF Trigger, history
<1>3. ASSUME NEW t \in Callers, Arm(t) PROVE Typed'
  BY <1>3 DEF Arm, Armed, Posted
<1>4. ASSUME NEW t \in Callers, Save(t) PROVE Typed'
  BY <1>4 DEF Save, history
<1>5. ASSUME NEW t \in Callers, Load(t) PROVE Typed'
  BY <1>5, Bound DEF Load
<1>6. ASSUME NEW t \in Callers, NEW p \in Policies, SetAutoSavePolicy(t, p) PROVE Typed'
  BY <1>6 DEF SetAutoSavePolicy
<1>14. ASSUME NEW t \in Callers, CancelDebouncedSave(t) PROVE Typed'
  BY <1>14 DEF CancelDebouncedSave
<1>7. ASSUME NEW t \in Threads, OpenFile(t) PROVE Typed'
  BY <1>7 DEF OpenFile, AfterSave, history
<1>8. ASSUME NEW t \in Threads, WriteFile(t) PROVE Typed'
  <2>1. Goto(t, AfterSave(t, TRUE)) \/ Goto(t, AfterSave(t, FALSE))
    BY <1>8 DEF WriteFile
  <2>2. /\ pc' \in [Threads -> Labels]
        /\ \A u \in Callers : pc'[u] \notin {"clear", "failed"}
        /\ pc'[IO] \notin {"trigger", "arm", "cancel"}
    BY <2>1 DEF AfterSave
  <2>3. file' = text[t] \/ file' = file
    BY <1>8 DEF WriteFile, Written
  <2>4. file' \in Versions \cup {Missing, Torn}
    BY <2>3
  <2>5. text' \in [Threads -> Versions]
    BY <1>8, Bound DEF WriteFile
  <2>6. damaged' \in BOOLEAN /\ unsaved' \in BOOLEAN
    BY <1>8 DEF WriteFile
  <2> QED BY <1>8, <2>2, <2>4, <2>5, <2>6 DEF WriteFile
<1>9. CASE RunTask
  BY <1>9 DEF RunTask, history
<1>10. CASE ClearPending
  BY <1>10 DEF ClearPending
<1>11. CASE Exit
  BY <1>11, Bound DEF Exit, Restart
<1>12. CASE Crash
  BY <1>12, Bound DEF Crash, Restart
<1>13. CASE UNCHANGED vars
  BY <1>13 DEF vars, history
<1> QED
  BY <1>1, <1>2, <1>3, <1>4, <1>5, <1>6, <1>7, <1>8, <1>9, <1>10, <1>11, <1>12, <1>13,
     <1>14
  DEF Next

LEMMA WaysStep ==
    ASSUME lostBy \subseteq Ways, [Next]_vars
    PROVE  lostBy' \subseteq Ways
<1>1. \/ lostBy' = lostBy
      \/ lostBy' = {}
      \/ \E w \in Ways : lostBy' = lostBy \cup {w}
  BY DEF Next, vars, history, Set, Trigger, Arm, Save, Load, SetAutoSavePolicy,
         CancelDebouncedSave, OpenFile, WriteFile, RunTask, ClearPending, Exit, Crash, Restart, Ways
<1> QED BY <1>1

-----------------------------------------------------------------------------
(* The number of tasks.                                                    *)

LEMMA OwedFinite == IsFiniteSet(Owed) /\ Cardinality(Owed) \in Nat
BY ConfigAssumption, FS_Subset, FS_CardinalityType DEF Owed

\* How the threads that owe a task change.
LEMMA CountStep ==
    ASSUME Typed, Counted, [Next]_vars
    PROVE  Counted'
<1> DEFINE n == Cardinality(Owed)
<1>0. n \in Nat /\ IsFiniteSet(Owed) /\ tasks \in Nat /\ sets \in Nat /\ tasks + n <= sets
  BY OwedFinite DEF Typed, Counted, Versions
<1>1. ASSUME NEW t \in Callers, Set(t) PROVE Counted'
  <2>1. t \notin Owed /\ Owed' = Owed \cup {t}
    BY <1>1, IOApart DEF Set, Owed, Typed, Threads, Goto
  <2>2. Cardinality(Owed') = n + 1
    BY <2>1, <1>0, FS_AddElement
  <2>3. tasks' = tasks /\ sets' = sets + 1
    BY <1>1 DEF Set
  <2> HIDE DEF n
  <2> QED BY <2>2, <2>3, <1>0 DEF Counted
<1>2. ASSUME NEW t \in Callers, t \in Owed, Owed' = Owed \ {t},
             tasks' = tasks \/ tasks' = tasks + 1, sets' = sets
      PROVE  Counted'
  <2>1. Cardinality(Owed') = n - 1
    BY <1>2, <1>0, FS_RemoveElement
  <2>2. (tasks' = tasks \/ tasks' = tasks + 1) /\ sets' = sets
    BY <1>2
  <2> HIDE DEF n
  <2>3. tasks' + (n - 1) <= sets'
    BY <2>2, <1>0
  <2> QED BY <2>1, <2>3 DEF Counted
<1>3. ASSUME NEW t \in Callers, Trigger(t) PROVE Counted'
  <2>1. CASE pc'[t] = "arm"
    <3>1. Owed' = Owed
      BY <1>3, <2>1, IOApart DEF Trigger, Owed, Typed, Threads, Goto
    <3> QED BY <1>3, <3>1 DEF Trigger, Counted, history
  <2>2. CASE pc'[t] # "arm"
    <3>1. t \in Owed /\ Owed' = Owed \ {t}
      BY <1>3, <2>2, IOApart DEF Trigger, Owed, Typed, Threads, Goto
    <3> QED BY <1>2, <1>3, <3>1 DEF Trigger, history
  <2> QED BY <2>1, <2>2
<1>4. ASSUME NEW t \in Callers, Arm(t) PROVE Counted'
  <2>1. t \in Owed /\ Owed' = Owed \ {t}
    BY <1>4, IOApart DEF Arm, Owed, Typed, Threads, Goto
  <2> QED BY <1>2, <1>4, <2>1 DEF Arm, Posted
<1>5. ASSUME Owed' = Owed, tasks' = tasks \/ tasks' = tasks - 1, sets' = sets
      PROVE  Counted'
  <2>1. Cardinality(Owed') = n
    BY <1>5 DEF n
  <2>2. (tasks' = tasks \/ tasks' = tasks - 1) /\ sets' = sets
    BY <1>5
  <2> HIDE DEF n
  <2>3. tasks' + n <= sets'
    BY <2>2, <1>0
  <2> QED BY <2>1, <2>3 DEF Counted
<1>6. ASSUME NEW t \in Callers, Save(t) PROVE Counted'
  <2>1. Owed' = Owed
    BY <1>6, IOApart DEF Save, Owed, Typed, Threads, Goto
  <2> QED BY <1>5, <1>6, <2>1 DEF Save, history
<1>7. ASSUME NEW t \in Callers,
             \/ Load(t)
             \/ \E p \in Policies : SetAutoSavePolicy(t, p)
             \/ CancelDebouncedSave(t)
      PROVE  Counted'
  <2>1. Owed' = Owed
    BY <1>7, IOApart
    DEF Load, SetAutoSavePolicy, CancelDebouncedSave, Owed, Typed, Threads, Goto
  <2> QED BY <1>5, <1>7, <2>1 DEF Load, SetAutoSavePolicy, CancelDebouncedSave
<1>8. ASSUME NEW t \in Threads, OpenFile(t) \/ WriteFile(t) PROVE Counted'
  <2>1. Owed' = Owed
    BY <1>8, IOApart DEF OpenFile, WriteFile, AfterSave, Owed, Typed, Threads, Goto
  <2>2. tasks' = tasks /\ sets' = sets
    BY <1>8 DEF OpenFile, WriteFile, history
  <2> QED BY <1>5, <2>1, <2>2
<1>9. CASE RunTask \/ ClearPending
  <2>1. Owed' = Owed
    BY <1>9, IOApart DEF RunTask, ClearPending, Owed, Typed, Threads, Goto
  <2>2. (tasks' = tasks \/ tasks' = tasks - 1) /\ sets' = sets
    BY <1>9 DEF RunTask, ClearPending, history
  <2> QED BY <1>5, <2>1, <2>2
<1>10. CASE Exit \/ Crash
  <2>1. Owed' = {} /\ tasks' = 0 /\ sets' = sets
    BY <1>10, IOApart DEF Exit, Crash, Restart, Owed, Typed, Threads, Goto
  <2>2. Cardinality(Owed') = 0
    BY <2>1, FS_EmptySet
  <2> QED BY <1>0, <2>1, <2>2 DEF Counted
<1>11. CASE UNCHANGED vars
  BY <1>11, IOApart DEF vars, history, Counted, Owed, Typed, Threads, Goto
<1> QED
  BY <1>1, <1>3, <1>4, <1>6, <1>7, <1>8, <1>9, <1>10, <1>11 DEF Next

-----------------------------------------------------------------------------
(* The file.                                                               *)

LEMMA FileStep ==
    ASSUME Typed, FileInv, [Next]_vars
    PROVE  FileInv'
<1> USE NoVersion, IOApart DEF Typed, FileInv, FileWhole, SavedMeansSame
<1>1. ASSUME NEW t \in Callers, Set(t) PROVE FileInv'
  <2>1. Writing' = {}
    BY <1>1 DEF Set, Exclusive, Writing, Goto
  <2> QED BY <1>1, <2>1 DEF Set, Exclusive
<1>2. ASSUME NEW t \in Callers, Trigger(t) \/ Arm(t) \/ Save(t) PROVE FileInv'
  <2>1. Writing' = Writing
    BY <1>2 DEF Trigger, Arm, Save, Writing, Goto, Threads
  <2> QED BY <1>2, <2>1 DEF Trigger, Arm, Save, history
<1>3. ASSUME NEW t \in Callers, Load(t) PROVE FileInv'
  <2>1. Writing = {} /\ Writing' = {}
    BY <1>3 DEF Load, Exclusive, Writing
  <2> QED BY <1>3, <2>1 DEF Load
<1>4. ASSUME NEW t \in Callers, NEW p \in Policies, SetAutoSavePolicy(t, p) PROVE FileInv'
  BY <1>4 DEF SetAutoSavePolicy, Writing, Goto, Threads
<1>10. ASSUME NEW t \in Callers, CancelDebouncedSave(t) PROVE FileInv'
  BY <1>10 DEF CancelDebouncedSave, Writing, Goto, Threads
<1>5. ASSUME NEW t \in Threads, OpenFile(t) PROVE FileInv'
  <2>1. CASE pc' = [pc EXCEPT ![t] = "write"] /\ file' = Torn
                /\ text' = [text EXCEPT ![t] = config]
    <3>1. Writing' = Writing \cup {t}
      BY <2>1 DEF Writing
    <3>2. \A u \in Writing' : text'[u] = config
      BY <2>1, <3>1 DEF Writing
    <3> QED BY <1>5, <2>1, <3>1, <3>2 DEF OpenFile, history
  <2>2. CASE UNCHANGED <<text, file>> /\ Goto(t, AfterSave(t, FALSE))
    <3>1. Writing' = Writing
      BY <1>5, <2>2 DEF OpenFile, Goto, AfterSave, Writing
    <3> QED BY <1>5, <2>2, <3>1 DEF OpenFile, history
  <2> QED BY <1>5, <2>1, <2>2 DEF OpenFile, Goto
<1>6. ASSUME NEW t \in Threads, WriteFile(t) PROVE FileInv'
  <2>1. t \in Writing /\ text[t] = config /\ config \in Versions
    BY <1>6 DEF WriteFile, Writing
  <2>2. Writing' = Writing \ {t}
    BY <1>6 DEF WriteFile, Goto, AfterSave, Writing
  <2>3. \A u \in Writing' : text'[u] = config'
    BY <1>6, <2>2 DEF WriteFile, Writing
  <2>4. CASE file' = text[t] /\ damaged' = FALSE
    BY <1>6, <2>1, <2>2, <2>3, <2>4 DEF WriteFile
  <2>5. CASE UNCHANGED <<file, unsaved>> /\ damaged' = (damaged \/ file = Torn)
    BY <1>6, <2>1, <2>2, <2>3, <2>5 DEF WriteFile
  <2> QED BY <1>6, <2>4, <2>5 DEF WriteFile, Written
<1>7. CASE RunTask \/ ClearPending
  <2>1. Writing' = Writing
    BY <1>7 DEF RunTask, ClearPending, Goto, Writing
  <2> QED BY <1>7, <2>1 DEF RunTask, ClearPending, history
<1>8. CASE Exit \/ Crash
  <2>1. Writing' = {} /\ loaded' = FALSE
    BY <1>8 DEF Exit, Crash, Restart, Writing
  <2>2. (file' = Torn) => damaged'
    BY <1>8 DEF Exit, Crash, Writing
  <2> QED BY <2>1, <2>2
<1>9. CASE UNCHANGED vars
  BY <1>9 DEF vars, history, Writing
<1> QED
  BY <1>1, <1>2, <1>3, <1>4, <1>5, <1>6, <1>7, <1>8, <1>9, <1>10 DEF Next

-----------------------------------------------------------------------------
(* The scheduled save.                                                     *)

LEMMA LostStep ==
    ASSUME Typed, LostOnlyAs, [Next]_vars
    PROVE  LostOnlyAs'
<1> USE IOApart DEF Typed, LostOnlyAs, Scheduling, Threads, Goto
<1>1. ASSUME NEW t \in Callers, Set(t) PROVE LostOnlyAs'
  BY <1>1 DEF Set
<1>2. ASSUME NEW t \in Callers, Trigger(t) PROVE LostOnlyAs'
  BY <1>2 DEF Trigger, history
<1>3. ASSUME NEW t \in Callers, Arm(t) PROVE LostOnlyAs'
  BY <1>3 DEF Arm, Armed, Posted
<1>4. ASSUME NEW t \in Callers, Save(t) PROVE LostOnlyAs'
  BY <1>4 DEF Save, history
<1>5. ASSUME NEW t \in Callers, Load(t) PROVE LostOnlyAs'
  BY <1>5 DEF Load
<1>6. ASSUME NEW t \in Callers, NEW p \in Policies, SetAutoSavePolicy(t, p)
      PROVE  LostOnlyAs'
  BY <1>6 DEF SetAutoSavePolicy
<1>13. ASSUME NEW t \in Callers, CancelDebouncedSave(t) PROVE LostOnlyAs'
  BY <1>13 DEF CancelDebouncedSave
<1>7. ASSUME NEW t \in Threads, OpenFile(t) PROVE LostOnlyAs'
  BY <1>7 DEF OpenFile, AfterSave, history
<1>8. ASSUME NEW t \in Threads, WriteFile(t) PROVE LostOnlyAs'
  BY <1>8 DEF WriteFile, AfterSave
<1>9. CASE RunTask
  BY <1>9 DEF RunTask, history
<1>10. CASE ClearPending
  BY <1>10 DEF ClearPending
<1>11. CASE Exit \/ Crash
  BY <1>11 DEF Exit, Crash, Restart
<1>12. CASE UNCHANGED vars
  BY <1>12 DEF vars, history
<1> QED
  BY <1>1, <1>2, <1>3, <1>4, <1>5, <1>6, <1>7, <1>8, <1>9, <1>10, <1>11, <1>12, <1>13
  DEF Next

-----------------------------------------------------------------------------
(* The theorems.                                                           *)

\* The three parts together hold in every state.
THEOREM IInvCorrect == Spec => []IInv
<1>1. IInv /\ [Next]_vars => IInv'
  BY TypedStep, WaysStep, CountStep, FileStep, LostStep DEF IInv
<1> QED BY InitInv, <1>1, PTL DEF Spec

\* Every variable has its type; no more delayed saves wait than Set was called.
THEOREM TypeCorrect == Spec => []TypeOK
<1>1. IInv => TypeOK
  <2> SUFFICES ASSUME IInv PROVE TypeOK
    OBVIOUS
  <2> DEFINE n == Cardinality(Owed)
  <2>1. tasks \in Nat /\ n \in Nat /\ sets \in Nat /\ tasks + n <= sets
    BY OwedFinite DEF IInv, Typed, Counted, Versions
  <2> HIDE DEF n
  <2>2. tasks \in 0 .. sets
    BY <2>1
  <2> QED BY <2>2 DEF IInv, Typed, TypeOK
<1> QED BY <1>1, IInvCorrect, PTL

\* However many threads save and load, the file holds whole settings when none
\* of them has it open, unless a write was cut off or failed.
THEOREM FileStaysWhole == Spec => []FileWhole
<1>1. IInv => FileWhole
  BY DEF IInv, FileInv
<1> QED BY <1>1, IInvCorrect, PTL

\* Memory and file agree once everything is saved.
THEOREM SavedIsSame == Spec => []SavedMeansSame
<1>1. IInv => SavedMeansSame
  BY DEF IInv, FileInv
<1> QED BY <1>1, IInvCorrect, PTL

\* A debounced save goes missing in the three known ways only.
THEOREM LostRarely == Spec => []LostOnlyAs
<1>1. IInv => LostOnlyAs
  BY DEF IInv
<1> QED BY <1>1, IInvCorrect, PTL
=============================================================================
