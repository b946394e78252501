--------------------------- MODULE ConfigManager ---------------------------
(***************************************************************************)
(* ConfigManager over GlobalConfig (config/config_manager.cpp,             *)
(* config/global_config.cpp): settings in memory, the file they are saved  *)
(* to, and the automatic saves, in the build the sources ask for:          *)
(* CMakeLists.txt defines ZENREMOTE_CONFIG_USE_..., the sources look at    *)
(* ZENPLAY_CONFIG_USE_..., so calls run on the caller's thread, under the  *)
(* reader-writer lock of GlobalConfig; only the delayed save runs on the   *)
(* IO thread.  The lock guards the settings, and not save_pending_.        *)
(*                                                                         *)
(* The settings are known by the change that made them: 0 is the defaults, *)
(* n the settings after the n-th Set.  Time is left out: a delayed task    *)
(* may run whenever it has been posted.  Watchers are left out.            *)
(***************************************************************************)
EXTENDS Naturals, FiniteSets

CONSTANTS
    Callers,        \* threads that use ConfigManager
    IO,             \* Loki's IO thread
    Missing, Torn,  \* what the file is when it holds no whole settings
    MaxSets         \* bound: how often Set is called

ASSUME ConfigAssumption ==
    /\ IO \notin Callers /\ IsFiniteSet(Callers)
    /\ MaxSets \in Nat
    /\ Missing # Torn
    /\ {Missing, Torn} \cap (0 .. MaxSets) = {}

VARIABLES
    config,         \* config_ of GlobalConfig
    loaded,         \* config_path_ is not empty
    policy,         \* auto_save_policy_
    save_pending,
    tasks,          \* delayed saves posted to the IO thread
    pc,             \* what each thread is about to do
    text,           \* the settings a thread that has the file open will write
    file,           \* the settings file
    \* history
    sets,           \* calls of Set
    unsaved,        \* a change is neither written nor given up by a Load
    lostBy,         \* what unscheduled the save of an unsaved change
    damaged         \* a write of the file did not end, or failed

history == <<sets, unsaved, lostBy, damaged>>
vars == <<config, loaded, policy, save_pending, tasks, pc, text, file, history>>

Threads == Callers \cup {IO}
Versions == 0 .. MaxSets
Policies == {"Manual", "Immediate", "Debounced", "OnExit"}
Ways == {"raced", "failed", "policy"}

\* The threads that have the file open; each holds the lock shared.
Writing == {t \in Threads : pc[t] = "write"}

\* (Bug: a call that changes the settings does not take the lock.)
Exclusive_Not == TRUE

\* The lock can be taken exclusively.
Exclusive == Writing = {}

Goto(t, label) == pc' = [pc EXCEPT ![t] = label]

\* A process that has just called Initialize, with some policy.
Init ==
    /\ config = 0
    /\ loaded = FALSE
    /\ policy \in Policies
    /\ save_pending = FALSE
    /\ tasks = 0
    /\ pc = [t \in Threads |-> "idle"]
    /\ text = [t \in Threads |-> 0]
    /\ file = Missing
    /\ sets = 0
    /\ unsaved = FALSE
    /\ lostBy = {}
    /\ damaged = FALSE

-----------------------------------------------------------------------------
(* The callers.                                                            *)

\* GlobalConfig::Set, under the exclusive lock.  TriggerAutoSave follows,
\* without it.
Set(t) ==
    /\ pc[t] = "idle"
    /\ Exclusive
    /\ sets < MaxSets
    /\ sets' = sets + 1
    /\ config' = sets'
    /\ unsaved' = TRUE
    /\ Goto(t, "trigger")
    /\ UNCHANGED <<loaded, policy, save_pending, tasks, text, file, lostBy, damaged>>

\* TriggerAutoSave up to CancelDebouncedSave.
Trigger(t) ==
    /\ pc[t] = "trigger"
    /\ \/ policy = "Debounced" /\ save_pending' = FALSE /\ Goto(t, "arm")
       \/ policy = "Immediate" /\ Goto(t, "open") /\ UNCHANGED save_pending
       \/ policy \in {"Manual", "OnExit"} /\ Goto(t, "idle") /\ UNCHANGED save_pending
    /\ UNCHANGED <<config, loaded, policy, tasks, text, file, history>>

\* (Bug: the flag is not set again.)
Armed_Not == UNCHANGED save_pending

Armed == save_pending' = TRUE

Posted == tasks' = tasks + 1

\* The flag is set again and a new task posted; the old tasks stay.
Arm(t) ==
    /\ pc[t] = "arm"
    /\ Armed
    /\ Posted
    /\ lostBy' = {}
    /\ Goto(t, "idle")
    /\ UNCHANGED <<config, loaded, policy, text, file, sets, unsaved, damaged>>

\* ConfigManager::Save and SaveAsync.
Save(t) ==
    /\ pc[t] = "idle"
    /\ Goto(t, "open")
    /\ UNCHANGED <<config, loaded, policy, save_pending, tasks, text, file, history>>

\* A switch of the policy, without the lock; what was changed under another
\* policy is not scheduled by a switch to debounced saves.
SetAutoSavePolicy(t, p) ==
    /\ pc[t] = "idle"
    /\ policy' = p
    /\ lostBy' = IF unsaved /\ p # policy THEN lostBy \cup {"policy"} ELSE lostBy
    /\ Goto(t, IF p = "Debounced" THEN "idle" ELSE "cancel")
    /\ UNCHANGED <<config, loaded, save_pending, tasks, text, file, sets, unsaved, damaged>>

\* A switch away from debounced saves goes on to cancel the one that is
\* pending, which may be one that another caller has armed in between.
CancelDebouncedSave(t) ==
    /\ pc[t] = "cancel"
    /\ save_pending' = FALSE
    /\ lostBy' = IF unsaved THEN lostBy \cup {"policy"} ELSE lostBy
    /\ Goto(t, "idle")
    /\ UNCHANGED <<config, loaded, policy, tasks, text, file, sets, unsaved, damaged>>

\* Load and Reload.  A file that cannot be parsed is an error, but its path is
\* kept; a file that is missing gives the defaults.
Load(t) ==
    /\ pc[t] = "idle"
    /\ Exclusive
    /\ loaded' = TRUE
    /\ IF file = Torn
       THEN UNCHANGED <<config, unsaved, lostBy>>
       ELSE /\ config' = IF file = Missing THEN 0 ELSE file
            /\ unsaved' = FALSE
            /\ lostBy' = {}
    /\ UNCHANGED <<policy, save_pending, tasks, pc, text, file, sets, damaged>>

-----------------------------------------------------------------------------
(* Saving, by a caller or by the IO thread.                                *)

\* The delayed task goes on to clear the flag, whether the save worked or not.
AfterSave(t, worked) ==
    IF t # IO THEN "idle" ELSE IF worked THEN "clear" ELSE "failed"

\* Opening the file empties it.  It fails without a path, and may fail with one.
OpenFile(t) ==
    /\ pc[t] = "open"
    /\ \/ /\ loaded
          /\ file' = Torn
          /\ text' = [text EXCEPT ![t] = config]
          /\ Goto(t, "write")
       \/ Goto(t, AfterSave(t, FALSE)) /\ UNCHANGED <<text, file>>
    /\ UNCHANGED <<config, loaded, policy, save_pending, tasks, history>>

\* (Bug: the file is opened, and nothing is put into it.)
Written_Not(t) == UNCHANGED file

Written(t) == file' = text[t]

\* Whether the settings got to the file is not looked at.
WriteFile(t) ==
    /\ pc[t] = "write"
    /\ text' = [text EXCEPT ![t] = 0]
    /\ \/ /\ Written(t)
          /\ unsaved' = FALSE
          /\ lostBy' = {}
          /\ damaged' = FALSE
          /\ Goto(t, AfterSave(t, TRUE))
       \/ /\ damaged' = (damaged \/ file = Torn)
          /\ Goto(t, AfterSave(t, FALSE))
          /\ UNCHANGED <<file, unsaved, lostBy>>
    /\ UNCHANGED <<config, loaded, policy, save_pending, tasks, sets>>

\* The delayed task looks at the flag.
RunTask ==
    /\ pc[IO] = "idle"
    /\ tasks > 0
    /\ tasks' = tasks - 1
    /\ Goto(IO, IF save_pending THEN "open" ELSE "idle")
    /\ UNCHANGED <<config, loaded, policy, save_pending, text, file, history>>

\* It clears the flag after the save, whoever set it in the meantime.
ClearPending ==
    /\ pc[IO] \in {"clear", "failed"}
    /\ save_pending' = FALSE
    /\ lostBy' = IF unsaved
                 THEN lostBy \cup {IF pc[IO] = "clear" THEN "raced" ELSE "failed"}
                 ELSE lostBy
    /\ Goto(IO, "idle")
    /\ UNCHANGED <<config, loaded, policy, tasks, text, file, sets, unsaved, damaged>>

-----------------------------------------------------------------------------
(* The end of the process, and the next start.                             *)

Restart ==
    /\ config' = 0
    /\ loaded' = FALSE
    /\ policy' \in Policies
    /\ save_pending' = FALSE
    /\ tasks' = 0
    /\ pc' = [t \in Threads |-> "idle"]
    /\ text' = [t \in Threads |-> 0]
    /\ unsaved' = FALSE
    /\ lostBy' = {}

\* The destructor saves under OnExit, from a GlobalConfig that was constructed
\* after the ConfigManager and is destroyed before it: the settings, part of
\* them or nothing gets to the file.  Other pending saves are dropped.
Exit ==
    /\ \A t \in Threads : pc[t] = "idle"
    /\ \/ policy = "OnExit" /\ loaded /\ file' = config /\ damaged' = FALSE
       \/ policy = "OnExit" /\ loaded /\ file' = Torn /\ damaged' = TRUE
       \/ UNCHANGED <<file, damaged>>
    /\ Restart
    /\ UNCHANGED sets

Crash ==
    /\ damaged' = (damaged \/ Writing # {})
    /\ Restart
    /\ UNCHANGED <<file, sets>>

Next ==
    \/ \E t \in Callers : Set(t) \/ Trigger(t) \/ Arm(t) \/ Save(t) \/ Load(t)
    \/ \E t \in Callers : CancelDebouncedSave(t)
    \/ \E t \in Callers, p \in Policies : SetAutoSavePolicy(t, p)
    \/ \E t \in Threads : OpenFile(t) \/ WriteFile(t)
    \/ RunTask
    \/ ClearPending
    \/ Exit
    \/ Crash

Spec == Init /\ [][Next]_vars

\* Threads that are inside a call go on, and the IO thread runs its tasks.
FairSpec ==
    /\ Spec
    /\ \A t \in Callers : WF_vars(\/ Trigger(t) \/ Arm(t) \/ CancelDebouncedSave(t)
                                \/ OpenFile(t) \/ WriteFile(t))
    /\ WF_vars(RunTask \/ ClearPending \/ OpenFile(IO) \/ WriteFile(IO))

-----------------------------------------------------------------------------
Labels == {"idle", "trigger", "arm", "cancel", "open", "write", "clear", "failed"}

TypeOK ==
    /\ config \in Versions
    /\ loaded \in BOOLEAN
    /\ policy \in Policies
    /\ save_pending \in BOOLEAN
    /\ tasks \in 0 .. sets
    /\ pc \in [Threads -> Labels]
    /\ text \in [Threads -> Versions]
    /\ file \in Versions \cup {Missing, Torn}
    /\ sets \in Versions
    /\ unsaved \in BOOLEAN
    /\ lostBy \subseteq Ways
    /\ damaged \in BOOLEAN

\* The change has been made, and the caller has not yet scheduled its save.
Scheduling == \E t \in Callers : pc[t] \in {"trigger", "arm"}

\* Under debounced saves a change that is not yet in the file has a task that
\* will find the flag set, or is being written, unless one of three things
\* happened: the IO thread cleared the flag of a change that came after its
\* write (raced), it cleared it after a save that failed (failed), or a caller
\* changed the policy, or had just done so and cancelled the save (policy).
LostOnlyAs ==
    unsaved /\ policy = "Debounced" /\ ~Scheduling =>
        \/ save_pending /\ tasks > 0
        \/ pc[IO] \in {"open", "write", "failed"}
        \/ lostBy # {}

\* The file holds whole settings whenever nobody is writing it, unless a write
\* was cut off by a crash or failed: no two saves, and no save and Load, get in
\* each other's way.
FileWhole == file = Torn => Writing # {} \/ damaged

\* When every change is saved, and none is being made, memory and file agree.
SavedMeansSame ==
    ~unsaved /\ loaded /\ Writing = {} /\ ~damaged /\ file # Missing => file = config

\* A change under debounced saves is written in the end, or lost in one of the
\* three ways.
EventuallySaved ==
    (unsaved /\ policy = "Debounced") ~>
        (~unsaved \/ lostBy # {} \/ policy # "Debounced")
=============================================================================
