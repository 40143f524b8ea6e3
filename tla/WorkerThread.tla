---------------------------- MODULE WorkerThread ----------------------------
(***************************************************************************)
(* The worker thread of the native client: WorkerThread and the two        *)
(* ThreadSynchronizers it waits on.  One user thread, Owner, constructs    *)
(* the object and shuts it down; any user hands tasks over.                *)
(*                                                                         *)
(* The worker keeps the task mutex from before it announces itself until   *)
(* it waits, and while it runs a task; a user's critical section holds no  *)
(* other lock and never blocks, so it is one step.  The worker's reads and *)
(* writes under the mutex are grouped the same way.  A waiting thread may  *)
(* wake without being notified.                                            *)
(***************************************************************************)
EXTENDS Naturals, Sequences

CONSTANTS
  Users,         \* threads that call execute()
  Owner,         \* the user that constructs and shuts down
  MaxTasks       \* bound of the model: calls to execute()

ASSUME OwnerAssumption == Owner \in Users
ASSUME TasksAssumption == MaxTasks \in Nat

Tasks == 1..MaxTasks
NoTask == 0

VARIABLES
  worker,         \* where the worker thread is
  owner,          \* where the owner is, in the constructor or in shutdown()
  taskLocked,     \* the worker holds _taskSynchronizer._mutex
  taskNotified,   \* _taskSynchronizer._isNotified
  setupLocked,    \* the owner holds _setupSynchronizer._mutex
  setupNotified,  \* _setupSynchronizer._isNotified
  isRunning,      \* _isRunning
  workCallback,   \* _workCallback
  issued,         \* how many times execute() was called
  ran             \* the tasks the worker has started, in order

vars == <<worker, owner, taskLocked, taskNotified, setupLocked,
          setupNotified, isRunning, workCallback, issued, ran>>

setupVars == <<setupLocked, setupNotified>>
taskVars == <<workCallback, issued, ran>>

WorkerPlaces == {"none", "new", "announce", "loop", "asleep", "woken", "running", "done"}
OwnerPlaces == {"construct", "locked", "spin", "asleep", "woken", "ready", "closing", "joining", "joined"}

Init ==
  /\ worker = "none"
  /\ owner = "construct"
  /\ taskLocked = FALSE
  /\ taskNotified = FALSE
  /\ setupLocked = FALSE
  /\ setupNotified = FALSE
  /\ isRunning = FALSE
  /\ workCallback = NoTask
  /\ issued = 0
  /\ ran = <<>>

Constructed == owner \in {"ready", "closing", "joining", "joined"}

(***************************************************************************)
(* The constructor, in either locking model: avoidLocking sleeps in a loop *)
(* on _isRunning, lockThreads waits on the setup synchronizer.             *)
(***************************************************************************)
Launch ==
  /\ owner = "construct"
  /\ worker' = "new"
  /\ \/ owner' = "spin" /\ UNCHANGED setupLocked
     \/ owner' = "locked" /\ setupLocked' = TRUE
  /\ UNCHANGED <<taskLocked, taskNotified, setupNotified, isRunning, taskVars>>

\* The sleeping loop sees _isRunning.
SpinDone ==
  /\ owner = "spin"
  /\ isRunning
  /\ owner' = "ready"
  /\ UNCHANGED <<worker, taskLocked, taskNotified, setupVars, isRunning, taskVars>>

\* waitUntilNotified(setupLock): the flag is reset, the mutex released.
SetupWait ==
  /\ owner = "locked"
  /\ setupNotified' = FALSE
  /\ setupLocked' = FALSE
  /\ owner' = "asleep"
  /\ UNCHANGED <<worker, taskLocked, taskNotified, isRunning, taskVars>>

SetupSpurious ==
  /\ owner = "asleep"
  /\ owner' = "woken"
  /\ UNCHANGED <<worker, taskLocked, taskNotified, setupVars, isRunning, taskVars>>

SetupRecheck ==
  /\ owner = "woken"
  /\ owner' = IF setupNotified THEN "ready" ELSE "asleep"
  /\ UNCHANGED <<worker, taskLocked, taskNotified, setupVars, isRunning, taskVars>>

(***************************************************************************)
(* _threadedMethod.                                                        *)
(***************************************************************************)
LockTask ==
  /\ worker = "new"
  /\ ~taskLocked
  /\ taskLocked' = TRUE
  /\ worker' = "announce"
  /\ UNCHANGED <<owner, taskNotified, setupVars, isRunning, taskVars>>

\* Mutant: the worker never says that it runs.
AnnouncedNothing == isRunning

Announced == TRUE

\* notify(): the flag, then notify_one, which wakes the owner if it waits.
Announce ==
  /\ worker = "announce"
  /\ ~setupLocked
  /\ isRunning' = Announced
  /\ worker' = "loop"
  /\ IF owner = "spin"
       THEN UNCHANGED <<owner, setupNotified>>
       ELSE /\ setupNotified' = TRUE
            /\ owner' = IF owner = "asleep" THEN "woken" ELSE owner
  /\ UNCHANGED <<taskLocked, taskNotified, setupLocked, taskVars>>

\* Mutant: the flag is not reset before the wait.
FlagKept == taskNotified

FlagAtWait == FALSE

\* The head of the loop, and waitUntilNotified(taskLock) up to the wait.
Wait ==
  /\ worker = "loop"
  /\ taskLocked' = FALSE
  /\ IF isRunning
       THEN taskNotified' = FlagAtWait /\ worker' = "asleep"
       ELSE worker' = "done" /\ UNCHANGED taskNotified
  /\ UNCHANGED <<owner, setupVars, isRunning, taskVars>>

Spurious ==
  /\ worker = "asleep"
  /\ worker' = "woken"
  /\ UNCHANGED <<owner, taskLocked, taskNotified, setupVars, isRunning, taskVars>>

\* The wait returns with the mutex; not notified, the worker waits again.
WaitAgain ==
  /\ worker = "woken"
  /\ ~taskLocked
  /\ ~taskNotified
  /\ worker' = "asleep"
  /\ UNCHANGED <<owner, taskLocked, taskNotified, setupVars, isRunning, taskVars>>

\* Mutant: a task is run although shutdown() was called.
RunsAfterQuit == TRUE

RunsTasks == isRunning

\* Mutant: the flag is reset as soon as the wait is over.
FlagLowered == FALSE

FlagAfterWait == taskNotified

TakeTask ==
  /\ worker = "woken"
  /\ ~taskLocked
  /\ taskNotified
  /\ RunsTasks
  /\ taskNotified' = FlagAfterWait
  /\ taskLocked' = TRUE
  /\ worker' = "running"
  /\ ran' = Append(ran, workCallback)
  /\ UNCHANGED <<owner, setupVars, isRunning, workCallback, issued>>

\* "quit scenario": leaving the method releases the mutex.
Quit ==
  /\ worker = "woken"
  /\ ~taskLocked
  /\ taskNotified
  /\ ~isRunning
  /\ worker' = "done"
  /\ UNCHANGED <<owner, taskLocked, taskNotified, setupVars, isRunning, taskVars>>

TaskReturns ==
  /\ worker = "running"
  /\ worker' = "loop"
  /\ UNCHANGED <<owner, taskLocked, taskNotified, setupVars, isRunning, taskVars>>

(***************************************************************************)
(* What the users call.                                                    *)
(***************************************************************************)
\* Mutant: the flag without notify_one.
NotifyTaskSilently == taskNotified' = TRUE /\ UNCHANGED worker

\* The end of a ScopedLockedNotifier on the task synchronizer.
NotifyTask ==
  /\ taskNotified' = TRUE
  /\ worker' = IF worker = "asleep" THEN "woken" ELSE worker

\* Mutant: the worker is notified, the callback not stored.
StoresNothing == workCallback

Stored == issued + 1

Execute(u) ==
  /\ Constructed
  /\ u = Owner => owner \in {"ready", "joined"}
  /\ issued < MaxTasks
  /\ ~taskLocked
  /\ issued' = issued + 1
  /\ workCallback' = Stored
  /\ NotifyTask
  /\ UNCHANGED <<owner, taskLocked, setupVars, isRunning, ran>>

\* shutdown() looks at _isRunning without the mutex, and returns at once
\* when it is called again.
ShutdownCheck ==
  /\ owner = "ready"
  /\ isRunning
  /\ owner' = "closing"
  /\ UNCHANGED <<worker, taskLocked, taskNotified, setupVars, isRunning, taskVars>>

ShutdownNotify ==
  /\ owner = "closing"
  /\ ~taskLocked
  /\ isRunning' = FALSE
  /\ NotifyTask
  /\ owner' = "joining"
  /\ UNCHANGED <<taskLocked, setupVars, taskVars>>

Join ==
  /\ owner = "joining"
  /\ worker = "done"
  /\ owner' = "joined"
  /\ UNCHANGED <<worker, taskLocked, taskNotified, setupVars, isRunning, taskVars>>

Construct == Launch \/ SpinDone \/ SetupWait \/ SetupRecheck

WorkerStep ==
  LockTask \/ Announce \/ Wait \/ WaitAgain \/ TakeTask \/ Quit \/ TaskReturns

Next ==
  \/ Construct
  \/ SetupSpurious
  \/ WorkerStep
  \/ Spurious
  \/ \E u \in Users : Execute(u)
  \/ ShutdownCheck
  \/ ShutdownNotify
  \/ Join

Spec == Init /\ [][Next]_vars

\* Threads are scheduled, tasks return, a mutex is granted to who waits.
\* Nothing forces a user to call anything.
FairSpec ==
  /\ Spec
  /\ WF_vars(Construct)
  /\ WF_vars(LockTask \/ Announce \/ Wait \/ TaskReturns)
  /\ WF_vars(TakeTask \/ Quit)
  /\ SF_vars(ShutdownNotify)
  /\ WF_vars(Join)

-----------------------------------------------------------------------------
(* Properties *)

\* Types of the worker's state.
TypeOK ==
  /\ worker \in WorkerPlaces
  /\ owner \in OwnerPlaces
  /\ taskLocked \in BOOLEAN
  /\ taskNotified \in BOOLEAN
  /\ setupLocked \in BOOLEAN
  /\ setupNotified \in BOOLEAN
  /\ isRunning \in BOOLEAN
  /\ workCallback \in Tasks \cup {NoTask}
  /\ issued \in 0..MaxTasks
  /\ ran \in Seq(Tasks)

\* A notification is never missed: when the flag is up the worker is not
\* asleep, although waitUntilNotified() lowers the flag when it starts.
NoLostWakeup ==
  /\ taskNotified => worker # "asleep"
  /\ setupNotified => owner # "asleep"

\* A task handed over is in the worker's hands: run already, or about to be
\* unless the worker is shut down.
LastTaskKept ==
  workCallback # NoTask =>
    \/ \E i \in DOMAIN ran : ran[i] = workCallback
    \/ taskNotified /\ worker = "woken"
    \/ ~isRunning

\* isAvailable() tells the truth: no task waits and none is running.
AvailableIsFree ==
  ~taskNotified =>
    /\ worker # "running"
    /\ workCallback # NoTask => \E i \in DOMAIN ran : ran[i] = workCallback

\* A task is run at most once, and tasks run in the order of the calls.
RunsInOrder == \A i, j \in DOMAIN ran : i < j => ran[i] < ran[j]

\* The worker is one place for one task.
Slot == INSTANCE TaskSlot WITH
  slot <- IF worker = "woken" /\ taskNotified /\ isRunning
            THEN workCallback ELSE NoTask,
  open <- isRunning,
  taken <- ran

IsTaskSlot == Slot!SlotSafety
TakesWhatWaits == Slot!SlotSpec

\* The constructor returns, with a worker that runs.
ConstructorReturns == (owner = "construct") ~> (owner = "ready" /\ isRunning)

\* shutdown() returns: the worker sees the flag, whatever it was doing.
ShutdownReturns == (owner = "closing") ~> (owner = "joined")
=============================================================================
