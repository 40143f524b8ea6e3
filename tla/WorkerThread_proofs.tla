------------------------- MODULE WorkerThread_proofs -------------------------
(***************************************************************************)
(* Proofs about WorkerThread, for any set of users, any number of tasks    *)
(* and both locking models.                                                *)
(***************************************************************************)
EXTENDS WorkerThread, SequenceTheorems, TLAPS

USE DEF Tasks, NoTask

Early == {"none", "new", "announce"}

\* Where the mutex and the flags are, for each place of the two threads.
Phases ==
  /\ taskLocked <=> worker \in {"announce", "loop", "running"}
  /\ worker \in Early =>
       ~isRunning /\ ~taskNotified /\ ~setupNotified /\ issued = 0
  /\ Constructed => worker \notin Early
  /\ owner = "construct" <=> worker = "none"
  /\ owner = "closing" => isRunning
  /\ worker = "asleep" => ~taskNotified
  /\ worker = "running" => taskNotified
  /\ worker = "done" => ~isRunning
  /\ (~isRunning /\ worker \notin Early) => taskNotified
  /\ setupNotified => owner # "asleep"

Pending == worker = "woken" /\ taskNotified /\ isRunning

\* The waiting task is the newest, and none of those that ran.
Progress ==
  /\ workCallback = issued
  /\ \A i \in 1..Len(ran) : ran[i] <= issued
  /\ Pending => issued > 0 /\ \A i \in 1..Len(ran) : ran[i] < issued
  /\ \A i, j \in 1..Len(ran) : i < j => ran[i] < ran[j]

\* LastTaskKept with the sequence's domain spelled out.
Kept ==
  workCallback # NoTask =>
    \/ \E i \in 1..Len(ran) : ran[i] = workCallback
    \/ taskNotified /\ worker = "woken"
    \/ ~isRunning

WorkerInv == TypeOK /\ Phases /\ Progress /\ Kept

-----------------------------------------------------------------------------
(* The invariant holds initially *)

LEMMA InvInit == Init => WorkerInv
<1> SUFFICES ASSUME Init PROVE WorkerInv
  OBVIOUS
<1>1. ran \in Seq(Tasks) /\ Len(ran) = 0
  BY EmptySeq DEF Init
<1>2. issued \in 0..MaxTasks
  BY TasksAssumption DEF Init
<1>3. TypeOK
  BY <1>1, <1>2 DEF Init, TypeOK, WorkerPlaces, OwnerPlaces
<1>4. Phases
  BY DEF Init, Phases, Early, Constructed
<1>5. Progress /\ Kept
  BY <1>1 DEF Init, Progress, Pending, Kept
<1> QED  BY <1>3, <1>4, <1>5 DEF WorkerInv

\* The task taken is the newest, and comes after those that ran.
LEMMA TakesNewest ==
  ASSUME WorkerInv, TakeTask
  PROVE  /\ ran' \in Seq(Tasks)
         /\ Len(ran') = Len(ran) + 1
         /\ \A i \in 1..Len(ran) : ran'[i] = ran[i]
         /\ ran'[Len(ran) + 1] = issued
         /\ Len(ran) \in Nat
<1>1. workCallback = issued /\ issued \in Tasks
  BY DEF WorkerInv, TakeTask, RunsTasks, FlagAfterWait, Progress, Pending, TypeOK
<1>2. ran \in Seq(Tasks) /\ ran' = Append(ran, issued)
  BY <1>1 DEF WorkerInv, TakeTask, RunsTasks, FlagAfterWait, TypeOK
<1>3. Len(ran) \in Nat
  BY <1>2, LenProperties
<1> QED  BY <1>1, <1>2, <1>3, AppendProperties

-----------------------------------------------------------------------------
(* The invariant is preserved *)

LEMMA TypeNext == WorkerInv /\ [Next]_vars => TypeOK'
<1> SUFFICES ASSUME WorkerInv, [Next]_vars PROVE TypeOK'
  OBVIOUS
<1> USE DEF WorkerInv, TypeOK, setupVars, taskVars, WorkerPlaces, OwnerPlaces
<1>0. CASE UNCHANGED vars
  BY <1>0 DEF vars
<1>1. CASE Launch
  BY <1>1 DEF Launch
<1>2. CASE SpinDone
  BY <1>2 DEF SpinDone
<1>3. CASE SetupWait
  BY <1>3 DEF SetupWait
<1>4. CASE SetupRecheck
  BY <1>4 DEF SetupRecheck
<1>5. CASE SetupSpurious
  BY <1>5 DEF SetupSpurious
<1>6. CASE LockTask
  BY <1>6 DEF LockTask
<1>7. CASE Announce
  BY <1>7 DEF Announce, Announced
<1>8. CASE Wait
  BY <1>8 DEF Wait, FlagAtWait
<1>9. CASE WaitAgain
  BY <1>9 DEF WaitAgain
<1>10. CASE TakeTask
  <2>1. ran' \in Seq(Tasks)
    BY <1>10, TakesNewest
  <2> QED  BY <1>10, <2>1 DEF TakeTask, RunsTasks, FlagAfterWait
<1>11. CASE Quit
  BY <1>11 DEF Quit
<1>12. CASE TaskReturns
  BY <1>12 DEF TaskReturns
<1>13. CASE Spurious
  BY <1>13 DEF Spurious
<1>14. ASSUME NEW u \in Users, Execute(u) PROVE TypeOK'
  <2>1. issued' \in 0..MaxTasks /\ workCallback' \in Tasks
    BY <1>14, TasksAssumption DEF Execute, Stored
  <2> QED  BY <1>14, <2>1 DEF Execute, Stored, NotifyTask
<1>15. CASE ShutdownCheck
  BY <1>15 DEF ShutdownCheck
<1>16. CASE ShutdownNotify
  BY <1>16 DEF ShutdownNotify, NotifyTask
<1>17. CASE Join
  BY <1>17 DEF Join
<1> QED
  BY <1>0, <1>1, <1>2, <1>3, <1>4, <1>5, <1>6, <1>7, <1>8, <1>9, <1>10, <1>11,
     <1>12, <1>13, <1>14, <1>15, <1>16, <1>17
     DEF Next, Construct, WorkerStep

LEMMA PhasesNext == WorkerInv /\ [Next]_vars => Phases'
<1> SUFFICES ASSUME WorkerInv, [Next]_vars PROVE Phases'
  OBVIOUS
<1> USE DEF WorkerInv, TypeOK, Phases, setupVars, taskVars, Early, Constructed, WorkerPlaces, OwnerPlaces
<1>0. CASE UNCHANGED vars
  BY <1>0 DEF vars
<1>1. CASE Launch
  BY <1>1 DEF Launch
<1>2. CASE SpinDone
  BY <1>2 DEF SpinDone
<1>3. CASE SetupWait
  BY <1>3 DEF SetupWait
<1>4. CASE SetupRecheck
  BY <1>4 DEF SetupRecheck
<1>5. CASE SetupSpurious
  BY <1>5 DEF SetupSpurious
<1>6. CASE LockTask
  BY <1>6 DEF LockTask
<1>7. CASE Announce
  BY <1>7 DEF Announce, Announced
<1>8. CASE Wait
  BY <1>8 DEF Wait, FlagAtWait
<1>9. CASE WaitAgain
  BY <1>9 DEF WaitAgain
<1>10. CASE TakeTask
  BY <1>10 DEF TakeTask, RunsTasks, FlagAfterWait
<1>11. CASE Quit
  BY <1>11 DEF Quit
<1>12. CASE TaskReturns
  BY <1>12 DEF TaskReturns
<1>13. CASE Spurious
  BY <1>13 DEF Spurious
<1>14. ASSUME NEW u \in Users, Execute(u) PROVE Phases'
  BY <1>14 DEF Execute, Stored, NotifyTask
<1>15. CASE ShutdownCheck
  BY <1>15 DEF ShutdownCheck
<1>16. CASE ShutdownNotify
  BY <1>16 DEF ShutdownNotify, NotifyTask
<1>17. CASE Join
  BY <1>17 DEF Join
<1> QED
  BY <1>0, <1>1, <1>2, <1>3, <1>4, <1>5, <1>6, <1>7, <1>8, <1>9, <1>10, <1>11,
     <1>12, <1>13, <1>14, <1>15, <1>16, <1>17
     DEF Next, Construct, WorkerStep

LEMMA ProgressNext == WorkerInv /\ [Next]_vars => Progress'
<1> SUFFICES ASSUME WorkerInv, [Next]_vars PROVE Progress'
  OBVIOUS
<1> USE DEF WorkerInv, TypeOK, Phases, Progress, Pending, setupVars, taskVars, Early, Constructed
<1>0. CASE UNCHANGED vars
  BY <1>0 DEF vars
<1>1. CASE Launch
  BY <1>1 DEF Launch
<1>2. CASE SpinDone
  BY <1>2 DEF SpinDone
<1>3. CASE SetupWait
  BY <1>3 DEF SetupWait
<1>4. CASE SetupRecheck
  BY <1>4 DEF SetupRecheck
<1>5. CASE SetupSpurious
  BY <1>5 DEF SetupSpurious
<1>6. CASE LockTask
  BY <1>6 DEF LockTask
<1>7. CASE Announce
  BY <1>7 DEF Announce, Announced
<1>8. CASE Wait
  BY <1>8 DEF Wait, FlagAtWait
<1>9. CASE WaitAgain
  BY <1>9 DEF WaitAgain
<1>10. CASE TakeTask
  <2>1. UNCHANGED <<workCallback, issued>> /\ worker' = "running"
    BY <1>10 DEF TakeTask, RunsTasks, FlagAfterWait
  <2>2. \A i \in 1..Len(ran) : ran[i] < issued
    BY <1>10 DEF TakeTask, RunsTasks, FlagAfterWait
  <2>3. ASSUME NEW i \in 1..Len(ran'), NEW j \in 1..Len(ran')
        PROVE  ran'[i] <= issued /\ (i < j => ran'[i] < ran'[j])
    <3>1. CASE j = Len(ran) + 1
      BY <1>10, <2>2, <3>1, TakesNewest
    <3>2. CASE j # Len(ran) + 1
      BY <1>10, <2>2, <3>2, TakesNewest
    <3> QED  BY <3>1, <3>2
  <2> QED  BY <2>1, <2>3
<1>11. CASE Quit
  BY <1>11 DEF Quit
<1>12. CASE TaskReturns
  BY <1>12 DEF TaskReturns
<1>13. CASE Spurious
  BY <1>13 DEF Spurious
<1>14. ASSUME NEW u \in Users, Execute(u) PROVE Progress'
  <2>1. UNCHANGED ran /\ workCallback' = issued + 1 /\ issued' = issued + 1
    BY <1>14 DEF Execute, Stored
  <2>2. issued \in Nat
    BY TasksAssumption
  <2>3. \A i \in 1..Len(ran) : ran[i] <= issued' /\ ran[i] < issued'
    <3> SUFFICES ASSUME NEW i \in 1..Len(ran)
                 PROVE  ran[i] <= issued' /\ ran[i] < issued'
      OBVIOUS
    <3>1. ran[i] \in Tasks
      BY ElementOfSeq
    <3> QED  BY <2>1, <2>2, <3>1
  <2>4. issued' > 0
    BY <2>1, <2>2
  <2> QED  BY <2>1, <2>3, <2>4
<1>15. CASE ShutdownCheck
  BY <1>15 DEF ShutdownCheck
<1>16. CASE ShutdownNotify
  BY <1>16 DEF ShutdownNotify, NotifyTask
<1>17. CASE Join
  BY <1>17 DEF Join
<1> QED
  BY <1>0, <1>1, <1>2, <1>3, <1>4, <1>5, <1>6, <1>7, <1>8, <1>9, <1>10, <1>11,
     <1>12, <1>13, <1>14, <1>15, <1>16, <1>17
     DEF Next, Construct, WorkerStep

LEMMA KeptNext == WorkerInv /\ [Next]_vars => Kept'
<1> SUFFICES ASSUME WorkerInv, [Next]_vars PROVE Kept'
  OBVIOUS
<1> USE DEF WorkerInv, TypeOK, Phases, Kept, setupVars, taskVars, Early, Constructed, WorkerPlaces
<1>0. CASE UNCHANGED vars
  BY <1>0 DEF vars
<1>1. CASE Launch
  BY <1>1 DEF Launch
<1>2. CASE SpinDone
  BY <1>2 DEF SpinDone
<1>3. CASE SetupWait
  BY <1>3 DEF SetupWait
<1>4. CASE SetupRecheck
  BY <1>4 DEF SetupRecheck
<1>5. CASE SetupSpurious
  BY <1>5 DEF SetupSpurious
<1>6. CASE LockTask
  BY <1>6 DEF LockTask
<1>7. CASE Announce
  BY <1>7 DEF Announce, Announced, Progress
<1>8. CASE Wait
  BY <1>8 DEF Wait, FlagAtWait
<1>9. CASE WaitAgain
  BY <1>9 DEF WaitAgain
<1>10. CASE TakeTask
  <2>1. UNCHANGED workCallback /\ workCallback = issued
    BY <1>10 DEF TakeTask, RunsTasks, FlagAfterWait, Progress
  <2> QED  BY <1>10, <2>1, TakesNewest
<1>11. CASE Quit
  BY <1>11 DEF Quit
<1>12. CASE TaskReturns
  BY <1>12 DEF TaskReturns
<1>13. CASE Spurious
  BY <1>13 DEF Spurious
<1>14. ASSUME NEW u \in Users, Execute(u) PROVE Kept'
  BY <1>14 DEF Execute, Stored, NotifyTask
<1>15. CASE ShutdownCheck
  BY <1>15 DEF ShutdownCheck
<1>16. CASE ShutdownNotify
  BY <1>16 DEF ShutdownNotify, NotifyTask
<1>17. CASE Join
  BY <1>17 DEF Join
<1> QED
  BY <1>0, <1>1, <1>2, <1>3, <1>4, <1>5, <1>6, <1>7, <1>8, <1>9, <1>10, <1>11,
     <1>12, <1>13, <1>14, <1>15, <1>16, <1>17
     DEF Next, Construct, WorkerStep

LEMMA InvNext == WorkerInv /\ [Next]_vars => WorkerInv'
BY TypeNext, PhasesNext, ProgressNext, KeptNext DEF WorkerInv

LEMMA InvHolds == Spec => []WorkerInv
BY InvInit, InvNext, PTL DEF Spec

-----------------------------------------------------------------------------
(* What it implies *)

\* The worker's variables keep their types.
THEOREM TypeCorrect == Spec => []TypeOK
<1>1. WorkerInv => TypeOK
  BY DEF WorkerInv
<1> QED  BY InvHolds, <1>1, PTL

\* Neither synchronizer misses a notification.
THEOREM NotificationsArrive == Spec => []NoLostWakeup
<1>1. WorkerInv => NoLostWakeup
  BY DEF WorkerInv, Phases, NoLostWakeup
<1> QED  BY InvHolds, <1>1, PTL

\* The newest task ran, is about to run, or the worker was shut down.
THEOREM NewestTaskKept == Spec => []LastTaskKept
<1>1. WorkerInv => LastTaskKept
  BY LenProperties DEF WorkerInv, TypeOK, Kept, LastTaskKept
<1> QED  BY InvHolds, <1>1, PTL

\* isAvailable() is never wrong when it says yes.
THEOREM AvailabilityIsTrue == Spec => []AvailableIsFree
<1>1. WorkerInv => AvailableIsFree
  BY LenProperties
     DEF WorkerInv, TypeOK, Phases, Progress, Kept, Early, AvailableIsFree
<1> QED  BY InvHolds, <1>1, PTL

\* Tasks run at most once each, in the order they were handed over.
THEOREM TasksRunInOrder == Spec => []RunsInOrder
<1>1. WorkerInv => RunsInOrder
  BY LenProperties DEF WorkerInv, TypeOK, Progress, RunsInOrder
<1> QED  BY InvHolds, <1>1, PTL

-----------------------------------------------------------------------------
(* The worker implements the one-place slot *)

LEMMA SlotStep ==
  ASSUME WorkerInv, [Next]_vars
  PROVE  [Slot!SlotNext]_(Slot!slotVars)
<1> USE DEF WorkerInv, TypeOK, Phases, Progress, Pending, setupVars, taskVars,
            Early, Slot!SlotNext, Slot!slotVars
<1> DEFINE slot == IF worker = "woken" /\ taskNotified /\ isRunning
                     THEN workCallback ELSE NoTask
<1>0. CASE UNCHANGED vars
  BY <1>0 DEF vars
<1>1. CASE Announce
  BY <1>1 DEF Announce, Announced, Slot!Open
<1>2. CASE TakeTask
  <2>1. slot = workCallback /\ slot # NoTask /\ slot' = NoTask
    BY <1>2 DEF TakeTask, RunsTasks, FlagAfterWait
  <2>2. ran' = Append(ran, slot) /\ UNCHANGED isRunning
    BY <1>2, <2>1 DEF TakeTask, RunsTasks, FlagAfterWait
  <2> QED  BY <2>1, <2>2 DEF Slot!Take
<1>3. ASSUME NEW u \in Users, Execute(u)
      PROVE  [Slot!SlotNext]_(Slot!slotVars)
  <2>1. UNCHANGED <<ran, isRunning>>
    BY <1>3 DEF Execute, Stored
  <2>2. CASE ~isRunning
    BY <2>1, <2>2
  <2>3. CASE isRunning
    <3>1. worker \in {"asleep", "woken"}
      BY <1>3, <2>3 DEF Execute, Stored, Constructed, WorkerPlaces
    <3>2. slot' = issued + 1 /\ issued + 1 \in Tasks
      BY <1>3, <2>3, <3>1, TasksAssumption DEF Execute, Stored, NotifyTask
    <3> QED  BY <2>1, <2>3, <3>2 DEF Slot!Put
  <2> QED  BY <2>2, <2>3
<1>4. CASE ShutdownNotify
  BY <1>4 DEF ShutdownNotify, NotifyTask, Slot!Close
<1>5. CASE \/ Launch \/ SpinDone \/ SetupWait \/ SetupRecheck \/ SetupSpurious
           \/ LockTask \/ Wait \/ WaitAgain \/ Quit \/ TaskReturns \/ Spurious
           \/ ShutdownCheck \/ Join
  <2>1. UNCHANGED <<ran, isRunning>>
    BY <1>5 DEF Launch, SpinDone, SetupWait, SetupRecheck, SetupSpurious,
                LockTask, Wait, FlagAtWait, WaitAgain, Quit, TaskReturns, Spurious,
                ShutdownCheck, Join
  <2>2. slot' = slot
    BY <1>5 DEF Launch, SpinDone, SetupWait, SetupRecheck, SetupSpurious,
                LockTask, Wait, FlagAtWait, WaitAgain, Quit, TaskReturns, Spurious,
                ShutdownCheck, Join
  <2> QED  BY <2>1, <2>2
<1> QED
  BY <1>0, <1>1, <1>2, <1>3, <1>4, <1>5 DEF Next, Construct, WorkerStep

\* Every step of the two threads is a step of the slot or leaves it alone.
THEOREM ImplementsSlot == Spec => IsTaskSlot
<1>1. Init => Slot!SlotInit
  BY DEF Init, Slot!SlotInit
<1>2. WorkerInv /\ [Next]_vars => [Slot!SlotNext]_(Slot!slotVars)
  BY SlotStep
<1> QED
  BY InvHolds, <1>1, <1>2, PTL DEF Spec, IsTaskSlot, Slot!SlotSafety
=============================================================================
