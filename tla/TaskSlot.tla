------------------------------ MODULE TaskSlot ------------------------------
(***************************************************************************)
(* What the worker thread of the native client promises, without its       *)
(* mutexes, its condition variables and its flags: one place for one task. *)
(* Handing over a task replaces the one still waiting, a waiting task is   *)
(* taken once, and closing drops it.                                       *)
(***************************************************************************)
EXTENDS Sequences

CONSTANTS Tasks, NoTask

VARIABLES
  slot,    \* the task that waits, or NoTask
  open,    \* whether the worker takes tasks
  taken    \* the tasks taken so far, in order

slotVars == <<slot, open, taken>>

SlotInit ==
  /\ slot = NoTask
  /\ open = FALSE
  /\ taken = <<>>

Open ==
  /\ ~open
  /\ open' = TRUE
  /\ UNCHANGED <<slot, taken>>

Put ==
  /\ open
  /\ slot' \in Tasks
  /\ UNCHANGED <<open, taken>>

Take ==
  /\ slot # NoTask
  /\ taken' = Append(taken, slot)
  /\ slot' = NoTask
  /\ UNCHANGED open

Close ==
  /\ open
  /\ open' = FALSE
  /\ slot' = NoTask
  /\ UNCHANGED taken

SlotNext == Open \/ Put \/ Take \/ Close

SlotSafety == SlotInit /\ [][SlotNext]_slotVars

SlotSpec == SlotSafety /\ WF_slotVars(Take)
=============================================================================
