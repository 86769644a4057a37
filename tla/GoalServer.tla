------------------------------ MODULE GoalServer ------------------------------
(***************************************************************************)
(* What the suction and the precision tool controllers have in common: an  *)
(* action server that keeps one current goal, and two threads.  goal_cb,   *)
(* cancel_cb and handle_accepted_cb share a callback group, so that one    *)
(* follows the other; the callback for the states of the device has a      *)
(* group of its own.  handle_accepted_cb holds _current_goal_mtx from its  *)
(* first statement to its last; the states callback takes it after a first *)
(* look at the current goal.                                               *)
(*                                                                         *)
(* Both controllers accept every goal and every cancellation.              *)
(***************************************************************************)
CONSTANTS
  Goals,     \* the goals that clients send
  NoGoal     \* nullptr

ASSUME GoalAssumption == NoGoal \notin Goals

VARIABLES
  status,    \* state of each goal handle
  handle,    \* _current_goal_handle
  mutex,     \* who holds _current_goal_mtx
  action,    \* where the thread of the action server is, and with which goal
  states,    \* where the thread of the states callback is
  failed     \* history: a command to the device has failed

goalVars == <<status, handle>>
serverVars == <<status, handle, mutex, action, states, failed>>

Active == {"executing", "canceling"}
Ended == {"succeeded", "aborted", "canceled"}
Statuses == {"none"} \cup Active \cup Ended

\* After the mutex has been taken the action server sends two commands.
Commanding == {"first", "second"}

ServerTypeOK ==
  /\ status \in [Goals -> Statuses]
  /\ handle \in Goals \cup {NoGoal}
  /\ mutex \in {"free", "action", "states"}
  /\ action \in [at : {"idle", "accept", "cancel"} \cup Commanding,
                 goal : Goals \cup {NoGoal}]
  /\ failed \in BOOLEAN
  /\ mutex = "action" <=> action.at \in Commanding
  /\ action.at # "idle" <=> action.goal # NoGoal

ServerInit ==
  /\ status = [g \in Goals |-> "none"]
  /\ handle = NoGoal
  /\ mutex = "free"
  /\ action = [at |-> "idle", goal |-> NoGoal]
  /\ states = "idle"
  /\ failed = FALSE

Up == states # "crashed"

IsActive == handle # NoGoal /\ status[handle] \in Active

ActionIs(here) == Up /\ action.at = here
ActionDone == action' = [at |-> "idle", goal |-> NoGoal]
ActionGoes(there) == action' = [action EXCEPT !.at = there]
StatesGo(there) == states' = there

End(g, how) == status' = [status EXCEPT ![g] = how]

-----------------------------------------------------------------------------
(* The thread of the action server.                                        *)

RequestGoal(g) ==
  /\ ActionIs("idle")
  /\ status[g] = "none"
  /\ End(g, "executing")
  /\ action' = [at |-> "accept", goal |-> g]
  /\ UNCHANGED <<handle, mutex, states, failed>>

\* handle_accepted_cb takes the mutex and aborts the goal before.
LockToAccept_KeepsHandle ==
  /\ ActionIs("accept")
  /\ mutex = "free"
  /\ mutex' = "action"
  /\ ActionGoes("first")
  /\ IF IsActive THEN End(handle, "aborted") ELSE UNCHANGED status
  /\ UNCHANGED <<handle, states, failed>>
LockToAccept ==
  /\ ActionIs("accept")
  /\ mutex = "free"
  /\ mutex' = "action"
  /\ ActionGoes("first")
  /\ IF IsActive
       THEN End(handle, "aborted") /\ handle' = NoGoal
       ELSE UNCHANGED goalVars
  /\ UNCHANGED <<states, failed>>

\* A command of handle_accepted_cb has failed.
AbortAccepted ==
  /\ End(action.goal, "aborted")
  /\ failed' = TRUE
  /\ mutex' = "free"
  /\ ActionDone
  /\ UNCHANGED <<handle, states>>

SecondCommand ==
  /\ ActionGoes("second")
  /\ UNCHANGED <<goalVars, mutex, states, failed>>

\* The goal becomes the current one and handle_accepted_cb returns.
StartGoal ==
  /\ handle' = action.goal
  /\ mutex' = "free"
  /\ ActionDone
  /\ UNCHANGED <<status, states, failed>>

\* The action server passes a request to cancel on to cancel_cb if the goal
\* is executing, and when that has accepted it changes the state of the
\* goal, unless the goal has ended in the meantime.
RequestCancel(g) ==
  /\ ActionIs("idle")
  /\ status[g] = "executing"
  /\ action' = [at |-> "cancel", goal |-> g]
  /\ UNCHANGED <<goalVars, mutex, states, failed>>

EnterCanceling ==
  /\ ActionIs("cancel")
  /\ ActionDone
  /\ End(action.goal, IF status[action.goal] = "executing" THEN "canceling" ELSE status[action.goal])
  /\ UNCHANGED <<handle, mutex, states, failed>>

-----------------------------------------------------------------------------
(* The thread of the states callback.                                      *)

\* The callback has the mutex.  It does not test the current goal again: if
\* that is gone, a null pointer is dereferenced.
LockStates_Unlocked(there) ==
  /\ states = "enter"
  /\ StatesGo(IF handle = NoGoal THEN "crashed" ELSE there)
  /\ UNCHANGED <<goalVars, mutex, action, failed>>
LockStates(there) ==
  /\ states = "enter"
  /\ mutex = "free"
  /\ IF handle = NoGoal
       THEN StatesGo("crashed") /\ UNCHANGED mutex
       ELSE StatesGo(there) /\ mutex' = "states"
  /\ UNCHANGED <<goalVars, action, failed>>

Release(there) ==
  /\ mutex' = "free"
  /\ StatesGo(there)

\* The current goal ends and the callback returns.
EndCurrent(how) ==
  /\ End(handle, how)
  /\ handle' = NoGoal
  /\ Release("idle")
  /\ UNCHANGED <<action, failed>>

-----------------------------------------------------------------------------
\* What clients see of the goals.
ClientView == INSTANCE ActionGoals WITH
  current <- handle,
  waiting <- IF action.at \in {"accept"} \cup Commanding THEN action.goal ELSE NoGoal

\* Goals are accepted, carried out, refused, preempted and cancelled as
\* clients expect, each ends once, and in a way that its state allows, also
\* when commands to the device fail.
ToolGoalsSpec == ClientView!GoalsSpec
=============================================================================
