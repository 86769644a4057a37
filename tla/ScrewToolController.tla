------------------------- MODULE ScrewToolController -------------------------
(***************************************************************************)
(* The controller of a screw tool.  Its callbacks run in two threads: the  *)
(* action server calls goal_cb, cancel_cb and handle_accepted_cb one after *)
(* the other, and dynamixel_states_cb has a callback group of its own.     *)
(* handle_accepted_cb holds _current_goal_mtx from its first statement to  *)
(* its last, dynamixel_states_cb takes it after its first look at the      *)
(* goal, cancel_cb does not take it.                                       *)
(*                                                                         *)
(* A step is a command to the motor or what happens between two of them.   *)
(* A command fails if the motor does not answer in time; it may have been  *)
(* carried out nevertheless.                                               *)
(***************************************************************************)
CONSTANTS
  Goals,       \* the goals that clients send
  NoGoal,      \* nullptr
  Tighten,     \* the goals with speed > 0
  Retighten    \* the goals with retighten

ASSUME ScrewAssumption ==
  /\ NoGoal \notin Goals
  /\ Tighten \subseteq Goals
  /\ Retighten \subseteq Goals

VARIABLES
  status,      \* state of each goal handle
  handle,      \* _current_goal_handle
  mutex,       \* who holds _current_goal_mtx
  stage,       \* _stage
  elapsed,     \* the period that is waited for has passed since _start_time
  motor,       \* Moving_Speed and Torque_Enable of the motor
  action,      \* the thread of the action server
  states,      \* the thread of dynamixel_states_cb
  failed,      \* history: a command has failed
  asked,       \* history: goals of which the cancellation was requested
  turned       \* history: how the motor has turned for a goal

goalVars == <<status, handle>>
history == <<failed, asked, turned>>
vars == <<status, handle, mutex, stage, elapsed, motor, action, states,
          failed, asked, turned>>

Active == {"executing", "canceling"}
Statuses == {"none", "succeeded", "aborted", "canceled"} \cup Active
Stages == {"ACTIVE", "LOOSEN", "RETIGHTEN", "DONE"}
Speeds == {"stop", "forward", "backward"}

\* Where the threads are while they hold the mutex.
ActionLocked == {"torque", "speed"}
StatesLocked == {"judge", "stop", "turn", "halt", "relax"}

ScrewTypeOK ==
  /\ status \in [Goals -> Statuses]
  /\ handle \in Goals \cup {NoGoal}
  /\ mutex \in {"free", "action", "states"}
  /\ stage \in Stages
  /\ elapsed \in BOOLEAN
  /\ motor \in [speed : Speeds, torque : BOOLEAN]
  /\ action \in [at : {"idle", "accept", "cancel", "loose", "canceling"} \cup ActionLocked,
                 goal : Goals \cup {NoGoal}]
  /\ states \in [at : {"idle", "enter", "crashed"} \cup StatesLocked, low : BOOLEAN]
  /\ failed \in BOOLEAN
  /\ asked \subseteq Goals
  /\ turned \in [Goals -> SUBSET Speeds]
  /\ mutex = "action" <=> action.at \in ActionLocked
  /\ mutex = "states" <=> states.at \in StatesLocked

ScrewInit ==
  /\ status = [g \in Goals |-> "none"]
  /\ handle = NoGoal
  /\ mutex = "free"
  /\ stage = "DONE"
  /\ elapsed = FALSE
  /\ motor = [speed |-> "stop", torque |-> FALSE]
  /\ action = [at |-> "idle", goal |-> NoGoal]
  /\ states = [at |-> "idle", low |-> FALSE]
  /\ failed = FALSE
  /\ asked = {}
  /\ turned = [g \in Goals |-> {}]

-----------------------------------------------------------------------------
(* Helpers.                                                                *)

Up == states.at # "crashed"

\* target_speed(goal->speed).
SpeedOf(g) == IF g \in Tighten THEN "forward" ELSE "backward"

Turning(m) == IF m.torque THEN m.speed ELSE "stop"

\* send_dxl_command for goal g: m is what the motor is to do, and ok is
\* what the call returns.
Send(g, m, ok) ==
  /\ motor' \in IF ok THEN {m} ELSE {m, motor}
  /\ failed' = (failed \/ ~ ok)
  /\ turned' = [turned EXCEPT ![g] = @ \cup ({Turning(motor')} \ {"stop"})]

MovingSpeed(s) == [motor EXCEPT !.speed = s]
TorqueEnable(on) == [motor EXCEPT !.torque = on]

ActionIs(here) == Up /\ action.at = here

ActionAt(here, there) == ActionIs(here) /\ action' = [action EXCEPT !.at = there]

ActionDone == action' = [at |-> "idle", goal |-> NoGoal]

StatesAt(here, there) == states.at = here /\ states' = [states EXCEPT !.at = there]

-----------------------------------------------------------------------------
(* The thread of the action server.                                        *)

\* goal_cb accepts every goal; the action server makes a handle of it and
\* calls handle_accepted_cb.
RequestGoal(g) ==
  /\ ActionIs("idle")
  /\ status[g] = "none"
  /\ status' = [status EXCEPT ![g] = "executing"]
  /\ action' = [at |-> "accept", goal |-> g]
  /\ UNCHANGED <<handle, mutex, stage, elapsed, motor, states, history>>

\* handle_accepted_cb takes the mutex and aborts an active goal.
LockToAccept_NoAbort ==
  /\ ActionAt("accept", "torque")
  /\ mutex = "free"
  /\ mutex' = "action"
  /\ UNCHANGED <<status, handle, stage, elapsed, motor, states, history>>
LockToAccept ==
  /\ ActionAt("accept", "torque")
  /\ mutex = "free"
  /\ mutex' = "action"
  /\ IF handle # NoGoal /\ status[handle] \in Active
       THEN /\ status' = [status EXCEPT ![handle] = "aborted"]
            /\ handle' = NoGoal
       ELSE UNCHANGED goalVars
  /\ UNCHANGED <<stage, elapsed, motor, states, history>>

\* The new goal is aborted if a command to the motor fails.
AbortAccepted ==
  /\ status' = [status EXCEPT ![action.goal] = "aborted"]
  /\ mutex' = "free"
  /\ ActionDone
  /\ UNCHANGED <<handle, stage, elapsed>>

TorqueOn ==
  /\ ActionIs("torque")
  /\ \/ /\ Send(action.goal, TorqueEnable(TRUE), TRUE)
        /\ ActionAt("torque", "speed")
        /\ UNCHANGED <<goalVars, mutex, stage, elapsed>>
     \/ /\ Send(action.goal, TorqueEnable(TRUE), FALSE)
        /\ AbortAccepted
  /\ UNCHANGED <<states, asked>>

SetSpeed_KeepsStage ==
  /\ ActionIs("speed")
  /\ \/ /\ Send(action.goal, MovingSpeed(SpeedOf(action.goal)), TRUE)
        /\ handle' = action.goal
        /\ elapsed' = FALSE
        /\ mutex' = "free"
        /\ ActionDone
        /\ UNCHANGED <<status, stage>>
     \/ /\ Send(action.goal, MovingSpeed(SpeedOf(action.goal)), FALSE)
        /\ AbortAccepted
  /\ UNCHANGED <<states, asked>>
SetSpeed ==
  /\ ActionIs("speed")
  /\ \/ /\ Send(action.goal, MovingSpeed(SpeedOf(action.goal)), TRUE)
        /\ handle' = action.goal
        /\ stage' = "ACTIVE"
        /\ elapsed' = FALSE
        /\ mutex' = "free"
        /\ ActionDone
        /\ UNCHANGED status
     \/ /\ Send(action.goal, MovingSpeed(SpeedOf(action.goal)), FALSE)
        /\ AbortAccepted
  /\ UNCHANGED <<states, asked>>

\* The action server passes the request to cancel a goal on to cancel_cb if
\* the goal is executing.
RequestCancel(g) ==
  /\ ActionIs("idle")
  /\ status[g] = "executing"
  /\ action' = [at |-> "cancel", goal |-> g]
  /\ asked' = asked \cup {g}
  /\ UNCHANGED <<goalVars, mutex, stage, elapsed, motor, states, failed, turned>>

\* cancel_cb stops the motor and then switches it off; it rejects the
\* request if one of the commands fails.
CancelCommand(here, m, there) ==
  /\ ActionIs(here)
  /\ \/ Send(action.goal, m, TRUE) /\ ActionAt(here, there)
     \/ Send(action.goal, m, FALSE) /\ ActionDone
  /\ UNCHANGED <<goalVars, mutex, stage, elapsed, states, asked>>

StopToCancel == CancelCommand("cancel", MovingSpeed("stop"), "loose")

TorqueOffToCancel_Dropped == CancelCommand("loose", motor, "canceling")
TorqueOffToCancel == CancelCommand("loose", TorqueEnable(FALSE), "canceling")

\* When cancel_cb has accepted, the action server changes the state of the
\* goal, unless it has ended in the meantime.
EnterCanceling ==
  /\ ActionIs("canceling")
  /\ ActionDone
  /\ status' = [status EXCEPT ![action.goal] = IF @ = "executing" THEN "canceling" ELSE @]
  /\ UNCHANGED <<handle, mutex, stage, elapsed, motor, states, history>>

ActionStep ==
  \/ LockToAccept \/ TorqueOn \/ SetSpeed
  \/ StopToCancel \/ TorqueOffToCancel \/ EnterCanceling

-----------------------------------------------------------------------------
(* The thread of dynamixel_states_cb.                                      *)

\* A state of the motor arrives: low says that the speed (to tighten) or
\* the current (to loosen) is below its threshold.  Without an active goal
\* the callback only publishes the status.
Receive ==
  /\ states.at = "idle"
  /\ handle # NoGoal
  /\ status[handle] \in Active
  /\ \E low \in BOOLEAN : states' = [at |-> "enter", low |-> low]
  /\ UNCHANGED <<goalVars, mutex, stage, elapsed, motor, action, history>>

\* The mutex is taken, and the goal ends if it is being cancelled.  The
\* handle is not tested again: a null pointer is dereferenced if there is
\* no current goal any more.
Enter_NoCancel ==
  /\ mutex = "free"
  /\ \/ handle = NoGoal /\ StatesAt("enter", "crashed") /\ UNCHANGED <<goalVars, mutex>>
     \/ /\ handle # NoGoal
        /\ StatesAt("enter", "judge")
        /\ mutex' = "states"
        /\ UNCHANGED goalVars
  /\ UNCHANGED <<stage, elapsed, motor, action, history>>
Enter ==
  /\ mutex = "free"
  /\ \/ handle = NoGoal /\ StatesAt("enter", "crashed") /\ UNCHANGED <<goalVars, mutex>>
     \/ /\ handle # NoGoal
        /\ status[handle] = "canceling"
        /\ StatesAt("enter", "idle")
        /\ status' = [status EXCEPT ![handle] = "canceled"]
        /\ handle' = NoGoal
        /\ UNCHANGED mutex
     \/ /\ handle # NoGoal
        /\ status[handle] # "canceling"
        /\ StatesAt("enter", "judge")
        /\ mutex' = "states"
        /\ UNCHANGED goalVars
  /\ UNCHANGED <<stage, elapsed, motor, action, history>>

\* is_settled: the reading has been low for the whole period.
Settled == states.low /\ elapsed

\* What the stage and the reading ask for.
GoalReached ==
  \/ stage = "DONE"
  \/ Settled /\ handle \notin Tighten
  \/ Settled /\ stage = "ACTIVE" /\ handle \notin Retighten
  \/ Settled /\ stage = "RETIGHTEN"

TimeToTurn ==
  /\ handle \in Tighten
  /\ \/ stage = "ACTIVE" /\ handle \in Retighten /\ Settled
     \/ stage = "LOOSEN" /\ elapsed

\* The stage is examined.  _start_time starts again while the reading is
\* high; when the motor is turned round it is the time of this reading.
Judge ==
  /\ states.at = "judge"
  /\ \/ /\ GoalReached
        /\ StatesAt("judge", "halt")
        /\ stage' = "DONE"
        /\ UNCHANGED <<mutex, elapsed>>
     \/ /\ TimeToTurn
        /\ StatesAt("judge", "stop")
        /\ elapsed' = FALSE
        /\ UNCHANGED <<mutex, stage>>
     \/ /\ ~ GoalReached /\ ~ TimeToTurn
        /\ StatesAt("judge", "idle")
        /\ mutex' = "free"
        /\ elapsed' = (elapsed /\ (states.low \/ (handle \in Tighten /\ stage = "LOOSEN")))
        /\ UNCHANGED stage
  /\ UNCHANGED <<goalVars, motor, action, history>>

\* The commands that follow; whether they fail is not looked at.
StopToTurn ==
  /\ StatesAt("stop", "turn")
  /\ \E ok \in BOOLEAN : Send(handle, MovingSpeed("stop"), ok)
  /\ UNCHANGED <<goalVars, mutex, stage, elapsed, action, asked>>

TurnRound_SameStage ==
  /\ StatesAt("turn", "idle")
  /\ \E ok \in BOOLEAN :
       Send(handle, MovingSpeed(IF stage = "ACTIVE" THEN "backward" ELSE "forward"), ok)
  /\ mutex' = "free"
  /\ UNCHANGED <<goalVars, stage, elapsed, action, asked>>
TurnRound ==
  /\ StatesAt("turn", "idle")
  /\ \E ok \in BOOLEAN :
       Send(handle, MovingSpeed(IF stage = "ACTIVE" THEN "backward" ELSE "forward"), ok)
  /\ stage' = IF stage = "ACTIVE" THEN "LOOSEN" ELSE "RETIGHTEN"
  /\ mutex' = "free"
  /\ UNCHANGED <<goalVars, elapsed, action, asked>>

StopWhenDone ==
  /\ StatesAt("halt", "relax")
  /\ \E ok \in BOOLEAN : Send(handle, MovingSpeed("stop"), ok)
  /\ UNCHANGED <<goalVars, mutex, stage, elapsed, action, asked>>

Succeed ==
  /\ StatesAt("relax", "idle")
  /\ \E ok \in BOOLEAN : Send(handle, TorqueEnable(FALSE), ok)
  /\ status' = [status EXCEPT ![handle] = "succeeded"]
  /\ handle' = NoGoal
  /\ mutex' = "free"
  /\ UNCHANGED <<stage, elapsed, action, asked>>

StatesStep ==
  \/ Receive \/ Enter \/ Judge \/ StopToTurn \/ TurnRound \/ StopWhenDone \/ Succeed

\* Time passes.
Tick ==
  /\ handle # NoGoal
  /\ ~ elapsed
  /\ elapsed' = TRUE
  /\ UNCHANGED <<goalVars, mutex, stage, motor, action, states, history>>

-----------------------------------------------------------------------------
ScrewNext ==
  \/ \E g \in Goals : RequestGoal(g) \/ RequestCancel(g)
  \/ ActionStep
  \/ StatesStep
  \/ Tick

\* The executor goes on with a callback it has begun, the driver goes on
\* publishing the state of the motor, and time passes.  The goals are
\* finitely many, so that a thread which waits for the mutex gets it.
ScrewFairness ==
  /\ WF_vars(ActionStep)
  /\ WF_vars(StatesStep)
  /\ WF_vars(Tick)

ScrewSafe == ScrewInit /\ [][ScrewNext]_vars
ScrewSpec == ScrewSafe /\ ScrewFairness

-----------------------------------------------------------------------------
(* Properties.                                                             *)

\* When no goal is being carried out and no callback is at work, the motor
\* does not turn, unless a command was lost.  This rests on cancel_cb
\* switching the torque off: dynamixel_states_cb may be turning the motor
\* round at the same time, so that it sets the speed again afterwards.
StopsWhenIdle ==
  action.at = "idle" /\ states.at = "idle" /\ handle = NoGoal /\ ~ failed
    => Turning(motor) = "stop"

\* "After tightening fully, the motor loosens the screw and then tightens
\* again": a goal that asks for it and succeeds has turned the motor both
\* ways, if no command was lost and nobody tried to cancel it, whatever
\* was going on when it was accepted.
RetightensBeforeSuccess ==
  \A g \in Tighten \cap Retighten :
    status[g] = "succeeded" /\ ~ failed /\ g \notin asked
      => {"forward", "backward"} \subseteq turned[g]

\* dynamixel_states_cb looks for an active goal, and when it has the mutex
\* it uses that goal: there still is one.
GoalStillThere == Up

\* Goals are accepted, carried out, refused and ended as clients expect,
\* also when commands fail.
ClientView == INSTANCE ActionGoals WITH
  current <- handle,
  waiting <- IF action.at \in {"accept"} \cup ActionLocked THEN action.goal ELSE NoGoal

GoalsSpec == ClientView!GoalsSpec

\* A goal whose cancellation was accepted ends, if the node stays up.
CanceledGoalEnds ==
  [] Up => \A g \in Goals : status[g] = "canceling" ~> status[g] \notin Active

\* If no command is lost and from some time on the readings are low, every
\* goal ends, whatever stage it is in and whatever other goals do.
StalledGoalEnds ==
  [] ~ failed /\ <>[] states.low
    => \A g \in Goals : status[g] = "executing" ~> status[g] \notin Active

=============================================================================
