----------------------- MODULE PrecisionToolController -----------------------
(***************************************************************************)
(* The controller of a precision gripper: a goal sets the current limit    *)
(* and the position of a motor; it succeeds when the motor is at rest at   *)
(* that position, or has been at rest for stall_timeout.                   *)
(***************************************************************************)
EXTENDS GoalServer

VARIABLES
  dxl,       \* what dynamixel_states_cb has read
  rested,    \* stall_timeout has passed since _last_move_time
  slow,      \* history: that time has passed while commands were sent
  unseen     \* history: goals that succeeded on a reading from before them

precisionVars == <<dxl, rested, slow, unseen>>
precisionAll == <<serverVars, precisionVars>>

PrecisionTypeOK ==
  /\ ServerTypeOK
  /\ states \in {"idle", "enter", "judge", "crashed"}
  /\ dxl \in [moving : BOOLEAN,             \* present_velocity # 0
              pos : Goals \cup {NoGoal},    \* whose position it is, if any
              own : BOOLEAN]                \* history: read under the current goal
  /\ mutex = "states" <=> states = "judge"
  /\ rested \in BOOLEAN
  /\ slow \in BOOLEAN
  /\ unseen \subseteq Goals

PrecisionInit ==
  /\ ServerInit
  /\ dxl = [moving |-> FALSE, pos |-> NoGoal, own |-> FALSE]
  /\ rested = FALSE
  /\ slow = FALSE
  /\ unseen = {}

-----------------------------------------------------------------------------
\* The mutex is taken, the goal before is aborted and _last_move_time starts.
AcceptMove_KeepsTime == LockToAccept /\ UNCHANGED precisionVars
AcceptMove ==
  /\ LockToAccept
  /\ rested' = FALSE
  /\ UNCHANGED <<dxl, slow, unseen>>

\* send_move_command: one register after the other; the goal is aborted if
\* one of the commands fails.
SetGoalCurrent ==
  /\ ActionIs("first")
  /\ SecondCommand \/ AbortAccepted
  /\ UNCHANGED precisionVars

SetGoalPosition ==
  /\ ActionIs("second")
  /\ \/ StartGoal /\ dxl' = [dxl EXCEPT !.own = FALSE]
     \/ AbortAccepted /\ UNCHANGED dxl
  /\ UNCHANGED <<rested, slow, unseen>>

-----------------------------------------------------------------------------
\* dynamixel_states_cb reads velocity and position of the motor and looks
\* for an active goal.
ReceiveMotor ==
  /\ states = "idle"
  /\ IsActive
  /\ \E moving \in BOOLEAN, pos \in Goals \cup {NoGoal} :
       dxl' = [moving |-> moving, pos |-> pos, own |-> TRUE]
  /\ StatesGo("enter")
  /\ UNCHANGED <<goalVars, mutex, action, failed, rested, slow, unseen>>

EnterMotor == LockStates("judge") /\ UNCHANGED precisionVars

CancelMove ==
  /\ states = "judge"
  /\ status[handle] = "canceling"
  /\ EndCurrent("canceled")
  /\ UNCHANGED precisionVars

\* The motor moves: the goal goes on.
StillMoving ==
  /\ states = "judge"
  /\ status[handle] # "canceling"
  /\ dxl.moving
  /\ rested' = FALSE
  /\ Release("idle")
  /\ UNCHANGED <<goalVars, action, failed, dxl, slow, unseen>>

\* The motor is at rest: at the position of the goal, for too long, or else
\* the goal goes on.
Reached == dxl.pos = handle
Stalled == ~ Reached /\ rested

AtRest ==
  /\ states = "judge"
  /\ status[handle] # "canceling"
  /\ ~ dxl.moving
  /\ IF Reached \/ Stalled
       THEN EndCurrent("succeeded")
       ELSE Release("idle") /\ UNCHANGED <<goalVars, action, failed>>
  /\ unseen' = IF Stalled /\ ~ dxl.own THEN unseen \cup {handle} ELSE unseen
  /\ UNCHANGED <<dxl, rested, slow>>

-----------------------------------------------------------------------------
\* stall_timeout passes.  It is long compared with a callback, unless the
\* callback waits for the driver, which may take a second for a command.
StallTimePasses ==
  /\ ~ rested
  /\ states = "idle" \/ mutex = "action"
  /\ rested' = TRUE
  /\ slow' = (slow \/ action.at # "idle")
  /\ UNCHANGED <<serverVars, dxl, unseen>>

PrecisionActionStep ==
  \/ EnterCanceling /\ UNCHANGED precisionVars
  \/ AcceptMove \/ SetGoalCurrent \/ SetGoalPosition

PrecisionStatesStep ==
  \/ ReceiveMotor \/ EnterMotor \/ CancelMove \/ StillMoving \/ AtRest

PrecisionNext ==
  \/ \E g \in Goals : (RequestGoal(g) \/ RequestCancel(g)) /\ UNCHANGED precisionVars
  \/ PrecisionActionStep
  \/ PrecisionStatesStep
  \/ StallTimePasses

PrecisionSpec == PrecisionInit /\ [][PrecisionNext]_precisionAll

-----------------------------------------------------------------------------
(* Properties.                                                             *)

\* A goal succeeds as stalled only if the motor was seen at rest after it
\* had been told to move, and not because it rested under the goal before
\* (unless a command took as long as stall_timeout: _last_move_time is set
\* before the commands are sent).
RestSeenBeforeSuccess == ~ slow => unseen = {}

\* Once the motor rests for good every goal ends, wherever the motor is, if
\* the node stays up.
RestingGoalEnds ==
  [] Up /\ <>[] ~ dxl.moving => <>[] \A g \in Goals : status[g] \notin Active
=============================================================================
