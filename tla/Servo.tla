-------------------------------- MODULE Servo --------------------------------
(***************************************************************************)
(* The base of the servos: it turns a command into a trajectory of one     *)
(* point, slowed down or stopped near collisions, singularities and joint  *)
(* limits, and publishes it.  A timer checks for collisions meanwhile.     *)
(*                                                                         *)
(* Velocities are reduced to their scale: full, reduced or zero.           *)
(***************************************************************************)
EXTENDS Naturals

CONSTANTS
  MaxHalts,      \* num_outgoing_halt_msgs_to_publish (0: no limit)
  FeedForward    \* whether ff_pose is given

ASSUME ServoAssumption == MaxHalts \in Nat /\ FeedForward \in BOOLEAN

VARIABLES
  servoStatus,   \* servo_status_
  halts,         \* invalid_command_count_, which stops growing when it has no more effect
  sent,          \* the trajectory that was published last
  scale,         \* collision_velocity_scale_
  checkType      \* collision_check_type_

servoVars == <<servoStatus, halts, sent, scale, checkType>>

Emergencies == {"HALT_FOR_SINGULARITY", "HALT_FOR_COLLISION", "JOINT_BOUND"}
Codes == {"NO_WARNING", "DECELERATE_FOR_SINGULARITY", "DECELERATE_FOR_COLLISION"} \cup Emergencies
Scales == {"full", "reduced", "zero"}

ServoTypeOK ==
  /\ servoStatus \in Codes
  /\ halts \in 0 .. MaxHalts + 1
  /\ sent \in {"none", "motion", "still", "halt"}
  /\ scale \in Scales
  /\ checkType \in {"threshold_distance", "stop_distance"}

ServoInit ==
  /\ servoStatus = "NO_WARNING"
  /\ halts = 0
  /\ sent = "none"
  /\ scale = "full"
  /\ checkType \in {"threshold_distance", "stop_distance"}

-----------------------------------------------------------------------------
(* The collision check.                                                    *)

\* publishWorstCaseStopTime: the robot is slow enough to stop in time, or not.
MayStop == BOOLEAN

\* What is published in contact, below a threshold, and when the nearest
\* object approaches (as seen since the last check) faster than the robot
\* can stop.
ScaleFor(contact, near, approaches, stops) ==
  IF contact THEN "zero"
  ELSE IF checkType = "threshold_distance" THEN IF near THEN "reduced" ELSE "full"
  ELSE IF approaches /\ (near \/ ~ stops) THEN "zero" ELSE "full"

\* collisionVelocityScaleCB
ReceiveScale(scales) == scale' \in scales

\* CollisionCheck::run, and the callback that its message leads to.
CheckCollision ==
  /\ ReceiveScale({ScaleFor(contact, near, approaches, stops) :
                     contact, near, approaches \in BOOLEAN, stops \in MayStop})
  /\ UNCHANGED <<servoStatus, halts, sent, checkType>>

-----------------------------------------------------------------------------
(* publishTrajectory.                                                      *)

\* Commands are told apart by what isValid looks at.
Commands == {"motion", "zero", "nan"}
IsValid(cmd) == cmd \notin {"zero", "nan"}

\* Where the condition of the Jacobian is, between the two thresholds or at
\* one of them, when the command leads towards a singularity.
Conditions == {"away", "below", "between", "at_hard_stop", "beyond"}

\* velocityScalingFactorForSingularity.  At the threshold itself neither
\* branch is taken.
SingularityScale(condition) ==
  CASE condition = "between" -> "reduced"
    [] condition = "beyond" -> "zero"
    [] OTHER -> "full"
SingularityStatus(condition) ==
  CASE condition = "between" -> "DECELERATE_FOR_SINGULARITY"
    [] condition = "beyond" -> "HALT_FOR_SINGULARITY"
    [] OTHER -> servoStatus

\* applyVelocityScaling multiplies by both scales, but the status for the
\* collision replaces that for the singularity.
DeltaAfter(condition) ==
  IF scale = "zero" \/ SingularityScale(condition) = "zero" THEN "zero" ELSE "motion"
StatusAfterScaling(condition) ==
  CASE scale = "zero" -> "HALT_FOR_COLLISION"
    [] scale = "reduced" -> "DECELERATE_FOR_COLLISION"
    [] OTHER -> SingularityStatus(condition)

\* checkPositionLimits: a joint that does not move is within its limits.
MayBeWithinLimits(delta) == IF delta = "zero" THEN {TRUE} ELSE BOOLEAN

\* ff_pose: no positions are fed forward if the inverse kinematics has no
\* solution.
Forwards == {FALSE, FeedForward}

\* setPointsToTrajectory.  Positions that were fed forward are not scaled.
PointsOf(delta, forward) == IF delta = "zero" /\ ~ forward THEN "still" ELSE "motion"

\* convertDeltasToTrajectory
ConvertDeltas(condition, delta, forward, within) ==
  IF within
    THEN sent' = PointsOf(delta, forward) /\ servoStatus' = StatusAfterScaling(condition)
    ELSE sent' = "halt" /\ servoStatus' = "JOINT_BOUND"

SetTrajectory ==
  \E condition \in Conditions, forward \in Forwards :
    LET delta == DeltaAfter(condition) IN
    \E within \in MayBeWithinLimits(delta) : ConvertDeltas(condition, delta, forward, within)

\* A valid command.
PublishCommand_KeepsCount ==
  /\ SetTrajectory
  /\ UNCHANGED <<halts, scale, checkType>>
PublishCommand ==
  /\ SetTrajectory
  /\ halts' = 0
  /\ UNCHANGED <<scale, checkType>>

\* Any other command makes the robot stay where it is; this is published at
\* most MaxHalts times in a row.
PublishHalt_Counts ==
  /\ halts' = halts + 1
  /\ sent' = IF MaxHalts = 0 \/ halts' <= MaxHalts THEN "halt" ELSE sent
  /\ UNCHANGED <<servoStatus, scale, checkType>>
PublishHalt ==
  /\ halts' = IF halts <= MaxHalts THEN halts + 1 ELSE halts
  /\ sent' = IF MaxHalts = 0 \/ halts' <= MaxHalts THEN "halt" ELSE sent
  /\ UNCHANGED <<servoStatus, scale, checkType>>

PublishTrajectory(cmd) == IF IsValid(cmd) THEN PublishCommand ELSE PublishHalt

\* goalCB and the service reset_servo_status.
ResetServoStatus ==
  /\ servoStatus' = "NO_WARNING"
  /\ UNCHANGED <<halts, sent, scale, checkType>>
=============================================================================
