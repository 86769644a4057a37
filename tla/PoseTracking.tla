----------------------------- MODULE PoseTracking -----------------------------
(***************************************************************************)
(* The pose tracking servo.  A timer loop runs tick(), which moves the     *)
(* robot towards the target pose of the current goal; a pool of threads    *)
(* runs the callbacks of the action server, of topics and of services.     *)
(*                                                                         *)
(* Nothing keeps tick() and the callbacks for goals apart: a step is what  *)
(* either does between two accesses to what they share.                    *)
(***************************************************************************)
EXTENDS SimpleServer, Servo

CONSTANTS
  Terminating,   \* the goals with terminate_on_success
  MinFrames      \* min_nframes_within_tolerance_

ASSUME TrackingAssumption == Terminating \subseteq Goals /\ MinFrames \in Nat \ {0}

VARIABLES
  target,     \* target_pose_ and the input to feed forward: none, recent or old
  late,       \* more than the timeout has passed since stamp_goal_accepted_
  nframes,    \* nframes_within_tolerance_, up to MinFrames
  own,        \* history: frames that were within tolerance under the current goal
  halted,     \* history: an emergency has occurred under the current goal
  foreign     \* history: a goal has succeeded without frames of its own, or was
              \* aborted for an emergency that was not its own

history == <<own, halted, foreign>>
inputVars == <<target, late, nframes>>
trackingVars == <<serverVars, inputVars, history, servoVars>>

Resting == [at |-> "idle", how |-> "timeout", n |-> 0, goal |-> NoGoal]

TrackingTypeOK ==
  /\ ServerTypeOK
  /\ ServoTypeOK
  /\ worker \in [at : {"idle", "begin", "look", "target", "count", "check", "command",
                       "halt", "finish", "crashed"},
                 how : {"succeeded", "emergency", "timeout"},
                 n : 0 .. MinFrames,
                 goal : Goals \cup {NoGoal}]
  /\ target \in {"none", "recent", "old"}
  /\ nframes \in 0 .. MinFrames
  /\ own \in 0 .. MinFrames
  /\ {late, halted, foreign} \subseteq BOOLEAN

NothingTracked ==
  /\ ServoInit
  /\ target = "none"
  /\ nframes = 0
  /\ own = 0
  /\ late = FALSE /\ halted = FALSE /\ foreign = FALSE

TrackingInit == ServerInit /\ worker = Resting /\ NothingTracked

Up == worker.at # "crashed"
TickGoes(here, there) == worker.at = here /\ worker' = [worker EXCEPT !.at = there]
TickEnds(here, how) == worker.at = here /\ worker' = [worker EXCEPT !.at = "halt", !.how = how]

-----------------------------------------------------------------------------
(* The callbacks of the action server.                                     *)

TrackRequest ==
  /\ \/ \E g \in Goals : RequestGoal(g)
     \/ RequestCancel
  /\ UNCHANGED <<inputVars, history, servoVars>>

\* preemptCB: doPostMotionReset, setPreempted.
PreemptStop ==
  /\ ServerGoes("preempt", "stopped")
  /\ PublishHalt
  /\ UNCHANGED <<status, current, worker, inputVars, history>>

TrackPreempted ==
  /\ SetPreempted("stopped")
  /\ UNCHANGED <<inputVars, history, servoVars>>

\* goalCB: status and inputs are reset, then the goal is accepted.
ResetForGoal ==
  /\ ServerGoes("goal", "init")
  /\ ResetServoStatus
  /\ target' = "none"
  /\ UNCHANGED <<status, current, worker, late, nframes, history>>

AcceptGoal_KeepsFrames ==
  /\ AcceptNewGoal("init")
  /\ late' = FALSE
  /\ own' = 0 /\ halted' = FALSE
  /\ UNCHANGED <<target, nframes, foreign, servoVars>>
AcceptGoal ==
  /\ AcceptNewGoal("init")
  /\ late' = FALSE
  /\ nframes' = 0
  /\ own' = 0 /\ halted' = FALSE
  /\ UNCHANGED <<target, foreign, servoVars>>

\* start() resets the filters.
GoalCallbackReturns ==
  /\ ServerReturns("accepted")
  /\ UNCHANGED <<status, current, worker, inputVars, history, servoVars>>

TrackServer == PreemptStop \/ TrackPreempted \/ ResetForGoal \/ AcceptGoal \/ GoalCallbackReturns

-----------------------------------------------------------------------------
(* tick().                                                                 *)

\* Without an active goal tick() only reads the state of the robot.
TickBegin ==
  /\ TickGoes("idle", "begin")
  /\ IsActive
  /\ UNCHANGED <<status, current, server, inputVars, history, servoVars>>

CheckStatus ==
  /\ \/ servoStatus \in Emergencies /\ TickEnds("begin", "emergency")
     \/ servoStatus \notin Emergencies /\ TickGoes("begin", "look")
  /\ UNCHANGED <<status, current, server, inputVars, history, servoVars>>

\* haveRecentTargetPose, haveRecentFeedForwardInput.
HaveRecentInput_IfAny == target # "none"
HaveRecentInput == target = "recent"

LookAtInput ==
  /\ \/ HaveRecentInput /\ TickGoes("look", "target")
     \/ ~ HaveRecentInput /\ late /\ TickEnds("look", "timeout")
     \/ ~ HaveRecentInput /\ ~ late /\ TickGoes("look", "idle")
  /\ UNCHANGED <<status, current, server, inputVars, history, servoVars>>

\* calculatePoseError, told apart by the tolerances.
PoseErrors == {"within", "beyond"}

\* correctTargetPose uses the target pose without looking again whether it
\* is there; the frames are counted on from what is read.
ComputeError ==
  /\ worker.at = "target"
  /\ IF target = "none" THEN TickGoes("target", "crashed")
     ELSE \E error \in PoseErrors :
            worker' = [worker EXCEPT !.at = "count", !.goal = current,
                                     !.n = IF error = "beyond" THEN 0
                                           ELSE IF nframes < MinFrames THEN nframes + 1
                                           ELSE nframes]
  /\ UNCHANGED <<status, current, server, inputVars, history, servoVars>>

CountFrame ==
  /\ worker.at = "count"
  /\ worker' = [Resting EXCEPT !.at = "check"]
  /\ nframes' = worker.n
  /\ own' = IF worker.goal # current THEN own ELSE IF worker.n = 0 THEN 0
            ELSE IF own < MinFrames THEN own + 1 ELSE own
  /\ UNCHANGED <<status, current, server, target, late, halted, foreign, servoVars>>

CheckFrames ==
  /\ \/ current \in Terminating /\ nframes = MinFrames /\ TickEnds("check", "succeeded")
     \/ ~ (current \in Terminating /\ nframes = MinFrames) /\ TickGoes("check", "command")
  /\ UNCHANGED <<status, current, server, inputVars, history, servoVars>>

\* The command of the PID controllers is published; it is zero if the error
\* is.  ff_pose uses its input without looking again whether it is there.
Command ==
  /\ \/ FeedForward /\ target = "none" /\ TickGoes("command", "crashed") /\ UNCHANGED servoVars
     \/ /\ ~ (FeedForward /\ target = "none")
        /\ TickGoes("command", "idle")
        /\ \E cmd \in Commands : PublishTrajectory(cmd)
  /\ halted' = (halted \/ servoStatus' \in Emergencies \ {servoStatus})
  /\ UNCHANGED <<status, current, server, inputVars, own, foreign>>

\* doPostMotionReset, and then setSucceeded or setAborted.
TickStop ==
  /\ TickGoes("halt", "finish")
  /\ PublishHalt
  /\ UNCHANGED <<status, current, server, inputVars, history>>

TickFinish ==
  /\ worker.at = "finish"
  /\ worker' = Resting
  /\ SetResult(IF worker.how = "succeeded" THEN "succeeded" ELSE "aborted")
  /\ foreign' = \/ foreign
                \/ IsActive /\ worker.how = "succeeded" /\ own < MinFrames
                \/ IsActive /\ worker.how = "emergency" /\ ~ halted
  /\ UNCHANGED <<current, server, inputVars, own, halted, servoVars>>

Tick ==
  \/ TickBegin \/ CheckStatus \/ LookAtInput \/ ComputeError \/ CountFrame
  \/ CheckFrames \/ Command \/ TickStop \/ TickFinish

-----------------------------------------------------------------------------
(* Topics, services, time.                                                 *)

Input ==
  /\ \E age \in {"recent", "old"} : target' = age
  /\ UNCHANGED <<late, nframes, servoVars>>

InputAges ==
  /\ target = "recent"
  /\ target' = "old"
  /\ UNCHANGED <<late, nframes, servoVars>>

TimeoutPasses ==
  /\ IsActive
  /\ ~ late
  /\ late' = TRUE
  /\ UNCHANGED <<target, nframes, servoVars>>

Outside ==
  /\ \/ Input \/ InputAges \/ TimeoutPasses
     \/ (CheckCollision \/ ResetServoStatus) /\ UNCHANGED inputVars
  /\ UNCHANGED <<status, current, server, worker, history>>

TrackingNext ==
  /\ Up
  /\ TrackRequest \/ TrackServer \/ Tick \/ Outside
  /\ NotesOverlap

TrackingSpec == TrackingInit /\ [][TrackingNext]_trackingVars

\* The timer loop goes on, callbacks return, and time passes.
TrackingFairness ==
  /\ WF_trackingVars(Up /\ TrackServer /\ NotesOverlap)
  /\ WF_trackingVars(Up /\ Tick /\ NotesOverlap)
  /\ WF_trackingVars(Up /\ TimeoutPasses /\ UNCHANGED <<serverVars, history>>)

-----------------------------------------------------------------------------
(* Properties.                                                             *)

\* "Send a 0 command to Servo to halt arm motion": when no goal is left, the
\* last thing published did not move the robot, whichever way the last goal
\* ended and however many commands to stay had been published before (unless
\* a callback ran beside tick()).
ArmStopsWhenIdle ==
  worker.at = "idle" /\ server.at = "idle" /\ ~ IsActive /\ ~ overlap => sent # "motion"

\* A goal succeeds on frames that were counted for it, and is aborted for an
\* emergency that occurred under it, never for what is left of the goal
\* before (unless a callback ran beside tick()).
OutcomeIsOwn == foreign => overlap

\* A goal for which no recent target pose arrives any more ends, whatever
\* it was doing, if the node stays up.  (Every goal is sent once.)
GoalWithoutInputEnds ==
  [] Up /\ <>[] (target # "recent") => <>[] ~ IsActive
=============================================================================
