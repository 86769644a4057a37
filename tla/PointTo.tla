------------------------------- MODULE PointTo -------------------------------
(***************************************************************************)
(* The node that points the head to a point, once (action point_to, by a   *)
(* joint motion of another action server) or continuously (action track,   *)
(* by commands to the servos).  Its main thread is a state machine; the    *)
(* servers of the two actions start and stop it through flags, which all   *)
(* of them access under one lock.                                          *)
(*                                                                         *)
(* The main thread copies the flags, releases the lock, and acts on the    *)
(* copies; what else it needs it reads without the lock.                   *)
(*                                                                         *)
(* A goal stands for its target and the frame that is to point there; the  *)
(* robot description has a chain for some of these frames.                 *)
(***************************************************************************)
EXTENDS Naturals

CONSTANTS
  PointGoals, NoPoint,
  Chainless            \* goals for whose frame there is no chain

ASSUME PointToAssumption == NoPoint \notin PointGoals /\ Chainless \subseteq PointGoals

VARIABLES
  fsm,       \* state
  seen,      \* what the main thread has copied, if it is about to act
  point,     \* the server of point_to: where it is, the goal, which goals are left
  asked,     \* point_to_active, _finished, _succeeded, _preempted, _vel_error
  track,     \* the server of track: where it is
  tracked,   \* track_active, track_finished
  newPoint,  \* new_point
  solved,    \* tracker_new_point_ok
  motion,    \* the state of the goal of joint_motion
  servos,    \* what was sent to the servos last
  target,    \* pos, point_frame, pointing_frame, pointing_axis
  jointsHeard, \* the states of the joints have been received
  alg,       \* of the algorithm: tree, pointing_frame, and the frames for which
             \* its chain and its solvers are
  angles,    \* goal_angles: the target they are for, the chain they are of
  overrun    \* history: the goal was accepted when the main thread was still at
             \* work for another one, which had been stopped

flagVars == <<fsm, seen, point, asked, track, tracked, newPoint, solved, motion, servos>>
solvingVars == <<target, jointsHeard, alg, angles>>
pointToVars == <<flagVars, solvingVars, overrun>>

MaybePoint == PointGoals \cup {NoPoint}
Machine == {"waiting", "solving", "motion", "start_tracking", "tracking_target"}

PointToTypeOK ==
  /\ fsm \in Machine
  /\ seen \in [at : {"look", "act", "solve", "watch"}, fsm : Machine, asked : BOOLEAN, finished : BOOLEAN,
               tracked : BOOLEAN, new : BOOLEAN, still : BOOLEAN]
  /\ point \in [at : {"idle", "run", "finished"}, goal : MaybePoint,
                left : SUBSET PointGoals]
  /\ asked \in [active : BOOLEAN, finished : BOOLEAN, succeeded : BOOLEAN,
                preempted : BOOLEAN, still : BOOLEAN]
  /\ track \in {"idle", "run", "finished", "over"}
  /\ tracked \in [active : BOOLEAN, finished : BOOLEAN]
  /\ motion \in {"none", "active", "cancelled", "succeeded", "failed"}
  /\ servos \in {"none", "effort", "stop"}
  /\ {newPoint, solved, jointsHeard, overrun} \subseteq BOOLEAN
  /\ target \in MaybePoint
  /\ alg \in [tree : BOOLEAN, frame : MaybePoint, chain : MaybePoint, solvers : MaybePoint]
  /\ angles \in [target : MaybePoint, chain : MaybePoint]

Unseen == [at |-> "look", fsm |-> "waiting", asked |-> FALSE, finished |-> FALSE,
           tracked |-> FALSE, new |-> FALSE, still |-> FALSE]

PointToInit ==
  /\ fsm = "waiting"
  /\ seen = Unseen
  /\ point = [at |-> "idle", goal |-> NoPoint, left |-> PointGoals]
  /\ asked = [active |-> FALSE, finished |-> FALSE, succeeded |-> FALSE,
              preempted |-> FALSE, still |-> FALSE]
  /\ track = "idle"
  /\ tracked = [active |-> FALSE, finished |-> FALSE]
  /\ motion = "none"
  /\ servos = "none"
  /\ newPoint = FALSE /\ solved = FALSE
  /\ target = NoPoint /\ jointsHeard = FALSE /\ overrun = FALSE
  /\ alg = [tree |-> FALSE, frame |-> NoPoint, chain |-> NoPoint, solvers |-> NoPoint]
  /\ angles = [target |-> NoPoint, chain |-> NoPoint]

-----------------------------------------------------------------------------
(* The server of point_to: start, then stop when it is to be preempted or  *)
(* look whether it has finished.                                           *)

\* point_toStartCallback; without a velocity the goal cannot be executed.
PointStart ==
  /\ point.at = "idle"
  /\ \E g \in point.left, still \in BOOLEAN :
       /\ point' = [at |-> "run", goal |-> g, left |-> point.left \ {g}]
       /\ asked' = IF tracked.active
                     THEN [asked EXCEPT !.active = FALSE, !.finished = TRUE, !.succeeded = FALSE]
                     ELSE [active |-> TRUE, finished |-> FALSE, succeeded |-> FALSE,
                           preempted |-> asked.preempted \/ asked.active,
                           still |-> asked.still \/ still]
       /\ target' = IF tracked.active THEN target ELSE g
  /\ overrun' = (~ asked.active /\ fsm \in {"solving", "motion"})
  /\ UNCHANGED <<fsm, seen, track, tracked, newPoint, solved, motion, servos, jointsHeard, alg, angles>>

\* point_toStopCallback
PointStop ==
  /\ point.at = "run"
  /\ point' = [point EXCEPT !.at = "idle", !.goal = NoPoint]
  /\ asked' = [asked EXCEPT !.active = FALSE, !.finished = TRUE, !.succeeded = FALSE]
  /\ UNCHANGED <<fsm, seen, track, tracked, newPoint, solved, motion, servos, solvingVars, overrun>>

\* point_toIsFinishedCallback, point_toHasSucceededCallback
PointFinished ==
  /\ point.at = "run" /\ asked.finished
  /\ point' = [point EXCEPT !.at = "finished"]
  /\ UNCHANGED <<fsm, seen, asked, track, tracked, newPoint, solved, motion, servos, solvingVars, overrun>>

PointResult ==
  /\ point.at = "finished"
  /\ point' = [point EXCEPT !.at = "idle", !.goal = NoPoint]
  /\ asked' = [asked EXCEPT !.active = FALSE]
  /\ UNCHANGED <<fsm, seen, track, tracked, newPoint, solved, motion, servos, solvingVars, overrun>>

-----------------------------------------------------------------------------
(* The server of track, which is used once, and the topic of its points.   *)

TrackStart ==
  /\ track = "idle"
  /\ track' = "run"
  /\ tracked' = [active |-> ~ asked.active, finished |-> asked.active]
  /\ UNCHANGED <<fsm, seen, point, asked, newPoint, solved, motion, servos, solvingVars, overrun>>

TrackStop ==
  /\ track = "run"
  /\ track' = "over"
  /\ tracked' = [active |-> FALSE, finished |-> TRUE]
  /\ UNCHANGED <<fsm, seen, point, asked, newPoint, solved, motion, servos, solvingVars, overrun>>

TrackFinished ==
  /\ \/ track = "run" /\ tracked.finished /\ track' = "finished" /\ UNCHANGED tracked
     \/ track = "finished" /\ track' = "over" /\ tracked' = [tracked EXCEPT !.active = FALSE]
  /\ UNCHANGED <<fsm, seen, point, asked, newPoint, solved, motion, servos, solvingVars, overrun>>

\* tracker_point_to_callback
NewPoint ==
  /\ tracked.active
  /\ newPoint' = TRUE
  /\ target' \in PointGoals
  /\ UNCHANGED <<fsm, seen, point, asked, track, tracked, solved, motion, servos,
                 jointsHeard, alg, angles, overrun>>

JointStatesCB ==
  /\ jointsHeard' = TRUE
  /\ UNCHANGED <<flagVars, target, alg, angles, overrun>>

\* config_update: another base frame makes the chain of no use, other
\* parameters of the solvers renew these.
ConfigUpdate ==
  /\ \/ alg' = [alg EXCEPT !.frame = NoPoint]
     \/ alg.chain # NoPoint /\ alg' = [alg EXCEPT !.solvers = alg.chain]
  /\ UNCHANGED <<flagVars, target, jointsHeard, angles, overrun>>

\* The server of joint_motion ends the motion.
MotionEnds ==
  /\ motion = "active"
  /\ motion' \in {"succeeded", "failed"}
  /\ UNCHANGED <<fsm, seen, point, asked, track, tracked, newPoint, solved, servos, solvingVars, overrun>>

-----------------------------------------------------------------------------
(* The algorithm.                                                          *)

\* set_chain, add_extra_joints, add_joint_limits, create_solvers.  The frame
\* is remembered before its chain is found, and nothing is tried again.
SetChain(g) ==
  IF g \in Chainless
    THEN [alg EXCEPT !.tree = TRUE, !.frame = g, !.chain = NoPoint]
    ELSE [tree |-> TRUE, frame |-> g, chain |-> g, solvers |-> g]

\* load_chain, set_tree: the tree is made of the robot description, which
\* may not be there yet.
LoadChain(g) ==
  \/ alg.frame # g /\ alg' = SetChain(g)
  \/ alg.frame = g /\ UNCHANGED alg
  \/ ~ alg.tree /\ UNCHANGED alg
Loaded(g) == alg'.tree /\ (alg.frame = g \/ alg'.chain # NoPoint)

\* get_joints, get_inverse_kinematics: there may be no transform, no principal
\* axis, and no solution in as many attempts.
GetJoints ==
  \/ /\ jointsHeard /\ alg.solvers # NoPoint /\ alg.chain # NoPoint
     /\ angles' = [target |-> target, chain |-> alg.chain]
  \/ UNCHANGED angles

-----------------------------------------------------------------------------
(* mainNodeThread.                                                         *)

Look ==
  /\ seen.at = "look"
  /\ seen' = [at |-> "act", fsm |-> fsm, asked |-> asked.active, finished |-> asked.finished,
              tracked |-> tracked.active, new |-> newPoint, still |-> asked.still]
  /\ UNCHANGED <<fsm, point, asked, track, tracked, newPoint, solved, motion, servos, solvingVars, overrun>>

At(place, state) == seen.at = place /\ seen.fsm = state
Acts(state) == At("act", state) /\ seen' = Unseen

Finish(succeeded) ==
  asked' = [asked EXCEPT !.finished = TRUE, !.succeeded = succeeded]

Waiting ==
  /\ Acts("waiting")
  /\ LET tracks == ~ seen.still /\ seen.tracked /\ ~ tracked.finished
         points == ~ seen.still /\ ~ tracks /\ seen.asked /\ ~ seen.finished IN
     /\ fsm' = IF tracks THEN "start_tracking" ELSE IF points THEN "solving" ELSE "waiting"
     /\ asked' = IF seen.still
                   THEN [asked EXCEPT !.still = FALSE, !.succeeded = FALSE, !.finished = TRUE]
                   ELSE asked
  /\ UNCHANGED <<point, track, tracked, newPoint, solved, motion, servos, solvingVars, overrun>>

NotSolved == fsm' = "waiting" /\ Finish(FALSE) /\ seen' = Unseen

\* The chain is loaded for the goal there is then, and solved for the goal
\* there is when that is done.
Solving ==
  /\ At("act", "solving")
  /\ \/ seen.finished /\ fsm' = "waiting" /\ seen' = Unseen /\ UNCHANGED <<asked, alg>>
     \/ /\ ~ seen.finished
        /\ LoadChain(target)
        /\ IF Loaded(target)
             THEN seen' = [seen EXCEPT !.at = "solve"] /\ UNCHANGED <<fsm, asked>>
             ELSE NotSolved
  /\ UNCHANGED <<point, track, tracked, newPoint, solved, motion, servos, target, jointsHeard, angles, overrun>>

\* get_joints, set_joint_motion_goal, joint_motionMakeActionRequest
Solve ==
  /\ At("solve", "solving")
  /\ GetJoints
  /\ \/ /\ angles' = [target |-> target, chain |-> alg.chain]
        /\ seen' = Unseen
        /\ fsm' = "motion" /\ motion' = "active"
        /\ UNCHANGED asked
     \/ NotSolved /\ UNCHANGED motion
  /\ UNCHANGED <<point, track, tracked, newPoint, solved, servos, target, jointsHeard, alg, overrun>>

\* The motion that is no longer wanted is cancelled.
CancelMotion_Forgets ==
  /\ fsm' = "waiting"
  /\ asked' = [asked EXCEPT !.preempted = FALSE]
  /\ UNCHANGED motion
CancelMotion ==
  /\ fsm' = "waiting"
  /\ asked' = [asked EXCEPT !.preempted = FALSE]
  /\ motion' = IF motion = "active" THEN "cancelled" ELSE motion

Moving ==
  /\ At("act", "motion")
  /\ IF seen.finished \/ asked.preempted
       THEN CancelMotion /\ seen' = Unseen
       ELSE seen' = [seen EXCEPT !.at = "watch"] /\ UNCHANGED <<fsm, asked, motion>>
  /\ UNCHANGED <<point, track, tracked, newPoint, solved, servos, solvingVars, overrun>>

WatchMotion ==
  /\ At("watch", "motion")
  /\ seen' = Unseen
  /\ \/ motion = "succeeded" /\ fsm' = "waiting" /\ Finish(TRUE)
     \/ motion = "failed" /\ fsm' = "waiting" /\ Finish(FALSE)
     \/ motion = "active" /\ UNCHANGED <<fsm, asked>>
  /\ UNCHANGED <<point, track, tracked, newPoint, solved, motion, servos, solvingVars, overrun>>

StartTracking ==
  /\ Acts("start_tracking")
  /\ \/ ~ seen.tracked /\ fsm' = "waiting" /\ UNCHANGED <<newPoint, alg>>
     \/ /\ seen.tracked /\ seen.new
        /\ LoadChain(target)
        /\ IF Loaded(target)
             THEN fsm' = "tracking_target" /\ UNCHANGED newPoint
             ELSE newPoint' = FALSE /\ UNCHANGED fsm
     \/ seen.tracked /\ ~ seen.new /\ UNCHANGED <<fsm, newPoint, alg>>
  /\ UNCHANGED <<point, asked, track, tracked, solved, motion, servos, target, jointsHeard, angles, overrun>>

\* stop_servos, get_joints, send_pid_output.  A point that is new may have
\* another frame; the chain stays.
TrackTarget ==
  /\ Acts("tracking_target")
  /\ \/ /\ ~ seen.tracked
        /\ fsm' = "waiting" /\ servos' = "stop"
        /\ UNCHANGED <<newPoint, solved, angles>>
     \/ /\ seen.tracked /\ seen.new
        /\ newPoint' = FALSE /\ servos' = "stop"
        /\ UNCHANGED <<fsm, solved, angles>>
     \/ /\ seen.tracked /\ seen.new
        /\ GetJoints
        /\ angles' = [target |-> target, chain |-> alg.chain]
        /\ newPoint' = FALSE /\ servos' = "effort" /\ solved' = TRUE
        /\ UNCHANGED fsm
     \/ /\ seen.tracked /\ ~ seen.new
        /\ servos' = IF solved THEN "effort" ELSE servos
        /\ UNCHANGED <<fsm, newPoint, solved, angles>>
  /\ UNCHANGED <<point, asked, track, tracked, motion, target, jointsHeard, alg, overrun>>

MainThread ==
  \/ Look \/ Waiting \/ Solving \/ Solve \/ Moving \/ WatchMotion
  \/ StartTracking \/ TrackTarget
PointServer == PointFinished \/ PointResult

PointToNext ==
  \/ PointStart \/ PointStop \/ PointServer
  \/ TrackStart \/ TrackStop \/ TrackFinished \/ NewPoint
  \/ MotionEnds \/ JointStatesCB \/ ConfigUpdate \/ MainThread

PointToSpec == PointToInit /\ [][PointToNext]_pointToVars

-----------------------------------------------------------------------------
(* Properties.                                                             *)

\* Whatever is cancelled or rejected between two looks of the main thread:
\* a joint motion runs only in the state that watches it, so never while the
\* servos are commanded, and when no goal is left the servos have been
\* stopped.  Unless it is about to be cancelled, or the goal was accepted
\* when the main thread was still at work for one that had been stopped, the
\* motion was solved for the target of the goal with the chain of its frame,
\* whichever chains were loaded, tracked with or missing before.
OneMaster ==
  /\ motion = "active" => fsm = "motion"
  /\ servos = "effort" => fsm = "tracking_target"
  /\ motion = "active" /\ ~ asked.finished /\ ~ asked.preempted /\ ~ overrun =>
       angles = [target |-> point.goal, chain |-> point.goal]

\* A goal of point_to is under way.
PointGoalLeft == point.at # "idle"
=============================================================================
