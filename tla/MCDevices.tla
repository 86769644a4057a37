------------------------------ MODULE MCDevices ------------------------------
(* The nodes that serve devices and images.  They do not interact, so that  *)
(* a behaviour is one of any of them, the others staying as they began, or  *)
(* nothing but an algorithm and its input.                                  *)
EXTENDS SuctionToolController, PrecisionToolController, PointTo, DepthFilter,
        FTSensorBroadcaster, FeatureTracker, SampleTaking, MCAlgorithms

CONSTANTS grasp, pregrasp, release, here, there, arm, bench

MCGoals == {grasp, pregrasp, release}
MCSuck == {grasp, pregrasp}
MCImmediate == {pregrasp}
MCTimed == {grasp, pregrasp}
MCPointGoals == {here, there}
MCChainless == {there}
MCCameras == {arm, bench}
MCHeight == [c \in MCCameras |-> IF c = arm THEN 1 ELSE 2]
MCShifts == {0, 1}

VARIABLE part   \* which of the nodes it is

toolVars == <<suctionAll, precisionVars>>
sensorVars == <<depthFilterVars, ftVars, featureVars>>
vars == <<toolVars, pointToVars, sensorVars, samplingVars, input, part>>

Parts == {"suction", "precision", "point_to", "depth_filter", "ft_sensor", "klt_tracker",
          "camera", "hand_eye", "images", "geometry"}

Init ==
  /\ part \in Parts
  /\ SuctionInit /\ PrecisionInit /\ PointToInit /\ DepthInit
  /\ FTInit /\ FeatureInit /\ SamplingInit
  /\ part # "depth_filter" => ~ bgFile /\ activeCamera = arm
  /\ input = NoInput

\* Moves are alike, so that two are enough for one to follow or preempt the
\* other; suction, with the same server, has a third.
TwoMoves == status'[release] = "none"

Tools ==
  \/ part = "suction" /\ SuctionNext /\ UNCHANGED precisionVars
  \/ part = "precision" /\ PrecisionNext /\ TwoMoves /\ UNCHANGED suctionVars

Sensors ==
  \/ part = "depth_filter" /\ DepthNext /\ UNCHANGED <<ftVars, featureVars>>
  \/ part = "ft_sensor" /\ FTNext /\ UNCHANGED <<depthFilterVars, featureVars>>
  \/ part = "klt_tracker" /\ FeatureNext /\ UNCHANGED <<depthFilterVars, ftVars>>

Calibrators ==
  \/ part = "camera" /\ CameraNext
  \/ part = "hand_eye" /\ HandEyeNext

RunAlgorithm ==
  /\ input = NoInput
  /\ \/ part = "images" /\ input' \in ImageInputs
     \/ part = "geometry" /\ input' \in GeometryInputs
  /\ UNCHANGED <<toolVars, pointToVars, sensorVars, samplingVars>>

Next ==
  /\ UNCHANGED part
  /\ \/ RunAlgorithm
     \/ /\ UNCHANGED input
        /\ \/ Tools /\ UNCHANGED <<pointToVars, sensorVars, samplingVars>>
           \/ part = "point_to" /\ PointToNext /\ UNCHANGED <<toolVars, sensorVars, samplingVars>>
           \/ Sensors /\ UNCHANGED <<toolVars, pointToVars, samplingVars>>
           \/ Calibrators /\ UNCHANGED <<toolVars, pointToVars, sensorVars>>

\* The executor of a controller goes on with a callback it has begun, the
\* drivers go on publishing, and time passes.  The mutex is free between two
\* messages, so that a thread which waits for it gets it; the callbacks are
\* short, so that time passes infinitely often between them.  The threads of
\* point_to go on, every motion ends, and tracking does when it is told to.
Fairness ==
  /\ SF_suctionAll(part = "suction" /\ SuctionActionStep)
  /\ WF_suctionAll(part = "suction" /\ SuctionStatesStep)
  /\ WF_suctionAll(part = "suction" /\ TimeIsUp)
  /\ SF_precisionAll(part = "precision" /\ PrecisionActionStep)
  /\ WF_precisionAll(part = "precision" /\ PrecisionStatesStep)
  /\ SF_precisionAll(part = "precision" /\ StallTimePasses)
  /\ WF_pointToVars(part = "point_to" /\ MainThread)
  /\ WF_pointToVars(PointServer)
  /\ WF_pointToVars(MotionEnds)
  /\ WF_pointToVars(TrackStop \/ TrackFinished)
  /\ SamplingFairness

Spec == Init /\ [][Next]_vars /\ Fairness

DeviceTypesOK ==
  /\ part = "suction" => SuctionTypeOK
  /\ part = "precision" => PrecisionTypeOK
  /\ part = "point_to" => PointToTypeOK
  /\ part = "depth_filter" => DepthTypeOK
  /\ part = "ft_sensor" => FTTypeOK
  /\ part = "klt_tracker" => FeatureTypeOK
  /\ part \in {"camera", "hand_eye"} => SamplingTypeOK

\* Every goal of the devices ends: TimedGoalEnds of suction, RestingGoalEnds
\* of precision tools, every goal of point_to whatever is preempted or fails
\* meanwhile; and every request of the calibrators is answered.
DeviceGoalsEnd ==
  /\ part = "suction" => TimedGoalEnds
  /\ part = "precision" => RestingGoalEnds
  /\ (PointGoalLeft \/ RequestLeft) ~> ~ (PointGoalLeft \/ RequestLeft)
=============================================================================
