-------------------------------- MODULE MCArms --------------------------------
(* What moves the arms: the nodes that track, with a servo and with joints, *)
(* and the servers of the tasks for tools and for bins.  The nodes share    *)
(* only their action server, and the tasks nothing, so that a behaviour is  *)
(* one of any of them.                                                      *)
EXTENDS PoseTracking, JointTrackers, ToolTasks, BinTasks, TLC

CONSTANTS reach, follow, again, away, hand, camera, nowhere, driver, holder, m3, left, right

MCGoals == {reach, follow, again, away}
MCTerminating == {reach}
MCFrames == {hand, camera, nowhere}
MCFrameOf == (reach :> hand) @@ (follow :> camera) @@ (again :> hand) @@ (away :> nowhere)
MCUnknown == {nowhere}
MCMismatched == {camera}
MCToolNames == {driver, holder}
MCScrewTypes == {m3}
MCScrewTool == m3 :> driver
MCPlaces == {left, right}

VARIABLE part   \* which of them it is

vars == <<trackingVars, jointVars, toolTaskVars, binVars, part>>

Init ==
  /\ part \in {"pose", "joint", "tools", "bin"}
  /\ ServerInit
  /\ IF part = "joint" THEN JointInit ELSE TrackingInit
  /\ NothingTracked /\ (part # "pose" => checkType = "stop_distance")
  /\ NothingPointed /\ (part # "joint" => tracker = "group")
  /\ ToolTaskInit /\ BinInit

\* Two goals are enough for the servo: one that ends when it is reached and
\* one that goes on.
TwoGoals == status'[again] = "none" /\ status'[away] = "none"

Tasks ==
  \/ part = "tools" /\ ToolTaskNext /\ UNCHANGED binVars
  \/ part = "bin" /\ BinNext /\ UNCHANGED toolTaskVars

Next ==
  /\ UNCHANGED part
  /\ \/ /\ part = "pose"
        /\ TrackingNext /\ TwoGoals
        /\ UNCHANGED <<jointVars, toolTaskVars, binVars>>
     \/ /\ part = "joint"
        /\ JointNext
        /\ UNCHANGED <<inputVars, history, servoVars, toolTaskVars, binVars>>
     \/ Tasks /\ UNCHANGED <<trackingVars, jointVars>>

Spec ==
  /\ Init /\ [][Next]_vars
  /\ part = "pose" => TrackingFairness
  /\ BinFairness

ArmTypesOK ==
  /\ part = "pose" => TrackingTypeOK
  /\ part = "joint" => JointTypeOK
  /\ part = "tools" => ToolTaskTypeOK
  /\ part = "bin" => BinTypeOK



\* GoalWithoutInputEnds, of the servo, and BinGoalEnds, of the task for bins.
ArmGoalsEnd ==
  /\ part = "pose" => GoalWithoutInputEnds
  /\ part = "bin" => BinGoalEnds
=============================================================================
