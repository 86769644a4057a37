----------------------------- MODULE JointTrackers -----------------------------
(***************************************************************************)
(* The trackers of joints: whenever the state of the controller arrives,   *)
(* state_cb solves the inverse kinematics of the chain of links to the     *)
(* pointing frame of the current goal and publishes what the joints are to *)
(* do.  One tracker commands a trajectory controller, the other a group of *)
(* joints.                                                                 *)
(*                                                                         *)
(* update() returns FALSE in every tracker: goals end by being preempted   *)
(* or aborted.                                                             *)
(***************************************************************************)
EXTENDS SimpleServer

CONSTANTS
  Frames,       \* the pointing frames that goals name
  NoFrame,
  FrameOf,      \* pointing_frame of each goal
  Unknown,      \* frames to which the robot has no chain of links
  Mismatched    \* frames whose chain has other joints than the controller

ASSUME JointTrackersAssumption ==
  /\ NoFrame \notin Frames
  /\ FrameOf \in [Goals -> Frames]
  /\ Unknown \subseteq Frames /\ Mismatched \subseteq Frames

VARIABLES
  tracker,        \* which of the trackers this is
  pointingFrame,  \* _pointing_frame, for which the solvers were created
  chain,          \* _chain, by the frame that it leads to
  known,          \* a state of the controller has arrived
  ordered,        \* what was published last: the chain it was solved for, or to stop
  mistaken,       \* history: a command was solved for a chain that is not its goal's
  stray           \* history: commands published since a goal was last active, up to 2

jointVars == <<tracker, pointingFrame, chain, known, ordered, mistaken, stray>>

Tracked == Frames \cup {NoFrame}

JointTypeOK ==
  /\ ServerTypeOK
  /\ worker \in [at : {"idle", "active", "update", "abort", "crashed"}, goal : Goals \cup {NoGoal}]
  /\ tracker \in {"trajectory", "group"}
  /\ {pointingFrame, chain} \subseteq Tracked
  /\ ordered \in Tracked \cup {"stop"}
  /\ stray \in 0 .. 2
  /\ {known, mistaken} \subseteq BOOLEAN

NothingPointed ==
  /\ tracker \in {"trajectory", "group"}
  /\ pointingFrame = NoFrame /\ chain = NoFrame
  /\ ordered = NoFrame
  /\ stray = 0
  /\ known = FALSE /\ mistaken = FALSE

JointInit == ServerInit /\ worker = [at |-> "idle", goal |-> NoGoal] /\ NothingPointed

\* Only the tracker of trajectories runs its callbacks on several threads.
Undisturbed == tracker = "trajectory" \/ server.at = "idle"
ServerMayRun == tracker = "trajectory" \/ worker.at = "idle"

-----------------------------------------------------------------------------
JointRequest ==
  /\ ServerMayRun
  /\ \/ \E g \in Goals : RequestGoal(g)
     \/ RequestCancel
  /\ UNCHANGED jointVars

\* preempt_cb; a tracker of trajectories publishes an empty one first.
StopTrajectory_Goes ==
  /\ ServerGoes("preempt", "stopped")
  /\ UNCHANGED <<status, current, worker, jointVars>>
StopTrajectory ==
  /\ ServerGoes("preempt", "stopped")
  /\ ordered' = IF tracker = "trajectory" THEN "stop" ELSE ordered
  /\ UNCHANGED <<status, current, worker, tracker, pointingFrame, chain, known, mistaken, stray>>

JointPreempted == SetPreempted("stopped") /\ UNCHANGED jointVars

JointAccept ==
  /\ AcceptNewGoal("goal")
  /\ stray' = 0
  /\ UNCHANGED <<tracker, pointingFrame, chain, known, ordered, mistaken>>

\* Tracker::init.  The chain is replaced before it is known to be of use;
\* getChain leaves an empty one when there is none.
InitAborts_Returns ==
  /\ ServerReturns("accepted")
  /\ UNCHANGED <<status, current, worker, pointingFrame>>
InitAborts ==
  /\ End(current, "aborted")
  /\ ServerReturns("accepted")
  /\ UNCHANGED <<current, worker, pointingFrame>>

InitChain ==
  LET frame == FrameOf[current]
      noState == tracker = "trajectory" /\ ~ known
      mismatch == tracker = "trajectory" /\ frame \in Mismatched IN
  /\ server.at = "accepted"
  /\ \/ noState /\ InitAborts /\ UNCHANGED chain
     \/ /\ ~ noState /\ frame = pointingFrame
        /\ ServerReturns("accepted")
        /\ UNCHANGED <<status, current, worker, pointingFrame, chain>>
     \/ /\ ~ noState /\ frame # pointingFrame /\ frame \in Unknown
        /\ InitAborts /\ chain' = NoFrame
     \/ /\ ~ noState /\ frame # pointingFrame /\ frame \notin Unknown
        /\ chain' = frame
        /\ IF mismatch THEN InitAborts
           ELSE /\ ServerGoes("accepted", "init")
                /\ UNCHANGED <<status, current, worker, pointingFrame>>
  /\ UNCHANGED <<tracker, known, ordered, mistaken, stray>>

\* The command is laid out, limits are read and solvers created.
InitSolvers ==
  /\ server.at = "init"
  /\ ServerReturns("init")
  /\ pointingFrame' = FrameOf[current]
  /\ UNCHANGED <<status, current, worker, tracker, chain, known, ordered, mistaken, stray>>

JointServer ==
  /\ ServerMayRun
  /\ StopTrajectory \/ JointPreempted \/ JointAccept \/ InitChain \/ InitSolvers

-----------------------------------------------------------------------------
(* state_cb.                                                               *)

\* Tracker::read.  A group needs every joint of its chain in the state.
ReadState ==
  /\ worker.at = "idle"
  /\ Undisturbed
  /\ worker' = [worker EXCEPT !.at = "active"]
  /\ known' = TRUE
  /\ UNCHANGED <<status, current, server, tracker, pointingFrame, chain, ordered, mistaken, stray>>

LookWhetherActive ==
  /\ worker.at = "active"
  /\ worker' = [worker EXCEPT !.at = IF IsActive THEN "update" ELSE "idle",
                              !.goal = IF IsActive THEN current ELSE NoGoal]
  /\ UNCHANGED <<status, current, server, jointVars>>

\* Tracker::update without solvers follows a null pointer.
UpdateWithoutSolvers ==
  /\ worker.at = "update"
  /\ pointingFrame = NoFrame
  /\ worker' = [at |-> "crashed", goal |-> NoGoal]
  /\ UNCHANGED <<status, current, server, jointVars>>

\* A transform is missing; only the tracker of trajectories gives the goal up.
UpdateThrows ==
  /\ worker.at = "update"
  /\ pointingFrame # NoFrame
  /\ worker' = [at |-> IF tracker = "trajectory" THEN "abort" ELSE "idle", goal |-> NoGoal]
  /\ UNCHANGED <<status, current, server, jointVars>>

\* A goal that was aborted has left a chain behind, whose joints are not those of
\* the solvers.  The positions of all joints that were read are copied into an array
\* with one entry for each joint of this chain: past its end if it has fewer of
\* them, and through a null pointer if it is empty.
UpdateOverruns ==
  /\ worker.at = "update"
  /\ pointingFrame # NoFrame
  /\ chain # pointingFrame
  /\ chain \in Mismatched \cup {NoFrame}
  /\ worker' = [at |-> "crashed", goal |-> NoGoal]
  /\ UNCHANGED <<status, current, server, jointVars>>

\* The positions that are found, in however many iterations, are published; for a
\* chain with more joints they may never be (the callback then stays here), or be
\* those of its first joints.
UpdateAndPublish ==
  /\ worker.at = "update"
  /\ pointingFrame # NoFrame
  /\ chain # NoFrame
  /\ worker' = [at |-> "idle", goal |-> NoGoal]
  /\ ordered' = chain
  /\ stray' = IF IsActive THEN 0 ELSE IF stray < 2 THEN stray + 1 ELSE stray
  /\ mistaken' = (mistaken \/ chain # FrameOf[worker.goal])
  /\ UNCHANGED <<status, current, server, tracker, pointingFrame, chain, known>>

AbortTracking ==
  /\ worker.at = "abort"
  /\ worker' = [worker EXCEPT !.at = "idle"]
  /\ SetResult("aborted")
  /\ UNCHANGED <<current, server, jointVars>>

StateCallback ==
  \/ ReadState \/ LookWhetherActive
  \/ UpdateWithoutSolvers \/ UpdateThrows \/ UpdateOverruns \/ UpdateAndPublish
  \/ AbortTracking

JointNext ==
  /\ worker.at # "crashed"
  /\ JointRequest \/ JointServer \/ StateCallback
  /\ NotesOverlap

JointSpec == JointInit /\ [][JointNext]_<<serverVars, jointVars>>

-----------------------------------------------------------------------------
(* Properties.                                                             *)

\* While a goal is pursued the solvers are those for its pointing frame,
\* however many goals before it were refused halfway through their
\* initialisation; state_cb, which begins with a state of the controller,
\* uses them without a check.
ActiveGoalHasSolvers ==
  IsActive /\ server.at = "idle" /\ known => pointingFrame = FrameOf[current]

\* "Stops the controller": a tracker of trajectories that was cancelled has
\* published the stop last (unless a callback ran beside state_cb); and
\* whatever runs beside it, at most one command follows the end of a goal.
OneStragglerAtMost ==
  /\ stray < 2
  /\ tracker = "trajectory" /\ server.at = "idle" /\ ~ overlap =>
       (current # NoGoal /\ status[current] = "preempted" => ordered = "stop")

\* "Get chain from _base_link to pointing_frame": what is published for a
\* goal was solved for the chain to its pointing frame.
SolvedForOwnFrame == mistaken => overlap
=============================================================================
