------------------------------- MODULE BinTasks -------------------------------
(***************************************************************************)
(* A robot empties a bin: it looks for places to pick at, with coarse      *)
(* parameters and, when those fail, with fine ones, tries them, and places *)
(* what it has picked while it looks again.  When the fine ones fail, too, *)
(* an operator is asked where to sweep the part to.                        *)
(*                                                                         *)
(* The goals that are sent to the pick-or-place task succeed or fail as    *)
(* PickOrPlace says; only the one that places a part is not waited for at  *)
(* once.  The server executes one goal of the robot at a time.             *)
(***************************************************************************)
EXTENDS Integers, FiniteSets

CONSTANTS
  Places,         \* where a part may be picked, no two close to each other
  MaxAttempts,    \* max_attempts of the goals
  MaxPicks,       \* bound on the parts that a goal finds in the bin
  MaxRecoveries   \* bound on the recoveries during a goal

ASSUME BinTasksAssumption ==
  /\ MaxAttempts \in Nat \ {0}
  /\ {MaxPicks, MaxRecoveries} \subseteq Nat

VARIABLES
  bin,        \* the goal, see NoBinTask
  holding,    \* whether there is a part in the gripper
  placing,    \* the goal that places it
  pointing,   \* the operator's message, whether it answers and which request
  swept,      \* what a sweep follows: an answer to its own request, or an old one
  leftover,   \* history: a goal ended with a part in the gripper or on its way
  unasked     \* history: the operator answered when nothing was asked

binVars == <<bin, holding, placing, pointing, swept, leftover, unasked>>

\* at: the stage; all, eye: pick_all, and whether the camera is on the robot;
\* fine: fine_parameters; poses: pick_poses, or none as long as known is FALSE;
\* fails: fail_poses; tries: nattempts
NoBinTask ==
  [at |-> "idle", all |-> FALSE, eye |-> FALSE, fine |-> FALSE, known |-> FALSE,
   poses |-> {}, fails |-> {}, tries |-> 0, picks |-> 0, recoveries |-> 0, cancelled |-> FALSE]
BinMotions == {"go_home", "move_camera", "trying", "go_to_sweep_ready", "sweep", "go_back_home"}
BinStages == BinMotions \cup {"idle", "pick_tool", "loop", "search", "pick", "place", "search_next",
                           "approaching", "wait", "request_help"}

BinTypeOK ==
  /\ bin \in [at : BinStages, all : BOOLEAN, eye : BOOLEAN, fine : BOOLEAN, known : BOOLEAN,
              poses : SUBSET Places, fails : SUBSET Places, tries : 0 .. MaxAttempts,
              picks : 0 .. MaxPicks, recoveries : 0 .. MaxRecoveries, cancelled : BOOLEAN]
  /\ {holding, leftover, unasked} \subseteq BOOLEAN
  /\ placing \in {"none", "begun", "approached", "done", "failed", "canceled"}
  /\ pointing \in [of : {"none", "own", "old"}, answers : BOOLEAN]
  /\ swept \in {"none", "own", "old"}

BinInit ==
  /\ bin = NoBinTask
  /\ holding = FALSE /\ placing = "none"
  /\ pointing = [of |-> "none", answers |-> FALSE] /\ swept = "none"
  /\ leftover = FALSE /\ unasked = FALSE

\* The place goal has an end still to come.
OnItsWay(p) == p \in {"begun", "approached"}

-----------------------------------------------------------------------------
(* The goal.                                                               *)

BinAt(stage) == bin.at = stage
BinGoes(stage) == bin' = [bin EXCEPT !.at = stage]
EndBinTask ==
  /\ bin' = NoBinTask
  /\ placing' = IF OnItsWay(placing) THEN placing ELSE "none"
  /\ leftover' = (leftover \/ holding \/ OnItsWay(placing))

RequestBin ==
  /\ BinAt("idle")
  /\ \E stage \in {"pick_tool", "go_home"}, all, eye \in BOOLEAN :
       bin' = [NoBinTask EXCEPT !.at = stage, !.all = all, !.eye = eye]
  /\ UNCHANGED <<holding, placing, pointing, swept, leftover, unasked>>

\* Whoever cancels cancels the pick-or-place goal that the stage is for.  A recovery
\* has a goal of its own.
CancelBin ==
  /\ bin.at \notin {"idle", "go_to_sweep_ready", "request_help", "sweep"} /\ ~ bin.cancelled
  /\ bin' = [bin EXCEPT !.cancelled = TRUE]
  /\ \/ /\ OnItsWay(placing) /\ placing' = "canceled"
        /\ holding' \in {holding, FALSE}
     \/ ~ OnItsWay(placing) /\ UNCHANGED <<placing, holding>>
  /\ UNCHANGED <<pointing, swept, leftover, unasked>>

\* A stage is entered if the goal is not cancelled, and raises an error if what it
\* is for fails; then the next one follows.
Stage(stage, next) ==
  /\ BinAt(stage)
  /\ \/ ~ bin.cancelled /\ BinGoes(next) /\ UNCHANGED <<placing, leftover>>
     \/ EndBinTask
  /\ UNCHANGED <<holding, pointing, swept, unasked>>

AtLoop ==
  /\ BinAt("loop")
  /\ BinGoes(IF bin.known THEN "pick" ELSE IF bin.eye THEN "move_camera" ELSE "search")
  /\ UNCHANGED <<holding, placing, pointing, swept, leftover, unasked>>

\* A search in the stage 'place' enters none.
Search(stage, next) ==
  /\ BinAt(stage)
  /\ \/ /\ stage = "search" => ~ bin.cancelled
        /\ \E found \in SUBSET Places :
             bin' = [bin EXCEPT !.at = next, !.known = TRUE, !.poses = found]
        /\ UNCHANGED <<placing, leftover>>
     \/ EndBinTask
  /\ UNCHANGED <<holding, pointing, swept, unasked>>

-----------------------------------------------------------------------------
(* Picking: _attempt_pick, and what follows from its status.               *)

EnterPick ==
  /\ BinAt("pick")
  /\ IF bin.cancelled
       THEN EndBinTask
       ELSE bin' = [bin EXCEPT !.at = "trying", !.tries = 0] /\ UNCHANGED <<placing, leftover>>
  /\ UNCHANGED <<holding, pointing, swept, unasked>>

\* The end of the loop's body, if nothing is placed
Again(b) == [b EXCEPT !.at = IF bin.all THEN "loop" ELSE "go_back_home"]
Anew(b, fine) == [b EXCEPT !.fine = fine, !.known = FALSE, !.poses = {}, !.fails = {}]

\* With the coarse parameters, the fine ones come next.
UseFine == bin' = Again(Anew(bin, TRUE)) /\ UNCHANGED <<placing, leftover>>

\* An error at 'pick/verify' is recovered from, if the error handler manages to.
PickAborted(stage) ==
  IF ~ bin.fine
    THEN UseFine
    ELSE \/ /\ stage = "verify" /\ bin.recoveries < MaxRecoveries
            /\ bin' = [Anew(bin, FALSE) EXCEPT !.at = "go_to_sweep_ready", !.recoveries = @ + 1]
            /\ UNCHANGED <<placing, leftover>>
         \/ EndBinTask

\* The poses are tried in the order in which they were found, but for those near to
\* one where it failed.
TryPose(p) ==
  /\ BinAt("trying")
  /\ p \in bin.poses \ bin.fails
  /\ \/ /\ bin.picks < MaxPicks
        /\ holding' = TRUE
        /\ bin' = [bin EXCEPT !.at = "place", !.picks = @ + 1]
        /\ UNCHANGED <<placing, leftover>>
     \/ /\ bin' = [bin EXCEPT !.fails = @ \cup {p}]        \* 'move', 'approach'
        /\ UNCHANGED <<holding, placing, leftover>>
     \/ PickAborted("depart") /\ UNCHANGED holding
     \/ /\ bin.tries + 1 = (IF bin.fine THEN 1 ELSE MaxAttempts)
        /\ PickAborted("verify")
        /\ UNCHANGED holding
     \/ /\ bin.tries + 1 # (IF bin.fine THEN 1 ELSE MaxAttempts)
        /\ bin' = [bin EXCEPT !.fails = @ \cup {p}, !.tries = @ + 1]
        /\ UNCHANGED <<holding, placing, leftover>>
     \/ /\ bin.cancelled                                   \* CANCELED: not placed
        /\ holding' \in BOOLEAN
        /\ bin' = NoBinTask
        /\ leftover' = (leftover \/ holding')
        /\ UNCHANGED placing
  /\ UNCHANGED <<pointing, swept, unasked>>

\* STATUS_UNKNOWN
NoPoseLeft_CoarseToo ==
  /\ BinAt("trying")
  /\ bin.poses \subseteq bin.fails
  /\ BinGoes("go_back_home") /\ UNCHANGED <<placing, leftover>>
  /\ UNCHANGED <<holding, pointing, swept, unasked>>
NoPoseLeft ==
  /\ BinAt("trying")
  /\ bin.poses \subseteq bin.fails
  /\ IF bin.fine
       THEN BinGoes("go_back_home") /\ UNCHANGED <<placing, leftover>>
       ELSE UseFine
  /\ UNCHANGED <<holding, pointing, swept, unasked>>

-----------------------------------------------------------------------------
(* Placing: the part is on its way while the next ones are looked for.     *)

BeginPlace ==
  /\ BinAt("place")
  /\ IF bin.cancelled
       THEN EndBinTask
       ELSE /\ placing' = "begun"
            /\ BinGoes(IF bin.eye THEN "wait" ELSE "approaching")
            /\ UNCHANGED leftover
  /\ UNCHANGED <<holding, pointing, swept, unasked>>

\* The pick-or-place task goes on by itself.
PlaceGoesOn ==
  /\ OnItsWay(placing)
  /\ \/ placing = "begun" /\ placing' = "approached" /\ UNCHANGED holding
     \/ placing = "approached" /\ placing' = "done" /\ holding' = FALSE
     \/ placing' = "failed" /\ holding' \in {holding, FALSE}
  /\ UNCHANGED <<bin, pointing, swept, leftover, unasked>>

\* pick_or_place_wait with a target stage
PlaceApproaches ==
  /\ BinAt("approaching")
  /\ placing # "begun"
  /\ BinGoes("search_next")
  /\ UNCHANGED <<holding, placing, pointing, swept, leftover, unasked>>

\* It is not looked at whether the goal was cancelled.
AwaitPlace_NotDone ==
  /\ BinAt("wait")
  /\ placing # "begun"
  /\ IF placing = "failed"
       THEN EndBinTask
       ELSE /\ placing' = placing
            /\ bin' = Again([bin EXCEPT !.known = ~ bin.eye /\ @])
            /\ UNCHANGED leftover
  /\ UNCHANGED <<holding, pointing, swept, unasked>>
AwaitPlace ==
  /\ BinAt("wait")
  /\ ~ OnItsWay(placing)
  /\ IF placing = "failed"
       THEN EndBinTask
       ELSE /\ placing' = "none"
            /\ bin' = Again([bin EXCEPT !.known = ~ bin.eye /\ @])
            /\ UNCHANGED leftover
  /\ UNCHANGED <<holding, pointing, swept, unasked>>

-----------------------------------------------------------------------------
(* ErrorRecoveryBySweepTaskServer, RequestHelpTaskServer, SweepTaskServer. *)

\* Someone points: to nothing, or in a direction.
Point(answers) ==
  /\ pointing' = [of |-> IF BinAt("request_help") THEN "own" ELSE "old", answers |-> answers]
  /\ unasked' = (unasked \/ ~ BinAt("request_help"))
  /\ UNCHANGED <<bin, holding, placing, swept, leftover>>

\* What has been pointed to before does not answer the next request.
ReadyToSweep ==
  /\ BinAt("go_to_sweep_ready")
  /\ \/ /\ BinGoes("request_help")
        /\ pointing' = [pointing EXCEPT !.of = IF @ = "own" THEN "old" ELSE @]
        /\ UNCHANGED <<placing, leftover>>
     \/ EndBinTask /\ UNCHANGED pointing
  /\ UNCHANGED <<holding, swept, unasked>>

\* The message is taken; what does not answer is waited for again.
Answered_Kept ==
  /\ BinAt("request_help")
  /\ pointing.of # "none"
  /\ UNCHANGED pointing
  /\ IF pointing.answers
       THEN BinGoes("sweep") /\ swept' = pointing.of
       ELSE UNCHANGED <<bin, swept>>
  /\ UNCHANGED <<holding, placing, leftover, unasked>>
Answered ==
  /\ BinAt("request_help")
  /\ pointing.of # "none"
  /\ pointing' = [of |-> "none", answers |-> FALSE]
  /\ IF pointing.answers
       THEN BinGoes("sweep") /\ swept' = pointing.of
       ELSE UNCHANGED <<bin, swept>>
  /\ UNCHANGED <<holding, placing, leftover, unasked>>

\* 'move', 'approach', 'sweep' and 'depart'
Sweep ==
  /\ BinAt("sweep")
  /\ \/ bin' = Again(bin) /\ UNCHANGED <<placing, leftover>>
     \/ EndBinTask
  /\ swept' = "none"
  /\ UNCHANGED <<holding, pointing, unasked>>

-----------------------------------------------------------------------------
GoBackHome ==
  /\ BinAt("go_back_home")
  /\ EndBinTask
  /\ UNCHANGED <<holding, pointing, swept, unasked>>

BinStep ==
  \/ Stage("pick_tool", "go_home") \/ Stage("go_home", "loop") \/ Stage("move_camera", "search")
  \/ AtLoop \/ Search("search", "pick") \/ Search("search_next", "wait") \/ EnterPick
  \/ (\E p \in Places : TryPose(p)) \/ NoPoseLeft
  \/ BeginPlace \/ PlaceApproaches \/ AwaitPlace
  \/ ReadyToSweep \/ Answered \/ Sweep \/ GoBackHome

BinNext == RequestBin \/ CancelBin \/ BinStep \/ PlaceGoesOn \/ (\E answers \in BOOLEAN : Point(answers))

BinSpec == BinInit /\ [][BinNext]_binVars

-----------------------------------------------------------------------------
\* A goal to empty a bin succeeds only if the last search was one with fine
\* parameters and none of the poses that it found could be reached.
BinGivenUpLast ==
  BinAt("go_back_home") /\ bin.all => bin.fine /\ bin.known /\ bin.poses \subseteq bin.fails

\* While the robot is moved, no part is on its way that is still being placed, and it
\* picks with an empty gripper only; unless an earlier goal was cancelled or failed
\* while it had a part, which nothing takes care of.
RobotFree ==
  leftover \/ /\ bin.at \in BinMotions => ~ OnItsWay(placing)
              /\ BinAt("trying") => ~ holding

\* A part is swept in the direction that was pointed out for it, and no answer is
\* used twice, unless the operator points when nothing is asked.
SweptAsPointed == swept = "old" => unasked

\* The server goes on, motions end, and an operator who is asked points somewhere
\* in the end, before thinking better of it.
BinFairness ==
  /\ WF_binVars(BinStep)
  /\ WF_binVars(PlaceGoesOn)
  /\ WF_binVars(BinAt("request_help") /\ Point(TRUE))
  /\ SF_binVars(Answered /\ pointing.answers)

\* A goal ends if the bin is finite, recoveries are, and the operator points.
BinGoalLeft == bin.at # "idle"
BinGoalEnds == BinGoalLeft ~> ~ BinGoalLeft
=============================================================================
