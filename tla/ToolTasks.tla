------------------------------ MODULE ToolTasks ------------------------------
(***************************************************************************)
(* The tasks that change the tool of a robot and that fetch screws with    *)
(* it.  They send goals to the pick-or-place task; a goal of that which    *)
(* has failed has left things as PickOrPlace says: where they were, or,    *)
(* for a place that failed when it departed, where they should be.  One    *)
(* that was cancelled has left them in either place.                       *)
(*                                                                         *)
(* There is one robot, whose goals the servers execute one at a time.      *)
(***************************************************************************)
EXTENDS Integers

CONSTANTS
  ToolNames,     \* node.tool_names
  Default,       \* default gripper of the robot, which the tools are held with
  ScrewTypes,
  ScrewTool,     \* tool for the screws of a type
  MaxScrews      \* bound on the number of screws of a type

ASSUME ToolTasksAssumption ==
  /\ Default \notin ToolNames
  /\ {"nowhere", "outlet", "inlet", "unknown"} \cap ToolNames = {}
  /\ ScrewTool \in [ScrewTypes -> ToolNames]
  /\ MaxScrews \in Nat \ {0}

VARIABLES
  active,     \* name of node.gripper(robot_name)
  mounted,    \* the tools that the default gripper holds
  generated,  \* _screw_m3_id, _screw_m4_id
  screwAt,    \* where a screw is: at its outlet or inlet, on a tool, or nowhere
  inScene,      \* the screws in the planning scene
  toolTask,   \* the goal: what is done, for which tool and which screws
  interrupted \* history: a goal of the pick-or-place task was cancelled

toolTaskVars == <<active, mounted, generated, screwAt, inScene, toolTask, interrupted>>

Grippers == ToolNames \cup {Default}
Screws == ScrewTypes \X (1 .. MaxScrews)
Nowhere == "nowhere"
NoSuchTool == "unknown"   \* a name that is not a tool's

\* at: the stage; of: the tool that is placed; to: the one asked for; screw:
\* the one that is picked or placed, or << >>; next: the type of the screw for
\* which the tool is changed, or << >>.
NoToolTask ==
  [at |-> "idle", of |-> Default, to |-> Default, screw |-> << >>, next |-> << >>,
   cancelled |-> FALSE]
ToolTaskTypeOK ==
  /\ active \in Grippers
  /\ mounted \subseteq ToolNames
  /\ generated \in [ScrewTypes -> 1 .. MaxScrews]
  /\ screwAt \in [Screws -> {Nowhere, "outlet", "inlet"} \cup ToolNames]
  /\ inScene \subseteq Screws
  /\ toolTask \in [at : {"idle", "place_tool", "placing_tool", "check", "pick_tool",
                         "pick_screw", "place_screw"},
                   of : Grippers, to : Grippers \cup {NoSuchTool}, screw : {<< >>} \cup Screws,
                   next : {<< >>} \cup {<<t>> : t \in ScrewTypes}, cancelled : BOOLEAN]
  /\ interrupted \in BOOLEAN

ToolTaskInit ==
  /\ active = Default /\ mounted = {}
  /\ generated = [t \in ScrewTypes |-> 1]
  /\ screwAt = [s \in Screws |-> IF s[2] = 1 THEN "outlet" ELSE Nowhere]
  /\ inScene = {s \in Screws : s[2] = 1}
  /\ toolTask = NoToolTask /\ interrupted = FALSE

-----------------------------------------------------------------------------
EndToolTask == toolTask' = NoToolTask

\* A cancelled goal ends where it enters a stage.  The goal for a tool that is
\* changed for a screw is not the one that is cancelled.
MayEnter == ~ toolTask.cancelled \/ toolTask.next # << >>

\* When a goal for a tool has succeeded, the goal for a screw goes on with it.
ToolChanged ==
  IF toolTask.next = << >> \/ toolTask.cancelled
    THEN EndToolTask
    ELSE toolTask' = [toolTask EXCEPT !.at = "pick_screw", !.next = << >>]

\* A cancel request cancels the goal of the pick-or-place task, if there is one.
CancelToolTask ==
  /\ toolTask.at # "idle" /\ ~ toolTask.cancelled
  /\ toolTask' = [toolTask EXCEPT !.cancelled = TRUE]
  /\ UNCHANGED <<active, mounted, generated, screwAt, inScene, interrupted>>

-----------------------------------------------------------------------------
(* PickOrPlaceToolTaskServer._execute_cb.                                  *)

FirstStage == IF active \in ToolNames THEN "place_tool" ELSE "check"

\* Nothing is done if it is the active one.
RequestTool(to) ==
  /\ toolTask.at = "idle"
  /\ active # to
  /\ toolTask' = [NoToolTask EXCEPT !.at = FirstStage, !.of = active, !.to = to]
  /\ UNCHANGED <<active, mounted, generated, screwAt, inScene, interrupted>>

\* The default gripper is what places the tool.
BeginPlaceTool ==
  /\ toolTask.at = "place_tool"
  /\ IF MayEnter
       THEN /\ active' = Default
            /\ toolTask' = [toolTask EXCEPT !.at = "placing_tool"]
       ELSE UNCHANGED active /\ EndToolTask
  /\ UNCHANGED <<mounted, generated, screwAt, inScene, interrupted>>

\* If it has failed, the tool may be in the gripper still.
PlaceToolFails_ApproachForgotten ==
  \E stage \in {"move", "approach", "depart"} :
    /\ active' = IF stage = "move" THEN toolTask.of ELSE active
    /\ mounted' = IF stage = "depart" THEN mounted \ {toolTask.of} ELSE mounted
    /\ EndToolTask
    /\ UNCHANGED interrupted
PlaceToolFails ==
  \E stage \in {"move", "approach", "depart"} :
    /\ active' = IF stage \in {"move", "approach"} THEN toolTask.of ELSE active
    /\ mounted' = IF stage = "depart" THEN mounted \ {toolTask.of} ELSE mounted
    /\ EndToolTask
    /\ UNCHANGED interrupted

PlaceTool ==
  /\ toolTask.at = "placing_tool"
  /\ \/ /\ mounted' = mounted \ {toolTask.of}
        /\ toolTask' = [toolTask EXCEPT !.at = "check"]
        /\ UNCHANGED <<active, interrupted>>
     \/ PlaceToolFails
     \/ /\ toolTask.cancelled
        /\ mounted' \in {mounted, mounted \ {toolTask.of}}
        /\ toolTask' = [toolTask EXCEPT !.at = "check"]
        /\ interrupted' = TRUE
        /\ UNCHANGED active
  /\ UNCHANGED <<generated, screwAt, inScene>>

\* The name '' asks for the default gripper.  Only now an unknown name fails.
CheckTool ==
  /\ toolTask.at = "check"
  /\ IF toolTask.to \in ToolNames /\ MayEnter
       THEN toolTask' = [toolTask EXCEPT !.at = "pick_tool"]
       ELSE EndToolTask
  /\ UNCHANGED <<active, mounted, generated, screwAt, inScene, interrupted>>

\* Only a goal that has failed leaves the gripper as it is.
PickTool ==
  /\ toolTask.at = "pick_tool"
  /\ \/ /\ mounted' = mounted \cup {toolTask.to}
        /\ active' = toolTask.to
        /\ ToolChanged
        /\ UNCHANGED interrupted
     \/ EndToolTask /\ UNCHANGED <<active, mounted, interrupted>>
     \/ /\ toolTask.cancelled
        /\ mounted' \in {mounted, mounted \cup {toolTask.to}}
        /\ active' = toolTask.to
        /\ ToolChanged
        /\ interrupted' = TRUE
  /\ UNCHANGED <<generated, screwAt, inScene>>

-----------------------------------------------------------------------------
(* PickOrPlaceScrewTaskServer.                                             *)

\* _get_screw_id, _generate_screw
ScrewId(t) == <<t, generated[t]>>
GenerateScrew(t, at) ==
  LET id == <<t, generated[t] + 1>> IN
  /\ generated' = [generated EXCEPT ![t] = @ + 1]
  /\ screwAt' = [at EXCEPT ![id] = "outlet"]
  /\ inScene' = inScene \cup {id}

\* _pick_screw up to the stage 'pick_screw'; the tool's goal begins at once.
RequestPickScrew(t) ==
  /\ toolTask.at = "idle"
  /\ generated[t] < MaxScrews
  /\ toolTask' =
       LET asked == [NoToolTask EXCEPT !.of = active, !.to = ScrewTool[t],
                                       !.screw = ScrewId(t)]
       IN  IF active = ScrewTool[t] THEN [asked EXCEPT !.at = "pick_screw"]
           ELSE [asked EXCEPT !.at = FirstStage, !.next = <<t>>]
  /\ UNCHANGED <<active, mounted, generated, screwAt, inScene, interrupted>>

\* Only if the goal has failed no new screw is generated.
PickScrew ==
  LET s == toolTask.screw
      taken == [screwAt EXCEPT ![s] = active] IN
  /\ toolTask.at = "pick_screw"
  /\ \/ GenerateScrew(s[1], taken) /\ UNCHANGED interrupted
     \/ UNCHANGED <<generated, screwAt, inScene, interrupted>>
     \/ /\ toolTask.cancelled
        /\ \E at \in {screwAt, taken} : GenerateScrew(s[1], at)
        /\ interrupted' = TRUE
  /\ EndToolTask
  /\ UNCHANGED <<active, mounted>>

\* The screws below the gripper in the tree of frames
ScrewsGrasped ==
  {s \in inScene : screwAt[s] \in (IF active = Default THEN mounted ELSE {active})}

RequestPlaceScrew ==
  /\ toolTask.at = "idle"
  /\ \E s \in ScrewsGrasped : toolTask' = [NoToolTask EXCEPT !.at = "place_screw", !.screw = s]
  /\ UNCHANGED <<active, mounted, generated, screwAt, inScene, interrupted>>

\* A screw that has been placed is removed from the scene, and the feeder
\* takes it.
PlaceScrew ==
  LET s == toolTask.screw IN
  /\ toolTask.at = "place_screw"
  /\ \/ /\ screwAt' = [screwAt EXCEPT ![s] = Nowhere]
        /\ inScene' = inScene \ {s}
        /\ UNCHANGED interrupted
     \/ screwAt' \in {screwAt, [screwAt EXCEPT ![s] = "inlet"]} /\ UNCHANGED <<inScene, interrupted>>
     \/ /\ toolTask.cancelled
        /\ screwAt' \in {screwAt, [screwAt EXCEPT ![s] = Nowhere]}
        /\ inScene' = inScene \ {s}
        /\ interrupted' = TRUE
  /\ EndToolTask
  /\ UNCHANGED <<active, mounted, generated>>

ToolTaskNext ==
  \/ CancelToolTask
  \/ \E to \in Grippers \cup {NoSuchTool} : RequestTool(to)
  \/ BeginPlaceTool \/ PlaceTool \/ CheckTool \/ PickTool
  \/ \E t \in ScrewTypes : RequestPickScrew(t)
  \/ PickScrew \/ RequestPlaceScrew \/ PlaceScrew

ToolTaskSpec == ToolTaskInit /\ [][ToolTaskNext]_toolTaskVars

-----------------------------------------------------------------------------
\* Whatever fails in whichever stage, the gripper that is active between goals is
\* the tool that is mounted, if there is one, and a tool is picked only by an
\* empty gripper; the screws of the scene are those there are, and at every outlet
\* there is one, which is the one picked next.  That is so until a goal of the
\* pick-or-place task is cancelled, which these servers take for one that
\* succeeded.
ToolsInStep ==
  ~ interrupted =>
    /\ toolTask.at \in {"idle", "place_tool", "pick_screw", "place_screw"} =>
         mounted = {active} \cap ToolNames
    /\ toolTask.at = "pick_tool" => mounted = {}
    /\ inScene = {s \in Screws : screwAt[s] # Nowhere}
    /\ \A t \in ScrewTypes : {s \in Screws : s[1] = t /\ screwAt[s] = "outlet"} = {ScrewId(t)}
=============================================================================
