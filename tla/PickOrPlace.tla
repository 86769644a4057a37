---------------------------- MODULE PickOrPlace ----------------------------
(***************************************************************************)
(* The pick_or_place action server on top of the collision object manager. *)
(*                                                                         *)
(* A goal goes through the stages of PickOrPlaceTaskServer._execute_cb.    *)
(* Each stage is an action; the approach stage, the reset of the contacts  *)
(* and the update of the ACM inside them are several, because the executor *)
(* runs the goals of different robots concurrently and nothing but the     *)
(* service calls themselves orders them.                                   *)
(*                                                                         *)
(* Motion planning, gripper hardware and poses are left out: a motion      *)
(* succeeds or fails, and a grasp is verified or not.  A goal that is      *)
(* cancelled leaves _execute_cb where it enters a stage; a motion that is  *)
(* stopped by a cancellation counts as failed.                             *)
(***************************************************************************)
EXTENDS ContactRules, FiniteSets, Naturals

CONSTANTS
  Robots,        \* robot_name: the server runs one goal of each at a time
  Tip,           \* the frame of the gripper of a robot: a link, or the tool
                 \* that the robot holds with it
  Targets,       \* frames at which objects are placed
  Fixture,       \* tip link of the base fixture
  Bench,         \* workbench_holder_link
  Scenes,        \* initial scenes: the parents and the attached objects
  MaxBusy,       \* bound on the number of goals executed concurrently
  RepeatPicks    \* whether a robot is told to pick what it already holds

\* The link that carries what a robot grasps, where par are the parents
GripperLink(par, r) == IF Tip[r] \in Objects THEN par[Tip[r]] ELSE Tip[r]

\* A scene that a goal may find.  Every object has its parent in it, what is
\* only in contact with its parent is not carried, tools are mounted, and no
\* two robots share a gripper.
SceneOK(scene) ==
  /\ scene.parent \in [Objects -> Objects \cup Links \cup {NoObject}]
  /\ scene.attached \subseteq {o \in Objects : scene.parent[o] # NoObject}
  /\ WellRooted(Objects, scene.parent)
  /\ \A o \in Objects : scene.parent[o] \in Objects =>
       /\ scene.parent[scene.parent[o]] # NoObject
       /\ o \notin scene.attached => scene.parent[o] \notin scene.attached
  /\ \A r \in Robots : /\ Tip[r] \in Objects => Tip[r] \in scene.attached
                       /\ GripperLink(scene.parent, r) \in Links \ {Fixture}
  /\ \A q, r \in Robots : GripperLink(scene.parent, q) = GripperLink(scene.parent, r) => q = r

ASSUME PickOrPlaceAssumption ==
  /\ IsFiniteSet(Robots) /\ NoObject \notin Robots
  /\ \A scene \in Scenes : SceneOK(scene)
  /\ Tip \in [Robots -> Objects \cup Links]
  /\ Targets \subseteq Objects \cup Links
  /\ {Fixture, Bench} \subseteq Links
  /\ MaxBusy \in Nat
  /\ RepeatPicks \in BOOLEAN

VARIABLE goal    \* the goal of each robot

vars == <<contactVars, goal>>

Idle == [stage |-> "idle"]

Stages == {"move", "approach", "allowing", "approaching", "grasp", "depart",
           "verify", "reset", "resetting"}

\* object and frame are what the request is about; root and rootParent are
\* old_root_id and old_root_pose.header.frame_id; seen is the ACM that
\* _set_acm_allowed has read.  before is a history variable: the scene at
\* the time of the grasp.
Goals ==
  [stage : Stages, pick : BOOLEAN, object : Objects, frame : Objects \cup Links,
   root : Objects \cup {NoObject}, rootParent : Objects \cup Links \cup {NoObject},
   seen : SUBSET {{a, b} : a \in Objects, b \in Objects \cup Links},
   before : [parent : [Objects -> Objects \cup Links \cup {NoObject}],
             attached : SUBSET Objects]]

PickOrPlaceTypeOK ==
  /\ ContactTypeOK
  /\ goal \in [Robots -> Goals \cup {Idle}]

\* A scene as initialize_collision_objects and earlier goals leave it: a
\* world object may touch its parent.
PickOrPlaceInit ==
  /\ \E scene \in Scenes :
       /\ parent = scene.parent
       /\ attached = scene.attached
       /\ world = {o \in Objects : scene.parent[o] # NoObject} \ scene.attached
       /\ link = [o \in Objects |->
                    IF \E r \in Ancestors(o) \cap attached : parent[r] \in Links
                      THEN parent[CHOOSE r \in Ancestors(o) \cap attached :
                                    parent[r] \in Links]
                      ELSE World]
  /\ touch = [o \in Objects |-> IF o \in attached THEN ParentTouch(o) ELSE {}]
  /\ acm = UNION {{{o, x} : x \in ParentTouch(o)} : o \in world}
  /\ goal = [r \in Robots |-> Idle]

-----------------------------------------------------------------------------
(* Helpers.                                                                *)

Busy == {r \in Robots : goal[r] # Idle}

\* _get_object_id(gripper.tip_link).
ToolOf(r) == IF Tip[r] \in Objects THEN Tip[r] ELSE NoObject

Tools == {ToolOf(r) : r \in Robots} \ {NoObject}

\* The objects that hang on the gripper of a robot.
InHand(r) == {o \in attached : link[o] = FrameOf(Tip[r])} \ Tools

\* The parts of the product that o belongs to.
Product(o) == {x \in Exists : Chain(x, NoObject) \cap Chain(o, NoObject) # {}}

\* No other goal is about the product of o, or places something on it.
Untouched(r, o) ==
  \A q \in Busy \ {r} : Product(o) \cap {goal[q].object, goal[q].frame} = {}

At(r, stage) == goal[r] # Idle /\ goal[r].stage = stage

Goto(r, stage) == goal' = [goal EXCEPT ![r].stage = stage]

-----------------------------------------------------------------------------
(* The goal.                                                               *)

Accept(r, pick, o, f) ==
  /\ goal[r] = Idle
  /\ goal' = [goal EXCEPT ![r] =
       [stage |-> "move", pick |-> pick, object |-> o, frame |-> f,
        root |-> NoObject, rootParent |-> NoObject, seen |-> {},
        before |-> [parent |-> parent, attached |-> attached]]]
  /\ UNCHANGED contactVars

\* An object is picked that no other robot holds.
AcceptPick_HeldToo(r, o) ==
  /\ Cardinality(Busy) < MaxBusy
  /\ o \in Exists \ Tools
  /\ Untouched(r, o)
  /\ Accept(r, TRUE, o, Tip[r])
AcceptPick(r, o) ==
  /\ Cardinality(Busy) < MaxBusy
  /\ o \in Exists \ Tools
  /\ \A q \in Robots : o \in InHand(q) => q = r /\ RepeatPicks
  /\ Untouched(r, o)
  /\ Accept(r, TRUE, o, Tip[r])

\* A part of what the robot holds is placed on something else.
AcceptPlace(r, o, f) ==
  /\ Cardinality(Busy) < MaxBusy
  /\ o \in InHand(r)
  /\ f \in Links \/ f \in Exists \ UNION {InHand(q) : q \in Robots}
  /\ Foreign(o, f, ToolOf(r))
  /\ Untouched(r, o)
  /\ f \in Objects => Untouched(r, f)
  /\ Accept(r, FALSE, o, f)

\* Stage 'move'.
Move(r) ==
  /\ At(r, "move")
  /\ \/ Goto(r, "approach")
     \/ Goto(r, "reset")
  /\ UNCHANGED contactVars

\* Stage 'approach' up to the motion: allow_collision with the gripper or
\* with the place.  An attached object gets touch links at once.
AllowAttached(r) ==
  /\ At(r, "approach")
  /\ goal[r].object \in attached
  /\ AllowCollision(goal[r].object, goal[r].frame)
  /\ Goto(r, "approaching")

\* For a world object the ACM is read ...
ReadToAllow(r) ==
  /\ At(r, "approach")
  /\ goal[r].object \notin attached
  /\ goal' = [goal EXCEPT ![r].stage = "allowing", ![r].seen = acm]
  /\ UNCHANGED contactVars

\* ... and applied with the new entries.
WriteAllowed(r) ==
  /\ At(r, "allowing")
  /\ acm' = AcmWith(goal[r].seen, goal[r].object, TouchOf(goal[r].frame))
  /\ goal' = [goal EXCEPT ![r].stage = "approaching", ![r].seen = {}]
  /\ UNCHANGED <<treeVars, touch>>

\* The motion of stage 'approach'.
Approach(r) ==
  /\ At(r, "approaching")
  /\ \/ Goto(r, "grasp")
     \/ Goto(r, "reset")
  /\ UNCHANGED contactVars

\* Top of the part of the tree that is re-rooted: the object and the frame
\* that attach_object and detach_object return.
OldRoot(o, leaf) == CHOOSE c \in Chain(o, leaf) : c \notin Climbing(leaf)

Record(r, leaf) ==
  LET root == OldRoot(goal[r].object, leaf)
  IN goal' = [goal EXCEPT
       ![r].stage = "depart",
       ![r].root = root,
       ![r].rootParent = parent[root],
       ![r].before = [parent |-> parent, attached |-> attached]]

\* Stage 'grasp': attach_object is called without a leaf.
Grasp(r) ==
  /\ At(r, "grasp")
  /\ goal[r].pick
  /\ AttachAndTouch(goal[r].object, Tip[r], NoObject)
  /\ Record(r, NoObject)

\* Stage 'release': the tool, if there is one, is the leaf.
Release_NoLeaf(r) ==
  /\ At(r, "grasp")
  /\ ~ goal[r].pick
  /\ DetachAndTouch(goal[r].object, goal[r].frame, NoObject)
  /\ Record(r, NoObject)
Release(r) ==
  /\ At(r, "grasp")
  /\ ~ goal[r].pick
  /\ DetachAndTouch(goal[r].object, goal[r].frame, ToolOf(r))
  /\ Record(r, ToolOf(r))

\* The motion of stage 'depart'.
Depart(r) ==
  /\ At(r, "depart")
  /\ \/ Goto(r, "verify")
     \/ ~ goal[r].pick /\ Goto(r, "reset")
  /\ UNCHANGED contactVars

\* A pick that failed in stage 'depart' or 'verify': the old root goes back
\* to where it was.
Rollback_Object(r) ==
  /\ At(r, "depart") \/ At(r, "verify")
  /\ goal[r].pick
  /\ DetachAndTouch(goal[r].object, goal[r].rootParent, ToolOf(r))
  /\ Goto(r, "reset")
Rollback(r) ==
  /\ At(r, "depart") \/ At(r, "verify")
  /\ goal[r].pick
  /\ DetachAndTouch(goal[r].root, goal[r].rootParent, ToolOf(r))
  /\ Goto(r, "reset")

\* Stage 'verify': the goal succeeds.
Verify(r) ==
  /\ At(r, "verify")
  /\ Goto(r, "reset")
  /\ UNCHANGED contactVars

\* The goal was cancelled before it enters the next stage.
Cancel(r) ==
  /\ \E stage \in {"move", "approach", "grasp", "depart", "verify"} : At(r, stage)
  /\ Goto(r, "reset")
  /\ UNCHANGED contactVars

\* The finally clause: reset_collision of the object, then of the old root.
\* The touch links of an attached object are set, and the ACM is read ...
ReadToReset(r) ==
  /\ At(r, "reset")
  /\ touch' = [touch EXCEPT ![goal[r].object] =
                 IF goal[r].object \in attached
                   THEN ParentTouch(goal[r].object) ELSE @]
  /\ goal' = [goal EXCEPT ![r].stage = "resetting", ![r].seen = acm]
  /\ UNCHANGED <<treeVars, acm>>

\* ... and applied without the entries of the object.
WriteReset_AddsOnly(r) ==
  /\ At(r, "resetting")
  /\ LET o == goal[r].object
     IN acm' = AcmWith(goal[r].seen, o, IF o \in attached THEN {} ELSE ParentTouch(o))
  /\ goal' = [goal EXCEPT ![r] = Idle]
  /\ UNCHANGED <<treeVars, touch>>
WriteReset_NoParent(r) ==
  /\ At(r, "resetting")
  /\ acm' = AcmCleared(goal[r].seen, goal[r].object)
  /\ goal' = [goal EXCEPT ![r] = Idle]
  /\ UNCHANGED <<treeVars, touch>>
WriteReset(r) ==
  /\ At(r, "resetting")
  /\ LET o == goal[r].object
         cleared == AcmCleared(goal[r].seen, o)
         root == goal[r].root
     IN /\ acm' = IF o \in attached THEN cleared
                  ELSE AcmWith(cleared, o, ParentTouch(o))
        /\ goal' = IF root \in {NoObject, o}
                     THEN [goal EXCEPT ![r] = Idle]
                     ELSE [goal EXCEPT ![r].stage = "reset", ![r].object = root,
                                       ![r].root = NoObject, ![r].seen = {}]
  /\ UNCHANGED <<treeVars, touch>>

\* fix_object and release_object of the assembly routines, for an object
\* that stands on the workbench.
FixObject(o) ==
  /\ o \in world
  /\ parent[o] = Bench
  /\ Untouched(NoObject, o)
  /\ AttachAndTouch(o, Fixture, NoObject)
  /\ UNCHANGED goal

ReleaseObject(o) ==
  /\ o \in attached
  /\ parent[o] = Fixture
  /\ Untouched(NoObject, o)
  /\ DetachAndTouch(o, Bench, NoObject)
  /\ UNCHANGED goal

Step(r) ==
  \/ Move(r) \/ AllowAttached(r) \/ ReadToAllow(r) \/ WriteAllowed(r)
  \/ Approach(r) \/ Grasp(r) \/ Release(r) \/ Depart(r) \/ Rollback(r)
  \/ Verify(r) \/ Cancel(r) \/ ReadToReset(r) \/ WriteReset(r)

PickOrPlaceNext ==
  \/ \E r \in Robots, o \in Objects : AcceptPick(r, o)
  \/ \E r \in Robots, o \in Objects, f \in Targets : AcceptPlace(r, o, f)
  \/ \E r \in Robots : Step(r)
  \/ \E o \in Objects : FixObject(o) \/ ReleaseObject(o)

PickOrPlaceSpec == PickOrPlaceInit /\ [][PickOrPlaceNext]_vars

-----------------------------------------------------------------------------
(* Properties.                                                             *)

\* Whatever is picked and placed with a tool, and however a goal ends, the
\* tool stays attached to the gripper that holds it: it is passed as the
\* leaf at which re-rooting stops.
ToolsStayMounted ==
  \A t \in Tools : t \in attached /\ parent[t] \in Links

\* When the arm is about to depart from a pick, MoveIt tolerates the
\* contacts it is still in: the object with the gripper, and the old root
\* of the product with what it stood on.  Otherwise the motion would be
\* refused because it starts in collision.
PickMayDepart ==
  \A r \in Robots :
    At(r, "depart") /\ goal[r].pick /\ goal[r].root \notin goal[r].before.attached =>
      /\ \A x \in TouchOf(Tip[r]) : MayTouch(goal[r].object, x)
      /\ \A x \in TouchOf(goal[r].rootParent) : MayTouch(goal[r].root, x)

\* relative_frame_pose, which stage 'depart' of a place calls, finds the
\* placed object and the old root on the same link.
DepartPoseDefined ==
  \A r \in Robots :
    At(r, "depart") /\ ~ goal[r].pick => link[goal[r].object] = link[goal[r].root]

\* An object may touch the gripper of a robot only while it is held by it or
\* while a goal of that robot is about it: no allowance is left behind,
\* whether the goal succeeded, failed in any stage or was cancelled.
NoStrayGripperContact ==
  \A r \in Robots, o \in Exists \ Tools : \A x \in TouchOf(Tip[r]) :
    MayTouch(o, x) =>
      \/ parent[o] = Tip[r]
      \/ goal[r] # Idle /\ o \in {goal[r].object, goal[r].root}

\* allow_collision adds the touch links of the frame to the ACM, as its
\* comment says: the arm approaches a world object only when MoveIt
\* tolerates that the gripper touches it.
ApproachMayTouch ==
  \A r \in Robots :
    At(r, "approaching") =>
      \A x \in TouchOf(goal[r].frame) : MayTouch(goal[r].object, x)

\* A pick that fails puts every part of the product back: the parents and
\* the attached objects are those of before the grasp, if the root of the
\* product was a world object.
PickRolledBack ==
  [][\A r \in Robots :
       Rollback(r) /\ goal[r].root \notin goal[r].before.attached =>
         \A x \in Product(goal[r].root) :
           /\ parent'[x] = goal[r].before.parent[x]
           /\ x \in attached' <=> x \in goal[r].before.attached]_vars

=============================================================================
