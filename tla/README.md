# Formal model of the AIST robotics packages (artros)

TLA+ modules, TLC runs and TLAPS proofs about the parts of this repository that
keep state, run concurrently or compute, and can be got wrong in ways a test
would hardly reach: the product tree of collision objects and the contacts
MoveIt is told to tolerate, the task servers that drive them, the controllers of
the tools, the servos and trackers, the nodes that serve sensors and cameras,
and their algorithms.

`PROJECT.json` lists components, runs, mutants, findings, hazards and theorems,
and maps every definition to the source lines it models.

## 1. The system and its parts

| Part | State it keeps | Operations | Interacts with | Modelled in |
|---|---|---|---|---|
| `aist_collision_object_manager` | `_instance_props_dict` (parent link and transform of every object); through MoveIt: world objects, attached objects, touch links, allowed collision matrix (ACM) | create, remove, attach, detach, move object; allow, disallow, reset collision | called by the task servers and the shells; calls move_group; publishes tf | `ProductTree`, `ContactRules` |
| `aist_tasks` `pick_or_place` | one goal per robot, five stages | accept, stages, failures, rollback, final reset | motion planning, gripper client, collision object manager | `PickOrPlace` |
| `aist_tasks` `pick_or_place_tool`, `_screw` | active gripper of a robot, screw counters | place tool, pick tool, pick screw, place screw | send goals to `pick_or_place` | `ToolTasks` |
| `aist_tasks` `attempt_bin`, `request_help`, `sweep`, `error_recovery_by_sweep` | poses found and failed, coarse or fine parameters, the operator's last message | pick, place, search, recover | `pick_or_place`, search, the operator | `BinTasks` |
| `aist_fastening_tools` screw tool controller | goal handle, stage, start time; motor | goal, cancel, accepted, motor state callbacks | Dynamixel driver | `ScrewToolController` |
| suction and precision tool controllers | goal handle, times; valves, or motor | goal, cancel, accepted, device state callbacks | IO and Dynamixel drivers | `GoalServer`, `SuctionToolController`, `PrecisionToolController` |
| `aist_moveit_servo` (ROS 1, not built) | goal, target pose, status of the servo, counters of halts and frames | tick, goal, preempt, target and joint callbacks, collision timer | robot controllers, planning scene | `SimpleServer`, `Servo`, `PoseTracking`, `ServoSteps` |
| `aist_controllers` trackers (ROS 1, not built) | goal, pointing frame, chain, solvers | goal, preempt, controller state callback | joint controllers | `SimpleServer`, `JointTrackers` |
| `aist_controllers` `iri_point_to` | state of the main thread, flags of two servers, chain, solution, PID | start, stop, main thread, joint states, reconfiguration | joint motion server, servos | `PointTo`, `HeadPointing` |
| `aist_camera_multiplexer` | active camera | activate camera, image callbacks | cameras; the depth filter | `CameraMultiplexer` |
| `aist_depth_filter` | region of interest, thresholds, background | frame, save background, parameters | cameras | `DepthFilter`, `DepthImages` |
| `aist_ftsensor` broadcaster | samples, sums, flags, offset, filters | update, take, compute, save, clear, reset | hardware interface, services | `FTSensorBroadcaster`, `Wrenches`, `Filters` |
| `aist_klt_tracker` | features, table of their tracks | image, select, replace, reconfiguration | camera | `FeatureTracker`, `KltImages`, `KltSteps` |
| `aist_aruco_ros` detectors | marker maps | frame, frames of several cameras | cameras, calibrators | `MarkerPose` |
| hand-eye and camera calibration | samples, last observation | take sample, compute, reset, save | detectors, robot, the calibration task | `SampleTaking`, `Transforms`, `HandEye`, `CameraPlanes`, `CameraCalibration` |
| `aist_routines`, tool clients, drivers, visualisation, launch files | | | | not modelled, see section 5 |

What is hard here: goals of several robots are executed concurrently by a
multi-threaded executor and share one planning scene; goals fail or are
cancelled in any stage and must be undone; the product tree is re-rooted again
and again, so that errors need long sequences of legal calls; callbacks of
devices, timers and topics run beside those of the action servers, with partial
locks or none; results and observations arrive late; and the arithmetic has
borders, cut-offs and degenerate cases. `PROJECT.json` lists the hazards one by
one, each with its line and the properties that cover it; section 5 lists
further ones that no property covers.

What makes each component correct:

* *Product tree*: the parents form a tree; MoveIt and the manager know the same
  objects; all parts of a product hang on one link; a product is not torn apart.
* *Contacts*: what is connected may touch; what is not connected may not, once a
  goal is over.
* *Pick-or-place*: a failed pick leaves the scene as it was; a tool stays on its
  gripper; no motion starts from a contact that is not tolerated.
* *Tool and screw tasks*: the active gripper is the tool that is mounted; the
  next screw is the one at the outlet.
* *Bin tasks*: a bin is given up only when a fine search has failed as well; the
  robot does not move while it places; a part is swept where it was told to.
* *Tool controllers*: a goal ends exactly once; motor and valves are as the last
  goal wants them; a result is only reported when it was reached.
* *Servos and trackers*: outcomes belong to their own goal; the arm stops when
  no goal is left; nobody else moves the joints.
* *Sensors and calibrators*: what is published together belongs together; a
  sample is of the time it was asked for.
* *Algorithms*: they compute what the geometry says, at the borders, too.

## 2. Modules

```
ProductTree <- ContactRules <- PickOrPlace <- MCPickOrPlace
     ^            ^     ^            ^
     |            |     |            +-- PickOrPlaceProofs
     |            |     +-- MCContactRules       |
     |            |                              v
ProductTreeProofs <- ContactRulesProofs <--------+

ActionGoals <- (implements) - ScrewToolController <- MCScrewTool, ScrewToolProofs
ActionGoals <- (implements) - GoalServer <- SuctionToolController ---+- ToolControllerProofs
                                      ^---- PrecisionToolController -+
CameraMultiplexer <- DepthFilter, PointTo, FTSensorBroadcaster, -----+-> MCDevices
                     SampleTaking, FeatureTracker                    |      ^
                     (these five: NodeProofs)                        |      |
                       DeviceProofs (with ToolControllerProofs, NodeProofs)-+
KltImages <- KltSteps, DepthImages <- MarkerPose,                    |
Transforms <- HandEye, HeadPointing, ServoSteps, Filters,            |
Wrenches, CameraPlanes, CameraCalibration  ----->  MCAlgorithms -----+

SimpleServer <- PoseTracking (with Servo), JointTrackers --+--> MCArms <- ArmProofs
                ToolTasks, BinTasks -----------------------+                 |
ActionGoals <- (implemented by the servo and the trackers of joints) --------+
```

**ProductTree.** The sets that the recursive methods of the manager visit are
written as least closed sets: `Up` for the ascent of `_rotate_tree`, `Down` for
the descent of `_attach_or_detach_descendants`. Written this way they need no
recursion and can be proved about. `WellRooted` says that a parent function has
no cycle. `parent[o]` is the parent link of object `o` in
`_instance_props_dict`: a robot link, or another object (the code always refers
to the base link of that object, which `get_base_link` takes care of).
`attached`, `world` and `link` are what MoveIt answers to `get_attached_objects`,
`get_objects` and for `link_name` / `header.frame_id`. Actions: `CreateObject`,
`RemoveObject`, `RemoveAllObjects`, `AttachObject`, `DetachObject`, each the whole
method. `Chain(o, leaf)` is the part of the tree that `_rotate_tree` turns round,
`Rerooted` what becomes of the parents, `Subtree` the objects whose attach link is
changed. `TfConnected` says when `lookup_transform` succeeds; when it does not,
`attach_object` and `detach_object` return before they change anything.
`Foreign(o, p, leaf)` is an assumption about the callers: the new parent is not
part of the piece that is re-rooted. The grasps of the task server satisfy it
unless a tool is told to pick what it already holds; see run `repeat_pick`.
A new object gets an ID that nothing refers to, as in
`initialize_collision_objects` and `_generate_screw`.

**ContactRules.** Adds `touch` (touch links of attached objects) and `acm` (a set
of unordered pairs, because MoveIt's matrix is symmetric) and gives every
operation its second half, and adds `AllowCollision`, `DisallowCollision` and
`ResetCollision`. The default entries of the ACM are left out: `create_object`
sets them to "not allowed" and nothing else changes them.
`disallow_collision` has no caller in the repository; the model uses it for other
contacts than that of an attached object with its parent.

**PickOrPlace.** `goal[r]` is the goal that robot `r` executes: the stage, the
request, the old root and its frame (`old_root_id`, `old_root_pose`), and the copy
of the ACM that `_set_acm_allowed` is working on. Actions: `AcceptPick`,
`AcceptPlace`, `Move`, `AllowAttached` / `ReadToAllow` / `WriteAllowed` /
`Approach` (stage *approach*), `Grasp`, `Release`, `Depart`, `Rollback`, `Verify`,
`Cancel`, `ReadToReset` / `WriteReset` (the `finally` clause, for the object and
then for the old root), and `FixObject` / `ReleaseObject` of the assembly
routines. A tool is an object held by the gripper; its ID is the leaf at which
re-rooting stops. Motions succeed or fail. `ActionServer.Stage` is in another
repository (`task_wrappers`); from its use here a cancelled goal leaves
`_execute_cb` where it enters a stage, and a motion that is stopped counts as
failed. `before` is a history variable, used by `PickRolledBack` and `PickMayDepart`.
The callers are taken to give concurrent goals different products
(`Untouched`).

**ActionGoals.** What a client of a controller that carries out one goal at a
time may rely on: a goal is accepted, waits for the one before it to end, is
started or refused, and ends once, in a way its state allows. The controllers of
tools are shown to implement it, and the nodes built on `SimpleServer`.

**ScrewToolController.** Two threads (the nodes are loaded into
`component_container_mt`): `action` runs `goal_cb`, `cancel_cb` and
`handle_accepted_cb`, which share the default callback group and so never
overlap; `states` runs `dynamixel_states_cb`, which has a group of its own.
`handle`, `mutex`, `stage` are `_current_goal_handle`, `_current_goal_mtx`,
`_stage`; `elapsed` says that the period in question has passed since
`_start_time`; `status` is the state of the goal handles, kept by
`rclcpp_action`. A step is one command to the motor or what lies between two.
A command that fails may have been carried out or not. `states.low` says that
the reading is below its threshold and may be either at any time, so that stale
readings are included. The read of the handle before the lock, a data race, is
one step that sees the old or the new handle; `rclcpp_action` hands a cancel
request to `cancel_cb` only for an executing goal, and rejects it if the goal
has ended meanwhile. `failed`, `asked` and `turned` are history variables.

**GoalServer, SuctionToolController, PrecisionToolController.** The two share
their action server: `action` is the thread of `goal_cb`, `cancel_cb` and
`handle_accepted_cb`, `states` that of the callback for the device, which looks
at the goal before it takes the mutex. Suction adds the two valves and the times
(`expired`, `elapsed`), the precision tool the motor (`dxl`), which may move on,
come to rest or be blocked at any time, and `rested`. `unconfirmed`, `unseen`,
`slow` and `failed` are history. Both are composed with `ActionGoals` by
`ToolGoalsSpec`.

**SimpleServer, Servo, PoseTracking, JointTrackers.** `SimpleServer` is the ROS 1
action server as its users see it (the class is in `tf2_ros`/`actionlib`,
external): one goal, callbacks that hold the server's lock, and a worker beside
them. `Servo` is what a tick does with a command: the scales for collisions and
singularities, the position limits, halts and what is published; velocities are
full, reduced or zero. `PoseTracking` adds the goal, the target and its age, the
frames within tolerance and the outcomes. `JointTrackers` is the trajectory and
the group tracker (`tracker`). A goal that was aborted may have left a chain with
another number of joints than the solvers have; `update` copies what the joints
are into an array as long as the chain. `UpdateOverruns` is that this ends the
node, which it does for certain if the chain is empty; `UpdateAndPublish` that it
does not. `overlap` is history: a callback has run while the worker was
in the middle of its work. The code does nothing against that; what goes wrong
then is inherent in it (section 5), so the properties say what holds when it did
not happen, and, of the joint trackers, what holds even so (`stray < 2`).

**PointTo.** The main thread copies the flags, releases the lock and acts on the
copies (`seen`). `asked`, `point`, `track`, `tracked` are the flags and the two
servers, `motion` the goal of `joint_motion` as the other server carries it
out, `alg` what the algorithm has loaded. `overrun` is history: a goal was
accepted while the main thread was still at work for one that had been stopped.

**CameraMultiplexer, DepthFilter.** The multiplexer drops what inactive cameras
publish, message by message; the synchroniser behind it (external) forwards sets
that are complete. The depth filter cuts the region of interest out of each
image of a set under a lock of its own, which is where parameters and cameras
change in between (`disturbed` is history). One of the two cameras has smaller
images.

**FTSensorBroadcaster.** `update` is the real-time thread, `service` the callback
group of the services, with the flag `doSample`, the counted samples and the sums
apart, because another thread sees them apart (`torn` is history).

**FeatureTracker.** `features` and `table` are the list and the ring of frames. A
scene that moves shows its point `p` at `p + shift`, so that a track that
continues another point can be told from one that follows its own. `jumped`:
the features were selected in an image whose shift was another one. Numbers that
are free are given out in their order, the first one (`First`) to the best point;
`EnforceMinimumDistance` takes the points of a list one after the other (`taken`),
each unless it is too close to one taken before.

**SampleTaking.** Both calibrators: `queue` and `calibrator` are the requests that
wait and the one that is served, `frames`, `observed`, `pose` what a detector
has seen and what was received of it. A request waits without the lock.

**ToolTasks.** Every stage of the two task servers, with the outcomes of the
pick-or-place goals they send as `PickOrPlace` has them: one that fails has left
things where they were, or, if a place failed when it departed, where they
should be; one that is cancelled has left them in either place. `interrupted`
says that one was cancelled: the servers test for `STATUS_ABORTED` only and
take a cancelled goal for one that succeeded, so that nothing holds afterwards.

**BinTasks.** The loop of `attempt_bin` with its three variables `fine_parameters`,
`pick_poses`, `fail_poses` in `bin`, the place goal that goes on beside it
(`placing`), the error handler of the shell (`hmi_routines.py`) and the three
servers it reaches. The places are model values no two of which are close, so
that `_is_close_to_fail_poses` is equality. `leftover` and `unasked` are history:
a goal ended with a part in the gripper, which the code does not take care of;
the operator pointed when nothing was asked.

**Algorithms.** `KltImages`, `KltSteps`, `DepthImages`, `MarkerPose`, `Transforms`,
`HandEye`, `HeadPointing`, `ServoSteps`, `Filters`, `Wrenches`, `CameraPlanes`,
`CameraCalibration`: pure operators, translated function by function, and at the
end of each module the requirements, which compare what they compute with
something that is written down independently (the plane an image shows, the
transform that made the samples, the definition of a border). Where the code
computes with floating point the model chooses inputs for which the results are
exact:

* locations in halves of a pixel, kernels that are not divided by their norms;
* a quarter or a half for a unit, so that the rotations of a tetrahedron and
  quarter turns are integers; directions whose lengths are rational;
* equations and projective coordinates modulo a prime (2, 5, 11, 13): what holds
  there for all inputs are identities between the formulas. Premises exclude
  what does not exist there, such as the inverse of zero;
* depths of planes with integer coordinates; linear cameras and rotations to
  first order where a derivative is compared with a difference;
* an arm of three independent axes, whose Jacobian is diagonal.

Solvers of other libraries (eigenvalues, singular values, inverse kinematics,
linear equations, homographies, RANSAC) are represented by the exact solutions
among given candidates, so that the formulas around them are checked and not they.

**MCArms, MCDevices, MCAlgorithms.** The parts of `MCArms` and `MCDevices` do not
interact; a variable `part` says which of them a behaviour is about, the others
stay as they began. That is one state space for each part, not their product.
In the parts `images` and `geometry` a behaviour is one step that chooses an
input, and the invariant is the requirement.

Operators called `D_Something` next to a definition `D` are `D` with a plausible
programming error. No specification uses them; they are there to show that each
property can fail (the pairs are listed under "mutants").

## 3. Runs

| Run | Question | Bounds | Result |
|---|---|---|---|
| `contact_rules` | are tree, scene and contacts kept under every sequence of operations? | 3 objects, 2 links, no bound on the length; at most `MaxPairs` = 1 ACM entry and 1 touch link per object are extended further | holds |
| `pick_or_place` | are tools kept, allowances withdrawn, and is the way back defined? | base + connected panel, screw, tool; 2 robots (tool, gripper), `MaxBusy` = 1 goal at a time; base fixture | holds |
| `pick_departs` | does a pick depart only from tolerated contacts? | the same, without the fixture (`Bench` is a link nothing stands on) | holds |
| `two_robots` | is the tree kept, and is a failed pick undone, when two goals interleave? | the same, `MaxBusy` = 2, objects placed on the bench and on the base; no touch links, so that the ACM holds contacts between objects only | holds |
| `screw_tool` | do goals end as promised and does the motor stop, under preemption, cancellation and lost commands? | three goals: tighten, tighten and retighten, loosen; each is sent once; any number of commands fail | holds |
| `arms` | do servo and trackers stop, and are outcomes of their own goal? do tool, screw and bin tasks stay in step with what is in the gripper? | see below | holds |
| `devices` | do valves, motors, head, filter, sensor, tracker and calibrators do what was asked of them? are the algorithms right? | see below | holds |
| `screw_null` | is the goal still there when the callback has the mutex? | as `screw_tool` | violated |
| `parent_reset` | can a panel that stands on a base always be lifted? | the scene of the right-hand figure of the package README | violated |
| `repeat_pick` | is the tree kept when a cancelled pick is requested again? | `RepeatPicks` = TRUE | violated |
| `lost_update` | is a contact that was allowed really allowed? | `MaxBusy` = 2 | violated |
| `solved_for_own_frame` | is what is published for a goal solved for its own chain? | as `arms` | violated |

**Bounds.** `contact_rules` has three objects, with which products of several levels
exist (an old root, a middle part and a new root); the runs of `PickOrPlace` have
four, a product below a tool that must stay where it is. Sequences are
unbounded. The invariants of the tree are proved for any number of objects, and
the type invariants of tree, contacts and screw tool are not run because they
are theorems. With two robots `MaxBusy` = 2 is all there can be.

Two goals are all that a controller knows of at a time, the current one and the
one being accepted; a third lets a goal be preempted by one that is preempted
itself. `screw_tool` and the suction part have three, one of each kind; the
moves of a precision tool are alike and the goals of the servo differ only in
whether they terminate, so that these parts have two (`TwoMoves`, `TwoGoals`).
The joint trackers have four: two for one frame, one for a frame whose chain has
other joints, one for a frame without a chain. `MaxHalts` = 1 and `MinFrames` = 2
let both counters go below, to and past their limits.

`ToolTasks` has two tools and one type of screw, of which `MaxScrews` = 3 are
generated: one that is on a tool, one at the outlet, one to follow. `BinTasks` has
two places, `MaxAttempts` = 2, and in each goal at most `MaxPicks` = 2 picks that
succeed and `MaxRecoveries` = 1 recovery, so that each of the loops is repeated,
and goals follow each other without a bound. `MaxSamples` = 4 samples go past
the three that a calibration needs; `MaxFrames` and `MaxRequests` = 3 let a late
request meet the observation of the next. Images of the feature tracker have
three columns for two features at distance two, the ring two frames.

The inputs of the algorithms are listed in `MCAlgorithms`, about 40,000: images
from one pixel narrower than the border to a few wider, all rotations of a cube
or a tetrahedron, thresholds met from both sides, missing joints, hidden pixels,
cameras and planes in every order.

Servers of tasks wait for requests for ever but screw goals and samples are
finite, and the algorithms take one step; that is why these runs do not check
deadlock.

**Fairness.** `screw_tool`, `arms` and `devices` assume it, and only what the code
schedules by itself:

* a callback that has begun goes on: a command waits for at most a second for its
  answer, and the executors have threads for all callback groups;
* the drivers go on publishing states, the timer loop goes on ticking, clocks
  advance;
* a mutex that is free again and again is taken by a thread that waits for it
  (strong fairness of the action thread of suction and precision tools: their
  states callbacks hold the mutex for a moment only); between callbacks time
  passes (`StallTimePasses`);
* the main thread of `point_to` goes on, a motion that was ordered ends, and
  tracking ends when it is told to;
* the calibrators go on, and a wait times out if no observation comes first;
* the bin task goes on, motions and pick-or-place goals end, and an operator who
  is asked answers in the end. That is an assumption about a person; without it
  `request_help` waits for ever, as it should. Strong fairness of the answer says
  that the operator does not take it back by a message without one each time
  before the server looks.

Nothing is assumed of clients, of sensors or of failures. The liveness properties
have their conditions written out: the readings stay low, the motor comes to
rest, no input is recent, no command was lost, the node is up.

**What the properties allow.** Some of them hold only as long as something that the
code does not prevent has not happened, and say so by a history variable:
`overlap`, `torn`, `disturbed`, `jumped`, `overrun`, `interrupted`, `leftover`, `unasked`,
`slow`, `failed`. Each names one data race or one outcome that the code ignores;
section 5 says of each what follows from it. They are conditions, not assumptions: the
behaviours in which it happens are explored, and the other conjuncts and
liveness properties hold in them, too.

### Findings

* `parent_reset`: `reset_collision` of a base takes away the entry by which a
  panel standing on it may touch it. After any failed or cancelled pick of the
  base, the panel can be grasped but the arm cannot depart.
* `repeat_pick`: a pick with a tool, cancelled after `grasp` and before `depart`,
  leaves the object on the tool; the same request again makes object and tool
  each other's parent, and the manager recurses without end.
* `lost_update`: the ACM is read, changed and written back by unsynchronised
  goals; one of two concurrent `allow_collision` calls can be lost.
* `screw_null`: `dynamixel_states_cb` tests the current goal before it takes the
  mutex. If `handle_accepted_cb` holds it, aborts that goal and then cannot
  start the motor, the callback dereferences a null pointer.
* `solved_for_own_frame`: the joint trajectory tracker replaces its chain before it
  checks it (`joint_trajectory_tracker.h:310`). After a goal that was refused because
  its chain has other joints than the controller, a goal for the frame before is
  tracked with the chain of the refused one. The counterexample is one of the
  trajectory tracker without overlap: goals for `hand`, for `camera` (refused) and
  for `hand` again. It can be no other: the group tracker refuses a goal only if
  there is no chain at all, and an empty chain ends the node instead of
  publishing (theorem `SolvedForOwnIfSizesAgree`).

With the fixture, `PickMayDepart` does not hold either: if the contacts of a
fixed base are reset (a cancelled pick of it is enough), `release_object` puts it
back on the workbench without allowing the contact. No document says
what should hold, so this is no finding.

## 4. Theorems

All theorems hold for every value of the constants that meets the named
assumptions of the modules, which say: names that stand for "none" are none of
the things named, bounds are positive where the code counts to at least one, the
links of a frame include it. `SceneOK` lists what an initial scene is: a tree
whose objects are there, with each tool on a gripper of its own.

`ProductTreeProofs` begins with what the least closed sets give: `Up`
and `Down` contain their start, are closed and minimal; two ascents from one node
are comparable; an ascent in a well-rooted tree never returns; each node of it
but the first has exactly one predecessor. It proves for any objects and links,
from `TreeAssumption` alone:

* `TreeInvariant`: `TreeInv`, the conjunction of `TreeTypeOK`, `SceneMatchesTree`,
  `Rooted` and `SharedAttachLink`, is invariant. The parts need each other: that
  re-rooting closes no cycle (`RerootedIsRooted`) rests on the chain consisting
  of existing attached objects, and that attach links stay shared
  (`SubtreeFacts`) rests on the absence of cycles.
* `TreeTypeCorrect`, `TreeIsRooted`, `SceneStaysInStep`: three of its conjuncts.
* `ProductLinkShared`: `ProductSharesOuterLink` follows from the local
  `SharedAttachLink` by minimality of the chain.
* `ProductStaysWhole`: attach and detach turn connections round, cut at most one
  and make at most one.

`ContactRulesProofs` proves for any objects, links and fixed touch links, from
`TreeAssumption` and `TouchAssumption`:

* `ContactInvariant`: `ContactInv`, the conjunction of `TreeInv`, `ContactTypeOK`
  and `ConnectedMayTouch`, is invariant. A step of the contact rules is a step of
  the tree (`ContactStepIsTreeStep`), so that the tree's part comes from
  `ProductTreeProofs`. The rest is `RetouchedFacts`: `_attach_or_detach_object`
  renews the touch links of what lies below the new root only, and every object
  whose parent the re-rooting has changed does lie there.
* `ContactTypeCorrect`, `ConnectedPartsMayTouch`: two of its conjuncts.

### The pick-or-place server

`PickOrPlaceProofs` is about any number of robots, objects and links and every
scene. Its hypothesis is `Orderly`: nobody is told to pick what it already holds
(`repeat_pick` is the counterexample), and either goals are executed one at a
time, or any number of them and `OneTarget`: one object at most serves as a
place, no tool does, and in the initial scene world objects stand on places.
Runs `pick_or_place` and `pick_departs` meet it the first way, `two_robots` the
second, and TLC has checked the invariants below on these instances before they
were proved.

`OneTarget` is not there for convenience. Let the base stand on the panel and the
panel on the screw. One robot grasps the panel, which goes back to the screw if
the pick fails; the other one picks the screw and is about to place it on the
base, which still stands on the panel. Now the first one rolls back, the second
one releases, and the three stand on each other: TLC finds this in 22 states, with
the base as the only place. `Untouched` does not exclude it, because it looks at
what goals are about and not at where a failed pick will return to.

* `PickInvariant`: `PickInv` says that tree and contacts are in order, that tools
  are mounted, and of a goal in each stage what it will rely on later (`Fits`):
  what a pick or place is about to re-root contains no tool and not the new
  parent; after a grasp the old root can be put back; after a release the object
  hangs on the old root. `ToolsStayMounted` is not inductive without it: a
  rollback re-roots what the grasp has re-rooted, so that one must know of the
  chain from the old root what the grasp knew of the chain from the object
  (`ReversedChain`). With several goals it also says that goals are about
  products that do not meet and that nobody else holds (`Separate`), and that
  world objects stand on places (`Standing`). A grasp, release or rollback
  (`Turned`) then leaves every chain alone that does not come to the piece which
  it turns (`UpFrame`, `TurnFrame`), everything that does comes to the object it is
  about (`TurnGathers`), and the place on which another goal relies gets nothing
  above it that the goal is about (`TurnAncestors`), so that what the other goals
  rely on stays true (`TurnKeeps`).
* `PickTypeCorrect`, `ToolsAreMounted`, `DepartIsDefined`, `ServerMakesNoCycle`:
  consequences.
* `ServerKeepsProducts`: every step of the server is one of the tree with the
  manager called as `ProductTree` expects (`ServerStepIsTreeStep`), so that the
  action property of the tree holds of the server, too.
* `FailedPickIsUndone`: `UndoInv` relates the scene between grasp and departure to
  the one before (`before`): the chain is turned round, nothing else of the
  product has changed. Turning it round again restores it, however long it is,
  and whatever other robots do to other products meanwhile (`TurnUndone`).
* `NoContactIsLeft`, for one goal at a time (`OneGoal`) and with hypothesis
  `GrippersApart`: the touch links of a gripper
  are its own, as in `aist_routines/config/inc/touch_links.yaml`, nothing is placed
  on a gripper and no world object stands on one. `ClearInv` says which goal will
  withdraw each entry that names a gripper: the entry is of an object that a
  goal is about, or that hangs on the gripper.
* `PicksMayDepart`, for one goal at a time and with hypothesis `OnTheGround` as well: world objects stand on
  links and the base fixture is not used. `StandInv` follows the entry by which an
  object may touch what it stands on, from the release that made it to the
  departure that needs it. Both conditions are needed: without the first,
  `parent_reset` is the counterexample, without the second the fixture (section 3).

The last two need one goal at a time: the copy of the ACM that a goal works on goes
stale beside another one (`lost_update`). The manager has no notion of a goal, and
nothing in the code keeps goals of different products apart; the model does so by
`Untouched`.

### Tools

`ScrewToolProofs` proves for any goals, from `ScrewAssumption` alone:

* `ScrewInvariant`: `ScrewInv`, the conjunction of `ScrewTypeOK` with `GoalInv`
  (which goal is there in which critical section) and `MotorInv` (where the
  torque is off). `StopsWhenIdle` is not inductive: that a cancelled goal leaves
  the motor off has to be known from the moment `cancel_cb` has switched it off
  until the goal has ended.
* `ScrewTypeCorrect`, `MotorStopsWhenIdle`: consequences of it.
* `ScrewImplementsGoals`: every step is a step of `ActionGoals` or leaves what
  the client sees unchanged, with `current` being `handle` and `waiting` the goal
  that `handle_accepted_cb` works on.
* `RetightensFirst`: `RetightensBeforeSuccess` is invariant. `TurnInv` follows the
  goal through its stages: the torque stays on from its acceptance until somebody
  asks to cancel it, so that each change of speed does turn the motor; only the
  current goal or the one being accepted is active (`OneActive`), so that nobody
  cancels another one.

`ToolControllerProofs` proves of the suction and the precision tool, for any goals:

* `SuctionImplementsGoals`, `PrecisionImplementsGoals`: both implement
  `ActionGoals`. What they share is proved once, of the steps of `GoalServer`
  (`ServerStepInv`, `ServerStepsGoals`); each tool then shows that its steps are
  such steps (`SuctionIsServer`, `PrecisionIsServer`).
* `ValvesFollowGoals`: `ValvesInv` says how the valves are while a goal is started,
  carried out, and ended by two commands, as long as none has failed.
* `SuctionIsConfirmed`: a reading that is `min_period` old is one of the current
  goal (`ReadingInv`).
* `RestIsSeen`: a time of rest that has reached `stall_timeout` began after the
  motor was told to move, unless a command took that long (`RestInv`).

### Arms and tasks

`ArmProofs` proves, each for any bounds:

* `ArmIsStopped`, `OutcomesAreOwn` (`PoseTracking`): `StopInv` follows the goal
  from the tick that ends it to the halt that is published, `OwnInv` the frames
  that are counted; both as long as no callback has run beside `tick()`.
* `SolversAreThere` (`JointTrackers`): `ActiveGoalHasSolvers` once a state of the
  controller has arrived (`known`). Before that the trajectory tracker accepts
  goals without solvers (section 5).
* `SolvedForOwnIfSizesAgree`: the property that `solved_for_own_frame` violates does
  hold in the group tracker, and in the trajectory tracker if no chain has other
  joints than the controller (`SizesAgree`). `OwnChainInv` says that the chain is
  then that of the solvers, or empty, whenever the callback has returned. The
  hypothesis cannot be left out, as the counterexample shows.
* `StragglersAreFew`: with callbacks beside `state_cb` at most one command follows
  the end of a goal, without them none does (`StrayInv`).
* `ToolsStayInStep` (`ToolTasks`): `ChangeInv` and `MountedInv` say which gripper is
  active and what is mounted between the two halves of a tool change, `ScrewInv`
  and `FeederInv` which screw is asked for and which are at the outlets.
* `FineIsTriedLast`, `RobotIsFree`, `SweepsFollowAnswers` (`BinTasks`): `PartInv` says
  between which stages a part can be in the gripper or on its way, `PointedInv`
  whom the operator's message belongs to.
* `TrackingImplementsGoals`, `JointImplementsGoals`: the servo and the trackers of
  joints implement `ActionGoals` (`Served`). A goal that is pending waits, the
  current one is pursued as long as it is active, it is canceling once the callback
  has stopped what was done for it, and canceled when it is preempted. `ServedInv`
  says where the callback is before and after it accepts a goal; TLC checked it and
  the refinement on the instance of run `arms` first. `Serves` lists what callbacks
  and worker do, so that the proof that they take abstract steps (`ServesGoals`) is
  made once. It does not need that callbacks and worker take turns: clients are told
  what `ActionGoals` promises even in the behaviours where the arm is not stopped.
* `NoGoalIsForgotten`: a client that waits for a result waits for the goal that is
  pursued or for the one that comes next (`NoneForgotten`). It is proved of
  `ActionGoals` and follows for both nodes.

### Nodes

`NodeProofs` proves:

* `OneRegionPerFrame` (`DepthFilter`), for any cameras and heights of images.
* `SamplesAreCounted` (`FTSensorBroadcaster`): `CountInv` says how many samples
  there are in each step of the real-time thread and of the services.
* `CameraSamplesFresh`, `HandEyeSamplesFresh` (`SampleTaking`), for any number of
  frames and requests: `FramesInv`, `RequestsInv` and `OlderInv` put observations,
  requests and samples in one order.
* `OneMasterHolds` (`PointTo`): `StateInv`, `FlagsInv` and `ChainInv` relate the
  copies that the main thread acts on to the flags of the two servers.
* `TracksHold` (`FeatureTracker`), for any points, distances, shifts and numbers of
  features: `FeatureInv` says whose point each entry of the list and of the latest
  frame of the table shows, that no two entries share a number, and that the
  selected features were found in the image they are compared with (`OwnImages`).
  That the numbers given out are new ones (`RankingExtends`, `FirstFree`) and that
  every point of the list comes to its turn (`AllNumbers`, `KeepDistance`) are
  inductions over numbers; they are carried out with the least number for which
  the claim fails (`LeastOf`), because the induction theorems of the library take
  an operator as a parameter.

For each of these modules and those of the arms and tools there is one theorem
for the inductive invariant (`...Invariant`) and one for the types
(`...TypeCorrect`, not listed in `PROJECT.json` where no run asks for the types alone).

`ArmTypesHold` (in `ArmProofs`) and `DeviceTypesHold` (`DeviceProofs`) compose them: in
runs `arms` and `devices` every part keeps its types, whichever of them a behaviour
is about. A step of the composition is a step of one part and leaves the
variables of the others as they are.

### Only model-checked

* All liveness properties (`CanceledGoalEnds`, `StalledGoalEnds`, `ArmGoalsEnd`,
  `DeviceGoalsEnd`), which are out of the prover's reach.
* What the algorithms compute (`ImagesRight`, `GeometryRight`): most of them are sums,
  folds or searches over images and lists, and several are identities modulo a
  prime, which are true of the inputs listed because all of them are tried.
* The contacts of the pick-or-place server beside other goals: there is no property
  of them that holds (`lost_update`).

## 5. Not modelled

* *Poses in the collision object manager*, its markers, meshes and mesh service;
  `move_object`. The tree is modelled without transforms.
* *Interactive shells and clients* (`aist_routines`, `client.py` of the fastening
  tools): menus, and sequences of goals whose servers accept any in the model.
* *Force-torque driver* `dynpick_driver.cpp`: commented out in the package's
  CMakeLists.txt (lines 22-33), a fragment that does not compile.
* `aist_moveit_servo`, `aist_controllers` and `aist_camera_calibration` are modelled
  although the build ignores them (`COLCON_IGNORE`); the last needs a library
  that is not in the repository and is represented by what it must return.
  Reconfiguration of their filters and trees of parameters is left out.
* `USE_BUTTERWORTH_LPF` is not defined: inputs of the servo go through `DecayLPF`.
  Both filters are modelled.
* In the KLT library `writeFeatures.c` and `pnmio.c` have no caller. `rply` is
  vendored, `OrderedPly` reads and writes files with it.
* Visualisation, launch files, robot descriptions and messages: no state machine.

### What happens in the behaviours that a history condition excuses

All of it happens in the model, too; the properties do not forbid it.

* `overlap`, servo: `goalCB` clears the target pose after `tick()` has found a recent
  one, and `targetPose()` then follows a null pointer
  (`pose_tracking_servo.h:717`; `ComputeError`, and `Command` with an input to feed
  forward). Frames that the tick has counted for the goal before, or an emergency
  of it, decide the new one; a goal that is accepted between the halt and
  `setSucceeded` or `setAborted` is ended by it. The command of a tick is published
  after the halt of `preemptCB`, and the arm goes on.
* `overlap`, trajectory tracker: `state_cb` finds a new goal active before
  `Tracker::init` has made solvers, and follows a null pointer; it solves for a
  chain that is being replaced; one command follows the empty trajectory of
  `preempt_cb`.
* `overrun` (`point_to`): if the main thread is solving for a goal that was stopped,
  the new goal is given the solution for its own target with the chain that was
  loaded for the other one. If it is watching a motion for it, the motion goes on,
  and the new goal succeeds or fails with it, whatever it was to point to.
* `torn` (force-torque sensor): the number of samples and the sums are cleared
  between the two halves of taking one, so that they differ by a sample, and what
  is calibrated from them is wrong until they are cleared again.
* `disturbed` (depth filter): depth image, camera info and the other images of one set
  are cut out of different regions.
* `jumped` (feature tracker): the first step of a feature leads from where it was
  selected to where it is in an image that it was not compared with.
* `interrupted` (tool tasks): the active gripper is one that is not mounted, or a
  screw is generated although none was taken, or removed although it is held.
* `leftover` (bin tasks): the next goal moves the robot while the place goal of the one
  before goes on (after a search that failed), or picks with a part in the gripper.
* `unasked` (bin tasks): a message sent before the request is taken for its answer,
  and a part is swept where somebody pointed for another reason.
* `slow` (precision tool): sending the commands takes `stall_timeout`, so that a motor
  that has not begun to move counts as one that has come to rest.
* `failed` (screw and suction tools): a command to stop that was not carried out leaves
  the motor turning or a valve open after the last goal.

### What no property covers

Further things that the code does and that no property covers, because nothing
says what should hold, or because a model of this kind does not reach them:

* *Pick-or-place*: a tf lookup that times out makes `attach_object` or
  `detach_object` return None, and unpacking it raises (`pick_or_place_task.py:147`);
  `rollback` detaches the old root also if it was attached before; `release_object`
  does not reset contacts (`assembly_routines.py:116`).
* *Tool and screw tasks*: a cancelled pick of a tool makes it the active gripper
  although it was not picked; cancelling a screw goal while it changes tools
  cancels only the place, so that a second tool is picked; a cancelled pick of
  a screw generates the next one, a cancelled place removes the screw from the
  scene; an unknown tool name is refused only after the current tool was placed.
* *Bin tasks*: without `pick_all` the goal succeeds without a pick when the coarse
  search fails; a part left in the gripper is not handled; `RECAPTURE_RES` is swept
  like an answer. Left out of the model: a recovery goal that is cancelled, which
  goes on waiting for the operator, since the stage *request_help* cancels nothing
  (`error_recovery_by_sweep_task.py:112`); and a request for help that is itself
  cancelled (`request_help_task.py:172`), which the shell does with requests of its
  own (`hmi_routines.py:83`); a recovery, testing for `STATUS_ABORTED` only, would
  take it for an answer.
* *Screw tool*: results of the commands to stop, turn and switch off are ignored
  (line 442); a start that fails half way leaves the torque on; the speed of a
  cancelled LOOSEN stays in the motor; `set_period` is bound to a copy.
* *Precision tool*: a move that is cancelled or preempted does not stop the motor.
  *Suction*: `min_period` = 0 succeeds on a reading of the goal before.
* *Servo*: a halt for a singularity is overwritten by a deceleration for a collision
  (`servo.cpp:790-802`); at exact thresholds neither branch is taken; the drift
  dimensions are those of the planning frame though `servo.h:247` names the
  command frame; `joint_cmd.velocities` may be shorter than the names; callbacks of
  parameters are bound to copies.
* *Joint trackers*: for a chain left behind with more joints the solver may find
  nothing and `update` not return; with fewer, what is written past the end of the
  array is either a crash or without effect in the model; `joint_name(i)` takes the i-th segment, right only if no fixed
  segment precedes a joint. *point_to*: `vel_error` stays set; a chain that could
  not be loaded is remembered as loaded.
* *Depth filter*: the background saved to the file need not be the one in use; its
  pointers are not synchronised; its size is not compared with that of the frame, so
  that one kept from a camera with smaller images is read out of bounds
  (`DepthFilter.cpp:474`). The model only says whether there is one. *Force-torque sensor*: `torque.x` is used three
  times, and the calibration is right only for some sets of attitudes, which
  the inputs of the run are.
* *Markers*: depths that are NaN are not excluded. *Hand-eye*: the sign of a quaternion
  at half a turn; 0/0 for a screw of no rotation. *Camera calibration*: the error
  reported is that of the last camera; more cameras later are written out of
  bounds. *KLT*: after a reselection the last pyramid is of another image; setting
  a parameter clears a selection that is pending.

## 6. Plan

What is left to prove, in this order:

1. `PickOrPlace` with several goals and objects that stand on each other, under a
   stronger `Untouched` that also looks at where a failed pick will return to.
2. Identities behind the algorithms that need no induction (`Transforms`,
   `Wrenches`).
