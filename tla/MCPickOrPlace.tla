--------------------------- MODULE MCPickOrPlace ---------------------------
(* Robot robotA holds a tool with its gripper and picks with the tool;      *)
(* robotB picks with its gripper.  The panel is connected to the base, which *)
(* stands on the workbench; the screw is in the feeder.                    *)
EXTENDS PickOrPlace

CONSTANTS
  base, panel, screw, tool,
  world_link, bench, feeder, fixture, gripperA, gripperB, robotA, robotB

MCObjects == {base, panel, screw, tool}
MCFewObjects == {base, panel, tool}
MCLinks == {world_link, bench, feeder, fixture, gripperA, gripperB}
MCTouchLinks == [l \in MCLinks |-> IF l = world_link THEN {} ELSE {l}]
MCNoTouchLinks == [l \in MCLinks |-> {}]
MCRobots == {robotA, robotB}
MCTip == [r \in MCRobots |-> IF r = robotA THEN tool ELSE gripperB]
MCTargets == {bench, feeder}
MCTargetsOnBase == {bench, base}

ParentIn(panelParent) ==
  [o \in Objects |-> CASE o = base -> bench
                         [] o = panel -> panelParent
                         [] o = screw -> feeder
                         [] o = tool -> gripperA]

\* The panel is connected to the base (left-hand figure of the README of the
\* package), or it only stands on it (right-hand figure).
Connected == [parent |-> ParentIn(base), attached |-> {panel, tool}]
InContact == [parent |-> ParentIn(base), attached |-> {tool}]
ConnectedScene == {Connected}
InContactScene == {InContact}
=============================================================================
