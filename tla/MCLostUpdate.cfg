CONSTANTS
  base = base
  panel = panel
  screw = screw
  tool = tool
  world_link = world_link
  bench = bench
  feeder = feeder
  fixture = fixture
  gripperA = gripperA
  gripperB = gripperB
  robotA = robotA
  robotB = robotB
  Objects <- MCFewObjects
  Links <- MCLinks
  World <- world_link
  NoObject = NoObject
  TouchLinks <- MCTouchLinks
  Robots <- MCRobots
  Tip <- MCTip
  Targets <- MCTargetsOnBase
  Fixture <- fixture
  Bench <- world_link
  Scenes <- InContactScene
  MaxBusy = 2
  RepeatPicks = FALSE
SPECIFICATION PickOrPlaceSpec
INVARIANT
  ApproachMayTouch
