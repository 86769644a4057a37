CONSTANTS
  base = base
  panel = panel
  screw = screw
  tool = tool
  world_link = world_link
  bench = bench
  feeder = feeder
  fixture = fixture
  gripperA = gripperA
  gripperB = gripperB
  robotA = robotA
  robotB = robotB
  Objects <- MCObjects
  Links <- MCLinks
  World <- world_link
  NoObject = NoObject
  TouchLinks <- MCTouchLinks
  Robots <- MCRobots
  Tip <- MCTip
  Targets <- MCTargets
  Fixture <- fixture
  Bench <- world_link
  Scenes <- ConnectedScene
  MaxBusy = 1
  RepeatPicks = TRUE
SPECIFICATION PickOrPlaceSpec
INVARIANT
  Rooted
