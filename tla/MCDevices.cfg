CONSTANTS
  grasp = grasp
  pregrasp = pregrasp
  release = release
  here = here
  there = there
  arm = arm
  bench = bench
  NoGoal = NoGoal
  Goals <- MCGoals
  Suck <- MCSuck
  Immediate <- MCImmediate
  Timed <- MCTimed
  PointGoals <- MCPointGoals
  NoPoint = NoPoint
  Chainless <- MCChainless
  Cameras <- MCCameras
  Topics = 2
  Height <- MCHeight
  NoCamera = NoCamera
  MaxSamples = 4
  MaxRequests = 3
  MaxFrames = 3
  Columns = 3
  Shifts <- MCShifts
  NFeatures = 2
  NFrames = 2
  MinDist = 2
SPECIFICATION Spec
INVARIANTS
  DeviceTypesOK
  ValvesMatchLastGoal
  SuctionConfirmed
  RestSeenBeforeSuccess
  OneMaster
  RegionsAgree
  SamplesWereAsked
  TracksAreOwn
  SamplesFresh
  ImagesRight
  GeometryRight
PROPERTIES
  ToolGoalsSpec
  DeviceGoalsEnd
CHECK_DEADLOCK FALSE
