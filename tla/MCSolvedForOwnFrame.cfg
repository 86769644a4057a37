CONSTANTS
  reach = reach
  follow = follow
  again = again
  away = away
  hand = hand
  camera = camera
  nowhere = nowhere
  NoGoal = NoGoal
  NoFrame = NoFrame
  Goals <- MCGoals
  Terminating <- MCTerminating
  MinFrames = 2
  MaxHalts = 1
  FeedForward = TRUE
  Frames <- MCFrames
  FrameOf <- MCFrameOf
  Unknown <- MCUnknown
  Mismatched <- MCMismatched
  driver = driver
  holder = holder
  m3 = m3
  left = left
  right = right
  ToolNames <- MCToolNames
  Default = hand
  ScrewTypes <- MCScrewTypes
  ScrewTool <- MCScrewTool
  MaxScrews = 3
  Places <- MCPlaces
  MaxAttempts = 2
  MaxPicks = 2
  MaxRecoveries = 1
SPECIFICATION Spec
INVARIANT
  SolvedForOwnFrame
CHECK_DEADLOCK FALSE
