CONSTANTS
  screwIn = screwIn
  screwDown = screwDown
  screwOut = screwOut
  NoGoal = NoGoal
  Goals <- MCGoals
  Tighten <- MCTighten
  Retighten <- MCRetighten
SPECIFICATION ScrewSpec
INVARIANTS
  StopsWhenIdle
  RetightensBeforeSuccess
PROPERTIES
  GoalsSpec
  CanceledGoalEnds
  StalledGoalEnds
CHECK_DEADLOCK FALSE
