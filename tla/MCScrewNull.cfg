CONSTANTS
  screwIn = screwIn
  screwDown = screwDown
  screwOut = screwOut
  NoGoal = NoGoal
  Goals <- MCGoals
  Tighten <- MCTighten
  Retighten <- MCRetighten
SPECIFICATION ScrewSafe
INVARIANT GoalStillThere
CHECK_DEADLOCK FALSE
