CONSTANTS
  base = base
  panel = panel
  screw = screw
  world_link = world_link
  gripper = gripper
  MaxPairs = 1
  Objects <- MCObjects
  Links <- MCLinks
  World <- world_link
  NoObject = NoObject
  TouchLinks <- MCTouchLinks
SYMMETRY MCSymmetry
CONSTRAINT FewPairs
SPECIFICATION ContactSpec
INVARIANTS
  SceneMatchesTree
  Rooted
  ProductSharesOuterLink
  ConnectedMayTouch
PROPERTY
  ProductKeptWhole
