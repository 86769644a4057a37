--------------------------- MODULE MCContactRules ---------------------------
(* Three parts, enough for a product of several levels that is re-rooted   *)
(* while it is held, the planning frame and a gripper with one finger; at  *)
(* most MaxPairs entries in the matrix.                                    *)
EXTENDS ContactRules, Naturals, FiniteSets, TLC

CONSTANTS base, panel, screw, world_link, gripper, MaxPairs

MCObjects == {base, panel, screw}
MCLinks == {world_link, gripper}
MCTouchLinks == [l \in MCLinks |-> IF l = gripper THEN {gripper} ELSE {}]
MCSymmetry == Permutations(MCObjects)
FewPairs ==
  /\ Cardinality(acm) <= MaxPairs
  /\ \A o \in Objects : Cardinality(touch[o]) <= MaxPairs
=============================================================================
