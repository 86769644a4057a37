---------------------------- MODULE MCScrewTool ----------------------------
(* A goal to tighten and retighten, one to tighten only, one to loosen.    *)
EXTENDS ScrewToolController

CONSTANTS screwIn, screwDown, screwOut

MCGoals == {screwIn, screwDown, screwOut}
MCTighten == {screwIn, screwDown}
MCRetighten == {screwDown}
=============================================================================
