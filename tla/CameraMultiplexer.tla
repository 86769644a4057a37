-------------------------- MODULE CameraMultiplexer --------------------------
(***************************************************************************)
(* The multiplexer forwards what the active camera publishes, topic by     *)
(* topic, and drops what the others do.  Behind it a synchroniser puts the *)
(* messages of one time stamp together; a set to which the switch of the   *)
(* camera left one message missing is never complete.                      *)
(***************************************************************************)
EXTENDS Naturals

CONSTANTS
  Cameras,
  Topics      \* how many topics of each camera are forwarded

ASSUME TopicsAssumption == Topics \in Nat \ {0}

VARIABLES
  activeCamera,   \* _active_camera_number
  sent,           \* messages of its last frame each camera has published, 0 when it has all
  synced          \* messages of that frame that were forwarded, 0 when one was dropped

multiplexerVars == <<activeCamera, sent, synced>>

MultiplexerTypeOK ==
  /\ activeCamera \in Cameras
  /\ sent \in [Cameras -> 0 .. Topics - 1]
  /\ synced \in [Cameras -> 0 .. Topics]

MultiplexerInit ==
  /\ activeCamera \in Cameras
  /\ sent = [c \in Cameras |-> 0]
  /\ synced = [c \in Cameras |-> 0]

\* activate_camera
ActivateCamera ==
  /\ activeCamera' \in Cameras
  /\ UNCHANGED <<sent, synced>>

\* The callback of one topic of a camera.  The first message of a frame
\* takes the place of what the synchroniser has of the one before.
Forward(c) ==
  LET before == IF sent[c] = 0 THEN 0 ELSE synced[c] IN
  /\ sent' = [sent EXCEPT ![c] = (@ + 1) % Topics]
  /\ synced' = [synced EXCEPT ![c] =
       IF c = activeCamera /\ before = sent[c] THEN before + 1 ELSE 0]
  /\ UNCHANGED activeCamera

MultiplexerNext == ActivateCamera \/ \E c \in Cameras : Forward(c)

Complete(c) == synced[c] = Topics
=============================================================================
