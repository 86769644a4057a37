---------------------------- MODULE ContactRules ----------------------------
(***************************************************************************)
(* Which contacts the collision object manager tells MoveIt to tolerate.   *)
(*                                                                         *)
(* MoveIt tolerates a contact of an attached object with its touch links,  *)
(* and a contact that the allowed collision matrix (ACM) lists.  The       *)
(* manager uses touch links for attached objects and the ACM for world     *)
(* objects, so each operation on the product tree has a second half that   *)
(* says what becomes of them.                                              *)
(*                                                                         *)
(* The ACM is symmetric: an entry is an unordered pair.  Its default       *)
(* entries, which create_object always sets to "not allowed", are left     *)
(* out.  _set_acm_allowed is one step here; module PickOrPlace splits it   *)
(* into the service call that reads the matrix and the one that writes it. *)
(***************************************************************************)
EXTENDS ProductTree

CONSTANT TouchLinks    \* _touch_links: the links that go with a link

ASSUME TouchAssumption == TouchLinks \in [Links -> SUBSET Links]

VARIABLES
  touch,    \* touch_links of an attached object; {} for the others
  acm       \* the pairs allowed to collide

contactVars == <<treeVars, touch, acm>>

ContactTypeOK ==
  /\ TreeTypeOK
  /\ touch \in [Objects -> SUBSET (Objects \cup Links)]
  /\ acm \subseteq {{a, b} : a \in Objects, b \in Objects \cup Links}

ContactInit ==
  /\ TreeInit
  /\ touch = [o \in Objects |-> {}]
  /\ acm = {}

-----------------------------------------------------------------------------
(* What the operations compute.                                            *)

\* _get_touch_links of a frame.
TouchOf(f) == IF f \in Links THEN TouchLinks[f] ELSE {f}

\* _get_parent_touch_links.
ParentTouch(o) == TouchOf(parent[o])

\* What _set_acm_allowed makes of a matrix: the entries of o are cleared, or
\* entries of o are added or taken out.
AcmCleared(m, o) == {pair \in m : o \notin pair}
AcmWith(m, o, others) == m \cup {{o, x} : x \in others}
AcmWithout(m, o, others) == m \ {{o, x} : x \in others}

\* MoveIt tolerates a contact of o and x.
MayTouch(o, x) ==
  \/ {o, x} \in acm
  \/ o \in attached /\ x \in touch[o]
  \/ x \in attached /\ o \in touch[x]

\* The touch links after _attach_or_detach_descendants has gone through the
\* objects at and below o.
Retouched_TopOnly(o) == [touch EXCEPT ![o] = TouchOf(parent'[o])]
Retouched(o) ==
  [x \in Objects |-> IF x \in Subtree(parent', attached', o)
                     THEN TouchOf(parent'[x]) ELSE touch[x]]

-----------------------------------------------------------------------------
(* The operations.                                                         *)

CreateObjectAndReset(o, p) ==
  /\ CreateObject(o, p)
  /\ touch' = [touch EXCEPT ![o] = {}]
  /\ acm' = AcmCleared(acm, o)

RemoveObjectAndTouch(o) ==
  /\ RemoveObject(o)
  /\ touch' = [touch EXCEPT ![o] = {}]
  /\ UNCHANGED acm

RemoveAllAndTouch ==
  /\ RemoveAllObjects
  /\ touch' = [o \in Objects |-> {}]
  /\ UNCHANGED acm

AttachAndTouch(o, p, leaf) ==
  /\ AttachObject(o, p, leaf)
  /\ touch' = Retouched(o)
  /\ UNCHANGED acm

DetachAndTouch(o, p, leaf) ==
  /\ DetachObject(o, p, leaf)
  /\ touch' = [Retouched(o) EXCEPT ![o] = {}]
  /\ UNCHANGED acm

AllowCollision(o, f) ==
  /\ o \in Exists
  /\ IF o \in attached
       THEN touch' = [touch EXCEPT ![o] = @ \cup TouchOf(f)] /\ UNCHANGED acm
       ELSE acm' = AcmWith(acm, o, TouchOf(f)) /\ UNCHANGED touch
  /\ UNCHANGED treeVars

\* disallow_collision has no caller; it is taken to be used for other
\* contacts than the one of an attached object with its parent.
DisallowCollision(o, f) ==
  /\ o \in Exists
  /\ IF o \in attached
       THEN /\ TouchOf(f) \cap ParentTouch(o) = {}
            /\ touch' = [touch EXCEPT ![o] = @ \ TouchOf(f)]
            /\ UNCHANGED acm
       ELSE acm' = AcmWithout(acm, o, TouchOf(f)) /\ UNCHANGED touch
  /\ UNCHANGED treeVars

ResetCollision(o) ==
  /\ o \in Exists
  /\ IF o \in attached
       THEN /\ touch' = [touch EXCEPT ![o] = ParentTouch(o)]
            /\ acm' = AcmCleared(acm, o)
       ELSE /\ acm' = AcmWith(AcmCleared(acm, o), o, ParentTouch(o))
            /\ UNCHANGED touch
  /\ UNCHANGED treeVars

ContactNext ==
  \/ \E o \in Objects, p \in Frames : CreateObjectAndReset(o, p)
  \/ \E o \in Objects : RemoveObjectAndTouch(o)
  \/ RemoveAllAndTouch
  \/ \E o \in Objects, p \in Frames, leaf \in Objects \cup {NoObject} :
       Foreign(o, p, leaf) /\ AttachAndTouch(o, p, leaf)
  \/ \E o \in Objects, p \in Frames, leaf \in Objects \cup {NoObject} :
       Foreign(o, p, leaf) /\ DetachAndTouch(o, p, leaf)
  \/ \E o \in Objects, f \in Frames : AllowCollision(o, f)
  \/ \E o \in Objects, f \in Frames : DisallowCollision(o, f)
  \/ \E o \in Objects : ResetCollision(o)

ContactSpec == ContactInit /\ [][ContactNext]_contactVars

-----------------------------------------------------------------------------
(* Properties.                                                             *)

\* An attached object may touch what it is connected to, in whichever
\* direction re-rooting has turned the connection: otherwise a product would
\* be in collision with itself or with the gripper that holds it, and every
\* motion of the robot would be refused.
ConnectedMayTouch ==
  \A o \in attached : ParentTouch(o) \subseteq touch[o]

=============================================================================
