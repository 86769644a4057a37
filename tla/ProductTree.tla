---------------------------- MODULE ProductTree ----------------------------
(***************************************************************************)
(* The product tree of aist_collision_object_manager.                      *)
(*                                                                         *)
(* Every collision object has one parent: another object (a part it is     *)
(* connected to or touches) or a link of the robot model.  MoveIt knows    *)
(* nothing of this tree: to MoveIt an object is either a world object or   *)
(* attached to a robot link.  CollisionObjectManager keeps the two views   *)
(* in step while the objects are created, removed, attached and detached,  *)
(* and re-roots ("rotates") a product when another of its parts is         *)
(* grasped or put down.                                                    *)
(*                                                                         *)
(* Poses, meshes, markers and subframes are left out.  Touch links and the *)
(* allowed collision matrix are added by module ContactRules.              *)
(*                                                                         *)
(* An operator D_Fault is the definition D with a plausible programming    *)
(* error; no definition uses it.  The README says which property each one  *)
(* of them breaks.                                                         *)
(***************************************************************************)
CONSTANTS
  Objects,    \* IDs of collision objects
  Links,      \* links of the robot model
  World,      \* the planning frame of MoveIt
  NoObject    \* the empty string, where an object ID or a link is expected

ASSUME TreeAssumption ==
  /\ World \in Links
  /\ Objects \cap Links = {}
  /\ NoObject \notin Objects \cup Links

VARIABLES
  parent,     \* _instance_props_dict[o].parent_link, NoObject if no entry
  attached,   \* the IDs that get_attached_objects() of MoveIt returns
  world,      \* the IDs that get_objects() of MoveIt returns
  link        \* link_name of an attached object; World for the others

treeVars == <<parent, attached, world, link>>

-----------------------------------------------------------------------------
(* Reachability along a parent function.  The manager walks the tree by    *)
(* recursive methods; the set that such a method visits is the least one   *)
(* that contains its argument and is closed under its recursive call.      *)

\* The nodes an ascent visits: from a, and from every x in G on to f[x].
Up(U, f, G, a) ==
  {c \in U : \A S \in SUBSET U :
               (a \in S /\ \A x \in S \cap G : f[x] \in S) => c \in S}

\* The nodes a descent visits: from a, and from s on to every x in G with
\* f[x] = s.
Down(U, f, G, a) ==
  {c \in U : \A S \in SUBSET U :
               (a \in S /\ \A x \in G : f[x] \in S => x \in S) => c \in S}

\* No cycle: every non-empty set of nodes has a member whose parent is
\* outside the set.
WellRooted(U, f) ==
  \A S \in SUBSET U : S # {} => \E x \in S : f[x] \notin S

-----------------------------------------------------------------------------
Exists == attached \cup world

TreeTypeOK ==
  /\ parent \in [Objects -> Objects \cup Links \cup {NoObject}]
  /\ attached \subseteq Objects
  /\ world \subseteq Objects
  /\ link \in [Objects -> Links]

TreeInit ==
  /\ parent = [o \in Objects |-> NoObject]
  /\ attached = {}
  /\ world = {}
  /\ link = [o \in Objects |-> World]

-----------------------------------------------------------------------------
(* What the operations compute.                                            *)

\* header.frame_id of an object, or the link itself.
FrameOf_Itself(x) == x
FrameOf(x) == IF x \in Links THEN x ELSE link[x]

\* The ascent of _rotate_tree goes on from an attached object whose parent
\* is an object other than leaf.
Climbing(leaf) == {o \in attached : parent[o] \in Exists \ {leaf}}

\* The objects _rotate_tree visits from o, o and the old root included.
Chain(o, leaf) == Up(Objects, parent, Climbing(leaf), o)

\* The object from which the ascent came to c.
CameFrom(o, leaf, c) ==
  CHOOSE d \in Chain(o, leaf) \cap Climbing(leaf) : parent[d] = c

\* The parents after _rotate_tree, which makes each object of the chain the
\* child of its own child, and after the assignment of o's new parent.
Rerooted_NoAssignment(o, p, leaf) ==
  [c \in Objects |-> IF c \in Chain(o, leaf) \ {o} THEN CameFrom(o, leaf, c)
                     ELSE parent[c]]
Rerooted_NoReversal(o, p, leaf) == [parent EXCEPT ![o] = p]
Rerooted(o, p, leaf) ==
  [c \in Objects |-> CASE c = o -> p
                       [] c \in Chain(o, leaf) \ {o} -> CameFrom(o, leaf, c)
                       [] OTHER -> parent[c]]

\* The objects _attach_or_detach_descendants visits from o.
Subtree_Itself(par, att, o) == {o}
Subtree_Children(par, att, o) == {o} \cup {x \in att : par[x] = o}
Subtree(par, att, o) == Down(Objects, par, att, o)

\* The frames above o in tf, removed objects that are still referred to
\* included.
Ancestors(o) ==
  Up(Objects, parent, {x \in Objects : parent[x] \in Objects}, o)

\* The transforms that connect o to the robot are all being broadcast.
Grounded(o) == Ancestors(o) \subseteq Exists

\* lookup_transform(p, o) succeeds.
TfConnected(o, p) ==
  \/ Grounded(o) /\ (p \in Links \/ Grounded(p))
  \/ p \in Objects /\ Ancestors(o) \cap Ancestors(p) # {}

\* What the callers of attach_object and detach_object see to: the new
\* parent is not a part of the piece that is re-rooted at o.
Foreign(o, p, leaf) ==
  p \in Links \/ Ancestors(p) \cap Chain(o, leaf) = {}

-----------------------------------------------------------------------------
(* The operations.                                                         *)

\* create_object.  The callers use an ID that no object refers to.
CreateObject(o, p) ==
  /\ o \notin Exists
  /\ \A x \in Objects : parent[x] # o
  /\ parent' = [parent EXCEPT ![o] = p]
  /\ world' = world \cup {o}
  /\ link' = [link EXCEPT ![o] = World]
  /\ UNCHANGED attached

\* remove_object with an ID.  Objects whose parent is removed keep the
\* reference to it.
RemoveObject_KeepsEntry(o) ==
  /\ o \in Exists
  /\ attached' = attached \ {o}
  /\ world' = world \ {o}
  /\ link' = [link EXCEPT ![o] = World]
  /\ UNCHANGED parent
RemoveObject(o) ==
  /\ o \in Exists
  /\ parent' = [parent EXCEPT ![o] = NoObject]
  /\ attached' = attached \ {o}
  /\ world' = world \ {o}
  /\ link' = [link EXCEPT ![o] = World]

\* remove_object without arguments.
RemoveAllObjects ==
  /\ Exists # {}
  /\ parent' = [o \in Objects |-> NoObject]
  /\ attached' = {}
  /\ world' = {}
  /\ link' = [o \in Objects |-> World]

\* attach_object past the lookup of the transform; when that fails the
\* method returns without having changed anything.
AttachObject(o, p, leaf) ==
  /\ o \in Exists
  /\ TfConnected(o, p)
  /\ parent' = Rerooted(o, p, leaf)
  /\ attached' = attached \cup Chain(o, leaf)
  /\ world' = world \ Chain(o, leaf)
  /\ link' = [x \in Objects |-> IF x \in Subtree(parent', attached', o)
                                THEN FrameOf(p) ELSE link[x]]

\* detach_object past the lookup of the transform.
DetachObject(o, p, leaf) ==
  /\ o \in attached
  /\ TfConnected(o, p)
  /\ parent' = Rerooted(o, p, leaf)
  /\ attached' = (attached \cup Chain(o, leaf)) \ {o}
  /\ world' = (world \ Chain(o, leaf)) \cup {o}
  /\ link' = [x \in Objects |-> IF x \in Subtree(parent', attached', o)
                                THEN World ELSE link[x]]

Frames == Links \cup Exists

TreeNext ==
  \/ \E o \in Objects, p \in Frames : CreateObject(o, p)
  \/ \E o \in Objects : RemoveObject(o)
  \/ RemoveAllObjects
  \/ \E o \in Objects, p \in Frames, leaf \in Objects \cup {NoObject} :
       Foreign(o, p, leaf) /\ AttachObject(o, p, leaf)
  \/ \E o \in Objects, p \in Frames, leaf \in Objects \cup {NoObject} :
       Foreign(o, p, leaf) /\ DetachObject(o, p, leaf)

TreeSpec == TreeInit /\ [][TreeNext]_treeVars

-----------------------------------------------------------------------------
(* Properties.                                                             *)

\* MoveIt holds an object once, as a world object or as an attached one,
\* and it holds exactly the objects that have an entry in
\* _instance_props_dict, the ones whose subframes and markers
\* _subframes_and_markers_cb keeps publishing.
SceneMatchesTree ==
  /\ attached \cap world = {}
  /\ \A o \in Objects : o \in Exists <=> parent[o] # NoObject

\* However often products are re-rooted, attached and cut, the parents form
\* no cycle ("maintain tree structure of collision objects").  A cycle would
\* make tf lookups fail and _attach_or_detach_descendants recurse for ever.
Rooted == WellRooted(Objects, parent)

\* A world object is described in the planning frame, and an attached object
\* hangs on the same robot link as its parent: what attach_object gives to
\* one object reaches every object connected to it.
SharedAttachLink ==
  /\ \A o \in Objects \ attached : link[o] = World
  /\ \A o \in attached :
       parent[o] \in Frames => link[o] = FrameOf(parent[o])

\* All objects of a product point to one and the same outer link: the link
\* its root is attached to, or the planning frame if the root is a world
\* object (README.md of the package, the implementation section).
ProductSharesOuterLink ==
  \A o \in Exists : \A r \in Chain(o, NoObject) \ Climbing(NoObject) :
    /\ link[o] = link[r]
    /\ r \in attached /\ parent[r] \in Links => link[o] = parent[r]

\* The connections between parts, whichever part is the parent.
Arcs == {{c, parent[c]} : c \in {x \in attached : parent[x] \in Exists}}

\* Re-rooting, attaching and detaching keep a product whole: unless objects
\* are removed at most one connection is cut (the one to leaf), and at most
\* one is made (the one to the new parent) besides those reversed.
ProductKeptWhole ==
  [][Exists \subseteq Exists' =>
       /\ \A x, y \in Arcs \ Arcs' : x = y
       /\ \A x, y \in Arcs' \ Arcs : x = y]_treeVars

=============================================================================
