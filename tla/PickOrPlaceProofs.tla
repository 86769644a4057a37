-------------------------- MODULE PickOrPlaceProofs --------------------------
(***************************************************************************)
(* The pick-or-place server, for every number of robots, objects and links *)
(* and every scene.                                                        *)
(*                                                                         *)
(* Goals are executed one at a time, or at most one object serves as a     *)
(* place (Orderly).  If objects stand on several others while goals are    *)
(* executed beside each other, the place to which a pick that failed       *)
(* returns may come to stand on what was picked.  In either case nobody is *)
(* told to pick what it already holds, which makes a cycle of parents.     *)
(* What the contacts are needs one goal at a time (OneGoal): the copy of   *)
(* the ACM that a goal works on goes stale.                                *)
(***************************************************************************)
EXTENDS PickOrPlace, ContactRulesProofs, FiniteSetTheorems

OneGoal == MaxBusy = 1 /\ ~ RepeatPicks

\* At most one object serves as a place, and no tool.
Places == Links \cup Targets
OneTarget ==
  /\ \A a, b \in Targets \cap Objects : a = b
  /\ Targets \cap Tools = {}
  /\ \A scene \in Scenes, x \in Objects :
       x \notin scene.attached => scene.parent[x] \in Places \cup {NoObject}

Orderly == ~ RepeatPicks /\ (MaxBusy = 1 \/ OneTarget)

\* Nothing that is referred to as a parent is missing.
ParentsExist == \A o \in Exists : parent[o] \in Links \cup Exists

\* Tools are on the gripper of their robot, which is nobody else's.
Mounted ==
  /\ ToolsStayMounted
  /\ \A r \in Robots : GripperLink(parent, r) \in Links \ {Fixture}
  /\ \A q, r \in Robots : GripperLink(parent, q) = GripperLink(parent, r) => q = r

\* What every operation on the tree has to keep.
SceneInv == ContactInv /\ ParentsExist /\ Mounted

\* A goal has not touched the tree yet, and may attach and detach what it is
\* about: what is re-rooted contains no tool and not the new parent.
Before == {"move", "approach", "allowing", "approaching", "grasp"}
MayPick(r, g) ==
  /\ g.frame = Tip[r]
  /\ Chain(g.object, NoObject) \cap Tools = {}
MayPlace(r, g) ==
  /\ g.frame \in Frames \cap Targets
  /\ Foreign(g.object, g.frame, ToolOf(r))
  /\ Chain(g.object, ToolOf(r)) \cap Tools = {}

\* The object is grasped, and the old root can go back to where it was.
MayReturn(r, g) ==
  /\ g.root \in Exists
  /\ g.object \in Chain(g.root, ToolOf(r))
  /\ g.rootParent \in Frames
  /\ OneTarget => g.rootParent \in Places
  /\ Foreign(g.root, g.rootParent, ToolOf(r))
  /\ Chain(g.root, ToolOf(r)) \cap Tools = {}

\* The object is placed, and carries what it was part of.
Placed(g) == g.root \in Exists /\ g.object \in Chain(g.root, NoObject)

\* Two objects are parts of one product.
Meet(a, b) == Chain(a, NoObject) \cap Chain(b, NoObject) # {}

Fits(r, g) ==
  /\ g.object \in Exists \ Tools
  /\ g.root \in {NoObject} \cup (Exists \ Tools)
  /\ g.root # NoObject => Meet(g.object, g.root)
  /\ g.stage \in Before => IF g.pick THEN MayPick(r, g) ELSE MayPlace(r, g)
  /\ g.stage \in {"depart", "verify"} /\ g.pick => MayReturn(r, g)
  /\ g.stage = "depart" /\ ~ g.pick => Placed(g)

\* World objects stand on places.
Standing == \A x \in world : parent[x] \in Places

\* No other goal is about the product of o, and no other robot holds it by its
\* tool.
Alone(r, o) ==
  \A q \in Robots \ {r} :
    /\ ToolOf(q) \notin Chain(o, NoObject)
    /\ goal[q] # Idle => ~ Meet(goal[q].object, o)

\* Goals are about different products.
Separate == \A r \in Busy : Alone(r, goal[r].object)

PickInv ==
  /\ SceneInv
  /\ goal \in [Robots -> Goals \cup {Idle}]
  /\ MaxBusy = 1 => \A q, r \in Busy : q = r
  /\ OneTarget => Standing /\ Separate
  /\ \A r \in Robots, g \in Goals : goal[r] = g => Fits(r, g)

-----------------------------------------------------------------------------
(* Chains.                                                                 *)

\* An ascent has one top: the node from which it does not go on.
LEMMA UpTop ==
  ASSUME NEW U, NEW f, NEW G, NEW a \in U, \A x \in U \cap G : f[x] \in U, WellRooted(U, f)
  PROVE  \E c \in Up(U, f, G, a) : c \notin G
<1>1. Up(U, f, G, a) \in SUBSET U /\ Up(U, f, G, a) # {}
  BY UpElement
<1>2. PICK c \in Up(U, f, G, a) : f[c] \notin Up(U, f, G, a)
  BY <1>1 DEF WellRooted
<1>3. c \notin G
  BY <1>1, <1>2, UpClosed
<1>. QED
  BY <1>3

LEMMA OneTop ==
  ASSUME NEW U, NEW f, NEW G, NEW a \in U, \A x \in U \cap G : f[x] \in U,
         NEW c \in Up(U, f, G, a) \ G, NEW d \in Up(U, f, G, a) \ G
  PROVE  c = d
<1>1. c \in U /\ d \in U
  BY UpElement
<1>2. c \in Up(U, f, G, d) \/ d \in Up(U, f, G, c)
  BY UpTotal
<1>. QED
  BY <1>1, <1>2, UpUnfold

\* Ascents that meet have the same top.
LEMMA SameTop ==
  ASSUME NEW U, NEW f, NEW G, NEW a \in U, NEW b \in U, \A x \in U \cap G : f[x] \in U,
         WellRooted(U, f), Up(U, f, G, a) \cap Up(U, f, G, b) # {},
         NEW c \in Up(U, f, G, a) \ G
  PROVE  c \in Up(U, f, G, b)
<1>1. PICK x : x \in Up(U, f, G, a) /\ x \in Up(U, f, G, b)
  OBVIOUS
<1>2. x \in U
  BY <1>1, UpElement
<1>3. PICK d \in Up(U, f, G, x) : d \notin G
  BY <1>2, UpTop
<1>4. d \in Up(U, f, G, a) /\ d \in Up(U, f, G, b)
  BY <1>1, <1>3, UpTransitive
<1>5. d = c
  BY <1>3, <1>4, OneTop
<1>. QED
  BY <1>4, <1>5

\* An ascent that comes to none of the nodes of C is the same whatever becomes of
\* them.
LEMMA UpFrame ==
  ASSUME NEW U, NEW f, NEW h, NEW G, NEW H, NEW C, NEW a \in U,
         \A x \in U \cap G : f[x] \in U,
         \A x \in U \ C : h[x] = f[x] /\ (x \in H <=> x \in G),
         Up(U, f, G, a) \cap C = {}
  PROVE  Up(U, h, H, a) = Up(U, f, G, a)
<1>. DEFINE S == Up(U, f, G, a)
            T == Up(U, h, H, a)
<1>1. a \in S /\ a \in T /\ S \in SUBSET U /\ T \in SUBSET U /\ S \subseteq U \ C
  BY UpElement
<1>2. T \subseteq S
  <2>1. \A x \in S \cap H : h[x] \in S
    <3>. TAKE x \in S \cap H
    <3>1. x \in U \ C /\ x \in G /\ h[x] = f[x] /\ f[x] \in U
      BY <1>1
    <3>. QED
      BY <3>1, UpClosed
  <2>. HIDE DEF S
  <2>. QED
    BY <1>1, <2>1, UpMinimal
<1>3. S \subseteq T
  <2>1. ASSUME NEW x \in (S \cap T) \cap G PROVE f[x] \in S \cap T
    <3>1. x \in U \ C /\ x \in H /\ h[x] = f[x] /\ f[x] \in U
      BY <1>1
    <3>2. f[x] \in S
      BY <3>1, UpClosed
    <3>3. h[x] \in T
      BY <3>1, UpClosed
    <3>. QED
      BY <3>1, <3>2, <3>3
  <2>2. S \cap T \in SUBSET U /\ a \in S \cap T
    BY <1>1
  <2>3. S \subseteq S \cap T
    <3>. DEFINE V == S \cap T
    <3>. HIDE DEF V, T
    <3>1. V \in SUBSET U /\ a \in V /\ \A x \in V \cap G : f[x] \in V
      BY <2>1, <2>2 DEF V
    <3>2. S \subseteq V
      BY <3>1, UpMinimal
    <3>. QED
      BY <3>2 DEF V
  <2>. QED
    BY <2>3
<1>. QED
  BY <1>2, <1>3

\* After the chain from o has been reversed, one climbs from each of its members
\* to o, and no further if o does not climb.
LEMMA ReversedChain ==
  ASSUME TreeInv, NEW o \in Exists, NEW p \in Frames, NEW leaf,
         NEW np, np = Rerooted(o, p, leaf),
         NEW H \in SUBSET Objects, \A x \in H : np[x] \in Objects,
         Chain(o, leaf) \ {o} \subseteq H, o \notin H,
         NEW c \in Chain(o, leaf)
  PROVE  /\ o \in Up(Objects, np, H, c)
         /\ Up(Objects, np, H, c) \subseteq Chain(o, leaf)
<1>. DEFINE C == Chain(o, leaf)
            G == Climbing(leaf)
<1>1. /\ o \in Objects /\ o \in C /\ C \in SUBSET Objects
      /\ \A x \in C \cap G : parent[x] \in C /\ parent[x] # o
  BY ChainFacts DEF Exists, TreeInv, TreeTypeOK
<1>2. /\ \A x \in C \ {o} : np[x] \in C \cap G
      /\ \A x \in C \cap G : np[parent[x]] = x
  <2>. HIDE DEF C, G
  <2>. QED
    BY RerootedFacts DEF C, G
<1>3. Up(Objects, np, H, c) \subseteq C
  <2>1. \A x \in C \cap H : np[x] \in C
    BY <1>2
  <2>. HIDE DEF C
  <2>. QED
    BY <1>1, <2>1, UpMinimal DEF C
<1>4. o \in Up(Objects, np, H, c)
  <2>. DEFINE S == {x \in C : o \in Up(Objects, np, H, x)}
  <2>1. o \in S /\ S \in SUBSET Objects
    BY <1>1, UpElement
  <2>2. ASSUME NEW x \in S \cap G PROVE parent[x] \in S
    <3>1. parent[x] \in C /\ parent[x] # o /\ parent[x] \in Objects /\ np[parent[x]] = x
      BY <1>1, <1>2
    <3>2. parent[x] \in H
      BY <3>1
    <3>3. parent[x] \in Up(Objects, np, H, parent[x])
      BY <3>1, UpElement
    <3>4. x \in Objects /\ x \in Up(Objects, np, H, parent[x])
      <4>1. x \in Objects
        BY <2>1
      <4>. HIDE DEF S, C, G
      <4>. QED
        BY <3>1, <3>2, <3>3, <4>1, UpClosed
    <3>5. Up(Objects, np, H, x) \subseteq Up(Objects, np, H, parent[x])
      <4>. HIDE DEF S, C, G
      <4>. QED
        BY <3>1, <3>4, UpTransitive
    <3>. QED
      BY <3>1, <3>5
  <2>3. C \subseteq S
    <3>. HIDE DEF S
    <3>. QED
      BY <1>1, <2>1, <2>2, UpMinimal DEF Chain
  <2>. QED
    BY <2>3
<1>. QED
  BY <1>3, <1>4

\* From the old root one climbs along the whole chain.
LEMMA ReversedWhole ==
  ASSUME TreeInv, NEW o \in Exists, NEW p \in Frames, NEW leaf,
         NEW np, np = Rerooted(o, p, leaf),
         NEW H \in SUBSET Objects, \A x \in H : np[x] \in Objects,
         Chain(o, leaf) \ {o} \subseteq H, o \notin H,
         NEW root \in Chain(o, leaf) \ Climbing(leaf)
  PROVE  Up(Objects, np, H, root) = Chain(o, leaf)
<1>. DEFINE C == Chain(o, leaf)
            G == Climbing(leaf)
            T == C \ Up(Objects, np, H, root)
<1>1. /\ C \in SUBSET Objects
      /\ \A x \in C \cap G : parent[x] \in C /\ parent[x] # o
  BY ChainFacts DEF Exists, TreeInv, TreeTypeOK
<1>2. \A x \in C \cap G : np[parent[x]] = x
  <2>1. \A x \in C \cap G : np[parent[x]] \in C \cap G /\ parent[np[parent[x]]] = parent[x]
    <3>. HIDE DEF C, G
    <3>. QED
      BY <1>1, RerootedFacts DEF C, G
  <2>2. \A x, y \in C \cap G : parent[x] = parent[y] => x = y
    <3>1. o \in Objects /\ \A x \in Objects \cap G : parent[x] \in Objects
      BY ChainFacts DEF Exists, TreeInv, TreeTypeOK
    <3>. HIDE DEF G
    <3>. QED
      BY <3>1, UpInjective DEF Chain, G, TreeInv, Rooted
  <2>. QED
    BY <2>1, <2>2
<1>3. root \in Up(Objects, np, H, root) /\ root \in Objects
  BY <1>1, UpElement
<1>4. T = {}
  <2>. SUFFICES ASSUME T # {} PROVE FALSE
    OBVIOUS
  <2>1. PICK x \in T : parent[x] \notin T
    BY <1>1 DEF TreeInv, Rooted, WellRooted
  <2>2. x # root /\ x \in C \cap G
    <3>1. x \in C /\ x # root
      BY <1>3, <2>1
    <3>2. x \in G
      <4>. HIDE DEF C, G, T
      <4>. QED
        BY <3>1, ChainTop DEF C, G
    <3>. QED
      BY <3>1, <3>2
  <2>3. parent[x] \in C /\ parent[x] # o /\ np[parent[x]] = x /\ x \in Objects
    BY <1>1, <1>2, <2>2
  <2>4. parent[x] \in H /\ parent[x] \in Up(Objects, np, H, root)
    BY <2>1, <2>3
  <2>5. x \in Up(Objects, np, H, root)
    <3>. HIDE DEF C, G, T
    <3>. QED
      BY <1>3, <2>3, <2>4, UpClosed
  <2>. QED
    BY <2>1, <2>5
<1>5. Up(Objects, np, H, root) \subseteq C
  BY ReversedChain
<1>. HIDE DEF C
<1>. QED
  BY <1>4, <1>5 DEF C

\* What one climbs stopping at a leaf one climbs without the leaf, too.
LEMMA ChainStops ==
  ASSUME TreeInv, NEW o \in Exists, NEW leaf
  PROVE  Chain(o, leaf) \subseteq Chain(o, NoObject)
<1>1. Climbing(leaf) \subseteq Climbing(NoObject) /\ o \in Objects
  BY TreeAssumption DEF Climbing, Exists, TreeInv, TreeTypeOK
<1>2. \A y \in Objects \cap Climbing(NoObject) : parent[y] \in Objects
  BY ChainFacts
<1>. QED
  BY <1>1, <1>2, UpMonotone DEF Chain

\* Being parts of one product is an equivalence.
LEMMA MeetFacts ==
  ASSUME TreeInv, NEW a \in Exists, NEW b \in Exists
  PROVE  /\ Meet(a, a)
         /\ Meet(a, b) => Meet(b, a)
         /\ b \in Chain(a, NoObject) => Meet(a, b)
         /\ Meet(a, b) => \A c \in Chain(a, NoObject) \ Climbing(NoObject) : c \in Chain(b, NoObject)
         /\ Meet(a, b) => \A c \in Exists : Meet(b, c) => Meet(a, c)
<1>. DEFINE G == Climbing(NoObject)
<1>1. /\ Exists \subseteq Objects /\ \A x \in Objects \cap G : parent[x] \in Objects
      /\ WellRooted(Objects, parent)
  BY ChainFacts DEF TreeInv, TreeTypeOK, Exists, Rooted
<1>. HIDE DEF G
<1>2. ASSUME NEW x \in Exists, NEW y \in Exists, Meet(x, y), NEW c \in Chain(x, NoObject) \ G
      PROVE  c \in Chain(y, NoObject)
  BY <1>1, <1>2, SameTop DEF Meet, Chain, G
<1>3. ASSUME Meet(a, b), NEW c \in Exists, Meet(b, c) PROVE Meet(a, c)
  <2>1. PICK d \in Chain(b, NoObject) : d \notin G
    BY <1>1, UpTop DEF Chain, G
  <2>2. Meet(b, a)
    BY <1>3 DEF Meet
  <2>3. d \in Chain(a, NoObject) /\ d \in Chain(c, NoObject)
    BY <1>2, <1>3, <2>1, <2>2
  <2>. QED
    BY <2>3 DEF Meet
<1>4. a \in Chain(a, NoObject) /\ b \in Chain(b, NoObject)
  BY ChainFacts
<1>. QED
  BY <1>2, <1>3, <1>4 DEF Meet, G

\* _rotate_tree finds the old root.
LEMMA OldRootFacts ==
  ASSUME TreeInv, NEW o \in Exists, NEW leaf
  PROVE  OldRoot(o, leaf) \in Chain(o, leaf) \ Climbing(leaf)
<1>1. /\ o \in Chain(o, leaf) /\ Chain(o, leaf) \in SUBSET Objects
      /\ \A x \in Chain(o, leaf) \cap Climbing(leaf) : parent[x] \in Chain(o, leaf)
  BY ChainFacts DEF Exists, TreeInv, TreeTypeOK
<1>2. \E c \in Chain(o, leaf) : c \notin Climbing(leaf)
  BY <1>1 DEF TreeInv, Rooted, WellRooted
<1>. QED
  BY <1>2 DEF OldRoot

\* What the old root stands on is not part of the piece.
LEMMA RootStandsElsewhere ==
  ASSUME TreeInv, NEW o \in Exists, NEW root \in Chain(o, NoObject) \ Climbing(NoObject),
         parent[root] \in Objects
  PROVE  Ancestors(parent[root]) \cap Chain(o, NoObject) = {}
<1>. DEFINE G == Climbing(NoObject)
            H == {x \in Objects : parent[x] \in Objects}
<1>. SUFFICES ASSUME NEW y \in Ancestors(parent[root]), y \in Chain(o, NoObject) PROVE FALSE
  OBVIOUS
<1>1. o \in Objects /\ root \in Objects /\ y \in Objects
  BY ChainFacts DEF Exists, TreeInv, TreeTypeOK
<1>2. G \subseteq H /\ \A x \in Objects \cap H : parent[x] \in Objects
  BY DEF Climbing, Exists, TreeInv, TreeTypeOK
<1>3. \A x \in Objects \cap G : parent[x] \in Objects
  BY <1>2
<1>4. root \in Up(Objects, parent, G, y)
  <2>1. y \in Up(Objects, parent, G, root) \/ root \in Up(Objects, parent, G, y)
    <3>. HIDE DEF G
    <3>. QED
      BY <1>1, <1>3, UpTotal DEF Chain, G
  <2>2. ASSUME y \in Up(Objects, parent, G, root), y # root PROVE FALSE
    <3>. HIDE DEF G
    <3>1. root \in G
      BY <1>1, <1>3, <2>2, UpUnfold
    <3>. QED
      BY <3>1 DEF G
  <2>3. y \in Up(Objects, parent, G, y)
    BY <1>1, UpElement
  <2>. QED
    BY <2>1, <2>2, <2>3
<1>5. root \in Up(Objects, parent, H, y)
  <2>. HIDE DEF G, H
  <2>. QED
    BY <1>1, <1>2, <1>4, UpMonotone
<1>6. Up(Objects, parent, H, y) \subseteq Up(Objects, parent, H, parent[root])
  <2>. HIDE DEF H
  <2>. QED
    BY <1>2, UpTransitive DEF Ancestors, H
<1>7. root \in Objects \cap H
  BY <1>1
<1>. HIDE DEF H
<1>. QED
  BY <1>2, <1>5, <1>6, <1>7, UpNoReturn DEF TreeInv, Rooted

\* A tool is above nothing but itself: it is mounted on a link.
LEMMA ToolStandsAlone ==
  ASSUME TreeInv, Mounted, NEW t \in Tools
  PROVE  /\ t \in attached /\ t \in Exists /\ t \in Objects
         /\ Ancestors(t) = {t} /\ link[t] = parent[t]
<1>1. t \in attached /\ t \in Objects /\ t \in Exists /\ parent[t] \in Links
  BY DEF Mounted, ToolsStayMounted, Exists, TreeInv, TreeTypeOK
<1>2. parent[t] \notin Objects
  BY <1>1, TreeAssumption
<1>3. Ancestors(t) \subseteq {t} /\ t \in Ancestors(t)
  <2>. DEFINE S == {t}
              H == {x \in Objects : parent[x] \in Objects}
  <2>1. S \in SUBSET Objects /\ t \in S /\ S \cap H = {}
    BY <1>1, <1>2
  <2>2. Up(Objects, parent, H, t) \subseteq S
    <3>. HIDE DEF S, H
    <3>. QED
      BY <1>1, <2>1, UpMinimal
  <2>. QED
    BY <1>1, <2>2, UpElement DEF Ancestors
<1>4. link[t] = parent[t]
  BY <1>1 DEF TreeInv, SharedAttachLink, Frames, FrameOf
<1>. QED
  BY <1>1, <1>3, <1>4

\* So a gripper is a frame to which an object can be attached.
LEMMA TipExists ==
  ASSUME SceneInv, NEW r \in Robots
  PROVE  Tip[r] \in Frames
<1>1. CASE Tip[r] \in Objects
  <2>1. Tip[r] \in Tools
    BY <1>1, TreeAssumption DEF Tools, ToolOf
  <2>. QED
    BY <2>1, ToolStandsAlone DEF Frames, SceneInv, ContactInv
<1>. QED
  BY <1>1, PickOrPlaceAssumption DEF Frames

LEMMA TipIsForeign ==
  ASSUME SceneInv, NEW r \in Robots, NEW o, Chain(o, NoObject) \cap Tools = {}
  PROVE  Tip[r] \in Frames /\ Foreign(o, Tip[r], NoObject)
<1>1. CASE Tip[r] \in Objects
  <2>1. Tip[r] \in Tools
    BY <1>1, TreeAssumption DEF Tools, ToolOf
  <2>2. Ancestors(Tip[r]) = {Tip[r]}
    BY <2>1, ToolStandsAlone DEF SceneInv, ContactInv
  <2>. QED
    BY <2>1, <2>2, TipExists DEF Foreign
<1>. QED
  BY <1>1, PickOrPlaceAssumption, TipExists DEF Foreign

-----------------------------------------------------------------------------
(* What an operation on the tree keeps.                                    *)

LEMMA SceneKept ==
  ASSUME SceneInv, NEW o \in Exists, NEW p \in Frames, NEW leaf \in Objects \cup {NoObject},
         Foreign(o, p, leaf), Chain(o, leaf) \cap Tools = {},
         AttachAndTouch(o, p, leaf) \/ DetachAndTouch(o, p, leaf)
  PROVE  SceneInv' /\ Exists' = Exists /\ Frames' = Frames
<1>1. TreeInv /\ ContactInv
  BY DEF SceneInv, ContactInv
<1>2. o \in Objects /\ o \in Chain(o, leaf) /\ Chain(o, leaf) \subseteq Exists
  BY <1>1, ChainFacts DEF Exists, TreeInv, TreeTypeOK
<1>3. ContactInv'
  <2>1. ContactNext
    BY <1>2 DEF ContactNext
  <2>. QED
    BY <1>1, <2>1, NextContactInv
<1>4. /\ parent' = Rerooted(o, p, leaf)
      /\ attached \subseteq attached' \cup {o}
      /\ Exists' = Exists
  BY <1>2 DEF AttachAndTouch, AttachObject, DetachAndTouch, DetachObject, Exists
<1>5. Frames' = Frames
  BY <1>4 DEF Frames
<1>6. /\ parent'[o] = p
      /\ \A x \in Objects \ Chain(o, leaf) : parent'[x] = parent[x]
      /\ \A x \in Chain(o, leaf) \ {o} : parent'[x] \in Chain(o, leaf)
  BY <1>1, <1>4, RerootedFacts
<1>7. ParentsExist'
  <2>. SUFFICES ASSUME NEW x \in Exists PROVE parent'[x] \in Links \cup Exists
    BY <1>4 DEF ParentsExist
  <2>1. x \in Objects
    BY <1>1 DEF Exists, TreeInv, TreeTypeOK
  <2>. QED
    BY <1>2, <1>6, <2>1 DEF SceneInv, ParentsExist, Frames
<1>8. \A t \in Tools : t \in Objects /\ t \in attached' /\ parent'[t] = parent[t]
  <2>. SUFFICES ASSUME NEW t \in Tools
                PROVE  t \in Objects /\ t \in attached' /\ parent'[t] = parent[t]
    OBVIOUS
  <2>1. t \in attached /\ t \in Objects /\ t \notin Chain(o, leaf) /\ t # o
    BY <1>1, <1>2, ToolStandsAlone DEF SceneInv
  <2>. QED
    BY <1>4, <1>6, <2>1
<1>9. Mounted'
  <2>1. \A r \in Robots : GripperLink(parent', r) = GripperLink(parent, r)
    <3>. SUFFICES ASSUME NEW r \in Robots, Tip[r] \in Objects PROVE parent'[Tip[r]] = parent[Tip[r]]
      BY DEF GripperLink
    <3>1. Tip[r] \in Tools
      BY TreeAssumption DEF Tools, ToolOf
    <3>. QED
      BY <1>8, <3>1
  <2>2. ToolsStayMounted'
    BY <1>8 DEF SceneInv, Mounted, ToolsStayMounted
  <2>. QED
    BY <2>1, <2>2 DEF SceneInv, Mounted
<1>. QED
  BY <1>3, <1>4, <1>5, <1>7, <1>9 DEF SceneInv

\* The object that is fixed or released climbs no more than before, so that all
\* other pieces stay as they are.
LEMMA FixtureKeeps ==
  ASSUME SceneInv, NEW x \in Objects, FixObject(x) \/ ReleaseObject(x)
  PROVE  /\ SceneInv' /\ Exists' = Exists /\ Frames' = Frames
         /\ \A a, leaf : Up(Objects, parent', Climbing(leaf)', a) = Chain(a, leaf)
         /\ \A a : Up(Objects, parent', {y \in Objects : parent'[y] \in Objects}, a) = Ancestors(a)
         /\ \A y \in Objects \ {x} : parent'[y] = parent[y] /\ (y \in attached' <=> y \in attached)
         /\ Chain(x, NoObject) = {x} /\ parent'[x] \in Links
         /\ UNCHANGED <<goal, acm>>
<1>. USE TreeAssumption, PickOrPlaceAssumption
<1>1. TreeInv /\ x \in Exists /\ parent[x] \in Links /\ parent[x] \in {Bench, Fixture}
  BY DEF SceneInv, ContactInv, FixObject, ReleaseObject, Exists
<1>2. \A leaf : x \notin Climbing(leaf)
  BY <1>1 DEF Climbing, Exists, TreeInv, TreeTypeOK
<1>3. Chain(x, NoObject) = {x}
  <2>. DEFINE S == {x}
  <2>1. S \in SUBSET Objects /\ x \in S /\ S \cap Climbing(NoObject) = {}
    BY <1>2
  <2>2. Up(Objects, parent, Climbing(NoObject), x) \subseteq S
    <3>. HIDE DEF S
    <3>. QED
      BY <2>1, UpMinimal
  <2>. QED
    BY <2>2, UpElement DEF Chain
<1>4. x \notin Tools
  <2>. SUFFICES ASSUME x \in Tools PROVE FALSE
    OBVIOUS
  <2>1. x \in attached /\ x \notin world
    BY <1>1, ToolStandsAlone DEF SceneInv, TreeInv, SceneMatchesTree
  <2>2. parent[x] = Fixture
    BY <2>1 DEF FixObject, ReleaseObject
  <2>3. PICK r \in Robots : x = Tip[r] /\ Tip[r] \in Objects
    BY DEF Tools, ToolOf
  <2>. QED
    BY <2>2, <2>3 DEF SceneInv, Mounted, GripperLink
<1>5. PICK p \in {Fixture, Bench} : AttachAndTouch(x, p, NoObject) \/ DetachAndTouch(x, p, NoObject)
  BY DEF FixObject, ReleaseObject
<1>6. p \in Links /\ p \in Frames /\ Foreign(x, p, NoObject)
  BY DEF Frames, Foreign
<1>7. SceneInv' /\ Exists' = Exists /\ Frames' = Frames
  BY <1>1, <1>3, <1>4, <1>5, <1>6, SceneKept
<1>8. parent' = [parent EXCEPT ![x] = p] /\ attached' \cup {x} = attached \cup {x}
  <2>1. parent' = Rerooted(x, p, NoObject)
    BY <1>5 DEF AttachAndTouch, AttachObject, DetachAndTouch, DetachObject
  <2>2. parent \in [Objects -> Objects \cup Links \cup {NoObject}]
    BY <1>1 DEF TreeInv, TreeTypeOK
  <2>3. parent' = [c \in Objects |-> IF c = x THEN p ELSE parent[c]]
    BY <1>3, <2>1 DEF Rerooted
  <2>. QED
    BY <1>3, <1>5, <2>2, <2>3
    DEF AttachAndTouch, AttachObject, DetachAndTouch, DetachObject
<1>9. \A y \in Objects : y # x => parent'[y] = parent[y]
  BY <1>1, <1>8 DEF TreeInv, TreeTypeOK
<1>10. parent'[x] = p
  BY <1>1, <1>8 DEF TreeInv, TreeTypeOK
<1>11. ASSUME NEW leaf PROVE Climbing(leaf)' = Climbing(leaf)
  <2>1. attached \subseteq Objects /\ attached' \subseteq Objects /\ Exists \subseteq Objects
    BY <1>1, <1>7 DEF SceneInv, ContactInv, TreeInv, TreeTypeOK, Exists
  <2>2. x \notin Climbing(leaf)'
    BY <1>6, <1>7, <1>10, <2>1 DEF Climbing
  <2>. QED
    BY <1>2, <1>7, <1>8, <1>9, <2>1, <2>2 DEF Climbing
<1>12. ASSUME NEW a, NEW leaf PROVE Up(Objects, parent', Climbing(leaf)', a) = Chain(a, leaf)
  <2>1. \A y \in Climbing(leaf) : parent'[y] = parent[y]
    BY <1>1, <1>2, <1>9 DEF Climbing, TreeInv, TreeTypeOK
  <2>2. Up(Objects, parent', Climbing(leaf), a) = Up(Objects, parent, Climbing(leaf), a)
    BY <2>1, UpAgree
  <2>. QED
    BY <1>11, <2>2 DEF Chain
<1>13. ASSUME NEW a
       PROVE  Up(Objects, parent', {y \in Objects : parent'[y] \in Objects}, a) = Ancestors(a)
  <2>. DEFINE H == {y \in Objects : parent[y] \in Objects}
  <2>1. {y \in Objects : parent'[y] \in Objects} = H
    BY <1>1, <1>6, <1>9, <1>10
  <2>2. \A y \in H : parent'[y] = parent[y]
    BY <1>1, <1>9
  <2>3. Up(Objects, parent', H, a) = Up(Objects, parent, H, a)
    <3>. HIDE DEF H
    <3>. QED
      BY <2>2, UpAgree
  <2>. QED
    BY <2>1, <2>3 DEF Ancestors
<1>14. UNCHANGED <<goal, acm>>
  BY DEF FixObject, ReleaseObject, AttachAndTouch, DetachAndTouch
<1>. QED
  BY <1>3, <1>6, <1>7, <1>8, <1>9, <1>10, <1>12, <1>13, <1>14

\* What the steps of a goal of robot r do to the tree: they attach o to its
\* gripper or put it onto a place.
Turned(r, o, p, leaf) ==
  /\ o \in Exists /\ p \in Frames /\ leaf \in Objects \cup {NoObject}
  /\ Foreign(o, p, leaf)
  /\ Chain(o, leaf) \cap Tools = {}
  /\ \/ AttachAndTouch(o, p, leaf) /\ p = Tip[r]
     \/ DetachAndTouch(o, p, leaf) /\ (OneTarget => p \in Places)

LEMMA TurnFacts ==
  ASSUME SceneInv, NEW r \in Robots, NEW o, NEW p, NEW leaf, Turned(r, o, p, leaf)
  PROVE  /\ SceneInv' /\ Exists' = Exists /\ Frames' = Frames
         /\ parent' = Rerooted(o, p, leaf)
         /\ TreeInv /\ Exists \subseteq Objects
         /\ Chain(o, leaf) \subseteq Exists /\ o \in Chain(o, leaf)
         /\ ToolOf(r) \notin Chain(o, leaf)
         /\ \A x \in Objects \ Chain(o, leaf) :
              /\ parent'[x] = parent[x]
              /\ (x \in attached' <=> x \in attached) /\ (x \in world' <=> x \in world)
         /\ \A x \in Chain(o, leaf) \ {o} : parent'[x] \in Chain(o, leaf) /\ x \in attached'
         /\ parent'[o] = p /\ (o \in attached' => p = Tip[r])
<1>1. o \in Exists /\ p \in Frames /\ leaf \in Objects \cup {NoObject} /\ TreeInv
  BY DEF Turned, SceneInv, ContactInv
<1>2. Exists \subseteq Objects /\ Chain(o, leaf) \subseteq Exists /\ o \in Chain(o, leaf)
  BY <1>1, ChainFacts DEF TreeInv, TreeTypeOK, Exists
<1>3. SceneInv' /\ Exists' = Exists /\ Frames' = Frames
  BY <1>1, SceneKept DEF Turned
<1>4. /\ parent' = Rerooted(o, p, leaf)
      /\ \/ attached' = attached \cup Chain(o, leaf) /\ p = Tip[r]
            /\ world' = world \ Chain(o, leaf)
         \/ attached' = (attached \cup Chain(o, leaf)) \ {o}
            /\ world' = (world \ Chain(o, leaf)) \cup {o}
  BY DEF Turned, AttachAndTouch, AttachObject, DetachAndTouch, DetachObject
<1>5. /\ parent'[o] = p
      /\ \A x \in Objects \ Chain(o, leaf) : parent'[x] = parent[x]
      /\ \A x \in Chain(o, leaf) \ {o} : parent'[x] \in Chain(o, leaf)
  BY <1>1, <1>4, RerootedFacts
<1>6. ToolOf(r) \notin Chain(o, leaf)
  BY <1>2, TreeAssumption DEF Turned, Tools
<1>. QED
  BY <1>1, <1>2, <1>3, <1>4, <1>5, <1>6

\* Other pieces stay as they are, and a piece that is apart afterwards was so
\* before.
LEMMA TurnFrame ==
  ASSUME SceneInv, NEW r \in Robots, NEW o, NEW p, NEW leaf, Turned(r, o, p, leaf),
         NEW a \in Exists
  PROVE  /\ Chain(a, NoObject) \cap Chain(o, leaf) = {} =>
              \A l : Chain(a, l)' = Chain(a, l)
         /\ Chain(a, NoObject)' \cap Chain(o, leaf) = {} =>
              Chain(a, NoObject)' = Chain(a, NoObject)
<1>. DEFINE C == Chain(o, leaf)
<1>1. /\ Exists' = Exists /\ TreeInv /\ Exists \subseteq Objects /\ C \subseteq Exists
      /\ \A x \in Objects \ C : parent'[x] = parent[x] /\ (x \in attached' <=> x \in attached)
      /\ \A x \in Objects \cap attached' : parent'[x] \in Objects \cup Links \cup {NoObject}
      /\ attached \subseteq Objects /\ attached' \subseteq Objects
  BY TurnFacts DEF SceneInv, ContactInv, TreeInv, TreeTypeOK
<1>. HIDE DEF C
<1>2. ASSUME NEW l PROVE \A x \in Objects \ C : x \in Climbing(l)' <=> x \in Climbing(l)
  BY <1>1 DEF Climbing
<1>3. ASSUME NEW l
      PROVE  /\ \A x \in Objects \cap Climbing(l) : parent[x] \in Objects
             /\ \A x \in Objects \cap Climbing(l)' : parent'[x] \in Objects
  BY <1>1 DEF Climbing
<1>4. ASSUME Chain(a, NoObject) \cap C = {}, NEW l PROVE Chain(a, l)' = Chain(a, l)
  <2>1. Chain(a, l) \cap C = {}
    BY <1>1, <1>4, ChainStops
  <2>. DEFINE G == Climbing(l)
              H == Climbing(l)'
  <2>2. /\ a \in Objects /\ \A x \in Objects \cap G : parent[x] \in Objects
        /\ \A x \in Objects \ C : parent'[x] = parent[x] /\ (x \in H <=> x \in G)
    BY <1>1, <1>2, <1>3
  <2>3. Chain(a, l) = Up(Objects, parent, G, a) /\ Chain(a, l)' = Up(Objects, parent', H, a)
    BY DEF Chain
  <2>. HIDE DEF G, H
  <2>4. Up(Objects, parent, G, a) \cap C = {}
    BY <2>1, <2>3
  <2>5. Up(Objects, parent', H, a) = Up(Objects, parent, G, a)
    BY <2>2, <2>4, UpFrame
  <2>. QED
    BY <2>3, <2>5
<1>5. ASSUME Chain(a, NoObject)' \cap C = {} PROVE Chain(a, NoObject)' = Chain(a, NoObject)
  <2>. DEFINE G == Climbing(NoObject)
              H == Climbing(NoObject)'
  <2>2. /\ a \in Objects /\ \A x \in Objects \cap H : parent'[x] \in Objects
        /\ \A x \in Objects \ C : parent[x] = parent'[x] /\ (x \in G <=> x \in H)
    BY <1>1, <1>2, <1>3
  <2>3. /\ Chain(a, NoObject) = Up(Objects, parent, G, a)
        /\ Chain(a, NoObject)' = Up(Objects, parent', H, a)
    BY DEF Chain
  <2>. HIDE DEF G, H
  <2>4. Up(Objects, parent', H, a) \cap C = {}
    BY <1>5, <2>3
  <2>5. Up(Objects, parent, G, a) = Up(Objects, parent', H, a)
    BY <2>2, <2>4, UpFrame
  <2>. QED
    BY <2>3, <2>5
<1>. QED
  BY <1>4, <1>5 DEF C

\* From every part of the piece one climbs to o, and from there to the gripper at
\* most.
LEMMA TurnGathers ==
  ASSUME SceneInv, NEW r \in Robots, NEW o, NEW p, NEW leaf, Turned(r, o, p, leaf),
         NEW c \in Chain(o, leaf)
  PROVE  /\ o \in Chain(c, NoObject)'
         /\ Chain(c, NoObject)' \subseteq Chain(o, leaf) \cup {ToolOf(r)}
<1>. DEFINE C == Chain(o, leaf)
            H == Climbing(ToolOf(r))'
            G == Climbing(NoObject)'
            S == C \cup ({ToolOf(r)} \cap Objects)
<1>1. /\ SceneInv' /\ Exists' = Exists /\ TreeInv /\ Exists \subseteq Objects
      /\ C \subseteq Exists /\ o \in C /\ ToolOf(r) \notin C
      /\ \A x \in Objects \ C : parent'[x] = parent[x]
      /\ \A x \in C \ {o} : parent'[x] \in C /\ x \in attached'
      /\ parent'[o] = p /\ (o \in attached' => p = Tip[r])
      /\ parent' = Rerooted(o, p, leaf)
  BY TurnFacts
<1>2. o \in Exists /\ p \in Frames
  BY DEF Turned
<1>3. /\ H = {x \in attached' : parent'[x] \in Exists \ {ToolOf(r)}}
      /\ G = {x \in attached' : parent'[x] \in Exists \ {NoObject}}
      /\ attached' \subseteq Objects /\ NoObject \notin Objects
  BY <1>1, TreeAssumption DEF Climbing, SceneInv, ContactInv, TreeInv, TreeTypeOK
<1>4. o \notin H
  <2>1. Tip[r] \notin Exists \ {ToolOf(r)}
    BY <1>1 DEF ToolOf
  <2>. HIDE DEF H
  <2>. QED
    BY <1>1, <1>3, <2>1
<1>5. C \ {o} \subseteq H /\ H \subseteq G /\ H \in SUBSET Objects
      /\ (\A x \in H : parent'[x] \in Objects) /\ (\A x \in G : parent'[x] \in Objects)
  <2>. HIDE DEF H, G, C
  <2>. QED
    BY <1>1, <1>3
<1>6. o \in Up(Objects, parent', H, c)
  <2>. HIDE DEF H
  <2>. QED
    BY <1>1, <1>2, <1>4, <1>5, ReversedChain
<1>7. Chain(c, NoObject)' = Up(Objects, parent', G, c) /\ c \in Objects
  BY <1>1 DEF Chain
<1>8. o \in Chain(c, NoObject)'
  <2>. HIDE DEF H, G
  <2>. QED
    BY <1>5, <1>6, <1>7, UpMonotone
<1>9. \A x \in S \cap G : parent'[x] \in S
  <2>. SUFFICES ASSUME NEW x \in S \cap G PROVE parent'[x] \in S
    OBVIOUS
  <2>1. x \in attached' /\ parent'[x] \in Exists
    BY <1>3
  <2>2. CASE x \in C \ {o}
    BY <1>1, <2>2
  <2>3. CASE x = o
    <3>1. parent'[x] = Tip[r] /\ Tip[r] \in Objects
      BY <1>1, <2>1, <2>3
    <3>. QED
      BY <3>1 DEF ToolOf
  <2>4. CASE x = ToolOf(r) /\ x \in Objects
    <3>1. x \in Tools
      BY <2>4, TreeAssumption DEF Tools
    <3>2. parent[x] \in Links /\ parent'[x] = parent[x]
      BY <1>1, <2>4, <3>1 DEF SceneInv, Mounted, ToolsStayMounted
    <3>. QED
      BY <1>1, <2>1, <3>2, TreeAssumption
  <2>. QED
    BY <2>2, <2>3, <2>4
<1>10. Up(Objects, parent', G, c) \subseteq S
  <2>1. S \in SUBSET Objects /\ c \in S
    BY <1>1
  <2>. HIDE DEF S, G
  <2>. QED
    BY <1>7, <1>9, <2>1, UpMinimal
<1>. QED
  BY <1>7, <1>8, <1>10

\* What is above a frame that the piece is not put onto
LEMMA TurnAncestors ==
  ASSUME SceneInv, NEW r \in Robots, NEW o, NEW p, NEW leaf, Turned(r, o, p, leaf),
         NEW b \in Objects, p \in Links \cup {b, Tip[r]}
  PROVE  Ancestors(b)' \subseteq Ancestors(b) \cup Chain(o, leaf) \cup {ToolOf(r)}
<1>. DEFINE C == Chain(o, leaf)
            H == {x \in Objects : parent'[x] \in Objects}
            G == {x \in Objects : parent[x] \in Objects}
            S == Ancestors(b) \cup C \cup ({ToolOf(r)} \cap Objects)
<1>1. /\ TreeInv /\ Exists \subseteq Objects /\ C \subseteq Exists
      /\ \A x \in Objects \ C : parent'[x] = parent[x]
      /\ \A x \in C \ {o} : parent'[x] \in C
      /\ parent'[o] = p /\ o \in C
  BY TurnFacts
<1>2. /\ Ancestors(b) = Up(Objects, parent, G, b) /\ Ancestors(b)' = Up(Objects, parent', H, b)
      /\ b \in Ancestors(b) /\ Ancestors(b) \subseteq Objects
  BY UpElement DEF Ancestors
<1>3. \A x \in Ancestors(b) \cap G : parent[x] \in Ancestors(b)
  <2>1. \A x \in G : parent[x] \in Objects
    OBVIOUS
  <2>. HIDE DEF G
  <2>. QED
    BY <1>2, <2>1, UpClosed
<1>4. \A x \in S \cap H : parent'[x] \in S
  <2>. SUFFICES ASSUME NEW x \in S, x \in Objects, parent'[x] \in Objects PROVE parent'[x] \in S
    OBVIOUS
  <2>1. CASE x \in C \ {o}
    BY <1>1, <2>1
  <2>2. CASE x = o
    <3>1. parent'[x] = b \/ parent'[x] = Tip[r]
      BY <1>1, <2>2, TreeAssumption
    <3>. QED
      BY <1>2, <3>1 DEF ToolOf
  <2>3. CASE x \in Ancestors(b) \ C
    BY <1>1, <1>3, <2>3
  <2>4. CASE x = ToolOf(r) /\ x \in Objects \ C
    <3>1. x \in Tools
      BY <2>4, TreeAssumption DEF Tools
    <3>2. parent[x] \in Links /\ parent'[x] = parent[x]
      BY <1>1, <2>4, <3>1 DEF SceneInv, Mounted, ToolsStayMounted
    <3>. QED
      BY <3>2, TreeAssumption
  <2>. QED
    BY <1>1, <2>1, <2>2, <2>3, <2>4
<1>5. Up(Objects, parent', H, b) \subseteq S
  <2>1. S \in SUBSET Objects /\ b \in S
    BY <1>1, <1>2
  <2>. HIDE DEF S, H
  <2>. QED
    BY <1>4, <2>1, UpMinimal
<1>. QED
  BY <1>2, <1>5

\* So what goals are about stays as it is, too.
LEMMA FitsKept ==
  ASSUME Exists' = Exists, Frames' = Frames,
         \A a, leaf : Up(Objects, parent', Climbing(leaf)', a) = Chain(a, leaf),
         \A a : Up(Objects, parent', {y \in Objects : parent'[y] \in Objects}, a) = Ancestors(a),
         NEW r \in Robots, NEW g, Fits(r, g)
  PROVE  Fits(r, g)'
<1>1. \A a, leaf : Chain(a, leaf)' = Chain(a, leaf)
  BY DEF Chain
<1>2. \A a : Ancestors(a)' = Ancestors(a)
  BY DEF Ancestors
<1>3. \A a, b, leaf : Foreign(a, b, leaf)' <=> Foreign(a, b, leaf)
  BY <1>1, <1>2 DEF Foreign
<1>. QED
  BY <1>1, <1>3 DEF Fits, MayPick, MayPlace, MayReturn, Placed, Meet

-----------------------------------------------------------------------------
(* Goals.                                                                  *)

Scene == [parent : [Objects -> Objects \cup Links \cup {NoObject}], attached : SUBSET Objects]

LEMMA GoalIsNotIdle == \A g \in Goals : g # Idle /\ g.stage \in Stages /\ Idle \notin Goals
BY DEF Goals, Idle, Stages

\* Parts of one product are as much alone.
LEMMA AloneMoves ==
  ASSUME PickInv, NEW r \in Robots, NEW a \in Exists, NEW b \in Exists, Meet(a, b), Alone(r, a)
  PROVE  Alone(r, b)
<1>1. TreeInv /\ SceneInv /\ Exists \subseteq Objects /\ Chain(b, NoObject) \subseteq Exists
  BY ChainFacts DEF PickInv, SceneInv, ContactInv, TreeInv, TreeTypeOK, Exists
<1>2. ASSUME NEW q \in Robots \ {r} PROVE ToolOf(q) \notin Chain(b, NoObject)
  <2>. SUFFICES ASSUME ToolOf(q) \in Chain(b, NoObject) PROVE FALSE
    OBVIOUS
  <2>1. ToolOf(q) \in Tools
    BY <1>1, TreeAssumption DEF Tools
  <2>2. parent[ToolOf(q)] \in Links
    BY <1>1, <2>1 DEF SceneInv, Mounted, ToolsStayMounted
  <2>3. ToolOf(q) \notin Climbing(NoObject)
    BY <1>1, <2>2, TreeAssumption DEF Climbing
  <2>4. ToolOf(q) \in Chain(a, NoObject)
    BY <1>1, <2>3, MeetFacts
  <2>. QED
    BY <2>4 DEF Alone
<1>3. ASSUME NEW q \in Robots \ {r}, goal[q] # Idle, Meet(goal[q].object, b) PROVE FALSE
  <2>1. goal[q].object \in Exists
    BY <1>3 DEF PickInv, Fits
  <2>2. Meet(goal[q].object, a)
    BY <1>1, <1>3, <2>1, MeetFacts
  <2>. QED
    BY <1>3, <2>2 DEF Alone
<1>. QED
  BY <1>2, <1>3 DEF Alone

\* The steps of one goal leave alone what another one is about.
LEMMA TurnSpares ==
  ASSUME PickInv, OneTarget, NEW r \in Robots, goal[r] # Idle, NEW o, NEW p, NEW leaf,
         Turned(r, o, p, leaf), Meet(o, goal[r].object),
         NEW q \in Robots \ {r}, goal[q] # Idle, NEW a \in Exists, Meet(goal[q].object, a)
  PROVE  /\ Chain(a, NoObject) \cap (Chain(o, leaf) \cup {ToolOf(r)}) = {}
         /\ \A l : Chain(a, l)' = Chain(a, l)
<1>1. SceneInv /\ TreeInv /\ o \in Exists /\ Chain(o, leaf) \subseteq Chain(o, NoObject)
  BY ChainStops DEF PickInv, SceneInv, ContactInv, Turned
<1>2. goal[r].object \in Exists /\ goal[q].object \in Exists
  BY DEF PickInv, Fits
<1>3. Alone(r, goal[r].object) /\ Alone(q, goal[q].object)
  BY DEF PickInv, Separate, Busy
<1>4. Alone(r, o) /\ Alone(q, a)
  BY <1>1, <1>2, <1>3, AloneMoves, MeetFacts
<1>5. ~ Meet(a, o)
  <2>. SUFFICES ASSUME Meet(a, o) PROVE FALSE
    OBVIOUS
  <2>1. Meet(goal[q].object, o)
    BY <1>1, <1>2, MeetFacts
  <2>. QED
    BY <1>4, <2>1 DEF Alone
<1>6. Chain(a, NoObject) \cap Chain(o, leaf) = {}
  BY <1>1, <1>5 DEF Meet
<1>7. ToolOf(r) \notin Chain(a, NoObject)
  BY <1>4 DEF Alone
<1>8. \A l : Chain(a, l)' = Chain(a, l)
  BY <1>1, <1>6, TurnFrame
<1>. QED
  BY <1>6, <1>7, <1>8

\* ... and what another goal relies on, too.
LEMMA TurnKeeps ==
  ASSUME PickInv, OneTarget, NEW r \in Robots, goal[r] # Idle, NEW o, NEW p, NEW leaf,
         Turned(r, o, p, leaf), Meet(o, goal[r].object),
         NEW q \in Robots \ {r}, NEW h \in Goals, goal[q] = h
  PROVE  Fits(q, h)'
<1>. DEFINE C == Chain(o, leaf)
<1>1. /\ SceneInv /\ TreeInv /\ Exists' = Exists /\ Frames' = Frames /\ Exists \subseteq Objects
      /\ Fits(q, h) /\ goal[q] # Idle /\ NoObject \notin Exists
  BY TurnFacts, GoalIsNotIdle, TreeAssumption DEF PickInv
<1>2. h.object \in Exists \ Tools /\ h.root \in {NoObject} \cup (Exists \ Tools)
  BY <1>1 DEF Fits
<1>3. h.root # NoObject => Meet(goal[q].object, h.root)
  BY <1>1 DEF Fits
<1>4. ASSUME NEW a \in {h.object, h.root}, a # NoObject
      PROVE  /\ a \in Exists
             /\ \A l : Chain(a, l)' = Chain(a, l)
             /\ Chain(a, NoObject) \cap (C \cup {ToolOf(r)}) = {}
  <2>1. a \in Exists /\ Meet(goal[q].object, a)
    BY <1>1, <1>2, <1>3, <1>4, MeetFacts
  <2>. HIDE DEF C
  <2>. QED
    BY <1>1, <2>1, TurnSpares DEF C
<1>5. ASSUME NEW a \in {h.object, h.root}, a # NoObject, NEW b \in Places, NEW l,
             Foreign(a, b, l)
      PROVE  Foreign(a, b, l)'
  <2>1. CASE b \in Links
    BY <2>1 DEF Foreign
  <2>2. CASE b \notin Links
    <3>1. b \in Targets \cap Objects
      BY <2>2, PickOrPlaceAssumption DEF Places
    <3>2. p \in Links \cup {b, Tip[r]}
      BY <3>1, PickOrPlaceAssumption DEF Turned, OneTarget, Places
    <3>3. Ancestors(b)' \subseteq Ancestors(b) \cup C \cup {ToolOf(r)}
      BY <1>1, <3>1, <3>2, TurnAncestors
    <3>4. Chain(a, l) \subseteq Chain(a, NoObject) /\ Chain(a, l)' = Chain(a, l)
      BY <1>1, <1>4, <1>5, ChainStops
    <3>5. Ancestors(b) \cap Chain(a, l) = {}
      BY <1>5, <2>2 DEF Foreign
    <3>6. Chain(a, NoObject) \cap (C \cup {ToolOf(r)}) = {}
      BY <1>4, <1>5
    <3>. HIDE DEF C
    <3>7. Ancestors(b)' \cap Chain(a, l)' = {}
      BY <3>3, <3>4, <3>5, <3>6
    <3>. QED
      BY <3>7 DEF Foreign
  <2>. QED
    BY <2>1, <2>2
<1>6. h.root # NoObject => Meet(h.object, h.root)'
  BY <1>1, <1>2, <1>3, <1>4 DEF Meet
<1>7. h.object # NoObject
  BY <1>1, <1>2
<1>8. h.stage \in Before => IF h.pick THEN MayPick(q, h)' ELSE MayPlace(q, h)'
  <2>1. CASE h.stage \in Before /\ h.pick
    <3>1. MayPick(q, h)
      BY <1>1, <2>1 DEF Fits
    <3>. QED
      BY <1>4, <1>7, <2>1, <3>1 DEF MayPick
  <2>2. CASE h.stage \in Before /\ ~ h.pick
    <3>1. MayPlace(q, h)
      BY <1>1, <2>2 DEF Fits
    <3>2. h.frame \in Places /\ Foreign(h.object, h.frame, ToolOf(q))
      BY <3>1 DEF MayPlace, Places
    <3>3. Foreign(h.object, h.frame, ToolOf(q))'
      BY <1>5, <1>7, <3>2
    <3>. QED
      BY <1>1, <1>4, <1>7, <2>2, <3>1, <3>3 DEF MayPlace
  <2>. QED
    BY <2>1, <2>2
<1>9. h.stage \in {"depart", "verify"} /\ h.pick => MayReturn(q, h)'
  <2>. SUFFICES ASSUME h.stage \in {"depart", "verify"}, h.pick PROVE MayReturn(q, h)'
    OBVIOUS
  <2>1. MayReturn(q, h)
    BY <1>1 DEF Fits
  <2>2. h.root # NoObject /\ h.rootParent \in Places /\ Foreign(h.root, h.rootParent, ToolOf(q))
    BY <1>1, <2>1 DEF MayReturn
  <2>3. Foreign(h.root, h.rootParent, ToolOf(q))'
    BY <1>5, <2>2
  <2>. QED
    BY <1>1, <1>4, <2>1, <2>2, <2>3 DEF MayReturn
<1>10. h.stage = "depart" /\ ~ h.pick => Placed(h)'
  <2>. SUFFICES ASSUME h.stage = "depart", ~ h.pick PROVE Placed(h)'
    OBVIOUS
  <2>1. Placed(h)
    BY <1>1 DEF Fits
  <2>. QED
    BY <1>1, <1>4, <2>1 DEF Placed
<1>. QED
  BY <1>1, <1>2, <1>6, <1>8, <1>9, <1>10 DEF Fits

LEMMA GoalsForm ==
  Goals = [stage : Stages, pick : BOOLEAN, object : Objects, frame : Objects \cup Links,
           root : Objects \cup {NoObject}, rootParent : Objects \cup Links \cup {NoObject},
           seen : SUBSET Pairs, before : Scene]
BY DEF Goals, Pairs, Scene

\* A goal keeps its form when it goes to another stage.
LEMMA StageForms ==
  ASSUME NEW g \in Goals, NEW stage \in Stages
  PROVE  /\ [g EXCEPT !.stage = stage] \in Goals
         /\ \A seen \in SUBSET Pairs : [g EXCEPT !.stage = stage, !.seen = seen] \in Goals
<1>1. [g EXCEPT !.stage = stage] \in Goals
  BY GoalsForm
<1>2. ASSUME NEW seen \in SUBSET Pairs
      PROVE  [g EXCEPT !.stage = stage, !.seen = seen] \in Goals
  BY GoalsForm
<1>. QED
  BY <1>1, <1>2

\* ... and when it goes on to its old root, or remembers it.
LEMMA RootForms ==
  ASSUME NEW g \in Goals, NEW stage \in Stages, NEW root \in Objects
  PROVE  /\ [g EXCEPT !.stage = stage, !.object = root, !.root = NoObject, !.seen = {}] \in Goals
         /\ \A rootParent \in Objects \cup Links \cup {NoObject}, before \in Scene :
              [g EXCEPT !.stage = stage, !.root = root, !.rootParent = rootParent,
                        !.before = before] \in Goals
<1>1. [g EXCEPT !.stage = stage, !.object = root, !.root = NoObject, !.seen = {}] \in Goals
  BY GoalsForm
<1>2. ASSUME NEW rootParent \in Objects \cup Links \cup {NoObject}, NEW before \in Scene
      PROVE  [g EXCEPT !.stage = stage, !.root = root, !.rootParent = rootParent,
                       !.before = before] \in Goals
  BY GoalsForm
<1>. QED
  BY <1>1, <1>2

\* A step that leaves the tree alone and what it does to one goal
LEMMA QuietStep ==
  ASSUME PickInv, UNCHANGED treeVars,
         touch' \in [Objects -> SUBSET (Objects \cup Links)], acm' \subseteq Pairs,
         \A x \in attached : ParentTouch(x) \subseteq touch'[x],
         NEW r \in Robots, NEW g \in Goals \cup {Idle}, goal' = [goal EXCEPT ![r] = g],
         MaxBusy = 1 => goal[r] # Idle \/ Busy = {},
         g # Idle => Fits(r, g) /\ (OneTarget => Alone(r, g.object))
  PROVE  PickInv'
<1>1. TreeInv' /\ Mounted' /\ ParentsExist' /\ Exists' = Exists /\ Frames' = Frames
  BY DEF PickInv, SceneInv, ContactInv, TreeInv, TreeTypeOK, SceneMatchesTree, Rooted,
         SharedAttachLink, Mounted, ToolsStayMounted, ParentsExist, Exists, Frames, FrameOf,
         treeVars
<1>2. ContactInv'
  BY <1>1 DEF ContactInv, ContactTypeOK, ConnectedMayTouch, ParentTouch, TouchOf, treeVars,
              Pairs, TreeInv
<1>3. goal' \in [Robots -> Goals \cup {Idle}]
  BY DEF PickInv
<1>4. \A q \in Robots : goal'[q] = IF q = r THEN g ELSE goal[q]
  BY DEF PickInv
<1>5. MaxBusy = 1 => \A q, s \in Busy' : q = s
  BY <1>4 DEF PickInv, Busy
<1>7. OneTarget => Standing'
  BY DEF PickInv, Standing, treeVars
<1>8. parent' = parent /\ Climbing(NoObject)' = Climbing(NoObject)
  BY DEF Climbing, Exists, treeVars
<1>9. OneTarget => Separate'
  <2>. SUFFICES ASSUME OneTarget, NEW q \in Robots, goal'[q] # Idle, NEW s \in Robots \ {q}
                PROVE  /\ ToolOf(s) \notin Chain(goal'[q].object, NoObject)
                       /\ goal'[s] # Idle => ~ Meet(goal'[s].object, goal'[q].object)
    BY <1>8 DEF Separate, Alone, Busy, Meet, Chain
  <2>1. \A x \in Robots : goal[x] # Idle => Alone(x, goal[x].object) /\ goal[x].object \in Exists
    BY DEF PickInv, Separate, Busy, Fits
  <2>2. CASE q = r
    <3>1. goal'[q] = g /\ goal'[s] = goal[s] /\ Alone(r, g.object)
      BY <1>4, <2>2
    <3>. QED
      BY <2>2, <3>1 DEF Alone
  <2>3. CASE s = r
    <3>1. goal'[q] = goal[q] /\ goal'[s] = g /\ Alone(q, goal[q].object) /\ q # r
      BY <1>4, <2>1, <2>3
    <3>2. goal'[s] # Idle => ~ Meet(g.object, goal[q].object)
      <4>. SUFFICES ASSUME g # Idle, Meet(g.object, goal[q].object) PROVE FALSE
        BY <3>1
      <4>1. Alone(r, g.object)
        OBVIOUS
      <4>2. Meet(goal[q].object, g.object)
        BY DEF Meet
      <4>. QED
        BY <3>1, <4>1, <4>2 DEF Alone
    <3>. QED
      BY <2>3, <3>1, <3>2 DEF Alone
  <2>4. CASE q # r /\ s # r
    <3>1. goal'[q] = goal[q] /\ goal'[s] = goal[s] /\ Alone(q, goal[q].object)
      BY <1>4, <2>1, <2>4
    <3>. QED
      BY <3>1 DEF Alone
  <2>. QED
    BY <2>2, <2>3, <2>4
<1>6. ASSUME NEW q \in Robots, NEW h \in Goals, goal'[q] = h PROVE Fits(q, h)'
  <2>1. Fits(q, h)
    BY <1>4, <1>6, GoalIsNotIdle DEF PickInv
  <2>2. \A a, leaf : Up(Objects, parent', Climbing(leaf)', a) = Chain(a, leaf)
    BY DEF Chain, Climbing, Exists, treeVars
  <2>3. \A a : Up(Objects, parent', {y \in Objects : parent'[y] \in Objects}, a) = Ancestors(a)
    BY DEF Ancestors, treeVars
  <2>. QED
    BY <1>1, <2>1, <2>2, <2>3, FitsKept
<1>. QED
  BY <1>1, <1>2, <1>3, <1>5, <1>6, <1>7, <1>9 DEF PickInv, SceneInv

\* The stages that a goal goes on to without changing the tree
LEMMA StageFits ==
  ASSUME NEW r \in Robots, NEW g \in Goals, Fits(r, g), NEW stage \in Stages,
         \/ g.stage \in Before /\ stage \in Before
         \/ stage \in {"reset", "resetting"}
         \/ g.stage = "depart" /\ stage = "verify",
         NEW seen
  PROVE  /\ Fits(r, [g EXCEPT !.stage = stage])
         /\ Fits(r, [g EXCEPT !.stage = stage, !.seen = seen])
<1>. DEFINE a == [g EXCEPT !.stage = stage]
            b == [g EXCEPT !.stage = stage, !.seen = seen]
<1>1. /\ a.stage = stage /\ a.object = g.object /\ a.root = g.root /\ a.pick = g.pick
      /\ a.frame = g.frame /\ a.rootParent = g.rootParent
  BY DEF Goals
<1>2. /\ b.stage = stage /\ b.object = g.object /\ b.root = g.root /\ b.pick = g.pick
      /\ b.frame = g.frame /\ b.rootParent = g.rootParent
  BY DEF Goals
<1>. HIDE DEF a, b
<1>3. Fits(r, a)
  BY <1>1 DEF Fits, MayPick, MayPlace, MayReturn, Placed, Before
<1>4. Fits(r, b)
  BY <1>2 DEF Fits, MayPick, MayPlace, MayReturn, Placed, Before
<1>. QED
  BY <1>3, <1>4 DEF a, b

\* What is known of a goal that is executed
LEMMA GoalFacts ==
  ASSUME PickInv, NEW r \in Robots, goal[r] # Idle
  PROVE  /\ goal[r] \in Goals /\ Fits(r, goal[r])
         /\ goal[r].object \in Objects /\ goal[r].frame \in Objects \cup Links
         /\ goal[r].root \in Objects \cup {NoObject} /\ goal[r].pick \in BOOLEAN
         /\ goal[r].seen \in SUBSET Pairs
         /\ goal[r].object \in Exists /\ ParentTouch(goal[r].object) \in SUBSET (Objects \cup Links)
         /\ OneTarget => Alone(r, goal[r].object)
<1>1. goal[r] \in Goals /\ Fits(r, goal[r]) /\ (OneTarget => Alone(r, goal[r].object))
  BY DEF PickInv, Separate, Busy
<1>2. /\ goal[r].object \in Objects /\ goal[r].frame \in Objects \cup Links
      /\ goal[r].root \in Objects \cup {NoObject} /\ goal[r].pick \in BOOLEAN
      /\ goal[r].seen \in SUBSET Pairs
  BY <1>1 DEF Goals, Pairs
<1>3. goal[r].object \in Exists
  BY <1>1 DEF Fits
<1>4. parent[goal[r].object] \in Objects \cup Links
  BY <1>2, <1>3 DEF PickInv, SceneInv, ContactInv, TreeInv, TreeTypeOK, SceneMatchesTree
<1>. QED
  BY <1>1, <1>2, <1>3, <1>4, TouchOfType DEF ParentTouch

\* Touch links and the ACM before a step
LEMMA TouchFacts ==
  ASSUME PickInv
  PROVE  /\ touch \in [Objects -> SUBSET (Objects \cup Links)] /\ acm \in SUBSET Pairs
         /\ \A x \in attached : ParentTouch(x) \subseteq touch[x]
         /\ attached \subseteq Objects
BY DEF PickInv, SceneInv, ContactInv, ContactTypeOK, ConnectedMayTouch, Pairs, TreeTypeOK

\* Motions, cancellations and the end of a goal
LEMMA StageStep ==
  ASSUME PickInv, NEW r \in Robots,
         Move(r) \/ Approach(r) \/ Depart(r) \/ Verify(r) \/ Cancel(r)
  PROVE  PickInv'
<1>1. goal[r] # Idle /\ UNCHANGED contactVars
  BY DEF Move, Approach, Depart, Verify, Cancel, At
<1>2. PICK stage \in Stages :
        /\ goal' = [goal EXCEPT ![r].stage = stage]
        /\ \/ goal[r].stage \in Before /\ stage \in Before
           \/ stage \in {"reset", "resetting"}
           \/ goal[r].stage = "depart" /\ stage = "verify"
  BY DEF Move, Approach, Depart, Verify, Cancel, At, Goto, Stages, Before
<1>. DEFINE g == [goal[r] EXCEPT !.stage = stage]
<1>3. goal' = [goal EXCEPT ![r] = g]
  BY <1>2 DEF PickInv
<1>4. g \in Goals /\ g.object = goal[r].object
  BY <1>1, <1>2, GoalFacts DEF Goals
<1>5. Fits(r, g) /\ (OneTarget => Alone(r, g.object))
  BY <1>1, <1>2, <1>4, GoalFacts, StageFits
<1>. HIDE DEF g
<1>6. UNCHANGED treeVars /\ touch' = touch /\ acm' = acm
  BY <1>1 DEF contactVars
<1>. QED
  BY <1>1, <1>3, <1>4, <1>5, <1>6, QuietStep, TouchFacts

\* allow_collision
LEMMA AllowStep ==
  ASSUME PickInv, NEW r \in Robots, AllowAttached(r) \/ ReadToAllow(r) \/ WriteAllowed(r)
  PROVE  PickInv'
<1>1. goal[r] # Idle /\ goal[r].stage \in {"approach", "allowing"} /\ UNCHANGED treeVars
  BY DEF AllowAttached, ReadToAllow, WriteAllowed, At, AllowCollision, contactVars, treeVars
<1>2. PICK stage \in {"allowing", "approaching"}, seen \in SUBSET Pairs :
        \/ goal' = [goal EXCEPT ![r].stage = stage]
        \/ goal' = [goal EXCEPT ![r].stage = stage, ![r].seen = seen]
  BY TouchFacts DEF AllowAttached, ReadToAllow, WriteAllowed, Goto
<1>3. stage \in Stages /\ goal[r].stage \in Before /\ stage \in Before
  BY <1>1 DEF Stages, Before
<1>. DEFINE a == [goal[r] EXCEPT !.stage = stage]
            b == [goal[r] EXCEPT !.stage = stage, !.seen = seen]
<1>4. a \in Goals /\ b \in Goals /\ Fits(r, a) /\ Fits(r, b)
      /\ (OneTarget => Alone(r, a.object) /\ Alone(r, b.object))
  <2>1. a \in Goals /\ b \in Goals
    BY <1>1, <1>3, GoalFacts, StageForms
  <2>2. a.object = goal[r].object /\ b.object = goal[r].object
    BY <1>1, GoalFacts, GoalsForm
  <2>. QED
    BY <1>1, <1>3, <2>1, <2>2, GoalFacts, StageFits
<1>5. goal' = [goal EXCEPT ![r] = a] \/ goal' = [goal EXCEPT ![r] = b]
  BY <1>2 DEF PickInv
<1>6. TouchOf(goal[r].frame) \in SUBSET (Objects \cup Links)
  BY <1>1, GoalFacts, TouchOfType
<1>7. /\ touch' \in [Objects -> SUBSET (Objects \cup Links)]
      /\ \A x \in attached : ParentTouch(x) \subseteq touch'[x]
  <2>1. touch' = touch \/ touch' = [touch EXCEPT ![goal[r].object] = @ \cup TouchOf(goal[r].frame)]
    BY DEF AllowAttached, ReadToAllow, WriteAllowed, AllowCollision, contactVars
  <2>. QED
    BY <1>1, <1>6, <2>1, GoalFacts, TouchFacts
<1>8. acm' \subseteq Pairs
  <2>1. acm' = acm \/ acm' = AcmWith(goal[r].seen, goal[r].object, TouchOf(goal[r].frame))
    BY DEF AllowAttached, ReadToAllow, WriteAllowed, AllowCollision, contactVars
  <2>2. goal[r].seen \subseteq Pairs /\ goal[r].object \in Objects
    BY <1>1, GoalFacts
  <2>3. AcmWith(goal[r].seen, goal[r].object, TouchOf(goal[r].frame)) \subseteq Pairs
    BY <1>6, <2>2, AcmTypes
  <2>. QED
    BY <2>1, <2>3, TouchFacts
<1>. HIDE DEF a, b
<1>. QED
  BY <1>1, <1>4, <1>5, <1>7, <1>8, QuietStep, GoalIsNotIdle

\* reset_collision of the object and then of the old root
LEMMA ResetStep ==
  ASSUME PickInv, NEW r \in Robots, ReadToReset(r) \/ WriteReset(r)
  PROVE  PickInv'
<1>1. goal[r] # Idle /\ UNCHANGED treeVars
  BY DEF ReadToReset, WriteReset, At
<1>. DEFINE o == goal[r].object
            root == goal[r].root
<1>2. /\ goal[r] \in Goals /\ Fits(r, goal[r])
      /\ o \in Objects /\ root \in Objects \cup {NoObject}
      /\ goal[r].seen \in SUBSET Pairs /\ ParentTouch(o) \in SUBSET (Objects \cup Links)
  BY <1>1, GoalFacts
<1>3. CASE ReadToReset(r)
  <2>. DEFINE g == [goal[r] EXCEPT !.stage = "resetting", !.seen = acm]
  <2>1. g \in Goals /\ Fits(r, g) /\ (OneTarget => Alone(r, g.object))
    <3>1. "resetting" \in Stages
      BY DEF Stages
    <3>2. g.object = goal[r].object
      BY <1>2, GoalsForm
    <3>. QED
      BY <1>1, <1>2, <3>1, <3>2, GoalFacts, TouchFacts, StageFits, StageForms
  <2>2. goal' = [goal EXCEPT ![r] = g]
    BY <1>3 DEF ReadToReset, PickInv
  <2>3. acm' = acm /\ touch' = [touch EXCEPT ![o] = IF o \in attached THEN ParentTouch(o) ELSE @]
    BY <1>3 DEF ReadToReset
  <2>4. /\ touch' \in [Objects -> SUBSET (Objects \cup Links)]
        /\ \A x \in attached : ParentTouch(x) \subseteq touch'[x]
    BY <1>2, <2>3, TouchFacts
  <2>. HIDE DEF g
  <2>. QED
    BY <1>1, <2>1, <2>2, <2>3, <2>4, QuietStep, TouchFacts
<1>4. CASE WriteReset(r)
  <2>1. touch' = touch
    BY <1>4 DEF WriteReset
  <2>2. acm' \subseteq Pairs
    <3>1. AcmCleared(goal[r].seen, o) \in SUBSET Pairs
      BY <1>2, AcmTypes
    <3>2. AcmWith(AcmCleared(goal[r].seen, o), o, ParentTouch(o)) \subseteq Pairs
      BY <1>2, <3>1, AcmTypes
    <3>. QED
      BY <1>4, <3>1, <3>2 DEF WriteReset
  <2>3. CASE root \in {NoObject, o}
    <3>1. goal' = [goal EXCEPT ![r] = Idle]
      BY <1>4, <2>3 DEF WriteReset
    <3>. QED
      BY <1>1, <2>1, <2>2, <3>1, QuietStep, TouchFacts
  <2>4. CASE root \notin {NoObject, o}
    <3>. DEFINE g == [goal[r] EXCEPT !.stage = "reset", !.object = root, !.root = NoObject, !.seen = {}]
    <3>1. goal' = [goal EXCEPT ![r] = g]
      BY <1>4, <2>4 DEF WriteReset, PickInv
    <3>2. g \in Goals
      BY <1>2, <2>4, RootForms DEF Stages
    <3>3. Fits(r, g) /\ (OneTarget => Alone(r, g.object))
      <4>1. g.stage = "reset" /\ g.object = root /\ g.root = NoObject
        BY <1>2 DEF Goals
      <4>2. root \in Exists \ Tools /\ Meet(o, root)
        BY <1>2, <2>4 DEF Fits
      <4>3. OneTarget => Alone(r, root)
        BY <1>1, <4>2, GoalFacts, AloneMoves
      <4>. HIDE DEF g
      <4>. QED
        BY <4>1, <4>2, <4>3 DEF Fits, Before
    <3>. HIDE DEF g
    <3>. QED
      BY <1>1, <2>1, <2>2, <3>1, <3>2, <3>3, QuietStep, TouchFacts
  <2>. QED
    BY <2>3, <2>4
<1>. QED
  BY <1>3, <1>4

\* What hangs on a gripper hangs on the link that carries it.
LEMMA HandFacts ==
  ASSUME SceneInv
  PROVE  /\ \A r \in Robots : FrameOf(Tip[r]) = GripperLink(parent, r)
         /\ \A q, r \in Robots : FrameOf(Tip[q]) = FrameOf(Tip[r]) => q = r
         /\ \A t \in Tools : \E q \in Robots : t = Tip[q] /\ link[t] = FrameOf(t)
<1>1. ASSUME NEW t \in Tools
      PROVE  \E q \in Robots : t = Tip[q] /\ link[t] = parent[t] /\ link[t] = FrameOf(t)
  <2>1. t \in Objects /\ link[t] = parent[t]
    BY ToolStandsAlone DEF SceneInv, ContactInv
  <2>2. \E q \in Robots : t = Tip[q]
    BY DEF Tools, ToolOf
  <2>3. t \notin Links
    BY <2>1, TreeAssumption
  <2>. QED
    BY <2>1, <2>2, <2>3 DEF FrameOf
<1>2. ASSUME NEW r \in Robots PROVE FrameOf(Tip[r]) = GripperLink(parent, r)
  <2>1. CASE Tip[r] \in Objects
    <3>1. Tip[r] \in Tools
      BY <2>1, TreeAssumption DEF Tools, ToolOf
    <3>2. FrameOf(Tip[r]) = parent[Tip[r]]
      BY <1>1, <3>1
    <3>. QED
      BY <2>1, <3>2 DEF GripperLink
  <2>2. CASE Tip[r] \notin Objects
    BY <2>2, PickOrPlaceAssumption DEF GripperLink, FrameOf
  <2>. QED
    BY <2>1, <2>2
<1>3. ASSUME NEW q \in Robots, NEW r \in Robots, FrameOf(Tip[q]) = FrameOf(Tip[r]) PROVE q = r
  BY <1>2, <1>3 DEF SceneInv, Mounted
<1>. QED
  BY <1>1, <1>2, <1>3

\* No two robots have the same tool.
LEMMA ToolsDiffer ==
  ASSUME SceneInv, NEW q \in Robots, NEW r \in Robots, ToolOf(q) = ToolOf(r), ToolOf(q) \in Tools
  PROVE  q = r
<1>1. Tip[q] = Tip[r]
  BY TreeAssumption DEF ToolOf, Tools
<1>. QED
  BY <1>1, HandFacts

\* A goal is accepted when there is no other.
LEMMA FirstGoal == MaxBusy = 1 /\ Cardinality(Busy) < MaxBusy => Busy = {}
<1>. SUFFICES ASSUME MaxBusy = 1, Cardinality(Busy) < MaxBusy PROVE Busy = {}
  OBVIOUS
<1>1. IsFiniteSet(Busy)
  BY PickOrPlaceAssumption, FS_Subset DEF Busy
<1>2. Cardinality(Busy) \in Nat /\ (Cardinality(Busy) = 0 <=> Busy = {})
  BY <1>1, FS_CardinalityType, FS_EmptySet
<1>3. Cardinality(Busy) = 0
  BY <1>2
<1>. QED
  BY <1>2, <1>3

\* A goal starts as its request says.
LEMMA AcceptedFits ==
  ASSUME PickInv, MaxBusy = 1 => Busy = {}, NEW r \in Robots, NEW pick \in BOOLEAN,
         NEW o \in Exists \ Tools, NEW f \in Objects \cup Links, Accept(r, pick, o, f),
         Untouched(r, o),
         \A q \in Robots \ {r} : ToolOf(q) \notin Chain(o, NoObject),
         pick => f = Tip[r] /\ Chain(o, NoObject) \cap Tools = {},
         ~ pick => /\ f \in Frames \cap Targets
                   /\ Foreign(o, f, ToolOf(r))
                   /\ Chain(o, ToolOf(r)) \cap Tools = {}
  PROVE  PickInv'
<1>. DEFINE g == [stage |-> "move", pick |-> pick, object |-> o, frame |-> f,
                  root |-> NoObject, rootParent |-> NoObject, seen |-> {},
                  before |-> [parent |-> parent, attached |-> attached]]
<1>1. goal' = [goal EXCEPT ![r] = g] /\ UNCHANGED treeVars /\ touch' = touch /\ acm' = acm
  BY DEF Accept, contactVars
<1>2. o \in Objects /\ [parent |-> parent, attached |-> attached] \in Scene
  BY DEF PickInv, SceneInv, ContactInv, TreeInv, TreeTypeOK, Exists, Scene
<1>3. g \in Goals
  <2>1. "move" \in Stages
    BY DEF Stages
  <2>. QED
    BY <1>2, <2>1, GoalsForm
<1>5. \A q \in Robots \ {r} : goal[q] # Idle => ~ Meet(goal[q].object, o)
  <2>. SUFFICES ASSUME NEW q \in Robots \ {r}, goal[q] # Idle, Meet(goal[q].object, o) PROVE FALSE
    OBVIOUS
  <2>1. goal[q].object \in Product(o)
    BY GoalFacts DEF Product, Meet
  <2>. QED
    BY <2>1 DEF Untouched, Busy
<1>4. Fits(r, g) /\ Alone(r, g.object)
  <2>1. g.object = o /\ g.frame = f /\ g.root = NoObject /\ g.pick = pick /\ g.stage = "move"
    OBVIOUS
  <2>. HIDE DEF g
  <2>. QED
    BY <1>5, <2>1 DEF Fits, MayPick, MayPlace, Alone
<1>. HIDE DEF g
<1>. QED
  BY <1>1, <1>3, <1>4, QuietStep, TouchFacts

LEMMA AcceptPickStep ==
  ASSUME Orderly, PickInv, NEW r \in Robots, NEW o \in Objects, AcceptPick(r, o)
  PROVE  PickInv'
<1>1. /\ TreeInv /\ (MaxBusy = 1 => Busy = {}) /\ o \in Exists \ Tools
      /\ Tip[r] \in Objects \cup Links
  BY FirstGoal, PickOrPlaceAssumption DEF AcceptPick, PickInv, SceneInv, ContactInv
<1>2. ASSUME NEW t \in Tools, t \in Chain(o, NoObject) PROVE FALSE
  <2>1. PICK q \in Robots : t = Tip[q] /\ link[t] = FrameOf(Tip[q])
    BY HandFacts DEF PickInv
  <2>2. link[o] = FrameOf(Tip[q])
    BY <1>1, <1>2, <2>1, ChainLink
  <2>3. o \in attached
    <3>1. \A x \in Objects \cap Climbing(NoObject) : parent[x] \in Objects
      BY <1>1, ChainFacts
    <3>2. t # o
      BY <1>1
    <3>3. o \in Climbing(NoObject)
      BY <1>2, <3>1, <3>2, UpUnfold DEF Chain
    <3>. QED
      BY <3>3 DEF Climbing
  <2>4. o \in InHand(q)
    BY <1>1, <2>2, <2>3 DEF InHand
  <2>. QED
    BY <2>4 DEF AcceptPick, Orderly
<1>3. Accept(r, TRUE, o, Tip[r]) /\ Untouched(r, o)
  BY DEF AcceptPick
<1>4. \A q \in Robots : ToolOf(q) \notin Chain(o, NoObject)
  <2>1. Chain(o, NoObject) \subseteq Exists /\ NoObject \notin Exists
    BY <1>1, ChainFacts, TreeAssumption DEF TreeInv, TreeTypeOK, Exists
  <2>. QED
    BY <1>2, <2>1 DEF Tools
<1>. QED
  BY <1>1, <1>2, <1>3, <1>4, AcceptedFits

LEMMA AcceptPlaceStep ==
  ASSUME Orderly, PickInv, NEW r \in Robots, NEW o \in Objects, NEW f \in Targets,
         AcceptPlace(r, o, f)
  PROVE  PickInv'
<1>1. /\ TreeInv /\ (MaxBusy = 1 => Busy = {}) /\ o \in attached /\ o \in Exists \ Tools
      /\ link[o] = FrameOf(Tip[r])
  BY FirstGoal DEF AcceptPlace, InHand, PickInv, SceneInv, ContactInv, Exists
<1>5. ASSUME NEW leaf \in {ToolOf(r), NoObject}, NEW t \in Tools, t \in Chain(o, leaf)
      PROVE  t \in Objects /\ t = ToolOf(r)
  <2>1. PICK q \in Robots : t = Tip[q] /\ link[t] = FrameOf(Tip[q])
    BY HandFacts DEF PickInv
  <2>2. link[t] = link[o]
    BY <1>1, <1>5, ChainLink
  <2>3. q = r
    BY <1>1, <2>1, <2>2, HandFacts DEF PickInv
  <2>. QED
    BY <1>1, <2>1, <2>3, ToolStandsAlone DEF ToolOf, PickInv, SceneInv
<1>6. \A q \in Robots \ {r} : ToolOf(q) \notin Chain(o, NoObject)
  <2>. SUFFICES ASSUME NEW q \in Robots \ {r}, ToolOf(q) \in Chain(o, NoObject) PROVE FALSE
    OBVIOUS
  <2>1. Chain(o, NoObject) \subseteq Exists /\ NoObject \notin Exists
    BY <1>1, ChainFacts, TreeAssumption DEF TreeInv, TreeTypeOK, Exists
  <2>2. ToolOf(q) \in Tools
    BY <2>1 DEF Tools
  <2>3. ToolOf(q) = ToolOf(r)
    BY <1>5, <2>2
  <2>. QED
    BY <2>2, <2>3, ToolsDiffer DEF PickInv
<1>2. ASSUME NEW t \in Tools, t \in Chain(o, ToolOf(r)) PROVE FALSE
  <2>4. t \in Objects /\ t = ToolOf(r)
    BY <1>2, <1>5
  <2>5. \A x \in Objects \cap Climbing(ToolOf(r)) : parent[x] \in Objects
    BY <1>1, ChainFacts
  <2>6. \E d \in Climbing(ToolOf(r)) : parent[d] = t
    BY <1>1, <1>2, <2>5, UpPredecessor DEF Chain
  <2>. QED
    BY <2>4, <2>6 DEF Climbing
<1>3. f \in Frames \cap Targets /\ Foreign(o, f, ToolOf(r)) /\ Accept(r, FALSE, o, f)
      /\ Untouched(r, o)
  BY DEF AcceptPlace, Frames
<1>4. f \in Objects \cup Links
  BY PickOrPlaceAssumption
<1>. QED
  BY <1>1, <1>2, <1>3, <1>4, <1>6, AcceptedFits

\* fix_object and release_object
LEMMA FixtureStep ==
  ASSUME PickInv, NEW o \in Objects, FixObject(o) \/ ReleaseObject(o)
  PROVE  PickInv'
<1>1. /\ SceneInv' /\ Exists' = Exists /\ Frames' = Frames
      /\ \A a, leaf : Up(Objects, parent', Climbing(leaf)', a) = Chain(a, leaf)
      /\ \A a : Up(Objects, parent', {y \in Objects : parent'[y] \in Objects}, a) = Ancestors(a)
      /\ \A y \in Objects \ {o} : parent'[y] = parent[y] /\ (y \in attached' <=> y \in attached)
      /\ parent'[o] \in Links
      /\ goal' = goal
  BY FixtureKeeps DEF PickInv
<1>2. ASSUME NEW r \in Robots, NEW g \in Goals, goal'[r] = g PROVE Fits(r, g)'
  <2>1. Fits(r, g)
    BY <1>1, <1>2 DEF PickInv
  <2>. QED
    BY <1>1, <2>1, FitsKept
<1>3. OneTarget => Standing'
  <2>1. /\ attached \cap world = {} /\ attached' \cap world' = {}
        /\ world \subseteq Objects /\ world' \subseteq Objects
    BY <1>1 DEF PickInv, SceneInv, ContactInv, TreeInv, TreeTypeOK, SceneMatchesTree
  <2>2. \A y \in world' \ {o} : y \in world
    BY <1>1, <2>1 DEF Exists
  <2>. QED
    BY <1>1, <2>1, <2>2 DEF PickInv, Standing, Places
<1>4. OneTarget => Separate'
  <2>1. \A a : Up(Objects, parent', Climbing(NoObject)', a) = Chain(a, NoObject)
    BY <1>1
  <2>. QED
    BY <1>1, <2>1 DEF PickInv, Separate, Busy, Alone, Meet, Chain
<1>. QED
  BY <1>1, <1>2, <1>3, <1>4 DEF PickInv, Busy

-----------------------------------------------------------------------------
(* The steps that change the tree.                                         *)

\* A step that re-roots what a goal is about, and changes this goal only
LEMMA TreeStep ==
  ASSUME PickInv, MaxBusy = 1 \/ OneTarget, NEW r \in Robots, goal[r] # Idle,
         NEW o, NEW p, NEW leaf, Turned(r, o, p, leaf), Meet(o, goal[r].object),
         NEW g \in Goals, goal' = [goal EXCEPT ![r] = g],
         g.object \in Chain(o, leaf), Fits(r, g)'
  PROVE  PickInv'
<1>. DEFINE C == Chain(o, leaf)
<1>1. \A q \in Robots : goal'[q] = IF q = r THEN g ELSE goal[q]
  BY DEF PickInv
<1>2. goal' \in [Robots -> Goals \cup {Idle}]
  BY DEF PickInv
<1>3. MaxBusy = 1 => \A q \in Robots : q # r => goal[q] = Idle
  BY DEF PickInv, Busy
<1>4. /\ SceneInv /\ SceneInv' /\ Exists' = Exists /\ TreeInv /\ Exists \subseteq Objects
      /\ C \subseteq Exists /\ o \in C /\ o \in Exists
      /\ \A x \in Objects \ C : parent'[x] = parent[x] /\ (x \in world' <=> x \in world)
      /\ \A x \in C \ {o} : parent'[x] \in C /\ x \in attached'
      /\ parent'[o] = p /\ (o \in attached' => p = Tip[r])
  BY TurnFacts DEF PickInv, Turned
<1>5. ASSUME NEW q \in Robots, NEW h \in Goals, goal'[q] = h PROVE Fits(q, h)'
  <2>1. CASE q = r
    BY <1>1, <1>5, <2>1
  <2>2. CASE q # r
    <3>1. goal[q] = h /\ h # Idle
      BY <1>1, <1>5, <2>2, GoalIsNotIdle
    <3>. QED
      BY <1>3, <2>2, <3>1, TurnKeeps
  <2>. QED
    BY <2>1, <2>2
<1>6. MaxBusy = 1 => \A q, s \in Busy' : q = s
  BY <1>1, <1>3 DEF Busy
<1>7. OneTarget => Standing'
  <2>. SUFFICES ASSUME OneTarget, NEW x \in world' PROVE parent'[x] \in Places
    BY DEF Standing
  <2>1. x \in Objects /\ x \notin attached'
    BY <1>4 DEF SceneInv, ContactInv, TreeInv, TreeTypeOK, SceneMatchesTree
  <2>2. CASE x = o
    <3>1. ~ (AttachAndTouch(o, p, leaf) /\ p = Tip[r])
      <4>. SUFFICES ASSUME AttachAndTouch(o, p, leaf) PROVE FALSE
        OBVIOUS
      <4>1. o \in attached'
        BY <1>4 DEF AttachAndTouch, AttachObject
      <4>. QED
        BY <2>1, <2>2, <4>1
    <3>. QED
      BY <1>4, <2>2, <3>1 DEF Turned
  <2>3. CASE x # o
    BY <1>4, <2>1, <2>3 DEF PickInv, Standing
  <2>. QED
    BY <2>2, <2>3
<1>8. OneTarget => Separate'
  <2>. SUFFICES ASSUME OneTarget PROVE Separate'
    OBVIOUS
  <2>1. Chain(g.object, NoObject)' \subseteq C \cup {ToolOf(r)}
    BY <1>4, TurnGathers
  <2>2. ASSUME NEW q \in Robots \ {r}, goal[q] # Idle
        PROVE  /\ Chain(goal[q].object, NoObject) \cap (C \cup {ToolOf(r)}) = {}
               /\ Up(Objects, parent', Climbing(NoObject)', goal[q].object)
                    = Chain(goal[q].object, NoObject)
    <3>1. PICK a \in Exists : a = goal[q].object
      BY <2>2, GoalFacts
    <3>2. Meet(goal[q].object, a)
      BY <1>4, <3>1, MeetFacts
    <3>3. Chain(a, NoObject) \cap (C \cup {ToolOf(r)}) = {} /\ Chain(a, NoObject)' = Chain(a, NoObject)
      BY <2>2, <3>2, TurnSpares
    <3>. QED
      BY <3>1, <3>3 DEF Chain
  <2>3. Up(Objects, parent', Climbing(NoObject)', g.object) \subseteq C \cup {ToolOf(r)}
    BY <2>1 DEF Chain
  <2>4. ASSUME NEW q \in Robots \ {r}
        PROVE  ToolOf(q) \notin Up(Objects, parent', Climbing(NoObject)', g.object)
    <3>1. ToolOf(q) \notin C
      BY <1>4, TreeAssumption DEF Turned, Tools
    <3>2. ToolOf(q) = ToolOf(r) => ToolOf(q) = NoObject
      BY <1>4, ToolsDiffer DEF Tools
    <3>3. Up(Objects, parent', Climbing(NoObject)', g.object) \subseteq Objects
      BY <1>4, UpElement
    <3>. HIDE DEF C
    <3>. QED
      BY <2>3, <3>1, <3>2, <3>3, TreeAssumption
  <2>. HIDE DEF C
  <2>. SUFFICES ASSUME NEW q \in Robots, goal'[q] # Idle, NEW s \in Robots \ {q}
                PROVE  LET U(x) == Up(Objects, parent', Climbing(NoObject)', x)
                       IN  /\ ToolOf(s) \notin U(goal'[q].object)
                           /\ goal'[s] # Idle => U(goal'[s].object) \cap U(goal'[q].object) = {}
    BY DEF Separate, Alone, Busy, Meet, Chain
  <2>5. CASE q = r
    <3>1. goal'[q] = g /\ goal'[s] = goal[s]
      BY <1>1, <2>5
    <3>. QED
      BY <2>2, <2>3, <2>4, <2>5, <3>1
  <2>6. CASE s = r
    <3>1. goal'[q] = goal[q] /\ goal'[s] = g /\ q \in Robots \ {r}
      BY <1>1, <2>6
    <3>. QED
      BY <2>2, <2>3, <2>6, <3>1
  <2>7. CASE q # r /\ s # r
    <3>1. goal'[q] = goal[q] /\ goal'[s] = goal[s] /\ Alone(q, goal[q].object)
      BY <1>1, <2>7 DEF PickInv, Separate, Busy
    <3>. QED
      BY <2>2, <2>7, <3>1 DEF Alone, Meet
  <2>. QED
    BY <2>5, <2>6, <2>7
<1>. QED
  BY <1>2, <1>4, <1>5, <1>6, <1>7, <1>8 DEF PickInv

\* What is recorded of the old root
LEMMA RecordFacts ==
  ASSUME PickInv, NEW r \in Robots, goal[r] # Idle, NEW leaf, Record(r, leaf)
  PROVE  \E o \in Exists, g \in Goals, root \in Objects, rp \in Frames :
           /\ o = goal[r].object /\ rp = parent[root]
           /\ root \in Chain(o, leaf) \ Climbing(leaf)
           /\ root \in Objects \cap Exists /\ rp \in Frames
           /\ goal' = [goal EXCEPT ![r] = g]
           /\ g.stage = "depart" /\ g.pick = goal[r].pick /\ g.object = o
           /\ g.frame = goal[r].frame
           /\ g.root = root /\ g.rootParent = rp
           /\ g.before = [parent |-> parent, attached |-> attached]
<1>. DEFINE o == goal[r].object
            root == OldRoot(o, leaf)
            before == [parent |-> parent, attached |-> attached]
            g == [goal[r] EXCEPT !.stage = "depart", !.root = root,
                                 !.rootParent = parent[root], !.before = before]
<1>1. o \in Exists /\ goal[r] \in Goals /\ TreeInv
  BY GoalFacts DEF PickInv, SceneInv, ContactInv
<1>2. root \in Chain(o, leaf) \ Climbing(leaf)
  BY <1>1, OldRootFacts
<1>3. root \in Exists /\ root \in Objects
  BY <1>1, <1>2, ChainFacts DEF TreeInv, TreeTypeOK, Exists
<1>4. parent[root] \in Frames /\ parent[root] \in Objects \cup Links
  BY <1>1, <1>3 DEF PickInv, SceneInv, ParentsExist, Frames, TreeInv, TreeTypeOK, Exists
<1>5. before \in Scene /\ "depart" \in Stages
  BY <1>1 DEF TreeInv, TreeTypeOK, Scene, Stages
<1>6. goal' = [goal EXCEPT ![r] = g]
  BY DEF Record, PickInv
<1>7. /\ g.stage = "depart" /\ g.pick = goal[r].pick /\ g.object = o
      /\ g.frame = goal[r].frame
      /\ g.root = root /\ g.rootParent = parent[root] /\ g.before = before
  BY <1>1, GoalsForm
<1>9. before = [parent |-> parent, attached |-> attached]
  OBVIOUS
<1>. HIDE DEF before, root
<1>8. g \in Goals
  BY <1>1, <1>3, <1>4, <1>5, RootForms
<1>. HIDE DEF g
<1>. QED
  BY <1>1, <1>2, <1>3, <1>4, <1>6, <1>7, <1>8, <1>9

\* attach_object turns the whole chain of what is picked round.
LEMMA GraspFacts ==
  ASSUME PickInv, NEW r \in Robots, Grasp(r)
  PROVE  \E o \in Exists, g \in Goals, root \in Objects, rp \in Frames :
           /\ goal[r] # Idle /\ o = goal[r].object /\ rp = parent[root]
           /\ root \in Chain(o, NoObject) \ Climbing(NoObject)
           /\ root \in Objects \cap Exists /\ rp \in Frames
           /\ goal' = [goal EXCEPT ![r] = g]
           /\ g.stage = "depart" /\ g.pick /\ g.object = o /\ g.frame = goal[r].frame
           /\ g.root = root /\ g.rootParent = rp
           /\ g.before = [parent |-> parent, attached |-> attached]
           /\ Chain(o, NoObject) \cap Tools = {}
           /\ SceneInv' /\ Exists' = Exists /\ Frames' = Frames
           /\ parent' = Rerooted(o, Tip[r], NoObject) /\ Tip[r] \in Frames
           /\ attached' = attached \cup Chain(o, NoObject)
           /\ Chain(root, ToolOf(r))' = Chain(o, NoObject)
           /\ Turned(r, o, Tip[r], NoObject)
<1>1. /\ goal[r] # Idle /\ goal[r].stage = "grasp" /\ goal[r].pick
      /\ AttachAndTouch(goal[r].object, Tip[r], NoObject)
      /\ Record(r, NoObject)
  BY DEF Grasp, At
<1>2. PICK o \in Exists, g \in Goals, root \in Objects, rp \in Frames :
        /\ o = goal[r].object /\ rp = parent[root]
        /\ root \in Chain(o, NoObject) \ Climbing(NoObject)
        /\ root \in Objects \cap Exists /\ rp \in Frames
        /\ goal' = [goal EXCEPT ![r] = g]
        /\ g.stage = "depart" /\ g.pick = goal[r].pick /\ g.object = o
        /\ g.frame = goal[r].frame
        /\ g.root = root /\ g.rootParent = rp
        /\ g.before = [parent |-> parent, attached |-> attached]
  BY <1>1, RecordFacts
<1>3. TreeInv /\ SceneInv /\ Exists \subseteq Objects /\ Chain(o, NoObject) \subseteq Exists
  BY ChainFacts DEF PickInv, SceneInv, ContactInv, TreeInv, TreeTypeOK, Exists
<1>4. Chain(o, NoObject) \cap Tools = {} /\ o \in Exists \ Tools
  BY <1>1, <1>2, GoalFacts DEF Fits, Before, MayPick
<1>5. Tip[r] \in Frames /\ Foreign(o, Tip[r], NoObject)
  BY <1>3, <1>4, TipIsForeign
<1>11. Turned(r, o, Tip[r], NoObject)
  BY <1>1, <1>2, <1>4, <1>5 DEF Turned
<1>6. SceneInv' /\ Exists' = Exists /\ Frames' = Frames
  BY <1>3, <1>11, TurnFacts
<1>7. parent' = Rerooted(o, Tip[r], NoObject) /\ attached' = attached \cup Chain(o, NoObject)
  BY <1>1, <1>2 DEF AttachAndTouch, AttachObject
<1>8. /\ parent'[o] = Tip[r]
      /\ \A x \in Objects \ Chain(o, NoObject) : parent'[x] = parent[x]
      /\ \A x \in Chain(o, NoObject) \ {o} : parent'[x] \in Chain(o, NoObject)
  BY <1>3, <1>5, <1>7, RerootedFacts
<1>. DEFINE H == Climbing(ToolOf(r))'
<1>9. /\ H \in SUBSET Objects /\ \A x \in H : parent'[x] \in Objects
      /\ Chain(o, NoObject) \ {o} \subseteq H /\ o \notin H
  <2>1. H = {x \in attached' : parent'[x] \in Exists \ {ToolOf(r)}}
    BY <1>6 DEF Climbing
  <2>2. attached' \subseteq Objects
    BY <1>6 DEF SceneInv, ContactInv, TreeInv, TreeTypeOK
  <2>3. ToolOf(r) \notin Chain(o, NoObject)
    BY <1>3, <1>4, TreeAssumption DEF Tools
  <2>4. Tip[r] \notin Exists \ {ToolOf(r)}
    BY <1>3, PickOrPlaceAssumption DEF ToolOf
  <2>. HIDE DEF H
  <2>. QED
    BY <1>3, <1>7, <1>8, <2>1, <2>2, <2>3, <2>4
<1>10. Chain(root, ToolOf(r))' = Chain(o, NoObject)
  <2>1. Chain(root, ToolOf(r))' = Up(Objects, parent', H, root)
    BY DEF Chain
  <2>. HIDE DEF H
  <2>. QED
    BY <1>2, <1>3, <1>5, <1>7, <1>9, <2>1, ReversedWhole
<1>. HIDE DEF H
<1>. QED
  BY <1>1, <1>2, <1>4, <1>5, <1>6, <1>7, <1>10, <1>11

\* What is picked can be put back.
LEMMA GraspStep ==
  ASSUME PickInv, MaxBusy = 1 \/ OneTarget, NEW r \in Robots, Grasp(r)
  PROVE  PickInv'
<1>2. PICK o \in Exists, g \in Goals, root \in Objects, rp \in Frames :
        /\ goal[r] # Idle /\ o = goal[r].object /\ rp = parent[root]
        /\ root \in Chain(o, NoObject) \ Climbing(NoObject)
        /\ root \in Objects \cap Exists /\ rp \in Frames
        /\ goal' = [goal EXCEPT ![r] = g]
        /\ g.stage = "depart" /\ g.pick /\ g.object = o
        /\ g.root = root /\ g.rootParent = rp
        /\ Chain(o, NoObject) \cap Tools = {}
        /\ SceneInv' /\ Exists' = Exists /\ Frames' = Frames
        /\ parent' = Rerooted(o, Tip[r], NoObject) /\ Tip[r] \in Frames
        /\ Chain(root, ToolOf(r))' = Chain(o, NoObject)
        /\ Turned(r, o, Tip[r], NoObject)
  BY GraspFacts
<1>3. TreeInv /\ Exists \subseteq Objects /\ Chain(o, NoObject) \subseteq Exists
      /\ o \in Chain(o, NoObject)
  BY ChainFacts DEF PickInv, SceneInv, ContactInv, TreeInv, TreeTypeOK, Exists
<1>8. \A x \in Objects \ Chain(o, NoObject) : parent'[x] = parent[x]
  BY <1>2, <1>3, RerootedFacts
<1>11. ASSUME rp \in Objects PROVE Ancestors(rp)' \cap Chain(root, ToolOf(r))' = {}
  <2>1. Ancestors(rp) \cap Chain(o, NoObject) = {}
    BY <1>2, <1>3, <1>11, RootStandsElsewhere
  <2>. DEFINE K == {x \in Objects : parent[x] \in Objects}
              L == {x \in Objects : parent'[x] \in Objects}
              S == Up(Objects, parent, K, rp)
  <2>2. S = Ancestors(rp) /\ S \in SUBSET Objects /\ rp \in S
    BY <1>11, UpElement DEF Ancestors
  <2>3. \A x \in S \cap L : parent'[x] \in S
    <3>1. \A x \in S \cap L : parent'[x] = parent[x] /\ x \in K
      BY <1>8, <2>1, <2>2
    <3>2. \A x \in S \cap K : parent[x] \in S
      <4>1. \A x \in K : parent[x] \in Objects
        OBVIOUS
      <4>. HIDE DEF K
      <4>. QED
        BY <1>11, <2>2, <4>1, UpClosed
    <3>. HIDE DEF S, K, L
    <3>. QED
      BY <3>1, <3>2
  <2>4. Up(Objects, parent', L, rp) \subseteq S
    <3>. HIDE DEF S, L
    <3>. QED
      BY <1>11, <2>2, <2>3, UpMinimal
  <2>5. Ancestors(rp)' = Up(Objects, parent', L, rp)
    BY DEF Ancestors
  <2>. HIDE DEF S, L
  <2>. QED
    BY <1>2, <2>1, <2>2, <2>4, <2>5
<1>4. OneTarget => rp \in Places
  <2>. SUFFICES ASSUME OneTarget, rp \notin Links PROVE rp \in Places
    BY DEF Places
  <2>1. root \notin attached
    BY <1>2, <1>3, TreeAssumption DEF Climbing, Frames
  <2>. QED
    BY <1>2, <2>1 DEF PickInv, Standing, Exists
<1>5. Meet(o, root)'
  <2>1. o \in Chain(root, NoObject)' /\ o \in Chain(o, NoObject)'
    BY <1>2, <1>3, TurnGathers DEF PickInv
  <2>. QED
    BY <2>1 DEF Meet
<1>12. MayReturn(r, g)'
  <2>1. rp \in Links \/ Ancestors(rp)' \cap Chain(root, ToolOf(r))' = {}
    BY <1>2, <1>3, <1>11 DEF Frames
  <2>. QED
    BY <1>2, <1>3, <1>4, <2>1 DEF MayReturn, Foreign
<1>13. Fits(r, g)'
  <2>1. root \in Exists \ Tools
    BY <1>2, <1>3
  <2>2. o \in Exists \ Tools
    BY <1>2, <1>3
  <2>. QED
    BY <1>2, <1>5, <1>12, <2>1, <2>2 DEF Fits, Before
<1>14. Meet(o, goal[r].object)
  BY <1>2, <1>3, MeetFacts
<1>. QED
  BY <1>2, <1>3, <1>13, <1>14, TreeStep

LEMMA ReleaseTurns ==
  ASSUME PickInv, NEW r \in Robots, Release(r)
  PROVE  /\ goal[r] # Idle
         /\ Turned(r, goal[r].object, goal[r].frame, ToolOf(r))
         /\ Meet(goal[r].object, goal[r].object)
<1>1. /\ goal[r] # Idle /\ goal[r].stage = "grasp" /\ ~ goal[r].pick
      /\ DetachAndTouch(goal[r].object, goal[r].frame, ToolOf(r))
  BY DEF Release, At
<1>2. /\ goal[r].frame \in Frames \cap Places
      /\ Foreign(goal[r].object, goal[r].frame, ToolOf(r))
      /\ Chain(goal[r].object, ToolOf(r)) \cap Tools = {} /\ goal[r].object \in Exists
  BY <1>1, GoalFacts DEF Fits, Before, MayPlace, Places
<1>3. ToolOf(r) \in Objects \cup {NoObject}
  BY DEF ToolOf
<1>. QED
  BY <1>1, <1>2, <1>3, MeetFacts DEF Turned, PickInv, SceneInv, ContactInv

LEMMA RollbackTurns ==
  ASSUME PickInv, NEW r \in Robots, Rollback(r)
  PROVE  /\ goal[r] # Idle /\ goal[r] \in Goals
         /\ Fits(r, goal[r]) /\ MayReturn(r, goal[r])
         /\ Turned(r, goal[r].root, goal[r].rootParent, ToolOf(r))
         /\ Meet(goal[r].root, goal[r].object)
<1>1. /\ goal[r] # Idle /\ goal[r].stage \in {"depart", "verify"} /\ goal[r].pick
      /\ DetachAndTouch(goal[r].root, goal[r].rootParent, ToolOf(r))
  BY DEF Rollback, At
<1>2. goal[r] \in Goals /\ Fits(r, goal[r]) /\ MayReturn(r, goal[r])
  BY <1>1, GoalFacts DEF Fits
<1>3. Turned(r, goal[r].root, goal[r].rootParent, ToolOf(r))
  <2>1. ToolOf(r) \in Objects \cup {NoObject}
    BY DEF ToolOf
  <2>. QED
    BY <1>1, <1>2, <2>1 DEF MayReturn, Turned
<1>4. TreeInv /\ NoObject \notin Exists
  BY <1>3, TurnFacts, TreeAssumption DEF PickInv
<1>5. Meet(goal[r].root, goal[r].object)
  BY <1>2, <1>4, MeetFacts DEF Fits, MayReturn
<1>. QED
  BY <1>1, <1>2, <1>3, <1>5

\* detach_object of what is placed: the old root hangs on it.
LEMMA ReleaseStep ==
  ASSUME PickInv, MaxBusy = 1 \/ OneTarget, NEW r \in Robots, Release(r)
  PROVE  PickInv'
<1>1. /\ goal[r] # Idle /\ goal[r].stage = "grasp" /\ ~ goal[r].pick
      /\ DetachAndTouch(goal[r].object, goal[r].frame, ToolOf(r))
      /\ Record(r, ToolOf(r))
  BY DEF Release, At
<1>2. PICK o \in Exists, g \in Goals, root \in Objects, rp \in Frames :
        /\ o = goal[r].object /\ rp = parent[root]
        /\ root \in Chain(o, ToolOf(r)) \ Climbing(ToolOf(r))
        /\ root \in Objects \cap Exists /\ rp \in Frames
        /\ goal' = [goal EXCEPT ![r] = g]
        /\ g.stage = "depart" /\ g.pick = goal[r].pick /\ g.object = o
        /\ g.root = root /\ g.rootParent = rp
  BY <1>1, RecordFacts
<1>3. /\ TreeInv /\ SceneInv /\ Exists \subseteq Objects /\ NoObject \notin Exists
      /\ Chain(o, ToolOf(r)) \subseteq Exists
  BY ChainFacts, TreeAssumption
  DEF PickInv, SceneInv, ContactInv, TreeInv, TreeTypeOK, Exists
<1>. DEFINE f == goal[r].frame
<1>4. /\ f \in Frames \cap Places /\ Foreign(o, f, ToolOf(r))
      /\ Chain(o, ToolOf(r)) \cap Tools = {} /\ o \in Exists \ Tools
  BY <1>1, <1>2, GoalFacts DEF Fits, Before, MayPlace, Places
<1>12. Turned(r, o, f, ToolOf(r))
  BY <1>2, ReleaseTurns
<1>6. SceneInv' /\ Exists' = Exists /\ Frames' = Frames
  BY <1>3, <1>12, TurnFacts
<1>13. o \in Chain(o, ToolOf(r)) /\ Meet(o, goal[r].object)
  BY <1>2, <1>3, ChainFacts, ReleaseTurns
<1>7. /\ parent' = Rerooted(o, f, ToolOf(r))
      /\ attached' = (attached \cup Chain(o, ToolOf(r))) \ {o}
  BY <1>1, <1>2 DEF DetachAndTouch, DetachObject
<1>8. \A x \in Chain(o, ToolOf(r)) \ {o} : parent'[x] \in Chain(o, ToolOf(r))
  BY <1>3, <1>4, <1>7, RerootedFacts
<1>. DEFINE H == Climbing(NoObject)'
<1>9. /\ H \in SUBSET Objects /\ \A x \in H : parent'[x] \in Objects
      /\ Chain(o, ToolOf(r)) \ {o} \subseteq H /\ o \notin H
  <2>1. H = {x \in attached' : parent'[x] \in Exists \ {NoObject}}
    BY <1>6 DEF Climbing
  <2>2. attached' \subseteq Objects
    BY <1>6 DEF SceneInv, ContactInv, TreeInv, TreeTypeOK
  <2>. HIDE DEF H
  <2>. QED
    BY <1>3, <1>7, <1>8, <2>1, <2>2
<1>10. o \in Chain(root, NoObject)'
  <2>1. Chain(root, NoObject)' = Up(Objects, parent', H, root)
    BY DEF Chain
  <2>. HIDE DEF H, f
  <2>. QED
    BY <1>2, <1>3, <1>4, <1>7, <1>9, <2>1, ReversedChain
<1>11. Fits(r, g)'
  <2>1. root \in Exists \ Tools
    BY <1>2, <1>3, <1>4
  <2>2. Placed(g)'
    BY <1>2, <1>6, <1>10 DEF Placed
  <2>3. Meet(o, root)'
    <3>1. o \in Chain(o, NoObject)'
      BY <1>3, <1>12, <1>13, TurnGathers
    <3>. QED
      BY <1>10, <3>1 DEF Meet
  <2>. HIDE DEF H
  <2>. QED
    BY <1>1, <1>2, <1>4, <1>6, <2>1, <2>2, <2>3 DEF Fits, Before
<1>. HIDE DEF H, f
<1>. QED
  BY <1>1, <1>2, <1>11, <1>12, <1>13, TreeStep

\* detach_object of the old root of a pick that failed
LEMMA RollbackStep ==
  ASSUME PickInv, MaxBusy = 1 \/ OneTarget, NEW r \in Robots, Rollback(r)
  PROVE  PickInv'
<1>1. /\ goal[r] # Idle /\ goal[r].stage \in {"depart", "verify"} /\ goal[r].pick
      /\ DetachAndTouch(goal[r].root, goal[r].rootParent, ToolOf(r))
      /\ goal' = [goal EXCEPT ![r].stage = "reset"]
  BY DEF Rollback, At, Goto
<1>2. goal[r] \in Goals /\ Fits(r, goal[r]) /\ MayReturn(r, goal[r])
  BY RollbackTurns
<1>6. Turned(r, goal[r].root, goal[r].rootParent, ToolOf(r))
  BY RollbackTurns
<1>3. SceneInv' /\ Exists' = Exists /\ SceneInv /\ TreeInv /\ NoObject \notin Exists
  BY <1>6, TurnFacts, TreeAssumption DEF PickInv
<1>4. PICK g \in Goals : /\ goal' = [goal EXCEPT ![r] = g]
                         /\ g.stage = "reset" /\ g.object = goal[r].object
                         /\ g.root = goal[r].root
  <2>. DEFINE g == [goal[r] EXCEPT !.stage = "reset"]
  <2>1. g \in Goals
    BY <1>2, StageForms DEF Stages
  <2>2. goal' = [goal EXCEPT ![r] = g]
    BY <1>1 DEF PickInv
  <2>3. g.stage = "reset" /\ g.object = goal[r].object /\ g.root = goal[r].root
    BY <1>2, GoalsForm
  <2>. HIDE DEF g
  <2>. QED
    BY <2>1, <2>2, <2>3
<1>5. Fits(r, g)'
  <2>1. g.object \in Exists \ Tools /\ g.root \in {NoObject} \cup (Exists \ Tools)
    BY <1>2, <1>4 DEF Fits
  <2>2. Meet(g.object, g.root)'
    <3>1. PICK o, root, rp : o = goal[r].object /\ root = goal[r].root /\ rp = goal[r].rootParent
      OBVIOUS
    <3>2. /\ Turned(r, root, rp, ToolOf(r))
          /\ root \in Chain(root, ToolOf(r)) /\ o \in Chain(root, ToolOf(r))
      BY <1>2, <1>3, <1>6, <3>1, ChainFacts DEF MayReturn
    <3>3. root \in Chain(o, NoObject)' /\ root \in Chain(root, NoObject)'
      BY <1>3, <3>2, TurnGathers
    <3>. QED
      BY <1>4, <3>1, <3>3 DEF Meet
  <2>. QED
    BY <1>3, <1>4, <2>1, <2>2 DEF Fits, Before
<1>7. Meet(goal[r].root, goal[r].object)
  BY RollbackTurns
<1>. QED
  BY <1>1, <1>2, <1>4, <1>5, <1>6, <1>7, TreeStep DEF MayReturn

LEMMA NextPickInv == Orderly /\ PickInv /\ [PickOrPlaceNext]_vars => PickInv'
<1>. SUFFICES ASSUME Orderly, PickInv, [PickOrPlaceNext]_vars PROVE PickInv'
  OBVIOUS
<1>1. ASSUME NEW r \in Robots, Step(r) PROVE PickInv'
  BY <1>1, StageStep, AllowStep, GraspStep, ReleaseStep, RollbackStep, ResetStep DEF Step, Orderly
<1>2. CASE UNCHANGED vars
  <2>1. UNCHANGED treeVars /\ touch' = touch /\ acm' = acm /\ goal' = goal
    BY <1>2 DEF vars, contactVars
  <2>2. TreeInv' /\ Mounted' /\ ParentsExist' /\ Exists' = Exists /\ Frames' = Frames
    BY <2>1 DEF PickInv, SceneInv, ContactInv, TreeInv, TreeTypeOK, SceneMatchesTree, Rooted,
           SharedAttachLink, Mounted, ToolsStayMounted, ParentsExist, Exists, Frames, FrameOf,
           treeVars
  <2>3. ContactInv'
    BY <2>1, <2>2 DEF PickInv, SceneInv, ContactInv, ContactTypeOK, ConnectedMayTouch,
           ParentTouch, TouchOf, treeVars, TreeInv
  <2>4. \A a, leaf : Up(Objects, parent', Climbing(leaf)', a) = Chain(a, leaf)
    BY <2>1 DEF Chain, Climbing, Exists, treeVars
  <2>5. \A a : Up(Objects, parent', {y \in Objects : parent'[y] \in Objects}, a) = Ancestors(a)
    BY <2>1 DEF Ancestors, treeVars
  <2>7. OneTarget => Standing'
    BY <2>1 DEF PickInv, Standing, treeVars
  <2>8. OneTarget => Separate'
    BY <2>1, <2>4 DEF PickInv, Separate, Busy, Alone, Meet, Chain
  <2>6. ASSUME NEW r \in Robots, NEW g \in Goals, goal'[r] = g PROVE Fits(r, g)'
    <3>1. Fits(r, g)
      BY <2>1, <2>6 DEF PickInv
    <3>. QED
      BY <2>2, <2>4, <2>5, <3>1, FitsKept
  <2>. QED
    BY <2>1, <2>2, <2>3, <2>6, <2>7, <2>8 DEF PickInv, SceneInv, Busy
<1>. QED
  BY <1>1, <1>2, AcceptPickStep, AcceptPlaceStep, FixtureStep DEF PickOrPlaceNext

-----------------------------------------------------------------------------
(* The initial scene.                                                      *)

\* The links of the initial scene: nothing is above the attached object that hangs
\* on a link, so that it is the only one of its kind above an object.
LEMMA SceneLinks ==
  ASSUME NEW scene, SceneOK(scene), parent = scene.parent, attached = scene.attached,
         link = [o \in Objects |->
                    IF \E r \in Ancestors(o) \cap attached : parent[r] \in Links
                      THEN parent[CHOOSE r \in Ancestors(o) \cap attached :
                                    parent[r] \in Links]
                      ELSE World]
  PROVE  /\ link \in [Objects -> Links]
         /\ \A o \in Objects \ attached : link[o] = World
         /\ \A o \in attached : parent[o] \in Objects \cup Links => link[o] = FrameOf(parent[o])
<1>. DEFINE H == {x \in Objects : parent[x] \in Objects}
<1>. USE TreeAssumption
<1>1. /\ parent \in [Objects -> Objects \cup Links \cup {NoObject}]
      /\ attached \subseteq Objects
      /\ \A x \in H : x \notin attached => parent[x] \notin attached
      /\ \A x \in H : parent[x] \in Objects
  BY DEF SceneOK
<1>2. \A o : Ancestors(o) = Up(Objects, parent, H, o)
  BY DEF Ancestors
<1>3. ASSUME NEW o \in Objects, NEW r \in Ancestors(o) \cap attached, parent[r] \in Links
      PROVE  link[o] = parent[r]
  <2>. DEFINE s == CHOOSE y \in Ancestors(o) \cap attached : parent[y] \in Links
  <2>1. s \in Ancestors(o) \cap attached /\ parent[s] \in Links
    BY <1>3
  <2>2. r \in Ancestors(o) \ H /\ s \in Ancestors(o) \ H
    BY <1>3, <2>1
  <2>3. link[o] = parent[s]
    BY <1>3
  <2>. HIDE DEF s, H
  <2>4. r = s
    BY <1>1, <1>2, <2>2, OneTop
  <2>. QED
    BY <2>3, <2>4
<1>4. ASSUME NEW o \in Objects, \A r \in Ancestors(o) \cap attached : parent[r] \notin Links
      PROVE  link[o] = World
  BY <1>4
<1>5. link \in [Objects -> Links]
  <2>1. \A o \in Objects : link[o] \in Links
    BY <1>3, <1>4
  <2>. QED
    BY <2>1
<1>6. ASSUME NEW o \in Objects \ attached PROVE link[o] = World
  <2>. DEFINE S == Objects \ attached
  <2>1. S \in SUBSET Objects /\ o \in S /\ \A x \in S \cap H : parent[x] \in S
    BY <1>1
  <2>2. Ancestors(o) \subseteq S
    <3>. HIDE DEF S, H
    <3>. QED
      BY <1>2, <2>1, UpMinimal
  <2>. QED
    BY <1>4, <2>2
<1>7. ASSUME NEW o \in attached, parent[o] \in Links PROVE link[o] = FrameOf(parent[o])
  <2>1. o \in Objects /\ o \in Ancestors(o)
    BY <1>1, <1>2, UpElement
  <2>. QED
    BY <1>3, <1>7, <2>1 DEF FrameOf
<1>8. ASSUME NEW o \in attached, parent[o] \in Objects PROVE link[o] = FrameOf(parent[o])
  <2>. DEFINE p == parent[o]
  <2>1. o \in Objects /\ o \in H /\ p \in Objects /\ p \notin Links
    BY <1>1, <1>8
  <2>2. p \in Ancestors(o) /\ Ancestors(p) \subseteq Ancestors(o)
    <3>1. o \in Up(Objects, parent, H, o)
      BY <2>1, UpElement
    <3>. HIDE DEF H
    <3>2. p \in Up(Objects, parent, H, o)
      BY <2>1, <3>1, UpClosed
    <3>. QED
      BY <1>1, <1>2, <2>1, <3>2, UpTransitive
  <2>3. \A r \in Ancestors(o) : r = o \/ r \in Ancestors(p)
    <3>. HIDE DEF H
    <3>. QED
      BY <1>1, <1>2, <2>1, UpUnfold
  <2>4. link[o] = link[p]
    <3>1. CASE \E r \in Ancestors(p) \cap attached : parent[r] \in Links
      BY <1>3, <2>1, <2>2, <3>1
    <3>2. CASE \A r \in Ancestors(p) \cap attached : parent[r] \notin Links
      BY <1>4, <2>1, <2>3, <3>2
    <3>. QED
      BY <3>1, <3>2
  <2>. QED
    BY <2>1, <2>4 DEF FrameOf
<1>. QED
  BY <1>5, <1>6, <1>7, <1>8

LEMMA InitPickInv == PickOrPlaceInit => PickInv
<1>. SUFFICES ASSUME PickOrPlaceInit PROVE PickInv
  OBVIOUS
<1>. USE TreeAssumption
<1>1. PICK scene \in Scenes :
       /\ parent = scene.parent
       /\ attached = scene.attached
       /\ world = {o \in Objects : scene.parent[o] # NoObject} \ scene.attached
       /\ link = [o \in Objects |->
                    IF \E r \in Ancestors(o) \cap attached : parent[r] \in Links
                      THEN parent[CHOOSE r \in Ancestors(o) \cap attached :
                                    parent[r] \in Links]
                      ELSE World]
  BY DEF PickOrPlaceInit
<1>2. SceneOK(scene)
  BY PickOrPlaceAssumption
<1>3. /\ link \in [Objects -> Links]
      /\ \A o \in Objects \ attached : link[o] = World
      /\ \A o \in attached : parent[o] \in Objects \cup Links => link[o] = FrameOf(parent[o])
  BY <1>1, <1>2, SceneLinks
<1>4. /\ parent \in [Objects -> Objects \cup Links \cup {NoObject}]
      /\ attached \subseteq Objects /\ world \subseteq Objects
      /\ Exists = {o \in Objects : parent[o] # NoObject}
      /\ attached \cap world = {} /\ WellRooted(Objects, parent)
      /\ \A o \in Objects : parent[o] \in Objects => parent[parent[o]] # NoObject
  BY <1>1, <1>2 DEF SceneOK, Exists
<1>5. TreeInv
  <2>1. Frames \subseteq Objects \cup Links
    BY <1>4 DEF Frames
  <2>. QED
    BY <1>3, <1>4, <2>1 DEF TreeInv, TreeTypeOK, SceneMatchesTree, Rooted, SharedAttachLink
<1>6. \A o \in Exists : parent[o] \in Objects \cup Links /\ ParentTouch(o) \subseteq Objects \cup Links
  BY <1>4, TouchOfType DEF ParentTouch
<1>7. ContactInv
  <2>1. touch = [o \in Objects |-> IF o \in attached THEN ParentTouch(o) ELSE {}]
    BY DEF PickOrPlaceInit
  <2>2. touch \in [Objects -> SUBSET (Objects \cup Links)] /\ ConnectedMayTouch
    BY <1>4, <1>6, <2>1 DEF ConnectedMayTouch, Exists
  <2>3. acm \subseteq Pairs
    BY <1>4, <1>6 DEF PickOrPlaceInit, Pairs, Exists
  <2>. QED
    BY <1>5, <2>2, <2>3 DEF ContactInv, ContactTypeOK, Pairs, TreeInv
<1>8. ParentsExist
  BY <1>4, <1>6 DEF ParentsExist
<1>9. Mounted
  <2>1. \A r \in Robots : GripperLink(parent, r) \in Links \ {Fixture}
    BY <1>1, <1>2 DEF SceneOK
  <2>2. \A q, r \in Robots : GripperLink(parent, q) = GripperLink(parent, r) => q = r
    BY <1>1, <1>2 DEF SceneOK
  <2>3. \A r \in Robots : Tip[r] \in Objects => Tip[r] \in attached /\ parent[Tip[r]] \in Links
    BY <1>1, <1>2 DEF SceneOK, GripperLink
  <2>. QED
    BY <2>1, <2>2, <2>3 DEF Mounted, ToolsStayMounted, Tools, ToolOf
<1>10. goal = [r \in Robots |-> Idle]
  BY DEF PickOrPlaceInit
<1>11. \A q, r \in Busy : q = r
  BY <1>10 DEF Busy
<1>12. OneTarget => Standing
  BY <1>1, <1>4 DEF OneTarget, Standing
<1>13. Separate
  BY <1>10 DEF Busy, Separate
<1>14. goal \in [Robots -> Goals \cup {Idle}] /\ \A r \in Robots, g \in Goals : goal[r] # g
  BY <1>10, GoalIsNotIdle
<1>. QED
  BY <1>5, <1>7, <1>8, <1>9, <1>11, <1>12, <1>13, <1>14 DEF PickInv, SceneInv

-----------------------------------------------------------------------------
(* The way back of a pick.                                                 *)

\* What is grasped carries all of what it was part of, and before the grasp
\* every part of that had the one below it as its parent; everything else is as
\* it was.
Undone(r, g) ==
  LET C == Chain(g.root, ToolOf(r))
  IN /\ g.object \in C
     /\ parent[g.object] = Tip[r]
     /\ g.rootParent = g.before.parent[g.root]
     /\ \A c \in C \ {g.object} : g.before.parent[parent[c]] = c
     /\ \A c \in C \ {g.root} : c \in g.before.attached
     /\ \A x \in Product(g.root) \ C :
          /\ parent[x] = g.before.parent[x]
          /\ x \in attached <=> x \in g.before.attached

UndoInv ==
  \A r \in Robots, g \in Goals :
    goal[r] = g /\ g.stage \in {"depart", "verify"} /\ g.pick => Undone(r, g)

\* What a step of one goal re-roots is no part of what another one has grasped.
LEMMA TurnUndone ==
  ASSUME PickInv, OneTarget, NEW r \in Robots, goal[r] # Idle, NEW o, NEW p, NEW leaf,
         Turned(r, o, p, leaf), Meet(o, goal[r].object),
         NEW q \in Robots \ {r}, NEW h \in Goals, goal[q] = h, MayReturn(q, h), Undone(q, h)
  PROVE  Undone(q, h)'
<1>. DEFINE C == Chain(o, leaf)
            D == Chain(h.root, ToolOf(q))
            R == Chain(h.root, NoObject)
<1>1. /\ SceneInv /\ TreeInv /\ SceneInv' /\ Exists' = Exists /\ Exists \subseteq Objects
      /\ C \subseteq Exists
      /\ \A x \in Objects \ C : parent'[x] = parent[x] /\ (x \in attached' <=> x \in attached)
  BY TurnFacts DEF PickInv
<1>2. h.root \in Exists /\ Meet(goal[q].object, h.root) /\ goal[q] # Idle
  BY <1>1, GoalIsNotIdle, TreeAssumption DEF PickInv, Fits, MayReturn
<1>3. R \cap (C \cup {ToolOf(r)}) = {} /\ \A l : Chain(h.root, l)' = Chain(h.root, l)
  BY <1>2, TurnSpares
<1>4. D \subseteq R /\ R \subseteq Exists /\ h.object \in D /\ h.root \in D
  BY <1>1, <1>2, ChainStops, ChainFacts DEF Undone
<1>. DEFINE U(x) == Up(Objects, parent', Climbing(NoObject)', x)
<1>5. \A x : Chain(x, NoObject)' = U(x)
  BY DEF Chain
<1>6. \A x \in Objects \cap Climbing(NoObject)' : parent'[x] \in Objects
  BY <1>1 DEF Climbing
<1>7. U(h.root) = R
  BY <1>3, <1>5
<1>8. ASSUME NEW x \in Exists, U(x) \cap R # {} PROVE U(x) \cap C = {}
  <2>. SUFFICES ASSUME NEW c \in U(x) \cap C PROVE FALSE
    OBVIOUS
  <2>. HIDE DEF C, R
  <2>1. PICK y \in R : y \in U(x)
    BY <1>8
  <2>2. c \in C /\ c \in U(x) /\ c \in Objects /\ y \in Objects
    BY <1>1, <1>4
  <2>3. c \in U(y) \/ y \in U(c)
    BY <1>1, <1>6, <2>1, <2>2, UpTotal
  <2>4. U(c) \subseteq C \cup {ToolOf(r)}
    <3>1. Chain(c, NoObject)' \subseteq Chain(o, leaf) \cup {ToolOf(r)}
      BY <1>1, TurnGathers DEF C
    <3>. QED
      BY <1>5, <3>1 DEF C
  <2>5. U(y) \subseteq R
    <3>1. y \in U(h.root)
      BY <1>7
    <3>2. U(y) \subseteq U(h.root)
      BY <1>1, <1>2, <1>6, <2>2, <3>1, UpTransitive
    <3>. QED
      BY <1>7, <3>2
  <2>. QED
    BY <1>3, <2>1, <2>2, <2>3, <2>4, <2>5
<1>9. ASSUME NEW x \in Product(h.root)'
      PROVE  x \in Product(h.root) /\ x \in Objects \ C
  <2>1. x \in Exists /\ U(x) \cap R # {}
    BY <1>1, <1>5, <1>7 DEF Product
  <2>2. U(x) \cap C = {}
    BY <1>8, <2>1
  <2>3. Chain(x, NoObject)' = Chain(x, NoObject)
    BY <1>1, <1>5, <2>1, <2>2, TurnFrame
  <2>4. x \in U(x)
    BY <1>1, <2>1, UpElement
  <2>. HIDE DEF U, C
  <2>. QED
    BY <1>1, <1>5, <2>1, <2>2, <2>3, <2>4 DEF Product
<1>10. \A x \in D : x \in Objects \ C
  BY <1>1, <1>3, <1>4
<1>11. Chain(h.root, ToolOf(q))' = D
  BY <1>3
<1>. HIDE DEF C, D, R, U
<1>12. /\ h.object \in D /\ parent[h.object] = Tip[q]
       /\ h.rootParent = h.before.parent[h.root]
       /\ \A c \in D \ {h.object} : h.before.parent[parent[c]] = c
       /\ \A c \in D \ {h.root} : c \in h.before.attached
       /\ \A x \in Product(h.root) \ D : /\ parent[x] = h.before.parent[x]
                                         /\ x \in attached <=> x \in h.before.attached
  BY DEF Undone, D
<1>13. parent'[h.object] = Tip[q] /\ \A c \in D \ {h.object} : h.before.parent[parent'[c]] = c
  BY <1>1, <1>10, <1>12
<1>14. \A x \in Product(h.root)' \ D : /\ parent'[x] = h.before.parent[x]
                                       /\ x \in attached' <=> x \in h.before.attached
  BY <1>1, <1>9, <1>12
<1>. QED
  BY <1>11, <1>12, <1>13, <1>14 DEF Undone

\* A step of one goal does not change what another one has grasped.
LEMMA OthersUndone ==
  ASSUME PickInv, UndoInv, MaxBusy = 1 \/ OneTarget, NEW r \in Robots, Step(r),
         NEW q \in Robots \ {r}, NEW h \in Goals, goal'[q] = h,
         h.stage \in {"depart", "verify"}, h.pick
  PROVE  Undone(q, h)'
<1>1. goal[r] # Idle
  BY DEF Step, Move, AllowAttached, ReadToAllow, WriteAllowed, Approach, Grasp, Release, Depart,
         Rollback, Verify, Cancel, ReadToReset, WriteReset, At
<1>2. goal[q] = h
  BY DEF PickInv, Step, Move, AllowAttached, ReadToAllow, WriteAllowed, Approach, Grasp, Release,
         Depart, Rollback, Verify, Cancel, ReadToReset, WriteReset, Goto, Record
<1>3. Undone(q, h) /\ MayReturn(q, h) /\ goal[q] # Idle
  BY <1>2, GoalIsNotIdle DEF UndoInv, PickInv, Fits
<1>4. OneTarget
  BY <1>1, <1>3 DEF PickInv, Busy
<1>5. CASE Grasp(r) \/ Release(r) \/ Rollback(r)
  <2>1. \E o, p, leaf : Turned(r, o, p, leaf) /\ Meet(o, goal[r].object)
    <3>1. CASE Grasp(r)
      <4>1. PICK o \in Exists : o = goal[r].object /\ Turned(r, o, Tip[r], NoObject)
        BY <3>1, GraspFacts
      <4>2. Meet(o, goal[r].object)
        BY <4>1, MeetFacts DEF PickInv, SceneInv, ContactInv
      <4>. QED
        BY <4>1, <4>2
    <3>2. CASE Release(r)
      BY <3>2, ReleaseTurns
    <3>3. CASE Rollback(r)
      BY <3>3, RollbackTurns
    <3>. QED
      BY <1>5, <3>1, <3>2, <3>3
  <2>. QED
    BY <1>1, <1>2, <1>3, <1>4, <2>1, TurnUndone
<1>6. CASE ~ (Grasp(r) \/ Release(r) \/ Rollback(r))
  <2>1. UNCHANGED <<parent, attached, world>>
    BY <1>6 DEF Step, Move, AllowAttached, AllowCollision, ReadToAllow, WriteAllowed, Approach,
                Depart, Verify, Cancel, ReadToReset, WriteReset, contactVars, treeVars
  <2>. QED
    BY <1>3, <2>1 DEF Undone, Product, Chain, Climbing, Exists
<1>. QED
  BY <1>5, <1>6

LEMMA GraspUndo ==
  ASSUME PickInv, UndoInv, MaxBusy = 1 \/ OneTarget, NEW r \in Robots, Grasp(r)
  PROVE  UndoInv'
<1>1. PICK o \in Exists, g \in Goals, root \in Objects, rp \in Frames :
        /\ goal[r] # Idle /\ o = goal[r].object /\ rp = parent[root]
        /\ root \in Chain(o, NoObject) \ Climbing(NoObject)
        /\ goal' = [goal EXCEPT ![r] = g]
        /\ g.object = o /\ g.root = root /\ g.rootParent = rp
        /\ g.before = [parent |-> parent, attached |-> attached]
        /\ Exists' = Exists
        /\ parent' = Rerooted(o, Tip[r], NoObject) /\ Tip[r] \in Frames
        /\ attached' = attached \cup Chain(o, NoObject)
        /\ Chain(root, ToolOf(r))' = Chain(o, NoObject)
  BY GraspFacts
<1>. DEFINE C == Chain(o, NoObject)
<1>2. TreeInv /\ Exists \subseteq Objects /\ C \subseteq Exists /\ o \in C
  BY ChainFacts DEF PickInv, SceneInv, ContactInv, TreeInv, TreeTypeOK, Exists
<1>3. /\ parent'[o] = Tip[r]
      /\ \A x \in Objects \ C : parent'[x] = parent[x]
      /\ \A c \in C \ {o} : parent[parent'[c]] = c
  BY <1>1, <1>2, RerootedFacts
<1>4. \A c \in C \ {root} : c \in attached
  <2>1. \A c \in C \ {root} : c \in Climbing(NoObject)
    BY <1>1, <1>2, ChainTop
  <2>. QED
    BY <2>1 DEF Climbing
<1>5. \A x \in Product(root)' : x \in Objects
  BY <1>1, <1>2 DEF Product
<1>. HIDE DEF C
<1>6. Undone(r, g)'
  <2>1. Chain(g.root, ToolOf(r))' = C /\ Product(g.root)' = Product(root)'
    BY <1>1 DEF C
  <2>2. g.before.parent = parent /\ g.before.attached = attached
    BY <1>1
  <2>3. attached' = attached \cup C
    BY <1>1 DEF C
  <2>. QED
    BY <1>1, <1>2, <1>3, <1>4, <1>5, <2>1, <2>2, <2>3 DEF Undone
<1>7. goal'[r] = g
  BY <1>1 DEF PickInv
<1>8. ASSUME NEW q \in Robots \ {r}, NEW h \in Goals, goal'[q] = h,
             h.stage \in {"depart", "verify"}, h.pick
      PROVE  Undone(q, h)'
  BY <1>8, OthersUndone DEF Step
<1>. QED
  BY <1>6, <1>7, <1>8 DEF UndoInv

\* A goal that is going on to 'verify', or that is not about to depart from a
\* pick after the step
LEMMA StageUndo ==
  ASSUME PickInv, UndoInv, MaxBusy = 1 \/ OneTarget, NEW r \in Robots, Step(r), ~ Grasp(r)
  PROVE  UndoInv'
<1>1. goal[r] # Idle
  BY DEF Step, Move, AllowAttached, ReadToAllow, WriteAllowed, Approach, Release, Depart, Rollback,
         Verify, Cancel, ReadToReset, WriteReset, At
<1>2. goal[r] \in Goals
  BY <1>1, GoalFacts
<1>3. ASSUME NEW q \in Robots \ {r}, NEW h \in Goals, goal'[q] = h,
             h.stage \in {"depart", "verify"}, h.pick
      PROVE  Undone(q, h)'
  BY <1>3, OthersUndone
<1>4. CASE Depart(r)
  <2>1. PICK stage \in {"verify", "reset"} : goal' = [goal EXCEPT ![r].stage = stage]
    BY <1>4 DEF Depart, Goto
  <2>. DEFINE g == [goal[r] EXCEPT !.stage = stage]
  <2>2. goal'[r] = g
    BY <2>1 DEF PickInv
  <2>3. /\ g.object = goal[r].object /\ g.root = goal[r].root /\ g.pick = goal[r].pick
        /\ g.rootParent = goal[r].rootParent /\ g.before = goal[r].before
    BY <1>2, GoalsForm
  <2>4. UNCHANGED <<parent, attached, world>> /\ goal[r].stage = "depart"
    BY <1>4 DEF Depart, At, contactVars, treeVars
  <2>. HIDE DEF g
  <2>5. ASSUME NEW h \in Goals, h = g, h.pick PROVE Undone(r, h)'
    <3>1. Undone(r, goal[r])
      BY <1>2, <2>3, <2>4, <2>5 DEF UndoInv
    <3>2. Undone(r, h)
      BY <2>3, <2>5, <3>1 DEF Undone
    <3>. QED
      BY <2>4, <3>2 DEF Undone, Product, Chain, Climbing, Exists
  <2>. QED
    BY <1>3, <2>2, <2>5, GoalIsNotIdle DEF UndoInv
<1>5. CASE ~ Depart(r)
  <2>1. goal'[r] = Idle \/ goal'[r].stage \notin {"depart", "verify"} \/ ~ goal'[r].pick
    BY <1>2, <1>5
    DEF PickInv, Step, Move, AllowAttached, ReadToAllow, WriteAllowed, Approach, Release,
        Rollback, Verify, Cancel, ReadToReset, WriteReset, Goto, Record, Goals
  <2>. QED
    BY <1>3, <2>1, GoalIsNotIdle DEF UndoInv
<1>. QED
  BY <1>4, <1>5

\* What is fixed or released is no part of what a robot holds.
LEMMA FixtureUndo ==
  ASSUME PickInv, UndoInv, NEW x \in Objects, FixObject(x) \/ ReleaseObject(x)
  PROVE  UndoInv'
<1>1. /\ Exists' = Exists /\ goal' = goal /\ Chain(x, NoObject) = {x}
      /\ \A a, leaf : Up(Objects, parent', Climbing(leaf)', a) = Chain(a, leaf)
      /\ \A y \in Objects \ {x} : parent'[y] = parent[y] /\ (y \in attached' <=> y \in attached)
  BY FixtureKeeps DEF PickInv
<1>2. \A a, leaf : Chain(a, leaf)' = Chain(a, leaf)
  BY <1>1 DEF Chain
<1>3. \A a : Product(a)' = Product(a)
  BY <1>1, <1>2 DEF Product
<1>4. TreeInv /\ Exists \subseteq Objects
  BY DEF PickInv, SceneInv, ContactInv, TreeInv, TreeTypeOK, Exists
<1>5. ASSUME NEW r \in Robots, NEW g \in Goals, goal'[r] = g, g.stage \in {"depart", "verify"}, g.pick
      PROVE  Undone(r, g)'
  <2>1. Undone(r, g) /\ Fits(r, g) /\ goal[r] # Idle
    BY <1>1, <1>5, GoalIsNotIdle DEF UndoInv, PickInv
  <2>. DEFINE C == Chain(g.root, ToolOf(r))
  <2>2. g.object \in C /\ g.root \in Exists /\ g.object \in Exists
    BY <1>5, <2>1 DEF Undone, Fits, MayReturn
  <2>3. C \subseteq Exists /\ C \subseteq Chain(g.root, NoObject)
    <3>1. Climbing(ToolOf(r)) \subseteq Climbing(NoObject)
      BY <1>4, TreeAssumption DEF Climbing
    <3>2. \A y \in Objects \cap Climbing(NoObject) : parent[y] \in Objects
      BY <1>4, <2>2, ChainFacts
    <3>. QED
      BY <1>4, <2>2, <3>1, <3>2, ChainFacts, UpMonotone DEF Chain
  <2>4. C \subseteq Product(g.root)
    BY <1>4, <2>3, ChainFacts DEF Product
  <2>5. x \notin Product(g.root)
    <3>. SUFFICES ASSUME x \in Product(g.root) PROVE FALSE
      OBVIOUS
    <3>1. x \in Chain(g.root, NoObject) /\ g.object \in Chain(g.root, NoObject)
      BY <1>1, <2>2, <2>3 DEF Product
    <3>2. x \in Exists
      BY DEF Product
    <3>3. \A y \in Objects \cap Climbing(NoObject) : parent[y] \in Objects
      BY <1>4, <2>2, ChainFacts
    <3>4. x \in Chain(g.object, NoObject) \/ g.object \in Chain(x, NoObject)
      BY <1>4, <2>2, <3>1, <3>3, UpTotal DEF Chain
    <3>5. g.object \in Chain(g.object, NoObject) /\ x \in Chain(x, NoObject)
      BY <1>4, <2>2, <3>2, ChainFacts
    <3>6. g.object \in Product(x)
      BY <1>1, <2>2, <3>4, <3>5 DEF Product
    <3>7. r \in Busy \ {NoObject} /\ goal[r] = g
      BY <1>1, <1>5, <2>1, PickOrPlaceAssumption DEF Busy
    <3>. QED
      BY <3>6, <3>7 DEF FixObject, ReleaseObject, Untouched
  <2>6. /\ \A y \in Product(g.root) : /\ parent'[y] = parent[y]
                                      /\ y \in attached' <=> y \in attached
        /\ Chain(g.root, ToolOf(r))' = C
        /\ Product(g.root)' = Product(g.root)
    <3>1. Product(g.root) \subseteq Objects
      BY <1>4 DEF Product
    <3>. QED
      BY <1>1, <1>2, <1>3, <2>5, <3>1
  <2>. QED
    BY <2>1, <2>4, <2>6 DEF Undone
<1>. QED
  BY <1>5 DEF UndoInv

LEMMA NextUndoInv == Orderly /\ PickInv /\ UndoInv /\ [PickOrPlaceNext]_vars => UndoInv'
<1>. SUFFICES ASSUME Orderly, PickInv, UndoInv, [PickOrPlaceNext]_vars PROVE UndoInv'
  OBVIOUS
<1>1. ASSUME NEW r \in Robots, NEW pick, NEW o, NEW f, Accept(r, pick, o, f) PROVE UndoInv'
  <2>1. /\ UNCHANGED <<parent, attached, world>>
        /\ \A q \in Robots : goal'[q] = goal[q] \/ goal'[q].stage = "move"
    BY <1>1 DEF Accept, contactVars, treeVars, PickInv
  <2>2. ASSUME NEW q \in Robots, NEW h \in Goals, goal'[q] = h, h.stage \in {"depart", "verify"}, h.pick
        PROVE  Undone(q, h)'
    <3>1. Undone(q, h)
      BY <2>1, <2>2 DEF UndoInv
    <3>. QED
      BY <2>1, <3>1 DEF Undone, Product, Chain, Climbing, Exists
  <2>. QED
    BY <2>2 DEF UndoInv
<1>2. ASSUME NEW r \in Robots, Step(r) PROVE UndoInv'
  BY <1>2, GraspUndo, StageUndo DEF Orderly
<1>3. CASE UNCHANGED vars
  <2>1. UNCHANGED <<parent, attached, world, goal>>
    BY <1>3 DEF vars, contactVars, treeVars
  <2>2. ASSUME NEW q \in Robots, NEW h \in Goals, goal'[q] = h, h.stage \in {"depart", "verify"}, h.pick
        PROVE  Undone(q, h)'
    <3>1. Undone(q, h)
      BY <2>1, <2>2 DEF UndoInv
    <3>. QED
      BY <2>1, <3>1 DEF Undone, Product, Chain, Climbing, Exists
  <2>. QED
    BY <2>2 DEF UndoInv
<1>. QED
  BY <1>1, <1>2, <1>3, FixtureUndo DEF PickOrPlaceNext, AcceptPick, AcceptPlace

\* detach_object of the old root turns the chain back.
LEMMA RollbackUndoes ==
  ASSUME PickInv, UndoInv, NEW r \in Robots, Rollback(r),
         goal[r].root \notin goal[r].before.attached
  PROVE  \A x \in Product(goal[r].root) :
           /\ parent'[x] = goal[r].before.parent[x]
           /\ x \in attached' <=> x \in goal[r].before.attached
<1>1. /\ goal[r] # Idle /\ goal[r].stage \in {"depart", "verify"} /\ goal[r].pick
      /\ DetachAndTouch(goal[r].root, goal[r].rootParent, ToolOf(r))
  BY DEF Rollback, At
<1>2. PICK g \in Goals : g = goal[r]
  BY <1>1, GoalFacts
<1>3. Undone(r, g) /\ MayReturn(r, g)
  BY <1>1, <1>2 DEF UndoInv, PickInv, Fits
<1>. DEFINE C == Chain(g.root, ToolOf(r))
<1>4. TreeInv /\ Exists \subseteq Objects /\ g.root \in Exists /\ g.rootParent \in Frames
  BY <1>3 DEF PickInv, SceneInv, ContactInv, TreeInv, TreeTypeOK, Exists, MayReturn
<1>5. /\ parent' = Rerooted(g.root, g.rootParent, ToolOf(r))
      /\ attached' = (attached \cup C) \ {g.root}
  BY <1>1, <1>2 DEF DetachAndTouch, DetachObject
<1>6. /\ parent'[g.root] = g.rootParent
      /\ \A x \in Objects \ C : parent'[x] = parent[x]
      /\ \A x \in C \ {g.root} : /\ parent'[x] \in C \cap Climbing(ToolOf(r))
                                 /\ parent[parent'[x]] = x
      /\ g.root \in C
  BY <1>4, <1>5, RerootedFacts, ChainFacts
<1>7. g.object \notin Climbing(ToolOf(r))
  <2>1. parent[g.object] = Tip[r]
    BY <1>3 DEF Undone
  <2>. QED
    BY <1>4, <2>1, PickOrPlaceAssumption DEF Climbing, ToolOf
<1>. SUFFICES ASSUME NEW x \in Product(g.root)
              PROVE  /\ parent'[x] = g.before.parent[x]
                     /\ x \in attached' <=> x \in g.before.attached
  BY <1>2
<1>8. x \in Objects /\ g.root \notin g.before.attached
  BY <1>2, <1>4 DEF Product
<1>9. CASE x = g.root
  BY <1>3, <1>5, <1>6, <1>8, <1>9 DEF Undone
<1>10. CASE x \in C \ {g.root}
  <2>1. parent'[x] \in C \ {g.object}
    BY <1>6, <1>7, <1>10
  <2>2. g.before.parent[parent[parent'[x]]] = parent'[x]
    BY <1>3, <2>1 DEF Undone
  <2>3. x \in g.before.attached
    BY <1>3, <1>10 DEF Undone
  <2>. QED
    BY <1>5, <1>6, <1>10, <2>2, <2>3
<1>11. CASE x \notin C
  BY <1>3, <1>5, <1>6, <1>8, <1>11 DEF Undone
<1>. QED
  BY <1>9, <1>10, <1>11

-----------------------------------------------------------------------------
(* What may touch a gripper.                                               *)

Tips == {Tip[q] : q \in Robots}

\* Grippers are not among what belongs to other frames; nothing is placed on
\* one, and a world object does not stand on one.
GrippersApart ==
  /\ \A r \in Robots, f \in Objects \cup Links :
       TouchOf(f) \cap TouchOf(Tip[r]) # {} => f = Tip[r]
  /\ Tips \cap (Targets \cup {Fixture, Bench}) = {}
  /\ \A scene \in Scenes, o \in Objects : scene.parent[o] \in Tips => o \in scene.attached

\* A robot holds an object, or has a goal about it.
Concerns(r, o) ==
  \/ parent[o] = Tip[r]
  \/ goal[r] # Idle /\ o \in {goal[r].object, goal[r].root}

\* An attached object may touch more than its parent as long as a goal approaches
\* or leaves with it.
TouchInv ==
  \A o \in attached : \A x \in touch[o] :
    \/ x \in ParentTouch(o)
    \/ \E r \in Robots : /\ goal[r] # Idle /\ goal[r].stage # "resetting"
                         /\ goal[r].object = o /\ x \in TouchOf(goal[r].frame)

AcmInv ==
  \A r \in Robots, o \in Objects \ Tools : \A x \in TouchOf(Tip[r]) :
    {o, x} \in acm => Concerns(r, o)

\* What is to be picked is on no gripper; what is to be placed is on none but
\* that of its robot.
Handles(r, g) ==
  /\ IF g.pick THEN g.frame = Tip[r] ELSE g.frame \notin Tips
  /\ g.stage \in Before => g.root = NoObject
  /\ g.stage \in Before /\ g.pick => \A c \in Chain(g.object, NoObject) : parent[c] \notin Tips
  /\ g.stage \in Before /\ ~ g.pick =>
       \A c \in Chain(g.object, ToolOf(r)), q \in Robots : parent[c] = Tip[q] => q = r
  /\ g.stage \in {"depart", "verify"} /\ g.pick => g.rootParent \notin Tips

HandlesInv ==
  \A r \in Robots, g \in Goals :
    goal[r] = g => /\ Handles(r, g)
                   /\ g.stage \in {"allowing", "resetting"} => g.seen = acm

ClearInv ==
  /\ TouchInv /\ AcmInv /\ HandlesInv
  /\ \A o \in world : parent[o] \notin Tips

\* No robot has the gripper of another one.
LEMMA TipsDiffer ==
  ASSUME SceneInv, NEW q \in Robots, NEW r \in Robots, Tip[q] = Tip[r]
  PROVE  q = r
BY DEF SceneInv, Mounted, GripperLink

\* The touch links of a link are links.
LEMMA TouchOfTip ==
  ASSUME NEW f \in Objects \cup Links, NEW o \in Objects, o \in TouchOf(f)
  PROVE  o = f
BY TreeAssumption, TouchAssumption DEF TouchOf

\* A step that leaves the tree alone
LEMMA QuietClear ==
  ASSUME OneGoal, PickInv, ClearInv, UNCHANGED treeVars, NEW r \in Robots, NEW g \in Goals \cup {Idle},
         goal' = [goal EXCEPT ![r] = g], goal[r] # Idle \/ Busy = {},
         g # Idle => /\ Handles(r, g)
                     /\ g.stage \in {"allowing", "resetting"} => g.seen = acm',
         \A o \in attached : \A x \in touch'[o] :
           \/ x \in ParentTouch(o)
           \/ g # Idle /\ g.stage # "resetting" /\ g.object = o /\ x \in TouchOf(g.frame),
         \A q \in Robots, o \in Objects \ Tools : \A x \in TouchOf(Tip[q]) :
           {o, x} \in acm' =>
             parent[o] = Tip[q] \/ (q = r /\ g # Idle /\ o \in {g.object, g.root})
  PROVE  ClearInv'
<1>1. \A q \in Robots : goal'[q] = IF q = r THEN g ELSE Idle
  BY DEF OneGoal, PickInv, Busy
<1>2. \A a, leaf : Chain(a, leaf)' = Chain(a, leaf)
  BY DEF Chain, Climbing, Exists, treeVars
<1>3. \A a : ParentTouch(a)' = ParentTouch(a)
  BY DEF ParentTouch, treeVars
<1>4. parent' = parent /\ attached' = attached /\ world' = world
  BY DEF treeVars
<1>5. TouchInv'
  <2>. SUFFICES ASSUME NEW o \in attached, NEW x \in touch'[o], x \notin ParentTouch(o)
                PROVE  /\ goal'[r] # Idle /\ goal'[r].stage # "resetting"
                       /\ goal'[r].object = o /\ x \in TouchOf(goal'[r].frame)
    BY <1>3, <1>4 DEF TouchInv
  <2>. QED
    BY <1>1
<1>6. AcmInv'
  <2>. SUFFICES ASSUME NEW q \in Robots, NEW o \in Objects \ Tools, NEW x \in TouchOf(Tip[q]),
                       {o, x} \in acm', parent[o] # Tip[q]
                PROVE  goal'[q] # Idle /\ o \in {goal'[q].object, goal'[q].root}
    BY <1>4 DEF AcmInv, Concerns
  <2>. QED
    BY <1>1
<1>7. HandlesInv'
  <2>. SUFFICES ASSUME NEW q \in Robots, NEW h \in Goals, goal'[q] = h
                PROVE  /\ Handles(q, h)'
                       /\ h.stage \in {"allowing", "resetting"} => h.seen = acm'
    BY DEF HandlesInv
  <2>1. q = r /\ h = g /\ g # Idle
    BY <1>1, GoalIsNotIdle
  <2>2. Handles(q, h) => Handles(q, h)'
    BY <1>2, <1>4 DEF Handles
  <2>. QED
    BY <2>1, <2>2
<1>. QED
  BY <1>4, <1>5, <1>6, <1>7 DEF ClearInv

\* What the invariant says when one robot is busy
LEMMA ClearFacts ==
  ASSUME OneGoal, PickInv, ClearInv, NEW r \in Robots, goal[r] # Idle
  PROVE  /\ Handles(r, goal[r])
         /\ goal[r].stage \in {"allowing", "resetting"} => goal[r].seen = acm
         /\ \A o \in attached : \A x \in touch[o] :
              \/ x \in ParentTouch(o)
              \/ goal[r].stage # "resetting" /\ goal[r].object = o /\ x \in TouchOf(goal[r].frame)
         /\ \A q \in Robots, o \in Objects \ Tools : \A x \in TouchOf(Tip[q]) :
              {o, x} \in acm =>
                parent[o] = Tip[q] \/ (q = r /\ o \in {goal[r].object, goal[r].root})
<1>1. \A q \in Robots : goal[q] # Idle => q = r
  BY DEF OneGoal, PickInv, Busy
<1>2. goal[r] \in Goals
  BY GoalFacts
<1>3. \A o \in attached : \A x \in touch[o] :
        \/ x \in ParentTouch(o)
        \/ goal[r].stage # "resetting" /\ goal[r].object = o /\ x \in TouchOf(goal[r].frame)
  BY <1>1 DEF ClearInv, TouchInv
<1>4. \A q \in Robots, o \in Objects \ Tools : \A x \in TouchOf(Tip[q]) :
        {o, x} \in acm =>
          parent[o] = Tip[q] \/ (q = r /\ o \in {goal[r].object, goal[r].root})
  BY <1>1 DEF ClearInv, AcmInv, Concerns
<1>. QED
  BY <1>2, <1>3, <1>4 DEF ClearInv, HandlesInv

LEMMA StageHandles ==
  ASSUME NEW r \in Robots, NEW g \in Goals, Handles(r, g), NEW stage \in Stages,
         \/ g.stage \in Before /\ stage \in Before
         \/ stage \in {"reset", "resetting"}
         \/ g.stage = "depart" /\ stage = "verify",
         NEW seen
  PROVE  /\ Handles(r, [g EXCEPT !.stage = stage])
         /\ Handles(r, [g EXCEPT !.stage = stage, !.seen = seen])
<1>. DEFINE a == [g EXCEPT !.stage = stage]
            b == [g EXCEPT !.stage = stage, !.seen = seen]
<1>1. /\ a.stage = stage /\ a.object = g.object /\ a.root = g.root /\ a.pick = g.pick
      /\ a.frame = g.frame /\ a.rootParent = g.rootParent
  BY DEF Goals
<1>2. /\ b.stage = stage /\ b.object = g.object /\ b.root = g.root /\ b.pick = g.pick
      /\ b.frame = g.frame /\ b.rootParent = g.rootParent
  BY DEF Goals
<1>. HIDE DEF a, b
<1>3. Handles(r, a)
  BY <1>1 DEF Handles, Before
<1>4. Handles(r, b)
  BY <1>2 DEF Handles, Before
<1>. QED
  BY <1>3, <1>4 DEF a, b

LEMMA StageClear ==
  ASSUME OneGoal, PickInv, ClearInv, NEW r \in Robots,
         Move(r) \/ Approach(r) \/ Depart(r) \/ Verify(r) \/ Cancel(r)
  PROVE  ClearInv'
<1>1. goal[r] # Idle /\ UNCHANGED contactVars /\ goal[r].stage # "resetting"
  BY DEF Move, Approach, Depart, Verify, Cancel, At
<1>2. PICK stage \in Stages \ {"allowing", "resetting"} :
        /\ goal' = [goal EXCEPT ![r].stage = stage]
        /\ \/ goal[r].stage \in Before /\ stage \in Before
           \/ stage = "reset"
           \/ goal[r].stage = "depart" /\ stage = "verify"
  BY DEF Move, Approach, Depart, Verify, Cancel, At, Goto, Stages, Before
<1>. DEFINE g == [goal[r] EXCEPT !.stage = stage]
<1>3. goal' = [goal EXCEPT ![r] = g]
  BY <1>2 DEF PickInv
<1>4. g \in Goals
  BY <1>1, <1>2, GoalFacts, StageForms
<1>5. Handles(r, g)
  BY <1>1, <1>2, GoalFacts, ClearFacts, StageHandles
<1>6. UNCHANGED treeVars /\ touch' = touch /\ acm' = acm
  BY <1>1 DEF contactVars
<1>7. g.stage = stage /\ g.object = goal[r].object /\ g.root = goal[r].root /\ g.frame = goal[r].frame
  BY <1>1, GoalFacts, GoalsForm
<1>. HIDE DEF g
<1>8. \A o \in attached : \A x \in touch'[o] :
        \/ x \in ParentTouch(o)
        \/ g # Idle /\ g.stage # "resetting" /\ g.object = o /\ x \in TouchOf(g.frame)
  BY <1>1, <1>2, <1>4, <1>6, <1>7, ClearFacts, GoalIsNotIdle
<1>9. \A q \in Robots, o \in Objects \ Tools : \A x \in TouchOf(Tip[q]) :
        {o, x} \in acm' =>
          parent[o] = Tip[q] \/ (q = r /\ g # Idle /\ o \in {g.object, g.root})
  BY <1>1, <1>4, <1>6, <1>7, ClearFacts, GoalIsNotIdle
<1>. QED
  BY <1>1, <1>2, <1>3, <1>4, <1>5, <1>6, <1>7, <1>8, <1>9, QuietClear

\* A gripper does not touch itself: the entries of the ACM for an object that is
\* no tool say what the object may touch.
LEMMA EntryOf ==
  ASSUME NEW q \in Robots, NEW o \in Objects \ Tools, NEW x \in TouchOf(Tip[q]),
         NEW a \in Objects \ Tools, NEW y, {o, x} = {a, y}
  PROVE  o = a /\ x = y
<1>1. x # a
  <2>. SUFFICES ASSUME x = a PROVE FALSE
    OBVIOUS
  <2>1. Tip[q] \in Objects \cup Links
    BY PickOrPlaceAssumption
  <2>2. a = Tip[q]
    BY <2>1, TouchOfTip
  <2>. QED
    BY <2>2, TreeAssumption DEF Tools, ToolOf
<1>. QED
  BY <1>1

LEMMA AllowClear ==
  ASSUME OneGoal, GrippersApart, PickInv, ClearInv, NEW r \in Robots,
         AllowAttached(r) \/ ReadToAllow(r) \/ WriteAllowed(r)
  PROVE  ClearInv'
<1>1. goal[r] # Idle /\ goal[r].stage \in {"approach", "allowing"} /\ UNCHANGED treeVars
  BY DEF AllowAttached, ReadToAllow, WriteAllowed, At, AllowCollision, contactVars, treeVars
<1>2. PICK stage \in {"allowing", "approaching"}, seen \in SUBSET Pairs :
        /\ \/ goal' = [goal EXCEPT ![r].stage = stage]
           \/ goal' = [goal EXCEPT ![r].stage = stage, ![r].seen = seen]
        /\ stage = "allowing" => /\ goal' = [goal EXCEPT ![r].stage = stage, ![r].seen = seen]
                                 /\ seen = acm'
  BY TouchFacts DEF AllowAttached, ReadToAllow, WriteAllowed, Goto, contactVars
<1>3. stage \in Stages /\ goal[r].stage \in Before /\ stage \in Before
  BY <1>1 DEF Stages, Before
<1>. DEFINE a == [goal[r] EXCEPT !.stage = stage]
            b == [goal[r] EXCEPT !.stage = stage, !.seen = seen]
<1>4. /\ a \in Goals /\ b \in Goals /\ Handles(r, a) /\ Handles(r, b)
  <2>1. a \in Goals /\ b \in Goals
    BY <1>1, <1>3, GoalFacts, StageForms
  <2>. QED
    BY <1>1, <1>3, <2>1, GoalFacts, ClearFacts, StageHandles
<1>5. PICK g \in Goals :
        /\ goal' = [goal EXCEPT ![r] = g] /\ Handles(r, g)
        /\ g.stage = stage /\ (stage = "allowing" => g.seen = acm')
        /\ g.object = goal[r].object /\ g.root = goal[r].root /\ g.frame = goal[r].frame
  <2>1. /\ goal' = [goal EXCEPT ![r] = a] \/ goal' = [goal EXCEPT ![r] = b]
        /\ stage = "allowing" => goal' = [goal EXCEPT ![r] = b] /\ b.seen = acm'
    <3>1. goal[r] \in Goals /\ goal \in [Robots -> Goals \cup {Idle}]
      BY <1>1, GoalFacts DEF PickInv
    <3>2. b.seen = seen
      BY <3>1 DEF Goals
    <3>. QED
      BY <1>2, <3>1, <3>2
  <2>2. /\ a.stage = stage /\ a.object = goal[r].object /\ a.root = goal[r].root
        /\ a.frame = goal[r].frame
        /\ b.stage = stage /\ b.object = goal[r].object /\ b.root = goal[r].root
        /\ b.frame = goal[r].frame
    BY <1>1, GoalFacts DEF Goals
  <2>. HIDE DEF a, b
  <2>. QED
    BY <1>4, <2>1, <2>2
<1>6. /\ goal[r].frame \in Objects \cup Links /\ goal[r].object \in Objects \ Tools
      /\ IF goal[r].pick THEN goal[r].frame = Tip[r] ELSE goal[r].frame \notin Tips
  BY <1>1, GoalFacts, ClearFacts DEF Fits, Handles
<1>7. \A o \in attached : \A x \in touch'[o] :
        \/ x \in ParentTouch(o)
        \/ g # Idle /\ g.stage # "resetting" /\ g.object = o /\ x \in TouchOf(g.frame)
  <2>1. touch' = touch \/ touch' = [touch EXCEPT ![goal[r].object] = @ \cup TouchOf(goal[r].frame)]
    BY DEF AllowAttached, ReadToAllow, WriteAllowed, AllowCollision, contactVars
  <2>2. \A o \in attached : \A x \in touch'[o] :
          x \in touch[o] \/ (o = goal[r].object /\ x \in TouchOf(goal[r].frame))
    BY <1>6, <2>1, TouchFacts
  <2>3. g # Idle /\ g.stage # "resetting"
    BY <1>5, GoalIsNotIdle
  <2>. QED
    BY <1>1, <1>5, <2>2, <2>3, ClearFacts
<1>8. \A q \in Robots, o \in Objects \ Tools : \A x \in TouchOf(Tip[q]) :
        {o, x} \in acm' =>
          parent[o] = Tip[q] \/ (q = r /\ g # Idle /\ o \in {g.object, g.root})
  <2>. SUFFICES ASSUME NEW q \in Robots, NEW o \in Objects \ Tools, NEW x \in TouchOf(Tip[q]),
                       {o, x} \in acm'
                PROVE  parent[o] = Tip[q] \/ (q = r /\ g # Idle /\ o \in {g.object, g.root})
    OBVIOUS
  <2>1. CASE {o, x} \in acm
    BY <1>1, <1>5, <2>1, ClearFacts, GoalIsNotIdle
  <2>2. CASE {o, x} \notin acm
    <3>1. PICK y \in TouchOf(goal[r].frame) : {o, x} = {goal[r].object, y}
      <4>1. WriteAllowed(r) \/ (AllowAttached(r) /\ goal[r].object \in attached)
        BY <2>2 DEF AllowAttached, ReadToAllow, contactVars
      <4>2. WriteAllowed(r)
        BY <2>2, <4>1 DEF AllowAttached, AllowCollision
      <4>3. goal[r].seen = acm
        BY <1>1, <4>2, ClearFacts DEF WriteAllowed, At
      <4>. QED
        BY <2>2, <4>2, <4>3 DEF WriteAllowed, AcmWith
    <3>2. o = goal[r].object /\ x = y
      <4>. DEFINE d == goal[r].object
      <4>1. d \in Objects \ Tools /\ {o, x} = {d, y}
        BY <1>6, <3>1
      <4>. HIDE DEF d
      <4>2. o = d /\ x = y
        BY <4>1, EntryOf
      <4>. QED
        BY <4>2 DEF d
    <3>3. goal[r].frame = Tip[q]
      BY <1>6, <3>1, <3>2 DEF GrippersApart
    <3>4. q = r
      BY <1>6, <3>3, TipsDiffer DEF Tips, PickInv
    <3>. QED
      BY <1>5, <3>2, <3>4, GoalIsNotIdle
  <2>. QED
    BY <2>1, <2>2
<1>. QED
  BY <1>1, <1>2, <1>5, <1>7, <1>8, QuietClear

LEMMA ResetClear ==
  ASSUME OneGoal, GrippersApart, PickInv, ClearInv, NEW r \in Robots, ReadToReset(r) \/ WriteReset(r)
  PROVE  ClearInv'
<1>1. goal[r] # Idle /\ UNCHANGED treeVars /\ goal[r].stage \in {"reset", "resetting"}
  BY DEF ReadToReset, WriteReset, At
<1>. DEFINE o == goal[r].object
            root == goal[r].root
<1>2. /\ goal[r] \in Goals /\ Handles(r, goal[r]) /\ Fits(r, goal[r])
      /\ o \in Objects \ Tools /\ root \in Objects \cup {NoObject}
      /\ o \in Exists /\ parent[o] \in Objects \cup Links
  <2>1. o \in Objects \ Tools /\ o \in Exists
    BY <1>1, GoalFacts DEF Fits
  <2>2. parent[o] \in Objects \cup Links
    BY <2>1 DEF PickInv, SceneInv, ContactInv, TreeInv, TreeTypeOK, SceneMatchesTree
  <2>. QED
    BY <1>1, <2>1, <2>2, GoalFacts, ClearFacts
<1>3. CASE ReadToReset(r)
  <2>. DEFINE g == [goal[r] EXCEPT !.stage = "resetting", !.seen = acm]
  <2>1. g \in Goals /\ Handles(r, g)
    <3>1. "resetting" \in Stages
      BY DEF Stages
    <3>. QED
      BY <1>2, <3>1, TouchFacts, StageHandles, StageForms
  <2>2. goal' = [goal EXCEPT ![r] = g]
    BY <1>3 DEF ReadToReset, PickInv
  <2>3. acm' = acm /\ touch' = [touch EXCEPT ![o] = IF o \in attached THEN ParentTouch(o) ELSE @]
    BY <1>3 DEF ReadToReset
  <2>4. g.seen = acm /\ g.object = o /\ g.root = root
    BY <1>2 DEF Goals
  <2>. HIDE DEF g
  <2>5. \A a \in attached : \A x \in touch'[a] : x \in ParentTouch(a)
    <3>1. \A a \in attached : touch'[a] = IF a = o THEN ParentTouch(o) ELSE touch[a]
      BY <1>2, <2>3, TouchFacts
    <3>. QED
      BY <1>1, <3>1, ClearFacts
  <2>6. \A q \in Robots, a \in Objects \ Tools : \A x \in TouchOf(Tip[q]) :
          {a, x} \in acm' =>
            parent[a] = Tip[q] \/ (q = r /\ g # Idle /\ a \in {g.object, g.root})
    BY <1>1, <2>1, <2>3, <2>4, ClearFacts, GoalIsNotIdle
  <2>. QED
    BY <1>1, <2>1, <2>2, <2>3, <2>4, <2>5, <2>6, QuietClear
<1>4. CASE WriteReset(r)
  <2>1. touch' = touch /\ goal[r].stage = "resetting"
    BY <1>4 DEF WriteReset, At
  <2>2. \A a \in attached : \A x \in touch'[a] : x \in ParentTouch(a)
    BY <1>1, <2>1, ClearFacts
  <2>3. ASSUME NEW q \in Robots, NEW a \in Objects \ Tools, NEW x \in TouchOf(Tip[q]),
               {a, x} \in acm'
        PROVE  parent[a] = Tip[q] \/ (q = r /\ a = root /\ a # o)
    <3>1. CASE {a, x} \in AcmCleared(acm, o)
      BY <1>1, <2>3, <3>1, ClearFacts DEF AcmCleared
    <3>2. CASE {a, x} \notin AcmCleared(acm, o)
      <4>1. PICK y \in ParentTouch(o) : {a, x} = {o, y}
        <5>1. goal[r].seen = acm
          BY <1>1, <2>1, ClearFacts
        <5>. QED
          BY <1>4, <2>3, <3>2, <5>1 DEF WriteReset, AcmWith
      <4>2. a = o /\ x = y
        BY <1>2, <4>1, EntryOf
      <4>3. parent[o] = Tip[q]
        BY <1>2, <4>1, <4>2 DEF GrippersApart, ParentTouch
      <4>. QED
        BY <4>2, <4>3
    <3>. QED
      BY <3>1, <3>2
  <2>4. CASE root \in {NoObject, o}
    <3>1. goal' = [goal EXCEPT ![r] = Idle]
      BY <1>4, <2>4 DEF WriteReset
    <3>2. \A q \in Robots, a \in Objects \ Tools : \A x \in TouchOf(Tip[q]) :
            {a, x} \in acm' => parent[a] = Tip[q]
      BY <2>3, <2>4, TreeAssumption
    <3>. QED
      BY <1>1, <2>2, <3>1, <3>2, QuietClear
  <2>5. CASE root \notin {NoObject, o}
    <3>. DEFINE g == [goal[r] EXCEPT !.stage = "reset", !.object = root, !.root = NoObject, !.seen = {}]
    <3>1. goal' = [goal EXCEPT ![r] = g]
      BY <1>4, <2>5 DEF WriteReset, PickInv
    <3>2. g \in Goals
      BY <1>2, <2>5, RootForms DEF Stages
    <3>3. g.stage = "reset" /\ g.object = root /\ g.pick = goal[r].pick /\ g.frame = goal[r].frame
      BY <1>2 DEF Goals
    <3>. HIDE DEF g
    <3>4. Handles(r, g)
      BY <1>2, <3>3 DEF Handles, Before
    <3>5. \A q \in Robots, a \in Objects \ Tools : \A x \in TouchOf(Tip[q]) :
            {a, x} \in acm' =>
              parent[a] = Tip[q] \/ (q = r /\ g # Idle /\ a \in {g.object, g.root})
      BY <2>3, <3>2, <3>3, GoalIsNotIdle
    <3>. QED
      BY <1>1, <2>2, <3>1, <3>2, <3>3, <3>4, <3>5, QuietClear
  <2>. QED
    BY <2>4, <2>5
<1>. QED
  BY <1>3, <1>4

\* What is above an object and hangs on a gripper takes the object along.
LEMMA HangsOnTip ==
  ASSUME PickInv, ClearInv, NEW o \in Exists, NEW leaf, NEW c \in Chain(o, leaf),
         NEW q \in Robots, parent[c] = Tip[q]
  PROVE  o \in attached /\ link[o] = FrameOf(Tip[q])
<1>1. TreeInv /\ o \in Objects /\ Exists \subseteq Objects
  BY DEF PickInv, SceneInv, ContactInv, TreeInv, TreeTypeOK, Exists
<1>2. c \in attached
  BY <1>1, ChainFacts DEF ClearInv, Tips, Exists
<1>3. Tip[q] \in Frames
  BY TipExists DEF PickInv
<1>4. link[o] = FrameOf(Tip[q])
  <2>1. link[c] = FrameOf(Tip[q])
    BY <1>1, <1>2, <1>3 DEF TreeInv, SharedAttachLink
  <2>. QED
    BY <1>1, <2>1, ChainLink
<1>5. o \in attached
  <2>1. \A x \in Objects \cap Climbing(leaf) : parent[x] \in Objects
    BY <1>1, ChainFacts
  <2>2. c # o => o \in Climbing(leaf)
    BY <1>1, <2>1, UpUnfold DEF Chain
  <2>. QED
    BY <1>2, <2>2 DEF Climbing
<1>. QED
  BY <1>4, <1>5

\* A goal is accepted.
LEMMA AcceptedClear ==
  ASSUME OneGoal, PickInv, ClearInv, Busy = {}, NEW r \in Robots, NEW pick \in BOOLEAN,
         NEW o \in Exists, NEW f \in Objects \cup Links, Accept(r, pick, o, f),
         IF pick THEN f = Tip[r] ELSE f \notin Tips,
         pick => \A c \in Chain(o, NoObject) : parent[c] \notin Tips,
         ~ pick => \A c \in Chain(o, ToolOf(r)), q \in Robots : parent[c] = Tip[q] => q = r
  PROVE  ClearInv'
<1>. DEFINE g == [stage |-> "move", pick |-> pick, object |-> o, frame |-> f,
                  root |-> NoObject, rootParent |-> NoObject, seen |-> {},
                  before |-> [parent |-> parent, attached |-> attached]]
<1>1. goal' = [goal EXCEPT ![r] = g] /\ UNCHANGED treeVars /\ touch' = touch /\ acm' = acm
  BY DEF Accept, contactVars
<1>2. o \in Objects /\ [parent |-> parent, attached |-> attached] \in Scene
  BY DEF PickInv, SceneInv, ContactInv, TreeInv, TreeTypeOK, Exists, Scene
<1>3. g \in Goals
  <2>1. "move" \in Stages
    BY DEF Stages
  <2>. QED
    BY <1>2, <2>1, GoalsForm
<1>4. g.object = o /\ g.frame = f /\ g.root = NoObject /\ g.pick = pick /\ g.stage = "move"
  OBVIOUS
<1>. HIDE DEF g
<1>5. Handles(r, g)
  BY <1>4 DEF Handles
<1>6. \A q \in Robots : goal[q] = Idle
  BY DEF Busy
<1>7. \A x \in attached : \A y \in touch'[x] : y \in ParentTouch(x)
  BY <1>1, <1>6 DEF ClearInv, TouchInv
<1>8. \A q \in Robots, x \in Objects \ Tools : \A y \in TouchOf(Tip[q]) :
        {x, y} \in acm' => parent[x] = Tip[q]
  BY <1>1, <1>6 DEF ClearInv, AcmInv, Concerns
<1>. QED
  BY <1>1, <1>3, <1>4, <1>5, <1>7, <1>8, QuietClear

LEMMA AcceptClear ==
  ASSUME OneGoal, GrippersApart, PickInv, ClearInv, NEW r \in Robots, NEW o \in Objects,
         AcceptPick(r, o) \/ \E f \in Targets : AcceptPlace(r, o, f)
  PROVE  ClearInv'
<1>1. Busy = {} /\ o \in Exists \ Tools
  BY FirstGoal DEF OneGoal, AcceptPick, AcceptPlace, InHand, Exists
<1>2. CASE AcceptPick(r, o)
  <2>1. ASSUME NEW c \in Chain(o, NoObject), parent[c] \in Tips PROVE FALSE
    <3>1. PICK q \in Robots : parent[c] = Tip[q]
      BY <2>1 DEF Tips
    <3>2. o \in InHand(q)
      BY <1>1, <3>1, HangsOnTip DEF InHand
    <3>. QED
      BY <1>2, <3>2 DEF AcceptPick, OneGoal
  <2>2. Accept(r, TRUE, o, Tip[r]) /\ Tip[r] \in Objects \cup Links
    BY <1>2, PickOrPlaceAssumption DEF AcceptPick
  <2>. QED
    BY <1>1, <2>1, <2>2, AcceptedClear
<1>3. CASE \E f \in Targets : AcceptPlace(r, o, f)
  <2>1. PICK f \in Targets : AcceptPlace(r, o, f)
    BY <1>3
  <2>2. f \in Objects \cup Links /\ f \notin Tips /\ Accept(r, FALSE, o, f)
    BY <2>1, PickOrPlaceAssumption DEF AcceptPlace, GrippersApart
  <2>3. ASSUME NEW c \in Chain(o, ToolOf(r)), NEW q \in Robots, parent[c] = Tip[q] PROVE q = r
    <3>1. link[o] = FrameOf(Tip[q])
      BY <1>1, <2>3, HangsOnTip
    <3>2. link[o] = FrameOf(Tip[r])
      BY <2>1 DEF AcceptPlace, InHand
    <3>. QED
      BY <3>1, <3>2, HandFacts DEF PickInv
  <2>. QED
    BY <1>1, <2>2, <2>3, AcceptedClear
<1>. QED
  BY <1>2, <1>3

\* What attach_object and detach_object do to touch links and world objects: an
\* object that keeps its touch links keeps its parent.
LEMMA TreeTouch ==
  ASSUME SceneInv, NEW o \in Exists, NEW p \in Frames, NEW leaf, Foreign(o, p, leaf),
         AttachAndTouch(o, p, leaf) \/ DetachAndTouch(o, p, leaf)
  PROVE  /\ acm' = acm
         /\ \A x \in attached' : \A y \in touch'[x] :
              \/ y \in TouchOf(parent'[x])
              \/ x \in attached /\ parent'[x] = parent[x] /\ y \in touch[x]
         /\ parent'[o] = p
         /\ \A x \in Objects \ Chain(o, leaf) : parent'[x] = parent[x]
         /\ \A x \in world' : \/ x = o /\ DetachAndTouch(o, p, leaf)
                              \/ x \in world /\ parent'[x] = parent[x]
<1>. DEFINE C == Chain(o, leaf)
            D == Subtree(parent', attached', o)
<1>1. /\ TreeInv /\ attached \subseteq Objects /\ world \subseteq Objects
      /\ C \subseteq Exists /\ o \in C
  BY ChainFacts DEF SceneInv, ContactInv, TreeInv, TreeTypeOK
<1>2. /\ parent' = Rerooted(o, p, leaf)
      /\ attached' \subseteq attached \cup C
      /\ attached \cup C \subseteq attached' \cup {o}
      /\ acm' = acm
  BY DEF AttachAndTouch, AttachObject, DetachAndTouch, DetachObject
<1>3. /\ parent'[o] = p
      /\ \A x \in Objects \ C : parent'[x] = parent[x]
  BY <1>1, <1>2, RerootedFacts
<1>4. attached' \in SUBSET Objects
  BY <1>1, <1>2 DEF Exists
<1>5. C \subseteq D
  BY <1>1, <1>2, <1>4, SubtreeFacts
<1>6. \A x \in Objects : touch'[x] \in {Retouched(o)[x], {}}
  <2>1. touch' = Retouched(o) \/ touch' = [Retouched(o) EXCEPT ![o] = {}]
    BY DEF AttachAndTouch, DetachAndTouch
  <2>2. Retouched(o) = [x \in Objects |-> IF x \in D THEN TouchOf(parent'[x]) ELSE touch[x]]
    BY DEF Retouched
  <2>. HIDE DEF D
  <2>. QED
    BY <2>1, <2>2
<1>7. \A x \in Objects : Retouched(o)[x] = IF x \in D THEN TouchOf(parent'[x]) ELSE touch[x]
  BY DEF Retouched
<1>8. ASSUME NEW x \in world'
      PROVE  \/ x = o /\ DetachAndTouch(o, p, leaf)
             \/ x \in world /\ parent'[x] = parent[x]
  <2>1. CASE AttachAndTouch(o, p, leaf)
    <3>1. world' = world \ C
      BY <2>1 DEF AttachAndTouch, AttachObject
    <3>. QED
      BY <1>1, <1>3, <1>8, <3>1
  <2>2. CASE DetachAndTouch(o, p, leaf)
    <3>1. world' = (world \ C) \cup {o}
      BY <2>2 DEF DetachAndTouch, DetachObject
    <3>. QED
      BY <1>1, <1>3, <1>8, <2>2, <3>1
  <2>. QED
    BY <2>1, <2>2
<1>. HIDE DEF C, D
<1>9. ASSUME NEW x \in attached', NEW y \in touch'[x]
      PROVE  \/ y \in TouchOf(parent'[x])
             \/ x \in attached /\ parent'[x] = parent[x] /\ y \in touch[x]
  BY <1>2, <1>3, <1>4, <1>5, <1>6, <1>7
<1>. QED
  BY <1>2, <1>3, <1>8, <1>9 DEF C

\* A step of the robot that is busy which changes the tree
LEMMA TreeClear ==
  ASSUME OneGoal, PickInv, ClearInv, NEW r \in Robots, goal[r] # Idle, NEW g \in Goals,
         goal' = [goal EXCEPT ![r] = g],
         g.object = goal[r].object, g.frame = goal[r].frame,
         g.stage \notin {"allowing", "resetting"}, Handles(r, g)',
         NEW o \in Exists, NEW p \in Frames, NEW leaf, Foreign(o, p, leaf),
         AttachAndTouch(o, p, leaf) \/ (DetachAndTouch(o, p, leaf) /\ p \notin Tips),
         \A a \in Chain(o, leaf), q \in Robots :
           parent[a] = Tip[q] => q = r /\ a \in {g.object, g.root},
         goal[r].root \in {NoObject, g.root}
  PROVE  ClearInv'
<1>1. \A q \in Robots : goal'[q] = IF q = r THEN g ELSE Idle
  BY DEF OneGoal, PickInv, Busy
<1>2. g # Idle
  BY GoalIsNotIdle
<1>3. /\ acm' = acm
      /\ \A x \in attached' : \A y \in touch'[x] :
           \/ y \in TouchOf(parent'[x])
           \/ x \in attached /\ parent'[x] = parent[x] /\ y \in touch[x]
      /\ parent'[o] = p
      /\ \A x \in Objects \ Chain(o, leaf) : parent'[x] = parent[x]
      /\ \A x \in world' : \/ x = o /\ p \notin Tips
                           \/ x \in world /\ parent'[x] = parent[x]
  <2>1. SceneInv
    BY DEF PickInv
  <2>2. CASE AttachAndTouch(o, p, leaf)
    <3>1. o \notin world'
      BY <2>1, <2>2, ChainFacts
      DEF AttachAndTouch, AttachObject, SceneInv, ContactInv
    <3>. QED
      BY <2>1, <2>2, <3>1, TreeTouch
  <2>3. CASE DetachAndTouch(o, p, leaf) /\ p \notin Tips
    BY <2>1, <2>3, TreeTouch
  <2>. QED
    BY <2>2, <2>3
<1>4. TouchInv'
  <2>. SUFFICES ASSUME NEW x \in attached', NEW y \in touch'[x], y \notin TouchOf(parent'[x])
                PROVE  x = g.object /\ y \in TouchOf(g.frame)
    BY <1>1, <1>2 DEF TouchInv, ParentTouch
  <2>1. x \in attached /\ parent'[x] = parent[x] /\ y \in touch[x]
    BY <1>3
  <2>2. y \notin ParentTouch(x)
    BY <2>1 DEF ParentTouch
  <2>. QED
    BY <2>1, <2>2, ClearFacts
<1>5. AcmInv'
  <2>. SUFFICES ASSUME NEW q \in Robots, NEW a \in Objects \ Tools, NEW y \in TouchOf(Tip[q]),
                       {a, y} \in acm
                PROVE  parent'[a] = Tip[q] \/ (q = r /\ a \in {g.object, g.root})
    BY <1>1, <1>2, <1>3 DEF AcmInv, Concerns
  <2>1. parent[a] = Tip[q] \/ (q = r /\ a \in {goal[r].object, goal[r].root})
    BY ClearFacts
  <2>2. a # NoObject
    BY TreeAssumption
  <2>. QED
    BY <1>3, <2>1, <2>2
<1>6. HandlesInv'
  <2>. SUFFICES ASSUME NEW q \in Robots, NEW h \in Goals, goal'[q] = h
                PROVE  /\ Handles(q, h)'
                       /\ h.stage \in {"allowing", "resetting"} => h.seen = acm'
    BY DEF HandlesInv
  <2>1. q = r /\ h = g
    BY <1>1, GoalIsNotIdle
  <2>. QED
    BY <2>1
<1>7. \A x \in world' : parent'[x] \notin Tips
  BY <1>3 DEF ClearInv
<1>. QED
  BY <1>4, <1>5, <1>6, <1>7 DEF ClearInv, Tips

LEMMA GraspClear ==
  ASSUME OneGoal, PickInv, ClearInv, NEW r \in Robots, Grasp(r)
  PROVE  ClearInv'
<1>1. PICK o \in Exists, g \in Goals, root \in Objects, rp \in Frames :
        /\ goal[r] # Idle /\ o = goal[r].object /\ rp = parent[root]
        /\ root \in Chain(o, NoObject) \ Climbing(NoObject)
        /\ goal' = [goal EXCEPT ![r] = g]
        /\ g.stage = "depart" /\ g.pick /\ g.object = o /\ g.frame = goal[r].frame
        /\ g.root = root /\ g.rootParent = rp
        /\ Chain(o, NoObject) \cap Tools = {}
        /\ Tip[r] \in Frames
  BY GraspFacts
<1>2. /\ goal[r].stage = "grasp" /\ goal[r].pick /\ AttachAndTouch(o, Tip[r], NoObject)
      /\ goal[r].stage \in Before
  BY <1>1 DEF Grasp, At, Before
<1>3. /\ goal[r].frame = Tip[r] /\ goal[r].root = NoObject
      /\ \A c \in Chain(o, NoObject) : parent[c] \notin Tips
  BY <1>1, <1>2, ClearFacts DEF Handles
<1>4. Foreign(o, Tip[r], NoObject)
  BY <1>1, TipIsForeign DEF PickInv
<1>5. Handles(r, g)'
  <2>1. rp \notin Tips
    BY <1>1, <1>3
  <2>. QED
    BY <1>1, <1>3, <2>1 DEF Handles, Before, Tips
<1>6. \A a \in Chain(o, NoObject), q \in Robots :
        parent[a] = Tip[q] => q = r /\ a \in {g.object, g.root}
  BY <1>3 DEF Tips
<1>. DEFINE f == Tip[r]
<1>7. f \in Frames /\ Foreign(o, f, NoObject) /\ AttachAndTouch(o, f, NoObject)
  BY <1>1, <1>2, <1>4
<1>8. /\ goal[r] # Idle /\ goal' = [goal EXCEPT ![r] = g]
      /\ g.object = goal[r].object /\ g.frame = goal[r].frame
      /\ g.stage \notin {"allowing", "resetting"}
      /\ goal[r].root \in {NoObject, g.root}
  BY <1>1, <1>3
<1>. DEFINE leaf == NoObject
<1>9. /\ Foreign(o, f, leaf) /\ AttachAndTouch(o, f, leaf)
      /\ \A a \in Chain(o, leaf), q \in Robots :
           parent[a] = Tip[q] => q = r /\ a \in {g.object, g.root}
  BY <1>6, <1>7
<1>. HIDE DEF f, leaf
<1>. QED
  BY <1>5, <1>7, <1>8, <1>9, TreeClear

\* Of what a robot holds, nothing but the top hangs on its gripper.
LEMMA TopHangsOnTip ==
  ASSUME TreeInv, NEW r \in Robots, NEW o \in Exists,
         NEW a \in Chain(o, ToolOf(r)), parent[a] = Tip[r],
         NEW root \in Chain(o, ToolOf(r)) \ Climbing(ToolOf(r))
  PROVE  a = root
<1>1. Exists \subseteq Objects
  BY DEF TreeInv, TreeTypeOK, Exists
<1>2. a \notin Climbing(ToolOf(r))
  BY <1>1, PickOrPlaceAssumption DEF Climbing, ToolOf
<1>. QED
  BY <1>2, ChainTop

LEMMA ReleaseClear ==
  ASSUME OneGoal, PickInv, ClearInv, NEW r \in Robots, Release(r)
  PROVE  ClearInv'
<1>1. /\ goal[r] # Idle /\ goal[r].stage = "grasp" /\ ~ goal[r].pick /\ goal[r].stage \in Before
      /\ DetachAndTouch(goal[r].object, goal[r].frame, ToolOf(r))
      /\ Record(r, ToolOf(r)) /\ TreeInv
  BY DEF Release, At, Before, PickInv, SceneInv, ContactInv
<1>2. PICK o \in Exists, g \in Goals, root \in Objects, rp \in Frames :
        /\ o = goal[r].object
        /\ root \in Chain(o, ToolOf(r)) \ Climbing(ToolOf(r))
        /\ goal' = [goal EXCEPT ![r] = g]
        /\ g.stage = "depart" /\ g.pick = goal[r].pick /\ g.object = o
        /\ g.frame = goal[r].frame /\ g.root = root
  BY <1>1, RecordFacts
<1>. DEFINE f == goal[r].frame
<1>3. f \in Frames /\ Foreign(o, f, ToolOf(r))
  BY <1>1, <1>2, GoalFacts DEF Fits, MayPlace
<1>4. /\ f \notin Tips /\ goal[r].root = NoObject
      /\ \A c \in Chain(o, ToolOf(r)), q \in Robots : parent[c] = Tip[q] => q = r
  BY <1>1, <1>2, ClearFacts DEF Handles
<1>5. Handles(r, g)'
  BY <1>1, <1>2, <1>4 DEF Handles, Before, Tips
<1>6. \A a \in Chain(o, ToolOf(r)), q \in Robots :
        parent[a] = Tip[q] => q = r /\ a \in {g.object, g.root}
  BY <1>1, <1>2, <1>4, TopHangsOnTip
<1>7. DetachAndTouch(o, f, ToolOf(r))
  BY <1>1, <1>2
<1>. HIDE DEF f
<1>8. g.frame = f /\ f = goal[r].frame
  BY <1>2 DEF f
<1>. QED
  BY <1>1, <1>2, <1>3, <1>4, <1>5, <1>6, <1>7, <1>8, TreeClear

LEMMA RollbackClear ==
  ASSUME OneGoal, PickInv, UndoInv, ClearInv, NEW r \in Robots, Rollback(r)
  PROVE  ClearInv'
<1>1. /\ goal[r] # Idle /\ goal[r].stage \in {"depart", "verify"} /\ goal[r].pick
      /\ DetachAndTouch(goal[r].root, goal[r].rootParent, ToolOf(r))
      /\ goal' = [goal EXCEPT ![r].stage = "reset"]
      /\ TreeInv /\ SceneInv
  BY DEF Rollback, At, Goto, PickInv, SceneInv, ContactInv
<1>2. /\ goal[r] \in Goals /\ MayReturn(r, goal[r]) /\ Undone(r, goal[r])
      /\ Handles(r, goal[r])
  BY <1>1, GoalFacts, ClearFacts DEF Fits, UndoInv
<1>3. PICK g \in Goals : /\ goal' = [goal EXCEPT ![r] = g]
                         /\ g.stage = "reset" /\ g.object = goal[r].object
                         /\ g.root = goal[r].root /\ g.frame = goal[r].frame
                         /\ g.pick = goal[r].pick
  <2>. DEFINE g == [goal[r] EXCEPT !.stage = "reset"]
  <2>1. g \in Goals
    BY <1>2, StageForms DEF Stages
  <2>2. goal' = [goal EXCEPT ![r] = g]
    BY <1>1 DEF PickInv
  <2>3. /\ g.stage = "reset" /\ g.object = goal[r].object
        /\ g.root = goal[r].root /\ g.frame = goal[r].frame /\ g.pick = goal[r].pick
    BY <1>2, GoalsForm
  <2>. HIDE DEF g
  <2>. QED
    BY <2>1, <2>2, <2>3
<1>4. PICK root \in Exists, rp \in Frames :
        /\ root = goal[r].root /\ rp = goal[r].rootParent
        /\ Foreign(root, rp, ToolOf(r))
        /\ DetachAndTouch(root, rp, ToolOf(r))
        /\ rp \notin Tips
  BY <1>1, <1>2 DEF MayReturn, Handles
<1>5. /\ g.object \in Chain(root, ToolOf(r)) /\ parent[g.object] = Tip[r]
  BY <1>2, <1>3, <1>4 DEF Undone
<1>6. g.object \notin Climbing(ToolOf(r))
  <2>1. Exists \subseteq Objects
    BY <1>1 DEF TreeInv, TreeTypeOK, Exists
  <2>. QED
    BY <1>5, <2>1, PickOrPlaceAssumption DEF Climbing, ToolOf
<1>7. ASSUME NEW a \in Chain(root, ToolOf(r)), NEW q \in Robots, parent[a] = Tip[q]
      PROVE  q = r /\ a \in {g.object, g.root}
  <2>1. link[root] = FrameOf(Tip[q]) /\ link[root] = FrameOf(Tip[r])
    BY <1>5, <1>7, HangsOnTip
  <2>2. q = r
    BY <1>1, <2>1, HandFacts
  <2>. QED
    BY <1>1, <1>5, <1>6, <1>7, <2>2, TopHangsOnTip
<1>8. Handles(r, g)'
  BY <1>1, <1>2, <1>3 DEF Handles, Before, Tips
<1>. QED
  BY <1>1, <1>3, <1>4, <1>7, <1>8, TreeClear

LEMMA FixtureClear ==
  ASSUME OneGoal, GrippersApart, PickInv, ClearInv, NEW x \in Objects, FixObject(x) \/ ReleaseObject(x)
  PROVE  ClearInv'
<1>1. /\ goal' = goal /\ acm' = acm
      /\ \A a, leaf : Up(Objects, parent', Climbing(leaf)', a) = Chain(a, leaf)
  BY FixtureKeeps DEF PickInv
<1>2. \A a, leaf : Chain(a, leaf)' = Chain(a, leaf)
  BY <1>1 DEF Chain
<1>3. PICK p \in {Fixture, Bench} : AttachAndTouch(x, p, NoObject) \/ DetachAndTouch(x, p, NoObject)
  BY DEF FixObject, ReleaseObject
<1>4. p \in Frames /\ Foreign(x, p, NoObject) /\ p \notin Tips /\ parent[x] \notin Tips /\ x \in Exists
  BY <1>3, PickOrPlaceAssumption
  DEF Frames, Foreign, GrippersApart, FixObject, ReleaseObject, Exists
<1>5. \A y \in Objects \ {x} : parent'[y] = parent[y] /\ (y \in attached' <=> y \in attached)
  BY FixtureKeeps DEF PickInv
<1>6. /\ \A y \in attached' : \A z \in touch'[y] :
           \/ z \in TouchOf(parent'[y])
           \/ y \in attached /\ parent'[y] = parent[y] /\ z \in touch[y]
      /\ parent'[x] = p
      /\ \A y \in world' : y = x \/ (y \in world /\ parent'[y] = parent[y])
  BY <1>3, <1>4, TreeTouch DEF PickInv
<1>7. TouchInv'
  <2>. SUFFICES ASSUME NEW y \in attached', NEW z \in touch'[y], z \notin TouchOf(parent'[y])
                PROVE  \E r \in Robots : /\ goal[r] # Idle /\ goal[r].stage # "resetting"
                                         /\ goal[r].object = y /\ z \in TouchOf(goal[r].frame)
    BY <1>1 DEF TouchInv, ParentTouch
  <2>1. y \in attached /\ parent'[y] = parent[y] /\ z \in touch[y]
    BY <1>6
  <2>2. z \notin ParentTouch(y)
    BY <2>1 DEF ParentTouch
  <2>. QED
    BY <2>1, <2>2 DEF ClearInv, TouchInv
<1>8. AcmInv'
  <2>. SUFFICES ASSUME NEW q \in Robots, NEW a \in Objects \ Tools, NEW y \in TouchOf(Tip[q]),
                       {a, y} \in acm
                PROVE  parent'[a] = Tip[q] \/ (goal[q] # Idle /\ a \in {goal[q].object, goal[q].root})
    BY <1>1 DEF AcmInv, Concerns
  <2>1. parent[a] = Tip[q] \/ (goal[q] # Idle /\ a \in {goal[q].object, goal[q].root})
    BY DEF ClearInv, AcmInv, Concerns
  <2>. QED
    BY <1>4, <1>5, <2>1 DEF Tips
<1>9. HandlesInv'
  <2>. SUFFICES ASSUME NEW q \in Robots, NEW h \in Goals, goal[q] = h
                PROVE  /\ Handles(q, h)'
                       /\ h.stage \in {"allowing", "resetting"} => h.seen = acm
    BY <1>1 DEF HandlesInv
  <2>1. Handles(q, h) /\ (h.stage \in {"allowing", "resetting"} => h.seen = acm) /\ Fits(q, h)
    BY DEF ClearInv, HandlesInv, PickInv
  <2>2. \A leaf : Chain(h.object, leaf) \subseteq Objects
    <3>1. TreeInv /\ h.object \in Exists /\ Exists \subseteq Objects
      BY <2>1 DEF PickInv, SceneInv, ContactInv, TreeInv, TreeTypeOK, Exists, Fits
    <3>. QED
      BY <3>1, ChainFacts
  <2>3. \A c \in Objects : parent'[c] = parent[c] \/ (parent'[c] \notin Tips /\ parent[c] \notin Tips)
    BY <1>4, <1>5, <1>6
  <2>. QED
    BY <1>2, <2>1, <2>2, <2>3 DEF Handles, Tips
<1>10. \A y \in world' : parent'[y] \notin Tips
  BY <1>4, <1>6 DEF ClearInv
<1>. QED
  BY <1>7, <1>8, <1>9, <1>10 DEF ClearInv, Tips

LEMMA InitClearInv == GrippersApart /\ PickOrPlaceInit => ClearInv
<1>. SUFFICES ASSUME GrippersApart, PickOrPlaceInit PROVE ClearInv
  OBVIOUS
<1>1. PICK scene \in Scenes :
        /\ parent = scene.parent /\ attached = scene.attached
        /\ world = {o \in Objects : scene.parent[o] # NoObject} \ scene.attached
  BY DEF PickOrPlaceInit
<1>2. \A o \in Exists : parent[o] \in Objects \cup Links
  BY InitPickInv DEF PickInv, SceneInv, ContactInv, TreeInv, TreeTypeOK, SceneMatchesTree, Exists
<1>3. world \subseteq Objects /\ world \subseteq Exists /\ attached \subseteq Objects
  BY <1>1, InitPickInv DEF PickInv, SceneInv, ContactInv, TreeInv, TreeTypeOK, Exists
<1>4. \A o \in world : parent[o] \notin Tips
  BY <1>1, <1>3 DEF GrippersApart
<1>5. TouchInv
  BY <1>3 DEF PickOrPlaceInit, TouchInv
<1>6. AcmInv
  <2>. SUFFICES ASSUME NEW r \in Robots, NEW o \in Objects \ Tools, NEW x \in TouchOf(Tip[r]),
                       {o, x} \in acm
                PROVE  parent[o] = Tip[r]
    BY DEF AcmInv, Concerns
  <2>1. PICK a \in world : \E y \in ParentTouch(a) : {o, x} = {a, y}
    BY DEF PickOrPlaceInit
  <2>2. a \notin Tools
    BY <1>3, InitPickInv, ToolStandsAlone, <2>1
    DEF PickInv, SceneInv, ContactInv, TreeInv, SceneMatchesTree
  <2>3. PICK y \in ParentTouch(a) : {o, x} = {a, y}
    BY <2>1
  <2>4. o = a /\ x = y
    BY <1>3, <2>1, <2>2, <2>3, EntryOf
  <2>. QED
    BY <1>2, <1>3, <2>1, <2>3, <2>4 DEF GrippersApart, ParentTouch
<1>7. HandlesInv
  BY GoalIsNotIdle DEF PickOrPlaceInit, HandlesInv
<1>. QED
  BY <1>4, <1>5, <1>6, <1>7 DEF ClearInv

LEMMA NextClearInv ==
  OneGoal /\ GrippersApart /\ PickInv /\ UndoInv /\ ClearInv /\ [PickOrPlaceNext]_vars => ClearInv'
<1>. SUFFICES ASSUME OneGoal, GrippersApart, PickInv, UndoInv, ClearInv, [PickOrPlaceNext]_vars
              PROVE  ClearInv'
  OBVIOUS
<1>1. ASSUME NEW r \in Robots, Step(r) PROVE ClearInv'
  BY <1>1, StageClear, AllowClear, GraspClear, ReleaseClear, RollbackClear, ResetClear DEF Step
<1>2. CASE UNCHANGED vars
  <2>1. UNCHANGED <<parent, attached, world, touch, acm, goal>>
    BY <1>2 DEF vars, contactVars, treeVars
  <2>2. \A a, leaf : Chain(a, leaf)' = Chain(a, leaf)
    BY <2>1 DEF Chain, Climbing, Exists
  <2>3. \A r, g : Handles(r, g)' <=> Handles(r, g)
    BY <2>1, <2>2 DEF Handles, Tips
  <2>4. HandlesInv'
    BY <2>1, <2>3 DEF ClearInv, HandlesInv
  <2>5. TouchInv' /\ AcmInv'
    BY <2>1 DEF ClearInv, TouchInv, AcmInv, Concerns, ParentTouch
  <2>. QED
    BY <2>1, <2>4, <2>5 DEF ClearInv, Tips
<1>. QED
  BY <1>1, <1>2, AcceptClear, FixtureClear DEF PickOrPlaceNext

\* No contact with a gripper is tolerated but those of what it holds and of what
\* a goal of its robot is about.
LEMMA ClearIsNoStray ==
  ASSUME OneGoal, GrippersApart, PickInv, ClearInv
  PROVE  NoStrayGripperContact
<1>. SUFFICES ASSUME NEW r \in Robots, NEW o \in Exists \ Tools, NEW x \in TouchOf(Tip[r]),
                     MayTouch(o, x)
              PROVE  Concerns(r, o)
  BY DEF NoStrayGripperContact, Concerns
<1>1. TreeInv /\ SceneInv /\ o \in Objects /\ attached \subseteq Objects
  BY DEF PickInv, SceneInv, ContactInv, TreeInv, TreeTypeOK, Exists
<1>2. CASE {o, x} \in acm
  BY <1>1, <1>2 DEF ClearInv, AcmInv
<1>3. CASE o \in attached /\ x \in touch[o]
  <2>1. CASE x \in ParentTouch(o)
    <3>1. parent[o] \in Objects \cup Links
      BY <1>1 DEF TreeInv, TreeTypeOK, SceneMatchesTree
    <3>. QED
      BY <2>1, <3>1 DEF GrippersApart, ParentTouch, Concerns
  <2>2. CASE x \notin ParentTouch(o)
    <3>1. PICK q \in Robots : /\ goal[q] # Idle /\ goal[q].object = o
                              /\ x \in TouchOf(goal[q].frame)
      BY <1>3, <2>2 DEF ClearInv, TouchInv
    <3>2. goal[q].frame \in Objects \cup Links /\ Handles(q, goal[q])
      BY <3>1, GoalFacts, ClearFacts
    <3>3. goal[q].frame = Tip[r]
      BY <3>1, <3>2 DEF GrippersApart
    <3>4. q = r
      BY <1>1, <3>2, <3>3, TipsDiffer DEF Handles, Tips
    <3>. QED
      BY <3>1, <3>4 DEF Concerns
  <2>. QED
    BY <2>1, <2>2
<1>4. CASE x \in attached /\ o \in touch[x]
  <2>1. Tip[r] \in Objects \cup Links /\ x \in Objects
    BY <1>1, <1>4, PickOrPlaceAssumption
  <2>2. x = Tip[r]
    BY <2>1, TouchOfTip
  <2>3. x \in Tools
    BY <2>1, <2>2, TreeAssumption DEF Tools, ToolOf
  <2>4. parent[x] \in Links /\ parent[x] \in Objects \cup Links
    BY <2>3 DEF PickInv, SceneInv, Mounted, ToolsStayMounted
  <2>5. o \notin ParentTouch(x)
    BY <1>1, <2>4, TreeAssumption, TouchOfTip DEF ParentTouch
  <2>6. PICK q \in Robots : goal[q] # Idle /\ goal[q].object = x
    BY <1>4, <2>5 DEF ClearInv, TouchInv
  <2>. QED
    BY <2>3, <2>6, GoalFacts DEF Fits
<1>. QED
  BY <1>2, <1>3, <1>4 DEF MayTouch

-----------------------------------------------------------------------------
(* What an object may touch that stands somewhere.                         *)

\* Objects are placed on links, and the base fixture is not used.
Ground == Links \ {Bench, Fixture}
OnTheGround ==
  /\ Targets \subseteq Ground
  /\ \A scene \in Scenes, o \in Objects :
       /\ scene.parent[o] \notin {Bench, Fixture}
       /\ scene.parent[o] \in Objects => o \in scene.attached

\* The ACM will be reset for the object.
Owed(r, o) ==
  goal[r] # Idle /\ goal[r].stage \notin Before /\ o \in {goal[r].object, goal[r].root}

\* The ACM still lists the contacts of an old root with what it stood on.
Stands(g) ==
  /\ ~ g.pick => g.frame \in Ground
  /\ g.stage \in {"depart", "verify"} /\ g.pick =>
       /\ g.rootParent \in Ground
       /\ g.root \notin g.before.attached =>
            \A x \in TouchOf(g.rootParent) : {g.root, x} \in acm

StandInv ==
  /\ \A o \in Exists : parent[o] \notin {Bench, Fixture}
  /\ \A o \in world :
       /\ parent[o] \in Links
       /\ (\A x \in ParentTouch(o) : {o, x} \in acm) \/ \E r \in Robots : Owed(r, o)
  /\ \A r \in Robots, g \in Goals : goal[r] = g => Stands(g)

LEMMA QuietStand ==
  ASSUME OneGoal, PickInv, StandInv, UNCHANGED treeVars, NEW r \in Robots, NEW g \in Goals \cup {Idle},
         goal' = [goal EXCEPT ![r] = g], goal[r] # Idle \/ Busy = {},
         g # Idle => Stands(g)',
         \A o \in world : \/ \A x \in ParentTouch(o) : {o, x} \in acm'
                          \/ g # Idle /\ g.stage \notin Before /\ o \in {g.object, g.root}
  PROVE  StandInv'
<1>1. \A q \in Robots : goal'[q] = IF q = r THEN g ELSE Idle
  BY DEF OneGoal, PickInv, Busy
<1>2. parent' = parent /\ world' = world /\ Exists' = Exists /\ \A o : ParentTouch(o)' = ParentTouch(o)
  BY DEF treeVars, Exists, ParentTouch
<1>3. ASSUME NEW q \in Robots, NEW h \in Goals, goal'[q] = h PROVE Stands(h)'
  <2>1. h = g /\ g # Idle
    BY <1>1, <1>3, GoalIsNotIdle
  <2>. QED
    BY <2>1
<1>4. ASSUME NEW o \in world
      PROVE  (\A x \in ParentTouch(o) : {o, x} \in acm') \/ \E q \in Robots : Owed(q, o)'
  <2>1. g # Idle /\ g.stage \notin Before /\ o \in {g.object, g.root} => Owed(r, o)'
    BY <1>1 DEF Owed
  <2>. QED
    BY <2>1
<1>. QED
  BY <1>2, <1>3, <1>4 DEF StandInv

\* What the invariant says when one robot is busy
LEMMA StandFacts ==
  ASSUME OneGoal, PickInv, StandInv, NEW r \in Robots, goal[r] # Idle
  PROVE  /\ Stands(goal[r])
         /\ \A o \in world : \/ \A x \in ParentTouch(o) : {o, x} \in acm
                             \/ goal[r].stage \notin Before /\ o \in {goal[r].object, goal[r].root}
<1>1. \A q \in Robots : goal[q] # Idle => q = r
  BY DEF OneGoal, PickInv, Busy
<1>2. goal[r] \in Goals
  BY GoalFacts
<1>. QED
  BY <1>1, <1>2 DEF StandInv, Owed

LEMMA StageStand ==
  ASSUME OneGoal, PickInv, StandInv, NEW r \in Robots,
         Move(r) \/ Approach(r) \/ Depart(r) \/ Verify(r) \/ Cancel(r)
  PROVE  StandInv'
<1>1. goal[r] # Idle /\ UNCHANGED contactVars
  BY DEF Move, Approach, Depart, Verify, Cancel, At
<1>2. PICK stage \in Stages :
        /\ goal' = [goal EXCEPT ![r].stage = stage]
        /\ \/ goal[r].stage \in Before /\ stage \in Before
           \/ stage = "reset"
           \/ goal[r].stage = "depart" /\ stage = "verify"
  BY DEF Move, Approach, Depart, Verify, Cancel, At, Goto, Stages, Before
<1>3. PICK g \in Goals :
        /\ goal' = [goal EXCEPT ![r] = g]
        /\ g.stage = stage /\ g.object = goal[r].object /\ g.root = goal[r].root
        /\ g.frame = goal[r].frame /\ g.pick = goal[r].pick
        /\ g.rootParent = goal[r].rootParent /\ g.before = goal[r].before
  <2>. DEFINE g == [goal[r] EXCEPT !.stage = stage]
  <2>1. goal' = [goal EXCEPT ![r] = g]
    BY <1>2 DEF PickInv
  <2>2. g \in Goals
    BY <1>1, <1>2, GoalFacts, StageForms
  <2>3. /\ g.stage = stage /\ g.object = goal[r].object /\ g.root = goal[r].root
        /\ g.frame = goal[r].frame /\ g.pick = goal[r].pick
        /\ g.rootParent = goal[r].rootParent /\ g.before = goal[r].before
    BY <1>1, GoalFacts, GoalsForm
  <2>. HIDE DEF g
  <2>. QED
    BY <2>1, <2>2, <2>3
<1>5. UNCHANGED treeVars /\ acm' = acm
  BY <1>1 DEF contactVars
<1>7. Stands(g)'
  <2>1. Stands(goal[r])
    BY <1>1, StandFacts
  <2>2. g.stage \in {"depart", "verify"} => goal[r].stage \in {"depart", "verify"}
    BY <1>2, <1>3 DEF Before
  <2>3. Stands(g)
    BY <1>3, <2>1, <2>2 DEF Stands
  <2>. QED
    BY <1>5, <2>3 DEF Stands
<1>8. \A o \in world : \/ \A x \in ParentTouch(o) : {o, x} \in acm'
                       \/ g # Idle /\ g.stage \notin Before /\ o \in {g.object, g.root}
  BY <1>1, <1>2, <1>3, <1>5, StandFacts, GoalIsNotIdle DEF Before
<1>. QED
  BY <1>1, <1>3, <1>5, <1>7, <1>8, QuietStand

LEMMA AllowStand ==
  ASSUME OneGoal, PickInv, ClearInv, StandInv, NEW r \in Robots,
         AllowAttached(r) \/ ReadToAllow(r) \/ WriteAllowed(r)
  PROVE  StandInv'
<1>1. goal[r] # Idle /\ goal[r].stage \in {"approach", "allowing"} /\ UNCHANGED treeVars
  BY DEF AllowAttached, ReadToAllow, WriteAllowed, At, AllowCollision, contactVars, treeVars
<1>2. PICK stage \in {"allowing", "approaching"}, seen \in SUBSET Pairs :
        \/ goal' = [goal EXCEPT ![r].stage = stage]
        \/ goal' = [goal EXCEPT ![r].stage = stage, ![r].seen = seen]
  BY TouchFacts DEF AllowAttached, ReadToAllow, WriteAllowed, Goto, contactVars
<1>3. stage \in Stages /\ goal[r].stage \in Before /\ stage \in Before
  BY <1>1 DEF Stages, Before
<1>. DEFINE a == [goal[r] EXCEPT !.stage = stage]
            b == [goal[r] EXCEPT !.stage = stage, !.seen = seen]
<1>4. PICK g \in Goals : /\ goal' = [goal EXCEPT ![r] = g]
                         /\ g.stage = stage /\ g.pick = goal[r].pick /\ g.frame = goal[r].frame
  <2>1. a \in Goals /\ b \in Goals
    BY <1>1, <1>3, GoalFacts, StageForms
  <2>2. goal' = [goal EXCEPT ![r] = a] \/ goal' = [goal EXCEPT ![r] = b]
    BY <1>2 DEF PickInv
  <2>3. /\ a.stage = stage /\ a.pick = goal[r].pick /\ a.frame = goal[r].frame
        /\ b.stage = stage /\ b.pick = goal[r].pick /\ b.frame = goal[r].frame
    BY <1>1, GoalFacts DEF Goals
  <2>. HIDE DEF a, b
  <2>. QED
    BY <2>1, <2>2, <2>3
<1>5. acm \subseteq acm'
  <2>1. CASE WriteAllowed(r)
    <3>1. goal[r].seen = acm
      BY <1>1, <2>1, ClearFacts DEF WriteAllowed, At
    <3>. QED
      BY <2>1, <3>1 DEF WriteAllowed, AcmWith
  <2>2. CASE ~ WriteAllowed(r)
    BY <2>2 DEF AllowAttached, ReadToAllow, AllowCollision, contactVars
  <2>. QED
    BY <2>1, <2>2
<1>6. Stands(g)'
  BY <1>1, <1>3, <1>4, StandFacts DEF Stands, Before
<1>7. \A o \in world : \A x \in ParentTouch(o) : {o, x} \in acm'
  BY <1>1, <1>3, <1>5, StandFacts
<1>. QED
  BY <1>1, <1>4, <1>6, <1>7, QuietStand

\* The entries of the object are cleared, and set again if it is a world object.
LEMMA ResetStand ==
  ASSUME OneGoal, PickInv, ClearInv, StandInv, NEW r \in Robots, ReadToReset(r) \/ WriteReset(r)
  PROVE  StandInv'
<1>1. goal[r] # Idle /\ UNCHANGED treeVars /\ goal[r].stage \in {"reset", "resetting"}
  BY DEF ReadToReset, WriteReset, At
<1>2. /\ goal[r] \in Goals /\ Stands(goal[r]) /\ world \subseteq Objects
      /\ goal[r].root \in Objects \cup {NoObject} /\ goal[r].object \in Objects
      /\ goal[r].stage \notin Before
  BY <1>1, GoalFacts, StandFacts
  DEF Before, PickInv, SceneInv, ContactInv, TreeInv, TreeTypeOK
<1>3. PICK o \in Objects, root \in Objects \cup {NoObject} :
        o = goal[r].object /\ root = goal[r].root
  BY <1>2
<1>4. CASE ReadToReset(r)
  <2>1. PICK g \in Goals : /\ goal' = [goal EXCEPT ![r] = g]
                           /\ g.stage = "resetting" /\ g.object = o /\ g.root = root
                           /\ g.pick = goal[r].pick /\ g.frame = goal[r].frame
    <3>. DEFINE g == [goal[r] EXCEPT !.stage = "resetting", !.seen = acm]
    <3>1. g \in Goals
      BY <1>2, TouchFacts, StageForms DEF Stages
    <3>2. goal' = [goal EXCEPT ![r] = g]
      BY <1>4 DEF ReadToReset, PickInv
    <3>3. /\ g.stage = "resetting" /\ g.object = o /\ g.root = root
          /\ g.pick = goal[r].pick /\ g.frame = goal[r].frame
      BY <1>2, <1>3 DEF Goals
    <3>. HIDE DEF g
    <3>. QED
      BY <3>1, <3>2, <3>3
  <2>2. acm' = acm
    BY <1>4 DEF ReadToReset
  <2>3. Stands(g)'
    BY <1>2, <2>1 DEF Stands
  <2>4. \A x \in world : \/ \A y \in ParentTouch(x) : {x, y} \in acm'
                         \/ g # Idle /\ g.stage \notin Before /\ x \in {g.object, g.root}
    BY <1>1, <1>3, <2>1, <2>2, StandFacts, GoalIsNotIdle DEF Before
  <2>. QED
    BY <1>1, <2>1, <2>3, <2>4, QuietStand
<1>5. CASE WriteReset(r)
  <2>1. goal[r].seen = acm
    BY <1>1, <1>5, ClearFacts DEF WriteReset, At
  <2>2. ASSUME NEW x \in world, x # root \/ x = o, NEW y \in ParentTouch(x) PROVE {x, y} \in acm'
    <3>1. CASE x = o
      <4>1. o \notin attached
        BY <3>1 DEF PickInv, SceneInv, ContactInv, TreeInv, SceneMatchesTree
      <4>. QED
        BY <1>3, <1>5, <2>2, <3>1, <4>1 DEF WriteReset, AcmWith
    <3>2. CASE x # o
      <4>1. {x, y} \in acm
        BY <1>1, <1>3, <2>2, <3>2, StandFacts
      <4>2. y \in Links /\ y # o
        <5>1. parent[x] \in Links
          BY DEF StandInv
        <5>. QED
          BY <2>2, <5>1, TouchAssumption, TreeAssumption DEF ParentTouch, TouchOf
      <4>3. {x, y} \in AcmCleared(acm, o)
        BY <3>2, <4>1, <4>2 DEF AcmCleared
      <4>. QED
        BY <1>3, <1>5, <2>1, <4>3 DEF WriteReset, AcmWith
    <3>. QED
      BY <3>1, <3>2
  <2>3. CASE root \in {NoObject, o}
    <3>1. goal' = [goal EXCEPT ![r] = Idle]
      BY <1>3, <1>5, <2>3 DEF WriteReset
    <3>2. \A x \in world : \A y \in ParentTouch(x) : {x, y} \in acm'
      BY <1>2, <2>2, <2>3, TreeAssumption
    <3>. QED
      BY <1>1, <3>1, <3>2, QuietStand
  <2>4. CASE root \notin {NoObject, o}
    <3>1. PICK g \in Goals : /\ goal' = [goal EXCEPT ![r] = g]
                             /\ g.stage = "reset" /\ g.object = root
                             /\ g.pick = goal[r].pick /\ g.frame = goal[r].frame
      <4>. DEFINE g == [goal[r] EXCEPT !.stage = "reset", !.object = root, !.root = NoObject, !.seen = {}]
      <4>1. goal' = [goal EXCEPT ![r] = g]
        BY <1>3, <1>5, <2>4 DEF WriteReset, PickInv
      <4>2. g \in Goals
        BY <1>2, <2>4, RootForms DEF Stages
      <4>3. g.stage = "reset" /\ g.object = root /\ g.pick = goal[r].pick /\ g.frame = goal[r].frame
        BY <1>2 DEF Goals
      <4>. HIDE DEF g
      <4>. QED
        BY <4>1, <4>2, <4>3
    <3>2. Stands(g)'
      BY <1>2, <3>1 DEF Stands
    <3>3. \A x \in world : \/ \A y \in ParentTouch(x) : {x, y} \in acm'
                           \/ g # Idle /\ g.stage \notin Before /\ x \in {g.object, g.root}
      BY <2>2, <3>1, GoalIsNotIdle DEF Before
    <3>. QED
      BY <1>1, <3>1, <3>2, <3>3, QuietStand
  <2>. QED
    BY <2>3, <2>4
<1>. QED
  BY <1>4, <1>5

LEMMA AcceptStand ==
  ASSUME OneGoal, OnTheGround, PickInv, StandInv, NEW r \in Robots, NEW o \in Objects,
         AcceptPick(r, o) \/ \E f \in Targets : AcceptPlace(r, o, f)
  PROVE  StandInv'
<1>1. Busy = {} /\ o \in Exists
  BY FirstGoal DEF OneGoal, AcceptPick, AcceptPlace, InHand, Exists
<1>2. PICK pick \in BOOLEAN, f \in Objects \cup Links : Accept(r, pick, o, f) /\ (~ pick => f \in Ground)
  <2>1. CASE AcceptPick(r, o)
    BY <2>1, PickOrPlaceAssumption DEF AcceptPick
  <2>2. CASE \E f \in Targets : AcceptPlace(r, o, f)
    BY <2>2, PickOrPlaceAssumption DEF AcceptPlace, OnTheGround
  <2>. QED
    BY <2>1, <2>2
<1>3. UNCHANGED treeVars /\ acm' = acm
  BY <1>2 DEF Accept, contactVars
<1>4. PICK g \in Goals : goal' = [goal EXCEPT ![r] = g] /\ g.stage = "move" /\ g.pick = pick /\ g.frame = f
  <2>. DEFINE g == [stage |-> "move", pick |-> pick, object |-> o, frame |-> f,
                    root |-> NoObject, rootParent |-> NoObject, seen |-> {},
                    before |-> [parent |-> parent, attached |-> attached]]
  <2>1. [parent |-> parent, attached |-> attached] \in Scene /\ "move" \in Stages
    BY DEF PickInv, SceneInv, ContactInv, TreeInv, TreeTypeOK, Scene, Stages
  <2>2. g \in Goals
    BY <2>1, GoalsForm
  <2>3. goal' = [goal EXCEPT ![r] = g]
    BY <1>2 DEF Accept
  <2>4. g.stage = "move" /\ g.pick = pick /\ g.frame = f
    OBVIOUS
  <2>. HIDE DEF g
  <2>. QED
    BY <2>2, <2>3, <2>4
<1>5. Stands(g)'
  BY <1>2, <1>4 DEF Stands
<1>6. \A q \in Robots : goal[q] = Idle
  BY <1>1 DEF Busy
<1>7. \A x \in world : \A y \in ParentTouch(x) : {x, y} \in acm'
  BY <1>3, <1>6 DEF StandInv, Owed
<1>. QED
  BY <1>1, <1>3, <1>4, <1>5, <1>7, QuietStand

\* A step of the robot that is busy which changes the tree
LEMMA TreeStand ==
  ASSUME OneGoal, PickInv, StandInv, NEW r \in Robots, goal[r] # Idle, NEW g \in Goals,
         goal' = [goal EXCEPT ![r] = g], g.stage \notin Before, Stands(g)',
         NEW o \in Exists, NEW p \in Frames, NEW leaf, Foreign(o, p, leaf),
         AttachAndTouch(o, p, leaf) \/ DetachAndTouch(o, p, leaf),
         p \notin {Bench, Fixture},
         DetachAndTouch(o, p, leaf) => p \in Links /\ o \in {g.object, g.root},
         goal[r].stage \notin Before => {goal[r].object, goal[r].root} \subseteq {g.object, g.root}
  PROVE  StandInv'
<1>1. \A q \in Robots : goal'[q] = IF q = r THEN g ELSE Idle
  BY DEF OneGoal, PickInv, Busy
<1>2. g # Idle
  BY GoalIsNotIdle
<1>3. /\ TreeInv /\ Exists \subseteq Objects /\ o \in Chain(o, leaf)
      /\ Chain(o, leaf) \subseteq Exists
  BY ChainFacts DEF PickInv, SceneInv, ContactInv, TreeInv, TreeTypeOK, Exists
<1>4. parent' = Rerooted(o, p, leaf) /\ Exists' = Exists
  BY <1>3 DEF AttachAndTouch, AttachObject, DetachAndTouch, DetachObject, Exists
<1>5. ASSUME NEW x \in Exists' PROVE parent'[x] \notin {Bench, Fixture}
  <2>1. CASE x = o
    BY <1>3, <1>4, <2>1, RerootedFacts
  <2>2. CASE x \in Chain(o, leaf) \ {o}
    <3>1. parent'[x] \in Objects
      BY <1>3, <1>4, <2>2, RerootedFacts
    <3>. QED
      BY <3>1, TreeAssumption, PickOrPlaceAssumption
  <2>3. CASE x \notin Chain(o, leaf)
    <3>1. parent'[x] = parent[x]
      BY <1>3, <1>4, <1>5, <2>3, RerootedFacts
    <3>. QED
      BY <1>4, <3>1 DEF StandInv
  <2>. QED
    BY <2>1, <2>2, <2>3
<1>6. ASSUME NEW x \in world'
      PROVE  /\ parent'[x] \in Links
             /\ (\A y \in ParentTouch(x)' : {x, y} \in acm') \/ \E q \in Robots : Owed(q, x)'
  <2>1. /\ acm' = acm /\ parent'[o] = p
        /\ \/ x = o /\ DetachAndTouch(o, p, leaf)
           \/ x \in world /\ parent'[x] = parent[x]
    BY <1>6, TreeTouch DEF PickInv
  <2>2. x \in {g.object, g.root} => Owed(r, x)'
    BY <1>1, <1>2 DEF Owed
  <2>3. CASE x = o /\ DetachAndTouch(o, p, leaf)
    BY <2>1, <2>2, <2>3
  <2>4. CASE x \in world /\ parent'[x] = parent[x]
    <3>1. ParentTouch(x)' = ParentTouch(x)
      BY <2>4 DEF ParentTouch
    <3>2. \/ \A y \in ParentTouch(x) : {x, y} \in acm
          \/ goal[r].stage \notin Before /\ x \in {goal[r].object, goal[r].root}
      BY <2>4, StandFacts
    <3>. QED
      BY <2>1, <2>2, <2>4, <3>1, <3>2 DEF StandInv
  <2>. QED
    BY <2>1, <2>3, <2>4
<1>7. ASSUME NEW q \in Robots, NEW h \in Goals, goal'[q] = h PROVE Stands(h)'
  <2>1. h = g
    BY <1>1, <1>7, GoalIsNotIdle
  <2>. QED
    BY <2>1
<1>. QED
  BY <1>5, <1>6, <1>7 DEF StandInv

LEMMA GraspStand ==
  ASSUME OneGoal, GrippersApart, PickInv, StandInv, NEW r \in Robots, Grasp(r)
  PROVE  StandInv'
<1>1. PICK o \in Exists, g \in Goals, root \in Objects, rp \in Frames :
        /\ goal[r] # Idle /\ o = goal[r].object /\ rp = parent[root]
        /\ root \in Chain(o, NoObject) \ Climbing(NoObject)
        /\ root \in Objects \cap Exists
        /\ goal' = [goal EXCEPT ![r] = g]
        /\ g.stage = "depart" /\ g.pick /\ g.object = o
        /\ g.root = root /\ g.rootParent = rp
        /\ g.before = [parent |-> parent, attached |-> attached]
        /\ Chain(o, NoObject) \cap Tools = {}
        /\ Tip[r] \in Frames
  BY GraspFacts
<1>2. goal[r].stage = "grasp" /\ AttachAndTouch(o, Tip[r], NoObject) /\ goal[r].stage \in Before
  BY <1>1 DEF Grasp, At, Before
<1>3. Foreign(o, Tip[r], NoObject) /\ Tip[r] \notin {Bench, Fixture}
  BY <1>1, TipIsForeign DEF PickInv, GrippersApart, Tips
<1>4. rp \in Ground
  <2>1. rp \notin {Bench, Fixture}
    BY <1>1 DEF StandInv
  <2>2. CASE root \in world
    BY <1>1, <2>1, <2>2 DEF StandInv, Ground
  <2>3. CASE root \in attached
    <3>1. rp \notin Exists
      BY <1>1, <2>3, TreeAssumption
      DEF Climbing, Exists, PickInv, SceneInv, ContactInv, TreeInv, TreeTypeOK
    <3>. QED
      BY <1>1, <2>1, <3>1 DEF Ground, PickInv, SceneInv, ParentsExist
  <2>. QED
    BY <1>1, <2>2, <2>3 DEF Exists
<1>5. Stands(g)'
  <2>1. acm' = acm
    BY <1>2 DEF AttachAndTouch
  <2>2. root \notin attached => \A x \in TouchOf(rp) : {root, x} \in acm
    BY <1>1, <1>2, StandFacts DEF Exists, ParentTouch
  <2>3. g.before.attached = attached
    BY <1>1
  <2>. QED
    BY <1>1, <1>4, <2>1, <2>2, <2>3 DEF Stands
<1>. DEFINE f == Tip[r]
            leaf == NoObject
<1>6. /\ f \in Frames /\ f \notin {Bench, Fixture} /\ Foreign(o, f, leaf)
      /\ AttachAndTouch(o, f, leaf) /\ g.stage \notin Before
      /\ DetachAndTouch(o, f, leaf) => f \in Links /\ o \in {g.object, g.root}
  <2>1. o \notin world' /\ (DetachAndTouch(o, f, leaf) => o \in world')
    BY <1>1, <1>2, ChainFacts
    DEF AttachAndTouch, AttachObject, DetachAndTouch, DetachObject, PickInv, SceneInv, ContactInv
  <2>. QED
    BY <1>1, <1>2, <1>3, <2>1 DEF Before
<1>. HIDE DEF f, leaf
<1>7. goal[r] # Idle /\ goal' = [goal EXCEPT ![r] = g] /\ goal[r].stage \in Before
  BY <1>1, <1>2
<1>. QED
  BY <1>5, <1>6, <1>7, TreeStand

LEMMA ReleaseStand ==
  ASSUME OneGoal, PickInv, StandInv, NEW r \in Robots, Release(r)
  PROVE  StandInv'
<1>1. /\ goal[r] # Idle /\ goal[r].stage = "grasp" /\ ~ goal[r].pick /\ goal[r].stage \in Before
      /\ DetachAndTouch(goal[r].object, goal[r].frame, ToolOf(r))
      /\ Record(r, ToolOf(r))
  BY DEF Release, At, Before
<1>2. PICK o \in Exists, g \in Goals, root \in Objects, rp \in Frames :
        /\ o = goal[r].object
        /\ goal' = [goal EXCEPT ![r] = g]
        /\ g.stage = "depart" /\ g.pick = goal[r].pick /\ g.object = o
        /\ g.frame = goal[r].frame
  BY <1>1, RecordFacts
<1>3. PICK f \in Frames :
        /\ f = goal[r].frame /\ Foreign(o, f, ToolOf(r)) /\ f \in Ground
        /\ DetachAndTouch(o, f, ToolOf(r))
  BY <1>1, <1>2, GoalFacts, StandFacts DEF Fits, MayPlace, Stands
<1>4. Stands(g)'
  BY <1>1, <1>2, <1>3 DEF Stands
<1>5. f \in Links /\ f \notin {Bench, Fixture} /\ g.stage \notin Before
  BY <1>2, <1>3 DEF Ground, Before
<1>. QED
  BY <1>1, <1>2, <1>3, <1>4, <1>5, TreeStand

LEMMA RollbackStand ==
  ASSUME OneGoal, PickInv, StandInv, NEW r \in Robots, Rollback(r)
  PROVE  StandInv'
<1>1. /\ goal[r] # Idle /\ goal[r].stage \in {"depart", "verify"} /\ goal[r].pick
      /\ DetachAndTouch(goal[r].root, goal[r].rootParent, ToolOf(r))
      /\ goal' = [goal EXCEPT ![r].stage = "reset"]
  BY DEF Rollback, At, Goto
<1>2. goal[r] \in Goals /\ MayReturn(r, goal[r]) /\ Stands(goal[r])
  BY <1>1, GoalFacts, StandFacts DEF Fits
<1>3. PICK g \in Goals : /\ goal' = [goal EXCEPT ![r] = g]
                         /\ g.stage = "reset" /\ g.object = goal[r].object
                         /\ g.root = goal[r].root /\ g.pick = goal[r].pick
  <2>. DEFINE g == [goal[r] EXCEPT !.stage = "reset"]
  <2>1. g \in Goals
    BY <1>2, StageForms DEF Stages
  <2>2. goal' = [goal EXCEPT ![r] = g]
    BY <1>1 DEF PickInv
  <2>3. /\ g.stage = "reset" /\ g.object = goal[r].object
        /\ g.root = goal[r].root /\ g.pick = goal[r].pick
    BY <1>2, GoalsForm
  <2>. HIDE DEF g
  <2>. QED
    BY <2>1, <2>2, <2>3
<1>4. PICK root \in Exists, rp \in Frames :
        /\ root = g.root /\ Foreign(root, rp, ToolOf(r))
        /\ DetachAndTouch(root, rp, ToolOf(r)) /\ rp \in Ground
  BY <1>1, <1>2, <1>3 DEF MayReturn, Stands
<1>5. Stands(g)'
  BY <1>1, <1>3 DEF Stands
<1>6. rp \in Links /\ rp \notin {Bench, Fixture} /\ g.stage \notin Before
  BY <1>3, <1>4 DEF Ground, Before
<1>7. {goal[r].object, goal[r].root} \subseteq {g.object, g.root}
  BY <1>3
<1>. QED
  BY <1>1, <1>3, <1>4, <1>5, <1>6, <1>7, TreeStand

LEMMA InitStandInv == OnTheGround /\ PickOrPlaceInit => StandInv
<1>. SUFFICES ASSUME OnTheGround, PickOrPlaceInit PROVE StandInv
  OBVIOUS
<1>1. PICK scene \in Scenes :
        /\ parent = scene.parent /\ attached = scene.attached
        /\ world = {o \in Objects : scene.parent[o] # NoObject} \ scene.attached
  BY DEF PickOrPlaceInit
<1>2. /\ Exists \subseteq Objects /\ world \subseteq Exists
      /\ \A o \in Exists : parent[o] \in Objects \cup Links
  BY InitPickInv DEF PickInv, SceneInv, ContactInv, TreeInv, TreeTypeOK, SceneMatchesTree, Exists
<1>3. \A o \in Exists : parent[o] \notin {Bench, Fixture}
  BY <1>1, <1>2 DEF OnTheGround
<1>4. \A o \in world : parent[o] \in Links
  BY <1>1, <1>2 DEF OnTheGround
<1>5. \A o \in world : \A x \in ParentTouch(o) : {o, x} \in acm
  BY DEF PickOrPlaceInit
<1>6. \A r \in Robots, g \in Goals : goal[r] # g
  BY GoalIsNotIdle DEF PickOrPlaceInit
<1>. QED
  BY <1>3, <1>4, <1>5, <1>6 DEF StandInv

LEMMA NextStandInv ==
  OneGoal /\ GrippersApart /\ OnTheGround /\ PickInv /\ ClearInv /\ StandInv /\ [PickOrPlaceNext]_vars
    => StandInv'
<1>. SUFFICES ASSUME OneGoal, GrippersApart, OnTheGround, PickInv, ClearInv, StandInv,
                     [PickOrPlaceNext]_vars
              PROVE  StandInv'
  OBVIOUS
<1>1. ASSUME NEW r \in Robots, Step(r) PROVE StandInv'
  BY <1>1, StageStand, AllowStand, GraspStand, ReleaseStand, RollbackStand, ResetStand DEF Step
<1>2. ASSUME NEW o \in Objects, FixObject(o) \/ ReleaseObject(o) PROVE FALSE
  BY <1>2 DEF FixObject, ReleaseObject, StandInv, Exists
<1>3. CASE UNCHANGED vars
  <2>1. UNCHANGED <<parent, attached, world, acm, goal>>
    BY <1>3 DEF vars, contactVars, treeVars
  <2>2. \A g : Stands(g)' <=> Stands(g)
    BY <2>1 DEF Stands
  <2>3. \A r \in Robots, g \in Goals : goal'[r] = g => Stands(g)'
    BY <2>1, <2>2 DEF StandInv
  <2>4. \A r, o : Owed(r, o)' <=> Owed(r, o)
    BY <2>1 DEF Owed
  <2>5. \A o : ParentTouch(o)' = ParentTouch(o)
    BY <2>1 DEF ParentTouch
  <2>. QED
    BY <2>1, <2>3, <2>4, <2>5 DEF StandInv, Exists
<1>. QED
  BY <1>1, <1>2, <1>3, AcceptStand DEF PickOrPlaceNext

\* The object and the old root may still touch what they leave.
LEMMA StandMayDepart ==
  ASSUME OneGoal, PickInv, UndoInv, ClearInv, StandInv
  PROVE  PickMayDepart
<1>. SUFFICES ASSUME NEW r \in Robots, goal[r] # Idle, goal[r].stage = "depart", goal[r].pick,
                     goal[r].root \notin goal[r].before.attached
              PROVE  /\ \A x \in TouchOf(Tip[r]) : MayTouch(goal[r].object, x)
                     /\ \A x \in TouchOf(goal[r].rootParent) : MayTouch(goal[r].root, x)
  BY DEF PickMayDepart, At
<1>1. goal[r].object \in Exists /\ parent[goal[r].object] = Tip[r]
  BY GoalFacts DEF UndoInv, Undone
<1>2. goal[r].object \in attached
  BY <1>1 DEF ClearInv, Tips, Exists
<1>3. TouchOf(Tip[r]) \subseteq touch[goal[r].object]
  BY <1>1, <1>2, TouchFacts DEF ParentTouch
<1>. QED
  BY <1>2, <1>3, StandFacts DEF MayTouch, Stands

-----------------------------------------------------------------------------
(* The server and the manager.                                             *)

\* What the server does to the tree are operations of the manager, called as
\* the manager expects it.
LEMMA ServerStepIsTreeStep ==
  PickInv /\ [PickOrPlaceNext]_vars => [TreeNext]_treeVars
<1>. SUFFICES ASSUME PickInv, PickOrPlaceNext PROVE TreeNext \/ UNCHANGED treeVars
  BY DEF vars, contactVars
<1>1. ASSUME NEW o \in Exists, NEW p \in Frames, NEW leaf \in Objects \cup {NoObject},
             Foreign(o, p, leaf), AttachAndTouch(o, p, leaf) \/ DetachAndTouch(o, p, leaf)
      PROVE  TreeNext
  <2>1. o \in Objects
    BY DEF PickInv, SceneInv, ContactInv, TreeInv, TreeTypeOK, Exists
  <2>. QED
    BY <1>1, <2>1 DEF AttachAndTouch, DetachAndTouch, TreeNext
<1>2. \A r : ToolOf(r) \in Objects \cup {NoObject}
  BY DEF ToolOf
<1>3. ASSUME NEW r \in Robots, Grasp(r) PROVE TreeNext
  <2>1. goal[r] # Idle /\ goal[r].pick /\ AttachAndTouch(goal[r].object, Tip[r], NoObject)
        /\ goal[r].stage \in Before
    BY <1>3 DEF Grasp, At, Before
  <2>2. goal[r].object \in Exists /\ Chain(goal[r].object, NoObject) \cap Tools = {}
    BY <2>1, GoalFacts DEF Fits, MayPick
  <2>3. Tip[r] \in Frames /\ Foreign(goal[r].object, Tip[r], NoObject)
    BY <2>2, TipIsForeign DEF PickInv
  <2>. QED
    BY <1>1, <2>1, <2>2, <2>3
<1>4. ASSUME NEW r \in Robots, Release(r) PROVE TreeNext
  <2>1. goal[r] # Idle /\ ~ goal[r].pick /\ goal[r].stage \in Before
        /\ DetachAndTouch(goal[r].object, goal[r].frame, ToolOf(r))
    BY <1>4 DEF Release, At, Before
  <2>2. goal[r].object \in Exists /\ MayPlace(r, goal[r])
    BY <2>1, GoalFacts DEF Fits
  <2>. QED
    BY <1>1, <1>2, <2>1, <2>2 DEF MayPlace
<1>5. ASSUME NEW r \in Robots, Rollback(r) PROVE TreeNext
  <2>1. goal[r] # Idle /\ goal[r].pick /\ goal[r].stage \in {"depart", "verify"}
        /\ DetachAndTouch(goal[r].root, goal[r].rootParent, ToolOf(r))
    BY <1>5 DEF Rollback, At
  <2>2. MayReturn(r, goal[r])
    BY <2>1, GoalFacts DEF Fits
  <2>. QED
    BY <1>1, <1>2, <2>1, <2>2 DEF MayReturn
<1>6. ASSUME NEW r \in Robots, Step(r) PROVE TreeNext \/ UNCHANGED treeVars
  <2>1. CASE Grasp(r) \/ Release(r) \/ Rollback(r)
    BY <1>3, <1>4, <1>5, <2>1
  <2>2. CASE ~ (Grasp(r) \/ Release(r) \/ Rollback(r))
    BY <1>6, <2>2
    DEF Step, Move, AllowAttached, ReadToAllow, WriteAllowed, Approach, Depart, Verify, Cancel,
        ReadToReset, WriteReset, AllowCollision, contactVars, treeVars
  <2>. QED
    BY <2>1, <2>2
<1>7. ASSUME NEW o \in Objects, FixObject(o) \/ ReleaseObject(o) PROVE TreeNext
  <2>1. PICK p \in {Fixture, Bench} : AttachAndTouch(o, p, NoObject) \/ DetachAndTouch(o, p, NoObject)
    BY <1>7 DEF FixObject, ReleaseObject
  <2>2. o \in Exists /\ p \in Frames /\ Foreign(o, p, NoObject)
    BY <1>7, PickOrPlaceAssumption DEF FixObject, ReleaseObject, Exists, Frames, Foreign
  <2>. QED
    BY <1>1, <2>1, <2>2
<1>8. ASSUME NEW r \in Robots, NEW o \in Objects,
             AcceptPick(r, o) \/ \E f \in Targets : AcceptPlace(r, o, f)
      PROVE  UNCHANGED treeVars
  BY <1>8 DEF AcceptPick, AcceptPlace, Accept, contactVars
<1>. QED
  BY <1>6, <1>7, <1>8 DEF PickOrPlaceNext

-----------------------------------------------------------------------------
(* The theorems.                                                           *)

\* As long as one goal is executed at a time, or one object at most serves as a
\* place, every step of a goal keeps the scene in order, finds what it is about,
\* and leaves alone what the other goals are about.
THEOREM PickInvariant ==
  ASSUME Orderly
  PROVE  PickOrPlaceSpec => []PickInv
<1>1. PickInv /\ [PickOrPlaceNext]_vars => PickInv'
  BY NextPickInv
<1>. QED
  BY <1>1, InitPickInv, PTL DEF PickOrPlaceSpec

\* The variables keep their types.
THEOREM PickTypeCorrect ==
  ASSUME Orderly
  PROVE  PickOrPlaceSpec => []PickOrPlaceTypeOK
<1>1. PickInv => PickOrPlaceTypeOK
  BY DEF PickInv, SceneInv, ContactInv, PickOrPlaceTypeOK
<1>. QED
  BY <1>1, PickInvariant, PTL

\* No pick, place or rollback takes a tool off the gripper that holds it.
THEOREM ToolsAreMounted ==
  ASSUME Orderly
  PROVE  PickOrPlaceSpec => []ToolsStayMounted
<1>1. PickInv => ToolsStayMounted
  BY DEF PickInv, SceneInv, Mounted
<1>. QED
  BY <1>1, PickInvariant, PTL

\* After a place the object and the old root hang on the same link, which the
\* departure needs.
THEOREM DepartIsDefined ==
  ASSUME Orderly
  PROVE  PickOrPlaceSpec => []DepartPoseDefined
<1>1. PickInv => DepartPoseDefined
  <2>. SUFFICES ASSUME PickInv, NEW r \in Robots, goal[r] # Idle, goal[r].stage = "depart",
                       ~ goal[r].pick
                PROVE  link[goal[r].object] = link[goal[r].root]
    BY DEF DepartPoseDefined, At
  <2>1. TreeInv /\ Placed(goal[r])
    BY GoalFacts DEF Fits, PickInv, SceneInv, ContactInv
  <2>. QED
    BY <2>1, ChainLink DEF Placed
<1>. QED
  BY <1>1, PickInvariant, PTL

\* A pick that fails puts every part of the product back where it was before
\* the grasp, whatever the goals of the other robots did in the meantime.
THEOREM FailedPickIsUndone ==
  ASSUME Orderly
  PROVE  PickOrPlaceSpec => PickRolledBack
<1>1. PickOrPlaceInit => UndoInv
  BY GoalIsNotIdle DEF PickOrPlaceInit, UndoInv
<1>2. PickInv /\ UndoInv /\ [PickOrPlaceNext]_vars =>
        [\A r \in Robots :
           Rollback(r) /\ goal[r].root \notin goal[r].before.attached =>
             \A x \in Product(goal[r].root) :
               /\ parent'[x] = goal[r].before.parent[x]
               /\ x \in attached' <=> x \in goal[r].before.attached]_vars
  BY RollbackUndoes
<1>3. PickInv /\ UndoInv /\ [PickOrPlaceNext]_vars => UndoInv'
  BY NextUndoInv
<1>. QED
  BY <1>1, <1>2, <1>3, PickInvariant, PTL DEF PickOrPlaceSpec, PickRolledBack

\* No allowance to touch a gripper is left behind, whether a goal succeeded,
\* failed in any stage or was cancelled.
THEOREM NoContactIsLeft ==
  ASSUME OneGoal, GrippersApart
  PROVE  PickOrPlaceSpec => []NoStrayGripperContact
<1>1. PickOrPlaceInit => UndoInv
  BY GoalIsNotIdle DEF PickOrPlaceInit, UndoInv
<1>2. PickOrPlaceInit => ClearInv
  BY InitClearInv
<1>3. PickInv /\ UndoInv /\ ClearInv /\ [PickOrPlaceNext]_vars => ClearInv'
  BY NextClearInv
<1>4. PickInv /\ UndoInv /\ [PickOrPlaceNext]_vars => UndoInv'
  BY NextUndoInv DEF OneGoal, Orderly
<1>5. PickInv /\ ClearInv => NoStrayGripperContact
  BY ClearIsNoStray
<1>6. PickOrPlaceSpec => []PickInv
  BY PickInvariant DEF OneGoal, Orderly
<1>. QED
  BY <1>1, <1>2, <1>3, <1>4, <1>5, <1>6, PTL DEF PickOrPlaceSpec

\* Where objects stand on links and the base fixture is not used, MoveIt tolerates
\* the contacts that the arm is still in when it departs from a pick.
THEOREM PicksMayDepart ==
  ASSUME OneGoal, GrippersApart, OnTheGround
  PROVE  PickOrPlaceSpec => []PickMayDepart
<1>1. PickOrPlaceInit => UndoInv /\ ClearInv /\ StandInv
  BY InitClearInv, InitStandInv, GoalIsNotIdle DEF PickOrPlaceInit, UndoInv
<1>2. PickInv /\ UndoInv /\ ClearInv /\ StandInv /\ [PickOrPlaceNext]_vars
        => UndoInv' /\ ClearInv' /\ StandInv'
  BY NextUndoInv, NextClearInv, NextStandInv DEF OneGoal, Orderly
<1>3. PickInv /\ UndoInv /\ ClearInv /\ StandInv => PickMayDepart
  BY StandMayDepart
<1>4. PickOrPlaceSpec => []PickInv
  BY PickInvariant DEF OneGoal, Orderly
<1>. QED
  BY <1>1, <1>2, <1>3, <1>4, PTL DEF PickOrPlaceSpec

\* The server uses the manager as the manager expects it: whatever is grasped,
\* placed and put back by whichever robot, no re-rooting makes a cycle of
\* parents ...
THEOREM ServerMakesNoCycle ==
  ASSUME Orderly
  PROVE  PickOrPlaceSpec => []Rooted
<1>1. PickInv => Rooted
  BY DEF PickInv, SceneInv, ContactInv, TreeInv
<1>. QED
  BY <1>1, PickInvariant, PTL

\* ... and every product stays whole.
THEOREM ServerKeepsProducts ==
  ASSUME Orderly
  PROVE  PickOrPlaceSpec => ProductKeptWhole
<1>1. PickInv /\ [PickOrPlaceNext]_vars
        => [Exists \subseteq Exists' =>
              /\ \A x, y \in Arcs \ Arcs' : x = y
              /\ \A x, y \in Arcs' \ Arcs : x = y]_treeVars
  BY ServerStepIsTreeStep, NextKeepsWhole DEF KeptWhole, PickInv, SceneInv, ContactInv
<1>. QED
  BY <1>1, PickInvariant, PTL DEF PickOrPlaceSpec, ProductKeptWhole
=============================================================================
