------------------------- MODULE ProductTreeProofs -------------------------
(***************************************************************************)
(* The product tree stays a tree and its attach links stay shared, for     *)
(* every set of objects and links and every sequence of operations.        *)
(***************************************************************************)
EXTENDS ProductTree, TLAPS

-----------------------------------------------------------------------------
(* What an ascent and a descent along a parent function visit.  The        *)
(* induction over the ascent is the minimality of a least closed set.      *)

\* An ascent visits the node it starts from.
LEMMA UpElement ==
  ASSUME NEW U, NEW f, NEW G, NEW a \in U
  PROVE  a \in Up(U, f, G, a) /\ Up(U, f, G, a) \subseteq U
BY DEF Up

\* An ascent goes on from every node of G it visits.
LEMMA UpClosed ==
  ASSUME NEW U, NEW f, NEW G, NEW a \in U, NEW x \in Up(U, f, G, a),
         x \in G, f[x] \in U
  PROVE  f[x] \in Up(U, f, G, a)
BY DEF Up

\* An ascent visits nothing else: induction along the ascent.
LEMMA UpMinimal ==
  ASSUME NEW U, NEW f, NEW G, NEW a \in U, NEW S \in SUBSET U,
         a \in S, \A x \in S \cap G : f[x] \in S
  PROVE  Up(U, f, G, a) \subseteq S
BY DEF Up

\* After its first node an ascent is the ascent from the parent.
LEMMA UpUnfold ==
  ASSUME NEW U, NEW f, NEW G, NEW a \in U, \A x \in U \cap G : f[x] \in U,
         NEW b \in Up(U, f, G, a), b # a
  PROVE  a \in G /\ b \in Up(U, f, G, f[a])
<1>1. CASE a \in G
  <2> DEFINE S == {a} \cup Up(U, f, G, f[a])
  <2>1. f[a] \in U
    BY <1>1
  <2>2. S \in SUBSET U /\ a \in S
    BY <2>1, UpElement
  <2>3. ASSUME NEW x \in S \cap G PROVE f[x] \in S
    <3>1. CASE x = a
      BY <3>1, <2>1, UpElement
    <3>2. CASE x \in Up(U, f, G, f[a])
      BY <3>2, <2>1, UpClosed, UpElement
    <3> QED BY <3>1, <3>2
  <2>4. Up(U, f, G, a) \subseteq S
    <3> HIDE DEF S
    <3> QED BY <2>2, <2>3, UpMinimal
  <2> QED BY <1>1, <2>4
<1>2. CASE a \notin G
  <2> DEFINE S == {a}
  <2>1. S \in SUBSET U /\ a \in S /\ S \cap G = {}
    BY <1>2
  <2>2. Up(U, f, G, a) \subseteq S
    <3> HIDE DEF S
    <3> QED BY <2>1, UpMinimal
  <2> QED BY <2>2
<1> QED BY <1>1, <1>2

\* What is above a node above a is above a.
LEMMA UpTransitive ==
  ASSUME NEW U, NEW f, NEW G, NEW a \in U, \A x \in U \cap G : f[x] \in U,
         NEW b \in Up(U, f, G, a)
  PROVE  Up(U, f, G, b) \subseteq Up(U, f, G, a)
<1>1. Up(U, f, G, a) \in SUBSET U /\ b \in U
  BY UpElement
<1>2. \A x \in Up(U, f, G, a) \cap G : f[x] \in Up(U, f, G, a)
  BY <1>1, UpClosed
<1> QED BY <1>1, <1>2, UpMinimal

\* An ascent does not branch: of two nodes it visits one is above the other.
LEMMA UpTotal ==
  ASSUME NEW U, NEW f, NEW G, NEW a \in U, \A x \in U \cap G : f[x] \in U,
         NEW d \in Up(U, f, G, a), NEW e \in Up(U, f, G, a)
  PROVE  d \in Up(U, f, G, e) \/ e \in Up(U, f, G, d)
<1> DEFINE S == {x \in Up(U, f, G, a) :
                   d \in Up(U, f, G, x) \/ x \in Up(U, f, G, d)}
<1>1. S \in SUBSET U /\ a \in S /\ d \in U
  BY UpElement
<1>2. ASSUME NEW x \in S \cap G PROVE f[x] \in S
  <2>1. x \in U /\ f[x] \in U /\ f[x] \in Up(U, f, G, a)
    BY <1>1, UpClosed
  <2>2. CASE x \in Up(U, f, G, d)
    BY <2>1, <2>2, <1>1, UpClosed
  <2>3. CASE d \in Up(U, f, G, x) /\ d # x
    BY <2>1, <2>3, UpUnfold
  <2>4. CASE d = x
    BY <2>1, <2>4, <1>1, UpElement, UpClosed
  <2> QED BY <2>2, <2>3, <2>4
<1>3. Up(U, f, G, a) \subseteq S
  <2> HIDE DEF S
  <2> QED BY <1>1, <1>2, UpMinimal
<1> QED BY <1>3

\* An ascent of a tree never comes back.
LEMMA UpNoReturn ==
  ASSUME NEW U, NEW f, NEW G, \A x \in U \cap G : f[x] \in U,
         WellRooted(U, f), NEW x \in U \cap G
  PROVE  x \notin Up(U, f, G, f[x])
<1> SUFFICES ASSUME x \in Up(U, f, G, f[x]) PROVE FALSE
  OBVIOUS
<1> DEFINE Z == {z \in Up(U, f, G, f[x]) : x \in Up(U, f, G, z)}
<1>1. f[x] \in U /\ Z \in SUBSET U
  BY UpElement
<1>2. f[x] \in Z
  BY <1>1, UpElement
<1>3. ASSUME NEW z \in Z PROVE f[z] \in Z
  <2>1. CASE z = x
    BY <2>1, <1>2
  <2>2. CASE z # x
    <3>1. z \in G /\ x \in Up(U, f, G, f[z])
      BY <1>1, <2>2, UpUnfold
    <3>2. f[z] \in Up(U, f, G, f[x])
      BY <1>1, <3>1, UpClosed
    <3> QED BY <3>1, <3>2
  <2> QED BY <2>1, <2>2
<1> HIDE DEF Z
<1> QED BY <1>1, <1>2, <1>3 DEF WellRooted

\* In a tree two different nodes of an ascent have different parents.
LEMMA UpInjective ==
  ASSUME NEW U, NEW f, NEW G, \A x \in U \cap G : f[x] \in U,
         WellRooted(U, f), NEW a \in U,
         NEW d \in Up(U, f, G, a) \cap G, NEW e \in Up(U, f, G, a) \cap G,
         f[d] = f[e]
  PROVE  d = e
<1> SUFFICES ASSUME d # e PROVE FALSE
  OBVIOUS
<1>1. d \in U /\ e \in U
  BY UpElement
<1>2. CASE d \in Up(U, f, G, e)
  <2>1. d \in Up(U, f, G, f[d])
    BY <1>1, <1>2, UpUnfold
  <2> QED BY <1>1, <2>1, UpNoReturn
<1>3. CASE e \in Up(U, f, G, d)
  <2>1. e \in Up(U, f, G, f[e])
    BY <1>1, <1>3, UpUnfold
  <2> QED BY <1>1, <2>1, UpNoReturn
<1> QED BY <1>2, <1>3, UpTotal

\* A node an ascent visits after its first one has a predecessor in it.
LEMMA UpPredecessor ==
  ASSUME NEW U, NEW f, NEW G, NEW a \in U, \A x \in U \cap G : f[x] \in U,
         NEW c \in Up(U, f, G, a), c # a
  PROVE  \E d \in Up(U, f, G, a) \cap G : f[d] = c
<1> SUFFICES ASSUME \A d \in Up(U, f, G, a) \cap G : f[d] # c PROVE FALSE
  OBVIOUS
<1> DEFINE S == Up(U, f, G, a) \ {c}
<1>1. S \in SUBSET U /\ a \in S
  BY UpElement
<1>2. \A x \in S \cap G : f[x] \in S
  BY <1>1, UpClosed
<1>3. Up(U, f, G, a) \subseteq S
  <2> HIDE DEF S
  <2> QED BY <1>1, <1>2, UpMinimal
<1> QED BY <1>3

\* An ascent depends on the parents of the nodes that it goes on from only.
LEMMA UpAgree ==
  ASSUME NEW U, NEW f, NEW h, NEW G, NEW a, \A x \in G : f[x] = h[x]
  PROVE  Up(U, f, G, a) = Up(U, h, G, a)
<1>1. \A S : (\A x \in S \cap G : f[x] \in S) <=> (\A x \in S \cap G : h[x] \in S)
  OBVIOUS
<1> QED BY <1>1 DEF Up

\* An ascent that goes on from more nodes visits more.
LEMMA UpMonotone ==
  ASSUME NEW U, NEW f, NEW G, NEW H, G \subseteq H, NEW a \in U,
         \A x \in U \cap H : f[x] \in U
  PROVE  Up(U, f, G, a) \subseteq Up(U, f, H, a)
<1>1. a \in Up(U, f, H, a) /\ Up(U, f, H, a) \in SUBSET U
  BY UpElement
<1>2. \A x \in Up(U, f, H, a) \cap G : f[x] \in Up(U, f, H, a)
  BY <1>1, UpClosed
<1> QED BY <1>1, <1>2, UpMinimal

\* A descent visits the node it starts from.
LEMMA DownElement ==
  ASSUME NEW U, NEW f, NEW G, NEW a \in U
  PROVE  a \in Down(U, f, G, a) /\ Down(U, f, G, a) \subseteq U
BY DEF Down

\* A descent goes on to every node of G below a node it visits.
LEMMA DownClosed ==
  ASSUME NEW U, NEW f, NEW G, NEW a \in U, NEW x \in U, x \in G,
         f[x] \in Down(U, f, G, a)
  PROVE  x \in Down(U, f, G, a)
BY DEF Down

\* A descent visits nothing else: induction along the descent.
LEMMA DownMinimal ==
  ASSUME NEW U, NEW f, NEW G, NEW a \in U, NEW S \in SUBSET U,
         a \in S, \A x \in G : f[x] \in S => x \in S
  PROVE  Down(U, f, G, a) \subseteq S
BY DEF Down

\* A descent comes to a node other than its first one from the parent.
LEMMA DownParent ==
  ASSUME NEW U, NEW f, NEW G \in SUBSET U, NEW a \in U,
         NEW d \in Down(U, f, G, a), d # a
  PROVE  d \in G /\ f[d] \in Down(U, f, G, a)
<1> SUFFICES ASSUME ~(d \in G /\ f[d] \in Down(U, f, G, a)) PROVE FALSE
  OBVIOUS
<1> DEFINE S == Down(U, f, G, a) \ {d}
<1>1. S \in SUBSET U /\ a \in S
  BY DownElement
<1>2. \A x \in G : f[x] \in S => x \in S
  BY DownClosed
<1>3. Down(U, f, G, a) \subseteq S
  <2> HIDE DEF S
  <2> QED BY <1>1, <1>2, DownMinimal
<1> QED BY <1>3

-----------------------------------------------------------------------------

\* The inductive invariant.  Re-rooting reverses a chain of parents only if
\* the chain has no cycle, so Rooted is needed for the other parts.
TreeInv ==
  /\ TreeTypeOK
  /\ SceneMatchesTree
  /\ Rooted
  /\ SharedAttachLink

-----------------------------------------------------------------------------
(* Lemmas about the chain that _rotate_tree reverses.                      *)

\* The chain from o runs through existing objects, is closed under climbing
\* and never comes back to o.
LEMMA ChainFacts ==
  ASSUME TreeInv, NEW o \in Exists, NEW leaf
  PROVE  /\ \A x \in Objects \cap Climbing(leaf) : parent[x] \in Objects
         /\ o \in Chain(o, leaf)
         /\ Chain(o, leaf) \subseteq Exists
         /\ \A x \in Chain(o, leaf) \cap Climbing(leaf) :
              parent[x] \in Chain(o, leaf) /\ parent[x] # o
<1> USE DEF TreeInv, TreeTypeOK
<1>1. o \in Objects /\ Exists \in SUBSET Objects
  BY DEF Exists
<1>2. \A x \in Objects \cap Climbing(leaf) : parent[x] \in Objects
  BY <1>1 DEF Climbing
<1>3. o \in Chain(o, leaf)
  BY <1>1, UpElement DEF Chain
<1>4. \A x \in Exists \cap Climbing(leaf) : parent[x] \in Exists
  BY DEF Climbing
<1>5. Chain(o, leaf) \subseteq Exists
  BY <1>1, <1>4, UpMinimal DEF Chain
<1>6. ASSUME NEW x \in Chain(o, leaf) \cap Climbing(leaf)
      PROVE  parent[x] \in Chain(o, leaf) /\ parent[x] # o
  <2>1. x \in Objects \cap Climbing(leaf) /\ parent[x] \in Objects
    BY <1>1, <1>2, <1>5
  <2>2. parent[x] \in Chain(o, leaf)
    BY <1>1, <2>1, UpClosed DEF Chain
  <2>3. parent[x] # o
    BY <1>2, <2>1, UpNoReturn DEF Chain, Rooted
  <2> QED BY <2>2, <2>3
<1> QED BY <1>2, <1>3, <1>5, <1>6

\* What the parents are after attach_object or detach_object: o has its new
\* parent, each further object of the chain has its former child as parent,
\* the others keep theirs.
LEMMA RerootedFacts ==
  ASSUME TreeInv, NEW o \in Exists, NEW p \in Frames, NEW leaf,
         NEW np, np = Rerooted(o, p, leaf)
  PROVE  /\ np \in [Objects -> Objects \cup Links \cup {NoObject}]
         /\ np[o] = p
         /\ \A x \in Objects \ Chain(o, leaf) : np[x] = parent[x]
         /\ \A x \in Chain(o, leaf) \ {o} :
              /\ np[x] \in Chain(o, leaf) \cap Climbing(leaf)
              /\ parent[np[x]] = x
         /\ \A x \in Chain(o, leaf) \cap Climbing(leaf) : np[parent[x]] = x
<1> DEFINE C == Chain(o, leaf)
           G == Climbing(leaf)
<1>1. o \in Objects /\ Exists \subseteq Objects /\ p \in Objects \cup Links
  BY DEF Exists, Frames, TreeInv, TreeTypeOK
<1>2. /\ \A x \in Objects \cap G : parent[x] \in Objects
      /\ o \in C /\ C \subseteq Objects
      /\ \A x \in C \cap G : parent[x] \in C /\ parent[x] # o
  BY ChainFacts, <1>1
<1>3. /\ np[o] = p
      /\ \A x \in C \ {o} : np[x] = CameFrom(o, leaf, x)
      /\ \A x \in Objects \ C : np[x] = parent[x]
  BY <1>1, <1>2 DEF Rerooted
<1>4. ASSUME NEW x \in C \ {o}
      PROVE  np[x] \in C \cap G /\ parent[np[x]] = x
  <2>1. \E d \in C \cap G : parent[d] = x
    BY <1>1, <1>2, UpPredecessor DEF Chain
  <2>2. np[x] = CHOOSE d \in C \cap G : parent[d] = x
    BY <1>2, <1>3 DEF CameFrom
  <2> HIDE DEF C, G
  <2> QED BY <2>1, <2>2
<1>5. ASSUME NEW x \in C \cap G PROVE np[parent[x]] = x
  <2>1. parent[x] \in C \ {o}
    BY <1>2
  <2>2. np[parent[x]] \in C \cap G /\ parent[np[parent[x]]] = parent[x]
    BY <1>4, <2>1
  <2> QED BY <1>1, <1>2, <2>2, UpInjective DEF Chain, TreeInv, Rooted
<1>6. np \in [Objects -> Objects \cup Links \cup {NoObject}]
  <2>1. np = [x \in Objects |-> np[x]]
    BY DEF Rerooted
  <2>2. \A x \in Objects : np[x] \in Objects \cup Links \cup {NoObject}
    BY <1>1, <1>2, <1>3, <1>4 DEF TreeInv, TreeTypeOK
  <2> QED BY <2>1, <2>2
<1> QED BY <1>3, <1>4, <1>5, <1>6

\* Re-rooting a product below a foreign parent leaves no cycle.
LEMMA RerootedIsRooted ==
  ASSUME TreeInv, NEW o \in Exists, NEW p \in Frames, NEW leaf,
         Foreign(o, p, leaf),
         NEW np, np = Rerooted(o, p, leaf)
  PROVE  WellRooted(Objects, np)
<1> DEFINE C == Chain(o, leaf)
           G == Climbing(leaf)
<1> SUFFICES ASSUME NEW S \in SUBSET Objects, S # {},
                    \A x \in S : np[x] \in S
             PROVE  FALSE
  BY DEF WellRooted
<1>1. o \in Objects /\ Exists \subseteq Objects
  BY DEF Exists, TreeInv, TreeTypeOK
<1>2. /\ o \in C /\ C \subseteq Objects
      /\ \A x \in C \cap G : parent[x] \in C
  BY ChainFacts, <1>1
<1>3. /\ np[o] = p
      /\ \A x \in Objects \ C : np[x] = parent[x]
      /\ \A x \in C \cap G : np[parent[x]] = x
  <2> HIDE DEF C, G
  <2> QED BY RerootedFacts DEF C, G
<1>4. WellRooted(Objects, parent)
  BY DEF TreeInv, Rooted
<1>5. o \notin S
  <2> SUFFICES ASSUME o \in S PROVE FALSE
    OBVIOUS
  <2> DEFINE A == Ancestors(p)
             Z == S \cap A
  <2>1. p \in S /\ p \in Objects
    BY <1>3
  <2>2. A \cap C = {}
    BY <2>1, TreeAssumption DEF Foreign
  <2>3. p \in A
    BY <2>1, UpElement DEF Ancestors
  <2>4. ASSUME NEW x \in Z PROVE parent[x] \in Z
    <3>1. parent[x] \in S
      BY <1>3, <2>2
    <3>2. parent[x] \in A
      BY <2>1, <3>1, UpClosed DEF Ancestors
    <3> QED BY <3>1, <3>2
  <2>5. Z \in SUBSET Objects /\ Z # {}
    BY <2>1, <2>3
  <2> HIDE DEF Z
  <2> QED BY <1>4, <2>4, <2>5 DEF WellRooted
<1>6. C \cap S = {}
  <2> DEFINE X == C \ S
  <2>1. X \in SUBSET Objects /\ o \in X
    BY <1>2, <1>5
  <2>2. \A x \in X \cap G : parent[x] \in X
    BY <1>2, <1>3
  <2>3. C \subseteq X
    <3> HIDE DEF X
    <3> QED BY <1>1, <2>1, <2>2, UpMinimal DEF Chain
  <2> QED BY <2>3
<1>7. \A x \in S : parent[x] \in S
  BY <1>3, <1>6
<1> QED BY <1>4, <1>7 DEF WellRooted

\* The objects that get a new attach link: o and everything attached below
\* it in the re-rooted product, which the new parent is not part of.
LEMMA SubtreeFacts ==
  ASSUME TreeInv, NEW o \in Exists, NEW p \in Frames, NEW leaf,
         Foreign(o, p, leaf),
         NEW np, np = Rerooted(o, p, leaf),
         NEW att \in SUBSET Objects,
         att \subseteq attached \cup Chain(o, leaf),
         attached \cup Chain(o, leaf) \subseteq att \cup {o}
  PROVE  /\ o \in Subtree(np, att, o)
         /\ Subtree(np, att, o) \subseteq Objects
         /\ \A x \in att : np[x] \in Subtree(np, att, o)
                             => x \in Subtree(np, att, o)
         /\ \A x \in Subtree(np, att, o) \ {o} :
              x \in att /\ np[x] \in Subtree(np, att, o)
         /\ Chain(o, leaf) \subseteq Subtree(np, att, o)
         /\ p \notin Subtree(np, att, o)
<1> DEFINE C == Chain(o, leaf)
           G == Climbing(leaf)
           D == Subtree(np, att, o)
<1>1. o \in Objects /\ Exists \subseteq Objects
  BY DEF Exists, TreeInv, TreeTypeOK
<1>2. o \in D /\ D \subseteq Objects
  BY <1>1, DownElement DEF Subtree
<1>3. \A x \in att : np[x] \in D => x \in D
  BY <1>1, DownClosed DEF Subtree
<1>4. \A x \in D \ {o} : x \in att /\ np[x] \in D
  BY <1>1, DownParent DEF Subtree
<1>5. /\ o \in C /\ C \subseteq Objects
      /\ \A x \in C \cap G : parent[x] \in C /\ parent[x] # o
  BY ChainFacts, <1>1
<1>6. /\ \A x \in Objects \ C : np[x] = parent[x]
      /\ \A x \in C \cap G : np[parent[x]] = x
  <2> HIDE DEF C, G, D
  <2> QED BY RerootedFacts DEF C, G
<1>7. C \subseteq D
  <2> DEFINE X == C \cap D
  <2>1. X \in SUBSET Objects /\ o \in X
    BY <1>2, <1>5
  <2>2. \A x \in X \cap G : parent[x] \in X
    BY <1>3, <1>5, <1>6
  <2>3. C \subseteq X
    <3> HIDE DEF X
    <3> QED BY <1>1, <2>1, <2>2, UpMinimal DEF Chain
  <2> QED BY <2>3
<1>8. p \notin D
  <2>1. CASE p \in Links
    BY <2>1, <1>2, TreeAssumption
  <2>2. CASE p \in Objects
    <3> DEFINE A == Ancestors(p)
               S == Objects \ A
    <3>1. p \in A /\ A \cap C = {}
      BY <2>2, UpElement, TreeAssumption DEF Ancestors, Foreign
    <3>2. S \in SUBSET Objects /\ o \in S
      BY <1>1, <1>5, <3>1
    <3>3. ASSUME NEW x \in att, np[x] \in S PROVE x \in S
      <4> SUFFICES ASSUME x \in A PROVE FALSE
        OBVIOUS
      <4>1. np[x] = parent[x] /\ parent[x] \in Objects
        BY <1>6, <3>1, <3>3
      <4>2. parent[x] \in A
        BY <2>2, <4>1, UpClosed DEF Ancestors
      <4> QED BY <4>1, <4>2, <3>3
    <3>4. D \subseteq S
      <4> HIDE DEF S
      <4> QED BY <1>1, <3>2, <3>3, DownMinimal DEF Subtree
    <3> QED BY <3>1, <3>4
  <2> QED BY <2>1, <2>2 DEF Frames, Exists, TreeInv, TreeTypeOK
<1> QED BY <1>2, <1>3, <1>4, <1>5, <1>7, <1>8

-----------------------------------------------------------------------------
(* Each operation preserves the invariant.                                 *)

\* The empty planning scene satisfies the invariant.
LEMMA InitTreeInv == TreeInit => TreeInv
BY TreeAssumption DEF TreeInit, TreeInv, TreeTypeOK, SceneMatchesTree, Rooted,
   WellRooted, SharedAttachLink, Exists, Frames, FrameOf

\* create_object preserves the invariant: the new object is a leaf of the tree.
LEMMA CreateTreeInv ==
  ASSUME TreeInv, NEW o \in Objects, NEW p \in Frames, CreateObject(o, p)
  PROVE  TreeInv'
<1> USE TreeAssumption DEF TreeInv, TreeTypeOK, CreateObject, Exists, Frames
<1>1. TreeTypeOK'
  OBVIOUS
<1>2. SceneMatchesTree'
  BY DEF SceneMatchesTree
<1>3. Rooted'
  <2> SUFFICES ASSUME NEW S \in SUBSET Objects, S # {},
                      \A x \in S : parent'[x] \in S
               PROVE  FALSE
    BY DEF Rooted, WellRooted
  <2> DEFINE T == S \ {o}
  <2>1. T \in SUBSET Objects /\ T # {}
    OBVIOUS
  <2>2. \A x \in T : parent[x] \in T
    OBVIOUS
  <2> HIDE DEF T
  <2> QED BY <2>1, <2>2 DEF Rooted, WellRooted
<1>4. SharedAttachLink'
  BY DEF SharedAttachLink, FrameOf
<1> QED BY <1>1, <1>2, <1>3, <1>4

\* remove_object preserves the invariant; references to the removed object
\* dangle but close no cycle.
LEMMA RemoveTreeInv ==
  ASSUME TreeInv, NEW o \in Objects, RemoveObject(o)
  PROVE  TreeInv'
<1> USE TreeAssumption DEF TreeInv, TreeTypeOK, RemoveObject, Exists, Frames
<1>1. TreeTypeOK'
  OBVIOUS
<1>2. SceneMatchesTree'
  BY DEF SceneMatchesTree
<1>3. Rooted'
  <2> SUFFICES ASSUME NEW S \in SUBSET Objects, S # {},
                      \A x \in S : parent'[x] \in S
               PROVE  FALSE
    BY DEF Rooted, WellRooted
  <2>1. \A x \in S : parent[x] \in S
    OBVIOUS
  <2> QED BY <2>1 DEF Rooted, WellRooted
<1>4. SharedAttachLink'
  BY DEF SharedAttachLink, FrameOf
<1> QED BY <1>1, <1>2, <1>3, <1>4

\* remove_object without arguments preserves the invariant.
LEMMA RemoveAllTreeInv == TreeInv /\ RemoveAllObjects => TreeInv'
BY TreeAssumption DEF RemoveAllObjects, TreeInv, TreeTypeOK, SceneMatchesTree,
   Rooted, WellRooted, SharedAttachLink, Exists, Frames, FrameOf

\* attach_object below a foreign parent preserves the invariant.
LEMMA AttachTreeInv ==
  ASSUME TreeInv, NEW o \in Objects, NEW p \in Frames, NEW leaf,
         Foreign(o, p, leaf), AttachObject(o, p, leaf)
  PROVE  TreeInv'
<1> DEFINE C == Chain(o, leaf)
           D == Subtree(parent', attached', o)
<1>1. /\ o \in Exists /\ Exists \subseteq Objects
      /\ p \in Objects \cup Links
      /\ parent' = Rerooted(o, p, leaf)
      /\ attached' = attached \cup C
      /\ world' = world \ C
      /\ link' = [x \in Objects |-> IF x \in D THEN FrameOf(p) ELSE link[x]]
  BY DEF AttachObject, Exists, Frames, TreeInv, TreeTypeOK
<1>2. o \in C /\ C \subseteq Exists
  BY ChainFacts, <1>1
<1>3. /\ parent' \in [Objects -> Objects \cup Links \cup {NoObject}]
      /\ parent'[o] = p
      /\ \A x \in Objects \ C : parent'[x] = parent[x]
      /\ \A x \in C \ {o} : parent'[x] \in C
  <2> HIDE DEF C, D
  <2> QED BY <1>1, RerootedFacts DEF C
<1>4. WellRooted(Objects, parent')
  BY <1>1, RerootedIsRooted
<1>5. attached' \in SUBSET Objects
  BY <1>1, <1>2 DEF TreeInv, TreeTypeOK
<1>6. /\ o \in D /\ D \subseteq Objects
      /\ \A x \in attached' : parent'[x] \in D => x \in D
      /\ \A x \in D \ {o} : x \in attached' /\ parent'[x] \in D
      /\ C \subseteq D /\ p \notin D
  <2> HIDE DEF C, D
  <2> QED BY <1>1, <1>2, <1>5, SubtreeFacts DEF C, D
<1> HIDE DEF C, D
<1>7. Exists' = Exists /\ Frames' = Frames
  BY <1>1, <1>2 DEF Exists, Frames
<1>8. TreeTypeOK'
  <2>1. FrameOf(p) \in Links
    BY <1>1 DEF FrameOf, TreeInv, TreeTypeOK
  <2>2. link' \in [Objects -> Links]
    BY <1>1, <2>1 DEF TreeInv, TreeTypeOK
  <2>3. world' \subseteq Objects
    BY <1>1 DEF TreeInv, TreeTypeOK
  <2> QED BY <1>3, <1>5, <2>2, <2>3 DEF TreeTypeOK
<1>9. SceneMatchesTree'
  <2>1. attached' \cap world' = {}
    BY <1>1 DEF TreeInv, SceneMatchesTree
  <2>2. ASSUME NEW x \in Objects
        PROVE  x \in Exists <=> parent'[x] # NoObject
    BY <1>1, <1>2, <1>3, TreeAssumption DEF TreeInv, SceneMatchesTree
  <2> QED BY <1>7, <2>1, <2>2 DEF SceneMatchesTree
<1>10. SharedAttachLink'
  <2>1. ASSUME NEW x \in Objects \ attached' PROVE link'[x] = World
    BY <1>1, <1>2, <1>6, <2>1 DEF TreeInv, SharedAttachLink
  <2>2. ASSUME NEW x \in attached', parent'[x] \in Frames
        PROVE  link'[x] = FrameOf(parent[x])'
    <3>1. CASE x = o
      BY <1>1, <1>3, <1>6, <3>1 DEF FrameOf
    <3>2. CASE x \in D \ {o}
      BY <1>1, <1>6, <3>2, TreeAssumption DEF FrameOf
    <3>3. CASE x \notin D
      <4>1. x \in attached /\ x \in Objects \ C
        BY <1>1, <1>5, <1>6, <3>3
      <4>2. parent'[x] = parent[x] /\ parent[x] \notin D
        BY <1>3, <1>6, <2>2, <3>3, <4>1
      <4>3. link'[x] = FrameOf(parent[x])
        BY <1>1, <2>2, <3>3, <4>1, <4>2 DEF TreeInv, SharedAttachLink
      <4> QED BY <1>1, <2>2, <4>2, <4>3 DEF FrameOf, Frames
    <3> QED BY <1>5, <3>1, <3>2, <3>3
  <2> QED BY <1>7, <2>1, <2>2 DEF SharedAttachLink
<1> QED BY <1>4, <1>8, <1>9, <1>10 DEF TreeInv, Rooted

\* detach_object below a foreign parent preserves the invariant.
LEMMA DetachTreeInv ==
  ASSUME TreeInv, NEW o \in Objects, NEW p \in Frames, NEW leaf,
         Foreign(o, p, leaf), DetachObject(o, p, leaf)
  PROVE  TreeInv'
<1> DEFINE C == Chain(o, leaf)
           D == Subtree(parent', attached', o)
<1>1. /\ o \in Exists /\ Exists \subseteq Objects
      /\ p \in Objects \cup Links
      /\ parent' = Rerooted(o, p, leaf)
      /\ attached' = (attached \cup C) \ {o}
      /\ world' = (world \ C) \cup {o}
      /\ link' = [x \in Objects |-> IF x \in D THEN World ELSE link[x]]
  BY DEF DetachObject, Exists, Frames, TreeInv, TreeTypeOK
<1>2. o \in C /\ C \subseteq Exists
  BY ChainFacts, <1>1
<1>3. /\ parent' \in [Objects -> Objects \cup Links \cup {NoObject}]
      /\ parent'[o] = p
      /\ \A x \in Objects \ C : parent'[x] = parent[x]
      /\ \A x \in C \ {o} : parent'[x] \in C
  <2> HIDE DEF C, D
  <2> QED BY <1>1, RerootedFacts DEF C
<1>4. WellRooted(Objects, parent')
  BY <1>1, RerootedIsRooted
<1>5. attached' \in SUBSET Objects
  BY <1>1, <1>2 DEF TreeInv, TreeTypeOK
<1>6. /\ o \in D /\ D \subseteq Objects
      /\ \A x \in attached' : parent'[x] \in D => x \in D
      /\ \A x \in D \ {o} : x \in attached' /\ parent'[x] \in D
      /\ C \subseteq D
  <2> HIDE DEF C, D
  <2>1. /\ attached' \subseteq attached \cup C
        /\ attached \cup C \subseteq attached' \cup {o}
    BY <1>1
  <2> QED BY <1>1, <1>2, <1>5, <2>1, SubtreeFacts DEF C, D
<1> HIDE DEF C, D
<1>7. Exists' = Exists /\ Frames' = Frames
  BY <1>1, <1>2 DEF Exists, Frames
<1>8. TreeTypeOK'
  <2>1. link' \in [Objects -> Links]
    BY <1>1, TreeAssumption DEF TreeInv, TreeTypeOK
  <2>2. world' \subseteq Objects
    BY <1>1 DEF TreeInv, TreeTypeOK
  <2> QED BY <1>3, <1>5, <2>1, <2>2 DEF TreeTypeOK
<1>9. SceneMatchesTree'
  <2>1. attached' \cap world' = {}
    BY <1>1 DEF TreeInv, SceneMatchesTree
  <2>2. ASSUME NEW x \in Objects
        PROVE  x \in Exists <=> parent'[x] # NoObject
    BY <1>1, <1>2, <1>3, TreeAssumption DEF TreeInv, SceneMatchesTree
  <2> QED BY <1>7, <2>1, <2>2 DEF SceneMatchesTree
<1>10. SharedAttachLink'
  <2>1. ASSUME NEW x \in Objects \ attached' PROVE link'[x] = World
    BY <1>1, <1>2, <1>6, <2>1 DEF TreeInv, SharedAttachLink
  <2>2. ASSUME NEW x \in attached', parent'[x] \in Frames
        PROVE  link'[x] = FrameOf(parent[x])'
    <3>1. x # o
      BY <1>1
    <3>2. CASE x \in D
      BY <1>1, <1>6, <3>1, <3>2, TreeAssumption DEF FrameOf
    <3>3. CASE x \notin D
      <4>1. x \in attached /\ x \in Objects \ C
        BY <1>1, <1>5, <1>6, <3>3
      <4>2. parent'[x] = parent[x] /\ parent[x] \notin D
        BY <1>3, <1>6, <2>2, <3>3, <4>1
      <4>3. link'[x] = FrameOf(parent[x])
        BY <1>1, <2>2, <3>3, <4>1, <4>2 DEF TreeInv, SharedAttachLink
      <4> QED BY <1>1, <2>2, <4>2, <4>3 DEF FrameOf, Frames
    <3> QED BY <1>5, <3>2, <3>3
  <2> QED BY <1>7, <2>1, <2>2 DEF SharedAttachLink
<1> QED BY <1>4, <1>8, <1>9, <1>10 DEF TreeInv, Rooted

\* Every step of the product tree preserves the invariant.
LEMMA NextTreeInv == TreeInv /\ [TreeNext]_treeVars => TreeInv'
<1> SUFFICES ASSUME TreeInv, [TreeNext]_treeVars PROVE TreeInv'
  OBVIOUS
<1>1. CASE UNCHANGED treeVars
  BY <1>1 DEF treeVars, TreeInv, TreeTypeOK, SceneMatchesTree, Rooted,
     WellRooted, SharedAttachLink, Exists, Frames, FrameOf
<1>2. ASSUME NEW o \in Objects, NEW p \in Frames, CreateObject(o, p)
      PROVE  TreeInv'
  BY <1>2, CreateTreeInv
<1>3. ASSUME NEW o \in Objects, RemoveObject(o) PROVE TreeInv'
  BY <1>3, RemoveTreeInv
<1>4. CASE RemoveAllObjects
  BY <1>4, RemoveAllTreeInv
<1>5. ASSUME NEW o \in Objects, NEW p \in Frames,
             NEW leaf \in Objects \cup {NoObject},
             Foreign(o, p, leaf) /\ AttachObject(o, p, leaf)
      PROVE  TreeInv'
  BY <1>5, AttachTreeInv
<1>6. ASSUME NEW o \in Objects, NEW p \in Frames,
             NEW leaf \in Objects \cup {NoObject},
             Foreign(o, p, leaf) /\ DetachObject(o, p, leaf)
      PROVE  TreeInv'
  BY <1>6, DetachTreeInv
<1> QED BY <1>1, <1>2, <1>3, <1>4, <1>5, <1>6 DEF TreeNext

-----------------------------------------------------------------------------
(* The theorems.                                                           *)

\* The variables keep their types, MoveIt and _instance_props_dict know the
\* same objects, the parents form no cycle, and every attached object hangs
\* on the link of its parent, in every reachable state.
THEOREM TreeInvariant == TreeSpec => []TreeInv
<1> QED BY InitTreeInv, NextTreeInv, PTL DEF TreeSpec

\* The variables of the product tree keep their types.
THEOREM TreeTypeCorrect == TreeSpec => []TreeTypeOK
<1>1. TreeInv => TreeTypeOK
  BY DEF TreeInv
<1> QED BY <1>1, TreeInvariant, PTL

\* No operation of the collision object manager makes a cycle of parents.
THEOREM TreeIsRooted == TreeSpec => []Rooted
<1>1. TreeInv => Rooted
  BY DEF TreeInv
<1> QED BY <1>1, TreeInvariant, PTL

\* MoveIt and the manager know the same objects.
THEOREM SceneStaysInStep == TreeSpec => []SceneMatchesTree
<1>1. TreeInv => SceneMatchesTree
  BY DEF TreeInv
<1> QED BY <1>1, TreeInvariant, PTL

\* The attach link is the same all along a chain.
LEMMA ChainLink ==
  ASSUME TreeInv, NEW o \in Exists, NEW leaf, NEW r \in Chain(o, leaf)
  PROVE  link[r] = link[o]
<1>. DEFINE S == {c \in Objects : link[c] = link[o]}
            G == Climbing(leaf)
<1>1. o \in Objects /\ S \in SUBSET Objects /\ o \in S
  BY DEF TreeInv, TreeTypeOK, Exists
<1>2. ASSUME NEW x \in S \cap G PROVE parent[x] \in S
  <2>1. x \in attached /\ parent[x] \in Exists /\ parent[x] \in Objects
    BY DEF Climbing, TreeInv, TreeTypeOK, Exists
  <2>2. link[x] = link[parent[x]]
    BY <2>1, TreeAssumption DEF TreeInv, SharedAttachLink, Frames, FrameOf
  <2> QED BY <2>1, <2>2
<1>3. Chain(o, leaf) \subseteq S
  <2> HIDE DEF S
  <2> QED BY <1>1, <1>2, UpMinimal DEF Chain
<1> QED BY <1>3

\* Every object of a product points to the same outer link.
THEOREM ProductLinkShared == TreeSpec => []ProductSharesOuterLink
<1>1. ASSUME TreeInv PROVE ProductSharesOuterLink
  <2> SUFFICES ASSUME NEW o \in Exists,
                      NEW r \in Chain(o, NoObject) \ Climbing(NoObject)
               PROVE  /\ link[o] = link[r]
                      /\ r \in attached /\ parent[r] \in Links
                           => link[o] = parent[r]
    BY DEF ProductSharesOuterLink
  <2>1. link[r] = link[o]
    BY <1>1, ChainLink
  <2>2. r \in attached /\ parent[r] \in Links => link[r] = parent[r]
    BY <1>1 DEF TreeInv, SharedAttachLink, Frames, FrameOf
  <2> QED BY <2>1, <2>2
<1> QED BY <1>1, TreeInvariant, PTL

-----------------------------------------------------------------------------
(* Re-rooting keeps a product whole.                                       *)

\* At most one connection is cut and at most one is made.
KeptWhole ==
  /\ \A x, y \in Arcs \ Arcs' : x = y
  /\ \A x, y \in Arcs' \ Arcs : x = y

\* Only one object of a chain does not climb: its top.
LEMMA ChainTop ==
  ASSUME TreeInv, NEW o \in Exists, NEW leaf,
         NEW c \in Chain(o, leaf) \ Climbing(leaf),
         NEW d \in Chain(o, leaf) \ Climbing(leaf)
  PROVE  c = d
<1> DEFINE G == Climbing(leaf)
<1>1. o \in Objects /\ \A x \in Objects \cap G : parent[x] \in Objects
  BY ChainFacts DEF Exists, TreeInv, TreeTypeOK
<1>2. c \in Objects /\ d \in Objects
  BY <1>1, UpElement DEF Chain
<1>3. d \in Up(Objects, parent, G, c) \/ c \in Up(Objects, parent, G, d)
  BY <1>1, UpTotal DEF Chain
<1> QED BY <1>1, <1>2, <1>3, UpUnfold

\* The connections before and after attach_object or detach_object.
LEMMA RerootedArcs ==
  ASSUME TreeInv, NEW o \in Exists, NEW p \in Frames, NEW leaf,
         parent' = Rerooted(o, p, leaf), Exists' = Exists,
         attached' \subseteq attached \cup Chain(o, leaf),
         attached \cup Chain(o, leaf) \subseteq attached' \cup {o}
  PROVE  KeptWhole
<1> DEFINE C == Chain(o, leaf)
           G == Climbing(leaf)
<1>1. Exists \subseteq Objects /\ attached \subseteq Exists
  BY DEF Exists, TreeInv, TreeTypeOK
<1>2. /\ o \in C /\ C \subseteq Exists
      /\ \A x \in C \cap G : parent[x] \in C /\ parent[x] # o
  BY ChainFacts
<1>3. /\ parent'[o] = p
      /\ \A x \in Objects \ C : parent'[x] = parent[x]
      /\ \A x \in C \ {o} : parent'[x] \in C \cap G /\ parent[parent'[x]] = x
      /\ \A x \in C \cap G : parent'[parent[x]] = x
  <2> HIDE DEF C, G
  <2> QED BY RerootedFacts DEF C, G
<1>4. \A x, y \in C \ G : x = y
  BY ChainTop
<1> HIDE DEF C
<1>5. ASSUME NEW x \in attached, parent[x] \in Exists, x \notin C \ G
      PROVE  {x, parent[x]} \in Arcs'
  <2>1. CASE x \notin C
    <3>1. x \in attached' /\ parent'[x] = parent[x] /\ parent'[x] \in Exists'
      BY <1>1, <1>2, <1>3, <1>5, <2>1 DEF C
    <3> QED BY <3>1 DEF Arcs
  <2>2. CASE x \in C \cap G
    <3> DEFINE y == parent[x]
    <3>1. y \in attached' /\ parent'[y] = x /\ x \in Exists'
      BY <1>1, <1>2, <1>3, <2>2 DEF C
    <3>2. {y, x} \in Arcs'
      BY <3>1 DEF Arcs
    <3> QED BY <3>2
  <2> QED BY <1>5, <2>1, <2>2
<1>6. ASSUME NEW x \in attached', parent'[x] \in Exists', x # o
      PROVE  {x, parent'[x]} \in Arcs
  <2>1. CASE x \notin C
    <3>1. x \in attached /\ parent'[x] = parent[x] /\ parent[x] \in Exists
      BY <1>1, <1>3, <1>6, <2>1 DEF C
    <3> QED BY <3>1 DEF Arcs
  <2>2. CASE x \in C \ {o}
    <3> DEFINE d == parent'[x]
    <3>1. d \in attached /\ parent[d] = x /\ x \in Exists
      BY <1>2, <1>3, <2>2 DEF Climbing
    <3>2. {d, x} \in Arcs
      BY <3>1 DEF Arcs
    <3> QED BY <3>2
  <2> QED BY <1>6, <2>1, <2>2
<1>7. ASSUME NEW x \in Arcs \ Arcs', NEW y \in Arcs \ Arcs' PROVE x = y
  <2>1. PICK c \in attached : parent[c] \in Exists /\ x = {c, parent[c]}
    BY <1>7 DEF Arcs
  <2>2. PICK d \in attached : parent[d] \in Exists /\ y = {d, parent[d]}
    BY <1>7 DEF Arcs
  <2>3. c \in C \ G /\ d \in C \ G
    BY <1>5, <1>7, <2>1, <2>2
  <2> QED BY <1>4, <2>1, <2>2, <2>3
<1>8. ASSUME NEW x \in Arcs' \ Arcs, NEW y \in Arcs' \ Arcs PROVE x = y
  <2>1. PICK c \in attached' : parent'[c] \in Exists' /\ x = {c, parent'[c]}
    BY <1>8 DEF Arcs
  <2>2. PICK d \in attached' : parent'[d] \in Exists' /\ y = {d, parent'[d]}
    BY <1>8 DEF Arcs
  <2>3. c = o /\ d = o
    BY <1>6, <1>8, <2>1, <2>2
  <2> QED BY <2>1, <2>2, <2>3
<1> QED BY <1>7, <1>8 DEF KeptWhole

\* What a step of the manager cuts and makes.
LEMMA NextKeepsWhole ==
  ASSUME TreeInv, TreeNext, Exists \subseteq Exists'
  PROVE  KeptWhole
<1>1. ASSUME NEW o \in Objects, NEW p \in Frames, CreateObject(o, p)
      PROVE  KeptWhole
  <2>1. Arcs' = Arcs
    BY <1>1
    DEF CreateObject, Arcs, Exists, TreeInv, TreeTypeOK
  <2> QED BY <2>1 DEF KeptWhole
<1>2. ASSUME NEW o \in Objects, RemoveObject(o) PROVE KeptWhole
  BY <1>2 DEF RemoveObject, Exists
<1>3. CASE RemoveAllObjects
  BY <1>3 DEF RemoveAllObjects, Exists
<1>4. ASSUME NEW o \in Objects, NEW p \in Frames, NEW leaf,
             AttachObject(o, p, leaf)
      PROVE  KeptWhole
  <2>1. o \in Exists /\ Chain(o, leaf) \subseteq Exists
    BY <1>4, ChainFacts DEF AttachObject
  <2>2. Exists' = Exists
    BY <1>4, <2>1 DEF AttachObject, Exists
  <2> QED BY <1>4, <2>1, <2>2, RerootedArcs DEF AttachObject
<1>5. ASSUME NEW o \in Objects, NEW p \in Frames, NEW leaf,
             DetachObject(o, p, leaf)
      PROVE  KeptWhole
  <2>1. o \in Exists
    BY <1>5 DEF DetachObject, Exists
  <2>2. o \in Chain(o, leaf) /\ Chain(o, leaf) \subseteq Exists
    BY <2>1, ChainFacts
  <2>3. Exists' = Exists
    BY <1>5, <2>1, <2>2 DEF DetachObject, Exists
  <2>4. /\ attached' \subseteq attached \cup Chain(o, leaf)
        /\ attached \cup Chain(o, leaf) \subseteq attached' \cup {o}
    BY <1>5 DEF DetachObject
  <2> QED BY <1>5, <2>1, <2>3, <2>4, RerootedArcs DEF DetachObject
<1> QED BY <1>1, <1>2, <1>3, <1>4, <1>5 DEF TreeNext

\* Every attach and detach keeps all connections of the product but the one
\* to leaf, and makes none but the one to the new parent.
THEOREM ProductStaysWhole == TreeSpec => ProductKeptWhole
<1>1. TreeInv /\ [TreeNext]_treeVars
        => [Exists \subseteq Exists' =>
              /\ \A x, y \in Arcs \ Arcs' : x = y
              /\ \A x, y \in Arcs' \ Arcs : x = y]_treeVars
  BY NextKeepsWhole DEF KeptWhole
<1> QED BY <1>1, TreeInvariant, PTL DEF TreeSpec, ProductKeptWhole

=============================================================================
