------------------------- MODULE ContactRulesProofs -------------------------
(***************************************************************************)
(* What is connected may touch, for every set of objects and links and     *)
(* every sequence of operations.                                           *)
(***************************************************************************)
EXTENDS ContactRules, ProductTreeProofs

\* The inductive invariant: re-rooting has to be understood first, which is
\* what TreeInv is for.
ContactInv ==
  /\ TreeInv
  /\ ContactTypeOK
  /\ ConnectedMayTouch

-----------------------------------------------------------------------------
(* Every operation of the contact rules is one of the tree or leaves it.   *)

\* A step of the contact rules is a step of the tree, seen from the tree.
LEMMA ContactStepIsTreeStep == [ContactNext]_contactVars => [TreeNext]_treeVars
<1>. SUFFICES ASSUME ContactNext PROVE TreeNext \/ UNCHANGED treeVars
  BY DEF contactVars
<1>1. ASSUME NEW o \in Objects, NEW p \in Frames, CreateObjectAndReset(o, p)
      PROVE  TreeNext
  BY <1>1 DEF CreateObjectAndReset, TreeNext
<1>2. ASSUME NEW o \in Objects, RemoveObjectAndTouch(o) PROVE TreeNext
  BY <1>2 DEF RemoveObjectAndTouch, TreeNext
<1>3. CASE RemoveAllAndTouch
  BY <1>3 DEF RemoveAllAndTouch, TreeNext
<1>4. ASSUME NEW o \in Objects, NEW p \in Frames, NEW leaf \in Objects \cup {NoObject},
             Foreign(o, p, leaf), AttachAndTouch(o, p, leaf)
      PROVE  TreeNext
  BY <1>4 DEF AttachAndTouch, TreeNext
<1>5. ASSUME NEW o \in Objects, NEW p \in Frames, NEW leaf \in Objects \cup {NoObject},
             Foreign(o, p, leaf), DetachAndTouch(o, p, leaf)
      PROVE  TreeNext
  BY <1>5 DEF DetachAndTouch, TreeNext
<1>6. ASSUME NEW o \in Objects, NEW f \in Frames,
             AllowCollision(o, f) \/ DisallowCollision(o, f)
      PROVE  UNCHANGED treeVars
  BY <1>6 DEF AllowCollision, DisallowCollision
<1>7. ASSUME NEW o \in Objects, ResetCollision(o) PROVE UNCHANGED treeVars
  BY <1>7 DEF ResetCollision
<1>. QED
  BY <1>1, <1>2, <1>3, <1>4, <1>5, <1>6, <1>7 DEF ContactNext

\* The touch links of a frame.
LEMMA TouchOfType ==
  ASSUME NEW f \in Objects \cup Links
  PROVE  TouchOf(f) \in SUBSET (Objects \cup Links)
BY TouchAssumption DEF TouchOf

\* What the entries of the ACM are about.
Pairs == {{a, b} : a \in Objects, b \in Objects \cup Links}

\* The ACM only gets pairs of an object and a frame.
LEMMA AcmTypes ==
  ASSUME NEW m \in SUBSET Pairs,
         NEW o \in Objects, NEW others \in SUBSET (Objects \cup Links)
  PROVE  /\ AcmCleared(m, o) \subseteq m
         /\ AcmWithout(m, o, others) \subseteq m
         /\ AcmWith(m, o, others) \subseteq Pairs
BY DEF AcmCleared, AcmWithout, AcmWith, Pairs

\* After attach_object or detach_object has gone through the descendants of
\* o, every attached object has its parent among its touch links: the ones
\* with a new parent are all visited, because the reversed chain lies below
\* o, and the others keep both.
LEMMA RetouchedFacts ==
  ASSUME ContactInv, NEW o \in Exists, NEW p \in Frames, NEW leaf,
         Foreign(o, p, leaf),
         parent' = Rerooted(o, p, leaf),
         attached' \in SUBSET Objects,
         attached' \subseteq attached \cup Chain(o, leaf),
         attached \cup Chain(o, leaf) \subseteq attached' \cup {o}
  PROVE  /\ Retouched(o) \in [Objects -> SUBSET (Objects \cup Links)]
         /\ \A x \in attached' : TouchOf(parent'[x]) \subseteq Retouched(o)[x]
<1>. DEFINE C == Chain(o, leaf)
            D == Subtree(parent', attached', o)
<1>1. TreeInv /\ p \in Objects \cup Links
  BY DEF ContactInv, Frames, Exists, TreeInv, TreeTypeOK
<1>2. /\ parent'[o] = p
      /\ \A x \in Objects \ C : parent'[x] = parent[x]
      /\ \A x \in C \ {o} : parent'[x] \in C
      /\ o \in C /\ C \subseteq Objects
  <2>. HIDE DEF D
  <2>. QED
    BY <1>1, RerootedFacts, ChainFacts DEF Exists, TreeInv, TreeTypeOK
<1>3. D \subseteq Objects /\ C \subseteq D /\ \A x \in D \ {o} : x \in attached'
  <2>. HIDE DEF C, D
  <2>. QED
    BY <1>1, SubtreeFacts DEF C, D
<1>4. Retouched(o) = [x \in Objects |-> IF x \in D THEN TouchOf(parent'[x]) ELSE touch[x]]
  BY DEF Retouched
<1>. HIDE DEF C, D
<1>5. ASSUME NEW x \in Objects
      PROVE  Retouched(o)[x] \in SUBSET (Objects \cup Links)
  <2>1. CASE x \in D
    <3>1. parent'[x] \in Objects \cup Links
      <4>1. CASE x \in C
        BY <1>1, <1>2, <4>1
      <4>2. CASE x \notin C
        <5>1. x \in attached /\ parent'[x] = parent[x]
          BY <1>2, <1>3, <2>1, <4>2 DEF C
        <5>2. parent[x] \in Objects \cup Links
          BY <1>1, <5>1 DEF TreeInv, TreeTypeOK, SceneMatchesTree, Exists
        <5>. QED
          BY <5>1, <5>2
      <4>. QED
        BY <4>1, <4>2
    <3>. QED
      BY <1>4, <2>1, <3>1, TouchOfType
  <2>2. CASE x \notin D
    BY <1>4, <2>2 DEF ContactInv, ContactTypeOK
  <2>. QED
    BY <2>1, <2>2
<1>6. ASSUME NEW x \in attached' PROVE TouchOf(parent'[x]) \subseteq Retouched(o)[x]
  <2>1. CASE x \in D
    BY <1>4, <2>1
  <2>2. CASE x \notin D
    <3>1. x \in attached /\ parent'[x] = parent[x]
      BY <1>2, <1>3, <2>2 DEF C
    <3>. QED
      BY <1>4, <2>2, <3>1 DEF ContactInv, ConnectedMayTouch, ParentTouch
  <2>. QED
    BY <2>1, <2>2
<1>. QED
  BY <1>4, <1>5, <1>6

\* Every step keeps the invariant.
LEMMA NextContactInv == ContactInv /\ [ContactNext]_contactVars => ContactInv'
<1>. SUFFICES ASSUME ContactInv, [ContactNext]_contactVars PROVE ContactInv'
  OBVIOUS
<1>1. TreeInv'
  BY NextTreeInv, ContactStepIsTreeStep DEF ContactInv
<1>2. TreeTypeOK' /\ TreeTypeOK /\ attached \subseteq Exists
  BY <1>1 DEF TreeInv, ContactInv, Exists
<1>. SUFFICES /\ touch' \in [Objects -> SUBSET (Objects \cup Links)]
              /\ acm' \subseteq Pairs
              /\ \A x \in attached' : TouchOf(parent'[x]) \subseteq touch'[x]
  BY <1>1, <1>2 DEF ContactInv, ContactTypeOK, ConnectedMayTouch, ParentTouch, TouchOf,
     Pairs
<1>3. /\ touch \in [Objects -> SUBSET (Objects \cup Links)]
      /\ acm \in SUBSET Pairs
      /\ \A x \in attached : TouchOf(parent[x]) \subseteq touch[x]
      /\ attached \subseteq Objects
      /\ parent \in [Objects -> Objects \cup Links \cup {NoObject}]
  BY <1>2 DEF ContactInv, ContactTypeOK, ConnectedMayTouch, ParentTouch, TreeTypeOK,
     Pairs
<1>4. Frames \subseteq Objects \cup Links /\ Exists \subseteq Objects
  BY <1>2 DEF Frames, Exists, TreeTypeOK
<1>5. ASSUME NEW o \in Objects, NEW p \in Frames, CreateObjectAndReset(o, p)
      PROVE  /\ touch' \in [Objects -> SUBSET (Objects \cup Links)]
             /\ acm' \subseteq Pairs
             /\ \A x \in attached' : TouchOf(parent'[x]) \subseteq touch'[x]
  BY <1>2, <1>3, <1>5 DEF CreateObjectAndReset, CreateObject, AcmCleared, Exists
<1>6. ASSUME NEW o \in Objects, RemoveObjectAndTouch(o)
      PROVE  /\ touch' \in [Objects -> SUBSET (Objects \cup Links)]
             /\ acm' \subseteq Pairs
             /\ \A x \in attached' : TouchOf(parent'[x]) \subseteq touch'[x]
  BY <1>2, <1>3, <1>6 DEF RemoveObjectAndTouch, RemoveObject
<1>7. CASE RemoveAllAndTouch
  BY <1>3, <1>7 DEF RemoveAllAndTouch, RemoveAllObjects
<1>8. ASSUME NEW o \in Objects, NEW p \in Frames, NEW leaf \in Objects \cup {NoObject},
             Foreign(o, p, leaf), AttachAndTouch(o, p, leaf)
      PROVE  /\ touch' \in [Objects -> SUBSET (Objects \cup Links)]
             /\ acm' \subseteq Pairs
             /\ \A x \in attached' : TouchOf(parent'[x]) \subseteq touch'[x]
  <2>1. /\ o \in Exists
        /\ parent' = Rerooted(o, p, leaf)
        /\ attached' = attached \cup Chain(o, leaf)
        /\ touch' = Retouched(o) /\ acm' = acm
    BY <1>8 DEF AttachAndTouch, AttachObject
  <2>2. attached' \in SUBSET Objects
    BY <1>2 DEF TreeTypeOK
  <2>3. /\ Retouched(o) \in [Objects -> SUBSET (Objects \cup Links)]
        /\ \A x \in attached' : TouchOf(parent'[x]) \subseteq Retouched(o)[x]
    BY <1>8, <2>1, <2>2, RetouchedFacts
  <2>. QED
    BY <1>3, <2>1, <2>3
<1>9. ASSUME NEW o \in Objects, NEW p \in Frames, NEW leaf \in Objects \cup {NoObject},
             Foreign(o, p, leaf), DetachAndTouch(o, p, leaf)
      PROVE  /\ touch' \in [Objects -> SUBSET (Objects \cup Links)]
             /\ acm' \subseteq Pairs
             /\ \A x \in attached' : TouchOf(parent'[x]) \subseteq touch'[x]
  <2>1. /\ o \in Exists
        /\ parent' = Rerooted(o, p, leaf)
        /\ attached' = (attached \cup Chain(o, leaf)) \ {o}
        /\ touch' = [Retouched(o) EXCEPT ![o] = {}] /\ acm' = acm
    BY <1>2, <1>9 DEF DetachAndTouch, DetachObject
  <2>2. attached' \in SUBSET Objects
    BY <1>2 DEF TreeTypeOK
  <2>3. /\ Retouched(o) \in [Objects -> SUBSET (Objects \cup Links)]
        /\ \A x \in attached' : TouchOf(parent'[x]) \subseteq Retouched(o)[x]
    BY <1>9, <2>1, <2>2, RetouchedFacts
  <2>. QED
    BY <1>3, <2>1, <2>2, <2>3
<1>10. ASSUME NEW o \in Objects, NEW f \in Frames, AllowCollision(o, f)
       PROVE  /\ touch' \in [Objects -> SUBSET (Objects \cup Links)]
              /\ acm' \subseteq Pairs
              /\ \A x \in attached' : TouchOf(parent'[x]) \subseteq touch'[x]
  <2>1. TouchOf(f) \in SUBSET (Objects \cup Links)
    BY <1>4, TouchOfType
  <2>2. acm' \subseteq Pairs
    <3>1. AcmWith(acm, o, TouchOf(f)) \subseteq Pairs
      BY <1>3, <2>1, AcmTypes
    <3>. QED
      BY <1>3, <1>10, <3>1 DEF AllowCollision
  <2>. QED
    BY <1>3, <1>10, <2>1, <2>2 DEF AllowCollision, treeVars
<1>11. ASSUME NEW o \in Objects, NEW f \in Frames, DisallowCollision(o, f)
       PROVE  /\ touch' \in [Objects -> SUBSET (Objects \cup Links)]
              /\ acm' \subseteq Pairs
              /\ \A x \in attached' : TouchOf(parent'[x]) \subseteq touch'[x]
  <2>1. acm' \subseteq Pairs
    BY <1>3, <1>11 DEF DisallowCollision, AcmWithout
  <2>. QED
    BY <1>3, <1>11, <2>1 DEF DisallowCollision, ParentTouch, treeVars
<1>12. ASSUME NEW o \in Objects, ResetCollision(o)
       PROVE  /\ touch' \in [Objects -> SUBSET (Objects \cup Links)]
              /\ acm' \subseteq Pairs
              /\ \A x \in attached' : TouchOf(parent'[x]) \subseteq touch'[x]
  <2>1. ParentTouch(o) \in SUBSET (Objects \cup Links)
    <3>1. parent[o] \in Objects \cup Links
      BY <1>3, <1>12 DEF ResetCollision, ContactInv, TreeInv, SceneMatchesTree
    <3>. QED
      BY <3>1, TouchOfType DEF ParentTouch
  <2>2. AcmCleared(acm, o) \in SUBSET Pairs
    BY <1>3 DEF AcmCleared
  <2>3. acm' \subseteq Pairs
    <3>1. AcmWith(AcmCleared(acm, o), o, ParentTouch(o)) \subseteq Pairs
      BY <2>1, <2>2, AcmTypes
    <3>. QED
      BY <1>12, <2>2, <3>1 DEF ResetCollision
  <2>. QED
    BY <1>3, <1>12, <2>1, <2>3 DEF ResetCollision, ParentTouch, treeVars
<1>13. CASE UNCHANGED contactVars
  BY <1>3, <1>13 DEF contactVars, treeVars
<1>. QED
  BY <1>5, <1>6, <1>7, <1>8, <1>9, <1>10, <1>11, <1>12, <1>13 DEF ContactNext

-----------------------------------------------------------------------------
\* The inductive invariant of the contact rules.
THEOREM ContactInvariant == ContactSpec => []ContactInv
<1>1. ContactInit => ContactInv
  BY InitTreeInv DEF ContactInit, TreeInit, ContactInv, ContactTypeOK,
     ConnectedMayTouch, TreeInv
<1>. QED
  BY <1>1, NextContactInv, PTL DEF ContactSpec

\* Touch links and the ACM keep their types.
THEOREM ContactTypeCorrect == ContactSpec => []ContactTypeOK
<1>1. ContactInv => ContactTypeOK
  BY DEF ContactInv
<1>. QED
  BY <1>1, ContactInvariant, PTL

\* What is connected in a product may touch, however the product has been
\* re-rooted, attached and cut and whatever contacts were allowed, disallowed
\* and reset in between.
THEOREM ConnectedPartsMayTouch == ContactSpec => []ConnectedMayTouch
<1>1. ContactInv => ConnectedMayTouch
  BY DEF ContactInv
<1>. QED
  BY <1>1, ContactInvariant, PTL

=============================================================================
