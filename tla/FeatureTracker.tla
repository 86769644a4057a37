---------------------------- MODULE FeatureTracker ----------------------------
(***************************************************************************)
(* The KLT tracker follows features from image to image, replaces those    *)
(* that get lost, and draws the way each has come, which it keeps for some *)
(* frames in a ring.  One thread runs all of its callbacks.                *)
(*                                                                         *)
(* Images show one row of a scene that moves: the point p of the scene is  *)
(* at p + shift.  What is trackable there is any sequence of locations,    *)
(* the best first.                                                         *)
(***************************************************************************)
EXTENDS Integers, Sequences

CONSTANTS
  Columns,    \* width of the images
  Shifts,     \* by how much the scene may be shifted
  NFeatures, NFrames, MinDist

ASSUME FeatureTrackerAssumption ==
  /\ {Columns, NFeatures, NFrames, MinDist} \subseteq Nat \ {0}
  /\ NFrames > 1
  /\ Shifts \subseteq Nat /\ Shifts # {}

VARIABLES
  features,   \* _featureList
  table,      \* _featureTable
  frame,      \* _frame
  select, replace,
  consistency,   \* affineConsistencyCheck >= 0
  image,      \* the image in hand: what is to be done with it, and its shift
  pyramid,    \* shift of the image of which pyramid_last is, -1 if there is none
  jumped      \* history: the features were selected in an image whose shift
              \* was not that of pyramid_last

featureVars == <<features, table, frame, select, replace, consistency, image, pyramid, jumped>>

Indices == 1 .. NFeatures
Ring == 0 .. NFrames - 1

\* Of a feature the point of the scene is kept that is at its location, and of
\* aff_img, the image to check it by if there is one, that at its centre.
Columns0 == 0 .. Columns - 1
Points == {c - s : c \in Columns0, s \in Shifts} \cup {0}
Vals == {"selected", "tracked", "lost"}
FeatureLists == [Indices -> [val : Vals, point : Points, aff : SUBSET Points]]
Records == [Indices -> [val : Vals, point : Points]]
Lost == [val |-> "lost", point |-> 0, aff |-> {}]

FeatureTypeOK ==
  /\ features \in FeatureLists
  /\ table \in [Ring -> Records]
  /\ frame \in Ring
  /\ {select, replace, consistency, jumped} \subseteq BOOLEAN
  /\ image \in [at : {"none", "select", "fresh", "track"}, shift : Shifts]
  /\ pyramid \in Shifts \cup {-1}

NoFeatures == [j \in Indices |-> Lost]
NoRecords == [j \in Indices |-> [val |-> "lost", point |-> 0]]

FeatureInit ==
  /\ features = NoFeatures
  /\ table = [i \in Ring |-> NoRecords]
  /\ frame = 0
  /\ select = TRUE /\ replace = TRUE /\ consistency = FALSE
  /\ image = [at |-> "none", shift |-> CHOOSE s \in Shifts : TRUE]
  /\ pyramid = -1
  /\ jumped = FALSE

-----------------------------------------------------------------------------
\* select_cb, set_ctx_cb, set_window_radius_cb; set_param_cb for the sizes
SelectCB ==
  /\ image.at = "none"
  /\ select' = TRUE
  /\ consistency' \in BOOLEAN
  /\ UNCHANGED <<features, table, frame, replace, image, pyramid, jumped>>

\* set_param_cb for the other parameters takes a selection that was asked
\* for back.
SetParamCB ==
  /\ image.at = "none"
  /\ select' = FALSE
  /\ replace' \in BOOLEAN
  /\ UNCHANGED <<features, table, frame, consistency, image, pyramid, jumped>>

\* track_cb, track: the context is renewed when the size changes, of which
\* the first image is a case.
ImageCB ==
  /\ image.at = "none"
  /\ \E s \in Shifts, resized \in BOOLEAN :
       /\ pyramid = -1 => resized
       /\ pyramid' = IF resized THEN -1 ELSE pyramid
       /\ image' = [at |-> IF select \/ resized THEN "select" ELSE "track", shift |-> s]
  /\ UNCHANGED <<features, table, frame, select, replace, consistency, jumped>>

-----------------------------------------------------------------------------
(* _enforceMinimumDistance.                                                *)

Rankings ==
  {r \in UNION {[1 .. n -> Columns0] : n \in 0 .. Columns} :
     \A i, j \in DOMAIN r : r[i] = r[j] => i = j}

Alive(fs) == {j \in Indices : fs[j].val # "lost"}

\* featuremap is set around every feature there is.
Near(fs, p) ==
  \E j \in Alive(fs) : fs[j].point - p \in -(MinDist - 1) .. MinDist - 1

\* A point is taken for the first feature that is lost.
First(free) == CHOOSE j \in free : \A k \in free : j <= k

AddPoint(p, fs) ==
  LET free == Indices \ Alive(fs) IN
  IF free = {} \/ Near(fs, p)
    THEN fs
    ELSE [fs EXCEPT ![First(free)] = [val |-> "selected", point |-> p, aff |-> {}]]

EnforceMinimumDistance(ranking, shift, fs) ==
  LET taken[n \in 0 .. Len(ranking)] ==
        IF n = 0 THEN fs ELSE AddPoint(ranking[n] - shift, taken[n - 1])
  IN taken[Len(ranking)]

-----------------------------------------------------------------------------
\* KLTStoreFeatureList is called when the lost features have been replaced.
Recorded(fs) == [j \in Indices |-> [val |-> fs[j].val, point |-> fs[j].point]]
Stored_Before(before, after) == Recorded(before)
Stored(before, after) == Recorded(after)

\* selectGoodFeatures
SelectGoodFeatures ==
  /\ image.at = "select"
  /\ features' \in
       {EnforceMinimumDistance(ranking, image.shift, NoFeatures) : ranking \in Rankings}
  /\ frame' = 0
  /\ table' = [i \in Ring |-> IF i = 0 THEN Stored(features', features') ELSE NoRecords]
  /\ select' = FALSE
  /\ image' = [image EXCEPT !.at = "fresh"]
  /\ jumped' = (pyramid \notin {-1, image.shift})
  /\ UNCHANGED <<replace, consistency, pyramid>>

(* trackFeatures.                                                          *)

\* The first time that a feature is found an image of it is kept, which it is
\* checked against every other time, and lost if it does not agree.
Appearance(f, found) == IF consistency /\ f.aff = {} THEN {found} ELSE f.aff

\* KLTTrackFeatures takes the locations to be in the image of pyramid_last,
\* and looks for what is there in the image in hand.
Tracked(f) ==
  LET last == IF pyramid = -1 THEN image.shift ELSE pyramid
      located == IF image.at = "fresh" THEN image.shift ELSE last
      found == f.point + located - last IN
  IF f.val # "lost" /\ found + image.shift \in Columns0
    THEN [val |-> "tracked", point |-> found, aff |-> Appearance(f, found)]
    ELSE Lost

TrackFeatures(lost) == [j \in Indices |-> IF j \in lost THEN Lost ELSE Tracked(features[j])]

\* KLTReplaceLostFeatures
Replacements(fs) ==
  IF replace /\ Alive(fs) # Indices
    THEN {EnforceMinimumDistance(ranking, image.shift, fs) : ranking \in Rankings}
    ELSE {fs}

TrackAndReplace ==
  /\ image.at \in {"fresh", "track"}
  /\ frame' = (frame + 1) % NFrames
  /\ \E lost \in SUBSET Alive(features) :
       LET tracked == TrackFeatures(lost) IN
       /\ features' \in Replacements(tracked)
       /\ table' = [table EXCEPT ![frame'] = Stored(tracked, features')]
  /\ pyramid' = image.shift
  /\ image' = [image EXCEPT !.at = "none"]
  /\ UNCHANGED <<select, replace, consistency, jumped>>

FeatureNext ==
  SelectCB \/ SetParamCB \/ ImageCB \/ SelectGoodFeatures \/ TrackAndReplace

FeatureSpec == FeatureInit /\ [][FeatureNext]_featureVars

-----------------------------------------------------------------------------
\* operator()(i, j): feature j i frames ago
FrameBack(i) == (frame - i) % NFrames

\* track_cb: the way of a feature is drawn back to where it was selected, or as far
\* as it is recorded.
Drawn(j) ==
  {i \in Ring \ {0} : /\ features[j].val = "tracked"
                      /\ \A k \in 1 .. i - 1 : table[FrameBack(k)][j].val = "tracked"}

\* Whenever its way is drawn back from a feature that is there, for as long
\* as it was tracked and is recorded, no step goes to where the feature was
\* lost or was not yet recorded, nor to another point of the scene - the
\* last one perhaps, if the features were selected when the scene had moved.
\* An image that a feature is checked by is one of itself; and however features
\* are lost, tracked and replaced, no two are nearer to each other than the
\* minimum distance.
TracksAreOwn ==
  /\ image.at = "none" => \A j \in Alive(features) : \A i \in Drawn(j) :
       LET past == table[FrameBack(i)][j] IN
       /\ past.val # "lost"
       /\ past.point = features[j].point \/ (jumped /\ past.val = "selected")
  /\ \A j \in Indices : features[j].aff \subseteq {features[j].point}
  /\ \A j, k \in Alive(features) :
       j # k => features[j].point - features[k].point \notin -(MinDist - 1) .. MinDist - 1
=============================================================================
