------------------------------ MODULE MarkerPose ------------------------------
(***************************************************************************)
(* How the pose of a marker is computed from the depths seen in it, and    *)
(* what is published of the markers that several cameras see.              *)
(*                                                                         *)
(* Corners of markers are in halves of a pixel.  Rotations are those of a  *)
(* cube.                                                                   *)
(***************************************************************************)
EXTENDS DepthImages, Sequences
LOCAL INSTANCE FiniteSets
LOCAL INSTANCE FiniteSetsExt
LOCAL INSTANCE SequencesExt

Add(x, y) == [i \in 1 .. 3 |-> x[i] + y[i]]
Origin == <<0, 0, 0>>

-----------------------------------------------------------------------------
(* Plane.  It is { p : normal . p + distance / count = 0 }.                *)

\* fit: there are several results if the points are on a line, and none if
\* there are less than three.
FitPlane(points) ==
  LET m == Total(DOMAIN points, LAMBDA i : Moments(points[i]))
      PlaneOf(e) == [normal |-> e, distance |-> -Dot(e, <<m[2], m[3], m[4]>>), count |-> m[1]]
      Towards(plane) ==   \* the side of the origin
        IF plane.distance < 0
          THEN [plane EXCEPT !.normal = Times(-1, @), !.distance = -@] ELSE plane
  IN  IF Cardinality(DOMAIN points) < 3 THEN {}
      ELSE {Towards(PlaneOf(e)) : e \in LeastDirections(m)}

CloseTo(plane, p, tolerance) ==
  LET s == plane.count * Dot(plane.normal, p) + plane.distance
  IN  s * s < tolerance^2 * plane.count^2 * Dot(plane.normal, plane.normal)

\* The point on the plane is n / d of the ray.
CrossPoint(plane, ray) ==
  [ray |-> ray, n |-> -plane.distance, d |-> plane.count * Dot(plane.normal, ray)]

-----------------------------------------------------------------------------
(* get_marker_corners                                                      *)

PointAt(cam, depth, u, v) ==
  IF <<u, v>> \notin PixelsOf(depth.width, depth.height) THEN Origin
  ELSE Times(ValueAt(depth, u, v), Ray(cam, u, v))

\* The first of the pixels around the location that is seen.
PointNear(cam, depth, at) ==
  LET lo == [i \in 1 .. 2 |-> at[i] \div 2]
      hi == [i \in 1 .. 2 |-> (at[i] + 1) \div 2]
      seen == SelectSeq(<<PointAt(cam, depth, lo[1], lo[2]), PointAt(cam, depth, hi[1], lo[2]),
                          PointAt(cam, depth, lo[1], hi[2]), PointAt(cam, depth, hi[1], hi[2])>>,
                        LAMBDA p : p[3] # Invalid)
  IN  IF seen = << >> THEN Origin ELSE Head(seen)

BoxOf(marker) ==
  LET Low(i) == Min({marker[j][i] : j \in 1 .. 4}) \div 2
      High(i) == (Max({marker[j][i] : j \in 1 .. 4}) + 1) \div 2
  IN  (Low(1) .. High(1)) \X (Low(2) .. High(2))

CornerPoints(cam, depth, marker) ==
  [j \in {i \in 1 .. 4 : PointNear(cam, depth, marker[i])[3] # Invalid} |->
     PointNear(cam, depth, marker[j])]

Inliers(cam, depth, marker, plane, tolerance) ==
  [px \in {q \in BoxOf(marker) : LET p == PointAt(cam, depth, q[1], q[2]) IN
                                   p[3] # Invalid /\ CloseTo(plane, p, tolerance)} |->
     PointAt(cam, depth, px[1], px[2])]

\* All four corners, or none if a plane cannot be fitted.
MarkerCorners(cam, depth, marker, tolerance) ==
  LET first == FitPlane(CornerPoints(cam, depth, marker))
      Second(plane) == FitPlane(Inliers(cam, depth, marker, plane, tolerance))
      ViewVector(at) == <<at[1] - 2 * cam.cx, at[2] - 2 * cam.cy, 2 * cam.f>>
      Of(plane) == [j \in 1 .. 4 |-> CrossPoint(plane, ViewVector(marker[j]))]
      Through(p) == IF Second(p) = {} THEN {<< >>} ELSE {Of(q) : q \in Second(p)}
  IN  IF first = {} THEN {<< >>} ELSE UNION {Through(p) : p \in first}

-----------------------------------------------------------------------------
(* Rigidity, Similarity.  Sums over the n pairs are not divided by n.      *)

Matrices == {[i \in 1 .. 3 |-> [j \in 1 .. 3 |-> IF j = p[i] THEN s[i] ELSE 0]] :
               p \in {q \in [1 .. 3 -> 1 .. 3] : Cardinality({q[i] : i \in 1 .. 3}) = 3},
               s \in [1 .. 3 -> {-1, 1}]}
Det(M) == MapThenSumSet(LAMBDA k :
            LET a == (k % 3) + 1   b == (a % 3) + 1 IN
            M[1][k] * (M[2][a] * M[3][b] - M[2][b] * M[3][a]), 1 .. 3)
Rotations == {M \in Matrices : Det(M) = 1}
Apply(M, x) == [i \in 1 .. 3 |-> Dot(M[i], x)]

SumFirst(pairs) == FoldSeq(LAMBDA q, s : Add(q[1], s), Origin, pairs)
SumSecond(pairs) == FoldSeq(LAMBDA q, s : Add(q[2], s), Origin, pairs)

\* The moments, and what their singular values add up to if R is V U^T: the
\* most, for the right one.
MomentsOf(pairs) ==
  LET n == Len(pairs)
      xc == SumFirst(pairs)
      yc == SumSecond(pairs)
      Dx(k) == Add(Times(n, pairs[k][1]), Times(-1, xc))
      Dy(k) == Add(Times(n, pairs[k][2]), Times(-1, yc))
  IN  [i \in 1 .. 3 |-> [j \in 1 .. 3 |->
         MapThenSumSet(LAMBDA k : Dx(k)[i] * Dy(k)[j], 1 .. n)]]

Agreement(R, M) == MapThenSumSet(LAMBDA i : Dot(R[i], [j \in 1 .. 3 |-> M[j][i]]), 1 .. 3)

MostAgreeing(S, M) ==
  LET most == Max({Agreement(R, M) : R \in S}) IN {R \in S : Agreement(R, M) = most}
Best_OfAll(M) == MostAgreeing(Matrices, M)
Best(M) == MostAgreeing(Rotations, M)   \* U and V are given positive determinants

Spread(pairs) ==
  LET n == Len(pairs)
      Of(k) == Add(Times(n, pairs[k][1]), Times(-1, SumFirst(pairs)))
  IN  MapThenSumSet(LAMBDA k : Dot(Of(k), Of(k)), 1 .. n)

\* A pose is R and the translation t / by.
RigidityFit(pairs) ==
  {[R |-> R, by |-> Len(pairs),
    t |-> Add(SumSecond(pairs), Times(-1, Apply(R, SumFirst(pairs))))] : R \in Best(MomentsOf(pairs))}

\* The scale is the agreement by the spread; the translation is divided by it.
SimilarityFit(pairs) ==
  {LET s == Agreement(R, MomentsOf(pairs))
       d == Spread(pairs)
   IN  [R |-> R, by |-> Len(pairs) * s,
        t |-> Add(Times(d, SumSecond(pairs)), Times(-s, Apply(R, SumFirst(pairs))))] :
    R \in Best(MomentsOf(pairs))}

\* publish_transform: the transform is seen from the left one of two cameras.
\* Nothing is published of less than three pairs.
Transforms(useSimilarity, pairs, rightToLeft) ==
  IF Len(pairs) < 3 THEN {}
  ELSE {[pose EXCEPT !.t = Add(Times(pose.by, rightToLeft), @)] :
          pose \in IF useSimilarity THEN SimilarityFit(pairs) ELSE RigidityFit(pairs)}

\* detect_marker: of each marker its id and the corners found are known; map
\* gives the corners of the markers in the frame of all.
PairsOf(markers, map) ==
  FoldSeq(LAMBDA m, s : IF m.id \notin DOMAIN map \/ Len(m.corners) < 4 THEN s
                        ELSE [j \in 1 .. 4 |-> <<map[m.id][j], m.corners[j]>>] \o s,
          << >>, markers)

OwnCorners(half) == <<<<-half, -half, 0>>, <<-half, half, 0>>, <<half, half, 0>>, <<half, -half, 0>>>>

-----------------------------------------------------------------------------
(* image_cb of the detector for several cameras.  Of the images of a tuple *)
(* only its time matters, and which of them are detected.                  *)

ImagesCB(st, time, fails) ==
  LET Failed == {k \in DOMAIN st.correspondences : fails[k]}
      first == IF Failed = {} THEN Len(st.correspondences) + 1 ELSE Min(Failed)
      new == [k \in DOMAIN st.correspondences |->
                IF k < first THEN time ELSE st.correspondences[k]]
  IN  [correspondences |-> new,
       published |-> IF Failed = {} THEN Append(st.published, new) ELSE st.published]

-----------------------------------------------------------------------------
(* Checks.                                                                 *)

\* On a marker in a plane the corners found are where the rays meet the plane,
\* though something that is not a corner hides a part of the marker and another
\* part is not seen; they are found iff there are three corners to begin with.
CornersFound(cam, e, k, marker, hidden) ==
  LET plane == PlaneSeen(cam, e, k, 7, 6, 0)
      depth == EachValue(plane, LAMBDA u, v, p :
                 IF <<u, v>> \in hidden /\ p > 1
                      /\ \A j \in 1 .. 4 : \E i \in {1, 2} : Apart(2 * <<u, v>>[i] - marker[j][i]) > 1
                   THEN p - 1 ELSE p)
      seen == CornerPoints(cam, depth, marker)
      found == MarkerCorners(cam, depth, marker, 1)
  IN /\ Cardinality(DOMAIN seen) < 3 => found = {<< >>}
     /\ Cardinality(DOMAIN seen) >= 3
          /\ Cardinality({p.normal : p \in FitPlane(seen)}) = 1 =>
          /\ found # {}
          /\ \A corners \in found :
               /\ Len(corners) = 4
               /\ \A j \in 1 .. 4 :
                    LET at == marker[j]
                        p == PointAt(cam, depth, at[1] \div 2, at[2] \div 2)
                    IN  /\ corners[j].n * Dot(e, corners[j].ray) = cam.f * k * corners[j].d
                        /\ at[1] % 2 = 0 /\ at[2] % 2 = 0 /\ p # Origin =>
                             Times(corners[j].n, corners[j].ray) = Times(corners[j].d, p)

\* The pose published is that of the markers seen, whichever these are; with a
\* similarity it is so although all depths are s times too large.
PoseFound(R, t, s, useSimilarity, visible, map) ==
  LET Seen(id) == [id |-> Apart(id), corners |->
                     IF id < 0 THEN << >>   \* no plane is found
                     ELSE IF id \notin DOMAIN map THEN OwnCorners(3)
                     ELSE [j \in 1 .. 4 |-> Times(s, Add(Apply(R, map[id][j]), t))]]
      pairs == PairsOf([i \in DOMAIN visible |-> Seen(visible[i])], map)
      published == Transforms(useSimilarity, pairs, <<2, 0, 0>>)
  IN /\ published = {} <=> \A i \in DOMAIN visible : visible[i] \notin DOMAIN map
     /\ s = 1 \/ useSimilarity =>
          \A pose \in published :
            pose.R = R /\ pose.t = Times(pose.by, Add(t, <<2, 0, 0>>))

\* All that is published together was seen together.
SeenTogether(n, fails) ==
  LET after[k \in 0 .. Len(fails)] ==
        IF k = 0 THEN [correspondences |-> [c \in 1 .. n |-> 0], published |-> << >>]
        ELSE ImagesCB(after[k - 1], k, fails[k])
      published == after[Len(fails)].published
  IN \A i \in DOMAIN published : \A c, d \in 1 .. n : published[i][c] = published[i][d]
=============================================================================
