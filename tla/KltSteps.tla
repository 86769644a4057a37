------------------------------- MODULE KltSteps -------------------------------
(***************************************************************************)
(* How the KLT library moves one window over an image until it shows what  *)
(* it showed in the image before, and the equations it solves for that.    *)
(*                                                                         *)
(* Locations are in halves of a pixel, and values are rounded down to      *)
(* integers, where the code computes with floats.                          *)
(***************************************************************************)
EXTENDS KltImages
LOCAL INSTANCE FiniteSetsExt

Window(hw) == (-hw .. hw) \X (-hw .. hw)
SumOver(w) == MapThenSumSet(LAMBDA o : w[o], DOMAIN w)
Magnitude(x) == IF x < 0 THEN -x ELSE x

\* _interpolate; it fails unless the four pixels are in the image.
Interpolated(img, x, y) ==
  LET xt == x \div 2   yt == y \div 2
      ax == x % 2      ay == y % 2
  IN ((2 - ax) * (2 - ay) * img[xt, yt] + ax * (2 - ay) * img[xt + 1, yt]
      + (2 - ax) * ay * img[xt, yt + 1] + ax * ay * img[xt + 1, yt + 1]) \div 4

WindowAt(img, p, hw) ==
  [o \in Window(hw) |-> Interpolated(img, p[1] + 2 * o[1], p[2] + 2 * o[2])]

\* Of an image its values and gradients are used: [val, gx, gy].
IntensityDifference(im1, im2, p1, p2, hw) ==
  LET w1 == WindowAt(im1.val, p1, hw)
      w2 == WindowAt(im2.val, p2, hw)
  IN  [o \in Window(hw) |-> w1[o] - w2[o]]

GradientSum(g1, g2, p1, p2, hw) ==
  LET w1 == WindowAt(g1, p1, hw)
      w2 == WindowAt(g2, p2, hw)
  IN  [o \in Window(hw) |-> w1[o] + w2[o]]

\* Insensitive to lighting: alpha is the root of the ratio of the mean squares,
\* for the gradients that of the means.  The difference is times the pixels.
RootOf(n, d) == CHOOSE r \in 0 .. n : r * r * d = n
IntensityDifferenceInsensitive(im1, im2, p1, p2, hw) ==
  LET w1 == WindowAt(im1.val, p1, hw)
      w2 == WindowAt(im2.val, p2, hw)
      Squares(w) == SumOver([o \in Window(hw) |-> w[o] * w[o]])
      alpha == RootOf(Squares(w1), Squares(w2))
      belta == SumOver(w1) - alpha * SumOver(w2)
  IN  [o \in Window(hw) |-> (2 * hw + 1)^2 * (w1[o] - alpha * w2[o]) - belta]

GradientSumInsensitive(g1, g2, im1, im2, p1, p2, hw) ==
  LET alpha == RootOf(SumOver(WindowAt(im1.val, p1, hw)), SumOver(WindowAt(im2.val, p2, hw)))
      w1 == WindowAt(g1, p1, hw)
      w2 == WindowAt(g2, p2, hw)
  IN  [o \in Window(hw) |-> w1[o] + alpha * w2[o]]

\* _compute2by2GradientMatrix, _compute2by1ErrorVector, _solveEquation
Products(v, w) == SumOver([o \in DOMAIN v |-> v[o] * w[o]])
GradientMatrix(gx, gy) ==
  [xx |-> Products(gx, gx), xy |-> Products(gx, gy), yy |-> Products(gy, gy)]
ErrorVector(diff, gx, gy, step) == <<step * Products(diff, gx), step * Products(diff, gy)>>

SolveEquation(G, e, small) ==
  LET det == G.xx * G.yy - G.xy * G.xy IN
  IF det < small
    THEN [status |-> "small_det", move |-> <<0, 0>>]
    ELSE [status |-> "tracked",
          move |-> <<(2 * (G.yy * e[1] - G.xy * e[2])) \div det,
                     (2 * (G.xx * e[2] - G.xy * e[1])) \div det>>]

-----------------------------------------------------------------------------
(* _trackFeature.  par: hw, step, maxIterations, small, th, maxResidue.    *)

WindowOut(img, p, hw) ==
  \/ \E k \in {1, 2} : p[k] < 2 * hw
  \/ p[1] + 2 * hw + 2 >= 2 * NCols(img)
  \/ p[2] + 2 * hw + 2 >= 2 * NRows(img)

Residue(diff) == SumOver([o \in DOMAIN diff |-> Magnitude(diff[o])])

Displacement(im1, im2, p1, p2, par) ==
  LET diff == IntensityDifference(im1, im2, p1, p2, par.hw)
      gx == GradientSum(im1.gx, im2.gx, p1, p2, par.hw)
      gy == GradientSum(im1.gy, im2.gy, p1, p2, par.hw)
  IN  SolveEquation(GradientMatrix(gx, gy), ErrorVector(diff, gx, gy, par.step), par.small)

\* A window that cannot be moved stays; one that rests is done.
MovedBy(st, d, par) ==
  IF d.status = "small_det"
    THEN [st EXCEPT !.status = "small_det", !.go = FALSE]
    ELSE [at |-> <<st.at[1] + d.move[1], st.at[2] + d.move[2]>>,
          status |-> "tracked", n |-> st.n + 1,
          go |-> /\ \E k \in {1, 2} : Magnitude(d.move[k]) >= par.th
                 /\ st.n + 1 < par.maxIterations]

Iterate(im1, im2, p1, st, par) ==
  IF WindowOut(im1.val, p1, par.hw) \/ WindowOut(im1.val, st.at, par.hw)
    THEN [st EXCEPT !.status = "oob", !.go = FALSE]
    ELSE MovedBy(st, Displacement(im1, im2, p1, st.at, par), par)

\* A window that is out in the end is lost as such whatever has happened before,
\* and one that came to rest only in the last iteration for their number.
TrackingEnded(im1, im2, p1, end, par) ==
  LET Out == WindowOut(im1.val, p1, par.hw) \/ WindowOut(im1.val, end.at, par.hw)
      Large == Residue(IntensityDifference(im1, im2, p1, end.at, par.hw))
                 > par.maxResidue * (2 * par.hw + 1)^2
  IN  [at |-> end.at,
       status |-> IF Out THEN "oob"
                  ELSE IF end.status # "tracked" THEN end.status
                  ELSE IF Large THEN "large_residue"
                  ELSE IF end.n >= par.maxIterations THEN "max_iterations"
                  ELSE "tracked"]

TrackFeature(im1, im2, p1, p2, par) ==
  LET pass[k \in 0 .. par.maxIterations] ==
        IF k = 0 THEN [at |-> p2, status |-> "tracked", n |-> 0, go |-> TRUE]
        ELSE IF pass[k - 1].go THEN Iterate(im1, im2, p1, pass[k - 1], par)
        ELSE pass[k - 1]
  IN  TrackingEnded(im1, im2, p1, pass[par.maxIterations], par)

\* KLTTrackFeatures for one feature: from the coarsest level to the finest, which
\* alone decides unless a level above loses the window.
KeptInBorder(found, img, border) ==
  LET OutOfBounds == \/ \E k \in {1, 2} : found.at[k] < 2 * border
                     \/ found.at[1] > 2 * (NCols(img) - 1 - border)
                     \/ found.at[2] > 2 * (NRows(img) - 1 - border)
  IN  IF found.status # "oob" /\ OutOfBounds THEN [found EXCEPT !.status = "oob"] ELSE found

TrackThroughLevels(pyramid1, pyramid2, p, ss, nLevels, border, par) ==
  LET Scaled(at, r) == <<at[1] \div ss^r, at[2] \div ss^r>>
      Track(r, from) == TrackFeature(pyramid1[r], pyramid2[r], Scaled(p, r), from, par)
      Below(above, r) ==
        LET start == <<ss * above.at[1], ss * above.at[2]>>
        IN  IF above.status \in {"small_det", "oob"}
              THEN [at |-> start, status |-> above.status]
              ELSE Track(r, start)
      tracked[r \in 0 .. nLevels - 1] ==
        IF r = nLevels - 1 THEN Track(r, Scaled(p, r)) ELSE Below(tracked[r + 1], r)
  IN  KeptInBorder(tracked[0], pyramid1[0].val, border)

-----------------------------------------------------------------------------
(* The consistency check by an affine mapping A = [xx, xy, yx, yy], whose  *)
(* entries are in halves too, of the window of the first image.            *)

Mapped(A, o) == <<A.xx * o[1] + A.xy * o[2], A.yx * o[1] + A.yy * o[2]>>
MappedWindow(img, p, A, hw) ==
  [o \in Window(hw) |->
     Interpolated(img, p[1] + Mapped(A, o)[1], p[2] + Mapped(A, o)[2])]

DifferenceAffine(img1, img2, p1, p2, A, hw) ==
  LET w1 == WindowAt(img1, p1, hw)
      w2 == MappedWindow(img2, p2, A, hw)
  IN  [o \in Window(hw) |-> w1[o] - w2[o]]

\* The corners of the window must be so far inside that one can interpolate.
CornersInside(img, p, A, hw) ==
  \A o \in {-hw, hw} \X {-hw, hw} :
    /\ p[1] + Mapped(A, o)[1] \in 0 .. 2 * NCols(img) - 3
    /\ p[2] + Mapped(A, o)[2] \in 0 .. 2 * NRows(img) - 3

\* The image of the feature where it was first tracked: as many pixels around it
\* as the window has and one more at each side, and where it is in them
SubImage(img, p, side) ==
  [px \in PixelsOf(side, side) |->
     img[p[1] \div 2 + px[1] - side \div 2, p[2] \div 2 + px[2] - side \div 2]]
InSubImage(p, side) == <<(p[1] % 2) + 2 * (side \div 2), (p[2] % 2) + 2 * (side \div 2)>>

\* By what the value of a pixel changes with each of the unknowns: six for any
\* mapping, four for one that only turns and scales
Unknowns6(o, gx, gy) == <<gx * o[1], gy * o[1], gx * o[2], gy * o[2], gx, gy>>
Unknowns4(o, gx, gy) == <<gx * o[1] + gy * o[2], gy * o[1] - gx * o[2], gx, gy>>
UnknownsOf(n, o, gx, gy) == IF n = 4 THEN Unknowns4(o, gx, gy) ELSE Unknowns6(o, gx, gy)

GradientMatrixOf(n, gx, gy) ==
  LET J(o) == UnknownsOf(n, o, gx[o], gy[o]) IN
  [r \in 1 .. n |-> [c \in 1 .. n |-> SumOver([o \in DOMAIN gx |-> J(o)[r] * J(o)[c]])]]
\* in halves
ErrorVectorOf(n, diff, gx, gy) ==
  LET J(o) == UnknownsOf(n, o, gx[o], gy[o]) IN
  [r \in 1 .. n |-> SumOver([o \in DOMAIN gx |-> diff[o] * J(o)[r]])]

\* The solution moves the mapping and the window.
Updated(n, A, p, a) ==
  IF n = 4
    THEN LET xx == A.xx + a[1]   yx == A.yx + a[2] IN
         [A |-> [xx |-> xx, xy |-> -yx, yx |-> yx, yy |-> xx],
          p |-> <<p[1] + a[3], p[2] + a[4]>>]
    ELSE [A |-> [xx |-> A.xx + a[1], yx |-> A.yx + a[2],
                 xy |-> A.xy + a[3], yy |-> A.yy + a[4]],
          p |-> <<p[1] + a[5], p[2] + a[6]>>]

\* _am_trackFeatureAffine.  What the equations answer is given: n unknowns, two for a
\* window that only moves, and whether they had a solution.
Unmapped == [xx |-> 2, xy |-> 0, yx |-> 0, yy |-> 2]

Changed(st, answer) ==
  IF Len(answer.a) = 2
    THEN [A |-> st.A, p |-> <<st.p[1] + answer.a[1], st.p[2] + answer.a[2]>>]
    ELSE Updated(Len(answer.a), st.A, st.p, answer.a)

\* The mapping changes even if the equations had no solution.
AffineIterate(img1, img2, p1, st, answer, par) ==
  IF ~ CornersInside(img1, p1, Unmapped, par.hw) \/ ~ CornersInside(img2, st.p, st.A, par.hw)
    THEN [st EXCEPT !.status = "oob", !.go = FALSE]
    ELSE LET new == Changed(st, answer)
             At(s, o, k) == s.p[k] + Mapped(s.A, o)[k]
             Moved(k) == Magnitude(new.p[k] - st.p[k]) >= par.th
             CornerMoved(o, k) == Magnitude(At(new, o, k) - At(st, o, k)) >= par.thAff
             converged == \A k \in {1, 2} :
               ~ Moved(k) /\ \A o \in {-par.hw, par.hw} \X {-par.hw, par.hw} : ~ CornerMoved(o, k)
         IN  [A |-> new.A, p |-> new.p, status |-> answer.status, n |-> st.n + 1,
              go |-> answer.status # "small_det" /\ ~ converged /\ st.n + 1 < par.maxIterations]

\* In the end the centre's surroundings must be inside, whatever the mapping makes
\* of them, and it must not have gone too far to the right or down.
AffineEnded(img1, img2, p1, p2, end, par) ==
  LET Far == \E k \in {1, 2} : end.p[k] - p2[k] > par.maxDiffer
      Large == Residue(DifferenceAffine(img1, img2, p1, end.p, end.A, par.hw))
                 > par.maxResidue * (2 * par.hw + 1)^2
  IN  [A |-> end.A, p |-> end.p,
       status |-> IF ~ CornersInside(img2, end.p, Unmapped, par.hw) \/ Far THEN "oob"
                  ELSE IF end.status # "tracked" THEN end.status
                  ELSE IF Large THEN "large_residue"
                  ELSE "tracked"]

TrackFeatureAffine(img1, img2, p1, p2, A, answers, par) ==
  LET pass[k \in 0 .. par.maxIterations] ==
        IF k = 0 THEN [A |-> A, p |-> p2, status |-> "tracked", n |-> 0, go |-> TRUE]
        ELSE IF pass[k - 1].go THEN AffineIterate(img1, img2, p1, pass[k - 1], answers[k], par)
        ELSE pass[k - 1]
  IN  AffineEnded(img1, img2, p1, p2, pass[par.maxIterations], par)

-----------------------------------------------------------------------------
(* _am_gauss_jordan_elimination, over the integers modulo a prime instead  *)
(* of the floats: there it is exact.                                       *)

InverseMod(u, m) == CHOOSE v \in 1 .. m - 1 : (u * v) % m = 1
Exchanged(f, i, j) ==
  [k \in DOMAIN f |-> f[CASE k = i -> j [] k = j -> i [] OTHER -> k]]

\* The largest element, the last if there are several, in a row and a column
\* that were not pivots becomes the next.
PivotOf(a, used) ==
  LET free == (DOMAIN a \ used) \X (DOMAIN a \ used)
      largest == {q \in free : \A f \in free : a[q[1]][q[2]] >= a[f[1]][f[2]]}
      Later(q, f) == q[1] > f[1] \/ (q[1] = f[1] /\ q[2] >= f[2])
  IN  CHOOSE q \in largest : \A f \in largest : Later(q, f)

\* With the pivot on the diagonal, in the column col
Cleared(st, a, b, col, m) ==
  LET scale == InverseMod(a[col][col], m)
      row == [c \in DOMAIN a |-> (scale * (IF c = col THEN 1 ELSE a[col][c])) % m]
      rhs == (scale * b[col]) % m
  IN  IF a[col][col] = 0
        THEN [st EXCEPT !.status = "small_det"]
        ELSE [st EXCEPT
                !.used = @ \cup {col},
                !.a = [r \in DOMAIN a |-> IF r = col THEN row
                         ELSE [c \in DOMAIN a |->
                                 ((IF c = col THEN 0 ELSE a[r][c]) - row[c] * a[r][col]) % m]],
                !.b = [r \in DOMAIN b |-> IF r = col THEN rhs ELSE (b[r] - rhs * a[r][col]) % m]]

Eliminate(st, m) ==
  LET Pivoted(q) == Cleared(st, Exchanged(st.a, q[1], q[2]), Exchanged(st.b, q[1], q[2]), q[2], m)
  IN  Pivoted(PivotOf(st.a, st.used))

GaussJordan(a, b, m) ==
  LET n == Len(b)
      done[i \in 0 .. n] ==
        IF i = 0 THEN [a |-> a, b |-> b, used |-> {}, status |-> "tracked"]
        ELSE IF done[i - 1].status = "tracked" THEN Eliminate(done[i - 1], m)
        ELSE done[i - 1]
  IN  done[n]

-----------------------------------------------------------------------------
(* What is selected for tracking: the points whose windows vary in every   *)
(* direction, the best first.                                              *)

\* The smaller eigenvalue of the gradient matrix, cut to an integer: the last v for
\* which sum - 2 v is not below the root
MinEigenvalue(G) ==
  LET sum == G.xx + G.yy
      square == (G.xx - G.yy)^2 + 4 * G.xy^2
      AboveRoot(v) == 2 * v <= sum /\ (sum - 2 * v)^2 >= square
  IN  CHOOSE v \in 0 .. sum \div 2 : AboveRoot(v) /\ ~ AboveRoot(v + 1)

\* The window is given a centre, and at least its eight neighbours.
SelectionWindow(width) == Max({3, IF width % 2 = 1 THEN width ELSE width + 1})

\* Lost features are replaced by what is found in the image that was tracked in, if
\* that is kept; all others are looked for in the image in hand.
SelectionImages(mode, sequential, last, inHand) ==
  IF mode = "replacing" /\ sequential /\ last # {} THEN last ELSE {inHand}

\* _KLTSelectGoodFeatures: every so many pixels a window, inside the border
Candidates(gx, gy, border, hw, nSkipped) ==
  LET least == Max({border, hw})
      Picked(n) == {z \in least .. n - least - 1 : (z - least) % (nSkipped + 1) = 0}
      At(g, px) == [o \in Window(hw) |-> g[px[1] + o[1], px[2] + o[2]]]
  IN  {[at |-> px, val |-> MinEigenvalue(GradientMatrix(At(gx, px), At(gy, px)))] :
         px \in Picked(NCols(gx)) \X Picked(NRows(gx))}

\* _quicksort, counting from 1: the middle comes first and is what the others are
\* compared with.
Partitioned(l) ==
  LET n == Len(l)
      pass[k \in 0 .. n] ==
        IF k = 0 THEN [l |-> Exchanged(l, 1, n \div 2 + 1), i |-> 1, j |-> n + 1, done |-> FALSE]
        ELSE IF pass[k - 1].done THEN pass[k - 1]
        ELSE LET was == pass[k - 1]
                 pivot == was.l[1].val
                 j == Max({t \in 1 .. was.j - 1 : was.l[t].val >= pivot})
                 i == Min({t \in was.i + 1 .. Max({was.i + 1, j}) :
                             t >= j \/ was.l[t].val <= pivot})
             IN  [l |-> IF i >= j THEN was.l ELSE Exchanged(was.l, i, j),
                  i |-> i, j |-> j, done |-> i >= j]
  IN  [l |-> Exchanged(pass[n].l, pass[n].j, 1), j |-> pass[n].j]

Quicksort(points) ==
  LET inOrder[l \in Seq([at : {px.at : px \in {points[k] : k \in DOMAIN points}}, val : Nat])] ==
        LET Around(q) == inOrder[SubSeq(q.l, 1, q.j - 1)] \o <<q.l[q.j]>>
                           \o inOrder[SubSeq(q.l, q.j + 1, Len(l))]
        IN  IF Len(l) <= 1 THEN l ELSE Around(Partitioned(l))
  IN  inOrder[points]

-----------------------------------------------------------------------------
\* Level r of the scene c[1] x^2 + c[2] x y + c[3] y^2 around the pixel o
SceneAt(c, o, side, scale) ==
  LET X(px) == scale * px[1] - o[1]
      Y(px) == scale * px[2] - o[2]
      On(f(_)) == [px \in PixelsOf(side, side) |-> f(px)]
  IN  [val |-> On(LAMBDA px : c[1] * X(px)^2 + c[2] * X(px) * Y(px) + c[3] * Y(px)^2),
       gx |-> On(LAMBDA px : scale * (2 * c[1] * X(px) + c[2] * Y(px))),
       gy |-> On(LAMBDA px : scale * (c[2] * X(px) + 2 * c[3] * Y(px)))]

\* Where a scene of second order has moved, its windows are found where they moved
\* to, through all levels, and lost if and only if that is too near to the border at
\* one of them, or if there is a direction in which nothing changes.
SceneFound(c, p, d, side, nLevels, border, par) ==
  LET centre == <<side \div 2, side \div 2>>
      pyramid1 == [r \in 0 .. nLevels - 1 |-> SceneAt(c, centre, side \div 2^r, 2^r)]
      pyramid2 == [r \in 0 .. nLevels - 1 |->
                     SceneAt(c, <<centre[1] + d[1], centre[2] + d[2]>>, side \div 2^r, 2^r)]
      to == <<p[1] + 2 * d[1], p[2] + 2 * d[2]>>
      out == \/ \E r \in 0 .. nLevels - 1, q \in {p, to} :
                  \E k \in {1, 2} : q[k] \div 2^r \notin
                                      2 * par.hw .. 2 * (side \div 2^r) - 2 * par.hw - 3
             \/ \E k \in {1, 2} : to[k] \notin 2 * border .. 2 * (side - 1 - border)
      flat == c[2]^2 = 4 * c[1] * c[3]
      Right(found) == /\ found.status = "tracked" <=> ~ out /\ ~ flat
                      /\ found.status = "tracked" => found.at = to
  IN  Right(TrackThroughLevels(pyramid1, pyramid2, p, 2, nLevels, border, par))

\* Four times as bright an image differs from the other by nothing, and gradients
\* keep their direction.
LightingIgnored(c, p, hw) ==
  LET dark == SceneAt(c, <<0, 0>>, 6, 1)
      bright == [dark EXCEPT !.val = [px \in DOMAIN @ |-> 4 * @[px]]]
      diff == IntensityDifferenceInsensitive(bright, dark, p, p, hw)
      gx == GradientSumInsensitive(dark.gx, dark.gx, bright, dark, p, p, hw)
      gy == GradientSumInsensitive(dark.gy, dark.gy, bright, dark, p, p, hw)
  IN \A o \in Window(hw) :
       /\ diff[o] = 0
       /\ gx[o] * WindowAt(dark.gy, p, hw)[o] = gy[o] * WindowAt(dark.gx, p, hw)[o]

\* If the corners of a mapped window are inside, so is all of it, so that no
\* interpolation fails.
MappedInside(p, A, hw, side) ==
  LET img == [px \in PixelsOf(side, side) |-> 0] IN
  CornersInside(img, p, A, hw) =>
    /\ \A o \in Window(hw) : \A k \in {1, 2} : p[k] + Mapped(A, o)[k] \in 0 .. 2 * side - 3
    /\ \A o \in Window(hw) : MappedWindow(img, p, A, hw)[o] = 0

\* The image kept of a feature shows, around where it is in it, what the whole image
\* showed around the feature.
SubImageShowsFeature(c, p, hw) ==
  LET img == SceneAt(c, <<3, 3>>, 8, 1).val
      sub == SubImage(img, p, 2 * hw + 3)
      one == [xx |-> 2, xy |-> 0, yx |-> 0, yy |-> 2]
      diff == DifferenceAffine(sub, img, InSubImage(p, 2 * hw + 3), p, one, hw)
  IN  \A o \in Window(hw) : diff[o] = 0

\* The equations answer half of what is missing: where the gradients make the windows
\* differ by the effect of a change of a pixels, a halves of a pixel are answered, and
\* applying them moves every point of the window by so many halves.
ChangeRecovered(n, c, p, A, a, m) ==
  LET scene == SceneAt(c, <<3, 3>>, 8, 1)
      gx == MappedWindow(scene.gx, p, A, 1)
      gy == MappedWindow(scene.gy, p, A, 1)
      Effect(o) == MapThenSumSet(LAMBDA r : a[r] * UnknownsOf(n, o, gx[o], gy[o])[r], 1 .. n)
      diff == [o \in Window(1) |-> Effect(o)]
      G == GradientMatrixOf(n, gx, gy)
      e == ErrorVectorOf(n, diff, gx, gy)
      solved == GaussJordan([r \in 1 .. n |-> [k \in 1 .. n |-> G[r][k] % m]],
                            [r \in 1 .. n |-> e[r] % m], m)
      new == Updated(n, A, p, a)
  IN  /\ solved.status = "tracked" => solved.b = [r \in 1 .. n |-> a[r] % m]
      /\ \A o \in Window(1) :
           LET Moved(k) == new.p[k] + Mapped(new.A, o)[k] - p[k] - Mapped(A, o)[k]
           IN  gx[o] * Moved(1) + gy[o] * Moved(2) = Effect(o)

\* A feature that has changed by twice what the equations answer, twice, is tracked
\* if the equations have solutions, there are iterations enough, and neither its
\* window is out nor has it moved too far; and whatever is tracked looks as the
\* feature did.  Nothing changes any more once an answer is zero.  Provided that the
\* window is in the image as it really is.
MappingFollowed(c, p, a, solvable, maxIterations, maxDiffer) ==
  LET img2 == SceneAt(c, <<3, 3>>, 8, 1).val
      Once(st) == Changed(st, [a |-> a])
      start == [A |-> Unmapped, p |-> p]
      true == Once(Once(start))
      shown == MappedWindow(img2, true.p, true.A, 1)
      img1 == [px \in PixelsOf(5, 5) |->
                 IF <<px[1] - 2, px[2] - 2>> \in Window(1) THEN shown[<<px[1] - 2, px[2] - 2>>]
                 ELSE 0]
      answers == [k \in 1 .. maxIterations |->
                    [a |-> IF k # 3 THEN a ELSE [i \in DOMAIN a |-> 0],
                     status |-> IF solvable THEN "tracked" ELSE "small_det"]]
      par == [hw |-> 1, th |-> 1, thAff |-> 1, maxIterations |-> maxIterations, maxResidue |-> 0,
              maxDiffer |-> maxDiffer]
      found == TrackFeatureAffine(img1, img2, <<4, 4>>, p, Unmapped, answers, par)
  IN CornersInside(img2, true.p, true.A, 1) =>
       /\ found.status = "tracked" => MappedWindow(img2, found.p, found.A, 1) = shown
       /\ maxIterations > 1 =>
            (found.status = "tracked" <=>
               /\ solvable
               /\ CornersInside(img2, p, Unmapped, 1)
               /\ CornersInside(img2, true.p, Unmapped, 1)
               /\ \A k \in {1, 2} : true.p[k] - p[k] <= maxDiffer)

\* Equations are solved whenever they have one solution, and only then.
EquationsSolved(a, b, m) ==
  LET n == Len(b)
      Applied(x, r) == MapThenSumSet(LAMBDA k : a[r][k] * x[k], 1 .. n) % m
      kernel == {x \in [1 .. n -> 0 .. m - 1] : \A r \in 1 .. n : Applied(x, r) = 0}
      solved == GaussJordan(a, b, m)
  IN  /\ solved.status = "tracked" <=> kernel = {[r \in 1 .. n |-> 0]}
      /\ solved.status = "tracked" => \A r \in 1 .. n : Applied(solved.b, r) = b[r] % m

\* No window of an image that changes in one direction only is worth selecting, and
\* every window of one that changes in both is; the windows are those asked for, made
\* symmetric, and lie in the image.  In a sequence it makes no difference to the
\* candidates whether the features are all new or replace lost ones.
CandidatesRight(c, border, nSkipped, width, sequential, kept) ==
  LET side == 7
      scene == SceneAt(c, <<3, 3>>, side, 1)
      hw == SelectionWindow(width) \div 2
      From(mode) == {Candidates(img.gx, img.gy, border, hw, nSkipped) :
                       img \in SelectionImages(mode, sequential, IF kept THEN {scene} ELSE {}, scene)}
      points == UNION From("all")
  IN  /\ \A px \in points :
           /\ px.val = 0 <=> c[2]^2 = 4 * c[1] * c[3]
           /\ \A o \in Window(hw) : <<px.at[1] + o[1], px.at[2] + o[2]>> \in PixelsOf(side, side)
      /\ \E o \in Window(hw) : o[1] = width \div 2
      /\ width > 2 => Cardinality({o[1] : o \in Window(hw)}) \in {width, width + 1}
      /\ From("all") = From("replacing")

\* Sorting keeps every point and puts none behind a worse one.
SortedRight(vals) ==
  LET points == [k \in DOMAIN vals |-> [at |-> k, val |-> vals[k]]]
      sorted == Quicksort(points)
  IN  /\ Len(sorted) = Len(vals)
      /\ {sorted[k] : k \in DOMAIN sorted} = {points[k] : k \in DOMAIN points}
      /\ \A k \in 1 .. Len(vals) - 1 : sorted[k].val >= sorted[k + 1].val
=============================================================================
