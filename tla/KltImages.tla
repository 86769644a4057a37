------------------------------- MODULE KltImages -------------------------------
(***************************************************************************)
(* What the KLT library computes from an image before it tracks anything:  *)
(* smoothed images, gradients, pyramids, and how much of them the borders  *)
(* of the image spoil.  Values are integers: kernels are not divided by    *)
(* their norms, which the results therefore carry as a factor.             *)
(***************************************************************************)
EXTENDS Integers, Sequences
LOCAL INSTANCE FiniteSetsExt

\* An image gives the pixel <<x, y>>, x in 0 .. ncols - 1, y in 0 .. nrows - 1,
\* its value.
PixelsOf(ncols, nrows) == (0 .. ncols - 1) \X (0 .. nrows - 1)
NCols(img) == Max({px[1] : px \in DOMAIN img}) + 1
NRows(img) == Max({px[2] : px \in DOMAIN img}) + 1

-----------------------------------------------------------------------------
(* _computeKernels.                                                        *)

MaxHalfWidth == 4   \* MAX_KERNEL_WIDTH / 2, no more than the sigmas below need

\* exp(-i^2 / (2 sigma^2)) in thousandths at i = 0, 1, ..., and the largest
\* value of the derivative, sigma exp(-1/2), by sigma in tenths
Bells == [s \in {3, 7, 10} |-> CASE s = 3 -> <<1000, 4, 0, 0, 0>>
                                 [] s = 7 -> <<1000, 360, 17, 0, 0>>
                                 [] s = 10 -> <<1000, 607, 135, 11, 0>>]
MaxDeriv == [s \in {3, 7, 10} |-> CASE s = 3 -> 182 [] s = 7 -> 425 [] s = 10 -> 607]

Bell(s, i) == Bells[s][(IF i < 0 THEN -i ELSE i) + 1]

\* The tails are cut where they are below one hundredth of the maximum.
HalfWidth(weight(_), largest) ==
  Max({i \in 0 .. MaxHalfWidth : 100 * weight(i) >= largest})

GaussHalfWidth(s) == HalfWidth(LAMBDA i : Bell(s, i), 1000)
DerivHalfWidth(s) == HalfWidth(LAMBDA i : i * Bell(s, i), MaxDeriv[s])

Gauss(s) == LET h == GaussHalfWidth(s) IN [i \in -h .. h |-> Bell(s, i)]
Deriv(s) == LET h == DerivHalfWidth(s) IN [i \in -h .. h |-> -i * Bell(s, i)]

GaussNorm(s) == LET g == Gauss(s) IN MapThenSumSet(LAMBDA i : g[i], DOMAIN g)
DerivNorm(s) == LET d == Deriv(s) IN MapThenSumSet(LAMBDA i : -i * d[i], DOMAIN d)

-----------------------------------------------------------------------------
(* Convolution.  The kernel is read from its end, and where it does not    *)
(* lie in the image the result is 0.                                       *)

Horiz(img, kernel) ==
  LET r == Max(DOMAIN kernel) IN
  [px \in DOMAIN img |->
     IF {<<px[1] - r, px[2]>>, <<px[1] + r, px[2]>>} \subseteq DOMAIN img
       THEN MapThenSumSet(LAMBDA k : img[px[1] - k, px[2]] * kernel[k], DOMAIN kernel)
       ELSE 0]

Vert_Correlates(img, kernel) ==
  LET r == Max(DOMAIN kernel) IN
  [px \in DOMAIN img |->
     IF {<<px[1], px[2] - r>>, <<px[1], px[2] + r>>} \subseteq DOMAIN img
       THEN MapThenSumSet(LAMBDA k : img[px[1], px[2] + k] * kernel[k], DOMAIN kernel)
       ELSE 0]
Vert(img, kernel) ==
  LET r == Max(DOMAIN kernel) IN
  [px \in DOMAIN img |->
     IF {<<px[1], px[2] - r>>, <<px[1], px[2] + r>>} \subseteq DOMAIN img
       THEN MapThenSumSet(LAMBDA k : img[px[1], px[2] - k] * kernel[k], DOMAIN kernel)
       ELSE 0]

Separate(img, horiz, vert) == Vert(Horiz(img, horiz), vert)

GradX(img, s) == Separate(img, Deriv(s), Gauss(s))
GradY(img, s) == Separate(img, Gauss(s), Deriv(s))
Smoothed(img, s) == Separate(img, Gauss(s), Gauss(s))

-----------------------------------------------------------------------------
(* Pyramids.  What smooths a level is a kernel that depends on ss.         *)

Subsampled(img, ss) ==
  [px \in PixelsOf(NCols(img) \div ss, NRows(img) \div ss) |->
     img[ss * px[1] + ss \div 2, ss * px[2] + ss \div 2]]

PyramidOf(img, ss, nLevels, kernel) ==
  LET level[i \in 0 .. nLevels - 1] ==
        IF i = 0 THEN img ELSE Subsampled(Separate(level[i - 1], kernel, kernel), ss)
  IN  level

-----------------------------------------------------------------------------
(* The tracking context.                                                   *)

\* The sides of the window are made odd, and at least three.
WindowSide(n) == Max({3, IF n % 2 = 1 THEN n ELSE n + 1})

\* KLTChangeTCPyramid: the number of levels and the subsampling, which stays
\* what it was if there is one level.
ChangeTCPyramid(width, height, searchRange, ss) ==
  LET side == Min({WindowSide(width), WindowSide(height)})
      reach == 2 * searchRange   \* the subsampling is reach / side
  IN  IF reach < side THEN [nLevels |-> 1, ss |-> ss]
      ELSE IF reach <= 3 * side THEN [nLevels |-> 2, ss |-> 2]
      ELSE IF reach <= 5 * side THEN [nLevels |-> 2, ss |-> 4]
      ELSE IF reach <= 9 * side THEN [nLevels |-> 2, ss |-> 8]
      ELSE [nLevels |-> Min({n \in 1 .. 6 : side * 8^n >= 7 * reach + side}), ss |-> 8]

\* KLTUpdateTCBorder: how many pixels of a level its border spoils, and the
\* border that features keep
NInvalid(smoothHW, pyramidHW, ss, level) ==
  LET invalid[i \in 0 .. level] ==
        IF i = 0 THEN smoothHW ELSE (invalid[i - 1] + pyramidHW + ss - 1) \div ss
  IN  invalid[level]

UpdateTCBorder(width, height, smoothHW, pyramidHW, tc) ==
  LET top == tc.nLevels - 1 IN
  (NInvalid(smoothHW, pyramidHW, tc.ss, top)
     + Max({WindowSide(width), WindowSide(height)}) \div 2) * tc.ss^top

-----------------------------------------------------------------------------
\* In the image of a plane the gradients are its slopes and smoothing keeps its
\* values, the same distance from all borders away, and within it they are 0; a
\* pixel of a level of the pyramid shows what is at the centre of those it is made
\* from.
PlanesKept(s, a, b, c, ncols, nrows) ==
  LET plane == [px \in PixelsOf(ncols, nrows) |-> a * px[1] + b * px[2] + c]
      Inside(px, h, v) == /\ px[1] \in h .. ncols - 1 - h
                          /\ px[2] \in v .. nrows - 1 - v
      g == GaussHalfWidth(s)
      d == DerivHalfWidth(s)
      unit == GaussNorm(s) * DerivNorm(s)
      gx == GradX(plane, s)
      gy == GradY(plane, s)
      smooth == Smoothed(plane, s)
  IN \A px \in DOMAIN plane :
       /\ gx[px] = IF Inside(px, d, g) THEN a * unit ELSE 0
       /\ gy[px] = IF Inside(px, g, d) THEN b * unit ELSE 0
       /\ smooth[px] = IF Inside(px, g, g) THEN GaussNorm(s)^2 * plane[px] ELSE 0

LevelsCentred(a, b, ss, nLevels, ncols, nrows) ==
  LET plane == [px \in PixelsOf(ncols, nrows) |-> a * px[1] + b * px[2]]
      bell == [k \in -1 .. 1 |-> IF k = 0 THEN 2 ELSE 1]
      level == PyramidOf(plane, ss, nLevels, bell)
      centre[i \in 0 .. nLevels - 1] ==   \* of the pixel 0
        IF i = 0 THEN 0 ELSE centre[i - 1] + ss^(i - 1) * (ss \div 2)
  IN \A i \in 1 .. nLevels - 1 :
       \A px \in PixelsOf(NCols(level[i]) - 1, NRows(level[i]) - 1) :
         level[i][px] = 16^i * (a * (ss^i * px[1] + centre[i]) + b * (ss^i * px[2] + centre[i]))

\* The pixels of a level that depend on one beyond the border of the image are
\* no more, at either side, than the context counts with, and a window around a
\* feature that keeps the border from the left does not contain any at any level.
BorderSuffices(width, height, searchRange, smoothHW, pyramidHW, ncols) ==
  LET tc == ChangeTCPyramid(width, height, searchRange, 2)
      border == UpdateTCBorder(width, height, smoothHW, pyramidHW, tc)
      hw == Max({WindowSide(width), WindowSide(height)}) \div 2
      cols[i \in 0 .. tc.nLevels - 1] == IF i = 0 THEN ncols ELSE cols[i - 1] \div tc.ss
      valid[i \in 0 .. tc.nLevels - 1] ==   \* the first and the last valid pixel
        IF i = 0 THEN <<smoothHW, ncols - 1 - smoothHW>>
        ELSE LET of == {x \in 0 .. cols[i] - 1 :
                          LET at == tc.ss * x + tc.ss \div 2 IN
                          /\ at - pyramidHW >= valid[i - 1][1]
                          /\ at + pyramidHW <= valid[i - 1][2]}
             IN  IF of = {} THEN <<cols[i], -1>> ELSE <<Min(of), Max(of)>>
  IN \A i \in 0 .. tc.nLevels - 1 :
       LET n == NInvalid(smoothHW, pyramidHW, tc.ss, i) IN
       valid[i][1] <= valid[i][2] =>
         /\ valid[i][1] <= n /\ valid[i][2] >= cols[i] - 1 - n
         /\ border \div tc.ss^i - hw >= valid[i][1]

\* The windows of all levels together reach as far as features may move, to
\* within the half pixel that the side of a window is rounded by.
RangeSearched(width, height, searchRange) ==
  LET tc == ChangeTCPyramid(width, height, searchRange, 2)
      side == Min({WindowSide(width), WindowSide(height)})
  IN  side * MapThenSumSet(LAMBDA i : tc.ss^i, 0 .. tc.nLevels - 1) >= 2 * searchRange
=============================================================================
