------------------------------ MODULE DepthImages ------------------------------
(***************************************************************************)
(* What the depth filter does to the pixels of the images it publishes,    *)
(* and the clouds of points that are made of them.                         *)
(*                                                                         *)
(* An image is its rows one after the other, each `step` long; a camera    *)
(* its focal length f and the pixel <<cx, cy>> its axis meets, without     *)
(* distortion.  Depths are integers; a point is times f.                   *)
(***************************************************************************)
EXTENDS KltImages
LOCAL INSTANCE FiniteSets
LOCAL INSTANCE FiniteSetsExt

\* ptr: the value at column u of row v
ValueAt(img, u, v) == img.data[v * img.step + u]

EachValue(img, new(_, _, _)) ==
  [img EXCEPT !.data =
     [i \in DOMAIN img.data |->
        LET u == i % img.step IN
        IF u < img.width THEN new(u, i \div img.step, img.data[i]) ELSE img.data[i]]]

ImageOf(width, height, padding, val(_, _)) ==
  LET step == width + padding IN
  [width |-> width, height |-> height, step |-> step,
   data |-> [i \in 0 .. height * step - 1 |->
               IF i % step < width THEN val(i % step, i \div step) ELSE 7]]

Invalid == 0
Ray(cam, u, v) == <<u - cam.cx, v - cam.cy, cam.f>>
Apart(x) == IF x < 0 THEN -x ELSE x
Dot(x, y) == x[1] * y[1] + x[2] * y[2] + x[3] * y[3]
Times(k, x) == [i \in 1 .. 3 |-> k * x[i]]

-----------------------------------------------------------------------------
(* Regions of interest: [top, bottom, left, right].                        *)

SubcameraInfo(cam, r) == [cam EXCEPT !.cx = @ - r.left, !.cy = @ - r.top]

Subimage(img, r) ==
  LET w == r.right - r.left
      h == r.bottom - r.top
  IN  [width |-> w, height |-> h, step |-> w,
       data |-> [q \in 0 .. h * w - 1 |->
                   img.data[(r.top * img.step + r.left) + (q \div w) * img.step + (q % w)]]]

BackgroundRemoved(depth, bg, r, thresh) ==
  EachValue(depth, LAMBDA u, v, p :
    LET b == ValueAt(bg, u + r.left, v + r.top) IN
    IF b # Invalid /\ p - b < thresh /\ b - p < thresh THEN Invalid ELSE p)

FarMax == 20
ZClipped(depth, near, far) ==
  IF near <= 0 /\ far >= FarMax THEN depth
  ELSE EachValue(depth, LAMBDA u, v, p : IF p < near \/ p > far THEN Invalid ELSE p)

\* The scale is a fraction <<n, d>>, and its result is cut to an integer.
Scaled(depth, scale) ==
  IF scale[1] = scale[2] THEN depth
  ELSE EachValue(depth, LAMBDA u, v, p : (scale[1] * p) \div scale[2])

-----------------------------------------------------------------------------
(* Points and clouds.                                                      *)

DepthToPoints(cam, depth) ==
  [px \in PixelsOf(depth.width, depth.height) |->
     Times(ValueAt(depth, px[1], px[2]), Ray(cam, px[1], px[2]))]

NoPoint3 == << >>   \* NaN
Cloud(cam, depth) ==
  [width |-> depth.width, height |-> depth.height,
   xyz |-> [i \in 0 .. depth.height * depth.width - 1 |->
              LET u == i % depth.width
                  v == i \div depth.width
                  d == ValueAt(depth, u, v)
              IN  IF d = Invalid THEN NoPoint3 ELSE Times(d, Ray(cam, u, v))]]

\* Fields of another image are added pixel by pixel, and an image of another
\* size is refused.
WithRGB(cloud, image) ==
  IF cloud.height # image.height \/ cloud.width # image.width THEN {}
  ELSE {[i \in DOMAIN cloud.xyz |->
           <<cloud.xyz[i], ValueAt(image, i % cloud.width, i \div cloud.width)>>]}

-----------------------------------------------------------------------------
(* create_normal.  The moments of a set of points are their number, their  *)
(* sum and the sum of their squares.                                       *)

Moments(x) == IF x[3] = Invalid THEN [i \in 1 .. 10 |-> 0]
              ELSE <<1, x[1], x[2], x[3], x[1] * x[1], x[1] * x[2], x[1] * x[3],
                     x[2] * x[2], x[2] * x[3], x[3] * x[3]>>
Plus(a, b) == [i \in 1 .. 10 |-> a[i] + b[i]]
Minus(a, b) == [i \in 1 .. 10 |-> a[i] - b[i]]
Total(S, term(_)) == [i \in 1 .. 10 |-> MapThenSumSet(LAMBDA s : term(s)[i], S)]

\* A box slides over n positions: a head enters, the sum is noted, the tail leaves.
Slide(term(_), ws1, n) ==
  LET before[i \in 0 .. n - 1] ==
        IF i = 0 THEN Total(0 .. ws1 - 1, term)
        ELSE Minus(Plus(before[i - 1], term(i - 1 + ws1)), term(i - 1))
  IN  [i \in 0 .. n - 1 |-> Plus(before[i], term(i + ws1))]

\* cv::eigen: the direction in which the points vary least, one of them if
\* there are several.  Of points that are not on a plane it is not asked for.
Directions == {<<0, 0, 1>>, <<1, 0, 1>>, <<0, 1, 1>>, <<-1, 1, 2>>, <<1, -1, 1>>, <<0, 0, -1>>,
               <<1, 0, 0>>, <<0, 1, 0>>}
Scatter(m) ==
  LET c == <<m[2], m[3], m[4]>> IN
  << <<m[1] * m[5] - c[1] * c[1], m[1] * m[6] - c[1] * c[2], m[1] * m[7] - c[1] * c[3]>>,
     <<m[1] * m[6] - c[1] * c[2], m[1] * m[8] - c[2] * c[2], m[1] * m[9] - c[2] * c[3]>>,
     <<m[1] * m[7] - c[1] * c[3], m[1] * m[9] - c[2] * c[3], m[1] * m[10] - c[3] * c[3]>> >>
LeastDirections(m) ==
  LET A == Scatter(m) IN {e \in Directions : \A i \in 1 .. 3 : Dot(A[i], e) = 0}

Facing(e, c) == IF Dot(e, c) > 0 THEN Times(-1, e) ELSE e

\* What each pixel may be given; <<0, 0, 0>> where nothing is computed.
Normals(cam, depth, radius) ==
  LET xyz == DepthToPoints(cam, depth)
      ws1 == 2 * radius
      cols == depth.width - ws1
      across == [v \in 0 .. depth.height - 1 |->
                   Slide(LAMBDA u : Moments(xyz[u, v]), ws1, cols)]
      boxes == [u \in 0 .. cols - 1 |->
                  Slide(LAMBDA v : across[v][u], ws1, depth.height - ws1)]
      Of(m) == IF m[1] <= 3 THEN {<<0, 0, 0>>}
               ELSE {Facing(e, <<m[2], m[3], m[4]>>) : e \in LeastDirections(m)}
  IN  [px \in PixelsOf(depth.width, depth.height) |->
         IF radius < 1 \/ px[1] - radius \notin 0 .. cols - 1
              \/ px[2] - radius \notin 0 .. depth.height - ws1 - 1
           THEN {<<0, 0, 0>>}
           ELSE Of(boxes[px[1] - radius][px[2] - radius])]

\* Components of a unit normal are given in hundredths.
Colored(normal) == EachValue(normal, LAMBDA u, v, n : ((12800 + 127 * n) \div 100) % 256)

-----------------------------------------------------------------------------
(* Checks.  A plane e . X = k is seen at k f / (e . ray) where this is an  *)
(* integer, and nowhere else.                                              *)

PlaneSeen(cam, e, k, width, height, padding) ==
  ImageOf(width, height, padding, LAMBDA u, v :
    LET m == Dot(e, Ray(cam, u, v)) IN
    IF m > 0 /\ (k * cam.f) % m = 0 THEN (k * cam.f) \div m ELSE Invalid)

\* A region shows the points that are seen there without it, at the same place,
\* whatever is removed, clipped and scaled before or after it is cut out; and
\* nothing is left that is near the background, near to the camera or far.
CutOutKeepsPoints(cam, depth, bg, r, thresh, near, far, scale) ==
  LET whole == [top |-> 0, bottom |-> depth.height, left |-> 0, right |-> depth.width]
      sub == SubcameraInfo(cam, r)
      Processed(d, reg) ==
        Scaled(ZClipped(BackgroundRemoved(d, bg, reg, thresh), near, far), scale)
      cut == Processed(Subimage(depth, r), r)
      all == Cloud(cam, Processed(depth, whole))
      part == Cloud(sub, cut)
      colours == ImageOf(depth.width, depth.height, 1, LAMBDA u, v : <<u, v>>)
  IN /\ \A u \in 0 .. cut.width - 1, v \in 0 .. cut.height - 1 :
          /\ part.xyz[v * cut.width + u] =
               all.xyz[(v + r.top) * depth.width + u + r.left]
          /\ part.xyz[v * cut.width + u] # NoPoint3 =>
               LET p == ValueAt(depth, u + r.left, v + r.top)
                   b == ValueAt(bg, u + r.left, v + r.top)
               IN  /\ b = Invalid \/ Apart(p - b) >= thresh
                   /\ (near > 0 \/ far < FarMax) => near <= p /\ p <= far
     /\ WithRGB(part, colours) = {} <=> (cut.width # depth.width \/ cut.height # depth.height)
     /\ \A coloured \in WithRGB(part, Subimage(colours, r)) :
          \A i \in DOMAIN coloured :
            coloured[i][2] = <<(i % cut.width) + r.left, (i \div cut.width) + r.top>>

\* All pixels whose window is in the image and has more than three points, and
\* no other, are given a normal; it is that of the plane and faces the camera.
NormalsOfPlane(cam, e, k, width, height, padding, radius) ==
  LET depth == PlaneSeen(cam, e, k, width, height, padding)
      normals == Normals(cam, depth, radius)
      Seen(px) == {q \in PixelsOf(width, height) :
                     /\ \A i \in {1, 2} : Apart(q[i] - px[i]) <= radius
                     /\ ValueAt(depth, q[1], q[2]) # Invalid}
      Inside(px) == /\ px[1] \in radius .. width - 1 - radius
                    /\ px[2] \in radius .. height - 1 - radius
  IN \A px \in PixelsOf(width, height) :
       IF radius > 0 /\ Inside(px) /\ Cardinality(Seen(px)) > 3
         THEN Times(-1, e) \in normals[px]
         ELSE normals[px] = {<<0, 0, 0>>}

\* The colours of two components tell them apart, and differ as they do.
ColoursDiffer(a, b) ==
  LET Colour(n) == ValueAt(Colored(ImageOf(2, 1, 1, LAMBDA u, v : n)), 1, 0) IN
  (a < b /\ -100 <= a /\ b <= 100) => Colour(a) < Colour(b)
=============================================================================
