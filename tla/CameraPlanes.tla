----------------------------- MODULE CameraPlanes -----------------------------
(* Calibration of cameras: the reference planes that carry the marker, and  *)
(* the error of reprojection whose square is minimised over all cameras and *)
(* planes.                                                                  *)
(*                                                                          *)
(* Lengths are integers and planes are turned like cubes.  Near the         *)
(* parameters of a camera its projection is taken for linear, and rotations *)
(* are taken to first order, so that derivatives are exact.                 *)
EXTENDS Wrenches
LOCAL INSTANCE FiniteSets
LOCAL INSTANCE FiniteSetsExt
LOCAL INSTANCE SequencesExt

-----------------------------------------------------------------------------
(* ReferencePlane.                                                         *)

\* initialize: the axes are the orthonormal ones nearest to the rows of Qt,
\* and the position is scaled by the mean length of these rows.
PlaneFrom(Qt) ==
  LET Along(R) == VDot(R[1], Qt[1]) + VDot(R[2], Qt[2])
      square == VDot(Qt[1], Qt[1]) + VDot(Qt[2], Qt[2])
      scale == CHOOSE s \in 1 .. square : 2 * s * s = square
      Rt == CHOOSE R \in Rotations : \A Q \in Rotations : Along(Q) <= Along(R)
  IN  [d |-> <<Qt[3][1] \div scale, Qt[3][2] \div scale, Qt[3][3] \div scale>>, Rt |-> Rt]

QtOf(plane) == <<plane.Rt[1], plane.Rt[2], plane.d>>
HomogeneousOf(plane) == <<plane.Rt[3], -VDot(plane.Rt[3], plane.d)>>
PointOn(plane, x) == VAdd(plane.d, VAdd(VScale(x[1], plane.Rt[1]), VScale(x[2], plane.Rt[2])))

\* By the position, and by the rotation.
PointDerivative(plane, x) ==
  LET S == MAdd(MScale(x[1], Skew(plane.Rt[1])), MScale(x[2], Skew(plane.Rt[2])))
      Unit3(i) == [j \in 1 .. 3 |-> IF j = i THEN 1 ELSE 0]
  IN  [i \in 1 .. 3 |-> Unit3(i) \o S[i]]

RotationNear(theta) == MAdd(<<<<1, 0, 0>>, <<0, 1, 0>>, <<0, 0, 1>>>>, MScale(-1, Skew(theta)))
PlaneUpdated(plane, dq) ==
  [d |-> VMinus(plane.d, SubSeq(dq, 1, 3)), Rt |-> MatMat(plane.Rt, RotationNear(SubSeq(dq, 4, 6)))]

-----------------------------------------------------------------------------
(* Cameras, with the derivative J of their projection by p: the position,  *)
(* the rotation and the intrinsic parameters.                              *)

Inner(a, b) == MapThenSumSet(LAMBDA k : a[k] * b[k], DOMAIN a)
ProjectionBy(cam, X) ==
  [r \in 1 .. 2 |-> Inner(cam.J[r], cam.p) - VDot(SubSeq(cam.J[r], 1, 3), X)]
UpdatedFrom(cam, first, dc) ==
  [cam EXCEPT !.p = [k \in DOMAIN @ |-> IF k < first THEN @[k] ELSE @[k] - dc[k - first + 1]]]

-----------------------------------------------------------------------------
(* VolumeCost, of one camera and points in space.                          *)

VolumeResidual(cam, corres) ==
  [k \in DOMAIN corres |-> LET u == ProjectionBy(cam, corres[k][1]) IN
                           [r \in 1 .. 2 |-> u[r] - corres[k][2][r]]]
VolumeDerivative(cam, corres) == [k \in DOMAIN corres |-> cam.J]
VolumeUpdate(cam, dc) == UpdatedFrom(cam, 1, dc)

\* As a fraction; of the camera's parameters the two after the principal
\* point are divided by the focal length.
DeviationOver(cam, n, variance, npoints) ==
  <<variance, npoints * IF n \in {10, 11} THEN cam.k * cam.k ELSE 1>>
VolumeDeviations(cam, npoints, covariance) ==
  [n \in DOMAIN cam.p |-> DeviationOver(cam, n, covariance[n], npoints)]

-----------------------------------------------------------------------------
(* PlaneCost.  data[i] are the correspondences of the plane and camera i.  *)

\* The first camera does not move; if the centres are common none does.
CostDimensions(ncameras, dof, commonCenters) ==
  [i \in 1 .. ncameras |-> dof + IF i = 1 THEN 0 ELSE IF commonCenters THEN 3 ELSE 6]
FirstOf(adims, i) == FoldSeq(+, 0, SubSeq(adims, 1, i - 1))

Residual(cameras, plane, data) ==
  FlattenSeq([i \in DOMAIN cameras |-> [k \in DOMAIN data[i] |->
    LET u == ProjectionBy(cameras[i], PointOn(plane, data[i][k][1])) IN
    [r \in 1 .. 2 |-> u[r] - data[i][k][2][r]]]])

DerivativeA(cameras, plane, data, adims) ==
  [i \in DOMAIN cameras |-> [k \in DOMAIN data[i] |-> [r \in 1 .. 2 |->
    LET skipped == 6 + adims[1] - adims[i] IN
    SubSeq(cameras[i].J[r], skipped + 1, skipped + adims[i])]]]

DerivativeB(cameras, plane, data) ==
  FlattenSeq([i \in DOMAIN cameras |-> [k \in DOMAIN data[i] |-> [r \in 1 .. 2 |->
    LET D == PointDerivative(plane, data[i][k][1]) IN
    [q \in 1 .. 6 |-> -VDot(SubSeq(cameras[i].J[r], 1, 3), ColumnOf(D, q))]]]])

UpdateA(cameras, adims, dcameras) ==
  [i \in DOMAIN cameras |->
    LET d == SubSeq(dcameras, FirstOf(adims, i) + 1, FirstOf(adims, i) + adims[i]) IN
    UpdatedFrom(cameras[i], CASE i = 1 -> 7 [] i > 1 /\ adims[i] = 6 + adims[1] -> 1 [] OTHER -> 4, d)]

SquareSum(residual) == FoldSeq(LAMBDA e, s : s + Inner(e, e), 0, residual)

\* The mean of the squares, as a fraction.
ReprojectionError(cameras, planes, datas) ==
  LET Total2(j) == SquareSum(Residual(cameras, planes[j], datas[j])) IN
  <<MapThenSumSet(Total2, DOMAIN planes),
    MapThenSumSet(LAMBDA j : FoldSeq(LAMBDA c, n : n + Len(c), 0, datas[j]), DOMAIN planes)>>

\* Squares of the deviations, as fractions.
StandardDeviations(cameras, datas, adims, covariance) ==
  LET npoints(i) == MapThenSumSet(LAMBDA j : Len(datas[j][i]), DOMAIN datas)
      skipped(i) == 6 + adims[1] - adims[i]
  IN  [i \in DOMAIN cameras |-> [n \in 1 .. 6 + adims[1] |->
         IF n <= skipped(i) THEN <<0, 1>>
         ELSE DeviationOver(cameras[i], n, covariance[FirstOf(adims, i) + n - skipped(i)], npoints(i))]]

-----------------------------------------------------------------------------
(* Checks.                                                                 *)

\* Whatever the scale and the sign of a factor, and however the lengths of
\* its axes differ, the plane has the same points up to that sign, lies where
\* its homogeneous vector says, and is its own factor.
PlaneRecovered(R, d, lengths, sign, x) ==
  LET scale == CHOOSE s \in 1 .. 100 : 2 * s * s = lengths[1]^2 + lengths[2]^2
      Row(k, v) == VScale(sign * k, v)
      plane == PlaneFrom(<<Row(lengths[1], R[1]), Row(lengths[2], R[2]), Row(scale, d)>>)
      X == PointOn(plane, x)
      h == HomogeneousOf(plane)
  IN  /\ X = VScale(sign, VAdd(d, VAdd(VScale(x[1], R[1]), VScale(x[2], R[2]))))
      /\ VDot(h[1], X) + h[2] = 0
      /\ MatVec(Transposed(QtOf(plane)), <<x[1], x[2], 1>>) = X
      /\ PlaneFrom(QtOf(plane)) = plane

\* A step of the minimisation changes the errors by the derivatives times the
\* step, for every camera and point in its place: a parameter that the
\* cameras share or do not have is neither derived by nor updated.
ErrorFollowsStep(cameras, plane, data, commonCenters, dc, dq) ==
  LET adims == CostDimensions(Len(cameras), Len(cameras[1].p) - 6, commonCenters)
      before == Residual(cameras, plane, data)
      afterA == Residual(UpdateA(cameras, adims, dc), plane, data)
      afterB == Residual(cameras, PlaneUpdated(plane, dq), data)
      A == DerivativeA(cameras, plane, data, adims)
      B == DerivativeB(cameras, plane, data)
      StepOf(i) == SubSeq(dc, FirstOf(adims, i) + 1, FirstOf(adims, i) + adims[i])
      ByA == FlattenSeq([i \in DOMAIN A |-> [k \in DOMAIN A[i] |->
               [r \in 1 .. 2 |-> Inner(A[i][k][r], StepOf(i))]]])
  IN  \A n \in DOMAIN before, r \in 1 .. 2 :
        /\ afterA[n][r] = before[n][r] - ByA[n][r]
        /\ afterB[n][r] = before[n][r] - Inner(B[n][r], dq)

\* So do those of a volume, of whose camera every parameter is updated; and
\* what is derived by one parameter has its deviation.
VolumeErrorFollowsStep(cam, corres, dc) ==
  LET before == VolumeResidual(cam, corres)
      after == VolumeResidual(VolumeUpdate(cam, dc), corres)
      D == VolumeDerivative(cam, corres)
      deviations == VolumeDeviations(cam, Len(corres), [n \in DOMAIN cam.p |-> n])
  IN  /\ \A k \in DOMAIN corres, r \in 1 .. 2 : after[k][r] = before[k][r] - Inner(D[k][r], dc)
      /\ \A n \in DOMAIN cam.p : deviations[n][1] = n /\ Len(corres) <= deviations[n][2]

\* A deviation is that of the parameter which the same component of a step
\* changes, and of no other, over the points that its camera sees.  The first
\* camera stays where it is, and cameras with a common centre keep that.
DeviationsOwn(cameras, datas, commonCenters) ==
  LET adims == CostDimensions(Len(cameras), Len(cameras[1].p) - 6, commonCenters)
      ndims == FirstOf(adims, Len(adims) + 1)
      deviations == StandardDeviations(cameras, datas, adims, [m \in 1 .. ndims |-> m])
  IN  \A m \in 1 .. ndims :
        LET moved == UpdateA(cameras, adims, [l \in 1 .. ndims |-> IF l = m THEN 1 ELSE 0]) IN
        \A i \in DOMAIN cameras, n \in DOMAIN cameras[1].p :
          /\ moved[i].p[n] # cameras[i].p[n] <=> deviations[i][n][1] = m
          /\ moved[i].p[n] # cameras[i].p[n] /\ n < 10 =>
               deviations[i][n][2] = Cardinality({jk \in (DOMAIN datas) \X (1 .. 4) : jk[2] <= Len(datas[jk[1]][i])})
          /\ (i = 1 /\ n <= 6) \/ (commonCenters /\ n <= 3) => moved[i].p[n] = cameras[i].p[n]

\* The error is the mean over every point that any camera sees of any plane.
ErrorOfAll(cameras, planes, datas) ==
  LET Points == {pt \in (DOMAIN planes) \X (DOMAIN cameras) \X (1 .. 4) :
                   pt[3] <= Len(datas[pt[1]][pt[2]])}
      SquareAt(pt) == LET c == datas[pt[1]][pt[2]][pt[3]]
                          u == ProjectionBy(cameras[pt[2]], PointOn(planes[pt[1]], c[1]))
                      IN  (u[1] - c[2][1])^2 + (u[2] - c[2][2])^2
  IN  ReprojectionError(cameras, planes, datas)
        = <<MapThenSumSet(SquareAt, Points), MapThenSumSet(LAMBDA pt : 1, Points)>>
=============================================================================
