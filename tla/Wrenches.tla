------------------------------- MODULE Wrenches -------------------------------
(***************************************************************************)
(* What the broadcaster of a force-torque sensor computes from wrenches:   *)
(* the compensation for gravity, and the parameters it needs for that.     *)
(*                                                                         *)
(* The parameters are the rotation q of the sensor, the weight mg of the   *)
(* effector, its centre of mass r, and the offsets f0 and m0.  k is the    *)
(* direction of gravity, w a wrench: a force f and a torque m.             *)
(* Decompositions are represented by all the exact ones.                   *)
(***************************************************************************)
EXTENDS MarkerPose, Transforms
LOCAL INSTANCE SequencesExt

VScale(c, x) == <<c * x[1], c * x[2], c * x[3]>>
VCross(x, y) == <<x[2] * y[3] - x[3] * y[2], x[3] * y[1] - x[1] * y[3], x[1] * y[2] - x[2] * y[1]>>
Zero3 == <<0, 0, 0>>
OuterProduct(x, y) == <<VScale(x[1], y), VScale(x[2], y), VScale(x[3], y)>>
MAdd(A, B) == <<VAdd(A[1], B[1]), VAdd(A[2], B[2]), VAdd(A[3], B[3])>>
MScale(c, A) == <<VScale(c, A[1]), VScale(c, A[2]), VScale(c, A[3])>>
Skew(n) == <<<<0, -n[3], n[2]>>, <<n[3], 0, -n[1]>>, <<-n[2], n[1], 0>>>>
Trace(A) == A[1][1] + A[2][2] + A[3][3]

\* The wrench that the weight of the effector exerts on the sensor.
Gravity(par, k) ==
  LET weight == VScale(par.mg, k) IN
  [f |-> MatVec(par.q, weight), m |-> MatVec(par.q, VCross(par.r, weight))]

Compensated(par, k, w) ==
  LET weight == VScale(par.mg, k)
      back == Transposed(par.q)
  IN  [f |-> VMinus(MatVec(back, VMinus(w.f, par.f0)), weight),
       m |-> VMinus(MatVec(back, VMinus(w.m, par.m0)), VCross(par.r, weight))]

BiasTaken(par, k, w) ==
  [par EXCEPT !.f0 = VMinus(w.f, Gravity(par, k).f), !.m0 = VMinus(w.m, Gravity(par, k).m)]

-----------------------------------------------------------------------------
\* clear_samples, take_sample
NoSums == LET none == <<Zero3, Zero3, Zero3>> IN
  [n |-> 0, k |-> Zero3, f |-> Zero3, m |-> Zero3, ksq |-> 0, kf |-> none, km |-> none, mm |-> none]
Summed(s, k, w) ==
  [n |-> s.n + 1, k |-> VAdd(s.k, k), f |-> VAdd(s.f, w.f), m |-> VAdd(s.m, w.m),
   ksq |-> s.ksq + VDot(k, k), kf |-> MAdd(s.kf, OuterProduct(k, w.f)),
   km |-> MAdd(s.km, OuterProduct(k, w.m)), mm |-> MAdd(s.mm, OuterProduct(w.m, w.m))]

\* n^2 times the covariance of x and y
Covariance(s, xy, x, y) == MAdd(MScale(s.n, xy), MScale(-1, OuterProduct(x, y)))

\* The unit eigenvectors for the least eigenvalue
SignedAxes == {MatVec(R, <<1, 0, 0>>) : R \in Rotations}
LeastEigenvectors(A) ==
  {n \in SignedAxes : /\ MatVec(A, n) = VScale(VDot(n, MatVec(A, n)), n)
                      /\ \A o \in SignedAxes : VDot(n, MatVec(A, n)) <= VDot(o, MatVec(A, o))}

\* JacobiSVD: singular values come in descending order.
Decompositions(A) ==
  {d \in [U : Matrices, V : Matrices] :
     LET S == MatMat(Transposed(d.U), MatMat(A, d.V)) IN
     /\ \A i, j \in 1 .. 3 : i # j => S[i][j] = 0
     /\ S[1][1] >= S[2][2] /\ S[2][2] >= S[3][3] /\ S[3][3] >= 0}
RowsSigned(A, s) == <<VScale(s[1], A[1]), VScale(s[2], A[2]), VScale(s[3], A[3])>>
Proper(A) == IF Det(A) < 0 THEN RowsSigned(A, <<1, 1, -1>>) ELSE A

\* compute_calibration, for a choice of eigenvector and decomposition
CalibrationOf(s, normal, d) ==
  LET S == MatMat(Transposed(d.U), MatMat(MatMat(Skew(normal), Covariance(s, s.km, s.k, s.m)), d.V))
      Ut == Proper(Transposed(d.U))
      V == Transposed(Proper(Transposed(d.V)))
      q == MatMat(V, Ut)
      kVar == s.n * s.ksq - VDot(s.k, s.k)
      scale == (S[1][1] + S[2][2]) \div kVar
      m0 == VMinus(s.m, VScale(scale, MatVec(q, VCross(normal, s.k))))
      kfVar == Covariance(s, s.kf, s.k, s.f)
      reversed == Trace(MatMat(q, kfVar)) < 0
      q2 == IF reversed THEN MatMat(V, RowsSigned(Ut, <<-1, -1, 1>>)) ELSE q
      mg == Trace(MatMat(q2, kfVar)) \div kVar
      f0 == VMinus(s.f, VScale(mg, MatVec(q2, s.k)))
      Mean(x) == <<x[1] \div s.n, x[2] \div s.n, x[3] \div s.n>>
  IN  [q |-> q2, mg |-> mg, r |-> VScale((IF reversed THEN -scale ELSE scale) \div mg, normal),
       f0 |-> Mean(f0), m0 |-> Mean(m0)]

-----------------------------------------------------------------------------
(* The file of parameters; a quaternion is kept as <<w, x, y, z>>.         *)

\* save_calibration: the mass in units of gravity g
SavedParameters(par, g) ==
  [effector_mass |-> <<par.mg, g>>, rotation |-> <<par.q[2], par.q[3], par.q[4], par.q[1]>>,
   force_offset |-> par.f0, torque_offset |-> par.m0, mass_center |-> par.r]

\* vector_param, quaternion_param: what has the wrong length is ignored.
VectorParam(v) == IF Len(v) = 3 THEN v ELSE Zero3
QuaternionParam(v) == IF Len(v) = 4 THEN <<v[4], v[1], v[2], v[3]>> ELSE One

\* on_init
LoadedParameters(file, g) ==
  [mg |-> (g * file.effector_mass[1]) \div file.effector_mass[2], q |-> QuaternionParam(file.rotation),
   r |-> VectorParam(file.mass_center), f0 |-> VectorParam(file.force_offset),
   m0 |-> VectorParam(file.torque_offset)]

-----------------------------------------------------------------------------
\* A sensor that is started again with the file compensates what the one that
\* wrote it did: the parameters are read in the order they were written.
LoadedAsSaved(par, g) == LoadedParameters(SavedParameters(par, g), g) = par

\* What is left of the wrench of an effector at rest is zero, whatever the
\* parameters are; and after a reset of the bias it is zero too, even with
\* wrong offsets, and remains so if only the offsets were wrong.
GravityCompensated(par, wrong, k, l) ==
  LET At2(direction) == [f |-> VAdd(Gravity(par, direction).f, par.f0),
                         m |-> VAdd(Gravity(par, direction).m, par.m0)]
      nothing == [f |-> Zero3, m |-> Zero3]
  IN  /\ Compensated(par, k, At2(k)) = nothing
      /\ Compensated(BiasTaken(wrong, k, At2(k)), k, At2(k)) = nothing
      /\ Compensated(BiasTaken([par EXCEPT !.f0 = wrong.f0, !.m0 = wrong.m0], k, At2(k)), l, At2(l))
           = nothing

\* Calibration finds the parameters again from three or more samples, by any
\* eigenvectors and decompositions the solvers may return, if the rotation
\* of the sensor leaves the direction of the centre of mass and gravity was
\* perpendicular to it in all samples: the normal of the torques is taken for
\* that direction, and the variance of gravity for that of its cross product
\* with it.
CalibrationRecovers(par, directions) ==
  MatVec(par.q, par.r) = par.r /\ (\A i \in DOMAIN directions : VDot(directions[i], par.r) = 0) =>
    LET At2(k) == [f |-> VAdd(Gravity(par, k).f, par.f0), m |-> VAdd(Gravity(par, k).m, par.m0)]
        s == FoldLeft(LAMBDA sums, k : Summed(sums, k, At2(k)), NoSums, directions)
    IN  \A normal \in LeastEigenvectors(Covariance(s, s.mm, s.m, s.m)) :
          \A d \in Decompositions(MatMat(Skew(normal), Covariance(s, s.km, s.k, s.m))) :
            CalibrationOf(s, normal, d) = par
=============================================================================
