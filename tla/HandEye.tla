-------------------------------- MODULE HandEye --------------------------------
(***************************************************************************)
(* How the pose of a camera on an effector, and that of a marker in the    *)
(* world, are computed from samples: poses of the marker as seen, Tcm, and *)
(* of the effector, Twe.                                                   *)
(*                                                                         *)
(* The solvers of eigenvalues and of linear equations are represented by   *)
(* the exact solutions among small candidates.                             *)
(***************************************************************************)
EXTENDS Transforms
LOCAL INSTANCE FiniteSets
LOCAL INSTANCE FiniteSetsExt
LOCAL INSTANCE SequencesExt

CandidateShifts == (-2 .. 2) \X (-2 .. 2) \X (-2 .. 2)

\* The motions of effector and camera between any two samples
Motions(Tcm, Twe) ==
  LET MotionOf(ij) ==
        [pair |-> ij, A |-> TTimes(TInverse(Twe[ij[2]]), Twe[ij[1]]),
         B |-> TTimes(Tcm[ij[2]], TInverse(Tcm[ij[1]]))]
  IN  {MotionOf(q) : q \in {ij \in (1 .. Len(Tcm)) \X (1 .. Len(Tcm)) : ij[1] < ij[2]}}

\* qdiff_matrix: q |-> a q - q b
QDiffMatrix(a, b) ==
  LET v == QAdd(a, QScale(-1, b))
      w == QAdd(a, b)
  IN  <<<<v[1], -v[2], -v[3], -v[4]>>,
        <<v[2], v[1], -w[4], w[3]>>,
        <<v[3], w[4], v[1], -w[2]>>,
        <<v[4], -w[3], w[2], v[1]>>>>
QApply(C, q) == <<QDot(C[1], q), QDot(C[2], q), QDot(C[3], q), QDot(C[4], q)>>

\* q^T M q, for the sum M of C^T C; and the rotations for which it is least
Energy(motions, q) ==
  MapThenSumSet(LAMBDA m : Square(QApply(QDiffMatrix(m.A.p, m.B.p), q)), motions)
LeastUnits(motions) == {q \in Units : Energy(motions, q) = 0}

CameraToEffectorSingle(Tcm, Twe) ==
  LET motions == Motions(Tcm, Twe)
      Rt(m) == LET R == Transposed(RotationOf(m.A.p)) IN
               <<VMinus(R[1], <<1, 0, 0>>), VMinus(R[2], <<0, 1, 0>>), VMinus(R[3], <<0, 0, 1>>)>>
      Term(m, q) ==
        MatVec(Rt(m), VMinus(MatVec(RotationOf(q), TranslationOf(m.B)), TranslationOf(m.A)))
      RtR(m, t) == MatVec(Rt(m), MatVec(Transposed(Rt(m)), t))
      Sum(term(_)) == FoldSet(LAMBDA m, s : VAdd(term(m), s), <<0, 0, 0>>, motions)
      columns == <<Sum(LAMBDA m : RtR(m, <<1, 0, 0>>)), Sum(LAMBDA m : RtR(m, <<0, 1, 0>>)),
                   Sum(LAMBDA m : RtR(m, <<0, 0, 1>>))>>
      N == Transposed(columns)
      Solutions(q) == LET r == Sum(LAMBDA m : Term(m, q)) IN
                      {t \in CandidateShifts : MatVec(N, t) = r}
  IN  IF Len(Tcm) < 2 THEN {}
      ELSE UNION {{TransformOf(t, q) : t \in Solutions(q)} : q \in LeastUnits(motions)}

-----------------------------------------------------------------------------
(* cameraToEffectorDual.  Vectors of eight are [p, d].                     *)

DualEnergy(motions, u) ==
  MapThenSumSet(LAMBDA m :
    LET C == QDiffMatrix(m.A.p, m.B.p)
        D == QDiffMatrix(m.A.d, m.B.d)
    IN  Square(QApply(C, u.p)) + Square(QAdd(QApply(D, u.p), QApply(C, u.d))), motions)

\* The eigenvectors for the least values span <<q, q'>> and <<0, q>>; which two
\* of their combinations they are is not known.
Combined(k, x, l, y) ==
  [p |-> QAdd(QScale(k, x.p), QScale(l, y.p)), d |-> QAdd(QScale(k, x.d), QScale(l, y.d))]

Absolute(x) == IF x < 0 THEN -x ELSE x
SignOf(x) == IF x < 0 THEN -1 ELSE 1
RootsOf(n) == {r \in 0 .. Absolute(n) : r * r = n}

\* The two roots <<n, d>> of a x^2 + b x + c, the larger one first.
QuadraticRoots(a, b, c, root) ==
  LET n0 == -SignOf(a) * b + (IF a * b > 0 THEN -root ELSE root)
  IN  <<<<n0, 2 * Absolute(a)>>, <<2 * SignOf(a) * c, n0>>>>

\* computeDualQuaternion: what is not normalised yet
Longer(x, y, dx, dy) ==
  IF Square(x.p) * dy * dy > Square(y.p) * dx * dx THEN x ELSE y
DualQuaternionsOf(u, v) ==
  LET a == QDot(u.p, u.d)
      b == QDot(u.p, v.d) + QDot(v.p, u.d)
      c == QDot(v.p, v.d)
      Chosen(x, y, x2, r) == Longer(Combined(r[1][1], x, r[1][2], y),
                                    Combined(r[2][1], x, r[2][2], y), r[1][2], r[2][2])
  IN  IF a = 0 /\ c = 0 THEN {}   \* 0 / 0
      ELSE IF Absolute(a) > Absolute(c)
        THEN {Chosen(u, v, a, QuadraticRoots(a, b, c, s)) : s \in RootsOf(b * b - 4 * a * c)}
        ELSE {Chosen(v, u, c, QuadraticRoots(c, b, a, s)) : s \in RootsOf(b * b - 4 * a * c)}

Normalised(x) ==
  {Signed([p |-> QDivided(QScale(2, x.p), r), d |-> QDivided(QScale(2, x.d), r)]) :
     r \in RootsOf(Square(x.p))}

CameraToEffectorDual(Tcm, Twe, basis) ==
  LET motions == Motions(Tcm, Twe)
      least == {x \in {TransformOf(t, q) : t \in CandidateShifts, q \in LeastUnits(motions)} :
                  DualEnergy(motions, x) = 0}
      Spanned(x) ==
        LET e == [p |-> QScale(0, x.p), d |-> x.p] IN
        DualQuaternionsOf(Combined(basis[1], x, basis[2], e), Combined(basis[3], x, basis[4], e))
  IN  IF Len(Tcm) < 2 THEN {} ELSE UNION {Normalised(y) : y \in UNION {Spanned(x) : x \in least}}

-----------------------------------------------------------------------------
\* objectToWorld: sums, the dual one without its part along the primary one;
\* neither is divided, so that both are in other units.
ObjectToWorld(Tcm, Twe, Tec) ==
  LET Of(i) == TTimes(TTimes(Twe[i], Tec), Tcm[i])
      Sum(term(_)) == FoldSet(LAMBDA i, s : QAdd(term(i), s), <<0, 0, 0, 0>>, DOMAIN Tcm)
      Across(p, d) == [p |-> p, d |-> QAdd(QScale(Square(p), d), QScale(-QDot(p, d), p))]
  IN  Across(Sum(LAMBDA i : Of(i).p), Sum(LAMBDA i : Of(i).d))

\* evaluateAccuracy: of the squares of the distances the sum and the largest
Accuracy(Tcm, Twe, Tec, Twm) ==
  LET Seen(i) == TTimes(Twe[i], Tec)
      Computed(i) == TTimes(Twm, TInverse(Tcm[i]))
      Shift(i) == LET v == VMinus(TranslationOf(Seen(i)), TranslationOf(Computed(i)))
                  IN  v[1]^2 + v[2]^2 + v[3]^2
      Turn(i) == AngularDistance(Seen(i).p, Computed(i).p)
  IN  [sumShift |-> MapThenSumSet(Shift, DOMAIN Tcm), maxShift |-> Max({Shift(i) : i \in DOMAIN Tcm}),
       sumTurn |-> MapThenSumSet(Turn, DOMAIN Tcm), maxTurn |-> Max({Turn(i) : i \in DOMAIN Tcm})]

-----------------------------------------------------------------------------
\* From samples that are exact both methods compute the pose of the camera,
\* provided that the effector turned about two axes; the dual one whatever basis
\* the solver finds, but for the one in which it divides 0 by 0.  A half turn has
\* no sign: neither a motion of the effector nor the pose of the marker may be one.
PoseOf(x) == <<RotationOf(x.p), TranslationOf(x)>>

CameraFound(Tec, Tcm, Twe, basis) ==
  LET motions == Motions(Tcm, Twe)
      axes == {<<m.A.p[2], m.A.p[3], m.A.p[4]>> : m \in motions} \ {<<0, 0, 0>>}
      turnsTwice == \E x, y \in axes : y \notin {x, <<-x[1], -x[2], -x[3]>>}
      Found(single, dual) ==
        /\ PoseOf(Tec) \in single
        /\ turnsTwice =>
             /\ single = {PoseOf(Tec)}
             /\ IF basis[1] * basis[2] = 0 /\ basis[3] * basis[4] = 0 THEN dual = {}
                ELSE dual = {PoseOf(Tec)}
  IN  (\A m \in motions : m.A.p[1] # 0) =>
        Found({PoseOf(x) : x \in CameraToEffectorSingle(Tcm, Twe)},
              {PoseOf(x) : x \in CameraToEffectorDual(Tcm, Twe, basis)})

\* The pose of the marker follows from that of the camera, in units of its own.
ObjectFound(Twm, found, n) ==
  Twm.p[1] # 0 => /\ found.p = QScale(n, Twm.p)
                  /\ found.d = QScale(n * Square(found.p), Twm.d)

\* The error that is reported is zero if and only if the pose of the marker is right.
ErrorTells(error, n, right) ==
  /\ error.sumShift <= n * error.maxShift /\ error.maxShift <= error.sumShift
  /\ error.maxTurn <= error.sumTurn
  /\ error.maxShift = 0 /\ error.maxTurn = 0 <=> right

CalibrationRight(Tec, Twm, Twe, basis, wrong) ==
  LET Seen(i) == TTimes(TTimes(TInverse(Tec), TInverse(Twe[i])), Twm)
      From(Tcm) == /\ CameraFound(Tec, Tcm, Twe, basis)
                   /\ ObjectFound(Twm, ObjectToWorld(Tcm, Twe, Tec), 3)
                   /\ ErrorTells(Accuracy(Tcm, Twe, Tec, wrong), 3, PoseOf(wrong) = PoseOf(Twm))
  IN  From(<<Seen(1), Seen(2), Seen(3)>>)
=============================================================================
