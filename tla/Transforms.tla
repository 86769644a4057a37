------------------------------ MODULE Transforms ------------------------------
(***************************************************************************)
(* Rigid transformations as dual quaternions.                              *)
(*                                                                         *)
(* A quaternion is in halves: <<s, x, y, z>> is (s + x i + y j + z k) / 2. *)
(* The units among them are the rotations of a tetrahedron, for which all  *)
(* results are integers.  A dual part is in quarters, a translation in     *)
(* ones.                                                                   *)
(***************************************************************************)
EXTENDS Integers, Sequences

QAdd(a, b) == <<a[1] + b[1], a[2] + b[2], a[3] + b[3], a[4] + b[4]>>
QScale(k, a) == <<k * a[1], k * a[2], k * a[3], k * a[4]>>
QDivided(a, k) == <<a[1] \div k, a[2] \div k, a[3] \div k, a[4] \div k>>
QDot(a, b) == a[1] * b[1] + a[2] * b[2] + a[3] * b[3] + a[4] * b[4]
Square(a) == QDot(a, a)

\* operator *=
QTimes(a, b) ==
  <<a[1] * b[1] - a[2] * b[2] - a[3] * b[3] - a[4] * b[4],
    a[1] * b[2] + a[2] * b[1] + a[3] * b[4] - a[4] * b[3],
    a[1] * b[3] + a[3] * b[1] + a[4] * b[2] - a[2] * b[4],
    a[1] * b[4] + a[4] * b[1] + a[2] * b[3] - a[3] * b[2]>>
Conj(a) == <<a[1], -a[2], -a[3], -a[4]>>
Pure(t) == <<0, t[1], t[2], t[3]>>

One == <<2, 0, 0, 0>>
Units == {q \in (-2 .. 2) \X (-2 .. 2) \X (-2 .. 2) \X (-2 .. 2) :
            Square(q) = 4 /\ (q[1] + q[2]) % 2 = 0 /\ (q[1] + q[3]) % 2 = 0}

\* R: twice the vector by itself, then the turn about it
RotationOf(q) ==
  LET c == q[1] * q[1] - q[2] * q[2] - q[3] * q[3] - q[4] * q[4]
      Q(i, j) == 2 * q[i + 1] * q[j + 1] + (IF i = j THEN c ELSE 0)
      w(i) == 2 * q[1] * q[i + 1]
      Row(x, y, z) == <<x \div 4, y \div 4, z \div 4>>
  IN  <<Row(Q(1, 1), Q(1, 2) - w(3), Q(1, 3) + w(2)),
        Row(Q(2, 1) + w(3), Q(2, 2), Q(2, 3) - w(1)),
        Row(Q(3, 1) - w(2), Q(3, 2) + w(1), Q(3, 3))>>

VDot(x, y) == x[1] * y[1] + x[2] * y[2] + x[3] * y[3]
VAdd(x, y) == <<x[1] + y[1], x[2] + y[2], x[3] + y[3]>>
VMinus(x, y) == <<x[1] - y[1], x[2] - y[2], x[3] - y[3]>>
ColumnOf(M, j) == <<M[1][j], M[2][j], M[3][j]>>
Transposed(M) == <<ColumnOf(M, 1), ColumnOf(M, 2), ColumnOf(M, 3)>>
MatVec(M, x) == <<VDot(M[1], x), VDot(M[2], x), VDot(M[3], x)>>

\* The square of the sine of half the angle between two units, in sixteenths.
AngularDistance(a, b) == LET d == QTimes(a, Conj(b)) IN d[2]^2 + d[3]^2 + d[4]^2

-----------------------------------------------------------------------------
(* Transform: [p, d].  Its scalar is made not negative.                    *)

Signed(x) == IF x.p[1] < 0 THEN [p |-> QScale(-1, x.p), d |-> QScale(-1, x.d)] ELSE x

TransformOf(t, q) == Signed([p |-> q, d |-> QTimes(Pure(t), q)])

TTimes(x, y) ==
  Signed([p |-> QDivided(QTimes(x.p, y.p), 2),
          d |-> QDivided(QAdd(QTimes(x.d, y.p), QTimes(x.p, y.d)), 2)])
TInverse(x) == Signed([p |-> Conj(x.p), d |-> Conj(x.d)])

TranslationOf(x) ==
  LET q == QTimes(x.d, Conj(x.p)) IN <<q[2] \div 4, q[3] \div 4, q[4] \div 4>>

TApply(x, point) == VAdd(MatVec(RotationOf(x.p), point), TranslationOf(x))

-----------------------------------------------------------------------------
(* rotation_angles and rotation_matrix, in quarters of a turn.             *)

\* std::atan2 and std::asin
ATan2(y, x) == CASE y = 0 /\ x >= 0 -> 0 [] y > 0 -> 1 [] y = 0 -> 2 [] OTHER -> 3
ASin(y) == y % 4

RotationAngles(R) ==
  IF R[1][1] = 0 /\ R[2][1] = 0
    THEN <<ATan2(-R[2][3], R[2][2]), IF R[3][1] < 0 THEN 1 ELSE 3, 0>>
    ELSE <<ATan2(R[3][2], R[3][3]), (-ASin(R[3][1])) % 4, ATan2(R[2][1], R[1][1])>>

Cosine(a) == <<1, 0, -1, 0>>[a + 1]
Sine(a) == <<0, 1, 0, -1>>[a + 1]
MatMat(A, B) == LET Row(i) == MatVec(Transposed(B), A[i]) IN <<Row(1), Row(2), Row(3)>>
RotationMatrix(rpy) ==
  MatMat(<<<<Cosine(rpy[3]), -Sine(rpy[3]), 0>>, <<Sine(rpy[3]), Cosine(rpy[3]), 0>>, <<0, 0, 1>>>>,
   MatMat(<<<<Cosine(rpy[2]), 0, Sine(rpy[2])>>, <<0, 1, 0>>, <<-Sine(rpy[2]), 0, Cosine(rpy[2])>>>>,
          <<<<1, 0, 0>>, <<0, Cosine(rpy[1]), -Sine(rpy[1])>>, <<0, Sine(rpy[1]), Cosine(rpy[1])>>>>))

-----------------------------------------------------------------------------
\* Products and inverses of dual quaternions do to points what products and
\* inverses of transformations do, and what they are made of is got back.
TransformsRight(t, q, u, r, point) ==
  LET x == TransformOf(t, q)
      y == TransformOf(u, r)
  IN /\ TranslationOf(x) = t /\ RotationOf(x.p) = RotationOf(q)
     /\ TApply(TTimes(x, y), point) = TApply(x, TApply(y, point))
     /\ TApply(TInverse(x), TApply(x, point)) = point
     /\ TTimes(x, TInverse(x)) = TransformOf(<<0, 0, 0>>, One)
     /\ AngularDistance(x.p, y.p) = 0 <=> RotationOf(x.p) = RotationOf(y.p)

\* Angles describe the rotation they were computed from, in any attitude.
AnglesRight(R) == RotationMatrix(RotationAngles(R)) = R
=============================================================================
