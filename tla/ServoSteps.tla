------------------------------ MODULE ServoSteps ------------------------------
(***************************************************************************)
(* The arithmetic of a tick of a servo: from a target pose or a twist to   *)
(* the positions and velocities of the joints that are published.          *)
(*                                                                         *)
(* par are the parameters; a ratio is <<numerator, denominator>>.  What    *)
(* MoveIt and Eigen compute for an arm is that of three independent axes,  *)
(* the Jacobian of which is diagonal.                                      *)
(***************************************************************************)
EXTENDS Wrenches
LOCAL INSTANCE FiniteSetsExt
LOCAL INSTANCE SequencesExt

Dimensions == 1 .. 6
AtLeast(a, b) == a[1] * b[2] >= b[1] * a[2]
Beyond(a, b) == a[1] * b[2] > b[1] * a[2]
LeastRatio(S) == CHOOSE a \in S : \A b \in S : AtLeast(b, a)
RatioTimes(a, b) == <<a[1] * b[1], a[2] * b[2]>>
Whole == <<1, 1>>

-----------------------------------------------------------------------------
(* Parameters.                                                             *)

\* What is logged as an error, after which the node shuts down.
ParametersAccepted(par) ==
  /\ par.period > 0 /\ par.maxHalts >= 0
  /\ ~ (par.hardStop < par.lower) /\ ~ (par.hardStop < 0 \/ par.lower < 0)
  /\ par.halfOrder > 0 /\ par.cutoff > 0
  /\ par.revoluteMargin >= 0 /\ par.prismaticMargin >= 0
  /\ par.commandIn \in {"unitless", "speed_units"}
  /\ par.commandOut \in {"trajectory", "array"}
  /\ par.publish # {}
  /\ ~ (par.commandOut = "array" /\ {"positions", "velocities"} \subseteq par.publish)
  /\ par.checkType \in {"threshold_distance", "stop_distance"}

\* What is published of a point, an array being one of the two.
MessageOf(par, point) ==
  IF par.commandOut = "trajectory" THEN point
  ELSE IF "positions" \in par.publish THEN [positions |-> point.positions]
  ELSE IF "velocities" \in par.publish THEN [velocities |-> point.velocities]
  ELSE << >>

-----------------------------------------------------------------------------
(* setTrajectory: a twist, three linear and three angular components.      *)

Controlled(cmd, control) == [i \in Dimensions |-> IF control[i] THEN cmd[i] ELSE 0]
Linear(cmd) == <<cmd[1], cmd[2], cmd[3]>>
Angular(cmd) == <<cmd[4], cmd[5], cmd[6]>>
InPlanningFrame(cmd, R) == MatVec(R, Linear(cmd)) \o MatVec(R, Angular(cmd))

\* scaleCommand
UnitOf(par, scale) == (IF par.commandIn = "unitless" THEN scale ELSE 1) * par.period
ScaleTwist(par, cmd) ==
  VScale(UnitOf(par, par.linear), Linear(cmd)) \o VScale(UnitOf(par, par.rotational), Angular(cmd))
ScaleJog(par, joints, names, velocities) ==
  LET Latest(j) == Max({i \in DOMAIN names : names[i] = j})
  IN  [j \in joints |-> IF j \in {names[i] : i \in DOMAIN names}
                          THEN UnitOf(par, par.joint) * velocities[Latest(j)] ELSE 0]

\* removeDimension, of the rows of a matrix or the elements of a vector
Removed(rows, d) ==
  [i \in 1 .. Len(rows) - 1 |-> IF i < d THEN rows[i] ELSE rows[i + 1]]
\* Backwards through all rows; one is always left.
NotDrifting(rows, drift) ==
  LET left[d \in 1 .. Len(rows) + 1] ==
        IF d > Len(rows) THEN rows
        ELSE IF drift[d] /\ Len(left[d + 1]) > 1 THEN Removed(left[d + 1], d) ELSE left[d + 1]
  IN  left[1]

-----------------------------------------------------------------------------
(* velocityScalingFactorForSingularity.  The axes of the arm have gains,   *)
(* that of the second one k / 10 when its joint is at k / 10: it is        *)
(* singular at zero.                                                       *)

Ratio(a, b) == IF b = 0 THEN <<1, 0>> ELSE <<a, b>>
ConditionOf(gains) == Ratio(Max(gains), Min(gains))
Magnitude10(k) == IF k < 0 THEN -k ELSE k

\* The singular vector may have either sign.  The joint is moved along it by
\* a hundredth, to where its gain is (k^2 + sign) / 10 k; it is turned round if
\* the condition does not grow there.
TowardSingularity(k, gain, sign) ==
  LET before == ConditionOf({10 * gain * Magnitude10(k), k * k})
      after == ConditionOf({10 * gain * Magnitude10(k), Magnitude10(k * k + sign)})
  IN  IF AtLeast(before, after) THEN -sign ELSE sign

VelocityScale(par, condition, dot) ==
  CASE dot > 0 /\ Beyond(condition, <<par.lower, 1>>) /\ Beyond(<<par.hardStop, 1>>, condition) ->
         <<par.hardStop * condition[2] - condition[1], (par.hardStop - par.lower) * condition[2]>>
    [] dot > 0 /\ Beyond(condition, <<par.hardStop, 1>>) -> <<0, 1>>
    [] OTHER -> Whole

SingularityFactor(par, k, gain, sign, velocity) ==
  VelocityScale(par, ConditionOf({10 * gain, Magnitude10(k)}),
                TowardSingularity(k, gain, sign) * velocity)

-----------------------------------------------------------------------------
(* applyVelocityScaling, checkPositionLimits.                              *)

Clamp(v, lo, hi) == IF v < lo THEN lo ELSE IF v > hi THEN hi ELSE v
BoundingRatio(v, bound) ==
  IF v < 0 THEN <<-Clamp(v, -bound, bound), -v>> ELSE <<Clamp(v, -bound, bound), v>>

\* bounds[j] are those of a joint: bound.speed (0: none), bound.lo, bound.hi
BoundingScale(par, bounds, delta) ==
  LeastRatio({Whole} \cup {BoundingRatio(delta[j], bounds[j].speed * par.period) :
                             j \in {i \in DOMAIN delta : bounds[i].speed > 0 /\ delta[i] # 0}})
VelocityScaled(par, bounds, delta, collision, singularity) ==
  RatioTimes(BoundingScale(par, bounds, delta), RatioTimes(collision, singularity))

MarginOf(par, bound) == IF bound.prismatic THEN par.prismaticMargin ELSE par.revoluteMargin

\* scale[2] * position + scale[1] * delta, without dividing
WithinLimits(par, bounds, actual, delta, scale) ==
  \A j \in DOMAIN delta :
    LET b == bounds[j]
        m == MarginOf(par, b)
        position == scale[2] * actual[j] + scale[1] * delta[j]
    IN  \/ ~ b.limited
        \/ actual[j] \in b.lo + m .. b.hi - m
        \/ ~ \/ scale[1] * delta[j] < 0 /\ position < scale[2] * (b.lo + m)
             \/ scale[1] * delta[j] > 0 /\ position > scale[2] * (b.hi - m)

\* setPointsToTrajectory: the positions times scale[2], and the times
Published(par, bounds, actual, delta, scale) ==
  IF WithinLimits(par, bounds, actual, delta, scale)
    THEN [j \in DOMAIN delta |-> scale[2] * actual[j] + scale[1] * delta[j]]
    ELSE [j \in DOMAIN delta |-> scale[2] * actual[j]]
PointTimes(par, sudden) ==
  [i \in 1 .. (IF par.gazebo THEN 30 ELSE 1) |->
     (IF sudden THEN 1 ELSE par.period) + (i - 1) * par.period]

\* publishWorstCaseStopTime, for acceleration limits above and below (0: none)
StopTime(velocity, below, above) ==
  LET limited == {j \in DOMAIN velocity : below[j] > 0}
      Slower(j) == Min({below[j], above[j]})
      times == {<<0, 1>>} \cup {<<Magnitude10(velocity[j]), Slower(j)>> : j \in limited}
  IN  CHOOSE a \in times : \A b \in times : AtLeast(a, b)

-----------------------------------------------------------------------------
(* Poses and twists that are fed forward.                                  *)

\* publishTrajectory: R, t are those of the frame of the twist in that of the
\* effector.
TwistInEffector(R, t, cmd) ==
  LET ang == MatVec(R, Angular(cmd)) IN
  VAdd(MatVec(R, Linear(cmd)), VCross(t, ang)) \o ang
VelocityAt(cmd, p) == VAdd(Linear(cmd), VCross(Angular(cmd), p))

\* ff_pose of VelocityFeedForwardServo and of OdometryFeedForwardServo
AheadOfTarget(position, R, velocity, d) == VAdd(position, VScale(d, MatVec(R, velocity)))
BehindBase(position, R, velocity, d) == VMinus(position, VScale(d, MatVec(R, velocity)))

\* getFrameTransform, of two links given in the frame of the model
FrameTransform(parent, child) == TTimes(TInverse(parent), child)

\* correctTargetPose, before the filter
CorrectTarget(planning, frame, target, offset) ==
  TTimes(TTimes(FrameTransform(planning, frame), target), offset)
-----------------------------------------------------------------------------
\* Lengths of the linear and of the angular velocity are those commanded in
\* the dimensions that are controlled, in whichever frame, and neither leaks
\* into the other.
TwistKept(par, cmd, control, R) ==
  LET kept == Controlled(cmd, control)
      delta == ScaleTwist(par, InPlanningFrame(kept, R))
      Lengthened(x, y, unit) == VDot(x, x) = unit * unit * VDot(y, y)
  IN  /\ Lengthened(Linear(delta), Linear(kept), UnitOf(par, par.linear))
      /\ Lengthened(Angular(delta), Angular(kept), UnitOf(par, par.rotational))

\* Exactly the dimensions that may drift are left to do so, the others staying
\* in order; if all may, the first one is kept.
DriftsOnly(drift) ==
  LET kept == SelectSeq(<<1, 2, 3, 4, 5, 6>>, LAMBDA d : ~ drift[d]) IN
  NotDrifting(<<1, 2, 3, 4, 5, 6>>, drift) = IF kept = << >> THEN <<1>> ELSE kept

\* A command that leads away from a singularity is not slowed down, whichever
\* sign the singular vector has; one that leads there is, beyond the lower
\* threshold, and is not carried out beyond the upper one; the nearer the
\* slower, and never the other way.  All this but at the upper threshold
\* itself, where the robot moves as if there was no singularity.
SlowsTowardSingularity(par, gain, k, sign, velocity) ==
  LET condition == ConditionOf({10 * gain, Magnitude10(k)})
      Factor(at) == SingularityFactor(par, at, gain, sign, velocity)
      nearer == IF k < 0 THEN k + 1 ELSE k - 1
      AtStop(c) == c[1] = par.hardStop * c[2]
  IN  /\ AtLeast(Whole, Factor(k)) /\ AtLeast(Factor(k), <<0, 1>>)
      /\ velocity >= 0 \/ ~ Beyond(condition, <<par.lower, 1>>) => Factor(k) = Whole
      /\ velocity < 0 /\ Beyond(condition, <<par.lower, 1>>) /\ ~ AtStop(condition) =>
           /\ ~ AtLeast(Factor(k), Whole)
           /\ Beyond(condition, <<par.hardStop, 1>>) => Factor(k)[1] = 0
           /\ nearer # 0 /\ ~ AtStop(ConditionOf({10 * gain, Magnitude10(nearer)})) =>
                AtLeast(Factor(k), Factor(nearer))

\* No joint is faster than it may be; all are slowed down alike, and not more
\* than needed; and from within its limits no joint gets out of them while it
\* moves by no more than its margin at a time and nothing is filtered.
JogSafe(par, bounds, actual, names, velocities, collision) ==
  LET delta == ScaleJog(par, DOMAIN actual, names, velocities)
      scale == VelocityScaled(par, bounds, delta, collision, Whole)
      bounding == BoundingScale(par, bounds, delta)
      published == Published(par, bounds, actual, delta, scale)
      Limit(j) == bounds[j].speed * par.period
      Inside(j, d, x) == x \in d * bounds[j].lo .. d * bounds[j].hi
      fast == {j \in DOMAIN actual : bounds[j].speed > 0}
  IN  /\ \A j \in fast : Magnitude10(scale[1] * delta[j]) <= scale[2] * Limit(j)
      /\ bounding = Whole \/ \E j \in fast :
           Magnitude10(bounding[1] * delta[j]) = bounding[2] * Limit(j)
      /\ \A i, j \in DOMAIN actual :
           (published[i] - scale[2] * actual[i]) * delta[j]
             = (published[j] - scale[2] * actual[j]) * delta[i]
      /\ \A j \in DOMAIN actual :
           bounds[j].limited /\ Inside(j, 1, actual[j])
             /\ Magnitude10(scale[1] * delta[j]) <= scale[2] * MarginOf(par, bounds[j]) =>
               Inside(j, scale[2], published[j])

\* Every joint with a limit can stop within the time that is published, and one
\* of them needs it.
StopTimeSuffices(velocity, below, above) ==
  LET time == StopTime(velocity, below, above)
      Needs(j, limit) == <<Magnitude10(velocity[j]), limit[j]>>
      limited == {j \in DOMAIN velocity : below[j] > 0}
  IN  /\ \A j \in limited : AtLeast(time, Needs(j, below)) /\ AtLeast(time, Needs(j, above))
      /\ \/ time[1] = 0
         \/ \E j \in limited : time \in {Needs(j, below), Needs(j, above)}

\* The twist of a body gives each of its points the same velocity in both
\* frames.
TwistOfSameBody(R, t, cmd, p) ==
  MatVec(R, VelocityAt(cmd, p)) = VelocityAt(TwistInEffector(R, t, cmd), VAdd(MatVec(R, p), t))

\* A target that is fixed in the world is fed forward to where a base sees it
\* that has moved as its odometry says, and one that moves to where it will be.
\* B, b: the pose of the base in the world.
FedForward(B, b, R, position, velocity, d) ==
  LET World(origin, p) == VAdd(MatVec(B, p), origin)
      moved == VScale(d, MatVec(B, MatVec(R, velocity)))
  IN  /\ World(VAdd(b, moved), BehindBase(position, R, velocity, d)) = World(b, position)
      /\ World(b, AheadOfTarget(position, R, velocity, d)) = VAdd(World(b, position), moved)

\* The offset is one from the target, in the frame of the target itself; the
\* corrected target is where it was in the world.
OffsetFromTarget(planning, frame, target, offset, point) ==
  TApply(planning, TApply(CorrectTarget(planning, frame, target, offset), point))
    = TApply(frame, TApply(target, TApply(offset, point)))

\* With parameters that are accepted points follow one another in time, the
\* first one lies ahead, and what is published holds something, unless arrays
\* of nothing but accelerations are asked for.
AcceptedServe(par, sudden) ==
  ParametersAccepted(par) =>
    /\ LET times == PointTimes(par, sudden) IN
       /\ times[1] > 0
       /\ \A i \in 1 .. Len(times) - 1 : times[i] < times[i + 1]
    /\ par.publish # {"accelerations"} =>
         DOMAIN MessageOf(par, [what \in par.publish |-> 0]) \cap par.publish # {}
=============================================================================
