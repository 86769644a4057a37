----------------------------- MODULE HeadPointing -----------------------------
(***************************************************************************)
(* What the node point_to computes for a target: the chain it solves for,  *)
(* the attitude asked for, the solution that is taken, and the motion or   *)
(* the efforts that lead there.                                            *)
(*                                                                         *)
(* Frames are turned by quarters of a turn against each other, and the     *)
(* directions of targets have rational lengths.                            *)
(***************************************************************************)
EXTENDS Transforms
LOCAL INSTANCE FiniteSetsExt
LOCAL INSTANCE SequencesExt

\* A segment of a chain is [name, joint, axis, M]: its joint is none, rot or
\* trans, with an axis in the frame at its tip, which is turned by M.
Fixed(segment) == segment.joint = "none"
Identity == <<<<1, 0, 0>>, <<0, 1, 0>>, <<0, 0, 1>>>>

TurnAt(chain) ==
  LET turn[i \in 0 .. Len(chain)] ==
        IF i = 0 THEN Identity ELSE MatMat(turn[i - 1], chain[i].M)
  IN  turn

\* add_extra_joints: the z axis of every frame that moves is taken for the axis
\* of its joint, and what no joint does extra ones do, behind the others.
ExtraJoint(kind, j, turn) ==
  LET Positive(x) == IF x < 0 THEN -x ELSE x IN
  [name |-> "NoName", joint |-> kind, M |-> Identity,
   axis |-> <<Positive(turn[j][1]), Positive(turn[j][2]), Positive(turn[j][3])>>]

AddExtraJoints(chain) ==
  LET turn == TurnAt(chain)
      found == {<<chain[i].joint, CHOOSE j \in 1 .. 3 : turn[i][j][3] # 0>> :
                  i \in {k \in DOMAIN chain : ~ Fixed(chain[k])}}
      all == <<<<"rot", 1>>, <<"rot", 2>>, <<"rot", 3>>,
               <<"trans", 1>>, <<"trans", 2>>, <<"trans", 3>>>>
      extra == SelectSeq(all, LAMBDA d : d \notin found)
  IN  chain \o [k \in DOMAIN extra |-> ExtraJoint(extra[k][1], extra[k][2], turn[Len(chain)])]

\* The index of the k-th joint: k and the number of fixed segments passed, which
\* is counted on from one joint to the next.
JointIndex(chain, n) ==
  LET aux[k \in 0 .. n] ==
        IF k = 0 THEN 0
        ELSE Min({a \in aux[k - 1] .. Len(chain) - k : ~ Fixed(chain[k + a])})
  IN  [k \in 1 .. n |-> k + aux[k]]

JointNames(chain, numDof) == [k \in 1 .. numDof |-> chain[JointIndex(chain, numDof)[k]].name]

\* add_joint_limits; model gives those of the joints of the robot.
JointLimits(chain, numDof, totalDof, model, extraRot) ==
  LET index == JointIndex(chain, totalDof) IN
  [k \in 1 .. totalDof |->
     IF k <= numDof THEN model[chain[index[k]].name]
     ELSE IF chain[index[k]].joint = "trans" THEN <<-100, 100>> ELSE <<-extraRot, extraRot>>]

\* A tracker of a group of joints takes the first segments for those of its joints.
GroupNames(chain, n) == [k \in 1 .. n |-> chain[k].name]
GroupLimits(chain, n, model) == [k \in 1 .. n |-> model[GroupNames(chain, n)[k]]]

-----------------------------------------------------------------------------
(* get_joints, get_inverse_kinematics.                                     *)

RootOfSquare(n) == CHOOSE r \in 0 .. n : r * r = n

\* Yaw and pitch by their cosines and sines, times the lengths.  Only a positive
\* principal axis can point.
Attitude(at, axis) ==
  LET h == RootOfSquare(at[1]^2 + at[2]^2)
      r == RootOfSquare(at[1]^2 + at[2]^2 + at[3]^2)
      yaw == IF h = 0 THEN [c |-> 1, s |-> 0, by |-> 1] ELSE [c |-> at[1], s |-> at[2], by |-> h]
      pitch == [c |-> h, s |-> -at[3]]
      q == MatMat(<<<<yaw.c, -yaw.s, 0>>, <<yaw.s, yaw.c, 0>>, <<0, 0, yaw.by>>>>,
                  <<<<pitch.c, 0, pitch.s>>, <<0, r, 0>>, <<-pitch.s, 0, pitch.c>>>>)
      Is(k) == axis[k] > 0 /\ \A i \in 1 .. 3 \ {k} : axis[i] = 0
  IN  CASE Is(1) -> {[M |-> q, by |-> yaw.by * r]}
        [] Is(2) -> {[M |-> MatMat(q, RotationMatrix(<<0, 0, 3>>)), by |-> yaw.by * r]}
        [] Is(3) -> {[M |-> MatMat(q, RotationMatrix(<<0, 1, 0>>)), by |-> yaw.by * r]}
        [] OTHER -> {}

\* The values of the joints that are known, in the order of their names
Known(names, states, value(_, _)) ==
  FlattenSeq([i \in DOMAIN names |->
    LET own == SelectSeq(states, LAMBDA s : s.name = names[i])
    IN  [k \in DOMAIN own |-> value(i, own[k].position)]])
CurrentAngles(names, states) == Known(names, states, LAMBDA i, p : p)

\* An attempt starts at the current angles, the others anywhere within the limits;
\* it is [joints, error], and its error is ten times what is tolerated if the
\* solver fails.  The last attempt is not looked at.
InverseKinematics(names, states, attempts, tolerance) ==
  LET n == Len(names)
      last == Min({k \in DOMAIN attempts : attempts[k].error <= tolerance}
                    \cup {Len(attempts)})
  IN  IF Len(CurrentAngles(names, states)) # n \/ last = Len(attempts) THEN {}
      ELSE {SubSeq(attempts[last].joints, 1, n)}

-----------------------------------------------------------------------------
(* set_joint_motion_goal, send_pid_output.                                 *)

CalculateError(goal, names, states) == Known(names, states, LAMBDA i, p : goal[i] - p)

\* Velocities and the duration are fractions.
MotionGoal(goal, names, states, maxVelocity) ==
  LET error == CalculateError(goal, names, states)
      Size(i) == IF error[i] < 0 THEN -error[i] ELSE error[i]
      largest == Max({0} \cup {Size(i) : i \in DOMAIN error})
  IN  [names |-> names, positions |-> goal, duration |-> <<largest, maxVelocity>>,
       velocities |-> [i \in DOMAIN goal |->
                         IF largest > 0 THEN <<Size(i) * maxVelocity, largest>> ELSE <<0, 1>>]]

\* stop_servos: the joints are sent to where they are, at a quarter of a unit.
StopPoint(names, states) ==
  [positions |-> CurrentAngles(names, states),
   velocities |-> Known(names, states, LAMBDA i, p : <<1, 4>>)]

\* One joint: its error before, and twice the sum and the effort; K = [p, i, d].
FirstEffort(K, e) == [prev |-> e, acum |-> 0, effort |-> 2 * K.p * e]
SendPidOutput(K, st, e, dt) ==
  LET acum == st.acum + (3 * e - st.prev) * dt
  IN  [prev |-> e, acum |-> acum,
       effort |-> 2 * K.p * e + K.i * acum + ((2 * K.d * (e - st.prev)) \div dt)]

-----------------------------------------------------------------------------
\* If the joints of the robot move along or about the z axes of their frames, the
\* completed chain has a joint of both kinds for each axis of the base, every moving
\* segment one pair of limits, and only what is the robot's is named.  A tracker of
\* the same chain has the names and the limits of its joints if and only if no fixed
\* segment comes before one of them.
CompletedBy(complete, chain, model) ==
  LET moving == SelectSeq(complete, LAMBDA s : ~ Fixed(s))
      numDof == Len(SelectSeq(chain, LAMBDA s : ~ Fixed(s)))
      limits == JointLimits(complete, numDof, Len(moving), model, 2)
      InBase(i) == FoldRight(LAMBDA s, v : MatVec(s.M, v), SubSeq(complete, 1, i), complete[i].axis)
      Covers(kind, j) == \E i \in DOMAIN complete :
                           complete[i].joint = kind /\ InBase(i)[j] # 0
  IN /\ (\A i \in DOMAIN chain : Fixed(chain[i]) \/ chain[i].axis = <<0, 0, 1>>) =>
          \A kind \in {"rot", "trans"}, j \in 1 .. 3 : Covers(kind, j)
     /\ \A k \in DOMAIN moving :
          limits[k] = IF moving[k].name \in DOMAIN model THEN model[moving[k].name]
                      ELSE IF moving[k].joint = "rot" THEN <<-2, 2>> ELSE <<-100, 100>>
     /\ JointNames(complete, numDof) = [k \in 1 .. numDof |-> moving[k].name]
     /\ LET fixedBefore == \E i, k \in DOMAIN chain : i < k /\ Fixed(chain[i]) /\ ~ Fixed(chain[k])
        IN  /\ GroupNames(chain, numDof) = JointNames(chain, numDof) <=> ~ fixedBefore
            /\ ~ fixedBefore =>
                 GroupLimits(chain, numDof, model) =
                   [k \in 1 .. numDof |-> model[chain[JointIndex(chain, numDof)[k]].name]]
ChainCompleted(chain, model) == CompletedBy(AddExtraJoints(chain), chain, model)

\* The axis points at the target.
AxisPoints(at, axis) ==
  \A a \in Attitude(at, axis) :
    LET size == axis[1] + axis[2] + axis[3]
        r == RootOfSquare(VDot(at, at))
        seen == MatVec(a.M, axis)
    IN  \A i \in 1 .. 3 : r * seen[i] = size * a.by * at[i]

\* A solution is within the tolerance; there is none only if no attempt but
\* perhaps the last was, or a joint was not known.
SolutionTolerated(names, states, attempts, tolerance) ==
  LET Good(k) == attempts[k].error <= tolerance
      found == InverseKinematics(names, states, attempts, tolerance) IN
  /\ \A angles \in found :
       \E k \in DOMAIN attempts : Good(k) /\ angles = SubSeq(attempts[k].joints, 1, Len(names))
  /\ found = {} =>
       \/ \A k \in 1 .. Len(attempts) - 1 : ~ Good(k)
       \/ \E i \in DOMAIN names : names[i] \notin {states[k].name : k \in DOMAIN states}

\* All joints arrive when the slowest does, which goes as fast as it may, provided
\* that the position of each is known; and a stop sends each to where it is.
ArrivesTogether(goal, names, states, maxVelocity) ==
  LET m == MotionGoal(goal, names, states, maxVelocity)
      stop == StopPoint(names, states)
      From(i) == CHOOSE k \in DOMAIN states : states[k].name = names[i]
  IN (\A i \in DOMAIN names : \E k \in DOMAIN states : states[k].name = names[i]) =>
       \A i \in DOMAIN names :
         LET way == goal[i] - states[From(i)].position
             v == m.velocities[i]
         IN  /\ v[1] <= maxVelocity * v[2]
             /\ v[1] * m.duration[1] = (IF way < 0 THEN -way ELSE way) * v[2] * m.duration[2]
             /\ stop.positions[i] = goal[i] - way
             /\ Len(stop.velocities) = Len(stop.positions)

\* An error that changes evenly is integrated exactly, one step ahead.
IntegralAhead(K, e0, slope, dt, n) ==
  LET E(k) == e0 + slope * dt * k
      st[k \in 0 .. n] ==
        IF k = 0 THEN FirstEffort(K, E(0)) ELSE SendPidOutput(K, st[k - 1], E(k), dt)
      IntegralTo(k) == dt * k * (E(0) + E(k))   \* twice that from 0
  IN  st[n].effort = 2 * K.p * E(n)
                     + IF n = 0 THEN 0
                       ELSE K.i * (IntegralTo(n + 1) - IntegralTo(1)) + 2 * K.d * slope
=============================================================================
