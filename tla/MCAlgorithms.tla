----------------------------- MODULE MCAlgorithms -----------------------------
(* The inputs over which the algorithms are checked, and what is required   *)
(* of each.  An input is a record: which algorithm it is for, and what that *)
(* is given.  The requirements are stated in the algorithms' modules.       *)
EXTENDS KltSteps, DepthImages, MarkerPose, HandEye, HeadPointing, ServoSteps, CameraPlanes,
        CameraCalibration
LOCAL INSTANCE TLC

VARIABLE input   \* the algorithm, and what it is given

-----------------------------------------------------------------------------
(* Inputs of the feature tracker: images that are planes or paraboloids,   *)
(* whose pyramids, motions and changes of light are known.                 *)

Planes == [of : {"plane"}, sigma : {3, 7, 10}, right : -1 .. 1, down : -1 .. 1, height : {0, 2},
           ncols : {7, 8}, nrows : {7}]
PyramidsOfPlanes == [of : {"pyramid"}, right : -1 .. 1, down : -1 .. 1, ss : {2, 4},
                     nLevels : {2}, ncols : {8, 11}, nrows : {9}]
                    \cup [of : {"pyramid"}, right : -1 .. 1, down : -1 .. 1, ss : {2},
                          nLevels : {3}, ncols : {13}, nrows : {12}]
Contexts == [of : {"context"}, width : 1 .. 8, height : {3, 7}, range : {1, 3, 8, 15, 40},
             smoothHW : 0 .. 3, pyramidHW : 0 .. 9, ncols : {40, 97}]
Curves == {<<2, 0, 2>>, <<2, 2, 2>>, <<4, 2, 2>>, <<2, 4, 2>>, <<0, 2, 0>>}
Small == {-1, 0, 1}
Scenes == [of : {"scene"}, c : Curves, p : {3, 8, 10} \X {8, 9}, d : Small \X Small,
           side : {8}, nLevels : {1}, border : {2}]
          \cup [of : {"scene"}, c : {<<2, 0, 2>>, <<2, 2, 2>>}, p : {8, 12} \X {8, 12},
                d : {<<-2, 0>>, <<0, 2>>, <<2, -2>>}, side : {12}, nLevels : {2},
                border : {1, 4}]
TrackPar == [hw |-> 1, step |-> 2, maxIterations |-> 3, small |-> 1, th |-> 1,
             maxResidue |-> 1]
Lightings == [of : {"lighting"}, c : Curves, p : {2, 4, 6} \X {2, 6}]
Mappings == [xx : {1, 2, 3}, xy : {-2, 0, 1}, yx : {-1, 0, 2}, yy : {1, 2, 4}]
MappedWindows == [of : {"mapped"}, A : Mappings, p : (0 .. 11) \X {3, 6, 9}, hw : {1, 2}]
SubImages == [of : {"sub_image"}, c : Curves, p : (4 .. 9) \X (4 .. 9), hw : {1}]
Turned == [xx |-> 2, xy |-> 1, yx |-> -1, yy |-> 2]
Changes == [of : {"change"}, n : {4, 6}, c : {<<2, 2, 2>>, <<4, 2, 2>>, <<0, 2, 0>>},
            p : {6} \X {6, 7}, A : {Turned}, a : {1}]
Answers == {<<0, 0>>, <<-2, -1>>, <<-1, 0, -1, 0>>, <<1, 0>>, <<-1, 1>>, <<-3, 2>>, <<0, 1, 0, 0>>, <<1, -1, 1, 0>>, <<0, 0, -1, 2>>,
            <<-1, 0, 2, -1>>, <<1, 0, 0, 0, 0, 0>>, <<0, 1, -1, 0, 1, -1>>, <<0, 0, 0, 1, 0, 2>>}
Affine == [of : {"affine"}, c : {<<2, 2, 2>>, <<4, 2, 2>>}, p : {2, 5, 8} \X {3, 6, 10}, a : Answers,
           solvable : BOOLEAN, maxIterations : {1, 2, 4}, maxDiffer : {1, 3}]
ModTwo == [1 .. 3 -> [1 .. 3 -> {0, 1}]]
ModFive == [1 .. 2 -> [1 .. 2 -> 0 .. 4]]
Equations == [of : {"equations"}, a : ModTwo, b : {<<1, 0, 1>>, <<0, 1, 1>>}, m : {2}]
             \cup [of : {"equations"}, a : ModFive, b : {<<1, 3>>, <<0, 4>>}, m : {5}]
Selections == [of : {"selection"}, curve : Curves, border : {0, 2}, nSkipped : {0, 1},
               width : {1, 2, 3, 4}, sequential : BOOLEAN, kept : BOOLEAN]
Lists == [of : {"sort"}, vals : UNION {[1 .. n -> 0 .. 3] : n \in 0 .. 5}]

(* Inputs of the depth filter: planes seen by a camera.                    *)

Cams == [f : {4}, cx : {2, 3}, cy : {2}]
Sides == {<<0, 0, 1>>, <<1, 0, 1>>, <<-1, 1, 2>>, <<1, -1, 1>>}
Region(t, b, l, r) == [top |-> t, bottom |-> b, left |-> l, right |-> r]
CutOuts == [of : {"cut_out"}, cam : Cams, e : Sides, k : {6, 12}, pad : {0, 2}, thresh : {0, 2},
            r : {Region(0, 5, 0, 6), Region(1, 4, 2, 6), Region(2, 3, 0, 1), Region(0, 2, 5, 6)},
            near : {0, 3}, far : {12, 20}, scale : {<<1, 1>>, <<3, 2>>}]
NormalMaps == [of : {"normals"}, cam : Cams, e : Sides, k : {6, 60}, width : {5, 6},
               height : {3, 5}, pad : {0, 1}, radius : {0, 1, 2}]
Components == [of : {"colours"}, a : {-100, -71, -1, 0, 1, 58}, b : {-99, -70, 0, 1, 59, 100}]

ImageInputs == Planes \cup PyramidsOfPlanes \cup Contexts \cup Scenes \cup Lightings
               \cup MappedWindows \cup SubImages \cup Changes \cup Affine \cup Equations
               \cup Selections \cup Lists \cup CutOuts \cup NormalMaps \cup Components

-----------------------------------------------------------------------------
(* Inputs of the marker detectors, the calibration of hand and eye, and    *)
(* the pointing of a head.                                                 *)

Quad(a, b, c, d) == <<a, b, c, d>>
Markers == {Quad(<<0, 0>>, <<0, 8>>, <<8, 8>>, <<8, 0>>), Quad(<<4, 2>>, <<2, 7>>, <<8, 10>>, <<11, 3>>),
            Quad(<<4, 4>>, <<6, 6>>, <<8, 8>>, <<9, 4>>), Quad(<<5, 1>>, <<1, 5>>, <<7, 11>>, <<14, 6>>)}
CornerInputs == [of : {"corners"}, cam : Cams, e : Sides, k : {6, 15}, marker : Markers,
                 hidden : SUBSET {<<3, 2>>, <<3, 4>>}]
MarkerMap == [id \in {7, 8} |-> [j \in 1 .. 4 |-> Add(OwnCorners(1)[j], <<IF id = 7 THEN 0 ELSE 3, 1, 0>>)]]
Poses == [of : {"pose"}, R : Rotations, t : {<<-1, 2, 4>>}, s : {1, 2},
          useSimilarity : BOOLEAN, visible : {<<-7>>, <<7>>, <<9>>, <<8, 9, -7>>, <<8, 7>>}]
Tuples == [of : {"tuples"}, n : {3}, fails : [1 .. 2 -> [1 .. 3 -> BOOLEAN]]]

Shifts3 == {<<0, 0, 0>>, <<1, -2, 1>>, <<0, 1, 2>>}
TransformInputs == [of : {"transforms"}, t : Shifts3, q : Units, u : Shifts3, r : Units,
                    point : {<<1, 2, -3>>}]
Angles == [of : {"angles"}, R : Rotations]
Tilts == {<<2, 0, 0, 0>>, <<1, 1, 1, 1>>, <<1, -1, 1, 1>>, <<0, 2, 0, 0>>}
Bases == {<<1, 0, 0, 1>>, <<1, 2, 2, -1>>, <<0, 1, 1, -2>>}
Calibrations == [of : {"calibration"}, Tec : {TransformOf(<<0, 1, -1>>, q) : q \in {<<1, -1, 1, 1>>, <<0, 2, 0, 0>>}},
                 Twm : {TransformOf(<<2, 0, 1>>, q) : q \in {<<1, 1, -1, 1>>, <<0, 0, 2, 0>>}},
                 turns : Tilts \X Tilts \X {<<1, 1, 1, 1>>}, basis : Bases,
                 wrong : {<<2, 0, 1>>, <<2, 1, 1>>}]

QuarterTurns == {Identity, RotationMatrix(<<1, 0, 0>>), RotationMatrix(<<0, 3, 0>>),
                 RotationMatrix(<<1, 2, 3>>)}
Segments == [joint : {"none", "rot", "trans"}, axis : {<<0, 0, 1>>, <<1, 0, 0>>}, M : QuarterTurns]
Chains == [of : {"chain"}, segments : (Segments \X Segments)
             \cup {<<s, s, t, s>> : s, t \in [joint : {"none", "rot"}, axis : {<<0, 0, 1>>},
                                             M : QuarterTurns]}]
Targets == [of : {"target"}, at : {<<0, 0, 4>>, <<0, 0, -1>>, <<3, 4, 0>>, <<-4, 3, -12>>, <<0, -5, 12>>,
                                   <<-8, -6, 24>>, <<-2, 0, 0>>},
            axis : (-1 .. 2) \X (0 .. 1) \X (0 .. 2)]
Attempts == [of : {"attempts"}, errors : {<<30, 2>>, <<2, 3>>} \cup ({0, 3, 30} \X {1, 30} \X {2, 30}),
             known : SUBSET {"j1", "j2"}]
States(known) == LET o == <<"j3", "j2", "j1">>
                     s == SelectSeq(o, LAMBDA n : n = "j3" \/ n \in known)
                 IN  [k \in DOMAIN s |-> [name |-> s[k], position |-> IF s[k] = "j1" THEN 2 ELSE -1]]
Goals2 == [of : {"goal"}, goal : (-3 .. 3) \X (-2 .. 2), maxVelocity : {1, 5}, known : SUBSET {"j1", "j2"}]
Errors == [of : {"errors"}, K : [p : {0, 3}, i : {0, 1, 2}, d : {0, 2}], e0 : {-2, 0, 5},
           slope : {-1, 0, 2}, dt : {1, 3}, n : 0 .. 4]

-----------------------------------------------------------------------------
(* Inputs of filters, of the force-torque sensor and of the servo.         *)

Responses == [of : {"filter"}, tangent : {1, 3}, sines : {<<2>>, <<3, 5>>, <<1, 4, 6>>}, x : {0, 4, 9},
              signal : {<<1, 0, 0, 5>>, <<2, 3, 5, 7>>}]
HalfLives == [of : {"half_life"}, ratio : 2 .. 10, n : 1 .. 5, y1 : {0, 3, 7}, x : {1, 8}]
Mounted(rotations, centres) == [q : rotations, mg : {3}, r : centres, f0 : {<<1, 0, -2>>}, m0 : {<<0, 3, 1>>}]
WrongOffsets == [q |-> Identity, mg |-> 2, r |-> <<1, 1, 1>>, f0 |-> <<0, 1, 0>>, m0 |-> <<2, 0, 0>>]
Weights == [of : {"gravity"}, par : Mounted(Rotations, {<<1, -2, 0>>}), k : SignedAxes, l : {<<0, -1, 0>>, <<0, 0, 1>>}]
Attitudes == {<<<<1, 0, 0>>, <<0, 1, 0>>, <<-1, 0, 0>>>>,
              <<<<0, -1, 0>>, <<1, 0, 0>>, <<0, 1, 0>>, <<1, 0, 0>>>>, <<<<0, 0, 1>>, <<0, 1, 0>>, <<0, 0, -1>>>>}
Recalibrations == [of : {"ft_calibration"}, directions : Attitudes,
                   par : Mounted(Rotations, {<<0, 0, 2>>, <<-1, 0, 0>>})]

Par == [period |-> 2, maxHalts |-> 3, lower |-> 4, hardStop |-> 8, halfOrder |-> 1, cutoff |-> 10,
        revoluteMargin |-> 3, prismaticMargin |-> 2, commandIn |-> "unitless", commandOut |-> "trajectory",
        publish |-> {"positions"}, checkType |-> "stop_distance", gazebo |-> FALSE,
        linear |-> 3, rotational |-> 2, joint |-> 1]
Pars == {[Par EXCEPT !.commandIn = "speed_units", !.lower = 8], [Par EXCEPT !.lower = 2], Par}
Twist1 == <<1, -2, 3, 0, 2, -1>>
Twists == [of : {"twist"}, par : Pars, cmd : {Twist1, <<0, 1, 0, -2, 0, 1>>},
           control : [Dimensions -> BOOLEAN], R : QuarterTurns]
Drifts == [of : {"drift"}, drift : [Dimensions -> BOOLEAN]]
Singular == [of : {"singularity"}, par : Pars, gain : {2, 4}, k : (-12 .. 12) \ {0}, sign : {-1, 1},
             velocity : {-2, 0, 1}]
JointBounds == {[speed |-> 1, lo |-> -6, hi |-> 6, limited |-> TRUE, prismatic |-> FALSE],
                [speed |-> 0, lo |-> 0, hi |-> 0, limited |-> FALSE, prismatic |-> FALSE],
                [speed |-> 3, lo |-> -4, hi |-> 2, limited |-> TRUE, prismatic |-> TRUE]}
Jogs == [of : {"jog"}, b1 : JointBounds, b2 : JointBounds, actual : {-6, -3, 0, 1, 5} \X {-4, 2, 3},
         names : {<<"j1", "j2">>, <<"j2", "j9", "j1", "j2">>}, v : {-4, 0, 2} \X {-2, 3},
         collision : {<<0, 1>>, <<1, 2>>, <<1, 1>>}]
StopTimes == [of : {"stop"}, velocity : (-3 .. 3) \X {0, 5}, below : {0, 2, 3} \X {1, 4}, above : {<<1, 4>>, <<3, 2>>}]
Bodies == [of : {"body"}, R : Rotations, t : {<<1, 0, -2>>, <<0, 3, 1>>}, cmd : {Twist1}, p : {<<0, 0, 0>>, <<2, -1, 1>>}]
Predictions == [of : {"prediction"}, B : Rotations, b : {<<1, 2, 0>>}, R : QuarterTurns,
                position : {<<0, 1, 2>>}, velocity : {<<1, 0, 0>>, <<-1, 2, 0>>}, delay : {0, 2}]
Offsets == [of : {"offset"}, planning : {TransformOf(<<2, 1, 0>>, q) : q \in Tilts}, frame : {TransformOf(<<1, 0, 2>>, q) : q \in Tilts},
            target : {TransformOf(<<0, -1, 1>>, q) : q \in Tilts}, offset : {TransformOf(<<0, 0, 1>>, q) : q \in Tilts},
            point : {<<1, 2, 3>>}]
Settings == [of : {"settings"}, sudden : BOOLEAN, period : {0, 2}, lower : {4, 9}, gazebo : BOOLEAN,
             commandOut : {"trajectory", "array"}, publish : SUBSET {"positions", "velocities", "accelerations"}]

Files == [of : {"file"}, saved : [q : Units, mg : {0, 7}, r : {<<1, -2, 0>>}, f0 : {<<3, 0, 1>>}, m0 : {<<0, 2, -4>>}],
          g : {98}]
Starts == [of : {"start"}, tangent : {1, 3}, sines : {<<2>>, <<3, 5>>}, before : {<<0, 4>>, <<7, 2>>}, actual : {<<4, 4>>, <<1, 9>>}]

-----------------------------------------------------------------------------
(* Inputs of the calibration of cameras.                                   *)

Planes3 == [of : {"plane_3d"}, R : Rotations, d : {<<1, 0, 5>>, <<-2, 3, 4>>}, lengths : {<<2, 2>>, <<1, 7>>},
            sign : {-1, 1}, x : {<<0, 0>>, <<2, -3>>}]
CameraAt(i, dof) == [k |-> 2, p |-> [n \in 1 .. 6 + dof |-> (n + i) % 4],
                     J |-> [r \in 1 .. 2 |-> [n \in 1 .. 6 + dof |-> ((n * (r + i) + i) % 5) - 1]]]
DataOf(j, sizes) == [i \in DOMAIN sizes |-> [k \in 1 .. sizes[i] |-> <<<<k - j, i + k * k>>, <<i * j, k>>>>]]
Costs == [of : {"cost"}, n : {1, 2, 3}, dof : {2, 5}, common : BOOLEAN, R : QuarterTurns, size : {1, 2}]

Projections3 == <<<<<<1, 0, 2, 3>>, <<0, 1, 1, 5>>, <<1, 3, 2, 1>>>>, <<<<2, 1, 0, 1>>, <<1, 0, 3, 2>>, <<0, 1, 1, 4>>>>,
                  <<<<1, 4, 2, 0>>, <<3, 1, 0, 6>>, <<2, 0, 1, 5>>>>>>
PlaneRows(R, d) == <<R[1] \o <<0>>, R[2] \o <<0>>, d \o <<1>>>>
PlanesSeen == <<PlaneRows(<<<<1, 0, 0>>, <<0, 1, 0>>>>, <<0, 0, 2>>), PlaneRows(<<<<0, 0, 1>>, <<0, 1, 0>>>>, <<1, 0, 3>>),
                PlaneRows(<<<<0, 1, 0>>, <<0, 0, -1>>>>, <<2, 1, 0>>)>>
SeveralPlanes == [of : {"planes"}, cameras : {<<1>>, <<3>>, <<1, 2>>, <<2, 3>>, <<3, 2, 1>>},
                  planes : {<<1>>, <<1, 2>>, <<3, 1>>, <<2, 3, 1>>}, incomplete : {0, 1, 2}]
PlaneRefs == <<<<0, 0, 7>>, <<1, 0, 0>>, <<0, 1, 2>>, <<2, 3, 0>>, <<4, 1, 0>>>>
Volumes == [of : {"volume"}, n : 1 .. 3, heights : {<<1, 0>>, <<0, 1, 0>>, <<0, 2, 1>>}]
AtHeight(z) == <<<<0, 0, z>>, <<1, 0, z>>, <<0, 1, z>>, <<1, 2, z>>>>
OffHeight(P, z) == [r \in 1 .. 3 |-> <<P[r][1], P[r][2], P[r][3] + r, P[r][4] - r * z>>]

-----------------------------------------------------------------------------
MarkerInputs == CornerInputs \cup Poses \cup Tuples
TransformedInputs == TransformInputs \cup Angles \cup Calibrations
PointingInputs == Chains \cup Targets \cup Attempts \cup Goals2 \cup Errors
FilterInputs == Responses \cup HalfLives \cup Starts
WrenchInputs == Weights \cup Recalibrations \cup Files
ServoInputs == Twists \cup Drifts \cup Singular \cup Jogs \cup StopTimes \cup Bodies
               \cup Predictions \cup Offsets \cup Settings
CameraInputs == SeveralPlanes \cup Volumes \cup Planes3 \cup Costs

GeometryInputs == MarkerInputs \cup TransformedInputs \cup PointingInputs \cup FilterInputs
                  \cup WrenchInputs \cup ServoInputs \cup CameraInputs
NoInput == [of |-> "none"]

-----------------------------------------------------------------------------
MarkersRight ==
  /\ input.of = "corners" =>
       CornersFound(input.cam, input.e, input.k, input.marker, input.hidden)
  /\ input.of = "pose" =>
       PoseFound(input.R, input.t, input.s, input.useSimilarity, input.visible, MarkerMap)
  /\ input.of = "tuples" => SeenTogether(input.n, input.fails)

TransformedRight ==
  /\ input.of = "transforms" =>
       TransformsRight(input.t, input.q, input.u, input.r, input.point)
  /\ input.of = "angles" => AnglesRight(input.R)
  /\ input.of = "calibration" =>
       CalibrationRight(input.Tec, input.Twm,
         <<TransformOf(<<-1, 1, 0>>, input.turns[1]), TransformOf(<<0, 1, -1>>, input.turns[2]),
           TransformOf(<<1, 1, -2>>, input.turns[3])>>,
         input.basis, [p |-> input.Twm.p, d |-> TransformOf(input.wrong, input.Twm.p).d])

PointingRight ==
  /\ input.of = "chain" =>
       LET Named(k) == input.segments[k] @@ [name |-> <<"j1", "j2", "j3", "j4">>[k]] IN
       ChainCompleted([k \in DOMAIN input.segments |-> Named(k)],
                      [n \in {"j1", "j2", "j3", "j4"} |-> <<-Len(input.segments), 1>>])
  /\ input.of = "target" => AxisPoints(input.at, input.axis)
  /\ input.of = "attempts" =>
       SolutionTolerated(<<"j1", "j2">>, States(input.known),
                         [k \in DOMAIN input.errors |-> [joints |-> <<k, -k, 7>>, error |-> input.errors[k]]], 2)
  /\ input.of = "goal" =>
       ArrivesTogether(input.goal, <<"j1", "j2">>, States(input.known), input.maxVelocity)
  /\ input.of = "errors" => IntegralAhead(input.K, input.e0, input.slope, input.dt, input.n)

ServoArithmeticRight ==
  /\ input.of = "twist" => TwistKept(input.par, input.cmd, input.control, input.R)
  /\ input.of = "drift" => DriftsOnly(input.drift)
  /\ input.of = "singularity" =>
       SlowsTowardSingularity(input.par, input.gain, input.k, input.sign, input.velocity)
  /\ input.of = "jog" =>
       JogSafe(Par, [j \in {"j1", "j2"} |-> IF j = "j1" THEN input.b1 ELSE input.b2],
               [j \in {"j1", "j2"} |-> input.actual[IF j = "j1" THEN 1 ELSE 2]], input.names,
               IF Len(input.names) = 2 THEN input.v ELSE <<7, 9, input.v[1], input.v[2]>>, input.collision)
  /\ input.of = "stop" => StopTimeSuffices(input.velocity, input.below, input.above)
  /\ input.of = "body" => TwistOfSameBody(input.R, input.t, input.cmd, input.p)
  /\ input.of = "prediction" =>
       FedForward(input.B, input.b, input.R, input.position, input.velocity, input.delay)
  /\ input.of = "offset" =>
       OffsetFromTarget(input.planning, input.frame, input.target, input.offset, input.point)
  /\ input.of = "settings" =>
       AcceptedServe([Par EXCEPT !.period = input.period, !.lower = input.lower, !.gazebo = input.gazebo,
                                 !.commandOut = input.commandOut, !.publish = input.publish], input.sudden)

FiltersRight ==
  /\ input.of = "filter" => FilterHolds(input.tangent, input.sines, input.x, input.signal, 11)
  /\ input.of = "start" => StartHolds(input.tangent, input.sines, input.before, input.actual, 11)
  /\ input.of = "half_life" => HalfWay(input.ratio, input.n, input.y1, input.x, 11)

WrenchesRight ==
  /\ input.of = "gravity" => GravityCompensated(input.par, WrongOffsets, input.k, input.l)
  /\ input.of = "ft_calibration" => CalibrationRecovers(input.par, input.directions)
  /\ input.of = "file" => LoadedAsSaved(input.saved, input.g)

CamerasRight ==
  /\ input.of = "plane_3d" => PlaneRecovered(input.R, input.d, input.lengths, input.sign, input.x)
  /\ input.of = "planes" =>
       PlanesCalibrated([i \in DOMAIN input.cameras |-> Projections3[input.cameras[i]]],
                        [j \in DOMAIN input.planes |-> PlanesSeen[input.planes[j]]],
                        [j \in DOMAIN input.planes |-> SubSeq(PlaneRefs, (j % 2) + 1, (j % 2) + 4)],
                        input.incomplete, 13)
  /\ input.of = "volume" =>
       LET P == SubSeq(Projections3, 1, input.n) IN
         VolumeCalibrated(P, [j \in DOMAIN input.heights |-> AtHeight(input.heights[j])],
           UNION {{P[i], OffHeight(P[i], 0), OffHeight(P[i], 1)} : i \in DOMAIN P}, 13)
  /\ input.of = "cost" =>
       LET cameras == [i \in 1 .. input.n |-> CameraAt(i, input.dof)]
           plane == [d |-> <<1, 0, 2>>, Rt |-> input.R]
           turned == [d |-> <<0, 1, 1>>, Rt |-> Identity]
           sizes == [i \in 1 .. input.n |-> IF i = 2 THEN 3 ELSE input.size]
           step == [m \in 1 .. input.n * (6 + input.dof) |-> (m % 3) - 1]
           datas == <<DataOf(1, sizes), DataOf(2, [i \in 1 .. input.n |-> i])>>
       IN  /\ ErrorFollowsStep(cameras, plane, datas[1], input.common, step, <<1, -1, 2, 0, 1, -2>>)
           /\ VolumeErrorFollowsStep(cameras[1], <<<<<<1, 2, 0>>, <<3, 1>>>>, <<<<0, -1, 2>>, <<1, 1>>>>>>,
                                     SubSeq(step, 1, 6 + input.dof))
           /\ DeviationsOwn(cameras, datas, input.common)
           /\ ErrorOfAll(cameras, <<plane, turned>>, datas)

\* What is computed of space agrees with the geometry it is about: corners
\* and poses of markers, transforms and the calibration of a hand that holds a
\* camera, the joints with which a head points at a target, the arithmetic of
\* the servo, low-pass filters, the weight that a force-torque sensor feels
\* and the calibration that finds it, and the calibration of cameras by planes
\* and by volumes.  Each requirement compares the code's formula with one that
\* is written down independently of it.
GeometryRight ==
  input.of # "none" =>
    /\ MarkersRight /\ TransformedRight /\ PointingRight /\ ServoArithmeticRight
    /\ FiltersRight /\ WrenchesRight /\ CamerasRight

TrackingRight ==
  /\ input.of = "plane" =>
       PlanesKept(input.sigma, input.right, input.down, input.height, input.ncols, input.nrows)
  /\ input.of = "pyramid" =>
       LevelsCentred(input.right, input.down, input.ss, input.nLevels, input.ncols, input.nrows)
  /\ input.of = "context" =>
       /\ BorderSuffices(input.width, input.height, input.range, input.smoothHW,
                         input.pyramidHW, input.ncols)
       /\ RangeSearched(input.width, input.height, input.range)
  /\ input.of = "scene" =>
       SceneFound(input.c, input.p, input.d, input.side, input.nLevels, input.border, TrackPar)
  /\ input.of = "lighting" => LightingIgnored(input.c, input.p, 1)
  /\ input.of = "mapped" => MappedInside(input.p, input.A, input.hw, 7)
  /\ input.of = "sub_image" => SubImageShowsFeature(input.c, input.p, input.hw)
  /\ input.of = "change" =>
       ChangeRecovered(input.n, input.c, input.p, input.A,
                       [r \in 1 .. input.n |-> (input.a * r) % 3], 11)
  /\ input.of = "affine" =>
       MappingFollowed(input.c, input.p, input.a, input.solvable, input.maxIterations, input.maxDiffer)
  /\ input.of = "equations" => EquationsSolved(input.a, input.b, input.m)
  /\ input.of = "selection" =>
       CandidatesRight(input.curve, input.border, input.nSkipped, input.width, input.sequential, input.kept)
  /\ input.of = "sort" => SortedRight(input.vals)

DepthRight ==
  /\ input.of = "cut_out" =>
       CutOutKeepsPoints(input.cam, PlaneSeen(input.cam, input.e, input.k, 6, 5, input.pad),
                         PlaneSeen(input.cam, <<1, 0, 1>>, 6, 6, 5, 1), input.r,
                         input.thresh, input.near, input.far, input.scale)
  /\ input.of = "normals" =>
       \/ 2 * input.radius >= input.height   \* what is published then is not defined
       \/ NormalsOfPlane(input.cam, input.e, input.k, input.width, input.height,
                         input.pad, input.radius)
  /\ input.of = "colours" => ColoursDiffer(input.a, input.b)

\* What is computed of images agrees with what they show: convolution keeps
\* planes, the levels of a pyramid show the same scene, no search leaves the
\* image, a feature is found where it has moved to, also under a change of
\* light or of shape, the best candidates come first; a region cut out of a
\* depth image shows the same points, and the normals of a plane are its own.
ImagesRight == input.of # "none" => TrackingRight /\ DepthRight
=============================================================================
