----------------------------- MODULE DeviceProofs -----------------------------
(***************************************************************************)
(* The nodes that serve devices and images, together: what is proved of    *)
(* each holds of the composition that is model-checked.                    *)
(***************************************************************************)
EXTENDS MCDevices, ToolControllerProofs, NodeProofs

\* What one of the nodes does leaves the others, and which it is, as they were.
LEMMA PartsAlone ==
  ASSUME [Next]_vars
  PROVE  /\ part' = part
         /\ part = "suction" => [SuctionNext]_suctionAll
         /\ part = "precision" => [PrecisionNext]_precisionAll
         /\ part = "point_to" => [PointToNext]_pointToVars
         /\ part = "depth_filter" => [DepthNext]_depthFilterVars
         /\ part = "ft_sensor" => [FTNext]_ftVars
         /\ part = "klt_tracker" => [FeatureNext]_featureVars
         /\ part = "camera" => [CameraNext]_samplingVars
         /\ part = "hand_eye" => [HandEyeNext]_samplingVars
<1>1. CASE Next
  BY <1>1 DEF Next, RunAlgorithm, Tools, Sensors, Calibrators, toolVars, sensorVars
<1>2. CASE UNCHANGED vars
  BY <1>2 DEF vars, toolVars, sensorVars, suctionAll, precisionAll
<1>. QED
  BY <1>1, <1>2

\* A behaviour of the devices is one of the node that it is about, which is
\* what the theorems of each speak of, the controllers of tools included:
\* every node keeps its kinds (DeviceTypesOK).
THEOREM DeviceTypesHold == Spec => []DeviceTypesOK
<1>1. Init => /\ SuctionInit /\ PrecisionInit /\ PointToInit /\ DepthInit
              /\ FTInit /\ FeatureInit /\ SamplingInit
  BY DEF Init
<1>2. Spec => [](part = "suction" => SuctionTypeOK)
  <2>1. part = "suction" /\ [Next]_vars => (part = "suction")' /\ [SuctionNext]_suctionAll
    BY PartsAlone
  <2>2. ~ (part = "suction") /\ [Next]_vars => ~ (part = "suction")'
    BY PartsAlone
  <2>. QED
    BY <1>1, <2>1, <2>2, SuctionTypeCorrect, PTL DEF Spec, SuctionSpec
<1>3. Spec => [](part = "precision" => PrecisionTypeOK)
  <2>1. part = "precision" /\ [Next]_vars => (part = "precision")' /\ [PrecisionNext]_precisionAll
    BY PartsAlone
  <2>2. ~ (part = "precision") /\ [Next]_vars => ~ (part = "precision")'
    BY PartsAlone
  <2>. QED
    BY <1>1, <2>1, <2>2, PrecisionTypeCorrect, PTL DEF Spec, PrecisionSpec
<1>4. Spec => [](part = "point_to" => PointToTypeOK)
  <2>1. part = "point_to" /\ [Next]_vars => (part = "point_to")' /\ [PointToNext]_pointToVars
    BY PartsAlone
  <2>2. ~ (part = "point_to") /\ [Next]_vars => ~ (part = "point_to")'
    BY PartsAlone
  <2>. QED
    BY <1>1, <2>1, <2>2, PointTypeCorrect, PTL DEF Spec, PointToSpec
<1>5. Spec => [](part = "depth_filter" => DepthTypeOK)
  <2>1. part = "depth_filter" /\ [Next]_vars => (part = "depth_filter")' /\ [DepthNext]_depthFilterVars
    BY PartsAlone
  <2>2. ~ (part = "depth_filter") /\ [Next]_vars => ~ (part = "depth_filter")'
    BY PartsAlone
  <2>. QED
    BY <1>1, <2>1, <2>2, DepthTypeCorrect, PTL DEF Spec, DepthSpec
<1>6. Spec => [](part = "ft_sensor" => FTTypeOK)
  <2>1. part = "ft_sensor" /\ [Next]_vars => (part = "ft_sensor")' /\ [FTNext]_ftVars
    BY PartsAlone
  <2>2. ~ (part = "ft_sensor") /\ [Next]_vars => ~ (part = "ft_sensor")'
    BY PartsAlone
  <2>. QED
    BY <1>1, <2>1, <2>2, FTTypeCorrect, PTL DEF Spec, FTSpec
<1>7. Spec => [](part = "klt_tracker" => FeatureTypeOK)
  <2>1. part = "klt_tracker" /\ [Next]_vars => (part = "klt_tracker")' /\ [FeatureNext]_featureVars
    BY PartsAlone
  <2>2. ~ (part = "klt_tracker") /\ [Next]_vars => ~ (part = "klt_tracker")'
    BY PartsAlone
  <2>. QED
    BY <1>1, <2>1, <2>2, FeatureTypeCorrect, PTL DEF Spec, FeatureSpec
<1>8. Spec => [](part = "camera" => SamplingTypeOK)
  <2>1. part = "camera" /\ [Next]_vars => (part = "camera")' /\ [CameraNext]_samplingVars
    BY PartsAlone
  <2>2. ~ (part = "camera") /\ [Next]_vars => ~ (part = "camera")'
    BY PartsAlone
  <2>. QED
    BY <1>1, <2>1, <2>2, SamplingTypeCorrect, PTL DEF Spec, CameraSpec
<1>9. Spec => [](part = "hand_eye" => SamplingTypeOK)
  <2>1. part = "hand_eye" /\ [Next]_vars => (part = "hand_eye")' /\ [HandEyeNext]_samplingVars
    BY PartsAlone
  <2>2. ~ (part = "hand_eye") /\ [Next]_vars => ~ (part = "hand_eye")'
    BY PartsAlone
  <2>. QED
    BY <1>1, <2>1, <2>2, SamplingTypeCorrect, PTL DEF Spec, HandEyeSpec
<1>10. (/\ (part = "suction" => SuctionTypeOK)
      /\ (part = "precision" => PrecisionTypeOK)
      /\ (part = "point_to" => PointToTypeOK)
      /\ (part = "depth_filter" => DepthTypeOK)
      /\ (part = "ft_sensor" => FTTypeOK)
      /\ (part = "klt_tracker" => FeatureTypeOK)
      /\ (part = "camera" => SamplingTypeOK)
      /\ (part = "hand_eye" => SamplingTypeOK))
     => DeviceTypesOK
  BY DEF DeviceTypesOK
<1>. QED
  BY <1>2, <1>3, <1>4, <1>5, <1>6, <1>7, <1>8, <1>9, <1>10, PTL
=============================================================================
