------------------------------ MODULE NodeProofs ------------------------------
(***************************************************************************)
(* Theorems about the nodes that serve images and samples and point the    *)
(* head: what their threads share stays consistent however they            *)
(* interleave, for any cameras, goals and bounds.                          *)
(***************************************************************************)
EXTENDS DepthFilter, FTSensorBroadcaster, FeatureTracker, SampleTaking, PointTo,
        SequenceTheorems, WellFoundedInduction, TLAPS

-----------------------------------------------------------------------------
(* The depth filter.                                                       *)

\* The region is inside the image of the camera whose frame is filtered, and
\* is what was cut, until a parameter is set.
CutInv ==
  /\ filtering.at # "idle" => filtering.camera \in Cameras
  /\ filtering.at # "idle" /\ ~ disturbed =>
       roi.top < roi.bottom /\ roi.bottom <= Height[filtering.camera]
  /\ filtering.cut # {} => filtering.at # "idle" /\ ~ disturbed

DepthInv == DepthTypeOK /\ CutInv /\ RegionsAgree

\* The rows are those of the highest images.
LEMMA RowsOfCameras ==
  \E h \in Nat : Rows = 0 .. h /\ \A c \in Cameras : Height[c] \in Nat /\ Height[c] <= h
<1>. DEFINE Heights == {Height[c] : c \in Cameras}
            IsMax(h) == h \in Heights /\ \A c \in Cameras : Height[c] <= h
            h0 == CHOOSE h \in Heights : \A c \in Cameras : Height[c] <= h
<1>1. \E h : IsMax(h)
  <2>1. PICK c \in Cameras : \A d \in Cameras : Height[d] <= Height[c]
    BY DepthFilterAssumption
  <2>. QED
    BY <2>1
<1>2. h0 \in Heights /\ \A c \in Cameras : Height[c] <= h0
  BY <1>1
<1>3. h0 \in Nat
  BY <1>2, DepthFilterAssumption
<1>. QED
  BY <1>2, <1>3, DepthFilterAssumption DEF Rows

\* A region that is cut to an image is one, and inside the image.
LEMMA ClampedIsInside ==
  ASSUME roi \in Regions, NEW c \in Cameras
  PROVE  /\ ClampedTo(c) \in Regions
         /\ ClampedTo(c).top <= ClampedTo(c).bottom
         /\ ClampedTo(c).bottom <= Height[c]
<1>1. PICK h \in Nat : Rows = 0 .. h /\ Height[c] \in Nat /\ Height[c] <= h
  BY RowsOfCameras
<1>2. roi.top \in 0 .. h /\ roi.bottom \in 0 .. h
  BY <1>1 DEF Regions
<1>. QED
  BY <1>1, <1>2 DEF ClampedTo, Regions, Lower, Upper

\* The multiplexer keeps its types.
LEMMA MultiplexerStepType ==
  ASSUME MultiplexerTypeOK, MultiplexerNext
  PROVE  MultiplexerTypeOK'
<1>. USE TopicsAssumption DEF MultiplexerTypeOK
<1>1. CASE ActivateCamera
  BY <1>1 DEF ActivateCamera
<1>2. ASSUME NEW c \in Cameras, Forward(c) PROVE MultiplexerTypeOK'
  <2>1. sent[c] \in 0 .. Topics - 1 /\ synced[c] \in 0 .. Topics
    OBVIOUS
  <2>2. (sent[c] + 1) % Topics \in 0 .. Topics - 1
    BY <2>1
  <2>3. sent' \in [Cameras -> 0 .. Topics - 1] /\ UNCHANGED activeCamera
    BY <1>2, <2>2 DEF Forward
  <2>4. synced' \in [Cameras -> 0 .. Topics]
    BY <1>2, <2>1 DEF Forward
  <2>. QED
    BY <2>3, <2>4
<1>. QED
  BY <1>1, <1>2 DEF MultiplexerNext

LEMMA DepthInitInv == DepthInit => DepthInv
<1>. SUFFICES ASSUME DepthInit PROVE DepthInv
  OBVIOUS
<1>. USE DEF DepthInit, Waits
<1>1. PICK h \in Nat : Rows = 0 .. h
  BY RowsOfCameras
<1>2. roi \in Regions
  <2>1. \E r \in Rows : \A s \in Rows : s <= r
    <3>. h \in Rows /\ \A s \in Rows : s <= h
      BY <1>1
    <3>. QED
      OBVIOUS
  <2>. QED
    BY <1>1, <2>1 DEF Regions
<1>3. MultiplexerTypeOK
  BY TopicsAssumption DEF MultiplexerInit, MultiplexerTypeOK
<1>. QED
  BY <1>2, <1>3 DEF DepthInv, DepthTypeOK, CutInv, RegionsAgree

LEMMA DepthStepInv == DepthInv /\ [DepthNext]_depthFilterVars => DepthInv'
<1>. SUFFICES ASSUME DepthInv, [DepthNext]_depthFilterVars PROVE DepthInv'
  OBVIOUS
<1>. USE DEF DepthInv, DepthTypeOK, CutInv, RegionsAgree
<1>m. UNCHANGED multiplexerVars => MultiplexerTypeOK'
  BY DEF multiplexerVars, MultiplexerTypeOK
<1>1. CASE MultiplexerNext /\ UNCHANGED depthVars
  BY <1>1, MultiplexerStepType DEF depthVars
<1>2. CASE SetVariable
  <2>1. roi' \in Regions
    BY <1>2 DEF SetVariable, Regions
  <2>. QED
    BY <1>2, <1>m, <2>1 DEF SetVariable
<1>3. CASE SaveBg
  BY <1>3, <1>m DEF SaveBg
<1>4. ASSUME NEW c \in Cameras, FilterBegins(c) PROVE DepthInv'
  <2>1. MultiplexerTypeOK'
    BY <1>4, TopicsAssumption DEF FilterBegins, MultiplexerTypeOK
  <2>2. filtering' = filtering \/ filtering' = [at |-> "keep", camera |-> c, cut |-> {}]
    BY <1>4 DEF FilterBegins
  <2>3. DepthTypeOK'
    BY <1>4, <2>1, <2>2, ClampedIsInside DEF FilterBegins
  <2>4. filtering.cut = {} /\ filtering'.cut = {} /\ filtering'.at \in {"idle", "keep"}
    BY <1>4, <2>2 DEF FilterBegins
  <2>5. filtering'.at # "idle" =>
          filtering'.camera = c /\ roi'.top < roi'.bottom /\ roi'.bottom <= Height'[c]
    <3>1. PICK h \in Nat : Rows = 0 .. h
      BY RowsOfCameras
    <3>. HAVE filtering'.at # "idle"
    <3>2. roi'.top # roi'.bottom /\ roi' = ClampedTo(c) /\ filtering'.camera = c
      BY <1>4 DEF FilterBegins
    <3>3. roi'.top \in Nat /\ roi'.bottom \in Nat
      BY <3>1, <3>2, ClampedIsInside DEF Regions
    <3>. QED
      BY <3>2, <3>3, ClampedIsInside
  <2>6. CutInv'
    BY <2>4, <2>5
  <2>7. RegionsAgree'
    BY <1>4, <2>4 DEF FilterBegins
  <2>. QED
    BY <2>3, <2>6, <2>7
<1>5. CASE KeepOriginal
  BY <1>5, <1>m DEF KeepOriginal, Step
<1>6. CASE CutOut
  <2>1. CASE filtering' = Waits /\ UNCHANGED roi
    BY <1>6, <1>m, <2>1 DEF CutOut, Waits
  <2>2. CASE filtering.at \in {"info", "depth"}
    <3>1. /\ filtering'.at \in {"depth", "load", "image"}
          /\ filtering'.camera = filtering.camera
          /\ filtering'.cut = IF disturbed THEN {} ELSE filtering.cut \cup {roi}
          /\ filtering' = [filtering EXCEPT !.at = filtering'.at, !.cut = filtering'.cut]
      BY <1>6, <2>2 DEF CutOut
    <3>2. UNCHANGED <<multiplexerVars, roi, threshBg, depthOrg, depthBg, bgFile, saving, disturbed>>
      BY <1>6 DEF CutOut
    <3>3. DepthTypeOK'
      <4>1. filtering'.cut \in SUBSET Regions
        BY <3>1
      <4>. QED
        BY <1>m, <3>1, <3>2, <4>1
    <3>4. CutInv'
      BY <2>2, <3>1, <3>2
    <3>5. RegionsAgree'
      BY <2>2, <3>1, <3>2
    <3>. QED
      BY <3>3, <3>4, <3>5
  <2>. QED
    BY <1>6, <2>1, <2>2 DEF CutOut
<1>7. CASE LoadBg
  BY <1>7, <1>m DEF LoadBg, Step
<1>8. CASE RemoveBg
  BY <1>8, <1>m DEF RemoveBg, Step
<1>9. CASE UNCHANGED depthFilterVars
  BY <1>9, <1>m DEF depthFilterVars, depthVars
<1>. QED
  BY <1>1, <1>2, <1>3, <1>4, <1>5, <1>6, <1>7, <1>8, <1>9 DEF DepthNext, Filter

\* The invariant of the depth filter.
THEOREM DepthInvariant == DepthSpec => []DepthInv
  BY DepthInitInv, DepthStepInv, PTL DEF DepthSpec

\* The variables of the depth filter, and of the multiplexer before it, keep
\* their types; in particular the region stays inside the highest images.
THEOREM DepthTypeCorrect == DepthSpec => []DepthTypeOK
<1>1. DepthInv => DepthTypeOK
  BY DEF DepthInv
<1>. QED
  BY <1>1, DepthInvariant, PTL

\* RegionsAgree: whatever cameras there are and however high their images
\* are, what is published of a frame shows one region inside the image
\* unless a parameter is set meanwhile, and the background that is saved,
\* used or removed is there.
THEOREM OneRegionPerFrame == DepthSpec => []RegionsAgree
<1>1. DepthInv => RegionsAgree
  BY DEF DepthInv
<1>. QED
  BY <1>1, DepthInvariant, PTL

-----------------------------------------------------------------------------
(* The force-torque sensor.                                                *)

\* While a sample is asked for and not yet counted, fewer are counted than
\* requested; one that is being taken is counted; and none is taken between
\* the two steps of clearing.
CountInv ==
  /\ doSample => requested > 0
  /\ ~ torn =>
       /\ doSample /\ update \notin {"sum", "taken"} => nsamples < requested
       /\ update \in {"sum", "taken"} => nsamples > 0 /\ service # "clear"
       /\ service = "clear" => nsamples = 0

FTInv == FTTypeOK /\ CountInv /\ SamplesWereAsked

LEMMA FTInitInv == FTInit => FTInv
<1>. SUFFICES ASSUME FTInit PROVE FTInv
  OBVIOUS
<1>1. FTTypeOK
  <2>1. params \in Parameters
    <3>. params = [mass |-> "given", offset |-> "given"]
      BY DEF FTInit
    <3>. QED
      BY DEF Parameters
  <2>2. saved \subseteq Parameters /\ requested \in 0 .. MaxSamples
    BY SamplesAssumption DEF FTInit
  <2>3. {joints, doSample, doReset, torn} \subseteq BOOLEAN
    BY DEF FTInit
  <2>. QED
    BY <2>1, <2>2, <2>3 DEF FTInit, FTTypeOK
<1>2. CountInv /\ SamplesWereAsked
  BY DEF FTInit, CountInv, SamplesWereAsked
<1>. QED
  BY <1>1, <1>2 DEF FTInv

LEMMA FTStepInv == FTInv /\ [FTNext]_ftVars => FTInv'
<1>. SUFFICES ASSUME FTInv, [FTNext]_ftVars PROVE FTInv'
  OBVIOUS
<1>. USE SamplesAssumption DEF FTInv, FTTypeOK, Parameters, CountInv, SamplesWereAsked
<1>1. CASE OnInit
  <2>1. lifecycle' \in {"unconfigured", "finalized"} /\ joints' \in BOOLEAN /\ update = "idle"
    BY <1>1 DEF OnInit
  <2>2. UNCHANGED <<doSample, doReset, nsamples, sums, params, saved, update, service, requested, torn>>
    BY <1>1 DEF OnInit
  <2>. QED
    BY <2>1, <2>2
<1>2. CASE OnConfigure
  BY <1>2 DEF OnConfigure, LifecycleGoes
<1>3. CASE OnActivate
  BY <1>3 DEF OnActivate, LifecycleGoes
<1>4. CASE OnDeactivate
  BY <1>4 DEF OnDeactivate, LifecycleGoes
<1>5. CASE JointStateCB
  BY <1>5 DEF JointStateCB, Serves
<1>6. CASE TakeSampleCB
  BY <1>6 DEF TakeSampleCB, Serves
<1>7. CASE ResetBiasCB
  BY <1>7 DEF ResetBiasCB, Serves
<1>8. CASE ClearSamplesCB
  <2>. USE <1>8 DEF ClearSamplesCB, Serves
  <2>1. FTTypeOK'
    <3>1. requested' \in 0 .. MaxSamples
      OBVIOUS
    <3>. QED
      BY <3>1
  <2>2. CountInv' /\ SamplesWereAsked'
    <3>. /\ UNCHANGED <<doSample, update>>
         /\ ~ torn' => ~ torn /\ update \notin {"sum", "taken"}
      OBVIOUS
    <3>. doSample \in BOOLEAN /\ torn \in BOOLEAN
      OBVIOUS
    <3>1. CASE service = "clear"
      <4>. service' = "idle" /\ sums' = 0 /\ UNCHANGED <<nsamples, requested>>
        BY <3>1
      <4>. QED
        BY <3>1
    <3>2. CASE service # "clear"
      <4>. service' = "clear" /\ nsamples' = 0
        BY <3>2
      <4>1. CASE doSample
        <5>. requested' = 1
          BY <3>2, <4>1
        <5>. QED
          BY <4>1
      <4>2. CASE ~ doSample
        <5>. requested' = 0
          BY <3>2, <4>2
        <5>. QED
          BY <4>2
      <4>. QED
        BY <4>1, <4>2
    <3>. QED
      BY <3>1, <3>2
  <2>. QED
    BY <2>1, <2>2
<1>9. CASE ComputeCalibrationCB
  BY <1>9 DEF ComputeCalibrationCB, Serves
<1>10. CASE SaveCalibrationCB
  BY <1>10 DEF SaveCalibrationCB, Serves
<1>11. CASE UpdateBegins
  BY <1>11 DEF UpdateBegins, Goes
<1>12. CASE LookupJoints
  BY <1>12 DEF LookupJoints, Goes, GetJntPos
<1>13. CASE LookAtFlags
  BY <1>13 DEF LookAtFlags, Goes
<1>14. CASE AddToSums
  BY <1>14 DEF AddToSums, Goes
<1>15. CASE SampleTaken
  BY <1>15 DEF SampleTaken, Goes
<1>16. CASE ResetBias
  BY <1>16 DEF ResetBias, Goes
<1>17. CASE PublishWrench
  BY <1>17 DEF PublishWrench, Goes
<1>18. CASE UNCHANGED ftVars
  BY <1>18 DEF ftVars
<1>. QED
  BY <1>1, <1>2, <1>3, <1>4, <1>5, <1>6, <1>7, <1>8, <1>9,
     <1>10, <1>11, <1>12, <1>13, <1>14, <1>15, <1>16, <1>17, <1>18 DEF FTNext

\* The invariant of the force-torque sensor.
THEOREM FTInvariant == FTSpec => []FTInv
  BY FTInitInv, FTStepInv, PTL DEF FTSpec

\* The variables of the force-torque sensor keep their types, and it is
\* updated only while it is active.
THEOREM FTTypeCorrect == FTSpec => []FTTypeOK
<1>1. FTInv => FTTypeOK
  BY DEF FTInv
<1>. QED
  BY <1>1, FTInvariant, PTL

\* SamplesWereAsked: however many samples are requested, they are counted as
\* often as they are summed and no more often than requested, unless they
\* are cleared while one is taken; a calibration has three samples or more.
THEOREM SamplesAreCounted == FTSpec => []SamplesWereAsked
<1>1. FTInv => SamplesWereAsked
  BY DEF FTInv
<1>. QED
  BY <1>1, FTInvariant, PTL

-----------------------------------------------------------------------------
(* The calibrators.                                                        *)

Increasing(s) == \A i, j \in 1 .. Len(s) : i < j => s[i] < s[j]

\* Frames are received in order, and what is kept since the request began is
\* later than all that was heard before.
FramesInv ==
  /\ Increasing(observed)
  /\ \A i \in 1 .. Len(observed) : heard < observed[i] /\ observed[i] <= frames
  /\ heard <= frames /\ pose <= heard
  /\ calibrator.at # "idle" => calibrator.before <= heard
  /\ calibrator.at # "idle" /\ pose # 0 => calibrator.before < pose
  /\ calibrator.at = "lookup" => calibrator.frame = pose /\ pose # 0

\* Requests are served in order, each once.
RequestsInv ==
  /\ Increasing(queue)
  /\ \A i \in 1 .. Len(queue) : calibrator.request < queue[i] /\ queue[i] <= Len(outcome)
  /\ calibrator.request <= Len(outcome)
  /\ calibrator.at # "idle" => calibrator.request \in Requests
  /\ Len(outcome) <= MaxRequests

\* Samples are older than the request that is served.
OlderInv ==
  \A i \in 1 .. Len(samples) :
    /\ samples[i].frame <= heard
    /\ samples[i].request <= calibrator.request
    /\ calibrator.at # "idle" =>
         samples[i].frame <= calibrator.before /\ samples[i].request < calibrator.request

SamplingInv == SamplingTypeOK /\ FramesInv /\ RequestsInv /\ OlderInv /\ SamplesFresh

\* The rest of an increasing sequence is increasing, and greater than its head.
LEMMA TailIncreases ==
  ASSUME NEW S \in SUBSET Nat, NEW s \in Seq(S), s # <<>>, Increasing(s)
  PROVE  /\ Head(s) = s[1] /\ Head(s) \in S /\ 1 \in 1 .. Len(s)
         /\ Tail(s) \in Seq(S) /\ Len(Tail(s)) = Len(s) - 1 /\ Increasing(Tail(s))
         /\ \A i \in 1 .. Len(Tail(s)) : Tail(s)[i] = s[i + 1] /\ Head(s) < Tail(s)[i]
<1>1. /\ Head(s) = s[1] /\ Head(s) \in S /\ 1 \in 1 .. Len(s)
      /\ Tail(s) \in Seq(S) /\ Len(Tail(s)) = Len(s) - 1
  OBVIOUS
<1>2. \A i \in 1 .. Len(Tail(s)) : Tail(s)[i] = s[i + 1] /\ i + 1 \in 1 .. Len(s)
  BY <1>1
<1>. QED
  BY <1>1, <1>2 DEF Increasing

\* An increasing sequence to which a greater element is appended is increasing.
LEMMA AppendIncreases ==
  ASSUME NEW S \in SUBSET Nat, NEW s \in Seq(S), NEW e \in S, Increasing(s),
         \A i \in 1 .. Len(s) : s[i] < e
  PROVE  /\ Append(s, e) \in Seq(S) /\ Len(Append(s, e)) = Len(s) + 1 /\ Increasing(Append(s, e))
         /\ \A i \in 1 .. Len(s) : Append(s, e)[i] = s[i]
         /\ Append(s, e)[Len(s) + 1] = e
<1>1. /\ Append(s, e) \in Seq(S) /\ Len(Append(s, e)) = Len(s) + 1
      /\ \A i \in 1 .. Len(s) : Append(s, e)[i] = s[i]
      /\ Append(s, e)[Len(s) + 1] = e
  OBVIOUS
<1>. QED
  BY <1>1 DEF Increasing

LEMMA SamplingInitInv == SamplingInit => SamplingInv
<1>. SUFFICES ASSUME SamplingInit PROVE SamplingInv
  OBVIOUS
<1>. USE DEF SamplingInit
<1>1. SamplingTypeOK
  <2>1. 0 \in Frames /\ 0 \in 0 .. MaxRequests
    BY SampleTakingAssumption DEF Frames
  <2>2. calibrator \in [at : {"idle", "wait", "lookup"}, request : 0 .. MaxRequests,
                        frame : Frames, before : Frames]
    BY <2>1
  <2>. QED
    BY <2>1, <2>2 DEF SamplingTypeOK
<1>2. FramesInv /\ RequestsInv
  BY SampleTakingAssumption DEF FramesInv, RequestsInv, Increasing
<1>3. OlderInv /\ SamplesFresh
  BY DEF OlderInv, SamplesFresh
<1>. QED
  BY <1>1, <1>2, <1>3 DEF SamplingInv

\* The answer to the request that is served changes no other.
LEMMA AnswerKeeps ==
  ASSUME SamplingInv, NEW how \in {"success", "failure"}, calibrator.at # "idle", Answer(how)
  PROVE  /\ calibrator' \in [at : {"idle"}, request : 0 .. MaxRequests, frame : Frames, before : Frames]
         /\ calibrator' = [calibrator EXCEPT !.at = "idle"]
         /\ outcome' \in Seq({"none", "success", "failure"}) /\ Len(outcome') = Len(outcome)
<1>. calibrator' = [calibrator EXCEPT !.at = "idle"]
  BY DEF Answer
<1>1. calibrator' \in [at : {"idle"}, request : 0 .. MaxRequests, frame : Frames, before : Frames]
  BY DEF SamplingInv, SamplingTypeOK
<1>2. outcome \in Seq({"none", "success", "failure"})
  BY DEF SamplingInv, SamplingTypeOK
<1>3. outcome' = [outcome EXCEPT ![calibrator.request] = how]
  BY DEF Answer
<1>4. calibrator.request \in 1 .. Len(outcome)
  BY SampleTakingAssumption DEF SamplingInv, RequestsInv, Requests
<1>. QED
  BY <1>1, <1>2, <1>3, <1>4, ExceptSeq

\* A request that is answered leaves frames and requests in order.
LEMMA AnswerOrder ==
  ASSUME SamplingInv, NEW how \in {"success", "failure"}, calibrator.at # "idle", Answer(how),
         UNCHANGED <<frames, observed, pose, heard, queue, task>>
  PROVE  FramesInv' /\ RequestsInv'
<1>1. calibrator'.at = "idle" /\ calibrator'.request = calibrator.request
  BY AnswerKeeps DEF SamplingInv, SamplingTypeOK
<1>2. FramesInv'
  BY <1>1 DEF SamplingInv, FramesInv, Increasing
<1>3. RequestsInv'
  BY <1>1, AnswerKeeps DEF SamplingInv, RequestsInv, Increasing
<1>. QED
  BY <1>2, <1>3

\* A request that fails stores nothing.
LEMMA FailureKeeps ==
  ASSUME SamplingInv, calibrator.at # "idle", Answer("failure"),
         UNCHANGED <<frames, observed, pose, heard, queue, samples, task>>
  PROVE  SamplingInv'
<1>1. SamplingTypeOK'
  BY AnswerKeeps DEF SamplingInv, SamplingTypeOK
<1>2. calibrator'.at = "idle" /\ calibrator'.request = calibrator.request
  BY AnswerKeeps DEF SamplingInv, SamplingTypeOK
<1>3. OlderInv' /\ SamplesFresh'
  BY <1>2 DEF SamplingInv, OlderInv, SamplesFresh
<1>. QED
  BY <1>1, <1>3, AnswerOrder DEF SamplingInv

\* What is stored is the newest sample.
LEMMA StoreKeeps ==
  ASSUME SamplingInv, calibrator.at \in {"wait", "lookup"}, pose # 0, Store(pose, pose),
         UNCHANGED <<frames, observed, pose, heard, queue, task>>
  PROVE  SamplingInv'
<1>. DEFINE new == [frame |-> pose, effector |-> pose,
                    request |-> calibrator.request, before |-> calibrator.before]
<1>1. /\ calibrator' \in [at : {"idle"}, request : 0 .. MaxRequests, frame : Frames, before : Frames]
      /\ calibrator' = [calibrator EXCEPT !.at = "idle"]
      /\ outcome' \in Seq({"none", "success", "failure"}) /\ Len(outcome') = Len(outcome)
  BY AnswerKeeps DEF Store
<1>2. new \in Sample
  BY DEF SamplingInv, SamplingTypeOK, RequestsInv, Sample
<1>3. samples \in Seq(Sample) /\ samples' = Append(samples, new)
  BY DEF Store, SamplingInv, SamplingTypeOK
<1>4. /\ samples' \in Seq(Sample) /\ Len(samples') = Len(samples) + 1
      /\ \A i \in 1 .. Len(samples) : samples'[i] = samples[i] /\ samples[i] \in Sample
      /\ samples'[Len(samples')] = new
  BY <1>2, <1>3
<1>5. SamplingTypeOK'
  BY <1>1, <1>4 DEF SamplingInv, SamplingTypeOK
<1>6. FramesInv' /\ RequestsInv'
  BY AnswerOrder DEF Store
<1>7. pose \in Nat /\ heard \in Nat /\ calibrator.before \in Nat /\ calibrator.request \in Nat
  BY DEF SamplingInv, SamplingTypeOK, Frames
<1>8. \A i \in 1 .. Len(samples) : samples[i].frame \in Nat /\ samples[i].request \in Nat
  <2>1. \A s \in Sample : s.frame \in Nat /\ s.request \in Nat
    BY DEF Sample, Frames, Requests
  <2>. QED
    BY <1>4, <2>1
<1>9. calibrator.before < pose /\ pose <= heard
  BY DEF SamplingInv, FramesInv
<1>10. OlderInv'
  <2>. SUFFICES ASSUME NEW i \in 1 .. Len(samples')
                PROVE  samples'[i].frame <= heard /\ samples'[i].request <= calibrator.request
    BY <1>1 DEF OlderInv
  <2>1. CASE i \in 1 .. Len(samples)
    BY <1>4, <2>1 DEF SamplingInv, OlderInv
  <2>2. CASE i = Len(samples')
    BY <1>4, <1>7, <1>9, <2>2
  <2>. QED
    BY <1>3, <1>4, <2>1, <2>2
<1>11. SamplesFresh'
  <2>. SUFFICES ASSUME NEW i \in 1 .. Len(samples')
                PROVE  /\ samples'[i].effector = samples'[i].frame
                       /\ samples'[i].frame > samples'[i].before
                       /\ \A j \in 1 .. i - 1 : samples'[j].frame < samples'[i].frame
                                                /\ samples'[j].request < samples'[i].request
    BY <1>4 DEF SamplesFresh
  <2>1. CASE i \in 1 .. Len(samples)
    <3>1. \A j \in 1 .. i - 1 : j \in 1 .. Len(samples)
      BY <1>3, <2>1
    <3>. QED
      BY <1>3, <1>4, <2>1, <3>1 DEF SamplingInv, SamplesFresh
  <2>2. CASE i = Len(samples')
    <3>1. \A j \in 1 .. i - 1 : j \in 1 .. Len(samples)
      BY <1>3, <1>4, <2>2
    <3>2. \A j \in 1 .. Len(samples) :
            samples[j].frame <= calibrator.before /\ samples[j].request < calibrator.request
      BY DEF SamplingInv, OlderInv
    <3>. QED
      BY <1>4, <1>7, <1>8, <1>9, <2>2, <3>1, <3>2
  <2>. QED
    BY <1>3, <1>4, <2>1, <2>2
<1>. QED
  BY <1>5, <1>6, <1>10, <1>11 DEF SamplingInv

\* Every step that requests, observations and the task share.
LEMMA SamplingStep ==
  ASSUME SamplingInv, Sampling
  PROVE  SamplingInv'
<1>. USE DEF SamplingInv
<1>t. /\ frames \in Frames /\ pose \in Frames /\ heard \in Frames
      /\ observed \in Seq(Frames) /\ queue \in Seq(Requests)
      /\ Frames \in SUBSET Nat /\ Requests \in SUBSET Nat
  BY DEF SamplingTypeOK, Frames, Requests
<1>e. /\ \A i \in 1 .. Len(observed) : observed[i] \in Nat
      /\ \A i \in 1 .. Len(queue) : queue[i] \in Nat
      /\ \A i \in 1 .. Len(samples) : samples[i].frame \in Nat /\ samples[i].request \in Nat
      /\ calibrator.before \in Nat /\ calibrator.request \in Nat
  <2>1. \A s \in Sample : s.frame \in Nat /\ s.request \in Nat
    BY DEF Sample, Frames, Requests
  <2>2. samples \in Seq(Sample)
    BY DEF SamplingTypeOK
  <2>3. calibrator.before \in Nat /\ calibrator.request \in Nat
    BY DEF SamplingTypeOK, Frames
  <2>4. \A i \in 1 .. Len(observed) : observed[i] \in Nat
    <3>. \A i \in 1 .. Len(observed) : observed[i] \in Frames
      BY <1>t
    <3>. QED
      BY DEF Frames
  <2>5. \A i \in 1 .. Len(queue) : queue[i] \in Nat
    <3>. \A i \in 1 .. Len(queue) : queue[i] \in Requests
      BY <1>t
    <3>. QED
      BY DEF Requests
  <2>6. \A i \in 1 .. Len(samples) : samples[i] \in Sample
    BY <2>2
  <2>. QED
    BY <2>1, <2>3, <2>4, <2>5, <2>6
<1>1. CASE TakeFrame
  <2>. frames' = frames + 1 /\ frames' \in Frames /\ observed' = Append(observed, frames')
       /\ UNCHANGED <<pose, heard, queue, calibrator, samples, outcome, task>>
    BY <1>1, <1>t, SampleTakingAssumption DEF TakeFrame, Frames
  <2>. \A i \in 1 .. Len(observed) : observed[i] < frames'
    BY <1>t, <1>e DEF FramesInv
  <2>1. /\ observed' \in Seq(Frames) /\ Len(observed') = Len(observed) + 1 /\ Increasing(observed')
        /\ \A i \in 1 .. Len(observed) : observed'[i] = observed[i]
        /\ observed'[Len(observed) + 1] = frames'
    BY <1>t, AppendIncreases DEF FramesInv
  <2>2. SamplingTypeOK'
    BY <2>1 DEF SamplingTypeOK
  <2>3. FramesInv'
    <3>1. ASSUME NEW i \in 1 .. Len(observed)
          PROVE  heard < observed'[i] /\ observed'[i] <= frames'
      BY <1>t, <1>e, <2>1 DEF FramesInv
    <3>2. heard < frames' /\ heard <= frames'
      BY <1>t, <1>e DEF FramesInv
    <3>3. \A i \in 1 .. Len(observed') : heard < observed'[i] /\ observed'[i] <= frames'
      <4>. TAKE i \in 1 .. Len(observed')
      <4>. i \in 1 .. Len(observed) \/ i = Len(observed) + 1
        BY <2>1
      <4>. QED
        BY <2>1, <3>1, <3>2
    <3>. QED
      BY <2>1, <3>2, <3>3 DEF FramesInv
  <2>4. RequestsInv' /\ OlderInv' /\ SamplesFresh'
    BY DEF RequestsInv, OlderInv, SamplesFresh, Increasing
  <2>. QED
    BY <2>2, <2>3, <2>4
<1>2. CASE LoseFrame
  <2>. observed # <<>> /\ observed' = Tail(observed)
       /\ UNCHANGED <<frames, pose, heard, queue, calibrator, samples, outcome, task>>
    BY <1>2 DEF LoseFrame
  <2>1. /\ observed' \in Seq(Frames) /\ Len(observed') = Len(observed) - 1 /\ Increasing(observed')
        /\ \A i \in 1 .. Len(observed') : observed'[i] = observed[i + 1]
    BY <1>t, TailIncreases DEF FramesInv
  <2>2. SamplingTypeOK'
    BY <2>1 DEF SamplingTypeOK
  <2>3. FramesInv'
    <3>. \A i \in 1 .. Len(observed') : i + 1 \in 1 .. Len(observed)
      BY <2>1
    <3>. QED
      BY <2>1 DEF FramesInv
  <2>4. RequestsInv' /\ OlderInv' /\ SamplesFresh'
    BY DEF RequestsInv, OlderInv, SamplesFresh, Increasing
  <2>. QED
    BY <2>2, <2>3, <2>4
<1>3. CASE PoseCB
  <2>. /\ calibrator.at # "lookup" /\ observed # <<>>
       /\ pose' = Head(observed) /\ heard' = Head(observed) /\ observed' = Tail(observed)
       /\ UNCHANGED <<frames, queue, calibrator, samples, outcome, task>>
    BY <1>3 DEF PoseCB
  <2>1. /\ Head(observed) = observed[1] /\ Head(observed) \in Frames /\ 1 \in 1 .. Len(observed)
        /\ observed' \in Seq(Frames) /\ Len(observed') = Len(observed) - 1 /\ Increasing(observed')
        /\ \A i \in 1 .. Len(observed') : observed'[i] = observed[i + 1] /\ Head(observed) < observed'[i]
    BY <1>t, TailIncreases DEF FramesInv
  <2>2. SamplingTypeOK'
    BY <2>1 DEF SamplingTypeOK
  <2>3. heard < heard' /\ heard' <= frames
    BY <2>1 DEF FramesInv
  <2>5. FramesInv'
    <3>. \A i \in 1 .. Len(observed') : i + 1 \in 1 .. Len(observed)
      BY <2>1
    <3>. QED
      BY <1>t, <1>e, <2>1, <2>3 DEF FramesInv
  <2>6. RequestsInv' /\ SamplesFresh'
    BY DEF RequestsInv, SamplesFresh, Increasing
  <2>7. OlderInv'
    <3>. heard \in Nat /\ heard' \in Nat
      BY <1>t, <2>1
    <3>. QED
      BY <1>e, <2>3 DEF OlderInv
  <2>. QED
    BY <2>2, <2>5, <2>6, <2>7
<1>4. CASE BeginSample
  <2>. /\ calibrator.at = "idle" /\ queue # <<>> /\ queue' = Tail(queue)
       /\ calibrator' = [at |-> "wait", request |-> Head(queue), frame |-> 0, before |-> heard]
       /\ pose' = 0
       /\ UNCHANGED <<frames, observed, heard, samples, outcome, task>>
    BY <1>4 DEF BeginSample
  <2>1. /\ Head(queue) = queue[1] /\ Head(queue) \in Requests /\ 1 \in 1 .. Len(queue)
        /\ queue' \in Seq(Requests) /\ Len(queue') = Len(queue) - 1 /\ Increasing(queue')
        /\ \A i \in 1 .. Len(queue') : queue'[i] = queue[i + 1] /\ Head(queue) < queue'[i]
    BY <1>t, TailIncreases DEF RequestsInv
  <2>2. 0 \in Frames /\ Requests \in SUBSET (0 .. MaxRequests)
    BY SampleTakingAssumption DEF Frames, Requests
  <2>3. SamplingTypeOK'
    BY <1>t, <2>1, <2>2 DEF SamplingTypeOK
  <2>4. FramesInv'
    BY <1>t DEF FramesInv, Increasing
  <2>5. calibrator.request < Head(queue) /\ Head(queue) <= Len(outcome)
    BY <2>1 DEF RequestsInv
  <2>6. RequestsInv'
    <3>. \A i \in 1 .. Len(queue') : i + 1 \in 1 .. Len(queue)
      BY <2>1
    <3>. QED
      BY <2>1, <2>5 DEF RequestsInv
  <2>7. OlderInv'
    <3>. Head(queue) \in Nat
      BY <1>t, <2>1
    <3>. QED
      BY <1>e, <2>5 DEF OlderInv
  <2>8. SamplesFresh'
    BY DEF SamplesFresh
  <2>. QED
    BY <2>3, <2>4, <2>6, <2>7, <2>8
<1>5. CASE WaitTimesOut
  <2>. calibrator.at = "wait" /\ Answer("failure")
       /\ UNCHANGED <<frames, observed, pose, heard, queue, samples, task>>
    BY <1>5 DEF WaitTimesOut
  <2>. QED
    BY FailureKeeps
<1>6. CASE Reset
  <2>. calibrator.at = "idle" /\ samples' = <<>>
       /\ UNCHANGED <<frames, observed, pose, heard, queue, calibrator, outcome, task>>
    BY <1>6 DEF Reset
  <2>. QED
    BY DEF SamplingTypeOK, FramesInv, RequestsInv, OlderInv, SamplesFresh, Increasing
<1>7. CASE AskForSample
  <2>. /\ Len(outcome) < MaxRequests
       /\ outcome' = Append(outcome, "none") /\ queue' = Append(queue, Len(outcome'))
       /\ task' = "waits"
       /\ UNCHANGED <<frames, observed, pose, heard, calibrator, samples>>
    BY <1>7 DEF AskForSample
  <2>1. outcome' \in Seq({"none", "success", "failure"}) /\ Len(outcome') = Len(outcome) + 1
    BY DEF SamplingTypeOK
  <2>2. Len(outcome') \in Requests /\ Len(outcome) \in Nat
    BY <2>1, SampleTakingAssumption DEF Requests, SamplingTypeOK
  <2>. \A i \in 1 .. Len(queue) : queue[i] < Len(outcome')
    BY <1>e, <2>1, <2>2 DEF RequestsInv
  <2>3. /\ queue' \in Seq(Requests) /\ Len(queue') = Len(queue) + 1 /\ Increasing(queue')
        /\ \A i \in 1 .. Len(queue) : queue'[i] = queue[i]
        /\ queue'[Len(queue) + 1] = Len(outcome')
    BY <1>t, <2>2, AppendIncreases DEF RequestsInv
  <2>4. SamplingTypeOK'
    BY <2>1, <2>3 DEF SamplingTypeOK
  <2>5. RequestsInv'
    BY <1>e, <2>1, <2>2, <2>3, SampleTakingAssumption DEF RequestsInv
  <2>6. FramesInv' /\ OlderInv' /\ SamplesFresh'
    BY DEF FramesInv, OlderInv, SamplesFresh, Increasing
  <2>. QED
    BY <2>4, <2>5, <2>6
<1>8. CASE SampleEnds \/ ComputeCalibration
  <2>. task' \in {"moves", "over"}
       /\ UNCHANGED <<frames, observed, pose, heard, queue, calibrator, samples, outcome>>
    BY <1>8 DEF SampleEnds, ComputeCalibration
  <2>. QED
    BY DEF SamplingTypeOK, FramesInv, RequestsInv, OlderInv, SamplesFresh, Increasing
<1>. QED
  BY <1>1, <1>2, <1>3, <1>4, <1>5, <1>6, <1>7, <1>8 DEF Sampling

\* The steps with which cameras, or hand and eye, take a sample.
LEMMA TakingStep ==
  ASSUME SamplingInv, TakeCorrespondences \/ TakePose \/ LookupEffector
  PROVE  SamplingInv'
<1>1. CASE TakeCorrespondences
  BY <1>1, StoreKeeps DEF TakeCorrespondences
<1>2. CASE TakePose
  <2>. /\ calibrator.at = "wait" /\ pose # 0
       /\ calibrator' = [calibrator EXCEPT !.at = "lookup", !.frame = pose]
       /\ UNCHANGED <<frames, observed, pose, heard, queue, samples, outcome, task>>
    BY <1>2 DEF TakePose
  <2>. USE DEF SamplingInv
  <2>1. SamplingTypeOK'
    BY DEF SamplingTypeOK
  <2>2. calibrator'.at = "lookup" /\ calibrator'.frame = pose
        /\ calibrator'.request = calibrator.request /\ calibrator'.before = calibrator.before
    BY DEF SamplingTypeOK
  <2>3. FramesInv'
    BY <2>2 DEF FramesInv, Increasing
  <2>4. RequestsInv' /\ OlderInv' /\ SamplesFresh'
    BY <2>2 DEF RequestsInv, OlderInv, SamplesFresh, Increasing
  <2>. QED
    BY <2>1, <2>3, <2>4
<1>3. CASE LookupEffector
  <2>1. calibrator.at = "lookup" /\ calibrator.frame = pose /\ pose # 0
        /\ UNCHANGED <<frames, observed, pose, heard, queue, task>>
    BY <1>3 DEF LookupEffector, SamplingInv, FramesInv
  <2>2. CASE Store(calibrator.frame, pose)
    BY <2>1, <2>2, StoreKeeps
  <2>3. CASE Answer("failure") /\ UNCHANGED samples
    BY <2>1, <2>3, FailureKeeps
  <2>. QED
    BY <1>3, <2>2, <2>3 DEF LookupEffector
<1>. QED
  BY <1>1, <1>2, <1>3

LEMMA SamplingStutter == SamplingInv /\ UNCHANGED samplingVars => SamplingInv'
  BY DEF samplingVars, SamplingInv, SamplingTypeOK, FramesInv, RequestsInv, OlderInv, SamplesFresh,
         Increasing

\* The invariant of the calibrators of cameras.
THEOREM CameraInvariant == CameraSpec => []SamplingInv
<1>1. SamplingInv /\ [CameraNext]_samplingVars => SamplingInv'
  BY SamplingStep, TakingStep, SamplingStutter DEF CameraNext
<1>. QED
  BY <1>1, SamplingInitInv, PTL DEF CameraSpec

\* The invariant of the calibrator of hand and eye.
THEOREM HandEyeInvariant == HandEyeSpec => []SamplingInv
<1>1. SamplingInv /\ [HandEyeNext]_samplingVars => SamplingInv'
  BY SamplingStep, TakingStep, SamplingStutter DEF HandEyeNext
<1>. QED
  BY <1>1, SamplingInitInv, PTL DEF HandEyeSpec

\* The variables of both calibrators keep their types.
THEOREM SamplingTypeCorrect == (CameraSpec => []SamplingTypeOK) /\ (HandEyeSpec => []SamplingTypeOK)
<1>1. SamplingInv => SamplingTypeOK
  BY DEF SamplingInv
<1>. QED
  BY <1>1, CameraInvariant, HandEyeInvariant, PTL

\* SamplesFresh, of the calibrators of cameras: however many frames and
\* requests there are and however late these are served, every sample is of
\* an observation received after its request began, and no two are of one.
THEOREM CameraSamplesFresh == CameraSpec => []SamplesFresh
<1>1. SamplingInv => SamplesFresh
  BY DEF SamplingInv
<1>. QED
  BY <1>1, CameraInvariant, PTL

\* SamplesFresh, of the calibrator of hand and eye: the same, and the marker
\* and the effector of a sample are of one time.
THEOREM HandEyeSamplesFresh == HandEyeSpec => []SamplesFresh
<1>1. SamplingInv => SamplesFresh
  BY DEF SamplingInv
<1>. QED
  BY <1>1, HandEyeInvariant, PTL

-----------------------------------------------------------------------------
(* Head pointing.                                                          *)

\* What the main thread acts on is the state that it is in.
StateInv ==
  /\ seen.at # "look" => seen.fsm = fsm
  /\ seen.at = "solve" => fsm = "solving"
  /\ seen.at = "watch" => fsm = "motion"

\* The flags of the two servers exclude each other, and belong to the goals.
FlagsInv ==
  /\ point.at = "idle" => ~ asked.active
  /\ point.at = "finished" => asked.finished
  /\ ~ (asked.active /\ tracked.active)
  /\ fsm \in {"solving", "motion"} /\ ~ asked.finished => asked.active
  /\ seen.asked /\ ~ asked.finished => asked.active
  /\ asked.active => target = point.goal /\ target \in PointGoals

\* The chain is that of the frame that is remembered, and the one that was
\* loaded for the goal that is to be solved.
ChainInv ==
  /\ alg.frame # NoPoint => alg.chain \in {alg.frame, NoPoint}
  /\ angles.chain = NoPoint => angles.target = NoPoint
  /\ seen.at = "solve" /\ asked.active /\ ~ overrun => alg.chain \in {target, NoPoint}

PointInv == PointToTypeOK /\ StateInv /\ FlagsInv /\ ChainInv /\ OneMaster

LEMMA PointInitInv == PointToInit => PointInv
<1>. SUFFICES ASSUME PointToInit PROVE PointInv
  OBVIOUS
<1>. USE PointToAssumption DEF PointToInit, Unseen, Machine, MaybePoint
<1>1. PointToTypeOK
  BY DEF PointToTypeOK
<1>2. StateInv /\ FlagsInv /\ ChainInv /\ OneMaster
  BY DEF StateInv, FlagsInv, ChainInv, OneMaster
<1>. QED
  BY <1>1, <1>2 DEF PointInv

\* The server of point_to, the server of track and the rest that the main
\* thread is told.
LEMMA PointServersStep ==
  ASSUME PointInv,
         \/ PointStart \/ PointStop \/ PointServer
         \/ TrackStart \/ TrackStop \/ TrackFinished \/ NewPoint
         \/ MotionEnds \/ JointStatesCB \/ ConfigUpdate
  PROVE  PointInv'
<1>. USE PointToAssumption
     DEF PointInv, PointToTypeOK, StateInv, FlagsInv, ChainInv, OneMaster, MaybePoint, Machine,
         flagVars, solvingVars
<1>1. CASE PointStart
  <2>1. PointToTypeOK'
    <3>1. point' \in [at : {"idle", "run", "finished"}, goal : MaybePoint,
                   left : SUBSET PointGoals]
      BY <1>1 DEF PointStart
    <3>2. asked' \in [active : BOOLEAN, finished : BOOLEAN, succeeded : BOOLEAN,
                   preempted : BOOLEAN, still : BOOLEAN]
      <4>. PICK still \in BOOLEAN :
             asked' = IF tracked.active
                        THEN [asked EXCEPT !.active = FALSE, !.finished = TRUE, !.succeeded = FALSE]
                        ELSE [active |-> TRUE, finished |-> FALSE, succeeded |-> FALSE,
                              preempted |-> asked.preempted \/ asked.active,
                              still |-> asked.still \/ still]
        BY <1>1 DEF PointStart
      <4>. (asked.preempted \/ asked.active) \in BOOLEAN /\ (asked.still \/ still) \in BOOLEAN
        OBVIOUS
      <4>1. CASE tracked.active
        BY <4>1
      <4>2. CASE ~ tracked.active
        BY <4>2
      <4>. QED
        BY <4>1, <4>2
    <3>3. target' \in MaybePoint
      BY <1>1 DEF PointStart
    <3>4. {newPoint, solved, jointsHeard, overrun}' \subseteq BOOLEAN
      BY <1>1 DEF PointStart
    <3>. QED
      BY <1>1, <3>1, <3>2, <3>3, <3>4 DEF PointStart
  <2>2. StateInv' /\ FlagsInv'
    BY <1>1 DEF PointStart
  <2>3. ChainInv'
    BY <1>1 DEF PointStart
  <2>4. OneMaster'
    BY <1>1 DEF PointStart
  <2>. QED
    BY <2>1, <2>2, <2>3, <2>4
<1>2. CASE PointStop
  <2>1. PointToTypeOK'
    <3>1. point' \in [at : {"idle", "run", "finished"}, goal : MaybePoint,
                   left : SUBSET PointGoals]
      BY <1>2 DEF PointStop
    <3>2. asked' \in [active : BOOLEAN, finished : BOOLEAN, succeeded : BOOLEAN,
                   preempted : BOOLEAN, still : BOOLEAN]
      BY <1>2 DEF PointStop
    <3>. QED
      BY <1>2, <3>1, <3>2 DEF PointStop
  <2>2. StateInv' /\ FlagsInv'
    BY <1>2 DEF PointStop
  <2>3. ChainInv'
    BY <1>2 DEF PointStop
  <2>4. OneMaster'
    BY <1>2 DEF PointStop
  <2>. QED
    BY <2>1, <2>2, <2>3, <2>4
<1>3. CASE PointServer
  <2>1. CASE PointFinished
    BY <2>1 DEF PointFinished
  <2>2. CASE PointResult
    <3>1. asked' \in [active : BOOLEAN, finished : BOOLEAN, succeeded : BOOLEAN,
                       preempted : BOOLEAN, still : BOOLEAN]
      BY <2>2 DEF PointResult
    <3>2. point' \in [at : {"idle", "run", "finished"}, goal : MaybePoint, left : SUBSET PointGoals]
      BY <2>2 DEF PointResult
    <3>3. PointToTypeOK'
      BY <2>2, <3>1, <3>2 DEF PointResult
    <3>4. StateInv' /\ FlagsInv' /\ ChainInv' /\ OneMaster'
      BY <2>2 DEF PointResult
    <3>. QED
      BY <3>3, <3>4
  <2>. QED
    BY <1>3, <2>1, <2>2 DEF PointServer
<1>4. CASE TrackStart
  <2>1. PointToTypeOK'
    BY <1>4 DEF TrackStart
  <2>2. StateInv' /\ FlagsInv'
    BY <1>4 DEF TrackStart
  <2>3. ChainInv'
    BY <1>4 DEF TrackStart
  <2>4. OneMaster'
    BY <1>4 DEF TrackStart
  <2>. QED
    BY <2>1, <2>2, <2>3, <2>4
<1>5. CASE TrackStop
  <2>1. PointToTypeOK'
    BY <1>5 DEF TrackStop
  <2>2. StateInv' /\ FlagsInv'
    BY <1>5 DEF TrackStop
  <2>3. ChainInv'
    BY <1>5 DEF TrackStop
  <2>4. OneMaster'
    BY <1>5 DEF TrackStop
  <2>. QED
    BY <2>1, <2>2, <2>3, <2>4
<1>6. CASE TrackFinished
  <2>1. PointToTypeOK'
    <3>1. track' \in {"idle", "run", "finished", "over"}
      BY <1>6 DEF TrackFinished
    <3>2. tracked' \in [active : BOOLEAN, finished : BOOLEAN]
      BY <1>6 DEF TrackFinished
    <3>. QED
      BY <1>6, <3>1, <3>2 DEF TrackFinished
  <2>2. StateInv' /\ FlagsInv'
    BY <1>6 DEF TrackFinished
  <2>3. ChainInv'
    BY <1>6 DEF TrackFinished
  <2>4. OneMaster'
    BY <1>6 DEF TrackFinished
  <2>. QED
    BY <2>1, <2>2, <2>3, <2>4
<1>7. CASE NewPoint
  <2>1. PointToTypeOK'
    BY <1>7 DEF NewPoint
  <2>2. StateInv' /\ FlagsInv'
    BY <1>7 DEF NewPoint
  <2>3. ChainInv'
    BY <1>7 DEF NewPoint
  <2>4. OneMaster'
    BY <1>7 DEF NewPoint
  <2>. QED
    BY <2>1, <2>2, <2>3, <2>4
<1>8. CASE MotionEnds
  <2>1. PointToTypeOK'
    BY <1>8 DEF MotionEnds
  <2>2. StateInv' /\ FlagsInv'
    BY <1>8 DEF MotionEnds
  <2>3. ChainInv'
    BY <1>8 DEF MotionEnds
  <2>4. OneMaster'
    BY <1>8 DEF MotionEnds
  <2>. QED
    BY <2>1, <2>2, <2>3, <2>4
<1>9. CASE JointStatesCB
  <2>1. PointToTypeOK'
    BY <1>9 DEF JointStatesCB
  <2>2. StateInv' /\ FlagsInv'
    BY <1>9 DEF JointStatesCB
  <2>3. ChainInv'
    BY <1>9 DEF JointStatesCB
  <2>4. OneMaster'
    BY <1>9 DEF JointStatesCB
  <2>. QED
    BY <2>1, <2>2, <2>3, <2>4
<1>10. CASE ConfigUpdate
  <2>1. PointToTypeOK'
    BY <1>10 DEF ConfigUpdate
  <2>2. StateInv' /\ FlagsInv'
    BY <1>10 DEF ConfigUpdate
  <2>3. ChainInv'
    BY <1>10 DEF ConfigUpdate
  <2>4. OneMaster'
    BY <1>10 DEF ConfigUpdate
  <2>. QED
    BY <2>1, <2>2, <2>3, <2>4
<1>. QED
  BY <1>1, <1>2, <1>3, <1>4, <1>5, <1>6, <1>7, <1>8, <1>9, <1>10

\* What the algorithm remembers.
AlgInv ==
  /\ alg \in [tree : BOOLEAN, frame : MaybePoint, chain : MaybePoint, solvers : MaybePoint]
  /\ alg.frame # NoPoint => alg.chain \in {alg.frame, NoPoint}

\* A chain that has been loaded for a goal is that of its frame, if there is one.
LEMMA LoadChainKeeps ==
  ASSUME PointInv, NEW g \in MaybePoint, LoadChain(g)
  PROVE  /\ AlgInv'
         /\ Loaded(g) /\ g \in PointGoals => alg'.chain \in {g, NoPoint}
<1>. USE PointToAssumption DEF AlgInv, MaybePoint
<1>. /\ alg \in [tree : BOOLEAN, frame : MaybePoint, chain : MaybePoint, solvers : MaybePoint]
     /\ alg.frame # NoPoint => alg.chain \in {alg.frame, NoPoint}
  BY DEF PointInv, PointToTypeOK, ChainInv
<1>1. CASE alg' = SetChain(g) /\ g \in Chainless
  <2>. alg' = [alg EXCEPT !.tree = TRUE, !.frame = g, !.chain = NoPoint]
    BY <1>1 DEF SetChain
  <2>. QED
    OBVIOUS
<1>2. CASE alg' = SetChain(g) /\ g \notin Chainless
  <2>. alg' = [tree |-> TRUE, frame |-> g, chain |-> g, solvers |-> g]
    BY <1>2 DEF SetChain
  <2>. QED
    OBVIOUS
<1>3. CASE alg.frame = g /\ UNCHANGED alg
  BY <1>3
<1>4. CASE ~ alg.tree /\ UNCHANGED alg
  BY <1>4 DEF Loaded
<1>. QED
  BY <1>1, <1>2, <1>3, <1>4 DEF LoadChain

\* A goal that is finished keeps the rest of its flags.
LEMMA FinishKeeps ==
  ASSUME PointInv, NEW succeeded \in BOOLEAN, Finish(succeeded)
  PROVE  asked' \in [active : BOOLEAN, finished : BOOLEAN, succeeded : BOOLEAN,
                     preempted : BOOLEAN, still : BOOLEAN]
  BY DEF Finish, PointInv, PointToTypeOK

\* When the main thread has acted, it has yet to look.
LEMMA UnseenTyped ==
  Unseen \in [at : {"look", "act", "solve", "watch"}, fsm : Machine, asked : BOOLEAN,
              finished : BOOLEAN, tracked : BOOLEAN, new : BOOLEAN, still : BOOLEAN]
  BY DEF Unseen, Machine

\* The main thread.
LEMMA MainThreadStep ==
  ASSUME PointInv, MainThread
  PROVE  PointInv'
<1>. USE PointToAssumption
     DEF PointInv, PointToTypeOK, StateInv, FlagsInv, ChainInv, OneMaster, MaybePoint, Machine,
         flagVars, solvingVars, At, Acts, Unseen
<1>1. CASE Look
  <2>1. PointToTypeOK'
    BY <1>1 DEF Look
  <2>2. StateInv' /\ FlagsInv'
    BY <1>1 DEF Look
  <2>3. ChainInv'
    BY <1>1 DEF Look
  <2>4. OneMaster'
    BY <1>1 DEF Look
  <2>. QED
    BY <2>1, <2>2, <2>3, <2>4
<1>2. CASE Waiting
  <2>. Acts("waiting") /\ fsm = "waiting" /\ seen' = Unseen
       /\ fsm' \in {"start_tracking", "solving", "waiting"}
       /\ UNCHANGED <<point, track, tracked, newPoint, solved, motion, servos, solvingVars, overrun>>
    BY <1>2 DEF Waiting
  <2>1. CASE seen.still
    <3>1. fsm' = "waiting"
          /\ asked' = [asked EXCEPT !.still = FALSE, !.succeeded = FALSE, !.finished = TRUE]
      BY <1>2, <2>1 DEF Waiting
    <3>2. asked' \in [active : BOOLEAN, finished : BOOLEAN, succeeded : BOOLEAN,
                       preempted : BOOLEAN, still : BOOLEAN]
      BY <3>1
    <3>3. PointToTypeOK'
      BY <3>1, <3>2, UnseenTyped
    <3>4. StateInv' /\ FlagsInv' /\ ChainInv' /\ OneMaster'
      BY <3>1
    <3>. QED
      BY <3>3, <3>4
  <2>2. CASE ~ seen.still
    <3>1. UNCHANGED asked /\ (fsm' = "solving" => seen.asked /\ ~ seen.finished)
      BY <1>2, <2>2 DEF Waiting
    <3>2. PointToTypeOK'
      BY <3>1, UnseenTyped
    <3>3. StateInv' /\ FlagsInv' /\ ChainInv' /\ OneMaster'
      BY <3>1
    <3>. QED
      BY <3>2, <3>3
  <2>. QED
    BY <2>1, <2>2
<1>3. CASE Solving
  <2>. At("act", "solving") /\ fsm = "solving" /\ target \in MaybePoint
       /\ UNCHANGED <<point, track, tracked, newPoint, solved, motion, servos, target, jointsHeard,
                      angles, overrun>>
    BY <1>3 DEF Solving
  <2>. asked.finished \in BOOLEAN /\ asked.active \in BOOLEAN
    OBVIOUS
  <2>1. CASE fsm' = "waiting" /\ seen' = Unseen /\ UNCHANGED <<asked, alg>>
    BY <2>1
  <2>2. CASE LoadChain(target) /\ Loaded(target) /\ seen' = [seen EXCEPT !.at = "solve"]
             /\ UNCHANGED <<fsm, asked>>
    <3>1. AlgInv'
      BY <2>2, LoadChainKeeps
    <3>2. seen' \in [at : {"look", "act", "solve", "watch"}, fsm : Machine, asked : BOOLEAN,
                     finished : BOOLEAN, tracked : BOOLEAN, new : BOOLEAN, still : BOOLEAN]
      BY <2>2
    <3>3. seen'.at = "solve" /\ seen'.fsm = "solving"
      BY <2>2
    <3>4. PointToTypeOK'
      BY <2>2, <3>1, <3>2 DEF AlgInv
    <3>5. StateInv' /\ FlagsInv'
      BY <2>2, <3>3
    <3>6. ChainInv'
      BY <2>2, <3>1, LoadChainKeeps DEF AlgInv
    <3>7. OneMaster'
      BY <2>2
    <3>. QED
      BY <3>4, <3>5, <3>6, <3>7
  <2>3. CASE LoadChain(target) /\ NotSolved
    <3>1. AlgInv'
      BY <2>3, LoadChainKeeps
    <3>2. fsm' = "waiting" /\ seen' = Unseen
          /\ asked' = [asked EXCEPT !.finished = TRUE, !.succeeded = FALSE]
      BY <2>3 DEF NotSolved, Finish
    <3>3. PointToTypeOK'
      <4>. asked' \in [active : BOOLEAN, finished : BOOLEAN, succeeded : BOOLEAN,
                       preempted : BOOLEAN, still : BOOLEAN]
        BY <2>3, FinishKeeps DEF NotSolved
      <4>. QED
        BY <3>1, <3>2, UnseenTyped DEF AlgInv
    <3>4. StateInv' /\ FlagsInv'
      BY <3>2
    <3>5. ChainInv'
      BY <3>1, <3>2 DEF AlgInv
    <3>6. OneMaster'
      BY <3>2
    <3>. QED
      BY <3>3, <3>4, <3>5, <3>6
  <2>. QED
    BY <1>3, <2>1, <2>2, <2>3 DEF Solving
<1>4. CASE Solve
  <2>. At("solve", "solving") /\ fsm = "solving" /\ target \in MaybePoint /\ GetJoints
       /\ UNCHANGED <<point, track, tracked, newPoint, solved, servos, target, jointsHeard, alg, overrun>>
    BY <1>4 DEF Solve
  <2>. asked.finished \in BOOLEAN /\ asked.active \in BOOLEAN
    OBVIOUS
  <2>1. /\ angles' \in [target : MaybePoint, chain : MaybePoint]
        /\ angles'.chain = NoPoint => angles'.target = NoPoint
    BY DEF GetJoints
  <2>2. CASE angles' = [target |-> target, chain |-> alg.chain] /\ seen' = Unseen /\ fsm' = "motion"
             /\ motion' = "active" /\ UNCHANGED asked
    <3>1. PointToTypeOK'
      BY <2>1, <2>2
    <3>2. StateInv' /\ FlagsInv'
      BY <2>2
    <3>3. ChainInv'
      BY <2>1, <2>2
    <3>4. OneMaster'
      BY <2>1, <2>2
    <3>. QED
      BY <3>1, <3>2, <3>3, <3>4
  <2>3. CASE NotSolved /\ UNCHANGED motion
    <3>1. fsm' = "waiting" /\ seen' = Unseen
          /\ asked' = [asked EXCEPT !.finished = TRUE, !.succeeded = FALSE]
      BY <2>3 DEF NotSolved, Finish
    <3>2. PointToTypeOK'
      <4>. asked' \in [active : BOOLEAN, finished : BOOLEAN, succeeded : BOOLEAN,
                       preempted : BOOLEAN, still : BOOLEAN]
        BY <2>3, FinishKeeps DEF NotSolved
      <4>. QED
        BY <2>1, <2>3, <3>1, UnseenTyped
    <3>3. StateInv' /\ FlagsInv'
      BY <3>1
    <3>4. ChainInv'
      BY <2>1, <3>1
    <3>5. OneMaster'
      BY <2>3, <3>1
    <3>. QED
      BY <3>2, <3>3, <3>4, <3>5
  <2>. QED
    BY <1>4, <2>2, <2>3 DEF Solve
<1>5. CASE Moving
  <2>. At("act", "motion") /\ fsm = "motion"
       /\ UNCHANGED <<point, track, tracked, newPoint, solved, servos, solvingVars, overrun>>
    BY <1>5 DEF Moving
  <2>1. CASE CancelMotion /\ seen' = Unseen
    <3>1. asked' \in [active : BOOLEAN, finished : BOOLEAN, succeeded : BOOLEAN,
                       preempted : BOOLEAN, still : BOOLEAN]
      BY <2>1 DEF CancelMotion
    <3>2. motion' \in {"none", "cancelled", "succeeded", "failed"}
      BY <2>1 DEF CancelMotion
    <3>3. PointToTypeOK'
      BY <2>1, <3>1, <3>2, UnseenTyped DEF CancelMotion
    <3>4. StateInv' /\ FlagsInv' /\ ChainInv' /\ OneMaster'
      BY <2>1, <3>2 DEF CancelMotion
    <3>. QED
      BY <3>3, <3>4
  <2>2. CASE seen' = [seen EXCEPT !.at = "watch"] /\ UNCHANGED <<fsm, asked, motion>>
    <3>1. seen' \in [at : {"look", "act", "solve", "watch"}, fsm : Machine, asked : BOOLEAN,
                     finished : BOOLEAN, tracked : BOOLEAN, new : BOOLEAN, still : BOOLEAN]
      BY <2>2
    <3>2. seen'.at = "watch" /\ seen'.fsm = "motion"
      BY <2>2
    <3>3. PointToTypeOK'
      BY <2>2, <3>1
    <3>. QED
      BY <2>2, <3>2, <3>3
  <2>. QED
    BY <1>5, <2>1, <2>2 DEF Moving
<1>6. CASE WatchMotion
  <2>. At("watch", "motion") /\ fsm = "motion" /\ seen' = Unseen
       /\ UNCHANGED <<point, track, tracked, newPoint, solved, motion, servos, solvingVars, overrun>>
    BY <1>6 DEF WatchMotion
  <2>1. ASSUME NEW succeeded \in BOOLEAN, motion # "active", fsm' = "waiting", Finish(succeeded)
        PROVE  PointInv'
    <3>1. PointToTypeOK'
      BY <2>1, FinishKeeps
    <3>2. StateInv' /\ FlagsInv' /\ ChainInv' /\ OneMaster'
      BY <2>1 DEF Finish
    <3>. QED
      BY <3>1, <3>2
  <2>2. CASE UNCHANGED <<fsm, asked>>
    BY <2>2
  <2>. QED
    BY <1>6, <2>1, <2>2 DEF WatchMotion
<1>7. CASE StartTracking
  <2>. Acts("start_tracking") /\ fsm = "start_tracking" /\ seen' = Unseen /\ target \in MaybePoint
       /\ UNCHANGED <<point, asked, track, tracked, solved, motion, servos, target, jointsHeard,
                      angles, overrun>>
    BY <1>7 DEF StartTracking
  <2>1. fsm' \in {"waiting", "tracking_target", "start_tracking"} /\ newPoint' \in BOOLEAN
    BY <1>7 DEF StartTracking
  <2>2. AlgInv'
    BY <1>7, LoadChainKeeps DEF StartTracking, AlgInv
  <2>3. PointToTypeOK'
    BY <2>1, <2>2 DEF AlgInv
  <2>4. StateInv' /\ FlagsInv'
    BY <2>1
  <2>5. ChainInv'
    BY <2>2 DEF AlgInv
  <2>6. OneMaster'
    BY <2>1
  <2>. QED
    BY <2>3, <2>4, <2>5, <2>6
<1>8. CASE TrackTarget
  <2>1. PointToTypeOK'
    <3>1. fsm' \in Machine
      BY <1>8 DEF TrackTarget, GetJoints
    <3>2. seen' \in [at : {"look", "act", "solve", "watch"}, fsm : Machine, asked : BOOLEAN,
                  finished : BOOLEAN, tracked : BOOLEAN, new : BOOLEAN, still : BOOLEAN]
      BY <1>8 DEF TrackTarget, GetJoints
    <3>3. {newPoint, solved, jointsHeard, overrun}' \subseteq BOOLEAN
      BY <1>8 DEF TrackTarget, GetJoints
    <3>4. servos' \in {"none", "effort", "stop"}
      BY <1>8 DEF TrackTarget, GetJoints
    <3>5. angles' \in [target : MaybePoint, chain : MaybePoint]
      BY <1>8 DEF TrackTarget, GetJoints
    <3>. QED
      BY <1>8, <3>1, <3>2, <3>3, <3>4, <3>5 DEF TrackTarget
  <2>2. StateInv' /\ FlagsInv'
    BY <1>8 DEF TrackTarget, GetJoints
  <2>3. ChainInv'
    BY <1>8 DEF TrackTarget, GetJoints
  <2>4. OneMaster'
    BY <1>8 DEF TrackTarget, GetJoints
  <2>. QED
    BY <2>1, <2>2, <2>3, <2>4
<1>. QED
  BY <1>1, <1>2, <1>3, <1>4, <1>5, <1>6, <1>7, <1>8 DEF MainThread

LEMMA PointStepInv == PointInv /\ [PointToNext]_pointToVars => PointInv'
<1>1. PointInv /\ UNCHANGED pointToVars => PointInv'
  BY DEF pointToVars, flagVars, solvingVars, PointInv, PointToTypeOK, StateInv, FlagsInv,
         ChainInv, OneMaster
<1>. QED
  BY <1>1, PointServersStep, MainThreadStep DEF PointToNext

\* The invariant of the node that points the head.
THEOREM PointInvariant == PointToSpec => []PointInv
  BY PointInitInv, PointStepInv, PTL DEF PointToSpec

\* The variables of the node that points the head keep their types.
THEOREM PointTypeCorrect == PointToSpec => []PointToTypeOK
<1>1. PointInv => PointToTypeOK
  BY DEF PointInv
<1>. QED
  BY <1>1, PointInvariant, PTL

\* OneMaster: whatever goals there are and whichever of them have no chain,
\* a joint motion and the commands to the servos exclude each other, and the
\* motion is that of the goal, unless the goal follows one that was stopped.
THEOREM OneMasterHolds == PointToSpec => []OneMaster
<1>1. PointInv => OneMaster
  BY DEF PointInv
<1>. QED
  BY <1>1, PointInvariant, PTL

-----------------------------------------------------------------------------
(* The feature tracker.                                                    *)

\* No two features are nearer to each other than the minimum distance.
KeepDistance(fs) ==
  \A j, k \in Alive(fs) :
    j # k => fs[j].point - fs[k].point \notin -(MinDist - 1) .. MinDist - 1

\* The image that a feature is checked by is one of itself.
OwnImages(fs) == \A j \in Indices : fs[j].aff \subseteq {fs[j].point}

\* The step of feature j from i + 1 frames ago to i frames ago is one of itself.
Past(i, j) == table[FrameBack(i)][j]
OwnStep(i, j) ==
  Past(i, j).val = "tracked" =>
    /\ Past(i + 1, j).val # "lost"
    /\ \/ Past(i + 1, j).point = Past(i, j).point
       \/ jumped /\ Past(i + 1, j).val = "selected"

\* Features that have just been selected have not been followed, and where
\* they were selected decides whether they jump when they are.
FreshFeatures ==
  image.at = "fresh" =>
    /\ \A j \in Indices : features[j].aff = {} /\ features[j].val # "tracked"
    /\ jumped = (pyramid \notin {-1, image.shift})

FeatureInv ==
  /\ FeatureTypeOK
  /\ KeepDistance(features)
  /\ OwnImages(features)
  /\ FreshFeatures
  /\ table[frame] = Recorded(features)
  /\ \A i \in 0 .. NFrames - 2, j \in Indices : OwnStep(i, j)

\* A set of numbers that is not empty has a least one.
LEMMA LeastOf ==
  ASSUME NEW T \in SUBSET Nat, T # {}
  PROVE  \E n \in T : \A m \in T : n <= m
<1>. DEFINE R == OpToRel(<, Nat)
<1>1. \A y \in T, n \in T : <<y, n>> \notin R => ~ (y < n)
  BY DEF OpToRel
<1>2. IsWellFoundedOn(R, Nat)
  BY NatLessThanWellFounded
<1>. HIDE DEF R
<1>3. \E n \in T : \A y \in T : <<y, n>> \notin R
  BY <1>2, WFMin
<1>4. PICK n \in T : \A y \in T : <<y, n>> \notin R
  BY <1>3
<1>5. \A y \in T : ~ (y < n)
  BY <1>1, <1>4, Zenon
<1>. QED
  BY <1>5

\* Induction, for a set instead of a predicate.
LEMMA AllNumbers ==
  ASSUME NEW S \in SUBSET Nat, 0 \in S, \A n \in S : n + 1 \in S
  PROVE  S = Nat
<1>1. SUFFICES ASSUME Nat \ S # {} PROVE FALSE
  OBVIOUS
<1>2. PICK n \in Nat \ S : \A m \in Nat \ S : n <= m
  BY <1>1, LeastOf
<1>3. n - 1 \in S
  BY <1>2
<1>. QED
  BY <1>2, <1>3

\* First is the least.
LEMMA FirstFree ==
  ASSUME NEW free \in SUBSET Indices, free # {}
  PROVE  First(free) \in free
<1>1. free \in SUBSET Nat
  BY FeatureTrackerAssumption DEF Indices
<1>2. \E j \in free : \A k \in free : j <= k
  BY <1>1, LeastOf
<1>. QED
  BY <1>2 DEF First

\* What a list of features is like while points are added to list fs: the
\* features there were stay, and those that are new have just been selected.
Extends(gs, fs) ==
  /\ gs \in FeatureLists
  /\ KeepDistance(gs)
  /\ \A j \in Indices : gs[j] = fs[j] \/ (gs[j].val = "selected" /\ gs[j].aff = {} /\ fs[j].val = "lost")

LEMMA AddPointExtends ==
  ASSUME NEW fs, NEW gs, Extends(gs, fs), NEW p \in Points
  PROVE  Extends(AddPoint(p, gs), fs)
<1>. DEFINE free == Indices \ Alive(gs)
            new == [val |-> "selected", point |-> p, aff |-> {}]
            j0 == First(free)
<1>1. CASE free = {} \/ Near(gs, p)
  BY <1>1 DEF AddPoint
<1>2. CASE free # {} /\ ~ Near(gs, p)
  <2>1. AddPoint(p, gs) = [gs EXCEPT ![j0] = new]
    BY <1>2 DEF AddPoint
  <2>2. j0 \in free
    BY <1>2, FirstFree
  <2>. DEFINE hs == [gs EXCEPT ![j0] = new]
  <2>. HIDE DEF j0
  <2>3. gs \in FeatureLists
    BY DEF Extends
  <2>4. hs \in FeatureLists
    BY <2>2, <2>3 DEF FeatureLists, Vals
  <2>5. gs[j0].val = "lost"
    BY <2>2 DEF Alive
  <2>6. hs[j0] = new /\ \A j \in Indices \ {j0} : hs[j] = gs[j]
    BY <2>2, <2>3 DEF FeatureLists
  <2>7. \A j \in Indices : gs[j].point \in Int /\ p \in Int
    BY <2>3, FeatureTrackerAssumption DEF FeatureLists, Points, Columns0
  <2>8. \A j \in Alive(hs) : j # j0 => /\ j \in Alive(gs)
                                       /\ gs[j].point - p \notin -(MinDist - 1) .. MinDist - 1
    BY <1>2, <2>6 DEF Alive, Near
  <2>9. KeepDistance(hs)
    <3>1. MinDist \in Nat
      BY FeatureTrackerAssumption
    <3>. SUFFICES ASSUME NEW j \in Alive(hs), NEW k \in Alive(hs), j # k
                  PROVE  hs[j].point - hs[k].point \notin -(MinDist - 1) .. MinDist - 1
      BY DEF KeepDistance
    <3>2. CASE j = j0
      BY <3>1, <3>2, <2>6, <2>7, <2>8 DEF Alive
    <3>3. CASE k = j0
      BY <3>1, <3>3, <2>6, <2>7, <2>8 DEF Alive
    <3>4. CASE j # j0 /\ k # j0
      BY <3>4, <2>6, <2>8 DEF Alive, KeepDistance, Extends
    <3>. QED
      BY <3>2, <3>3, <3>4
  <2>10. \A j \in Indices : hs[j] = fs[j] \/ (hs[j].val = "selected" /\ hs[j].aff = {} /\ fs[j].val = "lost")
    BY <2>5, <2>6 DEF Extends
  <2>. QED
    BY <2>1, <2>4, <2>9, <2>10 DEF Extends
<1>. QED
  BY <1>1, <1>2

\* Taking the points of a ranking one after the other is well defined, and
\* all that the points of it do together is what each of them may.
LEMMA RankingExtends ==
  ASSUME NEW fs \in FeatureLists, KeepDistance(fs),
         NEW shift \in Shifts, NEW ranking \in Rankings
  PROVE  Extends(EnforceMinimumDistance(ranking, shift, fs), fs)
<1>. DEFINE L == Len(ranking)
            Taken(g, m) == g = [n \in 0 .. m |-> IF n = 0 THEN fs
                                                 ELSE AddPoint(ranking[n] - shift, g[n - 1])]
            S == {m \in Nat : \E g : Taken(g, m)}
<1>1. L \in Nat /\ \A n \in 1 .. L : ranking[n] - shift \in Points
  <2>1. PICK n \in 0 .. Columns : ranking \in [1 .. n -> Columns0]
    BY DEF Rankings
  <2>2. L = n /\ n \in Nat
    BY <2>1, FeatureTrackerAssumption
  <2>. QED
    BY <2>1, <2>2 DEF Points
<1>2. S = Nat
  <2>1. 0 \in S
    <3>. DEFINE g == [n \in 0 .. 0 |-> fs]
    <3>1. Taken(g, 0)
      OBVIOUS
    <3>. QED
      BY <3>1
  <2>2. ASSUME NEW m \in S PROVE m + 1 \in S
    <3>1. PICK g : Taken(g, m)
      OBVIOUS
    <3>. DEFINE h == [n \in 0 .. m + 1 |-> IF n = m + 1 THEN AddPoint(ranking[n] - shift, g[m])
                                           ELSE g[n]]
    <3>2. \A n \in 0 .. m + 1 :
            h[n] = IF n = 0 THEN fs ELSE AddPoint(ranking[n] - shift, h[n - 1])
      <4>1. \A n \in 0 .. m : h[n] = g[n]
        OBVIOUS
      <4>2. h[m + 1] = AddPoint(ranking[m + 1] - shift, g[m])
        OBVIOUS
      <4>3. \A n \in 0 .. m : g[n] = IF n = 0 THEN fs ELSE AddPoint(ranking[n] - shift, g[n - 1])
        BY <3>1
      <4>. HIDE DEF h
      <4>. QED
        BY <4>1, <4>2, <4>3
    <3>3. h = [n \in 0 .. m + 1 |-> h[n]]
      OBVIOUS
    <3>. HIDE DEF h
    <3>4. Taken(h, m + 1)
      BY <3>2, <3>3
    <3>. QED
      BY <3>4
  <2>. QED
    BY <2>1, <2>2, AllNumbers
<1>. DEFINE taken == CHOOSE g : Taken(g, L)
<1>3. Taken(taken, L)
  BY <1>1, <1>2
<1>4. EnforceMinimumDistance(ranking, shift, fs) = taken[L]
  BY DEF EnforceMinimumDistance
<1>. HIDE DEF taken
<1>5. \A n \in 0 .. L : taken[n] = IF n = 0 THEN fs ELSE AddPoint(ranking[n] - shift, taken[n - 1])
  BY <1>3
<1>. DEFINE E == {m \in Nat : m <= L => Extends(taken[m], fs)}
<1>6. E = Nat
  <2>1. 0 \in E
    BY <1>1, <1>5 DEF Extends
  <2>2. ASSUME NEW m \in E PROVE m + 1 \in E
    <3>1. CASE m + 1 <= L
      BY <3>1, <1>1, <1>5, AddPointExtends
    <3>. QED
      BY <3>1
  <2>. QED
    BY <2>1, <2>2, AllNumbers
<1>. QED
  BY <1>1, <1>4, <1>6

\* Going one frame on, or some frames back, in the ring.
LEMMA RingFrames ==
  ASSUME NEW f \in Ring
  PROVE  /\ (f - 0) % NFrames = f
         /\ \A i \in Ring : (f - i) % NFrames = (IF i <= f THEN f - i ELSE f - i + NFrames)
         /\ (f + 1) % NFrames = (IF f + 1 = NFrames THEN 0 ELSE f + 1)
<1>1. NFrames \in Nat \ {0} /\ f \in 0 .. NFrames - 1
  BY FeatureTrackerAssumption DEF Ring
<1>2. \A a \in 0 .. NFrames - 1 : a % NFrames = a
  BY <1>1
<1>3. \A a \in -NFrames .. -1 : a % NFrames = a + NFrames
  BY <1>1
<1>4. NFrames % NFrames = 0
  BY <1>1
<1>5. ASSUME NEW i \in Ring
      PROVE  (f - i) % NFrames = (IF i <= f THEN f - i ELSE f - i + NFrames)
  <2>1. CASE i <= f
    <3>1. f - i \in 0 .. NFrames - 1
      BY <1>1, <2>1 DEF Ring
    <3>. QED
      BY <1>2, <2>1, <3>1
  <2>2. CASE ~ (i <= f)
    <3>1. f - i \in -NFrames .. -1
      BY <1>1, <2>2 DEF Ring
    <3>. QED
      BY <1>3, <2>2, <3>1
  <2>. QED
    BY <2>1, <2>2
<1>6. (f - 0) % NFrames = f
  BY <1>1, <1>2
<1>7. (f + 1) % NFrames = (IF f + 1 = NFrames THEN 0 ELSE f + 1)
  <2>1. CASE f + 1 = NFrames
    BY <1>4, <2>1
  <2>2. CASE f + 1 # NFrames
    <3>1. f + 1 \in 0 .. NFrames - 1
      BY <1>1, <2>2
    <3>. QED
      BY <1>2, <2>2, <3>1
  <2>. QED
    BY <2>1, <2>2
<1>. QED
  BY <1>5, <1>6, <1>7

LEMMA FeatureInitInv == FeatureInit => FeatureInv
<1>. SUFFICES ASSUME FeatureInit PROVE FeatureInv
  OBVIOUS
<1>. USE DEF FeatureInit
<1>1. NFrames \in Nat /\ NFrames > 1 /\ Shifts # {} /\ 0 \in Ring
  BY FeatureTrackerAssumption DEF Ring
<1>2. features \in FeatureLists
  BY DEF FeatureLists, NoFeatures, Lost, Vals, Points
<1>3. table \in [Ring -> Records]
  BY DEF Records, NoRecords, Vals, Points
<1>4. FeatureTypeOK
  BY <1>1, <1>2, <1>3 DEF FeatureTypeOK
<1>5. KeepDistance(features) /\ OwnImages(features)
  BY DEF KeepDistance, Alive, OwnImages, NoFeatures, Lost
<1>6. FreshFeatures
  BY DEF FreshFeatures
<1>7. table[frame] = Recorded(features)
  BY <1>1 DEF Recorded, NoFeatures, NoRecords, Lost
<1>8. ASSUME NEW i \in 0 .. NFrames - 2, NEW j \in Indices PROVE OwnStep(i, j)
  <2>1. i \in Ring
    BY <1>1 DEF Ring
  <2>2. FrameBack(i) \in Ring
    BY <1>1, <2>1, RingFrames DEF Ring, FrameBack
  <2>. QED
    BY <2>2 DEF OwnStep, Past, NoRecords
<1>. QED
  BY <1>4, <1>5, <1>6, <1>7, <1>8 DEF FeatureInv

LEMMA SelectGoodStep == FeatureInv /\ SelectGoodFeatures => FeatureInv'
<1>. SUFFICES ASSUME FeatureInv, SelectGoodFeatures PROVE FeatureInv'
  OBVIOUS
<1>1. FeatureTypeOK
  BY DEF FeatureInv
<1>2. NFrames \in Nat /\ NFrames > 1 /\ 0 \in Ring
  BY FeatureTrackerAssumption DEF Ring
<1>3. NoFeatures \in FeatureLists /\ KeepDistance(NoFeatures)
  BY DEF FeatureLists, NoFeatures, Lost, Vals, Points, KeepDistance, Alive
<1>4. image \in [at : {"none", "select", "fresh", "track"}, shift : Shifts]
  BY <1>1 DEF FeatureTypeOK
<1>5. Extends(features', NoFeatures)
  BY <1>3, <1>4, RankingExtends DEF SelectGoodFeatures
<1>6. features' \in FeatureLists /\ KeepDistance(features)'
  BY <1>5 DEF Extends, KeepDistance, Alive
<1>7. \A j \in Indices : features'[j].aff = {} /\ features'[j].val # "tracked"
  BY <1>5 DEF Extends, NoFeatures, Lost
<1>8. Recorded(features') \in Records /\ NoRecords \in Records
  BY <1>6 DEF Recorded, Records, NoRecords, FeatureLists, Vals, Points
<1>9. table' = [i \in Ring |-> IF i = 0 THEN Recorded(features') ELSE NoRecords] /\ frame' = 0
  BY DEF SelectGoodFeatures, Stored
<1>10. FeatureTypeOK'
  BY <1>1, <1>2, <1>4, <1>6, <1>8, <1>9 DEF FeatureTypeOK, SelectGoodFeatures
<1>11. FreshFeatures'
  BY <1>4, <1>7 DEF FreshFeatures, SelectGoodFeatures
<1>12. (table[frame] = Recorded(features))'
  BY <1>2, <1>9 DEF Recorded
<1>13. OwnImages(features)'
  BY <1>7 DEF OwnImages
<1>14. ASSUME NEW k \in Ring, NEW j \in Indices PROVE table'[k][j].val # "tracked"
  BY <1>7, <1>9 DEF Recorded, NoRecords
<1>15. ASSUME NEW i \in 0 .. NFrames - 2, NEW j \in Indices PROVE OwnStep(i, j)'
  <2>1. (frame \in Ring)' /\ i \in Ring
    BY <1>2, <1>9 DEF Ring
  <2>2. FrameBack(i)' \in Ring
    <3>1. FrameBack(i)' = (IF i <= frame' THEN frame' - i ELSE frame' - i + NFrames)
      BY <2>1, RingFrames DEF FrameBack, Ring
    <3>. QED
      BY <1>2, <1>9, <2>1, <3>1 DEF Ring
  <2>. QED
    BY <1>14, <2>2 DEF OwnStep, Past
<1>. QED
  BY <1>6, <1>10, <1>11, <1>12, <1>13, <1>15 DEF FeatureInv

\* The points are integers.
LEMMA PointsOf == \A fs \in FeatureLists : \A j \in Indices : fs[j].point \in Int
<1>1. Points \subseteq Int
  BY FeatureTrackerAssumption DEF Points, Columns0
<1>. QED
  BY <1>1 DEF FeatureLists

\* A feature that is found is one that was there, at its point of the scene
\* unless it has just been selected and jumps.
LEMMA TrackedFacts ==
  ASSUME FeatureInv, image.at \in {"fresh", "track"}, NEW j \in Indices,
         Tracked(features[j]).val # "lost"
  PROVE  LET f == features[j]
             t == Tracked(f)
         IN /\ t.val = "tracked"
            /\ f.val # "lost"
            /\ t.point = f.point \/ (jumped /\ f.val = "selected")
            /\ t.aff \subseteq {t.point}
            /\ t.point \in Points
<1>. DEFINE f == features[j]
            last == IF pyramid = -1 THEN image.shift ELSE pyramid
            located == IF image.at = "fresh" THEN image.shift ELSE last
            found == f.point + located - last
<1>1. /\ f.val \in Vals /\ f.point \in Int /\ f.aff \subseteq {f.point}
      /\ image.shift \in Shifts /\ image.shift \in Nat /\ pyramid \in Nat \cup {-1}
      /\ jumped \in BOOLEAN
  <2>1. /\ FeatureTypeOK /\ features \in FeatureLists /\ image.shift \in Shifts
        /\ pyramid \in Shifts \cup {-1} /\ jumped \in BOOLEAN
    BY DEF FeatureInv, FeatureTypeOK
  <2>2. f.val \in Vals
    BY <2>1 DEF FeatureLists
  <2>3. f.aff \subseteq {f.point}
    BY DEF FeatureInv, OwnImages
  <2>. QED
    BY <2>1, <2>2, <2>3, PointsOf, FeatureTrackerAssumption
<1>2. /\ f.val # "lost" /\ found + image.shift \in Columns0
      /\ Tracked(f) = [val |-> "tracked", point |-> found, aff |-> Appearance(f, found)]
  BY DEF Tracked, Lost
<1>3. found \in Points
  <2>1. found \in Int
    BY <1>1
  <2>2. found = (found + image.shift) - image.shift
    BY <1>1, <2>1
  <2>. HIDE DEF found
  <2>. QED
    BY <1>1, <1>2, <2>2 DEF Points
<1>4. found = f.point \/ (jumped /\ f.val = "selected" /\ f.aff = {})
  <2>1. CASE image.at = "fresh" /\ pyramid \notin {-1, image.shift}
    BY <1>1, <1>2, <2>1 DEF FeatureInv, FreshFeatures, Vals
  <2>2. CASE ~ (image.at = "fresh" /\ pyramid \notin {-1, image.shift})
    <3>1. located = last
      BY <2>2
    <3>. QED
      BY <1>1, <3>1
  <2>. QED
    BY <2>1, <2>2
<1>5. Appearance(f, found) \subseteq {found}
  BY <1>1, <1>4 DEF Appearance
<1>. HIDE DEF found
<1>. QED
  BY <1>2, <1>3, <1>4, <1>5

\* All that are found have moved by as much.
LEMMA TrackedApart ==
  ASSUME FeatureInv, image.at \in {"fresh", "track"}, NEW lost \in SUBSET Alive(features)
  PROVE  /\ TrackFeatures(lost) \in FeatureLists
         /\ KeepDistance(TrackFeatures(lost))
         /\ OwnImages(TrackFeatures(lost))
<1>. DEFINE ts == TrackFeatures(lost)
            last == IF pyramid = -1 THEN image.shift ELSE pyramid
            located == IF image.at = "fresh" THEN image.shift ELSE last
            moved == located - last
<1>1. /\ features \in FeatureLists /\ image.shift \in Nat /\ pyramid \in Nat \cup {-1}
      /\ \A j \in Indices : features[j].point \in Int
  BY PointsOf, FeatureTrackerAssumption DEF FeatureInv, FeatureTypeOK
<1>2. moved \in Int
  BY <1>1
<1>3. \A j \in Alive(ts) : /\ j \in Indices /\ ts[j] = Tracked(features[j])
                           /\ Tracked(features[j]).val # "lost"
  BY DEF Alive, TrackFeatures, Lost
<1>4. \A j \in Alive(ts) :
        j \in Alive(features) /\ ts[j].point = features[j].point + moved
  <2>. SUFFICES ASSUME NEW j \in Alive(ts)
                PROVE  j \in Alive(features) /\ ts[j].point = features[j].point + moved
    OBVIOUS
  <2>1. features[j].val # "lost" /\ ts[j].point = features[j].point + located - last
    <3>1. ts[j] = Tracked(features[j]) /\ Tracked(features[j]).val # "lost"
      BY <1>3
    <3>. HIDE DEF ts
    <3>. QED
      BY <3>1 DEF Tracked, Lost
  <2>2. located \in Int /\ last \in Int /\ features[j].point \in Int
    BY <1>1, <1>3
  <2>. QED
    BY <1>3, <2>1, <2>2 DEF Alive
<1>5. KeepDistance(ts)
  <2>1. MinDist \in Nat /\ \A j, k \in Alive(features) :
           j # k => features[j].point - features[k].point \notin -(MinDist - 1) .. MinDist - 1
    BY FeatureTrackerAssumption DEF FeatureInv, KeepDistance
  <2>2. \A j \in Alive(features) : features[j].point \in Int
    BY <1>1 DEF Alive
  <2>. HIDE DEF ts, moved
  <2>3. \A j, k \in Alive(ts) : ts[j].point - ts[k].point = features[j].point - features[k].point
    BY <1>2, <1>4, <2>2
  <2>. QED
    BY <1>4, <2>1, <2>3 DEF KeepDistance
<1>6. \A j \in Indices :
        /\ ts[j] \in [val : Vals, point : Points, aff : SUBSET Points]
        /\ ts[j].aff \subseteq {ts[j].point}
  <2>. SUFFICES ASSUME NEW j \in Indices
                PROVE  /\ ts[j] \in [val : Vals, point : Points, aff : SUBSET Points]
                       /\ ts[j].aff \subseteq {ts[j].point}
    OBVIOUS
  <2>1. CASE j \in Alive(ts)
    <3>1. ts[j] = Tracked(features[j]) /\ ts[j].val # "lost"
      BY <1>3, <2>1
    <3>2. /\ ts[j].val = "tracked" /\ ts[j].point \in Points
          /\ ts[j].aff \subseteq {ts[j].point}
      BY <3>1, TrackedFacts
    <3>3. ts[j] = [val |-> ts[j].val, point |-> ts[j].point, aff |-> ts[j].aff]
      BY <3>1 DEF Tracked, Lost
    <3>. HIDE DEF ts
    <3>. QED
      BY <3>2, <3>3 DEF Vals
  <2>2. CASE j \notin Alive(ts)
    <3>1. ts[j] = Lost
      BY <2>2 DEF Alive, TrackFeatures, Tracked
    <3>. HIDE DEF ts
    <3>. QED
      BY <3>1 DEF Lost, Vals, Points
  <2>. QED
    BY <2>1, <2>2
<1>7. ts \in FeatureLists
  BY <1>6 DEF FeatureLists, TrackFeatures
<1>8. OwnImages(ts)
  BY <1>6 DEF OwnImages
<1>. QED
  BY <1>5, <1>7, <1>8

LEMMA TrackStep == FeatureInv /\ TrackAndReplace => FeatureInv'
<1>. SUFFICES ASSUME FeatureInv, TrackAndReplace PROVE FeatureInv'
  OBVIOUS
<1>1. FeatureTypeOK
  BY DEF FeatureInv
<1>2. NFrames \in Nat /\ NFrames > 1 /\ frame \in Ring /\ table \in [Ring -> Records]
  BY <1>1, FeatureTrackerAssumption DEF FeatureTypeOK
<1>3. image.at \in {"fresh", "track"} /\ image.shift \in Shifts
  BY <1>1 DEF FeatureTypeOK, TrackAndReplace
<1>4. PICK lost \in SUBSET Alive(features) :
        /\ features' \in Replacements(TrackFeatures(lost))
        /\ table' = [table EXCEPT ![frame'] = Recorded(features')]
  BY DEF TrackAndReplace, Stored
<1>. DEFINE ts == TrackFeatures(lost)
<1>5. ts \in FeatureLists /\ KeepDistance(ts) /\ OwnImages(ts)
  BY <1>3, TrackedApart
<1>. HIDE DEF ts
<1>6. Extends(features', ts)
  <2>1. CASE features' = ts
    BY <1>5, <2>1 DEF Extends
  <2>2. CASE features' # ts
    <3>1. PICK ranking \in Rankings :
            features' = EnforceMinimumDistance(ranking, image.shift, ts)
      BY <1>4, <2>2 DEF Replacements, ts
    <3>. QED
      BY <1>3, <1>5, <3>1, RankingExtends
  <2>. QED
    BY <2>1, <2>2
<1>7. features' \in FeatureLists /\ KeepDistance(features)'
  BY <1>6 DEF Extends, KeepDistance, Alive
<1>8. OwnImages(features)'
  BY <1>5, <1>6 DEF Extends, OwnImages
<1>9. \A j \in Indices : features'[j].val = "tracked" =>
        /\ features[j].val # "lost"
        /\ features'[j].point = features[j].point \/ (jumped /\ features[j].val = "selected")
  <2>. SUFFICES ASSUME NEW j \in Indices, features'[j].val = "tracked"
                PROVE  /\ features[j].val # "lost"
                       /\ \/ features'[j].point = features[j].point
                          \/ jumped /\ features[j].val = "selected"
    OBVIOUS
  <2>1. features'[j] = ts[j]
    BY <1>6 DEF Extends
  <2>2. ts[j] = Tracked(features[j]) /\ Tracked(features[j]).val # "lost"
    BY <2>1 DEF ts, TrackFeatures, Lost
  <2>. QED
    BY <1>3, <2>1, <2>2, TrackedFacts
<1>10. Recorded(features') \in Records
  BY <1>7 DEF Recorded, Records, FeatureLists
<1>11. frame' = (IF frame + 1 = NFrames THEN 0 ELSE frame + 1) /\ frame' \in Ring
  <2>1. frame' = (IF frame + 1 = NFrames THEN 0 ELSE frame + 1)
    BY <1>2, RingFrames DEF TrackAndReplace
  <2>. QED
    BY <1>2, <2>1 DEF Ring
<1>12. table' \in [Ring -> Records] /\ table'[frame'] = Recorded(features')
  BY <1>2, <1>4, <1>10, <1>11
<1>13. FeatureTypeOK'
  BY <1>1, <1>3, <1>7, <1>11, <1>12 DEF FeatureTypeOK, TrackAndReplace
<1>14. FreshFeatures' /\ jumped' = jumped
  BY <1>1 DEF FreshFeatures, TrackAndReplace, FeatureTypeOK
<1>15. (table[frame] = Recorded(features))'
  BY <1>12 DEF Recorded
<1>16. \A i \in Ring : /\ FrameBack(i) = (IF i <= frame THEN frame - i ELSE frame - i + NFrames)
                       /\ FrameBack(i)' = (IF i <= frame' THEN frame' - i
                                           ELSE frame' - i + NFrames)
  BY <1>2, <1>11, RingFrames DEF FrameBack
\* What was i frames ago is i + 1 frames ago then.
<1>17. ASSUME NEW i \in 0 .. NFrames - 2, NEW j \in Indices
       PROVE  Past(i + 1, j)' = Past(i, j)
  <2>1. i \in Ring /\ i + 1 \in Ring
    BY <1>2 DEF Ring
  <2>2. FrameBack(i + 1)' = FrameBack(i) /\ FrameBack(i) \in Ring /\ FrameBack(i) # frame'
    BY <1>2, <1>11, <1>16, <2>1 DEF Ring
  <2>3. table'[FrameBack(i)] = table[FrameBack(i)]
    BY <1>2, <1>4, <2>2
  <2>. QED
    BY <2>2, <2>3 DEF Past
<1>18. ASSUME NEW i \in 0 .. NFrames - 2, NEW j \in Indices PROVE OwnStep(i, j)'
  <2>1. CASE i = 0
    <3>1. FrameBack(0) = frame /\ FrameBack(0)' = frame'
      BY <1>2, <1>11, RingFrames DEF FrameBack
    <3>2. /\ Past(0, j)'.val = features'[j].val /\ Past(0, j)'.point = features'[j].point
          /\ Past(0, j).val = features[j].val /\ Past(0, j).point = features[j].point
      BY <1>12, <3>1 DEF Past, Recorded, FeatureInv
    <3>3. Past(1, j)' = Past(0, j)
      BY <1>2, <1>17
    <3>. QED
      BY <1>9, <1>14, <2>1, <3>2, <3>3 DEF OwnStep
  <2>2. CASE i # 0
    <3>1. i - 1 \in 0 .. NFrames - 2 /\ (i - 1) + 1 = i
      BY <1>2, <2>2
    <3>2. OwnStep(i - 1, j)
      BY <3>1 DEF FeatureInv
    <3>3. Past(i, j)' = Past(i - 1, j) /\ Past(i + 1, j)' = Past(i, j)
      BY <1>17, <3>1
    <3>. QED
      BY <1>14, <3>1, <3>2, <3>3 DEF OwnStep
  <2>. QED
    BY <2>1, <2>2
<1>. QED
  BY <1>7, <1>8, <1>13, <1>14, <1>15, <1>18 DEF FeatureInv

LEMMA FeatureNextInv == FeatureInv /\ [FeatureNext]_featureVars => FeatureInv'
<1>. SUFFICES ASSUME FeatureInv, [FeatureNext]_featureVars PROVE FeatureInv'
  OBVIOUS
<1>. DEFINE kept == <<features, table, frame, jumped>>
<1>1. CASE UNCHANGED kept /\ FeatureTypeOK' /\ (image'.at = "fresh" => UNCHANGED <<image, pyramid>>)
  <2>1. \A i, j : OwnStep(i, j)' = OwnStep(i, j)
    BY <1>1 DEF OwnStep, Past, FrameBack
  <2>2. FreshFeatures'
    BY <1>1 DEF FeatureInv, FreshFeatures
  <2>. QED
    BY <1>1, <2>1, <2>2 DEF FeatureInv, KeepDistance, Alive, OwnImages, Recorded
<1>2. FeatureTypeOK
  BY DEF FeatureInv
<1>3. CASE SelectCB
  BY <1>1, <1>2, <1>3 DEF SelectCB, FeatureTypeOK
<1>4. CASE SetParamCB
  BY <1>1, <1>2, <1>4 DEF SetParamCB, FeatureTypeOK
<1>5. CASE ImageCB
  BY <1>1, <1>2, <1>5 DEF ImageCB, FeatureTypeOK
<1>6. CASE SelectGoodFeatures
  BY <1>6, SelectGoodStep
<1>7. CASE TrackAndReplace
  BY <1>7, TrackStep
<1>8. CASE UNCHANGED featureVars
  BY <1>1, <1>2, <1>8 DEF featureVars, FeatureTypeOK
<1>. QED
  BY <1>3, <1>4, <1>5, <1>6, <1>7, <1>8 DEF FeatureNext

\* Whatever parameters are set and images come, in any order: for a way that
\* is drawn over many frames, every step is one of itself.
LEMMA DrawnIsOwn ==
  ASSUME FeatureInv, NEW j \in Alive(features), NEW i \in Drawn(j)
  PROVE  /\ Past(i, j).val # "lost"
         /\ Past(i, j).point = features[j].point \/ (jumped /\ Past(i, j).val = "selected")
<1>. DEFINE Own(n) == /\ Past(n, j).val # "lost"
                      /\ \/ Past(n, j).point = features[j].point
                         \/ jumped /\ Past(n, j).val = "selected"
            S == {n \in Nat : n <= i => Own(n)}
<1>1. /\ j \in Indices /\ i \in Ring \ {0} /\ features[j].val = "tracked"
      /\ \A k \in 1 .. i - 1 : Past(k, j).val = "tracked"
  BY DEF Drawn, Alive, Past
<1>2. NFrames \in Nat /\ i \in 1 .. NFrames - 1
  BY <1>1, FeatureTrackerAssumption DEF Ring
<1>3. Past(0, j).val = features[j].val /\ Past(0, j).point = features[j].point
  <2>1. FrameBack(0) = frame
    BY RingFrames DEF FeatureInv, FeatureTypeOK, FrameBack
  <2>. QED
    BY <1>1, <2>1 DEF FeatureInv, Past, Recorded
<1>4. 0 \in S
  BY <1>1, <1>3
<1>5. ASSUME NEW n \in S PROVE n + 1 \in S
  <2>. SUFFICES ASSUME n + 1 <= i PROVE Own(n + 1)
    OBVIOUS
  <2>1. n \in 0 .. NFrames - 2 /\ (n = 0 \/ n \in 1 .. i - 1)
    BY <1>2
  <2>2. Past(n, j).val = "tracked"
    BY <1>1, <1>3, <2>1
  <2>3. Past(n, j).point = features[j].point
    BY <1>2, <2>2
  <2>4. OwnStep(n, j)
    BY <1>1, <2>1 DEF FeatureInv
  <2>. QED
    BY <2>2, <2>3, <2>4 DEF OwnStep
<1>6. S = Nat
  BY <1>4, <1>5, AllNumbers
<1>. QED
  BY <1>2, <1>6

\* The invariant that the tracks rest on: each step of one frame is one of
\* the feature itself, and what is in the ring is what the features were.
THEOREM FeatureInvariant == FeatureSpec => []FeatureInv
BY FeatureInitInv, FeatureNextInv, PTL DEF FeatureSpec

\* The features, their records and the frame counter keep their kinds, and
\* every point is one that an image can show (FeatureTypeOK of the KLT
\* tracker).
THEOREM FeatureTypeCorrect == FeatureSpec => []FeatureTypeOK
<1>1. FeatureInv => FeatureTypeOK
  BY DEF FeatureInv
<1>. QED
  BY FeatureInvariant, <1>1, PTL

\* However features are lost, tracked and replaced and wherever the ring wraps,
\* a way that is drawn is that of its own feature, what it is checked by is its
\* own image, and no two features are nearer than the minimum distance
\* (TracksAreOwn of track_cb), for any number of features and of frames.
THEOREM TracksHold == FeatureSpec => []TracksAreOwn
<1>1. FeatureInv => TracksAreOwn
  <2>. SUFFICES ASSUME FeatureInv PROVE TracksAreOwn
    OBVIOUS
  <2>1. \A j \in Alive(features) : \A i \in Drawn(j) :
          /\ Past(i, j).val # "lost"
          /\ Past(i, j).point = features[j].point \/ (jumped /\ Past(i, j).val = "selected")
    BY DrawnIsOwn
  <2>2. KeepDistance(features) /\ OwnImages(features)
    BY DEF FeatureInv
  <2>. QED
    BY <2>1, <2>2 DEF TracksAreOwn, Past, KeepDistance, OwnImages
<1>. QED
  BY FeatureInvariant, <1>1, PTL
=============================================================================
