---------------------------- MODULE SampleTaking ----------------------------
(***************************************************************************)
(* The calibrators of cameras and of hand and eye take samples in the same *)
(* way: a request throws away what was received before and waits for the   *)
(* next observation of the marker.  Their services follow each other, and  *)
(* the lock is held while a request is served, but for the waiting.        *)
(*                                                                         *)
(* A task moves the robot, asks for a sample, and waits for it less long   *)
(* than the calibrator does, so that a request may be taken up only after  *)
(* the task has asked for the next.                                        *)
(*                                                                         *)
(* Observations are named by the frame they are from.                      *)
(***************************************************************************)
EXTENDS Sequences, Naturals

CONSTANTS
  MaxFrames,     \* bound on the frames that show the marker
  MaxRequests    \* bound on the samples asked for

ASSUME SampleTakingAssumption == MaxFrames \in Nat /\ MaxRequests \in Nat

VARIABLES
  frames,      \* how many frames were taken
  observed,    \* frames whose observation has not been received, in order
  pose,        \* frame of _pose or _correspondences_set, 0 if that is null
  heard,       \* history: the last frame whose observation was received
  queue,       \* requests that wait for the calibrator
  calibrator,  \* what it does, for which request, with which frame, and what
               \* was heard when the request began
  samples,     \* by frame, request and what was heard before; a pose of the
               \* effector is kept by the time it is of
  outcome,     \* what the requests were answered
  task         \* where the task is

samplingVars ==
  <<frames, observed, pose, heard, queue, calibrator, samples, outcome, task>>

Requests == 1 .. MaxRequests
Frames == 0 .. MaxFrames
Sample == [frame : Frames, effector : Frames, request : Requests, before : Frames]

SamplingTypeOK ==
  /\ {frames, pose, heard} \subseteq Frames
  /\ observed \in Seq(Frames) /\ queue \in Seq(Requests)
  /\ calibrator \in [at : {"idle", "wait", "lookup"}, request : 0 .. MaxRequests,
                     frame : Frames, before : Frames]
  /\ samples \in Seq(Sample)
  /\ outcome \in Seq({"none", "success", "failure"})
  /\ task \in {"moves", "waits", "over"}

SamplingInit ==
  /\ frames = 0 /\ observed = <<>> /\ pose = 0 /\ heard = 0
  /\ queue = <<>>
  /\ calibrator = [at |-> "idle", request |-> 0, frame |-> 0, before |-> 0]
  /\ samples = <<>> /\ outcome = <<>>
  /\ task = "moves"

-----------------------------------------------------------------------------
(* The camera and the detector of the marker.                              *)

TakeFrame ==
  /\ frames < MaxFrames
  /\ frames' = frames + 1
  /\ observed' = Append(observed, frames')
  /\ UNCHANGED <<pose, heard, queue, calibrator, samples, outcome, task>>

\* No marker is found, or a newer observation takes its place in the queue.
LoseFrame ==
  /\ observed # <<>>
  /\ observed' = Tail(observed)
  /\ UNCHANGED <<frames, pose, heard, queue, calibrator, samples, outcome, task>>

\* pose_cb, corres_cb
PoseCB ==
  /\ calibrator.at # "lookup"
  /\ observed # <<>>
  /\ pose' = Head(observed) /\ heard' = Head(observed)
  /\ observed' = Tail(observed)
  /\ UNCHANGED <<frames, queue, calibrator, samples, outcome, task>>

-----------------------------------------------------------------------------
(* The calibrator.                                                         *)

BeginSample_KeepsPose ==
  /\ calibrator.at = "idle" /\ queue # <<>>
  /\ queue' = Tail(queue)
  /\ calibrator' = [at |-> "wait", request |-> Head(queue), frame |-> 0, before |-> heard]
  /\ UNCHANGED <<frames, observed, pose, heard, samples, outcome, task>>
BeginSample ==
  /\ calibrator.at = "idle" /\ queue # <<>>
  /\ queue' = Tail(queue)
  /\ calibrator' = [at |-> "wait", request |-> Head(queue), frame |-> 0, before |-> heard]
  /\ pose' = 0
  /\ UNCHANGED <<frames, observed, heard, samples, outcome, task>>

Answer(how) ==
  /\ calibrator' = [calibrator EXCEPT !.at = "idle"]
  /\ outcome' = [outcome EXCEPT ![calibrator.request] = how]

\* It waits until the time is over and nothing has been received.
WaitTimesOut ==
  /\ calibrator.at = "wait" /\ pose = 0
  /\ Answer("failure")
  /\ UNCHANGED <<frames, observed, pose, heard, queue, samples, task>>

Store(frame, effector) ==
  /\ samples' = Append(samples, [frame |-> frame, effector |-> effector,
                                 request |-> calibrator.request, before |-> calibrator.before])
  /\ Answer("success")

\* Camera calibration: the correspondences are all of the sample.
TakeCorrespondences ==
  /\ calibrator.at = "wait" /\ pose # 0
  /\ Store(pose, pose)
  /\ UNCHANGED <<frames, observed, pose, heard, queue, task>>

\* Hand-eye calibration: the pose of the marker, then where the effector was
\* at that time, which may be unknown.
TakePose ==
  /\ calibrator.at = "wait" /\ pose # 0
  /\ calibrator' = [calibrator EXCEPT !.at = "lookup", !.frame = pose]
  /\ UNCHANGED <<frames, observed, pose, heard, queue, samples, outcome, task>>

LookupEffector ==
  /\ calibrator.at = "lookup"
  /\ Store(calibrator.frame, pose) \/ (Answer("failure") /\ UNCHANGED samples)
  /\ UNCHANGED <<frames, observed, pose, heard, queue, task>>

\* reset, by the task at its beginning or by the operator
Reset ==
  /\ calibrator.at = "idle"
  /\ samples' = <<>>
  /\ UNCHANGED <<frames, observed, pose, heard, queue, calibrator, outcome, task>>

-----------------------------------------------------------------------------
(* _move_and_take_sample of the task.                                      *)

AskForSample ==
  /\ task = "moves"
  /\ Len(outcome) < MaxRequests
  /\ outcome' = Append(outcome, "none")
  /\ queue' = Append(queue, Len(outcome'))
  /\ task' = "waits"
  /\ UNCHANGED <<frames, observed, pose, heard, calibrator, samples>>

\* It is told of success or failure, or does not wait longer.
SampleEnds ==
  /\ task = "waits"
  /\ task' = "moves"
  /\ UNCHANGED <<frames, observed, pose, heard, queue, calibrator, samples, outcome>>

\* compute_calibration waits for the request that is being served.
ComputeCalibration ==
  /\ task = "moves" /\ calibrator.at = "idle"
  /\ task' = "over"
  /\ UNCHANGED <<frames, observed, pose, heard, queue, calibrator, samples, outcome>>

Sampling ==
  \/ TakeFrame \/ LoseFrame \/ PoseCB
  \/ BeginSample \/ WaitTimesOut \/ Reset
  \/ AskForSample \/ SampleEnds \/ ComputeCalibration

CameraNext == Sampling \/ TakeCorrespondences
HandEyeNext == Sampling \/ TakePose \/ LookupEffector

CameraSpec == SamplingInit /\ [][CameraNext]_samplingVars
HandEyeSpec == SamplingInit /\ [][HandEyeNext]_samplingVars

\* The thread of the services goes on.
SamplingFairness ==
  /\ WF_samplingVars(BeginSample)
  /\ WF_samplingVars(WaitTimesOut \/ TakeCorrespondences \/ TakePose \/ LookupEffector)

-----------------------------------------------------------------------------
\* However late requests are served: the marker and the effector of a sample
\* are of one time, which is that of an observation received after the
\* request began, and no observation makes two samples.
SamplesFresh ==
  \A i \in DOMAIN samples :
    /\ samples[i].effector = samples[i].frame
    /\ samples[i].frame > samples[i].before
    /\ \A j \in 1 .. i - 1 :
         samples[j].frame < samples[i].frame /\ samples[j].request < samples[i].request

\* A request is to be answered, perhaps one that the task waits for no more.
RequestLeft == \E r \in DOMAIN outcome : outcome[r] = "none"
=============================================================================
